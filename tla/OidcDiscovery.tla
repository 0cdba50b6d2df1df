---------------------------- MODULE OidcDiscovery ----------------------------
(***************************************************************************)
(* The OpenID discovery cache behind OAuth2 GatewayExtensions: transforms    *)
(* that look an issuer up (get), and the refresh loop that prunes issuers no *)
(* extension uses, rediscovers expired ones and triggers the transforms      *)
(* again when an outcome has changed (refreshOnce, rediscover).              *)
(***************************************************************************)
EXTENDS Naturals, FiniteSets

CONSTANTS Nil, Extension, Issuer,
          Document,       \* provider configurations an issuer may serve
          MaxFailures,    \* cap on the count of consecutive failures
          MaxEdits, MaxOutages,   \* bounds on the changes of the environment
          RacingEdits     \* may an extension change during a refresh pass?

VARIABLES wants,      \* wants[e]: the issuer e discovers from, or Nil
          provider,   \* provider[i]: the document i serves, or "down"
          cache,      \* cache[i]: the discovery result, or Nil
          dirty,      \* extensions whose transform is due
          call,       \* call[e]: the issuer a running transform is discovering, or Nil
          dependant,  \* extensions that have marked the trigger
          row,        \* row[e]: the outcome in the published IR, or Nil
          loop,       \* where the refresh loop is
          live, pruned, expired, changed,   \* locals of refreshOnce
          edits, outages

locals == <<live, pruned, expired, changed>>
vars == <<wants, provider, cache, dirty, call, dependant, row, loop, live, pruned, expired, changed, edits, outages>>

Outcome == Document \cup {"err"}
Result == [out : Outcome, due : BOOLEAN, failures : 0 .. MaxFailures]

\* What the state of the discoverer may be.
TypeOK ==
    /\ wants \in [Extension -> Issuer \cup {Nil}]
    /\ cache \in [Issuer -> Result \cup {Nil}]
    /\ row \in [Extension -> Outcome \cup {Nil}]
    /\ dirty \subseteq Extension /\ dependant \subseteq Extension
    /\ loop \in {"ticker", "split", "prune", "rediscover", "trigger"}

Init ==
    /\ wants \in [Extension -> Issuer \cup {Nil}]
    /\ provider \in [Issuer -> Document \cup {"down"}]
    /\ cache = [i \in Issuer |-> Nil]
    /\ dirty = Extension
    /\ call = [e \in Extension |-> Nil]
    /\ dependant = {}
    /\ row = [e \in Extension |-> Nil]
    /\ loop = "ticker" /\ live = {} /\ pruned = {} /\ expired = {} /\ changed = FALSE
    /\ edits = 0 /\ outages = 0

\* newResult: a failure counts on from the entry it replaces.
newResult(out, failures) ==
    [out |-> out, due |-> FALSE,
     failures |-> IF out # "err" THEN 0 ELSE IF failures < MaxFailures THEN failures + 1 ELSE MaxFailures]

discover(i) == IF provider[i] = "down" THEN "err" ELSE provider[i]

sameOutcome(a, b) == a.out = b.out

-----------------------------------------------------------------------------
(* The environment.                                                         *)

EditExtension(e, i) ==
    /\ edits < MaxEdits /\ edits' = edits + 1
    /\ RacingEdits \/ loop = "ticker"
    /\ i # wants[e] /\ wants' = [wants EXCEPT ![e] = i]
    /\ dirty' = dirty \cup {e}
    /\ UNCHANGED <<provider, cache, call, dependant, row, loop, locals, outages>>

ProviderChanges(i, d) ==
    /\ outages < MaxOutages /\ outages' = outages + 1
    /\ d # provider[i] /\ provider' = [provider EXCEPT ![i] = d]
    /\ UNCHANGED <<wants, cache, dirty, call, dependant, row, loop, locals, edits>>

\* Time passes the expiry of an entry.
Expire(i) ==
    /\ cache[i] # Nil /\ ~cache[i].due
    /\ cache' = [cache EXCEPT ![i].due = TRUE]
    /\ UNCHANGED <<wants, provider, dirty, call, dependant, row, loop, locals, edits, outages>>

-----------------------------------------------------------------------------
(* The GatewayExtension transform: markDependant, then get.                 *)

Transform(e) ==
    LET i == wants[e]
    IN /\ e \in dirty /\ call[e] = Nil
       /\ dirty' = dirty \ {e}
       /\ dependant' = IF i = Nil THEN dependant \ {e} ELSE dependant \cup {e}
       /\ \/ i = Nil /\ row' = [row EXCEPT ![e] = Nil] /\ UNCHANGED call
          \/ i # Nil /\ cache[i] # Nil /\ row' = [row EXCEPT ![e] = cache[i].out] /\ UNCHANGED call
          \/ i # Nil /\ cache[i] = Nil /\ call' = [call EXCEPT ![e] = i] /\ UNCHANGED row
       /\ UNCHANGED <<wants, provider, cache, loop, locals, edits, outages>>

\* The singleflight function checks the cache again before it discovers.
Discovered(e) ==
    LET i == call[e]
        result == IF cache[i] # Nil THEN cache[i] ELSE newResult(discover(i), 0)
    IN /\ i # Nil
       /\ cache' = [cache EXCEPT ![i] = result]
       /\ row' = [row EXCEPT ![e] = result.out]
       /\ call' = [call EXCEPT ![e] = Nil]
       /\ UNCHANGED <<wants, provider, dirty, dependant, loop, locals, edits, outages>>

-----------------------------------------------------------------------------
(* refreshOnce.                                                             *)

\* The live set is resolved outside the lock.
oidcIssuerURIs == {wants[e] : e \in Extension} \ {Nil}
ReadLive ==
    /\ loop = "ticker"
    /\ live' = oidcIssuerURIs
    /\ loop' = "split"
    /\ UNCHANGED <<wants, provider, cache, dirty, call, dependant, row, pruned, expired, changed, edits, outages>>

Split ==
    /\ loop = "split"
    /\ pruned' = {i \in Issuer : cache[i] # Nil /\ i \notin live}
    /\ expired' = {i \in live : cache[i] # Nil /\ cache[i].due}
    /\ changed' = FALSE
    /\ loop' = "prune"
    /\ UNCHANGED <<wants, provider, cache, dirty, call, dependant, row, live, edits, outages>>

Prune ==
    /\ loop = "prune"
    /\ cache' = [i \in Issuer |-> IF i \in pruned THEN Nil ELSE cache[i]]
    /\ pruned' = {} /\ live' = {}
    /\ loop' = IF expired = {} THEN "ticker" ELSE "rediscover"
    /\ UNCHANGED <<wants, provider, dirty, call, dependant, row, expired, changed, edits, outages>>

\* A failed refresh keeps the configuration that was discovered before.
withoutLastKnownGood(prev, out) == newResult(out, prev.failures)
rediscovered(prev, out) ==
    IF out = "err" /\ prev.out # "err" THEN [newResult(out, prev.failures) EXCEPT !.out = prev.out]
    ELSE newResult(out, prev.failures)

neverChanged(prev, next) == FALSE
outcomeChanged(prev, next) == ~sameOutcome(prev, next)

Rediscover(i) ==
    /\ loop = "rediscover" /\ i \in expired
    /\ expired' = expired \ {i}
    /\ IF cache[i] = Nil THEN UNCHANGED <<cache, changed>>
       ELSE LET next == rediscovered(cache[i], discover(i))
            IN /\ cache' = [cache EXCEPT ![i] = next]
               /\ changed' = (changed \/ outcomeChanged(cache[i], next))
    /\ loop' = IF expired' = {} THEN "trigger" ELSE "rediscover"
    /\ UNCHANGED <<wants, provider, dirty, call, dependant, row, live, pruned, edits, outages>>

\* One recomputation for the whole pass.
Trigger ==
    /\ loop = "trigger" /\ loop' = "ticker"
    /\ dirty' = IF changed THEN dirty \cup dependant ELSE dirty
    /\ UNCHANGED <<wants, provider, cache, call, dependant, row, locals, edits, outages>>

RefreshLoop == ReadLive \/ Split \/ Prune \/ (\E i \in Issuer : Rediscover(i)) \/ Trigger

Next ==
    \/ \E e \in Extension, i \in Issuer \cup {Nil} : EditExtension(e, i)
    \/ \E i \in Issuer, d \in Document \cup {"down"} : ProviderChanges(i, d)
    \/ \E i \in Issuer : Expire(i)
    \/ \E e \in Extension : Transform(e) \/ Discovered(e)
    \/ RefreshLoop

\* The ticker fires, time passes, transforms and discoveries end (each has a
\* timeout); no fairness for edits and outages.
Fairness ==
    /\ WF_vars(RefreshLoop)
    /\ \A i \in Issuer : WF_vars(Expire(i)) /\ WF_vars(Rediscover(i))
    /\ \A e \in Extension : WF_vars(Transform(e)) /\ WF_vars(Discovered(e))

Spec == Init /\ [][Next]_vars /\ Fairness

-----------------------------------------------------------------------------
(* Properties.                                                              *)

\* A configuration that was discovered is not withdrawn while an extension
\* discovers from its issuer: neither a failed refresh nor a prune replaces it
\* by an error (rediscover, refreshOnce).
GoodConfigKept ==
    [][\A i \in Issuer :
         cache[i] # Nil /\ cache[i].out # "err" /\ i \in oidcIssuerURIs
            => cache'[i] # Nil /\ cache'[i].out # "err"]_vars

\* An extension whose issuer stays up ends with what the issuer serves: a
\* discovery failure is not latched and a changed document is picked up,
\* though no Kubernetes event announces either (trigger, newResult).
DiscoveryHeals ==
    \A e \in Extension, i \in Issuer, d \in Document :
        <>[](wants[e] = i /\ provider[i] = d) => <>[](row[e] = d)
=============================================================================
