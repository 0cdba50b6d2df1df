----------------------------- MODULE Validation -----------------------------
(***************************************************************************)
(* Strict validation: workers translate virtual hosts (irtranslator/        *)
(* route.go) and clusters (irtranslator/backend.go) and run what they built *)
(* past an Envoy process (validator.go), behind a bounded cache with one    *)
(* flight per content (cache.go) and, for clusters, a memo (memo.go).  A    *)
(* virtual host that Envoy rejects is taken apart route by route            *)
(* (validate.go).                                                           *)
(*                                                                          *)
(* A rule is abstracted to what can be wrong with it: its matcher (bad      *)
(* "syntax" is found in process, "rejected" only by Envoy), its action (a   *)
(* bad "path" is found in process, "rejected" only by Envoy, or there is    *)
(* "none"), its policies, and what went wrong before the IR was built.      *)
(***************************************************************************)
EXTENDS Integers, Sequences, FiniteSets

CONSTANTS
    Worker,      \* what translates at the same time
    Jobs,        \* what there is to translate: virtual hosts and clusters
    Clash,       \* pairs of rule names that Envoy only rejects together
    CacheSize,   \* ValidatorCacheSize
    MaxJobs,     \* bound: translations
    MaxFaults    \* bound: Envoy processes that cannot be run or are killed

Rule == [name : Nat, matcher : {"ok", "syntax", "rejected"},
         action : {"ok", "path", "rejected", "none"}, policy : BOOLEAN,
         delegates : BOOLEAN, earlier : BOOLEAN]
VirtualHost == [rules : Seq(Rule), policy : BOOLEAN]
Cluster == [cluster : {"ok", "rejected"}]

\* The jobs are what the translator is given, and no route clashes with itself:
\* Clash has what only shows in a virtual host with both.
JobsAdmitted == Jobs \subseteq VirtualHost \cup Cluster /\ \A c \in Clash : c[1] # c[2]

VARIABLES
    strict,    \* ValidationMode is STRICT
    work,      \* work[w]: the translation that w is in, or its last one
    cache,     \* cachingValidator.cache: the verdicts by bootstrap
    memo,      \* Memo.cache: the verdicts by cluster
    jobs,      \* translations left of MaxJobs
    killed,    \* Envoy processes that a signal ended
    failed     \* Envoy processes that could not be run

vars == <<strict, work, cache, memo, jobs, killed, failed>>

IsVhost(job) == "rules" \in DOMAIN job
Idle == [pc |-> "idle", end |-> "none", out |-> <<>>]

-----------------------------------------------------------------------------
(* The routes of a virtual host: route.go *)

\* The Envoy route of a rule; "500" is the direct response of a replaced one.
initRoutes(rule) == [name |-> rule.name, matcher |-> rule.matcher, action |-> rule.action]

\* validateEnvoyRoute: a path, a rewrite or the weights of the action are invalid.
BadPath(route) == route.action = "path"
\* validateGeneratedMatcher: a regex or a prefix of the matcher does not parse.
BadSyntax(route) == route.matcher = "syntax"

\* The checks that need no Envoy.
validateRoutePreEnvoy(route) ==
    IF BadPath(route) THEN "route" ELSE IF strict /\ BadSyntax(route) THEN "matcher" ELSE "ok"

\* Mutant: a rule with an invalid matcher is replaced like any other.
finalizeKeepsMatcher(rule, route, err) ==
    IF err = "ok" /\ ~rule.earlier THEN IF rule.delegates THEN <<>> ELSE <<route>>
    ELSE <<[route EXCEPT !.action = "500"]>>

\* A rule without errors stays, unless it only delegates; one with an invalid
\* matcher is dropped; with any other error it becomes a direct response.
finalizeRoute(rule, route, err) ==
    IF err = "ok" /\ ~rule.earlier THEN IF rule.delegates THEN <<>> ELSE <<route>>
    ELSE IF err = "matcher" THEN <<>>
    ELSE <<[route EXCEPT !.action = "500"]>>

\* Errors of the policies come first; a delegating rule needs no action.
envoyRoutes(rule) ==
    LET route == initRoutes(rule)
        err == IF rule.policy THEN "policy"
               ELSE IF rule.delegates THEN "ok"
               ELSE IF rule.action = "none" THEN "route"
               ELSE validateRoutePreEnvoy(route)
    IN  finalizeRoute(rule, route, err)

\* The lists of ss, one after the other.
Flatten(ss) ==
    LET All[n \in 0..Len(ss)] == IF n = 0 THEN <<>> ELSE All[n - 1] \o ss[n]
    IN  All[Len(ss)]

\* The rules that leave a route in the virtual host, each with its route.
computedRoutes(rules) ==
    LET Computed(rule) ==
          LET out == envoyRoutes(rule)
          IN  IF out = <<>> THEN <<>> ELSE <<[in |-> rule, route |-> out[1]]>>
    IN  Flatten([n \in DOMAIN rules |-> Computed(rules[n])])

RoutesOf(computed) == [i \in DOMAIN computed |-> computed[i].route]

-----------------------------------------------------------------------------
(* What is validated: a bootstrap with routes, or with a cluster *)

validateFullRoutes(routes) == [routes |-> routes]
validateMatcherOnlyEnvoy(route) == [routes |-> <<[route EXCEPT !.action = "dummy-cluster"]>>]
clusterBootstrap(cluster) == [cluster |-> cluster]

\* External: what Envoy accepts.
Accepts(boot) ==
    IF "cluster" \in DOMAIN boot THEN boot.cluster = "ok"
    ELSE LET routes == boot.routes
         IN  /\ \A i \in DOMAIN routes :
                  routes[i].matcher = "ok" /\ routes[i].action \in {"ok", "500", "dummy-cluster"}
             /\ \A i, k \in DOMAIN routes :
                  routes[i].action = "ok" /\ routes[k].action = "ok"
                    => <<routes[i].name, routes[k].name>> \notin Clash
Verdict(boot) == IF Accepts(boot) THEN "valid" ELSE "invalid"

\* External: the caches that may follow when a verdict is added to a full one.
Added(entries, boot, verdict) ==
    LET entry == [boot |-> boot, verdict |-> verdict]
        all == {e \in entries : e.boot # boot} \cup {entry}
    IN  IF Cardinality(all) <= CacheSize THEN {all} ELSE {all \ {e} : e \in all \ {entry}}

-----------------------------------------------------------------------------
(* The steps of a translation.  A worker that validates is at "get" (the    *)
(* cache), at "do" (the flight), "leads" or "joins" a flight; the result is *)
(* taken up where `to` says.                                                *)

Call(rec, boot, to) == [rec EXCEPT !.pc = "get", !.boot = boot, !.to = to]
\* What is published: the routes (of a cluster: itself), or 500 (a blackhole) for all.
Served(rec, out) == [pc |-> "idle", end |-> "served", job |-> rec.job, out |-> out]
Fallback(rec) == [pc |-> "idle", end |-> "fallback", job |-> rec.job, out |-> <<>>]

\* Isolation is done with route i: err is its error, or "ok".
Isolated(rec, err) ==
    LET c == rec.computed[rec.i]
        route == IF err = "ok" THEN <<c.route>> ELSE finalizeRoute(c.in, c.route, err)
    IN  [rec EXCEPT !.pc = "isolate", !.i = @ + 1, !.kept = @ \o route]

\* Mutant: what isolation leaves is not validated again.
ResumeOnce(rec, result) ==
    LET ok == result = "valid"
    IN  CASE rec.to = "batch" -> IF ok THEN Served(rec, RoutesOf(rec.computed)) ELSE [rec EXCEPT !.pc = "isolate"]
          [] rec.to = "alone" ->
               IF ok THEN Isolated(rec, "ok")
               ELSE Call(rec, validateMatcherOnlyEnvoy(rec.computed[rec.i].route), "matcher")
          [] rec.to = "matcher" -> Isolated(rec, IF ok THEN "route" ELSE "matcher")
          [] rec.to = "again" -> Served(rec, rec.kept)
          [] rec.to = "cluster" -> IF ok THEN Served(rec, <<>>) ELSE Fallback(rec)

\* validateStrictRouteBatch and validateRouteWithEnvoy go on with a result;
\* an error that is no verdict counts as a rejection.
Resume(rec, result) ==
    LET ok == result = "valid"
    IN  CASE rec.to = "batch" -> IF ok THEN Served(rec, RoutesOf(rec.computed)) ELSE [rec EXCEPT !.pc = "isolate"]
          [] rec.to = "alone" ->
               IF ok THEN Isolated(rec, "ok")
               ELSE Call(rec, validateMatcherOnlyEnvoy(rec.computed[rec.i].route), "matcher")
          [] rec.to = "matcher" -> Isolated(rec, IF ok THEN "route" ELSE "matcher")
          [] rec.to = "again" -> IF ok THEN Served(rec, rec.kept) ELSE Fallback(rec)
          [] rec.to = "cluster" -> IF ok THEN Served(rec, <<>>) ELSE Fallback(rec)

Init ==
    /\ strict \in BOOLEAN
    /\ work = [w \in Worker |-> Idle]
    /\ cache = {} /\ memo = {}
    /\ jobs = MaxJobs /\ killed = 0 /\ failed = 0

\* computeVirtualHost up to the first validation.
computeVirtualHost(w, job) ==
    LET computed == computedRoutes(job.rules)
        rec == [pc |-> "start", job |-> job, end |-> "none", out |-> <<>>, computed |-> computed,
                i |-> 1, kept |-> <<>>, boot |-> "none", to |-> "none"]
    IN  /\ IsVhost(job) /\ work[w].pc = "idle" /\ jobs > 0
        /\ jobs' = jobs - 1
        /\ work' = [work EXCEPT ![w] =
                      IF job.policy THEN Fallback(rec)
                      ELSE IF ~strict \/ computed = <<>> THEN Served(rec, RoutesOf(computed))
                      ELSE Call(rec, validateFullRoutes(RoutesOf(computed)), "batch")]
        /\ UNCHANGED <<strict, cache, memo, killed, failed>>

\* validateClusterConfig up to the validator: a memoized verdict is the answer.
validateClusterConfig(w, job) ==
    LET boot == clusterBootstrap(job.cluster)
        hits == {e \in memo : e.boot = boot}
        rec == [pc |-> "start", job |-> job, end |-> "none", out |-> <<>>,
                boot |-> "none", to |-> "cluster"]
    IN  /\ ~IsVhost(job) /\ work[w].pc = "idle" /\ jobs > 0
        /\ jobs' = jobs - 1
        /\ work' = [work EXCEPT ![w] =
                      IF ~strict THEN Served(rec, <<>>)
                      ELSE IF hits = {} THEN Call(rec, boot, "cluster")
                      ELSE Resume(rec, (CHOOSE e \in hits : TRUE).verdict)]
        /\ UNCHANGED <<strict, cache, memo, killed, failed>>

\* Isolation takes up the next route: one that fails before Envoy is finalized,
\* another is validated alone; after the last, what is left is validated again.
validateStrictRouteBatch(w) ==
    LET rec == work[w]
        err == validateRoutePreEnvoy(rec.computed[rec.i].route)
    IN  /\ rec.pc = "isolate"
        /\ work' = [work EXCEPT ![w] =
                      IF rec.i <= Len(rec.computed)
                      THEN IF err # "ok" THEN Isolated(rec, err)
                           ELSE Call(rec, validateFullRoutes(<<rec.computed[rec.i].route>>), "alone")
                      ELSE IF rec.kept = <<>> THEN Served(rec, <<>>)
                      ELSE Call(rec, validateFullRoutes(rec.kept), "again")]
        /\ UNCHANGED <<strict, cache, memo, jobs, killed, failed>>

\* cachingValidator.Validate: the cache
CacheGet(w) ==
    LET hits == {e \in cache : e.boot = work[w].boot}
    IN  /\ work[w].pc = "get"
        /\ work' = [work EXCEPT ![w] =
                      IF hits = {} THEN [@ EXCEPT !.pc = "do"]
                      ELSE Resume(@, (CHOOSE e \in hits : TRUE).verdict)]
        /\ IF hits # {} /\ work[w].to = "cluster"
           THEN memo' \in Added(memo, work[w].boot, (CHOOSE e \in hits : TRUE).verdict)
           ELSE memo' = memo
        /\ UNCHANGED <<strict, cache, jobs, killed, failed>>

\* cachingValidator.Validate: the first of a bootstrap leads, others join it.
FlightDo(w) ==
    LET leaders == {v \in Worker : work[v].pc = "leads" /\ work[v].boot = work[w].boot}
    IN  /\ work[w].pc = "do"
        /\ work' = [work EXCEPT ![w].pc = IF leaders = {} THEN "leads" ELSE "joins"]
        /\ UNCHANGED <<strict, cache, memo, jobs, killed, failed>>

Flight(w) == {v \in Worker : work[v].pc \in {"leads", "joins"} /\ work[v].boot = work[w].boot}

\* Mutant: those who joined are not told.
LandForgets(w, result) ==
    work' = [v \in Worker |-> IF v = w THEN Resume(work[v], result) ELSE work[v]]

\* The flight ends with one result for all of it.
Land(w, result) ==
    work' = [v \in Worker |-> IF v \in Flight(w) THEN Resume(work[v], result) ELSE work[v]]

\* A verdict is remembered before the flight ends; a cluster's also in the memo.
Remember(w, verdict) ==
    /\ cache' \in Added(cache, work[w].boot, verdict)
    /\ IF work[w].to = "cluster" THEN memo' \in Added(memo, work[w].boot, verdict)
       ELSE memo' = memo

\* binaryValidator.Validate: Envoy ran to its end.
EnvoyExits(w) ==
    /\ work[w].pc = "leads"
    /\ Land(w, Verdict(work[w].boot)) /\ Remember(w, Verdict(work[w].boot))
    /\ UNCHANGED <<strict, jobs, killed, failed>>

\* A signal ended the process (out of memory, or the context was cancelled):
\* that is an ExitError, so the answer is ErrInvalidXDS, and it is remembered.
EnvoyKilled(w) ==
    /\ work[w].pc = "leads" /\ killed + failed < MaxFaults
    /\ Land(w, "invalid") /\ Remember(w, "invalid")
    /\ killed' = killed + 1
    /\ UNCHANGED <<strict, jobs, failed>>

\* Mutant: the failure is remembered as a rejection.
EnvoyFailsCached(w) ==
    /\ work[w].pc = "leads" /\ killed + failed < MaxFaults
    /\ Land(w, "error") /\ Remember(w, "invalid")
    /\ failed' = failed + 1
    /\ UNCHANGED <<strict, jobs, killed>>

\* The process could not be run: all of the flight get the error, nothing is remembered.
EnvoyFails(w) ==
    /\ work[w].pc = "leads" /\ killed + failed < MaxFaults
    /\ Land(w, "error")
    /\ failed' = failed + 1
    /\ UNCHANGED <<strict, cache, memo, jobs, killed>>

Step(w) == validateStrictRouteBatch(w) \/ CacheGet(w) \/ FlightDo(w) \/ EnvoyExits(w)

Next ==
    \E w \in Worker :
      \/ \E job \in Jobs : computeVirtualHost(w, job) \/ validateClusterConfig(w, job)
      \/ Step(w) \/ EnvoyKilled(w) \/ EnvoyFails(w)

\* Workers go on while they can, and an Envoy in validate mode ends.
Fairness == \A w \in Worker : WF_vars(Step(w))

Spec == Init /\ [][Next]_vars /\ Fairness

-----------------------------------------------------------------------------
\* While no process was killed, every remembered verdict is Envoy's own: what
\* could not be run, and what a joined flight answered, is never remembered.
VerdictsExact == killed = 0 => \A e \in cache \cup memo : e.verdict = Verdict(e.boot)

\* In strict mode whatever is published was accepted by Envoy as a whole,
\* also when processes failed or were killed on the way.
OnlyValidServed ==
    strict => \A w \in Worker : work[w].end = "served" =>
      Accepts(IF IsVhost(work[w].job) THEN validateFullRoutes(work[w].out)
              ELSE clusterBootstrap(work[w].job.cluster))

\* What strict mode should make of a rule, whatever is beside it.
Fate(rule) ==
    LET errs == rule.policy \/ rule.earlier \/ (~rule.delegates /\ rule.action # "ok")
    IN  IF (rule.delegates /\ ~errs) \/ rule.matcher # "ok" THEN <<>>
        ELSE <<[name |-> rule.name, matcher |-> "ok", action |-> IF errs THEN "500" ELSE "ok"]>>

\* What strict mode should make of a virtual host, rule by rule.
Expected(job) ==
    LET routes == Flatten([n \in DOMAIN job.rules |-> Fate(job.rules[n])])
    IN  IF job.policy \/ ~Accepts(validateFullRoutes(routes)) THEN <<"fallback", <<>>>>
        ELSE <<"served", routes>>

\* While Envoy always answers, an invalid rule costs only itself: a bad matcher
\* drops it, another error makes it a 500, and the rules beside it stay as they
\* are; the whole virtual host falls back only for what no rule alone explains.
IsolationExact ==
    strict /\ killed + failed = 0 =>
      \A w \in Worker : work[w].end # "none" =>
        <<work[w].end, work[w].out>> =
          IF IsVhost(work[w].job) THEN Expected(work[w].job)
          ELSE <<IF work[w].job.cluster = "ok" THEN "served" ELSE "fallback", <<>>>>

\* Every translation ends, for the one that leads a flight and for those who
\* joined it, whatever becomes of its process.
EveryTranslationEnds == \A w \in Worker : (work[w].pc # "idle") ~> (work[w].pc = "idle")
=============================================================================
