----------------------------- MODULE SdsRotation -----------------------------
(***************************************************************************)
(* The SDS sidecar (pkg/sds): it reads key, certificate and CA of every      *)
(* secret, publishes them as one snapshot, and reads them again, debounced,  *)
(* when the file watcher reports a change.  File content is its generation;  *)
(* a key and a certificate of one generation form a pair.  Files are changed *)
(* in place (a write that can be seen half done), or replaced by a rename,   *)
(* one by one or, as a Kubernetes mount does, all at once: a watch is on the *)
(* inode, so the replacement raises an event and ends the watch.             *)
(***************************************************************************)
EXTENDS Integers, Sequences, FiniteSets

CONSTANTS
    Secrets,      \* s.secrets: how many
    MaxAttempts,  \* sdsKeyPairValidationAttempts
    Styles,       \* how files change: a subset of {"write", "rename", "swap"}
    Torn, None,
    MaxGen        \* bound: rotations

ASSUME SdsAssumption ==
    /\ Secrets \in Nat \ {0} /\ MaxAttempts \in Nat \ {0} /\ MaxGen \in Nat
    /\ Styles \subseteq {"write", "rename", "swap"}
    /\ Torn \notin Nat /\ None \notin Nat

Kinds == <<"key", "cert", "ca">>
File == (1..Secrets) \X {"key", "cert", "ca"}
\* The order in which files are read, and watched.
Order == [i \in 1..(3 * Secrets) |-> <<(i + 2) \div 3, Kinds[((i - 1) % 3) + 1]>>]

VARIABLES
    gen,       \* the generation that files are being rotated to
    content,   \* content[f]: the generation in the file, or Torn
    watched,   \* files whose current inode is watched
    missed,    \* history: a file changed while it was not watched
    events,    \* watcher.Events holds an event
    pending,   \* pendingUpdate; the debounce timer is running
    loop,      \* "reading", "watching", "idle", "exited"
    started,   \* Run is past its first UpdateSDSConfig
    cursor,    \* position in Order of the next read, or watch
    attempts,  \* attempts at the current secret
    read,      \* what this update has read
    served,    \* the snapshot, or None
    cancelled  \* ctx is done

vars == <<gen, content, watched, missed, events, pending, loop, started, cursor, attempts, read, served,
          cancelled>>
files == <<gen, content, watched, missed>>

Init ==
    /\ gen = 0 /\ content = [f \in File |-> 0] /\ watched = {} /\ missed = FALSE
    /\ events = FALSE /\ pending = FALSE
    /\ loop = "reading" /\ started = FALSE /\ cursor = 1 /\ attempts = 1
    /\ read = [f \in File |-> None] /\ served = None /\ cancelled = FALSE

-----------------------------------------------------------------------------
(* Rotations *)

Rotated == \A f \in File : content[f] = gen

\* The next rotation may begin, at any time.
Rotates == gen < MaxGen /\ Rotated

Begin ==
    /\ Rotates /\ Styles \cap {"write", "rename"} # {}
    /\ gen' = gen + 1
    /\ UNCHANGED <<content, watched, missed, events, pending, loop, started, cursor, attempts, read, served, cancelled>>

\* A write truncates the file and then fills it.
Write(f) ==
    /\ "write" \in Styles /\ content[f] # gen
    /\ content' = [content EXCEPT ![f] = IF @ = Torn THEN gen ELSE Torn]
    /\ events' = (events \/ f \in watched) /\ missed' = (missed \/ f \notin watched)
    /\ UNCHANGED <<gen, watched, pending, loop, started, cursor, attempts, read, served, cancelled>>

Rename(f) ==
    /\ "rename" \in Styles /\ content[f] \notin {gen, Torn}
    /\ content' = [content EXCEPT ![f] = gen]
    /\ events' = (events \/ f \in watched) /\ missed' = (missed \/ f \notin watched)
    /\ watched' = watched \ {f}
    /\ UNCHANGED <<gen, pending, loop, started, cursor, attempts, read, served, cancelled>>

Swap ==
    /\ "swap" \in Styles /\ Rotates
    /\ gen' = gen + 1 /\ content' = [f \in File |-> gen + 1]
    /\ events' = (events \/ watched # {}) /\ missed' = (missed \/ watched # File)
    /\ watched' = {}
    /\ UNCHANGED <<pending, loop, started, cursor, attempts, read, served, cancelled>>

-----------------------------------------------------------------------------
(* UpdateSDSConfig *)

\* Mutant: the pair is not validated.
readableUnpaired(f) == content[f] # Torn

\* readAndVerifyCert, and after the certificate tls.X509KeyPair.
readable(f) ==
    /\ content[f] # Torn
    /\ f[2] = "cert" => content[f] = read[<<f[1], "key">>]

UpdateSDSConfig ==
    LET f == Order[cursor]
        items == [read EXCEPT ![f] = content[f]]
    IN  /\ loop = "reading" /\ ~cancelled /\ readable(f)
        /\ read' = items
        /\ IF cursor < Len(Order)
           THEN /\ cursor' = cursor + 1
                /\ attempts' = IF f[2] = "ca" THEN 1 ELSE attempts
                /\ UNCHANGED <<served, loop, started>>
           ELSE /\ served' = items
                /\ loop' = "watching" /\ cursor' = 1 /\ attempts' = 1
                /\ started' = TRUE
        /\ UNCHANGED <<files, events, pending, cancelled>>

\* retry.Do: the whole secret is read again.
Retry ==
    /\ loop = "reading" /\ ~cancelled /\ ~readable(Order[cursor])
    /\ attempts < MaxAttempts
    /\ attempts' = attempts + 1
    /\ cursor' = 3 * (Order[cursor][1] - 1) + 1
    /\ UNCHANGED <<files, events, pending, loop, started, read, served, cancelled>>

\* Mutant: a failed update leaves the watches as they are.
UpdateFailsUnwatched ==
    /\ loop = "reading"
    /\ cancelled \/ (~readable(Order[cursor]) /\ attempts = MaxAttempts)
    /\ loop' = IF ~started \/ cancelled THEN "exited" ELSE "idle"
    /\ cursor' = 1 /\ attempts' = 1
    /\ UNCHANGED <<files, events, pending, started, read, served, cancelled>>

\* The update fails: Run returns if it is the first one, the loop watches the
\* files again, and the snapshot stays as it is.
UpdateFails ==
    /\ loop = "reading"
    /\ cancelled \/ (~readable(Order[cursor]) /\ attempts = MaxAttempts)
    /\ loop' = IF ~started \/ cancelled THEN "exited" ELSE "watching"
    /\ cursor' = 1 /\ attempts' = 1
    /\ UNCHANGED <<files, events, pending, started, read, served, cancelled>>

-----------------------------------------------------------------------------
(* Run *)

watchFiles ==
    /\ loop = "watching"
    /\ watched' = watched \cup {Order[cursor]}
    /\ IF cursor < Len(Order)
       THEN cursor' = cursor + 1 /\ UNCHANGED loop
       ELSE cursor' = 1 /\ loop' = "idle"
    /\ UNCHANGED <<gen, content, missed, events, pending, started, attempts, read, served, cancelled>>

\* Mutant: events that arrive during an update are taken to be its own.
EventDrained ==
    /\ loop \in {"idle", "watching"} /\ events
    /\ events' = FALSE /\ pending' = (loop = "idle")
    /\ UNCHANGED <<files, loop, started, cursor, attempts, read, served, cancelled>>

\* runWatcherLoop receives an event and starts the timer again.
Event ==
    /\ loop = "idle" /\ events
    /\ events' = FALSE /\ pending' = TRUE
    /\ UNCHANGED <<files, loop, started, cursor, attempts, read, served, cancelled>>

\* The debounce timer fires.
Debounced ==
    /\ loop = "idle" /\ pending
    /\ pending' = FALSE
    /\ loop' = IF cancelled THEN "exited" ELSE "reading"
    /\ read' = [f \in File |-> None]
    /\ UNCHANGED <<files, events, started, cursor, attempts, served, cancelled>>

\* A signal, or the end of the caller's context.
Cancel ==
    /\ ~cancelled /\ cancelled' = TRUE
    /\ UNCHANGED <<files, events, pending, loop, started, cursor, attempts, read, served>>

Exit ==
    /\ loop = "idle" /\ cancelled /\ loop' = "exited"
    /\ UNCHANGED <<files, events, pending, started, cursor, attempts, read, served, cancelled>>

-----------------------------------------------------------------------------
Rotation == Begin \/ Swap \/ \E f \in File : Write(f) \/ Rename(f)
Update == UpdateSDSConfig \/ Retry \/ UpdateFails
Loop == watchFiles \/ Event \/ Debounced \/ Exit

Next == Rotation \/ Update \/ Loop \/ Cancel

Spec == Init /\ [][Next]_vars

\* Who begins to change a file ends it, and the loop runs: the timer fires once
\* events stop.
Fairness ==
    /\ \A f \in File : WF_vars(Write(f) \/ Rename(f))
    /\ WF_vars(Update) /\ WF_vars(watchFiles) /\ WF_vars(Exit)
    /\ WF_vars(Event) /\ WF_vars(Debounced)

FairSpec == Spec /\ Fairness

-----------------------------------------------------------------------------
TypeOK ==
    /\ gen \in 0..MaxGen /\ content \in [File -> (0..MaxGen) \cup {Torn}] /\ watched \subseteq File
    /\ missed \in BOOLEAN /\ events \in BOOLEAN /\ pending \in BOOLEAN /\ started \in BOOLEAN /\ cancelled \in BOOLEAN
    /\ loop \in {"reading", "watching", "idle", "exited"}
    /\ cursor \in 1..Len(Order) /\ attempts \in 1..MaxAttempts
    /\ read \in [File -> (0..MaxGen) \cup {None}]
    /\ served = None \/ served \in [File -> 0..MaxGen]

\* A key is never served with the certificate of another generation, however
\* reads and writes interleave and however many secrets there are.
PairMatches ==
    served # None => \A s \in 1..Secrets : served[<<s, "key">>] = served[<<s, "cert">>]

\* The loop never goes to sleep with a file unwatched: when it is idle with
\* nothing to handle, every file is watched, and the next change will be seen.
NeverBlind ==
    loop = "idle" /\ ~events /\ ~pending => watched = File

\* What is served is whole, and the loop sleeps only with every file watched.
RotationSafe == PairMatches /\ NeverBlind

\* In the end what is served is what is in the files, if every change came to a
\* file that was watched: no event is lost to an update that is under way, to a
\* failed one or to the debouncing.
SeenRotationServed ==
    <>[](loop = "exited" \/ missed \/ (Rotated /\ served = content))

\* In the end what is served is what is in the files, whenever they change.
RotationServed ==
    <>[](loop = "exited" \/ (Rotated /\ served = content))
=============================================================================
