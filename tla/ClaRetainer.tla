---------------------------- MODULE ClaRetainer -----------------------------
(***************************************************************************)
(* claRetainer and the interning of NewPerClientEnvoyEndpoints (cla.go),    *)
(* for one backend: the retainer keys everything by backend.  The transform *)
(* of the collection and the delete handler run on separate goroutines, and *)
(* each takes the retainer's lock once per operation.  A CLA is its content *)
(* and the instance number of its proto; clients of one locality get equal  *)
(* content.                                                                 *)
(***************************************************************************)
EXTENDS Integers

CONSTANTS
    Client,
    LocalityOf,   \* a client's locality, which decides its CLA
    Content,      \* endpoint contents of the backend
    None,
    MaxChanges,   \* bound: changes of the backend and of the clients
    MaxInstance   \* bound: protos built

Locality == {LocalityOf[c] : c \in Client}
Cla == [content : Content, locality : Locality, instance : Nat]

VARIABLES
    backend,    \* kgatewayEndpoints' entry
    uccs,       \* connected clients
    dirty,      \* the transform has to run
    deletes,    \* delete events on their way to the handler
    rows,       \* the collection: a CLA per client
    retained,   \* byBackend
    pass,       \* where the transform is, and the rows it has built
    handler,    \* where the delete handler is
    instances,  \* protos built so far
    raced,      \* history: the backend came back while its entry was being lost
    changes     \* changes so far

vars == <<backend, uccs, dirty, deletes, rows, retained, pass, handler, instances, raced, changes>>

NoRows == [c \in {} |-> None]
Idle == [at |-> "idle", rows |-> NoRows]

Init ==
    /\ backend = None /\ uccs = {} /\ dirty = FALSE /\ deletes = 0
    /\ rows = NoRows /\ retained = {} /\ pass = Idle /\ handler = "idle"
    /\ instances = 0 /\ raced = FALSE /\ changes = 0

Change ==
    /\ changes < MaxChanges
    /\ changes' = changes + 1

-----------------------------------------------------------------------------
(* Inputs: KRT runs the transform after any of them and sends the handler an  *)
(* event for a delete.                                                       *)

\* The code accepts that sharing is lost until the next change of content: a
\* backend returns between the check for it and the forget, or after the forget
\* while its old rows are still there.
EntryLost ==
    \/ handler = "absent" \/ pass.at = "absent"
    \/ retained = {} /\ (rows # NoRows \/ pass.rows # NoRows)

BackendChanges ==
    /\ Change
    /\ \E x \in (Content \cup {None}) \ {backend} :
         /\ backend' = x
         /\ deletes' = IF x = None THEN deletes + 1 ELSE deletes
    /\ dirty' = TRUE
    /\ raced' = (raced \/ (backend = None /\ EntryLost))
    /\ UNCHANGED <<uccs, rows, retained, pass, handler, instances>>

ClientChanges(c) ==
    /\ Change
    /\ uccs' = IF c \in uccs THEN uccs \ {c} ELSE uccs \cup {c}
    /\ dirty' = TRUE
    /\ UNCHANGED <<backend, deletes, rows, retained, pass, handler, instances, raced>>

-----------------------------------------------------------------------------
(* The transform *)

\* Mutant: the interner of a pass starts empty.
InternUnseeded(l) ==
    [content |-> backend, locality |-> l, instance |-> instances + 1]

\* The seeded interner returns the retained proto of equal content, or a new one
\* that the clients of the locality share.
Intern(l) ==
    LET equal == {x \in retained : x.content = backend /\ x.locality = l}
    IN  IF equal # {} THEN CHOOSE x \in equal : TRUE
        ELSE [content |-> backend, locality |-> l, instance |-> instances + 1]

\* The transform computes its rows; KRT drops the rows of a deleted backend
\* without running it.
BuildRows ==
    /\ pass.at = "idle" /\ dirty
    /\ dirty' = FALSE
    /\ IF backend = None
       THEN /\ rows' = NoRows
            /\ UNCHANGED <<pass, instances>>
       ELSE /\ instances < MaxInstance
            /\ pass' = [at |-> "built", rows |-> [c \in uccs |-> Intern(LocalityOf[c])]]
            /\ instances' = instances + 1
            /\ UNCHANGED rows
    /\ UNCHANGED <<backend, uccs, deletes, retained, handler, raced, changes>>

\* Mutant: the presence of the backend is not checked after the store.
keepUnchecked ==
    /\ pass.at = "built"
    /\ pass' = [pass EXCEPT !.at = "done"]
    /\ retained' = {pass.rows[c] : c \in DOMAIN pass.rows}
    /\ UNCHANGED <<backend, uccs, dirty, deletes, rows, handler, instances, raced, changes>>

\* keep replaces the entry by the distinct CLAs of the rows.
keep ==
    /\ pass.at = "built"
    /\ pass' = [pass EXCEPT !.at = "kept"]
    /\ retained' = {pass.rows[c] : c \in DOMAIN pass.rows}
    /\ UNCHANGED <<backend, uccs, dirty, deletes, rows, handler, instances, raced, changes>>

\* keepIfPresent asks the source collection after the store...
checkPresent ==
    /\ pass.at = "kept"
    /\ pass' = [pass EXCEPT !.at = IF backend = None THEN "absent" ELSE "done"]
    /\ UNCHANGED <<backend, uccs, dirty, deletes, rows, retained, handler, instances, raced, changes>>

forget == retained' = {}

\* ...and forgets what it stored for a backend that had gone.
forgetKept ==
    /\ pass.at = "absent"
    /\ pass' = [pass EXCEPT !.at = "done"]
    /\ forget
    /\ UNCHANGED <<backend, uccs, dirty, deletes, rows, handler, instances, raced, changes>>

\* KRT stores the rows; a row of equal content keeps the object it has.
StoreRows ==
    /\ pass.at = "done"
    /\ pass' = Idle
    /\ rows' = [c \in DOMAIN pass.rows |->
                  IF c \in DOMAIN rows /\ rows[c].content = pass.rows[c].content
                  THEN rows[c] ELSE pass.rows[c]]
    /\ UNCHANGED <<backend, uccs, dirty, deletes, retained, handler, instances, raced, changes>>

-----------------------------------------------------------------------------
(* The delete handler *)

\* The handler asks whether the backend is absent now, not at the event...
HandleDelete ==
    /\ handler = "idle" /\ deletes > 0
    /\ deletes' = deletes - 1
    /\ handler' = IF backend = None THEN "absent" ELSE "idle"
    /\ UNCHANGED <<backend, uccs, dirty, rows, retained, pass, instances, raced, changes>>

\* ...and forgets if it was.
forgetIfAbsent ==
    /\ handler = "absent"
    /\ handler' = "idle"
    /\ forget
    /\ UNCHANGED <<backend, uccs, dirty, deletes, rows, pass, instances, raced, changes>>

-----------------------------------------------------------------------------
Transform == BuildRows \/ keep \/ checkPresent \/ forgetKept \/ StoreRows
Handler == HandleDelete \/ forgetIfAbsent

Next == BackendChanges \/ (\E c \in Client : ClientChanges(c)) \/ Transform \/ Handler

Spec == Init /\ [][Next]_vars

-----------------------------------------------------------------------------
IsRows(f) == DOMAIN f \subseteq Client /\ \A c \in DOMAIN f : f[c] \in Cla

TypeOK ==
    /\ backend \in Content \cup {None} /\ uccs \subseteq Client
    /\ dirty \in BOOLEAN /\ deletes \in Nat
    /\ IsRows(rows) /\ retained \subseteq Cla
    /\ pass.at \in {"idle", "built", "kept", "absent", "done"} /\ IsRows(pass.rows)
    /\ handler \in {"idle", "absent"}
    /\ instances \in Nat /\ raced \in BOOLEAN /\ changes \in Nat

\* An entry of a deleted backend never outlives it for good: whenever one is
\* retained, the handler's event or the check after the store is still to come.
NoLeak ==
    backend = None /\ retained # {} =>
        deletes > 0 \/ handler = "absent" \/ pass.at \in {"kept", "absent"}

\* Rows of equal content share one proto, whichever pass built them: a client that
\* connects later gets the instance that the earlier ones hold.  A delete event
\* that arrives after the backend is back does not end this.
RowsShare ==
    ~raced => \A c, d \in DOMAIN rows :
                 rows[c].content = rows[d].content /\ rows[c].locality = rows[d].locality
                 => rows[c] = rows[d]

\* What claRetainer promises: no leak, and sharing.
RetainerExact == NoLeak /\ RowsShare
=============================================================================
