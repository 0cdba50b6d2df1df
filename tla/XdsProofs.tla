------------------------------ MODULE XdsProofs -----------------------------
(***************************************************************************)
(* Proofs about what Envoy is served: the policies merged into it           *)
(* (PolicyMerge), the certificates of the SDS server (SdsRotation) and the  *)
(* snapshots of the xDS server (PerClientXds).                              *)
(***************************************************************************)
EXTENDS SdsRotation, TLAPS

(***************************************************************************)
(* PolicyMerge, for any lists of policies, any hierarchies and settings.    *)
(* The invariant says what an accumulator holds after some of its inputs    *)
(* have been folded: within a hierarchy the first policy counts, across     *)
(* hierarchies the one that prevails among those folded.  That the next     *)
(* input comes behind the folded ones is what makes the two agree with the  *)
(* order of the loops.                                                      *)
(***************************************************************************)
CONSTANTS PolicyLists, Overrides, MaxRounds
VARIABLES pols, tpOpts, heap, accs, todo, round
M == INSTANCE PolicyMerge

\* The cells there are, and what a cell holds at the start.
Cell == (M!AttachedPolicies \cup M!Accumulator) \X M!Field
Content(c) ==
    IF c[1][1] = "policy" /\ pols[c[1][2]].spec[c[2]] # M!Nil
    THEN pols[c[1][2]].spec[c[2]][1] ELSE M!Nil

\* The cells of attached policies, and those of fields that are only ever
\* pointed to, hold what they held at the start.
CellsInv ==
    /\ pols \in PolicyLists
    /\ DOMAIN heap = Cell
    /\ \A c \in Cell : c[1][1] = "policy" \/ c[2] \notin M!DeepField => heap[c] = Content(c)

\* The two fields that exclude each other.
Streams == {"buffer", "httpUpgrade"}

\* Accumulators are records; the two fields point to cells of attached policies.
AccsInv ==
    /\ DOMAIN accs = M!Accumulator
    /\ \A o \in M!Accumulator :
         /\ accs[o] = [spec |-> accs[o].spec, origins |-> accs[o].origins,
                       errs |-> accs[o].errs, inherited |-> accs[o].inherited]
         /\ \A f \in Streams : accs[o].spec[f] \in {M!Nil} \cup {<<M!PolicyAt(i), f>> : i \in DOMAIN pols}
    /\ todo \subseteq M!AttachedPolicies \cup M!groupPoliciesByHierarchicalPriority

\* The part of the invariant that needs no order.
StreamInv == CellsInv /\ AccsInv /\ M!NeverBufferAndUpgrade

\* Policies are folded in the order of the list within a hierarchy, hierarchies
\* when all policies are, from high to low priority.
OrderInv ==
    /\ \A i, j \in DOMAIN pols :
         pols[i].prio = pols[j].prio /\ M!PolicyAt(i) \notin todo /\ M!PolicyAt(j) \in todo => i < j
    /\ \A i, j \in DOMAIN pols : M!Hierarchy(pols[i].prio) \notin todo => M!PolicyAt(j) \notin todo
    /\ \A i, j \in DOMAIN pols :
         M!Hierarchy(pols[i].prio) \notin todo /\ M!Hierarchy(pols[j].prio) \in todo
            => pols[i].prio > pols[j].prio

\* The policies that the accumulator of a hierarchy, and the one across
\* hierarchies, stand for.
Folded(prio) == {i \in DOMAIN pols : pols[i].prio = prio /\ M!PolicyAt(i) \notin todo}
FoldedOut == {i \in DOMAIN pols : M!Hierarchy(pols[i].prio) \notin todo}

\* The accumulator of a hierarchy holds the value of the first policy that sets it.
HoldsFirst(acc, f, folded) ==
    \/ /\ \A i \in folded : pols[i].spec[f] = M!Nil
       /\ acc.spec[f] = M!Nil /\ acc.origins[f] = {}
    \/ \E i \in folded :
         /\ M!Counts(f, i, folded)
         /\ acc.spec[f] = <<M!PolicyAt(i), f>> /\ acc.origins[f] = {i}

\* What an accumulator without errors holds.
HierarchiesInv ==
    \A k \in DOMAIN pols :
        LET p == pols[k].prio
            acc == accs[M!Hierarchy(p)]
        IN acc.errs = {} =>
             /\ \A f \in M!Plain : HoldsFirst(acc, f, Folded(p))
             /\ acc.inherited = "ShallowMergePreferParent" <=> M!PrefersParent(p, Folded(p))

OutInv == M!Merged.errs = {} => \A f \in M!Plain : M!HoldsPrevailing(M!Merged, f, FoldedOut)

\* The inductive invariant.
MergeInv == StreamInv /\ OrderInv /\ HierarchiesInv /\ OutInv
-----------------------------------------------------------------------------
\* When the default merge takes the value of the second policy.
TakenOver(a, b, st) == b # M!Nil /\ (a = M!Nil \/ st = "OverridableShallow")

\* There are four strategies.
LEMMA StrategyType ==
    ASSUME NEW inh, NEW same
    PROVE  M!GetMergeStrategy(inh, same) \in
             {"AugmentedShallow", "OverridableShallow", "AugmentedDeep", "OverridableDeep"}
  BY DEF M!GetMergeStrategy

\* A field with the default merge is taken over whole or kept.
LEMMA DefaultMerge ==
    ASSUME NEW h, NEW o, NEW f \in M!Field \ M!DeepField, NEW a, NEW b,
           NEW st \in {"AugmentedShallow", "OverridableShallow", "AugmentedDeep", "OverridableDeep"}
    PROVE  M!MergeField(h, o, f, a, b, st) = IF TakenOver(a, b, st) THEN M!Take(b) ELSE M!Keep(a)
  BY DEF M!MergeField, M!IsMergeable, M!defaultMerge, TakenOver, M!DeepField, M!Auth, M!Deep

\* An outcome with a private copy points to that copy.
LEMMA OwnRef ==
    ASSUME NEW c, NEW v, NEW g
    PROVE  M!Own(c, v, g).ref = c
  BY ZenonT(30) DEF M!Own

\* A value is written only to the accumulator's own cell of a deep field.
LEMMA OwnCells ==
    ASSUME NEW h, NEW o, NEW f \in M!Field, NEW a, NEW b, NEW st,
           M!MergeField(h, o, f, a, b, st).own # M!Nil
    PROVE  f \in M!DeepField /\ M!MergeField(h, o, f, a, b, st).ref = <<o, f>>
<1> DEFINE m == M!MergeField(h, o, f, a, b, st)
<1>1. CASE m = M!Keep(a) \/ m = M!Take(b)
  BY <1>1 DEF M!Keep, M!Take, M!Nil
<1>2. CASE f \in M!DeepField /\ m.ref = <<o, f>>
  BY <1>2
<1>3. CASE m = M!mergeExtAuth(h, o, f, a, b, st) /\ f \in M!DeepField
  <2>1. \E v, g : M!mergeExtAuth(h, o, f, a, b, st) = M!Own(<<o, f>>, v, g)
    BY Zenon DEF M!mergeExtAuth, M!copyForMerge
  <2> QED BY <1>2, <1>3, <2>1, OwnRef
<1>4. CASE m = M!mergeExtProc(h, o, f, a, b, st) /\ f \in M!DeepField
  BY <1>3, <1>4 DEF M!mergeExtProc
<1>5. CASE m = M!mergeRustformation(h, o, f, a, b, st) /\ f \in M!DeepField
  BY <1>2, <1>5 DEF M!mergeRustformation, M!Own, M!copyForMerge
<1>6. CASE m = M!mergeHttpACL(h, o, f, a, b, st) /\ f \in M!DeepField
  <2>1. m = M!Keep(a) \/ m = M!Take(b) \/ m.ref = <<o, f>>
    BY <1>6 DEF M!mergeHttpACL, M!Own, M!copyForMerge
  <2> QED BY <1>1, <1>2, <1>6, <2>1
<1>7. CASE m = M!defaultMerge(a, b, st)
  BY <1>1, <1>7 DEF M!defaultMerge
<1> QED
  BY <1>1, <1>3, <1>4, <1>5, <1>6, <1>7 DEF M!MergeField, M!DeepField, M!Auth

\* A merge writes to no cell but those of the accumulator's deep fields.
LEMMA MergeHeap ==
    ASSUME NEW h, NEW o, NEW acc, NEW in, NEW inh, NEW same, NEW opts
    PROVE  LET m == M!MergeTrafficPolicies(h, o, acc, in, inh, same, opts)
           IN /\ DOMAIN m.heap = DOMAIN h
              /\ \A c \in DOMAIN h :
                   c[2] \in M!Field /\ (c[2] \notin M!DeepField \/ c[1] # o) => m.heap[c] = h[c]
<1> DEFINE st == M!GetMergeStrategy(inh, same)
           Outcome(f) == M!MergeField(h, o, f, acc.spec[f], in.spec[f], M!FieldStrategy(f, st, same, opts))
           m == M!MergeTrafficPolicies(h, o, acc, in, inh, same, opts)
<1>1. m.heap = [c \in DOMAIN h |-> LET out == [f \in M!Field |-> Outcome(f)] IN
                  IF out[c[2]].own # M!Nil /\ out[c[2]].ref = c THEN out[c[2]].own[1] ELSE h[c]]
  BY DEF M!MergeTrafficPolicies
<1>2. ASSUME NEW c \in DOMAIN h, c[2] \in M!Field, c[2] \notin M!DeepField \/ c[1] # o
      PROVE  m.heap[c] = h[c]
  <2>1. Outcome(c[2]).own # M!Nil => c[2] \in M!DeepField /\ Outcome(c[2]).ref = <<o, c[2]>>
    BY <1>2, OwnCells
  <2> HIDE DEF Outcome
  <2>2. ~ (Outcome(c[2]).own # M!Nil /\ Outcome(c[2]).ref = c)
    BY <1>2, <2>1
  <2> QED BY <1>1, <1>2, <2>2
<1> QED
  BY ZenonT(30), <1>1, <1>2

\* What becomes of a field with the default merge, and of its origin.
LEMMA MergePlain ==
    ASSUME NEW h, NEW o, NEW acc, NEW in, NEW inh, NEW same, NEW opts, NEW f \in M!Plain
    PROVE  LET m == M!MergeTrafficPolicies(h, o, acc, in, inh, same, opts)
               wins == TakenOver(acc.spec[f], in.spec[f], M!GetMergeStrategy(inh, same))
           IN /\ m.spec[f] = IF wins THEN in.spec[f] ELSE acc.spec[f]
              /\ m.origins[f] = IF wins THEN in.origins[f] ELSE acc.origins[f]
<1> DEFINE st == M!GetMergeStrategy(inh, same)
           Outcome(g) == M!MergeField(h, o, g, acc.spec[g], in.spec[g], M!FieldStrategy(g, st, same, opts))
           m == M!MergeTrafficPolicies(h, o, acc, in, inh, same, opts)
<1>1. f \in M!Field /\ f \notin M!DeepField /\ f \notin Streams
  BY DEF M!Plain, M!filterFields, M!routeFields, M!Field, M!DeepField, M!Auth, Streams
<1>2. M!FieldStrategy(f, st, same, opts) = st
  BY ZenonT(30), <1>1 DEF M!FieldStrategy, M!DeepField
<1>3. Outcome(f) = IF TakenOver(acc.spec[f], in.spec[f], st) THEN M!Take(in.spec[f]) ELSE M!Keep(acc.spec[f])
  BY <1>1, <1>2, StrategyType, DefaultMerge
<1> HIDE DEF Outcome, st
<1>4. \A h2, had, p2, sp : f \notin M!resolveBufferHTTPUpgradeConflict(h2, had, p2, sp, st)
  BY <1>1 DEF M!resolveBufferHTTPUpgradeConflict, Streams
<1>5. /\ m.spec[f] = Outcome(f).ref
      /\ m.origins[f] = CASE Outcome(f).origin = "none" -> acc.origins[f]
                          [] Outcome(f).origin = "one" -> in.origins[f]
                          [] OTHER -> acc.origins[f] \cup in.origins[f]
  BY ZenonT(30), <1>1, <1>4 DEF M!MergeTrafficPolicies, Outcome, st
<1> QED
  BY <1>3, <1>5 DEF M!Take, M!Keep, st

\* If neither side has an enabled buffer beside an upgrade, the result has none
\* (resolveBufferHTTPUpgradeConflict), whatever the strategy.
LEMMA MergeStreams ==
    ASSUME NEW h, NEW o, NEW acc, NEW in, NEW inh, NEW same, NEW opts,
           acc.spec["buffer"] # M!Nil => acc.spec["buffer"] \in DOMAIN h /\ acc.spec["buffer"][2] = "buffer",
           in.spec["buffer"] # M!Nil => in.spec["buffer"] \in DOMAIN h /\ in.spec["buffer"][2] = "buffer",
           ~ (M!bufferEnabled(h, acc.spec["buffer"]) /\ acc.spec["httpUpgrade"] # M!Nil),
           ~ (M!bufferEnabled(h, in.spec["buffer"]) /\ in.spec["httpUpgrade"] # M!Nil)
    PROVE  LET m == M!MergeTrafficPolicies(h, o, acc, in, inh, same, opts)
           IN /\ \A f \in Streams : m.spec[f] \in {M!Nil, acc.spec[f], in.spec[f]}
              /\ ~ (M!bufferEnabled(m.heap, m.spec["buffer"]) /\ m.spec["httpUpgrade"] # M!Nil)
<1> DEFINE st == M!GetMergeStrategy(inh, same)
           Outcome(g) == M!MergeField(h, o, g, acc.spec[g], in.spec[g], M!FieldStrategy(g, st, same, opts))
           m == M!MergeTrafficPolicies(h, o, acc, in, inh, same, opts)
           sp == [f \in M!Field |-> Outcome(f).ref]
           drop == M!resolveBufferHTTPUpgradeConflict(m.heap, acc.spec, in.spec, sp, st)
<1>1. ASSUME NEW f \in Streams
      PROVE  sp[f] = IF TakenOver(acc.spec[f], in.spec[f], st) THEN in.spec[f] ELSE acc.spec[f]
  <2>1. f \in M!Field /\ f \notin M!DeepField
    BY DEF Streams, M!Field, M!DeepField, M!Auth
  <2>2. M!FieldStrategy(f, st, same, opts) = st
    BY ZenonT(30), <2>1 DEF M!FieldStrategy, M!DeepField
  <2>3. Outcome(f) = IF TakenOver(acc.spec[f], in.spec[f], st) THEN M!Take(in.spec[f]) ELSE M!Keep(acc.spec[f])
    BY <2>1, <2>2, StrategyType, DefaultMerge
  <2> HIDE DEF Outcome, st
  <2> QED BY <2>1, <2>3 DEF M!Take, M!Keep
<1>2. /\ m.spec["buffer"] = IF "buffer" \in drop THEN M!Nil ELSE sp["buffer"]
      /\ m.spec["httpUpgrade"] = IF "httpUpgrade" \in drop THEN M!Nil ELSE sp["httpUpgrade"]
  BY ZenonT(30) DEF M!MergeTrafficPolicies, M!Field
<1> DEFINE K == m.heap
<1>3. /\ M!bufferEnabled(K, acc.spec["buffer"]) = M!bufferEnabled(h, acc.spec["buffer"])
      /\ M!bufferEnabled(K, in.spec["buffer"]) = M!bufferEnabled(h, in.spec["buffer"])
  <2>1. \A c \in DOMAIN h : c[2] = "buffer" => K[c] = h[c]
    BY MergeHeap DEF M!Field, M!DeepField, M!Auth
  <2> HIDE DEF K
  <2> QED BY <2>1 DEF M!bufferEnabled
<1>4. st \in {"AugmentedShallow", "OverridableShallow", "AugmentedDeep", "OverridableDeep"}
  BY StrategyType
<1> DEFINE ab == acc.spec["buffer"]   au == acc.spec["httpUpgrade"]
           ib == in.spec["buffer"]    iu == in.spec["httpUpgrade"]
           sb == sp["buffer"]         su == sp["httpUpgrade"]
<1>5. /\ sb = IF TakenOver(ab, ib, st) THEN ib ELSE ab
      /\ su = IF TakenOver(au, iu, st) THEN iu ELSE au
  BY <1>1 DEF Streams
<1>6. drop = M!resolveBufferHTTPUpgradeConflict(K, acc.spec, in.spec, sp, st)
  OBVIOUS
<1>7. ~ (M!bufferEnabled(K, m.spec["buffer"]) /\ m.spec["httpUpgrade"] # M!Nil)
  <2> HIDE DEF K, m, sp, drop, st
  <2> QED BY ZenonT(30), <1>2, <1>3, <1>4, <1>5, <1>6 DEF M!resolveBufferHTTPUpgradeConflict,
               M!bufferEnabled, TakenOver, K
<1>8. \A f \in Streams : m.spec[f] \in {M!Nil, acc.spec[f], in.spec[f]}
  <2> HIDE DEF m, sp, drop, st
  <2> QED BY <1>1, <1>2 DEF Streams
<1> QED
  BY <1>7, <1>8
-----------------------------------------------------------------------------
\* Where an input is folded, and what a fold makes of the accumulators.
LEMMA FoldAccs ==
    ASSUME AccsInv, NEW x \in todo, M!Fold(x)
    PROVE  LET o == M!Into(x)
               in == M!Input(x)
               m == M!MergeTrafficPolicies(heap, o, accs[o], in, in.inherited, o # M!Out, tpOpts)
           IN /\ o \in M!Accumulator /\ o # x
              /\ DOMAIN accs' = M!Accumulator
              /\ \A q \in M!Accumulator \ {o} : accs'[q] = accs[q]
              /\ in.errs # {} =>
                   /\ heap' = heap
                   /\ accs'[o] = [spec |-> accs[o].spec, origins |-> accs[o].origins,
                                  errs |-> accs[o].errs \cup in.errs, inherited |-> accs[o].inherited]
              /\ in.errs = {} =>
                   /\ heap' = m.heap
                   /\ accs'[o] = [spec |-> m.spec, origins |-> m.origins, errs |-> accs[o].errs,
                                  inherited |-> IF o # M!Out THEN in.inherited ELSE accs[o].inherited]
<1> DEFINE o == M!Into(x)
           in == M!Input(x)
           m == M!MergeTrafficPolicies(heap, o, accs[o], in, in.inherited, o # M!Out, tpOpts)
           a == accs[o]
<1>1. o \in M!Accumulator /\ o # x
  <2>1. CASE x \in M!AttachedPolicies
    BY <2>1 DEF M!AttachedPolicies, M!PolicyAt, M!Into, M!Accumulator,
         M!groupPoliciesByHierarchicalPriority,
         M!Hierarchy
  <2>2. CASE x \in M!groupPoliciesByHierarchicalPriority
    BY <2>2 DEF M!Into, M!Accumulator, M!groupPoliciesByHierarchicalPriority, M!Hierarchy, M!Out
  <2> QED BY <2>1, <2>2 DEF AccsInv
<1>2. /\ heap' = IF in.errs = {} THEN m.heap ELSE heap
      /\ accs' = [accs EXCEPT ![o] =
             IF in.errs # {} THEN [a EXCEPT !.errs = a.errs \cup in.errs]
             ELSE [spec |-> m.spec, origins |-> m.origins, errs |-> a.errs,
                   inherited |-> IF o # M!Out THEN in.inherited ELSE a.inherited]]
  BY DEF M!Fold
<1>3. /\ DOMAIN accs = M!Accumulator
      /\ a = [spec |-> a.spec, origins |-> a.origins, errs |-> a.errs, inherited |-> a.inherited]
  BY <1>1 DEF AccsInv
<1> HIDE DEF o, in, m, a
<1>4. [a EXCEPT !.errs = a.errs \cup in.errs] =
        [spec |-> a.spec, origins |-> a.origins, errs |-> a.errs \cup in.errs, inherited |-> a.inherited]
  <2>1. [[spec |-> a.spec, origins |-> a.origins, errs |-> a.errs, inherited |-> a.inherited]
            EXCEPT !.errs = a.errs \cup in.errs]
          = [spec |-> a.spec, origins |-> a.origins, errs |-> a.errs \cup in.errs, inherited |-> a.inherited]
    OBVIOUS
  <2> QED BY ZenonT(30), <1>3, <2>1
<1>5. /\ DOMAIN accs' = M!Accumulator
      /\ \A q \in M!Accumulator \ {o} : accs'[q] = accs[q]
      /\ accs'[o] = IF in.errs # {} THEN [a EXCEPT !.errs = a.errs \cup in.errs]
             ELSE [spec |-> m.spec, origins |-> m.origins, errs |-> a.errs,
                   inherited |-> IF o # M!Out THEN in.inherited ELSE a.inherited]
  BY <1>1, <1>2, <1>3
<1> QED
  BY <1>1, <1>2, <1>4, <1>5 DEF o, in, m, a

\* An input that is folded has no enabled buffer beside an upgrade, and its
\* pointers are to cells of attached policies.
LEMMA InputStreams ==
    ASSUME M!PoliciesConstructed, StreamInv, NEW x \in todo, M!Input(x).errs = {}
    PROVE  /\ \A f \in Streams : M!Input(x).spec[f] \in {M!Nil} \cup {<<M!PolicyAt(i), f>> : i \in DOMAIN pols}
           /\ ~ (M!bufferEnabled(heap, M!Input(x).spec["buffer"]) /\ M!Input(x).spec["httpUpgrade"] # M!Nil)
<1>1. CASE x \in M!groupPoliciesByHierarchicalPriority
  <2>1. M!Input(x) = accs[x] /\ x \in M!Accumulator
    BY <1>1 DEF M!Input, M!groupPoliciesByHierarchicalPriority, M!Hierarchy, M!Accumulator
  <2> QED BY <2>1 DEF StreamInv, AccsInv, M!NeverBufferAndUpgrade
<1>2. CASE x \in M!AttachedPolicies
  <2>1. PICK i \in DOMAIN pols : x = M!PolicyAt(i)
    BY <1>2 DEF M!AttachedPolicies
  <2>2. M!Input(x) = M!Source(i)
    BY <2>1 DEF M!Input, M!PolicyAt
  <2>3. ~ pols[i].bad
    BY <2>2 DEF M!Source
  <2>4. \A f \in M!Field : M!Input(x).spec[f] = IF pols[i].spec[f] = M!Nil THEN M!Nil ELSE <<M!PolicyAt(i), f>>
    BY SMTT(30), <2>2 DEF M!Source
  <2>5. pols[i].spec["buffer"] # M!Nil => heap[<<M!PolicyAt(i), "buffer">>] = pols[i].spec["buffer"][1]
    <3>1. <<M!PolicyAt(i), "buffer">> \in Cell
      BY DEF Cell, M!Field, M!AttachedPolicies
    <3> QED BY <3>1 DEF StreamInv, CellsInv, Content, M!PolicyAt
  <2>6. "buffer" \in M!Field /\ "httpUpgrade" \in M!Field
    BY DEF M!Field
  <2>7. pols[i].spec["buffer"] # M!Nil /\ pols[i].spec["httpUpgrade"] # M!Nil => ~ pols[i].spec["buffer"][1].on
    BY <2>3 DEF M!PoliciesConstructed, StreamInv, CellsInv
  <2>8. ~ (M!bufferEnabled(heap, M!Input(x).spec["buffer"]) /\ M!Input(x).spec["httpUpgrade"] # M!Nil)
    BY ZenonT(30), <2>4, <2>5, <2>6, <2>7 DEF M!bufferEnabled
  <2> QED BY ZenonT(30), <2>4, <2>6, <2>8 DEF Streams
<1> QED
  BY <1>1, <1>2 DEF StreamInv, AccsInv

\* Before the first fold the accumulators are empty.
LEMMA StreamInit ==
    M!Init => StreamInv
<1> SUFFICES ASSUME M!Init PROVE StreamInv
  OBVIOUS
<1>1. CellsInv
  BY ZenonT(30) DEF M!Init, CellsInv, Cell, Content
<1>2. AccsInv
  BY ZenonT(30) DEF M!Init, AccsInv, M!Empty, Streams, M!Field
<1>3. M!NeverBufferAndUpgrade
  BY ZenonT(30) DEF M!Init, M!NeverBufferAndUpgrade, M!Empty, M!Field, M!bufferEnabled
<1> QED
  BY <1>1, <1>2, <1>3 DEF StreamInv

\* A fold keeps the cells and the exclusion.
LEMMA StreamFold ==
    ASSUME M!PoliciesConstructed, StreamInv, NEW x \in todo, M!Fold(x),
           todo' = todo \ {x}, pols' = pols
    PROVE  StreamInv'
<1> DEFINE o == M!Into(x)
           in == M!Input(x)
           m == M!MergeTrafficPolicies(heap, o, accs[o], in, in.inherited, o # M!Out, tpOpts)
<1>1. /\ o \in M!Accumulator
      /\ DOMAIN accs' = M!Accumulator
      /\ \A q \in M!Accumulator \ {o} : accs'[q] = accs[q]
      /\ in.errs # {} =>
           /\ heap' = heap
           /\ accs'[o] = [spec |-> accs[o].spec, origins |-> accs[o].origins,
                          errs |-> accs[o].errs \cup in.errs, inherited |-> accs[o].inherited]
      /\ in.errs = {} =>
           /\ heap' = m.heap
           /\ accs'[o] = [spec |-> m.spec, origins |-> m.origins, errs |-> accs[o].errs,
                          inherited |-> IF o # M!Out THEN in.inherited ELSE accs[o].inherited]
  BY FoldAccs DEF StreamInv
<1>2. /\ Cell' = Cell /\ M!Accumulator' = M!Accumulator /\ M!AttachedPolicies' = M!AttachedPolicies
      /\ M!groupPoliciesByHierarchicalPriority' = M!groupPoliciesByHierarchicalPriority
      /\ \A c : Content(c)' = Content(c)
  BY ZenonT(30) DEF Cell, M!Accumulator, M!AttachedPolicies, M!groupPoliciesByHierarchicalPriority,
       Content
<1>3. o[1] # "policy"
  BY <1>1 DEF M!Accumulator, M!groupPoliciesByHierarchicalPriority, M!Hierarchy, M!Out
<1> DEFINE Ref(f) == {M!Nil} \cup {<<M!PolicyAt(i), f>> : i \in DOMAIN pols}
<1>4. \A q \in M!Accumulator, f \in Streams : accs[q].spec[f] \in Ref(f)
  BY DEF StreamInv, AccsInv
<1>5. \A r \in Ref("buffer") : r # M!Nil => r \in DOMAIN heap /\ r[2] = "buffer"
  BY SMTT(30) DEF StreamInv, CellsInv, Cell, M!AttachedPolicies, M!Field
<1>6. /\ DOMAIN heap' = DOMAIN heap
      /\ \A c \in DOMAIN heap : c[2] \in M!Field /\ (c[2] \notin M!DeepField \/ c[1] # o) => heap'[c] = heap[c]
  <2> HIDE DEF o, in
  <2> QED BY <1>1, MergeHeap
<1>7. CellsInv'
  <2> HIDE DEF o, in, m
  <2>1. \A c \in Cell : c[2] \in M!Field
    BY DEF Cell
  <2>2. \A c \in Cell : c[1][1] = "policy" => c[1] # o
    BY ZenonT(30), <1>3
  <2> QED BY <1>2, <1>6, <2>1, <2>2 DEF StreamInv, CellsInv
<1>8. in.errs = {} =>
        /\ \A f \in Streams : in.spec[f] \in Ref(f)
        /\ \A f \in Streams : m.spec[f] \in {M!Nil, accs[o].spec[f], in.spec[f]}
        /\ ~ (M!bufferEnabled(m.heap, m.spec["buffer"]) /\ m.spec["httpUpgrade"] # M!Nil)
  <2> SUFFICES ASSUME in.errs = {} 
               PROVE  /\ \A f \in Streams : in.spec[f] \in Ref(f)
                      /\ \A f \in Streams : m.spec[f] \in {M!Nil, accs[o].spec[f], in.spec[f]}
                      /\ ~ (M!bufferEnabled(m.heap, m.spec["buffer"]) /\ m.spec["httpUpgrade"] # M!Nil)
    BY ZenonT(30)
  <2>1. /\ \A f \in Streams : in.spec[f] \in Ref(f)
        /\ ~ (M!bufferEnabled(heap, in.spec["buffer"]) /\ in.spec["httpUpgrade"] # M!Nil)
    BY ZenonT(30), InputStreams
  <2>2. ~ (M!bufferEnabled(heap, accs[o].spec["buffer"]) /\ accs[o].spec["httpUpgrade"] # M!Nil)
    BY <1>1 DEF StreamInv, AccsInv, M!NeverBufferAndUpgrade
  <2> HIDE DEF o, in, Ref
  <2>3. /\ accs[o].spec["buffer"] # M!Nil => accs[o].spec["buffer"] \in DOMAIN heap /\ accs[o].spec["buffer"][2] = "buffer"
        /\ in.spec["buffer"] # M!Nil => in.spec["buffer"] \in DOMAIN heap /\ in.spec["buffer"][2] = "buffer"
    BY ZenonT(30), <1>1, <1>4, <1>5, <2>1 DEF Streams
  <2> QED BY SMTT(30), <2>1, <2>2, <2>3, MergeStreams
<1> HIDE DEF o, in, m, Ref
<1>9. \A q \in M!Accumulator, f \in Streams : accs'[q].spec[f] \in Ref(f)
  <2>1. M!Nil \in Ref("buffer") /\ M!Nil \in Ref("httpUpgrade")
    BY ZenonT(30) DEF Ref
  <2>2. \A f \in Streams : accs'[o].spec[f] \in Ref(f)
    BY SMTT(30), <1>1, <1>4, <1>8, <2>1 DEF Streams
  <2> QED BY <1>1, <1>4, <2>2
<1>10. AccsInv'
  <2>1. \A q \in M!Accumulator :
          accs'[q] = [spec |-> accs'[q].spec, origins |-> accs'[q].origins,
                      errs |-> accs'[q].errs, inherited |-> accs'[q].inherited]
    BY <1>1 DEF StreamInv, AccsInv
  <2>2. (Ref("buffer"))' = Ref("buffer") /\ (Ref("httpUpgrade"))' = Ref("httpUpgrade")
    BY DEF Ref
  <2> QED BY ZenonT(30), <1>1, <1>2, <1>9, <2>1 DEF StreamInv, AccsInv, Ref
<1>11. M!NeverBufferAndUpgrade'
  <2>1. \A r \in Ref("buffer") : M!bufferEnabled(heap', r) = M!bufferEnabled(heap, r)
    BY ZenonT(30), <1>5, <1>6 DEF M!bufferEnabled, M!Field, M!DeepField, M!Auth
  <2>2. ASSUME NEW q \in M!Accumulator
        PROVE  ~ (M!bufferEnabled(heap', accs'[q].spec["buffer"]) /\ accs'[q].spec["httpUpgrade"] # M!Nil)
    <3>1. ~ (M!bufferEnabled(heap, accs[q].spec["buffer"]) /\ accs[q].spec["httpUpgrade"] # M!Nil)
      BY DEF StreamInv, AccsInv, M!NeverBufferAndUpgrade
    <3>2. accs[q].spec["buffer"] \in Ref("buffer")
      BY <1>4 DEF Streams
    <3>3. CASE accs'[q].spec = accs[q].spec
      BY ZenonT(30), <2>1, <3>1, <3>2, <3>3
    <3>4. CASE q = o /\ in.errs = {}
      BY <1>1, <1>8, <3>4
    <3> QED BY SMTT(30), <1>1, <3>3, <3>4
  <2> QED BY <1>1, <2>2 DEF M!NeverBufferAndUpgrade, M!bufferEnabled
<1> QED
  BY ZenonT(30), <1>7, <1>10, <1>11 DEF StreamInv

\* So does every step.
LEMMA StreamNext ==
    ASSUME M!PoliciesConstructed, StreamInv, [M!Next]_(M!vars)
    PROVE  StreamInv'
<1>1. CASE M!merge
  BY <1>1, StreamFold DEF M!merge
<1>2. CASE M!NextTranslation
  <2>1. CellsInv'
    BY SMTT(30), <1>2 DEF M!NextTranslation, StreamInv, CellsInv, Cell, Content, M!Accumulator,
         M!AttachedPolicies,
                M!groupPoliciesByHierarchicalPriority
  <2>2. AccsInv'
    BY ZenonT(30), <1>2 DEF M!NextTranslation, AccsInv, M!Empty, Streams, M!Field, M!Accumulator,
         M!AttachedPolicies,
                M!groupPoliciesByHierarchicalPriority
  <2>3. M!NeverBufferAndUpgrade'
    BY ZenonT(30), <1>2 DEF M!NextTranslation, M!NeverBufferAndUpgrade, M!Empty, M!Field, M!bufferEnabled
  <2> QED BY ZenonT(30), <2>1, <2>2, <2>3 DEF StreamInv
<1>3. CASE UNCHANGED M!vars
  BY SMTT(30), <1>3 DEF M!vars, StreamInv, CellsInv, AccsInv, M!NeverBufferAndUpgrade, Cell,
       Content,
       M!Accumulator,
              M!AttachedPolicies, M!groupPoliciesByHierarchicalPriority, M!bufferEnabled
<1> QED
  BY <1>1, <1>2, <1>3 DEF M!Next
-----------------------------------------------------------------------------
\* The input that a fold takes: a policy behind which its hierarchy is done, or
\* a hierarchy when all policies are.
First(x) == \A y \in todo \ {x} : M!MergePolicies(x, y)

\* The first policy is before the others of its hierarchy.
LEMMA FirstPolicy ==
    ASSUME NEW i \in DOMAIN pols, First(M!PolicyAt(i)),
           NEW j \in DOMAIN pols, M!PolicyAt(j) \in todo, i # j, pols[i].prio = pols[j].prio,
           pols[j].prio \in Int
    PROVE  i < j
<1>1. M!PolicyAt(j) \in todo \ {M!PolicyAt(i)}
  BY DEF M!PolicyAt
<1> QED
  BY <1>1 DEF First, M!MergePolicies, M!PolicyAt

\* When a hierarchy is first, no policy is left and no higher hierarchy.
LEMMA FirstHierarchy ==
    ASSUME NEW p, First(M!Hierarchy(p))
    PROVE  /\ \A j : M!PolicyAt(j) \notin todo
           /\ \A q : M!Hierarchy(q) \in todo /\ q # p => p > q
  BY DEF First, M!MergePolicies, M!PolicyAt, M!Hierarchy

\* An input is a policy or a hierarchy that has one.
LEMMA InputKinds ==
    ASSUME AccsInv, NEW x \in todo
    PROVE  \/ \E i \in DOMAIN pols : x = M!PolicyAt(i)
           \/ \E i \in DOMAIN pols : x = M!Hierarchy(pols[i].prio)
  BY DEF AccsInv, M!AttachedPolicies, M!groupPoliciesByHierarchicalPriority

\* A fold of the first input keeps the order.
LEMMA OrderFold ==
    ASSUME M!PoliciesConstructed, StreamInv, OrderInv, NEW x \in todo, First(x),
           todo' = todo \ {x}, pols' = pols
    PROVE  OrderInv'
<1>0. \A i \in DOMAIN pols : i \in Nat /\ pols[i].prio \in Int
  BY ZenonT(30) DEF M!PoliciesConstructed, StreamInv, CellsInv
<1>1. ASSUME NEW k \in DOMAIN pols, x = M!PolicyAt(k)
      PROVE  OrderInv'
  <2>1. \A p : (M!Hierarchy(p) \in todo') = (M!Hierarchy(p) \in todo)
    BY <1>1 DEF M!Hierarchy, M!PolicyAt
  <2>2. \A i : (M!PolicyAt(i) \in todo') = (M!PolicyAt(i) \in todo /\ i # k)
    BY <1>1 DEF M!PolicyAt
  <2>3. \A j \in DOMAIN pols : M!PolicyAt(j) \in todo /\ j # k /\ pols[k].prio = pols[j].prio => k < j
    BY ZenonT(30), <1>0, <1>1, FirstPolicy
  <2> QED BY <2>1, <2>2, <2>3, <1>1 DEF OrderInv, M!PolicyAt, M!Hierarchy
<1>2. ASSUME NEW k \in DOMAIN pols, x = M!Hierarchy(pols[k].prio)
      PROVE  OrderInv'
  <2>1. \A p : (M!Hierarchy(p) \in todo') = (M!Hierarchy(p) \in todo /\ p # pols[k].prio)
    BY <1>2 DEF M!Hierarchy, M!PolicyAt
  <2>2. \A i : M!PolicyAt(i) \notin todo'
    BY <1>2, FirstHierarchy
  <2>3. \A q : M!Hierarchy(q) \in todo /\ q # pols[k].prio => pols[k].prio > q
    BY ZenonT(30), <1>2, FirstHierarchy
  <2> QED BY <2>1, <2>2, <2>3 DEF OrderInv, M!PolicyAt, M!Hierarchy
<1> QED
  BY ZenonT(30), <1>1, <1>2, InputKinds DEF StreamInv

\* A policy folded behind the others of its hierarchy leaves the first value.
LEMMA FoldedFirst ==
    ASSUME NEW f, NEW acc, NEW new, NEW D \in SUBSET DOMAIN pols, NEW i \in DOMAIN pols,
           \A j \in DOMAIN pols : j \in Nat, \A j \in D : j < i /\ pols[j].prio = pols[i].prio,
           HoldsFirst(acc, f, D),
           LET b == M!Source(i).spec[f]
               wins == TakenOver(acc.spec[f], b, "AugmentedShallow")
           IN  /\ b = IF pols[i].spec[f] = M!Nil THEN M!Nil ELSE <<M!PolicyAt(i), f>>
               /\ new.spec[f] = IF wins THEN b ELSE acc.spec[f]
               /\ new.origins[f] = IF wins THEN {i} ELSE acc.origins[f]
    PROVE  HoldsFirst(new, f, D \cup {i})
<1>1. \A j : <<M!PolicyAt(j), f>> # M!Nil
  BY DEF M!Nil
<1>2. CASE \A j \in D : pols[j].spec[f] = M!Nil
  <2>1. acc.spec[f] = M!Nil /\ acc.origins[f] = {}
    BY <1>2 DEF HoldsFirst, M!Counts
  <2>2. CASE pols[i].spec[f] = M!Nil
    BY ZenonT(30), <1>2, <2>1, <2>2 DEF HoldsFirst, TakenOver
  <2>3. CASE pols[i].spec[f] # M!Nil
    <3>1. M!Counts(f, i, D \cup {i})
      BY <1>2, <2>3 DEF M!Counts
    <3>2. new.spec[f] = <<M!PolicyAt(i), f>> /\ new.origins[f] = {i}
      BY ZenonT(30), <1>1, <2>1, <2>3 DEF TakenOver
    <3> QED BY ZenonT(30), <3>1, <3>2 DEF HoldsFirst
  <2> QED BY ZenonT(30), <2>2, <2>3
<1>3. CASE \E j \in D : pols[j].spec[f] # M!Nil
  <2>1. PICK k \in D : /\ M!Counts(f, k, D)
                       /\ acc.spec[f] = <<M!PolicyAt(k), f>> /\ acc.origins[f] = {k}
    BY ZenonT(30), <1>3 DEF HoldsFirst
  <2>2. M!Counts(f, k, D \cup {i})
    BY SMTT(30), <2>1 DEF M!Counts
  <2>3. new.spec[f] = <<M!PolicyAt(k), f>> /\ new.origins[f] = {k}
    BY <1>1, <2>1 DEF TakenOver
  <2> QED BY ZenonT(30), <2>2, <2>3 DEF HoldsFirst
<1> QED
  BY ZenonT(30), <1>2, <1>3

\* The preference of a hierarchy is that of the policy folded last.
LEMMA LastPrefers ==
    ASSUME NEW D \in SUBSET DOMAIN pols, NEW i \in DOMAIN pols,
           \A j \in DOMAIN pols : j \in Nat, \A j \in D : j < i
    PROVE  M!PrefersParent(pols[i].prio, D \cup {i})
             <=> pols[i].inherited = "ShallowMergePreferParent"
<1>1. ASSUME NEW k \in D \cup {i}, pols[k].prio = pols[i].prio,
             \A j \in D \cup {i} : pols[j].prio = pols[i].prio => j <= k
      PROVE  k = i
  BY <1>1
<1>2. \A j \in D \cup {i} : j <= i
  OBVIOUS
<1> QED
  BY <1>1, <1>2 DEF M!PrefersParent

\* A hierarchy folded behind those of higher priority leaves the value that
\* prevails among all of them.
LEMMA FoldedPrevailing ==
    ASSUME NEW f, NEW acc, NEW in, NEW new, NEW st,
           NEW D \in SUBSET DOMAIN pols, NEW F \in SUBSET DOMAIN pols, NEW p \in Int,
           \A j \in DOMAIN pols : j \in Nat /\ pols[j].prio \in Int,
           \A j \in D : pols[j].prio > p, \A j \in F : pols[j].prio = p,
           M!HoldsPrevailing(acc, f, D), HoldsFirst(in, f, F),
           st = "OverridableShallow" <=> M!PrefersParent(p, F),
           LET wins == TakenOver(acc.spec[f], in.spec[f], st)
           IN  /\ new.spec[f] = IF wins THEN in.spec[f] ELSE acc.spec[f]
               /\ new.origins[f] = IF wins THEN in.origins[f] ELSE acc.origins[f]
    PROVE  M!HoldsPrevailing(new, f, D \cup F)
<1> DEFINE E == D \cup F
<1>0. \A j : <<M!PolicyAt(j), f>> # M!Nil
  BY DEF M!Nil
<1>1. \A j \in D : pols[j].prio # p /\ j \notin F
  BY SMTT(30)
<1>2. /\ \A j \in D : M!Counts(f, j, E) <=> M!Counts(f, j, D)
      /\ \A j \in F : M!Counts(f, j, E) <=> M!Counts(f, j, F)
  BY ZenonT(30), <1>1 DEF M!Counts
<1>3. /\ \A j \in D : M!PrefersParent(pols[j].prio, E) <=> M!PrefersParent(pols[j].prio, D)
      /\ M!PrefersParent(p, E) <=> M!PrefersParent(p, F)
  BY ZenonT(30), <1>1 DEF M!PrefersParent
<1>4. \A i, j \in F : M!Counts(f, i, F) /\ M!Counts(f, j, F) => i = j
  BY SMTT(30) DEF M!Counts
<1>5. CASE \A j \in F : pols[j].spec[f] = M!Nil
  <2>1. in.spec[f] = M!Nil
    BY ZenonT(30), <1>5 DEF HoldsFirst, M!Counts
  <2>2. new.spec[f] = acc.spec[f] /\ new.origins[f] = acc.origins[f]
    BY ZenonT(30), <2>1 DEF TakenOver
  <2>3. \A j \in F : ~ M!Counts(f, j, E)
    BY <1>5 DEF M!Counts
  <2>4. \A i \in D : M!Prevails(f, i, D) => M!Prevails(f, i, E)
    BY ZenonT(30), <1>2, <1>3, <2>3 DEF M!Prevails
  <2> QED BY ZenonT(30), <1>5, <2>2, <2>4 DEF M!HoldsPrevailing
<1>6. CASE \E j \in F : pols[j].spec[f] # M!Nil
  <2>1. PICK k \in F : /\ M!Counts(f, k, F)
                       /\ in.spec[f] = <<M!PolicyAt(k), f>> /\ in.origins[f] = {k}
    BY ZenonT(30), <1>6 DEF HoldsFirst
  <2>2. CASE (\A j \in D : pols[j].spec[f] = M!Nil) \/ M!PrefersParent(p, F)
    <3>1. new.spec[f] = <<M!PolicyAt(k), f>> /\ new.origins[f] = {k}
      <4>1. (\A j \in D : pols[j].spec[f] = M!Nil) => acc.spec[f] = M!Nil
        BY SMTT(30) DEF M!HoldsPrevailing, M!Prevails, M!Counts
      <4> QED BY ZenonT(30), <1>0, <2>1, <2>2, <4>1 DEF TakenOver
    <3>2. M!Counts(f, k, E) /\ pols[k].prio = p
      BY ZenonT(30), <1>2, <2>1
    <3>3. \A j \in E : M!Counts(f, j, E) => j = k \/ (j \in D /\ M!PrefersParent(p, F))
      BY ZenonT(30), <1>2, <1>4, <2>1, <2>2 DEF M!Counts
    <3>4. M!Prevails(f, k, E)
      <4>1. ASSUME NEW j \in E, M!Counts(f, j, E)
            PROVE  IF M!PrefersParent(pols[k].prio, E)
                   THEN M!PrefersParent(pols[j].prio, E) => pols[k].prio <= pols[j].prio
                   ELSE ~ M!PrefersParent(pols[j].prio, E) /\ pols[k].prio >= pols[j].prio
        <5>1. CASE j = k
          BY SMTT(30), <5>1
        <5>2. CASE j \in D /\ M!PrefersParent(p, F)
          BY SMTT(30), <1>3, <3>2, <5>2
        <5> QED BY ZenonT(30), <3>3, <4>1, <5>1, <5>2
      <4> QED BY ZenonT(30), <3>2, <4>1 DEF M!Prevails
    <3> QED BY ZenonT(30), <3>1, <3>4 DEF M!HoldsPrevailing
  <2>3. CASE (\E j \in D : pols[j].spec[f] # M!Nil) /\ ~ M!PrefersParent(p, F)
    <3>1. PICK i \in D : /\ M!Prevails(f, i, D)
                         /\ acc.spec[f] = <<M!PolicyAt(i), f>> /\ acc.origins[f] = {i}
      BY ZenonT(30), <2>3 DEF M!HoldsPrevailing
    <3>2. new.spec[f] = <<M!PolicyAt(i), f>> /\ new.origins[f] = {i}
      BY SMTT(30), <1>0, <2>3, <3>1 DEF TakenOver
    <3>3. M!Prevails(f, i, E)
      <4>1. M!Counts(f, i, D) /\ M!Counts(f, i, E)
        BY ZenonT(30), <1>2, <3>1 DEF M!Prevails
      <4>2. ASSUME NEW j \in E, M!Counts(f, j, E)
            PROVE  IF M!PrefersParent(pols[i].prio, E)
                   THEN M!PrefersParent(pols[j].prio, E) => pols[i].prio <= pols[j].prio
                   ELSE ~ M!PrefersParent(pols[j].prio, E) /\ pols[i].prio >= pols[j].prio
        <5>1. CASE j \in D
          BY ZenonT(30), <1>2, <1>3, <3>1, <4>2, <5>1 DEF M!Prevails
        <5>2. CASE j \in F
          <6>1. pols[j].prio = p /\ ~ M!PrefersParent(p, E) /\ pols[i].prio >= p
            BY SMTT(30), <1>3, <2>3, <5>2
          <6> QED BY ZenonT(30), <6>1
        <5> QED BY SMTT(30), <5>1, <5>2
      <4> QED BY ZenonT(30), <4>1, <4>2 DEF M!Prevails
    <3> QED BY ZenonT(30), <3>2, <3>3 DEF M!HoldsPrevailing
  <2> QED BY ZenonT(30), <2>2, <2>3
<1> QED
  BY ZenonT(30), <1>5, <1>6

\* A fold keeps what the accumulators of the hierarchies hold.
LEMMA HierarchiesFold ==
    ASSUME M!PoliciesConstructed, StreamInv, OrderInv, HierarchiesInv, NEW x \in todo, First(x), M!Fold(x),
           todo' = todo \ {x}, pols' = pols
    PROVE  HierarchiesInv'
<1> DEFINE o == M!Into(x)
           in == M!Input(x)
           m == M!MergeTrafficPolicies(heap, o, accs[o], in, in.inherited, o # M!Out, tpOpts)
<1>0. \A i \in DOMAIN pols : i \in Nat /\ pols[i].prio \in Int
  BY ZenonT(30) DEF M!PoliciesConstructed, StreamInv, CellsInv
<1>1. /\ o \in M!Accumulator
      /\ DOMAIN accs' = M!Accumulator
      /\ \A q \in M!Accumulator \ {o} : accs'[q] = accs[q]
      /\ in.errs # {} => accs'[o].errs = accs[o].errs \cup in.errs
      /\ in.errs = {} =>
           /\ accs'[o].spec = m.spec /\ accs'[o].origins = m.origins /\ accs'[o].errs = accs[o].errs
           /\ accs'[o].inherited = IF o # M!Out THEN in.inherited ELSE accs[o].inherited
  <2>1. /\ o \in M!Accumulator
        /\ DOMAIN accs' = M!Accumulator
        /\ \A q \in M!Accumulator \ {o} : accs'[q] = accs[q]
        /\ in.errs # {} =>
             accs'[o] = [spec |-> accs[o].spec, origins |-> accs[o].origins,
                         errs |-> accs[o].errs \cup in.errs, inherited |-> accs[o].inherited]
        /\ in.errs = {} =>
             accs'[o] = [spec |-> m.spec, origins |-> m.origins, errs |-> accs[o].errs,
                         inherited |-> IF o # M!Out THEN in.inherited ELSE accs[o].inherited]
    BY ZenonT(30), SMTT(30), FoldAccs DEF StreamInv
  <2> HIDE DEF o, in, m
  <2>2. in.errs # {} => accs'[o].errs = accs[o].errs \cup in.errs
    BY SMTT(30), <2>1
  <2>3. in.errs = {} => /\ accs'[o].spec = m.spec /\ accs'[o].origins = m.origins
                        /\ accs'[o].errs = accs[o].errs
                        /\ accs'[o].inherited = IF o # M!Out THEN in.inherited ELSE accs[o].inherited
    BY SMTT(30), <2>1
  <2> QED BY ZenonT(30), <2>1, <2>2, <2>3
<1>2. ASSUME NEW k \in DOMAIN pols,
             LET a == accs'[M!Hierarchy(pols[k].prio)]
                 D == Folded(pols[k].prio)'
             IN a.errs = {} =>
                  /\ \A f \in M!Plain : HoldsFirst(a, f, D)
                  /\ a.inherited = "ShallowMergePreferParent" <=> M!PrefersParent(pols[k].prio, D)
      PROVE  LET p == pols[k].prio
                 acc == accs[M!Hierarchy(p)]
             IN (acc.errs = {} =>
                  /\ \A f \in M!Plain : HoldsFirst(acc, f, Folded(p))
                  /\ acc.inherited = "ShallowMergePreferParent" <=> M!PrefersParent(p, Folded(p)))'
  BY ZenonT(30), <1>2 DEF HoldsFirst, M!Counts, M!PrefersParent, M!Plain, M!filterFields,
       M!routeFields
<1>3. SUFFICES ASSUME NEW k \in DOMAIN pols, accs'[M!Hierarchy(pols[k].prio)].errs = {}
               PROVE  LET a == accs'[M!Hierarchy(pols[k].prio)]
                          D == Folded(pols[k].prio)'
                      IN  /\ \A f \in M!Plain : HoldsFirst(a, f, D)
                          /\ a.inherited = "ShallowMergePreferParent" <=> M!PrefersParent(pols[k].prio, D)
  BY SMTT(30), <1>2 DEF HierarchiesInv
<1> DEFINE p == pols[k].prio
           H == M!Hierarchy(p)
<1>4. H \in M!Accumulator
  BY DEF M!Accumulator, M!groupPoliciesByHierarchicalPriority
<1>5. accs[H].errs = {} =>
        /\ \A f \in M!Plain : HoldsFirst(accs[H], f, Folded(p))
        /\ accs[H].inherited = "ShallowMergePreferParent" <=> M!PrefersParent(p, Folded(p))
  BY ZenonT(30) DEF HierarchiesInv
<1>6. CASE o # H /\ Folded(p)' = Folded(p)
  BY ZenonT(30), <1>1, <1>3, <1>4, <1>5, <1>6
<1>7. ASSUME NEW j \in DOMAIN pols, x = M!Hierarchy(pols[j].prio)
      PROVE  o # H /\ Folded(p)' = Folded(p)
  <2>1. \A i : M!PolicyAt(i) \in todo' <=> M!PolicyAt(i) \in todo
    BY <1>7 DEF M!Hierarchy, M!PolicyAt
  <2>2. o # H
    BY <1>7 DEF M!Into, M!Hierarchy, M!Out
  <2> QED BY <2>1, <2>2 DEF Folded, M!PolicyAt
<1>8. ASSUME NEW i \in DOMAIN pols, x = M!PolicyAt(i), pols[i].prio # p
      PROVE  o # H /\ Folded(p)' = Folded(p)
  <2>1. \A j \in DOMAIN pols : pols[j].prio = p => (M!PolicyAt(j) \in todo' <=> M!PolicyAt(j) \in todo)
    BY <1>8 DEF M!PolicyAt
  <2>2. o # H
    BY ZenonT(30), <1>8 DEF M!Into, M!PolicyAt, M!Hierarchy, M!Out
  <2> QED BY <2>1, <2>2 DEF Folded, M!PolicyAt
<1>9. ASSUME NEW i \in DOMAIN pols, x = M!PolicyAt(i), pols[i].prio = p
      PROVE  LET a == accs'[M!Hierarchy(pols[k].prio)]
                 D == Folded(pols[k].prio)'
             IN  /\ \A f \in M!Plain : HoldsFirst(a, f, D)
                 /\ a.inherited = "ShallowMergePreferParent" <=> M!PrefersParent(pols[k].prio, D)
  <2>1. o = H /\ o # M!Out /\ in = M!Source(i)
    BY <1>9 DEF M!Into, M!Input, M!PolicyAt, M!Hierarchy, M!Out
  <2>2. Folded(p)' = Folded(p) \cup {i}
    BY <1>9 DEF Folded, M!PolicyAt
  <2>3. \A j \in Folded(p) : j < i /\ pols[j].prio = pols[i].prio
    BY ZenonT(30), <1>9 DEF Folded, OrderInv
  <2>4. in.errs = {} /\ accs[H].errs = {}
    BY SMTT(30), <1>1, <1>3, <2>1
  <2>5. M!GetMergeStrategy(in.inherited, o # M!Out) = "AugmentedShallow"
    BY SMTT(30), <2>1 DEF M!GetMergeStrategy
  <2>6. ASSUME NEW f \in M!Plain
        PROVE  HoldsFirst(accs'[H], f, Folded(p) \cup {i})
    <3>1. /\ M!Source(i).spec[f] = IF pols[i].spec[f] = M!Nil THEN M!Nil ELSE <<M!PolicyAt(i), f>>
          /\ M!Source(i).origins[f] = {i}
      BY ZenonT(30) DEF M!Source, M!Plain, M!Field
    <3>2. LET wins == TakenOver(accs[o].spec[f], in.spec[f], "AugmentedShallow")
          IN /\ m.spec[f] = IF wins THEN in.spec[f] ELSE accs[o].spec[f]
             /\ m.origins[f] = IF wins THEN in.origins[f] ELSE accs[o].origins[f]
      <4> HIDE DEF o, in
      <4> QED BY SMTT(30), <2>5, MergePlain
    <3> HIDE DEF o, in, m, p, H
    <3>3. LET b == M!Source(i).spec[f]
              wins == TakenOver(accs[H].spec[f], b, "AugmentedShallow")
          IN  /\ b = IF pols[i].spec[f] = M!Nil THEN M!Nil ELSE <<M!PolicyAt(i), f>>
              /\ accs'[H].spec[f] = IF wins THEN b ELSE accs[H].spec[f]
              /\ accs'[H].origins[f] = IF wins THEN {i} ELSE accs[H].origins[f]
      BY ZenonT(30), <1>1, <2>1, <2>4, <3>1, <3>2
    <3>4. HoldsFirst(accs[H], f, Folded(p)) /\ Folded(p) \in SUBSET DOMAIN pols
      BY SMTT(30), <1>5, <2>4 DEF Folded
    <3> QED BY ZenonT(30), <1>0, <2>3, <3>3, <3>4, FoldedFirst
  <2>7. accs'[H].inherited = "ShallowMergePreferParent" <=> M!PrefersParent(p, Folded(p) \cup {i})
    <3>1. accs'[H].inherited = pols[i].inherited
      BY SMTT(30), <1>1, <2>1, <2>4 DEF M!Source
    <3>2. Folded(p) \in SUBSET DOMAIN pols
      BY DEF Folded
    <3> QED BY ZenonT(30), <1>0, <1>9, <2>3, <3>1, <3>2, LastPrefers
  <2> QED BY ZenonT(30), <2>2, <2>6, <2>7
<1> QED
  BY SMTT(30), <1>6, <1>7, <1>8, <1>9, InputKinds DEF StreamInv

\* A fold keeps what the accumulator across hierarchies holds.
LEMMA OutFold ==
    ASSUME M!PoliciesConstructed, StreamInv, OrderInv, HierarchiesInv, OutInv, NEW x \in todo, First(x),
           M!Fold(x), todo' = todo \ {x}, pols' = pols
    PROVE  OutInv'
<1> DEFINE in == M!Input(x)
           same == M!Into(x) # M!Out
           m == M!MergeTrafficPolicies(heap, M!Out, accs[M!Out], in, in.inherited, same, tpOpts)
<1>0. \A i \in DOMAIN pols : i \in Nat /\ pols[i].prio \in Int
  BY ZenonT(30) DEF M!PoliciesConstructed, StreamInv, CellsInv
<1>1. ASSUME \A f \in M!Plain : M!HoldsPrevailing(accs'[M!Out], f, FoldedOut')
      PROVE  OutInv'
  <2>1. \A q, D : M!PrefersParent(q, D)' <=> M!PrefersParent(q, D)
    BY DEF M!PrefersParent
  <2>2. \A f, i, D : M!Counts(f, i, D)' <=> M!Counts(f, i, D)
    BY ZenonT(30) DEF M!Counts
  <2>3. \A f, i, D : M!Prevails(f, i, D)' <=> M!Prevails(f, i, D)
    BY SMTT(30), ZenonT(30), <2>1, <2>2 DEF M!Prevails
  <2> QED
    BY SMTT(30), <1>1, <2>3 DEF OutInv, M!Merged, M!HoldsPrevailing
<1>2. SUFFICES ASSUME accs'[M!Out].errs = {}
               PROVE  \A f \in M!Plain : M!HoldsPrevailing(accs'[M!Out], f, FoldedOut')
  BY <1>1 DEF OutInv, M!Merged
<1>3. ASSUME NEW i \in DOMAIN pols, x = M!PolicyAt(i)
      PROVE  \A f \in M!Plain : M!HoldsPrevailing(accs'[M!Out], f, FoldedOut')
  <2>1. M!Into(x) # M!Out /\ M!Out \in M!Accumulator
    BY SMTT(30), <1>3 DEF M!Into, M!PolicyAt, M!Hierarchy, M!Out, M!Accumulator
  <2>2. accs'[M!Out] = accs[M!Out]
    BY ZenonT(30), <2>1, FoldAccs DEF StreamInv
  <2>3. FoldedOut' = FoldedOut
    <3>1. \A p : M!Hierarchy(p) \in todo' <=> M!Hierarchy(p) \in todo
      BY <1>3 DEF M!Hierarchy, M!PolicyAt
    <3> QED BY <3>1 DEF FoldedOut, M!Hierarchy
  <2> QED BY <1>2, <2>2, <2>3 DEF OutInv, M!Merged
<1>4. ASSUME NEW k \in DOMAIN pols, x = M!Hierarchy(pols[k].prio)
      PROVE  \A f \in M!Plain : M!HoldsPrevailing(accs'[M!Out], f, FoldedOut')
  <2> DEFINE p == pols[k].prio
             H == M!Hierarchy(p)
  <2>1. M!Into(x) = M!Out /\ in = accs[H]
    BY <1>4 DEF M!Into, M!Input, M!Hierarchy
  <2>2. /\ in.errs # {} =>
             accs'[M!Out] = [spec |-> accs[M!Out].spec, origins |-> accs[M!Out].origins,
                           errs |-> accs[M!Out].errs \cup in.errs, inherited |-> accs[M!Out].inherited]
        /\ in.errs = {} =>
             accs'[M!Out] = [spec |-> m.spec, origins |-> m.origins, errs |-> accs[M!Out].errs,
                           inherited |-> accs[M!Out].inherited]
    <3>1. LET o == M!Into(x)
              n == M!MergeTrafficPolicies(heap, o, accs[o], in, in.inherited, o # M!Out, tpOpts)
          IN /\ in.errs # {} =>
                  accs'[o] = [spec |-> accs[o].spec, origins |-> accs[o].origins,
                              errs |-> accs[o].errs \cup in.errs, inherited |-> accs[o].inherited]
             /\ in.errs = {} =>
                  accs'[o] = [spec |-> n.spec, origins |-> n.origins, errs |-> accs[o].errs,
                              inherited |-> IF o # M!Out THEN in.inherited ELSE accs[o].inherited]
      BY ZenonT(30), FoldAccs DEF StreamInv
    <3>2. (M!Out # M!Out) = FALSE
      BY ZenonT(30)
    <3> HIDE DEF in
    <3> QED BY ZenonT(30), <2>1, <3>1, <3>2
  <2>3. in.errs = {} /\ accs[M!Out].errs = {} /\ accs'[M!Out].spec = m.spec /\ accs'[M!Out].origins = m.origins
    <3> HIDE DEF in, m
    <3> QED BY <1>2, <2>2
  <2>4. FoldedOut' = FoldedOut \cup Folded(p)
    <3>1. \A i \in DOMAIN pols : M!PolicyAt(i) \notin todo
      BY <1>4, FirstHierarchy
    <3>2. \A q : M!Hierarchy(q) \in todo' <=> M!Hierarchy(q) \in todo /\ q # p
      BY <1>4 DEF M!Hierarchy
    <3> QED BY ZenonT(30), <3>1, <3>2 DEF FoldedOut, Folded, M!Hierarchy
  <2>5. /\ \A j \in FoldedOut : pols[j].prio > p
        /\ \A j \in Folded(p) : pols[j].prio = p
        /\ FoldedOut \in SUBSET DOMAIN pols /\ Folded(p) \in SUBSET DOMAIN pols
    BY ZenonT(30), <1>4 DEF FoldedOut, Folded, OrderInv
  <2>6. /\ \A f \in M!Plain : HoldsFirst(accs[H], f, Folded(p))
        /\ accs[H].inherited = "ShallowMergePreferParent" <=> M!PrefersParent(p, Folded(p))
    BY ZenonT(30), <2>1, <2>3 DEF HierarchiesInv
  <2> DEFINE st == M!GetMergeStrategy(in.inherited, same)
  <2>7. st = "OverridableShallow" <=> M!PrefersParent(p, Folded(p))
    <3>1. st = "OverridableShallow" <=> in.inherited = "ShallowMergePreferParent"
      BY SMTT(30), <2>1 DEF M!GetMergeStrategy
    <3> QED BY SMTT(30), <2>1, <2>6, <3>1
  <2>8. ASSUME NEW f \in M!Plain
        PROVE  M!HoldsPrevailing(accs'[M!Out], f, FoldedOut \cup Folded(p))
    <3>1. M!HoldsPrevailing(accs[M!Out], f, FoldedOut)
      BY ZenonT(30), <2>3 DEF OutInv, M!Merged
    <3>2. LET wins == TakenOver(accs[M!Out].spec[f], in.spec[f], st)
          IN  /\ m.spec[f] = IF wins THEN in.spec[f] ELSE accs[M!Out].spec[f]
              /\ m.origins[f] = IF wins THEN in.origins[f] ELSE accs[M!Out].origins[f]
      <4> HIDE DEF in, same
      <4> QED BY SMTT(30), MergePlain
    <3>3. LET wins == TakenOver(accs[M!Out].spec[f], in.spec[f], st)
          IN  /\ accs'[M!Out].spec[f] = IF wins THEN in.spec[f] ELSE accs[M!Out].spec[f]
              /\ accs'[M!Out].origins[f] = IF wins THEN in.origins[f] ELSE accs[M!Out].origins[f]
      <4> HIDE DEF in, m, st
      <4> QED BY ZenonT(30), <2>3, <3>2
    <3>4. HoldsFirst(in, f, Folded(p)) /\ p \in Int
      BY SMTT(30), <1>0, <2>1, <2>6
    <3> HIDE DEF in, m, st, p
    <3> QED BY ZenonT(30), <1>0, <2>5, <2>7, <3>1, <3>3, <3>4, FoldedPrevailing
  <2> QED BY ZenonT(30), <2>4, <2>8
<1> QED
  BY <1>3, <1>4, InputKinds DEF StreamInv
-----------------------------------------------------------------------------
\* A translation begins with empty accumulators and everything to fold.
Started ==
    /\ accs = [o \in M!Accumulator |-> M!Empty]
    /\ todo = M!AttachedPolicies \cup M!groupPoliciesByHierarchicalPriority

\* Nothing is folded yet.
LEMMA StartOrdered ==
    Started => OrderInv /\ HierarchiesInv /\ OutInv
<1> SUFFICES ASSUME Started PROVE OrderInv /\ HierarchiesInv /\ OutInv
  OBVIOUS
<1>1. \A i \in DOMAIN pols : M!PolicyAt(i) \in todo /\ M!Hierarchy(pols[i].prio) \in todo
  BY DEF Started, M!AttachedPolicies, M!groupPoliciesByHierarchicalPriority
<1>2. OrderInv
  BY <1>1 DEF OrderInv
<1>3. FoldedOut = {} /\ \A p : Folded(p) = {}
  BY <1>1 DEF FoldedOut, Folded
<1>4. \A o \in M!Accumulator : accs[o] = M!Empty
  BY DEF Started
<1>5. \A f \in M!Plain : M!Empty.spec[f] = M!Nil /\ M!Empty.origins[f] = {}
  BY DEF M!Empty, M!Plain, M!Field
<1>6. HierarchiesInv
  <2>1. \A k \in DOMAIN pols : accs[M!Hierarchy(pols[k].prio)] = M!Empty
    BY <1>4 DEF M!Accumulator, M!groupPoliciesByHierarchicalPriority
  <2>2. M!Empty.inherited = ""
    BY ZenonT(30) DEF M!Empty
  <2> QED BY ZenonT(30), <1>3, <1>5, <2>1, <2>2 DEF HierarchiesInv, HoldsFirst, M!PrefersParent
<1>7. OutInv
  <2>1. accs[M!Out] = M!Empty
    BY <1>4 DEF M!Accumulator
  <2> QED BY <1>3, <1>5, <2>1 DEF OutInv, M!Merged, M!HoldsPrevailing
<1> QED
  BY <1>2, <1>6, <1>7

\* Every step keeps the invariant.
LEMMA MergeNext ==
    ASSUME M!PoliciesConstructed, MergeInv, [M!Next]_(M!vars)
    PROVE  MergeInv'
<1>1. StreamInv'
  BY StreamNext DEF MergeInv
<1>2. CASE M!merge
  <2>1. PICK x \in todo : First(x) /\ M!Fold(x) /\ todo' = todo \ {x} /\ pols' = pols
    BY <1>2 DEF M!merge, First
  <2> QED BY <1>1, <2>1, OrderFold, HierarchiesFold, OutFold DEF MergeInv
<1>3. CASE M!NextTranslation
  <2>1. Started'
    BY <1>3 DEF M!NextTranslation, Started, M!Accumulator, M!AttachedPolicies,
         M!groupPoliciesByHierarchicalPriority
  <2>2. Started' => OrderInv' /\ HierarchiesInv' /\ OutInv'
    BY StartOrdered, PTL
  <2> QED BY ZenonT(30), <1>1, <2>1, <2>2 DEF MergeInv
<1>4. CASE UNCHANGED M!vars
  <2>1. OrderInv'
    BY <1>4 DEF M!vars, MergeInv, OrderInv, M!PolicyAt, M!Hierarchy
  <2>2. /\ \A q, D : M!PrefersParent(q, D)' <=> M!PrefersParent(q, D)
        /\ \A f, i, D : M!Counts(f, i, D)' <=> M!Counts(f, i, D)
    BY ZenonT(30), <1>4 DEF M!vars, M!PrefersParent, M!Counts
  <2>3. \A f, i, D : M!Prevails(f, i, D)' <=> M!Prevails(f, i, D)
    BY SMTT(30), <1>4, <2>2 DEF M!vars, M!Prevails
  <2>4. FoldedOut' = FoldedOut /\ \A q : Folded(q)' = Folded(q)
    BY ZenonT(30), <1>4 DEF M!vars, FoldedOut, Folded
  <2>5. HierarchiesInv'
    <3>1. ASSUME NEW k \in DOMAIN pols
          PROVE  LET p == pols[k].prio
                     acc == accs[M!Hierarchy(p)]
                 IN (acc.errs = {} =>
                       /\ \A f \in M!Plain : HoldsFirst(acc, f, Folded(p))
                       /\ acc.inherited = "ShallowMergePreferParent" <=> M!PrefersParent(p, Folded(p)))'
      <4> DEFINE a == accs[M!Hierarchy(pols[k].prio)]
                 D == Folded(pols[k].prio)
      <4>1. a.errs = {} =>
              /\ \A f \in M!Plain : HoldsFirst(a, f, D)
              /\ a.inherited = "ShallowMergePreferParent" <=> M!PrefersParent(pols[k].prio, D)
        BY SMTT(30) DEF MergeInv, HierarchiesInv
      <4>2. a' = a /\ D' = D
        BY ZenonT(30), <1>4, <2>4 DEF M!vars
      <4> HIDE DEF a, D
      <4> QED BY ZenonT(30), <1>4, <2>2, <4>1, <4>2 DEF M!vars, HoldsFirst, a, D
    <3> QED BY SMTT(30), <1>4, <3>1 DEF M!vars, HierarchiesInv
  <2>6. OutInv'
    BY SMTT(30), <1>4, <2>3, <2>4 DEF M!vars, MergeInv, OutInv, M!Merged, M!HoldsPrevailing
  <2> QED BY ZenonT(30), <1>1, <2>1, <2>5, <2>6 DEF MergeInv
<1> QED
  BY <1>2, <1>3, <1>4 DEF M!Next

\* Merging writes into no attached policy, leaves no buffer beside an upgrade and
\* gives every field with the default merge the value and the origin that the
\* documented precedence names (merge.go, MergePolicies and MergeTrafficPolicies),
\* whatever policies are attached, in whatever hierarchies.
THEOREM MergingAsDeclared ==
    ASSUME M!PoliciesConstructed
    PROVE  M!Spec => [](M!SourcesUntouched /\ M!NeverBufferAndUpgrade /\ M!MergedAsDeclared)
<1>1. M!Init => MergeInv
  BY SMTT(30), StreamInit, StartOrdered DEF M!Init, MergeInv, Started
<1>2. MergeInv /\ [M!Next]_(M!vars) => MergeInv'
  BY ZenonT(30), MergeNext
<1>3. MergeInv => M!SourcesUntouched
  <2> SUFFICES ASSUME CellsInv, NEW i \in DOMAIN pols, NEW f \in M!Field, pols[i].spec[f] # M!Nil
               PROVE  heap[<<M!PolicyAt(i), f>>] = pols[i].spec[f][1]
    BY DEF MergeInv, StreamInv, M!SourcesUntouched
  <2>1. <<M!PolicyAt(i), f>> \in Cell
    BY DEF Cell, M!AttachedPolicies
  <2> QED BY ZenonT(30), <2>1 DEF CellsInv, Content, M!PolicyAt
<1>4. MergeInv => M!NeverBufferAndUpgrade
  BY DEF MergeInv, StreamInv
<1>5. MergeInv => M!MergedAsDeclared
  <2>1. M!Finished => FoldedOut = DOMAIN pols
    BY DEF M!Finished, FoldedOut
  <2> QED BY <2>1 DEF MergeInv, OutInv, M!MergedAsDeclared
<1> QED
  BY <1>1, <1>2, <1>3, <1>4, <1>5, PTL DEF M!Spec
-----------------------------------------------------------------------------
(***************************************************************************)
(* SdsRotation, for any number of secrets, attempts and rotations, and any  *)
(* mix of ways to change a file: no torn pair is served, and the watcher    *)
(* loop never sleeps with a file unwatched.                                 *)
(***************************************************************************)
USE SdsAssumption

\* Position of a file in Order.
At(s, k) == 3 * (s - 1) + (CASE k = "key" -> 1 [] k = "cert" -> 2 [] k = "ca" -> 3)

\* A certificate that this update has read, and is past, is the key's.
PairsRead ==
    loop = "reading" =>
        \A s \in 1..Secrets : cursor > At(s, "cert") => read[<<s, "key">>] = read[<<s, "cert">>]

\* While the loop watches the files again, those it is past are watched, or
\* their change has been reported.
WatchedSoFar == loop = "watching" /\ ~events => \A i \in 1..(cursor - 1) : Order[i] \in watched

IInv ==
    /\ read \in [File -> Nat \cup {None}] /\ content \in [File -> Nat \cup {Torn}] /\ gen \in Nat
    /\ cursor \in 1..(3 * Secrets)
    /\ watched \subseteq File /\ events \in BOOLEAN /\ pending \in BOOLEAN
    /\ loop \in {"reading", "watching", "idle", "exited"}
    /\ loop = "idle" => cursor = 1
    /\ PairsRead /\ WatchedSoFar
    /\ PairMatches /\ NeverBlind

-----------------------------------------------------------------------------
LEMMA OrderLen == Len(Order) = 3 * Secrets /\ DOMAIN Order = 1..(3 * Secrets)
BY SMTT(30) DEF Order

\* Order lists every file, and each at its position only.
LEMMA OrderAt ==
  ASSUME NEW i \in 1..(3 * Secrets)
  PROVE  /\ Order[i] \in File
         /\ Order[i] = <<Order[i][1], Order[i][2]>>
         /\ i = At(Order[i][1], Order[i][2])
<1> DEFINE s == (i + 2) \div 3
           m == (i - 1) % 3
<1>1. m \in 0..2 /\ s \in 1..Secrets /\ i = 3 * (s - 1) + m + 1
  OBVIOUS
<1>2. Order[i] = <<s, Kinds[m + 1]>>
  BY DEF Order
<1>3. CASE m = 0
  <2>1. Order[i] = <<s, "key">>
    BY <1>2, <1>3 DEF Kinds
  <2>2. At(s, "key") = i
    BY SMTT(30), <1>1, <1>3 DEF At
  <2> QED
    BY <1>1, <2>1, <2>2 DEF File
<1>4. CASE m = 1
  <2>1. Order[i] = <<s, "cert">>
    BY <1>2, <1>4 DEF Kinds
  <2>2. At(s, "cert") = i
    BY SMTT(30), <1>1, <1>4 DEF At
  <2> QED
    BY SMTT(30), <1>1, <2>1, <2>2 DEF File
<1>5. CASE m = 2
  <2>1. Order[i] = <<s, "ca">>
    BY <1>2, <1>5 DEF Kinds
  <2>2. At(s, "ca") = i
    BY <1>1, <1>5 DEF At
  <2> QED
    BY SMTT(30), <1>1, <2>1, <2>2 DEF File
<1> QED
  BY SMTT(30), <1>1, <1>3, <1>4, <1>5

LEMMA OrderCovers ==
  ASSUME NEW f \in File
  PROVE  \E i \in 1..(3 * Secrets) : Order[i] = f
<1>1. PICK s \in 1..Secrets, k \in {"key", "cert", "ca"} : f = <<s, k>>
  BY DEF File
<1>2. At(s, k) \in 1..(3 * Secrets)
  BY DEF At
<1>3. Order[At(s, k)] = <<(At(s, k) + 2) \div 3, Kinds[((At(s, k) - 1) % 3) + 1]>>
  BY <1>2 DEF Order
<1>4. CASE k = "key"
  <2>1. (At(s, k) + 2) \div 3 = s /\ (At(s, k) - 1) % 3 = 0
    BY <1>4 DEF At
  <2> QED
    BY <1>1, <1>2, <1>3, <1>4, <2>1 DEF Kinds
<1>5. CASE k = "cert"
  <2>1. (At(s, k) + 2) \div 3 = s /\ (At(s, k) - 1) % 3 = 1
    BY <1>5 DEF At
  <2> QED
    BY <1>1, <1>2, <1>3, <1>5, <2>1 DEF Kinds
<1>6. CASE k = "ca"
  <2>1. (At(s, k) + 2) \div 3 = s /\ (At(s, k) - 1) % 3 = 2
    BY <1>6 DEF At
  <2> QED
    BY <1>1, <1>2, <1>3, <1>6, <2>1 DEF Kinds
<1> QED
  BY <1>4, <1>5, <1>6

\* Before the first read, no certificate has been read.
LEMMA AtCert == \A s \in 1..Secrets : At(s, "cert") = 3 * s - 1 /\ ~(1 > At(s, "cert"))
BY DEF At

LEMMA Initial == Init => IInv
<1> SUFFICES ASSUME Init PROVE IInv
  OBVIOUS
<1>1. PairsRead
  BY AtCert DEF Init, PairsRead
<1>2. 1 \in 1..(3 * Secrets)
  OBVIOUS
<1> QED
  BY ZenonT(30), <1>1, <1>2 DEF Init, IInv, WatchedSoFar, PairMatches, NeverBlind

\* A read keeps PairsRead, and what the last one publishes is whole.
LEMMA ReadKeeps ==
  ASSUME IInv, UpdateSDSConfig
  PROVE  IInv'
<1> DEFINE f == Order[cursor]
           items == [read EXCEPT ![f] = content[f]]
<1>1. /\ loop = "reading" /\ readable(f) /\ read' = items
      /\ UNCHANGED <<files, events, pending, cancelled>>
  BY DEF UpdateSDSConfig
<1>2. f \in File /\ f = <<f[1], f[2]>> /\ cursor = At(f[1], f[2]) /\ f[1] \in 1..Secrets
      /\ f[2] \in {"key", "cert", "ca"}
  BY OrderAt DEF IInv, File
<1>3. content[f] \in Nat
  BY <1>1, <1>2 DEF IInv, readable
<1>4. read' \in [File -> Nat \cup {None}]
  BY <1>1, <1>2, <1>3 DEF IInv
<1>5. ASSUME NEW s \in 1..Secrets, cursor + 1 > At(s, "cert")
      PROVE  items[<<s, "key">>] = items[<<s, "cert">>]
  <2>1. <<s, "key">> \in File /\ <<s, "cert">> \in File
    BY ZenonT(30) DEF File
  <2>2. CASE f = <<s, "cert">>
    BY SMTT(30), <1>1, <1>2, <2>1, <2>2 DEF readable, IInv
  <2>3. CASE f # <<s, "cert">>
    <3>1. f # <<s, "key">>
      BY <1>2, <1>5 DEF At
    <3>2. cursor # At(s, "cert")
      BY SMTT(30), <1>2, <2>3 DEF At
    <3>3. cursor > At(s, "cert")
      BY <1>5, <3>2 DEF At, IInv
    <3> QED
      BY <1>1, <2>1, <2>3, <3>1, <3>3 DEF IInv, PairsRead
  <2> QED
    BY <2>2, <2>3
<1>6. CASE cursor < Len(Order)
  <2>1. cursor' = cursor + 1 /\ UNCHANGED <<served, loop, started>>
    BY <1>6 DEF UpdateSDSConfig
  <2>2. PairsRead'
    BY ZenonT(30), <1>1, <1>5, <2>1 DEF PairsRead, At
  <2> QED
    BY SMTT(30), <1>1, <1>4, <1>6, <2>1, <2>2, OrderLen DEF IInv, WatchedSoFar, PairMatches, NeverBlind, files
<1>7. CASE ~ (cursor < Len(Order))
  <2>1. served' = items /\ loop' = "watching" /\ cursor' = 1
    BY <1>7 DEF UpdateSDSConfig
  <2>2. PairMatches'
    <3>1. cursor = 3 * Secrets
      BY <1>7, OrderLen DEF IInv
    <3>2. \A s \in 1..Secrets : cursor + 1 > At(s, "cert")
      BY SMTT(30), <3>1 DEF At
    <3> QED
      BY ZenonT(30), <1>5, <2>1, <3>2 DEF PairMatches
  <2> QED
    BY SMTT(30), <1>1, <1>4, <2>1, <2>2 DEF IInv, PairsRead, WatchedSoFar, NeverBlind, files
<1> QED
  BY <1>6, <1>7

\* A watch added keeps WatchedSoFar, and after the last one all are watched.
LEMMA WatchKeeps ==
  ASSUME IInv, watchFiles
  PROVE  IInv'
<1>1. /\ loop = "watching" /\ watched' = watched \cup {Order[cursor]}
      /\ UNCHANGED <<gen, content, missed, events, pending, started, attempts, read, served, cancelled>>
  BY ZenonT(30) DEF watchFiles
<1>2. watched' \subseteq File
  BY <1>1, OrderAt DEF IInv
<1>3. ~events => \A i \in 1..cursor : Order[i] \in watched'
  BY SMTT(30), <1>1 DEF IInv, WatchedSoFar
<1>4. CASE cursor < Len(Order)
  <2>1. cursor' = cursor + 1 /\ UNCHANGED loop
    BY <1>4 DEF watchFiles
  <2>2. WatchedSoFar'
    BY SMTT(30), <1>1, <1>3, <2>1 DEF WatchedSoFar, IInv
  <2> QED
    BY SMTT(30), <1>1, <1>2, <1>4, <2>1, <2>2, OrderLen DEF IInv, PairsRead, PairMatches, NeverBlind
<1>5. CASE ~ (cursor < Len(Order))
  <2>1. cursor' = 1 /\ loop' = "idle"
    BY <1>5 DEF watchFiles
  <2>2. ~events => File \subseteq watched'
    <3>1. cursor = 3 * Secrets
      BY <1>5, OrderLen DEF IInv
    <3> QED
      BY <1>3, <3>1, OrderCovers
  <2> QED
    BY <1>1, <1>2, <2>1, <2>2 DEF IInv, PairsRead, PairMatches, NeverBlind, WatchedSoFar
<1> QED
  BY <1>4, <1>5

\* Every step keeps the invariant.
LEMMA Step ==
  ASSUME IInv, [Next]_vars
  PROVE  IInv'
<1> USE DEF IInv, PairsRead, WatchedSoFar, PairMatches, NeverBlind
<1>1. CASE Begin
  BY SMTT(30), <1>1 DEF Begin
<1>2. CASE Swap
  <2>1. /\ content' = [f \in File |-> gen + 1] /\ gen' = gen + 1 /\ watched' = {}
        /\ events' = (events \/ watched # {})
        /\ UNCHANGED <<pending, loop, started, cursor, attempts, read, served, cancelled>>
    BY ZenonT(30), <1>2 DEF Swap
  <2>2. ~events' => ~events /\ watched' = watched
    BY ZenonT(30), <2>1
  <2>3. content' \in [File -> Nat \cup {Torn}] /\ gen' \in Nat /\ events' \in BOOLEAN /\ watched' \subseteq File
    BY <2>1
  <2>4. PairsRead' /\ PairMatches'
    BY <2>1
  <2>5. WatchedSoFar' /\ NeverBlind'
    BY <2>1, <2>2
  <2> QED
    BY ZenonT(30), <2>1, <2>3, <2>4, <2>5
<1>3. ASSUME NEW f \in File, Write(f)
      PROVE  IInv'
  BY <1>3 DEF Write
<1>4. ASSUME NEW f \in File, Rename(f)
      PROVE  IInv'
  BY ZenonT(30), <1>4, OrderLen DEF Rename
<1>5. CASE UpdateSDSConfig
  BY <1>5, ReadKeeps
<1>6. CASE Retry
  <2>1. cursor = At(Order[cursor][1], Order[cursor][2]) /\ Order[cursor] \in File
    BY OrderAt
  <2>2. cursor' \in 1..(3 * Secrets) /\ cursor' <= cursor
    BY <1>6, <2>1 DEF Retry, At, File
  <2> QED
    BY <1>6, <2>2 DEF Retry, files, At
<1>7. CASE UpdateFails
  BY <1>7 DEF UpdateFails, files
<1>8. CASE watchFiles
  BY <1>8, WatchKeeps
<1>9. CASE Event
  BY ZenonT(30), <1>9 DEF Event, files
<1>10. CASE Debounced
  <2>1. /\ loop = "idle" /\ loop' \in {"reading", "exited"} /\ pending' = FALSE
        /\ read' = [f \in File |-> None]
        /\ UNCHANGED <<gen, content, watched, events, cursor, served>>
    BY <1>10 DEF Debounced, files
  <2>2. PairsRead'
    BY <2>1, AtCert
  <2> QED
    BY ZenonT(30), <2>1, <2>2
<1>11. CASE Exit
  BY <1>11 DEF Exit, files
<1>12. CASE Cancel
  BY <1>12 DEF Cancel, files
<1>13. CASE UNCHANGED vars
  BY <1>13 DEF vars
<1> QED
  BY ZenonT(30), <1>1, <1>2, <1>3, <1>4, <1>5, <1>6, <1>7, <1>8, <1>9, <1>10, <1>11, <1>12, <1>13
     DEF Next, Rotation, Update, Loop

\* For any number of secrets and attempts: a key is served only with the
\* certificate of its generation, however reads and writes interleave, and the
\* loop is never idle, with nothing to handle, while a file is unwatched.
THEOREM RotationIsSafe == Spec => []RotationSafe
<1>1. IInv => RotationSafe
  BY ZenonT(30) DEF IInv, RotationSafe
<1> QED
  BY <1>1, Initial, Step, PTL DEF Spec

HIDE SdsAssumption

-----------------------------------------------------------------------------
(* PerClientXds: what is served was a row of the snapshot collection, so the  *)
(* rows must be sound even before the subscriber has started.                 *)

CONSTANTS Client, LocalClient, Backend, Cluster, Endpoint, Translation, MaxEvents
VARIABLES uccs, knows, gateway, base, endpoints, clusterRow, claRow, snapRow, published,
          subscribed, envoy, budget

Xds == INSTANCE PerClientXds WITH served <- published, started <- subscribed

SnapshotsSound ==
    /\ snapRow = [c \in Client |-> snapRow[c]]
    /\ published = [c \in Client |-> published[c]]
    /\ \A c \in Client : Xds!AllAsked(snapRow[c]) /\ Xds!AllAsked(published[c])

\* snapshotPerClient never builds a snapshot with a CLA that Envoy does not ask
\* for, whatever the rows it reads: the two filters take them all out.
LEMMA SnapshotAllAsked == \A c \in Client : Xds!AllAsked(Xds!snapshotPerClient(c))
<1> SUFFICES ASSUME NEW c \in Client, Xds!snapshotPerClient(c).exists,
                    NEW b \in Backend
             PROVE  LET snap == Xds!snapshotPerClient(c)
                    IN  /\ snap.value.cds[b] = Xds!Static => snap.value.eds.clas[b] = Xds!None
                        /\ b \in snap.value.eds.version.errored => snap.value.eds.clas[b] = Xds!None
  BY DEF Xds!AllAsked
<1> DEFINE r == clusterRow[c].value
           all == [version |-> [all |-> claRow[c].value, errored |-> {}], clas |-> claRow[c].value]
           dynamic == Xds!filterEndpointResourcesForStaticClusters(r.clusters, all)
           eds == Xds!filterEndpointResourcesForErroredClusters(dynamic, r.errored)
<1>1. b \in Xds!Name
  BY ZenonT(30) DEF Xds!Name
<1>2. Xds!snapshotPerClient(c) = Xds!Row([gateway |-> gateway, cds |-> r.clusters, eds |-> eds])
  BY ZenonT(30) DEF Xds!snapshotPerClient, Xds!NoRow
<1>3. /\ r.clusters[b] = Xds!Static => dynamic.clas[b] = Xds!None
      /\ dynamic.version.errored = {}
  BY ZenonT(30), <1>1 DEF Xds!filterEndpointResourcesForStaticClusters
<1> HIDE DEF dynamic
<1>4. /\ r.clusters[b] = Xds!Static => eds.clas[b] = Xds!None
      /\ b \in eds.version.errored => eds.clas[b] = Xds!None
  BY ZenonT(30), <1>1, <1>3 DEF Xds!filterEndpointResourcesForErroredClusters
<1> HIDE DEF eds, r
<1> QED
  BY SMTT(30), <1>2, <1>4 DEF Xds!Row

\* Every step keeps the rows and what is served sound, and withdraws nothing:
\* only RecomputeSnapshot (publish) and Start write the snapshot cache.
LEMMA StepServesWhole ==
    SnapshotsSound /\ [Xds!Next]_(Xds!vars) =>
        SnapshotsSound' /\ \A c \in Client : published[c].exists => published'[c].exists
<1> SUFFICES ASSUME SnapshotsSound, [Xds!Next]_(Xds!vars)
             PROVE  SnapshotsSound' /\ \A c \in Client : published[c].exists => published'[c].exists
  BY ZenonT(30)
<1>1. ASSUME NEW c \in Client, Xds!RecomputeSnapshot(c)
      PROVE  SnapshotsSound' /\ \A d \in Client : published[d].exists => published'[d].exists
  <2> DEFINE r == Xds!snapshotPerClient(c)
  <2>1. Xds!AllAsked(r)
    BY ZenonT(30), SnapshotAllAsked
  <2>2. /\ snapRow' = [snapRow EXCEPT ![c] = r]
        /\ published' = IF subscribed /\ r.exists THEN [published EXCEPT ![c] = r] ELSE published
    BY <1>1 DEF Xds!RecomputeSnapshot, Xds!publish
  <2> HIDE DEF r
  <2>3. \A d \in Client : /\ snapRow'[d] = snapRow[d] \/ snapRow'[d] = r
                          /\ published'[d] = published[d] \/ (published'[d] = r /\ r.exists)
    BY ZenonT(30), <2>2 DEF SnapshotsSound
  <2>4. snapRow' = [d \in Client |-> snapRow'[d]] /\ published' = [d \in Client |-> published'[d]]
    BY ZenonT(30), <2>2 DEF SnapshotsSound
  <2> QED
    BY SMTT(30), <2>1, <2>3, <2>4 DEF SnapshotsSound, Xds!AllAsked
<1>2. CASE Xds!Start
  BY ZenonT(30), <1>2 DEF Xds!Start, SnapshotsSound, Xds!AllAsked
<1>3. CASE UNCHANGED <<snapRow, published>>
  BY <1>3 DEF SnapshotsSound, Xds!AllAsked
<1>4. \/ Xds!Start
      \/ \E c \in Client : Xds!RecomputeSnapshot(c)
      \/ UNCHANGED <<snapRow, published>>
  BY ZenonT(30) DEF Xds!Next, Xds!vars, Xds!Environment, Xds!Collections, Xds!Stream,
       Xds!BackendChanges, Xds!EndpointsChange,
         Xds!GatewayChanges, Xds!Connect, Xds!Disconnect, Xds!RecomputeClusters, Xds!RecomputeEndpoints,
         Xds!Push, Xds!Request
<1> QED
  BY ZenonT(30), <1>1, <1>2, <1>3, <1>4

\* What a client is served is never withdrawn and has no CLA it never asks for
\* (publish; filterEndpointResourcesForStaticClusters and ...ErroredClusters).
THEOREM SnapshotsServedWhole == Xds!Spec => Xds!ServedWhole
<1>1. Xds!Init => SnapshotsSound
  BY DEF Xds!Init, SnapshotsSound, Xds!AllAsked, Xds!NoRow
<1>2. SnapshotsSound /\ [Xds!Next]_(Xds!vars) => SnapshotsSound'
  BY ZenonT(30), StepServesWhole
<1>3. SnapshotsSound /\ [Xds!Next]_(Xds!vars) =>
        [\A c \in Client : /\ Xds!AllAsked(published'[c])
                           /\ published[c].exists => published'[c].exists]_(Xds!vars)
  BY StepServesWhole DEF SnapshotsSound, Xds!AllAsked
<1> QED
  BY <1>1, <1>2, <1>3, PTL DEF Xds!Spec, Xds!ServedWhole
=============================================================================
