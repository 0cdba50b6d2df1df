------------------------------ MODULE PolicyMerge ------------------------------
(***************************************************************************)
(* Merging the TrafficPolicies attached to one translated object           *)
(* (pkg/pluginsdk/policy/merge.go, plugins/trafficpolicy/merge.go).        *)
(*                                                                         *)
(* The sub-IRs of a policy are cells of a heap that every translation      *)
(* shares: a shallow merge makes the accumulator point to the cell of the  *)
(* source policy, so a later deep merge that wrote through the pointer     *)
(* would change the policy for every other route and translation.  A cell  *)
(* is a field of its owner: an attached policy, or the accumulator that    *)
(* holds it as a private copy.                                             *)
(***************************************************************************)
EXTENDS Integers, Sequences

CONSTANTS
    PolicyLists, \* the lists of attached policies a translation may meet
    Overrides,   \* the values of Settings.PolicyMerge
    MaxRounds    \* how often the same policies are translated

VARIABLES
    pols,   \* the attached policies, from high to low priority
    tpOpts, \* TrafficPolicyMergeOpts: the strategy override of each deep field
    heap,   \* the content of every sub-IR cell
    accs,   \* the accumulators: one for each hierarchy and one across them
    todo,   \* what is still to be folded: policies, then hierarchies
    round   \* the translation under way

vars == <<pols, tpOpts, heap, accs, todo, round>>

Nil == <<>>
Auth == {"extAuth", "extProc"}
DeepField == Auth \cup {"transformation", "httpACL"}
Deep == {"AugmentedDeep", "OverridableDeep"}
-----------------------------------------------------------------------------
(* The fields that only know the default merge, in the two runs of merge   *)
(* functions of the source; one of each stands for all of them.            *)
filterFields == {"cors"}
routeFields == {"retry"}
Plain == filterFields \cup routeFields
Field == DeepField \cup Plain \cup {"buffer", "httpUpgrade"}

(* What is folded, and into what: the i-th policy into the accumulator of   *)
(* its hierarchy, and that one into the accumulator across hierarchies.     *)
PolicyAt(i) == <<"policy", i>>
Hierarchy(prio) == <<"hierarchy", prio>>
Out == <<"out", 0>>

groupPoliciesByHierarchicalPriority == {Hierarchy(pols[i].prio) : i \in DOMAIN pols}
AttachedPolicies == {PolicyAt(i) : i \in DOMAIN pols}
Accumulator == groupPoliciesByHierarchicalPriority \cup {Out}
Into(x) == IF x[1] = "policy" THEN Hierarchy(pols[x[2]].prio) ELSE Out

GetMergeStrategy(inherited, sameHierarchy) ==
    IF sameHierarchy THEN "AugmentedShallow"
    ELSE CASE inherited = "ShallowMergePreferParent" -> "OverridableShallow"
           [] inherited = "DeepMergePreferParent"    -> "OverridableDeep"
           [] inherited = "DeepMergePreferChild"     -> "AugmentedDeep"
           [] OTHER                                  -> "AugmentedShallow"

ToInternalMergeStrategy(s) ==
    IF s = "DeepMerge" THEN "AugmentedDeep" ELSE "AugmentedShallow"

(* The strategy of one field: the settings override it, and httpACL is deep *)
(* within a hierarchy even without a setting.                               *)
FieldStrategy(f, strategy, same, opts) ==
    CASE f \in DeepField /\ same /\ opts[f] # ""  -> ToInternalMergeStrategy(opts[f])
      [] f = "httpACL" /\ same /\ opts[f] = ""    -> "AugmentedDeep"
      [] OTHER                                    -> strategy

(* Mutant: a policy sets a field that an earlier one has set.               *)
LaterWins(a, b, st) == b # Nil

IsMergeable(a, b, st) == b # Nil /\ (st = "AugmentedShallow" => a = Nil)
-----------------------------------------------------------------------------
(* The outcome of merging one field: the cell the accumulator points to,    *)
(* what its private cell holds, and how the origins change.                 *)
Keep(a) == [ref |-> a, own |-> Nil, origin |-> "none"]
Take(b) == [ref |-> b, own |-> Nil, origin |-> "one"]
Own(cell, val, origin) == [ref |-> cell, own |-> <<val>>, origin |-> origin]

defaultMerge(a, b, st) ==
    IF IsMergeable(a, b, st) /\ (st \in Deep => a = Nil) THEN Take(b) ELSE Keep(a)

(* Mutant: the deep merge writes through the pointer it holds.              *)
copyNothing(o, f, a) == IF a = Nil THEN <<o, f>> ELSE a

copyForMerge(o, f, a) == <<o, f>>

Names(x) == {x.list[k].provider : k \in DOMAIN x.list}

mergeExtAuth(h, o, f, a, b, st) ==
    LET x == IF a = Nil THEN [list |-> <<>>, off |-> FALSE] ELSE h[a]
        y == h[b]
        adds == y.list # <<>> /\ ~ (Names(y) \subseteq Names(x))
        both == IF st = "AugmentedDeep" THEN x.list \o y.list ELSE y.list \o x.list
    IN  Own(copyForMerge(o, f, a),
            [list |-> IF adds THEN both ELSE x.list, off |-> x.off \/ y.off],
            IF y.off THEN "one" ELSE IF adds THEN "append" ELSE "none")

mergeExtProc(h, o, f, a, b, st) == mergeExtAuth(h, o, f, a, b, st)

(* The action lists are concatenated and the body of the second one wins:   *)
(* second is p1 when p1 is preferred.                                       *)
mergeRustformationJsonInPlace(first, second) ==
    [acts |-> first.acts \o second.acts,
     body |-> IF second.body = Nil THEN first.body ELSE second.body]

mergeRustformation(h, o, f, a, b, st) ==
    LET x == IF a = Nil THEN [acts |-> <<>>, body |-> Nil] ELSE h[a]
    IN  Own(copyForMerge(o, f, a),
            IF st = "OverridableDeep" THEN mergeRustformationJsonInPlace(x, h[b])
                                      ELSE mergeRustformationJsonInPlace(h[b], x),
            "append")

detectHttpACLMergeConflict(x, y) ==
    \/ x.action # y.action
    \/ x.deny # Nil /\ y.deny # Nil /\ x.deny # y.deny

mergeHttpACLJsonInPlace(x, y) ==
    [action |-> x.action, rules |-> x.rules \o y.rules,
     deny |-> IF x.deny = Nil THEN y.deny ELSE x.deny]

mergeHttpACL(h, o, f, a, b, st) ==
    CASE a = Nil -> Own(copyForMerge(o, f, a), h[b], "append")
      [] a # Nil /\ detectHttpACLMergeConflict(h[a], h[b]) ->
            IF st = "OverridableDeep" THEN Take(b) ELSE Keep(a)
      [] OTHER -> Own(copyForMerge(o, f, a),
                      IF st = "OverridableDeep" THEN mergeHttpACLJsonInPlace(h[b], h[a])
                                                ELSE mergeHttpACLJsonInPlace(h[a], h[b]),
                      "append")

MergeField(h, o, f, a, b, st) ==
    CASE ~ IsMergeable(a, b, st)                  -> Keep(a)
      [] f = "extAuth" /\ st \in Deep             -> mergeExtAuth(h, o, f, a, b, st)
      [] f = "extProc" /\ st \in Deep             -> mergeExtProc(h, o, f, a, b, st)
      [] f = "transformation" /\ st \in Deep      -> mergeRustformation(h, o, f, a, b, st)
      [] f = "httpACL" /\ st \in Deep             -> mergeHttpACL(h, o, f, a, b, st)
      [] OTHER                                    -> defaultMerge(a, b, st)
-----------------------------------------------------------------------------
bufferEnabled(h, ref) == ref # Nil /\ h[ref].on

(* Mutant: the two fields are merged and nobody reconciles them.            *)
noResolver(h, had, p2, spec, st) == {}

(* The fields to drop so that no policy has an enabled buffer together with *)
(* an HTTP upgrade: had is the accumulator before the fields were merged.   *)
resolveBufferHTTPUpgradeConflict(h, had, p2, spec, st) ==
    CASE ~ (bufferEnabled(h, spec["buffer"]) /\ spec["httpUpgrade"] # Nil) -> {}
      [] st \in {"AugmentedShallow", "AugmentedDeep"} ->
            IF had["httpUpgrade"] # Nil THEN {"buffer"}
            ELSE IF bufferEnabled(h, had["buffer"]) THEN {"httpUpgrade"} ELSE {}
      [] OTHER ->
            IF bufferEnabled(h, p2["buffer"]) THEN {"httpUpgrade"}
            ELSE IF p2["httpUpgrade"] # Nil THEN {"buffer"} ELSE {}

(* MergeTrafficPolicies: folds the input in (a spec and its origins) into   *)
(* accumulator o; the result is the accumulator and the heap.               *)
MergeTrafficPolicies(h, o, acc, in, inherited, same, opts) ==
    LET st == GetMergeStrategy(inherited, same)
        m == [f \in Field |->
                MergeField(h, o, f, acc.spec[f], in.spec[f], FieldStrategy(f, st, same, opts))]
        h2 == [c \in DOMAIN h |->
                IF m[c[2]].own # Nil /\ m[c[2]].ref = c THEN m[c[2]].own[1] ELSE h[c]]
        spec == [f \in Field |-> m[f].ref]
        drop == resolveBufferHTTPUpgradeConflict(h2, acc.spec, in.spec, spec, st)
    IN  [heap |-> h2,
         spec |-> [f \in Field |-> IF f \in drop THEN Nil ELSE spec[f]],
         origins |-> [f \in Field |->
            CASE f \in drop                -> {}
              [] m[f].origin = "none"      -> acc.origins[f]
              [] m[f].origin = "one"       -> in.origins[f]
              [] OTHER                     -> acc.origins[f] \cup in.origins[f]]]
-----------------------------------------------------------------------------
Empty == [spec |-> [f \in Field |-> Nil], origins |-> [f \in Field |-> {}],
          errs |-> {}, inherited |-> ""]

(* The policy as MergePolicies is given it: its cells and its own name.     *)
Source(i) == [spec |-> [f \in Field |-> IF pols[i].spec[f] = Nil THEN Nil ELSE <<PolicyAt(i), f>>],
              origins |-> [f \in Field |-> {i}],
              errs |-> IF pols[i].bad THEN {i} ELSE {}, inherited |-> pols[i].inherited]

Input(x) == IF x[1] = "policy" THEN Source(x[2]) ELSE accs[x]

(* MergePolicies: first the policies, hierarchy after hierarchy from the    *)
(* highest priority (the child route) to the lowest, then the results.      *)
MergePolicies(x, y) ==
    CASE x[1] = "policy" /\ y[1] = "policy" ->
            \/ pols[x[2]].prio > pols[y[2]].prio
            \/ pols[x[2]].prio = pols[y[2]].prio /\ x[2] < y[2]
      [] x[1] = "hierarchy" /\ y[1] = "hierarchy" -> x[2] > y[2]
      [] OTHER -> x[1] = "policy"

Init ==
    /\ pols \in PolicyLists
    /\ tpOpts \in Overrides
    /\ heap = [c \in (AttachedPolicies \cup Accumulator) \X Field |->
                IF c[1][1] = "policy" /\ pols[c[1][2]].spec[c[2]] # Nil
                THEN pols[c[1][2]].spec[c[2]][1] ELSE Nil]
    /\ accs = [o \in Accumulator |-> Empty]
    /\ todo = AttachedPolicies \cup groupPoliciesByHierarchicalPriority
    /\ round = 1

(* One turn of the loop of merge: a policy with errors contributes its      *)
(* errors and nothing else, and so does a hierarchy that holds one.         *)
Fold(x) ==
    LET o == Into(x)
        acc == accs[o]
        in == Input(x)
        m == MergeTrafficPolicies(heap, o, acc, in, in.inherited, o # Out, tpOpts)
    IN  /\ heap' = IF in.errs = {} THEN m.heap ELSE heap
        /\ accs' = [accs EXCEPT ![o] =
             IF in.errs # {} THEN [acc EXCEPT !.errs = acc.errs \cup in.errs]
             ELSE [spec |-> m.spec, origins |-> m.origins, errs |-> acc.errs,
                   inherited |-> IF o # Out THEN in.inherited ELSE acc.inherited]]

merge ==
    \E x \in todo :
        /\ \A y \in todo \ {x} : MergePolicies(x, y)
        /\ Fold(x)
        /\ todo' = todo \ {x}
        /\ UNCHANGED <<pols, tpOpts, round>>

(* The next translation that meets the same policies starts from an empty   *)
(* accumulator and the heap the last one left.                              *)
NextTranslation ==
    /\ todo = {} /\ round < MaxRounds
    /\ round' = round + 1
    /\ accs' = [o \in Accumulator |-> Empty]
    /\ todo' = AttachedPolicies \cup groupPoliciesByHierarchicalPriority
    /\ UNCHANGED <<pols, tpOpts, heap>>

Next == merge \/ NextTranslation

Spec == Init /\ [][Next]_vars
-----------------------------------------------------------------------------
Merged == accs[Out]
Finished == todo = {}

(* Priorities are integers, and a policy that merge does not skip has no    *)
(* enabled buffer beside an HTTP upgrade: the API refuses one and           *)
(* constructHTTPUpgrade reports an error.                                   *)
PoliciesConstructed ==
    \A ps \in PolicyLists : \A i \in DOMAIN ps :
        /\ i \in Nat /\ ps[i].prio \in Int
        /\ ~ ps[i].bad /\ ps[i].spec["buffer"] # Nil /\ ps[i].spec["httpUpgrade"] # Nil
             => ~ ps[i].spec["buffer"][1].on

(* A merge never writes into the IR of a policy it reads: the sub-IRs are   *)
(* the output of a collection that all routes and all translations share,   *)
(* and a value merged into them would accumulate from one translation to    *)
(* the next (the note above copyForMerge).                                  *)
SourcesUntouched ==
    \A i \in DOMAIN pols, f \in Field :
        pols[i].spec[f] # Nil => heap[<<PolicyAt(i), f>>] = pols[i].spec[f][1]

(* No accumulator ever holds an enabled buffer and an HTTP upgrade: Envoy   *)
(* cannot buffer an upgraded stream (resolveBufferHTTPUpgradeConflict).     *)
NeverBufferAndUpgrade ==
    \A o \in DOMAIN accs :
        ~ (bufferEnabled(heap, accs[o].spec["buffer"]) /\ accs[o].spec["httpUpgrade"] # Nil)

(* The reference for a field with the default merge.  Within a hierarchy    *)
(* the first policy that sets it counts.                                    *)
Counts(f, i, folded) ==
    /\ i \in folded /\ pols[i].spec[f] # Nil
    /\ \A j \in folded : pols[j].prio = pols[i].prio /\ pols[j].spec[f] # Nil => i <= j

(* The preference a hierarchy passes on is that of its last policy.         *)
PrefersParent(prio, folded) ==
    \E i \in folded :
        /\ pols[i].prio = prio /\ pols[i].inherited = "ShallowMergePreferParent"
        /\ \A j \in folded : pols[j].prio = prio => j <= i

(* Across hierarchies the outermost one that prefers the parent prevails,   *)
(* and if none does the innermost that sets the field.                      *)
Prevails(f, i, folded) ==
    /\ Counts(f, i, folded)
    /\ \A j \in folded : Counts(f, j, folded) =>
         IF PrefersParent(pols[i].prio, folded)
         THEN PrefersParent(pols[j].prio, folded) => pols[i].prio <= pols[j].prio
         ELSE ~ PrefersParent(pols[j].prio, folded) /\ pols[i].prio >= pols[j].prio

(* An accumulator holds, for a field with the default merge, the value that *)
(* prevails among the folded policies and its origin.                       *)
HoldsPrevailing(acc, f, folded) ==
    \/ /\ \A i \in folded : pols[i].spec[f] = Nil
       /\ acc.spec[f] = Nil /\ acc.origins[f] = {}
    \/ \E i \in folded :
         /\ Prevails(f, i, folded)
         /\ acc.spec[f] = <<PolicyAt(i), f>> /\ acc.origins[f] = {i}

(* When nothing attached is in error, the merged value of a field is the    *)
(* one the documented precedence names, and the origins that drive the      *)
(* Attached, Merged and Overridden conditions name exactly that policy.     *)
MergedAsDeclared ==
    Finished /\ Merged.errs = {} =>
        \A f \in Plain : HoldsPrevailing(Merged, f, DOMAIN pols)
=============================================================================
