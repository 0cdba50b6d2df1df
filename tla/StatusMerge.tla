---------------------------- MODULE StatusMerge ----------------------------
(***************************************************************************)
(* The merge of a shared status list (pluginsdk/statussync/writer.go):      *)
(* RouteStatus.parents and PolicyStatus.ancestors hold the entries of       *)
(* several controllers, and each controller replaces only its own.  The     *)
(* state machine is a list with writers that all publish with this merge.   *)
(***************************************************************************)
EXTENDS Integers, Sequences, FiniteSets, SequencesExt

CONSTANTS
    Controller,   \* controllers that publish with mergeOwnedStatusEntries
    Other,        \* a controller that only edits its entries in place
    Limit,        \* the schema's limit on the list
    Wanted,       \* Wanted[c]: the lists of references c may desire
    Start,        \* the lists the object may hold at first
    MaxChanges    \* bound: changes of a desired list

MergeAssumption == Other \notin Controller /\ Limit \in Nat \ {0}

Unset == -1   \* a nil pointer of a ParentReference

\* A reference: the optional kind (0 stands for "Gateway", 1 for a later kind),
\* the namespace, the name and the optional port; an entry adds its controller.
Entry(c, ref) == [controller |-> c, ref |-> ref]

OrDefault(x, default) == IF x = Unset THEN default ELSE x

\* Lexicographic order on tuples of integers of the same length.
Less(a, b) ==
    \E i \in DOMAIN a : a[i] < b[i] /\ \A j \in 1..(i - 1) : a[j] = b[j]

\* The fields that ParentString prints, in the order in which it prints them:
\* an unset kind is empty, before every kind, and an unset port is 0.
ParentString(ref) == <<ref.kind, ref.name, OrDefault(ref.port, 0), ref.namespace>>

\* compareParentReference: an unset kind is Gateway, an unset port precedes 0.
ParentReference(ref) == <<OrDefault(ref.kind, 0), ref.namespace, ref.name, ref.port>>

\* A stable sort by an integer tuple: position i of s goes after every position
\* with a smaller key, and after the equal ones before it.
StableSort(s, key(_)) ==
    LET keyed == [i \in DOMAIN s |-> <<key(s[i]), i, s[i]>>] \o <<>>
        Before(x, y) == Less(x[1], y[1]) \/ (x[1] = y[1] /\ x[2] < y[2])
        sorted == SortSeq(keyed, Before)
    IN  [p \in DOMAIN s |-> sorted[p][3]] \o <<>>

ownsAnyEntry(c, entries) == \E i \in DOMAIN entries : entries[i].controller = c

capMergedStatusEntries(entries) == SubSeq(entries, 1, IF Len(entries) <= Limit THEN Len(entries) ELSE Limit)

\* Mutant: our entries are put first, so the cap drops other controllers'.
mergeOursFirst(c, existing, desired) ==
    LET foreign == SelectSeq(existing, LAMBDA e : e.controller # c)
        ours == StableSort(desired, LAMBDA e : ParentReference(e.ref))
    IN  StableSort(capMergedStatusEntries(ours \o foreign), LAMBDA e : ParentString(e.ref))

\* Mutant: the canonical sort at the end is left out.
mergeUnsorted(c, existing, desired) ==
    LET foreign == SelectSeq(existing, LAMBDA e : e.controller # c)
        ours == StableSort(desired, LAMBDA e : ParentReference(e.ref))
    IN  capMergedStatusEntries(foreign \o ours)

\* Mutant: our former entries are not taken out of the list first.
mergeAppends(c, existing, desired) ==
    LET ours == StableSort(desired, LAMBDA e : ParentReference(e.ref))
    IN  StableSort(capMergedStatusEntries(existing \o ours), LAMBDA e : ParentString(e.ref))

\* Other controllers' entries as they are, then ours in a fixed order, cut at
\* the limit, and the whole in the order of ParentString.
mergeOwnedStatusEntries(c, existing, desired) ==
    LET foreign == SelectSeq(existing, LAMBDA e : e.controller # c)
        ours == StableSort(SelectSeq(desired, LAMBDA e : e.controller = c),
                           LAMBDA e : ParentReference(e.ref))
    IN  StableSort(capMergedStatusEntries(foreign \o ours), LAMBDA e : ParentString(e.ref))

-----------------------------------------------------------------------------
VARIABLES list, desired, changes
vars == <<list, desired, changes>>

Mine(c) == [i \in DOMAIN desired[c] |-> Entry(c, desired[c][i])]

\* What c publishes over the list it reads.
Merge(c) == mergeOwnedStatusEntries(c, list, Mine(c))

\* decide: something to publish, or something of ours to retract, that differs.
Decides(c) ==
    /\ desired[c] # <<>> \/ ownsAnyEntry(c, list)
    /\ Merge(c) # list

Init ==
    /\ list \in Start
    /\ desired \in [Controller -> UNION {Wanted[c] : c \in Controller}]
    /\ \A c \in Controller : desired[c] \in Wanted[c]
    /\ changes = 0

Publish(c) ==
    /\ Decides(c)
    /\ list' = Merge(c)
    /\ UNCHANGED <<desired, changes>>

Change(c) ==
    /\ changes < MaxChanges
    /\ changes' = changes + 1
    /\ \E d \in Wanted[c] \ {desired[c]} : desired' = [desired EXCEPT ![c] = d]
    /\ UNCHANGED list

\* The other controller withdraws or appends an entry.
Edit ==
    /\ changes < MaxChanges
    /\ changes' = changes + 1
    /\ \/ \E i \in DOMAIN list : list[i].controller = Other /\ list' = RemoveAt(list, i)
       \/ /\ Len(list) < Limit
          /\ \E e \in UNION {ToSet(s) : s \in Start} :
               /\ e.controller = Other
               /\ e \notin ToSet(list)
               /\ list' = Append(list, e)
    /\ UNCHANGED desired

Next == (\E c \in Controller : Publish(c) \/ Change(c)) \/ Edit

Spec == Init /\ [][Next]_vars

FairSpec == Spec /\ \A c \in Controller : WF_vars(Publish(c))

-----------------------------------------------------------------------------
EntriesOf(s, c) == {e \in ToSet(s) : e.controller = c}

\* The list holds entries of known controllers, within the schema's limit.
TypeOK ==
    /\ \A e \in ToSet(list) : e.controller \in Controller \cup {Other}
    /\ Len(list) <= Limit
    /\ changes \in 0..MaxChanges

\* Publishing never drops, duplicates or alters another controller's entries,
\* not even when the list is full: ours are truncated first.
ForeignEntriesKept ==
    [][\A c \in Controller : Publish(c) =>
         \A d \in (Controller \cup {Other}) \ {c} :
             /\ EntriesOf(list', d) = EntriesOf(list, d)
             /\ Cardinality({i \in DOMAIN list' : list'[i].controller = d})
                  = Cardinality({i \in DOMAIN list : list[i].controller = d})]_vars

\* One write is enough: over its own result the merge changes nothing.
OneWriteSettles ==
    \A c \in Controller : mergeOwnedStatusEntries(c, Merge(c), Mine(c)) = Merge(c)

\* Controllers that all publish with this merge stop rewriting the list.
PeersSettle == <>[][FALSE]_list
=============================================================================
