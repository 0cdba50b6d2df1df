--------------------------- MODULE RouteIndexProofs ---------------------------
(***************************************************************************)
(* Proofs about RouteIndex.                                                *)
(*                                                                         *)
(* A row that is not due is what its transform returns now, and what it    *)
(* has read is what the transform would read now.  A change that touches   *)
(* none of the keys a transform reads changes neither its result nor its   *)
(* reads: that is shown once for each thing that a transform fetches, then *)
(* for each transform, and then for each action.                           *)
(*                                                                         *)
(* What the transforms return is then compared with what the objects       *)
(* declare.  The lists are built by recursion, so what they hold is shown  *)
(* by induction over their positions, from a least one that fails.         *)
(***************************************************************************)
EXTENDS RouteIndex, WellFoundedInduction, TLAPS

(* The row is what the object's transform returns and its reads are those  *)
(* of the transform.                                                       *)
RowCurrent(o) ==
    IF obj[o] = Nil THEN row[o] = Nil
    ELSE /\ reads[o] = ReadsOf(o)
         /\ row[o] # Nil
         /\ \E ord \in Orders : RowEquals(o, row[o], Transform(o, ord))

RowsInv ==
    /\ obj = [o \in Objects |-> obj[o]]
    /\ row = [o \in Rows |-> row[o]]
    /\ reads = [o \in Rows |-> reads[o]]
    /\ \A o \in Objects : Admitted(o, obj[o])
    /\ \A o \in Rows \ dirty : RowCurrent(o)
-----------------------------------------------------------------------------
(* What a fetch returns is the same after a step, when its keys are among  *)
(* those in R.                                                             *)
TargetingKept(R) ==
    \A src, section, labels, onlyBackends, ord :
        TargetingReads(src, section, labels) \subseteq R =>
            getTargetingPolicies(src, section, labels, onlyBackends, ord)'
                = getTargetingPolicies(src, section, labels, onlyBackends, ord)
RefsKept(R) ==
    \A kind, ns, ref :
        FromRefReads(kind, ns, ref) \subseteq R =>
            /\ GetBackendFromRef(kind, ns, ref)' = GetBackendFromRef(kind, ns, ref)
            /\ FromRefReads(kind, ns, ref)' = FromRefReads(kind, ns, ref)
            /\ GetBackendFromRef(kind, ns, ref).err = "" =>
                    row'[GetBackendFromRef(kind, ns, ref).backend] = row[GetBackendFromRef(kind, ns, ref).backend]
ExtensionsKept(R) == \A p \in Policy : <<"policy", p>> \in R => obj'[p] = obj[p]
ListenerSetsKept(g) ==
    /\ ListenerSetsOf(g)' = ListenerSetsOf(g)
    /\ \A l \in ListenerSetsOf(g) :
        /\ obj'[l] = obj[l]
        /\ obj[g].allowed = "Selector" => (Source[l].ns \in open' <=> Source[l].ns \in open)

(* The list of targeting policies is made of the policies that are fetched *)
(* and of nothing else.                                                    *)
LEMMA ListedPolicies ==
  ASSUME NEW src, NEW section, NEW labels, NEW onlyBackends, NEW ord,
         fetchByTargetRef(src, section, onlyBackends)' = fetchByTargetRef(src, section, onlyBackends),
         \A ns \in {src.ns, GlobalNamespace} :
            fetchByTargetRefLabels(src, ns, section, labels, onlyBackends)'
                = fetchByTargetRefLabels(src, ns, section, labels, onlyBackends),
         \A q \in fetchByTargetRef(src, section, onlyBackends) : PolicyAtt(q, section)' = PolicyAtt(q, section),
         \A ns \in {src.ns, GlobalNamespace} :
            \A q \in fetchByTargetRefLabels(src, ns, section, labels, onlyBackends) :
                PolicyAtt(q, section)' = PolicyAtt(q, section)
  PROVE  getTargetingPolicies(src, section, labels, onlyBackends, ord)'
           = getTargetingPolicies(src, section, labels, onlyBackends, ord)
<1> DEFINE atts(S) == [p \in S |-> PolicyAtt(p, section)]
           named == fetchByTargetRef(src, section, onlyBackends)
           selecting(ns) == fetchByTargetRefLabels(src, ns, section, labels, onlyBackends)
<1>1. atts(named)' = atts(named)
  OBVIOUS
<1>2. \A ns \in {src.ns, GlobalNamespace} : atts(selecting(ns))' = atts(selecting(ns))
  OBVIOUS
<1>3. InOrder(ord, atts(named))' = InOrder(ord, atts(named))
  BY <1>1
<1>4. \A ns \in {src.ns, GlobalNamespace} : InOrder(ord, atts(selecting(ns)))' = InOrder(ord, atts(selecting(ns)))
  BY <1>2
<1> QED
  BY <1>3, <1>4 DEF getTargetingPolicies

(* The policies that target an object are the same after a change of a     *)
(* policy that is held under none of the keys fetched (PolicyIndex).       *)
LEMMA PolicyChangeKeeps ==
  ASSUME NEW p \in Policy, NEW spec, obj = [o \in Objects |-> obj[o]],
         obj' = [obj EXCEPT ![p] = spec], NEW R,
         R \cap (PolicyKeys(p, obj[p]) \cup PolicyKeys(p, spec)) = {}
  PROVE  TargetingKept(R)
<1> SUFFICES ASSUME NEW src, NEW section, NEW labels, NEW onlyBackends, NEW ord,
                    TargetingReads(src, section, labels) \subseteq R
             PROVE  getTargetingPolicies(src, section, labels, onlyBackends, ord)'
                      = getTargetingPolicies(src, section, labels, onlyBackends, ord)
  BY DEF TargetingKept
<1>1. obj'[p] = spec /\ \A q \in Policy \ {p} : obj'[q] = obj[q]
  BY DEF Objects
<1>2. ASSUME NEW x \in {obj[p], spec}, x # Nil, NEW t \in x.refs
      PROVE  /\ PolicyKey(t.kind, Source[p].ns, t.name, t.section) \notin R
             /\ PolicyKey(t.kind, Source[p].ns, "", t.section) \notin R
  <2>1. PolicyKeys(p, x) = {<<"policy", p>>}
            \cup (UNION {{PolicyKey(u.kind, Source[p].ns, u.name, u.section),
                          PolicyKey(u.kind, Source[p].ns, "", u.section)} : u \in x.refs})
    BY ZenonT(30), <1>2 DEF PolicyKeys
  <2>2. {PolicyKey(t.kind, Source[p].ns, t.name, t.section), PolicyKey(t.kind, Source[p].ns, "", t.section)}
            \subseteq PolicyKeys(p, x)
    BY <1>2, <2>1, ZenonT(30)
  <2>3. QED
    BY ZenonT(30), <2>2
<1>3. /\ fetchByTargetRef(src, section, onlyBackends)' = fetchByTargetRef(src, section, onlyBackends)
      /\ p \notin fetchByTargetRef(src, section, onlyBackends)
  <2>1. PolicyKey(src.kind, src.ns, src.name, section) \in R
    BY ZenonT(30) DEF TargetingReads
  <2>2. /\ p \notin fetchByTargetRef(src, section, onlyBackends)
        /\ p \notin fetchByTargetRef(src, section, onlyBackends)'
    BY ZenonT(30), <1>1, <1>2, <2>1 DEF fetchByTargetRef, Live
  <2>3. QED
    BY ZenonT(30), <1>1, <2>2 DEF fetchByTargetRef, Live
<1>4. ASSUME NEW ns \in {src.ns, GlobalNamespace}
      PROVE  /\ fetchByTargetRefLabels(src, ns, section, labels, onlyBackends)'
                    = fetchByTargetRefLabels(src, ns, section, labels, onlyBackends)
             /\ p \notin fetchByTargetRefLabels(src, ns, section, labels, onlyBackends)
  <2>1. labels # {} => PolicyKey(src.kind, ns, "", section) \in R
    BY ZenonT(30), <1>4 DEF TargetingReads
  <2>2. /\ p \notin fetchByTargetRefLabels(src, ns, section, labels, onlyBackends)
        /\ p \notin fetchByTargetRefLabels(src, ns, section, labels, onlyBackends)'
    BY ZenonT(30), <1>1, <1>2, <2>1 DEF fetchByTargetRefLabels, Live
  <2>3. QED
    BY ZenonT(30), <1>1, <2>2 DEF fetchByTargetRefLabels, Live
<1>5. \A q \in Policy \ {p} : PolicyAtt(q, section)' = PolicyAtt(q, section)
  BY <1>1 DEF PolicyAtt
<1>6. /\ fetchByTargetRef(src, section, onlyBackends) \subseteq Policy \ {p}
      /\ \A ns \in {src.ns, GlobalNamespace} :
            fetchByTargetRefLabels(src, ns, section, labels, onlyBackends) \subseteq Policy \ {p}
  BY ZenonT(30), <1>3, <1>4 DEF fetchByTargetRef, fetchByTargetRefLabels, Live
<1>7. QED
  BY <1>3, <1>4, <1>5, <1>6, ListedPolicies

(* The policies that target an object depend on the policies alone.        *)
LEMMA TargetingOfPolicies ==
  ASSUME \A p \in Policy : obj'[p] = obj[p]
  PROVE  \A R : TargetingKept(R)
<1> SUFFICES ASSUME NEW src, NEW section, NEW labels, NEW onlyBackends, NEW ord
             PROVE  getTargetingPolicies(src, section, labels, onlyBackends, ord)'
                      = getTargetingPolicies(src, section, labels, onlyBackends, ord)
  BY DEF TargetingKept
<1>1. fetchByTargetRef(src, section, onlyBackends)' = fetchByTargetRef(src, section, onlyBackends)
  BY DEF fetchByTargetRef, Live
<1>2. \A ns : fetchByTargetRefLabels(src, ns, section, labels, onlyBackends)'
                = fetchByTargetRefLabels(src, ns, section, labels, onlyBackends)
  BY DEF fetchByTargetRefLabels, Live
<1>3. \A q \in Policy : PolicyAtt(q, section)' = PolicyAtt(q, section)
  BY DEF PolicyAtt
<1>4. QED
  BY <1>1, <1>2, <1>3, ListedPolicies DEF fetchByTargetRef, fetchByTargetRefLabels, Live
-----------------------------------------------------------------------------
(* A backend that is found comes without an error.                         *)
LEMMA FoundIs == \A b : Found(b).backend = b /\ Found(b).err = ""
  BY DEF Found

(* The oldest of the backends with an alias is one of them.                *)
LEMMA OldestIsAliased ==
  ASSUME NEW ref, BackendsAliased(ref) # {}
  PROVE  /\ getBackendFromAlias(ref).err = ""
         /\ getBackendFromAlias(ref).backend \in BackendsAliased(ref)
<1> DEFINE S == BackendsAliased(ref)
           T == {Created[b] : b \in S}
           R == {x \in Nat \X Nat : x[1] < x[2]}
<1>1. T \subseteq Nat /\ T # {}
  <2>1. \A b \in Backend : Created[b] \in Nat
    BY ZenonT(30), RouteIndexAssumption
  <2>2. QED
    BY <2>1 DEF BackendsAliased, Present
<1>2. IsWellFoundedOn(R, Nat)
  BY NatLessThanWellFounded DEF OpToRel
<1>3. PICK n \in T : \A m \in T : <<m, n>> \notin R
  BY ZenonT(30), <1>1, <1>2, WFMin
<1>4. \A m \in T : n <= m
  <2>1. \A i, j \in Nat : i < j => <<i, j>> \in R
    OBVIOUS
  <2>2. \A m \in T : m \in Nat /\ n \in Nat /\ ~ (m < n)
    BY ZenonT(30), <1>1, <1>3, <2>1
  <2>3. QED
    BY <2>2
<1>5. PICK b \in S : Created[b] = n
  BY <1>3
<1>6. \E x \in S : \A c \in S : Created[x] <= Created[c]
  BY <1>4, <1>5
<1>7. getBackendFromAlias(ref) = Found(CHOOSE x \in S : \A c \in S : Created[x] <= Created[c])
  BY ZenonT(30) DEF getBackendFromAlias
<1>8. (CHOOSE x \in S : \A c \in S : Created[x] <= Created[c]) \in S
  BY <1>6, ZenonT(30)
<1>9. QED
  BY <1>7, <1>8, FoundIs, ZenonT(30)

(* A backend row that is replaced leaves a reference as it was resolved,   *)
(* when it changes none of the keys that the lookups have fetched: the     *)
(* exact key, then the alias, then the name (getBackend).                  *)
LEMMA BackendChangeKeeps ==
  ASSUME NEW b \in Backend, NEW new, row = [o \in Rows |-> row[o]],
         row' = [row EXCEPT ![b] = new], NEW ref,
         BackendRefReads(ref) \cap ChangedKeys(b, row[b], new) = {}
  PROVE  /\ getBackend(ref)' = getBackend(ref)
         /\ BackendRefReads(ref)' = BackendRefReads(ref)
         /\ getBackend(ref).err = "" => row'[getBackend(ref).backend] = row[getBackend(ref).backend]
<1> USE DEF PortNotAllowed
<1>1. row'[b] = new /\ \A c \in Backend \ {b} : row'[c] = row[c]
  BY DEF Rows
<1>2. CASE PortNotAllowed(ref)
  BY ZenonT(30), <1>2 DEF getBackend, BackendRefReads, Missing
<1>3. CASE ~ PortNotAllowed(ref)
  <2>1. BackendKey(ref, ref.port) \in BackendRefReads(ref)
    BY ZenonT(30), <1>3 DEF BackendRefReads
  <2>2. ASSUME NEW r \in {row[b], new}, r # Nil
        PROVE  BackendKey(Source[b], r.spec.port) # BackendKey(ref, ref.port)
    <3>1. BackendKey(Source[b], r.spec.port) \in ChangedKeys(b, row[b], new)
      BY <2>2 DEF ChangedKeys, LookupKeys
    <3>2. QED
      BY <2>1, <3>1
  <2>3. BackendsNamed(ref)' = BackendsNamed(ref) /\ b \notin BackendsNamed(ref)
    BY <1>1, <2>2 DEF BackendsNamed, Present
  <2>4. CASE BackendsNamed(ref) # {}
    <3> DEFINE c == CHOOSE x \in BackendsNamed(ref) : TRUE
    <3>1. getBackend(ref) = Found(c)
      BY ZenonT(30), <1>3, <2>4 DEF getBackend
    <3>2. getBackend(ref)' = Found(c)
      BY ZenonT(30), <1>3, <2>3, <2>4 DEF getBackend, Found
    <3>3. c \in Backend \ {b}
      BY <2>3, <2>4 DEF BackendsNamed, Present
    <3>4. BackendRefReads(ref)' = BackendRefReads(ref)
      BY ZenonT(30), <2>3, <2>4 DEF BackendRefReads
    <3> HIDE DEF c
    <3>5. getBackend(ref).backend = c /\ row'[c] = row[c]
      BY <1>1, <3>1, <3>3, FoundIs, ZenonT(30)
    <3>6. QED
      BY ZenonT(30), <3>1, <3>2, <3>4, <3>5
  <2>5. CASE BackendsNamed(ref) = {}
    <3>1. AliasKey(ref, ref.port) \in BackendRefReads(ref)
      BY ZenonT(30), <1>3, <2>5 DEF BackendRefReads
    <3>2. ASSUME NEW r \in {row[b], new}, r # Nil, NEW a \in Range(r.spec.aliases)
          PROVE  AliasKey(a, r.spec.port) # AliasKey(ref, ref.port)
      <4>1. AliasKey(a, r.spec.port) \in ChangedKeys(b, row[b], new)
        BY ZenonT(30), <3>2 DEF ChangedKeys, LookupKeys
      <4>2. QED
        BY ZenonT(30), <3>1, <4>1
    <3>3. BackendsAliased(ref)' = BackendsAliased(ref) /\ b \notin BackendsAliased(ref)
      BY SMTT(30), ZenonT(30), <1>1, <3>2 DEF BackendsAliased, Present
    <3>4. getBackendFromAlias(ref)' = getBackendFromAlias(ref)
      BY <3>3 DEF getBackendFromAlias, Found, Missing
    <3>5. BackendsAliased(ref) = {} =>
              notFoundErr(ref)' = notFoundErr(ref) /\ notFoundErr(ref).err # ""
      <4>1. CASE ref.port = ""
        BY ZenonT(30), <4>1 DEF notFoundErr, Missing
      <4>2. CASE ref.port # "" /\ BackendsAliased(ref) = {}
        <5>1. NameKey(ref) \in BackendRefReads(ref)
          BY ZenonT(30), <1>3, <2>5, <4>2 DEF BackendRefReads
        <5>2. NameKey(ref) \in NameKeys(b, row[b]) <=> NameKey(ref) \in NameKeys(b, new)
          BY <5>1 DEF ChangedKeys
        <5>3. hasBackendNamed(ref)' <=> hasBackendNamed(ref)
          <6>1. \A r : NameKey(ref) \in NameKeys(b, r) => r # Nil
            BY DEF NameKeys
          <6>2. \A c \in Backend : row'[c] # Nil /\ NameKey(ref) \in NameKeys(c, row'[c])
                                 <=> row[c] # Nil /\ NameKey(ref) \in NameKeys(c, row[c])
            BY <1>1, <5>2, <6>1
          <6>3. QED
            BY <6>2 DEF hasBackendNamed, Present
        <5>4. QED
          BY ZenonT(30), <5>3 DEF notFoundErr, Missing
      <4>3. QED
        BY ZenonT(30), <4>1, <4>2
    <3>6. BackendRefReads(ref)' = BackendRefReads(ref)
      BY ZenonT(30), <2>3, <3>3 DEF BackendRefReads
    <3>7. getBackend(ref)' = getBackend(ref)
      BY ZenonT(30), <1>3, <2>3, <2>5, <3>3, <3>4, <3>5 DEF getBackend
    <3>8. BackendsAliased(ref) # {} => getBackendFromAlias(ref).backend \in Backend \ {b}
      BY ZenonT(30), <3>3, OldestIsAliased DEF BackendsAliased, Present
    <3>9. getBackend(ref).err = "" => getBackend(ref).backend \in Backend \ {b}
      BY ZenonT(30), <1>3, <2>5, <3>5, <3>8 DEF getBackend, Missing
    <3>10. QED
      BY ZenonT(30), <1>1, <3>6, <3>7, <3>9
  <2>6. QED
    BY ZenonT(30), <2>4, <2>5
<1>4. QED
  BY ZenonT(30), <1>2, <1>3

(* A reference resolves to a backend that has a row.                       *)
LEMMA ResolvesToBackend ==
  ASSUME NEW ref, getBackend(ref).err = ""
  PROVE  getBackend(ref).backend \in Backend
<1>1. \A err : Missing(err).err = err
  BY ZenonT(30) DEF Missing
<1>2. CASE PortNotAllowed(ref)
  BY ZenonT(30), <1>2 DEF getBackend, Missing
<1>3. CASE ~ PortNotAllowed(ref) /\ BackendsNamed(ref) # {}
  <2> DEFINE c == CHOOSE x \in BackendsNamed(ref) : TRUE
  <2>1. getBackend(ref) = Found(c)
    BY ZenonT(30), <1>3 DEF getBackend
  <2>2. c \in Backend
    BY ZenonT(30), <1>3 DEF BackendsNamed, Present
  <2> HIDE DEF c
  <2>3. QED
    BY <2>1, <2>2, FoundIs, ZenonT(30)
<1>4. CASE ~ PortNotAllowed(ref) /\ BackendsNamed(ref) = {}
  <2>1. notFoundErr(ref).err # ""
    BY ZenonT(30) DEF notFoundErr, Missing
  <2>2. BackendsAliased(ref) \subseteq Backend
    BY ZenonT(30) DEF BackendsAliased, Present
  <2>3. QED
    BY ZenonT(30), <1>1, <1>4, <2>1, <2>2, OldestIsAliased DEF getBackend
<1>5. QED
  BY ZenonT(30), <1>2, <1>3, <1>4

(* A reference resolves as before when its grants are read as before and,  *)
(* where it is allowed, the backend is (GetBackendFromRef).                *)
LEMMA ResolvedKept ==
  ASSUME NEW kind, NEW ns, NEW ref,
         GrantReads(kind, ns, ref)' = GrantReads(kind, ns, ref),
         ReferenceAllowed(kind, ns, ref)' <=> ReferenceAllowed(kind, ns, ref),
         ReferenceAllowed(kind, ns, ref) =>
            /\ getBackend(ref)' = getBackend(ref)
            /\ BackendRefReads(ref)' = BackendRefReads(ref)
            /\ getBackend(ref).err = "" => row'[getBackend(ref).backend] = row[getBackend(ref).backend]
  PROVE  /\ GetBackendFromRef(kind, ns, ref)' = GetBackendFromRef(kind, ns, ref)
         /\ FromRefReads(kind, ns, ref)' = FromRefReads(kind, ns, ref)
         /\ GetBackendFromRef(kind, ns, ref).err = "" =>
                row'[GetBackendFromRef(kind, ns, ref).backend] = row[GetBackendFromRef(kind, ns, ref).backend]
<1>1. Missing("missing grant").err # "" /\ Missing("missing grant")' = Missing("missing grant")
  BY ZenonT(30) DEF Missing
<1>2. QED
  BY ZenonT(30), <1>1 DEF GetBackendFromRef, FromRefReads

(* What a reference resolves to depends on the rows of the backends and on *)
(* the grants.                                                             *)
LEMMA BackendsResolve ==
  ASSUME \A b \in Backend : row'[b] = row[b]
  PROVE  \A ref : /\ getBackend(ref)' = getBackend(ref)
                  /\ BackendRefReads(ref)' = BackendRefReads(ref)
                  /\ getBackend(ref).err = "" => row'[getBackend(ref).backend] = row[getBackend(ref).backend]
<1> SUFFICES ASSUME NEW ref
             PROVE  /\ getBackend(ref)' = getBackend(ref)
                    /\ BackendRefReads(ref)' = BackendRefReads(ref)
                    /\ getBackend(ref).err = "" => row'[getBackend(ref).backend] = row[getBackend(ref).backend]
  BY ZenonT(30)
<1>1. BackendsNamed(ref)' = BackendsNamed(ref) /\ BackendsAliased(ref)' = BackendsAliased(ref)
  BY DEF BackendsNamed, BackendsAliased, Present
<1>2. notFoundErr(ref)' = notFoundErr(ref)
  <2>1. hasBackendNamed(ref)' <=> hasBackendNamed(ref)
    BY DEF hasBackendNamed, Present
  <2>2. QED
    BY ZenonT(30), <2>1 DEF notFoundErr, Missing
<1>3. getBackendFromAlias(ref)' = getBackendFromAlias(ref)
  BY <1>1 DEF getBackendFromAlias, Found, Missing
<1>4. getBackend(ref)' = getBackend(ref)
  BY <1>1, <1>2, <1>3 DEF getBackend, PortNotAllowed, Found, Missing
<1>5. BackendRefReads(ref)' = BackendRefReads(ref)
  BY ZenonT(30), <1>1 DEF BackendRefReads, PortNotAllowed
<1>6. QED
  BY ZenonT(30), <1>4, <1>5, ResolvesToBackend

(* A step that changes no backend's row and no grant.                      *)
LEMMA RefsOfBackends ==
  ASSUME \A b \in Backend : row'[b] = row[b], grant' = grant
  PROVE  \A R : RefsKept(R)
<1>1. \A kind, ns, ref : /\ GrantReads(kind, ns, ref)' = GrantReads(kind, ns, ref)
                         /\ ReferenceAllowed(kind, ns, ref)' <=> ReferenceAllowed(kind, ns, ref)
  BY DEF GrantReads, ReferenceAllowed
<1>2. SUFFICES ASSUME NEW kind, NEW ns, NEW ref
               PROVE  /\ GetBackendFromRef(kind, ns, ref)' = GetBackendFromRef(kind, ns, ref)
                      /\ FromRefReads(kind, ns, ref)' = FromRefReads(kind, ns, ref)
                      /\ GetBackendFromRef(kind, ns, ref).err = "" =>
                            row'[GetBackendFromRef(kind, ns, ref).backend] = row[GetBackendFromRef(kind, ns, ref).backend]
  BY ZenonT(30) DEF RefsKept
<1>3. /\ getBackend(ref)' = getBackend(ref)
      /\ BackendRefReads(ref)' = BackendRefReads(ref)
      /\ getBackend(ref).err = "" => row'[getBackend(ref).backend] = row[getBackend(ref).backend]
  BY ZenonT(30), BackendsResolve
<1>4. QED
  BY ZenonT(30), <1>1, <1>3, ResolvedKept

(* A step that replaces the row of a backend.                              *)
LEMMA RefsOfChanged ==
  ASSUME NEW b \in Backend, NEW new, row = [o \in Rows |-> row[o]],
         row' = [row EXCEPT ![b] = new], grant' = grant,
         NEW R, R \cap ChangedKeys(b, row[b], new) = {}
  PROVE  RefsKept(R)
<1>1. \A kind, ns, ref : /\ GrantReads(kind, ns, ref)' = GrantReads(kind, ns, ref)
                         /\ ReferenceAllowed(kind, ns, ref)' <=> ReferenceAllowed(kind, ns, ref)
  BY DEF GrantReads, ReferenceAllowed
<1>2. \A kind, ns, ref : FromRefReads(kind, ns, ref) \subseteq R /\ ReferenceAllowed(kind, ns, ref)
                            => BackendRefReads(ref) \cap ChangedKeys(b, row[b], new) = {}
  BY DEF FromRefReads
<1>3. SUFFICES ASSUME NEW kind, NEW ns, NEW ref, FromRefReads(kind, ns, ref) \subseteq R
               PROVE  /\ GetBackendFromRef(kind, ns, ref)' = GetBackendFromRef(kind, ns, ref)
                      /\ FromRefReads(kind, ns, ref)' = FromRefReads(kind, ns, ref)
                      /\ GetBackendFromRef(kind, ns, ref).err = "" =>
                            row'[GetBackendFromRef(kind, ns, ref).backend] = row[GetBackendFromRef(kind, ns, ref).backend]
  BY ZenonT(30) DEF RefsKept
<1>4. ReferenceAllowed(kind, ns, ref) =>
        /\ getBackend(ref)' = getBackend(ref)
        /\ BackendRefReads(ref)' = BackendRefReads(ref)
        /\ getBackend(ref).err = "" => row'[getBackend(ref).backend] = row[getBackend(ref).backend]
  BY ZenonT(30), <1>2, <1>3, BackendChangeKeeps
<1>5. QED
  BY ZenonT(30), <1>1, <1>4, ResolvedKept

(* A step that adds or takes away a grant.                                 *)
LEMMA RefsOfGrants ==
  ASSUME NEW g, grant' = (IF g \in grant THEN grant \ {g} ELSE grant \cup {g}), row' = row,
         NEW R, <<"grant", g>> \notin R
  PROVE  RefsKept(R)
<1>1. ASSUME NEW kind, NEW ns, NEW ref, FromRefReads(kind, ns, ref) \subseteq R
      PROVE  /\ GrantReads(kind, ns, ref)' = GrantReads(kind, ns, ref)
             /\ ReferenceAllowed(kind, ns, ref)' <=> ReferenceAllowed(kind, ns, ref)
  <2>1. CASE ns = ref.ns \/ ref.ns = ""
    BY ZenonT(30), <2>1 DEF GrantReads, ReferenceAllowed
  <2>2. CASE ~ (ns = ref.ns \/ ref.ns = "")
    <3> DEFINE wide == GrantFor(kind, ns, ref, "")
               own == GrantFor(kind, ns, ref, ref.name)
    <3>1. /\ GrantReads(kind, ns, ref) = {<<"grant", GrantFor(kind, ns, ref, name)>> :
                    name \in {""} \cup IF wide \in grant THEN {} ELSE {ref.name}}
          /\ GrantReads(kind, ns, ref)' = {<<"grant", GrantFor(kind, ns, ref, name)>> :
                    name \in {""} \cup IF wide \in grant' THEN {} ELSE {ref.name}}
      BY ZenonT(30), <2>2 DEF GrantReads
    <3>2. <<"grant", wide>> \in R /\ (wide \notin grant => <<"grant", own>> \in R)
      BY ZenonT(30), <1>1, <3>1 DEF FromRefReads
    <3>3. (wide \in grant <=> wide \in grant') /\ (wide \notin grant => (own \in grant <=> own \in grant'))
      BY ZenonT(30), <3>2
    <3>4. /\ ReferenceAllowed(kind, ns, ref) <=> wide \in grant \/ own \in grant
          /\ ReferenceAllowed(kind, ns, ref)' <=> wide \in grant' \/ own \in grant'
      BY ZenonT(30), <2>2 DEF ReferenceAllowed
    <3>5. QED
      BY ZenonT(30), <3>1, <3>3, <3>4
  <2>3. QED
    BY ZenonT(30), <2>1, <2>2
<1>2. QED
  BY <1>1, BackendsResolve, ResolvedKept DEF RefsKept
-----------------------------------------------------------------------------
(* A backend's transform reads its object and the policies it fetches      *)
(* (attachPoliciesToBackend).                                              *)
LEMMA BackendKept ==
  ASSUME NEW b \in Backend, obj'[b] = obj[b], TargetingKept(BackendReads(b))
  PROVE  /\ BackendReads(b)' = BackendReads(b)
         /\ \A ord : attachPoliciesToBackend(b, ord)' = attachPoliciesToBackend(b, ord)
<1>1. Labels(b)' = Labels(b) /\ SourcesOf(b)' = SourcesOf(b)
  BY DEF Labels, SourcesOf
<1>2. BackendReads(b)' = BackendReads(b)
  <2>1. \A src : SourceReads(b, src)' = SourceReads(b, src)
    BY <1>1 DEF SourceReads
  <2>2. QED
    BY <1>1, <2>1 DEF BackendReads, Range
<1>3. ASSUME NEW ord, NEW k \in DOMAIN SourcesOf(b), NEW src, src = SourcesOf(b)[k]
      PROVE  PoliciesOfSource(b, src, ord)' = PoliciesOfSource(b, src, ord)
  <2>1. \A s \in {"", obj[b].portName} : TargetingReads(src, s, Labels(b)) \subseteq BackendReads(b)
    <3>1. SourceReads(b, src) \subseteq BackendReads(b)
      BY <1>3, ZenonT(30) DEF BackendReads, Range
    <3>2. QED
      BY <3>1, ZenonT(30) DEF SourceReads
  <2>2. \A s \in {"", obj[b].portName} : \A labels : labels = Labels(b) =>
            getTargetingPolicies(src, s, labels, TRUE, ord)' = getTargetingPolicies(src, s, labels, TRUE, ord)
    BY <2>1, ZenonT(30) DEF TargetingKept
  <2>3. QED
    BY ZenonT(30), <1>1, <2>2 DEF PoliciesOfSource
<1>4. ASSUME NEW ord
      PROVE  attachPoliciesToBackend(b, ord)' = attachPoliciesToBackend(b, ord)
  <2>1. [k \in DOMAIN SourcesOf(b) |-> PoliciesOfSource(b, SourcesOf(b)[k], ord)]'
            = [k \in DOMAIN SourcesOf(b) |-> PoliciesOfSource(b, SourcesOf(b)[k], ord)]
    BY <1>1, <1>3
  <2>2. QED
    BY <2>1 DEF attachPoliciesToBackend
<1>5. QED
  BY <1>2, <1>4

(* A rule's transform reads the policies, extensions and references that   *)
(* it fetches (transformRules, getExtensionRefs, getBackends).             *)
LEMMA RuleKept ==
  ASSUME NEW r \in Route, obj'[r] = obj[r], NEW rule,
         TargetingKept(RuleReads(r, rule)), RefsKept(RuleReads(r, rule)), ExtensionsKept(RuleReads(r, rule)),
         \A f \in Range(rule.filters) : Has(f, "mirror") \/ f.ext \in Policy
  PROVE  /\ RuleReads(r, rule)' = RuleReads(r, rule)
         /\ \A ord : transformRule(r, rule, ord)' = transformRule(r, rule, ord)
<1> DEFINE R == RuleReads(r, rule)
<1>1. Labels(r)' = Labels(r)
  BY ZenonT(30) DEF Labels
<1>2. ASSUME NEW ref \in Range(rule.backends), ref.kind # "HTTPRoute"
      PROVE  /\ FromRefReads(Source[r].kind, Source[r].ns, ref)' = FromRefReads(Source[r].kind, Source[r].ns, ref)
             /\ resolveRouteBackend(r, ref)' = resolveRouteBackend(r, ref)
  <2>1. FromRefReads(Source[r].kind, Source[r].ns, ref) \subseteq R
    BY <1>2, ZenonT(30) DEF RuleReads
  <2>2. /\ GetBackendFromRef(Source[r].kind, Source[r].ns, ref)' = GetBackendFromRef(Source[r].kind, Source[r].ns, ref)
        /\ FromRefReads(Source[r].kind, Source[r].ns, ref)' = FromRefReads(Source[r].kind, Source[r].ns, ref)
        /\ GetBackendFromRef(Source[r].kind, Source[r].ns, ref).err = "" =>
              row'[GetBackendFromRef(Source[r].kind, Source[r].ns, ref).backend]
                = row[GetBackendFromRef(Source[r].kind, Source[r].ns, ref).backend]
    BY <2>1, ZenonT(30) DEF RefsKept
  <2>3. QED
    BY ZenonT(30), <2>2 DEF resolveRouteBackend, Nil
<1>3. ASSUME NEW f \in Range(rule.filters)
      PROVE  resolveExtension(r, f)' = resolveExtension(r, f) /\ FilterReads(r, f)' = FilterReads(r, f)
  <2>4. FilterReads(r, f) \subseteq R
    BY <1>3, ZenonT(30) DEF RuleReads
  <2>1. CASE Has(f, "mirror")
    <3>1. FromRefReads("HTTPRoute", Source[r].ns, f.mirror) \subseteq R
      BY <2>4, <2>1 DEF FilterReads
    <3>2. /\ GetBackendFromRef("HTTPRoute", Source[r].ns, f.mirror)' = GetBackendFromRef("HTTPRoute", Source[r].ns, f.mirror)
          /\ FromRefReads("HTTPRoute", Source[r].ns, f.mirror)' = FromRefReads("HTTPRoute", Source[r].ns, f.mirror)
      <4>1. \A kind, ns, ref : FromRefReads(kind, ns, ref) \subseteq R =>
                /\ GetBackendFromRef(kind, ns, ref)' = GetBackendFromRef(kind, ns, ref)
                /\ FromRefReads(kind, ns, ref)' = FromRefReads(kind, ns, ref)
        BY ZenonT(30) DEF RefsKept
      <4> HIDE DEF R
      <4>2. QED
        BY <3>1, <4>1, ZenonT(30)
    <3>3. QED
      BY ZenonT(30), <2>1, <3>2 DEF resolveExtension, convertMirrorIR, FilterReads
  <2>2. CASE ~ Has(f, "mirror")
    <3>1. <<"policy", f.ext>> \in R
      BY <2>4, <2>2 DEF FilterReads
    <3>2. obj'[f.ext] = obj[f.ext]
      BY <1>3, <2>2, <3>1 DEF ExtensionsKept
    <3>3. QED
      BY ZenonT(30), <2>2, <3>2 DEF resolveExtension, FilterReads, Nil
  <2>3. QED
    BY <2>1, <2>2
<1>4. \A ord, labels : labels = Labels(r) =>
        getTargetingPolicies(Source[r], rule.name, labels, FALSE, ord)'
            = getTargetingPolicies(Source[r], rule.name, labels, FALSE, ord)
  <2>1. TargetingReads(Source[r], rule.name, Labels(r)) \subseteq R
    BY ZenonT(30) DEF RuleReads
  <2>2. QED
    BY <2>1, ZenonT(30) DEF TargetingKept
<1>5. R' = R
  BY ZenonT(30), <1>1, <1>2, <1>3 DEF RuleReads
<1>6. getExtensionRefs(r, rule.filters)' = getExtensionRefs(r, rule.filters)
  BY <1>3 DEF getExtensionRefs, Range
<1>7. getBackends(r, rule.backends)' = getBackends(r, rule.backends)
  BY <1>2 DEF getBackends, Range
<1>8. QED
  BY ZenonT(30), <1>1, <1>4, <1>5, <1>6, <1>7 DEF transformRule

(* What is kept for a set of keys is kept for a part of it.                *)
LEMMA KeptBelow ==
  ASSUME NEW R, NEW Q, Q \subseteq R
  PROVE  /\ TargetingKept(R) => TargetingKept(Q)
         /\ RefsKept(R) => RefsKept(Q)
         /\ ExtensionsKept(R) => ExtensionsKept(Q)
<1>1. TargetingKept(R) => TargetingKept(Q)
  BY ZenonT(30) DEF TargetingKept
<1>2. RefsKept(R) => RefsKept(Q)
  BY ZenonT(30) DEF RefsKept
<1>3. ExtensionsKept(R) => ExtensionsKept(Q)
  BY ZenonT(30) DEF ExtensionsKept
<1>4. QED
  BY <1>1, <1>2, <1>3

(* A route's transform reads its object and what its rules fetch           *)
(* (transformHttpRoute, transformTcpRoute).                                *)
LEMMA RouteKept ==
  ASSUME NEW r \in Route, obj'[r] = obj[r], obj[r] # Nil, Admitted(r, obj[r]),
         TargetingKept(RouteReads(r)), RefsKept(RouteReads(r)), ExtensionsKept(RouteReads(r))
  PROVE  /\ RouteReads(r)' = RouteReads(r)
         /\ \A ord : transformRoute(r, ord)' = transformRoute(r, ord)
<1> DEFINE rules == obj[r].rules
<1>1. Labels(r)' = Labels(r) /\ rules' = rules
  BY ZenonT(30) DEF Labels
<1>2. ASSUME NEW k \in DOMAIN rules, NEW rule, rule = rules[k]
      PROVE  /\ RuleReads(r, rule)' = RuleReads(r, rule)
             /\ \A ord : transformRule(r, rule, ord)' = transformRule(r, rule, ord)
  <2>1. RuleReads(r, rule) \subseteq RouteReads(r)
    BY <1>2, ZenonT(30) DEF RouteReads, Range
  <2>2. \A f \in Range(rule.filters) : Has(f, "mirror") \/ f.ext \in Policy
    BY ZenonT(30), <1>2 DEF Admitted
  <2>3. QED
    BY <2>1, <2>2, KeptBelow, RuleKept
<1>3. ASSUME NEW ord, NEW labels, labels = Labels(r)
      PROVE  getTargetingPolicies(Source[r], "", labels, FALSE, ord)' = getTargetingPolicies(Source[r], "", labels, FALSE, ord)
  <2>1. TargetingReads(Source[r], "", labels) \subseteq RouteReads(r)
    BY <1>3, ZenonT(30) DEF RouteReads
  <2>2. \A src, section, onlyBackends : TargetingReads(src, section, labels) \subseteq RouteReads(r) =>
            getTargetingPolicies(src, section, labels, onlyBackends, ord)'
                = getTargetingPolicies(src, section, labels, onlyBackends, ord)
    BY ZenonT(30) DEF TargetingKept
  <2>3. QED
    BY ZenonT(30), <2>1, <2>2
<1>4. RouteReads(r)' = RouteReads(r)
  <2> DEFINE each == {RuleReads(r, rule) : rule \in Range(rules)}
  <2>1. \A rule \in Range(rules) : RuleReads(r, rule)' = RuleReads(r, rule)
    BY <1>2, ZenonT(30) DEF Range
  <2>2. Range(rules)' = Range(rules)
    BY <1>1 DEF Range
  <2>3. each' = each
    BY <2>1, <2>2
  <2>4. (UNION each)' = UNION each
    BY <2>3
  <2>5. TargetingReads(Source[r], "", Labels(r))' = TargetingReads(Source[r], "", Labels(r))
    BY ZenonT(30), <1>1 DEF TargetingReads
  <2>6. QED
    BY <2>4, <2>5, ZenonT(30) DEF RouteReads
<1>5. ASSUME NEW ord
      PROVE  transformRoute(r, ord)' = transformRoute(r, ord)
  <2>1. [k \in DOMAIN rules |-> transformRule(r, rules[k], ord)]' = [k \in DOMAIN rules |-> transformRule(r, rules[k], ord)]
    BY ZenonT(30), <1>1, <1>2
  <2>2. QED
    BY ZenonT(30), <1>1, <1>3, <2>1 DEF transformRoute
<1>6. QED
  BY <1>4, <1>5

(* The listeners of a Gateway or ListenerSet read its object and the       *)
(* policies that they fetch.                                               *)
LEMMA ListenersKept ==
  ASSUME NEW o, obj'[o] = obj[o], TargetingKept(ListenerReads(o))
  PROVE  /\ ListenerReads(o)' = ListenerReads(o)
         /\ \A setWide, ord : Listeners(o, setWide, ord)' = Listeners(o, setWide, ord)
         /\ \A ord, labels : labels = Labels(o) =>
                getTargetingPolicies(Source[o], "", labels, FALSE, ord)' = getTargetingPolicies(Source[o], "", labels, FALSE, ord)
<1>1. Labels(o)' = Labels(o) /\ obj'[o].listeners = obj[o].listeners
  BY DEF Labels
<1>2. ListenerReads(o)' = ListenerReads(o)
  BY ZenonT(30), <1>1 DEF ListenerReads
<1>3. ASSUME NEW s \in {""} \cup Range(obj[o].listeners), NEW ord, NEW labels, labels = Labels(o)
      PROVE  getTargetingPolicies(Source[o], s, labels, FALSE, ord)' = getTargetingPolicies(Source[o], s, labels, FALSE, ord)
  <2>1. TargetingReads(Source[o], s, labels) \subseteq ListenerReads(o)
    BY <1>3, ZenonT(30) DEF ListenerReads
  <2>2. \A src, section, onlyBackends : TargetingReads(src, section, labels) \subseteq ListenerReads(o) =>
            getTargetingPolicies(src, section, labels, onlyBackends, ord)'
                = getTargetingPolicies(src, section, labels, onlyBackends, ord)
    BY ZenonT(30) DEF TargetingKept
  <2>3. QED
    BY ZenonT(30), <2>1, <2>2
<1>4. ASSUME NEW setWide, NEW ord
      PROVE  Listeners(o, setWide, ord)' = Listeners(o, setWide, ord)
  BY ZenonT(30), <1>1, <1>3 DEF Listeners, Range
<1>5. QED
  BY ZenonT(30), <1>2, <1>3, <1>4

(* A gateway's transform reads its object, its ListenerSets, the policies  *)
(* that they fetch and, for a selector, the namespaces                     *)
(* (GatewaysForEnvoyTransformationFunc).                                   *)
LEMMA GatewayKept ==
  ASSUME NEW g \in Gateway, obj'[g] = obj[g], ListenerSetsKept(g), TargetingKept(GatewayReads(g))
  PROVE  /\ GatewayReads(g)' = GatewayReads(g)
         /\ \A ord : GatewaysForEnvoyTransformationFunc(g, ord)' = GatewaysForEnvoyTransformationFunc(g, ord)
<1> DEFINE sets == ListenerSetsOf(g)
           allowed == {l \in sets : AllowedListenerSet(g, l)}
<1>1. sets' = sets /\ Labels(g)' = Labels(g)
  BY ZenonT(30) DEF ListenerSetsKept, Labels
<1>2. ASSUME NEW o \in {g} \cup sets
      PROVE  /\ obj'[o] = obj[o]
             /\ ListenerReads(o)' = ListenerReads(o)
             /\ \A setWide, ord : Listeners(o, setWide, ord)' = Listeners(o, setWide, ord)
             /\ \A ord, labels : labels = Labels(o) =>
                    getTargetingPolicies(Source[o], "", labels, FALSE, ord)'
                        = getTargetingPolicies(Source[o], "", labels, FALSE, ord)
  <2>1. obj'[o] = obj[o]
    BY <1>2 DEF ListenerSetsKept
  <2>2. ListenerReads(o) \subseteq GatewayReads(g)
    BY <1>2, ZenonT(30) DEF GatewayReads
  <2>3. QED
    BY ZenonT(30), <2>1, <2>2, KeptBelow, ListenersKept
<1>3. \A l \in sets : AllowedListenerSet(g, l)' <=> AllowedListenerSet(g, l)
  BY DEF AllowedListenerSet, ListenerSetsKept
<1>4. allowed' = allowed
  BY ZenonT(30), <1>1, <1>3
<1>5. GatewayReads(g)' = GatewayReads(g)
  BY ZenonT(30), <1>1, <1>2 DEF GatewayReads
<1>6. ASSUME NEW ord
      PROVE  GatewaysForEnvoyTransformationFunc(g, ord)' = GatewaysForEnvoyTransformationFunc(g, ord)
  <2> DEFINE lists == [l \in allowed |-> Listeners(l, TRUE, ord)]
             ports == UNION {Range(obj[o].listeners) : o \in {g} \cup sets}
  <2>1. lists' = lists
    BY ZenonT(30), <1>2, <1>4
  <2>2. ports' = ports
    BY ZenonT(30), <1>1, <1>2
  <2>3. Listeners(g, FALSE, ord)' = Listeners(g, FALSE, ord)
    BY ZenonT(30), <1>2
  <2>4. getTargetingPolicies(Source[g], "", Labels(g), FALSE, ord)' = getTargetingPolicies(Source[g], "", Labels(g), FALSE, ord)
    BY ZenonT(30), <1>1, <1>2
  <2>5. QED
    BY ZenonT(30), <1>1, <1>4, <2>1, <2>2, <2>3, <2>4 DEF GatewaysForEnvoyTransformationFunc
<1>7. QED
  BY <1>5, <1>6
-----------------------------------------------------------------------------
(* What a step must keep for the transform of o to return the same, when   *)
(* R is what it reads.                                                     *)
FetchesKept(o, R) ==
    /\ TargetingKept(R)
    /\ o \in Route => RefsKept(R) /\ ExtensionsKept(R)
    /\ o \in Gateway => ListenerSetsKept(o)

(* A transform whose object and fetches stay returns and reads the same.   *)
LEMMA TransformKept ==
  ASSUME RowsInv, NEW o \in Rows, obj[o] # Nil, obj'[o] = obj[o], FetchesKept(o, ReadsOf(o))
  PROVE  ReadsOf(o)' = ReadsOf(o) /\ \A ord : Transform(o, ord)' = Transform(o, ord)
<1>1. CASE o \in Backend
  <2>1. ReadsOf(o) = BackendReads(o) /\ ReadsOf(o)' = BackendReads(o)'
    BY <1>1, RouteIndexAssumption DEF ReadsOf
  <2>2. \A ord : /\ Transform(o, ord) = attachPoliciesToBackend(o, ord)
                 /\ Transform(o, ord)' = attachPoliciesToBackend(o, ord)'
    BY ZenonT(30), <1>1, RouteIndexAssumption DEF Transform
  <2>3. QED
    BY <1>1, <2>1, <2>2, BackendKept DEF FetchesKept
<1>2. CASE o \in Route
  <2>1. ReadsOf(o) = RouteReads(o) /\ ReadsOf(o)' = RouteReads(o)'
    BY <1>2, RouteIndexAssumption DEF ReadsOf
  <2>2. \A ord : Transform(o, ord) = transformRoute(o, ord) /\ Transform(o, ord)' = transformRoute(o, ord)'
    BY ZenonT(30), <1>2, RouteIndexAssumption DEF Transform
  <2>3. Admitted(o, obj[o])
    BY ZenonT(30) DEF RowsInv, Objects
  <2>4. QED
    BY <1>2, <2>1, <2>2, <2>3, RouteKept DEF FetchesKept
<1>3. CASE o \in Gateway
  <2>1. ReadsOf(o) = GatewayReads(o) /\ ReadsOf(o)' = GatewayReads(o)'
    BY <1>3, RouteIndexAssumption DEF ReadsOf
  <2>2. \A ord : /\ Transform(o, ord) = GatewaysForEnvoyTransformationFunc(o, ord)
                 /\ Transform(o, ord)' = GatewaysForEnvoyTransformationFunc(o, ord)'
    BY ZenonT(30), <1>3, RouteIndexAssumption DEF Transform
  <2>3. QED
    BY <1>3, <2>1, <2>2, GatewayKept DEF FetchesKept
<1>4. QED
  BY ZenonT(30), <1>1, <1>2, <1>3 DEF Rows

(* Then its row stays current.                                             *)
Kept(o) == obj'[o] = obj[o] /\ row'[o] = row[o] /\ reads'[o] = reads[o] /\ FetchesKept(o, reads[o])
LEMMA CurrentKept ==
  ASSUME RowsInv, NEW o \in Rows, RowCurrent(o), obj[o] # Nil => Kept(o), obj'[o] = obj[o], row'[o] = row[o]
  PROVE  RowCurrent(o)'
<1>1. CASE obj[o] = Nil
  BY ZenonT(30), <1>1 DEF RowCurrent, Nil
<1>2. CASE obj[o] # Nil
  <2>1. reads[o] = ReadsOf(o) /\ row[o] # Nil /\ \E ord \in Orders : RowEquals(o, row[o], Transform(o, ord))
    BY ZenonT(30), <1>2 DEF RowCurrent
  <2>2. ReadsOf(o)' = ReadsOf(o) /\ \A ord : Transform(o, ord)' = Transform(o, ord)
    BY <1>2, <2>1, TransformKept DEF Kept
  <2>3. QED
    BY ZenonT(30), <1>2, <2>1, <2>2 DEF Kept, RowCurrent
<1>3. QED
  BY ZenonT(30), <1>1, <1>2

(* Whoever has read none of the keys is not a reader.                      *)
LEMMA NotReader ==
  ASSUME NEW o \in Rows, NEW keys, o \notin Readers(keys)
  PROVE  reads[o] \cap keys = {}
  BY DEF Readers

(* A transform returns a row.                                              *)
LEMMA TransformsToRow ==
  ASSUME NEW o \in Rows, NEW ord
  PROVE  Transform(o, ord) # Nil
<1>1. "spec" \in DOMAIN Transform(o, ord)
  BY DEF Transform, attachPoliciesToBackend, transformRoute, GatewaysForEnvoyTransformationFunc
<1>2. QED
  BY <1>1 DEF Nil

(* A row is computed: it is current, and a backend's tells its readers.    *)
LEMMA ComputeStep ==
  ASSUME RowsInv, NEW o \in Rows, Compute(o)
  PROVE  RowsInv'
<1>1. PICK ord \in Orders : Put(o, IF obj[o] = Nil THEN Nil ELSE Transform(o, ord))
  BY DEF Compute
<1> DEFINE new == IF obj[o] = Nil THEN Nil ELSE Transform(o, ord)
           kept == row[o] # Nil /\ new # Nil /\ RowEquals(o, row[o], new)
           r == IF kept THEN row[o] ELSE new
<1>2. /\ row' = [row EXCEPT ![o] = r]
      /\ dirty' = (dirty \ {o}) \cup IF o \in Backend /\ ~ kept THEN Readers(ChangedKeys(o, row[o], new)) ELSE {}
  BY <1>1 DEF Put
<1>3. /\ reads' = [reads EXCEPT ![o] = IF obj[o] = Nil THEN {} ELSE ReadsOf(o)]
      /\ UNCHANGED <<obj, grant, open>>
  BY DEF Compute
<1> HIDE DEF new, kept
<1>4. /\ row' = [x \in Rows |-> row'[x]] /\ row'[o] = r
      /\ \A x \in Rows \ {o} : row'[x] = row[x] /\ reads'[x] = reads[x]
      /\ reads' = [x \in Rows |-> reads'[x]]
      /\ reads'[o] = IF obj[o] = Nil THEN {} ELSE ReadsOf(o)
  BY ZenonT(30), <1>2, <1>3 DEF RowsInv
<1>5. \A R : TargetingKept(R) /\ ExtensionsKept(R)
  BY <1>3, TargetingOfPolicies DEF ExtensionsKept
<1>6. \A g \in Gateway : ListenerSetsKept(g)
  BY <1>3 DEF ListenerSetsKept, ListenerSetsOf, Live
<1>7. ASSUME NEW x \in Rows \ dirty', x # o
      PROVE  RowCurrent(x)'
  <2>1. x \notin dirty /\ RowCurrent(x)
    BY <1>2, <1>7 DEF RowsInv
  <2>2. RefsKept(reads[x])
    <3>1. CASE o \in Backend /\ ~ kept
      <4>1. x \notin Readers(ChangedKeys(o, row[o], new)) /\ row' = [row EXCEPT ![o] = new]
        BY ZenonT(30), <1>2, <1>7, <3>1
      <4>2. reads[x] \cap ChangedKeys(o, row[o], new) = {}
        BY ZenonT(30), <1>7, <4>1, NotReader
      <4>3. QED
        BY ZenonT(30), <1>3, <3>1, <4>1, <4>2, RefsOfChanged DEF RowsInv
    <3>2. CASE ~ (o \in Backend /\ ~ kept)
      <4>1. \A b \in Backend : row'[b] = row[b]
        BY ZenonT(30), <1>4, <3>2 DEF Rows
      <4>2. QED
        BY ZenonT(30), <1>3, <4>1, RefsOfBackends
    <3>3. QED
      BY <3>1, <3>2
  <2>3. Kept(x)
    BY ZenonT(30), <1>3, <1>4, <1>5, <1>6, <1>7, <2>2 DEF Kept, FetchesKept
  <2>4. QED
    BY <1>7, <2>1, <2>3, CurrentKept DEF Kept
<1>8. RowCurrent(o)'
  <2>1. CASE obj[o] = Nil
    <3>1. new = Nil /\ ~ kept
      BY ZenonT(30), <2>1 DEF new, kept
    <3>2. QED
      BY ZenonT(30), <1>3, <1>4, <2>1, <3>1 DEF RowCurrent
  <2>2. CASE obj[o] # Nil
    <3>1. new = Transform(o, ord)
      BY <2>2 DEF new
    <3>2. FetchesKept(o, ReadsOf(o))
      <4>1. o \in Route => \A b \in Backend : row'[b] = row[b]
        BY <1>4, RouteIndexAssumption DEF Rows
      <4>2. o \in Route => RefsKept(ReadsOf(o))
        BY ZenonT(30), <1>3, <4>1, RefsOfBackends
      <4>3. QED
        BY ZenonT(30), <1>5, <1>6, <4>2 DEF FetchesKept
    <3>3. ReadsOf(o)' = ReadsOf(o) /\ Transform(o, ord)' = Transform(o, ord)
      BY <1>3, <2>2, <3>2, TransformKept
    <3>4. new # Nil
      BY <3>1, TransformsToRow
    <3>5. r # Nil /\ RowEquals(o, r, new)
      <4>1. RowEquals(o, new, new)
        BY DEF RowEquals, RouteEquals
      <4>2. QED
        BY <3>4, <4>1 DEF kept
    <3>6. row'[o] # Nil /\ RowEquals(o, row'[o], Transform(o, ord)') /\ reads'[o] = ReadsOf(o)'
      BY ZenonT(30), <1>4, <2>2, <3>1, <3>3, <3>5
    <3>7. QED
      BY <1>3, <2>2, <3>6 DEF RowCurrent
  <2>3. QED
    BY ZenonT(30), <2>1, <2>2
<1>9. QED
  BY ZenonT(30), <1>3, <1>4, <1>7, <1>8 DEF RowsInv

LEMMA ChangeStep ==
  ASSUME RowsInv, NEW o \in DOMAIN Edits, Change(o)
  PROVE  RowsInv'
<1>1. PICK spec \in Edits[o] \ {obj[o]} :
        /\ obj' = [obj EXCEPT ![o] = spec]
        /\ dirty' = dirty \cup
            CASE o \in Rows -> {o}
              [] o \in Policy -> Readers(PolicyKeys(o, obj[o]) \cup PolicyKeys(o, spec))
              [] OTHER -> Readers({<<"listenerSets", s.parent>> : s \in {obj[o], spec} \ {Nil}})
  BY ZenonT(30) DEF Change
<1>2. UNCHANGED <<grant, open, row, reads>>
  BY DEF Change
<1>3. o \in Objects /\ \A x \in Objects \ {o} : obj'[x] = obj[x]
  BY <1>1, RouteIndexAssumption DEF RowsInv
<1>4. obj'[o] = spec /\ obj' = [x \in Objects |-> obj'[x]]
  BY <1>1, <1>3 DEF RowsInv
<1>5. \A x \in Objects : Admitted(x, obj'[x])
  <2>1. Admitted(o, spec)
    BY <1>1, RouteIndexAssumption
  <2>2. \A x \in Objects \ {o} : Admitted(x, obj'[x])
    BY <1>3 DEF RowsInv
  <2>3. QED
    BY <1>4, <2>1, <2>2
<1>6. \A R : RefsKept(R)
  BY <1>2, RefsOfBackends
<1>7. CASE o \in Rows
  <2>1. \A p \in Policy \cup ListenerSet : obj'[p] = obj[p]
    BY <1>3, <1>7, RouteIndexAssumption DEF Objects
  <2>2. \A R : TargetingKept(R) /\ ExtensionsKept(R)
    BY ZenonT(30), <2>1, TargetingOfPolicies DEF ExtensionsKept
  <2>3. \A g \in Gateway \ {o} : ListenerSetsKept(g)
    BY <1>2, <2>1 DEF ListenerSetsKept, ListenerSetsOf, Live
  <2>4. \A x \in Rows \ dirty' : RowCurrent(x) /\ x # o
    <3>1. dirty' = dirty \cup {o}
      BY ZenonT(30), <1>1, <1>7, RouteIndexAssumption
    <3>2. QED
      BY <3>1 DEF RowsInv
  <2>5. \A x \in Rows \ dirty' : Kept(x)
    BY ZenonT(30), <1>2, <1>3, <1>6, <2>2, <2>3, <2>4 DEF Kept, FetchesKept, Objects
  <2>6. QED
    BY <1>2, <1>4, <1>5, <2>4, <2>5, CurrentKept DEF RowsInv, Kept
<1>8. CASE o \in Policy
  <2> DEFINE keys == PolicyKeys(o, obj[o]) \cup PolicyKeys(o, spec)
  <2>1. o \notin Rows /\ dirty' = dirty \cup Readers(keys)
    BY ZenonT(30), <1>1, <1>8, RouteIndexAssumption
  <2>2. \A x \in Rows \ dirty' : RowCurrent(x) /\ reads[x] \cap keys = {}
    BY ZenonT(30), <2>1, NotReader DEF RowsInv
  <2>3. ASSUME NEW x \in Rows \ dirty'
        PROVE  Kept(x)
    <3>1. TargetingKept(reads[x])
      BY ZenonT(30), <1>1, <1>8, <2>2, <2>3, PolicyChangeKeeps DEF RowsInv
    <3>2. ExtensionsKept(reads[x])
      <4>1. <<"policy", o>> \in keys
        BY ZenonT(30), <1>1 DEF PolicyKeys
      <4>2. QED
        BY ZenonT(30), <1>3, <2>2, <2>3, <4>1 DEF ExtensionsKept, Objects
    <3>3. x \in Gateway => ListenerSetsKept(x)
      <4>1. \A l \in ListenerSet : obj'[l] = obj[l]
        BY ZenonT(30), <1>3, <1>8, RouteIndexAssumption DEF Objects
      <4>2. QED
        BY ZenonT(30), <1>2, <4>1 DEF ListenerSetsKept, ListenerSetsOf, Live
    <3>4. obj'[x] = obj[x]
      BY ZenonT(30), <1>3, <2>1, <2>3 DEF Objects
    <3>5. QED
      BY ZenonT(30), <1>2, <1>6, <3>1, <3>2, <3>3, <3>4 DEF Kept, FetchesKept
  <2>4. QED
    BY ZenonT(30), <1>2, <1>4, <1>5, <2>2, <2>3, CurrentKept DEF RowsInv, Kept
<1>9. CASE o \in ListenerSet
  <2> DEFINE keys == {<<"listenerSets", s.parent>> : s \in {obj[o], spec} \ {Nil}}
  <2>1. o \notin Rows /\ o \notin Policy /\ dirty' = dirty \cup Readers(keys)
    BY <1>1, <1>9, RouteIndexAssumption
  <2>2. \A x \in Rows \ dirty' : RowCurrent(x) /\ reads[x] \cap keys = {}
    BY <2>1, NotReader DEF RowsInv
  <2>3. \A p \in Policy : obj'[p] = obj[p]
    BY ZenonT(30), <1>3, <2>1 DEF Objects
  <2>4. \A R : TargetingKept(R) /\ ExtensionsKept(R)
    BY ZenonT(30), <2>3, TargetingOfPolicies DEF ExtensionsKept
  <2>5. ASSUME NEW g \in Gateway \ dirty', obj[g] # Nil
        PROVE  ListenerSetsKept(g)
    <3>1. <<"listenerSets", g>> \in reads[g]
      <4>1. reads[g] = GatewayReads(g)
        BY ZenonT(30), <2>2, <2>5, RouteIndexAssumption DEF RowCurrent, ReadsOf, Rows
      <4>2. QED
        BY <4>1 DEF GatewayReads
    <3>2. \A s \in {obj[o], spec} \ {Nil} : s.parent # g
      BY <2>2, <2>5, <3>1 DEF Rows
    <3>3. o \notin ListenerSetsOf(g) /\ o \notin ListenerSetsOf(g)'
      BY ZenonT(30), <1>4, <3>2 DEF ListenerSetsOf, Live
    <3>4. \A l \in ListenerSet \ {o} : obj'[l] = obj[l]
      BY ZenonT(30), <1>3 DEF Objects
    <3>5. ListenerSetsOf(g)' = ListenerSetsOf(g) /\ ListenerSetsOf(g) \subseteq ListenerSet \ {o}
      BY ZenonT(30), <3>3, <3>4 DEF ListenerSetsOf, Live
    <3>6. QED
      BY ZenonT(30), <1>2, <3>4, <3>5 DEF ListenerSetsKept
  <2>6. \A x \in Rows \ dirty' : obj'[x] = obj[x] /\ (obj[x] # Nil => Kept(x))
    BY ZenonT(30), <1>2, <1>3, <1>6, <2>1, <2>4, <2>5 DEF Kept, FetchesKept, Objects
  <2>7. QED
    BY ZenonT(30), <1>2, <1>4, <1>5, <2>2, <2>6, CurrentKept DEF RowsInv
<1>10. QED
  BY <1>3, <1>7, <1>8, <1>9 DEF Objects

(* A grant comes or goes: whoever asked for it is due.                     *)
LEMMA GrantStep ==
  ASSUME RowsInv, NEW g, ChangeGrant(g)
  PROVE  RowsInv'
<1>1. /\ grant' = (IF g \in grant THEN grant \ {g} ELSE grant \cup {g})
      /\ dirty' = dirty \cup Readers({<<"grant", g>>})
      /\ UNCHANGED <<obj, open, row, reads>>
  BY DEF ChangeGrant
<1>2. \A R : TargetingKept(R) /\ ExtensionsKept(R)
  BY <1>1, TargetingOfPolicies DEF ExtensionsKept
<1>3. \A x \in Gateway : ListenerSetsKept(x)
  BY <1>1 DEF ListenerSetsKept, ListenerSetsOf, Live
<1>4. ASSUME NEW x \in Rows \ dirty'
      PROVE  RowCurrent(x)'
  <2>1. RowCurrent(x) /\ <<"grant", g>> \notin reads[x]
    BY <1>1, <1>4, NotReader DEF RowsInv
  <2>2. RefsKept(reads[x])
    BY ZenonT(30), <1>1, <2>1, RefsOfGrants
  <2>3. QED
    BY <1>1, <1>2, <1>3, <1>4, <2>1, <2>2, CurrentKept DEF Kept, FetchesKept
<1>5. QED
  BY ZenonT(30), <1>1, <1>4 DEF RowsInv

(* A namespace is selected or no longer: the gateways that looked at it    *)
(* are due.                                                                *)
LEMMA RelabelStep ==
  ASSUME RowsInv, NEW ns, Relabel(ns)
  PROVE  RowsInv'
<1>1. /\ open' = (IF ns \in open THEN open \ {ns} ELSE open \cup {ns})
      /\ dirty' = dirty \cup Readers({<<"namespace", ns>>})
      /\ UNCHANGED <<obj, grant, row, reads>>
  BY DEF Relabel
<1>2. \A R : TargetingKept(R) /\ ExtensionsKept(R) /\ RefsKept(R)
  BY <1>1, TargetingOfPolicies, RefsOfBackends DEF ExtensionsKept
<1>3. ASSUME NEW x \in Rows \ dirty'
      PROVE  RowCurrent(x) /\ <<"namespace", ns>> \notin reads[x]
  BY <1>1, <1>3, NotReader DEF RowsInv
<1>4. ASSUME NEW g \in Gateway \ dirty', obj[g] # Nil
      PROVE  ListenerSetsKept(g)
  <2>1. reads[g] = GatewayReads(g) /\ <<"namespace", ns>> \notin reads[g]
    BY ZenonT(30), <1>3, <1>4, RouteIndexAssumption DEF RowCurrent, ReadsOf, Rows
  <2>2. \A l \in ListenerSetsOf(g) : obj[g].allowed = "Selector" => Source[l].ns # ns
    BY <2>1 DEF GatewayReads
  <2>3. ListenerSetsOf(g)' = ListenerSetsOf(g)
    BY ZenonT(30), <1>1 DEF ListenerSetsOf, Live
  <2>4. QED
    BY <1>1, <2>2, <2>3 DEF ListenerSetsKept
<1>5. ASSUME NEW x \in Rows \ dirty'
      PROVE  RowCurrent(x)'
  BY ZenonT(30), <1>1, <1>2, <1>3, <1>4, <1>5, CurrentKept DEF Kept, FetchesKept
<1>6. QED
  BY ZenonT(30), <1>1, <1>5 DEF RowsInv
-----------------------------------------------------------------------------
(* At startup every object that exists is due and the others have no row.  *)
LEMMA RowsInit == Init => RowsInv
<1> SUFFICES ASSUME Init PROVE RowsInv
  OBVIOUS
<1>1. PICK s \in Start : obj = s.obj
  BY DEF Init
<1>2. obj = [o \in Objects |-> obj[o]] /\ \A o \in Objects : Admitted(o, obj[o])
  BY <1>1, RouteIndexAssumption
<1>3. \A o \in Rows \ dirty : RowCurrent(o)
  BY DEF Init, RowCurrent
<1>4. QED
  BY <1>2, <1>3 DEF Init, RowsInv

(* RowsInv says nothing of boot and events.                                *)
LEMMA RowsStep == RowsInv /\ [Next]_vars => RowsInv'
<1> SUFFICES ASSUME RowsInv, [Next]_vars PROVE RowsInv'
  OBVIOUS
<1>1. CASE UNCHANGED vars
  <2>1. UNCHANGED <<obj, grant, open, row, reads, dirty>>
    BY ZenonT(30), <1>1 DEF vars
  <2>2. \A R : TargetingKept(R) /\ ExtensionsKept(R) /\ RefsKept(R)
    BY ZenonT(30), <2>1, TargetingOfPolicies, RefsOfBackends DEF ExtensionsKept
  <2>3. \A g \in Gateway : ListenerSetsKept(g)
    BY ZenonT(30), <2>1 DEF ListenerSetsKept, ListenerSetsOf, Live
  <2>4. \A x \in Rows \ dirty' : RowCurrent(x)'
    BY <2>1, <2>2, <2>3, CurrentKept DEF RowsInv, Kept, FetchesKept
  <2>5. QED
    BY <2>1, <2>4 DEF RowsInv
<1>2. CASE \E o \in Rows : Compute(o)
  BY <1>2, ComputeStep
<1>3. CASE \E o \in DOMAIN Edits : Change(o)
  BY <1>3, ChangeStep
<1>4. CASE \E g \in GrantKey : ChangeGrant(g)
  BY <1>4, GrantStep
<1>5. CASE \E l \in ListenerSet : Relabel(Source[l].ns)
  BY <1>5, RelabelStep
<1>6. QED
  BY <1>1, <1>2, <1>3, <1>4, <1>5 DEF Next

(* Once no transform is due, every backend, route and gateway row is what  *)
(* its transform returns for the objects, grants and namespace labels of   *)
(* now (policy.go), for every cluster, every edit of it, every order of    *)
(* the events and every order in which the rows are computed.              *)
THEOREM RowsAlwaysSettle == Spec => []RowsSettle
<1>1. RowsInv => RowsSettle
  BY ZenonT(30) DEF RowsInv, RowsSettle, Settled, RowCurrent, SameRow, RowEquals, RouteEquals
<1>2. QED
  BY <1>1, RowsInit, RowsStep, PTL DEF Spec
-----------------------------------------------------------------------------
(* Induction over the positions of a list.                                 *)
LEMMA Positions ==
  ASSUME NEW n \in Nat, NEW P, 0 \in P, \A k \in 0..(n - 1) : k \in P => k + 1 \in P
  PROVE  \A k \in 0..n : k \in P
<1> DEFINE T == (0..n) \ P
           R == {x \in Nat \X Nat : x[1] < x[2]}
<1> SUFFICES ASSUME T # {} PROVE FALSE
  OBVIOUS
<1>1. IsWellFoundedOn(R, Nat)
  BY NatLessThanWellFounded DEF OpToRel
<1>2. PICK m \in T : \A k \in T : <<k, m>> \notin R
  <2>1. T \subseteq Nat
    OBVIOUS
  <2>2. QED
    BY ZenonT(30), <1>1, <2>1, WFMin
<1>3. m \in Nat /\ m # 0 /\ m - 1 \in 0..(n - 1) /\ (m - 1) + 1 = m
  OBVIOUS
<1>4. m - 1 \in T
  BY <1>3
<1>5. <<m - 1, m>> \in R
  BY <1>3
<1>6. QED
  BY <1>2, <1>4, <1>5

(* There is a last one among some positions.                               *)
LEMMA LastPosition ==
  ASSUME NEW n \in Nat, NEW Q \in SUBSET (1..n), Q # {}
  PROVE  \E k \in Q : \A j \in Q : j <= k
<1> DEFINE P == {m \in 0..n : (\E k \in Q : \A j \in Q : j <= k) \/ \A j \in Q : j <= n - m}
<1>1. 0 \in P
  OBVIOUS
<1>2. ASSUME NEW m \in 0..(n - 1), m \in P
      PROVE  m + 1 \in P
  <2>1. CASE n - m \in Q
    BY <1>2, <2>1
  <2>2. CASE n - m \notin Q
    BY <1>2, <2>2
  <2>3. QED
    BY <2>1, <2>2
<1>3. n \in P
  <2> HIDE DEF P
  <2>1. \A k \in 0..n : k \in P
    BY ZenonT(30), <1>1, <1>2, Positions
  <2>2. QED
    BY <2>1
<1>4. (\E k \in Q : \A j \in Q : j <= k) \/ \A j \in Q : j <= 0
  BY <1>3
<1>5. \A j \in Q : ~ (j <= 0)
  OBVIOUS
<1>6. QED
  BY <1>4, <1>5

(* What two lists hold.                                                    *)
LEMMA ConcatHolds ==
  ASSUME NEW S, NEW s \in Seq(S), NEW t \in Seq(S)
  PROVE  s \o t \in Seq(S) /\ Range(s \o t) = Range(s) \cup Range(t)
<1> DEFINE st == s \o t
<1>1. st \in Seq(S) /\ DOMAIN st = 1..(Len(s) + Len(t)) /\ DOMAIN s = 1..Len(s) /\ DOMAIN t = 1..Len(t)
  OBVIOUS
<1>2. \A j \in DOMAIN s : j \in DOMAIN st /\ st[j] = s[j]
  OBVIOUS
<1>3. \A j \in DOMAIN t : j + Len(s) \in DOMAIN st /\ st[j + Len(s)] = t[j]
  OBVIOUS
<1>4. \A j \in DOMAIN st : (\E i \in DOMAIN s : st[j] = s[i]) \/ (\E i \in DOMAIN t : st[j] = t[i])
  OBVIOUS
<1> HIDE DEF st
<1>5. Range(st) \subseteq Range(s) \cup Range(t)
  BY ZenonT(30), <1>4 DEF Range
<1>6. Range(s) \subseteq Range(st) /\ Range(t) \subseteq Range(st)
  BY ZenonT(30), <1>2, <1>3 DEF Range
<1>7. QED
  BY <1>1, <1>5, <1>6 DEF st

(* Flatten appends one list after the other.                               *)
LEMMA FlattenSteps ==
  ASSUME NEW ss, Len(ss) \in Nat
  PROVE  \E all : /\ Flatten(ss) = all[Len(ss)] /\ all[0] = <<>>
                  /\ \A k \in 1..Len(ss) : all[k] = all[k - 1] \o ss[k]
<1> DEFINE Built(f, n) == f = [i \in 0..n |-> IF i = 0 THEN <<>> ELSE f[i - 1] \o ss[i]]
           P == {n \in Nat : \E f : Built(f, n)}
<1>1. 0 \in P
  <2> DEFINE f == [i \in 0..0 |-> <<>>]
  <2>1. f = [i \in 0..0 |-> IF i = 0 THEN <<>> ELSE f[i - 1] \o ss[i]]
    OBVIOUS
  <2>2. Built(f, 0)
    BY <2>1
  <2>3. QED
    BY <2>2
<1>2. ASSUME NEW n \in 0..(Len(ss) - 1), n \in P
      PROVE  n + 1 \in P
  <2>1. PICK f : Built(f, n)
    BY <1>2
  <2> DEFINE g == [i \in 0..(n + 1) |-> IF i = n + 1 THEN f[n] \o ss[n + 1] ELSE f[i]]
  <2>2. ASSUME NEW i \in 0..(n + 1)
        PROVE  g[i] = IF i = 0 THEN <<>> ELSE g[i - 1] \o ss[i]
    <3>1. CASE i = n + 1
      <4>1. i \in 0..(n + 1) /\ i # 0 /\ i - 1 = n /\ n \in 0..(n + 1) /\ n # n + 1
        BY <3>1
      <4>2. g[i] = f[n] \o ss[n + 1]
        BY ZenonT(30), <3>1, <4>1
      <4>3. g[n] = f[n]
        BY ZenonT(30), <4>1
      <4>4. QED
        BY ZenonT(30), <3>1, <4>1, <4>2, <4>3
    <3>2. CASE i \in 0..n
      <4>1. f[i] = IF i = 0 THEN <<>> ELSE f[i - 1] \o ss[i]
        BY <2>1, <3>2
      <4>2. g[i] = f[i] /\ (i # 0 => g[i - 1] = f[i - 1])
        BY <3>2
      <4>3. QED
        BY <4>1, <4>2
    <3>3. QED
      BY <3>1, <3>2
  <2>3. Built(g, n + 1)
    BY <2>2
  <2>4. n + 1 \in Nat
    OBVIOUS
  <2> HIDE DEF g
  <2>5. QED
    BY ZenonT(30), <2>3, <2>4
<1>3. Len(ss) \in P
  <2> HIDE DEF P
  <2>1. \A k \in 0..Len(ss) : k \in P
    BY ZenonT(30), <1>1, <1>2, Positions
  <2>2. QED
    BY <2>1
<1> DEFINE all == CHOOSE f : Built(f, Len(ss))
<1>4. Built(all, Len(ss))
  BY <1>3
<1>5. Flatten(ss) = all[Len(ss)]
  BY DEF Flatten
<1> HIDE DEF all
<1>6. ASSUME NEW k \in 0..Len(ss)
      PROVE  all[k] = IF k = 0 THEN <<>> ELSE all[k - 1] \o ss[k]
  BY ZenonT(30), <1>4
<1>7. 0 \in 0..Len(ss) /\ \A k \in 1..Len(ss) : k \in 0..Len(ss) /\ k # 0
  OBVIOUS
<1>8. all[0] = <<>> /\ \A k \in 1..Len(ss) : all[k] = all[k - 1] \o ss[k]
  BY ZenonT(30), <1>6, <1>7
<1>9. QED
  BY <1>5, <1>8

(* What the lists hold, and nothing else, is in Flatten's result.          *)
LEMMA FlattenHolds ==
  ASSUME NEW S, NEW ss \in Seq(Seq(S))
  PROVE  /\ Flatten(ss) \in Seq(S)
         /\ Range(Flatten(ss)) = UNION {Range(ss[k]) : k \in DOMAIN ss}
<1>1. PICK all : /\ Flatten(ss) = all[Len(ss)] /\ all[0] = <<>>
                 /\ \A k \in 1..Len(ss) : all[k] = all[k - 1] \o ss[k]
  <2>1. Len(ss) \in Nat
    OBVIOUS
  <2>2. QED
    BY ZenonT(30), <2>1, FlattenSteps
<1> DEFINE P == {k \in 0..Len(ss) : all[k] \in Seq(S) /\ Range(all[k]) = UNION {Range(ss[i]) : i \in 1..k}}
<1>2. 0 \in P
  <2>1. <<>> \in Seq(S) /\ Range(<<>>) = {} /\ 1..0 = {} /\ 0 \in 0..Len(ss)
    BY DEF Range
  <2>2. QED
    BY ZenonT(30), <1>1, <2>1
<1>3. ASSUME NEW k \in 0..(Len(ss) - 1), k \in P
      PROVE  k + 1 \in P
  <2>1. k + 1 \in 1..Len(ss) /\ (k + 1) - 1 = k /\ ss[k + 1] \in Seq(S) /\ k + 1 \in 0..Len(ss)
    OBVIOUS
  <2>2. all[k + 1] = all[k] \o ss[k + 1]
    BY <1>1, <2>1
  <2>3. all[k] \in Seq(S) /\ Range(all[k]) = UNION {Range(ss[i]) : i \in 1..k}
    BY <1>3
  <2>4. all[k + 1] \in Seq(S) /\ Range(all[k + 1]) = Range(all[k]) \cup Range(ss[k + 1])
    BY <2>1, <2>2, <2>3, ConcatHolds
  <2>5. 1..(k + 1) = (1..k) \cup {k + 1}
    OBVIOUS
  <2>6. UNION {Range(ss[i]) : i \in 1..(k + 1)} = (UNION {Range(ss[i]) : i \in 1..k}) \cup Range(ss[k + 1])
    BY ZenonT(30), <2>5
  <2>7. QED
    BY ZenonT(30), <2>1, <2>3, <2>4, <2>6
<1>4. Len(ss) \in P
  <2> HIDE DEF P
  <2>1. Len(ss) \in Nat
    OBVIOUS
  <2>2. \A k \in 0..Len(ss) : k \in P
    BY ZenonT(30), <1>2, <1>3, <2>1, Positions
  <2>3. QED
    BY <2>1, <2>2
<1>5. DOMAIN ss = 1..Len(ss)
  OBVIOUS
<1>6. QED
  BY ZenonT(30), <1>1, <1>4, <1>5

(* Only lists what is in both.                                             *)
LEMMA OnlyHolds ==
  ASSUME NEW S, NEW s \in Seq(S), NEW T
  PROVE  Only(s, T) \in Seq(S) /\ Range(Only(s, T)) = Range(s) \cap T
<1> DEFINE ss == [k \in DOMAIN s |-> IF s[k] \in T THEN <<s[k]>> ELSE <<>>]
<1>1. \A x \in S : <<x>> \in Seq(S) /\ Range(<<x>>) = {x}
  BY DEF Range
<1>2. <<>> \in Seq(S) /\ Range(<<>>) = {}
  BY DEF Range
<1>3. DOMAIN s = 1..Len(s) /\ \A k \in DOMAIN s : s[k] \in S
  OBVIOUS
<1>4. \A k \in DOMAIN s : ss[k] \in Seq(S) /\ Range(ss[k]) = {s[k]} \cap T
  BY ZenonT(30), <1>1, <1>2, <1>3
<1>5. DOMAIN ss = DOMAIN s
  OBVIOUS
<1>6. ss \in Seq(Seq(S))
  BY <1>3, <1>4
<1>7. Only(s, T) = Flatten(ss)
  BY DEF Only
<1> HIDE DEF ss
<1>8. UNION {Range(ss[k]) : k \in DOMAIN ss} = Range(s) \cap T
  <2>1. Range(s) = {s[k] : k \in DOMAIN s}
    BY DEF Range
  <2>2. \A k \in DOMAIN ss : \A x : x \in Range(ss[k]) <=> x = s[k] /\ x \in T
    BY ZenonT(30), <1>4, <1>5
  <2>3. QED
    BY ZenonT(30), <1>5, <2>1, <2>2
<1>9. QED
  BY ZenonT(30), <1>6, <1>7, <1>8, FlattenHolds

(* The values of f are listed, each of its domain that ord lists.          *)
LEMMA InOrderHolds ==
  ASSUME NEW S, NEW ord \in Seq(S), NEW f, DOMAIN f \subseteq Range(ord), NEW V, \A x \in DOMAIN f : f[x] \in V
  PROVE  InOrder(ord, f) \in Seq(V) /\ Range(InOrder(ord, f)) = {f[x] : x \in DOMAIN f}
<1> DEFINE listed == Only(ord, DOMAIN f)
<1>1. listed \in Seq(S) /\ Range(listed) = DOMAIN f
  <2>1. Range(ord) \cap DOMAIN f = DOMAIN f
    OBVIOUS
  <2>2. QED
    BY ZenonT(30), <2>1, OnlyHolds
<1>2. InOrder(ord, f) = [k \in DOMAIN listed |-> f[listed[k]]]
  BY DEF InOrder
<1> HIDE DEF listed
<1>3. DOMAIN listed = 1..Len(listed) /\ Len(listed) \in Nat
  BY <1>1
<1>4. \A k \in DOMAIN listed : listed[k] \in DOMAIN f
  BY ZenonT(30), <1>1 DEF Range
<1>5. [k \in DOMAIN listed |-> f[listed[k]]] \in Seq(V)
  BY <1>3, <1>4
<1>6. Range([k \in DOMAIN listed |-> f[listed[k]]]) = {f[x] : x \in DOMAIN f}
  BY ZenonT(30), <1>1 DEF Range
<1>7. QED
  BY ZenonT(30), <1>2, <1>5, <1>6

(* A policy that is inserted joins those that are there.                   *)
LEMMA InsertHolds ==
  ASSUME NEW S, NEW s \in Seq(S), NEW x \in S
  PROVE  Insert(s, x) \in Seq(S) /\ Range(Insert(s, x)) = Range(s) \cup {x}
<1> DEFINE stop == {k \in DOMAIN s : ~ Precedes(x, s[k])}
           i == IF stop = {} THEN 0 ELSE CHOOSE k \in stop : \A j \in stop : j <= k
<1>1. DOMAIN s = 1..Len(s) /\ Len(s) \in Nat
  OBVIOUS
<1>2. i \in 0..Len(s)
  <2>1. CASE stop = {}
    BY <1>1, <2>1
  <2>2. CASE stop # {}
    <3>1. \E k \in stop : \A j \in stop : j <= k
      BY <1>1, <2>2, LastPosition
    <3>2. i \in stop
      BY ZenonT(30), <2>2, <3>1
    <3>3. QED
      BY <1>1, <3>2
  <2>3. QED
    BY <2>1, <2>2
<1>3. Insert(s, x) = SubSeq(s, 1, i) \o <<x>> \o SubSeq(s, i + 1, Len(s))
  BY DEF Insert
<1> HIDE DEF i
<1> DEFINE a == SubSeq(s, 1, i)
           b == SubSeq(s, i + 1, Len(s))
<1>4. a \in Seq(S) /\ DOMAIN a = 1..i /\ \A j \in 1..i : a[j] = s[j]
  BY <1>2
<1>5. b \in Seq(S) /\ DOMAIN b = 1..(Len(s) - i) /\ \A j \in 1..(Len(s) - i) : b[j] = s[j + i]
  BY <1>2
<1>6. <<x>> \in Seq(S) /\ Range(<<x>>) = {x}
  BY DEF Range
<1> HIDE DEF a, b
<1>7. Range(a) \cup Range(b) = Range(s)
  <2>1. \A j \in 1..i : j \in DOMAIN s
    BY <1>1, <1>2
  <2>2. \A j \in 1..(Len(s) - i) : j + i \in DOMAIN s
    BY <1>1, <1>2
  <2>3. \A j \in DOMAIN s : j \in 1..i \/ (j - i \in 1..(Len(s) - i) /\ (j - i) + i = j)
    BY <1>1, <1>2
  <2>4. \A j \in DOMAIN s : (\E k \in DOMAIN a : a[k] = s[j]) \/ (\E k \in DOMAIN b : b[k] = s[j])
    BY ZenonT(30), <1>4, <1>5, <2>3
  <2>5. \A j \in DOMAIN a : \E k \in DOMAIN s : a[j] = s[k]
    BY ZenonT(30), <1>4, <2>1
  <2>6. \A j \in DOMAIN b : \E k \in DOMAIN s : b[j] = s[k]
    BY ZenonT(30), <1>5, <2>2
  <2>7. Range(a) \subseteq Range(s) /\ Range(b) \subseteq Range(s)
    BY <2>5, <2>6 DEF Range
  <2>8. Range(s) \subseteq Range(a) \cup Range(b)
    BY ZenonT(30), <2>4 DEF Range
  <2>9. QED
    BY <2>7, <2>8
<1> DEFINE x1 == <<x>>
<1>8. x1 \in Seq(S) /\ Range(x1) = {x}
  BY <1>6
<1> HIDE DEF x1
<1>9. a \o x1 \in Seq(S) /\ Range(a \o x1) = Range(a) \cup {x}
  BY <1>4, <1>8, ConcatHolds
<1> DEFINE ax == a \o x1
<1>10. ax \o b \in Seq(S) /\ Range(ax \o b) = (Range(a) \cup {x}) \cup Range(b)
  <2>1. ax \in Seq(S) /\ Range(ax) = Range(a) \cup {x}
    BY <1>9
  <2> HIDE DEF ax
  <2>2. QED
    BY <1>5, <2>1, ConcatHolds
<1>11. Insert(s, x) = ax \o b
  BY <1>3 DEF a, b, x1
<1>12. QED
  BY ZenonT(30), <1>7, <1>10, <1>11

(* Sorting inserts one policy after the other.                             *)
LEMMA SortSteps ==
  ASSUME NEW list, Len(list) \in Nat
  PROVE  \E sorted : /\ sortPolicies(list) = sorted[Len(list)] /\ sorted[0] = <<>>
                     /\ \A k \in 1..Len(list) : sorted[k] = Insert(sorted[k - 1], list[k])
<1> DEFINE Built(f, n) == f = [i \in 0..n |-> IF i = 0 THEN <<>> ELSE Insert(f[i - 1], list[i])]
           P == {n \in Nat : \E f : Built(f, n)}
<1>1. 0 \in P
  <2> DEFINE f == [i \in 0..0 |-> <<>>]
  <2>1. f = [i \in 0..0 |-> IF i = 0 THEN <<>> ELSE Insert(f[i - 1], list[i])]
    OBVIOUS
  <2>2. Built(f, 0)
    BY <2>1
  <2>3. QED
    BY <2>2
<1>2. ASSUME NEW n \in 0..(Len(list) - 1), n \in P
      PROVE  n + 1 \in P
  <2>1. PICK f : Built(f, n)
    BY <1>2
  <2> DEFINE g == [i \in 0..(n + 1) |-> IF i = n + 1 THEN Insert(f[n], list[n + 1]) ELSE f[i]]
  <2>2. ASSUME NEW i \in 0..(n + 1)
        PROVE  g[i] = IF i = 0 THEN <<>> ELSE Insert(g[i - 1], list[i])
    <3>1. CASE i = n + 1
      <4>1. i \in 0..(n + 1) /\ i # 0 /\ i - 1 = n /\ n \in 0..(n + 1) /\ n # n + 1
        BY <3>1
      <4>2. g[i] = Insert(f[n], list[n + 1])
        BY ZenonT(30), <3>1, <4>1
      <4>3. g[n] = f[n]
        BY ZenonT(30), <4>1
      <4>4. QED
        BY ZenonT(30), <3>1, <4>1, <4>2, <4>3
    <3>2. CASE i \in 0..n
      <4>1. f[i] = IF i = 0 THEN <<>> ELSE Insert(f[i - 1], list[i])
        BY <2>1, <3>2
      <4>2. g[i] = f[i] /\ (i # 0 => g[i - 1] = f[i - 1])
        BY <3>2
      <4>3. QED
        BY <4>1, <4>2
    <3>3. QED
      BY <3>1, <3>2
  <2>3. Built(g, n + 1)
    BY <2>2
  <2>4. n + 1 \in Nat
    OBVIOUS
  <2> HIDE DEF g
  <2>5. QED
    BY ZenonT(30), <2>3, <2>4
<1>3. Len(list) \in P
  <2> HIDE DEF P
  <2>1. \A k \in 0..Len(list) : k \in P
    BY ZenonT(30), <1>1, <1>2, Positions
  <2>2. QED
    BY <2>1
<1> DEFINE sorted == CHOOSE f : Built(f, Len(list))
<1>4. Built(sorted, Len(list))
  BY <1>3
<1>5. sortPolicies(list) = sorted[Len(list)]
  BY DEF sortPolicies
<1> HIDE DEF sorted
<1>6. ASSUME NEW k \in 0..Len(list)
      PROVE  sorted[k] = IF k = 0 THEN <<>> ELSE Insert(sorted[k - 1], list[k])
  BY ZenonT(30), <1>4
<1>7. 0 \in 0..Len(list) /\ \A k \in 1..Len(list) : k \in 0..Len(list) /\ k # 0
  OBVIOUS
<1>8. sorted[0] = <<>> /\ \A k \in 1..Len(list) : sorted[k] = Insert(sorted[k - 1], list[k])
  BY ZenonT(30), <1>6, <1>7
<1>9. QED
  BY <1>5, <1>8

(* Sorting loses no policy and adds none, whatever Precedes says.          *)
LEMMA SortHolds ==
  ASSUME NEW S, NEW list \in Seq(S)
  PROVE  sortPolicies(list) \in Seq(S) /\ Range(sortPolicies(list)) = Range(list)
<1>1. Len(list) \in Nat /\ DOMAIN list = 1..Len(list)
  OBVIOUS
<1>2. PICK sorted : /\ sortPolicies(list) = sorted[Len(list)] /\ sorted[0] = <<>>
                    /\ \A k \in 1..Len(list) : sorted[k] = Insert(sorted[k - 1], list[k])
  BY ZenonT(30), <1>1, SortSteps
<1> DEFINE P == {k \in 0..Len(list) : sorted[k] \in Seq(S) /\ Range(sorted[k]) = {list[i] : i \in 1..k}}
<1>3. 0 \in P
  <2>1. <<>> \in Seq(S) /\ Range(<<>>) = {} /\ 1..0 = {} /\ 0 \in 0..Len(list)
    BY DEF Range
  <2>2. QED
    BY ZenonT(30), <1>2, <2>1
<1>4. ASSUME NEW k \in 0..(Len(list) - 1), k \in P
      PROVE  k + 1 \in P
  <2>1. k + 1 \in 1..Len(list) /\ (k + 1) - 1 = k /\ list[k + 1] \in S /\ k + 1 \in 0..Len(list)
    OBVIOUS
  <2>2. sorted[k + 1] = Insert(sorted[k], list[k + 1])
    BY <1>2, <2>1
  <2>3. sorted[k] \in Seq(S) /\ Range(sorted[k]) = {list[i] : i \in 1..k}
    BY <1>4
  <2>4. sorted[k + 1] \in Seq(S) /\ Range(sorted[k + 1]) = Range(sorted[k]) \cup {list[k + 1]}
    <3>1. \A t \in Seq(S), x \in S : Insert(t, x) \in Seq(S) /\ Range(Insert(t, x)) = Range(t) \cup {x}
      BY InsertHolds
    <3>2. QED
      BY ZenonT(30), <2>1, <2>2, <2>3, <3>1
  <2>5. 1..(k + 1) = (1..k) \cup {k + 1}
    OBVIOUS
  <2>6. {list[i] : i \in 1..(k + 1)} = {list[i] : i \in 1..k} \cup {list[k + 1]}
    BY ZenonT(30), <2>5
  <2>7. QED
    BY ZenonT(30), <2>1, <2>3, <2>4, <2>6
<1>5. Len(list) \in P
  <2> HIDE DEF P
  <2>1. \A k \in 0..Len(list) : k \in P
    BY ZenonT(30), <1>1, <1>3, <1>4, Positions
  <2>2. QED
    BY <1>1, <2>1
<1>6. QED
  BY ZenonT(30), <1>1, <1>2, <1>5 DEF Range

(* The lists per kind hold what the list holds.                            *)
LEMMA AttachedHolds ==
  ASSUME NEW S, NEW atts \in Seq(S)
  PROVE  AttachedTo(ToAttachedPolicies(atts)) = {a.policy : a \in Range(atts)}
<1> DEFINE of(k) == {a \in Range(atts) : a.kind = k}
           kinds == {a.kind : a \in Range(atts)}
           pols == ToAttachedPolicies(atts)
<1>1. \A k : Range(Only(atts, of(k))) = of(k)
  <2>1. \A k : Range(atts) \cap of(k) = of(k)
    BY ZenonT(30)
  <2>2. QED
    BY ZenonT(30), <2>1, OnlyHolds
<1>2. pols = [k \in kinds |-> Only(atts, of(k))]
  BY DEF ToAttachedPolicies
<1>3. DOMAIN pols = kinds /\ \A k \in kinds : pols[k] = Only(atts, of(k))
  BY <1>2
<1> HIDE DEF pols
<1>4. \A k \in DOMAIN pols : {pols[k][i].policy : i \in DOMAIN pols[k]} = {a.policy : a \in of(k)}
  <2>1. \A k \in DOMAIN pols : Range(pols[k]) = of(k)
    BY ZenonT(30), <1>1, <1>3
  <2>2. \A k \in DOMAIN pols : {pols[k][i].policy : i \in DOMAIN pols[k]} = {a.policy : a \in Range(pols[k])}
    BY ZenonT(30) DEF Range
  <2>3. QED
    BY ZenonT(30), <2>1, <2>2
<1>5. \A p : p \in AttachedTo(pols) <=> \E k \in kinds : p \in {a.policy : a \in of(k)}
  <2> HIDE DEF kinds, of
  <2>1. \A p : p \in AttachedTo(pols) <=> \E k \in DOMAIN pols : p \in {pols[k][i].policy : i \in DOMAIN pols[k]}
    BY ZenonT(30) DEF AttachedTo
  <2>2. QED
    BY ZenonT(30), <1>3, <1>4, <2>1
<1>6. \A p : (\E k \in kinds : p \in {a.policy : a \in of(k)}) <=> \E a \in Range(atts) : p = a.policy
  BY ZenonT(30)
<1>7. QED
  BY ZenonT(30), <1>5, <1>6 DEF pols

(* The policies that an object is given are those that target it.          *)
LEMMA TargetingExact ==
  ASSUME NEW src, NEW section, NEW labels, NEW ord \in Orders
  PROVE  LET atts == getTargetingPolicies(src, section, labels, FALSE, ord)
         IN  /\ atts \in Seq(Range(atts))
             /\ \A p : (\E a \in Range(atts) : p = a.policy)
                     <=> p \in Live(Policy) /\ Targets(p, src, section, labels)
<1> DEFINE all == {PolicyAtt(p, section) : p \in Policy}
           list(S) == InOrder(ord, [p \in S |-> PolicyAtt(p, section)])
           named == fetchByTargetRef(src, section, FALSE)
           selecting(ns) == fetchByTargetRefLabels(src, ns, section, labels, FALSE)
           rest == IF src.ns = GlobalNamespace THEN <<>> ELSE list(selecting(GlobalNamespace))
           fetched == (list(named) \o list(selecting(src.ns))) \o rest
<1>1. ord \in Seq(Policy) /\ Policy \subseteq Range(ord)
  BY ZenonT(30), RouteIndexAssumption
<1>2. ASSUME NEW S \in SUBSET Policy
      PROVE  list(S) \in Seq(all) /\ Range(list(S)) = {PolicyAtt(p, section) : p \in S}
  <2> DEFINE f == [p \in S |-> PolicyAtt(p, section)]
  <2>1. DOMAIN f \subseteq Range(ord) /\ \A p \in DOMAIN f : f[p] \in all
    BY ZenonT(30), <1>1
  <2>2. {f[p] : p \in DOMAIN f} = {PolicyAtt(p, section) : p \in S}
    BY ZenonT(30)
  <2> HIDE DEF f, all
  <2>3. InOrder(ord, f) \in Seq(all) /\ Range(InOrder(ord, f)) = {f[p] : p \in DOMAIN f}
    BY ZenonT(30), <1>1, <2>1, InOrderHolds
  <2>4. QED
    BY ZenonT(30), <2>2, <2>3 DEF f
<1>3. named \subseteq Policy /\ \A ns : selecting(ns) \subseteq Policy
  BY ZenonT(30) DEF fetchByTargetRef, fetchByTargetRefLabels, Live
<1> DEFINE none == src.ns = GlobalNamespace
           found == named \cup selecting(src.ns) \cup (IF none THEN {} ELSE selecting(GlobalNamespace))
<1>4. rest \in Seq(all) /\ Range(rest) = {PolicyAtt(p, section) : p \in IF none THEN {} ELSE selecting(GlobalNamespace)}
  <2>1. <<>> \in Seq(all) /\ Range(<<>>) = {}
    BY DEF Range
  <2>2. CASE none
    BY ZenonT(30), <2>1, <2>2
  <2>3. CASE ~ none
    BY ZenonT(30), <1>2, <1>3, <2>3
  <2>4. QED
    BY <2>2, <2>3
<1> HIDE DEF rest, list, all
<1>5. fetched \in Seq(all) /\ Range(fetched) = (Range(list(named)) \cup Range(list(selecting(src.ns)))) \cup Range(rest)
  <2> DEFINE a == list(named)
             b == list(selecting(src.ns))
             ab == a \o b
  <2>1. a \in Seq(all) /\ b \in Seq(all)
    BY ZenonT(30), <1>2, <1>3
  <2> HIDE DEF a, b
  <2>2. ab \in Seq(all) /\ Range(ab) = Range(a) \cup Range(b)
    BY <2>1, ConcatHolds
  <2> HIDE DEF ab
  <2>3. ab \o rest \in Seq(all) /\ Range(ab \o rest) = Range(ab) \cup Range(rest)
    <3>1. rest \in Seq(all)
      BY ZenonT(30), <1>4
    <3>2. QED
      BY <2>2, <3>1, ConcatHolds
  <2>4. QED
    BY <2>2, <2>3 DEF ab, a, b
<1>6. getTargetingPolicies(src, section, labels, FALSE, ord) = sortPolicies(fetched)
  BY ZenonT(30) DEF getTargetingPolicies, list, rest
<1>7. LET atts == getTargetingPolicies(src, section, labels, FALSE, ord)
      IN  atts \in Seq(all) /\ Range(atts) = Range(fetched)
  <2> HIDE DEF fetched
  <2>1. QED
    BY ZenonT(30), <1>5, <1>6, SortHolds
<1>8. Range(fetched) = {PolicyAtt(p, section) : p \in found}
  <2> DEFINE A == named
             B == selecting(src.ns)
             C == IF none THEN {} ELSE selecting(GlobalNamespace)
             atts(S) == {PolicyAtt(p, section) : p \in S}
  <2>1. Range(list(A)) = atts(A) /\ Range(list(B)) = atts(B) /\ Range(rest) = atts(C)
    BY ZenonT(30), <1>2, <1>3, <1>4
  <2>2. Range(fetched) = (atts(A) \cup atts(B)) \cup atts(C)
    BY ZenonT(30), <1>5, <2>1
  <2> HIDE DEF A, B, C, fetched
  <2>3. (atts(A) \cup atts(B)) \cup atts(C) = atts(A \cup B \cup C)
    BY ZenonT(30)
  <2>4. QED
    BY ZenonT(30), <2>2, <2>3 DEF A, B, C
<1>9. \A p : PolicyAtt(p, section).policy = p
  BY ZenonT(30) DEF PolicyAtt
<1>10. {a.policy : a \in {PolicyAtt(p, section) : p \in found}} = found
  BY ZenonT(30), <1>9
<1>11. found = {p \in Live(Policy) : Targets(p, src, section, labels)}
  BY ZenonT(30) DEF fetchByTargetRef, fetchByTargetRefLabels, Targets, Fits
<1> DEFINE atts == getTargetingPolicies(src, section, labels, FALSE, ord)
<1>12. atts \in Seq(all) /\ Range(atts) = {PolicyAtt(p, section) : p \in found}
  <2> HIDE DEF found, fetched
  <2>1. QED
    BY ZenonT(30), <1>7, <1>8
<1> HIDE DEF atts, found
<1>13. atts \in Seq(Range(atts))
  <2>1. \A s \in Seq(all) : s \in Seq({s[k] : k \in DOMAIN s})
    OBVIOUS
  <2>2. QED
    BY ZenonT(30), <1>12, <2>1 DEF Range
<1>14. \A p : (\E a \in Range(atts) : p = a.policy) <=> p \in found
  BY ZenonT(30), <1>9, <1>12
<1>15. QED
  BY ZenonT(30), <1>11, <1>13, <1>14 DEF atts
-----------------------------------------------------------------------------
(* A backend that is found has the name or an alias in the namespace of    *)
(* the reference.                                                          *)
LEMMA FoundInNamespace ==
  ASSUME NEW ref, getBackend(ref).err = ""
  PROVE  LET b == getBackend(ref).backend
         IN  /\ b \in Backend /\ row[b] # Nil
             /\ Source[b].ns = ref.ns \/ \E a \in Range(row[b].spec.aliases) : a.ns = ref.ns
<1>1. \A err : Missing(err).err = err
  BY ZenonT(30) DEF Missing
<1>2. CASE PortNotAllowed(ref)
  BY ZenonT(30), <1>2 DEF getBackend, Missing
<1>3. CASE ~ PortNotAllowed(ref) /\ BackendsNamed(ref) # {}
  <2> DEFINE c == CHOOSE x \in BackendsNamed(ref) : TRUE
  <2>1. getBackend(ref) = Found(c)
    BY ZenonT(30), <1>3 DEF getBackend
  <2>2. c \in BackendsNamed(ref)
    BY ZenonT(30), <1>3
  <2> HIDE DEF c
  <2>3. c \in Backend /\ row[c] # Nil /\ BackendKey(Source[c], row[c].spec.port) = BackendKey(ref, ref.port)
    BY ZenonT(30), <2>2 DEF BackendsNamed, Present
  <2>4. Source[c].ns = ref.ns
    BY <2>3 DEF BackendKey
  <2>5. QED
    BY <2>1, <2>3, <2>4, FoundIs, ZenonT(30)
<1>4. CASE ~ PortNotAllowed(ref) /\ BackendsNamed(ref) = {}
  <2> DEFINE c == getBackendFromAlias(ref).backend
  <2>1. notFoundErr(ref).err # ""
    BY ZenonT(30) DEF notFoundErr, Missing
  <2>2. BackendsAliased(ref) # {} /\ getBackend(ref) = getBackendFromAlias(ref)
    BY ZenonT(30), <1>1, <1>4, <2>1 DEF getBackend
  <2>3. c \in BackendsAliased(ref)
    BY ZenonT(30), <2>2, OldestIsAliased
  <2> HIDE DEF c
  <2>4. /\ c \in Backend /\ row[c] # Nil
        /\ \E a \in Range(row[c].spec.aliases) : AliasKey(a, row[c].spec.port) = AliasKey(ref, ref.port)
    BY ZenonT(30), <2>3 DEF BackendsAliased, Present
  <2>5. \E a \in Range(row[c].spec.aliases) : a.ns = ref.ns
    BY <2>4 DEF AliasKey
  <2>6. QED
    BY ZenonT(30), <2>2, <2>4, <2>5 DEF c
<1>5. QED
  BY ZenonT(30), <1>2, <1>3, <1>4

(* A row of a backend that is not due is made of its object.               *)
LEMMA BackendRow ==
  ASSUME RowsInv, Settled, NEW b \in Backend, row[b] # Nil
  PROVE  obj[b] # Nil /\ row[b].spec = obj[b]
<1>1. RowCurrent(b) /\ b \in Rows
  BY ZenonT(30) DEF RowsInv, Settled, Rows
<1>2. obj[b] # Nil /\ \E ord \in Orders : RowEquals(b, row[b], Transform(b, ord))
  BY ZenonT(30), <1>1 DEF RowCurrent
<1>3. PICK ord \in Orders : RowEquals(b, row[b], Transform(b, ord))
  BY <1>2
<1>4. row[b] = Transform(b, ord) /\ Transform(b, ord) = attachPoliciesToBackend(b, ord)
  BY ZenonT(30), <1>3, RouteIndexAssumption DEF RowEquals, Transform
<1>5. attachPoliciesToBackend(b, ord).spec = obj[b]
  BY ZenonT(30) DEF attachPoliciesToBackend
<1>6. QED
  BY ZenonT(30), <1>2, <1>4, <1>5

(* What lets a reference cross into the namespace of backend b.            *)
Granted(kind, ns, b) ==
    \/ \E g \in grant : g[1] = kind /\ g[2] = ns /\ g[4] = Source[b].ns
    \/ \E a \in Range(obj[b].aliases) : a.ns = ""

(* A reference that resolves to another namespace is granted, or goes by a *)
(* global alias (GetBackendFromRef).                                       *)
LEMMA ResolvedIsGranted ==
  ASSUME RowsInv, Settled, NEW kind, NEW ns, NEW ref, GetBackendFromRef(kind, ns, ref).err = "",
         NEW b, b = GetBackendFromRef(kind, ns, ref).backend, Source[b].ns # ns
  PROVE  Granted(kind, ns, b)
<1>1. ReferenceAllowed(kind, ns, ref) /\ GetBackendFromRef(kind, ns, ref) = getBackend(ref)
  <2>1. Missing("missing grant").err # ""
    BY ZenonT(30) DEF Missing
  <2>2. QED
    BY ZenonT(30), <2>1 DEF GetBackendFromRef
<1>2. /\ b \in Backend /\ row[b] # Nil
      /\ Source[b].ns = ref.ns \/ \E a \in Range(row[b].spec.aliases) : a.ns = ref.ns
  BY ZenonT(30), <1>1, FoundInNamespace
<1>3. obj[b] # Nil /\ row[b].spec = obj[b]
  BY ZenonT(30), <1>2, BackendRow
<1>4. \A a \in Range(obj[b].aliases) : a.ns \in {"", Source[b].ns}
  BY ZenonT(30), <1>2, <1>3 DEF RowsInv, Admitted, Objects, Rows
<1>5. Source[b].ns # ""
  BY ZenonT(30), <1>2, RouteIndexAssumption
<1>6. Source[b].ns = ref.ns \/ \E a \in Range(obj[b].aliases) : a.ns = ref.ns /\ a.ns \in {"", Source[b].ns}
  BY ZenonT(30), <1>2, <1>3, <1>4
<1>7. CASE ref.ns = Source[b].ns
  <2>1. PICK name : GrantFor(kind, ns, ref, name) \in grant
    BY ZenonT(30), <1>1, <1>5, <1>7 DEF ReferenceAllowed
  <2> DEFINE g == GrantFor(kind, ns, ref, name)
  <2>2. g[1] = kind /\ g[2] = ns /\ g[4] = ref.ns
    BY DEF GrantFor
  <2>3. QED
    BY ZenonT(30), <1>7, <2>1, <2>2 DEF Granted
<1>8. CASE ref.ns # Source[b].ns
  BY ZenonT(30), <1>6, <1>8 DEF Granted
<1>9. QED
  BY <1>7, <1>8

(* What a route's row has of its transform.                                *)
LEMMA RouteRow ==
  ASSUME RowsInv, Settled, NEW r \in Live(Route)
  PROVE  \E ord \in Orders :
            /\ row[r].policies = ToAttachedPolicies(getTargetingPolicies(Source[r], "", Labels(r), FALSE, ord))
            /\ DOMAIN row[r].rules = DOMAIN obj[r].rules
            /\ \A k \in DOMAIN row[r].rules : row[r].rules[k].backends = getBackends(r, obj[r].rules[k].backends)
<1>1. r \in Route /\ obj[r] # Nil /\ RowCurrent(r)
  BY ZenonT(30) DEF Live, RowsInv, Settled, Rows
<1>2. PICK ord \in Orders : RouteEquals(row[r], Transform(r, ord))
  BY ZenonT(30), <1>1 DEF RowCurrent, RowEquals
<1> DEFINE t == transformRoute(r, ord)
           w == row[r]
<1>3. Transform(r, ord) = t
  BY ZenonT(30), <1>1, RouteIndexAssumption DEF Transform
<1>4. w.policies = t.policies /\ Entries(w) = Entries(t)
  BY ZenonT(30), <1>2, <1>3 DEF RouteEquals
<1>5. /\ t.policies = ToAttachedPolicies(getTargetingPolicies(Source[r], "", Labels(r), FALSE, ord))
      /\ t.rules = [k \in DOMAIN obj[r].rules |-> transformRule(r, obj[r].rules[k], ord)]
  BY ZenonT(30) DEF transformRoute
<1>6. \A rule : /\ "backends" \in DOMAIN transformRule(r, rule, ord)
                /\ transformRule(r, rule, ord).backends = getBackends(r, rule.backends)
  BY DEF transformRule
<1> HIDE DEF t, w
<1>7. DOMAIN t.rules = DOMAIN obj[r].rules /\ \A k \in DOMAIN t.rules : t.rules[k] = transformRule(r, obj[r].rules[k], ord)
  BY ZenonT(30), <1>5
<1>8. DOMAIN w.rules = DOMAIN t.rules
  <2>1. DOMAIN Entries(w) = DOMAIN w.rules /\ DOMAIN Entries(t) = DOMAIN t.rules
    BY DEF Entries
  <2>2. QED
    BY <1>4, <2>1
<1>9. ASSUME NEW k \in DOMAIN w.rules
      PROVE  w.rules[k].backends = t.rules[k].backends
  <2> DEFINE hide(x) == [x EXCEPT !.refs = [j \in DOMAIN @ |-> IF @[j].builtin THEN [builtin |-> TRUE] ELSE @[j]]]
  <2>1. hide(w.rules[k]) = hide(t.rules[k])
    <3>1. Entries(w)[k] = hide(w.rules[k]) /\ Entries(t)[k] = hide(t.rules[k])
      BY <1>8, <1>9 DEF Entries
    <3>2. QED
      BY <1>4, <3>1
  <2>2. \A x : DOMAIN hide(x) = DOMAIN x /\ ("backends" \in DOMAIN x => hide(x).backends = x.backends)
    OBVIOUS
  <2>3. "backends" \in DOMAIN t.rules[k]
    BY ZenonT(30), <1>6, <1>7, <1>8, <1>9
  <2> HIDE DEF hide
  <2>4. QED
    BY ZenonT(30), <2>1, <2>2, <2>3
<1>10. \A k \in DOMAIN w.rules : w.rules[k].backends = getBackends(r, obj[r].rules[k].backends)
  BY ZenonT(30), <1>6, <1>7, <1>8, <1>9
<1>11. QED
  BY ZenonT(30), <1>4, <1>5, <1>7, <1>8, <1>10 DEF w

(* The listeners of a Gateway or a ListenerSet are its own, by its names.  *)
LEMMA ListenersAre ==
  ASSUME NEW o, NEW wide, NEW ord, obj[o].listeners \in Seq(STRING)
  PROVE  LET ls == Listeners(o, wide, ord)
         IN  /\ ls \in Seq(Range(ls))
             /\ {x.of : x \in Range(ls)} \subseteq {o}
             /\ obj[o].listeners # <<>> => o \in {x.of : x \in Range(ls)}
             /\ {x.listener : x \in Range(ls)} = Range(obj[o].listeners)
<1> DEFINE names == obj[o].listeners
           ls == Listeners(o, wide, ord)
<1>1. DOMAIN ls = DOMAIN names /\ \A k \in DOMAIN names : ls[k].of = o /\ ls[k].listener = names[k]
  BY ZenonT(30) DEF Listeners
<1>2. DOMAIN names = 1..Len(names) /\ Len(names) \in Nat /\ (names # <<>> => 1 \in DOMAIN names)
  OBVIOUS
<1>3. ls = [k \in 1..Len(names) |-> ls[k]]
  <2>1. ls = [k \in DOMAIN names |-> ls[k]]
    BY ZenonT(30) DEF Listeners
  <2>2. QED
    BY ZenonT(30), <1>2, <2>1
<1> HIDE DEF ls, names
<1>4. Range(ls) = {ls[k] : k \in DOMAIN names}
  BY ZenonT(30), <1>1 DEF Range
<1>5. ls \in Seq(Range(ls))
  <2>1. \A k \in 1..Len(names) : ls[k] \in Range(ls)
    BY ZenonT(30), <1>2, <1>4
  <2>2. QED
    BY <1>2, <1>3, <2>1
<1>6. {x.of : x \in Range(ls)} \subseteq {o}
  BY ZenonT(30), <1>1, <1>4
<1>7. names # <<>> => o \in {x.of : x \in Range(ls)}
  BY ZenonT(30), <1>1, <1>2, <1>4
<1>8. {x.listener : x \in Range(ls)} = Range(names)
  <2>1. Range(names) = {names[k] : k \in DOMAIN names}
    BY DEF Range
  <2>2. \A n : n \in {x.listener : x \in Range(ls)} <=> \E k \in DOMAIN names : n = names[k]
    BY ZenonT(30), <1>1, <1>4
  <2>3. QED
    BY ZenonT(30), <2>1, <2>2
<1>9. QED
  BY ZenonT(30), <1>5, <1>6, <1>7, <1>8 DEF ls, names

(* A gateway's listeners are its own and those of the ListenerSets that it *)
(* allows, and the deployer's ports count them all.                        *)
LEMMA GatewayListeners ==
  ASSUME RowsInv, NEW g \in Live(Gateway), NEW ord
  PROVE  LET t == GatewaysForEnvoyTransformationFunc(g, ord)
         IN  /\ {x.of : x \in Range(t.listeners)} \ {g} =
                    {l \in Live(ListenerSet) : obj[l].parent = g /\ AllowedListenerSet(g, l)}
             /\ {x.listener : x \in Range(t.listeners)} \subseteq t.ports
<1> DEFINE t == GatewaysForEnvoyTransformationFunc(g, ord)
           allowed == {l \in ListenerSetsOf(g) : AllowedListenerSet(g, l)}
           own == Listeners(g, FALSE, ord)
           of == [l \in allowed |-> Listeners(l, TRUE, ord)]
           lists == InOrder(ListenerSetOrder, of)
           V == Range(own) \cup UNION {Range(of[l]) : l \in allowed}
<1>1. /\ t.listeners = own \o Flatten(lists)
      /\ t.ports = UNION {Range(obj[o].listeners) : o \in {g} \cup ListenerSetsOf(g)}
  BY ZenonT(30) DEF GatewaysForEnvoyTransformationFunc
<1>2. g \in Gateway /\ obj[g] # Nil /\ obj[g].listeners \in Seq(STRING)
  BY ZenonT(30) DEF Live, RowsInv, Admitted, Objects, Rows
<1>3. /\ allowed \subseteq ListenerSetsOf(g) /\ allowed \subseteq ListenerSet
      /\ \A l \in allowed : l # g /\ obj[l].listeners \in Seq(STRING) /\ obj[l].listeners # <<>>
  <2>1. \A l \in allowed : l \in ListenerSetsOf(g) /\ l \in ListenerSet /\ obj[l] # Nil
    BY ZenonT(30) DEF ListenerSetsOf, Live
  <2>2. \A l \in ListenerSet : l # g /\ l \in Objects
    BY ZenonT(30), <1>2, RouteIndexAssumption DEF Objects, Rows
  <2>3. QED
    BY ZenonT(30), <2>1, <2>2 DEF RowsInv, Admitted
<1>4. allowed = {l \in Live(ListenerSet) : obj[l].parent = g /\ AllowedListenerSet(g, l)}
  BY ZenonT(30) DEF ListenerSetsOf
<1>5. /\ own \in Seq(Range(own)) /\ {x.of : x \in Range(own)} \subseteq {g}
      /\ {x.listener : x \in Range(own)} = Range(obj[g].listeners)
  BY ZenonT(30), <1>2, ListenersAre
<1>6. ASSUME NEW l \in allowed
      PROVE  /\ of[l] \in Seq(Range(of[l])) /\ {x.of : x \in Range(of[l])} = {l}
             /\ {x.listener : x \in Range(of[l])} = Range(obj[l].listeners)
  <2>1. of[l] = Listeners(l, TRUE, ord)
    BY ZenonT(30), <1>6
  <2> HIDE DEF allowed
  <2>2. obj[l].listeners \in Seq(STRING) /\ obj[l].listeners # <<>>
    BY ZenonT(30), <1>3, <1>6
  <2> DEFINE ls == Listeners(l, TRUE, ord)
  <2>3. /\ ls \in Seq(Range(ls)) /\ {x.of : x \in Range(ls)} \subseteq {l}
        /\ l \in {x.of : x \in Range(ls)}
        /\ {x.listener : x \in Range(ls)} = Range(obj[l].listeners)
    BY ZenonT(30), <2>2, ListenersAre
  <2>4. of[l] = ls
    BY <2>1
  <2> HIDE DEF of, ls
  <2>5. {x.of : x \in Range(ls)} = {l}
    BY ZenonT(30), <2>3
  <2>6. QED
    BY ZenonT(30), <2>3, <2>4, <2>5
<1>7. DOMAIN of = allowed
  OBVIOUS
<1> HIDE DEF own, of, allowed
<1>8. \A S, T : S \subseteq T => Seq(S) \subseteq Seq(T)
  OBVIOUS
<1>9. own \in Seq(V) /\ \A l \in allowed : of[l] \in Seq(V)
  <2>1. Range(own) \subseteq V /\ \A l \in allowed : Range(of[l]) \subseteq V
    BY ZenonT(30)
  <2> HIDE DEF V
  <2>2. QED
    BY ZenonT(30), <1>5, <1>6, <1>8, <2>1
<1> HIDE DEF V
<1>10. lists \in Seq(Seq(V)) /\ Range(lists) = {of[l] : l \in allowed}
  <2>1. ListenerSetOrder \in Seq(ListenerSet) /\ DOMAIN of \subseteq Range(ListenerSetOrder)
    BY ZenonT(30), <1>3, <1>7, RouteIndexAssumption
  <2>2. QED
    BY ZenonT(30), <1>7, <1>9, <2>1, InOrderHolds
<1> HIDE DEF lists
<1>11. Flatten(lists) \in Seq(V) /\ Range(Flatten(lists)) = UNION {Range(of[l]) : l \in allowed}
  <2>1. Flatten(lists) \in Seq(V) /\ Range(Flatten(lists)) = UNION {Range(lists[k]) : k \in DOMAIN lists}
    BY ZenonT(30), <1>10, FlattenHolds
  <2>2. {lists[k] : k \in DOMAIN lists} = {of[l] : l \in allowed}
    BY ZenonT(30), <1>10 DEF Range
  <2>3. UNION {Range(lists[k]) : k \in DOMAIN lists} = UNION {Range(of[l]) : l \in allowed}
    BY ZenonT(30), <2>2
  <2>4. QED
    BY ZenonT(30), <2>1, <2>3
<1> DEFINE rest == Flatten(lists)
<1>12. Range(t.listeners) = Range(own) \cup UNION {Range(of[l]) : l \in allowed}
  <2>1. rest \in Seq(V) /\ Range(rest) = UNION {Range(of[l]) : l \in allowed} /\ t.listeners = own \o rest
    BY ZenonT(30), <1>1, <1>11
  <2> HIDE DEF rest, t
  <2>2. Range(own \o rest) = Range(own) \cup Range(rest)
    BY <1>9, <2>1, ConcatHolds
  <2>3. QED
    BY ZenonT(30), <2>1, <2>2
<1> HIDE DEF t
<1>13. {x.of : x \in Range(t.listeners)} \ {g} = allowed
  <2>1. \A x \in Range(own) : x.of = g
    BY ZenonT(30), <1>5
  <2>2. \A l \in allowed : (\A x \in Range(of[l]) : x.of = l) /\ \E x \in Range(of[l]) : x.of = l
    BY ZenonT(30), <1>6
  <2>3. g \notin allowed
    BY ZenonT(30), <1>3
  <2>4. \A l \in allowed : \E x \in Range(t.listeners) : x.of = l
    BY ZenonT(30), <1>12, <2>2
  <2>5. \A x \in Range(t.listeners) : x.of = g \/ x.of \in allowed
    <3>1. \A x \in Range(t.listeners) : x \in Range(own) \/ \E l \in allowed : x \in Range(of[l])
      BY ZenonT(30), <1>12
    <3>2. \A l \in allowed : \A x \in Range(of[l]) : x.of \in allowed
      BY ZenonT(30), <2>2
    <3>3. QED
      BY ZenonT(30), <2>1, <3>1, <3>2
  <2>6. QED
    BY ZenonT(30), <2>3, <2>4, <2>5
<1>14. {x.listener : x \in Range(t.listeners)} \subseteq t.ports
  <2>1. \A x \in Range(own) : x.listener \in Range(obj[g].listeners)
    BY ZenonT(30), <1>5
  <2>2. \A l \in allowed : \A x \in Range(of[l]) : x.listener \in Range(obj[l].listeners)
    BY ZenonT(30), <1>6
  <2>3. QED
    BY ZenonT(30), <1>1, <1>3, <1>12, <2>1, <2>2
<1>15. QED
  BY ZenonT(30), <1>4, <1>13, <1>14 DEF t

(* A route's backends, policies and a gateway's listeners, once nothing is *)
(* due.                                                                    *)
LEMMA SettledAttached == RowsInv => AttachedAsDeclared
<1> SUFFICES ASSUME RowsInv, Settled PROVE AttachedAsDeclared
  BY ZenonT(30) DEF AttachedAsDeclared
<1>1. ASSUME NEW r \in Live(Route)
      PROVE  AttachedTo(row[r].policies) = {p \in Live(Policy) : Targets(p, Source[r], "", Labels(r))}
  <2>1. PICK ord \in Orders :
          row[r].policies = ToAttachedPolicies(getTargetingPolicies(Source[r], "", Labels(r), FALSE, ord))
    BY ZenonT(30), <1>1, RouteRow
  <2> DEFINE src == Source[r]
             labels == Labels(r)
             atts == getTargetingPolicies(src, "", labels, FALSE, ord)
  <2>2. /\ atts \in Seq(Range(atts))
        /\ \A p : (\E a \in Range(atts) : p = a.policy) <=> p \in Live(Policy) /\ Targets(p, src, "", labels)
    <3> HIDE DEF src, labels
    <3>1. QED
      BY ZenonT(30), TargetingExact
  <2>3. row[r].policies = ToAttachedPolicies(atts)
    BY <2>1
  <2> HIDE DEF atts
  <2>4. AttachedTo(ToAttachedPolicies(atts)) = {a.policy : a \in Range(atts)}
    BY ZenonT(30), <2>2, AttachedHolds
  <2>5. QED
    BY ZenonT(30), <2>2, <2>3, <2>4
<1>2. ASSUME NEW r \in Live(Route), NEW k \in DOMAIN row[r].rules, NEW b \in Range(row[r].rules[k].backends),
             Has(b, "cluster"), b.cluster # Blackhole, Source[b.cluster].ns # Source[r].ns
      PROVE  \/ \E g \in grant : g[1] = Source[r].kind /\ g[2] = Source[r].ns /\ g[4] = Source[b.cluster].ns
             \/ \E a \in Range(obj[b.cluster].aliases) : a.ns = ""
  <2> DEFINE refs == obj[r].rules[k].backends
  <2>1. row[r].rules[k].backends = getBackends(r, refs)
    BY ZenonT(30), <1>2, RouteRow
  <2> HIDE DEF refs
  <2>2. PICK i \in DOMAIN refs : b = IF refs[i].kind = "HTTPRoute" THEN [delegate |-> refs[i]]
                                     ELSE resolveRouteBackend(r, refs[i])
    BY ZenonT(30), <1>2, <2>1 DEF getBackends, Range
  <2> DEFINE ref == refs[i]
             found == GetBackendFromRef(Source[r].kind, Source[r].ns, ref)
  <2>3. b = resolveRouteBackend(r, ref)
    <3>1. \A x : ~ Has([delegate |-> x], "cluster")
      BY DEF Has
    <3>2. QED
      BY ZenonT(30), <1>2, <2>2, <3>1
  <2>4. found.err = "" /\ b.cluster = found.backend
    <3>1. CASE found.err # ""
      <4>1. resolveRouteBackend(r, ref).cluster = Blackhole
        BY ZenonT(30), <3>1 DEF resolveRouteBackend
      <4>2. QED
        BY ZenonT(30), <1>2, <2>3, <4>1
    <3>2. CASE found.err = "" /\ Source[r].kind \notin row[found.backend].spec.supports
      <4>1. resolveRouteBackend(r, ref).cluster = Blackhole
        BY ZenonT(30), <3>2 DEF resolveRouteBackend
      <4>2. QED
        BY ZenonT(30), <1>2, <2>3, <4>1
    <3>3. CASE found.err = "" /\ Source[r].kind \in row[found.backend].spec.supports
      <4>1. resolveRouteBackend(r, ref).cluster = found.backend
        BY ZenonT(30), <3>3 DEF resolveRouteBackend
      <4>2. QED
        BY ZenonT(30), <2>3, <3>3, <4>1
    <3>4. QED
      BY ZenonT(30), <3>1, <3>2, <3>3
  <2>5. PICK kind, ns, to, c : kind = Source[r].kind /\ ns = Source[r].ns /\ to = ref /\ c = b.cluster
    OBVIOUS
  <2>6. GetBackendFromRef(kind, ns, to).err = "" /\ c = GetBackendFromRef(kind, ns, to).backend /\ Source[c].ns # ns
    BY ZenonT(30), <1>2, <2>4, <2>5
  <2>7. Granted(kind, ns, c)
    BY ZenonT(30), <2>6, ResolvedIsGranted
  <2>8. QED
    BY ZenonT(30), <2>5, <2>7 DEF Granted
<1>3. ASSUME NEW g \in Live(Gateway)
      PROVE  /\ {x.of : x \in Range(row[g].listeners)} \ {g} =
                    {l \in Live(ListenerSet) : obj[l].parent = g /\ AllowedListenerSet(g, l)}
             /\ {x.listener : x \in Range(row[g].listeners)} \subseteq row[g].ports
  <2>1. g \in Gateway /\ g \in Rows /\ obj[g] # Nil /\ RowCurrent(g)
    BY ZenonT(30), <1>3 DEF Live, RowsInv, Settled, Rows
  <2>2. PICK ord \in Orders : RowEquals(g, row[g], Transform(g, ord))
    BY ZenonT(30), <2>1 DEF RowCurrent
  <2>3. row[g] = GatewaysForEnvoyTransformationFunc(g, ord)
    BY ZenonT(30), <2>1, <2>2, RouteIndexAssumption DEF RowEquals, Transform
  <2>4. QED
    BY ZenonT(30), <1>3, <2>3, GatewayListeners
<1>4. QED
  BY ZenonT(30), <1>1, <1>2, <1>3 DEF AttachedAsDeclared

(* Once no transform is due, a route carries exactly the policies that     *)
(* target it, crosses namespaces only under a ReferenceGrant that exists   *)
(* or by a global alias, and a gateway has the listeners of exactly the    *)
(* ListenerSets it allows, all of whose ports the deployer exposes         *)
(* (policy.go), for every cluster and every order of events.               *)
THEOREM AttachmentAsDeclared == Spec => []AttachedAsDeclared
  BY SettledAttached, RowsInit, RowsStep, PTL DEF Spec
=============================================================================
