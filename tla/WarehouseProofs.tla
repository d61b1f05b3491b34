-------------------------- MODULE WarehouseProofs --------------------------
(***************************************************************************)
(* Proofs for Warehouse and StatusPage: what a reconciled window and a     *)
(* green page are worth, for every set of events, faults and builds.       *)
(***************************************************************************)
EXTENDS StatusPage, FiniteSetTheorems, NaturalsInduction, WellFoundedInduction, TLAPS

-----------------------------------------------------------------------------
(* Numbers and sums *)

LEMMA Least ==
    ASSUME NEW T, T \subseteq Nat, T # {}
    PROVE  \E x \in T : \A y \in T : x <= y
<1> DEFINE Below == OpToRel(<, Nat)
<1>1. IsWellFoundedOn(Below, Nat)
  BY NatLessThanWellFounded
<1>2. \A x, y \in Nat : y < x => <<y, x>> \in Below
  BY DEF OpToRel
<1> HIDE DEF Below
<1>3. PICK x \in T : \A y \in T : <<y, x>> \notin Below
  BY <1>1, WFMin
<1>4. ASSUME NEW y \in T PROVE x <= y
  <2>1. x \in Nat /\ y \in Nat
    OBVIOUS
  <2>2. ~(y < x)
    BY <1>2, <1>3, <2>1
  <2> QED
    BY <2>1, <2>2
<1> QED
  BY <1>4

\* How SumFunction sums: an element after the other, each picked from those that are left.
Pick(s) == CHOOSE x \in s : TRUE
Sums(it, f) ==
    it = [s \in SUBSET DOMAIN f |-> IF s = {} THEN 0 ELSE f[Pick(s)] + it[s \ {Pick(s)}]]

LEMMA SumUnfolds ==
    ASSUME NEW f
    PROVE  SumFunction(f) = (CHOOSE it : Sums(it, f))[DOMAIN f]
BY DEF SumFunction, SumFunctionOnSet, FoldFunctionOnSet, MapThenFoldSet, Sums, Pick

\* The sum of a function that is the same everywhere.
LEMMA SumOfConstant ==
    ASSUME NEW f, IsFiniteSet(DOMAIN f), NEW c \in Nat, \A x \in DOMAIN f : f[x] = c
    PROVE  SumFunction(f) = c * Cardinality(DOMAIN f)
<1>1. ASSUME NEW s \in SUBSET DOMAIN f, s # {}
      PROVE  /\ Pick(s) \in s /\ s \ {Pick(s)} \in SUBSET DOMAIN f
             /\ Cardinality(s) \in Nat /\ Cardinality(s \ {Pick(s)}) = Cardinality(s) - 1
             /\ Cardinality(s) # 0
  <2>1. IsFiniteSet(s) /\ Cardinality(s) \in Nat /\ Cardinality(s) # 0
    BY <1>1, FS_Subset, FS_CardinalityType, FS_EmptySet
  <2>2. Pick(s) \in s
    BY <1>1 DEF Pick
  <2>3. Cardinality(s \ {Pick(s)}) = Cardinality(s) - 1
    BY <2>1, <2>2, FS_RemoveElement
  <2> QED
    BY <2>1, <2>2, <2>3
<1>2. PICK g : g = [s \in SUBSET DOMAIN f |-> c * Cardinality(s)]
  OBVIOUS
<1>3. Sums(g, f)
  <2>1. ASSUME NEW s \in SUBSET DOMAIN f
        PROVE  g[s] = IF s = {} THEN 0 ELSE f[Pick(s)] + g[s \ {Pick(s)}]
    <3>1. CASE s = {}
      BY <3>1, <1>2, FS_EmptySet
    <3>2. CASE s # {}
      <4>1. g[s] = c * Cardinality(s) /\ g[s \ {Pick(s)}] = c * (Cardinality(s) - 1)
        BY <3>2, <1>1, <1>2
      <4>2. f[Pick(s)] = c /\ Cardinality(s) \in Nat
        BY <3>2, <1>1
      <4>3. c * Cardinality(s) = c + c * (Cardinality(s) - 1)
        BY <4>2
      <4> QED
        BY <3>2, <4>1, <4>2, <4>3
    <3> QED
      BY <3>1, <3>2
  <2> QED
    BY <2>1, <1>2 DEF Sums
<1>4. PICK it : it = (CHOOSE h : Sums(h, f)) /\ Sums(it, f)
  BY <1>3
<1>5. \A s \in SUBSET DOMAIN f : it[s] = IF s = {} THEN 0 ELSE f[Pick(s)] + it[s \ {Pick(s)}]
  BY <1>4 DEF Sums
<1> DEFINE Wrong == {Cardinality(s) : s \in {t \in SUBSET DOMAIN f : it[t] # c * Cardinality(t)}}
<1>6. Wrong = {}
  <2>1. SUFFICES ASSUME Wrong # {} PROVE FALSE
    OBVIOUS
  <2>2. Wrong \subseteq Nat
    BY FS_Subset, FS_CardinalityType
  <2>3. PICK n \in Wrong : \A m \in Wrong : n <= m
    BY <2>1, <2>2, Least
  <2>4. PICK s \in SUBSET DOMAIN f : Cardinality(s) = n /\ it[s] # c * Cardinality(s)
    BY <2>3
  <2>5. s # {}
    <3>1. it[{}] = 0
      BY <1>5
    <3>2. Cardinality({}) = 0 /\ c * 0 = 0
      BY FS_EmptySet
    <3> QED
      BY <3>1, <3>2, <2>4
  <2>6. PICK k \in Nat : k = Cardinality(s) - 1 /\ Cardinality(s \ {Pick(s)}) = k
    BY <2>5, <1>1
  <2>7. s \ {Pick(s)} \in SUBSET DOMAIN f /\ f[Pick(s)] = c
    BY <2>5, <1>1
  <2>8. k \notin Wrong
    <3>1. n \in Nat /\ k = n - 1
      BY <2>2, <2>4, <2>6
    <3>2. ~(n <= k)
      BY <3>1
    <3> HIDE DEF Wrong
    <3> QED
      BY <2>3, <3>2
  <2>9. it[s \ {Pick(s)}] = c * k
    BY <2>6, <2>7, <2>8
  <2>10. it[s] = c + c * k
    BY <1>5, <2>5, <2>7, <2>9
  <2>11. c + c * k = c * (k + 1) /\ Cardinality(s) = k + 1
    BY <2>6, <2>5, <1>1
  <2> QED
    BY <2>4, <2>10, <2>11
<1>7. it[DOMAIN f] = c * Cardinality(DOMAIN f)
  BY <1>6
<1> QED
  BY <1>4, <1>7, SumUnfolds

\* Records that carry the identifiers of a finite set, one record each, are as many.
LEMMA Tally ==
    ASSUME NEW I, IsFiniteSet(I), NEW F,
           \A e \in F : e.id \in I,
           \A i \in I : \E e \in F : e.id = i,
           \A e, g \in F : e.id = g.id => e = g
    PROVE  IsFiniteSet(F) /\ Cardinality(F) = Cardinality(I)
<1>1. PICK name : name = [e \in F |-> e.id]
  OBVIOUS
<1>2. name \in Injection(F, I)
  BY <1>1 DEF Injection, IsInjective
<1>3. name \in Surjection(F, I)
  BY <1>1 DEF Surjection
<1> QED
  BY <1>2, <1>3, FS_Injection

-----------------------------------------------------------------------------
(* Events and their rows *)

LEMMA EventFields ==
    ASSUME NEW id \in Ids
    PROVE  /\ Canonical[id].id = id /\ Canonical[id].machine = MachineOf[id]
           /\ Canonical[id].type = TypeOf[id] /\ Canonical[id].time = TimeOf[id]
           /\ Canonical[id].publish = TimeOf[id]
BY DEF Canonical

\* A cycle payload of each version, under the names of its fields.
LEMMA CycleOfV1 ==
    ASSUME NEW p, p = CyclePayload(Seconds, "badge")
    PROVE  /\ DOMAIN p = {"work_order", "sku", "unit_seq", "duration_s", "operator"}
           /\ p["duration_s"] = Seconds /\ p["operator"] = "badge"
BY DEF CyclePayload

LEMMA CycleOfV2 ==
    ASSUME NEW p, p = ToV2(CyclePayload(Seconds, "badge"), "cycle")
    PROVE  /\ "duration_s" \in DOMAIN p /\ "duration_ms" \notin DOMAIN p
           /\ "operator" \notin DOMAIN p /\ "operator_badge" \in DOMAIN p
           /\ p["duration_s"] = Seconds /\ p["operator_badge"] = "badge"
<1>1. PICK o : o = CyclePayload(Seconds, "badge")
  OBVIOUS
<1>2. PICK q : q = With(o, "line_id", "")
  OBVIOUS
<1>3. /\ DOMAIN q = {"work_order", "sku", "unit_seq", "duration_s", "operator", "line_id"}
      /\ q["duration_s"] = Seconds /\ q["operator"] = "badge"
  BY <1>1, <1>2, CycleOfV1 DEF With
<1>4. p = With(Without(q, "operator"), "operator_badge", q["operator"])
  BY <1>1, <1>2, <1>3, CycleOfV1 DEF ToV2, Has
<1> QED
  BY <1>3, <1>4 DEF With, Without

LEMMA CycleOfV3 ==
    ASSUME NEW p, p = ToV3(CyclePayload(Seconds, "badge"), "cycle")
    PROVE  /\ "duration_ms" \in DOMAIN p /\ "duration_s" \notin DOMAIN p
           /\ "operator" \notin DOMAIN p /\ "operator_badge" \in DOMAIN p
           /\ p["duration_ms"] = 1000 * Seconds /\ p["operator_badge"] = "badge"
<1>1. PICK q : q = ToV2(CyclePayload(Seconds, "badge"), "cycle")
  OBVIOUS
<1>2. PICK ms : ms = 1000 * Seconds
  OBVIOUS
<1>3. /\ "duration_s" \in DOMAIN q /\ q["duration_s"] = Seconds
      /\ "operator" \notin DOMAIN q /\ "operator_badge" \in DOMAIN q
      /\ q["operator_badge"] = "badge"
  BY <1>1, CycleOfV2
<1>4. p = With(Without(q, "duration_s"), "duration_ms", ms)
  BY <1>1, <1>2, <1>3 DEF ToV3, Has
<1>5. /\ "duration_ms" \in DOMAIN p /\ "duration_s" \notin DOMAIN p
      /\ "operator" \notin DOMAIN p /\ "operator_badge" \in DOMAIN p
      /\ p["duration_ms"] = ms /\ p["operator_badge"] = "badge"
  BY <1>3, <1>4 DEF With, Without
<1> QED
  BY <1>2, <1>5

\* Every reader finds the seconds and the badge of a cycle, whatever its version.
LEMMA CycleOfAnyVersion ==
    ASSUME NEW id \in Ids, TypeOf[id] = "cycle"
    PROVE  /\ CycleDurationSeconds(Canonical[id].payload) = Seconds
           /\ StagedDuration(Canonical[id].payload) = Seconds
           /\ StagedOperator(Canonical[id].payload) = "badge"
<1>1. PICK p : p = Canonical[id].payload
  OBVIOUS
<1>2. Seconds \in Nat /\ Null # Seconds /\ Null # "badge" /\ VersionOf[id] \in 1 .. 3
  BY WarehouseAssumption
<1>3. NewPayload(TypeOf[id], Seconds, "badge") = CyclePayload(Seconds, "badge")
  BY DEF NewPayload
<1>4. CASE VersionOf[id] = 1
  <2>1. p = CyclePayload(Seconds, "badge")
    BY <1>1, <1>3, <1>4 DEF Canonical
  <2> QED
    BY <1>1, <1>2, <2>1, CycleOfV1 DEF CycleDurationSeconds, StagedDuration, StagedOperator,
                                       Coalesce, JsonString, Has
<1>5. CASE VersionOf[id] = 2
  <2>1. p = ToV2(CyclePayload(Seconds, "badge"), "cycle")
    BY <1>1, <1>3, <1>5 DEF Canonical
  <2> QED
    BY <1>1, <1>2, <2>1, CycleOfV2 DEF CycleDurationSeconds, StagedDuration, StagedOperator,
                                       Coalesce, JsonString, Has
<1>6. CASE VersionOf[id] = 3
  <2>1. p = ToV3(CyclePayload(Seconds, "badge"), "cycle")
    BY <1>1, <1>3, <1>6 DEF Canonical
  <2>2. (1000 * Seconds) \div 1000 = Seconds
    BY <1>2
  <2> QED
    BY <1>1, <1>2, <2>1, <2>2, CycleOfV3 DEF CycleDurationSeconds, StagedDuration, StagedOperator,
                                             Coalesce, JsonString, Has
<1> QED
  BY <1>2, <1>4, <1>5, <1>6

\* Staging copies the columns; the macro and the manifest agree on the window.
LEMMA RowFields ==
    ASSUME NEW r, r[1] \in Ids
    PROVE  /\ StagedRow(r).id = r[1] /\ StagedRow(r).type = TypeOf[r[1]]
           /\ Window(StagedRow(r)) = Bucket(Canonical[r[1]])
           /\ StagedRow(r).landing = r[3]
           /\ StagedRow(r).duration_s = StagedDuration(Canonical[r[1]].payload)
           /\ StagedRow(r).operator_badge = StagedOperator(Canonical[r[1]].payload)
<1>1. PICK id \in Ids : id = r[1]
  OBVIOUS
<1>2. PICK row : row = StagedRow(r)
  OBVIOUS
<1>3. /\ row.id = id /\ row.type = TypeOf[id] /\ row.machine = MachineOf[id] /\ row.time = TimeOf[id]
      /\ row.landing = r[3] /\ row.duration_s = StagedDuration(Canonical[id].payload)
      /\ row.operator_badge = StagedOperator(Canonical[id].payload)
  BY <1>1, <1>2, EventFields DEF StagedRow, StgRow, With
<1>4. TimeOf[id] \in Nat /\ WindowMinutes \in Nat \ {0}
  BY WarehouseAssumption, WindowAssumption
<1>5. (TimeOf[id] \div WindowMinutes) * WindowMinutes = TimeOf[id] - (TimeOf[id] % WindowMinutes)
  BY <1>4
<1>6. Window(row) = Bucket(Canonical[id])
  BY <1>3, <1>5, EventFields DEF Window, Bucket, SqlWindowStart, WindowStart
<1> QED
  BY <1>1, <1>2, <1>3, <1>6

-----------------------------------------------------------------------------
(* Counting the events of a window *)

IdsOfType(I, type) == {id \in I : TypeOf[id] = type}

LEMMA FiniteIds ==
    ASSUME NEW I \in SUBSET Ids
    PROVE  IsFiniteSet(I) /\ Cardinality(I) \in Nat
BY WarehouseAssumption, FS_Subset, FS_CardinalityType

\* A set of events, the part of it that is corrupt, and the rest.
LEMMA PartAndRest ==
    ASSUME NEW I \in SUBSET Ids, NEW B \in SUBSET I, NEW R, R = I \ B
    PROVE  /\ Cardinality(I) \in Nat /\ Cardinality(B) \in Nat /\ Cardinality(R) \in Nat
           /\ Cardinality(I) - Cardinality(B) = Cardinality(R)
<1>1. IsFiniteSet(I) /\ IsFiniteSet(B) /\ IsFiniteSet(R) /\ I \cap B = B
  BY FiniteIds
<1>2. Cardinality(R) = Cardinality(I) - Cardinality(B)
  BY <1>1, FS_Difference
<1>3. Cardinality(I) \in Nat /\ Cardinality(B) \in Nat /\ Cardinality(R) \in Nat
  BY <1>1, FS_CardinalityType
<1> QED
  BY <1>2, <1>3

\* A set of records with identifiers and types, one for each of a set of identifiers.
Lists(F, I) ==
    /\ \A e \in F : e.id \in I /\ e.type = TypeOf[e.id]
    /\ \A i \in I : \E e \in F : e.id = i
    /\ \A e, g \in F : e.id = g.id => e = g

LEMMA CountsOfList ==
    ASSUME NEW I \in SUBSET Ids, NEW F, Lists(F, I)
    PROVE  /\ Cardinality(F) = Cardinality(I)
           /\ \A type : /\ IsFiniteSet(OfType(F, type))
                        /\ Cardinality(OfType(F, type)) = Cardinality(IdsOfType(I, type))
                        /\ Count(F, type) = Cardinality(IdsOfType(I, type))
<1>1. Cardinality(F) = Cardinality(I)
  BY FiniteIds, Tally DEF Lists
<1>2. ASSUME NEW type
      PROVE  /\ IsFiniteSet(OfType(F, type))
             /\ Cardinality(OfType(F, type)) = Cardinality(IdsOfType(I, type))
  <2>1. PICK J \in SUBSET Ids : J = IdsOfType(I, type)
    BY DEF IdsOfType
  <2>2. PICK G : G = OfType(F, type)
    OBVIOUS
  <2>3. IsFiniteSet(J)
    BY FiniteIds
  <2>4. \A e \in G : e.id \in J
    BY <2>1, <2>2 DEF Lists, OfType, IdsOfType
  <2>5. \A i \in J : \E e \in G : e.id = i
    BY <2>1, <2>2 DEF Lists, OfType, IdsOfType
  <2>6. \A e, g \in G : e.id = g.id => e = g
    BY <2>2 DEF Lists, OfType
  <2> QED
    BY <2>1, <2>2, <2>3, <2>4, <2>5, <2>6, Tally
<1> QED
  BY <1>1, <1>2 DEF Count

\* The canonical events of a set of identifiers, and what the manifest sums over them.
LEMMA CanonicalLists ==
    ASSUME NEW I \in SUBSET Ids, NEW F, F = {Canonical[id] : id \in I}
    PROVE  Lists(F, I)
<1>1. \A id \in I : Canonical[id].id = id /\ Canonical[id].type = TypeOf[id]
  BY EventFields
<1> QED
  BY <1>1 DEF Lists

LEMMA DurationOfEvents ==
    ASSUME NEW I \in SUBSET Ids, NEW F, F = {Canonical[id] : id \in I}
    PROVE  DurationSum(F) = Seconds * Cardinality(IdsOfType(I, "cycle"))
<1>1. PICK f : f = [e \in OfType(F, "cycle") |-> CycleDurationSeconds(e.payload)]
  OBVIOUS
<1>2. DOMAIN f = OfType(F, "cycle")
  BY <1>1
<1>3. /\ IsFiniteSet(DOMAIN f)
      /\ Cardinality(DOMAIN f) = Cardinality(IdsOfType(I, "cycle"))
  <2>1. Lists(F, I)
    BY CanonicalLists
  <2>2. /\ IsFiniteSet(OfType(F, "cycle"))
        /\ Cardinality(OfType(F, "cycle")) = Cardinality(IdsOfType(I, "cycle"))
    BY <2>1, CountsOfList
  <2> QED
    BY <1>2, <2>2
<1>4. ASSUME NEW e \in DOMAIN f PROVE f[e] = Seconds
  <2>1. PICK id \in I : e = Canonical[id]
    BY <1>2 DEF OfType
  <2>2. TypeOf[id] = "cycle"
    BY <1>2, <2>1, EventFields DEF OfType
  <2> QED
    BY <1>1, <1>2, <2>1, <2>2, CycleOfAnyVersion
<1>5. SumFunction(f) = Seconds * Cardinality(DOMAIN f)
  BY <1>3, <1>4, SumOfConstant, WarehouseAssumption
<1> QED
  BY <1>1, <1>3, <1>5 DEF DurationSum

\* What a row of the manifest says of a set of events, some of them corrupted.
Tells(m, E, C) ==
    /\ m.event_count = Cardinality(E) /\ m.corrupt_count = Cardinality(E \cap C)
    /\ m.unit_count = Cardinality(IdsOfType(E, "cycle"))
    /\ m.corrupt_cycle_count = Cardinality(IdsOfType(E \cap C, "cycle"))
    /\ m.defect_count = Cardinality(IdsOfType(E, "defect"))
    /\ m.corrupt_defect_count = Cardinality(IdsOfType(E \cap C, "defect"))
    /\ m.cycle_duration_sum = Seconds * Cardinality(IdsOfType(E, "cycle"))
    /\ m.corrupt_duration_sum = Seconds * Cardinality(IdsOfType(E \cap C, "cycle"))

LEMMA ManifestTells ==
    ASSUME NEW key, NEW mlog
    PROVE  Tells(WindowManifest(InBucket(Range(Canonical), key), mlog), EventsOf(key), mlog.corrupt)
<1>1. PICK E \in SUBSET Ids : E = EventsOf(key)
  BY DEF EventsOf
<1>2. PICK F : F = InBucket(Range(Canonical), key)
  OBVIOUS
<1>3. PICK C : C = mlog.corrupt
  OBVIOUS
<1>4. PICK G : G = {e \in F : e.id \in C}
  OBVIOUS
<1>5. F = {Canonical[id] : id \in E}
  BY <1>1, <1>2 DEF InBucket, Range, EventsOf, Canonical
<1>6. G = {Canonical[id] : id \in E \cap C}
  BY <1>4, <1>5, EventFields
<1>7. E \cap C \in SUBSET Ids
  OBVIOUS
<1>8. /\ Cardinality(F) = Cardinality(E)
      /\ Count(F, "cycle") = Cardinality(IdsOfType(E, "cycle"))
      /\ Count(F, "defect") = Cardinality(IdsOfType(E, "defect"))
      /\ DurationSum(F) = Seconds * Cardinality(IdsOfType(E, "cycle"))
  BY <1>5, CanonicalLists, CountsOfList, DurationOfEvents
<1>9. /\ Cardinality(G) = Cardinality(E \cap C)
      /\ Count(G, "cycle") = Cardinality(IdsOfType(E \cap C, "cycle"))
      /\ Count(G, "defect") = Cardinality(IdsOfType(E \cap C, "defect"))
      /\ DurationSum(G) = Seconds * Cardinality(IdsOfType(E \cap C, "cycle"))
  BY <1>6, <1>7, CanonicalLists, CountsOfList, DurationOfEvents
<1> QED
  BY <1>1, <1>2, <1>3, <1>4, <1>8, <1>9 DEF WindowManifest, Tells

-----------------------------------------------------------------------------
(* The inductive invariant *)

CorruptIds == {c[1] : c \in corrupt}

\* The ground truth tells of every window of the run; what was injected and told stays.
TruthInv ==
    /\ extra \in [Ids -> Nat] /\ corrupt \subseteq Copies
    /\ DOMAIN truth = {Bucket(Canonical[id]) : id \in Ids}
    /\ \A key \in DOMAIN truth : Tells(truth[key], EventsOf(key), CorruptIds)

\* The lake only grows: copies, and manifests as they were written.
LakeInv ==
    /\ bronze \in [Readable -> Nat]
    /\ DOMAIN manifests \subseteq DOMAIN truth
    /\ \A key \in DOMAIN manifests : manifests[key] = truth[key]

\* Silver has one row per event, of a copy that has landed.
SilverInv ==
    /\ \A r \in silver : \E row \in BronzeRows : r = StagedRow(row)
    /\ \A r, s \in silver : r.id = s.id => r = s

\* Every observable event of the window is in silver, and its manifest in the lake.
Settled(key) ==
    /\ key \in DOMAIN manifests /\ HasObservable(key)
    /\ \A id \in EventsOf(key) : Observable(id) => InSilver(id)

Verdicts == {"reconciled", "pending", "broken"}

\* A verdict of an exact window is only reconciled when it is settled.
LedgerInv ==
    /\ DOMAIN ledger \subseteq Windows /\ \A key \in DOMAIN ledger : ledger[key] \in Verdicts
    /\ \A key \in Windows : Reconciled(key) /\ Exact(key) => Settled(key)

WarehouseInv == TruthInv /\ LakeInv /\ SilverInv /\ LedgerInv

\* A set of statuses whose reconciled windows have lost nothing.
Truthful(statuses) ==
    /\ IsFiniteSet(DOMAIN statuses) /\ \A key \in DOMAIN statuses : statuses[key] \in Verdicts
    /\ \A key \in DOMAIN statuses :
          statuses[key] = "reconciled" /\ Exact(key)
            => \A id \in EventsOf(key) : Observable(id) => HasLanded(id)

PageInv == (answer # Nothing => Truthful(answer)) /\ GreenPageIsTrue

-----------------------------------------------------------------------------
(* Rows, counts and verdicts *)

LEMMA CopyIs ==
    ASSUME TruthInv
    PROVE  /\ \A c \in Copies : c[1] \in Ids /\ c[2] \in Nat /\ c = <<c[1], c[2]>>
           /\ \A id \in Ids : <<id, 0>> \in Copies
           /\ Readable \subseteq Copies
<1>1. ASSUME NEW c \in Copies
      PROVE  c[1] \in Ids /\ c[2] \in Nat /\ c = <<c[1], c[2]>>
  <2>1. PICK id \in Ids : c \in {id} \X (0 .. extra[id])
    BY DEF Copies, CopiesOf
  <2> QED
    BY <2>1 DEF TruthInv
<1>2. ASSUME NEW id \in Ids
      PROVE  <<id, 0>> \in Copies
  <2>1. extra[id] \in Nat
    BY DEF TruthInv
  <2>2. <<id, 0>> \in {id} \X (0 .. extra[id])
    BY <2>1
  <2> QED
    BY <2>2 DEF Copies, CopiesOf
<1> QED
  BY <1>1, <1>2 DEF Readable

LEMMA BronzeRowIs ==
    ASSUME TruthInv, LakeInv, NEW r \in BronzeRows
    PROVE  /\ r[1] \in Ids /\ r[2] \in Nat /\ r[3] \in Nat /\ r = <<r[1], r[2], r[3]>>
           /\ <<r[1], r[2]>> \in Readable /\ r[3] \in 1 .. bronze[<<r[1], r[2]>>]
           /\ Observable(r[1]) /\ HasLanded(r[1])
<1>0. PICK c \in Readable : \E k \in 1 .. bronze[c] : r = <<c[1], c[2], k>>
  BY DEF BronzeRows
<1>1. PICK k \in 1 .. bronze[c] : r = <<c[1], c[2], k>>
  BY <1>0
<1>2. c[1] \in Ids /\ c[2] \in Nat /\ c = <<c[1], c[2]>> /\ bronze[c] \in Nat
  BY CopyIs DEF LakeInv
<1>3. r[1] = c[1] /\ r[2] = c[2] /\ r[3] = k
  BY <1>1
<1>4. Observable(r[1]) /\ HasLanded(r[1])
  BY <1>3 DEF Observable, HasLanded
<1> QED
  BY <1>1, <1>2, <1>3, <1>4

LEMMA SilverRowIs ==
    ASSUME TruthInv, LakeInv, SilverInv, NEW r \in silver
    PROVE  /\ r.id \in Ids /\ r.type = TypeOf[r.id] /\ Window(r) = Bucket(Canonical[r.id])
           /\ Observable(r.id) /\ HasLanded(r.id)
           /\ r.type = "cycle" => r.duration_s = Seconds /\ r.operator_badge = "badge"
<1>1. PICK row \in BronzeRows : r = StagedRow(row)
  BY DEF SilverInv
<1>2. row[1] \in Ids /\ Observable(row[1]) /\ HasLanded(row[1])
  BY BronzeRowIs
<1> QED
  BY <1>1, <1>2, RowFields, CycleOfAnyVersion

\* The events of a window that silver has, and what gold says of them.
SilverIds(key) == {id \in EventsOf(key) : InSilver(id)}
RowsOf(key) == {r \in silver : Window(r) = key}

Says(o, I) ==
    /\ o.event_count = Cardinality(I)
    /\ o.unit_count = Cardinality(IdsOfType(I, "cycle"))
    /\ o.defect_count = Cardinality(IdsOfType(I, "defect"))
    /\ o.cycle_duration_sum = Seconds * Cardinality(IdsOfType(I, "cycle"))

LEMMA GoldSays ==
    ASSUME TruthInv, LakeInv, SilverInv, NEW key
    PROVE  /\ SilverIds(key) \in SUBSET Ids /\ \A id \in SilverIds(key) : Observable(id)
           /\ Says(AggWindowMachine(RowsOf(key)), SilverIds(key))
<1>1. PICK I \in SUBSET Ids : I = SilverIds(key)
  BY DEF SilverIds, EventsOf
<1>2. PICK R : R = RowsOf(key)
  OBVIOUS
<1>3. \A e \in R : /\ e \in silver /\ e.id \in I /\ e.type = TypeOf[e.id]
                   /\ e.type = "cycle" => e.duration_s = Seconds
  BY <1>1, <1>2, SilverRowIs DEF SilverIds, RowsOf, InSilver, EventsOf
<1>4. \A i \in I : Observable(i) /\ \E e \in R : e.id = i
  <2>1. SUFFICES ASSUME NEW i \in I PROVE Observable(i) /\ \E e \in R : e.id = i
    OBVIOUS
  <2>2. PICK e \in silver : e.id = i /\ Bucket(Canonical[i]) = key
    BY <1>1 DEF SilverIds, InSilver, EventsOf
  <2>3. Window(e) = key /\ Observable(i)
    BY <2>2, SilverRowIs
  <2> QED
    BY <1>2, <2>2, <2>3 DEF RowsOf
<1>5. Lists(R, I)
  <2>1. \A e, g \in R : e.id = g.id => e = g
    BY <1>3 DEF SilverInv
  <2> QED
    BY <1>3, <1>4, <2>1 DEF Lists
<1>6. /\ Cardinality(R) = Cardinality(I)
      /\ Count(R, "cycle") = Cardinality(IdsOfType(I, "cycle"))
      /\ Count(R, "defect") = Cardinality(IdsOfType(I, "defect"))
      /\ IsFiniteSet(OfType(R, "cycle"))
      /\ Cardinality(OfType(R, "cycle")) = Cardinality(IdsOfType(I, "cycle"))
  BY <1>5, CountsOfList, SMTT(30)
<1>7. PICK f : f = [r \in OfType(R, "cycle") |-> r.duration_s]
  OBVIOUS
<1>8. DOMAIN f = OfType(R, "cycle") /\ \A r \in DOMAIN f : f[r] = Seconds
  <2>1. DOMAIN f = OfType(R, "cycle") /\ \A r \in OfType(R, "cycle") : f[r] = r.duration_s
    BY <1>7
  <2>2. \A r \in OfType(R, "cycle") : r \in R /\ r.type = "cycle"
    BY DEF OfType
  <2> QED
    BY <1>3, <2>1, <2>2
<1>9. SumFunction(f) = Seconds * Cardinality(OfType(R, "cycle"))
  BY <1>6, <1>8, SumOfConstant, WarehouseAssumption
<1>10. Says(AggWindowMachine(R), I)
  BY <1>6, <1>7, <1>9 DEF Says, AggWindowMachine
<1> QED
  BY <1>1, <1>2, <1>4, <1>10

\* Where no event is partly corrupt, what can be observed is what was not corrupted.
LEMMA ObservableIsUncorrupted ==
    ASSUME TruthInv, NEW key, Exact(key)
    PROVE  \A id \in EventsOf(key) : Observable(id) <=> id \notin CorruptIds
<1> SUFFICES ASSUME NEW id \in EventsOf(key)
             PROVE  Observable(id) <=> id \notin CorruptIds
  OBVIOUS
<1>1. ASSUME id \notin CorruptIds PROVE Observable(id)
  <2>1. id \in Ids /\ <<id, 0>> \in Copies /\ <<id, 0>>[1] = id
    BY CopyIs DEF EventsOf
  <2>2. <<id, 0>> \notin corrupt
    BY <1>1, <2>1 DEF CorruptIds
  <2> QED
    BY <2>1, <2>2 DEF Observable, Readable
<1>2. ASSUME id \in CorruptIds PROVE ~Observable(id)
  BY <1>2 DEF CorruptIds, Exact, PartlyCorrupt
<1> QED
  BY <1>1, <1>2

\* Equal sets of events leave no difference, in any measure.
LEMMA DeltasVanish ==
    ASSUME NEW m, NEW o, NEW E \in SUBSET Ids, NEW C, Tells(m, E, C), Says(o, E \ C)
    PROVE  AllZero(Deltas(m, o))
<1>0. PICK B, R : B \in SUBSET E /\ B = E \cap C /\ R = E \ C /\ R = E \ B
  OBVIOUS
<1>1. o.event_count - (m.event_count - m.corrupt_count) = 0
  <2>1. /\ o.event_count = Cardinality(R)
        /\ m.event_count = Cardinality(E) /\ m.corrupt_count = Cardinality(B)
    BY <1>0 DEF Tells, Says
  <2> QED
    BY <1>0, <2>1, PartAndRest
<1>2. /\ IdsOfType(E, "cycle") \in SUBSET Ids
      /\ IdsOfType(B, "cycle") \in SUBSET IdsOfType(E, "cycle")
      /\ IdsOfType(R, "cycle") = IdsOfType(E, "cycle") \ IdsOfType(B, "cycle")
  BY <1>0 DEF IdsOfType
<1>3. /\ IdsOfType(E, "defect") \in SUBSET Ids
      /\ IdsOfType(B, "defect") \in SUBSET IdsOfType(E, "defect")
      /\ IdsOfType(R, "defect") = IdsOfType(E, "defect") \ IdsOfType(B, "defect")
  BY <1>0 DEF IdsOfType
<1>5. PICK a \in Nat, b \in Nat, c \in Nat :
         /\ a = Cardinality(IdsOfType(E, "cycle")) /\ b = Cardinality(IdsOfType(B, "cycle"))
         /\ c = Cardinality(IdsOfType(R, "cycle")) /\ a - b = c
  BY <1>2, PartAndRest
<1>6. PICK d \in Nat, e \in Nat, g \in Nat :
         /\ d = Cardinality(IdsOfType(E, "defect")) /\ e = Cardinality(IdsOfType(B, "defect"))
         /\ g = Cardinality(IdsOfType(R, "defect")) /\ d - e = g
  BY <1>3, PartAndRest
<1>7. o.unit_count - (m.unit_count - m.corrupt_cycle_count) = 0
  <2>1. o.unit_count = c /\ m.unit_count = a /\ m.corrupt_cycle_count = b
    BY <1>0, <1>5 DEF Tells, Says
  <2> QED
    BY <2>1, <1>5
<1>8. o.defect_count - (m.defect_count - m.corrupt_defect_count) = 0
  <2>1. o.defect_count = g /\ m.defect_count = d /\ m.corrupt_defect_count = e
    BY <1>0, <1>6 DEF Tells, Says
  <2> QED
    BY <2>1, <1>6
<1>9. o.cycle_duration_sum - (m.cycle_duration_sum - m.corrupt_duration_sum) = 0
  <2>1. /\ o.cycle_duration_sum = Seconds * c
        /\ m.cycle_duration_sum = Seconds * a /\ m.corrupt_duration_sum = Seconds * b
    BY <1>0, <1>5 DEF Tells, Says
  <2>2. Seconds \in Nat /\ Seconds * a = Seconds * c + Seconds * b
    <3>1. a = c + b
      BY <1>5
    <3> QED
      BY <3>1, WarehouseAssumption
  <2>3. PICK x \in Nat, y \in Nat : x = Seconds * c /\ y = Seconds * b
    BY <2>2
  <2> QED
    BY <2>1, <2>2, <2>3
<1> QED
  BY <1>1, <1>7, <1>8, <1>9 DEF AllZero, Deltas

LEMMA StatusIs ==
    ASSUME NEW key, NEW known, NEW gold, NEW at
    PROVE  /\ Status(key, known, gold, at) \in Verdicts
           /\ Status(key, known, gold, at) = "reconciled"
                <=> /\ key \in DOMAIN known /\ key \in DOMAIN gold
                    /\ AllZero(Deltas(known[key], gold[key]))
BY DEF Status, Verdicts

\* The verdict on an exact window is reconciled if and only if the window is settled.
LEMMA ReconciledIffSettled ==
    ASSUME TruthInv, LakeInv, SilverInv, NEW key \in Windows, Exact(key)
    PROVE  (key \in DOMAIN CompletenessLedger /\ CompletenessLedger[key] = "reconciled") <=> Settled(key)
<1>1. /\ DOMAIN CompletenessLedger = DOMAIN manifests \cup DOMAIN Gold
      /\ \A k \in DOMAIN CompletenessLedger : CompletenessLedger[k] = Status(k, manifests, Gold, now)
  BY DEF CompletenessLedger
<1>2. DOMAIN Gold = {Window(r) : r \in silver}
  BY DEF Gold
<1>3. key \in DOMAIN Gold => Gold[key] = AggWindowMachine(RowsOf(key))
  BY DEF Gold, RowsOf
<1>4. PICK E \in SUBSET Ids : E = EventsOf(key)
  BY DEF EventsOf
<1>5. PICK S \in SUBSET Ids : /\ S = SilverIds(key) /\ \A id \in S : Observable(id)
                              /\ Says(AggWindowMachine(RowsOf(key)), S)
  BY GoldSays
<1>6. S \subseteq E \ CorruptIds
  BY <1>4, <1>5, ObservableIsUncorrupted DEF SilverIds
<1>7. key \in DOMAIN manifests => manifests[key] = truth[key] /\ Tells(truth[key], E, CorruptIds)
  BY <1>4 DEF LakeInv, TruthInv
<1>8. ASSUME Settled(key)
      PROVE  key \in DOMAIN CompletenessLedger /\ CompletenessLedger[key] = "reconciled"
  <2>1. S = E \ CorruptIds
    BY <1>4, <1>5, <1>6, <1>8, ObservableIsUncorrupted DEF Settled, SilverIds
  <2>2. key \in DOMAIN Gold
    <3>1. PICK id \in EventsOf(key) : Observable(id)
      BY <1>8 DEF Settled, HasObservable
    <3>2. PICK r \in silver : r.id = id
      BY <1>8, <3>1 DEF Settled, InSilver
    <3>3. Window(r) = key
      BY <3>1, <3>2, SilverRowIs DEF EventsOf
    <3> QED
      BY <3>2, <3>3, <1>2
  <2>3. AllZero(Deltas(manifests[key], Gold[key]))
    BY <2>1, <2>2, <1>3, <1>5, <1>7, <1>8, DeltasVanish DEF Settled
  <2>4. Status(key, manifests, Gold, now) = "reconciled"
    BY <2>2, <2>3, <1>8, StatusIs DEF Settled
  <2> QED
    BY <2>2, <2>4, <1>1
<1>9. ASSUME key \in DOMAIN CompletenessLedger, CompletenessLedger[key] = "reconciled"
      PROVE  Settled(key)
  <2>1. Status(key, manifests, Gold, now) = "reconciled"
    BY <1>1, <1>9
  <2>2. key \in DOMAIN manifests /\ key \in DOMAIN Gold /\ AllZero(Deltas(manifests[key], Gold[key]))
    BY <2>1, StatusIs
  <2>3. /\ Tells(manifests[key], E, CorruptIds) /\ Says(Gold[key], S)
    BY <2>2, <1>3, <1>5, <1>7
  <2>4. Gold[key].event_count - (manifests[key].event_count - manifests[key].corrupt_count) = 0
    BY <2>2 DEF AllZero, Deltas
  <2>0. PICK B, V : B = E \cap CorruptIds /\ V = E \ CorruptIds
    OBVIOUS
  <2>5. /\ B \in SUBSET E /\ V \in SUBSET Ids
        /\ B = E \cap CorruptIds /\ V = E \ CorruptIds /\ V = E \ B
    BY <2>0
  <2>6. PICK e \in Nat, b \in Nat, v \in Nat :
           e = Cardinality(E) /\ b = Cardinality(B) /\ v = Cardinality(V) /\ e - b = v
    BY <2>5, PartAndRest
  <2>7. PICK s \in Nat : s = Cardinality(S)
    BY FiniteIds
  <2>8. s - (e - b) = 0
    BY <2>3, <2>4, <2>5, <2>6, <2>7 DEF Tells, Says
  <2>9. Cardinality(S) = Cardinality(V)
    BY <2>6, <2>7, <2>8
  <2>10. S = V
    <3>1. IsFiniteSet(V) /\ S \in SUBSET V
      BY <1>6, <2>5, FiniteIds
    <3> QED
      BY <3>1, <2>9, FS_Subset
  <2>11. \A id \in EventsOf(key) : Observable(id) => InSilver(id)
    BY <1>4, <1>5, <2>5, <2>10, ObservableIsUncorrupted DEF SilverIds
  <2>12. HasObservable(key)
    <3>1. PICK r \in silver : Window(r) = key
      BY <2>2, <1>2
    <3>2. r.id \in Ids /\ Bucket(Canonical[r.id]) = key /\ Observable(r.id)
      BY <3>1, SilverRowIs
    <3> QED
      BY <3>2 DEF HasObservable, EventsOf
  <2> QED
    BY <2>2, <2>11, <2>12 DEF Settled
<1> QED
  BY <1>8, <1>9

\* What is in silver has landed: a settled window has lost nothing.
LEMMA SettledHasLanded ==
    ASSUME TruthInv, LakeInv, SilverInv, NEW key, Settled(key)
    PROVE  \A id \in EventsOf(key) : Observable(id) => HasLanded(id)
BY SilverRowIs DEF Settled, InSilver

-----------------------------------------------------------------------------
(* The steps *)

LEMMA InitHolds == Init => WarehouseInv
<1> SUFFICES ASSUME Init PROVE WarehouseInv
  OBVIOUS
<1>1. extra \in [Ids -> Nat] /\ corrupt \subseteq Copies
  <2>1. extra \in [Ids -> 0 .. MaxInjected] /\ corrupt \in SUBSET CopiesOf(extra)
    BY DEF Init
  <2> QED
    BY <2>1, WarehouseAssumption DEF Copies
<1>2. PICK mlog : mlog = InjectionLog
  OBVIOUS
<1>3. mlog.corrupt = CorruptIds
  BY <1>2 DEF InjectionLog, NoInjections, CorruptIds
<1>4. /\ DOMAIN truth = {Bucket(e) : e \in Range(Canonical)}
      /\ \A key \in DOMAIN truth : truth[key] = WindowManifest(InBucket(Range(Canonical), key), mlog)
  BY <1>2 DEF Init, BuildManifest
<1>5. {Bucket(e) : e \in Range(Canonical)} = {Bucket(Canonical[id]) : id \in Ids}
  <2>1. DOMAIN Canonical = Ids
    BY DEF Canonical
  <2> QED
    BY <2>1 DEF Range
<1>6. TruthInv
  BY <1>1, <1>3, <1>4, <1>5, ManifestTells DEF TruthInv
<1>7. LakeInv
  BY DEF Init, LakeInv
<1>8. SilverInv /\ LedgerInv
  BY DEF Init, SilverInv, LedgerInv, Reconciled
<1> QED
  BY <1>6, <1>7, <1>8 DEF WarehouseInv

\* What the injector did and told does not change, nor what can be observed.
LEMMA TruthStays ==
    ASSUME TruthInv, UNCHANGED <<extra, corrupt, truth>>
    PROVE  /\ TruthInv' /\ Readable' = Readable /\ Windows' = Windows
           /\ \A id : Observable(id)' <=> Observable(id)
           /\ \A key : (Exact(key)' <=> Exact(key)) /\ (HasObservable(key)' <=> HasObservable(key))
<1>1. Copies' = Copies /\ CorruptIds' = CorruptIds
  BY DEF Copies, CorruptIds
<1>2. Readable' = Readable /\ Windows' = Windows
  BY <1>1 DEF Readable, Windows
<1>3. TruthInv'
  BY <1>1 DEF TruthInv
<1>4. \A id : Observable(id)' <=> Observable(id)
  BY <1>2 DEF Observable
<1>5. \A key : Exact(key)' <=> Exact(key)
  BY <1>4 DEF Exact, PartlyCorrupt
<1>6. \A key : HasObservable(key)' <=> HasObservable(key)
  BY <1>4 DEF HasObservable
<1> QED
  BY <1>2, <1>3, <1>4, <1>5, <1>6

\* Bronze only grows: what has landed has landed.
LEMMA BronzeGrows ==
    ASSUME WarehouseInv, [Next]_vars
    PROVE  /\ UNCHANGED <<extra, corrupt, truth>> /\ bronze' \in [Readable -> Nat]
           /\ BronzeRows \subseteq BronzeRows'
           /\ \A id : HasLanded(id) => HasLanded(id)'
<1>1. UNCHANGED <<extra, corrupt, truth>>
  BY DEF Next, Land, Lose, WriteManifests, BuildSilver, BuildLedger, Tick, vars
<1>2. bronze \in [Readable -> Nat]
  BY DEF WarehouseInv, LakeInv
<1>3. bronze' \in [Readable -> Nat] /\ \A c \in Readable : bronze'[c] >= bronze[c]
  <2>1. CASE UNCHANGED bronze
    BY <1>2, <2>1
  <2>2. ASSUME NEW copy \in Readable, Land(copy)
        PROVE  bronze' \in [Readable -> Nat] /\ \A c \in Readable : bronze'[c] >= bronze[c]
    BY <1>2, <2>2 DEF Land
  <2> QED
    BY <2>1, <2>2 DEF Next, Lose, WriteManifests, BuildSilver, BuildLedger, Tick, vars
<1>4. Readable' = Readable
  BY <1>1, TruthStays DEF WarehouseInv
<1>5. ASSUME NEW r \in BronzeRows
      PROVE  r \in BronzeRows'
  <2>1. PICK c \in Readable : \E k \in 1 .. bronze[c] : r = <<c[1], c[2], k>>
    BY DEF BronzeRows
  <2>2. 1 .. bronze[c] \subseteq 1 .. bronze'[c]
    BY <1>2, <1>3
  <2>3. \E k \in 1 .. bronze'[c] : r = <<c[1], c[2], k>>
    BY <2>1, <2>2
  <2> QED
    BY <1>4, <2>3 DEF BronzeRows
<1>6. \A id : HasLanded(id) => HasLanded(id)'
  BY <1>5 DEF HasLanded
<1> QED
  BY <1>1, <1>3, <1>5, <1>6

\* Manifests are added, each with what the generator told of its window.
LEMMA ManifestsGrow ==
    ASSUME WarehouseInv, [Next]_vars
    PROVE  LakeInv' /\ DOMAIN manifests \subseteq DOMAIN manifests'
<1>1. UNCHANGED truth /\ bronze' \in [Readable -> Nat] /\ Readable' = Readable
  BY BronzeGrows, TruthStays DEF WarehouseInv
<1>2. /\ DOMAIN manifests' \subseteq DOMAIN truth
      /\ \A key \in DOMAIN manifests' : manifests'[key] = truth[key]
      /\ DOMAIN manifests \subseteq DOMAIN manifests'
  <2>1. CASE UNCHANGED manifests
    BY <2>1 DEF WarehouseInv, LakeInv
  <2>2. CASE WriteManifests
    <3>1. PICK start : manifests' = [key \in OfWindow(start) \cup DOMAIN manifests |->
                                        IF key \in OfWindow(start) THEN truth[key] ELSE manifests[key]]
      BY <2>2 DEF WriteManifests
    <3>2. OfWindow(start) \subseteq DOMAIN truth
      BY DEF OfWindow
    <3> QED
      BY <3>1, <3>2 DEF WarehouseInv, LakeInv
  <2> QED
    BY <2>1, <2>2 DEF Next, Land, Lose, BuildSilver, BuildLedger, Tick, vars
<1> QED
  BY <1>1, <1>2 DEF LakeInv

\* Of every event that has landed one row survives: the least copy's first landing.
LEMMA LandedSurvives ==
    ASSUME TruthInv, LakeInv, NEW id, HasLanded(id)
    PROVE  \E row \in SlvEvents : row.id = id
<1> DEFINE Mine == {r \in BronzeRows : r[1] = id}
           Copied == {r[2] : r \in Mine}
<1>1. PICK n \in Copied : \A m \in Copied : n <= m
  <2>1. Copied \subseteq Nat /\ Copied # {}
    BY BronzeRowIs DEF HasLanded
  <2> HIDE DEF Copied
  <2> QED
    BY <2>1, Least
<1> DEFINE First == {r \in Mine : r[2] = n}
           Landed == {r[3] : r \in First}
<1>2. PICK k \in Landed : \A m \in Landed : k <= m
  <2>1. Landed \subseteq Nat /\ Landed # {}
    BY <1>1, BronzeRowIs
  <2> HIDE DEF Landed
  <2> QED
    BY <2>1, Least
<1>3. PICK r \in First : r[3] = k
  BY <1>2
<1>4. ASSUME NEW s \in BronzeRows, s[1] = r[1]
      PROVE  r[2] < s[2] \/ (r[2] = s[2] /\ r[3] <= s[3])
  <2>1. r[1] = id /\ r[2] = n /\ s \in Mine
    BY <1>3, <1>4
  <2>2. n <= s[2] /\ (s[2] = n => k <= s[3])
    BY <1>1, <1>2, <2>1
  <2>3. n \in Nat /\ s[2] \in Nat
    BY <1>3, <2>1, BronzeRowIs
  <2> QED
    BY <1>3, <2>1, <2>2, <2>3
<1>5. r \in Survivors(BronzeRows)
  BY <1>3, <1>4 DEF Survivors
<1>6. StagedRow(r).id = id
  BY <1>3, BronzeRowIs, RowFields
<1> QED
  BY <1>5, <1>6 DEF SlvEvents

\* And no other: rows of an event that survive are the same.
LEMMA OneSurvives ==
    ASSUME TruthInv, LakeInv
    PROVE  /\ \A r \in SlvEvents : \E row \in BronzeRows : r = StagedRow(row)
           /\ \A r, s \in SlvEvents : r.id = s.id => r = s
<1>1. \A r \in SlvEvents : \E row \in BronzeRows : r = StagedRow(row)
  BY DEF SlvEvents, Survivors
<1>2. ASSUME NEW r \in SlvEvents, NEW s \in SlvEvents, r.id = s.id
      PROVE  r = s
  <2>1. PICK a \in Survivors(BronzeRows) : r = StagedRow(a)
    BY DEF SlvEvents
  <2>2. PICK b \in Survivors(BronzeRows) : s = StagedRow(b)
    BY DEF SlvEvents
  <2>3. a \in BronzeRows /\ b \in BronzeRows
    BY DEF Survivors
  <2>4. /\ a[1] \in Ids /\ a[2] \in Nat /\ a[3] \in Nat /\ a = <<a[1], a[2], a[3]>>
        /\ b[1] \in Ids /\ b[2] \in Nat /\ b[3] \in Nat /\ b = <<b[1], b[2], b[3]>>
    BY <2>3, BronzeRowIs
  <2>5. a[1] = b[1]
    BY <1>2, <2>1, <2>2, <2>4, RowFields
  <2>6. /\ a[2] < b[2] \/ (a[2] = b[2] /\ a[3] <= b[3])
        /\ b[2] < a[2] \/ (b[2] = a[2] /\ b[3] <= a[3])
    BY <2>3, <2>5 DEF Survivors
  <2>7. a[2] = b[2] /\ a[3] = b[3]
    BY <2>4, <2>6
  <2>8. a = b
    BY <2>4, <2>5, <2>7
  <2> QED
    BY <2>1, <2>2, <2>8
<1> QED
  BY <1>1, <1>2

\* A build may only add events to silver: what was there has landed, and survives.
LEMMA SilverGrows ==
    ASSUME WarehouseInv, [Next]_vars
    PROVE  SilverInv' /\ \A id : InSilver(id) => InSilver(id)'
<1>1. TruthInv /\ LakeInv /\ SilverInv
  BY DEF WarehouseInv
<1>2. BronzeRows \subseteq BronzeRows'
  BY BronzeGrows
<1>3. CASE UNCHANGED silver
  <2>1. \A id : InSilver(id)' <=> InSilver(id)
    BY <1>3 DEF InSilver
  <2>2. SilverInv'
    <3>1. \A r \in silver' : \E row \in BronzeRows' : r = StagedRow(row)
      BY <1>1, <1>2, <1>3 DEF SilverInv
    <3>2. \A r, s \in silver' : r.id = s.id => r = s
      BY <1>1, <1>3 DEF SilverInv
    <3> QED
      BY <3>1, <3>2 DEF SilverInv
  <2> QED
    BY <2>1, <2>2
<1>4. CASE BuildSilver
  <2>1. silver' = SlvEvents
    BY <1>4 DEF BuildSilver
  <2>2. SilverInv'
    <3>1. \A r \in silver' : \E row \in BronzeRows' : r = StagedRow(row)
      BY <1>1, <1>2, <2>1, OneSurvives
    <3>2. \A r, s \in silver' : r.id = s.id => r = s
      BY <1>1, <2>1, OneSurvives
    <3> QED
      BY <3>1, <3>2 DEF SilverInv
  <2>3. ASSUME NEW id, InSilver(id) PROVE InSilver(id)'
    <3>1. HasLanded(id)
      BY <1>1, <2>3, SilverRowIs DEF InSilver
    <3>2. \E row \in SlvEvents : row.id = id
      BY <1>1, <3>1, LandedSurvives
    <3> QED
      BY <2>1, <3>2 DEF InSilver
  <2> QED
    BY <2>2, <2>3
<1> QED
  BY <1>3, <1>4 DEF Next, Land, Lose, WriteManifests, BuildLedger, Tick, vars

\* So a window that is settled stays settled.
LEMMA SettledStays ==
    ASSUME WarehouseInv, [Next]_vars, NEW key, Settled(key)
    PROVE  Settled(key)'
<1>1. TruthInv /\ UNCHANGED <<extra, corrupt, truth>>
  BY BronzeGrows DEF WarehouseInv
<1>2. \A id : Observable(id)' <=> Observable(id)
  BY <1>1, TruthStays
<1>3. HasObservable(key)'
  BY <1>1, TruthStays DEF Settled
<1>4. key \in DOMAIN manifests'
  BY ManifestsGrow DEF Settled
<1>5. \A id \in EventsOf(key) : Observable(id)' => InSilver(id)'
  BY <1>2, SilverGrows DEF Settled
<1> QED
  BY <1>3, <1>4, <1>5 DEF Settled

LEMMA NewLedger ==
    ASSUME TruthInv, LakeInv, SilverInv
    PROVE  /\ DOMAIN CompletenessLedger \subseteq Windows
           /\ \A key \in DOMAIN CompletenessLedger : CompletenessLedger[key] \in Verdicts
<1>1. DOMAIN CompletenessLedger = DOMAIN manifests \cup DOMAIN Gold
  BY DEF CompletenessLedger
<1>2. \A key \in DOMAIN CompletenessLedger : CompletenessLedger[key] = Status(key, manifests, Gold, now)
  BY DEF CompletenessLedger
<1>3. ASSUME NEW key \in DOMAIN Gold PROVE key \in Windows
  <2>1. PICK r \in silver : Window(r) = key
    BY DEF Gold
  <2>2. r.id \in Ids /\ Bucket(Canonical[r.id]) = key
    BY <2>1, SilverRowIs
  <2> QED
    BY <2>2 DEF TruthInv, Windows
<1>4. DOMAIN manifests \subseteq Windows
  BY DEF LakeInv, Windows
<1> QED
  BY <1>1, <1>2, <1>3, <1>4, StatusIs

LEMMA LedgerHolds ==
    ASSUME WarehouseInv, [Next]_vars
    PROVE  LedgerInv'
<1>1. TruthInv /\ LakeInv /\ SilverInv /\ LedgerInv
  BY DEF WarehouseInv
<1>2. UNCHANGED <<extra, corrupt, truth>>
  BY BronzeGrows
<1>3. Windows' = Windows /\ \A key : Exact(key)' <=> Exact(key)
  BY <1>1, <1>2, TruthStays
<1>4. SUFFICES /\ DOMAIN ledger' \subseteq Windows /\ \A key \in DOMAIN ledger' : ledger'[key] \in Verdicts
               /\ \A key \in Windows :
                     key \in DOMAIN ledger' /\ ledger'[key] = "reconciled" /\ Exact(key) => Settled(key)
  BY <1>3, SettledStays DEF LedgerInv, Reconciled
<1>5. CASE UNCHANGED ledger
  BY <1>1, <1>5 DEF LedgerInv, Reconciled
<1>6. CASE BuildLedger
  <2>1. ledger' = CompletenessLedger
    BY <1>6 DEF BuildLedger
  <2> QED
    BY <1>1, <2>1, NewLedger, ReconciledIffSettled
<1> QED
  BY <1>5, <1>6 DEF Next, Land, Lose, WriteManifests, BuildSilver, Tick, vars

LEMMA StepHolds ==
    ASSUME WarehouseInv, [Next]_vars
    PROVE  WarehouseInv'
<1>1. TruthInv'
  BY BronzeGrows, TruthStays DEF WarehouseInv
<1>2. LakeInv' /\ SilverInv' /\ LedgerInv'
  BY ManifestsGrow, SilverGrows, LedgerHolds
<1> QED
  BY <1>1, <1>2 DEF WarehouseInv

LEMMA WarehouseAlways == Spec => []WarehouseInv
<1>1. WarehouseInv /\ [Next]_vars => WarehouseInv'
  BY StepHolds
<1> QED
  BY <1>1, InitHolds, PTL DEF Spec

-----------------------------------------------------------------------------
(* What the ledger promises *)

LEMMA LossIsVisibleFollows == WarehouseInv => LossIsVisible
BY SettledHasLanded DEF WarehouseInv, LedgerInv, LossIsVisible

\* A reconciled window has lost nothing: each of its observable events is in bronze
\* (completeness_ledger.sql:58-60).
THEOREM LossShows == Spec => []LossIsVisible
BY WarehouseAlways, LossIsVisibleFollows, PTL

LEMMA CompleteFollows == WarehouseInv => CompleteLakeReconciles
<1> SUFFICES ASSUME WarehouseInv, NEW key \in Windows, key \in DOMAIN manifests,
                    Exact(key), HasObservable(key),
                    \A id \in EventsOf(key) : Observable(id) => InSilver(id)
             PROVE  CompletenessLedger[key] = "reconciled"
  BY DEF CompleteLakeReconciles
<1>1. Settled(key)
  BY DEF Settled
<1> QED
  BY <1>1, ReconciledIffSettled DEF WarehouseInv

\* A window that is complete is found complete, whatever was copied, delivered again,
\* out of order or in another version (completeness_ledger.sql:86-106).
THEOREM CompleteReconciles == Spec => []CompleteLakeReconciles
BY WarehouseAlways, CompleteFollows, PTL

LEMMA CycleFactsFollow == WarehouseInv => CycleFactsAreUnits
<1> SUFFICES ASSUME WarehouseInv PROVE CycleFactsAreUnits
  OBVIOUS
<1>1. TruthInv /\ LakeInv /\ SilverInv
  BY DEF WarehouseInv
<1>2. ASSUME NEW f \in FctCycles
      PROVE  /\ \A g \in FctCycles : g.cycle_key = f.cycle_key => g = f
             /\ f.window = Bucket(Canonical[f.cycle_key])
             /\ f.operator_badge = "badge" /\ f.duration_s = Seconds
  <2>1. PICK r \in silver :
           /\ r.type = "cycle"
           /\ f = [cycle_key |-> r.id, window |-> Window(r), landing |-> r.landing,
                   duration_s |-> r.duration_s, operator_badge |-> r.operator_badge]
    BY DEF FctCycles, OfType
  <2>2. f.cycle_key = r.id /\ f.window = Bucket(Canonical[r.id])
        /\ f.operator_badge = "badge" /\ f.duration_s = Seconds
    BY <1>1, <2>1, SilverRowIs
  <2>3. ASSUME NEW g \in FctCycles, g.cycle_key = f.cycle_key PROVE g = f
    <3>1. PICK s \in silver :
             g = [cycle_key |-> s.id, window |-> Window(s), landing |-> s.landing,
                  duration_s |-> s.duration_s, operator_badge |-> s.operator_badge]
      BY DEF FctCycles, OfType
    <3>2. s.id = r.id
      BY <2>2, <2>3, <3>1
    <3>3. s = r
      BY <1>1, <3>2 DEF SilverInv
    <3> QED
      BY <2>1, <3>1, <3>3
  <2> QED
    BY <2>2, <2>3
<1> QED
  BY <1>2 DEF CycleFactsAreUnits

\* A cycle fact is a completed unit, under the key, the window, the operator and the
\* seconds of its first version (fct_cycles.sql:3-7).
THEOREM FactsAreUnits == Spec => []CycleFactsAreUnits
BY WarehouseAlways, CycleFactsFollow, PTL

LEMMA FinalStep ==
    WarehouseInv /\ [Next]_vars
      => [\A key \in Windows : Reconciled(key) /\ Exact(key) => Reconciled(key)']_vars
<1> SUFFICES ASSUME WarehouseInv, [Next]_vars, NEW key \in Windows, Reconciled(key), Exact(key)
             PROVE  key \in DOMAIN ledger' /\ ledger'[key] = "reconciled"
  BY DEF Reconciled
<1>1. CASE UNCHANGED ledger
  BY <1>1 DEF Reconciled
<1>2. CASE BuildLedger
  <2>1. ledger' = CompletenessLedger
    BY <1>2 DEF BuildLedger
  <2>2. Settled(key)
    BY DEF WarehouseInv, LedgerInv
  <2> QED
    BY <2>1, <2>2, ReconciledIffSettled DEF WarehouseInv
<1> QED
  BY <1>1, <1>2 DEF Next, Land, Lose, WriteManifests, BuildSilver, Tick, vars

\* No later copy, delivery or build takes a reconciled verdict back.
THEOREM VerdictIsFinal == Spec => ReconciledIsFinal
BY WarehouseAlways, FinalStep, PTL DEF Spec, ReconciledIsFinal

-----------------------------------------------------------------------------
(* The page *)

\* A ledger tells the truth: its reconciled windows have lost nothing.
LEMMA LedgerIsTruthful ==
    ASSUME WarehouseInv
    PROVE  Truthful(ledger)
<1>1. IsFiniteSet(Windows)
  <2>1. Windows = {Bucket(Canonical[id]) : id \in Ids}
    BY DEF WarehouseInv, TruthInv, Windows
  <2>2. PICK window : window = [id \in Ids |-> Bucket(Canonical[id])]
    OBVIOUS
  <2>3. window \in Surjection(Ids, Windows)
    BY <2>1, <2>2 DEF Surjection
  <2> QED
    BY <2>3, FiniteIds, FS_Surjection
<1>2. DOMAIN ledger \subseteq Windows /\ \A key \in DOMAIN ledger : ledger[key] \in Verdicts
  BY DEF WarehouseInv, LedgerInv
<1>3. IsFiniteSet(DOMAIN ledger)
  BY <1>1, <1>2, FS_Subset
<1>4. ASSUME NEW key \in DOMAIN ledger, ledger[key] = "reconciled", Exact(key)
      PROVE  \A id \in EventsOf(key) : Observable(id) => HasLanded(id)
  <2>1. key \in Windows /\ Reconciled(key)
    BY <1>2, <1>4 DEF Reconciled
  <2>2. LossIsVisible
    BY LossIsVisibleFollows
  <2> QED
    BY <1>4, <2>1, <2>2 DEF LossIsVisible
<1> QED
  BY <1>2, <1>3, <1>4 DEF Truthful

\* And what was true of an answer stays true while the warehouse goes on.
LEMMA LandedStays ==
    ASSUME WarehouseInv, [Next]_vars, NEW key
    PROVE  /\ Exact(key)' <=> Exact(key)
           /\ (\A id \in EventsOf(key) : Observable(id) => HasLanded(id))
                => (\A id \in EventsOf(key) : Observable(id) => HasLanded(id))'
<1>1. TruthInv /\ UNCHANGED <<extra, corrupt, truth>> /\ \A id : HasLanded(id) => HasLanded(id)'
  BY BronzeGrows DEF WarehouseInv
<1>2. (Exact(key)' <=> Exact(key)) /\ \A id : Observable(id)' <=> Observable(id)
  BY <1>1, TruthStays
<1> QED
  BY <1>1, <1>2

LEMMA TruthfulStays ==
    ASSUME WarehouseInv, [Next]_vars, NEW statuses, Truthful(statuses)
    PROVE  Truthful(statuses)'
<1>1. IsFiniteSet(DOMAIN statuses) /\ \A key \in DOMAIN statuses : statuses[key] \in Verdicts
  BY DEF Truthful
<1>2. ASSUME NEW key \in DOMAIN statuses, statuses[key] = "reconciled", Exact(key)'
      PROVE  (\A id \in EventsOf(key) : Observable(id) => HasLanded(id))'
  BY <1>2, LandedStays DEF Truthful
<1> QED
  BY <1>1, <1>2 DEF Truthful, Verdicts

\* Nothing broken and nothing pending: everything counted is reconciled.
LEMMA AllReconciled ==
    ASSUME NEW statuses, IsFiniteSet(DOMAIN statuses),
           \A key \in DOMAIN statuses : statuses[key] \in Verdicts,
           Verdict(statuses) = "good", CountOf(statuses, "pending") = 0
    PROVE  \A key \in DOMAIN statuses : statuses[key] = "reconciled"
<1>1. ASSUME NEW status, CountOf(statuses, status) = 0
      PROVE  \A key \in DOMAIN statuses : statuses[key] # status
  <2>1. PICK S : S = {key \in DOMAIN statuses : statuses[key] = status}
    OBVIOUS
  <2>2. IsFiniteSet(S) /\ Cardinality(S) = 0
    BY <1>1, <2>1, FS_Subset DEF CountOf
  <2>3. S = {}
    BY <2>2, FS_EmptySet
  <2> QED
    BY <2>1, <2>3
<1>2. CountOf(statuses, "broken") = 0
  <2>1. PICK S : S = {key \in DOMAIN statuses : statuses[key] = "broken"}
    OBVIOUS
  <2>2. Cardinality(S) \in Nat
    BY <2>1, FS_Subset, FS_CardinalityType
  <2>3. ~(Cardinality(S) > 0)
    BY <2>1 DEF Verdict, CountOf
  <2> QED
    BY <2>1, <2>2, <2>3 DEF CountOf
<1>3. \A key \in DOMAIN statuses : statuses[key] # "broken" /\ statuses[key] # "pending"
  BY <1>1, <1>2
<1> QED
  BY <1>3 DEF Verdicts

LEMMA PageMoves ==
    ASSUME [NextPage]_allVars
    PROVE  [Next]_vars
BY DEF NextPage, allVars, QuerySummary, QueryRaises, Render, vars

LEMMA PageHolds ==
    ASSUME WarehouseInv, PageInv, [NextPage]_allVars
    PROVE  PageInv'
<1>1. [Next]_vars
  BY PageMoves
<1>2. answer' # Nothing => Truthful(answer)'
  <2>1. SUFFICES ASSUME answer' # Nothing PROVE Truthful(answer)'
    OBVIOUS
  <2>2. PICK statuses : statuses = answer'
    OBVIOUS
  <2>3. Truthful(statuses)
    <3>1. CASE answer' = answer
      BY <2>1, <2>2, <3>1 DEF PageInv
    <3>2. CASE QuerySummary
      BY <2>2, <3>2, LedgerIsTruthful DEF QuerySummary
    <3> QED
      BY <2>1, <3>1, <3>2 DEF NextPage, allVars, pageVars, QueryRaises, Render
  <2>4. Truthful(statuses)'
    BY <1>1, <2>3, TruthfulStays
  <2> QED
    BY <2>2, <2>4 DEF Truthful, Verdicts
<1>3. GreenPageIsTrue'
  <2>1. SUFFICES ASSUME page'.verdict = "good", page'.pending = 0, NEW key \in page'.counted, Exact(key)
                 PROVE  \A id \in EventsOf(key) : Observable(id) => HasLanded(id)
    BY <1>1, LandedStays DEF GreenPageIsTrue
  <2>2. CASE page' = page
    BY <2>1, <2>2 DEF PageInv, GreenPageIsTrue
  <2>3. CASE Render
    <3>1. Truthful(answer)
      BY <2>3 DEF Render, PageInv
    <3>2. Verdict(answer) = "good" /\ CountOf(answer, "pending") = 0 /\ key \in DOMAIN answer
      BY <2>1, <2>3 DEF Render
    <3>3. answer[key] = "reconciled"
      BY <3>1, <3>2, AllReconciled DEF Truthful
    <3> QED
      BY <2>1, <3>1, <3>2, <3>3 DEF Truthful
  <2> QED
    BY <2>2, <2>3 DEF NextPage, allVars, pageVars, QuerySummary, QueryRaises
<1> QED
  BY <1>2, <1>3 DEF PageInv

LEMMA PageAlways == SpecPage => [](WarehouseInv /\ PageInv)
<1>1. InitPage => WarehouseInv /\ PageInv
  <2>1. InitPage => WarehouseInv
    BY InitHolds DEF InitPage
  <2>2. InitPage => PageInv
    BY DEF InitPage, PageInv, GreenPageIsTrue
  <2> QED
    BY <2>1, <2>2
<1>2. WarehouseInv /\ PageInv /\ [NextPage]_allVars => (WarehouseInv /\ PageInv)'
  BY PageMoves, StepHolds, PageHolds
<1> QED
  BY <1>1, <1>2, PTL DEF SpecPage

\* The warehouse behind the page is the warehouse: what holds of it holds here.
THEOREM PageRefinesWarehouse == SpecPage => Spec
<1>1. InitPage => Init
  BY DEF InitPage
<1>2. [NextPage]_allVars => [Next]_vars
  BY PageMoves
<1> QED
  BY <1>1, <1>2, PTL DEF SpecPage, Spec

\* A green page without pending windows is true when it is published and stays so:
\* every observable event of the exact windows it counted is in bronze
\* (build_status_page.py:3-5).
THEOREM GreenIsTrue == SpecPage => []GreenPageIsTrue
BY PageAlways, PTL DEF PageInv

=============================================================================
