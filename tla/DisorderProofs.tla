--------------------------- MODULE DisorderProofs ---------------------------
(***************************************************************************)
(* Proofs for Disorder: the injector's ground truth is exact, for every    *)
(* stream of the simulator and every draw of the generator.                *)
(***************************************************************************)
EXTENDS DisorderProps, FiniteSetTheorems, NaturalsInduction, WellFoundedInduction,
        SequenceTheorems, TLAPS

-----------------------------------------------------------------------------
(* Numbers and sums *)

LEMMA Least ==
    ASSUME NEW T, T \subseteq Nat, T # {}
    PROVE  \E x \in T : \A y \in T : x <= y
<1> DEFINE Below == OpToRel(<, Nat)
<1>1. IsWellFoundedOn(Below, Nat)
  BY NatLessThanWellFounded
<1>2. \A x, y \in Nat : y < x => <<y, x>> \in Below
  BY DEF OpToRel
<1> HIDE DEF Below
<1>3. PICK x \in T : \A y \in T : <<y, x>> \notin Below
  BY <1>1, WFMin
<1>4. ASSUME NEW y \in T PROVE x <= y
  <2>1. x \in Nat /\ y \in Nat
    OBVIOUS
  <2>2. ~(y < x)
    BY <1>2, <1>3, <2>1
  <2> QED
    BY <2>1, <2>2
<1> QED
  BY <1>4

\* How SumFunction sums: an element after the other, each picked from those that are left.
Pick(s) == CHOOSE x \in s : TRUE
Sums(it, f) ==
    it = [s \in SUBSET DOMAIN f |-> IF s = {} THEN 0 ELSE f[Pick(s)] + it[s \ {Pick(s)}]]

LEMMA SumUnfolds ==
    ASSUME NEW f
    PROVE  SumFunction(f) = (CHOOSE it : Sums(it, f))[DOMAIN f]
BY DEF SumFunction, SumFunctionOnSet, FoldFunctionOnSet, MapThenFoldSet, Sums, Pick

\* The sum of a function that is the same everywhere.
LEMMA SumOfConstant ==
    ASSUME NEW f, IsFiniteSet(DOMAIN f), NEW c \in Nat, \A x \in DOMAIN f : f[x] = c
    PROVE  SumFunction(f) = c * Cardinality(DOMAIN f)
<1>1. ASSUME NEW s \in SUBSET DOMAIN f, s # {}
      PROVE  /\ Pick(s) \in s /\ s \ {Pick(s)} \in SUBSET DOMAIN f
             /\ Cardinality(s) \in Nat /\ Cardinality(s \ {Pick(s)}) = Cardinality(s) - 1
             /\ Cardinality(s) # 0
  <2>1. IsFiniteSet(s) /\ Cardinality(s) \in Nat /\ Cardinality(s) # 0
    BY <1>1, FS_Subset, FS_CardinalityType, FS_EmptySet
  <2>2. Pick(s) \in s
    BY <1>1 DEF Pick
  <2>3. Cardinality(s \ {Pick(s)}) = Cardinality(s) - 1
    BY <2>1, <2>2, FS_RemoveElement
  <2> QED
    BY <2>1, <2>2, <2>3
<1>2. PICK g : g = [s \in SUBSET DOMAIN f |-> c * Cardinality(s)]
  OBVIOUS
<1>3. Sums(g, f)
  <2>1. ASSUME NEW s \in SUBSET DOMAIN f
        PROVE  g[s] = IF s = {} THEN 0 ELSE f[Pick(s)] + g[s \ {Pick(s)}]
    <3>1. CASE s = {}
      BY <3>1, <1>2, FS_EmptySet
    <3>2. CASE s # {}
      <4>1. g[s] = c * Cardinality(s) /\ g[s \ {Pick(s)}] = c * (Cardinality(s) - 1)
        BY <3>2, <1>1, <1>2
      <4>2. f[Pick(s)] = c /\ Cardinality(s) \in Nat
        BY <3>2, <1>1
      <4>3. c * Cardinality(s) = c + c * (Cardinality(s) - 1)
        BY <4>2
      <4> QED
        BY <3>2, <4>1, <4>2, <4>3
    <3> QED
      BY <3>1, <3>2
  <2> QED
    BY <2>1, <1>2 DEF Sums
<1>4. PICK it : it = (CHOOSE h : Sums(h, f)) /\ Sums(it, f)
  BY <1>3
<1>5. \A s \in SUBSET DOMAIN f : it[s] = IF s = {} THEN 0 ELSE f[Pick(s)] + it[s \ {Pick(s)}]
  BY <1>4 DEF Sums
<1> DEFINE Wrong == {Cardinality(s) : s \in {t \in SUBSET DOMAIN f : it[t] # c * Cardinality(t)}}
<1>6. Wrong = {}
  <2>1. SUFFICES ASSUME Wrong # {} PROVE FALSE
    OBVIOUS
  <2>2. Wrong \subseteq Nat
    BY FS_Subset, FS_CardinalityType
  <2>3. PICK n \in Wrong : \A m \in Wrong : n <= m
    BY <2>1, <2>2, Least
  <2>4. PICK s \in SUBSET DOMAIN f : Cardinality(s) = n /\ it[s] # c * Cardinality(s)
    BY <2>3
  <2>5. s # {}
    <3>1. it[{}] = 0
      BY <1>5
    <3>2. Cardinality({}) = 0 /\ c * 0 = 0
      BY FS_EmptySet
    <3> QED
      BY <3>1, <3>2, <2>4
  <2>6. PICK k \in Nat : k = Cardinality(s) - 1 /\ Cardinality(s \ {Pick(s)}) = k
    BY <2>5, <1>1
  <2>7. s \ {Pick(s)} \in SUBSET DOMAIN f /\ f[Pick(s)] = c
    BY <2>5, <1>1
  <2>8. k \notin Wrong
    <3>1. n \in Nat /\ k = n - 1
      BY <2>2, <2>4, <2>6
    <3>2. ~(n <= k)
      BY <3>1
    <3> HIDE DEF Wrong
    <3> QED
      BY <2>3, <3>2
  <2>9. it[s \ {Pick(s)}] = c * k
    BY <2>6, <2>7, <2>8
  <2>10. it[s] = c + c * k
    BY <1>5, <2>5, <2>7, <2>9
  <2>11. c + c * k = c * (k + 1) /\ Cardinality(s) = k + 1
    BY <2>6, <2>5, <1>1
  <2> QED
    BY <2>4, <2>10, <2>11
<1>7. it[DOMAIN f] = c * Cardinality(DOMAIN f)
  BY <1>6
<1> QED
  BY <1>4, <1>7, SumUnfolds

\* Records that carry the identifiers of a finite set, one record each, are as many.
LEMMA Tally ==
    ASSUME NEW I, IsFiniteSet(I), NEW F,
           \A e \in F : e.id \in I,
           \A i \in I : \E e \in F : e.id = i,
           \A e, g \in F : e.id = g.id => e = g
    PROVE  IsFiniteSet(F) /\ Cardinality(F) = Cardinality(I)
<1>1. PICK name : name = [e \in F |-> e.id]
  OBVIOUS
<1>2. name \in Injection(F, I)
  BY <1>1 DEF Injection, IsInjective
<1>3. name \in Surjection(F, I)
  BY <1>1 DEF Surjection
<1> QED
  BY <1>2, <1>3, FS_Injection

-----------------------------------------------------------------------------
(* The inductive invariant *)

\* An event is what the simulator made of its id, but for the two times and the
\* version; the payload goes with the version.
PayloadAs(type, version) ==
    LET new == NewPayload(type, Seconds, "badge")
    IN  CASE version = SCHEMA_V1 -> new
          [] version = SCHEMA_V2 -> ToV2(new, type)
          [] version = SCHEMA_V3 -> ToV3(new, type)
Event(id, time, publish, version) ==
    [id |-> id, machine |-> MachineOf[id], type |-> TypeOf[id], time |-> time,
     publish |-> publish, version |-> version, payload |-> PayloadAs(TypeOf[id], version)]
EventSet == {Event(id, t, p, v) : id \in Ids, t \in Int, p \in Int, v \in 1..3}
RecordSet == [machine : Machines, event : EventSet, readable : BOOLEAN]

\* Every event of the run, once.
Stream(w) ==
    /\ w \in Seq(EventSet)
    /\ \A i, j \in DOMAIN w : w[i].id = w[j].id => i = j
    /\ \A id \in Ids : \E i \in DOMAIN w : w[i].id = id

\* No later event has an older version.
InOrderOfTime(events) == \A e, f \in events : e.time < f.time => e.version <= f.version

\* What transport makes of an event of a set.
From(e, events) ==
    \E c \in events : c.id = e.id /\ c.time = e.time /\ c.version = e.version /\ c.publish <= e.publish

CopiesIn(rs, id) == {i \in DOMAIN rs : rs[i].event.id = id}
\* An event was published and more times again, the original before its copies.
PublishedAs(rs, id, more) ==
    /\ Cardinality(CopiesIn(rs, id)) = 1 + more
    /\ \E original \in CopiesIn(rs, id) : \A i \in CopiesIn(rs, id) \ {original} :
          rs[original].event.publish < rs[i].event.publish
CorruptIn(rs) == {rs[i].event.id : i \in {j \in DOMAIN rs : ~rs[j].readable}}

Publishing == {"duplicate", "corrupt", "done"}
Snapped == {"late", "out_of_order"} \cup Publishing

StreamInv == /\ stage \in {"skew", "drift", "snapshot"} \cup Snapped
             /\ cursor \in Nat \ {0}
             /\ Stream(working)

VersionInv == /\ stage \in {"skew", "drift"} => \A i \in DOMAIN working : working[i].version = 1
              /\ stage = "snapshot" => InOrderOfTime(Range(working))

CanonicalInv ==
    /\ canonical \subseteq EventSet /\ InOrderOfTime(canonical)
    /\ \A e, f \in canonical : e.id = f.id => e = f
    /\ stage \notin Snapped => canonical = {}
    /\ stage \in Snapped => \A i \in DOMAIN working : From(working[i], canonical)

LogInv == /\ DOMAIN log = DOMAIN NoInjections
          /\ stage \notin Publishing => DOMAIN log.duplicated = {}
          /\ log.corrupt = CorruptIn(records)

RecordInv ==
    /\ records \in Seq(RecordSet)
    /\ stage \notin Publishing => records = <<>>
    /\ stage \notin {"corrupt", "done"} => \A i \in DOMAIN records : records[i].readable
    /\ \A i \in DOMAIN records : /\ From(records[i].event, canonical)
                                 /\ records[i].machine = MachineOf[records[i].event.id]

\* The event under the cursor, and those after it, are not published yet.
CopiesInv ==
    stage \in Publishing =>
       \A j \in DOMAIN working :
          LET id == working[j].id
          IN  IF stage = "duplicate" /\ j >= cursor
              THEN CopiesIn(records, id) = {} /\ id \notin DOMAIN log.duplicated
              ELSE PublishedAs(records, id, ExtraCopies(log, id))

ManifestInv == stage = "done" => manifest = BuildManifest(canonical, log)

Inv == StreamInv /\ VersionInv /\ CanonicalInv /\ LogInv /\ RecordInv /\ CopiesInv /\ ManifestInv

-----------------------------------------------------------------------------
(* Events, and what happens to them *)

LEMMA EventFields ==
    ASSUME NEW id, NEW t, NEW p, NEW v, NEW e, e = Event(id, t, p, v)
    PROVE  /\ e.id = id /\ e.machine = MachineOf[id] /\ e.type = TypeOf[id]
           /\ e.time = t /\ e.publish = p /\ e.version = v /\ e.payload = PayloadAs(TypeOf[id], v)
BY DEF Event

LEMMA EventsAre ==
    ASSUME NEW e \in EventSet
    PROVE  /\ e.id \in Ids /\ e.time \in Int /\ e.publish \in Int /\ e.version \in 1..3
           /\ e = Event(e.id, e.time, e.publish, e.version)
           /\ e.machine = MachineOf[e.id] /\ e.type = TypeOf[e.id]
           /\ e.payload = PayloadAs(TypeOf[e.id], e.version)
<1>1. PICK id \in Ids, t \in Int, p \in Int, v \in 1..3 : e = Event(id, t, p, v)
  BY DEF EventSet
<1> QED
  BY <1>1, EventFields

LEMMA EventIs ==
    ASSUME NEW id \in Ids, NEW t \in Int, NEW p \in Int, NEW v \in 1..3
    PROVE  Event(id, t, p, v) \in EventSet
BY DEF EventSet

\* The clock of the machine moves one time, the transport the other.
LEMMA Retimed ==
    ASSUME NEW e \in EventSet, NEW t \in Int, NEW f, f = [e EXCEPT !.time = t]
    PROVE  /\ f \in EventSet /\ f.id = e.id /\ f.time = t /\ f.publish = e.publish
           /\ f.version = e.version
<1>1. f = Event(e.id, t, e.publish, e.version)
  BY EventsAre DEF Event
<1> QED
  BY <1>1, EventsAre, EventIs, EventFields

LEMMA DelayedIs ==
    ASSUME NEW e \in EventSet, NEW by \in Nat, NEW f, f = Delayed(e, by)
    PROVE  /\ f \in EventSet /\ f.id = e.id /\ f.time = e.time /\ f.publish = e.publish + by
           /\ f.version = e.version /\ f.machine = MachineOf[e.id]
<1>1. PICK p \in Int : p = e.publish + by
  BY EventsAre
<1>2. f = Event(e.id, e.time, p, e.version)
  BY <1>1, EventsAre DEF Event, Delayed
<1> QED
  BY <1>1, <1>2, EventsAre, EventIs, EventFields

\* A payload that has the field already is not changed by giving it its own value.
LEMMA WithItself ==
    ASSUME NEW q, q = [f \in DOMAIN q |-> q[f]], NEW field, field \in DOMAIN q
    PROVE  With(q, field, q[field]) = q
<1>1. DOMAIN q \cup {field} = DOMAIN q
  OBVIOUS
<1>2. With(q, field, q[field]) = [f \in DOMAIN q |-> q[f]]
  BY <1>1 DEF With
<1> QED
  BY <1>2

\* to_v2 of a v2 payload changes nothing, so to_v3 is the same from v1 and from v2.
LEMMA ToV2Once ==
    ASSUME NEW p, NEW type, NEW q, q = ToV2(p, type)
    PROVE  ToV2(q, type) = q
<1>1. PICK o : o = With(p, "line_id", IF Has(p, "line_id") THEN p["line_id"] ELSE "")
  OBVIOUS
<1>2. o = [f \in DOMAIN o |-> o[f]] /\ "line_id" \in DOMAIN o
  BY <1>1 DEF With
<1>3. CASE type = "cycle" /\ Has(o, "operator")
  <2>1. q = With(Without(o, "operator"), "operator_badge", o["operator"])
    BY <1>1, <1>3 DEF ToV2
  <2>2. DOMAIN q = (DOMAIN o \ {"operator"}) \cup {"operator_badge"}
    BY <2>1 DEF With, Without
  <2>3. "operator" \notin DOMAIN q /\ "line_id" \in DOMAIN q
    BY <1>2, <2>2
  <2>4. q = [f \in DOMAIN q |-> q[f]]
    BY <2>1 DEF With
  <2>5. With(q, "line_id", q["line_id"]) = q
    BY <2>3, <2>4, WithItself
  <2> QED
    BY <2>3, <2>5 DEF ToV2, Has
<1>4. CASE ~(type = "cycle" /\ Has(o, "operator"))
  <2>1. q = o
    BY <1>1, <1>4 DEF ToV2
  <2>2. With(q, "line_id", q["line_id"]) = q
    BY <1>2, <2>1, WithItself
  <2> QED
    BY <1>2, <1>4, <2>1, <2>2 DEF ToV2, Has
<1> QED
  BY <1>3, <1>4

LEMMA UpgradedIs ==
    ASSUME NEW e \in EventSet, NEW v, NEW f, f = Upgraded(e, v),
           \/ v = SCHEMA_V2 /\ e.version = SCHEMA_V1
           \/ v = SCHEMA_V3 /\ e.version \in {SCHEMA_V1, SCHEMA_V2}
    PROVE  /\ f \in EventSet /\ f.id = e.id /\ f.time = e.time /\ f.publish = e.publish
           /\ f.version = v
<1>1. PICK new : new = NewPayload(TypeOf[e.id], Seconds, "badge")
  OBVIOUS
<1>2. /\ PayloadAs(TypeOf[e.id], 1) = new
      /\ PayloadAs(TypeOf[e.id], 2) = ToV2(new, TypeOf[e.id])
      /\ PayloadAs(TypeOf[e.id], 3) = ToV3(new, TypeOf[e.id])
  BY <1>1 DEF PayloadAs, SCHEMA_V1, SCHEMA_V2, SCHEMA_V3
<1>3. PICK p : p = IF v = SCHEMA_V2 THEN ToV2(e.payload, e.type) ELSE ToV3(e.payload, e.type)
  OBVIOUS
<1>4. p = PayloadAs(TypeOf[e.id], v)
  <2>1. ToV3(ToV2(new, TypeOf[e.id]), TypeOf[e.id]) = ToV3(new, TypeOf[e.id])
    BY ToV2Once DEF ToV3
  <2> QED
    BY <1>2, <1>3, <2>1, EventsAre DEF SCHEMA_V1, SCHEMA_V2, SCHEMA_V3
<1>5. v \in 1..3
  BY DEF SCHEMA_V2, SCHEMA_V3
<1>6. f = [e EXCEPT !.version = v, !.payload = p]
  BY <1>3 DEF Upgraded
<1>7. f = Event(e.id, e.time, e.publish, v)
  BY <1>4, <1>6, EventsAre DEF Event
<1> QED
  BY <1>5, <1>7, EventsAre, EventIs, EventFields

LEMMA PayloadsAgree ==
    ASSUME NEW e \in EventSet
    PROVE  e.payload = PayloadOf(e)
BY EventsAre DEF PayloadOf, PayloadAs

-----------------------------------------------------------------------------
(* Streams *)

LEMMA StreamSeq ==
    ASSUME NEW w, Stream(w)
    PROVE  /\ DOMAIN w = 1..Len(w) /\ Len(w) \in Nat
           /\ \A i \in DOMAIN w : w[i] \in EventSet
BY LenProperties, ElementOfSeq DEF Stream

LEMMA SeqOf ==
    ASSUME NEW S, NEW n \in Nat, NEW w \in [1..n -> S]
    PROVE  w \in Seq(S)
BY SeqDef

\* A stage that changes events in place keeps the stream of them.
LEMMA InPlace ==
    ASSUME NEW w, Stream(w), NEW x, DOMAIN x = DOMAIN w, x = [i \in DOMAIN w |-> x[i]],
           \A i \in DOMAIN w : x[i] \in EventSet /\ x[i].id = w[i].id
    PROVE  Stream(x)
<1>1. x \in Seq(EventSet)
  BY StreamSeq, SeqOf
<1> QED
  BY <1>1 DEF Stream

\* One that only moves them keeps it too.
LEMMA Rearranged ==
    ASSUME NEW w, Stream(w), NEW place \in Bijection(DOMAIN w, DOMAIN w),
           NEW x, x = [i \in DOMAIN w |-> w[place[i]]]
    PROVE  Stream(x) /\ \A i \in DOMAIN x : \E j \in DOMAIN w : x[i] = w[j]
<1>1. /\ \A i \in DOMAIN w : place[i] \in DOMAIN w
      /\ \A i, j \in DOMAIN w : place[i] = place[j] => i = j
      /\ \A j \in DOMAIN w : \E i \in DOMAIN w : place[i] = j
  BY DEF Bijection, Injection, Surjection, IsInjective
<1>2. DOMAIN x = DOMAIN w /\ \A i \in DOMAIN w : x[i] = w[place[i]]
  OBVIOUS
<1>3. x \in Seq(EventSet)
  <2>1. \A i \in DOMAIN w : w[place[i]] \in EventSet
    BY <1>1, StreamSeq
  <2>2. x \in [1..Len(w) -> EventSet]
    BY <2>1, StreamSeq
  <2> QED
    BY <2>2, StreamSeq, SeqOf
<1>4. ASSUME NEW i \in DOMAIN x, NEW j \in DOMAIN x, x[i].id = x[j].id PROVE i = j
  <2>1. PICK k \in DOMAIN w, l \in DOMAIN w : k = place[i] /\ l = place[j]
    BY <1>1, <1>2
  <2>2. w[k].id = w[l].id
    BY <1>2, <1>4, <2>1
  <2>3. k = l
    BY <2>2 DEF Stream
  <2> QED
    BY <1>1, <1>2, <2>1, <2>3
<1>5. \A id \in Ids : \E i \in DOMAIN x : x[i].id = id
  <2>1. TAKE id \in Ids
  <2>2. PICK j \in DOMAIN w : w[j].id = id
    BY DEF Stream
  <2>3. PICK i \in DOMAIN w : place[i] = j
    BY <1>1
  <2> QED
    BY <1>2, <2>2, <2>3
<1> QED
  BY <1>1, <1>2, <1>3, <1>4, <1>5 DEF Stream

\* Two events of a stream change places.
LEMMA Swapped ==
    ASSUME NEW w, Stream(w), NEW a \in DOMAIN w, NEW b \in DOMAIN w,
           NEW x, x = [w EXCEPT ![a] = w[b], ![b] = w[a]]
    PROVE  Stream(x) /\ \A i \in DOMAIN x : \E j \in DOMAIN w : x[i] = w[j]
<1> DEFINE place == [i \in DOMAIN w |-> IF i = b THEN a ELSE IF i = a THEN b ELSE i]
<1>1. place \in Bijection(DOMAIN w, DOMAIN w)
  <2>1. place \in [DOMAIN w -> DOMAIN w]
    OBVIOUS
  <2>2. \A i, j \in DOMAIN w : place[i] = place[j] => i = j
    OBVIOUS
  <2>3. \A j \in DOMAIN w : place[place[j]] = j
    OBVIOUS
  <2> HIDE DEF place
  <2> QED
    BY <2>1, <2>2, <2>3 DEF Bijection, Injection, Surjection, IsInjective
<1>2. x = [i \in DOMAIN w |-> w[place[i]]]
  <2>1. w = [i \in DOMAIN w |-> w[i]]
    BY StreamSeq, LenProperties DEF Stream
  <2> QED
    BY <2>1
<1> HIDE DEF place
<1> QED
  BY <1>1, <1>2, Rearranged

\* What the simulator emits is a stream of first versions.
LEMMA CleanIsStream ==
    ASSUME NEW w \in CleanStreams
    PROVE  Stream(w) /\ \A i \in DOMAIN w : w[i].version = 1
<1>1. Cardinality(Ids) \in Nat
  BY DisorderAssumption, FS_CardinalityType
<1>2. ASSUME NEW id \in Ids PROVE NewEvent(id) = Event(id, TimeOf[id], TimeOf[id], 1)
  <2>1. PayloadAs(TypeOf[id], SCHEMA_V1) = NewPayload(TypeOf[id], Seconds, "badge")
    BY DEF PayloadAs, SCHEMA_V1, SCHEMA_V2, SCHEMA_V3
  <2> QED
    BY <2>1 DEF NewEvent, Event, SCHEMA_V1
<1>3. ASSUME NEW id \in Ids
      PROVE  NewEvent(id) \in EventSet /\ NewEvent(id).id = id /\ NewEvent(id).version = 1
  <2>1. TimeOf[id] \in Int /\ 1 \in 1..3
    BY DisorderAssumption
  <2> QED
    BY <1>2, <2>1, EventIs, EventFields
<1>4. /\ w \in [1..Cardinality(Ids) -> CleanEvents]
      /\ \A i, j \in DOMAIN w : w[i] = w[j] => i = j
      /\ \A e \in CleanEvents : \E i \in DOMAIN w : w[i] = e
  BY DEF CleanStreams, Bijection, Injection, Surjection, IsInjective
<1>5. \A i \in DOMAIN w : \E id \in Ids : w[i] = NewEvent(id)
  BY <1>4 DEF CleanEvents
<1>6. w \in Seq(EventSet)
  <2>1. w \in [1..Cardinality(Ids) -> EventSet]
    BY <1>3, <1>4, <1>5
  <2> QED
    BY <1>1, <2>1, SeqOf
<1>7. \A i, j \in DOMAIN w : w[i].id = w[j].id => i = j
  BY <1>3, <1>4, <1>5
<1>8. \A id \in Ids : \E i \in DOMAIN w : w[i].id = id
  BY <1>3, <1>4 DEF CleanEvents
<1> QED
  BY <1>3, <1>5, <1>6, <1>7, <1>8 DEF Stream

\* Ranks follow event time.
LEMMA RanksFollowTime ==
    ASSUME NEW i \in DOMAIN working, NEW j \in DOMAIN working, Stream(working),
           working[i].time < working[j].time
    PROVE  /\ Rank(i) \in Nat /\ Rank(j) \in Nat
           /\ Rank(i) <= Rank(j)
<1> DEFINE Up(k) == {l \in DOMAIN working :
                         \/ working[l].time < working[k].time
                         \/ working[l].time = working[k].time /\ l <= k}
<1>1. \A k \in DOMAIN working : working[k].time \in Int
  BY StreamSeq, EventsAre
<1>2. Up(i) \subseteq Up(j)
  BY <1>1
<1>3. IsFiniteSet(Up(j))
  <2>1. IsFiniteSet(1..Len(working))
    BY StreamSeq, FS_Interval
  <2>2. Up(j) \subseteq 1..Len(working)
    BY StreamSeq
  <2> QED
    BY <2>1, <2>2, FS_Subset
<1>4. Rank(i) = Cardinality(Up(i)) /\ Rank(j) = Cardinality(Up(j))
  BY DEF Rank
<1> HIDE DEF Up
<1> QED
  BY <1>2, <1>3, <1>4, FS_Subset, FS_CardinalityType

-----------------------------------------------------------------------------
(* The copies of an event *)

\* The publish list, and what one event adds to it: itself, and m copies.
Joined(all, rs, m, block) ==
    /\ rs \in Seq(RecordSet) /\ m \in Nat /\ block \in [1..(m + 1) -> RecordSet]
    /\ all = rs \o block

LEMMA CopiesOfAll ==
    ASSUME NEW rs, NEW m, NEW block, NEW all, Joined(all, rs, m, block)
    PROVE  /\ m \in Nat /\ all \in Seq(RecordSet) /\ DOMAIN all = 1..(Len(rs) + m + 1) /\ Len(rs) \in Nat
           /\ DOMAIN rs = 1..Len(rs)
           /\ \A i \in 1..Len(rs) : all[i] = rs[i]
           /\ \A i \in (Len(rs) + 1)..(Len(rs) + m + 1) : all[i] = block[i - Len(rs)]
<1>1. PICK n \in Nat : n = m + 1
  BY DEF Joined
<1>2. m \in Nat /\ rs \in Seq(RecordSet) /\ block \in [1..n -> RecordSet] /\ all = rs \o block
  BY <1>1 DEF Joined
<1>3. block \in Seq(RecordSet) /\ Len(block) = n
  <2>1. block \in Seq(RecordSet)
    BY <1>2, SeqOf
  <2>2. DOMAIN block = 1..n /\ DOMAIN block = 1..Len(block) /\ Len(block) \in Nat
    BY <1>2, <2>1, LenProperties
  <2> QED
    BY <2>1, <2>2
<1>4. /\ all \in Seq(RecordSet) /\ Len(all) = Len(rs) + n
      /\ \A i \in 1..(Len(rs) + n) :
            all[i] = IF i <= Len(rs) THEN rs[i] ELSE block[i - Len(rs)]
  BY <1>2, <1>3, ConcatProperties
<1>5. Len(rs) \in Nat /\ DOMAIN rs = 1..Len(rs) /\ DOMAIN all = 1..Len(all)
  BY <1>2, <1>4, LenProperties
<1> QED
  BY <1>1, <1>2, <1>4, <1>5

LEMMA PublishedAnew ==
    ASSUME NEW rs, NEW m \in Nat, NEW block, NEW all, Joined(all, rs, m, block),
           NEW id, CopiesIn(rs, id) = {},
           \A k \in 1..(m + 1) : block[k].event.id = id,
           \A k \in 2..(m + 1) : block[1].event.publish < block[k].event.publish
    PROVE  /\ PublishedAs(all, id, m)
           /\ \A other : other # id => CopiesIn(all, other) = CopiesIn(rs, other)
<1>1. PICK n \in Nat : n = Len(rs)
  BY CopiesOfAll
<1>2. /\ DOMAIN all = 1..(n + m + 1) /\ DOMAIN rs = 1..n
      /\ \A i \in 1..n : all[i] = rs[i]
      /\ \A i \in (n + 1)..(n + m + 1) : all[i] = block[i - n]
  BY <1>1, CopiesOfAll
<1>3. \A i \in (n + 1)..(n + m + 1) : i - n \in 1..(m + 1)
  BY <1>1
<1>4. \A i \in (n + 1)..(n + m + 1) : all[i].event.id = id
  BY <1>2, <1>3
<1>5. CopiesIn(all, id) = (n + 1)..(n + m + 1)
  <2>1. \A i \in 1..n : all[i].event.id # id
    BY <1>2 DEF CopiesIn
  <2>2. \A i \in 1..(n + m + 1) : i \in 1..n \/ i \in (n + 1)..(n + m + 1)
    BY <1>1
  <2>3. \A i \in (n + 1)..(n + m + 1) : i \in 1..(n + m + 1)
    BY <1>1
  <2> QED
    BY <1>2, <1>4, <2>1, <2>2, <2>3 DEF CopiesIn
<1>6. Cardinality((n + 1)..(n + m + 1)) = 1 + m
  <2>1. PICK a \in Int, b \in Int : a = n + 1 /\ b = n + m + 1
    BY <1>1
  <2>2. Cardinality(a..b) = IF a > b THEN 0 ELSE b - a + 1
    BY <2>1, FS_Interval
  <2> QED
    BY <1>1, <2>1, <2>2
<1>7. n + 1 \in (n + 1)..(n + m + 1) /\ all[n + 1] = block[1]
  BY <1>1, <1>2
<1>8. ASSUME NEW i \in (n + 1)..(n + m + 1), i # n + 1
      PROVE  all[n + 1].event.publish < all[i].event.publish
  <2>1. i - n \in 2..(m + 1) /\ all[i] = block[i - n]
    BY <1>1, <1>2, <1>8
  <2> QED
    BY <1>7, <2>1
<1>9. PublishedAs(all, id, m)
  BY <1>5, <1>6, <1>7, <1>8 DEF PublishedAs
<1>10. ASSUME NEW other, other # id PROVE CopiesIn(all, other) = CopiesIn(rs, other)
  <2>1. \A i \in 1..(n + m + 1) : i \in 1..n \/ i \in (n + 1)..(n + m + 1)
    BY <1>1
  <2>2. \A i \in 1..n : i \in 1..(n + m + 1)
    BY <1>1
  <2> QED
    BY <1>2, <1>4, <1>10, <2>1, <2>2 DEF CopiesIn
<1> QED
  BY <1>9, <1>10

\* Which copies an event has depends on the events alone.
LEMMA SameCopies ==
    ASSUME NEW rs, NEW ts, DOMAIN ts = DOMAIN rs, \A i \in DOMAIN rs : ts[i].event = rs[i].event,
           NEW id
    PROVE  /\ CopiesIn(ts, id) = CopiesIn(rs, id)
           /\ \A more : PublishedAs(rs, id, more) => PublishedAs(ts, id, more)
<1>1. CopiesIn(ts, id) = CopiesIn(rs, id)
  BY DEF CopiesIn
<1>2. \A i \in CopiesIn(rs, id) : ts[i].event = rs[i].event
  BY DEF CopiesIn
<1> QED
  BY <1>1, <1>2 DEF PublishedAs

\* An unaltered copy comes from where its event comes from, and so does a delayed one.
LEMMA FromHere ==
    ASSUME NEW C \in SUBSET EventSet, NEW e \in EventSet, From(e, C), NEW f \in EventSet,
           f.id = e.id, f.time = e.time, f.version = e.version, f.publish >= e.publish
    PROVE  From(f, C)
<1>1. PICK c \in C : c.id = e.id /\ c.time = e.time /\ c.version = e.version /\ c.publish <= e.publish
  BY DEF From
<1>2. c.publish \in Int /\ e.publish \in Int /\ f.publish \in Int
  BY EventsAre
<1>3. c.publish <= f.publish
  BY <1>1, <1>2
<1> QED
  BY <1>1, <1>3 DEF From

-----------------------------------------------------------------------------
(* The steps keep the invariant *)

LEMMA LogFields ==
    ASSUME DOMAIN log = DOMAIN NoInjections, NEW field, NEW value, Log(field, value)
    PROVE  /\ DOMAIN log' = DOMAIN NoInjections
           /\ field # "duplicated" => log'.duplicated = log.duplicated
           /\ field # "corrupt" => log'.corrupt = log.corrupt
           /\ field \in DOMAIN NoInjections => log'[field] = value
<1>1. {"duplicated", "corrupt"} \subseteq DOMAIN NoInjections
  BY DEF NoInjections
<1> QED
  BY <1>1 DEF Log

LEMMA InitInv ==
    ASSUME Init
    PROVE  Inv
<1>1. StreamInv /\ VersionInv
  BY CleanIsStream DEF Init, StreamInv, VersionInv
<1>2. CanonicalInv
  BY DEF Init, CanonicalInv, InOrderOfTime, Snapped, Publishing
<1>3. records \in Seq(RecordSet) /\ DOMAIN records = {}
  BY EmptySeq, LenProperties DEF Init
<1>4. LogInv
  BY <1>3 DEF Init, LogInv, NoInjections, CorruptIn
<1>5. RecordInv
  BY <1>3 DEF Init, RecordInv
<1>6. CopiesInv /\ ManifestInv
  BY DEF Init, CopiesInv, ManifestInv, Publishing
<1> QED
  BY <1>1, <1>2, <1>4, <1>5, <1>6 DEF Inv

\* Until the list is published, nothing but the log of the stage at hand is written.
LEMMA NothingPublished ==
    ASSUME LogInv, RecordInv, stage \notin Publishing, stage' \notin Publishing, records' = records,
           DOMAIN log' = DOMAIN NoInjections, log'.duplicated = log.duplicated,
           log'.corrupt = log.corrupt
    PROVE  LogInv' /\ RecordInv' /\ CopiesInv' /\ ManifestInv'
<1>1. records = <<>> /\ DOMAIN records = {}
  BY EmptySeq, LenProperties DEF RecordInv
<1>2. LogInv'
  BY DEF LogInv
<1>3. RecordInv'
  BY <1>1 DEF RecordInv
<1>4. CopiesInv' /\ ManifestInv'
  BY DEF CopiesInv, ManifestInv, Publishing
<1> QED
  BY <1>2, <1>3, <1>4

LEMMA SkewStep ==
    ASSUME Inv, ApplyClockSkew
    PROVE  Inv'
<1>1. stage = "skew" /\ stage' = "drift" /\ cursor' = 1
  BY DEF ApplyClockSkew, Enter
<1>2. /\ UNCHANGED <<canonical, records>>
      /\ \E value : Log("skewed", value)
  BY DEF ApplyClockSkew
<1>3. LogInv' /\ RecordInv' /\ CopiesInv' /\ ManifestInv'
  <2>1. DOMAIN log' = DOMAIN NoInjections /\ log'.duplicated = log.duplicated /\ log'.corrupt = log.corrupt
    BY <1>2, LogFields DEF Inv, LogInv
  <2> QED
    BY <1>1, <1>2, <2>1, NothingPublished DEF Inv, Publishing
<1>4. CanonicalInv'
  BY <1>1, <1>2 DEF Inv, CanonicalInv, InOrderOfTime, Snapped, Publishing
<1>5. PICK chosen, offset, wander :
         /\ chosen \subseteq {e.machine : e \in Range(working)}
         /\ offset \in [chosen -> SkewOffsets] /\ wander \in [Ids -> Wander]
         /\ working' = [i \in DOMAIN working |-> Skewed(working[i], offset, wander)]
  BY DEF ApplyClockSkew
<1>6. ASSUME NEW i \in DOMAIN working
      PROVE  working'[i] \in EventSet /\ working'[i].id = working[i].id /\ working'[i].version = 1
  <2>1. PICK e \in EventSet : e = working[i] /\ e.version = 1
    BY <1>1, StreamSeq DEF Inv, StreamInv, VersionInv
  <2>2. CASE e.machine \in chosen
    <3>1. PICK t \in Int : t = e.time + offset[e.machine] + wander[e.id]
      <4>1. offset[e.machine] \in SkewOffsets /\ wander[e.id] \in Wander /\ e.time \in Int
        BY <1>5, <2>2, EventsAre
      <4>2. offset[e.machine] \in Int /\ wander[e.id] \in Int
        BY <4>1, DisorderAssumption
      <4> QED
        BY <4>1, <4>2
    <3>2. working'[i] = [e EXCEPT !.time = t]
      BY <1>5, <2>1, <2>2, <3>1 DEF Skewed
    <3> QED
      BY <2>1, <3>2, Retimed
  <2>3. CASE e.machine \notin chosen
    BY <1>5, <2>1, <2>3 DEF Skewed
  <2> QED
    BY <2>2, <2>3
<1>7. Stream(working')
  <2>1. DOMAIN working' = DOMAIN working /\ working' = [i \in DOMAIN working |-> working'[i]]
    BY <1>5
  <2> QED
    BY <1>6, <2>1, InPlace DEF Inv, StreamInv
<1>8. StreamInv' /\ VersionInv'
  <2>1. DOMAIN working' = DOMAIN working
    BY <1>5
  <2> QED
    BY <1>1, <1>6, <1>7, <2>1 DEF StreamInv, VersionInv
<1> QED
  BY <1>3, <1>4, <1>8 DEF Inv

LEMMA DriftStep ==
    ASSUME Inv, ApplySchemaDrift
    PROVE  Inv'
<1>1. stage = "drift" /\ stage' = "snapshot" /\ cursor' = 1 /\ UNCHANGED <<canonical, records>>
  BY DEF ApplySchemaDrift, Enter
<1>2. PICK cut \in DriftCuts, cut3 \in V3Cuts :
         /\ working' = [i \in DOMAIN working |-> Drifted(i, cut, cut3)]
         /\ log' = [log EXCEPT !.v2 = {working[i].id : i \in After(cut)},
                               !.v3 = {working[i].id : i \in AfterBoth(cut, cut3)}]
  BY DEF ApplySchemaDrift
<1>3. PICK tail2, tail3 : tail2 = After(cut) /\ tail3 = AfterBoth(cut, cut3)
  OBVIOUS
<1>4. LogInv' /\ RecordInv' /\ CopiesInv' /\ ManifestInv'
  <2>1. DOMAIN log' = DOMAIN NoInjections /\ log'.duplicated = log.duplicated /\ log'.corrupt = log.corrupt
    BY <1>2 DEF Inv, LogInv, NoInjections
  <2> QED
    BY <1>1, <2>1, NothingPublished DEF Inv, Publishing
<1>5. CanonicalInv'
  BY <1>1 DEF Inv, CanonicalInv, InOrderOfTime, Snapped, Publishing
<1> DEFINE Version(i) == IF i \in tail3 THEN 3 ELSE IF i \in tail2 THEN 2 ELSE 1
<1>6. ASSUME NEW i \in DOMAIN working
      PROVE  /\ working'[i] \in EventSet /\ working'[i].id = working[i].id
             /\ working'[i].time = working[i].time /\ working'[i].version = Version(i)
  <2>1. PICK e \in EventSet : e = working[i] /\ e.version = 1
    BY <1>1, StreamSeq DEF Inv, StreamInv, VersionInv
  <2>2. PICK f : f = IF i \in tail2 THEN Upgraded(e, SCHEMA_V2) ELSE e
    OBVIOUS
  <2>3. working'[i] = IF i \in tail3 THEN Upgraded(f, SCHEMA_V3) ELSE f
    BY <1>2, <1>3, <2>1, <2>2 DEF Drifted
  <2>4. /\ f \in EventSet /\ f.id = e.id /\ f.time = e.time
        /\ f.version = IF i \in tail2 THEN 2 ELSE 1
    BY <2>1, <2>2, UpgradedIs DEF SCHEMA_V1, SCHEMA_V2
  <2>5. CASE i \in tail3
    <3>1. PICK g : g = Upgraded(f, SCHEMA_V3)
      OBVIOUS
    <3>2. f.version \in {SCHEMA_V1, SCHEMA_V2}
      BY <2>4 DEF SCHEMA_V1, SCHEMA_V2
    <3>3. g \in EventSet /\ g.id = f.id /\ g.time = f.time /\ g.version = SCHEMA_V3
      BY <2>4, <3>1, <3>2, UpgradedIs
    <3> QED
      BY <2>1, <2>3, <2>4, <2>5, <3>1, <3>3 DEF SCHEMA_V3
  <2>6. CASE i \notin tail3
    BY <2>1, <2>3, <2>4, <2>6
  <2> QED
    BY <2>5, <2>6
<1>7. DOMAIN working' = DOMAIN working /\ working' = [i \in DOMAIN working |-> working'[i]]
  BY <1>2
<1>8. Stream(working')
  BY <1>6, <1>7, InPlace DEF Inv, StreamInv
<1>9. ASSUME NEW i \in DOMAIN working, NEW j \in DOMAIN working, working[i].time < working[j].time
      PROVE  Version(i) <= Version(j)
  <2>1. Rank(i) \in Nat /\ Rank(j) \in Nat /\ Rank(i) <= Rank(j)
    BY <1>9, RanksFollowTime DEF Inv, StreamInv
  <2>2. i \in tail2 => j \in tail2
    <3>1. cut # NoCut => cut \in Nat
      BY DisorderAssumption
    <3> QED
      BY <1>3, <2>1, <3>1 DEF After
  <2>3. i \in tail3 => j \in tail3
    <3>1. cut3 # NoCut => cut3 \in Nat
      BY DisorderAssumption
    <3> QED
      BY <1>3, <2>1, <3>1 DEF After, AfterBoth
  <2> QED
    BY <2>2, <2>3
<1>10. InOrderOfTime(Range(working'))
  <2>1. ASSUME NEW e \in Range(working'), NEW f \in Range(working'), e.time < f.time
        PROVE  e.version <= f.version
    <3>1. PICK i \in DOMAIN working : e = working'[i]
      BY <1>7 DEF Range
    <3>2. PICK j \in DOMAIN working : f = working'[j]
      BY <1>7 DEF Range
    <3> HIDE DEF Version
    <3> QED
      BY <1>6, <1>9, <2>1, <3>1, <3>2
  <2> QED
    BY <2>1 DEF InOrderOfTime
<1>11. StreamInv' /\ VersionInv'
  BY <1>1, <1>8, <1>10 DEF StreamInv, VersionInv
<1> QED
  BY <1>4, <1>5, <1>11 DEF Inv

LEMMA SnapshotStep ==
    ASSUME Inv, Snapshot
    PROVE  Inv'
<1>1. /\ stage = "snapshot" /\ stage' = "late" /\ cursor' = 1
      /\ canonical' = Range(working) /\ UNCHANGED <<working, records, log>>
  BY DEF Snapshot, Enter
<1>2. LogInv' /\ RecordInv' /\ CopiesInv' /\ ManifestInv'
  BY <1>1, NothingPublished DEF Inv, Publishing, LogInv
<1>3. StreamInv' /\ VersionInv'
  BY <1>1 DEF Inv, StreamInv, VersionInv, Snapped
<1>4. \A i \in DOMAIN working : working[i] \in EventSet
  BY StreamSeq DEF Inv, StreamInv
<1>5. Range(working) \subseteq EventSet
  BY <1>4 DEF Range
<1>6. ASSUME NEW e \in Range(working), NEW f \in Range(working), e.id = f.id PROVE e = f
  BY <1>6 DEF Range, Inv, StreamInv, Stream
<1>7. ASSUME NEW i \in DOMAIN working PROVE From(working[i], Range(working))
  <2>1. PICK e \in EventSet : e = working[i]
    BY <1>4
  <2>2. e \in Range(working)
    BY <2>1 DEF Range
  <2>3. e.publish <= e.publish
    BY EventsAre
  <2> QED
    BY <2>1, <2>2, <2>3 DEF From
<1>8. InOrderOfTime(Range(working))
  BY <1>1 DEF Inv, VersionInv
<1>9. CanonicalInv'
  BY <1>1, <1>5, <1>6, <1>7, <1>8 DEF CanonicalInv, Snapped
<1> QED
  BY <1>2, <1>3, <1>9 DEF Inv

\* While transport only delays and moves events, what they come from is the snapshot.
LEMMA Transported ==
    ASSUME Inv, stage \in {"late", "out_of_order"}, stage' \in Snapped, stage' \notin {"corrupt", "done"},
           cursor' \in Nat \ {0}, canonical' = canonical, Stream(working'),
           \A i \in DOMAIN working' : \E j \in DOMAIN working :
              /\ working'[i].id = working[j].id /\ working'[i].time = working[j].time
              /\ working'[i].version = working[j].version
              /\ working'[i].publish >= working[j].publish
    PROVE  StreamInv' /\ VersionInv' /\ CanonicalInv'
<1>1. StreamInv' /\ VersionInv'
  BY DEF StreamInv, VersionInv, Snapped, Publishing
<1>2. ASSUME NEW i \in DOMAIN working' PROVE From(working'[i], canonical)
  <2>1. PICK j \in DOMAIN working :
           /\ working'[i].id = working[j].id /\ working'[i].time = working[j].time
           /\ working'[i].version = working[j].version
           /\ working'[i].publish >= working[j].publish
    OBVIOUS
  <2>2. working[j] \in EventSet /\ working'[i] \in EventSet
    BY StreamSeq DEF Inv, StreamInv
  <2>3. From(working[j], canonical) /\ canonical \in SUBSET EventSet
    BY DEF Inv, CanonicalInv, Snapped
  <2> QED
    BY <2>1, <2>2, <2>3, FromHere
<1>3. CanonicalInv'
  BY <1>2 DEF Inv, CanonicalInv, Snapped
<1> QED
  BY <1>1, <1>3

LEMMA SameEvent ==
    ASSUME Stream(working), NEW x, NEW j \in DOMAIN working, x = working[j]
    PROVE  /\ x.id = working[j].id /\ x.time = working[j].time
           /\ x.version = working[j].version /\ x.publish >= working[j].publish
BY StreamSeq, EventsAre

LEMMA LateStep ==
    ASSUME Inv, ApplyLateArrival
    PROVE  Inv'
<1>1. /\ stage = "late" /\ stage' = "late" /\ cursor <= Len(working) /\ cursor' = cursor + 1
      /\ UNCHANGED <<canonical, records>>
  BY DEF ApplyLateArrival, Walking, Step
<1>2. Stream(working) /\ cursor \in DOMAIN working /\ cursor' \in Nat \ {0}
  BY <1>1, StreamSeq DEF Inv, StreamInv
<1>3. LogInv' /\ RecordInv' /\ CopiesInv' /\ ManifestInv'
  <2>1. log' = log \/ \E value : Log("late", value)
    BY DEF ApplyLateArrival, Logged
  <2>2. DOMAIN log' = DOMAIN NoInjections /\ log'.duplicated = log.duplicated /\ log'.corrupt = log.corrupt
    BY <2>1, LogFields DEF Inv, LogInv
  <2> QED
    BY <1>1, <2>2, NothingPublished DEF Inv, Publishing
<1>4. ASSUME working' = working PROVE StreamInv' /\ VersionInv' /\ CanonicalInv'
  BY <1>1, <1>2, <1>4, SameEvent, Transported DEF Snapped
<1>5. ASSUME NEW by \in LateBy, working' = [working EXCEPT ![cursor] = Delayed(@, by)]
      PROVE  StreamInv' /\ VersionInv' /\ CanonicalInv'
  <2>1. PICK e \in EventSet : e = working[cursor]
    BY <1>2, StreamSeq
  <2>2. PICK f : f = Delayed(e, by)
    OBVIOUS
  <2>3. by \in Nat
    BY DisorderAssumption
  <2>4. /\ f \in EventSet /\ f.id = e.id /\ f.time = e.time /\ f.version = e.version
        /\ f.publish = e.publish + by
    BY <2>2, <2>3, DelayedIs
  <2>5. f.publish >= e.publish
    BY <2>3, <2>4, EventsAre
  <2>6. DOMAIN working' = DOMAIN working /\ working' = [i \in DOMAIN working |-> working'[i]]
    BY <1>5
  <2>7. \A i \in DOMAIN working : working'[i] = IF i = cursor THEN f ELSE working[i]
    BY <1>5, <2>1, <2>2
  <2>8. Stream(working')
    <3>1. \A i \in DOMAIN working : working'[i] \in EventSet /\ working'[i].id = working[i].id
      BY <1>2, <2>1, <2>4, <2>7, StreamSeq
    <3> QED
      BY <1>2, <2>6, <3>1, InPlace
  <2>9. ASSUME NEW i \in DOMAIN working'
        PROVE  \E j \in DOMAIN working :
                  /\ working'[i].id = working[j].id /\ working'[i].time = working[j].time
                  /\ working'[i].version = working[j].version
                  /\ working'[i].publish >= working[j].publish
    <3>1. CASE i = cursor
      BY <2>1, <2>4, <2>5, <2>6, <2>7, <3>1
    <3>2. CASE i # cursor
      BY <1>2, <2>6, <2>7, <3>2, SameEvent
    <3> QED
      BY <3>1, <3>2
  <2> QED
    BY <1>1, <1>2, <2>8, <2>9, Transported DEF Snapped
<1> QED
  BY <1>3, <1>4, <1>5 DEF ApplyLateArrival, Inv

\* A stage of transport that does no more than move events.
LEMMA Moved ==
    ASSUME Inv, stage \in {"late", "out_of_order"}, stage' \in {"late", "out_of_order"},
           cursor' \in Nat \ {0}, UNCHANGED <<canonical, records>>,
           DOMAIN log' = DOMAIN NoInjections, log'.duplicated = log.duplicated,
           log'.corrupt = log.corrupt, Stream(working'),
           \A i \in DOMAIN working' : \E j \in DOMAIN working : working'[i] = working[j]
    PROVE  Inv'
<1>1. LogInv' /\ RecordInv' /\ CopiesInv' /\ ManifestInv'
  BY NothingPublished DEF Inv, Publishing
<1>2. Stream(working)
  BY DEF Inv, StreamInv
<1>3. ASSUME NEW i \in DOMAIN working'
      PROVE  \E j \in DOMAIN working :
                /\ working'[i].id = working[j].id /\ working'[i].time = working[j].time
                /\ working'[i].version = working[j].version
                /\ working'[i].publish >= working[j].publish
  BY <1>2, SameEvent
<1>4. StreamInv' /\ VersionInv' /\ CanonicalInv'
  BY <1>3, Transported DEF Snapped
<1> QED
  BY <1>1, <1>4 DEF Inv

LEMMA SortStep ==
    ASSUME Inv, SortByPublishTime
    PROVE  Inv'
<1>1. /\ stage = "late" /\ stage' = "out_of_order" /\ cursor' = 1
      /\ UNCHANGED <<canonical, records, log>>
  BY DEF SortByPublishTime, Walked, Enter
<1>2. PICK place \in Bijection(DOMAIN working, DOMAIN working) :
         working' = [i \in DOMAIN working |-> working[place[i]]]
  BY DEF SortByPublishTime
<1>3. Stream(working') /\ \A i \in DOMAIN working' : \E j \in DOMAIN working : working'[i] = working[j]
  BY <1>2, Rearranged DEF Inv, StreamInv
<1> QED
  BY <1>1, <1>3, Moved DEF Inv, LogInv

LEMMA OutOfOrderStep ==
    ASSUME Inv, ApplyOutOfOrder
    PROVE  Inv'
<1>1. /\ stage = "out_of_order" /\ stage' = "out_of_order"
      /\ cursor <= Len(working) /\ cursor' = cursor + 1 /\ UNCHANGED <<canonical, records>>
  BY DEF ApplyOutOfOrder, Walking, Step
<1>2. Stream(working) /\ cursor \in 1..Len(working) /\ cursor' \in Nat \ {0}
      /\ DOMAIN working = 1..Len(working)
  BY <1>1, StreamSeq DEF Inv, StreamInv
<1>3. DOMAIN log' = DOMAIN NoInjections /\ log'.duplicated = log.duplicated /\ log'.corrupt = log.corrupt
  <2>1. log' = log \/ \E value : Log("out_of_order", value)
    BY DEF ApplyOutOfOrder, Logged
  <2> QED
    BY <2>1, LogFields DEF Inv, LogInv
<1>4. CASE working' = working
  BY <1>1, <1>2, <1>3, <1>4, Moved
<1>5. CASE working' # working
  <2>1. PICK target \in Positions(cursor) :
           working' = [working EXCEPT ![cursor] = working[target], ![target] = working[cursor]]
    BY <1>5 DEF ApplyOutOfOrder
  <2>2. target \in DOMAIN working
    BY <1>2, <2>1 DEF Positions
  <2>3. Stream(working') /\ \A i \in DOMAIN working' : \E j \in DOMAIN working : working'[i] = working[j]
    BY <1>2, <2>1, <2>2, Swapped
  <2> QED
    BY <1>1, <1>2, <1>3, <2>3, Moved
<1> QED
  BY <1>4, <1>5

LEMMA EndOutOfOrderStep ==
    ASSUME Inv, EndOutOfOrder
    PROVE  Inv'
<1>1. /\ stage = "out_of_order" /\ stage' = "duplicate" /\ cursor' = 1
      /\ UNCHANGED <<working, canonical, records, log>>
  BY DEF EndOutOfOrder, Walked, Enter
<1>2. StreamInv' /\ VersionInv' /\ CanonicalInv'
  BY <1>1, SameEvent, Transported DEF Inv, StreamInv, Snapped, Publishing
<1>3. records = <<>> /\ DOMAIN records = {}
  BY <1>1, EmptySeq, LenProperties DEF Inv, RecordInv, Publishing
<1>4. LogInv' /\ RecordInv' /\ ManifestInv'
  BY <1>1, <1>3 DEF Inv, LogInv, RecordInv, ManifestInv, Publishing
<1>5. CopiesInv'
  <2>1. \A j \in DOMAIN working : j >= 1
    BY StreamSeq DEF Inv, StreamInv
  <2>2. \A id : CopiesIn(records, id) = {}
    BY <1>3 DEF CopiesIn
  <2>3. DOMAIN log.duplicated = {}
    BY <1>1 DEF Inv, LogInv, Publishing
  <2> QED
    BY <1>1, <2>1, <2>2, <2>3 DEF CopiesInv
<1> QED
  BY <1>2, <1>4, <1>5 DEF Inv

\* Once the list is being published, the stream and the snapshot stay.
LEMMA Settled ==
    ASSUME Inv, stage \in Publishing, stage' \in Publishing, cursor' \in Nat \ {0},
           UNCHANGED <<working, canonical>>
    PROVE  StreamInv' /\ VersionInv' /\ CanonicalInv'
BY DEF Inv, StreamInv, VersionInv, CanonicalInv, Publishing, Snapped, InOrderOfTime

Repeated(all, rs, r, m, more) ==
    /\ rs \in Seq(RecordSet) /\ r \in RecordSet /\ m \in Nat /\ more \in [1..m -> RecordSet]
    /\ all = Append(rs, r) \o more

LEMMA PublishAgain ==
    ASSUME NEW rs, NEW r, NEW m,
           NEW more, NEW all, Repeated(all, rs, r, m, more)
    PROVE  \E block : /\ Joined(all, rs, m, block) /\ block[1] = r
                      /\ \A k \in 2..(m + 1) : block[k] = more[k - 1]
<1>1. /\ rs \in Seq(RecordSet) /\ r \in RecordSet /\ m \in Nat /\ more \in [1..m -> RecordSet]
      /\ all = Append(rs, r) \o more
  BY DEF Repeated
<1>2. PICK first : first = Append(rs, r)
  OBVIOUS
<1>3. /\ first \in Seq(RecordSet) /\ Len(first) = Len(rs) + 1 /\ Len(rs) \in Nat
      /\ \A i \in 1..Len(rs) : first[i] = rs[i]
      /\ first[Len(rs) + 1] = r
  BY <1>1, <1>2, AppendProperties, LenProperties
<1>4. more \in Seq(RecordSet) /\ Len(more) = m
  <2>1. more \in Seq(RecordSet)
    BY <1>1, SeqOf
  <2>2. DOMAIN more = 1..m /\ DOMAIN more = 1..Len(more) /\ Len(more) \in Nat
    BY <1>1, <2>1, LenProperties
  <2> QED
    BY <1>1, <2>1, <2>2
<1>5. PICK n \in Nat : n = m + 1
  BY <1>1
<1>6. PICK block : block = [k \in 1..n |-> IF k = 1 THEN r ELSE more[k - 1]]
  OBVIOUS
<1>7. /\ block \in [1..n -> RecordSet] /\ block[1] = r
      /\ \A k \in 2..n : block[k] = more[k - 1]
  <2>1. \A k \in 1..n : k = 1 \/ k - 1 \in 1..m
    BY <1>1, <1>5
  <2>2. \A k \in 2..n : k \in 1..n /\ k # 1
    BY <1>5
  <2>3. 1 \in 1..n
    BY <1>1, <1>5
  <2> QED
    BY <1>1, <1>6, <2>1, <2>2, <2>3
<1>8. block \in Seq(RecordSet) /\ Len(block) = n
  <2>1. block \in Seq(RecordSet)
    BY <1>7, SeqOf
  <2>2. DOMAIN block = 1..n /\ DOMAIN block = 1..Len(block) /\ Len(block) \in Nat
    BY <1>7, <2>1, LenProperties
  <2> QED
    BY <2>1, <2>2
<1>9. /\ all \in Seq(RecordSet) /\ Len(all) = Len(first) + m
      /\ \A i \in 1..(Len(first) + m) :
            all[i] = IF i <= Len(first) THEN first[i] ELSE more[i - Len(first)]
  <2>1. first \in Seq(RecordSet) /\ more \in Seq(RecordSet) /\ Len(more) = m
    BY <1>3, <1>4
  <2>2. all = first \o more
    BY <1>1, <1>2
  <2> QED
    BY ONLY <2>1, <2>2, ConcatProperties
<1>10. /\ rs \o block \in Seq(RecordSet) /\ Len(rs \o block) = Len(rs) + n
      /\ \A i \in 1..(Len(rs) + n) :
            (rs \o block)[i] = IF i <= Len(rs) THEN rs[i] ELSE block[i - Len(rs)]
  BY <1>1, <1>8, ConcatProperties
<1>11. PICK l \in Nat : l = Len(rs) /\ Len(first) = l + 1 /\ Len(all) = l + n
  BY <1>1, <1>3, <1>5, <1>9
<1>12. ASSUME NEW i \in 1..(l + n) PROVE all[i] = (rs \o block)[i]
  <2>1. CASE i <= l
    BY <1>1, <1>3, <1>5, <1>9, <1>10, <1>11, <2>1
  <2>2. CASE i = l + 1
    <3>1. i - l = 1 /\ i <= l + 1 /\ ~(i <= l)
      BY <2>2
    <3> QED
      BY <1>1, <1>3, <1>5, <1>7, <1>9, <1>10, <1>11, <2>2, <3>1
  <2>3. CASE i > l + 1
    <3>1. i - l \in 2..n /\ (i - l) - 1 = i - (l + 1) /\ ~(i <= l) /\ ~(i <= l + 1)
      BY <2>3
    <3>2. all[i] = more[i - (l + 1)]
      BY <1>1, <1>5, <1>9, <1>11, <3>1
    <3>3. (rs \o block)[i] = block[i - l]
      BY <1>10, <1>11, <3>1
    <3> QED
      BY <1>7, <3>1, <3>2, <3>3
  <2>4. i <= l \/ i = l + 1 \/ i > l + 1
    BY i \in Int, l \in Int
  <2> QED
    BY <2>1, <2>2, <2>3, <2>4, Zenon
<1>13. all = rs \o block
  BY <1>9, <1>10, <1>11, <1>12, SeqEqual
<1> QED
  BY <1>1, <1>5, <1>7, <1>13 DEF Joined

LEMMA PublishOnce ==
    ASSUME NEW rs \in Seq(RecordSet), NEW r \in RecordSet, NEW all, all = Append(rs, r)
    PROVE  \E block : Joined(all, rs, 0, block) /\ block[1] = r
<1>1. PICK first \in Seq(RecordSet) : first = Append(rs, r)
  BY AppendProperties
<1>2. PICK none : none = <<>>
  OBVIOUS
<1>3. all = Append(rs, r) \o none
  BY <1>1, <1>2, ConcatEmptySeq
<1>4. none \in [1..0 -> RecordSet]
  BY <1>2, EmptySeq, LenProperties
<1>5. Repeated(all, rs, r, 0, none)
  BY <1>3, <1>4 DEF Repeated
<1> QED
  BY <1>5, PublishAgain

LEMMA PublishRecordIs ==
    ASSUME NEW e \in EventSet, NEW r, r = PublishRecord(e)
    PROVE  r \in RecordSet /\ r.event = e /\ r.machine = MachineOf[r.event.id] /\ r.readable
<1>1. e.machine = MachineOf[e.id] /\ MachineOf[e.id] \in Machines
  BY EventsAre, DisorderAssumption
<1> QED
  BY <1>1 DEF PublishRecord, RecordSet


\* What publishing the event under the cursor adds to the list and to the log.
Adds(m, block) ==
    LET id == working[cursor].id
    IN  /\ Joined(records', records, m, block)
        /\ \A k \in 1..(m + 1) :
              /\ block[k].event \in EventSet /\ block[k].event.id = id
              /\ From(block[k].event, canonical)
              /\ block[k].readable /\ block[k].machine = MachineOf[id]
        /\ \A k \in 2..(m + 1) : block[1].event.publish < block[k].event.publish
        /\ DOMAIN log' = DOMAIN NoInjections /\ log'.corrupt = log.corrupt
        /\ ExtraCopies(log', id) = m
        /\ \A other : other # id => /\ ExtraCopies(log', other) = ExtraCopies(log, other)
                                    /\ other \in DOMAIN log'.duplicated => other \in DOMAIN log.duplicated

LEMMA PublishedOnce ==
    ASSUME Inv, stage = "duplicate", cursor \in DOMAIN working,
           records' = Append(records, PublishRecord(working[cursor])), log' = log
    PROVE  \E m, block : Adds(m, block)
<1>1. PICK e \in EventSet : e = working[cursor]
  BY StreamSeq DEF Inv, StreamInv
<1>2. PICK r : r = PublishRecord(e)
  OBVIOUS
<1>3. r \in RecordSet /\ r.event = e /\ r.machine = MachineOf[e.id] /\ r.readable
  BY <1>2, PublishRecordIs
<1>4. records \in Seq(RecordSet) /\ records' = Append(records, r)
  BY <1>1, <1>2 DEF Inv, RecordInv
<1>5. PICK block : Joined(records', records, 0, block) /\ block[1] = r
  BY <1>3, <1>4, PublishOnce
<1>6. From(e, canonical)
  BY <1>1 DEF Inv, CanonicalInv, Snapped, Publishing
<1>7. e.id \notin DOMAIN log.duplicated
  BY <1>1 DEF Inv, CopiesInv, Publishing, StreamInv
<1>8. ExtraCopies(log', e.id) = 0
  BY <1>7 DEF ExtraCopies
<1>9. \A k \in 1..(0 + 1) : k = 1
  OBVIOUS
<1>10. \A k \in 2..(0 + 1) : FALSE
  OBVIOUS
<1>11. DOMAIN log' = DOMAIN NoInjections
  BY DEF Inv, LogInv
<1>12. Adds(0, block)
  BY <1>1, <1>3, <1>5, <1>6, <1>8, <1>9, <1>10, <1>11 DEF Adds
<1> QED
  BY <1>12

LEMMA PublishedAgain ==
    ASSUME Inv, stage = "duplicate", cursor \in DOMAIN working,
           NEW extra \in 1..MaxExtra, NEW after \in [1..extra -> RetryAfter],
           records' = Append(records, PublishRecord(working[cursor]))
                        \o [k \in 1..extra |-> PublishRecord(Delayed(working[cursor], after[k]))],
           Log("duplicated", DuplicateLog(working[cursor].id, extra))
    PROVE  \E m, block : Adds(m, block)
<1>1. PICK e \in EventSet : e = working[cursor]
  BY StreamSeq DEF Inv, StreamInv
<1>2. PICK r : r = PublishRecord(e)
  OBVIOUS
<1>3. r \in RecordSet /\ r.event = e /\ r.machine = MachineOf[e.id] /\ r.readable
  BY <1>2, PublishRecordIs
<1>4. PICK more : more = [k \in 1..extra |-> PublishRecord(Delayed(e, after[k]))]
  OBVIOUS
<1>5. extra \in Nat /\ extra \in Int
  BY DisorderAssumption
<1>6. From(e, canonical) /\ canonical \in SUBSET EventSet
  BY <1>1 DEF Inv, CanonicalInv, Snapped, Publishing
<1>7. ASSUME NEW k \in 1..extra
      PROVE  /\ more[k] \in RecordSet /\ more[k].event \in EventSet /\ more[k].event.id = e.id
             /\ more[k].readable /\ more[k].machine = MachineOf[e.id]
             /\ From(more[k].event, canonical) /\ e.publish < more[k].event.publish
  <2>1. PICK by \in Nat \ {0} : by = after[k]
    BY DisorderAssumption
  <2>2. PICK f : f = Delayed(e, by)
    OBVIOUS
  <2>3. /\ f \in EventSet /\ f.id = e.id /\ f.time = e.time /\ f.version = e.version
        /\ f.publish = e.publish + by
    BY <2>2, DelayedIs
  <2>4. e.publish < f.publish /\ f.publish >= e.publish
    BY <2>3, EventsAre
  <2>5. From(f, canonical)
    BY <1>6, <2>3, <2>4, FromHere
  <2>6. more[k] = PublishRecord(f)
    BY <1>4, <2>1, <2>2
  <2>7. more[k] \in RecordSet /\ more[k].event = f /\ more[k].machine = MachineOf[f.id] /\ more[k].readable
    BY <2>3, <2>6, PublishRecordIs
  <2> QED
    BY <2>3, <2>4, <2>5, <2>7
<1>8. more \in [1..extra -> RecordSet]
  BY <1>4, <1>7
<1>9. PICK ts, rs : ts = records' /\ rs = records /\ Repeated(ts, rs, r, extra, more)
  BY <1>1, <1>2, <1>3, <1>4, <1>5, <1>8 DEF Repeated, Inv, RecordInv
<1>10. PICK block : /\ Joined(ts, rs, extra, block) /\ block[1] = r
                   /\ \A k \in 2..(extra + 1) : block[k] = more[k - 1]
  <2>1. Repeated(ts, rs, r, extra, more)
    BY <1>9
  <2> QED
    BY ONLY <2>1, PublishAgain
<1>11. \A k \in 2..(extra + 1) : k - 1 \in 1..extra
  BY <1>5
<1>12. \A k \in 1..(extra + 1) : k = 1 \/ k \in 2..(extra + 1)
  BY <1>5
<1>13. \A k \in 1..(extra + 1) :
          /\ block[k].event \in EventSet /\ block[k].event.id = e.id
          /\ From(block[k].event, canonical)
          /\ block[k].readable /\ block[k].machine = MachineOf[e.id]
  <2>1. /\ block[1].event \in EventSet /\ block[1].event.id = e.id
        /\ From(block[1].event, canonical)
        /\ block[1].readable /\ block[1].machine = MachineOf[e.id]
    BY <1>3, <1>6, <1>10
  <2>2. ASSUME NEW k \in 2..(extra + 1)
        PROVE  /\ block[k].event \in EventSet /\ block[k].event.id = e.id
               /\ From(block[k].event, canonical)
               /\ block[k].readable /\ block[k].machine = MachineOf[e.id]
    BY <1>7, <1>10, <1>11
  <2> QED
    BY ONLY <1>12, <2>1, <2>2
<1>14. \A k \in 2..(extra + 1) : block[1].event.publish < block[k].event.publish
  BY <1>3, <1>7, <1>10, <1>11
<1>15. /\ DOMAIN log' = DOMAIN NoInjections /\ log'.corrupt = log.corrupt
       /\ log'.duplicated = With(log.duplicated, e.id, extra)
  <2>1. "duplicated" \in DOMAIN NoInjections
    BY DEF NoInjections
  <2> QED
    BY <1>1, <2>1, LogFields DEF DuplicateLog, Inv, LogInv
<1>16. /\ ExtraCopies(log', e.id) = extra
       /\ \A other : other # e.id => /\ ExtraCopies(log', other) = ExtraCopies(log, other)
                                     /\ other \in DOMAIN log'.duplicated => other \in DOMAIN log.duplicated
  BY <1>15 DEF With, ExtraCopies
<1>17. Adds(extra, block)
  BY <1>1, <1>9, <1>10, <1>13, <1>14, <1>15, <1>16 DEF Adds
<1> QED
  BY <1>17

LEMMA DuplicateStep ==
    ASSUME Inv, ApplyDuplicates
    PROVE  Inv'
<1>1. /\ stage = "duplicate" /\ stage' = "duplicate" /\ cursor <= Len(working)
      /\ cursor' = cursor + 1 /\ UNCHANGED <<working, canonical>>
  BY DEF ApplyDuplicates, Walking, Step
<1>2. /\ Stream(working) /\ cursor \in DOMAIN working /\ cursor \in Nat /\ cursor' \in Nat \ {0}
      /\ DOMAIN working \subseteq Nat
  BY <1>1, StreamSeq DEF Inv, StreamInv
<1>3. PICK m, block : Adds(m, block)
  BY <1>1, <1>2, PublishedOnce, PublishedAgain DEF ApplyDuplicates
<1>4. PICK id : id = working[cursor].id
  OBVIOUS
<1>5. PICK rs, ts : rs = records /\ ts = records'
  OBVIOUS
<1>6. /\ Joined(ts, rs, m, block) /\ m \in Nat
      /\ \A k \in 1..(m + 1) :
            /\ block[k].event.id = id /\ From(block[k].event, canonical)
            /\ block[k].readable /\ block[k].machine = MachineOf[id]
      /\ \A k \in 2..(m + 1) : block[1].event.publish < block[k].event.publish
  BY <1>3, <1>4, <1>5 DEF Adds, Joined
<1>7. CopiesIn(rs, id) = {}
  <2>1. CopiesInv /\ cursor >= cursor
    BY <1>2 DEF Inv
  <2> QED
    BY <1>1, <1>2, <1>4, <1>5, <2>1 DEF CopiesInv, Publishing
<1>8. /\ PublishedAs(ts, id, m)
      /\ \A other : other # id => CopiesIn(ts, other) = CopiesIn(rs, other)
  <2>1. Joined(ts, rs, m, block) /\ m \in Nat
    BY <1>6
  <2>2. \A k \in 1..(m + 1) : block[k].event.id = id
    BY <1>6
  <2>3. \A k \in 2..(m + 1) : block[1].event.publish < block[k].event.publish
    BY <1>6
  <2> QED
    BY <1>7, <2>1, <2>2, <2>3, PublishedAnew
<1>9. PICK n \in Nat :
         /\ ts \in Seq(RecordSet) /\ DOMAIN ts = 1..(n + m + 1) /\ DOMAIN rs = 1..n
         /\ \A i \in 1..n : ts[i] = rs[i]
         /\ \A i \in (n + 1)..(n + m + 1) : ts[i] = block[i - n]
  <2>1. Joined(ts, rs, m, block)
    BY <1>6
  <2>2. /\ ts \in Seq(RecordSet) /\ DOMAIN ts = 1..(Len(rs) + m + 1) /\ Len(rs) \in Nat
        /\ DOMAIN rs = 1..Len(rs)
        /\ \A i \in 1..Len(rs) : ts[i] = rs[i]
        /\ \A i \in (Len(rs) + 1)..(Len(rs) + m + 1) : ts[i] = block[i - Len(rs)]
    BY <2>1, CopiesOfAll
  <2> QED
    BY <2>2, Zenon
<1>10. ASSUME NEW i \in DOMAIN ts
       PROVE  \/ i \in DOMAIN rs /\ ts[i] = rs[i]
              \/ i \notin DOMAIN rs /\ \E k \in 1..(m + 1) : ts[i] = block[k]
  <2>1. CASE i <= n
    BY <1>9, <2>1
  <2>2. CASE i > n
    <3>1. i \in (n + 1)..(n + m + 1) /\ i - n \in 1..(m + 1) /\ i \notin 1..n
      BY <1>6, <1>9, <2>2
    <3> QED
      BY <1>9, <3>1
  <2> QED
    BY <1>9, <2>1, <2>2
<1>11. StreamInv' /\ VersionInv' /\ CanonicalInv'
  BY <1>1, <1>2, Settled DEF Publishing
<1>12. RecordInv'
  <2>1. \A i \in DOMAIN rs : /\ From(rs[i].event, canonical)
                             /\ rs[i].machine = MachineOf[rs[i].event.id] /\ rs[i].readable
    BY <1>1, <1>5 DEF Inv, RecordInv
  <2>2. \A i \in DOMAIN ts : /\ From(ts[i].event, canonical)
                             /\ ts[i].machine = MachineOf[ts[i].event.id] /\ ts[i].readable
    BY <1>6, <1>10, <2>1
  <2> QED
    BY <1>1, <1>5, <1>9, <2>2 DEF RecordInv, Publishing
<1>13. LogInv'
  <2>1. \A i \in DOMAIN ts : ts[i].readable
    BY <1>1, <1>5, <1>6, <1>10 DEF Inv, RecordInv
  <2>2. CorruptIn(ts) = {}
    BY <2>1 DEF CorruptIn
  <2>3. CorruptIn(rs) = {}
    BY <1>1, <1>5 DEF CorruptIn, Inv, RecordInv
  <2> QED
    BY <1>1, <1>3, <1>5, <2>2, <2>3 DEF Adds, Inv, LogInv, Publishing
<1>14. CopiesInv'
  <2>1. ASSUME NEW j \in DOMAIN working, j >= cursor + 1
        PROVE  CopiesIn(ts, working[j].id) = {} /\ working[j].id \notin DOMAIN log'.duplicated
    <3>1. j # cursor /\ j >= cursor
      BY <1>2, <2>1
    <3>2. working[j].id # id
      BY <1>2, <1>4, <3>1 DEF Stream
    <3>3. CopiesIn(rs, working[j].id) = {} /\ working[j].id \notin DOMAIN log.duplicated
      BY <1>1, <1>5, <3>1 DEF Inv, CopiesInv, Publishing
    <3> QED
      BY <1>3, <1>4, <1>8, <3>2, <3>3 DEF Adds
  <2>2. ASSUME NEW j \in DOMAIN working, ~(j >= cursor + 1)
        PROVE  PublishedAs(ts, working[j].id, ExtraCopies(log', working[j].id))
    <3>1. CASE j = cursor
      BY <1>3, <1>4, <1>8, <3>1 DEF Adds
    <3>2. CASE j # cursor
      <4>1. ~(j >= cursor)
        BY <1>2, <2>2, <3>2
      <4>2. working[j].id # id
        BY <1>2, <1>4, <3>2 DEF Stream
      <4>3. PublishedAs(rs, working[j].id, ExtraCopies(log, working[j].id))
        BY <1>1, <1>5, <4>1 DEF Inv, CopiesInv, Publishing
      <4>4. CopiesIn(ts, working[j].id) = CopiesIn(rs, working[j].id)
        BY <1>8, <4>2
      <4>5. \A i \in CopiesIn(rs, working[j].id) : ts[i] = rs[i]
        BY <1>9 DEF CopiesIn
      <4>6. PublishedAs(ts, working[j].id, ExtraCopies(log, working[j].id))
        BY <4>3, <4>4, <4>5 DEF PublishedAs
      <4> QED
        BY <1>3, <1>4, <4>2, <4>6 DEF Adds
    <3> QED
      BY <3>1, <3>2
  <2> QED
    BY <1>1, <1>5, <2>1, <2>2 DEF CopiesInv
<1>15. ManifestInv'
  BY <1>1 DEF ManifestInv
<1> QED
  BY <1>11, <1>12, <1>13, <1>14, <1>15 DEF Inv

LEMMA EndDuplicatesStep ==
    ASSUME Inv, EndDuplicates
    PROVE  Inv'
<1>1. /\ stage = "duplicate" /\ stage' = "corrupt" /\ cursor > Len(working) /\ cursor' = 1
      /\ UNCHANGED <<working, canonical, records, log>>
  BY DEF EndDuplicates, Walked, Enter
<1>2. StreamInv' /\ VersionInv' /\ CanonicalInv'
  BY <1>1, Settled DEF Publishing
<1>3. LogInv' /\ RecordInv' /\ ManifestInv'
  BY <1>1 DEF Inv, LogInv, RecordInv, ManifestInv, Publishing
<1>4. \A j \in DOMAIN working : ~(j >= cursor)
  BY <1>1, StreamSeq DEF Inv, StreamInv
<1>5. CopiesInv'
  BY <1>1, <1>4 DEF Inv, CopiesInv, Publishing
<1> QED
  BY <1>2, <1>3, <1>5 DEF Inv

LEMMA CorruptionStep ==
    ASSUME Inv, ApplyCorruption
    PROVE  Inv'
<1>1. /\ stage = "corrupt" /\ stage' = "corrupt" /\ cursor <= Len(records) /\ cursor' = cursor + 1
      /\ UNCHANGED <<working, canonical>>
  BY DEF ApplyCorruption, Walking, Step
<1>2. /\ records \in Seq(RecordSet) /\ DOMAIN records = 1..Len(records) /\ Len(records) \in Nat
      /\ cursor \in DOMAIN records /\ cursor' \in Nat \ {0}
  <2>1. records \in Seq(RecordSet)
    BY DEF Inv, RecordInv
  <2>2. DOMAIN records = 1..Len(records) /\ Len(records) \in Nat
    BY <2>1, LenProperties
  <2> QED
    BY <1>1, <2>1, <2>2 DEF Inv, StreamInv
<1>3. StreamInv' /\ VersionInv' /\ CanonicalInv'
  BY <1>1, <1>2, Settled DEF Publishing
<1>4. ManifestInv'
  BY <1>1 DEF ManifestInv
<1>5. CASE UNCHANGED <<records, log>>
  <2>1. LogInv' /\ RecordInv' /\ CopiesInv'
    BY <1>1, <1>5 DEF Inv, LogInv, RecordInv, CopiesInv, Publishing
  <2> QED
    BY <1>3, <1>4, <2>1 DEF Inv
<1>6. CASE /\ records' = [records EXCEPT ![cursor].readable = FALSE]
           /\ Logged("corrupt", records[cursor].event.id)
  <2>1. PICK rs, ts : rs = records /\ ts = records'
    OBVIOUS
  <2>2. PICK r \in RecordSet : r = rs[cursor]
    BY <1>2, <2>1, ElementOfSeq
  <2>3. PICK s : s = [r EXCEPT !.readable = FALSE]
    OBVIOUS
  <2>4. r = rs[cursor] /\ s = [r EXCEPT !.readable = FALSE]
    BY <2>2, <2>3
  <2>5. s \in RecordSet /\ s.event = r.event /\ s.machine = r.machine /\ ~s.readable
    BY <2>4 DEF RecordSet
  <2>6. ts = [rs EXCEPT ![cursor] = s]
    BY <1>6, <2>1, <2>4
  <2>7. ts \in Seq(RecordSet) /\ DOMAIN ts = DOMAIN rs
    BY <1>2, <2>1, <2>5, <2>6, ExceptSeq
  <2>8. \A i \in DOMAIN rs : ts[i] = IF i = cursor THEN s ELSE rs[i]
    BY <2>6
  <2>9. \A i \in DOMAIN rs : ts[i].event = rs[i].event /\ ts[i].machine = rs[i].machine
    BY <2>4, <2>5, <2>8
  <2>10. RecordInv'
    BY <1>1, <2>1, <2>7, <2>9 DEF Inv, RecordInv, Publishing
  <2>11. /\ DOMAIN log' = DOMAIN NoInjections /\ log'.duplicated = log.duplicated
        /\ log'.corrupt = log.corrupt \cup {r.event.id}
    <3>1. "corrupt" \in DOMAIN NoInjections
      BY DEF NoInjections
    <3>2. Log("corrupt", log.corrupt \cup {r.event.id})
      BY <1>6, <2>1, <2>4 DEF Logged
    <3> QED
      BY <3>1, <3>2, LogFields DEF Inv, LogInv
  <2>12. LogInv'
    <3>1. log.corrupt = CorruptIn(rs)
      BY <2>1 DEF Inv, LogInv
    <3>2. \A i \in DOMAIN rs : ~ts[i].readable <=> (i = cursor \/ ~rs[i].readable)
      BY <2>5, <2>8
    <3>3. CorruptIn(ts) = CorruptIn(rs) \cup {r.event.id}
      BY <1>2, <2>1, <2>4, <2>7, <2>9, <3>2 DEF CorruptIn
    <3> QED
      BY <1>1, <2>1, <2>11, <3>1, <3>3 DEF LogInv, Publishing
  <2>13. CopiesInv'
    <3>1. \A j \in DOMAIN working : PublishedAs(rs, working[j].id, ExtraCopies(log, working[j].id))
      BY <1>1, <2>1 DEF Inv, CopiesInv, Publishing
    <3>2. \A id : ExtraCopies(log', id) = ExtraCopies(log, id)
      BY <2>11 DEF ExtraCopies
    <3>3. \A j \in DOMAIN working : PublishedAs(ts, working[j].id, ExtraCopies(log', working[j].id))
      BY <2>7, <2>9, <3>1, <3>2, SameCopies
    <3> QED
      BY <1>1, <2>1, <3>3 DEF CopiesInv
  <2> QED
    BY <1>3, <1>4, <2>10, <2>12, <2>13 DEF Inv
<1> QED
  BY <1>5, <1>6 DEF ApplyCorruption

LEMMA ManifestStep ==
    ASSUME Inv, WriteManifest
    PROVE  Inv'
<1>1. /\ stage = "corrupt" /\ stage' = "done" /\ cursor' = 1
      /\ manifest' = BuildManifest(canonical, log)
      /\ UNCHANGED <<working, canonical, records, log>>
  BY DEF WriteManifest, Walked, Enter, Truth
<1>2. StreamInv' /\ VersionInv' /\ CanonicalInv'
  BY <1>1, Settled DEF Publishing
<1>3. LogInv' /\ RecordInv' /\ CopiesInv'
  BY <1>1 DEF Inv, LogInv, RecordInv, CopiesInv, Publishing
<1>4. ManifestInv'
  BY <1>1 DEF ManifestInv
<1> QED
  BY <1>2, <1>3, <1>4 DEF Inv

\* The injector keeps Inv, whatever the simulator emitted and the generator draws.
THEOREM InjectorAlways == Spec => []Inv
<1>1. Init => Inv
  BY InitInv
<1>2. Inv /\ [Next]_vars => Inv'
  <2>1. ASSUME Inv, UNCHANGED vars PROVE Inv'
    BY <2>1 DEF vars, Inv, StreamInv, VersionInv, CanonicalInv, LogInv, RecordInv, CopiesInv,
                ManifestInv, InOrderOfTime
  <2> QED
    BY <2>1, SkewStep, DriftStep, SnapshotStep, LateStep, SortStep, OutOfOrderStep,
       EndOutOfOrderStep, DuplicateStep, EndDuplicatesStep, CorruptionStep, ManifestStep DEF Next
<1> QED
  BY <1>1, <1>2, PTL DEF Spec

-----------------------------------------------------------------------------
(* What the invariant says of the ground truth *)

LEMMA RecordsAre ==
    ASSUME Inv, NEW i \in DOMAIN records
    PROVE  /\ records[i].event \in EventSet /\ records[i].event.id \in Ids
           /\ records[i].machine = MachineOf[records[i].event.id]
           /\ \E e \in canonical : /\ e \in EventSet /\ e.id = records[i].event.id
                                   /\ e.time = records[i].event.time
                                   /\ e.version = records[i].event.version
                                   /\ e.publish <= records[i].event.publish
                                   /\ Bucket(e) = Bucket(records[i].event)
<1>1. records \in Seq(RecordSet) /\ From(records[i].event, canonical)
  BY DEF Inv, RecordInv
<1>2. records[i] \in RecordSet
  BY <1>1, LenProperties, ElementOfSeq
<1>3. PICK f \in EventSet : f = records[i].event
  BY <1>2 DEF RecordSet
<1>4. PICK e \in canonical : e.id = f.id /\ e.time = f.time /\ e.version = f.version /\ e.publish <= f.publish
  BY <1>1, <1>3 DEF From
<1>5. e \in EventSet
  BY DEF Inv, CanonicalInv
<1>6. e.machine = f.machine
  BY <1>3, <1>4, <1>5, EventsAre
<1>7. Bucket(e) = Bucket(f)
  BY <1>4, <1>6 DEF Bucket
<1>8. records[i].machine = MachineOf[f.id] /\ f.id \in Ids
  BY <1>3, EventsAre DEF Inv, RecordInv
<1> QED
  BY <1>3, <1>4, <1>5, <1>7, <1>8

\* Once published, every id has its canonical event and its copies.
LEMMA EveryIdPublished ==
    ASSUME Inv, stage = "done", NEW id \in Ids
    PROVE  /\ \E e \in canonical : e.id = id
           /\ PublishedAs(records, id, ExtraCopies(log, id))
           /\ \E i \in Copies(id) : TRUE
<1>1. PICK j \in DOMAIN working : working[j].id = id
  BY DEF Inv, StreamInv, Stream
<1>2. \E e \in canonical : e.id = id
  BY <1>1 DEF Inv, CanonicalInv, Snapped, Publishing, From
<1>3. PublishedAs(records, id, ExtraCopies(log, id))
  BY <1>1 DEF Inv, CopiesInv, Publishing
<1>4. \E i \in Copies(id) : TRUE
  BY <1>3 DEF PublishedAs, CopiesIn, Copies
<1> QED
  BY <1>2, <1>3, <1>4

LEMMA OneEventPerId ==
    ASSUME Inv
    PROVE  /\ \A e, f \in canonical : e.id = f.id => e = f
           /\ \A e \in canonical : e \in EventSet /\ e.id \in Ids /\ e.payload = PayloadOf(e)
           /\ IsFiniteSet(canonical)
<1>1. /\ \A e, f \in canonical : e.id = f.id => e = f
      /\ \A e \in canonical : e \in EventSet
  BY DEF Inv, CanonicalInv
<1>2. \A e \in canonical : e.id \in Ids /\ e.payload = PayloadOf(e)
  BY <1>1, EventsAre, PayloadsAgree
<1>3. IsFiniteSet(canonical)
  <2>1. PICK I \in SUBSET Ids : I = {e.id : e \in canonical}
    BY <1>2
  <2>2. IsFiniteSet(I)
    BY DisorderAssumption, FS_Subset
  <2>3. \A e \in canonical : e.id \in I
    BY <2>1
  <2>4. \A i \in I : \E e \in canonical : e.id = i
    BY <2>1
  <2> QED
    BY <1>1, <2>2, <2>3, <2>4, Tally
<1> QED
  BY <1>1, <1>2, <1>3

\* Whatever lateness, swaps, copies and corruption do, every record carries the event
\* its machine reported, moved in publish_time only, and never back.
THEOREM TransportKeepsEvents == Spec => []RecordsAreCanonical
<1>1. ASSUME Inv, NEW i \in DOMAIN records
      PROVE  \E e \in canonical :
                /\ records[i].event = [e EXCEPT !.publish = records[i].event.publish]
                /\ records[i].event.publish >= e.publish
                /\ records[i].machine = e.machine
  <2>1. PICK f \in EventSet : f = records[i].event /\ records[i].machine = MachineOf[f.id]
    BY <1>1, RecordsAre
  <2>2. PICK e \in canonical : /\ e \in EventSet /\ e.id = f.id /\ e.time = f.time
                               /\ e.version = f.version /\ e.publish <= f.publish
    BY <1>1, <2>1, RecordsAre
  <2>3. f = [e EXCEPT !.publish = f.publish]
    <3>1. e = Event(e.id, e.time, e.publish, e.version) /\ f = Event(e.id, e.time, f.publish, e.version)
      BY <2>1, <2>2, EventsAre
    <3> QED
      BY <3>1 DEF Event
  <2>4. e.publish \in Int /\ f.publish \in Int /\ e.machine = MachineOf[f.id]
    BY <2>1, <2>2, EventsAre
  <2> QED
    BY <2>1, <2>2, <2>3, <2>4
<1>2. Inv => RecordsAreCanonical
  BY <1>1 DEF RecordsAreCanonical
<1> QED
  BY <1>2, InjectorAlways, PTL

\* A deployment cuts the stream by event time, skewed clocks included, for any two
\* cutovers in any order.
THEOREM CutoversFollowTime == Spec => []CutoverByEventTime
<1>1. Inv => CutoverByEventTime
  BY DEF Inv, CanonicalInv, InOrderOfTime, CutoverByEventTime
<1> QED
  BY <1>1, InjectorAlways, PTL

\* What the injector leaves is a run as Warehouse begins with: each event reported once
\* and published once more than the log says it was repeated, the original first.
THEOREM WarehouseIsFed == Spec => []FeedsTheWarehouse
<1>1. ASSUME Inv, stage = "done", NEW id \in Ids
      PROVE  /\ Cardinality({e \in canonical : e.id = id}) = 1
             /\ Cardinality(Copies(id)) = 1 + ExtraCopies(log, id)
             /\ \E original \in Copies(id) : \A i \in Copies(id) \ {original} :
                   records[original].event.publish < records[i].event.publish
  <2>1. PICK e \in canonical : e.id = id
    BY <1>1, EveryIdPublished
  <2>2. {f \in canonical : f.id = id} = {e}
    BY <1>1, <2>1, OneEventPerId
  <2>3. Cardinality({e}) = 1
    BY FS_Singleton
  <2>4. PublishedAs(records, id, ExtraCopies(log, id))
    BY <1>1, EveryIdPublished
  <2>5. Copies(id) = CopiesIn(records, id)
    BY DEF Copies, CopiesIn
  <2> QED
    BY <2>2, <2>3, <2>4, <2>5 DEF PublishedAs
<1>2. ASSUME Inv
      PROVE  /\ \A e \in canonical : e.payload = PayloadOf(e)
             /\ log.corrupt = {records[i].event.id : i \in Corrupted}
  <2>1. log.corrupt = CorruptIn(records)
    BY <1>2 DEF Inv, LogInv
  <2> QED
    BY <1>2, <2>1, OneEventPerId DEF CorruptIn, Corrupted
<1>3. Inv => FeedsTheWarehouse
  BY <1>1, <1>2 DEF FeedsTheWarehouse
<1> QED
  BY <1>3, InjectorAlways, PTL

\* A row of the manifest is that of the events of its window.
LEMMA ManifestRows ==
    ASSUME Inv, stage = "done"
    PROVE  /\ DOMAIN manifest = {Bucket(e) : e \in canonical}
           /\ \A key \in DOMAIN manifest : manifest[key] = WindowManifest(InBucket(canonical, key), log)
BY DEF Inv, ManifestInv, BuildManifest

\* The window of every published copy is the window of the manifest that counts its
\* event, and the manifest counts nothing that is not published.
THEOREM PipelineAndManifestAgree == Spec => []WindowsAgree
<1>1. ASSUME Inv, stage = "done", NEW key \in DOMAIN manifest
      PROVE  manifest[key].event_id_checksum = {e.id : e \in InBucket(canonical, key)}
  <2>1. manifest[key] = WindowManifest(InBucket(canonical, key), log)
    BY <1>1, ManifestRows
  <2> QED
    BY <2>1 DEF WindowManifest
<1>2. ASSUME Inv, stage = "done", NEW i \in DOMAIN records
      PROVE  LET key == Bucket(records[i].event)
             IN  key \in DOMAIN manifest /\ records[i].event.id \in manifest[key].event_id_checksum
  <2>1. PICK e \in canonical : e.id = records[i].event.id /\ Bucket(e) = Bucket(records[i].event)
    BY <1>2, RecordsAre
  <2>2. PICK key : key = Bucket(records[i].event)
    OBVIOUS
  <2>3. key \in DOMAIN manifest
    BY <1>2, <2>1, <2>2, ManifestRows
  <2>4. e \in InBucket(canonical, key)
    BY <2>1, <2>2 DEF InBucket
  <2> QED
    BY <1>1, <1>2, <2>1, <2>2, <2>3, <2>4
<1>3. ASSUME Inv, stage = "done", NEW key \in DOMAIN manifest, NEW id \in manifest[key].event_id_checksum
      PROVE  \E i \in Copies(id) : Bucket(records[i].event) = key
  <2>1. PICK e \in canonical : e.id = id /\ Bucket(e) = key
    BY <1>1, <1>3 DEF InBucket
  <2>2. PICK i \in Copies(id) : TRUE
    BY <1>3, <2>1, OneEventPerId, EveryIdPublished
  <2>3. i \in DOMAIN records /\ records[i].event.id = id
    BY DEF Copies
  <2>4. PICK f \in canonical : f.id = id /\ Bucket(f) = Bucket(records[i].event)
    BY <1>3, <2>3, RecordsAre
  <2>5. e = f
    BY <1>3, <2>1, <2>4, OneEventPerId
  <2> QED
    BY <2>1, <2>2, <2>4, <2>5
<1>4. Inv => WindowsAgree
  BY <1>2, <1>3 DEF WindowsAgree
<1> QED
  BY <1>4, InjectorAlways, PTL

\* Unless only some of its copies are corrupt, an event can be observed exactly when
\* the log does not call it corrupt.
LEMMA ObservableIs ==
    ASSUME Inv, stage = "done", NEW id \in Ids, ~PartlyCorrupt(id)
    PROVE  Observable(id) <=> id \notin log.corrupt
<1>1. CASE id \in log.corrupt
  BY <1>1 DEF PartlyCorrupt
<1>2. CASE id \notin log.corrupt
  <2>1. PICK i \in Copies(id) : TRUE
    BY EveryIdPublished
  <2>2. log.corrupt = CorruptIn(records)
    BY DEF Inv, LogInv
  <2>3. i \in DOMAIN records /\ records[i].event.id = id
    BY DEF Copies
  <2>4. records[i].readable
    BY <1>2, <2>2, <2>3 DEF CorruptIn
  <2> QED
    BY <1>2, <2>1, <2>4 DEF Observable
<1> QED
  BY <1>1, <1>2

LEMMA PartAndRest ==
    ASSUME NEW E, IsFiniteSet(E), NEW C \in SUBSET E, NEW R, R = E \ C
    PROVE  /\ IsFiniteSet(C) /\ IsFiniteSet(R)
           /\ Cardinality(E) \in Nat /\ Cardinality(C) \in Nat /\ Cardinality(R) \in Nat
           /\ Cardinality(E) - Cardinality(C) = Cardinality(R)
<1>1. IsFiniteSet(C) /\ IsFiniteSet(R) /\ E \cap C = C
  BY FS_Subset
<1>2. Cardinality(R) = Cardinality(E) - Cardinality(C)
  BY <1>1, FS_Difference
<1>3. Cardinality(E) \in Nat /\ Cardinality(C) \in Nat /\ Cardinality(R) \in Nat
  BY <1>1, FS_CardinalityType
<1> QED
  BY <1>1, <1>2, <1>3

LEMMA CountOfRest ==
    ASSUME NEW E, IsFiniteSet(E), NEW C \in SUBSET E, NEW type
    PROVE  /\ Count(E, type) \in Nat /\ Count(C, type) \in Nat /\ Count(E \ C, type) \in Nat
           /\ Count(E, type) - Count(C, type) = Count(E \ C, type)
<1>1. PICK S, T : S = OfType(E, type) /\ T = OfType(C, type)
  OBVIOUS
<1>2. S \subseteq E /\ T \in SUBSET S /\ OfType(E \ C, type) = S \ T
  BY <1>1 DEF OfType
<1>3. IsFiniteSet(S)
  BY <1>2, FS_Subset
<1>4. PICK R : R = S \ T
  OBVIOUS
<1>5. /\ Cardinality(S) \in Nat /\ Cardinality(T) \in Nat /\ Cardinality(R) \in Nat
      /\ Cardinality(S) - Cardinality(T) = Cardinality(R)
  BY <1>2, <1>3, <1>4, PartAndRest
<1> QED
  BY <1>1, <1>2, <1>4, <1>5 DEF Count

\* Every version of a cycle payload counts the same seconds.
LEMMA SecondsOfCycle ==
    ASSUME NEW e \in EventSet, e.type = "cycle"
    PROVE  CycleDurationSeconds(e.payload) = Seconds
<1>1. PICK v1, v2, v3 : /\ v1 = CyclePayload(Seconds, "badge")
                        /\ v2 = ToV2(v1, "cycle") /\ v3 = ToV3(v1, "cycle")
  OBVIOUS
<1>2. DOMAIN v1 = {"work_order", "sku", "unit_seq", "duration_s", "operator"} /\ v1["duration_s"] = Seconds
  BY <1>1 DEF CyclePayload
<1>3. "duration_s" \in DOMAIN v2 /\ v2["duration_s"] = Seconds
  <2>1. PICK o : o = With(v1, "line_id", "")
    OBVIOUS
  <2>2. /\ DOMAIN o = {"work_order", "sku", "unit_seq", "duration_s", "operator", "line_id"}
        /\ o["duration_s"] = Seconds
    BY <1>2, <2>1 DEF With
  <2>3. v2 = With(Without(o, "operator"), "operator_badge", o["operator"])
    BY <1>1, <1>2, <2>1, <2>2 DEF ToV2, Has
  <2> QED
    BY <2>2, <2>3 DEF With, Without
<1>4. PICK ms : ms = 1000 * Seconds
  OBVIOUS
<1>5. "duration_s" \notin DOMAIN v3 /\ "duration_ms" \in DOMAIN v3 /\ v3["duration_ms"] = ms
  <2>1. v3 = With(Without(v2, "duration_s"), "duration_ms", ms)
    BY <1>1, <1>3, <1>4 DEF ToV3, Has
  <2> QED
    BY <2>1 DEF With, Without
<1>6. ms \div 1000 = Seconds
  BY <1>4, DisorderAssumption
<1>7. PICK p : p = e.payload
  OBVIOUS
<1>8. p = v1 \/ p = v2 \/ p = v3
  <2>1. /\ PayloadAs("cycle", 1) = v1 /\ PayloadAs("cycle", 2) = v2 /\ PayloadAs("cycle", 3) = v3
    BY <1>1 DEF PayloadAs, NewPayload, SCHEMA_V1, SCHEMA_V2, SCHEMA_V3
  <2> QED
    BY <1>7, <2>1, EventsAre
<1>9. CASE p = v1 \/ p = v2
  BY <1>2, <1>3, <1>7, <1>9 DEF CycleDurationSeconds, Has
<1>10. CASE p = v3
  BY <1>5, <1>6, <1>7, <1>10 DEF CycleDurationSeconds, Has
<1> QED
  BY <1>8, <1>9, <1>10

LEMMA DurationOfEvents ==
    ASSUME NEW E \in SUBSET EventSet, IsFiniteSet(E)
    PROVE  DurationSum(E) = Seconds * Count(E, "cycle")
<1>1. PICK f : f = [e \in OfType(E, "cycle") |-> CycleDurationSeconds(e.payload)]
  OBVIOUS
<1>2. DOMAIN f = OfType(E, "cycle") /\ DOMAIN f \in SUBSET E
  BY <1>1 DEF OfType
<1>3. IsFiniteSet(DOMAIN f)
  BY <1>2, FS_Subset
<1>4. ASSUME NEW e \in DOMAIN f PROVE f[e] = Seconds
  <2>1. e \in EventSet /\ e.type = "cycle"
    BY <1>2 DEF OfType
  <2> QED
    BY <1>1, <1>2, <2>1, SecondsOfCycle
<1>5. SumFunction(f) = Seconds * Cardinality(DOMAIN f)
  BY <1>3, <1>4, SumOfConstant, DisorderAssumption
<1> QED
  BY <1>1, <1>2, <1>5 DEF DurationSum, Count

\* The expectation of every measure of every window, corruption deducted, is what can
\* be observed of it, for any number of machines, versions and copies.
THEOREM LedgerExpectsTheObservable == Spec => []ExpectationsAreObservable
<1>1. ASSUME Inv, stage = "done", NEW key \in DOMAIN manifest,
             \A e \in InBucket(canonical, key) : ~PartlyCorrupt(e.id)
      PROVE  LET m == manifest[key]
             IN  /\ m.event_count - m.corrupt_count = Cardinality(Visible(key))
                 /\ m.unit_count - m.corrupt_cycle_count = Count(Visible(key), "cycle")
                 /\ m.defect_count - m.corrupt_defect_count = Count(Visible(key), "defect")
                 /\ m.cycle_duration_sum - m.corrupt_duration_sum
                      = Seconds * Count(Visible(key), "cycle")
  <2>1. PICK E : E = InBucket(canonical, key)
    OBVIOUS
  <2>2. E \in SUBSET EventSet /\ IsFiniteSet(E) /\ \A e \in E : e.id \in Ids
    <3>1. E \subseteq canonical
      BY <2>1 DEF InBucket
    <3> QED
      BY <1>1, <3>1, OneEventPerId, FS_Subset
  <2>3. PICK C \in SUBSET E : C = {e \in E : e.id \in log.corrupt}
    OBVIOUS
  <2>4. C \in SUBSET EventSet /\ IsFiniteSet(C)
    BY <2>2, FS_Subset
  <2>5. Visible(key) = E \ C
    <3>1. \A e \in E : Observable(e.id) <=> e.id \notin log.corrupt
      BY <1>1, <2>1, <2>2, ObservableIs
    <3> QED
      BY <2>1, <2>3, <3>1 DEF Visible
  <2>6. PICK m : m = manifest[key]
    OBVIOUS
  <2>7. /\ m.event_count = Cardinality(E) /\ m.corrupt_count = Cardinality(C)
        /\ m.unit_count = Count(E, "cycle") /\ m.corrupt_cycle_count = Count(C, "cycle")
        /\ m.defect_count = Count(E, "defect") /\ m.corrupt_defect_count = Count(C, "defect")
        /\ m.cycle_duration_sum = DurationSum(E) /\ m.corrupt_duration_sum = DurationSum(C)
    <3>1. m = WindowManifest(E, log)
      BY <1>1, <2>1, <2>6, ManifestRows
    <3> QED
      BY <2>3, <3>1 DEF WindowManifest
  <2>8. Cardinality(E) - Cardinality(C) = Cardinality(E \ C)
    BY <2>2, PartAndRest
  <2>9. \A type : /\ Count(E, type) \in Nat /\ Count(C, type) \in Nat /\ Count(E \ C, type) \in Nat
                  /\ Count(E, type) - Count(C, type) = Count(E \ C, type)
    BY <2>2, CountOfRest
  <2>10. DurationSum(E) - DurationSum(C) = Seconds * Count(E \ C, "cycle")
    <3>1. DurationSum(E) = Seconds * Count(E, "cycle") /\ DurationSum(C) = Seconds * Count(C, "cycle")
      BY <2>2, <2>4, DurationOfEvents
    <3>2. PICK a \in Nat, b \in Nat : a = Count(E, "cycle") /\ b = Count(C, "cycle")
      BY <2>9
    <3>3. Seconds * a - Seconds * b = Seconds * (a - b)
      BY DisorderAssumption
    <3> QED
      BY <2>9, <3>1, <3>2, <3>3
  <2> QED
    BY <2>5, <2>6, <2>7, <2>8, <2>9, <2>10
<1>2. Inv => ExpectationsAreObservable
  BY <1>1 DEF ExpectationsAreObservable
<1> QED
  BY <1>2, InjectorAlways, PTL

=============================================================================
