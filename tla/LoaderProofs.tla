---------------------------- MODULE LoaderProofs ----------------------------
(***************************************************************************)
(* Proofs for Loader, alone and inside Acceptance: the batches, and so the *)
(* objects, that any load of a file writes are functions of the file, and  *)
(* so are the rows and the grade of a lake that has every line.            *)
(***************************************************************************)
EXTENDS Acceptance, FiniteSetTheorems, NaturalsInduction, WellFoundedInduction, TLAPS

-----------------------------------------------------------------------------
(* What a file f alone determines *)

Numbered(f, n) == n \in DOMAIN f /\ f[n].kind \notin {"blank", "scalar"}
Part(f, n) == PartitionFor(f[n])

\* The lines of a partition before a line: those that take an offset, and of these the
\* ones that fill a batch.
NumberedBefore(f, p, n) == {m \in 1 .. (n - 1) : Numbered(f, m) /\ Part(f, m) = p}
RecordsBefore(f, p, n) == {m \in NumberedBefore(f, p, n) : IsRecord(f[m])}

OffsetOf(f, n) == Cardinality(NumberedBefore(f, Part(f, n), n))
Count(f, p, n) == Cardinality(RecordsBefore(f, p, n))

\* Batch number j of a partition: the records, or the rejects, that are read when j full
\* batches of records have been.
FirstOf(j) == j * BATCH_ROWS
InBatch(f, p, j, n) ==
    /\ Numbered(f, n) /\ Part(f, n) = p
    /\ FirstOf(j) <= Count(f, p, n) /\ Count(f, p, n) < FirstOf(j + 1)
Batch(f, p, j, table) == {n \in DOMAIN f : InBatch(f, p, j, n) /\ (IsRecord(f[n]) <=> table = "bronze")}
Read(f, p, j, table, n) == {m \in Batch(f, p, j, table) : m < n}

LinesOf(list) == {list[i].line : i \in DOMAIN list}

\* Rows of a partition in the order of the file, with the offsets the file determines.
Row == [line : Nat, offset : Nat]
Proper(f, p, list) ==
    /\ list \in Seq(Row)
    /\ \A i \in DOMAIN list : /\ Numbered(f, list[i].line) /\ Part(f, list[i].line) = p
                              /\ list[i].offset = OffsetOf(f, list[i].line)
    /\ \A i, j \in DOMAIN list : i < j => list[i].line < list[j].line

\* A list without a line from n on, and the list with line n at its end.
Before(list, n) == \A i \in DOMAIN list : list[i].line < n
WithLine(f, list, n) == Append(list, [line |-> n, offset |-> OffsetOf(f, n)])

\* A line of the partition.
LineOf(f, p, n) == f \in Seq(Lines) /\ n \in 1 .. Len(f) /\ Numbered(f, n) /\ Part(f, n) = p

-----------------------------------------------------------------------------
(* The inductive invariant *)

Labels == {"read", "rest", "bronze", "quarantine", "done", "died"}

FileInv ==
    /\ file \in Seq(Lines)
    /\ pc \in Labels /\ cur \in Partitions
    /\ next \in 1 .. (Len(file) + 1)
    /\ todo \subseteq Partitions
    /\ offsets \in [Partitions -> Nat]
    /\ batches \in [Partitions -> Seq(Row)] /\ rejects \in [Partitions -> Seq(Row)]
    /\ \A n \in 1 .. (next - 1) : file[n].kind # "scalar"
    /\ todo # Partitions \/ pc \in {"rest", "done"} => next = Len(file) + 1
    /\ pc \in {"bronze", "quarantine"} /\ cur \in todo => next - 1 \in RecordsBefore(file, cur, next)
    /\ pc = "done" => todo = {}

\* Each line is numbered as the file says, and waits in the list of its partition.
WaitInv(p) ==
    /\ offsets[p] = Cardinality(NumberedBefore(file, p, next))
    /\ Proper(file, p, batches[p]) /\ Proper(file, p, rejects[p])
    /\ Before(batches[p], next) /\ Before(rejects[p], next)

Writing(p) == cur = p /\ pc = "bronze"
Flushing(p) == cur = p /\ pc \in {"bronze", "quarantine"}

\* The records that wait are those read since the last full batch; a full batch is
\* written before the next line is read.  After the last flush of a partition none waits.
RecordsInv(p) ==
    IF p \in todo \/ Writing(p)
    THEN \E j \in Nat :
           /\ Count(file, p, next) = FirstOf(j) + Len(batches[p])
           /\ LinesOf(batches[p]) = Read(file, p, j, "bronze", next)
           /\ IF Writing(p) /\ p \in todo THEN Len(batches[p]) = BATCH_ROWS
                                          ELSE Len(batches[p]) < BATCH_ROWS
    ELSE batches[p] = <<>>

\* The rejects that wait are those of the same batch, until the second half of its flush.
RejectsInv(p) ==
    IF p \in todo \/ Flushing(p)
    THEN \E j \in Nat :
           /\ FirstOf(j) <= Count(file, p, next)
           /\ LinesOf(rejects[p]) = Read(file, p, j, "quarantine", next)
           /\ IF Flushing(p) /\ p \in todo THEN Count(file, p, next) = FirstOf(j + 1)
                                           ELSE Count(file, p, next) < FirstOf(j + 1)
    ELSE rejects[p] = <<>>

\* Every object is a batch of its partition, under the name of its rows.
StoreInv(f, store, table) ==
    /\ store = [k \in DOMAIN store |-> store[k]]
    /\ \A k \in DOMAIN store :
          /\ store[k] # <<>> /\ Proper(f, k.part, store[k])
          /\ k = ObjectKey(k.part, k.slot, store[k])
          /\ \E j \in Nat : LinesOf(store[k]) = Batch(f, k.part, j, table)

Waits(n) == n \in LinesOf(IF IsRecord(file[n]) THEN batches[Part(file, n)] ELSE rejects[Part(file, n)])

\* A line that was read waits or is in the lake ...
ReadInv == \A n \in 1 .. (next - 1) : Numbered(file, n) => InLake(n) \/ Waits(n)

\* ... as long as the load runs; when it has ended only the lake is left.
MemoryInv ==
    pc \notin {"done", "died"} => ReadInv /\ \A p \in Partitions : WaitInv(p) /\ RecordsInv(p) /\ RejectsInv(p)

StoresInv == StoreInv(file, bronze, "bronze") /\ StoreInv(file, quarantine, "quarantine")
LakeInv == StoresInv /\ LoadedBeforeManifests

LoadInv == FileInv /\ MemoryInv /\ LakeInv

-----------------------------------------------------------------------------
(* Counting lines *)

\* The multiples of BATCH_ROWS are that far apart, and the batch of a count is unique.
LEMMA FirstOfStep ==
    ASSUME NEW j \in Nat
    PROVE  FirstOf(j) \in Nat /\ FirstOf(j + 1) = FirstOf(j) + BATCH_ROWS
<1>1. BATCH_ROWS \in Nat
  BY LoaderAssumption
<1> QED
  BY <1>1 DEF FirstOf

LEMMA FirstOfOrder ==
    ASSUME NEW j \in Nat, NEW k \in Nat, j < k
    PROVE  FirstOf(j + 1) <= FirstOf(k)
<1>1. BATCH_ROWS \in Nat
  BY LoaderAssumption
<1>2. PICK d \in Nat : k = (j + 1) + d
  <2>1. k - (j + 1) \in Nat /\ k = (j + 1) + (k - (j + 1))
    OBVIOUS
  <2> QED
    BY <2>1
<1>3. k * BATCH_ROWS = (j + 1) * BATCH_ROWS + d * BATCH_ROWS
  BY <1>1, <1>2
<1>4. d * BATCH_ROWS \in Nat /\ (j + 1) * BATCH_ROWS \in Nat
  BY <1>1
<1> HIDE <1>2
<1> QED
  BY <1>3, <1>4 DEF FirstOf

\* A count lies in one batch only.
LEMMA OneBatch ==
    ASSUME NEW j \in Nat, NEW k \in Nat, NEW c \in Nat,
           FirstOf(j) <= c, c < FirstOf(j + 1), FirstOf(k) <= c, c < FirstOf(k + 1)
    PROVE  j = k
<1>1. FirstOf(j) \in Nat /\ FirstOf(k) \in Nat /\ FirstOf(j + 1) \in Nat /\ FirstOf(k + 1) \in Nat
  BY FirstOfStep, LoaderAssumption
<1>2. ~(j < k)
  BY FirstOfOrder, <1>1
<1>3. ~(k < j)
  BY FirstOfOrder, <1>1
<1> QED
  BY <1>2, <1>3

LEMMA CountType ==
    ASSUME NEW f, NEW p, NEW n \in Nat
    PROVE  /\ IsFiniteSet(NumberedBefore(f, p, n)) /\ IsFiniteSet(RecordsBefore(f, p, n))
           /\ Cardinality(NumberedBefore(f, p, n)) \in Nat /\ Count(f, p, n) \in Nat
<1>1. IsFiniteSet(1 .. (n - 1))
  BY FS_Interval
<1>2. NumberedBefore(f, p, n) \subseteq 1 .. (n - 1) /\ RecordsBefore(f, p, n) \subseteq 1 .. (n - 1)
  BY DEF NumberedBefore, RecordsBefore
<1>3. IsFiniteSet(NumberedBefore(f, p, n)) /\ IsFiniteSet(RecordsBefore(f, p, n))
  BY <1>1, <1>2, FS_Subset
<1> QED
  BY <1>3, FS_CardinalityType DEF Count

\* The counts one line further.
LEMMA CountStep ==
    ASSUME NEW f, NEW p, NEW n \in Nat \ {0}
    PROVE  /\ Cardinality(NumberedBefore(f, p, n + 1)) = Cardinality(NumberedBefore(f, p, n))
                + (IF Numbered(f, n) /\ Part(f, n) = p THEN 1 ELSE 0)
           /\ Count(f, p, n + 1) = Count(f, p, n)
                + (IF Numbered(f, n) /\ Part(f, n) = p /\ IsRecord(f[n]) THEN 1 ELSE 0)
<1>1. 1 .. ((n + 1) - 1) = (1 .. (n - 1)) \cup {n} /\ n \notin 1 .. (n - 1)
  OBVIOUS
<1>2. NumberedBefore(f, p, n + 1) = IF Numbered(f, n) /\ Part(f, n) = p
                                     THEN NumberedBefore(f, p, n) \cup {n} ELSE NumberedBefore(f, p, n)
  BY <1>1 DEF NumberedBefore
<1>3. n \notin NumberedBefore(f, p, n) /\ n \notin RecordsBefore(f, p, n)
  BY <1>1 DEF NumberedBefore, RecordsBefore
<1>4. RecordsBefore(f, p, n + 1) = IF Numbered(f, n) /\ Part(f, n) = p /\ IsRecord(f[n])
                                    THEN RecordsBefore(f, p, n) \cup {n} ELSE RecordsBefore(f, p, n)
  BY <1>2 DEF RecordsBefore
<1>5. /\ IsFiniteSet(NumberedBefore(f, p, n)) /\ IsFiniteSet(RecordsBefore(f, p, n))
      /\ Cardinality(NumberedBefore(f, p, n)) \in Nat /\ Count(f, p, n) \in Nat
  BY CountType
<1>6. /\ Cardinality(NumberedBefore(f, p, n) \cup {n}) = Cardinality(NumberedBefore(f, p, n)) + 1
      /\ Cardinality(RecordsBefore(f, p, n) \cup {n}) = Cardinality(RecordsBefore(f, p, n)) + 1
  BY <1>3, <1>5, FS_AddElement
<1> QED
  BY <1>2, <1>4, <1>5, <1>6 DEF Count

\* The counts between two lines: they never fall, and rise with a line that is counted.
LEMMA CountGrows ==
    ASSUME NEW f, NEW p, NEW m \in Nat, NEW n \in Nat, m <= n
    PROVE  /\ Count(f, p, m) <= Count(f, p, n)
           /\ m \in RecordsBefore(f, p, n) => Count(f, p, m) < Count(f, p, n)
           /\ m \in NumberedBefore(f, p, n) =>
                Cardinality(NumberedBefore(f, p, m)) < Cardinality(NumberedBefore(f, p, n))
<1>1. NumberedBefore(f, p, m) \subseteq NumberedBefore(f, p, n)
  BY DEF NumberedBefore
<1>2. RecordsBefore(f, p, m) \subseteq RecordsBefore(f, p, n)
  BY <1>1 DEF RecordsBefore
<1>3. m \notin NumberedBefore(f, p, m) /\ m \notin RecordsBefore(f, p, m)
  BY DEF NumberedBefore, RecordsBefore
<1>4. /\ IsFiniteSet(NumberedBefore(f, p, n)) /\ IsFiniteSet(RecordsBefore(f, p, n))
      /\ Cardinality(NumberedBefore(f, p, n)) \in Nat /\ Count(f, p, n) \in Nat
      /\ Cardinality(NumberedBefore(f, p, m)) \in Nat /\ Count(f, p, m) \in Nat
  BY CountType
<1>5. Count(f, p, m) <= Count(f, p, n)
  BY <1>2, <1>4, FS_Subset DEF Count
<1>6. ASSUME m \in RecordsBefore(f, p, n)
      PROVE  Count(f, p, m) < Count(f, p, n)
  <2>1. RecordsBefore(f, p, m) # RecordsBefore(f, p, n)
    BY <1>3, <1>6
  <2>2. Cardinality(RecordsBefore(f, p, m)) < Cardinality(RecordsBefore(f, p, n))
    BY <1>2, <1>4, <2>1, FS_Subset DEF Count
  <2> QED
    BY <2>2 DEF Count
<1>7. ASSUME m \in NumberedBefore(f, p, n)
      PROVE  Cardinality(NumberedBefore(f, p, m)) < Cardinality(NumberedBefore(f, p, n))
  <2>1. NumberedBefore(f, p, m) # NumberedBefore(f, p, n)
    BY <1>3, <1>7
  <2> QED
    BY <1>1, <1>4, <2>1, FS_Subset
<1> QED
  BY <1>5, <1>6, <1>7

\* Two lines of a partition never share an offset.
LEMMA OffsetsDiffer ==
    ASSUME NEW f, f \in Seq(Lines), NEW m, NEW n, Numbered(f, m), Numbered(f, n),
           Part(f, m) = Part(f, n), OffsetOf(f, m) = OffsetOf(f, n)
    PROVE  m = n
<1>1. m \in Nat \ {0} /\ n \in Nat \ {0}
  BY DEF Numbered
<1>2. ~(m < n)
  <2>1. SUFFICES ASSUME m < n PROVE FALSE
    OBVIOUS
  <2>2. m \in NumberedBefore(f, Part(f, n), n)
    BY <1>1, <2>1 DEF NumberedBefore
  <2>3. Cardinality(NumberedBefore(f, Part(f, n), m)) < Cardinality(NumberedBefore(f, Part(f, n), n))
    BY <1>1, <2>1, <2>2, CountGrows
  <2> QED
    BY <1>1, <2>3, CountType DEF OffsetOf
<1>3. ~(n < m)
  <2>1. SUFFICES ASSUME n < m PROVE FALSE
    OBVIOUS
  <2>2. n \in NumberedBefore(f, Part(f, m), m)
    BY <1>1, <2>1 DEF NumberedBefore
  <2>3. Cardinality(NumberedBefore(f, Part(f, m), n)) < Cardinality(NumberedBefore(f, Part(f, m), m))
    BY <1>1, <2>1, <2>2, CountGrows
  <2> QED
    BY <1>1, <2>3, CountType DEF OffsetOf
<1> QED
  BY <1>1, <1>2, <1>3

-----------------------------------------------------------------------------
(* Lists in the order of the file *)

LEMMA Least ==
    ASSUME NEW T, T \subseteq Nat, T # {}
    PROVE  \E x \in T : \A y \in T : x <= y
<1> DEFINE Below == OpToRel(<, Nat)
<1>0. IsWellFoundedOn(Below, Nat)
  BY NatLessThanWellFounded
<1>3. \A x, y \in Nat : y < x => <<y, x>> \in Below
  BY DEF OpToRel
<1> HIDE DEF Below
<1>1. PICK x \in T : \A y \in T : <<y, x>> \notin Below
  BY <1>0, WFMin
<1>2. ASSUME NEW y \in T PROVE x <= y
  <2>1. x \in Nat /\ y \in Nat
    OBVIOUS
  <2>2. <<y, x>> \notin Below
    BY <1>1
  <2>3. ~(y < x)
    BY <1>3, <2>1, <2>2
  <2> QED
    BY <2>1, <2>3
<1> QED
  BY <1>2

LEMMA LowestIsIn ==
    ASSUME NEW T, T \subseteq Nat, T # {}
    PROVE  Lowest(T) \in T
<1>1. \E x \in T : \A y \in T : x <= y
  BY Least
<1> QED
  BY <1>1 DEF Lowest

LEMMA RowsOfList ==
    ASSUME NEW f, NEW p, NEW list, Proper(f, p, list)
    PROVE  list \in Seq(Row) /\ \A i \in DOMAIN list : list[i].line \in Nat /\ list[i].offset \in Nat
<1>1. list \in Seq(Row)
  BY DEF Proper
<1>2. \A i \in DOMAIN list : list[i] \in Row
  BY <1>1
<1> QED
  BY <1>1, <1>2 DEF Row

\* Where two lists of the same lines agree so far, the second is not behind.
LEMMA InStep ==
    ASSUME NEW f, NEW p, NEW s, NEW t, Proper(f, p, s), Proper(f, p, t), LinesOf(s) \subseteq LinesOf(t),
           NEW i \in DOMAIN s, \A k \in 1 .. (i - 1) : k \in DOMAIN t /\ s[k].line = t[k].line
    PROVE  i \in DOMAIN t /\ t[i].line <= s[i].line
<1>1. /\ s \in Seq(Row) /\ t \in Seq(Row) /\ i \in Nat \ {0}
      /\ \A k \in DOMAIN s : s[k].line \in Nat
      /\ \A k \in DOMAIN t : t[k].line \in Nat
  BY RowsOfList
<1>2. PICK m \in DOMAIN t : t[m].line = s[i].line
  BY DEF LinesOf
<1>3. ~(m < i)
  <2>1. SUFFICES ASSUME m < i PROVE FALSE
    OBVIOUS
  <2>2. m \in 1 .. (i - 1)
    BY <1>1, <2>1
  <2>3. s[m].line = s[i].line /\ m \in DOMAIN s
    BY <1>1, <1>2, <2>2
  <2>4. s[m].line < s[i].line
    BY <2>1, <2>3 DEF Proper
  <2> QED
    BY <1>1, <2>3, <2>4
<1>4. i \in DOMAIN t
  BY <1>1, <1>3
<1>5. i < m => t[i].line < t[m].line
  BY <1>4 DEF Proper
<1>6. t[i].line \in Nat /\ t[m].line \in Nat /\ m \in Nat
  BY <1>1, <1>4
<1> QED
  BY <1>1, <1>2, <1>3, <1>4, <1>5, <1>6

LEMMA Agree ==
    ASSUME NEW f, NEW p, NEW s, NEW t, Proper(f, p, s), Proper(f, p, t), LinesOf(s) = LinesOf(t),
           NEW i \in DOMAIN s
    PROVE  i \in DOMAIN t /\ s[i].line = t[i].line
<1>1. s \in Seq(Row) /\ t \in Seq(Row)
  BY DEF Proper
<1>2. /\ \A k \in DOMAIN s : s[k].line \in Nat
      /\ \A k \in DOMAIN t : t[k].line \in Nat
  BY RowsOfList
<1> DEFINE Astray == {k \in DOMAIN s : ~(k \in DOMAIN t /\ s[k].line = t[k].line)}
<1>3. SUFFICES ASSUME Astray # {} PROVE FALSE
  OBVIOUS
<1>4. Astray \subseteq Nat
  BY <1>1
<1>5. PICK k \in Astray : \A l \in Astray : k <= l
  <2> HIDE DEF Astray
  <2> QED
    BY <1>3, <1>4, Least
<1>6. \A l \in 1 .. (k - 1) : l \in DOMAIN s /\ l \in DOMAIN t /\ s[l].line = t[l].line
  <2>1. TAKE l \in 1 .. (k - 1)
  <2>2. l \in DOMAIN s /\ ~(k <= l)
    BY <1>1, <1>5
  <2> QED
    BY <1>5, <2>2
<1>7. k \in DOMAIN s
  OBVIOUS
<1>8. k \in DOMAIN t /\ t[k].line <= s[k].line
  BY <1>6, <1>7, InStep
<1>9. s[k].line <= t[k].line
  BY <1>6, <1>8, InStep
<1>10. s[k].line = t[k].line
  BY <1>2, <1>7, <1>8, <1>9
<1> QED
  BY <1>8, <1>10

\* The lines of a list determine it.
LEMMA LinesDetermine ==
    ASSUME NEW f, NEW p, NEW s, NEW t, Proper(f, p, s), Proper(f, p, t), LinesOf(s) = LinesOf(t)
    PROVE  s = t
<1>1. s \in Seq(Row) /\ t \in Seq(Row)
  BY DEF Proper
<1>2. DOMAIN s = DOMAIN t
  <2>1. \A i \in DOMAIN s : i \in DOMAIN t
    BY Agree
  <2>2. \A i \in DOMAIN t : i \in DOMAIN s
    BY Agree
  <2> QED
    BY <2>1, <2>2
<1>3. ASSUME NEW i \in DOMAIN s PROVE s[i] = t[i]
  <2>1. s[i].line = t[i].line
    BY Agree
  <2>2. s[i].offset = t[i].offset
    BY <1>2, <2>1 DEF Proper
  <2>3. s[i] \in Row /\ t[i] \in Row
    BY <1>1, <1>2
  <2> QED
    BY <2>1, <2>2, <2>3 DEF Row
<1>4. Len(s) = Len(t)
  BY <1>1, <1>2
<1> QED
  BY <1>1, <1>3, <1>4

-----------------------------------------------------------------------------
(* The lake *)

\* An object that shares a line with a batch of its partition is that batch.
LEMMA SameBatch ==
    ASSUME NEW f, f \in Seq(Lines), NEW store, NEW table, StoreInv(f, store, table), NEW k \in DOMAIN store,
           NEW list, Proper(f, k.part, list), NEW j \in Nat, LinesOf(list) = Batch(f, k.part, j, table),
           NEW n, n \in LinesOf(list), n \in LinesOf(store[k])
    PROVE  store[k] = list
<1>1. Proper(f, k.part, store[k])
  BY DEF StoreInv
<1>2. PICK i \in Nat : LinesOf(store[k]) = Batch(f, k.part, i, table)
  BY DEF StoreInv
<1>3. InBatch(f, k.part, i, n) /\ InBatch(f, k.part, j, n)
  BY <1>2 DEF Batch
<1>4. n \in Nat
  BY <1>3 DEF InBatch, Numbered
<1>5. Count(f, k.part, n) \in Nat
  BY <1>4, CountType
<1>6. i = j
  BY <1>3, <1>5, OneBatch DEF InBatch
<1> QED
  BY <1>1, <1>2, <1>6, LinesDetermine

\* Rows of a partition with an offset in common have a line in common.
LEMMA SharedOffset ==
    ASSUME NEW f, f \in Seq(Lines), NEW p, NEW s, NEW t, Proper(f, p, s), Proper(f, p, t),
           NEW o, o \in Offsets(s), o \in Offsets(t)
    PROVE  \E n : n \in LinesOf(s) /\ n \in LinesOf(t)
<1>1. PICK i \in DOMAIN s : s[i].offset = o
  BY DEF Offsets
<1>2. PICK l \in DOMAIN t : t[l].offset = o
  BY DEF Offsets
<1>3. s[i].line = t[l].line
  BY <1>1, <1>2, OffsetsDiffer DEF Proper
<1> QED
  BY <1>3 DEF LinesOf

LEMMA OffsetsOfList ==
    ASSUME NEW f, NEW p, NEW list, Proper(f, p, list), list # <<>>
    PROVE  Offsets(list) \subseteq Nat /\ Lowest(Offsets(list)) \in Offsets(list)
<1>1. list \in Seq(Row) /\ 1 \in DOMAIN list
  BY DEF Proper
<1>2. Offsets(list) \subseteq Nat
  BY RowsOfList DEF Offsets
<1>3. list[1].offset \in Offsets(list)
  BY <1>1 DEF Offsets
<1> QED
  BY <1>2, <1>3, LowestIsIn

\* The name of an object is the name of what it holds: a batch that is written again
\* in the slot replaces itself.
LEMMA PutAgain ==
    ASSUME NEW f, f \in Seq(Lines), NEW store, NEW table, StoreInv(f, store, table),
           NEW p, NEW slot, NEW list, list # <<>>, Proper(f, p, list),
           NEW j \in Nat, LinesOf(list) = Batch(f, p, j, table),
           ObjectKey(p, slot, list) \in DOMAIN store
    PROVE  store[ObjectKey(p, slot, list)] = list
<1> DEFINE k == ObjectKey(p, slot, list)
<1>1. k.part = p /\ k.slot = slot /\ k.first = Lowest(Offsets(list))
  BY DEF ObjectKey
<1>2. /\ store[k] # <<>> /\ Proper(f, k.part, store[k])
      /\ k = ObjectKey(k.part, k.slot, store[k])
  BY DEF StoreInv
<1>3. k.first = Lowest(Offsets(store[k]))
  BY <1>2 DEF ObjectKey
<1> HIDE DEF k
<1>4. k.first \in Offsets(list) /\ k.first \in Offsets(store[k])
  BY <1>1, <1>2, <1>3, OffsetsOfList
<1>5. PICK n : n \in LinesOf(list) /\ n \in LinesOf(store[k])
  BY <1>1, <1>2, <1>4, SharedOffset
<1>6. k \in DOMAIN store
  BY DEF k
<1>7. store[k] = list
  BY <1>1, <1>5, <1>6, SameBatch
<1> QED
  BY <1>7 DEF k

\* A write into a store: it holds the batch, and all it held before.
LEMMA PutBatch ==
    ASSUME NEW f, f \in Seq(Lines), NEW store, NEW table, StoreInv(f, store, table),
           NEW p, NEW slot, NEW list, Proper(f, p, list),
           list # <<>> => \E j \in Nat : LinesOf(list) = Batch(f, p, j, table),
           NEW after, after = Put(store, p, slot, list)
    PROVE  /\ StoreInv(f, after, table)
           /\ \A k \in DOMAIN store : k \in DOMAIN after /\ after[k] = store[k]
           /\ list # <<>> => \E k \in DOMAIN after : k.part = p /\ k.slot = slot /\ after[k] = list
<1>1. CASE list = <<>>
  BY <1>1 DEF Put
<1>2. CASE list # <<>>
  <2> DEFINE key == ObjectKey(p, slot, list)
  <2>1. key.part = p /\ key.slot = slot /\ key = ObjectKey(key.part, key.slot, list)
    BY DEF ObjectKey
  <2>2. PICK j \in Nat : LinesOf(list) = Batch(f, p, j, table)
    BY <1>2
  <2>3. key \in DOMAIN store => store[key] = list
    BY <1>2, <2>2, PutAgain
  <2>4. after = [k \in DOMAIN store \cup {key} |-> IF k = key THEN list ELSE store[k]]
    BY <1>2 DEF Put
  <2> HIDE DEF key
  <2>5. DOMAIN after = DOMAIN store \cup {key} /\ after[key] = list
    BY <2>4
  <2>6. \A k \in DOMAIN store : after[k] = store[k]
    BY <2>3, <2>4
  <2>7. after = [k \in DOMAIN after |-> after[k]]
    BY <2>4
  <2>8. ASSUME NEW k \in DOMAIN after
        PROVE  /\ after[k] # <<>> /\ Proper(f, k.part, after[k])
               /\ k = ObjectKey(k.part, k.slot, after[k])
               /\ \E i \in Nat : LinesOf(after[k]) = Batch(f, k.part, i, table)
    <3>1. CASE k = key
      BY <1>2, <2>1, <2>2, <2>5, <3>1
    <3>2. CASE k \in DOMAIN store
      BY <2>6, <3>2 DEF StoreInv
    <3> QED
      BY <2>5, <3>1, <3>2
  <2>9. StoreInv(f, after, table)
    BY <2>7, <2>8 DEF StoreInv
  <2> QED
    BY <2>1, <2>5, <2>6, <2>9
<1> QED
  BY <1>1, <1>2

\* A write into a slot that has a line of the batch already changes nothing.
LEMMA PutKnown ==
    ASSUME NEW f, f \in Seq(Lines), NEW store, NEW table, StoreInv(f, store, table),
           NEW p, NEW slot, NEW list, Proper(f, p, list), list # <<>>,
           NEW j \in Nat, LinesOf(list) = Batch(f, p, j, table),
           NEW k \in DOMAIN store, k.part = p, k.slot = slot,
           NEW n, n \in LinesOf(list), n \in LinesOf(store[k])
    PROVE  Put(store, p, slot, list) = store
<1>1. store[k] = list
  BY SameBatch
<1>2. ObjectKey(p, slot, list) = k
  BY <1>1 DEF StoreInv
<1>3. Put(store, p, slot, list) = [l \in DOMAIN store \cup {k} |-> IF l = k THEN list ELSE store[l]]
  BY <1>2 DEF Put
<1>4. DOMAIN store \cup {k} = DOMAIN store
  OBVIOUS
<1>5. [l \in DOMAIN store |-> IF l = k THEN list ELSE store[l]] = [l \in DOMAIN store |-> store[l]]
  BY <1>1
<1> QED
  BY <1>3, <1>4, <1>5 DEF StoreInv

LEMMA StoredRow ==
    ASSUME NEW f, NEW store, NEW table, StoreInv(f, store, table), NEW r \in Stored(store)
    PROVE  Numbered(f, r.line) /\ Part(f, r.line) = r.part /\ r.offset = OffsetOf(f, r.line)
<1>1. PICK k \in DOMAIN store : \E i \in DOMAIN store[k] :
         r = [part |-> k.part, slot |-> k.slot, line |-> store[k][i].line, offset |-> store[k][i].offset]
  BY DEF Stored
<1>2. PICK i \in DOMAIN store[k] :
         r = [part |-> k.part, slot |-> k.slot, line |-> store[k][i].line, offset |-> store[k][i].offset]
  BY <1>1
<1>3. Proper(f, k.part, store[k])
  BY DEF StoreInv
<1> QED
  BY <1>2, <1>3 DEF Proper

\* What the stores' invariant says of the lake.
LEMMA StoresRowsOnce ==
    ASSUME file \in Seq(Lines), StoresInv
    PROVE  RowsOncePerSlot
<1>1. SUFFICES ASSUME NEW store \in {bronze, quarantine}, NEW k \in DOMAIN store, NEW l \in DOMAIN store,
                      k.part = l.part, k.slot = l.slot,
                      LinesOf(store[k]) \cap LinesOf(store[l]) # {}
               PROVE  k = l
  BY DEF RowsOncePerSlot, LinesOf
<1>2. PICK table : StoreInv(file, store, table)
  BY DEF StoresInv
<1>3. PICK n : n \in LinesOf(store[k]) /\ n \in LinesOf(store[l])
  BY <1>1
<1>4. /\ Proper(file, k.part, store[l])
      /\ k = ObjectKey(k.part, k.slot, store[k]) /\ l = ObjectKey(l.part, l.slot, store[l])
  BY <1>1, <1>2 DEF StoreInv
<1>5. PICK j \in Nat : LinesOf(store[l]) = Batch(file, k.part, j, table)
  BY <1>1, <1>2 DEF StoreInv
<1>6. store[k] = store[l]
  BY <1>2, <1>3, <1>4, <1>5, SameBatch
<1> QED
  BY <1>1, <1>4, <1>6

LEMMA StoresOffsets ==
    ASSUME file \in Seq(Lines), StoresInv
    PROVE  OffsetsNameLines
<1>1. SUFFICES ASSUME NEW r \in Stored(bronze) \cup Stored(quarantine),
                      NEW q \in Stored(bronze) \cup Stored(quarantine), r.part = q.part
               PROVE  r.offset = q.offset <=> r.line = q.line
  BY DEF OffsetsNameLines
<1>2. Numbered(file, r.line) /\ Part(file, r.line) = r.part /\ r.offset = OffsetOf(file, r.line)
  BY StoredRow DEF StoresInv
<1>3. Numbered(file, q.line) /\ Part(file, q.line) = q.part /\ q.offset = OffsetOf(file, q.line)
  BY StoredRow DEF StoresInv
<1> QED
  BY <1>1, <1>2, <1>3, OffsetsDiffer

-----------------------------------------------------------------------------
(* The batches that wait *)

\* A batch is read when the next one begins, and at the end of the file.
LEMMA WholeBatch ==
    ASSUME NEW f, f \in Seq(Lines), NEW p, NEW j \in Nat, NEW table, NEW n \in 1 .. (Len(f) + 1),
           Count(f, p, n) = FirstOf(j + 1) \/ n = Len(f) + 1
    PROVE  Read(f, p, j, table, n) = Batch(f, p, j, table)
<1>1. SUFFICES ASSUME NEW m \in Batch(f, p, j, table) PROVE m < n
  BY DEF Read
<1>2. m \in 1 .. Len(f) /\ InBatch(f, p, j, m)
  BY DEF Batch
<1>3. CASE n = Len(f) + 1
  BY <1>2, <1>3
<1>4. CASE Count(f, p, n) = FirstOf(j + 1)
  <2>1. Count(f, p, m) < Count(f, p, n)
    BY <1>2, <1>4 DEF InBatch
  <2>2. Count(f, p, m) \in Nat /\ Count(f, p, n) \in Nat
    BY <1>2, CountType
  <2>3. n <= m => Count(f, p, n) <= Count(f, p, m)
    BY <1>2, CountGrows
  <2> QED
    BY <1>2, <2>1, <2>2, <2>3
<1> QED
  BY <1>3, <1>4

LEMMA BatchType ==
    ASSUME NEW f, f \in Seq(Lines), NEW p, NEW j, NEW table
    PROVE  Batch(f, p, j, table) \subseteq Nat
BY DEF Batch

\* One line further, a batch has that line too only if it is in it.
LEMMA ReadStep ==
    ASSUME NEW f, f \in Seq(Lines), NEW p, NEW j, NEW table, NEW n \in Nat, n \notin Batch(f, p, j, table)
    PROVE  Read(f, p, j, table, n + 1) = Read(f, p, j, table, n)
BY BatchType DEF Read

\* A line that is not numbered in a partition changes nothing there.
LEMMA OtherLine ==
    ASSUME NEW f, f \in Seq(Lines), NEW p, NEW n \in 1 .. Len(f), ~(Numbered(f, n) /\ Part(f, n) = p)
    PROVE  /\ Cardinality(NumberedBefore(f, p, n + 1)) = Cardinality(NumberedBefore(f, p, n))
           /\ Count(f, p, n + 1) = Count(f, p, n)
           /\ \A j \in Nat : \A table : Read(f, p, j, table, n + 1) = Read(f, p, j, table, n)
<1>1. /\ Cardinality(NumberedBefore(f, p, n)) \in Nat /\ Count(f, p, n) \in Nat
  BY CountType
<1>2. /\ Cardinality(NumberedBefore(f, p, n + 1)) = Cardinality(NumberedBefore(f, p, n))
      /\ Count(f, p, n + 1) = Count(f, p, n)
  BY <1>1, CountStep
<1>3. ASSUME NEW j \in Nat, NEW table
      PROVE  Read(f, p, j, table, n + 1) = Read(f, p, j, table, n)
  <2>1. n \notin Batch(f, p, j, table)
    BY DEF Batch, InBatch
  <2> QED
    BY <2>1, ReadStep
<1> QED
  BY <1>2, <1>3

\* Nothing of a batch is read when the batch before it has just been filled.
LEMMA FreshBatch ==
    ASSUME NEW f, f \in Seq(Lines), NEW p, NEW j \in Nat, NEW n \in 1 .. (Len(f) + 1),
           Count(f, p, n) = FirstOf(j)
    PROVE  /\ Read(f, p, j, "bronze", n) = {}
           /\ n - 1 \in RecordsBefore(f, p, n) => Read(f, p, j, "quarantine", n) = {}
<1>1. ASSUME NEW table, NEW m \in Read(f, p, j, table, n)
      PROVE  /\ m \in 1 .. Len(f) /\ m < n /\ Numbered(f, m) /\ Part(f, m) = p
             /\ (IsRecord(f[m]) <=> table = "bronze") /\ Count(f, p, n) <= Count(f, p, m)
             /\ Count(f, p, m) \in Nat /\ Count(f, p, n) \in Nat
  <2>1. m \in DOMAIN f /\ m < n /\ InBatch(f, p, j, m) /\ (IsRecord(f[m]) <=> table = "bronze")
    BY <1>1 DEF Read, Batch
  <2>2. m \in 1 .. Len(f)
    BY <2>1
  <2> QED
    BY <2>1, <2>2, CountType DEF InBatch
<1>2. ASSUME NEW m \in Read(f, p, j, "bronze", n) PROVE FALSE
  <2>1. m \in 1 .. Len(f) /\ m < n /\ Numbered(f, m) /\ Part(f, m) = p /\ IsRecord(f[m])
    BY <1>1
  <2>2. m \in RecordsBefore(f, p, n)
    BY <2>1 DEF RecordsBefore, NumberedBefore
  <2>3. Count(f, p, m) < Count(f, p, n)
    BY <2>1, <2>2, CountGrows
  <2>4. Count(f, p, n) <= Count(f, p, m) /\ Count(f, p, m) \in Nat /\ Count(f, p, n) \in Nat
    BY <1>1
  <2> QED
    BY <2>3, <2>4
<1>3. ASSUME n - 1 \in RecordsBefore(f, p, n), NEW m \in Read(f, p, j, "quarantine", n)
      PROVE  FALSE
  <2>1. m \in 1 .. Len(f) /\ m < n /\ ~IsRecord(f[m])
    BY <1>1
  <2>2. n - 1 \in 1 .. Len(f) /\ IsRecord(f[n - 1])
    BY <1>3 DEF RecordsBefore, NumberedBefore
  <2>3. m # n - 1
    BY <2>1, <2>2
  <2>4. m <= n - 1
    BY <2>1, <2>2
  <2>5. Count(f, p, m) <= Count(f, p, n - 1)
    BY <2>1, <2>2, <2>4, CountGrows
  <2>6. Count(f, p, n - 1) < Count(f, p, n)
    BY <1>3, <2>2, CountGrows
  <2>7. Count(f, p, n - 1) \in Nat
    BY <2>2, CountType
  <2>8. Count(f, p, n) <= Count(f, p, m) /\ Count(f, p, m) \in Nat /\ Count(f, p, n) \in Nat
    BY <1>1
  <2> QED
    BY <2>5, <2>6, <2>7, <2>8
<1> QED
  BY <1>2, <1>3

\* The next line of a partition at the end of a list of it.
LEMMA AppendLine ==
    ASSUME NEW f, NEW p, NEW n, LineOf(f, p, n), NEW list, Proper(f, p, list), Before(list, n)
    PROVE  /\ Proper(f, p, WithLine(f, list, n)) /\ LinesOf(WithLine(f, list, n)) = LinesOf(list) \cup {n}
           /\ Len(WithLine(f, list, n)) = Len(list) + 1 /\ Len(list) \in Nat
           /\ Before(WithLine(f, list, n), n + 1)
<1> DEFINE row == [line |-> n, offset |-> OffsetOf(f, n)]
<1> DEFINE new == WithLine(f, list, n)
<1>0. n \in Nat /\ Numbered(f, n) /\ Part(f, n) = p
  BY DEF LineOf
<1>1. row \in Row /\ row.line = n /\ row.offset = OffsetOf(f, n)
  BY <1>0, CountType DEF Row, OffsetOf
<1>3. new = Append(list, row)
  BY DEF WithLine
<1> HIDE DEF row, new
<1>2. list \in Seq(Row) /\ \A i \in DOMAIN list : list[i].line \in Nat
  BY RowsOfList
<1>4. /\ new \in Seq(Row) /\ Len(new) = Len(list) + 1 /\ Len(list) \in Nat
      /\ DOMAIN new = DOMAIN list \cup {Len(list) + 1}
      /\ new[Len(list) + 1] = row
      /\ \A i \in DOMAIN list : new[i] = list[i]
  BY <1>1, <1>2, <1>3
<1>5. \A i \in DOMAIN new : \/ i \in DOMAIN list /\ new[i] = list[i]
                            \/ i = Len(list) + 1 /\ new[i] = row
  BY <1>4
<1>6. \A i \in DOMAIN new : /\ Numbered(f, new[i].line) /\ Part(f, new[i].line) = p
                            /\ new[i].offset = OffsetOf(f, new[i].line)
  BY <1>0, <1>1, <1>5 DEF Proper
<1>7. ASSUME NEW i \in DOMAIN new, NEW k \in DOMAIN new, i < k
      PROVE  new[i].line < new[k].line
  <2>1. i \in DOMAIN list
    BY <1>2, <1>4, <1>7
  <2>2. CASE k \in DOMAIN list
    BY <1>4, <1>7, <2>1, <2>2 DEF Proper
  <2>3. CASE k = Len(list) + 1
    BY <1>1, <1>4, <2>1, <2>3 DEF Before
  <2> QED
    BY <1>5, <2>2, <2>3
<1>8. LinesOf(new) = LinesOf(list) \cup {n}
  BY <1>1, <1>4 DEF LinesOf
<1>9. Before(new, n + 1)
  BY <1>0, <1>1, <1>2, <1>5 DEF Before
<1> QED
  BY <1>4, <1>6, <1>7, <1>8, <1>9 DEF Proper, new

LEMMA BeforeNext ==
    ASSUME NEW f, NEW p, NEW list, Proper(f, p, list), NEW n \in Nat, Before(list, n)
    PROVE  Before(list, n + 1)
BY RowsOfList DEF Before

\* The next record of a partition, in batch j with its len records so far.
LEMMA NextRecord ==
    ASSUME NEW f, NEW p, NEW n, LineOf(f, p, n), IsRecord(f[n]),
           NEW j \in Nat, NEW len \in Nat, len < BATCH_ROWS, Count(f, p, n) = FirstOf(j) + len
    PROVE  /\ Cardinality(NumberedBefore(f, p, n + 1)) = Cardinality(NumberedBefore(f, p, n)) + 1
           /\ Count(f, p, n + 1) = FirstOf(j) + (len + 1)
           /\ Read(f, p, j, "bronze", n + 1) = Read(f, p, j, "bronze", n) \cup {n}
           /\ Read(f, p, j, "quarantine", n + 1) = Read(f, p, j, "quarantine", n)
           /\ FirstOf(j) <= Count(f, p, n) /\ Count(f, p, n) < FirstOf(j + 1)
           /\ FirstOf(j) <= Count(f, p, n + 1) /\ Count(f, p, n) \in Nat
           /\ len + 1 = BATCH_ROWS => Count(f, p, n + 1) = FirstOf(j + 1)
           /\ len + 1 < BATCH_ROWS => Count(f, p, n + 1) < FirstOf(j + 1)
<1>0. f \in Seq(Lines) /\ n \in Nat \ {0} /\ n \in DOMAIN f /\ Numbered(f, n) /\ Part(f, n) = p
  BY DEF LineOf
<1>1. FirstOf(j) \in Nat /\ FirstOf(j + 1) = FirstOf(j) + BATCH_ROWS /\ BATCH_ROWS \in Nat
  BY FirstOfStep, LoaderAssumption
<1>2. Cardinality(NumberedBefore(f, p, n)) \in Nat /\ Count(f, p, n) \in Nat
  BY <1>0, CountType
<1>3. /\ Cardinality(NumberedBefore(f, p, n + 1)) = Cardinality(NumberedBefore(f, p, n)) + 1
      /\ Count(f, p, n + 1) = Count(f, p, n) + 1
  BY <1>0, CountStep
<1>4. FirstOf(j) <= Count(f, p, n) /\ Count(f, p, n) < FirstOf(j + 1)
  BY <1>1
<1>5. n \in Batch(f, p, j, "bronze") /\ n \notin Batch(f, p, j, "quarantine")
  BY <1>0, <1>4 DEF Batch, InBatch, IsRecord
<1>6. Read(f, p, j, "bronze", n + 1) = Read(f, p, j, "bronze", n) \cup {n}
  BY <1>0, <1>5, BatchType DEF Read
<1>7. Read(f, p, j, "quarantine", n + 1) = Read(f, p, j, "quarantine", n)
  BY <1>0, <1>5, ReadStep
<1>8. /\ Count(f, p, n + 1) = FirstOf(j) + (len + 1) /\ FirstOf(j) <= Count(f, p, n + 1)
      /\ len + 1 = BATCH_ROWS => Count(f, p, n + 1) = FirstOf(j + 1)
      /\ len + 1 < BATCH_ROWS => Count(f, p, n + 1) < FirstOf(j + 1)
  BY <1>1, <1>2, <1>3
<1> QED
  BY <1>2, <1>3, <1>4, <1>6, <1>7, <1>8

\* The next reject of a partition.
LEMMA NextReject ==
    ASSUME NEW f, NEW p, NEW n, LineOf(f, p, n), ~IsRecord(f[n]),
           NEW j \in Nat, FirstOf(j) <= Count(f, p, n), Count(f, p, n) < FirstOf(j + 1)
    PROVE  /\ Cardinality(NumberedBefore(f, p, n + 1)) = Cardinality(NumberedBefore(f, p, n)) + 1
           /\ Count(f, p, n + 1) = Count(f, p, n)
           /\ \A i \in Nat : Read(f, p, i, "bronze", n + 1) = Read(f, p, i, "bronze", n)
           /\ Read(f, p, j, "quarantine", n + 1) = Read(f, p, j, "quarantine", n) \cup {n}
<1>0. f \in Seq(Lines) /\ n \in Nat \ {0} /\ n \in DOMAIN f /\ Numbered(f, n) /\ Part(f, n) = p
  BY DEF LineOf
<1>1. Cardinality(NumberedBefore(f, p, n)) \in Nat /\ Count(f, p, n) \in Nat
  BY <1>0, CountType
<1>2. /\ Cardinality(NumberedBefore(f, p, n + 1)) = Cardinality(NumberedBefore(f, p, n)) + 1
      /\ Count(f, p, n + 1) = Count(f, p, n)
  BY <1>0, <1>1, CountStep, SMTT(30)
<1>3. n \in Batch(f, p, j, "quarantine") /\ \A i \in Nat : n \notin Batch(f, p, i, "bronze")
  BY <1>0 DEF Batch, InBatch, IsRecord
<1>4. Read(f, p, j, "quarantine", n + 1) = Read(f, p, j, "quarantine", n) \cup {n}
  BY <1>0, <1>3, BatchType DEF Read
<1>5. \A i \in Nat : Read(f, p, i, "bronze", n + 1) = Read(f, p, i, "bronze", n)
  BY <1>0, <1>3, ReadStep
<1> QED
  BY <1>2, <1>4, <1>5

-----------------------------------------------------------------------------
(* Reading a line *)

Waiting(p) == WaitInv(p) /\ RecordsInv(p) /\ RejectsInv(p)

LEMMA PartType ==
    ASSUME NEW f, f \in Seq(Lines), NEW n \in DOMAIN f
    PROVE  Part(f, n) \in Partitions
<1>1. f[n] \in Lines
  OBVIOUS
<1>2. f[n].key \in Machines \/ f[n].key = NoKey
  BY <1>1 DEF Lines
<1> QED
  BY <1>2, LoaderAssumption DEF Part, PartitionFor

LEMMA AtRead ==
    ASSUME FileInv, pc = "read", next <= Len(file)
    PROVE  /\ next \in 1 .. Len(file) /\ next \in Nat /\ todo = Partitions /\ file \in Seq(Lines)
           /\ BATCH_ROWS \in Nat \ {0}
<1>1. BATCH_ROWS \in Nat \ {0}
  BY LoaderAssumption
<1>2. next \in 1 .. Len(file) /\ file \in Seq(Lines)
  BY DEF FileInv
<1>3. next # Len(file) + 1
  BY <1>2
<1> QED
  BY <1>1, <1>2, <1>3 DEF FileInv

\* What waits in a partition while the file is read.
LEMMA WaitsAtRead ==
    ASSUME NEW p, p \in todo, pc = "read", Waiting(p)
    PROVE  /\ Proper(file, p, batches[p]) /\ Proper(file, p, rejects[p])
           /\ Before(batches[p], next) /\ Before(rejects[p], next)
           /\ Len(batches[p]) \in Nat /\ Len(batches[p]) < BATCH_ROWS
           /\ offsets[p] = Cardinality(NumberedBefore(file, p, next))
           /\ \E j \in Nat : /\ Count(file, p, next) = FirstOf(j) + Len(batches[p])
                             /\ LinesOf(batches[p]) = Read(file, p, j, "bronze", next)
           /\ \E j \in Nat : /\ FirstOf(j) <= Count(file, p, next) /\ Count(file, p, next) < FirstOf(j + 1)
                             /\ LinesOf(rejects[p]) = Read(file, p, j, "quarantine", next)
<1>1. /\ Proper(file, p, batches[p]) /\ Proper(file, p, rejects[p])
      /\ Before(batches[p], next) /\ Before(rejects[p], next)
      /\ offsets[p] = Cardinality(NumberedBefore(file, p, next))
  BY DEF Waiting, WaitInv
<1>2. Len(batches[p]) \in Nat
  BY <1>1, RowsOfList
<1>3. /\ Len(batches[p]) < BATCH_ROWS
      /\ \E j \in Nat : /\ Count(file, p, next) = FirstOf(j) + Len(batches[p])
                        /\ LinesOf(batches[p]) = Read(file, p, j, "bronze", next)
  BY DEF Waiting, RecordsInv, Writing
<1>4. \E j \in Nat : /\ FirstOf(j) <= Count(file, p, next) /\ Count(file, p, next) < FirstOf(j + 1)
                     /\ LinesOf(rejects[p]) = Read(file, p, j, "quarantine", next)
  BY DEF Waiting, RejectsInv, Flushing
<1> QED
  BY <1>1, <1>2, <1>3, <1>4

\* A partition the line is not in stays as it is.
LEMMA Elsewhere ==
    ASSUME FileInv, NEW p \in Partitions, Waiting(p), pc = "read", next <= Len(file),
           ~(Numbered(file, next) /\ Part(file, next) = p),
           UNCHANGED <<file, todo>>, next' = next + 1,
           offsets'[p] = offsets[p], batches'[p] = batches[p], rejects'[p] = rejects[p],
           pc' = "read" \/ cur' # p
    PROVE  Waiting(p)'
<1>1. next \in 1 .. Len(file) /\ next \in Nat /\ p \in todo /\ file \in Seq(Lines)
  BY AtRead
<1>3. /\ Cardinality(NumberedBefore(file, p, next + 1)) = Cardinality(NumberedBefore(file, p, next))
      /\ Count(file, p, next + 1) = Count(file, p, next)
      /\ \A j \in Nat : \A table : Read(file, p, j, table, next + 1) = Read(file, p, j, table, next)
  BY <1>1, OtherLine
<1>4. WaitInv(p)'
  <2>1. Before(batches[p], next + 1) /\ Before(rejects[p], next + 1)
    BY <1>1, BeforeNext, WaitsAtRead
  <2> QED
    BY <1>1, <1>3, <2>1, WaitsAtRead DEF WaitInv
<1>5. RecordsInv(p)'
  <2>1. PICK j \in Nat :
           /\ Count(file, p, next) = FirstOf(j) + Len(batches[p])
           /\ LinesOf(batches[p]) = Read(file, p, j, "bronze", next)
           /\ Len(batches[p]) < BATCH_ROWS
    BY <1>1, WaitsAtRead
  <2>2. /\ Count(file, p, next + 1) = FirstOf(j) + Len(batches[p])
        /\ LinesOf(batches[p]) = Read(file, p, j, "bronze", next + 1)
    BY <1>3, <2>1
  <2> QED
    BY <1>1, <2>1, <2>2 DEF RecordsInv, Writing
<1>6. RejectsInv(p)'
  <2>1. PICK j \in Nat :
           /\ FirstOf(j) <= Count(file, p, next) /\ Count(file, p, next) < FirstOf(j + 1)
           /\ LinesOf(rejects[p]) = Read(file, p, j, "quarantine", next)
    BY <1>1, WaitsAtRead
  <2>2. /\ FirstOf(j) <= Count(file, p, next + 1) /\ Count(file, p, next + 1) < FirstOf(j + 1)
        /\ LinesOf(rejects[p]) = Read(file, p, j, "quarantine", next + 1)
    BY <1>3, <2>1
  <2> QED
    BY <1>1, <2>2 DEF RejectsInv, Flushing
<1> QED
  BY <1>4, <1>5, <1>6 DEF Waiting

\* The partition of the line, when it is a record ...
LEMMA OwnRecord ==
    ASSUME FileInv, NEW p \in Partitions, Waiting(p), pc = "read", next <= Len(file),
           LineOf(file, p, next), IsRecord(file[next]),
           UNCHANGED <<file, todo>>, next' = next + 1, offsets'[p] = offsets[p] + 1,
           batches'[p] = WithLine(file, batches[p], next), rejects'[p] = rejects[p], cur' = p,
           Due(batches'[p]) => pc' = "bronze", ~Due(batches'[p]) => pc' = "read"
    PROVE  Waiting(p)'
<1>1. next \in Nat /\ p \in todo /\ BATCH_ROWS \in Nat \ {0}
  BY AtRead
<1>2. PICK j \in Nat : /\ Count(file, p, next) = FirstOf(j) + Len(batches[p])
                       /\ LinesOf(batches[p]) = Read(file, p, j, "bronze", next)
  BY <1>1, WaitsAtRead
<1>3. PICK i \in Nat : /\ FirstOf(i) <= Count(file, p, next) /\ Count(file, p, next) < FirstOf(i + 1)
                       /\ LinesOf(rejects[p]) = Read(file, p, i, "quarantine", next)
  BY <1>1, WaitsAtRead
<1>4. /\ Proper(file, p, batches[p]) /\ Proper(file, p, rejects[p])
      /\ Before(batches[p], next) /\ Before(rejects[p], next)
      /\ offsets[p] = Cardinality(NumberedBefore(file, p, next))
  BY <1>1, WaitsAtRead
<1>5. /\ Proper(file, p, batches'[p]) /\ LinesOf(batches'[p]) = LinesOf(batches[p]) \cup {next}
      /\ Len(batches'[p]) = Len(batches[p]) + 1
      /\ Before(batches'[p], next + 1)
  BY <1>4, AppendLine
<1>6. PICK len \in Nat : len = Len(batches[p]) /\ len < BATCH_ROWS
  BY <1>1, WaitsAtRead
<1>7. Count(file, p, next) = FirstOf(j) + len
  BY <1>2, <1>6
<1>8. /\ Cardinality(NumberedBefore(file, p, next + 1)) = Cardinality(NumberedBefore(file, p, next)) + 1
      /\ Count(file, p, next + 1) = FirstOf(j) + (len + 1)
      /\ Read(file, p, j, "bronze", next + 1) = Read(file, p, j, "bronze", next) \cup {next}
      /\ Read(file, p, j, "quarantine", next + 1) = Read(file, p, j, "quarantine", next)
      /\ FirstOf(j) <= Count(file, p, next) /\ Count(file, p, next) < FirstOf(j + 1)
      /\ FirstOf(j) <= Count(file, p, next + 1) /\ Count(file, p, next) \in Nat
      /\ len + 1 = BATCH_ROWS => Count(file, p, next + 1) = FirstOf(j + 1)
      /\ len + 1 < BATCH_ROWS => Count(file, p, next + 1) < FirstOf(j + 1)
  BY <1>6, <1>7, NextRecord
<1>9. /\ Len(batches'[p]) = len + 1 /\ pc' \in {"read", "bronze"}
      /\ pc' = "bronze" => len + 1 = BATCH_ROWS
      /\ pc' # "bronze" => len + 1 < BATCH_ROWS
  <2>1. Len(batches'[p]) = len + 1
    BY <1>5, <1>6
  <2>2. Due(batches'[p]) <=> len + 1 >= BATCH_ROWS
    BY <2>1 DEF Due
  <2>3. len + 1 >= BATCH_ROWS => len + 1 = BATCH_ROWS
    BY <1>1, <1>6
  <2>4. ~(len + 1 >= BATCH_ROWS) => len + 1 < BATCH_ROWS
    BY <1>1
  <2> QED
    BY <2>1, <2>2, <2>3, <2>4
<1>10. WaitInv(p)'
  <2>1. Before(rejects[p], next + 1)
    BY <1>1, <1>4, BeforeNext
  <2>2. offsets'[p] = Cardinality(NumberedBefore(file, p, next + 1))
    BY <1>4, <1>8
  <2> QED
    BY <1>4, <1>5, <2>1, <2>2 DEF WaitInv
<1>11. RecordsInv(p)'
  <2>1. LinesOf(batches'[p]) = Read(file, p, j, "bronze", next + 1)
    BY <1>2, <1>5, <1>8
  <2>2. Count(file, p, next + 1) = FirstOf(j) + Len(batches'[p])
    BY <1>8, <1>9
  <2> QED
    BY <1>1, <1>9, <2>1, <2>2 DEF RecordsInv, Writing
<1>12. RejectsInv(p)'
  <2>1. i = j
    BY <1>3, <1>8, OneBatch
  <2>2. LinesOf(rejects'[p]) = Read(file, p, j, "quarantine", next + 1)
    BY <1>3, <1>8, <2>1
  <2> QED
    BY <1>1, <1>8, <1>9, <2>2 DEF RejectsInv, Flushing
<1> QED
  BY <1>10, <1>11, <1>12 DEF Waiting

\* ... and when it is a reject.
LEMMA OwnReject ==
    ASSUME FileInv, NEW p \in Partitions, Waiting(p), pc = "read", next <= Len(file),
           LineOf(file, p, next), ~IsRecord(file[next]),
           UNCHANGED <<file, todo>>, next' = next + 1, offsets'[p] = offsets[p] + 1,
           rejects'[p] = WithLine(file, rejects[p], next), batches'[p] = batches[p], cur' = p,
           ~Due(batches'[p]) => pc' = "read"
    PROVE  Waiting(p)' /\ pc' = "read"
<1>1. next \in Nat /\ p \in todo /\ BATCH_ROWS \in Nat \ {0}
  BY AtRead
<1>2. PICK j \in Nat : /\ Count(file, p, next) = FirstOf(j) + Len(batches[p])
                       /\ LinesOf(batches[p]) = Read(file, p, j, "bronze", next)
  BY <1>1, WaitsAtRead
<1>3. PICK i \in Nat : /\ FirstOf(i) <= Count(file, p, next) /\ Count(file, p, next) < FirstOf(i + 1)
                       /\ LinesOf(rejects[p]) = Read(file, p, i, "quarantine", next)
  BY <1>1, WaitsAtRead
<1>4. /\ Proper(file, p, batches[p]) /\ Proper(file, p, rejects[p])
      /\ Before(batches[p], next) /\ Before(rejects[p], next)
      /\ offsets[p] = Cardinality(NumberedBefore(file, p, next))
      /\ Len(batches[p]) \in Nat /\ Len(batches[p]) < BATCH_ROWS
  BY <1>1, WaitsAtRead
<1>5. /\ Proper(file, p, rejects'[p]) /\ LinesOf(rejects'[p]) = LinesOf(rejects[p]) \cup {next}
      /\ Before(rejects'[p], next + 1)
  BY <1>4, AppendLine
<1>6. pc' = "read"
  <2>1. ~(Len(batches[p]) >= BATCH_ROWS)
    BY <1>1, <1>4
  <2> QED
    BY <2>1 DEF Due
<1>7. /\ Cardinality(NumberedBefore(file, p, next + 1)) = Cardinality(NumberedBefore(file, p, next)) + 1
      /\ Count(file, p, next + 1) = Count(file, p, next)
      /\ \A k \in Nat : Read(file, p, k, "bronze", next + 1) = Read(file, p, k, "bronze", next)
      /\ Read(file, p, i, "quarantine", next + 1) = Read(file, p, i, "quarantine", next) \cup {next}
  BY <1>3, NextReject
<1>8. WaitInv(p)'
  <2>1. Before(batches[p], next + 1)
    BY <1>1, <1>4, BeforeNext
  <2>2. offsets'[p] = Cardinality(NumberedBefore(file, p, next + 1))
    BY <1>4, <1>7
  <2> QED
    BY <1>4, <1>5, <2>1, <2>2 DEF WaitInv
<1>9. RecordsInv(p)'
  <2>1. /\ LinesOf(batches[p]) = Read(file, p, j, "bronze", next + 1)
        /\ Count(file, p, next + 1) = FirstOf(j) + Len(batches[p])
    BY <1>2, <1>7
  <2> QED
    BY <1>1, <1>4, <1>6, <2>1 DEF RecordsInv, Writing
<1>10. RejectsInv(p)'
  <2>1. LinesOf(rejects'[p]) = Read(file, p, i, "quarantine", next + 1)
    BY <1>3, <1>5, <1>7
  <2>2. FirstOf(i) <= Count(file, p, next + 1) /\ Count(file, p, next + 1) < FirstOf(i + 1)
    BY <1>3, <1>7
  <2> QED
    BY <1>1, <1>6, <2>1, <2>2 DEF RejectsInv, Flushing
<1> QED
  BY <1>6, <1>8, <1>9, <1>10 DEF Waiting

-----------------------------------------------------------------------------
(* Flushing a partition *)

LEMMA NothingWaits ==
    ASSUME NEW f, NEW p, NEW n
    PROVE  LinesOf(<<>>) = {} /\ Proper(f, p, <<>>) /\ Before(<<>>, n) /\ Len(<<>>) = 0
BY DEF LinesOf, Proper, Before

\* What flush writes is a batch.
LEMMA WrittenRecords ==
    ASSUME FileInv, NEW p, p = cur, pc = "bronze", Waiting(p)
    PROVE  /\ \E j \in Nat : /\ LinesOf(batches[p]) = Batch(file, p, j, "bronze")
                             /\ p \in todo => Count(file, p, next) = FirstOf(j + 1)
           /\ Proper(file, p, batches[p])
<1>1. PICK j \in Nat :
           /\ Count(file, p, next) = FirstOf(j) + Len(batches[p])
           /\ LinesOf(batches[p]) = Read(file, p, j, "bronze", next)
           /\ p \in todo => Len(batches[p]) = BATCH_ROWS
  BY DEF Waiting, RecordsInv, Writing
<1>2. file \in Seq(Lines) /\ next \in 1 .. (Len(file) + 1)
  BY DEF FileInv
<1>3. p \in todo => Count(file, p, next) = FirstOf(j + 1)
  BY <1>1, FirstOfStep
<1>4. p \notin todo => next = Len(file) + 1
  BY DEF FileInv
<1>5. LinesOf(batches[p]) = Batch(file, p, j, "bronze")
  BY <1>1, <1>2, <1>3, <1>4, WholeBatch
<1> QED
  BY <1>3, <1>5 DEF Waiting, WaitInv

LEMMA WrittenRejects ==
    ASSUME FileInv, NEW p, p = cur, pc = "quarantine", Waiting(p)
    PROVE  /\ \E j \in Nat : /\ LinesOf(rejects[p]) = Batch(file, p, j, "quarantine")
                             /\ p \in todo => Count(file, p, next) = FirstOf(j + 1)
           /\ Proper(file, p, rejects[p])
<1>1. PICK j \in Nat :
           /\ LinesOf(rejects[p]) = Read(file, p, j, "quarantine", next)
           /\ p \in todo => Count(file, p, next) = FirstOf(j + 1)
  BY DEF Waiting, RejectsInv, Flushing
<1>2. file \in Seq(Lines) /\ next \in 1 .. (Len(file) + 1)
  BY DEF FileInv
<1>3. p \notin todo => next = Len(file) + 1
  BY DEF FileInv
<1>4. LinesOf(rejects[p]) = Batch(file, p, j, "quarantine")
  BY <1>1, <1>2, <1>3, WholeBatch
<1> QED
  BY <1>1, <1>4 DEF Waiting, WaitInv

\* The two halves of flush, on the partition they are about ...
LEMMA RecordsWritten ==
    ASSUME FileInv, NEW p, p = cur, pc = "bronze", Waiting(p), pc' = "quarantine", batches'[p] = <<>>,
           UNCHANGED <<file, next, offsets, rejects, todo, cur>>
    PROVE  Waiting(p)'
<1>1. WaitInv(p)'
  BY NothingWaits DEF Waiting, WaitInv
<1>2. RecordsInv(p)'
  <2>1. CASE p \notin todo
    BY <2>1 DEF RecordsInv, Writing
  <2>2. CASE p \in todo
    <3>1. PICK j \in Nat : Count(file, p, next) = FirstOf(j + 1)
      BY <2>2, WrittenRecords
    <3>2. PICK i \in Nat : i = j + 1
      OBVIOUS
    <3>6. FirstOf(i) \in Nat
      BY FirstOfStep
    <3>3. file \in Seq(Lines) /\ next \in 1 .. (Len(file) + 1) /\ BATCH_ROWS \in Nat \ {0}
      BY LoaderAssumption DEF FileInv
    <3>4. Read(file, p, i, "bronze", next) = {}
      BY <3>1, <3>2, <3>3, FreshBatch
    <3>5. Count(file, p, next) = FirstOf(i) + Len(<<>>) /\ Len(<<>>) < BATCH_ROWS
      BY <3>1, <3>2, <3>3, <3>6
    <3> QED
      BY <2>2, <3>4, <3>5, NothingWaits DEF RecordsInv, Writing
  <2> QED
    BY <2>1, <2>2
<1>3. RejectsInv(p)'
  BY DEF Waiting, RejectsInv, Flushing
<1> QED
  BY <1>1, <1>2, <1>3 DEF Waiting

LEMMA RejectsWritten ==
    ASSUME FileInv, NEW p, p = cur, pc = "quarantine", Waiting(p), pc' \in {"read", "rest"}, rejects'[p] = <<>>,
           UNCHANGED <<file, next, offsets, batches, todo, cur>>
    PROVE  Waiting(p)'
<1>1. WaitInv(p)'
  BY NothingWaits DEF Waiting, WaitInv
<1>2. RecordsInv(p)'
  BY DEF Waiting, RecordsInv, Writing
<1>3. RejectsInv(p)'
  <2>1. CASE p \notin todo
    BY <2>1 DEF RejectsInv, Flushing
  <2>2. CASE p \in todo
    <3>1. PICK j \in Nat : Count(file, p, next) = FirstOf(j + 1)
      BY <2>2, WrittenRejects
    <3>2. PICK i \in Nat : i = j + 1
      OBVIOUS
    <3>3. FirstOf(i) \in Nat /\ FirstOf(i + 1) = FirstOf(i) + BATCH_ROWS /\ BATCH_ROWS \in Nat \ {0}
      BY FirstOfStep, LoaderAssumption
    <3>4. file \in Seq(Lines) /\ next \in 1 .. (Len(file) + 1) /\ next - 1 \in RecordsBefore(file, p, next)
      BY <2>2 DEF FileInv
    <3>5. Count(file, p, next) = FirstOf(i)
      BY <3>1, <3>2
    <3>6. Read(file, p, i, "quarantine", next) = {}
      BY <3>4, <3>5, FreshBatch
    <3>7. FirstOf(i) <= Count(file, p, next) /\ Count(file, p, next) < FirstOf(i + 1)
      BY <3>3, <3>5
    <3> QED
      BY <2>2, <3>6, <3>7, NothingWaits DEF RejectsInv, Flushing
  <2> QED
    BY <2>1, <2>2
<1> QED
  BY <1>1, <1>2, <1>3 DEF Waiting

\* ... and on the others, as the steps that do not touch the lists.
LEMMA NotFlushed ==
    ASSUME NEW p, Waiting(p), UNCHANGED <<file, next, offsets>>,
           batches'[p] = batches[p], rejects'[p] = rejects[p], p \in todo' <=> p \in todo,
           ~Flushing(p), ~Flushing(p)'
    PROVE  Waiting(p)'
<1>1. WaitInv(p)'
  BY DEF Waiting, WaitInv
<1>2. RecordsInv(p)'
  BY DEF Waiting, RecordsInv, Flushing, Writing
<1>3. RejectsInv(p)'
  BY DEF Waiting, RejectsInv, Flushing
<1> QED
  BY <1>1, <1>2, <1>3 DEF Waiting

-----------------------------------------------------------------------------
(* What the lake has *)

Has(store, p, n) == \E k \in DOMAIN store : k.part = p /\ n \in LinesOf(store[k])

Landed(n) == IF IsRecord(file[n]) THEN Has(bronze, Part(file, n), n) ELSE Has(quarantine, Part(file, n), n)

LEMMA LakeHas ==
    ASSUME NEW n
    PROVE  InLake(n) <=> Landed(n)
<1>1. ASSUME NEW store, NEW p
      PROVE  (\E r \in Stored(store) : r.line = n /\ r.part = p) <=> Has(store, p, n)
  <2>1. ASSUME NEW r \in Stored(store), r.line = n, r.part = p
        PROVE  Has(store, p, n)
    <3>1. PICK k \in DOMAIN store : \E i \in DOMAIN store[k] :
             r = [part |-> k.part, slot |-> k.slot, line |-> store[k][i].line, offset |-> store[k][i].offset]
      BY DEF Stored
    <3> QED
      BY <2>1, <3>1 DEF Has, LinesOf
  <2>2. ASSUME Has(store, p, n)
        PROVE  \E r \in Stored(store) : r.line = n /\ r.part = p
    <3>1. PICK k \in DOMAIN store : k.part = p /\ n \in LinesOf(store[k])
      BY <2>2 DEF Has
    <3>2. PICK i \in DOMAIN store[k] : n = store[k][i].line
      BY <3>1 DEF LinesOf
    <3>3. [part |-> k.part, slot |-> k.slot, line |-> store[k][i].line, offset |-> store[k][i].offset]
            \in Stored(store)
      BY DEF Stored
    <3> QED
      BY <3>1, <3>2, <3>3
  <2> QED
    BY <2>1, <2>2
<1>2. (\E r \in Stored(bronze) : r.line = n /\ r.part = Part(file, n)) <=> Has(bronze, Part(file, n), n)
  BY <1>1
<1>3. (\E r \in Stored(quarantine) : r.line = n /\ r.part = Part(file, n)) <=> Has(quarantine, Part(file, n), n)
  BY <1>1
<1> QED
  BY <1>2, <1>3 DEF InLake, Part, Landed

LEMMA LakeHasNext ==
    ASSUME NEW n
    PROVE  InLake(n)' <=> Landed(n)'
<1>1. InLake(n) <=> Landed(n)
  BY LakeHas
<1> QED
  BY <1>1, PTL

LEMMA PutHas ==
    ASSUME NEW f, f \in Seq(Lines), NEW store, NEW table, StoreInv(f, store, table),
           NEW p, NEW slot, NEW list, Proper(f, p, list),
           list # <<>> => \E j \in Nat : LinesOf(list) = Batch(f, p, j, table),
           NEW after, after = Put(store, p, slot, list)
    PROVE  /\ StoreInv(f, after, table)
           /\ \A q, n : Has(store, q, n) => Has(after, q, n)
           /\ \A n \in LinesOf(list) : Has(after, p, n)
<1>1. /\ StoreInv(f, after, table)
      /\ \A k \in DOMAIN store : k \in DOMAIN after /\ after[k] = store[k]
      /\ list # <<>> => \E k \in DOMAIN after : k.part = p /\ k.slot = slot /\ after[k] = list
  BY PutBatch
<1>2. ASSUME NEW q, NEW n, Has(store, q, n) PROVE Has(after, q, n)
  BY <1>1, <1>2 DEF Has
<1>3. ASSUME NEW n \in LinesOf(list) PROVE Has(after, p, n)
  <2>1. list # <<>>
    BY NothingWaits
  <2> QED
    BY <1>1, <2>1 DEF Has
<1> QED
  BY <1>1, <1>2, <1>3

-----------------------------------------------------------------------------
(* The actions *)

LEMMA LakeKept ==
    ASSUME LakeInv, UNCHANGED <<file, bronze, quarantine, manifests>>
    PROVE  LakeInv' /\ \A n : InLake(n) => InLake(n)'
<1>1. \A n : InLake(n) => InLake(n)'
  BY DEF InLake, Stored
<1>2. StoresInv'
  BY DEF LakeInv, StoresInv
<1>3. LoadedBeforeManifests'
  BY <1>1 DEF LakeInv, LoadedBeforeManifests, Loadable
<1> QED
  BY <1>1, <1>2, <1>3 DEF LakeInv

LEMMA EveryPartition ==
    ASSUME MemoryInv, pc \notin {"done", "died"}
    PROVE  ReadInv /\ \A p \in Partitions : Waiting(p)
BY DEF MemoryInv, Waiting

\* A step that reads no line, writes nothing and starts no flush.
LEMMA QuietStep ==
    ASSUME LoadInv, UNCHANGED <<file, next, offsets, batches, rejects, todo, cur>>,
           UNCHANGED <<bronze, quarantine, manifests>>,
           pc' = pc \/ pc' = "died" \/ (pc = "read" /\ next > Len(file) /\ pc' = "rest")
              \/ (pc = "rest" /\ todo = {} /\ pc' = "done")
    PROVE  LoadInv'
<1>1. FileInv'
  BY DEF LoadInv, FileInv, Labels
<1>2. LakeInv' /\ \A n : InLake(n) => InLake(n)'
  BY LakeKept DEF LoadInv
<1>3. MemoryInv'
  <2>1. SUFFICES ASSUME pc' \notin {"done", "died"}
                 PROVE  ReadInv' /\ \A p \in Partitions : WaitInv(p)' /\ RecordsInv(p)' /\ RejectsInv(p)'
    BY DEF MemoryInv
  <2>2. pc' = pc \/ (pc = "read" /\ pc' = "rest")
    BY <2>1
  <2>3. pc \notin {"done", "died"}
    BY <2>1, <2>2
  <2>4. ReadInv /\ \A p \in Partitions : Waiting(p)
    BY <2>3, EveryPartition DEF LoadInv
  <2>5. ReadInv'
    BY <1>2, <2>4 DEF ReadInv, Waits
  <2>6. ASSUME NEW p \in Partitions
        PROVE  WaitInv(p)' /\ RecordsInv(p)' /\ RejectsInv(p)'
    <3>1. WaitInv(p) /\ RecordsInv(p) /\ RejectsInv(p)
      BY <2>4 DEF Waiting
    <3>2. Writing(p)' <=> Writing(p)
      BY <2>2 DEF Writing
    <3>3. Flushing(p)' <=> Flushing(p)
      BY <2>2 DEF Flushing
    <3> QED
      BY <3>1, <3>2, <3>3 DEF WaitInv, RecordsInv, RejectsInv
  <2> QED
    BY <2>5, <2>6
<1> QED
  BY <1>1, <1>2, <1>3 DEF LoadInv

LEMMA SkipBlankStep == LoadInv /\ SkipBlank => LoadInv'
<1> SUFFICES ASSUME LoadInv, SkipBlank PROVE LoadInv'
  OBVIOUS
<1>0. /\ pc = "read" /\ next <= Len(file) /\ file[next].kind = "blank" /\ next' = next + 1
      /\ UNCHANGED <<file, pc, offsets, batches, rejects, todo, cur, bronze, quarantine, manifests>>
  BY DEF SkipBlank, lake
<1>1. next \in 1 .. Len(file) /\ next \in Nat /\ todo = Partitions /\ FileInv
  BY <1>0, AtRead DEF LoadInv
<1>2. ReadInv /\ \A p \in Partitions : Waiting(p)
  BY <1>0, EveryPartition DEF LoadInv
<1>3. ~Numbered(file, next)
  BY <1>0 DEF Numbered
<1>4. 1 .. (next' - 1) = (1 .. (next - 1)) \cup {next}
  BY <1>0, <1>1
<1>5. FileInv'
  BY <1>0, <1>1, <1>4 DEF FileInv
<1>6. LakeInv' /\ \A n : InLake(n) => InLake(n)'
  BY <1>0, LakeKept DEF LoadInv
<1>7. ReadInv'
  BY <1>0, <1>2, <1>3, <1>4, <1>6 DEF ReadInv, Waits
<1>8. ASSUME NEW p \in Partitions PROVE Waiting(p)'
  BY <1>0, <1>1, <1>2, <1>3, Elsewhere
<1> QED
  BY <1>5, <1>6, <1>7, <1>8 DEF LoadInv, MemoryInv, Waiting

LEMMA ReadLineStep == LoadInv /\ ReadLine => LoadInv'
<1> SUFFICES ASSUME LoadInv, ReadLine PROVE LoadInv'
  OBVIOUS
<1>0. /\ pc = "read" /\ next <= Len(file) /\ file[next].kind \notin {"blank", "scalar"}
      /\ next' = next + 1
      /\ UNCHANGED <<file, todo, bronze, quarantine, manifests>>
  BY DEF ReadLine, lake
<1>1. /\ next \in 1 .. Len(file) /\ next \in Nat /\ todo = Partitions /\ FileInv
      /\ file \in Seq(Lines) /\ next \in DOMAIN file
  BY <1>0, AtRead DEF LoadInv
<1>2. PICK p \in Partitions : p = Part(file, next)
  BY <1>1, PartType
<1>3. LineOf(file, p, next)
  BY <1>0, <1>1, <1>2 DEF LineOf, Numbered
<1>4. ReadInv /\ \A q \in Partitions : Waiting(q)
  BY <1>0, EveryPartition DEF LoadInv
<1>5. /\ offsets \in [Partitions -> Nat] /\ batches \in [Partitions -> Seq(Row)]
      /\ rejects \in [Partitions -> Seq(Row)]
  BY <1>1 DEF FileInv
<1>6. offsets[p] = OffsetOf(file, next)
  BY <1>0, <1>1, <1>2, <1>4, WaitsAtRead DEF OffsetOf
<1>7. /\ offsets' = [offsets EXCEPT ![p] = @ + 1]
      /\ \/ /\ IsRecord(file[next])
            /\ batches' = [batches EXCEPT ![p] = WithLine(file, @, next)] /\ rejects' = rejects
         \/ /\ ~IsRecord(file[next])
            /\ rejects' = [rejects EXCEPT ![p] = WithLine(file, @, next)] /\ batches' = batches
      /\ cur' = p
      /\ pc' = IF Due(batches'[p]) THEN "bronze" ELSE "read"
  BY <1>2, <1>6 DEF ReadLine, NextOffset, WithLine, Part
<1>8. /\ Proper(file, p, batches[p]) /\ Proper(file, p, rejects[p])
      /\ Before(batches[p], next) /\ Before(rejects[p], next)
  BY <1>0, <1>1, <1>4, WaitsAtRead
<1>9. /\ Proper(file, p, WithLine(file, batches[p], next))
      /\ LinesOf(WithLine(file, batches[p], next)) = LinesOf(batches[p]) \cup {next}
  BY <1>3, <1>8, AppendLine
<1>10. /\ Proper(file, p, WithLine(file, rejects[p], next))
       /\ LinesOf(WithLine(file, rejects[p], next)) = LinesOf(rejects[p]) \cup {next}
  BY <1>3, <1>8, AppendLine
<1>11. /\ offsets'[p] = offsets[p] + 1
       /\ \/ /\ IsRecord(file[next])
             /\ batches'[p] = WithLine(file, batches[p], next) /\ rejects'[p] = rejects[p]
          \/ /\ ~IsRecord(file[next])
             /\ rejects'[p] = WithLine(file, rejects[p], next) /\ batches'[p] = batches[p]
  BY <1>5, <1>7
<1>12. /\ Due(batches'[p]) => pc' = "bronze"
       /\ ~Due(batches'[p]) => pc' = "read"
  BY <1>7
<1>13. Waiting(p)' /\ (pc' = "read" \/ IsRecord(file[next]))
  <2>1. CASE IsRecord(file[next])
    <3>1. batches'[p] = WithLine(file, batches[p], next) /\ rejects'[p] = rejects[p]
      BY <1>11, <2>1
    <3> QED
      BY <1>0, <1>1, <1>3, <1>4, <1>7, <1>11, <1>12, <2>1, <3>1, OwnRecord
  <2>2. CASE ~IsRecord(file[next])
    <3>1. rejects'[p] = WithLine(file, rejects[p], next) /\ batches'[p] = batches[p]
      BY <1>11, <2>2
    <3> QED
      BY <1>0, <1>1, <1>3, <1>4, <1>7, <1>11, <1>12, <2>2, <3>1, OwnReject
  <2> QED
    BY <2>1, <2>2
<1>14. ASSUME NEW q \in Partitions PROVE Waiting(q)'
  <2>1. CASE q = p
    BY <1>13, <2>1
  <2>2. CASE q # p
    <3>1. offsets'[q] = offsets[q] /\ batches'[q] = batches[q] /\ rejects'[q] = rejects[q]
      BY <1>5, <1>7, <2>2
    <3> QED
      BY <1>0, <1>1, <1>2, <1>4, <1>7, <2>2, <3>1, Elsewhere
  <2> QED
    BY <2>1, <2>2
<1>15. 1 .. (next' - 1) = (1 .. (next - 1)) \cup {next}
  BY <1>0, <1>1
<1>16. FileInv'
  <2>1. offsets' \in [Partitions -> Nat]
    BY <1>5, <1>7
  <2>2. WithLine(file, batches[p], next) \in Seq(Row) /\ WithLine(file, rejects[p], next) \in Seq(Row)
    BY <1>9, <1>10, RowsOfList
  <2>3. batches' \in [Partitions -> Seq(Row)] /\ rejects' \in [Partitions -> Seq(Row)]
    BY <1>5, <1>7, <2>2
  <2>4. pc' \in {"read", "bronze"}
    BY <1>7
  <2>5. \A n \in 1 .. (next' - 1) : file[n].kind # "scalar"
    BY <1>0, <1>1, <1>15 DEF FileInv
  <2>6. pc' = "bronze" => next' - 1 \in RecordsBefore(file, p, next')
    <3>1. next' - 1 = next /\ next \in 1 .. (next' - 1)
      BY <1>0, <1>1
    <3>2. pc' = "bronze" => IsRecord(file[next])
      BY <1>13
    <3> QED
      BY <1>3, <3>1, <3>2 DEF RecordsBefore, NumberedBefore, LineOf
  <2>7. next' \in 1 .. (Len(file) + 1)
    BY <1>0, <1>1
  <2> QED
    BY <1>0, <1>1, <1>2, <1>7, <2>1, <2>3, <2>4, <2>5, <2>6, <2>7 DEF FileInv, Labels
<1>17. LakeInv' /\ \A n : InLake(n) => InLake(n)'
  BY <1>0, LakeKept DEF LoadInv
<1>18. ReadInv'
  <2>1. ASSUME NEW n \in 1 .. (next' - 1), Numbered(file, n), ~InLake(n)
        PROVE  Waits(n)'
    <3>1. CASE n = next
      BY <1>0, <1>2, <1>9, <1>10, <1>11, <3>1 DEF Waits
    <3>2. CASE n # next
      <4>1. n \in LinesOf(IF IsRecord(file[n]) THEN batches[Part(file, n)] ELSE rejects[Part(file, n)])
        BY <1>4, <1>15, <2>1, <3>2 DEF ReadInv, Waits
      <4>2. n \in DOMAIN file
        BY <2>1 DEF Numbered
      <4>3. Part(file, n) \in Partitions
        BY <1>1, <4>2, PartType
      <4>4. CASE Part(file, n) = p
        BY <1>0, <1>9, <1>10, <1>11, <4>1, <4>4 DEF Waits
      <4>5. CASE Part(file, n) # p
        <5>1. /\ batches'[Part(file, n)] = batches[Part(file, n)]
              /\ rejects'[Part(file, n)] = rejects[Part(file, n)]
          BY <1>5, <1>7, <4>3, <4>5
        <5> QED
          BY <1>0, <4>1, <5>1 DEF Waits
      <4> QED
        BY <4>4, <4>5
    <3> QED
      BY <3>1, <3>2
  <2> QED
    BY <1>0, <1>17, <2>1 DEF ReadInv
<1> QED
  BY <1>14, <1>16, <1>17, <1>18 DEF LoadInv, MemoryInv, Waiting

LEMMA RestPartitionStep == LoadInv /\ RestPartition => LoadInv'
<1> SUFFICES ASSUME LoadInv, RestPartition PROVE LoadInv'
  OBVIOUS
<1>0. /\ pc = "rest" /\ todo # {} /\ todo' = todo \ {Lowest(todo)} /\ cur' = Lowest(todo) /\ pc' = "bronze"
      /\ UNCHANGED <<file, next, offsets, batches, rejects, bronze, quarantine, manifests>>
  BY DEF RestPartition, lake
<1>1. FileInv
  BY DEF LoadInv
<1>2. todo \subseteq Partitions /\ todo \subseteq Nat
  BY <1>1, LoaderAssumption DEF FileInv
<1>3. PICK p \in Partitions : p = Lowest(todo) /\ p \in todo
  BY <1>0, <1>2, LowestIsIn
<1>4. ReadInv /\ \A q \in Partitions : Waiting(q)
  BY <1>0, EveryPartition DEF LoadInv
<1>5. FileInv'
  BY <1>0, <1>1, <1>2, <1>3 DEF FileInv, Labels
<1>6. LakeInv' /\ \A n : InLake(n) => InLake(n)'
  BY <1>0, LakeKept DEF LoadInv
<1>7. ReadInv'
  BY <1>0, <1>4, <1>6 DEF ReadInv, Waits
<1>8. ASSUME NEW q \in Partitions PROVE Waiting(q)'
  <2>1. CASE q = p
    <3>1. WaitInv(q)'
      BY <1>0, <1>4 DEF Waiting, WaitInv
    <3>2. PICK j \in Nat :
             /\ Count(file, q, next) = FirstOf(j) + Len(batches[q])
             /\ LinesOf(batches[q]) = Read(file, q, j, "bronze", next)
             /\ Len(batches[q]) < BATCH_ROWS
      BY <1>0, <1>3, <1>4, <2>1 DEF Waiting, RecordsInv, Writing
    <3>3. RecordsInv(q)'
      BY <1>0, <1>3, <2>1, <3>2 DEF RecordsInv, Writing
    <3>4. PICK i \in Nat :
             /\ FirstOf(i) <= Count(file, q, next)
             /\ LinesOf(rejects[q]) = Read(file, q, i, "quarantine", next)
             /\ Count(file, q, next) < FirstOf(i + 1)
      BY <1>0, <1>3, <1>4, <2>1 DEF Waiting, RejectsInv, Flushing
    <3>5. RejectsInv(q)'
      BY <1>0, <1>3, <2>1, <3>4 DEF RejectsInv, Flushing
    <3> QED
      BY <3>1, <3>3, <3>5 DEF Waiting
  <2>2. CASE q # p
    <3>1. ~Flushing(q) /\ ~Flushing(q)' /\ (q \in todo' <=> q \in todo)
      BY <1>0, <1>3, <2>2 DEF Flushing
    <3> QED
      BY <1>0, <1>4, <3>1, NotFlushed
  <2> QED
    BY <2>1, <2>2
<1> QED
  BY <1>5, <1>6, <1>7, <1>8 DEF LoadInv, MemoryInv, Waiting

LEMMA WriteBronzeStep == LoadInv /\ WriteBronze => LoadInv'
<1> SUFFICES ASSUME LoadInv, WriteBronze PROVE LoadInv'
  OBVIOUS
<1>1. CASE Refused(batches[cur])
  BY <1>1, QuietStep DEF WriteBronze, Die
<1>2. CASE ~Refused(batches[cur])
  <2>1. FileInv
    BY DEF LoadInv
  <2>2. PICK p \in Partitions : p = cur
    BY <2>1 DEF FileInv
  <2>3. PICK list : list = batches[p]
    OBVIOUS
  <2>4. /\ pc = "bronze" /\ pc' = "quarantine" /\ bronze' = Put(bronze, p, hour, list)
        /\ batches' = [batches EXCEPT ![p] = <<>>]
        /\ UNCHANGED <<file, next, offsets, rejects, todo, cur, quarantine, manifests>>
    BY <1>2, <2>2, <2>3 DEF WriteBronze, Emptied
  <2>5. ReadInv /\ \A q \in Partitions : Waiting(q)
    BY <2>4, EveryPartition DEF LoadInv
  <2>6. file \in Seq(Lines) /\ batches \in [Partitions -> Seq(Row)]
    BY <2>1 DEF FileInv
  <2>7. batches'[p] = <<>> /\ \A q \in Partitions : q # p => batches'[q] = batches[q]
    BY <2>4, <2>6
  <2>8. Proper(file, p, list) /\ \E j \in Nat : LinesOf(list) = Batch(file, p, j, "bronze")
    BY <2>1, <2>2, <2>3, <2>4, <2>5, WrittenRecords
  <2>9. /\ StoreInv(file, bronze', "bronze")
        /\ \A q, n : Has(bronze, q, n) => Has(bronze', q, n)
        /\ \A n \in LinesOf(list) : Has(bronze', p, n)
    BY <2>4, <2>6, <2>8, PutHas DEF LoadInv, LakeInv, StoresInv
  <2>10. ASSUME NEW n, InLake(n) PROVE InLake(n)'
    <3>1. Landed(n)
      BY <2>10, LakeHas
    <3>2. Landed(n)'
      BY <2>4, <2>9, <3>1 DEF Landed
    <3> QED
      BY <3>2, LakeHasNext
  <2>11. LakeInv'
    BY <2>4, <2>9, <2>10 DEF LoadInv, LakeInv, StoresInv, LoadedBeforeManifests, Loadable
  <2>12. FileInv'
    <3>1. batches' \in [Partitions -> Seq(Row)]
      BY <2>4, <2>6
    <3> QED
      BY <2>1, <2>4, <3>1 DEF FileInv, Labels
  <2>13. ReadInv'
    <3>1. ASSUME NEW n \in 1 .. (next - 1), Numbered(file, n)
          PROVE  InLake(n)' \/ Waits(n)'
      <4>1. CASE InLake(n)
        BY <2>10, <4>1
      <4>2. CASE Waits(n) /\ IsRecord(file[n]) /\ Part(file, n) = p
        <5>1. n \in LinesOf(list)
          BY <2>3, <4>2 DEF Waits
        <5>2. Has(bronze', Part(file, n), n)
          BY <2>9, <4>2, <5>1
        <5>3. Landed(n)'
          BY <2>4, <4>2, <5>2 DEF Landed
        <5> QED
          BY <5>3, LakeHasNext
      <4>3. CASE Waits(n) /\ ~(IsRecord(file[n]) /\ Part(file, n) = p)
        <5>1. n \in DOMAIN file
          BY <3>1 DEF Numbered
        <5>2. Part(file, n) \in Partitions
          BY <2>6, <5>1, PartType
        <5> QED
          BY <2>4, <2>7, <4>3, <5>2 DEF Waits
      <4> QED
        BY <2>5, <3>1, <4>1, <4>2, <4>3 DEF ReadInv
    <3> QED
      BY <2>4, <3>1 DEF ReadInv
  <2>14. ASSUME NEW q \in Partitions PROVE Waiting(q)'
    <3>1. CASE q = p
      BY <2>1, <2>2, <2>4, <2>5, <2>7, <3>1, RecordsWritten
    <3>2. CASE q # p
      <4>1. ~Flushing(q) /\ ~Flushing(q)'
        BY <2>2, <2>4, <3>2 DEF Flushing
      <4> QED
        BY <2>4, <2>5, <2>7, <3>2, <4>1, NotFlushed
    <3> QED
      BY <3>1, <3>2
  <2> QED
    BY <2>11, <2>12, <2>13, <2>14 DEF LoadInv, MemoryInv, Waiting
<1> QED
  BY <1>1, <1>2

LEMMA WriteQuarantineStep == LoadInv /\ WriteQuarantine => LoadInv'
<1> SUFFICES ASSUME LoadInv, WriteQuarantine PROVE LoadInv'
  OBVIOUS
<1>1. FileInv
  BY DEF LoadInv
<1>2. PICK p \in Partitions : p = cur
  BY <1>1 DEF FileInv
<1>3. PICK list, slot : list = rejects[p] /\ slot = hour \div HoursPerDay
  OBVIOUS
<1>4. /\ pc = "quarantine" /\ pc' = (IF next > Len(file) THEN "rest" ELSE "read")
      /\ quarantine' = Put(quarantine, p, slot, list)
      /\ rejects' = [rejects EXCEPT ![p] = <<>>]
      /\ UNCHANGED <<file, next, offsets, batches, todo, cur, bronze, manifests>>
  BY <1>2, <1>3 DEF WriteQuarantine, Emptied, Return
<1>5. ReadInv /\ \A q \in Partitions : Waiting(q)
  BY <1>4, EveryPartition DEF LoadInv
<1>6. file \in Seq(Lines) /\ rejects \in [Partitions -> Seq(Row)]
  BY <1>1 DEF FileInv
<1>7. rejects'[p] = <<>> /\ \A q \in Partitions : q # p => rejects'[q] = rejects[q]
  BY <1>4, <1>6
<1>8. Proper(file, p, list) /\ \E j \in Nat : LinesOf(list) = Batch(file, p, j, "quarantine")
  BY <1>1, <1>2, <1>3, <1>4, <1>5, WrittenRejects
<1>9. /\ StoreInv(file, quarantine', "quarantine")
      /\ \A q, n : Has(quarantine, q, n) => Has(quarantine', q, n)
      /\ \A n \in LinesOf(list) : Has(quarantine', p, n)
  BY <1>4, <1>6, <1>8, PutHas DEF LoadInv, LakeInv, StoresInv
<1>10. ASSUME NEW n, InLake(n) PROVE InLake(n)'
  <2>1. Landed(n)
    BY <1>10, LakeHas
  <2>2. Landed(n)'
    BY <1>4, <1>9, <2>1 DEF Landed
  <2> QED
    BY <2>2, LakeHasNext
<1>11. LakeInv'
  BY <1>4, <1>9, <1>10 DEF LoadInv, LakeInv, StoresInv, LoadedBeforeManifests, Loadable
<1>12. FileInv'
  <2>1. rejects' \in [Partitions -> Seq(Row)]
    BY <1>4, <1>6
  <2>2. pc' \in {"read", "rest"} /\ (pc' = "rest" => next = Len(file) + 1)
    BY <1>1, <1>4 DEF FileInv
  <2> QED
    BY <1>1, <1>4, <2>1, <2>2 DEF FileInv, Labels
<1>13. ReadInv'
  <2>1. ASSUME NEW n \in 1 .. (next - 1), Numbered(file, n)
        PROVE  InLake(n)' \/ Waits(n)'
    <3>1. CASE InLake(n)
      BY <1>10, <3>1
    <3>2. CASE Waits(n) /\ ~IsRecord(file[n]) /\ Part(file, n) = p
      <4>1. n \in LinesOf(list)
        BY <1>3, <3>2 DEF Waits
      <4>2. Has(quarantine', Part(file, n), n)
        BY <1>9, <3>2, <4>1
      <4>3. Landed(n)'
        BY <1>4, <3>2, <4>2 DEF Landed
      <4> QED
        BY <4>3, LakeHasNext
    <3>3. CASE Waits(n) /\ ~(~IsRecord(file[n]) /\ Part(file, n) = p)
      <4>1. n \in DOMAIN file
        BY <2>1 DEF Numbered
      <4>2. Part(file, n) \in Partitions
        BY <1>6, <4>1, PartType
      <4> QED
        BY <1>4, <1>7, <3>3, <4>2 DEF Waits
    <3> QED
      BY <1>5, <2>1, <3>1, <3>2, <3>3 DEF ReadInv
  <2> QED
    BY <1>4, <2>1 DEF ReadInv
<1>14. ASSUME NEW q \in Partitions PROVE Waiting(q)'
  <2>1. CASE q = p
    BY <1>1, <1>2, <1>4, <1>5, <1>7, <2>1, RejectsWritten
  <2>2. CASE q # p
    <3>1. ~Flushing(q) /\ ~Flushing(q)'
      BY <1>2, <1>4, <2>2 DEF Flushing
    <3> QED
      BY <1>4, <1>5, <1>7, <2>2, <3>1, NotFlushed
  <2> QED
    BY <2>1, <2>2
<1> QED
  BY <1>11, <1>12, <1>13, <1>14 DEF LoadInv, MemoryInv, Waiting

LEMMA WriteManifestStep == LoadInv /\ WriteManifest => LoadInv'
<1> SUFFICES ASSUME LoadInv, WriteManifest PROVE LoadInv'
  OBVIOUS
<1>0. /\ pc = "rest" /\ todo = {}
      /\ UNCHANGED <<file, pc, next, offsets, batches, rejects, todo, cur, bronze, quarantine>>
  BY DEF WriteManifest, Ready
<1>1. FileInv
  BY DEF LoadInv
<1>2. file \in Seq(Lines) /\ next = Len(file) + 1
  BY <1>0, <1>1 DEF FileInv
<1>3. ReadInv /\ \A p \in Partitions : Waiting(p)
  BY <1>0, EveryPartition DEF LoadInv
<1>4. ASSUME NEW p \in Partitions PROVE batches[p] = <<>> /\ rejects[p] = <<>>
  BY <1>0, <1>3 DEF Waiting, RecordsInv, RejectsInv, Writing, Flushing
<1>5. \A n : InLake(n) => InLake(n)'
  BY <1>0 DEF InLake, Stored
<1>6. ASSUME NEW n \in Loadable PROVE InLake(n)
  <2>1. n \in 1 .. (next - 1) /\ n \in DOMAIN file
    BY <1>2 DEF Loadable
  <2>2. Numbered(file, n)
    BY <1>1, <2>1 DEF Loadable, Numbered, FileInv
  <2>3. Part(file, n) \in Partitions
    BY <1>2, <2>1, PartType
  <2>4. ~Waits(n)
    BY <1>4, <2>3, NothingWaits DEF Waits
  <2> QED
    BY <1>3, <2>1, <2>2, <2>4 DEF ReadInv
<1>7. LakeInv'
  BY <1>0, <1>5, <1>6 DEF LoadInv, LakeInv, StoresInv, LoadedBeforeManifests, Loadable
<1>8. FileInv'
  BY <1>0, <1>1 DEF FileInv
<1>9. ReadInv'
  BY <1>0, <1>3, <1>5 DEF ReadInv, Waits
<1>10. ASSUME NEW p \in Partitions PROVE Waiting(p)'
  BY <1>0, <1>3, NotFlushed DEF Flushing
<1> QED
  BY <1>7, <1>8, <1>9, <1>10 DEF LoadInv, MemoryInv, Waiting

\* What a load starts from.
Fresh ==
    /\ file \in Seq(Lines) /\ pc = "read" /\ next = 1 /\ todo = Partitions /\ cur = 0
    /\ offsets = FirstOffsets /\ batches = NoRows /\ rejects = NoRows

LEMMA FreshLoad == Fresh => FileInv /\ MemoryInv
<1> SUFFICES ASSUME Fresh PROVE FileInv /\ MemoryInv
  OBVIOUS
<1> USE DEF Fresh
<1>1. FileInv
  <2>1. 0 \in Partitions
    BY LoaderAssumption
  <2>2. offsets \in [Partitions -> Nat]
    BY DEF FirstOffsets
  <2>3. <<>> \in Seq(Row)
    OBVIOUS
  <2>4. batches \in [Partitions -> Seq(Row)] /\ rejects \in [Partitions -> Seq(Row)]
    BY <2>3 DEF NoRows
  <2>5. 1 \in 1 .. (Len(file) + 1) /\ 1 .. (1 - 1) = {}
    OBVIOUS
  <2> QED
    BY <2>1, <2>2, <2>4, <2>5 DEF FileInv, Labels
<1>2. ReadInv
  BY DEF ReadInv
<1>3. ASSUME NEW p \in Partitions PROVE WaitInv(p) /\ RecordsInv(p) /\ RejectsInv(p)
  <2>1. offsets[p] = 0 /\ batches[p] = <<>> /\ rejects[p] = <<>>
    BY DEF FirstOffsets, NoRows
  <2>2. NumberedBefore(file, p, 1) = {} /\ RecordsBefore(file, p, 1) = {}
    BY DEF NumberedBefore, RecordsBefore
  <2>3. Cardinality(NumberedBefore(file, p, 1)) = 0 /\ Count(file, p, 1) = 0
    BY <2>2, FS_EmptySet DEF Count
  <2>4. \A table : Read(file, p, 0, table, 1) = {}
    BY DEF Read, Batch
  <2>5. BATCH_ROWS \in Nat \ {0}
    BY LoaderAssumption
  <2>6. FirstOf(0) = 0 /\ FirstOf(0 + 1) = BATCH_ROWS
    BY <2>5 DEF FirstOf
  <2>7. WaitInv(p)
    BY <2>1, <2>3, NothingWaits DEF WaitInv
  <2>8. RecordsInv(p)
    <3>1. Count(file, p, 1) = FirstOf(0) + Len(<<>>) /\ Len(<<>>) < BATCH_ROWS
      BY <2>3, <2>5, <2>6
    <3>2. LinesOf(<<>>) = Read(file, p, 0, "bronze", 1)
      BY <2>4, NothingWaits
    <3> QED
      BY <2>1, <3>1, <3>2 DEF RecordsInv, Writing
  <2>9. RejectsInv(p)
    <3>1. FirstOf(0) <= Count(file, p, 1) /\ Count(file, p, 1) < FirstOf(0 + 1)
      BY <2>3, <2>5, <2>6
    <3>2. LinesOf(<<>>) = Read(file, p, 0, "quarantine", 1)
      BY <2>4, NothingWaits
    <3> QED
      BY <2>1, <3>1, <3>2 DEF RejectsInv, Flushing
  <2> QED
    BY <2>7, <2>8, <2>9
<1> QED
  BY <1>1, <1>2, <1>3 DEF MemoryInv

LEMMA FreshLoadNext == Fresh' => FileInv' /\ MemoryInv'
BY FreshLoad, PTL

LEMMA ReloadStep == LoadInv /\ Reload => LoadInv'
<1> SUFFICES ASSUME LoadInv, Reload PROVE LoadInv'
  OBVIOUS
<1>1. FileInv' /\ MemoryInv'
  BY FreshLoadNext DEF Reload, LoadInv, FileInv, FirstOffsets, NoRows, Fresh
<1>2. LakeInv'
  BY LakeKept DEF Reload, LoadInv, lake
<1> QED
  BY <1>1, <1>2 DEF LoadInv

LEMMA ProgramStep == LoadInv /\ Program => LoadInv'
<1> SUFFICES ASSUME LoadInv, Program PROVE LoadInv'
  OBVIOUS
<1>1. CASE SkipBlank
  BY <1>1, SkipBlankStep
<1>2. CASE ScalarRaises
  BY <1>2, QuietStep DEF ScalarRaises, Die, work, lake
<1>3. CASE ReadLine
  BY <1>3, ReadLineStep
<1>4. CASE EndOfFile
  BY <1>4, QuietStep DEF EndOfFile, work, lake
<1>5. CASE RestPartition
  BY <1>5, RestPartitionStep
<1>6. CASE WriteBronze
  BY <1>6, WriteBronzeStep
<1>7. CASE WriteQuarantine
  BY <1>7, WriteQuarantineStep
<1>8. CASE WriteManifest
  BY <1>8, WriteManifestStep
<1>9. CASE Finish
  BY <1>9, QuietStep DEF Finish, Ready, work, lake
<1> QED
  BY <1>1, <1>2, <1>3, <1>4, <1>5, <1>6, <1>7, <1>8, <1>9 DEF Program

LEMMA AroundStep == LoadInv /\ (Kill \/ NextHour \/ UNCHANGED vars) => LoadInv'
<1>1. ASSUME LoadInv, Kill PROVE LoadInv'
  BY <1>1, QuietStep DEF Kill, Die, work, lake
<1>2. ASSUME LoadInv, NextHour PROVE LoadInv'
  BY <1>2, QuietStep DEF NextHour, work, lake
<1>3. ASSUME LoadInv, UNCHANGED vars PROVE LoadInv'
  BY <1>3, QuietStep DEF vars, work, lake
<1> QED
  BY <1>1, <1>2, <1>3

LEMMA InitLoad == Init => LoadInv
<1> SUFFICES ASSUME Init PROVE LoadInv
  OBVIOUS
<1>1. file \in Seq(Lines)
  BY DEF Init, BoundedSeq, SeqOf
<1>2. FileInv /\ MemoryInv
  BY <1>1, FreshLoad DEF Init, Fresh
<1>3. StoresInv
  <2>1. DOMAIN <<>> = {} /\ <<>> = [k \in {} |-> <<>>]
    OBVIOUS
  <2> QED
    BY <2>1 DEF Init, StoresInv, StoreInv
<1>4. LoadedBeforeManifests
  BY DEF Init, LoadedBeforeManifests
<1> QED
  BY <1>2, <1>3, <1>4 DEF LoadInv, LakeInv

-----------------------------------------------------------------------------
(* Inside the acceptance script *)

\* The lake is only torn down between two loads.
TrialInv == LoadInv /\ (stage \in {"destroy", "apply", "replay"} => LoadEnded)

LEMMA DestroyStep == TrialInv /\ Destroy => TrialInv'
<1> SUFFICES ASSUME TrialInv, Destroy PROVE TrialInv'
  OBVIOUS
<1>1. /\ stage = "destroy" /\ stage' \in {"off", "apply"}
      /\ UNCHANGED <<file, pc, next, offsets, batches, rejects, todo, cur>>
      /\ \/ bronze' = <<>> /\ quarantine' = <<>> /\ manifests' = 0
         \/ UNCHANGED <<bronze, quarantine, manifests>>
  BY DEF Destroy, Fail, work, lake
<1>2. pc \in {"done", "died"} /\ LoadInv
  BY <1>1 DEF TrialInv, LoadEnded
<1>3. FileInv'
  BY <1>1, <1>2 DEF LoadInv, FileInv
<1>4. MemoryInv'
  BY <1>1, <1>2 DEF MemoryInv
<1>5. LakeInv'
  <2>1. CASE bronze' = <<>> /\ quarantine' = <<>> /\ manifests' = 0
    <3>1. DOMAIN <<>> = {} /\ <<>> = [k \in {} |-> <<>>]
      OBVIOUS
    <3>2. StoresInv'
      BY <2>1, <3>1 DEF StoresInv, StoreInv
    <3>3. LoadedBeforeManifests'
      BY <2>1 DEF LoadedBeforeManifests
    <3> QED
      BY <3>2, <3>3 DEF LakeInv
  <2>2. CASE UNCHANGED <<bronze, quarantine, manifests>>
    BY <1>1, <1>2, <2>2, LakeKept DEF LoadInv
  <2> QED
    BY <1>1, <2>1, <2>2
<1> QED
  BY <1>1, <1>2, <1>3, <1>4, <1>5 DEF TrialInv, LoadInv, LoadEnded

LEMMA TrialStep == TrialInv /\ [NextTrial]_allVars => TrialInv'
<1> SUFFICES ASSUME TrialInv, [NextTrial]_allVars PROVE TrialInv'
  OBVIOUS
<1>1. ASSUME UNCHANGED vars PROVE LoadInv' /\ (LoadEnded' <=> LoadEnded)
  BY <1>1, AroundStep DEF TrialInv, LoadEnded, vars
<1>2. CASE Running
  <2>1. LoadInv'
    BY <1>2, ProgramStep, AroundStep DEF Running, TrialInv
  <2>2. LoadEnded => LoadEnded'
    BY <1>2 DEF Running, Program, SkipBlank, ScalarRaises, ReadLine, EndOfFile, RestPartition, WriteBronze,
                WriteQuarantine, WriteManifest, Ready, Finish, Kill, NextHour, LoadEnded
  <2> QED
    BY <1>2, <2>1, <2>2 DEF Running, TrialInv, trial
<1>3. CASE Load
  BY <1>3, ReloadStep DEF Load, TrialInv, trial
<1>4. CASE Replay
  BY <1>4, ReloadStep DEF Replay, TrialInv
<1>5. CASE Destroy
  BY <1>5, DestroyStep
<1>6. CASE GradeBefore
  BY <1>1, <1>6 DEF GradeBefore, Fail, TrialInv
<1>7. CASE Apply
  BY <1>1, <1>7 DEF Apply, Fail, TrialInv
<1>8. CASE Replayed
  BY <1>1, <1>8 DEF Replayed, Fail, TrialInv
<1>9. CASE DbtBuild
  BY <1>1, <1>9 DEF DbtBuild, Fail, TrialInv
<1>10. CASE GradeAfter
  BY <1>1, <1>10 DEF GradeAfter, TrialInv
<1>11. CASE Build
  BY <1>1, <1>11 DEF Build, TrialInv
<1>12. CASE UNCHANGED allVars
  BY <1>1, <1>12 DEF allVars, trial, TrialInv
<1> QED
  BY <1>2, <1>3, <1>4, <1>5, <1>6, <1>7, <1>8, <1>9, <1>10, <1>11, <1>12 DEF NextTrial, Script

-----------------------------------------------------------------------------
(* The invariant holds of the loader alone and of the loader in the script. *)
LEMMA LoadAlways == Spec \/ SpecTrial => []LoadInv
<1>1. LoadInv /\ [Next]_vars => LoadInv'
  BY ProgramStep, AroundStep, ReloadStep DEF Next
<1>2. Spec => []LoadInv
  BY <1>1, InitLoad, PTL DEF Spec
<1>3. InitTrial => TrialInv
  BY InitLoad DEF InitTrial, TrialInv
<1>4. TrialInv => LoadInv
  BY DEF TrialInv
<1>5. SpecTrial => []LoadInv
  BY <1>3, <1>4, TrialStep, PTL DEF SpecTrial
<1> QED
  BY <1>2, <1>5

\* However often a file is loaded, wherever a load is killed, with whatever batch size
\* and however the operator and the script take turns: no row of an ingest slot is in two
\* objects (writer.py:150-156).
THEOREM RowsOnce == Spec \/ SpecTrial => []RowsOncePerSlot
<1>1. LoadInv => RowsOncePerSlot
  BY StoresRowsOnce DEF LoadInv, FileInv, LakeInv
<1> QED
  BY <1>1, LoadAlways, PTL

\* All over the lake, records and rejects together, a partition and an offset stand for
\* one line of the file, as those of a broker would (load.py:12-15).
THEOREM OneLinePerOffset == Spec \/ SpecTrial => []OffsetsNameLines
<1>1. LoadInv => OffsetsNameLines
  BY StoresOffsets DEF LoadInv, FileInv, LakeInv
<1> QED
  BY <1>1, LoadAlways, PTL

\* Manifests are only in a lake that has every line, however many loads died before
\* (load.py:154-164).
THEOREM ManifestsLast == Spec \/ SpecTrial => []LoadedBeforeManifests
<1>1. LoadInv => LoadedBeforeManifests
  BY DEF LoadInv, LakeInv
<1> QED
  BY <1>1, LoadAlways, PTL

LEMMA KnownSlot ==
    ASSUME NEW f, f \in Seq(Lines), NEW store, NEW table, StoreInv(f, store, table),
           NEW p, NEW slot, NEW list, Proper(f, p, list),
           NEW j \in Nat, LinesOf(list) = Batch(f, p, j, table),
           \A n \in LinesOf(list) : \E r \in Stored(store) : r.line = n /\ r.slot = slot
    PROVE  Put(store, p, slot, list) = store
<1>1. CASE list = <<>>
  BY <1>1 DEF Put
<1>2. CASE list # <<>>
  <2>1. 1 \in DOMAIN list
    BY <1>2 DEF Proper
  <2>2. PICK n : n \in LinesOf(list) /\ Part(f, n) = p
    BY <2>1 DEF LinesOf, Proper
  <2>3. PICK r \in Stored(store) : r.line = n /\ r.slot = slot
    BY <2>2
  <2>4. r.part = p
    BY <2>2, <2>3, StoredRow
  <2>5. PICK k \in DOMAIN store : \E i \in DOMAIN store[k] :
           r = [part |-> k.part, slot |-> k.slot, line |-> store[k][i].line, offset |-> store[k][i].offset]
    BY DEF Stored
  <2>6. k.part = p /\ k.slot = slot /\ n \in LinesOf(store[k])
    BY <2>3, <2>4, <2>5 DEF LinesOf
  <2> QED
    BY <1>2, <2>2, <2>6, PutKnown
<1> QED
  BY <1>1, <1>2

\* Loading a file again in the hour of a complete load writes nothing that is not there.
THEOREM ReloadIsIdempotent == Spec \/ SpecTrial => ReloadChangesNothing
<1>1. ASSUME LoadInv, Program, LoadedIn(hour)
      PROVE  UNCHANGED <<bronze, quarantine>>
  <2>1. FileInv /\ file \in Seq(Lines) /\ cur \in Partitions
    BY <1>1 DEF LoadInv, FileInv
  <2>2. PICK p \in Partitions : p = cur
    BY <2>1
  <2>3. ASSUME NEW n, Numbered(file, n)
        PROVE  n \in Loadable
    BY <2>3 DEF Numbered, Loadable
  <2>4. CASE WriteBronze
    <3>1. pc = "bronze" /\ quarantine' = quarantine
      BY <2>4 DEF WriteBronze
    <3>2. Waiting(p)
      BY <1>1, <3>1, EveryPartition DEF LoadInv
    <3>3. PICK list : list = batches[p]
      OBVIOUS
    <3>4. PICK j \in Nat : LinesOf(list) = Batch(file, p, j, "bronze") /\ Proper(file, p, list)
      BY <2>1, <2>2, <3>1, <3>2, <3>3, WrittenRecords
    <3>5. ASSUME NEW n \in LinesOf(list)
          PROVE  \E r \in Stored(bronze) : r.line = n /\ r.slot = hour
      <4>1. Numbered(file, n) /\ IsRecord(file[n])
        BY <3>4 DEF Batch, InBatch
      <4> QED
        BY <1>1, <2>3, <4>1 DEF LoadedIn
    <3>6. Put(bronze, p, hour, list) = bronze
      BY <1>1, <2>1, <3>4, <3>5, KnownSlot DEF LoadInv, LakeInv, StoresInv
    <3> QED
      BY <2>2, <2>4, <3>1, <3>3, <3>6 DEF WriteBronze
  <2>5. CASE WriteQuarantine
    <3>1. pc = "quarantine" /\ bronze' = bronze
      BY <2>5 DEF WriteQuarantine
    <3>2. Waiting(p)
      BY <1>1, <3>1, EveryPartition DEF LoadInv
    <3>3. PICK list, slot : list = rejects[p] /\ slot = hour \div HoursPerDay
      OBVIOUS
    <3>4. PICK j \in Nat : LinesOf(list) = Batch(file, p, j, "quarantine") /\ Proper(file, p, list)
      BY <2>1, <2>2, <3>1, <3>2, <3>3, WrittenRejects
    <3>5. ASSUME NEW n \in LinesOf(list)
          PROVE  \E r \in Stored(quarantine) : r.line = n /\ r.slot = slot
      <4>1. Numbered(file, n) /\ ~IsRecord(file[n])
        BY <3>4 DEF Batch, InBatch
      <4> QED
        BY <1>1, <2>3, <3>3, <4>1 DEF LoadedIn
    <3>6. Put(quarantine, p, slot, list) = quarantine
      BY <1>1, <2>1, <3>4, <3>5, KnownSlot DEF LoadInv, LakeInv, StoresInv
    <3> QED
      BY <2>2, <2>5, <3>1, <3>3, <3>6 DEF WriteQuarantine
  <2>6. CASE SkipBlank \/ ScalarRaises \/ ReadLine \/ EndOfFile \/ RestPartition \/ WriteManifest \/ Finish
    BY <2>6 DEF SkipBlank, ScalarRaises, ReadLine, EndOfFile, RestPartition, WriteManifest, Finish, lake
  <2> QED
    BY <1>1, <2>4, <2>5, <2>6 DEF Program
<1>2. LoadInv => [Program /\ LoadedIn(hour) => UNCHANGED <<bronze, quarantine>>]_vars
  BY <1>1
<1> QED
  BY <1>2, LoadAlways, PTL DEF ReloadChangesNothing

-----------------------------------------------------------------------------
(* The grades of the acceptance script *)

\* What bronze holds when every line is in the lake, with its provenance.
Records(f) == {n \in DOMAIN f : Numbered(f, n) /\ IsRecord(f[n])}
RowOf(f, n) == [part |-> Part(f, n), offset |-> OffsetOf(f, n), line |-> n]
AllRows == {RowOf(file, n) : n \in Records(file)}

Complete == \A n \in Loadable : Landed(n)
Reconciled == [windows |-> Windows, broken |-> 0]
FinalGrade == [ledger |-> Reconciled, bronze |-> Cardinality(AllRows)]

\* Manifests are written in order, and all of them by a load that is done.
WindowsInv ==
    /\ manifests \in 0 .. Windows /\ window \in 0 .. Windows
    /\ ~LoadEnded => window <= manifests

\* No line is in two objects, and no line that is in one will be written again.
Separate(store) == \A k, l \in DOMAIN store : k # l => LinesOf(store[k]) \cap LinesOf(store[l]) = {}
LinesIn(store) == UNION {LinesOf(store[k]) : k \in DOMAIN store}
Unwritten(n) == n < next /\ \A p \in Partitions : n \notin LinesOf(batches[p])
OnceInv == Separate(bronze) /\ (~LoadEnded => \A n \in LinesIn(bronze) : Unwritten(n))

\* The second load of the script starts from an empty lake and has it to itself.
StageInv ==
    /\ stage \in {"apply", "replay"} => bronze = <<>>
    /\ stage \in {"wait", "build", "after"} => OnceInv
    /\ stage \in {"build", "after"} => pc = "done"
    /\ stage \in {"wait", "build", "after"} /\ pc = "done" => manifests = Windows

\* A ledger without a broken window was built from a lake that had every line, and
\* the rows of that lake stay.
LedgerInv ==
    /\ ledger = Reconciled /\ ledger # Absent => Complete
    /\ stage = "after" => ledger = Reconciled

\* What the first grade says is true of the rows it counted ...
Honest(b) ==
    /\ b.once <=> b.grade.bronze = Cardinality(b.rows)
    /\ b.grade.ledger = Reconciled => b.rows = AllRows
BeforeInv == stage # "off" \/ rows # Absent => Honest(before)

\* ... and the second, which is always the same.
AfterInv ==
    rows # Absent => /\ stage = "off" /\ rows = [rows |-> AllRows, once |-> TRUE]
                     /\ exit = IF Identical(before.grade, FinalGrade) THEN 0 ELSE 1

GradesInv == TrialInv /\ WindowsInv /\ StageInv /\ LedgerInv /\ BeforeInv /\ AfterInv

-----------------------------------------------------------------------------
(* The manifests, the lines that have landed and the objects that share none *)

LEMMA WindowsStep ==
    ASSUME WindowsInv, Program \/ Kill \/ NextHour \/ UNCHANGED vars
    PROVE  /\ WindowsInv'
           /\ pc' = "done" => (pc = "done" /\ manifests' = manifests) \/ manifests' = Windows
<1>0. Windows \in Nat
  BY LoaderAssumption
<1>1. CASE WriteManifest
  <2>1. /\ pc = "rest" /\ pc' = pc /\ window < Windows /\ window' = window + 1
        /\ manifests' = IF window < manifests THEN manifests ELSE window + 1
    BY <1>1 DEF WriteManifest, Ready
  <2>2. /\ manifests \in 0 .. Windows /\ window \in 0 .. Windows /\ window <= manifests
    BY <2>1 DEF WindowsInv, LoadEnded
  <2>3. /\ manifests' \in 0 .. Windows /\ window' \in 0 .. Windows /\ window' <= manifests'
    BY <1>0, <2>1, <2>2
  <2> QED
    BY <2>1, <2>3 DEF WindowsInv
<1>2. CASE Finish
  <2>1. pc = "rest" /\ window = Windows /\ UNCHANGED <<manifests, window>> /\ pc' = "done"
    BY <1>2 DEF Finish, Ready, work, lake
  <2>2. manifests = Windows
    BY <1>0, <2>1 DEF WindowsInv, LoadEnded
  <2> QED
    BY <2>1, <2>2 DEF WindowsInv, LoadEnded
<1>3. CASE SkipBlank \/ ScalarRaises \/ ReadLine \/ EndOfFile \/ RestPartition
           \/ WriteBronze \/ WriteQuarantine
           \/ Kill
  <2>1. UNCHANGED <<manifests, window>> /\ pc \notin {"done", "died"} /\ pc' # "done"
    BY <1>3 DEF SkipBlank, ScalarRaises, ReadLine, EndOfFile, RestPartition, WriteBronze, WriteQuarantine,
                Return, Kill, Die, work, lake
  <2> QED
    BY <2>1 DEF WindowsInv, LoadEnded
<1>4. CASE NextHour \/ UNCHANGED vars
  <2>1. UNCHANGED <<manifests, window, pc>>
    BY <1>4 DEF NextHour, vars, work, lake
  <2> QED
    BY <2>1 DEF WindowsInv, LoadEnded
<1> QED
  BY <1>1, <1>2, <1>3, <1>4 DEF Program

LEMMA WindowsReload ==
    ASSUME WindowsInv, Reload
    PROVE  WindowsInv' /\ pc' = "read"
<1>1. window' = 0 /\ manifests' = manifests /\ pc' = "read" /\ Windows \in Nat
  BY LoaderAssumption DEF Reload, lake
<1>2. manifests \in 0 .. Windows
  BY DEF WindowsInv
<1> QED
  BY <1>1, <1>2 DEF WindowsInv

\* A line that has landed stays, as long as nobody destroys the lake.
LEMMA LandedStays ==
    ASSUME LoadInv, [Next]_vars
    PROVE  file' = file /\ \A n : Landed(n) => Landed(n)'
<1>1. FileInv
  BY DEF LoadInv
<1>2. CASE WriteBronze
  <2>1. CASE Refused(batches[cur])
    BY <1>2, <2>1 DEF WriteBronze, Landed
  <2>2. CASE ~Refused(batches[cur])
    <3>1. PICK p \in Partitions : p = cur
      BY <1>1 DEF FileInv
    <3>2. PICK list : list = batches[p]
      OBVIOUS
    <3>3. pc = "bronze" /\ bronze' = Put(bronze, p, hour, list) /\ UNCHANGED <<file, quarantine>>
      BY <1>2, <2>2, <3>1, <3>2 DEF WriteBronze
    <3>4. Waiting(p)
      BY <3>3, EveryPartition DEF LoadInv
    <3>5. Proper(file, p, list) /\ \E j \in Nat : LinesOf(list) = Batch(file, p, j, "bronze")
      BY <1>1, <3>1, <3>2, <3>3, <3>4, WrittenRecords
    <3>6. \A q, n : Has(bronze, q, n) => Has(bronze', q, n)
      BY <1>1, <3>3, <3>5, PutHas DEF LoadInv, LakeInv, StoresInv, FileInv
    <3> QED
      BY <3>3, <3>6 DEF Landed
  <2> QED
    BY <2>1, <2>2
<1>3. CASE WriteQuarantine
  <2>1. PICK p \in Partitions : p = cur
    BY <1>1 DEF FileInv
  <2>2. PICK list, slot : list = rejects[p] /\ slot = hour \div HoursPerDay
    OBVIOUS
  <2>3. pc = "quarantine" /\ quarantine' = Put(quarantine, p, slot, list) /\ UNCHANGED <<file, bronze>>
    BY <1>3, <2>1, <2>2 DEF WriteQuarantine
  <2>4. Waiting(p)
    BY <2>3, EveryPartition DEF LoadInv
  <2>5. Proper(file, p, list) /\ \E j \in Nat : LinesOf(list) = Batch(file, p, j, "quarantine")
    BY <1>1, <2>1, <2>2, <2>3, <2>4, WrittenRejects
  <2>6. \A q, n : Has(quarantine, q, n) => Has(quarantine', q, n)
    BY <1>1, <2>3, <2>5, PutHas DEF LoadInv, LakeInv, StoresInv, FileInv
  <2> QED
    BY <2>3, <2>6 DEF Landed
<1>4. CASE SkipBlank \/ ScalarRaises \/ ReadLine \/ EndOfFile \/ RestPartition \/ WriteManifest \/ Finish
  <2>1. UNCHANGED <<file, bronze, quarantine>>
    BY <1>4 DEF SkipBlank, ScalarRaises, ReadLine, EndOfFile, RestPartition, WriteManifest, Finish, lake
  <2> QED
    BY <2>1 DEF Landed
<1>5. CASE Kill \/ NextHour \/ Reload \/ UNCHANGED vars
  <2>1. UNCHANGED <<file, bronze, quarantine>>
    BY <1>5 DEF Kill, NextHour, Reload, lake, vars
  <2> QED
    BY <2>1 DEF Landed
<1> QED
  BY <1>2, <1>3, <1>4, <1>5 DEF Next, Program

LEMMA PutSeparate ==
    ASSUME NEW f, f \in Seq(Lines), NEW store, NEW table, StoreInv(f, store, table),
           NEW p, NEW slot, NEW list, Proper(f, p, list),
           list # <<>> => \E j \in Nat : LinesOf(list) = Batch(f, p, j, table),
           NEW after, after = Put(store, p, slot, list),
           Separate(store), LinesOf(list) \cap LinesIn(store) = {}
    PROVE  Separate(after) /\ LinesIn(after) \subseteq LinesIn(store) \cup LinesOf(list)
<1>1. \A k \in DOMAIN store : k \in DOMAIN after /\ after[k] = store[k]
  BY PutBatch
<1>2. \A k \in DOMAIN after : k \in DOMAIN store \/ (k = ObjectKey(p, slot, list) /\ after[k] = list)
  BY DEF Put
<1>3. \A k \in DOMAIN store : LinesOf(store[k]) \cap LinesOf(list) = {}
  BY DEF LinesIn
<1>4. Separate(after)
  <2>1. SUFFICES ASSUME NEW k \in DOMAIN after, NEW l \in DOMAIN after, k # l
                 PROVE  LinesOf(after[k]) \cap LinesOf(after[l]) = {}
    BY DEF Separate
  <2>2. CASE k \in DOMAIN store /\ l \in DOMAIN store
    BY <1>1, <2>1, <2>2 DEF Separate
  <2>3. CASE k \in DOMAIN store /\ l \notin DOMAIN store
    <3>1. after[k] = store[k] /\ after[l] = list
      BY <1>1, <1>2, <2>3
    <3> QED
      BY <1>3, <2>3, <3>1
  <2>4. CASE k \notin DOMAIN store
    <3>1. l \in DOMAIN store /\ after[k] = list
      BY <1>2, <2>1, <2>4
    <3>2. after[l] = store[l]
      BY <1>1, <3>1
    <3> QED
      BY <1>3, <3>1, <3>2
  <2> QED
    BY <2>2, <2>3, <2>4
<1>5. ASSUME NEW n \in LinesIn(after) PROVE n \in LinesIn(store) \cup LinesOf(list)
  <2>1. PICK k \in DOMAIN after : n \in LinesOf(after[k])
    BY DEF LinesIn
  <2>2. CASE k \in DOMAIN store
    BY <1>1, <2>1, <2>2 DEF LinesIn
  <2>3. CASE k \notin DOMAIN store
    BY <1>2, <2>1, <2>3
  <2> QED
    BY <2>2, <2>3
<1> QED
  BY <1>4, <1>5

LEMMA LinesInStore ==
    ASSUME NEW f, f \in Seq(Lines), NEW store, NEW table, StoreInv(f, store, table), NEW n \in LinesIn(store)
    PROVE  n \in DOMAIN f /\ n \in Nat
<1>1. PICK k \in DOMAIN store : n \in LinesOf(store[k])
  BY DEF LinesIn
<1>2. PICK i \in DOMAIN store[k] : n = store[k][i].line
  BY <1>1 DEF LinesOf
<1>3. Proper(f, k.part, store[k])
  BY DEF StoreInv
<1>4. Numbered(f, n)
  BY <1>2, <1>3 DEF Proper
<1> QED
  BY <1>4 DEF Numbered

\* The lines of a list that is written: its partition's, and read.
LEMMA LinesOfProper ==
    ASSUME NEW f, NEW p, NEW list, Proper(f, p, list), NEW n \in LinesOf(list)
    PROVE  Part(f, n) = p
<1>1. PICK i \in DOMAIN list : n = list[i].line
  BY DEF LinesOf
<1> QED
  BY <1>1 DEF Proper

LEMMA OnceAtRead ==
    ASSUME LoadInv, OnceInv, ReadLine
    PROVE  OnceInv'
<1>1. /\ pc = "read" /\ next <= Len(file) /\ next' = next + 1 /\ bronze' = bronze
      /\ \/ batches' = batches
         \/ batches' = [batches EXCEPT ![PartitionFor(file[next])] =
                           Append(@, [line |-> next, offset |-> offsets[PartitionFor(file[next])]])]
  BY DEF ReadLine, lake
<1>2. FileInv /\ file \in Seq(Lines) /\ next \in Nat /\ batches \in [Partitions -> Seq(Row)]
  BY <1>1, AtRead DEF LoadInv, FileInv
<1>3. ASSUME NEW n \in LinesIn(bronze), NEW p \in Partitions PROVE n < next' /\ n \notin LinesOf(batches'[p])
  <2>1. n \in Nat
    BY <1>2, LinesInStore DEF LoadInv, LakeInv, StoresInv
  <2>2. n < next /\ n \notin LinesOf(batches[p])
    BY <1>1 DEF OnceInv, Unwritten, LoadEnded
  <2>3. PICK row : row = [line |-> next, offset |-> offsets[PartitionFor(file[next])]]
    OBVIOUS
  <2>4. CASE batches'[p] = batches[p]
    BY <1>1, <1>2, <2>1, <2>2, <2>4
  <2>5. CASE batches'[p] = Append(batches[p], row)
    <3>1. batches[p] \in Seq(Row)
      BY <1>2
    <3>2. \A i \in DOMAIN Append(batches[p], row) :
             \/ i \in DOMAIN batches[p] /\ Append(batches[p], row)[i] = batches[p][i]
             \/ Append(batches[p], row)[i] = row
      BY <3>1
    <3>3. row.line = next
      BY <2>3
    <3>4. n # next
      BY <1>2, <2>1, <2>2
    <3>5. n \notin LinesOf(Append(batches[p], row))
      BY <2>2, <3>2, <3>3, <3>4 DEF LinesOf
    <3>6. n < next'
      BY <1>1, <1>2, <2>1, <2>2
    <3> QED
      BY <2>5, <3>5, <3>6
  <2>6. batches'[p] = batches[p] \/ batches'[p] = Append(batches[p], row)
    BY <1>1, <1>2, <2>3
  <2> QED
    BY <2>4, <2>5, <2>6
<1>4. \A n \in LinesIn(bronze) : n < next'
  <2>1. 0 \in Partitions
    BY LoaderAssumption
  <2> QED
    BY <1>3, <2>1
<1>5. Separate(bronze') /\ \A n \in LinesIn(bronze') : Unwritten(n)'
  BY <1>1, <1>3, <1>4 DEF OnceInv, Unwritten
<1> QED
  BY <1>5 DEF OnceInv

LEMMA OnceAtWrite ==
    ASSUME LoadInv, OnceInv, WriteBronze
    PROVE  OnceInv'
<1>1. CASE Refused(batches[cur])
  BY <1>1 DEF WriteBronze, Die, OnceInv, LoadEnded
<1>2. CASE ~Refused(batches[cur])
  <2>1. FileInv /\ file \in Seq(Lines) /\ batches \in [Partitions -> Seq(Row)]
    BY DEF LoadInv, FileInv
  <2>2. PICK p \in Partitions : p = cur
    BY <2>1 DEF FileInv
  <2>3. PICK list : list = batches[p]
    OBVIOUS
  <2>4. /\ pc = "bronze" /\ bronze' = Put(bronze, p, hour, list)
        /\ batches' = [batches EXCEPT ![p] = <<>>] /\ UNCHANGED <<file, next>>
    BY <1>2, <2>2, <2>3 DEF WriteBronze, Emptied
  <2>5. \A q \in Partitions : Waiting(q)
    BY <2>4, EveryPartition DEF LoadInv
  <2>6. Proper(file, p, list) /\ \E j \in Nat : LinesOf(list) = Batch(file, p, j, "bronze")
    BY <2>1, <2>2, <2>3, <2>4, <2>5, WrittenRecords
  <2>7. \A n \in LinesIn(bronze) : Unwritten(n)
    BY <2>4 DEF OnceInv, LoadEnded
  <2>8. LinesOf(list) \cap LinesIn(bronze) = {}
    BY <2>3, <2>7 DEF Unwritten
  <2>9. Separate(bronze') /\ LinesIn(bronze') \subseteq LinesIn(bronze) \cup LinesOf(list)
    BY <2>1, <2>4, <2>6, <2>8, PutSeparate DEF LoadInv, LakeInv, StoresInv, OnceInv
  <2>10. ASSUME NEW n \in LinesOf(list) PROVE n < next
    <3>1. Before(list, next)
      BY <2>3, <2>5 DEF Waiting, WaitInv
    <3> QED
      BY <3>1 DEF Before, LinesOf
  <2>11. ASSUME NEW n \in LinesIn(bronze'), NEW q \in Partitions PROVE n \notin LinesOf(batches'[q])
    <3>1. CASE q = p
      BY <2>1, <2>4, <3>1, NothingWaits
    <3>2. CASE q # p
      <4>1. batches'[q] = batches[q]
        BY <2>1, <2>4, <3>2
      <4>2. CASE n \in LinesIn(bronze)
        BY <2>7, <4>1, <4>2 DEF Unwritten
      <4>3. CASE n \in LinesOf(list)
        <5>1. Proper(file, q, batches[q])
          BY <2>5 DEF Waiting, WaitInv
        <5> QED
          BY <2>6, <3>2, <4>1, <4>3, <5>1, LinesOfProper
      <4> QED
        BY <2>9, <4>2, <4>3
    <3> QED
      BY <3>1, <3>2
  <2>12. \A n \in LinesIn(bronze') : Unwritten(n)'
    BY <2>4, <2>7, <2>9, <2>10, <2>11 DEF Unwritten
  <2> QED
    BY <2>9, <2>12 DEF OnceInv
<1> QED
  BY <1>1, <1>2

LEMMA OnceStep ==
    ASSUME LoadInv, OnceInv, Program \/ Kill \/ NextHour \/ UNCHANGED vars
    PROVE  OnceInv'
<1>1. CASE SkipBlank
  <2>1. pc = "read" /\ next <= Len(file) /\ next' = next + 1 /\ UNCHANGED <<bronze, batches>>
    BY <1>1 DEF SkipBlank, lake
  <2>2. FileInv /\ file \in Seq(Lines) /\ next \in Nat
    BY <2>1, AtRead DEF LoadInv, FileInv
  <2>3. ASSUME NEW n \in LinesIn(bronze) PROVE n < next + 1 /\ Unwritten(n)
    <3>1. n \in Nat
      BY <2>2, LinesInStore DEF LoadInv, LakeInv, StoresInv
    <3>2. Unwritten(n) /\ n < next
      BY <2>1 DEF OnceInv, LoadEnded, Unwritten
    <3> QED
      BY <2>2, <3>1, <3>2
  <2> QED
    BY <2>1, <2>3 DEF OnceInv, Unwritten
<1>2. CASE ReadLine
  BY <1>2, OnceAtRead
<1>3. CASE WriteBronze
  BY <1>3, OnceAtWrite
<1>4. CASE ScalarRaises \/ EndOfFile \/ RestPartition \/ WriteQuarantine \/ WriteManifest \/ Finish \/ Kill
  <2>1. UNCHANGED <<bronze, batches, next>> /\ ~LoadEnded
    BY <1>4 DEF ScalarRaises, EndOfFile, RestPartition, WriteQuarantine, WriteManifest, Ready, Finish, Kill,
                work, lake, LoadEnded
  <2> QED
    BY <2>1 DEF OnceInv, Unwritten
<1>5. CASE NextHour \/ UNCHANGED vars
  <2>1. UNCHANGED <<bronze, batches, next, pc>>
    BY <1>5 DEF NextHour, vars, work, lake
  <2> QED
    BY <2>1 DEF OnceInv, Unwritten, LoadEnded
<1> QED
  BY <1>1, <1>2, <1>3, <1>4, <1>5 DEF Program

LEMMA OnceReload ==
    ASSUME bronze = <<>>, Reload
    PROVE  OnceInv'
<1>1. bronze' = <<>> /\ DOMAIN <<>> = {}
  BY DEF Reload, lake
<1>2. Separate(bronze') /\ LinesIn(bronze') = {}
  BY <1>1 DEF Separate, LinesIn
<1> QED
  BY <1>2 DEF OnceInv

-----------------------------------------------------------------------------
(* The rows of a lake *)

LEMMA FinalRows ==
    ASSUME file \in Seq(Lines)
    PROVE  IsFiniteSet(AllRows)
<1>1. Records(file) \subseteq 1 .. Len(file)
  BY DEF Records, Numbered
<1>2. IsFiniteSet(Records(file))
  BY <1>1, FS_Interval, FS_Subset
<1>3. PICK name : name = [n \in Records(file) |-> RowOf(file, n)]
  OBVIOUS
<1>4. name \in Surjection(Records(file), AllRows)
  BY <1>3 DEF AllRows, Surjection
<1> QED
  BY <1>2, <1>4, FS_Surjection

LEMMA RowsAreOfTheFile ==
    ASSUME file \in Seq(Lines), StoresInv
    PROVE  /\ Provenance \subseteq AllRows
           /\ Complete => Provenance = AllRows
<1>1. ASSUME NEW row \in Provenance PROVE row \in AllRows
  <2>1. PICK r \in Stored(bronze) : row = [part |-> r.part, offset |-> r.offset, line |-> r.line]
    BY DEF Provenance
  <2>2. Numbered(file, r.line) /\ Part(file, r.line) = r.part /\ r.offset = OffsetOf(file, r.line)
    BY StoredRow DEF StoresInv
  <2>3. PICK k \in DOMAIN bronze : r.line \in LinesOf(bronze[k])
    BY DEF Stored, LinesOf
  <2>4. PICK j \in Nat : LinesOf(bronze[k]) = Batch(file, k.part, j, "bronze")
    BY DEF StoresInv, StoreInv
  <2>5. r.line \in Records(file)
    BY <2>2, <2>3, <2>4 DEF Batch, Records, Numbered
  <2> QED
    BY <2>1, <2>2, <2>5 DEF AllRows, RowOf
<1>2. ASSUME Complete, NEW row \in AllRows PROVE row \in Provenance
  <2>1. PICK n \in Records(file) : row = RowOf(file, n)
    BY DEF AllRows
  <2>2. n \in Loadable /\ IsRecord(file[n])
    BY DEF Records, Loadable, Numbered
  <2>3. InLake(n)
    BY <1>2, <2>2, LakeHas DEF Complete
  <2>4. PICK r \in Stored(bronze) : r.line = n /\ r.part = Part(file, n)
    BY <2>2, <2>3 DEF InLake, Part
  <2>5. r.offset = OffsetOf(file, n)
    BY <2>4, StoredRow DEF StoresInv
  <2> QED
    BY <2>1, <2>4, <2>5 DEF Provenance, RowOf
<1> QED
  BY <1>1, <1>2

\* Where no two objects share a line, the objects have as many rows as there are rows
\* with their provenance.
LEMMA CountOfRows ==
    ASSUME file \in Seq(Lines), StoresInv, Separate(bronze)
    PROVE  BronzeCount = Cardinality(Provenance)
<1> DEFINE Cells == UNION {{k} \X DOMAIN bronze[k] : k \in DOMAIN bronze}
<1> DEFINE RowAt(c) == [part |-> c[1].part, offset |-> bronze[c[1]][c[2]].offset,
                           line |-> bronze[c[1]][c[2]].line]
<1>1. \A c \in Cells : c[1] \in DOMAIN bronze /\ c[2] \in DOMAIN bronze[c[1]] /\ c = <<c[1], c[2]>>
  OBVIOUS
<1>2. ASSUME NEW k \in DOMAIN bronze, NEW i \in DOMAIN bronze[k]
      PROVE  /\ <<k, i>> \in Cells
              /\ RowAt(<<k, i>>) = [part |-> k.part, offset |-> bronze[k][i].offset,
                                    line |-> bronze[k][i].line]
  OBVIOUS
<1>3. PICK row : row = [c \in Cells |-> RowAt(c)]
  OBVIOUS
<1>4. ASSUME NEW c \in Cells PROVE RowAt(c) \in Provenance
  <2>1. PICK k, i : k = c[1] /\ i = c[2]
    OBVIOUS
  <2>2. k \in DOMAIN bronze /\ i \in DOMAIN bronze[k]
    BY <1>1, <2>1
  <2>3. [part |-> k.part, slot |-> k.slot, line |-> bronze[k][i].line,
         offset |-> bronze[k][i].offset] \in Stored(bronze)
    BY <2>2 DEF Stored
  <2> QED
    BY <2>1, <2>3 DEF Provenance
<1>5. ASSUME NEW r \in Provenance PROVE \E c \in Cells : RowAt(c) = r
  <2>1. PICK s \in Stored(bronze) : r = [part |-> s.part, offset |-> s.offset, line |-> s.line]
    BY DEF Provenance
  <2>2. PICK k \in DOMAIN bronze : \E i \in DOMAIN bronze[k] :
          s = [part |-> k.part, slot |-> k.slot, line |-> bronze[k][i].line, offset |-> bronze[k][i].offset]
    BY DEF Stored
  <2>3. PICK i \in DOMAIN bronze[k] :
          s = [part |-> k.part, slot |-> k.slot, line |-> bronze[k][i].line, offset |-> bronze[k][i].offset]
    BY <2>2
  <2>4. <<k, i>> \in Cells /\ RowAt(<<k, i>>) = r
    BY <1>2, <2>1, <2>3
  <2> QED
    BY <2>4
<1>6. ASSUME NEW c \in Cells, NEW d \in Cells, RowAt(c) = RowAt(d) PROVE c = d
  <2>1. PICK k, i : k = c[1] /\ i = c[2] /\ c = <<k, i>>
    BY <1>1
  <2>2. PICK l, j : l = d[1] /\ j = d[2] /\ d = <<l, j>>
    BY <1>1
  <2>3. k \in DOMAIN bronze /\ i \in DOMAIN bronze[k] /\ l \in DOMAIN bronze /\ j \in DOMAIN bronze[l]
    BY <1>1, <2>1, <2>2
  <2>4. bronze[k][i].line = bronze[l][j].line
    BY <1>6, <2>1, <2>2
  <2>5. bronze[k][i].line \in LinesOf(bronze[k]) /\ bronze[l][j].line \in LinesOf(bronze[l])
    BY <2>3 DEF LinesOf
  <2>6. k = l
    BY <2>3, <2>4, <2>5 DEF Separate
  <2>7. Proper(file, k.part, bronze[k])
    BY <2>3 DEF StoresInv, StoreInv
  <2>8. bronze[k] \in Seq(Row) /\ bronze[k][i].line \in Nat
    BY <2>3, <2>7, RowsOfList
  <2>9. i \in Nat /\ j \in Nat
    BY <2>3, <2>6, <2>8
  <2>10. ~(i < j) /\ ~(j < i)
    BY <2>3, <2>4, <2>6, <2>7, <2>8 DEF Proper
  <2> QED
    BY <2>1, <2>2, <2>6, <2>9, <2>10
<1>7. BronzeCount = Cardinality(Cells)
  BY DEF BronzeCount
<1>8. IsFiniteSet(Provenance)
  BY RowsAreOfTheFile, FinalRows, FS_Subset
<1> HIDE DEF Cells, RowAt
<1>9. row \in Injection(Cells, Provenance)
  BY <1>3, <1>4, <1>6 DEF Injection, IsInjective
<1>10. row \in Surjection(Cells, Provenance)
  <2>1. row \in [Cells -> Provenance]
    BY <1>3, <1>4
  <2>2. \A r \in Provenance : \E c \in Cells : row[c] = r
    BY <1>3, <1>5
  <2> QED
    BY <2>1, <2>2 DEF Surjection
<1> QED
  BY <1>7, <1>8, <1>9, <1>10, FS_Injection

-----------------------------------------------------------------------------
(* The ledger *)

\* The windows of a ledger are a finite set, and those without a fault are known.
LEMMA LedgerOfLake ==
    ASSUME WindowsInv, LakeInv, NEW old
    PROVE  /\ CompletenessLedger(old) = Reconciled => Complete
           /\ manifests = Windows /\ ~(CompletenessLedger(old).broken > 0)
              => CompletenessLedger(old) = Reconciled
<1> DEFINE All == Known \cup InGold
<1> DEFINE Broken == {w \in All : \/ w \notin Known \cap InGold
                                  \/ old /\ LinesInSilver(w) # EventLines(w)}
<1>0. Windows \in Nat /\ Windows > 0 /\ manifests \in 0 .. Windows /\ manifests \in Nat
  BY LoaderAssumption, AcceptanceAssumption DEF WindowsInv
<1>1. CompletenessLedger(old) = [windows |-> Cardinality(All), broken |-> Cardinality(Broken)]
  BY DEF CompletenessLedger
<1>2. All \subseteq 0 .. (Windows - 1)
  BY <1>0 DEF Known, InGold
<1>3. IsFiniteSet(All) /\ IsFiniteSet(Broken)
  <2>1. IsFiniteSet(0 .. (Windows - 1))
    BY <1>0, FS_Interval
  <2>2. Broken \subseteq All
    OBVIOUS
  <2> QED
    BY <1>2, <2>1, <2>2, FS_Subset
<1>4. Cardinality(All) \in Nat /\ Cardinality(Broken) \in Nat
  BY <1>3, FS_CardinalityType
<1>5. ASSUME CompletenessLedger(old) = Reconciled PROVE Complete
  <2>1. Cardinality(All) = Windows /\ Cardinality(Broken) = 0
    BY <1>1, <1>5 DEF Reconciled
  <2>2. Broken = {}
    BY <1>3, <2>1, FS_EmptySet
  <2>3. All # {}
    BY <1>0, <2>1, FS_EmptySet
  <2>4. PICK w \in All : w \notin Broken
    BY <2>2, <2>3
  <2>5. w \in Known
    BY <2>4
  <2>6. manifests > 0
    BY <1>0, <2>5 DEF Known
  <2> QED
    BY <2>6, LakeHas DEF LakeInv, LoadedBeforeManifests, Complete
<1>6. ASSUME manifests = Windows, ~(CompletenessLedger(old).broken > 0)
      PROVE  CompletenessLedger(old) = Reconciled
  <2>1. Cardinality(Broken) = 0
    <3>1. CompletenessLedger(old).broken = Cardinality(Broken)
      BY <1>1
    <3> HIDE DEF Broken
    <3> QED
      BY <1>4, <1>6, <3>1
  <2>2. All = 0 .. (Windows - 1)
    BY <1>2, <1>6 DEF Known
  <2>3. Cardinality(0 .. (Windows - 1)) = Windows
    <3>1. Cardinality(0 .. (Windows - 1)) = IF 0 > Windows - 1 THEN 0 ELSE (Windows - 1) - 0 + 1
      BY <1>0, FS_Interval
    <3> QED
      BY <1>0, <3>1
  <2> QED
    BY <1>1, <2>1, <2>2, <2>3 DEF Reconciled
<1> QED
  BY <1>5, <1>6

-----------------------------------------------------------------------------
(* The steps of the script *)

LEMMA SameRows ==
    ASSUME file' = file
    PROVE  AllRows' = AllRows /\ FinalGrade' = FinalGrade
BY DEF AllRows, Records, RowOf, FinalGrade, Reconciled

LEMMA SameGrades ==
    ASSUME BeforeInv, AfterInv, UNCHANGED <<file, stage, before, rows, exit>>
    PROVE  BeforeInv' /\ AfterInv'
<1>1. AllRows' = AllRows /\ FinalGrade' = FinalGrade
  BY SameRows
<1>2. BeforeInv'
  BY <1>1 DEF BeforeInv, Honest, Reconciled
<1>3. AfterInv'
  BY <1>1 DEF AfterInv
<1> QED
  BY <1>2, <1>3

\* Steps of the loader keep a complete lake complete.
LEMMA CompleteStays ==
    ASSUME LoadInv, [Next]_vars, Complete
    PROVE  Complete'
<1>1. file' = file /\ \A n : Landed(n) => Landed(n)'
  BY LandedStays
<1>2. Loadable' = Loadable
  BY <1>1 DEF Loadable
<1> QED
  BY <1>1, <1>2 DEF Complete

LEMMA LedgerStays ==
    ASSUME LedgerInv, LoadInv, [Next]_vars, UNCHANGED <<stage, ledger>>
    PROVE  LedgerInv'
BY CompleteStays DEF LedgerInv, Reconciled

LEMMA GradesRunning ==
    ASSUME GradesInv, Running
    PROVE  WindowsInv' /\ StageInv' /\ LedgerInv' /\ BeforeInv' /\ AfterInv'
<1>1. /\ UNCHANGED <<stage, ledger, before, exit, rows>>
      /\ Program \/ Kill \/ NextHour
  BY DEF Running, trial
<1>2. LoadInv /\ WindowsInv /\ StageInv /\ LedgerInv /\ BeforeInv /\ AfterInv
  BY DEF GradesInv, TrialInv
<1>3. file' = file
  BY <1>1, <1>2, LandedStays DEF Next
<1>4. WindowsInv' /\ (pc' = "done" => (pc = "done" /\ manifests' = manifests) \/ manifests' = Windows)
  BY <1>1, <1>2, WindowsStep
<1>5. LedgerInv'
  BY <1>1, <1>2, LedgerStays DEF Next
<1>6. LoadEnded => UNCHANGED <<pc, bronze, manifests>>
  BY <1>1 DEF Program, SkipBlank, ScalarRaises, ReadLine, EndOfFile, RestPartition, WriteBronze,
              WriteQuarantine, WriteManifest, Ready, Finish, Kill, NextHour, LoadEnded, lake
<1>7. StageInv'
  <2>1. stage \in {"apply", "replay"} => bronze' = <<>>
    BY <1>2, <1>6 DEF StageInv, GradesInv, TrialInv
  <2>2. stage \in {"wait", "build", "after"} => OnceInv'
    BY <1>1, <1>2, OnceStep DEF StageInv
  <2>3. stage \in {"build", "after"} => pc' = "done"
    BY <1>2, <1>6 DEF StageInv, LoadEnded
  <2>4. stage \in {"wait", "build", "after"} /\ pc' = "done" => manifests' = Windows
    BY <1>2, <1>4 DEF StageInv
  <2> QED
    BY <1>1, <2>1, <2>2, <2>3, <2>4 DEF StageInv
<1> QED
  BY <1>1, <1>2, <1>3, <1>4, <1>5, <1>7, SameGrades

LEMMA GradesLoad ==
    ASSUME GradesInv, Load
    PROVE  WindowsInv' /\ StageInv' /\ LedgerInv' /\ BeforeInv' /\ AfterInv'
<1>1. /\ stage = "off" /\ Reload
      /\ UNCHANGED <<file, stage, ledger, before, exit, rows>>
  BY DEF Load, trial, Reload
<1>2. LoadInv /\ WindowsInv /\ LedgerInv /\ BeforeInv /\ AfterInv
  BY DEF GradesInv, TrialInv
<1>3. WindowsInv'
  BY <1>1, <1>2, WindowsReload
<1>4. LedgerInv'
  BY <1>1, <1>2, LedgerStays DEF Next
<1>5. StageInv'
  BY <1>1 DEF StageInv
<1> QED
  BY <1>1, <1>2, <1>3, <1>4, <1>5, SameGrades

\* The first grade: its rows are those of the file when its ledger has no broken window.
LEMMA GradesBefore ==
    ASSUME GradesInv, GradeBefore
    PROVE  WindowsInv' /\ StageInv' /\ LedgerInv' /\ BeforeInv' /\ AfterInv'
<1>1. /\ rows' = Absent /\ UNCHANGED vars /\ UNCHANGED ledger
      /\ \/ stage' = "off"
         \/ /\ stage' = "destroy" /\ ledger # Absent
            /\ before' = [grade |-> Grade, rows |-> Provenance, once |-> EachOnce]
  BY DEF GradeBefore, Fail
<1>2. LoadInv /\ WindowsInv /\ LedgerInv
  BY DEF GradesInv, TrialInv
<1>3. WindowsInv' /\ file' = file
  BY <1>1, <1>2, WindowsStep DEF vars
<1>4. LedgerInv'
  <2>1. Complete => Complete'
    BY <1>1, <1>2, CompleteStays
  <2> QED
    BY <1>1, <1>2, <2>1 DEF LedgerInv, Reconciled
<1>5. StageInv'
  BY <1>1 DEF StageInv
<1>6. BeforeInv'
  <2>1. SUFFICES ASSUME stage' = "destroy"
                 PROVE  Honest(before)'
    BY <1>1 DEF BeforeInv
  <2>2. /\ before' = [grade |-> Grade, rows |-> Provenance, once |-> EachOnce]
        /\ ledger # Absent
    BY <1>1, <2>1
  <2>3. before'.once <=> before'.grade.bronze = Cardinality(before'.rows)
    BY <2>2 DEF Grade, EachOnce
  <2>4. ASSUME before'.grade.ledger = Reconciled
        PROVE  before'.rows = AllRows
    <3>1. Complete
      BY <1>2, <2>2, <2>4 DEF Grade, LedgerInv
    <3> QED
      BY <1>2, <2>2, <3>1, RowsAreOfTheFile DEF LoadInv, FileInv, LakeInv
  <2> QED
    BY <1>3, <2>3, <2>4, SameRows DEF Honest, Reconciled
<1>7. AfterInv'
  BY <1>1 DEF AfterInv
<1> QED
  BY <1>3, <1>4, <1>5, <1>6, <1>7

\* A lake that is destroyed takes the rows of the old ledger with it.
LEMMA GradesDestroy ==
    ASSUME GradesInv, Destroy
    PROVE  WindowsInv' /\ StageInv' /\ LedgerInv' /\ BeforeInv' /\ AfterInv'
<1>1. /\ stage = "destroy" /\ stage' \in {"off", "apply"}
      /\ UNCHANGED <<file, pc, window, before, rows>>
      /\ \/ bronze' = <<>> /\ manifests' = 0 /\ ledger' \in {Absent, EmptyLedger}
         \/ UNCHANGED <<bronze, quarantine, manifests>> /\ ledger' \in {Absent, ledger}
      /\ stage' = "apply" => bronze' = <<>>
  <2>1. /\ stage = "destroy" /\ UNCHANGED <<file, pc, window, before, rows>>
    BY DEF Destroy, work
  <2>2. PICK lakeGone \in BOOLEAN, tablesGone \in BOOLEAN, bucketGone \in BOOLEAN :
          /\ bucketGone => lakeGone
          /\ IF lakeGone THEN bronze' = <<>> /\ quarantine' = <<>> /\ manifests' = 0 ELSE UNCHANGED lake
          /\ ledger' = CASE tablesGone -> Absent
                         [] lakeGone /\ ~tablesGone -> EmptyLedger
                         [] ~lakeGone /\ ~tablesGone -> ledger
          /\ Fail \/ (bucketGone /\ stage' = "apply")
    BY DEF Destroy
  <2>3. ledger' \in {Absent, IF lakeGone THEN EmptyLedger ELSE ledger}
    BY <2>2
  <2>4. stage' \in {"off", "apply"} /\ (stage' = "apply" => lakeGone)
    BY <2>2 DEF Fail
  <2>5. CASE lakeGone
    BY <2>1, <2>2, <2>3, <2>4, <2>5
  <2>6. CASE ~lakeGone
    <3>1. UNCHANGED <<bronze, quarantine, manifests>>
      BY <2>2, <2>6 DEF lake
    <3> QED
      BY <2>1, <2>3, <2>4, <2>6, <3>1
  <2> QED
    BY <2>5, <2>6
<1>2. LoadEnded /\ LoadInv /\ WindowsInv /\ LedgerInv /\ BeforeInv /\ AfterInv
  BY <1>1 DEF GradesInv, TrialInv
<1>3. WindowsInv'
  BY <1>1, <1>2, LoaderAssumption DEF WindowsInv, LoadEnded
<1>4. StageInv'
  BY <1>1 DEF StageInv
<1>5. LedgerInv'
  <2>1. SUFFICES ASSUME ledger' = Reconciled, ledger' # Absent PROVE Complete'
    BY <1>1 DEF LedgerInv, Reconciled
  <2>2. UNCHANGED <<bronze, quarantine>> /\ ledger = ledger'
    <3>1. EmptyLedger # Reconciled
      BY AcceptanceAssumption DEF EmptyLedger, Reconciled
    <3> QED
      BY <1>1, <2>1, <3>1
  <2>3. Complete
    BY <1>2, <2>1, <2>2 DEF LedgerInv
  <2>4. \A n : Landed(n)' <=> Landed(n)
    BY <1>1, <2>2 DEF Landed
  <2> QED
    BY <1>1, <2>3, <2>4 DEF Complete, Loadable
<1>6. rows = Absent
  BY <1>1, <1>2 DEF AfterInv
<1>7. BeforeInv' /\ AfterInv'
  <2>1. Honest(before)
    BY <1>1, <1>2 DEF BeforeInv
  <2>2. Honest(before)'
    BY <1>1, <2>1, SameRows DEF Honest, Reconciled
  <2> QED
    BY <1>1, <1>6, <2>2 DEF BeforeInv, AfterInv
<1> QED
  BY <1>3, <1>4, <1>5, <1>7

\* The steps of the script that leave the loader and its lake alone.
LEMMA GradesWaiting ==
    ASSUME GradesInv, Apply \/ Replayed
    PROVE  WindowsInv' /\ StageInv' /\ LedgerInv' /\ BeforeInv' /\ AfterInv'
<1>1. /\ UNCHANGED vars /\ UNCHANGED <<ledger, before, rows>>
      /\ \/ stage' = "off"
         \/ stage = "apply" /\ stage' = "replay"
         \/ stage = "wait" /\ stage' = "build" /\ pc = "done"
      /\ stage # "off"
  BY DEF Apply, Replayed, Fail, LoadEnded
<1>2. LoadInv /\ WindowsInv /\ StageInv /\ LedgerInv /\ BeforeInv /\ AfterInv
  BY DEF GradesInv, TrialInv
<1>3. WindowsInv' /\ file' = file /\ UNCHANGED <<bronze, manifests, pc>>
  BY <1>1, <1>2, WindowsStep DEF vars, lake
<1>4. LedgerInv'
  <2>1. Complete => Complete'
    BY <1>1, <1>2, CompleteStays
  <2> QED
    BY <1>1, <1>2, <2>1 DEF LedgerInv, Reconciled
<1>5. StageInv'
  <2>1. OnceInv => OnceInv'
    BY <1>1, <1>2, OnceStep
  <2> QED
    BY <1>1, <1>2, <1>3, <2>1 DEF StageInv
<1>6. rows = Absent
  BY <1>1, <1>2 DEF AfterInv
<1>7. BeforeInv' /\ AfterInv'
  <2>1. Honest(before)
    BY <1>1, <1>2 DEF BeforeInv
  <2>2. Honest(before)'
    BY <1>1, <1>3, <2>1, SameRows DEF Honest, Reconciled
  <2> QED
    BY <1>1, <1>6, <2>2 DEF BeforeInv, AfterInv
<1> QED
  BY <1>3, <1>4, <1>5, <1>7

LEMMA GradesReplay ==
    ASSUME GradesInv, Replay
    PROVE  WindowsInv' /\ StageInv' /\ LedgerInv' /\ BeforeInv' /\ AfterInv'
<1>1. /\ stage = "replay" /\ stage' = "wait" /\ Reload /\ file' = file
      /\ UNCHANGED <<ledger, before, exit, rows>>
  BY DEF Replay, Reload
<1>2. LoadInv /\ WindowsInv /\ StageInv /\ LedgerInv /\ BeforeInv /\ AfterInv
  BY DEF GradesInv, TrialInv
<1>3. WindowsInv' /\ pc' = "read"
  BY <1>1, <1>2, WindowsReload
<1>4. OnceInv'
  BY <1>1, <1>2, OnceReload DEF StageInv
<1>5. StageInv'
  BY <1>1, <1>3, <1>4 DEF StageInv
<1>6. LedgerInv'
  <2>1. Complete => Complete'
    BY <1>1, <1>2, CompleteStays DEF Next
  <2> QED
    BY <1>1, <1>2, <2>1 DEF LedgerInv, Reconciled
<1>7. rows = Absent
  BY <1>1, <1>2 DEF AfterInv
<1>8. BeforeInv' /\ AfterInv'
  <2>1. Honest(before)
    BY <1>1, <1>2 DEF BeforeInv
  <2>2. Honest(before)'
    BY <1>1, <2>1, SameRows DEF Honest, Reconciled
  <2> QED
    BY <1>1, <1>7, <2>2 DEF BeforeInv, AfterInv
<1> QED
  BY <1>3, <1>5, <1>6, <1>8

\* Every build, the operator's and the script's: a ledger without a broken window is
\* that of a lake that has every line.
LEMMA LedgerOfBuild ==
    ASSUME LoadInv, WindowsInv, UNCHANGED vars, NEW old, ledger' = CompletenessLedger(old)
    PROVE  /\ ledger' = Reconciled => Complete'
           /\ manifests = Windows /\ ~(ledger'.broken > 0) => ledger' = Reconciled
<1>1. /\ ledger' = Reconciled => Complete
      /\ manifests = Windows /\ ~(ledger'.broken > 0) => ledger' = Reconciled
  BY LedgerOfLake DEF LoadInv
<1> QED
  BY <1>1, CompleteStays

LEMMA GradesBuild ==
    ASSUME GradesInv, Build
    PROVE  WindowsInv' /\ StageInv' /\ LedgerInv' /\ BeforeInv' /\ AfterInv'
<1>1. /\ stage = "off" /\ UNCHANGED vars /\ UNCHANGED <<stage, before, exit, rows>>
  BY DEF Build
<1>2. PICK old : ledger' = CompletenessLedger(old)
  BY DEF Build
<1>3. LoadInv /\ WindowsInv /\ BeforeInv /\ AfterInv
  BY DEF GradesInv, TrialInv
<1>4. WindowsInv' /\ file' = file
  BY <1>1, <1>3, WindowsStep DEF vars
<1>5. LedgerInv'
  BY <1>1, <1>2, <1>3, LedgerOfBuild DEF LedgerInv, Reconciled
<1>6. StageInv'
  BY <1>1 DEF StageInv
<1> QED
  BY <1>1, <1>3, <1>4, <1>5, <1>6, SameGrades

\* The gate of the script: a build that passes it saw every window.
LEMMA GradesDbtBuild ==
    ASSUME GradesInv, DbtBuild
    PROVE  WindowsInv' /\ StageInv' /\ LedgerInv' /\ BeforeInv' /\ AfterInv'
<1>1. /\ stage = "build" /\ UNCHANGED vars /\ UNCHANGED <<before, rows>>
      /\ IF ledger'.broken > 0 THEN stage' = "off" ELSE stage' = "after"
  BY DEF DbtBuild, Fail
<1>2. PICK old : ledger' = CompletenessLedger(old)
  BY DEF DbtBuild
<1>3. LoadInv /\ WindowsInv /\ StageInv /\ BeforeInv /\ AfterInv
  BY DEF GradesInv, TrialInv
<1>4. WindowsInv' /\ file' = file /\ UNCHANGED <<bronze, manifests, pc>>
  BY <1>1, <1>3, WindowsStep DEF vars, lake
<1>5. manifests = Windows /\ pc = "done" /\ OnceInv
  BY <1>1, <1>3 DEF StageInv
<1>6. OnceInv'
  BY <1>1, <1>3, <1>5, OnceStep
<1>7. StageInv'
  BY <1>1, <1>4, <1>5, <1>6 DEF StageInv
<1>8. LedgerInv'
  <2>1. /\ ledger' = Reconciled => Complete'
        /\ ~(ledger'.broken > 0) => ledger' = Reconciled
    BY <1>1, <1>2, <1>3, <1>5, LedgerOfBuild
  <2>2. stage' = "after" => ledger' = Reconciled
    BY <1>1, <2>1
  <2> QED
    BY <2>1, <2>2 DEF LedgerInv, Reconciled
<1>9. rows = Absent
  BY <1>1, <1>3 DEF AfterInv
<1>10. BeforeInv' /\ AfterInv'
  <2>1. Honest(before)
    BY <1>1, <1>3 DEF BeforeInv
  <2>2. Honest(before)'
    BY <1>1, <1>4, <2>1, SameRows DEF Honest, Reconciled
  <2> QED
    BY <1>1, <1>9, <2>2 DEF BeforeInv, AfterInv
<1> QED
  BY <1>4, <1>7, <1>8, <1>10

\* The second grade is that of every record of the file, once.
LEMMA GradesAfter ==
    ASSUME GradesInv, GradeAfter
    PROVE  WindowsInv' /\ StageInv' /\ LedgerInv' /\ BeforeInv' /\ AfterInv'
<1>1. /\ stage = "after" /\ stage' = "off" /\ UNCHANGED vars /\ UNCHANGED <<ledger, before>>
      /\ rows' = [rows |-> Provenance, once |-> EachOnce]
      /\ exit' = IF Identical(before.grade, Grade) THEN 0 ELSE 1
  BY DEF GradeAfter
<1>2. LoadInv /\ WindowsInv /\ StageInv /\ LedgerInv /\ BeforeInv
  BY DEF GradesInv, TrialInv
<1>3. WindowsInv' /\ file' = file
  BY <1>1, <1>2, WindowsStep DEF vars
<1>4. manifests > 0
  BY <1>1, <1>2, LoaderAssumption, AcceptanceAssumption DEF StageInv
<1>5. Complete
  BY <1>2, <1>4, LakeHas DEF LoadInv, LakeInv, LoadedBeforeManifests, Complete
<1>6. Provenance = AllRows /\ file \in Seq(Lines)
  BY <1>2, <1>5, RowsAreOfTheFile DEF LoadInv, FileInv, LakeInv
<1>7. BronzeCount = Cardinality(AllRows)
  BY <1>1, <1>2, <1>6, CountOfRows DEF StageInv, OnceInv, LoadInv, LakeInv
<1>8. Grade = FinalGrade /\ EachOnce = TRUE
  BY <1>1, <1>2, <1>6, <1>7 DEF Grade, FinalGrade, EachOnce, LedgerInv
<1>9. AllRows' = AllRows /\ FinalGrade' = FinalGrade
  BY <1>3, SameRows
<1>10. AfterInv'
  BY <1>1, <1>6, <1>8, <1>9 DEF AfterInv
<1>11. BeforeInv'
  BY <1>1, <1>2, <1>9 DEF BeforeInv, Honest, Reconciled
<1>12. StageInv'
  BY <1>1 DEF StageInv
<1>13. LedgerInv'
  <2>1. Complete => Complete'
    BY <1>1, <1>2, CompleteStays
  <2> QED
    BY <1>1, <1>2, <2>1 DEF LedgerInv, Reconciled
<1> QED
  BY <1>3, <1>10, <1>11, <1>12, <1>13

LEMMA GradesStill ==
    ASSUME GradesInv, UNCHANGED allVars
    PROVE  WindowsInv' /\ StageInv' /\ LedgerInv' /\ BeforeInv' /\ AfterInv'
<1>1. UNCHANGED vars /\ UNCHANGED <<stage, ledger, before, exit, rows>>
  BY DEF allVars, trial
<1>2. LoadInv /\ WindowsInv /\ StageInv /\ LedgerInv /\ BeforeInv /\ AfterInv
  BY DEF GradesInv, TrialInv
<1>3. WindowsInv' /\ UNCHANGED <<file, bronze, manifests, pc>>
  BY <1>1, <1>2, WindowsStep DEF vars, lake
<1>4. LedgerInv'
  BY <1>1, <1>2, LedgerStays
<1>5. OnceInv => OnceInv'
  BY <1>1, <1>2, OnceStep
<1>6. StageInv'
  BY <1>1, <1>2, <1>3, <1>5 DEF StageInv
<1> QED
  BY <1>1, <1>2, <1>3, <1>4, <1>6, SameGrades

LEMMA GradesStep == GradesInv /\ [NextTrial]_allVars => GradesInv'
<1> SUFFICES ASSUME GradesInv, [NextTrial]_allVars PROVE GradesInv'
  OBVIOUS
<1>1. TrialInv'
  BY TrialStep DEF GradesInv
<1>2. WindowsInv' /\ StageInv' /\ LedgerInv' /\ BeforeInv' /\ AfterInv'
  BY GradesRunning, GradesLoad, GradesBuild, GradesBefore, GradesDestroy, GradesWaiting, GradesReplay,
     GradesDbtBuild, GradesAfter, GradesStill DEF NextTrial, Script
<1> QED
  BY <1>1, <1>2 DEF GradesInv

LEMMA InitGrades == InitTrial => GradesInv
<1> SUFFICES ASSUME InitTrial PROVE GradesInv
  OBVIOUS
<1>1. TrialInv
  BY InitLoad DEF InitTrial, TrialInv
<1>2. WindowsInv
  BY LoaderAssumption DEF InitTrial, Init, WindowsInv
<1> QED
  BY <1>1, <1>2 DEF InitTrial, GradesInv, StageInv, LedgerInv, BeforeInv, AfterInv

LEMMA GradesAlways == SpecTrial => []GradesInv
BY InitGrades, GradesStep, PTL DEF SpecTrial

\* An exit code of 0 is worth what it claims: the rebuilt bronze has every row of the lake
\* that was graded first, with its provenance and once, although the script only compares
\* counts (acceptance.py:183-184, 3-8).
THEOREM EqualGradesMeanEqualRows == SpecTrial => []IdenticalMeansSameRows
<1>1. ASSUME GradesInv, Graded, exit = 0
      PROVE  before.rows = rows.rows /\ before.once /\ rows.once
  <2>1. /\ rows = [rows |-> AllRows, once |-> TRUE]
        /\ exit = IF Identical(before.grade, FinalGrade) THEN 0 ELSE 1
        /\ Honest(before)
    BY <1>1 DEF GradesInv, AfterInv, BeforeInv, Graded
  <2>2. before.grade.ledger = Reconciled /\ before.grade.bronze = Cardinality(AllRows)
    BY <1>1, <2>1 DEF Identical, FinalGrade
  <2> QED
    BY <2>1, <2>2 DEF Honest
<1>2. GradesInv => IdenticalMeansSameRows
  BY <1>1 DEF IdenticalMeansSameRows
<1> QED
  BY <1>2, GradesAlways, PTL

\* The other way about: a lake that was loaded once and reconciled is rebuilt to the same
\* rows and grades the same, whatever died and into whichever hours the loads fell
\* (acceptance.py:3-8).
THEOREM RebuildComesOutTheSame == SpecTrial => []RebuildIsDeterministic
<1>1. ASSUME GradesInv, Graded, before.once, before.grade.ledger = [windows |-> Windows, broken |-> 0]
      PROVE  exit = 0 /\ rows.rows = before.rows
  <2>1. /\ rows = [rows |-> AllRows, once |-> TRUE]
        /\ exit = IF Identical(before.grade, FinalGrade) THEN 0 ELSE 1
        /\ Honest(before)
    BY <1>1 DEF GradesInv, AfterInv, BeforeInv, Graded
  <2>2. before.rows = AllRows /\ before.grade.bronze = Cardinality(before.rows)
    BY <1>1, <2>1 DEF Honest, Reconciled
  <2>3. Identical(before.grade, FinalGrade)
    BY <1>1, <2>2 DEF Identical, FinalGrade, Reconciled
  <2> QED
    BY <2>1, <2>2, <2>3
<1>2. GradesInv => RebuildIsDeterministic
  BY <1>1 DEF RebuildIsDeterministic
<1> QED
  BY <1>2, GradesAlways, PTL

=============================================================================
