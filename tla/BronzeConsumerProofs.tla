------------------------ MODULE BronzeConsumerProofs ------------------------
(***************************************************************************)
(* Theorems about BronzeConsumer, for every value of its constants: first  *)
(* LandingInv and what it implies of the lake and of the offsets; then, on *)
(* top of it, that the consumer implements Landing, and what bounds the    *)
(* work a restart repeats: the size of a batch, what a clean exit leaves   *)
(* behind, and the rows a calm consumer writes twice (none).               *)
(* They are about a group of any size that reads from the beginning and    *)
(* writes to S3, as long as its partitions change hands only when nothing  *)
(* is held (GroupSpec); a sole member never does otherwise.                *)
(***************************************************************************)
EXTENDS BronzeConsumerProps, WellFoundedInduction, SequenceTheorems, TLAPS

-----------------------------------------------------------------------------
(* Extrema of sets of offsets *)

LEMMA LeastExists ==
  ASSUME NEW S, S \subseteq Nat, S # {}
  PROVE  \E x \in S : IsMin(x, S)
<1>1. PICK x \in S : \A y \in S : ~ (<<y, x>> \in OpToRel(<, Nat))
  BY WFMin, NatLessThanWellFounded
<1>2. \A y \in S : ~(y < x)
  BY <1>1 DEF OpToRel
<1>3. \A y \in S : x <= y
  BY <1>2
<1> QED
  BY <1>3 DEF IsMin

LEMMA GreatestExists ==
  ASSUME NEW n \in Nat, NEW S, S \subseteq 0 .. n, S # {}
  PROVE  \E x \in S : IsMax(x, S)
<1> DEFINE T == {n - x : x \in S}
<1>1. T \subseteq Nat
  OBVIOUS
<1>2. PICK s \in S : TRUE
  OBVIOUS
<1>3. n - s \in T
  BY <1>2
<1>4. PICK t \in T : IsMin(t, T)
  BY <1>1, <1>3, LeastExists
<1>5. PICK x \in S : t = n - x
  OBVIOUS
<1>6. \A y \in S : n - x <= n - y
  BY <1>4, <1>5 DEF IsMin
<1> QED
  BY <1>6 DEF IsMax

\* The bounds of a non-empty set of offsets of a log of length n + 1.
LEMMA Extrema ==
  ASSUME NEW n \in Nat, NEW S, S \subseteq 0 .. (n - 1), S # {}
  PROVE  /\ Lowest(S) \in S /\ \A y \in S : Lowest(S) <= y
         /\ Highest(S) \in S /\ \A y \in S : y <= Highest(S)
<1>1. \E x \in S : IsMin(x, S)
  <2>1. S \subseteq Nat
    OBVIOUS
  <2> QED
    BY <2>1, LeastExists
<1>2. \E x \in S : IsMax(x, S)
  <2>1. S \subseteq 0 .. n
    OBVIOUS
  <2> QED
    BY <2>1, GreatestExists
<1>3. IsMin(Lowest(S), S)
  BY <1>1 DEF Lowest
<1>4. IsMax(Highest(S), S)
  BY <1>2 DEF Highest
<1> QED
  BY <1>3, <1>4 DEF IsMin, IsMax

-----------------------------------------------------------------------------
(* Stores and buffers *)

LEMMA PutIsStore ==
  ASSUME NEW store, IsStore(store), NEW key \in Key, NEW seq \in Seq(Nat)
  PROVE  IsStore(Put(store, key, seq))
BY DEF IsStore, Put

LEMMA RemainsIsStore ==
  ASSUME NEW store, IsStore(store), NEW key \in Key, NEW seq \in Seq(Nat),
         NEW left \in Remains(store, key, seq)
  PROVE  IsStore(left)
<1>1. Torn \in Seq(Nat)
  BY DEF Torn
<1> QED
  BY <1>1, PutIsStore DEF Remains

LEMMA AppendRows ==
  ASSUME NEW seq \in Seq(Nat), NEW o \in Nat
  PROVE  /\ Append(seq, o) \in Seq(Nat)
         /\ Rows(Append(seq, o)) = Rows(seq) \cup {o}
         /\ Append(seq, o) # <<>>
<1>1. Append(seq, o) \in Seq(Nat) /\ Len(Append(seq, o)) = Len(seq) + 1
  OBVIOUS
<1>2. \A x : x \in Rows(Append(seq, o)) => x \in Rows(seq) \cup {o}
  BY DEF Rows
<1>3. o \in Rows(Append(seq, o))
  <2>1. Len(seq) + 1 \in 1 .. Len(Append(seq, o))
    OBVIOUS
  <2>2. Append(seq, o)[Len(seq) + 1] = o
    OBVIOUS
  <2> QED
    BY <2>1, <2>2 DEF Rows
<1>4. \A x \in Rows(seq) : x \in Rows(Append(seq, o))
  <2> SUFFICES ASSUME NEW i \in 1 .. Len(seq)
               PROVE  seq[i] \in Rows(Append(seq, o))
    BY DEF Rows
  <2>1. i \in 1 .. Len(Append(seq, o)) /\ Append(seq, o)[i] = seq[i]
    OBVIOUS
  <2> QED
    BY <2>1 DEF Rows
<1>5. Append(seq, o) # <<>>
  BY <1>1
<1> QED
  BY <1>1, <1>2, <1>3, <1>4, <1>5

LEMMA RowsOfSeq ==
  ASSUME NEW s \in Seq(Nat)
  PROVE  /\ Len(s) \in Nat
         /\ (Len(s) = 0) <=> (Rows(s) = {})
         /\ (s = <<>>) <=> (Rows(s) = {})
         /\ Rows(s) \subseteq Nat
<1>1. Rows(s) \subseteq Nat /\ Len(s) \in Nat
  BY DEF Rows
<1>2. CASE Len(s) = 0
  BY <1>1, <1>2 DEF Rows
<1>3. CASE Len(s) # 0
  <2>1. s[1] \in Rows(s)
    BY <1>1, <1>3 DEF Rows
  <2> QED
    BY <2>1, <1>1, <1>3
<1> QED
  BY <1>2, <1>3

\* Pending counts what Held holds, as far as being empty goes.
LEMMA PendingHeld ==
  ASSUME NEW b \in Buffer
  PROVE  /\ Pending(b) \in Nat
         /\ (Pending(b) > 0) <=> (Held(b) # {})
         /\ (b.records = <<>>) <=> (Rows(b.records) = {})
         /\ (b.rejects = <<>>) <=> (Rows(b.rejects) = {})
         /\ Held(b) \subseteq Nat
<1>1. b.records \in Seq(Nat) /\ b.rejects \in Seq(Nat)
  BY DEF Buffer
<1> DEFINE m == Len(b.records)
           n == Len(b.rejects)
<1>2. m \in Nat /\ n \in Nat
  BY <1>1, RowsOfSeq
<1>3. (m = 0) <=> (Rows(b.records) = {})
  BY <1>1, RowsOfSeq
<1>4. (n = 0) <=> (Rows(b.rejects) = {})
  BY <1>1, RowsOfSeq
<1>5. (b.records = <<>>) <=> (Rows(b.records) = {})
  BY <1>1, RowsOfSeq
<1>6. (b.rejects = <<>>) <=> (Rows(b.rejects) = {})
  BY <1>1, RowsOfSeq
<1>7. Held(b) \subseteq Nat
  BY <1>1, RowsOfSeq DEF Held
<1>8. Pending(b) = m + n
  BY DEF Pending
<1> HIDE DEF m, n
<1>9. (m + n > 0) <=> (m # 0 \/ n # 0)
  BY <1>2
<1>10. (Held(b) # {}) <=> (m # 0 \/ n # 0)
  BY <1>3, <1>4 DEF Held
<1> QED
  BY <1>2, <1>5, <1>6, <1>7, <1>8, <1>9, <1>10

LEMMA NewBufferType ==
  /\ NewBuffer \in Buffer /\ NoBuffer \in Buffer
  /\ Held(NewBuffer) = {} /\ Held(NoBuffer) = {}
  /\ NewBuffer.records = <<>> /\ NewBuffer.rejects = <<>>
  /\ NoBuffer.records = <<>> /\ NoBuffer.rejects = <<>>
<1>1. <<>> \in Seq(Nat) /\ Rows(<<>>) = {}
  BY DEF Rows
<1>2. NewBuffer \in Buffer /\ NewBuffer.records = <<>> /\ NewBuffer.rejects = <<>>
  BY <1>1 DEF NewBuffer, Buffer
<1>3. NoBuffer \in Buffer /\ NoBuffer.records = <<>> /\ NoBuffer.rejects = <<>>
  BY <1>1 DEF NewBuffer, NoBuffer, Buffer
<1> QED
  BY <1>1, <1>2, <1>3 DEF Held

\* What one more row, or the passing of time, does to a buffer.
LEMMA BufferUpdates ==
  ASSUME NEW b \in Buffer, NEW o \in Nat
  PROVE  /\ [b EXCEPT !.aged = TRUE] \in Buffer
         /\ [b EXCEPT !.records = Append(@, o)] \in Buffer
         /\ [b EXCEPT !.rejects = Append(@, o)] \in Buffer
         /\ Held([b EXCEPT !.aged = TRUE]) = Held(b)
         /\ Held([b EXCEPT !.records = Append(@, o)]) = Held(b) \cup {o}
         /\ Held([b EXCEPT !.rejects = Append(@, o)]) = Held(b) \cup {o}
<1>1. b.records \in Seq(Nat) /\ b.rejects \in Seq(Nat)
  BY DEF Buffer
<1>2. Append(b.records, o) \in Seq(Nat) /\ Append(b.rejects, o) \in Seq(Nat)
  BY <1>1
<1>3. [b EXCEPT !.aged = TRUE] \in Buffer /\ Held([b EXCEPT !.aged = TRUE]) = Held(b)
  BY DEF Buffer, Held
<1>4. [b EXCEPT !.records = Append(@, o)] \in Buffer
  BY <1>2 DEF Buffer
<1>5. [b EXCEPT !.rejects = Append(@, o)] \in Buffer
  BY <1>2 DEF Buffer
<1>6. Held([b EXCEPT !.records = Append(@, o)]) = Held(b) \cup {o}
  BY <1>1, AppendRows DEF Held, Buffer
<1>7. Held([b EXCEPT !.rejects = Append(@, o)]) = Held(b) \cup {o}
  BY <1>1, AppendRows DEF Held, Buffer
<1> QED
  BY <1>3, <1>4, <1>5, <1>6, <1>7

LEMMA DueHasWork ==
  ASSUME NEW b \in Buffer, Due(b)
  PROVE  Held(b) # {}
BY PendingHeld, BoundsAssumption DEF Due

-----------------------------------------------------------------------------
(* Types, and flushes that have work *)

TypeInv == TypeOK /\ FlushHasWork

\* What the process and the broker keep of TypeInv.
ControlInv == BrokerType /\ ProcessType /\ FlushHasWork

LEMMA InitTypeInv == Init => TypeInv
<1> SUFFICES ASSUME Init PROVE TypeInv
  OBVIOUS
<1>1. log \in [Partitions -> Seq(Kinds)]
  <2>1. InitialLogs \subseteq Seq(Kinds)
    <3>1. [1 .. MaxMessages -> Kinds] \subseteq Seq(Kinds)
      BY BoundsAssumption, SeqDef
    <3>2. <<>> \in Seq(Kinds)
      OBVIOUS
    <3> QED
      BY <3>1, <3>2, Zenon DEF InitialLogs
  <2> QED
    BY <2>1 DEF Init
<1>2. BrokerType
  BY <1>1 DEF Init, BrokerType, NoOffset
<1>3. ProcessType
  BY NewBufferType DEF Init, ProcessType, Process, Down, Flushing, Labels
<1>4. ClockType /\ IsStore(bronze) /\ IsStore(quarantine)
  BY DEF Init, ClockType, IsStore
<1>5. FlushHasWork
  <2>1. \A p \in Partitions : Len(log[p]) \in Nat
    BY <1>1
  <2>2. OffsetsWithinLog
    BY <2>1, NewBufferType DEF Init, OffsetsWithinLog, NoOffset
  <2>3. \A c \in Consumers : ~Flushing(c)
    BY DEF Init, Flushing, Down
  <2> QED
    BY <2>2, <2>3 DEF FlushHasWork
<1> QED
  BY <1>2, <1>3, <1>4, <1>5 DEF TypeInv, TypeOK

LEMMA ExitControl ==
  ASSUME ControlInv, NEW c \in Consumers, Exit(c),
         committed' \in [Partitions -> Nat \cup {NoOffset}],
         \A p \in Partitions : committed'[p] <= Len(log[p])
  PROVE  ControlInv'
<1>1. BrokerType'
  BY DEF ControlInv, BrokerType, Exit, Leave
<1>2. ProcessType'
  <2>1. Down \in Process
    BY DEF Down, Process, Labels
  <2>2. proc' \in [Consumers -> Process] /\ proc'[c] = Down
    BY <2>1 DEF ControlInv, ProcessType, Exit
  <2>3. buffers' \in [Consumers -> [Partitions -> Buffer]]
    BY NewBufferType DEF ControlInv, ProcessType, Exit
  <2>4. \A d \in Consumers : (proc'[d].cur # None) <=> Flushing(d)'
    BY <2>2 DEF ControlInv, ProcessType, Exit, Flushing, Down
  <2> QED
    BY <2>2, <2>3, <2>4 DEF ProcessType
<1>3. OffsetsWithinLog'
  BY NewBufferType DEF ControlInv, FlushHasWork, OffsetsWithinLog, ProcessType, Exit, Leave, Published
<1>4. \A d \in Consumers : Flushing(d)' => Held(Current(d))' # {}
  BY DEF ControlInv, FlushHasWork, Exit, Flushing, Down, Current, ProcessType
<1> QED
  BY <1>1, <1>2, <1>3, <1>4 DEF ControlInv, FlushHasWork

LEMMA RaiseControl ==
  ASSUME ControlInv, NEW c \in Consumers, Raise(c),
         committed' \in [Partitions -> Nat \cup {NoOffset}],
         \A p \in Partitions : committed'[p] <= Len(log[p])
  PROVE  ControlInv'
<1>1. CASE proc[c].closing
  BY <1>1, ExitControl DEF Raise
<1>2. CASE ~proc[c].closing
  <2>1. BrokerType'
    BY <1>2 DEF ControlInv, BrokerType, Raise
  <2> DEFINE r == [proc[c] EXCEPT !.pc = "sweep", !.closing = TRUE, !.failed = TRUE,
                                  !.todo = Partitions, !.cur = None]
  <2>0. proc' = [proc EXCEPT ![c] = r] /\ proc \in [Consumers -> Process]
    BY <1>2 DEF ControlInv, ProcessType, Raise
  <2>r. r \in Process /\ r.pc = "sweep" /\ r.cur = None
    <3>1. proc[c] \in Process
      BY DEF ControlInv, ProcessType
    <3> QED
      BY <3>1 DEF Process, Labels
  <2> HIDE DEF r
  <2>2. proc' \in [Consumers -> Process] /\ proc'[c].pc = "sweep" /\ proc'[c].cur = None
    BY <2>0, <2>r
  <2>3. ProcessType'
    BY <1>2, <2>2, ZenonT(30) DEF ControlInv, ProcessType, Raise, Flushing
  <2>4. OffsetsWithinLog'
    BY <1>2 DEF ControlInv, FlushHasWork, OffsetsWithinLog, Raise, Published
  <2>5. \A d \in Consumers : Flushing(d)' => Held(Current(d))' # {}
    BY <1>2, <2>2 DEF ControlInv, ProcessType, FlushHasWork, Raise, Flushing, Current
  <2> QED
    BY <2>1, <2>3, <2>4, <2>5 DEF ControlInv, FlushHasWork
<1> QED
  BY <1>1, <1>2

\* The bounds of the batch that is being flushed.
LEMMA CurrentBatch ==
  ASSUME TypeInv, NEW c \in Consumers, Flushing(c)
  PROVE  /\ proc[c].cur \in Partitions
         /\ Current(c) \in Buffer
         /\ Current(c).records \in Seq(Nat) /\ Current(c).rejects \in Seq(Nat)
         /\ Held(Current(c)) \subseteq 0 .. (Len(log[proc[c].cur]) - 1)
         /\ NextOffset(c) \in Nat /\ NextOffset(c) <= Len(log[proc[c].cur])
         /\ NextOffset(c) - 1 \in Held(Current(c))
         /\ \A o \in Held(Current(c)) : o < NextOffset(c)
<1>1. proc[c].cur \in Partitions
  BY DEF TypeInv, TypeOK, ProcessType, Process
<1>2. Current(c) \in Buffer
  BY <1>1 DEF TypeInv, TypeOK, ProcessType, Current
<1>3. Current(c).records \in Seq(Nat) /\ Current(c).rejects \in Seq(Nat)
  BY <1>2 DEF Buffer
<1>4. Held(Current(c)) \subseteq 0 .. (Len(log[proc[c].cur]) - 1)
  BY <1>1 DEF TypeInv, FlushHasWork, OffsetsWithinLog, Current, Published
<1>5. Held(Current(c)) # {}
  BY DEF TypeInv, FlushHasWork
<1>6. Len(log[proc[c].cur]) \in Nat
  BY <1>1 DEF TypeInv, TypeOK, BrokerType
<1>7. /\ Highest(Held(Current(c))) \in Held(Current(c))
      /\ \A o \in Held(Current(c)) : o <= Highest(Held(Current(c)))
  BY <1>4, <1>5, <1>6, Extrema
<1> DEFINE h == Highest(Held(Current(c)))
<1>8. h \in 0 .. (Len(log[proc[c].cur]) - 1)
  BY <1>4, <1>7
<1>9. NextOffset(c) = h + 1
  BY DEF NextOffset
<1>10. \A o \in Held(Current(c)) : o \in Int /\ o <= h
  BY <1>4, <1>7
<1>11. h \in Held(Current(c))
  BY <1>7
<1> HIDE DEF h
<1>12. /\ NextOffset(c) \in Nat /\ NextOffset(c) <= Len(log[proc[c].cur])
       /\ NextOffset(c) - 1 = h
       /\ \A o \in Held(Current(c)) : o < NextOffset(c)
  BY <1>6, <1>8, <1>9, <1>10
<1> QED
  BY <1>1, <1>2, <1>3, <1>4, <1>11, <1>12

\* The key of an object that a flush writes.
LEMMA ObjectKeys ==
  ASSUME TypeInv, NEW c \in Consumers, Flushing(c)
  PROVE  /\ Current(c).records # <<>> =>
               BronzeKey(proc[c].cur, Current(c).records) \in Key
         /\ Current(c).rejects # <<>> =>
               QuarantineKey(proc[c].cur, Current(c).rejects) \in Key
<1> DEFINE n == Len(log[proc[c].cur])
<1>1. n \in Nat
  BY CurrentBatch DEF TypeInv, TypeOK, BrokerType
<1>2. Rows(Current(c).records) \subseteq 0 .. (n - 1) /\ Rows(Current(c).rejects) \subseteq 0 .. (n - 1)
  BY CurrentBatch DEF Held
<1>3. /\ Current(c).records # <<>> => Rows(Current(c).records) # {}
      /\ Current(c).rejects # <<>> => Rows(Current(c).rejects) # {}
  BY CurrentBatch, PendingHeld
<1>4. hour \in Nat /\ hour \div HoursPerDay \in Nat
  BY BoundsAssumption DEF TypeInv, TypeOK, ClockType
<1> HIDE DEF n
<1>5. ASSUME Current(c).records # <<>>
      PROVE  BronzeKey(proc[c].cur, Current(c).records) \in Key
  BY <1>1, <1>2, <1>3, <1>4, <1>5, CurrentBatch, Extrema, SMTT(30) DEF BronzeKey, Key
<1>6. ASSUME Current(c).rejects # <<>>
      PROVE  QuarantineKey(proc[c].cur, Current(c).rejects) \in Key
  BY <1>1, <1>2, <1>3, <1>4, <1>6, CurrentBatch, Extrema, SMTT(30) DEF QuarantineKey, Key
<1> QED
  BY <1>5, <1>6

\* Steps that only move one process: to a place outside a flush, or to a place
\* in the flush of a partition whose buffer is not empty.
LEMMA MoveControl ==
  ASSUME ControlInv, UNCHANGED <<brokerVars, buffers>>,
         NEW c \in Consumers, NEW r \in Process,
         proc' = [proc EXCEPT ![c] = r],
         \/ r.cur = None /\ r.pc \in {"down", "poll", "sweep"}
         \/ /\ r.cur \in Partitions /\ Held(buffers[c][r.cur]) # {}
            /\ r.pc \in {"bronze", "quarantine", "commit"}
  PROVE  ControlInv'
<1>1. BrokerType'
  BY DEF ControlInv, BrokerType, brokerVars
<1>2. ProcessType'
  BY NoneAssumption DEF ControlInv, ProcessType, Flushing
<1>3. OffsetsWithinLog'
  BY DEF ControlInv, FlushHasWork, OffsetsWithinLog, brokerVars, Published
<1>4. \A d \in Consumers : Flushing(d)' => Held(Current(d))' # {}
  <2> SUFFICES ASSUME NEW d \in Consumers, Flushing(d)'
               PROVE  Held(Current(d)') # {}
    BY DEF Held
  <2>1. CASE d = c
    BY <2>1 DEF ControlInv, ProcessType, Flushing, Current
  <2>2. CASE d # c
    BY <2>2 DEF ControlInv, ProcessType, FlushHasWork, Flushing, Current
  <2> QED
    BY <2>1, <2>2
<1> QED
  BY <1>1, <1>2, <1>3, <1>4 DEF ControlInv, FlushHasWork

LEMMA EnvironmentTypeInv == TypeInv /\ Environment => TypeInv'
<1> SUFFICES ASSUME TypeInv, Environment PROVE TypeInv'
  OBVIOUS
<1> USE DEF TypeInv, TypeOK, brokerVars, lakeVars, envVars
<1>1. CASE NextHour
  BY <1>1 DEF NextHour, BrokerType, ProcessType, ClockType, FlushHasWork,
              OffsetsWithinLog, Published, Flushing, Current, IsStore
<1>2. CASE Rebalance
  <2>1. \A p \in Partitions : ResumeAt(p) \in Nat /\ ResumeAt(p) <= Len(log[p])
    BY DEF ResumeAt, BrokerType, FlushHasWork, OffsetsWithinLog, NoOffset
  <2>2. Live \subseteq Consumers
    BY DEF Live
  <2>3. BrokerType'
    BY <1>2, <2>1, <2>2 DEF Rebalance, BrokerType
  <2>4. ClockType'
    BY <1>2 DEF Rebalance, ClockType
  <2>5. ProcessType' /\ IsStore(bronze)' /\ IsStore(quarantine)'
    BY <1>2 DEF Rebalance, ProcessType, Flushing, IsStore
  <2>6. FlushHasWork'
    BY <1>2, <2>1 DEF Rebalance, FlushHasWork, OffsetsWithinLog, Published, Flushing, Current
  <2> QED
    BY <2>3, <2>4, <2>5, <2>6
<1>3. ASSUME NEW p \in Partitions, Publish(p)
      PROVE  TypeInv'
  <2>1. PICK k \in Kinds : log' = [log EXCEPT ![p] = Append(@, k)]
    BY <1>3 DEF Publish
  <2>2. log' \in [Partitions -> Seq(Kinds)]
    BY <2>1 DEF BrokerType
  <2>3. \A q \in Partitions : Len(log[q]) \in Nat /\ Len(log'[q]) \in Nat /\ Len(log[q]) <= Len(log'[q])
    BY <2>1, <2>2 DEF BrokerType
  <2>4. BrokerType' /\ ProcessType' /\ ClockType' /\ IsStore(bronze)' /\ IsStore(quarantine)'
    BY <1>3, <2>2 DEF Publish, BrokerType, ProcessType, Flushing, ClockType, IsStore
  <2>5. \A q \in Partitions : committed[q] \in Int /\ position[q] \in Int
    BY DEF BrokerType, NoOffset
  <2>6. OffsetsWithinLog'
    BY <1>3, <2>3, <2>5, SMTT(30) DEF Publish, FlushHasWork, OffsetsWithinLog, Published
  <2> QED
    BY <1>3, <2>4, <2>6 DEF Publish, FlushHasWork, Flushing, Current
<1>4. ASSUME NEW c \in Consumers, Start(c)
      PROVE  TypeInv'
  <2> DEFINE r == [Down EXCEPT !.pc = "poll", !.running = TRUE]
  <2>1. r \in Process /\ r.cur = None /\ r.pc = "poll"
    BY DEF Down, Process, Labels
  <2>2. ControlInv'
    BY <1>4, <2>1, MoveControl DEF Start, ControlInv
  <2> QED
    BY <1>4, <2>2 DEF Start, ControlInv, ClockType, IsStore
<1>5. ASSUME NEW c \in Consumers, NEW p \in Partitions, Age(c, p)
      PROVE  TypeInv'
  <2>1. buffers' \in [Consumers -> [Partitions -> Buffer]]
    <3> DEFINE b == [buffers[c][p] EXCEPT !.aged = TRUE]
    <3>1. buffers[c][p] \in Buffer
      BY DEF ProcessType
    <3>2. b \in Buffer
      BY <3>1, BufferUpdates
    <3>3. buffers' = [buffers EXCEPT ![c] = [buffers[c] EXCEPT ![p] = b]]
      BY <1>5 DEF Age
    <3> HIDE DEF b
    <3>4. [buffers[c] EXCEPT ![p] = b] \in [Partitions -> Buffer]
      BY <3>2 DEF ProcessType
    <3> QED
      BY <3>3, <3>4 DEF ProcessType
  <2>2. \A d \in Consumers, q \in Partitions : Held(buffers'[d][q]) = Held(buffers[d][q])
    BY <1>5 DEF Age, ProcessType, Buffer, Held
  <2>3. BrokerType' /\ ProcessType' /\ ClockType' /\ IsStore(bronze)' /\ IsStore(quarantine)'
    BY <1>5, <2>1 DEF Age, BrokerType, ProcessType, Flushing, ClockType, IsStore
  <2>4. OffsetsWithinLog'
    BY <1>5, <2>2 DEF Age, FlushHasWork, OffsetsWithinLog, Published, brokerVars
  <2>5. ASSUME NEW d \in Consumers, Flushing(d)'
        PROVE  Held(Current(d))' # {}
    <3>1. proc' = proc /\ Flushing(d)
      BY <1>5, <2>5 DEF Age, Flushing
    <3>2. proc[d].cur \in Partitions /\ Held(Current(d)) # {}
      BY <3>1 DEF FlushHasWork, ProcessType, Process
    <3> QED
      BY <2>2, <3>1, <3>2 DEF Current
  <2>6. FlushHasWork'
    BY <2>4, <2>5 DEF FlushHasWork
  <2> QED
    BY <2>3, <2>6
<1> QED
  BY <1>1, <1>2, <1>3, <1>4, <1>5 DEF Environment

LEMMA StepTypeInv ==
  ASSUME TypeInv, NEW c \in Consumers, Step(c)
  PROVE  TypeInv'
<1> USE DEF TypeInv, TypeOK, brokerVars, lakeVars, envVars
<1>0. ControlInv /\ proc[c] \in Process /\ proc[c].cur \in Partitions \cup {None}
  BY DEF ControlInv, ProcessType, Process
<1>1. ASSUME NEW p \in Partitions, PollMessage(c, p)
      PROVE  TypeInv'
  <2> DEFINE o == position[p]
             old == IF buffers[c][p].open THEN buffers[c][p] ELSE NewBuffer
             new == IF IsRecord(Kind(p, o))
                    THEN [old EXCEPT !.records = Append(@, o)]
                    ELSE [old EXCEPT !.rejects = Append(@, o)]
  <2>1. o \in Nat /\ o < Len(log[p]) /\ Len(log[p]) \in Nat
    <3> HIDE DEF old, new
    <3>1. position[p] < Len(log[p])
      BY <1>1 DEF PollMessage
    <3>2. position[p] \in Nat /\ log[p] \in Seq(Kinds)
      BY DEF BrokerType
    <3> QED
      BY <3>1, <3>2
  <2>2. old \in Buffer /\ Held(old) \subseteq Published(p)
    BY NewBufferType DEF ProcessType, FlushHasWork, OffsetsWithinLog
  <2>3. /\ new \in Buffer
        /\ Held(new) = Held(old) \cup {o}
    BY <2>1, <2>2, BufferUpdates
  <2>4. Held(new) \subseteq Published(p) /\ Held(new) # {}
    <3> HIDE DEF new, old, o
    <3>1. o \in Published(p)
      BY <2>1 DEF Published
    <3> QED
      BY <2>2, <2>3, <3>1
  <2>5. /\ position' = [position EXCEPT ![p] = o + 1]
        /\ buffers' = [buffers EXCEPT ![c] = [buffers[c] EXCEPT ![p] = new]]
        /\ proc' = [proc EXCEPT
                ![c].pc = IF Due(new) THEN "bronze" ELSE "poll",
                ![c].cur = IF Due(new) THEN p ELSE @,
                ![c].idle = 0,
                ![c].assigned = TRUE]
        /\ UNCHANGED <<log, committed, group, owner, lakeVars, envVars>>
    BY <1>1 DEF PollMessage
  <2>6. proc[c].pc = "poll" /\ proc[c].cur = None
    BY <1>1 DEF PollMessage, Polling, ProcessType, Flushing
  <2> HIDE DEF new, o, old
  <2>7. BrokerType'
    BY <2>1, <2>5 DEF BrokerType
  <2>8. proc' \in [Consumers -> Process]
    <3> DEFINE r == [proc[c] EXCEPT
                !.pc = IF Due(new) THEN "bronze" ELSE "poll",
                !.cur = IF Due(new) THEN p ELSE @,
                !.idle = 0,
                !.assigned = TRUE]
    <3>1. r \in Process
      BY <1>0, <2>6 DEF Process, Labels
    <3>2. proc' = [proc EXCEPT ![c] = r]
      BY <2>5
    <3> HIDE DEF r
    <3> QED
      BY <3>1, <3>2 DEF ProcessType
  <2>9. /\ proc'[c].pc = IF Due(new) THEN "bronze" ELSE "poll"
        /\ proc'[c].cur = IF Due(new) THEN p ELSE None
        /\ \A d \in Consumers : d # c => proc'[d] = proc[d]
    BY <1>0, <2>5, <2>6 DEF ProcessType, Process
  <2>10. buffers' \in [Consumers -> [Partitions -> Buffer]]
    <3>1. [buffers[c] EXCEPT ![p] = new] \in [Partitions -> Buffer]
      BY <2>3 DEF ProcessType
    <3> QED
      BY <2>5, <3>1 DEF ProcessType
  <2>11. ProcessType'
    <3>1. p # None
      BY NoneAssumption
    <3> QED
      BY <2>8, <2>9, <2>10, <3>1 DEF ProcessType, Flushing
  <2>12. \A d \in Consumers, q \in Partitions :
            buffers'[d][q] = IF d = c /\ q = p THEN new ELSE buffers[d][q]
    BY <2>5 DEF ProcessType
  <2>13. OffsetsWithinLog'
    <3>1. \A q \in Partitions : position'[q] = IF q = p THEN o + 1 ELSE position[q]
      BY <2>5 DEF BrokerType
    <3>2. \A q \in Partitions : committed'[q] <= Len(log'[q]) /\ position'[q] <= Len(log'[q])
      BY <2>1, <2>5, <3>1 DEF FlushHasWork, OffsetsWithinLog
    <3>3. \A q \in Partitions, d \in Consumers : Held(buffers'[d][q]) \subseteq Published(q)
      BY <2>4, <2>12 DEF FlushHasWork, OffsetsWithinLog
    <3> QED
      BY <2>5, <3>2, <3>3 DEF OffsetsWithinLog, Published
  <2>14. \A d \in Consumers : Flushing(d)' => Held(Current(d))' # {}
    <3> SUFFICES ASSUME NEW d \in Consumers, Flushing(d)'
                 PROVE  Held(Current(d)') # {}
      BY DEF Held
    <3>1. CASE d = c
      <4>1. Current(d)' = new
        BY <2>9, <2>12, <3>1 DEF Flushing, Current
      <4> QED
        BY <2>4, <4>1
    <3>2. CASE d # c
      <4>1. proc[d].cur \in Partitions /\ Flushing(d)
        BY <2>9, <3>2 DEF Flushing, ProcessType, Process
      <4>2. Current(d)' = Current(d)
        BY <2>9, <2>12, <3>2, <4>1 DEF Current
      <4> QED
        BY <4>1, <4>2 DEF FlushHasWork
    <3> QED
      BY <3>1, <3>2
  <2>15. ClockType' /\ IsStore(bronze)' /\ IsStore(quarantine)'
    BY <2>5 DEF ClockType, IsStore
  <2> QED
    BY <2>7, <2>11, <2>13, <2>14, <2>15 DEF FlushHasWork
<1>2. ASSUME NEW p \in Partitions, SweepVisit(c, p)
      PROVE  TypeInv'
  <2> DEFINE r == [proc[c] EXCEPT
          !.todo = @ \ {p},
          !.pc = IF NeedsFlush(c, p) THEN "bronze" ELSE "sweep",
          !.cur = IF NeedsFlush(c, p) THEN p ELSE @]
  <2>1. proc[c].pc = "sweep" /\ proc[c].cur = None
    BY <1>2 DEF SweepVisit, ProcessType, Flushing
  <2>2. NeedsFlush(c, p) => Held(buffers[c][p]) # {}
    BY PendingHeld, DueHasWork DEF NeedsFlush, ProcessType
  <2>3. r \in Process
    BY <1>0, <2>1 DEF Process, Labels
  <2>4. /\ r.pc = IF NeedsFlush(c, p) THEN "bronze" ELSE "sweep"
        /\ r.cur = IF NeedsFlush(c, p) THEN p ELSE None
    BY <1>0, <2>1 DEF Process
  <2>5. proc' = [proc EXCEPT ![c] = r] /\ UNCHANGED <<brokerVars, lakeVars, buffers, envVars>>
    BY <1>2 DEF SweepVisit
  <2> HIDE DEF r
  <2>6. ControlInv'
    BY <1>0, <2>2, <2>3, <2>4, <2>5, MoveControl
  <2> QED
    BY <2>5, <2>6 DEF ControlInv, ClockType, IsStore
<1>3. CASE PollNone(c) \/ PollError(c) \/ LeaveLoop(c)
  <2>1. proc[c].pc = "poll" /\ proc[c].cur = None
    BY <1>3 DEF PollNone, PollError, LeaveLoop, Polling, ProcessType, Flushing
  <2>2. UNCHANGED <<brokerVars, lakeVars, buffers, envVars>>
    BY <1>3 DEF PollNone, PollError, LeaveLoop
  <2>3. PICK r \in Process : /\ proc' = [proc EXCEPT ![c] = r]
                             /\ r.cur = None /\ r.pc \in {"poll", "sweep"}
    <3>1. SawAssignment(c) \in BOOLEAN
      BY <1>0 DEF SawAssignment, Process
    <3>2. CASE PollNone(c)
      <4> DEFINE t == {p \in Partitions : buffers[c][p].open}
                 i == IF SawAssignment(c) /\ MaxIdlePolls > 0
                      THEN proc[c].idle + 1 ELSE proc[c].idle
                 a == SawAssignment(c)
                 r == [proc[c] EXCEPT !.pc = "sweep", !.todo = t, !.assigned = a, !.idle = i]
      <4>1. t \in SUBSET Partitions /\ i \in Nat /\ a \in BOOLEAN
        BY <1>0, <3>1 DEF Process
      <4>2. proc' = [proc EXCEPT ![c] = r]
        BY <3>2 DEF PollNone
      <4> HIDE DEF t, i, a
      <4>3. r \in Process /\ r.cur = None /\ r.pc = "sweep"
        BY <1>0, <2>1, <4>1 DEF Process, Labels
      <4> QED
        BY <4>2, <4>3
    <3>3. CASE PollError(c)
      <4> DEFINE r == [proc[c] EXCEPT !.assigned = SawAssignment(c)]
      <4>1. r \in Process /\ r.cur = None /\ r.pc = "poll"
        BY <1>0, <2>1, <3>1 DEF Process
      <4>2. proc' = [proc EXCEPT ![c] = r]
        BY <3>3 DEF PollError
      <4> QED
        BY <4>1, <4>2
    <3>4. CASE LeaveLoop(c)
      <4> DEFINE r == [proc[c] EXCEPT !.pc = "sweep", !.closing = TRUE, !.todo = Partitions]
      <4>1. r \in Process /\ r.cur = None /\ r.pc = "sweep"
        BY <1>0, <2>1 DEF Process, Labels
      <4>2. proc' = [proc EXCEPT ![c] = r]
        BY <3>4 DEF LeaveLoop
      <4> QED
        BY <4>1, <4>2
    <3> QED
      BY <1>3, <3>2, <3>3, <3>4
  <2>4. ControlInv'
    BY <1>0, <2>2, <2>3, MoveControl
  <2> QED
    BY <2>2, <2>4 DEF ControlInv, ClockType, IsStore
<1>4. CASE SweepDone(c)
  <2>1. proc[c].pc = "sweep" /\ proc[c].cur = None
    BY <1>4 DEF SweepDone, ProcessType, Flushing
  <2>2. UNCHANGED <<brokerVars, lakeVars, buffers, envVars>>
    BY <1>4 DEF SweepDone
  <2> DEFINE r == IF IdleLimit(c)
                  THEN [proc[c] EXCEPT !.closing = TRUE, !.todo = Partitions]
                  ELSE [proc[c] EXCEPT !.pc = "poll"]
  <2>3. r \in Process /\ r.cur = None /\ r.pc \in {"poll", "sweep"}
    BY <1>0, <2>1 DEF Process, Labels
  <2>4. proc' = [proc EXCEPT ![c] = r]
    BY <1>4 DEF SweepDone
  <2> HIDE DEF r
  <2>5. ControlInv'
    BY <1>0, <2>2, <2>3, <2>4, MoveControl
  <2> QED
    BY <2>2, <2>5 DEF ControlInv, ClockType, IsStore
<1>5. CASE Close(c) \/ PollRaises(c) \/ PoisonBronze(c) \/ PoisonQuarantine(c)
  <2>1. Exit(c) \/ Raise(c)
    BY <1>5 DEF Close, PollRaises, PoisonBronze, PoisonQuarantine
  <2>2. UNCHANGED <<committed, lakeVars, envVars>>
    BY <1>5 DEF Close, PollRaises, PoisonBronze, PoisonQuarantine
  <2>3. ControlInv'
    BY <1>0, <2>1, <2>2, ExitControl, RaiseControl DEF BrokerType, FlushHasWork, OffsetsWithinLog
  <2> QED
    BY <2>2, <2>3 DEF ControlInv, ClockType, IsStore
<1>6. CASE WriteBronze(c) \/ WriteQuarantine(c)
  <2>1. Flushing(c) /\ proc[c].cur \in Partitions /\ Held(buffers[c][proc[c].cur]) # {}
    BY <1>6, CurrentBatch DEF WriteBronze, WriteQuarantine, Flushing, FlushHasWork, Current
  <2>2. UNCHANGED <<brokerVars, buffers, envVars>>
    BY <1>6 DEF WriteBronze, WriteQuarantine
  <2>3. PICK r \in Process : /\ proc' = [proc EXCEPT ![c] = r]
                             /\ r.cur = proc[c].cur /\ r.pc \in {"quarantine", "commit"}
    <3>1. CASE WriteBronze(c)
      <4>1. /\ [proc[c] EXCEPT !.pc = "quarantine"] \in Process
            /\ [proc[c] EXCEPT !.pc = "quarantine"].cur = proc[c].cur
            /\ [proc[c] EXCEPT !.pc = "quarantine"].pc = "quarantine"
        BY <1>0 DEF Process, Labels
      <4>2. proc' = [proc EXCEPT ![c] = [proc[c] EXCEPT !.pc = "quarantine"]]
        BY <3>1 DEF WriteBronze
      <4> QED
        BY <4>1, <4>2
    <3>2. CASE WriteQuarantine(c)
      <4>1. /\ [proc[c] EXCEPT !.pc = "commit"] \in Process
            /\ [proc[c] EXCEPT !.pc = "commit"].cur = proc[c].cur
            /\ [proc[c] EXCEPT !.pc = "commit"].pc = "commit"
        BY <1>0 DEF Process, Labels
      <4>2. proc' = [proc EXCEPT ![c] = [proc[c] EXCEPT !.pc = "commit"]]
        BY <3>2 DEF WriteQuarantine
      <4> QED
        BY <4>1, <4>2
    <3> QED
      BY <1>6, <3>1, <3>2
  <2>4. ControlInv'
    BY <1>0, <2>1, <2>2, <2>3, MoveControl
  <2>5. IsStore(bronze)'
    <3>1. bronze' = bronze \/ (Current(c).records # <<>> /\
            bronze' = Put(bronze, BronzeKey(proc[c].cur, Current(c).records), Current(c).records))
      BY <1>6 DEF WriteBronze, WriteQuarantine
    <3>2. IsStore(bronze')
      BY <2>1, <3>1, CurrentBatch, ObjectKeys, PutIsStore
    <3> QED
      BY <3>2 DEF IsStore
  <2>6. IsStore(quarantine)'
    <3>1. quarantine' = quarantine \/ (Current(c).rejects # <<>> /\
            quarantine' = Put(quarantine, QuarantineKey(proc[c].cur, Current(c).rejects), Current(c).rejects))
      BY <1>6 DEF WriteBronze, WriteQuarantine
    <3>2. IsStore(quarantine')
      BY <2>1, <3>1, CurrentBatch, ObjectKeys, PutIsStore
    <3> QED
      BY <3>2 DEF IsStore
  <2> QED
    BY <2>2, <2>4, <2>5, <2>6 DEF ControlInv, ClockType
<1>7. CASE Commit(c)
  <2> DEFINE q == proc[c].cur
             n == NextOffset(c)
             r == [proc[c] EXCEPT !.pc = "sweep", !.cur = None]
             m == [buffers[c] EXCEPT ![q] = NewBuffer]
  <2>1. Flushing(c)
    BY <1>7 DEF Commit, Flushing
  <2>2. q \in Partitions /\ n \in Nat /\ n <= Len(log[q])
    BY <2>1, CurrentBatch
  <2>3. r \in Process /\ r.cur = None /\ r.pc = "sweep"
    BY <1>0 DEF Process, Labels
  <2>4. m \in [Partitions -> Buffer] /\ \A p \in Partitions : Held(m[p]) \subseteq Published(p)
    BY <2>2, NewBufferType DEF ProcessType, FlushHasWork, OffsetsWithinLog
  <2>5. /\ committed' = [committed EXCEPT ![q] = n]
        /\ buffers' = [buffers EXCEPT ![c] = m]
        /\ proc' = [proc EXCEPT ![c] = r]
        /\ UNCHANGED <<log, group, owner, position, lakeVars, envVars>>
    BY <1>7 DEF Commit
  <2> HIDE DEF q, n, r, m
  <2>6. BrokerType'
    BY <2>2, <2>5 DEF BrokerType
  <2>7. ProcessType'
    BY <2>3, <2>4, <2>5 DEF ProcessType, Flushing
  <2>8. OffsetsWithinLog'
    <3>1. \A p \in Partitions : committed'[p] <= Len(log[p])
      BY <2>2, <2>5 DEF BrokerType, FlushHasWork, OffsetsWithinLog
    <3>2. \A p \in Partitions, d \in Consumers : Held(buffers'[d][p]) \subseteq Published(p)
      BY <2>4, <2>5 DEF ProcessType, FlushHasWork, OffsetsWithinLog
    <3> QED
      BY <2>5, <3>1, <3>2 DEF FlushHasWork, OffsetsWithinLog, Published
  <2>9. \A d \in Consumers : Flushing(d)' => Held(Current(d))' # {}
    <3> SUFFICES ASSUME NEW d \in Consumers, Flushing(d)'
                 PROVE  Held(Current(d)') # {}
      BY DEF Held
    <3>1. d # c
      BY <2>3, <2>5 DEF Flushing, ProcessType
    <3> QED
      BY <2>5, <3>1 DEF ProcessType, FlushHasWork, Flushing, Current
  <2>10. ClockType' /\ IsStore(bronze)' /\ IsStore(quarantine)'
    BY <2>5 DEF ClockType, IsStore
  <2> QED
    BY <2>6, <2>7, <2>8, <2>9, <2>10 DEF FlushHasWork
<1> QED
  BY <1>1, <1>2, <1>3, <1>4, <1>5, <1>6, <1>7 DEF Step

LEMMA FailureTypeInv ==
  ASSUME TypeInv, NEW c \in Consumers, Failure(c)
  PROVE  TypeInv'
<1> USE DEF TypeInv, TypeOK, brokerVars, lakeVars, envVars
<1>0. ControlInv /\ proc[c] \in Process /\ ClockType
  BY DEF ControlInv, ProcessType
<1>1. CASE Stop(c)
  <2> DEFINE r == [proc[c] EXCEPT !.running = FALSE]
  <2>1. r \in Process /\ r.cur = proc[c].cur /\ r.pc = proc[c].pc
    BY <1>0 DEF Process
  <2>2. /\ proc' = [proc EXCEPT ![c] = r] /\ disruptions' = disruptions + 1
        /\ UNCHANGED <<brokerVars, lakeVars, buffers, hour, rebalances>>
    BY <1>1 DEF Stop, Disrupt
  <2>3. \/ r.cur = None /\ r.pc \in {"down", "poll", "sweep"}
        \/ /\ r.cur \in Partitions /\ Held(buffers[c][r.cur]) # {}
           /\ r.pc \in {"bronze", "quarantine", "commit"}
    BY <1>0, <2>1 DEF ProcessType, Process, Labels, Flushing, FlushHasWork, Current
  <2> HIDE DEF r
  <2>4. ControlInv'
    BY <1>0, <2>1, <2>2, <2>3, MoveControl
  <2> QED
    BY <2>2, <2>4 DEF ControlInv, ClockType, IsStore
<1>2. CASE Crash(c)
  <2>1. Exit(c) /\ disruptions' = disruptions + 1 /\ UNCHANGED <<committed, lakeVars, hour, rebalances>>
    BY <1>2 DEF Crash, Disrupt
  <2>2. ControlInv'
    BY <1>0, <2>1, ExitControl DEF BrokerType, FlushHasWork, OffsetsWithinLog
  <2> QED
    BY <2>1, <2>2 DEF ControlInv, ClockType, IsStore
<1>3. CASE FailBronze(c) \/ FailQuarantine(c) \/ FailCommit(c)
  <2>1. Flushing(c)
    BY <1>3 DEF FailBronze, FailQuarantine, FailCommit, Flushing
  <2>2. /\ disruptions' = disruptions + 1 /\ UNCHANGED <<hour, rebalances>>
        /\ Raise(c) \/ Exit(c)
    BY <1>3 DEF FailBronze, FailQuarantine, FailCommit, Disrupt
  <2>3. /\ committed' \in [Partitions -> Nat \cup {NoOffset}]
        /\ \A p \in Partitions : committed'[p] <= Len(log[p])
    <3>1. \/ committed' = committed
          \/ committed' = [committed EXCEPT ![proc[c].cur] = NextOffset(c)]
      BY <1>3 DEF FailBronze, FailQuarantine, FailCommit
    <3>2. /\ committed \in [Partitions -> Nat \cup {NoOffset}]
          /\ \A p \in Partitions : committed[p] <= Len(log[p])
      BY DEF BrokerType, FlushHasWork, OffsetsWithinLog
    <3>3. CASE committed' = committed
      BY <3>2, <3>3
    <3>4. CASE committed' = [committed EXCEPT ![proc[c].cur] = NextOffset(c)]
      <4>1. NextOffset(c) \in Nat /\ NextOffset(c) <= Len(log[proc[c].cur])
        BY <2>1, CurrentBatch
      <4> HIDE DEF TypeInv, TypeOK
      <4> QED
        BY <3>2, <3>4, <4>1
    <3> QED
      BY <3>1, <3>3, <3>4
  <2>4. ControlInv'
    BY <1>0, <2>2, <2>3, ExitControl, RaiseControl
  <2>5. ClockType'
    BY <1>0, <2>2 DEF ClockType
  <2>6. IsStore(bronze)'
    <3>1. \/ bronze' = bronze
          \/ /\ Current(c).records # <<>>
             /\ bronze' \in Remains(bronze, BronzeKey(proc[c].cur, Current(c).records), Current(c).records)
      BY <1>3 DEF FailBronze, FailQuarantine, FailCommit
    <3>2. IsStore(bronze')
      BY <2>1, <3>1, CurrentBatch, ObjectKeys, RemainsIsStore
    <3> QED
      BY <3>2 DEF IsStore
  <2>7. IsStore(quarantine)'
    <3>1. \/ quarantine' = quarantine
          \/ /\ Current(c).rejects # <<>>
             /\ quarantine' \in Remains(quarantine, QuarantineKey(proc[c].cur, Current(c).rejects), Current(c).rejects)
      BY <1>3 DEF FailBronze, FailQuarantine, FailCommit
    <3>2. IsStore(quarantine')
      BY <2>1, <3>1, CurrentBatch, ObjectKeys, RemainsIsStore
    <3> QED
      BY <3>2 DEF IsStore
  <2> QED
    BY <2>4, <2>5, <2>6, <2>7 DEF ControlInv
<1> QED
  BY <1>1, <1>2, <1>3 DEF Failure

LEMMA NextTypeInv == TypeInv /\ [Next]_vars => TypeInv'
<1> SUFFICES ASSUME TypeInv, [Next]_vars PROVE TypeInv'
  OBVIOUS
<1>1. CASE Environment
  BY <1>1, EnvironmentTypeInv
<1>2. ASSUME NEW c \in Consumers, Step(c) \/ Failure(c)
      PROVE  TypeInv'
  BY <1>2, StepTypeInv, FailureTypeInv
<1>3. CASE UNCHANGED vars
  BY <1>3 DEF TypeInv, TypeOK, BrokerType, ProcessType, ClockType, IsStore, FlushHasWork,
              OffsetsWithinLog, Flushing, Current, Published,
              vars, brokerVars, lakeVars, envVars
<1> QED
  BY <1>1, <1>2, <1>3 DEF Next

\* The types of the variables, for any number of partitions, members, messages
\* and failures.
THEOREM TypeCorrect == Spec => []TypeOK
<1>1. TypeInv => TypeOK
  BY DEF TypeInv
<1> QED
  BY <1>1, InitTypeInv, NextTypeInv, PTL DEF Spec

\* _flush_partition is never entered for an empty buffer, and no buffer, position
\* or committed offset passes the end of the log: rebalances, crashes and failed
\* calls included.
THEOREM FlushesHaveWork == Spec => []FlushHasWork
<1>1. TypeInv => FlushHasWork
  BY DEF TypeInv
<1> QED
  BY <1>1, InitTypeInv, NextTypeInv, PTL DEF Spec

-----------------------------------------------------------------------------
(* Writes *)

\* Overwriting an object by the same rows loses none, and the rows are there.
LEMMA PutStores ==
  ASSUME NEW store, NEW key, NEW seq,
         key \in DOMAIN store => Rows(store[key]) = Rows(seq)
  PROVE  /\ \A p : Stored(store, p) \subseteq Stored(Put(store, key, seq), p)
         /\ Rows(seq) \subseteq Stored(Put(store, key, seq), key.part)
<1> DEFINE new == Put(store, key, seq)
<1>1. /\ DOMAIN new = DOMAIN store \cup {key}
      /\ new[key] = seq
      /\ \A k \in DOMAIN store : Rows(new[k]) = Rows(store[k])
  BY DEF Put
<1> HIDE DEF new
<1>2. ASSUME NEW p PROVE Stored(store, p) \subseteq Stored(new, p)
  BY <1>1 DEF Stored
<1>3. Rows(seq) \subseteq Stored(new, key.part)
  BY <1>1 DEF Stored
<1> QED
  BY <1>2, <1>3 DEF new

\* A batch in a buffer is what its key promises.
LEMMA BatchOfBuffer ==
  ASSUME TypeInv, NEW c \in Consumers, Flushing(c), BufferInv(c, proc[c].cur)
  PROVE  /\ Current(c).records # <<>> =>
               LET k == BronzeKey(proc[c].cur, Current(c).records)
               IN  /\ k \in Key /\ k.part = proc[c].cur /\ k.last < Len(log[proc[c].cur])
                   /\ HoldsBatch(k, Current(c).records, Records(proc[c].cur))
         /\ Current(c).rejects # <<>> =>
               LET k == QuarantineKey(proc[c].cur, Current(c).rejects)
               IN  /\ k \in Key /\ k.part = proc[c].cur /\ k.last < Len(log[proc[c].cur])
                   /\ HoldsBatch(k, Current(c).rejects, Rejects(proc[c].cur))
<1> DEFINE q == proc[c].cur
           b == buffers[c][q]
           n == Len(log[q])
<1>1. q \in Partitions /\ n \in Nat /\ b \in Buffer /\ position[q] \in Nat /\ position[q] <= n
  BY CurrentBatch DEF TypeInv, TypeOK, BrokerType, ProcessType, FlushHasWork, OffsetsWithinLog
<1>2. /\ Rows(b.records) \subseteq Records(q) /\ Rows(b.rejects) \subseteq Rejects(q)
      /\ Increasing(b.records) /\ Increasing(b.rejects)
      /\ \A o \in Held(b) : o < position[q] /\ o .. (position[q] - 1) \subseteq Held(b)
  BY DEF BufferInv
<1>3. Records(q) \subseteq 0 .. (n - 1) /\ Rejects(q) \subseteq 0 .. (n - 1) /\ Records(q) \cap Rejects(q) = {}
  BY DEF Records, Rejects, Published
<1>4. Current(c) = b
  BY DEF Current
<1> DEFINE R == Rows(b.records)
           J == Rows(b.rejects)
<1>5. Held(b) = R \cup J
  BY DEF Held
<1> HIDE DEF q, b, n
<1>6. ASSUME NEW S, NEW belong, S # {}, S \subseteq belong, belong \subseteq 0 .. (n - 1),
             \A o \in belong \cap Held(b) : o \in S, S \subseteq Held(b)
      PROVE  /\ Lowest(S) \in Nat /\ Highest(S) \in Nat /\ Highest(S) < n
             /\ S = belong \cap (Lowest(S) .. Highest(S))
  <2> DEFINE lo == Lowest(S)
             hi == Highest(S)
  <2>1. lo \in S /\ hi \in S /\ \A y \in S : lo <= y /\ y <= hi
    <3>1. S \subseteq 0 .. (n - 1)
      BY <1>6
    <3> QED
      BY <1>1, <1>6, <3>1, Extrema
  <2> HIDE DEF lo, hi
  <2>2. lo \in Nat /\ hi \in Nat /\ hi < n
    BY <1>1, <1>6, <2>1
  <2>3. S \subseteq lo .. hi
    BY <1>1, <1>6, <2>1, <2>2
  <2>4. lo .. hi \subseteq Held(b)
    <3>1. hi < position[q] /\ lo .. (position[q] - 1) \subseteq Held(b)
      BY <1>2, <1>6, <2>1
    <3> QED
      BY <1>1, <2>2, <3>1
  <2>5. belong \cap (lo .. hi) \subseteq S
    BY <1>6, <2>4
  <2> QED
    BY <1>6, <2>2, <2>3, <2>5 DEF lo, hi
<1>7. ASSUME Current(c).records # <<>>
      PROVE  LET k == BronzeKey(q, Current(c).records)
             IN  /\ k \in Key /\ k.part = q /\ k.last < n
                 /\ HoldsBatch(k, Current(c).records, Records(q))
  <2>1. R # {}
    BY <1>1, <1>4, <1>7, PendingHeld
  <2>2. /\ Lowest(R) \in Nat /\ Highest(R) \in Nat /\ Highest(R) < n
        /\ R = Records(q) \cap (Lowest(R) .. Highest(R))
    <3>1. \A o \in Records(q) \cap Held(b) : o \in R
      BY <1>2, <1>3, <1>5
    <3>2. R \subseteq Held(b) /\ R \subseteq Records(q)
      BY <1>2, <1>5
    <3> HIDE DEF R
    <3> QED
      BY <1>3, <1>6, <2>1, <3>1, <3>2
  <2>3. hour \in Nat
    BY DEF TypeInv, TypeOK, ClockType
  <2> QED
    BY <1>1, <1>2, <1>4, <2>2, <2>3 DEF BronzeKey, Key, HoldsBatch
<1>8. ASSUME Current(c).rejects # <<>>
      PROVE  LET k == QuarantineKey(q, Current(c).rejects)
             IN  /\ k \in Key /\ k.part = q /\ k.last < n
                 /\ HoldsBatch(k, Current(c).rejects, Rejects(q))
  <2>1. J # {}
    BY <1>1, <1>4, <1>8, PendingHeld
  <2>2. /\ Lowest(J) \in Nat /\ Highest(J) \in Nat /\ Highest(J) < n
        /\ J = Rejects(q) \cap (Lowest(J) .. Highest(J))
    <3>1. \A o \in Rejects(q) \cap Held(b) : o \in J
      BY <1>2, <1>3, <1>5
    <3>2. J \subseteq Held(b) /\ J \subseteq Rejects(q)
      BY <1>2, <1>5
    <3> HIDE DEF J
    <3> QED
      BY <1>3, <1>6, <2>1, <3>1, <3>2
  <2>3. hour \div HoursPerDay \in Nat
    BY BoundsAssumption DEF TypeInv, TypeOK, ClockType
  <2> QED
    BY <1>1, <1>2, <1>4, <2>2, <2>3 DEF QuarantineKey, Key, HoldsBatch
<1> QED
  BY <1>7, <1>8 DEF q, n

-----------------------------------------------------------------------------
(* No loss, for members that read from the beginning and write to S3 *)

LEMMA InitLandingInv == Init => LandingInv
<1> SUFFICES ASSUME Init PROVE LandingInv
  OBVIOUS
<1>1. \A c \in Consumers, p \in Partitions :
         /\ buffers[c][p] = NoBuffer /\ Held(buffers[c][p]) = {}
         /\ Rows(buffers[c][p].records) = {} /\ Rows(buffers[c][p].rejects) = {}
         /\ Increasing(buffers[c][p].records) /\ Increasing(buffers[c][p].rejects)
  BY NewBufferType DEF Init, Held, Rows, Increasing
<1>2. AssignmentInv
  BY <1>1 DEF Init, AssignmentInv, Live
<1>3. ObjectsInv
  BY DEF Init, ObjectsInv
<1>4. CommitInv
  BY DEF Init, CommitInv, NoOffset
<1>5. \A c \in Consumers : FlushInv(c) /\ \A p \in Partitions : BufferInv(c, p)
  BY <1>1, NoneAssumption DEF Init, FlushInv, BufferInv, Down
<1> QED
  BY <1>2, <1>3, <1>4, <1>5 DEF LandingInv

\* A step of a process leaves the other processes, and their buffers, alone.
LEMMA StepOfOne ==
  ASSUME TypeInv, NEW c \in Consumers, Step(c) \/ Failure(c),
         NEW d \in Consumers, d # c
  PROVE  proc'[d] = proc[d] /\ buffers'[d] = buffers[d]
<1>0. proc \in [Consumers -> Process] /\ buffers \in [Consumers -> [Partitions -> Buffer]]
  BY DEF TypeInv, TypeOK, ProcessType
<1>1. ASSUME Raise(c) \/ Exit(c)
      PROVE  proc'[d] = proc[d] /\ buffers'[d] = buffers[d]
  BY <1>0, <1>1 DEF Raise, Exit
<1>2. ASSUME NEW p \in Partitions, PollMessage(c, p)
      PROVE  proc'[d] = proc[d] /\ buffers'[d] = buffers[d]
  BY <1>0, <1>2 DEF PollMessage
<1>3. ASSUME NEW p \in Partitions, SweepVisit(c, p)
      PROVE  proc'[d] = proc[d] /\ buffers'[d] = buffers[d]
  BY <1>0, <1>3 DEF SweepVisit
<1>4. CASE PollNone(c) \/ PollError(c) \/ LeaveLoop(c)
  BY <1>0, <1>4 DEF PollNone, PollError, LeaveLoop
<1>5. CASE SweepDone(c) \/ WriteBronze(c) \/ WriteQuarantine(c) \/ Commit(c) \/ Stop(c)
  BY <1>0, <1>5 DEF SweepDone, WriteBronze, WriteQuarantine, Commit, Stop
<1>6. CASE Close(c) \/ PollRaises(c) \/ PoisonBronze(c) \/ PoisonQuarantine(c)
           \/ FailBronze(c) \/ FailQuarantine(c) \/ FailCommit(c) \/ Crash(c)
  BY <1>1, <1>6 DEF Close, PollRaises, PoisonBronze, PoisonQuarantine,
         FailBronze, FailQuarantine, FailCommit, Crash
<1> QED
  BY <1>2, <1>3, <1>4, <1>5, <1>6 DEF Step, Failure

\* What a step of a process does not touch: the other processes, and what is theirs.
Apart(c) ==
  /\ \A d \in Consumers \ {c} : proc'[d] = proc[d] /\ buffers'[d] = buffers[d]
  /\ \A p \in Partitions : IF owner[p] = c THEN owner'[p] \in {c, None}
                           ELSE owner'[p] = owner[p] /\ position'[p] = position[p]

LEMMA StepApart ==
  ASSUME TypeInv, NEW c \in Consumers, Step(c) \/ Failure(c)
  PROVE  Apart(c) /\ UNCHANGED log
<1>1. \A d \in Consumers \ {c} : proc'[d] = proc[d] /\ buffers'[d] = buffers[d]
  BY StepOfOne
<1>2. ASSUME Raise(c) \/ Exit(c)
      PROVE  /\ UNCHANGED <<log, position>>
             /\ \A p \in Partitions : IF owner[p] = c THEN owner'[p] \in {c, None} ELSE owner'[p] = owner[p]
  BY <1>2 DEF Raise, Exit, Leave, TypeInv, TypeOK, BrokerType
<1>3. ASSUME NEW q \in Partitions, PollMessage(c, q)
      PROVE  /\ UNCHANGED <<log, owner>> /\ owner[q] = c
             /\ \A p \in Partitions : p # q => position'[p] = position[p]
  <2>1. /\ position' = [position EXCEPT ![q] = position[q] + 1]
        /\ UNCHANGED <<log, owner>> /\ owner[q] = c
    BY <1>3 DEF PollMessage
  <2> QED
    BY <2>1 DEF TypeInv, TypeOK, BrokerType
<1>4. ASSUME NEW q \in Partitions, SweepVisit(c, q)
      PROVE  UNCHANGED <<log, owner, position>>
  BY <1>4 DEF SweepVisit, brokerVars
<1>5. CASE PollNone(c) \/ PollError(c) \/ LeaveLoop(c) \/ SweepDone(c)
           \/ WriteBronze(c) \/ WriteQuarantine(c) \/ Commit(c) \/ Stop(c)
  <2>1. UNCHANGED <<log, owner, position>>
    BY <1>5 DEF PollNone, PollError, LeaveLoop, SweepDone, WriteBronze, WriteQuarantine, Commit,
                Stop, brokerVars
  <2> QED
    BY <1>1, <2>1 DEF Apart
<1>6. CASE Close(c) \/ PollRaises(c) \/ PoisonBronze(c) \/ PoisonQuarantine(c)
           \/ FailBronze(c) \/ FailQuarantine(c) \/ FailCommit(c) \/ Crash(c)
  <2>1. Raise(c) \/ Exit(c)
    BY <1>6 DEF Close, PollRaises, PoisonBronze, PoisonQuarantine,
           FailBronze, FailQuarantine, FailCommit, Crash
  <2> QED
    BY <1>1, <1>2, <2>1 DEF Apart
<1>7. CASE \E q \in Partitions : PollMessage(c, q) \/ SweepVisit(c, q)
  <2> PICK q \in Partitions : PollMessage(c, q) \/ SweepVisit(c, q)
    BY <1>7
  <2>1. CASE PollMessage(c, q)
    BY <1>1, <1>3, <2>1 DEF Apart
  <2>2. CASE SweepVisit(c, q)
    BY <1>1, <1>4, <2>2 DEF Apart
  <2> QED
    BY <2>1, <2>2
<1> QED
  BY <1>5, <1>6, <1>7 DEF Step, Failure

\* No row leaves the lake.
LakeGrows ==
  \A p \in Partitions : /\ Stored(bronze, p) \subseteq Stored(bronze', p)
                        /\ Stored(quarantine, p) \subseteq Stored(quarantine', p)

LEMMA LandedGrows ==
  ASSUME UNCHANGED log, LakeGrows
  PROVE  \A p \in Partitions : Landed(p) \subseteq Landed(p)'
BY DEF LakeGrows, Landed, Records, Rejects, Published, Kind

\* What a step has to leave alone for a buffer to stay sound.
LEMMA BufferKept ==
  ASSUME NEW d \in Consumers, NEW q \in Partitions, BufferInv(d, q),
         UNCHANGED log, position'[q] = position[q], owner'[q] = d => owner[q] = d,
         buffers'[d][q].open = buffers[d][q].open,
         buffers'[d][q].records = buffers[d][q].records,
         buffers'[d][q].rejects = buffers[d][q].rejects,
         Landed(q) \subseteq Landed(q)'
  PROVE  BufferInv(d, q)'
<1> DEFINE b == buffers[d][q]
           r == buffers'[d][q]
<1>1. /\ Rows(b.records) = Rows(r.records) /\ Rows(b.rejects) = Rows(r.rejects)
      /\ Held(b) = Held(r) /\ b.open = r.open
      /\ b.records = r.records /\ b.rejects = r.rejects
  BY DEF Held
<1>2. Records(q)' = Records(q) /\ Rejects(q)' = Rejects(q)
  BY DEF Records, Rejects, Published, Kind
<1> DEFINE L == Landed(q)
           M == Landed(q)'
<1>3. L \subseteq M
  OBVIOUS
<1>4. /\ ~b.open => Held(b) = {}
      /\ Rows(b.records) \subseteq Records(q) /\ Rows(b.rejects) \subseteq Rejects(q)
      /\ Increasing(b.records) /\ Increasing(b.rejects)
      /\ \A o \in Held(b) : o < position[q] /\ o .. (position[q] - 1) \subseteq Held(b)
      /\ owner[q] = d => 0 .. (position[q] - 1) \subseteq Held(b) \cup L
  BY DEF BufferInv
<1> HIDE DEF b, r, L, M
<1>5. /\ ~r.open => Held(r) = {}
      /\ Rows(r.records) \subseteq Records(q)' /\ Rows(r.rejects) \subseteq Rejects(q)'
      /\ Increasing(r.records) /\ Increasing(r.rejects)
      /\ \A o \in Held(r) : o < position'[q] /\ o .. (position'[q] - 1) \subseteq Held(r)
      /\ owner'[q] = d => 0 .. (position'[q] - 1) \subseteq Held(r) \cup M
  BY <1>1, <1>2, <1>3, <1>4
<1> QED
  BY <1>5 DEF BufferInv, r, M

\* Steps that leave the broker, the lake and the buffers alone.
LEMMA QuietLanding ==
  ASSUME LandingInv, UNCHANGED <<brokerVars, lakeVars, buffers>>,
         Live \subseteq Live', \A c \in Consumers : FlushInv(c)'
  PROVE  LandingInv'
<1> USE DEF brokerVars, lakeVars
<1>1. AssignmentInv'
  BY DEF LandingInv, AssignmentInv
<1>2. ObjectsInv'
  BY DEF LandingInv, ObjectsInv, Records, Rejects, Published, Kind, HoldsBatch
<1>3. \A p \in Partitions : Landed(p)' = Landed(p)
  BY DEF Landed, Records, Rejects, Published, Kind
<1>4. CommitInv'
  BY <1>3 DEF LandingInv, CommitInv
<1>5. \A c \in Consumers, p \in Partitions : BufferInv(c, p)'
  BY <1>3, BufferKept DEF LandingInv
<1> QED
  BY <1>1, <1>2, <1>4, <1>5 DEF LandingInv

\* The processes that another one's step leaves alone.
LEMMA OthersLanding ==
  ASSUME TypeInv, LandingInv, NEW c \in Consumers, Apart(c), UNCHANGED log, LakeGrows,
         NEW d \in Consumers, d # c
  PROVE  FlushInv(d)' /\ \A p \in Partitions : BufferInv(d, p)'
<1>1. proc'[d] = proc[d] /\ buffers'[d] = buffers[d]
  BY DEF Apart
<1>2. FlushInv(d)'
  <2>1. FlushInv(d) /\ Current(d)' = Current(d)
    BY <1>1 DEF LandingInv, Current
  <2>2. CASE proc[d].pc \in {"quarantine", "commit"}
    <3>1. proc[d].cur \in Partitions
      BY <2>2, CurrentBatch DEF Flushing
    <3> QED
      BY <1>1, <2>1, <3>1 DEF FlushInv, LakeGrows
  <2>3. CASE proc[d].pc \notin {"quarantine", "commit"}
    BY <1>1, <2>3 DEF FlushInv
  <2> QED
    BY <2>2, <2>3
<1>3. ASSUME NEW p \in Partitions PROVE BufferInv(d, p)'
  <2>1. BufferInv(d, p) /\ Landed(p) \subseteq Landed(p)'
    BY LandedGrows DEF LandingInv
  <2>2. CASE owner[p] = d
    BY <1>1, <2>1, <2>2, BufferKept DEF Apart
  <2>3. CASE owner[p] # d
    <3>1. owner'[p] # d /\ Held(buffers[d][p]) = {}
      BY <2>3, NoneAssumption DEF Apart, LandingInv, AssignmentInv
    <3>2. Records(p)' = Records(p) /\ Rejects(p)' = Rejects(p)
      BY DEF Records, Rejects, Published, Kind
    <3> QED
      BY <1>1, <2>1, <3>1, <3>2 DEF BufferInv
  <2> QED
    BY <2>2, <2>3
<1> QED
  BY <1>2, <1>3

\* A step of a process that stays what it is in the group.
LEMMA MemberLanding ==
  ASSUME TypeInv, LandingInv, NEW c \in Consumers, Apart(c), LakeGrows,
         UNCHANGED <<log, group, owner>>, proc'[c].pc # "down",
         \A p \in Partitions : owner[p] # c => Held(buffers'[c][p]) = {},
         ObjectsInv', CommitInv', FlushInv(c)',
         \A p \in Partitions : BufferInv(c, p)'
  PROVE  LandingInv'
<1>1. AssignmentInv'
  <2>1. Live \subseteq Live'
    BY DEF Live, Apart
  <2>2. \A d \in Consumers : \A p \in Partitions : owner[p] # d => Held(buffers'[d][p]) = {}
    BY DEF LandingInv, AssignmentInv, Apart
  <2> QED
    BY <2>1, <2>2 DEF LandingInv, AssignmentInv
<1> QED
  BY <1>1, OthersLanding DEF LandingInv

\* A process that is gone: what it held in memory is forgotten.
LEMMA ExitLanding ==
  ASSUME TypeInv, LandingInv, NEW c \in Consumers, Apart(c), LakeGrows, Exit(c),
         ObjectsInv',
         \A p \in Partitions : 0 .. (committed'[p] - 1) \subseteq Landed(p)',
         \A p \in Partitions : owner[p] # None => committed'[p] <= position[p]
  PROVE  LandingInv'
<1>1. /\ buffers'[c] = [p \in Partitions |-> NoBuffer] /\ proc'[c].pc = "down"
      /\ group' = group \ {c} /\ UNCHANGED <<log, position>>
      /\ owner' = [p \in Partitions |-> IF owner[p] = c THEN None ELSE owner[p]]
  BY DEF Exit, Leave, Down, TypeInv, TypeOK, ProcessType
<1>2. AssignmentInv'
  <2>1. group' \subseteq Live'
    BY <1>1 DEF LandingInv, AssignmentInv, Live, Apart
  <2>2. \A p \in Partitions : owner'[p] \in group' \cup {None}
    BY <1>1, NoneAssumption DEF LandingInv, AssignmentInv
  <2>3. \A p \in Partitions : Held(buffers'[c][p]) = {}
    BY <1>1, NewBufferType
  <2>4. \A d \in Consumers \ {c} : \A p \in Partitions : owner'[p] # d => Held(buffers'[d][p]) = {}
    BY <1>1, NoneAssumption DEF LandingInv, AssignmentInv, Apart
  <2> QED
    BY <2>1, <2>2, <2>3, <2>4 DEF AssignmentInv
<1>3. CommitInv'
  BY <1>1 DEF CommitInv
<1>4. \A p \in Partitions : BufferInv(c, p)'
  BY <1>1, NewBufferType, NoneAssumption DEF BufferInv, Rows, Increasing
<1>5. FlushInv(c)'
  BY <1>1 DEF FlushInv
<1>6. \A d \in Consumers \ {c} : FlushInv(d)' /\ \A p \in Partitions : BufferInv(d, p)'
  BY <1>1, OthersLanding
<1> QED
  BY <1>2, <1>3, <1>4, <1>5, <1>6 DEF LandingInv

\* An exception: the batches stay in memory.
LEMMA RaiseLanding ==
  ASSUME TypeInv, LandingInv, NEW c \in Consumers, Apart(c), LakeGrows, Raise(c), proc[c].pc # "down",
         ObjectsInv',
         \A p \in Partitions : 0 .. (committed'[p] - 1) \subseteq Landed(p)',
         \A p \in Partitions : owner[p] # None => committed'[p] <= position[p]
  PROVE  LandingInv'
<1>1. CASE proc[c].closing
  BY <1>1, ExitLanding DEF Raise
<1>2. CASE ~proc[c].closing
  <2>1. /\ UNCHANGED <<buffers, log, group, owner, position>>
        /\ proc'[c].pc = "sweep"
    BY <1>2 DEF Raise, TypeInv, TypeOK, ProcessType, Process
  <2>2. \A p \in Partitions : owner[p] # c => Held(buffers'[c][p]) = {}
    BY <2>1 DEF LandingInv, AssignmentInv
  <2>3. CommitInv'
    BY <2>1 DEF CommitInv
  <2>4. \A p \in Partitions : BufferInv(c, p)'
    BY <2>1, LandedGrows, BufferKept DEF LandingInv
  <2>5. FlushInv(c)'
    BY <2>1 DEF FlushInv
  <2> QED
    BY <2>1, <2>2, <2>3, <2>4, <2>5, MemberLanding
<1> QED
  BY <1>1, <1>2

\* What a write of the current batch does to the lake: nothing that had landed is
\* lost, and every object still holds what its name promises.
LEMMA WriteLanding ==
  ASSUME TypeInv, LandingInv, NEW c \in Consumers, Flushing(c), UNCHANGED log,
         \/ bronze' = bronze
         \/ /\ Current(c).records # <<>>
            /\ bronze' = Put(bronze, BronzeKey(proc[c].cur, Current(c).records), Current(c).records),
         \/ quarantine' = quarantine
         \/ /\ Current(c).rejects # <<>>
            /\ quarantine' = Put(quarantine, QuarantineKey(proc[c].cur, Current(c).rejects), Current(c).rejects)
  PROVE  /\ ObjectsInv'
         /\ \A p \in Partitions : /\ Landed(p) \subseteq Landed(p)'
                                  /\ Stored(bronze, p) \subseteq Stored(bronze', p)
                                  /\ Stored(quarantine, p) \subseteq Stored(quarantine', p)
         /\ bronze' # bronze => Rows(Current(c).records) \subseteq Stored(bronze', proc[c].cur)
         /\ quarantine' # quarantine => Rows(Current(c).rejects) \subseteq Stored(quarantine', proc[c].cur)
<1> DEFINE q == proc[c].cur
           kb == BronzeKey(q, Current(c).records)
           kq == QuarantineKey(q, Current(c).rejects)
<1>1. q \in Partitions /\ BufferInv(c, q)
  BY CurrentBatch DEF LandingInv
<1>2. Current(c).records # <<>> =>
          kb.part = q /\ kb.last < Len(log[q]) /\ HoldsBatch(kb, Current(c).records, Records(q))
  BY <1>1, BatchOfBuffer
<1>3. Current(c).rejects # <<>> =>
          kq.part = q /\ kq.last < Len(log[q]) /\ HoldsBatch(kq, Current(c).rejects, Rejects(q))
  BY <1>1, BatchOfBuffer
<1> HIDE DEF q, kb, kq
<1>4. /\ \A k \in DOMAIN bronze : k.last < Len(log[k.part]) /\ HoldsBatch(k, bronze[k], Records(k.part))
      /\ \A k \in DOMAIN quarantine :
            k.last < Len(log[k.part]) /\ HoldsBatch(k, quarantine[k], Rejects(k.part))
  BY DEF LandingInv, ObjectsInv
<1>5. Current(c).records # <<>> /\ kb \in DOMAIN bronze => Rows(bronze[kb]) = Rows(Current(c).records)
  BY <1>2, <1>4 DEF HoldsBatch
<1>6. Current(c).rejects # <<>> /\ kq \in DOMAIN quarantine => Rows(quarantine[kq]) = Rows(Current(c).rejects)
  BY <1>3, <1>4 DEF HoldsBatch
<1>7. /\ \A p : Stored(bronze, p) \subseteq Stored(bronze', p)
      /\ bronze' # bronze => Rows(Current(c).records) \subseteq Stored(bronze', q)
  <2>1. CASE bronze' = bronze
    BY <2>1
  <2>2. CASE bronze' # bronze
    <3>1. Current(c).records # <<>> /\ bronze' = Put(bronze, kb, Current(c).records)
      BY <2>2 DEF kb, q
    <3> QED
      BY <1>2, <1>5, <3>1, PutStores
  <2> QED
    BY <2>1, <2>2
<1>8. /\ \A p : Stored(quarantine, p) \subseteq Stored(quarantine', p)
      /\ quarantine' # quarantine => Rows(Current(c).rejects) \subseteq Stored(quarantine', q)
  <2>1. CASE quarantine' = quarantine
    BY <2>1
  <2>2. CASE quarantine' # quarantine
    <3>1. Current(c).rejects # <<>> /\ quarantine' = Put(quarantine, kq, Current(c).rejects)
      BY <2>2 DEF kq, q
    <3> QED
      BY <1>3, <1>6, <3>1, PutStores
  <2> QED
    BY <2>1, <2>2
<1>9. \A p \in Partitions : Landed(p) \subseteq Landed(p)'
  BY <1>7, <1>8 DEF Landed, Records, Rejects, Published, Kind
<1>10. \A k \in DOMAIN bronze' : k.last < Len(log[k.part]) /\ HoldsBatch(k, bronze'[k], Records(k.part))
  BY <1>2, <1>4 DEF Put, kb, q
<1>11. \A k \in DOMAIN quarantine' :
          k.last < Len(log[k.part]) /\ HoldsBatch(k, quarantine'[k], Rejects(k.part))
  BY <1>3, <1>4 DEF Put, kq, q
<1>12. ObjectsInv'
  BY <1>10, <1>11 DEF ObjectsInv, HoldsBatch, Records, Rejects, Published, Kind
<1> QED
  BY <1>7, <1>8, <1>9, <1>12 DEF q

\* The log only grows, and a message keeps its place.
LEMMA PublishLanding ==
  ASSUME TypeInv, LandingInv, NEW p \in Partitions, Publish(p)
  PROVE  LandingInv'
<1>1. PICK k \in Kinds : log' = [log EXCEPT ![p] = Append(@, k)]
  BY DEF Publish
<1>2. UNCHANGED <<committed, group, owner, position, bronze, quarantine, proc, buffers>>
  BY DEF Publish, lakeVars
<1>3. \A q \in Partitions :
         /\ Len(log[q]) \in Nat /\ Len(log'[q]) \in Nat /\ Len(log[q]) <= Len(log'[q])
         /\ \A o \in Published(q) : o \in Published(q)' /\ Kind(q, o)' = Kind(q, o)
  <2> SUFFICES ASSUME NEW q \in Partitions
               PROVE  /\ Len(log[q]) \in Nat /\ Len(log'[q]) \in Nat /\ Len(log[q]) <= Len(log'[q])
                      /\ \A o \in Published(q) : o \in Published(q)' /\ Kind(q, o)' = Kind(q, o)
    OBVIOUS
  <2>1. log[q] \in Seq(Kinds) /\ Len(log[q]) \in Nat
    BY DEF TypeInv, TypeOK, BrokerType
  <2>2. log'[q] = IF q = p THEN Append(log[q], k) ELSE log[q]
    BY <1>1 DEF TypeInv, TypeOK, BrokerType
  <2>3. Len(log'[q]) \in Nat /\ Len(log[q]) <= Len(log'[q])
    BY <2>1, <2>2
  <2>4. \A i \in 1 .. Len(log[q]) : log'[q][i] = log[q][i]
    BY <2>1, <2>2
  <2> QED
    BY <2>1, <2>3, <2>4 DEF Published, Kind
<1>4. \A q \in Partitions :
         /\ Records(q) \subseteq Records(q)' /\ Rejects(q) \subseteq Rejects(q)'
         /\ Records(q)' \cap Published(q) = Records(q)
         /\ Rejects(q)' \cap Published(q) = Rejects(q)
  BY <1>3 DEF Records, Rejects
<1>5. \A q \in Partitions : Landed(q) \subseteq Landed(q)'
  BY <1>2, <1>4 DEF Landed
<1>6. AssignmentInv'
  BY <1>2 DEF LandingInv, AssignmentInv, Live
<1>7. ObjectsInv'
  <2>1. \A j \in DOMAIN bronze \cup DOMAIN quarantine : j.part \in Partitions /\ j.first \in Nat /\ j.last \in Nat
    BY DEF TypeInv, TypeOK, IsStore, Key
  <2>2. ASSUME NEW j, j.part \in Partitions, j.first \in Nat, j.last \in Nat,
               j.last < Len(log[j.part])
        PROVE  /\ j.last < Len(log'[j.part])
               /\ Records(j.part)' \cap (j.first .. j.last) = Records(j.part) \cap (j.first .. j.last)
               /\ Rejects(j.part)' \cap (j.first .. j.last) = Rejects(j.part) \cap (j.first .. j.last)
    <3>1. j.first .. j.last \subseteq Published(j.part)
      BY <1>3, <2>2 DEF Published
    <3>2. j.last < Len(log'[j.part])
      BY <1>3, <2>2
    <3> QED
      BY <1>4, <2>2, <3>1, <3>2
  <2>3. \A j \in DOMAIN bronze : j.last < Len(log'[j.part]) /\ HoldsBatch(j, bronze[j], Records(j.part)')
    BY <2>1, <2>2 DEF LandingInv, ObjectsInv, HoldsBatch
  <2>4. \A j \in DOMAIN quarantine : j.last < Len(log'[j.part]) /\ HoldsBatch(j, quarantine[j], Rejects(j.part)')
    BY <2>1, <2>2 DEF LandingInv, ObjectsInv, HoldsBatch
  <2> QED
    BY <1>2, <2>3, <2>4 DEF ObjectsInv, HoldsBatch
<1>8. CommitInv'
  BY <1>2, <1>5 DEF LandingInv, CommitInv
<1>9. \A c \in Consumers, q \in Partitions : BufferInv(c, q)'
  BY <1>2, <1>4, <1>5 DEF LandingInv, BufferInv
<1>10. \A c \in Consumers : FlushInv(c)'
  BY <1>2 DEF LandingInv, FlushInv, Current, Stored
<1> QED
  BY <1>6, <1>7, <1>8, <1>9, <1>10 DEF LandingInv

\* Nothing is held, and each member resumes at the committed offset, below which
\* everything has landed.
LEMMA RebalanceLanding ==
  ASSUME TypeInv, LandingInv, FromBeginning = TRUE, HandOver, Rebalance
  PROVE  LandingInv'
<1>1. \A c \in Consumers, p \in Partitions : Held(buffers[c][p]) = {}
  BY DEF HandOver
<1>4. /\ Live # {} /\ group' = Live /\ owner' \in [Partitions -> Live]
      /\ position' = [p \in Partitions |-> ResumeAt(p)]
      /\ UNCHANGED <<log, committed, bronze, quarantine, proc, buffers>>
  BY DEF Rebalance, lakeVars
<1>5. \A p \in Partitions : /\ committed[p] <= ResumeAt(p)
                            /\ 0 .. (ResumeAt(p) - 1) \subseteq Landed(p)
  <2> SUFFICES ASSUME NEW p \in Partitions
               PROVE  /\ committed[p] <= ResumeAt(p)
                      /\ 0 .. (ResumeAt(p) - 1) \subseteq Landed(p)
    OBVIOUS
  <2>1. committed[p] \in Nat \cup {NoOffset} /\ 0 .. (committed[p] - 1) \subseteq Landed(p)
    BY DEF TypeInv, TypeOK, BrokerType, LandingInv, CommitInv
  <2>2. ResumeAt(p) = IF committed[p] # NoOffset THEN committed[p] ELSE 0
    BY DEF ResumeAt
  <2> QED
    BY <2>1, <2>2 DEF NoOffset
<1>6. \A p \in Partitions : Landed(p)' = Landed(p) /\ Records(p)' = Records(p) /\ Rejects(p)' = Rejects(p)
  BY <1>4 DEF Landed, Records, Rejects, Published, Kind
<1>7. AssignmentInv'
  <2>1. Live' = Live
    BY <1>4 DEF Live
  <2>2. group' # {} /\ \A p \in Partitions : owner'[p] \in group'
    BY <1>4
  <2> QED
    BY <1>1, <1>4, <2>1, <2>2 DEF AssignmentInv
<1>8. CommitInv'
  BY <1>4, <1>5, <1>6 DEF LandingInv, CommitInv
<1>9. \A c \in Consumers, p \in Partitions : BufferInv(c, p)'
  <2> SUFFICES ASSUME NEW c \in Consumers, NEW p \in Partitions
               PROVE  BufferInv(c, p)'
    OBVIOUS
  <2> DEFINE b == buffers[c][p]
  <2>1. /\ Held(b) = {} /\ buffers'[c][p] = b
        /\ Rows(b.records) \subseteq Records(p)' /\ Rows(b.rejects) \subseteq Rejects(p)'
        /\ Increasing(b.records) /\ Increasing(b.rejects)
    BY <1>1, <1>4, <1>6 DEF LandingInv, BufferInv
  <2>2. 0 .. (position'[p] - 1) \subseteq Landed(p)'
    BY <1>4, <1>5, <1>6
  <2> HIDE DEF b
  <2> QED
    BY <2>1, <2>2 DEF BufferInv
<1>10. ObjectsInv'
  BY <1>4 DEF LandingInv, ObjectsInv, HoldsBatch, Records, Rejects, Published, Kind
<1>11. \A c \in Consumers : FlushInv(c)'
  BY <1>4 DEF LandingInv, FlushInv, Current, Stored
<1> QED
  BY <1>7, <1>8, <1>9, <1>10, <1>11 DEF LandingInv

LEMMA EnvironmentLanding ==
  ASSUME TypeInv, LandingInv, FromBeginning = TRUE, HandOver, Environment
  PROVE  LandingInv'
<1>1. CASE NextHour
  <2>1. UNCHANGED <<brokerVars, lakeVars, proc, buffers>>
    BY <1>1 DEF NextHour
  <2>2. Live' = Live /\ \A c \in Consumers : FlushInv(c)'
    BY <2>1 DEF Live, LandingInv, FlushInv, Current, Stored, lakeVars
  <2> QED
    BY <2>1, <2>2, QuietLanding
<1>2. ASSUME NEW c \in Consumers, Start(c)
      PROVE  LandingInv'
  <2>1. UNCHANGED <<brokerVars, lakeVars, buffers>>
    BY <1>2 DEF Start
  <2>2. /\ proc'[c].pc = "poll"
        /\ \A d \in Consumers : d # c => proc'[d] = proc[d]
    BY <1>2 DEF Start, Down, TypeInv, TypeOK, ProcessType
  <2>3. Live \subseteq Live'
    BY <2>2 DEF Live
  <2>4. \A d \in Consumers : FlushInv(d)'
    BY <2>1, <2>2 DEF LandingInv, FlushInv, Current, Stored, lakeVars
  <2> QED
    BY <2>1, <2>3, <2>4, QuietLanding
<1>3. ASSUME NEW c \in Consumers, NEW p \in Partitions, Age(c, p)
      PROVE  LandingInv'
  <2>1. UNCHANGED <<log, committed, group, owner, position, bronze, quarantine, proc>>
    BY <1>3 DEF Age, brokerVars, lakeVars
  <2>2. \A d \in Consumers, q \in Partitions :
           /\ buffers'[d][q].open = buffers[d][q].open
           /\ buffers'[d][q].records = buffers[d][q].records
           /\ buffers'[d][q].rejects = buffers[d][q].rejects
    BY <1>3 DEF Age, TypeInv, TypeOK, ProcessType, Buffer
  <2>3. AssignmentInv'
    <3>1. Live' = Live
      BY <2>1 DEF Live
    <3>2. \A d \in Consumers, q \in Partitions : Held(buffers'[d][q]) = Held(buffers[d][q])
      BY <2>2 DEF Held
    <3> QED
      BY <2>1, <3>1, <3>2 DEF LandingInv, AssignmentInv
  <2>4. \A q \in Partitions : Landed(q)' = Landed(q)
    BY <2>1 DEF Landed, Records, Rejects, Published, Kind
  <2>5. ObjectsInv' /\ CommitInv'
    BY <2>1, <2>4 DEF LandingInv, ObjectsInv, CommitInv, HoldsBatch, Records, Rejects, Published, Kind
  <2>6. \A d \in Consumers, q \in Partitions : BufferInv(d, q)'
    BY <2>1, <2>2, <2>4, BufferKept DEF LandingInv
  <2>7. \A d \in Consumers : FlushInv(d)'
    BY <2>1, <2>2, ZenonT(30) DEF LandingInv, FlushInv, Current, TypeInv, TypeOK, ProcessType, Flushing, Process
  <2> QED
    BY <2>3, <2>5, <2>6, <2>7 DEF LandingInv
<1> QED
  BY <1>1, <1>2, <1>3, PublishLanding, RebalanceLanding DEF Environment

LEMMA IncreasingAppend ==
  ASSUME NEW s \in Seq(Nat), NEW o \in Nat, Increasing(s), \A x \in Rows(s) : x < o
  PROVE  Increasing(Append(s, o))
<1> DEFINE t == Append(s, o)
           n == Len(s)
<1>1. n \in Nat /\ Len(t) = n + 1 /\ t[n + 1] = o /\ \A i \in 1 .. n : t[i] = s[i]
  OBVIOUS
<1>2. \A i \in 1 .. n : s[i] < o
  BY DEF Rows
<1>3. \A i, j \in 1 .. n : i < j => s[i] < s[j]
  BY DEF Increasing
<1> HIDE DEF t, n
<1>4. \A i, j \in 1 .. (n + 1) : i < j => t[i] < t[j]
  <2> SUFFICES ASSUME NEW i \in 1 .. (n + 1), NEW j \in 1 .. (n + 1), i < j
               PROVE  t[i] < t[j]
    OBVIOUS
  <2>1. i \in 1 .. n
    BY <1>1
  <2>2. CASE j = n + 1
    BY <1>1, <1>2, <2>1, <2>2
  <2>3. CASE j # n + 1
    <3>1. j \in 1 .. n
      BY <1>1, <2>3
    <3> QED
      BY <1>1, <1>3, <2>1, <3>1
  <2> QED
    BY <2>2, <2>3
<1> QED
  BY <1>1, <1>4 DEF Increasing, t

\* A process owns the partition it flushes, its batch ends at the fetch position, and
\* once both writes are done all that it read has landed.
LEMMA BatchBeforeCommit ==
  ASSUME TypeInv, LandingInv, NEW c \in Consumers, Flushing(c)
  PROVE  /\ c \in group /\ owner[proc[c].cur] = c
         /\ NextOffset(c) = position[proc[c].cur]
         /\ proc[c].pc = "commit" => 0 .. (position[proc[c].cur] - 1) \subseteq Landed(proc[c].cur)
<1> DEFINE q == proc[c].cur
           b == buffers[c][q]
           n == NextOffset(c)
           x == position[q]
<1>1. /\ q \in Partitions /\ b \in Buffer /\ Held(b) \subseteq Nat
      /\ n \in Nat /\ n - 1 \in Held(b) /\ \A o \in Held(b) : o < n
  BY CurrentBatch, PendingHeld DEF Current
<1>2. x \in Nat
  BY <1>1 DEF TypeInv, TypeOK, BrokerType
<1>3. BufferInv(c, q)
  BY <1>1 DEF LandingInv
<1>4. owner[q] = c
  BY <1>1 DEF LandingInv, AssignmentInv
<1>5. c \in group
  BY <1>1, <1>4, NoneAssumption DEF LandingInv, AssignmentInv
<1>6. n - 1 < x /\ (n - 1) .. (x - 1) \subseteq Held(b)
  BY <1>1, <1>3 DEF BufferInv
<1>7. 0 .. (x - 1) \subseteq Held(b) \cup Landed(q)
  BY <1>3, <1>4 DEF BufferInv
<1>8. proc[c].pc = "commit" => Held(b) \subseteq Landed(q)
  BY <1>3 DEF LandingInv, FlushInv, Current, BufferInv, Held, Landed
<1> HIDE DEF q, b, n, x
<1>9. n = x
  <2>1. x - 1 \in (n - 1) .. (x - 1)
    BY <1>1, <1>2, <1>6
  <2>2. x - 1 < n
    BY <1>1, <1>6, <2>1
  <2> QED
    BY <1>1, <1>2, <1>6, <2>2
<1> QED
  BY <1>4, <1>5, <1>7, <1>8, <1>9 DEF q, x, n

-----------------------------------------------------------------------------
(* No loss: the steps of the process *)

\* One more message in its buffer.
LEMMA PollLanding ==
  ASSUME TypeInv, LandingInv, NEW c \in Consumers, NEW p \in Partitions,
         PollMessage(c, p), Apart(c)
  PROVE  LandingInv'
<1> DEFINE o == position[p]
           b == buffers[c][p]
           old == IF b.open THEN b ELSE NewBuffer
           new == IF IsRecord(Kind(p, o))
                  THEN [old EXCEPT !.records = Append(@, o)]
                  ELSE [old EXCEPT !.rejects = Append(@, o)]
<1>1. /\ position' = [position EXCEPT ![p] = o + 1]
      /\ buffers' = [buffers EXCEPT ![c][p] = new]
      /\ UNCHANGED <<log, committed, group, owner, bronze, quarantine>>
      /\ owner[p] = c /\ proc[c].pc = "poll" /\ o < Len(log[p])
      /\ proc' = [proc EXCEPT ![c].pc = IF Due(new) THEN "bronze" ELSE "poll",
                              ![c].cur = IF Due(new) THEN p ELSE @,
                              ![c].idle = 0,
                              ![c].assigned = TRUE]
  BY DEF PollMessage, Polling, lakeVars
<1>2. /\ o \in Nat /\ b \in Buffer /\ Len(log[p]) \in Nat
      /\ proc'[c].pc \in {"bronze", "poll"}
  <2>1. o \in Nat /\ b \in Buffer /\ Len(log[p]) \in Nat /\ proc[c] \in Process
        /\ proc \in [Consumers -> Process]
    <3> HIDE DEF old, new
    <3> QED
      BY DEF TypeInv, TypeOK, BrokerType, ProcessType
  <2>2. proc'[c].pc \in {"bronze", "poll"}
    <3> DEFINE due == Due(new)
    <3>1. proc' = [proc EXCEPT ![c].pc = IF due THEN "bronze" ELSE "poll", ![c].cur = IF due THEN p ELSE @,
                               ![c].idle = 0, ![c].assigned = TRUE]
      BY <1>1
    <3> HIDE DEF due, old, new
    <3> QED
      BY <2>1, <3>1 DEF Process
  <2> QED
    BY <2>1, <2>2
<1>3. LakeGrows
  BY <1>1 DEF LakeGrows
<1>4. /\ buffers'[c][p] = new /\ position'[p] = o + 1
      /\ \A q \in Partitions : q # p => buffers'[c][q] = buffers[c][q] /\ position'[q] = position[q]
  BY <1>1 DEF TypeInv, TypeOK, BrokerType, ProcessType
<1>5. BufferInv(c, p)
  BY DEF LandingInv
<1>6. \A q \in Partitions : Landed(q)' = Landed(q) /\ Records(q)' = Records(q) /\ Rejects(q)' = Rejects(q)
  BY <1>1 DEF Landed, Records, Rejects, Published, Kind
<1>8. old \in Buffer /\ old.open /\ Held(old) = Held(b)
      /\ Rows(old.records) \subseteq Records(p) /\ Rows(old.rejects) \subseteq Rejects(p)
      /\ Increasing(old.records) /\ Increasing(old.rejects)
  <2>1. CASE b.open
    BY <1>2, <1>5, <2>1 DEF BufferInv
  <2>2. CASE ~b.open
    <3>1. Held(b) = {} /\ NewBuffer.open
      BY <1>5, <2>2 DEF BufferInv, NewBuffer
    <3>2. Rows(NewBuffer.records) = {} /\ Rows(NewBuffer.rejects) = {}
          /\ Increasing(NewBuffer.records) /\ Increasing(NewBuffer.rejects)
      BY NewBufferType DEF Rows, Increasing
    <3> QED
      BY <2>2, <3>1, <3>2, NewBufferType
  <2> QED
    BY <2>1, <2>2
<1>9. \A x \in Held(b) : x < o /\ x .. (o - 1) \subseteq Held(b)
  BY <1>5 DEF BufferInv
<1>10. 0 .. (o - 1) \subseteq Held(b) \cup Landed(p)
  BY <1>1, <1>5 DEF BufferInv
<1>11. IF IsRecord(Kind(p, o)) THEN o \in Records(p) ELSE o \in Rejects(p)
  <2>1. o \in Nat /\ Len(log[p]) \in Nat /\ o < Len(log[p])
    BY <1>1, <1>2
  <2> HIDE DEF o, old, new
  <2>2. o \in Published(p)
    BY <2>1 DEF Published
  <2> QED
    BY <2>2 DEF Records, Rejects
<1> DEFINE recs == old.records
           rejs == old.rejects
<1>12. /\ recs \in Seq(Nat) /\ rejs \in Seq(Nat) /\ Held(old) = Rows(recs) \cup Rows(rejs)
  BY <1>8 DEF Buffer, Held
<1>13. /\ new.open /\ Held(new) = Held(b) \cup {o}
       /\ Rows(new.records) \subseteq Records(p) /\ Rows(new.rejects) \subseteq Rejects(p)
       /\ Increasing(new.records) /\ Increasing(new.rejects)
  <2> HIDE DEF o, old
  <2>1. /\ \A x \in Rows(recs) : x < o
        /\ \A x \in Rows(rejs) : x < o
    BY <1>8, <1>9, <1>12
  <2>2. CASE IsRecord(Kind(p, o))
    <3>1. new.records = Append(recs, o) /\ new.rejects = rejs /\ new.open
      BY <1>8, <2>2 DEF Buffer
    <3>2. Held(new) = Held(old) \cup {o}
      BY <1>2, <1>8, <2>2, BufferUpdates
    <3> HIDE DEF new, recs, rejs
    <3>3. Rows(Append(recs, o)) = Rows(recs) \cup {o} /\ Increasing(Append(recs, o))
      BY <1>2, <1>8, <1>12, <2>1, AppendRows, IncreasingAppend DEF recs
    <3> QED
      BY <1>8, <1>11, <2>2, <3>1, <3>2, <3>3 DEF recs, rejs
  <2>3. CASE ~IsRecord(Kind(p, o))
    <3>1. new.rejects = Append(rejs, o) /\ new.records = recs /\ new.open
      BY <1>8, <2>3 DEF Buffer
    <3>2. Held(new) = Held(old) \cup {o}
      BY <1>2, <1>8, <2>3, BufferUpdates
    <3> HIDE DEF new, recs, rejs
    <3>3. Rows(Append(rejs, o)) = Rows(rejs) \cup {o} /\ Increasing(Append(rejs, o))
      BY <1>2, <1>8, <1>12, <2>1, AppendRows, IncreasingAppend DEF rejs
    <3> QED
      BY <1>8, <1>11, <2>3, <3>1, <3>2, <3>3 DEF recs, rejs
  <2> QED
    BY <2>2, <2>3
<1> HIDE DEF o, b, old, new, recs, rejs
<1>14. \A x \in Held(new) : x < o + 1 /\ x .. o \subseteq Held(new)
  <2>1. Held(b) \subseteq Nat
    BY <1>2, PendingHeld
  <2> QED
    BY <1>2, <1>9, <1>13, <2>1
<1>15. 0 .. o \subseteq Held(new) \cup Landed(p)
  BY <1>2, <1>10, <1>13
<1>16. BufferInv(c, p)'
  <2>1. (o + 1) - 1 = o
    BY <1>2
  <2> QED
    BY <1>4, <1>6, <1>13, <1>14, <1>15, <2>1 DEF BufferInv
<1>17. \A q \in Partitions : BufferInv(c, q)'
  <2> SUFFICES ASSUME NEW q \in Partitions, q # p PROVE BufferInv(c, q)'
    BY <1>16
  <2>1. BufferInv(c, q) /\ owner'[q] = owner[q]
    BY <1>1 DEF LandingInv
  <2> QED
    BY <1>1, <1>4, <1>6, <2>1, BufferKept
<1>18. \A q \in Partitions : owner[q] # c => Held(buffers'[c][q]) = {}
  BY <1>1, <1>4 DEF LandingInv, AssignmentInv
<1>19. ObjectsInv'
  BY <1>1 DEF LandingInv, ObjectsInv, HoldsBatch, Records, Rejects, Published, Kind
<1>20. CommitInv'
  <2>1. \A q \in Partitions : position[q] \in Nat /\ position[q] <= position'[q] /\ position'[q] \in Nat
    <3> SUFFICES ASSUME NEW q \in Partitions
                 PROVE  position[q] \in Nat /\ position[q] <= position'[q] /\ position'[q] \in Nat
      OBVIOUS
    <3>1. position[q] \in Nat
      BY DEF TypeInv, TypeOK, BrokerType
    <3>2. position'[q] = IF q = p THEN position[q] + 1 ELSE position[q]
      BY <1>4 DEF o
    <3> QED
      BY <3>1, <3>2
  <2>2. \A q \in Partitions : committed[q] \in Nat \cup {NoOffset}
    BY DEF TypeInv, TypeOK, BrokerType
  <2> QED
    BY <1>1, <1>6, <2>1, <2>2 DEF LandingInv, CommitInv, NoOffset
<1>21. FlushInv(c)'
  BY <1>2 DEF FlushInv
<1> QED
  BY <1>1, <1>2, <1>3, <1>17, <1>18, <1>19, <1>20, <1>21, MemberLanding

\* Steps that only move the process, up to the entry of _flush_partition.
LEMMA MoveLanding ==
  ASSUME TypeInv, LandingInv, NEW c \in Consumers, Apart(c),
         UNCHANGED <<brokerVars, lakeVars, buffers>>,
         proc'[c].pc \in {"poll", "sweep", "bronze"}
  PROVE  LandingInv'
<1>1. Live \subseteq Live'
  BY DEF Live, Apart
<1>2. \A d \in Consumers : FlushInv(d)'
  <2>1. FlushInv(c)'
    BY DEF FlushInv
  <2>2. LakeGrows /\ UNCHANGED log
    BY DEF LakeGrows, lakeVars, brokerVars
  <2> QED
    BY <2>1, <2>2, OthersLanding
<1> QED
  BY <1>1, <1>2, QuietLanding

\* The process moves on by itself; a write changes the lake and no buffer.
LEMMA StoreLanding ==
  ASSUME TypeInv, LandingInv, NEW c \in Consumers, Apart(c), LakeGrows,
         UNCHANGED <<brokerVars, buffers>>, proc'[c].pc # "down",
         ObjectsInv', FlushInv(c)'
  PROVE  LandingInv'
<1>1. UNCHANGED <<log, committed, group, owner, position>>
  BY DEF brokerVars
<1>2. \A p \in Partitions : Landed(p) \subseteq Landed(p)'
  BY <1>1, LandedGrows
<1>3. CommitInv'
  BY <1>1, <1>2 DEF LandingInv, CommitInv
<1>4. \A p \in Partitions : BufferInv(c, p)'
  BY <1>1, <1>2, BufferKept DEF LandingInv
<1>5. \A p \in Partitions : owner[p] # c => Held(buffers'[c][p]) = {}
  BY DEF LandingInv, AssignmentInv
<1> QED
  BY <1>1, <1>3, <1>4, <1>5, MemberLanding

\* Nothing is lost while the lake and the committed offsets are left alone.
LEMMA NothingLost ==
  ASSUME LandingInv, UNCHANGED <<log, committed, bronze, quarantine>>
  PROVE  /\ ObjectsInv' /\ LakeGrows
         /\ \A p \in Partitions : /\ Landed(p) \subseteq Landed(p)'
                                  /\ 0 .. (committed'[p] - 1) \subseteq Landed(p)'
                                  /\ owner[p] # None => committed'[p] <= position[p]
<1>1. ObjectsInv'
  BY DEF LandingInv, ObjectsInv, HoldsBatch, Records, Rejects, Published, Kind
<1>2. \A p \in Partitions : Landed(p)' = Landed(p)
  BY DEF Landed, Records, Rejects, Published, Kind
<1>3. LakeGrows
  BY DEF LakeGrows
<1> QED
  BY <1>1, <1>2, <1>3 DEF LandingInv, CommitInv

LEMMA StepLanding ==
  ASSUME TypeInv, LandingInv, NEW c \in Consumers, Step(c)
  PROVE  LandingInv'
<1>0. proc \in [Consumers -> Process] /\ proc[c] \in Process
  BY DEF TypeInv, TypeOK, ProcessType
<1>11. Apart(c)
  BY StepApart
<1>1. CASE \E p \in Partitions : PollMessage(c, p)
  BY <1>1, <1>11, PollLanding
<1>2. CASE \E p \in Partitions : SweepVisit(c, p)
  <2>1. proc'[c].pc \in {"poll", "sweep", "bronze"}
    BY <1>0, <1>2 DEF SweepVisit, Process
  <2> QED
    BY <1>2, <2>1, <1>11, MoveLanding DEF SweepVisit
<1>3. CASE PollNone(c) \/ LeaveLoop(c)
  <2>1. proc'[c].pc = "sweep"
    <3>1. CASE PollNone(c)
      <4> DEFINE S == {p \in Partitions : buffers[c][p].open}
                 a == SawAssignment(c)
                 i == IF a /\ MaxIdlePolls > 0 THEN proc[c].idle + 1 ELSE proc[c].idle
      <4>1. proc' = [proc EXCEPT ![c].pc = "sweep", ![c].todo = S, ![c].assigned = a, ![c].idle = i]
        BY <3>1 DEF PollNone
      <4> HIDE DEF S, a, i
      <4> QED
        BY <1>0, <4>1
    <3>2. CASE LeaveLoop(c)
      BY <1>0, <3>2 DEF LeaveLoop
    <3> QED
      BY <1>3, <3>1, <3>2
  <2> QED
    BY <1>3, <2>1, <1>11, MoveLanding DEF PollNone, LeaveLoop
<1>4. CASE PollError(c)
  <2>1. proc'[c].pc \in {"poll", "sweep", "bronze"}
    BY <1>0, <1>4 DEF PollError, Polling, Process
  <2> QED
    BY <1>4, <2>1, <1>11, MoveLanding DEF PollError
<1>5. CASE SweepDone(c)
  <2>1. proc'[c].pc \in {"poll", "sweep", "bronze"}
    BY <1>0, <1>5 DEF SweepDone, Process
  <2> QED
    BY <1>5, <2>1, <1>11, MoveLanding DEF SweepDone
<1>6. CASE Close(c)
  <2>1. Exit(c) /\ UNCHANGED <<log, committed, bronze, quarantine>>
    BY <1>6 DEF Close, Exit, Leave, lakeVars
  <2> QED
    BY <1>11, <2>1, NothingLost, ExitLanding
<1>7. CASE PollRaises(c) \/ PoisonBronze(c) \/ PoisonQuarantine(c)
  <2>1. Raise(c) /\ proc[c].pc # "down" /\ UNCHANGED <<log, committed, bronze, quarantine>>
    BY <1>7 DEF PollRaises, Polling, PoisonBronze, PoisonQuarantine, Raise, Exit, Leave, lakeVars
  <2> QED
    BY <1>11, <2>1, NothingLost, RaiseLanding
<1>8. CASE WriteBronze(c)
  <2>1. /\ Flushing(c) /\ UNCHANGED <<brokerVars, quarantine, buffers>>
        /\ \/ bronze' = bronze /\ Current(c).records = <<>>
           \/ /\ Current(c).records # <<>>
              /\ bronze' = Put(bronze, BronzeKey(proc[c].cur, Current(c).records), Current(c).records)
        /\ proc' = [proc EXCEPT ![c].pc = "quarantine"]
    BY <1>8 DEF WriteBronze, Flushing
  <2>2. UNCHANGED log
    BY <2>1 DEF brokerVars
  <2>3. /\ ObjectsInv'
        /\ LakeGrows
        /\ bronze' # bronze => Rows(Current(c).records) \subseteq Stored(bronze', proc[c].cur)
    BY <2>1, <2>2, WriteLanding DEF LakeGrows
  <2>4. proc'[c].pc = "quarantine" /\ proc'[c].cur = proc[c].cur
    BY <1>0, <2>1 DEF Process
  <2>5. Rows(Current(c).records) \subseteq Stored(bronze', proc[c].cur)
    <3>1. CASE bronze' # bronze
      BY <2>3, <3>1
    <3>2. CASE bronze' = bronze /\ Current(c).records # <<>>
      <4> DEFINE k == BronzeKey(proc[c].cur, Current(c).records)
      <4>1. bronze = Put(bronze, k, Current(c).records)
        BY <2>1, <3>2
      <4>2. k.part = proc[c].cur
        BY DEF BronzeKey
      <4> HIDE DEF k
      <4>3. k \in DOMAIN bronze /\ bronze[k] = Current(c).records
        BY <4>1 DEF Put
      <4> QED
        BY <3>2, <4>2, <4>3 DEF Stored
    <3>3. CASE bronze' = bronze /\ Current(c).records = <<>>
      BY <3>3 DEF Rows
    <3> QED
      BY <3>1, <3>2, <3>3
  <2>6. FlushInv(c)'
    BY <2>1, <2>4, <2>5 DEF FlushInv, Current
  <2> QED
    BY <1>11, <2>1, <2>3, <2>4, <2>6, StoreLanding
<1>9. CASE WriteQuarantine(c)
  <2>1. /\ Flushing(c) /\ proc[c].pc = "quarantine" /\ UNCHANGED <<brokerVars, bronze, buffers>>
        /\ \/ quarantine' = quarantine /\ Current(c).rejects = <<>>
           \/ /\ Current(c).rejects # <<>>
              /\ quarantine' = Put(quarantine, QuarantineKey(proc[c].cur, Current(c).rejects), Current(c).rejects)
        /\ proc' = [proc EXCEPT ![c].pc = "commit"]
    BY <1>9 DEF WriteQuarantine, Flushing
  <2>2. UNCHANGED log
    BY <2>1 DEF brokerVars
  <2>3. /\ ObjectsInv'
        /\ LakeGrows
        /\ quarantine' # quarantine => Rows(Current(c).rejects) \subseteq Stored(quarantine', proc[c].cur)
    BY <2>1, <2>2, WriteLanding DEF LakeGrows
  <2>4. proc'[c].pc = "commit" /\ proc'[c].cur = proc[c].cur
    BY <1>0, <2>1 DEF Process
  <2>5. Rows(Current(c).rejects) \subseteq Stored(quarantine', proc[c].cur)
    <3>1. CASE quarantine' # quarantine
      BY <2>3, <3>1
    <3>2. CASE quarantine' = quarantine /\ Current(c).rejects # <<>>
      <4> DEFINE k == QuarantineKey(proc[c].cur, Current(c).rejects)
      <4>1. quarantine = Put(quarantine, k, Current(c).rejects)
        BY <2>1, <3>2
      <4>2. k.part = proc[c].cur
        BY DEF QuarantineKey
      <4> HIDE DEF k
      <4>3. k \in DOMAIN quarantine /\ quarantine[k] = Current(c).rejects
        BY <4>1 DEF Put
      <4> QED
        BY <3>2, <4>2, <4>3 DEF Stored
    <3>3. CASE quarantine' = quarantine /\ Current(c).rejects = <<>>
      BY <3>3 DEF Rows
    <3> QED
      BY <3>1, <3>2, <3>3
  <2>6. Rows(Current(c).records) \subseteq Stored(bronze, proc[c].cur)
    BY <2>1 DEF LandingInv, FlushInv
  <2>7. FlushInv(c)'
    BY <2>1, <2>4, <2>5, <2>6 DEF FlushInv, Current
  <2> QED
    BY <1>11, <2>1, <2>3, <2>4, <2>7, StoreLanding
<1>10. CASE Commit(c)
  <2> DEFINE n == NextOffset(c)
  <2>0. Flushing(c) /\ proc[c].pc = "commit"
    BY <1>10 DEF Commit, Flushing
  <2> PICK q \in Partitions : q = proc[c].cur
    BY <2>0, CurrentBatch
  <2>1. /\ committed' = [committed EXCEPT ![q] = n]
        /\ buffers' = [buffers EXCEPT ![c][q] = NewBuffer]
        /\ proc'[c].pc = "sweep"
        /\ UNCHANGED <<log, group, owner, position, bronze, quarantine>>
    BY <1>0, <1>10 DEF Commit, Flushing, lakeVars, Process
  <2>2. n = position[q] /\ owner[q] = c /\ c \in group /\ 0 .. (position[q] - 1) \subseteq Landed(q)
    BY <2>0, BatchBeforeCommit
  <2> HIDE DEF n
  <2>3. \A p \in Partitions : /\ Landed(p)' = Landed(p)
                              /\ Records(p)' = Records(p) /\ Rejects(p)' = Rejects(p)
    BY <2>1 DEF Landed, Records, Rejects, Published, Kind
  <2>4. LakeGrows
    BY <2>1 DEF LakeGrows
  <2>5. /\ buffers'[c][q] = NewBuffer
        /\ \A p \in Partitions : p # q => buffers'[c][p] = buffers[c][p]
    BY <2>1, <2>2 DEF TypeInv, TypeOK, ProcessType
  <2>6. /\ committed'[q] = position[q]
        /\ \A p \in Partitions : p # q => committed'[p] = committed[p]
    BY <2>1, <2>2 DEF TypeInv, TypeOK, BrokerType
  <2>7. \A p \in Partitions : owner[p] # c => Held(buffers'[c][p]) = {}
    BY <2>5, NewBufferType DEF LandingInv, AssignmentInv
  <2>8. ObjectsInv'
    BY <2>1 DEF LandingInv, ObjectsInv, HoldsBatch, Records, Rejects, Published, Kind
  <2>9. CommitInv'
    <3>1. position[q] <= position[q]
      <4>1. BrokerType
        BY DEF TypeInv, TypeOK
      <4>2. position[q] \in Nat
        BY <4>1 DEF BrokerType
      <4> QED
        BY <4>2
    <3>2. SUFFICES ASSUME NEW p \in Partitions
                   PROVE  /\ 0 .. (committed'[p] - 1) \subseteq Landed(p)'
                          /\ owner'[p] # None => committed'[p] <= position'[p]
      BY DEF CommitInv
    <3>3. CASE p = q
      BY <2>1, <2>2, <2>3, <2>6, <3>1, <3>3
    <3>4. CASE p # q
      BY <2>1, <2>3, <2>6, <3>4 DEF LandingInv, CommitInv
    <3> QED
      BY <3>3, <3>4
  <2>10. BufferInv(c, q)'
    <3>1. Rows(NewBuffer.records) = {} /\ Rows(NewBuffer.rejects) = {}
          /\ Increasing(NewBuffer.records) /\ Increasing(NewBuffer.rejects)
      BY NewBufferType DEF Rows, Increasing
    <3> QED
      BY <2>1, <2>2, <2>3, <2>5, <3>1, NewBufferType DEF BufferInv
  <2>11. \A p \in Partitions : BufferInv(c, p)'
    <3> SUFFICES ASSUME NEW p \in Partitions, p # q PROVE BufferInv(c, p)'
      BY <2>10
    <3>1. BufferInv(c, p)
      BY DEF LandingInv
    <3> QED
      BY <2>1, <2>3, <2>5, <3>1, BufferKept
  <2>12. FlushInv(c)'
    BY <2>1 DEF FlushInv
  <2> QED
    BY <1>11, <2>1, <2>4, <2>7, <2>8, <2>9, <2>11, <2>12, MemberLanding
<1> QED
  BY <1>1, <1>2, <1>3, <1>4, <1>5, <1>6, <1>7, <1>8, <1>9, <1>10 DEF Step

LEMMA FailureLanding ==
  ASSUME TypeInv, LandingInv, Root = "s3", NEW c \in Consumers, Failure(c)
  PROVE  LandingInv'
<1>0. proc \in [Consumers -> Process] /\ proc[c] \in Process
  BY DEF TypeInv, TypeOK, ProcessType
<1>5. Apart(c) /\ UNCHANGED log
  BY StepApart
<1>1. CASE Stop(c)
  <2>1. /\ UNCHANGED <<brokerVars, lakeVars, buffers>>
        /\ proc'[c].pc = proc[c].pc /\ proc'[c].cur = proc[c].cur
    BY <1>0, <1>1 DEF Stop, Process
  <2>2. Live \subseteq Live'
    BY <1>5, <2>1 DEF Live, Apart
  <2>3. FlushInv(c)' /\ LakeGrows
    BY <2>1 DEF LandingInv, FlushInv, Current, lakeVars, LakeGrows
  <2> QED
    BY <1>5, <2>1, <2>2, <2>3, QuietLanding, OthersLanding
<1>2. CASE Crash(c)
  <2>1. Exit(c) /\ UNCHANGED <<log, committed, bronze, quarantine>>
    BY <1>2 DEF Crash, Exit, Leave, lakeVars
  <2> QED
    BY <1>5, <2>1, NothingLost, ExitLanding
<1>3. CASE FailBronze(c) \/ FailQuarantine(c)
  <2>1. /\ Flushing(c) /\ proc[c].pc # "down"
        /\ Raise(c) \/ Exit(c)
        /\ UNCHANGED <<log, committed>>
    BY <1>3 DEF FailBronze, FailQuarantine, Flushing, Raise, Exit, Leave
  <2>2. \/ bronze' = bronze
        \/ /\ Current(c).records # <<>>
           /\ bronze' = Put(bronze, BronzeKey(proc[c].cur, Current(c).records), Current(c).records)
    BY <1>3 DEF FailBronze, FailQuarantine, Remains
  <2>3. \/ quarantine' = quarantine
        \/ /\ Current(c).rejects # <<>>
           /\ quarantine' = Put(quarantine, QuarantineKey(proc[c].cur, Current(c).rejects), Current(c).rejects)
    BY <1>3 DEF FailBronze, FailQuarantine, Remains
  <2>4. ObjectsInv' /\ LakeGrows /\ \A p \in Partitions : Landed(p) \subseteq Landed(p)'
    BY <2>1, <2>2, <2>3, WriteLanding DEF LakeGrows
  <2>5. \A p \in Partitions : /\ 0 .. (committed'[p] - 1) \subseteq Landed(p)'
                              /\ owner[p] # None => committed'[p] <= position[p]
    BY <2>1, <2>4 DEF LandingInv, CommitInv
  <2> QED
    BY <1>5, <2>1, <2>4, <2>5, RaiseLanding, ExitLanding
<1>4. CASE FailCommit(c)
  <2> DEFINE q == proc[c].cur
  <2>1. /\ Flushing(c) /\ proc[c].pc = "commit"
        /\ Raise(c) \/ Exit(c)
        /\ UNCHANGED <<log, bronze, quarantine>>
        /\ committed' = committed \/ committed' = [committed EXCEPT ![q] = NextOffset(c)]
    BY <1>4 DEF FailCommit, Flushing, Raise, Exit, Leave, lakeVars
  <2>2. /\ q \in Partitions /\ NextOffset(c) = position[q]
        /\ 0 .. (position[q] - 1) \subseteq Landed(q)
    BY <2>1, BatchBeforeCommit, CurrentBatch
  <2> HIDE DEF q
  <2>3. ObjectsInv' /\ LakeGrows /\ \A p \in Partitions : Landed(p)' = Landed(p)
    BY <2>1 DEF LakeGrows, LandingInv, ObjectsInv, HoldsBatch, Landed, Records, Rejects, Published, Kind
  <2>4. \A p \in Partitions : committed'[p] = committed[p] \/ (p = q /\ committed'[p] = position[p])
    BY <2>1, <2>2 DEF TypeInv, TypeOK, BrokerType
  <2>5. \A p \in Partitions : position[p] \in Nat
    BY DEF TypeInv, TypeOK, BrokerType
  <2>6. \A p \in Partitions : /\ 0 .. (committed'[p] - 1) \subseteq Landed(p)'
                              /\ owner[p] # None => committed'[p] <= position[p]
    BY <2>2, <2>3, <2>4, <2>5 DEF LandingInv, CommitInv
  <2> QED
    BY <1>5, <2>1, <2>3, <2>6, RaiseLanding, ExitLanding
<1> QED
  BY <1>1, <1>2, <1>3, <1>4 DEF Failure

\* What the theorems ask of the program's flags (--from-beginning) and of the store
\* (atomic puts).
Steady == FromBeginning = TRUE /\ Root = "s3"

LEMMA NextLanding == Steady /\ TypeInv /\ LandingInv /\ [Next /\ HandOver]_vars => LandingInv'
<1> SUFFICES ASSUME Steady, TypeInv, LandingInv, [Next /\ HandOver]_vars PROVE LandingInv'
  OBVIOUS
<1>1. CASE Environment /\ HandOver
  BY <1>1, EnvironmentLanding DEF Steady
<1>2. ASSUME NEW c \in Consumers, Step(c) \/ Failure(c)
      PROVE  LandingInv'
  BY <1>2, StepLanding, FailureLanding DEF Steady
<1>3. CASE UNCHANGED vars
  <2>1. UNCHANGED <<brokerVars, lakeVars, buffers, proc>>
    BY <1>3 DEF vars
  <2>2. Live' = Live /\ \A c \in Consumers : FlushInv(c)'
    BY <2>1 DEF Live, LandingInv, FlushInv, Current, lakeVars
  <2> QED
    BY <2>1, <2>2, QuietLanding
<1> QED
  BY <1>1, <1>2, <1>3 DEF Next

\* The inductive invariant holds throughout: buffers are unbroken up to the fetch
\* position, a step of a flush is reached when the writes before it have landed, and
\* objects hold what they are named for, whatever failures and restarts come between.
THEOREM LandingAlways ==
  ASSUME Steady
  PROVE  GroupSpec => [](TypeInv /\ LandingInv)
<1>1. Init => TypeInv /\ LandingInv
  BY InitTypeInv, InitLandingInv
<1>2. TypeInv /\ LandingInv /\ [Next /\ HandOver]_vars => TypeInv' /\ LandingInv'
  BY NextTypeInv, NextLanding
<1> QED
  BY <1>1, <1>2, PTL DEF GroupSpec

\* No loss: whatever crashes, stops, failed writes and failed commits happen, and
\* whoever takes partitions over once nothing of them is held, every message below the
\* committed offset is readable in the store it belongs to.
THEOREM NoLoss ==
  ASSUME Steady
  PROVE  GroupSpec => []CommittedIsDurable
<1>1. TypeInv /\ LandingInv => CommittedIsDurable
  BY DEF LandingInv, CommitInv, CommittedIsDurable
<1> QED
  BY <1>1, LandingAlways, PTL

\* A message that a process holds and has not landed is one that a restart is given
\* again: what it resumes at is not beyond it.
THEOREM HeldIsRedelivered ==
  ASSUME Steady
  PROVE  GroupSpec => []BufferedIsRedelivered
<1>1. TypeInv /\ LandingInv => BufferedIsRedelivered
  <2> SUFFICES ASSUME TypeInv, LandingInv, NEW c \in Live, NEW p \in Owns(c),
                      NEW o \in Held(buffers[c][p]) \ Durable(p)
               PROVE  ResumeAt(p) <= o
    BY DEF BufferedIsRedelivered
  <2>1. c \in Consumers /\ p \in Partitions
    BY DEF Live, Owns
  <2>2. o \in Nat
    BY <2>1 DEF TypeInv, OffsetsWithinLog, FlushHasWork, Published
  <2>3. o \notin Landed(p)
    BY DEF Landed, Durable
  <2>4. committed[p] \in Nat \cup {NoOffset} /\ 0 .. (committed[p] - 1) \subseteq Landed(p)
    BY <2>1 DEF TypeInv, TypeOK, BrokerType, LandingInv, CommitInv
  <2>5. ResumeAt(p) = IF committed[p] # NoOffset THEN committed[p] ELSE 0
    BY DEF Steady, ResumeAt
  <2> QED
    BY <2>2, <2>3, <2>4, <2>5 DEF NoOffset
<1> QED
  BY <1>1, LandingAlways, PTL

\* The name of an object fixes its rows, so that a replay that meets a key again
\* overwrites an object by itself.
THEOREM NamesFixRows ==
  ASSUME Steady
  PROVE  GroupSpec => []KeyDeterminesRows
<1>1. TypeInv /\ LandingInv => KeyDeterminesRows
  BY DEF LandingInv, ObjectsInv, KeyDeterminesRows
<1> QED
  BY <1>1, LandingAlways, PTL

\* The committed offset moves only in Commit and FailCommit, that of the partition
\* which is being flushed.
LEMMA StepCommits ==
  ASSUME NEW c \in Consumers, Step(c) \/ Failure(c)
  PROVE  \/ UNCHANGED committed
         \/ /\ Flushing(c) /\ proc[c].pc = "commit"
            /\ committed' = [committed EXCEPT ![proc[c].cur] = NextOffset(c)]
<1>1. CASE Commit(c) \/ FailCommit(c)
  BY <1>1 DEF Commit, FailCommit, Flushing
<1>2. ASSUME NEW q \in Partitions, PollMessage(c, q)
      PROVE  UNCHANGED committed
  BY <1>2 DEF PollMessage
<1>3. ASSUME NEW q \in Partitions, SweepVisit(c, q)
      PROVE  UNCHANGED committed
  BY <1>3 DEF SweepVisit, brokerVars
<1>4. CASE PollNone(c) \/ PollError(c) \/ LeaveLoop(c) \/ SweepDone(c)
  BY <1>4 DEF PollNone, PollError, LeaveLoop, SweepDone, brokerVars
<1>5. CASE Close(c) \/ WriteBronze(c) \/ WriteQuarantine(c)
  BY <1>5 DEF Close, WriteBronze, WriteQuarantine, brokerVars
<1>7. CASE PollRaises(c) \/ PoisonBronze(c) \/ PoisonQuarantine(c)
  BY <1>7 DEF PollRaises, PoisonBronze, PoisonQuarantine
<1>6. CASE FailBronze(c) \/ FailQuarantine(c) \/ Crash(c) \/ Stop(c)
  BY <1>6 DEF FailBronze, FailQuarantine, Crash, Stop, brokerVars
<1> QED
  BY <1>1, <1>2, <1>3, <1>4, <1>5, <1>6, <1>7 DEF Step, Failure

\* It moves to the fetch position, and only the owner moves it.
LEMMA OwnerCommits ==
  ASSUME TypeInv, LandingInv, NEW c \in Consumers, Step(c) \/ Failure(c),
         NEW p \in Partitions, committed'[p] # committed[p]
  PROVE  owner[p] = c /\ committed'[p] = position[p]
<1>1. /\ Flushing(c) /\ proc[c].pc = "commit"
      /\ committed' = [committed EXCEPT ![proc[c].cur] = NextOffset(c)]
  BY StepCommits
<1>2. owner[proc[c].cur] = c /\ NextOffset(c) = position[proc[c].cur]
  BY <1>1, BatchBeforeCommit
<1>3. committed'[p] = IF p = proc[c].cur THEN NextOffset(c) ELSE committed[p]
  BY <1>1 DEF TypeInv, TypeOK, BrokerType
<1> QED
  BY <1>2, <1>3

\* The fetch position is never below it.
LEMMA CommitAdvances ==
  ASSUME TypeInv, LandingInv, [Next]_vars, NEW p \in Partitions
  PROVE  committed'[p] >= committed[p]
<1>1. committed[p] \in Int /\ position[p] \in Int
  BY DEF TypeInv, TypeOK, BrokerType, NoOffset
<1>2. ASSUME NEW c \in Consumers, Step(c) \/ Failure(c)
      PROVE  committed'[p] >= committed[p]
  <2>1. CASE committed'[p] = committed[p]
    BY <1>1, <2>1
  <2>2. CASE committed'[p] # committed[p]
    <3>1. owner[p] = c /\ committed'[p] = position[p]
      BY <1>2, <2>2, OwnerCommits
    <3>2. committed[p] <= position[p]
      BY <3>1, NoneAssumption DEF LandingInv, CommitInv
    <3> QED
      BY <1>1, <3>1, <3>2
  <2> QED
    BY <2>1, <2>2
<1>3. CASE Environment \/ UNCHANGED vars
  <2>1. UNCHANGED committed
    BY <1>3 DEF Environment, NextHour, Rebalance, Publish, Start, Age, vars, brokerVars
  <2> QED
    BY <1>1, <2>1
<1> QED
  BY <1>2, <1>3 DEF Next

\* The committed offset of a partition never goes back.
THEOREM CommitNeverRegresses ==
  ASSUME Steady
  PROVE  GroupSpec => CommittedNeverRegresses
<1>1. TypeInv /\ LandingInv /\ [Next /\ HandOver]_vars
         => [\A p \in Partitions : committed'[p] >= committed[p]]_vars
  BY CommitAdvances
<1>2. GroupSpec => [][\A p \in Partitions : committed'[p] >= committed[p]]_vars
  BY <1>1, LandingAlways, PTL DEF GroupSpec
<1> QED
  BY <1>2 DEF CommittedNeverRegresses

-----------------------------------------------------------------------------
(* The consumer implements Landing *)

\* The four things a step can do to what Landing sees: nothing, a publication, the
\* writes of the batch that is being flushed, or its commit.
Quiet == UNCHANGED <<log, committed, bronze, quarantine>>

Writes(c) ==
    /\ Flushing(c) /\ UNCHANGED <<log, committed>>
    /\ \/ bronze' = bronze
       \/ /\ Current(c).records # <<>>
          /\ bronze' = Put(bronze, BronzeKey(proc[c].cur, Current(c).records), Current(c).records)
    /\ \/ quarantine' = quarantine
       \/ /\ Current(c).rejects # <<>>
          /\ quarantine' = Put(quarantine, QuarantineKey(proc[c].cur, Current(c).rejects),
                               Current(c).rejects)

Commits(c) ==
    /\ Flushing(c) /\ proc[c].pc = "commit"
    /\ committed' = [committed EXCEPT ![proc[c].cur] = NextOffset(c)]
    /\ UNCHANGED <<log, bronze, quarantine>>

LEMMA StepKinds ==
  ASSUME Root = "s3", [Next]_vars
  PROVE  \/ Quiet
         \/ \E p \in Partitions : Publish(p)
         \/ \E c \in Consumers : Writes(c) \/ Commits(c)
<1>1. CASE Environment
  BY <1>1 DEF Environment, NextHour, Rebalance, Start, Age, Quiet, brokerVars, lakeVars
<1>2. ASSUME NEW c \in Consumers, Step(c)
      PROVE  Quiet \/ Writes(c) \/ Commits(c)
  <2>1. CASE WriteBronze(c)
    BY <2>1 DEF WriteBronze, Writes, Flushing, brokerVars
  <2>2. CASE WriteQuarantine(c)
    BY <2>2 DEF WriteQuarantine, Writes, Flushing, brokerVars
  <2>3. CASE Commit(c)
    BY <2>3 DEF Commit, Commits, Flushing, lakeVars
  <2>4. CASE PollRaises(c) \/ PoisonBronze(c) \/ PoisonQuarantine(c) \/ Close(c)
    BY <2>4 DEF PollRaises, PoisonBronze, PoisonQuarantine, Close, Raise, Exit, Leave, Quiet, lakeVars
  <2>5. CASE \E p \in Partitions : PollMessage(c, p) \/ SweepVisit(c, p)
    <3>1. PICK p \in Partitions : PollMessage(c, p) \/ SweepVisit(c, p)
      BY <2>5
    <3>2. CASE PollMessage(c, p)
      BY <3>2 DEF PollMessage, Quiet, lakeVars
    <3>3. CASE SweepVisit(c, p)
      BY <3>3 DEF SweepVisit, Quiet, brokerVars, lakeVars
    <3> QED
      BY <3>1, <3>2, <3>3
  <2>6. CASE PollNone(c) \/ PollError(c) \/ LeaveLoop(c) \/ SweepDone(c)
    BY <2>6 DEF PollNone, PollError, LeaveLoop, SweepDone, Quiet, brokerVars, lakeVars
  <2> QED
    BY <1>2, <2>1, <2>2, <2>3, <2>4, <2>5, <2>6 DEF Step
<1>3. ASSUME NEW c \in Consumers, Failure(c)
      PROVE  Quiet \/ Writes(c) \/ Commits(c)
  <2>1. CASE FailBronze(c)
    BY <2>1 DEF FailBronze, Remains, Raise, Exit, Leave, Writes, Flushing
  <2>2. CASE FailQuarantine(c)
    BY <2>2 DEF FailQuarantine, Remains, Raise, Exit, Leave, Writes, Flushing
  <2>3. CASE FailCommit(c)
    BY <2>3 DEF FailCommit, Raise, Exit, Leave, Commits, Quiet, Flushing, lakeVars
  <2>4. CASE Crash(c) \/ Stop(c)
    BY <2>4 DEF Crash, Stop, Exit, Leave, Quiet, brokerVars, lakeVars
  <2> QED
    BY <1>3, <2>1, <2>2, <2>3, <2>4 DEF Failure
<1>4. CASE UNCHANGED vars
  BY <1>4 DEF vars, Quiet, brokerVars, lakeVars
<1> QED
  BY <1>1, <1>2, <1>3, <1>4 DEF Next

-----------------------------------------------------------------------------
(* The initial states *)

LEMMA InitRefines == Init => LandingOf!Init
<1> SUFFICES ASSUME Init PROVE LandingOf!Init
  OBVIOUS
<1>1. \A p \in Partitions : Len(log[p]) \in Nat
  BY InitTypeInv DEF TypeInv, TypeOK, BrokerType
<1>2. \A p \in Partitions : Landed(p) = {}
  BY DEF Init, Landed, Stored
<1> QED
  BY <1>1, <1>2 DEF Init, LandingOf!Init, PublishedCount, LandedOffsets, AcknowledgedCount

-----------------------------------------------------------------------------
(* The steps *)

LEMMA QuietRefines ==
  ASSUME Quiet
  PROVE  UNCHANGED LandingOf!landingVars
<1>1. \A p \in Partitions : Landed(p)' = Landed(p)
  BY DEF Quiet, Landed, Records, Rejects, Published, Kind
<1> QED
  BY <1>1 DEF Quiet, LandingOf!landingVars, PublishedCount, LandedOffsets, AcknowledgedCount

\* A new message lands nothing: no object holds its offset yet.
LEMMA PublishRefines ==
  ASSUME TypeInv, LandingInv, NEW p \in Partitions, Publish(p)
  PROVE  LandingOf!Publish(p)
<1>1. PICK k \in Kinds : log' = [log EXCEPT ![p] = Append(@, k)]
  BY DEF Publish
<1>2. log \in [Partitions -> Seq(Kinds)]
  BY DEF TypeInv, TypeOK, BrokerType
<1>3. /\ Len(log[p]) \in Nat /\ Len(log'[p]) = Len(log[p]) + 1
      /\ \A o \in Published(p) : log'[p][o + 1] = log[p][o + 1]
      /\ \A q \in Partitions : q # p => log'[q] = log[q]
  BY <1>1, <1>2, AppendProperties DEF Published
<1>4. ASSUME NEW q \in Partitions
      PROVE  Landed(q)' = Landed(q)
  <2>1. Stored(bronze, q) \subseteq Published(q) /\ Stored(quarantine, q) \subseteq Published(q)
    BY DEF LandingInv, ObjectsInv, HoldsBatch, Stored, Records, Rejects
  <2>2. /\ Published(q) \subseteq Published(q)'
        /\ \A o \in Published(q) : Kind(q, o)' = Kind(q, o)
    BY <1>2, <1>3 DEF Published, Kind
  <2> QED
    BY <2>1, <2>2 DEF Landed, Records, Rejects, Publish, lakeVars
<1>5. LandedOffsets' = LandedOffsets
  BY <1>4 DEF LandedOffsets
<1>6. AcknowledgedCount' = AcknowledgedCount
  BY DEF Publish, AcknowledgedCount
<1>7. PublishedCount' = [PublishedCount EXCEPT ![p] = @ + 1]
  BY <1>3 DEF PublishedCount
<1> QED
  BY <1>5, <1>6, <1>7 DEF LandingOf!Publish

\* An object of one partition shows nothing of another.
LEMMA PutElsewhere ==
  ASSUME NEW store, NEW key, NEW seq, NEW p, p # key.part
  PROVE  Stored(Put(store, key, seq), p) = Stored(store, p)
BY DEF Stored, Put

\* The writes of a flush land messages of its partition, and of no other.
LEMMA WritesRefine ==
  ASSUME TypeInv, LandingInv, NEW c \in Consumers, Writes(c)
  PROVE  LandingOf!Land(proc[c].cur)
<1>1. PICK q \in Partitions : q = proc[c].cur
  BY CurrentBatch DEF Writes
<1>2. /\ UNCHANGED <<log, committed>>
      /\ \A p \in Partitions : Landed(p) \subseteq Landed(p)'
  BY WriteLanding DEF Writes
<1>3. /\ \A seq : BronzeKey(q, seq).part = q
      /\ \A seq : QuarantineKey(q, seq).part = q
  BY DEF BronzeKey, QuarantineKey
<1>4. ASSUME NEW p \in Partitions, p # q
      PROVE  Landed(p)' = Landed(p)
  <2>1. Stored(bronze', p) = Stored(bronze, p)
    BY <1>1, <1>3, <1>4, PutElsewhere DEF Writes
  <2>2. Stored(quarantine', p) = Stored(quarantine, p)
    BY <1>1, <1>3, <1>4, PutElsewhere DEF Writes
  <2> QED
    BY <1>2, <2>1, <2>2 DEF Landed, Records, Rejects, Published, Kind
<1>5. Landed(q)' \in SUBSET (0 .. (PublishedCount[q] - 1))
  BY <1>1, <1>2 DEF Landed, Records, Rejects, Published, PublishedCount
<1>6. LandedOffsets' = [LandedOffsets EXCEPT ![q] = @ \cup Landed(q)']
  BY <1>1, <1>2, <1>4 DEF LandedOffsets
<1>7. UNCHANGED <<PublishedCount, AcknowledgedCount>>
  BY <1>2 DEF PublishedCount, AcknowledgedCount
<1> QED
  BY <1>1, <1>5, <1>6, <1>7 DEF LandingOf!Land

\* A commit acknowledges the messages up to the fetch position, all of them landed.
LEMMA CommitsRefine ==
  ASSUME TypeInv, LandingInv, NEW c \in Consumers, Commits(c)
  PROVE  LandingOf!Acknowledge(proc[c].cur)
<1>1. PICK q \in Partitions : q = proc[c].cur
  BY CurrentBatch DEF Commits
<1>2. PICK n \in Nat : n = position[q]
  BY <1>1 DEF TypeInv, TypeOK, BrokerType
<1>3. NextOffset(c) = n /\ owner[q] = c /\ 0 .. (n - 1) \subseteq Landed(q)
  BY <1>1, <1>2, BatchBeforeCommit DEF Commits
<1>4. /\ committed \in [Partitions -> Nat \cup {NoOffset}]
      /\ Len(log[q]) \in Nat /\ n <= Len(log[q]) /\ committed[q] <= n
  BY <1>2, <1>3, NoneAssumption
    DEF TypeInv, TypeOK, BrokerType, FlushHasWork, OffsetsWithinLog, LandingInv, CommitInv
<1>5. committed' = [committed EXCEPT ![q] = n]
  BY <1>1, <1>3 DEF Commits
<1>6. AcknowledgedCount' = [AcknowledgedCount EXCEPT ![q] = n]
  <2>1. n # NoOffset
    BY <1>2, NoneAssumption DEF NoOffset
  <2>2. ASSUME NEW p \in Partitions
        PROVE  committed'[p] = IF p = q THEN n ELSE committed[p]
    BY <1>4, <1>5
  <2> QED
    BY <1>1, <2>1, <2>2 DEF AcknowledgedCount
<1>7. n \in AcknowledgedCount[q] .. PublishedCount[q]
  BY <1>1, <1>2, <1>4 DEF AcknowledgedCount, PublishedCount, NoOffset
<1>8. 0 .. (n - 1) \subseteq LandedOffsets[q]
  BY <1>1, <1>3 DEF LandedOffsets
<1>9. UNCHANGED <<PublishedCount, LandedOffsets>>
  BY DEF Commits, PublishedCount, LandedOffsets, Landed, Records, Rejects, Published, Kind
<1> QED
  BY <1>1, <1>6, <1>7, <1>8, <1>9 DEF LandingOf!Acknowledge

LEMMA StepRefines ==
  ASSUME Root = "s3", TypeInv, LandingInv, [Next]_vars
  PROVE  [LandingOf!Next]_(LandingOf!landingVars)
<1>1. CASE Quiet
  BY <1>1, QuietRefines
<1>2. ASSUME NEW p \in Partitions, Publish(p)
      PROVE  LandingOf!Next
  BY <1>2, PublishRefines DEF LandingOf!Next
<1>3. ASSUME NEW c \in Consumers, Writes(c) \/ Commits(c)
      PROVE  LandingOf!Next
  <2>1. proc[c].cur \in Partitions
    BY <1>3, CurrentBatch DEF Writes, Commits
  <2> QED
    BY <1>3, <2>1, WritesRefine, CommitsRefine DEF LandingOf!Next
<1> QED
  BY <1>1, <1>2, <1>3, StepKinds

\* At-least-once landing: what the consumer does with its batches, objects, offsets,
\* failures and restarts is, seen from outside, a sequence of publications, landings of
\* published messages that stay landed, and acknowledgements of a landed prefix that are
\* never taken back (consumer.py:1-13).
THEOREM RefinesLanding ==
  ASSUME Steady
  PROVE  GroupSpec => ImplementsLanding
<1>1. TypeInv /\ LandingInv /\ [Next /\ HandOver]_vars => [LandingOf!Next]_(LandingOf!landingVars)
  BY StepRefines DEF Steady
<1>2. GroupSpec => LandingOf!Spec
  BY <1>1, InitRefines, LandingAlways, PTL DEF GroupSpec, LandingOf!Spec
<1> QED
  BY <1>2 DEF ImplementsLanding

-----------------------------------------------------------------------------
(* How much a restart repeats *)

\* A buffer that waits is below the batch size; the one that reached it is being
\* flushed, or was left by the exception that ended the loop.
SizeInv(c, p) ==
    /\ Pending(buffers[c][p]) <= BatchRows
    /\ ~proc[c].closing /\ proc[c].cur # p => Pending(buffers[c][p]) < BatchRows

\* The finally block flushes each partition that it has passed.
DrainInv(c) ==
    /\ proc[c].pc \in {"down", "poll"} => ~proc[c].closing
    /\ proc[c].closing /\ ~proc[c].failed =>
          \A p \in Partitions \ proc[c].todo : p = proc[c].cur \/ Held(buffers[c][p]) = {}

\* Inductive for any group, with rebalances, failures and crashes.
BatchInv == \A c \in Consumers : DrainInv(c) /\ \A p \in Partitions : SizeInv(c, p)

\* What the owner has read beyond the committed offset is in its buffer.
RiskInv ==
    \A c \in Consumers : \A p \in Owns(c) :
        position[p] - ResumeAt(p) <= Pending(buffers[c][p])

\* A flush that is past its bronze write.
WroteBronze(c) == proc[c].pc \in {"quarantine", "commit"}

\* As long as nothing fails, a buffer holds only messages that were never committed,
\* and bronze only messages that were, and those of the batch that is being flushed.
HeldAnew ==
    \A c \in Consumers : \A p \in Partitions : \A o \in Held(buffers[c][p]) : committed[p] <= o

WrittenBy(c, p) == IF WroteBronze(c) /\ proc[c].cur = p THEN Rows(Current(c).records) ELSE {}

WrittenInv ==
    \A p \in Partitions : \A o \in Stored(bronze, p) :
        o < committed[p] \/ \E c \in Consumers : o \in WrittenBy(c, p)

CalmInv == disruptions = 0 /\ NoneMisnamed => HeldAnew /\ WrittenInv /\ BronzeRowsUnique

-----------------------------------------------------------------------------
(* What the steps of a process do to it, and to its buffers *)

LEMMA AppendPending ==
  ASSUME NEW b \in Buffer, NEW o \in Nat
  PROVE  /\ Pending([b EXCEPT !.records = Append(@, o)]) = Pending(b) + 1
         /\ Pending([b EXCEPT !.rejects = Append(@, o)]) = Pending(b) + 1
<1> DEFINE m == Len(b.records)
           n == Len(b.rejects)
<1>1. b.records \in Seq(Nat) /\ b.rejects \in Seq(Nat)
  BY DEF Buffer
<1>2. /\ m \in Nat /\ n \in Nat
      /\ Len(Append(b.records, o)) = m + 1 /\ Len(Append(b.rejects, o)) = n + 1
  BY <1>1, AppendProperties
<1>3. Pending([b EXCEPT !.records = Append(@, o)]) = (m + 1) + n
  BY <1>2 DEF Pending, Buffer
<1>4. Pending([b EXCEPT !.rejects = Append(@, o)]) = m + (n + 1)
  BY <1>2 DEF Pending, Buffer
<1>5. Pending(b) = m + n
  BY DEF Pending
<1> HIDE DEF m, n
<1> QED
  BY <1>2, <1>3, <1>4, <1>5

LEMMA EmptyPending == Pending(NewBuffer) = 0 /\ Pending(NoBuffer) = 0
BY NewBufferType DEF Pending

\* A message makes its buffer one row longer, and starts a flush when that makes it due.
LEMMA PollEffect ==
  ASSUME TypeInv, NEW c \in Consumers, NEW p \in Partitions, PollMessage(c, p)
  PROVE  /\ buffers'[c][p] \in Buffer
         /\ Pending(buffers'[c][p]) <= Pending(buffers[c][p]) + 1
         /\ buffers[c][p].open \/ Held(buffers[c][p]) = {} =>
               /\ Pending(buffers'[c][p]) = Pending(buffers[c][p]) + 1
               /\ Held(buffers'[c][p]) = Held(buffers[c][p]) \cup {position[p]}
         /\ \A q \in Partitions : q # p => buffers'[c][q] = buffers[c][q]
         /\ proc[c].cur = None
         /\ proc'[c].closing = proc[c].closing /\ proc'[c].failed = proc[c].failed
         /\ proc'[c].todo = proc[c].todo
         /\ IF Due(buffers'[c][p]) THEN proc'[c].cur = p /\ proc'[c].pc = "bronze"
                                   ELSE proc'[c].cur = None /\ proc'[c].pc = "poll"
<1> DEFINE o == position[p]
           b == buffers[c][p]
           old == IF b.open THEN b ELSE NewBuffer
           more == [old EXCEPT !.records = Append(@, o)]
           fewer == [old EXCEPT !.rejects = Append(@, o)]
           new == IF IsRecord(Kind(p, o)) THEN more ELSE fewer
           due == Due(new)
<1>1. /\ buffers' = [buffers EXCEPT ![c][p] = new]
      /\ proc[c].pc = "poll"
      /\ proc' = [proc EXCEPT ![c].pc = IF due THEN "bronze" ELSE "poll",
                              ![c].cur = IF due THEN p ELSE @,
                              ![c].idle = 0, ![c].assigned = TRUE]
  BY DEF PollMessage, Polling
<1>2. o \in Nat /\ b \in Buffer /\ old \in Buffer
  BY NewBufferType DEF TypeInv, TypeOK, BrokerType, ProcessType
<1>3. Pending(old) \in Nat /\ Pending(b) \in Nat
  BY <1>2, PendingHeld
<1>4. /\ more \in Buffer /\ Pending(more) = Pending(old) + 1 /\ Held(more) = Held(old) \cup {o}
      /\ fewer \in Buffer /\ Pending(fewer) = Pending(old) + 1 /\ Held(fewer) = Held(old) \cup {o}
  <2> HIDE DEF old, o
  <2> QED
    BY <1>2, AppendPending, BufferUpdates
<1>5. new \in Buffer /\ Pending(new) = Pending(old) + 1 /\ Held(new) = Held(old) \cup {o}
  <2> HIDE DEF more, fewer, old
  <2> QED
    BY <1>4
<1>6. /\ Pending(old) <= Pending(b)
      /\ b.open \/ Held(b) = {} => Pending(old) = Pending(b) /\ Held(old) = Held(b)
  <2>1. CASE b.open
    BY <2>1, <1>3
  <2>2. CASE ~b.open
    <3>1. Pending(old) = 0 /\ Held(old) = {}
      BY <2>2, EmptyPending, NewBufferType
    <3>2. Held(b) = {} => Pending(b) = 0
      BY <1>2, <1>3, PendingHeld
    <3> HIDE DEF old, b
    <3> QED
      BY <2>2, <1>3, <3>1, <3>2
  <2> QED
    BY <2>1, <2>2
<1>7. /\ buffers'[c][p] = new
      /\ \A q \in Partitions : q # p => buffers'[c][q] = buffers[c][q]
  <2> HIDE DEF new
  <2> QED
    BY <1>1 DEF TypeInv, TypeOK, ProcessType
<1>8. /\ proc[c].cur = None
      /\ proc'[c].closing = proc[c].closing /\ proc'[c].failed = proc[c].failed
      /\ proc'[c].todo = proc[c].todo
      /\ IF due THEN proc'[c].cur = p /\ proc'[c].pc = "bronze"
                ELSE proc'[c].cur = None /\ proc'[c].pc = "poll"
  <2> HIDE DEF due
  <2> QED
    BY <1>1 DEF TypeInv, TypeOK, ProcessType, Process, Flushing
<1> HIDE DEF old, new, b, o
<1>9. /\ Pending(new) <= Pending(b) + 1
      /\ b.open \/ Held(b) = {} => Pending(new) = Pending(b) + 1 /\ Held(new) = Held(b) \cup {o}
  BY <1>3, <1>5, <1>6
<1> QED
  BY <1>5, <1>7, <1>8, <1>9 DEF b, o

\* The end of a process, and an exception.
LEMMA ExitEffect ==
  ASSUME TypeInv, NEW c \in Consumers, Exit(c)
  PROVE  /\ proc'[c] = Down
         /\ \A p \in Partitions : buffers'[c][p] = NoBuffer /\ owner'[p] # c
BY NoneAssumption DEF Exit, Leave, TypeInv, TypeOK, ProcessType, BrokerType

LEMMA RaiseEffect ==
  ASSUME TypeInv, NEW c \in Consumers, Raise(c)
  PROVE  \/ Exit(c)
         \/ /\ UNCHANGED <<buffers, log, group, owner, position>>
            /\ proc'[c].pc = "sweep" /\ proc'[c].closing /\ proc'[c].failed
BY DEF Raise, TypeInv, TypeOK, ProcessType, Process

\* A commit empties the buffer of its partition.
LEMMA CommitEffect ==
  ASSUME TypeInv, NEW c \in Consumers, Commit(c), NEW q \in Partitions, q = proc[c].cur
  PROVE  /\ buffers'[c][q] = NewBuffer
         /\ \A p \in Partitions : p # q => buffers'[c][p] = buffers[c][p]
         /\ proc'[c].pc = "sweep" /\ proc'[c].cur = None
         /\ proc'[c].closing = proc[c].closing /\ proc'[c].failed = proc[c].failed
         /\ proc'[c].todo = proc[c].todo
         /\ committed'[q] = NextOffset(c)
         /\ \A p \in Partitions : p # q => committed'[p] = committed[p]
<1>1. /\ committed' = [committed EXCEPT ![q] = NextOffset(c)]
      /\ buffers' = [buffers EXCEPT ![c][q] = NewBuffer]
      /\ proc' = [proc EXCEPT ![c].pc = "sweep", ![c].cur = None]
  BY DEF Commit
<1> QED
  BY <1>1 DEF TypeInv, TypeOK, ProcessType, BrokerType, Process

-----------------------------------------------------------------------------
(* The size of a batch, and what the finally block has flushed *)

LEMMA InitBatch == Init => BatchInv
<1> SUFFICES ASSUME Init PROVE BatchInv
  OBVIOUS
<1>1. \A c \in Consumers : proc[c] = Down /\ \A p \in Partitions : buffers[c][p] = NoBuffer
  BY DEF Init
<1>2. \A c \in Consumers : DrainInv(c)
  BY <1>1 DEF DrainInv, Down
<1>3. \A c \in Consumers, p \in Partitions : SizeInv(c, p)
  BY <1>1, EmptyPending, BoundsAssumption DEF SizeInv
<1> QED
  BY <1>2, <1>3 DEF BatchInv

\* A process that ends, or raises an exception, keeps the invariant.
LEMMA ExitBatch ==
  ASSUME TypeInv, BatchInv, NEW c \in Consumers, Raise(c) \/ Exit(c)
  PROVE  DrainInv(c)' /\ \A p \in Partitions : SizeInv(c, p)'
<1>1. CASE Exit(c)
  <2>1. proc'[c] = Down /\ \A p \in Partitions : Pending(buffers'[c][p]) = 0
    BY <1>1, ExitEffect, EmptyPending
  <2>2. DrainInv(c)'
    BY <2>1 DEF DrainInv, Down
  <2> QED
    BY <2>1, <2>2, BoundsAssumption DEF SizeInv
<1>2. CASE Raise(c) /\ ~Exit(c)
  <2>1. /\ UNCHANGED buffers /\ proc'[c].pc = "sweep"
        /\ proc'[c].closing /\ proc'[c].failed
    BY <1>2, RaiseEffect
  <2> QED
    BY <2>1 DEF BatchInv, DrainInv, SizeInv
<1> QED
  BY <1>1, <1>2

\* So does a step that moves the process on and touches no buffer.
LEMMA MoveBatch ==
  ASSUME BatchInv, NEW c \in Consumers, UNCHANGED buffers,
         proc[c].closing => proc'[c].closing /\ (proc'[c].failed <=> proc[c].failed)
                            /\ proc'[c].todo = proc[c].todo /\ proc'[c].cur = proc[c].cur,
         ~proc[c].closing => \/ proc'[c].closing /\ proc'[c].todo = Partitions
                             \/ ~proc'[c].closing /\ proc'[c].cur = proc[c].cur,
         proc'[c].pc \in {"down", "poll"} => ~proc'[c].closing
  PROVE  DrainInv(c)' /\ \A p \in Partitions : SizeInv(c, p)'
<1>1. DrainInv(c)'
  BY DEF BatchInv, DrainInv
<1>2. \A p \in Partitions : SizeInv(c, p)'
  BY DEF BatchInv, SizeInv
<1> QED
  BY <1>1, <1>2

LEMMA StepBatch ==
  ASSUME TypeInv, BatchInv, NEW c \in Consumers, Step(c) \/ Failure(c)
  PROVE  BatchInv'
<1>0. /\ proc \in [Consumers -> Process] /\ proc[c] \in Process
      /\ proc[c].pc \in {"poll", "sweep"} => proc[c].cur = None
      /\ \A p \in Partitions : buffers[c][p] \in Buffer
  BY DEF TypeInv, TypeOK, ProcessType, Flushing
<1>1. \A p \in Partitions : Pending(buffers[c][p]) \in Nat
  BY <1>0, PendingHeld
<1> SUFFICES DrainInv(c)' /\ \A p \in Partitions : SizeInv(c, p)'
  <2>1. ASSUME NEW d \in Consumers, d # c
        PROVE  DrainInv(d)' /\ \A p \in Partitions : SizeInv(d, p)'
    <3>1. proc'[d] = proc[d] /\ buffers'[d] = buffers[d]
      BY <2>1, StepOfOne
    <3> QED
      BY <3>1 DEF BatchInv, DrainInv, SizeInv
  <2> QED
    BY <2>1 DEF BatchInv
<1>2. ASSUME NEW p \in Partitions, PollMessage(c, p)
      PROVE  DrainInv(c)' /\ \A q \in Partitions : SizeInv(c, q)'
  <2>1. ~proc[c].closing /\ ~proc'[c].closing /\ proc[c].cur = None
    BY <1>2, PollEffect DEF PollMessage, Polling, BatchInv, DrainInv
  <2>2. \A q \in Partitions : Pending(buffers[c][q]) < BatchRows
    BY <2>1, NoneAssumption DEF BatchInv, SizeInv
  <2>3. /\ Pending(buffers'[c][p]) \in Nat
        /\ Pending(buffers'[c][p]) <= Pending(buffers[c][p]) + 1
        /\ proc'[c].cur # p => Pending(buffers'[c][p]) < BatchRows
    BY <1>2, PollEffect, PendingHeld, NoneAssumption, BoundsAssumption DEF Due
  <2>4. \A q \in Partitions : q # p => buffers'[c][q] = buffers[c][q]
    BY <1>2, PollEffect
  <2>5. SizeInv(c, p)'
    BY <1>1, <2>2, <2>3, BoundsAssumption DEF SizeInv
  <2>6. \A q \in Partitions : q # p => SizeInv(c, q)'
    BY <1>1, <2>2, <2>4, BoundsAssumption DEF SizeInv
  <2> QED
    BY <2>1, <2>5, <2>6 DEF DrainInv
<1>3. ASSUME NEW p \in Partitions, SweepVisit(c, p)
      PROVE  DrainInv(c)' /\ \A q \in Partitions : SizeInv(c, q)'
  <2>1. /\ proc[c].cur = None /\ UNCHANGED buffers
        /\ proc'[c].closing = proc[c].closing /\ proc'[c].failed = proc[c].failed
        /\ proc'[c].todo = proc[c].todo \ {p}
        /\ proc'[c].cur = (IF NeedsFlush(c, p) THEN p ELSE None)
        /\ proc'[c].pc \in {"bronze", "sweep"}
    BY <1>0, <1>3 DEF SweepVisit, Process
  <2>2. proc[c].closing /\ ~NeedsFlush(c, p) => Held(buffers[c][p]) = {}
    BY <1>0, <1>1, PendingHeld DEF NeedsFlush
  <2>3. DrainInv(c)'
    BY <2>1, <2>2, NoneAssumption DEF BatchInv, DrainInv
  <2>4. \A q \in Partitions : SizeInv(c, q)'
    BY <2>1, NoneAssumption DEF BatchInv, SizeInv
  <2> QED
    BY <2>3, <2>4
<1>4. CASE PollNone(c)
  <2>1. /\ proc[c].pc = "poll" /\ UNCHANGED buffers
        /\ proc'[c].closing = proc[c].closing /\ proc'[c].cur = proc[c].cur
    BY <1>0, <1>4 DEF PollNone, Polling, Process
  <2>2. ~proc[c].closing
    BY <2>1 DEF BatchInv, DrainInv
  <2> QED
    BY <2>1, <2>2, MoveBatch
<1>5. CASE PollError(c) \/ LeaveLoop(c) \/ SweepDone(c)
  <2>1. /\ UNCHANGED buffers /\ proc'[c].cur = proc[c].cur /\ ~proc[c].closing
        /\ \/ proc'[c].closing /\ proc'[c].todo = Partitions /\ proc'[c].pc = "sweep"
           \/ ~proc'[c].closing
    BY <1>0, <1>5 DEF PollError, LeaveLoop, SweepDone, Polling, Process, BatchInv, DrainInv
  <2> QED
    BY <2>1, MoveBatch
<1>6. CASE WriteBronze(c) \/ WriteQuarantine(c) \/ Stop(c)
  <2>1. /\ UNCHANGED buffers
        /\ proc'[c].closing = proc[c].closing /\ proc'[c].failed = proc[c].failed
        /\ proc'[c].todo = proc[c].todo /\ proc'[c].cur = proc[c].cur
        /\ proc'[c].pc \in {"quarantine", "commit", proc[c].pc}
    BY <1>0, <1>6 DEF WriteBronze, WriteQuarantine, Stop, Process
  <2>2. proc'[c].pc \in {"down", "poll"} => ~proc'[c].closing
    BY <2>1 DEF BatchInv, DrainInv
  <2> QED
    BY <2>1, <2>2, MoveBatch
<1>7. CASE Commit(c)
  <2>1. Flushing(c)
    BY <1>7 DEF Commit, Flushing
  <2>2. PICK q \in Partitions : q = proc[c].cur
    BY <2>1, CurrentBatch
  <2>3. /\ Pending(buffers'[c][q]) = 0 /\ Held(buffers'[c][q]) = {}
        /\ \A p \in Partitions : p # q => buffers'[c][p] = buffers[c][p]
        /\ proc'[c].pc = "sweep" /\ proc'[c].cur = None
        /\ proc'[c].closing = proc[c].closing /\ proc'[c].failed = proc[c].failed
        /\ proc'[c].todo = proc[c].todo
    BY <1>7, <2>2, CommitEffect, EmptyPending, NewBufferType
  <2>4. DrainInv(c)'
    BY <2>2, <2>3 DEF BatchInv, DrainInv
  <2>5. SizeInv(c, q)'
    BY <2>3, BoundsAssumption DEF SizeInv
  <2>6. \A p \in Partitions : p # q => SizeInv(c, p)'
    BY <2>2, <2>3 DEF BatchInv, SizeInv
  <2> QED
    BY <2>4, <2>5, <2>6
<1>8. CASE Close(c) \/ PollRaises(c) \/ PoisonBronze(c) \/ PoisonQuarantine(c)
           \/ FailBronze(c) \/ FailQuarantine(c) \/ FailCommit(c) \/ Crash(c)
  <2>1. Raise(c) \/ Exit(c)
    BY <1>8 DEF Close, PollRaises, PoisonBronze, PoisonQuarantine,
           FailBronze, FailQuarantine, FailCommit, Crash
  <2> QED
    BY <2>1, ExitBatch
<1> QED
  BY <1>2, <1>3, <1>4, <1>5, <1>6, <1>7, <1>8 DEF Step, Failure

LEMMA EnvironmentBatch ==
  ASSUME TypeInv, BatchInv, Environment
  PROVE  BatchInv'
<1>1. CASE NextHour \/ Rebalance \/ \E p \in Partitions : Publish(p)
  <2>1. UNCHANGED <<proc, buffers>>
    BY <1>1 DEF NextHour, Rebalance, Publish
  <2> QED
    BY <2>1 DEF BatchInv, DrainInv, SizeInv
<1>2. ASSUME NEW c \in Consumers, Start(c)
      PROVE  BatchInv'
  <2>1. /\ UNCHANGED buffers /\ ~proc[c].closing /\ proc[c].cur = None
        /\ ~proc'[c].closing /\ proc'[c].cur = None
        /\ \A d \in Consumers : d # c => proc'[d] = proc[d]
    BY <1>2 DEF Start, Down, BatchInv, DrainInv, TypeInv, TypeOK, ProcessType, Process, Flushing
  <2> QED
    BY <2>1 DEF BatchInv, DrainInv, SizeInv
<1>3. ASSUME NEW c \in Consumers, NEW p \in Partitions, Age(c, p)
      PROVE  BatchInv'
  <2>1. UNCHANGED proc /\ buffers' = [buffers EXCEPT ![c][p].aged = TRUE]
    BY <1>3 DEF Age
  <2>2. ASSUME NEW d \in Consumers, NEW q \in Partitions
        PROVE  /\ buffers'[d][q].records = buffers[d][q].records
               /\ buffers'[d][q].rejects = buffers[d][q].rejects
    BY <2>1 DEF TypeInv, TypeOK, ProcessType, Buffer
  <2>3. \A d \in Consumers, q \in Partitions : /\ Pending(buffers'[d][q]) = Pending(buffers[d][q])
                                              /\ Held(buffers'[d][q]) = Held(buffers[d][q])
    BY <2>2 DEF Pending, Held
  <2> QED
    BY <2>1, <2>3 DEF BatchInv, DrainInv, SizeInv
<1> QED
  BY <1>1, <1>2, <1>3 DEF Environment

LEMMA NextBatch == TypeInv /\ BatchInv /\ [Next]_vars => BatchInv'
<1> SUFFICES ASSUME TypeInv, BatchInv, [Next]_vars PROVE BatchInv'
  OBVIOUS
<1>1. CASE UNCHANGED vars
  BY <1>1 DEF vars, BatchInv, DrainInv, SizeInv
<1> QED
  BY <1>1, EnvironmentBatch, StepBatch DEF Next

LEMMA BatchAlways == Spec => [](TypeInv /\ BatchInv)
BY InitTypeInv, InitBatch, NextTypeInv, NextBatch, PTL DEF Spec

LEMMA GroupIsSpec == GroupSpec => Spec
<1>1. [Next /\ HandOver]_vars => [Next]_vars
  OBVIOUS
<1> QED
  BY <1>1, PTL DEF GroupSpec, Spec

-----------------------------------------------------------------------------
(* What a restart repeats *)

\* Where nothing is held when partitions change hands, and the members read from the
\* beginning, an uncommitted message of a partition is one that its owner holds.
LEMMA NextRisk ==
  ASSUME FromBeginning = TRUE, TypeInv, LandingInv, RiskInv, [Next]_vars
  PROVE  RiskInv'
<1> SUFFICES ASSUME NEW c \in Consumers, NEW p \in Partitions, owner'[p] = c
             PROVE  position'[p] - ResumeAt(p)' <= Pending(buffers'[c][p])
  BY DEF RiskInv, Owns
<1>0. /\ position[p] \in Nat /\ committed[p] \in Nat \cup {NoOffset}
      /\ buffers[c][p] \in Buffer /\ Pending(buffers[c][p]) \in Nat
      /\ ResumeAt(p) \in Nat
      /\ ResumeAt(p) = IF committed[p] # NoOffset THEN committed[p] ELSE 0
      /\ ResumeAt(p)' = IF committed'[p] # NoOffset THEN committed'[p] ELSE 0
  <2>1. buffers[c][p] \in Buffer
    BY DEF TypeInv, TypeOK, ProcessType
  <2> QED
    BY <2>1, PendingHeld DEF TypeInv, TypeOK, BrokerType, ResumeAt
<1>1. owner[p] = c => position[p] - ResumeAt(p) <= Pending(buffers[c][p])
  BY DEF RiskInv, Owns
<1>2. ASSUME NEW d \in Consumers, d # c, Step(d) \/ Failure(d)
      PROVE  position'[p] - ResumeAt(p)' <= Pending(buffers'[c][p])
  <2>1. Apart(d)
    BY <1>2, StepApart
  <2>2. owner[p] = c /\ position'[p] = position[p] /\ buffers'[c] = buffers[c]
    BY <1>2, <2>1, NoneAssumption DEF Apart
  <2>3. committed'[p] = committed[p]
    BY <1>2, <2>2, OwnerCommits
  <2> QED
    BY <1>0, <1>1, <2>2, <2>3
<1>3. ASSUME UNCHANGED <<position, committed, owner>>, Pending(buffers'[c][p]) = Pending(buffers[c][p])
      PROVE  position'[p] - ResumeAt(p)' <= Pending(buffers'[c][p])
  BY <1>0, <1>1, <1>3
<1>4. ASSUME Raise(c), committed'[p] = committed[p] \/ committed'[p] = position[p]
      PROVE  position'[p] - ResumeAt(p)' <= Pending(buffers'[c][p])
  <2>1. ~Exit(c)
    BY ExitEffect
  <2>2. UNCHANGED <<buffers, owner, position>>
    BY <1>4, <2>1, RaiseEffect
  <2> QED
    BY <1>0, <1>1, <1>4, <2>2 DEF NoOffset
<1>5. ASSUME NEW q \in Partitions, PollMessage(c, q)
      PROVE  position'[p] - ResumeAt(p)' <= Pending(buffers'[c][p])
  <2>1. /\ UNCHANGED <<committed, owner>>
        /\ position' = [position EXCEPT ![q] = @ + 1]
    BY <1>5 DEF PollMessage
  <2>2. buffers[c][q].open \/ Held(buffers[c][q]) = {}
    BY DEF LandingInv, BufferInv
  <2>3. CASE p = q
    <3>1. position'[p] = position[p] + 1 /\ Pending(buffers'[c][p]) = Pending(buffers[c][p]) + 1
      BY <1>5, <2>1, <2>2, <2>3, PollEffect DEF TypeInv, TypeOK, BrokerType
    <3> QED
      BY <1>0, <1>1, <2>1, <3>1
  <2>4. CASE p # q
    <3>1. position'[p] = position[p] /\ buffers'[c][p] = buffers[c][p]
      BY <1>5, <2>1, <2>4, PollEffect DEF TypeInv, TypeOK, BrokerType
    <3> QED
      BY <1>0, <1>1, <2>1, <3>1
  <2> QED
    BY <2>3, <2>4
<1>6. CASE Commit(c)
  <2>1. Flushing(c)
    BY <1>6 DEF Commit, Flushing
  <2>2. PICK q \in Partitions : q = proc[c].cur
    BY <2>1, CurrentBatch
  <2>3. UNCHANGED <<position, owner>> /\ NextOffset(c) = position[q]
    BY <1>6, <2>1, <2>2, BatchBeforeCommit DEF Commit
  <2>4. CASE p = q
    <3>1. committed'[p] = position[p] /\ Pending(buffers'[c][p]) = 0
      BY <1>6, <2>2, <2>3, <2>4, CommitEffect, EmptyPending
    <3> QED
      BY <1>0, <2>3, <3>1 DEF NoOffset
  <2>5. CASE p # q
    <3>1. committed'[p] = committed[p] /\ buffers'[c][p] = buffers[c][p]
      BY <1>6, <2>2, <2>5, CommitEffect
    <3> QED
      BY <1>0, <1>1, <2>3, <3>1
  <2> QED
    BY <2>4, <2>5
<1>7. CASE FailCommit(c)
  <2>1. Flushing(c) /\ (Raise(c) \/ Exit(c))
    BY <1>7 DEF FailCommit, Flushing
  <2>2. Raise(c)
    BY <2>1, ExitEffect
  <2>3. PICK q \in Partitions : q = proc[c].cur
    BY <2>1, CurrentBatch
  <2>4. NextOffset(c) = position[q]
    BY <2>1, <2>3, BatchBeforeCommit
  <2>5. committed'[p] = committed[p] \/ committed'[p] = position[p]
    BY <1>7, <2>3, <2>4 DEF FailCommit, TypeInv, TypeOK, BrokerType
  <2> QED
    BY <1>4, <2>2, <2>5
<1>8. CASE Close(c) \/ PollRaises(c) \/ PoisonBronze(c) \/ PoisonQuarantine(c)
           \/ FailBronze(c) \/ FailQuarantine(c) \/ Crash(c)
  <2>1. UNCHANGED committed /\ (Raise(c) \/ Exit(c))
    BY <1>8 DEF Close, PollRaises, PoisonBronze, PoisonQuarantine,
           FailBronze, FailQuarantine, Crash
  <2> QED
    BY <1>4, <2>1, ExitEffect
<1>9. CASE \/ \E q \in Partitions : SweepVisit(c, q)
           \/ PollNone(c) \/ PollError(c) \/ LeaveLoop(c) \/ SweepDone(c)
           \/ WriteBronze(c) \/ WriteQuarantine(c) \/ Stop(c) \/ NextHour
           \/ (\E d \in Consumers : Start(d))
           \/ UNCHANGED vars
  <2>1. UNCHANGED <<position, committed, owner, buffers>>
    BY <1>9 DEF SweepVisit, PollNone, PollError, LeaveLoop, SweepDone, WriteBronze,
                WriteQuarantine, Stop, NextHour, Start, vars, brokerVars
  <2> QED
    BY <1>3, <2>1
<1>10. CASE Rebalance
  <2>1. position'[p] = ResumeAt(p) /\ UNCHANGED <<committed, buffers>>
    BY <1>10 DEF Rebalance
  <2> QED
    BY <1>0, <2>1
<1>11. ASSUME NEW q \in Partitions, Publish(q)
       PROVE  position'[p] - ResumeAt(p)' <= Pending(buffers'[c][p])
  <2>1. UNCHANGED <<position, committed, owner, buffers>>
    BY <1>11 DEF Publish
  <2> QED
    BY <1>3, <2>1
<1>12. ASSUME NEW d \in Consumers, NEW q \in Partitions, Age(d, q)
       PROVE  position'[p] - ResumeAt(p)' <= Pending(buffers'[c][p])
  <2>1. UNCHANGED <<position, committed, owner>> /\ buffers' = [buffers EXCEPT ![d][q].aged = TRUE]
    BY <1>12 DEF Age, brokerVars
  <2>2. /\ buffers'[c][p].records = buffers[c][p].records
        /\ buffers'[c][p].rejects = buffers[c][p].rejects
    BY <2>1 DEF TypeInv, TypeOK, ProcessType, Buffer
  <2> QED
    BY <1>3, <2>1, <2>2 DEF Pending
<1>13. CASE Environment
  BY <1>9, <1>10, <1>11, <1>12, <1>13 DEF Environment
<1>14. CASE Step(c)
  BY <1>5, <1>6, <1>8, <1>9, <1>14 DEF Step
<1>15. CASE Failure(c)
  BY <1>7, <1>8, <1>9, <1>15 DEF Failure
<1> QED
  BY <1>2, <1>9, <1>13, <1>14, <1>15 DEF Next

LEMMA InitRisk == Init => RiskInv
BY NoneAssumption DEF Init, RiskInv, Owns

LEMMA RiskAlways ==
  ASSUME Steady
  PROVE  GroupSpec => [](TypeInv /\ LandingInv /\ BatchInv /\ RiskInv)
<1>1. Init => RiskInv
  BY InitRisk
<1>2. TypeInv /\ LandingInv /\ RiskInv /\ [Next /\ HandOver]_vars => RiskInv'
  BY NextRisk DEF Steady
<1> QED
  BY <1>1, <1>2, LandingAlways, BatchAlways, GroupIsSpec, PTL DEF GroupSpec

\* A crash loses little work: whatever fails, and in whatever order the flushes come, a
\* process holds at most BATCH_ROWS messages of a partition that it has read and not
\* committed (consumer.py:44-46).
THEOREM BatchAtRisk ==
  ASSUME Steady
  PROVE  GroupSpec => []AtMostABatchAtRisk
<1>1. TypeInv /\ BatchInv /\ RiskInv => AtMostABatchAtRisk
  <2> SUFFICES ASSUME TypeInv, BatchInv, RiskInv, NEW c \in Consumers, NEW p \in Owns(c)
               PROVE  position[p] - ResumeAt(p) <= BatchRows
    BY DEF AtMostABatchAtRisk
  <2>1. p \in Partitions /\ buffers[c][p] \in Buffer
    BY DEF Owns, TypeInv, TypeOK, ProcessType
  <2>2. /\ position[p] - ResumeAt(p) <= Pending(buffers[c][p])
        /\ Pending(buffers[c][p]) <= BatchRows
    BY <2>1 DEF RiskInv, BatchInv, SizeInv
  <2>3. /\ position[p] \in Nat /\ ResumeAt(p) \in Int
        /\ Pending(buffers[c][p]) \in Nat /\ BatchRows \in Nat
    BY <2>1, PendingHeld, BoundsAssumption
      DEF TypeInv, TypeOK, BrokerType, ResumeAt, NoOffset
  <2> QED
    BY <2>2, <2>3
<1> QED
  BY <1>1, RiskAlways, PTL

\* A clean shutdown does not force a replay of work already done: a process that ends
\* without an exception has committed all it has read (consumer.py:257-258).
THEOREM CleanExit ==
  ASSUME Steady
  PROVE  GroupSpec => CleanExitCommitsAll
<1>1. TypeInv /\ BatchInv /\ RiskInv
         => \A c \in Consumers : Close(c) /\ ~proc[c].failed =>
               \A p \in Owns(c) : ResumeAt(p) >= position[p]
  <2> SUFFICES ASSUME TypeInv, BatchInv, RiskInv, NEW c \in Consumers,
                      Close(c), ~proc[c].failed, NEW p \in Owns(c)
               PROVE  ResumeAt(p) >= position[p]
    OBVIOUS
  <2>1. p \in Partitions /\ buffers[c][p] \in Buffer
    BY DEF Owns, TypeInv, TypeOK, ProcessType
  <2>2. proc[c].cur = None /\ proc[c].closing /\ proc[c].todo = {}
    BY DEF Close, TypeInv, TypeOK, ProcessType, Flushing
  <2>3. Held(buffers[c][p]) = {}
    BY <2>1, <2>2, NoneAssumption DEF BatchInv, DrainInv
  <2>4. Pending(buffers[c][p]) = 0
    BY <2>1, <2>3, PendingHeld
  <2>5. position[p] - ResumeAt(p) <= 0
    BY <2>4 DEF RiskInv
  <2>6. position[p] \in Nat /\ ResumeAt(p) \in Int
    BY <2>1 DEF TypeInv, TypeOK, BrokerType, ResumeAt, NoOffset
  <2> QED
    BY <2>5, <2>6
<1>2. TypeInv /\ BatchInv /\ RiskInv
         => [\A c \in Consumers : Close(c) /\ ~proc[c].failed =>
                \A p \in Owns(c) : ResumeAt(p) >= position[p]]_vars
  BY <1>1
<1>3. GroupSpec => [][\A c \in Consumers : Close(c) /\ ~proc[c].failed =>
                        \A p \in Owns(c) : ResumeAt(p) >= position[p]]_vars
  BY <1>2, RiskAlways, PTL
<1> QED
  BY <1>3 DEF CleanExitCommitsAll

-----------------------------------------------------------------------------
(* Calm: no row twice *)

\* A step that writes no object, commits nothing and keeps the rows of every buffer.
LEMMA QuietCalm ==
  ASSUME HeldAnew, WrittenInv, BronzeRowsUnique, UNCHANGED <<committed, bronze>>,
         \A c \in Consumers, p \in Partitions : Held(buffers'[c][p]) \subseteq Held(buffers[c][p]),
         \A c \in Consumers, p \in Partitions : WrittenBy(c, p) \subseteq WrittenBy(c, p)'
  PROVE  (HeldAnew /\ WrittenInv /\ BronzeRowsUnique)'
<1>1. HeldAnew'
  BY DEF HeldAnew
<1>2. WrittenInv'
  <2> SUFFICES ASSUME NEW p \in Partitions, NEW o \in Stored(bronze, p)
               PROVE  o < committed[p] \/ \E c \in Consumers : o \in WrittenBy(c, p)'
    BY DEF WrittenInv
  <2> QED
    BY DEF WrittenInv
<1>3. BronzeRowsUnique'
  BY DEF BronzeRowsUnique
<1> QED
  BY <1>1, <1>2, <1>3

\* A flush before its bronze write has nothing in bronze: only the owner of a
\* partition flushes it.
LEMMA NotYetWritten ==
  ASSUME TypeInv, LandingInv, HeldAnew, WrittenInv,
         NEW c \in Consumers, proc[c].pc = "bronze", NEW q \in Partitions, q = proc[c].cur
  PROVE  Rows(Current(c).records) \cap Stored(bronze, q) = {}
<1> SUFFICES ASSUME NEW o \in Rows(Current(c).records), o \in Stored(bronze, q) PROVE FALSE
  OBVIOUS
<1>1. committed[q] <= o
  BY DEF HeldAnew, Held, Current
<1>2. ASSUME NEW d \in Consumers, WroteBronze(d), proc[d].cur = q
      PROVE  FALSE
  <2>1. Flushing(c) /\ Flushing(d)
    BY <1>2 DEF Flushing, WroteBronze
  <2>2. owner[q] = c /\ owner[q] = d
    BY <1>2, <2>1, BatchBeforeCommit
  <2> QED
    BY <1>2, <2>2 DEF WroteBronze
<1>3. o < committed[q]
  BY <1>2 DEF WrittenInv, WrittenBy
<1>4. o \in Nat /\ committed[q] \in Int
  <2>1. Current(c) \in Buffer
    BY DEF Current, TypeInv, TypeOK, ProcessType
  <2> QED
    BY <2>1, PendingHeld DEF Held, TypeInv, TypeOK, BrokerType, NoOffset
<1> QED
  BY <1>1, <1>3, <1>4

LEMMA WriteCalm ==
  ASSUME TypeInv, LandingInv, HeldAnew, WrittenInv, BronzeRowsUnique,
         NEW c \in Consumers, WriteBronze(c)
  PROVE  (HeldAnew /\ WrittenInv /\ BronzeRowsUnique)'
<1>0. Flushing(c) /\ proc[c].pc = "bronze" /\ UNCHANGED <<buffers, committed, log>>
  BY DEF WriteBronze, Flushing, brokerVars
<1>1. PICK q \in Partitions : q = proc[c].cur
  BY <1>0, CurrentBatch
<1>2. PICK rows : rows = Current(c).records
  OBVIOUS
<1>3. proc'[c].pc = "quarantine" /\ proc'[c].cur = q
  BY <1>1 DEF WriteBronze, TypeInv, TypeOK, ProcessType, Process
<1>4. \A p \in Partitions : WrittenBy(c, p)' = IF p = q THEN Rows(rows) ELSE {}
  BY <1>0, <1>1, <1>2, <1>3 DEF WrittenBy, WroteBronze, Current
<1>5. ASSUME NEW d \in Consumers, NEW p \in Partitions
      PROVE  WrittenBy(d, p) \subseteq WrittenBy(d, p)'
  <2>1. CASE d = c
    BY <1>0, <2>1 DEF WrittenBy, WroteBronze
  <2>2. CASE d # c
    <3>1. proc'[d] = proc[d] /\ buffers'[d] = buffers[d]
      BY <2>2, StepOfOne DEF Step
    <3> QED
      BY <3>1 DEF WrittenBy, WroteBronze, Current
  <2> QED
    BY <2>1, <2>2
<1>6. CASE rows = <<>>
  <2>1. bronze' = bronze
    BY <1>2, <1>6 DEF WriteBronze
  <2> QED
    BY <1>0, <1>5, <2>1, QuietCalm
<1>7. CASE rows # <<>>
  <2>1. PICK k : k = BronzeKey(q, rows)
    OBVIOUS
  <2>2. bronze' = Put(bronze, k, rows)
    BY <1>1, <1>2, <1>7, <2>1 DEF WriteBronze
  <2>3. BufferInv(c, q)
    BY DEF LandingInv
  <2>4. k.part = q /\ HoldsBatch(k, rows, Records(q))
    BY <1>0, <1>1, <1>2, <1>7, <2>1, <2>3, BatchOfBuffer
  <2>5. /\ Rows(rows) \cap Stored(bronze, q) = {}
        /\ rows \in Seq(Nat) /\ Rows(rows) # {}
    <3>1. rows \in Seq(Nat)
      BY <1>0, <1>2, CurrentBatch
    <3> QED
      BY <1>0, <1>1, <1>2, <1>7, <3>1, NotYetWritten, RowsOfSeq
  <2>6. k \notin DOMAIN bronze
    <3> SUFFICES ASSUME k \in DOMAIN bronze PROVE FALSE
      OBVIOUS
    <3>1. HoldsBatch(k, bronze[k], Records(q))
      BY <2>4 DEF LandingInv, ObjectsInv
    <3>2. Rows(bronze[k]) = Rows(rows)
      BY <2>4, <3>1 DEF HoldsBatch
    <3> QED
      BY <2>4, <2>5, <3>2 DEF Stored
  <2>7. /\ DOMAIN bronze' = DOMAIN bronze \cup {k} /\ bronze'[k] = rows
        /\ \A l \in DOMAIN bronze : bronze'[l] = bronze[l] /\ l # k
    BY <2>2, <2>6 DEF Put
  <2>8. HeldAnew'
    BY <1>0 DEF HeldAnew
  <2>9. WrittenInv'
    <3> SUFFICES ASSUME NEW p \in Partitions, NEW o \in Stored(bronze', p)
                 PROVE  o < committed[p] \/ \E d \in Consumers : o \in WrittenBy(d, p)'
      BY <1>0 DEF WrittenInv
    <3>1. o \in Stored(bronze, p) \/ (p = q /\ o \in Rows(rows))
      BY <2>4, <2>7 DEF Stored
    <3> QED
      BY <1>4, <1>5, <3>1 DEF WrittenInv
  <2>10. BronzeRowsUnique'
    <3>1. \A l \in DOMAIN bronze : \A j \in 1 .. Len(bronze[l]) :
             l.part = q => bronze[l][j] \notin Rows(rows)
      <4> SUFFICES ASSUME NEW l \in DOMAIN bronze, NEW j \in 1 .. Len(bronze[l]), l.part = q
                   PROVE  bronze[l][j] \notin Rows(rows)
        OBVIOUS
      <4>1. bronze[l][j] \in Rows(bronze[l])
        BY DEF Rows
      <4>2. Rows(bronze[l]) \subseteq Stored(bronze, q)
        BY DEF Stored
      <4> QED
        BY <2>5, <4>1, <4>2
    <3>2. \A i, j \in 1 .. Len(rows) : rows[i] = rows[j] => i = j
      <4>1. \A i \in 1 .. Len(rows) : i \in Int /\ rows[i] \in Int
        BY <2>5
      <4> QED
        BY <2>4, <4>1 DEF HoldsBatch, Increasing
    <3>3. \A i \in 1 .. Len(rows) : rows[i] \in Rows(rows)
      BY DEF Rows
    <3> SUFFICES ASSUME NEW l \in DOMAIN bronze', NEW m \in DOMAIN bronze',
                        NEW i \in 1 .. Len(bronze'[l]), NEW j \in 1 .. Len(bronze'[m]),
                        l.part = m.part, bronze'[l][i] = bronze'[m][j]
                 PROVE  l = m /\ i = j
      BY DEF BronzeRowsUnique
    <3>4. CASE l = k /\ m = k
      BY <2>7, <3>2, <3>4
    <3>5. CASE l = k /\ m # k
      BY <2>4, <2>7, <3>1, <3>3, <3>5
    <3>6. CASE l # k /\ m = k
      BY <2>4, <2>7, <3>1, <3>3, <3>6
    <3>7. CASE l # k /\ m # k
      BY <2>7, <3>7 DEF BronzeRowsUnique
    <3> QED
      BY <3>4, <3>5, <3>6, <3>7
  <2> QED
    BY <2>8, <2>9, <2>10
<1> QED
  BY <1>6, <1>7

LEMMA CommitCalm ==
  ASSUME TypeInv, LandingInv, HeldAnew, WrittenInv, BronzeRowsUnique,
         NEW c \in Consumers, Commit(c)
  PROVE  (HeldAnew /\ WrittenInv /\ BronzeRowsUnique)'
<1>0. Flushing(c) /\ UNCHANGED bronze
  BY DEF Commit, Flushing, lakeVars
<1>1. PICK q \in Partitions : q = proc[c].cur
  BY <1>0, CurrentBatch
<1>2. owner[q] = c /\ NextOffset(c) = position[q]
  BY <1>0, <1>1, BatchBeforeCommit
<1>3. /\ Held(buffers'[c][q]) = {} /\ committed'[q] = NextOffset(c)
      /\ \A p \in Partitions : p # q => buffers'[c][p] = buffers[c][p] /\ committed'[p] = committed[p]
  BY <1>1, CommitEffect, NewBufferType
<1>o. \A d \in Consumers : d # c => proc'[d] = proc[d] /\ buffers'[d] = buffers[d]
  BY StepOfOne DEF Step
<1>4. HeldAnew'
  <2> SUFFICES ASSUME NEW d \in Consumers, NEW p \in Partitions, NEW o \in Held(buffers'[d][p])
               PROVE  committed'[p] <= o
    BY DEF HeldAnew
  <2>1. CASE d = c
    BY <1>3, <2>1 DEF HeldAnew
  <2>2. CASE d # c
    <3>1. p # q
      BY <1>2, <1>o, <2>2 DEF LandingInv, AssignmentInv
    <3> QED
      BY <1>3, <1>o, <2>2, <3>1 DEF HeldAnew
  <2> QED
    BY <2>1, <2>2
<1>5. committed[q] \in Int /\ NextOffset(c) \in Nat /\ committed[q] <= NextOffset(c)
  <2>1. position[q] \in Nat /\ committed[q] \in Int
    BY DEF TypeInv, TypeOK, BrokerType, NoOffset
  <2> QED
    BY <1>2, <2>1, NoneAssumption DEF LandingInv, CommitInv
<1>6. WrittenInv'
  <2> SUFFICES ASSUME NEW p \in Partitions, NEW o \in Stored(bronze, p)
               PROVE  o < committed'[p] \/ \E d \in Consumers : o \in WrittenBy(d, p)'
    BY <1>0 DEF WrittenInv
  <2>1. o < committed[p] \/ \E d \in Consumers : o \in WrittenBy(d, p)
    BY DEF WrittenInv
  <2>2. CASE p # q
    <3>1. \A d \in Consumers : WrittenBy(d, p) \subseteq WrittenBy(d, p)'
      BY <1>1, <1>o, <2>2 DEF WrittenBy, WroteBronze, Current
    <3> QED
      BY <1>3, <2>1, <2>2, <3>1
  <2>3. CASE p = q
    <3>1. ASSUME NEW d \in Consumers, o \in WrittenBy(d, p)
          PROVE  o \in Held(Current(c))
      <4>1. WroteBronze(d) /\ proc[d].cur = q /\ o \in Rows(Current(d).records)
        BY <2>3, <3>1 DEF WrittenBy
      <4>2. d = c
        BY <1>2, <4>1, BatchBeforeCommit DEF Flushing, WroteBronze
      <4> QED
        BY <4>1, <4>2 DEF Held
    <3>2. (\E d \in Consumers : o \in WrittenBy(d, p)) => o < NextOffset(c)
      BY <1>0, <3>1, CurrentBatch
    <3>3. o \in Int
      BY <2>3 DEF Stored, TypeInv, TypeOK, IsStore, Rows
    <3> QED
      BY <1>3, <1>5, <2>1, <2>3, <3>2, <3>3
  <2> QED
    BY <2>2, <2>3
<1>7. BronzeRowsUnique'
  BY <1>0 DEF BronzeRowsUnique
<1> QED
  BY <1>4, <1>6, <1>7

\* The log only grows: what is in it was of the same kind before, and stays there.
LEMMA MisnamedStays ==
  ASSUME TypeInv, [Next]_vars, NoneMisnamed'
  PROVE  NoneMisnamed
<1>0. log \in [Partitions -> Seq(Kinds)]
  BY DEF TypeInv, TypeOK, BrokerType
<1>1. CASE UNCHANGED log
  BY <1>1 DEF NoneMisnamed, Published, Kind
<1>2. ASSUME NEW q \in Partitions, Publish(q)
      PROVE  NoneMisnamed
  <2>1. PICK k \in Kinds : log' = [log EXCEPT ![q] = Append(@, k)]
    BY <1>2 DEF Publish
  <2>2. SUFFICES ASSUME NEW p \in Partitions, NEW o \in Published(p)
                 PROVE  Kind(p, o) # "misnamed"
    BY DEF NoneMisnamed
  <2>3. o \in 0 .. Len(log'[p]) - 1 /\ log'[p][o + 1] = log[p][o + 1]
    BY <1>0, <2>1, <2>2 DEF Published
  <2> QED
    BY <2>3 DEF NoneMisnamed, Published, Kind
<1>3. ASSUME NEW c \in Consumers, Step(c) \/ Failure(c)
      PROVE  UNCHANGED log
  BY <1>3, StepApart
<1>4. ASSUME Environment, ~\E q \in Partitions : Publish(q)
      PROVE  UNCHANGED log
  BY <1>4 DEF Environment, NextHour, Rebalance, Start, Age, brokerVars
<1> QED
  BY <1>1, <1>2, <1>3, <1>4 DEF Next, vars, brokerVars

\* What waits for the quarantine fits into it, as long as none is misnamed.
LEMMA AllFit ==
  ASSUME TypeInv, NoneMisnamed, NEW c \in Consumers, Flushing(c)
  PROVE  ~Unfit(c)
<1>1. PICK q \in Partitions : q = proc[c].cur
  BY CurrentBatch
<1>2. Rows(buffers[c][q].rejects) \subseteq Published(q)
  BY DEF TypeInv, FlushHasWork, OffsetsWithinLog, Held
<1> QED
  BY <1>1, <1>2 DEF Unfit, Current, NoneMisnamed

LEMMA NextCalm ==
  ASSUME TypeInv, LandingInv, CalmInv, [Next]_vars
  PROVE  CalmInv'
<1> SUFFICES ASSUME disruptions' = 0, NoneMisnamed'
             PROVE  (HeldAnew /\ WrittenInv /\ BronzeRowsUnique)'
  BY DEF CalmInv
<1>0. /\ disruptions \in Nat
      /\ proc \in [Consumers -> Process] /\ buffers \in [Consumers -> [Partitions -> Buffer]]
      /\ \A p \in Partitions : position[p] \in Nat
  BY DEF TypeInv, TypeOK, BrokerType, ProcessType, ClockType
<1>1. ~Disrupt
  BY <1>0 DEF Disrupt
<1>2. ASSUME disruptions = 0
      PROVE  HeldAnew /\ WrittenInv /\ BronzeRowsUnique
  BY <1>2, MisnamedStays DEF CalmInv
<1>3. ASSUME disruptions = 0, UNCHANGED <<committed, bronze>>, NEW c \in Consumers, ~WroteBronze(c),
             \A d \in Consumers : d # c => proc'[d] = proc[d] /\ buffers'[d] = buffers[d],
             \A p \in Partitions : Held(buffers'[c][p]) \subseteq Held(buffers[c][p])
      PROVE  (HeldAnew /\ WrittenInv /\ BronzeRowsUnique)'
  <2>1. \A d \in Consumers, p \in Partitions : WrittenBy(d, p) \subseteq WrittenBy(d, p)'
    BY <1>3 DEF WrittenBy, WroteBronze, Current
  <2>2. \A d \in Consumers, p \in Partitions : Held(buffers'[d][p]) \subseteq Held(buffers[d][p])
    BY <1>3
  <2> QED
    BY <1>2, <1>3, <2>1, <2>2, QuietCalm
<1>4. CASE NextHour \/ Rebalance \/ (\E p \in Partitions : Publish(p)) \/ UNCHANGED vars
  <2>1. UNCHANGED <<committed, bronze, proc, buffers, disruptions>>
    BY <1>4 DEF NextHour, Rebalance, Publish, vars, brokerVars, lakeVars, envVars
  <2> QED
    BY <1>2, <2>1, QuietCalm DEF WrittenBy, WroteBronze, Current
<1>5. ASSUME NEW c \in Consumers, Start(c)
      PROVE  (HeldAnew /\ WrittenInv /\ BronzeRowsUnique)'
  <2>1. /\ UNCHANGED <<committed, bronze, buffers, disruptions>> /\ ~WroteBronze(c)
        /\ \A d \in Consumers : d # c => proc'[d] = proc[d]
    BY <1>0, <1>5 DEF Start, WroteBronze, brokerVars, lakeVars, envVars
  <2> QED
    BY <1>3, <2>1
<1>6. ASSUME NEW c \in Consumers, NEW q \in Partitions, Age(c, q)
      PROVE  (HeldAnew /\ WrittenInv /\ BronzeRowsUnique)'
  <2>1. /\ UNCHANGED <<committed, bronze, proc, disruptions>>
        /\ buffers' = [buffers EXCEPT ![c][q].aged = TRUE]
    BY <1>6 DEF Age, brokerVars, lakeVars, envVars
  <2>2. \A d \in Consumers, p \in Partitions : /\ buffers'[d][p].records = buffers[d][p].records
                                              /\ buffers'[d][p].rejects = buffers[d][p].rejects
    BY <1>0, <2>1 DEF Buffer
  <2>3. \A d \in Consumers, p \in Partitions : Held(buffers'[d][p]) = Held(buffers[d][p])
    BY <2>2 DEF Held
  <2>4. \A d \in Consumers, p \in Partitions : WrittenBy(d, p) \subseteq WrittenBy(d, p)'
    BY <2>1, <2>2 DEF WrittenBy, WroteBronze, Current
  <2> QED
    BY <1>2, <2>1, <2>3, <2>4, QuietCalm
<1>7. ASSUME NEW c \in Consumers, NEW q \in Partitions, PollMessage(c, q)
      PROVE  (HeldAnew /\ WrittenInv /\ BronzeRowsUnique)'
  <2>1. /\ UNCHANGED <<committed, bronze, disruptions>> /\ ~WroteBronze(c) /\ owner[q] = c
    BY <1>7 DEF PollMessage, Polling, WroteBronze, lakeVars, envVars
  <2>2. \A d \in Consumers : d # c => proc'[d] = proc[d] /\ buffers'[d] = buffers[d]
    BY <1>7, StepOfOne DEF Step
  <2>3. buffers[c][q].open \/ Held(buffers[c][q]) = {}
    BY DEF LandingInv, BufferInv
  <2>4. /\ Held(buffers'[c][q]) = Held(buffers[c][q]) \cup {position[q]}
        /\ \A p \in Partitions : p # q => buffers'[c][p] = buffers[c][p]
    BY <1>7, <2>3, PollEffect
  <2>5. committed[q] <= position[q]
    BY <2>1, NoneAssumption DEF LandingInv, CommitInv
  <2>6. HeldAnew'
    BY <1>2, <2>1, <2>2, <2>4, <2>5 DEF HeldAnew
  <2>7. WrittenInv'
    <3>1. \A d \in Consumers, p \in Partitions : WrittenBy(d, p) \subseteq WrittenBy(d, p)'
      BY <2>1, <2>2 DEF WrittenBy, WroteBronze, Current
    <3> QED
      BY <1>2, <2>1, <3>1 DEF WrittenInv
  <2> QED
    BY <1>2, <2>1, <2>6, <2>7 DEF BronzeRowsUnique
<1>8. ASSUME NEW c \in Consumers,
             \/ \E q \in Partitions : SweepVisit(c, q)
             \/ PollNone(c) \/ PollError(c) \/ LeaveLoop(c) \/ SweepDone(c)
      PROVE  (HeldAnew /\ WrittenInv /\ BronzeRowsUnique)'
  <2>1. /\ UNCHANGED <<committed, bronze, buffers, disruptions>> /\ ~WroteBronze(c)
    BY <1>8 DEF SweepVisit, PollNone, PollError, LeaveLoop, SweepDone, Polling, WroteBronze,
                brokerVars, lakeVars, envVars
  <2>2. \A d \in Consumers : d # c => proc'[d] = proc[d]
    BY <1>8, StepOfOne DEF Step
  <2> QED
    BY <1>3, <2>1, <2>2
<1>9. ASSUME NEW c \in Consumers, Close(c) \/ PollRaises(c) \/ PoisonBronze(c)
      PROVE  (HeldAnew /\ WrittenInv /\ BronzeRowsUnique)'
  <2>1. /\ UNCHANGED <<committed, bronze, disruptions>> /\ ~WroteBronze(c)
        /\ Exit(c) \/ Raise(c)
    BY <1>9 DEF Close, PollRaises, Polling, PoisonBronze, WroteBronze, lakeVars, envVars
  <2>2. Exit(c) \/ UNCHANGED buffers
    BY <2>1, RaiseEffect
  <2>3. \A p \in Partitions : Held(buffers'[c][p]) \subseteq Held(buffers[c][p])
    BY <2>2, ExitEffect, NewBufferType
  <2>4. \A d \in Consumers : d # c => proc'[d] = proc[d] /\ buffers'[d] = buffers[d]
    BY <1>9, StepOfOne DEF Step
  <2> QED
    BY <1>3, <2>1, <2>3, <2>4
<1>10. ASSUME NEW c \in Consumers, WriteQuarantine(c)
       PROVE  (HeldAnew /\ WrittenInv /\ BronzeRowsUnique)'
  <2>1. /\ UNCHANGED <<committed, bronze, buffers, disruptions>>
        /\ proc'[c].pc = "commit" /\ proc'[c].cur = proc[c].cur
    BY <1>0, <1>10 DEF WriteQuarantine, Process, brokerVars, envVars
  <2>2. \A d \in Consumers : d # c => proc'[d] = proc[d]
    BY <1>10, StepOfOne DEF Step
  <2>3. \A d \in Consumers, p \in Partitions : WrittenBy(d, p) \subseteq WrittenBy(d, p)'
    BY <2>1, <2>2 DEF WrittenBy, WroteBronze, Current
  <2> QED
    BY <1>2, <2>1, <2>3, QuietCalm
<1>11. ASSUME NEW c \in Consumers, WriteBronze(c) \/ Commit(c)
       PROVE  (HeldAnew /\ WrittenInv /\ BronzeRowsUnique)'
  <2>1. UNCHANGED disruptions
    BY <1>11 DEF WriteBronze, Commit, envVars
  <2> QED
    BY <1>2, <1>11, <2>1, WriteCalm, CommitCalm
<1>12. ASSUME NEW c \in Consumers
       PROVE  ~Failure(c)
  BY <1>1 DEF Failure, FailBronze, FailQuarantine, FailCommit, Crash, Stop
<1>15. ASSUME NEW c \in Consumers
       PROVE  ~PoisonQuarantine(c)
  BY MisnamedStays, AllFit DEF PoisonQuarantine, Flushing
<1>13. ASSUME NEW c \in Consumers, Step(c)
       PROVE  (HeldAnew /\ WrittenInv /\ BronzeRowsUnique)'
  BY <1>7, <1>8, <1>9, <1>10, <1>11, <1>13, <1>15 DEF Step
<1>14. CASE Environment
  BY <1>4, <1>5, <1>6, <1>14 DEF Environment
<1> QED
  BY <1>4, <1>12, <1>13, <1>14 DEF Next

LEMMA InitCalm == Init => CalmInv
<1> SUFFICES ASSUME Init PROVE CalmInv
  OBVIOUS
<1>1. \A c \in Consumers, p \in Partitions : Held(buffers[c][p]) = {}
  BY NewBufferType DEF Init
<1>2. DOMAIN bronze = {}
  BY DEF Init
<1> QED
  BY <1>1, <1>2 DEF CalmInv, HeldAnew, WrittenInv, Stored, BronzeRowsUnique

\* Exactly as many rows as the producer sent: as long as nothing fails, no message has
\* two rows in bronze, over any number of idle exits, restarts and ingest hours
\* (tests/test_integration_consumer.py:176-184).
THEOREM CalmRowsUnique ==
  ASSUME Steady
  PROVE  GroupSpec => []BronzeRowsUniqueInCalm
<1>1. CalmInv => BronzeRowsUniqueInCalm
  BY DEF CalmInv, BronzeRowsUniqueInCalm
<1>2. Init => CalmInv
  BY InitCalm
<1>3. TypeInv /\ LandingInv /\ CalmInv /\ [Next /\ HandOver]_vars => CalmInv'
  BY NextCalm
<1> QED
  BY <1>1, <1>2, <1>3, LandingAlways, PTL DEF GroupSpec

-----------------------------------------------------------------------------
(* A group of one member, with no assumption on its steps *)

\* The one process of the group, which no rebalance interrupts while it is running.
Sole == SoleMember /\ Steady

\* All partitions are assigned or none is.
SoleInv == group # {} => \A p \in Partitions : owner[p] # None

\* Only a rebalance assigns partitions, and only an end takes them away.
LEMMA StepMembership ==
  ASSUME NEW c \in Consumers, Step(c) \/ Failure(c)
  PROVE  UNCHANGED <<group, owner>> \/ Leave(c)
<1>1. CASE Close(c) \/ PollRaises(c) \/ PoisonBronze(c) \/ PoisonQuarantine(c)
           \/ FailBronze(c) \/ FailQuarantine(c) \/ FailCommit(c) \/ Crash(c)
  BY <1>1 DEF Close, PollRaises, PoisonBronze, PoisonQuarantine,
         FailBronze, FailQuarantine, FailCommit, Crash, Raise, Exit
<1>2. ASSUME NEW q \in Partitions, PollMessage(c, q)
      PROVE  UNCHANGED <<group, owner>>
  BY <1>2 DEF PollMessage
<1>3. ASSUME NEW q \in Partitions, SweepVisit(c, q)
      PROVE  UNCHANGED <<group, owner>>
  BY <1>3 DEF SweepVisit, brokerVars
<1>4. CASE PollNone(c) \/ PollError(c) \/ LeaveLoop(c) \/ SweepDone(c)
  BY <1>4 DEF PollNone, PollError, LeaveLoop, SweepDone, brokerVars
<1>5. CASE WriteBronze(c) \/ WriteQuarantine(c) \/ Commit(c) \/ Stop(c)
  BY <1>5 DEF WriteBronze, WriteQuarantine, Commit, Stop, brokerVars
<1> QED
  BY <1>1, <1>2, <1>3, <1>4, <1>5 DEF Step, Failure

LEMMA SoleStep ==
  ASSUME SoleMember, TypeInv, SoleInv, [Next]_vars
  PROVE  SoleInv'
<1>1. CASE Rebalance
  <2>1. owner' \in [Partitions -> Live] /\ None \notin Live
    BY <1>1, NoneAssumption DEF Rebalance, Live
  <2> QED
    BY <2>1 DEF SoleInv
<1>2. ASSUME NEW c \in Consumers, Step(c) \/ Failure(c)
      PROVE  SoleInv'
  <2>1. CASE UNCHANGED <<group, owner>>
    BY <2>1 DEF SoleInv
  <2>2. CASE Leave(c)
    BY <2>2 DEF Leave, SoleInv, SoleMember, TypeInv, TypeOK, BrokerType
  <2> QED
    BY <1>2, <2>1, <2>2, StepMembership
<1>3. CASE (Environment /\ ~Rebalance) \/ UNCHANGED vars
  <2>1. UNCHANGED <<group, owner>>
    BY <1>3 DEF Environment, NextHour, Publish, Start, Age, vars, brokerVars
  <2> QED
    BY <2>1 DEF SoleInv
<1> QED
  BY <1>1, <1>2, <1>3 DEF Next

\* The coordinator gives the partitions of a sole member to nobody else, and none back
\* to it before it has ended: when it assigns them, no process holds anything.
LEMMA SoleHandsOver ==
  ASSUME SoleMember, TypeInv, LandingInv, SoleInv, [Next]_vars
  PROVE  [Next /\ HandOver]_vars
<1> SUFFICES ASSUME Rebalance PROVE HandOver
  BY DEF HandOver
<1>1. group = {}
  <2>1. ~(rebalances < MaxRebalances)
    BY BoundsAssumption DEF SoleMember, TypeInv, TypeOK, ClockType
  <2>2. group # Live \/ \E p \in Partitions : owner[p] = None
    BY <2>1 DEF Rebalance
  <2>3. group \subseteq Live /\ \A c, d \in Live : c = d
    BY DEF LandingInv, AssignmentInv, SoleMember, Live
  <2> QED
    BY <2>2, <2>3 DEF SoleInv
<1>2. \A p \in Partitions : owner[p] = None
  BY <1>1 DEF LandingInv, AssignmentInv
<1> QED
  BY <1>2, NoneAssumption DEF HandOver, LandingInv, AssignmentInv

\* A sole member needs no such assumption: whatever it does, and whatever happens to
\* it, its partitions change hands only when nothing is held.
THEOREM SoleMemberHandsOver ==
  ASSUME Sole
  PROVE  Spec => GroupSpec
<1>1. Init => TypeInv /\ LandingInv /\ SoleInv
  BY InitTypeInv, InitLandingInv DEF Init, SoleInv
<1>2. TypeInv /\ LandingInv /\ SoleInv /\ [Next]_vars => [Next /\ HandOver]_vars
  BY SoleHandsOver DEF Sole
<1>3. TypeInv /\ LandingInv /\ SoleInv /\ [Next]_vars => TypeInv' /\ LandingInv' /\ SoleInv'
  BY <1>2, NextTypeInv, NextLanding, SoleStep DEF Sole
<1> QED
  BY <1>1, <1>2, <1>3, PTL DEF Spec, GroupSpec

\* So all of the above holds of it.
THEOREM OneMember ==
  ASSUME Sole
  PROVE  Spec => /\ []CommittedIsDurable /\ []BufferedIsRedelivered /\ []KeyDeterminesRows
                 /\ []AtMostABatchAtRisk /\ []BronzeRowsUniqueInCalm
                 /\ CommittedNeverRegresses /\ CleanExitCommitsAll /\ ImplementsLanding
<1> SUFFICES GroupSpec => /\ []CommittedIsDurable /\ []BufferedIsRedelivered /\ []KeyDeterminesRows
                          /\ []AtMostABatchAtRisk /\ []BronzeRowsUniqueInCalm
                          /\ CommittedNeverRegresses /\ CleanExitCommitsAll /\ ImplementsLanding
  BY SoleMemberHandsOver
<1> QED
  BY NoLoss, HeldIsRedelivered, NamesFixRows, BatchAtRisk, CalmRowsUnique, CommitNeverRegresses,
     CleanExit, RefinesLanding DEF Sole

=============================================================================
