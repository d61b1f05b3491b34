--------------------------- MODULE ProducerProofs ---------------------------
(* Proofs for Producer: what is handed to the client is accounted for. *)
EXTENDS Producer, FiniteSetTheorems, TLAPS

-----------------------------------------------------------------------------
(* The inductive invariant *)

Outcome == [line : Nat, ok : BOOLEAN]

\* How many lines of this run have left the queue.
Settled == sent - Len(queue)

TypeInv ==
    /\ file \in Seq(LineKinds) /\ skipCheck \in BOOLEAN
    /\ pc \in {"check", "publish", "flush", "exited"}
    /\ line \in 1 .. (Len(file) + 1)
    /\ sent \in Nat /\ failed \in Nat /\ runs \in Nat \ {0}
    /\ queue \in Seq(Nat) /\ reports \in Seq(Outcome) /\ topic \in Seq(Nat \X Nat)

\* The queue holds the last lines read, in order, and the run has not begun before its gate.
QueueInv ==
    /\ sent = line - 1 /\ Len(queue) <= sent
    /\ \A i \in 1 .. Len(queue) : queue[i] = Settled + i
    /\ pc = "check" => sent = 0 /\ failed = 0 /\ reports = <<>>

\* The lines of a run r on a topic t, and a topic that ends with the first n lines of r.
Shown(t, r) == {t[i][2] : i \in {j \in DOMAIN t : t[j][1] = r}}
EndsWith(t, r, n) ==
    /\ n <= Len(t)
    /\ \A i \in 1 .. (Len(t) - n) : t[i][1] < r
    /\ \A m \in 1 .. n : t[(Len(t) - n) + m] = <<r, m>>

\* Every settled line is on the topic, as an acknowledged one or not, or has failed.
AccountInv ==
    /\ \A i \in DOMAIN topic : topic[i][1] <= runs
    /\ OnTopic \subseteq 1 .. Settled /\ lostAcks \subseteq OnTopic
    /\ Settled = Cardinality(OnTopic \ lostAcks) + failed + Bad(reports)

\* As long as nothing has failed, the topic ends with the settled lines, in order.
OrderInv ==
    failed = 0 /\ Bad(reports) = 0 => EndsWith(topic, runs, Settled)

\* Success is only said when nothing has failed that was reported.
ExitInv == pc = "exited" /\ exit = 0 => failed = 0 /\ Bad(reports) = 0

PublishInv == TypeInv /\ QueueInv /\ AccountInv /\ OrderInv /\ ExitInv

-----------------------------------------------------------------------------
(* Counting reports and lines *)

LEMMA BadType ==
    ASSUME NEW list \in Seq(Outcome)
    PROVE  /\ Bad(list) \in Nat /\ IsFiniteSet({i \in DOMAIN list : list[i].ok = FALSE})
           /\ Bad(<<>>) = 0
<1>1. IsFiniteSet(1 .. Len(list)) /\ DOMAIN list = 1 .. Len(list)
  BY FS_Interval
<1>2. {i \in DOMAIN list : list[i].ok = FALSE} \subseteq 1 .. Len(list)
  BY <1>1
<1>3. IsFiniteSet({i \in DOMAIN list : list[i].ok = FALSE})
  BY <1>1, <1>2, FS_Subset
<1>4. {i \in DOMAIN <<>> : <<>>[i].ok = FALSE} = {}
  OBVIOUS
<1> QED
  BY <1>3, <1>4, FS_CardinalityType, FS_EmptySet DEF Bad

LEMMA BadAppend ==
    ASSUME NEW list \in Seq(Outcome), NEW n \in Nat, NEW ok \in BOOLEAN
    PROVE  /\ Append(list, [line |-> n, ok |-> ok]) \in Seq(Outcome)
           /\ ok = FALSE => Bad(Append(list, [line |-> n, ok |-> ok])) = Bad(list) + 1
           /\ ok = TRUE => Bad(Append(list, [line |-> n, ok |-> ok])) = Bad(list)
<1> DEFINE r == [line |-> n, ok |-> ok]
<1> DEFINE after == Append(list, r)
<1> DEFINE Wrong(l) == {i \in DOMAIN l : l[i].ok = FALSE}
<1>1. r \in Outcome /\ r.ok = ok
  BY DEF Outcome
<1> HIDE DEF r
<1>2. /\ after \in Seq(Outcome) /\ DOMAIN after = DOMAIN list \cup {Len(list) + 1}
      /\ after[Len(list) + 1] = r /\ \A i \in DOMAIN list : after[i] = list[i]
      /\ Len(list) + 1 \notin DOMAIN list
  BY <1>1
<1> HIDE DEF after
<1>3. ok = FALSE => Wrong(after) = Wrong(list) \cup {Len(list) + 1}
  BY <1>1, <1>2
<1>4. ok = TRUE => Wrong(after) = Wrong(list)
  BY <1>1, <1>2
<1>5. Len(list) + 1 \notin Wrong(list)
  BY <1>2
<1>6. IsFiniteSet(Wrong(list)) /\ Cardinality(Wrong(list)) \in Nat
  BY BadType DEF Bad
<1>7. Cardinality(Wrong(list) \cup {Len(list) + 1}) = Cardinality(Wrong(list)) + 1
  BY <1>5, <1>6, FS_AddElement
<1>8. ok = FALSE => Bad(after) = Bad(list) + 1
  BY <1>3, <1>7 DEF Bad
<1>9. ok = TRUE => Bad(after) = Bad(list)
  BY <1>4 DEF Bad
<1> QED
  BY <1>2, <1>8, <1>9 DEF after, r

\* The line at the head of the queue, and what is on the topic with it.
LEMMA HeadOfQueue ==
    ASSUME TypeInv, QueueInv, queue # <<>>
    PROVE  /\ Head(queue) = Settled + 1 /\ Head(queue) \in Nat /\ Settled \in Nat
           /\ Tail(queue) \in Seq(Nat) /\ Len(Tail(queue)) = Len(queue) - 1
           /\ \A i \in 1 .. Len(Tail(queue)) : Tail(queue)[i] = queue[i + 1]
<1>1. queue \in Seq(Nat) /\ Len(queue) \in Nat \ {0} /\ Head(queue) = queue[1]
  BY DEF TypeInv
<1>2. Settled \in Nat
  BY <1>1 DEF TypeInv, QueueInv, Settled
<1>3. queue[1] = Settled + 1
  BY <1>1 DEF QueueInv
<1> QED
  BY <1>1, <1>2, <1>3

\* A topic with one message more.
LEMMA TopicGrows ==
    ASSUME NEW t \in Seq(Nat \X Nat), NEW r \in Nat, NEW n \in Nat
    PROVE  /\ Append(t, <<r, n>>) \in Seq(Nat \X Nat)
           /\ Len(Append(t, <<r, n>>)) = Len(t) + 1 /\ Append(t, <<r, n>>)[Len(t) + 1] = <<r, n>>
           /\ \A i \in 1 .. Len(t) : Append(t, <<r, n>>)[i] = t[i]
           /\ Shown(Append(t, <<r, n>>), r) = Shown(t, r) \cup {n}
<1>1. PICK u : u = Append(t, <<r, n>>)
  OBVIOUS
<1>2. PICK pair \in Nat \X Nat : pair = <<r, n>>
  OBVIOUS
<1>3. /\ u \in Seq(Nat \X Nat) /\ Len(u) = Len(t) + 1
      /\ u[Len(t) + 1] = pair
      /\ \A i \in 1 .. Len(t) : u[i] = t[i]
      /\ DOMAIN u = 1 .. (Len(t) + 1) /\ DOMAIN t = 1 .. Len(t) /\ Len(t) \in Nat
  BY <1>1, <1>2
<1>4. pair[1] = r /\ pair[2] = n
  BY <1>2
<1>5. ASSUME NEW x \in Shown(u, r)
      PROVE  x \in Shown(t, r) \cup {n}
  <2>1. PICK i \in DOMAIN u : u[i][1] = r /\ x = u[i][2]
    BY <1>5 DEF Shown
  <2>2. CASE i = Len(t) + 1
    BY <2>1, <2>2, <1>3, <1>4
  <2>3. CASE i \in 1 .. Len(t)
    BY <2>1, <2>3, <1>3 DEF Shown
  <2> QED
    BY <2>1, <2>2, <2>3, <1>3
<1>6. ASSUME NEW x \in Shown(t, r)
      PROVE  x \in Shown(u, r)
  <2>1. PICK i \in DOMAIN t : t[i][1] = r /\ x = t[i][2]
    BY <1>6 DEF Shown
  <2>2. i \in DOMAIN u /\ u[i] = t[i]
    BY <2>1, <1>3
  <2> QED
    BY <2>1, <2>2 DEF Shown
<1>7. n \in Shown(u, r)
  <2>1. Len(t) + 1 \in DOMAIN u /\ u[Len(t) + 1][1] = r /\ u[Len(t) + 1][2] = n
    BY <1>3, <1>4
  <2> QED
    BY <2>1 DEF Shown
<1>8. Shown(u, r) = Shown(t, r) \cup {n}
  BY <1>5, <1>6, <1>7
<1> QED
  BY <1>1, <1>2, <1>3, <1>8

\* The next line in order keeps the order.
LEMMA OrderGrows ==
    ASSUME NEW t \in Seq(Nat \X Nat), NEW r \in Nat, NEW n \in Nat, EndsWith(t, r, n)
    PROVE  EndsWith(Append(t, <<r, n + 1>>), r, n + 1)
<1>1. PICK u : u = Append(t, <<r, n + 1>>)
  OBVIOUS
<1>2. /\ Len(u) = Len(t) + 1 /\ u[Len(t) + 1] = <<r, n + 1>>
      /\ \A i \in 1 .. Len(t) : u[i] = t[i]
      /\ Len(t) \in Nat
  BY <1>1, TopicGrows
<1>3. PICK b \in Nat : b = Len(t) - n
  BY <1>2 DEF EndsWith
<1>7. b + n = Len(t) /\ Len(t) \in Nat
  BY <1>2, <1>3
<1>4. n + 1 <= Len(u) /\ Len(u) - (n + 1) = b
  BY <1>2, <1>3
<1>0. /\ \A i \in 1 .. b : t[i][1] < r
      /\ \A m \in 1 .. n : t[b + m] = <<r, m>>
  BY <1>3 DEF EndsWith
<1>5. ASSUME NEW i \in 1 .. b
      PROVE  u[i][1] < r
  <2>1. i \in 1 .. Len(t)
    BY <1>2, <1>3
  <2> QED
    BY <2>1, <1>0, <1>2
<1>6. ASSUME NEW m \in 1 .. (n + 1)
      PROVE  u[b + m] = <<r, m>>
  <2>1. CASE m = n + 1
    BY <2>1, <1>2, <1>3
  <2>2. CASE m \in 1 .. n
    <3>1. b + m \in 1 .. Len(t)
      BY <2>2, <1>7
    <3> QED
      BY <3>1, <2>2, <1>0, <1>2
  <2> QED
    BY <2>1, <2>2
<1>8. EndsWith(u, r, n + 1)
  BY <1>4, <1>5, <1>6 DEF EndsWith
<1> QED
  BY <1>1, <1>8

-----------------------------------------------------------------------------
(* The steps *)

LEMMA InitPublish == Init => PublishInv
<1> SUFFICES ASSUME Init PROVE PublishInv
  OBVIOUS
<1>1. file \in Seq(LineKinds) /\ Len(file) \in Nat
  BY ProducerAssumption DEF Init, BoundedSeq, SeqOf
<1>2. TypeInv
  BY <1>1 DEF Init, TypeInv
<1>3. Settled = 0
  <2>1. sent = 0 /\ Len(queue) = 0
    BY DEF Init
  <2> QED
    BY <2>1 DEF Settled
<1>4. Bad(reports) = 0
  <2>1. reports = <<>> /\ <<>> \in Seq(Outcome)
    BY DEF Init
  <2> QED
    BY <2>1, BadType
<1>5. OnTopic = {} /\ OnTopic \ lostAcks = {}
  BY DEF Init, OnTopic
<1>6. Cardinality(OnTopic \ lostAcks) = 0
  BY <1>5, FS_EmptySet
<1>7. QueueInv
  BY DEF Init, QueueInv
<1>8. AccountInv
  BY <1>3, <1>4, <1>5, <1>6 DEF Init, AccountInv
<1>9. OrderInv
  BY <1>3 DEF Init, OrderInv, EndsWith
<1> QED
  BY <1>2, <1>7, <1>8, <1>9 DEF PublishInv, ExitInv, Init

LEMMA AcknowledgedAreFinite ==
    ASSUME PublishInv
    PROVE  /\ IsFiniteSet(OnTopic \ lostAcks) /\ Settled \in Nat
           /\ \E c \in Nat : /\ c = Cardinality(OnTopic \ lostAcks)
                            /\ Settled = c + failed + Bad(reports)
<1>1. Settled \in Nat
  BY DEF PublishInv, TypeInv, QueueInv, Settled
<1>2. IsFiniteSet(1 .. Settled)
  BY <1>1, FS_Interval
<1>3. OnTopic \ lostAcks \subseteq 1 .. Settled
  BY DEF PublishInv, AccountInv
<1>4. IsFiniteSet(OnTopic \ lostAcks) /\ Cardinality(OnTopic \ lostAcks) \in Nat
  BY <1>2, <1>3, FS_Subset, FS_CardinalityType
<1>5. Settled = Cardinality(OnTopic \ lostAcks) + failed + Bad(reports)
  BY DEF PublishInv, AccountInv
<1> QED
  BY <1>1, <1>4, <1>5

\* Serving reports moves failures from the reports to the count.
LEMMA ServeCounts ==
    ASSUME TypeInv, Serve \/ UNCHANGED <<reports, failed>>
    PROVE  /\ reports' \in Seq(Outcome) /\ failed' \in Nat
           /\ Bad(reports) \in Nat /\ Bad(reports') \in Nat
           /\ failed' + Bad(reports') = failed + Bad(reports)
<1>1. reports \in Seq(Outcome) /\ failed \in Nat /\ Bad(reports) \in Nat
  BY BadType DEF TypeInv
<1>2. CASE UNCHANGED <<reports, failed>>
  BY <1>1, <1>2
<1>3. CASE Serve
  <2>1. reports' = <<>> /\ <<>> \in Seq(Outcome) /\ failed' = failed + Bad(reports)
    BY <1>3 DEF Serve
  <2>2. Bad(<<>>) = 0
    BY <2>1, BadType
  <2> QED
    BY <1>1, <2>1, <2>2
<1> QED
  BY <1>2, <1>3

\* A step that neither settles a line nor touches the topic.
LEMMA NothingSettled ==
    ASSUME PublishInv, UNCHANGED <<topic, lostAcks, runs>>, Settled' = Settled,
           Serve \/ UNCHANGED <<reports, failed>>
    PROVE  AccountInv' /\ OrderInv'
<1>1. /\ failed \in Nat /\ failed' \in Nat /\ Bad(reports) \in Nat /\ Bad(reports') \in Nat
      /\ failed' + Bad(reports') = failed + Bad(reports)
  BY ServeCounts DEF PublishInv, TypeInv
<1>2. OnTopic' = OnTopic /\ lostAcks' = lostAcks /\ topic' = topic /\ runs' = runs
  BY DEF OnTopic
<1>3. Cardinality(OnTopic \ lostAcks) + failed + Bad(reports)
        = Cardinality(OnTopic \ lostAcks) + failed' + Bad(reports')
  <2>1. PICK c \in Nat : c = Cardinality(OnTopic \ lostAcks)
    BY AcknowledgedAreFinite
  <2>2. c + failed + Bad(reports) = c + failed' + Bad(reports')
    BY <1>1
  <2> QED
    BY <2>1, <2>2
<1>4. AccountInv'
  BY <1>2, <1>3 DEF PublishInv, AccountInv
<1>5. failed' = 0 /\ Bad(reports') = 0 => failed = 0 /\ Bad(reports) = 0
  BY <1>1
<1>6. OrderInv'
  BY <1>2, <1>5 DEF PublishInv, OrderInv, EndsWith
<1> QED
  BY <1>4, <1>6

\* The gate, the end of the file and the ways out touch nothing but the control.
LEMMA ControlStep ==
    ASSUME PublishInv, CheckContract \/ CheckOnly \/ Raise \/ EndOfFile \/ FlushDone \/ FlushTimeout
    PROVE  PublishInv'
<1>1. /\ UNCHANGED <<file, skipCheck, line, sent, failed, queue, reports, topic, lostAcks, runs>>
      /\ pc' \in {"publish", "flush", "exited"}
  BY DEF CheckContract, CheckOnly, Raise, EndOfFile, FlushDone, FlushTimeout, Exit
<1>2. Settled' = Settled
  BY <1>1 DEF Settled
<1>3. TypeInv'
  BY <1>1 DEF PublishInv, TypeInv
<1>4. QueueInv'
  BY <1>1, <1>2 DEF PublishInv, QueueInv
<1>5. AccountInv' /\ OrderInv'
  BY <1>1, <1>2, NothingSettled
<1>6. ASSUME pc' = "exited", exit' = 0
      PROVE  failed = 0 /\ Bad(reports) = 0
  <2>1. reports \in Seq(Outcome) /\ queue \in Seq(Nat) /\ failed \in Nat
    BY DEF PublishInv, TypeInv
  <2>2. failed = 0 /\ reports = <<>>
    <3>1. CASE CheckContract
      BY <3>1, <1>6 DEF CheckContract, Exit
    <3>2. CASE CheckOnly
      BY <3>2 DEF CheckOnly, PublishInv, QueueInv
    <3>3. CASE Raise
      BY <3>3, <1>6 DEF Raise, Exit
    <3>4. CASE EndOfFile
      BY <3>4, <1>6 DEF EndOfFile
    <3>5. CASE FlushDone
      <4>1. Len(queue) + Len(reports) = 0 /\ ~(failed > 0)
        BY <3>5, <1>6 DEF FlushDone, Exit, ExitCode, InClient
      <4> QED
        BY <4>1, <2>1
    <3>6. CASE FlushTimeout
      <4>1. reports = <<>> /\ ~(failed > 0)
        BY <3>6, <1>6 DEF FlushTimeout, TimeIsOver, Exit, ExitCode
      <4> QED
        BY <4>1, <2>1
    <3> QED
      BY <3>1, <3>2, <3>3, <3>4, <3>5, <3>6
  <2> QED
    BY <2>1, <2>2, BadType
<1>7. ExitInv'
  BY <1>1, <1>6 DEF ExitInv
<1> QED
  BY <1>3, <1>4, <1>5, <1>7 DEF PublishInv

LEMMA ProduceStep ==
    ASSUME PublishInv, Produce
    PROVE  PublishInv'
<1>1. /\ pc = "publish" /\ line \in Nat \ {0} /\ line <= Len(file) /\ file \in Seq(LineKinds)
      /\ queue \in Seq(Nat) /\ sent \in Nat
      /\ queue' = Append(queue, line) /\ line' = line + 1 /\ sent' = sent + 1
      /\ UNCHANGED <<file, skipCheck, pc, topic, lostAcks, exit, runs>>
  BY DEF Produce, PublishInv, TypeInv
<1>2. Serve \/ UNCHANGED <<reports, failed>>
  BY DEF Produce
<1>3. /\ queue' \in Seq(Nat) /\ Len(queue') = Len(queue) + 1 /\ Len(queue) \in Nat
      /\ \A i \in 1 .. Len(queue) : queue'[i] = queue[i]
      /\ queue'[Len(queue) + 1] = line
  BY <1>1
<1>4. /\ sent = line - 1 /\ Len(queue) <= sent
      /\ \A i \in 1 .. Len(queue) : queue[i] = (sent - Len(queue)) + i
  BY DEF PublishInv, QueueInv, Settled
<1>5. sent' - Len(queue') = sent - Len(queue)
  BY <1>1, <1>3
<1>6. Settled' = Settled
  BY <1>5 DEF Settled
<1>7. reports' \in Seq(Outcome) /\ failed' \in Nat
  BY <1>2, ServeCounts DEF PublishInv
<1>8. TypeInv'
  BY <1>1, <1>3, <1>7 DEF PublishInv, TypeInv
<1>9. \A i \in 1 .. (Len(queue) + 1) : queue'[i] = (sent - Len(queue)) + i
  BY <1>1, <1>3, <1>4
<1>10. QueueInv'
  BY <1>1, <1>3, <1>4, <1>5, <1>9 DEF QueueInv, Settled
<1>11. AccountInv' /\ OrderInv'
  BY <1>1, <1>2, <1>6, NothingSettled
<1> QED
  BY <1>1, <1>8, <1>10, <1>11 DEF PublishInv, ExitInv

LEMMA FlushServeStep ==
    ASSUME PublishInv, FlushServe
    PROVE  PublishInv'
<1>1. /\ pc = "flush" /\ Serve
      /\ UNCHANGED <<file, skipCheck, pc, line, sent, queue, topic, lostAcks, exit, runs>>
  BY DEF FlushServe
<1>2. Settled' = Settled
  BY <1>1 DEF Settled
<1>3. reports' \in Seq(Outcome) /\ failed' \in Nat
  BY <1>1, ServeCounts DEF PublishInv
<1>4. TypeInv'
  BY <1>1, <1>3 DEF PublishInv, TypeInv
<1>5. QueueInv'
  BY <1>1, <1>2 DEF PublishInv, QueueInv
<1>6. AccountInv' /\ OrderInv'
  BY <1>1, <1>2, NothingSettled
<1> QED
  BY <1>1, <1>4, <1>5, <1>6 DEF PublishInv, ExitInv

\* A line leaves the queue; what the two outcomes have in common.
LEMMA LeavesQueue ==
    ASSUME PublishInv, Running, queue # <<>>, queue' = Tail(queue), NEW ok \in BOOLEAN,
           reports' = Report(Head(queue), ok),
           UNCHANGED <<file, skipCheck, pc, line, sent, failed, exit, runs>>,
           topic' \in Seq(Nat \X Nat)
    PROVE  TypeInv' /\ QueueInv' /\ ExitInv' /\ Settled' = Settled + 1
<1>1. /\ Head(queue) \in Nat /\ Tail(queue) \in Seq(Nat) /\ Len(Tail(queue)) = Len(queue) - 1
      /\ \A i \in 1 .. Len(Tail(queue)) : Tail(queue)[i] = queue[i + 1]
      /\ Settled \in Nat
  BY HeadOfQueue DEF PublishInv
<1>2. reports' \in Seq(Outcome)
  BY <1>1, BadAppend DEF Report, PublishInv, TypeInv
<1>3. TypeInv'
  BY <1>1, <1>2 DEF PublishInv, TypeInv
<1>4. Settled' = Settled + 1
  BY <1>1 DEF Settled, PublishInv, TypeInv
<1>5. Len(queue) \in Nat \ {0}
  BY DEF PublishInv, TypeInv
<1>6. ASSUME NEW i \in 1 .. Len(queue')
      PROVE  queue'[i] = Settled + 1 + i
  <2>1. i \in Nat /\ i + 1 \in 1 .. Len(queue) /\ queue'[i] = queue[i + 1]
    BY <1>1, <1>5
  <2>2. queue[i + 1] = Settled + (i + 1)
    BY <2>1 DEF PublishInv, QueueInv
  <2> QED
    BY <2>1, <2>2, <1>1
<1>7. QueueInv'
  BY <1>1, <1>4, <1>5, <1>6 DEF PublishInv, QueueInv, TypeInv, Running
<1> QED
  BY <1>3, <1>4, <1>7 DEF Running, ExitInv

LEMMA DeliverStep ==
    ASSUME PublishInv, Deliver
    PROVE  PublishInv'
<1>1. /\ Running /\ queue # <<>> /\ queue' = Tail(queue) /\ reports' = Report(Head(queue), TRUE)
      /\ UNCHANGED <<file, skipCheck, pc, line, sent, failed, exit, runs>>
      /\ lostAcks' = lostAcks
  BY DEF Deliver
<1>2. PICK h \in Nat : h = Head(queue) /\ h = Settled + 1
  BY <1>1, HeadOfQueue DEF PublishInv
<1>3. topic' = Append(topic, <<runs, h>>) /\ topic \in Seq(Nat \X Nat) /\ runs \in Nat
  BY <1>2 DEF Deliver, PublishInv, TypeInv
<1>4. /\ topic' \in Seq(Nat \X Nat) /\ Len(topic') = Len(topic) + 1
      /\ topic'[Len(topic) + 1] = <<runs, h>>
      /\ \A i \in 1 .. Len(topic) : topic'[i] = topic[i]
      /\ Shown(topic', runs) = Shown(topic, runs) \cup {h}
  BY <1>2, <1>3, TopicGrows
<1>5. TypeInv' /\ QueueInv' /\ ExitInv' /\ Settled' = h
  BY <1>1, <1>2, <1>4, LeavesQueue
<1>6. OnTopic' = OnTopic \cup {h}
  BY <1>1, <1>4 DEF OnTopic, Shown
<1>7. Settled \in Nat /\ OnTopic \subseteq 1 .. Settled /\ lostAcks \subseteq OnTopic
  BY AcknowledgedAreFinite DEF PublishInv, AccountInv
<1>8. h \notin OnTopic /\ OnTopic' \ lostAcks' = (OnTopic \ lostAcks) \cup {h}
  BY <1>1, <1>2, <1>6, <1>7
<1>9. PICK c \in Nat : /\ Cardinality(OnTopic' \ lostAcks') = c + 1
                       /\ Settled = c + failed + Bad(reports)
  <2>1. PICK c \in Nat : c = Cardinality(OnTopic \ lostAcks) /\ Settled = c + failed + Bad(reports)
    BY AcknowledgedAreFinite
  <2>2. Cardinality(OnTopic' \ lostAcks') = c + 1
    BY <1>8, <2>1, AcknowledgedAreFinite, FS_AddElement
  <2> QED
    BY <2>1, <2>2
<1>10. Bad(reports') = Bad(reports) /\ Bad(reports) \in Nat /\ failed \in Nat
  BY <1>1, <1>2, BadAppend, BadType DEF Report, PublishInv, TypeInv
<1>11. AccountInv'
  <2>1. \A i \in DOMAIN topic' : topic'[i][1] <= runs'
    BY <1>1, <1>3, <1>4 DEF PublishInv, AccountInv
  <2>2. OnTopic' \subseteq 1 .. h /\ lostAcks' \subseteq OnTopic'
    BY <1>1, <1>2, <1>6, <1>7
  <2>3. h = Cardinality(OnTopic' \ lostAcks') + failed' + Bad(reports')
    <3>1. failed' = failed
      BY <1>1
    <3>2. h = (c + 1) + failed + Bad(reports)
      BY <1>2, <1>9, <1>10
    <3> QED
      BY <3>1, <3>2, <1>9, <1>10
  <2> QED
    BY <2>1, <2>2, <2>3, <1>5 DEF AccountInv
<1>12. OrderInv'
  <2>1. SUFFICES ASSUME failed = 0, Bad(reports) = 0 PROVE EndsWith(topic', runs, h)
    BY <1>1, <1>5, <1>10 DEF OrderInv, EndsWith
  <2>2. EndsWith(topic, runs, Settled)
    BY <2>1 DEF PublishInv, OrderInv
  <2> QED
    BY <2>2, <1>2, <1>3, <1>7, OrderGrows
<1> QED
  BY <1>5, <1>11, <1>12 DEF PublishInv

LEMMA DeliveryFailsStep ==
    ASSUME PublishInv, DeliveryFails
    PROVE  PublishInv'
<1>1. /\ Running /\ queue # <<>> /\ queue' = Tail(queue) /\ reports' = Report(Head(queue), FALSE)
      /\ UNCHANGED <<file, skipCheck, pc, line, sent, failed, exit, runs>>
  BY DEF DeliveryFails
<1>2. PICK h \in Nat : h = Head(queue) /\ h = Settled + 1
  BY <1>1, HeadOfQueue DEF PublishInv
<1>3. Settled \in Nat /\ OnTopic \subseteq 1 .. Settled /\ lostAcks \subseteq OnTopic
  BY AcknowledgedAreFinite DEF PublishInv, AccountInv
<1>4. /\ topic' \in Seq(Nat \X Nat) /\ \A i \in DOMAIN topic' : topic'[i][1] <= runs
      /\ OnTopic' \subseteq 1 .. h /\ lostAcks' \subseteq OnTopic'
      /\ OnTopic' \ lostAcks' = OnTopic \ lostAcks
  <2>1. CASE UNCHANGED <<topic, lostAcks>>
    <3>1. OnTopic' = OnTopic
      BY <1>1, <2>1 DEF OnTopic
    <3> QED
      BY <2>1, <3>1, <1>2, <1>3 DEF PublishInv, TypeInv, AccountInv
  <2>2. CASE topic' = Append(topic, <<runs, h>>) /\ lostAcks' = lostAcks \cup {h}
    <3>1. topic \in Seq(Nat \X Nat) /\ runs \in Nat
      BY DEF PublishInv, TypeInv
    <3>2. /\ topic' \in Seq(Nat \X Nat) /\ Len(topic') = Len(topic) + 1
          /\ topic'[Len(topic) + 1] = <<runs, h>>
          /\ \A i \in 1 .. Len(topic) : topic'[i] = topic[i]
          /\ Shown(topic', runs) = Shown(topic, runs) \cup {h}
      BY <2>2, <3>1, TopicGrows
    <3>3. OnTopic' = OnTopic \cup {h}
      BY <1>1, <3>2 DEF OnTopic, Shown
    <3>4. \A i \in 1 .. Len(topic) : topic[i][1] <= runs
      BY <3>1 DEF PublishInv, AccountInv
    <3>5. ASSUME NEW i \in DOMAIN topic'
          PROVE  topic'[i][1] <= runs
      <4>1. i \in 1 .. (Len(topic) + 1) /\ Len(topic) \in Nat
        BY <3>1, <3>2
      <4>2. CASE i = Len(topic) + 1
        BY <4>2, <3>1, <3>2
      <4>3. CASE i \in 1 .. Len(topic)
        BY <4>3, <3>2, <3>4
      <4> QED
        BY <4>1, <4>2, <4>3
    <3>6. OnTopic' \subseteq 1 .. h /\ lostAcks' \subseteq OnTopic'
      <4>1. h \in 1 .. h /\ 1 .. Settled \subseteq 1 .. h
        BY <1>2, <1>3
      <4> QED
        BY <4>1, <2>2, <3>3, <1>3
    <3>7. OnTopic' \ lostAcks' = OnTopic \ lostAcks
      BY <2>2, <3>3, <1>2, <1>3
    <3> QED
      BY <3>2, <3>5, <3>6, <3>7
  <2> QED
    BY <2>1, <2>2, <1>2 DEF DeliveryFails
<1>5. TypeInv' /\ QueueInv' /\ ExitInv' /\ Settled' = h
  BY <1>1, <1>2, <1>4, LeavesQueue
<1>6. Bad(reports') = Bad(reports) + 1 /\ Bad(reports) \in Nat /\ failed \in Nat
  BY <1>1, <1>2, BadAppend, BadType DEF Report, PublishInv, TypeInv
<1>7. h = Cardinality(OnTopic' \ lostAcks') + failed' + Bad(reports')
  <2>1. PICK c \in Nat : c = Cardinality(OnTopic \ lostAcks) /\ Settled = c + failed + Bad(reports)
    BY AcknowledgedAreFinite
  <2>2. failed' = failed
    BY <1>1
  <2>3. h = c + failed + Bad(reports')
    BY <2>1, <1>2, <1>6
  <2> QED
    BY <2>1, <2>2, <2>3, <1>4
<1>8. AccountInv'
  BY <1>1, <1>4, <1>5, <1>7 DEF AccountInv
<1>9. OrderInv'
  BY <1>6 DEF OrderInv
<1> QED
  BY <1>5, <1>8, <1>9 DEF PublishInv

LEMMA RerunStep ==
    ASSUME PublishInv, Rerun
    PROVE  PublishInv'
<1>1. /\ pc' = "check" /\ line' = 1 /\ sent' = 0 /\ failed' = 0
      /\ queue' = <<>> /\ reports' = <<>> /\ lostAcks' = {} /\ runs' = runs + 1
      /\ UNCHANGED <<file, skipCheck, topic, exit>>
  BY DEF Rerun, Fresh
<1>2. /\ file \in Seq(LineKinds) /\ skipCheck \in BOOLEAN /\ runs \in Nat
      /\ topic \in Seq(Nat \X Nat) /\ \A i \in DOMAIN topic : topic[i][1] <= runs
  BY DEF PublishInv, TypeInv, AccountInv
<1>3. <<>> \in Seq(Outcome) /\ <<>> \in Seq(Nat) /\ Bad(<<>>) = 0 /\ Len(<<>>) = 0
  <2>1. <<>> \in Seq(Outcome) /\ <<>> \in Seq(Nat) /\ Len(<<>>) = 0
    OBVIOUS
  <2> QED
    BY <2>1, BadType
<1>4. Settled' = 0
  <2>1. sent' = 0 /\ Len(queue') = 0
    BY <1>1
  <2> QED
    BY <2>1 DEF Settled
<1>5. TypeInv'
  BY <1>1, <1>2, <1>3 DEF TypeInv
<1>6. QueueInv'
  BY <1>1, <1>3 DEF QueueInv
<1>7. \A i \in DOMAIN topic : topic[i] \in Nat \X Nat /\ topic[i][1] < runs + 1
  BY <1>2
<1>8. OnTopic' = {} /\ OnTopic' \ lostAcks' = {}
  BY <1>1, <1>2, <1>7 DEF OnTopic
<1>9. Cardinality(OnTopic' \ lostAcks') = 0
  BY <1>8, FS_EmptySet
<1>10. AccountInv'
  <2>1. \A i \in DOMAIN topic' : topic'[i][1] <= runs'
    BY <1>1, <1>2, <1>7
  <2>2. OnTopic' \subseteq 1 .. 0 /\ lostAcks' \subseteq OnTopic'
    BY <1>1, <1>8
  <2>3. 0 = Cardinality(OnTopic' \ lostAcks') + failed' + Bad(reports')
    BY <1>1, <1>3, <1>9
  <2> QED
    BY <2>1, <2>2, <2>3, <1>4 DEF AccountInv
<1>11. EndsWith(topic, runs + 1, 0)
  BY <1>2, <1>7 DEF EndsWith
<1>12. OrderInv'
  BY <1>1, <1>4, <1>11 DEF OrderInv, EndsWith
<1> QED
  BY <1>1, <1>5, <1>6, <1>10, <1>12 DEF PublishInv, ExitInv

-----------------------------------------------------------------------------
(* The theorems *)

LEMMA PublishAlways == Spec => []PublishInv
<1>1. PublishInv /\ [Next]_vars => PublishInv'
  <2> SUFFICES ASSUME PublishInv, [Next]_vars PROVE PublishInv'
    OBVIOUS
  <2>1. CASE CheckContract \/ CheckOnly \/ Raise \/ EndOfFile \/ FlushDone \/ FlushTimeout
    BY <2>1, ControlStep
  <2>2. CASE Produce
    BY <2>2, ProduceStep
  <2>3. CASE FlushServe
    BY <2>3, FlushServeStep
  <2>4. CASE Deliver
    BY <2>4, DeliverStep
  <2>5. CASE DeliveryFails
    BY <2>5, DeliveryFailsStep
  <2>6. CASE Rerun
    BY <2>6, RerunStep
  <2>7. CASE UNCHANGED vars
    <3>1. TypeInv' /\ ExitInv'
      BY <2>7 DEF vars, PublishInv, TypeInv, ExitInv
    <3>2. QueueInv' /\ AccountInv'
      BY <2>7 DEF vars, PublishInv, QueueInv, AccountInv, Settled, OnTopic
    <3>3. OrderInv'
      BY <2>7 DEF vars, PublishInv, OrderInv, EndsWith, Settled
    <3> QED
      BY <3>1, <3>2, <3>3 DEF PublishInv
  <2> QED
    BY <2>1, <2>2, <2>3, <2>4, <2>5, <2>6, <2>7 DEF Next, Program
<1> QED
  BY <1>1, InitPublish, PTL DEF Spec

\* Nothing handed to the client is forgotten: whatever the broker does with each message, in
\* every run over every file, a line is on the topic and reported so, still queued, or a failure
\* that on_delivery has counted or is about to count.
THEOREM EverythingIsAccounted == Spec => []SentIsAccounted
<1>1. PublishInv => SentIsAccounted
  <2> SUFFICES ASSUME PublishInv PROVE SentIsAccounted
    OBVIOUS
  <2>1. sent \in Nat /\ Len(queue) \in Nat /\ failed \in Nat /\ reports \in Seq(Outcome)
    BY DEF PublishInv, TypeInv
  <2>2. Bad(reports) \in Nat
    BY <2>1, BadType
  <2>3. PICK c \in Nat : c = Cardinality(OnTopic \ lostAcks) /\ Settled = c + failed + Bad(reports)
    BY AcknowledgedAreFinite
  <2>4. sent - Len(queue) = c + failed + Bad(reports)
    BY <2>3 DEF Settled
  <2>5. sent = c + Len(queue) + failed + Bad(reports)
    BY <2>1, <2>2, <2>4
  <2> QED
    BY <2>3, <2>5 DEF SentIsAccounted
<1> QED
  BY <1>1, PublishAlways, PTL

\* What exit code 0 of a run that read its file to the end and left nothing queued is worth: the
\* topic ends with the whole file, in order, once, corrupt payloads included.
THEOREM CleanRunIsComplete == Spec => []CleanRunPublishesAll
<1>1. PublishInv => CleanRunPublishesAll
  <2> SUFFICES ASSUME PublishInv, pc = "exited", exit = 0, line > Len(file), queue = <<>>
               PROVE  /\ Len(topic) - Len(file) >= 0
                      /\ \A i \in 1 .. (Len(topic) - Len(file)) : topic[i][1] # runs
                      /\ \A n \in 1 .. Len(file) : topic[(Len(topic) - Len(file)) + n] = <<runs, n>>
    BY DEF CleanRunPublishesAll
  <2>1. EndsWith(topic, runs, Settled)
    BY DEF PublishInv, ExitInv, OrderInv
  <2>2. Len(file) \in Nat /\ Len(topic) \in Nat /\ Len(queue) = 0 /\ line \in 1 .. (Len(file) + 1)
    BY DEF PublishInv, TypeInv
  <2>3. Settled = Len(file)
    BY <2>2 DEF PublishInv, QueueInv, Settled
  <2>4. Len(file) <= Len(topic) /\ runs \in Nat /\ topic \in Seq(Nat \X Nat)
    BY <2>1, <2>3 DEF EndsWith, PublishInv, TypeInv
  <2>5. \A i \in 1 .. (Len(topic) - Len(file)) : topic[i][1] # runs
    BY <2>1, <2>2, <2>3, <2>4, SMTT(30) DEF EndsWith
  <2>6. \A n \in 1 .. Len(file) : topic[(Len(topic) - Len(file)) + n] = <<runs, n>>
    BY <2>1, <2>3 DEF EndsWith
  <2>7. Len(topic) - Len(file) >= 0
    BY <2>2, <2>4
  <2> QED
    BY <2>5, <2>6, <2>7
<1> QED
  BY <1>1, PublishAlways, PTL

=============================================================================
