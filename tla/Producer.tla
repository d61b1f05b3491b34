------------------------------ MODULE Producer ------------------------------
(***************************************************************************)
(* The producer (consumer/producer.py): the contract gate over the whole   *)
(* events file, then publish through the asynchronous client of the        *)
(* broker, and the exit code the operator sees.  The client is modelled as *)
(* its documentation has it and the code uses it: a bounded queue in which *)
(* a message stays until its delivery report has been served, and reports  *)
(* that are served by poll and flush only.                                 *)
(***************************************************************************)
EXTENDS Integers, Sequences, FiniteSets, SequencesExt

CONSTANTS
    LineKinds,          \* the kinds of lines that occur, a subset of Kind
    MaxLines,           \* bound on the length of the events file
    PollEvery,          \* produce calls between two poll(0)
    QueueLimit,         \* queue.buffering.max.messages of the client
    MaxRuns             \* bound on the runs of the program over one file

\* An event that honours the contract it declares or does not, the wrapper of a
\* corrupt payload, a line that is no JSON, and JSON that is no object.
Kind == {"valid", "invalid", "raw", "broken", "scalar"}

ASSUME ProducerAssumption ==
    /\ LineKinds \subseteq Kind
    /\ MaxLines \in Nat /\ PollEvery \in Nat \ {0} /\ QueueLimit \in Nat \ {0} /\ MaxRuns \in Nat

VARIABLES
    file,               \* the events file: a sequence of kinds
    skipCheck,          \* --skip-contract-check
    pc,                 \* "check", "publish", "flush" or "exited"
    line,               \* the next line publish reads
    sent,               \* lines handed to the client in this run
    failed,             \* delivery failures on_delivery has counted
    queue,              \* messages the client still has to deliver, as line numbers
    reports,            \* delivery reports not served yet: line and outcome
    topic,              \* what the broker holds, as <<run, line>>
    lostAcks,           \* ghost: lines of this run that are on the topic and reported failed
    exit,               \* exit code of the last run
    runs                \* how many runs were started

vars == <<file, skipCheck, pc, line, sent, failed, queue, reports, topic, lostAcks, exit, runs>>

-----------------------------------------------------------------------------
\* What contract_check skips: corrupt by construction.
Corrupt(kind) == kind \in {"raw", "broken", "scalar"}

\* The failures of contract_check, over all lines of the file.
Failures == {n \in DOMAIN file : ~Corrupt(file[n]) /\ file[n] = "invalid"}

Exit(code) == pc' = "exited" /\ exit' = code

\* The gate of main: one bad line refuses the whole file.
CheckContract ==
    /\ pc = "check"
    /\ IF ~skipCheck /\ Failures # {}
       THEN Exit(2)
       ELSE pc' = "publish" /\ UNCHANGED exit
    /\ UNCHANGED <<file, skipCheck, line, sent, failed, queue, reports, topic, lostAcks, runs>>

\* --contract-check-only ends here.
CheckOnly ==
    /\ pc = "check"
    /\ Exit(IF ~skipCheck /\ Failures # {} THEN 2 ELSE 0)
    /\ UNCHANGED <<file, skipCheck, line, sent, failed, queue, reports, topic, lostAcks, runs>>

InClient == Len(queue) + Len(reports)
Bad(seq) == Cardinality({i \in DOMAIN seq : seq[i].ok = FALSE})

\* Mutant of Serve: on_delivery does not count.
ServeSilently == reports' = <<>> /\ UNCHANGED failed

\* poll and flush call on_delivery for every report that has arrived.
Serve == reports' = <<>> /\ failed' = failed + Bad(reports)

\* produce raises BufferError then.
Full == InClient >= QueueLimit

\* Mutant of Produce: a corrupt payload is passed over.
ProduceReadable ==
    /\ pc = "publish" /\ line <= Len(file)
    /\ file[line] # "scalar" /\ ~Full
    /\ line' = line + 1
    /\ IF file[line] = "raw" THEN UNCHANGED <<queue, sent>>
       ELSE queue' = Append(queue, line) /\ sent' = sent + 1
    /\ UNCHANGED <<reports, failed, file, skipCheck, pc, topic, lostAcks, exit, runs>>

\* An object is published under its machine or as its raw bytes, and a line that
\* is no JSON as it is; every PollEvery lines reports are served, without waiting.
Produce ==
    /\ pc = "publish" /\ line <= Len(file)
    /\ file[line] # "scalar" /\ ~Full
    /\ queue' = Append(queue, line)
    /\ line' = line + 1 /\ sent' = sent + 1
    /\ IF sent' % PollEvery = 0 THEN Serve ELSE UNCHANGED <<reports, failed>>
    /\ UNCHANGED <<file, skipCheck, pc, topic, lostAcks, exit, runs>>

\* The two ways publish dies: BufferError of a full queue, and the AttributeError
\* of get on JSON that is no object, which the gate has let pass as corrupt.  What
\* is queued goes with the process.
Raise ==
    /\ pc = "publish" /\ line <= Len(file)
    /\ file[line] = "scalar" \/ Full
    /\ Exit(1)
    /\ UNCHANGED <<file, skipCheck, line, sent, failed, queue, reports, topic, lostAcks, runs>>

EndOfFile ==
    /\ pc = "publish" /\ line > Len(file)
    /\ pc' = "flush"
    /\ UNCHANGED <<file, skipCheck, line, sent, failed, queue, reports, topic, lostAcks, exit, runs>>

\* flush serves reports until none is outstanding ...
FlushServe ==
    /\ pc = "flush" /\ reports # <<>>
    /\ Serve
    /\ UNCHANGED <<file, skipCheck, pc, line, sent, queue, topic, lostAcks, exit, runs>>

ExitCode == IF failed > 0 THEN 1 ELSE 0

FlushDone ==
    /\ pc = "flush" /\ InClient = 0
    /\ Exit(ExitCode)
    /\ UNCHANGED <<file, skipCheck, line, sent, failed, queue, reports, topic, lostAcks, runs>>

TimeIsOver == queue # <<>> /\ reports = <<>>

\* ... or until 30 seconds are over; the number of messages it leaves behind is
\* returned to a caller that does not look.
FlushTimeout ==
    /\ pc = "flush" /\ TimeIsOver
    /\ Exit(ExitCode)
    /\ UNCHANGED <<file, skipCheck, line, sent, failed, queue, reports, topic, lostAcks, runs>>

-----------------------------------------------------------------------------
(* The broker and the operator. *)

Running == pc \in {"publish", "flush"}
Report(n, ok) == Append(reports, [line |-> n, ok |-> ok])

\* All replicas acknowledge: idempotence keeps the order and drops retries.
Deliver ==
    /\ Running /\ queue # <<>>
    /\ topic' = Append(topic, <<runs, Head(queue)>>)
    /\ reports' = Report(Head(queue), TRUE)
    /\ queue' = Tail(queue)
    /\ UNCHANGED <<file, skipCheck, pc, line, sent, failed, lostAcks, exit, runs>>

\* The message times out in the client, stored or not.
DeliveryFails ==
    /\ Running /\ queue # <<>>
    /\ \/ UNCHANGED <<topic, lostAcks>>
       \/ /\ topic' = Append(topic, <<runs, Head(queue)>>)
          /\ lostAcks' = lostAcks \cup {Head(queue)}
    /\ reports' = Report(Head(queue), FALSE)
    /\ queue' = Tail(queue)
    /\ UNCHANGED <<file, skipCheck, pc, line, sent, failed, exit, runs>>

Fresh ==
    /\ pc' = "check" /\ line' = 1 /\ sent' = 0 /\ failed' = 0
    /\ queue' = <<>> /\ reports' = <<>> /\ lostAcks' = {}
    /\ runs' = runs + 1

\* The operator runs the program again over the same file, after whatever exit.
Rerun ==
    /\ pc = "exited" /\ runs < MaxRuns
    /\ Fresh
    /\ UNCHANGED <<file, skipCheck, topic, exit>>

Init ==
    /\ file \in BoundedSeq(LineKinds, MaxLines)
    /\ skipCheck \in BOOLEAN
    /\ pc = "check" /\ line = 1 /\ sent = 0 /\ failed = 0
    /\ queue = <<>> /\ reports = <<>> /\ topic = <<>> /\ lostAcks = {}
    /\ exit = 0 /\ runs = 1

Program == CheckContract \/ CheckOnly \/ Produce \/ Raise \/ EndOfFile
           \/ FlushServe \/ FlushDone \/ FlushTimeout

Next == Program \/ Deliver \/ DeliveryFails \/ Rerun

Spec == Init /\ [][Next]_vars

-----------------------------------------------------------------------------
OnTopic == {topic[i][2] : i \in {j \in DOMAIN topic : topic[j][1] = runs}}

\* Conservation: each line handed to the client is on the topic and reported so,
\* still queued, or a failure, counted by on_delivery or about to be.
SentIsAccounted ==
    sent = Cardinality(OnTopic \ lostAcks) + Len(queue) + failed + Bad(reports)

\* A run over the whole file that exits 0, its queue empty, has put every line on
\* the topic, corrupt payloads included (producer.py:10-11), once and in the order of
\* the file, after all that other runs have left there.
CleanRunPublishesAll ==
    (pc = "exited" /\ exit = 0 /\ line > Len(file) /\ queue = <<>>)
      => LET before == Len(topic) - Len(file)
         IN  /\ before >= 0
             /\ \A i \in 1..before : topic[i][1] # runs
             /\ \A n \in 1..Len(file) : topic[before + n] = <<runs, n>>

=============================================================================
