--------------------------- MODULE BronzeConsumer ---------------------------
(***************************************************************************)
(* The consumer group of factorystream: poll -> validate -> batch -> write *)
(* parquet -> then commit (src/factorystream/consumer/consumer.py), with   *)
(* the object naming of src/factorystream/consumer/writer.py.              *)
(*                                                                         *)
(* One topic, several partitions, several members of one consumer group.   *)
(* A message is known by its partition and offset; its payload is reduced  *)
(* to the kind that decides where the consumer puts it.  The broker (log,  *)
(* group coordinator, committed offsets) and the object store are modelled *)
(* from how the consumer uses them.                                        *)
(***************************************************************************)
EXTENDS Integers, Sequences, FiniteSets

CONSTANTS Partitions,      \* partitions of the topic
          Consumers,       \* processes that may join the group
          None,            \* no owner, no partition
          Kinds,           \* kinds of message the producers send
          MaxMessages,     \* bound: messages per partition
          BatchRows,       \* BATCH_ROWS
          MaxIdlePolls,    \* --stop-after-idle; 0 stands for the default, None
          FromBeginning,   \* --from-beginning
          Root,            \* "s3": atomic puts; "local": files written in place
          HoursPerDay,     \* ingest hours in one ingest day
          MaxHour,         \* bound: last ingest hour
          MaxDisruptions,  \* bound: crashes, stops, failed writes and commits
          MaxRebalances    \* bound: rebalances with unchanged membership

AllKinds == {"event", "garbage", "tombstone", "poison", "misnamed", "raising"}

ASSUME NoneAssumption == None \notin Consumers \cup Partitions
ASSUME KindsAssumption == Kinds \subseteq AllKinds
ASSUME RootAssumption == Root \in {"s3", "local"}
ASSUME FlagAssumption == FromBeginning \in BOOLEAN
ASSUME BoundsAssumption ==
    /\ BatchRows \in Nat \ {0} /\ HoursPerDay \in Nat \ {0}
    /\ MaxMessages \in Nat /\ MaxIdlePolls \in Nat /\ MaxHour \in Nat
    /\ MaxDisruptions \in Nat /\ MaxRebalances \in Nat

-----------------------------------------------------------------------------
(* Broker *)
VARIABLES log,          \* [Partitions -> Seq(Kinds)]; offset o is at index o+1
          committed,    \* committed offset of the group, NoOffset if none
          group,        \* members in the current generation
          owner,        \* member each partition is assigned to
          position      \* next offset the owner's client fetches
(* Object store *)
VARIABLES bronze,       \* [object key -> Seq of offsets]: one row per offset
          quarantine    \* the same for rejects
(* Consumer processes *)
VARIABLES proc,         \* control state of BronzeConsumer.run
          buffers       \* BronzeConsumer.buffers
(* Environment *)
VARIABLES hour,         \* ingest hour of BatchWriter._now
          disruptions,  \* counter for MaxDisruptions
          rebalances    \* counter for MaxRebalances

brokerVars == <<log, committed, group, owner, position>>
lakeVars == <<bronze, quarantine>>
envVars == <<hour, disruptions, rebalances>>
vars == <<brokerVars, lakeVars, proc, buffers, envVars>>

-----------------------------------------------------------------------------
(* Messages, buffers and object keys *)

NoOffset == -1

Offsets == 0 .. (MaxMessages - 1)

Rows(seq) == {seq[i] : i \in 1 .. Len(seq)}

Kind(p, o) == log[p][o + 1]

\* parse_message and the tombstone branch: what a message becomes.  A poison
\* message is JSON with every field present and a value of the wrong type, which
\* parse_message accepts and the parquet schema does not; a misnamed one lacks a
\* field, and its machine_id, which the reject carries on, is no string.
IsRecord(k) == k \in {"event", "poison"}

Published(p) == 0 .. (Len(log[p]) - 1)

NewBuffer == [open |-> TRUE, records |-> <<>>, rejects |-> <<>>, aged |-> FALSE]

NoBuffer == [NewBuffer EXCEPT !.open = FALSE]

Pending(b) == Len(b.records) + Len(b.rejects)

\* Every offset a buffer holds.
Held(b) == Rows(b.records) \cup Rows(b.rejects)

\* Mutant of Due: a batch is due one row late.
DueOneLate(b) == Pending(b) > BatchRows \/ (Pending(b) > 0 /\ b.aged)

\* PartitionBuffer.due: aged says BATCH_SECONDS have passed since first_seen.
Due(b) == Pending(b) >= BatchRows \/ (Pending(b) > 0 /\ b.aged)

IsMax(x, S) == x \in S /\ \A y \in S : y <= x
IsMin(x, S) == x \in S /\ \A y \in S : x <= y
Highest(S) == CHOOSE x \in S : IsMax(x, S)
Lowest(S) == CHOOSE x \in S : IsMin(x, S)

Key == [part : Partitions, slot : Nat, first : Nat, last : Nat]

\* Mutant of BronzeKey: the name leaves the offsets out.
KeyWithoutOffsets(p, seq) == [part |-> p, slot |-> hour, first |-> 0, last |-> 0]

\* bronze_key and quarantine_key: an ingest slot (an hour, or a day), the
\* partition and the offset range of the rows themselves.
BronzeKey(p, seq) ==
    [part |-> p, slot |-> hour, first |-> Lowest(Rows(seq)), last |-> Highest(Rows(seq))]

QuarantineKey(p, seq) ==
    [part |-> p, slot |-> hour \div HoursPerDay,
     first |-> Lowest(Rows(seq)), last |-> Highest(Rows(seq))]

\* _write: an object is created or overwritten as a whole.
Put(store, key, seq) ==
    [k \in DOMAIN store \cup {key} |-> IF k = key THEN seq ELSE store[k]]

\* A torn file: present under its key and unreadable.
Torn == <<>>

\* What a write that did not return may have left behind: nothing, the object
\* (its answer was lost), or for a local file a torn one.
Remains(store, key, seq) ==
    {store, Put(store, key, seq)}
        \cup (IF Root = "local" THEN {Put(store, key, Torn)} ELSE {})

\* The offsets of p that some readable object of a store holds.
Stored(store, p) == UNION {Rows(store[k]) : k \in {j \in DOMAIN store : j.part = p}}

Durable(p) == Stored(bronze, p) \cup Stored(quarantine, p)

\* Mutant of ResumeAt: --from-beginning rewinds at every assignment.
ResumeFromStart(p) == IF FromBeginning THEN 0 ELSE Len(log[p])

\* Where a client that is assigned p starts: auto.offset.reset decides only when
\* the group has committed nothing.
ResumeAt(p) ==
    IF committed[p] # NoOffset THEN committed[p]
    ELSE IF FromBeginning THEN 0 ELSE Len(log[p])

-----------------------------------------------------------------------------
(* Control state of a process *)

Labels == {"down", "poll", "sweep", "bronze", "quarantine", "commit"}

Down == [pc |-> "down", running |-> FALSE, assigned |-> FALSE, idle |-> 0,
         closing |-> FALSE, failed |-> FALSE, cur |-> None, todo |-> {}]

Live == {c \in Consumers : proc[c].pc # "down"}

Owns(c) == {p \in Partitions : owner[p] = c}

\* A member that leaves, or that the coordinator stops hearing from.
Leave(c) ==
    /\ group' = group \ {c}
    /\ owner' = [p \in Partitions |-> IF owner[p] = c THEN None ELSE owner[p]]
    /\ UNCHANGED <<log, position>>

Exit(c) ==
    /\ proc' = [proc EXCEPT ![c] = Down]
    /\ buffers' = [buffers EXCEPT ![c] = [p \in Partitions |-> NoBuffer]]
    /\ Leave(c)

\* An exception leaves the loop for the finally block, and leaves the process
\* when it is raised inside that block: then close() is never reached.
Raise(c) ==
    IF proc[c].closing
    THEN Exit(c)
    ELSE /\ proc' = [proc EXCEPT ![c].pc = "sweep", ![c].closing = TRUE,
                                 ![c].failed = TRUE, ![c].todo = Partitions,
                                 ![c].cur = None]
         /\ UNCHANGED <<buffers, log, group, owner, position>>

Disrupt == disruptions < MaxDisruptions /\ disruptions' = disruptions + 1

-----------------------------------------------------------------------------
\* The topic may hold messages before the first consumer starts.
InitialLogs == {<<>>} \cup [1 .. MaxMessages -> Kinds]

Init ==
    /\ log \in [Partitions -> InitialLogs]
    /\ committed = [p \in Partitions |-> NoOffset]
    /\ group = {}
    /\ owner = [p \in Partitions |-> None]
    /\ position = [p \in Partitions |-> 0]
    /\ bronze = <<>>
    /\ quarantine = <<>>
    /\ proc = [c \in Consumers |-> Down]
    /\ buffers = [c \in Consumers |-> [p \in Partitions |-> NoBuffer]]
    /\ hour = 0
    /\ disruptions = 0
    /\ rebalances = 0

-----------------------------------------------------------------------------
(* Environment: producers, clock, group coordinator, operators *)

Publish(p) ==
    /\ Len(log[p]) < MaxMessages
    /\ \E k \in Kinds : log' = [log EXCEPT ![p] = Append(@, k)]
    /\ UNCHANGED <<committed, group, owner, position, lakeVars, proc, buffers, envVars>>

NextHour ==
    /\ hour < MaxHour
    /\ hour' = hour + 1
    /\ UNCHANGED <<brokerVars, lakeVars, proc, buffers, disruptions, rebalances>>

\* BATCH_SECONDS pass since the buffer was created or reset.
Age(c, p) ==
    /\ buffers[c][p].open /\ ~buffers[c][p].aged
    /\ buffers' = [buffers EXCEPT ![c][p].aged = TRUE]
    /\ UNCHANGED <<brokerVars, lakeVars, proc, envVars>>

\* The coordinator hands out every partition anew and each client resumes at
\* the committed offset.  No rebalance callback is registered, so the buffers
\* of the members are left as they are.  With unchanged membership (a missed
\* heartbeat, a poll interval exceeded) it is a disruption of its own.
Rebalance ==
    /\ Live # {}
    /\ IF group # Live \/ \E p \in Partitions : owner[p] = None
       THEN UNCHANGED rebalances
       ELSE rebalances < MaxRebalances /\ rebalances' = rebalances + 1
    /\ group' = Live
    /\ owner' \in [Partitions -> Live]
    /\ position' = [p \in Partitions |-> ResumeAt(p)]
    /\ UNCHANGED <<log, committed, lakeVars, proc, buffers, hour, disruptions>>

\* main: a new process with empty buffers subscribes.
Start(c) ==
    /\ proc[c].pc = "down"
    /\ proc' = [proc EXCEPT ![c] = [Down EXCEPT !.pc = "poll", !.running = TRUE]]
    /\ UNCHANGED <<brokerVars, lakeVars, buffers, envVars>>

\* SIGINT or SIGTERM: the handler only clears the flag the loop reads.
Stop(c) ==
    /\ proc[c].pc # "down" /\ proc[c].running
    /\ Disrupt
    /\ proc' = [proc EXCEPT ![c].running = FALSE]
    /\ UNCHANGED <<brokerVars, lakeVars, buffers, hour, rebalances>>

\* SIGKILL or power loss, between any two steps.
Crash(c) ==
    /\ proc[c].pc # "down"
    /\ Disrupt
    /\ Exit(c)
    /\ UNCHANGED <<committed, lakeVars, hour, rebalances>>

-----------------------------------------------------------------------------
(* The poll loop.  Each turn polls once; self._running is read at its top. *)

Polling(c) == proc[c].pc = "poll" /\ proc[c].running

SawAssignment(c) == proc[c].assigned \/ Owns(c) # {}

\* A message arrives and is buffered as a record or a reject; the buffer is
\* flushed at once when that makes it due.
PollMessage(c, p) ==
    /\ Polling(c)
    /\ owner[p] = c
    /\ position[p] < Len(log[p])
    /\ Kind(p, position[p]) # "raising"
    /\ LET o == position[p]
           old == IF buffers[c][p].open THEN buffers[c][p] ELSE NewBuffer
           new == IF IsRecord(Kind(p, o))
                  THEN [old EXCEPT !.records = Append(@, o)]
                  ELSE [old EXCEPT !.rejects = Append(@, o)]
       IN /\ position' = [position EXCEPT ![p] = o + 1]
          /\ buffers' = [buffers EXCEPT ![c][p] = new]
          /\ proc' = [proc EXCEPT
                ![c].pc = IF Due(new) THEN "bronze" ELSE "poll",
                ![c].cur = IF Due(new) THEN p ELSE @,
                ![c].idle = 0,
                ![c].assigned = TRUE]
    /\ UNCHANGED <<log, committed, group, owner, lakeVars, envVars>>

\* parse_message raises what it does not catch (an infinite schema_version, an
\* integer of too many digits): the message is in no buffer.  The client has moved
\* past it, which nothing reads before the partition is assigned anew.
PollRaises(c) ==
    /\ Polling(c)
    /\ \E p \in Partitions :
          owner[p] = c /\ position[p] < Len(log[p]) /\ Kind(p, position[p]) = "raising"
    /\ Raise(c)
    /\ UNCHANGED <<committed, lakeVars, envVars>>

\* The poll timed out, with or without data waiting at the broker: look at every
\* buffer, and count the turn as idle once partitions are held.  The count is
\* read after the sweep, in SweepDone; it is not kept when nothing reads it.
PollNone(c) ==
    /\ Polling(c)
    /\ proc' = [proc EXCEPT
          ![c].pc = "sweep",
          ![c].todo = {p \in Partitions : buffers[c][p].open},
          ![c].assigned = SawAssignment(c),
          ![c].idle = IF SawAssignment(c) /\ MaxIdlePolls > 0 THEN @ + 1 ELSE @]
    /\ UNCHANGED <<brokerVars, lakeVars, buffers, envVars>>

\* The poll returned a broker error: logged, and the loop goes on.
PollError(c) ==
    /\ Polling(c)
    /\ proc' = [proc EXCEPT ![c].assigned = SawAssignment(c)]
    /\ UNCHANGED <<brokerVars, lakeVars, buffers, envVars>>

\* Mutant of LeaveLoop: no flush before the consumer closes.
LeaveWithoutFlush(c) ==
    /\ proc[c].pc = "poll" /\ ~proc[c].running
    /\ proc' = [proc EXCEPT ![c].pc = "sweep", ![c].closing = TRUE]
    /\ UNCHANGED <<brokerVars, lakeVars, buffers, envVars>>

\* The loop ends because stop() was called: enter the finally block.
LeaveLoop(c) ==
    /\ proc[c].pc = "poll" /\ ~proc[c].running
    /\ proc' = [proc EXCEPT ![c].pc = "sweep", ![c].closing = TRUE,
                            ![c].todo = Partitions]
    /\ UNCHANGED <<brokerVars, lakeVars, buffers, envVars>>

-----------------------------------------------------------------------------
(* _flush_due and, in the finally block, _flush_all *)

NeedsFlush(c, p) ==
    IF proc[c].closing THEN Pending(buffers[c][p]) > 0 ELSE Due(buffers[c][p])

SweepVisit(c, p) ==
    /\ proc[c].pc = "sweep"
    /\ p \in proc[c].todo
    /\ proc' = [proc EXCEPT
          ![c].todo = @ \ {p},
          ![c].pc = IF NeedsFlush(c, p) THEN "bronze" ELSE "sweep",
          ![c].cur = IF NeedsFlush(c, p) THEN p ELSE @]
    /\ UNCHANGED <<brokerVars, lakeVars, buffers, envVars>>

IdleLimit(c) == MaxIdlePolls > 0 /\ proc[c].idle >= MaxIdlePolls

\* Mutant of SweepDone: the idle exit does not flush what is buffered.
IdleExitWithoutFlush(c) ==
    /\ proc[c].pc = "sweep" /\ proc[c].todo = {} /\ ~proc[c].closing
    /\ proc' = IF IdleLimit(c)
               THEN [proc EXCEPT ![c].closing = TRUE]
               ELSE [proc EXCEPT ![c].pc = "poll"]
    /\ UNCHANGED <<brokerVars, lakeVars, buffers, envVars>>

\* Nothing is left to visit: poll again, or leave the loop after too many idle
\* polls.
SweepDone(c) ==
    /\ proc[c].pc = "sweep" /\ proc[c].todo = {} /\ ~proc[c].closing
    /\ proc' = IF IdleLimit(c)
               THEN [proc EXCEPT ![c].closing = TRUE, ![c].todo = Partitions]
               ELSE [proc EXCEPT ![c].pc = "poll"]
    /\ UNCHANGED <<brokerVars, lakeVars, buffers, envVars>>

\* The finally block is over: consumer.close() leaves the group.
Close(c) ==
    /\ proc[c].pc = "sweep" /\ proc[c].todo = {} /\ proc[c].closing
    /\ Exit(c)
    /\ UNCHANGED <<committed, lakeVars, envVars>>

-----------------------------------------------------------------------------
(* _flush_partition: write bronze, write quarantine, commit, reset *)

Current(c) == buffers[c][proc[c].cur]

Unwritable(c) == \E o \in Rows(Current(c).records) : Kind(proc[c].cur, o) = "poison"

Unfit(c) == \E o \in Rows(Current(c).rejects) : Kind(proc[c].cur, o) = "misnamed"

WriteBronze(c) ==
    /\ proc[c].pc = "bronze"
    /\ ~Unwritable(c)
    /\ LET rows == Current(c).records
       IN bronze' = IF rows = <<>> THEN bronze
                    ELSE Put(bronze, BronzeKey(proc[c].cur, rows), rows)
    /\ proc' = [proc EXCEPT ![c].pc = "quarantine"]
    /\ UNCHANGED <<brokerVars, quarantine, buffers, envVars>>

WriteQuarantine(c) ==
    /\ proc[c].pc = "quarantine"
    /\ ~Unfit(c)
    /\ LET rows == Current(c).rejects
       IN quarantine' = IF rows = <<>> THEN quarantine
                        ELSE Put(quarantine, QuarantineKey(proc[c].cur, rows), rows)
    /\ proc' = [proc EXCEPT ![c].pc = "commit"]
    /\ UNCHANGED <<brokerVars, bronze, buffers, envVars>>

\* The offset of the NEXT message to read.
NextOffset(c) == Highest(Held(Current(c))) + 1

\* Mutants of Commit: the buffer is not reset; the process believes it is still
\* flushing.
CommitWithoutReset(c) ==
    /\ proc[c].pc = "commit"
    /\ committed' = [committed EXCEPT ![proc[c].cur] = NextOffset(c)]
    /\ proc' = [proc EXCEPT ![c].pc = "sweep", ![c].cur = None]
    /\ UNCHANGED <<log, group, owner, position, lakeVars, buffers, envVars>>
CommitKeepsCurrent(c) ==
    /\ proc[c].pc = "commit"
    /\ committed' = [committed EXCEPT ![proc[c].cur] = NextOffset(c)]
    /\ buffers' = [buffers EXCEPT ![c][proc[c].cur] = NewBuffer]
    /\ proc' = [proc EXCEPT ![c].pc = "sweep"]
    /\ UNCHANGED <<log, group, owner, position, lakeVars, envVars>>

\* The commit is synchronous; the buffer is reset when it returns.
Commit(c) ==
    /\ proc[c].pc = "commit"
    /\ committed' = [committed EXCEPT ![proc[c].cur] = NextOffset(c)]
    /\ buffers' = [buffers EXCEPT ![c][proc[c].cur] = NewBuffer]
    /\ proc' = [proc EXCEPT ![c].pc = "sweep", ![c].cur = None]
    /\ UNCHANGED <<log, group, owner, position, lakeVars, envVars>>

-----------------------------------------------------------------------------
(* Failures of the three calls: the process goes on with Raise, or is gone *)

\* Building the table of a batch with a poison record raises every time.
PoisonBronze(c) ==
    /\ proc[c].pc = "bronze"
    /\ Unwritable(c)
    /\ Raise(c)
    /\ UNCHANGED <<committed, lakeVars, envVars>>

\* The same of a batch with a misnamed reject, after the records were written.
PoisonQuarantine(c) ==
    /\ proc[c].pc = "quarantine"
    /\ Unfit(c)
    /\ Raise(c)
    /\ UNCHANGED <<committed, lakeVars, envVars>>

\* Mutant of FailBronze: the exception is logged and the flush goes on.
SwallowBronze(c) ==
    /\ proc[c].pc = "bronze"
    /\ ~Unwritable(c) /\ Current(c).records # <<>>
    /\ Disrupt
    /\ proc' = [proc EXCEPT ![c].pc = "quarantine"]
    /\ UNCHANGED <<brokerVars, lakeVars, buffers, hour, rebalances>>

\* write_bronze raises, or the process dies in it; the object may be there.
FailBronze(c) ==
    /\ proc[c].pc = "bronze"
    /\ ~Unwritable(c) /\ Current(c).records # <<>>
    /\ Disrupt
    /\ LET rows == Current(c).records
       IN bronze' \in Remains(bronze, BronzeKey(proc[c].cur, rows), rows)
    /\ Raise(c) \/ Exit(c)
    /\ UNCHANGED <<committed, quarantine, hour, rebalances>>

FailQuarantine(c) ==
    /\ proc[c].pc = "quarantine"
    /\ ~Unfit(c) /\ Current(c).rejects # <<>>
    /\ Disrupt
    /\ LET rows == Current(c).rejects
       IN quarantine' \in Remains(quarantine, QuarantineKey(proc[c].cur, rows), rows)
    /\ Raise(c) \/ Exit(c)
    /\ UNCHANGED <<committed, bronze, hour, rebalances>>

\* The commit raises; the coordinator may have recorded it.
FailCommit(c) ==
    /\ proc[c].pc = "commit"
    /\ Disrupt
    /\ \/ UNCHANGED committed
       \/ committed' = [committed EXCEPT ![proc[c].cur] = NextOffset(c)]
    /\ Raise(c) \/ Exit(c)
    /\ UNCHANGED <<lakeVars, hour, rebalances>>

-----------------------------------------------------------------------------
Step(c) ==
    \/ \E p \in Partitions : PollMessage(c, p) \/ SweepVisit(c, p)
    \/ PollNone(c) \/ PollError(c) \/ LeaveLoop(c) \/ SweepDone(c) \/ Close(c)
    \/ WriteBronze(c) \/ WriteQuarantine(c) \/ Commit(c)
    \/ PollRaises(c) \/ PoisonBronze(c) \/ PoisonQuarantine(c)

Failure(c) == FailBronze(c) \/ FailQuarantine(c) \/ FailCommit(c) \/ Crash(c) \/ Stop(c)

Environment ==
    \/ NextHour \/ Rebalance
    \/ \E p \in Partitions : Publish(p)
    \/ \E c \in Consumers : Start(c) \/ \E p \in Partitions : Age(c, p)

Next == Environment \/ \E c \in Consumers : Step(c) \/ Failure(c)

Spec == Init /\ [][Next]_vars

\* Fairness.  A running process takes its next step; a client that is polled
\* again and again gets the waiting messages of each partition it owns; time
\* passes; the coordinator notices a change of membership; a process that ended
\* is started again (the next duty cycle).  Nothing is assumed of failures.
Progress(c) ==
    \/ \E p \in Partitions : SweepVisit(c, p)
    \/ PollNone(c) \/ LeaveLoop(c) \/ SweepDone(c) \/ Close(c)
    \/ WriteBronze(c) \/ WriteQuarantine(c) \/ Commit(c)
    \/ PoisonBronze(c) \/ PoisonQuarantine(c)

Fairness ==
    /\ WF_vars(Rebalance /\ UNCHANGED rebalances)
    /\ \A c \in Consumers :
          /\ WF_vars(Progress(c))
          /\ WF_vars(Start(c))
          /\ \A p \in Partitions : SF_vars(PollMessage(c, p)) /\ WF_vars(Age(c, p))

FairSpec == Spec /\ Fairness

=============================================================================
