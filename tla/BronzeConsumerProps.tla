------------------------ MODULE BronzeConsumerProps ------------------------
(***************************************************************************)
(* What makes BronzeConsumer correct: its type invariant, its safety,      *)
(* action and liveness properties, the abstract specification it           *)
(* implements, and the inductive invariant behind the proofs.              *)
(***************************************************************************)
EXTENDS BronzeConsumer

Buffer == [open : BOOLEAN, records : Seq(Nat), rejects : Seq(Nat), aged : BOOLEAN]

Process == [pc : Labels, running : BOOLEAN, assigned : BOOLEAN, idle : Nat,
            closing : BOOLEAN, failed : BOOLEAN, cur : Partitions \cup {None},
            todo : SUBSET Partitions]

IsStore(store) == DOMAIN store \subseteq Key /\ \A k \in DOMAIN store : store[k] \in Seq(Nat)

BrokerType ==
    /\ log \in [Partitions -> Seq(Kinds)]
    /\ committed \in [Partitions -> Nat \cup {NoOffset}]
    /\ group \subseteq Consumers
    /\ owner \in [Partitions -> Consumers \cup {None}]
    /\ position \in [Partitions -> Nat]

Flushing(c) == proc[c].pc \in {"bronze", "quarantine", "commit"}

ProcessType ==
    /\ proc \in [Consumers -> Process]
    /\ buffers \in [Consumers -> [Partitions -> Buffer]]
    /\ \A c \in Consumers : (proc[c].cur # None) <=> Flushing(c)

ClockType == hour \in Nat /\ disruptions \in Nat /\ rebalances \in Nat

\* Every variable has its type, and a process has a current partition exactly
\* while it is inside _flush_partition.
TypeOK == BrokerType /\ ProcessType /\ ClockType /\ IsStore(bronze) /\ IsStore(quarantine)

\* Neither an offset of the group nor a buffer runs ahead of the log.
OffsetsWithinLog ==
    \A p \in Partitions :
        /\ committed[p] <= Len(log[p]) /\ position[p] <= Len(log[p])
        /\ \A c \in Consumers : Held(buffers[c][p]) \subseteq Published(p)

\* A flush always has a batch to write, and what it commits lies within the log
\* (tests/test_consumer.py:151-152, "a flush of nothing would write an empty
\* object and commit an offset that covers no work").
FlushHasWork ==
    /\ OffsetsWithinLog
    /\ \A c \in Consumers : Flushing(c) => Held(Current(c)) # {}

\* The messages of a partition by where they belong, and those that have landed
\* there in a readable object.
Records(p) == {o \in Published(p) : IsRecord(Kind(p, o))}
Rejects(p) == Published(p) \ Records(p)
Landed(p) == (Records(p) \cap Stored(bronze, p)) \cup (Rejects(p) \cap Stored(quarantine, p))

\* No loss: every message below the committed offset, which no restart will
\* deliver again, is readable in the store it belongs to
\* (consumer.py:9-10, "a crash between the write and the commit therefore
\* produces re-delivery, not loss").
CommittedIsDurable ==
    FromBeginning => \A p \in Partitions : 0 .. (committed[p] - 1) \subseteq Landed(p)

Increasing(seq) == \A i, j \in 1 .. Len(seq) : i < j => seq[i] < seq[j]

\* The rows that the name of an object promises: of all the messages that belong
\* in its store, those of its offset range, once each, in the order of the log.
HoldsBatch(key, seq, belong) ==
    Rows(seq) = belong \cap (key.first .. key.last) /\ Increasing(seq)

\* Same key, same rows: whatever process wrote an object, and however often, its
\* rows follow from its name, so that a replay that meets the same key
\* overwrites an object by itself (writer.py:9-13).
KeyDeterminesRows ==
    /\ \A k \in DOMAIN bronze :
          bronze[k] = Torn \/ HoldsBatch(k, bronze[k], Records(k.part))
    /\ \A k \in DOMAIN quarantine :
          quarantine[k] = Torn \/ HoldsBatch(k, quarantine[k], Rejects(k.part))

\* A process never has more read and uncommitted messages of a partition than
\* one batch, so that a restart repeats at most a batch of work
\* (consumer.py:44-46, "small enough that a crash loses little work").
AtMostABatchAtRisk ==
    \A c \in Consumers : \A p \in Owns(c) : position[p] - ResumeAt(p) <= BatchRows

\* The committed offset of a partition never goes back: no step makes the group
\* read again what it had finished.
CommittedNeverRegresses ==
    [][\A p \in Partitions : committed'[p] >= committed[p]]_vars

\* A process that ends without an exception has committed everything it polled
\* (consumer.py:257-258, "a clean shutdown does not force a replay of work
\* already done").
CleanExitCommitsAll ==
    [][\A c \in Consumers : Close(c) /\ ~proc[c].failed =>
          \A p \in Owns(c) : ResumeAt(p) >= position[p]]_vars

\* A message that is buffered and not yet durable will be delivered again by a
\* restart (consumer.py:280-283, "the offsets stay uncommitted, so a restart
\* re-delivers them").
BufferedIsRedelivered ==
    \A c \in Live : \A p \in Owns(c) :
        \A o \in Held(buffers[c][p]) \ Durable(p) : ResumeAt(p) <= o

\* No message has two rows in bronze: a replay adds none of its own
\* (tests/test_integration_consumer.py:176-184, "exactly as many rows as the
\* producer sent, no more").
BronzeRowsUnique ==
    \A k, l \in DOMAIN bronze : \A i \in 1 .. Len(bronze[k]), j \in 1 .. Len(bronze[l]) :
        k.part = l.part /\ bronze[k][i] = bronze[l][j] => k = l /\ i = j

\* No reject is there that the quarantine refuses after bronze took its batch.
NoneMisnamed == \A p \in Partitions : \A o \in Published(p) : Kind(p, o) # "misnamed"

\* The same as long as nothing goes wrong: processes that end by their idle limit, or
\* by a message that cannot be parsed, and start again in another hour repeat nothing
\* they finished.
BronzeRowsUniqueInCalm ==
    disruptions = 0 /\ rebalances = 0 /\ NoneMisnamed => BronzeRowsUnique

\* The abstract promise: Landing, with the offsets that are readable in their
\* own store as what has landed and the committed offset as what is acknowledged.
PublishedCount == [p \in Partitions |-> Len(log[p])]
LandedOffsets == [p \in Partitions |-> Landed(p)]
AcknowledgedCount == [p \in Partitions |-> IF committed[p] = NoOffset THEN 0 ELSE committed[p]]

LandingOf == INSTANCE Landing WITH
    published <- PublishedCount, landed <- LandedOffsets, acknowledged <- AcknowledgedCount

\* The consumer implements Landing: each step that touches the lake or the
\* committed offset is a landing or an acknowledgement, all others stutter.
ImplementsLanding == LandingOf!Spec

\* A message is there that no writer takes, with whatever is in its batch.
Refused == \E p \in Partitions : \E o \in Published(p) : Kind(p, o) \in {"poison", "misnamed"}

\* The loop reaches a message: none that parse_message raises on stands before it.
Reachable(p, o) == o \in Published(p) /\ \A i \in 0 .. o : Kind(p, i) # "raising"

\* Every message that is published is landed where it belongs and committed, and
\* stays so, in spite of the crashes, stops, failed writes and failed commits. One that
\* parse_message raises on stops those behind it in its partition and none before it.
EventuallyLanded ==
    \A p \in Partitions : \A o \in Offsets :
        Reachable(p, o) ~> (Refused \/ [](o < committed[p] /\ o \in Landed(p)))

-----------------------------------------------------------------------------
(* The inductive invariant behind CommittedIsDurable, for a group whose       *)
(* partitions change hands only when nothing is held.                        *)

\* A rebalance finds every buffer empty, as it would if the consumer flushed when
\* its partitions are revoked, which it does not (no callback is registered).
HandOver == Rebalance => \A c \in Consumers : \A p \in Partitions : Held(buffers[c][p]) = {}

\* The consumers as long as that is so.
GroupSpec == Init /\ [][Next /\ HandOver]_vars

\* The group has one member, and never rebalances while it is running.
SoleMember == (\A c, d \in Consumers : c = d) /\ MaxRebalances = 0

\* A member is a live process, partitions are assigned to members only, and only
\* the owner of a partition holds messages of it.
AssignmentInv ==
    /\ group \subseteq Live
    /\ \A p \in Partitions : owner[p] \in group \cup {None}
    /\ \A c \in Consumers : \A p \in Partitions : owner[p] # c => Held(buffers[c][p]) = {}

\* A buffer holds an unbroken range of offsets that ends at the fetch position,
\* in log order, each message on the side where it belongs; what the process has
\* read is in the buffer or has landed.
BufferInv(c, p) ==
    /\ ~buffers[c][p].open => Held(buffers[c][p]) = {}
    /\ Rows(buffers[c][p].records) \subseteq Records(p)
    /\ Rows(buffers[c][p].rejects) \subseteq Rejects(p)
    /\ Increasing(buffers[c][p].records) /\ Increasing(buffers[c][p].rejects)
    /\ \A o \in Held(buffers[c][p]) :
          o < position[p] /\ o .. (position[p] - 1) \subseteq Held(buffers[c][p])
    /\ owner[p] = c => 0 .. (position[p] - 1) \subseteq Held(buffers[c][p]) \cup Landed(p)

\* A step of _flush_partition is reached when the writes before it have landed.
FlushInv(c) ==
    /\ proc[c].pc \in {"quarantine", "commit"} =>
          Rows(Current(c).records) \subseteq Stored(bronze, proc[c].cur)
    /\ proc[c].pc = "commit" =>
          Rows(Current(c).rejects) \subseteq Stored(quarantine, proc[c].cur)

\* Every object holds what its name promises.
ObjectsInv ==
    /\ \A k \in DOMAIN bronze :
          k.last < Len(log[k.part]) /\ HoldsBatch(k, bronze[k], Records(k.part))
    /\ \A k \in DOMAIN quarantine :
          k.last < Len(log[k.part]) /\ HoldsBatch(k, quarantine[k], Rejects(k.part))

CommitInv ==
    \A p \in Partitions :
        /\ 0 .. (committed[p] - 1) \subseteq Landed(p)
        /\ owner[p] # None => committed[p] <= position[p]

\* Inductive under GroupSpec, with TypeOK and FlushHasWork, when the members read
\* from the beginning and write to S3.
LandingInv ==
    /\ AssignmentInv /\ ObjectsInv /\ CommitInv
    /\ \A c \in Consumers : FlushInv(c) /\ \A p \in Partitions : BufferInv(c, p)

=============================================================================
