------------------------------- MODULE Loader -------------------------------
(***************************************************************************)
(* The direct loader (consumer/load.py): a captured events file straight   *)
(* into bronze, without a broker.  It numbers the lines of each partition  *)
(* itself, batches them, and writes the manifests last.  A load may die    *)
(* between two writes and is then simply run again.  Lake objects are      *)
(* named by BatchWriter (consumer/writer.py), as those of the consumer.    *)
(***************************************************************************)
EXTENDS Integers, Sequences, FiniteSets, SequencesExt

CONSTANTS
    Machines,           \* machine ids that occur as keys
    NoKey,              \* a line without a key
    PartitionOf,        \* crc32 of a machine id modulo PARTITIONS
    Partitions,         \* 0 .. PARTITIONS - 1
    LineKinds,          \* the kinds of lines that occur, a subset of Kind
    MaxLines,           \* bound on the length of the file
    BATCH_ROWS,
    Windows,            \* number of windows in the manifest file
    HoursPerDay,        \* ingest hours in one ingest day
    MaxHour,            \* bound: last ingest hour
    MaxLoads            \* bound: how often the operator runs the loader

\* What a line is: an event, one with a missing field, a corrupt payload under its
\* _key, no JSON at all, an event with a value the parquet schema refuses, JSON
\* that is no object, and nothing.
Kind == {"event", "incomplete", "raw", "broken", "poison", "scalar", "blank"}

ASSUME LoaderAssumption ==
    /\ NoKey \notin Machines /\ LineKinds \subseteq Kind
    /\ 0 \in Partitions /\ Partitions \subseteq Nat /\ PartitionOf \in [Machines -> Partitions]
    /\ MaxLines \in Nat /\ BATCH_ROWS \in Nat \ {0} /\ Windows \in Nat /\ HoursPerDay \in Nat \ {0}
    /\ MaxHour \in Nat /\ MaxLoads \in Nat

VARIABLES
    file,               \* the events file: a sequence of [kind, key]
    pc,                 \* "read", "bronze", "quarantine", "rest", "done" or "died"
    next,               \* index of the next line to read
    offsets,            \* offsets[partition]
    batches, rejects,   \* rows that wait for a write: [line, offset]
    todo,               \* partitions the last loop of load still has to flush
    cur,                \* the partition flush works on
    window,             \* manifest objects this load has written
    bronze, quarantine, \* [object key -> sequence of rows]
    manifests,          \* how many windows have their manifest object
    hour,               \* ingest hour of BatchWriter._now
    loads               \* how many loads were started

work == <<next, offsets, batches, rejects, todo, cur, window>>
lake == <<bronze, quarantine, manifests>>
vars == <<file, pc, work, lake, hour, loads>>

-----------------------------------------------------------------------------
\* partition_for of the key peek finds, and partition 0 without one.
PartitionFor(entry) == IF entry.key = NoKey THEN 0 ELSE PartitionOf[entry.key]

\* parse_line: a record, or else a reject.
IsRecord(entry) == entry.kind \in {"event", "poison"}

Offsets(rows) == {rows[i].offset : i \in DOMAIN rows}
Lowest(S) == CHOOSE x \in S : \A y \in S : x <= y
Highest(S) == CHOOSE x \in S : \A y \in S : y <= x

\* Mutant of ObjectKey: a name of its own for every run.
KeyOfRun(p, slot, rows) == [part |-> p, slot |-> slot, first |-> loads, last |-> next]

\* bronze_key and quarantine_key.
ObjectKey(p, slot, rows) ==
    [part |-> p, slot |-> slot, first |-> Lowest(Offsets(rows)), last |-> Highest(Offsets(rows))]

\* write_bronze and write_quarantine return without an object when there is no row.
Put(store, p, slot, rows) ==
    IF rows = <<>> THEN store
    ELSE [k \in DOMAIN store \cup {ObjectKey(p, slot, rows)} |->
            IF k = ObjectKey(p, slot, rows) THEN rows ELSE store[k]]

\* A row the parquet schema refuses raises before the batch is written.
Refused(rows) == \E i \in DOMAIN rows : file[rows[i].line].kind = "poison"

Die == pc' = "died"
SkipBlank ==
    /\ pc = "read" /\ next <= Len(file)
    /\ file[next].kind = "blank"
    /\ next' = next + 1
    /\ UNCHANGED <<lake, file, pc, offsets, batches, rejects, todo, cur, window, hour, loads>>

\* peek.get raises on JSON that is no object, before parse_line can reject it.
ScalarRaises ==
    /\ pc = "read" /\ next <= Len(file)
    /\ file[next].kind = "scalar"
    /\ Die
    /\ UNCHANGED <<lake, file, work, hour, loads>>

\* Mutant of NextOffset: rejects do not take an offset of their own.
OffsetOfRecords(p, entry) ==
    IF IsRecord(entry) THEN [offsets EXCEPT ![p] = @ + 1] ELSE offsets

NextOffset(p, entry) == [offsets EXCEPT ![p] = @ + 1]

\* BATCH_ROWS records (rejects do not count) make a partition due.
Due(rows) == Len(rows) >= BATCH_ROWS

\* One line: its partition, the next offset there, parsed and put with its kind.
ReadLine ==
    /\ pc = "read" /\ next <= Len(file)
    /\ file[next].kind \notin {"blank", "scalar"}
    /\ LET entry == file[next]
           p == PartitionFor(entry)
           row == [line |-> next, offset |-> offsets[p]]
       IN /\ offsets' = NextOffset(p, entry)
          /\ IF IsRecord(entry)
             THEN batches' = [batches EXCEPT ![p] = Append(@, row)] /\ UNCHANGED rejects
             ELSE rejects' = [rejects EXCEPT ![p] = Append(@, row)] /\ UNCHANGED batches
          /\ cur' = p
          /\ pc' = IF Due(batches'[p]) THEN "bronze" ELSE "read"
    /\ next' = next + 1
    /\ UNCHANGED <<file, todo, window, lake, hour, loads>>

EndOfFile ==
    /\ pc = "read" /\ next > Len(file)
    /\ pc' = "rest"
    /\ UNCHANGED <<file, work, lake, hour, loads>>

\* What is left in each partition, in the order of their numbers.
RestPartition ==
    /\ pc = "rest" /\ todo # {}
    /\ todo' = todo \ {Lowest(todo)}
    /\ cur' = Lowest(todo)
    /\ pc' = "bronze"
    /\ UNCHANGED <<file, next, offsets, batches, rejects, window, lake, hour, loads>>

\* Mutant of Emptied: a written batch stays.
Kept(waiting, p) == waiting

\* What flush leaves of a list it has written.
Emptied(waiting, p) == [waiting EXCEPT ![p] = <<>>]

\* The first half of flush.
WriteBronze ==
    /\ pc = "bronze"
    /\ IF Refused(batches[cur])
       THEN Die /\ UNCHANGED <<bronze, batches>>
       ELSE /\ bronze' = Put(bronze, cur, hour, batches[cur])
            /\ batches' = Emptied(batches, cur)
            /\ pc' = "quarantine"
    /\ UNCHANGED <<file, next, offsets, rejects, todo, cur, window, quarantine, manifests, hour, loads>>

Return == pc' = IF next > Len(file) THEN "rest" ELSE "read"

\* The second half; the loop goes on where it was.
WriteQuarantine ==
    /\ pc = "quarantine"
    /\ quarantine' = Put(quarantine, cur, hour \div HoursPerDay, rejects[cur])
    /\ rejects' = Emptied(rejects, cur)
    /\ Return
    /\ UNCHANGED <<file, next, offsets, batches, todo, cur, window, bronze, manifests, hour, loads>>

\* Mutant of Ready: the ground truth does not wait for the last partitions.
ReadyEarly == pc = "rest"
Ready == pc = "rest" /\ todo = {}

\* write_manifests, after the last partition: one object per window, in order.
WriteManifest ==
    /\ Ready /\ window < Windows
    /\ window' = window + 1
    /\ manifests' = IF window < manifests THEN manifests ELSE window + 1
    /\ UNCHANGED <<file, pc, next, offsets, batches, rejects, todo, cur, bronze, quarantine, hour, loads>>

Finish ==
    /\ Ready /\ window = Windows
    /\ pc' = "done"
    /\ UNCHANGED <<file, work, lake, hour, loads>>

-----------------------------------------------------------------------------
(* Around the program *)

\* The process is killed between two steps.
Kill ==
    /\ pc \notin {"done", "died"}
    /\ Die
    /\ UNCHANGED <<lake, file, work, hour, loads>>

NextHour ==
    /\ hour < MaxHour
    /\ hour' = hour + 1
    /\ UNCHANGED <<lake, file, pc, work, loads>>

NoRows == [p \in Partitions |-> <<>>]
FirstOffsets == [p \in Partitions |-> 0]

\* The operator loads the file again, after a load that died or one that did not.
Reload ==
    /\ pc \in {"done", "died"} /\ loads < MaxLoads
    /\ pc' = "read" /\ loads' = loads + 1
    /\ next' = 1 /\ offsets' = FirstOffsets /\ todo' = Partitions
    /\ batches' = NoRows /\ rejects' = NoRows /\ cur' = 0 /\ window' = 0
    /\ UNCHANGED <<lake, file, hour>>

Keyed == {"event", "incomplete", "raw", "poison"}
Lines == [kind : LineKinds \cap Keyed, key : Machines]
         \cup [kind : LineKinds \ Keyed, key : {NoKey}]

Init ==
    /\ file \in BoundedSeq(Lines, MaxLines)
    /\ pc = "read" /\ next = 1 /\ todo = Partitions
    /\ offsets = FirstOffsets /\ batches = NoRows /\ rejects = NoRows /\ cur = 0 /\ window = 0
    /\ bronze = <<>> /\ quarantine = <<>> /\ manifests = 0
    /\ hour = 0 /\ loads = 1

Program == SkipBlank \/ ScalarRaises \/ ReadLine \/ EndOfFile \/ RestPartition
           \/ WriteBronze \/ WriteQuarantine \/ WriteManifest \/ Finish

Next == Program \/ Kill \/ NextHour \/ Reload

Spec == Init /\ [][Next]_vars

-----------------------------------------------------------------------------
\* The rows of a store, with the partition and the slot of their object.
Stored(store) ==
    UNION {{[part |-> k.part, slot |-> k.slot, line |-> store[k][i].line, offset |-> store[k][i].offset]
              : i \in DOMAIN store[k]} : k \in DOMAIN store}

InLake(n) == \E r \in Stored(IF IsRecord(file[n]) THEN bronze ELSE quarantine) :
                r.line = n /\ r.part = PartitionFor(file[n])

Loadable == {n \in DOMAIN file : file[n].kind # "blank"}

\* However often the file is loaded and wherever a load is killed, no row of one
\* ingest slot is in two objects: the batches, and so their names, depend on the
\* file alone (writer.py:150-156).
RowsOncePerSlot ==
    \A store \in {bronze, quarantine} : \A k, l \in DOMAIN store :
        (k # l /\ k.part = l.part /\ k.slot = l.slot)
           => {store[k][i].line : i \in DOMAIN store[k]} \cap {store[l][i].line : i \in DOMAIN store[l]} = {}

\* The synthetic provenance is that of a broker: all over the lake a partition and
\* an offset stand for one line, records and rejects together (load.py:12-15).
OffsetsNameLines ==
    \A r, q \in Stored(bronze) \cup Stored(quarantine) :
        (r.part = q.part) => (r.offset = q.offset <=> r.line = q.line)

\* The manifests, the last thing a load writes, only describe a lake that has every
\* line, good or corrupt, in the partition of its key (load.py:154-164).
LoadedBeforeManifests ==
    manifests > 0 => \A n \in Loadable : InLake(n)

LoadedIn(h) ==
    \A n \in Loadable :
        IF IsRecord(file[n]) THEN \E r \in Stored(bronze) : r.line = n /\ r.slot = h
        ELSE \E r \in Stored(quarantine) : r.line = n /\ r.slot = h \div HoursPerDay

\* Loading again in the hour of a complete load overwrites objects by themselves.
ReloadChangesNothing ==
    [][Program /\ LoadedIn(hour) => UNCHANGED <<bronze, quarantine>>]_vars

=============================================================================
