------------------------------ MODULE Disorder ------------------------------
(***************************************************************************)
(* The disorder injector and the ground truth it leaves behind             *)
(* (generator/disorder.py inject, generator/manifest.py build_manifest, in *)
(* the order of generator/cli.py run).  One action per stage, or per event *)
(* of a stage that walks the stream; every draw of the seeded generator is *)
(* a nondeterministic choice, so a rate is neither zero nor one.           *)
(*                                                                         *)
(* A published record keeps its event when it is corrupt: only the ghost   *)
(* knows which one it was, the pipeline sees readable = FALSE.             *)
(***************************************************************************)
EXTENDS Manifest, Sequences

CONSTANTS
    Ids, Machines,          \* events and machines, as naturals: both are sort keys
    MachineOf, TypeOf, TimeOf,      \* what the simulator emitted: functions of Ids
    Seconds,                \* the duration of every cycle
    SkewedMachines,         \* how many machines get a broken clock
    SkewOffsets, Wander,    \* the draws of a base offset and of the wander around it
    DriftCuts, V3Cuts,      \* the cutovers, as indices into the stream, or NoCut
    NoCut,
    LateBy,                 \* the draws of a late event's delay
    MaxShift,               \* out_of_order_max_shift
    MaxExtra, RetryAfter,   \* duplicate_max_extra, the draws of a retry's delay
    MaxCorrupt              \* bound on the corrupt records of a run

ASSUME DisorderAssumption ==
    /\ IsFiniteSet(Ids) /\ Ids \subseteq Nat
    /\ IsFiniteSet(Machines) /\ Machines \subseteq Nat
    /\ MachineOf \in [Ids -> Machines]
    /\ TypeOf \in [Ids -> EventType]
    /\ TimeOf \in [Ids -> Nat]
    /\ Seconds \in Nat /\ SkewedMachines \in Nat
    /\ SkewOffsets \subseteq Int /\ Wander \subseteq Int
    /\ DriftCuts \subseteq Nat \cup {NoCut} /\ V3Cuts \subseteq Nat \cup {NoCut}
    /\ LateBy \subseteq Nat            \* hours, times the square of a draw
    /\ RetryAfter \subseteq Nat \ {0}   \* 5 to 900 milliseconds
    /\ MaxShift \in Nat /\ MaxExtra \in Nat /\ MaxCorrupt \in Nat

VARIABLES
    stage,                  \* the step of inject that runs next
    cursor,                 \* the event or record that step looks at
    working,                \* the stream, as the injector holds it
    canonical,              \* the snapshot the manifest is computed from
    records,                \* the publish list
    log,                    \* InjectionLog
    manifest

vars == <<stage, cursor, working, canonical, records, log, manifest>>

-----------------------------------------------------------------------------
NewEvent(id) ==
    [id |-> id, machine |-> MachineOf[id], type |-> TypeOf[id], time |-> TimeOf[id],
     publish |-> TimeOf[id], version |-> SCHEMA_V1,
     payload |-> NewPayload(TypeOf[id], Seconds, "badge")]

\* The tuple order of Python on (time, machine, id), for either clock.
Before(t, e, u, f) ==
    \/ t < u
    \/ t = u /\ e.machine < f.machine
    \/ t = u /\ e.machine = f.machine /\ e.id < f.id
ByEventTime(e, f) == Before(e.time, e, f.time, f)
ByPublishTime(e, f) == Before(e.publish, e, f.publish, f)

Sorted(seq, Precedes(_, _)) == \A i, j \in DOMAIN seq : i < j => Precedes(seq[i], seq[j])

\* What the simulator emitted (sim.py run), before anything is injected, and the
\* one stream of it that is sorted.
CleanEvents == {NewEvent(id) : id \in Ids}
CleanStreams == {s \in Bijection(1..Cardinality(Ids), CleanEvents) : Sorted(s, ByEventTime)}

Log(field, value) == log' = [log EXCEPT ![field] = value]
Logged(field, id) == Log(field, log[field] \cup {id})
Enter(next) == stage' = next /\ cursor' = 1

\* A walk over seq: the event under the cursor, until there is none left.
Walking(name, seq) == stage = name /\ cursor <= Len(seq)
Walked(name, seq, next) ==
    /\ stage = name /\ cursor > Len(seq)
    /\ Enter(next)
Step == stage' = stage /\ cursor' = cursor + 1

Smaller(m, n) == IF m <= n THEN m ELSE n

-----------------------------------------------------------------------------
(* Mutations of the record: these belong in the manifest. *)

\* What a machine reports, given the offsets of the broken clocks.
Skewed(e, offset, wander) ==
    IF e.machine \in DOMAIN offset
    THEN [e EXCEPT !.time = @ + offset[e.machine] + wander[e.id]] ELSE e

\* A few machines get a wandering clock; only event_time moves.
ApplyClockSkew ==
    LET reporting == {e.machine : e \in Range(working)}
    IN  /\ stage = "skew"
        /\ \E chosen \in SUBSET reporting :
             /\ Cardinality(chosen) = Smaller(SkewedMachines, Cardinality(reporting))
             /\ \E offset \in [chosen -> SkewOffsets], wander \in [Ids -> Wander] :
                  /\ working' = [i \in DOMAIN working |-> Skewed(working[i], offset, wander)]
                  /\ Log("skewed", offset)
        /\ Enter("drift")
        /\ UNCHANGED <<canonical, records, manifest>>

\* Mutant of Rank: the cutover follows the list, which skew has left unsorted.
ListRank(i) == i

\* The place of an event when the stream is sorted, stably, by event_time.
Rank(i) == Cardinality({j \in DOMAIN working :
                          \/ working[j].time < working[i].time
                          \/ working[j].time = working[i].time /\ j <= i})

Upgraded(e, version) ==
    [e EXCEPT !.version = version,
              !.payload = IF version = SCHEMA_V2 THEN ToV2(e.payload, e.type)
                                                 ELSE ToV3(e.payload, e.type)]

\* The events after a cutover, and what the two deployments make of event i.
\* Without a first cutover the function returns early, whatever the second one says.
After(cut) == {i \in DOMAIN working : cut # NoCut /\ Rank(i) > cut}
AfterBoth(cut, cut3) == IF cut = NoCut THEN {} ELSE After(cut3)
Drifted(i, cut, cut3) ==
    LET e == IF i \in After(cut) THEN Upgraded(working[i], SCHEMA_V2) ELSE working[i]
    IN  IF i \in AfterBoth(cut, cut3) THEN Upgraded(e, SCHEMA_V3) ELSE e

\* Two deployments: all events after a point of event time.
ApplySchemaDrift ==
    /\ stage = "drift"
    /\ \E cut \in DriftCuts, cut3 \in V3Cuts :
         /\ working' = [i \in DOMAIN working |-> Drifted(i, cut, cut3)]
         /\ log' = [log EXCEPT !.v2 = {working[i].id : i \in After(cut)},
                               !.v3 = {working[i].id : i \in AfterBoth(cut, cut3)}]
    /\ Enter("snapshot")
    /\ UNCHANGED <<canonical, records, manifest>>

\* The canonical stream: what the machines reported.  Its order, by event time,
\* is of no consequence to the manifest, which is all that is computed from it.
Snapshot ==
    /\ stage = "snapshot"
    /\ canonical' = Range(working)
    /\ Enter("late")
    /\ UNCHANGED <<working, records, log, manifest>>

-----------------------------------------------------------------------------
(* Disorder of the transport: none of it may show in the manifest. *)

\* Mutant of Delayed: lateness moves the event, not its publication.
DelayedEvent(e, by) == [e EXCEPT !.time = @ + by, !.publish = @ + by]

Delayed(e, by) == [e EXCEPT !.publish = @ + by]

ApplyLateArrival ==
    /\ Walking("late", working)
    /\ \/ UNCHANGED <<working, log>>
       \/ \E by \in LateBy :
            /\ working' = [working EXCEPT ![cursor] = Delayed(@, by)]
            /\ Logged("late", working[cursor].id)
    /\ Step
    /\ UNCHANGED <<canonical, records, manifest>>

\* The publish order starts as the order of publish_time.
SortByPublishTime ==
    /\ Walked("late", working, "out_of_order")
    /\ \E place \in Bijection(DOMAIN working, DOMAIN working) :
          working' = [i \in DOMAIN working |-> working[place[i]]]
    /\ Sorted(working', ByPublishTime)
    /\ UNCHANGED <<canonical, records, log, manifest>>

\* Where the machine of event i publishes, up to i.  A swap exchanges events of
\* one machine, so the machine of a position never changes.
Positions(i) == {j \in 1..i : working[j].machine = working[i].machine}

\* An event goes back up to MaxShift places of its own machine, and the one it
\* meets there comes forward.
ApplyOutOfOrder ==
    /\ Walking("out_of_order", working)
    /\ \/ UNCHANGED <<working, log>>
       \/ \E target \in Positions(cursor) \ {cursor} :
            /\ Cardinality(Positions(cursor) \cap target..cursor) - 1 <= MaxShift
            /\ working' = [working EXCEPT ![cursor] = working[target], ![target] = working[cursor]]
            /\ Logged("out_of_order", working[cursor].id)
    /\ Step
    /\ UNCHANGED <<canonical, records, manifest>>

EndOutOfOrder ==
    /\ Walked("out_of_order", working, "duplicate")
    /\ UNCHANGED <<working, canonical, records, log, manifest>>

PublishRecord(event) == [machine |-> event.machine, event |-> event, readable |-> TRUE]

\* Mutant of DuplicateLog: copies are counted with the original.
DuplicateLogAll(id, extra) == With(log.duplicated, id, extra + 1)

DuplicateLog(id, extra) == With(log.duplicated, id, extra)

\* The event is published, and perhaps a few times again, a little later.
ApplyDuplicates ==
    LET event == working[cursor]
    IN  /\ Walking("duplicate", working)
        /\ \/ /\ records' = Append(records, PublishRecord(event))
              /\ UNCHANGED log
           \/ \E extra \in 1..MaxExtra : \E after \in [1..extra -> RetryAfter] :
                /\ records' = Append(records, PublishRecord(event))
                                \o [k \in 1..extra |-> PublishRecord(Delayed(event, after[k]))]
                /\ Log("duplicated", DuplicateLog(event.id, extra))
        /\ Step
        /\ UNCHANGED <<working, canonical, manifest>>

EndDuplicates ==
    /\ Walked("duplicate", working, "corrupt")
    /\ UNCHANGED <<working, canonical, records, log, manifest>>

Corrupted == {i \in DOMAIN records : ~records[i].readable}

\* Any record, copy or original, may become unreadable bytes under its key; the
\* log remembers the event, not the record.
ApplyCorruption ==
    /\ Walking("corrupt", records)
    /\ \/ UNCHANGED <<records, log>>
       \/ /\ Cardinality(Corrupted) < MaxCorrupt
          /\ records' = [records EXCEPT ![cursor].readable = FALSE]
          /\ Logged("corrupt", records[cursor].event.id)
    /\ Step
    /\ UNCHANGED <<working, canonical, manifest>>

\* Mutant of Truth: the manifest of the pristine events, the injector's old bug.
TruthFromCleanStream == CleanEvents

Truth == canonical

WriteManifest ==
    /\ Walked("corrupt", records, "done")
    /\ manifest' = BuildManifest(Truth, log)
    /\ UNCHANGED <<working, canonical, records, log>>

-----------------------------------------------------------------------------
Init ==
    /\ stage = "skew" /\ cursor = 1
    /\ working \in CleanStreams
    /\ canonical = {}
    /\ records = <<>>
    /\ log = NoInjections
    /\ manifest = <<>>

Next ==
    \/ ApplyClockSkew \/ ApplySchemaDrift \/ Snapshot
    \/ ApplyLateArrival \/ SortByPublishTime
    \/ ApplyOutOfOrder \/ EndOutOfOrder
    \/ ApplyDuplicates \/ EndDuplicates
    \/ ApplyCorruption \/ WriteManifest

Spec == Init /\ [][Next]_vars

=============================================================================
