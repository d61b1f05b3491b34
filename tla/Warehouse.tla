----------------------------- MODULE Warehouse -----------------------------
(***************************************************************************)
(* The warehouse over a lake that is still being filled: bronze with every *)
(* copy that landed, the silver, gold and ledger tables of the last dbt    *)
(* build, and the ground truth they are compared with (silver/slv_events,  *)
(* gold/agg_window_machine, recon/completeness_ledger).                    *)
(*                                                                         *)
(* Copies of the published events land in any order, any number of times   *)
(* (the consumer delivers at least once), or are lost; a build may run at  *)
(* any time and reads bronze before it reads the manifests.  A copy is     *)
(* <<event, number>>, 0 for the original.                                  *)
(***************************************************************************)
EXTENDS Manifest, StgEvents

CONSTANTS
    Ids, MachineOf, TypeOf, TimeOf, VersionOf,  \* the canonical events
    Seconds,                \* the duration of every cycle
    MaxInjected,            \* bound on the extra copies and the corrupt ones,
    MaxFaults,              \* and on these with lost copies and repeated landings
    HourTicks,              \* ticks of the clock in an hour
    Watermark,              \* watermark_hours
    Engine,                 \* "athena" or "duckdb"
    Start, MaxNow           \* the clock when the run begins, and its bound

ASSUME WarehouseAssumption ==
    /\ IsFiniteSet(Ids) /\ Ids \subseteq Nat
    /\ TypeOf \in [Ids -> EventType] /\ TimeOf \in [Ids -> Nat] /\ VersionOf \in [Ids -> 1..3]
    /\ Seconds \in Nat /\ Null \notin Nat /\ Null # "badge"
    /\ MaxInjected \in Nat /\ MaxFaults \in Nat
    /\ HourTicks \in Nat \ {0} /\ Watermark \in Nat
    /\ Engine \in {"athena", "duckdb"}
    /\ Start \in Nat /\ MaxNow \in Nat

VARIABLES
    extra, corrupt,         \* what the injector did: extra copies, unreadable copies
    bronze,                 \* how often each readable copy has landed
    lost,                   \* copies that will not arrive
    truth,                  \* manifest.jsonl, as the generator left it
    manifests,              \* the manifests table, filled window by window
    silver,                 \* slv_events of the last build, one row per event
    building,               \* the build has its silver and not yet its ledger
    ledger,                 \* completeness_ledger of the last build: a status per window
    now

vars == <<extra, corrupt, bronze, lost, truth, manifests, silver, building, ledger, now>>

-----------------------------------------------------------------------------
CopiesOf(more) == UNION {{id} \X (0..more[id]) : id \in Ids}
Copies == CopiesOf(extra)
Readable == Copies \ corrupt

\* The canonical stream: what the machines reported.
Canonical ==
    [id \in Ids |->
        LET p == NewPayload(TypeOf[id], Seconds, "badge")
        IN  [id |-> id, machine |-> MachineOf[id], type |-> TypeOf[id], time |-> TimeOf[id],
             publish |-> TimeOf[id], version |-> VersionOf[id],
             payload |-> CASE VersionOf[id] = 1 -> p
                           [] VersionOf[id] = 2 -> ToV2(p, TypeOf[id])
                           [] VersionOf[id] = 3 -> ToV3(p, TypeOf[id])]]

InjectionLog ==
    [NoInjections EXCEPT !.duplicated = [id \in {i \in Ids : extra[i] > 0} |-> extra[id]],
                         !.corrupt = {c[1] : c \in corrupt}]

-----------------------------------------------------------------------------
(* stg_events and slv_events. *)

\* A row of bronze is <<event, copy, landing>>: a copy that is delivered again
\* is a row of its own.
BronzeRows == UNION {{<<c[1], c[2], k>> : k \in 1..bronze[c]} : c \in Readable}

\* The row of an event in stg_events, and that of a row of bronze: a retry is
\* published later, and has a higher offset.
StgRow ==
    [id \in Ids |->
        LET e == Canonical[id]
        IN  [id |-> id, machine |-> e.machine, type |-> e.type, time |-> e.time,
             publish |-> e.publish, duration_s |-> StagedDuration(e.payload),
             operator_badge |-> StagedOperator(e.payload)]]
StagedRow(r) == With([StgRow[r[1]] EXCEPT !.publish = @ + r[2]], "landing", r[3])

\* Mutant of Survivors: distinct on what the publisher sent, the deliveries stay.
EveryDelivery(rows) == {r \in rows : \A s \in rows : s[1] = r[1] => r[2] <= s[2]}

\* copy_rank = 1: per event the earliest publish, and of the equal rows that
\* redelivery leaves any one.
Survivors(rows) ==
    {r \in rows : \A s \in rows :
        s[1] = r[1] => (r[2] < s[2] \/ (r[2] = s[2] /\ r[3] <= s[3]))}

SlvEvents == {StagedRow(r) : r \in Survivors(BronzeRows)}

\* The macro window_start.
SqlWindowStart(t) == (t \div WindowMinutes) * WindowMinutes

-----------------------------------------------------------------------------
(* agg_window_machine. *)

Window(row) == <<SqlWindowStart(row.time), row.machine>>

\* The aggregate of one group of rows.
AggWindowMachine(rows) ==
    [event_count |-> Cardinality(rows),
     unit_count |-> Count(rows, "cycle"),
     defect_count |-> Count(rows, "defect"),
     cycle_duration_sum |-> SumFunction([r \in OfType(rows, "cycle") |-> r.duration_s])]

\* fct_cycles: a row per completed unit, and its natural key and measures.
FctCycles ==
    {[cycle_key |-> r.id, window |-> Window(r), landing |-> r.landing, duration_s |-> r.duration_s,
      operator_badge |-> r.operator_badge] : r \in OfType(silver, "cycle")}

Gold == [key \in {Window(r) : r \in silver} |-> AggWindowMachine({r \in silver : Window(r) = key})]

-----------------------------------------------------------------------------
(* completeness_ledger. *)

\* date_diff('hour', window_start, current_timestamp): Athena counts whole
\* hours that passed, DuckDB the hour boundaries that were crossed.
AgeHours(start, at) ==
    IF Engine = "athena" THEN (at - start) \div HourTicks
    ELSE (at \div HourTicks) - (start \div HourTicks)

\* Observed less expected, each measure with its own corruption adjustment.
Deltas(m, o) ==
    <<o.event_count - (m.event_count - m.corrupt_count),
      o.unit_count - (m.unit_count - m.corrupt_cycle_count),
      o.defect_count - (m.defect_count - m.corrupt_defect_count),
      o.cycle_duration_sum - (m.cycle_duration_sum - m.corrupt_duration_sum)>>

AllZero(deltas) == \A i \in DOMAIN deltas : deltas[i] = 0

\* Mutant of Status: an inner join drops what only one side has.
InnerJoin(key, known, gold, at) ==
    IF ~(key \in DOMAIN known /\ key \in DOMAIN gold) THEN "reconciled"
    ELSE IF AllZero(Deltas(known[key], gold[key])) THEN "reconciled"
    ELSE "pending"

\* The case expression over the full outer join.
Status(key, known, gold, at) ==
    CASE key \notin DOMAIN known \/ key \notin DOMAIN gold -> "broken"
      [] key \in DOMAIN known \cap DOMAIN gold ->
            IF AllZero(Deltas(known[key], gold[key])) THEN "reconciled"
            ELSE IF AgeHours(key[1], at) < Watermark THEN "pending"
            ELSE "broken"

CompletenessLedger ==
    [key \in DOMAIN manifests \cup DOMAIN Gold |-> Status(key, manifests, Gold, now)]

-----------------------------------------------------------------------------
Injected(more, unreadable) == SumFunction(more) + Cardinality(unreadable)
Repeats == {r \in BronzeRows : r[3] > 1}
MoreFaults == Injected(extra, corrupt) + Cardinality(lost) + Cardinality(Repeats) < MaxFaults

\* The consumer lands a copy, or lands it once more after a restart.
Land(copy) ==
    /\ copy \in Readable \ lost
    /\ bronze[copy] > 0 => MoreFaults
    /\ bronze' = [bronze EXCEPT ![copy] = @ + 1]
    /\ UNCHANGED <<extra, corrupt, truth, lost, manifests, silver, building, ledger, now>>

\* A copy never arrives, by a fault of the transport or of the pipeline.
Lose(copy) ==
    /\ copy \in Readable \ lost
    /\ bronze[copy] = 0
    /\ MoreFaults
    /\ lost' = lost \cup {copy}
    /\ UNCHANGED <<extra, corrupt, truth, bronze, manifests, silver, building, ledger, now>>

Unwritten == {key[1] : key \in DOMAIN truth \ DOMAIN manifests}
OfWindow(start) == {key \in DOMAIN truth : key[1] = start}

\* write_manifests: ground truth goes straight to the lake, an object per window
\* with all its machines, in the order of the windows.
WriteManifests ==
    /\ Unwritten # {}
    /\ LET start == CHOOSE w \in Unwritten : \A v \in Unwritten : w <= v
       IN  manifests' = [key \in OfWindow(start) \cup DOMAIN manifests |->
                            IF key \in OfWindow(start) THEN truth[key] ELSE manifests[key]]
    /\ UNCHANGED <<extra, corrupt, truth, bronze, lost, silver, building, ledger, now>>

\* dbt build: silver is a table of what bronze holds now ...
BuildSilver ==
    /\ ~building
    /\ silver' = SlvEvents
    /\ building' = TRUE
    /\ UNCHANGED <<extra, corrupt, truth, bronze, lost, manifests, ledger, now>>

\* ... and gold and the ledger follow from it and the manifests of later.
BuildLedger ==
    /\ building
    /\ ledger' = CompletenessLedger
    /\ building' = FALSE
    /\ UNCHANGED <<extra, corrupt, truth, bronze, lost, manifests, silver, now>>

Tick ==
    /\ now < MaxNow
    /\ now' = now + 1
    /\ UNCHANGED <<extra, corrupt, truth, bronze, lost, manifests, silver, building, ledger>>

Init ==
    /\ extra \in [Ids -> 0..MaxInjected]
    /\ corrupt \in SUBSET CopiesOf(extra)
    /\ Injected(extra, corrupt) <= MaxInjected
    /\ bronze = [c \in Readable |-> 0]
    /\ truth = BuildManifest(Range(Canonical), InjectionLog)
    /\ lost = {}
    /\ manifests = <<>>
    /\ silver = {}
    /\ building = FALSE
    /\ ledger = <<>>
    /\ now = Start

Next ==
    \/ \E c \in Readable : Land(c) \/ Lose(c)
    \/ WriteManifests
    \/ BuildSilver \/ BuildLedger
    \/ Tick

Spec == Init /\ [][Next]_vars

\* The consumer lands what is not lost, the loader its manifests, and a build is
\* run again and again; the clock goes on.
FairSpec ==
    /\ Spec
    /\ WF_vars(\E c \in Readable : bronze[c] = 0 /\ Land(c))
    /\ WF_vars(WriteManifests)
    /\ WF_vars(BuildSilver) /\ WF_vars(BuildLedger)
    /\ WF_vars(Tick)

=============================================================================
