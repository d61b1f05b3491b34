------------------------------ MODULE Manifest ------------------------------
(***************************************************************************)
(* The ground-truth manifest (generator/manifest.py): what a machine       *)
(* reported in one event-time window, and which of it the injector         *)
(* corrupted, delayed or published again.  Pure operators over the set of  *)
(* canonical events and the injection log; an event is a record with id,   *)
(* machine, type, time, publish, version and payload.                      *)
(***************************************************************************)
EXTENDS Events, FiniteSets, Functions

CONSTANT WindowMinutes      \* width of a window; times are in the same unit

ASSUME WindowAssumption == WindowMinutes \in Nat \ {0}

WindowStart(t) == t - (t % WindowMinutes)

\* The grain of manifest, gold and ledger.
Bucket(event) == <<WindowStart(event.time), event.machine>>
InBucket(events, key) == {e \in events : Bucket(e) = key}

OfType(events, type) == {e \in events : e.type = type}
Count(events, type) == Cardinality(OfType(events, type))

DurationSum(events) ==
    SumFunction([e \in OfType(events, "cycle") |-> CycleDurationSeconds(e.payload)])

\* InjectionLog as the injector starts it.  duplicated maps an id to its number
\* of extra copies, skewed a machine to its offset.
NoInjections == [late |-> {}, duplicated |-> <<>>, out_of_order |-> {}, skewed |-> <<>>,
                 v2 |-> {}, v3 |-> {}, corrupt |-> {}]

ExtraCopies(log, id) == IF id \in DOMAIN log.duplicated THEN log.duplicated[id] ELSE 0

\* Mutant of WindowManifest: every measure is adjusted by the total number of
\* corruptions, the ledger's old bug (manifest.py:97-103).
TotalCorruptForEveryMeasure(events, log) ==
    LET corrupt == {e \in events : e.id \in log.corrupt}
    IN  [event_count |-> Cardinality(events), cycle_count |-> Count(events, "cycle"),
         defect_count |-> Count(events, "defect"), unit_count |-> Count(events, "cycle"),
         cycle_duration_sum |-> DurationSum(events), event_id_checksum |-> {e.id : e \in events},
         corrupt_count |-> Cardinality(corrupt), duplicate_extra_count |-> 0, late_count |-> 0,
         corrupt_cycle_count |-> Cardinality(corrupt),
         corrupt_defect_count |-> Cardinality(corrupt), corrupt_duration_sum |-> DurationSum(corrupt)]

\* One window of one machine.  The checksum over the sorted ids is modelled by
\* the set of ids: it depends on nothing else and does not collide.  A unit is
\* a cycle.  The counts of state changes and scans, which the ledger never
\* compares, are left out.
WindowManifest(events, log) ==
    LET corrupt == {e \in events : e.id \in log.corrupt}
    IN  [event_count |-> Cardinality(events),
         cycle_count |-> Count(events, "cycle"),
         defect_count |-> Count(events, "defect"),
         unit_count |-> Count(events, "cycle"),
         cycle_duration_sum |-> DurationSum(events),
         event_id_checksum |-> {e.id : e \in events},
         corrupt_count |-> Cardinality(corrupt),
         duplicate_extra_count |-> SumFunction([e \in events |-> ExtraCopies(log, e.id)]),
         late_count |-> Cardinality({e \in events : e.id \in log.late}),
         corrupt_cycle_count |-> Count(corrupt, "cycle"),
         corrupt_defect_count |-> Count(corrupt, "defect"),
         corrupt_duration_sum |-> DurationSum(corrupt)]

BuildManifest(events, log) ==
    [key \in {Bucket(e) : e \in events} |-> WindowManifest(InBucket(events, key), log)]

=============================================================================
