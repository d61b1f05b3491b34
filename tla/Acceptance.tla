----------------------------- MODULE Acceptance -----------------------------
(***************************************************************************)
(* The acceptance script (tools/acceptance.py): grade the live stack,      *)
(* destroy it, build it again, replay the events file into the empty lake  *)
(* with the loader, build the warehouse and compare the grades.  Any step  *)
(* may fail; the script then stops where it is.  Before and after it the   *)
(* operator loads and builds on his own.                                   *)
(***************************************************************************)
EXTENDS Loader

CONSTANTS
    Absent,             \* no table, no grade
    MaxTrials           \* bound on the runs of the script

\* A run of the line has a window.
ASSUME AcceptanceAssumption == Windows > 0

VARIABLES
    stage,              \* "off", or the step of main that runs next
    bucket,             \* the lake's bucket exists
    ledger,             \* completeness_ledger of the last build: [windows, broken]
    before,             \* the grade of the live stack, with its rows as a ghost
    exit,               \* the exit code of the last run; an exception is a 1 too
    rows,               \* ghost: what bronze held when the run was graded again
    trials

trial == <<stage, bucket, ledger, before, exit, rows, trials>>
allVars == <<vars, trial>>

-----------------------------------------------------------------------------
(* What a dbt build makes of the lake. *)

\* The window of a line; one without event lines is a window whose events were
\* all corrupted.
WindowOf(n) == n % Windows
EventLines(w) == {n \in DOMAIN file : file[n].kind = "event" /\ WindowOf(n) = w}

Known == 0..(manifests - 1)
LinesInSilver(w) == {r.line : r \in {q \in Stored(bronze) : WindowOf(q.line) = w}}
InGold == {w \in 0..(Windows - 1) : LinesInSilver(w) # {}}

\* Broken: on one side only, or counts that differ in a window past its watermark.
CompletenessLedger(old) ==
    [windows |-> Cardinality(Known \cup InGold),
     broken |-> Cardinality({w \in Known \cup InGold :
                    \/ w \notin Known \cap InGold
                    \/ old /\ LinesInSilver(w) # EventLines(w)})]

\* count(*) of bronze_events: a row that sits in two objects counts twice.
BronzeCount == Cardinality(UNION {{k} \X DOMAIN bronze[k] : k \in DOMAIN bronze})
\* The count of objects is reported and not compared.
Grade == [ledger |-> ledger, bronze |-> BronzeCount]

\* The rows with their provenance, and whether each is there once.
Provenance == {[part |-> r.part, offset |-> r.offset, line |-> r.line] : r \in Stored(bronze)}
EachOnce == BronzeCount = Cardinality(Provenance)

-----------------------------------------------------------------------------
(* The steps of main. *)

LoadEnded == pc \in {"done", "died"}
Fail == stage' = "off" /\ exit' = 1

\* Without the tables of an earlier build, or their bucket, the first query raises.
GradeBefore ==
    /\ stage = "off" /\ LoadEnded /\ trials < MaxTrials
    /\ trials' = trials + 1 /\ rows' = Absent
    /\ IF ledger = Absent \/ ~bucket
       THEN Fail /\ UNCHANGED before
       ELSE /\ stage' = "destroy" /\ UNCHANGED exit
            /\ before' = [grade |-> Grade, rows |-> Provenance, once |-> EachOnce]
    /\ UNCHANGED <<vars, bucket, ledger>>

\* Mutant of Destroy: the bucket survives, and nobody looks.
DestroyTables ==
    /\ stage = "destroy"
    /\ ledger' = Absent
    /\ stage' = "apply"
    /\ UNCHANGED <<vars, bucket, exit, before, rows, trials>>

\* The tables of dbt keep their data in the bucket too: a query on one whose objects are
\* gone finds no window, and no sum of the broken ones.
EmptyLedger == [windows |-> 0, broken |-> 0]

\* force_destroy empties the bucket; the Glue database goes with its tables, and the
\* script goes on when the bucket is gone.  A destroy that fails has removed any of the
\* three; objects are taken to go all or none.
Destroy ==
    /\ stage = "destroy"
    /\ \E lakeGone, tablesGone, bucketGone \in BOOLEAN :
         /\ bucketGone => lakeGone
         /\ IF lakeGone THEN bronze' = <<>> /\ quarantine' = <<>> /\ manifests' = 0
                        ELSE UNCHANGED lake
         /\ ledger' = CASE tablesGone -> Absent
                        [] lakeGone /\ ~tablesGone -> EmptyLedger
                        [] ~lakeGone /\ ~tablesGone -> ledger
         /\ bucket' = ~bucketGone
         /\ \/ Fail
            \/ bucketGone /\ tablesGone /\ stage' = "apply" /\ UNCHANGED exit
    /\ UNCHANGED <<file, pc, work, hour, loads, before, rows, trials>>

Apply ==
    /\ stage = "apply"
    /\ \/ bucket' = TRUE /\ stage' = "replay" /\ UNCHANGED exit
       \/ bucket' \in BOOLEAN /\ Fail
    /\ UNCHANGED <<vars, ledger, before, rows, trials>>

\* The loader as a subprocess ...
Replay ==
    /\ stage = "replay"
    /\ Reload
    /\ stage' = "wait"
    /\ UNCHANGED <<bucket, ledger, before, exit, rows, trials>>

\* ... whose end run() waits for, and raises if it died.
Replayed ==
    /\ stage = "wait" /\ LoadEnded
    /\ IF pc = "died" THEN Fail ELSE stage' = "build" /\ UNCHANGED exit
    /\ UNCHANGED <<vars, bucket, ledger, before, rows, trials>>

\* dbt build makes the tables, and fails on a broken window: the gate.
DbtBuild ==
    /\ stage = "build"
    /\ \E old \in BOOLEAN : ledger' = CompletenessLedger(old)
    /\ IF ledger'.broken > 0 THEN Fail ELSE stage' = "after" /\ UNCHANGED exit
    /\ UNCHANGED <<vars, bucket, before, rows, trials>>

\* Mutant of Identical: the ledgers alone.
IdenticalLedgers(one, other) == one.ledger = other.ledger

Identical(one, other) == one.ledger = other.ledger /\ one.bronze = other.bronze

GradeAfter ==
    /\ stage = "after"
    /\ rows' = [rows |-> Provenance, once |-> EachOnce]
    /\ exit' = IF Identical(before.grade, Grade) THEN 0 ELSE 1
    /\ stage' = "off"
    /\ UNCHANGED <<vars, bucket, ledger, before, trials>>

-----------------------------------------------------------------------------
(* The loader and the operator. *)

\* The operator's own loads into a bucket that is there, and builds between them.
Load == (stage = "off" /\ bucket /\ Reload) /\ UNCHANGED trial

Build ==
    /\ stage = "off" /\ bucket /\ LoadEnded /\ trials < MaxTrials
    /\ \E old \in BOOLEAN : ledger' = CompletenessLedger(old)
    /\ UNCHANGED <<vars, stage, bucket, before, exit, rows, trials>>

Running == (Program \/ Kill \/ NextHour) /\ UNCHANGED trial

InitTrial ==
    /\ Init
    /\ stage = "off" /\ bucket = TRUE /\ ledger = Absent /\ before = Absent
    /\ exit = Absent /\ rows = Absent /\ trials = 0

Script == GradeBefore \/ Destroy \/ Apply \/ Replay \/ Replayed \/ DbtBuild \/ GradeAfter

NextTrial == Running \/ Load \/ Build \/ Script

SpecTrial == InitTrial /\ [][NextTrial]_allVars

-----------------------------------------------------------------------------
\* A run that is graded again.
Graded == rows # Absent

\* Equal grades are equal lakes: an exit code of 0 means that the rebuilt bronze has
\* the rows of the old one with their provenance, each once, although only counts are
\* compared (acceptance.py:183-184, 3-8).
IdenticalMeansSameRows ==
    Graded /\ exit = 0 => before.rows = rows.rows /\ before.once /\ rows.once

\* The reconciliation is deterministic across a rebuild from nothing: a run that is
\* graded again finds the rows and the grade of a live lake that was loaded once and
\* reconciled, whichever hours the two loads fell into (acceptance.py:3-8).
RebuildIsDeterministic ==
    (Graded /\ before.once /\ before.grade.ledger = [windows |-> Windows, broken |-> 0])
      => exit = 0 /\ rows.rows = before.rows

=============================================================================
