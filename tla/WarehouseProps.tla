--------------------------- MODULE WarehouseProps ---------------------------
(***************************************************************************)
(* What makes the ledger a judgement: of windows that hold, of data that   *)
(* is lost, and of windows it is too early to tell about.                  *)
(***************************************************************************)
EXTENDS Warehouse

Windows == DOMAIN truth
EventsOf(key) == {id \in Ids : Bucket(Canonical[id]) = key}

\* An event some copy of which can reach bronze, one that has, one in silver.
Observable(id) == \E c \in Readable : c[1] = id
HasLanded(id) == \E r \in BronzeRows : r[1] = id
InSilver(id) == \E r \in silver : r.id = id

\* The windows the manifest's arithmetic is exact for: no event is only partly
\* corrupt (Disorder shows that), and something of the window can be observed.
PartlyCorrupt(id) == Observable(id) /\ \E c \in corrupt : c[1] = id
Exact(key) == \A id \in EventsOf(key) : ~PartlyCorrupt(id)
HasObservable(key) == \E id \in EventsOf(key) : Observable(id)

Reconciled(key) == key \in DOMAIN ledger /\ ledger[key] = "reconciled"

\* A loss shows: a window that is reconciled has every observable event in
\* bronze, whatever else landed, and however often
\* (completeness_ledger.sql:58-60, 21).
LossIsVisible ==
    \A key \in Windows :
       Reconciled(key) /\ Exact(key)
         => \A id \in EventsOf(key) : Observable(id) => HasLanded(id)

\* When everything has landed and is in silver, the next ledger reconciles every
\* window with something to observe: copies, order and versions leave no trace.
CompleteLakeReconciles ==
    \A key \in Windows :
       (/\ key \in DOMAIN manifests /\ Exact(key) /\ HasObservable(key)
        /\ \A id \in EventsOf(key) : Observable(id) => InSilver(id))
         => CompletenessLedger[key] = "reconciled"

\* Reconciled is a final verdict: later copies, repeated deliveries and rebuilds
\* never take it back.
ReconciledIsFinal ==
    [][\A key \in Windows : Reconciled(key) /\ Exact(key) => Reconciled(key)']_vars

\* In the end every exact window is reconciled, unless all copies of one of its
\* events are lost; then it is broken, and not pending for ever.
EventuallyJudged ==
    \A key \in {<<WindowStart(TimeOf[id]), MachineOf[id]>> : id \in Ids} :
       <>[](Exact(key) /\ HasObservable(key) =>
              IF \A id \in EventsOf(key) : Observable(id) => \E c \in Readable \ lost : c[1] = id
              THEN Reconciled(key)
              ELSE key \in DOMAIN ledger /\ ledger[key] = "broken")

\* A row of fct_cycles is a completed unit, however often its event was copied and
\* delivered, in the window of the manifest and with the operator and the seconds it
\* would have had in the first version: the drift stops at staging
\* (fct_cycles.sql:3-7, stg_events.sql:5-13, 37-49).
CycleFactsAreUnits ==
    \A f \in FctCycles :
        /\ \A g \in FctCycles : g.cycle_key = f.cycle_key => g = f
        /\ f.window = Bucket(Canonical[f.cycle_key])
        /\ f.operator_badge = "badge" /\ f.duration_s = Seconds

-----------------------------------------------------------------------------
(* What the documents say, and the code does not do. *)

\* manifest.py:77-79 and sources.yml:79-81: the checksum catches "a lost event
\* plus a phantom one": in a reconciled window nothing is lost.
NothingLostInReconciled ==
    \A key \in DOMAIN ledger :
       Reconciled(key) =>
          \A id \in EventsOf(key) : (\A c \in corrupt : c[1] # id) => HasLanded(id)

=============================================================================
