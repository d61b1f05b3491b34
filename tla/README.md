# factorystream: a verification development

factorystream simulates a plant, injects disorder into its event stream, sends the stream
through Kafka into a parquet lake, and compares the lake with ground truth in a
completeness ledger. This directory holds TLA+ models of it, the TLC configurations that
check them, and theorems that TLAPS checks for every value of their constants: of the
properties that hold in the runs, all but the two of liveness are stated by a theorem.
Every definition is translated from the code; `PROJECT.json` names, for each, the lines it
stands for, and lists the hazards the properties are for. Python paths below are relative
to `src/factorystream/`, SQL paths to `transform/models/`.

## The system

| part | code | state | operations |
|---|---|---|---|
| machine simulator | `generator/sim.py`, `plant/canon.yaml` | per machine: clock, state, order, units, operator | shifts, breaks, changeovers, units, stops |
| event contract | `generator/events.py` | none | payload shapes, `to_v2`, `to_v3`, duration in seconds |
| disorder injector | `generator/disorder.py` | the stream in hand, the injection log | skew, drift, lateness, reordering, duplication, corruption |
| ground truth | `generator/manifest.py` | none | one manifest per window and machine |
| contract registry | `contracts/registry.py` | the contract files | validate, compare |
| producer | `consumer/producer.py` | client queue, delivery failures | contract gate, publish, flush |
| bronze consumer | `consumer/consumer.py` | one buffer per partition; committed offset at the broker | poll, flush, commit, stop, idle exit |
| bronze writer | `consumer/writer.py` | objects in S3 or a directory | write bronze, quarantine, manifests |
| direct loader | `consumer/load.py` | offsets and batches per partition | load a file without a broker |
| staging, silver, gold | `staging/`, `silver/`, `gold/` | tables of the last build | conform, deduplicate, aggregate |
| completeness ledger | `recon/completeness_ledger.sql` | a verdict per window and machine | compare gold with ground truth |
| status page | `tools/build_status_page.py` | none; the published page | query the ledger, render, exit code |
| acceptance script | `tools/acceptance.py` | the grade before | grade, destroy, apply, replay, build, grade again |
| teardown check | `tools/teardown_verify.py` | findings and errors of a sweep | one describe call per service and region, report |

The simulator's events go to the injector, which leaves a stream of published
lines and a manifest computed from its canonical snapshot. The producer checks
the lines against the contracts and publishes them, keyed by machine. The
consumer (or, without a broker, the loader) lands them in bronze and quarantine
and the loader writes the manifests beside them. A dbt build turns bronze into
silver and gold, and the ledger compares gold with the manifests. The status page
publishes what the ledger says. The acceptance script tears the whole lake down, loads
it again with the loader and compares the two ledgers; the teardown check reads the
account afterwards and reports what still bills.

What is hard in it:

- **Failure between two effects.** A flush is two writes and a commit; any of
  them may fail, take effect without an answer, or be the last thing the process
  does. The same is true of the loader's writes.
- **At-least-once everywhere.** Replays, broker retries and injected duplicates
  meet in bronze; names of objects and deduplication must absorb them.
- **State kept across an event that invalidates it.** Buffers survive a
  rebalance, an order survives a shift, a build reads its sources at two moments.
- **Order.** The injector's stages, the records of a window, the versions of a
  contract and the events of a machine each have an order that something
  downstream relies on.
- **A look at something that moves.** The page is put together from several queries
  while builds go on; the teardown check takes minutes to walk an account that changes,
  with calls that fail.
- **Arithmetic of adjustments.** The ledger's expected counts are ground truth
  less what was corrupted, measure by measure, in two units of time.

What makes each part correct: the **consumer** loses nothing below its committed
offset, never moves it back, and gets everything landed in the end. **Objects**
hold what their names say. The **loader** can be killed and repeated. The
**producer** accounts for each line it takes. The **injector**'s ground truth
describes what is published. The **ledger**'s verdict is sound, final and
eventually given, and a green **page** stays true. The **acceptance script** says
"identical" of equal lakes, and of every lake that reconciled. The **teardown check**
says "clean" only of what it could see. A **machine**'s events tell one story. A **compatibility
verdict** means what it says to a reader of the data.

## Modules

| module | models | kind |
|---|---|---|
| `BronzeConsumer` | `consumer.py`, `write_bronze` and `write_quarantine` of `writer.py`; broker, coordinator and store as the consumer uses them | state machine, one action per step |
| `BronzeConsumerProps` | its properties and inductive invariant; refinement mapping to `Landing` | properties |
| `Landing` | at-least-once landing, what the consumer promises | abstract specification |
| `BronzeConsumerProofs` | its theorems, for groups of any size whose partitions change hands when nothing is held: types, no loss, names, the offset, the refinement of `Landing`, clean exits, the batch at risk, unique rows in calm | proofs |
| `Events`, `StgEvents` | `generator/events.py`; `staging/stg_events.sql` and the macros it uses | operators |
| `Manifest` | `generator/manifest.py` | operators |
| `Disorder`, `DisorderProps` | `generator/disorder.py`, in the order of `generator/cli.py` | state machine, one action per stage or per event of a stage |
| `Warehouse`, `WarehouseProps` | silver, the fact table of cycles, gold aggregate and ledger over a lake that is still filling | state machine |
| `StatusPage` | `tools/build_status_page.py` over `WarehouseProps` | state machine |
| `Loader` | `consumer/load.py` with `BatchWriter`'s names | state machine |
| `Acceptance` | `tools/acceptance.py` over `Loader` | state machine, one action per step of `main` |
| `Teardown` | `tools/teardown_verify.py` and the account it scans | state machine |
| `Producer` | `consumer/producer.py` with its client | state machine |
| `MachineSim` | one machine of `generator/sim.py` | state machine |
| `Contracts` | `compare`, `validate` | state machine: released versions |
| `DisorderProofs`, `WarehouseProofs`, `LoaderProofs`, `TeardownProofs`, `ProducerProofs`, `MachineSimProofs`, `ContractsProofs` | theorems about the injector, the warehouse and its page, the loader and the script, the teardown check, the producer, a machine, the verdicts | proofs |
| `MC*` | instances for TLC | |

`Disorder` and `Warehouse` compose `Events` and `Manifest`; `Warehouse` composes
`StgEvents` as well, so that one definition of a payload, of a window and of ground truth
is used on both sides of the pipeline. `DisorderProps` states with `FeedsTheWarehouse`
that what the injector leaves is what `Warehouse` begins with. `StatusPage` composes the
page with the warehouse, and `Acceptance` the script with the loader.
`BronzeConsumerProps` instantiates `Landing`. The consumer and the loader share the naming
of objects with the code, and each model states it for its own rows.

### BronzeConsumer

`log`, `committed`, `group`, `owner` and `position` are the broker and the
client's fetch positions; `bronze` and `quarantine` map object keys to rows, a
row being its offset; `buffers` is `self.buffers`, and `proc` holds the control
state of each process: where it is (`pc`), `self._running`, the idle count, the
`finally` block (`closing`), an exception on its way (`failed`), the partition
being flushed and those a sweep still has to visit.

`PollMessage`, `PollNone`, `PollError` are the three outcomes of `poll`.
`SweepVisit` and `SweepDone` are `_flush_due` and, when `closing`, `_flush_all`.
`WriteBronze`, `WriteQuarantine`, `Commit` are the three effects of
`_flush_partition`, with a step of any other actor possible between them;
`FailBronze`, `FailQuarantine`, `FailCommit` are the same calls failing, with or
without effect; `PoisonBronze` is a batch that no schema accepts, and `PoisonQuarantine`
the same of rejects, of which one carries a `machine_id` that is no string (a *misnamed*
message). `PollRaises` is a message on which `parse_message` raises what it does not
catch. An exception goes through the `finally` block (`Raise`), and one inside that block
ends the process before `close()`. `Crash` is possible anywhere, `Stop` is the
signal handler, `Start` is `main` in a new process. `Rebalance` hands out every
partition anew; as no revoke callback is registered, it leaves the buffers alone.
A write leaves the old object, the new one or, in a local directory, a torn one
(`Remains`).

### Disorder, Manifest, Events, StgEvents

`stage` is the step of `inject` that runs next, `cursor` the event it looks at,
`working` the list, `canonical` the snapshot between drift and lateness, and
`records` the publish list. A stage that sorts leaves a stream that is a permutation of
the one before and is sorted; the order is total, so there is one. Every seeded draw is a
choice. A corrupt record keeps
its event as a ghost and is not readable. The checksum over sorted ids is the
set of ids.

### Warehouse

`extra` and `corrupt` are what the injector did; `bronze` counts how often each
readable copy has landed, so that a row is <<event, copy, landing>>; `lost` are the
copies that never will. `Survivors` picks one row per event, as `copy_rank = 1` does:
by time of publication among copies, and among equal deliveries any one. `BuildSilver`
reads bronze, `BuildLedger` reads the manifests at a later moment, and copies and
manifests arrive in between and between builds. `FctCycles` and `Gold` are computed
from the same silver. `Status` is the case expression of the ledger over the full outer
join.

### StatusPage

`QuerySummary` is the first query of `gather`, the only one that the verdict, the
counts and the exit code use; the other four can only fail (`QueryRaises`), which ends
the program with nothing written, or succeed (`Render`). Everything of `Warehouse` goes
on in between.

### Acceptance

`stage` is the step of `main` that runs next; any step may fail and leaves the script
where it is, `Destroy` after it has removed any part of the lake, the tables and the
bucket. `Replay` starts the loader of `Loader`, step by step and killable, and `Replayed`
waits for it. `DbtBuild` fails on a broken window, as the gate of the project does. Its
ledger is a count of windows and of broken ones over the lines in bronze, which is what
the script grades. Before, between and after its runs the operator loads and builds
himself. The tables of dbt have their data in the lake's bucket (`dbt_project.yml:45`): when
a destroy fails after it has emptied the bucket and left the tables, the next run grades
an empty ledger (`EmptyLedger`), and without the bucket its first query raises.

### Teardown

`cursor` walks the describe calls over all regions, in the order of the program.
`Answer`, `BenignError` and `OtherError` are the three outcomes of `_safe`;
`ListRegions` is `enabled_regions` with its fallback, `Finish` the allow list, the
verdict and the exit code. `Create`, `Delete` and `CredentialsEnd` are the account
meanwhile. Some services list what was deleted for a while (`gone`, for the kinds of
`ListDeleted`), and `Billing` is what the program makes of it: it looks at the state of NAT
gateways and instances (`StateChecked`) and reports whatever the other calls list. A kind
may be on the program's list of what bills (`IdleBillable`) without a call that asks for
it. What is free by its kind (a gateway endpoint) is no resource of the model; an attached
elastic IP is one, because the program reports it. `stayed` and `seen` are ghosts that say
what billed all the time and at any time, and `blind` names the four ways in which an answer
shows less than there is: a cut page, a list of regions that was not to be had, a key that
AWS does not know, and any other failure of a service in use whose text holds one of the
parts that count as "nothing there" ("not supported", "InvalidAction", "AuthFailure").

### Loader, Producer, MachineSim, Contracts

`Loader` walks the file line by line (`ReadLine`, `SkipBlank`, `ScalarRaises`), flushes a
partition when a batch is full and all of them at the end, then writes the manifests;
`Kill` stops it between two steps and `Reload` starts it again. `Producer` has
`CheckContract`, `Produce`, `EndOfFile` and the outcomes of `flush`, against a client with
a bounded queue whose reports are served only by `poll` and `flush`, and a broker that
acknowledges, fails, or stores and fails. `MachineSim` has one action per turn of the loop
of `_run_shift` (break, new order, unit) and one for each end of it; the breaks still to
come are a set of indices of the shift's list, and the earliest is taken first, as from
the sorted list of the code. `Contracts` releases versions one by one, any schema over the
fields, and compares the verdict on each pair with what a validating reader does. A
declaration is a type and a bound (`minimum` or `exclusiveMinimum` of 0, as in the
contracts), and values are of five classes that these tell apart. `validate` enforces both
and the required list; `compare` looks at types and at names that come or go. What it does
not look at is named: `Overlooked(reader, writer)` are the fields of both versions of
which the reader asks more than the writer under the same type. Such a step is FULL in the
report, and its reader refuses old data.

## Runs

| run | module, cfg | shows |
|---|---|---|
| crash | `MCBronzeConsumer_crash` | a lone process reading from the beginning, two failures of any kind, events, garbage, poison and misnamed rejects: no loss below the offset, the offset never moves back, names fix rows, what a process holds is given again to a restart, a clean exit commits all, `Landing` is implemented, and the inductive invariant holds |
| live | `MCBronzeConsumer_live` | all messages the loop can reach are landed and committed in the end, in spite of a failure, a rebalance, idle exits and messages that raise; at most one batch is ever at risk; in calm nothing is written twice |
| replay (violation) | `MCBronzeConsumer_replay` | `BronzeRowsUnique`: a replayed batch is cut elsewhere, or in another hour, and a row sits in two objects |
| stale (violation) | `MCBronzeConsumer_stale` | `CommittedIsDurable` with two members: a buffer that survived a rebalance overwrites another member's object by fewer rows |
| inject | `MCDisorder_inject` | with every class of disorder the manifest still describes what is published, the log is exact, and what is left is what the warehouse begins with |
| lossy | `MCStatusPage_lossy` | with an extra or a corrupt copy, a loss and repeated deliveries: verdicts are sound, final, in the end given; the fact table has a row per unit; a green page stays true |
| netted (violation) | `MCWarehouse_netted` | `NothingLostInReconciled`: the surviving copy of an event counted as corrupt makes up for one that never arrived |
| publish | `Producer_publish` | every line handed over is accounted for; a clean run leaves a complete, ordered topic |
| load | `MCAcceptance_load` | names and offsets depend on the file alone; manifests only describe a loaded lake; a reload in the same hour changes nothing; "identical" means equal rows, and a lake that reconciled is rebuilt row by row, also in a run of the script after one that failed anywhere, with whatever its destroy left behind |
| shifts | `MCMachineSim_shifts` | transitions chain, units count from one and are keys, badges are on duty, time runs forward within a shift |
| compare | `MCContracts_compare` | a verdict promises nothing a validator does not keep, unless a bound or a required list was tightened; is exact without changes of type, and so is this exception; full steps that overlook nothing compose over versions |
| teardown | `MCTeardown_teardown` | a clean verdict of a scan that was not blind means that nothing some call lists billed throughout, one failed call hides nothing after it, and what is reported did bill or is listed on after its deletion, its state not looked at |

*replay* and *netted* contradict a sentence of the code, quoted in `PROJECT.json` under
`findings`; *stale* contradicts the module's own promise ("re-delivery, not loss") for a
group of several members.

### Bounds, and why they are enough

- **crash**: two partitions, a batch of two, two messages each (topics may be
  pre-filled or grow), two disruptions. Two disruptions make a failure inside the
  recovery from another; two partitions make a sweep fail with work left; every
  mix of record and reject in a batch occurs. The theorems lift all these bounds.
- **live**: three messages with a batch of two leave a partial batch behind that
  only age or an exit can flush; idle exits happen after two empty polls.
- **replay**: two messages and two hours. **stale**: four messages, two members and
  two unforced rebalances, the least that takes a partition away and back.
- **inject**: three events of two machines in two windows, skew of a whole window
  either way, both cutovers, two extra copies and two corruptions, so that one event
  is duplicated and partly corrupted.
- **lossy**: three events in two windows, one per version, two types; one extra copy or
  one corrupt one, and with it two faults in all, so that an injected copy meets a loss
  or a repeated delivery. The first window is already past its watermark when the clock
  starts and the second passes it on the way, so late and pending windows stand side by
  side in one ledger. With one injection every window is exact. One page is published,
  at any moment. **netted**: two events of one window, with an extra copy and a corrupt
  one together and three faults.
- **publish**: all files of three lines, a queue of two (so it fills), reports served
  every second line, two runs. **load**: all files of three lines, of a machine and
  without a key, which fall into two partitions; batches of two, so that one full batch
  and one partial batch per partition, across the hour, occur; four loads, two hours and
  two runs of the script, the least that loads, fails in a destroy, loads again by hand
  and runs the script to its end.
- **shifts**: two adjacent shifts, the first with two breaks that the calendar lists out
  of order; orders of one or three units; changeovers, cycles and stops long enough to
  overrun the break and the shift.
- **compare**: two fields of four declarations, all sequences of three versions. Among the
  declarations are pairs that differ by type, by bound under one type, and by both; the
  fields are interchangeable. The theorems hold for all declarations.
- **teardown**: two regions, one of them a default one, two calls, of which one has its
  state looked at and both list what was deleted, four resources of which two share a call
  whose page holds one (and are interchangeable) and one is of a kind no call lists, and
  two changes during the scan.

Deadlock is checked in the consumer's runs, where a process can always poll or be
started. It is not checked where the program ends (`Disorder`, `Loader` under
`Acceptance`, `Producer`, `MachineSim`, `Teardown`), where the clock is bounded
(`Warehouse` under `StatusPage`), or where the bound on versions ends the run
(`Contracts`).

### Fairness

Only two specifications assume any; `StatusPage` takes over the second.

*Consumer* (`FairSpec`). A running process takes its next step
(`WF(Progress(c))`): it is a sequential program and its calls return or raise.
`Progress` includes `PollNone` because traffic is finite here: once a client has
read all there is, polls do come back empty. A client that polls again and again
gets the waiting messages of each partition it owns (`SF(PollMessage)`; strong,
because a sweep disables it in between). Buffers age with the clock; the coordinator
notices changed membership; a process that ended is started by the next duty cycle.
Nothing is assumed of crashes, stops or failed calls beyond that they are finitely
many.

*Warehouse* (`FairSpec`). What is not lost is landed, which is what `EventuallyLanded`
shows of the consumer; manifests are written; builds are run again and again; the
clock goes on. `FairPage` assumes the same, and nothing of the page: nobody has to
publish one.

## Proofs

The theorems hold for every value of the constants that satisfies the assumptions of the
component's module, and for behaviours of any length: files, queues, groups, calendars,
fields and accounts of any size. Each is stated beside its proof; the lemmas say what the
operators of a model return, keep or bound, and there is one per kind of step.

| theorem | states | assumes |
|---|---|---|
| *consumer* `TypeCorrect` | `Spec => []TypeOK` | nothing more: any group, any failures, rebalances, either kind of store |
| `FlushesHaveWork` | `[]FlushHasWork`: a flush has a batch, and no offset passes the end of the log | nothing more |
| `LandingAlways` | `[](TypeInv /\ LandingInv)`, the inductive invariant | `GroupSpec`, `Steady` |
| `NoLoss` | `[]CommittedIsDurable` | `GroupSpec`, `Steady` |
| `HeldIsRedelivered` | `[]BufferedIsRedelivered`: what a process holds and has not landed is given again to a restart | `GroupSpec`, `Steady` |
| `NamesFixRows` | `[]KeyDeterminesRows` | `GroupSpec`, `Steady` |
| `CommitNeverRegresses` | `CommittedNeverRegresses` | `GroupSpec`, `Steady` |
| `RefinesLanding` | `ImplementsLanding`: the consumer is an implementation of `Landing` | `GroupSpec`, `Steady` |
| `BatchAtRisk` | `[]AtMostABatchAtRisk` | `GroupSpec`, `Steady` |
| `CleanExit` | `[]CleanExitCommitsAll` | `GroupSpec`, `Steady` |
| `CalmRowsUnique` | `[]BronzeRowsUniqueInCalm` | `GroupSpec`, `Steady` |
| `SoleMemberHandsOver` | `Spec => GroupSpec` | `SoleMember`, `Steady` |
| `OneMember` | the eight properties of the consumer above, of `Spec` | `SoleMember`, `Steady` |
| *injector* `InjectorAlways` | `[]Inv`, the inductive invariant | |
| `TransportKeepsEvents` | `[]RecordsAreCanonical` | |
| `CutoversFollowTime` | `[]CutoverByEventTime` | |
| `WarehouseIsFed` | `[]FeedsTheWarehouse` | |
| `PipelineAndManifestAgree` | `[]WindowsAgree` | |
| `LedgerExpectsTheObservable` | `[]ExpectationsAreObservable` | |
| *warehouse* `LossShows` | `[]LossIsVisible`: a reconciled exact window has all its events | |
| `CompleteReconciles` | `[]CompleteLakeReconciles`: the converse, once the copies and the manifest are there | |
| `FactsAreUnits` | `[]CycleFactsAreUnits` | |
| `VerdictIsFinal` | `ReconciledIsFinal`, an action property | |
| `PageRefinesWarehouse` | `SpecPage => Spec`: what holds of the warehouse holds under the page | |
| `GreenIsTrue` | `SpecPage => []GreenPageIsTrue` | |
| *loader* `RowsOnce` | `[]RowsOncePerSlot` | these four of `Spec`, and of `SpecTrial`: alone, and with the script destroying the lake under it |
| `OneLinePerOffset` | `[]OffsetsNameLines` | |
| `ManifestsLast` | `[]LoadedBeforeManifests` | |
| `ReloadIsIdempotent` | `ReloadChangesNothing`, an action property | |
| *script* `EqualGradesMeanEqualRows` | `SpecTrial => []IdenticalMeansSameRows` | |
| `RebuildComesOutTheSame` | `SpecTrial => []RebuildIsDeterministic` | |
| *producer* `EverythingIsAccounted` | `[]SentIsAccounted` | |
| `CleanRunIsComplete` | `[]CleanRunPublishesAll` | |
| *teardown* `CleanExitMeansLooked` | `[]CleanMeansLooked` | |
| `FailuresHideNothing` | `[]NothingHidesTheRest` | |
| `NoFalseAlarm` | `[]FindingsAreReal` | |
| *machine* `StatesAreAWalk` | `[]StatesChain` | |
| `UnitsAreCounted` | `[]UnitsCountFromOne` | |
| `OperatorsOnDuty` | `[]OperatorsAreOnDuty` | |
| `TimeRunsForward` | `[]ShiftsRunInOrder` | |
| *contracts* `VerdictsAreSound` | `[]VerdictIsSound` | |
| `VerdictsAreExact` | `[]VerdictIsExact` | |
| `NeighboursAreEnough` | `[]FullStepsCompose` | |

### The consumer

`Steady` is `FromBeginning = TRUE /\ Root = "s3"`: `--from-beginning`, and atomic puts.
`GroupSpec` is the behaviour of a group of any size in which a rebalance finds every
buffer empty (`HandOver`): members come, crash, leave and take over from each other, and
what is in memory is gone or committed when the coordinator assigns anew. Each hypothesis is
needed: *stale* refutes the claim for two members of `Spec`; without the flag a client that
committed nothing starts at the end of the log; and a local file can be torn. `HandOver` is
what a flush on revocation would give, and the code registers no callback that would do
it, so for several members the theorems say what is enough, not what the code ensures.

For one member the code does ensure it. `SoleMemberHandsOver` proves of `Spec`, with no
hypothesis on its steps, that partitions of a sole member are assigned only when it holds
nothing, provided that the coordinator does not rebalance it while it runs
(`MaxRebalances = 0`), and `OneMember` carries the eight properties over. One process per
run on S3 is how the pipeline is operated; `make replay` gives the flag, and
`make consume` does not: there the theorems do not speak of a group's first run.

The first two theorems use `TypeInv`, the conjunction of `TypeOK` and `FlushHasWork`:
`Commit` takes the highest offset of a batch, which is a number only if the batch is
not empty, so neither is inductive without the other.

The other safety theorems rest on `LandingInv`. No loss says nothing about memory, and is
not inductive: it must be known that a buffer holds an *unbroken* range of offsets that
ends at the fetch position (`BufferInv`), that what the process has read is in the
buffer or has landed, and that a flush which reached the commit has both its writes
in the lake (`FlushInv`). Then the offset a commit publishes covers landed messages
only. Overwriting an object must lose no row, so each object must hold exactly the
messages its name promises (`ObjectsInv`); a range in a name fixes the rows because
buffers have no gaps. `AssignmentInv` says that only the owner of a partition holds
messages of it, so no old buffer is ever flushed late, and whoever flushes a partition owns
it (`BatchBeforeCommit`); a step of one process leaves what the others own alone (`Apart`).
`CommitInv` is the claim, with the fetch position never behind the committed offset.
`HeldIsRedelivered` needs no more: buffers are unbroken up to the fetch position, and the
committed offset has landed messages only below it.

`RefinesLanding` sorts the steps by what `Landing` can see of them: nothing, a
publication, the writes of the batch in hand, or its commit (`StepKinds`). The
invariant then says that the writes add landed messages and take none away, and that the
commit acknowledges a landed prefix.

`BatchAtRisk` and `CleanExit` add `BatchInv`, which holds of any group: a buffer is at
most a batch, and the sweep of the `finally` block has emptied each partition it has
left behind. With `RiskInv`, what was read beyond the committed offset is in that
buffer. `CalmRowsUnique` adds that, as long as nothing has failed, buffers hold only what was
never committed and bronze only what was, or is being flushed (`HeldAnew`, `WrittenInv`).
It is stated without misnamed rejects: then no flush fails of itself (`AllFit`).

### The injector

`Inv` says of each stage what it may not undo. The list in hand is every event of the run
once (`StreamInv`): a sort is a permutation, a swap exchanges two of its places, and skew,
drift and lateness change an event in place. An event is what the simulator made of its
id but for its two times and its version, and the payload is the one of that version
(`EventSet`). Before the snapshot versions are in the order of event time
(`VersionInv`), because what follows a cut in a list sorted by time is as late as what
precedes it. After it, each event in the list comes from one of the snapshot, later in
publish time at most (`CanonicalInv`, `From`), and so does each record (`RecordInv`).
`CopiesInv` counts: of an event whose turn in the duplication stage has passed there is one
record more than the log says, and the original is the first of them; of the others there
is one and no entry. The log of corruption is the set of events with an unreadable record
(`LogInv`), and the manifest, once written, is that of the snapshot and the log.

What is left at the end of the run follows. Windows agree because every copy carries the
time of its event in the snapshot. For the ledger the argument is the one of the warehouse: in a
window without a partly corrupt event what is corrupt and what can be observed divide
what was counted, type by type, so each count of the manifest less its correction is
the number of observable events, and sums of durations, which differ by version in the
payload and not in seconds, are that number times the duration (`SumOfConstant`).

### The warehouse and its page

`WarehouseInv` relates four moments: ground truth tells of the windows of the injection
(`TruthInv`); bronze counts landings of readable copies, and a manifest in the lake is the
generator's (`LakeInv`); silver has one row per event, of a copy that landed
(`SilverInv`); and a reconciled verdict of an exact window is *settled* (`LedgerInv`): its
manifest is loaded, and each of its observable events is in silver. The last is what must be
carried along: silver is built anew between two ledgers, so a verdict may be older than
the rows, and holds because what was in silver is in a lake that only grows. From counts
that agree to sets that agree the argument is cardinality: what silver observes in an
exact window is a subset of what can be observed, and equal counts make it equal. Sums
over sets of equal terms are products (`SumOfConstant`, by induction over the number of
elements). `PageInv` says of the answer of the first query what `LedgerInv` says of the
ledger, at the moment of the query; the lake grows, so the page stays true while builds
go on.

### The loader

A load is killed anywhere and run again, so no count of what happened helps. The invariant
(`LoadInv`) says instead that memory and the lake are functions of the file: the next
offset of a partition is the number of its lines before the next line (`OffsetOf`), what waits
for a write is what was read since the last full batch, and each object holds
the rows of one such batch, whole, under the name that its first and last offsets make
(`StoreInv`). Two loads then write the same object or two that share no row. While a load runs,
every batch before the line it reads is in the lake unless it waits in memory. Under the
script (`TrialInv`) it must be known that no load runs when the lake is destroyed: the
script has waited for its end. `Partitions \subseteq Nat` is assumed, as partitions are
numbered.

### The acceptance script

The script compares counts, before and after, and what must follow is that the rows are
equal, or that equal rows give equal counts. Both hold because a lake that has every line of the file, each
once, can only be one (`AllRows`, a function of the file), whichever loads wrote it. What has
to be known for this, beyond `TrialInv`: a ledger without a broken window was built from a
lake that had every line, and the lake loses none until it is destroyed, when the ledger is
gone or empty with it (`LedgerInv`); `once` compares a count of rows, summed over objects, with a set of them, and the two
agree when no line is in two objects (`BeforeInv`); and the load of the script itself starts
from an empty bucket with no other load beside it, so it writes every line into one object
(`OnceInv`, `StageInv`). The second grade is then always the same (`AfterInv`), and equals
the first just when the first was of a complete lake, each row once. A count of rows is a
number of cells <<object, place>>, and a bijection from cells to lines turns it into a number
of lines. `Windows > 0` is assumed: with no window at all the ledger of any lake is
without a broken one, and says nothing.

### Producer, teardown check, machine, contracts

`PublishInv`: the queue is the last lines read, in order (`QueueInv`); the lines that left
it are as many as are on the topic and acknowledged, have failed and been counted, or have
a failure among the reports not served yet (`AccountInv`); and as long as none has failed
the topic ends with this run's lines in the order of the file (`OrderInv`), which exit
code 0 (`ExitInv`) and an empty queue turn into the whole file.

`ScanInv`: what billed throughout has billed, is not among what was deleted, and belongs
to a service the account is enrolled in, and what was deleted and is listed is of a kind that
is listed on (`AccountInv`); the regions scanned are those asked
for unless the list could not be had (`RegionsInv`); and each call behind the cursor covers
what billed throughout where it looked: it was found or allowed, or the call is among the
errors, or its page was cut or its key unknown, or it failed in a way that counts as
nothing there (`LookedInv`). The calls are numbered over
all regions, and a number is a region and a call by division.

`StoryInv` is about a list of events that each action makes longer by several at once. Its
parts (the walk of states, the badge on duty, the numbers of units, the clock) are
predicates of the events and of what the machine knows at their end (`Told`), carried over
one event at a time; an action is then the sequence of what it emits. Breaks, stops and
units take some time and nothing bounds it, so shifts may overrun.

`VerdictIsSound` and `VerdictIsExact` say of two versions what no behaviour can change; the
proof is a case per kind of difference, and that forward is backward with the versions
exchanged (`Mirror`). Soundness follows a document field by field (`NothingBreaks`); for
exactness a document is built that leaves out whatever is not required, or holds the one
value the reader refuses (`ReadableBreaksNothing`). `FullStepsCompose` is an induction over the releases, and `LineInv` is
its hypothesis: the first and the last version are a full step apart. That nothing is
overlooked carries over from two steps to one (`NothingOverlookedJoins`). It needs that a
field the last version has not was dropped on the way (`Dropped`), for a name that comes
back may come back as something else.

Some assumptions on the constants are there for the proofs, and TLC evaluates them in the
runs: regions, calls and shifts are sequences and not functions alone, the values that
stand for "none" (`NoExit`, `None`, `Null`) are none of the values that occur, and the
ids of events are finitely many.

### Only model-checked

- **Liveness**, `EventuallyLanded` and `EventuallyJudged`: out of the proof system's
  reach.
- **The consumer without its hypotheses**: what happens when partitions with messages in
  memory change hands, on a group's first run without the flag, or in a local store is in
  the runs alone.

Every other property of a run is stated by a theorem.

## Where the code and its promises differ, without a run

Met while modelling; each is in the models or excluded by a named condition.

- **Consumer.** A group that committed nothing starts at the end of the log unless
  `--from-beginning` is given (`make consume` does not give it), so a crash before the
  first commit loses the batch in memory (`consumer.py:168`). A local write is in place
  and can leave a torn file (`writer.py:275`). A field of the wrong type passes
  `parse_message`, which looks at presence only, and makes every flush of its batch raise,
  in every restart (`consumer.py:123`). A reject whose `machine_id` is no string
  (`consumer.py:136`) does the same after bronze has taken the records of the batch, so each
  restart in another hour writes them once more: `BronzeRowsUniqueInCalm` is stated without
  such a message. Both are in the safety run; `EventuallyLanded` promises nothing once one
  of them is there (`Refused`). Exceptions that `parse_message` does not catch
  (`consumer.py:129-134`) end every run at their message: `EventuallyLanded` is about the
  messages before it (`Reachable`), and the liveness run has such messages. A sweep happens on empty polls only, so under endless
  traffic a quiet partition waits past `BATCH_SECONDS`.
- **Producer.** The result of `flush(30)` is ignored (`producer.py:150`): messages
  still queued leave the exit code 0. `CleanRunPublishesAll` asks for an empty queue.
  JSON that is no object passes the gate and raises in `publish`.
- **Loader.** Two different files loaded in one hour get the same names. A reload in
  another hour leaves every row twice, for silver to absorb.
- **Injector.** Identity in the manifest is per event and not per copy
  (`manifest.py:90-92`): an event corrupted in one copy of two is counted as corrupt and is
  still observed; `Exact` and `PartlyCorrupt` name this case. A v3 cutover before the v2 one is
  accepted (`disorder.py:239`).
- **Ledger.** The checksum is carried and never compared. A window absent on one side
  is broken inside the watermark too, and one whose only events were corrupted is
  broken although nothing is missing (`completeness_ledger.sql:150`). DuckDB counts
  crossed hours and Athena elapsed ones, so a partial window turns broken earlier on
  DuckDB. The quarantine is described as evidence of the corrupt count
  (`staging/sources.yml:68-70`, `glue.tf:39-41`), and no model compares the two.
  `late_arrival_window_hours` is explained in `dbt_project.yml:61-65` and used nowhere:
  silver is rebuilt in full.
- **Retention.** Bronze expires (`lake.tf:44-71`) and the manifests never do
  (`lake.tf:73-75`, so that "every historical reconciliation" stays verifiable), while every
  build starts from bronze: after the retention period reconciled windows turn broken.
  `ReconciledIsFinal` is about a lake that keeps what it has.
- **Status page.** Its headline says that every window reconciles exactly and counts
  the pending ones (`build_status_page.py:166-178`), so `GreenPageIsTrue` asks for none. Its
  five queries may read two ledgers, and then its tables disagree with its headline.
- **Acceptance script.** After a failure past the destroy it cannot be run again: its
  first query has no tables to ask, and raises. If the destroy itself failed, it may have
  emptied the bucket and left the tables, whose data were in that bucket: a second run then
  grades an empty ledger, destroys what there is, rebuilds it, and says that the grades differ.
  Objects are deleted one by one; the model takes them to go all or none. The number of
  objects is -1 after any error of the client and not only of a bucket that is gone
  (`acceptance.py:92-94`). It compares counts; that these suffice for a file replayed by
  the loader is `IdenticalMeansSameRows`, which does not extend to two different files. A
  query that does not settle is waited for without limit.
- **Teardown check.** `AuthFailure` and `UnrecognizedClient` count as "nothing there"
  (`teardown_verify.py:100-101`), where the program tells not looking from not finding
  (`teardown_verify.py:287`). One page of each answer is read. When the list of regions cannot
  be had the default ones stand in for it, silently (`teardown_verify.py:222-223`). Global
  accelerators are among the services it names (line 60) and are never asked for:
  `CleanMeansLooked` is about the kinds that some call lists. The parts of a text that count
  as "nothing there" are looked for in any failure, so a service in use whose call answers
  with "not supported" or "InvalidAction" in its text is passed over. Databases, endpoints,
  file systems and the like are reported while they are being deleted (148-214), as only
  gateways and instances have their state looked at: `FindingsAreReal` excepts them. A
  comment says that an attached elastic IP is covered by its instance (line 156), and the
  code reports it like any other.
- **Gold and silver.** `fct_defects` takes the inspector from a staging column that is
  null for defects (`gold/fct_defects.sql:16`). `silver/schema.yml:47-50` says the
  operator's badge is present on scans, where staging leaves it null.
- **Contracts.** A bound that is tightened (`minimum`, `exclusiveMinimum`), and a field of
  both versions that becomes required or stops being so, are no change to `compare`
  (`registry.py:195-197`): the step is FULL, and a reader that validates
  (`registry.py:100-120`) refuses old data. The shipped contracts have no such step.
  `VerdictIsSound` and `FullStepsCompose` except these fields by name (`Overlooked`). A
  change between number and integer is reported to break both ways, and breaks one
  (`VerdictIsExact` is without changes of type).
- **Simulator.** A shift sets the clock to its start although the one before overran
  (`sim.py:274`) and takes its order over, so the units of one order are not numbered in
  the order of time; `ShiftsRunInOrder` is about time within a shift. An order taken over
  by the next shift runs on a machine that still says IDLE. A break after midnight is
  placed on the day the shift starts. The canon speaks of local times and the simulator
  takes them as UTC. A line without products passes the check of the canon and stops the
  simulator.

## Not modelled

The machine dimension and the fact table of defects (projections with no rule of their
own), late flags and the text of root causes in the ledger, `lag`, statistics and console
output, argument parsing and the scenario file, the reading and checking of the canon
(static data, validated once), the contract report, the HTML of the status page, the
retention of objects, and the infrastructure. Endless traffic in the consumer, the
acknowledgement protocol of Kafka and the distributions of the simulator are abstracted.
What the infrastructure guarantees (atomic puts, ordered partitions, offsets kept by the
coordinator) is an assumption of the modules that use it.

## Plan

Done, in this order: consumer with its proofs, injector with ground truth, warehouse
with the ledger, producer, loader, simulator, contracts; then the fact table, the
hand-over from injector to warehouse, the status page, the acceptance script and the
teardown check; then the theorems about all of these.

Next, theorems: which of the consumer's properties survive a local store, where a torn
file is overwritten by the replay of its batch only if the batch is cut at the same offsets.

Next, models:

1. An abstract ledger (a window is judged by the set of its missing events), with
   `Warehouse` shown to implement it in exact windows.
2. Consumer and loader over one naming module, and two files in one hour for the loader.
3. The local store with torn files, up to the build that reads them.
4. The tables of the status page, read from two ledgers.
