# Verification of the assembly tools

`project-ult-assembly` puts a data platform together from modules that other repositories
release. It has no server: it is a set of command line tools, each a process of its own, that
share a few YAML files and directories of JSON reports. What they must get right is the
evidence chain of a release: a row of `compatibility-matrix.yaml` becomes *verified* only when
its contract suite and its smoke and e2e runs have succeeded in exactly that row's context,
and a version lock names only such a row. This directory holds TLA+ models of those tools,
TLC configurations for small instances, and TLAPS proofs for every instance.

## 1. Inventory of the system

Paths are below `src/src/assembly/` where they do not start with `src/`.

| Part | State it keeps | Operations | Talks to |
|---|---|---|---|
| Evidence store (`registry/loader.py`, `schema.py`, `contracts/models.py`, `contracts/reporting.py`) | `compatibility-matrix.yaml`, `module-registry.yaml`, `reports/{contract,smoke,e2e}` | load, select a row, scan reports | every tool; people edit the YAML by hand |
| Matrix promotion (`compat/runner.py`) | contract report, flock `compatibility-matrix.yaml.lock`, temporary file | run checks, persist report, lock, validate, mark, replace, rewrite report | evidence store, suites, other promoters |
| Release freeze (`registry/freezer.py`, `cli/release.py`) | `version-lock` files, a flock per file | load, find the verified row, collect evidence, write the lock | evidence store, promoters, other freezers |
| Health convergence (`health/`) | deadline, results, probe threads and their queues | probe, retry, classify | services, modules, bootstrap, e2e |
| Compatibility checks (`compat/checks/`) | results | contract versions, SDK boundary, orchestrator, public API | installed packages, promotion |
| Smoke suite (`tests/smoke/`) | smoke record | select row, health, run hooks, persist | installed packages, evidence store |
| End-to-end runner (`tests/e2e/`) | e2e record, orchestrator report, child process, result queue | preflights, health gate, one bootstrap, CLI call with timeout, assertions | contract suite, health, bootstrap, orchestrator CLI |
| Registry resolution (`registry/resolver.py`, `validator.py`, `exporter.py`) | none | check modules, sort by dependency, matrix coverage; md/YAML comparison | promotion, freeze, e2e, health |
| Bootstrap (`bootstrap/`) | compose services, bootstrap report | plan, start, entrypoint readiness, smoke probes, stop | docker compose, health, smoke hooks |
| Profile resolution (`profiles/`) | none | select bundles, lite limits, required environment | all tools |
| Contract models, entrypoints (`contracts/`) | none | schemas, import of a public entrypoint | all |
| Command line, setup (`cli/`) | `.env` | argument parsing, exit codes, rewrite of `.env` | all |
| Daily-cycle proof (`src/scripts/production_daily_cycle_proof.py`) | report, artifact files, a temporary database | preflights, database, refresh, seeding, Dagster job, verdict, cleanup, manifest | PostgreSQL, Neo4j, Dagster, the data platform |
| Other evidence scripts (`src/scripts/`) | report files; through the data platform the queue of candidates and its cycles | submit, validate, freeze, promote, inspect checkouts, report | data platform, graph engine, sibling checkouts |

What is hard here, and what would make each part correct:

* **Processes without a common lock.** Promotion locks the matrix, a freeze locks its own
  lockfile, suites and people lock nothing. Rows are chosen from snapshots that are minutes old
  when they are used. Correct means: no verified row and no lock without evidence in its own
  context, no update lost, no row verified twice.
* **A queue that others use.** The queue proof and the holdings proof take candidates from one
  queue, whose worker decides whatever is pending and whose freeze takes whatever is accepted.
  Correct means: a pass rests on what the run claims to have frozen and promoted.
* **Writes in several steps.** The report that proves a row is truncated and rewritten after the
  row has been verified; `.env` and the scripts' reports are written in place. Correct means: a
  refusal leaves no trace, a report that says promoted or passed is true, nobody's lines get lost.
* **Crashes.** Any tool can be killed; a flock goes, files stay. Nobody may then wait for ever.
* **Threads and children that answer late or not at all.** Health probes are abandoned at a
  deadline; the e2e runner joins a child that may hang, ignore SIGTERM, die with half an answer
  in the pipe, or write its report as it is being killed. Correct means: verdicts are their
  own, the run ends, the last word in a report is the runner's.
* **Claims from partial evidence.** Several checks that each pass over some modules add up to one
  verdict; the daily-cycle proof turns events, failed probes, declared blockers and old files
  into another. Correct means: no fault falls between two checks, and a pass is earned.
* **Graph order.** Dependency sort, hooks, start and stop order.

`PROJECT.json` lists the hazards line by line with the properties that would notice each.

## 2. Modules and how they correspond to the code

```
MatrixLifecycle  <--refines--  MatrixPromotion --extends--> EvidenceStore
                                     ^                           ^
                                     +---- ReleasePipeline ----> ReleaseFreeze
Suites --extends--> DependencyOrder        Bootstrap --extends--> BundlePlan
HealthConvergence    E2ERun    DailyCycleProof    EvidenceScripts    EnvSetup

ReleasePipelineProofs (promotion, the lock, the pipeline), HealthConvergenceProofs, E2ERunProofs,
SuitesProofs (the sort, the suites), BootstrapProofs, EnvSetupProofs, DailyCycleProofs,
EvidenceScriptsProofs --extend--> the module they are about
MC* : instances for TLC
```

**EvidenceStore.** The shared files as variables: `matrix` (a sequence of rows), `registry`
(module versions in force per key), `contract` and `support` (one report per run). A row's
*context* stands for what its digest covers: profile, sorted extra bundles, matrix and contract
version, module set; `KeyOf` and `ModulesOf` are its parts. A report has a `content` that
tells a complete file from a truncated one, as `json.loads` does. `RequiredOf` is what a row requires:
the contract run need not be among it, and a name that no suite has may be. Actions: smoke and e2e runs
(`StartSupportRun`, `PreflightContract`, `PersistSupportRecord`), which read the registry and then the matrix, in
two steps (`view` is what has been read of the first), and what people do to the YAML
(`AddDraftRow`, `DeprecateRow`, `ReleaseModules`), which no code of the repository does, and
which `map` marks external.

**MatrixPromotion.** `CompatRunner.run` and `_promote_matrix_entry`, one process per promoter,
one action per step between two file operations. `pc` is the position; `snap` the context of the
row chosen before the checks; `raw` the copy read under the lock. Failures are alternatives
of the action in which the code raises; `Crash` may come anywhere and drops the flock.
`Ended` separates `CompatibilityPromotionError` (`rejected`) from other exceptions (`errored`),
because the code makes a promise for the first only. What the checks find is chosen freely here;
`Suites` says how they come to it.

**MatrixLifecycle.** The abstract specification: what a reader of the matrix may rely on. Rows go
from draft to verified to deprecated, one at a time, and become verified only when each
required suite has been proven in the row's own context. `MatrixPromotion` implements it under
the mapping `VisibleRows` (rows without their stamps) and `ProvenSuites` (completed successful
records; a report that is being rewritten still counts, it was complete before).

**ReleaseFreeze, ReleasePipeline.** `freeze_profile` with its two unlocked loads, the scans
for evidence, one directory at a time and only those that the row requires, and the locked replace of the day's lockfile; then all three kinds of processes
side by side. One day is modelled, so freezes of a key share a file.

**HealthConvergence.** `HealthcheckRunner.run`: built-in probes under one deadline, then module
probes with a whole timeout each. Each call is a thread with its own queue (`running`, `answer`);
`up` is the world, `wasUp` remembers what was up during a call. Time is counted in ticks and
passes only while the runner waits.

**E2ERun.** `E2ERunner.run` from the fixture to the record. The preflights are one action per
outcome; then the call of `_invoke_cli_with_timeout` step by step: join, look, SIGTERM, grace
second, SIGKILL, or reading of the answer. The child runs beside it: it writes the report, answers,
and its queue's feeder thread must get the answer into the pipe before it can exit. `big` is an
answer that does not fit, such as a long traceback. The runner joins the process and not the answer: a
child that has answered is still `exiting` while multiprocessing and the interpreter wait for what the CLI
has left running, for as long as that takes (`ChildExits`). `leftAt` remembers when the process ended.

**DependencyOrder.** `resolve_for_profile` and `_topological_sort`. The recursion of `visit` is an
explicit stack of frames, so that each state is a point in the search; `sorted` is both
`permanent` and the result. `Cyclic`, the reference, is a non-empty set of modules each of
which depends on one in the set. The rows of the matrix are an input: coverage is a verdict.

**Suites.** What is done with the resolved order: the contract suite runs its four checks, one per
step, and writes its record; the smoke suite checks health, calls the hooks of each module in order
and writes its own; the stage 3 audit reads the profile by itself. One command per behaviour.
`package` is what a registry entry says and what the installed package does when it is imported or
called: entrypoints with a fault each, a declaration that agrees, differs or raises, a contract
version, a hook that passes, fails, fails under another module's id (`Stranger`), raises, gives nonsense or never
returns. The write of a report may fail (`Finish`). `Sound` is the
reference: the module against which no check has anything to say.

**BundlePlan, Bootstrap.** `BundlePlan` is pure: which bundles a profile and a list of extra bundles
select (`Selectable`), the start and stop order put together from the manifests, and what `build_plan`
accepts (`Plannable`). A setting `w` is what is on disk: manifests and compose file. `Bootstrap`
adds the commands `bootstrap`, `bootstrap --dry-run` and `shutdown`, one after the other on one
host. `cmd` is the command with the number of passed stages and how far compose has come, `up` the
services that run, `file` the report per action. A failed or killed command leaves `up` as it is,
and the next one starts from there. `cmd.brokeIn`, `cmd.came`, `latest` and `loose` are history.

**EnvSetup.** The `.env` file as a sequence of assignments. `assembly setup` reads it, prompts, reads it
again, truncates and writes it; another setup and a person with an editor do the same, and a
command reads it once (`Load`) and lets its own environment override it (`Combined`). Duplicate keys
are kept in the file as they are, because the writer keeps the first line of a key and readers
believe the last. `Pick` takes the elements of a list at some positions (a recursive function, about
which one can reason), and `OtherKeys` are the keys setup does not manage. `due` (the lines people have left) and `spoilt` (a setup wrote what it had read
before a change, or was stopped in its write) are history.

**DailyCycleProof.** `main` of the daily-cycle proof with one action per step of its `try` block, the
`except` and, one by one, the steps of the `finally` block. `report` is the report as it grows, `files`
says which run wrote each artifact last, `file` is the report on disk, `databases` the temporary
databases that exist. An `Entry` of the manifest is a file as it was when the manifest was made: the artifacts that recorded steps
name, and the report itself where the command line has its absolute path (`named`). `Outcomes` are what the events
of a job can say; `ChecksComplete` and
`StepPassed` judge them with the conditions of the code, and `Proves` says independently what a pass
means. A step may raise or be interrupted after a part of its work (`HalfDone`). `proven` and
`broken` are history. Steps that only talk to other systems share `Pass`.

**EvidenceScripts.** The queue (M4.4), holdings, reasoner (M4.5), frontend (M4.6) and durable (P2)
proofs, each run a process of its own. `pending`, `accepted` and `cycle` are the data platform's queue and
its cycles, which queue and holdings runs share; the worker decides up to `WorkerLimit` pending
candidates, whoever has submitted them. `json` and `markdown` are the reports per script and `--out`,
written in place and not atomically. `facts` is what a run has found outside the database, `shown` the
candidates the graph engine has promoted. `Earned` says, from the database and the facts, what a pass
claims. `refusal` and `named` follow a `ProofError` through a context manager to the report.

Definitions marked "Variant of" are plausible mistakes. Nothing uses them: each is put in the
place of the real definition by the `mutants` of `PROJECT.json`, where a property must fail.

## 3. Runs

| Run (`.cfg`) | Question | Instance and bounds |
|---|---|---|
| `MatrixPromotion` | Evidence, no trace of a refusal, truthful reports, one promotion per context, no lost update, `ImplementsLifecycle` | 2 promoters, 2 smoke runs, 3 contexts of 2 keys, 5 rows, one of which enters a deprecated context again, 1 edit by an operator who waits for the lock; symmetric in promoters and runs |
| `VerifiedKeys` | Violated: one verified row per key | two contexts of one key |
| `ReleasePipeline` | Every lock names a verified row with evidence; promotion and freeze agree | 1 promoter, 1 freezer, smoke and e2e, 2 rows of one key, 2 edits that ignore the lock |
| `FreezeLiveness` | Freezes and promotions that wait for each other end | 2 freezers, 2 promoters of one draft row that requires the contract run alone |
| `HealthConvergence` | Verdicts, no overlap, time, severity, termination | 4 services, 2 modules, timeout 3, backoff 1, 2 changes of the world |
| `E2ERun` | Earned success, true outcome, termination unless an answer is cut off | timeout of 2 ticks; every outcome of every preflight |
| `Suites` | Order, exactly the cycles refused, exactly the unsound modules named (a declaration of the SDK that raises is put down to assembly too), earned smoke success, hooks in order, earned audit, termination unless a hook hangs | every graph on 3 modules with at most 2 dependencies each (one also unregistered), 5 profile lists, repeated and unregistered entries included; at most one package deviates, in each of 24 ways |
| `Bootstrap` | What runs has its dependencies, reports of the last run and true, complete shutdown | 4 services in 3 bundles, one optional; 14 settings, good and bad; 3 commands, 1 death |
| `EnvSetup` | The chosen backend is on, lines of others survive, a resolved command has its values | 2 setups with options, prompts and values no line can hold; 3 files, one with a key twice; 1 edit; 3 environments |
| `DailyCycleProof` | Earned verdicts, a manifest of the run's own files, the database dropped as asked | 2 selected assets and a stray one, an expected and another check, 2 probes, 2 failing steps, 2 runs in one artifact directory |
| `EvidenceScripts` | A report that says passed is earned; exit code 0 leaves complete reports | 2 runs of any of the 5 scripts, at once or in turn, 2 dates, 1 candidate left over, the worker decides 2 at once |
| `LostReason` | Violated: a refusal's reason is kept | 1 run of the holdings proof |

Why the bounds are enough. Lost updates, stale snapshots and lock hand-over need two writers and
one foreign edit between two steps of one of them. Two contexts of one key are what makes
"the evidence of another context" possible; the fifth row is what makes room for one context
entered twice: deprecated, and as a draft below. With two ticks before a timeout something can happen before, between and at the deadline. Every kind
of cycle (self-loop, two, three) and of shared dependency exists on three modules, and the registry
varies freely, so that the profile lists cover all orders up to renaming; one deviating package
is enough to ask whether a fault falls between two checks, as each check judges each module by
itself. Three commands are a
start, one that goes wrong in between, and one that meets what it left. The 14 settings vary both orders of a bundle
of two, dependencies within a bundle, to an earlier and to a later one, and include lite and drifted ones. A second run of the proof finds everything that a first one, ended or broken
off anywhere, can have left; the outcomes of a job contain each way to miss one of its conditions alone.
Two runs of the scripts are enough for one to take the other's candidates or date, and with a limit
of two the worker leaves some of three candidates undecided. Two setups and one edit give each pair of writers in
each order.
`MaxEdits`, `NumRows`, `MaxFlips`, `Timeout`, `MaxCommands`, `MaxDeaths`, `MaxRuns`, `WorkerLimit` are the only
bounds and stand in guards or constants (`WorkerLimit` is the code's own parameter).

**Fairness.** Weak fairness of `Step(p)`, `FreezeStep(z)`, `RunnerStep`, `Work`: a started process
keeps running. A promoter waiting for a flock needs no more than weak fairness here, as the
instances have finitely many promotions and a free lock stays free once the others have ended.
`Work` includes that imports and version declarations return; smoke hooks need not (`Hung`).
`Tick`: time passes. Nothing is assumed of
crashes, edits, probes, the CLI or the exit of its process: they need never happen, answer or end. No liveness is stated where
nothing in the code bounds a step: bootstraps, the scripts, prompts.

**Deadlock** is checked in every run. Where a system is really over, a disjunct of its own (`Quiescent`,
`AllEnded`, `Finished`, `Stopped`, `Done`, `Over`) stutters, guarded by what "over" means.

## 4. What the violated runs show

* `OneVerifiedRowPerKey`: the matrix file and the schema call (profile, sorted bundles) the unique
  key, but promotion looks at no row but its own. After a module release two rows of a key
  are verified and freezing that key is refused until the old one is deprecated by hand.
* `ReasonsAreKept`: `ProofError` of the holdings proof is a frozen dataclass with slots. Raised in the
  body of `_bound_runtime_env`, a generator context manager, `contextlib` sets its `__traceback__`, which
  the dataclass refuses with a `TypeError`. The report then has the reason of the `TypeError`, and
  the exit code is 1 instead of 3 or 4.

Met while modelling, and stated by no run:

* the directory fsync of a freeze is in the `try` of its replace, so its failure
  says "Could not atomically write version lockfile" of a lock that has been written;
* the "per-probe timeout" (`cli/main.py:78`) is one deadline for all built-in probes, and a hung
  service leaves those after it without a call;
* the timeout of `Queue.get` covers the first byte only, and the parent holds the
  pipe's writing end: a child killed from outside between the parts of a large answer leaves the
  e2e runner reading for ever (`EndsUnlessCut` makes that exception);
* the runner judges by the process, so a CLI that has returned zero in time, but whose process is held up
  beyond the timeout by a thread or a child it has left, is reported as timed out and its report is
  replaced by a report of failure (`OutcomeIsTrue` says no more of a timeout than that the process was still there);
* a smoke hook that reports a failure under another `module_id` makes the record name that id and not its
  own module (`SmokeIsEarned` makes that exception);
* the hygiene test of the reasoner's and the frontend's report may refuse to write a report of failure
  that quotes a path or a token; the report of an earlier pass then stays, beside exit code 1;
* `_select_matrix_entry` of the smoke suite raises a `LookupError` that the command does not catch;
* two freezes of a key on one day share a file; the one that has loaded the older row may write
  last, and the code promises no order (`LockNamesVerifiedRow` holds of either);
* a failed queue or holdings run uses up its date, since a date has one cycle; a holdings run may pass on
  candidates that others have submitted; the P2 run never drops its database, and has
  nothing to read back where the job lists no records;
* daily-cycle proof: given a relative `--artifact-dir`, the manifest lists no artifact
  (only absolute paths count), so that a pass is backed by no listed file (`VerdictIsEarned` makes that
  exception); given an absolute `--json-report` inside an `--artifact-dir` that is used again, the manifest
  lists the earlier run's report, with a hash that is stale as soon as the new report is written over it
  (`ManifestMatchesFiles` makes that exception); `--drop-isolated-pg` says "after writing evidence" but the database is dropped before
  the summary and the report are written; after Control-C the report reads `RUNNING` with
  `runner_exit_code` 0.

## 5. What is proved

Every proof is for all values of the constants that meet the named assumptions of the modules:
`ContextParts`, `StoreBounds`, `NoValue`, `InitialMatrix`, `InitialList` (store, promotion and freeze),
`HealthParts` and `ModulesOnce` (the sort lists no module twice), `TimeoutNat`, `RegistryParts`, `SuiteParts`,
`SettingParts`, `ManifestOrders` (what a manifest's validation demands of its two orders), `CommandBounds`,
`SetupParts`, `ProofParts`, `EvidenceBounds`. So for any number of promoters, runs, rows, contexts,
services, bundles, modules, packages, setups, assets and edits, any timeout and any limit of the worker. In
particular `EditsWait` may be either value unless a theorem assumes it: those of the second part below do, and
what they say fails of operators who ignore the lock.

**ReleasePipelineProofs, promotion.** `TypeCorrect`, `EvidenceAlways` and `RejectionsLeaveNoTrace`.
`VerifiedHasEvidence` alone is not inductive: `os.replace` installs a *copy* of the matrix, so the
invariant must speak of every copy, and a promoter's stamp must be confined. `Inductive` is
the conjunction of

* each promoter's own report: at the positions after its checks it has the context `snap` and
  the verdict and content that belong to the position;
* where a stamp may be: a promoter's stamp stands in its own copy only after the evidence was
  checked, in the file or in other copies only after its replace, and nowhere if it was refused;
* evidence: every row stamped by a promoter, in the file or in any copy, is backed.

The `*Moves` lemmas say once, for all actions, how `pc`, the reports, the file and the copies can
change; the steps of the invariant use only these. `EvidenceKept` says that evidence, once there,
stays. `RejectedLeavesNoTrace` is then the part about stamps.

**ReleasePipelineProofs, the lock.** What needs an operator who waits for the lock (`ASSUME EditsWait` in each theorem): an edit
that slips in between a promoter's read and its replace is lost, in the code too. `LockInv` adds to `Inv`

* exclusion: who is in the critical section holds the flock (`Mutex`);
* that the copy in use is the file as it stands, with at most its own row marked (`Faithful`): so a replace
  changes one row;
* that the file is a list without gaps in which a promoter's row is the first of its context (`Filed`), so the row
  cannot be found a second time as a draft, and that a promoter that has committed finds it (`Present`);
* which runs have a context and which reports are empty (`Begun`).

`UpdatesSurvive` and `PromotionsAreUnique` follow from how one row changes, `PromotionsAreReal` from `Present`.
`PromotionImplementsLifecycle` is the refinement: a completed report is a `Prove` (`ProofMoves`), a replace is
`Verify` of that row, for which the evidence of the marked copy gives the guard, an edit is `AddDraft` or
`Deprecate` (`RowsMove`), and every other step stutters.

**ReleasePipelineProofs, the pipeline.** A freezer takes no lock on the matrix and no operator waits here. What it has read
stays true since a verified row is in each copy that may still be written back (`CopiesKept`, which needs
`Mutex`): a row once read as verified is `Settled`, in the file and in every such copy. With what the freezer has
found so far (`Earned`) and in the end (`Complete`, `Fresh`) this is `PipelineInv`. The two sides touch different variables (`TwoSides`), so one
lemma says that promoters, suites and operators do not undo what a freezer relies on (`ReliedStep`), and one is
about the freezer's own steps. From it `LocksNameVerifiedRows`, `LocksAreProven` and, with the evidence
of `Inv`, `PromotedRowsAreFreezable`.

**E2ERunProofs.** `RunInvariant` ties the runner's stage to the health results, the child, the
answer, the pipe and the report: the answer is in the pipe before the child can exit by itself (`Piped`), the child
is dead at every stage after the grace second or the join (`Reaped`), and whoever is killed by the runner was there
when the timeout was over (`Timely`). From it follow `RunTypes`, `SuccessAlwaysEarned`,
`CliAlwaysConverged` and `OutcomesAreTrue`, which includes that a timeout's failure report stands.

**HealthConvergenceProofs.** `HealthInv` adds to the properties that an answer in the queue belongs to
the current call (`AnswerIsHonest`) and that a thread of a service that still runs is the one the runner waits for, or
belongs to a deadline that is over (`HungIsLate`). Without the second, a late answer could be
taken for that of the next call. From it: `HealthyIsTrue`, `ServicesDoNotOverlap`, `SeverityIsTheProfiles`. `TimeIsBounded` has an invariant of
its own, `Timing`: the clock and the time at which a wait ends stay within one timeout for the deadline and one
for each module called so far, as a module is not called before its turn nor twice.

**SuitesProofs.** First the sort, about `Spec` of `DependencyOrder`. `SortInv`: the stack of visits is a path of
dependencies through enabled modules that are not listed yet, no module twice, and what a visit has looked
at is listed, but for the module it waits for. From it `DependenciesComeFirst`; a module found on the stack
closes a cycle; and conversely an order that lists everything excludes a cycle, as the member of the cycle that
is listed first would have a dependency before it. So `SortIsExact`. Recursion needs no induction here, as the
stack is state. `SuitesSortToo` says both of `SuitesSpec`, whose `Resolve` steps are the sort's.

Then the commands. `SuitesInv` adds to `SortInv` what each has found so far: the contract suite the results of
the checks before `at` (`ContractSoFar`), the smoke suite those of the modules before `at`, none of which has
stopped it (`SmokeSoFar`). What is left is about the checks at the end. `ContractFindsAll`: each way
in which a package can be unsound fails one of the four checks and names the module, and what none of them
says is sound. `SmokeTellsTheTruth`, `AuditMissesNothing` likewise; `HooksFollowDependencies` combines
`SortInv` with the order of the calls.

**BootstrapProofs.** `BootInv` is `TypeOK`, `DependenciesUp`, and: how far a command has come at each step
(`Progress`), what compose has started or stopped before its position (`Composing`), and of which bootstrap a
report is (`Reports`). A service is started at its position in the list that `Plannable` has accepted, so what it
depends on stands before it and has been started; `Progress` must hold the plan itself for that. The lists are bundles put
end to end (`FlattenSeq`); `FlattenListed` says that they list what the bundles list, and
`OrdersAgree` that the stop order has the services of the start order. From it `DependenciesStayUp`,
`ReportFollows`, and the action properties `ReportTellsTruth` and `ShutdownLeavesNothing`.

**EnvSetupProofs.** The first half is about `.env` as a list. `Pick` of a longer list is that of the list and
perhaps its last element. `ListByList`: a set that has the empty list, and with a list each list longer by one element, has every
list. From these: `Rewritten` leaves `Others` as they are (`RenewedOthers`,
`KeptOthers`, `MissingLines`), holds each managed key once with its new value (`RewrittenOnce`), and
the value of any other key depends on `Others` alone (`ValueOfOthers`). The second half is about
the writers. `EnvInv` adds to the properties that what a setup is going to write is for its backend and
keeps the others of the file as it has read it (`Prepared`), and that while nothing is spoilt one setup at most has the
file open and holds the lines of others (`OneWriter`): without the last, two setups that have both
truncated the file could each restore something else. From it `EnvTypesHold`, `NothingIsLost`,
`SnapshotsAreSound` and, as an action property, `BackendIsAsChosen`.

**EvidenceScriptsProofs.** `EvidenceInv` says what a run has established when it comes to a
step, and that no other run takes it back: a cycle is touched only by who made it (`Owning`), what is
accepted stays so, what is frozen is accepted, and a report that says passed is of a run that has
come to that. `OthersKeep` is the part about interference; then one lemma per script, and
`PassesAreEarned`. For the exit code, `Closing` adds that runs at once have reports of their own
(`OwnFiles`) and that a run that is to end with 0 has written what it then claims (`DueIsTrue`): `ZeroLeavesEvidence`.

**DailyCycleProofs.** `DailyInv`: when a step begins, those before it are on record (`Sequential`); a passed
job has proved its claim and left its evidence (`JobProved`); artifacts of recorded steps are this run's
(`Backed`); a verdict has its reasons (`Reasoned`); the temporary database exists under its name until
it is dropped (`Housed`). One lemma per action keeps it. From it `ManifestAlwaysMatches`,
`DatabaseAlwaysAsAsked` and, as an action property, `VerdictsAreEarned`.

**Only model-checked.** Liveness: `RunsEnd`, `FreezesEnd`, `RunEnds`, `EndsUnlessCut`, `SuiteEnds` are out of
this prover's reach. Every other property of a passing run is stated by a theorem. Induction over data is out of
reach too, so what is recursive over a list is proved by the least position at which it would go wrong
(`LeastPosition`), which needs no more than that a non-empty set of natural numbers has a least element. The
properties of the two violated runs are false and have no theorem.

## 6. Plan

1. Proofs: the safety and action properties of all runs are proved. Next, what the modules that share operators
   promise each other (that the health results and suite records taken as inputs by `E2ERun`, `Suites` and
   `MatrixPromotion` are among those `HealthConvergence` and `Suites` can produce), and simpler proofs.
2. The rest of profile resolution: rendering and redaction of the snapshot, storage backends of extra bundles.
3. The registry exporter and its comparison with the markdown table.

## 7. Abstractions and what is not modelled

* In `MatrixPromotion`, `ReleasePipeline` and `E2ERun` the compatibility checks, the CLI's work and the
  assertions on its outputs are verdicts chosen freely; `partial` contract runs count as failed
  there, since promotion only asks for success. `Suites` takes the checks apart, but imports, signatures
  and protocols of a package are inputs.
* Digests are contexts: two different contexts never collide. Timestamps are left out; a
  stamp (`verified_at`) is who wrote it.
* A file is complete, torn or absent; no partly readable JSON. Directory durability after power
  loss is not modelled, only the error path of its fsync.
* A process that the CLI has detached from its own, and that writes the orchestrator report after that process has
  ended, is left out of `E2ERun`.
* A row deleted or reworded by hand, and an edit half-written by an editor, are left out.
* Smoke suite: `GiveUp` stands for each way to fail before the first hook. Its health result is
  an input, `HealthConvergence` shows how it comes about. Hooks are called without a time limit; one that
  hangs holds up the suite (`Hung`).
* Docker compose is modelled as the code relies on it: it starts and stops one service after the
  other in the order of its arguments, starts none before what it depends on is healthy, can fail
  at any point, and dies with the command that called it. Bootstrap commands do not overlap; two at
  once on one host are not modelled. Readiness and smoke hooks may hang and nothing bounds
  them, so no liveness is claimed of a bootstrap. The handles in a result are
  not used by the commands; `ServiceHandle.poll` is one of the calls a health probe makes, whose outcome is an
  input of `HealthConvergence`.
* `.env`: comments, blank lines and lines that are no assignment are copied by setup and left out here;
  values with blanks or quotes at their ends, which are read back changed, do not occur. A login that
  is missing and an absent executable are a `Refuse`, and so is a write that fails after the file was opened.
* Evidence scripts: payloads, the assets of the Dagster job of the P2 run and the redaction of single values are
  left out. A bearer marker that is left in a text after redaction is a message of its own. Runs of one script at once have different `--out`, which the default file names of a
  careless operator would not give. Control-C is modelled up to the writing of a report; in it, it is
  a `Kill`.
* Daily-cycle proof: what the steps write into PostgreSQL, Neo4j and Iceberg is left out, and so is
  redaction; root causes of failures are part of "failure step". Runs follow one another. Two at
  once would share the proof nodes in Neo4j, which each run deletes before it makes its own.
* Markdown/YAML consistency of the registry, the exporter, argument parsing, rendering of a snapshot: text
  processing without state. So are the schemas' own validations.
