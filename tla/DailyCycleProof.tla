--------------------------- MODULE DailyCycleProof ---------------------------
(***************************************************************************)
(* production_daily_cycle_proof.py: preflight, a temporary database, the   *)
(* refresh and seeding of a cycle, the Dagster job, then in a finally      *)
(* block the cleanup, a summary of the evidence, a manifest of the files   *)
(* that back the report, and the report.  Runs follow one another in one   *)
(* artifact directory.  What databases, Neo4j, Dagster and the providers   *)
(* answer is chosen freely.                                                *)
(***************************************************************************)
EXTENDS Integers, FiniteSets

CONSTANTS
    Probes,      \* preflight probes
    Assets,      \* keys of the assets that a job may materialize
    Selected,    \* the assets that daily_cycle_job selects
    Checks,      \* names of asset checks
    Expected,    \* EXPECTED_DAGSTER_ASSET_CHECK_NAMES
    FailSteps,   \* steps in which the job may fail
    RuntimeSets, \* what a provider may list as runtime_blockers
    MaxRuns      \* bound: runs in one artifact directory

ASSUME ProofParts ==
    /\ "neo4j_gds" \in Probes /\ MaxRuns \in Nat
    /\ IsFiniteSet(Assets) /\ Selected \subseteq Assets /\ Expected \subseteq Checks

\* Files that steps leave in the artifact directory.
Artifacts == {"preflight", "refresh", "graph", "evidence", "summary"}

\* An entry of the manifest: a file as it is when the manifest is made, known by the run that
\* wrote it.
Entry == [path : Artifacts \cup {"report"}, run : Nat]

\* Everything that happens in the try block of main, in order.
Trying == {"preflight", "database", "migrations", "refresh", "selection", "seed",
           "graph", "dagster", "freeze", "provider", "judging"}

ArtifactOf == [s \in Trying |->
    CASE s \in {"preflight", "refresh", "graph"} -> {s}
      [] s = "dagster" -> {"evidence"}
      [] OTHER -> {}]

VARIABLES
    step,      \* where the run stands; "idle" between runs
    opts,      \* the flags of the run
    report,    \* the report as far as it has been put together
    temp,      \* whether temp_database is set
    databases, \* runs whose temporary database exists
    files,     \* the run that wrote each artifact, 0 if none has
    file,      \* the report on disk
    runs,      \* runs so far
    proven,    \* history: the job really did all that a pass claims
    broken     \* history: the last run was killed or could not write its report

vars == <<step, opts, report, temp, databases, files, file, runs, proven, broken>>

Verdicts == {"RUNNING", "BLOCKED", "PARTIAL", "PASS", "PREFLIGHT_PASS", "PREFLIGHT_BLOCKED"}
Reasons  == {"dagster has not passed", "failure step", "provider status", "surface missing",
             "provider blocked", "error"}
JobSteps == FailSteps \cup {"none", "orchestrator_dbt_compile", "dagster_setup"}
Runtime  == UNION RuntimeSets
Provider == [status : {"missing", "passed", "failed"}, surfaces : BOOLEAN, runtime : SUBSET Runtime]

NoProvider == [status |-> "missing", surfaces |-> FALSE, runtime |-> {}]

\* probes: those that failed; recorded: the steps in report["steps"]; listed: the files with a
\* hash in file_evidence_manifest.
Reports ==
    [probes : SUBSET Probes, recorded : SUBSET (Trying \cup {"summary"}),
     dagster : {"none", "not_run", "passed", "failed"}, failStep : JobSteps,
     provider : Provider, verdict : Verdicts, exit : 0..2,
     blockers : SUBSET (Probes \cup Reasons \cup Runtime),
     cleanup : {"none", "passed", "failed"}, listed : SUBSET Entry]

FreshReport ==
    [probes |-> {}, recorded |-> {}, dagster |-> "none", failStep |-> "none",
     provider |-> NoProvider, verdict |-> "RUNNING", exit |-> 0, blockers |-> {},
     cleanup |-> "none", listed |-> {}]

\* absolute: the artifact directory is an absolute path, as it is by default; named: the
\* command line has the absolute path of the report, in the artifact directory.
Flags == [preflightOnly : BOOLEAN, runDagster : BOOLEAN, isolated : BOOLEAN,
          drop : BOOLEAN, absolute : BOOLEAN, named : BOOLEAN]

Init ==
    /\ step = "idle"
    /\ opts = [preflightOnly |-> FALSE, runDagster |-> FALSE, isolated |-> TRUE,
               drop |-> FALSE, absolute |-> TRUE, named |-> FALSE]
    /\ report = FreshReport /\ temp = FALSE /\ databases = {} /\ runs = 0
    /\ files = [a \in Artifacts |-> 0]
    /\ file = [state |-> "absent", run |-> 0, listed |-> {}]
    /\ proven = FALSE /\ broken = FALSE

-----------------------------------------------------------------------------
\* What a job leaves in its events: the assets that were materialized and how each
\* check ended, "unknown" where the event does not say.
Outcomes ==
    [success : BOOLEAN, materialized : SUBSET Assets,
     checks : [Checks -> {"absent", "passed", "failed", "unknown"}]]

Recorded(o) == {c \in Checks : o.checks[c] # "absent"}

\* Variant of ChecksComplete: only a check that failed speaks against the run.
ChecksUnfailed(o) ==
    Recorded(o) # {} /\ \A c \in Checks : o.checks[c] # "failed"

\* _asset_check_pass_basis
ChecksComplete(o) ==
    /\ Recorded(o) # {}
    /\ \A c \in Recorded(o) : o.checks[c] = "passed"
    /\ Expected \subseteq Recorded(o)

\* _dagster_step_from_evidence: nothing missing, as many as were selected, no others.
StepPassed(o) ==
    /\ o.success
    /\ Selected # {} /\ Selected \ o.materialized = {}
    /\ Cardinality(o.materialized) = Cardinality(Selected)
    /\ o.materialized \ Selected = {}
    /\ ChecksComplete(o)

\* The reference: the job succeeded, made what it selected, and each expected check passed.
Proves(o) ==
    /\ o.success /\ o.materialized = Selected /\ Selected # {}
    /\ \A c \in Checks : o.checks[c] = "passed" \/ (o.checks[c] = "absent" /\ c \notin Expected)

\* The runtime blockers that concern a failure in this step.
BlockersOfStep(s, all) ==
    CASE s = "graph_status" -> {"configured_graph_phase0_status_runtime"} \cap all
      [] s \in {"graph_promotion", "graph_snapshot"} ->
             {"configured_graph_phase1_runtime"} \cap all
      [] s \in {"l1", "l2", "l3", "l4", "l5", "l6", "l7", "l8"} ->
             {"configured_reasoner_runtime"} \cap all
      [] s \in {"formal_objects_commit", "cycle_publish_manifest", "retrospective_hook"} ->
             {"configured_audit_eval_retrospective_hook_runtime"} \cap all
      [] OTHER -> all

\* _active_provider_runtime_blockers: a pass of the job supersedes what a provider declares.
ActiveRuntime(r) ==
    IF r.dagster = "passed" THEN {}
    ELSE IF r.dagster = "none" THEN r.provider.runtime
    ELSE BlockersOfStep(r.failStep, r.provider.runtime)

\* _apply_effective_provider_status
EffectivelyBlocked(r) ==
    r.provider.status # "passed" \/ r.provider.surfaces \/ ActiveRuntime(r) # {}

OpenBlockers(r) ==
    r.probes
    \cup (IF r.dagster \in {"failed", "not_run"} THEN {"dagster has not passed"} ELSE {})
    \cup (IF r.failStep # "none" THEN {"failure step"} ELSE {})
    \cup (IF r.provider.status # "passed" THEN {"provider status"} ELSE {})
    \cup (IF r.provider.surfaces THEN {"surface missing"} ELSE {})
    \cup (IF EffectivelyBlocked(r) /\ ActiveRuntime(r) # {} THEN {"provider blocked"} ELSE {})
    \cup ActiveRuntime(r)

Ending(verdict, exit, blockers) ==
    [report EXCEPT !.verdict = verdict, !.exit = exit, !.blockers = blockers]

\* The exception handler of main, for report r.
Blocked(r) ==
    [r EXCEPT !.verdict = "BLOCKED", !.exit = 1, !.blockers = OpenBlockers(r) \cup {"error"}]

-----------------------------------------------------------------------------
Write(artifacts) == files' = [a \in Artifacts |-> IF a \in artifacts THEN runs ELSE files[a]]

Recording(s) == [report EXCEPT !.recorded = @ \cup {s}]

StartRun ==
    /\ step = "idle" /\ runs < MaxRuns
    /\ runs' = runs + 1 /\ step' = "preflight"
    /\ opts' \in Flags
    /\ report' = FreshReport /\ temp' = FALSE /\ proven' = FALSE
    /\ UNCHANGED <<databases, files, file, broken>>

\* A skipped probe counts as neither passed nor failed.
RunPreflights ==
    /\ step = "preflight"
    /\ Write({"preflight"})
    /\ \E failed \in SUBSET Probes :
          LET r == [Recording("preflight") EXCEPT !.probes = failed]
          IN  \/ /\ opts.runDagster /\ "neo4j_gds" \in failed
                 /\ step' = "cleanup" /\ report' = Blocked(r)
              \/ /\ ~(opts.runDagster /\ "neo4j_gds" \in failed) /\ opts.preflightOnly
                 /\ step' = "cleanup"
                 /\ report' = [r EXCEPT
                        !.verdict = IF failed = {} THEN "PREFLIGHT_PASS" ELSE "PREFLIGHT_BLOCKED",
                        !.exit = IF failed = {} THEN 0 ELSE 1, !.blockers = failed]
              \/ /\ ~(opts.runDagster /\ "neo4j_gds" \in failed) /\ ~opts.preflightOnly
                 /\ step' = "database" /\ report' = r
    /\ UNCHANGED <<opts, temp, databases, file, runs, proven, broken>>

\* temp_database is set before the database is created.
NameDatabase ==
    /\ step = "database" /\ opts.isolated /\ ~temp
    /\ temp' = TRUE
    /\ UNCHANGED <<step, opts, report, databases, files, file, runs, proven, broken>>

Pass(s, next) ==
    /\ step = s /\ step' = next
    /\ report' = Recording(s)
    /\ Write(ArtifactOf[s])
    /\ UNCHANGED <<opts, temp, file, runs, proven, broken>>

\* With --no-isolated-pg the configured database is used.
BootstrapDatabase ==
    /\ Pass("database", "migrations")
    /\ opts.isolated => temp
    /\ databases' = IF opts.isolated THEN databases \cup {runs} ELSE databases

ApplyMigrations == Pass("migrations", "refresh") /\ UNCHANGED databases

RunDailyRefresh == Pass("refresh", "selection") /\ UNCHANGED databases

SelectCurrentCycle == Pass("selection", "seed") /\ UNCHANGED databases

SeedCandidates ==
    Pass("seed", IF opts.runDagster THEN "graph" ELSE "freeze") /\ UNCHANGED databases

\* The step is on record, passed or failed, before a failure is raised.
InitializeGraphStatus ==
    /\ step = "graph"
    /\ Write({"graph"})
    /\ \/ step' = "dagster" /\ report' = Recording("graph")
       \/ step' = "cleanup" /\ report' = Blocked(Recording("graph"))
    /\ UNCHANGED <<opts, temp, databases, file, runs, proven, broken>>

\* Without a result: dbt does not compile, the definitions do not load, nothing is selected
\* (then a relative path leads elsewhere, as the working directory has been changed).
RunDagster ==
    /\ step = "dagster" /\ step' = "provider"
    /\ \/ \E o \in Outcomes :
             /\ Write({"evidence"}) /\ proven' = Proves(o)
             /\ \E failed \in (IF o.success THEN {"none"} ELSE FailSteps \cup {"none"}) :
                   report' = [Recording("dagster") EXCEPT
                       !.dagster = IF StepPassed(o) THEN "passed" ELSE "failed", !.failStep = failed]
       \/ /\ Write({"evidence"}) \/ (~opts.absolute /\ UNCHANGED files)
          /\ proven' = FALSE
          /\ \E failed \in {"orchestrator_dbt_compile", "dagster_setup"} :
                report' = [Recording("dagster") EXCEPT !.dagster = "failed", !.failStep = failed]
    /\ UNCHANGED <<opts, temp, databases, file, runs, broken>>

FreezeCandidates ==
    /\ step = "freeze" /\ step' = "provider"
    /\ report' = [Recording("freeze") EXCEPT !.dagster = "not_run"]
    /\ UNCHANGED <<opts, temp, databases, files, file, runs, proven, broken>>

CollectProviderStatus ==
    /\ step = "provider" /\ step' = "judging"
    /\ \/ \E surfaces \in BOOLEAN, runtime \in RuntimeSets :
             report' = [Recording("provider") EXCEPT !.provider =
                 [status |-> "passed", surfaces |-> surfaces, runtime |-> runtime]]
       \/ report' = [Recording("provider") EXCEPT !.provider =
                 [status |-> "failed", surfaces |-> FALSE, runtime |-> {}]]
    /\ UNCHANGED <<opts, temp, databases, files, file, runs, proven, broken>>

Judge ==
    /\ step = "judging" /\ step' = "cleanup"
    /\ report' = IF report.dagster = "passed" /\ OpenBlockers(report) = {}
                 THEN Ending("PASS", 0, {})
                 ELSE Ending("PARTIAL", 2, OpenBlockers(report))
    /\ UNCHANGED <<opts, temp, databases, files, file, runs, proven, broken>>

\* What a step that does not end may have done: its artifact, and its database.
HalfDone ==
    /\ \E written \in SUBSET ArtifactOf[step] : Write(written)
    /\ databases' \in {databases} \cup (IF step = "database" /\ temp
                                         THEN {databases \cup {runs}} ELSE {})

StepRaises ==
    /\ step \in Trying
    /\ HalfDone
    /\ step' = "cleanup" /\ report' = Blocked(report)
    /\ UNCHANGED <<opts, temp, file, runs, proven, broken>>

\* Control-C is no Exception: the finally block runs with the report as it stands.
Interrupt ==
    /\ step \in Trying
    /\ HalfDone
    /\ step' = "cleanup"
    /\ UNCHANGED <<opts, report, temp, file, runs, proven, broken>>

-----------------------------------------------------------------------------
\* Variant of CleanUp: the database is dropped after a verdict only, not after an error.
CleanUpAfterVerdict ==
    /\ step = "cleanup" /\ step' = "summary"
    /\ IF temp /\ opts.drop /\ report.verdict # "BLOCKED"
       THEN \/ databases' = databases \ {runs} /\ report' = [report EXCEPT !.cleanup = "passed"]
            \/ databases' \in {databases, databases \ {runs}}
               /\ report' = [report EXCEPT !.cleanup = "failed"]
       ELSE UNCHANGED <<databases, report>>
    /\ UNCHANGED <<opts, temp, files, file, runs, proven, broken>>

\* _drop_temp_database reports its failure and never raises.
CleanUp ==
    /\ step = "cleanup" /\ step' = "summary"
    /\ IF temp /\ opts.drop
       THEN \/ databases' = databases \ {runs} /\ report' = [report EXCEPT !.cleanup = "passed"]
            \/ databases' \in {databases, databases \ {runs}}
               /\ report' = [report EXCEPT !.cleanup = "failed"]
       ELSE UNCHANGED <<databases, report>>
    /\ UNCHANGED <<opts, temp, files, file, runs, proven, broken>>

\* A summary that fails is recorded as failed, without the name of its file.
WriteSummary ==
    /\ step = "summary" /\ step' = "manifest"
    /\ \/ Write({"summary"}) /\ report' = Recording("summary")
       \/ files' \in {files, [files EXCEPT !["summary"] = runs]} /\ UNCHANGED report
    /\ UNCHANGED <<opts, temp, databases, file, runs, proven, broken>>

Found(paths) == {[path |-> a, run |-> files[a]] : a \in paths}

\* Variant of ListEvidence: every file of the directory is listed.
ListDirectory ==
    /\ step = "manifest" /\ step' = "report"
    /\ report' = [report EXCEPT !.listed = Found({a \in Artifacts : files[a] # 0})]
    /\ UNCHANGED <<opts, temp, databases, files, file, runs, proven, broken>>

\* Artifacts that recorded steps name in the report, by paths that count only if absolute.
Named ==
    IF opts.absolute
    THEN UNION {IF s \in Trying THEN ArtifactOf[s] ELSE {s} : s \in report.recorded}
    ELSE {}

\* _file_evidence_manifest: the files whose absolute paths stand anywhere in the report, the
\* arguments of the command included.  The report has not been written yet.
ListEvidence ==
    /\ step = "manifest" /\ step' = "report"
    /\ report' = [report EXCEPT !.listed = Found(Named) \cup
           IF opts.named /\ file.state # "absent" THEN {[path |-> "report", run |-> file.run]}
                                                  ELSE {}]
    /\ UNCHANGED <<opts, temp, databases, files, file, runs, proven, broken>>

TruncateReport ==
    /\ step = "report" /\ step' = "writing"
    /\ file' = [file EXCEPT !.state = "torn"]
    /\ UNCHANGED <<opts, report, temp, databases, files, runs, proven, broken>>

WriteReport ==
    /\ step = "writing" /\ step' = "idle"
    /\ file' = [state |-> "whole", run |-> runs, listed |-> report.listed]
    /\ broken' = FALSE
    /\ UNCHANGED <<opts, report, temp, databases, files, runs, proven>>

\* Killed, or an exception in the finally block.
Kill ==
    /\ step # "idle" /\ step' = "idle"
    /\ IF step \in Trying THEN HalfDone ELSE UNCHANGED <<files, databases>>
    /\ broken' = TRUE
    /\ UNCHANGED <<opts, report, temp, file, runs, proven>>

Done == step = "idle" /\ runs = MaxRuns /\ UNCHANGED vars

Next ==
    \/ StartRun \/ RunPreflights \/ NameDatabase \/ BootstrapDatabase \/ ApplyMigrations
    \/ RunDailyRefresh \/ SelectCurrentCycle \/ SeedCandidates \/ InitializeGraphStatus
    \/ RunDagster \/ FreezeCandidates \/ CollectProviderStatus \/ Judge
    \/ StepRaises \/ Interrupt \/ CleanUp \/ WriteSummary \/ ListEvidence
    \/ TruncateReport \/ WriteReport \/ Kill \/ Done

Spec == Init /\ [][Next]_vars
-----------------------------------------------------------------------------
TypeOK ==
    /\ step \in Trying \cup {"idle", "cleanup", "summary", "manifest", "report", "writing"}
    /\ opts \in Flags
    /\ report \in Reports
    /\ temp \in BOOLEAN /\ (temp => opts.isolated) /\ proven \in BOOLEAN /\ broken \in BOOLEAN
    /\ runs \in 0..MaxRuns /\ databases \subseteq 1..runs
    /\ files \in [Artifacts -> 0..runs]
    /\ file \in [state : {"absent", "torn", "whole"}, run : 0..runs, listed : SUBSET Entry]

\* A report that claims the production pass rests on a job that really succeeded, made what
\* it selected and passed each expected check, after every step before it, with no failed
\* probe and no missing surface, and its own evidence file is in the manifest, unless the
\* artifact directory was given as a relative path.  Any other verdict names a reason and
\* each failed probe; exit code 0 goes with a pass or an interrupted run (main,
\* _open_blockers, "artifact_backed_pass_claims_only").
VerdictIsEarned ==
    [][file' # file /\ file'.state = "whole" =>
          /\ report.verdict = "PASS" =>
                /\ proven /\ report.probes = {} /\ opts.runDagster
                /\ Trying \ {"freeze", "judging"} \subseteq report.recorded
                /\ report.provider.status = "passed" /\ ~report.provider.surfaces
                /\ files["evidence"] = runs /\ (opts.absolute => [path |-> "evidence", run |-> runs] \in file'.listed)
          /\ report.exit = 0 => report.verdict \in {"PASS", "PREFLIGHT_PASS", "RUNNING"}
          /\ report.verdict \in {"BLOCKED", "PARTIAL", "PREFLIGHT_BLOCKED"} =>
                report.blockers # {} /\ report.probes \subseteq report.blockers]_vars

\* The artifacts that a report lists are its own run's and lie there as listed, not what an
\* earlier run has left in the directory; only a run that was broken off may put them out of
\* step.  The report itself is listed as an earlier run had left it, if it is listed at all
\* (_file_evidence_manifest; test_curated_proof_manifest_hashes_match_child_artifacts).
ManifestMatchesFiles ==
    step = "idle" /\ ~broken =>
        \A e \in file.listed :
            /\ file.state = "whole"
            /\ IF e.path = "report" THEN opts.named /\ e.run < file.run
                                    ELSE e.run = file.run /\ files[e.path] = e.run

\* After a run that was asked to drop its database the database is gone, whatever failed,
\* unless the report says that the drop failed; without that request a pass keeps it
\* (--drop-isolated-pg).
DatabaseAsAsked ==
    step = "idle" /\ ~broken /\ runs > 0 =>
        /\ opts.drop => runs \notin databases \/ report.cleanup = "failed"
        /\ ~opts.drop /\ opts.isolated /\ report.verdict = "PASS" => runs \in databases
=============================================================================
