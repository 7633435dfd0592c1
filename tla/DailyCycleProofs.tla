--------------------------- MODULE DailyCycleProofs ---------------------------
(***************************************************************************)
(* Proofs about DailyCycleProof, for any probes, assets, checks, blockers  *)
(* and number of runs: a production pass is earned, the manifest lists     *)
(* only the run's own files, and the temporary database goes when that was *)
(* asked for.  The inductive invariant says what is on record when a step  *)
(* begins, and that the artifacts and the database follow the record.      *)
(***************************************************************************)
EXTENDS DailyCycleProof, TLAPS

Base == {"preflight", "database", "migrations", "refresh", "selection", "seed"}
Finishing == {"summary", "manifest", "report", "writing"}

\* A step begins when those before it are on record, and no verdict is given before the last.
Sequential ==
    /\ step = "database" => {"preflight"} \subseteq report.recorded
    /\ step = "migrations" => {"preflight", "database"} \subseteq report.recorded
    /\ step = "refresh" => {"preflight", "database", "migrations"} \subseteq report.recorded
    /\ step = "selection" => Base \ {"selection", "seed"} \subseteq report.recorded
    /\ step = "seed" => Base \ {"seed"} \subseteq report.recorded
    /\ step \in {"graph", "dagster", "freeze", "provider", "judging"} => Base \subseteq report.recorded
    /\ step \in {"graph", "dagster"} => opts.runDagster
    /\ step = "dagster" => "graph" \in report.recorded
    /\ step = "judging" => "provider" \in report.recorded
    /\ step \in {"provider", "judging"} => report.dagster # "none"
    /\ step \in Trying => report.verdict = "RUNNING"
    /\ step # "idle" => runs >= 1

\* A passed job has proved what it claims, and its evidence is on disk.
JobProved ==
    report.dagster = "passed" =>
        /\ proven /\ opts.runDagster /\ {"graph", "dagster"} \subseteq report.recorded
        /\ files["evidence"] = runs

\* The artifacts of the steps on record are this run's, and so are those that the report lists.
\* What lies in the place of the report is an earlier run's until this one writes its own.
Backed ==
    /\ step # "idle" => file.run < runs
    /\ opts.absolute => \A s \in report.recorded \cap Trying : \A a \in ArtifactOf[s] : files[a] = runs
    /\ "summary" \in report.recorded => files["summary"] = runs
    /\ step \in {"report", "writing"} =>
          /\ \A e \in report.listed :
                IF e.path = "report" THEN opts.named /\ e.run < runs
                                     ELSE e.run = runs /\ files[e.path] = runs
          /\ report.verdict = "PASS" /\ opts.absolute =>
                [path |-> "evidence", run |-> runs] \in report.listed

\* A verdict has its reasons.
Reasoned ==
    /\ report.verdict = "PASS" =>
          /\ report.dagster = "passed" /\ report.probes = {}
          /\ Trying \ {"freeze", "judging"} \subseteq report.recorded
          /\ report.provider.status = "passed" /\ ~report.provider.surfaces
    /\ report.exit = 0 => report.verdict \in {"PASS", "PREFLIGHT_PASS", "RUNNING"}
    /\ report.verdict \in {"BLOCKED", "PARTIAL", "PREFLIGHT_BLOCKED"} =>
          report.blockers # {} /\ report.probes \subseteq report.blockers

\* The database exists only under its name, from its step on, until it is dropped.
Housed ==
    /\ step # "idle" /\ runs \in databases => temp
    /\ "database" \in report.recorded /\ opts.isolated
          /\ (step \in Trying \cup {"cleanup"} \/ ~opts.drop) => runs \in databases
    /\ step \in Finishing /\ opts.drop => runs \notin databases \/ report.cleanup = "failed"

DailyInv ==
    /\ TypeOK /\ Sequential /\ JobProved /\ Backed /\ Reasoned /\ Housed
    /\ ManifestMatchesFiles /\ DatabaseAsAsked

-----------------------------------------------------------------------------
\* What the operators on reports do, field by field.

LEMMA RecordingEffect ==
    ASSUME report \in Reports, NEW s \in Trying \cup {"summary"}
    PROVE  LET r == Recording(s)
           IN  /\ r \in Reports /\ r.recorded = report.recorded \cup {s}
               /\ r.probes = report.probes /\ r.dagster = report.dagster
               /\ r.failStep = report.failStep /\ r.provider = report.provider
               /\ r.verdict = report.verdict /\ r.exit = report.exit
               /\ r.blockers = report.blockers /\ r.cleanup = report.cleanup
               /\ r.listed = report.listed
BY DEF Reports, Recording

LEMMA RuntimeOpen ==
    ASSUME NEW r \in Reports
    PROVE  ActiveRuntime(r) \subseteq Runtime
BY DEF Reports, Provider, ActiveRuntime, BlockersOfStep

LEMMA BlockersOpen ==
    ASSUME NEW r \in Reports
    PROVE  /\ OpenBlockers(r) \subseteq Probes \cup Reasons \cup Runtime
           /\ r.probes \subseteq OpenBlockers(r)
           /\ r.dagster \in {"failed", "not_run"} => OpenBlockers(r) # {}
           /\ OpenBlockers(r) = {} =>
                 r.probes = {} /\ r.provider.status = "passed" /\ ~r.provider.surfaces
BY RuntimeOpen DEF OpenBlockers, Reasons, Reports, Provider

LEMMA EndingEffect ==
    ASSUME report \in Reports, NEW verdict \in Verdicts, NEW exit \in 0..2,
           NEW blockers \in SUBSET (Probes \cup Reasons \cup Runtime)
    PROVE  LET e == Ending(verdict, exit, blockers)
           IN  /\ e \in Reports /\ e.verdict = verdict /\ e.exit = exit
               /\ e.blockers = blockers
               /\ e.probes = report.probes /\ e.recorded = report.recorded
               /\ e.dagster = report.dagster /\ e.provider = report.provider
               /\ e.cleanup = report.cleanup /\ e.listed = report.listed
BY DEF Reports, Ending

LEMMA BlockedEffect ==
    ASSUME NEW r \in Reports
    PROVE  LET b == Blocked(r)
           IN  /\ b \in Reports /\ b.verdict = "BLOCKED" /\ b.exit = 1
               /\ b.blockers # {} /\ b.probes \subseteq b.blockers
               /\ b.probes = r.probes /\ b.recorded = r.recorded /\ b.dagster = r.dagster
               /\ b.provider = r.provider /\ b.cleanup = r.cleanup /\ b.listed = r.listed
<1> DEFINE all     == OpenBlockers(r) \cup {"error"}
           verdict == "BLOCKED"
           exit    == 1
           e == [r EXCEPT !.verdict = verdict, !.exit = exit, !.blockers = all]
<1>1. all \in SUBSET (Probes \cup Reasons \cup Runtime)
    BY BlockersOpen DEF Reasons
<1>2. r.probes \subseteq all /\ all # {}
    BY BlockersOpen
<1>3. verdict \in Verdicts /\ exit \in 0..2 /\ verdict = "BLOCKED" /\ exit = 1
    BY DEF Verdicts
<1>4. e = Blocked(r)
    BY DEF Blocked
<1> HIDE DEF all, verdict, exit
<1>5. /\ e \in Reports /\ e.verdict = verdict /\ e.exit = exit /\ e.blockers = all
      /\ e.probes = r.probes /\ e.recorded = r.recorded /\ e.dagster = r.dagster
      /\ e.provider = r.provider /\ e.cleanup = r.cleanup /\ e.listed = r.listed
    BY <1>1, <1>3 DEF Reports
<1> HIDE DEF e
<1> QED
    BY <1>2, <1>3, <1>4, <1>5

\* A job that passed made what it selected, and its checks passed, the expected ones too.
LEMMA PassedProves ==
    ASSUME NEW o \in Outcomes, StepPassed(o)
    PROVE  Proves(o)
<1>1. o.success /\ o.materialized = Selected /\ Selected # {}
    BY DEF Outcomes, StepPassed
<1>2. \A c \in Checks : o.checks[c] = "passed" \/ (o.checks[c] = "absent" /\ c \notin Expected)
    BY DEF StepPassed, ChecksComplete, Recorded
<1> QED
    BY <1>1, <1>2 DEF Proves

\* Writing artifacts.
LEMMA WriteEffect ==
    ASSUME TypeOK, NEW written \in SUBSET Artifacts, Write(written)
    PROVE  /\ files' \in [Artifacts -> 0..runs]
           /\ \A a \in written : files'[a] = runs
           /\ \A a \in Artifacts : files[a] = runs => files'[a] = runs
BY DEF TypeOK, Write

LEMMA ArtifactsOfSteps ==
    /\ \A s \in Trying : ArtifactOf[s] \in SUBSET Artifacts
    /\ \A s \in {"preflight", "refresh", "graph"} : ArtifactOf[s] = {s}
    /\ ArtifactOf["dagster"] = {"evidence"}
    /\ \A s \in Trying \ {"preflight", "refresh", "graph", "dagster"} : ArtifactOf[s] = {}
BY DEF ArtifactOf, Trying, Artifacts

-----------------------------------------------------------------------------
\* Inside the try block: what is on record stays so, and is backed.
Onward ==
    /\ step \in Trying /\ step' \in Trying \cup {"cleanup"}
    /\ UNCHANGED <<opts, file, runs, broken>>
    /\ report.recorded \subseteq report'.recorded
    /\ report'.recorded \subseteq report.recorded \cup {step}
    /\ opts.absolute /\ step \in report'.recorded \ report.recorded =>
          \A a \in ArtifactOf[step] : files'[a] = runs
    /\ \A a \in Artifacts : files[a] = runs => files'[a] = runs
    /\ databases \subseteq databases' /\ databases' \subseteq databases \cup {runs}
    /\ temp => temp'
    /\ runs \in databases' \ databases => temp'
    /\ step = "database" /\ "database" \in report'.recorded /\ opts.isolated => runs \in databases'

LEMMA OnwardTypes ==
    ASSUME DailyInv, Onward, report' \in Reports, files' \in [Artifacts -> 0..runs],
           proven' \in BOOLEAN, temp' \in BOOLEAN, temp' => opts.isolated
    PROVE  TypeOK'
<1>1. databases' \subseteq 1..runs
    BY ProofParts DEF Onward, Trying, DailyInv, TypeOK, Sequential
<1>2. step' \in Trying \cup {"idle", "cleanup", "summary", "manifest", "report", "writing"}
    BY DEF Onward
<1>3. UNCHANGED <<opts, file, runs, broken>>
    BY DEF Onward
<1>4. /\ opts \in Flags /\ broken \in BOOLEAN /\ runs \in 0..MaxRuns
      /\ file \in [state : {"absent", "torn", "whole"}, run : 0..runs, listed : SUBSET Entry]
    BY DEF DailyInv, TypeOK
<1> QED
    BY <1>1, <1>2, <1>3, <1>4 DEF TypeOK

LEMMA OnwardKeeps ==
    ASSUME DailyInv, Onward, TypeOK', Sequential', JobProved', Reasoned'
    PROVE  DailyInv'
<1>1. /\ step # "idle" /\ step' # "idle" /\ step' \notin Finishing /\ step \notin Finishing
      /\ "summary" # step /\ runs \in Nat
    BY DEF Onward, Trying, Finishing, DailyInv, TypeOK
<1>2. Backed'
  <2>1. ASSUME opts.absolute, NEW s \in report'.recorded \cap Trying, NEW a \in ArtifactOf[s]
        PROVE  files'[a] = runs
    <3>1. a \in Artifacts
        BY <2>1, ArtifactsOfSteps
    <3> QED
        BY <2>1, <3>1 DEF Onward, DailyInv, Backed
  <2>2. "summary" \in report'.recorded => files'["summary"] = runs
      BY <1>1 DEF Onward, DailyInv, Backed, Artifacts
  <2> QED
      BY <1>1, <2>1, <2>2 DEF Onward, DailyInv, Backed, Finishing
<1>3. Housed'
  <2>1. runs \in databases' => temp'
      BY <1>1 DEF Onward, DailyInv, Housed
  <2>2. "database" \in report'.recorded /\ opts.isolated => runs \in databases'
      BY <1>1 DEF Onward, DailyInv, Housed
  <2> QED
      BY <1>1, <2>1, <2>2 DEF Onward, Housed
<1>4. ManifestMatchesFiles' /\ DatabaseAsAsked'
    BY <1>1 DEF ManifestMatchesFiles, DatabaseAsAsked
<1> QED
    BY <1>2, <1>3, <1>4 DEF DailyInv

\* What a step that records itself leaves as it is.
OnlyRecords(s) ==
    /\ report' \in Reports /\ report'.recorded = report.recorded \cup {s}
    /\ report'.probes = report.probes /\ report'.dagster = report.dagster
    /\ report'.provider = report.provider /\ report'.verdict = report.verdict
    /\ report'.exit = report.exit /\ report'.blockers = report.blockers
    /\ report'.cleanup = report.cleanup /\ report'.listed = report.listed

LEMMA PassKeeps ==
    ASSUME DailyInv, NEW s \in {"database", "migrations", "refresh", "selection", "seed"}, NEW next,
           Pass(s, next),
           \/ s = "migrations" /\ next = "refresh"
           \/ s = "refresh" /\ next = "selection"
           \/ s = "selection" /\ next = "seed"
           \/ s = "seed" /\ next = IF opts.runDagster THEN "graph" ELSE "freeze"
           \/ s = "database" /\ next = "migrations",
           IF s = "database" /\ opts.isolated
           THEN temp /\ databases' = databases \cup {runs}
           ELSE databases' = databases
    PROVE  DailyInv'
<1> DEFINE written == ArtifactOf[s]
<1>1. s \in Trying /\ next \in Trying /\ s # "dagster" /\ s # "idle"
    BY DEF Trying
<1>2. OnlyRecords(s)
    BY <1>1, RecordingEffect DEF Pass, DailyInv, TypeOK, OnlyRecords
<1>3. written \in SUBSET Artifacts /\ Write(written)
    BY <1>1, ArtifactsOfSteps DEF Pass
<1>4. /\ files' \in [Artifacts -> 0..runs] /\ \A a \in written : files'[a] = runs
      /\ \A a \in Artifacts : files[a] = runs => files'[a] = runs
    BY <1>3, WriteEffect DEF DailyInv
<1>5. step = s /\ step' = next /\ UNCHANGED <<opts, temp, file, runs, proven, broken>>
    BY DEF Pass
<1> HIDE DEF written
<1>6. Sequential'
    BY <1>1, <1>2, <1>5 DEF DailyInv, Sequential, Base, OnlyRecords
<1>7. JobProved'
    BY <1>2, <1>4, <1>5 DEF DailyInv, JobProved, Artifacts, OnlyRecords
<1>8. Reasoned'
    BY <1>1, <1>2, <1>5 DEF DailyInv, Sequential, Reasoned, OnlyRecords
<1>9. Onward
  <2>1. \A a \in ArtifactOf[step] : files'[a] = runs
      BY <1>4, <1>5 DEF written
  <2> QED
      BY <1>1, <1>2, <1>4, <1>5, <2>1 DEF Onward, OnlyRecords
<1>10. TypeOK'
    BY <1>2, <1>4, <1>5, <1>9, OnwardTypes DEF OnlyRecords, DailyInv, TypeOK
<1> QED
    BY <1>6, <1>7, <1>8, <1>9, <1>10, OnwardKeeps

\* The handler of main, and Control-C: the step may have done a part of its work.
LEMMA HalfDoneEffect ==
    ASSUME DailyInv, step \in Trying, HalfDone
    PROVE  /\ files' \in [Artifacts -> 0..runs]
           /\ \A a \in Artifacts : files[a] = runs => files'[a] = runs
           /\ databases' = databases \/ (temp /\ step = "database" /\ databases' = databases \cup {runs})
<1>1. PICK written \in SUBSET ArtifactOf[step] : Write(written)
    BY DEF HalfDone
<1>2. written \in SUBSET Artifacts
    BY ArtifactsOfSteps
<1> QED
    BY <1>1, <1>2, WriteEffect DEF HalfDone, DailyInv

LEMMA RaiseKeeps == DailyInv /\ (StepRaises \/ Interrupt) => DailyInv'
<1> SUFFICES ASSUME DailyInv, StepRaises \/ Interrupt
             PROVE  DailyInv'
    OBVIOUS
<1>1. /\ step \in Trying /\ HalfDone /\ step' = "cleanup"
      /\ UNCHANGED <<opts, temp, file, runs, proven, broken>>
      /\ report' = report \/ report' = Blocked(report)
    BY DEF StepRaises, Interrupt
<1>2. /\ files' \in [Artifacts -> 0..runs]
      /\ \A a \in Artifacts : files[a] = runs => files'[a] = runs
      /\ databases' = databases \/ (temp /\ step = "database" /\ databases' = databases \cup {runs})
    BY <1>1, HalfDoneEffect
<1>3. /\ report' \in Reports /\ report'.recorded = report.recorded
      /\ report'.dagster = report.dagster /\ report'.probes = report.probes
      /\ report'.provider = report.provider
      /\ report' = report \/ (report'.verdict = "BLOCKED" /\ report'.exit = 1
                              /\ report'.blockers # {} /\ report'.probes \subseteq report'.blockers)
    BY <1>1, BlockedEffect DEF DailyInv, TypeOK
<1>4. step = "database" /\ "database" \in report.recorded /\ opts.isolated => runs \in databases
    BY <1>1 DEF DailyInv, Housed
<1>5. Onward
    BY <1>1, <1>2, <1>3, <1>4 DEF Onward
<1>6. TypeOK'
    BY <1>1, <1>2, <1>3, <1>5, OnwardTypes DEF DailyInv, TypeOK
<1>7. Sequential'
    BY <1>1, ProofParts DEF DailyInv, Sequential, Trying, TypeOK
<1>8. JobProved'
    BY <1>1, <1>2, <1>3 DEF DailyInv, JobProved, Artifacts
<1>9. Reasoned'
    BY <1>3 DEF DailyInv, Reasoned
<1> QED
    BY <1>5, <1>6, <1>7, <1>8, <1>9, OnwardKeeps

LEMMA PreflightKeeps == DailyInv /\ RunPreflights => DailyInv'
<1> SUFFICES ASSUME DailyInv, RunPreflights
             PROVE  DailyInv'
    OBVIOUS
<1>1. PICK failed \in SUBSET Probes :
          LET r == [Recording("preflight") EXCEPT !.probes = failed]
          IN  \/ step' = "cleanup" /\ report' = Blocked(r)
              \/ /\ step' = "cleanup"
                 /\ report' = [r EXCEPT
                        !.verdict = IF failed = {} THEN "PREFLIGHT_PASS" ELSE "PREFLIGHT_BLOCKED",
                        !.exit = IF failed = {} THEN 0 ELSE 1, !.blockers = failed]
              \/ step' = "database" /\ report' = r
    BY DEF RunPreflights
<1>2. /\ step = "preflight" /\ Write({"preflight"})
      /\ UNCHANGED <<opts, temp, databases, file, runs, proven, broken>>
    BY DEF RunPreflights
<1> DEFINE p == Recording("preflight")
           r == [p EXCEPT !.probes = failed]
<1>3. /\ p \in Reports /\ p.recorded = report.recorded \cup {"preflight"}
      /\ p.dagster = report.dagster /\ p.provider = report.provider /\ p.verdict = report.verdict
      /\ p.exit = report.exit
    BY RecordingEffect DEF DailyInv, TypeOK, Trying
<1> HIDE DEF p
<1>4. /\ r \in Reports /\ r.recorded = p.recorded /\ r.dagster = p.dagster
      /\ r.provider = p.provider /\ r.verdict = p.verdict /\ r.exit = p.exit
      /\ r.probes = failed
    BY <1>3 DEF Reports
<1> DEFINE verdict == IF failed = {} THEN "PREFLIGHT_PASS" ELSE "PREFLIGHT_BLOCKED"
           exit    == IF failed = {} THEN 0 ELSE 1
           e == [r EXCEPT !.verdict = verdict, !.exit = exit, !.blockers = failed]
<1>5. \/ step' = "cleanup" /\ report' = Blocked(r)
      \/ step' = "cleanup" /\ report' = e
      \/ step' = "database" /\ report' = r
    BY <1>1 DEF p
<1> HIDE DEF r
<1>6. verdict \in Verdicts /\ exit \in 0..2
    BY DEF Verdicts
<1>7. /\ exit = 0 => verdict = "PREFLIGHT_PASS"
      /\ verdict \in {"PREFLIGHT_PASS", "PREFLIGHT_BLOCKED"}
      /\ verdict = "PREFLIGHT_BLOCKED" => failed # {}
    OBVIOUS
<1> HIDE DEF verdict, exit
<1>8. /\ e \in Reports /\ e.recorded = r.recorded /\ e.dagster = r.dagster
      /\ e.provider = r.provider /\ e.verdict = verdict /\ e.exit = exit /\ e.blockers = failed
      /\ e.probes = r.probes
    BY <1>4, <1>6 DEF Reports
<1> HIDE DEF e
<1>9. /\ report' \in Reports /\ report'.recorded = report.recorded \cup {"preflight"}
      /\ report'.dagster = report.dagster
      /\ step' = "database" => report'.verdict = report.verdict
    BY <1>3, <1>4, <1>5, <1>8, BlockedEffect
<1>10. Reasoned'
  <2>1. CASE report' = Blocked(r)
    <3>1. /\ report'.verdict = "BLOCKED" /\ report'.exit = 1 /\ report'.blockers # {}
          /\ report'.probes \subseteq report'.blockers
        BY <1>4, <2>1, BlockedEffect
    <3> QED
        BY <3>1 DEF Reasoned
  <2>2. CASE report' = e
    <3>1. /\ report'.verdict = verdict /\ report'.exit = exit /\ report'.blockers = failed
          /\ report'.probes = failed
        BY <1>4, <1>8, <2>2
    <3> QED
        BY <1>7, <3>1 DEF Reasoned
  <2>3. CASE report' = r
    <3>1. report'.verdict = "RUNNING"
        BY <1>2, <1>3, <1>4, <2>3 DEF DailyInv, Sequential, Trying
    <3> QED
        BY <3>1 DEF Reasoned
  <2> QED
      BY <1>5, <2>1, <2>2, <2>3
<1>11. /\ files' \in [Artifacts -> 0..runs] /\ files'["preflight"] = runs
       /\ \A a \in Artifacts : files[a] = runs => files'[a] = runs
    BY <1>2, WriteEffect DEF DailyInv, Artifacts
<1>12. Onward
  <2>1. \A a \in ArtifactOf[step] : files'[a] = runs
      BY <1>2, <1>11, ArtifactsOfSteps DEF Trying
  <2> QED
      BY <1>2, <1>5, <1>9, <1>11, <2>1 DEF Onward, Trying
<1>13. TypeOK'
    BY <1>2, <1>9, <1>11, <1>12, OnwardTypes DEF DailyInv, TypeOK
<1>14. Sequential'
    BY <1>2, <1>5, <1>9 DEF DailyInv, Sequential, Trying
<1>15. JobProved'
    BY <1>2, <1>9, <1>11 DEF DailyInv, JobProved, Artifacts
<1> QED
    BY <1>10, <1>12, <1>13, <1>14, <1>15, OnwardKeeps

LEMMA NameKeeps == DailyInv /\ NameDatabase => DailyInv'
<1> SUFFICES ASSUME DailyInv, NameDatabase
             PROVE  DailyInv'
    OBVIOUS
<1>1. /\ step = "database" /\ opts.isolated /\ ~temp /\ temp' = TRUE
      /\ UNCHANGED <<step, opts, report, databases, files, file, runs, proven, broken>>
    BY DEF NameDatabase
<1>2. step \in Trying
    BY <1>1 DEF Trying
<1>3. Onward
    BY <1>1, <1>2 DEF Onward, DailyInv, Housed
<1>4. TypeOK'
    BY <1>1, <1>3, OnwardTypes DEF DailyInv, TypeOK
<1>5. Sequential' /\ JobProved' /\ Reasoned'
    BY <1>1 DEF DailyInv, Sequential, JobProved, Reasoned
<1> QED
    BY <1>3, <1>4, <1>5, OnwardKeeps

LEMMA GraphKeeps == DailyInv /\ InitializeGraphStatus => DailyInv'
<1> SUFFICES ASSUME DailyInv, InitializeGraphStatus
             PROVE  DailyInv'
    OBVIOUS
<1> DEFINE r == Recording("graph")
<1>1. /\ step = "graph" /\ Write({"graph"})
      /\ UNCHANGED <<opts, temp, databases, file, runs, proven, broken>>
      /\ (step' = "dagster" /\ report' = r) \/ (step' = "cleanup" /\ report' = Blocked(r))
    BY DEF InitializeGraphStatus
<1>2. /\ r \in Reports /\ r.recorded = report.recorded \cup {"graph"}
      /\ r.dagster = report.dagster /\ r.verdict = report.verdict
    BY RecordingEffect DEF DailyInv, TypeOK, Trying
<1> HIDE DEF r
<1>3. /\ report' \in Reports /\ report'.recorded = report.recorded \cup {"graph"}
      /\ report'.dagster = report.dagster
      /\ \/ step' = "dagster" /\ report'.verdict = report.verdict
         \/ /\ step' = "cleanup" /\ report'.verdict = "BLOCKED" /\ report'.exit = 1
            /\ report'.blockers # {} /\ report'.probes \subseteq report'.blockers
    BY <1>1, <1>2, BlockedEffect
<1>4. /\ files' \in [Artifacts -> 0..runs] /\ files'["graph"] = runs
      /\ \A a \in Artifacts : files[a] = runs => files'[a] = runs
    BY <1>1, WriteEffect DEF DailyInv, Artifacts
<1>5. Onward
  <2>1. \A a \in ArtifactOf[step] : files'[a] = runs
      BY <1>1, <1>4, ArtifactsOfSteps DEF Trying
  <2> QED
      BY <1>1, <1>3, <1>4, <2>1 DEF Onward, Trying
<1>6. TypeOK'
    BY <1>1, <1>3, <1>4, <1>5, OnwardTypes DEF DailyInv, TypeOK
<1>7. Sequential'
    BY <1>1, <1>3 DEF DailyInv, Sequential, Trying, Base
<1>8. JobProved'
    BY <1>1, <1>3, <1>4 DEF DailyInv, JobProved, Artifacts
<1>9. Reasoned'
    BY <1>1, <1>3 DEF DailyInv, Sequential, Reasoned, Trying
<1> QED
    BY <1>5, <1>6, <1>7, <1>8, <1>9, OnwardKeeps

LEMMA DagsterKeeps == DailyInv /\ RunDagster => DailyInv'
<1> SUFFICES ASSUME DailyInv, RunDagster
             PROVE  DailyInv'
    OBVIOUS
<1> DEFINE p == Recording("dagster")
<1>1. /\ step = "dagster" /\ step' = "provider"
      /\ UNCHANGED <<opts, temp, databases, file, runs, broken>>
    BY DEF RunDagster
<1>2. /\ p \in Reports /\ p.recorded = report.recorded \cup {"dagster"}
      /\ p.verdict = report.verdict
    BY RecordingEffect DEF DailyInv, TypeOK, Trying
<1> DEFINE With(dagster, failed) == [p EXCEPT !.dagster = dagster, !.failStep = failed]
           Result(dagster, failed) ==
               /\ report' = With(dagster, failed)
               /\ Write({"evidence"}) \/ (~opts.absolute /\ UNCHANGED files)
               /\ dagster = "passed" => proven' = TRUE /\ Write({"evidence"})
               /\ proven' \in BOOLEAN
<1>3. \E dagster \in {"passed", "failed"}, failed \in JobSteps : Result(dagster, failed)
  <2>1. ASSUME NEW o \in Outcomes, Write({"evidence"}), proven' = Proves(o),
               NEW failed \in (IF o.success THEN {"none"} ELSE FailSteps \cup {"none"}),
               report' = With(IF StepPassed(o) THEN "passed" ELSE "failed", failed)
        PROVE  \E dagster \in {"passed", "failed"}, f \in JobSteps : Result(dagster, f)
    <3> DEFINE dagster == IF StepPassed(o) THEN "passed" ELSE "failed"
    <3>1. failed \in JobSteps /\ dagster \in {"passed", "failed"}
        BY <2>1 DEF JobSteps
    <3>2. dagster = "passed" => Proves(o)
        BY PassedProves
    <3>3. Proves(o) \in BOOLEAN
        BY DEF Proves
    <3>4. Result(dagster, failed)
        BY <2>1, <3>2, <3>3
    <3> HIDE DEF dagster, Result
    <3> QED
        BY <3>1, <3>4
  <2>2. ASSUME Write({"evidence"}) \/ (~opts.absolute /\ UNCHANGED files), proven' = FALSE,
               NEW failed \in {"orchestrator_dbt_compile", "dagster_setup"},
               report' = With("failed", failed)
        PROVE  \E dagster \in {"passed", "failed"}, f \in JobSteps : Result(dagster, f)
    <3>1. failed \in JobSteps /\ Result("failed", failed)
        BY <2>2 DEF JobSteps
    <3> HIDE DEF Result
    <3> QED
        BY <3>1
  <2> HIDE DEF Result
  <2> QED
      BY <2>1, <2>2 DEF RunDagster
<1>4. PICK dagster \in {"passed", "failed"}, failed \in JobSteps : Result(dagster, failed)
    BY <1>3
<1> HIDE DEF p
<1>5. /\ report' \in Reports /\ report'.recorded = p.recorded
      /\ report'.dagster = dagster /\ report'.verdict = p.verdict
    BY <1>2, <1>4 DEF Reports
<1>6. /\ files' \in [Artifacts -> 0..runs]
      /\ \A a \in Artifacts : files[a] = runs => files'[a] = runs
      /\ files'["evidence"] = runs \/ ~opts.absolute
      /\ dagster = "passed" => files'["evidence"] = runs
    BY <1>4, WriteEffect DEF DailyInv, TypeOK, Artifacts
<1> HIDE DEF Result
<1>7. Onward
  <2>1. opts.absolute => \A a \in ArtifactOf[step] : files'[a] = runs
      BY <1>1, <1>6, ArtifactsOfSteps
  <2> QED
      BY <1>1, <1>2, <1>5, <1>6, <2>1 DEF Onward, Trying
<1>8. TypeOK'
  <2>1. proven' \in BOOLEAN
      BY <1>4 DEF Result
  <2> QED
      BY <1>1, <1>5, <1>6, <1>7, <2>1, OnwardTypes DEF DailyInv, TypeOK
<1>9. Sequential'
    BY <1>1, <1>2, <1>5 DEF DailyInv, Sequential, Trying, Base
<1>10. JobProved'
  <2>1. dagster = "passed" => proven' = TRUE
      BY <1>4 DEF Result
  <2> QED
      BY <1>1, <1>2, <1>5, <1>6, <2>1 DEF DailyInv, JobProved, Sequential
<1>11. Reasoned'
    BY <1>1, <1>2, <1>5 DEF DailyInv, Sequential, Reasoned, Trying
<1> QED
    BY <1>7, <1>8, <1>9, <1>10, <1>11, OnwardKeeps

LEMMA FreezeKeeps == DailyInv /\ FreezeCandidates => DailyInv'
<1> SUFFICES ASSUME DailyInv, FreezeCandidates
             PROVE  DailyInv'
    OBVIOUS
<1> DEFINE p == Recording("freeze")
<1>1. /\ step = "freeze" /\ step' = "provider"
      /\ report' = [p EXCEPT !.dagster = "not_run"]
      /\ UNCHANGED <<opts, temp, databases, files, file, runs, proven, broken>>
    BY DEF FreezeCandidates
<1>2. /\ p \in Reports /\ p.recorded = report.recorded \cup {"freeze"}
      /\ p.verdict = report.verdict
    BY RecordingEffect DEF DailyInv, TypeOK, Trying
<1> HIDE DEF p
<1>3. /\ report' \in Reports /\ report'.recorded = p.recorded
      /\ report'.dagster = "not_run" /\ report'.verdict = p.verdict
    BY <1>1, <1>2 DEF Reports
<1>4. Onward
    BY <1>1, <1>2, <1>3, ArtifactsOfSteps DEF Onward, Trying
<1>5. TypeOK'
    BY <1>1, <1>3, <1>4, OnwardTypes DEF DailyInv, TypeOK
<1>6. Sequential' /\ JobProved' /\ Reasoned'
    BY <1>1, <1>2, <1>3 DEF DailyInv, Sequential, JobProved, Reasoned, Trying, Base
<1> QED
    BY <1>4, <1>5, <1>6, OnwardKeeps

LEMMA ProviderKeeps == DailyInv /\ CollectProviderStatus => DailyInv'
<1> SUFFICES ASSUME DailyInv, CollectProviderStatus
             PROVE  DailyInv'
    OBVIOUS
<1> DEFINE p == Recording("provider")
<1>1. PICK answer \in Provider : report' = [p EXCEPT !.provider = answer]
  <2>1. \A surfaces \in BOOLEAN, runtime \in RuntimeSets :
            [status |-> "passed", surfaces |-> surfaces, runtime |-> runtime] \in Provider
      BY DEF Provider, Runtime
  <2>2. [status |-> "failed", surfaces |-> FALSE, runtime |-> {}] \in Provider
      BY DEF Provider
  <2> QED
      BY <2>1, <2>2 DEF CollectProviderStatus
<1>2. /\ step = "provider" /\ step' = "judging"
      /\ UNCHANGED <<opts, temp, databases, files, file, runs, proven, broken>>
    BY DEF CollectProviderStatus
<1>3. /\ p \in Reports /\ p.recorded = report.recorded \cup {"provider"}
      /\ p.verdict = report.verdict /\ p.dagster = report.dagster
    BY RecordingEffect DEF DailyInv, TypeOK, Trying
<1> HIDE DEF p
<1>4. /\ report' \in Reports /\ report'.recorded = p.recorded
      /\ report'.dagster = p.dagster /\ report'.verdict = p.verdict
    BY <1>1, <1>3 DEF Reports
<1>5. Onward
    BY <1>2, <1>3, <1>4, ArtifactsOfSteps DEF Onward, Trying
<1>6. TypeOK'
    BY <1>2, <1>4, <1>5, OnwardTypes DEF DailyInv, TypeOK
<1>7. Sequential' /\ JobProved' /\ Reasoned'
    BY <1>2, <1>3, <1>4 DEF DailyInv, Sequential, JobProved, Reasoned, Trying, Base
<1> QED
    BY <1>5, <1>6, <1>7, OnwardKeeps

LEMMA JudgeKeeps == DailyInv /\ Judge => DailyInv'
<1> SUFFICES ASSUME DailyInv, Judge
             PROVE  DailyInv'
    OBVIOUS
<1> DEFINE all == OpenBlockers(report)
<1>1. /\ step = "judging" /\ step' = "cleanup"
      /\ report' = IF report.dagster = "passed" /\ all = {}
                   THEN Ending("PASS", 0, {}) ELSE Ending("PARTIAL", 2, all)
      /\ UNCHANGED <<opts, temp, databases, files, file, runs, proven, broken>>
    BY DEF Judge
<1>2. report \in Reports /\ report.dagster \in {"none", "not_run", "passed", "failed"}
    BY DEF DailyInv, TypeOK, Reports
<1>3. /\ all \in SUBSET (Probes \cup Reasons \cup Runtime)
      /\ report.probes \subseteq all
      /\ report.dagster \in {"failed", "not_run"} => all # {}
      /\ all = {} => report.probes = {} /\ report.provider.status = "passed"
                     /\ ~report.provider.surfaces
    BY <1>2, BlockersOpen
<1> HIDE DEF all
<1>4. "PASS" \in Verdicts /\ "PARTIAL" \in Verdicts
    BY DEF Verdicts
<1>5. /\ report' \in Reports /\ report'.recorded = report.recorded
      /\ report'.dagster = report.dagster /\ report'.probes = report.probes
      /\ report'.provider = report.provider
      /\ \/ /\ report.dagster = "passed" /\ all = {} /\ report'.verdict = "PASS"
         \/ /\ ~(report.dagster = "passed" /\ all = {})
            /\ report'.verdict = "PARTIAL" /\ report'.exit = 2 /\ report'.blockers = all
    BY <1>1, <1>2, <1>3, <1>4, EndingEffect
<1>6. Onward
    BY <1>1, <1>5, ArtifactsOfSteps DEF Onward, Trying, DailyInv, Housed
<1>7. TypeOK'
    BY <1>1, <1>5, <1>6, OnwardTypes DEF DailyInv, TypeOK
<1>8. Sequential' /\ JobProved'
    BY <1>1, <1>5 DEF DailyInv, Sequential, JobProved, Trying
<1>9. report.dagster # "none" /\ Base \cup {"provider"} \subseteq report.recorded
    BY <1>1 DEF DailyInv, Sequential
<1>10. Reasoned'
  <2>1. report.dagster = "passed" => {"graph", "dagster"} \subseteq report.recorded
      BY DEF DailyInv, JobProved
  <2>2. Trying \ {"freeze", "judging"} \subseteq Base \cup {"provider", "graph", "dagster"}
      BY DEF Trying, Base
  <2>3. CASE report'.verdict = "PASS"
      BY <1>3, <1>5, <1>9, <2>1, <2>2, <2>3 DEF Reasoned
  <2>4. CASE report'.verdict = "PARTIAL"
      BY <1>2, <1>3, <1>5, <1>9, <2>4 DEF Reasoned
  <2> QED
      BY <1>5, <2>3, <2>4
<1> QED
    BY <1>6, <1>7, <1>8, <1>10, OnwardKeeps

-----------------------------------------------------------------------------
\* The finally block.

\* After the try block only the cleanup, the summary and the list change the report.
LEMMA CleanUpKeeps == DailyInv /\ CleanUp => DailyInv'
<1> SUFFICES ASSUME DailyInv, CleanUp
             PROVE  DailyInv'
    OBVIOUS
<1>1. /\ step = "cleanup" /\ step' = "summary"
      /\ UNCHANGED <<opts, temp, files, file, runs, proven, broken>>
      /\ IF temp /\ opts.drop
         THEN \/ databases' = databases \ {runs} /\ report' = [report EXCEPT !.cleanup = "passed"]
              \/ /\ databases' \in {databases, databases \ {runs}}
                 /\ report' = [report EXCEPT !.cleanup = "failed"]
         ELSE UNCHANGED <<databases, report>>
    BY DEF CleanUp
<1>2. \A x \in {"passed", "failed"} :
          LET r == [report EXCEPT !.cleanup = x]
          IN  /\ r \in Reports /\ r.recorded = report.recorded
              /\ r.probes = report.probes /\ r.dagster = report.dagster
              /\ r.provider = report.provider /\ r.verdict = report.verdict
              /\ r.exit = report.exit /\ r.blockers = report.blockers
              /\ r.cleanup = x /\ r.listed = report.listed
    BY DEF Reports, DailyInv, TypeOK
<1>3. /\ report' \in Reports /\ report'.recorded = report.recorded
      /\ report'.probes = report.probes /\ report'.dagster = report.dagster
      /\ report'.provider = report.provider /\ report'.verdict = report.verdict
      /\ report'.exit = report.exit /\ report'.blockers = report.blockers
      /\ report'.listed = report.listed
    BY <1>1, <1>2 DEF DailyInv, TypeOK
<1>4. /\ databases' \subseteq databases
      /\ ~opts.drop => databases' = databases
      /\ opts.drop => runs \notin databases' \/ report'.cleanup = "failed"
    BY <1>1, <1>2 DEF DailyInv, Housed
<1>5. TypeOK'
    BY <1>1, <1>3, <1>4 DEF DailyInv, TypeOK
<1>6. Sequential' /\ JobProved' /\ Reasoned'
    BY <1>1, <1>3 DEF DailyInv, Sequential, JobProved, Reasoned, Trying
<1>7. Backed'
    BY <1>1, <1>3 DEF DailyInv, Backed
<1>8. Housed'
    BY <1>1, <1>3, <1>4 DEF DailyInv, Housed, Trying, Finishing
<1>9. ManifestMatchesFiles' /\ DatabaseAsAsked'
    BY <1>1 DEF ManifestMatchesFiles, DatabaseAsAsked
<1> QED
    BY <1>5, <1>6, <1>7, <1>8, <1>9 DEF DailyInv

LEMMA SummaryKeeps == DailyInv /\ WriteSummary => DailyInv'
<1> SUFFICES ASSUME DailyInv, WriteSummary
             PROVE  DailyInv'
    OBVIOUS
<1>1. /\ step = "summary" /\ step' = "manifest"
      /\ UNCHANGED <<opts, temp, databases, file, runs, proven, broken>>
      /\ \/ Write({"summary"}) /\ report' = Recording("summary")
         \/ files' \in {files, [files EXCEPT !["summary"] = runs]} /\ UNCHANGED report
    BY DEF WriteSummary
<1>2. /\ files' \in [Artifacts -> 0..runs]
      /\ \A a \in Artifacts : files[a] = runs => files'[a] = runs
      /\ Write({"summary"}) => files'["summary"] = runs
  <2>1. CASE Write({"summary"})
      BY <2>1, WriteEffect DEF DailyInv, Artifacts
  <2>2. CASE files' \in {files, [files EXCEPT !["summary"] = runs]}
    <3>1. runs \in 0..runs
        BY ProofParts DEF DailyInv, TypeOK
    <3> QED
        BY <2>2, <3>1 DEF DailyInv, TypeOK, Artifacts, Write
  <2> QED
      BY <1>1, <2>1, <2>2
<1>3. /\ report' \in Reports /\ report'.recorded \cap Trying = report.recorded \cap Trying
      /\ report'.probes = report.probes /\ report'.dagster = report.dagster
      /\ report'.provider = report.provider /\ report'.verdict = report.verdict
      /\ report'.exit = report.exit /\ report'.blockers = report.blockers
      /\ report'.cleanup = report.cleanup
      /\ "summary" \in report'.recorded => "summary" \in report.recorded \/ Write({"summary"})
  <2>1. CASE Write({"summary"}) /\ report' = Recording("summary")
      BY <2>1, RecordingEffect DEF DailyInv, TypeOK, Trying
  <2>2. CASE UNCHANGED report
      BY <2>2 DEF DailyInv, TypeOK
  <2> QED
      BY <1>1, <2>1, <2>2
<1>4. TypeOK'
    BY <1>1, <1>2, <1>3 DEF DailyInv, TypeOK
<1>5. Sequential' /\ JobProved' /\ Reasoned'
    BY <1>1, <1>2, <1>3 DEF DailyInv, Sequential, JobProved, Reasoned, Trying, Artifacts
<1>6. Backed'
  <2>1. ASSUME opts.absolute, NEW s \in report'.recorded \cap Trying, NEW a \in ArtifactOf[s]
        PROVE  files'[a] = runs
      BY <1>2, <1>3, <2>1, ArtifactsOfSteps DEF DailyInv, Backed
  <2>2. "summary" \in report'.recorded => files'["summary"] = runs
      BY <1>2, <1>3 DEF DailyInv, Backed, Artifacts
  <2> QED
      BY <1>1, <2>1, <2>2 DEF DailyInv, Backed
<1>7. Housed'
    BY <1>1, <1>3 DEF DailyInv, Housed, Trying, Finishing
<1>8. ManifestMatchesFiles' /\ DatabaseAsAsked'
    BY <1>1 DEF ManifestMatchesFiles, DatabaseAsAsked
<1> QED
    BY <1>4, <1>5, <1>6, <1>7, <1>8 DEF DailyInv

LEMMA ListKeeps == DailyInv /\ ListEvidence => DailyInv'
<1> SUFFICES ASSUME DailyInv, ListEvidence
             PROVE  DailyInv'
    OBVIOUS
<1> DEFINE own    == IF opts.named /\ file.state # "absent"
                     THEN {[path |-> "report", run |-> file.run]} ELSE {}
           listed == Found(Named) \cup own
<1>1. /\ step = "manifest" /\ step' = "report"
      /\ report' = [report EXCEPT !.listed = listed]
      /\ UNCHANGED <<opts, temp, databases, files, file, runs, proven, broken>>
    BY DEF ListEvidence
<1>2. /\ report \in Reports /\ report.recorded \subseteq Trying \cup {"summary"}
      /\ runs \in Nat /\ file.run \in Nat /\ files \in [Artifacts -> 0..runs]
    BY ProofParts DEF DailyInv, TypeOK, Reports
<1>3. \A a \in Named : opts.absolute /\ \E s \in report.recorded :
          (s \in Trying /\ a \in ArtifactOf[s]) \/ (s = "summary" /\ a = "summary")
    BY <1>2 DEF Named
<1>4. Named \in SUBSET Artifacts /\ \A a \in Named : files[a] = runs
    BY <1>2, <1>3, ArtifactsOfSteps DEF DailyInv, Backed, Artifacts
<1>5. opts.absolute /\ "dagster" \in report.recorded => "evidence" \in Named
    BY ArtifactsOfSteps DEF Trying, Named
<1>6. \A e \in Found(Named) :
          e \in Entry /\ e.path # "report" /\ e.run = runs /\ files[e.path] = runs
  <2>1. "report" \notin Artifacts
      BY DEF Artifacts
  <2> QED
      BY <1>2, <1>4, <2>1 DEF Found, Entry
<1>7. \A e \in own : e \in Entry /\ e.path = "report" /\ opts.named /\ e.run < runs
    BY <1>1, <1>2 DEF Entry, DailyInv, Backed
<1>8. opts.absolute /\ "dagster" \in report.recorded =>
          [path |-> "evidence", run |-> runs] \in listed
    BY <1>4, <1>5 DEF Found
<1>9. listed \in SUBSET Entry
    BY <1>6, <1>7
<1>10. \A e \in listed : IF e.path = "report" THEN opts.named /\ e.run < runs
                                             ELSE e.run = runs /\ files[e.path] = runs
    BY <1>6, <1>7
<1> HIDE DEF listed, own
<1>11. /\ report' \in Reports /\ report'.recorded = report.recorded
       /\ report'.probes = report.probes /\ report'.dagster = report.dagster
       /\ report'.provider = report.provider /\ report'.verdict = report.verdict
       /\ report'.exit = report.exit /\ report'.blockers = report.blockers
       /\ report'.listed = listed /\ report'.cleanup = report.cleanup
    BY <1>1, <1>2, <1>9 DEF Reports
<1>12. TypeOK'
    BY <1>1, <1>11 DEF DailyInv, TypeOK
<1>13. Sequential' /\ JobProved' /\ Reasoned'
    BY <1>1, <1>11 DEF DailyInv, Sequential, JobProved, Reasoned, Trying
<1>14. Backed'
  <2>1. report.verdict = "PASS" => "dagster" \in report.recorded
      BY DEF DailyInv, Reasoned, JobProved
  <2> QED
      BY <1>1, <1>8, <1>10, <1>11, <2>1 DEF DailyInv, Backed
<1>15. Housed'
    BY <1>1, <1>11 DEF DailyInv, Housed, Trying, Finishing
<1>16. ManifestMatchesFiles' /\ DatabaseAsAsked'
    BY <1>1 DEF ManifestMatchesFiles, DatabaseAsAsked
<1> QED
    BY <1>12, <1>13, <1>14, <1>15, <1>16 DEF DailyInv

LEMMA TruncateKeeps == DailyInv /\ TruncateReport => DailyInv'
<1> SUFFICES ASSUME DailyInv, TruncateReport
             PROVE  DailyInv'
    OBVIOUS
<1>1. /\ step = "report" /\ step' = "writing" /\ file' = [file EXCEPT !.state = "torn"]
      /\ UNCHANGED <<opts, report, temp, databases, files, runs, proven, broken>>
    BY DEF TruncateReport
<1>2. TypeOK'
    BY <1>1 DEF DailyInv, TypeOK
<1>3. Sequential' /\ JobProved' /\ Reasoned'
    BY <1>1 DEF DailyInv, Sequential, JobProved, Reasoned, Trying
<1>4. Backed' /\ Housed'
    BY <1>1 DEF DailyInv, Backed, Housed, Trying, Finishing
<1>5. ManifestMatchesFiles' /\ DatabaseAsAsked'
    BY <1>1 DEF ManifestMatchesFiles, DatabaseAsAsked
<1> QED
    BY <1>2, <1>3, <1>4, <1>5 DEF DailyInv

LEMMA WriteReportKeeps == DailyInv /\ WriteReport => DailyInv'
<1> SUFFICES ASSUME DailyInv, WriteReport
             PROVE  DailyInv'
    OBVIOUS
<1>1. /\ step = "writing" /\ step' = "idle"
      /\ file' = [state |-> "whole", run |-> runs, listed |-> report.listed]
      /\ broken' = FALSE
      /\ UNCHANGED <<opts, report, temp, databases, files, runs, proven>>
    BY DEF WriteReport
<1>2. runs \in 0..runs /\ report.listed \in SUBSET Entry
    BY ProofParts DEF DailyInv, TypeOK, Reports
<1>3. TypeOK'
    BY <1>1, <1>2 DEF DailyInv, TypeOK
<1>4. Sequential' /\ JobProved' /\ Reasoned'
    BY <1>1 DEF DailyInv, Sequential, JobProved, Reasoned, Trying
<1>5. Backed' /\ Housed'
    BY <1>1 DEF DailyInv, Backed, Housed, Trying, Finishing
<1>6. ManifestMatchesFiles'
    BY <1>1 DEF DailyInv, Backed, ManifestMatchesFiles
<1>7. DatabaseAsAsked'
  <2>1. opts.drop => runs \notin databases \/ report.cleanup = "failed"
      BY <1>1 DEF DailyInv, Housed, Finishing
  <2>2. ~opts.drop /\ opts.isolated /\ report.verdict = "PASS" => runs \in databases
      BY <1>1 DEF DailyInv, Housed, Reasoned, Trying
  <2> QED
      BY <1>1, <2>1, <2>2 DEF DatabaseAsAsked
<1> QED
    BY <1>3, <1>4, <1>5, <1>6, <1>7 DEF DailyInv

-----------------------------------------------------------------------------
\* Between the runs.

LEMMA StartKeeps == DailyInv /\ StartRun => DailyInv'
<1> SUFFICES ASSUME DailyInv, StartRun
             PROVE  DailyInv'
    OBVIOUS
<1>1. /\ step = "idle" /\ runs < MaxRuns /\ runs' = runs + 1 /\ step' = "preflight"
      /\ opts' \in Flags /\ report' = FreshReport /\ temp' = FALSE /\ proven' = FALSE
      /\ UNCHANGED <<databases, files, file, broken>>
    BY DEF StartRun
<1>2. FreshReport \in Reports
    BY DEF FreshReport, Reports, NoProvider, Provider, Verdicts, JobSteps
<1>3. /\ runs \in Nat /\ runs' \in 0..MaxRuns /\ 0..runs \subseteq 0..runs' /\ runs' >= 1
      /\ 1..runs \subseteq 1..runs' /\ runs' \notin 1..runs
    BY <1>1, ProofParts DEF DailyInv, TypeOK
<1>4. TypeOK'
  <2>1. files' \in [Artifacts -> 0..runs'] /\ databases' \subseteq 1..runs'
      BY <1>1, <1>3 DEF DailyInv, TypeOK
  <2>2. file' \in [state : {"absent", "torn", "whole"}, run : 0..runs', listed : SUBSET Entry]
      BY <1>1, <1>3 DEF DailyInv, TypeOK
  <2> QED
      BY <1>1, <1>2, <1>3, <2>1, <2>2 DEF DailyInv, TypeOK, Trying
<1>5. Sequential' /\ JobProved' /\ Reasoned'
    BY <1>1, <1>3 DEF Sequential, JobProved, Reasoned, FreshReport
<1>8. Backed'
  <2>1. file.run \in 0..runs /\ file.run < runs'
      BY <1>1, <1>3 DEF DailyInv, TypeOK
  <2> QED
      BY <1>1, <2>1 DEF Backed, FreshReport
<1>6. Housed'
    BY <1>1, <1>3 DEF DailyInv, TypeOK, Housed, FreshReport, Finishing
<1>7. ManifestMatchesFiles' /\ DatabaseAsAsked'
    BY <1>1 DEF ManifestMatchesFiles, DatabaseAsAsked
<1> QED
    BY <1>4, <1>5, <1>6, <1>7, <1>8 DEF DailyInv

LEMMA KillKeeps == DailyInv /\ Kill => DailyInv'
<1> SUFFICES ASSUME DailyInv, Kill
             PROVE  DailyInv'
    OBVIOUS
<1>1. /\ step # "idle" /\ step' = "idle" /\ broken' = TRUE
      /\ IF step \in Trying THEN HalfDone ELSE UNCHANGED <<files, databases>>
      /\ UNCHANGED <<opts, report, temp, file, runs, proven>>
    BY DEF Kill
<1>2. /\ files' \in [Artifacts -> 0..runs]
      /\ \A a \in Artifacts : files[a] = runs => files'[a] = runs
      /\ databases \subseteq databases' /\ databases' \subseteq 1..runs
  <2>1. runs \in 1..runs
      BY <1>1, ProofParts DEF DailyInv, TypeOK, Sequential
  <2>2. CASE step \in Trying
      BY <1>1, <2>1, <2>2, HalfDoneEffect DEF DailyInv, TypeOK
  <2>3. CASE step \notin Trying
      BY <1>1, <2>3 DEF DailyInv, TypeOK
  <2> QED
      BY <2>2, <2>3
<1>3. TypeOK'
    BY <1>1, <1>2 DEF DailyInv, TypeOK
<1>4. Sequential' /\ JobProved' /\ Reasoned'
    BY <1>1, <1>2 DEF DailyInv, Sequential, JobProved, Reasoned, Trying, Artifacts
<1>5. Backed'
  <2>1. ASSUME opts.absolute, NEW s \in report.recorded \cap Trying, NEW a \in ArtifactOf[s]
        PROVE  files'[a] = runs
      BY <1>2, <2>1, ArtifactsOfSteps DEF DailyInv, Backed
  <2> QED
      BY <1>1, <1>2, <2>1 DEF DailyInv, Backed, Artifacts
<1>6. Housed'
    BY <1>1, <1>2 DEF DailyInv, Housed, Trying, Finishing
<1>7. ManifestMatchesFiles' /\ DatabaseAsAsked'
    BY <1>1 DEF ManifestMatchesFiles, DatabaseAsAsked
<1> QED
    BY <1>3, <1>4, <1>5, <1>6, <1>7 DEF DailyInv

-----------------------------------------------------------------------------
LEMMA InitDaily == Init => DailyInv
<1> SUFFICES ASSUME Init
             PROVE  DailyInv
    OBVIOUS
<1>1. FreshReport \in Reports
    BY DEF FreshReport, Reports, NoProvider, Provider, Verdicts, JobSteps
<1>2. TypeOK
  <2>1. runs \in 0..MaxRuns /\ files \in [Artifacts -> 0..runs]
      BY ProofParts DEF Init
  <2>2. opts \in Flags /\ opts.isolated
      BY DEF Init, Flags
  <2>3. file \in [state : {"absent", "torn", "whole"}, run : 0..runs, listed : SUBSET Entry]
      BY DEF Init
  <2> QED
      BY <1>1, <2>1, <2>2, <2>3 DEF Init, TypeOK
<1>3. Sequential /\ JobProved /\ Backed /\ Reasoned /\ Housed
    BY DEF Init, FreshReport, Sequential, JobProved, Backed, Reasoned, Housed, Trying, Finishing
<1>4. ManifestMatchesFiles /\ DatabaseAsAsked
    BY DEF Init, ManifestMatchesFiles, DatabaseAsAsked
<1> QED
    BY <1>2, <1>3, <1>4 DEF DailyInv

LEMMA StepDaily == DailyInv /\ [Next]_vars => DailyInv'
<1> SUFFICES ASSUME DailyInv, [Next]_vars
             PROVE  DailyInv'
    OBVIOUS
<1>1. CASE BootstrapDatabase
    BY <1>1, PassKeeps DEF BootstrapDatabase
<1>2. CASE ApplyMigrations
    BY <1>2, PassKeeps DEF ApplyMigrations
<1>3. CASE RunDailyRefresh
    BY <1>3, PassKeeps DEF RunDailyRefresh
<1>4. CASE SelectCurrentCycle
    BY <1>4, PassKeeps DEF SelectCurrentCycle
<1>5. CASE SeedCandidates
    BY <1>5, PassKeeps DEF SeedCandidates
<1>6. CASE StartRun \/ RunPreflights \/ NameDatabase
    BY <1>6, StartKeeps, PreflightKeeps, NameKeeps
<1>7. CASE InitializeGraphStatus \/ RunDagster \/ FreezeCandidates
    BY <1>7, GraphKeeps, DagsterKeeps, FreezeKeeps
<1>8. CASE CollectProviderStatus \/ Judge \/ StepRaises \/ Interrupt
    BY <1>8, ProviderKeeps, JudgeKeeps, RaiseKeeps
<1>9. CASE CleanUp \/ WriteSummary \/ ListEvidence
    BY <1>9, CleanUpKeeps, SummaryKeeps, ListKeeps
<1>10. CASE TruncateReport \/ WriteReport \/ Kill
    BY <1>10, TruncateKeeps, WriteReportKeeps, KillKeeps
<1>11. CASE UNCHANGED vars
    BY <1>11 DEF DailyInv, TypeOK, Sequential, JobProved, Backed, Reasoned, Housed,
                 ManifestMatchesFiles, DatabaseAsAsked, vars
<1> QED
    BY <1>1, <1>2, <1>3, <1>4, <1>5, <1>6, <1>7, <1>8, <1>9, <1>10, <1>11 DEF Next, Done

\* The inductive invariant holds in every reachable state, for any number of runs.
THEOREM DailyInvariant == Spec => []DailyInv
<1>1. Init => DailyInv
    BY InitDaily
<1>2. DailyInv /\ [Next]_vars => DailyInv'
    BY StepDaily
<1> QED
    BY <1>1, <1>2, PTL DEF Spec

\* Every variable keeps its type.
THEOREM DailyTypes == Spec => []TypeOK
<1>1. DailyInv => TypeOK
    BY DEF DailyInv
<1> QED
    BY <1>1, DailyInvariant, PTL

\* The artifacts that a report lists are its own run's and lie there as listed; an entry for the
\* report itself is of an earlier run's (_file_evidence_manifest).
THEOREM ManifestAlwaysMatches == Spec => []ManifestMatchesFiles
<1>1. DailyInv => ManifestMatchesFiles
    BY DEF DailyInv
<1> QED
    BY <1>1, DailyInvariant, PTL

\* The temporary database goes when that was asked for, and a pass keeps it otherwise
\* (--drop-isolated-pg).
THEOREM DatabaseAlwaysAsAsked == Spec => []DatabaseAsAsked
<1>1. DailyInv => DatabaseAsAsked
    BY DEF DailyInv
<1> QED
    BY <1>1, DailyInvariant, PTL

\* Only the last step of a run leaves a whole report.
LEMMA OnlyTheReportIsWhole ==
    ASSUME DailyInv, Next, file' # file, file'.state = "whole"
    PROVE  WriteReport
<1>1. ~TruncateReport
    BY DEF TruncateReport, DailyInv, TypeOK
<1> QED
    BY <1>1 DEF Next, StartRun, RunPreflights, NameDatabase, BootstrapDatabase, ApplyMigrations,
                RunDailyRefresh, SelectCurrentCycle, SeedCandidates, Pass, InitializeGraphStatus,
                RunDagster, FreezeCandidates, CollectProviderStatus, Judge, StepRaises, Interrupt,
                CleanUp, WriteSummary, ListEvidence, Kill, Done, vars

\* A report that claims the production pass is earned, and any other verdict has its reason
\* (_open_blockers, "artifact_backed_pass_claims_only").
THEOREM VerdictsAreEarned == Spec => VerdictIsEarned
<1> DEFINE Earned ==
        file' # file /\ file'.state = "whole" =>
          /\ report.verdict = "PASS" =>
                /\ proven /\ report.probes = {} /\ opts.runDagster
                /\ Trying \ {"freeze", "judging"} \subseteq report.recorded
                /\ report.provider.status = "passed" /\ ~report.provider.surfaces
                /\ files["evidence"] = runs /\ (opts.absolute => [path |-> "evidence", run |-> runs] \in file'.listed)
          /\ report.exit = 0 => report.verdict \in {"PASS", "PREFLIGHT_PASS", "RUNNING"}
          /\ report.verdict \in {"BLOCKED", "PARTIAL", "PREFLIGHT_BLOCKED"} =>
                report.blockers # {} /\ report.probes \subseteq report.blockers
<1>1. DailyInv /\ [Next]_vars => [Earned]_vars
  <2> SUFFICES ASSUME DailyInv, Next, file' # file, file'.state = "whole"
               PROVE  Earned
      BY DEF vars
  <2>1. step = "writing" /\ file'.listed = report.listed
      BY OnlyTheReportIsWhole DEF WriteReport
  <2>2. report.verdict = "PASS" => report.dagster = "passed"
      BY DEF DailyInv, Reasoned
  <2> QED
      BY <2>1, <2>2 DEF DailyInv, Reasoned, JobProved, Backed
<1>2. VerdictIsEarned <=> [][Earned]_vars
    BY DEF VerdictIsEarned
<1> QED
    BY <1>1, <1>2, DailyInvariant, PTL DEF Spec

=============================================================================
