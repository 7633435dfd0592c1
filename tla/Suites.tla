-------------------------------- MODULE Suites --------------------------------
(***************************************************************************)
(* What is run over the modules of a profile once resolve_for_profile has  *)
(* ordered them: the four compatibility checks of the contract suite, the  *)
(* health check and the smoke hooks of the smoke suite; and the stage 3    *)
(* audit, which checks the public entrypoints without resolving.  One      *)
(* command per behaviour.  What the installed packages do when they are    *)
(* imported and called is external.                                        *)
(***************************************************************************)
EXTENDS DependencyOrder

CONSTANTS
    Packages,     \* functions from registered modules to packages (see Package)
    Stranger,     \* a module_id that a hook may report under, other than its own
    Sdk,          \* "subsystem-sdk"
    Orchestrator, \* "orchestrator"
    Focus,        \* _FOCUS_MODULE_IDS
    Targets       \* TARGET_MODULES of the audit

Kinds == {"health_probe", "smoke_hook", "init_hook", "version_declaration", "cli"}

\* A module's registry entry and what its package does.  entrypoints: public_entrypoints, each
\* with what is wrong with it; contract: the registered and declared contract version, where
\* "none" is v0.0.0 and "current" is that of the matrix row.  A "foreign" hook fails under
\* another module_id than its own, which _normalize_smoke_payload lets stand.
Package ==
    [started     : BOOLEAN,
     entrypoints : Seq([kind : Kinds, fault : {"none", "import", "protocol", "signature"}]),
     declares    : {"agreed", "other", "invalid", "raises"},
     contract    : {"none", "current", "older"},
     hook        : {"passes", "fails", "foreign", "raises", "invalid", "unknown", "hangs"}]

ASSUME SuiteParts ==
    /\ \A p \in Packages : DOMAIN p = Registered
    /\ \A p \in Packages, m \in Registered : p[m] \in Package
    /\ Focus \cup Targets \subseteq Registered

VARIABLES
    job,      \* the command, "none" before it starts
    package,  \* what the modules are and do
    legacy,   \* the profile is a "-readonly-ui" one, whose hooks know it by an older name
    at,       \* the next check, or the next module in the order of the suite
    health,   \* the worst health result, "unknown" before the check
    results,  \* check results, smoke results and skips
    exit,     \* exit code of the command, NoExit before it ends
    record    \* the run record: its status, or "none", and failing_modules

suiteVars == <<job, package, legacy, at, health, results, exit, record>>
allVars == <<vars, suiteVars>>

NoExit   == -1
Statuses == {"success", "partial", "failed"}

SuitesInit ==
    /\ Init
    /\ job = "none" /\ package = (CHOOSE p \in Packages : TRUE) /\ legacy = FALSE /\ at = 1
    /\ health = "unknown" /\ results = {} /\ exit = NoExit
    /\ record = [status |-> "none", failing |-> {}]

-----------------------------------------------------------------------------
\* The compatibility checks.

Points(m)      == package[m].entrypoints
OfKind(m, k)   == {i \in DOMAIN Points(m) : Points(m)[i].kind = k}
First(m, k)    == Points(m)[CHOOSE i \in OfKind(m, k) : \A j \in OfKind(m, k) : i <= j]
Last(m, k)     == Points(m)[CHOOSE i \in OfKind(m, k) : \A j \in OfKind(m, k) : i >= j]
Usable(point)  == point.fault \notin {"import", "protocol"}

Result(check, m, good) ==
    [check |-> check, module |-> m, status |-> IF good THEN "success" ELSE "failed"]
NotStarted(check, m) == [check |-> check, module |-> m, status |-> "not_started"]

Started(m) == package[m].started
StartedOnes == {m \in Registered : Started(m)}

\* The declaration of a module can be called, through the first entrypoint of its kind.
Declares(m) == OfKind(m, "version_declaration") # {} /\ Usable(First(m, "version_declaration"))

\* Only modules that own a contract version are held to that of the matrix row.
VersionGood(m) ==
    Declares(m) /\ package[m].declares = "agreed" /\ package[m].contract # "older"

\* Variant of ContractsVersion: modules that have not started are passed over.
ContractsVersionStartedOnly ==
    {Result("contracts_version", m, VersionGood(m)) : m \in {n \in Permanent : Started(n)}}

ContractsVersion ==
    {IF Started(m) THEN Result("contracts_version", m, VersionGood(m))
     ELSE NotStarted("contracts_version", m) : m \in Permanent}

\* A declaration that raises is not caught by this check: _run_checks puts it down to assembly.
SdkBoundary ==
    IF Sdk \notin Permanent THEN {}
    ELSE IF ~Started(Sdk) THEN {NotStarted("sdk_boundary", Sdk)}
    ELSE IF Declares(Sdk) /\ package[Sdk].declares = "raises"
         THEN {Result("SdkBoundaryCheck", "assembly", FALSE)}
    ELSE {Result("sdk_boundary", Sdk, Declares(Sdk) /\ package[Sdk].declares = "agreed"
                                      /\ package[Sdk].contract = "current")}

\* _check_entry of the public API boundary.
ApiGood(m) ==
    /\ Points(m) # <<>>
    /\ \A k \in Kinds : Cardinality(OfKind(m, k)) <= 1
    /\ \A i \in DOMAIN Points(m) : Points(m)[i].fault = "none"

ApiBoundary(modules, begun) ==
    {IF m \in begun THEN Result("public_api_boundary", m, ApiGood(m))
     ELSE NotStarted("public_api_boundary", m) : m \in modules \cap (begun \cup Focus)}

\* entrypoints_by_kind keeps the last entrypoint of a kind.
Loadability ==
    IF Orchestrator \notin Permanent THEN {}
    ELSE IF ~Started(Orchestrator) THEN {NotStarted("orchestrator_loadability", Orchestrator)}
    ELSE {Result("orchestrator_loadability", Orchestrator,
                 \A k \in {"cli", "version_declaration"} :
                     OfKind(Orchestrator, k) # {} /\ Usable(Last(Orchestrator, k)))}

\* _default_checks
Checks == <<ContractsVersion, SdkBoundary, Loadability, ApiBoundary(Permanent, StartedOnes)>>

With(status) == {r.module : r \in {x \in results : x.status = status}}

\* _record_status and _non_success_modules of the contract suite.
ContractRecord ==
    [status  |-> IF With("failed") # {} THEN "failed"
                 ELSE IF With("not_started") # {} THEN "partial" ELSE "success",
     failing |-> With("failed") \cup With("not_started")]

Hooks(m) == {Points(m)[i] : i \in OfKind(m, "smoke_hook")}

Called(m) == Started(m) /\ \E h \in Hooks(m) : h.fault # "import"

\* The module_ids under which the failed results of a module's hooks are recorded.  A hook
\* that is missing or cannot be imported has the module's own.
Blamed(m) ==
    IF Called(m) /\ package[m].hook = "foreign"
    THEN {Stranger} \cup {n \in {m} : \E h \in Hooks(n) : h.fault = "import"}
    ELSE {m}

\* Status and failing_modules of the smoke suite, where blocked modules stop it.
SmokeRecord(blocked) ==
    [status  |-> IF blocked \cup With("failed") # {} THEN "failed"
                 ELSE IF health = "degraded" \/ With("not_started") # {} THEN "partial"
                 ELSE "success",
     failing |-> blocked \cup UNION {Blamed(m) : m \in With("failed")}]

ExitCode(status) == CASE status = "failed" -> 2 [] status = "partial" -> 1 [] OTHER -> 0

-----------------------------------------------------------------------------
Running(j) == job = j /\ exit = NoExit

\* The report is written and its status is the exit code, or the write fails: exit code 1,
\* and no record that could be read.
Finish(r) ==
    \/ record' = r /\ exit' = ExitCode(r.status)
    \/ record' = record /\ exit' = 1

\* resolve_for_profile has returned, render_profile works and a matrix row is selected.
Begin ==
    /\ stage = "resolved" /\ job = "none"
    /\ job' \in {"contract", "smoke"}
    /\ package' \in Packages
    /\ legacy' \in IF job' = "smoke" THEN BOOLEAN ELSE {FALSE}
    /\ UNCHANGED <<vars, at, health, results, exit, record>>

\* The profile does not resolve or render, or no active row has the extra bundles: exit code 1
\* and no record.
GiveUp ==
    /\ stage \in Ended /\ job = "none"
    /\ job' \in {"contract", "smoke"} /\ exit' = 1
    /\ UNCHANGED <<vars, package, legacy, at, health, results, record>>

RunCheck ==
    /\ Running("contract") /\ at <= Len(Checks)
    /\ results' = results \cup Checks[at]
    /\ at' = at + 1
    /\ UNCHANGED <<vars, job, package, legacy, health, exit, record>>

WriteReport ==
    /\ Running("contract") /\ at > Len(Checks)
    /\ Finish(ContractRecord)
    /\ UNCHANGED <<vars, job, package, legacy, at, health, results>>

\* The health check of the smoke suite; modules that it finds blocked end the suite.
CheckHealth ==
    /\ Running("smoke") /\ health = "unknown"
    /\ \/ /\ health' \in {"healthy", "degraded"}
          /\ UNCHANGED <<exit, record>>
       \/ \E m \in Permanent : health' = "blocked" /\ Finish(SmokeRecord({m}))
    /\ UNCHANGED <<vars, job, package, legacy, at, results>>

\* A hook that knows a "-readonly-ui" profile only by its older name is called again with it.
Passes(m) == package[m].hook = "passes" \/ (package[m].hook = "unknown" /\ legacy)

\* The module whose turn it is, in the order of the resolved entries.
Current == sorted[at]

\* Variant of RunHooks: the snapshot keeps the profile's own order of modules.
RunHooksInProfileOrder ==
    /\ Running("smoke") /\ health # "unknown" /\ at <= Len(sorted)
    /\ LET m == enabled[at]
       IN  /\ package[m].hook \notin {"hangs", "invalid"}
           /\ results' = results \cup {IF Started(m) THEN Result("smoke", m, Passes(m))
                                        ELSE NotStarted("smoke", m)}
    /\ at' = at + 1
    /\ UNCHANGED <<vars, job, package, legacy, health, exit, record>>

\* The hooks of the next module.  Without a hook, with one that cannot be imported, or one
\* that raises, the module has failed; one that does not return holds up the suite.
RunHooks ==
    /\ Running("smoke") /\ health # "unknown" /\ at <= Len(sorted)
    /\ ~(Called(Current) /\ package[Current].hook \in {"hangs", "invalid"})
    /\ results' = results \cup
          {IF ~Started(Current) THEN NotStarted("smoke", Current)
           ELSE Result("smoke", Current, /\ Hooks(Current) # {}
                                         /\ \A h \in Hooks(Current) : h.fault # "import"
                                         /\ Passes(Current))}
    /\ at' = at + 1
    /\ UNCHANGED <<vars, job, package, legacy, health, exit, record>>

\* A result that is no SmokeResult, such as a failure without a reason: the ValidationError
\* passes through the suite, and the command ends without a record.
RejectHookResult ==
    /\ Running("smoke") /\ health # "unknown" /\ at <= Len(sorted)
    /\ Called(Current) /\ package[Current].hook = "invalid"
    /\ exit' = 1
    /\ UNCHANGED <<vars, job, package, legacy, at, health, results, record>>

\* Variant of PersistSmoke: what was skipped does not count.
PersistSmokeWithoutSkips ==
    /\ Running("smoke") /\ health # "unknown" /\ at > Len(sorted)
    /\ Finish([SmokeRecord({}) EXCEPT !.status =
                   IF @ = "partial" /\ health = "healthy" THEN "success" ELSE @])
    /\ UNCHANGED <<vars, job, package, legacy, at, health, results>>

PersistSmoke ==
    /\ Running("smoke") /\ health # "unknown" /\ at > Len(sorted)
    /\ Finish(SmokeRecord({}))
    /\ UNCHANGED <<vars, job, package, legacy, at, health, results>>

-----------------------------------------------------------------------------
\* scripts/stage_3_compat_audit.py: the entrypoints of the profile's registered modules, in
\* memory as if each target had started.
AuditResults ==
    ApiBoundary(Enabled \cap Registered, StartedOnes \cup Targets)

Audited == {r \in AuditResults : r.module \in Targets}

\* Variant of AuditVerdict: targets without a result are not missed.
AuditVerdictOfFound == IF \E r \in Audited : r.status # "success" THEN 1 ELSE 0

AuditVerdict ==
    IF Targets \ {r.module : r \in Audited} # {} THEN 2
    ELSE IF \E r \in Audited : r.status # "success" THEN 1 ELSE 0

\* It reads registry and profile by itself, whatever the resolver makes of them.  A registry
\* or a profile that does not load, or a profile without a matrix row, is a setup error;
\* nothing is written.
Audit ==
    /\ stage \in Ended /\ job = "none"
    /\ job' = "audit" /\ package' \in Packages
    /\ UNCHANGED <<vars, legacy, at, health, results, record>>
    /\ exit' \in {AuditVerdict', 2}

-----------------------------------------------------------------------------
Suite ==
    \/ Begin \/ GiveUp \/ RunCheck \/ WriteReport
    \/ CheckHealth \/ RunHooks \/ RejectHookResult \/ PersistSmoke \/ Audit

Work == (Resolve /\ UNCHANGED suiteVars) \/ Suite

Hung ==
    /\ Running("smoke") /\ health # "unknown" /\ at <= Len(sorted)
    /\ Called(Current) /\ package[Current].hook = "hangs"

Over == exit # NoExit \/ Hung

SuitesNext == Work \/ (Over /\ UNCHANGED allVars)

SuitesSpec == SuitesInit /\ [][SuitesNext]_allVars

\* A sequential program goes on while it can; imports and declarations return.
FairSuites == SuitesSpec /\ WF_allVars(Work)
-----------------------------------------------------------------------------
\* Reference: a module against which no check has anything to say.
Sound(m) ==
    /\ Started(m)
    /\ package[m].declares = "agreed"
    /\ package[m].contract = "current" \/ (package[m].contract = "none" /\ m # Sdk)
    /\ \A i \in DOMAIN Points(m) :
          /\ Points(m)[i].fault = "none"
          /\ \A j \in DOMAIN Points(m) : Points(m)[j].kind = Points(m)[i].kind => i = j
    /\ OfKind(m, "version_declaration") # {}
    /\ m = Orchestrator => OfKind(m, "cli") # {}

\* The contract suite succeeds exactly when every enabled module is sound, and names exactly
\* the others, although each check passes over some modules and some faults: nothing falls
\* between two checks.  Only a declaration of the SDK that raises is put down to assembly, too
\* (CompatRunner._run_checks, _record_status).
ContractIsExact ==
    LET unsound == {m \in Enabled : ~Sound(m)}
    IN  job = "contract" /\ record.status # "none" =>
            /\ record.status = "success" <=> unsound = {}
            /\ unsound \subseteq record.failing
            /\ record.failing # unsound =>
                  /\ record.failing = unsound \cup {"assembly"}
                  /\ Sdk \in unsound /\ package[Sdk].declares = "raises"

\* A smoke record of success rests on a clean health check and on a passing hook of every
\* enabled module.  A record names each module whose hook failed, unless the hook reported
\* under another module_id, and blames none that passed; a suite in which a hook gave an
\* invalid result leaves no record at all (SmokeSuite.run, _run_smoke_hook).
SmokeIsEarned ==
    LET answers(m) == Started(m) /\ Hooks(m) # {} /\ \A h \in Hooks(m) : h.fault # "import"
        good(m)    == answers(m) /\ (package[m].hook = "passes" \/ (legacy /\ package[m].hook = "unknown"))
    IN  job = "smoke" /\ record.status # "none" /\ health # "blocked" =>
            /\ record.status = "success" <=> health = "healthy" /\ \A m \in Enabled : good(m)
            /\ record.failing \ {Stranger} \subseteq {m \in Enabled : Started(m) /\ ~good(m)}
            /\ \A m \in Enabled \ record.failing :
                  Started(m) => good(m) \/ (answers(m) /\ package[m].hook = "foreign")
            /\ \A m \in Enabled : answers(m) => package[m].hook # "invalid"

\* Hooks run in dependency order: when the hook of a module has run, those of all it depends on
\* have, whatever order the profile lists them in (run_smoke, which puts the resolved order
\* into the snapshot).
HooksInOrder ==
    job = "smoke" =>
        \A m \in With("success") \cup With("failed") : \A d \in Listed(depends[m]) :
            \E r \in results : r.module = d

\* The audit ends with 0 only if each target is enabled and registered, and each of its
\* entrypoints loads, has its protocol and its signature, whatever its integration status
\* (stage_3_compat_audit.main).
AuditIsEarned ==
    job = "audit" /\ exit = 0 =>
        \A m \in Targets :
            /\ m \in Enabled /\ Points(m) # <<>>
            /\ \A i \in DOMAIN Points(m) : Points(m)[i].fault = "none"

\* Each command ends, cycle in the registry or not, unless a smoke hook never returns: the
\* suite calls hooks without a time limit.
SuiteEnds == <>Over
=============================================================================
