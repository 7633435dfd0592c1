------------------------------ MODULE Bootstrap ------------------------------
(***************************************************************************)
(* The commands bootstrap, bootstrap --dry-run and shutdown, one after the *)
(* other on one host.  A bootstrap goes through four stages, ends at the   *)
(* first that fails, never stops what it has started, and writes a report  *)
(* whose name depends on profile and action only.  A shutdown plans afresh *)
(* and writes none.  docker compose starts and stops services one by one   *)
(* in the order of its arguments.                                          *)
(***************************************************************************)
EXTENDS BundlePlan

CONSTANTS
    ExtraLists,  \* --extra-bundles lists that people ask for
    MaxCommands, \* bound: commands given
    MaxDeaths    \* bound: services that die by themselves

ASSUME CommandBounds ==
    /\ ExtraLists \subseteq Seq(Listed(Base) \cup Optional)
    /\ MaxCommands \in Nat /\ MaxDeaths \in Nat

Stages == <<"env_filesystem_readiness", "service_startup",
            "orchestrator_entrypoint_readiness", "public_smoke_probes">>

Reported == {"start", "plan"}

VARIABLES
    disk,     \* the setting
    step,     \* where the command stands, "idle" between commands
    cmd,      \* the command: see Commands
    up,       \* services that run
    file,     \* the report of the last bootstrap of each action
    commands, \* commands so far
    deaths,   \* services that died so far
    latest,   \* history: the last bootstrap of each action, and whether it was broken off
    loose     \* history: a service died, or a shutdown did not name all that ran

vars == <<disk, step, cmd, up, file, commands, deaths, latest, loose>>

\* "plan" is the dry run.  at: the next service that compose starts or stops; passed:
\* how many stages have passed; failed: the stage that the result calls failed; history:
\* the services that this command has started, and the stage that it failed in.
Commands ==
    [action : Reported \cup {"stop", "none"}, extras : ExtraLists \cup {<<>>},
     at : Nat \ {0}, passed : 0..4, failed : Listed(Stages) \cup {"none"},
     came : SUBSET Services, brokeIn : Listed(Stages) \cup {"none"}]

Given(action, extras) ==
    [action |-> action, extras |-> extras, at |-> 1, passed |-> 0, failed |-> "none",
     came |-> {}, brokeIn |-> "none"]

NoCommand == Given("none", <<>>)

TypeOK ==
    /\ disk \in Settings
    /\ step \in {"idle", "resolving", "compose", "entrypoint", "smoke", "reporting", "writing"}
    /\ cmd \in Commands
    /\ up \subseteq Services
    /\ file \in [Reported -> [state : {"absent", "torn", "whole"}, run : 0..MaxCommands,
                              passed : 0..4, failed : Listed(Stages) \cup {"none"}]]
    /\ commands \in 0..MaxCommands /\ deaths \in 0..MaxDeaths
    /\ latest \in [Reported -> [run : 0..MaxCommands, brokenOff : BOOLEAN]]
    /\ loose \in BOOLEAN

Init ==
    /\ disk \in Settings
    /\ step = "idle" /\ cmd = NoCommand
    /\ up = {} /\ commands = 0 /\ deaths = 0 /\ loose = FALSE
    /\ file = [a \in Reported |->
                  [state |-> "absent", run |-> 0, passed |-> 0, failed |-> "none"]]
    /\ latest = [a \in Reported |-> [run |-> 0, brokenOff |-> FALSE]]

Starting == StartOrder(disk, cmd.extras)
Stopping == StopOrder(disk, cmd.extras)

Finish == step' = "idle" /\ cmd' = NoCommand

\* Variant of NextUnfinished: the stage that was finished last.
LastFinished == Stages[IF cmd.passed = 0 THEN 1 ELSE cmd.passed]

\* _next_unfinished_stage
NextUnfinished == Stages[cmd.passed + 1]

Pass(next) ==
    /\ step' = next
    /\ cmd' = [cmd EXCEPT !.passed = @ + 1]

\* A stage fails with an exception that becomes a result; a shutdown just ends.
Fail(stage) ==
    IF cmd.action = "stop" THEN Finish
    ELSE /\ step' = "reporting"
         /\ cmd' = [cmd EXCEPT !.failed = stage, !.brokeIn = Stages[cmd.passed + 1]]

-----------------------------------------------------------------------------

Command ==
    /\ step = "idle" /\ commands < MaxCommands
    /\ commands' = commands + 1
    /\ step' = "resolving"
    /\ \E action \in Reported \cup {"stop"}, extras \in ExtraLists :
          /\ cmd' = Given(action, extras)
          /\ latest' = IF action = "stop" THEN latest
                       ELSE [latest EXCEPT ![action] = [run |-> commands', brokenOff |-> FALSE]]
    /\ UNCHANGED <<disk, up, file, deaths, loose>>

\* resolve and build_plan.  A bootstrap also needs its environment keys, and may fail
\* although the plan is good.
Resolve ==
    /\ step = "resolving"
    /\ LET good == Selectable(disk, cmd.extras) /\ Plannable(disk, cmd.extras)
       IN  \/ /\ good
              /\ Pass(IF cmd.action = "plan" THEN "reporting" ELSE "compose")
              /\ loose' = (loose \/ (cmd.action = "stop" /\ ~(up \subseteq Listed(Stopping))))
           \/ /\ ~good \/ cmd.action # "stop"
              /\ Fail(Stages[1])
              /\ UNCHANGED loose
    /\ UNCHANGED <<disk, up, file, commands, deaths, latest>>

\* Compose starts a service once those it depends on are healthy.
ComposeStarts ==
    /\ step = "compose" /\ cmd.action = "start" /\ cmd.at <= Len(Starting)
    /\ LET s == Starting[cmd.at]
       IN  /\ disk.requires[s] \subseteq up
           /\ up' = up \cup {s}
           /\ cmd' = [cmd EXCEPT !.at = @ + 1, !.came = @ \cup {s}]
    /\ UNCHANGED <<disk, step, file, commands, deaths, latest, loose>>

ComposeStops ==
    /\ step = "compose" /\ cmd.action = "stop" /\ cmd.at <= Len(Stopping)
    /\ up' = up \ {Stopping[cmd.at]}
    /\ cmd' = [cmd EXCEPT !.at = @ + 1]
    /\ loose' = (loose /\ up' # {})
    /\ UNCHANGED <<disk, step, file, commands, deaths, latest>>

\* The stage after compose, or the end of a shutdown.
ComposeDone == IF cmd.action = "start" THEN Pass("entrypoint") ELSE Finish

ComposeSucceeds ==
    /\ step = "compose"
    /\ cmd.at > Len(IF cmd.action = "start" THEN Starting ELSE Stopping)
    /\ ComposeDone
    /\ UNCHANGED <<disk, up, file, commands, deaths, latest, loose>>

\* Compose exits with an error, at any point, or docker is not there.
ComposeFails ==
    /\ step = "compose"
    /\ Fail("service_startup")
    /\ UNCHANGED <<disk, up, file, commands, deaths, latest, loose>>

\* The health probe, then the smoke hooks: called directly, whatever they raise is caught.
ExercisePublic ==
    /\ step \in {"entrypoint", "smoke"}
    /\ \/ Pass(IF step = "entrypoint" THEN "smoke" ELSE "reporting")
       \/ Fail(NextUnfinished)
    /\ UNCHANGED <<disk, up, file, commands, deaths, latest, loose>>

\* write_text truncates the report of an earlier bootstrap.
TruncateReport ==
    /\ step = "reporting"
    /\ step' = "writing"
    /\ file' = [file EXCEPT ![cmd.action].state = "torn"]
    /\ UNCHANGED <<disk, cmd, up, commands, deaths, latest, loose>>

\* Variant of PersistReport: an existing report is kept.
PersistFirstReport ==
    /\ step = "writing"
    /\ file' = IF file[cmd.action].run # 0
               THEN [file EXCEPT ![cmd.action].state = "whole"]
               ELSE [file EXCEPT ![cmd.action] =
                        [state |-> "whole", run |-> commands,
                         passed |-> cmd.passed, failed |-> cmd.failed]]
    /\ Finish
    /\ UNCHANGED <<disk, up, commands, deaths, latest, loose>>

\* Variant of PersistReport: the stage after those that passed is counted too.
PersistNextStage ==
    /\ step = "writing"
    /\ file' = [file EXCEPT ![cmd.action] =
                   [state |-> "whole", run |-> commands,
                    passed |-> cmd.passed + 1, failed |-> cmd.failed]]
    /\ Finish
    /\ UNCHANGED <<disk, up, commands, deaths, latest, loose>>

PersistReport ==
    /\ step = "writing"
    /\ file' = [file EXCEPT ![cmd.action] =
                   [state |-> "whole", run |-> commands,
                    passed |-> cmd.passed, failed |-> cmd.failed]]
    /\ Finish
    /\ UNCHANGED <<disk, up, commands, deaths, latest, loose>>

\* Interrupted or killed, and compose with it; a report that cannot be written; an exception
\* that no handler names, such as a compose file that is not text, or a docker that may
\* not be executed.
Abort ==
    /\ step # "idle"
    /\ Finish
    /\ latest' = IF cmd.action = "stop" THEN latest
                 ELSE [latest EXCEPT ![cmd.action].brokenOff = TRUE]
    /\ UNCHANGED <<disk, up, file, commands, deaths, loose>>

ServiceDies ==
    /\ deaths < MaxDeaths
    /\ \E s \in up : up' = up \ {s}
    /\ deaths' = deaths + 1
    /\ loose' = (up' # {})
    /\ UNCHANGED <<disk, step, cmd, file, commands, latest>>

Done == step = "idle" /\ commands = MaxCommands /\ UNCHANGED vars

Next ==
    \/ Command \/ Resolve
    \/ ComposeStarts \/ ComposeStops \/ ComposeSucceeds \/ ComposeFails
    \/ ExercisePublic \/ TruncateReport \/ PersistReport
    \/ Abort \/ ServiceDies \/ Done

Spec == Init /\ [][Next]_vars
-----------------------------------------------------------------------------
\* Whatever runs, what it depends on runs too, at every moment of every sequence of
\* commands, also after one that failed or was killed half-way.  The exceptions: a service
\* has died, or a shutdown was given fewer bundles than run (docs/STARTUP_GUIDE.md:153).
DependenciesUp ==
    loose \/ \A s \in up : disk.requires[s] \subseteq up

\* A report that is written tells what this bootstrap did: the stage it calls failed is the
\* one that failed, the stages before it have passed, and a start without a failed stage
\* has started each service it planned (bootstrap, _next_unfinished_stage).
ReportIsTrue ==
    [][\A a \in Reported :
          file'[a] # file[a] /\ file'[a].state = "whole" =>
              /\ file'[a].failed = cmd.brokeIn
              /\ cmd.brokeIn # "none" => Stages[file'[a].passed + 1] = cmd.brokeIn
              /\ cmd.brokeIn = "none" /\ a = "start" =>
                    file'[a].passed = 4 /\ cmd.came = Listed(Starting)]_vars

\* Between commands the report on disk is that of the last bootstrap with its action, unless
\* that one was broken off; only then may an older or a torn report be found (_persist_report).
ReportFollowsRun ==
    step = "idle" =>
        \A a \in Reported :
            \/ latest[a].brokenOff
            \/ file[a].run = latest[a].run /\ file[a].state # "torn"

\* A shutdown that compose has carried out leaves nothing running of what its bundles name
\* (shutdown_command, "Stop compose-managed services in the bootstrap shutdown order").
ShutdownIsComplete ==
    [][cmd.action = "stop" /\ ComposeSucceeds => up' \cap Listed(Starting) = {}]_vars
=============================================================================
