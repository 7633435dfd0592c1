------------------------------- MODULE E2ERun -------------------------------
(***************************************************************************)
(* E2ERunner.run: preflights, health convergence with at most one          *)
(* bootstrap, then the orchestrator's public CLI in a forked child.  The   *)
(* runner joins the child for timeout_sec and only then reads the queue    *)
(* through which the child answers; a child still alive is terminated, and *)
(* killed a second later.  Both of them write the orchestrator report.     *)
(* What is joined is the process, not the answer: after it has answered,   *)
(* the child waits for its feeder thread and for the threads and processes *)
(* that the CLI has left behind, however long they take.                   *)
(* What the preflights find is an input; which row and contract report     *)
(* they bind the run to is modelled in EvidenceStore.                      *)
(***************************************************************************)
EXTENDS Naturals

CONSTANT Timeout \* bound: ticks that the runner joins the child for

ASSUME TimeoutNat == Timeout \in Nat

VARIABLES
    stage,     \* where the runner stands
    bootable,  \* bootstrap_if_needed
    health,    \* worst status in the last health results, "none" before
    failed,    \* an assertion has failed
    child,     \* the child process
    answer,    \* what the CLI did: returned zero, non-zero or no exit code at all, or raised
    big,       \* the answer is larger than the pipe's buffer
    leftAt,    \* history: when the child's process ended
    pipe,      \* how much of the answer is in the pipe
    clock,     \* ticks since the join began
    outcome,   \* what _invoke_cli_with_timeout returned
    report,    \* orchestrator-report.json: state of the file and who wrote it last
    record     \* status of the persisted run record

runnerVars == <<stage, bootable, health, failed, outcome, record>>
childVars == <<child, answer, big, leftAt, pipe>>
vars == <<runnerVars, childVars, clock, report>>

\* "answering": the answer is in the child's queue; "stuck": only a part of it fits the pipe;
\* "exiting": the child is done with it and ends when nothing holds it up.
Alive == {"working", "answering", "stuck", "exiting"}

\* "aborted": an exception that run does not catch, such as a file it cannot write.
TypeOK ==
    /\ stage \in {"fixture", "registry", "contract", "context", "health", "bootstrap",
                  "recheck", "gate", "entrypoint", "blocked", "spawn", "joining", "grace",
                  "reading", "reporting", "asserting", "finishing", "ended", "aborted"}
    /\ bootable \in BOOLEAN /\ failed \in BOOLEAN /\ big \in BOOLEAN
    /\ health \in {"none", "healthy", "degraded", "blocked"}
    /\ child \in Alive \cup {"none", "exited", "vanished", "killed"}
    /\ answer \in {"none", "zero", "nonzero", "unusable", "raised"}
    /\ pipe \in {"empty", "part", "whole"}
    /\ clock \in 0..Timeout /\ leftAt \in 0..Timeout
    /\ outcome \in {"none", "zero", "nonzero", "exception", "timeout"}
    /\ report \in [content : {"absent", "torn", "failed", "success"},
                   by : {"none", "cli", "runner"}]
    /\ record \in {"none", "failed", "partial", "success"}

Init ==
    /\ stage = "fixture" /\ bootable \in BOOLEAN
    /\ health = "none" /\ failed = FALSE /\ outcome = "none" /\ record = "none"
    /\ child = "none" /\ answer = "none" /\ big = FALSE /\ leftAt = 0 /\ pipe = "empty"
    /\ clock = 0
    /\ report = [content |-> "absent", by |-> "none"]

-----------------------------------------------------------------------------
\* Preflights.  Each may fail, which blocks the run before the CLI is called.

Advance(from, to) == stage = from /\ stage' = to

Block(from) == Advance(from, "blocked") /\ failed' = TRUE

\* fixture, registry, contract suite, context drift and contract verdict, entrypoint
Preflight ==
    /\ \/ /\ \/ Advance("fixture", "registry") \/ Advance("registry", "contract")
             \/ Advance("contract", "context") \/ Advance("context", "health")
             \/ Advance("entrypoint", "spawn")
          /\ UNCHANGED failed
       \/ \E from \in {"fixture", "registry", "contract", "context", "entrypoint"} : Block(from)
    /\ UNCHANGED <<bootable, health, outcome, record, childVars, clock, report>>

CheckHealth ==
    /\ \/ /\ health' \in {"healthy", "degraded", "blocked"}
          /\ Advance("health", IF health' = "blocked" /\ bootable THEN "bootstrap" ELSE "gate")
          /\ UNCHANGED failed
       \/ Block("health") /\ UNCHANGED health
    /\ UNCHANGED <<bootable, outcome, record, childVars, clock, report>>

BootstrapServices ==
    /\ \/ Advance("bootstrap", "recheck") /\ UNCHANGED failed
       \/ Block("bootstrap")
    /\ UNCHANGED <<bootable, health, outcome, record, childVars, clock, report>>

RecheckHealth ==
    /\ \/ /\ health' \in {"healthy", "degraded", "blocked"}
          /\ Advance("recheck", "gate")
          /\ UNCHANGED failed
       \/ Block("recheck") /\ UNCHANGED health
    /\ UNCHANGED <<bootable, outcome, record, childVars, clock, report>>

HealthGate ==
    /\ \/ /\ health # "blocked"
          /\ Advance("gate", "entrypoint")
          /\ UNCHANGED failed
       \/ health = "blocked" /\ Block("gate")
    /\ UNCHANGED <<bootable, health, outcome, record, childVars, clock, report>>

\* _write_orchestrator_failure_report without overwrite.
LeaveFailureReport ==
    report' = IF report.content = "absent" THEN [content |-> "failed", by |-> "runner"]
                                           ELSE report

WriteBlockedReport ==
    /\ Advance("blocked", "finishing")
    /\ LeaveFailureReport
    /\ UNCHANGED <<bootable, health, failed, outcome, record, childVars, clock>>

-----------------------------------------------------------------------------
\* _invoke_cli_with_timeout

SpawnChild ==
    /\ \/ /\ Advance("spawn", "joining")
          /\ child' = "working"
          /\ UNCHANGED outcome
       \/ /\ Advance("spawn", "reporting")
          /\ outcome' = "exception"
          /\ UNCHANGED child
    /\ UNCHANGED <<bootable, health, failed, record, answer, big, leftAt, pipe, clock, report>>

\* The join is over; the child is looked at, and sent SIGTERM if it is alive.
JoinReturns ==
    /\ child \in Alive => clock = Timeout
    /\ IF child \in Alive
       THEN /\ Advance("joining", "grace")
            /\ (child' = "killed" /\ leftAt' = clock) \/ UNCHANGED <<child, leftAt>>
       ELSE Advance("joining", "reading") /\ UNCHANGED <<child, leftAt>>
    /\ UNCHANGED <<bootable, health, failed, outcome, record, answer, big, pipe, clock, report>>

\* Variant of GraceOver: a child that outlives SIGTERM is waited for.
GraceWaits ==
    /\ child \notin Alive
    /\ Advance("grace", "reporting")
    /\ outcome' = "timeout"
    /\ UNCHANGED <<bootable, health, failed, record, childVars, clock, report>>

\* One second later: SIGKILL for a child that is still alive, and a join without limit.
GraceOver ==
    /\ Advance("grace", "reporting")
    /\ IF child \in Alive THEN child' = "killed" /\ leftAt' = clock
                         ELSE UNCHANGED <<child, leftAt>>
    /\ outcome' = "timeout"
    /\ UNCHANGED <<bootable, health, failed, record, answer, big, pipe, clock, report>>

\* Variant of ReadAnswer: an exit without an answer passes for a return of zero.
ReadExitOnly ==
    /\ Advance("reading", "reporting")
    /\ outcome' = IF answer \in {"unusable", "raised"} THEN "exception" ELSE "zero"
    /\ UNCHANGED <<bootable, health, failed, record, childVars, clock, report>>

\* queue.get(timeout=1.0).  The timeout is only for the first byte: with a part of the
\* answer in the pipe, and no one to write the rest, the read never returns.
ReadAnswer ==
    /\ pipe # "part"
    /\ Advance("reading", "reporting")
    /\ outcome' = IF pipe = "whole" /\ answer \in {"zero", "nonzero"} THEN answer ELSE "exception"
    /\ UNCHANGED <<bootable, health, failed, record, childVars, clock, report>>

-----------------------------------------------------------------------------
\* After the call

\* A timeout's failure report replaces what the CLI left; an exception's does not.
ReportInvocation ==
    /\ Advance("reporting", "asserting")
    /\ failed' = (failed \/ outcome # "zero")
    /\ CASE outcome = "timeout"   -> report' = [content |-> "failed", by |-> "runner"]
         [] outcome = "exception" -> LeaveFailureReport
         [] OTHER                 -> UNCHANGED report
    /\ UNCHANGED <<bootable, health, outcome, record, childVars, clock>>

\* Variant of AssertOutputs: a report that cannot be loaded fails nothing.
AssertLoadedOnly ==
    /\ Advance("asserting", "finishing")
    /\ failed' \in {failed \/ report.content = "failed", TRUE}
    /\ UNCHANGED <<bootable, health, outcome, record, childVars, clock, report>>

\* Phases, artifacts and payloads may fail whatever the report says of itself.
AssertOutputs ==
    /\ Advance("asserting", "finishing")
    /\ failed' \in {failed \/ report.content # "success", TRUE}
    /\ UNCHANGED <<bootable, health, outcome, record, childVars, clock, report>>

FinishRun ==
    /\ Advance("finishing", "ended")
    /\ record' = IF failed THEN "failed" ELSE IF health = "degraded" THEN "partial" ELSE "success"
    /\ UNCHANGED <<bootable, health, failed, outcome, childVars, clock, report>>

\* No queue for the child, an answer that cannot be unpickled or is no number of any kind, a
\* report that is not even text, or a file that cannot be written: no record.
Escape ==
    /\ \/ Advance("fixture", "aborted") \/ Advance("spawn", "aborted")
       \/ Advance("reading", "aborted") /\ pipe = "whole" /\ answer = "unusable"
       \/ Advance("blocked", "aborted") \/ Advance("finishing", "aborted")
       \/ Advance("reporting", "aborted")
       \/ Advance("asserting", "aborted") /\ report.content = "torn"
    /\ UNCHANGED <<bootable, health, failed, outcome, record, childVars, clock, report>>

-----------------------------------------------------------------------------
\* The child, which runs on while the runner joins and through the grace second

\* The CLI writes its report, or what it has left running in the child does.
ChildWrites ==
    /\ child \in Alive
    /\ \/ report' = [content |-> "torn", by |-> "cli"]
       \/ /\ report = [content |-> "torn", by |-> "cli"]
          /\ \E content \in {"success", "failed"} : report' = [content |-> content, by |-> "cli"]
    /\ UNCHANGED <<runnerVars, childVars, clock>>

\* The CLI returns or raises; its traceback, or what it returns for an exit code, may be larger
\* than the pipe.
ChildAnswers ==
    /\ child = "working"
    /\ \E a \in {"zero", "nonzero", "unusable", "raised"} :
          /\ answer' = a
          /\ big' \in IF a \in {"zero", "nonzero"} THEN {FALSE} ELSE BOOLEAN
    /\ child' = "answering"
    /\ UNCHANGED <<runnerVars, leftAt, pipe, clock, report>>

\* The queue's feeder thread.  It drops what cannot be pickled.
ChildFeeds ==
    /\ child = "answering"
    /\ \/ big /\ pipe' = "part" /\ child' = "stuck"
       \/ ~big /\ pipe' = "whole" /\ child' = "exiting"
       \/ answer = "unusable" /\ child' = "exiting" /\ UNCHANGED pipe
    /\ UNCHANGED <<runnerVars, answer, big, leftAt, clock, report>>

\* multiprocessing's exit function has joined the feeder thread and the child processes of
\* the CLI, and the interpreter the threads that are no daemons.
ChildExits ==
    /\ child = "exiting"
    /\ child' = "exited" /\ leftAt' = clock
    /\ UNCHANGED <<runnerVars, answer, big, pipe, clock, report>>

\* Killed from outside, or ended by os._exit.
ChildVanishes ==
    /\ child \in Alive
    /\ child' = "vanished" /\ leftAt' = clock
    /\ UNCHANGED <<runnerVars, answer, big, pipe, clock, report>>

\* Time counts while the runner joins.
Tick ==
    /\ stage = "joining" /\ child \in Alive /\ clock < Timeout
    /\ clock' = clock + 1
    /\ UNCHANGED <<runnerVars, childVars, report>>

-----------------------------------------------------------------------------
RunnerStep ==
    \/ Preflight \/ CheckHealth \/ BootstrapServices \/ RecheckHealth \/ HealthGate
    \/ WriteBlockedReport \/ SpawnChild \/ JoinReturns \/ GraceOver \/ ReadAnswer
    \/ ReportInvocation \/ AssertOutputs \/ FinishRun \/ Escape

\* The run is over, or waits for the rest of an answer for ever.
Stopped ==
    /\ stage \in {"ended", "aborted"} \/ (stage = "reading" /\ pipe = "part")
    /\ UNCHANGED vars

Next ==
    \/ RunnerStep \/ Tick
    \/ ChildWrites \/ ChildAnswers \/ ChildFeeds \/ ChildExits \/ ChildVanishes
    \/ Stopped

Spec == Init /\ [][Next]_vars

\* The runner is a running process and time passes.  The child need never do anything.
FairSpec == Spec /\ WF_vars(RunnerStep) /\ WF_vars(Tick)
-----------------------------------------------------------------------------
\* A run is recorded as successful only when the CLI itself returned zero in time, the
\* report on disk is the CLI's own and says success, and the last health check found every
\* module healthy (E2ERunner.run).
SuccessIsEarned ==
    record = "success" =>
        /\ answer = "zero" /\ outcome = "zero"
        /\ report = [content |-> "success", by |-> "cli"]
        /\ health = "healthy"

\* The CLI is called only after a health check that found nothing blocked, the second one
\* where the first led to a bootstrap (test_blocked_health_bootstraps_and_requires_
\* second_convergence).
CliNeedsConvergence == child # "none" => health \in {"healthy", "degraded"}

\* The runner tells what the CLI did, and loses no answer.  A timeout is told only of a process
\* that was still there when the whole timeout was over; an exit code only if the CLI returned
\* it; an exception only of a CLI that raised or returned no exit code, or of a child that could
\* not be started or was killed from outside.  So a CLI that returned an exit code, and whose
\* process ended in time, is told to have returned it.
OutcomeIsTrue ==
    /\ outcome = "timeout" => leftAt = Timeout
    /\ outcome \in {"zero", "nonzero"} => answer = outcome
    /\ outcome = "exception" =>
          answer \in {"unusable", "raised"} \/ child \in {"none", "vanished"}

\* After a timeout the runner's failure report is final: the child is dead before it is
\* written (test_orchestrator_cli_timeout_writes_failed_report).
TimeoutReportStands ==
    outcome = "timeout" /\ stage \in {"asserting", "finishing", "ended"} =>
        report = [content |-> "failed", by |-> "runner"]

\* A run whose child was spawned ends, also when the CLI hangs or ignores SIGTERM, unless
\* the child was killed from outside with a part of its answer in the pipe.
EndsUnlessCut ==
    stage = "joining" ~> (stage \in {"ended", "aborted"} \/ (stage = "reading" /\ pipe = "part"))

=============================================================================
