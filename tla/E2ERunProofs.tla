---------------------------- MODULE E2ERunProofs ----------------------------
(***************************************************************************)
(* Proofs about E2ERun for every timeout.  The inductive invariant RunInv  *)
(* says, stage by stage, what the runner may already know: that nothing    *)
(* is spawned before the health gate, that the child is dead when its      *)
(* answer is judged, and what the queue and the report then hold.          *)
(***************************************************************************)
EXTENDS E2ERun, TLAPS

BeforeSpawn == {"fixture", "registry", "contract", "context", "health", "bootstrap",
                "recheck", "gate", "entrypoint", "spawn"}
AfterCall == {"reporting", "asserting"}

\* Until the runner spawns it there is no child, no answer and no report.
Unspawned ==
    stage \in BeforeSpawn =>
        /\ child = "none" /\ ~failed
        /\ report = [content |-> "absent", by |-> "none"]

\* The CLI's turn begins only when the last health results block nothing.
Converged ==
    /\ stage = "gate" => health # "none"
    /\ stage \in {"entrypoint", "spawn", "joining", "grace", "reading", "reporting", "asserting"}
          => health \in {"healthy", "degraded"}
    /\ child # "none" => health \in {"healthy", "degraded"}

\* The pipe holds an answer only after the CLI gave it, and a child that comes to its exit has
\* all of it in there, unless it could not be pickled.
Piped ==
    /\ child \in {"none", "working"} => answer = "none" /\ pipe = "empty"
    /\ child = "answering" => pipe = "empty"
    /\ child \in {"answering", "stuck"} => answer # "none"
    /\ pipe = "whole" => answer # "none"
    /\ child \in {"exiting", "exited"} => pipe = "whole" \/ answer = "unusable"

\* The runner's last action on the child was to see it dead.  The runner does not end a child
\* that it then reads an answer from.
Reaped ==
    /\ child \notin Alive \/ stage \in {"joining", "grace"}
    /\ stage \in {"joining", "reading"} => child \notin {"none", "killed"}

\* A child that the runner terminates was there for the whole timeout.
Timely == stage = "grace" => clock = Timeout /\ (child \notin Alive => leftAt = Timeout)

\* What was found before the verdict is still so when it is given.
Judged ==
    /\ stage \in BeforeSpawn \cup {"joining", "grace", "reading"} => outcome = "none" /\ ~failed
    /\ outcome # "none" => stage \in AfterCall \cup {"finishing", "ended", "aborted"}
    /\ stage = "asserting" /\ ~failed => outcome = "zero"
    /\ stage \in {"finishing", "ended"} /\ ~failed =>
          outcome = "zero" /\ report.content = "success" /\ health \in {"healthy", "degraded"}
    /\ stage = "blocked" => failed
    /\ record # "none" => stage = "ended"
    /\ record = "success" => ~failed /\ health = "healthy"

\* The runner writes no report that says success.
Authored == report.content = "success" => report.by = "cli"

RunInv ==
    /\ TypeOK /\ Unspawned /\ Converged /\ Piped /\ Reaped /\ Timely /\ Judged
    /\ Authored /\ OutcomeIsTrue /\ TimeoutReportStands
-----------------------------------------------------------------------------
\* The run starts before everything that RunInv speaks of.
LEMMA InitRun == Init => RunInv
<1> SUFFICES ASSUME Init
             PROVE  RunInv
    OBVIOUS
<1>0. bootable \in BOOLEAN /\ failed \in BOOLEAN /\ big \in BOOLEAN
    BY DEF Init
<1>1. TypeOK
    BY <1>0, TimeoutNat DEF Init, TypeOK, Alive
<1>2. Unspawned /\ Converged /\ Piped /\ Reaped /\ Timely
    BY DEF Init, Unspawned, Converged, Piped, Reaped, Timely, Alive, BeforeSpawn, AfterCall
<1>3. Judged
    BY DEF Init, Judged, BeforeSpawn, AfterCall
<1>4. Authored /\ OutcomeIsTrue /\ TimeoutReportStands
    BY DEF Init, Authored, OutcomeIsTrue, TimeoutReportStands
<1> QED
    BY <1>1, <1>2, <1>3, <1>4 DEF RunInv

\* Each step of the runner, of the child and of time keeps RunInv.
LEMMA StepRun == RunInv /\ [Next]_vars => RunInv'
<1> SUFFICES ASSUME RunInv, [Next]_vars
             PROVE  RunInv'
    OBVIOUS
<1> USE TimeoutNat
    DEF RunInv, TypeOK, Unspawned, Converged, Piped, Reaped, Timely, Judged, Authored,
        OutcomeIsTrue, TimeoutReportStands, BeforeSpawn, AfterCall, Alive,
        Advance, Block, LeaveFailureReport, vars, runnerVars, childVars
<1>1. CASE Preflight
  <2>0. (bootable \in BOOLEAN /\ failed \in BOOLEAN /\ big \in BOOLEAN)'
      BY <1>1 DEF Preflight
  <2>1. TypeOK'
      BY <1>1, <2>0 DEF Preflight
  <2>2. (Unspawned /\ Converged /\ Piped /\ Reaped /\ Timely)'
      BY <1>1 DEF Preflight
  <2>3. (Judged /\ Authored /\ OutcomeIsTrue /\ TimeoutReportStands)'
      BY <1>1 DEF Preflight
  <2> QED
      BY <2>1, <2>2, <2>3
<1>2. CASE CheckHealth
  <2>1. TypeOK'
      BY <1>2 DEF CheckHealth
  <2>2. (Unspawned /\ Converged /\ Piped /\ Reaped /\ Timely)'
      BY <1>2 DEF CheckHealth
  <2>3. (Judged /\ Authored /\ OutcomeIsTrue /\ TimeoutReportStands)'
      BY <1>2 DEF CheckHealth
  <2> QED
      BY <2>1, <2>2, <2>3
<1>3. CASE BootstrapServices
  <2>1. TypeOK'
      BY <1>3 DEF BootstrapServices
  <2>2. (Unspawned /\ Converged /\ Piped /\ Reaped /\ Timely)'
      BY <1>3 DEF BootstrapServices
  <2>3. (Judged /\ Authored /\ OutcomeIsTrue /\ TimeoutReportStands)'
      BY <1>3 DEF BootstrapServices
  <2> QED
      BY <2>1, <2>2, <2>3
<1>4. CASE RecheckHealth
  <2>1. TypeOK'
      BY <1>4 DEF RecheckHealth
  <2>2. (Unspawned /\ Converged /\ Piped /\ Reaped /\ Timely)'
      BY <1>4 DEF RecheckHealth
  <2>3. (Judged /\ Authored /\ OutcomeIsTrue /\ TimeoutReportStands)'
      BY <1>4 DEF RecheckHealth
  <2> QED
      BY <2>1, <2>2, <2>3
<1>5. CASE HealthGate
  <2>1. TypeOK'
      BY <1>5 DEF HealthGate
  <2>4. Unspawned'
      BY <1>5 DEF HealthGate
  <2>5. Converged'
      BY <1>5 DEF HealthGate
  <2>6. Piped'
      BY <1>5 DEF HealthGate
  <2>7. Reaped'
      BY <1>5 DEF HealthGate
  <2>8. Timely'
      BY <1>5 DEF HealthGate
  <2>3. (Judged /\ Authored /\ OutcomeIsTrue /\ TimeoutReportStands)'
      BY <1>5 DEF HealthGate
  <2> QED
      BY <2>1, <2>3, <2>4, <2>5, <2>6, <2>7, <2>8
<1>6. CASE WriteBlockedReport
    BY <1>6 DEF WriteBlockedReport
<1>7. CASE SpawnChild
    BY <1>7 DEF SpawnChild
<1>8. CASE JoinReturns
  <2>1. TypeOK'
      BY <1>8 DEF JoinReturns
  <2>4. Unspawned'
      BY <1>8 DEF JoinReturns
  <2>5. Converged'
      BY <1>8 DEF JoinReturns
  <2>6. Piped'
      BY <1>8 DEF JoinReturns
  <2>7. Reaped'
      BY <1>8 DEF JoinReturns
  <2>8. Timely'
      BY <1>8 DEF JoinReturns
  <2>3. (Judged /\ Authored /\ OutcomeIsTrue /\ TimeoutReportStands)'
      BY <1>8 DEF JoinReturns
  <2> QED
      BY <2>1, <2>3, <2>4, <2>5, <2>6, <2>7, <2>8
<1>9. CASE GraceOver
    BY <1>9 DEF GraceOver
<1>10. CASE ReadAnswer
    BY <1>10 DEF ReadAnswer
<1>11. CASE ReportInvocation
  <2>1. TypeOK'
      BY <1>11 DEF ReportInvocation
  <2>2. (Unspawned /\ Converged /\ Piped /\ Reaped /\ Timely)'
      BY <1>11 DEF ReportInvocation
  <2>4. Judged'
      BY <1>11 DEF ReportInvocation
  <2>5. Authored'
      BY <1>11 DEF ReportInvocation
  <2>6. OutcomeIsTrue'
      BY <1>11 DEF ReportInvocation
  <2>7. TimeoutReportStands'
      BY <1>11 DEF ReportInvocation
  <2> QED
      BY <2>1, <2>2, <2>4, <2>5, <2>6, <2>7
<1>12. CASE AssertOutputs
  <2>0. (bootable \in BOOLEAN /\ failed \in BOOLEAN /\ big \in BOOLEAN)'
      BY <1>12 DEF AssertOutputs
  <2>1. TypeOK'
      BY <1>12, <2>0 DEF AssertOutputs
  <2>2. (Unspawned /\ Converged /\ Piped /\ Reaped /\ Timely)'
      BY <1>12 DEF AssertOutputs
  <2>3. (Judged /\ Authored /\ OutcomeIsTrue /\ TimeoutReportStands)'
      BY <1>12 DEF AssertOutputs
  <2> QED
      BY <2>1, <2>2, <2>3
<1>13. CASE FinishRun
    BY <1>13 DEF FinishRun
<1>14. CASE Escape
    BY <1>14 DEF Escape
<1>15. CASE Tick
    BY <1>15 DEF Tick
<1>16. CASE ChildWrites
    BY <1>16 DEF ChildWrites
<1>17. CASE ChildAnswers
  <2>1. TypeOK'
      BY <1>17 DEF ChildAnswers
  <2>2. (Unspawned /\ Converged /\ Piped /\ Reaped /\ Timely)'
      BY <1>17 DEF ChildAnswers
  <2>3. (Judged /\ Authored /\ OutcomeIsTrue /\ TimeoutReportStands)'
      BY <1>17 DEF ChildAnswers
  <2> QED
      BY <2>1, <2>2, <2>3
<1>18. CASE ChildFeeds
    BY <1>18 DEF ChildFeeds
<1>19. CASE ChildVanishes
    BY <1>19 DEF ChildVanishes
<1>20. CASE ChildExits
    BY <1>20 DEF ChildExits
<1>21. CASE UNCHANGED vars
    BY <1>21
<1> QED
    BY <1>1, <1>2, <1>3, <1>4, <1>5, <1>6, <1>7, <1>8, <1>9, <1>10, <1>11, <1>12, <1>13, <1>14, <1>15, <1>16, <1>17, <1>18, <1>19, <1>20,
       <1>21 DEF Next, RunnerStep, Stopped

\* The invariant holds of every reachable state, for every timeout.
THEOREM RunInvariant == Spec => []RunInv
BY InitRun, StepRun, PTL DEF Spec

\* The states of a run have their types.
THEOREM RunTypes == Spec => []TypeOK
BY RunInvariant, PTL DEF RunInv

\* A run is recorded as successful only on the CLI's own word and report, given in time,
\* after a health check that found every module healthy.
THEOREM SuccessAlwaysEarned == Spec => []SuccessIsEarned
<1>1. RunInv => SuccessIsEarned
    BY DEF RunInv, TypeOK, SuccessIsEarned, Judged, Authored, OutcomeIsTrue
<1> QED
    BY <1>1, RunInvariant, PTL

\* The CLI is called only after a health check that blocked nothing.
THEOREM CliAlwaysConverged == Spec => []CliNeedsConvergence
<1>1. RunInv => CliNeedsConvergence
    BY DEF RunInv, Converged, CliNeedsConvergence
<1> QED
    BY <1>1, RunInvariant, PTL

\* What the runner says of the call is what happened, and the report of a timeout stands.
THEOREM OutcomesAreTrue == Spec => [](OutcomeIsTrue /\ TimeoutReportStands)
BY RunInvariant, PTL DEF RunInv
=============================================================================
