----------------------- MODULE HealthConvergenceProofs -----------------------
(***************************************************************************)
(* Proofs about HealthConvergence, for any services, modules, timeout and  *)
(* backoff.  The inductive invariant ties what is in the queue to the      *)
(* current call, and every thread of a service that still runs to that     *)
(* call or to a deadline that is over.                                     *)
(***************************************************************************)
EXTENDS HealthConvergence, FiniteSetTheorems, TLAPS

\* Whose turn it is, is a probe of the profile.
LEMMA QueueHasProbes ==
    /\ Queue \in Seq(Probes) /\ Len(Queue) \in Nat
    /\ \A k \in 1..Len(Queue) : Queue[k] \in Probes
BY HealthParts DEF Queue, Probes

LEMMA CurrentIsProbe == TypeOK /\ ~Over => Current \in Probes
BY QueueHasProbes DEF TypeOK, Over, Current

\* An answer that says healthy is about a target that was up during the call.
AnswerIsHonest == answer = "healthy" => ~Over /\ Current \in wasUp

\* A thread of a service that still runs is the one the runner waits for, until the deadline,
\* or the deadline is over.
HungIsLate ==
    \A p \in Services :
        /\ running[p] <= 1
        /\ running[p] = 1 =>
              \/ clock >= Timeout
              \/ mode = "waiting" /\ ~Over /\ Current = p /\ answer = None /\ expiry = Timeout

HealthInv == TypeOK /\ AnswerIsHonest /\ HungIsLate /\ HealthyWasUp /\ SeverityFollowsProfile

-----------------------------------------------------------------------------
LEMMA InitHealth == Init => HealthInv
<1> SUFFICES ASSUME Init
             PROVE  HealthInv
    OBVIOUS
<1> USE HealthParts, QueueHasProbes DEF Init
<1>1. TypeOK
    BY DEF TypeOK
<1>2. AnswerIsHonest /\ HungIsLate /\ HealthyWasUp /\ SeverityFollowsProfile
    BY DEF AnswerIsHonest, HungIsLate, HealthyWasUp, SeverityFollowsProfile, Probes, Verdicts
<1> QED
    BY <1>1, <1>2 DEF HealthInv

\* A report of the current probe, and the turn is the next one's.
LEMMA ReportKeeps ==
    ASSUME HealthInv, ~Over, NEW status \in Verdicts, Report(status), UNCHANGED <<running, world>>,
           status = "healthy" => Current \in wasUp,
           Current \in Services /\ status = "blocked" => Current \notin Optional,
           Current \in Services /\ status = "degraded" => Current \in Optional,
           clock < Timeout /\ mode = "waiting" => answer # None \/ expiry # Timeout
    PROVE  HealthInv'
<1> USE DEF HealthInv
<1>1. Current \in Probes /\ Services \subseteq Probes
    BY CurrentIsProbe DEF Probes
<1>2. TypeOK'
    BY <1>1, QueueHasProbes DEF TypeOK, Report, world, Over
<1>3. AnswerIsHonest' /\ HungIsLate'
    BY <1>1, HealthParts DEF AnswerIsHonest, HungIsLate, Report, world, TypeOK, Verdicts
<1>4. \A p \in Probes : result'[p] = IF p = Current THEN status ELSE result[p]
    BY <1>1 DEF Report, TypeOK
<1>5. HealthyWasUp'
    BY <1>4 DEF HealthyWasUp, world
<1>6. SeverityFollowsProfile'
    BY <1>1, <1>4 DEF SeverityFollowsProfile
<1> QED
    BY <1>2, <1>3, <1>5, <1>6

\* A step that reports nothing.
LEMMA QuietStep ==
    ASSUME HealthInv, TypeOK', AnswerIsHonest', HungIsLate', UNCHANGED result, wasUp \subseteq wasUp'
    PROVE  HealthInv'
BY DEF HealthInv, HealthyWasUp, SeverityFollowsProfile

\* A call of the current probe, which no other thread of a service may overlap.
LEMMA CallKeeps ==
    ASSUME HealthInv, ~Over, NEW budget \in Nat, Call(budget),
           Current \in Services => running[Current] = 0 /\ clock + budget = Timeout,
           mode = "ready"
    PROVE  HealthInv'
<1> USE DEF HealthInv
<1>1. Current \in Probes /\ Services \subseteq Probes
    BY CurrentIsProbe DEF Probes
<1>2. TypeOK'
    BY <1>1, QueueHasProbes DEF TypeOK, Call
<1>3. AnswerIsHonest'
    BY HealthParts DEF AnswerIsHonest, Call, Verdicts
<1>4. HungIsLate'
  <2> SUFFICES ASSUME NEW p \in Services
               PROVE  /\ running'[p] <= 1
                      /\ running'[p] = 1 =>
                            \/ clock' >= Timeout
                            \/ /\ mode' = "waiting" /\ ~Over' /\ Current' = p
                               /\ answer' = None /\ expiry' = Timeout
      BY DEF HungIsLate
  <2>1. CASE p = Current
      BY <1>1, <2>1 DEF Call, TypeOK, Over, Current
  <2>2. CASE p # Current
      BY <1>1, <2>2 DEF Call, TypeOK, HungIsLate
  <2> QED
      BY <2>1, <2>2
<1> QED
    BY <1>2, <1>3, <1>4, QuietStep DEF Call

\* A thread of p finishes, and nothing of it is read or what it says is p's.
LEMMA ThreadKeeps ==
    ASSUME HealthInv, NEW p \in Probes, running[p] > 0,
           running' = [running EXCEPT ![p] = @ - 1],
           UNCHANGED <<clock, turn, mode, expiry, called, result, world>>,
           answer' \in Verdicts \cup {None}, answer' = "healthy" => ~Over /\ Current \in wasUp,
           p \in Services \/ UNCHANGED answer \/ Current = p,
           answer' = None => UNCHANGED answer,
           answer' # None => UNCHANGED answer \/ Current = p
    PROVE  HealthInv'
<1> USE DEF HealthInv
<1>1. TypeOK'
    BY QueueHasProbes DEF TypeOK, world
<1>2. AnswerIsHonest'
    BY DEF AnswerIsHonest, world, Over, Current
<1>3. HungIsLate'
  <2> SUFFICES ASSUME NEW q \in Services
               PROVE  /\ running'[q] <= 1
                      /\ running'[q] = 1 =>
                            \/ clock' >= Timeout
                            \/ /\ mode' = "waiting" /\ ~Over' /\ Current' = q
                               /\ answer' = None /\ expiry' = Timeout
      BY DEF HungIsLate
  <2>1. q \in Probes /\ running[q] \in Nat /\ running[p] \in Nat
      BY DEF Probes, TypeOK
  <2>2. CASE q = p
      BY <2>1, <2>2 DEF TypeOK, HungIsLate
  <2>3. CASE q # p
      BY <2>1, <2>3 DEF TypeOK, HungIsLate, Over, Current
  <2> QED
      BY <2>2, <2>3
<1> QED
    BY <1>1, <1>2, <1>3, QuietStep DEF world

LEMMA StepHealth == HealthInv /\ [Next]_vars => HealthInv'
<1> SUFFICES ASSUME HealthInv, [Next]_vars
             PROVE  HealthInv'
    OBVIOUS
<1> USE HealthParts DEF HealthInv
<1>0. ASSUME ~Over, NEW status \in Verdicts, Answered(status)
      PROVE  /\ status = "healthy" => Current \in wasUp
             /\ clock < Timeout /\ mode = "waiting" => answer # None \/ expiry # Timeout
    BY <1>0 DEF Answered, AnswerIsHonest, TypeOK
<1>1. CASE SkipUnprobed
  <2>1. Current \in Services /\ Classify(Current, "blocked") \in {"blocked", "degraded"}
      BY <1>1 DEF SkipUnprobed, Classify
  <2>2. Classify(Current, "blocked") = "blocked" <=> Current \notin Optional
      BY DEF Classify
  <2> QED
      BY <1>1, <2>1, <2>2, ReportKeeps DEF SkipUnprobed, Verdicts
<1>2. CASE CallBuiltin
  <2>1. Remaining \in Nat \ {0} /\ clock + Remaining = Timeout /\ clock < Timeout
      BY <1>2 DEF CallBuiltin, Remaining, Deadline, TypeOK
  <2>2. running[Current] = 0
      BY <1>2, <2>1 DEF CallBuiltin, HungIsLate, TypeOK, Probes
  <2> QED
      BY <1>2, <2>1, <2>2, CallKeeps DEF CallBuiltin
<1>3. CASE DeadlineExpired
  <2>1. Current \in Services /\ Classify(Current, "blocked") \in {"blocked", "degraded"}
      BY <1>3 DEF DeadlineExpired, Classify
  <2>2. Classify(Current, "blocked") = "blocked" <=> Current \notin Optional
      BY DEF Classify
  <2> QED
      BY <1>3, <2>1, <2>2, ReportKeeps DEF DeadlineExpired, Verdicts
<1>4. CASE FinishBuiltin
  <2>1. PICK status \in Verdicts :
            Answered(status) /\ Report(Classify(Current, status))
      BY <1>4 DEF FinishBuiltin
  <2>2. /\ Classify(Current, status) \in Verdicts
        /\ Classify(Current, status) = "healthy" => status = "healthy"
        /\ Classify(Current, status) = "blocked" => Current \notin Optional
        /\ Classify(Current, status) = "degraded" => Current \in Optional
      BY DEF Classify, Verdicts
  <2> QED
      BY <1>0, <1>4, <2>1, <2>2, ReportKeeps DEF FinishBuiltin
<1>5. CASE RetryBuiltin
  <2>1. TypeOK'
      BY <1>5, QueueHasProbes DEF RetryBuiltin, TypeOK, Remaining, Deadline, world
  <2>2. AnswerIsHonest'
      BY <1>5 DEF RetryBuiltin, AnswerIsHonest, Verdicts
  <2>3. HungIsLate'
      BY <1>5 DEF RetryBuiltin, HungIsLate, Answered, TypeOK, Remaining, Deadline
  <2> QED
      BY <1>5, <2>1, <2>2, <2>3, QuietStep DEF RetryBuiltin, world
<1>6. CASE Wake
  <2>1. TypeOK'
      BY <1>6, QueueHasProbes DEF Wake, TypeOK, world
  <2>2. AnswerIsHonest' /\ HungIsLate'
      BY <1>6 DEF Wake, AnswerIsHonest, HungIsLate, Over, Current, world
  <2> QED
      BY <1>6, <2>1, <2>2, QuietStep DEF Wake, world
<1>7. CASE JudgeModule
  <2>1. Current \notin Services
      BY <1>7 DEF JudgeModule
  <2> QED
      BY <1>7, <2>1, ReportKeeps DEF JudgeModule, Verdicts
<1>8. CASE CallModule
  <2>1. Current \notin Services
      BY <1>8 DEF CallModule
  <2> QED
      BY <1>8, <2>1, CallKeeps DEF CallModule
<1>9. CASE FinishModule
  <2>1. Current \notin Services
      BY <1>9 DEF FinishModule
  <2>2. PICK status \in Verdicts : Answered(status) /\ Report(status)
      BY <1>9 DEF FinishModule
  <2> QED
      BY <1>0, <1>9, <2>1, <2>2, ReportKeeps DEF FinishModule
<1>10. CASE AnswerInTime
  <2>1. answer' \in Verdicts /\ (answer' = "healthy" => Current \in wasUp)
      BY <1>10 DEF AnswerInTime, Sayings, Verdicts
  <2> QED
      BY <1>10, <2>1, ThreadKeeps, CurrentIsProbe DEF AnswerInTime
<1>11. CASE Tick
  <2>1. TypeOK'
      BY <1>11, QueueHasProbes DEF Tick, TypeOK, world
  <2>2. AnswerIsHonest' /\ HungIsLate'
      BY <1>11 DEF Tick, AnswerIsHonest, HungIsLate, Over, Current, world, TypeOK
  <2> QED
      BY <1>11, <2>1, <2>2, QuietStep DEF Tick, world
<1>12. ASSUME NEW p \in Probes, AnswerLate(p)
       PROVE  HealthInv'
  <2>1. running[p] > 0
      BY <1>12 DEF AnswerLate, TypeOK
  <2> QED
      BY <1>12, <2>1, ThreadKeeps DEF AnswerLate, AnswerIsHonest, TypeOK
<1>13. ASSUME NEW p \in Probes, Flip(p)
       PROVE  HealthInv'
  <2>1. TypeOK'
      BY <1>13, QueueHasProbes DEF Flip, TypeOK
  <2>2. AnswerIsHonest' /\ HungIsLate'
      BY <1>13 DEF Flip, AnswerIsHonest, HungIsLate, Over, Current
  <2> QED
      BY <1>13, <2>1, <2>2, QuietStep DEF Flip
<1>14. CASE UNCHANGED vars
    BY <1>14, QueueHasProbes
    DEF vars, world, TypeOK, AnswerIsHonest, HungIsLate, HealthyWasUp, SeverityFollowsProfile,
        Over, Current
<1> QED
    BY <1>1, <1>2, <1>3, <1>4, <1>5, <1>6, <1>7, <1>8, <1>9, <1>10, <1>11, <1>12, <1>13, <1>14
    DEF Next, RunnerStep, Finished

\* The invariant on which the theorems below rest.
THEOREM HealthInvariant == Spec => []HealthInv
BY InitHealth, StepHealth, PTL DEF Spec

\* Every variable of the run always has its type.
THEOREM HealthTypes == Spec => []TypeOK
<1>1. HealthInv => TypeOK
    BY DEF HealthInv
<1> QED
    BY <1>1, HealthInvariant, PTL

\* Whatever hangs and whatever comes late, a probe is reported healthy only if its own target
\* was up during a call of it (_run_health_probe).
THEOREM HealthyIsTrue == Spec => []HealthyWasUp
<1>1. HealthInv => HealthyWasUp
    BY DEF HealthInv
<1> QED
    BY <1>1, HealthInvariant, PTL

\* A probe of a service never runs twice at a time, for any timeout and any backoff
\* (_run_required_builtin_probe_until_healthy).
THEOREM ServicesDoNotOverlap == Spec => []NoOverlap
<1>1. HealthInv => NoOverlap
    BY DEF HealthInv, HungIsLate, NoOverlap
<1> QED
    BY <1>1, HealthInvariant, PTL

\* An optional service never blocks and a required one never passes as degraded
\* (_classify_builtin_result and every path that reports).
THEOREM SeverityIsTheProfiles == Spec => []SeverityFollowsProfile
<1>1. HealthInv => SeverityFollowsProfile
    BY DEF HealthInv
<1> QED
    BY <1>1, HealthInvariant, PTL

-----------------------------------------------------------------------------
\* The time that a run takes.  Each member has one place in the queue, so that it is called
\* at most once, and its call may take the whole timeout.

Begun == {m \in Members : Standing[m] = "probed" /\ m \in called}
Limit == Timeout * (1 + Cardinality(Begun))

\* No member is called before its turn; the runner sleeps only for a service; the wait or
\* the sleep is over within the time that the calls so far allow.
Timing ==
    /\ \A k \in 1..Len(Queue) :
          Queue[k] \in called \cap Members => k < turn \/ (k = turn /\ mode # "ready")
    /\ mode = "sleeping" => ~Over /\ Current \in Services
    /\ mode # "ready" => expiry <= Limit
    /\ clock <= Limit

\* No member has two places in the queue.
LEMMA OnePlace ==
    \A i, j \in 1..Len(Queue) : Queue[i] = Queue[j] /\ Queue[i] \in Members => i = j
<1> SUFFICES ASSUME NEW i \in 1..Len(Queue), NEW j \in 1..Len(Queue),
                    Queue[i] = Queue[j], Queue[i] \in Members
             PROVE  i = j
    OBVIOUS
<1>1. /\ Builtins \in Seq(Services) /\ Enabled \in Seq(Members)
      /\ Services \cap Members = {}
    BY HealthParts
<1>2. /\ Len(Builtins) \in Nat /\ Len(Queue) = Len(Builtins) + Len(Enabled)
      /\ \A k \in 1..Len(Queue) : k <= Len(Builtins) => Queue[k] \in Services
      /\ \A k \in 1..Len(Queue) : k > Len(Builtins) =>
            /\ Queue[k] = Enabled[k - Len(Builtins)]
            /\ k - Len(Builtins) \in DOMAIN Enabled
    BY <1>1 DEF Queue
<1>3. i > Len(Builtins) /\ j > Len(Builtins)
    BY <1>1, <1>2
<1>4. i - Len(Builtins) = j - Len(Builtins)
    BY <1>2, <1>3, ModulesOnce
<1> QED
    BY <1>2, <1>4

\* What has begun is finite, and the limit is a number.
LEMMA LimitIsNat ==
    /\ IsFiniteSet(Begun) /\ Cardinality(Begun) \in Nat
    /\ Limit \in Nat /\ Timeout <= Limit
<1>1. IsFiniteSet(1..Len(Enabled))
    BY HealthParts, FS_Interval
<1>2. IsFiniteSet(Members)
  <2>1. Enabled \in Surjection(1..Len(Enabled), Members)
      BY HealthParts DEF Surjection, Members
  <2> QED
      BY <1>1, <2>1, FS_Surjection
<1>3. IsFiniteSet(Begun) /\ Cardinality(Begun) \in Nat
    BY <1>2, FS_Subset, FS_CardinalityType DEF Begun
<1>4. \A n \in Nat : Timeout * (1 + n) = Timeout + Timeout * n /\ Timeout * n \in Nat
    BY HealthParts
<1> QED
    BY <1>3, <1>4, HealthParts DEF Limit

LEMMA InitTiming == Init => Timing
BY LimitIsNat DEF Init, Timing

\* A step that calls no member changes no limit.
LEMMA SameLimit == UNCHANGED called => Limit' = Limit
BY DEF Limit, Begun

\* A report passes the turn on.
LEMMA ReportInTime ==
    ASSUME TypeOK, Timing, NEW status, Report(status)
    PROVE  Timing'
<1>1. Limit' = Limit /\ UNCHANGED <<clock, expiry, called>>
    BY SameLimit DEF Report
<1>2. turn \in Nat /\ turn' = turn + 1 /\ mode' = "ready"
    BY QueueHasProbes DEF TypeOK, Report
<1> QED
    BY <1>1, <1>2, QueueHasProbes DEF Timing

LEMMA StepTiming == TypeOK /\ Timing /\ [Next]_vars => Timing'
<1> SUFFICES ASSUME TypeOK, Timing, [Next]_vars
             PROVE  Timing'
    OBVIOUS
<1> USE HealthParts
<1>0. clock \in Nat /\ expiry \in Nat /\ turn \in 1..(Len(Queue) + 1) /\ Len(Queue) \in Nat
    BY QueueHasProbes DEF TypeOK
<1>1. CASE SkipUnprobed \/ DeadlineExpired \/ FinishBuiltin \/ JudgeModule \/ FinishModule
    BY <1>1, ReportInTime
    DEF SkipUnprobed, DeadlineExpired, FinishBuiltin, JudgeModule, FinishModule
<1>2. CASE CallBuiltin
  <2>1. Current \in Services /\ ~Over /\ Call(Remaining)
      BY <1>2 DEF CallBuiltin
  <2>2. Remaining \in Nat /\ clock + Remaining = Timeout
      BY <1>0, <1>2 DEF CallBuiltin, Remaining, Deadline
  <2>3. called' \cap Members = called \cap Members /\ Begun' = Begun /\ Limit' = Limit
      BY <2>1 DEF Call, Begun, Limit
  <2>4. expiry' = Timeout /\ mode' = "waiting" /\ UNCHANGED <<clock, turn>>
      BY <2>1, <2>2 DEF Call
  <2> QED
      BY <1>0, <2>1, <2>3, <2>4, LimitIsNat DEF Timing
<1>3. CASE RetryBuiltin
  <2>1. Current \in Services /\ ~Over /\ mode' = "sleeping" /\ UNCHANGED <<clock, turn, called>>
      BY <1>3 DEF RetryBuiltin
  <2>2. expiry' <= Timeout /\ mode # "ready"
      BY <1>0, <1>3 DEF RetryBuiltin, Remaining, Deadline, Answered
  <2>3. Current' = Current /\ Over' = Over /\ Limit' = Limit
      BY <2>1, SameLimit DEF Current, Over
  <2>4. expiry' \in Nat
      BY <1>0, <1>3 DEF RetryBuiltin, Remaining, Deadline
  <2> QED
      BY <1>0, <2>1, <2>2, <2>3, <2>4, LimitIsNat DEF Timing
<1>4. CASE Wake
  <2>1. /\ mode = "sleeping" /\ mode' = "ready" /\ UNCHANGED <<clock, turn, called>>
        /\ Limit' = Limit
      BY <1>4, SameLimit DEF Wake
  <2>2. Current \notin Members /\ ~Over
      BY <2>1 DEF Timing
  <2> QED
      BY <1>0, <2>1, <2>2 DEF Timing, Current
<1>5. CASE CallModule
  <2>1. /\ ~Over /\ Current \in Members /\ mode = "ready" /\ Standing[Current] = "probed"
        /\ Call(Timeout)
      BY <1>5 DEF CallModule
  <2>2. turn \in 1..Len(Queue) /\ Current = Queue[turn]
      BY <1>0, <2>1 DEF Over, Current
  <2>3. Current \notin called
      BY <1>0, <2>1, <2>2 DEF Timing
  <2>4. Begun' = Begun \cup {Current} /\ Current \notin Begun
      BY <2>1, <2>3 DEF Begun, Call
  <2>5. Cardinality(Begun') = Cardinality(Begun) + 1
      BY <2>4, LimitIsNat, FS_AddElement
  <2>6. \A n \in Nat : Timeout * (1 + (n + 1)) = Timeout * (1 + n) + Timeout
      OBVIOUS
  <2>7. Limit' = Limit + Timeout
      BY <2>5, <2>6, LimitIsNat DEF Limit
  <2>8. /\ expiry' = clock + Timeout /\ mode' = "waiting" /\ called' = called \cup {Current}
        /\ UNCHANGED <<clock, turn>>
      BY <2>1 DEF Call
  <2>9. \A k \in 1..Len(Queue) : Queue[k] \in called' \cap Members => k <= turn
      BY <1>0, <2>1, <2>2, <2>8, OnePlace DEF Timing
  <2>10. expiry' <= Limit' /\ clock' <= Limit'
      BY <1>0, <2>7, <2>8, LimitIsNat DEF Timing
  <2> QED
      BY <1>0, <2>8, <2>9, <2>10 DEF Timing
<1>6. CASE AnswerInTime \/ \E p \in Probes : AnswerLate(p) \/ Flip(p)
  <2>1. UNCHANGED <<clock, turn, mode, expiry, called>>
      BY <1>6 DEF AnswerInTime, AnswerLate, Flip
  <2> QED
      BY <2>1, SameLimit DEF Timing, Over, Current
<1>7. CASE Tick
  <2>1. /\ UNCHANGED <<turn, mode, expiry, called>> /\ clock' = clock + 1
        /\ clock < expiry /\ mode # "ready"
      BY <1>7 DEF Tick
  <2> QED
      BY <1>0, <2>1, SameLimit, LimitIsNat DEF Timing, Over, Current
<1>8. CASE UNCHANGED vars
  <2>1. UNCHANGED <<clock, turn, mode, expiry, called>>
      BY <1>8 DEF vars
  <2> QED
      BY <2>1, SameLimit DEF Timing, Over, Current
<1> QED
    BY <1>1, <1>2, <1>3, <1>4, <1>5, <1>6, <1>7, <1>8 DEF Next, RunnerStep, Finished

\* However many probes hang, the services take at most one timeout together and each probed
\* module at most one more, for any timeout and any number of either (deadline_at).
THEOREM TimeIsBounded == Spec => []InTime
<1>1. Timing => InTime
    BY DEF Timing, Limit, Begun, InTime
<1> QED
    BY <1>1, InitTiming, StepTiming, HealthTypes, PTL DEF Spec

=============================================================================
