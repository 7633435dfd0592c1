-------------------------- MODULE HealthConvergence --------------------------
(***************************************************************************)
(* HealthcheckRunner.run: the built-in probes of the services, one after   *)
(* the other and all under one deadline, then the health probes of the     *)
(* registry's modules, each with the whole timeout.  Every call of a probe *)
(* runs in a daemon thread of its own that answers into a queue of its     *)
(* own; the runner waits for that queue until the timeout and then leaves  *)
(* the thread behind.  Time is counted in ticks.                           *)
(***************************************************************************)
EXTENDS Integers, Sequences, FiniteSets

CONSTANTS
    Builtins,   \* services in startup order, a sequence
    Optional,   \* services of optional bundles
    Unprobed,   \* services without a built-in probe
    Enabled,    \* enabled modules in registry order, a sequence
    Standing,   \* of each module: what the registry and the import say of it
    Timeout,    \* timeout_sec
    Backoff,    \* _RETRY_BACKOFF_SEC
    MaxFlips,   \* bound: how often a probed thing goes up or down
    None

Services == {Builtins[k] : k \in 1..Len(Builtins)}
Members  == {Enabled[k] : k \in 1..Len(Enabled)}
Probes   == Services \cup Members
Verdicts == {"healthy", "degraded", "blocked"}

ASSUME HealthParts ==
    /\ Builtins \in Seq(Services) /\ Enabled \in Seq(Members)
    /\ Optional \subseteq Services /\ Unprobed \subseteq Services
    /\ Services \cap Members = {} /\ None \notin Probes \cup Verdicts
    /\ Standing \in [Members -> {"unregistered", "not_started", "no_probe", "unimportable", "probed"}]
    /\ Timeout \in Nat /\ Backoff \in Nat \ {0} /\ MaxFlips \in Nat

\* healthcheck and the suites pass the resolved modules, and _topological_sort visits each
\* of them once (DependencyOrder).
ASSUME ModulesOnce ==
    \A i, j \in DOMAIN Enabled : Enabled[i] = Enabled[j] => i = j

VARIABLES
    clock,   \* ticks since the run began
    turn,    \* position in the builtins followed by the enabled modules
    mode,    \* "ready" to call a probe, "waiting" for its queue, "sleeping"
    expiry,  \* when the wait or the sleep is over
    called,  \* probes that have been called
    answer,  \* what is in the queue of the current call
    running, \* threads of each probe that have not finished
    result,  \* reported status of each probe, None before
    up,      \* probes whose target is up
    flips,   \* how often a target went up or down
    wasUp    \* history: targets that were up while a call of their probe ran

vars == <<clock, turn, mode, expiry, called, answer, running, result, up, flips, wasUp>>
world == <<up, flips, wasUp>>

Queue    == Builtins \o Enabled
Deadline == Timeout
Over     == turn > Len(Queue)
Current  == Queue[turn]
Remaining == IF clock < Deadline THEN Deadline - clock ELSE 0

TypeOK ==
    /\ clock \in Nat /\ expiry \in Nat
    /\ turn \in 1..(Len(Queue) + 1)
    /\ mode \in {"ready", "waiting", "sleeping"}
    /\ called \subseteq Probes
    /\ answer \in Verdicts \cup {None}
    /\ running \in [Probes -> Nat]
    /\ result \in [Probes -> Verdicts \cup {None}]
    /\ up \subseteq Probes /\ wasUp \subseteq Probes
    /\ flips \in 0..MaxFlips

Init ==
    /\ clock = 0 /\ turn = 1 /\ mode = "ready" /\ expiry = 0 /\ called = {}
    /\ answer = None
    /\ running = [p \in Probes |-> 0]
    /\ result = [p \in Probes |-> None]
    /\ up \in SUBSET Probes
    /\ flips = 0 /\ wasUp = {}

-----------------------------------------------------------------------------
\* The runner

\* The result of the current probe is appended and the next one has its turn.
Report(status) ==
    /\ result' = [result EXCEPT ![Current] = status]
    /\ turn' = turn + 1
    /\ mode' = "ready" /\ answer' = None
    /\ UNCHANGED <<clock, expiry, called>>

\* Variant of Classify: every failure is blocked.
ClassifyAll(service, status) == IF status = "healthy" THEN "healthy" ELSE "blocked"

\* _classify_builtin_result
Classify(service, status) ==
    CASE status = "healthy"   -> "healthy"
      [] service \in Optional -> "degraded"
      [] OTHER                -> "blocked"

\* A probe call: a new thread, a new queue, a wait of at most budget ticks.
Call(budget) ==
    /\ running' = [running EXCEPT ![Current] = @ + 1]
    /\ expiry' = clock + budget
    /\ mode' = "waiting" /\ called' = called \cup {Current} /\ answer' = None
    /\ wasUp' = wasUp \cup (up \cap {Current})
    /\ UNCHANGED <<clock, turn, result, up, flips>>

SkipUnprobed ==
    /\ ~Over /\ Current \in Unprobed /\ mode = "ready"
    /\ Report(Classify(Current, "blocked"))
    /\ UNCHANGED <<running, world>>

\* Variants of CallBuiltin: each call gets a share of the deadline; each call gets the
\* whole timeout.
CallBriefly ==
    /\ ~Over /\ Current \in Services \ Unprobed /\ mode = "ready" /\ Remaining > 0
    /\ Call(1)

CallInFull ==
    /\ ~Over /\ Current \in Services \ Unprobed /\ mode = "ready" /\ Remaining > 0
    /\ Call(Timeout)

\* First call or retry, with whatever is left of the common deadline.
CallBuiltin ==
    /\ ~Over /\ Current \in Services \ Unprobed /\ mode = "ready" /\ Remaining > 0
    /\ Call(Remaining)

\* At the deadline no call is made: the last failure, or "did not run before deadline".
DeadlineExpired ==
    /\ ~Over /\ Current \in Services \ Unprobed /\ mode = "ready" /\ Remaining = 0
    /\ Report(Classify(Current, "blocked"))
    /\ UNCHANGED <<running, world>>

\* Variant of Answered: the wait has no timeout.
AnsweredOnly(status) == mode = "waiting" /\ answer # None /\ status = answer

\* What the wait for the queue gave; an empty queue at the timeout is "blocked".
Answered(status) ==
    /\ mode = "waiting"
    /\ IF answer # None THEN status = answer ELSE clock >= expiry /\ status = "blocked"

\* An optional service has one call; a required one is retried until it is healthy or
\* the deadline is reached.
FinishBuiltin ==
    /\ ~Over /\ Current \in Services
    /\ \E status \in Verdicts :
          /\ Answered(status)
          /\ status = "healthy" \/ Current \in Optional \/ Remaining = 0
          /\ Report(Classify(Current, status))
    /\ UNCHANGED <<running, world>>

RetryBuiltin ==
    /\ ~Over /\ Current \in Services \ Optional
    /\ \E status \in Verdicts \ {"healthy"} : Answered(status)
    /\ Remaining > 0
    /\ mode' = "sleeping" /\ answer' = None
    /\ expiry' = clock + (IF Backoff < Remaining THEN Backoff ELSE Remaining)
    /\ UNCHANGED <<clock, turn, called, running, result, world>>

Wake ==
    /\ mode = "sleeping" /\ clock >= expiry
    /\ mode' = "ready"
    /\ UNCHANGED <<clock, turn, expiry, called, answer, running, result, world>>

\* Modules that cannot be probed are judged by the registry; "not_started" comes first.
JudgeModule ==
    /\ ~Over /\ Current \in Members /\ mode = "ready"
    /\ Standing[Current] # "probed"
    /\ Report(IF Standing[Current] = "not_started" THEN "degraded" ELSE "blocked")
    /\ UNCHANGED <<running, world>>

CallModule ==
    /\ ~Over /\ Current \in Members /\ mode = "ready"
    /\ Standing[Current] = "probed"
    /\ Call(Timeout)

\* A module's own verdict is reported as it is.
FinishModule ==
    /\ ~Over /\ Current \in Members
    /\ \E status \in Verdicts : Answered(status) /\ Report(status)
    /\ UNCHANGED <<running, world>>

-----------------------------------------------------------------------------
\* The threads, the world and the clock

\* What a probe can say: an exception is "blocked", only a module says "degraded", and
\* nothing is found healthy that was down all the time.
Sayings(p) ==
    {"blocked"} \cup (IF p \in wasUp THEN {"healthy"} ELSE {})
                \cup (IF p \in Members THEN {"degraded"} ELSE {})

\* Variant of AnswerLate: one queue for all calls.
AnswerShared(p) ==
    /\ running[p] > 0
    /\ answer = None
    /\ answer' \in Sayings(p)
    /\ running' = [running EXCEPT ![p] = @ - 1]
    /\ UNCHANGED <<clock, turn, mode, expiry, called, result, world>>

\* A thread left behind finishes: nobody reads its queue.
AnswerLate(p) ==
    /\ running[p] > IF ~Over /\ p = Current /\ mode = "waiting" /\ answer = None THEN 1 ELSE 0
    /\ running' = [running EXCEPT ![p] = @ - 1]
    /\ UNCHANGED <<clock, turn, mode, expiry, called, answer, result, world>>

\* The thread of the current call answers, perhaps just as the wait is over.
AnswerInTime ==
    /\ ~Over /\ mode = "waiting" /\ answer = None /\ running[Current] > 0
    /\ answer' \in Sayings(Current)
    /\ running' = [running EXCEPT ![Current] = @ - 1]
    /\ UNCHANGED <<clock, turn, mode, expiry, called, result, world>>

Flip(p) ==
    /\ flips < MaxFlips /\ ~Over
    /\ flips' = flips + 1
    /\ up' = (up \ {p}) \cup ({p} \ up)
    /\ wasUp' = IF running[p] > 0 /\ p \notin up THEN wasUp \cup {p} ELSE wasUp
    /\ UNCHANGED <<clock, turn, mode, expiry, called, answer, running, result>>

\* Time passes only while the runner waits or sleeps: its own steps take none.
Tick ==
    /\ ~Over /\ mode \in {"waiting", "sleeping"} /\ answer = None /\ clock < expiry
    /\ clock' = clock + 1
    /\ UNCHANGED <<turn, mode, expiry, called, answer, running, result, world>>

RunnerStep ==
    \/ SkipUnprobed \/ CallBuiltin \/ DeadlineExpired \/ FinishBuiltin \/ RetryBuiltin
    \/ Wake \/ JudgeModule \/ CallModule \/ FinishModule

Finished == Over /\ UNCHANGED vars

Next ==
    \/ RunnerStep \/ AnswerInTime \/ Tick \/ Finished
    \/ \E p \in Probes : AnswerLate(p) \/ Flip(p)

Spec == Init /\ [][Next]_vars

\* The runner is a running thread and time passes; no probe needs ever to answer.
FairSpec == Spec /\ WF_vars(RunnerStep) /\ WF_vars(Tick)
-----------------------------------------------------------------------------
\* A probe is reported healthy only if its own target was up while a call of it ran: no
\* answer that comes late is taken for another probe's (_run_health_probe).
HealthyWasUp == \A p \in Probes : result[p] = "healthy" => p \in wasUp

\* A built-in probe never runs twice at a time: a retry comes only after an answer, since
\* a call that times out has used up the deadline (_run_required_builtin_probe_until_healthy).
NoOverlap == \A p \in Services : running[p] <= 1

\* The services together take at most one timeout, and each probed module at most one
\* more, however many probes hang (deadline_at, _run_registry_health_probes).
InTime ==
    LET begun == {m \in Members : Standing[m] = "probed" /\ m \in called}
    IN  clock <= Timeout * (1 + Cardinality(begun))

\* An optional service never blocks the profile and a required one is never let pass as
\* degraded, whether it failed, hung, had no probe or came after the deadline.
SeverityFollowsProfile ==
    \A p \in Services :
        /\ result[p] = "blocked" => p \notin Optional
        /\ result[p] = "degraded" => p \in Optional

\* The healthcheck ends, even if no probe ever answers.
RunEnds == <>Over

=============================================================================
