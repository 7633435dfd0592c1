------------------------- MODULE EvidenceScriptsProofs -------------------------
(***************************************************************************)
(* Proofs about EvidenceScripts, for any number of runs, dates, candidates *)
(* left in the queue and any limit of the worker: a report that says       *)
(* passed is earned, whoever shares the queue.  The inductive invariant    *)
(* says what each run has already established when it is at a step, and    *)
(* that no other run can undo it: the cycle of a run is its own, what is   *)
(* accepted stays so, and a cycle is frozen by the run that made it.       *)
(***************************************************************************)
EXTENDS EvidenceScripts, TLAPS

Reporting == {"write", "markdown", "done"}

\* A run that is not at its report has not come to a verdict, and has a date.
Undecided(r) ==
    /\ run[r].step \notin Reporting => run[r].status = "failed"
    /\ run[r].step # "idle" => run[r].date \in Dates
    /\ run[r].step = "markdown" => run[r].script \in {"reasoner", "frontend"}

\* From here on the cycle of the run's date is the run's.
Owning(r) ==
    \/ run[r].script = "queue"
       /\ run[r].step \in {"submit", "validate", "freeze", "evidence", "promote"}
    \/ run[r].script = "holdings" /\ run[r].step \in {"freeze", "read", "graph"}

\* What a run has found when it comes to a step.
Found(r) ==
    /\ Owning(r) => cycle[run[r].date].by = r
    /\ run[r].script = "holdings" /\ run[r].step = "graph" => RelationsOf(Frozen(r)) = Holdings
    /\ run[r].script = "reasoner" =>
          /\ run[r].step = "consume" => run[r].facts = Schemas
          /\ run[r].step = "scan" => run[r].facts = Schemas \cup GraphKeys
    /\ run[r].script = "frontend" =>
          /\ run[r].step = "exercise" => run[r].facts = {"expected_commit"}
          /\ run[r].step = "assess" =>
                run[r].facts = {"expected_commit", "expected_body", "GET"}
    /\ run[r].script = "durable" =>
          /\ run[r].step = "rehearse" => run[r].facts = {"frozen"}
          /\ run[r].step = "readback" => run[r].facts = {"frozen", "rehearsed"}

Honest(r) == Undecided(r) /\ Found(r) /\ (run[r].status = "passed" => Earned(r))

FrozenIsAccepted == \A d \in Dates : cycle[d].frozen \subseteq accepted

\* A report says of a run what the run has come to.
Written ==
    \A o \in Scripts \X Outs :
        json[o].run # 0 /\ json[o].status = "passed" => run[json[o].run].status = "passed"

EvidenceInv ==
    EvidenceTypeOK /\ FrozenIsAccepted /\ Written /\ \A r \in Runs : Honest(r)

-----------------------------------------------------------------------------
LEMMA InitInv == EvidenceInit => EvidenceInv
<1> SUFFICES ASSUME EvidenceInit
             PROVE  EvidenceInv
    OBVIOUS
<1>0. Fresh("queue", NoDate, 1) \in RunRecord
    BY DEF Fresh, RunRecord, Steps, Scripts, Outs, Statuses, Messages, NoDate, NoExit
<1>1. [Fresh("queue", NoDate, 1) EXCEPT !.step = "idle"] \in RunRecord
    BY <1>0 DEF RunRecord, Steps
<1>2. run \in [Runs -> RunRecord]
    BY <1>1 DEF EvidenceInit
<1>3. cycle \in [Dates -> [by : Runs \cup {0, NoOne}, frozen : SUBSET Candidate]]
    BY DEF EvidenceInit
<1>4. json \in [Scripts \X Outs -> Report] /\ markdown \in [Scripts \X Outs -> Report]
    BY DEF EvidenceInit, Earlier, Report, Statuses
<1>5. EvidenceTypeOK
    BY <1>2, <1>3, <1>4, EvidenceBounds DEF EvidenceInit, EvidenceTypeOK
<1>6. FrozenIsAccepted /\ Written
    BY DEF EvidenceInit, FrozenIsAccepted, Written, Earlier
<1>7. \A r \in Runs : Honest(r)
    BY DEF EvidenceInit, Honest, Undecided, Found, Owning, Fresh
<1> QED
    BY <1>5, <1>6, <1>7 DEF EvidenceInv

\* What a step of run r does to the rest: it moves no other run, takes back no acceptance, and
\* touches a cycle only if nobody has made it or if it is its own.
Alone(r) ==
    /\ run' \in [Runs -> RunRecord] /\ \A q \in Runs : q # r => run'[q] = run[q]
    /\ pending' \subseteq Candidate /\ accepted \subseteq accepted' /\ accepted' \subseteq Candidate
    /\ cycle' \in [Dates -> [by : Runs \cup {0, NoOne}, frozen : SUBSET Candidate]]
    /\ \A d \in Dates : cycle[d].by \notin {NoOne, r} => cycle'[d] = cycle[d]
    /\ FrozenIsAccepted'

\* Another run keeps what it has established.
LEMMA OthersKeep ==
    ASSUME EvidenceInv, NEW r \in Runs, Alone(r), NEW q \in Runs, q # r
    PROVE  Honest(q)'
<1>1. run'[q] = run[q] /\ run[q] \in RunRecord
    BY DEF Alone, EvidenceInv, EvidenceTypeOK
<1>2. Honest(q)
    BY DEF EvidenceInv
<1>3. ASSUME cycle[run[q].date].by = q, run[q].date \in Dates
      PROVE  cycle'[run[q].date] = cycle[run[q].date]
    BY <1>3 DEF Alone, Runs, NoOne
<1>4. Undecided(q)'
    BY <1>1, <1>2 DEF Honest, Undecided
<1>5. Found(q)'
    BY <1>1, <1>2, <1>3 DEF Honest, Undecided, Found, Owning, Frozen, RelationsOf
<1>6. run[q].status = "passed" => Earned(q)'
    <2> SUFFICES ASSUME run[q].status = "passed" PROVE Earned(q)'
        OBVIOUS
    <2>1. Earned(q) /\ run[q].date \in Dates /\ accepted \subseteq accepted'
        BY <1>2 DEF Honest, Undecided, Reporting, Alone
    <2>2. CASE run[q].script = "queue"
        BY <2>1, <2>2, <1>1, <1>3 DEF Earned, Frozen, Own
    <2>3. CASE run[q].script = "holdings"
        BY <2>1, <2>3, <1>1, <1>3 DEF Earned, Frozen, RelationsOf
    <2>4. CASE run[q].script \in {"reasoner", "frontend", "durable"}
        BY <2>1, <2>4, <1>1 DEF Earned
    <2> QED
        BY <1>1, <2>2, <2>3, <2>4 DEF RunRecord, Scripts
<1> QED
    BY <1>1, <1>4, <1>5, <1>6 DEF Honest

\* Runs have the right type and r alone has moved.
Moved(r) == run' \in [Runs -> RunRecord] /\ \A q \in Runs : q # r => run'[q] = run[q]

LEMMA RecordOfRun ==
    ASSUME EvidenceTypeOK, NEW r \in Runs
    PROVE  /\ run \in [Runs -> RunRecord] /\ run[r] \in RunRecord
           /\ run[r].script \in Scripts /\ run[r].step \in Steps /\ run[r].out \in Outs
           /\ run[r].status \in Statuses
BY DEF EvidenceTypeOK, RunRecord

LEMMA BecomesMoves ==
    ASSUME EvidenceTypeOK, NEW r \in Runs, NEW record \in RunRecord, Becomes(r, record)
    PROVE  Moved(r) /\ run'[r] = record
BY DEF EvidenceTypeOK, Moved, Becomes

\* A field of a run's record may take any value of its type.
LEMMA Fields ==
    ASSUME NEW record \in RunRecord
    PROVE  /\ \A x \in Steps : [record EXCEPT !.step = x] \in RunRecord
           /\ \A x \in SUBSET Candidate : [record EXCEPT !.shown = x] \in RunRecord
           /\ \A x \in SUBSET Facts : [record EXCEPT !.facts = x] \in RunRecord
           /\ \A x \in Statuses : [record EXCEPT !.status = x] \in RunRecord
           /\ \A x \in Messages : [record EXCEPT !.message = x] \in RunRecord
           /\ \A x \in {0, 2, 3, 4} : [record EXCEPT !.refusal = x] \in RunRecord
           /\ \A x \in BOOLEAN : [record EXCEPT !.named = x] \in RunRecord
           /\ \A x \in Nat : [record EXCEPT !.due = x] \in RunRecord
           /\ \A x \in Nat : [record EXCEPT !.exit = x] \in RunRecord
BY DEF RunRecord

LEMMA WriteIsAStep == "write" \in Steps /\ "done" \in Steps
BY DEF Steps

LEMMA GotoMoves ==
    ASSUME EvidenceTypeOK, NEW r \in Runs, NEW step \in Steps, Goto(r, step)
    PROVE  /\ Moved(r) /\ run'[r].step = step /\ run'[r].script = run[r].script
           /\ run'[r].date = run[r].date /\ run'[r].status = run[r].status
           /\ run'[r].facts = run[r].facts
<1>1. [run[r] EXCEPT !.step = step] \in RunRecord
    BY RecordOfRun, Fields
<1>2. Moved(r) /\ run'[r] = [run[r] EXCEPT !.step = step]
    BY <1>1, BecomesMoves DEF Goto
<1> QED
    BY <1>2, RecordOfRun DEF RunRecord

LEMMA RaiseMoves ==
    ASSUME EvidenceTypeOK, NEW r \in Runs, NEW m \in Messages, Raise(r, m)
    PROVE  Moved(r) /\ run'[r] = [run[r] EXCEPT !.step = "write", !.message = m, !.due = 1]
<1> DEFINE record == [run[r] EXCEPT !.step = "write", !.message = m, !.due = 1]
<1>1. record \in RunRecord
    BY RecordOfRun, Fields, WriteIsAStep
<1>2. Becomes(r, record)
    BY DEF Raise
<1> HIDE DEF record
<1>3. Moved(r) /\ run'[r] = record
    BY <1>1, <1>2, BecomesMoves
<1> QED
    BY <1>3 DEF record

LEMMA RefuseMoves ==
    ASSUME EvidenceTypeOK, NEW r \in Runs, NEW code \in {3, 4}, Refuse(r, code)
    PROVE  /\ Moved(r) /\ run'[r].step = "write" /\ run'[r].status = run[r].status
           /\ run'[r].date = run[r].date
<1> DEFINE record == [run[r] EXCEPT !.step = "write", !.refusal = code, !.message = "plain",
                                    !.due = 1]
<1>1. record \in RunRecord
    BY RecordOfRun, Fields, WriteIsAStep DEF Messages
<1>2. Becomes(r, record)
    BY DEF Refuse
<1> HIDE DEF record
<1>3. Moved(r) /\ run'[r] = record
    BY <1>1, <1>2, BecomesMoves
<1> QED
    BY <1>3, RecordOfRun DEF record, RunRecord

LEMMA ConcludeMoves ==
    ASSUME EvidenceTypeOK, NEW r \in Runs, NEW status \in Statuses, Conclude(r, status)
    PROVE  /\ Moved(r) /\ run'[r].step = "write" /\ run'[r].status = status
           /\ run'[r].script = run[r].script /\ run'[r].date = run[r].date
           /\ run'[r].facts = run[r].facts
<1> DEFINE code == IF status \in {"passed", "dry_run_ready"} THEN 0 ELSE 1
           record == [run[r] EXCEPT !.step = "write", !.status = status, !.due = code]
<1>1. record \in RunRecord
    BY RecordOfRun, Fields, WriteIsAStep
<1>2. Becomes(r, record)
    BY DEF Conclude
<1> HIDE DEF record
<1>3. Moved(r) /\ run'[r] = record
    BY <1>1, <1>2, BecomesMoves
<1> QED
    BY <1>3, RecordOfRun DEF record, RunRecord

\* A run that an error ends claims nothing.
LEMMA FailedIsHonest ==
    ASSUME EvidenceInv, NEW r \in Runs, run[r].step \notin Reporting \cup {"idle"},
           run'[r].step = "write", run'[r].status = run[r].status, run'[r].date = run[r].date
    PROVE  Honest(r)'
BY DEF EvidenceInv, Honest, Undecided, Found, Owning, Reporting

\* What a step that writes no report has to show.
LEMMA StepKeeps ==
    ASSUME EvidenceInv, NEW r \in Runs, run[r].step \notin Reporting,
           Alone(r), Honest(r)', UNCHANGED files
    PROVE  EvidenceInv'
<1>1. EvidenceTypeOK'
    BY DEF EvidenceInv, EvidenceTypeOK, Alone, files
<1>2. \A q \in Runs : Honest(q)'
    BY OthersKeep
<1>3. Written'
  <2> SUFFICES ASSUME NEW o \in Scripts \X Outs, json[o].run # 0, json[o].status = "passed"
               PROVE  run'[json[o].run].status = "passed"
      BY DEF Written, files
  <2>1. run[json[o].run].status = "passed" /\ json[o].run \in Runs
      BY DEF EvidenceInv, Written, EvidenceTypeOK, Report
  <2>2. json[o].run # r
      BY <2>1 DEF EvidenceInv, Honest, Undecided
  <2> QED
      BY <2>1, <2>2 DEF Alone
<1> QED
    BY <1>1, <1>2, <1>3 DEF EvidenceInv, Alone

LEMMA PrivateStepKeeps ==
    ASSUME EvidenceInv, NEW r \in Runs, run[r].step \notin Reporting,
           Moved(r), Honest(r)', UNCHANGED <<database, files>>
    PROVE  EvidenceInv'
<1>1. Alone(r)
    BY DEF EvidenceInv, EvidenceTypeOK, Alone, Moved, database, FrozenIsAccepted
<1> QED
    BY <1>1, StepKeeps

LEMMA FailureKeeps ==
    ASSUME EvidenceInv, NEW r \in Runs, run[r].step \notin Reporting \cup {"idle"},
           NEW m \in Messages, Raise(r, m), UNCHANGED <<database, files>>
    PROVE  EvidenceInv'
<1>1. Moved(r) /\ run'[r] = [run[r] EXCEPT !.step = "write", !.message = m, !.due = 1]
    BY RaiseMoves DEF EvidenceInv
<1>2. Honest(r)'
    BY <1>1, FailedIsHonest, RecordOfRun DEF EvidenceInv, RunRecord
<1> QED
    BY <1>1, <1>2, PrivateStepKeeps

LEMMA RefusalKeeps ==
    ASSUME EvidenceInv, NEW r \in Runs, run[r].step \notin Reporting \cup {"idle"},
           NEW code \in {3, 4}, Refuse(r, code), UNCHANGED <<database, files>>
    PROVE  EvidenceInv'
<1>2. Moved(r) /\ Honest(r)'
    BY RefuseMoves, FailedIsHonest DEF EvidenceInv
<1> QED
    BY <1>2, PrivateStepKeeps

\* A run that goes on and has not reported claims nothing either.
LEMMA OnTheWay ==
    ASSUME EvidenceInv, NEW r \in Runs, run[r].step \notin Reporting \cup {"idle"},
           run'[r].step \notin Reporting, run'[r].status = run[r].status,
           run'[r].date = run[r].date, Found(r)'
    PROVE  Honest(r)'
BY DEF EvidenceInv, Honest, Undecided, Reporting

\* Where a run is, its cycle is one of those that the type invariant speaks of.
LEMMA CycleType ==
    ASSUME EvidenceInv, NEW r \in Runs, run[r].step # "idle"
    PROVE  /\ run[r].date \in Dates /\ Frozen(r) \subseteq accepted
           /\ cycle \in [Dates -> [by : Runs \cup {0, NoOne}, frozen : SUBSET Candidate]]
           /\ pending \subseteq Candidate /\ accepted \subseteq Candidate
BY DEF EvidenceInv, EvidenceTypeOK, Honest, Undecided, FrozenIsAccepted, Frozen

\* create_cycle, the worker and the freeze, as steps of one run.
LEMMA MakeCycleAlone ==
    ASSUME EvidenceInv, NEW r \in Runs, run[r].step # "idle", Moved(r), MakeCycle(r),
           UNCHANGED <<pending, accepted>>
    PROVE  Alone(r) /\ cycle'[run[r].date].by = r
<1>1. cycle' \in [Dates -> [by : Runs \cup {0, NoOne}, frozen : SUBSET Candidate]]
    BY CycleType DEF MakeCycle
<1>2. \A d \in Dates : cycle'[d].frozen = cycle[d].frozen
    BY CycleType DEF MakeCycle
<1>3. \A d \in Dates : cycle[d].by \notin {NoOne, r} => cycle'[d] = cycle[d]
    BY CycleType DEF MakeCycle
<1>4. cycle'[run[r].date].by = r
    BY CycleType DEF MakeCycle
<1> QED
    BY <1>1, <1>2, <1>3, <1>4, CycleType DEF Alone, Moved, FrozenIsAccepted, EvidenceInv

LEMMA DecideAlone ==
    ASSUME EvidenceInv, NEW r \in Runs, run[r].step # "idle", Moved(r),
           NEW passing \in SUBSET pending, Decide(passing), UNCHANGED cycle
    PROVE  Alone(r)
<1>1. /\ pending' \subseteq Candidate /\ accepted \subseteq accepted'
      /\ accepted' \subseteq Candidate
    BY CycleType DEF Decide
<1> QED
    BY <1>1, CycleType DEF Alone, Moved, FrozenIsAccepted, EvidenceInv

LEMMA SelectAlone ==
    ASSUME EvidenceInv, NEW r \in Runs, run[r].step # "idle", Moved(r), Select(r),
           cycle[run[r].date].by = r, UNCHANGED <<pending, accepted>>
    PROVE  Alone(r) /\ cycle'[run[r].date].by = r
<1>1. Selectable \subseteq accepted
    BY DEF Selectable
<1>2. cycle' \in [Dates -> [by : Runs \cup {0, NoOne}, frozen : SUBSET Candidate]]
    BY <1>1, CycleType DEF Select
<1>3. \A d \in Dates : d # run[r].date => cycle'[d] = cycle[d]
    BY CycleType DEF Select
<1>4. cycle'[run[r].date].by = r /\ cycle'[run[r].date].frozen = Selectable
    BY CycleType DEF Select
<1>5. FrozenIsAccepted'
    BY <1>1, <1>3, <1>4, CycleType DEF FrozenIsAccepted, EvidenceInv
<1> QED
    BY <1>2, <1>3, <1>4, <1>5, CycleType DEF Alone, Moved

-----------------------------------------------------------------------------
\* The queue promotion proof.
LEMMA QueueKeeps ==
    ASSUME EvidenceInv, NEW r \in Runs, QueueStep(r)
    PROVE  EvidenceInv'
<1> USE DEF EvidenceInv
<1>0. "plain" \in Messages
    BY DEF Messages
<1>1. CASE QueueFails(r)
  <2>1. run[r].step \notin Reporting \cup {"idle"}
      BY <1>1 DEF QueueFails, Reporting, Honest, Undecided
  <2> QED
      BY <1>0, <1>1, <2>1, FailureKeeps DEF QueueFails
<1>2. CASE QueueCreateCycle(r)
  <2> USE <1>2 DEF QueueCreateCycle
  <2>1. run[r].step = "start" /\ run[r].script = "queue" /\ "submit" \in Steps
      BY DEF Is, Steps
  <2>2. Moved(r) /\ run'[r].step = "submit"
      BY <2>1, GotoMoves
  <2>3. Alone(r) /\ cycle'[run[r].date].by = r
      BY <2>1, <2>2, MakeCycleAlone
  <2>4. Found(r)'
      BY <2>1, <2>2, <2>3, GotoMoves DEF Found
  <2>5. Honest(r)'
      BY <2>1, <2>2, <2>4, GotoMoves, OnTheWay DEF Reporting
  <2> QED
      BY <2>1, <2>3, <2>5, StepKeeps DEF Reporting
<1>3. CASE QueueSubmit(r)
  <2> USE <1>3 DEF QueueSubmit
  <2>1. run[r].step = "submit" /\ run[r].script = "queue" /\ "validate" \in Steps
      BY DEF Is, Steps
  <2>2. Moved(r) /\ run'[r].step = "validate"
      BY <2>1, GotoMoves
  <2>3. pending' \subseteq Candidate
      BY CycleType, <2>1 DEF Candidate, Relations
  <2>4. Alone(r)
      BY <2>1, <2>2, <2>3, CycleType DEF Alone, Moved, FrozenIsAccepted
  <2>5. Found(r)'
      BY <2>1, <2>2, GotoMoves DEF Found, Owning, Honest
  <2>6. Honest(r)'
      BY <2>1, <2>2, <2>5, GotoMoves, OnTheWay DEF Reporting
  <2> QED
      BY <2>1, <2>4, <2>6, StepKeeps DEF Reporting
<1>4. CASE QueueValidate(r)
  <2> USE DEF QueueValidate
  <2>1. run[r].step = "validate" /\ run[r].script = "queue" /\ "freeze" \in Steps
      BY <1>4 DEF Is, Steps
  <2>2. PICK passing \in SUBSET pending :
            Decide(passing) /\ (Raise(r, "plain") \/ Goto(r, "freeze"))
      BY <1>4
  <2>3. CASE Raise(r, "plain")
    <3>1. Moved(r) /\ run'[r] = [run[r] EXCEPT !.step = "write", !.message = "plain", !.due = 1]
        BY <1>0, <2>3, RaiseMoves
    <3>2. Honest(r)'
        BY <2>1, <3>1, FailedIsHonest, RecordOfRun DEF RunRecord, Reporting
    <3> QED
        BY <1>4, <2>1, <2>2, <3>1, <3>2, DecideAlone, StepKeeps DEF Reporting
  <2>4. CASE Goto(r, "freeze")
    <3>1. Moved(r) /\ run'[r].step = "freeze"
        BY <2>1, <2>4, GotoMoves
    <3>2. Found(r)'
        BY <1>4, <2>1, <2>4, <3>1, GotoMoves DEF Found, Owning, Honest
    <3>3. Honest(r)'
        BY <2>1, <2>4, <3>1, <3>2, GotoMoves, OnTheWay DEF Reporting
    <3> QED
        BY <1>4, <2>1, <2>2, <3>1, <3>3, DecideAlone, StepKeeps DEF Reporting
  <2> QED
      BY <2>2, <2>3, <2>4
<1>5. CASE QueueFreeze(r)
  <2> USE <1>5 DEF QueueFreeze
  <2>1. run[r].step = "freeze" /\ run[r].script = "queue" /\ "evidence" \in Steps
      BY DEF Is, Steps
  <2>2. Moved(r) /\ run'[r].step = "evidence" /\ cycle[run[r].date].by = r
      BY <2>1, GotoMoves DEF Honest, Found, Owning
  <2>3. Alone(r) /\ cycle'[run[r].date].by = r
      BY <2>1, <2>2, SelectAlone
  <2>4. Found(r)'
      BY <2>1, <2>2, <2>3, GotoMoves DEF Found
  <2>5. Honest(r)'
      BY <2>1, <2>2, <2>4, GotoMoves, OnTheWay DEF Reporting
  <2> QED
      BY <2>1, <2>3, <2>5, StepKeeps DEF Reporting
<1>6. CASE QueueEvidence(r)
  <2> USE <1>6 DEF QueueEvidence
  <2>1. run[r].step = "evidence" /\ run[r].script = "queue" /\ "promote" \in Steps
      BY DEF Is, Steps
  <2>2. CASE Raise(r, "plain")
      BY <1>0, <2>1, <2>2, FailureKeeps DEF Reporting
  <2>3. CASE Goto(r, "promote")
    <3>1. Moved(r) /\ run'[r].step = "promote" /\ UNCHANGED cycle
        BY <2>1, <2>3, GotoMoves DEF database
    <3>2. Found(r)'
        BY <2>1, <2>3, <3>1, GotoMoves DEF Found, Owning, Honest
    <3>3. Honest(r)'
        BY <2>1, <2>3, <3>1, <3>2, GotoMoves, OnTheWay DEF Reporting
    <3> QED
        BY <2>1, <3>1, <3>3, PrivateStepKeeps DEF Reporting
  <2> QED
      BY <2>2, <2>3
<1>7. CASE QueuePromote(r)
  <2> USE DEF QueuePromote
  <2>1. run[r].step = "promote" /\ run[r].script = "queue"
      BY <1>7 DEF Is
  <2>2. CASE Raise(r, "plain")
      BY <1>0, <1>7, <2>1, <2>2, FailureKeeps DEF Reporting
  <2>3. ASSUME NEW plan \in SUBSET Frozen(r), Own(r) \cap plan # {},
               Becomes(r, [run[r] EXCEPT !.shown = plan, !.step = "write",
                                         !.status = "passed"])
        PROVE  EvidenceInv'
    <3> DEFINE record == [run[r] EXCEPT !.shown = plan, !.step = "write", !.status = "passed"]
    <3>1. plan \in SUBSET Candidate /\ "passed" \in Statuses
        BY <2>1, CycleType DEF Statuses
    <3>2. record \in RunRecord /\ Becomes(r, record)
        BY <2>3, <3>1, RecordOfRun, Fields, WriteIsAStep
    <3>3. /\ record.step = "write" /\ record.status = "passed" /\ record.shown = plan
          /\ record.date = run[r].date /\ record.script = run[r].script
        BY RecordOfRun DEF RunRecord
    <3> HIDE DEF record
    <3>4. Moved(r) /\ run'[r] = record /\ UNCHANGED <<cycle, accepted>>
        BY <1>7, <3>2, BecomesMoves DEF database
    <3>5. Earned(r)'
        BY <2>1, <2>3, <3>3, <3>4, CycleType DEF Earned, Frozen, Own, Honest, Found, Owning
    <3>6. Honest(r)'
        BY <2>1, <3>3, <3>4, <3>5, CycleType
        DEF Honest, Undecided, Found, Owning, Reporting
    <3> QED
        BY <1>7, <2>1, <3>4, <3>6, PrivateStepKeeps DEF Reporting
  <2> QED
      BY <1>7, <2>2, <2>3
<1> QED
    BY <1>1, <1>2, <1>3, <1>4, <1>5, <1>6, <1>7 DEF QueueStep

-----------------------------------------------------------------------------
\* The holdings proof.
LEMMA HoldingsKeeps ==
    ASSUME EvidenceInv, NEW r \in Runs, HoldingsStep(r)
    PROVE  EvidenceInv'
<1> USE DEF EvidenceInv
<1>0. /\ "plain" \in Messages /\ "dry_run_ready" \in Statuses
      /\ {"submit", "accept", "cycle", "freeze", "read", "graph"} \subseteq Steps
    BY DEF Messages, Statuses, Steps
<1>1. CASE Preflight(r)
  <2> USE DEF Preflight
  <2>1. run[r].step = "start" /\ run[r].script = "holdings" /\ UNCHANGED <<database, files>>
      BY <1>1 DEF Is
  <2>2. CASE Goto(r, "submit")
    <3>1. Moved(r) /\ run'[r].step = "submit" /\ Found(r)'
        BY <1>0, <2>1, <2>2, GotoMoves DEF Found, Owning
    <3>2. Honest(r)'
        BY <1>0, <2>1, <2>2, <3>1, GotoMoves, OnTheWay DEF Reporting
    <3> QED
        BY <2>1, <3>1, <3>2, PrivateStepKeeps DEF Reporting
  <2>3. CASE Conclude(r, "dry_run_ready")
    <3>1. /\ Moved(r) /\ run'[r].step = "write" /\ run'[r].status = "dry_run_ready"
          /\ run'[r].date = run[r].date
        BY <1>0, <2>3, ConcludeMoves
    <3>2. Honest(r)'
        BY <2>1, <3>1, CycleType DEF Honest, Undecided, Found, Owning, Reporting
    <3> QED
        BY <2>1, <3>1, <3>2, PrivateStepKeeps DEF Reporting
  <2>4. CASE Becomes(r, [run[r] EXCEPT !.step = "write", !.refusal = 2, !.named = TRUE,
                                       !.message = "plain", !.due = 2])
    <3> DEFINE record == [run[r] EXCEPT !.step = "write", !.refusal = 2, !.named = TRUE,
                                        !.message = "plain", !.due = 2]
    <3>1. record \in RunRecord /\ Becomes(r, record)
        BY <1>0, <2>4, RecordOfRun, Fields, WriteIsAStep
    <3>2. /\ record.step = "write" /\ record.status = run[r].status
          /\ record.date = run[r].date
        BY RecordOfRun DEF RunRecord
    <3> HIDE DEF record
    <3>3. Moved(r) /\ run'[r] = record
        BY <3>1, BecomesMoves
    <3>4. Honest(r)'
        BY <2>1, <3>2, <3>3, FailedIsHonest DEF Reporting
    <3> QED
        BY <2>1, <3>3, <3>4, PrivateStepKeeps DEF Reporting
  <2> QED
      BY <1>1, <2>2, <2>3, <2>4
<1>2. CASE HoldingsFails(r)
  <2>1. run[r].step \notin Reporting \cup {"idle"}
      BY <1>2 DEF HoldingsFails, Reporting, Honest, Undecided
  <2> QED
      BY <1>0, <1>2, <2>1, FailureKeeps DEF HoldingsFails
<1>3. CASE HoldingsSubmit(r)
  <2> USE DEF HoldingsSubmit
  <2>1. run[r].step = "submit" /\ run[r].script = "holdings"
      BY <1>3 DEF Is
  <2>2. PICK mine \in SUBSET {[by |-> r, relation |-> h] : h \in Holdings} :
            /\ pending' = pending \cup mine
            /\ Require(r, mine, "accept") \/ Raise(r, "plain")
      BY <1>3
  <2>3. pending' \subseteq Candidate
      BY <2>1, <2>2, CycleType DEF Candidate, Relations
  <2>4. Moved(r) => Alone(r)
      BY <1>3, <2>1, <2>3, CycleType DEF Alone, Moved, FrozenIsAccepted
  <2>5. CASE Raise(r, "plain")
    <3>1. Moved(r) /\ run'[r] = [run[r] EXCEPT !.step = "write", !.message = "plain", !.due = 1]
        BY <1>0, <2>5, RaiseMoves
    <3>2. Honest(r)'
        BY <2>1, <3>1, FailedIsHonest, RecordOfRun DEF RunRecord, Reporting
    <3> QED
        BY <1>3, <2>1, <2>4, <3>1, <3>2, StepKeeps DEF Reporting
  <2>6. ASSUME NEW code \in {3, 4}, Refuse(r, code)
        PROVE  EvidenceInv'
    <3>1. Moved(r) /\ Honest(r)'
        BY <2>1, <2>6, RefuseMoves, FailedIsHonest DEF Reporting
    <3> QED
        BY <1>3, <2>1, <2>4, <3>1, StepKeeps DEF Reporting
  <2>7. CASE Goto(r, "accept")
    <3>1. Moved(r) /\ run'[r].step = "accept" /\ Found(r)'
        BY <1>0, <2>1, <2>7, GotoMoves DEF Found, Owning
    <3>2. Honest(r)'
        BY <1>0, <2>1, <2>7, <3>1, GotoMoves, OnTheWay DEF Reporting
    <3> QED
        BY <1>3, <2>1, <2>4, <3>1, <3>2, StepKeeps DEF Reporting
  <2> QED
      BY <2>2, <2>5, <2>6, <2>7 DEF Require
<1>4. CASE HoldingsAccept(r)
  <2> USE DEF HoldingsAccept
  <2>1. run[r].step = "accept" /\ run[r].script = "holdings"
      BY <1>4 DEF Is
  <2>2. PICK passing \in SUBSET pending :
            Decide(passing) /\ (Refuse(r, 3) \/ Goto(r, "cycle"))
      BY <1>4
  <2>3. Moved(r) => Alone(r)
      BY <1>4, <2>1, <2>2, DecideAlone
  <2>4. CASE Refuse(r, 3)
    <3>1. Moved(r) /\ Honest(r)'
        BY <2>1, <2>4, RefuseMoves, FailedIsHonest DEF Reporting
    <3> QED
        BY <1>4, <2>1, <2>3, <3>1, StepKeeps DEF Reporting
  <2>5. CASE Goto(r, "cycle")
    <3>1. Moved(r) /\ run'[r].step = "cycle" /\ Found(r)'
        BY <1>0, <2>1, <2>5, GotoMoves DEF Found, Owning
    <3>2. Honest(r)'
        BY <1>0, <2>1, <2>5, <3>1, GotoMoves, OnTheWay DEF Reporting
    <3> QED
        BY <1>4, <2>1, <2>3, <3>1, <3>2, StepKeeps DEF Reporting
  <2> QED
      BY <2>2, <2>4, <2>5
<1>5. CASE HoldingsCreateCycle(r)
  <2> USE <1>5 DEF HoldingsCreateCycle
  <2>1. run[r].step = "cycle" /\ run[r].script = "holdings"
      BY DEF Is
  <2>2. Moved(r) /\ run'[r].step = "freeze"
      BY <1>0, <2>1, GotoMoves
  <2>3. Alone(r) /\ cycle'[run[r].date].by = r
      BY <2>1, <2>2, MakeCycleAlone
  <2>4. Found(r)'
      BY <1>0, <2>1, <2>2, <2>3, GotoMoves DEF Found
  <2>5. Honest(r)'
      BY <1>0, <2>1, <2>2, <2>4, GotoMoves, OnTheWay DEF Reporting
  <2> QED
      BY <2>1, <2>3, <2>5, StepKeeps DEF Reporting
<1>6. CASE HoldingsFreeze(r)
  <2> USE DEF HoldingsFreeze
  <2>1. /\ run[r].step = "freeze" /\ run[r].script = "holdings"
        /\ cycle[run[r].date].by = r
      BY <1>6 DEF Is, Honest, Found, Owning
  <2>2. Moved(r) => Alone(r) /\ cycle'[run[r].date].by = r
      BY <1>6, <2>1, SelectAlone
  <2>3. CASE Refuse(r, 3)
    <3>1. Moved(r) /\ Honest(r)'
        BY <2>1, <2>3, RefuseMoves, FailedIsHonest DEF Reporting
    <3> QED
        BY <1>6, <2>1, <2>2, <3>1, StepKeeps DEF Reporting
  <2>4. CASE Goto(r, "read")
    <3>1. Moved(r) /\ run'[r].step = "read" /\ run'[r].date = run[r].date
        BY <1>0, <2>1, <2>4, GotoMoves
    <3>2. Found(r)'
        BY <1>0, <2>1, <2>2, <2>4, <3>1, GotoMoves DEF Found
    <3>3. Honest(r)'
        BY <1>0, <2>1, <2>4, <3>1, <3>2, GotoMoves, OnTheWay DEF Reporting
    <3> QED
        BY <1>6, <2>1, <2>2, <3>1, <3>3, StepKeeps DEF Reporting
  <2> QED
      BY <1>6, <2>3, <2>4
<1>7. CASE HoldingsRead(r)
  <2> USE DEF HoldingsRead
  <2>1. run[r].step = "read" /\ run[r].script = "holdings" /\ UNCHANGED <<database, files>>
      BY <1>7 DEF Is
  <2>2. ASSUME NEW code \in {3, 4}, Refuse(r, code)
        PROVE  EvidenceInv'
      BY <2>1, <2>2, RefusalKeeps DEF Reporting
  <2>3. CASE HaveRequiredRelations(Frozen(r)) /\ Goto(r, "graph")
    <3>1. Moved(r) /\ run'[r].step = "graph" /\ UNCHANGED cycle
        BY <1>0, <2>1, <2>3, GotoMoves DEF database
    <3>2. Found(r)'
        BY <1>0, <2>1, <2>3, <3>1, GotoMoves
        DEF Found, Owning, Honest, HaveRequiredRelations, Frozen, RelationsOf
    <3>3. Honest(r)'
        BY <1>0, <2>1, <2>3, <3>1, <3>2, GotoMoves, OnTheWay DEF Reporting
    <3> QED
        BY <2>1, <3>1, <3>3, PrivateStepKeeps DEF Reporting
  <2> QED
      BY <1>7, <2>2, <2>3 DEF Require
<1>8. CASE HoldingsGraph(r)
  <2> USE DEF HoldingsGraph
  <2>1. run[r].step = "graph" /\ run[r].script = "holdings" /\ UNCHANGED <<database, files>>
      BY <1>8 DEF Is
  <2>2. ASSUME NEW code \in {3, 4}, Refuse(r, code)
        PROVE  EvidenceInv'
      BY <2>1, <2>2, RefusalKeeps DEF Reporting
  <2>3. ASSUME NEW edges \in SUBSET Frozen(r), HaveRequiredRelations(edges),
               Becomes(r, [run[r] EXCEPT !.shown = edges, !.step = "write",
                                         !.status = "passed"])
        PROVE  EvidenceInv'
    <3> DEFINE record == [run[r] EXCEPT !.shown = edges, !.step = "write", !.status = "passed"]
    <3>1. edges \in SUBSET Candidate /\ "passed" \in Statuses
        BY <2>1, CycleType DEF Statuses
    <3>2. record \in RunRecord /\ Becomes(r, record)
        BY <2>3, <3>1, RecordOfRun, Fields, WriteIsAStep
    <3>3. /\ record.step = "write" /\ record.status = "passed" /\ record.shown = edges
          /\ record.date = run[r].date /\ record.script = run[r].script
        BY RecordOfRun DEF RunRecord
    <3> HIDE DEF record
    <3>4. Moved(r) /\ run'[r] = record /\ UNCHANGED <<cycle, accepted>>
        BY <2>1, <3>2, BecomesMoves DEF database
    <3>5. Earned(r)'
        BY <2>1, <2>3, <3>3, <3>4
        DEF Earned, Frozen, RelationsOf, HaveRequiredRelations, Honest, Found, Owning
    <3>6. Honest(r)'
        BY <2>1, <3>3, <3>4, <3>5, CycleType
        DEF Honest, Undecided, Found, Owning, Reporting
    <3> QED
        BY <2>1, <3>4, <3>6, PrivateStepKeeps DEF Reporting
  <2> QED
      BY <1>8, <2>2, <2>3
<1> QED
    BY <1>1, <1>2, <1>3, <1>4, <1>5, <1>6, <1>7, <1>8 DEF HoldingsStep

-----------------------------------------------------------------------------
\* The reasoner, the frontend and the P2 run touch nothing that is shared.
LEMMA OtherKeeps ==
    ASSUME EvidenceInv, NEW r \in Runs, OtherStep(r)
    PROVE  EvidenceInv'
<1> USE DEF EvidenceInv
<1>0. /\ {"plain", "bearer", "path"} \subseteq Messages /\ "passed" \in Statuses
      /\ {"consume", "scan", "exercise", "assess", "rehearse", "readback"} \subseteq Steps
    BY DEF Messages, Statuses, Steps
<1>1. UNCHANGED <<database, files>>
    BY DEF OtherStep, ReasonerFails, ReasonerBuild, ReasonerConsume, ReasonerScan,
           FrontendVerify, FrontendExercise, FrontendAssess,
           DurableFails, DurableSeed, DurableRehearse, DurableReadBack
<1>2. ASSUME NEW m \in Messages, Raise(r, m), run[r].step \notin Reporting \cup {"idle"}
      PROVE  EvidenceInv'
    BY <1>1, <1>2, FailureKeeps
\* A step that adds to what the run has found.
<1>3. ASSUME NEW step \in Steps, NEW facts \in SUBSET Facts,
             Becomes(r, [run[r] EXCEPT !.step = step, !.facts = facts])
      PROVE  /\ Moved(r) /\ run'[r].step = step /\ run'[r].facts = facts
             /\ run'[r].script = run[r].script /\ run'[r].date = run[r].date
             /\ run'[r].status = run[r].status
  <2> DEFINE record == [run[r] EXCEPT !.step = step, !.facts = facts]
  <2>1. record \in RunRecord /\ Becomes(r, record)
      BY <1>3, RecordOfRun, Fields
  <2>2. /\ record.step = step /\ record.facts = facts /\ record.script = run[r].script
        /\ record.date = run[r].date /\ record.status = run[r].status
      BY RecordOfRun DEF RunRecord
  <2> HIDE DEF record
  <2> QED
      BY <2>1, <2>2, BecomesMoves
\* What then remains to be shown.
<1>4. ASSUME Moved(r), run[r].step \notin Reporting \cup {"idle"}, run'[r].step \notin Reporting,
             run'[r].date = run[r].date, run'[r].status = run[r].status, Found(r)'
      PROVE  EvidenceInv'
    BY <1>1, <1>4, OnTheWay, PrivateStepKeeps
<1>5. ASSUME Moved(r), run[r].step \notin Reporting \cup {"idle"}, run'[r].step = "write",
             run'[r].date = run[r].date, run'[r].status = "passed" => Earned(r)'
      PROVE  EvidenceInv'
  <2>1. Honest(r)'
      BY <1>5, CycleType DEF Honest, Undecided, Found, Owning, Reporting
  <2> QED
      BY <1>1, <1>5, <2>1, PrivateStepKeeps
<1>6. CASE ReasonerFails(r)
    BY <1>0, <1>2, <1>6 DEF ReasonerFails, Reporting
<1>7. CASE ReasonerBuild(r)
  <2>1. run[r].step = "start" /\ run[r].script = "reasoner" /\ Schemas \in SUBSET Facts
      BY <1>7 DEF ReasonerBuild, Is, Facts
  <2>2. CASE Raise(r, "plain")
      BY <1>0, <1>2, <2>1, <2>2 DEF Reporting
  <2>3. CASE Becomes(r, [run[r] EXCEPT !.step = "consume", !.facts = Schemas])
    <3>1. /\ Moved(r) /\ run'[r].step = "consume" /\ run'[r].facts = Schemas
          /\ run'[r].script = "reasoner" /\ run'[r].date = run[r].date
          /\ run'[r].status = run[r].status
        BY <1>0, <1>3, <2>1, <2>3
    <3> QED
        BY <1>4, <2>1, <3>1 DEF Found, Owning, Reporting
  <2> QED
      BY <1>7, <2>2, <2>3 DEF ReasonerBuild
<1>8. CASE ReasonerConsume(r)
  <2>1. /\ run[r].step = "consume" /\ run[r].script = "reasoner" /\ run[r].facts = Schemas
        /\ Schemas \cup GraphKeys \in SUBSET Facts
      BY <1>8 DEF ReasonerConsume, Is, Honest, Found, Facts
  <2>2. CASE Raise(r, "plain")
      BY <1>0, <1>2, <2>1, <2>2 DEF Reporting
  <2>3. CASE Becomes(r, [run[r] EXCEPT !.step = "scan", !.facts = @ \cup GraphKeys])
    <3>1. /\ Moved(r) /\ run'[r].step = "scan" /\ run'[r].facts = Schemas \cup GraphKeys
          /\ run'[r].script = "reasoner" /\ run'[r].date = run[r].date
          /\ run'[r].status = run[r].status
        BY <1>0, <1>3, <2>1, <2>3
    <3> QED
        BY <1>4, <2>1, <3>1 DEF Found, Owning, Reporting
  <2> QED
      BY <1>8, <2>2, <2>3 DEF ReasonerConsume
<1>9. CASE ReasonerScan(r)
  <2>1. /\ run[r].step = "scan" /\ run[r].script = "reasoner"
        /\ run[r].facts = Schemas \cup GraphKeys
      BY <1>9 DEF ReasonerScan, Is, Honest, Found
  <2>2. PICK tree \in Trees :
            Becomes(r, [run[r] EXCEPT !.step = "write", !.status = ScanVerdict(tree),
                                      !.facts = @ \cup {tree},
                                      !.due = IF ScanVerdict(tree) = "passed" THEN 0 ELSE 1])
      BY <1>9 DEF ReasonerScan
  <2> DEFINE facts == run[r].facts \cup {tree}
             code == IF ScanVerdict(tree) = "passed" THEN 0 ELSE 1
             record == [run[r] EXCEPT !.step = "write", !.status = ScanVerdict(tree),
                                      !.facts = facts, !.due = code]
  <2>3. /\ facts \in SUBSET Facts /\ ScanVerdict(tree) \in Statuses
        /\ ScanVerdict(tree) = "passed" => tree = "clean"
      BY <2>1 DEF Facts, Trees, ScanVerdict, Statuses
  <2>4. record \in RunRecord
      BY <2>3, RecordOfRun, Fields, WriteIsAStep
  <2>5. Becomes(r, record)
      BY <2>2
  <2>6. /\ record.step = "write" /\ record.status = ScanVerdict(tree) /\ record.facts = facts
        /\ record.script = run[r].script /\ record.date = run[r].date
      BY RecordOfRun DEF RunRecord
  <2> HIDE DEF record
  <2>7. Moved(r) /\ run'[r] = record
      BY <2>4, <2>5, BecomesMoves
  <2>8. run'[r].status = "passed" => Earned(r)'
      BY <2>1, <2>3, <2>6, <2>7 DEF Earned
  <2> QED
      BY <1>5, <2>1, <2>6, <2>7, <2>8 DEF Reporting
<1>10. CASE FrontendVerify(r)
  <2>1. run[r].step = "start" /\ run[r].script = "frontend" /\ {"expected_commit"} \in SUBSET Facts
      BY <1>10 DEF FrontendVerify, Is, Facts, Checkouts
  <2>2. ASSUME NEW m \in {"path", "plain"}, Raise(r, m)
        PROVE  EvidenceInv'
      BY <1>0, <1>2, <2>1, <2>2 DEF Reporting
  <2>3. CASE Becomes(r, [run[r] EXCEPT !.step = "exercise", !.facts = {"expected_commit"}])
    <3>1. /\ Moved(r) /\ run'[r].step = "exercise" /\ run'[r].facts = {"expected_commit"}
          /\ run'[r].script = "frontend" /\ run'[r].date = run[r].date
          /\ run'[r].status = run[r].status
        BY <1>0, <1>3, <2>1, <2>3
    <3> QED
        BY <1>4, <2>1, <3>1 DEF Found, Owning, Reporting
  <2> QED
      BY <1>10, <2>2, <2>3 DEF FrontendVerify
<1>11. CASE FrontendExercise(r)
  <2> DEFINE facts == {"expected_commit", "expected_body", "GET"}
  <2>1. /\ run[r].step = "exercise" /\ run[r].script = "frontend"
        /\ run[r].facts = {"expected_commit"} /\ facts \in SUBSET Facts
      BY <1>11 DEF FrontendExercise, Is, Honest, Found, Facts, Checkouts, Bodies
  <2>2. CASE Raise(r, "plain")
      BY <1>0, <1>2, <2>1, <2>2 DEF Reporting
  <2>3. ASSUME NEW methods \in SUBSET ({"GET"} \cup Writing),
               NEW raw \in BOOLEAN, NEW below \in {{}} \cup {{m} : m \in Writing},
               RoutesPass(methods, below, raw),
               Becomes(r, [run[r] EXCEPT !.step = "assess",
                                         !.facts = @ \cup {"expected_body"} \cup methods \cup below])
        PROVE  EvidenceInv'
    <3>1. run[r].facts \cup {"expected_body"} \cup methods \cup below = facts
      <4>1. methods = {"GET"} /\ below \subseteq {"GET"}
          BY <2>3 DEF RoutesPass
      <4> QED
          BY <2>1, <4>1
    <3>2. Becomes(r, [run[r] EXCEPT !.step = "assess", !.facts = facts])
        BY <2>3, <3>1
    <3>3. /\ Moved(r) /\ run'[r].step = "assess" /\ run'[r].facts = facts
          /\ run'[r].script = "frontend" /\ run'[r].date = run[r].date
          /\ run'[r].status = run[r].status
        BY <1>0, <1>3, <2>1, <3>2
    <3> QED
        BY <1>4, <2>1, <3>3 DEF Found, Owning, Reporting
  <2> QED
      BY <1>11, <2>2, <2>3 DEF FrontendExercise
<1>12. CASE FrontendAssess(r)
  <2>1. /\ run[r].step = "assess" /\ run[r].script = "frontend"
        /\ run[r].facts = {"expected_commit", "expected_body", "GET"}
      BY <1>12 DEF FrontendAssess, Is, Honest, Found
  <2>2. ASSUME NEW m \in {"path", "plain"}, Raise(r, m)
        PROVE  EvidenceInv'
      BY <1>0, <1>2, <2>1, <2>2 DEF Reporting
  <2>3. CASE Conclude(r, "passed")
    <3>1. /\ Moved(r) /\ run'[r].step = "write" /\ run'[r].script = "frontend"
          /\ run'[r].date = run[r].date /\ run'[r].facts = run[r].facts
        BY <1>0, <2>1, <2>3, ConcludeMoves
    <3>2. Earned(r)'
        BY <2>1, <3>1 DEF Earned
    <3> QED
        BY <1>5, <2>1, <3>1, <3>2 DEF Reporting
  <2> QED
      BY <1>12, <2>2, <2>3 DEF FrontendAssess
<1>13. CASE DurableFails(r)
  <2>1. run[r].step \notin Reporting \cup {"idle"}
      BY <1>13 DEF DurableFails, Reporting, Honest, Undecided
  <2> QED
      BY <1>0, <1>2, <1>13, <2>1 DEF DurableFails
<1>14. CASE DurableSeed(r)
  <2>1. run[r].step = "start" /\ run[r].script = "durable" /\ {"frozen"} \in SUBSET Facts
      BY <1>14 DEF DurableSeed, Is, Facts
  <2>2. CASE Raise(r, "plain")
      BY <1>0, <1>2, <2>1, <2>2 DEF Reporting
  <2>3. CASE Becomes(r, [run[r] EXCEPT !.step = "rehearse", !.facts = {"frozen"}])
    <3>1. /\ Moved(r) /\ run'[r].step = "rehearse" /\ run'[r].facts = {"frozen"}
          /\ run'[r].script = "durable" /\ run'[r].date = run[r].date
          /\ run'[r].status = run[r].status
        BY <1>0, <1>3, <2>1, <2>3
    <3> QED
        BY <1>4, <2>1, <3>1 DEF Found, Owning, Reporting
  <2> QED
      BY <1>14, <2>2, <2>3 DEF DurableSeed
<1>15. CASE DurableRehearse(r)
  <2>1. /\ run[r].step = "rehearse" /\ run[r].script = "durable" /\ run[r].facts = {"frozen"}
        /\ {"frozen", "rehearsed"} \in SUBSET Facts
      BY <1>15 DEF DurableRehearse, Is, Honest, Found, Facts
  <2>2. CASE Raise(r, "plain")
      BY <1>0, <1>2, <2>1, <2>2 DEF Reporting
  <2>3. CASE Becomes(r, [run[r] EXCEPT !.step = "readback", !.facts = @ \cup {"rehearsed"}])
    <3>1. run[r].facts \cup {"rehearsed"} = {"frozen", "rehearsed"}
        BY <2>1
    <3>2. /\ Moved(r) /\ run'[r].step = "readback" /\ run'[r].facts = {"frozen", "rehearsed"}
          /\ run'[r].script = "durable" /\ run'[r].date = run[r].date
          /\ run'[r].status = run[r].status
        BY <1>0, <1>3, <2>1, <2>3, <3>1
    <3> QED
        BY <1>4, <2>1, <3>2 DEF Found, Owning, Reporting
  <2> QED
      BY <1>15, <2>2, <2>3 DEF DurableRehearse
<1>16. CASE DurableReadBack(r)
  <2>1. /\ run[r].step = "readback" /\ run[r].script = "durable"
        /\ run[r].facts = {"frozen", "rehearsed"}
      BY <1>16 DEF DurableReadBack, Is, Honest, Found
  <2>2. CASE Raise(r, "plain")
      BY <1>0, <1>2, <2>1, <2>2 DEF Reporting
  <2>3. CASE Becomes(r, [run[r] EXCEPT !.step = "write", !.status = "passed",
                                       !.facts = @ \cup Records])
    <3> DEFINE facts == run[r].facts \cup Records
               record == [run[r] EXCEPT !.step = "write", !.status = "passed", !.facts = facts]
    <3>1. facts \in SUBSET Facts
        BY <2>1 DEF Facts
    <3>2. record \in RunRecord /\ Becomes(r, record)
        BY <1>0, <2>3, <3>1, RecordOfRun, Fields, WriteIsAStep
    <3>3. /\ record.step = "write" /\ record.facts = facts
          /\ record.date = run[r].date /\ record.script = run[r].script
        BY RecordOfRun DEF RunRecord
    <3> HIDE DEF record
    <3>4. Moved(r) /\ run'[r] = record
        BY <3>2, BecomesMoves
    <3>5. Earned(r)'
        BY <2>1, <3>3, <3>4 DEF Earned
    <3> QED
        BY <1>5, <2>1, <3>3, <3>4, <3>5 DEF Reporting
  <2> QED
      BY <1>16, <2>2, <2>3 DEF DurableReadBack
<1> QED
    BY <1>6, <1>7, <1>8, <1>9, <1>10, <1>11, <1>12, <1>13, <1>14, <1>15, <1>16 DEF OtherStep

-----------------------------------------------------------------------------
\* A step that may write a report, and only what the run has come to.
LEMMA ReportKeeps ==
    ASSUME EvidenceInv, NEW r \in Runs, run[r].step # "idle", Moved(r), UNCHANGED database,
           run'[r].status = run[r].status, run'[r].script = run[r].script,
           run'[r].date = run[r].date, run'[r].facts = run[r].facts,
           run'[r].shown = run[r].shown, run'[r].step \in {"markdown", "done"},
           run'[r].step = "markdown" => run[r].script \in {"reasoner", "frontend"},
           json' \in [Scripts \X Outs -> Report], markdown' \in [Scripts \X Outs -> Report],
           \A o \in Scripts \X Outs :
              json'[o] # json[o] => json'[o].run = r /\ json'[o].status = run[r].status
    PROVE  EvidenceInv'
<1>1. Alone(r) /\ UNCHANGED <<pending, accepted, cycle>>
    BY DEF EvidenceInv, EvidenceTypeOK, Alone, Moved, database, FrozenIsAccepted
<1>2. EvidenceTypeOK'
    BY <1>1 DEF EvidenceInv, EvidenceTypeOK, Alone
<1>3. Honest(r)'
  <2>1. Honest(r) /\ run[r].script \in Scripts
      BY RecordOfRun DEF EvidenceInv
  <2>2. Undecided(r)' /\ Found(r)'
      BY <2>1, CycleType DEF Honest, Undecided, Found, Owning, Reporting
  <2>3. run[r].status = "passed" => Earned(r)'
      BY <1>1, <2>1 DEF Honest, Earned, Frozen, Own, RelationsOf, Scripts
  <2> QED
      BY <2>2, <2>3 DEF Honest
<1>4. \A q \in Runs : Honest(q)'
    BY <1>1, <1>3, OthersKeep
<1>5. Written'
  <2> SUFFICES ASSUME NEW o \in Scripts \X Outs, json'[o].run # 0, json'[o].status = "passed"
               PROVE  run'[json'[o].run].status = "passed"
      BY DEF Written
  <2>1. CASE json'[o] = json[o]
    <3>1. run[json[o].run].status = "passed" /\ json[o].run \in Runs
        BY <2>1 DEF EvidenceInv, Written, EvidenceTypeOK, Report
    <3> QED
        BY <2>1, <3>1 DEF Moved
  <2>2. CASE json'[o] # json[o]
      BY <2>2
  <2> QED
      BY <2>1, <2>2
<1> QED
    BY <1>1, <1>2, <1>4, <1>5 DEF EvidenceInv, Alone

LEMMA EndMoves ==
    ASSUME EvidenceTypeOK, NEW r \in Runs, NEW code \in Nat, End(r, code)
    PROVE  /\ Moved(r) /\ run'[r].step = "done" /\ run'[r].status = run[r].status
           /\ run'[r].script = run[r].script /\ run'[r].date = run[r].date
           /\ run'[r].facts = run[r].facts /\ run'[r].shown = run[r].shown
<1> DEFINE record == [run[r] EXCEPT !.step = "done", !.exit = code]
<1>1. record \in RunRecord /\ Becomes(r, record)
    BY RecordOfRun, Fields, WriteIsAStep DEF End
<1>2. /\ record.step = "done" /\ record.status = run[r].status
      /\ record.script = run[r].script /\ record.date = run[r].date
      /\ record.facts = run[r].facts /\ record.shown = run[r].shown
    BY RecordOfRun DEF RunRecord
<1> HIDE DEF record
<1> QED
    BY <1>1, <1>2, BecomesMoves

\* A report, complete or not, is the run's own.
LEMMA ReportType ==
    ASSUME EvidenceTypeOK, NEW r \in Runs, NEW whole \in BOOLEAN
    PROVE  /\ Place(r) \in Scripts \X Outs
           /\ [run |-> r, status |-> run[r].status, whole |-> whole] \in Report
           /\ json \in [Scripts \X Outs -> Report] /\ markdown \in [Scripts \X Outs -> Report]
           /\ run[r].due \in Nat
BY RecordOfRun DEF Place, Report, EvidenceTypeOK, RunRecord

LEMMA TornFiles ==
    ASSUME EvidenceTypeOK, NEW r \in Runs, Torn(r) \/ UNCHANGED files
    PROVE  /\ json' \in [Scripts \X Outs -> Report] /\ markdown' \in [Scripts \X Outs -> Report]
           /\ \A o \in Scripts \X Outs :
                 json'[o] # json[o] => json'[o].run = r /\ json'[o].status = run[r].status
<1>1. CASE UNCHANGED files
    BY <1>1 DEF files, EvidenceTypeOK
<1>2. CASE Torn(r)
  <2>1. CASE /\ UNCHANGED markdown
             /\ json' = [json EXCEPT ![Place(r)] =
                             [run |-> r, status |-> run[r].status, whole |-> FALSE]]
      BY <2>1, ReportType
  <2>2. CASE /\ UNCHANGED json
             /\ markdown' = [markdown EXCEPT ![Place(r)] =
                                 [run |-> r, status |-> run[r].status, whole |-> FALSE]]
      BY <2>2, ReportType
  <2> QED
      BY <1>2, <2>1, <2>2 DEF Torn
<1> QED
    BY <1>1, <1>2

LEMMA RestKeeps ==
    ASSUME EvidenceInv, NEW r \in Runs, Start(r) \/ ReportStep(r) \/ Interrupt(r) \/ Kill(r)
    PROVE  EvidenceInv'
<1> USE DEF EvidenceInv
<1>1. CASE Start(r)
  <2>1. PICK s \in Started, d \in Dates, o \in Outs : Becomes(r, Fresh(s, d, o))
      BY <1>1 DEF Start
  <2>2. Fresh(s, d, o) \in RunRecord
      BY EvidenceBounds
      DEF Fresh, RunRecord, Steps, Statuses, Messages, NoExit
  <2>3. Moved(r) /\ run'[r] = Fresh(s, d, o)
      BY <2>1, <2>2, BecomesMoves
  <2>4. Honest(r)'
      BY <2>3 DEF Honest, Undecided, Found, Owning, Reporting, Fresh
  <2> QED
      BY <1>1, <2>3, <2>4, PrivateStepKeeps DEF Start, Reporting
<1>2. CASE RefuseReport(r)
  <2>1. End(r, 1) /\ run[r].step = "write" /\ UNCHANGED <<database, files>>
      BY <1>2 DEF RefuseReport
  <2> QED
      BY <2>1, EndMoves, ReportKeeps DEF files, EvidenceTypeOK
<1>3. CASE WriteJson(r)
  <2>1. /\ run[r].step = "write" /\ UNCHANGED <<database, markdown>>
        /\ json' = [json EXCEPT ![Place(r)] =
                        [run |-> r, status |-> run[r].status, whole |-> TRUE]]
      BY <1>3 DEF WriteJson
  <2>2. /\ json' \in [Scripts \X Outs -> Report] /\ markdown' \in [Scripts \X Outs -> Report]
        /\ \A o \in Scripts \X Outs :
              json'[o] # json[o] => json'[o].run = r /\ json'[o].status = run[r].status
      BY <2>1, ReportType
  <2>3. CASE run[r].script \in {"reasoner", "frontend"} /\ Goto(r, "markdown")
    <3> DEFINE record == [run[r] EXCEPT !.step = "markdown"]
    <3>1. record \in RunRecord /\ Becomes(r, record)
        BY <2>3, RecordOfRun, Fields DEF Goto, Steps
    <3>2. /\ record.step = "markdown" /\ record.status = run[r].status
          /\ record.script = run[r].script /\ record.date = run[r].date
          /\ record.facts = run[r].facts /\ record.shown = run[r].shown
        BY RecordOfRun DEF RunRecord
    <3> HIDE DEF record
    <3>3. Moved(r) /\ run'[r] = record
        BY <3>1, BecomesMoves
    <3> QED
        BY <2>1, <2>2, <2>3, <3>2, <3>3, ReportKeeps
  <2>4. CASE End(r, run[r].due)
    <3>1. run[r].due \in Nat
        BY ReportType
    <3> QED
        BY <2>1, <2>2, <2>4, <3>1, EndMoves, ReportKeeps
  <2> QED
      BY <1>3, <2>3, <2>4 DEF WriteJson
<1>4. CASE WriteMarkdown(r)
  <2>1. /\ run[r].step = "markdown" /\ UNCHANGED <<database, json>> /\ End(r, run[r].due)
        /\ markdown' = [markdown EXCEPT ![Place(r)] =
                            [run |-> r, status |-> run[r].status, whole |-> TRUE]]
      BY <1>4 DEF WriteMarkdown
  <2>2. markdown' \in [Scripts \X Outs -> Report] /\ json' \in [Scripts \X Outs -> Report]
      BY <2>1, ReportType
  <2>3. run[r].due \in Nat
      BY ReportType
  <2> QED
      BY <2>1, <2>2, <2>3, EndMoves, ReportKeeps
<1>5. CASE WriteFails(r)
  <2>1. Torn(r) /\ End(r, 1) /\ UNCHANGED database /\ run[r].step # "idle"
      BY <1>5 DEF WriteFails, Torn
  <2> QED
      BY <2>1, TornFiles, EndMoves, ReportKeeps
<1>6. CASE Interrupt(r)
  <2>1. /\ run[r].step \notin Reporting \cup {"idle"} /\ UNCHANGED <<database, files>>
        /\ End(r, 130) \/ Becomes(r, [run[r] EXCEPT !.step = "write", !.due = 130])
      BY <1>6 DEF Interrupt, Reporting
  <2>2. CASE End(r, 130)
      BY <2>1, <2>2, TornFiles, EndMoves, ReportKeeps
  <2>3. CASE Becomes(r, [run[r] EXCEPT !.step = "write", !.due = 130])
    <3> DEFINE record == [run[r] EXCEPT !.step = "write", !.due = 130]
    <3>1. record \in RunRecord /\ Becomes(r, record)
        BY <2>3, RecordOfRun, Fields, WriteIsAStep
    <3>2. record.step = "write" /\ record.status = run[r].status /\ record.date = run[r].date
        BY RecordOfRun DEF RunRecord
    <3> HIDE DEF record
    <3>3. Moved(r) /\ run'[r] = record
        BY <3>1, BecomesMoves
    <3>4. Honest(r)'
        BY <2>1, <3>2, <3>3, FailedIsHonest
    <3> QED
        BY <2>1, <3>3, <3>4, PrivateStepKeeps
  <2> QED
      BY <2>1, <2>2, <2>3
<1>7. CASE Kill(r)
  <2>1. /\ Torn(r) \/ UNCHANGED files
        /\ End(r, 137) /\ UNCHANGED database /\ run[r].step # "idle"
      BY <1>7 DEF Kill, Killed
  <2> QED
      BY <2>1, TornFiles, EndMoves, ReportKeeps
<1> QED
    BY <1>1, <1>2, <1>3, <1>4, <1>5, <1>6, <1>7 DEF ReportStep

LEMMA StepInv == EvidenceInv /\ [EvidenceNext]_vars => EvidenceInv'
<1> SUFFICES ASSUME EvidenceInv, [EvidenceNext]_vars
             PROVE  EvidenceInv'
    OBVIOUS
<1>1. ASSUME NEW r \in Runs,
             \/ Start(r) \/ QueueStep(r) \/ HoldingsStep(r) \/ OtherStep(r) \/ ReportStep(r)
             \/ Interrupt(r) \/ Kill(r)
      PROVE  EvidenceInv'
    BY <1>1, QueueKeeps, HoldingsKeeps, OtherKeeps, RestKeeps
<1>2. CASE UNCHANGED vars
    BY <1>2 DEF vars, database, files, EvidenceInv, EvidenceTypeOK, FrozenIsAccepted, Written,
                Honest, Undecided, Found, Owning, Earned, Frozen, Own, RelationsOf
<1> QED
    BY <1>1, <1>2 DEF EvidenceNext

\* The invariant on which the theorems below rest.
THEOREM EvidenceInvariant == EvidenceSpec => []EvidenceInv
BY InitInv, StepInv, PTL DEF EvidenceSpec

\* Every run, the database and the reports always have their types.
THEOREM EvidenceTypes == EvidenceSpec => []EvidenceTypeOK
<1>1. EvidenceInv => EvidenceTypeOK
    BY DEF EvidenceInv
<1> QED
    BY <1>1, EvidenceInvariant, PTL

\* A complete report that says passed is of a run that has proven its claim, however many runs
\* share the queue and whatever they freeze (PassIsEarned).
THEOREM PassesAreEarned == EvidenceSpec => []PassIsEarned
<1>1. EvidenceInv => PassIsEarned
  <2> SUFFICES ASSUME EvidenceInv, NEW o \in Scripts \X Outs,
                      json[o].status = "passed", json[o].run # 0
               PROVE  Earned(json[o].run)
      BY DEF PassIsEarned
  <2>1. json[o].run \in Runs /\ run[json[o].run].status = "passed"
      BY DEF EvidenceInv, EvidenceTypeOK, Report, Written
  <2> QED
      BY <2>1 DEF EvidenceInv, Honest
<1> QED
    BY <1>1, EvidenceInvariant, PTL

-----------------------------------------------------------------------------
(***************************************************************************)
(* Exit codes.  A run at its report that is due to end with 0 has a good   *)
(* status; a run that has written its JSON report finds it unchanged when  *)
(* it writes the Markdown beside it, since no other run has its files.     *)
(***************************************************************************)
Good      == {"passed", "dry_run_ready"}
Active(r) == run[r].step \notin {"idle", "done"}

\* The complete report of a run.
Whole(r) == [run |-> r, status |-> run[r].status, whole |-> TRUE]

DueIsTrue(r) ==
    /\ run[r].step \in {"write", "markdown"} /\ run[r].due = 0 => run[r].status \in Good
    /\ run[r].step = "markdown" => json[Place(r)] = Whole(r)

OwnFiles == \A q, r \in Runs : q # r /\ Active(q) /\ Active(r) => Place(q) # Place(r)

Closing == OwnFiles /\ \A r \in Runs : DueIsTrue(r)

\* A run that goes on towards its report.
Proceeds(r) ==
    /\ \A q \in Runs : q # r => run'[q] = run[q]
    /\ run'[r].script = run[r].script /\ run'[r].out = run[r].out
    /\ run'[r].exit = run[r].exit
    /\ run'[r].step \notin {"idle", "markdown", "done"}
    /\ run'[r].step = "write" /\ run'[r].due = 0 => run'[r].status \in Good

LEMMA GotoProceeds ==
    ASSUME EvidenceTypeOK, NEW r \in Runs, NEW step, Goto(r, step),
           step \notin {"idle", "write", "markdown", "done"}
    PROVE  Proceeds(r)
BY RecordOfRun DEF Goto, Becomes, RunRecord, Proceeds

LEMMA RaiseProceeds ==
    ASSUME EvidenceTypeOK, NEW r \in Runs, NEW m, Raise(r, m)
    PROVE  Proceeds(r)
BY RecordOfRun DEF Raise, Becomes, RunRecord, Proceeds

LEMMA RefuseProceeds ==
    ASSUME EvidenceTypeOK, NEW r \in Runs, NEW code, Refuse(r, code)
    PROVE  Proceeds(r)
BY RecordOfRun DEF Refuse, Becomes, RunRecord, Proceeds

LEMMA ConcludeProceeds ==
    ASSUME EvidenceTypeOK, NEW r \in Runs, NEW status, Conclude(r, status)
    PROVE  Proceeds(r)
BY RecordOfRun DEF Conclude, Becomes, RunRecord, Proceeds, Good

\* A run that has found all it claims passes.
LEMMA PassProceeds ==
    ASSUME EvidenceTypeOK, NEW r \in Runs, NEW shown,
           Becomes(r, [run[r] EXCEPT !.shown = shown, !.step = "write", !.status = "passed"])
    PROVE  Proceeds(r)
BY RecordOfRun DEF Becomes, RunRecord, Proceeds, Good

LEMMA QueueProceeds ==
    ASSUME EvidenceInv, NEW r \in Runs, QueueStep(r)
    PROVE  Proceeds(r) /\ Active(r) /\ run[r].step # "markdown" /\ UNCHANGED files
<1>0. EvidenceTypeOK
    BY DEF EvidenceInv
<1>1. /\ Active(r) /\ UNCHANGED files
      /\ run[r].script = "queue"
    BY DEF QueueStep, QueueFails, QueueCreateCycle, QueueSubmit, QueueValidate, QueueFreeze,
           QueueEvidence, QueuePromote, Is, Active
<1>2. \/ Raise(r, "plain")
      \/ \E step \in {"submit", "validate", "freeze", "evidence", "promote"} : Goto(r, step)
      \/ \E plan \in SUBSET Frozen(r) :
             Becomes(r, [run[r] EXCEPT !.shown = plan, !.step = "write", !.status = "passed"])
    BY DEF QueueStep, QueueFails, QueueCreateCycle, QueueSubmit, QueueValidate, QueueFreeze,
           QueueEvidence, QueuePromote
<1>3. run[r].step # "markdown"
    BY <1>1 DEF EvidenceInv, Honest, Undecided
<1> QED
    BY <1>0, <1>1, <1>2, <1>3, RaiseProceeds, GotoProceeds, PassProceeds

LEMMA HoldingsProceeds ==
    ASSUME EvidenceInv, NEW r \in Runs, HoldingsStep(r)
    PROVE  Proceeds(r) /\ Active(r) /\ run[r].step # "markdown" /\ UNCHANGED files
<1>0. EvidenceTypeOK
    BY DEF EvidenceInv
<1>1. /\ Active(r) /\ UNCHANGED files
      /\ run[r].script = "holdings"
    BY DEF HoldingsStep, Preflight, HoldingsFails, HoldingsSubmit, HoldingsAccept,
           HoldingsCreateCycle, HoldingsFreeze, HoldingsRead, HoldingsGraph, Is, Active
<1>2. \/ Raise(r, "plain") \/ Refuse(r, 3) \/ Refuse(r, 4) \/ Conclude(r, "dry_run_ready")
      \/ \E step \in {"submit", "accept", "cycle", "freeze", "read", "graph"} : Goto(r, step)
      \/ Becomes(r, [run[r] EXCEPT !.step = "write", !.refusal = 2, !.named = TRUE,
                                   !.message = "plain", !.due = 2])
      \/ \E edges \in SUBSET Frozen(r) :
             Becomes(r, [run[r] EXCEPT !.shown = edges, !.step = "write", !.status = "passed"])
    BY DEF HoldingsStep, Preflight, HoldingsFails, HoldingsSubmit, HoldingsAccept, Require,
           HoldingsCreateCycle, HoldingsFreeze, HoldingsRead, HoldingsGraph
<1>3. run[r].step # "markdown"
    BY <1>1 DEF EvidenceInv, Honest, Undecided
<1>4. Becomes(r, [run[r] EXCEPT !.step = "write", !.refusal = 2, !.named = TRUE,
                                !.message = "plain", !.due = 2]) => Proceeds(r)
    BY <1>0, RecordOfRun DEF Becomes, RunRecord, Proceeds
<1> QED
    BY <1>0, <1>1, <1>2, <1>3, <1>4, RaiseProceeds, RefuseProceeds, ConcludeProceeds,
       GotoProceeds, PassProceeds

LEMMA OtherProceeds ==
    ASSUME EvidenceInv, NEW r \in Runs, OtherStep(r)
    PROVE  Proceeds(r) /\ Active(r) /\ run[r].step # "markdown" /\ UNCHANGED files
<1>0. EvidenceTypeOK
    BY DEF EvidenceInv
<1>1. CASE DurableFails(r)
  <2>1. Active(r) /\ UNCHANGED files /\ run[r].script = "durable" /\ Raise(r, "plain")
      BY <1>1 DEF DurableFails, Active
  <2>2. run[r].step # "markdown"
      BY <2>1 DEF EvidenceInv, Honest, Undecided
  <2> QED
      BY <1>0, <2>1, <2>2, RaiseProceeds
<1>2. CASE ~DurableFails(r)
  <2>1. /\ Active(r) /\ UNCHANGED files /\ run[r].step # "markdown"
      BY <1>2 DEF OtherStep, ReasonerFails, ReasonerBuild, ReasonerConsume, ReasonerScan,
             FrontendVerify, FrontendExercise, FrontendAssess,
             DurableSeed, DurableRehearse, DurableReadBack, Is, Active
  <2>2. CASE ReasonerFails(r)
      BY <1>0, <2>1, <2>2, RaiseProceeds DEF ReasonerFails
  <2>3. CASE ReasonerBuild(r)
    <3>1. Raise(r, "plain") \/ Becomes(r, [run[r] EXCEPT !.step = "consume", !.facts = Schemas])
        BY <2>3 DEF ReasonerBuild
    <3>2. Becomes(r, [run[r] EXCEPT !.step = "consume", !.facts = Schemas]) => Proceeds(r)
        BY <1>0, RecordOfRun DEF Becomes, RunRecord, Proceeds
    <3> QED
        BY <1>0, <2>1, <3>1, <3>2, RaiseProceeds
  <2>4. CASE ReasonerConsume(r)
    <3>1. \/ Raise(r, "plain")
          \/ \E facts : Becomes(r, [run[r] EXCEPT !.step = "scan", !.facts = facts])
        BY <2>4 DEF ReasonerConsume
    <3>2. ASSUME NEW facts, Becomes(r, [run[r] EXCEPT !.step = "scan", !.facts = facts])
          PROVE  Proceeds(r)
        BY <1>0, <3>2, RecordOfRun DEF Becomes, RunRecord, Proceeds
    <3> QED
        BY <1>0, <2>1, <3>1, <3>2, RaiseProceeds
  <2>5. CASE ReasonerScan(r)
    <3>1. PICK tree \in Trees :
              Becomes(r, [run[r] EXCEPT !.step = "write", !.status = ScanVerdict(tree),
                                        !.facts = @ \cup {tree},
                                        !.due = IF ScanVerdict(tree) = "passed" THEN 0 ELSE 1])
        BY <2>5 DEF ReasonerScan
    <3> HIDE DEF ScanVerdict
    <3> QED
        BY <1>0, <2>1, <3>1, RecordOfRun DEF Becomes, RunRecord, Proceeds, Good
  <2>6. CASE FrontendVerify(r)
    <3>1. \/ \E m : Raise(r, m)
          \/ \E facts : Becomes(r, [run[r] EXCEPT !.step = "exercise", !.facts = facts])
        BY <2>6 DEF FrontendVerify
    <3>2. ASSUME NEW facts, Becomes(r, [run[r] EXCEPT !.step = "exercise", !.facts = facts])
          PROVE  Proceeds(r)
        BY <1>0, <3>2, RecordOfRun DEF Becomes, RunRecord, Proceeds
    <3> QED
        BY <1>0, <2>1, <3>1, <3>2, RaiseProceeds
  <2>7. CASE FrontendExercise(r)
    <3>1. \/ Raise(r, "plain")
          \/ \E facts : Becomes(r, [run[r] EXCEPT !.step = "assess", !.facts = facts])
        BY <2>7 DEF FrontendExercise
    <3>2. ASSUME NEW facts, Becomes(r, [run[r] EXCEPT !.step = "assess", !.facts = facts])
          PROVE  Proceeds(r)
        BY <1>0, <3>2, RecordOfRun DEF Becomes, RunRecord, Proceeds
    <3> QED
        BY <1>0, <2>1, <3>1, <3>2, RaiseProceeds
  <2>8. CASE FrontendAssess(r)
      BY <1>0, <2>1, <2>8, RaiseProceeds, ConcludeProceeds DEF FrontendAssess
  <2>9. CASE DurableSeed(r)
    <3>1. Raise(r, "plain") \/ Becomes(r, [run[r] EXCEPT !.step = "rehearse", !.facts = {"frozen"}])
        BY <2>9 DEF DurableSeed
    <3>2. Becomes(r, [run[r] EXCEPT !.step = "rehearse", !.facts = {"frozen"}]) => Proceeds(r)
        BY <1>0, RecordOfRun DEF Becomes, RunRecord, Proceeds
    <3> QED
        BY <1>0, <2>1, <3>1, <3>2, RaiseProceeds
  <2>10. CASE DurableRehearse(r)
    <3>1. \/ Raise(r, "plain")
          \/ \E facts : Becomes(r, [run[r] EXCEPT !.step = "readback", !.facts = facts])
        BY <2>10 DEF DurableRehearse
    <3>2. ASSUME NEW facts, Becomes(r, [run[r] EXCEPT !.step = "readback", !.facts = facts])
          PROVE  Proceeds(r)
        BY <1>0, <3>2, RecordOfRun DEF Becomes, RunRecord, Proceeds
    <3> QED
        BY <1>0, <2>1, <3>1, <3>2, RaiseProceeds
  <2>11. CASE DurableReadBack(r)
    <3>1. \/ Raise(r, "plain")
          \/ Becomes(r, [run[r] EXCEPT !.step = "write", !.status = "passed",
                                        !.facts = @ \cup Records])
        BY <2>11 DEF DurableReadBack
    <3>2. Becomes(r, [run[r] EXCEPT !.step = "write", !.status = "passed",
                                    !.facts = @ \cup Records]) => Proceeds(r)
        BY <1>0, RecordOfRun DEF Becomes, RunRecord, Proceeds, Good
    <3> QED
        BY <1>0, <2>1, <3>1, <3>2, RaiseProceeds
  <2> QED
      BY <1>2, <2>2, <2>3, <2>4, <2>5, <2>6, <2>7, <2>8, <2>9, <2>10, <2>11 DEF OtherStep
<1> QED
    BY <1>1, <1>2

LEMMA ProceedsKeeps ==
    ASSUME EvidenceInv, Closing, NEW r \in Runs, Active(r), run[r].step # "markdown",
           Proceeds(r), UNCHANGED files
    PROVE  Closing'
<1>1. OwnFiles'
    BY DEF Closing, OwnFiles, Active, Proceeds, Place
<1>2. ASSUME NEW q \in Runs
      PROVE  DueIsTrue(q)'
    BY DEF Closing, DueIsTrue, Proceeds, Place, Whole, files
<1> QED
    BY <1>1, <1>2 DEF Closing

\* A run that ends.
LEMMA Ends ==
    ASSUME EvidenceTypeOK, NEW r \in Runs, NEW code, End(r, code)
    PROVE  /\ \A q \in Runs : q # r => run'[q] = run[q]
           /\ run'[r].step = "done" /\ run'[r].exit = code
BY RecordOfRun DEF End, Becomes, RunRecord

\* Its last write, whole or torn, is to no other run's files.
LEMMA EndKeepsClosing ==
    ASSUME EvidenceInv, Closing, NEW r \in Runs, Active(r), NEW code, End(r, code),
           \A o \in Scripts \X Outs : o # Place(r) => json'[o] = json[o]
    PROVE  Closing'
<1>1. /\ \A q \in Runs : q # r => run'[q] = run[q]
      /\ run'[r].step = "done"
    BY Ends DEF EvidenceInv
<1>2. OwnFiles'
    BY <1>1 DEF Closing, OwnFiles, Active, Place
<1>3. ASSUME NEW q \in Runs
      PROVE  DueIsTrue(q)'
  <2>1. CASE q = r
      BY <1>1, <2>1 DEF DueIsTrue
  <2>2. CASE q # r
    <3>1. Active(q) => Place(q) # Place(r)
        BY <2>2 DEF Closing, OwnFiles
    <3>2. Place(q) \in Scripts \X Outs
        BY RecordOfRun DEF Place, EvidenceInv
    <3> QED
        BY <1>1, <2>2, <3>1, <3>2 DEF Closing, DueIsTrue, Active, Place, Whole
  <2> QED
      BY <2>1, <2>2
<1> QED
    BY <1>2, <1>3 DEF Closing

LEMMA TornPlace ==
    ASSUME EvidenceInv, NEW r \in Runs, Torn(r) \/ UNCHANGED files
    PROVE  \A o \in Scripts \X Outs : o # Place(r) => json'[o] = json[o]
BY DEF EvidenceInv, EvidenceTypeOK, Torn, files

LEMMA StartKeepsClosing ==
    ASSUME EvidenceInv, Closing, NEW r \in Runs, Start(r)
    PROVE  Closing'
<1>1. PICK s \in Started, d \in Dates, o \in Outs :
          /\ \A q \in Runs : run[q].script = s /\ run[q].out = o => run[q].step \in {"idle", "done"}
          /\ Becomes(r, Fresh(s, d, o))
    BY DEF Start
<1>2. /\ \A q \in Runs : q # r => run'[q] = run[q]
      /\ run'[r] = Fresh(s, d, o)
    BY <1>1 DEF Becomes, EvidenceInv, EvidenceTypeOK
<1>3. run'[r].step = "start" /\ run'[r].script = s /\ run'[r].out = o
    BY <1>2 DEF Fresh
<1>4. UNCHANGED files
    BY DEF Start
<1>5. OwnFiles'
    BY <1>1, <1>2, <1>3 DEF Closing, OwnFiles, Active, Place
<1>6. ASSUME NEW q \in Runs
      PROVE  DueIsTrue(q)'
    BY <1>2, <1>3, <1>4 DEF Closing, DueIsTrue, Place, Whole, files
<1> QED
    BY <1>5, <1>6 DEF Closing

LEMMA WriteJsonKeepsClosing ==
    ASSUME EvidenceInv, Closing, NEW r \in Runs, WriteJson(r)
    PROVE  Closing'
<1>1. /\ run[r].step = "write" /\ Active(r) /\ json' = [json EXCEPT ![Place(r)] = Whole(r)]
      /\ Goto(r, "markdown") \/ End(r, run[r].due)
    BY DEF WriteJson, Active, Whole
<1>2. /\ \A o \in Scripts \X Outs : o # Place(r) => json'[o] = json[o]
      /\ json'[Place(r)] = Whole(r)
    BY <1>1, ReportType DEF EvidenceInv
<1>3. CASE End(r, run[r].due)
    BY <1>1, <1>2, <1>3, EndKeepsClosing
<1>4. CASE Goto(r, "markdown")
  <2>1. /\ \A q \in Runs : q # r => run'[q] = run[q]
        /\ run'[r].step = "markdown" /\ run'[r].script = run[r].script
        /\ run'[r].out = run[r].out /\ run'[r].status = run[r].status
        /\ run'[r].due = run[r].due
      BY <1>4, RecordOfRun DEF Goto, Becomes, EvidenceInv, RunRecord
  <2>2. OwnFiles'
      BY <1>1, <2>1 DEF Closing, OwnFiles, Active, Place
  <2>3. ASSUME NEW q \in Runs, q # r
        PROVE  DueIsTrue(q)'
    <3>1. Active(q) => Place(q) # Place(r)
        BY <1>1, <2>3 DEF Closing, OwnFiles
    <3>2. Place(q) \in Scripts \X Outs
        BY RecordOfRun DEF Place, EvidenceInv
    <3> QED
        BY <1>2, <2>1, <2>3, <3>1, <3>2 DEF Closing, DueIsTrue, Active, Place, Whole
  <2>4. DueIsTrue(r)'
      BY <1>1, <1>2, <2>1 DEF Closing, DueIsTrue, Place, Whole
  <2> QED
      BY <2>2, <2>3, <2>4 DEF Closing
<1> QED
    BY <1>1, <1>3, <1>4

\* How a run ends with a code, and that each other step of a run that has started proceeds.
LEMMA StepsOfRuns ==
    ASSUME EvidenceInv, NEW r \in Runs,
           QueueStep(r) \/ HoldingsStep(r) \/ OtherStep(r) \/ Interrupt(r)
           \/ RefuseReport(r) \/ WriteFails(r) \/ Kill(r)
    PROVE  \/ Proceeds(r) /\ Active(r) /\ run[r].step # "markdown" /\ UNCHANGED files
           \/ /\ Active(r) /\ \E code \in Nat \ {0} : End(r, code)
              /\ Torn(r) \/ UNCHANGED files
<1>1. CASE QueueStep(r) \/ HoldingsStep(r) \/ OtherStep(r)
    BY <1>1, QueueProceeds, HoldingsProceeds, OtherProceeds
<1>2. CASE Interrupt(r)
  <2>1. Active(r) /\ run[r].step # "markdown" /\ UNCHANGED files
      BY <1>2 DEF Interrupt, Active
  <2>2. End(r, 130) \/ Becomes(r, [run[r] EXCEPT !.step = "write", !.due = 130])
      BY <1>2 DEF Interrupt
  <2>3. Becomes(r, [run[r] EXCEPT !.step = "write", !.due = 130]) => Proceeds(r)
      BY RecordOfRun DEF EvidenceInv, Becomes, RunRecord, Proceeds
  <2> QED
      BY <2>1, <2>2, <2>3
<1>3. CASE RefuseReport(r)
    BY <1>3 DEF RefuseReport, Active
<1>4. CASE WriteFails(r)
    BY <1>4 DEF WriteFails, Torn, Active
<1>5. CASE Kill(r)
    BY <1>5 DEF Kill, Killed, Active
<1> QED
    BY <1>1, <1>2, <1>3, <1>4, <1>5

LEMMA StepClosing == EvidenceInv /\ Closing /\ [EvidenceNext]_vars => Closing'
<1> SUFFICES ASSUME EvidenceInv, Closing, [EvidenceNext]_vars
             PROVE  Closing'
    OBVIOUS
<1>1. ASSUME NEW r \in Runs,
             QueueStep(r) \/ HoldingsStep(r) \/ OtherStep(r) \/ Interrupt(r)
             \/ RefuseReport(r) \/ WriteFails(r) \/ Kill(r)
      PROVE  Closing'
    BY <1>1, StepsOfRuns, ProceedsKeeps, EndKeepsClosing, TornPlace
<1>2. ASSUME NEW r \in Runs, WriteMarkdown(r)
      PROVE  Closing'
  <2>1. Active(r) /\ End(r, run[r].due) /\ UNCHANGED json
      BY <1>2 DEF WriteMarkdown, Active
  <2> QED
      BY <2>1, EndKeepsClosing
<1>3. CASE UNCHANGED vars
    BY <1>3 DEF vars, files, Closing, OwnFiles, Active, Place, DueIsTrue, Whole
<1> QED
    BY <1>1, <1>2, <1>3, StartKeepsClosing, WriteJsonKeepsClosing DEF EvidenceNext, ReportStep

\* Runs that are on at once have files of their own, and what a run is due to end with stands
\* for its status.
THEOREM ClosingInvariant == EvidenceSpec => []Closing
<1>1. EvidenceInit => Closing
    BY DEF EvidenceInit, Closing, OwnFiles, Active, DueIsTrue, Fresh
<1>2. EvidenceInv /\ Closing /\ [EvidenceNext]_vars => Closing'
    BY StepClosing
<1> QED
    BY <1>1, <1>2, EvidenceInvariant, PTL DEF EvidenceSpec

\* For any number of runs, a run that ends with 0 has left a complete report of its own that
\* says so, and a Markdown report beside it that says the same (write_reports).
THEOREM ZeroLeavesEvidence == EvidenceSpec => ZeroHasEvidence
<1> DEFINE Left(r) ==
               LET left == json'[Place(r)]
               IN  /\ left.run = r /\ left.whole /\ left.status \in {"passed", "dry_run_ready"}
                   /\ run[r].script \in {"reasoner", "frontend"} => markdown'[Place(r)] = left
           Told == \A r \in Runs : run'[r].exit = 0 /\ run[r].exit # 0 => Left(r)
<1>1. ASSUME EvidenceInv, Closing, EvidenceNext, NEW r \in Runs,
             run'[r].exit = 0, run[r].exit # 0
      PROVE  Left(r)
  <2> HIDE DEF Left
  <2>1. PICK q \in Runs :
            \/ Start(q) \/ QueueStep(q) \/ HoldingsStep(q) \/ OtherStep(q) \/ ReportStep(q)
            \/ Interrupt(q) \/ Kill(q)
      BY <1>1 DEF EvidenceNext, vars
  <2>2. ASSUME QueueStep(q) \/ HoldingsStep(q) \/ OtherStep(q) \/ Interrupt(q)
               \/ RefuseReport(q) \/ WriteFails(q) \/ Kill(q)
        PROVE  FALSE
      BY <1>1, <2>2, StepsOfRuns, Ends DEF Proceeds, EvidenceInv
  <2>3. ~Start(q)
    <3>1. ASSUME Start(q) PROVE FALSE
      <4>1. PICK s, d, o : Becomes(q, Fresh(s, d, o))
          BY <3>1 DEF Start
      <4>2. Fresh(s, d, o).exit # 0
          BY DEF Fresh, NoExit
      <4> QED
          BY <1>1, <4>1, <4>2 DEF Becomes, EvidenceInv, EvidenceTypeOK
    <3> QED
        BY <3>1
  <2>4. CASE WriteJson(q)
    <3>1. /\ run[q].step = "write" /\ json' = [json EXCEPT ![Place(q)] = Whole(q)]
          /\ IF run[q].script \in {"reasoner", "frontend"} THEN Goto(q, "markdown")
             ELSE End(q, run[q].due)
        BY <2>4 DEF WriteJson, Whole
    <3>2. json'[Place(q)] = Whole(q)
        BY <1>1, <3>1, ReportType DEF EvidenceInv
    <3>3. ~Goto(q, "markdown")
        BY <1>1, RecordOfRun DEF Goto, Becomes, EvidenceInv, RunRecord
    <3>4. q = r /\ run[r].due = 0
        BY <1>1, <3>1, <3>3, Ends DEF EvidenceInv
    <3> QED
        BY <1>1, <3>1, <3>2, <3>3, <3>4 DEF Left, Closing, DueIsTrue, Whole, Good
  <2>5. CASE WriteMarkdown(q)
    <3>1. /\ run[q].step = "markdown" /\ UNCHANGED json /\ End(q, run[q].due)
          /\ markdown' = [markdown EXCEPT ![Place(q)] = Whole(q)]
        BY <2>5 DEF WriteMarkdown, Whole
    <3>2. markdown'[Place(q)] = Whole(q)
        BY <1>1, <3>1, ReportType DEF EvidenceInv
    <3>3. q = r /\ run[r].due = 0
        BY <1>1, <3>1, Ends DEF EvidenceInv
    <3> QED
        BY <1>1, <3>1, <3>2, <3>3 DEF Left, Closing, DueIsTrue, Whole, Good
  <2> QED
      BY <2>1, <2>2, <2>3, <2>4, <2>5 DEF ReportStep
<1>2. EvidenceInv /\ Closing /\ [EvidenceNext]_vars => [Told]_vars
    BY <1>1
<1> QED
    BY <1>2, EvidenceInvariant, ClosingInvariant, PTL DEF EvidenceSpec, ZeroHasEvidence
=============================================================================
