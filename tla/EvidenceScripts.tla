---------------------------- MODULE EvidenceScripts ----------------------------
(***************************************************************************)
(* The one-shot proof scripts of src/scripts that leave a report for a     *)
(* milestone: the queue promotion proof (M4.4) and the holdings proof,     *)
(* which share the candidate queue and the cycles of one data-platform     *)
(* database; the reasoner and frontend proofs (M4.5, M4.6), which inspect  *)
(* other checkouts; and the P2 dry run, which has a database of its own.   *)
(* A run is one process.  The data platform, the graph engine and the      *)
(* checkouts are external.                                                 *)
(***************************************************************************)
EXTENDS Integers, FiniteSets

CONSTANTS
    MaxRuns,      \* runs of scripts; a bound
    Started,      \* the scripts that are run
    Dates,        \* cycle dates
    WorkerLimit,  \* candidates that one call of the queue worker decides
    Leftovers     \* candidates that earlier work has left in the queue

Runs    == 1..MaxRuns
Scripts == {"queue", "holdings", "reasoner", "frontend", "durable"}

Holdings  == {"CO_HOLDING", "NORTHBOUND_HOLD"}
Relations == Holdings \cup {"SUPPLY_CHAIN"}

\* A candidate of the shared queue, by a run, or by earlier work, which is 0.
Candidate == [by : Runs \cup {0}, relation : Relations]

ASSUME EvidenceBounds ==
    /\ MaxRuns \in Nat /\ WorkerLimit \in Nat
    /\ Started \subseteq Scripts
    /\ Leftovers \subseteq Candidate

VARIABLES
    run,       \* the runs
    pending,   \* candidates that the worker has not decided
    accepted,  \* candidates that it has accepted
    cycle,     \* per date: who made the cycle and what is frozen into it
    json,      \* the JSON report per script and --out
    markdown   \* the Markdown report beside it

database == <<pending, accepted, cycle>>
files    == <<json, markdown>>
vars     == <<run, database, files>>

NoDate   == "none"
NoOne    == -1
NoExit   == -1
Killed   == 137
Outs     == {1, 2}
Statuses == {"failed", "blocked", "passed", "dry_run_ready"}

\* What the text of an error still holds once it has been redacted: a path below one of the
\* prefixes that are forbidden, or a bearer marker whose token a second redaction would change.
Messages == {"none", "plain", "path", "bearer"}

Steps == {"idle", "start", "submit", "validate", "accept", "cycle", "freeze", "evidence",
          "promote", "read", "graph", "consume", "scan", "exercise", "assess", "rehearse",
          "readback", "write", "markdown", "done"}

\* What the three scripts look at outside the database: schemas of the contracts, keys of the
\* reasoner's input, the source tree of the runtime, the frontend's checkout and response, and
\* the records of the Dagster job.
Schemas   == {"Ex3CandidateGraphDelta", "CandidateGraphDelta"}
GraphKeys == {"ex3_graph_signals", "same_cycle_ex3_graph_signals"}
Trees     == {"missing", "no_directory", "empty", "forbidden", "clean"}
Checkouts == {"missing", "no_source", "other_commit", "expected_commit"}
Bodies    == {"error", "other_body", "expected_body"}
Records   == {"audit", "replay"}

Writing   == {"POST", "PUT", "PATCH", "DELETE"}

Facts == Schemas \cup GraphKeys \cup Trees \cup Checkouts \cup Bodies \cup {"GET"} \cup Writing
            \cup {"frozen", "rehearsed"} \cup Records

RunRecord ==
    [script : Scripts, date : Dates \cup {NoDate}, out : Outs, step : Steps,
     shown   : SUBSET Candidate,  \* candidates that the graph engine has promoted
     facts   : SUBSET Facts,     \* what the run has found to hold outside the database
     status  : Statuses,          \* status in the report
     message : Messages,          \* text of the error that ended the proof
     refusal : {0, 2, 3, 4},      \* exit code of the ProofError that ended it
     named   : BOOLEAN,           \* the report names that refusal
     due     : Nat,               \* exit code, if the report can be written
     exit    : Nat \cup {NoExit}]

Report == [run : Runs \cup {0}, status : Statuses, whole : BOOLEAN]

EvidenceTypeOK ==
    /\ run \in [Runs -> RunRecord]
    /\ pending \subseteq Candidate /\ accepted \subseteq Candidate
    /\ cycle \in [Dates -> [by : Runs \cup {0, NoOne}, frozen : SUBSET Candidate]]
    /\ json \in [Scripts \X Outs -> Report] /\ markdown \in [Scripts \X Outs -> Report]

Fresh(s, d, o) ==
    [script |-> s, date |-> d, out |-> o, step |-> "start", shown |-> {}, facts |-> {},
     status |-> "failed", message |-> "none", refusal |-> 0, named |-> FALSE,
     due |-> 0, exit |-> NoExit]

\* The reports of an earlier run that has passed are there.
Earlier == [o \in Scripts \X Outs |-> [run |-> 0, status |-> "passed", whole |-> TRUE]]

EvidenceInit ==
    /\ run = [r \in Runs |-> [Fresh("queue", NoDate, 1) EXCEPT !.step = "idle"]]
    /\ pending \in SUBSET Leftovers /\ accepted = Leftovers \ pending
    /\ cycle = [d \in Dates |-> [by |-> NoOne, frozen |-> {}]]
    /\ json = Earlier /\ markdown = Earlier

-----------------------------------------------------------------------------
Is(r, script, step) == run[r].script = script /\ run[r].step = step

\* What becomes of a run.
Becomes(r, record) == run' = [run EXCEPT ![r] = record]

Goto(r, step) == Becomes(r, [run[r] EXCEPT !.step = step])

\* The proof has come to its end with a status.
Conclude(r, status) ==
    Becomes(r, [run[r] EXCEPT !.step = "write", !.status = status,
                              !.due = IF status \in {"passed", "dry_run_ready"} THEN 0 ELSE 1])

\* An exception: each main writes a report of failure and ends with 1.
Raise(r, message) ==
    Becomes(r, [run[r] EXCEPT !.step = "write", !.message = message, !.due = 1])

Own(r)      == {c \in Candidate : c.by = r}
Frozen(r)   == cycle[run[r].date].frozen
RelationsOf(candidates) == {c.relation : c \in candidates}

Start(r) ==
    /\ run[r].step = "idle" /\ \A q \in Runs : q < r => run[q].step # "idle"
    /\ \E s \in Started, d \in Dates, o \in Outs :
          /\ \A q \in Runs : run[q].script = s /\ run[q].out = o => run[q].step \in {"idle", "done"}
          /\ s # "queue" => o = 1
          /\ Becomes(r, Fresh(s, d, o))
    /\ UNCHANGED <<database, files>>

-----------------------------------------------------------------------------
\* The data platform, as the scripts use it.

\* create_cycle raises CycleAlreadyExists for a date that has one.
MakeCycle(r) ==
    /\ cycle[run[r].date].by = NoOne
    /\ cycle' = [cycle EXCEPT ![run[r].date].by = r]

\* The worker decides what is pending, whoever has submitted it, in one transaction.
Decide(passing) ==
    \E batch \in SUBSET pending :
        /\ Cardinality(batch) = IF Cardinality(pending) < WorkerLimit
                                THEN Cardinality(pending) ELSE WorkerLimit
        /\ passing \subseteq batch
        /\ pending' = pending \ batch /\ accepted' = accepted \cup passing

\* A freeze selects what has been accepted and is in no other cycle.
Selectable == accepted \ UNION {cycle[d].frozen : d \in Dates}
Select(r)  == cycle' = [cycle EXCEPT ![run[r].date].frozen = Selectable]

-----------------------------------------------------------------------------
\* m4_ex3_queue_promotion_proof.py

QueueFails(r) ==
    /\ run[r].script = "queue" /\ run[r].step \notin {"idle", "write", "done"}
    /\ Raise(r, "plain")
    /\ UNCHANGED <<database, files>>

QueueCreateCycle(r) ==
    /\ Is(r, "queue", "start")
    /\ MakeCycle(r) /\ Goto(r, "submit")
    /\ UNCHANGED <<pending, accepted, files>>

QueueSubmit(r) ==
    /\ Is(r, "queue", "submit")
    /\ pending' = pending \cup {[by |-> r, relation |-> "SUPPLY_CHAIN"]}
    /\ Goto(r, "validate")
    /\ UNCHANGED <<accepted, cycle, files>>

QueueValidate(r) ==
    /\ Is(r, "queue", "validate")
    /\ \E passing \in SUBSET pending :
          /\ Decide(passing)
          /\ IF passing = {} THEN Raise(r, "plain") ELSE Goto(r, "freeze")
    /\ UNCHANGED <<cycle, files>>

QueueFreeze(r) ==
    /\ Is(r, "queue", "freeze")
    /\ Select(r) /\ Goto(r, "evidence")
    /\ UNCHANGED <<pending, accepted, files>>

\* _queue_evidence_from_public_outputs: the run's own candidate, among all that were accepted.
QueueEvidence(r) ==
    /\ Is(r, "queue", "evidence")
    /\ IF Own(r) \cap Frozen(r) # {} THEN Goto(r, "promote") ELSE Raise(r, "plain")
    /\ UNCHANGED <<database, files>>

\* _promote_deltas and _assert_promotion_plan_output
QueuePromote(r) ==
    /\ Is(r, "queue", "promote")
    /\ \/ \E plan \in SUBSET Frozen(r) :
             /\ Own(r) \cap plan # {}
             /\ Becomes(r, [run[r] EXCEPT !.shown = plan, !.step = "write", !.status = "passed"])
       \/ Raise(r, "plain")
    /\ UNCHANGED <<database, files>>

-----------------------------------------------------------------------------
\* holdings_live_graph_proof.py

\* _validate_config.  A ProofError here reaches main as it is.
Preflight(r) ==
    /\ Is(r, "holdings", "start")
    /\ \/ Goto(r, "submit")
       \/ Conclude(r, "dry_run_ready")
       \/ Becomes(r, [run[r] EXCEPT !.step = "write", !.refusal = 2, !.named = TRUE,
                                    !.message = "plain", !.due = 2])
    /\ UNCHANGED <<database, files>>

\* A ProofError in the body of _bound_runtime_env: contextlib sets its __traceback__, which a
\* frozen dataclass refuses with a TypeError, and that is what main catches.
Refuse(r, code) ==
    Becomes(r, [run[r] EXCEPT !.step = "write", !.refusal = code, !.message = "plain", !.due = 1])

HoldingsFails(r) ==
    /\ run[r].script = "holdings" /\ run[r].step \notin {"idle", "start", "write", "done"}
    /\ Raise(r, "plain")
    /\ UNCHANGED <<database, files>>

\* Variant of HaveRequiredRelations: relations beside the two are let pass.
HaveSomeRelations(candidates) == Holdings \subseteq RelationsOf(candidates)

\* _assert_required_relations
HaveRequiredRelations(candidates) == RelationsOf(candidates) = Holdings

\* A count that must be positive, then the relations; next is where the run goes on.
Require(r, candidates, next) ==
    IF candidates = {} THEN Refuse(r, 3)
    ELSE IF ~HaveRequiredRelations(candidates) THEN Refuse(r, 4)
    ELSE Goto(r, next)

HoldingsSubmit(r) ==
    /\ Is(r, "holdings", "submit")
    /\ \E mine \in SUBSET {[by |-> r, relation |-> h] : h \in Holdings} :
          /\ pending' = pending \cup mine
          /\ Require(r, mine, "accept") \/ Raise(r, "plain")
    /\ UNCHANGED <<accepted, cycle, files>>

HoldingsAccept(r) ==
    /\ Is(r, "holdings", "accept")
    /\ \E passing \in SUBSET pending :
          /\ Decide(passing)
          /\ IF passing = {} THEN Refuse(r, 3) ELSE Goto(r, "cycle")
    /\ UNCHANGED <<cycle, files>>

HoldingsCreateCycle(r) ==
    /\ Is(r, "holdings", "cycle")
    /\ MakeCycle(r) /\ Goto(r, "freeze")
    /\ UNCHANGED <<pending, accepted, files>>

HoldingsFreeze(r) ==
    /\ Is(r, "holdings", "freeze")
    /\ Select(r)
    /\ IF Selectable = {} THEN Refuse(r, 3) ELSE Goto(r, "read")
    /\ UNCHANGED <<pending, accepted, files>>

HoldingsRead(r) ==
    /\ Is(r, "holdings", "read")
    /\ Require(r, Frozen(r), "graph")
    /\ UNCHANGED <<database, files>>

\* run_graph_live_proof: the edges that are found in Neo4j afterwards are counted and their
\* relations compared; that one is missing is reported and no reason to refuse.
HoldingsGraph(r) ==
    /\ Is(r, "holdings", "graph")
    /\ \E edges \in SUBSET Frozen(r) :
          IF edges = {} THEN Refuse(r, 3)
          ELSE IF ~HaveRequiredRelations(edges) THEN Refuse(r, 4)
          ELSE Becomes(r, [run[r] EXCEPT !.shown = edges, !.step = "write", !.status = "passed"])
    /\ UNCHANGED <<database, files>>

-----------------------------------------------------------------------------
\* m4_ex3_reasoner_consumption_proof.py

\* What does not hold in an imported package raises; its text may quote a
\* token, which the redaction removes when a space or nothing follows it.
ReasonerFails(r) ==
    /\ run[r].script = "reasoner" /\ run[r].step \in {"start", "consume", "scan"}
    /\ \E m \in {"plain", "bearer"} : Raise(r, m)
    /\ UNCHANGED <<database, files>>

\* Both schemas read the accepted and frozen payload, and must not diverge.
ReasonerBuild(r) ==
    /\ Is(r, "reasoner", "start")
    /\ \E accepting \in SUBSET Schemas, agree \in BOOLEAN :
          IF accepting = Schemas /\ agree
          THEN Becomes(r, [run[r] EXCEPT !.step = "consume", !.facts = Schemas])
          ELSE Raise(r, "plain")
    /\ UNCHANGED <<database, files>>

\* prove_reasoner_input_survives: the keys that serialization has retained, with the delta's id.
ReasonerConsume(r) ==
    /\ Is(r, "reasoner", "consume")
    /\ \E retained \in SUBSET GraphKeys, sameIds \in BOOLEAN :
          IF retained = GraphKeys /\ sameIds
          THEN Becomes(r, [run[r] EXCEPT !.step = "scan", !.facts = @ \cup retained])
          ELSE Raise(r, "plain")
    /\ UNCHANGED <<database, files>>

\* scan_reasoner_runtime_imports
ScanVerdict(tree) ==
    CASE tree = "clean"     -> "passed"
      [] tree = "forbidden" -> "failed"
      [] OTHER              -> "blocked"

ReasonerScan(r) ==
    /\ Is(r, "reasoner", "scan")
    /\ \E tree \in Trees :
          Becomes(r, [run[r] EXCEPT !.step = "write", !.status = ScanVerdict(tree),
                                    !.facts = @ \cup {tree},
                                    !.due = IF ScanVerdict(tree) = "passed" THEN 0 ELSE 1])
    /\ UNCHANGED <<database, files>>

-----------------------------------------------------------------------------
\* m4_ex3_frontend_readonly_proof.py

\* verify_frontend_api_root; the error of a missing checkout names its path, wherever that is.
FrontendVerify(r) ==
    /\ Is(r, "frontend", "start")
    /\ \E checkout \in Checkouts :
          IF checkout = "expected_commit"
          THEN Becomes(r, [run[r] EXCEPT !.step = "exercise", !.facts = {checkout}])
          ELSE \/ Raise(r, "plain")
               \/ checkout = "missing" /\ Raise(r, "path")
    /\ UNCHANGED <<database, files>>

\* analyze_route_table: the methods of the routes of the endpoint, a method of another route whose
\* path begins with its path, and whether a raw or debug path is mounted.
RoutesPass(methods, below, raw) ==
    "GET" \in methods /\ (methods \cup below) \cap Writing = {} /\ ~raw

FrontendExercise(r) ==
    /\ Is(r, "frontend", "exercise")
    /\ \E body \in Bodies, methods \in SUBSET ({"GET"} \cup Writing), raw \in BOOLEAN,
          below \in {{}} \cup {{m} : m \in Writing} :
          IF body = "expected_body" /\ RoutesPass(methods, below, raw)
          THEN Becomes(r, [run[r] EXCEPT !.step = "assess",
                                         !.facts = @ \cup {body} \cup methods \cup below])
          ELSE Raise(r, "plain")
    /\ UNCHANGED <<database, files>>

\* The three verdicts are passed by now.  The hygiene of the evidence may fail, and names what
\* it finds.
FrontendAssess(r) ==
    /\ Is(r, "frontend", "assess")
    /\ Conclude(r, "passed") \/ \E m \in {"plain", "path"} : Raise(r, m)
    /\ UNCHANGED <<database, files>>

-----------------------------------------------------------------------------
\* p2_durable_real_data_codex_dry_run.py, with one candidate per symbol in its own database.

DurableFails(r) ==
    /\ run[r].script = "durable" /\ run[r].step \notin {"idle", "write", "done"}
    /\ Raise(r, "plain")
    /\ UNCHANGED <<database, files>>

Symbols == 1..2

\* Token, database, refresh; then a candidate per symbol, and all must be accepted and frozen.
DurableSeed(r) ==
    /\ Is(r, "durable", "start")
    /\ \E passing \in SUBSET Symbols, frozen \in SUBSET Symbols :
          /\ frozen \subseteq passing
          /\ IF passing = Symbols /\ frozen = Symbols
             THEN Becomes(r, [run[r] EXCEPT !.step = "rehearse", !.facts = {"frozen"}])
             ELSE Raise(r, "plain")
    /\ UNCHANGED <<database, files>>

\* dbt compiles a copy of the project, then the Dagster job runs.
DurableRehearse(r) ==
    /\ Is(r, "durable", "rehearse")
    /\ \E compiled, success \in BOOLEAN :
          IF compiled /\ success
          THEN Becomes(r, [run[r] EXCEPT !.step = "readback", !.facts = @ \cup {"rehearsed"}])
          ELSE Raise(r, "plain")
    /\ UNCHANGED <<database, files>>

\* The formal objects are read back, and each record that the job says it has persisted.
DurableReadBack(r) ==
    /\ Is(r, "durable", "readback")
    /\ \E missing \in SUBSET Records :
          IF missing = {}
          THEN Becomes(r, [run[r] EXCEPT !.step = "write", !.status = "passed",
                                         !.facts = @ \cup Records])
          ELSE Raise(r, "plain")
    /\ UNCHANGED <<database, files>>

-----------------------------------------------------------------------------
\* Every main ends by writing its report, in finally but for the holdings proof.

Place(r) == <<run[r].script, run[r].out>>

End(r, code) == Becomes(r, [run[r] EXCEPT !.step = "done", !.exit = code])

\* write_reports asserts the hygiene of the report that has been redacted.  Local paths are not
\* redacted at all, and what stands for a token does not survive a second redaction.
Refused(r) ==
    \/ run[r].script = "frontend" /\ run[r].message \in {"path", "bearer"}
    \/ run[r].script = "reasoner" /\ run[r].message = "bearer"

RefuseReport(r) ==
    /\ run[r].step = "write" /\ Refused(r)
    /\ End(r, 1)
    /\ UNCHANGED <<database, files>>

WriteJson(r) ==
    /\ run[r].step = "write" /\ ~Refused(r)
    /\ json' = [json EXCEPT ![Place(r)] = [run |-> r, status |-> run[r].status, whole |-> TRUE]]
    /\ IF run[r].script \in {"reasoner", "frontend"} THEN Goto(r, "markdown") ELSE End(r, run[r].due)
    /\ UNCHANGED <<database, markdown>>

WriteMarkdown(r) ==
    /\ run[r].step = "markdown"
    /\ markdown' = [markdown EXCEPT ![Place(r)] = [run |-> r, status |-> run[r].status, whole |-> TRUE]]
    /\ End(r, run[r].due)
    /\ UNCHANGED <<database, json>>

\* Neither write is atomic: one that fails, or is cut short, leaves a part of a file.
Torn(r) ==
    \/ /\ run[r].step = "write" /\ ~Refused(r)
       /\ json' = [json EXCEPT ![Place(r)] = [run |-> r, status |-> run[r].status, whole |-> FALSE]]
       /\ UNCHANGED markdown
    \/ /\ run[r].step = "markdown"
       /\ markdown' = [markdown EXCEPT ![Place(r)] = [run |-> r, status |-> run[r].status, whole |-> FALSE]]
       /\ UNCHANGED json

\* Variant of WriteFails: the exit code is that of the proof.
WriteFailsQuietly(r) == Torn(r) /\ End(r, run[r].due) /\ UNCHANGED database

WriteFails(r) == Torn(r) /\ End(r, 1) /\ UNCHANGED database

\* Control-C in the proof itself: finally still writes the report, of failure and without an
\* error; the holdings proof leaves none.
Interrupt(r) ==
    /\ run[r].step \notin {"idle", "write", "markdown", "done"}
    /\ IF run[r].script = "holdings" THEN End(r, 130)
       ELSE Becomes(r, [run[r] EXCEPT !.step = "write", !.due = 130])
    /\ UNCHANGED <<database, files>>

Kill(r) ==
    /\ run[r].step \notin {"idle", "done"}
    /\ Torn(r) \/ UNCHANGED files
    /\ End(r, Killed)
    /\ UNCHANGED database

-----------------------------------------------------------------------------
QueueStep(r) ==
    \/ QueueFails(r) \/ QueueCreateCycle(r) \/ QueueSubmit(r) \/ QueueValidate(r)
    \/ QueueFreeze(r) \/ QueueEvidence(r) \/ QueuePromote(r)

HoldingsStep(r) ==
    \/ Preflight(r) \/ HoldingsFails(r) \/ HoldingsSubmit(r) \/ HoldingsAccept(r)
    \/ HoldingsCreateCycle(r) \/ HoldingsFreeze(r) \/ HoldingsRead(r) \/ HoldingsGraph(r)

OtherStep(r) ==
    \/ ReasonerFails(r) \/ ReasonerBuild(r) \/ ReasonerConsume(r) \/ ReasonerScan(r)
    \/ FrontendVerify(r) \/ FrontendExercise(r) \/ FrontendAssess(r)
    \/ DurableFails(r) \/ DurableSeed(r) \/ DurableRehearse(r) \/ DurableReadBack(r)

ReportStep(r) == RefuseReport(r) \/ WriteJson(r) \/ WriteMarkdown(r) \/ WriteFails(r)

Over == \A r \in Runs : run[r].step = "done"

EvidenceNext ==
    \/ \E r \in Runs :
          \/ Start(r) \/ QueueStep(r) \/ HoldingsStep(r) \/ OtherStep(r) \/ ReportStep(r)
          \/ Interrupt(r) \/ Kill(r)
    \/ Over /\ UNCHANGED vars

EvidenceSpec == EvidenceInit /\ [][EvidenceNext]_vars

-----------------------------------------------------------------------------
\* What a pass of a run claims, told from the database and from what the run has found.
Earned(r) ==
    CASE run[r].script = "queue" ->
             /\ cycle[run[r].date].by = r
             /\ Own(r) \cap accepted \cap Frozen(r) \cap run[r].shown # {}
      [] run[r].script = "holdings" ->
             /\ cycle[run[r].date].by = r
             /\ RelationsOf(Frozen(r)) = Holdings
             /\ run[r].shown \subseteq Frozen(r) /\ RelationsOf(run[r].shown) = Holdings
      [] run[r].script = "reasoner" -> run[r].facts = Schemas \cup GraphKeys \cup {"clean"}
      [] run[r].script = "frontend" -> run[r].facts = {"expected_commit", "expected_body", "GET"}
      [] run[r].script = "durable"  -> run[r].facts = {"frozen", "rehearsed"} \cup Records

\* A complete report that says passed is of a run that has proven its claim: for M4.4 its own
\* candidate, accepted, frozen into the cycle it made and promoted, although others fill the
\* same queue and freeze from it; for holdings a cycle of its own with exactly the two holdings
\* relations; for M4.5 both graph keys retained and a source tree that was there and clean; for
\* M4.6 the expected commit and body behind a route that can only be read.
PassIsEarned ==
    \A o \in Scripts \X Outs :
        json[o].whole /\ json[o].status = "passed" /\ json[o].run # 0 => Earned(json[o].run)

\* A run that ends with 0 has left a complete report of its own that says so, and where there is
\* a Markdown report, it is the run's own and says the same (the finally blocks, write_reports).
ZeroHasEvidence ==
    [][\A r \in Runs :
          run'[r].exit = 0 /\ run[r].exit # 0 =>
              LET left == json'[Place(r)]
              IN  /\ left.run = r /\ left.whole /\ left.status \in {"passed", "dry_run_ready"}
                  /\ run[r].script \in {"reasoner", "frontend"} => markdown'[Place(r)] = left]_vars

\* A holdings run that a ProofError ends says why in its report ("evidence should preserve
\* blockers", main) and has its exit code.
ReasonsAreKept ==
    \A r \in Runs :
        run[r].step = "done" /\ run[r].exit # Killed /\ run[r].refusal # 0 => run[r].named

=============================================================================
