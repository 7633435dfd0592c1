--------------------------- MODULE MatrixPromotion ---------------------------
(***************************************************************************)
(* contract-suite --promote: CompatRunner.run and _promote_matrix_entry.   *)
(* Each promoter is a process.  It picks a row from a snapshot of the      *)
(* registry, runs the checks, persists a contract report and then, under   *)
(* the flock on the matrix, re-reads the file, re-validates the row and    *)
(* the evidence, and replaces the file with a copy in which that one row   *)
(* is verified.  Last it rewrites its report with promoted = true.         *)
(* Processes may crash anywhere; the kernel then drops the flock.          *)
(***************************************************************************)
EXTENDS EvidenceStore

VARIABLES
    pc,    \* where each promoter stands
    goal,  \* the profile and bundles it was asked for
    seen,  \* module versions it resolved from its registry snapshot
    snap,  \* context of the row it selected from that snapshot
    raw,   \* its copy of the matrix file, while it is in the critical section
    tmp    \* promoters whose temporary matrix file exists

ownVars == <<pc, goal, seen, snap, raw, tmp>>
vars == <<storeVars, ownVars>>

\* Ways a run ends: report only, promotion refused with
\* CompatibilityPromotionError, promoted, any other exception, killed.
Ended == {"reported", "rejected", "promoted", "errored", "crashed"}

\* pc values inside the critical section of _matrix_promotion_lock.
Holding == {"locked", "evidence", "staging", "replacing", "committed"}

Outside == {"idle", "loaded", "checking", "writing", "waiting", "unlocked", "rewriting"}

TypeOK ==
    /\ StoreTypeOK
    /\ pc \in [Promoters -> Ended \cup Holding \cup Outside]
    /\ goal \in [Promoters -> Keys \cup {None}]
    /\ seen \in [Promoters -> Modules \cup {None}]
    /\ snap \in [Promoters -> Contexts \cup {None}]
    /\ raw \in [Promoters -> [Slots -> Row]]
    /\ tmp \subseteq Promoters

Init ==
    /\ StoreInit
    /\ pc = [p \in Promoters |-> "idle"]
    /\ goal = [p \in Promoters |-> None]
    /\ seen = [p \in Promoters |-> None]
    /\ snap = [p \in Promoters |-> None]
    /\ raw = [p \in Promoters |-> InitialRows]
    /\ tmp = {}

Goto(p, label) == pc' = [pc EXCEPT ![p] = label]

\* Variant of Leave: no finally, an exception keeps the lock.
LeaveLocked(p, outcome) ==
    /\ Goto(p, outcome)
    /\ matrixLock' = IF outcome = "unlocked" THEN None ELSE matrixLock
    /\ raw' = [raw EXCEPT ![p] = InitialRows]
    /\ UNCHANGED <<matrix, registry, contract, support, edits>>

\* The with block is left: the lock is released, the copy is forgotten.
Leave(p, outcome) ==
    /\ Goto(p, outcome)
    /\ matrixLock' = None
    /\ raw' = [raw EXCEPT ![p] = InitialRows]
    /\ UNCHANGED <<matrix, registry, contract, support, edits>>

\* _persist_report: the record is that of the row selected at the start.
WriteReport(p, verdict, content) ==
    contract' = [contract EXCEPT ![p] =
                    [ctx |-> snap[p], verdict |-> verdict, content |-> content]]

-----------------------------------------------------------------------------
\* Before the lock: snapshot, checks, first report

LoadRegistry(p) ==
    /\ pc[p] = "idle"
    /\ \E key \in Keys : /\ goal' = [goal EXCEPT ![p] = key]
                         /\ seen' = [seen EXCEPT ![p] = registry[key]]
    /\ Goto(p, "loaded")
    /\ UNCHANGED <<storeVars, snap, raw, tmp>>

SelectMatrixEntry(p) ==
    /\ pc[p] = "loaded"
    /\ LET hits == ActiveRows(matrix, goal[p], seen[p])
       IN  \/ /\ hits = {}
              /\ Goto(p, "errored")
              /\ UNCHANGED snap
           \/ \E i \in Slots : /\ IsFirst(i, hits)
                               /\ snap' = [snap EXCEPT ![p] = matrix[i].ctx]
                               /\ Goto(p, "checking")
    /\ goal' = [goal EXCEPT ![p] = None]
    /\ seen' = [seen EXCEPT ![p] = None]
    /\ UNCHANGED <<storeVars, raw, tmp>>

\* The checks end with some status ("failed" stands for partial too: the promotion
\* only asks whether it is success), and write_text truncates the report file.
RunChecks(p) ==
    /\ pc[p] = "checking"
    /\ \E verdict \in {"success", "failed"} :
          WriteReport(p, verdict, "torn")
    /\ Goto(p, "writing")
    /\ UNCHANGED <<matrix, matrixLock, registry, support, edits, goal, seen, snap, raw, tmp>>

\* The report is complete, or the write failed and leaves it torn.  With --promote the
\* run goes on to open the file of the matrix lock, which may fail.
PersistReport(p) ==
    /\ pc[p] = "writing"
    /\ \/ /\ WriteReport(p, contract[p].verdict, "plain")
          /\ Goto(p, "waiting") \/ Goto(p, "reported") \/ Goto(p, "errored")
       \/ Goto(p, "errored") /\ UNCHANGED contract
    /\ UNCHANGED <<matrix, matrixLock, registry, support, edits, goal, seen, snap, raw, tmp>>

-----------------------------------------------------------------------------
\* Under the lock

\* Variant of AcquireMatrixLock: the flock is shared, nobody waits.
AcquireSharedLock(p) ==
    /\ pc[p] = "waiting"
    /\ matrixLock' = p
    /\ Goto(p, "locked")
    /\ UNCHANGED <<matrix, registry, contract, support, edits, goal, seen, snap, raw, tmp>>

AcquireMatrixLock(p) ==
    /\ pc[p] = "waiting"
    /\ matrixLock = None
    /\ matrixLock' = p
    /\ Goto(p, "locked")
    /\ UNCHANGED <<matrix, registry, contract, support, edits, goal, seen, snap, raw, tmp>>

\* Variants of Promotable: a verdict nobody looks at; a status nobody looks at; the
\* first draft instead of the first row of the context.
PromotableUnchecked(p, rows, i) ==
    IsFirst(i, RowsOf(rows, snap[p])) /\ rows[i].status = "draft"

PromotableAnyStatus(p, rows, i) ==
    IsFirst(i, RowsOf(rows, snap[p])) /\ contract[p].verdict = "success"

PromotableFirstDraft(p, rows, i) ==
    /\ IsFirst(i, {j \in RowsOf(rows, snap[p]) : rows[j].status = "draft"})
    /\ contract[p].verdict = "success"

\* The checks that the row, as the locked file has it, must pass.
Promotable(p, rows, i) ==
    /\ IsFirst(i, RowsOf(rows, snap[p]))
    /\ rows[i].status = "draft"
    /\ contract[p].verdict = "success"

\* Loads the file again and validates the row and this run's own record.
ValidateLockedEntry(p) ==
    /\ pc[p] = "locked"
    /\ \/ /\ \E i \in Slots : Promotable(p, matrix, i)
          /\ raw' = [raw EXCEPT ![p] = matrix]
          /\ Goto(p, "evidence")
          /\ UNCHANGED storeVars
       \/ /\ ~\E i \in Slots : Promotable(p, matrix, i)
          /\ Leave(p, "rejected")
       \/ Leave(p, "errored")
    /\ UNCHANGED <<goal, seen, snap, tmp>>

\* Variant of CheckSupportingRuns: the with block ends before the file is written.
UnlockBeforeWrite(p) ==
    /\ pc[p] = "evidence"
    /\ \A suite \in Supporting(snap[p]) : RunFound(snap[p], suite)
    /\ \E i \in Slots : /\ Promotable(p, raw[p], i)
                        /\ raw' = [raw EXCEPT ![p] = Mark(raw[p], i, "verified", p)]
    /\ Goto(p, "staging")
    /\ matrixLock' = None
    /\ UNCHANGED <<matrix, registry, contract, support, edits, goal, seen, snap, tmp>>

\* Scans the reports directories, then marks the row in the copy.  A required test that
\* no suite has is refused as a missing run is; a report that is no text, or whose JSON
\* is a number, ends the promotion with an exception that nothing catches.
CheckSupportingRuns(p) ==
    /\ pc[p] = "evidence"
    /\ LET proven == \A suite \in Supporting(snap[p]) : RunFound(snap[p], suite)
       IN  \/ /\ proven
              /\ \E i \in Slots :
                    /\ Promotable(p, raw[p], i)
                    /\ raw' = [raw EXCEPT ![p] = Mark(raw[p], i, "verified", p)]
              /\ Goto(p, "staging")
              /\ UNCHANGED storeVars
           \/ ~proven /\ Leave(p, "rejected")
           \/ Leave(p, "errored")
    /\ UNCHANGED <<goal, seen, snap, tmp>>

\* mkstemp, write, fsync.  A failed write removes the temporary file again.
StageMatrix(p) ==
    /\ pc[p] = "staging"
    /\ \/ /\ tmp' = tmp \cup {p}
          /\ Goto(p, "replacing")
          /\ UNCHANGED <<storeVars, raw>>
       \/ /\ Leave(p, "rejected") \/ Leave(p, "errored")
          /\ UNCHANGED tmp
    /\ UNCHANGED <<goal, seen, snap>>

\* Variant of ReplaceMatrix: an error after the replace is reported as a failed write.
ReplaceThenReject(p) ==
    /\ pc[p] = "replacing"
    /\ matrix' = raw[p]
    /\ \/ Goto(p, "committed") /\ UNCHANGED matrixLock
       \/ Goto(p, "rejected") /\ matrixLock' = None
    /\ tmp' = tmp \ {p}
    /\ UNCHANGED <<registry, contract, support, edits, goal, seen, snap, raw>>

\* os.replace: the whole file becomes this promoter's copy.
ReplaceMatrix(p) ==
    /\ pc[p] = "replacing"
    /\ \/ /\ matrix' = raw[p]
          /\ Goto(p, "committed")
          /\ UNCHANGED <<matrixLock, registry, contract, support, edits, raw>>
       \/ Leave(p, "rejected")
    /\ tmp' = tmp \ {p}
    /\ UNCHANGED <<goal, seen, snap>>

\* Directory fsync and reload can only add warnings; then the lock is released.
ReloadPromotedEntry(p) ==
    /\ pc[p] = "committed"
    /\ Leave(p, "unlocked")
    /\ UNCHANGED <<goal, seen, snap, tmp>>

-----------------------------------------------------------------------------
\* After the lock: the report is rewritten in place

ReopenReport(p) ==
    /\ pc[p] = "unlocked"
    /\ \/ /\ WriteReport(p, contract[p].verdict, "retorn")
          /\ Goto(p, "rewriting")
       \/ Goto(p, "errored") /\ UNCHANGED contract
    /\ UNCHANGED <<matrix, matrixLock, registry, support, edits, goal, seen, snap, raw, tmp>>

PersistPromotedReport(p) ==
    /\ pc[p] = "rewriting"
    /\ \/ /\ WriteReport(p, contract[p].verdict, "promoted")
          /\ Goto(p, "promoted")
       \/ Goto(p, "errored") /\ UNCHANGED contract
    /\ UNCHANGED <<matrix, matrixLock, registry, support, edits, goal, seen, snap, raw, tmp>>

-----------------------------------------------------------------------------

\* The process dies: files stay as they are, the kernel drops its flock.
Crash(p) ==
    /\ pc[p] \notin Ended \cup {"idle"}
    /\ Goto(p, "crashed")
    /\ matrixLock' = IF matrixLock = p THEN None ELSE matrixLock
    /\ raw' = [raw EXCEPT ![p] = InitialRows]
    /\ UNCHANGED <<matrix, registry, contract, support, edits, goal, seen, snap, tmp>>

\* What a started run does by itself.
Step(p) ==
    \/ SelectMatrixEntry(p) \/ RunChecks(p) \/ PersistReport(p)
    \/ AcquireMatrixLock(p) \/ ValidateLockedEntry(p) \/ CheckSupportingRuns(p)
    \/ StageMatrix(p) \/ ReplaceMatrix(p) \/ ReloadPromotedEntry(p)
    \/ ReopenReport(p) \/ PersistPromotedReport(p)

\* Every run has ended and the store has no more to do.
Quiescent ==
    /\ \A p \in Promoters : pc[p] \in Ended
    /\ UNCHANGED vars

Next ==
    \/ \E p \in Promoters : LoadRegistry(p) \/ Step(p) \/ Crash(p)
    \/ StoreNext /\ UNCHANGED ownVars
    \/ Quiescent

Spec == Init /\ [][Next]_vars

\* A started process keeps running and flock wakes its waiters.  No fairness
\* for starting a run, for crashes, for edits or for the other suites.
FairSpec == Spec /\ \A p \in Promoters : WF_vars(Step(p))
-----------------------------------------------------------------------------
\* Properties

\* A smoke or e2e run of this very context has succeeded and its record is complete.
SuiteProven(c, suite) ==
    \E f \in SupportRuns :
        SuiteOf[f] = suite /\ support[f].ctx = c /\ support[f].content = "success"

\* Every row that a promoter verified rests on that promoter's own successful
\* contract run, whose report was persisted, and on a successful record of each
\* suite the row requires, all in the row's context.  The report may be unreadable
\* only while, or because, its promoter was interrupted rewriting it (PersistPromotedReport).
EvidenceBacked(row) ==
    row.stamp \in Promoters =>
        LET mine == contract[row.stamp]
        IN  /\ mine.ctx = row.ctx
            /\ mine.verdict = "success"
            /\ \/ mine.content \in Readable
               \/ mine.content = "retorn" /\ pc[row.stamp] \in {"rewriting", "errored", "crashed"}
            /\ \A suite \in Supporting(row.ctx) : SuiteProven(row.ctx, suite)

VerifiedHasEvidence == \A i \in Slots : EvidenceBacked(matrix[i])

\* A promotion that ends in CompatibilityPromotionError has not touched the
\* matrix, now or through a later writer's copy of the file (_promote_matrix_entry).
RejectedLeavesNoTrace ==
    \A p \in Promoters :
        pc[p] = "rejected" => \A i \in Slots : matrix[i].stamp # p

\* A report that says promoted = true names a row that is in the matrix under this
\* promoter's stamp: nobody's later replace of the file has lost it (CompatRunner.run).
ReportTellsTruth ==
    \A p \in Promoters :
        contract[p].content = "promoted" =>
            \E i \in Slots : matrix[i].stamp = p /\ matrix[i].ctx = contract[p].ctx

\* No write of the file drops a row or takes one back in its life cycle: what one
\* writer committed survives every other writer (_matrix_promotion_lock).
NoLostUpdate ==
    [][\A i \in Slots :
          /\ matrix[i].status # "absent" => matrix'[i].ctx = matrix[i].ctx
          /\ <<matrix[i].status, matrix'[i].status>> \notin
                {<<"draft", "absent">>, <<"verified", "absent">>, <<"deprecated", "absent">>,
                 <<"verified", "draft">>, <<"deprecated", "draft">>, <<"deprecated", "verified">>}
      ]_matrix

\* A context is promoted at most once, however often its row is selected again or
\* entered twice, and one that was deprecated and entered again is not promoted: above a
\* promoted row there is none of its context, whatever the other promoters and the
\* operators do (_validate_promotable_matrix_entry, _find_raw_matrix_entry).
PromotedOnce ==
    \A i, j \in Slots :
        j < i /\ matrix[i].stamp \in Promoters /\ matrix[j].status # "absent"
            => matrix[i].ctx # matrix[j].ctx

\* Every started run ends: nobody waits for the lock for ever.
RunsEnd == \A p \in Promoters : pc[p] = "loaded" ~> pc[p] \in Ended

\* compatibility-matrix.yaml:156 and registry/schema.py:74: one verified row per profile
\* and sorted extra bundles.  _promote_matrix_entry compares no row with another.
OneVerifiedRowPerKey ==
    \A i, j \in Slots :
        i # j /\ matrix[i].status = "verified" /\ matrix[j].status = "verified"
            => KeyOf[matrix[i].ctx] # KeyOf[matrix[j].ctx]

\* Implementation of MatrixLifecycle: a proof is a record that was completed.  A
\* report that a promoter is rewriting still counts: it was complete before.
ProvenSuites ==
    {<<contract[p].ctx, "contract">> : p \in {q \in Promoters :
         contract[q].verdict = "success" /\ contract[q].content \in Readable \cup {"retorn"}}}
    \cup
    {<<support[f].ctx, SuiteOf[f]>> : f \in {g \in SupportRuns : support[g].content = "success"}}

VisibleRows == [i \in Slots |-> [ctx |-> matrix[i].ctx, status |-> matrix[i].status]]

Lifecycle == INSTANCE MatrixLifecycle WITH rows <- VisibleRows, proven <- ProvenSuites

\* The matrix file, read at any moment, behaves as its readers are promised.
ImplementsLifecycle == Lifecycle!Spec
=============================================================================
