------------------------ MODULE ReleasePipelineProofs ------------------------
(***************************************************************************)
(* Proofs about promotion, freeze and the two together, for any contexts,  *)
(* rows, promoters, freezers, runs and number of hand edits.               *)
(*   - MatrixPromotion: the inductive invariant Inv adds to TypeOK what    *)
(*     each promoter's own report looks like while it is at work, whose    *)
(*     stamp may already be in the matrix or in somebody's copy of it,     *)
(*     and that every stamped row, in the matrix or in a copy, has its     *)
(*     evidence. LockInv adds what the lock gives when operators wait for  *)
(*     it.                                                                 *)
(*   - ReleasePipeline: an installed version lock names a row that is      *)
(*     still in the matrix and has been proven, and promotion and freeze   *)
(*     agree on what evidence is, also for operators who edit whenever     *)
(*     they like. A freezer takes no lock on the matrix: what it has read  *)
(*     stays true because a verified row is in every copy of the file      *)
(*     that somebody may still write back.                                 *)
(***************************************************************************)
EXTENDS ReleasePipeline, TLAPS

\* pc values of a promoter whose row may be in the matrix.
Committed == {"committed", "unlocked", "rewriting", "promoted", "errored", "crashed"}

\* The report of a promoter that has persisted it and goes on to promote.
OwnReport(p) ==
    /\ pc[p] \in {"writing", "waiting", "unlocked", "rewriting"} \cup Holding
          => contract[p].ctx = snap[p]
    /\ pc[p] \in {"waiting", "unlocked"} \cup Holding => contract[p].content = "plain"
    /\ pc[p] = "rewriting" => contract[p].content = "retorn"
    /\ contract[p].content = "promoted" => pc[p] = "promoted"

ReportInv == \A p \in Promoters : OwnReport(p)

\* A stamp leaves its promoter's copy only with os.replace.
StampInv ==
    \A p \in Promoters, i \in Slots :
        /\ matrix[i].stamp = p => pc[p] \in Committed
        /\ \A q \in Promoters :
              raw[q][i].stamp = p =>
                  pc[p] \in Committed \/ (q = p /\ pc[p] \in {"staging", "replacing"})

\* The evidence of a row does not go away.
CopiesBacked == \A p \in Promoters, i \in Slots : EvidenceBacked(raw[p][i])

Inv == TypeOK /\ ReportInv /\ StampInv /\ CopiesBacked /\ VerifiedHasEvidence
-----------------------------------------------------------------------------
\* Type correctness.

\* Rewriting a report (_persist_report) changes only its owner's, and gives it its types.
LEMMA ReportWritten ==
    ASSUME TypeOK, NEW p \in Promoters, NEW verdict \in {"success", "failed", "none"},
           NEW content \in {"absent", "torn", "plain", "retorn", "promoted"},
           WriteReport(p, verdict, content)
    PROVE  /\ contract' \in [Promoters -> ContractReport]
           /\ contract'[p] = [ctx |-> snap[p], verdict |-> verdict, content |-> content]
           /\ \A q \in Promoters \ {p} : contract'[q] = contract[q]
BY DEF WriteReport, ContractReport, TypeOK, StoreTypeOK

\* A report's verdict is one of the three its writer can have given it.
LEMMA VerdictType ==
    ASSUME TypeOK, NEW p \in Promoters
    PROVE  contract[p].verdict \in {"success", "failed", "none"}
BY DEF ContractReport, TypeOK, StoreTypeOK

\* Marking a row of a well-typed file leaves a well-typed file.
LEMMA RowMarked ==
    ASSUME NEW rows \in [Slots -> Row], NEW i \in Slots, NEW status \in Statuses,
           NEW by \in Promoters \cup {None, Manual}
    PROVE  Mark(rows, i, status, by) \in [Slots -> Row]
BY DEF Mark, Row

\* The registry as it stands when the runs start has its types.
LEMMA TypeInit == Init => TypeOK
BY ContextParts, StoreBounds, NoValue, InitialMatrix
   DEF Init, StoreInit, TypeOK, StoreTypeOK, ContractReport, SupportReport, Outside

\* Leaving the critical section, and dying, keep the types whatever the outcome.
LEMMA TypeLeave ==
    ASSUME TypeOK, NEW p \in Promoters, NEW outcome \in Ended \cup Outside,
           Leave(p, outcome), UNCHANGED <<goal, seen, snap>>, tmp' \subseteq Promoters
    PROVE  TypeOK'
BY InitialMatrix DEF Leave, Goto, TypeOK, StoreTypeOK

\* A smoke or e2e run reads the registry, starts, has its preflight, or ends.
LEMMA SupportRecord ==
    ASSUME TypeOK, NEW f \in SupportRuns,
           StartSupportRun(f) \/ PreflightContract(f) \/ PersistSupportRecord(f)
    PROVE  \E record \in SupportReport :
              /\ support' = [support EXCEPT ![f] = record]
              /\ \/ /\ support[f].content \in {"absent", "running"}
                    /\ record.content = support[f].content
                    /\ record.ctx = support[f].ctx /\ record.preflight = support[f].preflight
                 \/ /\ support[f].content = "absent"
                    /\ record.content = "running" /\ record.preflight = "none"
                 \/ /\ support[f].content = "running" /\ support[f].preflight = "none"
                    /\ record.content \in {"running", "failed"}
                 \/ /\ support[f].content = "running"
                    /\ record.content \in {"success", "failed"}
                    /\ record.ctx = support[f].ctx /\ record.preflight = support[f].preflight
<1>0. /\ support \in [SupportRuns -> SupportReport]
      /\ \A i \in Slots : matrix[i].ctx \in Contexts \cup {None}
    BY DEF TypeOK, StoreTypeOK, Row
<1>1. ASSUME NEW key \in Keys, View(f, key)
      PROVE  LET record == [support[f] EXCEPT !.view = [key |-> key, versions |-> registry[key]]]
             IN  /\ record \in SupportReport /\ support' = [support EXCEPT ![f] = record]
                 /\ record.content = support[f].content
                 /\ record.ctx = support[f].ctx /\ record.preflight = support[f].preflight
  <2>1. registry[key] \in Modules
      BY DEF TypeOK, StoreTypeOK
  <2> QED
      BY <1>0, <1>1, <2>1 DEF View, SupportReport
<1>2. CASE StartSupportRun(f)
  <2>1. CASE \E key \in Keys : View(f, key)
      BY <1>1, <1>2, <2>1 DEF StartSupportRun
  <2>2. ASSUME NEW i \in Slots,
               support' = [support EXCEPT ![f] =
                  [view |-> None, ctx |-> matrix[i].ctx, preflight |-> "none",
                   content |-> "running"]]
        PROVE  [view |-> None, ctx |-> matrix[i].ctx, preflight |-> "none",
                content |-> "running"] \in SupportReport
      BY <1>0 DEF SupportReport
  <2> QED
      BY <1>2, <2>1, <2>2 DEF StartSupportRun
<1>3. CASE PreflightContract(f)
  <2>1. support[f].content = "running" /\ support[f].preflight = "none"
      BY <1>3 DEF PreflightContract
  <2>2. CASE \E key \in Keys : View(f, key)
      BY <1>1, <2>1, <2>2
  <2>3. ASSUME NEW i \in Slots, NEW verdict \in {"success", "failed"},
               support' = [support EXCEPT ![f] =
                  [view |-> None, ctx |-> matrix[i].ctx, preflight |-> verdict,
                   content |-> IF matrix[i].ctx = support[f].ctx THEN "running" ELSE "failed"]]
        PROVE  \E record \in SupportReport :
                  /\ support' = [support EXCEPT ![f] = record]
                  /\ record.content \in {"running", "failed"}
    <3> DEFINE content == IF matrix[i].ctx = support[f].ctx THEN "running" ELSE "failed"
               record == [view |-> None, ctx |-> matrix[i].ctx, preflight |-> verdict,
                          content |-> content]
    <3>1. content \in {"running", "failed"}
        OBVIOUS
    <3>2. record \in SupportReport /\ record.content = content
        BY <1>0, <3>1 DEF SupportReport
    <3> QED
        BY <2>3, <3>1, <3>2
  <2> QED
      BY <1>0, <1>3, <2>1, <2>2, <2>3 DEF PreflightContract
<1>4. CASE PersistSupportRecord(f)
  <2>1. PICK result \in {"success", "failed"} :
           support' = [support EXCEPT ![f] =
              [view |-> None, ctx |-> support[f].ctx, preflight |-> support[f].preflight,
               content |-> result]]
      BY <1>0, <1>4 DEF PersistSupportRecord
  <2> DEFINE record == [view |-> None, ctx |-> support[f].ctx,
                        preflight |-> support[f].preflight, content |-> result]
  <2>2. /\ record \in SupportReport /\ record.content = result
        /\ record.ctx = support[f].ctx /\ record.preflight = support[f].preflight
      BY <1>0 DEF SupportReport
  <2> QED
      BY <1>4, <2>1, <2>2 DEF PersistSupportRecord
<1> QED
    BY <1>2, <1>3, <1>4

\* Every step of a promoter or of an operator keeps the types.
LEMMA TypeStep == TypeOK /\ [Next]_vars => TypeOK'
<1> SUFFICES ASSUME TypeOK, [Next]_vars PROVE TypeOK'
    OBVIOUS
<1> USE DEF Ended, Holding, Outside, Goto
<1>1. ASSUME NEW p \in Promoters, LoadRegistry(p) PROVE TypeOK'
    BY <1>1 DEF LoadRegistry, storeVars, TypeOK, StoreTypeOK
<1>2. ASSUME NEW p \in Promoters, SelectMatrixEntry(p) PROVE TypeOK'
  <2>1. \A i \in Slots : matrix[i].ctx \in Contexts \cup {None}
      BY DEF TypeOK, StoreTypeOK, Row
  <2> QED
      BY <1>2, <2>1 DEF SelectMatrixEntry, storeVars, TypeOK, StoreTypeOK
<1>3. ASSUME NEW p \in Promoters, RunChecks(p) PROVE TypeOK'
    BY <1>3, ReportWritten, VerdictType DEF RunChecks, TypeOK, StoreTypeOK
<1>4. ASSUME NEW p \in Promoters, PersistReport(p) PROVE TypeOK'
  <2>1. contract' \in [Promoters -> ContractReport]
    <3>1. CASE contract' = contract
        BY <3>1 DEF TypeOK, StoreTypeOK
    <3>2. CASE WriteReport(p, contract[p].verdict, "plain")
        BY <3>2, ReportWritten, VerdictType
    <3> QED
        BY <1>4, <3>1, <3>2 DEF PersistReport
  <2> QED
      BY <1>4, <2>1 DEF PersistReport, TypeOK, StoreTypeOK
<1>5. ASSUME NEW p \in Promoters, AcquireMatrixLock(p) PROVE TypeOK'
    BY <1>5 DEF AcquireMatrixLock, TypeOK, StoreTypeOK
<1>6. ASSUME NEW p \in Promoters, ValidateLockedEntry(p) PROVE TypeOK'
    BY <1>6, TypeLeave DEF ValidateLockedEntry, storeVars, TypeOK, StoreTypeOK
<1>7. ASSUME NEW p \in Promoters, CheckSupportingRuns(p) PROVE TypeOK'
  <2>1. CASE Leave(p, "rejected") \/ Leave(p, "errored")
      BY <1>7, <2>1, TypeLeave DEF CheckSupportingRuns, TypeOK
  <2>2. CASE ~(Leave(p, "rejected") \/ Leave(p, "errored"))
    <3>1. PICK i \in Slots : raw' = [raw EXCEPT ![p] = Mark(raw[p], i, "verified", p)]
        BY <1>7, <2>2 DEF CheckSupportingRuns
    <3>2. Mark(raw[p], i, "verified", p) \in [Slots -> Row]
        BY RowMarked DEF Statuses, TypeOK
    <3>3. raw' \in [Promoters -> [Slots -> Row]]
        BY <3>1, <3>2 DEF TypeOK
    <3> QED
        BY <1>7, <2>2, <3>3 DEF CheckSupportingRuns, storeVars, TypeOK, StoreTypeOK
  <2> QED
      BY <2>1, <2>2
<1>8. ASSUME NEW p \in Promoters, StageMatrix(p) PROVE TypeOK'
    BY <1>8, TypeLeave DEF StageMatrix, storeVars, TypeOK, StoreTypeOK
<1>9. ASSUME NEW p \in Promoters, ReplaceMatrix(p) PROVE TypeOK'
  <2>1. CASE Leave(p, "rejected")
      BY <1>9, <2>1, TypeLeave DEF ReplaceMatrix, TypeOK
  <2>2. CASE ~Leave(p, "rejected")
      BY <1>9, <2>2 DEF ReplaceMatrix, TypeOK, StoreTypeOK
  <2> QED
      BY <2>1, <2>2
<1>10. ASSUME NEW p \in Promoters, ReloadPromotedEntry(p) PROVE TypeOK'
    BY <1>10, TypeLeave DEF ReloadPromotedEntry, TypeOK
<1>11. ASSUME NEW p \in Promoters, ReopenReport(p) PROVE TypeOK'
  <2>1. contract' \in [Promoters -> ContractReport]
    <3>1. CASE contract' = contract
        BY <3>1 DEF TypeOK, StoreTypeOK
    <3>2. CASE WriteReport(p, contract[p].verdict, "retorn")
        BY <3>2, ReportWritten, VerdictType
    <3> QED
        BY <1>11, <3>1, <3>2 DEF ReopenReport
  <2> QED
      BY <1>11, <2>1 DEF ReopenReport, TypeOK, StoreTypeOK
<1>12. ASSUME NEW p \in Promoters, PersistPromotedReport(p) PROVE TypeOK'
  <2>1. contract' \in [Promoters -> ContractReport]
    <3>1. CASE contract' = contract
        BY <3>1 DEF TypeOK, StoreTypeOK
    <3>2. CASE WriteReport(p, contract[p].verdict, "promoted")
        BY <3>2, ReportWritten, VerdictType
    <3> QED
        BY <1>12, <3>1, <3>2 DEF PersistPromotedReport
  <2> QED
      BY <1>12, <2>1 DEF PersistPromotedReport, TypeOK, StoreTypeOK
<1>13. ASSUME NEW p \in Promoters, Crash(p) PROVE TypeOK'
    BY <1>13, InitialMatrix DEF Crash, TypeOK, StoreTypeOK
<1>14. ASSUME StoreNext, UNCHANGED ownVars PROVE TypeOK'
  <2>2. ASSUME NEW f \in SupportRuns,
               StartSupportRun(f) \/ PreflightContract(f) \/ PersistSupportRecord(f)
        PROVE  StoreTypeOK'
    <3>1. support' \in [SupportRuns -> SupportReport]
        BY <2>2, SupportRecord DEF TypeOK, StoreTypeOK
    <3>2. UNCHANGED <<matrix, matrixLock, registry, contract, edits>>
        BY <2>2 DEF StartSupportRun, PreflightContract, PersistSupportRecord
    <3> QED
        BY <3>1, <3>2 DEF TypeOK, StoreTypeOK
  <2>5. ASSUME NEW c \in Contexts, AddDraftRow(c) PROVE StoreTypeOK'
      BY <2>5, StoreBounds DEF AddDraftRow, MayEdit, TypeOK, StoreTypeOK, Row, Statuses
  <2>6. ASSUME NEW i \in Slots, DeprecateRow(i) PROVE StoreTypeOK'
      BY <2>6, StoreBounds DEF DeprecateRow, MayEdit, Mark, Row, TypeOK, StoreTypeOK, Statuses
  <2>7. ASSUME NEW key \in Keys, NEW versions \in Modules, ReleaseModules(key, versions)
        PROVE StoreTypeOK'
      BY <2>7, StoreBounds DEF ReleaseModules, TypeOK, StoreTypeOK
  <2> QED
      BY <1>14, <2>2, <2>5, <2>6, <2>7 DEF StoreNext, ownVars, TypeOK
<1>15. ASSUME UNCHANGED vars PROVE TypeOK'
    BY <1>15 DEF vars, ownVars, storeVars, TypeOK, StoreTypeOK
<1> QED
    BY <1>1, <1>2, <1>3, <1>4, <1>5, <1>6, <1>7, <1>8, <1>9, <1>10, <1>11, <1>12,
       <1>13, <1>14, <1>15 DEF Next, Step, Quiescent

\* Every reachable state has its types.
THEOREM TypeCorrect == Spec => []TypeOK
BY TypeInit, TypeStep, PTL DEF Spec
-----------------------------------------------------------------------------
\* What one step can do to each part of the state.

\* A promoter that has committed stays so.
LEMMA PcMoves ==
    ASSUME TypeOK, [Next]_vars, NEW q \in Promoters, pc[q] \in Committed
    PROVE  pc'[q] \in Committed
<1> USE DEF Committed, Ended, Goto
<1>1. ASSUME NEW p \in Promoters, LoadRegistry(p) \/ Step(p) \/ Crash(p)
      PROVE  pc'[q] \in Committed
    BY <1>1 DEF TypeOK, Step, LoadRegistry, SelectMatrixEntry, RunChecks, PersistReport,
                AcquireMatrixLock, ValidateLockedEntry, CheckSupportingRuns, StageMatrix,
                ReplaceMatrix, ReloadPromotedEntry, ReopenReport, PersistPromotedReport,
                Crash, Leave
<1> QED
    BY <1>1 DEF Next, Quiescent, vars, ownVars

\* A suite that has succeeded in a context has done so for good.
LEMMA SupportMoves ==
    ASSUME TypeOK, [Next]_vars, NEW c, NEW suite, SuiteProven(c, suite)
    PROVE  SuiteProven(c, suite)'
<1>1. PICK f \in SupportRuns :
          SuiteOf[f] = suite /\ support[f].ctx = c /\ support[f].content = "success"
    BY DEF SuiteProven
<1>2. support'[f] = support[f]
  <2>1. ASSUME NEW p \in Promoters, LoadRegistry(p) \/ Step(p) \/ Crash(p)
        PROVE  support' = support
      BY <2>1 DEF Step, LoadRegistry, SelectMatrixEntry, RunChecks, PersistReport,
                  AcquireMatrixLock, ValidateLockedEntry, CheckSupportingRuns, StageMatrix,
                  ReplaceMatrix, ReloadPromotedEntry, ReopenReport, PersistPromotedReport,
                  Crash, Leave, storeVars
  <2>2. ASSUME NEW g \in SupportRuns,
               StartSupportRun(g) \/ PreflightContract(g) \/ PersistSupportRecord(g)
        PROVE  support'[f] = support[f]
      BY <1>1, <2>2 DEF StartSupportRun, PreflightContract, PersistSupportRecord, View,
                        TypeOK, StoreTypeOK
  <2> QED
      BY <2>1, <2>2 DEF Next, StoreNext, AddDraftRow, DeprecateRow, ReleaseModules,
                        Quiescent, vars, storeVars
<1> QED
    BY <1>1, <1>2 DEF SuiteProven

\* A row changes by a new draft or a new status that leave its stamp out of it, or
\* because somebody's copy replaces the file.
LEMMA MatrixMoves ==
    ASSUME TypeOK, [Next]_vars, NEW i \in Slots
    PROVE  \/ matrix'[i].stamp \notin Promoters
           \/ matrix'[i].stamp = matrix[i].stamp /\ matrix'[i].ctx = matrix[i].ctx
           \/ \E p \in Promoters : /\ pc[p] = "replacing" /\ pc'[p] = "committed"
                                   /\ matrix'[i] = raw[p][i]
<1>1. ASSUME NEW p \in Promoters, ReplaceMatrix(p)
      PROVE  matrix' = matrix \/ (/\ pc[p] = "replacing" /\ pc'[p] = "committed"
                                  /\ matrix' = raw[p])
    BY <1>1 DEF ReplaceMatrix, Leave, Goto, TypeOK
<1>2. ASSUME NEW p \in Promoters, LoadRegistry(p) \/ Step(p) \/ Crash(p), ~ReplaceMatrix(p)
      PROVE  matrix' = matrix
    BY <1>2 DEF Step, LoadRegistry, SelectMatrixEntry, RunChecks, PersistReport,
                AcquireMatrixLock, ValidateLockedEntry, CheckSupportingRuns, StageMatrix,
                ReloadPromotedEntry, ReopenReport, PersistPromotedReport, Crash, Leave,
                storeVars
<1>3. ASSUME NEW c \in Contexts, AddDraftRow(c)
      PROVE  matrix'[i] = matrix[i] \/ matrix'[i].stamp = None
    BY <1>3 DEF AddDraftRow, TypeOK, StoreTypeOK
<1>4. ASSUME NEW j \in Slots, DeprecateRow(j)
      PROVE  matrix'[i].stamp = matrix[i].stamp /\ matrix'[i].ctx = matrix[i].ctx
    BY <1>4 DEF DeprecateRow, Mark, TypeOK, StoreTypeOK
<1>5. ASSUME NEW f \in SupportRuns,
             StartSupportRun(f) \/ PreflightContract(f) \/ PersistSupportRecord(f)
      PROVE  matrix' = matrix
    BY <1>5 DEF StartSupportRun, PreflightContract, PersistSupportRecord, View
<1>6. ASSUME NEW key \in Keys, NEW versions \in Modules, ReleaseModules(key, versions)
      PROVE  matrix' = matrix
    BY <1>6 DEF ReleaseModules
<1> QED
    BY <1>1, <1>2, <1>3, <1>4, <1>5, <1>6, NoValue
       DEF Next, StoreNext, Quiescent, vars, storeVars

\* A copy is taken from the file under the lock, gets its own promoter's stamp when
\* the evidence is there, and is dropped when the critical section is left.
LEMMA CopyMoves ==
    ASSUME TypeOK, [Next]_vars, NEW p \in Promoters, NEW i \in Slots
    PROVE  \/ raw'[p][i].stamp \notin Promoters
           \/ /\ raw'[p][i] = raw[p][i]
              /\ pc[p] \in {"staging", "replacing"} =>
                    pc'[p] \in {"staging", "replacing", "committed"}
           \/ raw'[p][i] = matrix[i] /\ pc[p] = "locked"
           \/ /\ pc[p] = "evidence" /\ pc'[p] = "staging"
              /\ raw'[p][i].stamp = p /\ raw'[p][i].ctx = snap[p]
              /\ contract[p].verdict = "success"
              /\ \A suite \in Supporting(snap[p]) : RunFound(snap[p], suite)
              /\ UNCHANGED <<contract, support>>
<1> DEFINE Moved == \/ raw'[p][i].stamp \notin Promoters
                    \/ /\ raw'[p][i] = raw[p][i]
                       /\ pc[p] \in {"staging", "replacing"} =>
                             pc'[p] \in {"staging", "replacing", "committed"}
<1>1. ASSUME NEW q \in Promoters, NEW outcome, Leave(q, outcome) PROVE Moved
  <2>1. CASE q = p
      BY <1>1, <2>1, InitialMatrix DEF Leave, TypeOK
  <2>2. CASE q # p
      BY <1>1, <2>2 DEF Leave, Goto, TypeOK
  <2> QED
      BY <2>1, <2>2
<1>2. ASSUME NEW q \in Promoters, Crash(q) PROVE Moved
  <2>1. CASE q = p
      BY <1>2, <2>1, InitialMatrix DEF Crash, TypeOK
  <2>2. CASE q # p
      BY <1>2, <2>2 DEF Crash, Goto, TypeOK
  <2> QED
      BY <2>1, <2>2
<1>3. ASSUME NEW q \in Promoters,
             \/ LoadRegistry(q) \/ SelectMatrixEntry(q) \/ RunChecks(q) \/ PersistReport(q)
             \/ AcquireMatrixLock(q) \/ ReopenReport(q) \/ PersistPromotedReport(q)
      PROVE  Moved
    BY <1>3 DEF LoadRegistry, SelectMatrixEntry, RunChecks, PersistReport,
                AcquireMatrixLock, ReopenReport, PersistPromotedReport, Goto, TypeOK
<1>4. ASSUME StoreNext, UNCHANGED ownVars PROVE Moved
    BY <1>4 DEF ownVars
<1>5. ASSUME NEW q \in Promoters, StageMatrix(q) \/ ReplaceMatrix(q) \/ ReloadPromotedEntry(q)
      PROVE  Moved
  <2>1. CASE \E outcome \in {"rejected", "errored", "unlocked"} : Leave(q, outcome)
      BY <1>1, <2>1
  <2>2. CASE ~\E outcome \in {"rejected", "errored", "unlocked"} : Leave(q, outcome)
      BY <1>5, <2>2 DEF StageMatrix, ReplaceMatrix, ReloadPromotedEntry, Goto, TypeOK
  <2> QED
      BY <2>1, <2>2
<1>6. ASSUME NEW q \in Promoters, ValidateLockedEntry(q)
      PROVE  Moved \/ (raw'[p][i] = matrix[i] /\ pc[p] = "locked")
  <2>1. CASE Leave(q, "rejected") \/ Leave(q, "errored")
      BY <1>1, <2>1
  <2>2. CASE raw' = [raw EXCEPT ![q] = matrix] /\ Goto(q, "evidence")
      BY <1>6, <2>2 DEF ValidateLockedEntry, Goto, TypeOK
  <2> QED
      BY <1>6, <2>1, <2>2 DEF ValidateLockedEntry
<1>7. ASSUME NEW q \in Promoters, CheckSupportingRuns(q)
      PROVE  \/ Moved
             \/ /\ pc[p] = "evidence" /\ pc'[p] = "staging"
                /\ raw'[p][i].stamp = p /\ raw'[p][i].ctx = snap[p]
                /\ contract[p].verdict = "success"
                /\ \A suite \in Supporting(snap[p]) : RunFound(snap[p], suite)
                /\ UNCHANGED <<contract, support>>
  <2>1. CASE Leave(q, "rejected") \/ Leave(q, "errored")
      BY <1>1, <2>1
  <2>2. CASE ~(Leave(q, "rejected") \/ Leave(q, "errored"))
    <3>1. PICK j \in Slots : Promotable(q, raw[q], j)
                           /\ raw' = [raw EXCEPT ![q] = Mark(raw[q], j, "verified", q)]
        BY <1>7, <2>2 DEF CheckSupportingRuns
    <3>2. /\ pc[q] = "evidence" /\ Goto(q, "staging") /\ UNCHANGED <<contract, support>>
          /\ \A suite \in Supporting(snap[q]) : RunFound(snap[q], suite)
        BY <1>7, <2>2 DEF CheckSupportingRuns, storeVars
    <3>3. raw[q][j].ctx = snap[q] /\ contract[q].verdict = "success"
        BY <3>1 DEF Promotable, IsFirst, RowsOf
    <3>4. CASE q = p /\ j = i
        BY <3>1, <3>2, <3>3, <3>4 DEF Goto, Mark, TypeOK
    <3>5. CASE q = p /\ j # i
        BY <3>1, <3>2, <3>5 DEF Goto, Mark, TypeOK
    <3>6. CASE q # p
        BY <3>1, <3>2, <3>6 DEF Goto, TypeOK
    <3> QED
        BY <3>4, <3>5, <3>6
  <2> QED
      BY <2>1, <2>2
<1>8. UNCHANGED vars => Moved
    BY DEF vars, ownVars
<1> QED
    BY <1>2, <1>3, <1>4, <1>5, <1>6, <1>7, <1>8 DEF Next, Step, Quiescent

\* The report of a promoter that may have stamped a row: only its content changes, and
\* it is unreadable only while its promoter rewrites it or after that was cut short.
LEMMA ReportMoves ==
    ASSUME TypeOK, ReportInv, [Next]_vars, NEW q \in Promoters,
           pc[q] \in Committed \cup {"staging", "replacing"}
    PROVE  /\ contract'[q].ctx = contract[q].ctx
           /\ contract'[q].verdict = contract[q].verdict
           /\ \/ contract[q].content \in Readable
              \/ contract[q].content = "retorn" /\ pc[q] \in {"rewriting", "errored", "crashed"}
              => \/ contract'[q].content \in Readable
                 \/ contract'[q].content = "retorn" /\ pc'[q] \in {"rewriting", "errored", "crashed"}
<1> USE DEF Readable
<1>1. ASSUME contract'[q] = contract[q],
             pc[q] \in {"rewriting", "errored", "crashed"} =>
                 pc'[q] \in {"rewriting", "errored", "crashed"}
      PROVE  /\ contract'[q].ctx = contract[q].ctx
             /\ contract'[q].verdict = contract[q].verdict
             /\ \/ contract[q].content \in Readable
                \/ contract[q].content = "retorn" /\ pc[q] \in {"rewriting", "errored", "crashed"}
                => \/ contract'[q].content \in Readable
                   \/ contract'[q].content = "retorn" /\ pc'[q] \in {"rewriting", "errored", "crashed"}
    BY <1>1
<1>2. ASSUME NEW p \in Promoters,
             \/ LoadRegistry(p) \/ SelectMatrixEntry(p) \/ AcquireMatrixLock(p)
             \/ ValidateLockedEntry(p) \/ CheckSupportingRuns(p) \/ StageMatrix(p)
             \/ ReplaceMatrix(p) \/ ReloadPromotedEntry(p) \/ Crash(p)
      PROVE  /\ contract' = contract
             /\ pc[q] \in {"rewriting", "errored", "crashed"} =>
                    pc'[q] \in {"rewriting", "errored", "crashed"}
    BY <1>2 DEF LoadRegistry, SelectMatrixEntry, AcquireMatrixLock, ValidateLockedEntry,
                CheckSupportingRuns, StageMatrix, ReplaceMatrix, ReloadPromotedEntry, Crash,
                Leave, Goto, Ended, storeVars, TypeOK
<1>3. ASSUME NEW p \in Promoters, RunChecks(p) \/ PersistReport(p)
      PROVE  contract'[q] = contract[q] /\ pc'[q] = pc[q]
    BY <1>3 DEF RunChecks, PersistReport, WriteReport, Goto, Committed, TypeOK, StoreTypeOK
<1>4. ASSUME NEW p \in Promoters, ReopenReport(p) \/ PersistPromotedReport(p), p # q
      PROVE  contract'[q] = contract[q] /\ pc'[q] = pc[q]
    BY <1>4 DEF ReopenReport, PersistPromotedReport, WriteReport, Goto, TypeOK, StoreTypeOK
<1>5. CASE ReopenReport(q)
  <2>1. CASE contract' = contract /\ Goto(q, "errored")
      BY <1>5, <2>1 DEF ReopenReport, Goto, TypeOK
  <2>2. CASE WriteReport(q, contract[q].verdict, "retorn") /\ Goto(q, "rewriting")
    <3>1. contract'[q] = [ctx |-> snap[q], verdict |-> contract[q].verdict,
                          content |-> "retorn"]
        BY <2>2, ReportWritten, VerdictType
    <3>2. contract[q].ctx = snap[q]
        BY <1>5 DEF ReopenReport, ReportInv, OwnReport
    <3> QED
        BY <2>2, <3>1, <3>2 DEF Goto, TypeOK
  <2> QED
      BY <1>5, <2>1, <2>2 DEF ReopenReport
<1>6. CASE PersistPromotedReport(q)
  <2>1. CASE contract' = contract /\ Goto(q, "errored")
      BY <1>6, <2>1 DEF PersistPromotedReport, Goto, TypeOK
  <2>2. CASE WriteReport(q, contract[q].verdict, "promoted") /\ Goto(q, "promoted")
    <3>1. contract'[q] = [ctx |-> snap[q], verdict |-> contract[q].verdict,
                          content |-> "promoted"]
        BY <2>2, ReportWritten, VerdictType
    <3>2. contract[q].ctx = snap[q]
        BY <1>6 DEF PersistPromotedReport, ReportInv, OwnReport
    <3> QED
        BY <2>2, <3>1, <3>2 DEF Goto, TypeOK
  <2> QED
      BY <1>6, <2>1, <2>2 DEF PersistPromotedReport
<1>7. ASSUME StoreNext, UNCHANGED ownVars
      PROVE  contract' = contract /\ pc' = pc
    BY <1>7 DEF StoreNext, StartSupportRun, PreflightContract, PersistSupportRecord, View,
                AddDraftRow, DeprecateRow, ReleaseModules, ownVars
<1>8. UNCHANGED vars => contract' = contract /\ pc' = pc
    BY DEF vars, storeVars, ownVars
<1> QED
    BY <1>1, <1>2, <1>3, <1>4, <1>5, <1>6, <1>7, <1>8 DEF Next, Step, Quiescent
-----------------------------------------------------------------------------
\* The inductive invariant.

\* At the start no row is stamped and no report written, so nothing is owed evidence.
LEMMA InvInit == Init => Inv
<1> SUFFICES ASSUME Init PROVE Inv
    OBVIOUS
<1>1. TypeOK
    BY TypeInit
<1>2. ReportInv
    BY DEF Init, StoreInit, ReportInv, OwnReport, Holding
<1>3. StampInv
    BY InitialMatrix DEF Init, StoreInit, StampInv
<1>4. CopiesBacked /\ VerifiedHasEvidence
    BY InitialMatrix DEF Init, StoreInit, CopiesBacked, VerifiedHasEvidence, EvidenceBacked
<1> QED
    BY <1>1, <1>2, <1>3, <1>4 DEF Inv

\* A report stays its owner's: what a later stage of the run finds is what it wrote.
LEMMA ReportStep == TypeOK /\ ReportInv /\ [Next]_vars => ReportInv'
<1> SUFFICES ASSUME TypeOK, ReportInv, [Next]_vars, NEW q \in Promoters
             PROVE  OwnReport(q)'
    BY DEF ReportInv, OwnReport
<1> USE DEF Goto, Holding
<1>1. ASSUME NEW p \in Promoters, p # q, LoadRegistry(p) \/ Step(p) \/ Crash(p)
      PROVE  pc'[q] = pc[q] /\ contract'[q] = contract[q] /\ snap'[q] = snap[q]
    BY <1>1 DEF Step, LoadRegistry, SelectMatrixEntry, RunChecks, PersistReport,
                AcquireMatrixLock, ValidateLockedEntry, CheckSupportingRuns, StageMatrix,
                ReplaceMatrix, ReloadPromotedEntry, ReopenReport, PersistPromotedReport,
                Crash, Leave, WriteReport, storeVars, TypeOK, StoreTypeOK
<1>2. CASE \/ LoadRegistry(q) \/ SelectMatrixEntry(q) \/ AcquireMatrixLock(q)
           \/ ValidateLockedEntry(q) \/ CheckSupportingRuns(q) \/ StageMatrix(q)
           \/ ReplaceMatrix(q) \/ ReloadPromotedEntry(q) \/ Crash(q)
    BY <1>2 DEF LoadRegistry, SelectMatrixEntry, AcquireMatrixLock, ValidateLockedEntry,
                CheckSupportingRuns, StageMatrix, ReplaceMatrix, ReloadPromotedEntry,
                Crash, Leave, storeVars, ReportInv, OwnReport, Ended, TypeOK, StoreTypeOK
<1>3. CASE RunChecks(q) \/ PersistReport(q) \/ ReopenReport(q) \/ PersistPromotedReport(q)
  <2>1. CASE contract' = contract /\ pc'[q] = "errored"
      BY <1>3, <2>1 DEF RunChecks, PersistReport, ReopenReport, PersistPromotedReport,
                        ReportInv, OwnReport
  <2>2. ASSUME NEW verdict \in {"success", "failed", "none"},
               NEW content \in {"torn", "plain", "retorn", "promoted"},
               WriteReport(q, verdict, content), snap' = snap,
               <<content, pc'[q]>> \in {<<"torn", "writing">>, <<"plain", "waiting">>,
                                       <<"plain", "reported">>, <<"plain", "errored">>,
                                       <<"retorn", "rewriting">>, <<"promoted", "promoted">>}
        PROVE  OwnReport(q)'
    <3>1. content \in {"absent", "torn", "plain", "retorn", "promoted"}
        OBVIOUS
    <3>2. contract'[q] = [ctx |-> snap[q], verdict |-> verdict, content |-> content]
        BY <2>2, <3>1, ReportWritten
    <3> QED
        BY <2>2, <3>2 DEF OwnReport
  <2>3. CASE RunChecks(q)
      BY <2>2, <2>3 DEF RunChecks, TypeOK
  <2>4. CASE PersistReport(q)
      BY <2>1, <2>2, <2>4, VerdictType DEF PersistReport, TypeOK
  <2>5. CASE ReopenReport(q)
      BY <2>1, <2>2, <2>5, VerdictType DEF ReopenReport, TypeOK
  <2>6. CASE PersistPromotedReport(q)
      BY <2>1, <2>2, <2>6, VerdictType DEF PersistPromotedReport, TypeOK
  <2> QED
      BY <1>3, <2>3, <2>4, <2>5, <2>6
<1>4. ASSUME StoreNext, UNCHANGED ownVars
      PROVE  contract' = contract /\ pc' = pc /\ snap' = snap
    BY <1>4 DEF StoreNext, StartSupportRun, PreflightContract, PersistSupportRecord, View,
                AddDraftRow, DeprecateRow, ReleaseModules, ownVars
<1>5. UNCHANGED vars => contract' = contract /\ pc' = pc /\ snap' = snap
    BY DEF vars, storeVars, ownVars
<1> QED
    BY <1>1, <1>2, <1>3, <1>4, <1>5 DEF Next, Step, Quiescent, ReportInv, OwnReport

\* A row carries a promoter's stamp only once that promoter has replaced the file, and
\* a copy only from when its promoter stages it.
LEMMA StampStep == TypeOK /\ StampInv /\ [Next]_vars => StampInv'
<1> SUFFICES ASSUME TypeOK, StampInv, [Next]_vars, NEW p \in Promoters, NEW i \in Slots
             PROVE  /\ matrix'[i].stamp = p => pc'[p] \in Committed
                    /\ \A q \in Promoters :
                          raw'[q][i].stamp = p =>
                              \/ pc'[p] \in Committed
                              \/ q = p /\ pc'[p] \in {"staging", "replacing"}
    BY DEF StampInv
<1>1. ASSUME matrix'[i].stamp = p PROVE pc'[p] \in Committed
  <2>1. CASE matrix'[i].stamp = matrix[i].stamp
      BY <1>1, <2>1, PcMoves DEF StampInv
  <2>2. CASE \E q \in Promoters :
                /\ pc[q] = "replacing"
                /\ pc'[q] = "committed"
                /\ matrix'[i] = raw[q][i]
    <3>1. PICK q \in Promoters :
                /\ pc[q] = "replacing"
                /\ pc'[q] = "committed"
                /\ matrix'[i] = raw[q][i]
        BY <2>2
    <3>2. pc[p] \in Committed \/ q = p
        BY <1>1, <3>1 DEF StampInv
    <3> QED
        BY <3>1, <3>2, PcMoves DEF Committed
  <2> QED
      BY <1>1, <2>1, <2>2, MatrixMoves
<1>2. ASSUME NEW q \in Promoters, raw'[q][i].stamp = p
      PROVE  pc'[p] \in Committed \/ (q = p /\ pc'[p] \in {"staging", "replacing"})
  <2>1. CASE /\ raw'[q][i] = raw[q][i]
             /\ pc[q] \in {"staging", "replacing"} =>
                   pc'[q] \in {"staging", "replacing", "committed"}
    <3>1. pc[p] \in Committed \/ (q = p /\ pc[p] \in {"staging", "replacing"})
        BY <1>2, <2>1 DEF StampInv
    <3> QED
        BY <2>1, <3>1, PcMoves DEF Committed
  <2>2. CASE raw'[q][i] = matrix[i]
      BY <1>2, <2>2, PcMoves DEF StampInv
  <2>3. CASE raw'[q][i].stamp = q /\ pc'[q] = "staging"
      BY <1>2, <2>3
  <2> QED
      BY <1>2, <2>1, <2>2, <2>3, CopyMoves
<1> QED
    BY <1>1, <1>2

\* Evidence that a row has now, it has after the step.
LEMMA EvidenceKept ==
    ASSUME TypeOK, ReportInv, [Next]_vars, NEW row, EvidenceBacked(row),
           row.stamp \in Promoters => pc[row.stamp] \in Committed \cup {"staging", "replacing"}
    PROVE  EvidenceBacked(row)'
<1> SUFFICES ASSUME row.stamp \in Promoters PROVE EvidenceBacked(row)'
    BY DEF EvidenceBacked
<1>1. \A suite \in Supporting(row.ctx) : SuiteProven(row.ctx, suite)'
    BY SupportMoves DEF EvidenceBacked
<1> QED
    BY <1>1, ReportMoves DEF EvidenceBacked

\* What is verified, in the file and in every copy, keeps the evidence it rests on.
LEMMA EvidenceStep == Inv /\ [Next]_vars => CopiesBacked' /\ VerifiedHasEvidence'
<1> SUFFICES ASSUME Inv, [Next]_vars PROVE CopiesBacked' /\ VerifiedHasEvidence'
    OBVIOUS
<1> USE DEF Inv
<1> DEFINE Fit(row) == row.stamp \in Promoters =>
                          pc[row.stamp] \in Committed \cup {"staging", "replacing"}
<1>1. \A i \in Slots : EvidenceBacked(matrix[i]) /\ Fit(matrix[i])
    BY DEF VerifiedHasEvidence, StampInv
<1>2. \A p \in Promoters, i \in Slots : EvidenceBacked(raw[p][i]) /\ Fit(raw[p][i])
    BY DEF CopiesBacked, StampInv
<1> DEFINE Later(ctx, stamp) ==
              stamp \in Promoters =>
                  /\ contract'[stamp].ctx = ctx
                  /\ contract'[stamp].verdict = "success"
                  /\ \/ contract'[stamp].content \in Readable
                     \/ /\ contract'[stamp].content = "retorn"
                        /\ pc'[stamp] \in {"rewriting", "errored", "crashed"}
                  /\ \A suite \in Supporting(ctx) : \E f \in SupportRuns :
                        SuiteOf[f] = suite /\ support'[f].ctx = ctx /\ support'[f].content = "success"
<1>3. \A row : EvidenceBacked(row) /\ Fit(row) => Later(row.ctx, row.stamp)
    BY EvidenceKept DEF EvidenceBacked, SuiteProven, Readable
<1>4. \A ctx, stamp : stamp \notin Promoters => Later(ctx, stamp)
    OBVIOUS
<1>5. ASSUME NEW i \in Slots PROVE Later(matrix'[i].ctx, matrix'[i].stamp)
  <2> HIDE DEF Later
  <2>1. CASE matrix'[i].stamp = matrix[i].stamp /\ matrix'[i].ctx = matrix[i].ctx
      BY <1>1, <1>3, <2>1
  <2>2. CASE \E p \in Promoters : matrix'[i] = raw[p][i]
      BY <1>2, <1>3, <2>2
  <2> QED
      BY <1>4, <2>1, <2>2, MatrixMoves
<1>6. ASSUME NEW p \in Promoters, NEW i \in Slots
      PROVE  Later(raw'[p][i].ctx, raw'[p][i].stamp)
  <2>1. CASE raw'[p][i] = raw[p][i]
    <3> HIDE DEF Later
    <3> QED
        BY <1>2, <1>3, <2>1
  <2>2. CASE raw'[p][i] = matrix[i]
    <3> HIDE DEF Later
    <3> QED
        BY <1>1, <1>3, <2>2
  <2>3. CASE /\ pc[p] = "evidence" /\ raw'[p][i].stamp = p /\ raw'[p][i].ctx = snap[p]
             /\ contract[p].verdict = "success"
             /\ \A suite \in Supporting(snap[p]) : RunFound(snap[p], suite)
             /\ UNCHANGED <<contract, support>>
    <3>1. contract[p].ctx = snap[p] /\ contract[p].content = "plain"
        BY <2>3 DEF ReportInv, OwnReport, Holding
    <3> QED
        BY <2>3, <3>1 DEF RunFound, Readable
  <2> HIDE DEF Later
  <2> QED
      BY <1>4, <2>1, <2>2, <2>3, CopyMoves
<1> QED
    BY <1>5, <1>6 DEF CopiesBacked, VerifiedHasEvidence, EvidenceBacked, SuiteProven, Readable

\* The invariant holds of every reachable state.
THEOREM Inductive == Spec => []Inv
<1>1. Inv /\ [Next]_vars => Inv'
    BY TypeStep, ReportStep, StampStep, EvidenceStep DEF Inv
<1> QED
    BY InvInit, <1>1, PTL DEF Spec

\* A row that a promoter verified rests on its successful contract run and on a record
\* of every suite the row requires, whatever the operators edit meanwhile.
THEOREM EvidenceAlways == Spec => []VerifiedHasEvidence
BY Inductive, PTL DEF Inv

\* A promotion refused with CompatibilityPromotionError has changed no row, and nobody
\* who copied the file meanwhile writes a row of its later.
THEOREM RejectionsLeaveNoTrace == Spec => []RejectedLeavesNoTrace
<1>1. Inv => RejectedLeavesNoTrace
    BY DEF Inv, StampInv, RejectedLeavesNoTrace, Committed
<1> QED
    BY <1>1, Inductive, PTL

-----------------------------------------------------------------------------
(***************************************************************************)
(* Operators who edit the matrix only while its lock is free (EditsWait):  *)
(* no update is lost, a context is promoted once, a report that says       *)
(* promoted is true, and the promotion implements MatrixLifecycle.  The    *)
(* inductive invariant says that one promoter at most is in the critical   *)
(* section, and that its copy is the file as it stands, with at most its   *)
(* own row marked.                                                         *)
(***************************************************************************)

\* The flock lets one promoter in.
Mutex == \A p \in Promoters : pc[p] \in Holding => matrixLock = p

\* The copy of the promoter in the critical section.
Faithful ==
    \A p \in Promoters :
        /\ pc[p] = "evidence" => raw[p] = matrix
        /\ pc[p] \in {"staging", "replacing"} =>
              \E i \in Slots : Promotable(p, matrix, i) /\ raw[p] = Mark(matrix, i, "verified", p)

\* The file is a list without gaps, in which a promoter's row is the first of its context.
Filed ==
    \A i \in Slots :
        /\ matrix[i].status = "absent" <=> matrix[i].ctx = None
        /\ matrix[i].status = "absent" => \A j \in Slots : i < j => matrix[j].status = "absent"
        /\ matrix[i].stamp \in Promoters =>
              /\ matrix[i].status \in {"verified", "deprecated"}
              /\ IsFirst(i, RowsOf(matrix, matrix[i].ctx))

\* A promoter that has replaced the file finds its row in it.
Present ==
    \A p \in Promoters :
        /\ pc[p] \in {"committed", "unlocked", "rewriting", "promoted"} =>
              \E i \in Slots : matrix[i].stamp = p /\ matrix[i].ctx = snap[p]
        /\ pc[p] = "promoted" => contract[p].ctx = snap[p]

\* A run has a context from when it has selected a row, and a report from its checks on.
Begun ==
    /\ \A p \in Promoters :
          /\ pc[p] \in {"checking", "writing", "waiting", "unlocked", "rewriting"} \cup Holding =>
                snap[p] \in Contexts
          /\ pc[p] \in {"idle", "loaded", "checking"} =>
                contract[p].content = "absent" /\ contract[p].verdict = "none"
          /\ pc[p] = "writing" => contract[p].content = "torn"
    /\ \A f \in SupportRuns :
          /\ support[f].content # "absent" => support[f].ctx \in Contexts
          /\ support[f].content = "absent" => support[f].preflight = "none"

LockInv == Inv /\ Mutex /\ Faithful /\ Filed /\ Present /\ Begun

-----------------------------------------------------------------------------
\* What one step can do while the flock is respected.

\* What a step of another run, or of the store, leaves alone.
LEMMA OthersStay ==
    ASSUME TypeOK, NEW p \in Promoters, NEW q \in Promoters, p # q,
           LoadRegistry(q) \/ Step(q) \/ Crash(q)
    PROVE  pc'[p] = pc[p] /\ snap'[p] = snap[p] /\ raw'[p] = raw[p] /\ contract'[p] = contract[p]
BY DEF Step, LoadRegistry, SelectMatrixEntry, RunChecks, PersistReport, AcquireMatrixLock,
       ValidateLockedEntry, CheckSupportingRuns, StageMatrix, ReplaceMatrix, ReloadPromotedEntry,
       ReopenReport, PersistPromotedReport, Crash, Leave, Goto, WriteReport, storeVars,
       TypeOK, StoreTypeOK

\* A suite or an operator touches no promoter, no contract report and no lock.
LEMMA StoreStays ==
    ASSUME StoreNext, UNCHANGED ownVars
    PROVE  UNCHANGED <<pc, snap, raw, contract, matrixLock>>
BY DEF StoreNext, StartSupportRun, PreflightContract, PersistSupportRecord, View, AddDraftRow,
       DeprecateRow, ReleaseModules, ownVars

\* Nobody enters while somebody is inside, and who leaves is out.
LEMMA MutexStep == TypeOK /\ Mutex /\ [Next]_vars => Mutex'
<1> SUFFICES ASSUME TypeOK, Mutex, [Next]_vars, NEW p \in Promoters, pc'[p] \in Holding
             PROVE  matrixLock' = p
    BY DEF Mutex
<1> USE DEF Mutex, Holding, Goto
<1>1. ASSUME NEW q \in Promoters, q # p, LoadRegistry(q) \/ Step(q) \/ Crash(q)
      PROVE  matrixLock' = p
  <2>1. pc[p] \in Holding /\ matrixLock = p /\ q # None
      BY <1>1, OthersStay, NoValue
  <2>2. pc[q] \notin Holding
      BY <1>1, <2>1
  <2> QED
      BY <1>1, <2>1, <2>2, NoValue
         DEF Step, LoadRegistry, SelectMatrixEntry, RunChecks, PersistReport, AcquireMatrixLock,
             ValidateLockedEntry, CheckSupportingRuns, StageMatrix, ReplaceMatrix,
             ReloadPromotedEntry, ReopenReport, PersistPromotedReport, Crash, storeVars
<1>2. CASE \/ LoadRegistry(p) \/ SelectMatrixEntry(p) \/ RunChecks(p) \/ PersistReport(p)
           \/ ReloadPromotedEntry(p) \/ ReopenReport(p) \/ PersistPromotedReport(p) \/ Crash(p)
    BY <1>2 DEF LoadRegistry, SelectMatrixEntry, RunChecks, PersistReport, ReloadPromotedEntry,
                ReopenReport, PersistPromotedReport, Crash, Leave, Ended, TypeOK
<1>3. CASE AcquireMatrixLock(p)
    BY <1>3 DEF AcquireMatrixLock
<1>4. CASE ValidateLockedEntry(p) \/ CheckSupportingRuns(p) \/ StageMatrix(p) \/ ReplaceMatrix(p)
    BY <1>4 DEF ValidateLockedEntry, CheckSupportingRuns, StageMatrix, ReplaceMatrix, Leave,
                storeVars, TypeOK
<1>5. CASE StoreNext /\ UNCHANGED ownVars
    BY <1>5, StoreStays
<1>6. CASE UNCHANGED vars
    BY <1>6 DEF vars, storeVars, ownVars
<1> QED
    BY <1>1, <1>2, <1>3, <1>4, <1>5, <1>6 DEF Next, Step, Quiescent

\* Somebody edits the file by hand.
Edited ==
    \/ \E c \in Contexts : AddDraftRow(c)
    \/ \E i \in Slots : DeprecateRow(i)

\* The file changes by an edit while the lock is free, or by one row that is verified.
LEMMA FileMoves ==
    ASSUME EditsWait, TypeOK, Faithful, [Next]_vars
    PROVE  \/ UNCHANGED matrix
           \/ Edited /\ UNCHANGED ownVars /\ matrixLock = None
           \/ \E p \in Promoters, i \in Slots :
                 /\ pc[p] = "replacing" /\ pc' = [pc EXCEPT ![p] = "committed"]
                 /\ Promotable(p, matrix, i) /\ matrix' = Mark(matrix, i, "verified", p)
                 /\ UNCHANGED <<snap, contract, support, raw>>
<1>1. ASSUME NEW p \in Promoters, ReplaceMatrix(p), matrix' # matrix
      PROVE  \E i \in Slots :
                 /\ pc[p] = "replacing" /\ pc' = [pc EXCEPT ![p] = "committed"]
                 /\ Promotable(p, matrix, i) /\ matrix' = Mark(matrix, i, "verified", p)
                 /\ UNCHANGED <<snap, contract, support, raw>>
    BY <1>1 DEF ReplaceMatrix, Leave, Goto, Faithful
<1>2. ASSUME NEW p \in Promoters, LoadRegistry(p) \/ Step(p) \/ Crash(p), ~ReplaceMatrix(p)
      PROVE  UNCHANGED matrix
    BY <1>2 DEF Step, LoadRegistry, SelectMatrixEntry, RunChecks, PersistReport,
                AcquireMatrixLock, ValidateLockedEntry, CheckSupportingRuns, StageMatrix,
                ReloadPromotedEntry, ReopenReport, PersistPromotedReport, Crash, Leave, storeVars
<1>3. ASSUME StoreNext, UNCHANGED ownVars, ~Edited
      PROVE  UNCHANGED matrix
    BY <1>3 DEF StoreNext, StartSupportRun, PreflightContract, PersistSupportRecord, View,
                ReleaseModules, Edited
<1>4. Edited => matrixLock = None
    BY DEF Edited, AddDraftRow, DeprecateRow, MayEdit
<1> QED
    BY <1>1, <1>2, <1>3, <1>4 DEF Next, Quiescent, vars, storeVars

-----------------------------------------------------------------------------
\* The file keeps its order.

\* A list of rows after the promotion of one of them: contexts and what is absent stay.
LEMMA MarkedList ==
    ASSUME TypeOK, NEW p \in Promoters, NEW i \in Slots, Promotable(p, matrix, i),
           matrix' = Mark(matrix, i, "verified", p)
    PROVE  /\ matrix[i].ctx = snap[p] /\ matrix[i].status = "draft"
           /\ IsFirst(i, RowsOf(matrix, snap[p]))
           /\ matrix'[i] = [ctx |-> matrix[i].ctx, status |-> "verified", stamp |-> p]
           /\ \A j \in Slots \ {i} : matrix'[j] = matrix[j]
BY DEF Promotable, IsFirst, RowsOf, Mark, TypeOK, StoreTypeOK

\* A hand edit adds a draft after all rows, or gives a row another status.
LEMMA EditedList ==
    ASSUME TypeOK, Edited
    PROVE  \/ \E c \in Contexts, i \in Slots :
                 /\ IsFirst(i, {j \in Slots : matrix[j].status = "absent"})
                 /\ matrix'[i] = [ctx |-> c, status |-> "draft", stamp |-> None]
                 /\ \A j \in Slots \ {i} : matrix'[j] = matrix[j]
           \/ \E i \in Slots :
                 /\ matrix[i].status \in {"draft", "verified"}
                 /\ matrix'[i] = [ctx |-> matrix[i].ctx, status |-> "deprecated",
                                  stamp |-> matrix[i].stamp]
                 /\ \A j \in Slots \ {i} : matrix'[j] = matrix[j]
BY DEF Edited, AddDraftRow, DeprecateRow, Mark, TypeOK, StoreTypeOK

\* What Filed says of the file survives a row that is marked, added or deprecated.
LEMMA FiledStep ==
    ASSUME EditsWait, TypeOK, Faithful, Filed, [Next]_vars
    PROVE  Filed'
<1> USE DEF Filed, IsFirst, RowsOf
<1>0. \A j \in Slots : j \in Nat
    BY DEF Slots
<1>1. CASE UNCHANGED matrix
    BY <1>1
<1>2. ASSUME NEW p \in Promoters, NEW i \in Slots, Promotable(p, matrix, i),
             matrix' = Mark(matrix, i, "verified", p)
      PROVE  Filed'
  <2>1. /\ matrix[i].ctx = snap[p] /\ matrix[i].status = "draft"
        /\ \A j \in Slots : matrix[j].status # "absent" /\ matrix[j].ctx = snap[p] => i <= j
        /\ matrix'[i] = [ctx |-> matrix[i].ctx, status |-> "verified", stamp |-> p]
        /\ \A j \in Slots \ {i} : matrix'[j] = matrix[j]
      BY <1>2, MarkedList
  <2>2. \A j \in Slots : /\ matrix'[j].ctx = matrix[j].ctx
                         /\ matrix'[j].status = "absent" <=> matrix[j].status = "absent"
      BY <2>1
  <2> QED
      BY <2>1, <2>2
<1>3. CASE Edited
  <2>1. ASSUME NEW c \in Contexts, NEW i \in Slots,
               IsFirst(i, {j \in Slots : matrix[j].status = "absent"}),
               matrix'[i] = [ctx |-> c, status |-> "draft", stamp |-> None],
               \A j \in Slots \ {i} : matrix'[j] = matrix[j]
        PROVE  Filed'
    <3>1. /\ matrix[i].status = "absent" /\ c # None
          /\ \A j \in Slots : matrix[j].status = "absent" <=> i <= j
        BY <2>1, <1>0, NoValue
    <3> QED
        BY <2>1, <3>1, <1>0, NoValue
  <2>2. ASSUME NEW i \in Slots, matrix[i].status \in {"draft", "verified"},
               matrix'[i] = [ctx |-> matrix[i].ctx, status |-> "deprecated",
                             stamp |-> matrix[i].stamp],
               \A j \in Slots \ {i} : matrix'[j] = matrix[j]
        PROVE  Filed'
    <3>1. \A j \in Slots : /\ matrix'[j].ctx = matrix[j].ctx /\ matrix'[j].stamp = matrix[j].stamp
                           /\ matrix'[j].status = "absent" <=> matrix[j].status = "absent"
        BY <2>2
    <3> QED
        BY <2>2, <3>1
  <2> QED
      BY <1>3, <2>1, <2>2, EditedList
<1> QED
    BY <1>1, <1>2, <1>3, FileMoves

\* A row of a promoter stays where it is.
LEMMA StampStays ==
    ASSUME EditsWait, TypeOK, Faithful, Filed, [Next]_vars,
           NEW p \in Promoters, NEW i \in Slots, matrix[i].stamp = p
    PROVE  matrix'[i].stamp = p /\ matrix'[i].ctx = matrix[i].ctx
<1>1. matrix[i].status \in {"verified", "deprecated"}
    BY DEF Filed
<1>2. ASSUME NEW q \in Promoters, NEW j \in Slots, Promotable(q, matrix, j),
             matrix' = Mark(matrix, j, "verified", q)
      PROVE  matrix'[i] = matrix[i]
    BY <1>1, <1>2, MarkedList
<1>3. ASSUME Edited
      PROVE  matrix'[i].stamp = p /\ matrix'[i].ctx = matrix[i].ctx
  <2>1. ASSUME NEW j \in Slots, IsFirst(j, {k \in Slots : matrix[k].status = "absent"}),
               \A k \in Slots \ {j} : matrix'[k] = matrix[k]
        PROVE  matrix'[i] = matrix[i]
      BY <1>1, <2>1 DEF IsFirst
  <2>2. ASSUME NEW j \in Slots,
               matrix'[j] = [ctx |-> matrix[j].ctx, status |-> "deprecated",
                             stamp |-> matrix[j].stamp],
               \A k \in Slots \ {j} : matrix'[k] = matrix[k]
        PROVE  matrix'[i].stamp = p /\ matrix'[i].ctx = matrix[i].ctx
      BY <2>2
  <2> QED
      BY <1>3, <2>1, <2>2, EditedList
<1>4. matrix' = matrix => matrix'[i].stamp = p /\ matrix'[i].ctx = matrix[i].ctx
    OBVIOUS
<1> QED
    BY <1>2, <1>3, <1>4, FileMoves

-----------------------------------------------------------------------------
\* The copy follows the file.

\* While somebody is inside, nobody else changes the file.
LEMMA FileWaits ==
    ASSUME EditsWait, TypeOK, Mutex, Faithful, [Next]_vars, NEW p \in Promoters,
           pc[p] \in Holding, pc'[p] # "committed"
    PROVE  matrix' = matrix
<1>1. matrixLock = p /\ p # None
    BY NoValue DEF Mutex
<1>2. ASSUME NEW q \in Promoters, pc[q] = "replacing", pc' = [pc EXCEPT ![q] = "committed"]
      PROVE  FALSE
  <2>1. q = p
      BY <1>1, <1>2 DEF Mutex, Holding
  <2> QED
      BY <1>2, <2>1 DEF TypeOK
<1> QED
    BY <1>1, <1>2, FileMoves

\* The copy is the file when it is taken, and gets one mark (_matrix_promotion_lock).
LEMMA FaithfulStep ==
    ASSUME EditsWait, TypeOK, Mutex, Faithful, [Next]_vars
    PROVE  Faithful'
<1> SUFFICES ASSUME NEW p \in Promoters, pc'[p] \in {"evidence", "staging", "replacing"}
             PROVE  /\ pc'[p] = "evidence" => raw'[p] = matrix'
                    /\ pc'[p] \in {"staging", "replacing"} =>
                          \E i \in Slots : /\ Promotable(p, matrix, i)'
                                           /\ raw'[p] = Mark(matrix', i, "verified", p)
    BY DEF Faithful
<1>1. CASE pc'[p] = pc[p] /\ snap'[p] = snap[p] /\ raw'[p] = raw[p] /\ contract'[p] = contract[p]
  <2>1. matrix' = matrix
      BY <1>1, FileWaits DEF Holding
  <2> QED
      BY <1>1, <2>1 DEF Faithful, Promotable
<1>2. CASE LoadRegistry(p) \/ Step(p) \/ Crash(p)
  <2>1. CASE ValidateLockedEntry(p)
    <3>1. pc'[p] = "evidence" /\ raw'[p] = matrix /\ matrix' = matrix
        BY <2>1 DEF ValidateLockedEntry, Leave, Goto, storeVars, TypeOK
    <3> QED
        BY <3>1
  <2>2. CASE CheckSupportingRuns(p)
    <3>1. pc[p] = "evidence" /\ pc'[p] = "staging"
        BY <2>2 DEF CheckSupportingRuns, Leave, Goto, TypeOK
    <3>2. UNCHANGED <<matrix, contract, snap>> /\ raw[p] = matrix
        BY <2>2, <3>1 DEF CheckSupportingRuns, Leave, storeVars, Faithful
    <3>3. PICK i \in Slots : Promotable(p, raw[p], i) /\ raw'[p] = Mark(raw[p], i, "verified", p)
        BY <2>2, <3>1 DEF CheckSupportingRuns, Leave, Goto, TypeOK
    <3> QED
        BY <3>1, <3>2, <3>3 DEF Promotable
  <2>3. CASE StageMatrix(p)
    <3>1. /\ pc[p] = "staging" /\ pc'[p] = "replacing"
          /\ UNCHANGED <<matrix, contract, snap, raw>>
        BY <2>3 DEF StageMatrix, Leave, Goto, storeVars, TypeOK
    <3> QED
        BY <3>1 DEF Faithful, Promotable
  <2>4. CASE ~(ValidateLockedEntry(p) \/ CheckSupportingRuns(p) \/ StageMatrix(p))
    <3>1. FALSE
        BY <1>2, <2>4
           DEF Step, LoadRegistry, SelectMatrixEntry, RunChecks, PersistReport,
               AcquireMatrixLock, ReplaceMatrix, ReloadPromotedEntry, ReopenReport,
               PersistPromotedReport, Crash, Leave, Goto, TypeOK
    <3> QED
        BY <3>1
  <2> QED
      BY <2>1, <2>2, <2>3, <2>4
<1>3. ASSUME NEW q \in Promoters, q # p, LoadRegistry(q) \/ Step(q) \/ Crash(q)
      PROVE  pc'[p] = pc[p] /\ snap'[p] = snap[p] /\ raw'[p] = raw[p] /\ contract'[p] = contract[p]
    BY <1>3, OthersStay
<1>4. (StoreNext /\ UNCHANGED ownVars) \/ UNCHANGED vars =>
          pc'[p] = pc[p] /\ snap'[p] = snap[p] /\ raw'[p] = raw[p] /\ contract'[p] = contract[p]
    BY StoreStays DEF vars, storeVars, ownVars
<1> QED
    BY <1>1, <1>2, <1>3, <1>4 DEF Next, Quiescent

-----------------------------------------------------------------------------
\* A promoter finds its row, and its run has what it needs.

\* Who has replaced the file keeps its row in it, and reports under that row's context.
LEMMA PresentStep ==
    ASSUME EditsWait, Inv, Faithful, Filed, Present, [Next]_vars
    PROVE  Present'
<1> DEFINE Promoting == {"committed", "unlocked", "rewriting", "promoted"}
<1> SUFFICES ASSUME NEW p \in Promoters, pc'[p] \in Promoting
             PROVE  /\ \E i \in Slots : matrix'[i].stamp = p /\ matrix'[i].ctx = snap'[p]
                    /\ pc'[p] = "promoted" => contract'[p].ctx = snap'[p]
    BY DEF Present
<1>0. TypeOK /\ OwnReport(p)
    BY DEF Inv, ReportInv
<1>1. ASSUME pc[p] \in Promoting, snap'[p] = snap[p]
      PROVE  \E i \in Slots : matrix'[i].stamp = p /\ matrix'[i].ctx = snap'[p]
  <2>1. PICK i \in Slots : matrix[i].stamp = p /\ matrix[i].ctx = snap[p]
      BY <1>1 DEF Present
  <2> QED
      BY <1>0, <1>1, <2>1, StampStays
<1>2. CASE pc'[p] = pc[p] /\ snap'[p] = snap[p] /\ contract'[p] = contract[p]
    BY <1>1, <1>2 DEF Present
<1>3. CASE ReplaceMatrix(p)
  <2>1. PICK i \in Slots : Promotable(p, matrix, i) /\ matrix' = Mark(matrix, i, "verified", p)
      BY <1>0, <1>3 DEF ReplaceMatrix, Leave, Goto, TypeOK, Faithful
  <2>2. /\ matrix'[i] = [ctx |-> matrix[i].ctx, status |-> "verified", stamp |-> p]
        /\ matrix[i].ctx = snap[p]
      BY <1>0, <2>1, MarkedList
  <2>3. snap' = snap /\ pc'[p] # "promoted"
      BY <1>0, <1>3 DEF ReplaceMatrix, Leave, Goto, TypeOK
  <2> QED
      BY <2>2, <2>3
<1>4. CASE ReloadPromotedEntry(p) \/ ReopenReport(p)
  <2>1. pc[p] \in Promoting /\ snap' = snap /\ pc'[p] # "promoted"
      BY <1>0, <1>4 DEF ReloadPromotedEntry, ReopenReport, Leave, Goto, TypeOK
  <2> QED
      BY <1>1, <2>1
<1>5. CASE PersistPromotedReport(p)
  <2>1. pc[p] = "rewriting" /\ snap' = snap /\ WriteReport(p, contract[p].verdict, "promoted")
      BY <1>0, <1>5 DEF PersistPromotedReport, Goto, TypeOK
  <2>2. contract'[p] = [ctx |-> snap[p], verdict |-> contract[p].verdict, content |-> "promoted"]
      BY <1>0, <2>1, ReportWritten, VerdictType
  <2> QED
      BY <1>1, <2>1, <2>2
<1>6. CASE \/ LoadRegistry(p) \/ SelectMatrixEntry(p) \/ RunChecks(p) \/ PersistReport(p)
           \/ AcquireMatrixLock(p) \/ ValidateLockedEntry(p) \/ CheckSupportingRuns(p)
           \/ StageMatrix(p) \/ Crash(p)
    BY <1>0, <1>6 DEF LoadRegistry, SelectMatrixEntry, RunChecks, PersistReport,
                      AcquireMatrixLock, ValidateLockedEntry, CheckSupportingRuns, StageMatrix,
                      Crash, Leave, Goto, TypeOK
<1>7. ASSUME NEW q \in Promoters, q # p, LoadRegistry(q) \/ Step(q) \/ Crash(q)
      PROVE  pc'[p] = pc[p] /\ snap'[p] = snap[p] /\ contract'[p] = contract[p]
    BY <1>0, <1>7, OthersStay
<1>8. (StoreNext /\ UNCHANGED ownVars) \/ UNCHANGED vars =>
          pc'[p] = pc[p] /\ snap'[p] = snap[p] /\ contract'[p] = contract[p]
    BY StoreStays DEF vars, storeVars, ownVars
<1> QED
    BY <1>2, <1>3, <1>4, <1>5, <1>6, <1>7, <1>8 DEF Next, Step, Quiescent

\* A row that is not absent has a context.
LEMMA RowHasContext ==
    ASSUME TypeOK, Filed, NEW i \in Slots, matrix[i].status # "absent"
    PROVE  matrix[i].ctx \in Contexts
BY DEF TypeOK, StoreTypeOK, Row, Filed

\* A smoke or e2e run takes its context from a row when it starts.
LEMMA SupportBegun ==
    ASSUME TypeOK, Filed, Begun, NEW f \in SupportRuns, NEW g \in SupportRuns,
           StartSupportRun(g) \/ PreflightContract(g) \/ PersistSupportRecord(g)
    PROVE  /\ support'[f].content # "absent" => support'[f].ctx \in Contexts
           /\ support'[f].content = "absent" => support'[f].preflight = "none"
<1>1. CASE f # g
    BY <1>1 DEF StartSupportRun, PreflightContract, PersistSupportRecord, View, TypeOK, StoreTypeOK, Begun
<1>2. CASE f = g /\ StartSupportRun(g)
  <2>1. CASE \E key \in Keys : View(g, key)
      BY <1>2, <2>1 DEF View, StartSupportRun, TypeOK, StoreTypeOK, Begun
  <2>2. ASSUME NEW i \in Slots, Selects(g, i),
               support' = [support EXCEPT ![g] =
                  [view |-> None, ctx |-> matrix[i].ctx, preflight |-> "none",
                   content |-> "running"]]
        PROVE  support'[g].ctx \in Contexts /\ support'[g].content = "running"
    <3>1. matrix[i].ctx \in Contexts
        BY <2>2, RowHasContext DEF Selects, IsFirst, ActiveRows
    <3> QED
        BY <2>2, <3>1 DEF TypeOK, StoreTypeOK
  <2> QED
      BY <1>2, <2>1, <2>2 DEF StartSupportRun
<1>3. CASE f = g /\ PreflightContract(g)
  <2>1. CASE \E key \in Keys : View(g, key)
      BY <1>3, <2>1 DEF View, PreflightContract, TypeOK, StoreTypeOK, Begun
  <2>2. ASSUME NEW i \in Slots, NEW verdict \in {"success", "failed"}, Selects(g, i),
               support' = [support EXCEPT ![g] =
                  [view |-> None, ctx |-> matrix[i].ctx, preflight |-> verdict,
                   content |-> IF matrix[i].ctx = support[g].ctx THEN "running" ELSE "failed"]]
        PROVE  support'[g].ctx \in Contexts /\ support'[g].content # "absent"
    <3>1. matrix[i].ctx \in Contexts
        BY <2>2, RowHasContext DEF Selects, IsFirst, ActiveRows
    <3> QED
        BY <2>2, <3>1 DEF TypeOK, StoreTypeOK
  <2> QED
      BY <1>3, <2>1, <2>2 DEF PreflightContract, TypeOK, StoreTypeOK
<1>4. CASE f = g /\ PersistSupportRecord(g)
    BY <1>4 DEF PersistSupportRecord, TypeOK, StoreTypeOK, Begun
<1> QED
    BY <1>1, <1>2, <1>3, <1>4

\* A run has its context from its row, and nothing in its report before its checks.
LEMMA BegunStep ==
    ASSUME Inv, Filed, Begun, [Next]_vars
    PROVE  Begun'
<1> DEFINE Own(p) ==
        /\ pc[p] \in {"checking", "writing", "waiting", "unlocked", "rewriting"} \cup Holding =>
              snap[p] \in Contexts
        /\ pc[p] \in {"idle", "loaded", "checking"} =>
              contract[p].content = "absent" /\ contract[p].verdict = "none"
        /\ pc[p] = "writing" => contract[p].content = "torn"
<1>0. TypeOK
    BY DEF Inv
<1>1. ASSUME NEW p \in Promoters PROVE Own(p)'
  <2> USE DEF Holding
  <2>0. Own(p)
      BY DEF Begun
  <2>1. CASE pc'[p] = pc[p] /\ snap'[p] = snap[p] /\ contract'[p] = contract[p]
      BY <2>0, <2>1
  <2>2. CASE LoadRegistry(p)
      BY <1>0, <2>0, <2>2 DEF LoadRegistry, Goto, storeVars, TypeOK
  <2>3. CASE SelectMatrixEntry(p)
    <3>1. CASE pc'[p] = "errored"
        BY <3>1
    <3>2. CASE pc'[p] # "errored"
      <4>1. PICK i \in Slots : /\ IsFirst(i, ActiveRows(matrix, goal[p], seen[p]))
                               /\ snap' = [snap EXCEPT ![p] = matrix[i].ctx]
                               /\ Goto(p, "checking")
          BY <1>0, <2>3, <3>2 DEF SelectMatrixEntry, Goto, TypeOK
      <4>2. matrix[i].ctx \in Contexts
          BY <1>0, <4>1, RowHasContext DEF IsFirst, ActiveRows
      <4>3. contract' = contract /\ pc[p] = "loaded"
          BY <2>3 DEF SelectMatrixEntry, storeVars
      <4> QED
          BY <1>0, <2>0, <4>1, <4>2, <4>3 DEF Goto, TypeOK
    <3> QED
        BY <3>1, <3>2
  <2>4. CASE RunChecks(p)
    <3>1. PICK verdict \in {"success", "failed"} : WriteReport(p, verdict, "torn")
        BY <2>4 DEF RunChecks
    <3>2. contract'[p] = [ctx |-> snap[p], verdict |-> verdict, content |-> "torn"]
        BY <1>0, <3>1, ReportWritten
    <3> QED
        BY <1>0, <2>0, <2>4, <3>2 DEF RunChecks, Goto, TypeOK
  <2>5. CASE \/ PersistReport(p) \/ AcquireMatrixLock(p) \/ ValidateLockedEntry(p)
             \/ CheckSupportingRuns(p) \/ StageMatrix(p) \/ ReplaceMatrix(p)
             \/ ReloadPromotedEntry(p) \/ ReopenReport(p) \/ PersistPromotedReport(p) \/ Crash(p)
    <3>1. /\ pc'[p] \notin {"idle", "loaded", "checking", "writing"} /\ snap' = snap
          /\ pc'[p] \in {"waiting", "unlocked", "rewriting"} \cup Holding =>
                pc[p] \in {"writing", "waiting", "unlocked", "rewriting"} \cup Holding
        BY <1>0, <2>5 DEF PersistReport, AcquireMatrixLock, ValidateLockedEntry,
               CheckSupportingRuns, StageMatrix, ReplaceMatrix, ReloadPromotedEntry,
               ReopenReport, PersistPromotedReport, Crash, Leave, Goto, TypeOK
    <3> QED
        BY <2>0, <3>1
  <2>6. ASSUME NEW q \in Promoters, q # p, LoadRegistry(q) \/ Step(q) \/ Crash(q)
        PROVE  pc'[p] = pc[p] /\ snap'[p] = snap[p] /\ contract'[p] = contract[p]
      BY <1>0, <2>6, OthersStay
  <2>7. (StoreNext /\ UNCHANGED ownVars) \/ UNCHANGED vars =>
            pc'[p] = pc[p] /\ snap'[p] = snap[p] /\ contract'[p] = contract[p]
      BY StoreStays DEF vars, storeVars, ownVars
  <2> HIDE DEF Own
  <2> QED
      BY <2>1, <2>2, <2>3, <2>4, <2>5, <2>6, <2>7 DEF Next, Step, Quiescent
<1>2. ASSUME NEW f \in SupportRuns
      PROVE  /\ support'[f].content # "absent" => support'[f].ctx \in Contexts
             /\ support'[f].content = "absent" => support'[f].preflight = "none"
  <2>1. ASSUME support' = support PROVE
             /\ support'[f].content # "absent" => support'[f].ctx \in Contexts
             /\ support'[f].content = "absent" => support'[f].preflight = "none"
      BY <2>1 DEF Begun
  <2>2. ASSUME NEW p \in Promoters, LoadRegistry(p) \/ Step(p) \/ Crash(p)
        PROVE  support' = support
      BY <2>2 DEF Step, LoadRegistry, SelectMatrixEntry, RunChecks, PersistReport,
             AcquireMatrixLock, ValidateLockedEntry, CheckSupportingRuns, StageMatrix,
             ReplaceMatrix, ReloadPromotedEntry, ReopenReport, PersistPromotedReport,
             Crash, Leave, storeVars
  <2>3. StoreNext => support' = support \/ \E g \in SupportRuns :
             StartSupportRun(g) \/ PreflightContract(g) \/ PersistSupportRecord(g)
      BY DEF StoreNext, AddDraftRow, DeprecateRow, ReleaseModules
  <2> QED
      BY <1>0, <2>1, <2>2, <2>3, SupportBegun DEF Next, Quiescent, vars, storeVars
<1> QED
    BY <1>1, <1>2 DEF Begun

-----------------------------------------------------------------------------
\* The invariant and what follows from it.

\* The store at the start is a list that nobody has copied, locked or stamped.
LEMMA LockInit == Init => LockInv
<1> SUFFICES ASSUME Init PROVE LockInv
    OBVIOUS
<1>1. Inv
    BY InvInit
<1>2. Mutex /\ Faithful /\ Present
    BY DEF Init, StoreInit, Mutex, Faithful, Present, Holding
<1>3. Filed
    BY InitialList, InitialMatrix DEF Init, StoreInit, Filed
<1>4. Begun
    BY DEF Init, StoreInit, Begun, Holding
<1> QED
    BY <1>1, <1>2, <1>3, <1>4 DEF LockInv

\* In any run with operators who wait, the invariant holds of every state.
THEOREM LockInductive == ASSUME EditsWait PROVE Spec => []LockInv
<1>1. LockInv /\ [Next]_vars => LockInv'
  <2> SUFFICES ASSUME LockInv, [Next]_vars PROVE LockInv'
      OBVIOUS
  <2>1. Inv' /\ TypeOK
      BY TypeStep, ReportStep, StampStep, EvidenceStep DEF LockInv, Inv
  <2> QED
      BY <2>1, MutexStep, FaithfulStep, FiledStep, PresentStep, BegunStep DEF LockInv
<1> QED
    BY <1>1, LockInit, PTL DEF Spec

\* A report that says promoted names a row that is in the file under its promoter's stamp,
\* whoever has replaced the file since.
THEOREM PromotionsAreReal == ASSUME EditsWait PROVE Spec => []ReportTellsTruth
<1>1. LockInv => ReportTellsTruth
    BY DEF LockInv, Inv, ReportInv, OwnReport, Present, ReportTellsTruth
<1> QED
    BY <1>1, LockInductive, PTL

\* No context is promoted twice, nor after a row of it that is no draft any more, although
\* its row may be selected by many and entered twice.
THEOREM PromotionsAreUnique == ASSUME EditsWait PROVE Spec => []PromotedOnce
<1>1. LockInv => PromotedOnce
  <2> SUFFICES ASSUME LockInv, NEW i \in Slots, NEW j \in Slots, j < i,
                      matrix[i].stamp \in Promoters, matrix[j].status # "absent",
                      matrix[i].ctx = matrix[j].ctx
               PROVE  FALSE
      BY DEF PromotedOnce
  <2>1. i <= j
      BY DEF LockInv, Filed, IsFirst, RowsOf
  <2> QED
      BY <2>1 DEF Slots
<1> QED
    BY <1>1, LockInductive, PTL

\* No replacement of the file drops a row or takes one back in its life cycle.
THEOREM UpdatesSurvive == ASSUME EditsWait PROVE Spec => NoLostUpdate
<1> DEFINE Kept ==
       \A i \in Slots :
          /\ matrix[i].status # "absent" => matrix'[i].ctx = matrix[i].ctx
          /\ <<matrix[i].status, matrix'[i].status>> \notin
                {<<"draft", "absent">>, <<"verified", "absent">>, <<"deprecated", "absent">>,
                 <<"verified", "draft">>, <<"deprecated", "draft">>, <<"deprecated", "verified">>}
<1>1. LockInv /\ [Next]_vars => [Kept]_matrix
  <2> SUFFICES ASSUME LockInv, [Next]_vars, matrix' # matrix, NEW i \in Slots
               PROVE  /\ matrix[i].status # "absent" => matrix'[i].ctx = matrix[i].ctx
                      /\ <<matrix[i].status, matrix'[i].status>> \notin
                            {<<"draft", "absent">>, <<"verified", "absent">>,
                             <<"deprecated", "absent">>, <<"verified", "draft">>,
                             <<"deprecated", "draft">>, <<"deprecated", "verified">>}
      OBVIOUS
  <2>0. TypeOK /\ Faithful
      BY DEF LockInv, Inv
  <2>1. ASSUME NEW p \in Promoters, NEW j \in Slots, Promotable(p, matrix, j),
               matrix' = Mark(matrix, j, "verified", p)
        PROVE  /\ matrix'[i].ctx = matrix[i].ctx
               /\ matrix'[i].status = matrix[i].status
                  \/ (matrix[i].status = "draft" /\ matrix'[i].status = "verified")
    <3>1. /\ matrix[j].status = "draft"
          /\ matrix'[j] = [ctx |-> matrix[j].ctx, status |-> "verified", stamp |-> p]
          /\ \A k \in Slots \ {j} : matrix'[k] = matrix[k]
        BY <2>0, <2>1, MarkedList
    <3> QED
        BY <3>1
  <2>2. ASSUME Edited
        PROVE  /\ matrix[i].status # "absent" => matrix'[i].ctx = matrix[i].ctx
               /\ \/ matrix'[i].status = matrix[i].status
                  \/ matrix[i].status = "absent" /\ matrix'[i].status = "draft"
                  \/ matrix[i].status \in {"draft", "verified"}
                     /\ matrix'[i].status = "deprecated"
    <3>1. ASSUME NEW c \in Contexts, NEW j \in Slots,
                 IsFirst(j, {k \in Slots : matrix[k].status = "absent"}),
                 matrix'[j] = [ctx |-> c, status |-> "draft", stamp |-> None],
                 \A k \in Slots \ {j} : matrix'[k] = matrix[k]
          PROVE  /\ matrix[i].status # "absent" => matrix'[i].ctx = matrix[i].ctx
                 /\ \/ matrix'[i].status = matrix[i].status
                    \/ matrix[i].status = "absent" /\ matrix'[i].status = "draft"
        BY <3>1 DEF IsFirst
    <3>2. ASSUME NEW j \in Slots, matrix[j].status \in {"draft", "verified"},
                 matrix'[j] = [ctx |-> matrix[j].ctx, status |-> "deprecated",
                               stamp |-> matrix[j].stamp],
                 \A k \in Slots \ {j} : matrix'[k] = matrix[k]
          PROVE  /\ matrix'[i].ctx = matrix[i].ctx
                 /\ \/ matrix'[i].status = matrix[i].status
                    \/ matrix[i].status \in {"draft", "verified"}
                       /\ matrix'[i].status = "deprecated"
        BY <3>2
    <3> QED
        BY <2>0, <2>2, <3>1, <3>2, EditedList
  <2> QED
      BY <2>0, <2>1, <2>2, FileMoves
<1>2. []LockInv /\ [][Next]_vars => [][Kept]_matrix
    BY <1>1, PTL
<1> QED
    BY <1>2, LockInductive, PTL DEF Spec, NoLostUpdate

-----------------------------------------------------------------------------
\* The promotion implements MatrixLifecycle.

Counts(report) == report.verdict = "success" /\ report.content \in Readable \cup {"retorn"}

\* The proofs of a state, by what they come from.
LEMMA ProofsOf ==
    ASSUME NEW x
    PROVE  x \in ProvenSuites <=>
              \/ \E p \in Promoters : Counts(contract[p]) /\ x = <<contract[p].ctx, "contract">>
              \/ \E f \in SupportRuns :
                    support[f].content = "success" /\ x = <<support[f].ctx, SuiteOf[f]>>
BY DEF ProvenSuites, Counts

\* A report that counted counts on, so that one report brings one proof at most.
LEMMA ReportProves ==
    ASSUME NEW p \in Promoters, \A q \in Promoters \ {p} : contract'[q] = contract[q],
           support' = support,
           Counts(contract[p]) => Counts(contract'[p]) /\ contract'[p].ctx = contract[p].ctx,
           Counts(contract'[p]) => contract'[p].ctx \in Contexts
    PROVE  \/ ProvenSuites' = ProvenSuites
           \/ \E proof \in Lifecycle!Proofs : ProvenSuites' = ProvenSuites \cup {proof}
<1> DEFINE proof == <<contract'[p].ctx, "contract">>
<1>1. CASE Counts(contract'[p])
  <2>1. \A x : x \in ProvenSuites' <=> x \in ProvenSuites \cup {proof}
      BY <1>1 DEF ProvenSuites, Counts
  <2>2. proof \in Lifecycle!Proofs
      BY <1>1 DEF Lifecycle!Proofs
  <2> QED
      BY <2>1, <2>2
<1>2. CASE ~Counts(contract'[p])
  <2>1. \A x : x \in ProvenSuites' <=> x \in ProvenSuites
      BY <1>2 DEF ProvenSuites, Counts
  <2> QED
      BY <2>1
<1> QED
    BY <1>1, <1>2

\* A smoke or e2e run proves its suite once, when its record is complete.
LEMMA SupportProves ==
    ASSUME TypeOK, Begun, NEW f \in SupportRuns, contract' = contract,
           StartSupportRun(f) \/ PreflightContract(f) \/ PersistSupportRecord(f)
    PROVE  \/ ProvenSuites' = ProvenSuites
           \/ \E proof \in Lifecycle!Proofs : ProvenSuites' = ProvenSuites \cup {proof}
<1>1. /\ support[f].content \in {"absent", "running"}
      /\ \A g \in SupportRuns \ {f} : support'[g] = support[g]
      /\ support'[f].content = "success" =>
            support'[f].ctx = support[f].ctx /\ support[f].content = "running"
    BY SupportRecord DEF TypeOK, StoreTypeOK
<1> DEFINE proof == <<support'[f].ctx, SuiteOf[f]>>
<1>2. CASE support'[f].content = "success"
  <2>1. \A x : x \in ProvenSuites' <=> x \in ProvenSuites \cup {proof}
      BY <1>1, <1>2 DEF ProvenSuites
  <2>2. support'[f].ctx \in Contexts /\ SuiteOf[f] \in Suites
      BY <1>1, <1>2, ContextParts DEF Begun
  <2>3. proof \in Lifecycle!Proofs
      BY <2>2 DEF Lifecycle!Proofs, Suites
  <2> QED
      BY <2>1, <2>3
<1>3. CASE support'[f].content # "success"
  <2>1. \A x : x \in ProvenSuites' <=> x \in ProvenSuites
      BY <1>1, <1>3 DEF ProvenSuites
  <2> QED
      BY <2>1
<1> QED
    BY <1>2, <1>3

\* A step leaves the proofs as they are, or completes one report and touches no row.
LEMMA ProofMoves ==
    ASSUME LockInv, [Next]_vars
    PROVE  \/ ProvenSuites' = ProvenSuites
           \/ matrix' = matrix
              /\ \E proof \in Lifecycle!Proofs : ProvenSuites' = ProvenSuites \cup {proof}
<1> DEFINE Goal == \/ ProvenSuites' = ProvenSuites
                   \/ \E proof \in Lifecycle!Proofs : ProvenSuites' = ProvenSuites \cup {proof}
<1>0. TypeOK /\ Begun /\ \A p \in Promoters : OwnReport(p)
    BY DEF LockInv, Inv, ReportInv
<1>1. ASSUME contract' = contract, support' = support
      PROVE  ProvenSuites' = ProvenSuites
    BY <1>1 DEF ProvenSuites
<1>2. ASSUME NEW p \in Promoters,
             \/ LoadRegistry(p) \/ SelectMatrixEntry(p) \/ AcquireMatrixLock(p)
             \/ ValidateLockedEntry(p) \/ CheckSupportingRuns(p) \/ StageMatrix(p)
             \/ ReplaceMatrix(p) \/ ReloadPromotedEntry(p) \/ Crash(p)
      PROVE  contract' = contract /\ support' = support
    BY <1>2 DEF LoadRegistry, SelectMatrixEntry, AcquireMatrixLock, ValidateLockedEntry,
                CheckSupportingRuns, StageMatrix, ReplaceMatrix, ReloadPromotedEntry, Crash,
                Leave, storeVars
<1>3. ASSUME NEW p \in Promoters,
             RunChecks(p) \/ PersistReport(p) \/ ReopenReport(p) \/ PersistPromotedReport(p)
      PROVE  Goal /\ matrix' = matrix
  <2> USE DEF Counts, Readable
  <2>0. matrix' = matrix /\ support' = support
      BY <1>3 DEF RunChecks, PersistReport, ReopenReport, PersistPromotedReport
  <2>1. ASSUME NEW verdict \in {"success", "failed", "none"},
               NEW content \in {"torn", "plain", "retorn", "promoted"},
               WriteReport(p, verdict, content), snap[p] \in Contexts,
               Counts(contract[p]) => /\ verdict = "success" /\ content # "torn"
                                      /\ contract[p].ctx = snap[p]
        PROVE  Goal
    <3>1. content \in {"absent", "torn", "plain", "retorn", "promoted"}
        OBVIOUS
    <3>2. /\ contract'[p] = [ctx |-> snap[p], verdict |-> verdict, content |-> content]
          /\ \A q \in Promoters \ {p} : contract'[q] = contract[q]
        BY <1>0, <2>1, <3>1, ReportWritten
    <3>3. Counts(contract[p]) => Counts(contract'[p]) /\ contract'[p].ctx = contract[p].ctx
        BY <2>1, <3>2
    <3>4. contract'[p].ctx \in Contexts
        BY <2>1, <3>2
    <3> HIDE DEF Counts
    <3> QED
        BY <2>0, <3>2, <3>3, <3>4, ReportProves
  <2>2. CASE contract' = contract
      BY <1>1, <2>0, <2>2
  <2>3. CASE RunChecks(p)
    <3>1. PICK verdict \in {"success", "failed"} : WriteReport(p, verdict, "torn")
        BY <2>3 DEF RunChecks
    <3>2. snap[p] \in Contexts /\ ~Counts(contract[p])
        BY <1>0, <2>3 DEF RunChecks, Begun
    <3> QED
        BY <2>0, <2>1, <3>1, <3>2
  <2>4. CASE PersistReport(p) /\ contract' # contract
    <3>1. /\ WriteReport(p, contract[p].verdict, "plain") /\ snap[p] \in Contexts
          /\ ~Counts(contract[p])
        BY <1>0, <2>4 DEF PersistReport, Begun
    <3> QED
        BY <1>0, <2>0, <2>1, <3>1, VerdictType
  <2>5. CASE ReopenReport(p) /\ contract' # contract
    <3>1. /\ WriteReport(p, contract[p].verdict, "retorn") /\ snap[p] \in Contexts
          /\ contract[p].ctx = snap[p]
        BY <1>0, <2>5 DEF ReopenReport, Begun, OwnReport
    <3> QED
        BY <1>0, <2>0, <2>1, <3>1, VerdictType
  <2>6. CASE PersistPromotedReport(p) /\ contract' # contract
    <3>1. /\ WriteReport(p, contract[p].verdict, "promoted") /\ snap[p] \in Contexts
          /\ contract[p].ctx = snap[p]
        BY <1>0, <2>6 DEF PersistPromotedReport, Begun, OwnReport
    <3> QED
        BY <1>0, <2>0, <2>1, <3>1, VerdictType
  <2> QED
      BY <1>3, <2>0, <2>2, <2>3, <2>4, <2>5, <2>6
<1>4. ASSUME StoreNext, UNCHANGED ownVars
      PROVE  ProvenSuites' = ProvenSuites \/ (Goal /\ matrix' = matrix)
  <2>1. contract' = contract
      BY <1>4, StoreStays
  <2>2. CASE support' = support
      BY <1>1, <2>1, <2>2
  <2>3. ASSUME NEW f \in SupportRuns,
               StartSupportRun(f) \/ PreflightContract(f) \/ PersistSupportRecord(f)
        PROVE  Goal /\ matrix' = matrix
    <3>1. matrix' = matrix
        BY <2>3 DEF StartSupportRun, PreflightContract, PersistSupportRecord, View
    <3> QED
        BY <1>0, <2>1, <2>3, <3>1, SupportProves
  <2> HIDE DEF Goal
  <2> QED
      BY <1>4, <2>2, <2>3 DEF StoreNext, AddDraftRow, DeprecateRow, ReleaseModules
<1>5. UNCHANGED vars => contract' = contract /\ support' = support
    BY DEF vars, storeVars
<1> QED
    BY <1>1, <1>2, <1>3, <1>4, <1>5 DEF Next, Step, Quiescent

\* A row that is verified, added or deprecated, as a reader of the matrix sees it.
LEMMA RowsMove ==
    ASSUME EditsWait, LockInv, [Next]_vars, ProvenSuites' = ProvenSuites, VisibleRows' # VisibleRows
    PROVE  Lifecycle!Next
<1>0. TypeOK /\ Faithful /\ Filed /\ \A p \in Promoters : OwnReport(p)
    BY DEF LockInv, Inv, ReportInv
<1>1. matrix' # matrix
    BY DEF VisibleRows
<1>2. ASSUME NEW i \in Slots, NEW ctx, NEW status, NEW stamp,
             matrix'[i] = [ctx |-> ctx, status |-> status, stamp |-> stamp],
             \A j \in Slots \ {i} : matrix'[j] = matrix[j]
      PROVE  VisibleRows' = [VisibleRows EXCEPT ![i] = [ctx |-> ctx, status |-> status]]
  <2>1. matrix'[i].ctx = ctx /\ matrix'[i].status = status
      BY <1>2
  <2>2. VisibleRows'[i] = [ctx |-> ctx, status |-> status]
      BY <2>1 DEF VisibleRows
  <2>3. \A j \in Slots \ {i} : VisibleRows'[j] = VisibleRows[j]
      BY <1>2 DEF VisibleRows
  <2>4. /\ VisibleRows = [j \in Slots |-> VisibleRows[j]]
        /\ VisibleRows' = [j \in Slots |-> VisibleRows'[j]]
      BY DEF VisibleRows
  <2> QED
      BY <2>2, <2>3, <2>4
<1>3. \A i \in Slots : /\ VisibleRows[i].ctx = matrix[i].ctx
                       /\ VisibleRows[i].status = matrix[i].status
    BY DEF VisibleRows
<1>4. ASSUME NEW p \in Promoters, NEW i \in Slots, pc[p] = "replacing",
             Promotable(p, matrix, i), matrix' = Mark(matrix, i, "verified", p)
      PROVE  Lifecycle!Verify(i)
  <2>1. /\ matrix[i].ctx = snap[p] /\ matrix[i].status = "draft"
        /\ matrix'[i] = [ctx |-> matrix[i].ctx, status |-> "verified", stamp |-> p]
        /\ \A j \in Slots \ {i} : matrix'[j] = matrix[j]
      BY <1>0, <1>4, MarkedList
  <2>2. VisibleRows' = [VisibleRows EXCEPT ![i] = [ctx |-> matrix[i].ctx, status |-> "verified"]]
      BY <1>2, <2>1
  <2>3. Counts(contract[p]) /\ contract[p].ctx = snap[p]
      BY <1>0, <1>4 DEF Promotable, OwnReport, Holding, Counts, Readable
  <2>4. <<matrix[i].ctx, "contract">> \in ProvenSuites
      BY <2>1, <2>3, ProofsOf
  <2>5. \A suite \in Supporting(matrix[i].ctx) : SuiteProven(matrix[i].ctx, suite)
    <3>1. PICK k \in Slots : Promotable(p, matrix, k) /\ raw[p] = Mark(matrix, k, "verified", p)
        BY <1>0, <1>4 DEF Faithful
    <3>2. raw[p][k].stamp = p /\ raw[p][k].ctx = snap[p]
      <4>1. matrix \in [Slots -> Row] /\ matrix[k].ctx = snap[p]
          BY <1>0, <3>1 DEF Promotable, IsFirst, RowsOf, TypeOK, StoreTypeOK
      <4>2. raw[p][k] = [ctx |-> matrix[k].ctx, status |-> "verified", stamp |-> p]
          BY <3>1, <4>1 DEF Mark
      <4> QED
          BY <4>1, <4>2
    <3>3. EvidenceBacked(raw[p][k])
        BY DEF LockInv, Inv, CopiesBacked
    <3> QED
        BY <2>1, <3>2, <3>3 DEF EvidenceBacked
  <2>6. \A suite \in Supporting(matrix[i].ctx) : <<matrix[i].ctx, suite>> \in ProvenSuites
      BY <2>5, ProofsOf DEF SuiteProven
  <2>7. /\ VisibleRows[i].ctx = matrix[i].ctx
        /\ VisibleRows[i].status = "draft"
        /\ VisibleRows' = [VisibleRows EXCEPT ![i] = [ctx |-> VisibleRows[i].ctx,
                                                     status |-> "verified"]]
      BY <1>3, <2>1, <2>2
  <2>8. \A suite \in RequiredOf[VisibleRows[i].ctx] \cup {"contract"} :
           <<VisibleRows[i].ctx, suite>> \in ProvenSuites
      BY <2>4, <2>6, <2>7 DEF Supporting
  <2> QED
      BY <2>7, <2>8 DEF Lifecycle!Verify
<1>5. ASSUME Edited
      PROVE  Lifecycle!Next
  <2>1. ASSUME NEW c \in Contexts, NEW i \in Slots,
               IsFirst(i, {j \in Slots : matrix[j].status = "absent"}),
               matrix'[i] = [ctx |-> c, status |-> "draft", stamp |-> None],
               \A j \in Slots \ {i} : matrix'[j] = matrix[j]
        PROVE  Lifecycle!AddDraft(i, c)
    <3>1. matrix[i].status = "absent"
        BY <2>1 DEF IsFirst
    <3>2. VisibleRows' = [VisibleRows EXCEPT ![i] = [ctx |-> c, status |-> "draft"]]
        BY <1>2, <2>1
    <3>3. VisibleRows[i].status = "absent"
        BY <1>3, <3>1
    <3> QED
        BY <3>2, <3>3 DEF Lifecycle!AddDraft
  <2>2. ASSUME NEW i \in Slots, matrix[i].status \in {"draft", "verified"},
               matrix'[i] = [ctx |-> matrix[i].ctx, status |-> "deprecated",
                             stamp |-> matrix[i].stamp],
               \A j \in Slots \ {i} : matrix'[j] = matrix[j]
        PROVE  Lifecycle!Deprecate(i)
    <3>1. VisibleRows' = [VisibleRows EXCEPT ![i] = [ctx |-> matrix[i].ctx, status |-> "deprecated"]]
        BY <1>2, <2>2
    <3>2. /\ VisibleRows[i].ctx = matrix[i].ctx
          /\ VisibleRows[i].status \in {"draft", "verified"}
        BY <1>3, <2>2
    <3> QED
        BY <3>1, <3>2 DEF Lifecycle!Deprecate
  <2> QED
      BY <1>0, <1>5, <2>1, <2>2, EditedList DEF Lifecycle!Next
<1> QED
    BY <1>0, <1>1, <1>4, <1>5, FileMoves DEF Lifecycle!Next

\* The file at the start is one that MatrixLifecycle starts from, with nothing proven.
LEMMA LifecycleInit == Init => Lifecycle!Init
<1> SUFFICES ASSUME Init PROVE Lifecycle!Init
    OBVIOUS
<1>1. ProvenSuites = {}
    BY DEF Init, StoreInit, ProvenSuites
<1>2. ASSUME NEW i \in Slots
      PROVE  [ctx |-> matrix[i].ctx, status |-> matrix[i].status] \in
                {Lifecycle!Absent} \cup
                [ctx : Contexts, status : {"draft", "verified", "deprecated"}]
  <2>1. /\ matrix[i].ctx \in Contexts \cup {None} /\ matrix[i].status \in Statuses
        /\ matrix[i].status = "absent" <=> matrix[i].ctx = None
      BY InitialMatrix, InitialList DEF Init, StoreInit, Row
  <2> QED
      BY <2>1 DEF Lifecycle!Absent, Statuses
<1>3. VisibleRows \in [Slots -> {Lifecycle!Absent} \cup
                          [ctx : Contexts, status : {"draft", "verified", "deprecated"}]]
    BY <1>2 DEF VisibleRows
<1> QED
    BY <1>1, <1>3 DEF Lifecycle!Init

\* Read at any moment, the matrix behaves as MatrixLifecycle promises: each step of the
\* promotion, of the suites and of the operators is a step of it or none.
THEOREM PromotionImplementsLifecycle == ASSUME EditsWait PROVE Spec => ImplementsLifecycle
<1>1. LockInv /\ [Next]_vars => [Lifecycle!Next]_<<VisibleRows, ProvenSuites>>
  <2> SUFFICES ASSUME LockInv, [Next]_vars,
                      <<VisibleRows, ProvenSuites>>' # <<VisibleRows, ProvenSuites>>
               PROVE  Lifecycle!Next
      OBVIOUS
  <2>1. CASE ProvenSuites' = ProvenSuites
      BY <2>1, RowsMove
  <2>2. CASE matrix' = matrix /\ \E proof \in Lifecycle!Proofs : ProvenSuites' = ProvenSuites \cup {proof}
    <3>1. VisibleRows' = VisibleRows
        BY <2>2 DEF VisibleRows
    <3> QED
        BY <2>2, <3>1 DEF Lifecycle!Next, Lifecycle!Prove
  <2> QED
      BY <2>1, <2>2, ProofMoves
<1> QED
    BY <1>1, LifecycleInit, LockInductive, PTL DEF Spec, ImplementsLifecycle, Lifecycle!Spec

-----------------------------------------------------------------------------
\* The pipeline of promoters and freezers.

\* pc values of a promoter whose copy of the file may still be written back.
Copying == {"evidence", "staging", "replacing"}

\* Rows have contexts, and the copies in use agree with the file on its verified rows.
CopiesKept ==
    \A i \in Slots :
        /\ matrix[i].status # "absent" => matrix[i].ctx \in Contexts
        /\ \A p \in Promoters :
              /\ raw[p][i].status # "absent" => raw[p][i].ctx \in Contexts
              /\ pc[p] \in Copying /\ matrix[i].status = "verified" => raw[p][i] = matrix[i]

\* Nothing is reported before the checks of a run.
Fresh ==
    /\ \A p \in Promoters :
          pc[p] \in {"idle", "loaded", "checking"} => contract[p].verdict = "none"
    /\ \A f \in SupportRuns : support[f].content = "absent" => support[f].preflight = "none"

Holds(row, ref) ==
    /\ row.ctx = ref.ctx
    /\ row.stamp = ref.stamp
    /\ row.status \in {"verified", "deprecated"}

\* The row is in the file, and in each copy that may replace the file.
Settled(ref) ==
    \E i \in Slots : /\ Holds(matrix[i], ref)
                     /\ \A p \in Promoters : pc[p] \in Copying => Holds(raw[p][i], ref)

\* The runs found so far are runs the row requires, and each has succeeded.
Earned(c, found) ==
    /\ found \subseteq RequiredOf[c]
    /\ "contract" \in found => ContractProven(c)
    /\ \A suite \in found \ {"contract"} : SuiteProven(c, suite)

\* They are all the runs the row requires.
Complete(c, found) == found = RequiredOf[c] /\ Earned(c, found)

\* A freezer in the middle of its work.
Selected == {"collecting", "preparing", "locking", "staging", "installing"}

FreezerInv(z) ==
    /\ fpc[z] = "loading" => wanted[z] \in Keys
    /\ fpc[z] \in {"idle", "loading"} => refs[z] = {}
    /\ fpc[z] \in Selected =>
          /\ wanted[z] \in Keys /\ chosen[z] \in RowRef
          /\ KeyOf[chosen[z].ctx] = wanted[z]
          /\ Settled(chosen[z])
    /\ fpc[z] = "collecting" => Earned(chosen[z].ctx, refs[z])
    /\ fpc[z] \in Selected \ {"collecting"} => Complete(chosen[z].ctx, refs[z])

LockfileInv(key) ==
    lockfile[key] # None =>
        /\ KeyOf[lockfile[key].row.ctx] = key
        /\ Settled(lockfile[key].row)
        /\ Complete(lockfile[key].row.ctx, lockfile[key].refs)

FreezeInv == /\ FreezeTypeOK
             /\ \A z \in Freezers : FreezerInv(z)
             /\ \A key \in Keys : LockfileInv(key)

MatrixInv == Inv /\ Mutex /\ CopiesKept /\ Fresh

PipelineInv == MatrixInv /\ FreezeInv
-----------------------------------------------------------------------------
\* The file and its copies.

\* A row changes by a new draft, by a deprecation, or with a promoter's copy of the file.
LEMMA RowChange ==
    ASSUME TypeOK, [Next]_vars, NEW i \in Slots
    PROVE  \/ matrix' = matrix
           \/ /\ UNCHANGED <<pc, raw>>
              /\ \/ matrix'[i] = matrix[i]
                 \/ /\ matrix[i].status = "absent"
                    /\ matrix'[i].ctx \in Contexts /\ matrix'[i].status = "draft"
                 \/ /\ matrix[i].status # "absent" /\ matrix'[i].status = "deprecated"
                    /\ matrix'[i].ctx = matrix[i].ctx /\ matrix'[i].stamp = matrix[i].stamp
           \/ \E p \in Promoters : /\ pc[p] = "replacing" /\ pc' = [pc EXCEPT ![p] = "committed"]
                                   /\ matrix' = raw[p] /\ raw' = raw
<1>1. ASSUME NEW p \in Promoters, ReplaceMatrix(p), matrix' # matrix
      PROVE  /\ pc[p] = "replacing" /\ pc' = [pc EXCEPT ![p] = "committed"]
             /\ matrix' = raw[p] /\ raw' = raw
    BY <1>1 DEF ReplaceMatrix, Leave, Goto
<1>2. ASSUME NEW p \in Promoters, LoadRegistry(p) \/ Step(p) \/ Crash(p), ~ReplaceMatrix(p)
      PROVE  matrix' = matrix
    BY <1>2 DEF Step, LoadRegistry, SelectMatrixEntry, RunChecks, PersistReport,
                AcquireMatrixLock, ValidateLockedEntry, CheckSupportingRuns, StageMatrix,
                ReloadPromotedEntry, ReopenReport, PersistPromotedReport, Crash, Leave, storeVars
<1>3. ASSUME StoreNext, UNCHANGED ownVars, ~Edited
      PROVE  matrix' = matrix
    BY <1>3 DEF StoreNext, StartSupportRun, PreflightContract, PersistSupportRecord, View,
                ReleaseModules, Edited
<1>4. CASE Edited /\ UNCHANGED ownVars
  <2>1. ASSUME NEW j \in Slots, NEW c \in Contexts,
               matrix[j].status = "absent",
               matrix'[j] = [ctx |-> c, status |-> "draft", stamp |-> None],
               \A k \in Slots \ {j} : matrix'[k] = matrix[k]
        PROVE  \/ matrix'[i] = matrix[i]
               \/ /\ matrix[i].status = "absent"
                  /\ matrix'[i].ctx \in Contexts /\ matrix'[i].status = "draft"
      BY <2>1
  <2>2. ASSUME NEW j \in Slots, matrix[j].status \in {"draft", "verified"},
               matrix'[j] = [ctx |-> matrix[j].ctx, status |-> "deprecated",
                             stamp |-> matrix[j].stamp],
               \A k \in Slots \ {j} : matrix'[k] = matrix[k]
        PROVE  \/ matrix'[i] = matrix[i]
               \/ /\ matrix[i].status # "absent" /\ matrix'[i].status = "deprecated"
                  /\ matrix'[i].ctx = matrix[i].ctx /\ matrix'[i].stamp = matrix[i].stamp
      BY <2>2
  <2> QED
      BY <1>4, <2>1, <2>2, EditedList DEF ownVars, IsFirst
<1> QED
    BY <1>1, <1>2, <1>3, <1>4 DEF Next, Quiescent, vars, storeVars

\* A copy is taken from the file, marked where it has a draft, or dropped.
LEMMA CopyChange ==
    ASSUME TypeOK, [Next]_vars, NEW p \in Promoters
    PROVE  \/ raw'[p] = raw[p] /\ (pc'[p] \in Copying => pc[p] \in Copying)
           \/ raw'[p] = matrix /\ matrix' = matrix
           \/ raw'[p] = InitialRows /\ pc'[p] \notin Copying
           \/ /\ matrix' = matrix /\ pc[p] \in Copying
              /\ \E i \in Slots : /\ raw[p][i].status = "draft"
                                  /\ raw'[p] = Mark(raw[p], i, "verified", p)
<1> USE DEF Copying
<1>1. ASSUME NEW q \in Promoters, q # p, LoadRegistry(q) \/ Step(q) \/ Crash(q)
      PROVE  raw'[p] = raw[p] /\ pc'[p] = pc[p]
    BY <1>1, OthersStay
<1>2. CASE \/ LoadRegistry(p) \/ SelectMatrixEntry(p) \/ RunChecks(p) \/ PersistReport(p)
           \/ AcquireMatrixLock(p) \/ ReopenReport(p) \/ PersistPromotedReport(p)
    BY <1>2 DEF LoadRegistry, SelectMatrixEntry, RunChecks, PersistReport, AcquireMatrixLock,
                ReopenReport, PersistPromotedReport, Goto, TypeOK
<1>3. ASSUME NEW outcome \in {"rejected", "errored", "unlocked"}, Leave(p, outcome)
      PROVE  raw'[p] = InitialRows /\ pc'[p] \notin Copying
    BY <1>3 DEF Leave, Goto, TypeOK
<1>4. CASE Crash(p)
    BY <1>4 DEF Crash, Goto, TypeOK
<1>5. CASE ValidateLockedEntry(p)
    BY <1>3, <1>5 DEF ValidateLockedEntry, storeVars, TypeOK
<1>6. CASE CheckSupportingRuns(p)
  <2>1. CASE Leave(p, "rejected") \/ Leave(p, "errored")
      BY <1>3, <2>1
  <2>2. CASE ~(Leave(p, "rejected") \/ Leave(p, "errored"))
      BY <1>6, <2>2 DEF CheckSupportingRuns, Promotable, storeVars, TypeOK
  <2> QED
      BY <2>1, <2>2
<1>7. CASE StageMatrix(p) \/ ReplaceMatrix(p) \/ ReloadPromotedEntry(p)
    BY <1>3, <1>7 DEF StageMatrix, ReplaceMatrix, ReloadPromotedEntry, Goto, TypeOK
<1>8. (StoreNext /\ UNCHANGED ownVars) \/ UNCHANGED vars => raw'[p] = raw[p] /\ pc'[p] = pc[p]
    BY DEF ownVars, vars
<1> QED
    BY <1>1, <1>2, <1>4, <1>5, <1>6, <1>7, <1>8 DEF Next, Step, Quiescent

\* A verified row stays in every copy that can replace the file (_matrix_promotion_lock).
LEMMA CopiesKeptStep ==
    ASSUME TypeOK, Mutex, CopiesKept, [Next]_vars
    PROVE  CopiesKept'
<1>1. ASSUME NEW i \in Slots PROVE matrix'[i].status # "absent" => matrix'[i].ctx \in Contexts
    BY <1>1, RowChange DEF CopiesKept
<1>2. ASSUME NEW i \in Slots, NEW p \in Promoters
      PROVE  raw'[p][i].status # "absent" => raw'[p][i].ctx \in Contexts
  <2>1. InitialRows[i].status # "absent" => InitialRows[i].ctx \in Contexts
      BY InitialMatrix, InitialList DEF Row
  <2>2. ASSUME NEW j \in Slots, raw[p][j].status = "draft",
               raw'[p] = Mark(raw[p], j, "verified", p)
        PROVE  \/ raw'[p][i].ctx = raw[p][i].ctx /\ raw[p][i].status # "absent"
               \/ raw'[p][i] = raw[p][i]
      BY <2>2 DEF Mark, TypeOK
  <2> QED
      BY <2>1, <2>2, CopyChange DEF CopiesKept
<1>3. ASSUME NEW i \in Slots, NEW p \in Promoters, pc'[p] \in Copying,
             matrix'[i].status = "verified"
      PROVE  raw'[p][i] = matrix'[i]
  <2>1. CASE matrix' = matrix
    <3>1. ASSUME NEW j \in Slots, raw[p][j].status = "draft", pc[p] \in Copying,
                 raw'[p] = Mark(raw[p], j, "verified", p)
          PROVE  raw'[p][i] = raw[p][i]
      <4>1. raw[p][i].status = "verified"
          BY <1>3, <2>1, <3>1 DEF CopiesKept
      <4> QED
          BY <3>1, <4>1 DEF Mark, TypeOK
    <3> QED
        BY <1>3, <2>1, <3>1, CopyChange DEF CopiesKept
  <2>2. CASE UNCHANGED <<pc, raw>> /\ matrix'[i] = matrix[i]
      BY <1>3, <2>2 DEF CopiesKept
  <2>3. ASSUME NEW q \in Promoters, pc[q] = "replacing", pc' = [pc EXCEPT ![q] = "committed"]
        PROVE  FALSE
    <3>1. p # q /\ pc[p] \in Copying
        BY <1>3, <2>3 DEF Copying, TypeOK
    <3> QED
        BY <2>3, <3>1 DEF Mutex, Holding, Copying
  <2> QED
      BY <1>3, <2>1, <2>2, <2>3, RowChange
<1> QED
    BY <1>1, <1>2, <1>3 DEF CopiesKept

\* A row that has been verified stays in the file, whoever writes or edits it.
LEMMA SettledStep ==
    ASSUME TypeOK, [Next]_vars, NEW ref, Settled(ref)
    PROVE  Settled(ref)'
<1>1. PICK i \in Slots : /\ Holds(matrix[i], ref)
                         /\ \A p \in Promoters : pc[p] \in Copying => Holds(raw[p][i], ref)
    BY DEF Settled
<1>2. Holds(matrix'[i], ref)
  <2>1. ASSUME NEW p \in Promoters, pc[p] = "replacing", matrix' = raw[p]
        PROVE  Holds(matrix'[i], ref)
      BY <1>1, <2>1 DEF Copying
  <2> QED
      BY <1>1, <2>1, RowChange DEF Holds
<1>3. ASSUME NEW p \in Promoters, pc'[p] \in Copying PROVE Holds(raw'[p][i], ref)
  <2>1. ASSUME NEW j \in Slots, raw[p][j].status = "draft", pc[p] \in Copying,
               raw'[p] = Mark(raw[p], j, "verified", p)
        PROVE  raw'[p][i] = raw[p][i]
      BY <1>1, <2>1 DEF Mark, Holds, TypeOK
  <2> QED
      BY <1>1, <1>3, <2>1, CopyChange
<1> QED
    BY <1>2, <1>3 DEF Settled

\* A row that is read as verified is settled.
LEMMA VerifiedIsSettled ==
    ASSUME CopiesKept, NEW i \in Slots, matrix[i].status = "verified", NEW ref,
           ref.ctx = matrix[i].ctx, ref.stamp = matrix[i].stamp
    PROVE  Settled(ref)
BY DEF CopiesKept, Settled, Holds
-----------------------------------------------------------------------------
\* The reports.

\* A run that has not done its checks goes on to them, or has an empty report.
LEMMA FreshStep ==
    ASSUME TypeOK, Fresh, [Next]_vars
    PROVE  Fresh'
<1>1. ASSUME NEW p \in Promoters, pc'[p] \in {"idle", "loaded", "checking"}
      PROVE  contract'[p].verdict = "none"
  <2>1. ASSUME NEW q \in Promoters, q # p, LoadRegistry(q) \/ Step(q) \/ Crash(q)
        PROVE  pc'[p] = pc[p] /\ contract'[p] = contract[p]
      BY <2>1, OthersStay
  <2>2. CASE LoadRegistry(p) \/ SelectMatrixEntry(p)
      BY <2>2 DEF LoadRegistry, SelectMatrixEntry, storeVars, Fresh
  <2>3. CASE \/ RunChecks(p) \/ PersistReport(p) \/ AcquireMatrixLock(p) \/ ValidateLockedEntry(p)
             \/ CheckSupportingRuns(p) \/ StageMatrix(p) \/ ReplaceMatrix(p)
             \/ ReloadPromotedEntry(p) \/ ReopenReport(p) \/ PersistPromotedReport(p) \/ Crash(p)
      BY <1>1, <2>3 DEF RunChecks, PersistReport, AcquireMatrixLock, ValidateLockedEntry,
             CheckSupportingRuns, StageMatrix, ReplaceMatrix, ReloadPromotedEntry, ReopenReport,
             PersistPromotedReport, Crash, Leave, Goto, TypeOK
  <2>4. (StoreNext /\ UNCHANGED ownVars) \/ UNCHANGED vars =>
            pc'[p] = pc[p] /\ contract'[p] = contract[p]
      BY StoreStays DEF vars, storeVars, ownVars
  <2> QED
      BY <1>1, <2>1, <2>2, <2>3, <2>4 DEF Next, Step, Quiescent, Fresh
<1>2. ASSUME NEW f \in SupportRuns, support'[f].content = "absent"
      PROVE  support'[f].preflight = "none"
  <2>0. TypeOK /\ \A g \in SupportRuns : support[g].content = "absent" => support[g].preflight = "none"
      BY DEF Fresh
  <2>1. ASSUME NEW p \in Promoters, LoadRegistry(p) \/ Step(p) \/ Crash(p)
        PROVE  support' = support
      BY <2>1 DEF Step, LoadRegistry, SelectMatrixEntry, RunChecks, PersistReport,
             AcquireMatrixLock, ValidateLockedEntry, CheckSupportingRuns, StageMatrix,
             ReplaceMatrix, ReloadPromotedEntry, ReopenReport, PersistPromotedReport,
             Crash, Leave, storeVars
  <2>2. ASSUME NEW g \in SupportRuns,
               StartSupportRun(g) \/ PreflightContract(g) \/ PersistSupportRecord(g)
        PROVE  support'[f].preflight = "none"
      BY <1>2, <2>0, <2>2, SupportRecord DEF TypeOK, StoreTypeOK
  <2> QED
      BY <1>2, <2>1, <2>2 DEF Next, StoreNext, AddDraftRow, DeprecateRow, ReleaseModules,
                              Quiescent, vars, storeVars, Fresh
<1> QED
    BY <1>1, <1>2 DEF Fresh

\* A context that a contract run has proven stays proven.
LEMMA ContractStep ==
    ASSUME TypeOK, ReportInv, Fresh, [Next]_vars, NEW c, ContractProven(c)
    PROVE  ContractProven(c)'
<1>1. ASSUME NEW p \in Promoters, contract[p].ctx = c, contract[p].verdict = "success"
      PROVE  contract'[p].ctx = c /\ contract'[p].verdict = "success"
  <2>1. ASSUME NEW q \in Promoters, q # p, LoadRegistry(q) \/ Step(q) \/ Crash(q)
        PROVE  contract'[p] = contract[p]
      BY <2>1, OthersStay
  <2>2. CASE contract' = contract
      BY <1>1, <2>2
  <2>3. CASE RunChecks(p)
      BY <1>1, <2>3 DEF RunChecks, Fresh
  <2>4. ASSUME NEW content \in {"plain", "retorn", "promoted"},
               WriteReport(p, contract[p].verdict, content), pc[p] \in {"writing", "unlocked", "rewriting"}
        PROVE  contract'[p].ctx = c /\ contract'[p].verdict = "success"
    <3>1. snap[p] = c
        BY <1>1, <2>4 DEF ReportInv, OwnReport
    <3>2. contract'[p] = [ctx |-> snap[p], verdict |-> contract[p].verdict, content |-> content]
        BY <2>4, ReportWritten, VerdictType
    <3> QED
        BY <1>1, <3>1, <3>2
  <2>5. CASE PersistReport(p) \/ ReopenReport(p) \/ PersistPromotedReport(p)
      BY <2>2, <2>4, <2>5 DEF PersistReport, ReopenReport, PersistPromotedReport
  <2>6. CASE \/ LoadRegistry(p) \/ SelectMatrixEntry(p) \/ AcquireMatrixLock(p)
             \/ ValidateLockedEntry(p) \/ CheckSupportingRuns(p) \/ StageMatrix(p)
             \/ ReplaceMatrix(p) \/ ReloadPromotedEntry(p) \/ Crash(p)
      BY <2>2, <2>6 DEF LoadRegistry, SelectMatrixEntry, AcquireMatrixLock, ValidateLockedEntry,
                CheckSupportingRuns, StageMatrix, ReplaceMatrix, ReloadPromotedEntry, Crash,
                Leave, storeVars
  <2>7. (StoreNext /\ UNCHANGED ownVars) \/ UNCHANGED vars => contract' = contract
      BY StoreStays DEF vars, storeVars
  <2> QED
      BY <1>1, <2>1, <2>2, <2>3, <2>5, <2>6, <2>7 DEF Next, Step, Quiescent
<1>2. ASSUME NEW f \in SupportRuns, support[f].ctx = c, support[f].preflight = "success"
      PROVE  support'[f].ctx = c /\ support'[f].preflight = "success"
  <2>1. ASSUME NEW p \in Promoters, LoadRegistry(p) \/ Step(p) \/ Crash(p)
        PROVE  support' = support
      BY <2>1 DEF Step, LoadRegistry, SelectMatrixEntry, RunChecks, PersistReport,
             AcquireMatrixLock, ValidateLockedEntry, CheckSupportingRuns, StageMatrix,
             ReplaceMatrix, ReloadPromotedEntry, ReopenReport, PersistPromotedReport,
             Crash, Leave, storeVars
  <2>2. ASSUME NEW g \in SupportRuns,
               StartSupportRun(g) \/ PreflightContract(g) \/ PersistSupportRecord(g)
        PROVE  support'[f].ctx = c /\ support'[f].preflight = "success"
      BY <1>2, <2>2, SupportRecord DEF Fresh, TypeOK, StoreTypeOK
  <2> QED
      BY <1>2, <2>1, <2>2 DEF Next, StoreNext, AddDraftRow, DeprecateRow, ReleaseModules,
                              Quiescent, vars, storeVars
<1> QED
    BY <1>1, <1>2 DEF ContractProven
-----------------------------------------------------------------------------
\* Steps of the pipeline.

\* Promoters, suites and operators on one side, freezers on the other: neither touches
\* what belongs to the other.
LEMMA TwoSides ==
    [PipelineNext]_pipelineVars =>
        [Next]_vars /\ (UNCHANGED freezeVars \/ (FreezeNext /\ UNCHANGED vars))
BY DEF PipelineNext, AllEnded, pipelineVars, vars, ownVars, storeVars, Next, FreezeNext,
       LoadModules, FreezeStep, FindVerifiedEntry, ScanRunDirectory, CollectRuns,
       PrepareLock, AcquireLockfile, StageLock, InstallLock, SyncDirectory, FreezerDies

\* The matrix side keeps its invariant whatever the freezers do.
LEMMA MatrixStep == MatrixInv /\ [Next]_vars => MatrixInv'
BY TypeStep, ReportStep, StampStep, EvidenceStep, MutexStep, CopiesKeptStep, FreshStep
   DEF MatrixInv, Inv

\* What a freezer relies on is not undone by the promoters, the suites and the operators.
LEMMA ReliedStep ==
    ASSUME MatrixInv, FreezeInv, [Next]_vars, UNCHANGED freezeVars
    PROVE  FreezeInv'
<1> USE DEF freezeVars
<1>0. TypeOK /\ ReportInv /\ Fresh
    BY DEF MatrixInv, Inv
<1>1. \A ref : Settled(ref) => Settled(ref)'
    BY <1>0, SettledStep
<1>2. \A c : ContractProven(c) => ContractProven(c)'
    BY <1>0, ContractStep
<1>3. \A c, suite : SuiteProven(c, suite) => SuiteProven(c, suite)'
    BY <1>0, SupportMoves
<1>4. \A c, found : /\ Earned(c, found) => Earned(c, found)'
                    /\ Complete(c, found) => Complete(c, found)'
    BY <1>2, <1>3 DEF Complete, Earned
<1>5. FreezeTypeOK'
    BY DEF FreezeInv, FreezeTypeOK
<1>6. ASSUME NEW z \in Freezers PROVE FreezerInv(z)'
  <2>1. FreezerInv(z)
      BY DEF FreezeInv
  <2> QED
      BY <1>1, <1>2, <1>4, <2>1 DEF FreezerInv
<1>7. ASSUME NEW key \in Keys PROVE LockfileInv(key)'
  <2>1. LockfileInv(key)
      BY DEF FreezeInv
  <2> QED
      BY <1>1, <1>4, <2>1 DEF LockfileInv
<1> QED
    BY <1>5, <1>6, <1>7 DEF FreezeInv

\* A report that the scan finds is that of a run that has succeeded.
LEMMA FoundIsProven ==
    \A c, suite : SuiteFound(c, suite) =>
        IF suite = "contract" THEN ContractProven(c) ELSE SuiteProven(c, suite)
BY DEF SuiteFound, ContractFound, ContractProven, RunFound, SuiteProven

\* A step of a freezer keeps its promises: it takes what it needs from verified rows.
LEMMA FreezerStep ==
    ASSUME MatrixInv, FreezeInv, FreezeNext, UNCHANGED vars
    PROVE  FreezeInv'
<1> USE DEF FreezeGoto, Unlock, FreezeEnded, FreezeHolding, Selected
<1>0. /\ FreezeTypeOK /\ CopiesKept
      /\ \A i \in Slots : matrix[i].ctx \in Contexts \cup {None}
                          /\ matrix[i].stamp \in Promoters \cup {None, Manual}
    BY DEF FreezeInv, MatrixInv, Inv, TypeOK, StoreTypeOK, Row
<1>1. /\ \A ref : Settled(ref)' <=> Settled(ref)
      /\ \A c : ContractProven(c)' <=> ContractProven(c)
      /\ \A c, found : Earned(c, found)' <=> Earned(c, found)
      /\ \A c, found : Complete(c, found)' <=> Complete(c, found)
    BY DEF vars, ownVars, storeVars, Settled, ContractProven, Complete, Earned, SuiteProven
<1>2. PICK z \in Freezers : LoadModules(z) \/ FreezeStep(z) \/ FreezerDies(z)
    BY DEF FreezeNext
<1>3. FreezerInv(z)
    BY DEF FreezeInv
<1>4. \A y \in Freezers \ {z} :
         fpc'[y] = fpc[y] /\ wanted'[y] = wanted[y] /\ chosen'[y] = chosen[y] /\ refs'[y] = refs[y]
    BY <1>0, <1>2 DEF FreezeTypeOK, LoadModules, FreezeStep, FindVerifiedEntry, ScanRunDirectory,
          CollectRuns, PrepareLock, AcquireLockfile, StageLock, InstallLock,
          SyncDirectory, FreezerDies
<1>5. FreezeTypeOK' /\ FreezerInv(z)' /\ (lockfile' = lockfile \/ InstallLock(z))
  <2>1. CASE LoadModules(z)
    <3>1. /\ \A key \in Keys : registry[key] \in Modules
          /\ refs' = refs /\ chosen' = chosen /\ lockfile' = lockfile /\ fileLock' = fileLock
        BY <2>1 DEF LoadModules, MatrixInv, Inv, TypeOK, StoreTypeOK
    <3>2. FreezeTypeOK'
        BY <1>0, <2>1, <3>1 DEF LoadModules, FreezeTypeOK
    <3>3. fpc'[z] = "loading" /\ wanted'[z] \in Keys /\ refs'[z] = {}
        BY <1>0, <1>3, <2>1 DEF LoadModules, FreezeTypeOK, FreezerInv
    <3> QED
        BY <3>1, <3>2, <3>3 DEF FreezerInv
  <2>2. CASE FindVerifiedEntry(z) /\ fpc'[z] = "collecting"
    <3>1. PICK i \in Slots : /\ FreezableRow(z, i)
                             /\ chosen' = [chosen EXCEPT ![z] =
                                   [ctx |-> matrix[i].ctx, stamp |-> matrix[i].stamp]]
                             /\ fpc' = [fpc EXCEPT ![z] = "collecting"]
        BY <1>0, <2>2 DEF FindVerifiedEntry, FreezeTypeOK
    <3> DEFINE ref == [ctx |-> matrix[i].ctx, stamp |-> matrix[i].stamp]
    <3>2. matrix[i].status = "verified" /\ KeyOf[matrix[i].ctx] = wanted[z]
        BY <3>1 DEF FreezableRow, VerifiedRows
    <3>3. matrix[i].ctx \in Contexts
        BY <1>0, <3>2 DEF CopiesKept
    <3>4. ref \in RowRef /\ ref.ctx = matrix[i].ctx /\ ref.stamp = matrix[i].stamp
        BY <1>0, <3>3 DEF RowRef
    <3>5. Settled(ref)
        BY <1>0, <3>2, <3>4, VerifiedIsSettled
    <3>6. wanted[z] \in Keys /\ refs[z] = {} /\ wanted' = wanted /\ refs' = refs
        BY <1>3, <2>2 DEF FindVerifiedEntry, FreezerInv
    <3>7. chosen'[z] = ref /\ fpc'[z] = "collecting"
        BY <1>0, <3>1 DEF FreezeTypeOK
    <3>8. FreezeTypeOK'
        BY <1>0, <2>2, <3>1, <3>4 DEF FindVerifiedEntry, FreezeTypeOK
    <3>9. lockfile' = lockfile
        BY <2>2 DEF FindVerifiedEntry
    <3> HIDE DEF ref
    <3> QED
        BY <1>1, <3>2, <3>4, <3>5, <3>6, <3>7, <3>8, <3>9 DEF FreezerInv, Earned
  <2>3. CASE FindVerifiedEntry(z) /\ fpc'[z] # "collecting"
    <3>1. fpc' = [fpc EXCEPT ![z] = "refused"] /\ UNCHANGED <<wanted, known, chosen, refs, lockfile, fileLock>>
        BY <1>0, <2>3 DEF FindVerifiedEntry, FreezeTypeOK
    <3> QED
        BY <1>0, <3>1 DEF FreezeTypeOK, FreezerInv
  <2>4. CASE ScanRunDirectory(z)
    <3> DEFINE c == chosen[z].ctx
    <3>1. fpc[z] = "collecting" /\ UNCHANGED <<wanted, known, chosen, lockfile, fileLock>>
        BY <2>4 DEF ScanRunDirectory
    <3>2. CASE refs' = refs
      <4>1. fpc' = [fpc EXCEPT ![z] = "refused"] \/ fpc' = [fpc EXCEPT ![z] = "failed"]
            \/ fpc' = fpc
          BY <2>4 DEF ScanRunDirectory
      <4> QED
          BY <1>0, <1>1, <1>3, <3>1, <3>2, <4>1 DEF FreezeTypeOK, FreezerInv
    <3>3. CASE refs' # refs
      <4>1. PICK suite \in RequiredOf[c] :
               /\ SuiteFound(c, suite) /\ fpc' = fpc
               /\ refs' = [refs EXCEPT ![z] = @ \cup {suite}]
          BY <2>4, <3>3 DEF ScanRunDirectory
      <4>2. c \in Contexts /\ Earned(c, refs[z])
          BY <1>3, <3>1 DEF FreezerInv, RowRef
      <4>3. refs'[z] = refs[z] \cup {suite} /\ suite \in RequiredTests
          BY <1>0, <4>1, <4>2, ContextParts DEF FreezeTypeOK
      <4>4. Earned(c, refs'[z])
          BY <4>1, <4>2, <4>3, FoundIsProven DEF Earned
      <4>5. FreezeTypeOK'
          BY <1>0, <3>1, <4>1, <4>3 DEF FreezeTypeOK
      <4> QED
          BY <1>1, <1>3, <3>1, <4>1, <4>4, <4>5 DEF FreezerInv
    <3> QED
        BY <3>2, <3>3
  <2>5. CASE CollectRuns(z)
    <3>1. /\ fpc[z] = "collecting" /\ fpc' = [fpc EXCEPT ![z] = "preparing"]
          /\ RequiredOf[chosen[z].ctx] \subseteq refs[z]
          /\ UNCHANGED <<wanted, known, chosen, refs, lockfile, fileLock>>
        BY <2>5 DEF CollectRuns
    <3>2. Complete(chosen[z].ctx, refs[z])
        BY <1>3, <3>1 DEF FreezerInv, Complete, Earned
    <3> QED
        BY <1>0, <1>1, <1>3, <3>1, <3>2 DEF FreezeTypeOK, FreezerInv
  <2>6. CASE PrepareLock(z) \/ AcquireLockfile(z) \/ StageLock(z)
    <3>1. /\ UNCHANGED <<wanted, known, chosen, refs, lockfile>>
          /\ fpc[z] \in Selected \ {"collecting"}
          /\ fpc' \in [Freezers -> FreezeEnded \cup FreezeHolding \cup
                            {"idle", "loading", "collecting", "preparing", "locking"}]
          /\ fpc'[z] \in {"locking", "staging", "installing", "failed"}
          /\ fileLock' \in [Keys -> Freezers \cup {None}]
        BY <1>0, <2>6 DEF PrepareLock, AcquireLockfile, StageLock, FreezeTypeOK
    <3> QED
        BY <1>0, <1>1, <1>3, <3>1 DEF FreezeTypeOK, FreezerInv
  <2>7. CASE InstallLock(z)
    <3>1. chosen[z] \in RowRef /\ refs[z] \in SUBSET RequiredTests
        BY <1>0, <1>3, <2>7 DEF InstallLock, FreezerInv, FreezeTypeOK
    <3>2. [row |-> chosen[z], refs |-> refs[z], by |-> z] \in Lock
        BY <3>1 DEF Lock
    <3>3. FreezeTypeOK'
        BY <1>0, <2>7, <3>2 DEF InstallLock, FreezeTypeOK
    <3> QED
        BY <1>0, <2>7, <3>3 DEF InstallLock, FreezeTypeOK, FreezerInv
  <2>8. CASE SyncDirectory(z) \/ FreezerDies(z)
      BY <1>0, <2>8 DEF SyncDirectory, FreezerDies, FreezeTypeOK, FreezerInv
  <2> QED
      BY <1>2, <2>1, <2>2, <2>3, <2>4, <2>5, <2>6, <2>7, <2>8 DEF FreezeStep
<1>6. ASSUME NEW y \in Freezers PROVE FreezerInv(y)'
  <2>1. CASE y = z
      BY <1>5, <2>1
  <2>2. CASE y # z
    <3>1. FreezerInv(y)
        BY DEF FreezeInv
    <3> QED
        BY <1>1, <1>4, <2>2, <3>1 DEF FreezerInv
  <2> QED
      BY <2>1, <2>2
<1>7. ASSUME NEW key \in Keys PROVE LockfileInv(key)'
  <2>1. LockfileInv(key)
      BY DEF FreezeInv
  <2>2. CASE lockfile'[key] = lockfile[key]
      BY <1>1, <2>1, <2>2 DEF LockfileInv
  <2>3. CASE lockfile'[key] # lockfile[key]
    <3>1. /\ fpc[z] = "installing" /\ key = wanted[z]
          /\ lockfile'[key] = [row |-> chosen[z], refs |-> refs[z], by |-> z]
        BY <1>0, <1>5, <2>3 DEF InstallLock, FreezeTypeOK
    <3>2. lockfile'[key].row = chosen[z] /\ lockfile'[key].refs = refs[z]
        BY <3>1
    <3>3. /\ KeyOf[chosen[z].ctx] = wanted[z] /\ Settled(chosen[z])
          /\ Complete(chosen[z].ctx, refs[z])
        BY <1>3, <3>1 DEF FreezerInv
    <3> QED
        BY <1>1, <3>1, <3>2, <3>3 DEF LockfileInv
  <2> QED
      BY <2>2, <2>3
<1> QED
    BY <1>5, <1>6, <1>7 DEF FreezeInv
-----------------------------------------------------------------------------
\* The invariant and what follows from it.

\* The pipeline starts with no lockfile and no freezer at work.
LEMMA PipelineStart == PipelineInit => PipelineInv
<1> SUFFICES ASSUME PipelineInit PROVE PipelineInv
    OBVIOUS
<1>1. Inv /\ Mutex
    BY InvInit, LockInit DEF PipelineInit, LockInv
<1>2. CopiesKept /\ Fresh
    BY InitialMatrix, InitialList
       DEF PipelineInit, Init, StoreInit, CopiesKept, Fresh, Copying, Row
<1>3. FreezeInv
    BY DEF PipelineInit, FreezeInit, FreezeInv, FreezeTypeOK, FreezerInv, LockfileInv, Selected
<1> QED
    BY <1>1, <1>2, <1>3 DEF PipelineInv, MatrixInv

\* In any run of the pipeline, the invariant holds of every state.
THEOREM PipelineInductive == PipelineSpec => []PipelineInv
<1>1. PipelineInv /\ [PipelineNext]_pipelineVars => PipelineInv'
    BY TwoSides, MatrixStep, ReliedStep, FreezerStep DEF PipelineInv
<1> QED
    BY <1>1, PipelineStart, PTL DEF PipelineSpec

\* An installed lock names a row that is in the matrix and was verified, whoever has
\* edited or replaced the file since the freezer read it.
THEOREM LocksNameVerifiedRows == PipelineSpec => []LockNamesVerifiedRow
<1>1. PipelineInv => LockNamesVerifiedRow
    BY DEF PipelineInv, FreezeInv, LockfileInv, LockNamesVerifiedRow, Settled, Holds
<1> QED
    BY <1>1, PipelineInductive, PTL

\* An installed lock lists every suite of its row, and each has succeeded in that context.
THEOREM LocksAreProven == PipelineSpec => []LockIsProven
<1>1. PipelineInv => LockIsProven
    BY DEF PipelineInv, FreezeInv, LockfileInv, LockIsProven, Complete, Earned, Supporting
<1> QED
    BY <1>1, PipelineInductive, PTL

\* What the promotion accepted as evidence, the freeze finds, unless the promoter is in,
\* or was stopped in, the rewriting of its report.
THEOREM PromotedRowsAreFreezable == PipelineSpec => PromotedRowsFreeze
<1> DEFINE Accepted ==
       \A z \in Freezers :
          /\ fpc[z] = "collecting"
          /\ fpc'[z] = "refused"
          /\ chosen[z].stamp \in Promoters
          => pc[chosen[z].stamp] \in {"rewriting", "errored", "crashed"}
<1>1. PipelineInv /\ [PipelineNext]_pipelineVars => [Accepted]_pipelineVars
  <2> SUFFICES ASSUME PipelineInv, [PipelineNext]_pipelineVars, NEW z \in Freezers,
                      fpc[z] = "collecting", fpc'[z] = "refused", chosen[z].stamp \in Promoters
               PROVE  pc[chosen[z].stamp] \in {"rewriting", "errored", "crashed"}
      OBVIOUS
  <2> DEFINE ref == chosen[z]
  <2>1. Settled(ref) /\ FreezeTypeOK
      BY DEF PipelineInv, FreezeInv, FreezerInv, Selected
  <2>2. PICK i \in Slots : matrix[i].ctx = ref.ctx /\ matrix[i].stamp = ref.stamp
      BY <2>1 DEF Settled, Holds
  <2>3. EvidenceBacked(matrix[i])
      BY DEF PipelineInv, MatrixInv, Inv, VerifiedHasEvidence
  <2>4. ScanRunDirectory(z)
    <3>1. PICK y \in Freezers : LoadModules(y) \/ FreezeStep(y) \/ FreezerDies(y)
        BY TwoSides DEF FreezeNext, freezeVars
    <3>2. y = z
        BY <2>1, <3>1 DEF LoadModules, FreezeStep, FindVerifiedEntry, ScanRunDirectory,
              CollectRuns, PrepareLock, AcquireLockfile, StageLock, InstallLock,
              SyncDirectory, FreezerDies, FreezeGoto, FreezeTypeOK
    <3> QED
        BY <2>1, <3>1, <3>2 DEF LoadModules, FreezeStep, FindVerifiedEntry, CollectRuns,
              PrepareLock, AcquireLockfile, StageLock, InstallLock, SyncDirectory, FreezerDies,
              FreezeGoto, FreezeTypeOK
  <2>5. PICK suite \in RequiredOf[ref.ctx] : ~SuiteFound(ref.ctx, suite)
      BY <2>1, <2>4 DEF ScanRunDirectory, FreezeGoto, FreezeTypeOK
  <2>6. suite = "contract"
      BY <2>2, <2>3, <2>5 DEF EvidenceBacked, Supporting, SuiteProven, SuiteFound, RunFound
  <2>7. contract[ref.stamp].content \notin Readable
      BY <2>2, <2>3, <2>5, <2>6 DEF EvidenceBacked, SuiteFound, ContractFound
  <2> QED
      BY <2>2, <2>3, <2>7 DEF EvidenceBacked
<1>2. []PipelineInv /\ [][PipelineNext]_pipelineVars => [][Accepted]_pipelineVars
    BY <1>1, PTL
<1> QED
    BY <1>2, PipelineInductive, PTL DEF PipelineSpec, PromotedRowsFreeze
=============================================================================
