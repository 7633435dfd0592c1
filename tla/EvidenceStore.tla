---------------------------- MODULE EvidenceStore ----------------------------
(***************************************************************************)
(* The files that the release tools share.  compatibility-matrix.yaml is a *)
(* list of rows, the module registry fixes the module versions in force,   *)
(* and the reports directories hold one JSON record per suite run.  Every  *)
(* tool is a process of its own: it reads these files, works for a while   *)
(* on what it read, and writes some of them back.                          *)
(*                                                                         *)
(* A row's CONTEXT is what its digest covers: profile, extra bundles,      *)
(* matrix and contract version, module set.  KeyOf gives the profile and   *)
(* bundles of a context, ModulesOf its module versions.                    *)
(***************************************************************************)
EXTENDS Naturals

CONSTANTS
    Contexts, KeyOf, ModulesOf, \* row contexts and their parts
    RequiredOf,                 \* required_tests of a context's row
    NumRows,                    \* bound: rows the matrix file can hold
    InitialRows,                \* the matrix file at the start
    InitialModules,             \* the registry's module versions, per key
    Promoters,                  \* contract-suite processes
    SupportRuns, SuiteOf,       \* smoke and e2e runs, and the suite of each
    MaxEdits,                   \* bound: hand edits of matrix and registry
    EditsWait,                  \* operators edit only while the lock is free
    None, Manual                \* no value; a row stamped by hand

Keys    == {KeyOf[c] : c \in Contexts}
Modules == {ModulesOf[c] : c \in Contexts}
Suites  == {"smoke", "e2e"}
Slots   == 1..NumRows

\* What required_tests can list.  "unknown" is a name that no suite has.
RequiredTests == Suites \cup {"contract", "unknown"}

\* What a row requires beside the contract run, and what smoke or e2e runs may prove.
Supporting(c) == RequiredOf[c] \ {"contract"}

Statuses == {"absent", "draft", "verified", "deprecated"}

\* A row of the file.  verified_at is abstracted to who stamped it.
Row == [ctx : Contexts \cup {None}, status : Statuses,
        stamp : Promoters \cup {None, Manual}]

\* A contract report: its record's context and status, and what the file holds.
\* "torn" and "retorn" are the truncated file of the first and of the second write.
ContractReport ==
    [ctx : Contexts \cup {None},
     verdict : {"success", "failed", "none"},
     content : {"absent", "torn", "plain", "retorn", "promoted"}]

\* A smoke or e2e report.  "running": the file is missing, or truncated and not yet
\* filled; a run that dies leaves it so.  The contract suite that an e2e run starts
\* with leaves a contract report of its own, in the same context: preflight.  The view
\* is the part of the registry that the run has loaded and not yet used.
SupportReport ==
    [view : [key : Keys, versions : Modules] \cup {None},
     ctx : Contexts \cup {None},
     preflight : {"none", "success", "failed"},
     content : {"absent", "running", "failed", "success"}]

ASSUME ContextParts ==
    /\ KeyOf \in [Contexts -> Keys]
    /\ ModulesOf \in [Contexts -> Modules]
    /\ RequiredOf \in [Contexts -> SUBSET RequiredTests]
    /\ SuiteOf \in [SupportRuns -> Suites]
    /\ InitialModules \in [Keys -> Modules]

ASSUME StoreBounds == NumRows \in Nat /\ MaxEdits \in Nat /\ EditsWait \in BOOLEAN

ASSUME NoValue == None \notin Contexts /\ None \notin Promoters

\* No promoter has stamped a row before the first one runs.
ASSUME InitialMatrix ==
    /\ InitialRows \in [Slots -> Row]
    /\ \A i \in Slots : InitialRows[i].stamp \notin Promoters

\* The file is a list: its rows come first, and each has a context.
ASSUME InitialList ==
    \A i \in Slots :
        /\ InitialRows[i].status = "absent" <=> InitialRows[i].ctx = None
        /\ InitialRows[i].status = "absent" =>
              \A j \in Slots : i < j => InitialRows[j].status = "absent"

VARIABLES
    matrix,     \* the rows of compatibility-matrix.yaml, by position
    matrixLock, \* holder of the flock on compatibility-matrix.yaml.lock
    registry,   \* module versions that resolve for each key
    contract,   \* reports/contract, one file per contract-suite process
    support,    \* reports/smoke and reports/e2e, one file per run
    edits       \* hand edits so far

storeVars == <<matrix, matrixLock, registry, contract, support, edits>>

StoreTypeOK ==
    /\ matrix \in [Slots -> Row]
    /\ matrixLock \in Promoters \cup {None}
    /\ registry \in [Keys -> Modules]
    /\ contract \in [Promoters -> ContractReport]
    /\ support \in [SupportRuns -> SupportReport]
    /\ edits \in 0..MaxEdits

StoreInit ==
    /\ matrix = InitialRows
    /\ matrixLock = None
    /\ registry = InitialModules
    /\ contract = [p \in Promoters |->
                      [ctx |-> None, verdict |-> "none", content |-> "absent"]]
    /\ support = [f \in SupportRuns |->
                     [view |-> None, ctx |-> None, preflight |-> "none", content |-> "absent"]]
    /\ edits = 0

-----------------------------------------------------------------------------
\* Readers of the store, and the one way a row changes

\* What a reader finds: json.loads rejects a truncated report.
Readable == {"plain", "promoted"}

\* The position a scan from the top of the list stops at.
IsFirst(i, hits) == i \in hits /\ \A j \in hits : i <= j

\* Rows that _select_matrix_entry accepts for a key and resolved versions.
ActiveRows(rows, key, versions) ==
    {i \in Slots : /\ rows[i].status \notin {"absent", "deprecated"}
                   /\ KeyOf[rows[i].ctx] = key
                   /\ ModulesOf[rows[i].ctx] = versions}

\* Rows whose promotion-lookup key is this context, whatever their status.
RowsOf(rows, c) == {i \in Slots : rows[i].status # "absent" /\ rows[i].ctx = c}

\* The rows with one row given a new status and stamp.
Mark(rows, i, status, by) ==
    [rows EXCEPT ![i] = [ctx |-> @.ctx, status |-> status, stamp |-> by]]

\* Variant of RunFound: the record's context is not compared.
RunFoundAnyContext(c, suite) ==
    \E f \in SupportRuns : SuiteOf[f] = suite /\ support[f].content = "success"

\* _find_successful_run_record: a readable successful record bound to the context.
RunFound(c, suite) ==
    \E f \in SupportRuns : /\ SuiteOf[f] = suite
                           /\ support[f].content = "success"
                           /\ support[f].ctx = c

-----------------------------------------------------------------------------
\* Smoke and e2e runs: they select a row, work, and leave a record.  Registry and matrix
\* are read one after the other, so the row may be selected for versions that are no
\* longer in force.  An e2e run first runs the contract suite, which selects its row
\* again from a snapshot of its own; the e2e record takes that row's context, and a
\* change of context fails it.

View(f, key) ==
    /\ support[f].view = None
    /\ support' = [support EXCEPT ![f].view = [key |-> key, versions |-> registry[key]]]

\* The row that the loaded part of the registry selects in the matrix as it is now.
Selects(f, i) ==
    LET view == support[f].view
    IN  view # None /\ IsFirst(i, ActiveRows(matrix, view.key, view.versions))

StartSupportRun(f) ==
    /\ support[f].content = "absent"
    /\ \/ \E key \in Keys : View(f, key)
       \/ \E i \in Slots :
             /\ Selects(f, i)
             /\ support' = [support EXCEPT ![f] =
                   [view |-> None, ctx |-> matrix[i].ctx, preflight |-> "none",
                    content |-> "running"]]
    /\ UNCHANGED <<matrix, matrixLock, registry, contract, edits>>

PreflightContract(f) ==
    /\ SuiteOf[f] = "e2e" /\ support[f].content = "running" /\ support[f].preflight = "none"
    /\ \/ \E key \in Keys : key = KeyOf[support[f].ctx] /\ View(f, key)
       \/ \E i \in Slots, verdict \in {"success", "failed"} :
             /\ Selects(f, i)
             /\ support' = [support EXCEPT ![f] =
                   [view |-> None, ctx |-> matrix[i].ctx, preflight |-> verdict,
                    content |-> IF matrix[i].ctx = @.ctx THEN "running" ELSE "failed"]]
    /\ UNCHANGED <<matrix, matrixLock, registry, contract, edits>>

\* A preflight that is only partial lets the e2e run go on, so its verdict is no guard.
PersistSupportRecord(f) ==
    /\ support[f].content = "running"
    /\ \E result \in {"success", "failed"} :
          /\ result = "success" /\ SuiteOf[f] = "e2e" => support[f].preflight # "none"
          /\ support' = [support EXCEPT ![f] =
                [view |-> None, ctx |-> @.ctx, preflight |-> @.preflight, content |-> result]]
    /\ UNCHANGED <<matrix, matrixLock, registry, contract, edits>>

-----------------------------------------------------------------------------
\* Operators edit the artifacts by hand or through git, outside any code of the
\* repository: a new draft row at the end of the list, a row deprecated, a
\* module release recorded in the registry.

MayEdit == edits < MaxEdits /\ (EditsWait => matrixLock = None)

AddDraftRow(c) ==
    /\ MayEdit
    /\ \E i \in Slots :
          /\ IsFirst(i, {j \in Slots : matrix[j].status = "absent"})
          /\ matrix' = [matrix EXCEPT ![i] = [ctx |-> c, status |-> "draft", stamp |-> None]]
    /\ edits' = edits + 1
    /\ UNCHANGED <<matrixLock, registry, contract, support>>

DeprecateRow(i) ==
    /\ MayEdit
    /\ matrix[i].status \in {"draft", "verified"}
    /\ matrix' = Mark(matrix, i, "deprecated", matrix[i].stamp)
    /\ edits' = edits + 1
    /\ UNCHANGED <<matrixLock, registry, contract, support>>

ReleaseModules(key, versions) ==
    /\ edits < MaxEdits
    /\ registry[key] # versions
    /\ registry' = [registry EXCEPT ![key] = versions]
    /\ edits' = edits + 1
    /\ UNCHANGED <<matrix, matrixLock, contract, support>>

StoreNext ==
    \/ \E f \in SupportRuns :
          StartSupportRun(f) \/ PreflightContract(f) \/ PersistSupportRecord(f)
    \/ \E c \in Contexts : AddDraftRow(c)
    \/ \E i \in Slots : DeprecateRow(i)
    \/ \E key \in Keys, versions \in Modules : ReleaseModules(key, versions)
=============================================================================
