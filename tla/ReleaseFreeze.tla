---------------------------- MODULE ReleaseFreeze ----------------------------
(***************************************************************************)
(* release-freeze: freeze_profile of registry/freezer.py.  Each freezer is *)
(* a process that reads the registry and then the matrix, without any lock,*)
(* takes the one verified row of its key, looks for the evidence of that   *)
(* row in the reports directories and replaces the day's lockfile of the   *)
(* key, under a flock on that lockfile.  One day is modelled: freezes of a *)
(* key on one day share a file.  A freezer may crash anywhere.             *)
(***************************************************************************)
EXTENDS EvidenceStore

CONSTANT Freezers

VARIABLES
    fpc,      \* where each freezer stands
    wanted,   \* the key it was asked to freeze
    known,    \* module versions in the registry it loaded
    chosen,   \* the verified row it found: context and stamp
    refs,     \* suites whose supporting run it has found
    lockfile, \* the day's version lock of each key
    fileLock  \* holder of the flock on each lockfile

freezeVars == <<fpc, wanted, known, chosen, refs, lockfile, fileLock>>

FreezeEnded   == {"refused", "failed", "frozen", "dead"}
FreezeHolding == {"staging", "installing", "syncing"}

RowRef == [ctx : Contexts, stamp : Promoters \cup {None, Manual}]
Lock   == [row : RowRef, refs : SUBSET RequiredTests, by : Freezers]

FreezeTypeOK ==
    /\ fpc \in [Freezers -> FreezeEnded \cup FreezeHolding \cup
                            {"idle", "loading", "collecting", "preparing", "locking"}]
    /\ wanted \in [Freezers -> Keys \cup {None}]
    /\ known \in [Freezers -> Modules \cup {None}]
    /\ chosen \in [Freezers -> RowRef \cup {None}]
    /\ refs \in [Freezers -> SUBSET RequiredTests]
    /\ lockfile \in [Keys -> Lock \cup {None}]
    /\ fileLock \in [Keys -> Freezers \cup {None}]

FreezeInit ==
    /\ fpc = [z \in Freezers |-> "idle"]
    /\ wanted = [z \in Freezers |-> None]
    /\ known = [z \in Freezers |-> None]
    /\ chosen = [z \in Freezers |-> None]
    /\ refs = [z \in Freezers |-> {}]
    /\ lockfile = [key \in Keys |-> None]
    /\ fileLock = [key \in Keys |-> None]

FreezeGoto(z, label) == fpc' = [fpc EXCEPT ![z] = label]

\* The exception leaves the with block: the flock on the lockfile is released.
Unlock(z) == fileLock' = [fileLock EXCEPT ![wanted[z]] = None]

-----------------------------------------------------------------------------
\* freeze_profile: two files are read one after the other

LoadModules(z) ==
    /\ fpc[z] = "idle"
    /\ \E key \in Keys : /\ wanted' = [wanted EXCEPT ![z] = key]
                         /\ known' = [known EXCEPT ![z] = registry[key]]
    /\ FreezeGoto(z, "loading")
    /\ UNCHANGED <<storeVars, chosen, refs, lockfile, fileLock>>

VerifiedRows(key) ==
    {i \in Slots : matrix[i].status = "verified" /\ KeyOf[matrix[i].ctx] = key}

\* Variant of FreezableRow: any active row will do.
FreezableActive(z, i) == ActiveRows(matrix, wanted[z], known[z]) = {i}

\* The unique verified row of the key, and it has the versions the key resolves to.
FreezableRow(z, i) ==
    /\ VerifiedRows(wanted[z]) = {i}
    /\ ModulesOf[matrix[i].ctx] = known[z]

\* load_compatibility_matrix, find_verified_matrix_entry, and _version_lock_modules,
\* which refuses registry modules that are not verified themselves.
FindVerifiedEntry(z) ==
    /\ fpc[z] = "loading"
    /\ \/ \E i \in Slots :
             /\ FreezableRow(z, i)
             /\ chosen' = [chosen EXCEPT ![z] =
                              [ctx |-> matrix[i].ctx, stamp |-> matrix[i].stamp]]
             /\ FreezeGoto(z, "collecting")
       \/ FreezeGoto(z, "refused") /\ UNCHANGED chosen
    /\ UNCHANGED <<storeVars, wanted, known, refs, lockfile, fileLock>>

\* A complete and successful contract report of the context: a promoter's or the
\* preflight of an e2e run.
ContractFound(c) ==
    \/ \E p \in Promoters : /\ contract[p].content \in Readable
                            /\ contract[p].verdict = "success"
                            /\ contract[p].ctx = c
    \/ \E f \in SupportRuns : support[f].preflight = "success" /\ support[f].ctx = c

SuiteFound(c, suite) == IF suite = "contract" THEN ContractFound(c) ELSE RunFound(c, suite)

\* One directory after the other, in the order of required_tests; only what the row lists
\* is looked for, and a test that no suite has is never found.  The code scans on to name
\* all that is missing, but the first one missing settles the refusal.  An e2e record must
\* also name a contract report of its own context; the record of a finished e2e run does,
\* as its context is copied from that report.  A report that is no text ends the freeze.
ScanRunDirectory(z) ==
    /\ fpc[z] = "collecting"
    /\ \E suite \in RequiredOf[chosen[z].ctx] \ refs[z] :
          \/ /\ SuiteFound(chosen[z].ctx, suite)
             /\ refs' = [refs EXCEPT ![z] = @ \cup {suite}]
             /\ UNCHANGED fpc
          \/ /\ ~SuiteFound(chosen[z].ctx, suite)
             /\ FreezeGoto(z, "refused")
             /\ UNCHANGED refs
          \/ FreezeGoto(z, "failed") /\ UNCHANGED refs
    /\ UNCHANGED <<storeVars, wanted, known, chosen, lockfile, fileLock>>

\* Every run that the row requires has been found.
CollectRuns(z) ==
    /\ fpc[z] = "collecting"
    /\ RequiredOf[chosen[z].ctx] \subseteq refs[z]
    /\ FreezeGoto(z, "preparing")
    /\ UNCHANGED <<storeVars, wanted, known, chosen, refs, lockfile, fileLock>>

-----------------------------------------------------------------------------
\* _write_lock

\* Opens the .lock file beside the lockfile; the directory may not be writable.
PrepareLock(z) ==
    /\ fpc[z] = "preparing"
    /\ FreezeGoto(z, "locking") \/ FreezeGoto(z, "failed")
    /\ UNCHANGED <<storeVars, wanted, known, chosen, refs, lockfile, fileLock>>

AcquireLockfile(z) ==
    /\ fpc[z] = "locking"
    /\ fileLock[wanted[z]] = None
    /\ fileLock' = [fileLock EXCEPT ![wanted[z]] = z]
    /\ FreezeGoto(z, "staging")
    /\ UNCHANGED <<storeVars, wanted, known, chosen, refs, lockfile>>

\* mkstemp, write, fsync of the temporary file, which an error removes again.
StageLock(z) ==
    /\ fpc[z] = "staging"
    /\ \/ FreezeGoto(z, "installing") /\ UNCHANGED fileLock
       \/ FreezeGoto(z, "failed") /\ Unlock(z)
    /\ UNCHANGED <<storeVars, wanted, known, chosen, refs, lockfile>>

\* os.replace; an existing lockfile of the day is overwritten without being read.
InstallLock(z) ==
    /\ fpc[z] = "installing"
    /\ \/ /\ lockfile' = [lockfile EXCEPT ![wanted[z]] =
                             [row |-> chosen[z], refs |-> refs[z], by |-> z]]
          /\ FreezeGoto(z, "syncing")
          /\ UNCHANGED fileLock
       \/ FreezeGoto(z, "failed") /\ Unlock(z) /\ UNCHANGED lockfile
    /\ UNCHANGED <<storeVars, wanted, known, chosen, refs>>

\* Variant of SyncDirectory: no finally, an exception keeps the flock.
SyncKeepsLock(z) ==
    /\ fpc[z] = "syncing"
    /\ \/ FreezeGoto(z, "frozen") /\ Unlock(z)
       \/ FreezeGoto(z, "failed") /\ UNCHANGED fileLock
    /\ UNCHANGED <<storeVars, wanted, known, chosen, refs, lockfile>>

\* fsync of the directory, inside the same try block as the replace.
SyncDirectory(z) ==
    /\ fpc[z] = "syncing"
    /\ FreezeGoto(z, "frozen") \/ FreezeGoto(z, "failed")
    /\ Unlock(z)
    /\ UNCHANGED <<storeVars, wanted, known, chosen, refs, lockfile>>

-----------------------------------------------------------------------------

FreezerDies(z) ==
    /\ fpc[z] \notin FreezeEnded \cup {"idle"}
    /\ FreezeGoto(z, "dead")
    /\ fileLock' = [key \in Keys |-> IF fileLock[key] = z THEN None ELSE fileLock[key]]
    /\ UNCHANGED <<storeVars, wanted, known, chosen, refs, lockfile>>

FreezeStep(z) ==
    \/ FindVerifiedEntry(z) \/ ScanRunDirectory(z) \/ CollectRuns(z)
    \/ PrepareLock(z) \/ AcquireLockfile(z)
    \/ StageLock(z) \/ InstallLock(z) \/ SyncDirectory(z)

FreezeNext == \E z \in Freezers : LoadModules(z) \/ FreezeStep(z) \/ FreezerDies(z)
=============================================================================
