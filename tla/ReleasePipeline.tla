--------------------------- MODULE ReleasePipeline ---------------------------
(***************************************************************************)
(* The way of a release: suites leave their records, contract-suite        *)
(* --promote verifies a row, release-freeze writes the version lock.  All  *)
(* of them run as processes side by side over the files of EvidenceStore.  *)
(* Promotion locks the matrix; freezing locks its own lockfile only.       *)
(***************************************************************************)
EXTENDS MatrixPromotion, ReleaseFreeze

pipelineVars == <<vars, freezeVars>>

PipelineInit == Init /\ FreezeInit

AllEnded ==
    /\ \A p \in Promoters : pc[p] \in Ended
    /\ \A z \in Freezers : fpc[z] \in FreezeEnded
    /\ UNCHANGED pipelineVars

PipelineNext ==
    \/ \E p \in Promoters :
          (LoadRegistry(p) \/ Step(p) \/ Crash(p)) /\ UNCHANGED freezeVars
    \/ StoreNext /\ UNCHANGED <<ownVars, freezeVars>>
    \/ FreezeNext /\ UNCHANGED ownVars
    \/ AllEnded

PipelineSpec == PipelineInit /\ [][PipelineNext]_pipelineVars

\* Started processes keep running and flock wakes its waiters, as in FairSpec.
FairPipeline ==
    /\ PipelineSpec
    /\ \A p \in Promoters : WF_pipelineVars(Step(p) /\ UNCHANGED freezeVars)
    /\ \A z \in Freezers : WF_pipelineVars(FreezeStep(z) /\ UNCHANGED ownVars)
-----------------------------------------------------------------------------

\* Every installed lock names, for its own key, a row that is still in the matrix
\* under the same stamp and was verified: nothing that happened between the load and
\* the replace has undone the row (freeze_profile, _atomic_write_yaml).
LockNamesVerifiedRow ==
    \A key \in Keys :
        lockfile[key] # None =>
            LET row == lockfile[key].row
            IN  /\ KeyOf[row.ctx] = key
                /\ \E i \in Slots : /\ matrix[i].ctx = row.ctx
                                    /\ matrix[i].stamp = row.stamp
                                    /\ matrix[i].status \in {"verified", "deprecated"}

\* Some contract run of this context has succeeded, whatever became of its file.
ContractProven(c) ==
    \/ \E p \in Promoters : contract[p].ctx = c /\ contract[p].verdict = "success"
    \/ \E f \in SupportRuns : support[f].ctx = c /\ support[f].preflight = "success"

\* A lock lists a run for every suite that its row requires, and each of these suites
\* really succeeded in the context of the row (collect_supporting_run_records).
LockIsProven ==
    \A key \in Keys :
        lockfile[key] # None =>
            LET c == lockfile[key].row.ctx
            IN  /\ lockfile[key].refs = RequiredOf[c]
                /\ "contract" \in RequiredOf[c] => ContractProven(c)
                /\ \A suite \in Supporting(c) : SuiteProven(c, suite)

\* Promotion and freeze agree on what evidence is: a row that a promoter verified is
\* refused for missing runs only when that promoter is in, or was stopped in, the
\* rewriting of its report (_validated_supporting_run_records and
\* collect_supporting_run_records, PersistPromotedReport).
PromotedRowsFreeze ==
    [][\A z \in Freezers :
          /\ fpc[z] = "collecting"
          /\ fpc'[z] = "refused"
          /\ chosen[z].stamp \in Promoters
          => pc[chosen[z].stamp] \in {"rewriting", "errored", "crashed"}]_pipelineVars

\* Every started freeze ends, though freezes of a key wait for each other.
FreezesEnd == \A z \in Freezers : fpc[z] = "loading" ~> fpc[z] \in FreezeEnded

=============================================================================
