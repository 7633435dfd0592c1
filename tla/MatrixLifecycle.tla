--------------------------- MODULE MatrixLifecycle ---------------------------
(***************************************************************************)
(* What the compatibility matrix promises to its readers: rows only move   *)
(* from draft to verified to deprecated, one row at a time, and a row      *)
(* becomes verified only when each suite it requires has been proven in    *)
(* that row's own context.                                                 *)
(***************************************************************************)
CONSTANTS Slots, Contexts, RequiredOf, None

VARIABLES
    rows,   \* the matrix: context and status of each position
    proven  \* suites that have succeeded in a context

Proofs == Contexts \X {"contract", "smoke", "e2e"}
Absent == [ctx |-> None, status |-> "absent"]

Init ==
    /\ rows \in [Slots -> {Absent} \cup
                    [ctx : Contexts, status : {"draft", "verified", "deprecated"}]]
    /\ proven = {}

Prove(proof) ==
    /\ proven' = proven \cup {proof}
    /\ UNCHANGED rows

AddDraft(i, c) ==
    /\ rows[i].status = "absent"
    /\ rows' = [rows EXCEPT ![i] = [ctx |-> c, status |-> "draft"]]
    /\ UNCHANGED proven

Verify(i) ==
    /\ rows[i].status = "draft"
    /\ \A suite \in RequiredOf[rows[i].ctx] \cup {"contract"} :
          <<rows[i].ctx, suite>> \in proven
    /\ rows' = [rows EXCEPT ![i] = [ctx |-> @.ctx, status |-> "verified"]]
    /\ UNCHANGED proven

Deprecate(i) ==
    /\ rows[i].status \in {"draft", "verified"}
    /\ rows' = [rows EXCEPT ![i] = [ctx |-> @.ctx, status |-> "deprecated"]]
    /\ UNCHANGED proven

Next ==
    \/ \E proof \in Proofs : Prove(proof)
    \/ \E i \in Slots : Verify(i) \/ Deprecate(i) \/ \E c \in Contexts : AddDraft(i, c)

Spec == Init /\ [][Next]_<<rows, proven>>
=============================================================================
