-------------------------- MODULE MCMatrixPromotion --------------------------
(***************************************************************************)
(* An instance of MatrixPromotion: rows for two keys (a profile with and   *)
(* without an optional bundle), an old and a new context for the first.    *)
(***************************************************************************)
EXTENDS MatrixPromotion, TLC

CONSTANTS a1, a2, b1, p1, p2, s1, e1

ThreeContexts == {a1, a2, b1}
OneKey        == {a1, a2}
TwoPromoters  == {p1, p2}
TwoSupports   == {s1, e1}
Interchangeable == Permutations(TwoPromoters) \cup Permutations(TwoSupports)

\* a1 and a2 are the same profile before and after a module release.
KeyOfContext     == [c \in Contexts |-> IF c = b1 THEN "full-dev+minio" ELSE "full-dev"]
ModulesOfContext == [c \in Contexts |-> IF c = a2 THEN "v2" ELSE "v1"]
RegistryAtStart  == [key \in Keys |-> "v1"]

AllSuites  == [c \in Contexts |-> {"contract", "smoke", "e2e"}]
SmokeOnly  == [c \in Contexts |-> {"contract", "smoke"}]
SuiteOfTwo == (s1 :> "smoke") @@ (e1 :> "e2e")
TwoSmokes  == (s1 :> "smoke") @@ (e1 :> "smoke")

Empty    == [ctx |-> None, status |-> "absent", stamp |-> None]
Draft(c) == [ctx |-> c, status |-> "draft", stamp |-> None]

\* A draft for each key, and a context that was deprecated and entered again: it is
\* selected once the registry has been released, and must not be verified.
DraftsAndReentry ==
    <<Draft(a1), Draft(b1),
      [ctx |-> a2, status |-> "deprecated", stamp |-> Manual], Draft(a2), Empty>>
OldAndNew == <<Draft(a1), Draft(a2)>>
=============================================================================
