-------------------------- MODULE MCReleasePipeline --------------------------
(***************************************************************************)
(* An instance of ReleasePipeline: one key, a row verified by hand for the *)
(* modules in force and a draft for the next module release.               *)
(***************************************************************************)
EXTENDS ReleasePipeline, TLC

CONSTANTS a1, a2, p1, p2, z1, z2, s1, e1

TwoContexts  == {a1, a2}
OneContext   == {a1}
OnePromoter  == {p1}
TwoPromoters == {p1, p2}
OneFreezer   == {z1}
TwoFreezers  == {z1, z2}
TwoSupports  == {s1, e1}
OneE2E       == {e1}
NoRuns       == {}

KeyOfContext     == [c \in Contexts |-> "full-dev"]
ModulesOfContext == [c \in Contexts |-> IF c = a1 THEN "v1" ELSE "v2"]
RegistryAtStart  == "full-dev" :> "v1"
AllSuites        == [c \in Contexts |-> {"contract", "smoke", "e2e"}]
ContractOnly     == [c \in Contexts |-> {"contract"}]
SuiteOfNone      == <<>>
E2EOnly          == [c \in Contexts |-> {"e2e"}]
SuiteOfTwo       == (s1 :> "smoke") @@ (e1 :> "e2e")
SuiteOfE2E       == e1 :> "e2e"

OldAndNew  == <<[ctx |-> a1, status |-> "verified", stamp |-> Manual],
                [ctx |-> a2, status |-> "draft", stamp |-> None]>>
OneDraft   == <<[ctx |-> a1, status |-> "draft", stamp |-> None]>>
=============================================================================
