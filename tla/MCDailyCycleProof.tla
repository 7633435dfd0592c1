-------------------------- MODULE MCDailyCycleProof --------------------------
(***************************************************************************)
(* Two selected assets and one that is not, an expected and another check, *)
(* two probes, two steps in which the job may fail, and two runs in one    *)
(* artifact directory.                                                     *)
(***************************************************************************)
EXTENDS DailyCycleProof

TwoProbes    == {"neo4j_gds", "codex_reasoner_health"}
ThreeAssets  == {"candidate_freeze", "graph_snapshot", "stray"}
TwoSelected  == {"candidate_freeze", "graph_snapshot"}
TwoChecks    == {"llm_health_check", "extra_check"}
OneExpected  == {"llm_health_check"}
TwoFailSteps == {"graph_snapshot", "l1"}
SomeRuntime  == {{}, {"configured_graph_phase1_runtime", "configured_reasoner_runtime"}}
=============================================================================
