------------------------- MODULE MCHealthConvergence -------------------------
(***************************************************************************)
(* Two required services around an optional one, an optional one without a *)
(* probe, a module that is probed and one that is not.                     *)
(***************************************************************************)
EXTENDS HealthConvergence

Startup  == <<"postgres", "minio", "dagster-daemon", "grafana">>
Extras   == {"minio", "grafana"}
NoProbe  == {"grafana"}
Registry == <<"orchestrator", "subsystem-news">>
StandingOf == [m \in {"orchestrator", "subsystem-news"} |->
                  IF m = "orchestrator" THEN "probed" ELSE "not_started"]
=============================================================================
