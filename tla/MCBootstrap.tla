----------------------------- MODULE MCBootstrap -----------------------------
(***************************************************************************)
(* A database, a bundle of two services, and an optional one.  What they   *)
(* depend on, the orders in the manifests and the kind of profile vary,    *)
(* with settings that build_plan must refuse among them.                   *)
(***************************************************************************)
EXTENDS Bootstrap, TLC

FourServices == {"postgres", "daemon", "webserver", "grafana"}
BaseBundles  == <<"postgres", "dagster">>
OneExtra     == {"grafana"}
AllBundles   == {"postgres", "dagster", "grafana"}

Orders == {<<"daemon", "webserver">>, <<"webserver", "daemon">>}
With(order) ==
    ("postgres" :> <<"postgres">>) @@ ("dagster" :> order) @@ ("grafana" :> <<"grafana">>)

Needs(daemon, webserver, grafana) ==
    ("postgres" :> {}) @@ ("daemon" :> daemon) @@ ("webserver" :> webserver) @@ ("grafana" :> grafana)

Sound == Needs({"postgres"}, {"daemon"}, {"webserver"})

Host(a, b, r, d, l) ==
    [start |-> With(a), stop |-> With(b), requires |-> r, drifted |-> d, lite |-> l]

InOrder == <<"daemon", "webserver">>
Hosts ==
    {Host(a, b, r, {}, FALSE) : a \in Orders, b \in Orders,
        r \in {Sound, Needs({}, {}, {"daemon"}), Needs({"grafana"}, {}, {})}}
    \cup {Host(InOrder, <<"webserver", "daemon">>, Sound, {}, TRUE),
          Host(InOrder, <<"webserver", "daemon">>, Sound, {"grafana"}, FALSE)}

Requests == {<<>>, <<"grafana">>, <<"grafana", "grafana">>}
=============================================================================
