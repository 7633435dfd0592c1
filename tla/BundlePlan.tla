----------------------------- MODULE BundlePlan -----------------------------
(***************************************************************************)
(* Which service bundles a profile selects and how build_plan puts their   *)
(* services in order.  A setting w is what is on disk: the start and stop  *)
(* order of each bundle manifest, depends_on of each service that the      *)
(* compose file defines, and the services whose compose entry differs from *)
(* the manifest in image, command, environment or health probe.            *)
(***************************************************************************)
EXTENDS Integers, Sequences, FiniteSets, SequencesExt

CONSTANTS
    Services,   \* names of services
    Base,       \* enabled_service_bundles of the profile
    Optional,   \* bundles that are optional
    Declared,   \* bundles that are declared for the profile
    MaxDaemons, \* max_long_running_daemons
    Settings    \* what may be on disk

Listed(seq) == {seq[k] : k \in DOMAIN seq}
Distinct(seq) == Cardinality(Listed(seq)) = Len(seq)

ASSUME SettingParts ==
    /\ MaxDaemons \in Nat
    /\ Base \in Seq(Listed(Base))
    /\ \A w \in Settings :
          /\ DOMAIN w.requires \subseteq Services
          /\ \A s \in DOMAIN w.requires : w.requires[s] \subseteq Services
          /\ w.drifted \subseteq Services /\ w.lite \in BOOLEAN
          /\ DOMAIN w.start = DOMAIN w.stop

\* ServiceBundleManifest: both orders list each service of the bundle once.
ASSUME ManifestOrders ==
    \A w \in Settings : \A b \in DOMAIN w.start :
        /\ w.start[b] \in Seq(Services) /\ w.stop[b] \in Seq(Services)
        /\ Listed(w.start[b]) = Listed(w.stop[b])
        /\ Distinct(w.start[b]) /\ Distinct(w.stop[b])

\* with_extra_bundles: the extra bundles in request order.
Selected(extras) == Base \o extras

StartOrder(w, extras) ==
    FlattenSeq([k \in DOMAIN Selected(extras) |-> w.start[Selected(extras)[k]]])

\* Variant of StopOrder: the extra bundles are forgotten.
StopOrderOfBase(w, extras) ==
    FlattenSeq([k \in DOMAIN Base |-> w.stop[Reverse(Base)[k]]])

StopOrder(w, extras) ==
    FlattenSeq([k \in DOMAIN Selected(extras) |-> w.stop[Reverse(Selected(extras))[k]]])

\* resolve_profile_bundles: manifests are found and declared for the profile, none is
\* named twice and no service either; a lite profile has no optional bundle and exactly
\* its number of services.
Selectable(w, extras) ==
    /\ Listed(Selected(extras)) \subseteq DOMAIN w.start \cap Declared
    /\ Distinct(Selected(extras))
    /\ Distinct(StartOrder(w, extras))
    /\ w.lite => /\ Listed(Selected(extras)) \cap Optional = {}
                 /\ Len(StartOrder(w, extras)) = MaxDaemons

\* Variant of Plannable: the stop order is not compared with the dependencies.
PlannableToStart(w, extras) ==
    LET order == StartOrder(w, extras)
    IN  \A k \in DOMAIN order :
            /\ order[k] \in DOMAIN w.requires \ w.drifted
            /\ w.requires[order[k]] \subseteq Listed(SubSeq(order, 1, k - 1))

\* build_plan: compose defines each service as its manifest does, with dependencies that
\* are started before it and stopped after it.
Plannable(w, extras) ==
    LET order == StartOrder(w, extras)
        back  == StopOrder(w, extras)
    IN  /\ \A k \in DOMAIN order :
              /\ order[k] \in DOMAIN w.requires \ w.drifted
              /\ w.requires[order[k]] \subseteq Listed(SubSeq(order, 1, k - 1))
        /\ \A i, j \in DOMAIN back : back[j] \in w.requires[back[i]] => i <= j
=============================================================================
