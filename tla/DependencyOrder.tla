--------------------------- MODULE DependencyOrder ---------------------------
(***************************************************************************)
(* resolve_for_profile: the enabled modules of a profile are checked, put  *)
(* into dependency order by the depth-first search of _topological_sort,   *)
(* and looked up in the compatibility matrix.  The recursion of visit is   *)
(* the stack of frames here: a module and the position of the dependency   *)
(* it looks at next.                                                       *)
(***************************************************************************)
EXTENDS Integers, Sequences, FiniteSets

CONSTANTS
    Registered, \* module ids of the registry
    Profiles,   \* lists of enabled modules to resolve
    Registries, \* depends_on lists, by registered module, to resolve them with
    UnfitSets   \* sets of modules that are blocked or do not support the profile

Listed(seq) == {seq[k] : k \in DOMAIN seq}

ASSUME RegistryParts ==
    /\ \A list \in Profiles : list \in Seq(Listed(list))
    /\ \A dep \in Registries :
          DOMAIN dep = Registered /\ \A m \in Registered : dep[m] \in Seq(Listed(dep[m]))
    /\ \A bad \in UnfitSets : bad \subseteq Registered

VARIABLES
    enabled,  \* profile.enabled_modules, in the profile's order
    depends,  \* depends_on of every registered module
    unfit,    \* modules that are blocked or do not support the profile
    stage,    \* "checking", "sorting", "covering", or how it ended
    turn,     \* the next enabled module to visit
    frames,   \* the visits under way, outermost first; "temporary" is their modules
    sorted    \* sorted_entries; "permanent" is its modules

vars == <<enabled, depends, unfit, stage, turn, frames, sorted>>
inputs == <<enabled, depends, unfit>>

Enabled   == Listed(enabled)
Permanent == Listed(sorted)
Temporary == {frames[k].module : k \in DOMAIN frames}
Ended     == {"rejected", "cyclic", "uncovered", "resolved"}

Visit == [module : Registered, next : Nat \ {0}]

TypeOK ==
    /\ enabled \in Profiles /\ depends \in Registries /\ unfit \in UnfitSets
    /\ stage \in {"checking", "sorting", "covering"} \cup Ended
    /\ turn \in 1..(Len(enabled) + 1)
    /\ frames \in Seq(Visit)
    /\ sorted \in Seq(Registered)

Init ==
    /\ enabled \in Profiles /\ depends \in Registries /\ unfit \in UnfitSets
    /\ stage = "checking" /\ turn = 1 /\ frames = <<>> /\ sorted = <<>>

-----------------------------------------------------------------------------

\* An enabled module that cannot be used, or that depends on one that is not enabled.
Rejected(m) ==
    \/ m \notin Registered \/ m \in unfit
    \/ \E d \in Listed(depends[m]) : d \notin Registered \cap Enabled \/ d \in unfit

CheckModules ==
    /\ stage = "checking"
    /\ stage' = IF \E m \in Enabled : Rejected(m) THEN "rejected" ELSE "sorting"
    /\ UNCHANGED <<inputs, turn, frames, sorted>>

Frame(m) == [module |-> m, next |-> 1]
Top == frames[Len(frames)]

\* The loop over module_ids: a module that was visited before is passed over.
VisitNext ==
    /\ stage = "sorting" /\ frames = <<>> /\ turn <= Len(enabled)
    /\ turn' = turn + 1
    /\ frames' = IF enabled[turn] \in Permanent THEN <<>> ELSE <<Frame(enabled[turn])>>
    /\ UNCHANGED <<inputs, stage, sorted>>

\* Variant of VisitDependency: no look at "temporary", so that the search goes round a
\* cycle; the stack is cut back to the first visit, which keeps the variant finite.
DescendAgain ==
    /\ stage = "sorting" /\ frames # <<>> /\ Top.next <= Len(depends[Top.module])
    /\ LET d     == depends[Top.module][Top.next]
           rest  == [frames EXCEPT ![Len(frames)].next = @ + 1]
           first == {k \in DOMAIN frames : frames[k].module = d}
       IN  frames' = IF d \in Permanent THEN rest
                     ELSE Append(IF first = {} THEN rest
                                 ELSE SubSeq(rest, 1, (CHOOSE k \in first : TRUE) - 1), Frame(d))
    /\ UNCHANGED <<inputs, stage, turn, sorted>>

\* Variant of VisitDependency: a module counts as visited when its visit begins.
TakeTemporaryAsVisited ==
    /\ stage = "sorting" /\ frames # <<>> /\ Top.next <= Len(depends[Top.module])
    /\ LET d    == depends[Top.module][Top.next]
           rest == [frames EXCEPT ![Len(frames)].next = @ + 1]
       IN  frames' = IF d \in Permanent \cup Temporary THEN rest ELSE Append(rest, Frame(d))
    /\ UNCHANGED <<inputs, stage, turn, sorted>>

\* One dependency of the innermost module under visit.
VisitDependency ==
    /\ stage = "sorting" /\ frames # <<>> /\ Top.next <= Len(depends[Top.module])
    /\ LET d    == depends[Top.module][Top.next]
           rest == [frames EXCEPT ![Len(frames)].next = @ + 1]
       IN  \/ /\ d \in Permanent
              /\ frames' = rest /\ UNCHANGED stage
           \/ /\ d \in Temporary \ Permanent
              /\ stage' = "cyclic" /\ UNCHANGED frames
           \/ /\ d \notin Temporary \cup Permanent
              /\ frames' = Append(rest, Frame(d)) /\ UNCHANGED stage
    /\ UNCHANGED <<inputs, turn, sorted>>

\* Variant of LeaveModule: a module is listed before its dependents' other dependencies.
LeaveInFront ==
    /\ stage = "sorting" /\ frames # <<>> /\ Top.next > Len(depends[Top.module])
    /\ sorted' = <<Top.module>> \o sorted
    /\ frames' = SubSeq(frames, 1, Len(frames) - 1)
    /\ UNCHANGED <<inputs, stage, turn>>

LeaveModule ==
    /\ stage = "sorting" /\ frames # <<>> /\ Top.next > Len(depends[Top.module])
    /\ sorted' = Append(sorted, Top.module)
    /\ frames' = SubSeq(frames, 1, Len(frames) - 1)
    /\ UNCHANGED <<inputs, stage, turn>>

SortingDone ==
    /\ stage = "sorting" /\ frames = <<>> /\ turn > Len(enabled)
    /\ stage' = "covering"
    /\ UNCHANGED <<inputs, turn, frames, sorted>>

\* _assert_matrix_covers_profile: an active row of the profile, whatever its extra
\* bundles, has exactly these modules in these versions.
CoverByMatrix ==
    /\ stage = "covering"
    /\ stage' \in {"resolved", "uncovered"}
    /\ UNCHANGED <<inputs, turn, frames, sorted>>

Resolve ==
    \/ CheckModules \/ VisitNext \/ VisitDependency \/ LeaveModule \/ SortingDone
    \/ CoverByMatrix

Next == Resolve \/ (stage \in Ended /\ UNCHANGED vars)

Spec == Init /\ [][Next]_vars
-----------------------------------------------------------------------------
\* Reference: a set of enabled modules each of which depends on a module of the set.
Cyclic ==
    \E S \in (SUBSET Enabled) \ {{}} :
        \A m \in S : Listed(depends[m]) \cap S # {}

\* The list is in dependency order at all times: whatever a module depends on stands
\* before it, and no module stands in it twice (_topological_sort).
DependenciesFirst ==
    \A k \in DOMAIN sorted :
        /\ \A d \in Listed(depends[sorted[k]]) : \E j \in 1..(k - 1) : sorted[j] = d
        /\ \A j \in DOMAIN sorted : sorted[j] = sorted[k] => j = k

\* A cycle is reported exactly when the enabled modules have one, and otherwise each
\* enabled module is listed, whatever the order of the profile and of depends_on.
CyclesAndNothingElseFail ==
    /\ stage = "cyclic" => Cyclic
    /\ stage \in {"covering", "uncovered", "resolved"} => ~Cyclic /\ Permanent = Enabled
=============================================================================
