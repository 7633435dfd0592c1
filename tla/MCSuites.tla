------------------------------- MODULE MCSuites -------------------------------
(***************************************************************************)
(* Registries of three modules with at most two dependencies each.  As the *)
(* registry varies freely, three lists cover the orders of a profile up to *)
(* renaming; others list a module twice, or one that is not registered.    *)
(* At most one package deviates from a sound one.                          *)
(***************************************************************************)
EXTENDS Suites, TLC

CONSTANTS m1, m2, m3, ghost, stranger

ThreeModules == {m1, m2, m3}

\* A module depends on no other, or on others in either order; m1 perhaps on itself, or on a
\* module that is not registered.
DependsOn(m) ==
    {<<>>} \cup {<<d>> : d \in ThreeModules \ {m}}
    \cup {list \in [1..2 -> ThreeModules \ {m}] : list[1] # list[2]}
    \cup (IF m = m1 THEN {<<m1>>, <<ghost>>} ELSE {})

AllRegistries ==
    {dep \in [ThreeModules -> UNION {DependsOn(m) : m \in ThreeModules}] :
        \A m \in ThreeModules : dep[m] \in DependsOn(m)}
SomeProfiles ==
    {<<m3>>, <<m3, m1>>, <<m1, m2, m3>>, <<m3, m1, m3>>, <<ghost>>}
FewUnfit == {{}, {m1}}

FocusModules == {m2}
TwoTargets == {m1, m2}

Point(k, f) == [kind |-> k, fault |-> f]
Fine(k) == Point(k, "none")

SoundPackage ==
    [started |-> TRUE,
     entrypoints |-> <<Fine("version_declaration"), Fine("smoke_hook"), Fine("cli")>>,
     declares |-> "agreed", contract |-> "current", hook |-> "passes"]

NotYet            == [SoundPackage EXCEPT !.started = FALSE]
FaultAt(i, f)     == [SoundPackage EXCEPT !.entrypoints[i].fault = f]
WithPoints(p)     == [SoundPackage EXCEPT !.entrypoints = p]
Declaring(d)      == [SoundPackage EXCEPT !.declares = d]
WithContract(c)   == [SoundPackage EXCEPT !.contract = c]
Hooked(h)         == [SoundPackage EXCEPT !.hook = h]

\* m1 is the SDK and m2 the orchestrator; m3 is a module like any other.
Deviations ==
    (m1 :> {NotYet, Declaring("other"), Declaring("raises"), WithContract("none"),
            WithContract("older"), FaultAt(1, "import"), FaultAt(2, "signature")}) @@
    (m2 :> {NotYet, FaultAt(1, "protocol"), FaultAt(3, "import"), WithPoints(<<>>),
            WithPoints(<<Fine("version_declaration"), Fine("smoke_hook")>>),
            WithPoints(<<Fine("version_declaration"), Fine("cli"), Point("cli", "protocol")>>)}) @@
    (m3 :> {NotYet, Declaring("invalid"), WithContract("none"), WithContract("older"),
            FaultAt(2, "import"), WithPoints(<<Fine("version_declaration")>>),
            Hooked("fails"), Hooked("foreign"), Hooked("invalid"), Hooked("unknown"), Hooked("hangs")})

AllSound == [m \in ThreeModules |-> SoundPackage]
OneDeviates ==
    {AllSound} \cup UNION {{[AllSound EXCEPT ![m] = d] : d \in Deviations[m]} : m \in ThreeModules}
=============================================================================
