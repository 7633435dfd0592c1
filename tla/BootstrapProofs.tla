---------------------------- MODULE BootstrapProofs ----------------------------
(***************************************************************************)
(* Proofs about Bootstrap, for any services, bundles, settings and         *)
(* sequence of commands.  First what FlattenSeq, and with it the start and *)
(* the stop order, consist of: the recursive function behind it exists up  *)
(* to every position, shown by looking at the least position up to which   *)
(* it would not.  Then the inductive invariant: a command has come as far  *)
(* as its step says, a start has started what is listed before its         *)
(* position, and what a shutdown has been told to stop does not run.       *)
(***************************************************************************)
EXTENDS Bootstrap, NaturalsInduction, WellFoundedInduction, TLAPS

\* A set of positions has a least one.
LEMMA LeastPosition ==
    ASSUME NEW T \in SUBSET Nat, T # {}
    PROVE  \E x \in T : \A y \in T : x <= y
<1>1. IsWellFoundedOn(OpToRel(<, Nat), Nat)
    BY NatLessThanWellFounded
<1>2. PICK x \in T : \A y \in T : ~ (<<y, x>> \in OpToRel(<, Nat))
    BY <1>1, WFMin, Zenon
<1>3. \A y \in T : y < x => <<y, x>> \in OpToRel(<, Nat)
    BY DEF OpToRel
<1>4. \A y \in T : ~ (y < x)
    BY <1>2, <1>3
<1> QED
    BY <1>4

\* The function by which FlattenSeq is defined, up to some position.
Flattens(f, seqs, n) ==
    f = [i \in 1..n |-> IF i = 1 THEN seqs[i] ELSE f[i - 1] \o seqs[i]]

LEMMA FlattenExists ==
    ASSUME NEW seqs, NEW n \in Nat
    PROVE  \E f : Flattens(f, seqs, n)
<1> DEFINE Bad == {m \in Nat : ~ \E f : Flattens(f, seqs, m)}
<1> SUFFICES ASSUME Bad # {}
             PROVE  FALSE
    OBVIOUS
<1>1. PICK m \in Bad : \A k \in Bad : m <= k
    BY LeastPosition
<1>2. CASE m = 0
  <2>1. [i \in 1..0 |-> {}] = [i \in 1..0 |-> IF i = 1 THEN seqs[i] ELSE [j \in 1..0 |-> {}][i - 1] \o seqs[i]]
      OBVIOUS
  <2> QED
      BY <1>1, <1>2, <2>1 DEF Flattens
<1>3. CASE m > 0
  <2>1. m - 1 \in Nat /\ m - 1 \notin Bad
      BY <1>1, <1>3
  <2>2. PICK f : Flattens(f, seqs, m - 1)
      BY <2>1
  <2> DEFINE g == [i \in 1..m |->
                      IF i = m THEN (IF m = 1 THEN seqs[1] ELSE f[m - 1] \o seqs[m]) ELSE f[i]]
  <2>3. \A i \in 1..(m - 1) : f[i] = IF i = 1 THEN seqs[i] ELSE f[i - 1] \o seqs[i]
      BY <2>2 DEF Flattens
  <2>4. \A i \in 1..m : g[i] = IF i = 1 THEN seqs[i] ELSE g[i - 1] \o seqs[i]
    <3> SUFFICES ASSUME NEW i \in 1..m
                 PROVE  g[i] = IF i = 1 THEN seqs[i] ELSE g[i - 1] \o seqs[i]
        OBVIOUS
    <3>1. CASE i = m
        BY <1>1, <1>3, <3>1
    <3>2. CASE i # m
      <4>1. i \in 1..(m - 1)
          BY <1>1, <1>3, <3>2
      <4>2. i # 1 => i - 1 \in 1..m /\ i - 1 # m
          BY <4>1
      <4> QED
          BY <2>3, <4>1, <4>2
    <3> QED
        BY <3>1, <3>2
  <2>5. g = [i \in 1..m |-> IF i = 1 THEN seqs[i] ELSE g[i - 1] \o seqs[i]]
      BY <2>4
  <2> HIDE DEF g
  <2>6. Flattens(g, seqs, m)
      BY <2>5 DEF Flattens
  <2> QED
      BY <1>1, <2>6
<1> QED
    BY <1>1, <1>2, <1>3

LEMMA FlattenDef ==
    ASSUME NEW seqs, Len(seqs) \in Nat \ {0}
    PROVE  \E f : Flattens(f, seqs, Len(seqs)) /\ FlattenSeq(seqs) = f[Len(seqs)]
<1> DEFINE f == CHOOSE f : f = [i \in 1..Len(seqs) |-> IF i = 1 THEN seqs[i] ELSE f[i-1] \o seqs[i]]
<1>1. PICK h : Flattens(h, seqs, Len(seqs))
    BY FlattenExists
<1>2. f = [i \in 1..Len(seqs) |-> IF i = 1 THEN seqs[i] ELSE f[i-1] \o seqs[i]]
    BY <1>1 DEF Flattens
<1>3. FlattenSeq(seqs) = f[Len(seqs)]
    BY DEF FlattenSeq
<1> QED
    BY <1>2, <1>3 DEF Flattens

\* A list in two parts has the elements of both.
LEMMA ListedConcat ==
    ASSUME NEW S, NEW a \in Seq(S), NEW b \in Seq(S)
    PROVE  a \o b \in Seq(S) /\ Listed(a \o b) = Listed(a) \cup Listed(b)
<1>1. /\ DOMAIN a = 1..Len(a) /\ Len(a) \in Nat /\ DOMAIN b = 1..Len(b) /\ Len(b) \in Nat
      /\ a \o b \in Seq(S) /\ Len(a \o b) = Len(a) + Len(b) /\ DOMAIN (a \o b) = 1..Len(a \o b)
      /\ \A i \in 1..(Len(a) + Len(b)) :
            (a \o b)[i] = IF i <= Len(a) THEN a[i] ELSE b[i - Len(a)]
    OBVIOUS
<1>2. Listed(a \o b) \subseteq Listed(a) \cup Listed(b)
  <2> SUFFICES ASSUME NEW i \in 1..(Len(a) + Len(b))
               PROVE  (a \o b)[i] \in Listed(a) \cup Listed(b)
      BY <1>1 DEF Listed
  <2>1. CASE i <= Len(a)
    <3>1. i \in DOMAIN a /\ (a \o b)[i] = a[i]
        BY <1>1, <2>1
    <3> QED
        BY <3>1 DEF Listed
  <2>2. CASE ~(i <= Len(a))
    <3>1. i - Len(a) \in DOMAIN b /\ (a \o b)[i] = b[i - Len(a)]
        BY <1>1, <2>2
    <3> QED
        BY <3>1 DEF Listed
  <2> QED
      BY <2>1, <2>2
<1>3. ASSUME NEW i \in 1..Len(a)
      PROVE  a[i] \in Listed(a \o b)
  <2>1. i \in 1..(Len(a) + Len(b)) /\ i <= Len(a)
      BY <1>1
  <2> QED
      BY <1>1, <2>1 DEF Listed
<1>4. ASSUME NEW i \in 1..Len(b)
      PROVE  b[i] \in Listed(a \o b)
  <2>1. i + Len(a) \in 1..(Len(a) + Len(b)) /\ ~(i + Len(a) <= Len(a)) /\ i + Len(a) - Len(a) = i
      BY <1>1
  <2> QED
      BY <1>1, <2>1 DEF Listed
<1> QED
    BY <1>1, <1>2, <1>3, <1>4 DEF Listed

\* Lists in one list have the elements of all of them.
LEMMA FlattenListed ==
    ASSUME NEW S, NEW seqs \in Seq(Seq(S))
    PROVE  /\ FlattenSeq(seqs) \in Seq(S)
           /\ Listed(FlattenSeq(seqs)) = UNION {Listed(seqs[k]) : k \in 1..Len(seqs)}
<1>1. Len(seqs) \in Nat /\ \A k \in 1..Len(seqs) : seqs[k] \in Seq(S)
    OBVIOUS
<1>2. CASE Len(seqs) = 0
  <2>1. FlattenSeq(seqs) = <<>>
      BY <1>2 DEF FlattenSeq
  <2>2. Listed(<<>>) = {}
      BY DEF Listed
  <2> QED
      BY <1>2, <2>1, <2>2
<1>3. CASE Len(seqs) # 0
  <2>1. PICK f : Flattens(f, seqs, Len(seqs)) /\ FlattenSeq(seqs) = f[Len(seqs)]
      BY <1>1, <1>3, FlattenDef
  <2>2. \A i \in 1..Len(seqs) : f[i] = IF i = 1 THEN seqs[i] ELSE f[i - 1] \o seqs[i]
      BY <2>1 DEF Flattens
  <2> DEFINE Ok(i) == /\ f[i] \in Seq(S)
                      /\ \A e : e \in Listed(f[i]) <=> \E k \in 1..i : e \in Listed(seqs[k])
  <2>3. ASSUME NEW i \in 1..Len(seqs), i # 1 => Ok(i - 1)
        PROVE  Ok(i)
    <3>1. CASE i = 1
      <4>1. f[1] = seqs[1] /\ seqs[1] \in Seq(S) /\ \A k : k \in 1..1 <=> k = 1
          BY <1>1, <1>3, <2>2
      <4> QED
          BY <3>1, <4>1
    <3>2. CASE i # 1
      <4>1. f[i] = f[i - 1] \o seqs[i] /\ f[i - 1] \in Seq(S) /\ seqs[i] \in Seq(S)
          BY <1>1, <2>2, <2>3, <3>2
      <4>2. f[i] \in Seq(S) /\ Listed(f[i]) = Listed(f[i - 1]) \cup Listed(seqs[i])
          BY <4>1, ListedConcat
      <4>3. \A k : k \in 1..i <=> k \in 1..(i - 1) \/ k = i
          BY <1>1
      <4> QED
          BY <2>3, <3>2, <4>2, <4>3
    <3> QED
        BY <3>1, <3>2
  <2> HIDE DEF Ok
  <2> DEFINE Bad == {i \in 1..Len(seqs) : ~Ok(i)}
  <2>4. Bad = {}
    <3>1. Bad \in SUBSET Nat
        BY <1>1
    <3>2. ASSUME NEW i \in Bad, \A j \in Bad : i <= j
          PROVE  FALSE
      <4>1. i \in 1..Len(seqs) /\ ~Ok(i)
          BY <3>2
      <4>2. i # 1 => i - 1 \in 1..Len(seqs) /\ i - 1 \notin Bad
          BY <1>1, <3>2, <4>1
      <4> QED
          BY <2>3, <4>1, <4>2
    <3> HIDE DEF Bad
    <3> QED
        BY <3>1, <3>2, LeastPosition
  <2>5. Ok(Len(seqs))
    <3>1. Len(seqs) \in 1..Len(seqs) /\ Len(seqs) \notin Bad
        BY <1>1, <1>3, <2>4
    <3> QED
        BY <3>1
  <2> QED
      BY <2>1, <2>5 DEF Ok
<1> QED
    BY <1>2, <1>3

-----------------------------------------------------------------------------
\* The orders of a selection of bundles.

\* What a bootstrap starts and what a shutdown with the same bundles stops are lists of the
\* same services (build_plan, resolve_profile_bundles).
LEMMA OrdersAgree ==
    ASSUME NEW w \in Settings, NEW extras \in ExtraLists \cup {<<>>}, Selectable(w, extras)
    PROVE  /\ StartOrder(w, extras) \in Seq(Services) /\ StopOrder(w, extras) \in Seq(Services)
           /\ Listed(StartOrder(w, extras)) = Listed(StopOrder(w, extras))
<1> DEFINE sel   == Selected(extras)
           n     == Len(sel)
           start == [k \in 1..n |-> w.start[sel[k]]]
           stop  == [k \in 1..n |-> w.stop[Reverse(sel)[k]]]
<1>1. sel \in Seq(Listed(Base) \cup Optional) /\ n \in Nat /\ DOMAIN sel = 1..n
  <2>1. Base \in Seq(Listed(Base) \cup Optional) /\ extras \in Seq(Listed(Base) \cup Optional)
    <3> DEFINE X == Listed(Base) \cup Optional
    <3>1. \A k \in 1..Len(Base) : Base[k] \in X
        BY SettingParts DEF Listed
    <3>2. Base \in Seq(X)
      <4> HIDE DEF X
      <4> QED
          BY <3>1, SettingParts
    <3>3. ExtraLists \subseteq Seq(X)
        BY CommandBounds
    <3>4. <<>> \in Seq(X)
      <4> HIDE DEF X
      <4> QED
          OBVIOUS
    <3> QED
        BY <3>2, <3>3, <3>4
  <2> QED
      BY <2>1 DEF Selected
<1>2. \A k \in 1..n : sel[k] \in DOMAIN w.start
    BY <1>1 DEF Selectable, Listed
<1>3. \A k \in 1..n : Reverse(sel)[k] = sel[n - k + 1] /\ n - k + 1 \in 1..n
    BY <1>1 DEF Reverse
<1>4. \A b \in DOMAIN w.start : /\ w.start[b] \in Seq(Services) /\ w.stop[b] \in Seq(Services)
                                /\ Listed(w.start[b]) = Listed(w.stop[b])
    BY ManifestOrders
<1> HIDE DEF sel, n
<1>5. /\ start \in Seq(Seq(Services)) /\ Len(start) = n
      /\ stop \in Seq(Seq(Services)) /\ Len(stop) = n
  <2>1. \A k \in 1..n : w.start[sel[k]] \in Seq(Services) /\ w.stop[Reverse(sel)[k]] \in Seq(Services)
      BY <1>2, <1>3, <1>4
  <2> QED
      BY <1>1, <2>1
<1>6. StartOrder(w, extras) = FlattenSeq(start) /\ StopOrder(w, extras) = FlattenSeq(stop)
    BY <1>1 DEF StartOrder, StopOrder, sel, n
<1>7. ASSUME NEW k \in 1..n
      PROVE  /\ Listed(start[k]) = Listed(stop[n - k + 1])
             /\ Listed(stop[k]) = Listed(start[n - k + 1])
  <2>1. n - k + 1 \in 1..n /\ n - (n - k + 1) + 1 = k
      BY <1>1
  <2>2. stop[k] = w.stop[sel[n - k + 1]] /\ start[n - k + 1] = w.start[sel[n - k + 1]]
      BY <1>3, <2>1
  <2>3. stop[n - k + 1] = w.stop[sel[k]] /\ start[k] = w.start[sel[k]]
      BY <1>3, <2>1
  <2> QED
      BY <1>2, <1>4, <2>1, <2>2, <2>3
<1> HIDE DEF start, stop
<1>8. UNION {Listed(start[k]) : k \in 1..n} = UNION {Listed(stop[k]) : k \in 1..n}
  <2>1. \A k \in 1..n : n - k + 1 \in 1..n
      BY <1>1
  <2>2. \A e : (\E k \in 1..n : e \in Listed(start[k])) <=> (\E k \in 1..n : e \in Listed(stop[k]))
      BY <1>7, <2>1
  <2> QED
      BY <2>2
<1> QED
    BY <1>5, <1>6, <1>8, FlattenListed

-----------------------------------------------------------------------------
\* The inductive invariant.

Faultless == cmd.failed = "none" /\ cmd.brokeIn = "none"

\* A command that goes on has a plan.
Planned == Selectable(disk, cmd.extras) /\ Plannable(disk, cmd.extras)

\* A command has come as far as its step says.
Progress ==
    /\ step = "idle" => cmd = NoCommand
    /\ step # "idle" => cmd.action # "none"
    /\ step = "resolving" => cmd.passed = 0 /\ cmd.at = 1 /\ cmd.came = {} /\ Faultless
    /\ step = "compose" =>
          cmd.passed = 1 /\ cmd.action \in {"start", "stop"} /\ Planned /\ Faultless
    /\ step \in {"entrypoint", "smoke"} =>
          /\ cmd.passed = (IF step = "entrypoint" THEN 2 ELSE 3) /\ cmd.action = "start"
          /\ Faultless /\ cmd.came = Listed(Starting)
    /\ step \in {"reporting", "writing"} =>
          /\ cmd.action \in Reported /\ cmd.failed = cmd.brokeIn
          /\ cmd.brokeIn # "none" => cmd.passed < 4 /\ Stages[cmd.passed + 1] = cmd.brokeIn
          /\ cmd.brokeIn = "none" /\ cmd.action = "start" =>
                cmd.passed = 4 /\ cmd.came = Listed(Starting)

\* A start has started what is listed before its position, and nothing that a shutdown has
\* passed is running; unless something died, a shutdown was told of all that runs.
Composing ==
    /\ step = "compose" /\ cmd.action = "start" =>
          /\ cmd.at <= Len(Starting) + 1
          /\ cmd.came = {Starting[k] : k \in 1..(cmd.at - 1)}
    /\ step = "compose" /\ cmd.action = "stop" =>
          /\ cmd.at <= Len(Stopping) + 1
          /\ \A k \in 1..(cmd.at - 1) : Stopping[k] \notin up
          /\ loose \/ up \subseteq Listed(Stopping)

\* The bootstrap under way is the latest of its action.  The report of any other action is
\* that of its last bootstrap.
Reports ==
    /\ step # "idle" /\ cmd.action \in Reported => latest[cmd.action].run = commands
    /\ \A a \in Reported :
          \/ latest[a].brokenOff
          \/ step # "idle" /\ cmd.action = a
          \/ file[a].run = latest[a].run /\ file[a].state # "torn"

BootInv == TypeOK /\ DependenciesUp /\ Progress /\ Composing /\ Reports

LEMMA StageNames == /\ Stages[1] = "env_filesystem_readiness" /\ Stages[2] = "service_startup"
                    /\ \A k \in 1..4 : Stages[k] \in Listed(Stages)
                    /\ \A k \in 1..4 : Stages[k] # "none"
                    /\ Len(Stages) = 4
BY DEF Stages, Listed

LEMMA InitBoot == Init => BootInv
<1> SUFFICES ASSUME Init
             PROVE  BootInv
    OBVIOUS
<1> USE CommandBounds DEF Init, Reported
<1>1. cmd \in Commands
    BY DEF NoCommand, Given, Commands
<1>2. TypeOK
  <2>1. file \in [Reported -> [state : {"absent", "torn", "whole"}, run : 0..MaxCommands,
                              passed : 0..4, failed : Listed(Stages) \cup {"none"}]]
      OBVIOUS
  <2>2. latest \in [Reported -> [run : 0..MaxCommands, brokenOff : BOOLEAN]]
      OBVIOUS
  <2>3. /\ disk \in Settings /\ step = "idle" /\ up = {} /\ loose = FALSE
        /\ commands \in 0..MaxCommands /\ deaths \in 0..MaxDeaths
      OBVIOUS
  <2> QED
    <3> HIDE DEF Init, Reported
    <3> QED
        BY <1>1, <2>1, <2>2, <2>3 DEF TypeOK
<1>3. DependenciesUp /\ Progress /\ Composing /\ Reports
    BY DEF DependenciesUp, Progress, Composing, Reports
<1> QED
    BY <1>2, <1>3 DEF BootInv

-----------------------------------------------------------------------------
\* How the command record changes.

LEMMA CommandFields ==
    ASSUME TypeOK
    PROVE  /\ cmd \in Commands /\ cmd.at \in Nat \ {0} /\ cmd.passed \in 0..4
           /\ cmd.extras \in ExtraLists \cup {<<>>} /\ cmd.came \subseteq Services
           /\ cmd.action \in Reported \cup {"stop", "none"}
           /\ cmd.failed \in Listed(Stages) \cup {"none"}
           /\ cmd.brokeIn \in Listed(Stages) \cup {"none"}
BY DEF TypeOK, Commands

LEMMA NoCommandType == NoCommand \in Commands /\ NoCommand.action = "none"
<1>1. 1 \in Nat \ {0} /\ 0 \in 0..4
    OBVIOUS
<1> QED
    BY <1>1 DEF NoCommand, Given, Commands

LEMMA PassFields ==
    ASSUME TypeOK, NEW next, Pass(next), cmd.passed < 4
    PROVE  /\ cmd' \in Commands /\ step' = next /\ cmd'.passed = cmd.passed + 1
           /\ UNCHANGED <<cmd.action, cmd.extras, cmd.at, cmd.failed, cmd.came, cmd.brokeIn>>
<1>1. step' = next /\ cmd' = [cmd EXCEPT !.passed = cmd.passed + 1]
    BY DEF Pass
<1>2. cmd \in Commands /\ cmd.passed + 1 \in 0..4
    BY CommandFields
<1>3. cmd' \in Commands
    BY <1>1, <1>2 DEF Commands
<1>4. cmd'.passed = cmd.passed + 1
    BY <1>1, <1>2 DEF Commands
<1>5. UNCHANGED <<cmd.action, cmd.extras, cmd.at, cmd.failed, cmd.came, cmd.brokeIn>>
    BY <1>1, <1>2 DEF Commands
<1> QED
    BY <1>1, <1>3, <1>4, <1>5

LEMMA FailFields ==
    ASSUME TypeOK, NEW stage \in Listed(Stages), Fail(stage), cmd.action # "stop", cmd.passed < 4
    PROVE  /\ cmd' \in Commands /\ step' = "reporting"
           /\ cmd'.failed = stage /\ cmd'.brokeIn = Stages[cmd.passed + 1]
           /\ UNCHANGED <<cmd.action, cmd.extras, cmd.at, cmd.passed, cmd.came>>
<1> DEFINE broke == Stages[cmd.passed + 1]
<1>1. cmd \in Commands /\ cmd.passed + 1 \in 1..4
    BY CommandFields
<1>2. broke \in Listed(Stages)
    BY <1>1, StageNames
<1>3. step' = "reporting" /\ cmd' = [cmd EXCEPT !.failed = stage, !.brokeIn = broke]
    BY DEF Fail
<1> HIDE DEF broke
<1>4. cmd' \in Commands
    BY <1>1, <1>2, <1>3 DEF Commands
<1>5. cmd'.failed = stage /\ cmd'.brokeIn = broke
    BY <1>1, <1>3 DEF Commands
<1>6. UNCHANGED <<cmd.action, cmd.extras, cmd.at, cmd.passed, cmd.came>>
    BY <1>1, <1>3 DEF Commands
<1> QED
    BY <1>3, <1>4, <1>5, <1>6 DEF broke

LEMMA AtFields ==
    ASSUME TypeOK, NEW came \in SUBSET Services,
           cmd' = [cmd EXCEPT !.at = @ + 1, !.came = came]
    PROVE  /\ cmd' \in Commands /\ cmd'.at = cmd.at + 1 /\ cmd'.came = came
           /\ UNCHANGED <<cmd.action, cmd.extras, cmd.passed, cmd.failed, cmd.brokeIn>>
<1>1. cmd \in Commands /\ cmd.at + 1 \in Nat \ {0}
    BY CommandFields
<1>2. cmd' = [cmd EXCEPT !.at = cmd.at + 1, !.came = came]
    OBVIOUS
<1>3. cmd' \in Commands
    BY <1>1, <1>2 DEF Commands
<1>4. cmd'.at = cmd.at + 1 /\ cmd'.came = came
    BY <1>1, <1>2 DEF Commands
<1>5. UNCHANGED <<cmd.action, cmd.extras, cmd.passed, cmd.failed, cmd.brokeIn>>
    BY <1>1, <1>2 DEF Commands
<1> QED
    BY <1>3, <1>4, <1>5

LEMMA PositionFields ==
    ASSUME TypeOK, cmd' = [cmd EXCEPT !.at = @ + 1]
    PROVE  /\ cmd' \in Commands /\ cmd'.at = cmd.at + 1
           /\ UNCHANGED <<cmd.action, cmd.extras, cmd.passed, cmd.failed, cmd.came, cmd.brokeIn>>
<1>1. cmd \in Commands /\ cmd.at + 1 \in Nat \ {0}
    BY CommandFields
<1>2. cmd' = [cmd EXCEPT !.at = cmd.at + 1]
    OBVIOUS
<1>3. cmd' \in Commands
    BY <1>1, <1>2 DEF Commands
<1>4. cmd'.at = cmd.at + 1
    BY <1>1, <1>2 DEF Commands
<1>5. UNCHANGED <<cmd.action, cmd.extras, cmd.passed, cmd.failed, cmd.came, cmd.brokeIn>>
    BY <1>1, <1>2 DEF Commands
<1> QED
    BY <1>3, <1>4, <1>5

\* What a list has, by position.
LEMMA ListParts ==
    ASSUME NEW S, NEW seq \in Seq(S)
    PROVE  /\ Len(seq) \in Nat /\ \A k \in 1..Len(seq) : seq[k] \in S
           /\ Listed(seq) = {seq[k] : k \in 1..Len(seq)}
<1>1. DOMAIN seq = 1..Len(seq)
    OBVIOUS
<1> QED
    BY <1>1 DEF Listed

\* The orders of a command under way.
LEMMA OrderFacts ==
    ASSUME TypeOK, Planned
    PROVE  /\ Starting \in Seq(Services) /\ Len(Starting) \in Nat
           /\ \A k \in 1..Len(Starting) : Starting[k] \in Services
           /\ Listed(Starting) = {Starting[k] : k \in 1..Len(Starting)}
           /\ Stopping \in Seq(Services) /\ Len(Stopping) \in Nat
           /\ Listed(Stopping) = {Stopping[k] : k \in 1..Len(Stopping)}
           /\ Listed(Starting) = Listed(Stopping)
<1>1. disk \in Settings /\ cmd.extras \in ExtraLists \cup {<<>>}
    BY CommandFields DEF TypeOK
<1>2. /\ Starting \in Seq(Services) /\ Stopping \in Seq(Services)
      /\ Listed(Starting) = Listed(Stopping)
    BY <1>1, OrdersAgree DEF Planned, Starting, Stopping
<1>3. /\ Len(Starting) \in Nat /\ \A k \in 1..Len(Starting) : Starting[k] \in Services
      /\ Listed(Starting) = {Starting[k] : k \in 1..Len(Starting)}
    BY <1>2, ListParts
<1>4. Len(Stopping) \in Nat /\ Listed(Stopping) = {Stopping[k] : k \in 1..Len(Stopping)}
    BY <1>2, ListParts
<1> QED
    BY <1>2, <1>3, <1>4

\* The plan depends on what is on disk and on the extra bundles only.
LEMMA SamePlan ==
    UNCHANGED <<disk, cmd.extras>> => UNCHANGED <<Starting, Stopping, Planned>>
BY DEF Starting, Stopping, Planned

-----------------------------------------------------------------------------
\* The steps.

\* A command ends.
LEMMA EndKeeps ==
    ASSUME BootInv, TypeOK', Reports', Finish, UNCHANGED <<disk, up, loose>>
    PROVE  BootInv'
BY DEF BootInv, DependenciesUp, Progress, Composing, Finish, Faultless

\* A shutdown ends.
LEMMA StopEnds ==
    ASSUME BootInv, Finish, cmd.action = "stop",
           UNCHANGED <<disk, up, file, commands, deaths, latest, loose>>
    PROVE  BootInv'
<1>1. TypeOK'
    BY NoCommandType DEF BootInv, TypeOK, Finish
<1>2. Reports'
    BY DEF BootInv, Reports, Reported, Finish
<1> QED
    BY <1>1, <1>2, EndKeeps

\* A command goes on, and services and reports stay as they are.
LEMMA QuietStep ==
    ASSUME BootInv, Progress', Composing', cmd' \in Commands,
           step' \in {"compose", "entrypoint", "smoke", "reporting", "writing"}, step # "idle",
           UNCHANGED <<disk, up, file, commands, deaths, latest>>,
           loose' \in BOOLEAN, loose => loose', UNCHANGED cmd.action
    PROVE  BootInv'
<1>1. TypeOK'
    BY DEF BootInv, TypeOK
<1>2. DependenciesUp' /\ Reports'
    BY DEF BootInv, DependenciesUp, Reports
<1> QED
    BY <1>1, <1>2 DEF BootInv

LEMMA CommandKeeps == BootInv /\ Command => BootInv'
<1> SUFFICES ASSUME BootInv, Command
             PROVE  BootInv'
    OBVIOUS
<1>1. PICK action \in Reported \cup {"stop"}, extras \in ExtraLists :
          /\ cmd' = Given(action, extras)
          /\ latest' = IF action = "stop" THEN latest
                       ELSE [latest EXCEPT ![action] = [run |-> commands', brokenOff |-> FALSE]]
    BY DEF Command
<1>2. /\ step = "idle" /\ step' = "resolving" /\ commands' = commands + 1
      /\ commands \in 0..MaxCommands /\ commands < MaxCommands
      /\ UNCHANGED <<disk, up, file, deaths, loose>>
    BY DEF Command, BootInv, TypeOK
<1>3. /\ cmd' \in Commands /\ cmd'.action = action /\ cmd'.passed = 0 /\ cmd'.at = 1
      /\ cmd'.came = {} /\ Faultless'
    BY <1>1 DEF Given, Commands, Faultless
<1>4. commands' \in 0..MaxCommands
    BY <1>2, CommandBounds
<1>5. latest' \in [Reported -> [run : 0..MaxCommands, brokenOff : BOOLEAN]]
    BY <1>1, <1>4 DEF BootInv, TypeOK
<1>6. TypeOK'
    BY <1>2, <1>3, <1>4, <1>5 DEF BootInv, TypeOK
<1>7. Progress' /\ Composing' /\ DependenciesUp'
    BY <1>2, <1>3 DEF BootInv, Progress, Composing, DependenciesUp, Reported
<1>8. Reports'
  <2>1. cmd'.action \in Reported => latest'[cmd'.action].run = commands'
      BY <1>1, <1>3 DEF Reported, BootInv, TypeOK
  <2>2. ASSUME NEW a \in Reported, a # action
        PROVE  \/ latest'[a].brokenOff
               \/ file'[a].run = latest'[a].run /\ file'[a].state # "torn"
      BY <1>1, <1>2, <2>2 DEF BootInv, Reports, TypeOK
  <2> QED
      BY <1>2, <1>3, <2>1, <2>2 DEF Reports
<1> QED
    BY <1>6, <1>7, <1>8 DEF BootInv

LEMMA ResolveKeeps == BootInv /\ Resolve => BootInv'
<1> SUFFICES ASSUME BootInv, Resolve
             PROVE  BootInv'
    OBVIOUS
<1>1. /\ TypeOK /\ step = "resolving" /\ cmd.passed = 0 /\ cmd.at = 1 /\ cmd.came = {} /\ Faultless
      /\ cmd.action # "none" /\ loose \in BOOLEAN
      /\ UNCHANGED <<disk, up, file, commands, deaths, latest>>
    BY DEF Resolve, BootInv, Progress, TypeOK
<1>2. CASE /\ Planned
           /\ Pass(IF cmd.action = "plan" THEN "reporting" ELSE "compose")
           /\ loose' = (loose \/ (cmd.action = "stop" /\ ~(up \subseteq Listed(Stopping))))
  <2>1. /\ cmd' \in Commands /\ cmd'.passed = 1 /\ cmd'.at = 1 /\ cmd'.came = {} /\ Faultless'
        /\ UNCHANGED <<cmd.action, cmd.extras>>
        /\ step' = IF cmd.action = "plan" THEN "reporting" ELSE "compose"
      BY <1>1, <1>2, PassFields DEF Faultless
  <2>2. UNCHANGED <<Starting, Stopping, Planned>>
      BY <1>1, <2>1, SamePlan
  <2>3. cmd.action \in {"start", "stop", "plan"}
      BY <1>1, CommandFields DEF Reported
  <2>4. Progress'
      BY <1>2, <2>1, <2>2, <2>3 DEF Progress, Reported, Faultless
  <2>5. Composing'
    <3>1. Len(Starting) \in Nat /\ Len(Stopping) \in Nat
        BY <1>1, <1>2, OrderFacts
    <3>2. loose' \/ up' \subseteq Listed(Stopping') \/ cmd.action # "stop"
        BY <1>1, <1>2, <2>2
    <3>3. cmd'.at <= Len(Starting') + 1 /\ cmd'.at <= Len(Stopping') + 1 /\ cmd'.at - 1 = 0
        BY <2>1, <2>2, <3>1
    <3> QED
        BY <2>1, <3>2, <3>3 DEF Composing
  <2> QED
      BY <1>1, <1>2, <2>1, <2>3, <2>4, <2>5, QuietStep
<1>3. CASE Fail(Stages[1]) /\ UNCHANGED loose
  <2>1. CASE cmd.action = "stop"
      BY <1>1, <1>3, <2>1, StopEnds DEF Fail
  <2>2. CASE cmd.action # "stop"
    <3>1. /\ cmd' \in Commands /\ step' = "reporting" /\ cmd'.failed = Stages[1]
          /\ cmd'.brokeIn = Stages[1] /\ UNCHANGED <<cmd.action, cmd.extras, cmd.passed>>
      <4>1. Stages[1] \in Listed(Stages) /\ cmd.passed + 1 = 1 /\ cmd.passed < 4
          BY <1>1, StageNames
      <4> QED
          BY <1>1, <1>3, <2>2, <4>1, FailFields
    <3>2. cmd'.action \in Reported
        BY <1>1, <2>2, <3>1, CommandFields
    <3>3. Progress' /\ Composing'
        BY <1>1, <3>1, <3>2, StageNames DEF Progress, Composing
    <3> QED
        BY <1>1, <1>3, <3>1, <3>3, QuietStep
  <2> QED
      BY <2>1, <2>2
<1> QED
    BY <1>2, <1>3 DEF Resolve, Planned

LEMMA ComposeStartsKeeps == BootInv /\ ComposeStarts => BootInv'
<1> SUFFICES ASSUME BootInv, ComposeStarts
             PROVE  BootInv'
    OBVIOUS
<1> DEFINE s == Starting[cmd.at]
<1>1. /\ TypeOK /\ Planned /\ Faultless /\ step = "compose" /\ cmd.passed = 1
      /\ cmd.action = "start" /\ cmd.at <= Len(Starting)
      /\ cmd.came = {Starting[k] : k \in 1..(cmd.at - 1)}
    BY DEF ComposeStarts, BootInv, Progress, Composing
<1>2. /\ disk.requires[s] \subseteq up /\ up' = up \cup {s}
      /\ cmd' = [cmd EXCEPT !.at = @ + 1, !.came = @ \cup {s}]
      /\ UNCHANGED <<disk, step, file, commands, deaths, latest, loose>>
    BY DEF ComposeStarts
<1>3. cmd.at \in Nat \ {0} /\ Len(Starting) \in Nat /\ s \in Services
    BY <1>1, CommandFields, OrderFacts
<1> HIDE DEF s
<1>4. /\ cmd' \in Commands /\ cmd'.at = cmd.at + 1 /\ cmd'.came = cmd.came \cup {s}
      /\ UNCHANGED <<cmd.action, cmd.extras, cmd.passed, cmd.failed, cmd.brokeIn>>
  <2>1. cmd.came \cup {s} \in SUBSET Services
      BY <1>1, <1>3, CommandFields
  <2>2. cmd' = [cmd EXCEPT !.at = @ + 1, !.came = cmd.came \cup {s}]
      BY <1>2
  <2> QED
      BY <1>1, <2>1, <2>2, AtFields
<1>5. UNCHANGED <<Starting, Stopping, Planned>>
    BY <1>2, <1>4, SamePlan
<1>6. TypeOK'
    BY <1>1, <1>2, <1>3, <1>4 DEF TypeOK
<1>7. DependenciesUp'
    BY <1>2 DEF BootInv, DependenciesUp
<1>8. Progress'
    BY <1>1, <1>2, <1>4, <1>5 DEF Progress, Faultless
<1>9. Composing'
  <2>1. cmd'.at <= Len(Starting) + 1
      BY <1>1, <1>3, <1>4
  <2>2. 1..(cmd'.at - 1) = 1..(cmd.at - 1) \cup {cmd.at}
      BY <1>3, <1>4
  <2>3. cmd'.came = {Starting[k] : k \in 1..(cmd'.at - 1)}
      BY <1>1, <1>4, <2>2 DEF s
  <2> QED
      BY <1>1, <1>4, <1>5, <2>1, <2>3 DEF Composing
<1>10. Reports'
    BY <1>2, <1>4 DEF BootInv, Reports
<1> QED
    BY <1>6, <1>7, <1>8, <1>9, <1>10 DEF BootInv

LEMMA ComposeStopsKeeps == BootInv /\ ComposeStops => BootInv'
<1> SUFFICES ASSUME BootInv, ComposeStops
             PROVE  BootInv'
    OBVIOUS
<1> DEFINE s == Stopping[cmd.at]
<1>1. /\ TypeOK /\ Planned /\ Faultless /\ step = "compose" /\ cmd.passed = 1
      /\ cmd.action = "stop" /\ cmd.at <= Len(Stopping)
      /\ \A k \in 1..(cmd.at - 1) : Stopping[k] \notin up
      /\ loose \/ up \subseteq Listed(Stopping)
    BY DEF ComposeStops, BootInv, Progress, Composing
<1>2. /\ up' = up \ {s} /\ loose' = (loose /\ up' # {})
      /\ cmd' = [cmd EXCEPT !.at = @ + 1]
      /\ UNCHANGED <<disk, step, file, commands, deaths, latest>>
    BY DEF ComposeStops
<1>3. /\ cmd.at \in Nat \ {0} /\ Len(Stopping) \in Nat /\ cmd.at \in 1..Len(Stopping)
      /\ Listed(Stopping) = {Stopping[k] : k \in 1..Len(Stopping)}
      /\ DOMAIN Stopping = 1..Len(Stopping)
    BY <1>1, CommandFields, OrderFacts
<1>4. /\ cmd' \in Commands /\ cmd'.at = cmd.at + 1
      /\ UNCHANGED <<cmd.action, cmd.extras, cmd.passed, cmd.failed, cmd.came, cmd.brokeIn>>
    BY <1>1, <1>2, PositionFields
<1>5. UNCHANGED <<Starting, Stopping, Planned>>
    BY <1>2, <1>4, SamePlan
<1>6. \A i, j \in 1..Len(Stopping) : Stopping[j] \in disk.requires[Stopping[i]] => i <= j
    BY <1>1, <1>3 DEF Planned, Plannable, Stopping
<1> HIDE DEF s
<1>7. TypeOK'
    BY <1>1, <1>2, <1>4 DEF TypeOK
<1>8. DependenciesUp'
  <2> SUFFICES ASSUME ~loose', NEW t \in up', NEW d \in disk.requires[t]
               PROVE  d \in up'
      BY <1>2 DEF DependenciesUp
  <2>1. ~loose /\ t \in up /\ t # s
      BY <1>2
  <2>2. d \in up
      BY <2>1 DEF BootInv, DependenciesUp
  <2>3. PICK i \in 1..Len(Stopping) : t = Stopping[i]
      BY <1>1, <1>3, <2>1
  <2>4. ~(i <= cmd.at)
      BY <1>1, <1>3, <2>1, <2>3 DEF s
  <2>5. d # s
      BY <1>3, <1>6, <2>3, <2>4 DEF s
  <2> QED
      BY <1>2, <2>2, <2>5
<1>9. Progress'
    BY <1>1, <1>2, <1>4, <1>5 DEF Progress, Faultless
<1>10. Composing'
  <2>1. cmd'.at <= Len(Stopping) + 1
      BY <1>1, <1>3, <1>4
  <2>2. ASSUME NEW k \in 1..(cmd'.at - 1)
        PROVE  Stopping[k] \notin up'
    <3>1. k \in 1..(cmd.at - 1) \/ k = cmd.at
        BY <1>3, <1>4
    <3> QED
        BY <1>1, <1>2, <3>1 DEF s
  <2>3. loose' \/ up' \subseteq Listed(Stopping)
      BY <1>1, <1>2
  <2> QED
      BY <1>1, <1>4, <1>5, <2>1, <2>2, <2>3 DEF Composing
<1>11. Reports'
    BY <1>2, <1>4 DEF BootInv, Reports
<1> QED
    BY <1>7, <1>8, <1>9, <1>10, <1>11 DEF BootInv

LEMMA ComposeSucceedsKeeps == BootInv /\ ComposeSucceeds => BootInv'
<1> SUFFICES ASSUME BootInv, ComposeSucceeds
             PROVE  BootInv'
    OBVIOUS
<1>1. /\ TypeOK /\ Planned /\ Faultless /\ step = "compose" /\ cmd.passed = 1
      /\ cmd.action \in {"start", "stop"} /\ loose \in BOOLEAN
      /\ UNCHANGED <<disk, up, file, commands, deaths, latest, loose>>
    BY DEF ComposeSucceeds, BootInv, Progress, TypeOK
<1>2. CASE cmd.action = "start"
  <2>1. cmd.at > Len(Starting) /\ cmd.at <= Len(Starting) + 1 /\ Pass("entrypoint")
        /\ cmd.came = {Starting[k] : k \in 1..(cmd.at - 1)}
      BY <1>1, <1>2 DEF ComposeSucceeds, ComposeDone, BootInv, Composing
  <2>2. cmd.came = Listed(Starting)
    <3>1. /\ Len(Starting) \in Nat /\ cmd.at \in Nat
          /\ Listed(Starting) = {Starting[k] : k \in 1..Len(Starting)}
        BY <1>1, OrderFacts, CommandFields
    <3>2. cmd.at - 1 = Len(Starting)
        BY <2>1, <3>1
    <3> QED
        BY <2>1, <3>1, <3>2
  <2>3. /\ cmd' \in Commands /\ step' = "entrypoint" /\ cmd'.passed = 2 /\ Faultless'
        /\ UNCHANGED <<cmd.action, cmd.extras, cmd.came>>
      BY <1>1, <2>1, PassFields DEF Faultless
  <2>4. UNCHANGED <<Starting, Stopping, Planned>>
      BY <1>1, <2>3, SamePlan
  <2>5. Progress' /\ Composing'
      BY <1>2, <2>2, <2>3, <2>4 DEF Progress, Composing
  <2> QED
      BY <1>1, <2>3, <2>5, QuietStep
<1>3. CASE cmd.action = "stop"
    BY <1>1, <1>3, StopEnds DEF ComposeSucceeds, ComposeDone
<1> QED
    BY <1>1, <1>2, <1>3

LEMMA ComposeFailsKeeps == BootInv /\ ComposeFails => BootInv'
<1> SUFFICES ASSUME BootInv, ComposeFails
             PROVE  BootInv'
    OBVIOUS
<1>1. /\ TypeOK /\ step = "compose" /\ cmd.passed = 1 /\ Fail("service_startup")
      /\ cmd.action \in {"start", "stop"} /\ loose \in BOOLEAN
      /\ UNCHANGED <<disk, up, file, commands, deaths, latest, loose>>
    BY DEF ComposeFails, BootInv, Progress, TypeOK
<1>2. CASE cmd.action = "start"
  <2>1. /\ cmd' \in Commands /\ step' = "reporting" /\ cmd'.failed = "service_startup"
        /\ cmd'.brokeIn = Stages[2] /\ cmd'.passed = 1 /\ UNCHANGED cmd.action
    <3>1. "service_startup" \in Listed(Stages) /\ cmd.passed + 1 = 2 /\ cmd.passed < 4
        BY <1>1, StageNames
    <3>2. cmd.action # "stop"
        BY <1>2
    <3> QED
        BY <1>1, <3>1, <3>2, FailFields
  <2>2. Progress' /\ Composing'
      BY <1>2, <2>1, StageNames DEF Progress, Composing, Reported
  <2> QED
      BY <1>1, <2>1, <2>2, QuietStep
<1>3. CASE cmd.action = "stop"
    BY <1>1, <1>3, StopEnds DEF Fail
<1> QED
    BY <1>1, <1>2, <1>3

LEMMA ExercisePublicKeeps == BootInv /\ ExercisePublic => BootInv'
<1> SUFFICES ASSUME BootInv, ExercisePublic
             PROVE  BootInv'
    OBVIOUS
<1>1. /\ TypeOK /\ step \in {"entrypoint", "smoke"} /\ cmd.action = "start" /\ Faultless
      /\ cmd.passed = (IF step = "entrypoint" THEN 2 ELSE 3) /\ cmd.came = Listed(Starting)
      /\ loose \in BOOLEAN /\ UNCHANGED <<disk, up, file, commands, deaths, latest, loose>>
    BY DEF ExercisePublic, BootInv, Progress, TypeOK
<1>2. CASE Pass(IF step = "entrypoint" THEN "smoke" ELSE "reporting")
  <2>1. /\ cmd' \in Commands /\ cmd'.passed = cmd.passed + 1 /\ Faultless'
        /\ step' = IF step = "entrypoint" THEN "smoke" ELSE "reporting"
        /\ UNCHANGED <<cmd.action, cmd.extras, cmd.came>>
      BY <1>1, <1>2, PassFields DEF Faultless
  <2>2. UNCHANGED Starting
      BY <1>1, <2>1, SamePlan
  <2>3. Progress' /\ Composing'
      BY <1>1, <2>1, <2>2 DEF Progress, Composing, Faultless, Reported
  <2> QED
      BY <1>1, <2>1, <2>3, QuietStep
<1>3. CASE Fail(NextUnfinished)
  <2>1. cmd.passed + 1 \in 1..4 /\ cmd.passed < 4 /\ cmd.action # "stop"
      BY <1>1
  <2>2. /\ cmd' \in Commands /\ step' = "reporting" /\ cmd'.failed = Stages[cmd.passed + 1]
        /\ cmd'.brokeIn = Stages[cmd.passed + 1] /\ UNCHANGED <<cmd.action, cmd.passed>>
    <3>1. NextUnfinished \in Listed(Stages)
        BY <2>1, StageNames DEF NextUnfinished
    <3> QED
        BY <1>1, <1>3, <2>1, <3>1, FailFields DEF NextUnfinished
  <2>3. Progress' /\ Composing'
      BY <1>1, <2>1, <2>2, StageNames DEF Progress, Composing, Reported
  <2> QED
      BY <1>1, <2>2, <2>3, QuietStep
<1> QED
    BY <1>2, <1>3 DEF ExercisePublic

LEMMA TruncateKeeps == BootInv /\ TruncateReport => BootInv'
<1> SUFFICES ASSUME BootInv, TruncateReport
             PROVE  BootInv'
    OBVIOUS
<1>1. /\ TypeOK /\ step = "reporting" /\ step' = "writing" /\ cmd.action \in Reported
      /\ file' = [file EXCEPT ![cmd.action].state = "torn"]
      /\ UNCHANGED <<disk, cmd, up, commands, deaths, latest, loose>>
    BY DEF TruncateReport, BootInv, Progress
<1>2. TypeOK'
    BY <1>1 DEF TypeOK
<1>3. UNCHANGED <<Starting, Faultless>>
    BY <1>1 DEF Starting, Faultless
<1>4. DependenciesUp' /\ Progress' /\ Composing'
    BY <1>1, <1>3 DEF BootInv, DependenciesUp, Progress, Composing
<1>5. Reports'
  <2>1. \A a \in Reported : a # cmd.action => file'[a] = file[a]
      BY <1>1 DEF TypeOK
  <2> QED
      BY <1>1, <2>1 DEF BootInv, Reports
<1> QED
    BY <1>2, <1>4, <1>5 DEF BootInv

LEMMA PersistKeeps == BootInv /\ PersistReport => BootInv'
<1> SUFFICES ASSUME BootInv, PersistReport
             PROVE  BootInv'
    OBVIOUS
<1> DEFINE report == [state |-> "whole", run |-> commands,
                      passed |-> cmd.passed, failed |-> cmd.failed]
<1>1. /\ TypeOK /\ step = "writing" /\ cmd.action \in Reported /\ Finish
      /\ latest[cmd.action].run = commands
      /\ file' = [file EXCEPT ![cmd.action] = report]
      /\ UNCHANGED <<disk, up, commands, deaths, latest, loose>>
    BY DEF PersistReport, BootInv, Progress, Reports
<1>2. report \in [state : {"absent", "torn", "whole"}, run : 0..MaxCommands,
                   passed : 0..4, failed : Listed(Stages) \cup {"none"}]
    BY <1>1, CommandFields DEF TypeOK
<1>3. report.run = commands /\ report.state # "torn"
    OBVIOUS
<1> HIDE DEF report
<1>4. TypeOK'
    BY <1>1, <1>2, NoCommandType DEF TypeOK, Finish
<1>5. Reports'
  <2>1. file'[cmd.action] = report /\ \A a \in Reported : a # cmd.action => file'[a] = file[a]
      BY <1>1 DEF TypeOK
  <2> QED
      BY <1>1, <1>3, <2>1 DEF BootInv, Reports, Finish
<1> QED
    BY <1>1, <1>4, <1>5, EndKeeps

LEMMA AbortKeeps == BootInv /\ Abort => BootInv'
<1> SUFFICES ASSUME BootInv, Abort
             PROVE  BootInv'
    OBVIOUS
<1>1. /\ TypeOK /\ step # "idle" /\ Finish /\ cmd.action \in Reported \cup {"stop"}
      /\ UNCHANGED <<disk, up, file, commands, deaths, loose>>
    BY CommandFields DEF Abort, BootInv, Progress
<1>2. CASE cmd.action = "stop"
    BY <1>1, <1>2, StopEnds DEF Abort
<1>3. CASE cmd.action # "stop"
  <2>1. latest' = [latest EXCEPT ![cmd.action].brokenOff = TRUE] /\ cmd.action \in Reported
      BY <1>1, <1>3 DEF Abort
  <2>2. TypeOK'
      BY <1>1, <2>1, NoCommandType DEF TypeOK, Finish
  <2>3. Reports'
    <3>1. /\ latest'[cmd.action].brokenOff
          /\ \A a \in Reported : a # cmd.action => latest'[a] = latest[a]
        BY <1>1, <2>1 DEF TypeOK
    <3> QED
        BY <1>1, <3>1 DEF BootInv, Reports, Finish
  <2> QED
      BY <1>1, <2>2, <2>3, EndKeeps
<1> QED
    BY <1>2, <1>3

LEMMA DeathKeeps == BootInv /\ ServiceDies => BootInv'
<1> SUFFICES ASSUME BootInv, ServiceDies
             PROVE  BootInv'
    OBVIOUS
<1>1. /\ TypeOK /\ deaths' = deaths + 1 /\ deaths < MaxDeaths /\ loose' = (up' # {})
      /\ up' \subseteq up /\ UNCHANGED <<disk, step, cmd, file, commands, latest>>
    BY DEF ServiceDies, BootInv
<1>2. TypeOK'
    BY <1>1, CommandBounds DEF TypeOK
<1>3. UNCHANGED <<Starting, Stopping, Planned, Faultless>>
    BY <1>1 DEF Starting, Stopping, Planned, Faultless
<1>4. Progress' /\ Reports'
    BY <1>1, <1>3 DEF BootInv, Progress, Reports
<1>5. DependenciesUp' /\ Composing'
    BY <1>1, <1>3 DEF BootInv, DependenciesUp, Composing
<1> QED
    BY <1>2, <1>4, <1>5 DEF BootInv

LEMMA StepBoot == BootInv /\ [Next]_vars => BootInv'
<1> SUFFICES ASSUME BootInv, [Next]_vars
             PROVE  BootInv'
    OBVIOUS
<1>1. CASE UNCHANGED vars
    BY <1>1 DEF vars, BootInv, TypeOK, DependenciesUp, Progress, Composing, Reports, Starting,
                Stopping, Planned, Faultless
<1>2. CASE Done
    BY <1>1, <1>2 DEF Done
<1> QED
    BY <1>1, <1>2, CommandKeeps, ResolveKeeps, ComposeStartsKeeps, ComposeStopsKeeps,
       ComposeSucceedsKeeps, ComposeFailsKeeps, ExercisePublicKeeps, TruncateKeeps,
       PersistKeeps, AbortKeeps, DeathKeeps DEF Next

-----------------------------------------------------------------------------
\* Every state of every run satisfies the inductive invariant.
THEOREM BootInvariant == Spec => []BootInv
BY InitBoot, StepBoot, PTL DEF Spec

\* Commands, services and reports have their types, whatever fails, dies or is broken off.
THEOREM BootTypes == Spec => []TypeOK
<1>1. BootInv => TypeOK
    BY DEF BootInv
<1> QED
    BY <1>1, BootInvariant, PTL

\* Any number of starts and shutdowns with any extra bundles, each of which may end at any
\* service, keeps every running service's dependencies running, unless a service died or a
\* shutdown did not name all that ran (build_plan, _verify_compose_dependency_order).
THEOREM DependenciesStayUp == Spec => []DependenciesUp
<1>1. BootInv => DependenciesUp
    BY DEF BootInv
<1> QED
    BY <1>1, BootInvariant, PTL

\* Between commands the report is that of the last bootstrap with its action, or that one was
\* broken off (_persist_report).
THEOREM ReportFollows == Spec => []ReportFollowsRun
<1>1. BootInv => ReportFollowsRun
    BY DEF BootInv, Reports, ReportFollowsRun
<1> QED
    BY <1>1, BootInvariant, PTL

\* A report that is written tells the stage that failed, and a start without one has started
\* all it planned (bootstrap, _next_unfinished_stage).
THEOREM ReportTellsTruth == Spec => ReportIsTrue
<1>1. ASSUME BootInv, [Next]_vars, NEW a \in Reported,
             file'[a] # file[a], file'[a].state = "whole"
      PROVE  /\ file'[a].failed = cmd.brokeIn
             /\ cmd.brokeIn # "none" => Stages[file'[a].passed + 1] = cmd.brokeIn
             /\ cmd.brokeIn = "none" /\ a = "start" =>
                   file'[a].passed = 4 /\ cmd.came = Listed(Starting)
  <2>1. TruncateReport \/ PersistReport
    <3>1. file' # file
        BY <1>1
    <3> QED
        BY <1>1, <3>1 DEF Next, vars, Command, Resolve, ComposeStarts, ComposeStops,
           ComposeSucceeds, ComposeFails, ExercisePublic, Abort, ServiceDies, Done
  <2>2. /\ cmd.action \in Reported /\ cmd.failed = cmd.brokeIn
        /\ cmd.brokeIn # "none" => Stages[cmd.passed + 1] = cmd.brokeIn
        /\ cmd.brokeIn = "none" /\ cmd.action = "start" =>
              cmd.passed = 4 /\ cmd.came = Listed(Starting)
      BY <1>1, <2>1 DEF BootInv, Progress, TruncateReport, PersistReport
  <2>3. PersistReport /\ a = cmd.action
    <3>1. a = cmd.action
        BY <1>1, <2>1 DEF TruncateReport, PersistReport, BootInv, TypeOK
    <3>2. TruncateReport => file'[a].state = "torn"
        BY <1>1, <2>2, <3>1 DEF TruncateReport, BootInv, TypeOK
    <3> QED
        BY <1>1, <2>1, <3>1, <3>2
  <2>4. file'[a].failed = cmd.failed /\ file'[a].passed = cmd.passed
      BY <1>1, <2>3 DEF PersistReport, BootInv, TypeOK
  <2> QED
      BY <2>2, <2>3, <2>4
<1> DEFINE Told == \A a \in Reported :
          file'[a] # file[a] /\ file'[a].state = "whole" =>
              /\ file'[a].failed = cmd.brokeIn
              /\ cmd.brokeIn # "none" => Stages[file'[a].passed + 1] = cmd.brokeIn
              /\ cmd.brokeIn = "none" /\ a = "start" =>
                    file'[a].passed = 4 /\ cmd.came = Listed(Starting)
<1>2. BootInv /\ [Next]_vars => [Told]_vars
    BY <1>1
<1> QED
    BY <1>2, BootInvariant, PTL DEF Spec, ReportIsTrue

\* A shutdown that compose has carried out leaves nothing running of what its bundles name,
\* in any order of commands: its list names the services that a start with them names.
THEOREM ShutdownLeavesNothing == Spec => ShutdownIsComplete
<1>1. ASSUME BootInv, cmd.action = "stop", ComposeSucceeds
      PROVE  up' \cap Listed(Starting) = {}
  <2>1. /\ TypeOK /\ Planned /\ up' = up /\ cmd.at > Len(Stopping) /\ cmd.at <= Len(Stopping) + 1
        /\ \A k \in 1..(cmd.at - 1) : Stopping[k] \notin up
      BY <1>1 DEF BootInv, Progress, Composing, ComposeSucceeds
  <2>2. /\ cmd.at \in Nat /\ Len(Stopping) \in Nat /\ Listed(Starting) = Listed(Stopping)
        /\ Listed(Stopping) = {Stopping[k] : k \in 1..Len(Stopping)}
      BY <2>1, CommandFields, OrderFacts
  <2>3. cmd.at - 1 = Len(Stopping)
      BY <2>1, <2>2
  <2> QED
      BY <2>1, <2>2, <2>3
<1>2. BootInv /\ [Next]_vars =>
          [cmd.action = "stop" /\ ComposeSucceeds => up' \cap Listed(Starting) = {}]_vars
    BY <1>1
<1> QED
    BY <1>2, BootInvariant, PTL DEF Spec, ShutdownIsComplete

=============================================================================
