----------------------------- MODULE SuitesProofs -----------------------------
(***************************************************************************)
(* Proofs about DependencyOrder, for every registry and every profile: the *)
(* depth-first search lists what a module depends on before it, lists      *)
(* every enabled module once, and reports a cycle exactly if there is one. *)
(* The inductive invariant says that the stack of visits is a path of      *)
(* dependencies through modules that are not listed yet, and that what a   *)
(* visit has already looked at is listed.                                  *)
(*                                                                         *)
(* Then proofs about Suites, for all packages: what the suites and the     *)
(* audit report of the modules is exactly what is wrong with them.  Their  *)
(* invariant says which results have been gathered so far.                 *)
(***************************************************************************)
EXTENDS Suites, SequenceTheorems, NaturalsInduction, WellFoundedInduction, FiniteSetTheorems,
        TLAPS

Searched == {"covering", "uncovered", "resolved"}

\* The checks come first, and let nothing pass that the search could not look up.
Checked ==
    IF stage \in {"checking", "rejected"}
    THEN frames = <<>> /\ sorted = <<>> /\ turn = 1
    ELSE \A m \in Enabled : ~Rejected(m)

\* A visit under way: what it has looked at is listed, but for the one it is waiting for.
Visiting(k) ==
    LET m == frames[k].module
        n == frames[k].next
    IN  /\ m \in Enabled \ Permanent
        /\ n <= Len(depends[m]) + 1
        /\ \A j \in 1..(n - 1) : depends[m][j] \in Permanent \/ (k < Len(frames) /\ j = n - 1)
        /\ k < Len(frames) => n > 1 /\ depends[m][n - 1] = frames[k + 1].module

Stacked ==
    /\ \A k \in 1..Len(frames) : Visiting(k)
    /\ \A j, k \in 1..Len(frames) : frames[j].module = frames[k].module => j = k

\* The enabled modules before turn have been visited, or the first of the visits is the last's.
Visited ==
    /\ \A j \in 1..(turn - 1) :
          enabled[j] \in Permanent \/ (frames # <<>> /\ frames[1].module = enabled[j])
    /\ stage \in Searched => frames = <<>> /\ turn = Len(enabled) + 1

SortInv ==
    /\ TypeOK /\ Checked /\ Stacked /\ Visited
    /\ Permanent \subseteq Enabled /\ DependenciesFirst
    /\ stage = "cyclic" => Cyclic

-----------------------------------------------------------------------------
LEMMA InputTypes ==
    ASSUME TypeOK
    PROVE  /\ enabled \in Seq(Enabled) /\ Len(enabled) \in Nat
           /\ \A m \in Registered : depends[m] \in Seq(Listed(depends[m])) /\ Len(depends[m]) \in Nat
           /\ DOMAIN frames = 1..Len(frames) /\ Len(frames) \in Nat
           /\ DOMAIN sorted = 1..Len(sorted) /\ Len(sorted) \in Nat
           /\ \A k \in 1..Len(frames) :
                 frames[k].module \in Registered /\ frames[k].next \in Nat \ {0}
<1>1. enabled \in Seq(Enabled)
    BY RegistryParts DEF TypeOK, Enabled
<1>2. \A m \in Registered : depends[m] \in Seq(Listed(depends[m]))
    BY RegistryParts DEF TypeOK
<1>3. \A k \in 1..Len(frames) : frames[k] \in Visit
    BY DEF TypeOK
<1> QED
    BY <1>1, <1>2, <1>3 DEF TypeOK, Visit

\* What a module that is enabled depends on can be looked up, too.
LEMMA UsableDependencies ==
    ASSUME SortInv, stage \notin {"checking", "rejected"}, NEW m \in Enabled
    PROVE  m \in Registered /\ \A j \in 1..Len(depends[m]) : depends[m][j] \in Registered \cap Enabled
<1>1. ~Rejected(m)
    BY DEF SortInv, Checked
<1>2. m \in Registered /\ depends[m] \in Seq(Listed(depends[m]))
    BY <1>1, InputTypes DEF Rejected, SortInv
<1>3. \A j \in 1..Len(depends[m]) : depends[m][j] \in Listed(depends[m])
    BY <1>2 DEF Listed
<1> QED
    BY <1>1, <1>2, <1>3 DEF Rejected

LEMMA FrameType == ASSUME NEW m \in Registered PROVE Frame(m) \in Visit
BY DEF Frame, Visit

LEMMA InitSort == Init => SortInv
<1> SUFFICES ASSUME Init
             PROVE  SortInv
    OBVIOUS
<1>1. TypeOK
    BY RegistryParts DEF Init, TypeOK
<1>2. Checked /\ Stacked /\ Visited /\ Permanent \subseteq Enabled /\ DependenciesFirst
    BY <1>1, InputTypes
    DEF Init, Checked, Stacked, Visited, Searched, Permanent, Listed, DependenciesFirst
<1> QED
    BY <1>1, <1>2 DEF SortInv, Init

LEMMA CheckKeeps == SortInv /\ CheckModules => SortInv'
<1> SUFFICES ASSUME SortInv, CheckModules
             PROVE  SortInv'
    OBVIOUS
<1> USE DEF SortInv, CheckModules, inputs
<1>1. TypeOK'
    BY DEF TypeOK, Ended
<1>2. Checked'
    BY DEF Checked, Enabled, Rejected
<1>3. Stacked' /\ Visited'
    BY InputTypes DEF Checked, Stacked, Visited, Searched, Permanent, Listed
<1>4. Permanent' \subseteq Enabled' /\ DependenciesFirst'
    BY DEF Permanent, Enabled, DependenciesFirst
<1> QED
    BY <1>1, <1>2, <1>3, <1>4

LEMMA VisitKeeps == SortInv /\ VisitNext => SortInv'
<1> SUFFICES ASSUME SortInv, VisitNext
             PROVE  SortInv'
    OBVIOUS
<1> USE DEF SortInv, VisitNext, inputs
<1> DEFINE m == enabled[turn]
<1>1. turn \in 1..Len(enabled) /\ m \in Enabled /\ m \in Registered /\ Len(depends[m]) \in Nat
    BY InputTypes, UsableDependencies DEF TypeOK, Enabled, Listed
<1>2. TypeOK'
    BY <1>1, FrameType DEF TypeOK
<1>3. Checked' /\ UNCHANGED <<Enabled, Permanent>>
    BY DEF Checked, Enabled, Rejected, Permanent
<1>4. Stacked'
  <2>1. CASE m \in Permanent
      BY <2>1 DEF Stacked
  <2>2. CASE m \notin Permanent
    <3>1. frames' = <<Frame(m)>> /\ Len(frames') = 1 /\ frames'[1].module = m /\ frames'[1].next = 1
        BY <2>2 DEF Frame
    <3> QED
        BY <1>1, <1>3, <2>2, <3>1 DEF Stacked, Visiting
  <2> QED
      BY <2>1, <2>2
<1>5. Visited'
    BY <1>1, <1>3, InputTypes DEF Visited, Frame, TypeOK, Searched
<1> QED
    BY <1>2, <1>3, <1>4, <1>5 DEF DependenciesFirst

\* The innermost visit.
LEMMA TopFacts ==
    ASSUME SortInv, stage = "sorting", frames # <<>>
    PROVE  /\ Len(frames) \in 1..Len(frames) /\ Top = frames[Len(frames)]
           /\ Top.module \in Enabled \ Permanent /\ Top.module \in Registered
           /\ Top.next \in Nat \ {0} /\ Top.next <= Len(depends[Top.module]) + 1
           /\ \A j \in 1..(Top.next - 1) : depends[Top.module][j] \in Permanent
           /\ Len(depends[Top.module]) \in Nat
<1>1. Len(frames) \in 1..Len(frames)
    BY DEF SortInv, TypeOK
<1>2. Visiting(Len(frames))
    BY <1>1 DEF SortInv, Stacked
<1> QED
    BY <1>1, <1>2, InputTypes DEF Visiting, Top, SortInv

LEMMA DependencyKeeps == SortInv /\ VisitDependency => SortInv'
<1> SUFFICES ASSUME SortInv, VisitDependency
             PROVE  SortInv'
    OBVIOUS
<1> USE DEF SortInv, inputs
<1> DEFINE L    == Len(frames)
           m    == Top.module
           n    == Top.next
           d    == depends[m][n]
           rest == [frames EXCEPT ![L].next = @ + 1]
<1>0. /\ stage = "sorting" /\ frames # <<>> /\ n <= Len(depends[m])
      /\ UNCHANGED <<enabled, depends, unfit, turn, sorted>>
    BY DEF VisitDependency
<1>1. /\ L \in Nat \ {0} /\ L \in 1..L /\ Top = frames[L] /\ m \in Enabled \ Permanent
      /\ m \in Registered /\ n \in 1..Len(depends[m])
      /\ \A j \in 1..(n - 1) : depends[m][j] \in Permanent
    BY <1>0, TopFacts, InputTypes
<1>2. d \in Registered \cap Enabled /\ d \in Listed(depends[m])
    BY <1>0, <1>1, UsableDependencies, InputTypes DEF Listed
<1>3. /\ rest \in Seq(Visit) /\ Len(rest) = L
      /\ \A k \in 1..L : k # L => rest[k] = frames[k]
      /\ rest[L].module = m /\ rest[L].next = n + 1
  <2>1. \A k \in 1..L : frames[k] \in Visit
      BY InputTypes DEF TypeOK
  <2>2. [frames[L] EXCEPT !.next = @ + 1] \in Visit
      BY <1>1, <2>1 DEF Visit
  <2>3. rest = [frames EXCEPT ![L] = [frames[L] EXCEPT !.next = @ + 1]]
      BY <1>1 DEF TypeOK
  <2> QED
      BY <1>1, <2>1, <2>2, <2>3 DEF TypeOK, Visit
<1>4. UNCHANGED <<Enabled, Permanent>>
    BY <1>0 DEF Enabled, Permanent
<1> HIDE DEF rest
<1>5. CASE d \in Permanent /\ frames' = rest /\ UNCHANGED stage
  <2>1. TypeOK'
      BY <1>0, <1>3, <1>5 DEF TypeOK
  <2>2. Checked'
      BY <1>0, <1>4, <1>5 DEF Checked, Rejected
  <2>3. ASSUME NEW k \in 1..L
        PROVE  Visiting(k)'
    <3>1. Visiting(k)
        BY <2>3 DEF Stacked
    <3>2. CASE k = L
        BY <1>0, <1>1, <1>3, <1>4, <1>5, <3>2 DEF Visiting
    <3>3. CASE k # L
      <4>1. k + 1 \in 1..L /\ rest[k] = frames[k] /\ rest[k + 1].module = frames[k + 1].module
          BY <1>1, <1>3, <3>3
      <4> QED
          BY <1>0, <1>1, <1>3, <1>4, <1>5, <3>1, <3>3, <4>1 DEF Visiting
    <3> QED
        BY <3>2, <3>3
  <2>4. Stacked'
      BY <1>1, <1>3, <1>5, <2>3 DEF Stacked
  <2>5. Visited'
      BY <1>0, <1>1, <1>3, <1>4, <1>5 DEF Visited, Searched
  <2> QED
      BY <1>0, <1>4, <1>5, <2>1, <2>2, <2>4, <2>5 DEF DependenciesFirst
<1>6. CASE d \in Temporary \ Permanent /\ stage' = "cyclic" /\ UNCHANGED frames
  <2>1. PICK i \in 1..L : frames[i].module = d
      BY <1>6, InputTypes DEF Temporary
  <2> DEFINE S == {frames[j].module : j \in i..L}
  <2>2. S \in (SUBSET Enabled) \ {{}}
    <3>1. \A j \in i..L : frames[j].module \in Enabled
        BY <1>1, <2>1 DEF Stacked, Visiting
    <3>2. i \in i..L
        BY <1>1, <2>1
    <3>3. S # {}
        BY <3>2
    <3> QED
        BY <3>1, <3>3
  <2>3. ASSUME NEW j \in i..L
        PROVE  Listed(depends[frames[j].module]) \cap S # {}
    <3>1. j \in 1..L /\ Visiting(j)
        BY <1>1, <2>1, <2>3 DEF Stacked
    <3>2. CASE j = L
        BY <1>1, <1>2, <2>1, <3>2
    <3>3. CASE j # L
      <4> DEFINE x == frames[j].module
                 y == frames[j].next
      <4>1. j < L /\ j + 1 \in i..L
          BY <1>1, <2>1, <3>1, <3>3
      <4>2. y > 1 /\ y <= Len(depends[x]) + 1 /\ depends[x][y - 1] = frames[j + 1].module
          BY <3>1, <4>1 DEF Visiting
      <4>3. x \in Registered /\ y \in Nat /\ Len(depends[x]) \in Nat
            /\ depends[x] \in Seq(Listed(depends[x]))
          BY <3>1, InputTypes
      <4>4. y - 1 \in 1..Len(depends[x]) /\ DOMAIN depends[x] = 1..Len(depends[x])
          BY <4>2, <4>3
      <4>5. depends[x][y - 1] \in Listed(depends[x])
          BY <4>4 DEF Listed
      <4> QED
          BY <4>1, <4>2, <4>5
    <3> QED
        BY <3>2, <3>3
  <2>4. Cyclic
    <3>1. \A e \in S : Listed(depends[e]) \cap S # {}
        BY <2>3
    <3> HIDE DEF S
    <3> QED
        BY <2>2, <3>1 DEF Cyclic
  <2>5. Cyclic' /\ TypeOK' /\ Checked' /\ Visited'
      BY <1>0, <1>4, <1>6, <2>4
      DEF Cyclic, TypeOK, Ended, Checked, Rejected, Visited, Searched
  <2>6. Stacked'
      BY <1>0, <1>4, <1>6 DEF Stacked, Visiting
  <2> QED
      BY <1>0, <1>4, <2>5, <2>6 DEF DependenciesFirst
<1>7. CASE d \notin Temporary \cup Permanent /\ frames' = Append(rest, Frame(d)) /\ UNCHANGED stage
  <2>1. Frame(d) \in Visit /\ Frame(d).module = d /\ Frame(d).next = 1
      BY <1>2, FrameType DEF Frame
  <2>2. /\ frames' \in Seq(Visit) /\ Len(frames') = L + 1 /\ frames'[L + 1] = Frame(d)
        /\ \A k \in 1..L : frames'[k] = rest[k]
      BY <1>1, <1>3, <1>7, <2>1
  <2>3. TypeOK'
      BY <1>0, <1>7, <2>2 DEF TypeOK
  <2>4. Checked'
      BY <1>0, <1>4, <1>7 DEF Checked, Rejected
  <2>5. ASSUME NEW k \in 1..(L + 1)
        PROVE  Visiting(k)'
    <3>1. CASE k = L + 1
      <4>1. /\ frames'[k].module = d /\ frames'[k].next = 1 /\ Len(frames') = k
            /\ d \in Enabled' \ Permanent' /\ Len(depends'[d]) \in Nat
          BY <1>0, <1>2, <1>4, <1>7, <2>1, <2>2, <3>1, InputTypes
      <4> QED
          BY <1>1, <3>1, <4>1 DEF Visiting
    <3>2. CASE k = L
      <4>1. /\ frames'[k].module = m /\ frames'[k].next = n + 1 /\ k < Len(frames')
            /\ frames'[k + 1].module = d /\ m \in Enabled' \ Permanent'
            /\ d = depends'[m][n] /\ n <= Len(depends'[m])
          BY <1>0, <1>1, <1>3, <1>4, <2>1, <2>2, <3>2
      <4>2. \A j \in 1..n : depends'[m][j] \in Permanent' \/ j = n
          BY <1>0, <1>1, <1>4
      <4>3. n \in Nat /\ n > 0 /\ Len(depends'[m]) \in Nat
          BY <1>0, <1>1, InputTypes
      <4> HIDE DEF m, n, d
      <4> QED
          BY <4>1, <4>2, <4>3 DEF Visiting
    <3>3. CASE k \in 1..L /\ k # L
      <4>1. Visiting(k) /\ k + 1 \in 1..L
          BY <1>1, <3>3 DEF Stacked
      <4>2. frames'[k] = frames[k] /\ frames'[k + 1].module = frames[k + 1].module
          BY <1>1, <1>3, <2>2, <3>3, <4>1
      <4> QED
          BY <1>0, <1>1, <1>4, <2>2, <3>3, <4>1, <4>2 DEF Visiting
    <3> QED
        BY <1>1, <3>1, <3>2, <3>3
  <2>6. \A k \in 1..L : frames[k].module # d
      BY <1>7, InputTypes DEF Temporary
  <2>7. \A k \in 1..L : frames'[k].module = frames[k].module
      BY <1>1, <1>3, <2>2
  <2>8. Stacked'
      BY <1>1, <2>1, <2>2, <2>5, <2>6, <2>7 DEF Stacked
  <2>9. Visited'
    <3>1. frames' # <<>> /\ frames'[1].module = frames[1].module
        BY <1>1, <2>2, <2>7
    <3> QED
        BY <1>0, <1>4, <1>7, <3>1 DEF Visited, Searched
  <2> QED
      BY <1>0, <1>4, <1>7, <2>3, <2>4, <2>8, <2>9 DEF DependenciesFirst
<1> QED
    BY <1>5, <1>6, <1>7 DEF VisitDependency, rest

LEMMA WithoutLast ==
    ASSUME NEW S, NEW s \in Seq(S), Len(s) >= 1
    PROVE  /\ SubSeq(s, 1, Len(s) - 1) \in Seq(S)
           /\ Len(SubSeq(s, 1, Len(s) - 1)) = Len(s) - 1
           /\ \A k \in 1..(Len(s) - 1) : SubSeq(s, 1, Len(s) - 1)[k] = s[k]
<1>1. PICK n \in Nat : n = Len(s) - 1
    OBVIOUS
<1>2. \A i \in 1..n : s[i] \in S
    BY <1>1
<1>3. /\ SubSeq(s, 1, n) \in Seq(S)
      /\ Len(SubSeq(s, 1, n)) = IF 1 <= n THEN n - 1 + 1 ELSE 0
      /\ \A i \in 1..(n - 1 + 1) : SubSeq(s, 1, n)[i] = s[1 + i - 1]
    BY <1>2, SubSeqProperties
<1> DEFINE t == SubSeq(s, 1, n)
<1> HIDE DEF t
<1>4. Len(t) = n /\ \A k \in 1..n : t[k] = s[k]
  <2>1. /\ Len(t) = IF 1 <= n THEN n - 1 + 1 ELSE 0
        /\ \A i \in 1..(n - 1 + 1) : t[i] = s[1 + i - 1]
      BY <1>3 DEF t
  <2>2. n - 1 + 1 = n /\ \A i \in 1..n : 1 + i - 1 = i
      OBVIOUS
  <2> QED
      BY <2>1, <2>2
<1> QED
    BY <1>1, <1>3, <1>4 DEF t

LEMMA LeaveKeeps == SortInv /\ LeaveModule => SortInv'
<1> SUFFICES ASSUME SortInv, LeaveModule
             PROVE  SortInv'
    OBVIOUS
<1> USE DEF SortInv, inputs
<1> DEFINE L == Len(frames)
           m == Top.module
           P == Len(sorted)
<1>0. /\ stage = "sorting" /\ frames # <<>> /\ Top.next > Len(depends[m])
      /\ sorted' = Append(sorted, m) /\ frames' = SubSeq(frames, 1, L - 1)
      /\ UNCHANGED <<enabled, depends, unfit, stage, turn>>
    BY DEF LeaveModule
<1>1. /\ L \in Nat \ {0} /\ L \in 1..L /\ Top = frames[L] /\ m \in Enabled \ Permanent
      /\ m \in Registered /\ P \in Nat
      /\ \A j \in 1..Len(depends[m]) : depends[m][j] \in Permanent
    BY <1>0, TopFacts, InputTypes
<1>2. /\ sorted' \in Seq(Registered) /\ Len(sorted') = P + 1 /\ sorted'[P + 1] = m
      /\ \A k \in 1..P : sorted'[k] = sorted[k]
    BY <1>0, <1>1 DEF TypeOK
<1>3. /\ frames' \in Seq(Visit) /\ Len(frames') = L - 1
      /\ \A k \in 1..(L - 1) : frames'[k] = frames[k]
  <2>1. frames \in Seq(Visit)
      BY DEF TypeOK
  <2> QED
      BY <1>0, <1>1, <2>1, WithoutLast
<1>4. Permanent' = Permanent \cup {m}
  <2>1. sorted \in Seq(Registered) /\ DOMAIN sorted = 1..P /\ DOMAIN sorted' = 1..(P + 1)
      BY <1>1, <1>2 DEF TypeOK
  <2>2. ASSUME NEW x \in Permanent'
        PROVE  x \in Permanent \cup {m}
    <3>1. PICK k \in 1..(P + 1) : x = sorted'[k]
        BY <2>1, <2>2 DEF Permanent, Listed
    <3>2. k \in 1..P \/ k = P + 1
        BY <3>1, <1>1
    <3> QED
        BY <3>1, <3>2, <2>1, <1>2 DEF Permanent, Listed
  <2>3. ASSUME NEW x \in Permanent
        PROVE  x \in Permanent'
    <3>1. PICK k \in 1..P : x = sorted[k]
        BY <2>1, <2>3 DEF Permanent, Listed
    <3>2. k \in 1..(P + 1)
        BY <3>1, <1>1
    <3> QED
        BY <3>1, <3>2, <2>1, <1>2 DEF Permanent, Listed
  <2>4. m \in Permanent'
    <3>1. P + 1 \in DOMAIN sorted'
        BY <2>1, <1>1
    <3> QED
        BY <3>1, <1>2 DEF Permanent, Listed
  <2> QED
      BY <2>2, <2>3, <2>4
<1>5. TypeOK' /\ Checked' /\ UNCHANGED Enabled
    BY <1>0, <1>2, <1>3 DEF TypeOK, Checked, Rejected, Enabled
<1>6. Stacked'
  <2>1. ASSUME NEW k \in 1..(L - 1)
        PROVE  Visiting(k)'
    <3>1. Visiting(k) /\ frames'[k] = frames[k] /\ k \in 1..L /\ k # L /\ k + 1 \in 1..L
        BY <1>1, <1>3, <2>1 DEF Stacked
    <3>2. frames[k].module # m
        BY <1>1, <3>1 DEF Stacked
    <3> DEFINE x == frames[k].module
               y == frames[k].next
    <3>3. /\ frames'[k].module = x /\ frames'[k].next = y /\ depends' = depends
          /\ x \in Enabled' \ Permanent' /\ y <= Len(depends[x]) + 1
          /\ y > 1 /\ depends[x][y - 1] = frames[k + 1].module
          /\ \A j \in 1..(y - 1) : depends[x][j] \in Permanent \/ j = y - 1
        BY <1>0, <1>1, <1>4, <1>5, <3>1, <3>2 DEF Visiting
    <3> HIDE DEF x, y
    <3>4. CASE k = L - 1
      <4>1. depends[x][y - 1] = m
          BY <1>1, <3>3, <3>4
      <4>2. \A j \in 1..(y - 1) : depends[x][j] \in Permanent'
          BY <1>4, <3>3, <4>1
      <4> QED
          BY <1>1, <1>3, <3>3, <3>4, <4>2 DEF Visiting
    <3>5. CASE k # L - 1
      <4>1. k + 1 \in 1..(L - 1) /\ frames'[k + 1] = frames[k + 1]
          BY <1>1, <1>3, <2>1, <3>5
      <4>2. \A j \in 1..(y - 1) : depends[x][j] \in Permanent' \/ j = y - 1
          BY <1>4, <3>3
      <4> QED
          BY <1>1, <1>3, <3>3, <4>1, <4>2 DEF Visiting
    <3> QED
        BY <3>4, <3>5
  <2> QED
      BY <1>1, <1>3, <2>1 DEF Stacked
<1>7. Visited'
  <2>1. \A j \in 1..(turn - 1) :
           enabled[j] \in Permanent' \/ (frames' # <<>> /\ frames'[1].module = enabled[j])
    <3>1. CASE L = 1
        BY <1>0, <1>1, <1>4, <3>1 DEF Visited
    <3>2. CASE L # 1
      <4>1. frames' # <<>> /\ frames'[1] = frames[1]
          BY <1>1, <1>3, <3>2
      <4> QED
          BY <1>4, <4>1 DEF Visited
    <3> QED
        BY <3>1, <3>2
  <2> QED
      BY <1>0, <2>1 DEF Visited, Searched
<1>8. DependenciesFirst'
  <2> SUFFICES ASSUME NEW k \in 1..(P + 1)
               PROVE  /\ \A e \in Listed(depends[sorted'[k]]) : \E j \in 1..(k - 1) : sorted'[j] = e
                      /\ \A j \in 1..(P + 1) : sorted'[j] = sorted'[k] => j = k
    <3>1. DOMAIN sorted' = 1..(P + 1) /\ depends' = depends
        BY <1>0, <1>1, <1>2
    <3> QED
        BY <3>1 DEF DependenciesFirst
  <2>1. \A j \in 1..P : sorted[j] # m
      BY <1>1, InputTypes DEF Permanent, Listed
  <2>2. CASE k = P + 1
    <3>1. \A e \in Listed(depends[m]) : e \in Permanent
        BY <1>1, InputTypes DEF Listed
    <3>2. \A e \in Permanent : \E j \in 1..P : sorted[j] = e
        BY InputTypes DEF Permanent, Listed
    <3> QED
        BY <1>1, <1>2, <2>1, <2>2, <3>1, <3>2
  <2>3. CASE k # P + 1
    <3>1. k \in 1..P /\ k \in DOMAIN sorted /\ DOMAIN sorted = 1..P
        BY <1>1, <2>3, InputTypes
    <3>2. /\ \A e \in Listed(depends[sorted[k]]) : \E j \in 1..(k - 1) : sorted[j] = e
          /\ \A j \in 1..P : sorted[j] = sorted[k] => j = k
        BY <3>1 DEF DependenciesFirst
    <3>3. \A j \in 1..(k - 1) : sorted'[j] = sorted[j] /\ sorted'[k] = sorted[k]
        BY <1>1, <1>2, <3>1
    <3>4. \A e \in Listed(depends[sorted'[k]]) : \E j \in 1..(k - 1) : sorted'[j] = e
        BY <1>2, <3>1, <3>2, <3>3
    <3>5. \A j \in 1..(P + 1) : sorted'[j] = sorted'[k] => j = k
        BY <1>1, <1>2, <2>1, <3>1, <3>2
    <3> QED
        BY <3>4, <3>5
  <2> QED
      BY <2>2, <2>3
<1> QED
    BY <1>0, <1>1, <1>4, <1>5, <1>6, <1>7, <1>8

-----------------------------------------------------------------------------
\* A set of positions has a least one.
LEMMA LeastPosition ==
    ASSUME NEW T \in SUBSET Nat, T # {}
    PROVE  \E x \in T : \A y \in T : x <= y
<1>1. IsWellFoundedOn(OpToRel(<, Nat), Nat)
    BY NatLessThanWellFounded
<1>2. PICK x \in T : \A y \in T : ~ (<<y, x>> \in OpToRel(<, Nat))
    BY <1>1, WFMin, Zenon
<1>3. \A y \in T : y < x => <<y, x>> \in OpToRel(<, Nat)
    BY DEF OpToRel
<1>4. \A y \in T : ~ (y < x)
    BY <1>2, <1>3
<1> QED
    BY <1>4

\* A list of all enabled modules in dependency order leaves room for no cycle: of the modules
\* of a cycle that stands first in the list, no dependency could be in the cycle.
LEMMA OrderedIsAcyclic ==
    ASSUME SortInv, Permanent = Enabled
    PROVE  ~Cyclic
<1> SUFFICES ASSUME NEW S \in (SUBSET Enabled) \ {{}},
                    \A m \in S : Listed(depends[m]) \cap S # {}
             PROVE  FALSE
    BY DEF Cyclic
<1> DEFINE T == {k \in 1..Len(sorted) : sorted[k] \in S}
<1>1. T \in SUBSET Nat /\ T # {}
  <2>1. PICK m \in S : m \in Permanent
      OBVIOUS
  <2>2. PICK k \in 1..Len(sorted) : sorted[k] = m
      BY <2>1, InputTypes DEF Permanent, Listed, SortInv
  <2> QED
      BY <2>1, <2>2
<1>2. PICK k \in T : \A j \in T : k <= j
    BY <1>1, LeastPosition
<1>3. PICK d \in Listed(depends[sorted[k]]) : d \in S
    BY <1>2
<1>4. k \in 1..Len(sorted) /\ k \in DOMAIN sorted /\ Len(sorted) \in Nat
    BY <1>2, InputTypes DEF SortInv
<1>5. PICK j \in 1..(k - 1) : sorted[j] = d
    BY <1>3, <1>4 DEF SortInv, DependenciesFirst
<1>6. j \in T /\ j < k
    BY <1>3, <1>4, <1>5
<1> QED
    BY <1>2, <1>4, <1>6

LEMMA EndKeeps == SortInv /\ (SortingDone \/ CoverByMatrix) => SortInv'
<1> SUFFICES ASSUME SortInv, SortingDone \/ CoverByMatrix
             PROVE  SortInv'
    OBVIOUS
<1> USE DEF SortInv, inputs
<1>1. /\ UNCHANGED <<enabled, depends, unfit, turn, frames, sorted, Enabled, Permanent>>
      /\ stage' \in Searched /\ stage \notin {"checking", "rejected"}
    BY DEF SortingDone, CoverByMatrix, Enabled, Permanent, Searched
<1>2. TypeOK' /\ Checked'
    BY <1>1 DEF TypeOK, Ended, Checked, Rejected, Searched
<1>3. Visited'
    BY <1>1, InputTypes DEF Visited, SortingDone, CoverByMatrix, Searched, TypeOK
<1>4. Stacked'
    BY <1>1 DEF Stacked, Visiting
<1> QED
    BY <1>1, <1>2, <1>3, <1>4 DEF DependenciesFirst, Searched

LEMMA StepSort == SortInv /\ [Next]_vars => SortInv'
<1> SUFFICES ASSUME SortInv, [Next]_vars
             PROVE  SortInv'
    OBVIOUS
<1>1. CASE UNCHANGED vars
  <2>1. UNCHANGED <<enabled, depends, unfit, stage, turn, frames, sorted, Enabled, Permanent>>
      BY <1>1 DEF vars, Enabled, Permanent
  <2>2. TypeOK' /\ Checked'
      BY <2>1 DEF SortInv, TypeOK, Checked, Rejected
  <2>3. Stacked'
      BY <2>1 DEF SortInv, Stacked, Visiting
  <2>4. Visited' /\ DependenciesFirst' /\ (stage' = "cyclic" => Cyclic')
      BY <2>1 DEF SortInv, Visited, DependenciesFirst, Cyclic
  <2> QED
      BY <2>1, <2>2, <2>3, <2>4 DEF SortInv
<1> QED
    BY <1>1, CheckKeeps, VisitKeeps, DependencyKeeps, LeaveKeeps, EndKeeps DEF Next, Resolve

\* At the end of the search, each enabled module is listed, and there is no cycle.
LEMMA SortedAtTheEnd ==
    SortInv => /\ CyclesAndNothingElseFail
               /\ stage = "resolved" => Permanent = Enabled
<1> SUFFICES ASSUME SortInv
             PROVE  stage \in Searched => ~Cyclic /\ Permanent = Enabled
    BY DEF SortInv, CyclesAndNothingElseFail, Searched
<1> SUFFICES ASSUME stage \in Searched
             PROVE  ~Cyclic /\ Permanent = Enabled
    OBVIOUS
<1>1. \A j \in 1..Len(enabled) : enabled[j] \in Permanent
    BY InputTypes DEF SortInv, Visited
<1>2. Permanent = Enabled
    BY <1>1, InputTypes DEF Enabled, Listed, SortInv
<1> QED
    BY <1>2, OrderedIsAcyclic

\* The invariant on which the theorems below rest.
THEOREM SortInvariant == Spec => []SortInv
BY InitSort, StepSort, PTL DEF Spec

\* The search and its stack always have their types.
THEOREM SortTypes == Spec => []TypeOK
<1>1. SortInv => TypeOK
    BY DEF SortInv
<1> QED
    BY <1>1, SortInvariant, PTL

\* For every registry and profile, what a module depends on stands before it in the list and
\* no module stands in it twice (_topological_sort).
THEOREM DependenciesComeFirst == Spec => []DependenciesFirst
<1>1. SortInv => DependenciesFirst
    BY DEF SortInv
<1> QED
    BY <1>1, SortInvariant, PTL

\* For every registry and profile, the search reports a cycle exactly if the enabled modules
\* have one, and otherwise lists them all (_topological_sort).
THEOREM SortIsExact == Spec => []CyclesAndNothingElseFail
<1>1. SortInv => CyclesAndNothingElseFail
    BY SortedAtTheEnd
<1> QED
    BY <1>1, SortInvariant, PTL

-----------------------------------------------------------------------------
\* The suites.  Nothing of them changes before the modules are resolved, and nothing of the
\* order changes afterwards.

\* What the hooks of a module report.
HookGood(m) ==
    Hooks(m) # {} /\ (\A h \in Hooks(m) : h.fault # "import") /\ Passes(m)
HookResult(m) ==
    IF ~Started(m) THEN NotStarted("smoke", m) ELSE Result("smoke", m, HookGood(m))

HooksSoFar(n) == {HookResult(sorted[k]) : k \in 1..(n - 1)}
NoHookStuck(n) ==
    \A k \in 1..(n - 1) : Called(sorted[k]) => package[sorted[k]].hook \notin {"hangs", "invalid"}

\* Before a command, nothing has been done; a command comes after the search.
JobFollows ==
    /\ job = "none" => /\ at = 1 /\ health = "unknown" /\ results = {} /\ exit = NoExit
                       /\ record.status = "none"
    /\ job # "none" => stage \in Ended

\* The contract suite has the results of the checks before at, and ends with all of them.
ContractSoFar ==
    job = "contract" /\ (exit = NoExit \/ record.status # "none") =>
        /\ stage = "resolved" /\ package \in Packages /\ at \in 1..5
        /\ results = UNION {Checks[k] : k \in 1..(at - 1)}
        /\ IF record.status = "none" THEN exit = NoExit
           ELSE at = 5 /\ exit # NoExit /\ record = ContractRecord

\* The smoke suite has the results of the modules before at, none of which stopped it.
SmokeSoFar ==
    job = "smoke" =>
        /\ at \in 1..(Len(sorted) + 1)
        /\ results = HooksSoFar(at)
        /\ exit = NoExit =>
              /\ record.status = "none" /\ stage = "resolved" /\ package \in Packages
              /\ health \in {"unknown", "healthy", "degraded"}
              /\ NoHookStuck(at)
        /\ record.status # "none" /\ health # "blocked" =>
              /\ stage = "resolved" /\ package \in Packages
              /\ health \in {"healthy", "degraded"} /\ at = Len(sorted) + 1
              /\ NoHookStuck(at) /\ record = SmokeRecord({})

AuditSoFar == job = "audit" /\ exit = 0 => package \in Packages /\ AuditVerdict = 0

SuitesInv ==
    /\ SortInv /\ JobFollows /\ job \in {"none", "contract", "smoke", "audit"}
    /\ ContractSoFar /\ SmokeSoFar /\ AuditSoFar

-----------------------------------------------------------------------------
LEMMA InitSuites == SuitesInit => SuitesInv
BY InitSort
DEF SuitesInit, SuitesInv, JobFollows, ContractSoFar, SmokeSoFar, AuditSoFar

\* The operators of the suites read no variable of the search but sorted and enabled.
LEMMA ResolveKeepsSuites == SuitesInv /\ Resolve /\ UNCHANGED suiteVars => SuitesInv'
<1> SUFFICES ASSUME SuitesInv, Resolve, UNCHANGED suiteVars
             PROVE  SuitesInv'
    OBVIOUS
<1>1. SortInv'
    BY StepSort DEF SuitesInv, Next
<1>2. stage \notin Ended
    BY DEF Resolve, CheckModules, VisitNext, VisitDependency, LeaveModule, SortingDone,
           CoverByMatrix, Ended
<1>3. job = "none" /\ job' = "none" /\ JobFollows'
    BY <1>2 DEF SuitesInv, JobFollows, suiteVars
<1> QED
    BY <1>1, <1>3 DEF SuitesInv, ContractSoFar, SmokeSoFar, AuditSoFar

LEMMA SortUnchanged == SortInv /\ UNCHANGED vars => SortInv'
BY StepSort

\* A record has one of the three statuses, and a command that has written one has ended.
LEMMA StatusOfRecord ==
    /\ ContractRecord.status \in Statuses
    /\ \A B : SmokeRecord(B).status \in Statuses
    /\ \A s \in Statuses : s # "none" /\ ExitCode(s) # NoExit
BY DEF ContractRecord, SmokeRecord, Statuses, ExitCode, NoExit

\* Of the search, what the suites read.
LEMMA SameOrder ==
    UNCHANGED vars =>
        UNCHANGED <<enabled, depends, stage, sorted, Enabled, Permanent>>
BY DEF vars, Enabled, Permanent

LEMMA BeginKeeps == SuitesInv /\ Begin => SuitesInv'
<1> SUFFICES ASSUME SuitesInv, Begin
             PROVE  SuitesInv'
    OBVIOUS
<1>1. /\ at = 1 /\ health = "unknown" /\ results = {} /\ exit = NoExit /\ record.status = "none"
      /\ UNCHANGED <<vars, at, health, results, exit, record>>
      /\ stage = "resolved" /\ job' \in {"contract", "smoke"} /\ package' \in Packages
    BY DEF SuitesInv, JobFollows, Begin
<1>2. Len(sorted) \in Nat /\ UNCHANGED <<stage, sorted>>
    BY <1>1, InputTypes DEF SuitesInv, SortInv, vars
<1>3. SortInv' /\ JobFollows' /\ AuditSoFar'
    BY <1>1, <1>2, SortUnchanged DEF SuitesInv, JobFollows, Ended, AuditSoFar
<1>4. ContractSoFar'
    BY <1>1, <1>2 DEF ContractSoFar
<1>5. SmokeSoFar'
    BY <1>1, <1>2 DEF SmokeSoFar, HooksSoFar, NoHookStuck
<1> QED
    BY <1>1, <1>3, <1>4, <1>5 DEF SuitesInv

LEMMA GiveUpKeeps == SuitesInv /\ (GiveUp \/ Audit) => SuitesInv'
<1> SUFFICES ASSUME SuitesInv, GiveUp \/ Audit
             PROVE  SuitesInv'
    OBVIOUS
<1>1. /\ at = 1 /\ results = {} /\ record.status = "none"
      /\ UNCHANGED <<vars, at, health, results, record>>
      /\ stage \in Ended /\ job' \in {"contract", "smoke", "audit"} /\ exit' # NoExit
    BY DEF SuitesInv, JobFollows, GiveUp, Audit, AuditVerdict, NoExit
<1>2. Len(sorted) \in Nat /\ UNCHANGED <<stage, sorted>>
    BY <1>1, InputTypes DEF SuitesInv, SortInv, vars
<1>3. SortInv' /\ JobFollows' /\ ContractSoFar'
    BY <1>1, <1>2, SortUnchanged DEF SuitesInv, JobFollows, ContractSoFar
<1>4. SmokeSoFar'
    BY <1>1, <1>2 DEF SmokeSoFar, HooksSoFar
<1>5. AuditSoFar'
    BY DEF GiveUp, Audit, AuditSoFar
<1> QED
    BY <1>1, <1>3, <1>4, <1>5 DEF SuitesInv

LEMMA CheckTypes ==
    Len(Checks) = 4 /\ Checks[1] = ContractsVersion /\ Checks[2] = SdkBoundary
    /\ Checks[3] = Loadability /\ Checks[4] = ApiBoundary(Permanent, StartedOnes)
BY DEF Checks

LEMMA ContractKeeps == SuitesInv /\ (RunCheck \/ WriteReport) => SuitesInv'
<1> SUFFICES ASSUME SuitesInv, RunCheck \/ WriteReport
             PROVE  SuitesInv'
    OBVIOUS
<1>1. /\ UNCHANGED <<vars, job, package>> /\ job = "contract" /\ exit = NoExit
      /\ stage = "resolved" /\ package \in Packages /\ at \in 1..5
      /\ results = UNION {Checks[k] : k \in 1..(at - 1)} /\ record.status = "none"
    BY DEF SuitesInv, ContractSoFar, RunCheck, WriteReport, Running
<1>0. UNCHANGED <<package, stage, Permanent>>
    BY <1>1, SameOrder
<1>2. UNCHANGED <<stage, Checks>>
    BY <1>0
    DEF Checks, ContractsVersion, SdkBoundary, Loadability, ApiBoundary, StartedOnes,
        Started, VersionGood, Declares, ApiGood, OfKind, First, Last, Points
<1>3. SortInv' /\ JobFollows' /\ SmokeSoFar' /\ AuditSoFar'
    BY <1>1, <1>2, SortUnchanged DEF SuitesInv, JobFollows, SmokeSoFar, AuditSoFar
<1>4. ContractSoFar'
  <2>1. CASE RunCheck
    <3>1. at \in 1..4 /\ at' = at + 1 /\ results' = results \cup Checks[at]
          /\ UNCHANGED <<exit, record>>
        BY <1>1, <2>1, CheckTypes DEF RunCheck
    <3>2. \A k \in Int : k \in 1..(at' - 1) <=> k \in 1..(at - 1) \/ k = at
        BY <3>1
    <3>3. results' = UNION {Checks'[k] : k \in 1..(at' - 1)}
        BY <1>1, <1>2, <3>1, <3>2
    <3> QED
        BY <1>1, <1>2, <3>1, <3>3 DEF ContractSoFar
  <2>2. CASE WriteReport
    <3>1. at = 5 /\ UNCHANGED <<at, results>>
          /\ \/ record' = ContractRecord /\ exit' = ExitCode(record'.status)
             \/ record' = record /\ exit' = 1
        BY <1>1, <2>2, CheckTypes DEF WriteReport, Finish
    <3>2. ContractRecord' = ContractRecord
        BY <3>1 DEF ContractRecord, With
    <3>3. exit' # NoExit /\ (record' = record \/ record'.status # "none")
        BY <3>1, StatusOfRecord DEF NoExit
    <3> QED
        BY <1>1, <1>2, <3>1, <3>2, <3>3 DEF ContractSoFar
  <2> QED
      BY <2>1, <2>2
<1> QED
    BY <1>1, <1>3, <1>4 DEF SuitesInv

LEMMA SmokeKeeps ==
    SuitesInv /\ (CheckHealth \/ RunHooks \/ RejectHookResult \/ PersistSmoke) => SuitesInv'
<1> SUFFICES ASSUME SuitesInv, CheckHealth \/ RunHooks \/ RejectHookResult \/ PersistSmoke
             PROVE  SuitesInv'
    OBVIOUS
<1>1. /\ UNCHANGED <<vars, job, package, legacy>> /\ job = "smoke" /\ exit = NoExit
      /\ stage = "resolved" /\ package \in Packages /\ at \in 1..(Len(sorted) + 1)
      /\ results = HooksSoFar(at) /\ NoHookStuck(at) /\ record.status = "none"
      /\ health \in {"unknown", "healthy", "degraded"}
    BY DEF SuitesInv, SmokeSoFar, CheckHealth, RunHooks, RejectHookResult, PersistSmoke, Running
<1>2. UNCHANGED <<stage, sorted>> /\ Len(sorted) \in Nat
    BY <1>1, SameOrder, InputTypes DEF SuitesInv, SortInv
<1>3. \A m : HookResult(m)' = HookResult(m) /\ (Called(m) <=> Called(m)')
    BY <1>1 DEF HookResult, HookGood, Hooks, Passes, Started, Points, OfKind, NotStarted, Result, Called
<1>4. SortInv' /\ JobFollows' /\ ContractSoFar' /\ AuditSoFar'
    BY <1>1, <1>2, SortUnchanged DEF SuitesInv, JobFollows, ContractSoFar, AuditSoFar
<1>5. SmokeSoFar'
  <2>1. CASE CheckHealth
    <3>1. UNCHANGED <<at, results>> /\ HooksSoFar(at)' = HooksSoFar(at)
        BY <1>2, <1>3, <2>1 DEF CheckHealth, HooksSoFar
    <3>2. NoHookStuck(at)'
        BY <1>1, <1>2, <1>3, <3>1 DEF NoHookStuck
    <3>3. CASE health' \in {"healthy", "degraded"} /\ UNCHANGED <<exit, record>>
        BY <1>1, <1>2, <3>1, <3>2, <3>3 DEF SmokeSoFar
    <3>4. CASE \E m \in Permanent : health' = "blocked" /\ Finish(SmokeRecord({m}))
      <4>1. health' = "blocked" /\ exit' # NoExit
          BY <3>4, StatusOfRecord DEF Finish, NoExit
      <4> QED
          BY <1>1, <1>2, <3>1, <4>1 DEF SmokeSoFar
    <3> QED
        BY <2>1, <3>3, <3>4 DEF CheckHealth
  <2>2. CASE RunHooks
    <3>1. /\ at \in 1..Len(sorted) /\ at' = at + 1 /\ UNCHANGED <<exit, record, health>>
          /\ results' = results \cup {HookResult(sorted[at])}
          /\ ~(Called(sorted[at]) /\ package[sorted[at]].hook \in {"hangs", "invalid"})
      <4>1. /\ at <= Len(sorted) /\ at' = at + 1 /\ UNCHANGED <<exit, record, health>>
            /\ results' = results \cup {HookResult(Current)}
            /\ ~(Called(Current) /\ package[Current].hook \in {"hangs", "invalid"})
          BY <2>2 DEF RunHooks, HookResult, HookGood
      <4> QED
          BY <1>1, <1>2, <4>1 DEF Current
    <3>2. \A k \in Int : k \in 1..(at' - 1) <=> k \in 1..(at - 1) \/ k = at
        BY <3>1
    <3>3. results' = HooksSoFar(at)'
        BY <1>1, <1>2, <1>3, <3>1, <3>2 DEF HooksSoFar
    <3>4. NoHookStuck(at)'
        BY <1>1, <1>2, <1>3, <3>1, <3>2 DEF NoHookStuck
    <3> QED
        BY <1>1, <1>2, <3>1, <3>3, <3>4 DEF SmokeSoFar
  <2>3. CASE RejectHookResult
    <3>1. UNCHANGED <<at, results, record>> /\ exit' = 1 /\ HooksSoFar(at)' = HooksSoFar(at)
        BY <1>2, <1>3, <2>3 DEF RejectHookResult, HooksSoFar
    <3> QED
        BY <1>1, <1>2, <3>1 DEF SmokeSoFar, NoExit
  <2>4. CASE PersistSmoke
    <3>1. /\ at = Len(sorted) + 1 /\ health # "unknown" /\ UNCHANGED <<at, health, results>>
          /\ \/ record' = SmokeRecord({}) /\ exit' = ExitCode(record'.status)
             \/ record' = record /\ exit' = 1
        BY <1>1, <1>2, <2>4 DEF PersistSmoke, Finish
    <3>2. SmokeRecord({})' = SmokeRecord({}) /\ exit' # NoExit
        BY <1>1, <3>1, StatusOfRecord
        DEF SmokeRecord, With, Blamed, Called, Hooks, Started, Points, OfKind, NoExit
    <3>3. results' = HooksSoFar(at)' /\ NoHookStuck(at)'
        BY <1>1, <1>2, <1>3, <3>1 DEF HooksSoFar, NoHookStuck
    <3> QED
        BY <1>1, <1>2, <3>1, <3>2, <3>3 DEF SmokeSoFar
  <2> QED
      BY <2>1, <2>2, <2>3, <2>4
<1> QED
    BY <1>1, <1>4, <1>5 DEF SuitesInv

LEMMA StepSuites == SuitesInv /\ [SuitesNext]_allVars => SuitesInv'
<1>1. SuitesInv /\ UNCHANGED allVars => SuitesInv'
  <2> SUFFICES ASSUME SuitesInv, UNCHANGED allVars
               PROVE  SuitesInv'
      OBVIOUS
  <2>1. /\ UNCHANGED <<job, package, legacy, at, health, results, exit, record>>
        /\ UNCHANGED <<enabled, depends, stage, sorted, Enabled, Permanent>> /\ SortInv'
      BY SameOrder, SortUnchanged DEF allVars, suiteVars, SuitesInv
  <2>2. UNCHANGED <<Checks, ContractRecord, AuditVerdict>> /\ SmokeRecord({})' = SmokeRecord({})
      BY <2>1
      DEF Checks, ContractsVersion, SdkBoundary, Loadability, ApiBoundary, StartedOnes, Started,
          VersionGood, Declares, ApiGood, OfKind, First, Last, Points, ContractRecord,
          SmokeRecord, With, Blamed, Called, Hooks, AuditVerdict, Audited, AuditResults
  <2>3. \A m : HookResult(m)' = HookResult(m) /\ (Called(m) <=> Called(m)')
      BY <2>1 DEF HookResult, HookGood, Hooks, Passes, Started, Points, OfKind, NotStarted,
                  Result, Called
  <2>4. HooksSoFar(at)' = HooksSoFar(at) /\ (NoHookStuck(at) => NoHookStuck(at)')
      BY <2>1, <2>3 DEF HooksSoFar, NoHookStuck
  <2>5. JobFollows' /\ ContractSoFar' /\ AuditSoFar'
      BY <2>1, <2>2 DEF SuitesInv, JobFollows, ContractSoFar, AuditSoFar
  <2>6. SmokeSoFar'
      BY <2>1, <2>2, <2>4 DEF SuitesInv, SmokeSoFar
  <2> QED
      BY <2>1, <2>5, <2>6 DEF SuitesInv
<1> QED
    BY <1>1, ResolveKeepsSuites, BeginKeeps, GiveUpKeeps, ContractKeeps, SmokeKeeps
    DEF SuitesNext, Work, Suite

\* The invariant on which the theorems about the suites rest.
THEOREM SuitesInvariant == SuitesSpec => []SuitesInv
BY InitSuites, StepSuites, PTL DEF SuitesSpec

-----------------------------------------------------------------------------
\* What the checks say of one module.

Faults == {"none", "import", "protocol", "signature"}

LEMMA PackageFacts ==
    ASSUME package \in Packages, NEW m \in Registered
    PROVE  /\ Started(m) \in BOOLEAN
           /\ package[m].declares \in {"agreed", "other", "invalid", "raises"}
           /\ package[m].contract \in {"none", "current", "older"}
           /\ DOMAIN Points(m) = 1..Len(Points(m)) /\ Len(Points(m)) \in Nat
           /\ Points(m) = <<>> <=> Len(Points(m)) = 0
           /\ \A i \in DOMAIN Points(m) :
                 Points(m)[i].kind \in Kinds /\ Points(m)[i].fault \in Faults
           /\ \A k : IsFiniteSet(OfKind(m, k)) /\ OfKind(m, k) \subseteq DOMAIN Points(m)
<1> DEFINE Point == [kind : Kinds, fault : Faults]
<1>1. package[m] \in Package
    BY SuiteParts
<1>2. Points(m) \in Seq(Point)
    BY <1>1 DEF Package, Points, Faults
<1> HIDE DEF Point
<1>3. \A i \in 1..Len(Points(m)) : Points(m)[i] \in Point
    BY <1>2
<1>4. DOMAIN Points(m) = 1..Len(Points(m)) /\ Len(Points(m)) \in Nat
      /\ (Points(m) = <<>> <=> Len(Points(m)) = 0)
    BY <1>2
<1>5. IsFiniteSet(DOMAIN Points(m))
    BY <1>4, FS_Interval
<1>6. \A k : OfKind(m, k) \subseteq DOMAIN Points(m) /\ IsFiniteSet(OfKind(m, k))
    BY <1>5, FS_Subset DEF OfKind
<1> QED
    BY <1>1, <1>3, <1>4, <1>6 DEF Package, Started, Point

\* Two entrypoints of a kind are one too many.
LEMMA OneOfAKind ==
    ASSUME package \in Packages, NEW m \in Registered, NEW k
    PROVE  Cardinality(OfKind(m, k)) <= 1 <=> \A i, j \in OfKind(m, k) : i = j
<1>1. IsFiniteSet(OfKind(m, k))
    BY PackageFacts
<1>2. ASSUME Cardinality(OfKind(m, k)) <= 1, NEW i \in OfKind(m, k), NEW j \in OfKind(m, k), i # j
      PROVE  FALSE
  <2>1. Cardinality({i}) = 1 /\ IsFiniteSet({i})
      BY FS_Singleton
  <2>2. Cardinality({i} \cup {j}) = 2
      BY <1>2, <2>1, FS_AddElement
  <2>3. Cardinality({i} \cup {j}) <= Cardinality(OfKind(m, k))
      BY <1>1, FS_Subset
  <2>4. Cardinality(OfKind(m, k)) \in Nat
      BY <1>1, FS_CardinalityType
  <2> QED
      BY <1>2, <2>2, <2>3, <2>4
<1>3. ASSUME \A i, j \in OfKind(m, k) : i = j
      PROVE  Cardinality(OfKind(m, k)) <= 1
  <2>1. CASE OfKind(m, k) = {}
      BY <2>1, FS_EmptySet
  <2>2. CASE OfKind(m, k) # {}
    <3>1. PICK i \in OfKind(m, k) : OfKind(m, k) = {i}
        BY <1>3, <2>2
    <3>2. Cardinality({i}) = 1
        BY FS_Singleton
    <3> QED
        BY <3>1, <3>2
  <2> QED
      BY <2>1, <2>2
<1> QED
    BY <1>2, <1>3

\* With no entrypoint at fault and one of a kind, the first of a kind can be used, and the last.
LEMMA FirstIsUsable ==
    ASSUME package \in Packages, NEW m \in Registered, NEW k, OfKind(m, k) # {},
           \A i \in DOMAIN Points(m) : Points(m)[i].fault = "none",
           \A i, j \in OfKind(m, k) : i = j
    PROVE  Usable(First(m, k)) /\ Usable(Last(m, k))
<1>1. PICK i \in OfKind(m, k) : OfKind(m, k) = {i}
    OBVIOUS
<1>2. i \in DOMAIN Points(m) /\ i \in Nat /\ i <= i /\ i >= i
    BY PackageFacts
<1>3. /\ (CHOOSE x \in OfKind(m, k) : \A y \in OfKind(m, k) : x <= y) = i
      /\ (CHOOSE x \in OfKind(m, k) : \A y \in OfKind(m, k) : x >= y) = i
    BY <1>1, <1>2
<1>4. First(m, k) = Points(m)[i] /\ Last(m, k) = Points(m)[i]
    BY <1>3 DEF First, Last
<1> QED
    BY <1>2, <1>4 DEF Usable

\* What the check of the SDK and that of the orchestrator ask for.
SdkGood == Declares(Sdk) /\ package[Sdk].declares = "agreed" /\ package[Sdk].contract = "current"
LoadGood ==
    \A k \in {"cli", "version_declaration"} :
        OfKind(Orchestrator, k) # {} /\ Usable(Last(Orchestrator, k))

\* No check has anything to say against a sound module; against another, one of them has.
LEMMA SoundIsGood ==
    ASSUME package \in Packages, NEW m \in Registered
    PROVE  Sound(m) <=> /\ Started(m) /\ VersionGood(m) /\ ApiGood(m)
                        /\ m = Sdk => SdkGood
                        /\ m = Orchestrator => LoadGood
<1> DEFINE Single == \A k \in Kinds : \A i, j \in OfKind(m, k) : i = j
           Clean  == \A i \in DOMAIN Points(m) : Points(m)[i].fault = "none"
<1>1. Single <=> \A k \in Kinds : Cardinality(OfKind(m, k)) <= 1
    BY OneOfAKind
<1>2. Single <=> \A i, j \in DOMAIN Points(m) :
                     Points(m)[j].kind = Points(m)[i].kind => i = j
    BY PackageFacts DEF OfKind
<1>3. "version_declaration" \in Kinds /\ "cli" \in Kinds
    BY DEF Kinds
<1>4. Sound(m) <=> /\ Started(m) /\ package[m].declares = "agreed"
                   /\ package[m].contract = "current" \/ (package[m].contract = "none" /\ m # Sdk)
                   /\ Clean /\ Single
                   /\ OfKind(m, "version_declaration") # {}
                   /\ m = Orchestrator => OfKind(m, "cli") # {}
    BY <1>2 DEF Sound
<1>5. ApiGood(m) <=> Points(m) # <<>> /\ Single /\ Clean
    BY <1>1 DEF ApiGood
<1>6. OfKind(m, "version_declaration") # {} => Points(m) # <<>>
    BY PackageFacts
<1>7. ASSUME Single, Clean, NEW k \in Kinds, OfKind(m, k) # {}
      PROVE  Usable(First(m, k)) /\ Usable(Last(m, k))
    BY <1>7, FirstIsUsable
<1> HIDE DEF Single, Clean
<1>8. ASSUME Sound(m)
      PROVE  /\ Started(m) /\ VersionGood(m) /\ ApiGood(m)
             /\ m = Sdk => SdkGood
             /\ m = Orchestrator => LoadGood
  <2>1. Declares(m)
      BY <1>3, <1>4, <1>7, <1>8 DEF Declares
  <2>2. VersionGood(m) /\ (m = Sdk => SdkGood)
      BY <1>4, <1>8, <2>1 DEF VersionGood, SdkGood
  <2>3. ApiGood(m)
      BY <1>4, <1>5, <1>6, <1>8
  <2>4. m = Orchestrator => LoadGood
      BY <1>3, <1>4, <1>7, <1>8 DEF LoadGood
  <2> QED
      BY <1>4, <1>8, <2>2, <2>3, <2>4
<1>9. ASSUME Started(m), VersionGood(m), ApiGood(m), m = Sdk => SdkGood,
             m = Orchestrator => LoadGood
      PROVE  Sound(m)
  <2>1. package[m].contract \in {"none", "current", "older"}
      BY PackageFacts
  <2>2. OfKind(m, "version_declaration") # {} /\ package[m].declares = "agreed"
        /\ package[m].contract # "older"
      BY <1>9 DEF VersionGood, Declares
  <2>3. m = Sdk => package[m].contract = "current"
      BY <1>9 DEF SdkGood
  <2>4. m = Orchestrator => OfKind(m, "cli") # {}
      BY <1>9 DEF LoadGood
  <2> QED
      BY <1>4, <1>5, <1>9, <2>1, <2>2, <2>3, <2>4
<1> QED
    BY <1>8, <1>9

\* Modules of the results of a check with some status.
Modules(R, status) == {r.module : r \in {x \in R : x.status = status}}

LEMMA OneResult ==
    ASSUME NEW x, NEW status
    PROVE  Modules({x}, status) = IF x.status = status THEN {x.module} ELSE {}
BY DEF Modules

\* The checks over all modules, each in its turn: whom they find failed, whom not started.
LEMMA ContractsVersionSays ==
    ASSUME package \in Packages, Permanent \subseteq Registered
    PROVE  /\ Modules(ContractsVersion, "not_started") = {m \in Permanent : ~Started(m)}
           /\ Modules(ContractsVersion, "failed") =
                 {m \in Permanent : Started(m) /\ ~VersionGood(m)}
<1>1. \A m \in Permanent : Started(m) \in BOOLEAN /\ VersionGood(m) \in BOOLEAN
    BY PackageFacts DEF VersionGood
<1> DEFINE R(m) == IF Started(m) THEN Result("contracts_version", m, VersionGood(m))
                   ELSE NotStarted("contracts_version", m)
<1>2. ASSUME NEW m \in Permanent
      PROVE  /\ R(m).module = m
             /\ R(m).status = "not_started" <=> ~Started(m)
             /\ R(m).status = "failed" <=> Started(m) /\ ~VersionGood(m)
    BY <1>1, <1>2 DEF Result, NotStarted
<1>3. ContractsVersion = {R(m) : m \in Permanent}
    BY DEF ContractsVersion
<1> HIDE DEF R
<1> QED
    BY <1>2, <1>3 DEF Modules

LEMMA ApiBoundarySays ==
    ASSUME package \in Packages, NEW M \in SUBSET Registered, NEW B
    PROVE  /\ Modules(ApiBoundary(M, B), "not_started") = (M \ B) \cap Focus
           /\ Modules(ApiBoundary(M, B), "failed") = {m \in M \cap B : ~ApiGood(m)}
           /\ {r.module : r \in ApiBoundary(M, B)} = M \cap (B \cup Focus)
           /\ \A m \in M \cap B : ~ApiGood(m) =>
                 \E r \in ApiBoundary(M, B) : r.module = m /\ r.status # "success"
<1> DEFINE R(m) == IF m \in B THEN Result("public_api_boundary", m, ApiGood(m))
                   ELSE NotStarted("public_api_boundary", m)
<1>2. ASSUME NEW m \in M
      PROVE  /\ R(m).module = m
             /\ R(m).status = "not_started" <=> m \notin B
             /\ R(m).status = "failed" <=> m \in B /\ ~ApiGood(m)
    BY <1>2 DEF Result, NotStarted
<1>3. ApiBoundary(M, B) = {R(m) : m \in M \cap (B \cup Focus)}
    BY DEF ApiBoundary
<1> HIDE DEF R
<1>4. Modules(ApiBoundary(M, B), "not_started") = (M \ B) \cap Focus
    BY <1>2, <1>3 DEF Modules
<1>5. Modules(ApiBoundary(M, B), "failed") = {m \in M \cap B : ~ApiGood(m)}
    BY <1>2, <1>3 DEF Modules
<1>6. {r.module : r \in ApiBoundary(M, B)} = M \cap (B \cup Focus)
    BY <1>2, <1>3
<1>7. \A m \in M \cap B : ~ApiGood(m) =>
         \E r \in ApiBoundary(M, B) : r.module = m /\ r.status # "success"
    BY <1>2, <1>3
<1> QED
    BY <1>4, <1>5, <1>6, <1>7

LEMMA SdkBoundarySays ==
    ASSUME package \in Packages, Permanent \subseteq Registered
    PROVE  /\ Modules(SdkBoundary, "not_started") =
                 IF Sdk \in Permanent /\ ~Started(Sdk) THEN {Sdk} ELSE {}
           /\ Modules(SdkBoundary, "failed") =
                 IF Sdk \in Permanent /\ Started(Sdk) /\ ~SdkGood
                 THEN IF Declares(Sdk) /\ package[Sdk].declares = "raises" THEN {"assembly"} ELSE {Sdk}
                 ELSE {}
<1> DEFINE raises == Declares(Sdk) /\ package[Sdk].declares = "raises"
<1>1. CASE Sdk \notin Permanent
    BY <1>1 DEF SdkBoundary, Modules
<1>2. CASE Sdk \in Permanent /\ ~Started(Sdk)
  <2>1. SdkBoundary = {NotStarted("sdk_boundary", Sdk)}
      BY <1>2 DEF SdkBoundary
  <2>2. /\ NotStarted("sdk_boundary", Sdk).status = "not_started"
        /\ NotStarted("sdk_boundary", Sdk).module = Sdk
      BY DEF NotStarted
  <2> QED
      BY <1>2, <2>1, <2>2, OneResult
<1>3. CASE Sdk \in Permanent /\ Started(Sdk) /\ raises
  <2>1. SdkBoundary = {Result("SdkBoundaryCheck", "assembly", FALSE)}
      BY <1>3 DEF SdkBoundary
  <2>2. ~SdkGood
      BY <1>3 DEF SdkGood
  <2>3. /\ Result("SdkBoundaryCheck", "assembly", FALSE).status = "failed"
        /\ Result("SdkBoundaryCheck", "assembly", FALSE).module = "assembly"
      BY DEF Result
  <2> QED
      BY <1>3, <2>1, <2>2, <2>3, OneResult
<1>4. CASE Sdk \in Permanent /\ Started(Sdk) /\ ~raises /\ SdkGood
  <2>1. SdkBoundary = {Result("sdk_boundary", Sdk, SdkGood)}
      BY <1>4 DEF SdkBoundary, SdkGood
  <2>2. /\ Result("sdk_boundary", Sdk, SdkGood).status = "success"
        /\ Result("sdk_boundary", Sdk, SdkGood).module = Sdk
      BY <1>4 DEF Result
  <2> QED
      BY <1>4, <2>1, <2>2, OneResult
<1>5. CASE Sdk \in Permanent /\ Started(Sdk) /\ ~raises /\ ~SdkGood
  <2>1. SdkBoundary = {Result("sdk_boundary", Sdk, SdkGood)}
      BY <1>5 DEF SdkBoundary, SdkGood
  <2>2. /\ Result("sdk_boundary", Sdk, SdkGood).status = "failed"
        /\ Result("sdk_boundary", Sdk, SdkGood).module = Sdk
      BY <1>5 DEF Result
  <2> QED
      BY <1>5, <2>1, <2>2, OneResult
<1> QED
    BY <1>1, <1>2, <1>3, <1>4, <1>5

LEMMA LoadabilitySays ==
    ASSUME package \in Packages, Permanent \subseteq Registered
    PROVE  /\ Modules(Loadability, "not_started") =
                 IF Orchestrator \in Permanent /\ ~Started(Orchestrator) THEN {Orchestrator} ELSE {}
           /\ Modules(Loadability, "failed") =
                 IF Orchestrator \in Permanent /\ Started(Orchestrator) /\ ~LoadGood
                 THEN {Orchestrator} ELSE {}
<1>1. CASE Orchestrator \notin Permanent
    BY <1>1 DEF Loadability, Modules
<1>2. CASE Orchestrator \in Permanent /\ ~Started(Orchestrator)
  <2>1. Loadability = {NotStarted("orchestrator_loadability", Orchestrator)}
      BY <1>2 DEF Loadability
  <2>2. /\ NotStarted("orchestrator_loadability", Orchestrator).status = "not_started"
        /\ NotStarted("orchestrator_loadability", Orchestrator).module = Orchestrator
      BY DEF NotStarted
  <2> QED
      BY <1>2, <2>1, <2>2, OneResult
<1>3. CASE Orchestrator \in Permanent /\ Started(Orchestrator) /\ LoadGood
  <2>1. Loadability = {Result("orchestrator_loadability", Orchestrator, LoadGood)}
      BY <1>3 DEF Loadability, LoadGood
  <2>2. /\ Result("orchestrator_loadability", Orchestrator, LoadGood).status = "success"
        /\ Result("orchestrator_loadability", Orchestrator, LoadGood).module = Orchestrator
      BY <1>3 DEF Result
  <2> QED
      BY <1>3, <2>1, <2>2, OneResult
<1>4. CASE Orchestrator \in Permanent /\ Started(Orchestrator) /\ ~LoadGood
  <2>1. Loadability = {Result("orchestrator_loadability", Orchestrator, LoadGood)}
      BY <1>4 DEF Loadability, LoadGood
  <2>2. /\ Result("orchestrator_loadability", Orchestrator, LoadGood).status = "failed"
        /\ Result("orchestrator_loadability", Orchestrator, LoadGood).module = Orchestrator
      BY <1>4 DEF Result
  <2> QED
      BY <1>4, <2>1, <2>2, OneResult
<1> QED
    BY <1>1, <1>2, <1>3, <1>4

\* All checks together: whom they find failed, whom not started.
LEMMA ChecksSay ==
    ASSUME package \in Packages, Permanent \subseteq Registered,
           results = UNION {Checks[k] : k \in 1..4}
    PROVE  /\ With("not_started") = {m \in Permanent : ~Started(m)}
           /\ With("failed") \ {"assembly"} \subseteq {m \in Permanent : Started(m) /\ ~Sound(m)}
           /\ {m \in Permanent : Started(m) /\ ~Sound(m)} \subseteq With("failed")
           /\ With("failed") # {m \in Permanent : Started(m) /\ ~Sound(m)} =>
                 /\ With("failed") = {m \in Permanent : Started(m) /\ ~Sound(m)} \cup {"assembly"}
                 /\ Sdk \in Permanent /\ Started(Sdk) /\ package[Sdk].declares = "raises"
                 /\ ~Sound(Sdk)
<1> DEFINE A == ApiBoundary(Permanent, StartedOnes)
           Odd == {m \in Permanent : Started(m) /\ ~Sound(m)}
<1>1. results = ContractsVersion \cup SdkBoundary \cup Loadability \cup A
  <2>1. \A k : k \in 1..4 <=> k = 1 \/ k = 2 \/ k = 3 \/ k = 4
      OBVIOUS
  <2> QED
      BY <2>1, CheckTypes
<1>2. \A s : With(s) = Modules(ContractsVersion, s) \cup Modules(SdkBoundary, s)
                       \cup Modules(Loadability, s) \cup Modules(A, s)
    BY <1>1 DEF With, Modules
<1>3. /\ Modules(A, "not_started") = {m \in Permanent : ~Started(m)} \cap Focus
      /\ Modules(A, "failed") = {m \in Permanent : Started(m) /\ ~ApiGood(m)}
  <2>1. /\ Modules(A, "not_started") = (Permanent \ StartedOnes) \cap Focus
        /\ Modules(A, "failed") = {m \in Permanent \cap StartedOnes : ~ApiGood(m)}
      BY ApiBoundarySays
  <2>2. \A m \in Permanent : m \in StartedOnes <=> Started(m)
      BY DEF StartedOnes
  <2> HIDE DEF A
  <2> QED
      BY <2>1, <2>2
<1> HIDE DEF A
<1>4. With("not_started") = {m \in Permanent : ~Started(m)}
    BY <1>2, <1>3, ContractsVersionSays, SdkBoundarySays, LoadabilitySays
<1>5. \A m \in Permanent : Sound(m) <=> /\ Started(m) /\ VersionGood(m) /\ ApiGood(m)
                                        /\ m = Sdk => SdkGood
                                        /\ m = Orchestrator => LoadGood
    BY SoundIsGood
<1> DEFINE raises == /\ Sdk \in Permanent /\ Started(Sdk) /\ ~SdkGood /\ Declares(Sdk)
                     /\ package[Sdk].declares = "raises"
<1>6. raises => ~VersionGood(Sdk)
    BY DEF VersionGood
<1> HIDE DEF raises
<1>7. Modules(SdkBoundary, "failed") =
          IF raises THEN {"assembly"}
          ELSE {m \in Permanent : m = Sdk /\ Started(m) /\ ~SdkGood}
    BY SdkBoundarySays DEF raises
<1>8. Modules(Loadability, "failed") =
          {m \in Permanent : m = Orchestrator /\ Started(m) /\ ~LoadGood}
    BY LoadabilitySays
<1>9. With("failed") = Odd \cup (IF raises THEN {"assembly"} ELSE {})
  <2>1. CASE ~raises
      BY <1>2, <1>3, <1>5, <1>7, <1>8, <2>1, ContractsVersionSays
  <2>2. CASE raises
    <3>1. Sdk \in {m \in Permanent : Started(m) /\ ~VersionGood(m)}
        BY <1>6, <2>2 DEF raises
    <3> QED
        BY <1>2, <1>3, <1>5, <1>7, <1>8, <2>2, <3>1, ContractsVersionSays
  <2> QED
      BY <2>1, <2>2
<1>10. raises => Sdk \in Permanent /\ Started(Sdk) /\ package[Sdk].declares = "raises" /\ ~Sound(Sdk)
    BY <1>5, <1>6 DEF raises
<1> QED
    BY <1>4, <1>9, <1>10

\* For every profile, every registry and whatever the packages do, the contract suite succeeds
\* exactly when every enabled module is sound, and names exactly the others; only the SDK's
\* declaration, when it raises, adds assembly to them (CompatRunner._run_checks).
THEOREM ContractFindsAll == SuitesSpec => []ContractIsExact
<1>1. SuitesInv => ContractIsExact
  <2> SUFFICES ASSUME SuitesInv, job = "contract", record.status # "none"
               PROVE  LET unsound == {m \in Enabled : ~Sound(m)}
                      IN  /\ record.status = "success" <=> unsound = {}
                          /\ unsound \subseteq record.failing
                          /\ record.failing # unsound =>
                                /\ record.failing = unsound \cup {"assembly"}
                                /\ Sdk \in unsound /\ package[Sdk].declares = "raises"
      BY DEF ContractIsExact
  <2> DEFINE Odd  == {m \in Permanent : Started(m) /\ ~Sound(m)}
             Late == {m \in Permanent : ~Started(m)}
  <2>1. /\ stage = "resolved" /\ package \in Packages /\ at = 5 /\ record = ContractRecord
        /\ results = UNION {Checks[k] : k \in 1..(at - 1)}
      BY DEF SuitesInv, ContractSoFar
  <2>2. Permanent = Enabled /\ Permanent \subseteq Registered
    <3>1. sorted \in Seq(Registered)
        BY DEF SuitesInv, SortInv, TypeOK
    <3>2. Permanent \subseteq Registered
        BY <3>1 DEF Permanent, Listed
    <3> QED
        BY <2>1, <3>2, SortedAtTheEnd DEF SuitesInv
  <2>3. results = UNION {Checks[k] : k \in 1..4}
    <3>1. at - 1 = 4
        BY <2>1
    <3> QED
        BY <2>1, <3>1
  <2>4. /\ With("not_started") = Late /\ Odd \subseteq With("failed")
        /\ With("failed") # Odd => /\ With("failed") = Odd \cup {"assembly"} /\ Sdk \in Odd
                                   /\ package[Sdk].declares = "raises"
      BY <2>1, <2>2, <2>3, ChecksSay
  <2>5. {m \in Enabled : ~Sound(m)} = Odd \cup Late
      BY <2>2 DEF Sound
  <2> HIDE DEF Odd, Late
  <2>6. /\ record.failing = With("failed") \cup With("not_started")
        /\ record.status = "success" <=> With("failed") = {} /\ With("not_started") = {}
      BY <2>1 DEF ContractRecord
  <2> QED
      BY <2>4, <2>5, <2>6
<1> QED
    BY <1>1, SuitesInvariant, PTL

\* Whatever the hooks do, a smoke record of success rests on a healthy check and on a passing
\* hook of every enabled module; a record names each module whose hook failed, unless the hook
\* reported under another module_id, and blames none that passed (SmokeSuite.run).
THEOREM SmokeTellsTheTruth == SuitesSpec => []SmokeIsEarned
<1>1. SuitesInv => SmokeIsEarned
  <2> DEFINE answers(m) == Started(m) /\ Hooks(m) # {} /\ \A h \in Hooks(m) : h.fault # "import"
             good(m) == answers(m) /\ (package[m].hook = "passes" \/ (legacy /\ package[m].hook = "unknown"))
  <2> SUFFICES ASSUME SuitesInv, job = "smoke", record.status # "none", health # "blocked"
               PROVE  /\ record.status = "success" <=> health = "healthy" /\ \A m \in Enabled : good(m)
                      /\ record.failing \ {Stranger} \subseteq {m \in Enabled : Started(m) /\ ~good(m)}
                      /\ \A m \in Enabled \ record.failing :
                            Started(m) => good(m) \/ (answers(m) /\ package[m].hook = "foreign")
                      /\ \A m \in Enabled : answers(m) => package[m].hook # "invalid"
      BY DEF SmokeIsEarned
  <2>1. /\ stage = "resolved" /\ package \in Packages /\ health \in {"healthy", "degraded"}
        /\ at = Len(sorted) + 1 /\ NoHookStuck(at) /\ record = SmokeRecord({})
        /\ results = HooksSoFar(at)
      BY DEF SuitesInv, SmokeSoFar
  <2>2. /\ Permanent = Enabled /\ Len(sorted) \in Nat
        /\ \A k \in 1..Len(sorted) : sorted[k] \in Enabled
        /\ \A m \in Enabled : \E k \in 1..Len(sorted) : sorted[k] = m
    <3>1. Permanent = Enabled
        BY <2>1, SortedAtTheEnd DEF SuitesInv
    <3>2. DOMAIN sorted = 1..Len(sorted) /\ Len(sorted) \in Nat
        BY InputTypes DEF SuitesInv, SortInv
    <3> QED
        BY <3>1, <3>2 DEF Permanent, Listed
  <2>3. results = {HookResult(m) : m \in Enabled}
      BY <2>1, <2>2 DEF HooksSoFar
  <2>4. \A m : good(m) <=> Started(m) /\ HookGood(m)
      BY DEF HookGood, Passes
  <2>5. \A m : /\ HookResult(m).module = m
               /\ HookResult(m).status = "not_started" <=> ~Started(m)
               /\ HookResult(m).status = "failed" <=> Started(m) /\ ~HookGood(m)
      BY DEF HookResult, Result, NotStarted
  <2>6. /\ With("failed") = {m \in Enabled : Started(m) /\ ~good(m)}
        /\ With("not_started") = {m \in Enabled : ~Started(m)}
    <3> HIDE DEF good
    <3> QED
        BY <2>3, <2>4, <2>5 DEF With
  <2>7. \A m \in Enabled : answers(m) => package[m].hook # "invalid"
    <3> SUFFICES ASSUME NEW m \in Enabled, answers(m)
                 PROVE  package[m].hook # "invalid"
        OBVIOUS
    <3>1. PICK k \in 1..Len(sorted) : sorted[k] = m
        BY <2>2
    <3>2. Called(m)
        BY DEF Called
    <3> QED
        BY <2>1, <2>2, <3>1, <3>2 DEF NoHookStuck
  <2>8. /\ record.failing = UNION {Blamed(m) : m \in With("failed")}
        /\ record.status = "success" <=>
              With("failed") = {} /\ health # "degraded" /\ With("not_started") = {}
      BY <2>1 DEF SmokeRecord
  <2>9. (\A m \in Enabled : good(m)) <=> With("failed") = {} /\ With("not_started") = {}
    <3>1. \A m : good(m) => Started(m)
        OBVIOUS
    <3> HIDE DEF good
    <3> QED
        BY <2>6, <3>1
  <2>10. \A m : /\ Blamed(m) \subseteq {m, Stranger}
                /\ Started(m) /\ ~good(m) =>
                      m \in Blamed(m) \/ (answers(m) /\ package[m].hook = "foreign")
      BY DEF Blamed, Called
  <2> HIDE DEF good, answers
  <2>11. record.failing \ {Stranger} \subseteq {m \in Enabled : Started(m) /\ ~good(m)}
      BY <2>6, <2>8, <2>10
  <2>12. \A m \in Enabled \ record.failing :
            Started(m) => good(m) \/ (answers(m) /\ package[m].hook = "foreign")
      BY <2>6, <2>8, <2>10
  <2> QED
      BY <2>1, <2>7, <2>8, <2>9, <2>11, <2>12
<1> QED
    BY <1>1, SuitesInvariant, PTL

\* When the hook of a module has run, those of all it depends on have, for every registry and
\* whatever order the profile lists its modules in (run_smoke).
THEOREM HooksFollowDependencies == SuitesSpec => []HooksInOrder
<1>1. SuitesInv => HooksInOrder
  <2> SUFFICES ASSUME SuitesInv, job = "smoke", NEW m \in With("success") \cup With("failed"),
                      NEW d \in Listed(depends[m])
               PROVE  \E r \in results : r.module = d
      BY DEF HooksInOrder
  <2>1. results = HooksSoFar(at) /\ at \in 1..(Len(sorted) + 1) /\ Len(sorted) \in Nat
        /\ DOMAIN sorted = 1..Len(sorted)
      BY InputTypes DEF SuitesInv, SmokeSoFar, SortInv
  <2>2. \A n : HookResult(n).module = n
      BY DEF HookResult, Result, NotStarted
  <2>3. PICK k \in 1..(at - 1) : sorted[k] = m
      BY <2>1, <2>2 DEF With, HooksSoFar
  <2>4. PICK j \in 1..(k - 1) : sorted[j] = d
    <3>1. k \in DOMAIN sorted
        BY <2>1
    <3> QED
        BY <2>3, <3>1 DEF SuitesInv, SortInv, DependenciesFirst
  <2>5. j \in 1..(at - 1)
      BY <2>1, <2>3, <2>4
  <2> QED
      BY <2>1, <2>2, <2>4, <2>5 DEF HooksSoFar
<1> QED
    BY <1>1, SuitesInvariant, PTL

\* The audit ends with 0 only if each target is enabled and registered and each of its
\* entrypoints is in order, for any targets and focus modules (stage_3_compat_audit.main).
THEOREM AuditMissesNothing == SuitesSpec => []AuditIsEarned
<1>1. SuitesInv => AuditIsEarned
  <2> SUFFICES ASSUME SuitesInv, job = "audit", exit = 0, NEW m \in Targets
               PROVE  /\ m \in Enabled /\ Points(m) # <<>>
                      /\ \A i \in DOMAIN Points(m) : Points(m)[i].fault = "none"
      BY DEF AuditIsEarned
  <2> DEFINE M == Enabled \cap Registered
             B == StartedOnes \cup Targets
  <2>1. package \in Packages /\ AuditVerdict = 0
      BY DEF SuitesInv, AuditSoFar
  <2>2. /\ Targets \subseteq {r.module : r \in Audited}
        /\ \A r \in Audited : r.status = "success"
      BY <2>1 DEF AuditVerdict
  <2>3. Audited = {r \in ApiBoundary(M, B) : r.module \in Targets}
      BY DEF Audited, AuditResults
  <2>4. /\ {r.module : r \in ApiBoundary(M, B)} = M \cap (B \cup Focus)
        /\ \A n \in M \cap B : ~ApiGood(n) =>
              \E r \in ApiBoundary(M, B) : r.module = n /\ r.status # "success"
    <3>1. M \in SUBSET Registered
        OBVIOUS
    <3> HIDE DEF M, B
    <3> QED
        BY <2>1, <3>1, ApiBoundarySays
  <2>5. m \in M \cap B
      BY <2>2, <2>3, <2>4
  <2>6. ApiGood(m)
      BY <2>2, <2>3, <2>4, <2>5
  <2> QED
      BY <2>5, <2>6 DEF ApiGood
<1> QED
    BY <1>1, SuitesInvariant, PTL

\* What the search promises holds in the suites, too.
THEOREM SuitesSortToo == SuitesSpec => [](DependenciesFirst /\ CyclesAndNothingElseFail)
<1>1. SuitesInv => DependenciesFirst /\ CyclesAndNothingElseFail
    BY SortedAtTheEnd DEF SuitesInv, SortInv
<1> QED
    BY <1>1, SuitesInvariant, PTL

=============================================================================
