---------------------------- MODULE EnvSetupProofs -----------------------------
(***************************************************************************)
(* Proofs about EnvSetup, for any number of setups and edits, any contents *)
(* of .env, any requests and any environments: the chosen backend is on,   *)
(* the lines of others survive, and a command that resolves has the values *)
(* people gave.  The first half is about lists: which elements Pick        *)
(* returns, and that rewriting the managed lines leaves the others as they *)
(* are.  Facts about all positions of a list are shown by looking at the   *)
(* least position where they fail.                                         *)
(***************************************************************************)
EXTENDS EnvSetup, SequenceTheorems, NaturalsInduction, WellFoundedInduction, TLAPS

\* Positions have a least one.
LEMMA LeastPosition ==
    ASSUME NEW T \in SUBSET Nat, T # {}
    PROVE  \E x \in T : \A y \in T : x <= y
<1>1. IsWellFoundedOn(OpToRel(<, Nat), Nat)
    BY NatLessThanWellFounded
<1>2. PICK x \in T : \A y \in T : ~ (<<y, x>> \in OpToRel(<, Nat))
    BY <1>1, WFMin, Zenon
<1>3. \A y \in T : y < x => <<y, x>> \in OpToRel(<, Nat)
    BY DEF OpToRel
<1>4. \A y \in T : ~ (y < x)
    BY <1>2, <1>3
<1> QED
    BY <1>4

\* The function by which Pick is defined, up to position m.
Picks(f, s, at, m) ==
    f = [n \in 0..m |-> IF n = 0 THEN <<>>
                        ELSE IF n \in at THEN Append(f[n - 1], s[n])
                        ELSE f[n - 1]]

LEMMA PicksExist ==
    ASSUME NEW s, NEW at, NEW m \in Nat
    PROVE  \E f : Picks(f, s, at, m)
<1> DEFINE Bad == {k \in Nat : ~ \E f : Picks(f, s, at, k)}
           next(f, k) == IF k \in at THEN Append(f[k - 1], s[k]) ELSE f[k - 1]
<1> SUFFICES ASSUME Bad # {}
             PROVE  FALSE
    OBVIOUS
<1>1. PICK k \in Bad : \A j \in Bad : k <= j
    BY LeastPosition
<1>2. CASE k = 0
  <2> DEFINE g == [n \in 0..0 |-> <<>>]
  <2>1. g = [n \in 0..0 |-> IF n = 0 THEN <<>> ELSE IF n \in at THEN Append(g[n - 1], s[n]) ELSE g[n - 1]]
      OBVIOUS
  <2> HIDE DEF g
  <2>2. Picks(g, s, at, 0)
      BY <2>1 DEF Picks
  <2> QED
      BY <1>1, <1>2, <2>2
<1>3. CASE k > 0
  <2>1. k - 1 \in Nat /\ k - 1 \notin Bad
      BY <1>1, <1>3
  <2>2. PICK f : Picks(f, s, at, k - 1)
      BY <2>1
  <2> DEFINE g == [n \in 0..k |-> IF n = k THEN next(f, k) ELSE f[n]]
  <2>3. \A n \in 0..(k - 1) : f[n] = IF n = 0 THEN <<>> ELSE next(f, n)
      BY <2>2 DEF Picks
  <2>4. \A n \in 0..k : g[n] = IF n = 0 THEN <<>> ELSE next(g, n)
    <3> SUFFICES ASSUME NEW n \in 0..k
                 PROVE  g[n] = IF n = 0 THEN <<>> ELSE next(g, n)
        OBVIOUS
    <3>1. CASE n = k
      <4>1. g[n] = next(f, k) /\ n # 0 /\ g[k - 1] = f[k - 1]
          BY <1>1, <1>3, <3>1
      <4> QED
          BY <3>1, <4>1
    <3>2. CASE n # k
      <4>1. n \in 0..(k - 1) /\ g[n] = f[n]
          BY <1>1, <3>2
      <4>2. n # 0 => n - 1 \in 0..k /\ n - 1 # k /\ g[n - 1] = f[n - 1]
          BY <4>1
      <4> QED
          BY <2>3, <4>1, <4>2
    <3> QED
        BY <3>1, <3>2
  <2>5. g = [n \in 0..k |-> IF n = 0 THEN <<>> ELSE next(g, n)]
      BY <2>4
  <2> HIDE DEF g
  <2>6. Picks(g, s, at, k)
      BY <2>5 DEF Picks
  <2> QED
      BY <1>1, <2>6
<1> QED
    BY <1>1, <1>2, <1>3

LEMMA PickDef ==
    ASSUME NEW s, NEW at, Len(s) \in Nat
    PROVE  \E f : Picks(f, s, at, Len(s)) /\ Pick(s, at) = f[Len(s)]
<1> DEFINE f == CHOOSE f : f = [n \in 0..Len(s) |->
                                    IF n = 0 THEN <<>>
                                    ELSE IF n \in at THEN Append(f[n - 1], s[n])
                                    ELSE f[n - 1]]
<1>1. PICK h : Picks(h, s, at, Len(s))
    BY PicksExist
<1>2. f = [n \in 0..Len(s) |-> IF n = 0 THEN <<>>
                               ELSE IF n \in at THEN Append(f[n - 1], s[n])
                               ELSE f[n - 1]]
    BY <1>1 DEF Picks
<1>3. Pick(s, at) = f[Len(s)]
    BY DEF Pick
<1> QED
    BY <1>2, <1>3 DEF Picks

\* What holds at 0 and is handed on from position to position holds at each.
LEMMA Everywhere ==
    ASSUME NEW m \in Nat, NEW T \in SUBSET Nat, 0 \in T,
           \A n \in 1..m : n - 1 \in T => n \in T
    PROVE  \A n \in 0..m : n \in T
<1> DEFINE Bad == (0..m) \ T
<1> SUFFICES ASSUME Bad # {} PROVE FALSE
    OBVIOUS
<1>1. PICK k \in Bad : \A j \in Bad : k <= j
  <2>1. Bad \in SUBSET Nat
      OBVIOUS
  <2> HIDE DEF Bad
  <2> QED
      BY <2>1, LeastPosition
<1>2. k \in 1..m /\ k - 1 \in 0..m /\ k - 1 \notin Bad
    BY <1>1
<1> QED
    BY <1>1, <1>2

\* What holds of the empty list, and of a list with one more element, holds of each list.
LEMMA ListByList ==
    ASSUME NEW S, NEW T, <<>> \in T,
           \A s \in Seq(S) : s \in T => \A x \in S : Append(s, x) \in T
    PROVE  \A s \in Seq(S) : s \in T
<1> SUFFICES ASSUME NEW s \in Seq(S)
             PROVE  s \in T
    OBVIOUS
<1> DEFINE Ok == {n \in Nat : n > Len(s) \/ SubSeq(s, 1, n) \in T}
<1>1. Len(s) \in Nat /\ SubSeq(s, 1, Len(s)) = s /\ SubSeq(s, 1, 0) = <<>>
    OBVIOUS
<1>2. 0 \in Ok
    BY <1>1
<1>3. ASSUME NEW n \in 1..Len(s), n - 1 \in Ok
      PROVE  n \in Ok
  <2>1. n - 1 \in Nat /\ n \in Nat /\ ~ (n - 1 > Len(s))
      BY <1>1
  <2>2. SubSeq(s, 1, n - 1) \in T
      BY <1>3, <2>1
  <2>3. SubSeq(s, 1, n - 1) \in Seq(S) /\ s[n] \in S
      BY <2>1
  <2>4. SubSeq(s, 1, n) = Append(SubSeq(s, 1, n - 1), s[n])
      BY <2>1
  <2> QED
      BY <2>1, <2>2, <2>3, <2>4
<1>4. Ok \in SUBSET Nat
    OBVIOUS
<1>5. \A n \in Ok : n > Len(s) \/ SubSeq(s, 1, n) \in T
    OBVIOUS
<1> HIDE DEF Ok
<1>6. \A n \in 0..Len(s) : n \in Ok
  <2>1. Len(s) \in Nat
      BY <1>1
  <2> QED
      BY <1>2, <1>3, <1>4, <2>1, Everywhere, Zenon
<1>7. Len(s) \in Ok /\ ~ (Len(s) > Len(s))
    BY <1>1, <1>6
<1> QED
    BY <1>1, <1>5, <1>7

-----------------------------------------------------------------------------
\* Pick goes over a list element by element.
LEMMA PickEmpty ==
    ASSUME NEW s, NEW at, Len(s) = 0
    PROVE  Pick(s, at) = <<>>
<1>1. 0 \in Nat
    OBVIOUS
<1>2. PICK f : Picks(f, s, at, 0) /\ Pick(s, at) = f[0]
    BY <1>1, PickDef
<1>3. f[0] = <<>>
    BY <1>2 DEF Picks
<1> QED
    BY <1>2, <1>3

\* Two lists that agree up to position m.
LEMMA PicksAgree ==
    ASSUME NEW s, NEW t, NEW at, NEW bt, NEW f, NEW g, NEW m \in Nat,
           Picks(f, s, at, m), Picks(g, t, bt, m + 1),
           \A i \in 1..m : s[i] = t[i] /\ (i \in at <=> i \in bt)
    PROVE  f[m] = g[m]
<1>1. \A n \in 0..m : f[n] = IF n = 0 THEN <<>>
                             ELSE IF n \in at THEN Append(f[n - 1], s[n])
                             ELSE f[n - 1]
    BY DEF Picks
<1>2. \A n \in 0..(m + 1) : g[n] = IF n = 0 THEN <<>>
                                   ELSE IF n \in bt THEN Append(g[n - 1], t[n])
                                   ELSE g[n - 1]
    BY DEF Picks
<1> DEFINE T == {n \in Nat : f[n] = g[n]}
<1>3. 0 \in T
    BY <1>1, <1>2
<1>4. ASSUME NEW n \in 1..m, n - 1 \in T
      PROVE  n \in T
  <2>1. n # 0 /\ n \in 0..m /\ n \in 0..(m + 1) /\ f[n - 1] = g[n - 1] /\ s[n] = t[n] /\ (n \in at <=> n \in bt)
      BY <1>4
  <2>2. f[n] = g[n]
      BY <1>1, <1>2, <2>1
  <2> QED
      BY <2>1, <2>2
<1>5. T \in SUBSET Nat
    OBVIOUS
<1> HIDE DEF T
<1>6. m \in T
  <2>1. \A n \in 0..m : n \in T
      BY <1>3, <1>4, <1>5, Everywhere, Zenon
  <2> QED
      BY <2>1
<1> QED
    BY <1>6 DEF T

LEMMA PickAppend ==
    ASSUME NEW S, NEW s \in Seq(S), NEW x \in S, NEW at, NEW bt,
           \A i \in 1..Len(s) : i \in at <=> i \in bt
    PROVE  /\ Len(s) + 1 \in bt => Pick(Append(s, x), bt) = Append(Pick(s, at), x)
           /\ Len(s) + 1 \notin bt => Pick(Append(s, x), bt) = Pick(s, at)
<1>1. PICK t : t = Append(s, x)
    OBVIOUS
<1>2. PICK m : m = Len(s)
    OBVIOUS
<1>3. m \in Nat /\ Len(t) = m + 1 /\ t[m + 1] = x /\ \A i \in 1..m : s[i] = t[i]
    BY <1>1, <1>2
<1>4. PICK f : Picks(f, s, at, m) /\ Pick(s, at) = f[m]
  <2>1. Len(s) \in Nat
      OBVIOUS
  <2> QED
      BY <1>2, <2>1, PickDef, Zenon
<1>5. PICK g : Picks(g, t, bt, m + 1) /\ Pick(t, bt) = g[m + 1]
  <2>1. Len(t) \in Nat
      BY <1>3
  <2>2. PICK g : Picks(g, t, bt, Len(t)) /\ Pick(t, bt) = g[Len(t)]
      BY <2>1, PickDef, Zenon
  <2> QED
      BY <1>3, <2>2
<1>6. \A i \in 1..m : s[i] = t[i] /\ (i \in at <=> i \in bt)
    BY <1>2, <1>3
<1>7. f[m] = g[m]
    BY <1>3, <1>4, <1>5, <1>6, PicksAgree
<1>8. /\ m + 1 \in bt => g[m + 1] = Append(g[m], t[m + 1])
      /\ m + 1 \notin bt => g[m + 1] = g[m]
  <2>1. m + 1 \in 0..(m + 1) /\ (m + 1) - 1 = m /\ m + 1 # 0
      BY <1>3
  <2> QED
      BY <1>5, <2>1 DEF Picks
<1> QED
    BY <1>1, <1>2, <1>3, <1>4, <1>5, <1>7, <1>8

LEMMA PickType ==
    ASSUME NEW S, NEW at
    PROVE  \A s \in Seq(S) : Pick(s, at) \in Seq(S)
<1> DEFINE T == {s \in Seq(S) : Pick(s, at) \in Seq(S)}
<1>1. <<>> \in T
  <2>1. Len(<<>>) = 0
      OBVIOUS
  <2>2. <<>> \in Seq(S)
      OBVIOUS
  <2>3. PICK e : e = <<>>
      OBVIOUS
  <2>4. Pick(e, at) = <<>>
      BY <2>1, <2>3, PickEmpty
  <2> QED
      BY <2>2, <2>3, <2>4
<1>2. ASSUME NEW s \in Seq(S), s \in T, NEW x \in S
      PROVE  Append(s, x) \in T
  <2>1. Append(s, x) \in Seq(S) /\ Append(Pick(s, at), x) \in Seq(S)
      BY <1>2
  <2> QED
      BY <1>2, <2>1, PickAppend
<1> HIDE DEF T
<1>3. \A s \in Seq(S) : s \in T
    BY <1>1, <1>2, ListByList
<1> QED
    BY <1>3 DEF T

-----------------------------------------------------------------------------
\* The lines that are not managed, and the ones kept, line by line.
LEMMA OthersAppend ==
    ASSUME NEW S, NEW s \in Seq(S), NEW x \in S
    PROVE  /\ IsManaged(x) => Others(Append(s, x)) = Others(s)
           /\ ~IsManaged(x) => Others(Append(s, x)) = Append(Others(s), x)
<1> DEFINE m == Len(s)
           at == {i \in DOMAIN s : ~IsManaged(s[i])}
           bt == {i \in DOMAIN Append(s, x) : ~IsManaged(Append(s, x)[i])}
<1>1. /\ m \in Nat /\ DOMAIN s = 1..m /\ DOMAIN Append(s, x) = 1..(m + 1)
      /\ Append(s, x)[m + 1] = x /\ \A i \in 1..m : Append(s, x)[i] = s[i]
    OBVIOUS
<1>2. \A i \in 1..m : i \in at <=> i \in bt
    BY <1>1
<1>3. m + 1 \in bt <=> ~IsManaged(x)
    BY <1>1
<1>4. Others(s) = Pick(s, at) /\ Others(Append(s, x)) = Pick(Append(s, x), bt)
    BY DEF Others
<1> HIDE DEF at, bt
<1> QED
    BY <1>2, <1>3, <1>4, PickAppend

LEMMA OthersEmpty == Others(<<>>) = <<>>
<1>1. PICK e : e = <<>>
    OBVIOUS
<1>2. Len(e) = 0
    BY <1>1
<1>3. Others(e) = <<>>
    BY <1>2, PickEmpty DEF Others
<1> QED
    BY <1>1, <1>3

LEMMA KeptAppend ==
    ASSUME NEW S, NEW s \in Seq(S), NEW x \in S
    PROVE  /\ IsManaged(x) /\ HasKey(s, x.key) => KeptLines(Append(s, x)) = KeptLines(s)
           /\ ~ (IsManaged(x) /\ HasKey(s, x.key)) => KeptLines(Append(s, x)) = Append(KeptLines(s), x)
<1> DEFINE m == Len(s)
           t == Append(s, x)
           at == {i \in DOMAIN s : ~IsManaged(s[i]) \/ FirstOfKey(s, i)}
           bt == {i \in DOMAIN t : ~IsManaged(t[i]) \/ FirstOfKey(t, i)}
<1>1. /\ m \in Nat /\ DOMAIN s = 1..m /\ DOMAIN t = 1..(m + 1)
      /\ t[m + 1] = x /\ \A i \in 1..m : t[i] = s[i]
    OBVIOUS
<1>2. KeptLines(s) = Pick(s, at) /\ KeptLines(t) = Pick(t, bt)
    BY DEF KeptLines
<1> HIDE DEF t
<1>3. ASSUME NEW i \in 1..m
      PROVE  FirstOfKey(s, i) <=> FirstOfKey(t, i)
  <2>1. \A j \in 1..(i - 1) : j \in 1..m
      BY <1>1
  <2> QED
      BY <1>1, <2>1 DEF FirstOfKey
<1>4. \A i \in 1..m : i \in at <=> i \in bt
    BY <1>1, <1>3
<1>5. FirstOfKey(t, m + 1) <=> ~HasKey(s, x.key)
  <2>1. 1..((m + 1) - 1) = 1..m
      BY <1>1
  <2> QED
      BY <1>1, <2>1 DEF FirstOfKey, HasKey
<1>6. m + 1 \in bt <=> ~ (IsManaged(x) /\ HasKey(s, x.key))
    BY <1>1, <1>5
<1> HIDE DEF at, bt
<1> QED
    BY <1>2, <1>4, <1>6, PickAppend DEF t

LEMMA KeptEmpty == KeptLines(<<>>) = <<>>
<1>1. PICK e : e = <<>>
    OBVIOUS
<1>2. Len(e) = 0
    BY <1>1
<1>3. KeptLines(e) = <<>>
    BY <1>2, PickEmpty DEF KeptLines
<1> QED
    BY <1>1, <1>3

\* What is dropped is managed.
LEMMA KeptOthers ==
    ASSUME NEW S
    PROVE  \A s \in Seq(S) : KeptLines(s) \in Seq(S) /\ Others(KeptLines(s)) = Others(s)
<1> DEFINE T == {s \in Seq(S) : KeptLines(s) \in Seq(S) /\ Others(KeptLines(s)) = Others(s)}
<1>1. <<>> \in T
  <2>1. <<>> \in Seq(S)
      OBVIOUS
  <2> QED
      BY <2>1, KeptEmpty
<1>2. ASSUME NEW s \in Seq(S), s \in T, NEW x \in S
      PROVE  Append(s, x) \in T
  <2>1. KeptLines(s) \in Seq(S) /\ Others(KeptLines(s)) = Others(s) /\ Append(s, x) \in Seq(S)
      BY <1>2
  <2>2. CASE IsManaged(x) /\ HasKey(s, x.key)
      BY <2>1, <2>2, KeptAppend, OthersAppend
  <2>3. CASE ~ (IsManaged(x) /\ HasKey(s, x.key))
    <3>1. KeptLines(Append(s, x)) = Append(KeptLines(s), x)
        BY <2>3, KeptAppend
    <3>2. Append(KeptLines(s), x) \in Seq(S)
        BY <2>1
    <3>3. Others(Append(KeptLines(s), x)) = Others(Append(s, x))
      <4>1. PICK k \in Seq(S) : k = KeptLines(s)
          BY <2>1
      <4>2. /\ IsManaged(x) => Others(Append(k, x)) = Others(k)
            /\ ~IsManaged(x) => Others(Append(k, x)) = Append(Others(k), x)
          BY OthersAppend
      <4>3. /\ IsManaged(x) => Others(Append(s, x)) = Others(s)
            /\ ~IsManaged(x) => Others(Append(s, x)) = Append(Others(s), x)
          BY OthersAppend
      <4> QED
          BY <2>1, <4>1, <4>2, <4>3
    <3> QED
        BY <2>1, <3>1, <3>2, <3>3
  <2> QED
      BY <2>2, <2>3
<1> HIDE DEF T
<1>3. \A s \in Seq(S) : s \in T
    BY <1>1, <1>2, ListByList
<1> QED
    BY <1>3 DEF T

\* Managed lines at the end do not count.
LEMMA OthersBefore ==
    ASSUME NEW S, NEW s \in Seq(S)
    PROVE  \A t \in Seq(S) : (\A i \in DOMAIN t : IsManaged(t[i])) => Others(s \o t) = Others(s)
<1> DEFINE T == {t \in Seq(S) : (\A i \in DOMAIN t : IsManaged(t[i])) => Others(s \o t) = Others(s)}
<1>1. <<>> \in T
  <2>1. <<>> \in Seq(S) /\ s \o <<>> = s
      OBVIOUS
  <2> QED
      BY <2>1
<1>2. ASSUME NEW t \in Seq(S), t \in T, NEW x \in S
      PROVE  Append(t, x) \in T
  <2>1. Append(t, x) \in Seq(S) /\ s \o t \in Seq(S)
      OBVIOUS
  <2>2. s \o Append(t, x) = Append(s \o t, x)
      OBVIOUS
  <2> SUFFICES ASSUME \A i \in DOMAIN Append(t, x) : IsManaged(Append(t, x)[i])
               PROVE  Others(s \o Append(t, x)) = Others(s)
      BY <2>1
  <2>3. /\ Len(t) + 1 \in DOMAIN Append(t, x) /\ Append(t, x)[Len(t) + 1] = x
        /\ \A i \in DOMAIN t : i \in DOMAIN Append(t, x) /\ Append(t, x)[i] = t[i]
      OBVIOUS
  <2>4. IsManaged(x) /\ \A i \in DOMAIN t : IsManaged(t[i])
      BY <2>3
  <2>5. Others(s \o t) = Others(s)
      BY <1>2, <2>4
  <2>6. PICK r \in Seq(S) : r = s \o t
      BY <2>1
  <2>7. Others(Append(r, x)) = Others(r)
      BY <2>4, OthersAppend
  <2> QED
      BY <2>2, <2>5, <2>6, <2>7
<1> HIDE DEF T
<1>3. \A t \in Seq(S) : t \in T
    BY <1>1, <1>2, ListByList
<1> QED
    BY <1>3 DEF T

-----------------------------------------------------------------------------
\* How often a key has a line.

OneLine(lines, key) ==
    \E i \in DOMAIN lines : lines[i].key = key /\ \A j \in DOMAIN lines : lines[j].key = key => j = i

LEMMA LinesAppend ==
    ASSUME NEW S, NEW s \in Seq(S), NEW x \in S, NEW key
    PROVE  /\ HasKey(Append(s, x), key) <=> HasKey(s, key) \/ x.key = key
           /\ OneLine(s, key) /\ x.key # key => OneLine(Append(s, x), key)
           /\ ~HasKey(s, key) /\ x.key = key => OneLine(Append(s, x), key)
<1> DEFINE m == Len(s)
           t == Append(s, x)
<1>1. /\ m \in Nat /\ DOMAIN s = 1..m /\ DOMAIN t = 1..(m + 1)
      /\ t[m + 1] = x /\ \A i \in 1..m : t[i] = s[i]
    OBVIOUS
<1>2. \A i \in 1..(m + 1) : i \in 1..m \/ i = m + 1
    BY <1>1
<1>3. \A i \in 1..m : i \in 1..(m + 1) /\ i # m + 1
    BY <1>1
<1>4. m + 1 \in 1..(m + 1)
    BY <1>1
<1> HIDE DEF t, m
<1>5. HasKey(t, key) <=> HasKey(s, key) \/ x.key = key
    BY <1>1, <1>2, <1>3, <1>4 DEF HasKey
<1>6. ASSUME OneLine(s, key), x.key # key PROVE OneLine(t, key)
  <2>1. PICK i \in 1..m : s[i].key = key /\ \A j \in 1..m : s[j].key = key => j = i
      BY <1>1, <1>6 DEF OneLine
  <2>2. t[i].key = key /\ \A j \in 1..(m + 1) : t[j].key = key => j = i
      BY <1>1, <1>2, <1>3, <1>6, <2>1
  <2> QED
      BY <1>1, <1>3, <2>2 DEF OneLine
<1>7. ASSUME ~HasKey(s, key), x.key = key PROVE OneLine(t, key)
  <2>1. t[m + 1].key = key /\ \A j \in 1..(m + 1) : t[j].key = key => j = m + 1
      BY <1>1, <1>2, <1>3, <1>7 DEF HasKey
  <2> QED
      BY <1>1, <1>4, <2>1 DEF OneLine
<1> QED
    BY <1>5, <1>6, <1>7 DEF t

LEMMA LinesConcat ==
    ASSUME NEW S, NEW s \in Seq(S), NEW t \in Seq(S), NEW key
    PROVE  /\ OneLine(s, key) /\ ~HasKey(t, key) => OneLine(s \o t, key)
           /\ ~HasKey(s, key) /\ OneLine(t, key) => OneLine(s \o t, key)
<1> DEFINE m == Len(s)
           n == Len(t)
           r == s \o t
<1>1. /\ m \in Nat /\ n \in Nat /\ DOMAIN s = 1..m /\ DOMAIN t = 1..n /\ DOMAIN r = 1..(m + n)
      /\ \A i \in 1..(m + n) : r[i] = IF i <= m THEN s[i] ELSE t[i - m]
    OBVIOUS
<1>2. \A i \in 1..(m + n) : i <= m => i \in 1..m
    BY <1>1
<1>3. \A i \in 1..(m + n) : ~ (i <= m) => i - m \in 1..n
    BY <1>1
<1> HIDE DEF m, n, r
<1>4. ASSUME OneLine(s, key), ~HasKey(t, key) PROVE OneLine(r, key)
  <2>1. PICK i \in 1..m : s[i].key = key /\ \A j \in 1..m : s[j].key = key => j = i
      BY <1>1, <1>4 DEF OneLine
  <2>2. ASSUME NEW j \in 1..(m + n) PROVE r[j].key = key <=> j = i
    <3>1. CASE j <= m
        BY <1>1, <1>2, <2>1, <3>1
    <3>2. CASE ~ (j <= m)
      <4>1. r[j] = t[j - m] /\ j - m \in 1..n
          BY <1>1, <1>3, <3>2
      <4>2. t[j - m].key # key
          BY <1>1, <1>4, <4>1 DEF HasKey
      <4>3. j # i
          BY <1>1, <2>1, <3>2
      <4> QED
          BY <4>1, <4>2, <4>3
    <3> QED
        BY <3>1, <3>2
  <2>3. i \in 1..(m + n)
      BY <1>1, <2>1
  <2>4. r[i].key = key /\ \A j \in 1..(m + n) : r[j].key = key => j = i
      BY <2>2, <2>3
  <2> QED
      BY <1>1, <2>3, <2>4 DEF OneLine
<1>5. ASSUME ~HasKey(s, key), OneLine(t, key) PROVE OneLine(r, key)
  <2>1. PICK i \in 1..n : t[i].key = key /\ \A j \in 1..n : t[j].key = key => j = i
      BY <1>1, <1>5 DEF OneLine
  <2>2. ASSUME NEW j \in 1..(m + n) PROVE r[j].key = key <=> j = m + i
    <3>1. CASE j <= m
      <4>1. r[j] = s[j] /\ j \in 1..m
          BY <1>1, <1>2, <3>1
      <4>2. s[j].key # key
          BY <1>1, <1>5, <4>1 DEF HasKey
      <4>3. j # m + i
          BY <1>1, <2>1, <3>1
      <4> QED
          BY <4>1, <4>2, <4>3
    <3>2. CASE ~ (j <= m)
      <4>1. r[j] = t[j - m] /\ j - m \in 1..n
          BY <1>1, <1>3, <3>2
      <4>2. t[j - m].key = key <=> j - m = i
          BY <2>1, <4>1
      <4> QED
          BY <1>1, <2>1, <4>1, <4>2
    <3> QED
        BY <3>1, <3>2
  <2>3. m + i \in 1..(m + n)
      BY <1>1, <2>1
  <2>4. r[m + i].key = key /\ \A j \in 1..(m + n) : r[j].key = key => j = m + i
      BY <2>2, <2>3
  <2> QED
      BY <1>1, <2>3, <2>4 DEF OneLine
<1> QED
    BY <1>4, <1>5 DEF r

\* A managed key that a file has is kept, and once.
LEMMA KeptOnce ==
    ASSUME NEW S, NEW key \in ToSet(Managed)
    PROVE  \A s \in Seq(S) : /\ HasKey(s, key) => OneLine(KeptLines(s), key)
                             /\ HasKey(KeptLines(s), key) => HasKey(s, key)
<1> DEFINE T == {s \in Seq(S) : /\ HasKey(s, key) => OneLine(KeptLines(s), key)
                                /\ HasKey(KeptLines(s), key) => HasKey(s, key)}
<1>1. <<>> \in T
  <2>1. <<>> \in Seq(S) /\ KeptLines(<<>>) = <<>>
      BY KeptEmpty
  <2>2. ~HasKey(<<>>, key)
      BY DEF HasKey
  <2> QED
      BY <2>1, <2>2
<1>2. ASSUME NEW s \in Seq(S), s \in T, NEW x \in S
      PROVE  Append(s, x) \in T
  <2>1. PICK k \in Seq(S) : k = KeptLines(s)
      BY KeptOthers
  <2>2. /\ HasKey(s, key) => OneLine(k, key)
        /\ HasKey(k, key) => HasKey(s, key)
      BY <1>2, <2>1
  <2>3. /\ IsManaged(x) /\ HasKey(s, x.key) => KeptLines(Append(s, x)) = k
        /\ ~ (IsManaged(x) /\ HasKey(s, x.key)) => KeptLines(Append(s, x)) = Append(k, x)
      BY <2>1, KeptAppend
  <2>4. /\ HasKey(Append(s, x), key) <=> HasKey(s, key) \/ x.key = key
        /\ HasKey(Append(k, x), key) <=> HasKey(k, key) \/ x.key = key
        /\ OneLine(k, key) /\ x.key # key => OneLine(Append(k, x), key)
        /\ ~HasKey(k, key) /\ x.key = key => OneLine(Append(k, x), key)
      BY LinesAppend
  <2>5. x.key = key => IsManaged(x)
      BY DEF IsManaged
  <2>6. Append(s, x) \in Seq(S)
      OBVIOUS
  <2>7. /\ HasKey(Append(s, x), key) => OneLine(KeptLines(Append(s, x)), key)
        /\ HasKey(KeptLines(Append(s, x)), key) => HasKey(Append(s, x), key)
    <3>1. CASE IsManaged(x) /\ HasKey(s, x.key)
        BY <2>2, <2>3, <2>4, <3>1
    <3>2. CASE ~ (IsManaged(x) /\ HasKey(s, x.key))
        BY <2>2, <2>3, <2>4, <2>5, <3>2
    <3> QED
        BY <3>1, <3>2
  <2> QED
      BY <2>6, <2>7
<1> HIDE DEF T
<1>3. \A s \in Seq(S) : s \in T
    BY <1>1, <1>2, ListByList
<1> QED
    BY <1>3 DEF T

-----------------------------------------------------------------------------
\* What a rewritten file holds.

Renewed(line, updates) ==
    IF IsManaged(line) THEN [key |-> line.key, value |-> updates[line.key]] ELSE line

LEMMA ManagedKeys ==
    /\ ToSet(Managed) = {ApiKey, ApiBase, Codex, Claude}
    /\ Managed \in Seq(ToSet(Managed)) /\ Len(Managed) = 4 /\ IsInjective(Managed)
    /\ ApiKey # ApiBase /\ ApiKey # Codex /\ ApiKey # Claude
    /\ ApiBase # Codex /\ ApiBase # Claude /\ Codex # Claude
<1>1. /\ ApiKey # ApiBase /\ ApiKey # Codex /\ ApiKey # Claude
      /\ ApiBase # Codex /\ ApiBase # Claude /\ Codex # Claude
  <2>1. ApiKey # ApiBase /\ ApiKey # Codex /\ ApiKey # Claude
      BY Zenon DEF ApiKey, ApiBase, Codex, Claude
  <2>2. ApiBase # Codex /\ ApiBase # Claude /\ Codex # Claude
      BY Zenon DEF ApiBase, Codex, Claude
  <2> QED
      BY <2>1, <2>2
<1>2. DOMAIN Managed = 1..4 /\ Len(Managed) = 4
    BY DEF Managed
<1>3. Managed \in Seq({ApiKey, ApiBase, Codex, Claude})
    BY DEF Managed
<1>4. Managed[1] = ApiKey /\ Managed[2] = ApiBase /\ Managed[3] = Codex /\ Managed[4] = Claude
    BY DEF Managed
<1>5. \A i \in 1..4 : i = 1 \/ i = 2 \/ i = 3 \/ i = 4
    OBVIOUS
<1>6. ToSet(Managed) = {ApiKey, ApiBase, Codex, Claude}
    BY <1>2, <1>4, <1>5 DEF ToSet
<1>7. IsInjective(Managed)
    BY <1>1, <1>2, <1>4, <1>5 DEF IsInjective
<1> QED
    BY <1>1, <1>2, <1>3, <1>6, <1>7

\* The keys at some positions of a list, and the lines they get.
Wanted(s, at, key) == \E n \in DOMAIN s : n \in at /\ s[n] = key
NewLine(key, updates) == [key |-> key, value |-> updates[key]]
NewLines(keys, updates) == [i \in DOMAIN keys |-> NewLine(keys[i], updates)]

LEMMA WantedAppend ==
    ASSUME NEW S, NEW s \in Seq(S), NEW x \in S, NEW at, NEW key
    PROVE  /\ Wanted(Append(s, x), at, key) <=> Wanted(s, at, key) \/ (Len(s) + 1 \in at /\ x = key)
           /\ IsInjective(Append(s, x)) => IsInjective(s) /\ (x = key => ~Wanted(s, at, key))
<1> DEFINE m == Len(s)
           t == Append(s, x)
<1>1. /\ m \in Nat /\ DOMAIN s = 1..m /\ DOMAIN t = 1..(m + 1)
      /\ t[m + 1] = x /\ \A i \in 1..m : t[i] = s[i]
    OBVIOUS
<1>2. \A i \in 1..(m + 1) : i \in 1..m \/ i = m + 1
    BY <1>1
<1>3. \A i \in 1..m : i \in 1..(m + 1) /\ i # m + 1
    BY <1>1
<1>4. m + 1 \in 1..(m + 1)
    BY <1>1
<1> HIDE DEF t, m
<1>5. Wanted(t, at, key) <=> Wanted(s, at, key) \/ (m + 1 \in at /\ x = key)
    BY <1>1, <1>2, <1>3, <1>4 DEF Wanted
<1>6. ASSUME IsInjective(t) PROVE IsInjective(s) /\ \A i \in 1..m : s[i] # x
    BY <1>1, <1>3, <1>4, <1>6 DEF IsInjective
<1>7. ASSUME \A i \in 1..m : s[i] # x PROVE x = key => ~Wanted(s, at, key)
    BY <1>1, <1>7 DEF Wanted
<1> QED
    BY <1>5, <1>6, <1>7 DEF t, m

LEMMA NewLinesAppend ==
    ASSUME NEW S, NEW s \in Seq(S), NEW x \in S, NEW updates
    PROVE  NewLines(Append(s, x), updates) = Append(NewLines(s, updates), NewLine(x, updates))
BY DEF NewLines

\* Each key that is wanted gets a line, once, and no other key does.
LEMMA NewLinesOnce ==
    ASSUME NEW S, NEW at, NEW updates, NEW key
    PROVE  \A s \in Seq(S) : LET b == NewLines(Pick(s, at), updates)
                             IN  /\ Wanted(s, at, key) /\ IsInjective(s) => OneLine(b, key)
                                 /\ HasKey(b, key) => Wanted(s, at, key)
<1> DEFINE B(s) == NewLines(Pick(s, at), updates)
           L == {NewLine(x, updates) : x \in S}
           T == {s \in Seq(S) : /\ Wanted(s, at, key) /\ IsInjective(s) => OneLine(B(s), key)
                                /\ HasKey(B(s), key) => Wanted(s, at, key)}
<1>0. \A s \in Seq(S) : B(s) \in Seq(L)
  <2> SUFFICES ASSUME NEW s \in Seq(S) PROVE B(s) \in Seq(L)
      OBVIOUS
  <2>1. PICK p \in Seq(S) : p = Pick(s, at)
      BY PickType
  <2>2. NewLines(p, updates) \in Seq(L)
      BY DEF NewLines
  <2> QED
      BY <2>1, <2>2
<1>1. <<>> \in T
  <2>1. PICK e : e = <<>>
      OBVIOUS
  <2>2. Len(e) = 0 /\ e \in Seq(S) /\ DOMAIN e = {}
      BY <2>1
  <2>3. Pick(e, at) = e
      BY <2>1, <2>2, PickEmpty
  <2>4. ~Wanted(e, at, key)
      BY <2>2 DEF Wanted
  <2>5. ~HasKey(NewLines(e, updates), key)
      BY <2>2 DEF HasKey, NewLines
  <2> QED
      BY <2>1, <2>2, <2>3, <2>4, <2>5
<1>2. ASSUME NEW s \in Seq(S), s \in T, NEW x \in S
      PROVE  Append(s, x) \in T
  <2>1. PICK p \in Seq(S) : p = Pick(s, at)
      BY PickType
  <2>2. PICK b \in Seq(L) : b = NewLines(p, updates)
      BY <1>0, <2>1
  <2>3. PICK y \in L : y = NewLine(x, updates)
      OBVIOUS
  <2>4. PICK t \in Seq(S) : t = Append(s, x)
    <3>1. Append(s, x) \in Seq(S)
        OBVIOUS
    <3> QED
        BY <3>1
  <2>5. /\ Len(s) + 1 \in at => B(t) = Append(b, y)
        /\ Len(s) + 1 \notin at => B(t) = b
    <3>1. /\ Len(s) + 1 \in at => Pick(t, at) = Append(p, x)
          /\ Len(s) + 1 \notin at => Pick(t, at) = p
        BY <2>1, <2>4, PickAppend
    <3>2. NewLines(Append(p, x), updates) = Append(b, y)
        BY <2>2, <2>3, NewLinesAppend
    <3> QED
        BY <2>2, <3>1, <3>2
  <2>6. y.key = x
      BY <2>3 DEF NewLine
  <2>7. /\ HasKey(Append(b, y), key) <=> HasKey(b, key) \/ x = key
        /\ OneLine(b, key) /\ x # key => OneLine(Append(b, y), key)
        /\ ~HasKey(b, key) /\ x = key => OneLine(Append(b, y), key)
      BY <2>6, LinesAppend
  <2>8. /\ Wanted(t, at, key) <=> Wanted(s, at, key) \/ (Len(s) + 1 \in at /\ x = key)
        /\ IsInjective(t) => IsInjective(s) /\ (x = key => ~Wanted(s, at, key))
      BY <2>4, WantedAppend
  <2>9. /\ Wanted(s, at, key) /\ IsInjective(s) => OneLine(b, key)
        /\ HasKey(b, key) => Wanted(s, at, key)
      BY <1>2, <2>1, <2>2
  <2>10. /\ Wanted(t, at, key) /\ IsInjective(t) => OneLine(B(t), key)
         /\ HasKey(B(t), key) => Wanted(t, at, key)
    <3> HIDE DEF B
    <3>1. CASE Len(s) + 1 \in at
        BY <2>5, <2>7, <2>8, <2>9, <3>1
    <3>2. CASE Len(s) + 1 \notin at
        BY <2>5, <2>8, <2>9, <3>2
    <3> QED
        BY <3>1, <3>2
  <2> QED
      BY <2>4, <2>10
<1> HIDE DEF T
<1>3. \A s \in Seq(S) : s \in T
    BY <1>1, <1>2, ListByList
<1> QED
    BY <1>3 DEF T

Updating == [ToSet(Managed) -> Values \ {Broken}]

RenewedLines(lines, updates) == [i \in DOMAIN lines |-> Renewed(lines[i], updates)]

LEMMA RewrittenParts ==
    ASSUME NEW lines, NEW updates
    PROVE  Rewritten(lines, updates) = RenewedLines(KeptLines(lines), updates) \o NewLines(Missing(lines), updates)
BY DEF Rewritten, RenewedLines, Renewed, NewLines, NewLine

LEMMA RenewedLine ==
    ASSUME NEW line \in Line, NEW updates \in Updating
    PROVE  /\ Renewed(line, updates) \in Line
           /\ Renewed(line, updates).key = line.key
           /\ IsManaged(Renewed(line, updates)) <=> IsManaged(line)
           /\ IsManaged(line) => Renewed(line, updates).value = updates[line.key]
           /\ ~IsManaged(line) => Renewed(line, updates) = line
<1>1. CASE line.key \in ToSet(Managed)
  <2>1. Renewed(line, updates) = [key |-> line.key, value |-> updates[line.key]]
      BY <1>1 DEF Renewed, IsManaged
  <2>2. updates[line.key] \in Values \ {Broken}
      BY <1>1 DEF Updating
  <2> QED
      BY <1>1, <2>1, <2>2 DEF IsManaged, Line
<1>2. CASE line.key \notin ToSet(Managed)
    BY <1>2 DEF Renewed, IsManaged
<1> QED
    BY <1>1, <1>2

LEMMA RenewedAsThey ==
    ASSUME NEW s \in Seq(Line), NEW updates \in Updating
    PROVE  LET r == RenewedLines(s, updates)
           IN  /\ r \in Seq(Line) /\ Len(r) = Len(s) /\ DOMAIN r = DOMAIN s
               /\ \A i \in DOMAIN s : r[i] = Renewed(s[i], updates) /\ r[i].key = s[i].key
<1>1. \A i \in DOMAIN s : s[i] \in Line
    OBVIOUS
<1>2. \A i \in DOMAIN s : Renewed(s[i], updates) \in Line /\ Renewed(s[i], updates).key = s[i].key
    BY <1>1, RenewedLine
<1> QED
    BY <1>2 DEF RenewedLines

LEMMA RenewedOthers ==
    ASSUME NEW updates \in Updating
    PROVE  \A s \in Seq(Line) : Others(RenewedLines(s, updates)) = Others(s)
<1> DEFINE T == {s \in Seq(Line) : Others(RenewedLines(s, updates)) = Others(s)}
<1>1. <<>> \in T
  <2>1. <<>> \in Seq(Line) /\ RenewedLines(<<>>, updates) = <<>>
      BY DEF RenewedLines
  <2> QED
      BY <2>1
<1>2. ASSUME NEW s \in Seq(Line), s \in T, NEW x \in Line
      PROVE  Append(s, x) \in T
  <2>1. PICK r \in Seq(Line) : r = RenewedLines(s, updates)
      BY RenewedAsThey
  <2>2. PICK y \in Line : y = Renewed(x, updates)
      BY RenewedLine
  <2>3. RenewedLines(Append(s, x), updates) = Append(r, y)
      BY <2>1, <2>2 DEF RenewedLines
  <2>4. /\ IsManaged(x) => Others(Append(s, x)) = Others(s)
        /\ ~IsManaged(x) => Others(Append(s, x)) = Append(Others(s), x)
      BY OthersAppend
  <2>5. /\ IsManaged(y) => Others(Append(r, y)) = Others(r)
        /\ ~IsManaged(y) => Others(Append(r, y)) = Append(Others(r), y)
      BY OthersAppend
  <2>6. (IsManaged(y) <=> IsManaged(x)) /\ (~IsManaged(x) => y = x)
      BY <2>2, RenewedLine
  <2>7. Others(r) = Others(s)
      BY <1>2, <2>1
  <2>8. Append(s, x) \in Seq(Line)
      OBVIOUS
  <2> QED
      BY <2>3, <2>4, <2>5, <2>6, <2>7, <2>8
<1> HIDE DEF T
<1>3. \A s \in Seq(Line) : s \in T
    BY <1>1, <1>2, ListByList
<1> QED
    BY <1>3 DEF T

LEMMA MissingLines ==
    ASSUME NEW lines, NEW updates \in Updating
    PROVE  LET b == NewLines(Missing(lines), updates)
           IN  /\ b \in Seq(Line)
               /\ \A i \in DOMAIN b : IsManaged(b[i]) /\ b[i].value = updates[b[i].key]
               /\ \A k \in ToSet(Managed) : /\ HasKey(lines, k) => ~HasKey(b, k)
                                            /\ ~HasKey(lines, k) => OneLine(b, k)
<1> DEFINE at == {n \in DOMAIN Managed : ~HasKey(lines, Managed[n])}
           p == Pick(Managed, at)
           b == NewLines(p, updates)
<1>1. Missing(lines) = p
    BY DEF Missing
<1>2. p \in Seq(ToSet(Managed))
    BY ManagedKeys, PickType
<1>3. ASSUME NEW k
      PROVE  /\ Wanted(Managed, at, k) /\ IsInjective(Managed) => OneLine(b, k)
             /\ HasKey(b, k) => Wanted(Managed, at, k)
    BY ManagedKeys, NewLinesOnce
<1>4. ASSUME NEW k \in ToSet(Managed)
      PROVE  Wanted(Managed, at, k) <=> ~HasKey(lines, k)
    BY DEF Wanted, ToSet
<1>5. \A i \in DOMAIN p : p[i] \in ToSet(Managed) /\ updates[p[i]] \in Values \ {Broken}
    BY <1>2 DEF Updating
<1> HIDE DEF p
<1>6. \A i \in DOMAIN p : NewLine(p[i], updates) \in Line
    BY <1>5 DEF NewLine, Line
<1>7. b \in Seq(Line) /\ DOMAIN b = DOMAIN p /\ \A i \in DOMAIN p : b[i] = NewLine(p[i], updates)
    BY <1>2, <1>6 DEF NewLines
<1>8. \A i \in DOMAIN b : IsManaged(b[i]) /\ b[i].value = updates[b[i].key]
  <2> SUFFICES ASSUME NEW i \in DOMAIN b
               PROVE  IsManaged(b[i]) /\ b[i].value = updates[b[i].key]
      OBVIOUS
  <2>1. b[i] = [key |-> p[i], value |-> updates[p[i]]] /\ p[i] \in ToSet(Managed)
      BY <1>5, <1>7 DEF NewLine
  <2> QED
      BY <2>1 DEF IsManaged
<1> HIDE DEF b, at
<1> QED
    BY <1>1, <1>3, <1>4, <1>7, <1>8, ManagedKeys DEF b

LEMMA RewrittenType ==
    ASSUME NEW lines \in Seq(Line), NEW updates \in Updating
    PROVE  /\ Rewritten(lines, updates) \in Seq(Line)
           /\ Others(Rewritten(lines, updates)) = Others(lines)
<1>1. PICK k \in Seq(Line) : k = KeptLines(lines) /\ Others(k) = Others(lines)
    BY KeptOthers
<1>2. PICK a \in Seq(Line) : a = RenewedLines(k, updates) /\ Others(a) = Others(k)
    BY RenewedAsThey, RenewedOthers
<1>3. PICK b \in Seq(Line) : b = NewLines(Missing(lines), updates) /\ \A i \in DOMAIN b : IsManaged(b[i])
    BY MissingLines
<1>4. Rewritten(lines, updates) = a \o b
    BY <1>1, <1>2, <1>3, RewrittenParts
<1>5. Others(a \o b) = Others(a)
    BY <1>3, OthersBefore
<1>6. a \o b \in Seq(Line)
    OBVIOUS
<1> QED
    BY <1>1, <1>2, <1>4, <1>5, <1>6

\* Each managed key stands in it once, with its new value.
LEMMA RewrittenOnce ==
    ASSUME NEW lines \in Seq(Line), NEW updates \in Updating, NEW key \in ToSet(Managed)
    PROVE  /\ OneLine(Rewritten(lines, updates), key)
           /\ \A i \in DOMAIN Rewritten(lines, updates) :
                 Rewritten(lines, updates)[i].key = key => Rewritten(lines, updates)[i].value = updates[key]
<1>1. PICK k \in Seq(Line) : k = KeptLines(lines)
    BY KeptOthers
<1>2. PICK a \in Seq(Line) : a = RenewedLines(k, updates)
    BY RenewedAsThey
<1>3. PICK b \in Seq(Line) : b = NewLines(Missing(lines), updates)
    BY MissingLines
<1>4. Rewritten(lines, updates) = a \o b
    BY <1>1, <1>2, <1>3, RewrittenParts
<1>5. /\ DOMAIN a = DOMAIN k
      /\ \A i \in DOMAIN k : a[i] = Renewed(k[i], updates) /\ a[i].key = k[i].key
    BY <1>2, RenewedAsThey
<1>6. /\ HasKey(lines, key) => OneLine(k, key)
      /\ HasKey(k, key) => HasKey(lines, key)
    BY <1>1, KeptOnce
<1>7. /\ HasKey(lines, key) => ~HasKey(b, key)
      /\ ~HasKey(lines, key) => OneLine(b, key)
    BY <1>3, MissingLines
<1>8. (HasKey(a, key) <=> HasKey(k, key)) /\ (OneLine(k, key) => OneLine(a, key))
    BY <1>5 DEF HasKey, OneLine
<1>9. OneLine(a \o b, key)
    BY <1>6, <1>7, <1>8, LinesConcat
<1>10. \A i \in DOMAIN a : a[i].key = key => a[i].value = updates[key]
  <2> SUFFICES ASSUME NEW i \in DOMAIN a, a[i].key = key
               PROVE  a[i].value = updates[key]
      OBVIOUS
  <2>1. k[i] \in Line /\ k[i].key = key /\ a[i] = Renewed(k[i], updates)
      BY <1>5
  <2>2. IsManaged(k[i])
      BY <2>1 DEF IsManaged
  <2> QED
      BY <2>1, <2>2, RenewedLine
<1>11. \A i \in DOMAIN b : b[i].key = key => b[i].value = updates[key]
    BY <1>3, MissingLines
<1>12. \A i \in DOMAIN (a \o b) : (a \o b)[i].key = key => (a \o b)[i].value = updates[key]
  <2> SUFFICES ASSUME NEW i \in DOMAIN (a \o b)
               PROVE  (a \o b)[i].key = key => (a \o b)[i].value = updates[key]
      OBVIOUS
  <2>1. CASE i <= Len(a)
    <3>1. (a \o b)[i] = a[i] /\ i \in DOMAIN a
        BY <2>1
    <3> QED
        BY <1>10, <3>1
  <2>2. CASE ~ (i <= Len(a))
    <3>1. (a \o b)[i] = b[i - Len(a)] /\ i - Len(a) \in DOMAIN b
        BY <2>2
    <3> QED
        BY <1>11, <3>1
  <2> QED
      BY <2>1, <2>2
<1> QED
    BY <1>4, <1>9, <1>12

-----------------------------------------------------------------------------
\* What readers find.

LEMMA LastPosition ==
    ASSUME NEW n \in Nat, NEW at \in SUBSET (1..n), at # {}
    PROVE  \E i \in at : \A j \in at : j <= i
<1> DEFINE T == {n - i : i \in at}
<1>1. T \in SUBSET Nat /\ T # {}
  <2>1. \A i \in at : n - i \in Nat
      OBVIOUS
  <2> QED
      BY <2>1
<1>2. PICK x \in T : \A y \in T : x <= y
    BY <1>1, LeastPosition
<1>3. PICK i \in at : x = n - i
    BY <1>2
<1>4. \A j \in at : n - i <= n - j
    BY <1>2, <1>3
<1> QED
    BY <1>4

\* The last line of a key.
LastOf(at) == CHOOSE i \in at : \A j \in at : j <= i

LEMMA ValueIs ==
    ASSUME NEW S, NEW s \in Seq(S), NEW key, NEW i \in DOMAIN s, s[i].key = key,
           \A j \in DOMAIN s : s[j].key = key => j <= i
    PROVE  Value(s, key) = s[i].value
<1> DEFINE at == {j \in DOMAIN s : s[j].key = key}
<1>1. DOMAIN s = 1..Len(s) /\ Len(s) \in Nat
    OBVIOUS
<1>2. i \in at /\ \A j \in at : j <= i
    OBVIOUS
<1>3. at \subseteq 1..Len(s)
    BY <1>1
<1>4. Value(s, key) = IF at = {} THEN "" ELSE s[LastOf(at)].value
    BY DEF Value, LastOf
<1> HIDE DEF at
<1>5. LastOf(at) = i
  <2>1. LastOf(at) \in at /\ \A j \in at : j <= LastOf(at)
      BY <1>2 DEF LastOf
  <2>2. i <= LastOf(at) /\ LastOf(at) <= i
      BY <1>2, <2>1
  <2>3. i \in Int /\ LastOf(at) \in Int
      BY <1>2, <1>3, <2>1
  <2> QED
      BY <2>2, <2>3
<1> QED
    BY <1>2, <1>4, <1>5

LEMMA ValueOfNone ==
    ASSUME NEW s, NEW key, ~HasKey(s, key)
    PROVE  Value(s, key) = ""
<1>1. {j \in DOMAIN s : s[j].key = key} = {}
    BY DEF HasKey
<1> QED
    BY <1>1 DEF Value

LEMMA HasLast ==
    ASSUME NEW S, NEW s \in Seq(S), NEW key, HasKey(s, key)
    PROVE  \E i \in DOMAIN s : s[i].key = key /\ \A j \in DOMAIN s : s[j].key = key => j <= i
<1> DEFINE at == {j \in DOMAIN s : s[j].key = key}
<1>1. DOMAIN s = 1..Len(s) /\ Len(s) \in Nat
    OBVIOUS
<1>2. at \in SUBSET (1..Len(s)) /\ at # {}
    BY <1>1 DEF HasKey
<1>3. PICK i \in at : \A j \in at : j <= i
    BY <1>1, <1>2, LastPosition
<1> QED
    BY <1>3

LEMMA ValueAppend ==
    ASSUME NEW S, NEW s \in Seq(S), NEW x \in S, NEW key
    PROVE  /\ x.key = key => Value(Append(s, x), key) = x.value
           /\ x.key # key => Value(Append(s, x), key) = Value(s, key)
<1> DEFINE m == Len(s)
<1>1. PICK t \in Seq(S) : t = Append(s, x)
  <2>1. Append(s, x) \in Seq(S)
      OBVIOUS
  <2> QED
      BY <2>1
<1>2. /\ m \in Nat /\ DOMAIN s = 1..m /\ DOMAIN t = 1..(m + 1)
      /\ t[m + 1] = x /\ \A i \in 1..m : t[i] = s[i]
    BY <1>1
<1> HIDE DEF m
<1>3. \A i \in 1..(m + 1) : i \in 1..m \/ i = m + 1
    BY <1>2
<1>4. ASSUME x.key = key PROVE Value(t, key) = x.value
  <2>1. m + 1 \in DOMAIN t /\ t[m + 1].key = key /\ \A j \in DOMAIN t : j <= m + 1
      BY <1>2, <1>4
  <2> QED
      BY <1>2, <2>1, ValueIs
<1>5. ASSUME x.key # key, HasKey(s, key) PROVE Value(t, key) = Value(s, key)
  <2>1. PICK i \in DOMAIN s : s[i].key = key /\ \A j \in DOMAIN s : s[j].key = key => j <= i
      BY <1>5, HasLast
  <2>2. Value(s, key) = s[i].value
      BY <2>1, ValueIs
  <2>3. i \in DOMAIN t /\ t[i] = s[i] /\ \A j \in DOMAIN t : t[j].key = key => j <= i
      BY <1>2, <1>3, <1>5, <2>1
  <2>4. Value(t, key) = t[i].value
      BY <2>1, <2>3, ValueIs
  <2> QED
      BY <2>2, <2>3, <2>4
<1>6. ASSUME x.key # key, ~HasKey(s, key) PROVE Value(t, key) = Value(s, key)
  <2>1. ~HasKey(t, key)
      BY <1>1, <1>6, LinesAppend
  <2> QED
      BY <1>6, <2>1, ValueOfNone
<1> QED
    BY <1>1, <1>4, <1>5, <1>6

\* The value of a key that is not managed does not depend on the managed lines.
LEMMA ValueOfOthers ==
    ASSUME NEW S, NEW key, key \notin ToSet(Managed)
    PROVE  \A s \in Seq(S) : Value(Others(s), key) = Value(s, key)
<1> DEFINE T == {s \in Seq(S) : Value(Others(s), key) = Value(s, key)}
<1>1. <<>> \in T
  <2>1. <<>> \in Seq(S) /\ Others(<<>>) = <<>>
      BY OthersEmpty
  <2> QED
      BY <2>1
<1>2. ASSUME NEW s \in Seq(S), s \in T, NEW x \in S
      PROVE  Append(s, x) \in T
  <2>1. PICK o \in Seq(S) : o = Others(s)
      BY PickType DEF Others
  <2>2. /\ IsManaged(x) => Others(Append(s, x)) = o
        /\ ~IsManaged(x) => Others(Append(s, x)) = Append(o, x)
      BY <2>1, OthersAppend
  <2>3. /\ x.key = key => Value(Append(s, x), key) = x.value
        /\ x.key # key => Value(Append(s, x), key) = Value(s, key)
      BY ValueAppend
  <2>4. /\ x.key = key => Value(Append(o, x), key) = x.value
        /\ x.key # key => Value(Append(o, x), key) = Value(o, key)
      BY ValueAppend
  <2>5. IsManaged(x) => x.key # key
      BY DEF IsManaged
  <2>6. Append(s, x) \in Seq(S) /\ Value(o, key) = Value(s, key)
      BY <1>2, <2>1
  <2> QED
      BY <2>2, <2>3, <2>4, <2>5, <2>6
<1> HIDE DEF T
<1>3. \A s \in Seq(S) : s \in T
    BY <1>1, <1>2, ListByList
<1> QED
    BY <1>3 DEF T

LEMMA ValueType ==
    ASSUME NEW s \in Seq(Line), NEW key
    PROVE  Value(s, key) \in Values \ {Broken}
<1>1. CASE HasKey(s, key)
  <2>1. PICK i \in DOMAIN s : s[i].key = key /\ \A j \in DOMAIN s : s[j].key = key => j <= i
      BY <1>1, HasLast
  <2>2. Value(s, key) = s[i].value
      BY <2>1, ValueIs
  <2>3. s[i] \in Line
      OBVIOUS
  <2> QED
      BY <2>2, <2>3 DEF Line
<1>2. CASE ~HasKey(s, key)
  <2>1. "" \in Values
      BY Zenon DEF Values
  <2>2. "" # Broken
      BY Zenon DEF Broken
  <2> QED
      BY <1>2, <2>1, <2>2, ValueOfNone
<1> QED
    BY <1>1, <1>2

LEMMA ValueRewritten ==
    ASSUME NEW lines \in Seq(Line), NEW updates \in Updating, NEW key \in ToSet(Managed)
    PROVE  Value(Rewritten(lines, updates), key) = updates[key]
<1>1. PICK r \in Seq(Line) : r = Rewritten(lines, updates)
    BY RewrittenType
<1>2. OneLine(r, key) /\ \A i \in DOMAIN r : r[i].key = key => r[i].value = updates[key]
    BY <1>1, RewrittenOnce
<1>3. PICK i \in DOMAIN r : r[i].key = key /\ \A j \in DOMAIN r : r[j].key = key => j = i
    BY <1>2 DEF OneLine
<1>4. \A j \in DOMAIN r : r[j].key = key => j <= i
    BY <1>3
<1>5. Value(r, key) = r[i].value
    BY <1>3, <1>4, ValueIs
<1> QED
    BY <1>1, <1>2, <1>3, <1>5

-----------------------------------------------------------------------------
\* The backend that updates turn on, and that a file turns on.

Fits(backend, updates) ==
    /\ updates[ApiKey] # "" <=> backend = "minimax"
    /\ updates[Codex] = IF backend = "codex" THEN "1" ELSE ""
    /\ updates[Claude] = IF backend = "claude-code" THEN "1" ELSE ""

Chosen(lines, backend) ==
    /\ backend \in Backends
    /\ On(lines) = {backend} /\ Detected(lines) = backend
    /\ Len(lines) >= Len(Managed)
    /\ \A k \in ToSet(Managed) : OneLine(lines, k)

LEMMA Words ==
    /\ "1" # "" /\ "key" # "" /\ "minimax" # "codex" /\ "minimax" # "claude-code" /\ "codex" # "claude-code"
    /\ "none" # "codex" /\ "none" # "claude-code" /\ "none" # "minimax"
    /\ {"", "1", "key"} \subseteq Values
<1>1. "1" # "" /\ "key" # "" /\ "minimax" # "codex" /\ "minimax" # "claude-code" /\ "codex" # "claude-code"
    BY Zenon
<1>2. "none" # "codex" /\ "none" # "claude-code" /\ "none" # "minimax"
    BY Zenon
<1> QED
    BY <1>1, <1>2 DEF Values

LEMMA UpdatesFit ==
    ASSUME NEW backend \in Backends, NEW key \in Values, key # "",
           NEW base \in Values \cup {NoBase}, NEW lines \in Seq(Line)
    PROVE  /\ Updates(backend, key, base, lines) \in [ToSet(Managed) -> Values]
           /\ Fits(backend, Updates(backend, key, base, lines))
<1> DEFINE u == Updates(backend, key, base, lines)
<1>1. /\ ApiKey \in ToSet(Managed) /\ ApiBase \in ToSet(Managed)
      /\ Codex \in ToSet(Managed) /\ Claude \in ToSet(Managed)
    BY ManagedKeys
<1>2. u[ApiKey] = IF backend = "minimax" THEN key ELSE ""
    BY <1>1, ManagedKeys DEF Updates
<1>3. u[Codex] = IF backend = "codex" THEN "1" ELSE ""
    BY <1>1, ManagedKeys DEF Updates
<1>4. u[Claude] = IF backend = "claude-code" THEN "1" ELSE ""
    BY <1>1, ManagedKeys DEF Updates
<1>5. u[ApiBase] = IF backend = "minimax" THEN IF base = NoBase THEN Value(lines, ApiBase) ELSE base
                   ELSE ""
    BY <1>1, ManagedKeys DEF Updates
<1>6. Value(lines, ApiBase) \in Values
    BY ValueType
<1>7. \A k \in ToSet(Managed) : u[k] \in Values
  <2> HIDE DEF u
  <2> QED
      BY <1>2, <1>3, <1>4, <1>5, <1>6, ManagedKeys, Words
<1>8. u \in [ToSet(Managed) -> Values]
    BY <1>7 DEF Updates
<1> HIDE DEF u
<1>9. Fits(backend, u)
    BY <1>2, <1>3, <1>4, Words DEF Fits
<1> QED
    BY <1>8, <1>9 DEF u

LEMMA RewrittenChosen ==
    ASSUME NEW backend \in Backends, NEW lines \in Seq(Line), NEW updates \in Updating,
           Fits(backend, updates)
    PROVE  Chosen(Rewritten(lines, updates), backend)
<1>1. PICK r \in Seq(Line) : r = Rewritten(lines, updates)
    BY RewrittenType
<1>2. /\ Value(r, ApiKey) = updates[ApiKey] /\ Value(r, Codex) = updates[Codex]
      /\ Value(r, Claude) = updates[Claude]
    BY <1>1, ManagedKeys, ValueRewritten
<1>3. \A k \in ToSet(Managed) : OneLine(r, k)
    BY <1>1, RewrittenOnce
<1>4. backend = "minimax" \/ backend = "codex" \/ backend = "claude-code"
    BY DEF Backends
<1>5. Detected(r) = backend
    BY <1>2, <1>4, Words DEF Fits, Detected
<1>6. On(r) = {backend}
  <2>1. \A b \in Backends : (Value(r, CASE b = "codex" -> Codex
                                        [] b = "claude-code" -> Claude
                                        [] OTHER -> ApiKey) # "") <=> b = backend
    <3>1. CASE backend = "minimax"
        BY <1>2, <3>1, Words DEF Fits, Backends
    <3>2. CASE backend = "codex"
        BY <1>2, <3>2, Words DEF Fits, Backends
    <3>3. CASE backend = "claude-code"
        BY <1>2, <3>3, Words DEF Fits, Backends
    <3> QED
        BY <1>4, <3>1, <3>2, <3>3
  <2>2. \A b : b \in On(r) <=> b = backend
      BY <2>1 DEF On
  <2> QED
      BY <2>2
<1>7. Len(r) >= Len(Managed)
  <2>1. DOMAIN r = 1..Len(r) /\ Len(r) \in Nat /\ Len(Managed) = 4
      BY ManagedKeys
  <2>2. \A k \in ToSet(Managed) : \E i \in 1..Len(r) : r[i].key = k
      BY <1>3, <2>1 DEF OneLine
  <2>3. PICK i \in 1..Len(r) : r[i].key = ApiKey
      BY <2>2, ManagedKeys
  <2>4. PICK j \in 1..Len(r) : r[j].key = ApiBase
      BY <2>2, ManagedKeys
  <2>5. PICK m \in 1..Len(r) : r[m].key = Codex
      BY <2>2, ManagedKeys
  <2>6. PICK n \in 1..Len(r) : r[n].key = Claude
      BY <2>2, ManagedKeys
  <2>7. i # j /\ i # m /\ i # n /\ j # m /\ j # n /\ m # n
      BY <2>3, <2>4, <2>5, <2>6, ManagedKeys
  <2> QED
      BY <2>1, <2>7
<1> QED
    BY <1>1, <1>3, <1>5, <1>6, <1>7 DEF Chosen

-----------------------------------------------------------------------------
\* The invariant.

SetupRecord ==
    [step : {"idle", "prompt", "reread", "truncate", "write", "done", "failed", "dead"},
     request : Request, first : Seq(Line), backend : Backends \cup {"none"},
     updates : {<<>>} \cup [ToSet(Managed) -> Values], lines : Seq(Line), output : Seq(Line)]

EnvTypes ==
    /\ file \in Seq(Line)
    /\ setup \in [Setups -> SetupRecord]
    /\ edits \in 0..MaxEdits
    /\ due \in Seq(Line) /\ spoilt \in BOOLEAN

\* What a setup has prepared is for the backend it was asked for, and leaves the other lines of
\* the file that it has read again.
Prepared ==
    \A p \in Setups :
        /\ At(p, "reread") =>
              /\ setup[p].backend \in Backends
              /\ setup[p].updates \in [ToSet(Managed) -> Values]
              /\ Fits(setup[p].backend, setup[p].updates)
        /\ At(p, "truncate") \/ At(p, "write") => Chosen(setup[p].output, setup[p].backend)
        /\ At(p, "truncate") => Others(setup[p].output) = Others(setup[p].lines)

\* While nothing is spoilt, one setup at most has the file open, and holds the lines of others.
OneWriter ==
    ~spoilt => \A p \in Setups : At(p, "write") =>
                  /\ file = <<>> /\ Others(setup[p].output) = due
                  /\ \A q \in Setups : At(q, "write") => q = p

EnvInv == EnvTypes /\ Prepared /\ OneWriter /\ NothingLost /\ SnapshotIsSound

LEMMA EnvInit == Init => EnvInv
<1> SUFFICES ASSUME Init
             PROVE  EnvInv
    OBVIOUS
<1>1. Idle \in SetupRecord
  <2>1. <<>> \in Seq(Line)
      OBVIOUS
  <2>2. [backend |-> "ask", key |-> "", base |-> NoBase] \in Request
      BY DEF Request
  <2> QED
      BY <2>1, <2>2 DEF Idle, SetupRecord
<1>2. EnvTypes
  <2>1. file \in Seq(Line) /\ spoilt \in BOOLEAN
      BY SetupParts, Zenon DEF Init
  <2>2. edits \in 0..MaxEdits
      BY SetupParts DEF Init
  <2>3. setup \in [Setups -> SetupRecord]
      BY <1>1 DEF Init
  <2>4. due \in Seq(Line)
      BY <2>1, PickType DEF Init, Others
  <2> QED
      BY <2>1, <2>2, <2>3, <2>4 DEF EnvTypes
<1>3. \A p \in Setups : setup[p].step = "idle"
    BY DEF Init, Idle
<1>4. Prepared /\ OneWriter
    BY <1>3 DEF Prepared, OneWriter, At
<1>5. NothingLost /\ SnapshotIsSound
    BY DEF Init, NothingLost, SnapshotIsSound
<1> QED
    BY <1>2, <1>4, <1>5 DEF EnvInv

\* A step of one setup that ends it.
LEMMA EndIs ==
    ASSUME EnvTypes, NEW p \in Setups, NEW how \in {"done", "failed", "dead"}, End(p, how)
    PROVE  /\ setup' \in [Setups -> SetupRecord]
           /\ setup'[p].step = how /\ \A q \in Setups : q # p => setup'[q] = setup[q]
<1>1. [Idle EXCEPT !.step = how] \in SetupRecord /\ [Idle EXCEPT !.step = how].step = how
  <2>1. <<>> \in Seq(Line)
      OBVIOUS
  <2>2. [backend |-> "ask", key |-> "", base |-> NoBase] \in Request
      BY DEF Request
  <2> QED
      BY <2>1, <2>2 DEF Idle, SetupRecord
<1> DEFINE r == [Idle EXCEPT !.step = how]
<1>2. setup' = [setup EXCEPT ![p] = r] /\ setup \in [Setups -> SetupRecord]
    BY DEF End, EnvTypes
<1> HIDE DEF r
<1>3. setup'[p] = r /\ \A q \in Setups : q # p => setup'[q] = setup[q]
    BY <1>2
<1> QED
    BY <1>1, <1>2, <1>3 DEF r

\* A step after which p is neither in its preparation nor in its write, and which leaves the
\* file as it is.
LEMMA EndKeeps ==
    ASSUME EnvInv, NEW p \in Setups, NEW how \in {"done", "failed", "dead"}, End(p, how),
           spoilt' = (spoilt \/ At(p, "write")), UNCHANGED <<file, edits, loaded, due>>
    PROVE  EnvInv'
<1>1. /\ setup' \in [Setups -> SetupRecord]
      /\ setup'[p].step = how /\ \A q \in Setups : q # p => setup'[q] = setup[q]
    BY EndIs DEF EnvInv
<1>2. EnvTypes'
    BY <1>1 DEF EnvInv, EnvTypes
<1>3. \A q \in Setups : At(q, "write")' => q # p /\ At(q, "write")
    BY <1>1 DEF At
<1>4. Prepared'
  <2> SUFFICES ASSUME NEW q \in Setups
               PROVE  /\ At(q, "reread")' =>
                            /\ setup'[q].backend \in Backends
                            /\ setup'[q].updates \in [ToSet(Managed) -> Values]
                            /\ Fits(setup'[q].backend, setup'[q].updates)
                      /\ At(q, "truncate")' \/ At(q, "write")' => Chosen(setup'[q].output, setup'[q].backend)
                      /\ At(q, "truncate")' => Others(setup'[q].output) = Others(setup'[q].lines)
      BY DEF Prepared
  <2>1. CASE q = p
      BY <1>1, <2>1 DEF At
  <2>2. CASE q # p
    <3>1. setup'[q] = setup[q]
        BY <1>1, <2>2
    <3> QED
        BY <3>1 DEF EnvInv, Prepared, At
  <2> QED
      BY <2>1, <2>2
<1>5. OneWriter'
    BY <1>1, <1>3 DEF EnvInv, OneWriter, At
<1>6. NothingLost'
    BY <1>1, <1>3 DEF EnvInv, NothingLost, At
<1>7. SnapshotIsSound'
    BY DEF EnvInv, SnapshotIsSound
<1> QED
    BY <1>2, <1>4, <1>5, <1>6, <1>7 DEF EnvInv

-----------------------------------------------------------------------------
\* Step by step.

\* A step of p that writes nothing and is not in its write, before or after.
LEMMA QuietKeeps ==
    ASSUME EnvInv, NEW p \in Setups, NEW r \in SetupRecord, setup' = [setup EXCEPT ![p] = r],
           ~At(p, "write"), r.step # "write",
           r.step = "reread" => /\ r.backend \in Backends
                                /\ r.updates \in [ToSet(Managed) -> Values]
                                /\ Fits(r.backend, r.updates),
           r.step = "truncate" => Chosen(r.output, r.backend) /\ Others(r.output) = Others(r.lines),
           UNCHANGED <<file, edits, loaded, due, spoilt>>
    PROVE  EnvInv'
<1>1. setup \in [Setups -> SetupRecord]
    BY DEF EnvInv, EnvTypes
<1>2. setup'[p] = r /\ \A q \in Setups : q # p => setup'[q] = setup[q]
    BY <1>1
<1>3. EnvTypes'
    BY <1>1 DEF EnvInv, EnvTypes
<1>4. \A q \in Setups : (At(q, "write")' <=> At(q, "write")) /\ (At(q, "write") => setup'[q] = setup[q])
    BY <1>2 DEF At
<1>5. Prepared'
  <2> SUFFICES ASSUME NEW q \in Setups
               PROVE  /\ At(q, "reread")' =>
                            /\ setup'[q].backend \in Backends
                            /\ setup'[q].updates \in [ToSet(Managed) -> Values]
                            /\ Fits(setup'[q].backend, setup'[q].updates)
                      /\ At(q, "truncate")' \/ At(q, "write")' => Chosen(setup'[q].output, setup'[q].backend)
                      /\ At(q, "truncate")' => Others(setup'[q].output) = Others(setup'[q].lines)
      BY DEF Prepared
  <2>1. CASE q = p
      BY <1>2, <2>1 DEF At
  <2>2. CASE q # p
    <3>1. setup'[q] = setup[q]
        BY <1>2, <2>2
    <3> QED
        BY <3>1 DEF EnvInv, Prepared, At
  <2> QED
      BY <2>1, <2>2
<1>6. OneWriter'
    BY <1>4 DEF EnvInv, OneWriter
<1>7. NothingLost'
    BY <1>4 DEF EnvInv, NothingLost
<1>8. SnapshotIsSound'
    BY DEF EnvInv, SnapshotIsSound
<1> QED
    BY <1>3, <1>5, <1>6, <1>7, <1>8 DEF EnvInv

LEMMA ReadValuesKeeps ==
    ASSUME EnvInv, NEW p \in Setups, ReadValues(p)
    PROVE  EnvInv'
<1>1. setup \in [Setups -> SetupRecord] /\ file \in Seq(Line) /\ setup[p] \in SetupRecord
    BY DEF EnvInv, EnvTypes
<1>2. PICK request \in Requests :
         setup' = [setup EXCEPT ![p].step = "prompt", ![p].request = request, ![p].first = file]
    BY DEF ReadValues
<1> DEFINE r == [setup[p] EXCEPT !.step = "prompt", !.request = request, !.first = file]
<1>3. setup' = [setup EXCEPT ![p] = r]
    BY <1>1, <1>2
<1>4. request \in Request
    BY SetupParts
<1>5. r \in SetupRecord /\ r.step = "prompt"
    BY <1>1, <1>4 DEF SetupRecord
<1>6. ~At(p, "write")
  <2>1. "idle" # "write"
      BY Zenon
  <2> QED
      BY <2>1 DEF ReadValues, At
<1>7. "prompt" # "write" /\ "prompt" # "reread" /\ "prompt" # "truncate"
    BY Zenon
<1>8. UNCHANGED <<file, edits, loaded, due, spoilt>>
    BY DEF ReadValues
<1> HIDE DEF r
<1> QED
    BY <1>3, <1>5, <1>6, <1>7, <1>8, QuietKeeps

LEMMA ChooseBackendKeeps ==
    ASSUME EnvInv, NEW p \in Setups, ChooseBackend(p)
    PROVE  EnvInv'
<1>1. setup \in [Setups -> SetupRecord] /\ setup[p] \in SetupRecord
    BY DEF EnvInv, EnvTypes
<1>2. /\ setup[p].first \in Seq(Line) /\ setup[p].request \in Request
      /\ setup[p].request.key \in {"", "other key", Broken}
      /\ setup[p].request.base \in Values \cup {NoBase}
      /\ setup[p].request.backend \in Backends \cup {"ask"}
    BY <1>1 DEF SetupRecord, Request
<1> DEFINE asked == setup[p].request
           known == IF asked.key # "" THEN asked.key ELSE Value(setup[p].first, ApiKey)
           key == IF known = "" THEN "key" ELSE known
<1>3. PICK backend \in IF asked.backend = "ask" THEN Backends ELSE {asked.backend} :
         setup' = [setup EXCEPT
             ![p].step = "reread", ![p].backend = backend, ![p].request = Idle.request,
             ![p].updates = Updates(backend, key, asked.base, setup[p].first)]
    BY DEF ChooseBackend
<1>4. backend \in Backends
    BY <1>2, <1>3
<1>5. key \in Values /\ key # ""
  <2>1. asked.key \in Values
      BY <1>2 DEF Values
  <2>2. Value(setup[p].first, ApiKey) \in Values
      BY <1>2, ValueType
  <2> QED
      BY <2>1, <2>2, Words
<1> HIDE DEF key
<1> DEFINE u == Updates(backend, key, asked.base, setup[p].first)
           r == [setup[p] EXCEPT !.step = "reread", !.backend = backend, !.request = Idle.request,
                                 !.updates = u]
<1>6. u \in [ToSet(Managed) -> Values] /\ Fits(backend, u)
    BY <1>2, <1>4, <1>5, UpdatesFit
<1>7. setup' = [setup EXCEPT ![p] = r]
    BY <1>1, <1>3
<1> HIDE DEF u
<1>8. Idle.request \in Request
    BY DEF Idle, Request
<1>9. r \in SetupRecord /\ r.step = "reread" /\ r.backend = backend /\ r.updates = u
    BY <1>1, <1>4, <1>6, <1>8 DEF SetupRecord
<1>10. ~At(p, "write")
  <2>1. "prompt" # "write"
      BY Zenon
  <2> QED
      BY <2>1 DEF ChooseBackend, At
<1>11. "reread" # "write" /\ "reread" # "truncate"
    BY Zenon
<1>12. UNCHANGED <<file, edits, loaded, due, spoilt>>
    BY DEF ChooseBackend
<1> HIDE DEF r
<1> QED
    BY <1>4, <1>6, <1>7, <1>9, <1>10, <1>11, <1>12, QuietKeeps

LEMMA RereadKeeps ==
    ASSUME EnvInv, NEW p \in Setups, Reread(p)
    PROVE  EnvInv'
<1>1. setup \in [Setups -> SetupRecord] /\ setup[p] \in SetupRecord /\ file \in Seq(Line)
    BY DEF EnvInv, EnvTypes
<1>2. At(p, "reread") /\ UNCHANGED <<file, edits, loaded, due, spoilt>>
    BY DEF Reread
<1>3. ~At(p, "write")
  <2>1. "reread" # "write"
      BY Zenon
  <2> QED
      BY <1>2, <2>1 DEF At
<1> DEFINE u == setup[p].updates
<1>4. CASE \E k \in ToSet(Managed) : u[k] = Broken
  <2>1. End(p, "failed")
      BY <1>4 DEF Reread
  <2>2. spoilt' = (spoilt \/ At(p, "write"))
      BY <1>2, <1>3 DEF EnvInv, EnvTypes
  <2> QED
      BY <1>2, <2>1, <2>2, EndKeeps
<1>5. CASE ~ \E k \in ToSet(Managed) : u[k] = Broken
  <2>1. /\ setup[p].backend \in Backends
        /\ u \in [ToSet(Managed) -> Values]
        /\ Fits(setup[p].backend, u)
      BY <1>2 DEF EnvInv, Prepared
  <2>2. u \in Updating
      BY <1>5, <2>1 DEF Updating
  <2> DEFINE out == Rewritten(file, u)
             r == [setup[p] EXCEPT !.step = "truncate", !.lines = file, !.output = out]
  <2>3. setup' = [setup EXCEPT ![p].step = "truncate", ![p].lines = file, ![p].output = out]
      BY <1>5 DEF Reread
  <2>4. setup' = [setup EXCEPT ![p] = r]
      BY <1>1, <2>3
  <2>5. out \in Seq(Line) /\ Others(out) = Others(file) /\ Chosen(out, setup[p].backend)
      BY <1>1, <2>1, <2>2, RewrittenType, RewrittenChosen
  <2> HIDE DEF out
  <2>6. /\ r \in SetupRecord /\ r.step = "truncate" /\ r.lines = file /\ r.output = out
        /\ r.backend = setup[p].backend
      BY <1>1, <2>5 DEF SetupRecord
  <2>7. "truncate" # "write" /\ "truncate" # "reread"
      BY Zenon
  <2> HIDE DEF r
  <2> QED
      BY <1>2, <1>3, <2>4, <2>5, <2>6, <2>7, QuietKeeps
<1> QED
    BY <1>4, <1>5

LEMMA TruncateKeeps ==
    ASSUME EnvInv, NEW p \in Setups, Truncate(p)
    PROVE  EnvInv'
<1>1. /\ setup \in [Setups -> SetupRecord] /\ setup[p] \in SetupRecord /\ spoilt \in BOOLEAN
      /\ edits \in 0..MaxEdits /\ due \in Seq(Line)
    BY DEF EnvInv, EnvTypes
<1>2. /\ At(p, "truncate") /\ file' = <<>> /\ UNCHANGED <<edits, loaded, due>>
      /\ spoilt' = (spoilt \/ file # setup[p].lines \/ \E q \in Setups : At(q, "write"))
      /\ setup' = [setup EXCEPT ![p].step = "write", ![p].lines = <<>>]
    BY DEF Truncate
<1> DEFINE r == [setup[p] EXCEPT !.step = "write", !.lines = <<>>]
<1>3. setup' = [setup EXCEPT ![p] = r]
    BY <1>1, <1>2
<1>4. <<>> \in Seq(Line)
    OBVIOUS
<1>5. /\ r \in SetupRecord /\ r.step = "write"
      /\ r.backend = setup[p].backend /\ r.output = setup[p].output
    BY <1>1, <1>4 DEF SetupRecord
<1> HIDE DEF r
<1>6. setup'[p] = r /\ \A q \in Setups : q # p => setup'[q] = setup[q]
    BY <1>1, <1>3
<1>7. EnvTypes'
  <2>1. setup' \in [Setups -> SetupRecord]
      BY <1>1, <1>3, <1>5
  <2>2. spoilt' \in BOOLEAN
      BY <1>2, Zenon
  <2> QED
      BY <1>1, <1>2, <1>4, <2>1, <2>2 DEF EnvTypes
<1>8. Chosen(setup[p].output, setup[p].backend) /\ Others(setup[p].output) = Others(setup[p].lines)
    BY <1>2 DEF EnvInv, Prepared
<1>9. "write" # "reread" /\ "write" # "truncate"
    BY Zenon
<1>10. Prepared'
  <2> SUFFICES ASSUME NEW q \in Setups
               PROVE  /\ At(q, "reread")' =>
                            /\ setup'[q].backend \in Backends
                            /\ setup'[q].updates \in [ToSet(Managed) -> Values]
                            /\ Fits(setup'[q].backend, setup'[q].updates)
                      /\ At(q, "truncate")' \/ At(q, "write")' => Chosen(setup'[q].output, setup'[q].backend)
                      /\ At(q, "truncate")' => Others(setup'[q].output) = Others(setup'[q].lines)
      BY DEF Prepared
  <2>1. CASE q = p
      BY <1>5, <1>6, <1>8, <1>9, <2>1 DEF At
  <2>2. CASE q # p
    <3>1. setup'[q] = setup[q]
        BY <1>6, <2>2
    <3> QED
        BY <3>1 DEF EnvInv, Prepared, At
  <2> QED
      BY <2>1, <2>2
<1>11. OneWriter'
  <2> SUFFICES ASSUME ~spoilt'
               PROVE  \A q \in Setups : At(q, "write")' =>
                         /\ file' = <<>> /\ Others(setup'[q].output) = due'
                         /\ \A o \in Setups : At(o, "write")' => o = q
      BY DEF OneWriter
  <2>1. ~spoilt /\ file = setup[p].lines /\ \A q \in Setups : ~At(q, "write")
      BY <1>2
  <2>2. Others(file) = due
      BY <2>1 DEF EnvInv, NothingLost
  <2>3. \A q \in Setups : At(q, "write")' => q = p
      BY <1>6, <2>1 DEF At
  <2>4. Others(setup'[p].output) = due'
      BY <1>2, <1>5, <1>6, <1>8, <2>1, <2>2
  <2> QED
      BY <1>2, <2>3, <2>4
<1>12. NothingLost'
    BY <1>5, <1>6 DEF NothingLost, At
<1>13. SnapshotIsSound'
    BY <1>2 DEF EnvInv, SnapshotIsSound
<1> QED
    BY <1>7, <1>10, <1>11, <1>12, <1>13 DEF EnvInv

LEMMA WriteKeeps ==
    ASSUME EnvInv, NEW p \in Setups, Write(p)
    PROVE  EnvInv'
<1>1. /\ At(p, "write") /\ file' = setup[p].output /\ End(p, "done")
      /\ UNCHANGED <<edits, loaded, due, spoilt>>
    BY DEF Write
<1>2. /\ setup' \in [Setups -> SetupRecord]
      /\ setup'[p].step = "done" /\ \A q \in Setups : q # p => setup'[q] = setup[q]
    BY <1>1, EndIs DEF EnvInv
<1>3. EnvTypes'
  <2>1. file' \in Seq(Line)
    <3>1. setup[p] \in SetupRecord
        BY DEF EnvInv, EnvTypes
    <3> QED
        BY <1>1, <3>1 DEF SetupRecord
  <2> QED
      BY <1>1, <1>2, <2>1 DEF EnvInv, EnvTypes
<1>4. Prepared'
  <2> SUFFICES ASSUME NEW q \in Setups
               PROVE  /\ At(q, "reread")' =>
                            /\ setup'[q].backend \in Backends
                            /\ setup'[q].updates \in [ToSet(Managed) -> Values]
                            /\ Fits(setup'[q].backend, setup'[q].updates)
                      /\ At(q, "truncate")' \/ At(q, "write")' => Chosen(setup'[q].output, setup'[q].backend)
                      /\ At(q, "truncate")' => Others(setup'[q].output) = Others(setup'[q].lines)
      BY DEF Prepared
  <2>1. CASE q = p
    <3>1. "done" # "reread" /\ "done" # "truncate" /\ "done" # "write"
        BY Zenon
    <3> QED
        BY <1>2, <2>1, <3>1 DEF At
  <2>2. CASE q # p
    <3>1. setup'[q] = setup[q]
        BY <1>2, <2>2
    <3> QED
        BY <3>1 DEF EnvInv, Prepared, At
  <2> QED
      BY <2>1, <2>2
<1>5. \A q \in Setups : At(q, "write")' => q # p /\ At(q, "write")
  <2>1. "done" # "write"
      BY Zenon
  <2> QED
      BY <1>2, <2>1 DEF At
<1>6. ASSUME ~spoilt
      PROVE  (\A q \in Setups : ~At(q, "write")') /\ Others(file') = due'
  <2>1. Others(setup[p].output) = due /\ \A q \in Setups : At(q, "write") => q = p
      BY <1>1, <1>6 DEF EnvInv, OneWriter
  <2> QED
      BY <1>1, <1>5, <2>1
<1>7. OneWriter' /\ NothingLost'
    BY <1>1, <1>6 DEF OneWriter, NothingLost
<1>8. SnapshotIsSound'
    BY <1>1 DEF EnvInv, SnapshotIsSound
<1> QED
    BY <1>3, <1>4, <1>7, <1>8 DEF EnvInv

LEMMA EditKeeps == EnvInv /\ Edit => EnvInv'
<1> SUFFICES ASSUME EnvInv, Edit
             PROVE  EnvInv'
    OBVIOUS
<1>1. PICK line \in [key : Required \cup {Codex}, value : {"1"}] :
         /\ file' = Append(file, line)
         /\ due' = IF IsManaged(line) THEN due ELSE Append(due, line)
    BY DEF Edit
<1>2. /\ edits < MaxEdits /\ edits' = edits + 1 /\ UNCHANGED <<setup, loaded>>
      /\ spoilt' = (spoilt \/ \E p \in Setups : At(p, "write"))
    BY DEF Edit
<1>3. line \in Line
  <2>1. line.key \in ToSet(Managed) \cup OtherKeys
      BY SetupParts, ManagedKeys
  <2>2. "1" # Broken
      BY Zenon DEF Broken
  <2>3. "1" \in Values
      BY Words
  <2> QED
      BY <2>1, <2>2, <2>3 DEF Line
<1>4. /\ file \in Seq(Line) /\ due \in Seq(Line) /\ edits \in 0..MaxEdits
      /\ setup \in [Setups -> SetupRecord]
    BY DEF EnvInv, EnvTypes
<1>5. EnvTypes'
  <2>1. file' \in Seq(Line)
      BY <1>1, <1>3, <1>4
  <2>2. due' \in Seq(Line)
      BY <1>1, <1>3, <1>4
  <2>3. edits' \in 0..MaxEdits
      BY <1>2, <1>4, SetupParts
  <2>4. spoilt' \in BOOLEAN
      BY <1>2, Zenon
  <2> QED
      BY <1>2, <1>4, <2>1, <2>2, <2>3, <2>4 DEF EnvTypes
<1>6. Prepared'
    BY <1>2 DEF EnvInv, Prepared, At
<1>7. ~spoilt' => ~spoilt /\ \A p \in Setups : ~At(p, "write")
    BY <1>2
<1>8. OneWriter'
    BY <1>2, <1>7 DEF OneWriter, At
<1>9. NothingLost'
  <2> SUFFICES ASSUME ~spoilt'
               PROVE  Others(file') = due'
      BY DEF NothingLost
  <2>1. Others(file) = due
      BY <1>7 DEF EnvInv, NothingLost
  <2>2. /\ IsManaged(line) => Others(Append(file, line)) = Others(file)
        /\ ~IsManaged(line) => Others(Append(file, line)) = Append(Others(file), line)
      BY <1>3, <1>4, OthersAppend
  <2> QED
      BY <1>1, <2>1, <2>2
<1>10. SnapshotIsSound'
    BY <1>2 DEF EnvInv, SnapshotIsSound
<1> QED
    BY <1>5, <1>6, <1>8, <1>9, <1>10 DEF EnvInv

LEMMA LoadKeeps == EnvInv /\ Load => EnvInv'
<1> SUFFICES ASSUME EnvInv, Load
             PROVE  EnvInv'
    OBVIOUS
<1> DEFINE whole == \A p \in Setups : ~At(p, "write")
<1>1. PICK environ \in Environs :
         loaded' = [done |-> TRUE, resolved |-> Resolves(file, environ), environ |-> environ,
                    whole |-> whole, due |-> due, spoilt |-> spoilt,
                    values |-> [k \in Required \cup Selected |-> Combined(file, environ, k)]]
    BY DEF Load
<1>2. UNCHANGED <<file, setup, edits, due, spoilt>>
    BY DEF Load
<1>3. EnvTypes' /\ Prepared' /\ OneWriter' /\ NothingLost'
    BY <1>2 DEF EnvInv, EnvTypes, Prepared, OneWriter, NothingLost, At
<1>4. /\ loaded'.resolved = Resolves(file, environ) /\ loaded'.environ = environ
      /\ (loaded'.whole <=> whole) /\ loaded'.due = due /\ loaded'.spoilt = spoilt
      /\ \A k \in Required \cup Selected : loaded'.values[k] = Combined(file, environ, k)
    BY <1>1
<1>5. ASSUME Resolves(file, environ), NEW k \in Required, k \notin DOMAIN environ
      PROVE  /\ whole /\ ~spoilt => Combined(file, environ, k) = Value(due, k)
             /\ whole \/ spoilt
  <2>1. ASSUME whole, ~spoilt PROVE Combined(file, environ, k) = Value(due, k)
    <3>1. Others(file) = due /\ file \in Seq(Line)
        BY <2>1 DEF EnvInv, EnvTypes, NothingLost
    <3>2. k \notin ToSet(Managed)
        BY SetupParts
    <3>3. Value(due, k) = Value(file, k)
        BY <3>1, <3>2, ValueOfOthers
    <3> QED
        BY <1>5, <3>3 DEF Combined
  <2>2. ASSUME ~whole, ~spoilt PROVE FALSE
    <3>1. file = <<>>
        BY <2>2 DEF EnvInv, OneWriter
    <3>2. HasKey(file, k)
        BY <1>5 DEF Resolves
    <3> QED
        BY <3>1, <3>2 DEF HasKey
  <2> QED
      BY <2>1, <2>2
<1> HIDE DEF whole
<1>6. SnapshotIsSound'
  <2> SUFFICES ASSUME loaded'.resolved
               PROVE  /\ \A k \in Selected : loaded'.values[k] # ""
                      /\ \A k \in Required : k \in DOMAIN loaded'.environ
                            \/ /\ loaded'.whole /\ ~loaded'.spoilt => loaded'.values[k] = Value(loaded'.due, k)
                               /\ loaded'.whole \/ loaded'.spoilt
                      /\ \A k \in DOMAIN loaded'.environ \cap (Required \cup Selected) :
                            loaded'.values[k] = loaded'.environ[k]
      BY DEF SnapshotIsSound
  <2>1. Resolves(file, environ)
      BY <1>4
  <2>2. \A k \in Selected : loaded'.values[k] # ""
      BY <1>4, <2>1 DEF Resolves
  <2>3. \A k \in Required : k \in DOMAIN environ
            \/ /\ whole /\ ~spoilt => Combined(file, environ, k) = Value(due, k)
               /\ whole \/ spoilt
      BY <1>5, <2>1
  <2>4. \A k \in DOMAIN environ : Combined(file, environ, k) = environ[k]
      BY DEF Combined
  <2> QED
      BY <1>4, <2>2, <2>3, <2>4
<1> QED
    BY <1>3, <1>6 DEF EnvInv

\* Each step keeps the invariant.
LEMMA EnvNext == EnvInv /\ [Next]_vars => EnvInv'
<1> SUFFICES ASSUME EnvInv, [Next]_vars
             PROVE  EnvInv'
    OBVIOUS
<1>1. ASSUME NEW p \in Setups, SetupStep(p)
      PROVE  EnvInv'
  <2>1. CASE ReadValues(p)
      BY <2>1, ReadValuesKeeps
  <2>2. CASE ChooseBackend(p)
      BY <2>2, ChooseBackendKeeps
  <2>3. CASE Refuse(p)
      BY <2>3, EndKeeps DEF Refuse
  <2>4. CASE Reread(p)
      BY <2>4, RereadKeeps
  <2>5. CASE Truncate(p)
      BY <2>5, TruncateKeeps
  <2>6. CASE Write(p)
      BY <2>6, WriteKeeps
  <2>7. CASE Kill(p)
      BY <2>7, EndKeeps DEF Kill
  <2> QED
      BY <1>1, <2>1, <2>2, <2>3, <2>4, <2>5, <2>6, <2>7 DEF SetupStep
<1>2. CASE Edit
    BY <1>2, EditKeeps
<1>3. CASE Load
    BY <1>3, LoadKeeps
<1>4. CASE UNCHANGED vars
    BY <1>4 DEF vars, EnvInv, EnvTypes, Prepared, OneWriter, NothingLost, SnapshotIsSound, At
<1> QED
    BY <1>1, <1>2, <1>3, <1>4 DEF Next, Over

-----------------------------------------------------------------------------
\* The invariant holds for any number of setups and edits (EnvSetup's actions).
THEOREM EnvInvariant == Spec => []EnvInv
    BY EnvInit, EnvNext, PTL DEF Spec

\* Every value has its type, and what is about to be written holds each managed key
\* (_write_env_values).
THEOREM EnvTypesHold == Spec => []EnvTypeOK
<1>1. EnvInv => EnvTypeOK
  <2> SUFFICES ASSUME EnvInv, NEW p \in Setups
               PROVE  /\ setup[p].step \in {"idle", "prompt", "reread", "truncate", "write", "done", "failed", "dead"}
                      /\ setup[p].backend \in Backends \cup {"none"}
                      /\ setup[p].lines \in Seq(Line) /\ setup[p].output \in Seq(Line)
                      /\ At(p, "write") => Len(setup[p].output) >= Len(Managed)
      BY DEF EnvInv, EnvTypes, EnvTypeOK
  <2>1. setup[p] \in SetupRecord
      BY DEF EnvInv, EnvTypes
  <2>2. At(p, "write") => Len(setup[p].output) >= Len(Managed)
      BY DEF EnvInv, Prepared, Chosen
  <2> QED
      BY <2>1, <2>2 DEF SetupRecord
<1> QED
    BY <1>1, EnvInvariant, PTL

\* The lines that are not setup's own are those that people left, whatever setups and edits
\* come between, unless one wrote over what it had not read (_write_env_values).
THEOREM NothingIsLost == Spec => []NothingLost
<1>1. EnvInv => NothingLost
    BY DEF EnvInv
<1> QED
    BY <1>1, EnvInvariant, PTL

\* A command that resolves has a value for each key it demands, and the right one
\* (_combined_env, resolve).
THEOREM SnapshotsAreSound == Spec => []SnapshotIsSound
<1>1. EnvInv => SnapshotIsSound
    BY DEF EnvInv
<1> QED
    BY <1>1, EnvInvariant, PTL

\* When a setup ends, the file turns on the backend it was asked for and no other
\* (_write_env_values, _detect_backend).
THEOREM BackendIsAsChosen == Spec => BackendAsChosen
<1> DEFINE Step == \A p \in Setups : At(p, "write") /\ At(p, "done")' =>
                      /\ On(file') = {setup[p].backend} /\ Detected(file') = setup[p].backend
                      /\ \A k \in ToSet(Managed) :
                            \E i \in DOMAIN file' : \A j \in DOMAIN file' : file'[j].key = k <=> j = i
<1>1. ASSUME EnvInv, Next, NEW p \in Setups, At(p, "write"), At(p, "done")'
      PROVE  file' = setup[p].output
  <2>1. setup \in [Setups -> SetupRecord] /\ EnvTypes
      BY <1>1 DEF EnvInv, EnvTypes
  <2>2. setup[p].step = "write" /\ setup'[p].step = "done" /\ setup'[p] # setup[p]
    <3>1. "write" # "done"
        BY Zenon
    <3> QED
        BY <1>1, <3>1 DEF At
  <2>3. ASSUME NEW q \in Setups, SetupStep(q), q # p
        PROVE  setup'[p] = setup[p]
    <3>1. CASE ReadValues(q)
        BY <2>1, <2>3, <3>1 DEF ReadValues
    <3>2. CASE ChooseBackend(q)
        BY <2>1, <2>3, <3>2 DEF ChooseBackend
    <3>3. CASE Refuse(q)
        BY <2>1, <2>3, <3>3 DEF Refuse, End
    <3>4. CASE Reread(q)
        BY <2>1, <2>3, <3>4 DEF Reread, End
    <3>5. CASE Truncate(q)
        BY <2>1, <2>3, <3>5 DEF Truncate
    <3>6. CASE Write(q)
        BY <2>1, <2>3, <3>6 DEF Write, End
    <3>7. CASE Kill(q)
        BY <2>1, <2>3, <3>7 DEF Kill, End
    <3> QED
        BY <2>3, <3>1, <3>2, <3>3, <3>4, <3>5, <3>6, <3>7 DEF SetupStep
  <2>4. SetupStep(p)
    <3>1. ~Edit /\ ~Load /\ ~Over
        BY <2>2 DEF Edit, Load, Over, vars
    <3> QED
        BY <1>1, <2>2, <2>3, <3>1 DEF Next
  <2>5. ~Refuse(p) /\ ~Kill(p)
    <3>1. "done" # "failed" /\ "done" # "dead"
        BY Zenon
    <3>2. Refuse(p) => setup'[p].step = "failed"
        BY <2>1, EndIs DEF Refuse
    <3>3. Kill(p) => setup'[p].step = "dead"
        BY <2>1, EndIs DEF Kill
    <3> QED
        BY <2>2, <3>1, <3>2, <3>3
  <2>6. ~ReadValues(p) /\ ~ChooseBackend(p) /\ ~Reread(p) /\ ~Truncate(p)
    <3>1. "write" # "idle" /\ "write" # "prompt" /\ "write" # "reread" /\ "write" # "truncate"
        BY Zenon
    <3> QED
        BY <2>2, <3>1 DEF ReadValues, ChooseBackend, Reread, Truncate, At
  <2>7. Write(p)
      BY <2>4, <2>5, <2>6 DEF SetupStep
  <2> QED
      BY <2>7 DEF Write
<1>2. EnvInv /\ [Next]_vars => [Step]_vars
  <2> SUFFICES ASSUME EnvInv, Next, NEW p \in Setups, At(p, "write"), At(p, "done")'
               PROVE  /\ On(file') = {setup[p].backend} /\ Detected(file') = setup[p].backend
                      /\ \A k \in ToSet(Managed) :
                            \E i \in DOMAIN file' : \A j \in DOMAIN file' : file'[j].key = k <=> j = i
      OBVIOUS
  <2>1. PICK f : f = setup[p].output
      OBVIOUS
  <2>2. file' = f
      BY <1>1, <2>1
  <2>3. Chosen(f, setup[p].backend)
      BY <2>1 DEF EnvInv, Prepared
  <2>4. \A k \in ToSet(Managed) : \E i \in DOMAIN f : \A j \in DOMAIN f : f[j].key = k <=> j = i
    <3> SUFFICES ASSUME NEW k \in ToSet(Managed)
                 PROVE  \E i \in DOMAIN f : \A j \in DOMAIN f : f[j].key = k <=> j = i
        OBVIOUS
    <3>1. PICK i \in DOMAIN f : f[i].key = k /\ \A j \in DOMAIN f : f[j].key = k => j = i
        BY <2>3 DEF Chosen, OneLine
    <3>2. \A j \in DOMAIN f : f[j].key = k <=> j = i
        BY <3>1
    <3> QED
        BY <3>2
  <2> QED
      BY <2>2, <2>3, <2>4 DEF Chosen
<1> QED
    BY <1>2, EnvInvariant, PTL DEF Spec, BackendAsChosen

=============================================================================
