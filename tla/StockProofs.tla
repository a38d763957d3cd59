---------------------------- MODULE StockProofs ----------------------------
(***************************************************************************)
(* Proofs about StockMoves for any moves, locations, chains, requests and  *)
(* bounds: the types, that processed moves stay as they are, that          *)
(* splitting keeps every demand, that the last move before another one     *)
(* releases it, and that a reservation takes no more than there is.        *)
(*                                                                         *)
(* Two invariants carry them.  Sound is about one request: between any two *)
(* of its calls it says what the rows are in relation to those of the      *)
(* snapshot (Data), and what the calls that are still to be made rely on   *)
(* (Agenda).  Every call preserves it (MakeSound), and with it every       *)
(* request (RunHealthy).  IInv is about the committed rows: a snapshot     *)
(* differs from them only in rows that the request missed (Saw), so that a *)
(* commit that serializes writes over rows it has read (CommitInv).        *)
(* Watched is about the request that processes one move: as long as the    *)
(* move after it waits, an open move before it is left, or is the one that *)
(* is still to be released (RunWatchful).  Reserving is about the request  *)
(* that reserves a picking: the pieces that were found for a move are      *)
(* available until the move takes the first of them; the copies that take  *)
(* the others are not counted before the end (RunCareful).                 *)
(***************************************************************************)
EXTENDS StockMoves, FiniteSetTheorems, WellFoundedInduction, TLAPS

-----------------------------------------------------------------------------
(* Sums over finite sets.                                                    *)

LEMMA NatSet == ASSUME NEW S, 0 \in S, \A n \in Nat : n \in S => n + 1 \in S PROVE Nat \subseteq S
  <1> DEFINE T == Nat \ S
             R == OpToRel(<, Nat)
  <1> SUFFICES ASSUME T # {} PROVE FALSE
    OBVIOUS
  <1>1. IsWellFoundedOn(R, Nat) BY NatLessThanWellFounded
  <1>2. PICK x \in T : \A y \in T : <<y, x>> \notin R
    <2> HIDE DEF R, T
    <2>1. T \subseteq Nat BY DEF T
    <2> QED BY <1>1, <2>1, WFMin
  <1>3. x # 0 /\ x - 1 \in Nat OBVIOUS
  <1>4. x - 1 \in T BY <1>3
  <1>5. <<x - 1, x>> \in R BY <1>3 DEF OpToRel
  <1> QED BY <1>2, <1>4, <1>5

\* A nonempty set of numbers has a least element.
LEMMA MinIn == ASSUME NEW S \in SUBSET Nat, S # {} PROVE Min(S) \in S
  <1> DEFINE R == OpToRel(<, Nat)
  <1>1. IsWellFoundedOn(R, Nat) BY NatLessThanWellFounded
  <1>2. PICK x \in S : \A y \in S : <<y, x>> \notin R
    <2> HIDE DEF R
    <2> QED BY <1>1, WFMin
  <1>3. ASSUME NEW y \in S, ~(x <= y) PROVE FALSE
    <2>1. x \in Nat /\ y \in Nat /\ y < x BY <1>3
    <2>2. <<y, x>> \in R BY <2>1 DEF OpToRel
    <2> QED BY <1>2, <2>2
  <1> QED BY <1>3 DEF Min

\* What MapThenSumSet sums up: an element of the set, and the rest.
Some(s) == CHOOSE x \in s : TRUE
Body(f, g, s) == IF s = {} THEN 0 ELSE f[Some(s)] + g[s \ {Some(s)}]
Iter(f, g, D) == g = [s \in D |-> Body(f, g, s)]
Small(S, n) == {s \in SUBSET S : Cardinality(s) <= n}

LEMMA Smaller ==
  ASSUME NEW S, IsFiniteSet(S), NEW n \in Nat, NEW s \in Small(S, n + 1), s # {}
  PROVE  /\ Some(s) \in s
         /\ s \ {Some(s)} \in Small(S, n)
  <1>1. IsFiniteSet(s) BY FS_Subset DEF Small
  <1>2. Some(s) \in s BY DEF Some
  <1>3. Cardinality(s \ {Some(s)}) = Cardinality(s) - 1
    BY <1>1, <1>2, FS_RemoveElement
  <1>4. Cardinality(s) \in Nat BY <1>1, FS_CardinalityType
  <1> QED BY <1>2, <1>3, <1>4 DEF Small

LEMMA SmallEmpty ==
  ASSUME NEW S, IsFiniteSet(S), NEW s \in Small(S, 0)
  PROVE  s = {}
  <1>1. IsFiniteSet(s) BY FS_Subset DEF Small
  <1> QED BY <1>1, FS_EmptySet, FS_CardinalityType DEF Small

LEMMA IterExists ==
  ASSUME NEW f, NEW S, IsFiniteSet(S)
  PROVE  \E g : Iter(f, g, SUBSET S)
  <1> DEFINE T == {n \in Nat : \E g : Iter(f, g, Small(S, n))}
  <1>1. 0 \in T
    <2> DEFINE g == [s \in Small(S, 0) |-> 0]
    <2>1. \A s \in Small(S, 0) : Body(f, g, s) = 0 BY SmallEmpty DEF Body
    <2>2. Iter(f, g, Small(S, 0)) BY <2>1 DEF Iter
    <2> QED BY <2>2
  <1>2. ASSUME NEW n \in Nat, n \in T PROVE n + 1 \in T
    <2>1. PICK g : Iter(f, g, Small(S, n)) BY <1>2
    <2> DEFINE h == [s \in Small(S, n + 1) |-> Body(f, g, s)]
    <2>2. Small(S, n) \subseteq Small(S, n + 1)
      <3> SUFFICES ASSUME NEW s \in Small(S, n) PROVE s \in Small(S, n + 1)
        OBVIOUS
      <3>1. IsFiniteSet(s) BY FS_Subset DEF Small
      <3> QED BY <3>1, FS_CardinalityType DEF Small
    <2>3. \A s \in Small(S, n) : h[s] = g[s]
      BY <2>1, <2>2 DEF Iter
    <2>4. \A s \in Small(S, n + 1) : Body(f, h, s) = Body(f, g, s)
      <3> SUFFICES ASSUME NEW s \in Small(S, n + 1) PROVE Body(f, h, s) = Body(f, g, s)
        OBVIOUS
      <3>1. CASE s = {} BY <3>1 DEF Body
      <3>2. CASE s # {}
        <4>1. h[s \ {Some(s)}] = g[s \ {Some(s)}] BY <2>3, <3>2, Smaller
        <4> HIDE DEF h
        <4> QED BY <3>2, <4>1 DEF Body
      <3> QED BY <3>1, <3>2
    <2>5. Iter(f, h, Small(S, n + 1)) BY <2>4 DEF Iter
    <2> QED BY <2>5
  <1>3. Cardinality(S) \in Nat BY FS_CardinalityType
  <1>4. Cardinality(S) \in T
    <2> HIDE DEF T
    <2> QED BY <1>1, <1>2, <1>3, NatSet
  <1>5. Small(S, Cardinality(S)) = SUBSET S
    BY FS_Subset DEF Small
  <1> QED BY <1>4, <1>5

LEMMA IterUnique ==
  ASSUME NEW f, NEW S, IsFiniteSet(S), NEW D1, NEW D2, S \in D1, S \in D2,
         SUBSET S \subseteq D1, SUBSET S \subseteq D2,
         NEW g1, NEW g2, Iter(f, g1, D1), Iter(f, g2, D2)
  PROVE  g1[S] = g2[S]
  <1> DEFINE T == {n \in Nat : \A s \in Small(S, n) : g1[s] = g2[s]}
  <1>0. \A s \in SUBSET S : g1[s] = Body(f, g1, s) /\ g2[s] = Body(f, g2, s)
    BY DEF Iter
  <1>1. 0 \in T
    BY <1>0, SmallEmpty DEF Body, Small
  <1>2. ASSUME NEW n \in Nat, n \in T PROVE n + 1 \in T
    <2> SUFFICES ASSUME NEW s \in Small(S, n + 1) PROVE g1[s] = g2[s]
      OBVIOUS
    <2>1. s \in SUBSET S BY DEF Small
    <2>2. CASE s = {} BY <1>0, <2>1, <2>2 DEF Body
    <2>3. CASE s # {}
      <3>1. s \ {Some(s)} \in Small(S, n) BY <2>3, Smaller
      <3>2. g1[s \ {Some(s)}] = g2[s \ {Some(s)}] BY <1>2, <3>1
      <3> QED BY <1>0, <2>1, <2>3, <3>2 DEF Body
    <2> QED BY <2>2, <2>3
  <1>3. Cardinality(S) \in Nat BY FS_CardinalityType
  <1>4. Cardinality(S) \in T
    <2> HIDE DEF T
    <2> QED BY <1>1, <1>2, <1>3, NatSet
  <1> QED BY <1>3, <1>4 DEF Small

LEMMA SumIter ==
  ASSUME NEW f, NEW S, IsFiniteSet(S)
  PROVE  \E g : Iter(f, g, SUBSET S) /\ Sum(f, S) = g[S]
  <1>1. Sum(f, S) = (CHOOSE g : Iter(f, g, SUBSET S))[S]
    BY DEF Sum, MapThenSumSet, MapThenFoldSet, Iter, Body, Some
  <1> QED BY <1>1, IterExists

LEMMA SumEmpty == ASSUME NEW f PROVE Sum(f, {}) = 0
  <1>1. IsFiniteSet({}) BY FS_EmptySet
  <1>2. PICK g : Iter(f, g, SUBSET {}) /\ Sum(f, {}) = g[{}] BY <1>1, SumIter
  <1>3. g[{}] = Body(f, g, {}) BY <1>2 DEF Iter
  <1> QED BY <1>2, <1>3 DEF Body

LEMMA SumChosen ==
  ASSUME NEW f, NEW S, IsFiniteSet(S), S # {}
  PROVE  /\ Some(S) \in S
         /\ Sum(f, S) = f[Some(S)] + Sum(f, S \ {Some(S)})
  <1> DEFINE U == S \ {Some(S)}
  <1>1. Some(S) \in S BY DEF Some
  <1>2. IsFiniteSet(U) BY FS_Subset
  <1>3. PICK g : Iter(f, g, SUBSET S) /\ Sum(f, S) = g[S] BY SumIter
  <1>4. PICK h : Iter(f, h, SUBSET U) /\ Sum(f, U) = h[U] BY <1>2, SumIter
  <1>5. g[U] = h[U]
    <2>1. SUBSET U \subseteq SUBSET S /\ U \in SUBSET S /\ U \in SUBSET U OBVIOUS
    <2> HIDE DEF U
    <2> QED BY <1>2, <1>3, <1>4, <2>1, IterUnique
  <1>6. g[S] = Body(f, g, S) BY <1>3 DEF Iter
  <1>7. Body(f, g, S) = f[Some(S)] + g[U] BY DEF Body
  <1> QED BY <1>1, <1>3, <1>4, <1>5, <1>6, <1>7

\* A sum of integers is an integer.
LEMMA SumType ==
  ASSUME NEW f, NEW S, IsFiniteSet(S), \A x \in S : f[x] \in Int
  PROVE  Sum(f, S) \in Int
  <1> DEFINE T == {n \in Nat : \A s \in Small(S, n) : Sum(f, s) \in Int}
  <1>1. 0 \in T
    <2> SUFFICES ASSUME NEW s \in Small(S, 0) PROVE Sum(f, s) \in Int
      OBVIOUS
    <2>1. s = {} BY SmallEmpty
    <2> QED BY <2>1, SumEmpty
  <1>2. ASSUME NEW n \in Nat, n \in T PROVE n + 1 \in T
    <2> SUFFICES ASSUME NEW s \in Small(S, n + 1) PROVE Sum(f, s) \in Int
      OBVIOUS
    <2>1. CASE s = {} BY <2>1, SumEmpty
    <2>2. CASE s # {}
      <3>1. IsFiniteSet(s) /\ s \subseteq S BY FS_Subset DEF Small
      <3>2. Sum(f, s \ {Some(s)}) \in Int BY <1>2, <2>2, Smaller
      <3>3. Some(s) \in s /\ Sum(f, s) = f[Some(s)] + Sum(f, s \ {Some(s)}) BY <2>2, <3>1, SumChosen
      <3>4. f[Some(s)] \in Int BY <3>1, <3>3
      <3> QED BY <3>2, <3>3, <3>4
    <2> QED BY <2>1, <2>2
  <1>3. Cardinality(S) \in Nat BY FS_CardinalityType
  <1>4. Cardinality(S) \in T
    <2> HIDE DEF T
    <2> QED BY <1>1, <1>2, <1>3, NatSet
  <1> QED BY <1>3, <1>4 DEF Small

\* Any element may be taken out of a sum.
LEMMA SumRemove ==
  ASSUME NEW f, NEW S, IsFiniteSet(S), \A x \in S : f[x] \in Int, NEW a \in S
  PROVE  Sum(f, S) = f[a] + Sum(f, S \ {a})
  <1> DEFINE T == {n \in Nat : \A s \in Small(S, n) : \A y \in s : Sum(f, s) = f[y] + Sum(f, s \ {y})}
  <1>1. 0 \in T BY SmallEmpty
  <1>2. ASSUME NEW n \in Nat, n \in T PROVE n + 1 \in T
    <2> SUFFICES ASSUME NEW s \in Small(S, n + 1), NEW y \in s PROVE Sum(f, s) = f[y] + Sum(f, s \ {y})
      OBVIOUS
    <2> DEFINE x == Some(s)
               u == s \ {x}
               v == s \ {y}
    <2>1. IsFiniteSet(s) /\ s \subseteq S BY FS_Subset DEF Small
    <2>2. x \in s /\ Sum(f, s) = f[x] + Sum(f, u) BY <2>1, SumChosen
    <2>3. u \in Small(S, n) BY Smaller
    <2>4. v \in Small(S, n)
      <3>1. Cardinality(v) = Cardinality(s) - 1 /\ Cardinality(s) \in Nat BY <2>1, FS_RemoveElement, FS_CardinalityType
      <3> QED BY <2>1, <3>1 DEF Small
    <2>5. CASE x = y BY <2>2, <2>5
    <2>6. CASE x # y
      <3>1. y \in u /\ x \in v /\ u \ {y} = v \ {x} BY <2>2, <2>6
      <3>2. Sum(f, u) = f[y] + Sum(f, u \ {y})  BY <1>2, <2>3, <3>1
      <3>3. Sum(f, v) = f[x] + Sum(f, v \ {x})  BY <1>2, <2>4, <3>1
      <3>4. f[x] \in Int /\ f[y] \in Int BY <2>1, <2>2
      <3>5. Sum(f, u \ {y}) \in Int
        <4>1. IsFiniteSet(u \ {y}) /\ u \ {y} \subseteq S BY <2>1, FS_Subset
        <4> QED BY <4>1, SumType
      <3>6. Sum(f, v) = f[x] + Sum(f, u \ {y}) BY <3>1, <3>3
      <3>7. Sum(f, s) = f[x] + (f[y] + Sum(f, u \ {y})) BY <2>2, <3>2
      <3>8. \A i, j, k \in Int : i + (j + k) = j + (i + k) OBVIOUS
      <3> QED BY <3>4, <3>5, <3>6, <3>7, <3>8
    <2> QED BY <2>5, <2>6
  <1>3. Cardinality(S) \in Nat BY FS_CardinalityType
  <1>4. Cardinality(S) \in T
    <2> HIDE DEF T
    <2> QED BY <1>1, <1>2, <1>3, NatSet
  <1> QED BY <1>3, <1>4 DEF Small

\* Functions that agree on a set have the same sum over it; and sums add up
\* pointwise.
LEMMA SumAdd ==
  ASSUME NEW f, NEW g, NEW h, NEW S, IsFiniteSet(S),
         \A x \in S : f[x] \in Int /\ g[x] \in Int /\ h[x] = f[x] + g[x]
  PROVE  Sum(h, S) = Sum(f, S) + Sum(g, S)
  <1> DEFINE T == {n \in Nat : \A s \in Small(S, n) : Sum(h, s) = Sum(f, s) + Sum(g, s)}
  <1>1. 0 \in T
    <2> SUFFICES ASSUME NEW s \in Small(S, 0) PROVE Sum(h, s) = Sum(f, s) + Sum(g, s)
      OBVIOUS
    <2>1. s = {} BY SmallEmpty
    <2> QED BY <2>1, SumEmpty
  <1>2. ASSUME NEW n \in Nat, n \in T PROVE n + 1 \in T
    <2> SUFFICES ASSUME NEW s \in Small(S, n + 1) PROVE Sum(h, s) = Sum(f, s) + Sum(g, s)
      OBVIOUS
    <2>1. CASE s = {} BY <2>1, SumEmpty
    <2>2. CASE s # {}
      <3> DEFINE x == Some(s)
                 u == s \ {x}
      <3>1. IsFiniteSet(s) /\ s \subseteq S BY FS_Subset DEF Small
      <3>2. x \in s /\ u \in Small(S, n) BY <2>2, Smaller
      <3>3. Sum(h, u) = Sum(f, u) + Sum(g, u) BY <1>2, <3>2
      <3>4. Sum(f, s) = f[x] + Sum(f, u) BY <2>2, <3>1, SumChosen
      <3>5. Sum(g, s) = g[x] + Sum(g, u) BY <2>2, <3>1, SumChosen
      <3>6. Sum(h, s) = h[x] + Sum(h, u) BY <2>2, <3>1, SumChosen
      <3>7. IsFiniteSet(u) /\ u \subseteq S BY <3>1, FS_Subset
      <3>8. Sum(f, u) \in Int /\ Sum(g, u) \in Int BY <3>7, SumType
      <3>9. f[x] \in Int /\ g[x] \in Int /\ h[x] = f[x] + g[x] BY <3>1, <3>2
      <3> HIDE DEF x, u
      <3> QED BY <3>3, <3>4, <3>5, <3>6, <3>8, <3>9
    <2> QED BY <2>1, <2>2
  <1>3. Cardinality(S) \in Nat BY FS_CardinalityType
  <1>4. Cardinality(S) \in T
    <2> HIDE DEF T
    <2> QED BY <1>1, <1>2, <1>3, NatSet
  <1> QED BY <1>3, <1>4 DEF Small

LEMMA SumZero ==
  ASSUME NEW f, NEW S, IsFiniteSet(S), \A x \in S : f[x] = 0
  PROVE  Sum(f, S) = 0
  <1>1. Sum(f, S) = Sum(f, S) + Sum(f, S) BY SumAdd
  <1>2. Sum(f, S) \in Int BY SumType
  <1>3. ASSUME NEW a \in Int, a = a + a PROVE a = 0 BY <1>3
  <1> QED BY <1>1, <1>2, <1>3

LEMMA SumSame ==
  ASSUME NEW f, NEW g, NEW S, IsFiniteSet(S), \A x \in S : f[x] \in Int /\ f[x] = g[x]
  PROVE  Sum(f, S) = Sum(g, S)
  <1> DEFINE z == [x \in S |-> 0]
  <1>1. Sum(z, S) = 0 BY SumZero
  <1>2. Sum(g, S) = Sum(f, S) + Sum(z, S)
    <2>1. \A x \in S : f[x] \in Int /\ z[x] \in Int /\ g[x] = f[x] + z[x] OBVIOUS
    <2> HIDE DEF z
    <2> QED BY <2>1, SumAdd
  <1>3. Sum(f, S) \in Int BY SumType
  <1> QED BY <1>1, <1>2, <1>3

\* Only the elements that are not zero count.
LEMMA SumSupport ==
  ASSUME NEW f, NEW S, NEW U \in SUBSET S, IsFiniteSet(S), \A x \in S : f[x] \in Int,
         \A x \in S \ U : f[x] = 0
  PROVE  Sum(f, S) = Sum(f, U)
  <1> DEFINE T == {n \in Nat : \A s \in Small(S, n) : Sum(f, s) = Sum(f, s \cap U)}
  <1>1. 0 \in T BY SmallEmpty
  <1>2. ASSUME NEW n \in Nat, n \in T PROVE n + 1 \in T
    <2> SUFFICES ASSUME NEW s \in Small(S, n + 1) PROVE Sum(f, s) = Sum(f, s \cap U)
      OBVIOUS
    <2>1. CASE s = {} BY <2>1
    <2>2. CASE s # {}
      <3> DEFINE x == Some(s)
                 u == s \ {x}
      <3>1. IsFiniteSet(s) /\ s \subseteq S BY FS_Subset DEF Small
      <3>2. x \in s /\ u \in Small(S, n) BY <2>2, Smaller
      <3>3. Sum(f, u) = Sum(f, u \cap U) BY <1>2, <3>2
      <3>4. Sum(f, s) = f[x] + Sum(f, u) BY <2>2, <3>1, SumChosen
      <3>5. CASE x \in U
        <4>1. IsFiniteSet(s \cap U) /\ x \in s \cap U /\ s \cap U \subseteq S BY <3>1, <3>2, <3>5, FS_Subset
        <4>2. (s \cap U) \ {x} = u \cap U BY <3>2
        <4>3. Sum(f, s \cap U) = f[x] + Sum(f, (s \cap U) \ {x}) BY <4>1, SumRemove
        <4> QED BY <3>3, <3>4, <4>2, <4>3
      <3>6. CASE x \notin U
        <4>1. s \cap U = u \cap U BY <3>6
        <4>2. f[x] = 0 BY <3>1, <3>2, <3>6
        <4>3. Sum(f, u) \in Int
          <5>1. IsFiniteSet(u) /\ u \subseteq S BY <3>1, FS_Subset
          <5> QED BY <5>1, SumType
        <4>4. Sum(f, s) = 0 + Sum(f, u) BY <3>4, <4>2
        <4>5. Sum(f, s) = Sum(f, u) BY <4>3, <4>4
        <4> QED BY <3>3, <4>1, <4>5
      <3> QED BY <3>5, <3>6
    <2> QED BY <2>1, <2>2
  <1>3. Cardinality(S) \in Nat BY FS_CardinalityType
  <1>4. Cardinality(S) \in T
    <2> HIDE DEF T
    <2> QED BY <1>1, <1>2, <1>3, NatSet
  <1>5. Sum(f, S) = Sum(f, S \cap U) BY <1>3, <1>4 DEF Small
  <1>6. S \cap U = U OBVIOUS
  <1> QED BY <1>5, <1>6

LEMMA SumNat ==
  ASSUME NEW f, NEW S, IsFiniteSet(S), \A x \in S : f[x] \in Nat
  PROVE  Sum(f, S) \in Nat
  <1> DEFINE T == {n \in Nat : \A s \in Small(S, n) : Sum(f, s) \in Nat}
  <1>1. 0 \in T
    <2> SUFFICES ASSUME NEW s \in Small(S, 0) PROVE Sum(f, s) \in Nat
      OBVIOUS
    <2>1. s = {} BY SmallEmpty
    <2> QED BY <2>1, SumEmpty
  <1>2. ASSUME NEW n \in Nat, n \in T PROVE n + 1 \in T
    <2> SUFFICES ASSUME NEW s \in Small(S, n + 1) PROVE Sum(f, s) \in Nat
      OBVIOUS
    <2>1. CASE s = {} BY <2>1, SumEmpty
    <2>2. CASE s # {}
      <3>1. IsFiniteSet(s) /\ s \subseteq S BY FS_Subset DEF Small
      <3>2. Sum(f, s \ {Some(s)}) \in Nat BY <1>2, <2>2, Smaller
      <3>3. Some(s) \in s /\ Sum(f, s) = f[Some(s)] + Sum(f, s \ {Some(s)}) BY <2>2, <3>1, SumChosen
      <3>4. f[Some(s)] \in Nat BY <3>1, <3>3
      <3> QED BY <3>2, <3>3, <3>4
    <2> QED BY <2>1, <2>2
  <1>3. Cardinality(S) \in Nat BY FS_CardinalityType
  <1>4. Cardinality(S) \in T
    <2> HIDE DEF T
    <2> QED BY <1>1, <1>2, <1>3, NatSet
  <1> QED BY <1>3, <1>4 DEF Small

\* What one element loses and another one gains leaves the sum as it is.
LEMMA SumMoved ==
  ASSUME NEW f, NEW g, NEW S, IsFiniteSet(S), \A x \in S : f[x] \in Int /\ g[x] \in Int,
         NEW a \in S, NEW b \in S, a # b, f[a] + f[b] = g[a] + g[b],
         \A x \in S \ {a, b} : f[x] = g[x]
  PROVE  Sum(f, S) = Sum(g, S)
  <1> DEFINE U == S \ {a}
             V == U \ {b}
  <1>1. IsFiniteSet(U) /\ IsFiniteSet(V) /\ b \in U BY FS_Subset
  <1>2. Sum(f, S) = f[a] + Sum(f, U) BY SumRemove
  <1>3. Sum(g, S) = g[a] + Sum(g, U) BY SumRemove
  <1>4. Sum(f, U) = f[b] + Sum(f, V) BY <1>1, SumRemove
  <1>5. Sum(g, U) = g[b] + Sum(g, V) BY <1>1, SumRemove
  <1>6. \A x \in V : f[x] \in Int /\ f[x] = g[x] OBVIOUS
  <1>7. Sum(f, V) = Sum(g, V) BY <1>1, <1>6, SumSame
  <1>8. Sum(f, V) \in Int BY <1>1, <1>6, SumType
  <1>9. \A p, q, r, s, z \in Int : p + q = r + s => p + (q + z) = r + (s + z) OBVIOUS
  <1> HIDE DEF U, V
  <1> QED BY <1>2, <1>3, <1>4, <1>5, <1>7, <1>8, <1>9
-----------------------------------------------------------------------------
(* Types.                                                                    *)

IdsCalls == [do : {"confirm", "force", "done", "process", "release", "end"}, ids : SUBSET Move]
ChainCalls == [do : {"chain"}, ids : SUBSET Move, new : SUBSET Move, pick : Nat]
AssignCalls == [do : {"assign"}, ids : SUBSET Move, done : SUBSET Move]
Part == [qty : Nat, src : Location]
ReserveCalls == [do : {"reserve"}, move : Move, left : Nat, from : Seq(Location), got : Seq(Part),
                 ids : SUBSET Move, done : SUBSET Move]
CopiesCalls == [do : {"copies"}, move : Move, got : Seq(Part), k : Nat, ids : SUBSET Move, done : SUBSET Move]
ReduceCalls == [do : {"reduce"}, move : Move, qty : Nat]
GivenSet == UNION {[D -> Nat] : D \in SUBSET Move}
LeaveCalls == [do : {"leave"}, ids : SUBSET Move, given : GivenSet, pick : Nat]
PickCalls == [do : {"confirm_lines", "assign_lines", "move_lines"}, pick : Nat]
Calls == IdsCalls \cup ChainCalls \cup AssignCalls \cup ReserveCalls \cup CopiesCalls
         \cup ReduceCalls \cup LeaveCalls \cup PickCalls

Table == [Move -> Row \cup {NoRow}]

Requests == [moves : Table, free : SUBSET Move, picks : SUBSET Nat, wrote : SUBSET Move,
             locked : SUBSET Move, order : Seq(Location), todo : Seq(Calls), ok : BOOLEAN]

\* Moves refer to moves that exist.
Linked(t) == \A m \in Rows(t) : t[m].next \in Rows(t) \cup {0} /\ t[m].leg \in Rows(t)

-----------------------------------------------------------------------------
(* What holds between two calls of a request that started from the snapshot  *)
(* t with the free ids F.                                                    *)

Frozen(t) == {m \in Move : t[m].state = "done"}

\* The moves that a call names, those that it may change otherwise than to assign or
\* process them, and those whose quantity it may change.
Names(c) ==
    IF c.do = "reduce" THEN {c.move}
    ELSE IF c.do = "assign" THEN c.ids \cup c.done
    ELSE IF c.do \in {"reserve", "copies"} THEN {c.move} \cup c.ids \cup c.done
    ELSE IF c.do = "chain" THEN c.ids \cup c.new
    ELSE IF c.do \in {"confirm_lines", "assign_lines", "move_lines"} THEN {}
    ELSE c.ids
Changes(c) ==
    IF c.do \in {"force", "done", "process", "release", "end"} THEN {}
    ELSE IF c.do = "assign" THEN c.ids
    ELSE IF c.do \in {"reserve", "copies"} THEN {c.move} \cup c.ids
    ELSE Names(c)
Target(c) ==
    IF c.do = "reduce" THEN {c.move}
    ELSE IF c.do \in {"reserve", "copies"} THEN {c.move} \cup c.ids
    ELSE IF c.do \in {"assign", "leave"} THEN c.ids
    ELSE IF c.do = "assign_lines" THEN Move
    ELSE {}

\* The pieces of a split from the k-th on.
Total(got, k) == Sum([i \in 1 .. Len(got) |-> got[i].qty], k .. Len(got))

\* What a pending call relies on.  owed: what copies of a move have yet to get of
\* what it had, or, below zero, what it has yet to give to one that was created.
Fits(w, t, owed, c) ==
    /\ Names(c) \subseteq Rows(w.moves)
    /\ Changes(c) \cap Frozen(t) = {}
    /\ c.do # "copies" => \A m \in Target(c) \cap Rows(t) : w.moves[m].qty = t[m].qty
    /\ c.do \notin {"copies", "reduce"} => \A m \in Target(c) : owed[m] = 0
    /\ c.do = "reserve" => Total(c.got, 1) + c.left = w.moves[c.move].qty
    /\ c.do = "copies" => c.k >= 1 /\ owed[c.move] = Total(c.got, c.k)
    /\ c.do = "copies" => \A m \in c.ids : owed[m] = 0 /\ (m \in Rows(t) => w.moves[m].qty = t[m].qty)
    /\ c.do \in {"reserve", "copies"} => c.move \notin c.ids
    /\ c.do = "reduce" => c.qty <= w.moves[c.move].qty /\ owed[c.move] = 0 - c.qty
    /\ c.do = "leave" => c.ids \subseteq DOMAIN c.given /\ c.ids \subseteq Rows(t)

\* What a move stands for beyond what it had before, and what users entered in
\* excess of that.
Surplus(w, t, owed, m) ==
    w.moves[m].qty + owed[m]
    - (IF m \in Rows(t)
       THEN t[m].qty + (IF w.moves[m].qty > t[m].qty THEN w.moves[m].qty - t[m].qty ELSE 0)
       ELSE 0)
Net(w, t, owed, l) == [m \in Move |-> IF m \in Leg(w.moves, l) THEN Surplus(w, t, owed, m) ELSE 0]

\* The snapshot, and the ids that it does not use.
Base(t, F) == t \in Table /\ F \subseteq Move /\ F \cap Rows(t) = {} /\ Linked(t)

\* Rows are added and written, never removed; processed moves keep quantity and
\* locations; and what is owed included, a demand is what it was.
Data(w, t, F, owed) ==
    /\ Base(t, F) /\ w \in Requests /\ owed \in [Move -> Int]
    /\ w.free \subseteq F /\ w.free \cap Rows(w.moves) = {}
    /\ Rows(t) \subseteq Rows(w.moves) /\ Rows(w.moves) \subseteq Rows(t) \cup (w.wrote \cap F)
    /\ w.wrote \subseteq Rows(w.moves)
    /\ \A m \in Move \ w.wrote : w.moves[m] = t[m]
    /\ Linked(w.moves)
    /\ \A m \in Rows(t) : w.moves[m].leg = t[m].leg
    /\ \A m \in Frozen(t) :
        /\ w.moves[m].state \in {"done", "assigned"}
        /\ w.moves[m].qty = t[m].qty /\ w.moves[m].src = t[m].src /\ w.moves[m].dst = t[m].dst
    /\ \A m \in Move \ Rows(w.moves) : owed[m] = 0
    /\ \A l \in Move \ F : Sum(Net(w, t, owed, l), Move) = 0

\* No two pending calls change the quantity of one move, and each debt has a call
\* that settles it.  The moves in X are those of the call that is being made.
Agenda(w, t, owed, X) ==
    /\ \A i \in DOMAIN w.todo : Fits(w, t, owed, w.todo[i]) /\ Target(w.todo[i]) \cap X = {}
    /\ \A i, j \in DOMAIN w.todo : i # j => Target(w.todo[i]) \cap Target(w.todo[j]) = {}
    /\ \A m \in Move \ X : owed[m] # 0 =>
        \E i \in DOMAIN w.todo : m \in Target(w.todo[i]) /\ w.todo[i].do \in {"copies", "reduce"}

Sound(w, t, F, owed, X) == Data(w, t, F, owed) /\ Agenda(w, t, owed, X)

-----------------------------------------------------------------------------
(* Running a request.                                                        *)

At(w, D, g) == g = [n \in D |-> IF n = 0 THEN w ELSE Step(g[n - 1])]

LEMMA RunIn ==
  ASSUME NEW S, NEW w \in S, \A v \in S : Step(v) \in S
  PROVE  Run(w) \in S
  <1>0. MaxSteps \in Nat BY StockAssumption
  <1>1. \E g : At(w, 0 .. MaxSteps, g)
    <2> DEFINE T == {n \in Nat : \E g : At(w, 0 .. n, g)}
    <2>1. 0 \in T
      <3> DEFINE g == [n \in 0 .. 0 |-> w]
      <3>1. At(w, 0 .. 0, g) BY DEF At
      <3> QED BY <3>1
    <2>2. ASSUME NEW n \in Nat, n \in T PROVE n + 1 \in T
      <3>1. PICK g : At(w, 0 .. n, g) BY <2>2
      <3> DEFINE h == [k \in 0 .. (n + 1) |-> IF k = 0 THEN w ELSE Step(g[k - 1])]
      <3>2. \A k \in 0 .. n : h[k] = g[k] BY <3>1 DEF At
      <3>3. ASSUME NEW k \in 0 .. (n + 1), k # 0 PROVE h[k - 1] = g[k - 1]
        <4>1. k - 1 \in 0 .. n BY <3>3
        <4> HIDE DEF h
        <4> QED BY <3>2, <4>1
      <3>4. h = [k \in 0 .. (n + 1) |-> IF k = 0 THEN w ELSE Step(h[k - 1])]
        <4>1. \A k \in 0 .. (n + 1) : (IF k = 0 THEN w ELSE Step(g[k - 1])) = (IF k = 0 THEN w ELSE Step(h[k - 1]))
          BY <3>3
        <4> QED BY <4>1
      <3>5. At(w, 0 .. (n + 1), h) BY <3>4 DEF At
      <3> QED BY <3>5
    <2> HIDE DEF T
    <2>3. MaxSteps \in T BY <1>0, <2>1, <2>2, NatSet
    <2> QED BY <2>3 DEF T
  <1>2. Run(w) = (CHOOSE g : At(w, 0 .. MaxSteps, g))[MaxSteps] BY DEF Run, At
  <1>3. PICK g : At(w, 0 .. MaxSteps, g) /\ Run(w) = g[MaxSteps] BY <1>1, <1>2
  <1> DEFINE T == {n \in Nat : n <= MaxSteps => g[n] \in S}
  <1>4. 0 \in T BY <1>0, <1>3 DEF At
  <1>5. ASSUME NEW n \in Nat, n \in T PROVE n + 1 \in T
    <2> SUFFICES ASSUME n + 1 <= MaxSteps PROVE g[n + 1] \in S
      OBVIOUS
    <2>1. g[n + 1] = Step(g[n]) BY <1>0, <1>3 DEF At
    <2> QED BY <1>5, <2>1, <1>0
  <1> HIDE DEF T
  <1>6. MaxSteps \in T BY <1>0, <1>4, <1>5, NatSet
  <1> QED BY <1>0, <1>3, <1>6 DEF T

-----------------------------------------------------------------------------
(* What the small steps of the methods do.                                   *)

LEMMA Rowed ==
  ASSUME NEW t \in Table, NEW m \in Move
  PROVE  /\ m \in Rows(t) <=> t[m] \in Row
         /\ m \notin Rows(t) => t[m] = NoRow
  BY DEF Table, Rows, Row, NoRow, Open, Ended

LEMMA CallIs ==
  ASSUME NEW w \in Requests, NEW c \in Calls
  PROVE  /\ Call(w, c) \in Requests
         /\ Call(w, c).moves = w.moves /\ Call(w, c).free = w.free /\ Call(w, c).wrote = w.wrote
         /\ Call(w, c).picks = w.picks /\ Call(w, c).order = w.order /\ Call(w, c).ok = w.ok
         /\ Call(w, c).todo = Append(w.todo, c)
  <1> DEFINE C == Calls
             T == Table
  <1>1. w \in [moves : T, free : SUBSET Move, picks : SUBSET Nat, wrote : SUBSET Move,
               locked : SUBSET Move, order : Seq(Location), todo : Seq(C), ok : BOOLEAN]
    BY DEF Requests
  <1>2. Append(w.todo, c) \in Seq(C)
    <2> HIDE DEF C, T
    <2> QED BY <1>1 DEF C
  <1> HIDE DEF C, T
  <1> QED BY <1>1, <1>2 DEF Call, Requests, C, T

LEMMA RaiseIs ==
  ASSUME NEW w \in Requests
  PROVE  Raise(w) \in Requests /\ ~Raise(w).ok
  BY DEF Raise, Requests

LEMMA PutIs ==
  ASSUME NEW w \in Requests, NEW m \in Move, NEW row \in Row
  PROVE  /\ Put(w, m, row) \in Requests
         /\ Put(w, m, row).moves = [w.moves EXCEPT ![m] = row]
         /\ Put(w, m, row).wrote = w.wrote \cup {m}
         /\ Put(w, m, row).free = w.free /\ Put(w, m, row).todo = w.todo
         /\ Put(w, m, row).picks = w.picks /\ Put(w, m, row).order = w.order /\ Put(w, m, row).ok = w.ok
  <1>1. [w.moves EXCEPT ![m] = row] \in Table BY DEF Requests, Table
  <1> QED BY <1>1 DEF Put, Requests

LEMMA InsertIs ==
  ASSUME NEW w \in Requests, NEW row \in Row, w.free # {}
  PROVE  /\ NewId(w) \in w.free /\ NewId(w) \in Move
         /\ Insert(w, row) \in Requests
         /\ Insert(w, row).moves = [w.moves EXCEPT ![NewId(w)] = row]
         /\ Insert(w, row).wrote = w.wrote \cup {NewId(w)}
         /\ Insert(w, row).free = w.free \ {NewId(w)} /\ Insert(w, row).todo = w.todo
         /\ Insert(w, row).picks = w.picks /\ Insert(w, row).order = w.order /\ Insert(w, row).ok = w.ok
  <1>0. w.free \in SUBSET Move BY DEF Requests
  <1>1. w.free \in SUBSET Nat BY <1>0 DEF Move
  <1>2. NewId(w) \in w.free BY <1>1, MinIn DEF NewId
  <1>3. NewId(w) \in Move BY <1>0, <1>2
  <1> DEFINE v == Put(w, NewId(w), row)
  <1>4. Insert(w, row) = [v EXCEPT !.free = @ \ {NewId(w)}] BY DEF Insert
  <1>5. v \in Requests /\ v.free = w.free BY <1>3, PutIs
  <1>6. v.free \ {NewId(w)} \in SUBSET Move BY <1>0, <1>5
  <1>7. Insert(w, row) \in Requests
        /\ Insert(w, row).moves = v.moves /\ Insert(w, row).wrote = v.wrote
        /\ Insert(w, row).free = v.free \ {NewId(w)} /\ Insert(w, row).todo = v.todo
        /\ Insert(w, row).picks = v.picks /\ Insert(w, row).order = v.order /\ Insert(w, row).ok = v.ok
    <2> HIDE DEF v
    <2> QED BY <1>4, <1>5, <1>6 DEF Requests
  <1> QED BY <1>2, <1>3, <1>7, PutIs

\* v is w with the moves S in state s.
SetTo(w, v, S, s) ==
    /\ v \in Requests /\ v.wrote = w.wrote \cup S
    /\ v.free = w.free /\ v.todo = w.todo /\ v.picks = w.picks /\ v.order = w.order /\ v.ok = w.ok
    /\ \A m \in Move \ S : v.moves[m] = w.moves[m]
    /\ \A m \in S :
        /\ v.moves[m].state = s /\ v.moves[m].qty = w.moves[m].qty
        /\ v.moves[m].src = w.moves[m].src /\ v.moves[m].dst = w.moves[m].dst
        /\ v.moves[m].leg = w.moves[m].leg /\ v.moves[m].next = w.moves[m].next

LEMMA SetStateIs ==
  ASSUME NEW w \in Requests, NEW S \in SUBSET Rows(w.moves), NEW s \in Open \cup Ended
  PROVE  SetTo(w, SetState(w, S, s), S, s)
  <1> DEFINE new == [m \in Move |-> IF m \in S THEN [w.moves[m] EXCEPT !.state = s] ELSE w.moves[m]]
  <1>0. w.moves \in Table BY DEF Requests
  <1>1. ASSUME NEW m \in Move PROVE new[m] \in Row \cup {NoRow}
    <2>1. CASE m \in S
      <3>1. w.moves[m] \in Row BY <1>0, <2>1, Rowed
      <3> QED BY <2>1, <3>1 DEF Row
    <2>2. CASE m \notin S BY <1>0, <2>2 DEF Table
    <2> QED BY <2>1, <2>2
  <1>2. new \in Table BY <1>1 DEF Table
  <1>3. S \in SUBSET Move BY DEF Rows
  <1>4. SetState(w, S, s) = [w EXCEPT !.moves = new, !.wrote = @ \cup S] BY DEF SetState
  <1>5. \A m \in Move \ S : new[m] = w.moves[m] OBVIOUS
  <1>6. ASSUME NEW m \in S
        PROVE  /\ new[m].state = s /\ new[m].qty = w.moves[m].qty /\ new[m].src = w.moves[m].src
               /\ new[m].dst = w.moves[m].dst /\ new[m].leg = w.moves[m].leg /\ new[m].next = w.moves[m].next
    <2>1. m \in Move /\ w.moves[m] \in Row BY <1>0, <1>3, Rowed
    <2>2. new[m] = [w.moves[m] EXCEPT !.state = s] BY <2>1
    <2> QED BY <2>1, <2>2 DEF Row
  <1> HIDE DEF new
  <1> QED BY <1>2, <1>3, <1>4, <1>5, <1>6 DEF SetTo, Requests

-----------------------------------------------------------------------------
(* The calls, and the agenda of a request.                                   *)

LEMMA Shapes ==
  ASSUME NEW c \in Calls
  PROVE  /\ c.do \in {"confirm", "force", "done", "process", "release", "end"} <=> c \in IdsCalls
         /\ c.do = "chain" <=> c \in ChainCalls
         /\ c.do = "assign" <=> c \in AssignCalls
         /\ c.do = "reserve" <=> c \in ReserveCalls
         /\ c.do = "copies" <=> c \in CopiesCalls
         /\ c.do = "reduce" <=> c \in ReduceCalls
         /\ c.do = "leave" <=> c \in LeaveCalls
         /\ c.do \in {"confirm_lines", "assign_lines", "move_lines"} <=> c \in PickCalls
  <1> USE DEF IdsCalls, ChainCalls, AssignCalls, ReserveCalls, CopiesCalls, ReduceCalls, LeaveCalls, PickCalls
  <1> QED BY DEF Calls

LEMMA Targets ==
  ASSUME NEW c \in Calls
  PROVE  Names(c) \subseteq Move /\ Target(c) \subseteq Move /\ Changes(c) \subseteq Names(c)
  <1>1. CASE c \in IdsCalls BY <1>1 DEF IdsCalls, Names, Target, Changes
  <1>2. CASE c \in ChainCalls BY <1>2 DEF ChainCalls, Names, Target, Changes
  <1>3. CASE c \in ReserveCalls BY <1>3 DEF ReserveCalls, Names, Target, Changes
  <1>4. CASE c \in CopiesCalls BY <1>4 DEF CopiesCalls, Names, Target, Changes
  <1>5. CASE c \in ReduceCalls BY <1>5 DEF ReduceCalls, Names, Target, Changes
  <1>6. CASE c \in LeaveCalls BY <1>6 DEF LeaveCalls, Names, Target, Changes
  <1>7. CASE c \in PickCalls BY <1>7 DEF PickCalls, Names, Target, Changes
  <1>8. CASE c \in AssignCalls BY <1>8 DEF AssignCalls, Names, Target, Changes
  <1> QED BY <1>1, <1>2, <1>3, <1>4, <1>5, <1>6, <1>7, <1>8 DEF Calls

\* The fields that the invariant is about.
LEMMA Fields ==
  ASSUME NEW w \in Requests
  PROVE  /\ w.moves \in Table /\ w.free \in SUBSET Move /\ w.wrote \in SUBSET Move
         /\ w.order \in Seq(Location) /\ w.todo \in Seq(Calls) /\ w.ok \in BOOLEAN
         /\ w.picks \in SUBSET Nat
         /\ Rows(w.moves) \subseteq Move
  BY DEF Requests, Rows

LEMMA DataSame ==
  ASSUME NEW w, NEW t, NEW F, NEW owed, Data(w, t, F, owed), NEW v \in Requests,
         v.moves = w.moves, v.free = w.free, v.wrote = w.wrote
  PROVE  Data(v, t, F, owed)
  <1>1. \A l : Net(v, t, owed, l) = Net(w, t, owed, l) BY DEF Net, Surplus
  <1> QED BY <1>1 DEF Data

LEMMA FitsSame ==
  ASSUME NEW w, NEW v, NEW t, NEW owed, NEW due, NEW c \in Calls, Fits(w, t, owed, c),
         Rows(t) \subseteq Rows(w.moves), Rows(w.moves) \subseteq Rows(v.moves),
         \A m \in Target(c) \cap Rows(w.moves) : v.moves[m].qty = w.moves[m].qty,
         \A m \in Target(c) : due[m] = owed[m]
  PROVE  Fits(v, t, due, c)
  <1>1. c.do \in {"reserve", "copies", "reduce"} => c.move \in Target(c) /\ c.move \in Rows(w.moves)
    BY DEF Fits, Names, Target
  <1>2. Names(c) \subseteq Rows(v.moves) /\ Changes(c) \cap Frozen(t) = {}
    BY DEF Fits
  <1>3. c.do # "copies" => \A m \in Target(c) \cap Rows(t) : v.moves[m].qty = t[m].qty
    BY DEF Fits
  <1>4. c.do \notin {"copies", "reduce"} => \A m \in Target(c) : due[m] = 0
    BY DEF Fits
  <1>5. c.do = "reserve" => Total(c.got, 1) + c.left = v.moves[c.move].qty
    BY <1>1 DEF Fits
  <1>6. c.do = "copies" => c.k >= 1 /\ due[c.move] = Total(c.got, c.k)
    BY <1>1 DEF Fits
  <1>7. c.do = "reduce" => c.qty <= v.moves[c.move].qty /\ due[c.move] = 0 - c.qty
    BY <1>1 DEF Fits
  <1>8. c.do = "leave" => c.ids \subseteq DOMAIN c.given /\ c.ids \subseteq Rows(t)
    BY DEF Fits
  <1>9. c.do = "copies" => \A m \in c.ids : due[m] = 0 /\ (m \in Rows(t) => v.moves[m].qty = t[m].qty)
    <2> SUFFICES ASSUME c.do = "copies", NEW m \in c.ids
                 PROVE  due[m] = 0 /\ (m \in Rows(t) => v.moves[m].qty = t[m].qty)
      OBVIOUS
    <2>1. m \in Target(c) BY DEF Target
    <2>2. owed[m] = 0 /\ (m \in Rows(t) => w.moves[m].qty = t[m].qty) BY DEF Fits
    <2> QED BY <2>1, <2>2
  <1>10. c.do \in {"reserve", "copies"} => c.move \notin c.ids
    BY DEF Fits
  <1> QED BY <1>2, <1>3, <1>4, <1>5, <1>6, <1>7, <1>8, <1>9, <1>10 DEF Fits

\* Quantities and debts change only of the moves at work.
LEMMA AgendaSame ==
  ASSUME NEW w \in Requests, NEW v, NEW t, NEW owed, NEW due, NEW X, Agenda(w, t, owed, X),
         v.todo = w.todo, Rows(t) \subseteq Rows(w.moves), Rows(w.moves) \subseteq Rows(v.moves),
         \A m \in Rows(w.moves) \ X : v.moves[m].qty = w.moves[m].qty,
         \A m \in Move \ X : due[m] = owed[m]
  PROVE  Agenda(v, t, due, X)
  <1>1. ASSUME NEW i \in DOMAIN v.todo
        PROVE  Fits(v, t, due, v.todo[i]) /\ Target(v.todo[i]) \cap X = {}
    <2>1. v.todo[i] \in Calls /\ i \in DOMAIN w.todo /\ v.todo[i] = w.todo[i] BY Fields
    <2>2. Fits(w, t, owed, v.todo[i]) /\ Target(v.todo[i]) \cap X = {} BY <2>1 DEF Agenda
    <2>3. Target(v.todo[i]) \subseteq Move BY <2>1, Targets
    <2> QED BY <2>1, <2>2, <2>3, FitsSame
  <1>2. \A i, j \in DOMAIN v.todo : i # j => Target(v.todo[i]) \cap Target(v.todo[j]) = {}
    BY DEF Agenda
  <1>3. \A m \in Move \ X : due[m] # 0 =>
          \E i \in DOMAIN v.todo : m \in Target(v.todo[i]) /\ v.todo[i].do \in {"copies", "reduce"}
    BY DEF Agenda
  <1> QED BY <1>1, <1>2, <1>3 DEF Agenda

\* Moves whose debts are settled need no longer be held.
LEMMA Drop ==
  ASSUME NEW w, NEW t, NEW F, NEW owed, NEW X, Sound(w, t, F, owed, X),
         NEW Y \in SUBSET X, \A m \in X \ Y : m \in Move => owed[m] = 0
  PROVE  Sound(w, t, F, owed, Y)
  BY DEF Sound, Agenda

\* Making the next call frees its moves for it.
LEMMA Pop ==
  ASSUME NEW w, NEW t, NEW F, NEW owed, Sound(w, t, F, owed, {}), w.todo # << >>
  PROVE  LET v == [w EXCEPT !.todo = SubSeq(@, 1, Len(@) - 1)]
             c == w.todo[Len(w.todo)]
         IN  c \in Calls /\ Sound(v, t, F, owed, Target(c)) /\ Fits(v, t, owed, c) /\ v.ok = w.ok
  <1> DEFINE n == Len(w.todo)
             rest == SubSeq(w.todo, 1, n - 1)
             v == [w EXCEPT !.todo = rest]
             c == w.todo[n]
  <1>1. w \in Requests BY DEF Sound, Data
  <1>2. w.todo \in Seq(Calls) BY <1>1, Fields
  <1>3. n \in Nat \ {0} /\ c \in Calls
    <2> DEFINE C == Calls
    <2> HIDE DEF C
    <2>1. w.todo \in Seq(C) BY <1>2 DEF C
    <2>2. n \in Nat \ {0} /\ c \in C BY <2>1
    <2> QED BY <2>2 DEF C
  <1>4. rest \in Seq(Calls) /\ DOMAIN rest = 1 .. (n - 1) /\ \A i \in 1 .. (n - 1) : rest[i] = w.todo[i]
    <2> DEFINE C == Calls
    <2> HIDE DEF C
    <2>1. w.todo \in Seq(C) BY <1>2 DEF C
    <2>2. rest \in Seq(C) /\ DOMAIN rest = 1 .. (n - 1) /\ \A i \in 1 .. (n - 1) : rest[i] = w.todo[i]
      BY <2>1, <1>3
    <2> QED BY <2>2 DEF C
  <1>5. DOMAIN w.todo = 1 .. n BY <1>2
  <1> HIDE DEF rest, n
  <1>6. v \in Requests /\ v.moves = w.moves /\ v.free = w.free /\ v.wrote = w.wrote /\ v.todo = rest /\ v.ok = w.ok
    BY <1>1, <1>4 DEF Requests
  <1> HIDE DEF v
  <1>7. Data(v, t, F, owed) BY <1>6, DataSame DEF Sound
  <1>8. Rows(t) \subseteq Rows(w.moves) BY DEF Sound, Data
  <1>9. ASSUME NEW i \in 1 .. n PROVE Fits(v, t, owed, w.todo[i])
    <2>1. w.todo[i] \in Calls BY <1>2, <1>3, <1>5
    <2>2. Fits(w, t, owed, w.todo[i]) BY <1>5 DEF Sound, Agenda
    <2> QED BY <1>6, <1>8, <2>1, <2>2, FitsSame
  <1>10. Fits(v, t, owed, c) BY <1>3, <1>9
  <1>11. Agenda(v, t, owed, Target(c))
    <2>1. ASSUME NEW i \in DOMAIN v.todo
          PROVE  Fits(v, t, owed, v.todo[i]) /\ Target(v.todo[i]) \cap Target(c) = {}
      <3>1. i \in 1 .. n /\ i # n /\ n \in 1 .. n /\ v.todo[i] = w.todo[i] BY <1>3, <1>4, <1>6
      <3>2. Target(w.todo[i]) \cap Target(w.todo[n]) = {} BY <1>5, <3>1 DEF Sound, Agenda
      <3> QED BY <1>9, <3>1, <3>2
    <2>2. \A i, j \in DOMAIN v.todo : i # j => Target(v.todo[i]) \cap Target(v.todo[j]) = {}
      <3> SUFFICES ASSUME NEW i \in DOMAIN v.todo, NEW j \in DOMAIN v.todo, i # j
                   PROVE Target(v.todo[i]) \cap Target(v.todo[j]) = {}
        OBVIOUS
      <3>1. i \in 1 .. n /\ j \in 1 .. n /\ v.todo[i] = w.todo[i] /\ v.todo[j] = w.todo[j] BY <1>3, <1>4, <1>6
      <3> QED BY <1>5, <3>1 DEF Sound, Agenda
    <2>3. ASSUME NEW m \in Move \ Target(c), owed[m] # 0
          PROVE  \E i \in DOMAIN v.todo : m \in Target(v.todo[i]) /\ v.todo[i].do \in {"copies", "reduce"}
      <3>1. PICK i \in 1 .. n : m \in Target(w.todo[i]) /\ w.todo[i].do \in {"copies", "reduce"}
        BY <1>5, <2>3 DEF Sound, Agenda
      <3>2. i # n BY <2>3, <3>1
      <3>3. i \in 1 .. (n - 1) BY <1>3, <3>2
      <3> QED BY <1>4, <1>6, <3>1, <3>3
    <2> QED BY <2>1, <2>2, <2>3 DEF Agenda
  <1> QED BY <1>3, <1>6, <1>7, <1>10, <1>11 DEF Sound, v, rest, n

\* A call that is made later keeps its moves.
LEMMA Push ==
  ASSUME NEW w, NEW t, NEW F, NEW owed, NEW X, Sound(w, t, F, owed, X),
         NEW c \in Calls, Fits(w, t, owed, c), Target(c) \subseteq X
  PROVE  Sound(Call(w, c), t, F, owed, X \ Target(c))
  <1> DEFINE n == Len(w.todo)
             v == Call(w, c)
  <1>1. w \in Requests BY DEF Sound, Data
  <1>2. v \in Requests /\ v.moves = w.moves /\ v.free = w.free /\ v.wrote = w.wrote /\ v.todo = Append(w.todo, c)
    BY <1>1, CallIs
  <1>3. w.todo \in Seq(Calls) /\ n \in Nat BY <1>1, Fields
  <1>4. DOMAIN w.todo = 1 .. n /\ DOMAIN v.todo = 1 .. (n + 1) /\ v.todo[n + 1] = c
        /\ \A i \in 1 .. n : v.todo[i] = w.todo[i]
    <2> DEFINE C == Calls
    <2> HIDE DEF C, v
    <2>1. w.todo \in Seq(C) /\ c \in C BY <1>3 DEF C
    <2> QED BY <1>2, <2>1
  <1> HIDE DEF v, n
  <1>5. Data(v, t, F, owed) BY <1>2, DataSame DEF Sound
  <1>6. Rows(t) \subseteq Rows(w.moves) BY DEF Sound, Data
  <1>7. ASSUME NEW b \in Calls, Fits(w, t, owed, b) PROVE Fits(v, t, owed, b)
    BY <1>2, <1>6, <1>7, FitsSame
  <1>8. ASSUME NEW i \in DOMAIN v.todo
        PROVE  Fits(v, t, owed, v.todo[i]) /\ Target(v.todo[i]) \cap (X \ Target(c)) = {}
    <2>1. CASE i = n + 1 BY <1>4, <1>7, <2>1
    <2>2. CASE i # n + 1
      <3>1. i \in 1 .. n BY <1>3, <1>4, <2>2
      <3>2. w.todo[i] \in Calls BY <1>3, <1>4, <3>1
      <3>3. Fits(w, t, owed, w.todo[i]) /\ Target(w.todo[i]) \cap X = {} BY <1>4, <3>1 DEF Sound, Agenda
      <3> QED BY <1>4, <1>7, <3>1, <3>2, <3>3
    <2> QED BY <2>1, <2>2
  <1>9. ASSUME NEW i \in DOMAIN v.todo, NEW j \in DOMAIN v.todo, i # j
        PROVE  Target(v.todo[i]) \cap Target(v.todo[j]) = {}
    <2>1. ASSUME NEW k \in 1 .. n PROVE Target(v.todo[k]) \cap Target(c) = {}
      <3>1. Target(w.todo[k]) \cap X = {} BY <1>4 DEF Sound, Agenda
      <3> QED BY <1>4, <3>1
    <2>2. CASE i \in 1 .. n /\ j \in 1 .. n
      <3>1. Target(w.todo[i]) \cap Target(w.todo[j]) = {} BY <1>4, <1>9, <2>2 DEF Sound, Agenda
      <3> QED BY <1>4, <2>2, <3>1
    <2>3. CASE i = n + 1 /\ j \in 1 .. n BY <1>4, <2>1, <2>3
    <2>4. CASE j = n + 1 /\ i \in 1 .. n BY <1>4, <2>1, <2>4
    <2> QED BY <1>3, <1>4, <1>9, <2>2, <2>3, <2>4
  <1>10. ASSUME NEW m \in Move \ (X \ Target(c)), owed[m] # 0
         PROVE  \E i \in DOMAIN v.todo : m \in Target(v.todo[i]) /\ v.todo[i].do \in {"copies", "reduce"}
    <2>1. CASE m \in Target(c)
      <3>1. c.do \in {"copies", "reduce"} BY <1>10, <2>1 DEF Fits
      <3>2. n + 1 \in DOMAIN v.todo BY <1>3, <1>4
      <3> QED BY <1>4, <2>1, <3>1, <3>2
    <2>2. CASE m \notin Target(c)
      <3>1. PICK i \in 1 .. n : m \in Target(w.todo[i]) /\ w.todo[i].do \in {"copies", "reduce"}
        BY <1>4, <1>10, <2>2 DEF Sound, Agenda
      <3>2. i \in 1 .. (n + 1) BY <1>3
      <3> QED BY <1>4, <3>1, <3>2
    <2> QED BY <2>1, <2>2
  <1> QED BY <1>5, <1>8, <1>9, <1>10 DEF Sound, Agenda, v

-----------------------------------------------------------------------------
(* Writing rows.                                                             *)

LEMMA MoveFinite == IsFiniteSet(Move)
  BY StockAssumption, FS_Interval DEF Move

LEMMA NetInt ==
  ASSUME NEW w, NEW t, NEW F, NEW owed, Data(w, t, F, owed), NEW l, NEW m \in Move
  PROVE  /\ Net(w, t, owed, l)[m] \in Int
         /\ m \in Rows(w.moves) => Surplus(w, t, owed, m) \in Int
  <1>1. w \in Requests /\ owed \in [Move -> Int] /\ t \in Table BY DEF Data, Base
  <1>2. w.moves \in Table BY <1>1, Fields
  <1>3. m \in Rows(w.moves) => w.moves[m].qty \in Int BY <1>2, Rowed DEF Row
  <1>4. m \in Rows(t) => t[m].qty \in Int BY <1>1, Rowed DEF Row
  <1>5. owed[m] \in Int BY <1>1
  <1>6. m \in Rows(w.moves) => Surplus(w, t, owed, m) \in Int BY <1>3, <1>4, <1>5 DEF Surplus
  <1> QED BY <1>6 DEF Net, Leg

\* Rows that keep their demand and what they stand for of it.
LEMMA DataUpdate ==
  ASSUME NEW w, NEW t, NEW F, NEW owed, Data(w, t, F, owed), NEW v \in Requests, NEW due \in [Move -> Int],
         v.free = w.free, Rows(v.moves) = Rows(w.moves),
         w.wrote \subseteq v.wrote, v.wrote \subseteq Rows(w.moves),
         \A m \in Move \ v.wrote : v.moves[m] = w.moves[m],
         Linked(v.moves), \A m \in Rows(w.moves) : v.moves[m].leg = w.moves[m].leg,
         \A m \in Frozen(t) :
            /\ v.moves[m].state \in {"done", "assigned"}
            /\ v.moves[m].qty = t[m].qty /\ v.moves[m].src = t[m].src /\ v.moves[m].dst = t[m].dst,
         \A m \in Move \ Rows(w.moves) : due[m] = 0,
         \A m \in Rows(w.moves) : Surplus(v, t, due, m) = Surplus(w, t, owed, m)
  PROVE  Data(v, t, F, due)
  <1>1. ASSUME NEW l \in Move \ F PROVE Sum(Net(v, t, due, l), Move) = 0
    <2>1. Leg(v.moves, l) = Leg(w.moves, l) BY DEF Leg
    <2>2. Net(v, t, due, l) = Net(w, t, owed, l) BY <2>1 DEF Net, Leg
    <2> QED BY <2>2 DEF Data
  <1>2. Rows(v.moves) \subseteq Rows(t) \cup (v.wrote \cap F) BY DEF Data
  <1>3. \A m \in Move \ v.wrote : v.moves[m] = t[m] BY DEF Data
  <1>4. \A m \in Rows(t) : v.moves[m].leg = t[m].leg BY DEF Data
  <1> QED BY <1>1, <1>2, <1>3, <1>4 DEF Data

LEMMA SetStateSound ==
  ASSUME NEW w, NEW t, NEW F, NEW owed, NEW X, Sound(w, t, F, owed, X),
         NEW S \in SUBSET Rows(w.moves), NEW s \in Open \cup Ended,
         s \in {"done", "assigned"} \/ S \cap Frozen(t) = {}
  PROVE  /\ Sound(SetState(w, S, s), t, F, owed, X)
         /\ Rows(SetState(w, S, s).moves) = Rows(w.moves)
         /\ SetState(w, S, s).ok = w.ok
  <1> DEFINE v == SetState(w, S, s)
  <1>1. w \in Requests /\ w.moves \in Table BY Fields DEF Sound, Data
  <1>0. SetTo(w, v, S, s) BY <1>1, SetStateIs
  <1> HIDE DEF v
  <1>2. /\ v \in Requests /\ v.wrote = w.wrote \cup S
        /\ v.free = w.free /\ v.todo = w.todo /\ v.ok = w.ok
    BY <1>0 DEF SetTo
  <1>3. \A m \in Move \ S : v.moves[m] = w.moves[m] BY <1>0 DEF SetTo
  <1>4. \A m \in S :
          /\ m \in Move /\ v.moves[m].state = s /\ v.moves[m].qty = w.moves[m].qty
          /\ v.moves[m].src = w.moves[m].src /\ v.moves[m].dst = w.moves[m].dst
          /\ v.moves[m].leg = w.moves[m].leg /\ v.moves[m].next = w.moves[m].next
    BY <1>0 DEF SetTo, Rows
  <1>5. Rows(v.moves) = Rows(w.moves) BY <1>3, <1>4 DEF Rows, Open, Ended
  <1>6. Rows(w.moves) \subseteq Move /\ Rows(t) \subseteq Rows(w.moves) BY DEF Rows, Sound, Data
  <1>7. \A m \in Rows(w.moves) :
          /\ v.moves[m].qty = w.moves[m].qty /\ v.moves[m].leg = w.moves[m].leg /\ v.moves[m].next = w.moves[m].next
          /\ v.moves[m].src = w.moves[m].src /\ v.moves[m].dst = w.moves[m].dst
    BY <1>3, <1>4, <1>6
  <1>8. Data(v, t, F, owed)
    <2>1. Data(w, t, F, owed) BY DEF Sound
    <2>2. Linked(v.moves) BY <1>5, <1>7, <2>1 DEF Linked, Data
    <2>3. ASSUME NEW m \in Frozen(t)
          PROVE  /\ v.moves[m].state \in {"done", "assigned"}
                 /\ v.moves[m].qty = t[m].qty /\ v.moves[m].src = t[m].src /\ v.moves[m].dst = t[m].dst
      <3>1. m \in Rows(w.moves) /\ m \in Move BY <1>6 DEF Frozen, Rows
      <3>2. /\ w.moves[m].state \in {"done", "assigned"}
            /\ w.moves[m].qty = t[m].qty /\ w.moves[m].src = t[m].src /\ w.moves[m].dst = t[m].dst
        BY <2>1 DEF Data
      <3>3. v.moves[m].state \in {"done", "assigned"} BY <1>3, <1>4, <3>1, <3>2
      <3> QED BY <1>7, <3>1, <3>2, <3>3
    <2>4. \A m \in Rows(w.moves) : Surplus(v, t, owed, m) = Surplus(w, t, owed, m)
      BY <1>7 DEF Surplus
    <2>5. v.wrote \subseteq Rows(w.moves) /\ w.wrote \subseteq v.wrote /\ \A m \in Move \ v.wrote : v.moves[m] = w.moves[m]
      BY <1>2, <1>3, <2>1 DEF Data
    <2>6. owed \in [Move -> Int] /\ \A m \in Move \ Rows(w.moves) : owed[m] = 0 BY <2>1 DEF Data
    <2> QED BY <1>2, <1>5, <1>7, <2>1, <2>2, <2>3, <2>4, <2>5, <2>6, DataUpdate
  <1>9. Agenda(v, t, owed, X)
    BY <1>1, <1>2, <1>5, <1>6, <1>7, AgendaSame DEF Sound
  <1> QED BY <1>2, <1>5, <1>8, <1>9 DEF Sound, v

\* A row is rewritten; its quantity changes only while the move is held, and by
\* as much as it owes less or a user enters.
LEMMA PutSound ==
  ASSUME NEW w, NEW t, NEW F, NEW owed, NEW X, Sound(w, t, F, owed, X),
         NEW m \in Rows(w.moves) \ Frozen(t), NEW row \in Row, NEW d \in Int,
         row.leg = w.moves[m].leg, row.next \in Rows(w.moves) \cup {0},
         m \notin X => row.qty = w.moves[m].qty /\ d = owed[m],
         LET due == [owed EXCEPT ![m] = d]
         IN  Surplus(Put(w, m, row), t, due, m) = Surplus(w, t, owed, m)
  PROVE  /\ Sound(Put(w, m, row), t, F, [owed EXCEPT ![m] = d], X)
         /\ Rows(Put(w, m, row).moves) = Rows(w.moves)
         /\ Put(w, m, row).ok = w.ok
  <1> DEFINE v == Put(w, m, row)
             due == [owed EXCEPT ![m] = d]
  <1>0. Data(w, t, F, owed) BY DEF Sound
  <1>1. w \in Requests /\ w.moves \in Table /\ m \in Move /\ owed \in [Move -> Int]
    BY <1>0, Fields DEF Data, Rows
  <1>2. /\ v \in Requests /\ v.moves = [w.moves EXCEPT ![m] = row] /\ v.wrote = w.wrote \cup {m}
        /\ v.free = w.free /\ v.todo = w.todo /\ v.ok = w.ok
    BY <1>1, PutIs
  <1>3. Surplus(v, t, due, m) = Surplus(w, t, owed, m) OBVIOUS
  <1>4. due \in [Move -> Int] /\ due[m] = d /\ \A k \in Move \ {m} : due[k] = owed[k] BY <1>1
  <1> HIDE DEF v, due
  <1>5. DOMAIN w.moves = Move BY <1>1 DEF Table
  <1>6. v.moves[m] = row /\ \A k \in Move \ {m} : v.moves[k] = w.moves[k] BY <1>1, <1>2, <1>5
  <1>7. row.state # "none" BY DEF Row, Open, Ended
  <1>8. Rows(v.moves) = Rows(w.moves)
    <2>1. w.moves[m].state # "none" BY DEF Rows
    <2> QED BY <1>1, <1>6, <1>7, <2>1 DEF Rows
  <1>9. Rows(w.moves) \subseteq Move /\ Rows(t) \subseteq Rows(w.moves) BY <1>0 DEF Rows, Data
  <1>10. Data(v, t, F, due)
    <2>1. Linked(v.moves)
      <3>1. ASSUME NEW k \in Rows(w.moves)
            PROVE v.moves[k].next \in Rows(w.moves) \cup {0} /\ v.moves[k].leg \in Rows(w.moves)
        <4>1. w.moves[k].next \in Rows(w.moves) \cup {0} /\ w.moves[k].leg \in Rows(w.moves)
          BY <1>0 DEF Data, Linked
        <4> QED BY <1>6, <1>9, <4>1
      <3> QED BY <1>8, <3>1 DEF Linked
    <2>2. \A k \in Rows(w.moves) : v.moves[k].leg = w.moves[k].leg BY <1>6, <1>9
    <2>3. ASSUME NEW k \in Frozen(t)
          PROVE  /\ v.moves[k].state \in {"done", "assigned"}
                 /\ v.moves[k].qty = t[k].qty /\ v.moves[k].src = t[k].src /\ v.moves[k].dst = t[k].dst
      <3>1. k \in Move \ {m} BY DEF Frozen
      <3>2. /\ w.moves[k].state \in {"done", "assigned"}
            /\ w.moves[k].qty = t[k].qty /\ w.moves[k].src = t[k].src /\ w.moves[k].dst = t[k].dst
        BY <1>0 DEF Data
      <3> QED BY <1>6, <3>1, <3>2
    <2>4. \A k \in Rows(w.moves) : Surplus(v, t, due, k) = Surplus(w, t, owed, k)
      <3>1. ASSUME NEW k \in Rows(w.moves), k # m PROVE Surplus(v, t, due, k) = Surplus(w, t, owed, k)
        <4>1. v.moves[k] = w.moves[k] /\ due[k] = owed[k] BY <1>4, <1>6, <1>9, <3>1
        <4> QED BY <4>1 DEF Surplus
      <3> QED BY <1>3, <3>1
    <2>5. v.wrote \subseteq Rows(w.moves) /\ w.wrote \subseteq v.wrote /\ \A k \in Move \ v.wrote : v.moves[k] = w.moves[k]
      BY <1>0, <1>2, <1>6 DEF Data
    <2>6. \A k \in Move \ Rows(w.moves) : due[k] = 0 BY <1>0, <1>4 DEF Data
    <2> QED BY <1>0, <1>2, <1>4, <1>8, <2>1, <2>2, <2>3, <2>4, <2>5, <2>6, DataUpdate
  <1>11. Agenda(v, t, due, X)
    <2>1. \A k \in Rows(w.moves) \ X : v.moves[k].qty = w.moves[k].qty BY <1>6, <1>9
    <2>2. \A k \in Move \ X : due[k] = owed[k] BY <1>4
    <2>3. Rows(w.moves) \subseteq Rows(v.moves) BY <1>8
    <2> QED BY <1>1, <1>2, <1>9, <2>1, <2>2, <2>3, AgendaSame DEF Sound
  <1> QED BY <1>2, <1>8, <1>10, <1>11 DEF Sound, v, due

\* A row that may be created when the moves X are held, and what they owe then.
MayInsert(w, t, F, owed, X, row, due) ==
    /\ Sound(w, t, F, owed, X) /\ X \subseteq Move /\ w.free # {} /\ row \in Row
    /\ row.next \in Rows(w.moves) \cup {0} /\ row.leg \in Rows(w.moves) \cup {NewId(w)}
    /\ due \in [Move -> Int] /\ \A m \in Move : m \notin X \/ m \notin Rows(w.moves) => due[m] = owed[m]
    /\ \A l \in Move \ F : Sum(Net(Insert(w, row), t, due, l), Move) = 0

LEMMA InsertSound ==
  ASSUME NEW w, NEW t, NEW F, NEW owed, NEW X, NEW row, NEW due, MayInsert(w, t, F, owed, X, row, due)
  PROVE  /\ Sound(Insert(w, row), t, F, due, X)
         /\ Rows(Insert(w, row).moves) = Rows(w.moves) \cup {NewId(w)}
         /\ X # {} => Sound(Insert(w, row), t, F, due, X \cup {NewId(w)})
  <1> DEFINE v == Insert(w, row)
             n == NewId(w)
  <1> USE DEF MayInsert
  <1>0. Data(w, t, F, owed) /\ Agenda(w, t, owed, X) BY DEF Sound
  <1>1. w \in Requests /\ w.moves \in Table BY <1>0, Fields DEF Data
  <1>2. /\ n \in w.free /\ n \in Move /\ v \in Requests
        /\ v.moves = [w.moves EXCEPT ![n] = row] /\ v.wrote = w.wrote \cup {n}
        /\ v.free = w.free \ {n} /\ v.todo = w.todo
    BY <1>1, InsertIs
  <1>3. \A l \in Move \ F : Sum(Net(v, t, due, l), Move) = 0 OBVIOUS
  <1>13. X \subseteq Move /\ due \in [Move -> Int] /\ \A m \in Move : m \notin X \/ m \notin Rows(w.moves) => due[m] = owed[m] OBVIOUS
  <1>4. row \in Row /\ row.next \in Rows(w.moves) \cup {0} /\ row.leg \in Rows(w.moves) \cup {n} OBVIOUS
  <1> HIDE DEF v, n, MayInsert
  <1>5. v.moves[n] = row /\ \A m \in Move \ {n} : v.moves[m] = w.moves[m]
    BY <1>1, <1>2 DEF Table
  <1>6. n \notin Rows(w.moves) /\ n \in F BY <1>0, <1>2 DEF Data
  <1>7. Rows(v.moves) = Rows(w.moves) \cup {n}
    <2>1. row.state # "none" BY <1>4 DEF Row, Open, Ended
    <2> QED BY <1>2, <1>5, <2>1 DEF Rows
  <1>8. Rows(w.moves) \subseteq Move \ {n} /\ Rows(t) \subseteq Rows(w.moves) BY <1>0, <1>6 DEF Rows, Data
  <1>9. Data(v, t, F, due)
    <2>1. Linked(v.moves)
      <3>1. ASSUME NEW m \in Rows(w.moves)
            PROVE v.moves[m].next \in Rows(v.moves) \cup {0} /\ v.moves[m].leg \in Rows(v.moves)
        <4>1. w.moves[m].next \in Rows(w.moves) \cup {0} /\ w.moves[m].leg \in Rows(w.moves)
          BY <1>0 DEF Data, Linked
        <4> QED BY <1>5, <1>7, <1>8, <4>1
      <3>2. v.moves[n].next \in Rows(v.moves) \cup {0} /\ v.moves[n].leg \in Rows(v.moves) BY <1>4, <1>5, <1>7
      <3> QED BY <1>7, <3>1, <3>2 DEF Linked
    <2>2. \A m \in Rows(t) : v.moves[m].leg = t[m].leg BY <1>0, <1>5, <1>8 DEF Data
    <2>3. \A m \in Frozen(t) :
            /\ v.moves[m].state \in {"done", "assigned"}
            /\ v.moves[m].qty = t[m].qty /\ v.moves[m].src = t[m].src /\ v.moves[m].dst = t[m].dst
      <3>1. Frozen(t) \subseteq Move \ {n} BY <1>8 DEF Frozen, Rows
      <3> QED BY <1>0, <1>5, <3>1 DEF Data
    <2>4. \A m \in Move \ Rows(v.moves) : due[m] = 0 BY <1>0, <1>7, <1>13 DEF Data
    <2>5. v.free \subseteq F /\ v.free \cap Rows(v.moves) = {} BY <1>0, <1>2, <1>7 DEF Data
    <2>6. /\ Rows(t) \subseteq Rows(v.moves) /\ Rows(v.moves) \subseteq Rows(t) \cup (v.wrote \cap F)
          /\ v.wrote \subseteq Rows(v.moves)
      BY <1>0, <1>2, <1>6, <1>7 DEF Data
    <2>7. \A m \in Move \ v.wrote : v.moves[m] = t[m] BY <1>0, <1>2, <1>5 DEF Data
    <2> QED BY <1>0, <1>2, <1>3, <2>1, <2>2, <2>3, <1>13, <2>4, <2>5, <2>6, <2>7 DEF Data
  <1>10. \A m \in Rows(w.moves) : v.moves[m].qty = w.moves[m].qty BY <1>5, <1>8
  <1>11. Agenda(v, t, due, X)
    <2>1. \A m \in Rows(w.moves) \ X : v.moves[m].qty = w.moves[m].qty BY <1>10
    <2>2. \A m \in Move \ X : due[m] = owed[m] BY <1>13
    <2>3. Rows(w.moves) \subseteq Rows(v.moves) BY <1>7
    <2>4. v.todo = w.todo /\ Rows(t) \subseteq Rows(w.moves) BY <1>2, <1>8
    <2> QED BY <1>0, <1>1, <2>1, <2>2, <2>3, <2>4, AgendaSame
  <1>12. ASSUME X # {} PROVE Agenda(v, t, due, X \cup {n})
    <2>1. ASSUME NEW i \in DOMAIN v.todo PROVE n \notin Target(v.todo[i])
      <3> DEFINE c == w.todo[i]
      <3>1. v.todo[i] = c /\ i \in DOMAIN w.todo BY <1>2
      <3>2. c \in Calls BY <1>1, <3>1, Fields
      <3>3. Fits(w, t, owed, c) /\ Target(c) \cap X = {} BY <1>0, <3>1 DEF Agenda
      <3> HIDE DEF c
      <3>4. Names(c) \subseteq Rows(w.moves) BY <3>3 DEF Fits
      <3>5. CASE c.do = "assign_lines"
        <4>1. Target(c) = Move BY <3>5 DEF Target
        <4> QED BY <1>12, <1>13, <3>3, <4>1
      <3>6. CASE c.do # "assign_lines"
        <4>1. Target(c) \subseteq Names(c) BY <3>6 DEF Target, Names
        <4> QED BY <1>6, <3>1, <3>4, <4>1
      <3> QED BY <3>5, <3>6
    <2> QED BY <1>11, <2>1 DEF Agenda
  <1> QED BY <1>7, <1>9, <1>11, <1>12 DEF Sound, v, n

\* ... for a demand of its own,
LEMMA InsertNew ==
  ASSUME NEW w, NEW t, NEW F, NEW owed, NEW X \in SUBSET Move, Sound(w, t, F, owed, X), w.free # {},
         NEW row \in Row, row.next \in Rows(w.moves) \cup {0}, row.leg = NewId(w)
  PROVE  /\ Sound(Insert(w, row), t, F, owed, X)
         /\ Rows(Insert(w, row).moves) = Rows(w.moves) \cup {NewId(w)}
  <1> DEFINE v == Insert(w, row)
             n == NewId(w)
  <1>0. Data(w, t, F, owed) BY DEF Sound
  <1>1. w \in Requests /\ w.moves \in Table /\ owed \in [Move -> Int] BY <1>0, Fields DEF Data
  <1>2. n \in w.free /\ n \in Move /\ v.moves = [w.moves EXCEPT ![n] = row] BY <1>1, InsertIs
  <1>3. n \notin Rows(w.moves) /\ n \in F BY <1>0, <1>2 DEF Data
  <1>4. v.moves[n] = row /\ \A m \in Move \ {n} : v.moves[m] = w.moves[m] BY <1>1, <1>2 DEF Table
  <1>5. row.leg = n OBVIOUS
  <1> HIDE DEF v, n
  <1>6. ASSUME NEW l \in Move \ F PROVE Sum(Net(v, t, owed, l), Move) = 0
    <2>1. ASSUME NEW m \in Move PROVE Net(v, t, owed, l)[m] = Net(w, t, owed, l)[m]
      <3>1. CASE m = n
        <4>1. m \notin Leg(v.moves, l) BY <1>3, <1>4, <1>5, <3>1 DEF Leg
        <4>2. m \notin Leg(w.moves, l) BY <1>3, <3>1 DEF Leg
        <4> QED BY <4>1, <4>2 DEF Net
      <3>2. CASE m # n
        <4>1. v.moves[m] = w.moves[m] BY <1>4, <3>2
        <4> QED BY <4>1 DEF Net, Leg, Rows, Surplus
      <3> QED BY <3>1, <3>2
    <2>2. Net(v, t, owed, l) = Net(w, t, owed, l) BY <2>1 DEF Net
    <2> QED BY <1>0, <2>2 DEF Data
  <1>7. MayInsert(w, t, F, owed, X, row, owed) BY <1>1, <1>5, <1>6 DEF MayInsert, n, v
  <1> QED BY <1>7, InsertSound

\* ... or as a part of a move that is held, which owes it from then on.
Owing(owed, a, d) == [owed EXCEPT ![a] = d]

MayPart(w, t, F, owed, X, row, a) ==
    /\ Sound(w, t, F, owed, X) /\ X \subseteq Move /\ w.free # {} /\ row \in Row
    /\ row.next \in Rows(w.moves) \cup {0} /\ a \in Rows(w.moves) \cap X /\ row.leg = w.moves[a].leg

LEMMA InsertPart ==
  ASSUME NEW w, NEW t, NEW F, NEW owed, NEW X, NEW row, NEW a, MayPart(w, t, F, owed, X, row, a)
  PROVE  /\ Sound(Insert(w, row), t, F, Owing(owed, a, owed[a] - row.qty), X \cup {NewId(w)})
         /\ Rows(Insert(w, row).moves) = Rows(w.moves) \cup {NewId(w)}
         /\ Owing(owed, a, owed[a] - row.qty)[NewId(w)] = 0
  <1> DEFINE v == Insert(w, row)
             n == NewId(w)
             due == [owed EXCEPT ![a] = owed[a] - row.qty]
  <1> USE DEF MayPart, Owing
  <1>0. Data(w, t, F, owed) BY DEF Sound
  <1>1. w \in Requests /\ w.moves \in Table /\ owed \in [Move -> Int] /\ a \in Move
    BY <1>0, Fields DEF Data, Rows
  <1>2. /\ n \in w.free /\ n \in Move /\ v \in Requests /\ v.moves = [w.moves EXCEPT ![n] = row]
        /\ v.wrote = w.wrote \cup {n} /\ v.free = w.free \ {n} BY <1>1, InsertIs
  <1>3. n \notin Rows(w.moves) /\ n \in F /\ n \notin Rows(t) BY <1>0, <1>2 DEF Data
  <1>4. v.moves[n] = row /\ \A m \in Move \ {n} : v.moves[m] = w.moves[m] BY <1>1, <1>2 DEF Table
  <1>5. row.qty \in Int /\ row.state # "none" BY DEF Row, Open, Ended
  <1>6. due \in [Move -> Int] /\ due[a] = owed[a] - row.qty /\ \A m \in Move \ {a} : due[m] = owed[m]
    BY <1>1, <1>5
  <1>7. a # n BY <1>3
  <1>8. owed[n] = 0 /\ due[n] = 0 BY <1>0, <1>2, <1>3, <1>6, <1>7 DEF Data
  <1> HIDE DEF v, n, due
  <1>9. ASSUME NEW l \in Move \ F PROVE Sum(Net(v, t, due, l), Move) = 0
    <2> DEFINE f == Net(v, t, due, l)
               g == Net(w, t, owed, l)
    <2>1. \A m \in Move \ {a, n} : f[m] = g[m]
      <3> SUFFICES ASSUME NEW m \in Move \ {a, n} PROVE f[m] = g[m]
        OBVIOUS
      <3>1. v.moves[m] = w.moves[m] /\ due[m] = owed[m] BY <1>4, <1>6
      <3> QED BY <3>1 DEF Net, Leg, Rows, Surplus
    <2>2. v.moves[a] = w.moves[a] BY <1>1, <1>4, <1>7
    <2>3. n \in Leg(v.moves, l) <=> w.moves[a].leg = l BY <1>2, <1>4, <1>5 DEF Leg, Rows
    <2>4. a \in Leg(v.moves, l) <=> w.moves[a].leg = l BY <2>2 DEF Leg, Rows
    <2>5. a \in Leg(w.moves, l) <=> w.moves[a].leg = l BY DEF Leg
    <2>6. n \notin Leg(w.moves, l) BY <1>3 DEF Leg
    <2>7. g[n] = 0 BY <1>2, <2>6 DEF Net
    <2>8. f[n] = IF w.moves[a].leg = l THEN row.qty ELSE 0
      <3>1. Surplus(v, t, due, n) = row.qty + 0 - 0 BY <1>3, <1>4, <1>8 DEF Surplus
      <3> QED BY <1>2, <1>5, <2>3, <3>1 DEF Net
    <2>9. \A m \in Move : g[m] \in Int BY <1>0, NetInt
    <2>10. Surplus(v, t, due, a) = Surplus(w, t, owed, a) - row.qty
      <3> DEFINE z == IF a \in Rows(t)
                      THEN t[a].qty + (IF w.moves[a].qty > t[a].qty THEN w.moves[a].qty - t[a].qty ELSE 0)
                      ELSE 0
      <3>1. w.moves[a].qty \in Int BY <1>1, Rowed DEF Row
      <3>2. a \in Rows(t) => t[a].qty \in Int BY <1>0, <1>1, Rowed DEF Data, Base, Row
      <3>3. z \in Int BY <3>1, <3>2
      <3>4. Surplus(v, t, due, a) = w.moves[a].qty + due[a] - z BY <2>2 DEF Surplus
      <3>5. Surplus(w, t, owed, a) = w.moves[a].qty + owed[a] - z BY DEF Surplus
      <3> HIDE DEF z
      <3>6. owed[a] \in Int BY <1>1
      <3> QED BY <1>5, <1>6, <3>1, <3>3, <3>4, <3>5, <3>6
    <2>11. f[a] = IF w.moves[a].leg = l THEN g[a] - row.qty ELSE g[a]
      BY <1>1, <2>4, <2>5, <2>10 DEF Net
    <2>12. f[a] + f[n] = g[a] + g[n] /\ f[a] \in Int /\ f[n] \in Int
      <3>1. g[a] \in Int BY <1>1, <2>9
      <3> HIDE DEF f, g
      <3> QED BY <1>5, <2>7, <2>8, <2>11, <3>1
    <2>13. \A m \in Move : f[m] \in Int BY <2>1, <2>9, <2>12
    <2> HIDE DEF f, g
    <2>14. Sum(f, Move) = Sum(g, Move)
      BY <1>1, <1>2, <1>7, <2>1, <2>9, <2>12, <2>13, MoveFinite, SumMoved
    <2>15. Sum(g, Move) = 0 BY <1>0 DEF Data, g
    <2> QED BY <2>14, <2>15 DEF f
  <1>10. row.leg \in Rows(w.moves) BY <1>0 DEF Data, Linked
  <1>11. MayInsert(w, t, F, owed, X, row, due) BY <1>6, <1>9, <1>10 DEF MayInsert, v
  <1>12. X # {} OBVIOUS
  <1>14. /\ Rows(v.moves) = Rows(w.moves) \cup {n}
         /\ Sound(v, t, F, due, X \cup {n})
    BY <1>11, <1>12, InsertSound DEF v, n
  <1> QED BY <1>8, <1>14 DEF v, n, due

-----------------------------------------------------------------------------
(* Calls that change no quantity.                                            *)

\* What a method leaves behind: it has raised, or all is sound.
After(v, t, F, owed, X) == v \in Requests /\ (v.ok => Sound(v, t, F, owed, X))

LEMMA RaiseSound ==
  ASSUME NEW w, NEW t, NEW F, NEW owed, NEW X, Sound(w, t, F, owed, X), NEW due, NEW Y
  PROVE  After(Raise(w), t, F, due, Y)
  BY RaiseIs DEF Sound, Data, After

LEMMA SoundIs ==
  ASSUME NEW w, NEW t, NEW F, NEW owed, NEW X, Sound(w, t, F, owed, X)
  PROVE  /\ w \in Requests /\ w.moves \in Table /\ owed \in [Move -> Int] /\ t \in Table
         /\ Rows(w.moves) \subseteq Move /\ Rows(t) \subseteq Rows(w.moves) /\ Linked(w.moves)
         /\ Frozen(t) \subseteq Rows(t) /\ After(w, t, F, owed, X)
         /\ \A m \in Rows(w.moves) : w.moves[m] \in Row
         /\ \A m \in Rows(t) : w.moves[m].leg = t[m].leg
         /\ \A m \in Frozen(t) : w.moves[m].state \in {"done", "assigned"}
  <1>1. w \in Requests /\ owed \in [Move -> Int] /\ t \in Table /\ Rows(t) \subseteq Rows(w.moves) /\ Linked(w.moves)
        /\ (\A m \in Rows(t) : w.moves[m].leg = t[m].leg)
        /\ (\A m \in Frozen(t) : w.moves[m].state \in {"done", "assigned"})
    BY DEF Sound, Data, Base
  <1>2. w.moves \in Table /\ Rows(w.moves) \subseteq Move BY <1>1, Fields
  <1>3. \A m \in Rows(w.moves) : w.moves[m] \in Row BY <1>2, Rowed
  <1>4. Frozen(t) \subseteq Rows(t) BY DEF Frozen, Rows
  <1> QED BY <1>1, <1>2, <1>3, <1>4 DEF After

LEMMA PutSame ==
  ASSUME NEW w, NEW t, NEW F, NEW owed, NEW X, Sound(w, t, F, owed, X),
         NEW m \in Rows(w.moves) \ Frozen(t), NEW row \in Row,
         row.leg = w.moves[m].leg, row.qty = w.moves[m].qty, row.next \in Rows(w.moves) \cup {0}
  PROVE  Sound(Put(w, m, row), t, F, owed, X) /\ Rows(Put(w, m, row).moves) = Rows(w.moves)
  <1>1. w \in Requests /\ w.moves \in Table /\ m \in Move /\ owed \in [Move -> Int] BY SoundIs
  <1>2. Put(w, m, row).moves = [w.moves EXCEPT ![m] = row] BY <1>1, PutIs
  <1>3. Put(w, m, row).moves[m] = row BY <1>1, <1>2 DEF Table
  <1>4. [owed EXCEPT ![m] = owed[m]] = owed /\ owed[m] \in Int BY <1>1
  <1>5. Surplus(Put(w, m, row), t, owed, m) = Surplus(w, t, owed, m) BY <1>3 DEF Surplus
  <1> QED BY <1>4, <1>5, PutSound

\* Calls that may wait for their turn beside any other.
PlainCalls == {"confirm", "chain", "force", "done", "process", "release", "end", "confirm_lines", "move_lines"}

LEMMA PushPlain ==
  ASSUME NEW w, NEW t, NEW F, NEW owed, NEW X, Sound(w, t, F, owed, X),
         NEW c \in Calls, c.do \in PlainCalls,
         Names(c) \subseteq Rows(w.moves), Changes(c) \cap Frozen(t) = {}
  PROVE  Sound(Call(w, c), t, F, owed, X)
  <1>1. Target(c) = {} BY DEF Target, PlainCalls
  <1>2. Fits(w, t, owed, c) BY <1>1 DEF Fits, PlainCalls
  <1>3. Sound(Call(w, c), t, F, owed, X \ Target(c)) BY <1>1, <1>2, Push
  <1> QED BY <1>1, <1>3

LEMMA PushIds ==
  ASSUME NEW w, NEW t, NEW F, NEW owed, NEW X, Sound(w, t, F, owed, X),
         NEW do \in {"confirm", "force", "done", "process", "release", "end"},
         NEW ids \in SUBSET Rows(w.moves), do = "confirm" => ids \cap Frozen(t) = {}
  PROVE  /\ Sound(Call(w, [do |-> do, ids |-> ids]), t, F, owed, X)
         /\ Call(w, [do |-> do, ids |-> ids]).moves = w.moves
         /\ Call(w, [do |-> do, ids |-> ids]).ok = w.ok
  <1> DEFINE c == [do |-> do, ids |-> ids]
  <1>1. w \in Requests /\ ids \subseteq Move BY SoundIs
  <1>2. c \in Calls BY <1>1 DEF Calls, IdsCalls
  <1>3. Names(c) = ids /\ (do # "confirm" => Changes(c) = {}) /\ Changes(c) \subseteq ids
        /\ c.do \in PlainCalls
    BY DEF Names, Changes, PlainCalls
  <1> HIDE DEF c
  <1>4. Sound(Call(w, c), t, F, owed, X) BY <1>2, <1>3, PushPlain
  <1> QED BY <1>1, <1>2, <1>4, CallIs DEF c

LEMMA FreePick ==
  ASSUME NEW w, FreePicks(w) # {}
  PROVE  Min(FreePicks(w)) \in Nat
  <1>1. FreePicks(w) \in SUBSET Nat BY StockAssumption DEF FreePicks
  <1> QED BY <1>1, MinIn

LEMMA Chain1Sound ==
  ASSUME NEW w, NEW t, NEW F, NEW owed, NEW X, Sound(w, t, F, owed, X),
         NEW ids \in SUBSET Rows(w.moves), ids \cap Frozen(t) = {}
  PROVE  After(Chain1(w, ids), t, F, owed, X)
  <1>1. CASE FreePicks(w) = {} BY <1>1, RaiseSound DEF Chain1
  <1>2. CASE FreePicks(w) # {}
    <2> DEFINE c == [do |-> "chain", ids |-> ids, new |-> {}, pick |-> Min(FreePicks(w))]
    <2>1. ids \subseteq Move BY SoundIs
    <2>2. c \in Calls BY <1>2, <2>1, FreePick DEF Calls, ChainCalls
    <2>3. Names(c) = ids /\ Changes(c) \subseteq ids /\ c.do \in PlainCalls BY DEF Names, Changes, PlainCalls
    <2>4. Chain1(w, ids) = Call(w, c) BY <1>2 DEF Chain1
    <2> HIDE DEF c
    <2>5. Sound(Call(w, c), t, F, owed, X) BY <2>2, <2>3, PushPlain
    <2> QED BY <2>4, <2>5, SoundIs
  <1> QED BY <1>1, <1>2

LEMMA ConfirmSound ==
  ASSUME NEW w, NEW t, NEW F, NEW owed, NEW X, Sound(w, t, F, owed, X),
         NEW ids \in SUBSET Rows(w.moves), ids \cap Frozen(t) = {}
  PROVE  After(Confirm(w, ids), t, F, owed, X)
  <1>1. CASE ids = {} BY <1>1, SoundIs DEF Confirm
  <1>2. CASE ids # {}
    <2> DEFINE v == SetState(w, ids, "confirmed")
    <2>1. "confirmed" \in Open \cup Ended BY DEF Open
    <2>2. Sound(v, t, F, owed, X) /\ Rows(v.moves) = Rows(w.moves) BY <2>1, SetStateSound
    <2>3. Confirm(w, ids) = Chain1(v, ids) BY <1>2 DEF Confirm
    <2> HIDE DEF v
    <2> QED BY <2>2, <2>3, Chain1Sound
  <1> QED BY <1>1, <1>2

LEMMA Least ==
  ASSUME NEW S \in SUBSET Move, S # {}
  PROVE  Min(S) \in S
  BY MinIn DEF Move

LEMMA ChainedSound ==
  ASSUME NEW w, NEW t, NEW F, NEW owed, Sound(w, t, F, owed, {}),
         NEW c \in ChainCalls, Fits(w, t, owed, c)
  PROVE  After(Chained(w, c), t, F, owed, {})
  <1>1. c.ids \in SUBSET Move /\ c.new \in SUBSET Move /\ c.pick \in Nat /\ c.do = "chain" BY DEF ChainCalls
  <1>2. c.ids \subseteq Rows(w.moves) /\ c.new \subseteq Rows(w.moves)
        /\ c.ids \cap Frozen(t) = {} /\ c.new \cap Frozen(t) = {}
    BY <1>1 DEF Fits, Names, Changes
  <1>3. CASE c.ids = {}
    <2>1. CASE c.new = {} BY <1>3, <2>1, SoundIs DEF Chained
    <2>2. CASE c.new # {} BY <1>2, <1>3, <2>2, Chain1Sound DEF Chained
    <2> QED BY <2>1, <2>2
  <1>4. CASE c.ids # {}
    <2> DEFINE m == Min(c.ids)
               n == NewId(w)
               row == w.moves[m]
               here == Arrive[row.dst]
               moved == IF here = row.dst THEN w ELSE Put(w, m, [row EXCEPT !.dst = here])
               onward == [row EXCEPT !.state = "waiting", !.src = here, !.dst = Chain[here], !.incoming = FALSE,
                                     !.pick = IF @ = 0 THEN 0 ELSE c.pick, !.leg = n]
               made == Insert(moved, onward)
               linked == Put(made, m, [moved.moves[m] EXCEPT !.next = n])
               rest == [c EXCEPT !.ids = @ \ {m}]
               more == [rest EXCEPT !.new = @ \cup {n}]
    <2>0. Chained(w, c) = IF Chain[here] = None THEN Call(moved, rest)
                          ELSE IF w.free = {} THEN Raise(w)
                          ELSE Call(linked, more)
      BY <1>4 DEF Chained
    <2>1. m \in Rows(w.moves) \ Frozen(t) /\ m \in c.ids /\ m \in Move BY <1>1, <1>2, <1>4, Least
    <2>2. row \in Row /\ row.next \in Rows(w.moves) \cup {0} /\ w \in Requests /\ w.moves \in Table
      BY <2>1, SoundIs DEF Linked
    <2>3. here \in Location /\ Chain[here] \in Location \cup {None}
      BY <2>2, StockAssumption DEF Row
    <2>4. [row EXCEPT !.dst = here] \in Row /\ [row EXCEPT !.dst = here].leg = row.leg
          /\ [row EXCEPT !.dst = here].qty = row.qty /\ [row EXCEPT !.dst = here].next = row.next
      <3> HIDE DEF here, row
      <3> QED BY <2>2, <2>3 DEF Row
    <2>5. /\ Sound(moved, t, F, owed, {}) /\ Rows(moved.moves) = Rows(w.moves)
          /\ moved.free = w.free /\ moved.moves[m] \in Row
          /\ moved.moves[m].qty = row.qty /\ moved.moves[m].leg = row.leg
      <3>1. CASE here = row.dst BY <2>2, <3>1
      <3>2. CASE here # row.dst
        <4> DEFINE new == [row EXCEPT !.dst = here]
                   v == Put(w, m, new)
        <4>1. moved = v BY <3>2
        <4>2. new \in Row /\ new.leg = w.moves[m].leg /\ new.qty = w.moves[m].qty
              /\ new.next \in Rows(w.moves) \cup {0}
          BY <2>2, <2>4
        <4> HIDE DEF new, moved, here, row, m
        <4>3. Sound(v, t, F, owed, {}) /\ Rows(v.moves) = Rows(w.moves) BY <2>1, <4>2, PutSame
        <4>4. v.free = w.free /\ v.moves = [w.moves EXCEPT ![m] = new]
          BY <2>1, <2>2, <4>2, PutIs
        <4>5. v.moves[m] = new
          <5> HIDE DEF v
          <5> QED BY <2>1, <2>2, <4>4 DEF Table
        <4> HIDE DEF v
        <4>6. new.qty = row.qty /\ new.leg = row.leg BY <2>4 DEF new
        <4> QED BY <4>1, <4>2, <4>3, <4>4, <4>5, <4>6
      <3> QED BY <3>1, <3>2
    <2>6. rest \in ChainCalls /\ rest.do = "chain" /\ rest.ids = c.ids \ {m} /\ rest.new = c.new
      BY DEF ChainCalls
    <2>7. NewId(moved) = n BY <2>5 DEF NewId
    <2> HIDE DEF moved, rest
    <2>8. CASE Chain[here] = None
      <3>1. rest \in Calls BY <2>6 DEF Calls
      <3>2. Names(rest) \subseteq Rows(moved.moves) /\ Changes(rest) \cap Frozen(t) = {} /\ rest.do \in PlainCalls
        BY <1>2, <2>5, <2>6 DEF Names, Changes, PlainCalls
      <3>3. Sound(Call(moved, rest), t, F, owed, {}) BY <2>5, <3>1, <3>2, PushPlain
      <3> QED BY <2>0, <2>8, <3>3, SoundIs
    <2>9. CASE Chain[here] # None /\ w.free = {} BY <2>0, <2>9, RaiseSound
    <2>10. CASE Chain[here] # None /\ w.free # {}
      <3>1. n \in w.free /\ n \in Move
        BY <2>2, <2>10, InsertIs
      <3>2. onward \in Row /\ onward.leg = n /\ onward.next = row.next
        <4> HIDE DEF here, n, row
        <4> QED BY <1>1, <2>2, <2>3, <2>10, <3>1 DEF Row, Open
      <3> HIDE DEF onward
      <3>3. Sound(made, t, F, owed, {}) /\ Rows(made.moves) = Rows(w.moves) \cup {n}
        BY <2>2, <2>5, <2>7, <2>10, <3>2, InsertNew
      <3>4. made.moves = [moved.moves EXCEPT ![n] = onward]
        BY <2>5, <2>7, <2>10, <3>2, SoundIs, InsertIs
      <3>5. n \notin Rows(w.moves) /\ n \notin Frozen(t) /\ m # n
        <4>1. w.free \cap Rows(w.moves) = {} BY DEF Sound, Data
        <4>2. n \notin Rows(w.moves) BY <3>1, <4>1
        <4> QED BY <2>1, <4>2, SoundIs
      <3>6. made.moves[m] = moved.moves[m]
        <4>1. moved.moves \in Table BY <2>5, SoundIs
        <4> QED BY <2>1, <3>4, <3>5, <4>1 DEF Table
      <3> DEFINE last == [moved.moves[m] EXCEPT !.next = n]
      <3>7. last \in Row /\ last.leg = made.moves[m].leg /\ last.qty = made.moves[m].qty /\ last.next = n
        BY <2>5, <3>1, <3>6 DEF Row
      <3>8. m \in Rows(made.moves) \ Frozen(t) BY <2>1, <3>3
      <3>9. n \in Rows(made.moves) \cup {0} BY <3>3
      <3> HIDE DEF made, last
      <3>10. Sound(Put(made, m, last), t, F, owed, {}) /\ Rows(Put(made, m, last).moves) = Rows(made.moves)
        BY <3>3, <3>7, <3>8, <3>9, PutSame
      <3>11. linked = Put(made, m, last) BY DEF last
      <3> HIDE DEF linked
      <3>12. more \in ChainCalls /\ more.do = "chain" /\ more.ids = c.ids \ {m} /\ more.new = c.new \cup {n}
        BY <2>6, <3>1 DEF ChainCalls
      <3> HIDE DEF more
      <3>13. Names(more) \subseteq Rows(linked.moves) /\ Changes(more) \cap Frozen(t) = {} /\ more.do \in PlainCalls
        BY <1>2, <3>3, <3>5, <3>10, <3>11, <3>12 DEF Names, Changes, PlainCalls
      <3>14. more \in Calls BY <3>12 DEF Calls
      <3>15. Sound(Call(linked, more), t, F, owed, {}) BY <3>10, <3>11, <3>13, <3>14, PushPlain
      <3> QED BY <2>0, <2>10, <3>15, SoundIs
    <2> QED BY <2>8, <2>9, <2>10
  <1> QED BY <1>3, <1>4

\* Calls that are made on the moves that are in some state.
LEMMA StateSets ==
  ASSUME NEW w, NEW t, NEW F, NEW owed, NEW X, Sound(w, t, F, owed, X), NEW p, NEW S
  PROVE  /\ InState(w.moves, p, S) \subseteq Rows(w.moves)
         /\ S \cap {"done", "assigned"} = {} => InState(w.moves, p, S) \cap Frozen(t) = {}
         /\ LinesOf(w.moves, p) \subseteq Rows(w.moves)
  <1>1. \A m \in Frozen(t) : w.moves[m].state \in {"done", "assigned"} BY SoundIs
  <1> QED BY <1>1 DEF InState, LinesOf

LEMMA DoneSound ==
  ASSUME NEW w, NEW t, NEW F, NEW owed, NEW X, Sound(w, t, F, owed, X), NEW ids \in SUBSET Rows(w.moves)
  PROVE  After(Done(w, ids), t, F, owed, X)
  <1> DEFINE draft == {m \in ids : w.moves[m].state = "draft"}
             v == Call(w, [do |-> "process", ids |-> ids])
  <1>1. Sound(v, t, F, owed, X) /\ v.moves = w.moves BY PushIds
  <1>2. draft \cap Frozen(t) = {}
    <2>1. \A m \in Frozen(t) : w.moves[m].state \in {"done", "assigned"} BY SoundIs
    <2> QED BY <2>1
  <1>3. Done(w, ids) = Call(v, [do |-> "confirm", ids |-> draft]) BY DEF Done
  <1>4. draft \in SUBSET Rows(w.moves) OBVIOUS
  <1> HIDE DEF v, draft
  <1>5. Sound(Call(v, [do |-> "confirm", ids |-> draft]), t, F, owed, X) BY <1>1, <1>2, <1>4, PushIds
  <1> QED BY <1>3, <1>5, SoundIs

LEMMA ProcessSound ==
  ASSUME NEW w, NEW t, NEW F, NEW owed, NEW X, Sound(w, t, F, owed, X), NEW ids \in SUBSET Rows(w.moves)
  PROVE  After(Process(w, ids), t, F, owed, X)
  <1> DEFINE open == {m \in ids : w.moves[m].state \notin Ended}
             waiting == {m \in open : w.moves[m].state = "waiting"}
             u == Call(w, [do |-> "end", ids |-> open])
             v == Call(u, [do |-> "confirm", ids |-> waiting])
  <1>1. open \in SUBSET Rows(w.moves) /\ waiting \in SUBSET Rows(w.moves) OBVIOUS
  <1>2. waiting \cap Frozen(t) = {}
    <2>1. \A m \in Frozen(t) : w.moves[m].state \in {"done", "assigned"} BY SoundIs
    <2> QED BY <2>1
  <1>3. Process(w, ids) = Call(v, [do |-> "release", ids |-> open]) BY DEF Process
  <1> HIDE DEF open, waiting
  <1>4. Sound(u, t, F, owed, X) /\ u.moves = w.moves BY <1>1, PushIds
  <1> HIDE DEF u
  <1>5. Sound(v, t, F, owed, X) /\ v.moves = w.moves BY <1>1, <1>2, <1>4, PushIds
  <1> HIDE DEF v
  <1>6. Sound(Call(v, [do |-> "release", ids |-> open]), t, F, owed, X) BY <1>1, <1>5, PushIds
  <1> QED BY <1>3, <1>6, SoundIs

LEMMA ReleaseSound ==
  ASSUME NEW w, NEW t, NEW F, NEW owed, NEW X, Sound(w, t, F, owed, X),
         NEW c \in IdsCalls, c.do = "release", c.ids \subseteq Rows(w.moves)
  PROVE  After(Release(w, c), t, F, owed, X)
  <1> DEFINE m == Min(c.ids)
             n == w.moves[m].next
             ids == c.ids \ {m}
             rest == Call(w, [do |-> "release", ids |-> ids])
             forced == SetState(rest, {n}, "assigned")
             last == Call(forced, [do |-> "done", ids |-> {n}])
  <1>1. c.ids \in SUBSET Move /\ [c EXCEPT !.ids = ids] = [do |-> "release", ids |-> ids]
    BY DEF IdsCalls
  <1>2. Release(w, c) = IF c.ids = {} THEN w
                        ELSE IF n = 0 THEN rest
                        ELSE IF Upstream(w.moves, m) # {} \/ w.moves[n].state \notin {"waiting", "confirmed"} THEN rest
                        ELSE IF w.moves[n].auto THEN last
                        ELSE forced
    BY <1>1 DEF Release, ForceAssign
  <1>3. ids \in SUBSET Rows(w.moves) OBVIOUS
  <1>4. c.ids # {} => n \in Rows(w.moves) \cup {0}
    <2> SUFFICES ASSUME c.ids # {} PROVE n \in Rows(w.moves) \cup {0}
      OBVIOUS
    <2>1. m \in c.ids BY <1>1, Least
    <2> QED BY <2>1, SoundIs DEF Linked
  <1> HIDE DEF ids, n
  <1>5. Sound(rest, t, F, owed, X) /\ rest.moves = w.moves BY <1>3, PushIds
  <1> HIDE DEF rest
  <1>6. CASE c.ids = {} BY <1>2, <1>6, SoundIs
  <1>7. CASE c.ids # {} /\ n = 0 BY <1>2, <1>5, <1>7, SoundIs
  <1>8. CASE c.ids # {} /\ n # 0
    <2>1. {n} \in SUBSET Rows(rest.moves) BY <1>4, <1>5, <1>8
    <2>2. "assigned" \in Open \cup Ended BY DEF Open
    <2>3. Sound(forced, t, F, owed, X) /\ Rows(forced.moves) = Rows(rest.moves)
      BY <1>5, <2>1, <2>2, SetStateSound
    <2> HIDE DEF forced
    <2>4. {n} \in SUBSET Rows(forced.moves) BY <2>1, <2>3
    <2>5. Sound(last, t, F, owed, X) BY <2>3, <2>4, PushIds
    <2> HIDE DEF last
    <2> QED BY <1>2, <1>5, <1>8, <2>3, <2>5, SoundIs
  <1> QED BY <1>6, <1>7, <1>8

\* Lines of a picking.
LEMMA PickConfirmSound ==
  ASSUME NEW w, NEW t, NEW F, NEW owed, NEW X, Sound(w, t, F, owed, X), NEW p
  PROVE  After(PickConfirm(w, p), t, F, owed, X) /\ Sound(PickConfirm(w, p), t, F, owed, X)
  <1> DEFINE ids == InState(w.moves, p, {"draft"})
  <1>1. ids \in SUBSET Rows(w.moves) /\ ids \cap Frozen(t) = {} BY StateSets
  <1>2. PickConfirm(w, p) = Call(w, [do |-> "confirm", ids |-> ids]) BY DEF PickConfirm
  <1> HIDE DEF ids
  <1>3. Sound(Call(w, [do |-> "confirm", ids |-> ids]), t, F, owed, X) BY <1>1, PushIds
  <1> QED BY <1>2, <1>3, SoundIs

LEMMA ActionMoveSound ==
  ASSUME NEW w, NEW t, NEW F, NEW owed, NEW X, Sound(w, t, F, owed, X), NEW p
  PROVE  After(ActionMove(w, p), t, F, owed, X)
  <1> DEFINE ids == InState(w.moves, p, {"draft", "confirmed", "assigned"})
  <1>1. ids \in SUBSET Rows(w.moves) BY StateSets
  <1>2. ActionMove(w, p) = Call(w, [do |-> "done", ids |-> ids]) BY DEF ActionMove
  <1> HIDE DEF ids
  <1>3. Sound(Call(w, [do |-> "done", ids |-> ids]), t, F, owed, X) BY <1>1, PushIds
  <1> QED BY <1>2, <1>3, SoundIs

-----------------------------------------------------------------------------
(* Reservation.                                                              *)

\* A reservation that is made later keeps its moves, which owe nothing.
LEMMA PushAssign ==
  ASSUME NEW w, NEW t, NEW F, NEW owed, NEW X, Sound(w, t, F, owed, X),
         NEW ids \in SUBSET Rows(w.moves), ids \subseteq X, ids \cap Frozen(t) = {},
         NEW done \in SUBSET Rows(w.moves),
         \A m \in ids : owed[m] = 0,
         \A m \in ids \cap Rows(t) : w.moves[m].qty = t[m].qty
  PROVE  /\ Sound(Call(w, [do |-> "assign", ids |-> ids, done |-> done]), t, F, owed, X \ ids)
         /\ Call(w, [do |-> "assign", ids |-> ids, done |-> done]).moves = w.moves
  <1> DEFINE c == [do |-> "assign", ids |-> ids, done |-> done]
  <1>1. w \in Requests /\ ids \subseteq Move /\ done \subseteq Move BY SoundIs
  <1>2. c \in Calls BY <1>1 DEF Calls, AssignCalls
  <1>3. c.do = "assign" /\ Names(c) = ids \cup done /\ Changes(c) = ids /\ Target(c) = ids
    BY DEF Names, Changes, Target
  <1> HIDE DEF c
  <1>4. Fits(w, t, owed, c) BY <1>3 DEF Fits
  <1>5. Sound(Call(w, c), t, F, owed, X \ Target(c)) BY <1>2, <1>3, <1>4, Push
  <1> QED BY <1>1, <1>2, <1>3, <1>5, CallIs DEF c

LEMMA LinesAssignSound ==
  ASSUME NEW w, NEW t, NEW F, NEW owed, Sound(w, t, F, owed, Move), NEW p,
         \A m \in Move : owed[m] = 0,
         \A m \in Rows(t) : w.moves[m].qty = t[m].qty
  PROVE  After(LinesAssign(w, p), t, F, owed, {})
  <1> DEFINE ids == InState(w.moves, p, {"confirmed"})
             v == Call(w, [do |-> "assign", ids |-> ids, done |-> {}])
  <1>1. ids \in SUBSET Rows(w.moves) /\ ids \cap Frozen(t) = {} BY StateSets
  <1>2. LinesAssign(w, p) = IF ids = {} THEN Raise(w) ELSE v BY DEF LinesAssign
  <1>3. Rows(w.moves) \subseteq Move BY DEF Rows
  <1> HIDE DEF ids
  <1>4. Sound(v, t, F, owed, Move \ ids) BY <1>1, <1>3, PushAssign
  <1> HIDE DEF v
  <1>5. Sound(v, t, F, owed, {}) BY <1>4, Drop
  <1> QED BY <1>2, <1>5, SoundIs, RaiseSound

\* The pieces of a split, summed up.
LEMMA TotalNat ==
  ASSUME NEW got \in Seq(Part), NEW k \in Nat, k >= 1
  PROVE  Total(got, k) \in Nat
  <1> DEFINE f == [i \in 1 .. Len(got) |-> got[i].qty]
             S == k .. Len(got)
  <1>1. \A i \in S : f[i] \in Nat
    <2> SUFFICES ASSUME NEW i \in S PROVE f[i] \in Nat
      OBVIOUS
    <2>1. i \in 1 .. Len(got) /\ got[i] \in Part OBVIOUS
    <2> QED BY <2>1 DEF Part
  <1>2. IsFiniteSet(S) BY FS_Interval
  <1> HIDE DEF f, S
  <1>3. Sum(f, S) \in Nat BY <1>1, <1>2, SumNat
  <1> QED BY <1>3 DEF Total, f, S

LEMMA TotalEnd ==
  ASSUME NEW got \in Seq(Part), NEW k \in Nat, k > Len(got)
  PROVE  Total(got, k) = 0
  <1>1. k .. Len(got) = {} OBVIOUS
  <1> QED BY <1>1, SumEmpty DEF Total

LEMMA TotalFirst ==
  ASSUME NEW got \in Seq(Part), NEW k \in 1 .. Len(got)
  PROVE  /\ got[k] \in Part
         /\ Total(got, k) = got[k].qty + Total(got, k + 1)
  <1> DEFINE f == [i \in 1 .. Len(got) |-> got[i].qty]
             S == k .. Len(got)
  <1>1. \A i \in S : f[i] \in Int
    <2> SUFFICES ASSUME NEW i \in S PROVE f[i] \in Int
      OBVIOUS
    <2>1. i \in 1 .. Len(got) /\ got[i] \in Part OBVIOUS
    <2> QED BY <2>1 DEF Part
  <1>2. IsFiniteSet(S) BY FS_Interval
  <1>3. k \in S /\ S \ {k} = (k + 1) .. Len(got) /\ f[k] = got[k].qty OBVIOUS
  <1>4. Total(got, k) = Sum(f, S) /\ Total(got, k + 1) = Sum(f, (k + 1) .. Len(got)) BY DEF Total
  <1>5. got[k] \in Part OBVIOUS
  <1> HIDE DEF f, S
  <1>6. Sum(f, S) = f[k] + Sum(f, S \ {k}) BY <1>1, <1>2, <1>3, SumRemove
  <1> QED BY <1>3, <1>4, <1>5, <1>6

LEMMA TotalAppend ==
  ASSUME NEW got \in Seq(Part), NEW p \in Part
  PROVE  /\ Append(got, p) \in Seq(Part)
         /\ Total(Append(got, p), 1) = Total(got, 1) + p.qty
  <1> DEFINE n == Len(got)
             more == Append(got, p)
             f == [i \in 1 .. Len(more) |-> more[i].qty]
             g == [i \in 1 .. n |-> got[i].qty]
             S == 1 .. Len(more)
             U == 1 .. n
  <1>1. n \in Nat /\ more \in Seq(Part) /\ Len(more) = n + 1 OBVIOUS
  <1>2. \A i \in S : f[i] \in Int
    <2> SUFFICES ASSUME NEW i \in S PROVE f[i] \in Int
      OBVIOUS
    <2>1. more[i] \in Part BY <1>1
    <2> QED BY <2>1 DEF Part
  <1>3. IsFiniteSet(S) /\ IsFiniteSet(U) BY <1>1, FS_Interval
  <1>4. n + 1 \in S /\ S \ {n + 1} = U BY <1>1
  <1>5. f[n + 1] = p.qty BY <1>1
  <1>6. \A i \in U : f[i] = g[i] BY <1>1
  <1>7. U \subseteq S BY <1>4
  <1>8. Total(more, 1) = Sum(f, S) /\ Total(got, 1) = Sum(g, U) BY DEF Total
  <1> HIDE DEF f, g, S, U, more, n
  <1>9. Sum(f, S) = f[n + 1] + Sum(f, S \ {n + 1}) BY <1>2, <1>3, <1>4, SumRemove
  <1>10. Sum(f, U) = Sum(g, U) BY <1>2, <1>3, <1>6, <1>7, SumSame
  <1>11. Sum(f, U) \in Int BY <1>2, <1>3, <1>7, SumType
  <1>12. p.qty \in Int BY DEF Part
  <1>13. Total(more, 1) = p.qty + Total(got, 1) /\ Total(got, 1) \in Int
    BY <1>4, <1>5, <1>8, <1>9, <1>10, <1>11
  <1>14. Total(more, 1) = Total(got, 1) + p.qty BY <1>12, <1>13
  <1> QED BY <1>1, <1>14 DEF more

LEMMA AssignSound ==
  ASSUME NEW w, NEW t, NEW F, NEW owed, NEW c \in AssignCalls,
         Sound(w, t, F, owed, c.ids), Fits(w, t, owed, c)
  PROVE  After(Assign(w, c), t, F, owed, {})
  <1> DEFINE m == Min(c.ids)
             row == w.moves[m]
             ids == c.ids \ {m}
             done == c.done \cup {m}
             rest == Call(w, [do |-> "assign", ids |-> ids, done |-> c.done])
             more == Call(w, [do |-> "assign", ids |-> ids, done |-> done])
             find == [do |-> "reserve", move |-> m, left |-> row.qty, from |-> w.order, got |-> << >>,
                      ids |-> ids, done |-> done]
             last == Call(w, find)
  <1>1. /\ c.ids \in SUBSET Move /\ c.done \in SUBSET Move /\ c.do = "assign"
        /\ [c EXCEPT !.ids = ids] = [do |-> "assign", ids |-> ids, done |-> c.done]
    BY DEF AssignCalls
  <1>2. Assign(w, c) = IF c.ids = {} THEN SetState(w, c.done, "assigned")
                       ELSE IF row.state \notin {"confirmed", "waiting"} THEN rest
                       ELSE IF row.src \in Unlimited THEN more
                       ELSE last
    BY <1>1 DEF Assign
  <1>3. c.ids \subseteq Rows(w.moves) /\ c.done \subseteq Rows(w.moves) /\ c.ids \cap Frozen(t) = {}
        /\ (\A k \in c.ids : owed[k] = 0) /\ (\A k \in c.ids \cap Rows(t) : w.moves[k].qty = t[k].qty)
    BY <1>1 DEF Fits, Names, Changes, Target
  <1>4. CASE c.ids = {}
    <2>1. "assigned" \in Open \cup Ended BY DEF Open
    <2>2. Sound(SetState(w, c.done, "assigned"), t, F, owed, {}) BY <1>3, <1>4, <2>1, SetStateSound
    <2> QED BY <1>2, <1>4, <2>2, SoundIs
  <1>5. CASE c.ids # {}
    <2>1. m \in c.ids BY <1>1, <1>5, Least
    <2>2. ids \in SUBSET Rows(w.moves) /\ ids \subseteq c.ids /\ c.ids \ ids = {m} /\ m \notin ids
          /\ done \in SUBSET Rows(w.moves) /\ {m} \cup ids = c.ids
      BY <1>3, <2>1
    <2>3. w \in Requests /\ w.order \in Seq(Location) /\ row \in Row BY <1>3, <2>1, SoundIs, Fields
    <2> HIDE DEF ids, done, row
    <2>4. Sound(rest, t, F, owed, c.ids \ ids) /\ Sound(more, t, F, owed, c.ids \ ids)
      BY <1>3, <2>2, PushAssign
    <2> HIDE DEF rest, more, m
    <2>5. Sound(rest, t, F, owed, {}) /\ Sound(more, t, F, owed, {})
      BY <1>3, <2>1, <2>2, <2>4, Drop
    <2>6. Sound(last, t, F, owed, {})
      <3>1. /\ find.do = "reserve" /\ find.move = m /\ find.left = row.qty /\ find.got = << >>
            /\ find.ids = ids /\ find.done = done
            /\ Names(find) = {m} \cup ids \cup done /\ Changes(find) = {m} \cup ids /\ Target(find) = {m} \cup ids
        BY DEF Names, Changes, Target
      <3>2. find \in Calls
        <4>1. m \in Move /\ row.qty \in Nat BY <1>1, <2>1, <2>3 DEF Row
        <4>2. ids \in SUBSET Move /\ done \in SUBSET Move BY <1>1, <2>1, <2>2 DEF done
        <4>3. find \in ReserveCalls BY <2>3, <4>1, <4>2 DEF ReserveCalls
        <4> QED BY <4>3 DEF Calls
      <3> HIDE DEF find
      <3>3. Total(find.got, 1) = 0 /\ row.qty \in Int
        <4>1. << >> \in Seq(Part) /\ 1 > Len(<< >>) /\ 1 \in Nat OBVIOUS
        <4>2. Total(<< >>, 1) = 0 BY <4>1, TotalEnd
        <4>3. row.qty \in Int BY <2>3 DEF Row
        <4> QED BY <3>1, <4>2, <4>3
      <3>4. Target(find) = c.ids /\ Changes(find) = c.ids /\ Names(find) \subseteq Rows(w.moves)
        BY <1>3, <2>1, <2>2, <3>1
      <3>5. Fits(w, t, owed, find)
        BY <1>3, <2>2, <3>1, <3>3, <3>4 DEF Fits, row
      <3>6. Sound(last, t, F, owed, c.ids \ Target(find)) BY <3>2, <3>4, <3>5, Push
      <3>7. c.ids \ Target(find) = {} BY <3>4
      <3> QED BY <3>6, <3>7
    <2> HIDE DEF last
    <2> QED BY <1>2, <1>5, <2>5, <2>6, SoundIs
  <1> QED BY <1>4, <1>5

LEMMA AvailableInt ==
  ASSUME NEW t \in Table, NEW l
  PROVE  Available(t, l) \in Int
  <1> DEFINE f == Quantities(t)
  <1>1. \A m \in Rows(t) : f[m] \in Int
    <2> SUFFICES ASSUME NEW m \in Rows(t) PROVE f[m] \in Int
      OBVIOUS
    <2>1. m \in Move /\ t[m] \in Row BY Rowed DEF Rows
    <2> QED BY <2>1 DEF Quantities, Row
  <1>2. MovesIn(t, l) \subseteq Rows(t) /\ MovesOut(t, l) \subseteq Rows(t) BY DEF MovesIn, MovesOut
  <1>3. Rows(t) \subseteq Move BY DEF Rows
  <1>4. IsFiniteSet(MovesIn(t, l)) /\ IsFiniteSet(MovesOut(t, l)) BY <1>2, <1>3, MoveFinite, FS_Subset
  <1> HIDE DEF f
  <1>5. Sum(f, MovesIn(t, l)) \in Int /\ Sum(f, MovesOut(t, l)) \in Int BY <1>1, <1>2, <1>4, SumType
  <1> QED BY <1>5 DEF Available, f

\* A location gives no more than what is still missing.
LEMMA TakeIs ==
  ASSUME NEW free \in Int, free > 0, NEW left \in Nat
  PROVE  Take(free, left) \in Nat /\ left - Take(free, left) \in Nat
  BY DEF Take

\* The search for a move goes on.
LEMMA ReserveOn ==
  ASSUME NEW w, NEW t, NEW F, NEW owed, NEW c \in ReserveCalls,
         Sound(w, t, F, owed, Target(c)), Fits(w, t, owed, c),
         NEW b \in ReserveCalls, b.move = c.move, b.ids = c.ids, b.done = c.done,
         Total(b.got, 1) + b.left = Total(c.got, 1) + c.left
  PROVE  Sound(Call(w, b), t, F, owed, {})
  <1>1. b.do = "reserve" /\ c.do = "reserve" /\ b \in Calls BY DEF ReserveCalls, Calls
  <1>2. Target(b) = Target(c) /\ Names(b) = Names(c) /\ Changes(b) = Changes(c)
    BY <1>1 DEF Target, Names, Changes
  <1>3. Fits(w, t, owed, b) BY <1>1, <1>2 DEF Fits
  <1>4. Sound(Call(w, b), t, F, owed, Target(c) \ Target(b)) BY <1>1, <1>2, <1>3, Push
  <1>5. Target(c) \ Target(b) = {} BY <1>2
  <1> QED BY <1>4, <1>5

LEMMA ReserveSound ==
  ASSUME NEW w, NEW t, NEW F, NEW owed, NEW c \in ReserveCalls,
         Sound(w, t, F, owed, Target(c)), Fits(w, t, owed, c)
  PROVE  \E due : After(Reserve(w, c), t, F, due, {})
  <1> DEFINE row == w.moves[c.move]
             l == Head(c.from)
             rest == [c EXCEPT !.from = Tail(@)]
             free == Available(w.moves, l)
             take == Take(free, c.left)
             lock == w.locked \cup MovesIn(w.moves, l) \cup MovesOut(w.moves, l)
             seen == [w EXCEPT !.locked = lock]
             more == [c EXCEPT !.from = Tail(@), !.left = @ - take, !.got = Append(@, [qty |-> take, src |-> l])]
             new == Given(row, Head(c.got))
             split == Put(w, c.move, new)
             copy == [do |-> "copies", move |-> c.move, got |-> c.got, k |-> 2, ids |-> c.ids, done |-> c.done]
  <1>1. c.move \in Move /\ c.left \in Nat /\ c.from \in Seq(Location) /\ c.got \in Seq(Part) /\ c.do = "reserve"
        /\ c.ids \in SUBSET Move /\ c.done \in SUBSET Move
    BY DEF ReserveCalls
  <1>2. Names(c) = {c.move} \cup c.ids \cup c.done /\ Changes(c) = {c.move} \cup c.ids
        /\ Target(c) = {c.move} \cup c.ids
    BY <1>1 DEF Target, Names, Changes
  <1>3. /\ c.move \in Rows(w.moves) \ Frozen(t) /\ owed[c.move] = 0
        /\ c.move \in Rows(t) => row.qty = t[c.move].qty
        /\ Total(c.got, 1) + c.left = row.qty
        /\ c.move \notin c.ids
    BY <1>1, <1>2 DEF Fits
  <1>4. /\ w \in Requests /\ w.moves \in Table /\ row \in Row /\ t \in Table
        /\ owed \in [Move -> Int] /\ row.next \in Rows(w.moves) \cup {0}
    BY <1>3, SoundIs DEF Linked
  <1>5. Reserve(w, c) =
          IF c.left = 0 /\ c.got # << >> THEN Call(split, copy)
          ELSE IF c.from = << >> THEN Raise(w)
          ELSE IF l \notin Within[row.src] \cup Everywhere THEN Call(w, rest)
          ELSE IF free <= 0 THEN Call(seen, rest)
          ELSE Call(seen, more)
    BY DEF Reserve
  <1>6. row.qty \in Nat BY <1>4 DEF Row
  <1> HIDE DEF row
  <1>7. CASE c.left = 0 /\ c.got # << >>
    <2> DEFINE g == c.got[1]
               d == Total(c.got, 2)
               due == [owed EXCEPT ![c.move] = d]
    <2>1. 1 \in 1 .. Len(c.got) /\ Head(c.got) = g BY <1>1, <1>7
    <2>2. g \in Part /\ Total(c.got, 1) = g.qty + d BY <1>1, <2>1, TotalFirst
    <2>3. d \in Nat BY <1>1, TotalNat
    <2> HIDE DEF d, g
    <2>4. g.qty \in Nat /\ g.src \in Location BY <2>2 DEF Part
    <2>5. g.qty + d = row.qty BY <1>1, <1>3, <1>6, <1>7, <2>2, <2>3, <2>4
    <2>6. new \in Row /\ new.leg = row.leg /\ new.next = row.next /\ new.qty = g.qty
      BY <1>4, <2>1, <2>4 DEF Given, Row, Open
    <2>7. split.moves = [w.moves EXCEPT ![c.move] = new] BY <1>1, <1>4, <2>6, PutIs
    <2>8. split.moves[c.move] = new BY <1>1, <1>4, <2>7 DEF Table
    <2>9. due \in [Move -> Int] /\ due[c.move] = d BY <1>1, <1>4, <2>3
    <2> HIDE DEF due, new
    <2>10. Surplus(split, t, due, c.move) = Surplus(w, t, owed, c.move)
      <3> HIDE DEF split
      <3>1. CASE c.move \in Rows(t)
        <4>1. t[c.move].qty = row.qty BY <1>3, <3>1
        <4>2. Surplus(split, t, due, c.move) =
                g.qty + d - (row.qty + (IF g.qty > row.qty THEN g.qty - row.qty ELSE 0))
          BY <2>6, <2>8, <2>9, <3>1, <4>1 DEF Surplus
        <4>3. Surplus(w, t, owed, c.move) =
                row.qty + 0 - (row.qty + (IF row.qty > row.qty THEN row.qty - row.qty ELSE 0))
          BY <1>3, <3>1, <4>1 DEF Surplus, row
        <4> QED BY <1>6, <2>3, <2>4, <2>5, <4>2, <4>3
      <3>2. CASE c.move \notin Rows(t)
        <4>1. Surplus(split, t, due, c.move) = g.qty + d - 0 BY <2>6, <2>8, <2>9, <3>2 DEF Surplus
        <4>2. Surplus(w, t, owed, c.move) = row.qty + 0 - 0 BY <1>3, <3>2 DEF Surplus, row
        <4> QED BY <1>6, <2>3, <2>4, <2>5, <4>1, <4>2
      <3> QED BY <3>1, <3>2
    <2>11. Sound(split, t, F, due, Target(c)) /\ Rows(split.moves) = Rows(w.moves)
      <3>1. /\ new.leg = w.moves[c.move].leg /\ new.next \in Rows(w.moves) \cup {0}
            /\ new \in Row /\ d \in Int /\ c.move \in Target(c)
        BY <1>2, <1>4, <2>3, <2>6 DEF row
      <3>2. Surplus(Put(w, c.move, new), t, [owed EXCEPT ![c.move] = d], c.move) = Surplus(w, t, owed, c.move)
        BY <2>10 DEF due
      <3>3. /\ Sound(Put(w, c.move, new), t, F, [owed EXCEPT ![c.move] = d], Target(c))
            /\ Rows(Put(w, c.move, new).moves) = Rows(w.moves)
        BY <1>3, <3>1, <3>2, PutSound
      <3> QED BY <3>3 DEF due
    <2>16. ASSUME NEW m \in c.ids
           PROVE  due[m] = 0 /\ (m \in Rows(t) => split.moves[m].qty = t[m].qty)
      <3>1. m \in Move /\ m # c.move /\ m \in Target(c) BY <1>1, <1>2, <1>3
      <3>2. owed[m] = 0 /\ (m \in Rows(t) => w.moves[m].qty = t[m].qty) BY <1>1, <3>1 DEF Fits
      <3>3. due[m] = owed[m] BY <1>4, <3>1 DEF due
      <3>4. split.moves[m] = w.moves[m]
        <4> HIDE DEF split
        <4> QED BY <1>4, <2>7, <3>1 DEF Table
      <3> QED BY <3>2, <3>3, <3>4
    <2> HIDE DEF split
    <2>12. copy \in Calls /\ copy.do = "copies" /\ copy.move = c.move /\ copy.got = c.got /\ copy.k = 2
           /\ copy.ids = c.ids /\ copy.done = c.done
      <3>1. copy \in CopiesCalls BY <1>1 DEF CopiesCalls
      <3> QED BY <3>1 DEF Calls
    <2> HIDE DEF copy
    <2>13. Names(copy) = Names(c) /\ Changes(copy) = Changes(c) /\ Target(copy) = Target(c)
      BY <1>1, <2>12 DEF Target, Names, Changes
    <2>14. Fits(split, t, due, copy)
      <3>1. Names(copy) \subseteq Rows(split.moves) /\ Changes(copy) \cap Frozen(t) = {} BY <2>11, <2>13 DEF Fits
      <3>2. copy.k >= 1 /\ due[copy.move] = Total(copy.got, copy.k) BY <2>9, <2>12 DEF d
      <3> QED BY <1>3, <2>12, <2>16, <3>1, <3>2 DEF Fits
    <2>15. Sound(Call(split, copy), t, F, due, Target(c) \ Target(copy)) BY <2>11, <2>12, <2>13, <2>14, Push
    <2>17. Target(c) \ Target(copy) = {} BY <2>13
    <2> QED BY <1>5, <1>7, <2>15, <2>17, SoundIs
  <1>8. CASE ~(c.left = 0 /\ c.got # << >>) /\ c.from = << >> BY <1>5, <1>8, RaiseSound
  <1>9. CASE ~(c.left = 0 /\ c.got # << >>) /\ c.from # << >>
    <2>1. l \in Location /\ Tail(c.from) \in Seq(Location) BY <1>1, <1>9
    <2>2. rest \in ReserveCalls /\ rest.move = c.move /\ rest.got = c.got /\ rest.left = c.left
          /\ rest.ids = c.ids /\ rest.done = c.done
      BY <2>1 DEF ReserveCalls
    <2>3. Total(rest.got, 1) + rest.left = Total(c.got, 1) + c.left BY <2>2
    <2>4. Sound(seen, t, F, owed, Target(c)) /\ Fits(seen, t, owed, c)
      <3>1. lock \in SUBSET Move
        <4>1. w.locked \in SUBSET Move BY <1>4 DEF Requests
        <4> QED BY <4>1 DEF MovesIn, MovesOut, Rows
      <3> HIDE DEF lock
      <3>2. seen \in Requests /\ seen.moves = w.moves /\ seen.free = w.free /\ seen.wrote = w.wrote /\ seen.todo = w.todo
        BY <1>4, <3>1 DEF Requests
      <3> HIDE DEF seen
      <3>3. Data(seen, t, F, owed) BY <3>2, DataSame DEF Sound
      <3>4. Rows(t) \subseteq Rows(w.moves) BY SoundIs
      <3>5. Agenda(seen, t, owed, Target(c)) BY <1>4, <3>2, <3>4, AgendaSame DEF Sound
      <3>6. Fits(seen, t, owed, c) BY <3>2 DEF Fits
      <3> QED BY <3>3, <3>5, <3>6 DEF Sound
    <2> HIDE DEF rest, seen
    <2>5. Sound(Call(w, rest), t, F, owed, {}) BY <2>2, <2>3, ReserveOn
    <2>6. Sound(Call(seen, rest), t, F, owed, {}) BY <2>2, <2>3, <2>4, ReserveOn
    <2>7. ASSUME ~(free <= 0) PROVE Sound(Call(seen, more), t, F, owed, {})
      <3>1. free \in Int /\ free > 0
        <4>1. free \in Int BY <1>4, AvailableInt
        <4> QED BY <2>7, <4>1
      <3> HIDE DEF free
      <3>2. take \in Nat /\ c.left - take \in Nat BY <1>1, <3>1, TakeIs
      <3> DEFINE p == [qty |-> take, src |-> l]
      <3> HIDE DEF take, l
      <3>3. p \in Part /\ p.qty = take BY <2>1, <3>2 DEF Part
      <3> HIDE DEF p
      <3>4. Append(c.got, p) \in Seq(Part) /\ Total(Append(c.got, p), 1) = Total(c.got, 1) + take
        BY <1>1, <3>3, TotalAppend
      <3>5. Total(c.got, 1) \in Nat BY <1>1, TotalNat
      <3>6. more \in ReserveCalls /\ more.move = c.move /\ more.got = Append(c.got, p) /\ more.left = c.left - take
            /\ more.ids = c.ids /\ more.done = c.done
        BY <1>1, <2>1, <3>2, <3>4 DEF ReserveCalls, p
      <3>7. Total(more.got, 1) + more.left = Total(c.got, 1) + c.left
        BY <1>1, <3>2, <3>4, <3>5, <3>6
      <3> HIDE DEF more
      <3> QED BY <2>4, <3>6, <3>7, ReserveOn
    <2> HIDE DEF more, free
    <2> QED BY <1>5, <1>9, <2>5, <2>6, <2>7, SoundIs
  <1> QED BY <1>7, <1>8, <1>9

-----------------------------------------------------------------------------
(* Moves that are split.                                                     *)

\* It does not matter whether a row is created before or after a call is put off.
LEMMA InsertCall ==
  ASSUME NEW w \in Requests, NEW c \in Calls, NEW row \in Row, w.free # {}
  PROVE  /\ Insert(Call(w, c), row) = Call(Insert(w, row), c)
         /\ NewId(Call(w, c)) = NewId(w) /\ Call(w, c).free = w.free
  <1>1. Call(w, c).free = w.free BY CallIs
  <1>2. NewId(Call(w, c)) = NewId(w) BY <1>1 DEF NewId
  <1> DEFINE n == NewId(w)
  <1>3. Insert(Call(w, c), row) =
          [[[w EXCEPT !.todo = Append(@, c)] EXCEPT !.moves[n] = row, !.wrote = @ \cup {n}] EXCEPT !.free = @ \ {n}]
    BY <1>2 DEF Insert, Put, Call
  <1>4. Call(Insert(w, row), c) =
          [[[w EXCEPT !.moves[n] = row, !.wrote = @ \cup {n}] EXCEPT !.free = @ \ {n}] EXCEPT !.todo = Append(@, c)]
    BY DEF Insert, Put, Call
  <1> HIDE DEF n
  <1>5. w = [moves |-> w.moves, free |-> w.free, picks |-> w.picks, wrote |-> w.wrote,
             locked |-> w.locked, order |-> w.order, todo |-> w.todo, ok |-> w.ok]
    BY DEF Requests
  <1> QED BY <1>1, <1>2, <1>3, <1>4, <1>5

\* A new move is reserved at once when its picking is incoming.
LEMMA TailSound ==
  ASSUME NEW v, NEW t, NEW F, NEW owed, NEW n, Sound(v, t, F, owed, {n}),
         n \in Rows(v.moves), n \notin Rows(t), owed[n] = 0
  PROVE  /\ After(v, t, F, owed, {})
         /\ After(Call(Call(v, [do |-> "assign", ids |-> {n}, done |-> {}]), [do |-> "confirm", ids |-> {n}]), t, F, owed, {})
  <1> DEFINE u == Call(v, [do |-> "assign", ids |-> {n}, done |-> {}])
  <1>1. Sound(v, t, F, owed, {}) BY Drop
  <1>2. {n} \in SUBSET Rows(v.moves) /\ {n} \cap Frozen(t) = {} /\ {n} \cap Rows(t) = {}
    BY SoundIs
  <1>3. Sound(u, t, F, owed, {n} \ {n}) /\ u.moves = v.moves BY <1>2, PushAssign
  <1>4. {n} \ {n} = {} OBVIOUS
  <1> HIDE DEF u
  <1>5. Sound(u, t, F, owed, {}) BY <1>3, <1>4
  <1>6. Sound(Call(u, [do |-> "confirm", ids |-> {n}]), t, F, owed, {}) BY <1>2, <1>3, <1>5, PushIds
  <1> QED BY <1>1, <1>6, SoundIs DEF u

LEMMA CreateSound ==
  ASSUME NEW w, NEW t, NEW F, NEW owed, NEW X \in SUBSET Rows(w.moves), Sound(w, t, F, owed, X),
         NEW row \in Row, row.next \in Rows(w.moves) \cup {0},
         NEW a \in Rows(w.moves) \cap X, row.leg = w.moves[a].leg,
         NEW c \in Calls, Target(c) = X,
         w.free # {} => Fits(Insert(w, row), t, Owing(owed, a, owed[a] - row.qty), c)
  PROVE  \E due : After(Create(Call(w, c), row), t, F, due, {})
  <1> DEFINE due == Owing(owed, a, owed[a] - row.qty)
             n == NewId(w)
             made == Insert(w, row)
             v == Call(made, c)
             last == Call(Call(v, [do |-> "assign", ids |-> {n}, done |-> {}]), [do |-> "confirm", ids |-> {n}])
  <1>1. w \in Requests /\ Call(w, c).free = w.free /\ Call(w, c) \in Requests BY SoundIs, CallIs
  <1>2. CASE w.free = {}
    <2>1. Create(Call(w, c), row) = Raise(Call(w, c)) BY <1>1, <1>2 DEF Create
    <2> QED BY <1>1, <2>1, RaiseIs DEF After
  <1>3. CASE w.free # {}
    <2>1. Insert(Call(w, c), row) = v /\ NewId(Call(w, c)) = n BY <1>1, <1>3, InsertCall
    <2>2. Create(Call(w, c), row) = IF ~row.incoming THEN v ELSE last
      BY <1>1, <1>3, <2>1 DEF Create
    <2>3. Sound(made, t, F, due, X \cup {n}) /\ Rows(made.moves) = Rows(w.moves) \cup {n} /\ due[n] = 0
      <3>1. X \in SUBSET Move BY SoundIs
      <3> HIDE DEF made, due, n
      <3>2. MayPart(w, t, F, owed, X, row, a) BY <1>3, <3>1 DEF MayPart
      <3>3. /\ Sound(Insert(w, row), t, F, Owing(owed, a, owed[a] - row.qty), X \cup {NewId(w)})
            /\ Rows(Insert(w, row).moves) = Rows(w.moves) \cup {NewId(w)}
            /\ Owing(owed, a, owed[a] - row.qty)[NewId(w)] = 0
        BY <3>2, InsertPart
      <3> QED BY <3>3 DEF made, due, n
    <2>4. Fits(made, t, due, c) BY <1>3
    <2>5. n \in w.free BY <1>1, <1>3, InsertIs
    <2>6. n \notin Rows(w.moves) /\ n \notin Rows(t)
      <3>1. w.free \cap Rows(w.moves) = {} BY DEF Sound, Data
      <3> QED BY <2>5, <3>1, SoundIs
    <2>7. n \notin X BY <2>6
    <2> HIDE DEF made, due, n
    <2>8. Sound(v, t, F, due, (X \cup {n}) \ Target(c)) BY <2>3, <2>4, Push
    <2>9. (X \cup {n}) \ Target(c) = {n} BY <2>7
    <2>10. v.moves = made.moves BY <2>3, SoundIs, CallIs
    <2> HIDE DEF v
    <2>11. After(v, t, F, due, {}) /\ After(last, t, F, due, {})
      <3>1. Sound(v, t, F, due, {n}) /\ n \in Rows(v.moves) BY <2>3, <2>8, <2>9, <2>10
      <3> QED BY <2>3, <2>6, <3>1, TailSound
    <2> HIDE DEF last
    <2> QED BY <2>2, <2>11
  <1> QED BY <1>2, <1>3

LEMMA CopiesSound ==
  ASSUME NEW w, NEW t, NEW F, NEW owed, NEW c \in CopiesCalls,
         Sound(w, t, F, owed, Target(c)), Fits(w, t, owed, c)
  PROVE  \E due : After(Copies(w, c), t, F, due, {})
  <1>1. c.move \in Move /\ c.got \in Seq(Part) /\ c.k \in Nat /\ c.do = "copies"
        /\ c.ids \in SUBSET Move /\ c.done \in SUBSET Move
    BY DEF CopiesCalls
  <1>2. Names(c) = {c.move} \cup c.ids \cup c.done /\ Changes(c) = {c.move} \cup c.ids
        /\ Target(c) = {c.move} \cup c.ids
    BY <1>1 DEF Names, Changes, Target
  <1>3. c.move \in Rows(w.moves) \ Frozen(t) /\ c.k >= 1 /\ owed[c.move] = Total(c.got, c.k)
        /\ c.move \notin c.ids /\ c.ids \in SUBSET Rows(w.moves) /\ c.done \in SUBSET Rows(w.moves)
        /\ c.ids \cap Frozen(t) = {}
    BY <1>1, <1>2 DEF Fits
  <1>6. \A m \in c.ids : owed[m] = 0 /\ (m \in Rows(t) => w.moves[m].qty = t[m].qty) BY <1>1 DEF Fits
  <1>7. CASE w.free = {} /\ ~(c.k > Len(c.got)) BY <1>7, RaiseSound DEF Copies
  <1>4. CASE c.k > Len(c.got)
    <2>1. owed[c.move] = 0 BY <1>1, <1>3, <1>4, TotalEnd
    <2> DEFINE v == Call(w, [do |-> "assign", ids |-> c.ids, done |-> c.done])
    <2>2. Copies(w, c) = v BY <1>4 DEF Copies
    <2>3. Sound(v, t, F, owed, Target(c) \ c.ids) BY <1>2, <1>3, <1>6, PushAssign
    <2>4. Target(c) \ c.ids = {c.move} BY <1>2, <1>3
    <2> HIDE DEF v
    <2>5. Sound(v, t, F, owed, {}) BY <2>1, <2>3, <2>4, Drop
    <2> QED BY <2>2, <2>5, SoundIs
  <1>5. CASE w.free # {} /\ ~(c.k > Len(c.got))
    <2> DEFINE a == c.move
               g == c.got[c.k]
               row == Draft(Given(w.moves[a], g))
               n == NewId(w)
               b == [c EXCEPT !.k = @ + 1, !.done = @ \cup {n}]
               due == Owing(owed, a, owed[a] - row.qty)
    <2>1. Copies(w, c) = Create(Call(w, b), row) BY <1>5 DEF Copies
    <2>2. w.moves[a] \in Row /\ w.moves[a].next \in Rows(w.moves) \cup {0} /\ owed \in [Move -> Int]
      BY <1>3, SoundIs DEF Linked
    <2>3. g \in Part /\ Total(c.got, c.k) = g.qty + Total(c.got, c.k + 1)
      <3>1. c.k \in 1 .. Len(c.got) BY <1>1, <1>3, <1>5
      <3> QED BY <1>1, <3>1, TotalFirst
    <2>4. g.qty \in Nat /\ g.src \in Location BY <2>3 DEF Part
    <2> HIDE DEF g
    <2>5. row \in Row /\ row.leg = w.moves[a].leg /\ row.next = w.moves[a].next /\ row.qty = g.qty
      BY <2>2, <2>4 DEF Draft, Given, Row, Open
    <2>13. /\ w \in Requests /\ w.moves \in Table /\ n \in Move /\ n \notin Rows(w.moves)
           /\ Insert(w, row).moves = [w.moves EXCEPT ![n] = row]
      <3>1. w \in Requests /\ w.moves \in Table BY SoundIs
      <3>2. w.free \cap Rows(w.moves) = {} BY DEF Sound, Data
      <3> HIDE DEF row
      <3> QED BY <1>5, <2>5, <3>1, <3>2, InsertIs
    <2> HIDE DEF n
    <2>6. b \in CopiesCalls /\ b.do = "copies" /\ b.move = a /\ b.got = c.got /\ b.k = c.k + 1
          /\ b.ids = c.ids /\ b.done = c.done \cup {n}
      <3>1. c.done \cup {n} \in SUBSET Move /\ c.k + 1 \in Nat BY <1>1, <2>13
      <3> QED BY <3>1 DEF CopiesCalls
    <2> HIDE DEF row, b
    <2>7. b \in Calls BY <2>6 DEF Calls
    <2>8. Names(b) = {a} \cup c.ids \cup c.done \cup {n} /\ Changes(b) = Changes(c) /\ Target(b) = Target(c)
      BY <1>1, <2>6 DEF Names, Changes, Target
    <2>9. Fits(Insert(w, row), t, due, b)
      <3>1. MayPart(w, t, F, owed, Target(c), row, a)
        <4>1. Target(c) \subseteq Move /\ a \in Rows(w.moves) \cap Target(c) BY <1>1, <1>2, <1>3
        <4> QED BY <1>5, <2>2, <2>5, <4>1 DEF MayPart
      <3>2. Rows(Insert(w, row).moves) = Rows(w.moves) \cup {NewId(w)} BY <3>1, InsertPart
      <3>3. due[a] = Total(c.got, c.k + 1)
        <4>1. due[a] = owed[a] - row.qty BY <1>1, <2>2 DEF Owing
        <4>2. Total(c.got, c.k + 1) \in Nat BY <1>1, TotalNat
        <4> HIDE DEF due
        <4> QED BY <1>3, <2>3, <2>4, <2>5, <4>1, <4>2
      <3> HIDE DEF due
      <3>4. b.k >= 1 BY <1>1, <2>6
      <3>5. Names(b) \subseteq Rows(Insert(w, row).moves) /\ Changes(b) \cap Frozen(t) = {}
        BY <1>2, <1>3, <2>8, <3>2 DEF n
      <3>6. ASSUME NEW m \in c.ids
            PROVE  due[m] = 0 /\ (m \in Rows(t) => Insert(w, row).moves[m].qty = t[m].qty)
        <4>1. m \in Move /\ m # a /\ m # n BY <1>1, <1>3, <2>13
        <4>2. due[m] = owed[m] BY <2>2, <4>1 DEF Owing, due
        <4>3. Insert(w, row).moves[m] = w.moves[m] BY <2>13, <4>1 DEF Table
        <4> QED BY <1>6, <4>2, <4>3
      <3> QED BY <1>3, <2>6, <3>3, <3>4, <3>5, <3>6 DEF Fits
    <2>10. Target(b) \in SUBSET Rows(w.moves) /\ a \in Rows(w.moves) \cap Target(b) BY <1>2, <1>3, <2>8
    <2>14. Sound(w, t, F, owed, Target(b)) BY <2>8
    <2>11. row.next \in Rows(w.moves) \cup {0} BY <2>2, <2>5
    <2>12. \E u : After(Create(Call(w, b), row), t, F, u, {})
      BY <2>5, <2>7, <2>9, <2>10, <2>11, <2>14, CreateSound
    <2> QED BY <2>1, <2>12
  <1> QED BY <1>4, <1>5, <1>7

\* The part that left is taken off.
LEMMA ReduceSound ==
  ASSUME NEW w, NEW t, NEW F, NEW owed, NEW c \in ReduceCalls,
         Sound(w, t, F, owed, {c.move}), Fits(w, t, owed, c)
  PROVE  \E due : After(Reduce(w, c), t, F, due, {})
  <1> DEFINE a == c.move
             old == w.moves[a]
             new == Rest(old, c.qty)
             v == Put(w, a, new)
             due == [owed EXCEPT ![a] = 0]
  <1>1. a \in Move /\ c.qty \in Nat /\ c.do = "reduce" BY DEF ReduceCalls
  <1>2. Names(c) = {a} /\ Changes(c) = {a} /\ Target(c) = {a} BY <1>1 DEF Names, Changes, Target
  <1>3. /\ a \in Rows(w.moves) \ Frozen(t) /\ c.qty <= old.qty /\ owed[a] = 0 - c.qty
        /\ a \in Rows(t) => old.qty = t[a].qty
    BY <1>1, <1>2 DEF Fits
  <1>4. old \in Row /\ old.next \in Rows(w.moves) \cup {0} /\ owed \in [Move -> Int] /\ w \in Requests /\ w.moves \in Table
    BY <1>3, SoundIs DEF Linked
  <1>5. Reduce(w, c) = v BY DEF Reduce
  <1> HIDE DEF old
  <1>6. old.qty \in Nat BY <1>4 DEF Row
  <1>7. new \in Row /\ new.leg = old.leg /\ new.next = old.next /\ new.qty = old.qty - c.qty
    BY <1>1, <1>3, <1>4, <1>6 DEF Rest, Row
  <1> HIDE DEF new
  <1>8. v.moves[a] = new
    <2>1. v.moves = [w.moves EXCEPT ![a] = new] BY <1>1, <1>4, <1>7, PutIs
    <2> QED BY <1>1, <1>4, <2>1 DEF Table
  <1>9. due[a] = 0 BY <1>1, <1>4
  <1>10. Surplus(Put(w, a, new), t, [owed EXCEPT ![a] = 0], a) = Surplus(w, t, owed, a)
    <2> HIDE DEF v, due, a
    <2>1. CASE a \in Rows(t)
      <3>1. t[a].qty = old.qty BY <1>3, <2>1
      <3>2. Surplus(v, t, due, a) =
              old.qty - c.qty + 0 - (old.qty + (IF old.qty - c.qty > old.qty THEN old.qty - c.qty - old.qty ELSE 0))
        BY <1>7, <1>8, <1>9, <2>1, <3>1 DEF Surplus
      <3>3. Surplus(w, t, owed, a) =
              old.qty + (0 - c.qty) - (old.qty + (IF old.qty > old.qty THEN old.qty - old.qty ELSE 0))
        BY <1>3, <2>1, <3>1 DEF Surplus, old
      <3>4. Surplus(v, t, due, a) = Surplus(w, t, owed, a) BY <1>1, <1>6, <3>2, <3>3
      <3> QED BY <3>4 DEF v, due
    <2>2. CASE a \notin Rows(t)
      <3>1. Surplus(v, t, due, a) = old.qty - c.qty + 0 - 0 BY <1>7, <1>8, <1>9, <2>2 DEF Surplus
      <3>2. Surplus(w, t, owed, a) = old.qty + (0 - c.qty) - 0 BY <1>3, <2>2 DEF Surplus, old
      <3>3. Surplus(v, t, due, a) = Surplus(w, t, owed, a) BY <1>1, <1>6, <3>1, <3>2
      <3> QED BY <3>3 DEF v, due
    <2> QED BY <2>1, <2>2
  <1>11. new.leg = w.moves[a].leg /\ new.next \in Rows(w.moves) \cup {0} /\ 0 \in Int /\ a \in {a}
    BY <1>4, <1>7 DEF old
  <1>12. Sound(Put(w, a, new), t, F, [owed EXCEPT ![a] = 0], {a})
    BY <1>3, <1>7, <1>10, <1>11, PutSound
  <1>13. Sound(v, t, F, due, {a}) BY <1>12
  <1> HIDE DEF v, due
  <1>14. Sound(v, t, F, due, {}) BY <1>9, <1>13, Drop
  <1> QED BY <1>5, <1>14, SoundIs

\* q of a move leaves as part.
MaySplit(w, t, F, owed, m, q, part) ==
    /\ Sound(w, t, F, owed, {m}) /\ m \in Rows(w.moves) \ Frozen(t) /\ owed[m] = 0
    /\ m \in Rows(t) => w.moves[m].qty = t[m].qty
    /\ q \in Nat /\ q <= w.moves[m].qty
    /\ part \in Row /\ part.qty = q /\ part.leg = w.moves[m].leg /\ part.next \in Rows(w.moves) \cup {0}

\* The part leaves the move with the debt of it.
LEMMA PartLeft ==
  ASSUME NEW w, NEW t, NEW F, NEW owed, NEW m, NEW q, NEW part, MaySplit(w, t, F, owed, m, q, part), w.free # {},
         NEW c \in ReduceCalls, c.move = m, c.qty = q
  PROVE  /\ MayPart(w, t, F, owed, {m}, part, m)
         /\ Fits(Insert(w, part), t, Owing(owed, m, owed[m] - part.qty), c)
  <1> USE DEF MaySplit
  <1>1. w \in Requests /\ w.moves \in Table /\ owed \in [Move -> Int] /\ m \in Move
        /\ Rows(w.moves) \subseteq Move BY SoundIs
  <1>2. MayPart(w, t, F, owed, {m}, part, m) BY <1>1 DEF MayPart
  <1> DEFINE v == Insert(w, part)
             due == Owing(owed, m, owed[m] - part.qty)
  <1>3. Rows(v.moves) = Rows(w.moves) \cup {NewId(w)}
    <2>1. PICK X : MayPart(w, t, F, owed, X, part, m) BY <1>2
    <2> HIDE DEF MaySplit
    <2> QED BY <2>1, InsertPart
  <1>4. due[m] = 0 - q BY <1>1 DEF Owing
  <1>5. v.moves[m] = w.moves[m]
    <2>1. NewId(w) \in w.free /\ v.moves = [w.moves EXCEPT ![NewId(w)] = part] BY <1>1, InsertIs
    <2>2. w.free \cap Rows(w.moves) = {} BY DEF Sound, Data
    <2>3. m # NewId(w) BY <2>1, <2>2
    <2> HIDE DEF v
    <2> QED BY <1>1, <2>1, <2>3 DEF Table
  <1>6. c.do = "reduce" BY DEF ReduceCalls
  <1>7. Names(c) = {m} /\ Changes(c) = {m} /\ Target(c) = {m} BY <1>6 DEF Names, Changes, Target
  <1> HIDE DEF v, due
  <1>8. Fits(v, t, due, c) BY <1>3, <1>4, <1>5, <1>6, <1>7 DEF Fits
  <1> QED BY <1>2, <1>8 DEF v, due

LEMMA SplitSound ==
  ASSUME NEW w, NEW t, NEW F, NEW owed, NEW m, NEW q, NEW part, MaySplit(w, t, F, owed, m, q, part)
  PROVE  \E due : After(SplitOff(w, m, q, part), t, F, due, {})
  <1> DEFINE c == [do |-> "reduce", move |-> m, qty |-> q]
  <1>0. /\ Sound(w, t, F, owed, {m}) /\ m \in Rows(w.moves) \ Frozen(t) /\ owed[m] = 0
        /\ m \in Rows(t) => w.moves[m].qty = t[m].qty
        /\ q \in Nat /\ q <= w.moves[m].qty
        /\ part \in Row /\ part.leg = w.moves[m].leg /\ part.next \in Rows(w.moves) \cup {0}
    BY DEF MaySplit
  <1>1. m \in Move BY <1>0, SoundIs
  <1>2. c \in ReduceCalls /\ c.do = "reduce" /\ c.move = m /\ c.qty = q BY <1>0, <1>1 DEF ReduceCalls
  <1>3. SplitOff(w, m, q, part) = IF q = 0 THEN Call(w, c) ELSE Create(Call(w, c), part) BY DEF SplitOff
  <1> HIDE DEF c
  <1>4. c \in Calls BY <1>2 DEF Calls
  <1>5. Names(c) = {m} /\ Changes(c) = {m} /\ Target(c) = {m} BY <1>2 DEF Names, Changes, Target
  <1>6. CASE q = 0
    <2>1. Fits(w, t, owed, c) BY <1>0, <1>2, <1>5, <1>6 DEF Fits
    <2>2. Sound(Call(w, c), t, F, owed, {m} \ Target(c)) BY <1>0, <1>4, <1>5, <2>1, Push
    <2> QED BY <1>3, <1>5, <1>6, <2>2, SoundIs
  <1>7. CASE q # 0
    <2>1. w.free # {} => Fits(Insert(w, part), t, Owing(owed, m, owed[m] - part.qty), c)
      BY <1>2, PartLeft
    <2>2. {m} \in SUBSET Rows(w.moves) /\ m \in Rows(w.moves) \cap {m} BY <1>0
    <2>3. \E due : After(Create(Call(w, c), part), t, F, due, {})
      BY <1>0, <1>4, <1>5, <2>1, <2>2, CreateSound
    <2> QED BY <1>3, <1>7, <2>3
  <1> QED BY <1>6, <1>7

LEMMA LeaveSound ==
  ASSUME NEW w, NEW t, NEW F, NEW owed, NEW c \in LeaveCalls,
         Sound(w, t, F, owed, c.ids), Fits(w, t, owed, c)
  PROVE  \E due : After(Leave(w, c), t, F, due, {})
  <1>1. c.ids \in SUBSET Move /\ c.given \in GivenSet /\ c.pick \in Nat /\ c.do = "leave" BY DEF LeaveCalls
  <1>2. Names(c) = c.ids /\ Changes(c) = c.ids /\ Target(c) = c.ids BY <1>1 DEF Names, Changes, Target
  <1>3. /\ c.ids \subseteq Rows(w.moves) \ Frozen(t) /\ \A m \in c.ids : owed[m] = 0
        /\ \A m \in c.ids \cap Rows(t) : w.moves[m].qty = t[m].qty
        /\ c.ids \subseteq DOMAIN c.given /\ c.ids \subseteq Rows(t)
    BY <1>1, <1>2 DEF Fits
  <1>4. CASE c.ids = {} BY <1>4, SoundIs DEF Leave
  <1>5. CASE c.ids # {}
    <2> DEFINE few == {m \in c.ids : TooFew(w.moves[m], c.given[m])}
               m == IF few # {} THEN Min(few) ELSE Min(c.ids)
               q == c.given[m]
               row == w.moves[m]
               b == [c EXCEPT !.ids = @ \ {m}]
               rest == Call(w, b)
               part == [row EXCEPT !.qty = q, !.pick = c.pick, !.next = 0,
                                   !.state = IF @ = "assigned" THEN "confirmed" ELSE @]
               full == [row EXCEPT !.qty = q, !.pick = c.pick]
    <2>1. Leave(w, c) = IF m \in few THEN SplitOff(rest, m, q, part) ELSE Put(rest, m, full)
      BY <1>5 DEF Leave
    <2>2. m \in c.ids /\ (m \notin few => few = {})
      <3>1. few \in SUBSET Move /\ few \subseteq c.ids BY <1>1
      <3> HIDE DEF few
      <3>2. few # {} => Min(few) \in few BY <3>1, Least
      <3>3. Min(c.ids) \in c.ids BY <1>1, <1>5, Least
      <3> QED BY <3>1, <3>2, <3>3
    <2>3. /\ m \in Move /\ m \in Rows(w.moves) \ Frozen(t) /\ m \in Rows(t)
          /\ row.qty = t[m].qty /\ owed[m] = 0
      BY <1>1, <1>3, <2>2
    <2>4. row \in Row /\ row.next \in Rows(w.moves) \cup {0} /\ w \in Requests /\ owed \in [Move -> Int]
      BY <2>3, SoundIs DEF Linked
    <2>5. q \in Nat
      <3>1. PICK D \in SUBSET Move : c.given \in [D -> Nat] BY <1>1 DEF GivenSet
      <3>2. m \in D BY <1>3, <2>2, <3>1
      <3> QED BY <3>1, <3>2
    <2>6. (m \in few => q < row.qty) /\ (m \notin few => q >= row.qty)
      <3>1. m \in few <=> q < row.qty BY <2>2 DEF TooFew
      <3>2. row.qty \in Nat BY <2>4 DEF Row
      <3> QED BY <2>5, <3>1, <3>2
    <2> HIDE DEF few, m
    <2>7. Sound(rest, t, F, owed, {m}) /\ rest.moves = w.moves
      <3>1. b \in LeaveCalls /\ b.do = "leave" /\ b.ids = c.ids \ {m} /\ b.given = c.given
        BY <1>1 DEF LeaveCalls
      <3>2. b \in Calls BY <3>1 DEF Calls
      <3> HIDE DEF b
      <3>3. Names(b) = b.ids /\ Changes(b) = b.ids /\ Target(b) = b.ids BY <3>1 DEF Names, Changes, Target
      <3>4. Fits(w, t, owed, b) BY <1>3, <3>1, <3>3 DEF Fits
      <3>5. Sound(rest, t, F, owed, c.ids \ Target(b)) BY <3>1, <3>2, <3>3, <3>4, Push
      <3>6. c.ids \ Target(b) = {m} BY <2>2, <3>1, <3>3
      <3> QED BY <2>4, <3>2, <3>5, <3>6, CallIs
    <2> HIDE DEF rest, q, row
    <2>8. row.qty \in Nat BY <2>4 DEF Row
    <2>9. CASE m \in few
      <3>1. part \in Row /\ part.qty = q /\ part.leg = row.leg /\ part.next = 0
        BY <1>1, <2>4, <2>5 DEF Row, Open
      <3> HIDE DEF part
      <3>2. q <= row.qty BY <2>5, <2>6, <2>8, <2>9
      <3>3. MaySplit(rest, t, F, owed, m, q, part)
        BY <2>3, <2>5, <2>7, <3>1, <3>2 DEF MaySplit, row
      <3>4. \E due : After(SplitOff(rest, m, q, part), t, F, due, {}) BY <3>3, SplitSound
      <3> QED BY <2>1, <2>9, <3>4
    <2>10. CASE m \notin few
      <3>1. full \in Row /\ full.qty = q /\ full.leg = row.leg /\ full.next = row.next
        BY <1>1, <2>4, <2>5 DEF Row
      <3> DEFINE v == Put(rest, m, full)
                 due == [owed EXCEPT ![m] = 0]
      <3> HIDE DEF full
      <3>2. due = owed BY <2>3, <2>4
      <3>3. rest \in Requests /\ rest.moves \in Table /\ Rows(rest.moves) = Rows(w.moves) BY <2>7, SoundIs
      <3>4. v.moves[m] = full
        <4>1. v.moves = [rest.moves EXCEPT ![m] = full] BY <2>3, <3>1, <3>3, PutIs
        <4> QED BY <2>3, <3>3, <4>1 DEF Table
      <3>5. Surplus(Put(rest, m, full), t, [owed EXCEPT ![m] = 0], m) = Surplus(rest, t, owed, m)
        <4> HIDE DEF v, due
        <4>1. Surplus(v, t, owed, m) = q + 0 - (row.qty + (IF q > row.qty THEN q - row.qty ELSE 0))
          BY <2>3, <3>1, <3>4 DEF Surplus
        <4>2. Surplus(rest, t, owed, m) =
                row.qty + 0 - (row.qty + (IF row.qty > row.qty THEN row.qty - row.qty ELSE 0))
          BY <2>3, <2>7 DEF Surplus, row
        <4>3. q >= row.qty BY <2>6, <2>10
        <4>4. Surplus(v, t, owed, m) = Surplus(rest, t, owed, m) BY <2>5, <2>8, <4>1, <4>2, <4>3
        <4> QED BY <3>2, <4>4 DEF v, due
      <3>6. full.leg = rest.moves[m].leg /\ full.next \in Rows(rest.moves) \cup {0} /\ 0 \in Int /\ m \in {m}
        BY <2>4, <2>7, <3>1, <3>3 DEF row
      <3>7. m \in Rows(rest.moves) \ Frozen(t) BY <2>3, <3>3
      <3>8. Sound(Put(rest, m, full), t, F, [owed EXCEPT ![m] = 0], {m})
        BY <2>7, <3>1, <3>5, <3>6, <3>7, PutSound
      <3>9. Sound(v, t, F, owed, {m}) BY <3>2, <3>8
      <3> HIDE DEF v, due
      <3>10. Sound(v, t, F, owed, {}) BY <2>3, <3>9, Drop
      <3>11. Leave(w, c) = v BY <2>1, <2>10 DEF v
      <3> QED BY <3>10, <3>11, SoundIs
    <2> QED BY <2>9, <2>10
  <1> QED BY <1>4, <1>5

-----------------------------------------------------------------------------
(* Every call, and every request.                                            *)

LEMMA MakeSound ==
  ASSUME NEW w, NEW t, NEW F, NEW owed, NEW c \in Calls,
         Sound(w, t, F, owed, Target(c)), Fits(w, t, owed, c)
  PROVE  \E due : After(Make(w, c), t, F, due, {})
  <1>1. CASE c \in IdsCalls
    <2>1. c.ids \subseteq Rows(w.moves) /\ (c.do = "confirm" => c.ids \cap Frozen(t) = {})
      BY <1>1 DEF IdsCalls, Fits, Names, Changes
    <2>2. Target(c) = {} BY <1>1 DEF IdsCalls, Target
    <2>4. CASE c.do = "confirm"
      <3>1. Make(w, c) = Confirm(w, c.ids) BY <2>4 DEF Make
      <3> QED BY <2>1, <2>2, <2>4, <3>1, ConfirmSound
    <2>5. CASE c.do = "force"
      <3>1. Make(w, c) = SetState(w, c.ids, "assigned") BY <2>5 DEF Make, ForceAssign
      <3>2. "assigned" \in Open \cup Ended BY DEF Open
      <3>3. Sound(SetState(w, c.ids, "assigned"), t, F, owed, {}) BY <2>1, <2>2, <2>5, <3>2, SetStateSound
      <3> QED BY <3>1, <3>3, SoundIs
    <2>6. CASE c.do = "end"
      <3>1. Make(w, c) = SetState(w, c.ids, "done") BY <2>6 DEF Make
      <3>2. "done" \in Open \cup Ended BY DEF Ended
      <3>3. Sound(SetState(w, c.ids, "done"), t, F, owed, {}) BY <2>1, <2>2, <2>6, <3>2, SetStateSound
      <3> QED BY <3>1, <3>3, SoundIs
    <2>7. CASE c.do = "done"
      <3>1. Make(w, c) = Done(w, c.ids) BY <2>7 DEF Make
      <3> QED BY <2>1, <2>2, <2>7, <3>1, DoneSound
    <2>8. CASE c.do = "process"
      <3>1. Make(w, c) = Process(w, c.ids) BY <2>8 DEF Make
      <3> QED BY <2>1, <2>2, <2>8, <3>1, ProcessSound
    <2>9. CASE c.do = "release"
      <3>1. Make(w, c) = Release(w, c) BY <2>9 DEF Make
      <3> QED BY <1>1, <2>1, <2>2, <2>9, <3>1, ReleaseSound
    <2> QED BY <1>1, <2>4, <2>5, <2>6, <2>7, <2>8, <2>9 DEF IdsCalls
  <1>2. CASE c \in ChainCalls
    <2>1. c.do = "chain" BY <1>2 DEF ChainCalls
    <2>2. Target(c) = {} /\ Make(w, c) = Chained(w, c) BY <2>1 DEF Target, Make
    <2> QED BY <1>2, <2>2, ChainedSound
  <1>3. CASE c \in ReserveCalls
    <2>1. c.do = "reserve" BY <1>3 DEF ReserveCalls
    <2>2. Make(w, c) = Reserve(w, c) BY <2>1 DEF Make
    <2> QED BY <1>3, <2>2, ReserveSound
  <1>4. CASE c \in CopiesCalls
    <2>1. c.do = "copies" BY <1>4 DEF CopiesCalls
    <2>2. Make(w, c) = Copies(w, c) BY <2>1 DEF Make
    <2> QED BY <1>4, <2>2, CopiesSound
  <1>5. CASE c \in ReduceCalls
    <2>1. c.do = "reduce" BY <1>5 DEF ReduceCalls
    <2>2. Target(c) = {c.move} /\ Make(w, c) = Reduce(w, c) BY <2>1 DEF Target, Make
    <2> QED BY <1>5, <2>2, ReduceSound
  <1>6. CASE c \in LeaveCalls
    <2>1. c.do = "leave" BY <1>6 DEF LeaveCalls
    <2>2. Target(c) = c.ids /\ Make(w, c) = Leave(w, c) BY <2>1 DEF Target, Make
    <2> QED BY <1>6, <2>2, LeaveSound
  <1>7. CASE c \in PickCalls
    <2>1. CASE c.do = "confirm_lines"
      <3>1. Target(c) = {} /\ Make(w, c) = PickConfirm(w, c.pick) BY <2>1 DEF Target, Make
      <3> QED BY <3>1, PickConfirmSound
    <2>2. CASE c.do = "move_lines"
      <3>1. Target(c) = {} /\ Make(w, c) = ActionMove(w, c.pick) BY <2>2 DEF Target, Make
      <3> QED BY <3>1, ActionMoveSound
    <2>3. CASE c.do = "assign_lines"
      <3>1. Target(c) = Move /\ Make(w, c) = LinesAssign(w, c.pick) BY <2>3 DEF Target, Make
      <3>2. \A m \in Move : owed[m] = 0 BY <2>3, <3>1 DEF Fits
      <3>3. \A m \in Rows(t) : w.moves[m].qty = t[m].qty BY <2>3, <3>1 DEF Fits, Rows
      <3> QED BY <3>1, <3>2, <3>3, LinesAssignSound
    <2> QED BY <1>7, <2>1, <2>2, <2>3 DEF PickCalls
  <1>8. CASE c \in AssignCalls
    <2>1. c.do = "assign" BY <1>8 DEF AssignCalls
    <2>2. Target(c) = c.ids /\ Make(w, c) = Assign(w, c) BY <2>1 DEF Target, Make
    <2> QED BY <1>8, <2>2, AssignSound
  <1> QED BY <1>1, <1>2, <1>3, <1>4, <1>5, <1>6, <1>7, <1>8 DEF Calls

\* Requests of which all is sound, unless they have raised.
Healthy(t, F) == {w \in Requests : w.ok => \E owed : Sound(w, t, F, owed, {})}

LEMMA AfterHealthy ==
  ASSUME NEW w, NEW t, NEW F, \E owed : After(w, t, F, owed, {})
  PROVE  w \in Healthy(t, F)
  BY DEF After, Healthy

LEMMA RunHealthy ==
  ASSUME NEW t, NEW F, NEW w \in Healthy(t, F)
  PROVE  Run(w) \in Healthy(t, F)
  <1>1. ASSUME NEW v \in Healthy(t, F) PROVE Step(v) \in Healthy(t, F)
    <2>1. CASE v.todo = << >> \/ ~v.ok BY <1>1, <2>1 DEF Step
    <2>2. CASE ~(v.todo = << >> \/ ~v.ok)
      <3>1. PICK owed : Sound(v, t, F, owed, {}) BY <2>2 DEF Healthy
      <3> DEFINE u == [v EXCEPT !.todo = SubSeq(@, 1, Len(@) - 1)]
                 c == v.todo[Len(v.todo)]
      <3>2. c \in Calls /\ Sound(u, t, F, owed, Target(c)) /\ Fits(u, t, owed, c) BY <2>2, <3>1, Pop
      <3>3. Step(v) = Make(u, c) BY <2>2 DEF Step
      <3> HIDE DEF u, c
      <3>4. \E due : After(Make(u, c), t, F, due, {}) BY <3>2, MakeSound
      <3> QED BY <3>3, <3>4, AfterHealthy
    <2> QED BY <2>1, <2>2
  <1> DEFINE S == Healthy(t, F)
  <1>2. w \in S /\ \A v \in S : Step(v) \in S BY <1>1
  <1> HIDE DEF S
  <1>3. Run(w) \in S BY <1>2, RunIn
  <1> QED BY <1>3 DEF S

\* Owing nothing.
Nothing == [m \in Move |-> 0]

LEMMA AnyOrderIs == AnyOrder \in Seq(Location)
  <1> DEFINE n == Cardinality(Location)
  <1>1. IsFiniteSet(Location) BY StockAssumption
  <1>2. n \in Nat BY <1>1, FS_CardinalityType
  <1>3. PICK k \in Nat : ExistsBijection(1 .. k, Location) BY <1>1, FS_NatBijection
  <1>4. k = n BY <1>3, FS_CountingElements
  <1>5. PICK f \in [1 .. n -> Location] : IsInjective(f)
    BY <1>3, <1>4 DEF ExistsBijection, Bijection, Injection
  <1>6. AnyOrder \in [1 .. n -> Location] BY <1>5 DEF AnyOrder, SetToSeq
  <1> HIDE DEF n
  <1> QED BY <1>2, <1>6

LEMMA OrdersAre ==
  ASSUME NEW t \in Table, NEW p, NEW order \in Orders(t, p)
  PROVE  order \in Seq(Location)
  <1> DEFINE S == Everywhere \cup UNION {Within[t[m].src] : m \in LinesOf(t, p)}
  <1>1. S \in SUBSET Location
    <2>1. \A m \in LinesOf(t, p) : t[m].src \in Location BY Rowed DEF LinesOf, Rows, Row
    <2> QED BY <2>1, StockAssumption
  <1>2. order \in [1 .. Cardinality(S) -> S] BY DEF Orders, SetToSeqs
  <1>3. IsFiniteSet(S) BY <1>1, StockAssumption, FS_Subset
  <1>4. Cardinality(S) \in Nat BY <1>3, FS_CardinalityType
  <1> HIDE DEF S
  <1> QED BY <1>1, <1>2, <1>4

\* Moves that are not processed are cancelled, and lead to no others any more.
LEMMA CancelSound ==
  ASSUME NEW w, NEW t, NEW F, NEW owed, NEW X, Sound(w, t, F, owed, X),
         NEW ids \in SUBSET Rows(w.moves), ids \cap Frozen(t) = {}
  PROVE  Sound(Cancel(w, ids), t, F, owed, X)
  <1> DEFINE told == {n \in {w.moves[m].next : m \in ids} \ {0} : w.moves[n].state = "waiting"}
             free == SetState(w, told, "confirmed")
             off == SetState(free, ids, "cancel")
             new == [m \in Move |-> IF m \in ids THEN [off.moves[m] EXCEPT !.next = 0] ELSE off.moves[m]]
             v == [off EXCEPT !.moves = new]
  <1>1. Cancel(w, ids) = v BY DEF Cancel
  <1>2. told \in SUBSET Rows(w.moves) /\ told \cap Frozen(t) = {}
    <2>1. \A m \in ids : w.moves[m].next \in Rows(w.moves) \cup {0} BY SoundIs DEF Linked
    <2>2. \A m \in Frozen(t) : w.moves[m].state \in {"done", "assigned"} BY SoundIs
    <2> QED BY <2>1, <2>2
  <1>3. "confirmed" \in Open \cup Ended /\ "cancel" \in Open \cup Ended BY DEF Open, Ended
  <1> HIDE DEF told
  <1>4. Sound(free, t, F, owed, X) /\ Rows(free.moves) = Rows(w.moves) BY <1>2, <1>3, SetStateSound
  <1> HIDE DEF free
  <1>5. Sound(off, t, F, owed, X) /\ Rows(off.moves) = Rows(w.moves) BY <1>3, <1>4, SetStateSound
  <1>6. ids \subseteq off.wrote
    <2>1. SetTo(free, off, ids, "cancel") BY <1>3, <1>4, SoundIs, SetStateIs
    <2> QED BY <2>1 DEF SetTo
  <1> HIDE DEF off
  <1>7. off \in Requests /\ off.moves \in Table /\ (\A m \in Rows(off.moves) : off.moves[m] \in Row)
        /\ Rows(t) \subseteq Rows(off.moves) /\ Rows(off.moves) \subseteq Move
        /\ Linked(off.moves) /\ Frozen(t) \subseteq Rows(t) /\ owed \in [Move -> Int]
    BY <1>5, SoundIs
  <1>8. \A m \in Move \ ids : new[m] = off.moves[m] OBVIOUS
  <1>9. ASSUME NEW m \in ids
        PROVE  /\ m \in Rows(off.moves) /\ new[m] \in Row /\ new[m].next = 0 /\ new[m].state # "none"
               /\ new[m].qty = off.moves[m].qty /\ new[m].leg = off.moves[m].leg
    <2>1. m \in Rows(off.moves) /\ m \in Move /\ off.moves[m] \in Row BY <1>5, <1>7
    <2>2. new[m] = [off.moves[m] EXCEPT !.next = 0] BY <2>1
    <2>3. off.moves[m].state # "none" BY <2>1 DEF Rows
    <2> QED BY <2>1, <2>2, <2>3 DEF Row
  <1>10. new \in Table
    <2>1. \A m \in Move : off.moves[m] \in Row \cup {NoRow} BY <1>7 DEF Table
    <2>2. \A m \in Move : new[m] \in Row \cup {NoRow} BY <1>8, <1>9, <2>1
    <2>3. DOMAIN new = Move /\ new = [m \in Move |-> new[m]] OBVIOUS
    <2> HIDE DEF new
    <2> QED BY <2>2, <2>3 DEF Table
  <1> HIDE DEF new
  <1>11. v \in Requests /\ v.moves = new /\ v.free = off.free /\ v.wrote = off.wrote /\ v.todo = off.todo
    BY <1>7, <1>10 DEF Requests
  <1> HIDE DEF v
  <1>12. Rows(v.moves) = Rows(off.moves) BY <1>8, <1>9, <1>11 DEF Rows
  <1>13. \A m \in Rows(off.moves) : v.moves[m].qty = off.moves[m].qty /\ v.moves[m].leg = off.moves[m].leg
    BY <1>7, <1>8, <1>9, <1>11
  <1>14. Data(v, t, F, owed)
    <2>1. Data(off, t, F, owed) BY <1>5 DEF Sound
    <2>2. Linked(v.moves)
      <3>1. ASSUME NEW m \in Rows(off.moves)
            PROVE  v.moves[m].next \in Rows(off.moves) \cup {0} /\ v.moves[m].leg \in Rows(off.moves)
        <4>1. off.moves[m].next \in Rows(off.moves) \cup {0} /\ off.moves[m].leg \in Rows(off.moves)
          BY <1>7 DEF Linked
        <4>2. v.moves[m].next = off.moves[m].next \/ v.moves[m].next = 0 BY <1>7, <1>8, <1>9, <1>11
        <4> QED BY <1>13, <4>1, <4>2
      <3> QED BY <1>12, <3>1 DEF Linked
    <2>3. \A m \in Frozen(t) :
            /\ v.moves[m].state \in {"done", "assigned"}
            /\ v.moves[m].qty = t[m].qty /\ v.moves[m].src = t[m].src /\ v.moves[m].dst = t[m].dst
      <3>1. \A m \in Frozen(t) : m \in Move \ ids BY <1>7
      <3> QED BY <1>8, <1>11, <2>1, <3>1 DEF Data
    <2>4. \A m \in Rows(off.moves) : Surplus(v, t, owed, m) = Surplus(off, t, owed, m) BY <1>13 DEF Surplus
    <2>5. off.wrote \subseteq v.wrote /\ v.wrote \subseteq Rows(off.moves) /\ \A m \in Move \ v.wrote : v.moves[m] = off.moves[m]
      BY <1>6, <1>8, <1>11, <2>1 DEF Data
    <2>6. owed \in [Move -> Int] /\ \A m \in Move \ Rows(off.moves) : owed[m] = 0 BY <2>1 DEF Data
    <2> QED BY <1>11, <1>12, <1>13, <2>1, <2>2, <2>3, <2>4, <2>5, <2>6, DataUpdate
  <1>15. Agenda(v, t, owed, X)
    <2>1. Rows(off.moves) \subseteq Rows(v.moves) BY <1>12
    <2> QED BY <1>5, <1>7, <1>11, <1>13, <2>1, AgendaSame DEF Sound
  <1> QED BY <1>1, <1>14, <1>15 DEF Sound

\* A request that has just read t, and owes nothing.
Fresh(w, t, F) == Sound(w, t, F, Nothing, Move) /\ w.moves = t

LEMMA NothingOwed ==
  ASSUME NEW w, NEW t, NEW F, NEW X \in SUBSET Move, Sound(w, t, F, Nothing, X)
  PROVE  w \in Healthy(t, F)
  <1>1. \A m \in X \ {} : m \in Move => Nothing[m] = 0 BY DEF Nothing
  <1>2. Sound(w, t, F, Nothing, {}) BY <1>1, Drop
  <1> QED BY <1>2, SoundIs, AfterHealthy

LEMMA FreshIs ==
  ASSUME NEW w, NEW t, NEW F, Fresh(w, t, F), NEW m \in Rows(t)
  PROVE  /\ m \in Rows(w.moves) /\ m \in Move /\ t[m] \in Row /\ w.moves[m] = t[m] /\ Nothing[m] = 0
         /\ t[m].state # "done" => m \notin Frozen(t)
  <1>1. Sound(w, t, F, Nothing, Move) /\ w.moves = t BY DEF Fresh
  <1>2. m \in Move /\ m \in Rows(w.moves) /\ t[m] \in Row BY <1>1, SoundIs
  <1> QED BY <1>1, <1>2 DEF Nothing, Frozen

\* The buttons of a move.
LEMMA MoveRequests ==
  ASSUME NEW w, NEW t, NEW F, Fresh(w, t, F), NEW m \in Rows(t)
  PROVE  /\ t[m].state # "done" => Call(w, [do |-> "confirm", ids |-> {m}]) \in Healthy(t, F)
         /\ ForceAssign(w, {m}) \in Healthy(t, F)
         /\ t[m].state # "done" => SetState(w, {m}, "confirmed") \in Healthy(t, F)
         /\ t[m].state # "done" => Cancel(w, {m}) \in Healthy(t, F)
         /\ Call(w, [do |-> "done", ids |-> {m}]) \in Healthy(t, F)
  <1>1. Sound(w, t, F, Nothing, Move) BY DEF Fresh
  <1>2. {m} \in SUBSET Rows(w.moves) /\ (t[m].state # "done" => {m} \cap Frozen(t) = {}) BY FreshIs
  <1>3. Move \in SUBSET Move OBVIOUS
  <1>4. t[m].state # "done" => Call(w, [do |-> "confirm", ids |-> {m}]) \in Healthy(t, F)
    <2> SUFFICES ASSUME t[m].state # "done" PROVE Call(w, [do |-> "confirm", ids |-> {m}]) \in Healthy(t, F)
      OBVIOUS
    <2>1. Sound(Call(w, [do |-> "confirm", ids |-> {m}]), t, F, Nothing, Move) BY <1>1, <1>2, PushIds
    <2> QED BY <1>3, <2>1, NothingOwed
  <1>5. ForceAssign(w, {m}) \in Healthy(t, F)
    <2>1. "assigned" \in Open \cup Ended BY DEF Open
    <2>2. Sound(SetState(w, {m}, "assigned"), t, F, Nothing, Move) BY <1>1, <1>2, <2>1, SetStateSound
    <2> QED BY <1>3, <2>2, NothingOwed DEF ForceAssign
  <1>6. t[m].state # "done" => SetState(w, {m}, "confirmed") \in Healthy(t, F)
    <2> SUFFICES ASSUME t[m].state # "done" PROVE SetState(w, {m}, "confirmed") \in Healthy(t, F)
      OBVIOUS
    <2>1. "confirmed" \in Open \cup Ended BY DEF Open
    <2>2. Sound(SetState(w, {m}, "confirmed"), t, F, Nothing, Move) BY <1>1, <1>2, <2>1, SetStateSound
    <2> QED BY <1>3, <2>2, NothingOwed
  <1>7. t[m].state # "done" => Cancel(w, {m}) \in Healthy(t, F)
    <2> SUFFICES ASSUME t[m].state # "done" PROVE Cancel(w, {m}) \in Healthy(t, F)
      OBVIOUS
    <2>1. Sound(Cancel(w, {m}), t, F, Nothing, Move) BY <1>1, <1>2, CancelSound
    <2> QED BY <1>3, <2>1, NothingOwed
  <1>8. Call(w, [do |-> "done", ids |-> {m}]) \in Healthy(t, F)
    <2>1. Sound(Call(w, [do |-> "done", ids |-> {m}]), t, F, Nothing, Move) BY <1>1, <1>2, PushIds
    <2> QED BY <1>3, <2>1, NothingOwed
  <1> QED BY <1>4, <1>5, <1>6, <1>7, <1>8

LEMMA PartialRequest ==
  ASSUME NEW w, NEW t, NEW F, Fresh(w, t, F), NEW m \in Rows(t), t[m].state # "done", NEW q \in Nat
  PROVE  MovePartial(w, m, q) \in Healthy(t, F)
  <1> DEFINE row == w.moves[m]
             part == [row EXCEPT !.qty = q, !.state = "assigned", !.next = 0]
  <1>1. Sound(w, t, F, Nothing, Move) BY DEF Fresh
  <1>2. /\ m \in Rows(w.moves) \ Frozen(t) /\ m \in Move /\ row \in Row /\ row.qty = t[m].qty
        /\ Nothing[m] = 0 /\ Move \in SUBSET Move
    BY FreshIs
  <1>3. MovePartial(w, m, q) = IF row.state \in Ended THEN w
                               ELSE IF q >= row.qty THEN Call(w, [do |-> "done", ids |-> {m}])
                               ELSE IF q = 0 THEN SplitOff(w, m, q, part)
                               ELSE IF w.free = {} THEN Raise(w)
                               ELSE SplitOff(Call(w, [do |-> "done", ids |-> {NewId(w)}]), m, q, part)
    BY DEF MovePartial
  <1>4. w \in Healthy(t, F) BY <1>1, <1>2, NothingOwed
  <1>5. Call(w, [do |-> "done", ids |-> {m}]) \in Healthy(t, F) BY MoveRequests
  <1>6. Raise(w) \in Healthy(t, F)
    <2>1. After(Raise(w), t, F, Nothing, {}) BY <1>1, RaiseSound
    <2> QED BY <2>1, AfterHealthy
  <1>7. part \in Row /\ part.qty = q /\ part.leg = row.leg /\ part.next = 0 BY <1>2 DEF Row, Open
  <1>8. ASSUME row.state \notin Ended, ~(q >= row.qty)
        PROVE  MaySplit(w, t, F, Nothing, m, q, part)
    <2>1. row.qty \in Nat BY <1>2 DEF Row
    <2>2. q <= row.qty BY <1>8, <2>1
    <2>3. Sound(w, t, F, Nothing, {m})
      <3>1. \A k \in Move \ {m} : k \in Move => Nothing[k] = 0 BY DEF Nothing
      <3>2. {m} \in SUBSET Move BY <1>2
      <3> QED BY <1>1, <3>1, <3>2, Drop
    <2> HIDE DEF part
    <2> QED BY <1>2, <1>7, <2>2, <2>3 DEF MaySplit
  <1>9. ASSUME row.state \notin Ended, ~(q >= row.qty), q = 0
        PROVE  SplitOff(w, m, q, part) \in Healthy(t, F)
    <2> HIDE DEF part
    <2>1. \E due : After(SplitOff(w, m, q, part), t, F, due, {}) BY <1>8, <1>9, SplitSound
    <2> QED BY <2>1, AfterHealthy
  <1>10. ASSUME row.state \notin Ended, ~(q >= row.qty), q # 0, w.free # {}
         PROVE  SplitOff(Call(w, [do |-> "done", ids |-> {NewId(w)}]), m, q, part) \in Healthy(t, F)
    <2> DEFINE n == NewId(w)
               d == [do |-> "done", ids |-> {n}]
               c == [do |-> "reduce", move |-> m, qty |-> q]
               due == Owing(Nothing, m, Nothing[m] - part.qty)
               made == Insert(w, part)
               u == Call(made, d)
               v == Call(u, c)
               last == Call(Call(v, [do |-> "assign", ids |-> {n}, done |-> {}]), [do |-> "confirm", ids |-> {n}])
    <2>0. w \in Requests BY <1>1, SoundIs
    <2>1. n \in w.free /\ n \in Move BY <1>7, <1>10, <2>0, InsertIs
    <2>2. n \notin Rows(w.moves) /\ n \notin Rows(t)
      <3>1. w.free \cap Rows(w.moves) = {} BY <1>1 DEF Sound, Data
      <3> QED BY <1>1, <2>1, <3>1, SoundIs
    <2>3. c \in ReduceCalls /\ c.move = m /\ c.qty = q /\ c \in Calls /\ Target(c) = {m} /\ Names(c) = {m}
      <3>1. c \in ReduceCalls BY <1>2 DEF ReduceCalls
      <3> QED BY <3>1 DEF Calls, Target, Names
    <2>4. d \in Calls BY <2>1 DEF Calls, IdsCalls
    <2> HIDE DEF part, c
    <2>5. MaySplit(w, t, F, Nothing, m, q, part) BY <1>8, <1>10
    <2>6. MayPart(w, t, F, Nothing, {m}, part, m) /\ Fits(made, t, due, c) BY <1>10, <2>3, <2>5, PartLeft
    <2>7. Sound(made, t, F, due, {m} \cup {n}) /\ Rows(made.moves) = Rows(w.moves) \cup {n} /\ due[n] = 0
      <3> HIDE DEF made, n, due
      <3>1. PICK X : X = {m} /\ MayPart(w, t, F, Nothing, X, part, m) BY <2>6
      <3>2. MayPart(w, t, F, Nothing, X, part, m) BY <3>1
      <3>3. /\ Sound(Insert(w, part), t, F, Owing(Nothing, m, Nothing[m] - part.qty), X \cup {NewId(w)})
            /\ Rows(Insert(w, part).moves) = Rows(w.moves) \cup {NewId(w)}
            /\ Owing(Nothing, m, Nothing[m] - part.qty)[NewId(w)] = 0
        BY <3>2, InsertPart
      <3>4. Sound(made, t, F, due, X \cup {n}) /\ Rows(made.moves) = Rows(w.moves) \cup {n} /\ due[n] = 0
        BY <3>3 DEF made, n, due
      <3> QED BY <3>1, <3>4
    <2>8. Call(w, d) \in Requests /\ Call(w, d).free = w.free /\ NewId(Call(w, d)) = n /\ Insert(Call(w, d), part) = u
      BY <1>7, <1>10, <2>0, <2>4, InsertCall, CallIs
    <2>9. /\ Call(Call(w, d), c).free = w.free /\ NewId(Call(Call(w, d), c)) = n
          /\ Insert(Call(Call(w, d), c), part) = v
      BY <1>7, <1>10, <2>3, <2>8, InsertCall
    <2>10. SplitOff(Call(w, d), m, q, part) = IF ~part.incoming THEN v ELSE last
      <3>1. SplitOff(Call(w, d), m, q, part) = Create(Call(Call(w, d), c), part) BY <1>10 DEF SplitOff, c
      <3> HIDE DEF d, v, n
      <3> QED BY <1>10, <2>9, <3>1 DEF Create
    <2> HIDE DEF made, due, n
    <2>11. Sound(u, t, F, due, {m} \cup {n}) /\ u.moves = made.moves
      <3>1. {n} \in SUBSET Rows(made.moves) BY <2>7
      <3> QED BY <2>7, <3>1, PushIds
    <2>12. Fits(u, t, due, c) BY <2>6, <2>11 DEF Fits
    <2> HIDE DEF u
    <2>13. Sound(v, t, F, due, ({m} \cup {n}) \ Target(c)) /\ v.moves = made.moves
      <3>1. Target(c) \subseteq {m} \cup {n} /\ u \in Requests BY <2>3, <2>11, SoundIs
      <3> QED BY <2>3, <2>11, <2>12, <3>1, Push, CallIs
    <2>14. ({m} \cup {n}) \ Target(c) = {n} BY <1>2, <2>2, <2>3
    <2> HIDE DEF v
    <2>15. After(v, t, F, due, {}) /\ After(last, t, F, due, {})
      <3>1. Sound(v, t, F, due, {n}) /\ n \in Rows(v.moves) BY <2>7, <2>13, <2>14
      <3> QED BY <2>2, <2>7, <3>1, TailSound
    <2> HIDE DEF last
    <2>16. v \in Healthy(t, F) /\ last \in Healthy(t, F) BY <2>15, AfterHealthy
    <2> QED BY <2>10, <2>16 DEF n
  <1> HIDE DEF part, row
  <1> QED BY <1>3, <1>4, <1>5, <1>6, <1>9, <1>10

\* The buttons of a picking.
LEMMA PickingRequests ==
  ASSUME NEW w, NEW t, NEW F, Fresh(w, t, F), NEW p \in Nat
  PROVE  /\ PickConfirm(w, p) \in Healthy(t, F)
         /\ PickAssign(w, p) \in Healthy(t, F)
         /\ PickForce(w, p) \in Healthy(t, F)
         /\ PickValidate(w, p) \in Healthy(t, F)
         /\ PickCancel(w, p) \in Healthy(t, F)
  <1>1. Sound(w, t, F, Nothing, Move) /\ w.moves = t /\ Move \in SUBSET Move BY DEF Fresh
  <1>2. w \in Requests BY <1>1, SoundIs
  <1>3. PickConfirm(w, p) \in Healthy(t, F)
    <2>1. Sound(PickConfirm(w, p), t, F, Nothing, Move) BY <1>1, PickConfirmSound
    <2> QED BY <1>1, <2>1, NothingOwed
  <1>4. PickAssign(w, p) \in Healthy(t, F)
    <2> DEFINE c == [do |-> "assign_lines", pick |-> p]
    <2>1. c \in Calls BY DEF Calls, PickCalls
    <2>2. Names(c) = {} /\ Changes(c) = {} /\ Target(c) = Move /\ c.do = "assign_lines"
      BY DEF Names, Changes, Target
    <2>3. PickAssign(w, p) = PickConfirm(Call(w, c), p) BY DEF PickAssign
    <2> HIDE DEF c
    <2>4. Fits(w, t, Nothing, c) BY <1>1, <2>2 DEF Fits, Nothing
    <2>5. Sound(Call(w, c), t, F, Nothing, Move \ Target(c)) BY <1>1, <2>1, <2>2, <2>4, Push
    <2>6. Sound(Call(w, c), t, F, Nothing, {}) BY <2>2, <2>5
    <2>7. Sound(PickConfirm(Call(w, c), p), t, F, Nothing, {}) BY <2>6, PickConfirmSound
    <2> QED BY <2>3, <2>7, NothingOwed
  <1>5. PickForce(w, p) \in Healthy(t, F)
    <2> DEFINE ids == InState(w.moves, p, {"confirmed", "waiting"})
    <2>1. ids \in SUBSET Rows(w.moves) BY <1>1, StateSets
    <2>2. "assigned" \in Open \cup Ended BY DEF Open
    <2>3. PickForce(w, p) = SetState(w, ids, "assigned") BY DEF PickForce, ForceAssign
    <2> HIDE DEF ids
    <2>4. Sound(SetState(w, ids, "assigned"), t, F, Nothing, Move) BY <1>1, <2>1, <2>2, SetStateSound
    <2> QED BY <1>1, <2>3, <2>4, NothingOwed
  <1>6. PickValidate(w, p) \in Healthy(t, F)
    <2> DEFINE ids == LinesOf(w.moves, p)
               v == Call(w, [do |-> "force", ids |-> ids])
    <2>1. ids \in SUBSET Rows(w.moves) BY <1>1, StateSets
    <2>2. PickValidate(w, p) = PickConfirm(v, p) BY DEF PickValidate
    <2> HIDE DEF ids
    <2>3. Sound(v, t, F, Nothing, Move) BY <1>1, <2>1, PushIds
    <2> HIDE DEF v
    <2>4. Sound(PickConfirm(v, p), t, F, Nothing, Move) BY <2>3, PickConfirmSound
    <2> QED BY <1>1, <2>2, <2>4, NothingOwed
  <1>7. PickCancel(w, p) \in Healthy(t, F)
    <2>1. CASE InState(w.moves, p, {"done"}) # {}
      <3>1. PickCancel(w, p) = Raise(w) BY <2>1 DEF PickCancel
      <3>2. After(Raise(w), t, F, Nothing, {}) BY <1>1, RaiseSound
      <3> QED BY <3>1, <3>2, AfterHealthy
    <2>2. CASE InState(w.moves, p, {"done"}) = {}
      <3> DEFINE ids == LinesOf(w.moves, p)
      <3>1. PickCancel(w, p) = Cancel(w, ids) BY <2>2 DEF PickCancel
      <3>2. ids \in SUBSET Rows(w.moves) BY <1>1, StateSets
      <3>3. ids \cap Frozen(t) = {} BY <1>1, <2>2 DEF InState, Frozen
      <3> HIDE DEF ids
      <3>4. Sound(Cancel(w, ids), t, F, Nothing, Move) BY <1>1, <3>2, <3>3, CancelSound
      <3> QED BY <1>1, <3>1, <3>4, NothingOwed
    <2> QED BY <2>1, <2>2
  <1> QED BY <1>3, <1>4, <1>5, <1>6, <1>7

LEMMA TransferRequest ==
  ASSUME NEW w, NEW t, NEW F, Fresh(w, t, F), NEW p \in Nat,
         NEW D \in SUBSET Rows(t), D \cap Frozen(t) = {}, NEW given \in [D -> Nat]
  PROVE  Transfer(w, p, given) \in Healthy(t, F)
  <1>1. Sound(w, t, F, Nothing, Move) /\ w.moves = t /\ Move \in SUBSET Move BY DEF Fresh
  <1>2. D \subseteq Rows(w.moves) /\ D \subseteq Move /\ DOMAIN given = D BY <1>1, SoundIs
  <1> DEFINE Go(pick) ==
               Call(Call(Call(w, [do |-> "move_lines", pick |-> pick]),
                         [do |-> "confirm_lines", pick |-> pick]),
                    [do |-> "leave", ids |-> DOMAIN given, given |-> given, pick |-> pick])
             few == {m \in DOMAIN given : TooFew(w.moves[m], given[m])}
  <1>3. Transfer(w, p, given) = IF few = {} THEN Go(p)
                                ELSE IF FreePicks(w) = {} THEN Raise(w)
                                ELSE Go(Min(FreePicks(w)))
    BY DEF Transfer
  <1>4. ASSUME NEW pick \in Nat PROVE Go(pick) \in Healthy(t, F)
    <2> DEFINE a == [do |-> "move_lines", pick |-> pick]
               b == [do |-> "confirm_lines", pick |-> pick]
               c == [do |-> "leave", ids |-> D, given |-> given, pick |-> pick]
               u == Call(w, a)
               v == Call(u, b)
    <2>1. /\ a \in Calls /\ Names(a) = {} /\ Changes(a) = {} /\ a.do \in PlainCalls
          /\ b \in Calls /\ Names(b) = {} /\ Changes(b) = {} /\ b.do \in PlainCalls
      BY DEF Calls, PickCalls, Names, Changes, PlainCalls
    <2>2. c \in Calls
      <3>1. D \in SUBSET Move /\ given \in GivenSet BY <1>2 DEF GivenSet
      <3>2. c \in LeaveCalls BY <3>1 DEF LeaveCalls
      <3> QED BY <3>2 DEF Calls
    <2>3. c.do = "leave" /\ c.ids = D /\ c.given = given /\ Names(c) = D /\ Changes(c) = D /\ Target(c) = D
      BY DEF Names, Changes, Target
    <2>4. Go(pick) = Call(v, c) BY <1>2
    <2> HIDE DEF a, b, c
    <2>5. w \in Requests BY <1>1, SoundIs
    <2>6. Sound(u, t, F, Nothing, Move) /\ u.moves = t /\ u \in Requests
      <3>1. Sound(u, t, F, Nothing, Move) BY <1>1, <2>1, PushPlain
      <3> QED BY <1>1, <2>1, <2>5, <3>1, CallIs
    <2> HIDE DEF u
    <2>7. Sound(v, t, F, Nothing, Move) /\ v.moves = t
      <3>1. Sound(v, t, F, Nothing, Move) BY <2>1, <2>6, PushPlain
      <3> QED BY <2>1, <2>6, <3>1, CallIs
    <2> HIDE DEF v
    <2>8. Fits(v, t, Nothing, c)
      <3>1. \A m \in D : Nothing[m] = 0 BY <1>2 DEF Nothing
      <3> QED BY <1>2, <2>3, <2>7, <3>1 DEF Fits
    <2>9. Sound(Call(v, c), t, F, Nothing, Move \ Target(c)) BY <1>2, <2>2, <2>3, <2>7, <2>8, Push
    <2>10. Move \ Target(c) \in SUBSET Move OBVIOUS
    <2>11. Call(v, c) \in Healthy(t, F) BY <2>9, <2>10, NothingOwed
    <2> HIDE DEF Go
    <2> QED BY <2>4, <2>11
  <1>5. Raise(w) \in Healthy(t, F)
    <2>1. After(Raise(w), t, F, Nothing, {}) BY <1>1, RaiseSound
    <2> QED BY <2>1, AfterHealthy
  <1>6. FreePicks(w) # {} => Min(FreePicks(w)) \in Nat BY FreePick
  <1> HIDE DEF Go, few
  <1> QED BY <1>3, <1>4, <1>5, <1>6

-----------------------------------------------------------------------------
(* The committed moves, and what the open requests have read of them.        *)

Session == [open : BOOLEAN, snap : Table \cup {<< >>}, missed : SUBSET Move, age : Nat]

\* t is db as it was before the moves in missed were written.
Saw(t, missed) ==
    /\ t \in Table /\ Linked(t) /\ Rows(t) \subseteq Rows(db)
    /\ missed \subseteq Rows(db)
    /\ \A m \in Move \ missed : t[m] = db[m]

IInv ==
    /\ db \in Table /\ Linked(db)
    /\ sess \in [Request -> Session]
    /\ \A r \in Request : sess[r].missed \subseteq Rows(db)
    /\ \A r \in Request : sess[r].open => Saw(sess[r].snap, sess[r].missed)

Active(r) == r = Alone \/ (r \in Request /\ sess[r].open)
Free == Move \ Rows(db)

LEMMA Reading ==
  ASSUME IInv, NEW r, Active(r)
  PROVE  /\ Saw(Read(r).snap, Read(r).missed)
         /\ Base(Read(r).snap, Free)
  <1>1. Saw(Read(r).snap, Read(r).missed)
    <2>1. CASE r = Alone BY <2>1 DEF IInv, Read, Saw
    <2>2. CASE r # Alone BY <2>2 DEF IInv, Read, Active
    <2> QED BY <2>1, <2>2
  <1>2. Free \cap Rows(Read(r).snap) = {} /\ Free \subseteq Move BY <1>1 DEF Saw, Free
  <1> QED BY <1>1, <1>2 DEF Saw, Base

LEMMA StartFresh ==
  ASSUME IInv, NEW r, Active(r), NEW order \in Seq(Location)
  PROVE  Fresh(Start(r, order), Read(r).snap, Free)
  <1> DEFINE t == Read(r).snap
             used == PicksIn(db) \cup UNION {PicksIn(sess[q].snap) : q \in {p \in Request : sess[p].open}}
             w == Start(r, order)
  <1>1. w = [moves |-> t, free |-> Free, picks |-> used, wrote |-> {}, locked |-> {},
             order |-> order, todo |-> << >>, ok |-> TRUE]
    BY DEF Start, Free
  <1>2. Base(t, Free) /\ t \in Table /\ Linked(t) BY Reading DEF Base
  <1>3. used \in SUBSET Nat
    <2>1. ASSUME NEW u \in Table PROVE PicksIn(u) \subseteq Nat
      <3>1. \A m \in Rows(u) : u[m].pick \in Nat BY Rowed DEF Rows, Row
      <3> QED BY <3>1 DEF PicksIn
    <2>2. db \in Table BY DEF IInv
    <2>3. \A q \in {p \in Request : sess[p].open} : sess[q].snap \in Table BY DEF IInv, Saw
    <2> QED BY <2>1, <2>2, <2>3
  <1>4. << >> \in Seq(Calls)
    <2> DEFINE C == Calls
    <2> HIDE DEF C
    <2>1. << >> \in Seq(C) OBVIOUS
    <2> QED BY <2>1 DEF C
  <1>5. w \in Requests /\ w.moves = t /\ w.free = Free /\ w.wrote = {} /\ w.todo = << >>
    <2>1. Free \in SUBSET Move BY DEF Free
    <2> HIDE DEF w, t, used
    <2> QED BY <1>1, <1>2, <1>3, <1>4, <2>1 DEF Requests
  <1> HIDE DEF w, t
  <1>6. Nothing \in [Move -> Int] /\ \A m \in Move : Nothing[m] = 0 BY DEF Nothing
  <1>7. ASSUME NEW l PROVE Sum(Net(w, t, Nothing, l), Move) = 0
    <2>1. ASSUME NEW m \in Move PROVE Net(w, t, Nothing, l)[m] = 0
      <3>1. CASE m \in Leg(w.moves, l)
        <4>1. m \in Rows(t) /\ t[m].qty \in Int /\ w.moves[m] = t[m] BY <1>2, <1>5, <3>1, Rowed DEF Leg, Row
        <4>2. Surplus(w, t, Nothing, m) =
                t[m].qty + 0 - (t[m].qty + (IF t[m].qty > t[m].qty THEN t[m].qty - t[m].qty ELSE 0))
          BY <1>6, <4>1 DEF Surplus
        <4>3. Surplus(w, t, Nothing, m) = 0 BY <4>1, <4>2
        <4> QED BY <3>1, <4>3 DEF Net
      <3>2. CASE m \notin Leg(w.moves, l) BY <3>2 DEF Net
      <3> QED BY <3>1, <3>2
    <2> QED BY <2>1, MoveFinite, SumZero
  <1>8. Data(w, t, Free, Nothing)
    <2>1. Free \cap Rows(t) = {} BY <1>2 DEF Base
    <2>2. \A m \in Frozen(t) : t[m].state \in {"done", "assigned"} BY DEF Frozen
    <2> QED BY <1>2, <1>5, <1>6, <1>7, <2>1, <2>2 DEF Data
  <1>9. Agenda(w, t, Nothing, Move) BY <1>5 DEF Agenda
  <1> QED BY <1>5, <1>8, <1>9 DEF Fresh, Sound, w, t

\* The committed steps: every action evaluates a request on what it has read.
Committed == \E r, request : Active(r) /\ request \in Healthy(Read(r).snap, Free) /\ Commit(r, request)

LEMMA MoveSteps ==
  ASSUME IInv, NEW r, Active(r), OnMove(r)
  PROVE  Committed
  <1> DEFINE t == Read(r).snap
             w == Start(r, AnyOrder)
             H == Healthy(t, Free)
  <1>1. Fresh(w, t, Free) BY AnyOrderIs, StartFresh
  <1>2. ASSUME NEW b \in {"confirm", "force", "cancel_assign", "cancel", "done", "partial"}, NEW m \in Lines(r, b)
        PROVE  m \in Rows(t) /\ t[m].state \in Buttons[b]
    BY DEF Lines, Seen
  <1> HIDE DEF w, t
  <1>3. CASE \E m \in Lines(r, "confirm") : ConfirmMove(r, m)
    <2>1. PICK m \in Lines(r, "confirm") : ConfirmMove(r, m) BY <1>3
    <2>2. m \in Rows(t) /\ t[m].state # "done" BY <1>2 DEF Buttons
    <2>3. Call(w, [do |-> "confirm", ids |-> {m}]) \in H BY <1>1, <2>2, MoveRequests
    <2> QED BY <2>1, <2>3 DEF ConfirmMove, Committed, w, t
  <1>4. CASE \E m \in Lines(r, "force") : ForceMove(r, m)
    <2>1. PICK m \in Lines(r, "force") : ForceMove(r, m) BY <1>4
    <2>2. m \in Rows(t) BY <1>2
    <2>3. ForceAssign(w, {m}) \in H BY <1>1, <2>2, MoveRequests
    <2> QED BY <2>1, <2>3 DEF ForceMove, Committed, w, t
  <1>5. CASE \E m \in Lines(r, "cancel_assign") : CancelAssign(r, m)
    <2>1. PICK m \in Lines(r, "cancel_assign") : CancelAssign(r, m) BY <1>5
    <2>2. m \in Rows(t) /\ t[m].state # "done" BY <1>2 DEF Buttons
    <2>3. SetState(w, {m}, "confirmed") \in H BY <1>1, <2>2, MoveRequests
    <2> QED BY <2>1, <2>3 DEF CancelAssign, Committed, w, t
  <1>6. CASE \E m \in Lines(r, "cancel") : CancelMove(r, m)
    <2>1. PICK m \in Lines(r, "cancel") : CancelMove(r, m) BY <1>6
    <2>2. m \in Rows(t) /\ t[m].state # "done" BY <1>2 DEF Buttons
    <2>3. Cancel(w, {m}) \in H BY <1>1, <2>2, MoveRequests
    <2> QED BY <2>1, <2>3 DEF CancelMove, Committed, w, t
  <1>7. CASE \E m \in Lines(r, "done") : DoneMove(r, m)
    <2>1. PICK m \in Lines(r, "done") : DoneMove(r, m) BY <1>7
    <2>2. m \in Rows(t) BY <1>2
    <2>3. Call(w, [do |-> "done", ids |-> {m}]) \in H BY <1>1, <2>2, MoveRequests
    <2> QED BY <2>1, <2>3 DEF DoneMove, Committed, w, t
  <1>8. CASE \E m \in Lines(r, "partial") : PartialMove(r, m)
    <2>1. PICK m \in Lines(r, "partial") : PartialMove(r, m) BY <1>8
    <2>2. m \in Rows(t) /\ t[m].state # "done" BY <1>2 DEF Buttons
    <2>3. PICK q \in Enter(t[m]) : Commit(r, MovePartial(w, m, q)) BY <2>1 DEF PartialMove, w, t
    <2>4. Enter(t[m]) \subseteq Nat
      <3>1. t[m] \in Row BY <1>1, <2>2, FreshIs
      <3>2. t[m].qty \in Nat /\ t[m].leg \in Move BY <3>1 DEF Row
      <3> QED BY <3>2, StockAssumption DEF Enter
    <2>5. MovePartial(w, m, q) \in H BY <1>1, <2>2, <2>4, PartialRequest
    <2> QED BY <2>3, <2>5 DEF Committed, w, t
  <1> QED BY <1>3, <1>4, <1>5, <1>6, <1>7, <1>8 DEF OnMove

LEMMA PickingSteps ==
  ASSUME IInv, NEW r, Active(r), OnPicking(r)
  PROVE  Committed
  <1> DEFINE t == Read(r).snap
             w == Start(r, AnyOrder)
             H == Healthy(t, Free)
  <1>0. t \in Table BY Reading DEF Base
  <1>1. Fresh(w, t, Free) BY AnyOrderIs, StartFresh
  <1>2. PICK p \in Picks(r) : \/ ConfirmPicking(r, p) \/ AssignPicking(r, p) \/ ForcePicking(r, p)
                              \/ ValidatePicking(r, p) \/ CancelPicking(r, p) \/ TransferPicking(r, p)
    BY DEF OnPicking
  <1>3. p \in Nat
    <2>1. \A m \in Rows(t) : t[m].pick \in Nat BY <1>0, Rowed DEF Rows, Row
    <2> QED BY <2>1 DEF Picks, PicksIn
  <1> HIDE DEF w, t
  <1>4. CASE ConfirmPicking(r, p)
    <2>1. PickConfirm(w, p) \in H BY <1>1, <1>3, PickingRequests
    <2> QED BY <1>4, <2>1 DEF ConfirmPicking, Committed, w, t
  <1>5. CASE AssignPicking(r, p)
    <2>1. PICK order \in Orders(t, p) : Commit(r, PickAssign(Start(r, order), p))
      BY <1>5 DEF AssignPicking, t
    <2>2. order \in Seq(Location) BY <1>0, OrdersAre
    <2>3. Fresh(Start(r, order), t, Free) BY <2>2, StartFresh DEF t
    <2>4. PickAssign(Start(r, order), p) \in H BY <1>3, <2>3, PickingRequests
    <2> QED BY <2>1, <2>4 DEF Committed, t
  <1>6. CASE ForcePicking(r, p)
    <2>1. PickForce(w, p) \in H BY <1>1, <1>3, PickingRequests
    <2> QED BY <1>6, <2>1 DEF ForcePicking, Committed, w, t
  <1>7. CASE ValidatePicking(r, p)
    <2>1. PickValidate(w, p) \in H BY <1>1, <1>3, PickingRequests
    <2> QED BY <1>7, <2>1 DEF ValidatePicking, Committed, w, t
  <1>8. CASE CancelPicking(r, p)
    <2>1. PickCancel(w, p) \in H BY <1>1, <1>3, PickingRequests
    <2> QED BY <1>8, <2>1 DEF CancelPicking, Committed, w, t
  <1>9. CASE TransferPicking(r, p)
    <2> DEFINE lines == InState(t, p, Open)
               entered == UNION {Enter(t[m]) : m \in lines}
    <2>1. PICK given \in [lines -> entered] : Commit(r, Transfer(w, p, given))
      BY <1>9 DEF TransferPicking, w, t
    <2>2. lines \in SUBSET Rows(t) /\ lines \cap Frozen(t) = {}
      BY DEF InState, LinesOf, Frozen, Open
    <2>3. entered \subseteq Nat
      <3> SUFFICES ASSUME NEW m \in lines PROVE Enter(t[m]) \subseteq Nat
        OBVIOUS
      <3>1. t[m] \in Row BY <1>1, <2>2, FreshIs
      <3>2. t[m].qty \in Nat /\ t[m].leg \in Move BY <3>1 DEF Row
      <3> QED BY <3>2, StockAssumption DEF Enter
    <2> HIDE DEF lines, entered
    <2>4. given \in [lines -> Nat] BY <2>3
    <2>5. Transfer(w, p, given) \in H BY <1>1, <1>3, <2>2, <2>4, TransferRequest
    <2> QED BY <2>1, <2>5 DEF Committed, w, t
  <1> QED BY <1>2, <1>4, <1>5, <1>6, <1>7, <1>8, <1>9

-----------------------------------------------------------------------------
(* Commits.                                                                  *)

\* What a request that commits has computed.
Outcome(w, r, owed) ==
    /\ Sound(w, Read(r).snap, Free, owed, {}) /\ w.todo = << >>
    /\ Serializes(w, Read(r).missed)
    /\ db' = Published(w)
    /\ sess' = [q \in Request |->
                    IF q = r \/ ~sess[q].open THEN Closed
                    ELSE [sess[q] EXCEPT !.missed = @ \cup w.wrote, !.age = @ + 1]]

LEMMA CommitOutcome ==
  ASSUME NEW r, NEW request \in Healthy(Read(r).snap, Free), Commit(r, request)
  PROVE  \E w, owed : Outcome(w, r, owed)
  <1>1. Run(request) \in Healthy(Read(r).snap, Free) BY RunHealthy
  <1>2. PICK w \in {Run(request)} :
          /\ w.ok /\ w.todo = << >>
          /\ Serializes(w, Read(r).missed)
          /\ db' = Published(w)
          /\ sess' = [q \in Request |->
                    IF q = r \/ ~sess[q].open THEN Closed
                    ELSE [sess[q] EXCEPT !.missed = @ \cup w.wrote, !.age = @ + 1]]
    BY DEF Commit
  <1>3. \E owed : Sound(w, Read(r).snap, Free, owed, {}) BY <1>1, <1>2 DEF Healthy
  <1> QED BY <1>2, <1>3 DEF Outcome

\* Rows after the commit, in terms of those before it.
LEMMA Written ==
  ASSUME IInv, NEW r, Active(r), NEW w, NEW owed, Outcome(w, r, owed)
  PROVE  /\ w \in Requests /\ w.wrote \subseteq Move /\ w.wrote \subseteq Rows(w.moves)
         /\ Rows(db') = Rows(db) \cup w.wrote
         /\ \A m \in Move \ w.wrote : db'[m] = db[m] /\ w.moves[m] = Read(r).snap[m]
         /\ \A m \in w.wrote : db'[m] = w.moves[m]
         /\ \A m \in w.wrote \cap Rows(db) : m \in Rows(Read(r).snap) /\ Read(r).snap[m] = db[m]
         /\ \A m \in w.wrote \ Rows(db) : m \notin Rows(Read(r).snap)
         /\ Rows(w.moves) \subseteq Rows(Read(r).snap) \cup w.wrote
         /\ Rows(Read(r).snap) \subseteq Rows(db) /\ Rows(Read(r).snap) \subseteq Rows(w.moves)
         /\ db' \in Table
  <1> DEFINE t == Read(r).snap
  <1>1. /\ w \in Requests /\ w.wrote \subseteq Rows(w.moves) /\ w.moves \in Table
        /\ Rows(w.moves) \subseteq Rows(t) \cup (w.wrote \cap Free) /\ Rows(t) \subseteq Rows(w.moves)
        /\ \A m \in Move \ w.wrote : w.moves[m] = t[m]
    BY Fields DEF Outcome, Sound, Data
  <1>2. Rows(t) \subseteq Rows(db) /\ \A m \in Move \ Read(r).missed : t[m] = db[m]
    BY Reading DEF Saw
  <1>3. w.wrote \cap Read(r).missed = {} BY DEF Outcome, Serializes
  <1> HIDE DEF t
  <1>4. db' = [m \in Move |-> IF m \in w.wrote THEN w.moves[m] ELSE db[m]] BY DEF Outcome, Published
  <1>5. w.wrote \subseteq Move BY <1>1 DEF Rows
  <1>6. \A m \in Move \ w.wrote : db'[m] = db[m] BY <1>4
  <1>7. \A m \in w.wrote : db'[m] = w.moves[m] BY <1>4, <1>5
  <1>8. Rows(db') = Rows(db) \cup w.wrote
    <2>1. \A m \in w.wrote : w.moves[m].state # "none" BY <1>1 DEF Rows
    <2> QED BY <1>5, <1>6, <1>7, <2>1 DEF Rows
  <1>9. \A m \in w.wrote \cap Rows(db) : t[m] = db[m] /\ m \in Rows(t)
    <2>1. \A m \in w.wrote \cap Rows(db) : t[m] = db[m] BY <1>2, <1>3, <1>5
    <2> QED BY <2>1 DEF Rows
  <1>10. \A m \in w.wrote \ Rows(db) : m \notin Rows(t) BY <1>2
  <1>11. db' \in Table
    <2>1. \A m \in Move : db[m] \in Row \cup {NoRow} /\ w.moves[m] \in Row \cup {NoRow}
      BY <1>1 DEF IInv, Table
    <2>2. \A m \in Move : (IF m \in w.wrote THEN w.moves[m] ELSE db[m]) \in Row \cup {NoRow} BY <2>1
    <2> QED BY <1>4, <2>2 DEF Table
  <1>12. Rows(w.moves) \subseteq Rows(t) \cup w.wrote BY <1>1
  <1> QED BY <1>1, <1>2, <1>5, <1>6, <1>7, <1>8, <1>9, <1>10, <1>11, <1>12 DEF t

LEMMA CommitInv ==
  ASSUME IInv, NEW r, Active(r), NEW w, NEW owed, Outcome(w, r, owed)
  PROVE  IInv'
  <1>1. db' \in Table /\ Rows(db') = Rows(db) \cup w.wrote /\ w.wrote \subseteq Move BY Written
  <1>2. Linked(db')
    <2>1. Linked(w.moves) BY DEF Outcome, Sound, Data
    <2>2. Linked(db) BY DEF IInv
    <2>3. Rows(w.moves) \subseteq Rows(db') BY Written
    <2>4. ASSUME NEW m \in Rows(db') PROVE db'[m].next \in Rows(db') \cup {0} /\ db'[m].leg \in Rows(db')
      <3>1. CASE m \in w.wrote
        <4>1. db'[m] = w.moves[m] /\ m \in Rows(w.moves) BY <3>1, Written
        <4>2. w.moves[m].next \in Rows(w.moves) \cup {0} /\ w.moves[m].leg \in Rows(w.moves) BY <2>1, <4>1 DEF Linked
        <4> QED BY <2>3, <4>1, <4>2
      <3>2. CASE m \notin w.wrote
        <4>1. m \in Rows(db) /\ m \in Move BY <1>1, <3>2 DEF Rows
        <4>2. db'[m] = db[m] BY <3>2, <4>1, Written
        <4>3. db[m].next \in Rows(db) \cup {0} /\ db[m].leg \in Rows(db) BY <2>2, <4>1 DEF Linked
        <4> QED BY <1>1, <4>2, <4>3
      <3> QED BY <3>1, <3>2
    <2> QED BY <2>4 DEF Linked
  <1>3. sess' = [q \in Request |->
                    IF q = r \/ ~sess[q].open THEN Closed
                    ELSE [sess[q] EXCEPT !.missed = @ \cup w.wrote, !.age = @ + 1]]
    BY DEF Outcome
  <1>4. Closed \in Session BY DEF Closed, Session
  <1>5. ASSUME NEW q \in Request
        PROVE  /\ sess'[q] \in Session
               /\ sess'[q].missed \subseteq Rows(db')
               /\ sess'[q].open => Saw(sess[q].snap, sess[q].missed) /\ sess'[q].snap = sess[q].snap
                                   /\ sess'[q].missed = sess[q].missed \cup w.wrote
    <2>1. sess[q] \in Session /\ sess[q].missed \subseteq Rows(db) BY DEF IInv
    <2>2. CASE q = r \/ ~sess[q].open
      <3>1. sess'[q] = Closed BY <1>3, <2>2
      <3> QED BY <1>4, <3>1 DEF Closed
    <2>3. CASE ~(q = r \/ ~sess[q].open)
      <3>1. sess'[q] = [sess[q] EXCEPT !.missed = @ \cup w.wrote, !.age = @ + 1] BY <1>3, <2>3
      <3>2. /\ sess'[q] \in Session /\ sess'[q].missed = sess[q].missed \cup w.wrote
            /\ sess'[q].snap = sess[q].snap
        <4> DEFINE old == sess[q]
                   new == [old EXCEPT !.missed = @ \cup w.wrote, !.age = @ + 1]
        <4>1. old \in Session /\ w.wrote \subseteq Move BY <1>1, <2>1
        <4> HIDE DEF old
        <4>2. new \in Session /\ new.missed = old.missed \cup w.wrote /\ new.snap = old.snap
          <5> DEFINE M == old.missed \cup w.wrote
                     A == old.age + 1
                     T == Table \cup {<< >>}
          <5>1. M \in SUBSET Move /\ A \in Nat BY <4>1 DEF Session
          <5>2. new = [old EXCEPT !.missed = M, !.age = A] OBVIOUS
          <5>3. old \in [open : BOOLEAN, snap : T, missed : SUBSET Move, age : Nat] BY <4>1 DEF Session
          <5> HIDE DEF M, A, T, new
          <5>4. new \in [open : BOOLEAN, snap : T, missed : SUBSET Move, age : Nat] /\ new.missed = M
                /\ new.snap = old.snap
            BY <5>1, <5>2, <5>3
          <5> QED BY <5>4 DEF Session, M, T
        <4> QED BY <3>1, <4>2 DEF old
      <3>3. Saw(sess[q].snap, sess[q].missed) BY <2>3 DEF IInv
      <3> QED BY <1>1, <2>1, <3>2, <3>3
    <2> QED BY <2>2, <2>3
  <1>6. sess' \in [Request -> Session] BY <1>3, <1>5
  <1>7. ASSUME NEW q \in Request, sess'[q].open PROVE Saw(sess[q].snap, sess[q].missed)'
    <2> DEFINE u == sess[q].snap
               missed == sess[q].missed
    <2>1. Saw(u, missed) /\ sess'[q].snap = u /\ sess'[q].missed = missed \cup w.wrote BY <1>5, <1>7
    <2>2. \A m \in Move \ (missed \cup w.wrote) : u[m] = db'[m]
      <3>1. \A m \in Move \ w.wrote : db'[m] = db[m] BY Written
      <3> QED BY <2>1, <3>1 DEF Saw
    <2>3. sess'[q].missed \subseteq Rows(db') BY <1>5
    <2>4. u \in Table /\ Linked(u) /\ Rows(u) \subseteq Rows(db') BY <1>1, <2>1 DEF Saw
    <2> HIDE DEF u, missed
    <2> QED BY <2>1, <2>2, <2>3, <2>4 DEF Saw
  <1> QED BY <1>1, <1>2, <1>5, <1>6, <1>7 DEF IInv

\* What a step does to the quantities of a demand, and to processed moves.
More == [m \in Move |-> IF db'[m].qty > db[m].qty THEN db'[m].qty - db[m].qty ELSE 0]
Conserves ==
    \A l \in {db[m].leg : m \in Rows(db)} :
        Sum(Quantities(db'), Leg(db', l)) = Sum(Quantities(db), Leg(db, l)) + Sum(More, Leg(db, l))
Freezes ==
    \A m \in Rows(db) :
        db[m].state = "done" /\ db'[m].state = "done" =>
            /\ db'[m].qty = db[m].qty
            /\ db'[m].src = db[m].src
            /\ db'[m].dst = db[m].dst

LEMMA CommitFreezes ==
  ASSUME IInv, NEW r, Active(r), NEW w, NEW owed, Outcome(w, r, owed)
  PROVE  Freezes
  <1> SUFFICES ASSUME NEW m \in Rows(db), db[m].state = "done"
               PROVE  db'[m].qty = db[m].qty /\ db'[m].src = db[m].src /\ db'[m].dst = db[m].dst
    BY DEF Freezes
  <1>0. m \in Move BY DEF Rows
  <1>1. CASE m \notin w.wrote
    <2>1. db'[m] = db[m] BY <1>0, <1>1, Written
    <2> QED BY <2>1
  <1>2. CASE m \in w.wrote
    <2> DEFINE t == Read(r).snap
    <2>1. t[m] = db[m] /\ db'[m] = w.moves[m] BY <1>2, Written
    <2>2. m \in Frozen(t) BY <1>0, <2>1 DEF Frozen
    <2>3. w.moves[m].qty = t[m].qty /\ w.moves[m].src = t[m].src /\ w.moves[m].dst = t[m].dst
      BY <2>2 DEF Outcome, Sound, Data
    <2> QED BY <2>1, <2>3
  <1> QED BY <1>1, <1>2

\* A function on the moves, where they are a part of S.
On(f, S) == [m \in Move |-> IF m \in S THEN f[m] ELSE 0]

LEMMA SumOn ==
  ASSUME NEW f, NEW S \in SUBSET Move, \A m \in S : f[m] \in Int
  PROVE  /\ Sum(On(f, S), Move) = Sum(f, S)
         /\ \A m \in Move : On(f, S)[m] \in Int
  <1> DEFINE g == On(f, S)
  <1>1. \A m \in Move : g[m] \in Int BY DEF On
  <1>2. \A m \in Move \ S : g[m] = 0 BY DEF On
  <1>3. \A m \in S : g[m] \in Int /\ g[m] = f[m] BY DEF On
  <1>4. IsFiniteSet(S) BY MoveFinite, FS_Subset
  <1> HIDE DEF g
  <1>5. Sum(g, Move) = Sum(g, S) BY <1>1, <1>2, MoveFinite, SumSupport
  <1>6. Sum(g, S) = Sum(f, S) BY <1>3, <1>4, SumSame
  <1> QED BY <1>1, <1>5, <1>6 DEF g

LEMMA CommitConserves ==
  ASSUME IInv, NEW r, Active(r), NEW w, NEW owed, Outcome(w, r, owed)
  PROVE  Conserves
  <1> SUFFICES ASSUME NEW l \in {db[m].leg : m \in Rows(db)}
               PROVE  Sum(Quantities(db'), Leg(db', l)) = Sum(Quantities(db), Leg(db, l)) + Sum(More, Leg(db, l))
    BY DEF Conserves
  <1> DEFINE t == Read(r).snap
             N == Net(w, t, owed, l)
             A == On(Quantities(db'), Leg(db', l))
             B == On(Quantities(db), Leg(db, l))
             C == On(More, Leg(db, l))
             D == [m \in Move |-> B[m] + C[m]]
  <1>0. db \in Table /\ db' \in Table /\ Rows(db') \subseteq Move /\ Rows(db) \subseteq Move
    BY Written DEF IInv, Rows
  <1>1. \A m \in Rows(db) : db[m].qty \in Int BY <1>0, Rowed DEF Row
  <1>2. \A m \in Rows(db') : db'[m].qty \in Int BY <1>0, Rowed DEF Row
  <1>3. Rows(db) \subseteq Rows(db') BY Written
  <1>4. \A m \in Rows(db) : More[m] \in Int BY <1>0, <1>1, <1>2, <1>3 DEF More
  <1>5. Leg(db', l) \subseteq Rows(db') /\ Leg(db, l) \subseteq Rows(db) BY DEF Leg
  <1>6. Sum(A, Move) = Sum(Quantities(db'), Leg(db', l)) /\ \A m \in Move : A[m] \in Int
    <2>1. \A m \in Leg(db', l) : Quantities(db')[m] \in Int BY <1>0, <1>2, <1>5 DEF Quantities
    <2>2. Leg(db', l) \in SUBSET Move BY <1>0, <1>5
    <2> QED BY <2>1, <2>2, SumOn
  <1>7. Sum(B, Move) = Sum(Quantities(db), Leg(db, l)) /\ \A m \in Move : B[m] \in Int
    <2>1. \A m \in Leg(db, l) : Quantities(db)[m] \in Int BY <1>0, <1>1, <1>5 DEF Quantities
    <2>2. Leg(db, l) \in SUBSET Move BY <1>0, <1>5
    <2> QED BY <2>1, <2>2, SumOn
  <1>8. Sum(C, Move) = Sum(More, Leg(db, l)) /\ \A m \in Move : C[m] \in Int
    <2>1. \A m \in Leg(db, l) : More[m] \in Int BY <1>4, <1>5
    <2>2. Leg(db, l) \in SUBSET Move BY <1>0, <1>5
    <2> QED BY <2>1, <2>2, SumOn
  <1>9. Data(w, t, Free, owed) /\ Agenda(w, t, owed, {}) /\ w.todo = << >> BY DEF Outcome, Sound
  <1>10. \A m \in Move : owed[m] = 0
    <2>1. DOMAIN w.todo = {} BY <1>9
    <2> QED BY <1>9, <2>1 DEF Agenda
  <1>11. Sum(N, Move) = 0 /\ \A m \in Move : N[m] \in Int
    <2>1. l \in Move \ Free BY <1>0 DEF IInv, Linked, Free
    <2> QED BY <1>9, <2>1, NetInt DEF Data
  <1>12. ASSUME NEW m \in Move PROVE A[m] = D[m] + N[m]
    <2>0. A[m] = (IF m \in Leg(db', l) THEN db'[m].qty ELSE 0)
          /\ B[m] = (IF m \in Leg(db, l) THEN db[m].qty ELSE 0)
          /\ C[m] = (IF m \in Leg(db, l) THEN (IF db'[m].qty > db[m].qty THEN db'[m].qty - db[m].qty ELSE 0) ELSE 0)
          /\ N[m] = (IF m \in Leg(w.moves, l) THEN Surplus(w, t, owed, m) ELSE 0)
          /\ D[m] = B[m] + C[m]
      BY DEF On, Quantities, More, Net
    <2>1. CASE m \notin w.wrote
      <3>1. db'[m] = db[m] /\ w.moves[m] = t[m] BY <2>1, Written
      <3>2. m \in Leg(db', l) <=> m \in Leg(db, l) BY <3>1 DEF Leg, Rows
      <3>3. N[m] = 0
        <4>1. CASE m \in Leg(w.moves, l)
          <5>1. m \in Rows(t) BY <2>1, <4>1, Written DEF Leg
          <5>2. t[m].qty \in Int BY <1>9, <5>1, Rowed DEF Data, Base, Row
          <5>3. Surplus(w, t, owed, m) =
                  t[m].qty + 0 - (t[m].qty + (IF t[m].qty > t[m].qty THEN t[m].qty - t[m].qty ELSE 0))
            BY <1>10, <3>1, <5>1 DEF Surplus
          <5> QED BY <2>0, <4>1, <5>2, <5>3
        <4>2. CASE m \notin Leg(w.moves, l) BY <2>0, <4>2
        <4> QED BY <4>1, <4>2
      <3>4. m \in Leg(db, l) => db[m].qty \in Int BY <1>1, <1>5
      <3> HIDE DEF A, B, C, D, N
      <3> QED BY <2>0, <3>1, <3>2, <3>3, <3>4
    <2>2. CASE m \in w.wrote /\ m \in Rows(db)
      <3>1. db'[m] = w.moves[m] /\ t[m] = db[m] /\ m \in Rows(t) /\ m \in Rows(w.moves) /\ m \in Rows(db')
        BY <2>2, Written
      <3>2. w.moves[m].leg = t[m].leg BY <1>9, <3>1 DEF Data
      <3>3. /\ m \in Leg(db', l) <=> db[m].leg = l
            /\ m \in Leg(db, l) <=> db[m].leg = l
            /\ m \in Leg(w.moves, l) <=> db[m].leg = l
        BY <2>2, <3>1, <3>2 DEF Leg
      <3>4. db[m].qty \in Int /\ db'[m].qty \in Int BY <1>1, <1>2, <2>2, <3>1
      <3>5. Surplus(w, t, owed, m) =
              db'[m].qty + 0 - (db[m].qty + (IF db'[m].qty > db[m].qty THEN db'[m].qty - db[m].qty ELSE 0))
        BY <1>10, <3>1 DEF Surplus
      <3> HIDE DEF A, B, C, D, N
      <3> QED BY <2>0, <3>3, <3>4, <3>5
    <2>3. CASE m \in w.wrote /\ m \notin Rows(db)
      <3>1. db'[m] = w.moves[m] /\ m \notin Rows(t) /\ m \in Rows(w.moves) /\ m \in Rows(db') BY <2>3, Written
      <3>2. /\ m \in Leg(db', l) <=> w.moves[m].leg = l
            /\ m \in Leg(w.moves, l) <=> w.moves[m].leg = l
            /\ m \notin Leg(db, l)
        BY <2>3, <3>1 DEF Leg
      <3>3. db'[m].qty \in Int BY <1>2, <3>1
      <3>4. Surplus(w, t, owed, m) = db'[m].qty + 0 - 0 BY <1>10, <3>1 DEF Surplus
      <3> HIDE DEF A, B, C, D, N
      <3> QED BY <2>0, <3>2, <3>3, <3>4
    <2> QED BY <2>1, <2>2, <2>3
  <1>13. \A m \in Move : D[m] = B[m] + C[m] /\ D[m] \in Int BY <1>7, <1>8
  <1> HIDE DEF A, B, C, D, N
  <1>14. Sum(D, Move) = Sum(B, Move) + Sum(C, Move) BY <1>7, <1>8, <1>13, MoveFinite, SumAdd
  <1>15. Sum(A, Move) = Sum(D, Move) + Sum(N, Move) BY <1>11, <1>12, <1>13, MoveFinite, SumAdd
  <1>16. Sum(D, Move) \in Int BY <1>13, MoveFinite, SumType
  <1> QED BY <1>6, <1>7, <1>8, <1>11, <1>14, <1>15, <1>16

LEMMA Quiet ==
  ASSUME IInv, db' = db
  PROVE  Conserves /\ Freezes
  <1>1. Freezes BY DEF Freezes
  <1>2. ASSUME NEW l \in {db[m].leg : m \in Rows(db)}
        PROVE  Sum(Quantities(db'), Leg(db', l)) = Sum(Quantities(db), Leg(db, l)) + Sum(More, Leg(db, l))
    <2>1. Leg(db, l) \subseteq Rows(db) /\ Rows(db) \subseteq Move BY DEF Leg, Rows
    <2>2. \A m \in Rows(db) : db[m].qty \in Int BY <2>1, Rowed DEF IInv, Row
    <2>3. IsFiniteSet(Leg(db, l)) BY <2>1, MoveFinite, FS_Subset
    <2>4. \A m \in Leg(db, l) : More[m] = 0
      <3> SUFFICES ASSUME NEW m \in Leg(db, l) PROVE More[m] = 0
        OBVIOUS
      <3>1. m \in Move /\ db[m].qty \in Int BY <2>1, <2>2
      <3> QED BY <3>1 DEF More
    <2>5. Sum(More, Leg(db, l)) = 0 BY <2>3, <2>4, SumZero
    <2>6. \A m \in Leg(db, l) : Quantities(db)[m] \in Int BY <2>1, <2>2 DEF Quantities
    <2>7. Sum(Quantities(db), Leg(db, l)) \in Int BY <2>3, <2>6, SumType
    <2>8. Sum(Quantities(db'), Leg(db', l)) = Sum(Quantities(db), Leg(db, l)) OBVIOUS
    <2> QED BY <2>5, <2>7, <2>8
  <1>3. Conserves BY <1>2 DEF Conserves
  <1> QED BY <1>1, <1>3

-----------------------------------------------------------------------------
(* The last move before another one.                                         *)

\* Calls that process no further move, and those that process one.
Idle(c) == c.do \in {"end", "confirm", "chain"} \/ (c.do = "release" /\ c.ids = {})
Lone(c) == c.do \in {"done", "process", "release"} /\ \E x : c.ids = {x}
Idles(s) == \A i \in DOMAIN s : Idle(s[i])

\* A request that processes one move processes moves one after the other.
OneByOne(s) == \A i \in DOMAIN s : Idle(s[i]) \/ (Lone(s[i]) /\ \A j \in DOMAIN s \ {i} : Idle(s[j]))

\* Move y leads to n and is open; no call in s is about to end y.
Leads(t, y, n) == y \in Rows(t) /\ t[y].next = n /\ t[y].state \notin Ended
Spared(s, y) == \A i \in DOMAIN s : s[i].do = "end" => y \notin s[i].ids
Releasing(s, y) == s # << >> /\ s[Len(s)].do = "release" /\ s[Len(s)].ids = {y}

\* n does not wait, or a move before it stays open, or the last such move is still to be
\* released.
Watched(w, n) ==
    \/ w.moves[n].state # "waiting"
    \/ Idles(w.todo) /\ \E y : Leads(w.moves, y, n) /\ Spared(w.todo, y)
    \/ /\ \E y : Leads(w.moves, y, n)
       /\ \A p \in Rows(w.moves) : w.moves[p].next = n => Spared(w.todo, p) \/ Releasing(w.todo, p)

LEMMA Pushed ==
  ASSUME NEW s \in Seq(Calls), NEW c \in Calls
  PROVE  /\ Append(s, c) \in Seq(Calls) /\ Append(s, c) # << >>
         /\ Append(s, c)[Len(Append(s, c))] = c
         /\ Idles(s) /\ Idle(c) => Idles(Append(s, c))
         /\ Idles(s) /\ Lone(c) => OneByOne(Append(s, c))
         /\ OneByOne(s) /\ Idle(c) => OneByOne(Append(s, c))
         /\ \A y : Spared(Append(s, c), y) <=> Spared(s, y) /\ (c.do = "end" => y \notin c.ids)
         /\ \A y : Releasing(Append(s, c), y) <=> c.do = "release" /\ c.ids = {y}
  <1> DEFINE C == Calls
             a == Append(s, c)
  <1>1. a \in Seq(C) /\ DOMAIN a = 1 .. (Len(s) + 1) /\ Len(s) \in Nat /\ Len(a) = Len(s) + 1
        /\ DOMAIN s = 1 .. Len(s) /\ (\A i \in DOMAIN s : a[i] = s[i]) /\ a[Len(s) + 1] = c /\ a # << >>
    <2> HIDE DEF C
    <2>1. s \in Seq(C) /\ c \in C BY DEF C
    <2> QED BY <2>1
  <1> HIDE DEF C, a
  <1>2. DOMAIN a = DOMAIN s \cup {Len(a)} /\ Len(a) \notin DOMAIN s /\ a[Len(a)] = c BY <1>1
  <1>3. Idles(s) /\ Idle(c) => Idles(a) BY <1>1, <1>2 DEF Idles
  <1>4. Idles(s) /\ Lone(c) => OneByOne(a) BY <1>1, <1>2 DEF Idles, OneByOne
  <1>5. OneByOne(s) /\ Idle(c) => OneByOne(a) BY <1>1, <1>2 DEF OneByOne
  <1>6. \A y : Spared(a, y) <=> Spared(s, y) /\ (c.do = "end" => y \notin c.ids) BY <1>1, <1>2 DEF Spared
  <1>7. \A y : Releasing(a, y) <=> c.do = "release" /\ c.ids = {y} BY <1>1, <1>2 DEF Releasing
  <1> QED BY <1>1, <1>2, <1>3, <1>4, <1>5, <1>6, <1>7 DEF a, C

LEMMA Popped ==
  ASSUME NEW s \in Seq(Calls), s # << >>
  PROVE  LET u == SubSeq(s, 1, Len(s) - 1)
             c == s[Len(s)]
         IN  /\ u \in Seq(Calls) /\ c \in Calls
             /\ Idles(s) => Idles(u) /\ Idle(c)
             /\ OneByOne(s) => (Idle(c) /\ OneByOne(u)) \/ (Lone(c) /\ Idles(u))
             /\ \A y : Spared(s, y) <=> Spared(u, y) /\ (c.do = "end" => y \notin c.ids)
             /\ \A y : Releasing(s, y) <=> c.do = "release" /\ c.ids = {y}
  <1> DEFINE C == Calls
             u == SubSeq(s, 1, Len(s) - 1)
             n == Len(s)
             c == s[n]
  <1>1. u \in Seq(C) /\ c \in C /\ DOMAIN u = 1 .. (n - 1) /\ n \in Nat \ {0} /\ DOMAIN s = 1 .. n
        /\ \A i \in DOMAIN u : u[i] = s[i]
    <2> HIDE DEF C
    <2>1. s \in Seq(C) BY DEF C
    <2> QED BY <2>1
  <1> HIDE DEF C, u, n
  <1>2. DOMAIN s = DOMAIN u \cup {n} /\ n \notin DOMAIN u BY <1>1
  <1>3. Idles(s) => Idles(u) /\ Idle(c) BY <1>1, <1>2 DEF Idles
  <1>4. OneByOne(s) => (Idle(c) /\ OneByOne(u)) \/ (Lone(c) /\ Idles(u))
    BY <1>1, <1>2 DEF Idles, OneByOne
  <1>5. \A y : Spared(s, y) <=> Spared(u, y) /\ (c.do = "end" => y \notin c.ids)
    BY <1>1, <1>2 DEF Spared
  <1>6. \A y : Releasing(s, y) <=> c.do = "release" /\ c.ids = {y} BY DEF Releasing, n
  <1> QED BY <1>1, <1>3, <1>4, <1>5, <1>6 DEF u, n, C

\* What a call that processes no further move leaves of a request, as far as it
\* concerns n.
Keeps(u, c, v, n) ==
    /\ Idles(u.todo) => Idles(v.todo)
    /\ OneByOne(u.todo) => OneByOne(v.todo)
    /\ \A y : Spared(u.todo, y) => Spared(v.todo, y)
    /\ v.moves[n].state = "waiting" => u.moves[n].state = "waiting"
    /\ \A y : Leads(u.moves, y, n) /\ (c.do = "end" => y \notin c.ids) =>
        \E z : Leads(v.moves, z, n) /\ (z = y \/ z \notin Rows(u.moves))
    /\ \A p \in Rows(v.moves) \cap Rows(u.moves) : v.moves[p].next = n => u.moves[p].next = n

\* Links are as they were.
LEMMA SetKeeps ==
  ASSUME NEW u \in Requests, NEW v, NEW S \in SUBSET Rows(u.moves), NEW s \in Open \cup Ended,
         SetTo(u, v, S, s), NEW n \in Move
  PROVE  /\ Rows(v.moves) = Rows(u.moves)
         /\ \A p \in Move : v.moves[p].next = u.moves[p].next
         /\ s # "waiting" => (v.moves[n].state = "waiting" => u.moves[n].state = "waiting")
         /\ \A y : Leads(u.moves, y, n) /\ (s \in Ended => y \notin S) => Leads(v.moves, y, n)
  <1>1. S \subseteq Move /\ Rows(u.moves) \subseteq Move BY DEF Rows
  <1>2. Rows(v.moves) = Rows(u.moves)
    <2>1. \A m \in S : v.moves[m].state # "none" /\ m \in Rows(u.moves) BY DEF SetTo, Open, Ended
    <2>2. \A m \in Move \ S : v.moves[m] = u.moves[m] BY DEF SetTo
    <2> QED BY <1>1, <2>1, <2>2 DEF Rows
  <1>3. \A p \in Move : v.moves[p].next = u.moves[p].next BY <1>1 DEF SetTo
  <1>4. s # "waiting" => (v.moves[n].state = "waiting" => u.moves[n].state = "waiting") BY DEF SetTo
  <1>5. ASSUME NEW y, Leads(u.moves, y, n), s \in Ended => y \notin S PROVE Leads(v.moves, y, n)
    <2>1. y \in Move /\ y \in Rows(v.moves) /\ v.moves[y].next = n BY <1>1, <1>2, <1>3, <1>5 DEF Leads
    <2>2. v.moves[y].state \notin Ended BY <1>5, <2>1 DEF SetTo, Leads
    <2> QED BY <2>1, <2>2 DEF Leads
  <1> QED BY <1>2, <1>3, <1>4, <1>5

LEMMA ConfirmKeeps ==
  ASSUME NEW u \in Requests, NEW c \in IdsCalls, c.do = "confirm", c.ids \subseteq Rows(u.moves),
         NEW n \in Move, Confirm(u, c.ids).ok
  PROVE  Keeps(u, c, Confirm(u, c.ids), n)
  <1>1. CASE c.ids = {} BY <1>1 DEF Confirm, Keeps
  <1>2. CASE c.ids # {}
    <2> DEFINE v == SetState(u, c.ids, "confirmed")
               d == [do |-> "chain", ids |-> c.ids, new |-> {}, pick |-> Min(FreePicks(v))]
    <2>1. "confirmed" \in Open \cup Ended /\ "confirmed" \notin Ended /\ c.ids \in SUBSET Rows(u.moves) BY DEF Open, Ended
    <2>2. SetTo(u, v, c.ids, "confirmed") BY <2>1, SetStateIs
    <2>3. Confirm(u, c.ids) = Chain1(v, c.ids) BY <1>2 DEF Confirm
    <2> HIDE DEF v
    <2>4. v \in Requests /\ v.todo = u.todo BY <2>2 DEF SetTo
    <2>5. FreePicks(v) # {} /\ Chain1(v, c.ids) = Call(v, d) BY <2>3, <2>4, RaiseIs DEF Chain1
    <2>6. d \in Calls /\ Idle(d) /\ d.do # "end"
      <3>1. Min(FreePicks(v)) \in Nat BY <2>5, FreePick
      <3> QED BY <3>1 DEF Calls, ChainCalls, Idle, IdsCalls
    <2> HIDE DEF d
    <2> DEFINE x == Call(v, d)
    <2>7. x.moves = v.moves /\ x.todo = Append(u.todo, d) BY <2>4, <2>6, CallIs
    <2>8. u.todo \in Seq(Calls) BY Fields
    <2> HIDE DEF x
    <2>9. /\ Idles(u.todo) => Idles(x.todo)
          /\ OneByOne(u.todo) => OneByOne(x.todo)
          /\ \A y : Spared(u.todo, y) => Spared(x.todo, y)
      BY <2>6, <2>7, <2>8, Pushed
    <2>10. /\ Rows(v.moves) = Rows(u.moves)
           /\ \A p \in Move : v.moves[p].next = u.moves[p].next
           /\ v.moves[n].state = "waiting" => u.moves[n].state = "waiting"
           /\ \A y : Leads(u.moves, y, n) => Leads(v.moves, y, n)
      BY <2>1, <2>2, SetKeeps
    <2>11. Rows(u.moves) \subseteq Move BY DEF Rows
    <2>12. Keeps(u, c, x, n) BY <2>7, <2>9, <2>10, <2>11 DEF Keeps
    <2> QED BY <2>3, <2>5, <2>12 DEF x
  <1> QED BY <1>1, <1>2

LEMMA EndKeeps ==
  ASSUME NEW u \in Requests, NEW c \in IdsCalls, c.do = "end", c.ids \subseteq Rows(u.moves), NEW n \in Move
  PROVE  Keeps(u, c, SetState(u, c.ids, "done"), n)
  <1> DEFINE v == SetState(u, c.ids, "done")
  <1>1. "done" \in Open \cup Ended /\ c.ids \in SUBSET Rows(u.moves) BY DEF Ended
  <1>2. SetTo(u, v, c.ids, "done") BY <1>1, SetStateIs
  <1> HIDE DEF v
  <1>3. v.todo = u.todo BY <1>2 DEF SetTo
  <1>4. /\ Rows(v.moves) = Rows(u.moves)
        /\ \A p \in Move : v.moves[p].next = u.moves[p].next
        /\ v.moves[n].state = "waiting" => u.moves[n].state = "waiting"
        /\ \A y : Leads(u.moves, y, n) /\ y \notin c.ids => Leads(v.moves, y, n)
    BY <1>1, <1>2, SetKeeps
  <1>5. Rows(u.moves) \subseteq Move BY DEF Rows
  <1>6. Keeps(u, c, v, n) BY <1>3, <1>4, <1>5 DEF Keeps
  <1> QED BY <1>6 DEF v

\* One more call that ends no move, and rows that keep their links.
LEMMA CallKeeps ==
  ASSUME NEW u \in Requests, NEW c, NEW v \in Requests, v.todo = u.todo, NEW d \in Calls, d.do = "chain",
         NEW n, v.moves[n].state = "waiting" => u.moves[n].state = "waiting",
         \A y : Leads(u.moves, y, n) => \E z : Leads(v.moves, z, n) /\ (z = y \/ z \notin Rows(u.moves)),
         \A p \in Rows(v.moves) \cap Rows(u.moves) : v.moves[p].next = n => u.moves[p].next = n
  PROVE  Keeps(u, c, Call(v, d), n)
  <1> DEFINE x == Call(v, d)
  <1>1. x.moves = v.moves /\ x.todo = Append(u.todo, d) BY CallIs
  <1>2. u.todo \in Seq(Calls) BY Fields
  <1>3. Idle(d) BY DEF Idle
  <1> HIDE DEF x
  <1>4. /\ Idles(u.todo) => Idles(x.todo)
        /\ OneByOne(u.todo) => OneByOne(x.todo)
        /\ \A y : Spared(u.todo, y) => Spared(x.todo, y)
    BY <1>1, <1>2, <1>3, Pushed
  <1>5. Keeps(u, c, x, n) BY <1>1, <1>4 DEF Keeps
  <1> QED BY <1>5 DEF x

\* A new move takes the place of the one that it was chained to.
LEMMA ChainedKeeps ==
  ASSUME NEW u, NEW t, NEW F, NEW owed, Sound(u, t, F, owed, {}),
         NEW c \in ChainCalls, Fits(u, t, owed, c), NEW n \in Rows(u.moves), Chained(u, c).ok
  PROVE  Keeps(u, c, Chained(u, c), n)
  <1>1. c.ids \in SUBSET Move /\ c.new \in SUBSET Move /\ c.pick \in Nat /\ c.do = "chain" BY DEF ChainCalls
  <1>2. c.ids \subseteq Rows(u.moves)
    BY <1>1 DEF Fits, Names
  <1>3. u \in Requests /\ u.moves \in Table /\ n \in Move BY SoundIs
  <1>4. CASE c.ids = {}
    <2>1. CASE c.new = {} BY <1>4, <2>1 DEF Chained, Keeps
    <2>2. CASE c.new # {}
      <3> DEFINE d == [do |-> "chain", ids |-> c.new, new |-> {}, pick |-> Min(FreePicks(u))]
      <3>1. Chained(u, c) = Chain1(u, c.new) BY <1>4, <2>2 DEF Chained
      <3>2. FreePicks(u) # {} /\ Chain1(u, c.new) = Call(u, d) BY <1>3, <3>1, RaiseIs DEF Chain1
      <3>3. d \in Calls BY <1>1, <3>2, FreePick DEF Calls, ChainCalls
      <3>4. d.do = "chain" OBVIOUS
      <3> HIDE DEF d
      <3>5. Keeps(u, c, Call(u, d), n) BY <1>3, <3>3, <3>4, CallKeeps
      <3> QED BY <3>1, <3>2, <3>5
    <2> QED BY <2>1, <2>2
  <1>5. CASE c.ids # {}
    <2> DEFINE m == Min(c.ids)
               e == NewId(u)
               row == u.moves[m]
               here == Arrive[row.dst]
               moved == IF here = row.dst THEN u ELSE Put(u, m, [row EXCEPT !.dst = here])
               onward == [row EXCEPT !.state = "waiting", !.src = here, !.dst = Chain[here], !.incoming = FALSE,
                                     !.pick = IF @ = 0 THEN 0 ELSE c.pick, !.leg = e]
               made == Insert(moved, onward)
               linked == Put(made, m, [moved.moves[m] EXCEPT !.next = e])
               rest == [c EXCEPT !.ids = @ \ {m}]
               more == [rest EXCEPT !.new = @ \cup {e}]
    <2>0. Chained(u, c) = IF Chain[here] = None THEN Call(moved, rest)
                          ELSE IF u.free = {} THEN Raise(u)
                          ELSE Call(linked, more)
      BY <1>5 DEF Chained
    <2>1. m \in Rows(u.moves) /\ m \in c.ids /\ m \in Move BY <1>1, <1>2, <1>5, Least
    <2>2. row \in Row BY <2>1, SoundIs
    <2>3. here \in Location /\ Chain[here] \in Location \cup {None}
      BY <2>2, StockAssumption DEF Row
    <2>4. [row EXCEPT !.dst = here] \in Row /\ [row EXCEPT !.dst = here].state = row.state
          /\ [row EXCEPT !.dst = here].next = row.next
      <3> HIDE DEF here, row
      <3> QED BY <2>2, <2>3 DEF Row
    <2>5. /\ moved \in Requests /\ moved.free = u.free /\ moved.todo = u.todo
          /\ moved.moves \in Table /\ moved.moves[m] \in Row
          /\ moved.moves[m].state = row.state /\ moved.moves[m].next = row.next
          /\ \A p \in Move \ {m} : moved.moves[p] = u.moves[p]
      <3>1. CASE here = row.dst BY <1>3, <2>2, <3>1
      <3>2. CASE here # row.dst
        <4> DEFINE new == [row EXCEPT !.dst = here]
                   v == Put(u, m, new)
        <4>1. moved = v BY <3>2
        <4>2. new \in Row /\ new.state = row.state /\ new.next = row.next BY <2>4
        <4> HIDE DEF new, moved, here, row, m
        <4>3. v \in Requests /\ v.free = u.free /\ v.todo = u.todo /\ v.moves = [u.moves EXCEPT ![m] = new]
          BY <1>3, <2>1, <4>2, PutIs
        <4> HIDE DEF v
        <4>4. v.moves \in Table BY <4>3, Fields
        <4>5. v.moves[m] = new /\ \A p \in Move \ {m} : v.moves[p] = u.moves[p]
          BY <1>3, <2>1, <4>3 DEF Table
        <4> QED BY <4>1, <4>2, <4>3, <4>4, <4>5
      <3> QED BY <3>1, <3>2
    <2>6. rest \in ChainCalls /\ rest.do = "chain" /\ rest.new = c.new
      BY DEF ChainCalls
    <2>7. NewId(moved) = e BY <2>5 DEF NewId
    <2>8. Rows(u.moves) \subseteq Move BY DEF Rows
    <2> HIDE DEF moved, rest
    <2>9. CASE Chain[here] = None
      <3>1. rest \in Calls BY <2>6 DEF Calls
      <3>2. \A p \in Move : moved.moves[p].state = u.moves[p].state /\ moved.moves[p].next = u.moves[p].next
        BY <2>5
      <3>3. Rows(moved.moves) = Rows(u.moves) BY <3>2 DEF Rows
      <3>4. \A y : Leads(u.moves, y, n) => Leads(moved.moves, y, n) BY <2>8, <3>2, <3>3 DEF Leads
      <3>5. Keeps(u, c, Call(moved, rest), n) BY <1>3, <2>5, <2>6, <2>8, <3>1, <3>2, <3>4, CallKeeps
      <3> QED BY <2>0, <2>9, <3>5
    <2>10. CASE Chain[here] # None /\ u.free = {} BY <1>3, <2>0, <2>10, RaiseIs
    <2>11. CASE Chain[here] # None /\ u.free # {}
      <3>1. e \in u.free /\ e \in Move BY <1>3, <2>2, <2>11, InsertIs
      <3>2. onward \in Row /\ onward.next = row.next /\ onward.state = "waiting"
        <4> HIDE DEF here, e, row
        <4> QED BY <1>1, <2>2, <2>3, <2>11, <3>1 DEF Row, Open
      <3> HIDE DEF onward
      <3>3. e \notin Rows(u.moves)
        <4>1. u.free \cap Rows(u.moves) = {} BY DEF Sound, Data
        <4> QED BY <3>1, <4>1
      <3>4. made \in Requests /\ made.todo = u.todo /\ made.moves = [moved.moves EXCEPT ![e] = onward]
        BY <2>5, <2>7, <2>11, <3>2, InsertIs
      <3>5. made.moves[e] = onward /\ \A p \in Move \ {e} : made.moves[p] = moved.moves[p]
        BY <2>5, <3>1, <3>4 DEF Table
      <3> HIDE DEF made
      <3> DEFINE last == [moved.moves[m] EXCEPT !.next = e]
      <3>6. last \in Row /\ last.state = row.state /\ last.next = e BY <2>5, <3>1 DEF Row
      <3>7. linked = Put(made, m, last) BY DEF last
      <3> HIDE DEF last, linked, e, row, m
      <3>8. linked \in Requests /\ linked.todo = u.todo /\ linked.moves = [made.moves EXCEPT ![m] = last]
        BY <2>1, <3>4, <3>6, <3>7, PutIs
      <3>9. made.moves \in Table BY <3>4, Fields
      <3>10. m # e BY <2>1, <3>3
      <3>11. /\ linked.moves[m] = last /\ linked.moves[e] = onward
             /\ \A p \in Move \ {m, e} : linked.moves[p] = u.moves[p]
        BY <2>1, <2>5, <3>1, <3>5, <3>8, <3>9, <3>10 DEF Table
      <3>12. e \in Rows(linked.moves) BY <3>1, <3>2, <3>11 DEF Rows
      <3>13. ASSUME linked.moves[n].state = "waiting" PROVE u.moves[n].state = "waiting"
        <4>1. n # e BY <3>3
        <4> QED BY <1>3, <3>6, <3>11, <3>13, <4>1 DEF row
      <3>14. ASSUME NEW y, Leads(u.moves, y, n)
             PROVE  \E z : Leads(linked.moves, z, n) /\ (z = y \/ z \notin Rows(u.moves))
        <4>1. CASE y = m
          <5>1. Leads(linked.moves, e, n) BY <3>2, <3>11, <3>12, <3>14, <4>1 DEF Leads, row, Ended
          <5> QED BY <3>3, <5>1
        <4>2. CASE y # m
          <5>1. y \in Move \ {m, e} /\ y \in Rows(u.moves) BY <2>8, <3>3, <3>14, <4>2 DEF Leads
          <5>2. y \in Rows(linked.moves) /\ linked.moves[y] = u.moves[y] BY <3>11, <5>1 DEF Rows
          <5> QED BY <3>14, <5>2 DEF Leads
        <4> QED BY <4>1, <4>2
      <3>15. ASSUME NEW p \in Rows(linked.moves) \cap Rows(u.moves), linked.moves[p].next = n
             PROVE  u.moves[p].next = n
        <4>1. p \in Move /\ p # e /\ n # e BY <2>8, <3>3
        <4>2. p # m BY <3>6, <3>11, <3>15, <4>1
        <4> QED BY <3>11, <3>15, <4>1, <4>2
      <3>16. more \in Calls /\ more.do = "chain"
        BY <2>6, <3>1 DEF ChainCalls, Calls
      <3> HIDE DEF more
      <3>17. Keeps(u, c, Call(linked, more), n) BY <1>3, <3>8, <3>13, <3>14, <3>15, <3>16, CallKeeps
      <3> QED BY <2>0, <2>11, <3>17
    <2> QED BY <2>9, <2>10, <2>11
  <1> QED BY <1>4, <1>5

LEMMA IdleKeeps ==
  ASSUME NEW u, NEW t, NEW F, NEW owed, NEW c \in Calls, Sound(u, t, F, owed, Target(c)), Fits(u, t, owed, c),
         Idle(c), NEW n \in Rows(u.moves), Make(u, c).ok
  PROVE  Keeps(u, c, Make(u, c), n)
  <1>1. u \in Requests /\ n \in Move BY SoundIs
  <1>2. CASE c.do = "end"
    <2>1. Make(u, c) = SetState(u, c.ids, "done") BY <1>2 DEF Make
    <2>2. c \in IdsCalls /\ c.ids \subseteq Rows(u.moves) BY <1>2, Shapes DEF Fits, Names
    <2> QED BY <1>1, <1>2, <2>1, <2>2, EndKeeps
  <1>3. CASE c.do = "confirm"
    <2>1. Make(u, c) = Confirm(u, c.ids) BY <1>3 DEF Make
    <2>2. c \in IdsCalls /\ c.ids \subseteq Rows(u.moves) BY <1>3, Shapes DEF Fits, Names
    <2> QED BY <1>1, <1>3, <2>1, <2>2, ConfirmKeeps
  <1>4. CASE c.do = "chain"
    <2>1. Make(u, c) = Chained(u, c) /\ Target(c) = {} BY <1>4 DEF Make, Target
    <2>2. c \in ChainCalls BY <1>4, Shapes
    <2> QED BY <2>1, <2>2, ChainedKeeps
  <1>5. CASE c.do = "release" /\ c.ids = {}
    <2>1. Make(u, c) = u BY <1>5 DEF Make, Release
    <2> QED BY <2>1 DEF Keeps
  <1> QED BY <1>2, <1>3, <1>4, <1>5 DEF Idle

\* The moves that a pending call ends exist.
LEMMA NewSpared ==
  ASSUME NEW u, NEW t, NEW F, NEW owed, NEW X, Sound(u, t, F, owed, X), NEW y, y \notin Rows(u.moves)
  PROVE  Spared(u.todo, y)
  BY DEF Sound, Agenda, Fits, Names, Spared

\* The state of a request between two calls, told by the call c that is next and
\* the request u without it.
Due(u, c, n) ==
    \/ u.moves[n].state # "waiting"
    \/ Idles(u.todo) /\ Idle(c) /\ \E y : Leads(u.moves, y, n) /\ Spared(u.todo, y) /\ (c.do = "end" => y \notin c.ids)
    \/ /\ \E y : Leads(u.moves, y, n)
       /\ \A p \in Rows(u.moves) : u.moves[p].next = n =>
            \/ Spared(u.todo, p) /\ (c.do = "end" => p \notin c.ids)
            \/ c.do = "release" /\ c.ids = {p}

LEMMA IdleStep ==
  ASSUME NEW u, NEW t, NEW F, NEW owed, NEW c \in Calls, Sound(u, t, F, owed, Target(c)), Fits(u, t, owed, c),
         Idle(c), NEW n \in Rows(u.moves), Make(u, c).ok, Due(u, c, n), OneByOne(u.todo)
  PROVE  Watched(Make(u, c), n) /\ OneByOne(Make(u, c).todo)
  <1> DEFINE v == Make(u, c)
  <1>1. Keeps(u, c, v, n) BY IdleKeeps
  <1>2. \A y : y \notin Rows(u.moves) => Spared(u.todo, y) BY NewSpared
  <1> HIDE DEF v
  <1>3. OneByOne(v.todo) BY <1>1 DEF Keeps
  <1>4. ASSUME u.moves[n].state # "waiting" PROVE Watched(v, n) BY <1>1, <1>4 DEF Keeps, Watched
  <1>5. ASSUME Idles(u.todo), \E y : Leads(u.moves, y, n) /\ Spared(u.todo, y) /\ (c.do = "end" => y \notin c.ids)
        PROVE  Watched(v, n)
    <2>1. PICK y : Leads(u.moves, y, n) /\ Spared(u.todo, y) /\ (c.do = "end" => y \notin c.ids) BY <1>5
    <2>2. PICK z : Leads(v.moves, z, n) /\ (z = y \/ z \notin Rows(u.moves)) BY <1>1, <2>1 DEF Keeps
    <2>3. Spared(v.todo, z) BY <1>1, <1>2, <2>1, <2>2 DEF Keeps
    <2> QED BY <1>1, <1>5, <2>2, <2>3 DEF Keeps, Watched
  <1>6. ASSUME \E y : Leads(u.moves, y, n),
               \A p \in Rows(u.moves) : u.moves[p].next = n =>
                  \/ Spared(u.todo, p) /\ (c.do = "end" => p \notin c.ids)
                  \/ c.do = "release" /\ c.ids = {p}
        PROVE  Watched(v, n)
    <2>0. ~(c.do = "release" /\ c.ids # {}) BY DEF Idle
    <2>1. \A p \in Rows(u.moves) : u.moves[p].next = n => Spared(u.todo, p) /\ (c.do = "end" => p \notin c.ids)
      <3> SUFFICES ASSUME NEW p \in Rows(u.moves), u.moves[p].next = n
                   PROVE  Spared(u.todo, p) /\ (c.do = "end" => p \notin c.ids)
        OBVIOUS
      <3>1. c.ids = {p} => c.ids # {} OBVIOUS
      <3> QED BY <1>6, <2>0, <3>1
    <2>2. PICK y : Leads(u.moves, y, n) BY <1>6
    <2>3. c.do = "end" => y \notin c.ids BY <2>1, <2>2 DEF Leads
    <2>4. \E z : Leads(v.moves, z, n) BY <1>1, <2>2, <2>3 DEF Keeps
    <2>5. ASSUME NEW p \in Rows(v.moves), v.moves[p].next = n PROVE Spared(v.todo, p)
      <3>1. Spared(u.todo, p)
        <4>1. CASE p \in Rows(u.moves) BY <1>1, <2>1, <2>5, <4>1 DEF Keeps
        <4>2. CASE p \notin Rows(u.moves) BY <1>2, <4>2
        <4> QED BY <4>1, <4>2
      <3> QED BY <1>1, <3>1 DEF Keeps
    <2> QED BY <2>4, <2>5 DEF Watched
  <1> QED BY <1>3, <1>4, <1>5, <1>6 DEF v, Due

\* A step of the move that is being processed.
LEMMA LoneStep ==
  ASSUME NEW u, NEW t, NEW F, NEW owed, NEW c \in Calls, Sound(u, t, F, owed, Target(c)), Fits(u, t, owed, c),
         Lone(c), NEW n \in Rows(u.moves), Due(u, c, n), Idles(u.todo)
  PROVE  Watched(Make(u, c), n) /\ OneByOne(Make(u, c).todo)
  <1>0. u \in Requests /\ u.moves \in Table /\ n \in Move /\ u.todo \in Seq(Calls) BY SoundIs, Fields
  <1>1. PICK x : c.ids = {x} BY DEF Lone
  <1>2. c \in IdsCalls /\ x \in Rows(u.moves) /\ x \in Move /\ c.do \in {"done", "process", "release"}
    <2>1. c \in IdsCalls BY Shapes DEF Lone
    <2>2. c.ids \subseteq Rows(u.moves) BY DEF Fits, Names, Lone
    <2> QED BY <1>1, <2>1, <2>2 DEF Lone, Rows
  <1>3. ~Idle(c) BY <1>1, <1>2 DEF Idle
  <1>4. \/ u.moves[n].state # "waiting"
        \/ /\ \E y : Leads(u.moves, y, n)
           /\ \A p \in Rows(u.moves) : u.moves[p].next = n => Spared(u.todo, p) \/ (c.do = "release" /\ x = p)
    BY <1>1, <1>3 DEF Due
  <1>5. CASE c.do = "done"
    <2> DEFINE a == [do |-> "process", ids |-> {x}]
               b == [do |-> "confirm", ids |-> {m \in {x} : u.moves[m].state = "draft"}]
               v == Call(u, a)
    <2>1. Make(u, c) = Call(v, b) BY <1>1, <1>5 DEF Make, Done
    <2>2. a \in Calls /\ b \in Calls /\ Lone(a) /\ Idle(b) BY <1>2 DEF Calls, IdsCalls, Lone, Idle
    <2>3. a.do # "end" /\ b.do # "end" OBVIOUS
    <2> HIDE DEF a, b
    <2>4. v \in Requests /\ v.moves = u.moves /\ v.todo = Append(u.todo, a) BY <1>0, <2>2, CallIs
    <2>5. v.todo \in Seq(Calls) /\ OneByOne(v.todo) /\ \A y : Spared(u.todo, y) => Spared(v.todo, y)
      BY <1>0, <2>2, <2>3, <2>4, Pushed
    <2> HIDE DEF v
    <2> DEFINE z == Call(v, b)
    <2>6. z.moves = u.moves /\ z.todo = Append(v.todo, b) BY <2>2, <2>4, CallIs
    <2> HIDE DEF z
    <2>7. OneByOne(z.todo) /\ \A y : Spared(u.todo, y) => Spared(z.todo, y)
      BY <2>2, <2>3, <2>5, <2>6, Pushed
    <2>8. Watched(z, n) BY <1>4, <1>5, <2>6, <2>7 DEF Watched
    <2> QED BY <2>1, <2>7, <2>8 DEF z
  <1>6. CASE c.do = "process"
    <2> DEFINE open == {m \in {x} : u.moves[m].state \notin Ended}
               waiting == {m \in open : u.moves[m].state = "waiting"}
               a == [do |-> "end", ids |-> open]
               b == [do |-> "confirm", ids |-> waiting]
               d == [do |-> "release", ids |-> open]
               v == Call(u, a)
    <2>1. Make(u, c) = Call(Call(v, b), d) BY <1>1, <1>6 DEF Make, Process
    <2>2. open = {} \/ open = {x} OBVIOUS
    <2>3. open \subseteq Move /\ waiting \subseteq Move BY <1>2
    <2> HIDE DEF open, waiting
    <2>4. a \in Calls /\ b \in Calls /\ d \in Calls BY <2>3 DEF Calls, IdsCalls
    <2>5. Idle(a) /\ Idle(b) /\ (Idle(d) \/ Lone(d)) BY <2>2 DEF Idle, Lone
    <2>6. a.ids = open /\ d.ids = open /\ d.do = "release" /\ b.do # "end" /\ d.do # "end" OBVIOUS
    <2> HIDE DEF a, b, d
    <2>7. v \in Requests /\ v.moves = u.moves /\ v.todo = Append(u.todo, a) BY <1>0, <2>4, CallIs
    <2>8. v.todo \in Seq(Calls) /\ Idles(v.todo) /\ \A y : Spared(u.todo, y) /\ y \notin open => Spared(v.todo, y)
      BY <1>0, <2>4, <2>5, <2>6, <2>7, Pushed
    <2> HIDE DEF v
    <2> DEFINE y1 == Call(v, b)
    <2>9. y1 \in Requests /\ y1.moves = u.moves /\ y1.todo = Append(v.todo, b) BY <2>4, <2>7, CallIs
    <2> HIDE DEF y1
    <2>10. y1.todo \in Seq(Calls) /\ Idles(y1.todo) /\ \A y : Spared(u.todo, y) /\ y \notin open => Spared(y1.todo, y)
      BY <2>4, <2>5, <2>6, <2>8, <2>9, Pushed
    <2> DEFINE z == Call(y1, d)
    <2>11. z.moves = u.moves /\ z.todo = Append(y1.todo, d) BY <2>4, <2>9, CallIs
    <2> HIDE DEF z
    <2>12. OneByOne(z.todo) /\ \A y : Spared(u.todo, y) /\ y \notin open => Spared(z.todo, y)
      <3>1. CASE Lone(d) BY <2>4, <2>6, <2>10, <2>11, <3>1, Pushed
      <3>2. CASE Idle(d)
        <4>1. Idles(z.todo) BY <2>4, <2>10, <2>11, <3>2, Pushed
        <4>2. OneByOne(z.todo) BY <4>1 DEF Idles, OneByOne
        <4> QED BY <2>4, <2>6, <2>10, <2>11, <4>2, Pushed
      <3> QED BY <2>5, <3>1, <3>2
    <2>13. \A p : open = {p} => Releasing(z.todo, p) BY <2>4, <2>6, <2>10, <2>11, Pushed
    <2>14. \A p : p \in open => open = {p} BY <2>2
    <2>15. Watched(z, n)
      <3>1. CASE u.moves[n].state # "waiting" BY <2>11, <3>1 DEF Watched
      <3>2. CASE /\ \E y : Leads(u.moves, y, n)
                 /\ \A p \in Rows(u.moves) : u.moves[p].next = n => Spared(u.todo, p)
        <4>1. \A p \in Rows(z.moves) : z.moves[p].next = n => Spared(z.todo, p) \/ Releasing(z.todo, p)
          BY <2>11, <2>12, <2>13, <2>14, <3>2
        <4> QED BY <2>11, <3>2, <4>1 DEF Watched
      <3> QED BY <1>4, <1>6, <3>1, <3>2
    <2> QED BY <2>1, <2>12, <2>15 DEF z, y1
  <1>7. CASE c.do = "release"
    <2> DEFINE k == u.moves[x].next
               d == [do |-> "release", ids |-> {}]
               rest == Call(u, d)
               forced == SetState(rest, {k}, "assigned")
               f == [do |-> "done", ids |-> {k}]
               last == Call(forced, f)
    <2>0. Min(c.ids) = x
      <3>1. Min({x}) \in {x} BY <1>2, Least
      <3> QED BY <1>1, <3>1
    <2>1. [c EXCEPT !.ids = c.ids \ {x}] = d BY <1>1, <1>2, <1>7 DEF IdsCalls
    <2>2. Make(u, c) = IF k = 0 THEN rest
                       ELSE IF Upstream(u.moves, x) # {} \/ u.moves[k].state \notin {"waiting", "confirmed"} THEN rest
                       ELSE IF u.moves[k].auto THEN last
                       ELSE forced
      BY <1>1, <1>7, <2>0, <2>1 DEF Make, Release, ForceAssign
    <2>3. d \in Calls /\ Idle(d) /\ d.do # "end" BY DEF Calls, IdsCalls, Idle
    <2>4. k \in Rows(u.moves) \cup {0}
      BY <1>2, SoundIs DEF Linked
    <2> HIDE DEF d, k
    <2>5. rest \in Requests /\ rest.moves = u.moves /\ rest.todo = Append(u.todo, d) BY <1>0, <2>3, CallIs
    <2>6. rest.todo \in Seq(Calls) /\ Idles(rest.todo) /\ \A y : Spared(u.todo, y) => Spared(rest.todo, y)
      BY <1>0, <2>3, <2>5, Pushed
    <2>7. OneByOne(rest.todo) BY <2>6 DEF Idles, OneByOne
    <2> HIDE DEF rest
    <2>8. k # n => \/ u.moves[n].state # "waiting"
                   \/ /\ \E y : Leads(u.moves, y, n)
                      /\ \A p \in Rows(u.moves) : u.moves[p].next = n => Spared(u.todo, p)
      BY <1>4 DEF k
    <2>9. CASE k = 0 \/ Upstream(u.moves, x) # {} \/ u.moves[k].state \notin {"waiting", "confirmed"}
      <3>1. Make(u, c) = rest BY <2>2, <2>9
      <3>2. CASE k # n BY <2>5, <2>6, <2>7, <2>8, <3>1, <3>2 DEF Watched
      <3>3. CASE k = n /\ u.moves[n].state # "waiting" BY <2>5, <2>7, <3>1, <3>3 DEF Watched
      <3>4. CASE k = n /\ u.moves[n].state = "waiting"
        <4>1. n # 0 BY <1>0 DEF Move
        <4>2. PICK o \in Upstream(u.moves, x) : TRUE BY <2>9, <3>4, <4>1
        <4>3. Leads(u.moves, o, n) /\ o # x BY <3>4, <4>2 DEF Upstream, Leads, k
        <4>4. Spared(u.todo, o) BY <1>4, <3>4, <4>3 DEF Leads
        <4> QED BY <2>5, <2>6, <2>7, <3>1, <4>3, <4>4 DEF Watched
      <3> QED BY <3>2, <3>3, <3>4
    <2>10. CASE ~(k = 0 \/ Upstream(u.moves, x) # {} \/ u.moves[k].state \notin {"waiting", "confirmed"})
      <3>1. Make(u, c) = IF u.moves[k].auto THEN last ELSE forced BY <2>2, <2>10
      <3>2. {k} \in SUBSET Rows(rest.moves) /\ k \in Move BY <2>4, <2>5, <2>10 DEF Rows
      <3>3. "assigned" \in Open \cup Ended /\ "assigned" \notin Ended /\ "assigned" # "waiting" BY DEF Open, Ended
      <3>4. SetTo(rest, forced, {k}, "assigned") BY <2>5, <3>2, <3>3, SetStateIs
      <3>5. /\ Rows(forced.moves) = Rows(u.moves)
            /\ \A p \in Move : forced.moves[p].next = u.moves[p].next
            /\ forced.moves[n].state = "waiting" => u.moves[n].state = "waiting"
            /\ \A y : Leads(u.moves, y, n) => Leads(forced.moves, y, n)
        <4> DEFINE r == rest.moves
        <4> HIDE DEF forced
        <4>1. /\ Rows(forced.moves) = Rows(r)
              /\ \A p \in Move : forced.moves[p].next = r[p].next
              /\ forced.moves[n].state = "waiting" => r[n].state = "waiting"
              /\ \A y : Leads(r, y, n) => Leads(forced.moves, y, n)
          BY <1>0, <2>5, <3>2, <3>3, <3>4, SetKeeps
        <4>2. r = u.moves BY <2>5
        <4> QED BY <4>1, <4>2
      <3>6. forced.moves[k].state = "assigned" /\ forced.todo = rest.todo /\ forced \in Requests
        BY <3>4 DEF SetTo
      <3>7. f \in Calls /\ Lone(f) /\ f.do # "end" BY <3>2 DEF Calls, IdsCalls, Lone
      <3> HIDE DEF f, forced
      <3>8. last.moves = forced.moves /\ last.todo = Append(rest.todo, f) BY <3>6, <3>7, CallIs
      <3> HIDE DEF last
      <3>9. OneByOne(last.todo) /\ \A y : Spared(u.todo, y) => Spared(last.todo, y)
        BY <2>6, <3>7, <3>8, Pushed
      <3> DEFINE v == IF u.moves[k].auto THEN last ELSE forced
      <3>10. /\ v.moves = forced.moves /\ OneByOne(v.todo)
             /\ \A y : Spared(u.todo, y) => Spared(v.todo, y)
        BY <2>6, <2>7, <3>6, <3>8, <3>9
      <3> HIDE DEF v
      <3>11. ASSUME k = n PROVE Watched(v, n) BY <3>6, <3>10, <3>11, <3>3 DEF Watched
      <3>12. ASSUME u.moves[n].state # "waiting" PROVE Watched(v, n) BY <3>5, <3>10, <3>12 DEF Watched
      <3>13. ASSUME \E y : Leads(u.moves, y, n),
                    \A p \in Rows(u.moves) : u.moves[p].next = n => Spared(u.todo, p)
             PROVE  Watched(v, n)
        <4>1. Rows(u.moves) \subseteq Move BY DEF Rows
        <4> QED BY <3>5, <3>10, <3>13, <4>1 DEF Watched
      <3>14. Watched(v, n) BY <2>8, <3>11, <3>12, <3>13
      <3> QED BY <3>1, <3>10, <3>14 DEF v
    <2> QED BY <2>9, <2>10
  <1> QED BY <1>2, <1>5, <1>6, <1>7

\* Requests that process one move and keep watch over n.
Watchful(t, F, n) == {w \in Healthy(t, F) : w.ok => OneByOne(w.todo) /\ Watched(w, n)}

LEMMA RunWatchful ==
  ASSUME NEW t, NEW F, NEW n \in Rows(t), NEW w \in Watchful(t, F, n)
  PROVE  Run(w) \in Watchful(t, F, n)
  <1>1. ASSUME NEW v \in Watchful(t, F, n) PROVE Step(v) \in Watchful(t, F, n)
    <2>0. v \in Healthy(t, F) /\ (v.ok => OneByOne(v.todo) /\ Watched(v, n)) BY DEF Watchful
    <2>1. CASE v.todo = << >> \/ ~v.ok BY <1>1, <2>1 DEF Step
    <2>2. CASE ~(v.todo = << >> \/ ~v.ok)
      <3>1. PICK owed : Sound(v, t, F, owed, {}) BY <2>0, <2>2 DEF Healthy
      <3> DEFINE u == [v EXCEPT !.todo = SubSeq(@, 1, Len(@) - 1)]
                 c == v.todo[Len(v.todo)]
      <3>2. c \in Calls /\ Sound(u, t, F, owed, Target(c)) /\ Fits(u, t, owed, c) BY <2>2, <3>1, Pop
      <3>3. Step(v) = Make(u, c) BY <2>2 DEF Step
      <3>4. v \in Requests /\ v.todo \in Seq(Calls) BY <2>0, Fields DEF Healthy
      <3>5. u.moves = v.moves /\ u.todo = SubSeq(v.todo, 1, Len(v.todo) - 1) BY <3>4 DEF Requests
      <3> HIDE DEF u
      <3>6. /\ Idles(v.todo) => Idles(u.todo) /\ Idle(c)
            /\ OneByOne(v.todo) => (Idle(c) /\ OneByOne(u.todo)) \/ (Lone(c) /\ Idles(u.todo))
            /\ \A y : Spared(v.todo, y) <=> Spared(u.todo, y) /\ (c.do = "end" => y \notin c.ids)
            /\ \A y : Releasing(v.todo, y) <=> c.do = "release" /\ c.ids = {y}
        BY <2>2, <3>4, <3>5, Popped
      <3> HIDE DEF c
      <3>7. \E due : After(Make(u, c), t, F, due, {}) BY <3>2, MakeSound
      <3>8. Make(u, c) \in Healthy(t, F) BY <3>7, AfterHealthy
      <3>9. n \in Rows(u.moves) BY <3>2, SoundIs
      <3>10. Due(u, c, n)
        <4>1. Watched(v, n) BY <2>0, <2>2
        <4> QED BY <3>5, <3>6, <4>1 DEF Watched, Due
      <3>11. Make(u, c).ok => OneByOne(Make(u, c).todo) /\ Watched(Make(u, c), n)
        <4>1. CASE Idle(c) /\ OneByOne(u.todo) BY <3>2, <3>9, <3>10, <4>1, IdleStep
        <4>2. CASE Lone(c) /\ Idles(u.todo) BY <3>2, <3>9, <3>10, <4>2, LoneStep
        <4> QED BY <2>0, <2>2, <3>6, <4>1, <4>2
      <3> QED BY <3>3, <3>8, <3>11 DEF Watchful
    <2> QED BY <2>1, <2>2
  <1> DEFINE S == Watchful(t, F, n)
  <1>2. w \in S /\ \A v \in S : Step(v) \in S BY <1>1
  <1> HIDE DEF S
  <1>3. Run(w) \in S BY <1>2, RunIn
  <1> QED BY <1>3 DEF S

\* The request of the button, on the snapshot t, before its first call.
LEMMA DoneWatchful ==
  ASSUME NEW w, NEW t, NEW F, Fresh(w, t, F), NEW m \in Rows(t), t[m].state \notin Ended,
         Idles(w.todo), \A y : Spared(w.todo, y)
  PROVE  Call(w, [do |-> "done", ids |-> {m}]) \in Watchful(t, F, t[m].next)
  <1> DEFINE c == [do |-> "done", ids |-> {m}]
             v == Call(w, c)
             n == t[m].next
  <1>1. v \in Healthy(t, F) BY MoveRequests
  <1>2. w \in Requests /\ w.moves = t /\ m \in Move BY FreshIs, SoundIs DEF Fresh
  <1>3. c \in Calls /\ Lone(c) /\ c.do # "end" BY <1>2 DEF Calls, IdsCalls, Lone
  <1> HIDE DEF c
  <1>4. v.moves = t /\ v.todo = Append(w.todo, c) BY <1>2, <1>3, CallIs
  <1>5. w.todo \in Seq(Calls) BY <1>2, Fields
  <1> HIDE DEF v
  <1>6. OneByOne(v.todo) /\ \A y : Spared(v.todo, y) BY <1>3, <1>4, <1>5, Pushed
  <1>7. Leads(t, m, n) BY DEF Leads
  <1>8. Watched(v, n) BY <1>4, <1>6, <1>7 DEF Watched
  <1> QED BY <1>1, <1>6, <1>8 DEF Watchful, v, c

Releases ==
    \A m \in {k \in Lines(Alone, "done") : db[k].next # 0} :
        (/\ db'[db[m].next].state = "waiting"
         /\ \A o \in Rows(db') : db'[o].next = db[m].next => db'[o].state \in Ended)
            => ~DoneMove(Alone, m)

LEMMA StepReleases ==
  ASSUME IInv
  PROVE  Releases
  <1> SUFFICES ASSUME NEW m \in Lines(Alone, "done"), db[m].next # 0, DoneMove(Alone, m),
                      db'[db[m].next].state = "waiting",
                      \A o \in Rows(db') : db'[o].next = db[m].next => db'[o].state \in Ended
               PROVE  FALSE
    BY DEF Releases
  <1> DEFINE n == db[m].next
             w0 == Start(Alone, AnyOrder)
             q == Call(w0, [do |-> "done", ids |-> {m}])
             w == Run(q)
  <1>1. Read(Alone).snap = db /\ Active(Alone) BY DEF Read, Active
  <1>2. m \in Rows(db) /\ db[m].state \notin Ended BY <1>1 DEF Lines, Seen, Buttons, Ended
  <1>3. n \in Rows(db) BY <1>2 DEF IInv, Linked
  <1>4. Fresh(w0, db, Free) BY <1>1, AnyOrderIs, StartFresh
  <1>5. Idles(w0.todo) /\ \A y : Spared(w0.todo, y) BY DEF Start, Idles, Spared
  <1> HIDE DEF w0
  <1>6. q \in Watchful(db, Free, n) BY <1>2, <1>4, <1>5, DoneWatchful
  <1>7. Commit(Alone, q) BY DEF DoneMove, w0
  <1> HIDE DEF q
  <1>8. w \in Watchful(db, Free, n) BY <1>3, <1>6, RunWatchful
  <1>9. w.ok /\ w.todo = << >> /\ db' = Published(w) BY <1>7 DEF Commit
  <1> HIDE DEF w, n
  <1>10. Watched(w, n) BY <1>8, <1>9 DEF Watchful
  <1>11. PICK owed : Sound(w, db, Free, owed, {}) BY <1>8, <1>9 DEF Watchful, Healthy
  <1>12. \A k \in Move : db'[k] = w.moves[k]
    <2>1. \A k \in Move \ w.wrote : w.moves[k] = db[k] BY <1>11 DEF Sound, Data
    <2> QED BY <1>9, <2>1 DEF Published
  <1>13. n \in Move BY <1>3 DEF Rows
  <1>14. PICK y : Leads(w.moves, y, n)
    <2>1. w.moves[n].state = "waiting" BY <1>12, <1>13 DEF n
    <2> QED BY <1>10, <2>1 DEF Watched
  <1>15. y \in Rows(db') /\ db'[y].next = n /\ db'[y].state \notin Ended BY <1>12, <1>14 DEF Leads, Rows
  <1> QED BY <1>15 DEF n

-----------------------------------------------------------------------------
(* A reservation that nothing overtakes.                                     *)

\* Since b no location gave more than it had, in one piece or to the moves of b
\* taken together.
Held(t, m) == t[m].state \in {"done", "assigned"}
Fine(b, t) ==
    /\ \A l : Available(t, l) <= Available(b, l)
    /\ \A m \in Rows(t) : t[m].state = "assigned" /\ b[m].state # "assigned" /\ t[m].src \notin Unlimited =>
        /\ t[m].qty <= Available(b, t[m].src)
        /\ m \in Rows(b) => Left(t, t[m].src, Rows(b)) >= 0

LEMMA QuantitiesNat ==
  ASSUME NEW t \in Table, NEW S \in SUBSET Rows(t)
  PROVE  IsFiniteSet(S) /\ \A m \in S : m \in Move /\ Quantities(t)[m] = t[m].qty /\ Quantities(t)[m] \in Nat
  <1>1. Rows(t) \subseteq Move BY DEF Rows
  <1>2. IsFiniteSet(S) BY <1>1, MoveFinite, FS_Subset
  <1>3. ASSUME NEW m \in S PROVE m \in Move /\ Quantities(t)[m] = t[m].qty /\ Quantities(t)[m] \in Nat
    <2>1. m \in Move /\ t[m] \in Row BY <1>1, Rowed
    <2> QED BY <2>1 DEF Quantities, Row
  <1> QED BY <1>2, <1>3

\* A sum over more is no less.
LEMMA SumMore ==
  ASSUME NEW f, NEW T, IsFiniteSet(T), \A x \in T : f[x] \in Nat, NEW S \in SUBSET T
  PROVE  Sum(f, S) \in Nat /\ Sum(f, T) \in Nat /\ Sum(f, S) <= Sum(f, T)
  <1> DEFINE g == [x \in T |-> IF x \in S THEN f[x] ELSE 0]
             h == [x \in T |-> IF x \in S THEN 0 ELSE f[x]]
  <1>1. \A x \in T : g[x] \in Nat /\ h[x] \in Nat /\ f[x] = g[x] + h[x] OBVIOUS
  <1>2. \A x \in S : g[x] = f[x] /\ f[x] \in Nat OBVIOUS
  <1>3. \A x \in T \ S : g[x] = 0 OBVIOUS
  <1> HIDE DEF g, h
  <1>4. IsFiniteSet(S) BY FS_Subset
  <1>5. Sum(f, T) = Sum(g, T) + Sum(h, T) BY <1>1, SumAdd
  <1>6. Sum(g, T) = Sum(g, S) BY <1>1, <1>3, SumSupport
  <1>7. Sum(g, S) = Sum(f, S) BY <1>2, <1>4, SumSame
  <1>8. Sum(h, T) \in Nat /\ Sum(f, S) \in Nat /\ Sum(f, T) \in Nat BY <1>1, <1>2, <1>4, SumNat
  <1> QED BY <1>5, <1>6, <1>7, <1>8

\* What some moves leave is no less than what all of them leave.
LEMMA LeftMore ==
  ASSUME NEW t \in Table, NEW l, NEW R
  PROVE  Left(t, l, R) \in Int /\ Available(t, l) <= Left(t, l, R)
  <1> DEFINE f == Quantities(t)
             in == MovesIn(t, l)
             out == MovesOut(t, l)
  <1>1. in \in SUBSET Rows(t) /\ out \in SUBSET Rows(t) BY DEF MovesIn, MovesOut
  <1>2. IsFiniteSet(in) /\ IsFiniteSet(out) /\ \A k \in in \cup out : f[k] \in Nat
    BY <1>1, QuantitiesNat
  <1>3. Available(t, l) = Sum(f, in) - Sum(f, out) /\ Left(t, l, R) = Sum(f, in) - Sum(f, out \cap R)
    BY DEF Available, Left
  <1> HIDE DEF f, in, out
  <1>4. Sum(f, in) \in Nat BY <1>2, SumNat
  <1>5. out \cap R \in SUBSET out OBVIOUS
  <1>6. Sum(f, out \cap R) \in Nat /\ Sum(f, out) \in Nat /\ Sum(f, out \cap R) <= Sum(f, out)
    BY <1>2, <1>5, SumMore
  <1>7. \A i, j, k \in Nat : j <= k => i - j \in Int /\ i - k <= i - j OBVIOUS
  <1> QED BY <1>3, <1>4, <1>6, <1>7

\* The same moves with the same quantities leave the same.
LEMMA LeftSame ==
  ASSUME NEW t \in Table, NEW v \in Table, NEW l, NEW R, MovesIn(v, l) = MovesIn(t, l),
         MovesOut(v, l) \cap R = MovesOut(t, l) \cap R,
         \A m \in MovesIn(t, l) \cup (MovesOut(t, l) \cap R) : v[m].qty = t[m].qty
  PROVE  Left(v, l, R) = Left(t, l, R)
  <1> DEFINE in == MovesIn(t, l)
             out == MovesOut(t, l) \cap R
  <1>1. in \in SUBSET Rows(t) /\ out \in SUBSET Rows(t) BY DEF MovesIn, MovesOut
  <1>2. \A S \in {in, out} : IsFiniteSet(S) /\ \A m \in S : m \in Move /\ Quantities(t)[m] \in Nat
    BY <1>1, QuantitiesNat
  <1>3. \A m \in in \cup out : v[m].qty = t[m].qty OBVIOUS
  <1>4. Left(v, l, R) = Sum(Quantities(v), in) - Sum(Quantities(v), out) BY DEF Left
  <1>5. Left(t, l, R) = Sum(Quantities(t), in) - Sum(Quantities(t), out) BY DEF Left
  <1> HIDE DEF in, out
  <1>6. \A m \in in \cup out : Quantities(t)[m] = Quantities(v)[m] /\ Quantities(t)[m] \in Int
    <2> SUFFICES ASSUME NEW m \in in \cup out
                 PROVE  Quantities(t)[m] = Quantities(v)[m] /\ Quantities(t)[m] \in Int
      OBVIOUS
    <2>1. m \in Move /\ Quantities(t)[m] \in Nat BY <1>2
    <2>2. Quantities(t)[m] = t[m].qty /\ Quantities(v)[m] = v[m].qty BY <2>1 DEF Quantities
    <2> QED BY <1>3, <2>1, <2>2
  <1>7. Sum(Quantities(t), in) = Sum(Quantities(v), in) BY <1>2, <1>6, SumSame
  <1>8. Sum(Quantities(t), out) = Sum(Quantities(v), out) BY <1>2, <1>6, SumSame
  <1> QED BY <1>4, <1>5, <1>7, <1>8

LEMMA LeftAll ==
  ASSUME NEW t, NEW l
  PROVE  Available(t, l) = Left(t, l, Move)
  <1>1. MovesOut(t, l) \cap Move = MovesOut(t, l) BY DEF MovesOut, Rows
  <1> QED BY <1>1 DEF Available, Left

\* Only held moves count.
LEMMA HeldSame ==
  ASSUME NEW t \in Table, NEW v \in Table, \A m \in Move : Held(t, m) \/ Held(v, m) => v[m] = t[m],
         NEW b, Fine(b, t)
  PROVE  Fine(b, v)
  <1>1. ASSUME NEW l, NEW R PROVE Left(v, l, R) = Left(t, l, R)
    <2>1. MovesIn(v, l) = MovesIn(t, l) /\ MovesOut(v, l) = MovesOut(t, l)
      BY DEF MovesIn, MovesOut, Held, Rows
    <2>2. \A m \in MovesIn(t, l) \cup MovesOut(t, l) : v[m] = t[m]
      BY DEF MovesIn, MovesOut, Held, Rows
    <2> QED BY <2>1, <2>2, LeftSame
  <1>2. \A l : Available(v, l) = Available(t, l) BY <1>1, LeftAll
  <1>3. \A m \in Rows(v) : v[m].state = "assigned" => v[m] = t[m] /\ m \in Rows(t)
    BY DEF Held, Rows
  <1> QED BY <1>1, <1>2, <1>3 DEF Fine

\* A move more is reserved.
LEMMA HeldMore ==
  ASSUME NEW t \in Table, NEW v \in Table, NEW m \in Move, ~Held(t, m), v[m] \in Row, v[m].state = "assigned",
         \A k \in Move \ {m} : v[k] = t[k], NEW l
  PROVE  /\ Available(v, l) = Available(t, l) - (IF v[m].src = l /\ v[m].dst # l THEN v[m].qty ELSE 0)
         /\ \A R : v[m].src # l => Left(v, l, R) = Left(t, l, R)
  <1> DEFINE fv == Quantities(v)
             ft == Quantities(t)
             in == MovesIn(t, l)
             out == MovesOut(t, l)
  <1>1. in \in SUBSET Rows(t) /\ out \in SUBSET Rows(t) /\ m \notin in /\ m \notin out
    BY DEF MovesIn, MovesOut, Held
  <1>2. MovesIn(v, l) = in /\ MovesOut(v, l) = IF v[m].src = l /\ v[m].dst # l THEN out \cup {m} ELSE out
    BY DEF MovesIn, MovesOut, Held, Rows
  <1>3. \A k \in Move \ {m} : fv[k] = ft[k] BY DEF Quantities
  <1>4. fv[m] = v[m].qty /\ v[m].qty \in Int BY DEF Quantities, Row
  <1>5. /\ IsFiniteSet(in) /\ IsFiniteSet(out)
        /\ \A k \in in \cup out : k \in Move \ {m} /\ ft[k] \in Int
    <2>1. \A k \in in \cup out : k \in Move /\ ft[k] \in Nat BY <1>1, QuantitiesNat
    <2>2. IsFiniteSet(in) /\ IsFiniteSet(out) BY <1>1, QuantitiesNat
    <2> QED BY <1>1, <2>1, <2>2
  <1>10. ASSUME NEW R, v[m].src # l PROVE Left(v, l, R) = Left(t, l, R)
    <2>1. MovesOut(v, l) = out BY <1>2, <1>10
    <2>2. \A k \in in \cup out : v[k] = t[k] BY <1>5
    <2> QED BY <1>2, <2>1, <2>2, LeftSame
  <1> HIDE DEF fv, ft, in, out
  <1>6. Sum(ft, in) = Sum(fv, in) /\ Sum(ft, out) = Sum(fv, out) BY <1>3, <1>5, SumSame
  <1>7. Sum(ft, in) \in Int /\ Sum(ft, out) \in Int BY <1>5, SumType
  <1>8. CASE v[m].src = l /\ v[m].dst # l
    <2>1. MovesOut(v, l) = out \cup {m} /\ (out \cup {m}) \ {m} = out BY <1>1, <1>2, <1>8
    <2>2. IsFiniteSet(out \cup {m}) BY <1>5, FS_AddElement
    <2>3. \A k \in out \cup {m} : fv[k] \in Int BY <1>3, <1>4, <1>5
    <2>4. Sum(fv, out \cup {m}) = fv[m] + Sum(fv, out) BY <2>1, <2>2, <2>3, SumRemove
    <2>5. \A i, j, k \in Int : i - (k + j) = i - j - k OBVIOUS
    <2>6. Available(v, l) = Sum(fv, in) - Sum(fv, out \cup {m}) BY <1>2, <2>1 DEF Available, fv
    <2>7. Available(t, l) = Sum(ft, in) - Sum(ft, out) BY DEF Available, ft, in, out
    <2>8. Available(v, l) = Available(t, l) - v[m].qty BY <1>4, <1>6, <1>7, <2>4, <2>5, <2>6, <2>7
    <2> QED BY <1>8, <1>10, <2>8
  <1>9. CASE ~(v[m].src = l /\ v[m].dst # l)
    <2>1. Available(v, l) = Sum(fv, in) - Sum(fv, out) BY <1>2, <1>9 DEF Available, fv
    <2>2. Available(t, l) = Sum(ft, in) - Sum(ft, out) BY DEF Available, ft, in, out
    <2>3. Available(v, l) = Available(t, l) - 0 BY <1>6, <1>7, <2>1, <2>2
    <2> QED BY <1>9, <1>10, <2>3
  <1> QED BY <1>8, <1>9

LEMMA FineMore ==
  ASSUME NEW t \in Table, NEW v \in Table, NEW m \in Move, ~Held(t, m), v[m] \in Row, v[m].state = "assigned",
         \A k \in Move \ {m} : v[k] = t[k], NEW b \in Table, Fine(b, t),
         v[m].qty <= Available(t, v[m].src)
  PROVE  Fine(b, v)
  <1> DEFINE q == v[m].qty
             s == v[m].src
             R == Rows(b)
  <1>1. q \in Nat BY DEF Row
  <1>2. \A l : Available(t, l) \in Int /\ Available(v, l) \in Int /\ Available(b, l) \in Int BY AvailableInt
  <1>3. \A l : Available(t, l) <= Available(b, l) BY DEF Fine
  <1>4. ASSUME NEW l PROVE Available(v, l) <= Available(b, l)
    <2>1. Available(v, l) = Available(t, l) - (IF s = l /\ v[m].dst # l THEN q ELSE 0) BY HeldMore
    <2> HIDE DEF q, s
    <2> QED BY <1>1, <1>2, <1>3, <2>1
  <1>5. Left(v, s, R) >= 0
    <2>1. Available(v, s) = Available(t, s) - (IF s = s /\ v[m].dst # s THEN q ELSE 0) BY HeldMore
    <2>2. q <= Available(t, s) OBVIOUS
    <2>3. Left(v, s, R) \in Int /\ Available(v, s) <= Left(v, s, R) BY LeftMore
    <2> HIDE DEF q, s, R
    <2> QED BY <1>1, <1>2, <2>1, <2>2, <2>3
  <1>6. ASSUME NEW l, l # s PROVE Left(v, l, R) = Left(t, l, R) BY <1>6, HeldMore
  <1>7. q <= Available(b, s)
    <2>1. q <= Available(t, s) OBVIOUS
    <2> HIDE DEF q, s
    <2> QED BY <1>1, <1>2, <1>3, <2>1
  <1>8. ASSUME NEW k \in Rows(v), v[k].state = "assigned", b[k].state # "assigned", v[k].src \notin Unlimited
        PROVE  v[k].qty <= Available(b, v[k].src) /\ (k \in R => Left(v, v[k].src, R) >= 0)
    <2>1. CASE k = m BY <1>5, <1>7, <2>1
    <2>2. CASE k # m
      <3>1. k \in Rows(t) /\ v[k] = t[k] BY <2>2 DEF Rows
      <3>2. t[k].qty <= Available(b, t[k].src) /\ (k \in R => Left(t, t[k].src, R) >= 0)
        BY <1>8, <3>1 DEF Fine
      <3>3. CASE v[k].src = s BY <1>5, <3>1, <3>2, <3>3
      <3>4. CASE v[k].src # s
        <4>1. Left(v, v[k].src, R) = Left(t, v[k].src, R) BY <1>6, <3>4
        <4> QED BY <3>1, <3>2, <4>1
      <3> QED BY <3>3, <3>4
    <2> QED BY <2>1, <2>2
  <1> QED BY <1>4, <1>8 DEF Fine

\* A move that check_assign has found: at the end it may be assigned, since it is
\* assigned already, or comes from a supplier, or is a new one that was given a piece.
Pending(b, t, m) ==
    /\ m \in Rows(t) /\ t[m].state # "done"
    /\ \/ t[m].state = "assigned"
       \/ t[m].src \in Unlimited
       \/ m \notin Rows(b) /\ t[m].qty <= Available(b, t[m].src)

\* Steps after which moves that are pending still are.
Later(t, v) ==
    \A m \in Rows(t) :
        /\ m \in Rows(v)
        /\ t[m].state # "done" => v[m].state # "done"
        /\ t[m].state = "assigned" => v[m].state = "assigned"
        /\ v[m].state = "assigned" \/ (v[m].src = t[m].src /\ v[m].qty = t[m].qty)

LEMMA PendingLater ==
  ASSUME NEW b, NEW t, NEW v, Later(t, v), NEW m, Pending(b, t, m)
  PROVE  Pending(b, v, m)
  BY DEF Pending, Later

\* Those that were found are assigned.
LEMMA FineAll ==
  ASSUME NEW t \in Table, NEW v \in Table, NEW S \in SUBSET Move,
         \A m \in S : v[m] = [t[m] EXCEPT !.state = "assigned"], \A m \in Move \ S : v[m] = t[m],
         NEW b \in Table, Fine(b, t), \A m \in S : Pending(b, t, m)
  PROVE  Fine(b, v) /\ Later(t, v)
  <1> DEFINE R == Rows(b)
  <1>1. ASSUME NEW m \in S
        PROVE  /\ m \in Rows(t) /\ m \in Move /\ m \in Rows(v) /\ t[m].state # "done" /\ v[m].state = "assigned"
               /\ v[m].src = t[m].src /\ v[m].dst = t[m].dst /\ v[m].qty = t[m].qty
    <2>1. m \in Rows(t) /\ t[m].state # "done" /\ m \in Move BY DEF Pending
    <2>2. t[m] \in Row BY <2>1, Rowed
    <2>3. v[m] = [t[m] EXCEPT !.state = "assigned"] OBVIOUS
    <2>4. v[m].state = "assigned" /\ v[m].src = t[m].src /\ v[m].dst = t[m].dst /\ v[m].qty = t[m].qty
      BY <2>2, <2>3 DEF Row
    <2> QED BY <2>1, <2>4 DEF Rows
  <1>2. \A m \in Rows(t) : m \in Rows(v) /\ v[m].src = t[m].src /\ v[m].dst = t[m].dst /\ v[m].qty = t[m].qty
    BY <1>1 DEF Rows
  <1>3. \A m \in Rows(v) : m \in Rows(t) BY <1>1 DEF Rows
  <1>4. ASSUME NEW l PROVE MovesIn(v, l) = MovesIn(t, l) /\ MovesOut(t, l) \subseteq MovesOut(v, l)
    <2>1. \A m \in MovesIn(v, l) : m \in MovesIn(t, l)
      <3> SUFFICES ASSUME NEW m \in MovesIn(v, l) PROVE m \in MovesIn(t, l)
        OBVIOUS
      <3>1. m \in Rows(v) /\ m \in Move /\ v[m].state = "done" BY DEF MovesIn, Rows
      <3>2. m \notin S BY <1>1, <3>1
      <3>3. v[m] = t[m] BY <3>1, <3>2
      <3> QED BY <1>3, <3>1, <3>3 DEF MovesIn
    <2>2. \A m \in MovesIn(t, l) : m \in MovesIn(v, l)
      <3> SUFFICES ASSUME NEW m \in MovesIn(t, l) PROVE m \in MovesIn(v, l)
        OBVIOUS
      <3>1. m \in Rows(t) /\ m \in Move /\ t[m].state = "done" BY DEF MovesIn, Rows
      <3>2. m \notin S BY <1>1, <3>1
      <3>3. v[m] = t[m] BY <3>1, <3>2
      <3> QED BY <1>2, <3>1, <3>3 DEF MovesIn
    <2>3. \A m \in MovesOut(t, l) : m \in MovesOut(v, l) BY <1>1, <1>2 DEF MovesOut, Rows
    <2> QED BY <2>1, <2>2, <2>3
  <1>5. ASSUME NEW l PROVE Available(v, l) <= Available(b, l)
    <2> DEFINE out == MovesOut(t, l)
    <2>1. MovesOut(v, l) \cap out = MovesOut(t, l) \cap out BY <1>4
    <2>2. \A m \in MovesIn(t, l) \cup (MovesOut(t, l) \cap out) : v[m].qty = t[m].qty
      BY <1>2 DEF MovesIn, MovesOut
    <2> HIDE DEF out
    <2>3. Left(v, l, out) = Left(t, l, out) BY <1>4, <2>1, <2>2, LeftSame
    <2>4. Left(t, l, out) = Available(t, l)
      <3>1. MovesOut(t, l) \cap out = MovesOut(t, l) BY DEF out
      <3> QED BY <3>1 DEF Left, Available
    <2>5. Available(v, l) <= Left(v, l, out) BY LeftMore
    <2>6. Available(t, l) <= Available(b, l) BY DEF Fine
    <2>7. Available(v, l) \in Int /\ Available(t, l) \in Int /\ Available(b, l) \in Int BY AvailableInt
    <2> QED BY <2>3, <2>4, <2>5, <2>6, <2>7
  <1>6. ASSUME NEW l, l \notin Unlimited PROVE Left(v, l, R) = Left(t, l, R)
    <2>1. \A m \in MovesOut(v, l) \cap R : m \in MovesOut(t, l)
      <3> SUFFICES ASSUME NEW m \in MovesOut(v, l) \cap R PROVE m \in MovesOut(t, l)
        OBVIOUS
      <3>1. m \in Rows(t) /\ m \in Move /\ t[m].src = l /\ t[m].dst # l /\ v[m].state \in {"done", "assigned"}
        BY <1>2, <1>3 DEF MovesOut, Rows
      <3>2. CASE m \in S
        <4>1. t[m].state = "assigned" BY <1>6, <3>1, <3>2 DEF Pending
        <4> QED BY <3>1, <4>1 DEF MovesOut
      <3>3. CASE m \notin S BY <3>1, <3>3 DEF MovesOut
      <3> QED BY <3>2, <3>3
    <2>2. MovesOut(v, l) \cap R = MovesOut(t, l) \cap R BY <1>4, <2>1
    <2>3. \A m \in MovesIn(t, l) \cup (MovesOut(t, l) \cap R) : v[m].qty = t[m].qty
      BY <1>2 DEF MovesIn, MovesOut
    <2> HIDE DEF R
    <2> QED BY <1>4, <2>2, <2>3, LeftSame
  <1>7. ASSUME NEW m \in Rows(v), v[m].state = "assigned", b[m].state # "assigned", v[m].src \notin Unlimited
        PROVE  v[m].qty <= Available(b, v[m].src) /\ (m \in R => Left(v, v[m].src, R) >= 0)
    <2>1. m \in Rows(t) /\ m \in Move /\ v[m].src = t[m].src /\ v[m].qty = t[m].qty
      BY <1>2, <1>3 DEF Rows
    <2>2. CASE t[m].state = "assigned"
      <3>1. t[m].qty <= Available(b, t[m].src) /\ (m \in R => Left(t, t[m].src, R) >= 0)
        BY <1>7, <2>1, <2>2 DEF Fine
      <3> QED BY <1>6, <1>7, <2>1, <3>1
    <2>3. CASE t[m].state # "assigned"
      <3>1. m \in S BY <1>7, <2>1, <2>3
      <3>2. m \notin R /\ t[m].qty <= Available(b, t[m].src) BY <1>7, <2>1, <2>3, <3>1 DEF Pending
      <3> QED BY <2>1, <3>2
    <2> QED BY <2>2, <2>3
  <1>8. Fine(b, v) BY <1>5, <1>7 DEF Fine
  <1>9. Later(t, v)
    <2> SUFFICES ASSUME NEW m \in Rows(t)
                 PROVE  /\ m \in Rows(v)
                        /\ t[m].state # "done" => v[m].state # "done"
                        /\ t[m].state = "assigned" => v[m].state = "assigned"
                        /\ v[m].state = "assigned" \/ (v[m].src = t[m].src /\ v[m].qty = t[m].qty)
      BY DEF Later
    <2>1. m \in Move BY DEF Rows
    <2>2. CASE m \in S BY <1>1, <2>2
    <2>3. CASE m \notin S BY <1>2, <2>1, <2>3
    <2> QED BY <2>2, <2>3
  <1> QED BY <1>8, <1>9

\* What the call that is made next relies on: the pieces that were found for a move
\* are there, and the moves that were found may be assigned.
Pieces(t, got) == \A i \in DOMAIN got : got[i].qty <= Available(t, got[i].src)
Settled(b, t, S) == \A m \in S : Pending(b, t, m)
Ready(b, t, c) ==
    /\ c.do \in {"confirm", "chain", "assign", "assign_lines", "reserve", "copies"}
    /\ Fine(b, t)
    /\ c.do = "confirm" => \A m \in c.ids : ~Held(t, m)
    /\ c.do = "chain" => \A m \in c.ids \cup c.new : ~Held(t, m)
    /\ c.do = "assign" => Settled(b, t, c.done)
    /\ c.do = "reserve" => ~Held(t, c.move) /\ Pieces(t, c.got) /\ Settled(b, t, c.done \ {c.move})
    /\ c.do = "copies" => Settled(b, t, c.done) /\ Pieces(b, c.got)

\* ... and what the calls that wait behind it rely on.
Below(b, t, c) ==
    \/ c.do = "assign_lines"
    \/ c.do = "assign" /\ Settled(b, t, c.done)
    \/ c.do = "copies" /\ Settled(b, t, c.done) /\ Pieces(b, c.got)
Belows(b, t, s) == \A i \in DOMAIN s : Below(b, t, s[i])

Reserving(b, w) ==
    /\ \A i \in DOMAIN w.todo \ {Len(w.todo)} : Below(b, w.moves, w.todo[i])
    /\ w.todo = << >> => Fine(b, w.moves)
    /\ w.todo # << >> => Ready(b, w.moves, w.todo[Len(w.todo)])

LEMMA Ends ==
  ASSUME NEW s \in Seq(Calls)
  PROVE  /\ s # << >> =>
              LET u == SubSeq(s, 1, Len(s) - 1)
              IN  \A i \in DOMAIN u : i \in DOMAIN s \ {Len(s)} /\ u[i] = s[i]
         /\ s # << >> => Len(s) \in DOMAIN s
         /\ \A c \in Calls : LET a == Append(s, c)
                             IN  /\ a # << >> /\ a \in Seq(Calls) /\ a[Len(a)] = c
                                 /\ \A i \in DOMAIN a : i # Len(a) => i \in DOMAIN s /\ a[i] = s[i]
  <1> DEFINE C == Calls
  <1> HIDE DEF C
  <1>1. s \in Seq(C) BY DEF C
  <1>2. s # << >> => Len(s) \in DOMAIN s BY <1>1
  <1>3. s # << >> =>
              LET u == SubSeq(s, 1, Len(s) - 1)
              IN  \A i \in DOMAIN u : i \in DOMAIN s \ {Len(s)} /\ u[i] = s[i]
    BY <1>1
  <1>4. \A c \in C : LET a == Append(s, c)
                     IN  /\ a # << >> /\ a \in Seq(C) /\ a[Len(a)] = c
                         /\ \A i \in DOMAIN a : i # Len(a) => i \in DOMAIN s /\ a[i] = s[i]
    BY <1>1
  <1> QED BY <1>2, <1>3, <1>4 DEF C

LEMMA Settle ==
  ASSUME NEW v \in Requests, NEW b, Belows(b, v.moves, v.todo), Fine(b, v.moves)
  PROVE  Reserving(b, v)
  <1>1. v.todo \in Seq(Calls) BY Fields
  <1>2. v.todo # << >> => Len(v.todo) \in DOMAIN v.todo BY <1>1, Ends
  <1>3. ASSUME NEW c, Below(b, v.moves, c) PROVE Ready(b, v.moves, c) BY <1>3 DEF Below, Ready
  <1> QED BY <1>2, <1>3 DEF Reserving, Belows

LEMMA PushReady ==
  ASSUME NEW v \in Requests, NEW b, NEW c \in Calls, Belows(b, v.moves, v.todo), Ready(b, v.moves, c)
  PROVE  Reserving(b, Call(v, c))
  <1> DEFINE w == Call(v, c)
  <1>1. v.todo \in Seq(Calls) BY Fields
  <1>2. w.moves = v.moves /\ w.todo = Append(v.todo, c) BY CallIs
  <1> HIDE DEF w
  <1>3. /\ w.todo # << >> /\ w.todo[Len(w.todo)] = c
        /\ \A i \in DOMAIN w.todo : i # Len(w.todo) => i \in DOMAIN v.todo /\ w.todo[i] = v.todo[i]
    BY <1>1, <1>2, Ends
  <1>4. Reserving(b, w) BY <1>2, <1>3 DEF Reserving, Belows
  <1> QED BY <1>4 DEF w

LEMMA PushBelow ==
  ASSUME NEW v \in Requests, NEW b, NEW c \in Calls, Belows(b, v.moves, v.todo), Below(b, v.moves, c)
  PROVE  /\ Call(v, c) \in Requests /\ Call(v, c).moves = v.moves /\ Call(v, c).order = v.order
         /\ Belows(b, v.moves, Call(v, c).todo)
  <1> DEFINE w == Call(v, c)
  <1>1. v.todo \in Seq(Calls) BY Fields
  <1>2. w \in Requests /\ w.moves = v.moves /\ w.order = v.order /\ w.todo = Append(v.todo, c) BY CallIs
  <1> HIDE DEF w
  <1>3. /\ w.todo[Len(w.todo)] = c
        /\ \A i \in DOMAIN w.todo : i # Len(w.todo) => i \in DOMAIN v.todo /\ w.todo[i] = v.todo[i]
    BY <1>1, <1>2, Ends
  <1>4. Belows(b, v.moves, w.todo) BY <1>3 DEF Belows
  <1> QED BY <1>2, <1>4 DEF w

LEMMA Carried ==
  ASSUME NEW s, NEW b, NEW t, NEW v, Belows(b, t, s), Later(t, v)
  PROVE  Belows(b, v, s)
  <1>1. \A S : Settled(b, t, S) => Settled(b, v, S) BY PendingLater DEF Settled
  <1> QED BY <1>1 DEF Belows, Below

\* Rows set to confirmed.
LEMMA ConfirmedIs ==
  ASSUME NEW w \in Requests, NEW S \in SUBSET Rows(w.moves), \A m \in S : ~Held(w.moves, m)
  PROVE  LET v == SetState(w, S, "confirmed")
         IN  /\ SetTo(w, v, S, "confirmed") /\ v.moves \in Table
             /\ \A m \in Move : Held(w.moves, m) \/ Held(v.moves, m) => v.moves[m] = w.moves[m]
             /\ \A m \in S : ~Held(v.moves, m)
             /\ Later(w.moves, v.moves)
  <1> DEFINE v == SetState(w, S, "confirmed")
  <1>1. "confirmed" \in Open \cup Ended BY DEF Open
  <1>2. SetTo(w, v, S, "confirmed") BY <1>1, SetStateIs
  <1>3. v.moves = [m \in Move |-> IF m \in S THEN [w.moves[m] EXCEPT !.state = "confirmed"] ELSE w.moves[m]]
    BY DEF SetState, Requests
  <1> HIDE DEF v
  <1>4. v.moves \in Table BY <1>2, Fields DEF SetTo
  <1>5. w.moves \in Table /\ S \subseteq Move /\ \A m \in S : w.moves[m] \in Row BY Fields, Rowed
  <1>6. ASSUME NEW m \in S
        PROVE  /\ v.moves[m].state = "confirmed" /\ w.moves[m].state # "assigned"
               /\ v.moves[m].src = w.moves[m].src /\ v.moves[m].qty = w.moves[m].qty
    <2>1. v.moves[m] = [w.moves[m] EXCEPT !.state = "confirmed"] BY <1>3, <1>5
    <2> QED BY <1>5, <2>1 DEF Row, Held
  <1>7. \A m \in Move \ S : v.moves[m] = w.moves[m] BY <1>3
  <1>8. \A m \in S : ~Held(v.moves, m) BY <1>6 DEF Held
  <1>9. \A m \in Move : Held(w.moves, m) \/ Held(v.moves, m) => v.moves[m] = w.moves[m] BY <1>7, <1>8
  <1>10. Later(w.moves, v.moves)
    <2> SUFFICES ASSUME NEW m \in Rows(w.moves)
                 PROVE  /\ m \in Rows(v.moves)
                        /\ w.moves[m].state # "done" => v.moves[m].state # "done"
                        /\ w.moves[m].state = "assigned" => v.moves[m].state = "assigned"
                        /\ \/ v.moves[m].state = "assigned"
                           \/ v.moves[m].src = w.moves[m].src /\ v.moves[m].qty = w.moves[m].qty
      BY DEF Later
    <2>1. m \in Move BY DEF Rows
    <2>2. CASE m \in S BY <1>6, <2>1, <2>2 DEF Rows
    <2>3. CASE m \notin S BY <1>7, <2>1, <2>3 DEF Rows
    <2> QED BY <2>2, <2>3
  <1> QED BY <1>2, <1>4, <1>8, <1>9, <1>10 DEF v

LEMMA Chain1Ready ==
  ASSUME NEW v \in Requests, NEW b, NEW ids \in SUBSET Move, Belows(b, v.moves, v.todo),
         Fine(b, v.moves), \A m \in ids : ~Held(v.moves, m), Chain1(v, ids).ok
  PROVE  Reserving(b, Chain1(v, ids))
  <1> DEFINE d == [do |-> "chain", ids |-> ids, new |-> {}, pick |-> Min(FreePicks(v))]
  <1>1. FreePicks(v) # {} /\ Chain1(v, ids) = Call(v, d) BY RaiseIs DEF Chain1
  <1>2. d \in Calls BY <1>1, FreePick DEF Calls, ChainCalls
  <1>3. Ready(b, v.moves, d) BY DEF Ready
  <1> HIDE DEF d
  <1> QED BY <1>1, <1>2, <1>3, PushReady

LEMMA ConfirmReady ==
  ASSUME NEW u \in Requests, NEW b, NEW c \in IdsCalls, c.do = "confirm", c.ids \subseteq Rows(u.moves),
         Belows(b, u.moves, u.todo), Ready(b, u.moves, c), Confirm(u, c.ids).ok
  PROVE  Reserving(b, Confirm(u, c.ids))
  <1>1. Fine(b, u.moves) /\ \A m \in c.ids : ~Held(u.moves, m) BY DEF Ready
  <1>2. CASE c.ids = {} BY <1>1, <1>2, Settle DEF Confirm
  <1>3. CASE c.ids # {}
    <2> DEFINE v == SetState(u, c.ids, "confirmed")
    <2>1. c.ids \in SUBSET Rows(u.moves) OBVIOUS
    <2>2. /\ SetTo(u, v, c.ids, "confirmed") /\ v.moves \in Table
          /\ \A m \in Move : Held(u.moves, m) \/ Held(v.moves, m) => v.moves[m] = u.moves[m]
          /\ \A m \in c.ids : ~Held(v.moves, m)
          /\ Later(u.moves, v.moves)
      BY <1>1, <2>1, ConfirmedIs
    <2>3. Confirm(u, c.ids) = Chain1(v, c.ids) BY <1>3 DEF Confirm
    <2> HIDE DEF v
    <2>4. v \in Requests /\ v.todo = u.todo /\ u.moves \in Table BY <2>2, Fields DEF SetTo
    <2>5. Belows(b, v.moves, v.todo) BY <2>2, <2>4, Carried
    <2>6. Fine(b, v.moves) BY <1>1, <2>2, <2>4, HeldSame
    <2>7. c.ids \in SUBSET Move BY DEF Rows
    <2> QED BY <2>2, <2>3, <2>4, <2>5, <2>6, <2>7, Chain1Ready
  <1> QED BY <1>2, <1>3

\* Chained moves wait.
LEMMA ChainedReady ==
  ASSUME NEW u, NEW t, NEW F, NEW owed, Sound(u, t, F, owed, {}),
         NEW c \in ChainCalls, Fits(u, t, owed, c), NEW b,
         Belows(b, u.moves, u.todo), Ready(b, u.moves, c), Chained(u, c).ok
  PROVE  Reserving(b, Chained(u, c))
  <1>1. c.ids \in SUBSET Move /\ c.new \in SUBSET Move /\ c.pick \in Nat /\ c.do = "chain" BY DEF ChainCalls
  <1>2. c.ids \subseteq Rows(u.moves)
    BY <1>1 DEF Fits, Names
  <1>3. u \in Requests /\ u.moves \in Table /\ u.todo \in Seq(Calls) BY SoundIs, Fields
  <1>4. Fine(b, u.moves) /\ \A m \in c.ids \cup c.new : ~Held(u.moves, m) BY <1>1 DEF Ready
  <1>5. CASE c.ids = {}
    <2>1. CASE c.new = {} BY <1>3, <1>4, <1>5, <2>1, Settle DEF Chained
    <2>2. CASE c.new # {} BY <1>1, <1>3, <1>4, <1>5, <2>2, Chain1Ready DEF Chained
    <2> QED BY <2>1, <2>2
  <1>6. CASE c.ids # {}
    <2> DEFINE m == Min(c.ids)
               e == NewId(u)
               row == u.moves[m]
               here == Arrive[row.dst]
               moved == IF here = row.dst THEN u ELSE Put(u, m, [row EXCEPT !.dst = here])
               onward == [row EXCEPT !.state = "waiting", !.src = here, !.dst = Chain[here], !.incoming = FALSE,
                                     !.pick = IF @ = 0 THEN 0 ELSE c.pick, !.leg = e]
               made == Insert(moved, onward)
               linked == Put(made, m, [moved.moves[m] EXCEPT !.next = e])
               rest == [c EXCEPT !.ids = @ \ {m}]
               more == [rest EXCEPT !.new = @ \cup {e}]
    <2>0. Chained(u, c) = IF Chain[here] = None THEN Call(moved, rest)
                          ELSE IF u.free = {} THEN Raise(u)
                          ELSE Call(linked, more)
      BY <1>6 DEF Chained
    <2>1. m \in Rows(u.moves) /\ m \in c.ids /\ m \in Move BY <1>1, <1>2, <1>6, Least
    <2>2. row \in Row BY <2>1, SoundIs
    <2>3. here \in Location /\ Chain[here] \in Location \cup {None}
      BY <2>2, StockAssumption DEF Row
    <2>4. [row EXCEPT !.dst = here] \in Row /\ [row EXCEPT !.dst = here].state = row.state
          /\ [row EXCEPT !.dst = here].src = row.src /\ [row EXCEPT !.dst = here].qty = row.qty
      <3> HIDE DEF here, row
      <3> QED BY <2>2, <2>3 DEF Row
    <2>5. /\ moved \in Requests /\ moved.free = u.free /\ moved.todo = u.todo
          /\ moved.moves \in Table /\ moved.moves[m] \in Row
          /\ moved.moves[m].state = row.state
          /\ moved.moves[m].src = row.src /\ moved.moves[m].qty = row.qty
          /\ \A p \in Move \ {m} : moved.moves[p] = u.moves[p]
      <3>1. CASE here = row.dst BY <1>3, <2>2, <3>1
      <3>2. CASE here # row.dst
        <4> DEFINE new == [row EXCEPT !.dst = here]
                   v == Put(u, m, new)
        <4>1. moved = v BY <3>2
        <4>2. new \in Row /\ new.state = row.state /\ new.src = row.src /\ new.qty = row.qty BY <2>4
        <4> HIDE DEF new, moved, here, row, m
        <4>3. /\ v \in Requests /\ v.free = u.free /\ v.todo = u.todo
              /\ v.moves = [u.moves EXCEPT ![m] = new]
          BY <1>3, <2>1, <4>2, PutIs
        <4> HIDE DEF v
        <4>4. v.moves \in Table BY <4>3, Fields
        <4>5. v.moves[m] = new /\ \A p \in Move \ {m} : v.moves[p] = u.moves[p]
          BY <1>3, <2>1, <4>3 DEF Table
        <4> QED BY <4>1, <4>2, <4>3, <4>4, <4>5
      <3> QED BY <3>1, <3>2
    <2>6. rest \in ChainCalls /\ rest.do = "chain" /\ rest.new = c.new /\ rest.ids \subseteq c.ids
      BY DEF ChainCalls
    <2>7. NewId(moved) = e BY <2>5 DEF NewId
    <2>8. ~Held(u.moves, m) BY <1>4, <2>1
    <2> HIDE DEF moved, rest
    <2>9. CASE Chain[here] = None
      <3>1. rest \in Calls BY <2>6 DEF Calls
      <3>2. \A p \in Move : /\ moved.moves[p].state = u.moves[p].state
                            /\ moved.moves[p].src = u.moves[p].src /\ moved.moves[p].qty = u.moves[p].qty
        BY <2>5
      <3>3. \A p \in Move : Held(u.moves, p) \/ Held(moved.moves, p) => moved.moves[p] = u.moves[p]
        BY <2>5, <2>8, <3>2 DEF Held
      <3>4. Fine(b, moved.moves) BY <1>3, <1>4, <2>5, <3>3, HeldSame
      <3>8. Later(u.moves, moved.moves) BY <3>2 DEF Later, Rows
      <3>5. Belows(b, moved.moves, moved.todo) BY <2>5, <3>8, Carried
      <3>6. \A p \in rest.ids \cup rest.new : ~Held(moved.moves, p)
        BY <1>1, <1>4, <2>6, <3>2 DEF Held
      <3>7. Ready(b, moved.moves, rest) BY <2>6, <3>4, <3>6 DEF Ready
      <3> QED BY <2>0, <2>5, <2>9, <3>1, <3>5, <3>7, PushReady
    <2>10. CASE Chain[here] # None /\ u.free = {} BY <1>3, <2>0, <2>10, RaiseIs
    <2>11. CASE Chain[here] # None /\ u.free # {}
      <3>1. e \in u.free /\ e \in Move BY <1>3, <2>2, <2>11, InsertIs
      <3>2. onward \in Row /\ onward.state = "waiting"
        <4> HIDE DEF here, e, row
        <4> QED BY <1>1, <2>2, <2>3, <2>11, <3>1 DEF Row, Open
      <3> HIDE DEF onward
      <3>3. u.moves[e] = NoRow /\ m # e
        <4>1. u.free \cap Rows(u.moves) = {} BY DEF Sound, Data
        <4>2. e \notin Rows(u.moves) BY <3>1, <4>1
        <4> QED BY <1>3, <2>1, <3>1, <4>2, Rowed
      <3>4. /\ made \in Requests /\ made.todo = u.todo
            /\ made.moves = [moved.moves EXCEPT ![e] = onward]
        BY <2>5, <2>7, <2>11, <3>2, InsertIs
      <3>5. made.moves[e] = onward /\ \A p \in Move \ {e} : made.moves[p] = moved.moves[p]
        BY <2>5, <3>1, <3>4 DEF Table
      <3> HIDE DEF made
      <3> DEFINE last == [moved.moves[m] EXCEPT !.next = e]
      <3>6. last \in Row /\ last.state = row.state /\ last.src = row.src /\ last.qty = row.qty BY <2>5, <3>1 DEF Row
      <3>7. linked = Put(made, m, last) BY DEF last
      <3> HIDE DEF last, linked, e, row, m
      <3>8. /\ linked \in Requests /\ linked.todo = u.todo
            /\ linked.moves = [made.moves EXCEPT ![m] = last]
        BY <2>1, <3>4, <3>6, <3>7, PutIs
      <3>9. made.moves \in Table /\ linked.moves \in Table BY <3>4, <3>8, Fields
      <3>10. /\ linked.moves[m] = last /\ linked.moves[e] = onward
             /\ \A p \in Move \ {m, e} : linked.moves[p] = u.moves[p]
        BY <2>1, <2>5, <3>1, <3>3, <3>5, <3>8, <3>9 DEF Table
      <3>11. ~Held(linked.moves, m) /\ ~Held(u.moves, e) /\ ~Held(linked.moves, e)
        BY <2>8, <3>2, <3>3, <3>6, <3>10 DEF Held, NoRow, row
      <3>12. \A p \in Move : Held(u.moves, p) \/ Held(linked.moves, p) => linked.moves[p] = u.moves[p]
        BY <2>8, <3>10, <3>11
      <3>13. Fine(b, linked.moves) BY <1>3, <1>4, <3>9, <3>12, HeldSame
      <3>14. Later(u.moves, linked.moves)
        <4>1. e \notin Rows(u.moves) BY <3>3 DEF Rows, NoRow
        <4>2. \A p \in Rows(u.moves) :
                /\ linked.moves[p].state = u.moves[p].state
                /\ linked.moves[p].src = u.moves[p].src /\ linked.moves[p].qty = u.moves[p].qty
          BY <3>6, <3>10, <4>1 DEF Rows, row
        <4> QED BY <4>2 DEF Later, Rows
      <3>15. Belows(b, linked.moves, linked.todo) BY <3>8, <3>14, Carried
      <3>16. more \in Calls /\ more.do = "chain" /\ more.ids = rest.ids /\ more.new = c.new \cup {e}
        BY <2>6, <3>1 DEF ChainCalls, Calls
      <3> HIDE DEF more
      <3>17. \A p \in more.ids \cup more.new : ~Held(linked.moves, p)
        <4>1. ASSUME NEW p \in more.ids \cup more.new PROVE ~Held(linked.moves, p)
          <5>1. CASE p \in {m, e} BY <3>11, <5>1
          <5>2. CASE p \notin {m, e}
            <6>1. p \in c.ids \cup c.new /\ p \in Move BY <1>1, <2>6, <3>16, <5>2
            <6> QED BY <1>4, <3>10, <5>2, <6>1 DEF Held
          <5> QED BY <5>1, <5>2
        <4> QED BY <4>1
      <3>18. Ready(b, linked.moves, more) BY <3>13, <3>16, <3>17 DEF Ready
      <3> QED BY <2>0, <2>11, <3>8, <3>15, <3>16, <3>18, PushReady
    <2> QED BY <2>9, <2>10, <2>11
  <1> QED BY <1>5, <1>6

LEMMA AssignReady ==
  ASSUME NEW u, NEW t, NEW F, NEW owed, NEW X, Sound(u, t, F, owed, X),
         NEW c \in AssignCalls, c.ids \subseteq Rows(u.moves), c.done \subseteq Rows(u.moves), NEW b \in Table,
         Belows(b, u.moves, u.todo), Ready(b, u.moves, c)
  PROVE  Reserving(b, Assign(u, c))
  <1> DEFINE m == Min(c.ids)
             row == u.moves[m]
             ids == c.ids \ {m}
             done == c.done \cup {m}
             rest == [do |-> "assign", ids |-> ids, done |-> c.done]
             more == [do |-> "assign", ids |-> ids, done |-> done]
             find == [do |-> "reserve", move |-> m, left |-> row.qty, from |-> u.order, got |-> << >>,
                      ids |-> ids, done |-> done]
             v == SetState(u, c.done, "assigned")
  <1>1. c.ids \in SUBSET Move /\ c.done \in SUBSET Move /\ c.do = "assign" /\ [c EXCEPT !.ids = ids] = rest
    BY DEF AssignCalls
  <1>2. Assign(u, c) = IF c.ids = {} THEN v
                       ELSE IF row.state \notin {"confirmed", "waiting"} THEN Call(u, rest)
                       ELSE IF row.src \in Unlimited THEN Call(u, more)
                       ELSE Call(u, find)
    BY <1>1 DEF Assign
  <1>3. u \in Requests /\ u.moves \in Table BY SoundIs
  <1>4. Fine(b, u.moves) /\ Settled(b, u.moves, c.done) BY <1>1 DEF Ready
  <1>5. CASE c.ids = {}
    <2>1. c.done \in SUBSET Rows(u.moves) /\ "assigned" \in Open \cup Ended BY DEF Open
    <2>2. SetTo(u, v, c.done, "assigned") BY <1>3, <2>1, SetStateIs
    <2>3. v.moves = [k \in Move |-> IF k \in c.done THEN [u.moves[k] EXCEPT !.state = "assigned"] ELSE u.moves[k]]
      BY <1>3 DEF SetState, Requests
    <2> HIDE DEF v
    <2>4. v \in Requests /\ v.todo = u.todo /\ v.moves \in Table BY <2>2, Fields DEF SetTo
    <2> DEFINE z == v.moves
    <2>5. z \in Table /\ (\A k \in c.done : z[k] = [u.moves[k] EXCEPT !.state = "assigned"])
          /\ \A k \in Move \ c.done : z[k] = u.moves[k]
      BY <1>1, <2>3, <2>4
    <2>6. \A k \in c.done : Pending(b, u.moves, k) BY <1>4 DEF Settled
    <2> HIDE DEF z
    <2>7. Fine(b, z) /\ Later(u.moves, z)
      <3> DEFINE S == c.done
                 y == u.moves
      <3>1. S \in SUBSET Move /\ y \in Table /\ z \in Table /\ Fine(b, y) BY <1>1, <1>3, <1>4, <2>5
      <3>2. \A k \in S : z[k] = [y[k] EXCEPT !.state = "assigned"] BY <2>5
      <3>3. \A k \in Move \ S : z[k] = y[k] BY <2>5
      <3>4. \A k \in S : Pending(b, y, k) BY <2>6
      <3> HIDE DEF S, y
      <3>5. Fine(b, z) /\ Later(y, z) BY <3>1, <3>2, <3>3, <3>4, FineAll
      <3> QED BY <3>5 DEF y
    <2>8. Belows(b, z, u.todo) BY <2>7, Carried
    <2>9. Reserving(b, v) BY <2>4, <2>7, <2>8, Settle DEF z
    <2> QED BY <1>2, <1>5, <2>9
  <1>6. CASE c.ids # {}
    <2>1. m \in c.ids /\ m \in Move /\ m \in Rows(u.moves) BY <1>1, <1>6, Least
    <2>2. row \in Row BY <2>1, SoundIs
    <2>3. ids \in SUBSET Move /\ done \in SUBSET Move /\ done \ {m} \subseteq c.done BY <1>1, <2>1
    <2> HIDE DEF ids, done, m
    <2>4. rest \in Calls /\ rest.do = "assign" /\ rest.done = c.done
          /\ more \in Calls /\ more.do = "assign" /\ more.done = done
      BY <1>1, <2>3 DEF Calls, AssignCalls
    <2> HIDE DEF rest, more
    <2>5. Reserving(b, Call(u, rest))
      <3>1. Ready(b, u.moves, rest) BY <1>4, <2>4 DEF Ready
      <3> QED BY <1>3, <2>4, <3>1, PushReady
    <2>6. ASSUME row.state \in {"confirmed", "waiting"}, row.src \in Unlimited PROVE Reserving(b, Call(u, more))
      <3>1. Pending(b, u.moves, m) BY <2>1, <2>6 DEF Pending
      <3>2. Settled(b, u.moves, done) BY <1>4, <3>1 DEF Settled, done
      <3>3. Ready(b, u.moves, more) BY <1>4, <2>4, <3>2 DEF Ready
      <3> QED BY <1>3, <2>4, <3>3, PushReady
    <2>7. ASSUME row.state \in {"confirmed", "waiting"} PROVE Reserving(b, Call(u, find))
      <3>1. row.qty \in Nat /\ u.order \in Seq(Location) BY <1>3, <2>2, Fields DEF Row
      <3>2. find \in ReserveCalls BY <2>1, <2>3, <3>1 DEF ReserveCalls
      <3>3. ~Held(u.moves, m) BY <2>7 DEF Held
      <3>4. find.do = "reserve" /\ find.move = m /\ find.got = << >> /\ find.done = done OBVIOUS
      <3> HIDE DEF find
      <3>5. Pieces(u.moves, << >>) BY DEF Pieces
      <3>6. Settled(b, u.moves, done \ {m}) BY <1>4, <2>3 DEF Settled
      <3>7. Ready(b, u.moves, find) BY <1>4, <3>3, <3>4, <3>5, <3>6 DEF Ready
      <3>8. find \in Calls BY <3>2 DEF Calls
      <3> QED BY <1>3, <3>7, <3>8, PushReady
    <2> QED BY <1>2, <1>6, <2>5, <2>6, <2>7
  <1> QED BY <1>5, <1>6

\* A location gives no more than it has.
LEMMA ReserveReady ==
  ASSUME NEW u, NEW t, NEW F, NEW owed, NEW X, Sound(u, t, F, owed, X),
         NEW c \in ReserveCalls, c.move \in Rows(u.moves), NEW b \in Table,
         Belows(b, u.moves, u.todo), Ready(b, u.moves, c), Reserve(u, c).ok
  PROVE  Reserving(b, Reserve(u, c))
  <1> DEFINE row == u.moves[c.move]
             l == Head(c.from)
             rest == [c EXCEPT !.from = Tail(@)]
             free == Available(u.moves, l)
             take == Take(free, c.left)
             lock == u.locked \cup MovesIn(u.moves, l) \cup MovesOut(u.moves, l)
             seen == [u EXCEPT !.locked = lock]
             more == [c EXCEPT !.from = Tail(@), !.left = @ - take, !.got = Append(@, [qty |-> take, src |-> l])]
             new == Given(row, Head(c.got))
             split == Put(u, c.move, new)
             copy == [do |-> "copies", move |-> c.move, got |-> c.got, k |-> 2, ids |-> c.ids, done |-> c.done]
  <1>1. c.move \in Move /\ c.left \in Nat /\ c.from \in Seq(Location) /\ c.got \in Seq(Part) /\ c.do = "reserve"
    BY DEF ReserveCalls
  <1>2. u \in Requests /\ u.moves \in Table /\ row \in Row /\ u.todo \in Seq(Calls) BY SoundIs, Fields
  <1>3. /\ Fine(b, u.moves) /\ ~Held(u.moves, c.move) /\ Pieces(u.moves, c.got)
        /\ Settled(b, u.moves, c.done \ {c.move})
    BY <1>1 DEF Ready
  <1>4. Reserve(u, c) =
          IF c.left = 0 /\ c.got # << >> THEN Call(split, copy)
          ELSE IF c.from = << >> THEN Raise(u)
          ELSE IF l \notin Within[row.src] \cup Everywhere THEN Call(u, rest)
          ELSE IF free <= 0 THEN Call(seen, rest)
          ELSE Call(seen, more)
    BY DEF Reserve
  <1> HIDE DEF row
  <1>5. CASE c.left = 0 /\ c.got # << >>
    <2> DEFINE g == c.got[1]
    <2>1. 1 \in 1 .. Len(c.got) /\ Head(c.got) = g /\ g \in Part BY <1>1, <1>5
    <2> HIDE DEF g
    <2>2. new \in Row /\ new.state = "assigned" /\ new.qty = g.qty /\ new.src = g.src
      BY <1>2, <2>1 DEF Given, Row, Open, Part
    <2> HIDE DEF new
    <2>3. split \in Requests /\ split.moves = [u.moves EXCEPT ![c.move] = new] /\ split.todo = u.todo
      BY <1>1, <1>2, <2>2, PutIs
    <2> HIDE DEF split
    <2>4. /\ split.moves \in Table /\ split.moves[c.move] = new
          /\ \A k \in Move \ {c.move} : split.moves[k] = u.moves[k]
      BY <1>1, <1>2, <2>3, Fields DEF Table
    <2>5. g.qty <= Available(u.moves, g.src) BY <1>3, <2>1 DEF Pieces, g
    <2>6. Fine(b, split.moves) BY <1>1, <1>2, <1>3, <2>2, <2>4, <2>5, FineMore
    <2>7. Later(u.moves, split.moves)
      <3> SUFFICES ASSUME NEW k \in Rows(u.moves)
                   PROVE  /\ k \in Rows(split.moves)
                          /\ u.moves[k].state # "done" => split.moves[k].state # "done"
                          /\ u.moves[k].state = "assigned" => split.moves[k].state = "assigned"
                          /\ \/ split.moves[k].state = "assigned"
                             \/ split.moves[k].src = u.moves[k].src /\ split.moves[k].qty = u.moves[k].qty
        BY DEF Later
      <3>1. k \in Move BY DEF Rows
      <3>2. CASE k = c.move BY <2>2, <2>4, <3>1, <3>2 DEF Rows
      <3>3. CASE k # c.move BY <2>4, <3>1, <3>3 DEF Rows
      <3> QED BY <3>2, <3>3
    <2>8. Belows(b, split.moves, split.todo) BY <2>3, <2>7, Carried
    <2>9. Pieces(b, c.got)
      <3> SUFFICES ASSUME NEW i \in DOMAIN c.got PROVE c.got[i].qty <= Available(b, c.got[i].src)
        BY DEF Pieces
      <3>1. c.got[i].qty \in Nat
        <4>1. c.got[i] \in Part BY <1>1
        <4> QED BY <4>1 DEF Part
      <3>2. c.got[i].qty <= Available(u.moves, c.got[i].src) BY <1>3 DEF Pieces
      <3>3. Available(u.moves, c.got[i].src) <= Available(b, c.got[i].src) BY <1>3 DEF Fine
      <3>4. Available(u.moves, c.got[i].src) \in Int /\ Available(b, c.got[i].src) \in Int BY <1>2, AvailableInt
      <3> QED BY <3>1, <3>2, <3>3, <3>4
    <2>10. copy \in Calls /\ copy.do = "copies" /\ copy.got = c.got /\ copy.done = c.done
      <3>1. copy \in CopiesCalls BY <1>1 DEF CopiesCalls, ReserveCalls
      <3> QED BY <3>1 DEF Calls
    <2> HIDE DEF copy
    <2>11. Settled(b, split.moves, c.done)
      <3> SUFFICES ASSUME NEW k \in c.done PROVE Pending(b, split.moves, k)
        BY DEF Settled
      <3>1. CASE k = c.move BY <1>1, <2>2, <2>4, <3>1 DEF Pending, Rows
      <3>2. CASE k # c.move
        <4>1. Pending(b, u.moves, k) BY <1>3, <3>2 DEF Settled
        <4> QED BY <2>7, <4>1, PendingLater
      <3> QED BY <3>1, <3>2
    <2>12. Ready(b, split.moves, copy) BY <2>6, <2>9, <2>10, <2>11 DEF Ready
    <2> QED BY <1>4, <1>5, <2>3, <2>8, <2>10, <2>12, PushReady
  <1>6. CASE ~(c.left = 0 /\ c.got # << >>) /\ c.from = << >> BY <1>2, <1>4, <1>6, RaiseIs
  <1>7. CASE ~(c.left = 0 /\ c.got # << >>) /\ c.from # << >>
    <2> DEFINE tail == Tail(c.from)
    <2>1. l \in Location /\ tail \in Seq(Location) BY <1>1, <1>7
    <2> HIDE DEF l, tail
    <2>2. rest \in ReserveCalls /\ rest.do = "reserve" /\ rest.move = c.move /\ rest.got = c.got /\ rest.done = c.done
      BY <2>1 DEF ReserveCalls, tail
    <2> HIDE DEF rest
    <2>3. Ready(b, u.moves, rest) BY <1>3, <2>2 DEF Ready
    <2>4. rest \in Calls BY <2>2 DEF Calls
    <2>5. seen \in Requests /\ seen.moves = u.moves /\ seen.todo = u.todo
      <3>1. lock \in SUBSET Move
        <4>1. u.locked \in SUBSET Move BY <1>2 DEF Requests
        <4> QED BY <4>1 DEF MovesIn, MovesOut, Rows
      <3> HIDE DEF lock
      <3> QED BY <1>2, <3>1 DEF Requests
    <2> HIDE DEF seen
    <2>6. Reserving(b, Call(u, rest)) /\ Reserving(b, Call(seen, rest))
      BY <1>2, <2>3, <2>4, <2>5, PushReady
    <2>7. ASSUME ~(free <= 0) PROVE Reserving(b, Call(seen, more))
      <3>1. free \in Int /\ free > 0
        <4>1. free \in Int BY <1>2, AvailableInt
        <4> QED BY <2>7, <4>1
      <3>2. take \in Nat /\ c.left - take \in Nat /\ take <= free
        <4> HIDE DEF free
        <4>1. take \in Nat /\ c.left - take \in Nat BY <1>1, <3>1, TakeIs
        <4>2. take <= free BY <1>1, <3>1 DEF Take
        <4> QED BY <4>1, <4>2
      <3> DEFINE p == [qty |-> take, src |-> l]
                 got == Append(c.got, p)
      <3>3. take <= Available(u.moves, l) BY <3>2
      <3> HIDE DEF take, free
      <3>4. p \in Part /\ p.qty = take /\ p.src = l BY <2>1, <3>2 DEF Part
      <3>5. more = [c EXCEPT !.from = tail, !.left = c.left - take, !.got = got]
        BY DEF tail
      <3> HIDE DEF p, more
      <3>6. /\ got \in Seq(Part)
            /\ \A i \in DOMAIN got : (i \in DOMAIN c.got /\ got[i] = c.got[i]) \/ got[i] = p
        BY <1>1, <3>4
      <3> HIDE DEF got
      <3>7. more \in ReserveCalls /\ more.do = "reserve" /\ more.move = c.move /\ more.got = got /\ more.done = c.done
        BY <1>1, <2>1, <3>2, <3>5, <3>6 DEF ReserveCalls
      <3>8. Pieces(u.moves, got) BY <1>3, <3>3, <3>4, <3>6 DEF Pieces
      <3>9. Ready(b, u.moves, more) BY <1>3, <3>7, <3>8 DEF Ready
      <3>10. more \in Calls BY <3>7 DEF Calls
      <3> QED BY <2>5, <3>9, <3>10, PushReady
    <2> HIDE DEF more, free
    <2> QED BY <1>4, <1>7, <2>6, <2>7
  <1> QED BY <1>5, <1>6, <1>7

\* A copy is a draft with a piece that was found; one of an incoming move is
\* confirmed, and looks again.
LEMMA CopiesReady ==
  ASSUME NEW b \in Table, NEW u, NEW F, NEW owed, NEW X, Sound(u, b, F, owed, X),
         NEW c \in CopiesCalls, c.move \in Rows(u.moves), c.k >= 1,
         Belows(b, u.moves, u.todo), Ready(b, u.moves, c), Copies(u, c).ok
  PROVE  Reserving(b, Copies(u, c))
  <1>1. c.move \in Move /\ c.got \in Seq(Part) /\ c.k \in Nat /\ c.do = "copies"
        /\ c.ids \in SUBSET Move /\ c.done \in SUBSET Move
    BY DEF CopiesCalls
  <1>2. u \in Requests /\ u.moves \in Table /\ u.todo \in Seq(Calls) /\ u.moves[c.move] \in Row BY SoundIs, Fields
  <1>3. Fine(b, u.moves) /\ Settled(b, u.moves, c.done) /\ Pieces(b, c.got) BY <1>1 DEF Ready
  <1>4. CASE c.k > Len(c.got)
    <2> DEFINE d == [do |-> "assign", ids |-> c.ids, done |-> c.done]
    <2>1. Copies(u, c) = Call(u, d) BY <1>4 DEF Copies
    <2>2. d \in Calls /\ d.do = "assign" /\ d.done = c.done BY <1>1 DEF Calls, AssignCalls
    <2> HIDE DEF d
    <2>3. Ready(b, u.moves, d) BY <1>3, <2>2 DEF Ready
    <2> QED BY <1>2, <2>1, <2>2, <2>3, PushReady
  <1>5. CASE ~(c.k > Len(c.got))
    <2> DEFINE g == c.got[c.k]
               row == Draft(Given(u.moves[c.move], g))
               e == NewId(u)
               d == [c EXCEPT !.k = @ + 1, !.done = @ \cup {e}]
               made == Insert(u, row)
               again == [do |-> "assign", ids |-> {e}, done |-> {}]
               sure == [do |-> "confirm", ids |-> {e}]
               v == Call(made, d)
               x == Call(v, again)
    <2>1. u.free # {} /\ Copies(u, c) = Create(Call(u, d), row)
      <3>1. Copies(u, c) = IF u.free = {} THEN Raise(u) ELSE Create(Call(u, d), row) BY <1>5 DEF Copies
      <3> HIDE DEF d, row
      <3> QED BY <1>2, <3>1, RaiseIs
    <2>2. c.k \in DOMAIN c.got BY <1>1, <1>5
    <2>3. g \in Part /\ g.qty <= Available(b, g.src)
      <3>1. g \in Part BY <1>1, <2>2
      <3> QED BY <1>3, <2>2, <3>1 DEF Pieces
    <2> HIDE DEF g
    <2>4. /\ row \in Row /\ row.state = "draft" /\ row.qty = g.qty /\ row.src = g.src /\ row.incoming \in BOOLEAN
      BY <1>2, <2>3 DEF Draft, Given, Row, Open, Part
    <2> HIDE DEF row
    <2>5. /\ e \in u.free /\ e \in Move /\ made \in Requests /\ made.moves = [u.moves EXCEPT ![e] = row]
          /\ made.todo = u.todo
      BY <1>2, <2>1, <2>4, InsertIs
    <2>6. d \in CopiesCalls /\ d.do = "copies" /\ d.got = c.got /\ d.done = c.done \cup {e}
      <3> HIDE DEF e
      <3>1. c.done \cup {e} \in SUBSET Move /\ c.k + 1 \in Nat BY <1>1, <2>5
      <3> QED BY <3>1 DEF CopiesCalls
    <2> HIDE DEF d
    <2>7. d \in Calls BY <2>6 DEF Calls
    <2>8. Copies(u, c) = IF ~row.incoming THEN v ELSE Call(x, sure)
      <3>1. Insert(Call(u, d), row) = v /\ NewId(Call(u, d)) = e /\ Call(u, d).free = u.free
        BY <1>2, <2>1, <2>4, <2>7, InsertCall
      <3> HIDE DEF v, e
      <3> QED BY <2>1, <3>1 DEF Create
    <2>9. e \notin Rows(u.moves) /\ e \notin Rows(b)
      <3>1. u.free \cap Rows(u.moves) = {} BY DEF Sound, Data
      <3>2. Rows(b) \subseteq Rows(u.moves) BY SoundIs
      <3> QED BY <2>5, <3>1, <3>2
    <2> HIDE DEF made, e
    <2>10. made.moves \in Table /\ made.moves[e] = row /\ \A p \in Move \ {e} : made.moves[p] = u.moves[p]
      <3>1. made.moves \in Table BY <2>5, Fields
      <3> QED BY <1>2, <2>5, <3>1 DEF Table
    <2>11. ~Held(u.moves, e) /\ ~Held(made.moves, e)
      <3>1. u.moves[e].state = "none" BY <2>5, <2>9 DEF Rows
      <3> QED BY <2>4, <2>10, <3>1 DEF Held
    <2>12. Fine(b, made.moves)
      <3>1. \A p \in Move : Held(u.moves, p) \/ Held(made.moves, p) => made.moves[p] = u.moves[p] BY <2>10, <2>11
      <3> QED BY <1>2, <1>3, <2>10, <3>1, HeldSame
    <2>13. Later(u.moves, made.moves)
      <3>1. \A p \in Rows(u.moves) : p \in Move /\ made.moves[p] = u.moves[p] BY <2>9, <2>10 DEF Rows
      <3> QED BY <3>1 DEF Later, Rows
    <2>14. Belows(b, made.moves, made.todo) BY <2>5, <2>13, Carried
    <2>15. Settled(b, made.moves, d.done) /\ Pieces(b, d.got)
      <3>1. \A p \in c.done : Pending(b, made.moves, p) BY <1>3, <2>13, PendingLater DEF Settled
      <3>2. Pending(b, made.moves, e) BY <2>3, <2>4, <2>5, <2>9, <2>10 DEF Pending, Rows
      <3> QED BY <1>3, <2>6, <3>1, <3>2 DEF Settled
    <2>16. ASSUME ~row.incoming PROVE Reserving(b, v)
      <3>1. Ready(b, made.moves, d) BY <2>6, <2>12, <2>15 DEF Ready
      <3> QED BY <2>5, <2>7, <2>14, <3>1, PushReady
    <2>17. ASSUME row.incoming PROVE Reserving(b, Call(x, sure))
      <3>1. Below(b, made.moves, d) BY <2>6, <2>15 DEF Below
      <3>2. v \in Requests /\ v.moves = made.moves /\ Belows(b, made.moves, v.todo)
        BY <2>5, <2>7, <2>14, <3>1, PushBelow
      <3> HIDE DEF v
      <3>3. again \in Calls /\ again.do = "assign" /\ again.done = {}
            /\ sure \in Calls /\ sure.do = "confirm" /\ sure.ids = {e}
        BY <2>5 DEF Calls, IdsCalls, AssignCalls
      <3> HIDE DEF again, sure
      <3>4. Below(b, v.moves, again) /\ Belows(b, v.moves, v.todo) BY <3>2, <3>3 DEF Below, Settled
      <3>5. x \in Requests /\ x.moves = v.moves /\ Belows(b, v.moves, x.todo) BY <3>2, <3>3, <3>4, PushBelow
      <3> HIDE DEF x
      <3>6. Ready(b, x.moves, sure) BY <2>11, <2>12, <3>2, <3>3, <3>5 DEF Ready
      <3> QED BY <3>2, <3>3, <3>5, <3>6, PushReady
    <2> QED BY <2>4, <2>8, <2>16, <2>17
  <1> QED BY <1>4, <1>5

LEMMA LinesReady ==
  ASSUME NEW u \in Requests, NEW b, NEW p, Belows(b, u.moves, u.todo), Fine(b, u.moves),
         LinesAssign(u, p).ok
  PROVE  Reserving(b, LinesAssign(u, p))
  <1> DEFINE ids == InState(u.moves, p, {"confirmed"})
             c == [do |-> "assign", ids |-> ids, done |-> {}]
  <1>1. LinesAssign(u, p) = Call(u, c) BY RaiseIs DEF LinesAssign
  <1>2. ids \in SUBSET Move BY DEF InState, LinesOf, Rows
  <1> HIDE DEF ids
  <1>3. c \in Calls BY <1>2 DEF Calls, AssignCalls
  <1>4. Ready(b, u.moves, c) BY DEF Ready, Settled
  <1> HIDE DEF c
  <1> QED BY <1>1, <1>3, <1>4, PushReady

LEMMA MakeReady ==
  ASSUME NEW b \in Table, NEW u, NEW F, NEW owed, NEW c \in Calls,
         Sound(u, b, F, owed, Target(c)), Fits(u, b, owed, c),
         Belows(b, u.moves, u.todo), Ready(b, u.moves, c), Make(u, c).ok
  PROVE  Reserving(b, Make(u, c))
  <1>1. u \in Requests BY SoundIs
  <1>2. Fine(b, u.moves) BY DEF Ready
  <1>3. Names(c) \subseteq Rows(u.moves) BY DEF Fits
  <1>4. CASE c.do = "confirm"
    <2>1. Make(u, c) = Confirm(u, c.ids) BY <1>4 DEF Make
    <2>2. c \in IdsCalls /\ c.ids \subseteq Rows(u.moves) BY <1>3, <1>4, Shapes DEF Names
    <2> QED BY <1>1, <1>4, <2>1, <2>2, ConfirmReady
  <1>5. CASE c.do = "chain"
    <2>1. Make(u, c) = Chained(u, c) /\ Target(c) = {} BY <1>5 DEF Make, Target
    <2>2. c \in ChainCalls BY <1>5, Shapes
    <2> QED BY <2>1, <2>2, ChainedReady
  <1>6. CASE c.do = "assign"
    <2>1. Make(u, c) = Assign(u, c) BY <1>6 DEF Make
    <2>2. c \in AssignCalls /\ c.ids \subseteq Rows(u.moves) /\ c.done \subseteq Rows(u.moves)
      BY <1>3, <1>6, Shapes DEF Names
    <2> QED BY <2>1, <2>2, AssignReady
  <1>7. CASE c.do = "reserve"
    <2>1. Make(u, c) = Reserve(u, c) BY <1>7 DEF Make
    <2>2. c \in ReserveCalls /\ c.move \in Rows(u.moves) BY <1>3, <1>7, Shapes DEF Names
    <2> QED BY <2>1, <2>2, ReserveReady
  <1>8. CASE c.do = "copies"
    <2>1. Make(u, c) = Copies(u, c) BY <1>8 DEF Make
    <2>2. c \in CopiesCalls /\ c.move \in Rows(u.moves) /\ c.k >= 1 BY <1>3, <1>8, Shapes DEF Names, Fits
    <2> QED BY <2>1, <2>2, CopiesReady
  <1>9. CASE c.do = "assign_lines"
    <2>1. Make(u, c) = LinesAssign(u, c.pick) BY <1>9 DEF Make
    <2> QED BY <1>1, <1>2, <1>9, <2>1, LinesReady
  <1> QED BY <1>4, <1>5, <1>6, <1>7, <1>8, <1>9 DEF Ready

\* Requests that reserve for a picking.
Careful(t, F) == {w \in Healthy(t, F) : w.ok => Reserving(t, w)}

LEMMA RunCareful ==
  ASSUME NEW t \in Table, NEW F, NEW w \in Careful(t, F)
  PROVE  Run(w) \in Careful(t, F)
  <1>1. ASSUME NEW v \in Careful(t, F) PROVE Step(v) \in Careful(t, F)
    <2>0. v \in Healthy(t, F) /\ (v.ok => Reserving(t, v)) BY DEF Careful
    <2>1. CASE v.todo = << >> \/ ~v.ok BY <1>1, <2>1 DEF Step
    <2>2. CASE ~(v.todo = << >> \/ ~v.ok)
      <3>1. PICK owed : Sound(v, t, F, owed, {}) BY <2>0, <2>2 DEF Healthy
      <3> DEFINE s == v.todo
                 u == [v EXCEPT !.todo = SubSeq(@, 1, Len(@) - 1)]
                 c == s[Len(s)]
      <3>2. c \in Calls /\ Sound(u, t, F, owed, Target(c)) /\ Fits(u, t, owed, c) BY <2>2, <3>1, Pop
      <3>3. Step(v) = Make(u, c) BY <2>2 DEF Step
      <3>4. v \in Requests /\ s \in Seq(Calls) /\ s # << >> BY <2>0, <2>2, Fields DEF Healthy
      <3>5. u.moves = v.moves /\ u.todo = SubSeq(s, 1, Len(s) - 1) BY <3>4 DEF Requests
      <3>6. Ready(t, v.moves, c) /\ \A i \in DOMAIN s \ {Len(s)} : Below(t, v.moves, s[i])
        BY <2>0, <2>2 DEF Reserving
      <3> HIDE DEF u, c, s
      <3>7. \A i \in DOMAIN u.todo : i \in DOMAIN s \ {Len(s)} /\ u.todo[i] = s[i] BY <3>4, <3>5, Ends
      <3>8. Belows(t, u.moves, u.todo) BY <3>5, <3>6, <3>7 DEF Belows
      <3>9. \E due : After(Make(u, c), t, F, due, {}) BY <3>2, MakeSound
      <3>10. Make(u, c) \in Healthy(t, F) BY <3>9, AfterHealthy
      <3>11. Make(u, c).ok => Reserving(t, Make(u, c)) BY <3>2, <3>5, <3>6, <3>8, MakeReady
      <3> QED BY <3>3, <3>10, <3>11 DEF Careful
    <2> QED BY <2>1, <2>2
  <1> DEFINE S == Careful(t, F)
  <1>2. w \in S /\ \A v \in S : Step(v) \in S BY <1>1
  <1> HIDE DEF S
  <1>3. Run(w) \in S BY <1>2, RunIn
  <1> QED BY <1>3 DEF S

\* The request of the button, on the snapshot t, before its first call.
LEMMA AssignCareful ==
  ASSUME NEW w, NEW t, NEW F, Fresh(w, t, F), NEW p \in Nat, \A i : i \notin DOMAIN w.todo
  PROVE  PickAssign(w, p) \in Careful(t, F)
  <1> DEFINE a == [do |-> "assign_lines", pick |-> p]
             v == Call(w, a)
             ids == InState(t, p, {"draft"})
             c == [do |-> "confirm", ids |-> ids]
  <1>1. PickAssign(w, p) \in Healthy(t, F) BY PickingRequests
  <1>2. w \in Requests /\ w.moves = t /\ t \in Table BY SoundIs DEF Fresh
  <1>3. a \in Calls /\ Below(t, t, a) BY DEF Calls, PickCalls, Below
  <1> HIDE DEF a
  <1>4. v \in Requests /\ v.moves = t /\ Belows(t, t, v.todo)
    <2>1. Belows(t, w.moves, w.todo) BY DEF Belows
    <2> QED BY <1>2, <1>3, <2>1, PushBelow
  <1>5. PickAssign(w, p) = Call(v, c) BY <1>4 DEF PickAssign, PickConfirm, a
  <1> HIDE DEF v
  <1>6. ids \in SUBSET Rows(t) /\ \A m \in ids : ~Held(t, m) BY DEF InState, LinesOf, Held
  <1> HIDE DEF ids
  <1>7. c \in Calls /\ c.do = "confirm" /\ c.ids = ids BY <1>6 DEF Calls, IdsCalls, Rows
  <1> HIDE DEF c
  <1>8. Fine(t, t)
    <2>1. \A l : Available(t, l) \in Int BY <1>2, AvailableInt
    <2>2. \A l : Available(t, l) <= Available(t, l) BY <2>1
    <2> QED BY <2>2 DEF Fine
  <1>9. Ready(t, v.moves, c) BY <1>4, <1>6, <1>7, <1>8 DEF Ready
  <1>10. Reserving(t, Call(v, c)) BY <1>4, <1>7, <1>9, PushReady
  <1> QED BY <1>1, <1>5, <1>10 DEF Careful

Spares == Overdraws => \A p \in Picks(Alone) : ~AssignPicking(Alone, p)

LEMMA StepSpares ==
  ASSUME IInv
  PROVE  Spares
  <1> SUFFICES ASSUME Overdraws, NEW p \in Picks(Alone), AssignPicking(Alone, p)
               PROVE  FALSE
    BY DEF Spares
  <1>1. Read(Alone).snap = db /\ Active(Alone) /\ db \in Table BY DEF Read, Active, IInv
  <1>2. p \in Nat
    <2>1. \A m \in Rows(db) : db[m].pick \in Nat BY <1>1, Rowed DEF Rows, Row
    <2> QED BY <1>1, <2>1 DEF Picks, PicksIn
  <1>3. PICK order \in Orders(db, p) : Commit(Alone, PickAssign(Start(Alone, order), p))
    BY <1>1 DEF AssignPicking
  <1> DEFINE w0 == Start(Alone, order)
             q == PickAssign(w0, p)
             w == Run(q)
  <1>4. order \in Seq(Location) BY <1>1, OrdersAre
  <1>5. Fresh(w0, db, Free) BY <1>1, <1>4, StartFresh
  <1>6. \A i : i \notin DOMAIN w0.todo BY DEF Start
  <1> HIDE DEF w0
  <1>7. q \in Careful(db, Free) BY <1>2, <1>5, <1>6, AssignCareful
  <1>8. Commit(Alone, q) BY <1>3 DEF w0
  <1> HIDE DEF q
  <1>9. w \in Careful(db, Free) BY <1>1, <1>7, RunCareful
  <1>10. w.ok /\ w.todo = << >> /\ db' = Published(w) BY <1>8 DEF Commit
  <1> HIDE DEF w
  <1>11. Fine(db, w.moves) BY <1>9, <1>10 DEF Careful, Reserving
  <1>12. PICK owed : Sound(w, db, Free, owed, {}) BY <1>9, <1>10 DEF Careful, Healthy
  <1>13. db' = w.moves
    <2>1. \A k \in Move \ w.wrote : w.moves[k] = db[k] BY <1>12 DEF Sound, Data
    <2>2. w.moves \in Table BY <1>12, SoundIs
    <2>3. w.moves = [k \in Move |-> w.moves[k]] BY <2>2 DEF Table
    <2> QED BY <1>10, <2>1, <2>3 DEF Published
  <1>14. Fine(db, db') BY <1>11, <1>13
  <1>15. w.moves \in Table BY <1>12, SoundIs
  <1>16. PICK m \in Rows(db') :
            /\ db'[m].state = "assigned" /\ db[m].state # "assigned" /\ db'[m].src \notin Unlimited
            /\ \/ db'[m].qty > Available(db, db'[m].src)
               \/ m \in Rows(db) /\ Left(db', db'[m].src, Rows(db)) < 0
    BY DEF Overdraws, Reserved
  <1>17. /\ db'[m].qty <= Available(db, db'[m].src)
         /\ m \in Rows(db) => Left(db', db'[m].src, Rows(db)) >= 0
    BY <1>14, <1>16 DEF Fine
  <1>18. db'[m].qty \in Int /\ Available(db, db'[m].src) \in Int /\ Left(db', db'[m].src, Rows(db)) \in Int
    <2>1. db' \in Table BY <1>13, <1>15
    <2>2. db'[m] \in Row BY <2>1, <1>16, Rowed DEF Rows
    <2>3. Available(db, db'[m].src) \in Int BY <1>1, AvailableInt
    <2>4. Left(db', db'[m].src, Rows(db)) \in Int BY <2>1, LeftMore
    <2> QED BY <2>2, <2>3, <2>4 DEF Row
  <1>19. \A i, j \in Int : ~(i > j /\ i <= j) /\ ~(i < 0 /\ i >= 0) OBVIOUS
  <1> QED BY <1>16, <1>17, <1>18, <1>19

-----------------------------------------------------------------------------
(* The theorems.                                                             *)

LEMMA InitInv == Init => IInv
  <1> SUFFICES ASSUME Init PROVE IInv
    OBVIOUS
  <1>1. PICK first \in Initial : db = [m \in Move |-> IF m \in DOMAIN first THEN first[m] ELSE NoRow]
    BY DEF Init
  <1>2. /\ DOMAIN first \subseteq Move
        /\ \A m \in DOMAIN first :
             first[m] \in Row /\ first[m].next \in DOMAIN first \cup {0} /\ first[m].leg \in DOMAIN first
    BY StockAssumption
  <1>3. db \in Table BY <1>1, <1>2 DEF Table
  <1>4. Rows(db) = DOMAIN first
    <2>1. \A m \in Move : m \in DOMAIN first => db[m] \in Row BY <1>1, <1>2
    <2>2. \A m \in Move : m \notin DOMAIN first => db[m] = NoRow BY <1>1
    <2>3. \A m \in Move \ DOMAIN first : m \notin Rows(db) BY <2>2 DEF Rows, NoRow
    <2>4. \A m \in DOMAIN first : m \in Rows(db) BY <1>2, <1>3, <2>1, Rowed
    <2> QED BY <1>2, <2>3, <2>4 DEF Rows
  <1>5. \A m \in Rows(db) : db[m] = first[m] BY <1>1, <1>2, <1>4
  <1>6. Linked(db) BY <1>2, <1>4, <1>5 DEF Linked
  <1>7. sess = [r \in Request |-> Closed] BY DEF Init
  <1>8. Closed \in Session /\ Closed.open = FALSE /\ Closed.missed = {} BY DEF Closed, Session
  <1> QED BY <1>3, <1>6, <1>7, <1>8 DEF IInv

LEMMA NextCases ==
  ASSUME IInv, Next
  PROVE  Committed \/ \E r \in Request : Begin(r) \/ Abort(r)
  <1>1. CASE \E r \in Request : Begin(r) \/ Abort(r) BY <1>1
  <1>2. CASE \E r \in {q \in Request : sess[q].open} \cup {Alone} : OnMove(r) \/ OnPicking(r)
    <2>1. PICK r \in {q \in Request : sess[q].open} \cup {Alone} : OnMove(r) \/ OnPicking(r) BY <1>2
    <2>2. Active(r)
      <3>1. CASE r = Alone BY <3>1 DEF Active
      <3>2. CASE r \in {q \in Request : sess[q].open} BY <3>2 DEF Active
      <3> QED BY <2>1, <3>1, <3>2
    <2> QED BY <2>1, <2>2, MoveSteps, PickingSteps
  <1> QED BY <1>1, <1>2 DEF Next

LEMMA StepInv ==
  ASSUME IInv, [Next]_vars
  PROVE  IInv' /\ Conserves /\ Freezes
  <1>1. CASE UNCHANGED vars
    <2>1. db' = db /\ sess' = sess BY <1>1 DEF vars
    <2>2. IInv' BY <2>1 DEF IInv, Saw
    <2> QED BY <2>1, <2>2, Quiet
  <1>2. CASE Committed
    <2>1. PICK r, request : Active(r) /\ request \in Healthy(Read(r).snap, Free) /\ Commit(r, request)
      BY <1>2 DEF Committed
    <2>2. PICK w, owed : Outcome(w, r, owed) BY <2>1, CommitOutcome
    <2> QED BY <2>1, <2>2, CommitInv, CommitConserves, CommitFreezes
  <1>3. ASSUME NEW r \in Request, Begin(r) PROVE IInv' /\ Conserves /\ Freezes
    <2> DEFINE new == [open |-> TRUE, snap |-> db, missed |-> {}, age |-> 0]
    <2>1. db' = db /\ sess' = [sess EXCEPT ![r] = new] BY <1>3 DEF Begin
    <2>2. new \in Session BY DEF IInv, Session
    <2>3. new.open /\ new.snap = db /\ new.missed = {} OBVIOUS
    <2> HIDE DEF new
    <2>4. sess' \in [Request -> Session] BY <2>1, <2>2 DEF IInv
    <2>5. \A q \in Request : sess'[q] = IF q = r THEN new ELSE sess[q] BY <2>1 DEF IInv
    <2>6. Saw(db, {}) BY DEF IInv, Saw
    <2>7. ASSUME NEW q \in Request
          PROVE  /\ sess'[q].missed \subseteq Rows(db)
                 /\ sess'[q].open => Saw(sess'[q].snap, sess'[q].missed)
      BY <2>3, <2>5, <2>6 DEF IInv
    <2>8. IInv'
      <3>1. ASSUME NEW q \in Request, sess'[q].open PROVE Saw(sess[q].snap, sess[q].missed)'
        BY <2>1, <2>7, <3>1 DEF Saw
      <3>2. db' \in Table /\ Linked(db') /\ \A q \in Request : sess'[q].missed \subseteq Rows(db')
        BY <2>1, <2>7 DEF IInv
      <3> QED BY <2>4, <3>1, <3>2 DEF IInv
    <2> QED BY <2>1, <2>8, Quiet
  <1>4. ASSUME NEW r \in Request, Abort(r) PROVE IInv' /\ Conserves /\ Freezes
    <2>1. db' = db /\ sess' = [sess EXCEPT ![r] = Closed] BY <1>4 DEF Abort
    <2>2. Closed \in Session /\ Closed.open = FALSE /\ Closed.missed = {} BY DEF Closed, Session
    <2>3. sess' \in [Request -> Session] BY <2>1, <2>2 DEF IInv
    <2>4. \A q \in Request : sess'[q] = IF q = r THEN Closed ELSE sess[q] BY <2>1 DEF IInv
    <2>5. ASSUME NEW q \in Request
          PROVE  /\ sess'[q].missed \subseteq Rows(db)
                 /\ sess'[q].open => Saw(sess'[q].snap, sess'[q].missed)
      BY <2>2, <2>4 DEF IInv
    <2>6. IInv'
      <3>1. ASSUME NEW q \in Request, sess'[q].open PROVE Saw(sess[q].snap, sess[q].missed)'
        BY <2>1, <2>5, <3>1 DEF Saw
      <3>2. db' \in Table /\ Linked(db') /\ \A q \in Request : sess'[q].missed \subseteq Rows(db')
        BY <2>1, <2>5 DEF IInv
      <3> QED BY <2>3, <3>1, <3>2 DEF IInv
    <2> QED BY <2>1, <2>6, Quiet
  <1> QED BY <1>1, <1>2, <1>3, <1>4, NextCases

LEMMA InvTypes == IInv => TypeOK
  <1> SUFFICES ASSUME IInv PROVE TypeOK
    OBVIOUS
  <1>1. \A m \in Move : (m \in Rows(db) => db[m] \in Row) /\ (m \notin Rows(db) => db[m] = NoRow)
    BY Rowed DEF IInv
  <1>2. Rows(db) \subseteq Move BY DEF Rows
  <1> QED BY <1>1, <1>2 DEF IInv, Linked, TypeOK

\* Whatever requests run side by side, every snapshot differs from the committed
\* moves only in rows that its request is known to have missed.
THEOREM Invariance == Spec => []IInv
  <1>1. Init => IInv BY InitInv
  <1>2. IInv /\ [Next]_vars => IInv' BY StepInv
  <1> QED BY <1>1, <1>2, PTL DEF Spec

\* Moves are well typed and refer to moves that exist, whatever requests run
\* side by side and however they split and chain moves.
THEOREM TypeCorrect == Spec => []TypeOK
  <1>1. Init => IInv BY InitInv
  <1>2. IInv /\ [Next]_vars => IInv' BY StepInv
  <1>3. IInv => TypeOK BY InvTypes
  <1> QED BY <1>1, <1>2, <1>3, PTL DEF Spec

\* No commit changes quantity or locations of a processed move, also not that
\* of a request that had read the move before it was processed.
THEOREM ProcessedStays == Spec => ProcessedIsFrozen
  <1>1. Init => IInv BY InitInv
  <1>2. IInv /\ [Next]_vars => IInv' BY StepInv
  <1>3. IInv /\ [Next]_vars => [Freezes]_vars BY StepInv
  <1>4. [][Freezes]_vars <=> ProcessedIsFrozen BY DEF Freezes, ProcessedIsFrozen
  <1> QED BY <1>1, <1>2, <1>3, <1>4, PTL DEF Spec

\* Reservations and deliveries split a demand and keep its quantity, up to what
\* users enter in excess of it, whatever requests run side by side.
THEOREM DemandConserved == Spec => DemandKept
  <1>1. Init => IInv BY InitInv
  <1>2. IInv /\ [Next]_vars => IInv' BY StepInv
  <1>3. IInv /\ [Next]_vars => [Conserves]_vars BY StepInv
  <1>4. [][Conserves]_vars <=> DemandKept BY DEF Conserves, More, DemandKept
  <1> QED BY <1>1, <1>2, <1>3, <1>4, PTL DEF Spec

\* Whoever processes the last open move before a waiting one leaves it waiting
\* no more, whatever was confirmed, chained and processed along the way.
THEOREM LastReleases == Spec => LastUpstreamReleases
  <1>1. Init => IInv BY InitInv
  <1>2. IInv /\ [Next]_vars => IInv' BY StepInv
  <1>3. IInv /\ [Next]_vars => [Releases]_vars BY StepReleases
  <1>4. [][Releases]_vars <=> LastUpstreamReleases BY DEF Releases, LastUpstreamReleases
  <1> QED BY <1>1, <1>2, <1>3, <1>4, PTL DEF Spec

\* A button that reserves a picking, in a request that nobody overtakes, takes
\* from a limited location no more than is there, in one piece or for the moves
\* that were there before, taken together, however many it confirms and chains
\* for the purpose.  The copies that it makes of split moves are not part of that
\* sum, for the code does not count them either (SameProductTwice).
THEOREM ReservesWithin == Spec => ReserveWithinFree
  <1>1. Init => IInv BY InitInv
  <1>2. IInv /\ [Next]_vars => IInv' BY StepInv
  <1>3. IInv /\ [Next]_vars => [Spares]_vars BY StepSpares
  <1>4. [][Spares]_vars <=> ReserveWithinFree BY DEF Spares, ReserveWithinFree
  <1> QED BY <1>1, <1>2, <1>3, <1>4, PTL DEF Spec
=============================================================================
