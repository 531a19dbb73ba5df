------------------------- MODULE PartTimelineProofs -------------------------
(***************************************************************************)
(* Theorems about PartTimeline, for every timeline, every trouble and every *)
(* number of bodies and operands.                                          *)
(*                                                                         *)
(* Order: a finite set in a strict order is a sequence with every member    *)
(* once.  Geometry: bodies are intervals, pieces are intervals, Before is a *)
(* strict order on bodies.  Results: what a body operation accounts for     *)
(* (Accounts) and what committing it leaves (Commits).  Features: what each *)
(* one hands back is Right and Good.  Invariants: IInv (statuses, seeds)    *)
(* and TInv (types), their steps, and five theorems.  Operands: what is put *)
(* in order depends only on how often each body is there (SameOrder), so    *)
(* reordered operands give the same result.                                *)
(***************************************************************************)
EXTENDS PartTimeline, TLAPS, WellFoundedInduction, FiniteSetTheorems, SequenceTheorems


(***************************************************************************)
(* Finite sets, their strict orders, and induction on a number: were n not *)
(* in S, moving each member below it up by one would be one-to-one into a  *)
(* smaller set.                                                            *)
(***************************************************************************)
LEMMA Induction ==
  ASSUME NEW n \in Nat, NEW S, 0 \in S, \A i \in 0 .. n - 1 : i \in S => i + 1 \in S
  PROVE  n \in S
<1> SUFFICES ASSUME n \notin S PROVE FALSE
  OBVIOUS
<1> DEFINE T == S \cap 0 .. n
           up == [i \in T |-> i + 1]
<1>1. IsFiniteSet(T) /\ 0 \in T
  <2>1. IsFiniteSet(0 .. n)
    BY FS_Interval
  <2> QED BY <2>1, FS_Subset
<1>2. /\ IsFiniteSet(T \ {0}) /\ Cardinality(T \ {0}) = Cardinality(T) - 1
      /\ Cardinality(T) \in Nat
  BY <1>1, FS_RemoveElement, FS_CardinalityType
<1>3. up \in Injection(T, T \ {0})
  <2>1. \A i \in T : i + 1 \in T \ {0}
    OBVIOUS
  <2>2. \A i, k \in T : up[i] = up[k] => i = k
    OBVIOUS
  <2> QED BY <2>1, <2>2 DEF Injection, IsInjective
<1>4. Cardinality(T) <= Cardinality(T \ {0})
  BY <1>2, <1>3, FS_Injection
<1> QED BY <1>2, <1>4

\* A function on 1 .. n is a sequence.
LEMMA FunctionIsSeq ==
  ASSUME NEW S, NEW n \in Nat, NEW s \in [1 .. n -> S]
  PROVE  s \in Seq(S) /\ Len(s) = n /\ DOMAIN s = 1 .. n
OBVIOUS

\* A function takes a finite set to a finite one.
LEMMA ImageIsFinite ==
  ASSUME NEW f, IsFiniteSet(DOMAIN f)
  PROVE  IsFiniteSet({f[x] : x \in DOMAIN f})
<1> DEFINE T == {f[x] : x \in DOMAIN f}
           g == [x \in DOMAIN f |-> f[x]]
<1>1. g \in Surjection(DOMAIN f, T)
  BY DEF Surjection
<1> QED BY <1>1, FS_Surjection

\* R orders S strictly and totally.
Orders(R, S) ==
  /\ \A x \in S : <<x, x>> \notin R
  /\ \A x, y, z \in S : <<x, y>> \in R /\ <<y, z>> \in R => <<x, z>> \in R
  /\ \A x, y \in S : x # y => <<x, y>> \in R \/ <<y, x>> \in R
Under(R, S, x) == {y \in S : <<y, x>> \in R}
Rank(R, S, x) == Cardinality(Under(R, S, x))

\* What is below x is below what x is below, and x with it.
LEMMA RankGrows ==
  ASSUME NEW S, IsFiniteSet(S), NEW R, Orders(R, S), NEW x \in S, NEW y \in S, <<x, y>> \in R
  PROVE  Rank(R, S, x) < Rank(R, S, y)
<1>1. Under(R, S, x) \cup {x} \in SUBSET Under(R, S, y) /\ x \notin Under(R, S, x)
  BY DEF Orders, Under
<1>2. IsFiniteSet(Under(R, S, x)) /\ IsFiniteSet(Under(R, S, y))
  BY FS_Subset DEF Under
<1>3. Cardinality(Under(R, S, x) \cup {x}) = Cardinality(Under(R, S, x)) + 1
  BY <1>1, <1>2, FS_AddElement
<1>4. Cardinality(Under(R, S, x) \cup {x}) <= Cardinality(Under(R, S, y))
  BY <1>1, <1>2, FS_Subset
<1>5. Cardinality(Under(R, S, x)) \in Nat /\ Cardinality(Under(R, S, y)) \in Nat
  BY <1>2, FS_CardinalityType
<1> QED BY <1>3, <1>4, <1>5 DEF Rank

\* The ranks of the members of S are the numbers below its size, each once.
LEMMA Ranks ==
  ASSUME NEW S, IsFiniteSet(S), NEW R, Orders(R, S)
  PROVE  /\ Cardinality(S) \in Nat
         /\ \A x \in S : Rank(R, S, x) \in 0 .. Cardinality(S) - 1
         /\ \A x, y \in S : Rank(R, S, x) = Rank(R, S, y) => x = y
         /\ \A k \in 1 .. Cardinality(S) : \E x \in S : Rank(R, S, x) = k - 1
<1> DEFINE n == Cardinality(S)
           rank == [x \in S |-> Rank(R, S, x)]
<1>1. n \in Nat
  BY FS_CardinalityType
<1>2. ASSUME NEW x \in S PROVE Rank(R, S, x) \in 0 .. n - 1
  <2>1. Under(R, S, x) \in SUBSET S /\ Under(R, S, x) \in SUBSET (S \ {x})
    BY DEF Orders, Under
  <2>2. IsFiniteSet(S \ {x}) /\ Cardinality(S \ {x}) = n - 1
    BY FS_RemoveElement
  <2>3. Cardinality(Under(R, S, x)) <= n - 1 /\ IsFiniteSet(Under(R, S, x))
    BY <2>1, <2>2, FS_Subset
  <2>4. Cardinality(Under(R, S, x)) \in Nat
    BY <2>3, FS_CardinalityType
  <2> QED BY <1>1, <2>3, <2>4 DEF Rank
<1>3. ASSUME NEW x \in S, NEW y \in S, Rank(R, S, x) = Rank(R, S, y) PROVE x = y
  <2>1. <<x, y>> \notin R /\ <<y, x>> \notin R
    BY <1>1, <1>2, <1>3, RankGrows
  <2> QED BY <2>1 DEF Orders
<1>4. rank \in Injection(S, 0 .. n - 1)
  BY <1>2, <1>3 DEF Injection, IsInjective
<1>5. IsFiniteSet(0 .. n - 1) /\ Cardinality(0 .. n - 1) = n
  BY <1>1, FS_Interval
<1>6. rank \in Surjection(S, 0 .. n - 1)
  BY <1>4, <1>5, FS_Injection
<1>7. ASSUME NEW k \in 1 .. n PROVE \E x \in S : Rank(R, S, x) = k - 1
  <2>1. k - 1 \in 0 .. n - 1
    BY <1>1
  <2> QED BY <1>6, <2>1 DEF Surjection
<1> QED BY <1>1, <1>2, <1>3, <1>7

\* A sorted set: every member once, in the order.
Ranked(s, R, S) == \A k \in 1 .. Cardinality(S) : Rank(R, S, s[k]) = k - 1
Onto(s, S) == \A x \in S : \E k \in 1 .. Cardinality(S) : s[k] = x
Once(s, n) == \A j, k \in 1 .. n : s[j] = s[k] => j = k

\* A sequence that has the member of rank k - 1 at place k lists each member once, in order.
LEMMA SortedIs ==
  ASSUME NEW S, IsFiniteSet(S), NEW R, Orders(R, S), NEW s \in [1 .. Cardinality(S) -> S],
         Ranked(s, R, S)
  PROVE  /\ Cardinality(S) \in Nat /\ DOMAIN s = 1 .. Cardinality(S) /\ Len(s) = Cardinality(S)
         /\ s \in Seq(S) /\ Onto(s, S) /\ Once(s, Cardinality(S))
         /\ \A j, k \in 1 .. Cardinality(S) : j < k => <<s[j], s[k]>> \in R
<1> DEFINE n == Cardinality(S)
<1>1. n \in Nat
  BY Ranks
<1>2. \A k \in 1 .. n : s[k] \in S /\ Rank(R, S, s[k]) = k - 1
  BY DEF Ranked
<1>3. s \in [1 .. n -> S] /\ DOMAIN s = 1 .. n
  BY <1>2
<1>4. s \in Seq(S) /\ Len(s) = n
  BY <1>1, <1>3, FunctionIsSeq
<1>5. ASSUME NEW x \in S PROVE \E k \in 1 .. n : s[k] = x
  <2>1. Rank(R, S, x) \in 0 .. n - 1
    BY Ranks
  <2> DEFINE k == Rank(R, S, x) + 1
  <2>2. k \in 1 .. n /\ k - 1 = Rank(R, S, x)
    BY <1>1, <2>1
  <2>3. Rank(R, S, s[k]) = Rank(R, S, x) /\ s[k] \in S
    BY <1>2, <2>2
  <2>4. s[k] = x
    BY <2>3, Ranks
  <2> QED BY <1>3, <2>2, <2>4
<1>6. ASSUME NEW j \in 1 .. n, NEW k \in 1 .. n, s[j] = s[k] PROVE j = k
  BY <1>1, <1>2, <1>6
<1>7. ASSUME NEW j \in 1 .. n, NEW k \in 1 .. n, j < k PROVE <<s[j], s[k]>> \in R
  <2>1. s[j] # s[k]
    BY <1>1, <1>6, <1>7
  <2>2. ~ (<<s[k], s[j]>> \in R)
    <3>1. SUFFICES ASSUME <<s[k], s[j]>> \in R PROVE FALSE
      OBVIOUS
    <3>2. Rank(R, S, s[k]) < Rank(R, S, s[j])
      BY <1>2, <3>1, RankGrows
    <3> QED BY <1>1, <1>2, <1>7, <3>2
  <2> QED BY <1>2, <2>1, <2>2 DEF Orders
<1> QED BY <1>1, <1>3, <1>4, <1>5, <1>6, <1>7 DEF Onto, Once

\* The least and the greatest member.
LEMMA Ends ==
  ASSUME NEW S, IsFiniteSet(S), S \subseteq Int, S # {}
  PROVE  /\ Low(S) \in S /\ \A x \in S : Low(S) <= x
         /\ High(S) \in S /\ \A x \in S : x <= High(S)
<1> DEFINE R == {p \in Int \X Int : p[1] < p[2]}
           n == Cardinality(S)
<1>0. \A x, y \in Int : <<x, y>> \in R <=> x < y
  OBVIOUS
<1> HIDE DEF R
<1>1. Orders(R, S)
  BY <1>0 DEF Orders
<1>2. n \in Nat /\ n # 0
  BY FS_CardinalityType, FS_EmptySet
<1>3. \A k \in 1 .. n : \E x \in S : Rank(R, S, x) = k - 1
  <2>1. IsFiniteSet(S) /\ Orders(R, S)
    BY <1>1
  <2> QED BY ONLY <2>1, Ranks
<1>4. PICK x \in S : Rank(R, S, x) = 0
  <2>1. 1 \in 1 .. n /\ 1 - 1 = 0
    BY <1>2
  <2> HIDE DEF n
  <2> QED BY <1>3, <2>1
<1>5. PICK y \in S : Rank(R, S, y) = n - 1
  <2>1. n \in 1 .. n
    BY <1>2
  <2> HIDE DEF n
  <2> QED BY <1>3, <2>1
<1>6. ASSUME NEW z \in S PROVE x <= z
  <2>1. Rank(R, S, z) \in 0 .. n - 1
    BY <1>1, Ranks
  <2>2. ~ (<<z, x>> \in R)
    BY <1>1, <1>4, <2>1, RankGrows
  <2> QED BY <1>0, <2>2
<1>7. ASSUME NEW z \in S PROVE z <= y
  <2>1. Rank(R, S, z) \in 0 .. n - 1
    BY <1>1, Ranks
  <2>2. ~ (<<y, z>> \in R)
    BY <1>1, <1>2, <1>5, <2>1, RankGrows
  <2> QED BY <1>0, <2>2
<1>8. Low(S) \in S /\ \A z \in S : Low(S) <= z
  BY <1>6 DEF Low
<1>9. High(S) \in S /\ \A z \in S : z <= High(S)
  BY <1>7 DEF High
<1> QED BY <1>8, <1>9

\* The ends of a .. b.
LEMMA EndsOfInterval ==
  ASSUME NEW a \in Int, NEW b \in Int, a <= b
  PROVE  Low(a .. b) = a /\ High(a .. b) = b
BY DEF Low, High

(***************************************************************************)
(* Intervals, bodies, and the pieces of a set of cells.                    *)
(***************************************************************************)
Interval == {I \in SUBSET Int : IsInterval(I)}
Body == [origin : [feature : Int, member : Int, instance : Int], cells : Interval]

\* An interval is what lies between its ends.
LEMMA IntervalIs ==
  ASSUME NEW I \in Interval
  PROVE  /\ Low(I) \in Int /\ High(I) \in Int /\ Low(I) <= High(I) /\ I = Low(I) .. High(I)
         /\ Low(I) \in I /\ High(I) \in I /\ IsFiniteSet(I)
<1>1. PICK a \in I, b \in I : I = a .. b
  BY DEF Interval, IsInterval
<1>2. a \in Int /\ b \in Int /\ a <= b
  BY <1>1 DEF Interval
<1>3. Low(I) = a /\ High(I) = b
  BY <1>1, <1>2, EndsOfInterval
<1>4. IsFiniteSet(a .. b)
  BY <1>2, FS_Interval
<1> QED BY <1>1, <1>2, <1>3, <1>4

LEMMA IntervalMade ==
  ASSUME NEW a \in Int, NEW b \in Int, a <= b
  PROVE  a .. b \in Interval
BY DEF Interval, IsInterval

\* A copy's cells: an interval moved is an interval.
LEMMA Shifted ==
  ASSUME NEW I \in Interval, NEW n \in Int
  PROVE  {c + n : c \in I} \in Interval
<1> DEFINE a == Low(I)
           b == High(I)
<1>1. a \in Int /\ b \in Int /\ a <= b /\ I = a .. b
  BY IntervalIs
<1> HIDE DEF a, b
<1>2. {c + n : c \in I} = a + n .. b + n
  <2>1. ASSUME NEW d \in a + n .. b + n PROVE \E c \in I : d = c + n
    <3>1. d - n \in a .. b /\ d = (d - n) + n
      BY <1>1
    <3> QED BY <1>1, <3>1
  <2>2. ASSUME NEW c \in I PROVE c + n \in a + n .. b + n
    BY <1>1
  <2> QED BY <2>1, <2>2
<1>3. a + n \in Int /\ b + n \in Int /\ a + n <= b + n
  BY <1>1
<1>4. a + n .. b + n \in Interval
  BY <1>3, IntervalMade
<1> QED BY <1>2, <1>4

\* A blend: an interval without its last cell is one too, unless nothing is left.
LEMMA Shortened ==
  ASSUME NEW I \in Interval, I \ {High(I)} # {}
  PROVE  I \ {High(I)} \in Interval
<1> DEFINE a == Low(I)
           b == High(I)
<1>1. a \in Int /\ b \in Int /\ a <= b /\ I = a .. b
  BY IntervalIs
<1>2. I \ {b} = a .. b - 1
  BY <1>1
<1>3. a <= b - 1 /\ b - 1 \in Int
  BY <1>1, <1>2
<1>4. a .. b - 1 \in Interval
  BY <1>1, <1>3, IntervalMade
<1> QED BY <1>2, <1>4

\* The pieces of a set of cells are intervals, and each cell is in one.
LEMMA PiecesAre ==
  ASSUME NEW S, S \subseteq Int, IsFiniteSet(S)
  PROVE  /\ IsFiniteSet(Pieces(S))
         /\ \A I \in Pieces(S) : I \in Interval /\ I \subseteq S
         /\ \A x \in S : \E I \in Pieces(S) : x \in I
<1>1. IsFiniteSet(Pieces(S))
  <2> DEFINE f == [p \in S \X S |-> p[1] .. p[2]]
             T == {f[p] : p \in DOMAIN f}
  <2>1. IsFiniteSet(S \X S)
    BY FS_Product
  <2>2. IsFiniteSet(T)
    BY <2>1, ImageIsFinite
  <2>3. ASSUME NEW a \in S, NEW b \in S PROVE a .. b \in T
    <3>1. <<a, b>> \in DOMAIN f /\ f[<<a, b>>] = a .. b
      OBVIOUS
    <3> QED BY <3>1
  <2> HIDE DEF T, f
  <2>4. Pieces(S) \in SUBSET T
    BY <2>3 DEF Pieces
  <2> QED BY <2>2, <2>4, FS_Subset
<1>2. ASSUME NEW I \in Pieces(S) PROVE I \in Interval /\ I \subseteq S
  <2>1. I \in {x .. y : x, y \in S} /\ I # {} /\ I \subseteq S
    BY DEF Pieces
  <2>2. PICK a \in S, b \in S : I = a .. b
    BY ONLY <2>1
  <2>3. a \in Int /\ b \in Int /\ a <= b
    BY <2>1, <2>2
  <2> QED BY <2>1, <2>2, <2>3, IntervalMade
<1>3. ASSUME NEW x \in S PROVE \E I \in Pieces(S) : x \in I
  <2> DEFINE A == {a \in S : a .. x \subseteq S /\ a <= x}
             B == {b \in S : x .. b \subseteq S /\ x <= b}
             a == Low(A)
             b == High(B)
  <2>1. x \in Int /\ x .. x = {x}
    OBVIOUS
  <2>2. x \in A /\ x \in B
    BY <2>1
  <2>3. A \in SUBSET S /\ B \in SUBSET S
    OBVIOUS
  <2>4. IsFiniteSet(A) /\ A \subseteq Int /\ IsFiniteSet(B) /\ B \subseteq Int
    BY <2>3, FS_Subset
  <2>5. a \in A /\ \A y \in A : a <= y
    BY <2>2, <2>4, Ends
  <2>6. b \in B /\ \A y \in B : y <= b
    BY <2>2, <2>4, Ends
  <2> HIDE DEF a, b
  <2>7. /\ a \in S /\ a \in Int /\ a <= x /\ a .. x \subseteq S
        /\ b \in S /\ b \in Int /\ x <= b /\ x .. b \subseteq S
    BY <2>5, <2>6
  <2>8. x \in a .. b /\ a .. b \subseteq S
    <3>1. \A y \in a .. b : y \in a .. x \/ y \in x .. b
      BY <2>1, <2>7
    <3> QED BY <2>1, <2>7, <3>1
  <2>9. ASSUME NEW c \in S \ (a .. b), Near({c}, a .. b) PROVE FALSE
    <3>1. PICK y \in a .. b : c - y \in -1 .. 1
      BY <2>9 DEF Near
    <3>2. c = b + 1 \/ c = a - 1
      BY <2>7, <3>1
    <3>3. CASE c = b + 1
      <4>1. \A z \in x .. c : z \in x .. b \/ z = c
        BY <2>1, <2>7, <3>3
      <4>2. x .. c \subseteq S /\ x <= c
        BY <2>1, <2>7, <3>3, <4>1
      <4>3. c \in B
        BY <4>2
      <4> QED BY <2>6, <2>7, <3>3, <4>3
    <3>4. CASE c = a - 1
      <4>1. \A z \in c .. x : z \in a .. x \/ z = c
        BY <2>1, <2>7, <3>4
      <4>2. c .. x \subseteq S /\ c <= x
        BY <2>1, <2>7, <3>4, <4>1
      <4>3. c \in A
        BY <4>2
      <4> QED BY <2>5, <2>7, <3>4, <4>3
    <3> QED BY <3>2, <3>3, <3>4
  <2> DEFINE Spans == {y .. z : y, z \in S}
             Whole(I) == I # {} /\ I \subseteq S /\ \A c \in S \ I : ~ Near({c}, I)
  <2>10. Pieces(S) = {I \in Spans : Whole(I)}
    BY DEF Pieces
  <2>11. a .. b \in Spans
    BY <2>7
  <2>12. Whole(a .. b)
    BY <2>8, <2>9
  <2> HIDE DEF Spans, Whole
  <2>13. a .. b \in Pieces(S)
    BY <2>10, <2>11, <2>12
  <2> QED BY <2>8, <2>13
<1> QED BY <1>1, <1>2, <1>3

\* An interval of S that meets a piece of S, or is next to it, lies in it.
LEMMA PieceHolds ==
  ASSUME NEW S, S \subseteq Int, NEW I \in Pieces(S), NEW J \in Interval, J \subseteq S,
         Near(J, I) \/ J \cap I # {}
  PROVE  J \subseteq I
<1>1. PICK a \in S, b \in S : I = a .. b /\ I # {} /\ I \subseteq S /\ \A c \in S \ I : ~ Near({c}, I)
  BY DEF Pieces
<1>2. a \in Int /\ b \in Int /\ a <= b
  BY <1>1
<1>3. PICK x \in J : x \in I
  <2>1. CASE J \cap I # {}
    BY <2>1
  <2>2. CASE Near(J, I)
    <3>1. PICK x \in J, y \in I : x - y \in -1 .. 1
      BY <2>2 DEF Near
    <3>2. Near({x}, I)
      BY <3>1 DEF Near
    <3> QED BY <1>1, <3>2
  <2> QED BY <2>1, <2>2
<1> DEFINE l == Low(J)
           h == High(J)
<1>4. l \in Int /\ h \in Int /\ J = l .. h
  BY IntervalIs
<1> HIDE DEF l, h
<1>5. x \in Int /\ a <= x /\ x <= b /\ l <= x /\ x <= h
  BY <1>1, <1>2, <1>3, <1>4
<1>6. \A c \in J \ I : ~ Near({c}, I)
  BY <1>1
<1>7. b + 1 \notin J
  <2> SUFFICES ASSUME b + 1 \in J PROVE FALSE
    OBVIOUS
  <2>1. b + 1 \notin I /\ b \in I /\ (b + 1) - b \in -1 .. 1
    BY <1>1, <1>2
  <2>2. Near({b + 1}, I)
    BY <2>1 DEF Near
  <2> QED BY <1>6, <2>1, <2>2
<1>8. a - 1 \notin J
  <2> SUFFICES ASSUME a - 1 \in J PROVE FALSE
    OBVIOUS
  <2>1. a - 1 \notin I /\ a \in I /\ (a - 1) - a \in -1 .. 1
    BY <1>1, <1>2
  <2>2. Near({a - 1}, I)
    BY <2>1 DEF Near
  <2> QED BY <1>6, <2>1, <2>2
<1>9. l >= a /\ h <= b
  BY <1>2, <1>4, <1>5, <1>7, <1>8
<1> QED BY <1>1, <1>2, <1>4, <1>9

(***************************************************************************)
(* The canonical order is strict and total: a body is what its key says.   *)
(***************************************************************************)
LEMMA BeforeMeans ==
  ASSUME NEW a \in Body, NEW b \in Body
  PROVE  LET f == a.origin.feature  g == b.origin.feature
             m == a.origin.member   n == b.origin.member
             i == a.origin.instance j == b.origin.instance
         IN  Before(a, b) <=>
               \/ f < g
               \/ f = g /\ m < n
               \/ f = g /\ m = n /\ i < j
               \/ f = g /\ m = n /\ i = j /\ Low(a.cells) < Low(b.cells)
               \/ f = g /\ m = n /\ i = j /\ Low(a.cells) = Low(b.cells) /\ High(a.cells) < High(b.cells)
<1>1. 1 .. 5 = {1, 2, 3, 4, 5}
  OBVIOUS
<1>2. /\ 1 .. 1 - 1 = {} /\ 1 .. 2 - 1 = {1} /\ 1 .. 3 - 1 = {1, 2} /\ 1 .. 4 - 1 = {1, 2, 3}
      /\ 1 .. 5 - 1 = {1, 2, 3, 4}
  OBVIOUS
<1>3. \A x : SortKey(x)[1] = x.origin.feature /\ SortKey(x)[2] = x.origin.member
             /\ SortKey(x)[3] = x.origin.instance /\ SortKey(x)[4] = Low(x.cells)
             /\ SortKey(x)[5] = High(x.cells)
  BY DEF SortKey
<1> HIDE DEF Body
<1> QED BY <1>1, <1>2, <1>3 DEF Before

\* A body is its origin and its cells.
LEMMA BodyIs ==
  ASSUME NEW a \in Body
  PROVE  /\ a = [origin |-> a.origin, cells |-> a.cells] /\ a.cells \in Interval
         /\ a.origin = [feature |-> a.origin.feature, member |-> a.origin.member,
                        instance |-> a.origin.instance]
         /\ a.origin.feature \in Int /\ a.origin.member \in Int /\ a.origin.instance \in Int
         /\ Low(a.cells) \in Int /\ High(a.cells) \in Int /\ a.cells = Low(a.cells) .. High(a.cells)
BY IntervalIs DEF Body

\* The canonical order tells any two different bodies apart.
LEMMA BeforeIsStrict ==
  /\ \A a \in Body : ~ Before(a, a)
  /\ \A a, b, c \in Body : Before(a, b) /\ Before(b, c) => Before(a, c)
  /\ \A a, b \in Body : a # b => Before(a, b) \/ Before(b, a)
<1>1. ASSUME NEW a \in Body PROVE ~ Before(a, a)
  <2>1. /\ a.origin.feature \in Int /\ a.origin.member \in Int /\ a.origin.instance \in Int
        /\ Low(a.cells) \in Int /\ High(a.cells) \in Int
    BY BodyIs
  <2> HIDE DEF Body
  <2> QED BY <2>1, BeforeMeans
<1>2. ASSUME NEW a \in Body, NEW b \in Body, NEW c \in Body, Before(a, b), Before(b, c)
      PROVE  Before(a, c)
  <2>1. /\ a.origin.feature \in Int /\ a.origin.member \in Int /\ a.origin.instance \in Int
        /\ Low(a.cells) \in Int /\ High(a.cells) \in Int
    BY BodyIs
  <2>2. /\ b.origin.feature \in Int /\ b.origin.member \in Int /\ b.origin.instance \in Int
        /\ Low(b.cells) \in Int /\ High(b.cells) \in Int
    BY BodyIs
  <2>3. /\ c.origin.feature \in Int /\ c.origin.member \in Int /\ c.origin.instance \in Int
        /\ Low(c.cells) \in Int /\ High(c.cells) \in Int
    BY BodyIs
  <2> QED BY <1>2, <2>1, <2>2, <2>3, BeforeMeans
<1>3. ASSUME NEW a \in Body, NEW b \in Body, ~ Before(a, b), ~ Before(b, a)
      PROVE  a = b
  <2>0. /\ a.origin.feature \in Int /\ a.origin.member \in Int /\ a.origin.instance \in Int
        /\ Low(a.cells) \in Int /\ High(a.cells) \in Int
    BY BodyIs
  <2>00. /\ b.origin.feature \in Int /\ b.origin.member \in Int /\ b.origin.instance \in Int
        /\ Low(b.cells) \in Int /\ High(b.cells) \in Int
    BY BodyIs
  <2>1. /\ a.origin.feature = b.origin.feature /\ a.origin.member = b.origin.member
        /\ a.origin.instance = b.origin.instance
        /\ Low(a.cells) = Low(b.cells) /\ High(a.cells) = High(b.cells)
    BY <1>3, <2>0, <2>00, BeforeMeans
  <2>2. a.origin = b.origin /\ a.cells = b.cells
    BY <2>1, BodyIs
  <2> QED BY <2>2, BodyIs
<1> QED BY <1>1, <1>2, <1>3

(***************************************************************************)
(* What is put in order: every member once.                                *)
(***************************************************************************)
OneToOne(f, S, T) ==
  /\ \A x \in S : f[x] \in T
  /\ \A x, y \in S : f[x] = f[y] => x = y
  /\ \A z \in T : \E x \in S : f[x] = z

\* Sets that are matched one to one have the same size.
LEMMA SameSize ==
  ASSUME NEW S, NEW T, NEW f, IsFiniteSet(S), OneToOne(f, S, T)
  PROVE  IsFiniteSet(T) /\ Cardinality(T) = Cardinality(S)
<1> DEFINE g == [x \in S |-> f[x]]
<1>1. g \in Bijection(S, T)
  BY DEF OneToOne, Bijection, Injection, Surjection, IsInjective
<1>2. ExistsBijection(S, T)
  BY <1>1 DEF ExistsBijection
<1> QED BY <1>2, FS_Bijection

\* A set of positions in order: each one once.
LEMMA SortedNumbers ==
  ASSUME NEW I, IsFiniteSet(I), I \subseteq Int
  PROVE  /\ Cardinality(I) \in Nat /\ DOMAIN Sorted(I, <) = 1 .. Cardinality(I)
         /\ Sorted(I, <) \in Seq(I) /\ Len(Sorted(I, <)) = Cardinality(I)
         /\ \A x \in I : \E k \in DOMAIN Sorted(I, <) : Sorted(I, <)[k] = x
         /\ \A j, k \in DOMAIN Sorted(I, <) : Sorted(I, <)[j] = Sorted(I, <)[k] => j = k
<1> DEFINE R == {p \in I \X I : p[1] < p[2]}
           s == Sorted(I, <)
<1>1. \A x, y \in I : <<x, y>> \in R <=> x < y
  OBVIOUS
<1> HIDE DEF R
<1>2. Orders(R, I)
  BY <1>1 DEF Orders
<1>3. \A x \in I : Rank(R, I, x) = Cardinality({y \in I : y < x})
  <2>1. \A x \in I : Under(R, I, x) = {y \in I : y < x}
    BY <1>1 DEF Under
  <2> QED BY <2>1 DEF Rank
<1>4. IsFiniteSet(I) /\ Orders(R, I)
  BY <1>2
<1>5. s = [k \in 1 .. Cardinality(I) |-> CHOOSE x \in I : Cardinality({y \in I : y < x}) = k - 1]
  BY DEF Sorted
<1> HIDE DEF s
<1>6. ASSUME NEW k \in 1 .. Cardinality(I) PROVE s[k] \in I /\ Rank(R, I, s[k]) = k - 1
  <2>1. \E x \in I : Rank(R, I, x) = k - 1
    BY ONLY <1>4, Ranks, k \in 1 .. Cardinality(I)
  <2>2. \E x \in I : Cardinality({y \in I : y < x}) = k - 1
    BY <1>3, <2>1
  <2>3. s[k] = CHOOSE x \in I : Cardinality({y \in I : y < x}) = k - 1
    BY <1>5
  <2>4. s[k] \in I /\ Cardinality({y \in I : y < s[k]}) = k - 1
    BY <2>2, <2>3
  <2> QED BY <1>3, <2>4
<1>7. s \in [1 .. Cardinality(I) -> I]
  BY <1>5, <1>6
<1>8. Ranked(s, R, I)
  BY <1>6 DEF Ranked
<1>9. /\ Cardinality(I) \in Nat /\ DOMAIN s = 1 .. Cardinality(I)
      /\ s \in Seq(I) /\ Len(s) = Cardinality(I)
      /\ Onto(s, I) /\ Once(s, Cardinality(I))
  BY ONLY <1>4, <1>7, <1>8, SortedIs
<1> QED BY <1>9 DEF s, Onto, Once

\* A set of bodies in order: each one once.
LEMMA SortedBodies ==
  ASSUME NEW S, IsFiniteSet(S), S \subseteq Body
  PROVE  /\ Sorted(S, Before) \in Seq(S)
         /\ \A x \in S : \E k \in DOMAIN Sorted(S, Before) : Sorted(S, Before)[k] = x
<1> DEFINE R == {p \in S \X S : Before(p[1], p[2])}
           s == Sorted(S, Before)
<1>1. \A x, y \in S : <<x, y>> \in R <=> Before(x, y)
  OBVIOUS
<1> HIDE DEF R
<1>2. Orders(R, S)
  <2>1. \A x \in S : <<x, x>> \notin R
    BY <1>1, BeforeIsStrict
  <2>2. ASSUME NEW x \in S, NEW y \in S, NEW z \in S, <<x, y>> \in R, <<y, z>> \in R
        PROVE  <<x, z>> \in R
    <3>1. x \in Body /\ y \in Body /\ z \in Body /\ Before(x, y) /\ Before(y, z)
      BY <1>1, <2>2
    <3> QED BY <1>1, <3>1, BeforeIsStrict
  <2>3. \A x, y \in S : x # y => <<x, y>> \in R \/ <<y, x>> \in R
    BY <1>1, BeforeIsStrict
  <2> QED BY <2>1, <2>2, <2>3 DEF Orders
<1>3. \A x \in S : Rank(R, S, x) = Cardinality({y \in S : Before(y, x)})
  <2>1. \A x \in S : Under(R, S, x) = {y \in S : Before(y, x)}
    BY <1>1 DEF Under
  <2> QED BY <2>1 DEF Rank
<1>4. IsFiniteSet(S) /\ Orders(R, S)
  BY <1>2
<1>5. s = [k \in 1 .. Cardinality(S) |-> CHOOSE x \in S : Cardinality({y \in S : Before(y, x)}) = k - 1]
  BY DEF Sorted
<1> HIDE DEF s
<1>6. ASSUME NEW k \in 1 .. Cardinality(S) PROVE s[k] \in S /\ Rank(R, S, s[k]) = k - 1
  <2>1. \E x \in S : Rank(R, S, x) = k - 1
    BY ONLY <1>4, Ranks, k \in 1 .. Cardinality(S)
  <2>2. \E x \in S : Cardinality({y \in S : Before(y, x)}) = k - 1
    BY <1>3, <2>1
  <2>3. s[k] = CHOOSE x \in S : Cardinality({y \in S : Before(y, x)}) = k - 1
    BY <1>5
  <2>4. s[k] \in S /\ Cardinality({y \in S : Before(y, s[k])}) = k - 1
    BY <2>2, <2>3
  <2> QED BY <1>3, <2>4
<1>7. s \in [1 .. Cardinality(S) -> S]
  BY <1>5, <1>6
<1>8. Ranked(s, R, S)
  BY <1>6 DEF Ranked
<1>9. /\ s \in Seq(S) /\ DOMAIN s = 1 .. Cardinality(S)
      /\ Onto(s, S)
  BY ONLY <1>4, <1>7, <1>8, SortedIs
<1> QED BY <1>9 DEF s, Onto, Once

\* Some bodies of a sequence, in the order they have there: at gives the positions.
Picks(at, bs, I) ==
  /\ at \in [1 .. Cardinality(I) -> I] /\ OneToOne(at, 1 .. Cardinality(I), I)
  /\ DOMAIN Pick(bs, I) = 1 .. Cardinality(I)
  /\ \A k \in 1 .. Cardinality(I) : Pick(bs, I)[k] = bs[at[k]]

\* The bodies at the positions I, in the order of the positions.
LEMMA PickIs ==
  ASSUME NEW V, NEW bs \in Seq(V), NEW I \in SUBSET DOMAIN bs
  PROVE  /\ IsFiniteSet(I) /\ Cardinality(I) \in Nat
         /\ Pick(bs, I) \in Seq(V) /\ Len(Pick(bs, I)) = Cardinality(I)
         /\ Picks(Sorted(I, <), bs, I)
<1> DEFINE at == Sorted(I, <)
           n == Cardinality(I)
<1>1. DOMAIN bs = 1 .. Len(bs) /\ Len(bs) \in Nat /\ bs \in [1 .. Len(bs) -> V]
  BY LenProperties
<1>2. IsFiniteSet(I) /\ I \subseteq Int
  <2>1. IsFiniteSet(1 .. Len(bs))
    BY <1>1, FS_Interval
  <2> QED BY <1>1, <2>1, FS_Subset
<1>3. /\ n \in Nat /\ DOMAIN at = 1 .. n
      /\ at \in Seq(I) /\ Len(at) = n
      /\ \A x \in I : \E k \in DOMAIN at : at[k] = x
      /\ \A j, k \in DOMAIN at : at[j] = at[k] => j = k
  BY <1>2, SortedNumbers
<1>4. Pick(bs, I) = [k \in DOMAIN at |-> bs[at[k]]]
  BY DEF Pick
<1> HIDE DEF at, n
<1>5. at \in [1 .. n -> I]
  BY <1>3, LenProperties
<1>6. Pick(bs, I) \in [1 .. n -> V] /\ DOMAIN Pick(bs, I) = 1 .. n
  BY <1>1, <1>3, <1>4, <1>5
<1>7. Pick(bs, I) \in Seq(V) /\ Len(Pick(bs, I)) = n
  BY <1>3, <1>6, FunctionIsSeq
<1>8. OneToOne(at, 1 .. n, I)
  BY <1>3, <1>5 DEF OneToOne
<1>9. \A k \in 1 .. n : Pick(bs, I)[k] = bs[at[k]]
  BY <1>3, <1>4
<1>10. Picks(at, bs, I)
  BY <1>5, <1>6, <1>8, <1>9 DEF Picks, n
<1> QED BY <1>2, <1>3, <1>7, <1>10 DEF at, n

Stable(S) ==
  {p \in S \X S : Before(p[1][2], p[2][2]) \/ (~ Before(p[2][2], p[1][2]) /\ p[1][1] < p[2][1])}

\* <<position, body>> pairs in order, and the sequence of their bodies.
Lists(at, s, S) ==
  /\ at \in [1 .. Cardinality(S) -> S] /\ OneToOne(at, 1 .. Cardinality(S), S)
  /\ \A k \in 1 .. Cardinality(S) : s[k] = at[k][2]
  /\ \A j, k \in 1 .. Cardinality(S) : j < k => ~ Before(s[k], s[j])

\* The pairs of S in order: a pair for each place, and a place for each pair.
LEMMA InOrderIs ==
  ASSUME NEW S, IsFiniteSet(S), S \subseteq Int \X Body
  PROVE  LET s == InOrder(S, Before)
         IN  /\ Cardinality(S) \in Nat /\ DOMAIN s = 1 .. Cardinality(S) /\ Len(s) = Cardinality(S)
             /\ s \in Seq(Body)
             /\ \E at : Lists(at, s, S)
<1> DEFINE R == Stable(S)
           n == Cardinality(S)
           at == Sorted(S, LAMBDA x, y : Before(x[2], y[2]) \/ (~ Before(y[2], x[2]) /\ x[1] < y[1]))
           s == InOrder(S, Before)
<1>0. \A x \in S : x[1] \in Int /\ x[2] \in Body /\ x = <<x[1], x[2]>>
  OBVIOUS
<1>1. \A x, y \in S : <<x, y>> \in R <=> Before(x[2], y[2]) \/ (~ Before(y[2], x[2]) /\ x[1] < y[1])
  BY DEF Stable
<1> HIDE DEF R
<1>2. Orders(R, S)
  <2>1. \A x \in S : <<x, x>> \notin R
    BY <1>0, <1>1, BeforeIsStrict
  <2>2. ASSUME NEW x \in S, NEW y \in S, NEW z \in S, <<x, y>> \in R, <<y, z>> \in R
        PROVE  <<x, z>> \in R
    <3> DEFINE a == x[2]
               b == y[2]
               c == z[2]
    <3>1. a \in Body /\ b \in Body /\ c \in Body
      BY <1>0
    <3>2. (Before(a, b) \/ (a = b /\ x[1] < y[1])) /\ (Before(b, c) \/ (b = c /\ y[1] < z[1]))
      <4>1. /\ Before(a, b) \/ (~ Before(b, a) /\ x[1] < y[1])
            /\ Before(b, c) \/ (~ Before(c, b) /\ y[1] < z[1])
        BY <1>1, <2>2
      <4> HIDE DEF a, b, c
      <4> QED BY <3>1, <4>1, BeforeIsStrict
    <3> HIDE DEF a, b, c
    <3>3. Before(a, c) \/ (a = c /\ x[1] < z[1])
      BY <1>0, <3>1, <3>2, BeforeIsStrict
    <3>4. a = c => ~ Before(c, a)
      BY <3>1, BeforeIsStrict
    <3> QED BY <1>1, <3>3, <3>4 DEF a, c
  <2>3. ASSUME NEW x \in S, NEW y \in S, x # y PROVE <<x, y>> \in R \/ <<y, x>> \in R
    <3>1. CASE x[2] = y[2]
      <4>1. x[1] < y[1] \/ y[1] < x[1]
        BY <1>0, <2>3, <3>1
      <4>2. ~ Before(x[2], y[2])
        BY <1>0, <3>1, BeforeIsStrict
      <4> QED BY <1>1, <3>1, <4>1, <4>2
    <3>2. CASE x[2] # y[2]
      BY <1>0, <1>1, <3>2, BeforeIsStrict
    <3> QED BY <3>1, <3>2
  <2> QED BY <2>1, <2>2, <2>3 DEF Orders
<1>3. \A x \in S : Rank(R, S, x) =
        Cardinality({y \in S : Before(y[2], x[2]) \/ (~ Before(x[2], y[2]) /\ y[1] < x[1])})
  <2>1. \A x \in S : Under(R, S, x) =
          {y \in S : Before(y[2], x[2]) \/ (~ Before(x[2], y[2]) /\ y[1] < x[1])}
    BY <1>1 DEF Under
  <2> QED BY <2>1 DEF Rank
<1> DEFINE Lower(x) == {y \in S : Before(y[2], x[2]) \/ (~ Before(x[2], y[2]) /\ y[1] < x[1])}
<1>4. IsFiniteSet(S) /\ Orders(R, S)
  BY <1>2
<1>5. at = [k \in 1 .. n |-> CHOOSE x \in S : Cardinality(Lower(x)) = k - 1]
  BY DEF Sorted
<1>6. s = [k \in DOMAIN at |-> at[k][2]]
  BY DEF InOrder
<1> HIDE DEF at, s, Lower
<1>15. ASSUME NEW k \in 1 .. n PROVE at[k] \in S /\ Rank(R, S, at[k]) = k - 1
  <2>1. \E x \in S : Rank(R, S, x) = k - 1
    BY ONLY <1>4, Ranks, k \in 1 .. n
  <2>2. \E x \in S : Cardinality(Lower(x)) = k - 1
    BY <1>3, <2>1 DEF Lower
  <2>3. at[k] = CHOOSE x \in S : Cardinality(Lower(x)) = k - 1
    BY <1>5
  <2>4. at[k] \in S /\ Cardinality(Lower(at[k])) = k - 1
    BY <2>2, <2>3
  <2> QED BY <1>3, <2>4 DEF Lower
<1>16. at \in [1 .. n -> S]
  BY <1>5, <1>15
<1>17. Ranked(at, R, S)
  BY <1>15 DEF Ranked, n
<1>7. /\ n \in Nat /\ DOMAIN at = 1 .. n /\ at \in Seq(S) /\ Len(at) = n
      /\ Onto(at, S) /\ Once(at, n)
      /\ \A j, k \in 1 .. n : j < k => <<at[j], at[k]>> \in R
  BY ONLY <1>4, <1>16, <1>17, SortedIs
<1> HIDE DEF n
<1>8. at \in [1 .. n -> S]
  BY <1>7, LenProperties
<1>9. s \in [1 .. n -> Body] /\ DOMAIN s = 1 .. n
  BY <1>0, <1>6, <1>7, <1>8
<1>10. s \in Seq(Body) /\ Len(s) = n
  BY <1>7, <1>9, FunctionIsSeq
<1>11. ASSUME NEW j \in 1 .. n, NEW k \in 1 .. n, j < k PROVE ~ Before(s[k], s[j])
  <2>1. at[j] \in S /\ at[k] \in S /\ <<at[j], at[k]>> \in R /\ s[j] = at[j][2] /\ s[k] = at[k][2]
    BY <1>6, <1>7, <1>8, <1>11
  <2>2. s[j] \in Body /\ s[k] \in Body /\ (Before(s[j], s[k]) \/ ~ Before(s[k], s[j]))
    BY <1>0, <1>1, <2>1
  <2> QED BY <2>2, BeforeIsStrict
<1>12. \A k \in 1 .. n : s[k] = at[k][2]
  BY <1>6, <1>7
<1>13. OneToOne(at, 1 .. n, S)
  BY <1>7, <1>8 DEF OneToOne, Onto, Once, n
<1>14. Lists(at, s, S)
  BY <1>8, <1>11, <1>12, <1>13 DEF Lists, n
<1> QED BY <1>7, <1>9, <1>10, <1>14 DEF n, s

(***************************************************************************)
(* How often a body is in a sequence.                                      *)
(***************************************************************************)
LEMMA CountIs ==
  ASSUME NEW V, NEW s \in Seq(V), NEW b
  PROVE  IsFiniteSet({i \in DOMAIN s : s[i] = b}) /\ Count(s, b) \in Nat
<1>1. DOMAIN s = 1 .. Len(s) /\ Len(s) \in Nat
  BY LenProperties
<1>2. IsFiniteSet(1 .. Len(s))
  BY <1>1, FS_Interval
<1>3. {i \in DOMAIN s : s[i] = b} \in SUBSET (1 .. Len(s))
  BY <1>1
<1>4. IsFiniteSet({i \in DOMAIN s : s[i] = b})
  BY <1>2, <1>3, FS_Subset
<1> QED BY <1>4, FS_CardinalityType DEF Count

\* Putting in order neither drops nor adds a body.
LEMMA InOrderCount ==
  ASSUME NEW S, IsFiniteSet(S), S \subseteq Int \X Body, NEW b
  PROVE  Count(InOrder(S, Before), b) = Cardinality({p \in S : p[2] = b})
<1> DEFINE s == InOrder(S, Before)
           n == Cardinality(S)
           A == {k \in DOMAIN s : s[k] = b}
           B == {p \in S : p[2] = b}
<1>1. DOMAIN s = 1 .. n /\ s \in Seq(Body)
  BY InOrderIs
<1>20. PICK at : Lists(at, s, S)
  BY InOrderIs
<1>2. /\ \A k \in 1 .. n : at[k] \in S /\ s[k] = at[k][2]
      /\ \A p \in S : \E k \in 1 .. n : at[k] = p
      /\ \A j, k \in 1 .. n : at[j] = at[k] => j = k
  BY <1>20 DEF Lists, OneToOne
<1> HIDE DEF s, n
<1>3. IsFiniteSet(A)
  BY <1>1, CountIs
<1>4. \A k \in A : at[k] \in B
  BY <1>1, <1>2
<1>5. \A j, k \in A : at[j] = at[k] => j = k
  BY <1>1, <1>2
<1>6. \A p \in B : \E k \in A : at[k] = p
  <2>1. ASSUME NEW p \in B PROVE \E k \in A : at[k] = p
    <3>1. PICK k \in 1 .. n : at[k] = p
      BY <1>2
    <3> QED BY <1>1, <1>2, <3>1
  <2> QED BY <2>1
<1> HIDE DEF A, B
<1>7. OneToOne(at, A, B)
  BY <1>4, <1>5, <1>6 DEF OneToOne
<1>8. Cardinality(B) = Cardinality(A)
  BY ONLY <1>3, <1>7, SameSize
<1> QED BY <1>8 DEF A, B, Count, s

\* A sequence of bodies as <<position, body>> pairs.
Placed(bs) == {<<i, bs[i]>> : i \in DOMAIN bs}

\* A sequence as <<position, body>> pairs.
LEMMA PlacedIs ==
  ASSUME NEW bs \in Seq(Body)
  PROVE  /\ IsFiniteSet(Placed(bs)) /\ Placed(bs) \subseteq Int \X Body
         /\ Cardinality(Placed(bs)) = Len(bs)
         /\ \A b : Cardinality({p \in Placed(bs) : p[2] = b}) = Count(bs, b)
<1> DEFINE f == [i \in DOMAIN bs |-> <<i, bs[i]>>]
<1>1. DOMAIN bs = 1 .. Len(bs) /\ Len(bs) \in Nat /\ bs \in [1 .. Len(bs) -> Body]
  BY LenProperties
<1>2. IsFiniteSet(DOMAIN bs) /\ Cardinality(DOMAIN bs) = Len(bs)
  BY <1>1, FS_Interval
<1>3. \A i \in DOMAIN bs : f[i] = <<i, bs[i]>>
  OBVIOUS
<1>4. OneToOne(f, DOMAIN bs, Placed(bs))
  BY DEF Placed, OneToOne
<1>5. Placed(bs) \subseteq Int \X Body
  BY <1>1 DEF Placed
<1> HIDE DEF f
<1>6. IsFiniteSet(Placed(bs)) /\ Cardinality(Placed(bs)) = Cardinality(DOMAIN bs)
  BY <1>2, <1>4, SameSize
<1>7. ASSUME NEW b PROVE Cardinality({p \in Placed(bs) : p[2] = b}) = Count(bs, b)
  <2> DEFINE A == {i \in DOMAIN bs : bs[i] = b}
             B == {p \in Placed(bs) : p[2] = b}
  <2>1. IsFiniteSet(A)
    BY CountIs
  <2>2. \A i \in A : f[i] \in B
    BY <1>3, <1>4 DEF OneToOne
  <2>3. \A i, j \in A : f[i] = f[j] => i = j
    BY <1>4 DEF OneToOne
  <2>4. ASSUME NEW p \in B PROVE \E i \in A : f[i] = p
    <3>1. PICK i \in DOMAIN bs : f[i] = p
      BY <1>4 DEF OneToOne
    <3> QED BY <1>3, <3>1
  <2> HIDE DEF A, B
  <2>5. OneToOne(f, A, B)
    BY <2>2, <2>3, <2>4 DEF OneToOne
  <2>6. Cardinality(B) = Cardinality(A)
    BY ONLY <2>1, <2>5, SameSize
  <2> QED BY <2>6 DEF A, B, Count
<1> QED BY <1>2, <1>5, <1>6, <1>7

\* Sorting keeps every body as often as it was.
LEMMA CanonicalIs ==
  ASSUME NEW bs \in Seq(Body)
  PROVE  Canonical(bs) \in Seq(Body) /\ \A b : Count(Canonical(bs), b) = Count(bs, b)
<1> DEFINE S == Placed(bs)
<1>1. Canonical(bs) = InOrder(S, Before)
  BY DEF Canonical, SortedSeq, Placed
<1>2. IsFiniteSet(S) /\ S \subseteq Int \X Body /\ \A b : Cardinality({p \in S : p[2] = b}) = Count(bs, b)
  BY PlacedIs
<1> HIDE DEF S
<1>3. InOrder(S, Before) \in Seq(Body)
  BY <1>2, InOrderIs
<1>4. \A b : Count(InOrder(S, Before), b) = Cardinality({p \in S : p[2] = b})
  BY <1>2, InOrderCount
<1> QED BY <1>1, <1>2, <1>3, <1>4

\* A body is in s \o t as often as in s and in t together.
LEMMA CountConcat ==
  ASSUME NEW V, NEW s \in Seq(V), NEW t \in Seq(V), NEW b
  PROVE  Count(s \o t, b) = Count(s, b) + Count(t, b)
<1> DEFINE m == Len(s)
           n == Len(t)
           u == s \o t
           A == {i \in DOMAIN s : s[i] = b}
           B == {i \in DOMAIN t : t[i] = b}
           C == {i \in DOMAIN u : u[i] = b}
           D == {i \in C : i > m}
           up == [i \in B |-> i + m]
<1>1. DOMAIN s = 1 .. m /\ m \in Nat /\ DOMAIN t = 1 .. n /\ n \in Nat
  BY LenProperties
<1>2. u \in Seq(V) /\ Len(u) = m + n
      /\ \A i \in 1 .. m + n : u[i] = IF i <= m THEN s[i] ELSE t[i - m]
  BY ConcatProperties
<1>3. DOMAIN u = 1 .. m + n
  BY <1>2, LenProperties
<1> HIDE DEF u, m, n
<1>4. IsFiniteSet(A) /\ IsFiniteSet(B)
  BY CountIs
<1>5. Cardinality(D) = Cardinality(B) /\ IsFiniteSet(D)
  <2>1. \A i \in B : up[i] \in D
    BY <1>1, <1>2, <1>3
  <2>2. \A i, j \in B : up[i] = up[j] => i = j
    BY <1>1
  <2>3. ASSUME NEW i \in D PROVE \E j \in B : up[j] = i
    <3>1. i - m \in B /\ (i - m) + m = i
      BY <1>1, <1>2, <1>3
    <3> QED BY <3>1
  <2> HIDE DEF D, B, up
  <2>4. OneToOne(up, B, D)
    BY <2>1, <2>2, <2>3 DEF OneToOne
  <2> QED BY ONLY <1>4, <2>4, SameSize
<1>6. C = A \cup D /\ A \cap D = {}
  BY <1>1, <1>2, <1>3
<1> HIDE DEF A, B, C, D
<1>7. Cardinality(A \cup D) = Cardinality(A) + Cardinality(D) - Cardinality({})
  BY <1>4, <1>5, <1>6, FS_Union
<1>8. Cardinality({}) = 0 /\ Cardinality(A) \in Nat /\ Cardinality(D) \in Nat
  BY <1>4, <1>5, FS_EmptySet, FS_CardinalityType
<1>9. Cardinality(C) = Cardinality(A) + Cardinality(B)
  BY <1>5, <1>6, <1>7, <1>8
<1> QED BY <1>9 DEF A, B, C, Count, u

\* Picking positions picks no body more often than it is there.
LEMMA CountOfPick ==
  ASSUME NEW V, NEW bs \in Seq(V), NEW I \in SUBSET DOMAIN bs, NEW b
  PROVE  /\ Count(Pick(bs, I), b) = Cardinality({i \in I : bs[i] = b})
         /\ Count(Pick(bs, I), b) <= Count(bs, b)
<1> DEFINE at == Sorted(I, <)
           n == Cardinality(I)
           s == Pick(bs, I)
           A == {k \in DOMAIN s : s[k] = b}
           B == {i \in I : bs[i] = b}
           C == {i \in DOMAIN bs : bs[i] = b}
<1>0. Picks(at, bs, I)
  BY PickIs
<1>1. /\ \A k \in 1 .. n : at[k] \in I /\ s[k] = bs[at[k]]
      /\ \A j, k \in 1 .. n : at[j] = at[k] => j = k
      /\ \A i \in I : \E k \in 1 .. n : at[k] = i
      /\ DOMAIN s = 1 .. n
  BY <1>0 DEF Picks, OneToOne
<1>2. s \in Seq(V)
  BY PickIs
<1> HIDE DEF at, n, s
<1>3. IsFiniteSet(A)
  BY <1>2, CountIs
<1>4. OneToOne(at, A, B)
  <2>1. \A k \in A : at[k] \in B
    BY <1>1
  <2>2. \A j, k \in A : at[j] = at[k] => j = k
    BY <1>1
  <2>3. \A i \in B : \E k \in A : at[k] = i
    BY <1>1
  <2> QED BY <2>1, <2>2, <2>3 DEF OneToOne
<1>5. IsFiniteSet(C) /\ B \in SUBSET C
  BY CountIs
<1> HIDE DEF A, B, C
<1>6. Cardinality(B) = Cardinality(A)
  BY ONLY <1>3, <1>4, SameSize
<1>7. Cardinality(B) <= Cardinality(C)
  BY <1>5, FS_Subset
<1> QED BY <1>6, <1>7 DEF A, B, C, s, Count

\* What is left when the bodies at the positions J go: all, when J is empty.
Rest(bs, J) == Pick(bs, DOMAIN bs \ J)
LEMMA RestIs ==
  ASSUME NEW V, NEW bs \in Seq(V), NEW J
  PROVE  Rest(bs, J) \in Seq(V)
<1> DEFINE R == DOMAIN bs \ J
<1>1. R \in SUBSET DOMAIN bs
  OBVIOUS
<1> HIDE DEF R
<1>2. Pick(bs, R) \in Seq(V)
  BY <1>1, PickIs
<1> QED BY <1>2 DEF Rest, R

LEMMA RestOfNone ==
  ASSUME NEW V, NEW bs \in Seq(V), NEW J, J = {}, NEW b
  PROVE  Count(Rest(bs, J), b) = Count(bs, b)
<1> DEFINE R == DOMAIN bs
<1>1. R \in SUBSET DOMAIN bs /\ Rest(bs, J) = Pick(bs, R)
  BY DEF Rest
<1> HIDE DEF R
<1>2. Count(Pick(bs, R), b) = Cardinality({i \in R : bs[i] = b})
  BY <1>1, CountOfPick
<1>3. Cardinality({i \in R : bs[i] = b}) = Count(bs, b)
  BY DEF Count, R
<1> QED BY <1>1, <1>2, <1>3

\* A report of bs has an entry for each body of bs.
LEMMA EntriesAreCount ==
  ASSUME NEW V, NEW bs \in Seq(V), NEW e, NEW change, e.bodies = Reports(bs, change)
  PROVE  /\ \A b : Entries(e, b) = Count(bs, b)
         /\ {e.bodies[i].body : i \in DOMAIN e.bodies} = {bs[i] : i \in DOMAIN bs}
<1>1. /\ DOMAIN e.bodies = DOMAIN bs
      /\ \A i \in DOMAIN bs : e.bodies[i].body = bs[i]
  BY DEF Reports
<1>2. \A b : {i \in DOMAIN e.bodies : e.bodies[i].body = b} = {i \in DOMAIN bs : bs[i] = b}
  BY <1>1
<1> QED BY <1>1, <1>2 DEF Entries, Count

(***************************************************************************)
(* The cells and the origins of a sequence of bodies.                      *)
(***************************************************************************)
LEMMA SeqOfBodies ==
  ASSUME NEW bs \in Seq(Body)
  PROVE  /\ DOMAIN bs = 1 .. Len(bs) /\ Len(bs) \in Nat /\ IsFiniteSet(DOMAIN bs)
         /\ \A i \in DOMAIN bs : bs[i] \in Body
         /\ Cells(bs) \subseteq Int /\ IsFiniteSet(Cells(bs))
         /\ \A i \in DOMAIN bs : bs[i].cells \subseteq Cells(bs)
<1>1. DOMAIN bs = 1 .. Len(bs) /\ Len(bs) \in Nat /\ bs \in [1 .. Len(bs) -> Body]
  BY LenProperties
<1>2. IsFiniteSet(1 .. Len(bs))
  BY <1>1, FS_Interval
<1>3. \A i \in DOMAIN bs : bs[i] \in Body
  BY <1>1
<1>4. \A i \in DOMAIN bs : bs[i].cells \in Interval
  BY <1>3 DEF Body
<1> DEFINE f == [i \in DOMAIN bs |-> bs[i].cells]
           C == {f[i] : i \in DOMAIN f}
<1>5. Cells(bs) = UNION C
  BY DEF Cells
<1>6. IsFiniteSet(C)
  BY <1>1, <1>2, ImageIsFinite
<1>7. \A c \in C : c \in Interval
  BY <1>4
<1> HIDE DEF C, f
<1>8. \A c \in C : IsFiniteSet(c)
  BY <1>7, IntervalIs
<1>9. IsFiniteSet(UNION C)
  BY <1>6, <1>8, FS_UNION
<1>10. UNION C \subseteq Int
  BY <1>7 DEF Interval
<1>11. \A i \in DOMAIN bs : bs[i].cells \subseteq Cells(bs)
  BY DEF Cells
<1> QED BY <1>1, <1>2, <1>3, <1>5, <1>9, <1>10, <1>11

\* The origins of s \o t.
LEMMA OriginsOfConcat ==
  ASSUME NEW s \in Seq(Body), NEW t \in Seq(Body)
  PROVE  s \o t \in Seq(Body) /\ Origins(s \o t) = Origins(s) \cup Origins(t)
<1> DEFINE u == s \o t
           m == Len(s)
           n == Len(t)
<1>1. DOMAIN s = 1 .. m /\ m \in Nat /\ DOMAIN t = 1 .. n /\ n \in Nat
  BY LenProperties
<1>2. u \in Seq(Body) /\ Len(u) = m + n
      /\ \A i \in 1 .. m + n : u[i] = IF i <= m THEN s[i] ELSE t[i - m]
  BY ConcatProperties
<1>3. DOMAIN u = 1 .. m + n
  BY <1>2, LenProperties
<1> HIDE DEF u, m, n
<1>4. ASSUME NEW i \in DOMAIN u PROVE u[i].origin \in Origins(s) \cup Origins(t)
  <2>1. CASE i <= m
    BY <1>1, <1>2, <1>3, <2>1 DEF Origins
  <2>2. CASE ~ (i <= m)
    <3>1. i - m \in DOMAIN t /\ u[i] = t[i - m]
      BY <1>1, <1>2, <1>3, <2>2
    <3> QED BY <3>1 DEF Origins
  <2> QED BY <2>1, <2>2
<1>5. ASSUME NEW i \in DOMAIN s PROVE s[i].origin \in Origins(u)
  <2>1. i \in DOMAIN u /\ u[i] = s[i]
    BY <1>1, <1>2, <1>3
  <2> QED BY <2>1 DEF Origins
<1>6. ASSUME NEW i \in DOMAIN t PROVE t[i].origin \in Origins(u)
  <2>1. i + m \in DOMAIN u /\ u[i + m] = t[i]
    BY <1>1, <1>2, <1>3
  <2> QED BY <2>1 DEF Origins
<1>7. Origins(u) = Origins(s) \cup Origins(t)
  BY <1>4, <1>5, <1>6 DEF Origins
<1> QED BY <1>2, <1>7 DEF u

\* The origins of the bodies at the positions I.
LEMMA OriginsOfPick ==
  ASSUME NEW bs \in Seq(Body), NEW I \in SUBSET DOMAIN bs
  PROVE  Origins(Pick(bs, I)) = {bs[i].origin : i \in I}
<1> DEFINE at == Sorted(I, <)
           n == Cardinality(I)
           s == Pick(bs, I)
<1>1. Picks(at, bs, I)
  BY PickIs
<1>2. DOMAIN s = 1 .. n /\ (\A k \in 1 .. n : at[k] \in I /\ s[k] = bs[at[k]])
  BY <1>1 DEF Picks
<1>3. \A i \in I : \E k \in 1 .. n : at[k] = i
  BY <1>1 DEF Picks, OneToOne
<1> HIDE DEF at, n, s
<1>4. ASSUME NEW k \in DOMAIN s PROVE s[k].origin \in {bs[i].origin : i \in I}
  BY <1>2
<1>5. ASSUME NEW i \in I PROVE bs[i].origin \in {s[k].origin : k \in DOMAIN s}
  <2>1. PICK k \in 1 .. n : at[k] = i
    BY <1>3
  <2> QED BY <1>2, <2>1
<1> QED BY <1>4, <1>5 DEF Origins, s

(***************************************************************************)
(* What a body operation on the targets T accounts for: whatever it touched *)
(* is in its result or vanished, and it names no origin but the targets'.   *)
(***************************************************************************)
Accounts(res, T) ==
  /\ res.bodies \in Seq(Body) /\ res.untouched \subseteq DOMAIN T
  /\ Origins(res.bodies) \subseteq Origins(T) /\ res.removed \subseteq Origins(T)
  /\ \A t \in DOMAIN T \ res.untouched :
       \/ T[t].origin \in Origins(res.bodies) \cup res.removed
       \/ \E u \in res.untouched : T[u].origin = T[t].origin

\* A finite set of bodies has a first one in canonical order.
LEMMA LeastBody ==
  ASSUME NEW S, IsFiniteSet(S), S \subseteq Body, S # {}
  PROVE  \E x \in S : \A y \in S : ~ Before(y, x)
<1> DEFINE s == Sorted(S, Before)
           R == {p \in S \X S : Before(p[1], p[2])}
           n == Cardinality(S)
<1>1. \A x, y \in S : <<x, y>> \in R <=> Before(x, y)
  OBVIOUS
<1> HIDE DEF R
<1>2. IsFiniteSet(S) /\ Orders(R, S)
  <2>1. \A x \in S : <<x, x>> \notin R
    BY <1>1, BeforeIsStrict
  <2>2. ASSUME NEW x \in S, NEW y \in S, NEW z \in S, <<x, y>> \in R, <<y, z>> \in R
        PROVE  <<x, z>> \in R
    <3>1. x \in Body /\ y \in Body /\ z \in Body /\ Before(x, y) /\ Before(y, z)
      BY <1>1, <2>2
    <3> QED BY <1>1, <3>1, BeforeIsStrict
  <2>3. \A x, y \in S : x # y => <<x, y>> \in R \/ <<y, x>> \in R
    BY <1>1, BeforeIsStrict
  <2> QED BY <2>1, <2>2, <2>3 DEF Orders
<1>3. n \in Nat /\ n # 0
  BY FS_CardinalityType, FS_EmptySet
<1>4. 1 \in 1 .. Cardinality(S)
  BY <1>3
<1>5. PICK x \in S : Rank(R, S, x) = 1 - 1
  BY ONLY <1>2, <1>4, Ranks
<1>6. ASSUME NEW y \in S, Before(y, x) PROVE FALSE
  <2>1. <<y, x>> \in R
    BY <1>1, <1>6
  <2>2. Rank(R, S, y) < Rank(R, S, x)
    BY ONLY <1>2, <2>1, RankGrows, x \in S, y \in S
  <2>3. Rank(R, S, y) \in 0 .. n - 1
    BY <1>2, Ranks
  <2> QED BY <1>3, <1>5, <2>2, <2>3
<1> QED BY <1>6

\* A piece with a target in it has the origin of the first of them.
LEMMA KeepIs ==
  ASSUME NEW T \in Seq(Body), NEW P, Component(P, T) # {}
  PROVE  \E t \in Component(P, T) :
           Keep(P, T) = T[t].origin /\ \A u \in Component(P, T) : ~ Before(T[u], T[t])
<1> DEFINE C == Component(P, T)
           f == [t \in C |-> T[t]]
           S == {f[t] : t \in DOMAIN f}
<1>1. C \in SUBSET DOMAIN T
  BY DEF Component
<1>2. IsFiniteSet(C) /\ \A t \in C : T[t] \in Body
  BY <1>1, SeqOfBodies, FS_Subset
<1>3. IsFiniteSet(S) /\ S \subseteq Body /\ S # {}
  BY <1>2, ImageIsFinite
<1>4. PICK x \in S : \A y \in S : ~ Before(y, x)
  BY <1>3, LeastBody
<1>5. \E t \in C : \A u \in C : ~ Before(T[u], T[t])
  BY <1>4
<1> DEFINE k == CHOOSE t \in C : \A u \in C : ~ Before(T[u], T[t])
<1>6. k \in C /\ \A u \in C : ~ Before(T[u], T[k])
  BY <1>5
<1>7. Keep(P, T) = T[k].origin
  BY DEF Keep
<1> QED BY <1>6, <1>7

(***************************************************************************)
(* What the body operations account for.                                   *)
(***************************************************************************)

\* Targets and tools in one sequence: the targets come first.
LEMMA ConcatIs ==
  ASSUME NEW T \in Seq(Body), NEW K \in Seq(Body)
  PROVE  LET all == T \o K
         IN  /\ all \in Seq(Body) /\ DOMAIN T = 1 .. Len(T) /\ Len(T) \in Nat
             /\ DOMAIN K = 1 .. Len(K) /\ Len(K) \in Nat
             /\ DOMAIN all = 1 .. Len(T) + Len(K)
             /\ \A t \in DOMAIN T : t \in DOMAIN all /\ all[t] = T[t]
             /\ \A i \in DOMAIN all :
                  i \notin DOMAIN T => i - Len(T) \in DOMAIN K /\ all[i] = K[i - Len(T)]
<1> DEFINE all == T \o K
<1>1. DOMAIN T = 1 .. Len(T) /\ Len(T) \in Nat /\ DOMAIN K = 1 .. Len(K) /\ Len(K) \in Nat
  BY LenProperties
<1>2. all \in Seq(Body) /\ Len(all) = Len(T) + Len(K)
      /\ \A i \in 1 .. Len(T) + Len(K) : all[i] = IF i <= Len(T) THEN T[i] ELSE K[i - Len(T)]
  BY ConcatProperties
<1>3. DOMAIN all = 1 .. Len(T) + Len(K)
  BY <1>2, LenProperties
<1> HIDE DEF all
<1>4. /\ all \in Seq(Body) /\ DOMAIN T = 1 .. Len(T) /\ Len(T) \in Nat
      /\ DOMAIN K = 1 .. Len(K) /\ Len(K) \in Nat
      /\ DOMAIN all = 1 .. Len(T) + Len(K)
      /\ \A t \in DOMAIN T : t \in DOMAIN all /\ all[t] = T[t]
      /\ \A i \in DOMAIN all : i \notin DOMAIN T => i - Len(T) \in DOMAIN K /\ all[i] = K[i - Len(T)]
  BY <1>1, <1>2, <1>3
<1> QED BY <1>4 DEF all

\* When every tool is near a target, no piece of the union is made of tools alone.
LEMMA TargetInPiece ==
  ASSUME NEW T \in Seq(Body), NEW K \in Seq(Body), NEW P \in Pieces(Cells(T \o K)),
         Component(P, T \o K) # {},
         \A k \in DOMAIN K : \E t \in DOMAIN T : Near(T[t].cells, K[k].cells)
  PROVE  Component(P, T) # {}
<1> DEFINE all == T \o K
           S == Cells(all)
<1>1. /\ all \in Seq(Body)
      /\ \A t \in DOMAIN T : t \in DOMAIN all /\ all[t] = T[t]
      /\ \A i \in DOMAIN all : i \notin DOMAIN T => i - Len(T) \in DOMAIN K /\ all[i] = K[i - Len(T)]
  BY ConcatIs
<1>2. P \in Pieces(S) /\ Component(P, all) # {}
  OBVIOUS
<1> HIDE DEF all
<1>3. /\ S \subseteq Int /\ IsFiniteSet(S)
      /\ \A i \in DOMAIN all : all[i] \in Body /\ all[i].cells \subseteq S
  BY <1>1, SeqOfBodies
<1>4. \A i \in DOMAIN all : all[i].cells \in Interval
  BY <1>3 DEF Body
<1> HIDE DEF S
<1>5. PICK i \in DOMAIN all : all[i].cells \subseteq P
  BY <1>2 DEF Component
<1>6. CASE i \in DOMAIN T
  BY <1>1, <1>5, <1>6 DEF Component
<1>7. CASE i \notin DOMAIN T
  <2>1. i - Len(T) \in DOMAIN K /\ K[i - Len(T)] = all[i]
    BY <1>1, <1>7
  <2>2. PICK t \in DOMAIN T : Near(T[t].cells, all[i].cells)
    BY <2>1
  <2>3. Near(T[t].cells, P)
    BY <1>5, <2>2 DEF Near
  <2>4. T[t].cells \in Interval /\ T[t].cells \subseteq S
    BY <1>1, <1>3, <1>4
  <2>5. T[t].cells \subseteq P
    <3>1. P \in Pieces(S) /\ S \subseteq Int
      BY <1>2, <1>3
    <3>2. \A J \in Interval : J \subseteq S /\ Near(J, P) => J \subseteq P
      BY ONLY <3>1, PieceHolds
    <3> QED BY <2>3, <2>4, <3>2
  <2> QED BY <2>5 DEF Component
<1> QED BY <1>6, <1>7

\* A join loses no target without an account of it.
LEMMA JoinAccounts ==
  ASSUME NEW T \in Seq(Body), NEW K \in Seq(Body), Join(T, K).code = "OK"
  PROVE  Accounts(Join(T, K), T)
<1> DEFINE all == T \o K
           united == {P \in Pieces(Cells(all)) : Cardinality(Component(P, all)) > 1}
           pairs(bs) == UNION {{<<bs[i].origin, Keep(P, T)>> : i \in Component(P, bs)} : P \in united}
           made == {[origin |-> Keep(P, T), cells |-> P] : P \in united}
           lost == {p[1] : p \in {q \in pairs(T) : q[1] # q[2]}}
           kept == {t \in DOMAIN T : \A P \in united : t \notin Component(P, T)}
           misses == \E k \in DOMAIN K : \A t \in DOMAIN T : ~ Near(T[t].cells, K[k].cells)
           res == Join(T, K)
<1>1. /\ ~ misses
      /\ res.bodies = Sorted(made, Before) /\ res.untouched = kept /\ res.removed = lost
  <2>1. misses => Join(T, K) = NoResult("BOOLEAN_NO_INTERSECTION")
    BY DEF Join
  <2>2. ~ misses
    BY <2>1 DEF NoResult
  <2>3. Join(T, K) = [code |-> "OK", bodies |-> Sorted(made, Before), untouched |-> kept,
                      removed |-> lost, merged |-> {q \in pairs(all) : q[1] # q[2]}]
    BY <2>2 DEF Join
  <2> HIDE DEF made, kept, lost, pairs
  <2> QED BY <2>2, <2>3
<1>2. /\ all \in Seq(Body) /\ DOMAIN T = 1 .. Len(T) /\ Len(T) \in Nat
      /\ DOMAIN K = 1 .. Len(K) /\ Len(K) \in Nat
      /\ DOMAIN all = 1 .. Len(T) + Len(K)
      /\ \A t \in DOMAIN T : t \in DOMAIN all /\ all[t] = T[t]
      /\ \A i \in DOMAIN all : i \notin DOMAIN T => i - Len(T) \in DOMAIN K /\ all[i] = K[i - Len(T)]
  BY ConcatIs
<1> DEFINE S == Cells(all)
<1>3. /\ S \subseteq Int /\ IsFiniteSet(S)
      /\ \A i \in DOMAIN all : all[i] \in Body /\ all[i].cells \subseteq S
  BY <1>2, SeqOfBodies
<1>4. \A i \in DOMAIN all : all[i].cells \in Interval
  BY <1>3 DEF Body
<1>5. /\ IsFiniteSet(united)
      /\ \A P \in united : P \in Pieces(S) /\ P \in Interval
                           /\ Cardinality(Component(P, all)) > 1
  <2>1. IsFiniteSet(Pieces(S)) /\ \A P \in Pieces(S) : P \in Interval
    BY <1>3, PiecesAre
  <2>2. united \in SUBSET Pieces(S)
    OBVIOUS
  <2>3. IsFiniteSet(united)
    BY <2>1, <2>2, FS_Subset
  <2>4. \A P \in united : P \in Pieces(S) /\ Cardinality(Component(P, all)) > 1
    OBVIOUS
  <2> HIDE DEF united, S, all
  <2> QED BY <2>1, <2>3, <2>4
<1> HIDE DEF all, united, misses, S
<1>6. ASSUME NEW P \in united PROVE Component(P, T) # {}
  <2>1. P \in Pieces(Cells(T \o K)) /\ Cardinality(Component(P, T \o K)) > 1
    BY <1>5 DEF S, all
  <2>2. Component(P, T \o K) # {}
    <3>1. Cardinality({}) = 0
      BY FS_EmptySet
    <3>2. Cardinality(Component(P, T \o K)) > 1
      BY <2>1
    <3>3. SUFFICES ASSUME Component(P, T \o K) = {} PROVE FALSE
      OBVIOUS
    <3> QED BY <3>1, <3>2, <3>3
  <2>3. \A k \in DOMAIN K : \E t \in DOMAIN T : Near(T[t].cells, K[k].cells)
    BY <1>1 DEF misses
  <2> QED BY <2>1, <2>2, <2>3, TargetInPiece
<1>7. ASSUME NEW P \in united PROVE \E t \in DOMAIN T : t \in Component(P, T) /\ Keep(P, T) = T[t].origin
  <2>1. PICK t \in Component(P, T) : Keep(P, T) = T[t].origin
    BY <1>6, KeepIs
  <2> QED BY <2>1 DEF Component
<1>8. \A t \in DOMAIN T : T[t] \in Body /\ T[t].origin \in [feature : Int, member : Int, instance : Int]
  BY <1>2, <1>3 DEF Body
<1>9. IsFiniteSet(made) /\ made \subseteq Body
  <2> DEFINE f == [P \in united |-> [origin |-> Keep(P, T), cells |-> P]]
  <2>1. made = {f[P] : P \in DOMAIN f}
    OBVIOUS
  <2>2. DOMAIN f = united
    OBVIOUS
  <2>3. IsFiniteSet(made)
    <3> HIDE DEF made, f
    <3> QED BY <1>5, <2>1, <2>2, ImageIsFinite
  <2>4. \A P \in united : [origin |-> Keep(P, T), cells |-> P] \in Body
    BY <1>5, <1>7, <1>8 DEF Body
  <2> QED BY <2>3, <2>4
<1> DEFINE s == Sorted(made, Before)
<1>10. s \in Seq(made) /\ \A b \in made : \E k \in DOMAIN s : s[k] = b
  BY <1>9, SortedBodies
<1>11. s \in Seq(Body) /\ \A k \in DOMAIN s : s[k] \in made
  <2>1. DOMAIN s = 1 .. Len(s) /\ s \in [1 .. Len(s) -> made]
    BY <1>10, LenProperties
  <2>2. s \in Seq(Body)
    BY <1>9, <1>10, SeqMonotonic
  <2> HIDE DEF made, s
  <2> QED BY <2>1, <2>2
<1> HIDE DEF s
<1>12. Origins(s) \subseteq Origins(T)
  <2>1. ASSUME NEW k \in DOMAIN s PROVE s[k].origin \in Origins(T)
    <3>1. PICK P \in united : s[k] = [origin |-> Keep(P, T), cells |-> P]
      BY <1>11
    <3> QED BY <1>7, <3>1 DEF Origins
  <2> QED BY <2>1 DEF Origins
<1>13. lost \subseteq Origins(T)
  <2>1. \A q \in pairs(T) : \E i \in DOMAIN T : q[1] = T[i].origin
    BY DEF Component
  <2> HIDE DEF pairs
  <2> QED BY <2>1 DEF Origins
<1>14. ASSUME NEW t \in DOMAIN T \ kept PROVE T[t].origin \in Origins(s) \cup lost
  <2>1. PICK P \in united : t \in Component(P, T)
    OBVIOUS
  <2> DEFINE o == T[t].origin
             q == <<o, Keep(P, T)>>
  <2>2. q \in pairs(T)
    BY <2>1
  <2>3. CASE o = Keep(P, T)
    <3>1. [origin |-> o, cells |-> P] \in made
      BY <2>3
    <3>2. PICK k \in DOMAIN s : s[k] = [origin |-> o, cells |-> P]
      BY <1>10, <3>1
    <3> QED BY <3>2 DEF Origins
  <2>4. CASE o # Keep(P, T)
    <3>1. q \in {p \in pairs(T) : p[1] # p[2]} /\ q[1] = o
      BY <2>2, <2>4
    <3> HIDE DEF pairs
    <3> QED BY <3>1
  <2> QED BY <2>3, <2>4
<1>15. kept \subseteq DOMAIN T
  OBVIOUS
<1> HIDE DEF kept, lost, made
<1> QED BY <1>1, <1>11, <1>12, <1>13, <1>14, <1>15 DEF Accounts, s

\* The <<target, body>> pairs of the pieces that are left of the targets U.
Carved(T, U, rest) == UNION {{t} \X Bodies(T[t].origin, Pieces(rest[t])) : t \in U}
Rests(T, rest) == \A t \in DOMAIN T : rest[t] \subseteq Int /\ IsFiniteSet(rest[t])

\* The pieces left of the targets are bodies, and finitely many.
LEMMA CarvedIs ==
  ASSUME NEW T \in Seq(Body), NEW U \in SUBSET DOMAIN T, NEW rest, Rests(T, rest)
  PROVE  /\ IsFiniteSet(Carved(T, U, rest)) /\ Carved(T, U, rest) \subseteq Int \X Body
         /\ \A p \in Carved(T, U, rest) : p[1] \in U /\ p[2].origin = T[p[1]].origin
         /\ \A t \in U : rest[t] # {} => T[t].origin \in {p[2].origin : p \in Carved(T, U, rest)}
<1>1. DOMAIN T \subseteq Int /\ IsFiniteSet(DOMAIN T) /\ \A t \in DOMAIN T : T[t] \in Body
  BY SeqOfBodies
<1>2. \A t \in DOMAIN T : T[t].origin \in [feature : Int, member : Int, instance : Int]
  BY <1>1 DEF Body
<1>3. ASSUME NEW t \in U
      PROVE  /\ IsFiniteSet(Pieces(rest[t])) /\ Pieces(rest[t]) \subseteq Interval
             /\ rest[t] # {} => Pieces(rest[t]) # {}
  <2>1. rest[t] \subseteq Int /\ IsFiniteSet(rest[t])
    BY DEF Rests
  <2>2. IsFiniteSet(Pieces(rest[t]))
    BY <2>1, PiecesAre
  <2>3. Pieces(rest[t]) \subseteq Interval
    BY <2>1, PiecesAre
  <2>4. rest[t] # {} => Pieces(rest[t]) # {}
    BY <2>1, PiecesAre
  <2> QED BY <2>2, <2>3, <2>4
<1>4. \A t \in U : /\ IsFiniteSet(Bodies(T[t].origin, Pieces(rest[t])))
                  /\ Bodies(T[t].origin, Pieces(rest[t])) \subseteq Body
  <2>1. ASSUME NEW t \in U
        PROVE  /\ IsFiniteSet(Bodies(T[t].origin, Pieces(rest[t])))
               /\ Bodies(T[t].origin, Pieces(rest[t])) \subseteq Body
    <3> DEFINE Q == Pieces(rest[t])
               f == [I \in Q |-> [origin |-> T[t].origin, cells |-> I]]
    <3>1. Bodies(T[t].origin, Q) = {f[I] : I \in DOMAIN f} /\ DOMAIN f = Q
      BY DEF Bodies
    <3>2. IsFiniteSet(Bodies(T[t].origin, Q))
      <4>1. IsFiniteSet(Q)
        BY <1>3
      <4> HIDE DEF Q, f
      <4> QED BY <3>1, <4>1, ImageIsFinite
    <3>3. ASSUME NEW I \in Q PROVE [origin |-> T[t].origin, cells |-> I] \in Body
      <4>1. T[t].origin \in [feature : Int, member : Int, instance : Int] /\ I \in Interval
        BY <1>2, <1>3
      <4> QED BY <4>1 DEF Body
    <3>4. Bodies(T[t].origin, Q) \subseteq Body
      BY <3>3 DEF Bodies
    <3> QED BY <3>2, <3>4
  <2> QED BY <2>1
<1> DEFINE f == [t \in U |-> {t} \X Bodies(T[t].origin, Pieces(rest[t]))]
           C == {f[t] : t \in DOMAIN f}
<1>5. Carved(T, U, rest) = UNION C /\ DOMAIN f = U
  BY DEF Carved
<1>6. IsFiniteSet(Carved(T, U, rest))
  <2>1. IsFiniteSet(U)
    BY <1>1, FS_Subset
  <2>2. IsFiniteSet(C)
    <3> HIDE DEF f
    <3> QED BY <1>5, <2>1, ImageIsFinite
  <2>3. ASSUME NEW t \in U PROVE IsFiniteSet(f[t])
    <3>1. IsFiniteSet({t})
      BY FS_Singleton
    <3>2. IsFiniteSet(Bodies(T[t].origin, Pieces(rest[t])))
      BY <1>4
    <3>3. IsFiniteSet({t} \X Bodies(T[t].origin, Pieces(rest[t])))
      BY <3>1, <3>2, FS_Product
    <3> QED BY <3>3
  <2>4. \A c \in C : IsFiniteSet(c)
    BY <2>3
  <2> HIDE DEF C, f
  <2> QED BY <1>5, <2>2, <2>4, FS_UNION
<1>7. ASSUME NEW p \in Carved(T, U, rest)
      PROVE  p \in Int \X Body /\ p[1] \in U /\ p[2].origin = T[p[1]].origin
  <2>1. PICK t \in U : p \in {t} \X Bodies(T[t].origin, Pieces(rest[t]))
    BY DEF Carved
  <2>2. p = <<p[1], p[2]>> /\ p[1] = t /\ p[2] \in Bodies(T[t].origin, Pieces(rest[t]))
    BY <2>1
  <2>3. t \in Int /\ p[2] \in Body
    BY <1>1, <1>4, <2>2
  <2>4. p[2].origin = T[t].origin
    BY <2>2 DEF Bodies
  <2> QED BY <2>2, <2>3, <2>4
<1>8. ASSUME NEW t \in U, rest[t] # {} PROVE \E p \in Carved(T, U, rest) : p[2].origin = T[t].origin
  <2>0. Pieces(rest[t]) # {}
    BY <1>3, <1>8
  <2>1. PICK I \in Pieces(rest[t]) : TRUE
    BY <2>0
  <2> DEFINE b == [origin |-> T[t].origin, cells |-> I]
  <2>2. <<t, b>> \in {t} \X Bodies(T[t].origin, Pieces(rest[t]))
    BY DEF Bodies
  <2>3. <<t, b>> \in Carved(T, U, rest)
    BY <2>2 DEF Carved
  <2> QED BY <2>3
<1>9. \A t \in U : rest[t] # {} => T[t].origin \in {p[2].origin : p \in Carved(T, U, rest)}
  BY <1>8
<1> QED BY <1>6, <1>7, <1>9

OriginsAt(T, A) == {T[t].origin : t \in A}
\* What carving made of the targets U of T, when rest is what is left of each.
CarvedTo(res, T, U, rest) ==
  /\ U \in SUBSET DOMAIN T /\ Rests(T, rest)
  /\ res.code = "OK" /\ res.merged = {}
  /\ res.bodies = InOrder(Carved(T, U, rest), Before)
  /\ res.untouched = DOMAIN T \ U
  /\ res.removed = OriginsAt(T, {u \in U : rest[u] = {}})

\* Carving loses no target without an account of it.
LEMMA CarveAccounts ==
  ASSUME NEW T \in Seq(Body), NEW U, NEW rest, NEW res, CarvedTo(res, T, U, rest)
  PROVE  Accounts(res, T)
<1> DEFINE S == Carved(T, U, rest)
           s == InOrder(S, Before)
<1>0. /\ U \in SUBSET DOMAIN T /\ Rests(T, rest) /\ res.bodies = InOrder(Carved(T, U, rest), Before)
      /\ res.untouched = DOMAIN T \ U
      /\ res.removed = {T[t].origin : t \in {u \in U : rest[u] = {}}}
  BY DEF CarvedTo, OriginsAt
<1>1. /\ IsFiniteSet(S) /\ S \subseteq Int \X Body
      /\ \A p \in S : p[1] \in U /\ p[2].origin = T[p[1]].origin
      /\ \A t \in U : rest[t] # {} => T[t].origin \in {p[2].origin : p \in S}
  BY <1>0, CarvedIs
<1> HIDE DEF S
<1>2. s \in Seq(Body) /\ DOMAIN s = 1 .. Cardinality(S)
  BY <1>1, InOrderIs
<1>3. PICK at : Lists(at, s, S)
  BY <1>1, InOrderIs
<1>4. /\ \A k \in DOMAIN s : at[k] \in S /\ s[k] = at[k][2]
      /\ \A p \in S : \E k \in DOMAIN s : at[k] = p
  BY <1>2, <1>3 DEF Lists, OneToOne
<1> HIDE DEF s
<1>5. Origins(s) \subseteq Origins(T)
  BY <1>0, <1>1, <1>4 DEF Origins
<1>6. res.removed \subseteq Origins(T)
  BY <1>0 DEF Origins
<1>7. ASSUME NEW t \in U PROVE T[t].origin \in Origins(s) \cup res.removed
  <2>1. CASE rest[t] = {}
    BY <1>0, <2>1
  <2>2. CASE rest[t] # {}
    <3>1. PICK p \in S : p[2].origin = T[t].origin
      BY <1>1, <2>2
    <3>2. PICK k \in DOMAIN s : at[k] = p
      BY <1>4
    <3>3. s[k].origin = T[t].origin
      BY <1>4, <3>1, <3>2
    <3> QED BY <3>3 DEF Origins
  <2> QED BY <2>1, <2>2
<1>8. res.bodies = s
  BY <1>0 DEF s, S
<1> QED BY <1>0, <1>2, <1>5, <1>6, <1>7, <1>8 DEF Accounts

CutAt(T, K) == {t \in DOMAIN T : T[t].cells \cap Cells(K) # {}}
CutRest(T, K) == [t \in DOMAIN T |-> T[t].cells \ Cells(K)]

\* A cut carves the targets its tools meet.
LEMMA CutIs ==
  ASSUME NEW T \in Seq(Body), NEW K \in Seq(Body), Cells(T) \cap Cells(K) # {}
  PROVE  CarvedTo(Cut(T, K), T, CutAt(T, K), CutRest(T, K))
<1> DEFINE U == {t \in DOMAIN T : T[t].cells \cap Cells(K) # {}}
           rest == [t \in DOMAIN T |-> T[t].cells \ Cells(K)]
           res == Cut(T, K)
<1>2. res = [code |-> "OK",
             bodies |-> InOrder(UNION {{t} \X Bodies(T[t].origin, Pieces(T[t].cells \ Cells(K))) :
                                         t \in U}, Before),
             untouched |-> {t \in DOMAIN T : ~ (T[t].cells \cap Cells(K) # {})},
             removed |-> {T[t].origin : t \in {u \in DOMAIN T : /\ T[u].cells \cap Cells(K) # {}
                                                           /\ T[u].cells \ Cells(K) = {}}},
             merged |-> {}]
  BY Zenon DEF Cut, Carve
<1>3. UNION {{t} \X Bodies(T[t].origin, Pieces(T[t].cells \ Cells(K))) : t \in U} = Carved(T, U, rest)
  <2>1. \A t \in U : rest[t] = T[t].cells \ Cells(K)
    OBVIOUS
  <2> HIDE DEF rest, U
  <2> QED BY <2>1 DEF Carved
<1>4. res.bodies = InOrder(Carved(T, U, rest), Before)
  <2>1. res.bodies = InOrder(UNION {{t} \X Bodies(T[t].origin, Pieces(T[t].cells \ Cells(K))) :
                                         t \in U}, Before)
    BY <1>2
  <2> HIDE DEF U, res
  <2> QED BY <1>3, <2>1
<1>5. res.untouched = DOMAIN T \ U
  BY <1>2
<1>6. res.removed = {T[t].origin : t \in {u \in U : rest[u] = {}}}
  <2>1. res.removed = {T[t].origin : t \in {u \in DOMAIN T : /\ T[u].cells \cap Cells(K) # {}
                                                           /\ T[u].cells \ Cells(K) = {}}}
    BY <1>2
  <2>2. {u \in DOMAIN T : T[u].cells \cap Cells(K) # {} /\ T[u].cells \ Cells(K) = {}}
          = {u \in U : rest[u] = {}}
    OBVIOUS
  <2> HIDE DEF res, U, rest
  <2> QED BY <2>1, <2>2
<1>7. Rests(T, rest)
  <2>1. ASSUME NEW t \in DOMAIN T PROVE rest[t] \subseteq Int /\ IsFiniteSet(rest[t])
    <3>1. T[t].cells \subseteq Cells(T) /\ Cells(T) \subseteq Int /\ IsFiniteSet(Cells(T))
      BY SeqOfBodies
    <3>2. rest[t] \in SUBSET Cells(T)
      BY <3>1
    <3> QED BY <3>1, <3>2, FS_Subset
  <2> QED BY <2>1 DEF Rests
<1>8. U \in SUBSET DOMAIN T
  OBVIOUS
<1>9. res.code = "OK" /\ res.merged = {}
  BY <1>2
<1> HIDE DEF U, rest, res
<1>10. CarvedTo(res, T, U, rest)
  BY <1>4, <1>5, <1>6, <1>7, <1>8, <1>9 DEF CarvedTo, OriginsAt
<1> QED BY <1>10 DEF res, U, rest, CutAt, CutRest

\* So a cut accounts for its targets.
LEMMA CutAccounts ==
  ASSUME NEW T \in Seq(Body), NEW K \in Seq(Body), Cut(T, K).code = "OK"
  PROVE  Accounts(Cut(T, K), T)
<1>1. Cells(T) \cap Cells(K) # {}
  BY DEF Cut, NoResult
<1> QED BY <1>1, CutIs, CarveAccounts

IntersectRest(T, K) == [t \in DOMAIN T |-> T[t].cells \cap Cells(K)]

\* An intersection carves every target.
LEMMA IntersectIs ==
  ASSUME NEW T \in Seq(Body), NEW K \in Seq(Body), Cells(T) \cap Cells(K) # {}
  PROVE  CarvedTo(Intersect(T, K), T, DOMAIN T, IntersectRest(T, K))
<1> DEFINE U == DOMAIN T
           rest == [t \in DOMAIN T |-> T[t].cells \cap Cells(K)]
           res == Intersect(T, K)
<1>2. res = [code |-> "OK",
             bodies |-> InOrder(UNION {{t} \X Bodies(T[t].origin, Pieces(T[t].cells \cap Cells(K))) :
                                         t \in {u \in U : TRUE}}, Before),
             untouched |-> {t \in DOMAIN T : ~ TRUE},
             removed |-> {T[t].origin : t \in {u \in DOMAIN T : TRUE /\ T[u].cells \cap Cells(K) = {}}},
             merged |-> {}]
  BY Zenon DEF Intersect, Carve
<1>3. UNION {{t} \X Bodies(T[t].origin, Pieces(T[t].cells \cap Cells(K))) : t \in U} = Carved(T, U, rest)
  <2>1. \A t \in U : rest[t] = T[t].cells \cap Cells(K)
    OBVIOUS
  <2> HIDE DEF rest, U
  <2> QED BY <2>1 DEF Carved
<1>4. res.bodies = InOrder(Carved(T, U, rest), Before)
  <2>1. {u \in U : TRUE} = U
    OBVIOUS
  <2>2. res.bodies = InOrder(UNION {{t} \X Bodies(T[t].origin, Pieces(T[t].cells \cap Cells(K))) :
                                         t \in {u \in U : TRUE}}, Before)
    BY <1>2
  <2> HIDE DEF U, res
  <2> QED BY <1>3, <2>1, <2>2
<1>5. res.untouched = DOMAIN T \ U
  BY <1>2
<1>6. res.removed = {T[t].origin : t \in {u \in U : rest[u] = {}}}
  <2>1. res.removed = {T[t].origin : t \in {u \in DOMAIN T : TRUE /\ T[u].cells \cap Cells(K) = {}}}
    BY <1>2
  <2>2. {u \in DOMAIN T : TRUE /\ T[u].cells \cap Cells(K) = {}} = {u \in U : rest[u] = {}}
    OBVIOUS
  <2> HIDE DEF res, U, rest
  <2> QED BY <2>1, <2>2
<1>7. Rests(T, rest)
  <2>1. ASSUME NEW t \in DOMAIN T PROVE rest[t] \subseteq Int /\ IsFiniteSet(rest[t])
    <3>1. T[t].cells \subseteq Cells(T) /\ Cells(T) \subseteq Int /\ IsFiniteSet(Cells(T))
      BY SeqOfBodies
    <3>2. rest[t] \in SUBSET Cells(T)
      BY <3>1
    <3> QED BY <3>1, <3>2, FS_Subset
  <2> QED BY <2>1 DEF Rests
<1>8. U \in SUBSET DOMAIN T
  OBVIOUS
<1>9. res.code = "OK" /\ res.merged = {}
  BY <1>2
<1> HIDE DEF U, rest, res
<1>10. CarvedTo(res, T, U, rest)
  BY <1>4, <1>5, <1>6, <1>7, <1>8, <1>9 DEF CarvedTo, OriginsAt
<1> QED BY <1>10 DEF res, U, rest, IntersectRest

\* So an intersection accounts for its targets.
LEMMA IntersectAccounts ==
  ASSUME NEW T \in Seq(Body), NEW K \in Seq(Body), Intersect(T, K).code = "OK"
  PROVE  Accounts(Intersect(T, K), T)
<1>1. Cells(T) \cap Cells(K) # {}
  BY DEF Intersect, NoResult
<1> QED BY <1>1, IntersectIs, CarveAccounts

\* Every operation that succeeds accounts for its targets.
LEMMA ApplyOpAccounts ==
  ASSUME NEW T \in Seq(Body), NEW K \in Seq(Body), NEW op \in BodyOps, ApplyOp(op, T, K).code = "OK"
  PROVE  Accounts(ApplyOp(op, T, K), T)
<1> DEFINE raw == CASE op = "join" -> Join(T, K)
                    [] op = "cut" -> Cut(T, K)
                    [] op = "intersect" -> Intersect(T, K)
           res == ApplyOp(op, T, K)
<1>1. res = RemovedNotCarried(raw, T)
  BY DEF ApplyOp, NoResult
<1>2. raw \in {Join(T, K), Cut(T, K), Intersect(T, K)}
  BY DEF BodyOps
<1>3. DOMAIN raw = {"code", "bodies", "untouched", "removed", "merged"}
  <2>1. DOMAIN Join(T, K) = {"code", "bodies", "untouched", "removed", "merged"}
    BY DEF Join, NoResult
  <2>2. DOMAIN Cut(T, K) = {"code", "bodies", "untouched", "removed", "merged"}
    BY DEF Cut, Carve, NoResult
  <2>3. DOMAIN Intersect(T, K) = {"code", "bodies", "untouched", "removed", "merged"}
    BY DEF Intersect, Carve, NoResult
  <2> QED BY <1>2, <2>1, <2>2, <2>3
<1> HIDE DEF raw
<1>4. /\ res.code = raw.code /\ res.bodies = raw.bodies /\ res.untouched = raw.untouched
      /\ res.removed = raw.removed \ (Origins(raw.bodies) \cup {T[t].origin : t \in raw.untouched})
  BY <1>1, <1>3 DEF RemovedNotCarried
<1>5. Accounts(raw, T)
  BY <1>2, <1>4, JoinAccounts, CutAccounts, IntersectAccounts
<1> HIDE DEF res
<1> QED BY <1>4, <1>5 DEF Accounts, res

(***************************************************************************)
(* What an operation left alone is what it did not act on.                 *)
(***************************************************************************)

\* A target is in a united component just when another operand reaches it.
LEMMA JoinTouches ==
  ASSUME NEW T \in Seq(Body), NEW K \in Seq(Body), Join(T, K).code = "OK"
  PROVE  Join(T, K).untouched = DOMAIN T \ Acted("join", T, DOMAIN T, Cells(K))
<1> DEFINE all == T \o K
           S == Cells(all)
           united == {P \in Pieces(S) : Cardinality(Component(P, all)) > 1}
           kept == {t \in DOMAIN T : \A P \in united : t \notin Component(P, T)}
           rest(t) == Cells(K) \cup UNION {T[j].cells : j \in DOMAIN T \ {t}}
<1>1. Join(T, K).untouched = kept
  BY DEF Join, NoResult
<1>2. /\ all \in Seq(Body) /\ DOMAIN T = 1 .. Len(T) /\ Len(T) \in Nat
      /\ DOMAIN K = 1 .. Len(K) /\ Len(K) \in Nat
      /\ DOMAIN all = 1 .. Len(T) + Len(K)
      /\ \A t \in DOMAIN T : t \in DOMAIN all /\ all[t] = T[t]
      /\ \A i \in DOMAIN all : i \notin DOMAIN T => i - Len(T) \in DOMAIN K /\ all[i] = K[i - Len(T)]
  BY ConcatIs
<1>3. all = T \o K
  OBVIOUS
<1>4. \A k \in DOMAIN K : Len(T) + k \in DOMAIN all \ DOMAIN T /\ all[Len(T) + k] = K[k]
  <2> HIDE DEF all
  <2>1. ASSUME NEW k \in DOMAIN K PROVE Len(T) + k \in DOMAIN all \ DOMAIN T /\ all[Len(T) + k] = K[k]
    <3>1. Len(T) + k \in DOMAIN all /\ Len(T) + k \notin DOMAIN T /\ (Len(T) + k) - Len(T) = k
      BY <1>2
    <3> QED BY <1>2, <3>1
  <2> QED BY <2>1
<1> HIDE DEF all
<1>5. /\ S \subseteq Int /\ IsFiniteSet(S) /\ IsFiniteSet(DOMAIN all)
      /\ \A i \in DOMAIN all : all[i] \in Body /\ all[i].cells \subseteq S
  BY <1>2, SeqOfBodies
<1>6. \A i \in DOMAIN all : all[i].cells \in Interval
  BY <1>5 DEF Body
<1>7. ASSUME NEW t \in DOMAIN T, NEW c
      PROVE  c \in rest(t) <=> \E i \in DOMAIN all : i # t /\ c \in all[i].cells
  <2>1. ASSUME NEW k \in DOMAIN K, c \in K[k].cells PROVE \E i \in DOMAIN all : i # t /\ c \in all[i].cells
    BY <1>4, <2>1
  <2>2. ASSUME NEW j \in DOMAIN T \ {t}, c \in T[j].cells
        PROVE  \E i \in DOMAIN all : i # t /\ c \in all[i].cells
    BY <1>2, <2>2
  <2>3. ASSUME NEW i \in DOMAIN all, i # t, c \in all[i].cells PROVE c \in rest(t)
    <3>1. CASE i \in DOMAIN T
      BY <1>2, <2>3, <3>1
    <3>2. CASE i \notin DOMAIN T
      BY <1>2, <2>3, <3>2 DEF Cells
    <3> QED BY <3>1, <3>2
  <2> QED BY <2>1, <2>2, <2>3 DEF Cells
<1> HIDE DEF rest
<1>8. \A c \in S : \E i \in DOMAIN all : c \in all[i].cells
  BY DEF Cells
<1>9. /\ \A P \in Pieces(S) : P \in Interval /\ P \subseteq S
      /\ \A c \in S : \E P \in Pieces(S) : c \in P
  BY <1>5, PiecesAre
<1>10. ASSUME NEW P \in Pieces(S), NEW J \in Interval, J \subseteq S, Near(J, P) \/ J \cap P # {}
       PROVE  J \subseteq P
  <2> HIDE DEF S
  <2> QED BY <1>5, <1>10, PieceHolds
<1>11. \A P : IsFiniteSet(Component(P, all))
  <2>1. \A P : Component(P, all) \in SUBSET DOMAIN all
    BY DEF Component
  <2> QED BY <1>5, <2>1, FS_Subset
<1>12. \A P \in united : P \in Pieces(S) /\ Cardinality(Component(P, all)) > 1
  OBVIOUS
<1>13. \A P \in Pieces(S) : Cardinality(Component(P, all)) > 1 => P \in united
  OBVIOUS
<1> HIDE DEF S, united
<1>14. ASSUME NEW t \in DOMAIN T, Near(T[t].cells, rest(t))
       PROVE  \E P \in united : t \in Component(P, T)
  <2>1. PICK x \in T[t].cells, y \in rest(t) : x - y \in -1 .. 1
    BY <1>14 DEF Near
  <2>2. PICK i \in DOMAIN all : i # t /\ y \in all[i].cells
    BY <1>7
  <2>3. t \in DOMAIN all /\ all[t] = T[t]
    BY <1>2
  <2>4. x \in S /\ x \in Int /\ y \in Int
    BY <1>5, <2>1, <2>2, <2>3
  <2>5. PICK P \in Pieces(S) : x \in P
    BY <1>9, <2>4
  <2>6. all[t].cells \subseteq P
    <3>1. all[t].cells \cap P # {}
      BY <2>1, <2>3, <2>5
    <3> QED BY <1>5, <1>6, <1>10, <2>3, <3>1
  <2>7. all[i].cells \subseteq P
    <3>1. y - x \in -1 .. 1
      BY <2>1, <2>4
    <3>2. Near(all[i].cells, P)
      BY <2>2, <2>5, <3>1 DEF Near
    <3> QED BY <1>5, <1>6, <1>10, <3>2
  <2>8. {t, i} \subseteq Component(P, all)
    BY <2>2, <2>3, <2>6, <2>7 DEF Component
  <2>9. Cardinality(Component(P, all)) > 1
    <3>1. IsFiniteSet({t, i}) /\ Cardinality({t, i}) = 2
      <4>1. IsFiniteSet({t}) /\ Cardinality({t}) = 1
        BY FS_Singleton
      <4>2. {t, i} = {t} \cup {i} /\ i \notin {t}
        BY <2>2
      <4>3. IsFiniteSet({t} \cup {i}) /\ Cardinality({t} \cup {i}) = Cardinality({t}) + 1
        BY <4>1, <4>2, FS_AddElement
      <4> QED BY <4>1, <4>2, <4>3
    <3>2. Cardinality({t, i}) <= Cardinality(Component(P, all))
      BY <1>11, <2>8, FS_Subset
    <3>3. Cardinality(Component(P, all)) \in Nat
      BY <1>11, FS_CardinalityType
    <3> QED BY <3>1, <3>2, <3>3
  <2>10. t \in Component(P, T)
    BY <2>3, <2>6 DEF Component
  <2> QED BY <1>13, <2>9, <2>10
<1>15. ASSUME NEW t \in DOMAIN T, NEW P \in united, t \in Component(P, T)
       PROVE  Near(T[t].cells, rest(t))
  <2>1. t \in DOMAIN all /\ all[t] = T[t] /\ T[t].cells \subseteq P
    BY <1>2, <1>15 DEF Component
  <2>2. PICK i \in Component(P, all) : i # t
    <3>1. SUFFICES ASSUME \A i \in Component(P, all) : i = t PROVE FALSE
      OBVIOUS
    <3>2. Component(P, all) \subseteq {t}
      BY <3>1
    <3>3. IsFiniteSet({t}) /\ Cardinality({t}) = 1
      BY FS_Singleton
    <3>4. Cardinality(Component(P, all)) <= 1
      BY <3>2, <3>3, FS_Subset
    <3>5. Cardinality(Component(P, all)) \in Nat
      BY <1>11, FS_CardinalityType
    <3> QED BY <1>12, <3>4, <3>5
  <2>3. i \in DOMAIN all /\ all[i].cells \subseteq P
    BY DEF Component
  <2> DEFINE l == Low(T[t].cells)
             h == High(T[t].cells)
             y == Low(all[i].cells)
  <2>4. l \in Int /\ h \in Int /\ l <= h /\ T[t].cells = l .. h
    BY <1>6, <2>1, IntervalIs
  <2>5. y \in Int /\ y \in all[i].cells
    BY <1>6, <2>3, IntervalIs
  <2> HIDE DEF l, h, y
  <2>6. PICK a \in Int, b \in Int : P = a .. b
    <3>1. P \in Interval
      BY <1>9, <1>12
    <3> QED BY <3>1, IntervalIs
  <2>7. y \in rest(t)
    BY <1>7, <2>2, <2>3, <2>5
  <2>8. ASSUME NEW c \in P, c \notin l .. h PROVE c \in rest(t)
    <3>1. c \in S
      BY <1>9, <1>12
    <3>2. PICK j \in DOMAIN all : c \in all[j].cells
      BY <1>8, <3>1
    <3>3. j # t
      BY <2>1, <2>4, <2>8, <3>2
    <3> QED BY <1>7, <3>2, <3>3
  <2>9. CASE y < l
    <3>1. l - 1 \in P /\ l - 1 \notin l .. h
      BY <2>1, <2>3, <2>4, <2>5, <2>6, <2>9
    <3>2. l \in T[t].cells /\ l - (l - 1) \in -1 .. 1
      BY <2>4
    <3> QED BY <2>8, <3>1, <3>2 DEF Near
  <2>10. CASE y > h
    <3>1. h + 1 \in P /\ h + 1 \notin l .. h
      BY <2>1, <2>3, <2>4, <2>5, <2>6, <2>10
    <3>2. h \in T[t].cells /\ h - (h + 1) \in -1 .. 1
      BY <2>4
    <3> QED BY <2>8, <3>1, <3>2 DEF Near
  <2>11. CASE l <= y /\ y <= h
    <3>1. y \in T[t].cells /\ y - y \in -1 .. 1
      BY <2>4, <2>5, <2>11
    <3> QED BY <2>7, <3>1 DEF Near
  <2> QED BY <2>4, <2>5, <2>9, <2>10, <2>11
<1>16. kept = {t \in DOMAIN T : ~ Near(T[t].cells, rest(t))}
  <2> HIDE DEF kept
  <2>1. \A t \in DOMAIN T : t \in kept <=> \A P \in united : t \notin Component(P, T)
    BY DEF kept
  <2>2. kept \subseteq DOMAIN T
    BY DEF kept
  <2> QED BY <1>14, <1>15, <2>1, <2>2
<1>17. Acted("join", T, DOMAIN T, Cells(K)) = {t \in DOMAIN T : Near(T[t].cells, rest(t))}
  BY DEF Acted, rest
<1> HIDE DEF kept
<1> QED BY <1>1, <1>16, <1>17

\* Every operation that succeeds leaves alone exactly the targets it does not act on.
LEMMA ApplyOpTouches ==
  ASSUME NEW T \in Seq(Body), NEW K \in Seq(Body), NEW op \in BodyOps, ApplyOp(op, T, K).code = "OK"
  PROVE  ApplyOp(op, T, K).untouched = DOMAIN T \ Acted(op, T, DOMAIN T, Cells(K))
<1> DEFINE raw == CASE op = "join" -> Join(T, K)
                    [] op = "cut" -> Cut(T, K)
                    [] op = "intersect" -> Intersect(T, K)
           res == ApplyOp(op, T, K)
<1>1. res = RemovedNotCarried(raw, T)
  BY DEF ApplyOp, NoResult
<1>2. op \in {"join", "cut", "intersect"}
  BY DEF BodyOps
<1>3. /\ op = "join" => raw = Join(T, K)
      /\ op = "cut" => raw = Cut(T, K)
      /\ op = "intersect" => raw = Intersect(T, K)
  OBVIOUS
<1>4. DOMAIN raw = {"code", "bodies", "untouched", "removed", "merged"}
  <2>1. DOMAIN Join(T, K) = {"code", "bodies", "untouched", "removed", "merged"}
    BY DEF Join, NoResult
  <2>2. DOMAIN Cut(T, K) = {"code", "bodies", "untouched", "removed", "merged"}
    BY DEF Cut, Carve, NoResult
  <2>3. DOMAIN Intersect(T, K) = {"code", "bodies", "untouched", "removed", "merged"}
    BY DEF Intersect, Carve, NoResult
  <2> HIDE DEF raw
  <2> QED BY <1>2, <1>3, <2>1, <2>2, <2>3
<1> HIDE DEF raw
<1>5. res.code = raw.code /\ res.untouched = raw.untouched
  BY <1>1, <1>4 DEF RemovedNotCarried
<1>6. raw.code = "OK"
  BY <1>5
<1> HIDE DEF res
<1>7. CASE op = "join"
  <2>1. raw = Join(T, K) /\ Join(T, K).code = "OK"
    BY <1>3, <1>6, <1>7
  <2>2. Join(T, K).untouched = DOMAIN T \ Acted("join", T, DOMAIN T, Cells(K))
    BY <2>1, JoinTouches
  <2>3. res.untouched = DOMAIN T \ Acted(op, T, DOMAIN T, Cells(K))
    BY <1>5, <1>7, <2>1, <2>2
  <2> QED BY <2>3 DEF res
<1>8. CASE op = "cut"
  <2>0. Cut(T, K).code = "OK"
    BY <1>3, <1>6, <1>8
  <2>1. Cells(T) \cap Cells(K) # {}
    BY <2>0 DEF Cut, NoResult
  <2>2. CarvedTo(Cut(T, K), T, CutAt(T, K), CutRest(T, K))
    BY <2>1, CutIs
  <2>3. Cut(T, K).untouched = DOMAIN T \ CutAt(T, K)
    BY <2>2 DEF CarvedTo
  <2>4. Acted("cut", T, DOMAIN T, Cells(K)) = CutAt(T, K)
    BY DEF Acted, CutAt
  <2>5. res.untouched = DOMAIN T \ Acted(op, T, DOMAIN T, Cells(K))
    BY <1>3, <1>5, <1>8, <2>3, <2>4
  <2> QED BY <2>5 DEF res
<1>9. CASE op = "intersect"
  <2>0. Intersect(T, K).code = "OK"
    BY <1>3, <1>6, <1>9
  <2>1. Cells(T) \cap Cells(K) # {}
    BY <2>0 DEF Intersect, NoResult
  <2>2. CarvedTo(Intersect(T, K), T, DOMAIN T, IntersectRest(T, K))
    BY <2>1, IntersectIs
  <2>3. Intersect(T, K).untouched = DOMAIN T \ DOMAIN T
    BY <2>2 DEF CarvedTo
  <2>4. Acted("intersect", T, DOMAIN T, Cells(K)) = DOMAIN T
    BY DEF Acted
  <2>5. res.untouched = DOMAIN T \ Acted(op, T, DOMAIN T, Cells(K))
    BY <1>3, <1>5, <1>9, <2>3, <2>4
  <2> QED BY <2>5 DEF res
<1> QED BY <1>2, <1>7, <1>8, <1>9

PlacesOf(at, S) == {at[t] : t \in S}

\* The positions of the picked targets that are acted on, seen from the part.
LEMMA ActedAt ==
  ASSUME NEW bs \in Seq(Body), NEW I \in SUBSET DOMAIN bs, NEW op \in BodyOps, NEW k, NEW at,
         Picks(at, bs, I), NEW T, T = Pick(bs, I)
  PROVE  PlacesOf(at, DOMAIN at \ (DOMAIN T \ Acted(op, T, DOMAIN T, k))) = Acted(op, bs, I, k)
<1> DEFINE n == Cardinality(I)
           others(t) == UNION {T[j].cells : j \in DOMAIN T \ {t}}
           rest(i) == UNION {bs[j].cells : j \in I \ {i}}
<1>2. /\ DOMAIN at = 1 .. n /\ DOMAIN T = 1 .. n
      /\ \A t \in 1 .. n : at[t] \in I /\ T[t] = bs[at[t]]
      /\ \A t, u \in 1 .. n : at[t] = at[u] => t = u
      /\ \A i \in I : \E t \in 1 .. n : at[t] = i
  BY DEF Picks, OneToOne
<1> HIDE DEF n
<1>3. ASSUME NEW t \in 1 .. n PROVE others(t) = rest(at[t])
  <2> DEFINE A == {T[j].cells : j \in DOMAIN T \ {t}}
             B == {bs[j].cells : j \in I \ {at[t]}}
  <2>1. ASSUME NEW j \in 1 .. n, j # t PROVE T[j].cells \in B
    <3>1. at[j] \in I \ {at[t]} /\ T[j] = bs[at[j]]
      BY <1>2, <2>1
    <3> QED BY <3>1
  <2>2. ASSUME NEW i \in I, i # at[t] PROVE bs[i].cells \in A
    <3>1. PICK j \in 1 .. n : at[j] = i
      BY <1>2
    <3>2. j \in DOMAIN T \ {t} /\ T[j] = bs[i]
      BY <1>2, <2>2, <3>1
    <3> QED BY <3>2
  <2>3. A \subseteq B
    BY <1>2, <2>1
  <2>4. B \subseteq A
    BY <2>2
  <2>5. A = B
    BY <2>3, <2>4
  <2> HIDE DEF A, B
  <2> QED BY <2>5 DEF A, B
<1>4. ASSUME NEW t \in 1 .. n PROVE t \in Acted(op, T, DOMAIN T, k) <=> at[t] \in Acted(op, bs, I, k)
  <2>1. t \in Acted(op, T, DOMAIN T, k) <=>
          CASE op = "join" -> Near(T[t].cells, k \cup others(t))
            [] op = "cut" -> T[t].cells \cap k # {}
            [] OTHER -> TRUE
    BY <1>2 DEF Acted
  <2>2. at[t] \in Acted(op, bs, I, k) <=>
          CASE op = "join" -> Near(bs[at[t]].cells, k \cup rest(at[t]))
            [] op = "cut" -> bs[at[t]].cells \cap k # {}
            [] OTHER -> TRUE
    BY <1>2 DEF Acted
  <2> HIDE DEF others, rest
  <2> QED BY <1>2, <1>3, <2>1, <2>2
<1>5. Acted(op, bs, I, k) \subseteq I /\ Acted(op, T, DOMAIN T, k) \subseteq DOMAIN T
  BY DEF Acted
<1>6. {at[t] : t \in DOMAIN at \ (DOMAIN T \ Acted(op, T, DOMAIN T, k))} = Acted(op, bs, I, k)
  BY <1>2, <1>4, <1>5
<1> QED BY <1>6 DEF PlacesOf

(***************************************************************************)
(* Committing a result: what is in the part after it, what is reported.    *)
(***************************************************************************)
Commits(done, bs, consumed, res) ==
  /\ done.bodies \in Seq(Body)
  /\ done.report = Reports(res.bodies, "modified")
  /\ Origins(done.bodies) \subseteq Origins(bs) /\ done.removed \subseteq Origins(bs)
  /\ done.removed \cap Origins(done.bodies) = {}
  /\ Origins(bs) \subseteq Origins(done.bodies) \cup done.removed \cup {bs[i].origin : i \in consumed}

\* Committing what accounts for its targets changes the part by what it says.
LEMMA CommitIs ==
  ASSUME NEW bs \in Seq(Body), NEW as, NEW I \in SUBSET DOMAIN bs, NEW consumed \in SUBSET DOMAIN bs,
         I \cap consumed = {}, NEW res, Accounts(res, Pick(bs, I))
  PROVE  Commits(CommitOp(bs, as, I, consumed, res), bs, consumed, res)
<1> DEFINE at == Sorted(I, <)
           T == Pick(bs, I)
           n == Cardinality(I)
           gone == {at[t] : t \in DOMAIN at \ res.untouched} \cup consumed
           S == DOMAIN bs \ gone
           left == Pick(bs, S) \o res.bodies
           done == CommitOp(bs, as, I, consumed, res)
<1>1. /\ done.bodies = left /\ done.report = Reports(res.bodies, "modified")
      /\ done.removed = res.removed \ Origins(left)
  BY DEF CommitOp, Listed, Removed
<1>2. Picks(at, bs, I)
  BY PickIs
<1>3. /\ DOMAIN at = 1 .. n /\ DOMAIN T = 1 .. n
      /\ \A t \in 1 .. n : at[t] \in I /\ T[t] = bs[at[t]]
      /\ \A t, u \in 1 .. n : at[t] = at[u] => t = u
  BY <1>2 DEF Picks, OneToOne
<1>4. T \in Seq(Body) /\ S \in SUBSET DOMAIN bs
  BY PickIs
<1>5. /\ res.bodies \in Seq(Body) /\ res.untouched \subseteq 1 .. n
      /\ Origins(res.bodies) \subseteq Origins(T) /\ res.removed \subseteq Origins(T)
      /\ \A t \in 1 .. n \ res.untouched :
           \/ T[t].origin \in Origins(res.bodies) \cup res.removed
           \/ \E u \in res.untouched : T[u].origin = T[t].origin
  BY <1>3 DEF Accounts
<1>6. Pick(bs, S) \in Seq(Body) /\ Origins(Pick(bs, S)) = {bs[i].origin : i \in S}
  BY <1>4, PickIs, OriginsOfPick
<1>7. left \in Seq(Body) /\ Origins(left) = {bs[i].origin : i \in S} \cup Origins(res.bodies)
  BY <1>5, <1>6, OriginsOfConcat
<1>8. Origins(T) \subseteq Origins(bs)
  <2>1. Origins(T) = {bs[i].origin : i \in I}
    BY OriginsOfPick
  <2> HIDE DEF T
  <2> QED BY <2>1 DEF Origins
<1> HIDE DEF at, T, n, left, done
<1>9. Origins(left) \subseteq Origins(bs)
  <2>1. {bs[i].origin : i \in S} \subseteq Origins(bs)
    BY DEF Origins
  <2> QED BY <1>5, <1>7, <1>8, <2>1
<1>10. ASSUME NEW i \in DOMAIN bs
       PROVE  bs[i].origin \in Origins(left) \cup done.removed \cup {bs[j].origin : j \in consumed}
  <2>1. CASE i \in S
    BY <1>7, <2>1
  <2>2. CASE i \in consumed
    BY <2>2
  <2>3. CASE i \notin S /\ i \notin consumed
    <3>1. PICK t \in 1 .. n \ res.untouched : i = at[t]
      BY <1>3, <2>3
    <3>2. T[t].origin = bs[i].origin
      BY <1>3, <3>1
    <3>3. CASE \E u \in res.untouched : T[u].origin = T[t].origin
      <4>1. PICK u \in res.untouched : T[u].origin = T[t].origin
        BY <3>3
      <4>2. u \in 1 .. n /\ at[u] \in I /\ T[u] = bs[at[u]]
        BY <1>3, <1>5
      <4>3. at[u] \in S
        BY <1>3, <1>5, <4>2
      <4> QED BY <1>7, <3>2, <4>1, <4>2, <4>3
    <3>4. CASE T[t].origin \in Origins(res.bodies) \cup res.removed
      BY <1>1, <1>7, <3>2, <3>4
    <3> QED BY <1>5, <3>3, <3>4
  <2> QED BY <2>1, <2>2, <2>3
<1>11. Origins(bs) \subseteq Origins(left) \cup done.removed \cup {bs[j].origin : j \in consumed}
  BY <1>10 DEF Origins
<1>12. done.removed \subseteq Origins(bs) /\ done.removed \cap Origins(left) = {}
  BY <1>1, <1>5, <1>8
<1>13. Commits(done, bs, consumed, res)
  BY <1>1, <1>7, <1>9, <1>11, <1>12 DEF Commits
<1> QED BY <1>13 DEF done

Kept(bs, as, I, consumed, res, J) == CommitOp(bs, as, I, consumed, res).bodies = Rest(bs, J) \o res.bodies

\* What a committed operation did not act on, and no tool it consumed, stays in the part.
LEMMA CommitKeeps ==
  ASSUME NEW bs \in Seq(Body), NEW as, NEW I \in SUBSET DOMAIN bs, NEW consumed \in SUBSET DOMAIN bs,
         NEW K \in Seq(Body), NEW op \in BodyOps, NEW T, T = Pick(bs, I),
         NEW res, res = ApplyOp(op, T, K), res.code = "OK",
         NEW J, J = Acted(op, bs, I, Cells(K)) \cup consumed
  PROVE  Kept(bs, as, I, consumed, res, J)
<1> DEFINE at == Sorted(I, <)
           done == CommitOp(bs, as, I, consumed, res)
<1>1. T \in Seq(Body) /\ Picks(at, bs, I)
  BY PickIs
<1>2. res.untouched = DOMAIN T \ Acted(op, T, DOMAIN T, Cells(K))
  BY <1>1, ApplyOpTouches
<1>3. done.bodies = Rest(bs, PlacesOf(at, DOMAIN at \ res.untouched) \cup consumed) \o res.bodies
  <2> DEFINE gone == {at[t] : t \in DOMAIN at \ res.untouched} \cup consumed
             left == Pick(bs, DOMAIN bs \ gone) \o res.bodies
             old == {a \in as : \E m \in res.merged : m[1] = a[1]}
  <2>1. done = [bodies |-> left, aliases |-> (as \ old) \cup res.merged,
                report |-> Listed(res), removed |-> Removed(res, left)]
    BY Zenon DEF CommitOp
  <2> HIDE DEF left, old, done
  <2>2. done.bodies = left
    BY <2>1
  <2> QED BY <2>2 DEF left, Rest, PlacesOf
<1> HIDE DEF at, done
<1>4. PlacesOf(at, DOMAIN at \ (DOMAIN T \ Acted(op, T, DOMAIN T, Cells(K)))) = Acted(op, bs, I, Cells(K))
  <2> DEFINE k == Cells(K)
  <2> HIDE DEF k
  <2>1. Picks(at, bs, I)
    BY <1>1
  <2>2. PlacesOf(at, DOMAIN at \ (DOMAIN T \ Acted(op, T, DOMAIN T, k))) = Acted(op, bs, I, k)
    BY <2>1, ActedAt
  <2> QED BY <2>2 DEF k
<1>5. done.bodies = Rest(bs, J) \o res.bodies
  BY <1>2, <1>3, <1>4
<1> QED BY <1>5 DEF done, Kept

(***************************************************************************)
(* What a feature that succeeds hands back: bodies that are bodies, the     *)
(* origins it removed, and the bodies it lists.                             *)
(***************************************************************************)
IsSeed(s) == s.op \in BodyOps \cup {"new_body", "hole"} /\ s.bodies \in Seq(Body)
Tidy(out) == /\ out.bodies \in Seq(Body) /\ out.regions \in Seq(Interval)
             /\ out.seed = NoSeed \/ IsSeed(out.seed)

ToolOrigins == IF F.type # "boolean" \/ F.keepTools THEN {}
               ELSE Origins(Pick(bodies, Resolve(bodies, F.tools)))
RemovesRight(out) ==
  /\ out.removed \cap Origins(out.bodies) = {}
  /\ Origins(bodies) \subseteq Origins(out.bodies) \cup out.removed \cup ToolOrigins
  /\ \A o \in out.removed : o \in Origins(bodies) \/ (o.feature = next /\ F.type = "pattern")

Listings(out, b) == Cardinality({i \in DOMAIN out.report : out.report[i].body = b})
ListsRight(out) ==
  \A b : Count(out.bodies, b) = Count(Rest(bodies, ActedOn), b) + Listings(out, b)

Right(out) ==
  out.code = "OK" => /\ Tidy(out) /\ RemovesRight(out)
                     /\ F.type \notin {"pattern", "bodyPattern"} => ListsRight(out)

\* Nothing is listed when nothing changed.
LEMMA NothingListed ==
  ASSUME NEW out, bodies \in Seq(Body), out.bodies = bodies, out.report = <<>>, ActedOn = {}
  PROVE  ListsRight(out)
<1>1. \A b : {i \in DOMAIN out.report : out.report[i].body = b} = {}
  OBVIOUS
<1>2. \A b : Listings(out, b) = 0
  BY <1>1, FS_EmptySet DEF Listings
<1>3. \A b : Count(Rest(bodies, ActedOn), b) = Count(bodies, b)
  BY RestOfNone
<1>4. \A b : Count(bodies, b) \in Nat
  BY CountIs
<1> QED BY <1>2, <1>3, <1>4 DEF ListsRight

\* A report of bs lists each body as often as bs has it.
LEMMA ListingsAreCount ==
  ASSUME NEW out, NEW bs, NEW change, out.report = Reports(bs, change)
  PROVE  \A b : Listings(out, b) = Count(bs, b)
<1>1. \A b : {i \in DOMAIN out.report : out.report[i].body = b} = {i \in DOMAIN bs : bs[i] = b}
  BY DEF Reports
<1> QED BY <1>1 DEF Listings, Count

\* What hands the bodies back as they were is right, for a feature that acts on none.
LEMMA UnchangedRight ==
  ASSUME NEW code, bodies \in Seq(Body), code # "OK" \/ ActedOn = {}
  PROVE  Right(Unchanged(code))
<1> DEFINE out == Unchanged(code)
<1>1. /\ out.bodies = bodies /\ out.report = <<>> /\ out.regions = <<>> /\ out.seed = NoSeed
      /\ out.removed = {} /\ out.code = code
  BY DEF Unchanged
<1>2. <<>> \in Seq(Interval)
  OBVIOUS
<1> HIDE DEF out
<1>3. Tidy(out) /\ RemovesRight(out)
  BY <1>1, <1>2 DEF Tidy, RemovesRight
<1>4. out.code = "OK" => ListsRight(out)
  BY <1>1, NothingListed
<1> QED BY <1>3, <1>4 DEF Right, out

\* A feature that is neither a body operation nor a blend acts on no body.
LEMMA ActsOnNone ==
  ASSUME F.type \in {"sketch", "datum", "tag"} \/ (F.type = "sweep" /\ F.op = "new_body")
  PROVE  ActedOn = {}
BY DEF ActedOn

(***************************************************************************)
(* The features that are no patterns.                                      *)
(***************************************************************************)

\* A body operation, refused or committed, is right.
LEMMA BodyOpRight ==
  ASSUME bodies \in Seq(Body), NEW I \in SUBSET DOMAIN bodies, NEW K \in Seq(Body), NEW op \in BodyOps,
         NEW consumed \in SUBSET DOMAIN bodies, I \cap consumed = {},
         {bodies[i].origin : i \in consumed} \subseteq ToolOrigins,
         ActedOn = Acted(op, bodies, I, Cells(K)) \cup consumed,
         NEW seed, seed = NoSeed \/ IsSeed(seed), NEW stage
  PROVE  Right(BodyOpOn(I, K, op, consumed, seed, stage))
<1> DEFINE T == Pick(bodies, I)
           res == ApplyOp(op, T, K)
           done == CommitOp(bodies, aliases, I, consumed, res)
           code == IF res.code = "OK" /\ stage = "operation" THEN "KERNEL_REFUSED" ELSE res.code
           out == BodyOpOn(I, K, op, consumed, seed, stage)
           whole == [Unchanged("OK") EXCEPT !.seed = seed, !.bodies = done.bodies, !.aliases = done.aliases,
                                            !.report = done.report, !.removed = done.removed]
<1>1. out = IF code # "OK" THEN [Unchanged(code) EXCEPT !.seed = seed] ELSE whole
  BY DEF BodyOpOn
<1>2. SUFFICES ASSUME out.code = "OK"
               PROVE  Tidy(out) /\ RemovesRight(out) /\ ListsRight(out)
  BY DEF Right
<1>3. code = "OK"
  <2> HIDE DEF code, whole
  <2>1. code # "OK" => out.code = code
    BY <1>1 DEF Unchanged
  <2> QED BY <1>2, <2>1
<1>4. res.code = "OK"
  BY <1>3
<1>5. /\ out.bodies = done.bodies /\ out.report = done.report /\ out.removed = done.removed
      /\ out.seed = seed /\ out.regions = <<>>
  <2> HIDE DEF done, code
  <2> QED BY <1>1, <1>3 DEF Unchanged
<1>6. T \in Seq(Body)
  BY PickIs
<1> HIDE DEF code, out, whole
<1>7. Accounts(res, T)
  BY <1>4, <1>6, ApplyOpAccounts
<1>12. done.bodies = Rest(bodies, ActedOn) \o res.bodies
  <2> DEFINE J == Acted(op, bodies, I, Cells(K)) \cup consumed
  <2>1. ActedOn = J /\ done = CommitOp(bodies, aliases, I, consumed, res)
    OBVIOUS
  <2>2. J = Acted(op, bodies, I, Cells(K)) \cup consumed /\ T = Pick(bodies, I) /\ res = ApplyOp(op, T, K)
    OBVIOUS
  <2> HIDE DEF J, done, res, T
  <2>3. Kept(bodies, aliases, I, consumed, res, J)
    BY <1>4, <2>2, CommitKeeps
  <2> QED BY <2>1, <2>3 DEF Kept
<1> HIDE DEF res
<1>8. Commits(done, bodies, consumed, res)
  BY <1>7, CommitIs
<1> HIDE DEF done
<1>9. Tidy(out)
  <2>1. <<>> \in Seq(Interval)
    OBVIOUS
  <2> QED BY <1>5, <1>8, <2>1 DEF Tidy, Commits
<1>10. RemovesRight(out)
  BY <1>5, <1>8 DEF RemovesRight, Commits
<1>11. ListsRight(out)
  <2>1. res.bodies \in Seq(Body)
    BY <1>7 DEF Accounts
  <2>2. Rest(bodies, ActedOn) \in Seq(Body)
    BY RestIs
  <2>3. out.report = Reports(res.bodies, "modified")
    BY <1>5, <1>8 DEF Commits
  <2>4. \A b : Listings(out, b) = Count(res.bodies, b)
    BY <2>3, ListingsAreCount
  <2>5. \A b : Count(out.bodies, b) = Count(Rest(bodies, ActedOn), b) + Count(res.bodies, b)
    BY <1>5, <1>12, <2>1, <2>2, CountConcat
  <2> QED BY <2>4, <2>5 DEF ListsRight
<1> QED BY <1>9, <1>10, <1>11

\* Each feature that makes or changes no body is right.
LEMMA SketchRight ==
  ASSUME NEW stage, bodies \in Seq(Body), F.type = "sketch", AreIntervals(F.regions)
  PROVE  Right(Sketch(stage))
<1> DEFINE out == [Unchanged("OK") EXCEPT !.regions = F.regions]
<1>1. /\ out.bodies = bodies /\ out.report = <<>> /\ out.regions = F.regions
      /\ out.seed = NoSeed /\ out.removed = {}
  BY DEF Unchanged
<1>2. F.regions \in Seq(Interval)
  BY DEF AreIntervals, Interval
<1> HIDE DEF out
<1>3. Tidy(out) /\ RemovesRight(out) /\ ListsRight(out)
  BY <1>1, <1>2, ActsOnNone, NothingListed DEF Tidy, RemovesRight
<1>4. Right(out)
  BY <1>3 DEF Right
<1>5. Right(Unchanged("KERNEL_REFUSED"))
  BY UnchangedRight
<1> QED BY <1>4, <1>5 DEF Sketch, out

LEMMA DatumRight ==
  ASSUME NEW stage, bodies \in Seq(Body), F.type = "datum"
  PROVE  Right(Datum(stage))
<1> DEFINE out == [Unchanged("OK") EXCEPT !.datum = TRUE]
<1>1. /\ out.bodies = bodies /\ out.report = <<>> /\ out.regions = <<>>
      /\ out.seed = NoSeed /\ out.removed = {}
  BY DEF Unchanged
<1>2. <<>> \in Seq(Interval)
  OBVIOUS
<1> HIDE DEF out
<1>3. Tidy(out) /\ RemovesRight(out) /\ ListsRight(out)
  BY <1>1, <1>2, ActsOnNone, NothingListed DEF Tidy, RemovesRight
<1>4. Right(out)
  BY <1>3 DEF Right
<1>5. Right(Unchanged("DATUM_DEGENERATE"))
  BY UnchangedRight
<1> QED BY <1>4, <1>5 DEF Datum, out

LEMMA TagRight ==
  ASSUME NEW stage, bodies \in Seq(Body), F.type = "tag"
  PROVE  Right(Tag(stage))
BY ActsOnNone, UnchangedRight DEF Tag

\* A reference resolves to bodies of the part.
LEMMA ResolveIn ==
  ASSUME NEW bs, NEW fs
  PROVE  Resolve(bs, fs) \in SUBSET DOMAIN bs
BY DEF Resolve

\* A blend lists the bodies it shortened, and removes none.
LEMMA BlendRight ==
  ASSUME NEW stage, bodies \in Seq(Body), F.type = "blend"
  PROVE  Right(Blend(stage))
<1> DEFINE on == Resolve(bodies, F.targets)
           blended == [i \in DOMAIN bodies |->
                    IF i \in on THEN [bodies[i] EXCEPT !.cells = @ \ {High(@)}] ELSE bodies[i]]
           refused == stage = "operation" \/ \E i \in on : blended[i].cells = {}
           report == Reports(Canonical(Pick(blended, on)), "modified")
           out == [Unchanged("OK") EXCEPT !.bodies = blended, !.report = report]
<1>1. Blend(stage) = CASE Unresolved(bodies, F.targets) -> Unchanged("REF_NOT_FOUND")
                       [] refused -> Unchanged("KERNEL_REFUSED")
                       [] OTHER -> out
  BY DEF Blend
<1>2. on \in SUBSET DOMAIN bodies /\ ActedOn = on
  BY ResolveIn DEF ActedOn
<1>3. DOMAIN bodies = 1 .. Len(bodies) /\ Len(bodies) \in Nat /\ \A i \in DOMAIN bodies : bodies[i] \in Body
  BY SeqOfBodies
<1> HIDE DEF on, report
<1>4. ASSUME ~ refused PROVE Tidy(out) /\ RemovesRight(out) /\ ListsRight(out)
  <2>1. ASSUME NEW i \in DOMAIN bodies PROVE blended[i] \in Body /\ blended[i].origin = bodies[i].origin
    <3>1. CASE i \in on
      <4> DEFINE c == bodies[i].cells
                 d == c \ {High(c)}
      <4>1. /\ bodies[i] = [origin |-> bodies[i].origin, cells |-> c] /\ c \in Interval
            /\ bodies[i].origin \in [feature : Int, member : Int, instance : Int]
        BY <1>3 DEF Body
      <4>2. blended[i] = [bodies[i] EXCEPT !.cells = d]
        BY <3>1
      <4>3. blended[i] = [origin |-> bodies[i].origin, cells |-> d]
        BY <4>1, <4>2
      <4>4. d # {}
        BY <1>4, <3>1, <4>3
      <4>5. d \in Interval
        BY <4>1, <4>4, Shortened
      <4> HIDE DEF d, c, blended
      <4> QED BY <4>1, <4>3, <4>5 DEF Body
    <3>2. CASE i \notin on
      BY <1>3, <3>2
    <3> QED BY <3>1, <3>2
  <2>2. DOMAIN blended = DOMAIN bodies
    OBVIOUS
  <2>3. \A i \in DOMAIN bodies \ on : blended[i] = bodies[i]
    OBVIOUS
  <2> HIDE DEF blended, refused
  <2>4. blended \in [1 .. Len(bodies) -> Body]
    <3>1. blended = [i \in DOMAIN bodies |-> blended[i]]
      BY DEF blended
    <3> QED BY <1>3, <2>1, <2>2, <3>1
  <2>5. blended \in Seq(Body)
    BY <1>3, <2>4, FunctionIsSeq
  <2>6. Origins(blended) = Origins(bodies)
    BY <2>1, <2>2 DEF Origins
  <2>7. /\ out.bodies = blended /\ out.report = report /\ out.regions = <<>>
        /\ out.seed = NoSeed /\ out.removed = {}
    BY DEF Unchanged
  <2> HIDE DEF out
  <2>8. Tidy(out) /\ RemovesRight(out)
    <3>1. <<>> \in Seq(Interval)
      OBVIOUS
    <3> QED BY <2>5, <2>6, <2>7, <3>1 DEF Tidy, RemovesRight
  <2>9. ASSUME NEW b
        PROVE  Count(out.bodies, b) = Count(Rest(bodies, ActedOn), b) + Listings(out, b)
    <3> DEFINE P == Pick(blended, on)
               off == DOMAIN bodies \ on
               A == {i \in DOMAIN blended : blended[i] = b}
               B == {i \in off : bodies[i] = b}
               C == {i \in on : blended[i] = b}
    <3>1. on \in SUBSET DOMAIN blended
      BY <1>2, <2>2
    <3>2. P \in Seq(Body)
      BY <2>5, <3>1, PickIs
    <3>3. Count(P, b) = Cardinality(C)
      BY <2>5, <3>1, CountOfPick
    <3>4. Count(Rest(bodies, ActedOn), b) = Cardinality(B)
      <4>1. off \in SUBSET DOMAIN bodies /\ Rest(bodies, ActedOn) = Pick(bodies, off)
        BY <1>2 DEF Rest
      <4> HIDE DEF off
      <4>2. off \in SUBSET DOMAIN bodies
        BY <4>1
      <4>3. Count(Pick(bodies, off), b) = Cardinality({i \in off : bodies[i] = b})
        <5> HIDE DEF A, B, C, P
        <5> QED BY ONLY <4>2, bodies \in Seq(Body), CountOfPick, SMT
      <4> QED BY <4>1, <4>3
    <3>5. Listings(out, b) = Count(P, b)
      <4>1. out.report = Reports(Canonical(P), "modified")
        BY <2>7 DEF report
      <4> HIDE DEF P
      <4>2. Count(Canonical(P), b) = Count(P, b)
        BY <3>2, CanonicalIs
      <4> QED BY <4>1, <4>2, ListingsAreCount
    <3>6. A = B \cup C /\ B \cap C = {}
      BY <1>2, <2>2, <2>3
    <3>7. IsFiniteSet(A)
      BY <2>5, CountIs
    <3> HIDE DEF A, B, C, P, off
    <3>8. IsFiniteSet(B) /\ IsFiniteSet(C)
      BY <3>6, <3>7, FS_Subset
    <3>9. Cardinality(A) = Cardinality(B) + Cardinality(C) - Cardinality({})
      BY <3>6, <3>8, FS_Union
    <3>10. Cardinality({}) = 0 /\ Cardinality(B) \in Nat /\ Cardinality(C) \in Nat
      BY <3>8, FS_EmptySet, FS_CardinalityType
    <3>11. Cardinality(A) = Cardinality(B) + Cardinality(C)
      BY <3>9, <3>10
    <3>12. Cardinality(A) = Count(blended, b)
      BY DEF A, Count
    <3> QED BY <2>7, <3>3, <3>4, <3>5, <3>11, <3>12
  <2> QED BY <2>8, <2>9 DEF ListsRight
<1>5. Right(Unchanged("REF_NOT_FOUND")) /\ Right(Unchanged("KERNEL_REFUSED"))
  BY UnchangedRight
<1> HIDE DEF refused, out
<1>6. CASE Unresolved(bodies, F.targets)
  BY <1>1, <1>5, <1>6
<1>7. CASE ~ Unresolved(bodies, F.targets) /\ refused
  BY <1>1, <1>5, <1>7
<1>8. CASE ~ Unresolved(bodies, F.targets) /\ ~ refused
  BY <1>1, <1>4, <1>8 DEF Right
<1> QED BY <1>6, <1>7, <1>8

\* The tools a feature makes: one body per region or position.
Tools(s) == [i \in DOMAIN s |-> MadeBy(next, i, s[i])]

\* A feature's own tools are bodies of its own.
LEMMA ToolsAre ==
  ASSUME next \in Nat, NEW s \in Seq(Interval)
  PROVE  Tools(s) \in Seq(Body) /\ \A o \in Origins(Tools(s)) : o.feature = next
<1> DEFINE tools == Tools(s)
<1>1. DOMAIN s = 1 .. Len(s) /\ Len(s) \in Nat /\ \A i \in DOMAIN s : s[i] \in Interval
  BY LenProperties
<1>2. DOMAIN tools = DOMAIN s
  BY DEF Tools
<1>3. ASSUME NEW i \in DOMAIN s PROVE tools[i] \in Body /\ tools[i].origin.feature = next
  <2>1. tools[i] = [origin |-> [feature |-> next, member |-> i, instance |-> 0], cells |-> s[i]]
    BY DEF Tools, MadeBy
  <2>2. i \in Int /\ s[i] \in Interval
    BY <1>1
  <2> HIDE DEF tools
  <2> QED BY <2>1, <2>2 DEF Body
<1>4. tools \in [1 .. Len(s) -> Body]
  <2>1. tools = [i \in DOMAIN s |-> tools[i]]
    BY DEF Tools
  <2> HIDE DEF tools
  <2> QED BY <1>1, <1>2, <1>3, <2>1
<1> HIDE DEF tools
<1>5. tools \in Seq(Body)
  BY <1>1, <1>4, FunctionIsSeq
<1>6. \A o \in Origins(tools) : o.feature = next
  BY <1>2, <1>3 DEF Origins
<1> QED BY <1>5, <1>6 DEF tools

\* They have the cells that were drawn.
LEMMA ToolCells ==
  ASSUME NEW s \in Seq(Interval)
  PROVE  Cells(Tools(s)) = UNION Range(s)
<1>1. DOMAIN Tools(s) = DOMAIN s /\ \A i \in DOMAIN s : Tools(s)[i].cells = s[i]
  BY DEF Tools, MadeBy
<1> QED BY <1>1 DEF Cells, Range

\* The tools kept for patterns are a seed.
LEMMA KeptToolsSeed ==
  ASSUME NEW op \in BodyOps \cup {"new_body", "hole"}, NEW tools \in Seq(Body)
  PROVE  KeptTools(op, tools) = NoSeed \/ IsSeed(KeptTools(op, tools))
BY DEF KeptTools, IsSeed

\* Only code, seed and regions differ: what is right about the rest stays so.
LEMMA RightElse ==
  ASSUME NEW a, NEW b, Right(a), b.code = a.code, b.bodies = a.bodies, b.report = a.report,
         b.removed = a.removed, b.regions \in Seq(Interval), b.seed = NoSeed \/ IsSeed(b.seed)
  PROVE  Right(b)
<1> SUFFICES ASSUME b.code = "OK" PROVE Tidy(b) /\ RemovesRight(b)
                                        /\ (F.type \notin {"pattern", "bodyPattern"} => ListsRight(b))
  BY DEF Right
<1>1. Tidy(a) /\ RemovesRight(a) /\ (F.type \notin {"pattern", "bodyPattern"} => ListsRight(a))
  BY DEF Right
<1>2. Tidy(b)
  BY <1>1 DEF Tidy
<1>3. RemovesRight(b)
  BY <1>1 DEF RemovesRight
<1>4. ListsRight(a) => ListsRight(b)
  <2>1. \A x : Listings(b, x) = Listings(a, x)
    BY DEF Listings
  <2> QED BY <2>1 DEF ListsRight
<1> QED BY <1>1, <1>2, <1>3, <1>4

OutFields == {"code", "bodies", "aliases", "regions", "datum", "seed", "report", "removed"}

\* The fields of what a body operation hands back.
LEMMA BodyOpFields ==
  ASSUME NEW I, NEW K, NEW op, NEW consumed, NEW seed, NEW stage
  PROVE  LET out == BodyOpOn(I, K, op, consumed, seed, stage)
         IN out.seed = seed /\ DOMAIN out = OutFields
BY DEF BodyOpOn, Unchanged, OutFields

\* A sweep: a new body is listed as created; else its tools are an operation's.
LEMMA SweepRight ==
  ASSUME NEW stage, bodies \in Seq(Body), next \in Nat, F.type = "sweep",
         F.op \in BodyOps \cup {"new_body"}, sketches[F.sketch].regions \in Seq(Interval)
  PROVE  Right(Sweep(stage))
<1> DEFINE regions == sketches[F.sketch].regions
           tools == Tools(regions)
           seed == KeptTools(F.op, tools)
           targets == Resolve(bodies, F.targets)
           cut == BodyOpOn(targets, tools, F.op, {}, seed, stage)
           created == Reports(Canonical(tools), "created")
           lost == F.op # "new_body" /\ Unresolved(bodies, F.targets)
           made == [Unchanged("OK") EXCEPT !.regions = regions, !.seed = seed, !.bodies = bodies \o tools,
                                     !.report = created]
           refusal == [Unchanged("KERNEL_REFUSED") EXCEPT !.regions = regions, !.seed = seed]
           merged == [cut EXCEPT !.regions = regions]
<1>1. Sweep(stage) =
        IF lost THEN Unchanged("REF_NOT_FOUND")
        ELSE IF F.op # "new_body" THEN merged
        ELSE IF stage = "operation" THEN refusal ELSE made
  BY DEF Sweep, Tools
<1>2. tools \in Seq(Body) /\ Cells(tools) = UNION Range(regions)
  BY ToolsAre, ToolCells
<1>3. regions \in Seq(Interval)
  OBVIOUS
<1>9. F.op # "new_body" => ActedOn = Acted(F.op, bodies, targets, UNION Range(regions))
  BY DEF ActedOn
<1> HIDE DEF regions, tools
<1>4. seed = NoSeed \/ IsSeed(seed)
  BY <1>2, KeptToolsSeed
<1> HIDE DEF seed
<1>5. ASSUME F.op # "new_body" PROVE Right(merged)
  <2>1. targets \in SUBSET DOMAIN bodies
    BY ResolveIn
  <2> HIDE DEF targets
  <2>2. Right(cut)
    <3>1. F.op \in BodyOps
      BY <1>5
    <3>2. /\ {bodies[i].origin : i \in {}} \subseteq ToolOrigins
          /\ targets \cap {} = {} /\ {} \in SUBSET DOMAIN bodies
          /\ ActedOn = Acted(F.op, bodies, targets, Cells(tools)) \cup {}
      BY <1>2, <1>5, <1>9
    <3> QED BY <1>2, <1>4, <2>1, <3>1, <3>2, BodyOpRight
  <2>3. DOMAIN cut = OutFields /\ cut.seed = seed
    BY BodyOpFields
  <2> HIDE DEF cut
  <2>4. /\ merged.code = cut.code /\ merged.bodies = cut.bodies /\ merged.report = cut.report
        /\ merged.removed = cut.removed /\ merged.regions = regions /\ merged.seed = seed
    BY <2>3 DEF OutFields
  <2> HIDE DEF merged
  <2> QED BY <1>3, <1>4, <2>2, <2>4, RightElse
<1>6. Right(refusal)
  <2>1. refusal.code = "KERNEL_REFUSED"
    BY DEF Unchanged
  <2> QED BY <2>1 DEF Right
<1>7. ASSUME F.op = "new_body" PROVE Right(made)
  <2>1. /\ made.bodies = bodies \o tools /\ made.report = created /\ made.regions = regions
        /\ made.seed = seed /\ made.removed = {}
    BY DEF Unchanged
  <2> HIDE DEF made
  <2>2. bodies \o tools \in Seq(Body) /\ Origins(bodies \o tools) = Origins(bodies) \cup Origins(tools)
    BY <1>2, OriginsOfConcat
  <2>3. Tidy(made) /\ RemovesRight(made)
    BY <1>3, <1>4, <2>1, <2>2 DEF Tidy, RemovesRight
  <2>4. ASSUME NEW b
        PROVE  Count(made.bodies, b) = Count(Rest(bodies, ActedOn), b) + Listings(made, b)
    <3>1. Listings(made, b) = Count(tools, b)
      <4>1. Count(Canonical(tools), b) = Count(tools, b)
        BY <1>2, CanonicalIs
      <4> QED BY <2>1, <4>1, ListingsAreCount
    <3>2. Count(made.bodies, b) = Count(bodies, b) + Count(tools, b)
      BY <1>2, <2>1, CountConcat
    <3>3. Count(Rest(bodies, ActedOn), b) = Count(bodies, b)
      <4>1. ActedOn = {}
        BY <1>7, ActsOnNone
      <4> QED BY <4>1, RestOfNone
    <3> QED BY <3>1, <3>2, <3>3
  <2> QED BY <2>3, <2>4 DEF Right, ListsRight
<1>8. Right(Unchanged("REF_NOT_FOUND"))
  BY UnchangedRight
<1> HIDE DEF merged, made, refusal, lost
<1> QED BY <1>1, <1>5, <1>6, <1>7, <1>8

\* A boolean: the consumed tools vanish without being reported removed.
LEMMA BooleanRight ==
  ASSUME NEW stage, bodies \in Seq(Body), F.type = "boolean", F.op \in BodyOps
  PROVE  Right(Boolean(stage))
<1> DEFINE targets == Resolve(bodies, F.targets)
           tools == Resolve(bodies, F.tools)
           lost == Unresolved(bodies, F.targets) \/ Unresolved(bodies, F.tools)
           both == targets \cap tools # {}
           consumed == IF F.keepTools THEN {} ELSE tools
           K == Pick(bodies, tools)
           out == BodyOpOn(targets, K, F.op, consumed, NoSeed, stage)
<1>1. Boolean(stage) = CASE lost -> Unchanged("REF_NOT_FOUND")
                         [] both -> Unchanged("BOOLEAN_TOOL_IS_TARGET")
                         [] OTHER -> out
  BY DEF Boolean
<1>2. targets \in SUBSET DOMAIN bodies /\ tools \in SUBSET DOMAIN bodies
  BY ResolveIn
<1>3. /\ ToolOrigins = IF F.keepTools THEN {} ELSE Origins(K)
      /\ ActedOn = Acted(F.op, bodies, targets, Cells(K)) \cup consumed
  BY DEF ToolOrigins, ActedOn
<1> HIDE DEF targets, tools, lost
<1>4. K \in Seq(Body) /\ Origins(K) = {bodies[i].origin : i \in tools}
  BY <1>2, PickIs, OriginsOfPick
<1> HIDE DEF K
<1>5. ASSUME ~ both PROVE Right(out)
  <2>1. consumed \in SUBSET DOMAIN bodies /\ targets \cap consumed = {}
    BY <1>2, <1>5
  <2>2. {bodies[i].origin : i \in consumed} \subseteq ToolOrigins
    BY <1>3, <1>4
  <2> HIDE DEF consumed
  <2> QED BY <1>2, <1>3, <1>4, <2>1, <2>2, BodyOpRight
<1>6. Right(Unchanged("REF_NOT_FOUND")) /\ Right(Unchanged("BOOLEAN_TOOL_IS_TARGET"))
  BY UnchangedRight
<1> HIDE DEF out, both
<1>7. CASE lost
  BY <1>1, <1>6, <1>7
<1>8. CASE ~ lost /\ both
  BY <1>1, <1>6, <1>8
<1>9. CASE ~ lost /\ ~ both
  BY <1>1, <1>5, <1>9
<1> QED BY <1>7, <1>8, <1>9

\* A hole: a cut by its own tools.
LEMMA HoleRight ==
  ASSUME NEW stage, bodies \in Seq(Body), next \in Nat, F.type = "hole", AreIntervals(F.positions)
  PROVE  Right(Hole(stage))
<1> DEFINE targets == Resolve(bodies, F.targets)
           tools == Tools(F.positions)
           cut == BodyOpOn(targets, tools, "cut", {}, NoSeed, stage)
           kept == [cut EXCEPT !.seed = KeptTools("hole", tools)]
           lost == Unresolved(bodies, F.targets)
           many == F.ownsFace /\ Cardinality(targets) # 1
           miss == \E i \in DOMAIN tools : tools[i].cells \cap Cells(Pick(bodies, targets)) = {}
<1>1. Hole(stage) = CASE lost -> Unchanged("REF_NOT_FOUND")
                      [] many -> Unchanged("REF_AMBIGUOUS")
                      [] miss -> Unchanged("HOLE_MISSES_BODY")
                      [] OTHER -> IF cut.code = "OK" THEN kept ELSE cut
  BY DEF Hole, Tools
<1>2. tools \in Seq(Body) /\ Cells(tools) = UNION Range(F.positions)
  <2>1. F.positions \in Seq(Interval)
    BY DEF AreIntervals, Interval
  <2> QED BY <2>1, ToolsAre, ToolCells
<1>12. ActedOn = Acted("cut", bodies, targets, UNION Range(F.positions)) \cup {}
  BY DEF ActedOn
<1>3. targets \in SUBSET DOMAIN bodies
  BY ResolveIn
<1> HIDE DEF tools, lost, many, miss
<1>4. Right(cut)
  <2>1. "cut" \in BodyOps /\ {bodies[i].origin : i \in {}} \subseteq ToolOrigins
        /\ targets \cap {} = {} /\ {} \in SUBSET DOMAIN bodies /\ (NoSeed = NoSeed \/ IsSeed(NoSeed))
    BY DEF BodyOps
  <2> HIDE DEF targets
  <2> QED BY <1>2, <1>3, <1>12, <2>1, BodyOpRight
<1>5. DOMAIN cut = OutFields
  BY BodyOpFields
<1> HIDE DEF cut
<1>6. ASSUME cut.code = "OK" PROVE Right(kept)
  <2>1. /\ kept.code = cut.code /\ kept.bodies = cut.bodies /\ kept.report = cut.report
        /\ kept.removed = cut.removed /\ kept.regions = cut.regions /\ kept.seed = KeptTools("hole", tools)
    BY <1>5 DEF OutFields
  <2>2. kept.seed = NoSeed \/ IsSeed(kept.seed)
    BY <1>2, <2>1, KeptToolsSeed
  <2>3. cut.regions \in Seq(Interval)
    BY <1>4, <1>6 DEF Right, Tidy
  <2> HIDE DEF kept
  <2> QED BY <1>4, <2>1, <2>2, <2>3, RightElse
<1>7. /\ Right(Unchanged("REF_NOT_FOUND")) /\ Right(Unchanged("REF_AMBIGUOUS"))
      /\ Right(Unchanged("HOLE_MISSES_BODY"))
  BY UnchangedRight
<1> HIDE DEF kept
<1>8. CASE lost
  BY <1>1, <1>7, <1>8
<1>9. CASE ~ lost /\ many
  BY <1>1, <1>7, <1>9
<1>10. CASE ~ lost /\ ~ many /\ miss
  BY <1>1, <1>7, <1>10
<1>11. CASE ~ lost /\ ~ many /\ ~ miss
  BY <1>1, <1>4, <1>6, <1>11
<1> QED BY <1>8, <1>9, <1>10, <1>11

(***************************************************************************)
(* Patterns: the copies of the tools, and the run over the seeds.          *)
(***************************************************************************)
Made == {b \in Body : b.origin.feature = next}

\* The copies of a seed's tools are bodies of the pattern.
LEMMA CopiesAre ==
  ASSUME next \in Int, NEW tools \in Seq(Body), F.shifts \in Seq(Int), NEW q \in DOMAIN F.shifts
  PROVE  Copies(tools, q) \in Seq(Made)
<1> DEFINE s == Copies(tools, q)
           d == F.shifts[q]
<1>1. DOMAIN tools = 1 .. Len(tools) /\ Len(tools) \in Nat /\ \A i \in DOMAIN tools : tools[i] \in Body
  BY SeqOfBodies
<1>2. q \in Int /\ d \in Int
  BY LenProperties
<1>3. s = [i \in DOMAIN tools |->
             [origin |-> [feature |-> next, member |-> tools[i].origin.member, instance |-> q],
              cells |-> {c + d : c \in tools[i].cells}]]
  BY DEF Copies
<1> HIDE DEF s, d
<1>4. ASSUME NEW i \in DOMAIN tools PROVE s[i] \in Made
  <2>1. tools[i].origin.member \in Int /\ tools[i].cells \in Interval
    BY <1>1 DEF Body
  <2>2. {c + d : c \in tools[i].cells} \in Interval
    <3>1. \A J \in Interval, e \in Int : {c + e : c \in J} \in Interval
      BY Shifted
    <3> QED BY <1>2, <2>1, <3>1
  <2>3. s[i] = [origin |-> [feature |-> next, member |-> tools[i].origin.member, instance |-> q],
                cells |-> {c + d : c \in tools[i].cells}]
    BY <1>3
  <2> QED BY <1>2, <2>1, <2>2, <2>3 DEF Made, Body
<1>5. s \in [1 .. Len(tools) -> Made]
  BY <1>1, <1>3, <1>4
<1>6. s \in Seq(Made)
  BY <1>1, <1>5, FunctionIsSeq
<1> QED BY <1>6 DEF s

\* Flattening sequences of V gives a sequence of V.
LEMMA FlatIs ==
  ASSUME NEW V, NEW n \in Nat, NEW s \in [1 .. n -> Seq(V)]
  PROVE  FlattenSeq(s) \in Seq(V)
<1>1. Len(s) = n /\ DOMAIN s = 1 .. n
  BY FunctionIsSeq
<1>2. CASE n = 0
  <2>1. FlattenSeq(s) = s
    BY <1>1, <1>2 DEF FlattenSeq
  <2>2. s = <<>>
    BY <1>1, <1>2
  <2> QED BY <2>1, <2>2
<1>3. CASE n # 0
  <2> DEFINE body(f) == [i \in 1 .. n |-> IF i = 1 THEN s[i] ELSE f[i - 1] \o s[i]]
             flat(f, m) == /\ f \in [1 .. m -> Seq(V)] /\ (m > 0 => f[1] = s[1])
                           /\ \A i \in 2 .. m : f[i] = f[i - 1] \o s[i]
             T == {m \in 0 .. n : \E f : flat(f, m)}
  <2>1. 0 \in T
    <3>1. flat(<<>>, 0)
      OBVIOUS
    <3> HIDE DEF flat
    <3>2. \E f : flat(f, 0)
      BY <3>1
    <3> QED BY <3>2
  <2>2. ASSUME NEW m \in 0 .. n - 1, m \in T PROVE m + 1 \in T
    <3>1. PICK f : flat(f, m)
      BY <2>2
    <3> DEFINE v == IF m = 0 THEN s[1] ELSE f[m] \o s[m + 1]
               g == [i \in 1 .. m + 1 |-> IF i = m + 1 THEN v ELSE f[i]]
    <3>2. v \in Seq(V)
      <4>1. CASE m = 0
        BY <1>3, <4>1
      <4>2. CASE m # 0
        <5>1. f[m] \in Seq(V) /\ s[m + 1] \in Seq(V)
          BY <3>1, <4>2
        <5> QED BY <4>2, <5>1, ConcatProperties
      <4> QED BY <4>1, <4>2
    <3>3. g \in [1 .. m + 1 -> Seq(V)]
      BY <3>1, <3>2
    <3>4. g[1] = s[1]
      BY <3>1
    <3>5. ASSUME NEW i \in 2 .. m + 1 PROVE g[i] = g[i - 1] \o s[i]
      <4>1. i - 1 \in 1 .. m /\ g[i - 1] = f[i - 1]
        OBVIOUS
      <4>2. CASE i = m + 1
        <5>1. m # 0
          BY <4>2
        <5>2. v = f[m] \o s[m + 1]
          BY <5>1, Zenon
        <5>3. g[i] = v
          BY <4>2
        <5>4. i - 1 = m
          BY <4>2
        <5>5. g[i - 1] = f[m] /\ s[i] = s[m + 1]
          BY <4>1, <4>2, <5>4
        <5> HIDE DEF g, v
        <5> QED BY <5>2, <5>3, <5>5
      <4>3. CASE i # m + 1
        <5>1. i \in 2 .. m /\ g[i] = f[i]
          BY <4>3
        <5>2. f[i] = f[i - 1] \o s[i]
          BY <3>1, <5>1
        <5> QED BY <4>1, <5>1, <5>2
      <4> QED BY <4>2, <4>3
    <3> HIDE DEF g, v
    <3>6. flat(g, m + 1)
      BY <3>3, <3>4, <3>5
    <3> HIDE DEF flat
    <3>7. \E e : flat(e, m + 1)
      BY <3>6
    <3> QED BY <3>7
  <2>3. n \in T
    <3> HIDE DEF T
    <3> QED BY <2>1, <2>2, Induction
  <2>4. PICK f : flat(f, n)
    BY <2>3
  <2>5. f = body(f)
    <3>1. f = [i \in 1 .. n |-> f[i]]
      BY <2>4
    <3>2. ASSUME NEW i \in 1 .. n PROVE f[i] = IF i = 1 THEN s[i] ELSE f[i - 1] \o s[i]
      <4>1. CASE i = 1
        BY <2>4, <4>1
      <4>2. CASE i # 1
        <5>1. i \in 2 .. n
          BY <4>2
        <5>2. f[i] = f[i - 1] \o s[i]
          BY <2>4, <5>1
        <5> QED BY <4>2, <5>2
      <4> QED BY <4>1, <4>2
    <3>3. [i \in 1 .. n |-> f[i]] = body(f)
      BY <3>2, Zenon
    <3> HIDE DEF body
    <3> QED BY <3>1, <3>3
  <2> DEFINE h == CHOOSE g : g = body(g)
  <2>6. h = body(h)
    BY <2>5
  <2>7. FlattenSeq(s) = h[n]
    BY <1>1, <1>3 DEF FlattenSeq
  <2> DEFINE U == {m \in 0 .. n : m > 0 => h[m] \in Seq(V)}
  <2> HIDE DEF h
  <2>8. ASSUME NEW m \in 0 .. n - 1, m \in U PROVE m + 1 \in U
    <3>1. h[m + 1] = IF m + 1 = 1 THEN s[m + 1] ELSE h[m + 1 - 1] \o s[m + 1]
      <4>1. m + 1 \in 1 .. n
        OBVIOUS
      <4>2. \A i \in 1 .. n : h[i] = IF i = 1 THEN s[i] ELSE h[i - 1] \o s[i]
        BY <2>6, Zenon
      <4> QED BY <4>1, <4>2
    <3>2. s[m + 1] \in Seq(V)
      OBVIOUS
    <3>3. CASE m = 0
      BY <3>1, <3>2, <3>3
    <3>4. CASE m # 0
      <4>1. h[m] \in Seq(V) /\ m + 1 - 1 = m
        BY <2>8, <3>4
      <4>2. h[m] \o s[m + 1] \in Seq(V)
        BY <3>2, <4>1, ConcatProperties
      <4>3. h[m + 1] \in Seq(V)
        <5>1. m + 1 # 1
          BY <3>4
        <5>2. h[m + 1] = h[m + 1 - 1] \o s[m + 1]
          BY <3>1, <5>1, Zenon
        <5> QED BY <4>1, <4>2, <5>2
      <4> QED BY <4>3
    <3> QED BY <3>3, <3>4
  <2>9. n \in U
    <3>1. 0 \in U
      OBVIOUS
    <3> HIDE DEF U
    <3> QED BY <2>8, <3>1, Induction
  <2> QED BY <1>3, <2>7, <2>9
<1> QED BY <1>2, <1>3

\* The copies of all the instances in Q.
LEMMA AllCopies ==
  ASSUME next \in Int, NEW tools \in Seq(Body), F.shifts \in Seq(Int), NEW Q \in SUBSET DOMAIN F.shifts
  PROVE  FlattenSeq([k \in 1 .. Cardinality(Q) |-> Copies(tools, Sorted(Q, <)[k])]) \in Seq(Made)
<1> DEFINE n == Cardinality(Q)
           at == Sorted(Q, <)
           s == [k \in 1 .. n |-> Copies(tools, at[k])]
<1>1. IsFiniteSet(Q) /\ Q \subseteq Int
  <2>1. DOMAIN F.shifts = 1 .. Len(F.shifts) /\ Len(F.shifts) \in Nat
    BY LenProperties
  <2>2. IsFiniteSet(1 .. Len(F.shifts))
    BY <2>1, FS_Interval
  <2> QED BY <2>1, <2>2, FS_Subset
<1>2. n \in Nat /\ DOMAIN at = 1 .. n /\ at \in Seq(Q)
  BY <1>1, SortedNumbers
<1>3. \A k \in 1 .. n : at[k] \in Q
  BY <1>2, ElementOfSeq, LenProperties
<1> HIDE DEF at, n
<1>4. \A k \in 1 .. n : s[k] \in Seq(Made)
  <2>1. \A q \in DOMAIN F.shifts : Copies(tools, q) \in Seq(Made)
    BY CopiesAre
  <2> QED BY <1>3, <2>1
<1>5. s \in [1 .. n -> Seq(Made)]
  BY <1>4
<1> HIDE DEF s
<1>6. FlattenSeq(s) \in Seq(Made)
  BY <1>2, <1>5, FlatIs
<1> QED BY <1>6 DEF s, at, n

Seedling(s) == s.op \in BodyOps \cup {"new_body", "hole"} /\ s.tools \in Seq(Body)

\* What one seed's instances come to: a result on its targets, or copies of its tools.
LEMMA ApplySeedIs ==
  ASSUME next \in Int, F.shifts \in Seq(Int), NEW op \in BodyOps \cup {"new_body", "hole"},
         NEW tools \in Seq(Body), NEW T \in Seq(Body)
  PROVE  LET out == ApplySeed(op, tools, T)
         IN /\ out.created \in Seq(Made)
            /\ out.res.code = "OK" => Accounts(out.res, T)
<1> DEFINE at == DOMAIN F.shifts
           misses(q) ==
             CASE op = "join" -> \A i \in DOMAIN tools : ~ Near(Copies(tools, q)[i].cells, Cells(T))
               [] OTHER -> Cells(Copies(tools, q)) \cap Cells(T) = {}
           live == {q \in at : ~ misses(q)}
           copies(Q) == FlattenSeq([k \in 1 .. Cardinality(Q) |-> Copies(tools, Sorted(Q, <)[k])])
           bodyOp == IF op = "hole" THEN "cut" ELSE op
           res == ApplyOp(bodyOp, T, copies(live))
           made == [code |-> "OK", created |-> copies(at), res |-> NoResult("none")]
           none == [code |-> IF at = {} THEN "OK" ELSE "PATTERN_ALL_INSTANCES_FAILED",
                    created |-> <<>>, res |-> NoResult("none")]
           done == [code |-> res.code, created |-> <<>>, res |-> res]
           out == ApplySeed(op, tools, T)
<1>1. out = IF op = "new_body" THEN made ELSE IF live = {} THEN none ELSE done
  BY Zenon DEF ApplySeed
<1>2. copies(at) \in Seq(Made) /\ copies(live) \in Seq(Made)
  BY AllCopies
<1>3. Seq(Made) \subseteq Seq(Body)
  <2>1. Made \subseteq Body
    BY DEF Made
  <2> QED BY <2>1, SeqMonotonic
<1>4. NoResult("none").code # "OK"
  BY DEF NoResult
<1>5. op # "new_body" => bodyOp \in BodyOps
  BY DEF BodyOps
<1> HIDE DEF live, copies, bodyOp, misses, out
<1>6. op # "new_body" /\ res.code = "OK" => Accounts(res, T)
  <2>1. copies(live) \in Seq(Body)
    BY <1>2, <1>3
  <2> QED BY <1>5, <2>1, ApplyOpAccounts
<1> HIDE DEF res
<1>7. <<>> \in Seq(Made)
  OBVIOUS
<1> DEFINE right == out.created \in Seq(Made) /\ (out.res.code = "OK" => Accounts(out.res, T))
<1>8. op = "new_body" => right
  BY <1>1, <1>2, <1>4
<1>9. op # "new_body" /\ live = {} => right
  BY <1>1, <1>4, <1>7
<1>10. op # "new_body" /\ live # {} => right
  BY <1>1, <1>6, <1>7
<1>11. right
  BY <1>8, <1>9, <1>10
<1> QED BY <1>11 DEF out

\* What the run over the seeds has come to after k of them, when none failed.
Going(acc, k) ==
  /\ acc.bodies \in Seq(Body)
  /\ \A o \in Origins(acc.bodies) \cup acc.removed : o \in Origins(bodies) \/ o.feature = next
  /\ Origins(bodies) \subseteq Origins(acc.bodies) \cup acc.removed
  /\ k = 0 => acc.bodies = bodies
  /\ k <= 1 => acc.removed \subseteq Origins(bodies)
  /\ k = 0 => acc.removed = {}
RunIs(acc, k) == DOMAIN acc = OutFields /\ (acc.code = "OK" => Going(acc, k))

\* Before the first seed.
LEMMA StartIs ==
  ASSUME bodies \in Seq(Body)
  PROVE  RunIs(Unchanged("OK"), 0)
<1> DEFINE a == Unchanged("OK")
<1>1. DOMAIN a = OutFields /\ a.bodies = bodies /\ a.removed = {}
  BY DEF Unchanged, OutFields
<1> HIDE DEF a
<1>2. Going(a, 0)
  BY <1>1 DEF Going
<1> QED BY <1>1, <1>2 DEF RunIs, a

\* One seed more: what is gone has been removed, and what was removed was there or is the pattern's.
LEMMA OneSeedIs ==
  ASSUME next \in Int, F.shifts \in Seq(Int), bodies \in Seq(Body), NEW k \in Nat, NEW acc, RunIs(acc, k),
         NEW seed, Seedling(seed), NEW stage
  PROVE  RunIs(ApplyOneSeed(acc, seed, stage), k + 1)
<1> DEFINE I == Resolve(acc.bodies, seed.targets)
           T == Pick(acc.bodies, I)
           out == ApplySeed(seed.op, seed.tools, T)
           done == CommitOp(acc.bodies, acc.aliases, I, {}, out.res)
           lost == seed.op # "new_body" /\ Unresolved(acc.bodies, seed.targets)
           many == seed.one /\ Cardinality(I) # 1
           changed == [acc EXCEPT !.bodies = done.bodies, !.aliases = done.aliases,
                                  !.report = Merge(acc.report, done.report), !.removed = @ \cup done.removed]
           grown == [acc EXCEPT !.bodies = @ \o out.created,
                                !.report = @ \o Reports(out.created, "created")]
           new == ApplyOneSeed(acc, seed, stage)
<1>1. new = CASE acc.code # "OK" -> acc
              [] lost -> [acc EXCEPT !.code = "REF_NOT_FOUND"]
              [] many -> [acc EXCEPT !.code = "REF_AMBIGUOUS"]
              [] out.code # "OK" -> [acc EXCEPT !.code = out.code]
              [] stage = "operation" -> [acc EXCEPT !.code = "KERNEL_REFUSED"]
              [] out.res.code = "OK" -> changed
              [] OTHER -> grown
  BY DEF ApplyOneSeed
<1>2. DOMAIN acc = OutFields
  BY DEF RunIs
<1>4. ASSUME NEW c, c # "OK" PROVE RunIs([acc EXCEPT !.code = c], k + 1)
  BY <1>2, <1>4 DEF RunIs, OutFields
<1>5. ASSUME acc.code = "OK"
      PROVE  RunIs(grown, k + 1) /\ (out.res.code = "OK" => RunIs(changed, k + 1))
  <2>1. Going(acc, k)
    BY <1>5 DEF RunIs
  <2>2. acc.bodies \in Seq(Body)
    BY <2>1 DEF Going
  <2>3. I \in SUBSET DOMAIN acc.bodies
    BY ResolveIn
  <2> HIDE DEF I
  <2>4. T \in Seq(Body)
    BY <2>2, <2>3, PickIs
  <2>5. out.created \in Seq(Made) /\ (out.res.code = "OK" => Accounts(out.res, T))
    <3> HIDE DEF T
    <3> QED BY <2>4, ApplySeedIs DEF Seedling
  <2> HIDE DEF out
  <2>6. RunIs(grown, k + 1)
    <3>1. out.created \in Seq(Body) /\ \A i \in DOMAIN out.created : out.created[i].origin.feature = next
      <4>1. Made \subseteq Body
        BY DEF Made
      <4>2. out.created \in Seq(Body)
        BY <2>5, <4>1, SeqMonotonic
      <4>3. \A i \in DOMAIN out.created : out.created[i] \in Made
        BY <2>5, ElementOfSeq, LenProperties
      <4> QED BY <4>2, <4>3 DEF Made
    <3>2. /\ acc.bodies \o out.created \in Seq(Body)
          /\ Origins(acc.bodies \o out.created) = Origins(acc.bodies) \cup Origins(out.created)
      BY <2>2, <3>1, OriginsOfConcat
    <3>3. \A o \in Origins(out.created) : o.feature = next
      BY <3>1 DEF Origins
    <3>4. DOMAIN grown = OutFields /\ grown.bodies = acc.bodies \o out.created /\ grown.removed = acc.removed
      BY <1>2 DEF OutFields
    <3> HIDE DEF grown
    <3>5. Going(grown, k + 1)
      <4>1. k + 1 # 0 /\ (k + 1 <= 1 => k <= 1)
        OBVIOUS
      <4> QED BY <2>1, <3>2, <3>3, <3>4, <4>1 DEF Going
    <3> QED BY <3>4, <3>5 DEF RunIs
  <2>7. ASSUME out.res.code = "OK" PROVE RunIs(changed, k + 1)
    <3>1. Accounts(out.res, T)
      BY <2>5, <2>7
    <3>2. Commits(done, acc.bodies, {}, out.res)
      <4>1. I \cap {} = {} /\ {} \in SUBSET DOMAIN acc.bodies
        OBVIOUS
      <4> QED BY <2>2, <2>3, <3>1, <4>1, CommitIs
    <3> HIDE DEF done
    <3>3. DOMAIN changed = OutFields /\ changed.bodies = done.bodies
          /\ changed.removed = acc.removed \cup done.removed
      BY <1>2 DEF OutFields
    <3> HIDE DEF changed
    <3>4. /\ done.bodies \in Seq(Body)
          /\ Origins(done.bodies) \subseteq Origins(acc.bodies)
          /\ done.removed \subseteq Origins(acc.bodies)
          /\ Origins(acc.bodies) \subseteq Origins(done.bodies) \cup done.removed
      BY <3>2 DEF Commits
    <3>5. k + 1 <= 1 => done.removed \subseteq Origins(bodies) /\ acc.removed \subseteq Origins(bodies)
      <4>1. k + 1 <= 1 => k = 0
        OBVIOUS
      <4> QED BY <2>1, <3>4, <4>1 DEF Going
    <3>6. Going(changed, k + 1)
      <4>1. k + 1 # 0
        OBVIOUS
      <4> QED BY <2>1, <3>3, <3>4, <3>5, <4>1 DEF Going
    <3> QED BY <3>3, <3>6 DEF RunIs
  <2> QED BY <2>6, <2>7
<1>6. acc.code # "OK" => RunIs(acc, k + 1) /\ RunIs(grown, k + 1) /\ RunIs(changed, k + 1)
  <2> HIDE DEF out, done
  <2> QED BY <1>2 DEF RunIs, OutFields
<1> HIDE DEF lost, many, out, grown, changed, new
<1>7. \/ acc.code # "OK" /\ new = acc
      \/ new = [acc EXCEPT !.code = "REF_NOT_FOUND"]
      \/ new = [acc EXCEPT !.code = "REF_AMBIGUOUS"]
      \/ out.code # "OK" /\ new = [acc EXCEPT !.code = out.code]
      \/ new = [acc EXCEPT !.code = "KERNEL_REFUSED"]
      \/ out.res.code = "OK" /\ new = changed
      \/ new = grown
  BY <1>1
<1>8. RunIs(new, k + 1)
  BY <1>4, <1>5, <1>6, <1>7
<1> QED BY <1>8 DEF new

\* The run over all the seeds, each on the part as the one before left it.
LEMMA SeedsRight ==
  ASSUME next \in Int, F.shifts \in Seq(Int), bodies \in Seq(Body),
         NEW n \in Nat, NEW order, Len(order) = n, \A k \in 1 .. n : Seedling(order[k]), NEW fail,
         F.type = "pattern" \/ (F.type = "bodyPattern" /\ n <= 1)
  PROVE  Right(ApplySeeds(order, fail))
<1> DEFINE step(acc, k) == ApplyOneSeed(acc, order[k], IF k = fail THEN "operation" ELSE "none")
           body(f) == [k \in 0 .. n |-> IF k = 0 THEN Unchanged("OK") ELSE step(f[k - 1], k)]
           after == CHOOSE f : f = body(f)
           run == after[n]
           report == SortedSeq(run.report, LAMBDA a, b : Before(a.body, b.body))
           out == [Unchanged("OK") EXCEPT !.bodies = run.bodies, !.aliases = run.aliases,
                                          !.report = report, !.removed = run.removed \ Origins(run.bodies)]
<1>1. ApplySeeds(order, fail) = IF run.code # "OK" THEN Restored(run) ELSE out
  BY DEF ApplySeeds
<1> HIDE DEF step
<1>2. \E f : f = body(f)
  <2> DEFINE upTo(f, m) == /\ DOMAIN f = 0 .. m /\ f[0] = Unchanged("OK")
                           /\ \A k \in 1 .. m : f[k] = step(f[k - 1], k)
             S == {m \in 0 .. n : \E f : upTo(f, m)}
  <2>1. 0 \in S
    <3>1. upTo([k \in 0 .. 0 |-> Unchanged("OK")], 0)
      OBVIOUS
    <3> HIDE DEF upTo
    <3>2. \E f : upTo(f, 0)
      BY <3>1
    <3> QED BY <3>2
  <2>2. ASSUME NEW m \in 0 .. n - 1, m \in S PROVE m + 1 \in S
    <3>1. PICK f : upTo(f, m)
      BY <2>2
    <3> DEFINE v == step(f[m], m + 1)
               g == [k \in 0 .. m + 1 |-> IF k = m + 1 THEN v ELSE f[k]]
    <3>2. DOMAIN g = 0 .. m + 1 /\ g[m + 1] = v /\ \A k \in 0 .. m : g[k] = f[k]
      OBVIOUS
    <3>3. ASSUME NEW k \in 1 .. m + 1 PROVE g[k] = step(g[k - 1], k)
      <4>1. k - 1 \in 0 .. m /\ g[k - 1] = f[k - 1]
        BY <3>2
      <4>2. CASE k = m + 1
        <5>1. k - 1 = m
          BY <4>2
        <5>2. g[k - 1] = f[m] /\ g[k] = v
          BY <3>2, <4>1, <4>2, <5>1
        <5> HIDE DEF g
        <5> QED BY <4>2, <5>2
      <4>3. CASE k # m + 1
        <5>1. k \in 1 .. m /\ g[k] = f[k]
          BY <3>2, <4>3
        <5>2. f[k] = step(f[k - 1], k)
          BY <3>1, <5>1
        <5> QED BY <4>1, <5>1, <5>2
      <4> QED BY <4>2, <4>3
    <3>4. g[0] = Unchanged("OK")
      <4>1. g[0] = f[0]
        BY <3>2
      <4> QED BY <3>1, <4>1
    <3> HIDE DEF g, v
    <3>5. upTo(g, m + 1)
      BY <3>2, <3>3, <3>4
    <3> HIDE DEF upTo
    <3>6. \E e : upTo(e, m + 1)
      BY <3>5
    <3> QED BY <3>6
  <2>3. n \in S
    <3> HIDE DEF S
    <3> QED BY <2>1, <2>2, Induction
  <2>4. PICK f : upTo(f, n)
    BY <2>3
  <2>5. ASSUME NEW k \in 0 .. n PROVE f[k] = IF k = 0 THEN Unchanged("OK") ELSE step(f[k - 1], k)
    <3>1. CASE k = 0
      BY <2>4, <3>1
    <3>2. CASE k # 0
      <4>1. k \in 1 .. n
        BY <3>2
      <4>2. f[k] = step(f[k - 1], k)
        BY <2>4, <4>1
      <4> QED BY <3>2, <4>2
    <3> QED BY <3>1, <3>2
  <2>6. DOMAIN f = 0 .. n
    BY <2>4
  <2>7. f = [k \in 0 .. n |-> f[k]]
    BY <2>4
  <2>8. [k \in 0 .. n |-> f[k]] = body(f)
    BY <2>5, Zenon
  <2> HIDE DEF body, upTo, S
  <2>9. f = body(f)
    BY <2>7, <2>8
  <2> QED BY <2>9
<1>3. after = body(after)
  <2> HIDE DEF body
  <2> QED BY <1>2
<1> HIDE DEF after
<1>4. \A k \in 0 .. n : after[k] = IF k = 0 THEN Unchanged("OK") ELSE step(after[k - 1], k)
  BY <1>3, Zenon
<1> DEFINE S == {k \in 0 .. n : RunIs(after[k], k)}
<1>5. 0 \in S
  <2>1. after[0] = Unchanged("OK")
    BY <1>4
  <2> QED BY <2>1, StartIs
<1>6. ASSUME NEW m \in 0 .. n - 1, m \in S PROVE m + 1 \in S
  <2>1. RunIs(after[m], m)
    BY <1>6
  <2>2. m + 1 \in 0 .. n /\ m + 1 # 0 /\ m + 1 - 1 = m /\ m \in Nat
    OBVIOUS
  <2>3. after[m + 1] = step(after[m], m + 1)
    BY <1>4, <2>2
  <2>4. Seedling(order[m + 1])
    OBVIOUS
  <2>5. RunIs(step(after[m], m + 1), m + 1)
    BY <2>1, <2>2, <2>4, OneSeedIs DEF step
  <2> QED BY <2>2, <2>3, <2>5
<1>7. RunIs(run, n)
  <2>1. n \in S
    <3> HIDE DEF S
    <3> QED BY <1>5, <1>6, Induction
  <2> QED BY <2>1
<1>8. ASSUME run.code = "OK" PROVE Right(out)
  <2>1. Going(run, n)
    BY <1>7, <1>8 DEF RunIs
  <2>2. /\ out.bodies = run.bodies /\ out.removed = run.removed \ Origins(run.bodies)
        /\ out.seed = NoSeed /\ out.regions = <<>>
    BY DEF Unchanged
  <2> HIDE DEF out, run
  <2>3. <<>> \in Seq(Interval)
    OBVIOUS
  <2>4. Tidy(out)
    BY <2>1, <2>2, <2>3 DEF Tidy, Going
  <2>5. RemovesRight(out)
    BY <2>1, <2>2 DEF RemovesRight, Going
  <2> QED BY <2>4, <2>5 DEF Right
<1>9. run.code # "OK" => Right(Restored(run))
  <2> HIDE DEF run
  <2> QED BY UnchangedRight DEF Restored
<1> HIDE DEF run, out
<1> QED BY <1>1, <1>8, <1>9

\* A pattern of features copies the tools kept for it.
LEMMA PatternRight ==
  ASSUME NEW fail, next \in Int, bodies \in Seq(Body), F.type = "pattern", F.shifts \in Seq(Int),
         NEW D, IsFiniteSet(D), D \subseteq Int, F.seeds \in Seq(D),
         \A i \in D : seeds[i] = NoSeed \/ IsSeed(seeds[i])
  PROVE  Right(Pattern(fail))
<1> DEFINE I == Range(F.seeds)
           at == Sorted(I, <)
           order == FeatureSeeds
           missing == \E i \in I : seeds[i] = NoSeed
<1>1. I \subseteq D /\ IsFiniteSet(I) /\ I \subseteq Int
  <2>1. F.seeds \in [1 .. Len(F.seeds) -> D]
    BY LenProperties
  <2>2. I \subseteq D
    BY <2>1 DEF Range
  <2> QED BY <2>2, FS_Subset
<1>2. Pattern(fail) = IF missing THEN Unchanged("FORGE_PATTERN_SEED_UNAVAILABLE") ELSE ApplySeeds(order, fail)
  BY DEF Pattern
<1>3. order = [k \in DOMAIN at |->
                 [op |-> seeds[at[k]].op, tools |-> seeds[at[k]].bodies, targets |-> doc[at[k]].targets,
                  one |-> doc[at[k]].type = "hole" /\ doc[at[k]].ownsFace]]
  BY DEF FeatureSeeds
<1> HIDE DEF I, order
<1>4. Cardinality(I) \in Nat /\ DOMAIN at = 1 .. Cardinality(I) /\ at \in Seq(I)
  BY <1>1, SortedNumbers
<1>5. \A k \in DOMAIN at : at[k] \in I
  BY <1>4, ElementOfSeq, LenProperties
<1> HIDE DEF at
<1>6. Len(order) = Cardinality(I)
  BY <1>3, <1>4
<1>7. ASSUME ~ missing, NEW k \in 1 .. Cardinality(I) PROVE Seedling(order[k])
  <2>1. at[k] \in I
    BY <1>4, <1>5
  <2>2. IsSeed(seeds[at[k]])
    BY <1>1, <1>7, <2>1
  <2>3. order[k].op = seeds[at[k]].op /\ order[k].tools = seeds[at[k]].bodies
    BY <1>3, <1>4
  <2> QED BY <2>2, <2>3 DEF IsSeed, Seedling
<1>8. ~ missing => Right(ApplySeeds(order, fail))
  <2>1. SUFFICES ASSUME ~ missing PROVE Right(ApplySeeds(order, fail))
    OBVIOUS
  <2>2. \A k \in 1 .. Cardinality(I) : Seedling(order[k])
    BY <1>7, <2>1
  <2> QED BY <1>4, <1>6, <2>2, SeedsRight
<1> HIDE DEF missing
<1> QED BY <1>2, <1>8, UnchangedRight

\* A pattern of bodies copies the bodies as they are.
LEMMA BodyPatternRight ==
  ASSUME NEW fail, next \in Int, bodies \in Seq(Body), F.type = "bodyPattern", F.shifts \in Seq(Int),
         F.op \in {"join", "new_body"}
  PROVE  Right(BodyPattern(fail))
<1> DEFINE tools == Pick(bodies, Resolve(bodies, F.of))
           seed == [op |-> F.op, tools |-> tools, targets |-> F.targets, one |-> FALSE]
           order == <<seed>>
           lost == Unresolved(bodies, F.of) \/ (F.op = "join" /\ Unresolved(bodies, F.targets))
<1>1. BodyPattern(fail) = CASE lost -> Unchanged("REF_NOT_FOUND") [] OTHER -> ApplySeeds(order, fail)
  BY DEF BodyPattern
<1>2. tools \in Seq(Body)
  BY PickIs, ResolveIn
<1> HIDE DEF tools, lost
<1>3. Seedling(seed)
  BY <1>2 DEF Seedling, BodyOps
<1> HIDE DEF seed
<1>4. Len(order) = 1 /\ 1 \in Nat /\ \A k \in 1 .. 1 : Seedling(order[k])
  BY <1>3
<1> HIDE DEF order
<1>5. Right(ApplySeeds(order, fail))
  <2>1. F.type = "bodyPattern" /\ 1 <= 1
    OBVIOUS
  <2>2. F.type = "pattern" \/ (F.type = "bodyPattern" /\ 1 <= 1)
    BY <2>1
  <2>3. next \in Int /\ F.shifts \in Seq(Int) /\ bodies \in Seq(Body)
    OBVIOUS
  <2> QED BY ONLY <1>4, <2>2, <2>3, SeedsRight
<1>6. Right(Unchanged("REF_NOT_FOUND"))
  BY UnchangedRight
<1>7. CASE lost
  BY <1>1, <1>6, <1>7
<1>8. CASE ~ lost
  BY <1>1, <1>5, <1>8
<1> QED BY <1>7, <1>8

(***************************************************************************)
(* What each feature hands back, as to failures and kept tools.  The run   *)
(* over a pattern's seeds needs no look inside here: what is restored counts. *)
(***************************************************************************)
Passes(out) == out.code # "OK" => out.bodies = bodies /\ out.aliases = aliases
KeepsTools(out) ==
  out.code = "OK" =>
    (out.seed # NoSeed <=> next \in SeedIds /\ F.type \in {"sweep", "hole"})
Good(out) == Passes(out) /\ KeepsTools(out)

\* What fails before it changes anything passes its input through.
LEMMA UnchangedOut ==
  ASSUME NEW code
  PROVE  Unchanged(code).code = code /\ Unchanged(code).seed = NoSeed /\ Passes(Unchanged(code))
BY DEF Unchanged, Passes

LEMMA UnchangedGood ==
  ASSUME NEW code, code # "OK" \/ F.type \notin {"sweep", "hole"}
  PROVE  Good(Unchanged(code))
BY UnchangedOut DEF Good, KeepsTools

LEMMA BodyOpOut ==
  ASSUME NEW I, NEW K, NEW op, NEW consumed, NEW seed, NEW stage
  PROVE  LET out == BodyOpOn(I, K, op, consumed, seed, stage)
         IN /\ Passes(out) /\ out.seed = seed
            /\ DOMAIN out = {"code", "bodies", "aliases", "regions", "datum", "seed", "report", "removed"}
BY DEF BodyOpOn, Passes, Unchanged

LEMMA KeptToolsOut ==
  ASSUME NEW op, NEW tools, op # "none"
  PROVE  KeptTools(op, tools) # NoSeed <=> next \in SeedIds
BY DEF KeptTools, NoSeed

LEMMA SketchGood == ASSUME NEW stage, F.type = "sketch" PROVE Good(Sketch(stage))
BY DEF Sketch, Unchanged, Good, Passes, KeepsTools

LEMMA DatumGood == ASSUME NEW stage, F.type = "datum" PROVE Good(Datum(stage))
BY DEF Datum, Unchanged, Good, Passes, KeepsTools

LEMMA TagGood == ASSUME NEW stage, F.type = "tag" PROVE Good(Tag(stage))
BY UnchangedGood DEF Tag

LEMMA BlendGood == ASSUME NEW stage, F.type = "blend" PROVE Good(Blend(stage))
<1> DEFINE on == Resolve(bodies, F.targets)
           blended == [i \in DOMAIN bodies |->
                    IF i \in on THEN [bodies[i] EXCEPT !.cells = @ \ {High(@)}] ELSE bodies[i]]
           refused == stage = "operation" \/ \E i \in on : blended[i].cells = {}
           report == Reports(Canonical(Pick(blended, on)), "modified")
<1>1. Blend(stage) = CASE Unresolved(bodies, F.targets) -> Unchanged("REF_NOT_FOUND")
                       [] refused -> Unchanged("KERNEL_REFUSED")
                       [] OTHER -> [Unchanged("OK") EXCEPT !.bodies = blended, !.report = report]
  BY DEF Blend
<1> HIDE DEF blended, report, refused
<1>2. Good([Unchanged("OK") EXCEPT !.bodies = blended, !.report = report])
  BY DEF Good, Passes, KeepsTools, Unchanged
<1>3. Good(Unchanged("REF_NOT_FOUND")) /\ Good(Unchanged("KERNEL_REFUSED"))
  BY UnchangedGood
<1>4. CASE Unresolved(bodies, F.targets)
  BY <1>1, <1>3, <1>4
<1>5. CASE ~ Unresolved(bodies, F.targets) /\ refused
  BY <1>1, <1>3, <1>5
<1>6. CASE ~ Unresolved(bodies, F.targets) /\ ~ refused
  BY <1>1, <1>2, <1>6
<1> QED BY <1>4, <1>5, <1>6

LEMMA SweepGood ==
  ASSUME NEW stage, F.type = "sweep", F.op # "none"
  PROVE  Good(Sweep(stage))
<1> DEFINE regions == sketches[F.sketch].regions
           tools == [i \in DOMAIN regions |-> MadeBy(next, i, regions[i])]
           seed == KeptTools(F.op, tools)
           targets == Resolve(bodies, F.targets)
           cut == BodyOpOn(targets, tools, F.op, {}, seed, stage)
           created == Reports(Canonical(tools), "created")
           lost == F.op # "new_body" /\ Unresolved(bodies, F.targets)
<1>1. Sweep(stage) =
        IF lost THEN Unchanged("REF_NOT_FOUND")
        ELSE IF F.op # "new_body" THEN [cut EXCEPT !.regions = regions]
        ELSE IF stage = "operation"
        THEN [Unchanged("KERNEL_REFUSED") EXCEPT !.regions = regions, !.seed = seed]
        ELSE [Unchanged("OK") EXCEPT !.regions = regions, !.seed = seed, !.bodies = bodies \o tools,
                                     !.report = created]
  BY DEF Sweep
<1>2. seed # NoSeed <=> next \in SeedIds
  BY KeptToolsOut
<1>3. Passes(cut) /\ cut.seed = seed
      /\ DOMAIN cut = {"code", "bodies", "aliases", "regions", "datum", "seed", "report", "removed"}
  BY BodyOpOut
<1> HIDE DEF cut, seed, tools, regions, created, lost
<1>4. Good([cut EXCEPT !.regions = regions])
  BY <1>2, <1>3 DEF Good, Passes, KeepsTools
<1>5. Good([Unchanged("KERNEL_REFUSED") EXCEPT !.regions = regions, !.seed = seed])
  BY DEF Good, Passes, KeepsTools, Unchanged
<1>6. Good([Unchanged("OK") EXCEPT !.regions = regions, !.seed = seed, !.bodies = bodies \o tools,
                                  !.report = created])
  BY <1>2 DEF Good, Passes, KeepsTools, Unchanged
<1>7. Good(Unchanged("REF_NOT_FOUND"))
  BY UnchangedGood
<1> QED BY <1>1, <1>4, <1>5, <1>6, <1>7

LEMMA BooleanGood == ASSUME NEW stage, F.type = "boolean" PROVE Good(Boolean(stage))
<1> DEFINE targets == Resolve(bodies, F.targets)
           tools == Resolve(bodies, F.tools)
           lost == Unresolved(bodies, F.targets) \/ Unresolved(bodies, F.tools)
           both == targets \cap tools # {}
           out == BodyOpOn(targets, Pick(bodies, tools), F.op, IF F.keepTools THEN {} ELSE tools,
                           NoSeed, stage)
<1>1. Boolean(stage) = CASE lost -> Unchanged("REF_NOT_FOUND")
                         [] both -> Unchanged("BOOLEAN_TOOL_IS_TARGET")
                         [] OTHER -> out
  BY DEF Boolean
<1>2. Good(out)
  BY BodyOpOut DEF Good, KeepsTools
<1>3. Good(Unchanged("REF_NOT_FOUND")) /\ Good(Unchanged("BOOLEAN_TOOL_IS_TARGET"))
  BY UnchangedGood
<1> HIDE DEF lost, both, out
<1>4. CASE lost
  BY <1>1, <1>3, <1>4
<1>5. CASE ~ lost /\ both
  BY <1>1, <1>3, <1>5
<1>6. CASE ~ lost /\ ~ both
  BY <1>1, <1>2, <1>6
<1> QED BY <1>4, <1>5, <1>6

LEMMA HoleGood == ASSUME NEW stage, F.type = "hole" PROVE Good(Hole(stage))
<1> DEFINE targets == Resolve(bodies, F.targets)
           tools == [i \in DOMAIN F.positions |-> MadeBy(next, i, F.positions[i])]
           cut == BodyOpOn(targets, tools, "cut", {}, NoSeed, stage)
           kept == [cut EXCEPT !.seed = KeptTools("hole", tools)]
           lost == Unresolved(bodies, F.targets)
           many == F.ownsFace /\ Cardinality(targets) # 1
           miss == \E i \in DOMAIN tools : tools[i].cells \cap Cells(Pick(bodies, targets)) = {}
<1>1. Hole(stage) = CASE lost -> Unchanged("REF_NOT_FOUND")
                      [] many -> Unchanged("REF_AMBIGUOUS")
                      [] miss -> Unchanged("HOLE_MISSES_BODY")
                      [] OTHER -> IF cut.code = "OK" THEN kept ELSE cut
  BY DEF Hole
<1>2. Passes(cut)
      /\ DOMAIN cut = {"code", "bodies", "aliases", "regions", "datum", "seed", "report", "removed"}
  BY BodyOpOut
<1>3. KeptTools("hole", tools) # NoSeed <=> next \in SeedIds
  BY KeptToolsOut
<1> HIDE DEF cut, tools, lost, many, miss
<1>4. Good(IF cut.code = "OK" THEN kept ELSE cut)
  BY <1>2, <1>3 DEF Good, Passes, KeepsTools
<1>5. /\ Good(Unchanged("REF_NOT_FOUND")) /\ Good(Unchanged("REF_AMBIGUOUS"))
      /\ Good(Unchanged("HOLE_MISSES_BODY"))
  BY UnchangedGood
<1>6. CASE lost
  BY <1>1, <1>5, <1>6
<1>7. CASE ~ lost /\ many
  BY <1>1, <1>5, <1>7
<1>8. CASE ~ lost /\ ~ many /\ miss
  BY <1>1, <1>5, <1>8
<1>9. CASE ~ lost /\ ~ many /\ ~ miss
  BY <1>1, <1>4, <1>9
<1> QED BY <1>6, <1>7, <1>8, <1>9

\* A run of seeds that fails anywhere gives the part back as it was.
LEMMA SeedsGood ==
  ASSUME NEW order, NEW fail, F.type \notin {"sweep", "hole"}
  PROVE  Good(ApplySeeds(order, fail))
<1> DEFINE after[k \in 0 .. Len(order)] ==
             IF k = 0 THEN Unchanged("OK")
             ELSE ApplyOneSeed(after[k - 1], order[k], IF k = fail THEN "operation" ELSE "none")
           run == after[Len(order)]
           report == SortedSeq(run.report, LAMBDA a, b : Before(a.body, b.body))
           gone == run.removed \ Origins(run.bodies)
<1>1. ApplySeeds(order, fail) =
        IF run.code # "OK" THEN Restored(run)
        ELSE [Unchanged("OK") EXCEPT !.bodies = run.bodies, !.aliases = run.aliases,
                                     !.report = report, !.removed = gone]
  BY DEF ApplySeeds
<1> HIDE DEF run, report, gone
<1>2. run.code # "OK" => Good(Restored(run))
  BY UnchangedGood DEF Restored
<1>3. Good([Unchanged("OK") EXCEPT !.bodies = run.bodies, !.aliases = run.aliases,
                                   !.report = report, !.removed = gone])
  BY DEF Good, Passes, KeepsTools, Unchanged
<1> QED BY <1>1, <1>2, <1>3

LEMMA PatternGood ==
  ASSUME NEW fail, F.type = "pattern" PROVE Good(Pattern(fail))
BY UnchangedGood, SeedsGood DEF Pattern

LEMMA BodyPatternGood ==
  ASSUME NEW fail, F.type = "bodyPattern" PROVE Good(BodyPattern(fail))
BY UnchangedGood, SeedsGood DEF BodyPattern

(***************************************************************************)
(* The inductive invariant: what was not evaluated yet is as Init left it,  *)
(* and what a feature of the report rests on is settled.                    *)
(***************************************************************************)
Shape ==
  /\ doc \in Timelines /\ next \in Nat
  /\ DOMAIN infos = DOMAIN doc /\ DOMAIN sketches = DOMAIN doc
  /\ DOMAIN seeds = DOMAIN doc /\ DOMAIN features = DOMAIN doc
  /\ \A i \in DOMAIN doc : /\ DOMAIN sketches[i] = {"state", "regions"}
                          /\ infos[i].status \in {"Ok", "Suppressed", "Failed"}

AheadIsFresh ==
  \A i \in DOMAIN doc :
    i >= next => /\ infos[i] = NoInfo("Ok") /\ sketches[i] = NoSketch
                 /\ seeds[i] = NoSeed /\ features[i] = NoEntry

DoneIsOk == \A i \in DOMAIN doc : sketches[i].state = "Done" => infos[i].status = "Ok"

IInv == Shape /\ AheadIsFresh /\ DoneIsOk /\ OkRestsOnOk /\ SeedsAreExact

\* The body of FailurePassesThrough.
FailureStep ==
  Reported("Error") =>
    /\ bodies' = bodies /\ aliases' = aliases
    /\ infos' = [infos EXCEPT ![next] = NoInfo("Failed")]
    /\ seeds' = [seeds EXCEPT ![next] = NoSeed]
    /\ \A i \in DOMAIN doc \ {next} : sketches'[i] = sketches[i]
    /\ NewEntry.bodies = <<>> /\ NewEntry.removed = {}

\* The first state.
LEMMA InitInv == Init => IInv
<1> SUFFICES ASSUME Init PROVE IInv
  OBVIOUS
<1>1. Shape
  BY TimelinesAreSequences DEF Init, Shape, NoInfo, NoSketch
<1>2. AheadIsFresh /\ DoneIsOk
  BY DEF Init, AheadIsFresh, DoneIsOk, NoSketch
<1>3. OkRestsOnOk
  BY DEF Init, OkRestsOnOk, NoEntry
<1>4. SeedsAreExact
  BY TimelinesAreSequences DEF Init, SeedsAreExact
<1> QED BY <1>1, <1>2, <1>3, <1>4 DEF IInv

LEMMA IInvParts == IInv => Shape /\ AheadIsFresh /\ DoneIsOk /\ OkRestsOnOk /\ SeedsAreExact
BY DEF IInv

\* A dependency that stops nothing is a feature before this one that succeeded.
LEMMA GoodDep ==
  ASSUME IInv, NEW i \in DOMAIN doc, DepCode(i) = "OK"
  PROVE  i < next /\ infos[i].status = "Ok" /\ (doc[i].type = "sketch" => sketches[i].state = "Done")
<1> USE IInvParts
<1>1. i \in Nat /\ next \in Nat
  BY TimelinesAreSequences DEF Shape
<1>2. CASE doc[i].type = "sketch"
  <2>1. SketchDep(i) = "OK"
    BY <1>2 DEF DepCode
  <2>2. sketches[i].state = "Done"
    BY <2>1 DEF SketchDep
  <2>3. infos[i].status = "Ok"
    BY <2>2 DEF DoneIsOk
  <2>4. i < next
    BY <1>1, <2>2 DEF AheadIsFresh, NoSketch
  <2> QED BY <2>2, <2>3, <2>4
<1>3. CASE doc[i].type # "sketch"
  <2>1. ByIdDep(i) = "OK"
    BY <1>3 DEF DepCode
  <2>2. ~ (i >= next)
    BY <2>1 DEF ByIdDep
  <2>3. infos[i].status # "Suppressed" /\ infos[i].status # "Failed"
    BY <2>1, <2>2 DEF ByIdDep
  <2> QED BY <1>1, <1>3, <2>2, <2>3 DEF Shape
<1> QED BY <1>2, <1>3

\* The first bad dependency, in field order, is one.
LEMMA LowIsIn == ASSUME NEW S, S \subseteq Nat, S # {} PROVE Low(S) \in S
<1> DEFINE R == {ss \in Nat \X Nat : ss[1] < ss[2]}
<1>1. IsWellFoundedOn(R, Nat)
  BY NatLessThanWellFounded, Zenon DEF OpToRel
<1>2. PICK x \in S : \A y \in S : ~ (<<y, x>> \in R)
  BY <1>1, WFMin
<1>3. ASSUME NEW y \in S PROVE x <= y
  <2>1. x \in Nat /\ y \in Nat
    OBVIOUS
  <2>2. y < x => <<y, x>> \in R
    BY <2>1
  <2> HIDE DEF R
  <2> QED BY <1>2, <2>1, <2>2
<1> QED BY <1>3 DEF Low

LEMMA DepsAreFeatures ==
  ASSUME NEW d \in Timelines, NEW i \in DOMAIN d
  PROVE  Deps(d[i]) \in Seq(DOMAIN d)
<1> DEFINE f == d[i]
           first == CASE f.type = "sweep" -> <<f.sketch>> [] f.type = "pattern" -> f.seeds [] OTHER -> <<>>
<1>1. first \in Seq(DOMAIN d) /\ f.uses \in Seq(DOMAIN d)
  <2>1. /\ f.uses \in Seq(DOMAIN d)
        /\ f.type = "sweep" => f.sketch \in DOMAIN d
        /\ f.type = "pattern" => f.seeds \in Seq(DOMAIN d)
    BY TimelinesAreValid
  <2> HIDE DEF f
  <2>2. CASE f.type = "sweep"
    <3>1. first = <<f.sketch>>
      BY <2>2
    <3> QED BY <2>1, <2>2, <3>1
  <2>3. CASE f.type = "pattern"
    BY <2>1, <2>3
  <2>4. CASE f.type \notin {"sweep", "pattern"}
    <3>1. first = <<>>
      BY <2>4
    <3>2. <<>> \in Seq(DOMAIN d)
      OBVIOUS
    <3> HIDE DEF first
    <3> QED BY <2>1, <3>1, <3>2
  <2> QED BY <2>2, <2>3, <2>4
<1>2. Deps(f) = first \o f.uses
  BY DEF Deps
<1> HIDE DEF first, f
<1>3. first \o f.uses \in Seq(DOMAIN d)
  BY <1>1, ConcatProperties
<1> QED BY <1>2, <1>3 DEF f

LEMMA DepIsFeature ==
  ASSUME NEW d \in Timelines, NEW i \in DOMAIN d, NEW k \in DOMAIN Deps(d[i])
  PROVE  k \in Nat /\ Deps(d[i])[k] \in DOMAIN d
<1>1. Deps(d[i]) \in Seq(DOMAIN d)
  BY DepsAreFeatures
<1> QED BY <1>1, LenProperties

\* A feature whose operation runs has no bad dependency.
LEMMA NoneBad ==
  ASSUME IInv, next \in DOMAIN doc, NEW stage \in {"none", "operation"}, Stopped(stage) = "OK"
  PROVE  BadDeps = {}
<1>1. BadDeps # {} => DepCode(Deps(F)[Low(BadDeps)]) = "OK"
  BY DEF Stopped
<1>2. BadDeps \subseteq Nat
  BY DepIsFeature DEF BadDeps, F, IInv, Shape
<1>3. BadDeps # {} => Low(BadDeps) \in BadDeps
  BY <1>2, LowIsIn
<1> QED BY <1>1, <1>3 DEF BadDeps

\* Every evaluation that hands back a good outcome keeps the invariant and fails cleanly.
LEMMA ReportStep ==
  ASSUME IInv, next \in DOMAIN doc, NEW out, Report(out), Good(out), out.code = "OK" => BadDeps = {}
  PROVE  IInv' /\ FailureStep
<1> DEFINE ok == out.code = "OK"
           info == InfoAfter(out)
           entry == Entry(IF ok THEN "Ok" ELSE "Error", out)
           seed == SeedAfter(out)
<1>1. /\ bodies' = out.bodies /\ aliases' = out.aliases
      /\ infos' = [infos EXCEPT ![next] = info]
      /\ seeds' = [seeds EXCEPT ![next] = seed]
      /\ features' = [features EXCEPT ![next] = entry]
      /\ next' = next + 1 /\ doc' = doc
  BY DEF Report
<1>2. /\ DOMAIN sketches' = DOMAIN sketches
      /\ \A i \in DOMAIN doc \ {next} : sketches'[i] = sketches[i]
      /\ sketches'[next].state = "Done" => sketches[next].state = "Done" \/ ok
      /\ doc[next].type = "sketch" /\ ok => sketches'[next].state = "Done"
      /\ DOMAIN sketches'[next] = {"state", "regions"}
  <2>1. next \in DOMAIN sketches /\ DOMAIN sketches[next] = {"state", "regions"}
    BY DEF IInv, Shape
  <2>2. CASE F.type # "sketch"
    BY <2>1, <2>2 DEF Report, F
  <2>3. CASE F.type = "sketch" /\ ok
    BY <2>1, <2>3 DEF Report, F
  <2>4. CASE F.type = "sketch" /\ ~ ok
    BY <2>1, <2>4 DEF Report, F
  <2> QED BY <2>2, <2>3, <2>4
<1>3. /\ ok => info.status = "Ok"
      /\ ~ ok => info = NoInfo("Failed") /\ info.status = "Failed" /\ seed = NoSeed
      /\ entry.status = (IF ok THEN "Ok" ELSE "Error")
      /\ ~ ok => entry.bodies = <<>> /\ entry.removed = {}
      /\ ok => (seed # NoSeed <=> next \in SeedIds /\ doc[next].type \in {"sweep", "hole"})
  BY DEF InfoAfter, SeedAfter, Entry, NoInfo, Good, KeepsTools, F
<1>4. /\ next \in Nat /\ DOMAIN doc \subseteq Nat /\ doc \in Timelines
      /\ DOMAIN infos = DOMAIN doc /\ DOMAIN sketches = DOMAIN doc
      /\ DOMAIN seeds = DOMAIN doc /\ DOMAIN features = DOMAIN doc
  BY TimelinesAreSequences DEF IInv, Shape
<1> HIDE DEF info, entry, seed, ok
<1>5. /\ infos'[next] = info /\ seeds'[next] = seed /\ features'[next] = entry
      /\ \A i \in DOMAIN doc \ {next} : /\ infos'[i] = infos[i] /\ seeds'[i] = seeds[i]
                                       /\ features'[i] = features[i]
  BY <1>1, <1>4
<1>6. Shape'
  <2>1. \A i \in DOMAIN doc : DOMAIN sketches'[i] = {"state", "regions"}
    BY <1>2 DEF IInv, Shape
  <2>2. \A i \in DOMAIN doc : infos'[i].status \in {"Ok", "Suppressed", "Failed"}
    BY <1>3, <1>5 DEF IInv, Shape
  <2> QED BY <1>1, <1>2, <1>4, <2>1, <2>2 DEF Shape
<1>7. AheadIsFresh'
  BY <1>1, <1>2, <1>4, <1>5 DEF IInv, AheadIsFresh
<1>8. DoneIsOk'
  <2>1. sketches'[next].state = "Done" => ok
    BY <1>2, <1>4 DEF IInv, AheadIsFresh, NoSketch
  <2> QED BY <1>1, <1>2, <1>3, <1>5, <2>1 DEF IInv, DoneIsOk
<1>9. OkRestsOnOk'
  <2> SUFFICES ASSUME NEW k \in DOMAIN doc, features'[k].status = "Ok", NEW d \in DOMAIN Deps(doc[k])
               PROVE  LET i == Deps(doc[k])[d]
                      IN /\ i < k /\ infos'[i].status = "Ok"
                         /\ doc[i].type = "sketch" => sketches'[i].state = "Done"
    BY <1>1 DEF OkRestsOnOk
  <2> DEFINE i == Deps(doc[k])[d]
  <2>1. i \in DOMAIN doc /\ i \in Nat /\ k \in Nat
    BY <1>4, DepIsFeature
  <2>2. CASE k = next
    <3>1. ok /\ BadDeps = {}
      BY <1>3, <1>5, <2>2 DEF ok
    <3>2. DepCode(i) = "OK"
      BY <2>2, <3>1 DEF BadDeps, F
    <3>3. i < next /\ infos[i].status = "Ok" /\ (doc[i].type = "sketch" => sketches[i].state = "Done")
      BY <2>1, <3>2, GoodDep
    <3>4. infos'[i] = infos[i] /\ sketches'[i] = sketches[i]
      BY <1>2, <1>4, <1>5, <2>1, <3>3
    <3> QED BY <2>2, <3>3, <3>4
  <2>3. CASE k # next
    <3>1. features[k].status = "Ok"
      BY <1>5, <2>3
    <3>2. k < next
      BY <1>4, <2>1, <3>1 DEF IInv, AheadIsFresh, NoEntry
    <3>3. i < k /\ infos[i].status = "Ok" /\ (doc[i].type = "sketch" => sketches[i].state = "Done")
      BY <3>1 DEF IInv, OkRestsOnOk
    <3>4. infos'[i] = infos[i] /\ sketches'[i] = sketches[i]
      BY <1>2, <1>4, <1>5, <2>1, <3>2, <3>3
    <3> QED BY <3>3, <3>4
  <2> QED BY <2>2, <2>3
<1>10. SeedsAreExact'
  <2>1. SeedIds' = SeedIds
    BY <1>1 DEF SeedIds
  <2> SUFFICES ASSUME NEW i \in DOMAIN doc
               PROVE  seeds'[i] # NoSeed <=>
                        /\ i < next + 1 /\ i \in SeedIds /\ infos'[i].status = "Ok"
                        /\ doc[i].type \in {"sweep", "hole"}
    BY <1>1, <2>1 DEF SeedsAreExact
  <2>2. CASE i = next
    BY <1>3, <1>4, <1>5, <2>2
  <2>3. CASE i # next
    BY <1>4, <1>5, <2>3 DEF IInv, SeedsAreExact
  <2> QED BY <2>2, <2>3
<1>11. FailureStep
  <2> SUFFICES ASSUME Reported("Error") PROVE FailureStep
    BY DEF FailureStep
  <2>1. ~ ok
    BY <1>3, <1>5 DEF Reported, NewEntry
  <2>2. bodies' = bodies /\ aliases' = aliases
    BY <1>1, <2>1 DEF Good, Passes, ok
  <2> QED BY <1>1, <1>2, <1>3, <1>5, <2>1, <2>2 DEF FailureStep, NewEntry
<1> QED BY <1>6, <1>7, <1>8, <1>9, <1>10, <1>11 DEF IInv

LEMMA SuppressStep == IInv /\ Suppress => IInv' /\ FailureStep
<1> SUFFICES ASSUME IInv, Suppress PROVE IInv' /\ FailureStep
  OBVIOUS
<1>1. /\ next \in Nat /\ DOMAIN doc \subseteq Nat /\ doc \in Timelines /\ next \in DOMAIN doc
      /\ DOMAIN infos = DOMAIN doc /\ DOMAIN sketches = DOMAIN doc
      /\ DOMAIN seeds = DOMAIN doc /\ DOMAIN features = DOMAIN doc
  BY TimelinesAreSequences DEF IInv, Shape, Suppress
<1>2. infos[next] = NoInfo("Ok") /\ sketches[next] = NoSketch
      /\ seeds[next] = NoSeed /\ features[next] = NoEntry
  BY <1>1 DEF IInv, AheadIsFresh
<1>3. /\ DOMAIN infos' = DOMAIN doc /\ infos'[next].status = "Suppressed"
      /\ \A i \in DOMAIN doc \ {next} : infos'[i] = infos[i]
      /\ next' = next + 1 /\ UNCHANGED <<doc, bodies, aliases, seeds, features>>
  BY <1>1, <1>2 DEF Suppress, NoInfo
<1>4. /\ DOMAIN sketches' = DOMAIN doc
      /\ \A i \in DOMAIN doc \ {next} : sketches'[i] = sketches[i]
      /\ DOMAIN sketches'[next] = {"state", "regions"} /\ sketches'[next].state # "Done"
  <2>1. CASE F.type = "sketch"
    BY <1>1, <1>2, <2>1 DEF Suppress, NoSketch
  <2>2. CASE F.type # "sketch"
    BY <1>1, <1>2, <2>2 DEF Suppress, NoSketch
  <2> QED BY <2>1, <2>2
<1>5. Shape' /\ AheadIsFresh' /\ DoneIsOk'
  BY <1>1, <1>3, <1>4 DEF IInv, Shape, AheadIsFresh, DoneIsOk
<1>6. OkRestsOnOk'
  <2> SUFFICES ASSUME NEW k \in DOMAIN doc, features[k].status = "Ok", NEW d \in DOMAIN Deps(doc[k])
               PROVE  LET i == Deps(doc[k])[d]
                      IN /\ i < k /\ infos'[i].status = "Ok"
                         /\ doc[i].type = "sketch" => sketches'[i].state = "Done"
    BY <1>3 DEF OkRestsOnOk
  <2> DEFINE i == Deps(doc[k])[d]
  <2>1. i \in DOMAIN doc /\ i \in Nat /\ k \in Nat
    BY <1>1, DepIsFeature
  <2>2. k < next
    BY <1>1, <2>1 DEF IInv, AheadIsFresh, NoEntry
  <2>3. i < k /\ infos[i].status = "Ok" /\ (doc[i].type = "sketch" => sketches[i].state = "Done")
    BY DEF IInv, OkRestsOnOk
  <2> QED BY <1>1, <1>3, <1>4, <2>1, <2>2, <2>3
<1>7. SeedsAreExact'
  <2>1. SeedIds' = SeedIds
    BY <1>3 DEF SeedIds
  <2>2. ASSUME NEW i \in DOMAIN doc
        PROVE  seeds[i] # NoSeed <=>
                 /\ i < next + 1 /\ i \in SeedIds /\ infos'[i].status = "Ok"
                 /\ doc[i].type \in {"sweep", "hole"}
    BY <1>1, <1>2, <1>3 DEF IInv, SeedsAreExact
  <2> QED BY <1>3, <2>1, <2>2 DEF SeedsAreExact
<1> QED BY <1>3, <1>5, <1>6, <1>7 DEF IInv, FailureStep, Reported

LEMMA FinishStep == IInv /\ Finish => IInv' /\ FailureStep
<1> SUFFICES ASSUME IInv, Finish PROVE IInv' /\ FailureStep
  OBVIOUS
<1>1. /\ next' = next + 1 /\ next = Len(doc) + 1 /\ doc \in Timelines /\ next \in Nat
      /\ UNCHANGED <<doc, aliases, infos, sketches, seeds, features>>
  BY DEF Finish, IInv, Shape
<1>2. DOMAIN doc = 1 .. Len(doc) /\ Len(doc) \in Nat
  BY <1>1, TimelinesAreSequences
<1>3. Shape' /\ DoneIsOk' /\ OkRestsOnOk'
  BY <1>1 DEF IInv, Shape, DoneIsOk, OkRestsOnOk
<1>4. AheadIsFresh'
  BY <1>1, <1>2 DEF IInv, AheadIsFresh
<1>5. SeedsAreExact'
  <2>1. SeedIds' = SeedIds
    BY <1>1 DEF SeedIds
  <2>2. \A i \in DOMAIN doc : i < next /\ i < next + 1
    BY <1>1, <1>2
  <2> QED BY <1>1, <2>1, <2>2 DEF IInv, SeedsAreExact
<1> QED BY <1>1, <1>3, <1>4, <1>5 DEF IInv, FailureStep, Reported

LEMMA NextStep == IInv /\ [Next]_vars => IInv' /\ FailureStep
<1> SUFFICES ASSUME IInv, [Next]_vars PROVE IInv' /\ FailureStep
  OBVIOUS
<1>1. CASE Suppress
  BY <1>1, SuppressStep
<1>2. CASE Stop
  <2>1. PICK stage \in {"none", "suppression", "parameter", "field"} :
          /\ next \in DOMAIN doc /\ Stopped(stage) # "OK" /\ Report(Unchanged(Stopped(stage)))
    BY <1>2 DEF Stop
  <2>2. Good(Unchanged(Stopped(stage))) /\ Unchanged(Stopped(stage)).code # "OK"
    BY <2>1, UnchangedGood, UnchangedOut
  <2> QED BY <2>1, <2>2, ReportStep
<1>3. ASSUME NEW type, NEW stage, NEW out, Runs(type, stage), Report(out), Good(out)
      PROVE  IInv' /\ FailureStep
  <2>1. next \in DOMAIN doc /\ stage \in {"none", "operation"} /\ Stopped(stage) = "OK"
    BY <1>3 DEF Runs, Turn
  <2>2. BadDeps = {}
    BY <2>1, NoneBad
  <2> QED BY <1>3, <2>1, <2>2, ReportStep
<1>4. ASSUME NEW type, NEW stage, Runs(type, stage)
      PROVE  /\ F.type = type
             /\ type = "sweep" => F.op # "none"
  <2>1. doc \in Timelines /\ next \in DOMAIN doc /\ F.type = type
    BY <1>4 DEF Runs, Turn, IInv, Shape
  <2>2. type = "sweep" => doc[next].op \in BodyOps \cup {"new_body"}
    BY <2>1, TimelinesAreValid DEF F
  <2> QED BY <2>1, <2>2 DEF F, BodyOps
<1>5. CASE EvalSketch
  BY <1>3, <1>4, <1>5, SketchGood DEF EvalSketch
<1>6. CASE EvalSweep
  BY <1>3, <1>4, <1>6, SweepGood DEF EvalSweep
<1>7. CASE EvalBoolean
  BY <1>3, <1>4, <1>7, BooleanGood DEF EvalBoolean
<1>8. CASE EvalHole
  BY <1>3, <1>4, <1>8, HoleGood DEF EvalHole
<1>9. CASE EvalBlend
  BY <1>3, <1>4, <1>9, BlendGood DEF EvalBlend
<1>10. CASE EvalDatum
  BY <1>3, <1>4, <1>10, DatumGood DEF EvalDatum
<1>11. CASE EvalTag
  BY <1>3, <1>4, <1>11, TagGood DEF EvalTag
<1>12. CASE EvalPattern
  BY <1>3, <1>4, <1>12, PatternGood DEF EvalPattern
<1>13. CASE EvalBodyPattern
  BY <1>3, <1>4, <1>13, BodyPatternGood DEF EvalBodyPattern
<1>14. CASE Finish
  BY <1>14, FinishStep
<1>15. CASE UNCHANGED vars
  <2>1. IInv'
    BY <1>15 DEF IInv, Shape, AheadIsFresh, DoneIsOk, OkRestsOnOk, SeedsAreExact, SeedIds, vars
  <2> QED BY <1>15, <2>1 DEF FailureStep, Reported, vars
<1> QED BY <1>1, <1>2, <1>5, <1>6, <1>7, <1>8, <1>9, <1>10, <1>11, <1>12, <1>13, <1>14, <1>15 DEF Next

\* The strengthening of the next two invariants holds throughout an evaluation.
LEMMA IInvHolds == Spec => []IInv
BY InitInv, NextStep, PTL DEF Spec

\* A feature reports success only when every feature it names by id succeeded before it.
THEOREM OkRestsOnOkHolds == Spec => []OkRestsOnOk
BY IInvHolds, IInvParts, PTL

\* Exactly the sweeps and holes that succeeded keep tools for the patterns that name them.
THEOREM SeedsAreExactHolds == Spec => []SeedsAreExact
BY IInvHolds, IInvParts, PTL

\* A failing feature leaves the part, the other features' state and the tools as they were.
THEOREM FailurePassesThroughHolds == Spec => FailurePassesThrough
<1>1. IInv /\ [Next]_vars => [FailureStep]_vars
  BY NextStep
<1>2. [FailureStep]_vars <=>
        [Reported("Error") =>
           /\ bodies' = bodies /\ aliases' = aliases
           /\ infos' = [infos EXCEPT ![next] = NoInfo("Failed")]
           /\ seeds' = [seeds EXCEPT ![next] = NoSeed]
           /\ \A i \in DOMAIN doc \ {next} : sketches'[i] = sketches[i]
           /\ NewEntry.bodies = <<>> /\ NewEntry.removed = {}]_vars
  BY DEF FailureStep
<1> QED BY <1>1, <1>2, IInvHolds, PTL DEF Spec, FailurePassesThrough

(***************************************************************************)
(* The bodies, the sketches' regions and the kept tools have their types,  *)
(* so every step's report and removals are right.                          *)
(***************************************************************************)
Drawn(s) == s.regions \in Seq(Interval)
TInv ==
  /\ bodies \in Seq(Body)
  /\ \A i \in DOMAIN doc : Drawn(sketches[i]) /\ (seeds[i] = NoSeed \/ IsSeed(seeds[i]))

\* The bodies of RemovedIsExact and ReportIsTheChange.
RemovedStep ==
  Reported("Ok") =>
    LET gone == Origins(bodies) \ Origins(bodies')
        tools == IF F.type # "boolean" \/ F.keepTools THEN {}
                 ELSE Origins(Pick(bodies, Resolve(bodies, F.tools)))
    IN /\ NewEntry.removed \cap Origins(bodies') = {}
       /\ gone \subseteq NewEntry.removed \cup tools
       /\ \A o \in NewEntry.removed \ gone : o.feature = next /\ F.type = "pattern"
ListedStep ==
  Reported("Ok") /\ F.type \notin {"pattern", "bodyPattern"} =>
    \A b \in Carried \cup ListedBodies :
      Count(bodies', b) = Count(Pick(bodies, DOMAIN bodies \ ActedOn), b) + Entries(NewEntry, b)

\* The first state.
LEMMA InitTypes == Init => TInv
<1>1. <<>> \in Seq(Body) /\ <<>> \in Seq(Interval)
  OBVIOUS
<1>2. Drawn(NoSketch)
  BY <1>1 DEF Drawn, NoSketch
<1> QED BY <1>1, <1>2 DEF Init, TInv

\* A step without a report claims nothing.
LEMMA NoReport ==
  ASSUME features' = features
  PROVE  RemovedStep /\ ListedStep
BY DEF RemovedStep, ListedStep, Reported

\* Reporting what is right keeps the types and makes the report right.
LEMMA RightStep ==
  ASSUME IInv, TInv, next \in DOMAIN doc, NEW out, Report(out), Right(out), Passes(out)
  PROVE  TInv' /\ RemovedStep /\ ListedStep
<1> DEFINE ok == out.code = "OK"
           entry == Entry(IF ok THEN "Ok" ELSE "Error", out)
           seed == SeedAfter(out)
<1>1. /\ bodies' = out.bodies /\ seeds' = [seeds EXCEPT ![next] = seed]
      /\ features' = [features EXCEPT ![next] = entry] /\ doc' = doc
  BY DEF Report
<1>2. /\ DOMAIN sketches = DOMAIN doc /\ DOMAIN seeds = DOMAIN doc /\ DOMAIN features = DOMAIN doc
      /\ \A i \in DOMAIN doc : DOMAIN sketches[i] = {"state", "regions"}
  BY DEF IInv, Shape
<1>3. ok => Tidy(out) /\ RemovesRight(out) /\ (F.type \notin {"pattern", "bodyPattern"} => ListsRight(out))
  BY DEF Right
<1>4. /\ bodies \in Seq(Body)
      /\ \A i \in DOMAIN doc : Drawn(sketches[i])
      /\ \A i \in DOMAIN doc : seeds[i] = NoSeed \/ IsSeed(seeds[i])
  BY DEF TInv
<1>5. bodies' \in Seq(Body)
  BY <1>1, <1>3, <1>4 DEF Tidy, Passes
<1>6. \A i \in DOMAIN doc : Drawn(sketches'[i])
  <2>1. CASE F.type # "sketch"
    <3>1. sketches' = sketches
      BY <2>1 DEF Report
    <3> QED BY <1>4, <3>1
  <2>2. CASE F.type = "sketch"
    <3> DEFINE new == IF ok THEN [state |-> "Done", regions |-> out.regions]
                      ELSE [state |-> "Failed", regions |-> <<>>]
    <3>1. sketches' = [sketches EXCEPT ![next] = new]
      BY <2>2 DEF Report
    <3>2. <<>> \in Seq(Interval)
      OBVIOUS
    <3>3. Drawn(new)
      BY <1>3, <3>2 DEF Drawn, Tidy
    <3> HIDE DEF new
    <3> QED BY <1>2, <1>4, <3>1, <3>3
  <2> QED BY <2>1, <2>2
<1>7. seed = NoSeed \/ IsSeed(seed)
  BY <1>3 DEF SeedAfter, Tidy
<1>8. entry.status = "Ok" => ok /\ entry.bodies = out.report /\ entry.removed = out.removed
  BY DEF Entry
<1> HIDE DEF seed, entry, ok
<1>9. \A i \in DOMAIN doc : seeds'[i] = NoSeed \/ IsSeed(seeds'[i])
  BY <1>1, <1>2, <1>4, <1>7
<1>10. TInv'
  BY <1>1, <1>5, <1>6, <1>9 DEF TInv, Drawn, Body, Interval, IsInterval, IsSeed, NoSeed, BodyOps
<1>11. NewEntry = entry
  BY <1>1, <1>2 DEF NewEntry
<1>12. RemovedStep
  <2> SUFFICES ASSUME Reported("Ok") PROVE RemovedStep
    BY DEF RemovedStep
  <2>1. ok /\ entry.removed = out.removed
    BY <1>8, <1>11 DEF Reported
  <2>2. RemovesRight(out)
    BY <1>3, <2>1
  <2>3. Origins(bodies') = Origins(out.bodies)
    BY <1>1
  <2> QED BY <1>11, <2>1, <2>2, <2>3 DEF RemovedStep, RemovesRight, ToolOrigins
<1>13. ListedStep
  <2> SUFFICES ASSUME Reported("Ok"), F.type \notin {"pattern", "bodyPattern"}
               PROVE  \A b : Count(bodies', b)
                               = Count(Rest(bodies, ActedOn), b) + Entries(NewEntry, b)
    BY DEF ListedStep, Rest
  <2>1. ok /\ entry.bodies = out.report
    BY <1>8, <1>11 DEF Reported
  <2>2. ListsRight(out)
    BY <1>3, <2>1
  <2>3. \A b : Entries(NewEntry, b) = Listings(out, b)
    BY <1>11, <2>1 DEF Entries, Listings
  <2>4. \A b : Count(bodies', b) = Count(out.bodies, b)
    BY <1>1
  <2> QED BY <2>2, <2>3, <2>4 DEF ListsRight
<1> QED BY <1>10, <1>12, <1>13

\* What the timeline gives a feature whose turn it is.
LEMMA FeatureIs ==
  ASSUME IInv, TInv, next \in DOMAIN doc
  PROVE  /\ next \in Nat /\ DOMAIN doc \subseteq Int /\ IsFiniteSet(DOMAIN doc)
         /\ F.type = "sketch" => AreIntervals(F.regions)
         /\ F.type = "sweep" => F.op \in BodyOps \cup {"new_body"} /\ Drawn(sketches[F.sketch])
         /\ F.type = "boolean" => F.op \in BodyOps
         /\ F.type = "hole" => AreIntervals(F.positions)
         /\ F.type = "pattern" => F.shifts \in Seq(Int) /\ F.seeds \in Seq(DOMAIN doc)
         /\ F.type = "bodyPattern" => F.shifts \in Seq(Int) /\ F.op \in {"join", "new_body"}
<1>1. doc \in Timelines /\ next \in Nat
  BY DEF IInv, Shape
<1>2. DOMAIN doc = 1 .. Len(doc) /\ Len(doc) \in Nat
  BY <1>1, TimelinesAreSequences
<1>3. IsFiniteSet(DOMAIN doc) /\ DOMAIN doc \subseteq Int
  BY <1>2, FS_Interval
<1>4. /\ F.type = "sweep" => F.sketch \in DOMAIN doc /\ F.op \in BodyOps \cup {"new_body"}
      /\ F.type = "boolean" => F.op \in BodyOps
      /\ F.type = "pattern" => F.seeds \in Seq(DOMAIN doc)
      /\ F.type = "bodyPattern" => F.op \in {"join", "new_body"}
  BY <1>1, TimelinesAreValid DEF F
<1>5. /\ F.type = "sketch" => AreIntervals(F.regions)
      /\ F.type = "hole" => AreIntervals(F.positions)
      /\ F.type \in {"pattern", "bodyPattern"} => F.shifts \in Seq(Int)
  BY <1>1, GeometryIsOfIntervals DEF F
<1>6. \A i \in DOMAIN doc : Drawn(sketches[i])
  BY DEF TInv
<1> QED BY <1>1, <1>3, <1>4, <1>5, <1>6

\* Every step: what each feature hands back is right.
LEMMA RightNext == IInv /\ TInv /\ [Next]_vars => TInv' /\ RemovedStep /\ ListedStep
<1> SUFFICES ASSUME IInv, TInv, [Next]_vars PROVE TInv' /\ RemovedStep /\ ListedStep
  OBVIOUS
<1>0. bodies \in Seq(Body)
  BY DEF TInv
<1>1. CASE Suppress
  <2>1. /\ features' = features /\ bodies' = bodies /\ seeds' = seeds /\ doc' = doc /\ next \in DOMAIN doc
        /\ sketches' = IF F.type # "sketch" THEN sketches ELSE [sketches EXCEPT ![next].state = "Suppressed"]
    BY <1>1 DEF Suppress
  <2>2. \A i \in DOMAIN doc : DOMAIN sketches[i] = {"state", "regions"}
    BY DEF IInv, Shape
  <2>3. \A i \in DOMAIN doc : sketches'[i].regions = sketches[i].regions
    BY <2>1, <2>2 DEF IInv, Shape
  <2>4. \A i \in DOMAIN doc : Drawn(sketches[i]) => Drawn(sketches'[i])
    BY <2>3 DEF Drawn
  <2>5. TInv'
    BY <2>1, <2>4 DEF TInv, Body, Interval, IsInterval, IsSeed, NoSeed, BodyOps, Drawn
  <2> QED BY <2>1, <2>5, NoReport
<1>2. CASE Finish
  <2>1. /\ features' = features /\ bodies' = Canonical(bodies)
        /\ seeds' = seeds /\ doc' = doc /\ sketches' = sketches
    BY <1>2 DEF Finish
  <2>2. bodies' \in Seq(Body)
    BY <1>0, <2>1, CanonicalIs
  <2>3. TInv'
    BY <2>1, <2>2 DEF TInv, Body, Interval, IsInterval, IsSeed, NoSeed, BodyOps, Drawn
  <2> QED BY <2>1, <2>3, NoReport
<1>3. CASE UNCHANGED vars
  <2>1. features' = features /\ bodies' = bodies /\ seeds' = seeds /\ doc' = doc /\ sketches' = sketches
    BY <1>3 DEF vars
  <2>2. TInv'
    BY <2>1 DEF TInv, Body, Interval, IsInterval, IsSeed, NoSeed, BodyOps, Drawn
  <2> QED BY <2>1, <2>2, NoReport
<1>4. CASE Stop
  <2>1. PICK stage \in {"none", "suppression", "parameter", "field"} :
          next \in DOMAIN doc /\ Stopped(stage) # "OK" /\ Report(Unchanged(Stopped(stage)))
    BY <1>4 DEF Stop
  <2>2. Right(Unchanged(Stopped(stage))) /\ Passes(Unchanged(Stopped(stage)))
    BY <1>0, <2>1, UnchangedRight, UnchangedOut
  <2> QED BY <2>1, <2>2, RightStep
<1>5. ASSUME NEW type, NEW stage, NEW out, Runs(type, stage), Report(out), Right(out), Good(out)
      PROVE  TInv' /\ RemovedStep /\ ListedStep
  <2>1. next \in DOMAIN doc /\ Passes(out)
    BY <1>5 DEF Runs, Turn, Good
  <2> QED BY <1>5, <2>1, RightStep
<1>6. ASSUME NEW type, NEW stage, Runs(type, stage)
      PROVE  F.type = type /\ next \in DOMAIN doc
  BY <1>6 DEF Runs, Turn
<1>7. CASE EvalSketch
  <2>1. PICK stage \in {"none", "operation"} : Runs("sketch", stage) /\ Report(Sketch(stage))
    BY <1>7 DEF EvalSketch
  <2>2. F.type = "sketch" /\ AreIntervals(F.regions)
    BY <1>6, <2>1, FeatureIs
  <2>3. Right(Sketch(stage)) /\ Good(Sketch(stage))
    BY <1>0, <2>2, SketchRight, SketchGood
  <2> QED BY <1>5, <2>1, <2>3
<1>8. CASE EvalSweep
  <2>1. PICK stage \in {"none", "operation"} : Runs("sweep", stage) /\ Report(Sweep(stage))
    BY <1>8 DEF EvalSweep
  <2>2. F.type = "sweep" /\ next \in DOMAIN doc
    BY <1>6, <2>1
  <2>3. F.op \in BodyOps \cup {"new_body"} /\ Drawn(sketches[F.sketch]) /\ next \in Nat
    BY <2>2, FeatureIs
  <2>4. Right(Sweep(stage))
    BY <1>0, <2>2, <2>3, SweepRight DEF Drawn
  <2>5. Good(Sweep(stage))
    <3>1. F.op # "none"
      BY <2>3 DEF BodyOps
    <3> QED BY <2>2, <3>1, SweepGood
  <2> QED BY <1>5, <2>1, <2>4, <2>5
<1>9. CASE EvalBoolean
  <2>1. PICK stage \in {"none", "operation"} : Runs("boolean", stage) /\ Report(Boolean(stage))
    BY <1>9 DEF EvalBoolean
  <2>2. F.type = "boolean" /\ F.op \in BodyOps
    BY <1>6, <2>1, FeatureIs
  <2>3. Right(Boolean(stage)) /\ Good(Boolean(stage))
    BY <1>0, <2>2, BooleanRight, BooleanGood
  <2> QED BY <1>5, <2>1, <2>3
<1>10. CASE EvalHole
  <2>1. PICK stage \in {"none", "operation"} : Runs("hole", stage) /\ Report(Hole(stage))
    BY <1>10 DEF EvalHole
  <2>2. F.type = "hole" /\ AreIntervals(F.positions) /\ next \in Nat
    BY <1>6, <2>1, FeatureIs
  <2>3. Right(Hole(stage)) /\ Good(Hole(stage))
    BY <1>0, <2>2, HoleRight, HoleGood
  <2> QED BY <1>5, <2>1, <2>3
<1>11. CASE EvalBlend
  <2>1. PICK stage \in {"none", "operation"} : Runs("blend", stage) /\ Report(Blend(stage))
    BY <1>11 DEF EvalBlend
  <2>2. Right(Blend(stage)) /\ Good(Blend(stage))
    BY <1>0, <1>6, <2>1, BlendRight, BlendGood
  <2> QED BY <1>5, <2>1, <2>2
<1>12. CASE EvalDatum
  <2>1. PICK stage \in {"none", "operation"} : Runs("datum", stage) /\ Report(Datum(stage))
    BY <1>12 DEF EvalDatum
  <2>2. Right(Datum(stage)) /\ Good(Datum(stage))
    BY <1>0, <1>6, <2>1, DatumRight, DatumGood
  <2> QED BY <1>5, <2>1, <2>2
<1>13. CASE EvalTag
  <2>1. Runs("tag", "none") /\ Report(Tag("none"))
    BY <1>13 DEF EvalTag
  <2>2. Right(Tag("none")) /\ Good(Tag("none"))
    BY <1>0, <1>6, <2>1, TagRight, TagGood
  <2> QED BY <1>5, <2>1, <2>2
<1>14. CASE EvalPattern
  <2>1. PICK fail \in 0 .. Len(F.seeds) :
          Runs("pattern", IF fail = 0 THEN "none" ELSE "operation") /\ Report(Pattern(fail))
    BY <1>14 DEF EvalPattern
  <2>2. F.type = "pattern" /\ next \in DOMAIN doc
    BY <1>6, <2>1
  <2>3. /\ next \in Int /\ F.shifts \in Seq(Int) /\ F.seeds \in Seq(DOMAIN doc)
        /\ IsFiniteSet(DOMAIN doc) /\ DOMAIN doc \subseteq Int
    BY <2>2, FeatureIs
  <2>4. \A i \in DOMAIN doc : seeds[i] = NoSeed \/ IsSeed(seeds[i])
    BY DEF TInv
  <2>5. Right(Pattern(fail))
    BY <1>0, <2>2, <2>3, <2>4, PatternRight
  <2>6. Good(Pattern(fail))
    BY <2>2, PatternGood
  <2> QED BY <1>5, <2>1, <2>5, <2>6
<1>15. CASE EvalBodyPattern
  <2>1. PICK fail \in 0 .. 1 :
          Runs("bodyPattern", IF fail = 0 THEN "none" ELSE "operation") /\ Report(BodyPattern(fail))
    BY <1>15 DEF EvalBodyPattern
  <2>2. F.type = "bodyPattern" /\ next \in DOMAIN doc
    BY <1>6, <2>1
  <2>3. next \in Int /\ F.shifts \in Seq(Int) /\ F.op \in {"join", "new_body"}
    BY <2>2, FeatureIs
  <2>4. Right(BodyPattern(fail))
    BY <1>0, <2>2, <2>3, BodyPatternRight
  <2>5. Good(BodyPattern(fail))
    BY <2>2, BodyPatternGood
  <2> QED BY <1>5, <2>1, <2>4, <2>5
<1> QED BY <1>1, <1>2, <1>3, <1>4, <1>7, <1>8, <1>9, <1>10, <1>11, <1>12, <1>13, <1>14, <1>15 DEF Next

\* The types hold in every state.
LEMMA TInvHolds == Spec => []TInv
<1>1. Init => TInv
  BY InitTypes
<1>2. IInv /\ TInv /\ [Next]_vars => TInv'
  BY RightNext
<1> QED BY <1>1, <1>2, IInvHolds, PTL DEF Spec

\* Whatever vanished from the part with a feature's success is reported as removed, and nothing
\* that is still in it: PartEval's removed list against the bodies before and after.
THEOREM RemovedIsExactHolds == Spec => RemovedIsExact
<1>1. IInv /\ TInv /\ [Next]_vars => [RemovedStep]_vars
  BY RightNext
<1>2. [RemovedStep]_vars <=>
        [Reported("Ok") =>
           LET gone == Origins(bodies) \ Origins(bodies')
               tools == IF F.type # "boolean" \/ F.keepTools THEN {}
                        ELSE Origins(Pick(bodies, Resolve(bodies, F.tools)))
           IN /\ NewEntry.removed \cap Origins(bodies') = {}
              /\ gone \subseteq NewEntry.removed \cup tools
              /\ \A o \in NewEntry.removed \ gone : o.feature = next /\ F.type = "pattern"]_vars
  BY DEF RemovedStep
<1> QED BY <1>1, <1>2, IInvHolds, TInvHolds, PTL DEF Spec, RemovedIsExact

\* A success that is no pattern's lists the bodies it created or modified and no other: the part
\* after it is what the feature did not act on, together with what its entry lists.  PartEval's
\* created and modified, which its commit takes from forge-ops, against the tools' reach.
THEOREM ReportIsTheChangeHolds == Spec => ReportIsTheChange
<1>1. IInv /\ TInv /\ [Next]_vars => [ListedStep]_vars
  BY RightNext
<1>2. [ListedStep]_vars <=>
        [Reported("Ok") /\ F.type \notin {"pattern", "bodyPattern"} =>
           \A b \in Carried \cup ListedBodies :
             Count(bodies', b) = Count(Pick(bodies, DOMAIN bodies \ ActedOn), b) + Entries(NewEntry, b)]_vars
  BY DEF ListedStep
<1> QED BY <1>1, <1>2, IInvHolds, TInvHolds, PTL DEF Spec, ReportIsTheChange

(***************************************************************************)
(* The order of the operands does not matter: what is put in order depends *)
(* only on how often each body is there.                                   *)
(***************************************************************************)
Less(S, v) == Cardinality({p \in S : Before(p[2], v)})
AtMost(S, v) == Cardinality({p \in S : ~ Before(v, p[2])})

\* The body at place k: fewer than k come before it, and at least k not after it.
LEMMA SlotIs ==
  ASSUME NEW S, IsFiniteSet(S), S \subseteq Int \X Body, NEW k \in 1 .. Cardinality(S),
         NEW v, v = InOrder(S, Before)[k]
  PROVE  /\ v \in Body
         /\ Less(S, v) < k /\ k <= AtMost(S, v)
<1> DEFINE s == InOrder(S, Before)
           n == Cardinality(S)
           A == {p \in S : Before(p[2], v)}
           B == {p \in S : ~ Before(v, p[2])}
<1>1. DOMAIN s = 1 .. n /\ n \in Nat /\ s \in Seq(Body)
  BY InOrderIs
<1>2. PICK at : Lists(at, s, S)
  BY InOrderIs
<1>3. /\ \A j \in 1 .. n : at[j] \in S /\ s[j] = at[j][2]
      /\ \A p \in S : \E j \in 1 .. n : at[j] = p
      /\ \A i, j \in 1 .. n : at[i] = at[j] => i = j
      /\ \A i, j \in 1 .. n : i < j => ~ Before(s[j], s[i])
  BY <1>2 DEF Lists, OneToOne
<1>4. v = s[k]
  OBVIOUS
<1> HIDE DEF s, n
<1>5. \A j \in 1 .. n : s[j] \in Body
  BY <1>1, SeqOfBodies
<1>6. k \in 1 .. n /\ k \in Nat
  BY DEF n
<1>7. v \in Body
  BY <1>4, <1>5, <1>6
<1> DEFINE C == {j \in 1 .. n : Before(s[j], v)}
           D == {j \in 1 .. n : ~ Before(v, s[j])}
<1>8. IsFiniteSet(1 .. n)
  BY <1>1, FS_Interval
<1>9. IsFiniteSet(C) /\ IsFiniteSet(D)
  <2>1. C \subseteq 1 .. n /\ D \subseteq 1 .. n
    OBVIOUS
  <2> HIDE DEF C, D
  <2> QED BY <1>8, <2>1, FS_Subset
<1>10. OneToOne(at, C, A)
  <2>1. \A j \in C : at[j] \in A
    BY <1>3
  <2>2. \A i, j \in C : at[i] = at[j] => i = j
    BY <1>3
  <2>3. ASSUME NEW p \in A PROVE \E j \in C : at[j] = p
    <3>1. PICK j \in 1 .. n : at[j] = p
      BY <1>3
    <3> QED BY <1>3, <3>1
  <2> HIDE DEF A, C
  <2> QED BY <2>1, <2>2, <2>3 DEF OneToOne
<1>11. OneToOne(at, D, B)
  <2>1. \A j \in D : at[j] \in B
    BY <1>3
  <2>2. \A i, j \in D : at[i] = at[j] => i = j
    BY <1>3
  <2>3. ASSUME NEW p \in B PROVE \E j \in D : at[j] = p
    <3>1. PICK j \in 1 .. n : at[j] = p
      BY <1>3
    <3> QED BY <1>3, <3>1
  <2> HIDE DEF B, D
  <2> QED BY <2>1, <2>2, <2>3 DEF OneToOne
<1>12. C \subseteq 1 .. k - 1
  <2>1. ASSUME NEW j \in C PROVE j \in 1 .. k - 1
    <3>1. j \in 1 .. n /\ Before(s[j], s[k])
      BY <1>4
    <3>2. ~ (k < j)
      <4>1. k < j => ~ Before(s[j], s[k])
        BY <1>3, <1>6, <3>1
      <4> QED BY <3>1, <4>1
    <3>3. k # j
      BY <1>4, <1>7, <3>1, BeforeIsStrict
    <3> QED BY <1>1, <1>6, <3>1, <3>2, <3>3
  <2> QED BY <2>1
<1>13. 1 .. k \subseteq D
  <2>1. ASSUME NEW j \in 1 .. k PROVE j \in 1 .. n /\ ~ Before(s[k], s[j])
    <3>1. j \in 1 .. n
      BY <1>1, <1>6
    <3>2. CASE j = k
      BY <1>4, <1>7, <3>1, <3>2, BeforeIsStrict
    <3>3. CASE j # k
      <4>1. j < k
        BY <1>6, <3>3
      <4> QED BY <1>3, <1>6, <3>1, <4>1
    <3> QED BY <3>1, <3>2, <3>3
  <2> QED BY <1>4, <2>1
<1> HIDE DEF A, B, C, D
<1>14. Cardinality(A) = Cardinality(C) /\ Cardinality(B) = Cardinality(D)
  <2>1. Cardinality(A) = Cardinality(C)
    BY ONLY <1>9, <1>10, SameSize
  <2>2. Cardinality(B) = Cardinality(D)
    BY ONLY <1>9, <1>11, SameSize
  <2> QED BY <2>1, <2>2
<1>15. IsFiniteSet(1 .. k - 1) /\ Cardinality(1 .. k - 1) = k - 1
  BY <1>6, FS_Interval
<1>16. IsFiniteSet(1 .. k) /\ Cardinality(1 .. k) = k
  BY <1>6, FS_Interval
<1>17. Cardinality(C) <= k - 1
  BY <1>12, <1>15, FS_Subset
<1>18. k <= Cardinality(D)
  BY <1>9, <1>13, <1>16, FS_Subset
<1>19. Cardinality(C) \in Nat /\ Cardinality(D) \in Nat
  BY <1>9, FS_CardinalityType
<1> QED BY <1>6, <1>7, <1>14, <1>17, <1>18, <1>19 DEF A, B, Less, AtMost

\* f pairs the members of S and U up, body by body.
Matches(f, S, U) == OneToOne(f, S, U) /\ \A p \in S : f[p][2] = p[2]

\* Matched pairs put the same number of bodies before any body.
LEMMA SameNumber ==
  ASSUME NEW S, NEW U, NEW f, IsFiniteSet(S), Matches(f, S, U), NEW v
  PROVE  Less(S, v) = Less(U, v) /\ AtMost(S, v) = AtMost(U, v)
<1> DEFINE A == {p \in S : Before(p[2], v)}
           B == {p \in U : Before(p[2], v)}
           C == {p \in S : ~ Before(v, p[2])}
           D == {p \in U : ~ Before(v, p[2])}
<1>1. /\ \A x \in S : f[x] \in U /\ f[x][2] = x[2]
      /\ \A x, y \in S : f[x] = f[y] => x = y
      /\ \A z \in U : \E x \in S : f[x] = z
  BY DEF Matches, OneToOne
<1>2. IsFiniteSet(A) /\ IsFiniteSet(C)
  <2>1. A \subseteq S /\ C \subseteq S
    OBVIOUS
  <2> HIDE DEF A, C
  <2> QED BY <2>1, FS_Subset
<1>3. OneToOne(f, A, B)
  <2>1. \A x \in A : f[x] \in B
    BY <1>1
  <2>2. \A x, y \in A : f[x] = f[y] => x = y
    BY <1>1
  <2>3. ASSUME NEW z \in B PROVE \E x \in A : f[x] = z
    <3>1. PICK x \in S : f[x] = z
      BY <1>1
    <3> QED BY <1>1, <3>1
  <2> HIDE DEF A, B
  <2> QED BY <2>1, <2>2, <2>3 DEF OneToOne
<1>4. OneToOne(f, C, D)
  <2>1. \A x \in C : f[x] \in D
    BY <1>1
  <2>2. \A x, y \in C : f[x] = f[y] => x = y
    BY <1>1
  <2>3. ASSUME NEW z \in D PROVE \E x \in C : f[x] = z
    <3>1. PICK x \in S : f[x] = z
      BY <1>1
    <3> QED BY <1>1, <3>1
  <2> HIDE DEF C, D
  <2> QED BY <2>1, <2>2, <2>3 DEF OneToOne
<1> HIDE DEF A, B, C, D
<1>5. Cardinality(B) = Cardinality(A)
  BY ONLY <1>2, <1>3, SameSize
<1>6. Cardinality(D) = Cardinality(C)
  BY ONLY <1>2, <1>4, SameSize
<1> QED BY <1>5, <1>6 DEF A, B, C, D, Less, AtMost

\* So matched pairs are the same sequence once they are in order.
LEMMA SameOrder ==
  ASSUME NEW S, NEW U, NEW f, IsFiniteSet(S), S \subseteq Int \X Body, U \subseteq Int \X Body,
         Matches(f, S, U)
  PROVE  InOrder(S, Before) = InOrder(U, Before)
<1> DEFINE s == InOrder(S, Before)
           u == InOrder(U, Before)
           n == Cardinality(S)
<1>1. OneToOne(f, S, U)
  BY DEF Matches
<1>2. IsFiniteSet(U) /\ Cardinality(U) = n
  BY ONLY IsFiniteSet(S), <1>1, SameSize
<1>3. s \in Seq(Body) /\ DOMAIN s = 1 .. n /\ n \in Nat
  BY InOrderIs
<1>4. u \in Seq(Body) /\ DOMAIN u = 1 .. n
  BY <1>2, InOrderIs
<1>5. ASSUME NEW k \in 1 .. n, NEW v, NEW w, v = s[k], w = u[k]
      PROVE  v = w
  <2>1. v \in Body /\ Less(S, v) < k /\ k <= AtMost(S, v)
    BY <1>5, SlotIs
  <2>2. w \in Body /\ Less(S, w) < k /\ k <= AtMost(S, w)
    <3>1. w \in Body /\ Less(U, w) < k /\ k <= AtMost(U, w)
      BY <1>2, <1>5, SlotIs
    <3>2. Less(S, w) = Less(U, w) /\ AtMost(S, w) = AtMost(U, w)
      BY ONLY IsFiniteSet(S), Matches(f, S, U), SameNumber
    <3> QED BY <3>1, <3>2
  <2>3. ASSUME NEW x \in Body, NEW y \in Body, Before(x, y) PROVE AtMost(S, x) <= Less(S, y)
    <3> DEFINE P == {p \in S : ~ Before(x, p[2])}
               Q == {p \in S : Before(p[2], y)}
    <3>1. ASSUME NEW p \in S, ~ Before(x, p[2]) PROVE Before(p[2], y)
      <4> DEFINE b == p[2]
      <4>1. b \in Body
        OBVIOUS
      <4> HIDE DEF b
      <4>2. b = x \/ Before(b, x)
        BY <3>1, <4>1, BeforeIsStrict DEF b
      <4>3. Before(b, y)
        BY <2>3, <4>1, <4>2, BeforeIsStrict
      <4> QED BY <4>3 DEF b
    <3>2. P \subseteq Q
      BY <3>1
    <3>3. Q \subseteq S
      OBVIOUS
    <3> HIDE DEF P, Q
    <3>4. IsFiniteSet(Q)
      BY <3>3, FS_Subset
    <3>5. Cardinality(P) <= Cardinality(Q)
      BY <3>2, <3>4, FS_Subset
    <3> QED BY <3>5 DEF P, Q, AtMost, Less
  <2>4. \A x \in Body : Less(S, x) \in Nat /\ AtMost(S, x) \in Nat
    <3>1. ASSUME NEW T \in SUBSET S PROVE Cardinality(T) \in Nat
      BY FS_Subset, FS_CardinalityType
    <3> QED BY <3>1 DEF Less, AtMost
  <2> HIDE DEF s, u, n
  <2>5. Less(S, v) \in Nat /\ AtMost(S, v) \in Nat /\ Less(S, w) \in Nat /\ AtMost(S, w) \in Nat /\ k \in Nat
    BY <1>3, <2>1, <2>2, <2>4
  <2>6. ~ Before(v, w)
    <3>1. Before(v, w) => AtMost(S, v) <= Less(S, w)
      BY <2>1, <2>2, <2>3
    <3> QED BY <2>1, <2>2, <2>5, <3>1
  <2>7. ~ Before(w, v)
    <3>1. Before(w, v) => AtMost(S, w) <= Less(S, v)
      BY <2>1, <2>2, <2>3
    <3> QED BY <2>1, <2>2, <2>5, <3>1
  <2> QED BY <2>1, <2>2, <2>6, <2>7, BeforeIsStrict
<1>6. \A k \in 1 .. n : s[k] = u[k]
  BY <1>5
<1> HIDE DEF s, u
<1>7. s = u
  BY <1>3, <1>4, <1>6, SeqEqual, LenProperties
<1> QED BY <1>7 DEF s, u

(***************************************************************************)
(* The operands in another order.                                          *)
(***************************************************************************)

\* s is t in another order: position i of s is position p[i] of t.
Reorders(p, s, t) == OneToOne(p, DOMAIN s, DOMAIN t) /\ \A i \in DOMAIN s : s[i] = t[p[i]]

\* What a reordering says, position by position.
LEMMA ReorderIs ==
  ASSUME NEW p, NEW s, NEW t, Reorders(p, s, t)
  PROVE  /\ \A i \in DOMAIN s : p[i] \in DOMAIN t /\ s[i] = t[p[i]]
         /\ \A j \in DOMAIN t : \E i \in DOMAIN s : p[i] = j /\ s[i] = t[j]
         /\ \A i, j \in DOMAIN s : p[i] = p[j] => i = j
BY DEF Reorders, OneToOne

\* The reverse of s is s reordered.
LEMMA ReverseReorders ==
  ASSUME NEW V, NEW s \in Seq(V)
  PROVE  Reverse(s) \in Seq(V) /\ \E p : Reorders(p, Reverse(s), s)
<1> DEFINE n == Len(s)
           r == Reverse(s)
           p == [i \in 1 .. n |-> n - i + 1]
<1>1. n \in Nat /\ DOMAIN s = 1 .. n /\ s \in [1 .. n -> V]
  BY LenProperties
<1>2. r = [i \in 1 .. n |-> s[(n - i) + 1]]
  BY DEF Reverse
<1> HIDE DEF r, n
<1>3. \A i \in 1 .. n : p[i] \in 1 .. n /\ p[i] = n - i + 1
  BY <1>1
<1>4. \A i \in 1 .. n : r[i] = s[p[i]]
  BY <1>1, <1>2, <1>3
<1>5. DOMAIN r = 1 .. n
  BY <1>2
<1>6. r \in [1 .. n -> V]
  BY <1>1, <1>2
<1>7. r \in Seq(V)
  BY <1>1, <1>6, FunctionIsSeq
<1>8. \A i, j \in 1 .. n : p[i] = p[j] => i = j
  BY <1>1, <1>3
<1>9. ASSUME NEW j \in 1 .. n PROVE \E i \in 1 .. n : p[i] = j
  <2>1. n - j + 1 \in 1 .. n /\ n - (n - j + 1) + 1 = j
    BY <1>1
  <2> QED BY <2>1
<1> HIDE DEF p
<1>10. OneToOne(p, 1 .. n, 1 .. n)
  BY <1>3, <1>8, <1>9 DEF OneToOne
<1>11. Reorders(p, r, s)
  BY <1>1, <1>4, <1>5, <1>10 DEF Reorders
<1> QED BY <1>7, <1>11 DEF r

\* Reordered targets before reordered tools.
LEMMA ReorderedConcat ==
  ASSUME NEW V, NEW s \in Seq(V), NEW t \in Seq(V), NEW u \in Seq(V), NEW v \in Seq(V),
         NEW p, NEW q, Reorders(p, s, t), Reorders(q, u, v), Len(s) = Len(t)
  PROVE  \E r : Reorders(r, s \o u, t \o v)
<1> DEFINE m == Len(s)
           a == s \o u
           b == t \o v
           r == [i \in DOMAIN a |-> IF i <= m THEN p[i] ELSE q[i - m] + m]
<1>1. /\ m \in Nat /\ DOMAIN s = 1 .. m /\ DOMAIN t = 1 .. m
      /\ Len(u) \in Nat /\ DOMAIN u = 1 .. Len(u) /\ Len(v) \in Nat /\ DOMAIN v = 1 .. Len(v)
  BY LenProperties
<1>2. /\ DOMAIN a = 1 .. m + Len(u) /\ DOMAIN b = 1 .. m + Len(v)
      /\ \A i \in 1 .. m + Len(u) : a[i] = IF i <= m THEN s[i] ELSE u[i - m]
      /\ \A i \in 1 .. m + Len(v) : b[i] = IF i <= m THEN t[i] ELSE v[i - m]
  <2>1. a \in Seq(V) /\ Len(a) = m + Len(u)
        /\ \A i \in 1 .. m + Len(u) : a[i] = IF i <= m THEN s[i] ELSE u[i - m]
    BY ConcatProperties
  <2>2. b \in Seq(V) /\ Len(b) = m + Len(v)
        /\ \A i \in 1 .. m + Len(v) : b[i] = IF i <= m THEN t[i] ELSE v[i - m]
    <3>1. Len(t) = m
      OBVIOUS
    <3> QED BY <3>1, ConcatProperties
  <2>3. DOMAIN a = 1 .. Len(a) /\ DOMAIN b = 1 .. Len(b)
    BY <2>1, <2>2, LenProperties
  <2> HIDE DEF a, b
  <2> QED BY <2>1, <2>2, <2>3
<1> HIDE DEF a, b, m
<1>3. /\ \A i \in 1 .. m : p[i] \in 1 .. m /\ s[i] = t[p[i]]
      /\ \A j \in 1 .. m : \E i \in 1 .. m : p[i] = j
      /\ \A i, j \in 1 .. m : p[i] = p[j] => i = j
  <2>1. Reorders(p, s, t)
    OBVIOUS
  <2>2. /\ \A i \in DOMAIN s : p[i] \in DOMAIN t /\ s[i] = t[p[i]]
        /\ \A j \in DOMAIN t : \E i \in DOMAIN s : p[i] = j /\ s[i] = t[j]
        /\ \A i, j \in DOMAIN s : p[i] = p[j] => i = j
    BY ONLY <2>1, ReorderIs
  <2> QED BY <1>1, <2>2
<1>4. /\ \A i \in 1 .. Len(u) : q[i] \in 1 .. Len(v) /\ u[i] = v[q[i]]
      /\ \A j \in 1 .. Len(v) : \E i \in 1 .. Len(u) : q[i] = j
      /\ \A i, j \in 1 .. Len(u) : q[i] = q[j] => i = j
  <2>1. Reorders(q, u, v)
    OBVIOUS
  <2>2. /\ \A i \in DOMAIN u : q[i] \in DOMAIN v /\ u[i] = v[q[i]]
        /\ \A j \in DOMAIN v : \E i \in DOMAIN u : q[i] = j /\ u[i] = v[j]
        /\ \A i, j \in DOMAIN u : q[i] = q[j] => i = j
    BY ONLY <2>1, ReorderIs
  <2> QED BY <1>1, <2>2
<1>5. \A i \in DOMAIN a : IF i <= m THEN r[i] = p[i] ELSE r[i] = q[i - m] + m
  OBVIOUS
<1>6. DOMAIN r = DOMAIN a
  OBVIOUS
<1> HIDE DEF r
<1>7. ASSUME NEW i \in DOMAIN a
      PROVE  /\ r[i] \in DOMAIN b /\ a[i] = b[r[i]]
             /\ i <= m => i \in 1 .. m /\ r[i] = p[i] /\ r[i] \in 1 .. m
             /\ ~ (i <= m) => /\ i - m \in 1 .. Len(u) /\ r[i] = q[i - m] + m
                              /\ q[i - m] \in 1 .. Len(v)
  <2>1. CASE i <= m
    <3>1. i \in 1 .. m /\ r[i] = p[i] /\ a[i] = s[i]
      BY <1>1, <1>2, <1>5, <2>1
    <3>2. r[i] \in 1 .. m /\ s[i] = t[r[i]]
      BY <1>3, <3>1
    <3>3. r[i] \in DOMAIN b /\ b[r[i]] = t[r[i]]
      BY <1>1, <1>2, <3>2
    <3> QED BY <2>1, <3>1, <3>2, <3>3
  <2>2. CASE ~ (i <= m)
    <3>1. i - m \in 1 .. Len(u) /\ r[i] = q[i - m] + m /\ a[i] = u[i - m]
      BY <1>1, <1>2, <1>5, <2>2
    <3>2. q[i - m] \in 1 .. Len(v) /\ u[i - m] = v[q[i - m]]
      BY <1>4, <3>1
    <3>3. r[i] \in DOMAIN b /\ b[r[i]] = v[q[i - m]]
      <4> DEFINE k == q[i - m]
      <4>1. k \in 1 .. Len(v) /\ r[i] = k + m
        BY <3>1, <3>2
      <4> HIDE DEF k
      <4> DEFINE e == k + m
      <4>2. e \in 1 .. m + Len(v) /\ ~ (e <= m) /\ e - m = k /\ r[i] = e
        BY <1>1, <4>1
      <4> HIDE DEF e
      <4>3. b[e] = v[e - m]
        BY <1>2, <4>2
      <4> QED BY <1>2, <4>1, <4>2, <4>3 DEF k
    <3> QED BY <2>2, <3>1, <3>2, <3>3
  <2> QED BY <2>1, <2>2
<1>8. ASSUME NEW i \in DOMAIN a, NEW j \in DOMAIN a, r[i] = r[j] PROVE i = j
  <2>0. i \in Nat /\ j \in Nat
    BY <1>2, <1>1
  <2>1. CASE i <= m /\ j <= m
    <3>1. i \in 1 .. m /\ j \in 1 .. m /\ p[i] = p[j]
      BY <1>7, <1>8, <2>1
    <3> QED BY <1>3, <3>1
  <2>2. CASE ~ (i <= m) /\ ~ (j <= m)
    <3>1. q[i - m] = q[j - m]
      BY <1>1, <1>7, <1>8, <2>2
    <3>2. i - m = j - m
      BY <1>4, <1>7, <2>2, <3>1
    <3> QED BY <1>1, <2>0, <3>2
  <2>3. CASE ~ (i <= m <=> j <= m)
    BY <1>1, <1>7, <1>8, <2>3
  <2> QED BY <2>1, <2>2, <2>3
<1>9. ASSUME NEW j \in DOMAIN b PROVE \E i \in DOMAIN a : r[i] = j
  <2>1. CASE j <= m
    <3>1. j \in 1 .. m
      BY <1>1, <1>2, <2>1
    <3>2. PICK i \in 1 .. m : p[i] = j
      BY <1>3, <3>1
    <3>3. i \in DOMAIN a /\ i <= m
      BY <1>1, <1>2
    <3> QED BY <1>7, <3>2, <3>3
  <2>2. CASE ~ (j <= m)
    <3>1. j - m \in 1 .. Len(v)
      BY <1>1, <1>2, <2>2
    <3>2. PICK i \in 1 .. Len(u) : q[i] = j - m
      BY <1>4, <3>1
    <3>3. i + m \in DOMAIN a /\ ~ (i + m <= m) /\ i + m - m = i
      BY <1>1, <1>2
    <3> DEFINE k == i + m
    <3>4. k \in DOMAIN a /\ ~ (k <= m) /\ k - m = i
      BY <1>1, <3>2, <3>3
    <3> HIDE DEF k
    <3>5. r[k] = q[k - m] + m
      BY <1>7, <3>4
    <3>6. j \in Nat
      BY <1>1, <1>2
    <3>7. r[k] = j
      BY <1>1, <3>2, <3>4, <3>5, <3>6
    <3> QED BY <3>4, <3>7
  <2> QED BY <2>1, <2>2
<1>10. OneToOne(r, DOMAIN a, DOMAIN b)
  BY <1>7, <1>8, <1>9 DEF OneToOne
<1>11. Reorders(r, a, b)
  BY <1>7, <1>10 DEF Reorders
<1> QED BY <1>11 DEF a, b

\* Reordered operands have the same cells, and components of the same size.
LEMMA ReorderedBodies ==
  ASSUME NEW s \in Seq(Body), NEW t \in Seq(Body), NEW p, Reorders(p, s, t)
  PROVE  /\ Len(s) = Len(t) /\ Cells(s) = Cells(t)
         /\ \A P : Cardinality(Component(P, s)) = Cardinality(Component(P, t))
<1>1. /\ DOMAIN s = 1 .. Len(s) /\ Len(s) \in Nat /\ IsFiniteSet(DOMAIN s)
      /\ DOMAIN t = 1 .. Len(t) /\ Len(t) \in Nat
  BY SeqOfBodies
<1>2. OneToOne(p, DOMAIN s, DOMAIN t)
  BY DEF Reorders
<1>3. Cardinality(DOMAIN t) = Cardinality(DOMAIN s)
  BY ONLY <1>1, <1>2, SameSize
<1>4. Len(s) = Len(t)
  <2>1. \A n \in Nat : Cardinality(1 .. n) = n
    BY FS_Interval
  <2> QED BY <1>1, <1>3, <2>1
<1>5. /\ \A i \in DOMAIN s : p[i] \in DOMAIN t /\ s[i] = t[p[i]]
      /\ \A j \in DOMAIN t : \E i \in DOMAIN s : p[i] = j /\ s[i] = t[j]
      /\ \A i, j \in DOMAIN s : p[i] = p[j] => i = j
  BY ReorderIs
<1>6. Cells(s) = Cells(t)
  <2>1. \A c \in Cells(s) : c \in Cells(t)
    BY <1>5 DEF Cells
  <2>2. ASSUME NEW c \in Cells(t) PROVE c \in Cells(s)
    <3>1. PICK j \in DOMAIN t : c \in t[j].cells
      BY DEF Cells
    <3>2. PICK i \in DOMAIN s : s[i] = t[j]
      BY <1>5
    <3> QED BY <3>1, <3>2 DEF Cells
  <2> QED BY <2>1, <2>2
<1>7. ASSUME NEW P PROVE Cardinality(Component(P, s)) = Cardinality(Component(P, t))
  <2> DEFINE A == Component(P, s)
             B == Component(P, t)
  <2>1. IsFiniteSet(A)
    <3>1. A \subseteq DOMAIN s
      BY DEF Component
    <3> QED BY <1>1, <3>1, FS_Subset
  <2>2. \A i \in A : p[i] \in B
    BY <1>5 DEF Component
  <2>3. \A i, j \in A : p[i] = p[j] => i = j
    BY <1>5 DEF Component
  <2>4. ASSUME NEW j \in B PROVE \E i \in A : p[i] = j
    <3>1. j \in DOMAIN t /\ t[j].cells \subseteq P
      BY DEF Component
    <3>2. PICK i \in DOMAIN s : p[i] = j /\ s[i] = t[j]
      BY <1>5, <3>1
    <3> QED BY <3>1, <3>2 DEF Component
  <2> HIDE DEF A, B
  <2>5. OneToOne(p, A, B)
    BY <2>2, <2>3, <2>4 DEF OneToOne
  <2>6. Cardinality(B) = Cardinality(A)
    BY ONLY <2>1, <2>5, SameSize
  <2> QED BY <2>6 DEF A, B
<1> QED BY <1>4, <1>6, <1>7

\* The origin a component keeps is the first in canonical order, not the first listed.
LEMMA KeepSame ==
  ASSUME NEW s \in Seq(Body), NEW t \in Seq(Body), NEW p, Reorders(p, s, t), NEW P,
         Component(P, s) # {}
  PROVE  Component(P, t) # {} /\ Keep(P, s) = Keep(P, t)
<1>1. /\ \A i \in DOMAIN s : p[i] \in DOMAIN t /\ s[i] = t[p[i]]
      /\ \A j \in DOMAIN t : \E i \in DOMAIN s : p[i] = j /\ s[i] = t[j]
  BY ReorderIs
<1>2. \A i \in Component(P, s) : p[i] \in Component(P, t) /\ s[i] = t[p[i]]
  BY <1>1 DEF Component
<1>3. \A j \in Component(P, t) : \E i \in Component(P, s) : s[i] = t[j]
  BY <1>1 DEF Component
<1>4. Component(P, t) # {}
  BY <1>2
<1>5. PICK a \in Component(P, s) :
        Keep(P, s) = s[a].origin /\ \A u \in Component(P, s) : ~ Before(s[u], s[a])
  BY KeepIs
<1>6. PICK b \in Component(P, t) :
        Keep(P, t) = t[b].origin /\ \A u \in Component(P, t) : ~ Before(t[u], t[b])
  BY <1>4, KeepIs
<1>7. ~ Before(t[b], s[a])
  BY <1>3, <1>5
<1>8. ~ Before(s[a], t[b])
  BY <1>2, <1>6
<1>9. s[a] \in Body /\ t[b] \in Body
  BY SeqOfBodies DEF Component
<1>10. s[a] = t[b]
  BY <1>7, <1>8, <1>9, BeforeIsStrict
<1> QED BY <1>4, <1>5, <1>6, <1>10

\* Two outcomes of an operation that differ at most in the targets' positions.
LeftAlone(r, T) == OriginsAt(T, r.untouched)
SameResult(r, T, q, U) ==
  /\ r.code = q.code /\ r.bodies = q.bodies /\ r.removed = q.removed /\ r.merged = q.merged
  /\ LeftAlone(r, T) = LeftAlone(q, U)

\* A refusal is the same refusal.
LEMMA NoneSame ==
  ASSUME NEW code, NEW T, NEW U
  PROVE  SameResult(NoResult(code), T, NoResult(code), U)
BY DEF SameResult, LeftAlone, OriginsAt, NoResult

\* p takes the positions A of T to the positions B of U.
Takes(p, T, U, A, B) ==
  /\ Reorders(p, T, U) /\ A \subseteq DOMAIN T /\ B \subseteq DOMAIN U
  /\ \A t \in DOMAIN T : t \in A <=> p[t] \in B

\* The same targets have the same origins.
LEMMA OriginsSame ==
  ASSUME NEW p, NEW T, NEW U, NEW A, NEW B, Takes(p, T, U, A, B)
  PROVE  OriginsAt(T, A) = OriginsAt(U, B)
<1>1. /\ \A i \in DOMAIN T : p[i] \in DOMAIN U /\ T[i] = U[p[i]]
      /\ \A j \in DOMAIN U : \E i \in DOMAIN T : p[i] = j /\ T[i] = U[j]
  <2>1. Reorders(p, T, U)
    BY DEF Takes
  <2> QED BY ONLY <2>1, ReorderIs
<1>2. ASSUME NEW t \in A PROVE T[t].origin \in {U[u].origin : u \in B}
  BY <1>1 DEF Takes
<1>3. ASSUME NEW u \in B PROVE U[u].origin \in {T[t].origin : t \in A}
  <2>1. PICK t \in DOMAIN T : p[t] = u /\ T[t] = U[u]
    BY <1>1 DEF Takes
  <2> QED BY <2>1 DEF Takes
<1> QED BY <1>2, <1>3 DEF OriginsAt

PairsOf(s, T, W) == UNION {{<<s[i].origin, Keep(P, T)>> : i \in Component(P, s)} : P \in W}

\* The same keys are merged into the same keys.
LEMMA PairsSame ==
  ASSUME NEW p, NEW s, NEW t, Reorders(p, s, t), NEW T, NEW U, NEW W, \A P \in W : Keep(P, T) = Keep(P, U)
  PROVE  PairsOf(s, T, W) = PairsOf(t, U, W)
<1>1. /\ \A i \in DOMAIN s : p[i] \in DOMAIN t /\ s[i] = t[p[i]]
      /\ \A j \in DOMAIN t : \E i \in DOMAIN s : p[i] = j /\ s[i] = t[j]
  BY ReorderIs
<1>2. \A P : \A i \in Component(P, s) : p[i] \in Component(P, t) /\ s[i] = t[p[i]]
  BY <1>1 DEF Component
<1>3. \A P : \A j \in Component(P, t) : \E i \in Component(P, s) : s[i] = t[j]
  BY <1>1 DEF Component
<1>4. ASSUME NEW P \in W
      PROVE  {<<s[i].origin, Keep(P, T)>> : i \in Component(P, s)}
               = {<<t[i].origin, Keep(P, U)>> : i \in Component(P, t)}
  <2>1. ASSUME NEW i \in Component(P, s)
        PROVE  <<s[i].origin, Keep(P, T)>> \in {<<t[j].origin, Keep(P, U)>> : j \in Component(P, t)}
    BY <1>2
  <2>2. ASSUME NEW j \in Component(P, t)
        PROVE  <<t[j].origin, Keep(P, U)>> \in {<<s[i].origin, Keep(P, T)>> : i \in Component(P, s)}
    <3>1. PICK i \in Component(P, s) : s[i] = t[j]
      BY <1>3
    <3> QED BY <3>1
  <2> QED BY <2>1, <2>2
<1> QED BY <1>4 DEF PairsOf

\* A join of reordered operands.
LEMMA JoinSame ==
  ASSUME NEW T \in Seq(Body), NEW K \in Seq(Body), NEW U \in Seq(Body), NEW V \in Seq(Body),
         NEW p, NEW q, Reorders(p, T, U), Reorders(q, K, V)
  PROVE  SameResult(Join(T, K), T, Join(U, V), U)
<1> DEFINE all == T \o K
           both == U \o V
           W == {P \in Pieces(Cells(all)) : Cardinality(Component(P, all)) > 1}
           X == {P \in Pieces(Cells(both)) : Cardinality(Component(P, both)) > 1}
           misses(A, B) == \E k \in DOMAIN B : \A t \in DOMAIN A : ~ Near(A[t].cells, B[k].cells)
           made(A, Y) == {[origin |-> Keep(P, A), cells |-> P] : P \in Y}
           kept(A, Y) == {t \in DOMAIN A : \A P \in Y : t \notin Component(P, A)}
           lost(A, Y) == {r[1] : r \in {e \in PairsOf(A, A, Y) : e[1] # e[2]}}
           merged(s, A, Y) == {r \in PairsOf(s, A, Y) : r[1] # r[2]}
           done(s, A, Y) == [code |-> "OK", bodies |-> Sorted(made(A, Y), Before), untouched |-> kept(A, Y),
                             removed |-> lost(A, Y), merged |-> merged(s, A, Y)]
<1>1. /\ Join(T, K) = IF misses(T, K) THEN NoResult("BOOLEAN_NO_INTERSECTION") ELSE done(all, T, W)
      /\ Join(U, V) = IF misses(U, V) THEN NoResult("BOOLEAN_NO_INTERSECTION") ELSE done(both, U, X)
  BY Zenon DEF Join, PairsOf
<1>2. /\ \A i \in DOMAIN T : p[i] \in DOMAIN U /\ T[i] = U[p[i]]
      /\ \A j \in DOMAIN U : \E i \in DOMAIN T : p[i] = j /\ T[i] = U[j]
  <2>1. Reorders(p, T, U)
    OBVIOUS
  <2> QED BY ONLY <2>1, ReorderIs
<1>3. /\ \A i \in DOMAIN K : q[i] \in DOMAIN V /\ K[i] = V[q[i]]
      /\ \A j \in DOMAIN V : \E i \in DOMAIN K : q[i] = j /\ K[i] = V[j]
  <2>1. Reorders(q, K, V)
    OBVIOUS
  <2> QED BY ONLY <2>1, ReorderIs
<1>4. misses(T, K) <=> misses(U, V)
  <2>1. ASSUME misses(T, K) PROVE misses(U, V)
    <3>1. PICK k \in DOMAIN K : \A t \in DOMAIN T : ~ Near(T[t].cells, K[k].cells)
      BY <2>1
    <3>2. q[k] \in DOMAIN V /\ V[q[k]] = K[k]
      BY <1>3
    <3>3. \A u \in DOMAIN U : ~ Near(U[u].cells, V[q[k]].cells)
      BY <1>2, <3>1, <3>2
    <3> QED BY <3>2, <3>3
  <2>2. ASSUME misses(U, V) PROVE misses(T, K)
    <3>1. PICK k \in DOMAIN V : \A t \in DOMAIN U : ~ Near(U[t].cells, V[k].cells)
      BY <2>2
    <3>2. PICK i \in DOMAIN K : K[i] = V[k]
      BY <1>3
    <3>3. \A t \in DOMAIN T : ~ Near(T[t].cells, K[i].cells)
      BY <1>2, <3>1, <3>2
    <3> QED BY <3>3
  <2> QED BY <2>1, <2>2
<1>5. CASE misses(T, K)
  <2>1. Join(T, K) = NoResult("BOOLEAN_NO_INTERSECTION") /\ Join(U, V) = NoResult("BOOLEAN_NO_INTERSECTION")
    BY <1>1, <1>4, <1>5
  <2> QED BY <2>1, NoneSame
<1>6. CASE ~ misses(T, K)
  <2>0. \A k \in DOMAIN K : \E t \in DOMAIN T : Near(T[t].cells, K[k].cells)
    BY <1>6
  <2> HIDE DEF misses
  <2>1. Join(T, K) = done(all, T, W) /\ Join(U, V) = done(both, U, X)
    BY <1>1, <1>4, <1>6
  <2>2. Len(T) = Len(U)
    BY ReorderedBodies
  <2>3. PICK r : Reorders(r, all, both)
    BY <2>2, ReorderedConcat
  <2>4. all \in Seq(Body) /\ both \in Seq(Body)
    BY ConcatProperties
  <2>5. Cells(all) = Cells(both) /\ \A P : Cardinality(Component(P, all)) = Cardinality(Component(P, both))
    <3> HIDE DEF all, both
    <3> QED BY <2>3, <2>4, ReorderedBodies
  <2>6. W = X
    BY <2>5
  <2>7. ASSUME NEW P \in W PROVE Keep(P, T) = Keep(P, U)
    <3>1. Component(P, all) # {}
      <4>1. Cardinality({}) = 0
        BY FS_EmptySet
      <4>2. Cardinality(Component(P, all)) > 1
        OBVIOUS
      <4>3. SUFFICES ASSUME Component(P, all) = {} PROVE FALSE
        OBVIOUS
      <4> HIDE DEF all
      <4> QED BY <4>1, <4>2, <4>3
    <3>2. Component(P, T) # {}
      BY <2>0, <3>1, TargetInPiece
    <3> QED BY <3>2, KeepSame
  <2> HIDE DEF W, X, all, both
  <2>8. made(T, W) = made(U, X)
    BY <2>6, <2>7
  <2>9. PairsOf(T, T, W) = PairsOf(U, U, X)
    BY <2>6, <2>7, PairsSame
  <2>10. PairsOf(all, T, W) = PairsOf(both, U, X)
    BY <2>3, <2>6, <2>7, PairsSame
  <2>11. \A t \in DOMAIN T : t \in kept(T, W) <=> p[t] \in kept(U, X)
    <3>1. \A t \in DOMAIN T : \A P : t \in Component(P, T) <=> p[t] \in Component(P, U)
      BY <1>2 DEF Component
    <3> QED BY <1>2, <2>6, <3>1
  <2>12. OriginsAt(T, kept(T, W)) = OriginsAt(U, kept(U, X))
    <3>1. kept(T, W) \in SUBSET DOMAIN T /\ kept(U, X) \in SUBSET DOMAIN U
      OBVIOUS
    <3> HIDE DEF kept
    <3>2. Takes(p, T, U, kept(T, W), kept(U, X))
      BY <2>11, <3>1 DEF Takes
    <3> QED BY ONLY <3>2, OriginsSame
  <2>13. lost(T, W) = lost(U, X) /\ merged(all, T, W) = merged(both, U, X)
    BY <2>9, <2>10
  <2> HIDE DEF made, kept, lost, merged
  <2>14. SameResult(done(all, T, W), T, done(both, U, X), U)
    BY <2>8, <2>12, <2>13 DEF SameResult, LeftAlone
  <2> QED BY <2>1, <2>14
<1> QED BY <1>5, <1>6

\* A pair that carving makes.
LEMMA CarvedPair ==
  ASSUME NEW T, NEW A, NEW rest, NEW t, NEW b
  PROVE  <<t, b>> \in Carved(T, A, rest) <=> t \in A /\ b \in Bodies(T[t].origin, Pieces(rest[t]))
BY DEF Carved

\* Reordered targets leave the same pieces, at other positions.
LEMMA CarvedMatch ==
  ASSUME NEW T \in Seq(Body), NEW U \in Seq(Body), NEW p, NEW A, NEW B, Takes(p, T, U, A, B),
         NEW rest, NEW more, Rests(T, rest), Rests(U, more),
         \A t \in DOMAIN T : more[p[t]] = rest[t]
  PROVE  \E f : Matches(f, Carved(T, A, rest), Carved(U, B, more))
<1> DEFINE S == Carved(T, A, rest)
           V == Carved(U, B, more)
           f == [e \in S |-> <<p[e[1]], e[2]>>]
<1>1. Reorders(p, T, U) /\ A \in SUBSET DOMAIN T /\ B \in SUBSET DOMAIN U
      /\ \A t \in DOMAIN T : t \in A <=> p[t] \in B
  BY DEF Takes
<1>2. /\ \A i \in DOMAIN T : p[i] \in DOMAIN U /\ T[i] = U[p[i]]
      /\ \A j \in DOMAIN U : \E i \in DOMAIN T : p[i] = j /\ T[i] = U[j]
      /\ \A i, j \in DOMAIN T : p[i] = p[j] => i = j
  BY ONLY <1>1, ReorderIs
<1>3. S \subseteq Int \X Body /\ V \subseteq Int \X Body
  BY <1>1, CarvedIs
<1>4. ASSUME NEW e \in S PROVE e[1] \in A /\ f[e] \in V /\ f[e][2] = e[2] /\ f[e][1] = p[e[1]]
  <2> DEFINE t == e[1]
             b == e[2]
  <2>1. e = <<t, b>>
    BY <1>3
  <2>2. f[e] = <<p[t], b>>
    OBVIOUS
  <2> HIDE DEF t, b, f
  <2>3. t \in A /\ b \in Bodies(T[t].origin, Pieces(rest[t]))
    BY <2>1, CarvedPair
  <2>4. p[t] \in B /\ T[t] = U[p[t]] /\ more[p[t]] = rest[t]
    BY <1>1, <1>2, <2>3
  <2>5. <<p[t], b>> \in V
    BY <2>3, <2>4, CarvedPair
  <2> QED BY <2>2, <2>3, <2>5 DEF t, b
<1>5. ASSUME NEW v \in V PROVE \E e \in S : f[e] = v
  <2> DEFINE u == v[1]
             b == v[2]
  <2>1. v = <<u, b>>
    BY <1>3
  <2> HIDE DEF u, b
  <2>2. u \in B /\ b \in Bodies(U[u].origin, Pieces(more[u]))
    BY <2>1, CarvedPair
  <2>3. PICK t \in DOMAIN T : p[t] = u /\ T[t] = U[u]
    BY <1>1, <1>2, <2>2
  <2>4. t \in A /\ more[u] = rest[t]
    BY <1>1, <2>2, <2>3
  <2>5. <<t, b>> \in S
    BY <2>2, <2>3, <2>4, CarvedPair
  <2>6. f[<<t, b>>] = <<p[t], b>>
    BY <2>5
  <2> HIDE DEF S, f
  <2> QED BY <2>1, <2>3, <2>5, <2>6
<1> HIDE DEF f
<1>6. ASSUME NEW x \in S, NEW y \in S, f[x] = f[y] PROVE x = y
  <2>1. x[1] \in DOMAIN T /\ y[1] \in DOMAIN T /\ p[x[1]] = p[y[1]] /\ x[2] = y[2]
    BY <1>1, <1>4, <1>6
  <2>2. x[1] = y[1]
    BY <1>2, <2>1
  <2>3. x \in Int \X Body /\ y \in Int \X Body
    BY <1>3
  <2>4. x = <<x[1], x[2]>> /\ y = <<y[1], y[2]>>
    BY <2>3
  <2> QED BY <2>1, <2>2, <2>4
<1> HIDE DEF S, V
<1>7. OneToOne(f, S, V)
  BY <1>4, <1>5, <1>6 DEF OneToOne
<1>8. Matches(f, S, V)
  BY <1>4, <1>7 DEF Matches
<1> QED BY <1>8 DEF S, V

\* So carving reordered targets comes to the same.
LEMMA CarveSame ==
  ASSUME NEW T \in Seq(Body), NEW U \in Seq(Body), NEW p, NEW A, NEW B, Takes(p, T, U, A, B),
         NEW rest, NEW more, NEW r, NEW q, CarvedTo(r, T, A, rest), CarvedTo(q, U, B, more),
         \A t \in DOMAIN T : more[p[t]] = rest[t]
  PROVE  SameResult(r, T, q, U)
<1>1. /\ A \in SUBSET DOMAIN T /\ Rests(T, rest) /\ r.code = "OK" /\ r.merged = {}
      /\ r.bodies = InOrder(Carved(T, A, rest), Before) /\ r.untouched = DOMAIN T \ A
      /\ r.removed = OriginsAt(T, {u \in A : rest[u] = {}})
  BY DEF CarvedTo
<1>2. /\ B \in SUBSET DOMAIN U /\ Rests(U, more) /\ q.code = "OK" /\ q.merged = {}
      /\ q.bodies = InOrder(Carved(U, B, more), Before) /\ q.untouched = DOMAIN U \ B
      /\ q.removed = OriginsAt(U, {u \in B : more[u] = {}})
  BY DEF CarvedTo
<1>3. /\ Reorders(p, T, U) /\ \A t \in DOMAIN T : t \in A <=> p[t] \in B
  BY DEF Takes
<1>4. \A i \in DOMAIN T : p[i] \in DOMAIN U
  BY <1>3, ReorderIs
<1>5. r.bodies = q.bodies
  <2>1. PICK f : Matches(f, Carved(T, A, rest), Carved(U, B, more))
    BY <1>1, <1>2, CarvedMatch
  <2>2. IsFiniteSet(Carved(T, A, rest)) /\ Carved(T, A, rest) \subseteq Int \X Body
    BY <1>1, CarvedIs
  <2>3. Carved(U, B, more) \subseteq Int \X Body
    BY <1>2, CarvedIs
  <2>4. InOrder(Carved(T, A, rest), Before) = InOrder(Carved(U, B, more), Before)
    BY ONLY <2>1, <2>2, <2>3, SameOrder
  <2> QED BY <1>1, <1>2, <2>4
<1>6. LeftAlone(r, T) = LeftAlone(q, U)
  <2>1. Takes(p, T, U, DOMAIN T \ A, DOMAIN U \ B)
    BY <1>3, <1>4 DEF Takes
  <2>2. OriginsAt(T, DOMAIN T \ A) = OriginsAt(U, DOMAIN U \ B)
    BY ONLY <2>1, OriginsSame
  <2> QED BY <1>1, <1>2, <2>2 DEF LeftAlone
<1>7. r.removed = q.removed
  <2>1. Takes(p, T, U, {u \in A : rest[u] = {}}, {u \in B : more[u] = {}})
    BY <1>1, <1>2, <1>3 DEF Takes
  <2>2. OriginsAt(T, {u \in A : rest[u] = {}}) = OriginsAt(U, {u \in B : more[u] = {}})
    BY ONLY <2>1, OriginsSame
  <2> QED BY <1>1, <1>2, <2>2
<1> QED BY <1>1, <1>2, <1>5, <1>6, <1>7 DEF SameResult

\* A cut with reordered operands.
LEMMA CutSame ==
  ASSUME NEW T \in Seq(Body), NEW K \in Seq(Body), NEW U \in Seq(Body), NEW V \in Seq(Body),
         NEW p, NEW q, Reorders(p, T, U), Reorders(q, K, V)
  PROVE  SameResult(Cut(T, K), T, Cut(U, V), U)
<1>1. Cells(T) = Cells(U) /\ Cells(K) = Cells(V)
  BY ReorderedBodies
<1>2. CASE Cells(T) \cap Cells(K) = {}
  <2>1. /\ Cut(T, K) = NoResult("BOOLEAN_NO_INTERSECTION")
        /\ Cut(U, V) = NoResult("BOOLEAN_NO_INTERSECTION")
    BY <1>1, <1>2 DEF Cut
  <2> QED BY <2>1, NoneSame
<1>3. CASE Cells(T) \cap Cells(K) # {}
  <2>1. CarvedTo(Cut(T, K), T, CutAt(T, K), CutRest(T, K))
    BY <1>3, CutIs
  <2>2. CarvedTo(Cut(U, V), U, CutAt(U, V), CutRest(U, V))
    BY <1>1, <1>3, CutIs
  <2>3. \A i \in DOMAIN T : p[i] \in DOMAIN U /\ T[i] = U[p[i]]
    BY ReorderIs
  <2>4. Takes(p, T, U, CutAt(T, K), CutAt(U, V))
    BY <1>1, <2>3 DEF Takes, CutAt
  <2>5. \A t \in DOMAIN T : CutRest(U, V)[p[t]] = CutRest(T, K)[t]
    BY <1>1, <2>3 DEF CutRest
  <2> QED BY <2>1, <2>2, <2>4, <2>5, CarveSame
<1> QED BY <1>2, <1>3

\* An intersection with reordered operands.
LEMMA IntersectSame ==
  ASSUME NEW T \in Seq(Body), NEW K \in Seq(Body), NEW U \in Seq(Body), NEW V \in Seq(Body),
         NEW p, NEW q, Reorders(p, T, U), Reorders(q, K, V)
  PROVE  SameResult(Intersect(T, K), T, Intersect(U, V), U)
<1>1. Cells(T) = Cells(U) /\ Cells(K) = Cells(V)
  BY ReorderedBodies
<1>2. CASE Cells(T) \cap Cells(K) = {}
  <2>1. /\ Intersect(T, K) = NoResult("BOOLEAN_EMPTY_RESULT")
        /\ Intersect(U, V) = NoResult("BOOLEAN_EMPTY_RESULT")
    BY <1>1, <1>2 DEF Intersect
  <2> QED BY <2>1, NoneSame
<1>3. CASE Cells(T) \cap Cells(K) # {}
  <2>1. CarvedTo(Intersect(T, K), T, DOMAIN T, IntersectRest(T, K))
    BY <1>3, IntersectIs
  <2>2. CarvedTo(Intersect(U, V), U, DOMAIN U, IntersectRest(U, V))
    BY <1>1, <1>3, IntersectIs
  <2>3. \A i \in DOMAIN T : p[i] \in DOMAIN U /\ T[i] = U[p[i]]
    BY ReorderIs
  <2>4. Takes(p, T, U, DOMAIN T, DOMAIN U)
    BY <2>3 DEF Takes
  <2>5. \A t \in DOMAIN T : IntersectRest(U, V)[p[t]] = IntersectRest(T, K)[t]
    BY <1>1, <2>3 DEF IntersectRest
  <2> QED BY <2>1, <2>2, <2>4, <2>5, CarveSame
<1> QED BY <1>2, <1>3

ResultFields == {"code", "bodies", "untouched", "removed", "merged"}

\* What is not carried on is the same.
LEMMA NotCarriedSame ==
  ASSUME NEW r, NEW q, NEW T, NEW U, SameResult(r, T, q, U), DOMAIN r = ResultFields, DOMAIN q = ResultFields
  PROVE  SameResult(RemovedNotCarried(r, T), T, RemovedNotCarried(q, U), U)
BY DEF SameResult, RemovedNotCarried, LeftAlone, OriginsAt, ResultFields

\* Every operation: reordered operands give the same result.
LEMMA ApplyOpSame ==
  ASSUME NEW T \in Seq(Body), NEW K \in Seq(Body), NEW U \in Seq(Body), NEW V \in Seq(Body),
         NEW p, NEW q, Reorders(p, T, U), Reorders(q, K, V), NEW op \in BodyOps
  PROVE  SameResult(ApplyOp(op, T, K), T, ApplyOp(op, U, V), U)
<1> DEFINE raw(A, B) == CASE op = "join" -> Join(A, B)
                          [] op = "cut" -> Cut(A, B)
                          [] op = "intersect" -> Intersect(A, B)
           none(A, B) == A = <<>> \/ B = <<>>
           same(A, B) == \E t \in DOMAIN A, k \in DOMAIN B : A[t] = B[k]
<1>1. /\ ApplyOp(op, T, K) = IF none(T, K) THEN NoResult("FORGE_BOOLEAN_NO_OPERANDS")
                             ELSE IF same(T, K) THEN NoResult("BOOLEAN_TOOL_IS_TARGET")
                             ELSE RemovedNotCarried(raw(T, K), T)
      /\ ApplyOp(op, U, V) = IF none(U, V) THEN NoResult("FORGE_BOOLEAN_NO_OPERANDS")
                             ELSE IF same(U, V) THEN NoResult("BOOLEAN_TOOL_IS_TARGET")
                             ELSE RemovedNotCarried(raw(U, V), U)
  BY Zenon DEF ApplyOp
<1>2. none(T, K) <=> none(U, V)
  <2>1. \A s \in Seq(Body) : s = <<>> <=> Len(s) = 0
    BY EmptySeq
  <2>2. Len(T) = Len(U) /\ Len(K) = Len(V)
    BY ReorderedBodies
  <2> QED BY <2>1, <2>2
<1>3. /\ \A i \in DOMAIN T : p[i] \in DOMAIN U /\ T[i] = U[p[i]]
      /\ \A j \in DOMAIN U : \E i \in DOMAIN T : p[i] = j /\ T[i] = U[j]
  <2>1. Reorders(p, T, U)
    OBVIOUS
  <2> QED BY ONLY <2>1, ReorderIs
<1>4. /\ \A i \in DOMAIN K : q[i] \in DOMAIN V /\ K[i] = V[q[i]]
      /\ \A j \in DOMAIN V : \E i \in DOMAIN K : q[i] = j /\ K[i] = V[j]
  <2>1. Reorders(q, K, V)
    OBVIOUS
  <2> QED BY ONLY <2>1, ReorderIs
<1>5. same(T, K) <=> same(U, V)
  <2>1. ASSUME same(T, K) PROVE same(U, V)
    <3>1. PICK t \in DOMAIN T, k \in DOMAIN K : T[t] = K[k]
      BY <2>1
    <3>2. p[t] \in DOMAIN U /\ q[k] \in DOMAIN V /\ U[p[t]] = V[q[k]]
      BY <1>3, <1>4, <3>1
    <3> QED BY <3>2
  <2>2. ASSUME same(U, V) PROVE same(T, K)
    <3>1. PICK u \in DOMAIN U, v \in DOMAIN V : U[u] = V[v]
      BY <2>2
    <3>2. PICK t \in DOMAIN T : T[t] = U[u]
      BY <1>3
    <3>3. PICK k \in DOMAIN K : K[k] = V[v]
      BY <1>4
    <3> QED BY <3>1, <3>2, <3>3
  <2> QED BY <2>1, <2>2
<1>6. SameResult(raw(T, K), T, raw(U, V), U)
  <2>1. SameResult(Join(T, K), T, Join(U, V), U)
    BY JoinSame
  <2>2. SameResult(Cut(T, K), T, Cut(U, V), U)
    BY CutSame
  <2>3. SameResult(Intersect(T, K), T, Intersect(U, V), U)
    BY IntersectSame
  <2> QED BY <2>1, <2>2, <2>3 DEF BodyOps
<1>7. \A A, B : DOMAIN raw(A, B) = ResultFields
  <2>1. \A A, B : DOMAIN Join(A, B) = ResultFields
    BY DEF Join, NoResult, ResultFields
  <2>2. \A A, B : DOMAIN Cut(A, B) = ResultFields
    BY DEF Cut, Carve, NoResult, ResultFields
  <2>3. \A A, B : DOMAIN Intersect(A, B) = ResultFields
    BY DEF Intersect, Carve, NoResult, ResultFields
  <2> QED BY <2>1, <2>2, <2>3 DEF BodyOps
<1> HIDE DEF raw, none, same
<1>8. CASE none(T, K) \/ same(T, K)
  <2>1. PICK code : ApplyOp(op, T, K) = NoResult(code) /\ ApplyOp(op, U, V) = NoResult(code)
    BY <1>1, <1>2, <1>5, <1>8
  <2> QED BY <2>1, NoneSame
<1>9. CASE ~ none(T, K) /\ ~ same(T, K)
  <2>1. /\ ApplyOp(op, T, K) = RemovedNotCarried(raw(T, K), T)
        /\ ApplyOp(op, U, V) = RemovedNotCarried(raw(U, V), U)
    BY <1>1, <1>2, <1>5, <1>9
  <2>2. SameResult(RemovedNotCarried(raw(T, K), T), T, RemovedNotCarried(raw(U, V), U), U)
    BY <1>6, <1>7, NotCarriedSame
  <2> QED BY <2>1, <2>2
<1> QED BY <1>8, <1>9

\* And so in every state whose bodies are bodies.
LEMMA OrderIsIrrelevant ==
  ASSUME TInv
  PROVE  OperandOrderIsIrrelevant
<1>1. bodies \in Seq(Body)
  BY DEF TInv
<1>2. ASSUME NEW I \in SUBSET DOMAIN bodies, NEW K \in SUBSET DOMAIN bodies, NEW op \in BodyOps
      PROVE  SameResult(ApplyOp(op, Pick(bodies, I), Pick(bodies, K)), Pick(bodies, I),
                        ApplyOp(op, Reverse(Pick(bodies, I)), Reverse(Pick(bodies, K))),
                        Reverse(Pick(bodies, I)))
  <2> DEFINE T == Pick(bodies, I)
             S == Pick(bodies, K)
  <2>1. T \in Seq(Body) /\ S \in Seq(Body)
    BY <1>1, PickIs
  <2> HIDE DEF T, S
  <2>2. PICK p : Reverse(T) \in Seq(Body) /\ Reorders(p, Reverse(T), T)
    BY <2>1, ReverseReorders
  <2>3. PICK q : Reverse(S) \in Seq(Body) /\ Reorders(q, Reverse(S), S)
    BY <2>1, ReverseReorders
  <2>4. SameResult(ApplyOp(op, Reverse(T), Reverse(S)), Reverse(T), ApplyOp(op, T, S), T)
    BY <2>1, <2>2, <2>3, ApplyOpSame
  <2>5. SameResult(ApplyOp(op, T, S), T, ApplyOp(op, Reverse(T), Reverse(S)), Reverse(T))
    BY <2>4 DEF SameResult
  <2> QED BY <2>5 DEF T, S
<1> QED BY <1>2 DEF OperandOrderIsIrrelevant, SameResult, BodyOps

\* OperandOrderIsIrrelevant for every timeline and any number of operands.
THEOREM OperandOrderIsIrrelevantHolds == Spec => []OperandOrderIsIrrelevant
<1>1. TInv => OperandOrderIsIrrelevant
  BY OrderIsIrrelevant
<1> QED BY <1>1, TInvHolds, PTL
=============================================================================
