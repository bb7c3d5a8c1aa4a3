------------------------ MODULE IncidentManagerProofs ------------------------
(***************************************************************************)
(* Proofs about IncidentManager and the pages of its incidents: what an     *)
(* incident says of the events attached to it, what a turn decides, and     *)
(* that a listing passes over nothing, whatever the events, the topology,   *)
(* the catalogue and the thresholds are.                                    *)
(***************************************************************************)
EXTENDS IncidentPages, FiniteSetTheorems, SequenceTheorems, TLAPS

-----------------------------------------------------------------------------
(* Finite orders.  Induction over a finite set takes the form of a set of    *)
(* counterexamples, which has a minimal element if it has any.             *)

(* A non-empty set of finite sets has a minimal one.                        *)
LEMMA MinimalSubset ==
    ASSUME NEW S, IsFiniteSet(S), NEW T, T \subseteq SUBSET S, T # {}
    PROVE  \E x \in T : \A y \in T : y \subseteq x => y = x
<1>1. IsWellFoundedOn(StrictSubsetOrdering(S), SUBSET S)
  BY FS_FiniteSubsetsOfFinite, FS_StrictSubsetOrderingWellFounded
<1>2. PICK x \in T : \A y \in T : <<y, x>> \notin StrictSubsetOrdering(S)
  BY <1>1, WFMin, Zenon
<1>3. \A y \in T : <<y, x>> \in (SUBSET S) \X (SUBSET S)
  OBVIOUS
<1> QED
  BY <1>2, <1>3 DEF StrictSubsetOrdering

(* A finite set with a total order has a first element.                     *)
LEMMA FirstExists ==
    ASSUME NEW S, IsFiniteSet(S), S # {}, NEW R,
           \A x, y \in S : x # y => <<x, y>> \in R \/ <<y, x>> \in R,
           \A x, y, z \in S :
               <<x, y>> \in R /\ <<y, z>> \in R => <<x, z>> \in R
    PROVE  \E b \in S : \A y \in S \ {b} : <<b, y>> \in R
<1> DEFINE First(U, b) == \A y \in U \ {b} : <<b, y>> \in R
           T == {U \in SUBSET S : U # {} /\ ~\E b \in U : First(U, b)}
<1> SUFFICES T = {}
  <2> S \in SUBSET S
    OBVIOUS
  <2> QED
    BY Zenon
<1> SUFFICES ASSUME T # {} PROVE FALSE
  OBVIOUS
<1>1. PICK U \in T : \A V \in T : V \subseteq U => V = U
  <2> T \subseteq SUBSET S
    OBVIOUS
  <2> HIDE DEF T
  <2> QED
    BY MinimalSubset
<1>2. PICK x \in U : TRUE
  OBVIOUS
<1> DEFINE V == U \ {x}
<1>3. CASE V = {}
  <2>1. U = {x}
    BY <1>2, <1>3
  <2>2. First(U, x)
    BY <2>1
  <2> QED
    BY <1>2, <2>2
<1>4. CASE V # {}
  <2>1. V \notin T
    <3>1. V \subseteq U /\ V # U
      BY <1>2
    <3> HIDE DEF T, V
    <3> QED
      BY <1>1, <3>1
  <2>2. PICK b \in V : First(V, b)
    <3>1. V \in SUBSET S
      OBVIOUS
    <3> QED
      BY <2>1, <3>1, <1>4, Zenon
  <2>3. CASE <<x, b>> \in R
    <3>1. \A y \in U \ {x} : <<x, y>> \in R
      BY <2>2, <2>3
    <3> QED
      BY <3>1, <1>2
  <2>4. CASE <<b, x>> \in R
    <3>1. \A y \in U \ {b} : <<b, y>> \in R
      BY <2>2, <2>4
    <3> QED
      BY <3>1
  <2> QED
    BY <2>3, <2>4, <1>2
<1> QED
  BY <1>3, <1>4

(* R orders the elements of S strictly and totally.                         *)
Orders(R, S) ==
    /\ \A x \in S : <<x, x>> \notin R
    /\ \A x, y \in S : x # y => <<x, y>> \in R \/ <<y, x>> \in R
    /\ \A x, y, z \in S : <<x, y>> \in R /\ <<y, z>> \in R => <<x, z>> \in R

Under(R, S, e) == {f \in S : <<f, e>> \in R}

(* Every rank below the number of elements is that of an element.           *)
LEMMA RankExists ==
    ASSUME NEW S, IsFiniteSet(S), NEW R, Orders(R, S),
           NEW k \in 1..Cardinality(S)
    PROVE  \E e \in S : Cardinality(Under(R, S, e)) = k - 1
<1> DEFINE Ranked(U) == \A n \in 1..Cardinality(U) :
                            \E e \in U : Cardinality(Under(R, U, e)) = n - 1
           T == {U \in SUBSET S : ~Ranked(U)}
<1> SUFFICES T = {}
  <2> S \in SUBSET S
    OBVIOUS
  <2> QED
    BY Zenon
<1> SUFFICES ASSUME T # {} PROVE FALSE
  OBVIOUS
<1>1. PICK U \in T : \A V \in T : V \subseteq U => V = U
  <2> T \subseteq SUBSET S
    OBVIOUS
  <2> HIDE DEF T
  <2> QED
    BY MinimalSubset
<1>2. U \in SUBSET S /\ ~Ranked(U)
  OBVIOUS
<1>3. PICK n \in 1..Cardinality(U) :
          ~\E e \in U : Cardinality(Under(R, U, e)) = n - 1
  BY <1>2
<1>4. IsFiniteSet(U) /\ Cardinality(U) \in Nat /\ U # {}
  BY <1>2, <1>3, FS_Subset, FS_CardinalityType, FS_EmptySet
<1>5. PICK b \in U : \A y \in U \ {b} : <<y, b>> \in R
  <2> DEFINE Q == {p \in S \X S : <<p[2], p[1]>> \in R}
  <2>1. \A x, y \in S : <<x, y>> \in Q <=> <<y, x>> \in R
    OBVIOUS
  <2> HIDE DEF Q
  <2>2. /\ \A x, y \in U : x # y => <<x, y>> \in Q \/ <<y, x>> \in Q
        /\ \A x, y, z \in U :
               <<x, y>> \in Q /\ <<y, z>> \in Q => <<x, z>> \in Q
    BY <2>1, <1>2 DEF Orders
  <2>3. \E b \in U : \A y \in U \ {b} : <<b, y>> \in Q
    BY <2>2, <1>4, FirstExists
  <2> QED
    BY <2>3, <2>1, <1>2
<1> DEFINE V == U \ {b}
<1>6. IsFiniteSet(V) /\ Cardinality(V) = Cardinality(U) - 1
  BY <1>4, FS_RemoveElement
<1>7. CASE n = Cardinality(U)
  <2>1. Under(R, U, b) = V
    BY <1>5, <1>2 DEF Under, Orders
  <2> QED
    BY <2>1, <1>3, <1>6, <1>7
<1>8. CASE n # Cardinality(U)
  <2>1. n \in 1..Cardinality(V)
    BY <1>8, <1>6, <1>4
  <2>2. Ranked(V)
    <3>1. V \notin T
      BY <1>1
    <3> QED
      BY <3>1, <1>2
  <2>3. PICK e \in V : Cardinality(Under(R, V, e)) = n - 1
    BY <2>1, <2>2
  <2>4. <<b, e>> \notin R
    BY <1>5, <1>2 DEF Orders
  <2>5. Under(R, U, e) = Under(R, V, e)
    BY <2>4 DEF Under
  <2> QED
    BY <2>3, <2>5, <1>3
<1> QED
  BY <1>7, <1>8

(* The rank of an element is below the number of elements, it grows along     *)
(* the order, and no two elements share it.                                 *)
LEMMA RankBounded ==
    ASSUME NEW S, IsFiniteSet(S), NEW R, Orders(R, S), NEW e \in S
    PROVE  Cardinality(Under(R, S, e)) \in 0..Cardinality(S) - 1
<1>1. Under(R, S, e) \in SUBSET (S \ {e})
  BY DEF Under, Orders
<1>2. IsFiniteSet(S \ {e}) /\ Cardinality(S \ {e}) = Cardinality(S) - 1
  BY FS_RemoveElement
<1>3. IsFiniteSet(Under(R, S, e))
      /\ Cardinality(Under(R, S, e)) <= Cardinality(S \ {e})
  BY <1>1, <1>2, FS_Subset
<1> QED
  BY <1>2, <1>3, FS_CardinalityType

(* What comes earlier has less below it.                                    *)
LEMMA RankGrows ==
    ASSUME NEW S, IsFiniteSet(S), NEW R, Orders(R, S), NEW x \in S, NEW y \in S,
           <<x, y>> \in R
    PROVE  Cardinality(Under(R, S, x)) < Cardinality(Under(R, S, y))
<1>1. Under(R, S, x) \in SUBSET Under(R, S, y)
  BY DEF Under, Orders
<1>2. IsFiniteSet(Under(R, S, y))
  <2> Under(R, S, y) \in SUBSET S
    BY DEF Under
  <2> QED
    BY FS_Subset
<1>3. x \in Under(R, S, y) /\ x \notin Under(R, S, x)
  BY DEF Under, Orders
<1>4. /\ IsFiniteSet(Under(R, S, x))
      /\ Cardinality(Under(R, S, x)) <= Cardinality(Under(R, S, y))
      /\ Cardinality(Under(R, S, x)) # Cardinality(Under(R, S, y))
  BY <1>1, <1>2, <1>3, FS_Subset
<1>5. /\ Cardinality(Under(R, S, x)) \in Nat
      /\ Cardinality(Under(R, S, y)) \in Nat
  BY <1>2, <1>4, FS_CardinalityType
<1> QED
  BY <1>4, <1>5

(* No two elements have as many below them.                                 *)
LEMMA RankUnique ==
    ASSUME NEW S, IsFiniteSet(S), NEW R, Orders(R, S), NEW e \in S, NEW g \in S,
           Cardinality(Under(R, S, e)) = Cardinality(Under(R, S, g))
    PROVE  e = g
<1>1. ASSUME NEW x \in S PROVE Cardinality(Under(R, S, x)) \in Int
  <2>1. Cardinality(Under(R, S, x)) \in 0..Cardinality(S) - 1
    BY RankBounded
  <2> QED
    BY <2>1
<1>2. ASSUME NEW x \in S, NEW y \in S, <<x, y>> \in R
      PROVE  Cardinality(Under(R, S, x)) < Cardinality(Under(R, S, y))
  BY <1>2, RankGrows
<1>3. <<e, g>> \notin R
  BY <1>1, <1>2
<1>4. <<g, e>> \notin R
  BY <1>1, <1>2
<1> QED
  BY <1>3, <1>4 DEF Orders

(* A set of naturals has a least element, a finite set of integers a         *)
(* greatest one.                                                           *)
LEMMA LeastExists ==
    ASSUME NEW T \in SUBSET Nat, T # {}
    PROVE  \E x \in T : \A y \in T : x <= y
<1>1. PICK n \in T : TRUE
  OBVIOUS
<1> DEFINE C == {0..m : m \in {k \in T : k <= n}}
<1>2. IsFiniteSet(0..n)
  BY FS_Interval
<1>3. C \subseteq SUBSET (0..n)
  OBVIOUS
<1>4. C # {}
  <2>1. 0..n \in C
    BY <1>1
  <2> QED
    BY <2>1
<1>5. PICK c \in C : \A d \in C : d \subseteq c => d = c
  <2> DEFINE W == 0..n
  <2>0. IsFiniteSet(W) /\ C \subseteq SUBSET W
    BY <1>2, <1>3
  <2> HIDE DEF C, W
  <2>1. \E x \in C : \A y \in C : y \subseteq x => y = x
    BY <2>0, <1>4, MinimalSubset
  <2> QED
    BY <2>1
<1>6. PICK x \in T : x <= n /\ c = 0..x
  OBVIOUS
<1>7. \A y \in T : y < x => FALSE
  <2> SUFFICES ASSUME NEW y \in T, y < x PROVE FALSE
    OBVIOUS
  <2>1. 0..y \in C
    BY <1>6
  <2>2. 0..y \subseteq c
    BY <1>6
  <2>3. 0..y = c
    BY <2>1, <2>2, <1>5
  <2> QED
    BY <2>3, <1>6
<1> QED
  BY <1>7

(* A non-empty finite set of integers has a greatest element.               *)
LEMMA GreatestExists ==
    ASSUME NEW S \in SUBSET Int, IsFiniteSet(S), S # {}
    PROVE  Max(S) \in S /\ \A y \in S : y <= Max(S)
<1> DEFINE R == {p \in S \X S : p[1] >= p[2]}
<1>1. \A x, y \in S : <<x, y>> \in R <=> x >= y
  OBVIOUS
<1>2. \E b \in S : \A y \in S \ {b} : <<b, y>> \in R
  <2>1. /\ \A x, y \in S : x # y => <<x, y>> \in R \/ <<y, x>> \in R
        /\ \A x, y, z \in S :
               <<x, y>> \in R /\ <<y, z>> \in R => <<x, z>> \in R
    BY <1>1
  <2> HIDE DEF R
  <2> QED
    BY <2>1, FirstExists
<1>3. \E b \in S : \A y \in S : b >= y
  <2>1. PICK b \in S : \A y \in S \ {b} : <<b, y>> \in R
    BY <1>2
  <2> HIDE DEF R
  <2>2. b >= b
    OBVIOUS
  <2>3. \A y \in S : b >= y
    BY <2>1, <2>2, <1>1
  <2> QED
    BY <2>3
<1>4. Max(S) \in S /\ \A y \in S : Max(S) >= y
  BY <1>3, Zenon DEF Max
<1> DEFINE x == Max(S)
<1>5. x \in S /\ \A y \in S : x >= y
  BY <1>4
<1> HIDE DEF x
<1>6. \A y \in S : y <= x
  BY <1>5
<1> QED
  BY <1>5, <1>6 DEF x

(* The maximum of a set is the element that bounds it from above.           *)
LEMMA MaxIs ==
    ASSUME NEW S \in SUBSET Int, NEW m \in S, \A y \in S : y <= m
    PROVE  Max(S) = m
<1>1. \E x \in S : \A y \in S : x >= y
  OBVIOUS
<1>2. Max(S) \in S /\ \A y \in S : Max(S) >= y
  BY <1>1, Zenon DEF Max
<1> DEFINE x == Max(S)
<1>3. x \in S /\ m \in S /\ x >= m
  BY <1>2
<1> HIDE DEF x
<1>4. x \in Int /\ m \in Int
  BY <1>3
<1>5. x = m
  BY <1>3, <1>4
<1> QED
  BY <1>5 DEF x

(* The minimum of a set is the element that bounds it from below.           *)
LEMMA MinIs ==
    ASSUME NEW S \in SUBSET Int, NEW m \in S, \A y \in S : m <= y
    PROVE  Min(S) = m
<1>1. \E x \in S : \A y \in S : x <= y
  OBVIOUS
<1>2. Min(S) \in S /\ \A y \in S : Min(S) <= y
  BY <1>1, Zenon DEF Min
<1> DEFINE x == Min(S)
<1>3. x \in S /\ m \in S /\ x <= m
  BY <1>2
<1> HIDE DEF x
<1>4. x \in Int /\ m \in Int
  BY <1>3
<1>5. x = m
  BY <1>3, <1>4
<1> QED
  BY <1>5 DEF x

(* min(a, b), as the manager lowers a start and a page takes a limit.       *)
LEMMA LeastOfTwo ==
    ASSUME NEW a \in Nat, NEW b \in Nat
    PROVE  Min({a, b}) \in {a, b} /\ Min({a, b}) <= a /\ Min({a, b}) <= b
<1> DEFINE S == {a, b}
<1>1. S \in SUBSET Int /\ a \in S /\ b \in S
  OBVIOUS
<1>2. CASE a <= b
  <2>1. \A y \in S : a <= y
    BY <1>2
  <2> HIDE DEF S
  <2>2. Min(S) = a
    BY <1>1, <2>1, MinIs
  <2> QED
    BY <2>2, <1>2 DEF S
<1>3. CASE b <= a
  <2>1. \A y \in S : b <= y
    BY <1>3
  <2> HIDE DEF S
  <2>2. Min(S) = b
    BY <1>1, <2>1, MinIs
  <2> QED
    BY <2>2, <1>3 DEF S
<1> QED
  BY <1>2, <1>3

(* max(a, b), as the manager raises a severity.                             *)
LEMMA GreatestOfTwo ==
    ASSUME NEW a \in Nat, NEW b \in Nat
    PROVE  Max({a, b}) \in {a, b} /\ a <= Max({a, b}) /\ b <= Max({a, b})
<1> DEFINE S == {a, b}
<1>1. S \in SUBSET Int /\ a \in S /\ b \in S
  OBVIOUS
<1>2. CASE b <= a
  <2>1. \A y \in S : y <= a
    BY <1>2
  <2> HIDE DEF S
  <2>2. Max(S) = a
    BY <1>1, <2>1, MaxIs
  <2> QED
    BY <2>2, <1>2 DEF S
<1>3. CASE a <= b
  <2>1. \A y \in S : y <= b
    BY <1>3
  <2> HIDE DEF S
  <2>2. Max(S) = b
    BY <1>1, <2>1, MaxIs
  <2> QED
    BY <2>2, <1>3 DEF S
<1> QED
  BY <1>2, <1>3

(* Scores lie in 0..100: any set of them is finite.                         *)
LEMMA ScoresAreFinite ==
    ASSUME NEW S \in SUBSET (0..100)
    PROVE  IsFiniteSet(S)
<1> DEFINE W == 0..100
<1>1. \A n \in Int : IsFiniteSet(0..n)
  BY FS_Interval
<1>2. 100 \in Int
  OBVIOUS
<1>3. IsFiniteSet(W)
  BY <1>1, <1>2, Zenon
<1> HIDE DEF W
<1>4. S \in SUBSET W
  BY DEF W
<1> QED
  BY <1>3, <1>4, FS_Subset

-----------------------------------------------------------------------------
(* Events in their order.                                                   *)

EventOrder == {p \in Events \X Events : Before(p[1], p[2])}

(* (timestamp, id) orders events: a lookback takes them one by one.         *)
LEMMA EventsAreOrdered ==
    ASSUME NEW S \in SUBSET Events
    PROVE  Orders(EventOrder, S)
<1>1. \A x, y \in S : <<x, y>> \in EventOrder <=> Before(x, y)
  BY DEF EventOrder
<1>2. \A x \in S : x \in Nat /\ TimeOf[x] \in Nat
  BY EventsAssumption, DataAssumption
<1> QED
  BY <1>1, <1>2 DEF Orders, Before

(* InOrder lists every event once: it has an event in each of its places.    *)
LEMMA InOrderLists ==
    ASSUME NEW S \in SUBSET Events
    PROVE  InOrder(S) \in Seq(S) /\ Len(InOrder(S)) = Cardinality(S)
<1>1. IsFiniteSet(S) /\ Cardinality(S) \in Nat
  BY EventsAssumption, FS_Subset, FS_CardinalityType
<1>2. \A e \in S : Under(EventOrder, S, e) = {f \in S : Before(f, e)}
  BY DEF Under, EventOrder
<1>3. ASSUME NEW k \in 1..Cardinality(S)
      PROVE  (CHOOSE e \in S : Cardinality({f \in S : Before(f, e)}) = k - 1)
                 \in S
  <2>1. \E e \in S : Cardinality(Under(EventOrder, S, e)) = k - 1
    BY <1>1, EventsAreOrdered, RankExists
  <2>2. \E e \in S : Cardinality({f \in S : Before(f, e)}) = k - 1
    BY <2>1, <1>2
  <2> QED
    BY <2>2
<1>4. InOrder(S) \in [1..Cardinality(S) -> S]
  BY <1>3 DEF InOrder
<1> QED
  BY <1>1, <1>4

-----------------------------------------------------------------------------
(* The lookback.  What every prior event leaves true of an incident is true  *)
(* of the incident after the last one.                                     *)
LEMMA TakeAllKeeps ==
    ASSUME NEW Q, NEW F, NEW opened \in Q, NEW prior \in Seq(F), NEW context,
           \A inc \in Q, f \in F : TakePrior(inc, f, context) \in Q
    PROVE  TakeAll(opened, prior, context) \in Q
<1> DEFINE N == Len(prior)
           Next_(g, k) == IF k = 0 THEN opened
                          ELSE TakePrior(g[k - 1], prior[k], context)
           Taken(g, n) == g = [k \in 0..n |-> Next_(g, k)]
<1>1. N \in Nat /\ \A k \in 1..N : prior[k] \in F
  OBVIOUS
<1>2. \A n \in 0..N : \E g : Taken(g, n)
  <2> DEFINE T == {n \in 0..N : ~\E g : Taken(g, n)}
  <2> SUFFICES ASSUME T # {} PROVE FALSE
    OBVIOUS
  <2>1. PICK n \in T : \A m \in T : n <= m
    <3> T \in SUBSET Nat
      BY <1>1
    <3> HIDE DEF T
    <3> QED
      BY LeastExists
  <2>2. n \in 0..N /\ ~\E g : Taken(g, n)
    OBVIOUS
  <2>3. n # 0
    <3> SUFFICES ASSUME n = 0 PROVE FALSE
      OBVIOUS
    <3> DEFINE g == [k \in 0..0 |-> opened]
    <3>1. Taken(g, 0)
      OBVIOUS
    <3> QED
      BY <3>1, <2>2
  <2>4. n - 1 \in 0..N /\ n - 1 \notin T
    <3>1. n - 1 \in 0..N /\ ~(n <= n - 1)
      BY <2>2, <2>3, <1>1
    <3> HIDE DEF T
    <3> QED
      BY <2>1, <3>1
  <2>5. PICK g : Taken(g, n - 1)
    BY <2>4
  <2> DEFINE h == [k \in 0..n |-> IF k = n THEN Next_(g, n) ELSE g[k]]
  <2>6. \A k \in 0..(n - 1) : g[k] = Next_(g, k)
    BY <2>5
  <2>7. \A k \in 0..n : h[k] = Next_(h, k)
    <3> TAKE k \in 0..n
    <3>1. CASE k = n
      <4>1. n - 1 \in 0..n /\ n - 1 # n
        BY <2>2, <2>3
      <4>2. h[n - 1] = g[n - 1]
        BY <4>1
      <4> QED
        BY <3>1, <4>2, <2>3
    <3>2. CASE k # n
      <4>1. k \in 0..(n - 1)
        BY <3>2, <2>2
      <4>2. h[k] = g[k] /\ g[k] = Next_(g, k)
        BY <4>1, <3>2, <2>6
      <4>3. k # 0 => h[k - 1] = g[k - 1]
        BY <4>1, <2>2, <3>2
      <4> QED
        BY <4>2, <4>3
    <3> QED
      BY <3>1, <3>2
  <2>8. Taken(h, n)
    <3>1. h = [k \in 0..n |-> h[k]]
      OBVIOUS
    <3> HIDE DEF h
    <3> QED
      BY <2>7, <3>1
  <2> QED
    BY <2>8, <2>2
<1> DEFINE taken == CHOOSE g : Taken(g, N)
<1>3. Taken(taken, N)
  <2>1. N \in 0..N
    BY <1>1
  <2>2. \E g : Taken(g, N)
    BY <1>2, <2>1
  <2> HIDE DEF Taken
  <2> QED
    BY <2>2
<1>4. TakeAll(opened, prior, context) = taken[N]
  BY DEF TakeAll
<1> HIDE DEF taken
<1>5. \A k \in 0..N : taken[k] \in Q
  <2> DEFINE T == {k \in 0..N : taken[k] \notin Q}
  <2> SUFFICES ASSUME T # {} PROVE FALSE
    OBVIOUS
  <2>1. PICK k \in T : \A m \in T : k <= m
    <3> T \in SUBSET Nat
      BY <1>1
    <3> HIDE DEF T
    <3> QED
      BY LeastExists
  <2>2. k \in 0..N /\ taken[k] \notin Q
    OBVIOUS
  <2>3. taken[k] = Next_(taken, k)
    BY <1>3, <2>2
  <2>4. CASE k = 0
    BY <2>2, <2>3, <2>4
  <2>5. CASE k # 0
    <3>1. k - 1 \in 0..N /\ k - 1 \notin T
      BY <2>1, <2>2, <2>5, <1>1
    <3>2. taken[k - 1] \in Q
      BY <3>1
    <3>3. prior[k] \in F
      BY <1>1, <2>2, <2>5
    <3> QED
      BY <2>2, <2>3, <2>5, <3>2, <3>3
  <2> QED
    BY <2>4, <2>5
<1> QED
  BY <1>1, <1>4, <1>5

-----------------------------------------------------------------------------
(* Attaching an event.                                                      *)

(* A score is a number between -1 and 1, in hundredths.                     *)
LEMMA ScoreIsDecision ==
    ASSUME NEW inc, inc.started \in Nat, NEW e \in Events, NEW anomalies,
           NEW context, NEW lookback \in BOOLEAN,
           lookback => context.since \in Nat
    PROVE  ScoreAttachment(inc, e, anomalies, context, lookback) \in Decision
<1> DEFINE near == Near(inc, e, context, lookback)
           differ == DifferentTrace(e, context)
           symptom == Symptom(e, context)
           related == Relationship(inc, e, context)
           sum == related + symptom + differ + near
<1>1. near \in {0, 10}
  BY DEF Near
<1>2. differ \in {0, -20}
  BY DEF DifferentTrace
<1>3. symptom \in {20, -25, 0}
  BY DEF Symptom
<1>4. related \in {0, 15, 30, 40, 55, 70, 80}
  BY DEF Relationship
<1> HIDE DEF near, differ, symptom, related
<1>5. sum \in -45..130
  BY <1>1, <1>2, <1>3, <1>4
<1> HIDE DEF sum
<1>6. Min({100, sum}) \in -45..100
  <2>1. CASE sum <= 100
    <3>1. Min({100, sum}) = sum
      BY <1>5, <2>1, MinIs
    <3> QED
      BY <3>1, <1>5, <2>1
  <2>2. CASE 100 <= sum
    <3>1. Min({100, sum}) = 100
      BY <1>5, <2>2, MinIs
    <3> QED
      BY <3>1
  <2> QED
    BY <2>1, <2>2, <1>5
<1> DEFINE score == Min({100, related + symptom + differ + near})
<1>7. score \in -45..100
  BY <1>6 DEF sum
<1> HIDE DEF score
<1>8. ScoreAttachment(inc, e, anomalies, context, lookback) =
          IF ~lookback /\ TimeOf[e] > inc.last + IdleSeconds
          THEN [decision |-> "excluded", score |-> 0]
          ELSE [decision |-> IF /\ \/ anomalies # {}
                                   \/ EvidenceRuleMatches(e, context) # {}
                                /\ related > 0
                                /\ score >= AttachThreshold
                             THEN "attached" ELSE "excluded",
                score |-> score]
  BY Zenon DEF ScoreAttachment, score, near, differ, symptom, related
<1> QED
  BY <1>7, <1>8 DEF Decision

(* The anomalies of an event are finitely many.                             *)
LEMMA AnomaliesAreFinite ==
    ASSUME NEW A \in SUBSET Anomaly
    PROVE  IsFiniteSet(A) /\ Cardinality(A) \in Nat
<1>1. \A n \in Int : IsFiniteSet(0..n)
  BY FS_Interval
<1> DEFINE P == (0..100) \X (0..1)
           f == [p \in P |-> [score |-> p[1], opens |-> p[2] = 1]]
<1>2. IsFiniteSet(P)
  <2> DEFINE A1 == 0..100
             A2 == 0..1
  <2>1. IsFiniteSet(A1) /\ IsFiniteSet(A2)
    <3>1. 1 \in Int /\ 100 \in Int
      OBVIOUS
    <3> QED
      BY <1>1, <3>1, Zenon
  <2> HIDE DEF A1, A2
  <2>2. IsFiniteSet(A1 \X A2)
    BY <2>1, FS_Product
  <2> QED
    BY <2>2 DEF A1, A2
<1>3. f \in Surjection(P, Anomaly)
  <2>1. f \in [P -> Anomaly]
    BY DEF Anomaly
  <2>2. ASSUME NEW a \in Anomaly
        PROVE  \E p \in P : f[p] = a
    <3> DEFINE p == <<a.score, IF a.opens THEN 1 ELSE 0>>
    <3>1. a.score \in 0..100 /\ a.opens \in BOOLEAN
          /\ a = [score |-> a.score, opens |-> a.opens]
      BY DEF Anomaly
    <3>2. p \in P
      BY <3>1
    <3>3. f[p].score = a.score /\ f[p].opens = a.opens
      BY <3>1, <3>2
    <3>4. f[p] = [score |-> f[p].score, opens |-> f[p].opens]
      BY <3>2
    <3>5. f[p] = a
      BY <3>1, <3>3, <3>4
    <3> QED
      BY <3>2, <3>5
  <2> QED
    <3>1. \A a \in Anomaly : \E p \in P : f[p] = a
      BY <2>2, Zenon
    <3> HIDE DEF P, f
    <3> QED
      BY <2>1, <3>1 DEF Surjection
<1>4. IsFiniteSet(Anomaly)
  <2> HIDE DEF P, f
  <2> QED
    BY <1>2, <1>3, FS_Surjection
<1> QED
  BY <1>4, FS_Subset, FS_CardinalityType

Logs == UNION {[S -> Decision] : S \in SUBSET Events}

(* A decision added to a log makes a log.                                   *)
LEMMA LogGrows ==
    ASSUME NEW log \in Logs, NEW f \in Events, NEW d \in Decision
    PROVE  /\ [g \in DOMAIN log \cup {f} |-> IF g = f THEN d ELSE log[g]]
                  \in Logs
           /\ DOMAIN log \subseteq Events
           /\ \A g \in DOMAIN log : log[g] \in Decision
<1>1. PICK S \in SUBSET Events : log \in [S -> Decision]
  BY DEF Logs
<1>2. DOMAIN log = S /\ \A g \in S : log[g] \in Decision
  BY <1>1
<1>3. [g \in DOMAIN log \cup {f} |-> IF g = f THEN d ELSE log[g]]
          \in [S \cup {f} -> Decision]
  BY <1>2
<1>4. S \cup {f} \in SUBSET Events
  OBVIOUS
<1> QED
  BY <1>2, <1>3, <1>4 DEF Logs

Actionable(anomalies) == {a \in anomalies : a.opens}

(* Moved(r, inc, f, act): the bounds moved only apart, every actionable      *)
(* anomaly is counted and the severity is the greatest of their scores.      *)
Moved(r, inc, f, act) ==
    /\ r.status = inc.status /\ r.primary = inc.primary
    /\ r.opener = inc.opener /\ r.log = inc.log
    /\ r.started \in {inc.started, TimeOf[f]}
    /\ r.started <= inc.started /\ r.started <= TimeOf[f]
    /\ r.last \in {inc.last, TimeOf[f]}
    /\ inc.last <= r.last /\ TimeOf[f] <= r.last
    /\ r.count = inc.count + Cardinality(act)
    /\ r.affected = IF act = {} THEN inc.affected
                    ELSE inc.affected \cup {EntityOf[f]}
    /\ r.severity \in {inc.severity} \cup {a.score : a \in act}
    /\ inc.severity <= r.severity
    /\ \A a \in act : a.score <= r.severity

(* What Attach does.                                                        *)
LEMMA AttachMoves ==
    ASSUME NEW inc \in Incident, NEW f \in Events,
           NEW anomalies \in SUBSET Anomaly, NEW r,
           r = Attach(inc, f, anomalies)
    PROVE  r \in Incident /\ Moved(r, inc, f, Actionable(anomalies))
<1> DEFINE act == Actionable(anomalies)
           scores == {inc.severity} \cup {a.score : a \in act}
           earliest == Min({inc.started, TimeOf[f]})
           latest == Max({inc.last, TimeOf[f]})
<1>1. /\ inc.started \in Nat /\ inc.last \in Nat /\ inc.severity \in 0..100
      /\ inc.count \in Nat /\ TimeOf[f] \in Nat
      /\ inc.affected \in SUBSET {EntityOf[e] : e \in Events}
  BY DataAssumption DEF Incident
<1>2. /\ earliest \in {inc.started, TimeOf[f]}
      /\ earliest <= inc.started /\ earliest <= TimeOf[f]
  BY <1>1, LeastOfTwo, Zenon
<1>3. /\ latest \in {inc.last, TimeOf[f]}
      /\ inc.last <= latest /\ TimeOf[f] <= latest
  BY <1>1, GreatestOfTwo, Zenon
<1>4. act \in SUBSET Anomaly
  BY DEF Actionable
<1>5. /\ scores \in SUBSET (0..100) /\ scores # {}
      /\ Max(scores) \in scores /\ \A s \in scores : s <= Max(scores)
  <2>1. \A a \in act : a.score \in 0..100
    BY <1>4 DEF Anomaly
  <2>2. scores \in SUBSET (0..100) /\ scores # {}
    BY <2>1, <1>1
  <2> HIDE DEF scores
  <2>4. IsFiniteSet(scores) /\ scores \in SUBSET Int
    BY <2>2, ScoresAreFinite
  <2> QED
    BY <2>2, <2>4, GreatestExists
<1>6. Cardinality(act) \in Nat
  BY <1>4, AnomaliesAreFinite
<1> DEFINE greatest == Max(scores)
<1>7. greatest \in 0..100
  BY <1>5
<1>8. r = [inc EXCEPT
              !.started  = earliest,
              !.last     = latest,
              !.count    = inc.count + Cardinality(act),
              !.affected = IF act = {} THEN inc.affected
                           ELSE inc.affected \cup {EntityOf[f]},
              !.severity = greatest]
  BY DEF Attach, Actionable
<1>9. /\ r.started = earliest /\ r.last = latest
      /\ r.count = inc.count + Cardinality(act)
      /\ r.affected = IF act = {} THEN inc.affected
                      ELSE inc.affected \cup {EntityOf[f]}
      /\ r.severity = greatest
      /\ r.status = inc.status /\ r.primary = inc.primary
      /\ r.opener = inc.opener /\ r.log = inc.log
  <2> HIDE DEF earliest, latest, act, greatest
  <2> QED
    BY <1>8 DEF Incident
<1>10. r \in Incident
  <2>1. earliest \in Nat /\ latest \in Nat
    BY <1>1, <1>2, <1>3
  <2>2. r.count \in Nat
    BY <1>9, <1>1, <1>6
  <2>3. r.affected \in SUBSET {EntityOf[e] : e \in Events}
    BY <1>9, <1>1
  <2>4. r.severity \in 0..100 /\ r.started \in Nat /\ r.last \in Nat
    BY <1>9, <1>7, <2>1
  <2>5. r = [inc EXCEPT !.started = r.started, !.last = r.last,
                        !.count = r.count, !.affected = r.affected,
                        !.severity = r.severity]
    <3> HIDE DEF earliest, latest, act, greatest
    <3> QED
      BY <1>8, <1>9
  <2> HIDE DEF earliest, latest, act, greatest
  <2> QED
    BY <2>2, <2>3, <2>4, <2>5 DEF Incident
<1>11. /\ greatest \in scores /\ inc.severity <= greatest
       /\ \A a \in act : a.score <= greatest
  BY <1>5
<1> QED
  <2> HIDE DEF earliest, latest, greatest
  <2> QED
    BY <1>2, <1>3, <1>9, <1>10, <1>11 DEF Moved

(* The decision about an event is recorded once.                            *)
LEMMA DecisionStands ==
    ASSUME NEW inc, NEW f \in DOMAIN inc.log, NEW anomalies, NEW d
    PROVE  PersistEvaluation(inc, f, anomalies, d) = inc
  BY DEF PersistEvaluation

(* Recorded(r, inc, f, d): the log of r is that of inc and the decision d,   *)
(* and r does not start later.                                             *)
Recorded(r, inc, f, d) ==
    /\ r.started <= inc.started
    /\ r.status = inc.status /\ r.primary = inc.primary
    /\ r.opener = inc.opener
    /\ DOMAIN r.log = DOMAIN inc.log \cup {f}
    /\ r.log[f] = d
    /\ \A g \in DOMAIN inc.log : r.log[g] = inc.log[g]

Logged(inc, f, d) ==
    [inc EXCEPT !.log = [g \in DOMAIN @ \cup {f} |-> IF g = f THEN d ELSE @[g]]]

(* A decision that attaches nothing leaves all but the log as it was.       *)
LEMMA LoggedIsIncident ==
    ASSUME NEW inc \in Incident, NEW f \in Events, NEW d \in Decision,
           f \notin DOMAIN inc.log
    PROVE  /\ Logged(inc, f, d) \in Incident
           /\ Recorded(Logged(inc, f, d), inc, f, d)
           /\ Logged(inc, f, d).started = inc.started
           /\ Logged(inc, f, d).last = inc.last
           /\ Logged(inc, f, d).severity = inc.severity
           /\ Logged(inc, f, d).count = inc.count
           /\ Logged(inc, f, d).affected = inc.affected
<1> DEFINE log == [g \in DOMAIN inc.log \cup {f} |->
                      IF g = f THEN d ELSE inc.log[g]]
           r == Logged(inc, f, d)
<1>1. log \in Logs
  <2>1. inc.log \in Logs
    BY DEF Incident, Logs
  <2> QED
    BY <2>1, LogGrows
<1>2. r = [inc EXCEPT !.log = log]
  BY DEF Logged
<1>3. /\ DOMAIN log = DOMAIN inc.log \cup {f} /\ log[f] = d
      /\ \A g \in DOMAIN inc.log : log[g] = inc.log[g]
  OBVIOUS
<1> HIDE DEF r, log
<1>4. /\ r.status = inc.status /\ r.primary = inc.primary
      /\ r.opener = inc.opener /\ r.started = inc.started
      /\ r.last = inc.last /\ r.severity = inc.severity
      /\ r.count = inc.count /\ r.affected = inc.affected /\ r.log = log
  BY <1>2 DEF Incident
<1>5. r \in Incident
  BY <1>1, <1>2 DEF Incident, Logs
<1>6. r.started <= inc.started
  BY <1>4 DEF Incident
<1> QED
  BY <1>3, <1>4, <1>5, <1>6 DEF Recorded, r

-----------------------------------------------------------------------------
(* The summary of an incident.                                              *)

Counted(inc) == UNION {{e} \X ActionableOf(inc, e) : e \in Attached(inc)}

AffectedBy(inc) ==
    {EntityOf[e] : e \in {f \in Attached(inc) : ActionableOf(inc, f) # {}}}

(* SummaryOfAttached of one incident, with the extrema said as bounds that   *)
(* are reached: what a step of the manager keeps.                          *)
Summarises(inc) ==
    /\ inc.opener \in Attached(inc)
    /\ OpeningAnomalies(inc.opener) # {}
    /\ \E e \in Attached(inc) : inc.started = TimeOf[e]
    /\ \A e \in Attached(inc) : inc.started <= TimeOf[e]
    /\ \E e \in Attached(inc) : inc.last = TimeOf[e]
    /\ \A e \in Attached(inc) : TimeOf[e] <= inc.last
    /\ \E e \in Attached(inc) : \E a \in ActionableOf(inc, e) :
          inc.severity = a.score
    /\ \A e \in Attached(inc) : \A a \in ActionableOf(inc, e) :
          a.score <= inc.severity
    /\ inc.count = Cardinality(Counted(inc))
    /\ inc.affected = AffectedBy(inc)

(* What a recorded decision attaches is the event it is about ...           *)
LEMMA AttachedAfter ==
    ASSUME NEW inc, NEW r, NEW f, f \notin DOMAIN inc.log, NEW d,
           Recorded(r, inc, f, d)
    PROVE  d.decision = "attached" => Attached(r) = Attached(inc) \cup {f}
  BY DEF Attached, Recorded

(* ... and nothing when it is another decision.                             *)
LEMMA AttachedStays ==
    ASSUME NEW inc, NEW r, NEW f, f \notin DOMAIN inc.log, NEW d,
           Recorded(r, inc, f, d), d.decision # "attached"
    PROVE  Attached(r) = Attached(inc)
  BY DEF Attached, Recorded

(* What is actionable of an event are anomalies found in it.                *)
LEMMA ActionableAreAnomalies ==
    ASSUME NEW inc, NEW e \in Events
    PROVE  ActionableOf(inc, e) \in SUBSET Anomaly
  BY DataAssumption DEF ActionableOf, OpeningAnomalies

(* An incident counts finitely many anomalies.                              *)
LEMMA CountedIsFinite ==
    ASSUME NEW inc \in Incident
    PROVE  IsFiniteSet(Counted(inc))
<1>1. Attached(inc) \in SUBSET Events
  <2>1. inc.log \in Logs
    BY DEF Incident, Logs
  <2>2. DOMAIN inc.log \subseteq Events
    BY <2>1 DEF Logs
  <2> QED
    BY <2>2 DEF Attached
<1>2. IsFiniteSet(Anomaly)
  BY AnomaliesAreFinite
<1>3. IsFiniteSet(Events \X Anomaly)
  BY <1>2, EventsAssumption, FS_Product
<1>4. Counted(inc) \in SUBSET (Events \X Anomaly)
  BY <1>1, ActionableAreAnomalies DEF Counted
<1> QED
  BY <1>3, <1>4, FS_Subset

(* An event that is excluded changes nothing, one that is attached adds what *)
(* it has to say.                                                          *)
LEMMA PriorSummarised ==
    ASSUME NEW inc \in Incident, Summarises(inc), NEW f \in Events,
           f \notin DOMAIN inc.log, NEW d \in Decision, NEW r,
           r = PersistEvaluation(inc, f, AnomaliesOf[f], d)
    PROVE  r \in Incident /\ Recorded(r, inc, f, d) /\ Summarises(r)
<1> DEFINE logged == Logged(inc, f, d)
           act == Actionable(AnomaliesOf[f])
<1>1. r = IF d.decision = "attached" THEN Attach(logged, f, AnomaliesOf[f])
          ELSE logged
  BY DEF PersistEvaluation, Logged
<1>2. /\ logged \in Incident /\ Recorded(logged, inc, f, d)
      /\ logged.started = inc.started /\ logged.last = inc.last
      /\ logged.severity = inc.severity /\ logged.count = inc.count
      /\ logged.affected = inc.affected
  BY LoggedIsIncident
<1>3. f \notin Attached(inc) /\ f # inc.opener
  BY DEF Summarises, Attached
<1> HIDE DEF logged
<1>4. CASE d.decision # "attached"
  <2>0. r = logged
    BY <1>1, <1>4
  <2>1. r = logged /\ Attached(r) = Attached(inc) /\ r.opener = inc.opener
    <3>1. Recorded(r, inc, f, d)
      BY <2>0, <1>2
    <3>2. Attached(r) = Attached(inc)
      BY <3>1, <1>4, AttachedStays
    <3> QED
      BY <2>0, <3>1, <3>2 DEF Recorded
  <2>2. \A e : ActionableOf(r, e) = ActionableOf(inc, e)
    BY <2>1 DEF ActionableOf
  <2>3. Counted(r) = Counted(inc) /\ AffectedBy(r) = AffectedBy(inc)
    BY <2>1, <2>2 DEF Counted, AffectedBy
  <2>4. Summarises(r)
    BY <2>1, <2>2, <2>3, <1>2 DEF Summarises
  <2> QED
    BY <2>1, <2>4, <1>2
<1>5. CASE d.decision = "attached"
  <2>1. AnomaliesOf[f] \in SUBSET Anomaly
    BY DataAssumption
  <2>2. /\ r \in Incident
        /\ r.status = logged.status /\ r.primary = logged.primary
        /\ r.opener = logged.opener /\ r.log = logged.log
        /\ r.started \in {inc.started, TimeOf[f]}
        /\ r.started <= inc.started /\ r.started <= TimeOf[f]
        /\ r.last \in {inc.last, TimeOf[f]}
        /\ inc.last <= r.last /\ TimeOf[f] <= r.last
        /\ r.count = inc.count + Cardinality(act)
        /\ r.affected = IF act = {} THEN inc.affected
                        ELSE inc.affected \cup {EntityOf[f]}
        /\ r.severity \in {inc.severity} \cup {a.score : a \in act}
        /\ inc.severity <= r.severity
        /\ \A a \in act : a.score <= r.severity
    <3>1. r = Attach(logged, f, AnomaliesOf[f])
      BY <1>1, <1>5
    <3>2. r \in Incident /\ Moved(r, logged, f, act)
      BY <3>1, <2>1, <1>2, AttachMoves
    <3> HIDE DEF act
    <3> QED
      BY <3>2, <1>2 DEF Moved
  <2>3. Recorded(r, inc, f, d)
    BY <2>2, <1>2 DEF Recorded
  <2>4. Attached(r) = Attached(inc) \cup {f}
    BY <2>3, <1>5, AttachedAfter, Zenon
  <2>5. r.opener = inc.opener
    BY <2>3 DEF Recorded
  <2>6. /\ \A e : ActionableOf(r, e) = ActionableOf(inc, e)
        /\ ActionableOf(r, f) = act
    BY <2>5, <1>3 DEF ActionableOf, Actionable
  <2>7. inc.opener \in Attached(r) /\ OpeningAnomalies(inc.opener) # {}
    BY <2>4 DEF Summarises
  <2>8. Attached(inc) \in SUBSET Events /\ Attached(r) \in SUBSET Events
    <3>1. inc.log \in Logs
      BY DEF Incident, Logs
    <3>2. DOMAIN inc.log \subseteq Events
      BY <3>1 DEF Logs
    <3>3. Attached(inc) \in SUBSET Events
      BY <3>2 DEF Attached
    <3> QED
      BY <3>3, <2>4
  <2>9. /\ \A e \in Attached(r) : TimeOf[e] \in Nat
        /\ inc.started \in Nat /\ r.started \in Nat
        /\ inc.last \in Nat /\ r.last \in Nat
        /\ inc.severity \in 0..100 /\ r.severity \in 0..100
    BY <2>8, <2>2, DataAssumption DEF Incident
  <2>10. /\ \E e \in Attached(r) : r.started = TimeOf[e]
         /\ \A e \in Attached(r) : r.started <= TimeOf[e]
    BY <2>2, <2>4, <2>9 DEF Summarises
  <2>11. /\ \E e \in Attached(r) : r.last = TimeOf[e]
         /\ \A e \in Attached(r) : TimeOf[e] <= r.last
    BY <2>2, <2>4, <2>9 DEF Summarises
  <2>12. \E e \in Attached(r) : \E a \in ActionableOf(r, e) :
             r.severity = a.score
    <3>1. CASE r.severity = inc.severity
      BY <3>1, <2>4, <2>6 DEF Summarises
    <3>2. CASE r.severity \in {a.score : a \in act}
      BY <3>2, <2>4, <2>6
    <3> QED
      BY <3>1, <3>2, <2>2
  <2>13. \A e \in Attached(r) : \A a \in ActionableOf(r, e) :
             a.score <= r.severity
    <3> SUFFICES ASSUME NEW e \in Attached(r), NEW a \in ActionableOf(r, e)
                 PROVE  a.score <= r.severity
      OBVIOUS
    <3>1. CASE e = f
      BY <3>1, <2>6, <2>2
    <3>2. CASE e \in Attached(inc)
      <4>1. a.score <= inc.severity
        BY <3>2, <2>6 DEF Summarises
      <4>2. a \in Anomaly
        BY <2>8, ActionableAreAnomalies
      <4>3. a.score \in 0..100
        BY <4>2 DEF Anomaly
      <4>4. /\ inc.severity <= r.severity
            /\ inc.severity \in Int /\ r.severity \in Int /\ a.score \in Int
        BY <4>3, <2>2, <2>9
      <4> QED
        BY <4>1, <4>4
    <3> QED
      BY <3>1, <3>2, <2>4
  <2>14. r.count = Cardinality(Counted(r))
    <3>1. Counted(r) = Counted(inc) \cup ({f} \X act)
      BY <2>4, <2>6 DEF Counted
    <3>2. Counted(inc) \cap ({f} \X act) = {}
      BY <1>3 DEF Counted
    <3>3. IsFiniteSet(Counted(inc)) /\ IsFiniteSet(act)
      <4>1. act \in SUBSET Anomaly
        BY <2>1 DEF Actionable
      <4> QED
        BY <4>1, CountedIsFinite, AnomaliesAreFinite
    <3>4. IsFiniteSet({f}) /\ Cardinality({f}) = 1
      BY FS_Singleton
    <3>5. IsFiniteSet({f} \X act)
          /\ Cardinality({f} \X act) = 1 * Cardinality(act)
      BY <3>3, <3>4, FS_Product
    <3>6. Cardinality(act) \in Nat /\ Cardinality(Counted(inc)) \in Nat
      BY <3>3, FS_CardinalityType
    <3>7. Cardinality(Counted(r))
              = Cardinality(Counted(inc)) + Cardinality({f} \X act)
                    - Cardinality(Counted(inc) \cap ({f} \X act))
      BY <3>1, <3>3, <3>5, FS_Union
    <3>8. Cardinality(Counted(inc) \cap ({f} \X act)) = 0
      BY <3>2, FS_EmptySet
    <3> QED
      BY <3>5, <3>6, <3>7, <3>8, <2>2 DEF Summarises
  <2>15. r.affected = AffectedBy(r)
    <3>1. inc.affected = AffectedBy(inc)
      BY DEF Summarises
    <3>2. CASE act = {}
      <4>1. {g \in Attached(r) : ActionableOf(r, g) # {}}
                = {g \in Attached(inc) : ActionableOf(inc, g) # {}}
        BY <3>2, <2>4, <2>6
      <4> QED
        BY <4>1, <3>1, <3>2, <2>2 DEF AffectedBy
    <3>3. CASE act # {}
      <4>1. {g \in Attached(r) : ActionableOf(r, g) # {}}
                = {g \in Attached(inc) : ActionableOf(inc, g) # {}} \cup {f}
        BY <3>3, <2>4, <2>6
      <4> QED
        BY <4>1, <3>1, <3>3, <2>2 DEF AffectedBy
    <3> QED
      BY <3>2, <3>3
  <2>16. Summarises(r)
    BY <2>5, <2>7, <2>10, <2>11, <2>12, <2>13, <2>14, <2>15 DEF Summarises
  <2> QED
    BY <2>2, <2>3, <2>16
<1> QED
  BY <1>4, <1>5

-----------------------------------------------------------------------------
(* Opening an incident.                                                     *)

(* The row that is inserted for an opener, before anything is attached.     *)
LEMMA FreshIsIncident ==
    ASSUME NEW e \in Events
    PROVE  /\ Fresh(e) \in Incident /\ DOMAIN Fresh(e).log = {}
           /\ Fresh(e).status = "open" /\ Fresh(e).opener = e
           /\ Fresh(e).primary = EntityOf[e]
           /\ Fresh(e).started = TimeOf[e] /\ Fresh(e).last = TimeOf[e]
           /\ Fresh(e).severity = 0 /\ Fresh(e).count = 0
           /\ Fresh(e).affected = {EntityOf[e]}
<1>1. << >> \in Logs
  <2>1. << >> \in [{} -> Decision] /\ {} \in SUBSET Events
    OBVIOUS
  <2> QED
    BY <2>1 DEF Logs
<1>2. TimeOf[e] \in Nat
  BY DataAssumption
<1> DEFINE none == << >>
<1>3. DOMAIN none = {}
  OBVIOUS
<1> HIDE DEF none
<1>4. Fresh(e) = [status |-> "open", primary |-> EntityOf[e],
                  started |-> TimeOf[e], last |-> TimeOf[e], severity |-> 0,
                  count |-> 0, affected |-> {EntityOf[e]}, opener |-> e,
                  log |-> none]
  BY DEF Fresh, none
<1>5. none \in Logs
  BY <1>1 DEF none
<1>6. Incident = [status : Active \cup {"closed"},
                  primary : {EntityOf[f] : f \in Events},
                  started : Nat, last : Nat, severity : 0..100, count : Nat,
                  affected : SUBSET {EntityOf[f] : f \in Events},
                  opener : Events, log : Logs]
  BY DEF Incident, Logs
<1>7. Fresh(e) \in Incident
  BY <1>2, <1>4, <1>5, <1>6 DEF Active
<1> QED
  BY <1>3, <1>4, <1>7

(* An opening event always attaches to its own incident: the same entity     *)
(* and the nearness in time reach any threshold the manager may have.       *)
LEMMA OpenerAttaches ==
    ASSUME NEW e \in Events, OpeningAnomalies(e) # {}
    PROVE  ScoreAttachment(Fresh(e), e, OpeningAnomalies(e), OpeningContext(e),
                           FALSE).decision = "attached"
<1> DEFINE inc == Fresh(e)
           context == OpeningContext(e)
           near == Near(inc, e, context, FALSE)
           differ == DifferentTrace(e, context)
           symptom == Symptom(e, context)
           related == Relationship(inc, e, context)
           score == Min({100, related + symptom + differ + near})
<1>1. /\ inc.primary = EntityOf[e] /\ inc.started = TimeOf[e]
      /\ inc.last = TimeOf[e] /\ TimeOf[e] \in Nat
      /\ context.trace = TraceOf[e]
      /\ context.family = FirstOr(FamiliesOf[e], NoFamily)
  BY FreshIsIncident, DataAssumption DEF OpeningContext
<1>2. near = 10
  BY <1>1, WindowAssumption DEF Near
<1>3. differ = 0
  BY <1>1 DEF DifferentTrace
<1>4. symptom \in {20, 0}
  <2>1. FamiliesOf[e] \in Seq(ToSet(FamiliesOf[e]))
    BY DataAssumption
  <2>2. CASE FamiliesOf[e] = << >>
    <3>1. ToSet(FamiliesOf[e]) = {}
      BY <2>2 DEF ToSet
    <3> QED
      BY <3>1 DEF Symptom
  <2>3. CASE FamiliesOf[e] # << >>
    <3>1. context.family \in ToSet(FamiliesOf[e])
      BY <2>1, <2>3, <1>1 DEF FirstOr, ToSet
    <3> QED
      BY <3>1 DEF Symptom
  <2> QED
    BY <2>2, <2>3
<1>5. related \in {40, 80}
  BY <1>1 DEF Relationship
<1> HIDE DEF near, differ, symptom, related
<1>6. score \in 50..100
  <2> DEFINE sum == related + symptom + differ + near
  <2>1. sum \in Nat /\ 50 <= sum
    BY <1>2, <1>3, <1>4, <1>5
  <2> HIDE DEF sum
  <2>2. Min({100, sum}) \in {100, sum} /\ Min({100, sum}) <= 100
    BY <2>1, LeastOfTwo
  <2>3. Min({100, sum}) \in 50..100
    BY <2>1, <2>2
  <2> QED
    BY <2>3 DEF sum
<1> HIDE DEF score, context, inc
<1>7. ~(TimeOf[e] > inc.last + IdleSeconds)
  BY <1>1, WindowAssumption
<1>8. ScoreAttachment(inc, e, OpeningAnomalies(e), context, FALSE) =
          IF ~FALSE /\ TimeOf[e] > inc.last + IdleSeconds
          THEN [decision |-> "excluded", score |-> 0]
          ELSE [decision |-> IF /\ \/ OpeningAnomalies(e) # {}
                                   \/ EvidenceRuleMatches(e, context) # {}
                                /\ related > 0
                                /\ score >= AttachThreshold
                             THEN "attached" ELSE "excluded",
                score |-> score]
  BY Zenon DEF ScoreAttachment, score, near, differ, symptom, related
<1>9. score >= AttachThreshold /\ related > 0
  BY <1>5, <1>6, ThresholdAssumption
<1>10. ScoreAttachment(inc, e, OpeningAnomalies(e), context, FALSE)
           = [decision |-> "attached", score |-> score]
  BY <1>7, <1>8, <1>9, Zenon
<1>11. [decision |-> "attached", score |-> score].decision = "attached"
  OBVIOUS
<1>12. ScoreAttachment(inc, e, OpeningAnomalies(e), context, FALSE).decision
           = "attached"
  BY <1>10, <1>11, Zenon
<1> QED
  BY <1>12, Zenon DEF inc, context

(* An incident that holds its opener only says of itself what it should.    *)
LEMMA OpenedSummarised ==
    ASSUME NEW e \in Events, OpeningAnomalies(e) # {}, NEW r, r = Opened(e)
    PROVE  /\ r \in Incident /\ Summarises(r)
           /\ r.status = "open" /\ r.opener = e
           /\ DOMAIN r.log = {e} /\ r.log[e].decision = "attached"
<1> DEFINE act == OpeningAnomalies(e)
           d == ScoreAttachment(Fresh(e), e, act, OpeningContext(e), FALSE)
           logged == Logged(Fresh(e), e, d)
<1>1. d \in Decision /\ d.decision = "attached"
  <2>1. Fresh(e).started \in Nat
    BY FreshIsIncident, DataAssumption
  <2> QED
    BY <2>1, ScoreIsDecision, OpenerAttaches
<1>2. act \in SUBSET Anomaly /\ Actionable(act) = act
  BY DataAssumption DEF OpeningAnomalies, Actionable
<1> HIDE DEF act, d
<1>3. r = PersistEvaluation(Fresh(e), e, act, d)
  BY DEF Opened, act, d
<1>4. e \notin DOMAIN Fresh(e).log
  BY FreshIsIncident
<1>5. r = Attach(logged, e, act)
  BY <1>1, <1>3, <1>4 DEF PersistEvaluation, Logged
<1>6. /\ logged \in Incident /\ Recorded(logged, Fresh(e), e, d)
      /\ logged.started = TimeOf[e] /\ logged.last = TimeOf[e]
      /\ logged.severity = 0 /\ logged.count = 0
      /\ logged.affected = {EntityOf[e]}
  BY <1>1, <1>4, FreshIsIncident, LoggedIsIncident
<1> HIDE DEF logged
<1>7. r \in Incident /\ Moved(r, logged, e, act)
  BY <1>2, <1>5, <1>6, AttachMoves
<1>8. /\ r.status = "open" /\ r.opener = e
      /\ DOMAIN r.log = {e} /\ r.log[e] = d
  BY <1>6, <1>7, FreshIsIncident DEF Recorded, Moved
<1>9. Attached(r) = {e}
  BY <1>8, <1>1 DEF Attached
<1>10. ActionableOf(r, e) = act
  BY <1>8 DEF ActionableOf, act
<1>11. TimeOf[e] \in Nat /\ r.severity \in 0..100
  BY <1>7, DataAssumption DEF Incident
<1>12. r.started = TimeOf[e] /\ r.last = TimeOf[e]
  BY <1>6, <1>7 DEF Moved
<1>13. /\ \A a \in act : a.score <= r.severity
       /\ \E a \in act : r.severity = a.score
  <2>1. \A a \in act : a.score <= r.severity /\ a.score \in 0..100
    BY <1>2, <1>7 DEF Moved, Anomaly
  <2>2. r.severity \in {0} \cup {a.score : a \in act}
    BY <1>6, <1>7 DEF Moved
  <2>3. PICK a \in act : TRUE
    BY DEF act
  <2>4. r.severity = 0 => a.score = 0
    BY <2>1
  <2> QED
    BY <2>1, <2>2, <2>4
<1>14. r.count = Cardinality(Counted(r))
  <2>1. Counted(r) = {e} \X act
    BY <1>9, <1>10 DEF Counted
  <2>2. IsFiniteSet(act) /\ Cardinality(act) \in Nat
    BY <1>2, AnomaliesAreFinite
  <2>3. IsFiniteSet({e}) /\ Cardinality({e}) = 1
    BY FS_Singleton
  <2>4. Cardinality({e} \X act) = 1 * Cardinality(act)
    BY <2>2, <2>3, FS_Product
  <2>5. r.count = 0 + Cardinality(act)
    BY <1>6, <1>7 DEF Moved
  <2> QED
    BY <2>1, <2>2, <2>4, <2>5
<1>15. r.affected = AffectedBy(r)
  <2>1. act # {}
    BY DEF act
  <2>2. {f \in Attached(r) : ActionableOf(r, f) # {}} = {e}
    BY <1>9, <1>10, <2>1
  <2>3. AffectedBy(r) = {EntityOf[e]}
    BY <2>2 DEF AffectedBy
  <2>4. r.affected = {EntityOf[e]}
    BY <2>1, <1>6, <1>7 DEF Moved
  <2> QED
    BY <2>3, <2>4
<1>16. Summarises(r)
  BY <1>8, <1>9, <1>10, <1>11, <1>12, <1>13, <1>14, <1>15 DEF Summarises
<1> QED
  BY <1>1, <1>7, <1>8, <1>16

(* What is true of a new incident when the lookback is over.                *)
Openings(e, stored) ==
    {inc \in Incident :
        /\ Summarises(inc)
        /\ inc.status = "open" /\ inc.opener = e
        /\ DOMAIN inc.log \subseteq stored
        /\ e \in Attached(inc)}

(* So does the incident after its lookback, whatever is attached in it.     *)
LEMMA OpenIncidentSummarised ==
    ASSUME NEW stored \in SUBSET Events, NEW e \in stored,
           OpeningAnomalies(e) # {}
    PROVE  OpenIncident(e, stored) \in Openings(e, stored)
<1> DEFINE priors == Priors(e, stored)
           context == OpeningContext(e)
           Q == Openings(e, stored)
<1>1. priors \in SUBSET stored /\ priors \in SUBSET Events
  BY DEF Priors, LookbackWindow, LatestNormalEvidence
<1>2. InOrder(priors) \in Seq(priors)
  BY <1>1, InOrderLists
<1>3. Opened(e) \in Q
  <2>1. /\ Opened(e) \in Incident /\ Summarises(Opened(e))
        /\ Opened(e).status = "open" /\ Opened(e).opener = e
        /\ DOMAIN Opened(e).log = {e}
        /\ Opened(e).log[e].decision = "attached"
    BY OpenedSummarised
  <2>2. e \in Attached(Opened(e))
    BY <2>1 DEF Attached
  <2> QED
    BY <2>1, <2>2 DEF Openings
<1>4. ASSUME NEW inc \in Q, NEW f \in priors
      PROVE  TakePrior(inc, f, context) \in Q
  <2> DEFINE d == ScoreAttachment(inc, f, AnomaliesOf[f], context, TRUE)
             r == TakePrior(inc, f, context)
  <2>1. /\ inc \in Incident /\ Summarises(inc) /\ inc.status = "open"
        /\ inc.opener = e /\ DOMAIN inc.log \subseteq stored
        /\ e \in Attached(inc)
    BY DEF Openings
  <2>2. r = PersistEvaluation(inc, f, AnomaliesOf[f], d)
    BY DEF TakePrior
  <2>3. d \in Decision
    <3>1. inc.started \in Nat /\ context.since \in Nat
      BY <2>1, DataAssumption DEF Incident, OpeningContext
    <3>2. f \in Events
      BY <1>1
    <3> QED
      BY <3>1, <3>2, ScoreIsDecision
  <2> HIDE DEF d, r, Q, priors
  <2>4. CASE f \in DOMAIN inc.log
    <3>1. r = inc
      BY <2>2, <2>4, DecisionStands
    <3> QED
      BY <3>1 DEF r
  <2>5. CASE f \notin DOMAIN inc.log
    <3>1. r \in Incident /\ Recorded(r, inc, f, d) /\ Summarises(r)
      BY <2>1, <2>2, <2>3, <2>5, <1>1, PriorSummarised
    <3>2. /\ r.status = "open" /\ r.opener = e
          /\ DOMAIN r.log \subseteq stored /\ e \in Attached(r)
      BY <3>1, <2>1, <1>1 DEF Recorded, Attached
    <3> QED
      BY <3>1, <3>2 DEF Openings, Q, r
  <2> QED
    BY <2>4, <2>5 DEF r
<1> HIDE DEF Q, priors, context
<1>5. TakeAll(Opened(e), InOrder(priors), context) \in Q
  BY <1>2, <1>3, <1>4, TakeAllKeeps
<1> QED
  BY <1>5 DEF OpenIncident, Q, priors, context

-----------------------------------------------------------------------------
(* The inductive invariant.  Every incident summarises its attached events,  *)
(* in the database as in the transaction, and the transaction changes no     *)
(* closed incident: closed, it is what the database has.  The events that    *)
(* wait are stored by the transaction, and not yet in the database.         *)

ImageInv(image) ==
    /\ image \in [incidents : Seq(Incident), stored : SUBSET Events]
    /\ \A i \in DOMAIN image.incidents :
          /\ Summarises(image.incidents[i])
          /\ DOMAIN image.incidents[i].log \subseteq image.stored

ManagerInv ==
    /\ ImageInv(db) /\ ImageInv(tx)
    /\ todo \in Seq(tx.stored \ db.stored)
    /\ \A i \in DOMAIN tx.incidents :
          tx.incidents[i].status = "closed" =>
              i \in DOMAIN db.incidents /\ db.incidents[i] = tx.incidents[i]

(* What a turn does to the incidents there are.                             *)
LEMMA DecidedIsDecision ==
    ASSUME ManagerInv, NEW i \in DOMAIN tx.incidents, NEW e \in Events
    PROVE  Evaluate(i, e) \in Decision /\ Decide(i, e) \in Decision
<1>1. tx.incidents[i] \in Incident
  BY DEF ManagerInv, ImageInv
<1>2. tx.incidents[i].started \in Nat
  BY <1>1 DEF Incident
<1>3. Evaluate(i, e) \in Decision
  BY <1>2, ScoreIsDecision DEF Evaluate
<1>4. [Evaluate(i, e) EXCEPT !.decision = "excluded"] \in Decision
  BY <1>3 DEF Decision
<1> QED
  BY <1>3, <1>4 DEF Decide

(* What a turn makes of an open incident, and of one that is closed.        *)
LEMMA TurnKeepsIncident ==
    ASSUME ManagerInv, NEW i \in DOMAIN tx.incidents, NEW e \in tx.stored
    PROVE  /\ LogDecisions(e)[i] \in Incident
           /\ Summarises(LogDecisions(e)[i])
           /\ DOMAIN LogDecisions(e)[i].log \subseteq tx.stored
           /\ LogDecisions(e)[i].status = tx.incidents[i].status
           /\ tx.incidents[i].status = "closed" =>
                  LogDecisions(e)[i] = tx.incidents[i]
           /\ LogDecisions(e)[i].started <= tx.incidents[i].started
<1> DEFINE inc == tx.incidents[i]
           r == LogDecisions(e)[i]
<1>1. /\ inc \in Incident /\ Summarises(inc)
      /\ DOMAIN inc.log \subseteq tx.stored /\ e \in Events
  BY DEF ManagerInv, ImageInv
<1>2. r = IF i \in ListOpen(tx.incidents)
          THEN PersistEvaluation(inc, e, AnomaliesOf[e], Decide(i, e)) ELSE inc
  BY DEF LogDecisions
<1>3. /\ i \in ListOpen(tx.incidents) => inc.status # "closed"
      /\ inc.started <= inc.started
  BY <1>1 DEF ListOpen, Active, Incident
<1>4. Decide(i, e) \in Decision
  BY <1>1, DecidedIsDecision
<1> HIDE DEF inc, r
<1>5. CASE i \notin ListOpen(tx.incidents)
  BY <1>1, <1>2, <1>3, <1>5 DEF inc, r
<1>6. CASE i \in ListOpen(tx.incidents) /\ e \in DOMAIN inc.log
  <2>1. r = inc
    BY <1>2, <1>6, DecisionStands
  <2> QED
    BY <2>1, <1>1, <1>2, <1>3, <1>6 DEF inc, r
<1>7. CASE i \in ListOpen(tx.incidents) /\ e \notin DOMAIN inc.log
  <2>1. r = PersistEvaluation(inc, e, AnomaliesOf[e], Decide(i, e))
    BY <1>2, <1>7
  <2>2. /\ r \in Incident /\ Recorded(r, inc, e, Decide(i, e))
        /\ Summarises(r)
    BY <2>1, <1>1, <1>4, <1>7, PriorSummarised
  <2>3. /\ r.status = inc.status /\ DOMAIN r.log \subseteq tx.stored
        /\ r.started <= inc.started
    BY <2>2, <1>1 DEF Recorded
  <2> QED
    BY <2>1, <2>2, <2>3, <1>3, <1>7 DEF inc, r
<1> QED
  BY <1>5, <1>6, <1>7

(* A turn keeps the number of incidents until it opens one.                 *)
LEMMA TurnIsSequence ==
    ASSUME ManagerInv, NEW e \in tx.stored
    PROVE  /\ LogDecisions(e) \in Seq(Incident)
           /\ Len(LogDecisions(e)) = Len(tx.incidents)
           /\ DOMAIN LogDecisions(e) = DOMAIN tx.incidents
<1> DEFINE n == Len(tx.incidents)
<1>1. n \in Nat /\ DOMAIN tx.incidents = 1..n
  BY DEF ManagerInv, ImageInv
<1>2. \A i \in 1..n : LogDecisions(e)[i] \in Incident
  BY <1>1, TurnKeepsIncident
<1>3. DOMAIN LogDecisions(e) = 1..n
  BY <1>1 DEF LogDecisions
<1>4. LogDecisions(e) = [i \in 1..n |-> LogDecisions(e)[i]]
  BY <1>1 DEF LogDecisions
<1>5. LogDecisions(e) \in [1..n -> Incident]
  BY <1>2, <1>4
<1> HIDE DEF n
<1> QED
  BY <1>1, <1>3, <1>5 DEF n

(* The incidents after a turn: those there were, each with its decision,     *)
(* and the one that was opened.                                            *)
LEMMA TurnShape ==
    ASSUME ManagerInv, ProcessAnomalies, NEW e, e = Head(todo)
    PROVE  /\ e \in tx.stored /\ e \in Events /\ todo' \in Seq(tx.stored \ db.stored)
           /\ todo' = Tail(todo)
           /\ tx' \in [incidents : Seq(Incident), stored : SUBSET Events]
           /\ tx'.stored = tx.stored /\ db' = db
           /\ \A i \in DOMAIN tx.incidents :
                 /\ i \in DOMAIN tx'.incidents
                 /\ tx'.incidents[i] = LogDecisions(e)[i]
           /\ ~Opens(e) => DOMAIN tx'.incidents = DOMAIN tx.incidents
           /\ Opens(e) =>
                 \E o \in DOMAIN tx'.incidents :
                    /\ DOMAIN tx'.incidents = DOMAIN tx.incidents \cup {o}
                    /\ o \notin DOMAIN tx.incidents
                    /\ tx'.incidents[o] \in Openings(e, tx.stored)
<1> DEFINE n == Len(tx.incidents)
           new == OpenIncident(e, tx.stored)
<1>1. /\ todo \in Seq(tx.stored \ db.stored) /\ todo # << >>
      /\ tx \in [incidents : Seq(Incident), stored : SUBSET Events]
  BY DEF ManagerInv, ImageInv, ProcessAnomalies
<1>2. e \in tx.stored /\ e \in Events
  BY <1>1
<1>3. todo' \in Seq(tx.stored \ db.stored) /\ todo' = Tail(todo) /\ db' = db
  BY <1>1 DEF ProcessAnomalies
<1>4. tx' = [tx EXCEPT !.incidents = IF Opens(e)
                 THEN Append(LogDecisions(e), new) ELSE LogDecisions(e)]
  BY DEF ProcessAnomalies
<1>5. /\ LogDecisions(e) \in Seq(Incident) /\ Len(LogDecisions(e)) = n
      /\ DOMAIN LogDecisions(e) = DOMAIN tx.incidents
      /\ n \in Nat /\ DOMAIN tx.incidents = 1..n
  BY <1>1, <1>2, TurnIsSequence
<1>6. tx'.stored = tx.stored /\ tx.stored \in SUBSET Events
  BY <1>1, <1>4
<1> HIDE DEF n, new
<1>7. CASE ~Opens(e)
  <2>1. tx'.incidents = LogDecisions(e)
    BY <1>1, <1>4, <1>7
  <2>2. tx' \in [incidents : Seq(Incident), stored : SUBSET Events]
    BY <1>1, <1>4, <1>5, <1>7
  <2> QED
    BY <2>1, <2>2, <1>2, <1>3, <1>5, <1>6, <1>7
<1>8. CASE Opens(e)
  <2>1. new \in Openings(e, tx.stored) /\ new \in Incident
    <3>1. OpeningAnomalies(e) # {}
      BY <1>8 DEF Opens
    <3>2. new \in Openings(e, tx.stored)
      BY <3>1, <1>2, <1>6, OpenIncidentSummarised DEF new
    <3> QED
      BY <3>2 DEF Openings
  <2>2. tx'.incidents = Append(LogDecisions(e), new)
    BY <1>1, <1>4, <1>8
  <2>3. /\ Append(LogDecisions(e), new) \in Seq(Incident)
        /\ DOMAIN Append(LogDecisions(e), new) = 1..(n + 1)
        /\ \A i \in 1..n : Append(LogDecisions(e), new)[i] = LogDecisions(e)[i]
        /\ Append(LogDecisions(e), new)[n + 1] = new
    BY <2>1, <1>5
  <2>4. tx' \in [incidents : Seq(Incident), stored : SUBSET Events]
    BY <2>3, <1>1, <1>4, <1>8
  <2>5. /\ n + 1 \in 1..(n + 1) /\ 1..(n + 1) = (1..n) \cup {n + 1}
        /\ n + 1 \notin 1..n
    BY <1>5
  <2>6. \A i \in DOMAIN tx.incidents :
           i \in DOMAIN tx'.incidents /\ tx'.incidents[i] = LogDecisions(e)[i]
    BY <2>2, <2>3, <2>5, <1>5
  <2>7. /\ n + 1 \in DOMAIN tx'.incidents
        /\ DOMAIN tx'.incidents = DOMAIN tx.incidents \cup {n + 1}
        /\ n + 1 \notin DOMAIN tx.incidents
        /\ tx'.incidents[n + 1] \in Openings(e, tx.stored)
    BY <2>1, <2>2, <2>3, <2>5, <1>5
  <2> QED
    BY <2>4, <2>6, <2>7, <1>2, <1>3, <1>6, <1>8
<1> QED
  BY <1>7, <1>8

(* An empty database satisfies the invariant.                               *)
LEMMA InitManager == Init => ManagerInv
<1> SUFFICES ASSUME Init PROVE ManagerInv
  OBVIOUS
<1> DEFINE none == << >>
<1>1. none \in Seq(Incident) /\ DOMAIN none = {} /\ none \in Seq({} \ {})
  OBVIOUS
<1> HIDE DEF none
<1>2. /\ db = [incidents |-> none, stored |-> {}]
      /\ tx = [incidents |-> none, stored |-> {}] /\ todo = none
  BY DEF Init, none
<1> QED
  BY <1>1, <1>2 DEF ManagerInv, ImageInv

(* The turn of an event preserves it, whether or not one is opened.         *)
LEMMA TurnKeepsInv ==
    ASSUME ManagerInv, ProcessAnomalies
    PROVE  ManagerInv'
<1> DEFINE e == Head(todo)
<1>1. /\ e \in tx.stored /\ todo' \in Seq(tx.stored \ db.stored)
      /\ tx' \in [incidents : Seq(Incident), stored : SUBSET Events]
      /\ tx'.stored = tx.stored /\ db' = db
      /\ \A i \in DOMAIN tx.incidents :
            i \in DOMAIN tx'.incidents /\ tx'.incidents[i] = LogDecisions(e)[i]
  BY TurnShape
<1>2. \A i \in DOMAIN tx'.incidents \ DOMAIN tx.incidents :
          tx'.incidents[i] \in Openings(e, tx.stored)
  <2> HIDE DEF e
  <2>1. ~Opens(e) => DOMAIN tx'.incidents = DOMAIN tx.incidents
    BY TurnShape DEF e
  <2>2. Opens(e) =>
            \E o \in DOMAIN tx'.incidents :
               /\ DOMAIN tx'.incidents = DOMAIN tx.incidents \cup {o}
               /\ o \notin DOMAIN tx.incidents
               /\ tx'.incidents[o] \in Openings(e, tx.stored)
    BY TurnShape, Zenon DEF e
  <2> QED
    BY <2>1, <2>2
<1> HIDE DEF e
<1>3. ASSUME NEW i \in DOMAIN tx'.incidents
      PROVE  /\ Summarises(tx'.incidents[i])
             /\ DOMAIN tx'.incidents[i].log \subseteq tx'.stored
             /\ tx'.incidents[i].status = "closed" =>
                   /\ i \in DOMAIN db'.incidents
                   /\ db'.incidents[i] = tx'.incidents[i]
  <2>1. CASE i \in DOMAIN tx.incidents
    <3>1. /\ Summarises(LogDecisions(e)[i])
          /\ DOMAIN LogDecisions(e)[i].log \subseteq tx.stored
          /\ LogDecisions(e)[i].status = tx.incidents[i].status
          /\ tx.incidents[i].status = "closed" =>
                 LogDecisions(e)[i] = tx.incidents[i]
      BY <2>1, <1>1, TurnKeepsIncident
    <3>2. tx.incidents[i].status = "closed" =>
              i \in DOMAIN db.incidents /\ db.incidents[i] = tx.incidents[i]
      BY <2>1 DEF ManagerInv
    <3>3. tx'.incidents[i] = LogDecisions(e)[i]
      BY <1>1, <2>1
    <3> QED
      BY <3>1, <3>2, <3>3, <1>1
  <2>2. CASE i \notin DOMAIN tx.incidents
    <3>1. tx'.incidents[i] \in Openings(e, tx.stored)
      BY <1>2, <2>2
    <3> QED
      BY <3>1, <1>1 DEF Openings
  <2> QED
    BY <2>1, <2>2
<1>4. ImageInv(db)
  BY DEF ManagerInv
<1> QED
  BY <1>1, <1>3, <1>4 DEF ManagerInv, ImageInv

(* ManagerInv is inductive.                                                 *)
LEMMA ManagerStep == ManagerInv /\ [Next]_vars => ManagerInv'
<1> SUFFICES ASSUME ManagerInv, [Next]_vars PROVE ManagerInv'
  OBVIOUS
<1>1. /\ db \in [incidents : Seq(Incident), stored : SUBSET Events]
      /\ tx \in [incidents : Seq(Incident), stored : SUBSET Events]
      /\ todo \in Seq(tx.stored \ db.stored)
  BY DEF ManagerInv, ImageInv
<1>2. CASE ReceiveBatch
  <2>1. PICK batch \in SUBSET (Events \ db.stored) :
            /\ tx' = [tx EXCEPT !.stored = @ \cup batch]
            /\ todo' = InOrder(batch)
    BY <1>2 DEF ReceiveBatch
  <2>2. /\ tx'.incidents = tx.incidents /\ tx'.stored = tx.stored \cup batch
        /\ tx' \in [incidents : Seq(Incident), stored : SUBSET Events]
        /\ db' = db
    BY <2>1, <1>1, <1>2 DEF ReceiveBatch
  <2>3. todo' \in Seq(tx'.stored \ db'.stored)
    <3>1. InOrder(batch) \in Seq(batch)
      BY InOrderLists
    <3> QED
      BY <3>1, <2>1, <2>2
  <2> QED
    BY <2>2, <2>3 DEF ManagerInv, ImageInv
<1>3. CASE ProcessAnomalies
  BY <1>3, TurnKeepsInv
<1>4. CASE Commit
  <2>1. db' = tx /\ tx' = tx /\ todo' = << >>
    BY <1>4 DEF Commit
  <2>2. << >> \in Seq(tx'.stored \ db'.stored)
    OBVIOUS
  <2> QED
    BY <2>1, <2>2 DEF ManagerInv, ImageInv
<1>5. CASE BatchFails
  <2>1. tx' = db /\ db' = db /\ todo' = << >>
    BY <1>5 DEF BatchFails
  <2>2. << >> \in Seq(tx'.stored \ db'.stored)
    OBVIOUS
  <2> QED
    BY <2>1, <2>2 DEF ManagerInv, ImageInv
<1>6. CASE ChangeStatus
  <2>1. PICK i \in ListOpen(db.incidents), status \in {"investigating", "closed"} :
            db' = [db EXCEPT !.incidents[i].status = status]
    BY <1>6 DEF ChangeStatus
  <2> DEFINE old == db.incidents[i]
             new == [old EXCEPT !.status = status]
  <2>2. /\ tx' = db' /\ todo' = todo /\ tx = db /\ todo = << >>
        /\ i \in DOMAIN db.incidents
    BY <1>6 DEF ChangeStatus, Idle, ListOpen
  <2>3. /\ old \in Incident /\ Summarises(old)
        /\ DOMAIN old.log \subseteq db.stored
    BY <2>2 DEF ManagerInv, ImageInv
  <2>4. /\ new \in Incident /\ new.log = old.log /\ new.opener = old.opener
        /\ new.started = old.started /\ new.last = old.last
        /\ new.severity = old.severity /\ new.count = old.count
        /\ new.affected = old.affected
    BY <2>3 DEF Incident, Active
  <2> HIDE DEF new
  <2>5. Summarises(new)
    <3>1. Attached(new) = Attached(old)
      BY <2>4 DEF Attached
    <3>2. \A e : ActionableOf(new, e) = ActionableOf(old, e)
      BY <2>4 DEF ActionableOf
    <3>3. Counted(new) = Counted(old) /\ AffectedBy(new) = AffectedBy(old)
      BY <3>1, <3>2 DEF Counted, AffectedBy
    <3> QED
      BY <2>3, <2>4, <3>1, <3>2, <3>3 DEF Summarises
  <2>6. /\ db' = [db EXCEPT !.incidents = [@ EXCEPT ![i] = new]]
    BY <2>1 DEF new
  <2>7. /\ db'.incidents = [db.incidents EXCEPT ![i] = new]
        /\ db'.stored = db.stored
    BY <2>6, <1>1
  <2>8. [db.incidents EXCEPT ![i] = new] \in Seq(Incident)
    BY <2>2, <2>4, <1>1
  <2>9. db' \in [incidents : Seq(Incident), stored : SUBSET Events]
    BY <2>6, <2>8, <1>1
  <2>10. ASSUME NEW j \in DOMAIN db'.incidents
         PROVE  /\ Summarises(db'.incidents[j])
                /\ DOMAIN db'.incidents[j].log \subseteq db'.stored
    <3>1. CASE j = i
      BY <3>1, <2>2, <2>3, <2>4, <2>5, <2>7
    <3>2. CASE j # i
      <4>1. j \in DOMAIN db.incidents /\ db'.incidents[j] = db.incidents[j]
        BY <3>2, <2>7
      <4> QED
        BY <4>1, <2>7 DEF ManagerInv, ImageInv
    <3> QED
      BY <3>1, <3>2
  <2>11. ImageInv(db)'
    BY <2>9, <2>10 DEF ImageInv
  <2>12. todo' \in Seq(tx'.stored \ db'.stored)
    BY <2>2
  <2> QED
    BY <2>2, <2>11, <2>12 DEF ManagerInv, ImageInv
<1>7. CASE UNCHANGED vars
  BY <1>7 DEF vars, ManagerInv, ImageInv
<1> QED
  BY <1>2, <1>3, <1>4, <1>5, <1>6, <1>7 DEF Next

-----------------------------------------------------------------------------
(* The properties.                                                          *)

(* It holds of every state the manager reaches.                             *)
LEMMA ManagerInvariant == Spec => []ManagerInv
<1> QED
  BY InitManager, ManagerStep, PTL DEF Spec

(* The log of an incident is about events.                                  *)
LEMMA AttachedAreEvents ==
    ASSUME NEW inc \in Incident
    PROVE  /\ Attached(inc) \in SUBSET Events
           /\ DOMAIN inc.log \in SUBSET Events
           /\ \A e \in DOMAIN inc.log : inc.log[e] \in Decision
<1>1. PICK S \in SUBSET Events : inc.log \in [S -> Decision]
  BY DEF Incident
<1> QED
  BY <1>1 DEF Attached

(* Bounds that are reached are the extrema the summary is stated with.      *)
LEMMA SummaryFollows ==
    ASSUME NEW inc \in Incident, Summarises(inc)
    PROVE  LET times == {TimeOf[e] : e \in Attached(inc)}
               scores == UNION {{a.score : a \in ActionableOf(inc, e)} :
                                   e \in Attached(inc)}
           IN /\ inc.started = Min(times) /\ inc.last = Max(times)
              /\ inc.severity = Max(scores)
<1> DEFINE times == {TimeOf[e] : e \in Attached(inc)}
           scores == UNION {{a.score : a \in ActionableOf(inc, e)} :
                               e \in Attached(inc)}
<1>1. Attached(inc) \in SUBSET Events
  BY AttachedAreEvents
<1>2. times \in SUBSET Int
  BY <1>1, DataAssumption
<1>3. scores \in SUBSET Int
  <2>1. \A e \in Attached(inc) : \A a \in ActionableOf(inc, e) : a.score \in Int
    BY <1>1, ActionableAreAnomalies DEF Anomaly
  <2> QED
    BY <2>1
<1>4. inc.started \in times /\ \A t \in times : inc.started <= t
  BY DEF Summarises
<1>5. inc.last \in times /\ \A t \in times : t <= inc.last
  BY DEF Summarises
<1>6. inc.severity \in scores /\ \A x \in scores : x <= inc.severity
  BY DEF Summarises
<1> HIDE DEF times, scores
<1>7. inc.started = Min(times)
  BY <1>2, <1>4, MinIs
<1>8. inc.last = Max(times)
  BY <1>2, <1>5, MaxIs
<1>9. inc.severity = Max(scores)
  BY <1>3, <1>6, MaxIs
<1> QED
  BY <1>7, <1>8, <1>9 DEF times, scores

(* The summary that the incident list shows and filters by is that of the    *)
(* attached events, whatever way they came to the incident.                 *)
THEOREM SummariesHold == Spec => []SummaryOfAttached
<1>1. ManagerInv => SummaryOfAttached
  <2> SUFFICES ASSUME ManagerInv, NEW i \in DOMAIN tx.incidents
               PROVE  LET inc == tx.incidents[i]
                          times == {TimeOf[e] : e \in Attached(inc)}
                          scores == UNION {{a.score : a \in ActionableOf(inc, e)}
                                              : e \in Attached(inc)}
                      IN /\ inc.opener \in Attached(inc)
                         /\ inc.started = Min(times) /\ inc.last = Max(times)
                         /\ inc.severity = Max(scores)
                         /\ inc.count = Cardinality(UNION
                               {{e} \X ActionableOf(inc, e) : e \in Attached(inc)})
                         /\ inc.affected = {EntityOf[e] : e \in
                                {f \in Attached(inc) : ActionableOf(inc, f) # {}}}
    BY DEF SummaryOfAttached
  <2> DEFINE inc == tx.incidents[i]
  <2>1. inc \in Incident /\ Summarises(inc)
    BY DEF ManagerInv, ImageInv
  <2> HIDE DEF inc
  <2>2. /\ inc.opener \in Attached(inc) /\ inc.count = Cardinality(Counted(inc))
        /\ inc.affected = AffectedBy(inc)
    BY <2>1 DEF Summarises
  <2> QED
    BY <2>1, <2>2, SummaryFollows, Zenon DEF Counted, AffectedBy, inc
<1> QED
  BY <1>1, ManagerInvariant, PTL

(* The variables have their types.                                          *)
THEOREM ManagerTypesHold == Spec => []TypeOK
<1>1. ManagerInv => TypeOK
  <2> SUFFICES ASSUME ManagerInv PROVE TypeOK
    OBVIOUS
  <2>1. ASSUME NEW inc \in Incident
        PROVE  /\ [inc EXCEPT !.log = << >>]
                      \in [status : Active \cup {"closed"},
                           primary : {EntityOf[e] : e \in Events},
                           started : Nat, last : Nat, severity : 0..100,
                           count : Nat,
                           affected : SUBSET {EntityOf[e] : e \in Events},
                           opener : Events, log : {<< >>}]
               /\ \A e \in DOMAIN inc.log : inc.log[e] \in Decision
    BY AttachedAreEvents DEF Incident
  <2>2. ASSUME NEW image, ImageInv(image), NEW i \in DOMAIN image.incidents
        PROVE  image.incidents[i] \in Incident
               /\ DOMAIN image.incidents[i].log \subseteq image.stored
    BY <2>2 DEF ImageInv
  <2>3. ImageInv(db) /\ ImageInv(tx) /\ todo \in Seq(Events)
        /\ db.stored \subseteq Events /\ tx.stored \subseteq Events
    BY DEF ManagerInv, ImageInv
  <2> QED
    BY <2>1, <2>2, <2>3 DEF TypeOK
<1> QED
  BY <1>1, ManagerInvariant, PTL

(* A closed incident is left as the review left it: no turn records or       *)
(* attaches anything, and no rollback undoes its closing.                   *)
THEOREM ClosedStayUntouched == Spec => ClosedReceivesNothing
<1>1. ManagerInv /\ [Next]_vars =>
          \A i \in DOMAIN tx.incidents :
              tx.incidents[i].status = "closed" =>
                  tx'.incidents[i] = tx.incidents[i]
  <2> SUFFICES ASSUME ManagerInv, [Next]_vars, NEW i \in DOMAIN tx.incidents,
                      tx.incidents[i].status = "closed"
               PROVE  tx'.incidents[i] = tx.incidents[i]
    OBVIOUS
  <2>1. CASE ReceiveBatch
    <3>1. PICK batch \in SUBSET (Events \ db.stored) :
              tx' = [tx EXCEPT !.stored = @ \cup batch]
      BY <2>1 DEF ReceiveBatch
    <3> QED
      BY <3>1 DEF ManagerInv, ImageInv
  <2>2. CASE ProcessAnomalies
    <3>1. /\ Head(todo) \in tx.stored
          /\ tx'.incidents[i] = LogDecisions(Head(todo))[i]
      BY <2>2, TurnShape
    <3> QED
      BY <3>1, TurnKeepsIncident
  <2>3. CASE Commit
    BY <2>3 DEF Commit
  <2>4. CASE BatchFails
    BY <2>4 DEF BatchFails, ManagerInv
  <2>5. CASE ChangeStatus
    <3>1. PICK j \in ListOpen(db.incidents), status \in {"investigating", "closed"} :
              db' = [db EXCEPT !.incidents[j].status = status]
      BY <2>5 DEF ChangeStatus
    <3>2. tx = db /\ tx' = db'
      BY <2>5 DEF ChangeStatus, Idle
    <3>3. i # j
      BY <3>2 DEF ListOpen, Active
    <3> QED
      BY <3>1, <3>2, <3>3 DEF ManagerInv, ImageInv
  <2>6. CASE UNCHANGED vars
    BY <2>6 DEF vars
  <2> QED
    BY <2>1, <2>2, <2>3, <2>4, <2>5, <2>6 DEF Next
<1> QED
  BY <1>1, ManagerInvariant, PTL DEF Spec, ClosedReceivesNothing

-----------------------------------------------------------------------------
(* What a turn decides.                                                     *)

(* Two incidents never tie: the order of list_open is a part of max's key.   *)
LEMMA BetterOrders ==
    ASSUME ManagerInv, NEW e \in Events,
           NEW S \in SUBSET DOMAIN tx.incidents, NEW R,
           R = {p \in S \X S : Better(p[1], p[2], e)}
    PROVE  Orders(R, S)
<1> DEFINE score(i) == Evaluate(i, e).score
           last(i) == tx.incidents[i].last
           start(i) == tx.incidents[i].started
<1>1. \A i, j \in S : <<i, j>> \in R <=> Better(i, j, e)
  OBVIOUS
<1>2. \A i \in S : /\ i \in Int /\ score(i) \in Int
                   /\ last(i) \in Int /\ start(i) \in Int
  <2> TAKE i \in S
  <2>1. tx.incidents[i] \in Incident /\ i \in Int
    BY DEF ManagerInv, ImageInv
  <2>2. Evaluate(i, e) \in Decision
    BY DecidedIsDecision
  <2> QED
    BY <2>1, <2>2 DEF Incident, Decision
<1>3. \A i, j \in S :
          Better(i, j, e) <=>
              \/ score(i) > score(j)
              \/ score(i) = score(j) /\ last(i) > last(j)
              \/ score(i) = score(j) /\ last(i) = last(j) /\ start(i) > start(j)
              \/ score(i) = score(j) /\ last(i) = last(j)
                 /\ start(i) = start(j) /\ i < j
  BY DEF Better
<1> HIDE DEF score, last, start
<1>4. \A i \in S : ~Better(i, i, e)
  BY <1>2, <1>3
<1>5. \A i, j \in S : i # j => Better(i, j, e) \/ Better(j, i, e)
  BY <1>2, <1>3
<1>6. \A i, j, k \in S :
          Better(i, j, e) /\ Better(j, k, e) => Better(i, k, e)
  BY <1>2, <1>3
<1> QED
  BY <1>1, <1>4, <1>5, <1>6 DEF Orders

(* The incidents an event could be attached to are open and finitely many.  *)
LEMMA AttachableIsFinite ==
    ASSUME ManagerInv, NEW e
    PROVE  /\ Attachable(e) \in SUBSET DOMAIN tx.incidents
           /\ Attachable(e) \in SUBSET ListOpen(tx.incidents)
           /\ IsFiniteSet(Attachable(e))
<1>1. /\ Attachable(e) \in SUBSET ListOpen(tx.incidents)
      /\ ListOpen(tx.incidents) \in SUBSET DOMAIN tx.incidents
  BY DEF Attachable, ListOpen
<1> DEFINE n == Len(tx.incidents)
<1>2. n \in Nat /\ DOMAIN tx.incidents = 1..n
  BY DEF ManagerInv, ImageInv
<1>3. \A m \in Int : IsFiniteSet(1..m)
  BY FS_Interval
<1>4. n \in Int
  BY <1>2
<1> HIDE DEF n
<1>5. IsFiniteSet(1..n)
  BY <1>3, <1>4, Zenon
<1>6. IsFiniteSet(DOMAIN tx.incidents)
  BY <1>2, <1>5, Zenon
<1> QED
  BY <1>1, <1>6, FS_Subset

Best(i, e) == i \in Attachable(e)
              /\ ~\E j \in Attachable(e) \ {i} : Better(j, i, e)

(* The event is attached to the best of the incidents that could take it,    *)
(* unless that one has decided about it before, and to no other.            *)
LEMMA OnlyBestGains ==
    ASSUME ManagerInv, NEW i \in DOMAIN tx.incidents, NEW e \in tx.stored
    PROVE  /\ /\ e \in Attached(LogDecisions(e)[i])
              /\ e \notin Attached(tx.incidents[i])
              => Best(i, e)
           /\ Best(i, e) /\ e \notin DOMAIN tx.incidents[i].log
              => e \in Attached(LogDecisions(e)[i])
           /\ i \in ListOpen(tx.incidents) => e \in DOMAIN LogDecisions(e)[i].log
<1> DEFINE inc == tx.incidents[i]
           r == LogDecisions(e)[i]
<1>1. inc \in Incident /\ Summarises(inc) /\ e \in Events
  BY DEF ManagerInv, ImageInv
<1>2. r = IF i \in ListOpen(tx.incidents)
          THEN PersistEvaluation(inc, e, AnomaliesOf[e], Decide(i, e)) ELSE inc
  BY DEF LogDecisions
<1>3. Decide(i, e) \in Decision /\ Evaluate(i, e) \in Decision
  BY <1>1, DecidedIsDecision
<1>4. Decide(i, e).decision = "attached" /\ i \in ListOpen(tx.incidents)
          => Best(i, e)
  <2> SUFFICES ASSUME Decide(i, e).decision = "attached",
                      i \in ListOpen(tx.incidents)
               PROVE  Best(i, e)
    OBVIOUS
  <2>1. ~\E j \in Attachable(e) \ {i} : i \in Attachable(e) /\ Better(j, i, e)
    <3> SUFFICES ASSUME \E j \in Attachable(e) \ {i} :
                            i \in Attachable(e) /\ Better(j, i, e)
                 PROVE  FALSE
      OBVIOUS
    <3>1. Decide(i, e) = [Evaluate(i, e) EXCEPT !.decision = "excluded"]
      BY Zenon DEF Decide
    <3>2. Decide(i, e).decision = "excluded"
      BY <3>1, <1>3 DEF Decision
    <3> QED
      BY <3>2
  <2>2. Decide(i, e) = Evaluate(i, e)
    BY <2>1, Zenon DEF Decide
  <2>3. i \in Attachable(e)
    BY <2>2 DEF Attachable
  <2> QED
    BY <2>1, <2>3 DEF Best
<1>5. Best(i, e) => /\ Decide(i, e).decision = "attached"
                    /\ i \in ListOpen(tx.incidents)
  <2> SUFFICES ASSUME Best(i, e)
               PROVE  /\ Decide(i, e).decision = "attached"
                      /\ i \in ListOpen(tx.incidents)
    OBVIOUS
  <2>1. /\ i \in Attachable(e)
        /\ ~\E j \in Attachable(e) \ {i} : Better(j, i, e)
    BY DEF Best
  <2>2. Decide(i, e) = Evaluate(i, e)
    BY <2>1, Zenon DEF Decide
  <2> QED
    BY <2>1, <2>2 DEF Attachable
<1> HIDE DEF inc, r
<1>6. CASE i \notin ListOpen(tx.incidents)
  BY <1>2, <1>5, <1>6 DEF inc, r
<1>7. CASE i \in ListOpen(tx.incidents) /\ e \in DOMAIN inc.log
  <2>1. r = inc
    BY <1>2, <1>7, DecisionStands
  <2> QED
    BY <2>1, <1>7 DEF inc, r
<1>8. CASE i \in ListOpen(tx.incidents) /\ e \notin DOMAIN inc.log
  <2>1. r = PersistEvaluation(inc, e, AnomaliesOf[e], Decide(i, e))
    BY <1>2, <1>8
  <2>2. Recorded(r, inc, e, Decide(i, e))
    BY <2>1, <1>1, <1>3, <1>8, PriorSummarised
  <2>3. e \in DOMAIN r.log /\ r.log[e] = Decide(i, e)
    BY <2>2 DEF Recorded
  <2> QED
    BY <2>3, <1>4, <1>5, <1>8 DEF Attached, inc, r
<1> QED
  BY <1>6, <1>7, <1>8

(* Whenever some incident could take the event there is a best one, and only *)
(* one.                                                                    *)
LEMMA BestExists ==
    ASSUME ManagerInv, NEW e \in Events
    PROVE  /\ Attachable(e) # {} => \E i \in Attachable(e) : Best(i, e)
           /\ \A i, j \in Attachable(e) : Best(i, e) /\ Best(j, e) => i = j
<1> DEFINE S == Attachable(e)
           R == {p \in S \X S : Better(p[1], p[2], e)}
<1>1. \A i, j \in S : <<i, j>> \in R <=> Better(i, j, e)
  OBVIOUS
<1>2. IsFiniteSet(S) /\ S \in SUBSET DOMAIN tx.incidents
  BY AttachableIsFinite
<1> HIDE DEF S
<1>3. Orders(R, S)
  BY <1>2, BetterOrders
<1> HIDE DEF R
<1>4. ASSUME S # {} PROVE \E i \in S : Best(i, e)
  <2>1. PICK i \in S : \A y \in S \ {i} : <<i, y>> \in R
    BY <1>2, <1>3, <1>4, FirstExists, SMTT(30) DEF Orders
  <2>2. \A y \in S \ {i} : <<y, i>> \notin R
    BY <2>1, <1>3 DEF Orders
  <2>3. Best(i, e)
    BY <2>2, <1>1 DEF Best, S
  <2> QED
    BY <2>3
<1>5. ASSUME NEW i \in S, NEW j \in S, Best(i, e), Best(j, e) PROVE i = j
  <2>1. i # j => <<i, j>> \in R \/ <<j, i>> \in R
    BY <1>3 DEF Orders
  <2> QED
    BY <2>1, <1>1, <1>5 DEF Best, S
<1> QED
  BY <1>4, <1>5 DEF S

(* Only a turn takes an event off the batch and keeps what was stored.      *)
LEMMA TurnIsProcess ==
    ASSUME ManagerInv, [Next]_vars, Turn
    PROVE  ProcessAnomalies
<1>1. todo \in Seq(tx.stored \ db.stored) /\ todo # << >>
      /\ todo' = Tail(todo) /\ tx'.stored = tx.stored
  BY DEF ManagerInv, Turn
<1>2. ~ReceiveBatch /\ ~Commit /\ ~ChangeStatus
  BY <1>1 DEF ReceiveBatch, Commit, ChangeStatus, Idle
<1>3. ~BatchFails
  <2>1. Head(todo) \in tx.stored \ db.stored
    BY <1>1
  <2> QED
    BY <2>1, <1>1 DEF BatchFails
<1>4. todo' # todo
  <2>1. Len(Tail(todo)) = Len(todo) - 1 /\ Len(todo) \in Nat
    BY <1>1
  <2> QED
    BY <2>1, <1>1
<1> QED
  BY <1>2, <1>3, <1>4 DEF Next, vars

(* A set of equals has at most one element.                                 *)
LEMMA AtMostOne ==
    ASSUME NEW S, \A i, j \in S : i = j
    PROVE  Cardinality(S) <= 1
<1>1. CASE S = {}
  BY <1>1, FS_EmptySet
<1>2. CASE S # {}
  <2>1. PICK x \in S : TRUE
    BY <1>2
  <2>2. S = {x}
    BY <2>1
  <2> QED
    BY <2>2, FS_Singleton
<1> QED
  BY <1>1, <1>2

(* A turn leaves a decision about its event in every active incident, lets    *)
(* at most one incident gain it, and lets one gain it if it has an opening   *)
(* anomaly and no incident knew it.                                        *)
THEOREM TurnsDecide == Spec => TurnDecides
<1>1. ManagerInv /\ [Next]_vars =>
          (Turn =>
             LET e == Head(todo)
                 old(i) == i \in DOMAIN tx.incidents
                 gained == {i \in DOMAIN tx'.incidents :
                               /\ e \in Attached(tx'.incidents[i])
                               /\ old(i) => e \notin Attached(tx.incidents[i])}
                 known == \E i \in DOMAIN tx.incidents :
                              e \in DOMAIN tx.incidents[i].log
             IN /\ \A i \in ListOpen(tx.incidents) :
                      e \in DOMAIN tx'.incidents[i].log
                /\ Cardinality(gained) <= 1
                /\ OpeningAnomalies(e) # {} /\ ~known => gained # {})
  <2> SUFFICES ASSUME ManagerInv, [Next]_vars, Turn
               PROVE  LET e == Head(todo)
                          old(i) == i \in DOMAIN tx.incidents
                          gained == {i \in DOMAIN tx'.incidents :
                                        /\ e \in Attached(tx'.incidents[i])
                                        /\ old(i) =>
                                            e \notin Attached(tx.incidents[i])}
                          known == \E i \in DOMAIN tx.incidents :
                                       e \in DOMAIN tx.incidents[i].log
                      IN /\ \A i \in ListOpen(tx.incidents) :
                               e \in DOMAIN tx'.incidents[i].log
                         /\ Cardinality(gained) <= 1
                         /\ OpeningAnomalies(e) # {} /\ ~known => gained # {}
    OBVIOUS
  <2> DEFINE e == Head(todo)
             Old == DOMAIN tx.incidents
             gained == {i \in DOMAIN tx'.incidents :
                           /\ e \in Attached(tx'.incidents[i])
                           /\ i \in Old => e \notin Attached(tx.incidents[i])}
  <2>1. ProcessAnomalies
    BY TurnIsProcess
  <2>2. /\ e \in tx.stored /\ e \in Events
        /\ \A i \in Old : i \in DOMAIN tx'.incidents
                          /\ tx'.incidents[i] = LogDecisions(e)[i]
        /\ ~Opens(e) => DOMAIN tx'.incidents = Old
    BY <2>1, TurnShape
  <2>3. Opens(e) =>
            \E o \in DOMAIN tx'.incidents :
               /\ DOMAIN tx'.incidents = Old \cup {o}
               /\ o \notin Old
               /\ tx'.incidents[o] \in Openings(e, tx.stored)
    BY <2>1, TurnShape, Zenon
  <2> HIDE DEF e
  <2>4. /\ \A i \in gained \cap Old : Best(i, e)
        /\ \A i \in Old : Best(i, e) /\ e \notin DOMAIN tx.incidents[i].log
                          => i \in gained
    <3>1. ASSUME NEW i \in Old
          PROVE  /\ /\ e \in Attached(LogDecisions(e)[i])
                    /\ e \notin Attached(tx.incidents[i])
                    => Best(i, e)
                 /\ Best(i, e) /\ e \notin DOMAIN tx.incidents[i].log
                    => e \in Attached(LogDecisions(e)[i])
      BY <2>2, OnlyBestGains
    <3>2. \A i \in Old : e \notin DOMAIN tx.incidents[i].log
                             => e \notin Attached(tx.incidents[i])
      BY DEF Attached
    <3> QED
      BY <3>1, <3>2, <2>2
  <2>5. ListOpen(tx.incidents) \in SUBSET Old
    BY DEF ListOpen
  <2>6. \A i \in ListOpen(tx.incidents) : e \in DOMAIN tx'.incidents[i].log
    <3> TAKE i \in ListOpen(tx.incidents)
    <3>1. e \in DOMAIN LogDecisions(e)[i].log
      BY <2>2, <2>5, OnlyBestGains
    <3> QED
      BY <3>1, <2>2, <2>5
  <2> DEFINE Known == \E i \in Old : e \in DOMAIN tx.incidents[i].log
             Decided == /\ Cardinality(gained) <= 1
                        /\ OpeningAnomalies(e) # {} /\ ~Known => gained # {}
  <2>7. ASSUME Opens(e) PROVE Decided
    <3>1. PICK o \in DOMAIN tx'.incidents :
              /\ DOMAIN tx'.incidents = Old \cup {o}
              /\ o \notin Old
              /\ tx'.incidents[o] \in Openings(e, tx.stored)
      BY <2>3, <2>7
    <3>2. Attachable(e) = {}
      BY <2>7 DEF Opens
    <3>3. gained \cap Old = {}
      BY <2>4, <3>2 DEF Best
    <3>4. gained = {o}
      <4>1. e \in Attached(tx'.incidents[o])
        BY <3>1 DEF Openings
      <4>2. o \in gained
        BY <3>1, <4>1
      <4>3. gained \in SUBSET (Old \cup {o})
        BY <3>1
      <4> HIDE DEF gained
      <4> QED
        BY <4>2, <4>3, <3>3
    <3> HIDE DEF gained
    <3>5. Cardinality(gained) <= 1
      BY <3>4, AtMostOne
    <3> QED
      BY <3>4, <3>5
  <2>8. ASSUME ~Opens(e) PROVE Decided
    <3>1. gained \in SUBSET Old
      BY <2>2, <2>8
    <3>2. \A i, j \in gained : i = j
      <4>1. \A i \in gained : Best(i, e) /\ i \in Attachable(e)
        BY <2>4, <3>1 DEF Best
      <4> QED
        BY <4>1, <2>2, BestExists
    <3>3. Cardinality(gained) <= 1
      BY <3>2, AtMostOne
    <3>4. ASSUME OpeningAnomalies(e) # {},
                 \A i \in Old : e \notin DOMAIN tx.incidents[i].log
          PROVE  gained # {}
      <4>1. Attachable(e) # {}
        BY <2>8, <3>4 DEF Opens
      <4>2. PICK i \in Attachable(e) : Best(i, e)
        BY <4>1, <2>2, BestExists
      <4>3. i \in Old
        BY <4>2, AttachableIsFinite
      <4> QED
        BY <4>2, <4>3, <2>4, <3>4
    <3> HIDE DEF gained
    <3> QED
      BY <3>3, <3>4
  <2>9. Decided
    BY <2>7, <2>8
  <2> QED
    BY <2>6, <2>9, Zenon DEF e
<1> QED
  BY <1>1, ManagerInvariant, PTL DEF Spec, TurnDecides

-----------------------------------------------------------------------------
(* Listings.                                                                *)

Rows(f, c) == {i \in Matching(db.incidents, f) : Below(i, c)}

RowOrder(S) == {p \in S \X S : Below(p[2], EncodeCursor(p[1]))}

(* (started_at, id), latest first, orders any set of incidents.             *)
LEMMA RowsAreOrdered ==
    ASSUME ManagerInv, NEW S \in SUBSET DOMAIN db.incidents
    PROVE  /\ IsFiniteSet(S)
           /\ Orders(RowOrder(S), S)
           /\ \A i \in S : Under(RowOrder(S), S, i)
                               = {j \in S : Below(i, EncodeCursor(j))}
<1>1. /\ db.incidents \in Seq(Incident)
      /\ DOMAIN db.incidents = 1..Len(db.incidents)
      /\ Len(db.incidents) \in Nat
  BY DEF ManagerInv, ImageInv
<1>2. IsFiniteSet(S)
  <2> DEFINE n == Len(db.incidents)
  <2>1. \A m \in Int : IsFiniteSet(1..m)
    BY FS_Interval
  <2>2. n \in Int
    BY <1>1
  <2> HIDE DEF n
  <2>3. IsFiniteSet(1..n)
    BY <2>1, <2>2, Zenon
  <2>4. IsFiniteSet(DOMAIN db.incidents)
    BY <2>3, <1>1, Zenon DEF n
  <2> QED
    BY <2>4, FS_Subset
<1> DEFINE start(i) == db.incidents[i].started
<1>3. \A i \in S : i \in Nat /\ i # 0 /\ start(i) \in Nat
  <2> TAKE i \in S
  <2>1. i \in Nat /\ i # 0 /\ db.incidents[i] \in Incident
    BY <1>1
  <2> QED
    BY <2>1 DEF Incident
<1>4. \A i, j \in S : Below(i, EncodeCursor(j)) <=>
                          \/ start(i) < start(j)
                          \/ start(i) = start(j) /\ i < j
  <2> TAKE i \in S, j \in S
  <2>1. EncodeCursor(j) = [started |-> start(j), id |-> j]
    BY DEF EncodeCursor
  <2>2. EncodeCursor(j).started = start(j) /\ EncodeCursor(j).id = j
        /\ NoCursor.id = 0
    BY <2>1 DEF NoCursor
  <2>3. EncodeCursor(j) # NoCursor
    BY <2>2, <1>3
  <2> QED
    BY <2>2, <2>3 DEF Below
<1>5. \A i, j \in S : <<i, j>> \in RowOrder(S) <=> Below(j, EncodeCursor(i))
  BY DEF RowOrder
<1> HIDE DEF start
<1>6. Orders(RowOrder(S), S)
  <2>1. \A x \in S : <<x, x>> \notin RowOrder(S)
    BY <1>3, <1>4, <1>5
  <2>2. \A x, y \in S :
            x # y => <<x, y>> \in RowOrder(S) \/ <<y, x>> \in RowOrder(S)
    BY <1>3, <1>4, <1>5
  <2>3. \A x, y, z \in S :
            <<x, y>> \in RowOrder(S) /\ <<y, z>> \in RowOrder(S)
                => <<x, z>> \in RowOrder(S)
    BY <1>3, <1>4, <1>5
  <2> QED
    BY <2>1, <2>2, <2>3 DEF Orders
<1>7. \A i \in S : Under(RowOrder(S), S, i)
                       = {j \in S : Below(i, EncodeCursor(j))}
  BY <1>5 DEF Under
<1> QED
  BY <1>2, <1>6, <1>7

(* How many of S come before row i on a listing.                            *)
RowRank(S, i) == Cardinality(Under(RowOrder(S), S, i))

(* Every rank up to the number of rows is that of a row.                    *)
LEMMA RowsHaveRanks ==
    ASSUME ManagerInv, NEW S \in SUBSET DOMAIN db.incidents
    PROVE  \A k \in 1..Cardinality(S) : \E j \in S : RowRank(S, j) = k - 1
<1>1. IsFiniteSet(S) /\ Orders(RowOrder(S), S)
  BY RowsAreOrdered
<1> QED
  BY <1>1, RankExists DEF RowRank

(* A page holds the rows of the lowest ranks, one more than it shows.        *)
LEMMA PageOfRows ==
    ASSUME ManagerInv, NEW f, NEW c
    PROVE  LET S == Rows(f, c)
               N == Cardinality(S)
               L == Min({PageLimit + 1, N})
           IN /\ S \in SUBSET DOMAIN db.incidents
              /\ IsFiniteSet(S)
              /\ Orders(RowOrder(S), S)
              /\ N \in Nat
              /\ L \in {PageLimit + 1, N} /\ L <= PageLimit + 1 /\ L <= N
              /\ ListPage(f, c)
                    = [k \in 1..L |-> CHOOSE j \in S : RowRank(S, j) = k - 1]
<1> DEFINE S == Rows(f, c)
           R == RowOrder(S)
           N == Cardinality(S)
           rank(j) == RowRank(S, j)
           page == ListPage(f, c)
           L == Min({PageLimit + 1, N})
<1>1. S \in SUBSET DOMAIN db.incidents
  BY DEF Rows, Matching
<1>2. /\ IsFiniteSet(S) /\ Orders(R, S)
      /\ \A j \in S : Under(R, S, j) = {k \in S : Below(j, EncodeCursor(k))}
  <2> HIDE DEF S
  <2> QED
    BY <1>1, RowsAreOrdered
<1>3. N \in Nat /\ PageLimit \in Nat \ {0}
  BY <1>2, FS_CardinalityType, PageLimitAssumption
<1>4. page = [k \in 1..L |-> CHOOSE j \in S : rank(j) = k - 1]
  <2>1. \A j \in S : rank(j) = Cardinality({k \in S : Below(j, EncodeCursor(k))})
    BY <1>2 DEF RowRank
  <2>2. page = [k \in 1..L |-> CHOOSE j \in S :
                    Cardinality({m \in S : Below(j, EncodeCursor(m))}) = k - 1]
    BY DEF ListPage, Rows
  <2> HIDE DEF S, page, L, N, rank
  <2>3. \A k \in 1..L :
            (CHOOSE j \in S :
                Cardinality({m \in S : Below(j, EncodeCursor(m))}) = k - 1)
            = (CHOOSE j \in S : rank(j) = k - 1)
    <3> TAKE k \in 1..L
    <3>1. \A j : j \in S /\ Cardinality({m \in S : Below(j, EncodeCursor(m))})
                                = k - 1
                     <=> j \in S /\ rank(j) = k - 1
      BY <2>1
    <3> QED
      BY <3>1, Zenon
  <2> DEFINE A(k) == CHOOSE j \in S :
                         Cardinality({m \in S : Below(j, EncodeCursor(m))}) = k - 1
             B(k) == CHOOSE j \in S : rank(j) = k - 1
  <2>4. page = [k \in 1..L |-> A(k)] /\ \A k \in 1..L : A(k) = B(k)
    BY <2>2, <2>3, Zenon
  <2> HIDE DEF A, B
  <2>5. page = [k \in 1..L |-> B(k)]
    BY <2>4
  <2> QED
    BY <2>5, Zenon DEF B
<1>5. L \in {PageLimit + 1, N} /\ L <= PageLimit + 1 /\ L <= N
  BY <1>3, LeastOfTwo
<1> HIDE DEF S, N, L, page, rank
<1>6. /\ S \in SUBSET DOMAIN db.incidents
      /\ IsFiniteSet(S) /\ Orders(RowOrder(S), S)
      /\ N \in Nat
      /\ L \in {PageLimit + 1, N} /\ L <= PageLimit + 1 /\ L <= N
      /\ page = [k \in 1..L |-> CHOOSE j \in S : rank(j) = k - 1]
  <2>1. Orders(RowOrder(S), S)
    BY <1>2
  <2> QED
    BY <2>1, <1>1, <1>2, <1>3, <1>4, <1>5
<1> QED
  BY <1>6, Zenon DEF S, N, L, page, rank

(* A page that is not the last ends with a row, whose cursor it returns.     *)
LEMMA PageRowsAreRows ==
    ASSUME ManagerInv, NEW f, NEW c
    PROVE  Len(ListPage(f, c)) > PageLimit
               => ListPage(f, c)[PageLimit] \in Rows(f, c)
<1> DEFINE S == Rows(f, c)
           N == Cardinality(S)
           L == Min({PageLimit + 1, N})
           page == ListPage(f, c)
           rank(j) == RowRank(S, j)
<1>1. /\ N \in Nat
      /\ L \in {PageLimit + 1, N} /\ L <= PageLimit + 1 /\ L <= N
      /\ page = [k \in 1..L |-> CHOOSE j \in S : rank(j) = k - 1]
      /\ \A k \in 1..N : \E j \in S : rank(j) = k - 1
  <2>1. N \in Nat
    BY PageOfRows
  <2>2. L \in {PageLimit + 1, N} /\ L <= PageLimit + 1 /\ L <= N
    BY PageOfRows, Zenon
  <2>3. page = [k \in 1..L |-> CHOOSE j \in S : rank(j) = k - 1]
    BY PageOfRows, ZenonT(40)
  <2>4. \A k \in 1..N : \E j \in S : rank(j) = k - 1
    <3> S \in SUBSET DOMAIN db.incidents
      BY DEF Rows, Matching
    <3> HIDE DEF S
    <3> QED
      BY RowsHaveRanks
  <2> QED
    BY <2>1, <2>2, <2>3, <2>4, Zenon
<1> HIDE DEF S, N, L, page, rank
<1>2. SUFFICES ASSUME Len(page) > PageLimit PROVE page[PageLimit] \in S
  BY DEF S, page
<1>3. PageLimit \in Nat \ {0} /\ L \in Nat /\ Len(page) = L
  BY <1>1, PageLimitAssumption
<1>4. PageLimit \in 1..L /\ PageLimit \in 1..N
  BY <1>1, <1>2, <1>3
<1>5. page[PageLimit] = CHOOSE j \in S : rank(j) = PageLimit - 1
  BY <1>1, <1>4
<1> QED
  BY <1>5, <1>1, <1>4

(* Every row that could be on the page is shown, or is below the cursor that *)
(* the page returns.                                                       *)
LEMMA PageShowsOrPoints ==
    ASSUME ManagerInv, NEW f, NEW c, NEW i \in Rows(f, c)
    PROVE  LET page == ListPage(f, c) IN
           \/ i \in Shown(page)
           \/ /\ Len(page) > PageLimit
              /\ page[PageLimit] \in DOMAIN db.incidents
              /\ Below(i, EncodeCursor(page[PageLimit]))
<1> DEFINE S == Rows(f, c)
           R == RowOrder(S)
           N == Cardinality(S)
           rank(j) == RowRank(S, j)
           page == ListPage(f, c)
           L == Min({PageLimit + 1, N})
<1>1. S \in SUBSET DOMAIN db.incidents
  BY DEF Rows, Matching
<1>2. IsFiniteSet(S) /\ Orders(R, S)
  BY <1>1, PageOfRows
<1>3. N \in Nat /\ PageLimit \in Nat \ {0}
  BY PageOfRows, PageLimitAssumption
<1>4. page = [k \in 1..L |-> CHOOSE j \in S : rank(j) = k - 1]
  BY PageOfRows, ZenonT(40)
<1>5. /\ i \in S /\ rank(i) \in 0..N - 1
      /\ \A j \in S : rank(j) \in 0..N - 1
      /\ \A j \in S : rank(j) = rank(i) => j = i
      /\ \A j \in S : <<i, j>> \in R => rank(i) < rank(j)
  <2> HIDE DEF S
  <2>1. i \in S
    BY DEF S
  <2>2. ASSUME NEW j \in S PROVE rank(j) \in 0..N - 1
    BY <1>2, RankBounded DEF RowRank
  <2>3. ASSUME NEW j \in S, rank(j) = rank(i) PROVE j = i
    BY <1>2, <2>1, <2>3, RankUnique DEF RowRank
  <2>4. ASSUME NEW j \in S, <<i, j>> \in R PROVE rank(i) < rank(j)
    BY <1>2, <2>1, <2>4, RankGrows DEF RowRank
  <2> HIDE DEF rank
  <2> QED
    BY <2>1, <2>2, <2>3, <2>4
<1>6. L \in {PageLimit + 1, N} /\ L <= PageLimit + 1 /\ L <= N
  BY PageOfRows, Zenon
<1>7. \A k \in 1..N : \E j \in S : rank(j) = k - 1
  <2> HIDE DEF S
  <2> QED
    BY <1>1, RowsHaveRanks
<1>8. \A j \in S : <<j, i>> \in R => Below(i, EncodeCursor(j))
  BY DEF RowOrder
<1>9. \A j \in S : j # i => <<j, i>> \in R \/ <<i, j>> \in R
  BY <1>2, <1>5 DEF Orders
<1> HIDE DEF S, R, N, rank, L, page
<1>10. Len(page) = L /\ L \in Nat
  BY <1>3, <1>4, <1>6
<1>11. CASE rank(i) + 1 <= PageLimit
  <2> DEFINE k == rank(i) + 1
  <2>1. k \in 1..L /\ k \in 1..N
    BY <1>3, <1>5, <1>6, <1>11
  <2>2. page[k] = CHOOSE j \in S : rank(j) = k - 1
    BY <1>4, <2>1
  <2>3. k - 1 = rank(i)
    BY <1>5, <1>3
  <2>4. page[k] \in S /\ rank(page[k]) = rank(i)
    BY <2>2, <2>3, <1>5
  <2>5. page[k] = i
    BY <2>4, <1>5
  <2>6. k \in 1..Min({PageLimit, Len(page)})
    <3>1. Min({PageLimit, L}) \in {PageLimit, L}
      BY <1>3, <1>10, LeastOfTwo
    <3> HIDE DEF k
    <3>2. k <= PageLimit
      BY <1>11 DEF k
    <3> QED
      BY <3>1, <3>2, <2>1, <1>3, <1>10
  <2>7. i \in Shown(page)
    <3> HIDE DEF k
    <3> QED
      BY <2>5, <2>6 DEF Shown
  <2> QED
    BY <2>7 DEF page
<1>12. CASE ~(rank(i) + 1 <= PageLimit)
  <2>1. /\ L = PageLimit + 1 /\ Len(page) > PageLimit
        /\ PageLimit \in 1..L /\ PageLimit \in 1..N
    BY <1>3, <1>5, <1>6, <1>10, <1>12
  <2> DEFINE j == page[PageLimit]
  <2>2. j = CHOOSE m \in S : rank(m) = PageLimit - 1
    BY <1>4, <2>1
  <2>3. j \in S /\ rank(j) = PageLimit - 1
    BY <2>1, <2>2, <1>7
  <2> HIDE DEF j
  <2>4. rank(j) < rank(i)
    BY <2>3, <1>3, <1>5, <1>12
  <2>5. <<i, j>> \notin R /\ j # i
    BY <2>3, <2>4, <1>3, <1>5
  <2>6. Below(i, EncodeCursor(j))
    BY <2>3, <2>5, <1>8, <1>9
  <2>7. j \in DOMAIN db.incidents
    BY <2>3, <1>1
  <2> QED
    BY <2>1, <2>6, <2>7 DEF j, page
<1> QED
  BY <1>11, <1>12

(* What a page leaves for the next: an incident that has matched since the    *)
(* first page was shown, or is below the cursor.  A committed start is never *)
(* later than it was, and the transaction keeps to that.                    *)
PagesInv ==
    /\ ManagerInv
    /\ \A i \in DOMAIN db.incidents :
          /\ i \in DOMAIN tx.incidents
          /\ tx.incidents[i].started <= db.incidents[i].started
    /\ cursor # NoCursor =>
          /\ cursor.started \in Nat
          /\ present \subseteq Matching(db.incidents, filter)
          /\ \A i \in present : i \in listed \/ Below(i, cursor)

(* No step of the manager gives an incident a later start.                  *)
LEMMA StartsStay ==
    ASSUME ManagerInv, [Next]_vars,
           \A i \in DOMAIN db.incidents :
              /\ i \in DOMAIN tx.incidents
              /\ tx.incidents[i].started <= db.incidents[i].started
    PROVE  /\ \A i \in DOMAIN db.incidents :
                 /\ i \in DOMAIN db'.incidents
                 /\ db'.incidents[i].started <= db.incidents[i].started
           /\ \A i \in DOMAIN db'.incidents :
                 /\ i \in DOMAIN tx'.incidents
                 /\ tx'.incidents[i].started <= db'.incidents[i].started
<1>1. /\ \A i \in DOMAIN db.incidents : db.incidents[i].started \in Nat
      /\ \A i \in DOMAIN tx.incidents : tx.incidents[i].started \in Nat
      /\ db \in [incidents : Seq(Incident), stored : SUBSET Events]
      /\ tx \in [incidents : Seq(Incident), stored : SUBSET Events]
  <2>1. ASSUME NEW inc \in Incident PROVE inc.started \in Nat
    BY DEF Incident
  <2>2. /\ db \in [incidents : Seq(Incident), stored : SUBSET Events]
        /\ tx \in [incidents : Seq(Incident), stored : SUBSET Events]
    BY DEF ManagerInv, ImageInv
  <2> QED
    BY <2>1, <2>2
<1>2. \A i \in DOMAIN db.incidents :
          db.incidents[i].started <= db.incidents[i].started
  BY <1>1
<1>3. \A i \in DOMAIN tx.incidents :
          tx.incidents[i].started <= tx.incidents[i].started
  BY <1>1
<1>4. CASE ReceiveBatch
  <2>1. db' = db /\ tx'.incidents = tx.incidents
    <3>1. PICK batch \in SUBSET (Events \ db.stored) :
              tx' = [tx EXCEPT !.stored = @ \cup batch]
      BY <1>4 DEF ReceiveBatch
    <3> QED
      BY <3>1, <1>1, <1>4 DEF ReceiveBatch
  <2> QED
    BY <2>1, <1>2
<1>5. CASE ProcessAnomalies
  <2> DEFINE e == Head(todo)
  <2>1. /\ e \in tx.stored /\ db' = db
        /\ \A i \in DOMAIN tx.incidents :
              i \in DOMAIN tx'.incidents /\ tx'.incidents[i] = LogDecisions(e)[i]
    BY <1>5, TurnShape
  <2> HIDE DEF e
  <2>2. ASSUME NEW i \in DOMAIN db.incidents
        PROVE  /\ i \in DOMAIN tx'.incidents
               /\ tx'.incidents[i].started <= db.incidents[i].started
    <3>1. /\ LogDecisions(e)[i].started <= tx.incidents[i].started
          /\ LogDecisions(e)[i] \in Incident
          /\ i \in DOMAIN tx.incidents
      BY <2>1, TurnKeepsIncident
    <3>2. LogDecisions(e)[i].started \in Nat
      BY <3>1 DEF Incident
    <3>3. tx.incidents[i].started <= db.incidents[i].started
      OBVIOUS
    <3>4. LogDecisions(e)[i].started <= db.incidents[i].started
      BY <3>1, <3>2, <3>3, <1>1
    <3> QED
      BY <3>1, <3>4, <2>1
  <2> QED
    BY <2>1, <2>2, <1>2
<1>6. CASE Commit
  <2>1. db' = tx /\ tx' = tx
    BY <1>6 DEF Commit
  <2> QED
    BY <2>1, <1>3
<1>7. CASE BatchFails
  <2>1. db' = db /\ tx' = db
    BY <1>7 DEF BatchFails
  <2> QED
    BY <2>1, <1>2
<1>8. CASE ChangeStatus
  <2>1. PICK j \in ListOpen(db.incidents), status \in {"investigating", "closed"} :
            db' = [db EXCEPT !.incidents[j].status = status]
    BY <1>8 DEF ChangeStatus
  <2>2. tx' = db' /\ j \in DOMAIN db.incidents
    BY <1>8 DEF ChangeStatus, ListOpen
  <2> DEFINE new == [db.incidents[j] EXCEPT !.status = status]
  <2>3. new.started = db.incidents[j].started
    <3>1. db.incidents[j] \in Incident
      BY <2>2, <1>1
    <3> QED
      BY <3>1 DEF Incident
  <2> HIDE DEF new
  <2>4. db'.incidents = [db.incidents EXCEPT ![j] = new]
    BY <2>1, <1>1 DEF new
  <2>5. \A i \in DOMAIN db.incidents :
            db'.incidents[i].started = db.incidents[i].started
    BY <2>3, <2>4
  <2>6. DOMAIN db'.incidents = DOMAIN db.incidents
    BY <2>4
  <2> QED
    BY <2>2, <2>5, <2>6, <1>2
<1>9. CASE UNCHANGED vars
  BY <1>2, <1>9 DEF vars
<1> QED
  BY <1>4, <1>5, <1>6, <1>7, <1>8, <1>9 DEF Next

(* What the page of a listing shows of the incidents it is about.           *)
LEMMA ListedOrBelow ==
    ASSUME PagesInv, NEW f, NEW S,
           cursor = NoCursor => S = Matching(db.incidents, f),
           cursor # NoCursor => S = present /\ f = filter,
           NEW i \in S, i \notin listed
    PROVE  i \in Rows(f, cursor)
<1>1. CASE cursor = NoCursor
  BY <1>1 DEF Rows, Below
<1>2. CASE cursor # NoCursor
  BY <1>2 DEF PagesInv, Rows
<1> QED
  BY <1>1, <1>2

(* The cursor of an incident is never mistaken for no cursor.               *)
LEMMA CursorOfRow ==
    ASSUME ManagerInv, NEW i \in DOMAIN db.incidents
    PROVE  EncodeCursor(i).started \in Nat /\ EncodeCursor(i) # NoCursor
<1>1. i \in Nat /\ i # 0 /\ db.incidents[i] \in Incident
  BY DEF ManagerInv, ImageInv
<1>2. EncodeCursor(i) = [started |-> db.incidents[i].started, id |-> i]
      /\ NoCursor = [started |-> 0, id |-> 0]
  BY DEF EncodeCursor, NoCursor
<1>3. /\ EncodeCursor(i).started = db.incidents[i].started
      /\ EncodeCursor(i).id = i /\ NoCursor.id = 0
  BY <1>2
<1>4. db.incidents[i].started \in Nat
  BY <1>1 DEF Incident
<1> QED
  BY <1>1, <1>3, <1>4

(* The manager's steps keep what the pages so far have left.                *)
LEMMA ContinueKeepsInv ==
    ASSUME PagesInv, [Next]_vars, UNCHANGED <<filter, cursor, listed>>,
           \/ present' = present \cap Matching(db'.incidents, filter)
           \/ present' = present /\ UNCHANGED vars
    PROVE  PagesInv'
<1>1. ManagerInv /\ ManagerInv'
  BY ManagerStep DEF PagesInv
<1>2. /\ \A i \in DOMAIN db.incidents :
            /\ i \in DOMAIN db'.incidents
            /\ db'.incidents[i].started <= db.incidents[i].started
      /\ \A i \in DOMAIN db'.incidents :
            /\ i \in DOMAIN tx'.incidents
            /\ tx'.incidents[i].started <= db'.incidents[i].started
  BY <1>1, StartsStay DEF PagesInv
<1>3. ASSUME cursor # NoCursor
      PROVE  /\ present' \subseteq Matching(db'.incidents, filter)
             /\ \A i \in present' : i \in listed \/ Below(i, cursor)'
  <2>1. /\ present \subseteq Matching(db.incidents, filter)
        /\ \A i \in present : i \in listed \/ Below(i, cursor)
        /\ cursor.started \in Nat
    BY <1>3 DEF PagesInv
  <2>2. /\ present' \subseteq present
        /\ present' \subseteq Matching(db'.incidents, filter)
    BY <2>1 DEF vars
  <2>3. ASSUME NEW i \in present', i \notin listed
        PROVE  Below(i, cursor)'
    <3>1. Below(i, cursor) /\ i \in DOMAIN db.incidents
      BY <2>1, <2>2, <2>3 DEF Matching
    <3>2. i \in DOMAIN db'.incidents
          /\ db'.incidents[i].started <= db.incidents[i].started
      BY <1>2, <3>1
    <3>3. db.incidents[i].started \in Nat /\ db'.incidents[i].started \in Nat
      <4>1. ASSUME NEW inc \in Incident PROVE inc.started \in Nat
        BY DEF Incident
      <4>2. db.incidents \in Seq(Incident) /\ db'.incidents \in Seq(Incident)
        BY <1>1 DEF ManagerInv, ImageInv
      <4>3. db.incidents[i] \in Incident /\ db'.incidents[i] \in Incident
        BY <3>1, <3>2, <4>2
      <4> QED
        BY <4>1, <4>3
    <3>4. \/ db.incidents[i].started < cursor.started
          \/ db.incidents[i].started = cursor.started /\ i < cursor.id
      BY <3>1, <1>3 DEF Below
    <3>5. \/ db'.incidents[i].started < cursor.started
          \/ db'.incidents[i].started = cursor.started /\ i < cursor.id
      BY <3>2, <3>3, <3>4, <2>1
    <3> QED
      BY <3>5 DEF Below
  <2> QED
    BY <2>2, <2>3
<1> QED
  BY <1>1, <1>2, <1>3 DEF PagesInv

(* A page keeps it, with the cursor that it returns.                        *)
LEMMA ListingKeepsInv ==
    ASSUME PagesInv, ListIncidents
    PROVE  PagesInv'
<1>1. PICK f \in Filters :
          LET rows == ListPage(f, cursor)
              next == NextCursor(rows)
              first == cursor = NoCursor
          IN /\ ~first => f = filter
             /\ cursor' = next
             /\ filter' = IF next = NoCursor THEN NoFilter ELSE f
             /\ listed' = IF next = NoCursor THEN {} ELSE listed \cup Shown(rows)
             /\ present' = CASE next = NoCursor -> {}
                             [] next # NoCursor /\ first ->
                                   Matching(db.incidents, f)
                             [] OTHER -> present
  BY DEF ListIncidents
<1> DEFINE rows == ListPage(f, cursor)
<1>2. UNCHANGED vars
  BY DEF ListIncidents
<1>3. ManagerInv /\ db' = db /\ tx' = tx
  BY <1>2 DEF PagesInv, vars
<1>4. ManagerInv'
  BY <1>2, <1>3, ManagerStep
<1>5. ASSUME cursor' # NoCursor
      PROVE  /\ cursor'.started \in Nat
             /\ present' \subseteq Matching(db'.incidents, filter')
             /\ \A i \in present' : i \in listed' \/ Below(i, cursor)'
  <2>1. /\ cursor # NoCursor => f = filter
        /\ cursor' = NextCursor(rows)
        /\ filter' = f /\ listed' = listed \cup Shown(rows)
        /\ cursor = NoCursor => present' = Matching(db.incidents, f)
        /\ cursor # NoCursor => present' = present
    BY <1>1, <1>5
  <2> HIDE DEF rows
  <2>2. Len(rows) > PageLimit /\ cursor' = EncodeCursor(rows[PageLimit])
    BY <2>1, <1>5 DEF NextCursor
  <2>3. present' \subseteq Matching(db.incidents, f)
    BY <2>1 DEF PagesInv
  <2>4. ASSUME NEW i \in present', i \notin listed'
        PROVE  /\ Below(i, cursor')
               /\ rows[PageLimit] \in DOMAIN db.incidents
    <3>1. i \in Rows(f, cursor)
      BY <2>1, <2>4, ListedOrBelow
    <3>2. i \notin Shown(rows)
      BY <2>1, <2>4
    <3> QED
      BY <3>1, <3>2, <2>2, <1>3, PageShowsOrPoints DEF rows
  <2>5. \A i : Below(i, cursor)' <=> Below(i, cursor')
    BY <1>3 DEF Below
  <2>6. cursor'.started \in Nat
    <3>1. rows[PageLimit] \in DOMAIN db.incidents
      BY <2>2, <1>3, PageRowsAreRows DEF rows, Rows, Matching
    <3> QED
      BY <3>1, <2>2, <1>3, CursorOfRow
  <2> QED
    BY <2>1, <2>3, <2>4, <2>5, <2>6, <1>3
<1>6. \A i \in DOMAIN db'.incidents :
          /\ i \in DOMAIN tx'.incidents
          /\ tx'.incidents[i].started <= db'.incidents[i].started
  BY <1>3 DEF PagesInv
<1> QED
  BY <1>4, <1>5, <1>6 DEF PagesInv

(* PagesInv is inductive.                                                   *)
LEMMA PagesStep ==
    ASSUME PagesInv, [PagesNext]_<<vars, pageVars>>
    PROVE  PagesInv'
<1>1. CASE ListIncidents
  BY <1>1, ListingKeepsInv
<1>2. CASE Continue
  <2>1. /\ Next /\ UNCHANGED <<filter, cursor, listed>>
        /\ present' = present \cap Matching(db'.incidents, filter)
    BY <1>2 DEF Continue
  <2> QED
    BY <2>1, ContinueKeepsInv
<1>3. CASE UNCHANGED <<vars, pageVars>>
  <2>1. UNCHANGED vars /\ UNCHANGED <<filter, cursor, listed>>
        /\ present' = present
    BY <1>3 DEF pageVars
  <2> QED
    BY <2>1, ContinueKeepsInv
<1> QED
  BY <1>1, <1>2, <1>3 DEF PagesNext

(* It holds of every state of a listing.                                    *)
LEMMA PagesInvariant == PagesSpec => []PagesInv
<1>1. PagesInit => PagesInv
  <2>1. PagesInit => ManagerInv /\ cursor = NoCursor
    BY InitManager DEF PagesInit
  <2>2. PagesInit => db.incidents = <<>>
    BY DEF PagesInit, Init
  <2> QED
    BY <2>1, <2>2 DEF PagesInv
<1>2. PagesInv /\ [PagesNext]_<<vars, pageVars>> => PagesInv'
  BY PagesStep
<1> QED
  BY <1>1, <1>2, PTL DEF PagesSpec

(* A listing shows, from its first page to its last, every incident that     *)
(* matched its filters all the while, though incidents are opened, closed   *)
(* and given an earlier start between the pages.                            *)
THEOREM NothingPassedOver == PagesSpec => NothingIsPassedOver
<1>1. ASSUME PagesInv, [PagesNext]_<<vars, pageVars>>,
             cursor # NoCursor, cursor' = NoCursor
      PROVE  present \subseteq listed \cup Shown(ListPage(filter, cursor))
  <2>1. cursor' # cursor
    BY <1>1
  <2>2. ListIncidents
    BY <1>1, <2>1 DEF PagesNext, Continue, pageVars
  <2> DEFINE page == ListPage(filter, cursor)
  <2>3. cursor' = NextCursor(page)
    BY <1>1, <2>2 DEF ListIncidents
  <2> HIDE DEF page
  <2>4. ~(Len(page) > PageLimit)
    <3>1. SUFFICES ASSUME Len(page) > PageLimit PROVE FALSE
      OBVIOUS
    <3>2. cursor' = EncodeCursor(page[PageLimit])
      BY <2>3, <3>1 DEF NextCursor
    <3>3. page[PageLimit] \in DOMAIN db.incidents
      BY <1>1, <3>1, PageRowsAreRows DEF page, PagesInv, Rows, Matching
    <3> QED
      BY <1>1, <3>2, <3>3, CursorOfRow DEF PagesInv
  <2>5. ASSUME NEW i \in present, i \notin listed
        PROVE  i \in Shown(page)
    <3>1. i \in Rows(filter, cursor)
      BY <1>1, <2>5, ListedOrBelow
    <3> QED
      BY <1>1, <3>1, <2>4, PageShowsOrPoints DEF page, PagesInv
  <2> QED
    BY <2>5 DEF page
<1>2. PagesInv /\ [PagesNext]_<<vars, pageVars>>
          => [cursor # NoCursor /\ cursor' = NoCursor =>
                 present \subseteq listed \cup Shown(ListPage(filter, cursor))]_pageVars
  BY <1>1
<1> QED
  BY <1>2, PagesInvariant, PTL DEF PagesSpec, NothingIsPassedOver

(* Listings only read: what is proved of the manager holds while it is       *)
(* listed.                                                                 *)
THEOREM PagesImplementManager == PagesSpec => Spec
<1>1. PagesInit => Init
  BY DEF PagesInit
<1>2. [PagesNext]_<<vars, pageVars>> => [Next]_vars
  BY DEF PagesNext, ListIncidents, Continue, vars, pageVars
<1> QED
  BY <1>1, <1>2, PTL DEF PagesSpec, Spec

=============================================================================
