------------------------- MODULE IncidentAnalysisProofs -------------------------
(***************************************************************************)
(* Proofs about IncidentAnalysis, for every incident, catalogue, topology    *)
(* and playbook:                                                           *)
(*   - what an explanation may look like, whatever the model answers;       *)
(*   - the searches of the topology find shortest paths;                    *)
(*   - what the detectors find on the batches, and on which events.         *)
(***************************************************************************)
EXTENDS IncidentAnalysis, FiniteSetTheorems, SequenceTheorems,
        WellFoundedInduction, TLAPS

(* ExplanationIsSound speaks of the end only.  Before the explanation there  *)
(* is nothing, and while the model is asked there is the template and at     *)
(* most one answer, one that is worth another attempt.                      *)
AttemptInv ==
    /\ stage \in Stages
    /\ stage \in {"bundle", "collect", "explain"} =>
          rows = << >> /\ answers = << >> /\ fallback = NoReason
    /\ stage = "ask" =>
          /\ mode = "llm" /\ rows = <<"template">> /\ fallback = NoReason
          /\ \/ answers = << >>
             \/ answers = <<"raises">>
             \/ answers = <<"invalid">>

ExplanationInv == AttemptInv /\ ExplanationIsSound

(* Appending to a sequence, and to one of length one.                      *)
LEMMA AppendedSeq ==
    ASSUME NEW S, NEW s \in Seq(S), NEW y \in S
    PROVE  /\ Append(s, y) \in Seq(S)
           /\ Len(Append(s, y)) = Len(s) + 1
           /\ \A i \in 1..Len(s) : Append(s, y)[i] = s[i]
           /\ Append(s, y)[Len(s) + 1] = y
<1> QED
  OBVIOUS

(* Appending to a sequence of one.                                         *)
LEMMA SecondAppended ==
    ASSUME NEW S, NEW x \in S, NEW y \in S
    PROVE  Append(<<x>>, y) = <<x, y>>
<1> DEFINE one == <<x>>
           two == <<x, y>>
           new == Append(one, y)
<1>1. one \in Seq(S) /\ Len(one) = 1 /\ one[1] = x
  OBVIOUS
<1>2. two \in Seq(S) /\ Len(two) = 2 /\ two[1] = x /\ two[2] = y
  OBVIOUS
<1> HIDE DEF one, two
<1>3. /\ new \in Seq(S) /\ Len(new) = Len(one) + 1
      /\ \A i \in 1..Len(one) : new[i] = one[i]
      /\ new[Len(one) + 1] = y
  <2>1. one \in Seq(S)
    BY <1>1
  <2> QED
    BY ONLY <2>1, y \in S, AppendedSeq
<1> HIDE DEF new
<1>4. new[1] = x /\ new[2] = y /\ Len(new) = 2
  BY <1>1, <1>3
<1>5. new = two
  <2>1. \A k \in 1..2 : new[k] = two[k]
    BY <1>2, <1>4
  <2> QED
    BY <1>2, <1>3, <1>4, <2>1, SeqEqual
<1> QED
  BY <1>5 DEF one, two, new

(* An answer is appended to at most one other.                             *)
LEMMA AnswerAppended ==
    ASSUME AttemptInv, NEW a \in Answers, Answer(a)
    PROVE  /\ answers' # << >>
           /\ answers'[Len(answers')] = a
           /\ Len(answers') \in Nat
           /\ \A n \in DOMAIN answers' :
                 n # Len(answers') => answers'[n] \in {"raises", "invalid"}
           /\ mode' = "llm" /\ stage = "ask"
           /\ answers = << >> => answers' = <<a>>
<1>1. /\ mode' = "llm" /\ stage = "ask"
      /\ answers' = Append(answers, a)
      /\ answers \in {<< >>, <<"raises">>, <<"invalid">>}
  BY DEF AttemptInv, Answer
<1>2. CASE answers = << >>
  <2>1. answers' = <<a>>
    BY <1>1, <1>2
  <2> QED
    BY <1>1, <2>1
<1>3. CASE \E b \in {"raises", "invalid"} : answers = <<b>>
  <2>1. PICK b \in {"raises", "invalid"} : answers = <<b>>
    BY <1>3
  <2>2. answers' = <<b, a>>
    <3>1. b \in Answers /\ a \in Answers
      BY DEF Answers
    <3> QED
      BY <1>1, <2>1, <3>1, SecondAppended
  <2>3. /\ DOMAIN answers' = 1..2 /\ Len(answers') = 2
        /\ answers'[1] = b /\ answers'[2] = a
    BY <2>2
  <2> QED
    BY <1>1, <2>1, <2>2, <2>3
<1> QED
  BY <1>1, <1>2, <1>3

(* The initial state satisfies the invariant.                               *)
LEMMA ExplanationInit == Init => ExplanationInv
<1> QED
  BY DEF Init, ExplanationInv, AttemptInv, ExplanationIsSound, Stages, NoReason

(* The invariant is inductive.                                              *)
LEMMA ExplanationNext == ExplanationInv /\ [Next]_vars => ExplanationInv'
<1> SUFFICES ASSUME ExplanationInv, [Next]_vars PROVE ExplanationInv'
  OBVIOUS
<1> USE DEF ExplanationInv, Stages, Answers, NoReason, Conclude
<1>1. CASE \/ Analyse \/ NoCandidates \/ Collect \/ CollectFails
           \/ AllCollected \/ TemplateFails
  BY <1>1
  DEF Analyse, NoCandidates, Collect, CollectFails, AllCollected, TemplateFails, Fail,
      AttemptInv, ExplanationIsSound
<1>2. CASE Template
  BY <1>2 DEF Template, AttemptInv, ExplanationIsSound
<1>3. CASE Accept
  <2>1. /\ stage = "ask" /\ rows = <<"template">>
        /\ rows' = Append(rows, "llm") /\ stage' = "done" /\ fallback' = "none"
    BY <1>3 DEF Accept, Answer, AttemptInv
  <2>2. rows' = <<"template", "llm">>
    <3>1. "template" \in {"template", "llm"} /\ "llm" \in {"template", "llm"}
      OBVIOUS
    <3> QED
      BY <2>1, <3>1, SecondAppended
  <2>3. /\ answers' # << >> /\ answers'[Len(answers')] = "valid"
        /\ \A n \in DOMAIN answers' :
              n # Len(answers') => answers'[n] \in {"raises", "invalid"}
    BY <1>3, AnswerAppended DEF Accept
  <2>4. rows' # <<"template">>
    BY <2>2
  <2> HIDE DEF Answers
  <2> QED
    BY <2>1, <2>2, <2>3, <2>4 DEF AttemptInv, ExplanationIsSound
<1>4. CASE Stale
  <2>1. /\ rows' = <<"template">> /\ stage' = "done"
        /\ fallback' = "LLM_RESULT_STALE"
    BY <1>4 DEF Stale, Answer, AttemptInv
  <2> QED
    BY <1>4, <2>1, AnswerAppended DEF Stale, AttemptInv, ExplanationIsSound
<1>5. CASE Retry
  <2>1. PICK a \in {"raises", "invalid"} :
           /\ Answer(a)
           /\ IF answers = << >> THEN UNCHANGED <<stage, fallback>>
              ELSE Conclude(IF a = "raises" THEN "LLM_GENERATION_FAILED"
                            ELSE "LLM_INVALID")
           /\ UNCHANGED rows
    BY <1>5 DEF Retry
  <2>2. rows' = <<"template">> /\ stage = "ask" /\ fallback = "none"
    BY <2>1 DEF Answer, AttemptInv
  <2>3. CASE answers = << >>
    <3>1. answers' = <<a>> /\ mode' = "llm"
      BY <2>1, <2>3, AnswerAppended
    <3> QED
      BY <2>1, <2>2, <2>3, <3>1 DEF AttemptInv, ExplanationIsSound
  <2>4. CASE answers # << >>
    <3>1. stage' = "done" /\ fallback' \in {"LLM_GENERATION_FAILED", "LLM_INVALID"}
      BY <2>1, <2>4
    <3>2. rows' # <<"template", "llm">>
      BY <2>2
    <3> QED
      BY <2>1, <2>2, <3>1, <3>2, AnswerAppended DEF AttemptInv, ExplanationIsSound
  <2> QED
    BY <2>3, <2>4
<1>6. CASE UNCHANGED vars
  BY <1>6 DEF vars, AttemptInv, ExplanationIsSound
<1> QED
  BY <1>1, <1>2, <1>3, <1>4, <1>5, <1>6 DEF Next, Finished

(* Exactly one validated explanation and a reason for the fallback, after   *)
(* late, foreign or invalid answers and failing attempts                    *)
(* (ExplanationService.generate).                                          *)
THEOREM ExplanationsSound == Spec => []ExplanationIsSound
<1>1. ExplanationInv => ExplanationIsSound
  BY DEF ExplanationInv
<1> QED
  BY <1>1, ExplanationInit, ExplanationNext, PTL DEF Spec

-----------------------------------------------------------------------------
(* The searches of the topology.                                            *)

(* A set of naturals has a least element.                                   *)
LEMMA LeastExists ==
    ASSUME NEW T \in SUBSET Nat, T # {}
    PROVE  \E n \in T : \A m \in T : n <= m
<1>1. PICK n \in T : \A m \in T : <<m, n>> \notin OpToRel(<, Nat)
  BY NatLessThanWellFounded, WFMin
<1>2. \A m \in T : ~(m < n)
  BY <1>1 DEF OpToRel
<1> QED
  BY <1>2

(* What holds at 0 and steps from each number below N to the next holds up   *)
(* to N; the property is given by the set of numbers that have it.          *)
LEMMA UpTo ==
    ASSUME NEW N \in Nat, NEW S, 0 \in S,
           \A n \in 0..(N - 1) : n \in S => n + 1 \in S
    PROVE  \A n \in 0..N : n \in S
<1> DEFINE T == {n \in 0..N : n \notin S}
<1> SUFFICES ASSUME T # {} PROVE FALSE
  OBVIOUS
<1>1. PICK n \in T : \A m \in T : n <= m
  <2> T \in SUBSET Nat
    OBVIOUS
  <2> HIDE DEF T
  <2> QED
    BY LeastExists
<1>2. n \in 1..N /\ n - 1 \in 0..(N - 1)
  OBVIOUS
<1>3. n - 1 \in S
  <2>1. n - 1 \in T => n <= n - 1
    BY <1>1
  <2> QED
    BY <1>2, <2>1
<1>4. (n - 1) + 1 \in S
  BY <1>2, <1>3
<1> QED
  BY <1>2, <1>4

(* A function that is defined by recursion along 0..n: "step" gives the     *)
(* value at k from k and the value before.                                 *)
Iterates(f, start, step, n) ==
    /\ f[0] = start
    /\ \A k \in 1..n : f[k] = step[<<k, f[k - 1]>>]

(* A recursive function on 0..N exists if its step is a function.          *)
LEMMA IterationExists ==
    ASSUME NEW X, NEW start \in X, NEW step \in [Nat \X X -> X], NEW N \in Nat
    PROVE  \E f \in [0..N -> X] : Iterates(f, start, step, N)
<1> DEFINE S == {n \in Nat : \E f \in [0..n -> X] : Iterates(f, start, step, n)}
<1>1. 0 \in S
  <2> DEFINE f == [k \in 0..0 |-> start]
  <2>1. f \in [0..0 -> X] /\ Iterates(f, start, step, 0)
    BY DEF Iterates
  <2> QED
    BY <2>1
<1>2. ASSUME NEW n \in 0..(N - 1), n \in S PROVE n + 1 \in S
  <2>1. PICK f \in [0..n -> X] : Iterates(f, start, step, n)
    BY <1>2
  <2> DEFINE g == [k \in 0..(n + 1) |->
                      IF k = n + 1 THEN step[<<n + 1, f[n]>>] ELSE f[k]]
  <2>2. g \in [0..(n + 1) -> X]
    <3>1. n \in 0..n /\ n + 1 \in Nat
      OBVIOUS
    <3>2. step[<<n + 1, f[n]>>] \in X
      BY <3>1
    <3> QED
      BY <3>2
  <2>3. \A k \in 0..n : g[k] = f[k]
    OBVIOUS
  <2>4. g[n + 1] = step[<<n + 1, f[n]>>]
    OBVIOUS
  <2> HIDE DEF g
  <2>5. Iterates(g, start, step, n + 1)
    <3>1. g[0] = start
      BY <2>1, <2>3 DEF Iterates
    <3>2. ASSUME NEW k \in 1..(n + 1) PROVE g[k] = step[<<k, g[k - 1]>>]
      <4>1. CASE k = n + 1
        <5>1. g[k - 1] = f[n]
          BY <2>3, <4>1
        <5> QED
          BY <2>4, <4>1, <5>1
      <4>2. CASE k # n + 1
        <5>1. k \in 1..n /\ k \in 0..n /\ k - 1 \in 0..n
          BY <4>2
        <5> QED
          BY <2>1, <2>3, <5>1 DEF Iterates
      <4> QED
        BY <4>1, <4>2
    <3> QED
      BY <3>1, <3>2 DEF Iterates
  <2> QED
    BY <2>2, <2>5
<1> HIDE DEF S
<1>3. \A n \in 0..N : n \in S
  BY <1>1, <1>2, UpTo
<1> QED
  BY <1>3 DEF S

(* Two such functions agree as far as both go.                             *)
LEMMA IterationUnique ==
    ASSUME NEW start, NEW step, NEW n \in Nat, NEW m \in Nat, NEW f, NEW g,
           Iterates(f, start, step, n), Iterates(g, start, step, m), n <= m
    PROVE  \A k \in 0..n : f[k] = g[k]
<1> DEFINE S == {k \in 0..n : f[k] = g[k]}
<1>1. 0 \in S
  BY DEF Iterates
<1>2. ASSUME NEW k \in 0..(n - 1), k \in S PROVE k + 1 \in S
  <2>1. k + 1 \in 1..n /\ k + 1 \in 1..m /\ (k + 1) - 1 = k
    OBVIOUS
  <2>2. f[k + 1] = step[<<k + 1, f[k]>>] /\ g[k + 1] = step[<<k + 1, g[k]>>]
    BY <2>1 DEF Iterates
  <2> QED
    BY <1>2, <2>1, <2>2
<1> HIDE DEF S
<1>3. \A k \in 0..n : k \in S
  BY <1>1, <1>2, UpTo
<1> QED
  BY <1>3 DEF S

-----------------------------------------------------------------------------
(* The balls around a node.                                                *)

Wider(edges, B) == B \cup UNION {Successors(edges, y) : y \in B}

Widens(edges, x, n) == Ball(edges, x, n + 1) = Wider(edges, Ball(edges, x, n))

(* Ball satisfies the recursion of its definition.                         *)
LEMMA BallIs ==
    ASSUME NEW edges, NEW x
    PROVE  /\ Ball(edges, x, 0) = {x}
           /\ \A n \in Nat : Widens(edges, x, n)
<1> DEFINE X == SUBSET ({x} \cup {e[2] : e \in edges})
           step == [p \in Nat \X X |-> Wider(edges, p[2])]
           Is(g, n) == g = [k \in 0..n |-> IF k = 0 THEN {x}
                                ELSE g[k - 1] \cup
                                     UNION {Successors(edges, y) : y \in g[k - 1]}]
           ball(n) == CHOOSE g : Is(g, n)
<1>1. step \in [Nat \X X -> X]
  BY DEF Wider, Successors
<1>2. {x} \in X
  OBVIOUS
<1>3. ASSUME NEW n \in Nat, NEW f \in [0..n -> X], Iterates(f, {x}, step, n)
      PROVE  Is(f, n)
  <2>1. ASSUME NEW k \in 0..n, k # 0
        PROVE  f[k] = Wider(edges, f[k - 1])
    <3>1. k \in 1..n /\ k - 1 \in 0..n /\ k \in Nat
      BY <2>1
    <3>2. <<k, f[k - 1]>> \in Nat \X X
      BY <3>1
    <3>3. step[<<k, f[k - 1]>>] = Wider(edges, f[k - 1])
      BY <3>2
    <3> QED
      BY <1>3, <3>1, <3>3 DEF Iterates
  <2>2. f[0] = {x}
    BY <1>3 DEF Iterates
  <2> HIDE DEF X
  <2> QED
    BY <2>1, <2>2 DEF Wider
<1>4. ASSUME NEW n \in Nat
      PROVE  Is(ball(n), n) /\ Ball(edges, x, n) = ball(n)[n]
  <2>1. PICK f \in [0..n -> X] : Iterates(f, {x}, step, n)
    <3> HIDE DEF X, step
    <3> QED
      BY <1>1, <1>2, IterationExists
  <2>2. Is(f, n)
    <3> HIDE DEF X, step, Is
    <3> QED
      BY <1>3, <2>1
  <2>3. Is(ball(n), n)
    <3> HIDE DEF Is
    <3> QED
      BY <2>2
  <2> QED
    BY <2>3 DEF Ball
<1> HIDE DEF ball
<1>5. ASSUME NEW n \in Nat
      PROVE  /\ ball(n)[0] = {x}
             /\ \A k \in 1..n : ball(n)[k] = Wider(edges, ball(n)[k - 1])
  <2>1. ball(n) = [k \in 0..n |-> IF k = 0 THEN {x}
                      ELSE Wider(edges, ball(n)[k - 1])]
    BY <1>4 DEF Wider
  <2> HIDE DEF X, step, Is
  <2>2. \A k \in 0..n :
           ball(n)[k] = IF k = 0 THEN {x} ELSE Wider(edges, ball(n)[k - 1])
    BY <2>1
  <2>3. 0 \in 0..n /\ \A k \in 1..n : k \in 0..n /\ k # 0
    OBVIOUS
  <2> QED
    BY <2>2, <2>3
<1> HIDE DEF X, step, Is
<1>6. ASSUME NEW n \in Nat
      PROVE  \A k \in 0..n : ball(n)[k] = ball(n + 1)[k]
  <2> DEFINE S == {k \in 0..n : ball(n)[k] = ball(n + 1)[k]}
  <2>1. 0 \in S
    <3>1. n + 1 \in Nat /\ 0 \in 0..n
      OBVIOUS
    <3>2. ball(n)[0] = {x} /\ ball(n + 1)[0] = {x}
      BY <1>5, <3>1
    <3> QED
      BY <3>1, <3>2
  <2>2. ASSUME NEW k \in 0..(n - 1), k \in S PROVE k + 1 \in S
    <3>1. k + 1 \in 1..n /\ k + 1 \in 1..(n + 1) /\ (k + 1) - 1 = k
      OBVIOUS
    <3>2. /\ ball(n)[k + 1] = Wider(edges, ball(n)[k])
          /\ ball(n + 1)[k + 1] = Wider(edges, ball(n + 1)[k])
      BY <1>5, <3>1
    <3> QED
      BY <2>2, <3>1, <3>2
  <2> HIDE DEF S
  <2>3. \A k \in 0..n : k \in S
    BY <2>1, <2>2, UpTo
  <2> QED
    BY <2>3 DEF S
<1>7. ASSUME NEW n \in Nat
      PROVE  Widens(edges, x, n)
  <2>1. n + 1 \in 1..(n + 1) /\ (n + 1) - 1 = n
    OBVIOUS
  <2>2. ball(n + 1)[n + 1] = Wider(edges, ball(n + 1)[n])
    BY <1>5, <2>1
  <2>3. ball(n + 1)[n] = ball(n)[n]
    BY <1>6
  <2>4. Ball(edges, x, n + 1) = Wider(edges, Ball(edges, x, n))
    BY <1>4, <2>2, <2>3
  <2> QED
    BY <2>4 DEF Widens
<1> QED
  BY <1>4, <1>5, <1>7

(* The successors are the ends of the edges.                               *)
LEMMA SuccessorsAre ==
    ASSUME NEW nodes, NEW edges \in SUBSET (nodes \X nodes), NEW y
    PROVE  \A z : z \in Successors(edges, y) <=> <<y, z>> \in edges
<1>1. \A e \in edges : e = <<e[1], e[2]>>
  OBVIOUS
<1> QED
  BY <1>1 DEF Successors

(* A ball does not leave the topology.                                     *)
LEMMA BallWithin ==
    ASSUME NEW nodes, NEW edges \in SUBSET (nodes \X nodes), NEW x \in nodes,
           NEW n \in Nat
    PROVE  Ball(edges, x, n) \subseteq nodes
<1> DEFINE S == {k \in Nat : Ball(edges, x, k) \subseteq nodes}
<1>1. 0 \in S
  BY BallIs
<1>2. ASSUME NEW k \in 0..(n - 1), k \in S PROVE k + 1 \in S
  <2>1. Ball(edges, x, k + 1) = Wider(edges, Ball(edges, x, k))
    <3>1. k \in Nat
      OBVIOUS
    <3>2. Widens(edges, x, k)
      BY ONLY <3>1, BallIs
    <3> QED
      BY <3>2 DEF Widens
  <2>2. ASSUME NEW y PROVE Successors(edges, y) \subseteq nodes
    <3> SUFFICES ASSUME NEW z \in Successors(edges, y) PROVE z \in nodes
      OBVIOUS
    <3>1. <<y, z>> \in edges
      BY SuccessorsAre
    <3>2. <<y, z>> \in nodes \X nodes
      BY <3>1
    <3> QED
      BY <3>2
  <2>3. Wider(edges, Ball(edges, x, k)) \subseteq nodes
    BY <1>2, <2>2 DEF Wider
  <2> QED
    BY <2>1, <2>3
<1> HIDE DEF S
<1>3. n \in S
  BY <1>1, <1>2, UpTo
<1> QED
  BY <1>3 DEF S

(* A ball widens.                                                           *)
LEMMA BallsWiden ==
    ASSUME NEW edges, NEW x, NEW n \in Nat, NEW m \in Nat, n <= m
    PROVE  Ball(edges, x, n) \subseteq Ball(edges, x, m)
<1> DEFINE S == {k \in Nat : Ball(edges, x, n) \subseteq Ball(edges, x, n + k)}
<1>1. 0 \in S
  OBVIOUS
<1>2. ASSUME NEW k \in 0..((m - n) - 1), k \in S PROVE k + 1 \in S
  <2>1. n + k \in Nat /\ n + (k + 1) = (n + k) + 1
    OBVIOUS
  <2>2. Ball(edges, x, (n + k) + 1) = Wider(edges, Ball(edges, x, n + k))
    <3>1. Widens(edges, x, n + k)
      BY <2>1, BallIs
    <3> QED
      BY <3>1 DEF Widens
  <2> QED
    BY <1>2, <2>1, <2>2 DEF Wider
<1> HIDE DEF S
<1>3. m - n \in S
  <2>1. m - n \in Nat /\ m - n \in 0..(m - n)
    OBVIOUS
  <2> QED
    BY <1>1, <1>2, <2>1, UpTo
<1> QED
  BY <1>3 DEF S

-----------------------------------------------------------------------------
(* Paths.                                                                  *)

(* A path without edges stays where it is.                                 *)
LEMMA PathOfNone ==
    ASSUME NEW nodes, NEW edges, NEW x \in nodes, NEW y
    PROVE  Paths(nodes, edges, x, y, 0) # {} <=> x = y
<1> DEFINE p == [k \in 0..0 |-> x]
<1>1. ASSUME x = y PROVE p \in Paths(nodes, edges, x, y, 0)
  BY <1>1 DEF Paths
<1>2. ASSUME NEW q \in Paths(nodes, edges, x, y, 0) PROVE x = y
  BY <1>2 DEF Paths
<1> HIDE DEF p
<1> QED
  BY <1>1, <1>2

(* A path is a shorter one and an edge.                                    *)
LEMMA PathExtends ==
    ASSUME NEW nodes, NEW edges \in SUBSET (nodes \X nodes), NEW x,
           NEW y, NEW n \in Nat
    PROVE  Paths(nodes, edges, x, y, n + 1) # {}
              <=> \E z \in nodes : /\ Paths(nodes, edges, x, z, n) # {}
                                  /\ <<z, y>> \in edges
<1>1. ASSUME NEW p \in Paths(nodes, edges, x, y, n + 1)
      PROVE  \E z \in nodes : /\ Paths(nodes, edges, x, z, n) # {}
                              /\ <<z, y>> \in edges
  <2> DEFINE q == [k \in 0..n |-> p[k]]
  <2>1. /\ p \in [0..(n + 1) -> nodes] /\ p[0] = x /\ p[n + 1] = y
        /\ \A k \in 1..(n + 1) : <<p[k - 1], p[k]>> \in edges
    BY DEF Paths
  <2>2. q \in [0..n -> nodes] /\ q[0] = x /\ q[n] = p[n] /\ p[n] \in nodes
    BY <2>1
  <2>3. \A k \in 1..n : k \in 1..(n + 1) /\ q[k] = p[k] /\ q[k - 1] = p[k - 1]
    OBVIOUS
  <2>4. \A k \in 1..n : <<q[k - 1], q[k]>> \in edges
    BY <2>1, <2>3
  <2>5. <<p[n], y>> \in edges
    <3>1. n + 1 \in 1..(n + 1) /\ (n + 1) - 1 = n
      OBVIOUS
    <3> QED
      BY <2>1, <3>1
  <2> HIDE DEF q
  <2>6. q \in Paths(nodes, edges, x, p[n], n)
    BY <2>2, <2>4 DEF Paths
  <2> QED
    BY <2>2, <2>5, <2>6
<1>2. ASSUME NEW z \in nodes, NEW q \in Paths(nodes, edges, x, z, n),
             <<z, y>> \in edges
      PROVE  Paths(nodes, edges, x, y, n + 1) # {}
  <2> DEFINE p == [k \in 0..(n + 1) |-> IF k = n + 1 THEN y ELSE q[k]]
  <2>1. /\ q \in [0..n -> nodes] /\ q[0] = x /\ q[n] = z
        /\ \A k \in 1..n : <<q[k - 1], q[k]>> \in edges
    BY DEF Paths
  <2>2. y \in nodes
    BY <1>2
  <2>3. /\ p[n + 1] = y
        /\ \A k \in 0..n : p[k] = q[k]
        /\ p \in [0..(n + 1) -> nodes]
    <3>1. \A k \in 0..(n + 1) : k # n + 1 => k \in 0..n
      OBVIOUS
    <3> QED
      BY <2>1, <2>2, <3>1
  <2> HIDE DEF p
  <2>4. ASSUME NEW k \in 1..(n + 1) PROVE <<p[k - 1], p[k]>> \in edges
    <3>1. CASE k = n + 1
      <4>1. k - 1 = n /\ n \in 0..n
        BY <3>1
      <4> QED
        BY <1>2, <2>1, <2>3, <3>1, <4>1
    <3>2. CASE k # n + 1
      <4>1. k \in 1..n /\ k \in 0..n /\ k - 1 \in 0..n
        BY <3>2
      <4> QED
        BY <2>1, <2>3, <4>1
    <3> QED
      BY <3>1, <3>2
  <2>5. p[0] = x
    BY <2>1, <2>3
  <2>6. p \in Paths(nodes, edges, x, y, n + 1)
    BY <2>3, <2>4, <2>5 DEF Paths
  <2> QED
    BY <2>6
<1> QED
  BY <1>1, <1>2

(* Paths and balls are two ways to say how far a node is.                   *)
LEMMA BallIsPaths ==
    ASSUME NEW nodes, NEW edges \in SUBSET (nodes \X nodes), NEW x \in nodes,
           NEW N \in Nat
    PROVE  \A y : y \in Ball(edges, x, N)
                     <=> \E n \in 0..N : Paths(nodes, edges, x, y, n) # {}
<1> DEFINE Reached(n) ==
        \A y : y \in Ball(edges, x, n)
                 <=> \E k \in 0..n : Paths(nodes, edges, x, y, k) # {}
           S == {n \in Nat : Reached(n)}
<1>1. 0 \in S
  BY BallIs, PathOfNone
<1>2. ASSUME NEW n \in 0..(N - 1), n \in S PROVE n + 1 \in S
  <2>1. Ball(edges, x, n + 1) = Wider(edges, Ball(edges, x, n)) /\ n \in Nat
    <3>1. n \in Nat
      OBVIOUS
    <3>2. Widens(edges, x, n)
      BY ONLY <3>1, BallIs
    <3> QED
      BY <3>1, <3>2 DEF Widens
  <2>2. ASSUME NEW y, y \in Ball(edges, x, n + 1)
        PROVE  \E k \in 0..(n + 1) : Paths(nodes, edges, x, y, k) # {}
    <3>1. CASE y \in Ball(edges, x, n)
      <4>1. PICK k \in 0..n : Paths(nodes, edges, x, y, k) # {}
        BY <1>2, <3>1
      <4> QED
        BY <4>1
    <3>2. CASE \E z \in Ball(edges, x, n) : y \in Successors(edges, z)
      <4>1. PICK z \in Ball(edges, x, n) : y \in Successors(edges, z)
        BY <3>2
      <4>2. PICK k \in 0..n : Paths(nodes, edges, x, z, k) # {}
        BY <1>2
      <4>3. z \in nodes /\ <<z, y>> \in edges
        BY <4>1, SuccessorsAre
      <4>4. Paths(nodes, edges, x, y, k + 1) # {}
        BY <4>2, <4>3, PathExtends
      <4>5. k + 1 \in 0..(n + 1)
        OBVIOUS
      <4> QED
        BY <4>4, <4>5
    <3> QED
      BY <2>1, <2>2, <3>1, <3>2 DEF Wider
  <2>3. ASSUME NEW y, NEW k \in 0..(n + 1), Paths(nodes, edges, x, y, k) # {}
        PROVE  y \in Ball(edges, x, n + 1)
    <3>1. CASE k \in 0..n
      <4>1. y \in Ball(edges, x, n)
        BY <1>2, <2>3, <3>1
      <4> QED
        BY <2>1, <4>1 DEF Wider
    <3>2. CASE k = n + 1
      <4>1. PICK z \in nodes : /\ Paths(nodes, edges, x, z, n) # {}
                               /\ <<z, y>> \in edges
        BY <2>1, <2>3, <3>2, PathExtends
      <4>2. n \in 0..n
        BY <2>1
      <4>3. z \in Ball(edges, x, n)
        BY <1>2, <4>1, <4>2
      <4>4. y \in Successors(edges, z)
        BY <4>1, SuccessorsAre
      <4> QED
        BY <2>1, <4>3, <4>4 DEF Wider
    <3> QED
      BY <3>1, <3>2
  <2> QED
    BY <2>2, <2>3
<1> HIDE DEF S
<1>3. N \in S
  BY <1>1, <1>2, UpTo
<1> QED
  BY <1>3 DEF S

-----------------------------------------------------------------------------
(* The distance.                                                           *)

(* The distance is the least radius of a ball that reaches the target.     *)
LEMMA DistanceIs ==
    ASSUME NEW nodes, IsFiniteSet(nodes), NEW edges, NEW x, NEW y,
           NEW d, d = TopologyDistance(nodes, edges, x, y)
    PROVE  \/ /\ d = NoPath
              /\ \A n \in 0..Cardinality(nodes) : y \notin Ball(edges, x, n)
           \/ /\ d \in 0..Cardinality(nodes)
              /\ y \in Ball(edges, x, d)
              /\ \A n \in 0..(d - 1) : y \notin Ball(edges, x, n)
<1> DEFINE reached == {n \in 0..Cardinality(nodes) : y \in Ball(edges, x, n)}
<1>1. Cardinality(nodes) \in Nat /\ reached \in SUBSET Nat
  BY FS_CardinalityType
<1>2. d = IF reached = {} THEN NoPath ELSE Min(reached)
  BY DEF TopologyDistance
<1>3. CASE reached = {}
  BY <1>2, <1>3
<1>4. CASE reached # {}
  <2> HIDE DEF reached
  <2>1. \E n \in reached : \A m \in reached : n <= m
    BY <1>1, <1>4, LeastExists
  <2>2. d \in reached /\ \A m \in reached : d <= m
    BY <1>2, <1>4, <2>1 DEF Min
  <2> USE DEF reached
  <2>3. \A n \in 0..(d - 1) : n \in 0..Cardinality(nodes) /\ ~(d <= n)
    BY <1>1, <2>2
  <2> QED
    BY <2>2, <2>3
<1> QED
  BY <1>3, <1>4

(* IncidentManager's search finds the length of a shortest path.            *)
LEMMA DistanceIsShortest ==
    ASSUME NEW nodes, IsFiniteSet(nodes), NEW edges \in SUBSET (nodes \X nodes),
           NEW x \in nodes, NEW y \in nodes
    PROVE  IsDistance(nodes, edges, x, y, TopologyDistance(nodes, edges, x, y))
<1> DEFINE N == Cardinality(nodes)
           Path(n) == Paths(nodes, edges, x, y, n)
<1>0. N \in Nat
  BY FS_CardinalityType
<1>1. PICK d : d = TopologyDistance(nodes, edges, x, y)
  OBVIOUS
<1>2. ASSUME NEW n \in Nat
      PROVE  y \in Ball(edges, x, n) <=> \E k \in 0..n : Path(k) # {}
  BY BallIsPaths
<1> HIDE DEF Path
<1>3. CASE d = NoPath /\ \A n \in 0..N : y \notin Ball(edges, x, n)
  <2>1. ASSUME NEW n \in 0..(N - 1) PROVE Path(n) = {}
    <3>1. n \in 0..N /\ n \in 0..n
      BY <1>0
    <3> QED
      BY <1>2, <1>3, <3>1
  <2> QED
    BY <1>1, <1>3, <2>1 DEF IsDistance, Path
<1>4. CASE /\ d \in 0..N
           /\ y \in Ball(edges, x, d)
           /\ \A n \in 0..(d - 1) : y \notin Ball(edges, x, n)
  <2>1. PICK k \in 0..d : Path(k) # {}
    BY <1>2, <1>4
  <2>2. ASSUME NEW n \in 0..(d - 1) PROVE Path(n) = {}
    <3>1. n \in 0..n /\ n \in Nat
      OBVIOUS
    <3> QED
      BY <1>2, <1>4, <3>1
  <2>3. k = d
    BY <1>4, <2>1, <2>2
  <2>4. d # NoPath
    BY <1>4 DEF NoPath
  <2>5. \A n \in 0..(N - 1) : n < d => n \in 0..(d - 1)
    BY <1>4
  <2> QED
    BY <1>1, <2>1, <2>2, <2>3, <2>4, <2>5 DEF IsDistance, Path
<1> QED
  BY <1>1, <1>3, <1>4, DistanceIs

(* A path read backwards is a path of the reversed edges.                   *)
LEMMA PathBackwards ==
    ASSUME NEW nodes, NEW edges, NEW back, NEW x, NEW y, NEW n \in Nat,
           \A u, v : <<u, v>> \in edges => <<v, u>> \in back,
           Paths(nodes, edges, x, y, n) # {}
    PROVE  Paths(nodes, back, y, x, n) # {}
<1>1. PICK p \in Paths(nodes, edges, x, y, n) : TRUE
  OBVIOUS
<1>2. /\ p \in [0..n -> nodes] /\ p[0] = x /\ p[n] = y
      /\ \A k \in 1..n : <<p[k - 1], p[k]>> \in edges
  BY <1>1 DEF Paths
<1> DEFINE q == [k \in 0..n |-> p[n - k]]
<1>3. q \in [0..n -> nodes] /\ \A k \in 0..n : q[k] = p[n - k]
  BY <1>2
<1> HIDE DEF q
<1>4. q[0] = y /\ q[n] = x
  BY <1>2, <1>3
<1>5. ASSUME NEW k \in 1..n PROVE <<q[k - 1], q[k]>> \in back
  <2>1. (n - k) + 1 \in 1..n /\ ((n - k) + 1) - 1 = n - k
    OBVIOUS
  <2>2. <<p[n - k], p[(n - k) + 1]>> \in edges
    BY <1>2, <2>1
  <2>3. q[k - 1] = p[(n - k) + 1] /\ q[k] = p[n - k]
    <3>1. k - 1 \in 0..n /\ k \in 0..n /\ n - (k - 1) = (n - k) + 1
      OBVIOUS
    <3> QED
      BY <1>3, <3>1
  <2> QED
    BY <2>2, <2>3
<1> QED
  BY <1>3, <1>4, <1>5 DEF Paths

(* A blast radius in reverse is the dependencies forward.                  *)
LEMMA BlastRadiusBothWays ==
    ASSUME NEW nodes, NEW edges \in SUBSET (nodes \X nodes)
    PROVE  BlastRadiusIsSymmetric(nodes, edges)
<1> DEFINE back == RelationGraph(edges, "reverse")
<1>1. RelationGraph(edges, "forward") = edges
  BY DEF RelationGraph
<1>2. \A u, v : <<u, v>> \in edges <=> <<v, u>> \in back
  <2>1. back = {<<e[2], e[1]>> : e \in edges}
    BY DEF RelationGraph
  <2>2. \A e \in edges : e = <<e[1], e[2]>>
    OBVIOUS
  <2> HIDE DEF back
  <2> QED
    BY <2>1, <2>2
<1>3. back \in SUBSET (nodes \X nodes)
  BY DEF RelationGraph
<1> HIDE DEF back
<1>4. ASSUME NEW x \in nodes, NEW y \in nodes, NEW n \in Nat
      PROVE  y \in Ball(back, x, n) <=> x \in Ball(edges, y, n)
  <2>1. \A k \in 0..n : Paths(nodes, back, x, y, k) # {}
                           <=> Paths(nodes, edges, y, x, k) # {}
    BY <1>2, PathBackwards
  <2> QED
    BY <1>3, <2>1, BallIsPaths
<1> QED
  BY <1>1, <1>4 DEF BlastRadiusIsSymmetric, GetNeighbors, MaxHops, back

-----------------------------------------------------------------------------
(* TopologyView's search.                                                  *)

(* A finite set in some order.                                              *)
LEMMA SetAsSeq ==
    ASSUME NEW S, IsFiniteSet(S)
    PROVE  /\ SetToSeq(S) \in Seq(S)
           /\ Len(SetToSeq(S)) = Cardinality(S)
           /\ \A x \in S : \E k \in 1..Len(SetToSeq(S)) : SetToSeq(S)[k] = x
<1> DEFINE N == Cardinality(S)
           f == SetToSeq(S)
<1>1. N \in Nat /\ ExistsBijection(1..N, S)
  BY FS_CardinalityType
<1>2. \E g \in [1..N -> S] : IsInjective(g)
  BY <1>1, Zenon DEF ExistsBijection, Bijection, Injection
<1>3. f \in [1..N -> S] /\ IsInjective(f)
  BY <1>2, Zenon DEF SetToSeq
<1> HIDE DEF f
<1>4. f \in Injection(1..N, S)
  BY <1>3, Zenon DEF Injection
<1>5. IsFiniteSet(1..N) /\ Cardinality(1..N) = N
  BY <1>1, FS_Interval
<1>6. f \in Surjection(1..N, S)
  BY <1>4, <1>5, FS_Injection
<1>7. \A x \in S : \E k \in 1..N : f[k] = x
  BY <1>6, Zenon DEF Surjection
<1>8. f \in Seq(S) /\ Len(f) = N
  BY <1>1, <1>3
<1> QED
  BY <1>7, <1>8 DEF f

(* The queue after a step: the first entry leaves, new ones come last.      *)
LEMMA QueueMoves ==
    ASSUME NEW E, NEW q \in Seq(E), q # << >>, NEW new \in Seq(E),
           NEW q2, q2 = Tail(q) \o new
    PROVE  /\ q2 \in Seq(E)
           /\ Len(q2) = (Len(q) - 1) + Len(new)
           /\ \A i \in 1..(Len(q) - 1) : q2[i] = q[i + 1]
           /\ \A i \in 1..Len(new) : q2[(Len(q) - 1) + i] = new[i]
<1>1. /\ Tail(q) \in Seq(E) /\ Len(Tail(q)) = Len(q) - 1
      /\ \A i \in 1..(Len(q) - 1) : Tail(q)[i] = q[i + 1]
      /\ Len(q) \in Nat \ {0} /\ Len(new) \in Nat
  OBVIOUS
<1> DEFINE t == Tail(q)
<1> HIDE DEF t
<1>2. /\ t \o new \in Seq(E)
      /\ Len(t \o new) = Len(t) + Len(new)
      /\ \A i \in 1..Len(t) : (t \o new)[i] = t[i]
      /\ \A i \in 1..Len(new) : (t \o new)[Len(t) + i] = new[i]
  BY <1>1 DEF t
<1> QED
  BY <1>1, <1>2 DEF t

QueueEntry(nodes) == [at : nodes, hops : Nat]

SearchState(nodes) ==
    [queue : Seq(QueueEntry(nodes)), visited : SUBSET nodes, answer : Int]

(* Every node that was seen is in the queue or has left it.                 *)
Bookkept(s, k) ==
    s.answer = NoPath /\ s.queue # << >> =>
        k + Len(s.queue) = Cardinality(s.visited)

(* What an answer says.                                                    *)
Found(edges, x, y, d) ==
    /\ d \in 1..MaxHops
    /\ y \in Ball(edges, x, d)
    /\ y \notin Ball(edges, x, d - 1)

(* The search is done with the nodes less than h edges away, and is at those *)
(* h edges away: they come before the ones that it found one edge further.  *)
AtLevel(edges, x, y, s, h) ==
    LET q == s.queue IN
    /\ \A i \in 1..Len(q) : q[i].hops \in {h, h + 1} /\ q[i].at \in s.visited
    /\ \A i, j \in 1..Len(q) : i < j => q[i].hops <= q[j].hops
    /\ Ball(edges, x, h) \subseteq s.visited
    /\ s.visited \subseteq Ball(edges, x, h + 1)
    /\ \A i \in 1..Len(q) : q[i].hops = h => q[i].at \in Ball(edges, x, h)
    /\ \A v \in s.visited \ Ball(edges, x, h) :
          \E i \in 1..Len(q) : q[i].at = v /\ q[i].hops = h + 1
    /\ \A v \in Ball(edges, x, h) :
          \/ \E i \in 1..Len(q) : q[i].at = v /\ q[i].hops = h
          \/ Successors(edges, v) \subseteq s.visited \ {y}
    /\ y \notin Ball(edges, x, h)

(* The search is beyond what it may expand.                                *)
Beyond(edges, x, y, s) ==
    /\ \A i \in 1..Len(s.queue) : s.queue[i].hops >= MaxHops
    /\ y \notin Ball(edges, x, MaxHops)

Searched(edges, x, y, s, k) ==
    /\ Bookkept(s, k)
    /\ s.answer # NoPath => Found(edges, x, y, s.answer)
    /\ s.answer = NoPath =>
          \/ \E h \in 0..(MaxHops - 1) : AtLevel(edges, x, y, s, h)
          \/ Beyond(edges, x, y, s)

(* Once no entry of a level is left, the next level is complete.            *)
LEMMA LevelDone ==
    ASSUME NEW nodes, NEW edges \in SUBSET (nodes \X nodes), NEW x, NEW y,
           NEW s \in SearchState(nodes), NEW h \in Nat,
           AtLevel(edges, x, y, s, h),
           \A i \in 1..Len(s.queue) : s.queue[i].hops # h
    PROVE  AtLevel(edges, x, y, s, h + 1)
<1> DEFINE q == s.queue
<1>1. Ball(edges, x, h + 1) = Wider(edges, Ball(edges, x, h))
  <2>1. Widens(edges, x, h)
    BY BallIs
  <2> QED
    BY <2>1 DEF Widens
<1>2. /\ \A v \in Ball(edges, x, h) :
            \/ \E i \in 1..Len(q) : q[i].at = v /\ q[i].hops = h
            \/ Successors(edges, v) \subseteq s.visited \ {y}
      /\ Ball(edges, x, h) \subseteq s.visited
      /\ s.visited \subseteq Ball(edges, x, h + 1)
      /\ y \notin Ball(edges, x, h)
  BY DEF AtLevel
<1>a. \A v \in Ball(edges, x, h) : Successors(edges, v) \subseteq s.visited \ {y}
  BY <1>2
<1>3. s.visited = Ball(edges, x, h + 1) /\ y \notin Ball(edges, x, h + 1)
  BY <1>1, <1>2, <1>a DEF Wider
<1>4. s.visited \subseteq Ball(edges, x, (h + 1) + 1)
  <2>1. h + 1 \in Nat
    OBVIOUS
  <2>2. Ball(edges, x, (h + 1) + 1) = Wider(edges, Ball(edges, x, h + 1))
    <3>1. Widens(edges, x, h + 1)
      BY <2>1, BallIs
    <3> QED
      BY <3>1 DEF Widens
  <2> QED
    BY <1>3, <2>2 DEF Wider
<1>5. \A i \in 1..Len(q) : q[i].hops = h + 1 /\ q[i].at \in s.visited
  BY DEF AtLevel
<1>6. ASSUME NEW v \in Ball(edges, x, h + 1)
      PROVE  \/ \E i \in 1..Len(q) : q[i].at = v /\ q[i].hops = h + 1
             \/ Successors(edges, v) \subseteq s.visited \ {y}
  <2>1. CASE v \in Ball(edges, x, h)
    BY <1>a, <2>1
  <2>2. CASE v \notin Ball(edges, x, h)
    BY <1>3, <2>2 DEF AtLevel
  <2> QED
    BY <2>1, <2>2
<1>7. \A i, j \in 1..Len(q) : i < j => q[i].hops <= q[j].hops
  BY DEF AtLevel
<1>8. \A i \in 1..Len(q) : q[i].hops \in {h + 1, (h + 1) + 1}
  BY <1>5
<1> QED
  BY <1>3, <1>4, <1>5, <1>6, <1>7, <1>8 DEF AtLevel

(* What one expansion does to the queue, the visited nodes and the answer.  *)
Dequeued(s, s2) ==
    \A i \in 1..(Len(s.queue) - 1) : s2.queue[i] = s.queue[i + 1]

Dropped(s, s2) ==
    /\ s.queue[1].hops >= MaxHops
    /\ s2.visited = s.visited /\ s2.answer = NoPath
    /\ Len(s2.queue) = Len(s.queue) - 1
    /\ Dequeued(s, s2)

Answered(edges, y, s, s2) ==
    /\ s.queue[1].hops < MaxHops
    /\ y \in Successors(edges, s.queue[1].at)
    /\ s2.answer = s.queue[1].hops + 1

Expanded(edges, y, s, s2) ==
    LET next == Successors(edges, s.queue[1].at) IN
    /\ s.queue[1].hops < MaxHops
    /\ y \notin next
    /\ s2.answer = NoPath
    /\ s2.visited = s.visited \cup next
    /\ Len(s2.queue) = (Len(s.queue) - 1) + Cardinality(next \ s.visited)
    /\ Dequeued(s, s2)
    /\ \A v \in next \ s.visited : \E i \in Len(s.queue)..Len(s2.queue) :
          s2.queue[i].at = v
    /\ \A i \in Len(s.queue)..Len(s2.queue) :
          s2.queue[i].at \in next /\ s2.queue[i].hops = s.queue[1].hops + 1

(* What a step of the search with the queue does.                          *)
LEMMA ExpandIs ==
    ASSUME NEW nodes, IsFiniteSet(nodes), NEW edges \in SUBSET (nodes \X nodes),
           NEW y, NEW s \in SearchState(nodes),
           s.queue # << >>, s.answer = NoPath,
           NEW s2, s2 = Expand(edges, y, s)
    PROVE  /\ s2 \in SearchState(nodes)
           /\ \/ Dropped(s, s2)
              \/ Answered(edges, y, s, s2)
              \/ Expanded(edges, y, s, s2)
<1> DEFINE q == s.queue
           head == q[1]
           next == Successors(edges, head.at)
           new == SetToSeq(next \ s.visited)
           entries == [k \in DOMAIN new |->
                          [at |-> new[k], hops |-> head.hops + 1]]
<1>1. /\ q \in Seq(QueueEntry(nodes)) /\ s.visited \in SUBSET nodes
      /\ s.answer \in Int /\ s.queue = q
      /\ s = [queue |-> q, visited |-> s.visited, answer |-> s.answer]
  BY DEF SearchState
<1>2. Len(q) \in Nat \ {0} /\ Head(q) = head /\ head \in QueueEntry(nodes)
  <2>1. q # << >>
    OBVIOUS
  <2> HIDE DEF q
  <2> QED
    BY <1>1, <2>1
<1>3. head.hops \in Nat /\ next \subseteq nodes
  <2>1. head.hops \in Nat
    BY <1>2 DEF QueueEntry
  <2>2. ASSUME NEW z \in next PROVE z \in nodes
    <3>1. <<head.at, z>> \in edges
      BY ONLY z \in next, edges \in SUBSET (nodes \X nodes), SuccessorsAre
    <3> HIDE DEF head
    <3>2. <<head.at, z>> \in nodes \X nodes
      BY <3>1
    <3> QED
      BY <3>2
  <2> QED
    BY <2>1, <2>2
<1>4. s2 = IF head.hops >= MaxHops THEN [s EXCEPT !.queue = Tail(q)]
           ELSE IF y \in next THEN [s EXCEPT !.answer = head.hops + 1]
           ELSE [s EXCEPT !.visited = s.visited \cup next,
                          !.queue = Tail(q) \o entries]
  BY <1>2, Zenon DEF Expand
<1>5. /\ IsFiniteSet(next \ s.visited)
      /\ new \in Seq(next \ s.visited)
      /\ Len(new) = Cardinality(next \ s.visited)
      /\ \A v \in next \ s.visited : \E k \in 1..Len(new) : new[k] = v
  <2>1. IsFiniteSet(next \ s.visited)
    BY <1>3, FS_Subset
  <2> HIDE DEF next
  <2> QED
    BY <2>1, SetAsSeq
<1> HIDE DEF new
<1>6. /\ entries \in Seq(QueueEntry(nodes))
      /\ Len(entries) = Len(new)
      /\ \A k \in 1..Len(new) : /\ entries[k].at = new[k]
                                /\ entries[k].hops = head.hops + 1
                                /\ new[k] \in next
  <2>1. DOMAIN new = 1..Len(new) /\ Len(new) \in Nat
    BY <1>5
  <2>2. \A k \in 1..Len(new) : new[k] \in next
    BY <1>5, ElementOfSeq
  <2> HIDE DEF next, head
  <2>3. entries \in [1..Len(new) -> QueueEntry(nodes)]
    BY <1>3, <2>1, <2>2 DEF QueueEntry
  <2> QED
    BY <2>1, <2>2, <2>3
<1> HIDE DEF entries
<1>7. CASE head.hops >= MaxHops
  <2>1. s2 = [queue |-> Tail(q), visited |-> s.visited, answer |-> s.answer]
    BY <1>1, <1>4, <1>7
  <2>2. /\ Tail(q) \in Seq(QueueEntry(nodes)) /\ Len(Tail(q)) = Len(q) - 1
        /\ \A i \in 1..(Len(q) - 1) : Tail(q)[i] = q[i + 1]
    <3> HIDE DEF q
    <3> QED
      BY <1>1, <1>2
  <2>3. Dropped(s, s2)
    BY <1>7, <2>1, <2>2 DEF Dropped, Dequeued
  <2> QED
    BY <1>1, <2>1, <2>2, <2>3 DEF SearchState
<1>8. CASE ~(head.hops >= MaxHops) /\ y \in next
  <2>1. s2 = [queue |-> q, visited |-> s.visited, answer |-> head.hops + 1]
    BY <1>1, <1>4, <1>8
  <2>2. head.hops < MaxHops /\ head.hops + 1 \in Int
    BY <1>3, <1>8 DEF MaxHops
  <2>3. Answered(edges, y, s, s2)
    BY <1>8, <2>1, <2>2 DEF Answered
  <2> QED
    BY <1>1, <2>1, <2>2, <2>3 DEF SearchState
<1>9. CASE ~(head.hops >= MaxHops) /\ y \notin next
  <2>1. s2 = [queue |-> Tail(q) \o entries, visited |-> s.visited \cup next,
              answer |-> s.answer]
    BY <1>1, <1>4, <1>9
  <2>2. head.hops < MaxHops
    BY <1>3, <1>9 DEF MaxHops
  <2>3. PICK q2 : q2 = Tail(q) \o entries
    OBVIOUS
  <2>4. /\ q2 \in Seq(QueueEntry(nodes))
        /\ Len(q2) = (Len(q) - 1) + Len(new)
        /\ \A i \in 1..(Len(q) - 1) : q2[i] = q[i + 1]
        /\ \A i \in 1..Len(new) : q2[(Len(q) - 1) + i] = entries[i]
    <3>1. q # << >>
      OBVIOUS
    <3> HIDE DEF q
    <3>2. q \in Seq(QueueEntry(nodes)) /\ entries \in Seq(QueueEntry(nodes))
      BY <1>1, <1>6
    <3>3. /\ Len(q2) = (Len(q) - 1) + Len(entries)
          /\ q2 \in Seq(QueueEntry(nodes))
          /\ \A i \in 1..(Len(q) - 1) : q2[i] = q[i + 1]
          /\ \A i \in 1..Len(entries) : q2[(Len(q) - 1) + i] = entries[i]
      BY ONLY <2>3, <3>1, <3>2, QueueMoves
    <3> QED
      BY <1>6, <3>3
  <2>5. s2.queue = q2 /\ s2.visited = s.visited \cup next /\ s2.answer = NoPath
    BY <2>1, <2>3
  <2>6. ASSUME NEW i \in Len(q)..Len(q2)
        PROVE  q2[i].at \in next /\ q2[i].hops = head.hops + 1
    <3>1. Len(new) \in Nat
      BY <1>5
    <3>2. i - (Len(q) - 1) \in 1..Len(new) /\ (Len(q) - 1) + (i - (Len(q) - 1)) = i
      <4> DEFINE L == Len(q)
                 M == Len(q2)
      <4>1. L \in Nat \ {0} /\ M = (L - 1) + Len(new) /\ i \in L..M
        BY <1>2, <2>4
      <4> HIDE DEF L, M
      <4>2. i - (L - 1) \in 1..Len(new) /\ (L - 1) + (i - (L - 1)) = i
        BY ONLY <3>1, <4>1
      <4> QED
        BY <4>2 DEF L
    <3>3. q2[i] = entries[i - (Len(q) - 1)]
      BY <2>4, <3>2
    <3> QED
      BY <1>6, <3>2, <3>3
  <2>7. ASSUME NEW v \in next \ s.visited
        PROVE  \E i \in Len(q)..Len(q2) : q2[i].at = v
    <3>1. PICK k \in 1..Len(new) : new[k] = v
      BY <1>5
    <3>2. Len(new) \in Nat
      BY <1>5
    <3>3. (Len(q) - 1) + k \in Len(q)..Len(q2)
      BY <1>2, <2>4, <3>2
    <3>4. q2[(Len(q) - 1) + k].at = v
      BY <1>6, <2>4, <3>1
    <3> QED
      BY <3>3, <3>4
  <2>8. Expanded(edges, y, s, s2)
    BY <1>5, <1>9, <2>2, <2>4, <2>5, <2>6, <2>7 DEF Expanded, Dequeued
  <2>9. s2 \in SearchState(nodes)
    BY <1>1, <1>3, <2>1, <2>3, <2>4 DEF SearchState
  <2> QED
    BY <2>8, <2>9
<1> QED
  BY <1>7, <1>8, <1>9

(* An expansion at a level stays at that level.                             *)
LEMMA LevelExpands ==
    ASSUME NEW nodes, IsFiniteSet(nodes), NEW edges \in SUBSET (nodes \X nodes),
           NEW x, NEW y,
           NEW s \in SearchState(nodes), s.queue # << >>,
           NEW s2 \in SearchState(nodes), NEW h \in Nat,
           AtLevel(edges, x, y, s, h), s.queue[1].hops = h,
           Expanded(edges, y, s, s2)
    PROVE  AtLevel(edges, x, y, s2, h)
<1> DEFINE q == s.queue
           q2 == s2.queue
           L == Len(q)
           M == Len(q2)
           v0 == q[1].at
           next == Successors(edges, v0)
<1>1. /\ q \in Seq(QueueEntry(nodes)) /\ q2 \in Seq(QueueEntry(nodes))
      /\ s.visited \in SUBSET nodes
  BY DEF SearchState
<1>2. /\ y \notin next
      /\ s2.visited = s.visited \cup next
      /\ M = (L - 1) + Cardinality(next \ s.visited)
      /\ \A i \in 1..(L - 1) : q2[i] = q[i + 1]
      /\ \A v \in next \ s.visited : \E i \in L..M : q2[i].at = v
      /\ \A i \in L..M : q2[i].at \in next /\ q2[i].hops = h + 1
  BY DEF Expanded, Dequeued
<1>3. next \subseteq nodes
  <2> SUFFICES ASSUME NEW z \in next PROVE z \in nodes
    OBVIOUS
  <2>1. <<v0, z>> \in edges
    BY ONLY z \in next, edges \in SUBSET (nodes \X nodes), SuccessorsAre
  <2> HIDE DEF v0
  <2>2. <<v0, z>> \in nodes \X nodes
    BY <2>1
  <2> QED
    BY <2>2
<1>4. /\ \A i \in 1..L : q[i].hops \in {h, h + 1} /\ q[i].at \in s.visited
      /\ \A i, j \in 1..L : i < j => q[i].hops <= q[j].hops
      /\ Ball(edges, x, h) \subseteq s.visited
      /\ s.visited \subseteq Ball(edges, x, h + 1)
      /\ \A i \in 1..L : q[i].hops = h => q[i].at \in Ball(edges, x, h)
      /\ \A v \in s.visited \ Ball(edges, x, h) :
            \E i \in 1..L : q[i].at = v /\ q[i].hops = h + 1
      /\ \A v \in Ball(edges, x, h) :
            \/ \E i \in 1..L : q[i].at = v /\ q[i].hops = h
            \/ Successors(edges, v) \subseteq s.visited \ {y}
      /\ y \notin Ball(edges, x, h)
  BY DEF AtLevel
<1>5. /\ L \in Nat \ {0} /\ M \in Nat /\ L - 1 <= M
  <2>1. q # << >>
    OBVIOUS
  <2>2. IsFiniteSet(next \ s.visited)
    BY <1>3, FS_Subset
  <2>3. Cardinality(next \ s.visited) \in Nat
    BY <2>2, FS_CardinalityType
  <2> HIDE DEF q, next
  <2>4. L \in Nat \ {0}
    BY <1>1, <2>1
  <2> HIDE DEF L, M
  <2> QED
    BY <1>2, <2>3, <2>4
<1>6. q[1].hops = h
  OBVIOUS
<1>7. next \subseteq Ball(edges, x, h + 1)
  <2>1. Ball(edges, x, h + 1) = Wider(edges, Ball(edges, x, h))
    <3>1. Widens(edges, x, h)
      BY BallIs
    <3> QED
      BY <3>1 DEF Widens
  <2>2. v0 \in Ball(edges, x, h)
    BY <1>4, <1>5, <1>6
  <2> QED
    BY <2>1, <2>2 DEF Wider
<1>8. Successors(edges, v0) = next
  OBVIOUS
<1>9. v0 = q[1].at
  OBVIOUS
<1> HIDE DEF q, q2, L, M, v0, next
<1>10. \A i \in 1..M : i \in L..M \/ (i \in 1..(L - 1) /\ i + 1 \in 1..L)
  BY <1>5
<1>11. \A i \in 1..L : i = 1 \/ (i - 1 \in 1..(L - 1) /\ i - 1 \in 1..M
                                  /\ (i - 1) + 1 = i)
  BY <1>5
<1>12. \A i \in L..M : i \in 1..M
  BY <1>5
<1>13. \A i \in 1..L : i = 1 \/ (i - 1 \in 1..M /\ q2[i - 1] = q[i])
  BY <1>2, <1>11
<1>a. \A i \in 1..M : \/ (q2[i].at \in next /\ q2[i].hops = h + 1)
                       \/ (i + 1 \in 1..L /\ q2[i] = q[i + 1])
  BY ONLY <1>2, <1>10
<1>14. \A i \in 1..M : q2[i].hops \in {h, h + 1} /\ q2[i].at \in s2.visited
  <2> SUFFICES ASSUME NEW i \in 1..M
               PROVE  q2[i].hops \in {h, h + 1} /\ q2[i].at \in s2.visited
    OBVIOUS
  <2>1. CASE q2[i].at \in next /\ q2[i].hops = h + 1
    BY <1>2, <2>1
  <2>2. CASE i + 1 \in 1..L /\ q2[i] = q[i + 1]
    <3>1. q[i + 1].hops \in {h, h + 1} /\ q[i + 1].at \in s.visited
      BY <1>4, <2>2
    <3> QED
      BY <1>2, <2>2, <3>1
  <2> QED
    BY <1>a, <2>1, <2>2
<1>15. ASSUME NEW i \in 1..M, NEW j \in 1..M, i < j
       PROVE  q2[i].hops <= q2[j].hops
  <2>1. CASE j \in L..M
    <3>1. q2[j].hops = h + 1 /\ q2[i].hops \in {h, h + 1}
      BY <1>2, <1>14, <2>1
    <3> QED
      BY <3>1
  <2>2. CASE j \notin L..M
    <3>1. /\ j \in 1..(L - 1) /\ j + 1 \in 1..L
          /\ i \in 1..(L - 1) /\ i + 1 \in 1..L /\ i + 1 < j + 1
      BY <1>5, <1>10, <1>15, <2>2
    <3> QED
      BY <1>2, <1>4, <3>1
  <2> QED
    BY <2>1, <2>2
<1>16. ASSUME NEW i \in 1..M, q2[i].hops = h
       PROVE  q2[i].at \in Ball(edges, x, h)
  <2>1. i + 1 \in 1..L /\ q2[i] = q[i + 1]
    <3>1. h # h + 1
      OBVIOUS
    <3> QED
      BY ONLY <1>a, <1>16, <3>1
  <2>2. q[i + 1].hops = h => q[i + 1].at \in Ball(edges, x, h)
    BY <1>4, <2>1
  <2> QED
    BY <1>16, <2>1, <2>2
<1>17. ASSUME NEW v \in s2.visited \ Ball(edges, x, h)
       PROVE  \E i \in 1..M : q2[i].at = v /\ q2[i].hops = h + 1
  <2>1. CASE v \in s.visited
    <3>1. PICK i \in 1..L : q[i].at = v /\ q[i].hops = h + 1
      BY <1>4, <2>1
    <3>2. i # 1
      BY <1>6, <3>1
    <3> QED
      BY <1>13, <3>1, <3>2
  <2>2. CASE v \in next \ s.visited
    BY <1>2, <1>12, <2>2
  <2> QED
    BY <1>2, <2>1, <2>2
<1>18. ASSUME NEW v \in Ball(edges, x, h)
       PROVE  \/ \E i \in 1..M : q2[i].at = v /\ q2[i].hops = h
              \/ Successors(edges, v) \subseteq s2.visited \ {y}
  <2>1. CASE \E i \in 1..L : q[i].at = v /\ q[i].hops = h
    <3>1. PICK i \in 1..L : q[i].at = v /\ q[i].hops = h
      BY <2>1
    <3>2. CASE i = 1
      BY <1>2, <1>8, <1>9, <3>1, <3>2
    <3>3. CASE i # 1
      BY <1>13, <3>1, <3>3
    <3> QED
      BY <3>2, <3>3
  <2>2. CASE Successors(edges, v) \subseteq s.visited \ {y}
    BY <1>2, <2>2
  <2> QED
    BY <1>4, <2>1, <2>2
<1>19. Ball(edges, x, h) \subseteq s2.visited
  BY <1>2, <1>4
<1>20. s2.visited \subseteq Ball(edges, x, h + 1)
  BY <1>2, <1>4, <1>7
<1> QED
  BY <1>4, <1>14, <1>15, <1>16, <1>17, <1>18, <1>19, <1>20 DEF AtLevel, q2, M

(* The next entry is of the level that the search is at, or beyond what it  *)
(* may expand.                                                             *)
LEMMA HeadIsAtLevel ==
    ASSUME NEW nodes, NEW edges \in SUBSET (nodes \X nodes), NEW x, NEW y,
           NEW s \in SearchState(nodes), s.queue # << >>, s.answer = NoPath,
           NEW k, Searched(edges, x, y, s, k)
    PROVE  \/ \E h \in 0..(MaxHops - 1) :
                 /\ AtLevel(edges, x, y, s, h)
                 /\ s.queue[1].hops = h
           \/ Beyond(edges, x, y, s)
<1>1. CASE Beyond(edges, x, y, s)
  BY <1>1
<1>2. CASE \E h \in 0..(MaxHops - 1) : AtLevel(edges, x, y, s, h)
  <2>1. PICK h \in 0..(MaxHops - 1) : AtLevel(edges, x, y, s, h)
    BY <1>2
  <2>2. h \in Nat /\ h + 1 \in Nat /\ h + 1 \in 0..MaxHops
    BY DEF MaxHops
  <2>3. Len(s.queue) \in Nat \ {0}
    <3>1. s.queue \in Seq(QueueEntry(nodes)) /\ s.queue # << >>
      BY DEF SearchState
    <3> QED
      BY ONLY <3>1
  <2>4. /\ \A i \in 1..Len(s.queue) : s.queue[i].hops \in {h, h + 1}
        /\ \A i, j \in 1..Len(s.queue) :
              i < j => s.queue[i].hops <= s.queue[j].hops
    BY <2>1 DEF AtLevel
  <2>5. CASE s.queue[1].hops = h
    BY <2>1, <2>5
  <2>6. CASE s.queue[1].hops # h
    <3>1. s.queue[1].hops = h + 1
      BY <2>3, <2>4, <2>6
    <3>2. ASSUME NEW i \in 1..Len(s.queue) PROVE s.queue[i].hops # h
      <4>1. i = 1 \/ 1 < i
        OBVIOUS
      <4>2. 1 < i => h + 1 <= s.queue[i].hops
        BY <2>3, <2>4, <3>1
      <4> QED
        BY <2>2, <2>6, <4>1, <4>2
    <3>3. AtLevel(edges, x, y, s, h + 1)
      BY <2>1, <2>2, <3>2, LevelDone
    <3>4. CASE h + 1 \in 0..(MaxHops - 1)
      BY <3>1, <3>3, <3>4
    <3>5. CASE h + 1 = MaxHops
      <4>1. \A i \in 1..Len(s.queue) : s.queue[i].hops \in {MaxHops, MaxHops + 1}
        BY <3>3, <3>5 DEF AtLevel
      <4>2. y \notin Ball(edges, x, MaxHops)
        BY <3>3, <3>5 DEF AtLevel
      <4>3. \A i \in 1..Len(s.queue) : s.queue[i].hops >= MaxHops
        BY <4>1 DEF MaxHops
      <4> QED
        BY <4>2, <4>3 DEF Beyond
    <3> QED
      BY <2>2, <3>4, <3>5 DEF MaxHops
  <2> QED
    BY <2>5, <2>6
<1> QED
  BY <1>1, <1>2 DEF Searched

(* One step keeps the search's promise.                                     *)
LEMMA SearchSteps ==
    ASSUME NEW nodes, IsFiniteSet(nodes), NEW edges \in SUBSET (nodes \X nodes),
           NEW x, NEW y, NEW s \in SearchState(nodes),
           s.queue # << >>, s.answer = NoPath,
           NEW k \in Nat, Searched(edges, x, y, s, k),
           NEW s2, s2 = Expand(edges, y, s)
    PROVE  s2 \in SearchState(nodes) /\ Searched(edges, x, y, s2, k + 1)
<1>1. s2 \in SearchState(nodes)
  BY ExpandIs
<1>2. \/ Dropped(s, s2)
      \/ Answered(edges, y, s, s2)
      \/ Expanded(edges, y, s, s2)
  BY ExpandIs
<1>3. /\ s.queue \in Seq(QueueEntry(nodes)) /\ s.queue # << >>
      /\ s2.queue \in Seq(QueueEntry(nodes))
      /\ s.visited \in SUBSET nodes
  BY <1>1 DEF SearchState
<1>4. Len(s.queue) \in Nat \ {0} /\ Len(s2.queue) \in Nat
  BY ONLY <1>3
<1>5. k + Len(s.queue) = Cardinality(s.visited)
  BY DEF Searched, Bookkept
<1>6. s.queue[1] \in QueueEntry(nodes)
  BY <1>3, <1>4, ElementOfSeq
<1>7. s.queue[1].hops \in Nat
  BY <1>6 DEF QueueEntry
<1>8. CASE Beyond(edges, x, y, s)
  <2>1. s.queue[1].hops >= MaxHops
    BY <1>4, <1>8 DEF Beyond
  <2>2. Dropped(s, s2)
    BY <1>2, <1>7, <2>1 DEF Answered, Expanded, MaxHops
  <2>3. /\ s2.visited = s.visited /\ s2.answer = NoPath
        /\ Len(s2.queue) = Len(s.queue) - 1
        /\ \A i \in 1..(Len(s.queue) - 1) : s2.queue[i] = s.queue[i + 1]
    BY <2>2 DEF Dropped, Dequeued
  <2>4. Bookkept(s2, k + 1)
    <3> DEFINE L == Len(s.queue)
               M == Len(s2.queue)
               C == Cardinality(s.visited)
    <3>1. k + L = C /\ M = L - 1 /\ L \in Nat \ {0} /\ M \in Nat
      BY <1>4, <1>5, <2>3
    <3> HIDE DEF L, M, C
    <3>2. (k + 1) + M = C
      BY ONLY <3>1, k \in Nat
    <3> QED
      BY <2>3, <3>2 DEF Bookkept, L, M, C
  <2>5. \A i \in 1..Len(s2.queue) : s2.queue[i].hops >= MaxHops
    <3>1. \A i \in 1..Len(s2.queue) : /\ s2.queue[i] = s.queue[i + 1]
                                      /\ i + 1 \in 1..Len(s.queue)
      BY <1>4, <2>3
    <3> QED
      BY <1>8, <3>1 DEF Beyond
  <2>6. Beyond(edges, x, y, s2)
    BY <1>8, <2>5 DEF Beyond
  <2> QED
    BY <1>1, <2>3, <2>4, <2>6 DEF Searched
<1>9. CASE \E h \in 0..(MaxHops - 1) : /\ AtLevel(edges, x, y, s, h)
                                       /\ s.queue[1].hops = h
  <2>1. PICK h \in 0..(MaxHops - 1) : /\ AtLevel(edges, x, y, s, h)
                                      /\ s.queue[1].hops = h
    BY <1>9
  <2>2. h \in Nat /\ h < MaxHops /\ h + 1 \in 1..MaxHops /\ (h + 1) - 1 = h
    BY DEF MaxHops
  <2>3. CASE Dropped(s, s2)
    BY <2>1, <2>2, <2>3 DEF Dropped, MaxHops
  <2>4. CASE Answered(edges, y, s, s2)
    <3>1. y \in Successors(edges, s.queue[1].at) /\ s2.answer = h + 1
      BY <2>1, <2>4 DEF Answered
    <3>2. s.queue[1].at \in Ball(edges, x, h) /\ y \notin Ball(edges, x, h)
      BY <1>4, <2>1 DEF AtLevel
    <3>3. Ball(edges, x, h + 1) = Wider(edges, Ball(edges, x, h))
      <4>1. Widens(edges, x, h)
        BY <2>2, BallIs
      <4> QED
        BY <4>1 DEF Widens
    <3>4. y \in Ball(edges, x, h + 1)
      BY <3>1, <3>2, <3>3 DEF Wider
    <3>5. Found(edges, x, y, s2.answer)
      BY <2>2, <3>1, <3>2, <3>4 DEF Found
    <3>6. s2.answer # NoPath
      BY <2>2, <3>1 DEF NoPath
    <3> QED
      BY <1>1, <3>5, <3>6 DEF Searched, Bookkept
  <2>5. CASE Expanded(edges, y, s, s2)
    <3> DEFINE next == Successors(edges, s.queue[1].at)
    <3>1. AtLevel(edges, x, y, s2, h)
      BY <1>1, <2>1, <2>2, <2>5, LevelExpands
    <3>2. /\ s2.answer = NoPath /\ s2.visited = s.visited \cup next
          /\ Len(s2.queue) = (Len(s.queue) - 1) + Cardinality(next \ s.visited)
      BY <2>5 DEF Expanded
    <3>3. /\ IsFiniteSet(s.visited) /\ IsFiniteSet(next \ s.visited)
      <4>1. s2.visited \in SUBSET nodes
        BY <1>1 DEF SearchState
      <4>2. next \ s.visited \subseteq nodes
        BY <3>2, <4>1
      <4> QED
        BY <1>3, <4>2, FS_Subset
    <3> HIDE DEF next
    <3>4. Cardinality(s2.visited)
             = Cardinality(s.visited) + Cardinality(next \ s.visited)
      <4>1. s2.visited = s.visited \cup (next \ s.visited)
        BY <3>2
      <4>2. s.visited \cap (next \ s.visited) = {}
        OBVIOUS
      <4> DEFINE more == next \ s.visited
                 old == s.visited
      <4>3. /\ IsFiniteSet(old) /\ IsFiniteSet(more)
            /\ old \cap more = {} /\ s2.visited = old \cup more
        BY <3>3, <4>1, <4>2
      <4> HIDE DEF more, old
      <4>4. Cardinality(old \cup more)
               = Cardinality(old) + Cardinality(more) - Cardinality(old \cap more)
        BY ONLY <4>3, FS_Union
      <4>5. /\ Cardinality(old \cap more) = 0
            /\ Cardinality(old) \in Nat /\ Cardinality(more) \in Nat
        BY ONLY <4>3, FS_EmptySet, FS_CardinalityType
      <4>6. Cardinality(s2.visited) = Cardinality(old) + Cardinality(more)
        BY ONLY <4>3, <4>4, <4>5
      <4> QED
        BY <4>6 DEF more, old
    <3>5. /\ Cardinality(s.visited) \in Nat
          /\ Cardinality(next \ s.visited) \in Nat
      BY <3>3, FS_CardinalityType
    <3>6. Bookkept(s2, k + 1)
      <4> DEFINE L == Len(s.queue)
                 M == Len(s2.queue)
                 C == Cardinality(s.visited)
                 C2 == Cardinality(s2.visited)
                 new == Cardinality(next \ s.visited)
      <4>1. /\ k + L = C /\ M = (L - 1) + new /\ C2 = C + new
            /\ L \in Nat \ {0} /\ M \in Nat /\ C \in Nat /\ new \in Nat
        BY <1>4, <1>5, <3>2, <3>4, <3>5
      <4> HIDE DEF L, M, C, C2, new
      <4>2. (k + 1) + M = C2
        BY ONLY <4>1, k \in Nat
      <4> QED
        BY <4>2 DEF Bookkept, M, C2
    <3> QED
      BY <1>1, <3>1, <3>2, <3>6 DEF Searched
  <2> QED
    BY <1>2, <2>3, <2>4, <2>5
<1> QED
  BY <1>8, <1>9, HeadIsAtLevel

(* The search starts at distance 0.                                        *)
LEMMA SearchStarts ==
    ASSUME NEW nodes, IsFiniteSet(nodes), NEW edges \in SUBSET (nodes \X nodes),
           NEW x \in nodes, NEW y, x # y, NEW s, s = Search(x)
    PROVE  s \in SearchState(nodes) /\ Searched(edges, x, y, s, 0)
<1>1. PICK e : e = [at |-> x, hops |-> 0]
  OBVIOUS
<1>2. /\ s = [queue |-> <<e>>, visited |-> {x}, answer |-> NoPath]
      /\ e.at = x /\ e.hops = 0 /\ e \in QueueEntry(nodes)
  BY <1>1 DEF Search, QueueEntry
<1>3. /\ <<e>> \in Seq(QueueEntry(nodes)) /\ Len(<<e>>) = 1
      /\ \A i \in 1..1 : <<e>>[i] = e
  BY <1>2
<1>4. s \in SearchState(nodes)
  BY <1>2, <1>3 DEF SearchState, NoPath
<1>5. /\ Len(s.queue) = 1 /\ \A i \in 1..1 : s.queue[i] = e
      /\ s.visited = {x} /\ s.answer = NoPath
  BY <1>2, <1>3
<1>6. Cardinality(s.visited) = 1
  BY <1>5, FS_Singleton
<1>7. Bookkept(s, 0)
  BY <1>5, <1>6 DEF Bookkept
<1>8. Ball(edges, x, 0) = {x} /\ Ball(edges, x, 0 + 1) = Wider(edges, {x})
  <2>1. Ball(edges, x, 0) = {x} /\ Widens(edges, x, 0)
    BY BallIs
  <2> QED
    BY <2>1 DEF Widens
<1>9. AtLevel(edges, x, y, s, 0)
  <2>1. \A i \in 1..Len(s.queue) : s.queue[i].at = x /\ s.queue[i].hops = 0
    BY <1>2, <1>5
  <2>2. \A i, j \in 1..Len(s.queue) : s.queue[i].hops <= s.queue[j].hops
    BY <2>1
  <2>3. s.visited \subseteq Ball(edges, x, 0 + 1)
    BY <1>5, <1>8 DEF Wider
  <2>4. \E i \in 1..Len(s.queue) : s.queue[i].at = x /\ s.queue[i].hops = 0
    BY <1>5, <2>1
  <2> QED
    BY <1>5, <1>8, <2>1, <2>2, <2>3, <2>4 DEF AtLevel
<1> QED
  BY <1>4, <1>5, <1>7, <1>9 DEF Searched, MaxHops

(* The states that TopologyView's search goes through.                      *)
LEMMA SearchRuns ==
    ASSUME NEW nodes, IsFiniteSet(nodes), NEW edges \in SUBSET (nodes \X nodes),
           NEW x \in nodes, NEW y, x # y
    PROVE  \E s \in SearchState(nodes) :
               /\ ViewDistance(nodes, edges, x, y) = s.answer
               /\ Searched(edges, x, y, s, Cardinality(nodes))
<1> DEFINE X == SearchState(nodes)
           N == Cardinality(nodes)
           After(s) == IF s.queue = << >> \/ s.answer # NoPath THEN s
                       ELSE Expand(edges, y, s)
           step == [p \in Nat \X X |-> After(p[2])]
           Is(g) == g = [k \in 0..N |-> IF k = 0 THEN Search(x)
                            ELSE LET s == g[k - 1] IN
                                 IF s.queue = << >> \/ s.answer # NoPath THEN s
                                 ELSE Expand(edges, y, s)]
           run == CHOOSE g : Is(g)
<1>0. N \in Nat
  BY FS_CardinalityType
<1>1. Search(x) \in X /\ Searched(edges, x, y, Search(x), 0)
  BY SearchStarts
<1>2. ASSUME NEW s \in X PROVE After(s) \in X
  BY ExpandIs
<1>3. ASSUME NEW s \in X, NEW k \in Nat, Searched(edges, x, y, s, k)
      PROVE  Searched(edges, x, y, After(s), k + 1)
  <2>1. CASE s.queue = << >> \/ s.answer # NoPath
    BY <1>3, <2>1 DEF Searched, Bookkept
  <2>2. CASE s.queue # << >> /\ s.answer = NoPath
    BY <1>3, <2>2, SearchSteps
  <2> QED
    BY <2>1, <2>2
<1> HIDE DEF X, N
<1>4. step \in [Nat \X X -> X]
  BY <1>2
<1>5. ASSUME NEW s \in X, NEW k PROVE k \in Nat => step[<<k, s>>] = After(s)
  OBVIOUS
<1> HIDE DEF step
<1>6. PICK f \in [0..N -> X] : Iterates(f, Search(x), step, N)
  BY <1>0, <1>1, <1>4, IterationExists
<1>7. ASSUME NEW k \in 1..N PROVE f[k] = After(f[k - 1])
  <2>1. k - 1 \in 0..N /\ k \in Nat
    BY <1>0
  <2>2. f[k - 1] \in X
    BY <1>6, <2>1
  <2>3. f[k] = step[<<k, f[k - 1]>>]
    BY <1>6 DEF Iterates
  <2> QED
    BY <1>5, <2>1, <2>2, <2>3
<1>8. f[0] = Search(x)
  BY <1>6 DEF Iterates
<1>9. Is(f)
  <2>1. \A k \in 0..N : k # 0 => k \in 1..N
    BY <1>0
  <2>2. \A k \in 0..N : f[k] = IF k = 0 THEN Search(x) ELSE After(f[k - 1])
    BY <1>7, <1>8, <2>1
  <2>3. DOMAIN f = 0..N /\ f = [k \in 0..N |-> f[k]]
    BY <1>6
  <2> QED
    BY <2>2, <2>3
<1>10. Is(run)
  <2> HIDE DEF Is
  <2> QED
    BY <1>9
<1>11. ViewDistance(nodes, edges, x, y) = run[N].answer
  BY DEF ViewDistance, N
<1> HIDE DEF run
<1>12. run[0] = Search(x) /\ \A k \in 1..N : run[k] = After(run[k - 1])
  <2> DEFINE next == [k \in 0..N |-> IF k = 0 THEN Search(x)
                                     ELSE After(run[k - 1])]
  <2>1. run = next
    BY <1>10
  <2>2. \A k \in 0..N : next[k] = IF k = 0 THEN Search(x)
                                   ELSE After(run[k - 1])
    OBVIOUS
  <2> HIDE DEF next, After
  <2>3. \A k \in 0..N : run[k] = IF k = 0 THEN Search(x)
                                  ELSE After(run[k - 1])
    BY <2>1, <2>2
  <2>4. 0 \in 0..N /\ \A k \in 1..N : k \in 0..N /\ k # 0
    BY <1>0
  <2> QED
    BY <2>3, <2>4
<1> HIDE DEF After, Is
<1> DEFINE S == {k \in Nat : run[k] \in X /\ Searched(edges, x, y, run[k], k)}
<1>13. 0 \in S
  BY <1>1, <1>12
<1>14. ASSUME NEW k \in 0..(N - 1), k \in S PROVE k + 1 \in S
  <2>1. k + 1 \in 1..N /\ (k + 1) - 1 = k /\ k \in Nat
    BY <1>0
  <2>2. run[k + 1] = After(run[k])
    BY <1>12, <2>1
  <2> QED
    BY <1>2, <1>3, <1>14, <2>1, <2>2
<1> HIDE DEF S
<1>15. N \in S
  <2>1. N \in 0..N
    BY <1>0
  <2> QED
    BY <1>0, <1>13, <1>14, <2>1, UpTo
<1> QED
  BY <1>11, <1>15 DEF S, X, N

(* TopologyView's search finds the length of a shortest path of at most     *)
(* MaxHops edges, and none only when there is none.                        *)
LEMMA ViewFinds ==
    ASSUME NEW nodes, IsFiniteSet(nodes), NEW edges \in SUBSET (nodes \X nodes),
           NEW x \in nodes, NEW y, x # y,
           NEW d, d = ViewDistance(nodes, edges, x, y)
    PROVE  \/ Found(edges, x, y, d)
           \/ d = NoPath /\ y \notin Ball(edges, x, MaxHops)
<1> DEFINE N == Cardinality(nodes)
<1>1. PICK s \in SearchState(nodes) :
          /\ d = s.answer
          /\ Searched(edges, x, y, s, N)
  BY SearchRuns
<1>2. CASE s.answer # NoPath
  BY <1>1, <1>2 DEF Searched
<1>3. CASE s.answer = NoPath
  <2>1. s.queue = << >>
    <3> SUFFICES ASSUME s.queue # << >> PROVE FALSE
      OBVIOUS
    <3>1. s.queue \in Seq(QueueEntry(nodes)) /\ s.visited \in SUBSET nodes
      BY DEF SearchState
    <3>2. Len(s.queue) \in Nat \ {0}
      BY ONLY <3>1, s.queue # << >>
    <3>3. N + Len(s.queue) = Cardinality(s.visited)
      BY <1>1, <1>3 DEF Searched, Bookkept
    <3>4. Cardinality(s.visited) <= N /\ N \in Nat /\ Cardinality(s.visited) \in Nat
      BY <3>1, FS_Subset, FS_CardinalityType
    <3> DEFINE L == Len(s.queue)
               C == Cardinality(s.visited)
    <3> HIDE DEF N, L, C
    <3>5. L \in Nat \ {0} /\ N + L = C /\ C <= N /\ N \in Nat /\ C \in Nat
      BY <3>2, <3>3, <3>4 DEF L, C
    <3> QED
      BY ONLY <3>5
  <2>2. Len(s.queue) = 0
    BY <2>1
  <2>3. ASSUME NEW h \in Nat, AtLevel(edges, x, y, s, h)
        PROVE  AtLevel(edges, x, y, s, h + 1)
    BY <2>2, <2>3, LevelDone
  <2>4. ASSUME NEW h \in 0..(MaxHops - 1), AtLevel(edges, x, y, s, h)
        PROVE  AtLevel(edges, x, y, s, MaxHops)
    <3>1. CASE h = MaxHops - 1
      BY <2>3, <2>4, <3>1 DEF MaxHops
    <3>2. CASE h = 0
      <4>1. AtLevel(edges, x, y, s, 1)
        BY <2>3, <2>4, <3>2
      <4>2. AtLevel(edges, x, y, s, 1 + 1)
        BY <2>3, <4>1
      <4> QED
        BY <4>2 DEF MaxHops
    <3> QED
      BY <3>1, <3>2 DEF MaxHops
  <2>5. y \notin Ball(edges, x, MaxHops)
    <3>1. CASE Beyond(edges, x, y, s)
      BY <3>1 DEF Beyond
    <3>2. CASE \E h \in 0..(MaxHops - 1) : AtLevel(edges, x, y, s, h)
      <4>1. AtLevel(edges, x, y, s, MaxHops)
        BY <2>4, <3>2
      <4> QED
        BY <4>1 DEF AtLevel
    <3> QED
      BY <1>1, <1>3, <3>1, <3>2 DEF Searched
  <2> QED
    BY <1>1, <1>3, <2>5
<1> QED
  BY <1>2, <1>3

(* Both searches agree with the paths, and so with each other.             *)
LEMMA SearchesAgree ==
    ASSUME NEW nodes, IsFiniteSet(nodes), NEW edges \in SUBSET (nodes \X nodes)
    PROVE  DistancesAgree(nodes, edges)
<1> SUFFICES ASSUME NEW x \in nodes, NEW y \in nodes
             PROVE  ViewDistance(nodes, edges, x, y)
                       = TrafficDistance(nodes, edges, x, y)
  BY DistanceIsShortest DEF DistancesAgree
<1>1. PICK d : d = TopologyDistance(nodes, edges, x, y)
  OBVIOUS
<1>2. TrafficDistance(nodes, edges, x, y) = IF d > MaxHops THEN NoPath ELSE d
  BY <1>1 DEF TrafficDistance
<1>3. Cardinality(nodes) \in Nat
  BY FS_CardinalityType
<1>4. \/ /\ d = NoPath
         /\ \A n \in 0..Cardinality(nodes) : y \notin Ball(edges, x, n)
      \/ /\ d \in 0..Cardinality(nodes)
         /\ y \in Ball(edges, x, d)
         /\ \A n \in 0..(d - 1) : y \notin Ball(edges, x, n)
  BY <1>1, DistanceIs
<1>5. CASE x = y
  <2>1. x \in Ball(edges, x, 0)
    BY BallIs
  <2>2. d = 0
    BY <1>3, <1>4, <1>5, <2>1
  <2>3. ViewDistance(nodes, edges, x, y) = 0
    BY <1>5 DEF ViewDistance
  <2> QED
    BY <1>2, <2>2, <2>3 DEF MaxHops
<1>6. CASE x # y
  <2>1. PICK v : v = ViewDistance(nodes, edges, x, y)
    OBVIOUS
  <2>2. \/ Found(edges, x, y, v)
        \/ v = NoPath /\ y \notin Ball(edges, x, MaxHops)
    BY <1>6, <2>1, ViewFinds
  <2>3. Cardinality(nodes) >= 2
    <3>1. Cardinality({x, y}) = 2 /\ IsFiniteSet({x, y})
      <4>1. IsFiniteSet({x}) /\ Cardinality({x}) = 1 /\ y \notin {x}
        BY <1>6, FS_Singleton
      <4>2. /\ IsFiniteSet({x} \cup {y})
            /\ Cardinality({x} \cup {y}) = Cardinality({x}) + 1
        BY ONLY <4>1, FS_AddElement
      <4>3. {x} \cup {y} = {x, y}
        OBVIOUS
      <4> QED
        BY <4>1, <4>2, <4>3
    <3>2. {x, y} \subseteq nodes
      OBVIOUS
    <3>3. Cardinality({x, y}) <= Cardinality(nodes)
      BY <3>2, FS_Subset
    <3> QED
      BY <1>3, <3>1, <3>3
  <2>4. ASSUME NEW n \in Nat, NEW m \in Nat, n <= m, y \in Ball(edges, x, n)
        PROVE  y \in Ball(edges, x, m)
    BY <2>4, BallsWiden
  <2>5. CASE Found(edges, x, y, v)
    <3>1. /\ v \in 1..MaxHops /\ v \in Nat /\ v - 1 \in Nat
          /\ y \in Ball(edges, x, v) /\ y \notin Ball(edges, x, v - 1)
          /\ v \in 0..Cardinality(nodes)
      BY <1>3, <2>3, <2>5 DEF Found, MaxHops
    <3>2. d \in Nat /\ y \in Ball(edges, x, d)
      BY <1>4, <3>1
    <3>3. d <= v
      BY <1>4, <3>1, <3>2
    <3>4. ~(d <= v - 1)
      BY <2>4, <3>1, <3>2
    <3>5. d = v /\ ~(d > MaxHops)
      BY <3>1, <3>2, <3>3, <3>4 DEF MaxHops
    <3> QED
      BY <1>2, <2>1, <3>5
  <2>6. CASE v = NoPath /\ y \notin Ball(edges, x, MaxHops)
    <3>1. CASE d = NoPath
      BY <1>2, <2>1, <2>6, <3>1
    <3>2. CASE d \in Nat /\ y \in Ball(edges, x, d)
      <4>1. d > MaxHops
        BY <2>4, <2>6, <3>2 DEF MaxHops
      <4> QED
        BY <1>2, <2>1, <2>6, <4>1
    <3> QED
      BY <1>4, <3>1, <3>2
  <2> QED
    BY <2>2, <2>5, <2>6
<1> QED
  BY <1>5, <1>6

-----------------------------------------------------------------------------
(* The bundle is one snapshot: no step changes it.                          *)
FromIncident == \E inc \in Incidents : bundle = Bundle(inc)

(* The bundle is built from an incident ...                                *)
LEMMA SnapshotInit == Init => FromIncident
<1> QED
  BY DEF Init, FromIncident

(* ... and is not changed.                                                 *)
LEMMA SnapshotNext == FromIncident /\ [Next]_vars => FromIncident'
<1> SUFFICES ASSUME [Next]_vars PROVE UNCHANGED bundle
  BY DEF FromIncident
<1> QED
  BY DEF Next, vars, Analyse, NoCandidates, Collect, CollectFails, AllCollected,
         Template, TemplateFails, Accept, Stale, Retry, Answer, Finished

(* Its edges are the incident's.                                           *)
LEMMA EdgesOfIncident ==
    ASSUME FromIncident
    PROVE  \E inc \in Incidents : bundle.edges = inc.edges
<1>1. PICK inc \in Incidents : bundle = Bundle(inc)
  BY DEF FromIncident
<1>2. bundle.edges = inc.edges
  BY <1>1 DEF Bundle
<1> QED
  BY <1>2

(* So the searches agree on it.                                            *)
LEMMA AgreeOnIncident == FromIncident => TopologySearchesAgree
<1> SUFFICES ASSUME FromIncident, NEW relation \in DOMAIN bundle.edges
             PROVE  /\ DistancesAgree(Entities, bundle.edges[relation])
                    /\ BlastRadiusIsSymmetric(Entities, bundle.edges[relation])
  BY DEF TopologySearchesAgree
<1>1. bundle.edges[relation] \in SUBSET (Entities \X Entities)
  BY EdgesOfIncident, TopologyAssumption
<1>2. IsFiniteSet(Entities)
  BY TopologyAssumption
<1> QED
  BY <1>1, <1>2, SearchesAgree, BlastRadiusBothWays

(* The breadth-first search with a queue and the search by levels find the  *)
(* length of a shortest path, on every topology, with the cycles, shortcuts  *)
(* and unreachable entities it may have; and what is downstream forward is   *)
(* upstream in reverse (TopologyView.distance, TopologyGraph).              *)
THEOREM SearchesOfTopologyAgree == Spec => []TopologySearchesAgree
<1> QED
  BY SnapshotInit, SnapshotNext, AgreeOnIncident, PTL DEF Spec

-----------------------------------------------------------------------------
(* Orders on finite sets, given as sets of pairs.                           *)

Below(S, R, x) == {y \in S : <<y, x>> \in R}

IsOrder(S, R) ==
    /\ \A x \in S : <<x, x>> \notin R
    /\ \A x, y, z \in S :
          <<x, y>> \in R /\ <<y, z>> \in R => <<x, z>> \in R

IsTotal(S, R) == \A x, y \in S : x = y \/ <<x, y>> \in R \/ <<y, x>> \in R

(* Less is below a smaller element.                                         *)
LEMMA BelowGrows ==
    ASSUME NEW S, IsFiniteSet(S), NEW R, IsOrder(S, R),
           NEW x \in S, NEW y \in S, <<x, y>> \in R
    PROVE  /\ Cardinality(Below(S, R, x)) \in Nat
           /\ Cardinality(Below(S, R, y)) \in Nat
           /\ Cardinality(Below(S, R, x)) < Cardinality(Below(S, R, y))
<1> DEFINE X == Below(S, R, x)
           Y == Below(S, R, y)
<1>1. X \subseteq S /\ Y \subseteq S
  BY DEF Below
<1>2. X \subseteq Y /\ x \in Y /\ x \notin X
  BY DEF IsOrder, Below
<1> HIDE DEF X, Y
<1>3. IsFiniteSet(X) /\ IsFiniteSet(Y)
  BY <1>1, FS_Subset
<1>4. Cardinality(X) \in Nat /\ Cardinality(Y) \in Nat
  BY <1>3, FS_CardinalityType
<1>5. Cardinality(X) <= Cardinality(Y)
  BY <1>2, <1>3, FS_Subset
<1>6. Cardinality(X) # Cardinality(Y)
  <2>1. Cardinality(Y) = Cardinality(X) => Y = X
    BY <1>2, <1>3, FS_Subset
  <2> QED
    BY <1>2, <2>1
<1> QED
  BY <1>4, <1>5, <1>6 DEF X, Y

(* An order on a finite set has a minimal element.                         *)
LEMMA MinimalExists ==
    ASSUME NEW S, IsFiniteSet(S), S # {}, NEW R, IsOrder(S, R)
    PROVE  \E x \in S : \A y \in S : <<y, x>> \notin R
<1> DEFINE T == {Cardinality(Below(S, R, x)) : x \in S}
<1>1. ASSUME NEW x \in S PROVE Cardinality(Below(S, R, x)) \in Nat
  <2>1. Below(S, R, x) \subseteq S
    BY DEF Below
  <2> QED
    BY <2>1, FS_Subset, FS_CardinalityType
<1>2. T \in SUBSET Nat /\ T # {}
  BY <1>1
<1>3. PICK n \in T : \A m \in T : n <= m
  BY ONLY <1>2, LeastExists
<1>4. PICK x \in S : n = Cardinality(Below(S, R, x))
  OBVIOUS
<1>5. ASSUME NEW y \in S, <<y, x>> \in R PROVE FALSE
  <2>1. /\ Cardinality(Below(S, R, y)) \in Nat
        /\ Cardinality(Below(S, R, x)) \in Nat
        /\ Cardinality(Below(S, R, y)) < Cardinality(Below(S, R, x))
    BY <1>5, BelowGrows
  <2>2. n <= Cardinality(Below(S, R, y))
    BY <1>3
  <2> QED
    BY <1>4, <2>1, <2>2
<1> QED
  BY <1>5

(* In a total order every place is taken.                                   *)
LEMMA PlaceTaken ==
    ASSUME NEW S, IsFiniteSet(S), NEW R, IsOrder(S, R), IsTotal(S, R),
           NEW k \in 1..Cardinality(S)
    PROVE  \E x \in S : Cardinality(Below(S, R, x)) = k - 1
<1> DEFINE N == Cardinality(S)
           place == [x \in S |-> Cardinality(Below(S, R, x))]
<1>1. N \in Nat
  BY FS_CardinalityType
<1>2. ASSUME NEW x \in S PROVE Cardinality(Below(S, R, x)) \in 0..(N - 1)
  <2>1. Below(S, R, x) \subseteq S /\ x \notin Below(S, R, x)
    BY DEF Below, IsOrder
  <2>2. /\ IsFiniteSet(Below(S, R, x))
        /\ Cardinality(Below(S, R, x)) <= N
        /\ N = Cardinality(Below(S, R, x)) => S = Below(S, R, x)
    BY <2>1, FS_Subset
  <2>3. Cardinality(Below(S, R, x)) \in Nat
    BY <2>2, FS_CardinalityType
  <2> QED
    BY <1>1, <2>1, <2>2, <2>3
<1>3. place \in [S -> 0..(N - 1)]
  BY <1>2
<1>4. ASSUME NEW x \in S, NEW y \in S, place[x] = place[y] PROVE x = y
  <2>1. CASE <<x, y>> \in R
    BY <1>4, <2>1, BelowGrows
  <2>2. CASE <<y, x>> \in R
    BY <1>4, <2>2, BelowGrows
  <2> QED
    BY <2>1, <2>2 DEF IsTotal
<1> HIDE DEF place
<1>5. place \in Injection(S, 0..(N - 1))
  BY <1>3, <1>4 DEF Injection, IsInjective
<1>6. IsFiniteSet(0..(N - 1)) /\ Cardinality(0..(N - 1)) = N
  <2>1. 0 \in Int /\ N - 1 \in Int
    BY <1>1
  <2> HIDE DEF N
  <2>2. /\ IsFiniteSet(0..(N - 1))
        /\ Cardinality(0..(N - 1)) = IF 0 > N - 1 THEN 0 ELSE (N - 1) - 0 + 1
    BY ONLY <2>1, FS_Interval
  <2> QED
    BY <1>1, <2>2
<1>7. place \in Surjection(S, 0..(N - 1))
  BY <1>5, <1>6, FS_Injection
<1>8. PICK x \in S : place[x] = k - 1
  <2>1. k - 1 \in 0..(N - 1)
    BY <1>1
  <2> QED
    BY <1>7, <2>1 DEF Surjection
<1> QED
  BY <1>8 DEF place

(* Events by time and id.                                                   *)
Dated(S) ==
    /\ IsFiniteSet(S)
    /\ \A e \in S : e.time \in Int /\ e.id \in Int
    /\ \A e, f \in S : e.id = f.id => e = f

(* InOrder lists the events of a set by time and id.                       *)
LEMMA OrderOfEvents ==
    ASSUME NEW S, Dated(S)
    PROVE  /\ Len(InOrder(S)) = Cardinality(S)
           /\ Len(InOrder(S)) \in Nat
           /\ \A k \in 1..Len(InOrder(S)) : InOrder(S)[k] \in S
           /\ \A j, k \in 1..Len(InOrder(S)) :
                 j < k => ~Before(InOrder(S)[k], InOrder(S)[j])
<1> DEFINE N == Cardinality(S)
           R == {p \in S \X S : Before(p[1], p[2])}
           order == InOrder(S)
<1>1. N \in Nat /\ IsFiniteSet(S)
  BY FS_CardinalityType DEF Dated
<1>2. \A x, y \in S : <<x, y>> \in R <=> Before(x, y)
  OBVIOUS
<1>3. ASSUME NEW x \in S PROVE Below(S, R, x) = {f \in S : Before(f, x)}
  BY <1>2 DEF Below
<1> HIDE DEF R
<1>4. IsOrder(S, R)
  <2>1. \A x \in S : ~Before(x, x)
    BY DEF Dated, Before
  <2>2. \A x, y, z \in S : Before(x, y) /\ Before(y, z) => Before(x, z)
    BY DEF Dated, Before
  <2> QED
    BY <1>2, <2>1, <2>2 DEF IsOrder
<1>5. IsTotal(S, R)
  <2>1. \A x, y \in S : x = y \/ Before(x, y) \/ Before(y, x)
    BY DEF Dated, Before
  <2> QED
    BY <1>2, <2>1 DEF IsTotal
<1>6. order = [k \in 1..N |->
                  CHOOSE e \in S : Cardinality({f \in S : Before(f, e)}) = k - 1]
  BY DEF InOrder
<1>7. Len(order) = N
  <2>1. \A v : N \in Nat => Len([k \in 1..N |-> CHOOSE e \in S :
                 Cardinality({f \in S : Before(f, e)}) = k - 1]) = N
    OBVIOUS
  <2> QED
    BY <1>1, <1>6, <2>1
<1>8. ASSUME NEW k \in 1..N
      PROVE  order[k] \in S /\ Cardinality(Below(S, R, order[k])) = k - 1
  <2>1. PICK x \in S : Cardinality(Below(S, R, x)) = k - 1
    BY <1>1, <1>4, <1>5, PlaceTaken
  <2>2. Cardinality({f \in S : Before(f, x)}) = k - 1
    BY <1>3, <2>1
  <2>3. order[k] = CHOOSE e \in S : Cardinality({f \in S : Before(f, e)}) = k - 1
    BY <1>6
  <2>4. order[k] \in S /\ Cardinality({f \in S : Before(f, order[k])}) = k - 1
    BY <2>2, <2>3
  <2> QED
    BY <1>3, <2>4
<1> HIDE DEF order
<1>9. ASSUME NEW j \in 1..N, NEW k \in 1..N, j < k
      PROVE  ~Before(order[k], order[j])
  <2> SUFFICES ASSUME Before(order[k], order[j]) PROVE FALSE
    OBVIOUS
  <2>1. <<order[k], order[j]>> \in R
    BY <1>2, <1>8
  <2>2. Cardinality(Below(S, R, order[k])) < Cardinality(Below(S, R, order[j]))
    BY <1>1, <1>4, <1>8, <2>1, BelowGrows
  <2> QED
    BY <1>8, <1>9, <2>2
<1> QED
  BY <1>1, <1>7, <1>8, <1>9 DEF order

-----------------------------------------------------------------------------
(* What a detector finds.                                                  *)

(* A bound on a quotient.                                                  *)
LEMMA QuotientWithin ==
    ASSUME NEW a \in Nat, NEW n \in Nat \ {0}, NEW c \in Nat, a < n * (c + 1)
    PROVE  a \div n \in 0..c
<1> DEFINE q == a \div n
<1>1. q \in Nat /\ n * q <= a
  OBVIOUS
<1> HIDE DEF q
<1>2. q <= c
  <2> SUFFICES ASSUME q > c PROVE FALSE
    BY <1>1
  <2>1. PICK d \in Nat : q = c + 1 + d
    <3>1. q - c - 1 \in Nat /\ q = c + 1 + (q - c - 1)
      BY <1>1
    <3> QED
      BY <3>1
  <2>2. n * q = n * (c + 1) + n * d
    BY <2>1
  <2>3. n * d \in Nat /\ n * (c + 1) \in Nat /\ n * q \in Nat
    BY <1>1
  <2> QED
    BY <1>1, <2>2, <2>3
<1> QED
  BY <1>1, <1>2 DEF q

(* The minimum of two numbers is one of them.                              *)
LEMMA LeastOfTwo ==
    ASSUME NEW a \in Int, NEW b \in Int
    PROVE  Min({a, b}) = IF a <= b THEN a ELSE b
<1>1. Min({a, b}) = CHOOSE x \in {a, b} : \A y \in {a, b} : x <= y
  BY DEF Min
<1>2. \E x \in {a, b} : \A y \in {a, b} : x <= y
  OBVIOUS
<1>3. Min({a, b}) \in {a, b} /\ \A y \in {a, b} : Min({a, b}) <= y
  BY <1>1, <1>2
<1> QED
  BY <1>3

ContextDetectors == {"config_change", "topology_cascade"}

ContextTypes == {"RECENT_CONFIGURATION_CHANGE", "CASCADE"}

IsAnomaly(a) ==
    /\ a.score \in 0..100 /\ a.time \in Int /\ a.entity \in Entities
    /\ a.detector \in ContextDetectors =>
          a.context = TRUE /\ a.type \in ContextTypes
    /\ a.detector \notin ContextDetectors => a.context = FALSE

MadeFrom(a, e) == a.event = e.id /\ a.entity = e.entity /\ a.time = e.time

(* Most detectors need nothing but the event.                              *)
Alone(a, e) ==
    /\ MadeFrom(a, e) /\ IsAnomaly(a)
    /\ a.cause = NoCause /\ a.detector # "trace_structure"

(* A record that is made from an event is an anomaly of it.                *)
LEMMA RecordedIs ==
    ASSUME NEW e, CanonicalEvent(e), NEW a,
           a.event = e.id, a.entity = e.entity, a.time = e.time,
           a.score \in 0..100,
           a.detector \in ContextDetectors =>
              a.context = TRUE /\ a.type \in ContextTypes,
           a.detector \notin ContextDetectors => a.context = FALSE
    PROVE  MadeFrom(a, e) /\ IsAnomaly(a)
<1>1. e.time \in Int /\ e.entity \in Entities
  BY DEF CanonicalEvent
<1> QED
  BY <1>1 DEF MadeFrom, IsAnomaly

(* So is what a detector reports ...                                       *)
LEMMA ReportIs ==
    ASSUME NEW e, CanonicalEvent(e), NEW type, NEW score \in 0..100,
           NEW detector, detector \notin ContextDetectors,
           detector # "trace_structure",
           NEW S, S = Report(e, detector, type, score)
    PROVE  IsFiniteSet(S) /\ \A a \in S : Alone(a, e)
<1>1. PICK r : r = Record(e, detector, type, score, FALSE, NoCause)
  OBVIOUS
<1>2. Alone(r, e)
  <2>1. /\ r.event = e.id /\ r.entity = e.entity /\ r.time = e.time
        /\ r.detector = detector /\ r.score = score /\ r.context = FALSE
        /\ r.cause = NoCause
    BY <1>1 DEF Record
  <2>2. MadeFrom(r, e) /\ IsAnomaly(r)
    BY <2>1, RecordedIs
  <2> QED
    BY <2>1, <2>2 DEF Alone
<1>3. S = {} \/ S = {r}
  BY <1>1 DEF Report
<1>4. IsFiniteSet({}) /\ IsFiniteSet({r})
  BY ONLY FS_EmptySet, FS_Singleton
<1> QED
  BY ONLY <1>2, <1>3, <1>4

(* ... and what the statistical ones find.                                 *)
LEMMA StatisticalIs ==
    ASSUME NEW e, CanonicalEvent(e)
    PROVE  IsFiniteSet(Statistical(e)) /\ \A a \in Statistical(e) : Alone(a, e)
<1> DEFINE f == [s \in e.statistical |->
                    Record(e, s.detector, s.type, s.score, FALSE, NoCause)]
<1>1. IsFiniteSet(e.statistical)
  BY DEF CanonicalEvent
<1>2. f \in Surjection(e.statistical, Statistical(e))
  BY DEF Statistical, Surjection
<1>3. IsFiniteSet(Statistical(e))
  BY <1>1, <1>2, FS_Surjection
<1>4. ASSUME NEW s \in e.statistical,
             NEW a, a = Record(e, s.detector, s.type, s.score, FALSE, NoCause)
      PROVE  Alone(a, e)
  <2>1. s.detector \in {"rolling_zscore", "ewma"} /\ s.score \in 0..100
    BY DEF CanonicalEvent
  <2>2. s.detector \notin ContextDetectors
    BY <2>1 DEF ContextDetectors
  <2>3. /\ a.event = e.id /\ a.entity = e.entity /\ a.time = e.time
        /\ a.detector = s.detector /\ a.score = s.score /\ a.context = FALSE
        /\ a.cause = NoCause
    BY <1>4 DEF Record
  <2>4. MadeFrom(a, e) /\ IsAnomaly(a)
    BY <2>1, <2>2, <2>3, RecordedIs
  <2> QED
    BY <2>1, <2>3, <2>4 DEF Alone
<1> QED
  BY <1>3, <1>4 DEF Statistical

(* A score that grows with the value stays a score.                        *)
LEMMA ExceedanceIs ==
    ASSUME NEW value \in Int, NEW limit \in Nat \ {0}, value >= limit
    PROVE  /\ Exceedance(value, limit, 85, 15) \in 0..100
           /\ Exceedance(value, limit, 82, 18) \in 0..100
<1>1. PICK m \in 0..limit : m = Min({value - limit, limit})
  BY LeastOfTwo
<1>2. (2 * 15 * m + limit) \div (2 * limit) \in 0..15
  OBVIOUS
<1>3. (2 * 18 * m + limit) \div (2 * limit) \in 0..18
  OBVIOUS
<1> QED
  BY <1>1, <1>2, <1>3 DEF Exceedance

(* The detectors that look at the event alone.                             *)
LEMMA PlainDetectors ==
    ASSUME NEW e, CanonicalEvent(e)
    PROVE  /\ IsFiniteSet(ReferenceThreshold(e)) /\ IsFiniteSet(LogRule(e))
           /\ IsFiniteSet(AlertSeverity(e)) /\ IsFiniteSet(TraceLatency(e))
           /\ IsFiniteSet(ConfigChangeMarker(e))
           /\ \A a \in ReferenceThreshold(e) \cup LogRule(e) \cup AlertSeverity(e)
                          \cup TraceLatency(e) \cup ConfigChangeMarker(e) :
                 Alone(a, e)
<1>0. IsFiniteSet({})
  BY FS_EmptySet
<1>1. /\ IsFiniteSet(ReferenceThreshold(e))
      /\ \A a \in ReferenceThreshold(e) : Alone(a, e)
  <2>1. CASE ReferenceThreshold(e) = {}
    BY <1>0, <2>1
  <2>2. CASE ReferenceThreshold(e) # {}
    <3>1. /\ e.value # NoValue /\ e.limit # NoValue /\ e.value >= e.limit
          /\ ReferenceThreshold(e)
                = Report(e, "reference_threshold", ReferenceTypes[e.type],
                         Exceedance(e.value, e.limit, 85, 15))
      BY <2>2 DEF ReferenceThreshold
    <3>2. Exceedance(e.value, e.limit, 85, 15) \in 0..100
      BY <3>1, ExceedanceIs DEF CanonicalEvent
    <3> QED
      BY <3>1, <3>2, ReportIs DEF ContextDetectors
  <2> QED
    BY <2>1, <2>2
<1>2. IsFiniteSet(LogRule(e)) /\ \A a \in LogRule(e) : Alone(a, e)
  <2>1. CASE e.modality # "log"
    BY <1>0, <2>1 DEF LogRule
  <2>2. CASE e.modality = "log" /\ e.type \in DOMAIN LogRules
    <3>1. LogRule(e) = Report(e, "log_rule", LogRules[e.type].type,
                              LogRules[e.type].score)
      BY <2>2 DEF LogRule
    <3>2. LogRules[e.type].score \in 0..100
      BY <2>2, LogRulesAssumption
    <3> QED
      BY <3>1, <3>2, ReportIs DEF ContextDetectors
  <2>3. CASE /\ e.modality = "log" /\ e.type \notin DOMAIN LogRules
             /\ e.level \in DOMAIN LevelScore
    <3>1. PICK type : LogRule(e) = Report(e, "log_rule", type, LevelScore[e.level])
      BY <2>3 DEF LogRule
    <3>2. LevelScore[e.level] \in 0..100
      BY <2>3 DEF LevelScore
    <3> QED
      BY <3>1, <3>2, ReportIs DEF ContextDetectors
  <2>4. CASE /\ e.modality = "log" /\ e.type \notin DOMAIN LogRules
             /\ e.level \notin DOMAIN LevelScore
    BY <1>0, <2>4 DEF LogRule
  <2> QED
    BY <2>1, <2>2, <2>3, <2>4
<1>3. IsFiniteSet(AlertSeverity(e)) /\ \A a \in AlertSeverity(e) : Alone(a, e)
  <2>1. CASE e.modality # "alert"
    BY <1>0, <2>1 DEF AlertSeverity
  <2>2. CASE e.modality = "alert"
    <3>1. AlertSeverity(e)
             = Report(e, "alert_severity", AlertTypes(e.type), e.severity)
      BY <2>2 DEF AlertSeverity
    <3>2. e.severity \in 0..100
      BY DEF CanonicalEvent
    <3> QED
      BY <3>1, <3>2, ReportIs DEF ContextDetectors
  <2> QED
    BY <2>1, <2>2
<1>4. IsFiniteSet(TraceLatency(e)) /\ \A a \in TraceLatency(e) : Alone(a, e)
  <2>1. CASE TraceLatency(e) = {}
    BY <1>0, <2>1
  <2>2. CASE TraceLatency(e) # {}
    <3>1. /\ e.value # NoValue /\ e.expected # NoValue
          /\ e.value >= 3 * e.expected
          /\ TraceLatency(e)
                = Report(e, "trace_latency", "TRACE_LATENCY_ANOMALY",
                         Exceedance(e.value, 3 * e.expected, 82, 18))
      BY <2>2 DEF TraceLatency
    <3>2. Exceedance(e.value, 3 * e.expected, 82, 18) \in 0..100
      <4>1. e.value \in Int /\ 3 * e.expected \in Nat \ {0}
        BY <3>1 DEF CanonicalEvent
      <4> QED
        BY <3>1, <4>1, ExceedanceIs
    <3> QED
      BY <3>1, <3>2, ReportIs DEF ContextDetectors
  <2> QED
    BY <2>1, <2>2
<1>5. /\ IsFiniteSet(ConfigChangeMarker(e))
      /\ \A a \in ConfigChangeMarker(e) : Alone(a, e)
  <2>1. PICK r : r = Record(e, "config_change", "RECENT_CONFIGURATION_CHANGE",
                            e.severity, TRUE, NoCause)
    OBVIOUS
  <2>2. Alone(r, e)
    <3>1. /\ "config_change" \in ContextDetectors /\ e.severity \in 0..100
          /\ "RECENT_CONFIGURATION_CHANGE" \in ContextTypes
      BY DEF ContextDetectors, ContextTypes, CanonicalEvent
    <3>2. /\ r.event = e.id /\ r.entity = e.entity /\ r.time = e.time
          /\ r.detector = "config_change" /\ r.score = e.severity
          /\ r.type = "RECENT_CONFIGURATION_CHANGE"
          /\ r.context = TRUE /\ r.cause = NoCause
      BY <2>1 DEF Record
    <3>3. MadeFrom(r, e) /\ IsAnomaly(r)
      BY <3>1, <3>2, RecordedIs
    <3> QED
      BY <3>2, <3>3 DEF Alone
  <2>3. ConfigChangeMarker(e) = {} \/ ConfigChangeMarker(e) = {r}
    BY <2>1 DEF ConfigChangeMarker
  <2>4. IsFiniteSet({r})
    BY FS_Singleton
  <2> QED
    BY <1>0, <2>2, <2>3, <2>4
<1> QED
  BY <1>1, <1>2, <1>3, <1>4, <1>5

(* The detector of torn traces.                                            *)
LEMMA TornSpans ==
    ASSUME NEW e, CanonicalEvent(e), NEW events
    PROVE  /\ IsFiniteSet(TraceStructure(e, events))
           /\ \A a \in TraceStructure(e, events) :
                 /\ MadeFrom(a, e) /\ IsAnomaly(a)
                 /\ a.cause = NoCause /\ a.detector = "trace_structure"
<1>1. PICK r : r = Record(e, "trace_structure", "TRACE_STRUCTURE_ANOMALY", 90,
                          FALSE, NoCause)
  OBVIOUS
<1>2. /\ r.event = e.id /\ r.entity = e.entity /\ r.time = e.time
      /\ r.detector = "trace_structure" /\ r.score = 90
      /\ r.context = FALSE /\ r.cause = NoCause
  BY <1>1 DEF Record
<1>3. MadeFrom(r, e) /\ IsAnomaly(r)
  <2>1. r.score \in 0..100 /\ r.detector \notin ContextDetectors
    BY <1>2 DEF ContextDetectors
  <2> QED
    BY <1>2, <2>1, RecordedIs
<1>4. TraceStructure(e, events) = {} \/ TraceStructure(e, events) = {r}
  BY <1>1 DEF TraceStructure
<1>5. IsFiniteSet({}) /\ IsFiniteSet({r})
  BY FS_EmptySet, FS_Singleton
<1> QED
  BY <1>2, <1>3, <1>4, <1>5

(* The topology of an incident, as far as cascades are concerned.           *)
Cabled(G) ==
    /\ IsFiniteSet(Entities)
    /\ {"sends_traffic_to", "depends_on"} \subseteq DOMAIN G
    /\ \A relation \in DOMAIN G : G[relation] \in SUBSET (Entities \X Entities)

Downstream(x, y, G) ==
    \E relation \in DOMAIN G : \E n \in 1..MaxHops :
        Paths(Entities, G[relation], x, y, n) # {}

(* Where the search says that it is near, there is a path.                 *)
LEMMA HopsArePaths ==
    ASSUME NEW x \in Entities, NEW y \in Entities, x # y, NEW G, Cabled(G),
           NEW relation \in DOMAIN G,
           ViewDistance(Entities, G[relation], x, y) \in 1..MaxHops
    PROVE  Downstream(x, y, G)
<1> DEFINE d == ViewDistance(Entities, G[relation], x, y)
<1>1. IsFiniteSet(Entities) /\ G[relation] \in SUBSET (Entities \X Entities)
  BY DEF Cabled
<1>2. d # NoPath /\ d \in Nat
  BY DEF MaxHops, NoPath
<1>3. Found(G[relation], x, y, d)
  BY <1>1, <1>2, ViewFinds
<1> HIDE DEF d
<1>4. y \in Ball(G[relation], x, d)
  BY <1>3 DEF Found
<1>5. PICK n \in 0..d : Paths(Entities, G[relation], x, y, n) # {}
  BY <1>1, <1>2, <1>4, BallIsPaths
<1>6. n # 0
  BY <1>5, PathOfNone
<1>7. n \in 1..MaxHops
  <2>1. d \in 1..MaxHops
    BY DEF d
  <2> QED
    BY <1>5, <1>6, <2>1 DEF MaxHops
<1> QED
  BY <1>5, <1>7 DEF Downstream

(* An event to which the cascade detector counts hops is downstream.       *)
LEMMA CascadesReach ==
    ASSUME NEW a, NEW e, a.entity \in Entities, e.entity \in Entities,
           a.entity # e.entity, NEW G, Cabled(G), CascadeHops(a, e, G) # NoPath
    PROVE  /\ CascadeHops(a, e, G) \in 1..MaxHops
           /\ Downstream(a.entity, e.entity, G)
<1>1. PICK relation \in {"sends_traffic_to", "depends_on"} :
          /\ CascadeHops(a, e, G)
                = ViewDistance(Entities, G[relation], a.entity, e.entity)
          /\ ViewDistance(Entities, G[relation], a.entity, e.entity) \in 1..MaxHops
  BY DEF CascadeHops, HopsWithin
<1>2. relation \in DOMAIN G
  BY DEF Cabled
<1> QED
  BY <1>1, <1>2, HopsArePaths

(* What a cascade signal says of the anomaly that it names.                 *)
Named(a, c, G) ==
    /\ c.event = a.cause.event /\ c.detector = a.cause.detector
    /\ c.context = FALSE
    /\ Downstream(c.entity, a.entity, G)

(* A cascade signal names a symptom that its event is downstream of.       *)
LEMMA CascadesName ==
    ASSUME NEW e, CanonicalEvent(e), NEW A, IsFiniteSet(A),
           \A c \in A : IsAnomaly(c), NEW G, Cabled(G)
    PROVE  /\ IsFiniteSet(TopologyCascade(e, A, G))
           /\ \A a \in TopologyCascade(e, A, G) :
                 /\ MadeFrom(a, e) /\ IsAnomaly(a)
                 /\ a.detector = "topology_cascade"
                 /\ \E c \in A : Named(a, c, G)
<1> DEFINE hits == {a \in RecentAnomalies(e, A) :
                       a.entity # e.entity /\ CascadeHops(a, e, G) # NoPath}
           hops == [a \in hits |-> CascadeHops(a, e, G)]
           Closer(a, c) == Nearer(a, hops[a], c, hops[c])
           best  == CHOOSE a \in hits : \A c \in hits : ~Closer(c, a)
           score == (70 * e.severity + 30 * best.score + 50) \div 100
           found == Record(e, "topology_cascade", "CASCADE", score, TRUE,
                           [event |-> best.event, detector |-> best.detector])
           R == {p \in hits \X hits : Closer(p[1], p[2])}
<1>1. \/ TopologyCascade(e, A, G) = {}
      \/ hits # {} /\ TopologyCascade(e, A, G) = {found}
  BY DEF TopologyCascade
<1>2. IsFiniteSet({})
  BY FS_EmptySet
<1>3. CASE TopologyCascade(e, A, G) = {}
  BY <1>2, <1>3
<1>4. CASE hits # {} /\ TopologyCascade(e, A, G) = {found}
  <2>1. hits \subseteq A /\ \A a \in hits : a.context = FALSE
    <3>1. \A a \in RecentAnomalies(e, A) : a \in A /\ ~a.context
      BY DEF RecentAnomalies, MostRecent
    <3>2. \A a \in A : a.context = TRUE \/ a.context = FALSE
      BY DEF IsAnomaly
    <3> QED
      BY <3>1, <3>2
  <2>2. IsFiniteSet(hits)
    BY <2>1, FS_Subset
  <2>3. ASSUME NEW a \in hits
        PROVE  /\ hops[a] \in Int /\ a.score \in 0..100 /\ a.time \in Int
               /\ Downstream(a.entity, e.entity, G)
    <3>1. /\ a.entity \in Entities /\ e.entity \in Entities
          /\ a.score \in 0..100 /\ a.time \in Int
      BY <2>1 DEF IsAnomaly, CanonicalEvent
    <3>2. /\ CascadeHops(a, e, G) \in 1..MaxHops
          /\ Downstream(a.entity, e.entity, G)
      BY <3>1, CascadesReach
    <3> QED
      BY <3>1, <3>2 DEF MaxHops
  <2>4. IsOrder(hits, R)
    <3> HIDE DEF hits, hops
    <3>1. \A x, y \in hits : <<x, y>> \in R <=> Closer(x, y)
      OBVIOUS
    <3>2. \A x \in hits : ~Closer(x, x)
      BY <2>3 DEF Nearer
    <3>3. ASSUME NEW x \in hits, NEW y \in hits, NEW z \in hits,
                 Closer(x, y), Closer(y, z)
          PROVE  Closer(x, z)
      <4>1. /\ hops[x] \in Int /\ hops[y] \in Int /\ hops[z] \in Int
            /\ x.score \in Int /\ y.score \in Int /\ z.score \in Int
            /\ x.time \in Int /\ y.time \in Int /\ z.time \in Int
        BY <2>3
      <4>2. hops[x] <= hops[y] /\ hops[y] <= hops[z]
        BY ONLY <3>3, <4>1 DEF Nearer
      <4>3. CASE hops[x] = hops[y] /\ hops[y] = hops[z]
        <5>1. /\ x.score > y.score \/ (x.score = y.score /\ x.time > y.time)
              /\ y.score > z.score \/ (y.score = z.score /\ y.time > z.time)
          BY ONLY <3>3, <4>1, <4>3 DEF Nearer
        <5>2. x.score > z.score \/ (x.score = z.score /\ x.time > z.time)
          BY ONLY <5>1, <4>1
        <5> QED
          BY ONLY <4>1, <4>3, <5>2 DEF Nearer
      <4>4. CASE hops[x] # hops[y] \/ hops[y] # hops[z]
        <5>1. hops[x] < hops[z]
          BY ONLY <4>1, <4>2, <4>4
        <5> QED
          BY ONLY <5>1 DEF Nearer
      <4> QED
        BY ONLY <4>3, <4>4
    <3> HIDE DEF Closer, R
    <3> QED
      BY <3>1, <3>2, <3>3 DEF IsOrder
  <2>5. \E x \in hits : \A c \in hits : ~Closer(c, x)
    <3>1. PICK x \in hits : \A c \in hits : <<c, x>> \notin R
      <4> HIDE DEF hits, R
      <4> QED
        BY <1>4, <2>2, <2>4, MinimalExists
    <3> HIDE DEF hits, hops
    <3> QED
      BY <3>1
  <2>6. best \in hits
    <3> HIDE DEF hits, Closer
    <3> QED
      BY <2>5
  <2> DEFINE r == found
  <2>7. /\ r.event = e.id /\ r.entity = e.entity /\ r.time = e.time
        /\ r.detector = "topology_cascade" /\ r.score = score
        /\ r.context = TRUE /\ r.type = "CASCADE"
        /\ r.cause.event = best.event /\ r.cause.detector = best.detector
    <3> HIDE DEF best, score
    <3> QED
      BY DEF Record
  <2>8. best.score \in 0..100 /\ e.severity \in 0..100
    <3> HIDE DEF best
    <3> QED
      BY <2>3, <2>6 DEF CanonicalEvent
  <2>9. score \in 0..100
    <3>1. \A x, y \in 0..100 :
             /\ 70 * x + 30 * y + 50 \in Nat
             /\ 70 * x + 30 * y + 50 < 100 * (100 + 1)
      OBVIOUS
    <3>2. \A x, y \in 0..100 : (70 * x + 30 * y + 50) \div 100 \in 0..100
      BY <3>1, QuotientWithin
    <3> HIDE DEF best
    <3> QED
      BY <2>8, <3>2
  <2> HIDE DEF best, score, found
  <2>10. MadeFrom(r, e) /\ IsAnomaly(r)
    <3>1. /\ r.score \in 0..100 /\ r.detector \in ContextDetectors
          /\ r.type \in ContextTypes
      BY <2>7, <2>9 DEF ContextDetectors, ContextTypes
    <3> HIDE DEF r
    <3> QED
      BY <2>7, <3>1, RecordedIs
  <2>11. Named(r, best, G) /\ best \in A
    <3> HIDE DEF r, hits
    <3> QED
      BY <2>1, <2>3, <2>6, <2>7 DEF Named
  <2>12. IsFiniteSet({r})
    BY FS_Singleton
  <2> QED
    BY <1>4, <2>7, <2>10, <2>11, <2>12
<1> QED
  BY <1>1, <1>3, <1>4

(* What a detector says of the event that it looked at.                     *)
Evaluated(a, e, events, A, G) ==
    /\ MadeFrom(a, e) /\ IsAnomaly(a)
    /\ a.detector = "trace_structure" => TraceStructure(e, events) # {}
    /\ a.cause # NoCause => \E c \in A : Named(a, c, G)

(* What all detectors find on an event.                                    *)
LEMMA EventsAreEvaluated ==
    ASSUME NEW e, CanonicalEvent(e), NEW events, NEW A, IsFiniteSet(A),
           \A c \in A : IsAnomaly(c), NEW G, Cabled(G)
    PROVE  /\ IsFiniteSet(EvaluateEvent(e, events, A, G))
           /\ \A a \in EvaluateEvent(e, events, A, G) :
                 Evaluated(a, e, events, A, G)
<1>1. /\ IsFiniteSet(ReferenceThreshold(e)) /\ IsFiniteSet(LogRule(e))
      /\ IsFiniteSet(AlertSeverity(e)) /\ IsFiniteSet(TraceLatency(e))
      /\ IsFiniteSet(ConfigChangeMarker(e)) /\ IsFiniteSet(Statistical(e))
      /\ \A a \in ReferenceThreshold(e) \cup LogRule(e) \cup AlertSeverity(e)
                     \cup TraceLatency(e) \cup ConfigChangeMarker(e)
                     \cup Statistical(e) : Alone(a, e)
  BY PlainDetectors, StatisticalIs
<1>2. /\ IsFiniteSet(TraceStructure(e, events))
      /\ \A a \in TraceStructure(e, events) :
            MadeFrom(a, e) /\ IsAnomaly(a) /\ a.cause = NoCause
  BY TornSpans
<1>3. /\ IsFiniteSet(TopologyCascade(e, A, G))
      /\ \A a \in TopologyCascade(e, A, G) :
            /\ MadeFrom(a, e) /\ IsAnomaly(a)
            /\ a.detector = "topology_cascade"
            /\ \E c \in A : Named(a, c, G)
  BY CascadesName
<1>4. IsFiniteSet(EvaluateEvent(e, events, A, G))
  BY <1>1, <1>2, <1>3, FS_Union DEF EvaluateEvent
<1>5. ASSUME NEW a \in EvaluateEvent(e, events, A, G)
      PROVE  Evaluated(a, e, events, A, G)
  <2>1. CASE a \in TraceStructure(e, events)
    BY <1>2, <2>1 DEF Evaluated
  <2>2. CASE a \in TopologyCascade(e, A, G)
    BY <1>3, <2>2 DEF Evaluated
  <2>3. CASE a \notin TraceStructure(e, events) \cup TopologyCascade(e, A, G)
    <3>1. Alone(a, e)
      BY <1>1, <2>3 DEF EvaluateEvent
    <3> QED
      BY <3>1 DEF Alone, Evaluated
  <2> QED
    BY <2>1, <2>2, <2>3
<1> QED
  BY <1>4, <1>5

(* The anomalies after each event of a batch.                              *)
Accumulates(seen, found, batch, G) ==
    LET order == EvaluationOrder(batch) IN
    /\ seen[0] = found.anomalies
    /\ \A k \in 1..Len(order) :
          seen[k] = seen[k - 1] \cup
              EvaluateEvent(order[k], found.events \cup batch, seen[k - 1], G)
    /\ DetectBatch(found, batch, G).anomalies = seen[Len(order)]

(* DetectBatch satisfies the recursion of its definition.                  *)
LEMMA BatchIsEvaluated ==
    ASSUME NEW found, NEW batch, Dated(batch), NEW G
    PROVE  \E seen : Accumulates(seen, found, batch, G)
<1> DEFINE order == EvaluationOrder(batch)
           events == found.events \cup batch
           N == Len(order)
           After(k, before) ==
               before \cup EvaluateEvent(order[k], events, before, G)
           Is(g, n) == g = [k \in 0..n |-> IF k = 0 THEN found.anomalies
                                           ELSE After(k, g[k - 1])]
           seen == CHOOSE g : Is(g, N)
           S == {n \in Nat : \E g : Is(g, n)}
<1>0. N \in Nat
  BY OrderOfEvents DEF EvaluationOrder
<1>1. DetectBatch(found, batch, G)
         = [events |-> events, anomalies |-> seen[N]]
  BY DEF DetectBatch
<1> HIDE DEF order, events, After
<1>2. 0 \in S
  <2> DEFINE g == [k \in 0..0 |-> found.anomalies]
  <2>1. \A k \in 0..0 : k = 0
    OBVIOUS
  <2>2. Is(g, 0)
    BY <2>1
  <2> QED
    BY <2>2
<1>3. ASSUME NEW n \in 0..(N - 1), n \in S PROVE n + 1 \in S
  <2>1. PICK g : Is(g, n)
    BY <1>3
  <2> DEFINE h == [k \in 0..(n + 1) |->
                      IF k = n + 1 THEN After(n + 1, g[n]) ELSE g[k]]
  <2>2. n \in Nat /\ n + 1 \in Nat
    OBVIOUS
  <2>3. \A k \in 0..n : h[k] = g[k]
    OBVIOUS
  <2>4. \A k \in 0..n : g[k] = IF k = 0 THEN found.anomalies ELSE After(k, g[k - 1])
    BY <2>1
  <2>5. ASSUME NEW k \in 0..(n + 1)
        PROVE  h[k] = IF k = 0 THEN found.anomalies ELSE After(k, h[k - 1])
    <3>1. CASE k = n + 1
      <4>1. h[n] = g[n] /\ h[k] = After(n + 1, g[n])
        BY <2>2, <2>3, <3>1
      <4>2. k # 0 /\ k - 1 = n
        BY <2>2, <3>1
      <4> HIDE DEF h
      <4> QED
        BY <3>1, <4>1, <4>2
    <3>2. CASE k # n + 1
      <4>1. k \in 0..n /\ (k # 0 => k - 1 \in 0..n)
        BY <2>2, <3>2
      <4> HIDE DEF h
      <4> QED
        BY <2>3, <2>4, <4>1
    <3> QED
      BY <3>1, <3>2
  <2>6. DOMAIN h = 0..(n + 1) /\ h = [k \in 0..(n + 1) |-> h[k]]
    OBVIOUS
  <2> HIDE DEF h
  <2>7. Is(h, n + 1)
    BY <2>5, <2>6
  <2> HIDE DEF Is
  <2> QED
    BY <2>2, <2>7
<1>4. N \in S
  <2>1. N \in Nat /\ N \in 0..N
    BY <1>0
  <2> HIDE DEF S, N
  <2>2. \A n \in 0..N : n \in S
    BY <1>2, <1>3, <2>1, UpTo
  <2> QED
    BY <2>1, <2>2
<1>5. Is(seen, N)
  <2> HIDE DEF Is, N
  <2> QED
    BY <1>4
<1> HIDE DEF seen
<1>6. seen[0] = found.anomalies
  <2>1. 0 \in 0..N
    BY <1>0
  <2> QED
    BY <1>5, <2>1
<1>7. ASSUME NEW k \in 1..N PROVE seen[k] = After(k, seen[k - 1])
  <2>1. k \in 0..N /\ k # 0
    BY <1>0
  <2> HIDE DEF N
  <2> QED
    BY <1>5, <2>1
<1>8. DetectBatch(found, batch, G).anomalies = seen[N]
  BY <1>1
<1> QED
  BY <1>6, <1>7, <1>8 DEF order, events, After, Accumulates

(* The events of the first n batches.                                       *)
Arrived(B, n) == UNION {B[i] : i \in 1..n}

(* c was found on an event of an earlier batch than the m-th, or on one of   *)
(* the m-th that does not come after e.                                     *)
FoundBefore(B, c, m, e) ==
    \E l \in 1..m : \E f \in B[l] :
        MadeFrom(c, f) /\ (l = m => ~Before(e, f))

(* How an anomaly came to be found while the first n batches were evaluated. *)
Explained(B, G, D, n, a) ==
    \E m \in 1..n : \E e \in B[m] :
        /\ MadeFrom(a, e)
        /\ a.detector = "trace_structure"
              => TraceStructure(e, Arrived(B, m)) # {}
        /\ a.cause # NoCause
              => \E c \in D : Named(a, c, G) /\ FoundBefore(B, c, m, e)

Grounded(B, G, n, D) ==
    /\ IsFiniteSet(D)
    /\ \A a \in D : IsAnomaly(a) /\ Explained(B, G, D, n, a)

(* What has arrived with a batch.                                          *)
LEMMA OneMoreBatch ==
    ASSUME NEW B, NEW m \in Nat \ {0}
    PROVE  Arrived(B, m) = Arrived(B, m - 1) \cup B[m]
<1>1. \A i : i \in 1..m <=> i \in 1..(m - 1) \/ i = m
  OBVIOUS
<1> QED
  BY <1>1 DEF Arrived

(* What explains an anomaly is not lost later.                             *)
LEMMA StaysExplained ==
    ASSUME NEW B, NEW G, NEW D, NEW D2, D \subseteq D2,
           NEW n \in Nat, NEW n2 \in Nat, n <= n2,
           NEW a, Explained(B, G, D, n, a)
    PROVE  Explained(B, G, D2, n2, a)
<1>1. 1..n \subseteq 1..n2
  OBVIOUS
<1> QED
  BY <1>1 DEF Explained

(* Halfway through a batch, after k of its events.                          *)
Halfway(B, G, m, order, k, D) ==
    /\ Grounded(B, G, m, D)
    /\ \A a \in D : \/ \E l \in 1..(m - 1) : \E f \in B[l] : MadeFrom(a, f)
                    \/ \E j \in 1..k : MadeFrom(a, order[j])

(* The next event of a batch keeps every anomaly explained ...             *)
LEMMA EventGrounds ==
    ASSUME NEW B, NEW G, Cabled(G), NEW m \in Nat \ {0}, Dated(B[m]),
           \A e \in B[m] : CanonicalEvent(e),
           NEW order, order = InOrder(B[m]), NEW k \in 1..Len(order),
           NEW D, Halfway(B, G, m, order, k - 1, D)
    PROVE  Halfway(B, G, m, order, k,
               D \cup EvaluateEvent(order[k], Arrived(B, m), D, G))
<1> DEFINE e == order[k]
           found == EvaluateEvent(e, Arrived(B, m), D, G)
           D2 == D \cup found
<1>1. /\ Len(order) \in Nat /\ e \in B[m]
      /\ \A j \in 1..Len(order) : order[j] \in B[m]
      /\ \A j \in 1..Len(order) : j < k => ~Before(order[k], order[j])
  BY OrderOfEvents
<1>2. IsFiniteSet(D) /\ \A a \in D : IsAnomaly(a) /\ Explained(B, G, D, m, a)
  BY DEF Halfway, Grounded
<1>3. CanonicalEvent(e)
  BY <1>1
<1> HIDE DEF e
<1>4. /\ IsFiniteSet(found)
      /\ \A a \in found : Evaluated(a, e, Arrived(B, m), D, G)
  BY <1>2, <1>3, EventsAreEvaluated
<1> HIDE DEF found
<1>5. IsFiniteSet(D2)
  BY <1>2, <1>4, FS_Union
<1>6. ASSUME NEW c \in D PROVE FoundBefore(B, c, m, e)
  <2>1. CASE \E l \in 1..(m - 1) : \E f \in B[l] : MadeFrom(c, f)
    <3>1. PICK l \in 1..(m - 1) : \E f \in B[l] : MadeFrom(c, f)
      BY <2>1
    <3>2. l \in 1..m /\ l # m
      OBVIOUS
    <3> QED
      BY <3>1, <3>2 DEF FoundBefore
  <2>2. CASE \E j \in 1..(k - 1) : MadeFrom(c, order[j])
    <3>1. PICK j \in 1..(k - 1) : MadeFrom(c, order[j])
      BY <2>2
    <3>2. j \in 1..Len(order) /\ j < k /\ m \in 1..m
      BY <1>1
    <3>3. order[j] \in B[m] /\ ~Before(e, order[j])
      BY <1>1, <3>2 DEF e
    <3> QED
      BY <3>1, <3>2, <3>3 DEF FoundBefore
  <2> QED
    BY <2>1, <2>2 DEF Halfway
<1>7. ASSUME NEW a \in found PROVE Explained(B, G, D2, m, a)
  <2>1. m \in 1..m
    OBVIOUS
  <2>2. Evaluated(a, e, Arrived(B, m), D, G)
    BY <1>4
  <2>3. a.cause # NoCause
            => \E c \in D2 : Named(a, c, G) /\ FoundBefore(B, c, m, e)
    BY <1>6, <2>2 DEF Evaluated
  <2>4. e \in B[m]
    BY <1>1
  <2> HIDE DEF D2
  <2> QED
    BY <2>1, <2>2, <2>3, <2>4 DEF Explained, Evaluated
<1>8. Grounded(B, G, m, D2)
  <2>1. ASSUME NEW a \in D PROVE IsAnomaly(a) /\ Explained(B, G, D2, m, a)
    <3>1. D \subseteq D2 /\ m \in Nat /\ m <= m
      OBVIOUS
    <3> HIDE DEF D2
    <3> QED
      BY <1>2, <3>1, StaysExplained
  <2>2. ASSUME NEW a \in found PROVE IsAnomaly(a) /\ Explained(B, G, D2, m, a)
    BY <1>4, <1>7 DEF Evaluated
  <2> QED
    BY <1>5, <2>1, <2>2 DEF Grounded
<1>9. ASSUME NEW a \in D2
      PROVE  \/ \E l \in 1..(m - 1) : \E f \in B[l] : MadeFrom(a, f)
             \/ \E j \in 1..k : MadeFrom(a, order[j])
  <2>1. k \in 1..k /\ 1..(k - 1) \subseteq 1..k
    BY <1>1
  <2>2. CASE a \in D
    BY <2>1, <2>2 DEF Halfway
  <2>3. CASE a \in found
    BY <1>4, <2>1, <2>3 DEF Evaluated, e
  <2> QED
    BY <2>2, <2>3
<1> HIDE DEF D2
<1>10. Halfway(B, G, m, order, k, D2)
  BY <1>8, <1>9 DEF Halfway
<1> QED
  BY <1>10 DEF D2, found, e

(* ... and so does a whole batch ...                                       *)
LEMMA BatchGrounds ==
    ASSUME NEW B, NEW G, Cabled(G), NEW m \in Nat \ {0}, NEW batch, batch = B[m],
           Dated(batch), \A e \in batch : CanonicalEvent(e),
           NEW found, found.events = Arrived(B, m - 1),
           Grounded(B, G, m - 1, found.anomalies),
           NEW next, next = DetectBatch(found, batch, G)
    PROVE  next.events = Arrived(B, m) /\ Grounded(B, G, m, next.anomalies)
<1>1. PICK order : order = InOrder(batch)
  OBVIOUS
<1>2. Len(order) \in Nat
  BY <1>1, OrderOfEvents
<1>3. found.events \cup batch = Arrived(B, m)
  BY OneMoreBatch
<1>4. PICK seen : Accumulates(seen, found, batch, G)
  BY BatchIsEvaluated
<1>5. /\ seen[0] = found.anomalies
      /\ \A k \in 1..Len(order) :
            seen[k] = seen[k - 1] \cup
                EvaluateEvent(order[k], Arrived(B, m), seen[k - 1], G)
      /\ next.anomalies = seen[Len(order)]
  BY <1>1, <1>3, <1>4 DEF Accumulates, EvaluationOrder
<1> DEFINE N == Len(order)
           S == {k \in 0..N : Halfway(B, G, m, order, k, seen[k])}
<1>6. 0 \in S
  <2> DEFINE D == found.anomalies
  <2>1. m - 1 \in Nat /\ m - 1 <= m /\ m \in Nat /\ 0 \in 0..N
    BY <1>2
  <2>2. ASSUME NEW a \in D
        PROVE  /\ IsAnomaly(a) /\ Explained(B, G, D, m, a)
               /\ \E l \in 1..(m - 1) : \E f \in B[l] : MadeFrom(a, f)
    <3>1. IsAnomaly(a) /\ Explained(B, G, D, m - 1, a)
      BY DEF Grounded
    <3>2. Explained(B, G, D, m, a)
      BY <2>1, <3>1, StaysExplained
    <3> QED
      BY <3>1, <3>2 DEF Explained
  <2>3. IsFiniteSet(D)
    BY DEF Grounded
  <2>4. Halfway(B, G, m, order, 0, D)
    BY <2>2, <2>3 DEF Halfway, Grounded
  <2> QED
    BY <1>5, <2>1, <2>4
<1>7. ASSUME NEW k \in 0..(N - 1), k \in S PROVE k + 1 \in S
  <2> DEFINE j == k + 1
  <2>1. j \in 1..N /\ j \in 0..N /\ j - 1 = k
    BY <1>2
  <2>2. Halfway(B, G, m, order, j - 1, seen[j - 1])
    BY <1>7, <2>1
  <2>3. seen[j] = seen[j - 1] \cup
            EvaluateEvent(order[j], Arrived(B, m), seen[j - 1], G)
    BY <1>5, <2>1
  <2> HIDE DEF j
  <2>4. Halfway(B, G, m, order, j, seen[j])
    <3>1. j \in 1..Len(order)
      BY <2>1
    <3>2. order = InOrder(B[m])
      BY <1>1
    <3>3. Halfway(B, G, m, order, j, seen[j - 1] \cup
              EvaluateEvent(order[j], Arrived(B, m), seen[j - 1], G))
      BY <2>2, <3>1, <3>2, EventGrounds
    <3> QED
      BY <2>3, <3>3
  <2>5. j \in S
    BY <2>1, <2>4
  <2> QED
    BY <2>5 DEF j
<1>8. Halfway(B, G, m, order, N, seen[N])
  <2>1. N \in 0..N
    BY <1>2
  <2>3. N \in Nat
    BY <1>2
  <2> HIDE DEF N, S
  <2>2. \A k \in 0..N : k \in S
    BY <2>3, <1>6, <1>7, UpTo
  <2> QED
    BY <2>1, <2>2 DEF S
<1>9. next.events = Arrived(B, m)
  BY <1>3 DEF DetectBatch
<1> HIDE DEF N
<1>10. next.anomalies = seen[N]
  BY <1>5 DEF N
<1> QED
  BY <1>8, <1>9, <1>10 DEF Halfway

(* What is stored after each batch.                                        *)
Stores(found, B, G) ==
    /\ found[0] = [events |-> {}, anomalies |-> {}]
    /\ \A n \in 1..Len(B) : found[n] = DetectBatch(found[n - 1], B[n], G)
    /\ Detect(B, G) = found[Len(B)].anomalies

(* Detect satisfies the recursion of its definition.                       *)
LEMMA BatchesAreStored ==
    ASSUME NEW B, Len(B) \in Nat, NEW G
    PROVE  \E found : Stores(found, B, G)
<1> DEFINE N == Len(B)
           Empty == [events |-> {}, anomalies |-> {}]
           After(k, before) == DetectBatch(before, B[k], G)
           Is(g, n) == g = [k \in 0..n |-> IF k = 0 THEN Empty
                                           ELSE After(k, g[k - 1])]
           found == CHOOSE g : Is(g, N)
           S == {n \in Nat : \E g : Is(g, n)}
<1>1. Detect(B, G) = found[N].anomalies
  BY DEF Detect
<1> HIDE DEF After, Empty
<1>2. 0 \in S
  <2> DEFINE g == [k \in 0..0 |-> Empty]
  <2>1. \A k \in 0..0 : k = 0
    OBVIOUS
  <2>2. Is(g, 0)
    BY <2>1
  <2> QED
    BY <2>2
<1>3. ASSUME NEW n \in 0..(N - 1), n \in S PROVE n + 1 \in S
  <2>1. PICK g : Is(g, n)
    BY <1>3
  <2> DEFINE h == [k \in 0..(n + 1) |->
                      IF k = n + 1 THEN After(n + 1, g[n]) ELSE g[k]]
  <2>2. n \in Nat /\ n + 1 \in Nat
    OBVIOUS
  <2>3. \A k \in 0..n : h[k] = g[k]
    OBVIOUS
  <2>4. \A k \in 0..n : g[k] = IF k = 0 THEN Empty ELSE After(k, g[k - 1])
    BY <2>1
  <2>5. ASSUME NEW k \in 0..(n + 1)
        PROVE  h[k] = IF k = 0 THEN Empty ELSE After(k, h[k - 1])
    <3>1. CASE k = n + 1
      <4>1. h[n] = g[n] /\ h[k] = After(n + 1, g[n])
        BY <2>2, <2>3, <3>1
      <4>2. k # 0 /\ k - 1 = n
        BY <2>2, <3>1
      <4> HIDE DEF h
      <4> QED
        BY <3>1, <4>1, <4>2
    <3>2. CASE k # n + 1
      <4>1. k \in 0..n /\ (k # 0 => k - 1 \in 0..n)
        BY <2>2, <3>2
      <4> HIDE DEF h
      <4> QED
        BY <2>3, <2>4, <4>1
    <3> QED
      BY <3>1, <3>2
  <2>6. DOMAIN h = 0..(n + 1) /\ h = [k \in 0..(n + 1) |-> h[k]]
    OBVIOUS
  <2> HIDE DEF h
  <2>7. Is(h, n + 1)
    BY <2>5, <2>6
  <2> HIDE DEF Is
  <2> QED
    BY <2>2, <2>7
<1>4. N \in S
  <2>1. N \in Nat /\ N \in 0..N
    OBVIOUS
  <2> HIDE DEF S, N
  <2>2. \A n \in 0..N : n \in S
    BY <1>2, <1>3, <2>1, UpTo
  <2> QED
    BY <2>1, <2>2
<1>5. Is(found, N)
  <2> HIDE DEF Is, N
  <2> QED
    BY <1>4
<1> HIDE DEF found
<1>6. found[0] = Empty
  <2>1. 0 \in 0..N
    OBVIOUS
  <2> QED
    BY <1>5, <2>1
<1>7. ASSUME NEW n \in 1..N PROVE found[n] = After(n, found[n - 1])
  <2>1. n \in 0..N /\ n # 0
    OBVIOUS
  <2> HIDE DEF N
  <2> QED
    BY <1>5, <2>1
<1> QED
  BY <1>1, <1>6, <1>7 DEF After, Empty, Stores

(* Batches as the event table guarantees them.                             *)
Deliverable(B) ==
    /\ Len(B) \in Nat /\ DOMAIN B = 1..Len(B)
    /\ \A n \in 1..Len(B) :
          IsFiniteSet(B[n]) /\ \A e \in B[n] : CanonicalEvent(e)
    /\ \A n, m \in 1..Len(B) : \A e \in B[n], f \in B[m] : e.id = f.id => e = f

(* ... and so do all batches.                                              *)
LEMMA DeliveriesGround ==
    ASSUME NEW B, Deliverable(B), NEW G, Cabled(G)
    PROVE  Grounded(B, G, Len(B), Detect(B, G))
<1> DEFINE N == Len(B)
<1>1. N \in Nat
  BY DEF Deliverable
<1>2. PICK found : Stores(found, B, G)
  BY <1>1, BatchesAreStored
<1> DEFINE S == {n \in 0..N : /\ found[n].events = Arrived(B, n)
                              /\ Grounded(B, G, n, found[n].anomalies)}
<1>3. 0 \in S
  <2>1. found[0].events = {} /\ found[0].anomalies = {} /\ 0 \in 0..N
    BY <1>1, <1>2 DEF Stores
  <2>2. Arrived(B, 0) = {}
    BY DEF Arrived
  <2>3. IsFiniteSet({})
    BY FS_EmptySet
  <2> QED
    BY <2>1, <2>2, <2>3 DEF Grounded
<1>4. ASSUME NEW n \in 0..(N - 1), n \in S PROVE n + 1 \in S
  <2>1. PICK m \in 1..N : m = n + 1
    BY <1>1
  <2>2. m \in Nat \ {0} /\ m - 1 = n /\ m \in 0..N
    BY <1>1, <2>1
  <2>3. found[m] = DetectBatch(found[n], B[m], G)
    BY <1>2, <2>2 DEF Stores
  <2>4. Dated(B[m]) /\ \A e \in B[m] : CanonicalEvent(e)
    BY DEF Deliverable, Dated, CanonicalEvent
  <2>5. /\ found[n].events = Arrived(B, m - 1)
        /\ Grounded(B, G, m - 1, found[n].anomalies)
    BY <1>4, <2>2
  <2> HIDE DEF N, S
  <2>6. found[m].events = Arrived(B, m) /\ Grounded(B, G, m, found[m].anomalies)
    BY <2>2, <2>3, <2>4, <2>5, BatchGrounds
  <2>7. m \in S
    BY <2>2, <2>6 DEF S
  <2> QED
    BY <2>1, <2>7
<1>5. N \in S
  <2>1. N \in 0..N
    BY <1>1
  <2> HIDE DEF N, S
  <2>2. \A n \in 0..N : n \in S
    BY <1>1, <1>3, <1>4, UpTo
  <2> QED
    BY <2>1, <2>2
<1> QED
  BY <1>2, <1>5 DEF Stores

-----------------------------------------------------------------------------
(* The theorems about what is detected.                                    *)

(* This holds for what is detected on the incident.                        *)
LEMMA DetectedOnIncident ==
    ASSUME FromIncident
    PROVE  /\ Cabled(bundle.edges)
           /\ Deliverable(bundle.batches)
           /\ Grounded(bundle.batches, bundle.edges, Len(bundle.batches),
                       bundle.detected)
<1>1. PICK inc \in Incidents : bundle = Bundle(inc)
  BY DEF FromIncident
<1>2. /\ bundle.edges = inc.edges /\ bundle.batches = inc.batches
      /\ bundle.detected = Detect(inc.batches, inc.edges)
  BY <1>1 DEF Bundle
<1>3. Cabled(inc.edges)
  BY TopologyAssumption DEF Cabled
<1>4. Deliverable(inc.batches)
  <2> DEFINE B == inc.batches
             delivered == UNION Range(B)
  <2>1. /\ B \in Seq(SUBSET delivered)
        /\ \A n \in DOMAIN B : IsFiniteSet(B[n])
        /\ \A e \in delivered : CanonicalEvent(e)
        /\ \A e, f \in delivered : e.id = f.id => e = f
    BY DeliveryAssumption
  <2>2. Len(B) \in Nat /\ DOMAIN B = 1..Len(B)
    BY <2>1
  <2>3. \A n \in 1..Len(B) : B[n] \subseteq delivered
    BY <2>1, <2>2
  <2> HIDE DEF B, delivered
  <2>4. Deliverable(B)
    BY <2>1, <2>2, <2>3 DEF Deliverable
  <2> QED
    BY <2>4 DEF B
<1> QED
  BY <1>2, <1>3, <1>4, DeliveriesGround

(* Each anomaly of the incident has its explanation.                       *)
LEMMA Explanations ==
    ASSUME FromIncident, NEW a \in bundle.detected
    PROVE  /\ IsAnomaly(a)
           /\ Explained(bundle.batches, bundle.edges, bundle.detected,
                        Len(bundle.batches), a)
<1> QED
  BY DetectedOnIncident DEF Grounded

(* The cause of a cascade signal was found before it, upstream of it.      *)
LEMMA CausesAreFound ==
    ASSUME FromIncident, NEW a \in Cascades
    PROVE  \E m \in 1..Len(bundle.batches) : \E e \in bundle.batches[m] :
             \E c \in bundle.detected :
                /\ MadeFrom(a, e) /\ Named(a, c, bundle.edges)
                /\ FoundBefore(bundle.batches, c, m, e)
                /\ CauseOf(a) \in bundle.detected
                /\ CauseOf(a).event = c.event /\ CauseOf(a).detector = c.detector
<1>1. a \in bundle.detected /\ a.cause # NoCause
  BY DEF Cascades
<1>2. PICK m \in 1..Len(bundle.batches) : \E e \in bundle.batches[m] :
          /\ MadeFrom(a, e)
          /\ \E c \in bundle.detected : /\ Named(a, c, bundle.edges)
                                        /\ FoundBefore(bundle.batches, c, m, e)
  BY <1>1, Explanations DEF Explained
<1>3. PICK e \in bundle.batches[m] :
          /\ MadeFrom(a, e)
          /\ \E c \in bundle.detected : /\ Named(a, c, bundle.edges)
                                        /\ FoundBefore(bundle.batches, c, m, e)
  BY <1>2
<1>4. PICK c \in bundle.detected : /\ Named(a, c, bundle.edges)
                                   /\ FoundBefore(bundle.batches, c, m, e)
  BY <1>3
<1>5. /\ CauseOf(a) \in bundle.detected
      /\ CauseOf(a).event = c.event /\ CauseOf(a).detector = c.detector
  BY <1>4 DEF CauseOf, Named
<1> QED
  BY <1>3, <1>4, <1>5

(* The three properties follow.                                            *)
LEMMA IncidentsDoNotCascade == FromIncident => CascadesDoNotCascade
<1> SUFFICES ASSUME FromIncident, NEW a \in Cascades PROVE ~CauseOf(a).context
  BY DEF CascadesDoNotCascade
<1>1. PICK c \in bundle.detected :
          /\ c.context = FALSE /\ CauseOf(a) \in bundle.detected
          /\ CauseOf(a).detector = c.detector
  BY CausesAreFound DEF Named
<1>2. IsAnomaly(c) /\ IsAnomaly(CauseOf(a))
  BY <1>1, Explanations
<1>3. c.detector \notin ContextDetectors
  BY <1>1, <1>2 DEF IsAnomaly
<1> QED
  BY <1>1, <1>2, <1>3 DEF IsAnomaly

(* A cascade signal is downstream, and older only if its event is late.    *)
LEMMA IncidentsFollow == FromIncident => CascadesFollowTheirCause
<1> SUFFICES ASSUME FromIncident, NEW a \in Cascades
             PROVE  /\ \E relation \in DOMAIN bundle.edges : \E n \in 1..MaxHops :
                          Paths(Entities, bundle.edges[relation],
                                CauseOf(a).entity, a.entity, n) # {}
                    /\ CauseOf(a).time > a.time
                          => ArrivedLater(a.event, CauseOf(a).event)
  BY DEF CascadesFollowTheirCause
<1> DEFINE B == bundle.batches
           cause == CauseOf(a)
<1>1. PICK m \in 1..Len(B) : \E e \in B[m] : \E c \in bundle.detected :
          /\ MadeFrom(a, e) /\ Named(a, c, bundle.edges)
          /\ FoundBefore(B, c, m, e)
          /\ cause \in bundle.detected /\ cause.event = c.event
  BY CausesAreFound
<1>2. PICK e \in B[m] : \E c \in bundle.detected :
          /\ MadeFrom(a, e) /\ Named(a, c, bundle.edges)
          /\ FoundBefore(B, c, m, e)
          /\ cause \in bundle.detected /\ cause.event = c.event
  BY <1>1
<1>3. PICK c \in bundle.detected :
          /\ MadeFrom(a, e) /\ Named(a, c, bundle.edges)
          /\ FoundBefore(B, c, m, e)
          /\ cause \in bundle.detected /\ cause.event = c.event
  BY <1>2
<1>4. Deliverable(B)
  BY DetectedOnIncident
<1> HIDE DEF cause, B
<1>5. Len(B) \in Nat /\ m \in 1..Len(B) /\ m \in Nat
  BY <1>4 DEF Deliverable
<1>6. PICK l \in 1..m : \E f \in B[l] :
          MadeFrom(c, f) /\ (l = m => ~Before(e, f))
  BY <1>3 DEF FoundBefore
<1>7. PICK f \in B[l] : MadeFrom(c, f) /\ (l = m => ~Before(e, f))
  BY <1>6
<1>8. l \in 1..Len(B) /\ l <= m
  BY <1>5
<1>9. PICK k \in 1..Len(B) : \E g \in B[k] : MadeFrom(cause, g)
  BY <1>3, Explanations DEF Explained, B
<1>10. PICK g \in B[k] : MadeFrom(cause, g)
  BY <1>9
<1>11. g = f
  <2>1. g.id = f.id
    BY <1>3, <1>7, <1>10 DEF MadeFrom
  <2> QED
    BY <1>4, <1>8, <2>1 DEF Deliverable
<1>12. cause.entity = c.entity /\ cause.time = f.time /\ cause.event = f.id
  BY <1>7, <1>10, <1>11 DEF MadeFrom
<1>13. Downstream(cause.entity, a.entity, bundle.edges)
  BY <1>3, <1>12 DEF Named
<1>14. ASSUME cause.time > a.time PROVE ArrivedLater(a.event, cause.event)
  <2>1. a.time = e.time /\ a.event = e.id
    BY <1>3 DEF MadeFrom
  <2>2. e.time \in Int /\ f.time \in Int
    BY <1>4, <1>8 DEF Deliverable, CanonicalEvent
  <2>3. Before(e, f)
    BY <1>12, <1>14, <2>1, <2>2 DEF Before
  <2>4. m > l
    BY <1>5, <1>7, <1>8, <2>3
  <2>5. DOMAIN B = 1..Len(B)
    BY <1>4 DEF Deliverable
  <2> QED
    BY <1>5, <1>8, <1>12, <2>1, <2>4, <2>5 DEF ArrivedLater, B
<1> QED
  BY <1>13, <1>14 DEF Downstream, cause

(* A span whose parent has arrived and started before is not torn.         *)
LEMMA IncidentsPassTraces == FromIncident => WholeTracesPass
<1> SUFFICES ASSUME FromIncident, NEW e \in UNION Range(bundle.batches),
                    NEW p \in UNION Range(bundle.batches),
                    p.modality = "trace", p.session = e.session,
                    p.span = e.parent, p.time < e.time,
                    p.time >= e.time - Window, ~ArrivedLater(p.id, e.id),
                    NEW a \in bundle.detected, a.event = e.id,
                    a.detector = "trace_structure"
             PROVE  FALSE
  BY DEF WholeTracesPass
<1> DEFINE B == bundle.batches
<1>1. Deliverable(B)
  BY DetectedOnIncident
<1>2. PICK i \in 1..Len(B) : e \in B[i]
  BY <1>1 DEF Deliverable, Range
<1>3. PICK j \in 1..Len(B) : p \in B[j]
  BY <1>1 DEF Deliverable, Range
<1> HIDE DEF B
<1>4. PICK m \in 1..Len(B) : \E x \in B[m] :
          /\ MadeFrom(a, x)
          /\ TraceStructure(x, Arrived(B, m)) # {}
  BY Explanations DEF Explained, B
<1>5. PICK x \in B[m] :
          /\ MadeFrom(a, x)
          /\ TraceStructure(x, Arrived(B, m)) # {}
  BY <1>4
<1>6. x = e
  <2>1. x.id = e.id
    BY <1>5 DEF MadeFrom
  <2> QED
    BY <1>1, <1>2, <2>1 DEF Deliverable
<1>7. p \notin Arrived(B, m)
  BY <1>5, <1>6 DEF TraceStructure, History
<1>8. Len(B) \in Nat /\ m \in Nat /\ j \in Nat
  BY <1>1 DEF Deliverable
<1>9. j > m
  BY <1>3, <1>7, <1>8 DEF Arrived
<1>10. DOMAIN B = 1..Len(B) /\ e \in B[m]
  BY <1>1, <1>5, <1>6 DEF Deliverable
<1> QED
  BY <1>3, <1>9, <1>10 DEF ArrivedLater, B

(* A cascade signal is downstream of the anomaly that it names by at most   *)
(* MaxHops edges of one type, and is not before it, unless its event came in *)
(* a later batch (detect_topology_cascade, process_batch, _build_context).   *)
THEOREM CascadesAreDownstream == Spec => []CascadesFollowTheirCause
<1> QED
  BY SnapshotInit, SnapshotNext, IncidentsFollow, PTL DEF Spec

(* A cascade signal names a symptom, not another cascade signal and not a   *)
(* configuration change (_build_context filters the context out).           *)
THEOREM CascadesNameSymptoms == Spec => []CascadesDoNotCascade
<1> QED
  BY SnapshotInit, SnapshotNext, IncidentsDoNotCascade, PTL DEF Spec

(* A span is not reported as torn from its trace if its parent started       *)
(* before it in the window and came in the same batch or an earlier one      *)
(* (detect_trace_structure on the history of _build_context).              *)
THEOREM WholeTracesAlwaysPass == Spec => []WholeTracesPass
<1> QED
  BY SnapshotInit, SnapshotNext, IncidentsPassTraces, PTL DEF Spec
=============================================================================
