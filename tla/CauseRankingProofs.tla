-------------------------- MODULE CauseRankingProofs --------------------------
(***************************************************************************)
(* Proofs about what IncidentAnalysis computes with CauseRanking and        *)
(* EvidenceCollection, for every incident, topology, playbook and length of *)
(* the catalogue, as long as the catalogue is what hypotheses.yaml is:      *)
(*   - factors, scores and the order of the hypotheses;                     *)
(*   - what a conflict does to a score and to the evidence;                 *)
(*   - the ids of the evidence;                                            *)
(*   - that ranker and collector count the same evidence;                   *)
(*   - the routes from the affected entities to a cause;                    *)
(*   - that context does not rank.                                         *)
(***************************************************************************)
EXTENDS IncidentAnalysisProofs

-----------------------------------------------------------------------------
(* What the engine may take for granted of a bundle.                        *)

Readable(b) ==
    /\ Dated(b.events)
    /\ \A a \in b.anomalies : IsAnomaly(a)
    /\ b.primary \in Entities /\ b.affected \in Seq(Entities)
    /\ \A relation \in {"sends_traffic_to", "depends_on"} :
          b.edges[relation] \in SUBSET (Entities \X Entities)
    /\ \A h \in b.history : h.similarity \in {0, 5000, Whole}

(* A set of numbers with an upper bound has a greatest element.             *)
LEMMA GreatestExists ==
    ASSUME NEW n \in Nat, NEW T \in SUBSET (0..n), T # {}
    PROVE  Max(T) \in T /\ \A m \in T : m <= Max(T)
<1> DEFINE U == {n - m : m \in T}
<1>1. U \in SUBSET Nat /\ U # {}
  <2>1. \A m \in T : n - m \in Nat
    OBVIOUS
  <2> QED
    BY <2>1
<1>2. PICK u \in U : \A m \in U : u <= m
  BY ONLY <1>1, LeastExists
<1>3. PICK x \in T : u = n - x
  OBVIOUS
<1>4. ASSUME NEW m \in T PROVE x >= m
  <2>1. n - m \in U
    OBVIOUS
  <2>2. n - x <= n - m
    BY <1>2, <1>3, <2>1
  <2>3. n \in Int /\ x \in Int /\ m \in Int
    OBVIOUS
  <2> HIDE DEF U
  <2> QED
    BY ONLY <2>2, <2>3
<1>5. \E y \in T : \A m \in T : y >= m
  BY <1>4
<1>6. Max(T) \in T /\ \A m \in T : Max(T) >= m
  BY <1>5 DEF Max
<1> QED
  BY <1>6

(* A set of natural numbers has a least element.                           *)
LEMMA LeastIs ==
    ASSUME NEW T \in SUBSET Nat, T # {}
    PROVE  Min(T) \in T /\ \A m \in T : Min(T) <= m
<1>1. \E y \in T : \A m \in T : y <= m
  BY LeastExists
<1> QED
  BY <1>1 DEF Min

(* The bundle of an incident is readable.                                  *)
LEMMA BundleIsReadable == FromIncident => Readable(bundle)
<1> SUFFICES ASSUME FromIncident PROVE Readable(bundle)
  OBVIOUS
<1>1. PICK inc \in Incidents : bundle = Bundle(inc)
  BY DEF FromIncident
<1> DEFINE detected == Detect(inc.batches, inc.edges)
           plain == [batches   |-> inc.batches,
                     detected  |-> detected,
                     events    |-> inc.events,
                     anomalies |-> {a \in detected :
                                       \E e \in inc.events : e.id = a.event},
                     primary   |-> inc.primary,
                     affected  |-> inc.affected,
                     edges     |-> inc.edges,
                     history   |-> {}]
<1>2. bundle = [plain EXCEPT !.history = HistoricalMatches(plain)]
  BY <1>1 DEF Bundle
<1>3. /\ bundle.events = inc.events
      /\ bundle.anomalies \subseteq bundle.detected
      /\ bundle.primary = inc.primary /\ bundle.affected = inc.affected
      /\ bundle.edges = inc.edges
      /\ bundle.history = HistoricalMatches(plain)
  BY <1>2
<1> HIDE DEF plain
<1>4. Dated(inc.events)
  <2> DEFINE B == inc.batches
             delivered == UNION Range(B)
  <2>1. /\ B \in Seq(SUBSET delivered)
        /\ \A n \in DOMAIN B : IsFiniteSet(B[n])
        /\ \A e \in delivered : CanonicalEvent(e)
        /\ \A e, f \in delivered : e.id = f.id => e = f
        /\ inc.events \subseteq delivered
    BY DeliveryAssumption
  <2> HIDE DEF B
  <2>2. IsFiniteSet(Range(B))
    <3>1. Len(B) \in Nat /\ DOMAIN B = 1..Len(B)
      BY <2>1
    <3>2. IsFiniteSet(1..Len(B))
      BY <3>1, FS_Interval
    <3>3. B \in Surjection(DOMAIN B, Range(B))
      BY <2>1 DEF Surjection, Range
    <3> QED
      BY <3>1, <3>2, <3>3, FS_Surjection
  <2>3. IsFiniteSet(delivered)
    <3>1. \A S \in Range(B) : IsFiniteSet(S)
      BY <2>1 DEF Range
    <3> QED
      BY ONLY <2>2, <3>1, FS_UNION
  <2>4. IsFiniteSet(inc.events)
    BY <2>1, <2>3, FS_Subset
  <2> HIDE DEF delivered
  <2>5. \A e \in inc.events : e.time \in Int /\ e.id \in Int
    BY <2>1 DEF CanonicalEvent
  <2> QED
    BY <2>1, <2>4, <2>5 DEF Dated
<1>5. \A a \in bundle.anomalies : IsAnomaly(a)
  BY <1>3, Explanations
<1>6. inc.primary \in Entities /\ inc.affected \in Seq(Entities)
  BY LocationAssumption
<1>7. \A relation \in {"sends_traffic_to", "depends_on"} :
          inc.edges[relation] \in SUBSET (Entities \X Entities)
  BY TopologyAssumption
<1>8. \A h \in HistoricalMatches(plain) : h.similarity \in {0, 5000, Whole}
  <2>1. \A past : SimilarityOf(past, plain) \in {0, 5000, Whole}
    BY DEF SimilarityOf
  <2> QED
    BY <2>1 DEF HistoricalMatches
<1> QED
  BY <1>3, <1>4, <1>5, <1>6, <1>7, <1>8 DEF Readable

(* The entities that an entry suggests are numbered.                       *)
LEMMA SelectedInOrder ==
    ASSUME NEW b, Readable(b), NEW k \in DOMAIN Catalogue
    PROVE  DOMAIN SelectEntities(Catalogue[k], b) \in SUBSET Nat
<1> DEFINE entry == Catalogue[k]
           referring == {e \in MatchedEvents(entry, b) : e.dependency # NoEntity}
<1>1. entry.selector \in {"primary_entity", "changed_entity",
                          "event_entity", "referenced_dependency"}
  BY CatalogueAssumption
<1>2. ASSUME NEW S \in SUBSET b.events
      PROVE  DOMAIN InOrder(S) \in SUBSET Nat
  <2>1. Cardinality(S) \in Nat
    BY FS_Subset, FS_CardinalityType DEF Readable, Dated
  <2> QED
    BY <2>1 DEF InOrder
<1>3. /\ MatchedEvents(entry, b) \in SUBSET b.events
      /\ Changes(b) \in SUBSET b.events
      /\ referring \in SUBSET b.events
  BY DEF MatchedEvents, EventsWithAnomaly, Changes
<1>4. /\ DOMAIN InOrder(MatchedEvents(entry, b)) \in SUBSET Nat
      /\ DOMAIN InOrder(Changes(b)) \in SUBSET Nat
      /\ DOMAIN InOrder(referring) \in SUBSET Nat
  BY <1>2, <1>3
<1>5. DOMAIN <<b.primary>> \in SUBSET Nat
  OBVIOUS
<1> HIDE DEF entry
<1>6. DOMAIN SelectEntities(entry, b) \in SUBSET Nat
  BY <1>1, <1>4, <1>5 DEF SelectEntities
<1> QED
  BY <1>6 DEF entry

(* A cause is a candidate once, with an entity that is within the topology   *)
(* and that it may be located at.                                          *)
LEMMA CandidatesAre ==
    ASSUME NEW b, Readable(b)
    PROVE  /\ IsFiniteSet(Candidates(b))
           /\ \A c \in Candidates(b) :
                 /\ c.cause \in DOMAIN Catalogue
                 /\ Admissible(Catalogue[c.cause], b, c.entity)
           /\ \A c, d \in Candidates(b) : c.cause = d.cause => c = d
<1> DEFINE named(k) == SelectEntities(Catalogue[k], b)
           fits(k) == {n \in DOMAIN named(k) :
                          Admissible(Catalogue[k], b, named(k)[n])}
           causes == {c \in DOMAIN Catalogue :
                         RulesMatch(Catalogue[c], b) /\ fits(c) # {}}
           candidate == [k \in causes |->
                           [cause |-> k, entity |-> named(k)[Min(fits(k))]]]
<1>1. Candidates(b) = {candidate[k] : k \in causes}
  BY DEF Candidates
<1>2. IsFiniteSet(causes)
  <2>1. Len(Catalogue) \in Nat /\ DOMAIN Catalogue = 1..Len(Catalogue)
    BY CatalogueAssumption
  <2>2. IsFiniteSet(DOMAIN Catalogue)
    BY <2>1, FS_Interval
  <2> QED
    BY <2>2, FS_Subset
<1>3. ASSUME NEW k \in causes
      PROVE  /\ candidate[k].cause = k
             /\ Admissible(Catalogue[k], b, candidate[k].entity)
  <2>1. fits(k) \in SUBSET Nat /\ fits(k) # {}
    BY SelectedInOrder
  <2>2. Min(fits(k)) \in fits(k)
    <3> HIDE DEF fits
    <3> QED
      BY <2>1, LeastIs
  <2>3. Admissible(Catalogue[k], b, named(k)[Min(fits(k))])
    BY <2>2
  <2>4. /\ candidate[k].cause = k
        /\ candidate[k].entity = named(k)[Min(fits(k))]
    <3> HIDE DEF named, fits
    <3> QED
      OBVIOUS
  <2> HIDE DEF named, fits, candidate
  <2> QED
    BY <2>3, <2>4
<1>4. IsFiniteSet(Candidates(b))
  <2> HIDE DEF causes
  <2>1. candidate \in Surjection(causes, Candidates(b))
    <3>1. candidate \in [causes -> Candidates(b)]
      BY <1>1
    <3> HIDE DEF candidate
    <3> QED
      BY <1>1, <3>1 DEF Surjection
  <2> QED
    BY <1>2, <2>1, FS_Surjection
<1> HIDE DEF candidate, fits, named
<1> QED
  BY <1>1, <1>3, <1>4

-----------------------------------------------------------------------------
(* The factors.                                                            *)

(* A ratio is a share of Whole.                                            *)
LEMMA RatioIs ==
    ASSUME NEW declared \in Nat, NEW observed \in 0..declared
    PROVE  Ratio(observed, declared) \in 0..Whole
<1>1. CASE declared = 0
  BY <1>1 DEF Ratio, Whole
<1>2. CASE declared # 0
  <2> DEFINE a == 2 * Whole * observed + declared
             n == 2 * declared
  <2>1. a \in Nat /\ n \in Nat \ {0} /\ a < n * (Whole + 1) /\ Whole \in Nat
    BY <1>2 DEF Whole
  <2> HIDE DEF a, n
  <2>2. a \div n \in 0..Whole
    BY <2>1, QuotientWithin
  <2> QED
    BY <1>2, <2>2 DEF Ratio, a, n
<1> QED
  BY <1>1, <1>2

(* Places of a sequence are at most as many as it is long.                 *)
LEMMA SharesAreCounted ==
    ASSUME NEW s, s \in Seq(Range(s)), NEW T \in SUBSET DOMAIN s
    PROVE  Len(s) \in Nat /\ Cardinality(T) \in 0..Len(s)
<1>1. Len(s) \in Nat /\ DOMAIN s = 1..Len(s)
  OBVIOUS
<1>2. IsFiniteSet(1..Len(s)) /\ Cardinality(1..Len(s)) = Len(s)
  <2>1. \A n \in Nat : IsFiniteSet(1..n) /\ Cardinality(1..n) = n
    BY FS_Interval
  <2> QED
    BY <1>1, <2>1
<1>3. IsFiniteSet(T) /\ Cardinality(T) <= Len(s)
  BY <1>1, <1>2, FS_Subset
<1>4. Cardinality(T) \in Nat
  BY <1>3, FS_CardinalityType
<1> QED
  BY <1>1, <1>3, <1>4

(* The stages of a propagation, one by one.                                 *)
Counts(counted, first, n) ==
    counted = [k \in 0..n |->
                  IF k = 0 THEN [number |-> 0, last |-> 0]
                  ELSE LET before == counted[k - 1] IN
                       IF \/ first[k] = NoEvent
                          \/ before.number > 0 /\ first[k].time < before.last
                       THEN before
                       ELSE [number |-> before.number + 1,
                             last |-> first[k].time]]

(* No more stages count than there are.                                    *)
LEMMA StagesAreCounted ==
    ASSUME NEW n \in Nat, NEW first, Len(first) = n
    PROVE  StagesInOrder(first) \in 0..n
<1> DEFINE S == {k \in Nat : \E f : Counts(f, first, k)}
<1>1. 0 \in S
  <2> DEFINE f == [k \in 0..0 |-> [number |-> 0, last |-> 0]]
  <2>1. Counts(f, first, 0)
    BY DEF Counts
  <2> QED
    BY <2>1
<1>2. ASSUME NEW k \in 0..(n - 1), k \in S PROVE k + 1 \in S
  <2>1. PICK f : Counts(f, first, k)
    BY <1>2
  <2> DEFINE before == f[k]
             new == IF \/ first[k + 1] = NoEvent
                       \/ before.number > 0 /\ first[k + 1].time < before.last
                    THEN before
                    ELSE [number |-> before.number + 1,
                          last |-> first[k + 1].time]
             g == [j \in 0..(k + 1) |-> IF j = k + 1 THEN new ELSE f[j]]
  <2>2. k \in Nat /\ k + 1 \in Nat
    OBVIOUS
  <2>3. Counts(g, first, k + 1)
    <3>1. \A j \in 0..k : g[j] = f[j]
      OBVIOUS
    <3>2. g[k + 1] = new
      OBVIOUS
    <3>3. g[0] = [number |-> 0, last |-> 0]
      <4>1. f[0] = [number |-> 0, last |-> 0]
        BY <2>1, <2>2 DEF Counts
      <4> HIDE DEF g
      <4> QED
        BY <3>1, <4>1, <2>2
    <3>4. ASSUME NEW j \in 0..(k + 1), j # 0
          PROVE  g[j] = LET b == g[j - 1] IN
                        IF \/ first[j] = NoEvent
                           \/ b.number > 0 /\ first[j].time < b.last
                        THEN b
                        ELSE [number |-> b.number + 1, last |-> first[j].time]
      <4> HIDE DEF g
      <4>1. CASE j = k + 1
        <5>1. g[j - 1] = f[k]
          BY <3>1, <4>1, <2>2
        <5> QED
          BY <3>2, <4>1, <5>1
      <4>2. CASE j # k + 1
        <5>1. j \in 0..k /\ j - 1 \in 0..k
          BY <3>4, <4>2, <2>2
        <5>2. f[j] = LET b == f[j - 1] IN
                        IF \/ first[j] = NoEvent
                           \/ b.number > 0 /\ first[j].time < b.last
                        THEN b
                        ELSE [number |-> b.number + 1, last |-> first[j].time]
          BY <2>1, <3>4, <5>1 DEF Counts
        <5> QED
          BY <3>1, <5>1, <5>2
      <4> QED
        BY <4>1, <4>2
    <3>5. g = [j \in 0..(k + 1) |-> g[j]]
      OBVIOUS
    <3> HIDE DEF g
    <3> QED
      BY <3>3, <3>4, <3>5 DEF Counts
  <2> HIDE DEF g
  <2> QED
    BY <2>2, <2>3
<1>3. \E f : Counts(f, first, n)
  <2> HIDE DEF S
  <2>1. n \in 0..n => n \in S
    BY <1>1, <1>2, UpTo
  <2> QED
    BY <2>1 DEF S
<1> DEFINE c == CHOOSE f : Counts(f, first, n)
<1>5. Counts(c, first, n)
  BY <1>3
<1>6. StagesInOrder(first) = c[n].number
  BY DEF StagesInOrder, Counts
<1> HIDE DEF c
<1> DEFINE T == {k \in 0..n : c[k].number \in 0..k}
<1>7. 0 \in T
  BY <1>5 DEF Counts
<1>8. ASSUME NEW k \in 0..(n - 1), k \in T PROVE k + 1 \in T
  <2>1. k + 1 \in 0..n /\ k + 1 # 0 /\ (k + 1) - 1 = k
    OBVIOUS
  <2>2. c[k + 1] = LET before == c[k] IN
                       IF \/ first[k + 1] = NoEvent
                          \/ before.number > 0 /\ first[k + 1].time < before.last
                       THEN before
                       ELSE [number |-> before.number + 1,
                             last |-> first[k + 1].time]
    BY <1>5, <2>1 DEF Counts
  <2>3. c[k + 1].number = c[k].number \/ c[k + 1].number = c[k].number + 1
    BY <2>2
  <2>4. c[k].number \in 0..k
    BY <1>8
  <2> QED
    BY <2>1, <2>3, <2>4
<1> HIDE DEF T
<1>9. n \in T
  <2>1. n \in 0..n
    OBVIOUS
  <2> QED
    BY <1>7, <1>8, <2>1, UpTo
<1> QED
  BY <1>6, <1>9 DEF T

(* The eight factors are fractions of the whole.                            *)
LEMMA FactorsAre ==
    ASSUME NEW b, Readable(b), NEW candidate, candidate.cause \in DOMAIN Catalogue
    PROVE  Factors(candidate, b) \in [DOMAIN Weight -> 0..Whole]
<1> DEFINE entry == Catalogue[candidate.cause]
           path == TopologyPath(entry, candidate, b)
           factors == Factors(candidate, b)
<1>1. /\ entry.symptoms \in Seq(Range(entry.symptoms))
      /\ entry.propagation \in Seq(Range(entry.propagation))
  BY CatalogueAssumption
<1> HIDE DEF entry
<1>2. SymptomFactor(entry, b) \in 0..Whole
  <2> DEFINE s == entry.symptoms
             T == {k \in DOMAIN s : PatternObservations(b, s[k]) # {}}
  <2>1. T \in SUBSET DOMAIN s /\ s \in Seq(Range(s))
    BY <1>1
  <2> HIDE DEF T, s
  <2>2. Len(s) \in Nat /\ Cardinality(T) \in 0..Len(s)
    BY <2>1, SharesAreCounted
  <2>3. Ratio(Cardinality(T), Len(s)) \in 0..Whole
    BY <2>2, RatioIs
  <2> QED
    BY <2>3 DEF SymptomFactor, T, s
<1>3. TopologyFactor(path) \in 0..Whole
  <2> HIDE DEF path
  <2> QED
    BY DEF TopologyFactor, Whole
<1>4. DirectLogAlertFactor(b, candidate) \in 0..Whole
  BY DEF DirectLogAlertFactor, Whole
<1>5. PropagationFactor(entry, b) \in 0..Whole
  <2> DEFINE stages == entry.propagation
             first == [k \in 1..Len(stages) |->
                          Earliest(PatternObservations(b, stages[k]))]
  <2>1. Len(stages) \in Nat
    BY <1>1
  <2> HIDE DEF stages
  <2>2. Len(first) = Len(stages)
    BY <2>1
  <2> HIDE DEF first
  <2>3. StagesInOrder(first) \in 0..Len(stages)
    BY <2>1, <2>2, StagesAreCounted
  <2>4. Ratio(StagesInOrder(first), Len(stages)) \in 0..Whole
    BY <2>1, <2>3, RatioIs
  <2> QED
    BY <2>4 DEF PropagationFactor, stages, first
<1>6. MetricAnomalyFactor(entry, candidate, b, path) \in 0..Whole
  <2> DEFINE T == MetricScores(entry, candidate, b, path) \cup {0}
  <2>1. T \in SUBSET (0..100) /\ T # {}
    <3> HIDE DEF path
    <3>1. \A a \in b.anomalies : a.score \in 0..100
      BY DEF Readable, IsAnomaly
    <3>2. \A x \in MetricScores(entry, candidate, b, path) :
             \E a \in b.anomalies : x = a.score
      BY DEF MetricScores
    <3> QED
      BY <3>1, <3>2
  <2>2. MetricAnomalyFactor(entry, candidate, b, path) = 100 * Max(T)
    BY DEF MetricAnomalyFactor
  <2> HIDE DEF T
  <2>3. Max(T) \in 0..100
    BY <2>1, GreatestExists
  <2> QED
    BY <2>2, <2>3 DEF Whole
<1>7. ChangeCausalFit(entry, candidate, b, path) \in 0..Whole
  <2> HIDE DEF path
  <2> DEFINE change == CandidateSignal(entry, candidate, b)
             near   == IF path = NoRoute THEN {candidate.entity} ELSE Range(path)
             checks == <<Precedes(change, FirstSymptomEvent(b)),
                         ChangedEntity(change) \in near,
                         change.key \in entry.plausibleKeys,
                         MatchedConflicts(entry, b) = {}>>
             T == {k \in DOMAIN checks : checks[k]}
  <2>1. DOMAIN checks = 1..4
    OBVIOUS
  <2>2. Cardinality(T) \in 0..4
    <3>1. T \in SUBSET (1..4)
      BY <2>1
    <3> HIDE DEF T
    <3>2. IsFiniteSet(1..4) /\ Cardinality(1..4) = 4
      <4>1. \A n \in Nat : IsFiniteSet(1..n) /\ Cardinality(1..n) = n
        BY FS_Interval
      <4> QED
        BY <4>1
    <3>3. IsFiniteSet(T) /\ Cardinality(T) <= 4
      <4>1. \A S : IsFiniteSet(S) /\ T \in SUBSET S
                     => IsFiniteSet(T) /\ Cardinality(T) <= Cardinality(S)
        BY ONLY FS_Subset
      <4> QED
        BY ONLY <3>1, <3>2, <4>1
    <3>4. Cardinality(T) \in Nat
      BY <3>3, FS_CardinalityType
    <3> QED
      BY <3>3, <3>4
  <2>3. \/ ChangeCausalFit(entry, candidate, b, path) = 0
        \/ ChangeCausalFit(entry, candidate, b, path) = 2500 * Cardinality(T)
    BY DEF ChangeCausalFit
  <2> HIDE DEF T
  <2> QED
    BY <2>2, <2>3 DEF Whole
<1>8. TemporalFactor(CandidateSignal(entry, candidate, b),
                     FirstSymptomEvent(b)) \in 0..Whole
  BY DEF TemporalFactor, Whole
<1>9. HistoricalFactor(entry, b) \in 0..Whole
  <2> DEFINE T == {m.similarity : m \in {h \in b.history : h.cause = entry.type}}
                     \cup {0}
  <2>1. T \in SUBSET (0..Whole) /\ T # {}
    <3>1. \A h \in b.history : h.similarity \in 0..Whole
      <4>1. \A h \in b.history : h.similarity \in {0, 5000, Whole}
        BY DEF Readable
      <4>2. {0, 5000, Whole} \subseteq 0..Whole
        BY DEF Whole
      <4> QED
        BY <4>1, <4>2
    <3>2. 0 \in 0..Whole
      BY DEF Whole
    <3>3. \A x \in T : x = 0 \/ \E h \in b.history : x = h.similarity
      OBVIOUS
    <3>4. 0 \in T
      OBVIOUS
    <3> HIDE DEF T
    <3> QED
      BY <3>1, <3>2, <3>3, <3>4
  <2>2. HistoricalFactor(entry, b) = Max(T)
    BY DEF HistoricalFactor
  <2> HIDE DEF T
  <2>3. Whole \in Nat
    BY DEF Whole
  <2>4. Max(T) \in T
    BY ONLY <2>1, <2>3, GreatestExists
  <2> QED
    BY <2>1, <2>2, <2>4
<1>10. factors = [symptom     |-> SymptomFactor(entry, b),
                  topology    |-> TopologyFactor(path),
                  direct      |-> DirectLogAlertFactor(b, candidate),
                  propagation |-> PropagationFactor(entry, b),
                  metric      |-> MetricAnomalyFactor(entry, candidate, b, path),
                  change      |-> ChangeCausalFit(entry, candidate, b, path),
                  temporal    |-> TemporalFactor(
                                      CandidateSignal(entry, candidate, b),
                                      FirstSymptomEvent(b)),
                  history     |-> HistoricalFactor(entry, b)]
  BY DEF Factors, entry
<1> HIDE DEF path, factors
<1>11. /\ factors.symptom \in 0..Whole /\ factors.topology \in 0..Whole
       /\ factors.direct \in 0..Whole /\ factors.propagation \in 0..Whole
       /\ factors.metric \in 0..Whole /\ factors.change \in 0..Whole
       /\ factors.temporal \in 0..Whole /\ factors.history \in 0..Whole
  BY <1>2, <1>3, <1>4, <1>5, <1>6, <1>7, <1>8, <1>9, <1>10
<1>12. /\ DOMAIN factors = DOMAIN Weight
       /\ DOMAIN Weight = {"symptom", "topology", "direct", "propagation",
                           "metric", "change", "temporal", "history"}
  BY <1>10 DEF Weight
<1>13. \A f \in DOMAIN Weight : factors[f] \in 0..Whole
  BY <1>11, <1>12
<1>14. factors = [f \in DOMAIN Weight |-> factors[f]]
  BY <1>10, <1>12
<1>15. factors \in [DOMAIN Weight -> 0..Whole]
  BY ONLY <1>13, <1>14
<1> QED
  BY <1>15 DEF factors

(* The provers need not know how much Whole is.                            *)
LEMMA WholeIs == Whole \in Nat
  BY DEF Whole

(* A conflict lowers a factor, and not below nought.                        *)
LowerThan(f, g) ==
    /\ f \in [DOMAIN Weight -> 0..Whole]
    /\ \A w \in DOMAIN Weight : f[w] <= g[w]

(* The maximum of two numbers is one of them.                              *)
LEMMA GreatestOfTwo ==
    ASSUME NEW a \in Int, NEW b \in Int
    PROVE  Max({a, b}) = IF a >= b THEN a ELSE b
<1>1. Max({a, b}) = CHOOSE x \in {a, b} : \A y \in {a, b} : x >= y
  BY DEF Max
<1>2. \E x \in {a, b} : \A y \in {a, b} : x >= y
  OBVIOUS
<1>3. Max({a, b}) \in {a, b} /\ \A y \in {a, b} : Max({a, b}) >= y
  BY <1>1, <1>2
<1> QED
  BY <1>3

(* Clamping a lowered factor lowers it and keeps it within bounds.         *)
LEMMA Clamped ==
    ASSUME NEW x \in Int
    PROVE  Clamp(x) = IF x < 0 THEN 0 ELSE IF x > Whole THEN Whole ELSE x
<1>1. Whole \in Int
  BY DEF Whole
<1>2. Min({Whole, x}) = IF Whole <= x THEN Whole ELSE x
  BY <1>1, LeastOfTwo
<1>3. PICK m \in Int : m = Min({Whole, x})
  BY <1>1, <1>2
<1>4. Max({0, m}) = IF 0 >= m THEN 0 ELSE m
  <2>1. 0 \in Int
    OBVIOUS
  <2> QED
    BY <2>1, GreatestOfTwo
<1>5. Clamp(x) = Max({0, m})
  BY <1>3 DEF Clamp
<1> QED
  BY <1>2, <1>3, <1>4, <1>5 DEF Whole

(* Applying a conflict lowers a factor or leaves it.                       *)
LEMMA ConflictsLower ==
    ASSUME NEW g \in [DOMAIN Weight -> 0..Whole], NEW conflict,
           conflict.factor \in DOMAIN Weight, conflict.value \in 0..Whole
    PROVE  LowerThan(ApplyConflict(conflict, g), g)
<1> DEFINE w == conflict.factor
           v == conflict.value
           lowered == Clamp(IF conflict.operation = "subtract" THEN g[w] - v
                            ELSE Min({g[w], v}))
           f == ApplyConflict(conflict, g)
<1>1. f = [g EXCEPT ![w] = lowered]
  BY DEF ApplyConflict
<1>2. w \in DOMAIN Weight /\ v \in 0..Whole
  OBVIOUS
<1> HIDE DEF w, v
<1>2a. g[w] \in 0..Whole /\ g[w] \in Int /\ v \in Int
  BY <1>2, WholeIs
<1>3. Min({g[w], v}) = IF g[w] <= v THEN g[w] ELSE v
  BY ONLY <1>2a, LeastOfTwo
<1>4. lowered \in 0..Whole /\ lowered <= g[w]
  <2>1. CASE conflict.operation = "subtract"
    <3>1. lowered = Clamp(g[w] - v) /\ g[w] - v \in Int
      BY <1>2a, <2>1
    <3> DEFINE x == g[w] - v
    <3>2. x \in Int /\ x <= g[w] /\ x <= Whole
      BY <1>2, <1>2a, WholeIs
    <3> HIDE DEF x
    <3>3. Clamp(x) = IF x < 0 THEN 0 ELSE IF x > Whole THEN Whole ELSE x
      BY ONLY <3>2, Clamped
    <3>4. lowered = Clamp(x)
      BY <3>1 DEF x
    <3> HIDE DEF lowered
    <3> QED
      BY <1>2a, <3>2, <3>3, <3>4, WholeIs
  <2>2. CASE conflict.operation # "subtract"
    <3>1. lowered = Clamp(Min({g[w], v})) /\ Min({g[w], v}) \in Int
      BY <1>2a, <1>3, <2>2
    <3> DEFINE x == Min({g[w], v})
    <3>2. x \in 0..Whole /\ x <= g[w] /\ x \in Int
      BY <1>2, <1>2a, <1>3, WholeIs
    <3> HIDE DEF x
    <3>3. Clamp(x) = IF x < 0 THEN 0 ELSE IF x > Whole THEN Whole ELSE x
      BY ONLY <3>2, Clamped
    <3>4. lowered = Clamp(x)
      BY <3>1 DEF x
    <3> HIDE DEF lowered
    <3> QED
      BY <1>2a, <3>2, <3>3, <3>4, WholeIs
  <2> QED
    BY <2>1, <2>2
<1> HIDE DEF lowered, f
<1>5. f \in [DOMAIN Weight -> 0..Whole]
  BY <1>1, <1>4
<1>6. ASSUME NEW u \in DOMAIN Weight PROVE f[u] <= g[u]
  <2>1. CASE u = w
    BY <1>1, <1>2, <1>4, <2>1
  <2>2. CASE u # w
    <3>1. f[u] = g[u] /\ g[u] \in 0..Whole
      BY <1>1, <2>2
    <3> QED
      BY <3>1, WholeIs
  <2> QED
    BY <2>1, <2>2
<1>7. LowerThan(f, g)
  BY <1>5, <1>6 DEF LowerThan
<1> QED
  BY <1>7 DEF f

(* Lowering twice is lowering.                                             *)
LEMMA LowerStays ==
    ASSUME NEW f, NEW g, NEW h \in [DOMAIN Weight -> 0..Whole],
           LowerThan(f, g), LowerThan(g, h)
    PROVE  LowerThan(f, h)
<1>1. \A w \in DOMAIN Weight : f[w] \in 0..Whole /\ g[w] \in 0..Whole
  BY DEF LowerThan
<1>2. \A w \in DOMAIN Weight : f[w] <= g[w] /\ g[w] <= h[w] /\ h[w] \in 0..Whole
  BY DEF LowerThan
<1>3. \A x, y, z \in 0..Whole : x <= y /\ y <= z => x <= z
  BY WholeIs
<1>4. \A w \in DOMAIN Weight : f[w] <= h[w]
  BY <1>1, <1>2, <1>3
<1> QED
  BY <1>4 DEF LowerThan

(* Better factors, a better score.                                         *)
Weighted(h) ==
    Weight.symptom * h.symptom + Weight.topology * h.topology
        + Weight.direct * h.direct + Weight.propagation * h.propagation
        + Weight.metric * h.metric + Weight.change * h.change
        + Weight.temporal * h.temporal + Weight.history * h.history

Fraction(x) == x \in Int /\ 0 <= x /\ x <= 10000

(* Lower factors give no higher score, and scores are within 0 and 100.    *)
LEMMA ScoresFollowFactors ==
    ASSUME NEW g \in [DOMAIN Weight -> 0..Whole], NEW f, LowerThan(f, g)
    PROVE  /\ ScoreFactors(g) \in 0..1000 /\ ScoreFactors(f) \in 0..1000
           /\ ScoreFactors(f) <= ScoreFactors(g)
<1>1. DOMAIN Weight = {"symptom", "topology", "direct", "propagation",
                       "metric", "change", "temporal", "history"}
  BY DEF Weight
<1>2. \A x \in 0..Whole : Fraction(x)
  <2>1. \A n \in Nat : \A x \in 0..n : x \in Int /\ 0 <= x /\ x <= n
    OBVIOUS
  <2>2. Whole = 10000
    BY DEF Whole
  <2> QED
    BY <2>1, <2>2, WholeIs, SMTT(30) DEF Fraction
<1>3. ASSUME NEW h \in [DOMAIN Weight -> 0..Whole]
      PROVE  /\ Fraction(h.symptom) /\ Fraction(h.topology)
             /\ Fraction(h.direct) /\ Fraction(h.propagation)
             /\ Fraction(h.metric) /\ Fraction(h.change)
             /\ Fraction(h.temporal) /\ Fraction(h.history)
  BY <1>1, <1>2
<1>4. ASSUME NEW h \in [DOMAIN Weight -> 0..Whole]
      PROVE  /\ Weighted(h) \in Int /\ 0 <= Weighted(h)
             /\ Weighted(h) <= 1000000
             /\ ScoreFactors(h) = (Weighted(h) + 500) \div 1000
  BY <1>3 DEF Weight, Weighted, ScoreFactors, Fraction
<1>5. f \in [DOMAIN Weight -> 0..Whole]
  BY DEF LowerThan
<1>6. Weighted(f) <= Weighted(g)
  <2>1. /\ f.symptom <= g.symptom /\ f.topology <= g.topology
        /\ f.direct <= g.direct /\ f.propagation <= g.propagation
        /\ f.metric <= g.metric /\ f.change <= g.change
        /\ f.temporal <= g.temporal /\ f.history <= g.history
    BY <1>1 DEF LowerThan
  <2> QED
    BY <1>3, <1>5, <2>1 DEF Weight, Weighted, Fraction
<1>7. \A x \in Int : 0 <= x /\ x <= 1000000 =>
         (x + 500) \div 1000 \in 0..1000
  OBVIOUS
<1>8. \A x, y \in Int : x <= y =>
         (x + 500) \div 1000 <= (y + 500) \div 1000
  OBVIOUS
<1>9. /\ Weighted(f) \in Int /\ 0 <= Weighted(f) /\ Weighted(f) <= 1000000
      /\ Weighted(g) \in Int /\ 0 <= Weighted(g) /\ Weighted(g) <= 1000000
      /\ ScoreFactors(f) = (Weighted(f) + 500) \div 1000
      /\ ScoreFactors(g) = (Weighted(g) + 500) \div 1000
  BY <1>4, <1>5
<1> DEFINE x == Weighted(f)
           y == Weighted(g)
<1>10. /\ x \in Int /\ 0 <= x /\ x <= 1000000
       /\ y \in Int /\ 0 <= y /\ y <= 1000000 /\ x <= y
  BY <1>6, <1>9
<1>11. ScoreFactors(f) = (x + 500) \div 1000 /\ ScoreFactors(g) = (y + 500) \div 1000
  BY <1>9
<1> HIDE DEF x, y
<1>12. /\ (x + 500) \div 1000 \in 0..1000 /\ (y + 500) \div 1000 \in 0..1000
       /\ (x + 500) \div 1000 <= (y + 500) \div 1000
  BY ONLY <1>7, <1>8, <1>10
<1> QED
  BY <1>11, <1>12

(* The factors after each of the conflicts.                                 *)
Opposing(after, entry, plain, matched, n) ==
    after = [k \in 0..n |->
                IF k = 0 THEN plain
                ELSE IF k \in matched
                THEN ApplyConflict(entry.conflicts[k], after[k - 1])
                ELSE after[k - 1]]

OpposesInTurn(after, entry, plain, matched) ==
    /\ after[0] = plain
    /\ \A k \in 1..Len(entry.conflicts) :
          after[k] = IF k \in matched
                     THEN ApplyConflict(entry.conflicts[k], after[k - 1])
                     ELSE after[k - 1]
    /\ Opposed(entry, plain, matched) = after[Len(entry.conflicts)]

(* Opposed satisfies the recursion of its definition.                      *)
LEMMA ConflictsOppose ==
    ASSUME NEW entry, Len(entry.conflicts) \in Nat, NEW plain, NEW matched
    PROVE  \E after : OpposesInTurn(after, entry, plain, matched)
<1> DEFINE n == Len(entry.conflicts)
           Is(f, k) == Opposing(f, entry, plain, matched, k)
           S == {k \in Nat : \E f : Is(f, k)}
<1>1. 0 \in S
  <2> DEFINE f == [k \in 0..0 |-> plain]
  <2>1. Is(f, 0)
    BY DEF Opposing
  <2> HIDE DEF f, Is
  <2> QED
    BY <2>1
<1>2. ASSUME NEW k \in 0..(n - 1), k \in S PROVE k + 1 \in S
  <2>1. PICK f : Is(f, k)
    BY <1>2
  <2> DEFINE new == IF k + 1 \in matched
                    THEN ApplyConflict(entry.conflicts[k + 1], f[k]) ELSE f[k]
             g == [j \in 0..(k + 1) |-> IF j = k + 1 THEN new ELSE f[j]]
  <2>2. k \in Nat /\ k + 1 \in Nat
    OBVIOUS
  <2>3. \A j \in 0..k : g[j] = f[j]
    OBVIOUS
  <2>4. g[k + 1] = new
    OBVIOUS
  <2>5. g = [j \in 0..(k + 1) |-> g[j]]
    OBVIOUS
  <2> HIDE DEF g
  <2>6. g[0] = plain
    <3>1. f[0] = plain
      BY <2>1, <2>2 DEF Opposing
    <3> QED
      BY <2>2, <2>3, <3>1
  <2>7. ASSUME NEW j \in 0..(k + 1), j # 0
        PROVE  g[j] = IF j \in matched
                      THEN ApplyConflict(entry.conflicts[j], g[j - 1])
                      ELSE g[j - 1]
    <3>1. CASE j = k + 1
      <4>1. g[j - 1] = f[k]
        BY <2>2, <2>3, <3>1
      <4> QED
        BY <2>4, <3>1, <4>1
    <3>2. CASE j # k + 1
      <4>1. j \in 0..k /\ j - 1 \in 0..k
        BY <2>2, <2>7, <3>2
      <4>2. f[j] = IF j \in matched
                   THEN ApplyConflict(entry.conflicts[j], f[j - 1])
                   ELSE f[j - 1]
        BY <2>1, <2>7, <4>1 DEF Opposing
      <4> QED
        BY <2>3, <4>1, <4>2
    <3> QED
      BY <3>1, <3>2
  <2>8. Is(g, k + 1)
    BY <2>5, <2>6, <2>7 DEF Opposing
  <2> HIDE DEF Is
  <2> QED
    BY <2>2, <2>8
<1>3. PICK f : Is(f, n)
  <2> HIDE DEF S
  <2>1. n \in 0..n
    OBVIOUS
  <2>2. n \in S
    BY <1>1, <1>2, <2>1, UpTo
  <2> QED
    BY <2>2 DEF S
<1> DEFINE after == CHOOSE g : Opposing(g, entry, plain, matched, n)
<1>4. Opposing(after, entry, plain, matched, n)
  BY <1>3
<1>5. Opposed(entry, plain, matched) = after[n]
  BY DEF Opposed, Opposing
<1> HIDE DEF after
<1>6. after[0] = plain
  BY <1>4 DEF Opposing
<1>7. ASSUME NEW k \in 1..n
      PROVE  after[k] = IF k \in matched
                        THEN ApplyConflict(entry.conflicts[k], after[k - 1])
                        ELSE after[k - 1]
  <2>1. k \in 0..n /\ k # 0
    OBVIOUS
  <2> HIDE DEF n
  <2> QED
    BY <1>4, <2>1 DEF Opposing
<1>8. OpposesInTurn(after, entry, plain, matched)
  BY <1>5, <1>6, <1>7 DEF OpposesInTurn
<1> QED
  BY <1>8

(* The matching conflicts lower the factors, but not the topology's.       *)
LEMMA OpposedIsLower ==
    ASSUME NEW k \in DOMAIN Catalogue, NEW entry, entry = Catalogue[k],
           NEW plain \in [DOMAIN Weight -> 0..Whole], NEW matched
    PROVE  /\ LowerThan(Opposed(entry, plain, matched), plain)
           /\ Opposed(entry, plain, matched)["topology"] = plain["topology"]
<1> DEFINE n == Len(entry.conflicts)
<1>1. /\ entry.conflicts \in Seq(Range(entry.conflicts))
      /\ \A c \in DOMAIN entry.conflicts :
            /\ entry.conflicts[c].factor \in DOMAIN Weight
            /\ entry.conflicts[c].value \in 0..Whole
            /\ entry.conflicts[c].factor # "topology"
  BY CatalogueAssumption, ShippedAssumption
<1>2. n \in Nat /\ DOMAIN entry.conflicts = 1..n
  BY <1>1
<1>3. PICK after : OpposesInTurn(after, entry, plain, matched)
  BY <1>2, ConflictsOppose
<1>4. /\ after[0] = plain
      /\ \A c \in 1..n :
            after[c] = IF c \in matched
                       THEN ApplyConflict(entry.conflicts[c], after[c - 1])
                       ELSE after[c - 1]
      /\ Opposed(entry, plain, matched) = after[n]
  BY <1>3 DEF OpposesInTurn
<1> DEFINE S == {c \in 0..n : /\ LowerThan(after[c], plain)
                              /\ after[c]["topology"] = plain["topology"]}
<1>5. 0 \in S
  <2>1. \A w \in DOMAIN Weight : plain[w] <= plain[w]
    <3>1. \A x \in 0..Whole : x <= x
      BY WholeIs
    <3> QED
      BY <3>1
  <2> QED
    BY <1>2, <1>4, <2>1 DEF LowerThan
<1>6. ASSUME NEW c \in 0..(n - 1), c \in S PROVE c + 1 \in S
  <2>1. c + 1 \in 1..n /\ c + 1 \in 0..n /\ (c + 1) - 1 = c
    BY <1>2
  <2>2. CASE c + 1 \notin matched
    <3>1. after[c + 1] = after[c]
      BY <1>4, <2>1, <2>2
    <3> QED
      BY <1>6, <2>1, <3>1
  <2>3. CASE c + 1 \in matched
    <3> DEFINE conflict == entry.conflicts[c + 1]
               f == after[c]
    <3>1. /\ conflict.factor \in DOMAIN Weight /\ conflict.value \in 0..Whole
          /\ conflict.factor # "topology"
      BY <1>1, <1>2, <2>1
    <3>2. after[c + 1] = ApplyConflict(conflict, f)
      BY <1>4, <2>1, <2>3
    <3>3. LowerThan(f, plain) /\ f["topology"] = plain["topology"]
      BY <1>6
    <3> HIDE DEF conflict, f, S
    <3>4. f \in [DOMAIN Weight -> 0..Whole]
      BY <3>3 DEF LowerThan
    <3>5. LowerThan(ApplyConflict(conflict, f), f)
      BY <3>1, <3>4, ConflictsLower
    <3>6. LowerThan(ApplyConflict(conflict, f), plain)
      BY <3>3, <3>5, LowerStays
    <3>7. ApplyConflict(conflict, f)["topology"] = f["topology"]
      <4>1. "topology" \in DOMAIN Weight
        BY DEF Weight
      <4> QED
        BY <3>1, <3>4, <4>1 DEF ApplyConflict
    <3> QED
      BY <2>1, <3>2, <3>3, <3>6, <3>7 DEF S
  <2> QED
    BY <2>2, <2>3
<1> HIDE DEF S
<1>7. n \in S
  <2>1. n \in 0..n
    BY <1>2
  <2> HIDE DEF n
  <2> QED
    BY <1>2, <1>5, <1>6, <2>1, UpTo
<1> QED
  BY <1>4, <1>7 DEF S

-----------------------------------------------------------------------------
(* The ranking.                                                            *)

Scored(s, c, b) ==
    /\ s = ScoreCandidate(c, b) /\ s.candidate = c
    /\ s.factors \in [DOMAIN Weight -> 0..Whole]
    /\ s.score \in Int /\ 0 <= s.score /\ s.score <= 1000
    /\ s.score <= s.unopposed
    /\ s.path = TopologyPath(Catalogue[c.cause], c, b)
    /\ s.factors["topology"] = TopologyFactor(s.path)
    /\ s.conflicts = {[id     |-> Catalogue[c.cause].conflicts[k].id,
                       source |-> ConflictSource(Catalogue[c.cause].conflicts[k], b)]
                         : k \in MatchedConflicts(Catalogue[c.cause], b)}

(* What ScoreCandidate says of a candidate.                                *)
LEMMA CandidatesScored ==
    ASSUME NEW b, Readable(b), NEW c \in Candidates(b)
    PROVE  Scored(ScoreCandidate(c, b), c, b)
<1> DEFINE entry == Catalogue[c.cause]
           plain == Factors(c, b)
           matched == MatchedConflicts(entry, b)
           factors == Opposed(entry, plain, matched)
           path == TopologyPath(entry, c, b)
           conflicts == {[id     |-> entry.conflicts[k].id,
                          source |-> ConflictSource(entry.conflicts[k], b)]
                            : k \in matched}
           s == ScoreCandidate(c, b)
<1>1. c.cause \in DOMAIN Catalogue
  BY CandidatesAre
<1>2. plain \in [DOMAIN Weight -> 0..Whole]
  BY <1>1, FactorsAre
<1>3. plain["topology"] = TopologyFactor(path)
  BY DEF Factors
<1>4. s = [candidate |-> c,
           factors   |-> factors,
           score     |-> ScoreFactors(factors),
           unopposed |-> ScoreFactors(plain),
           available |-> AvailableRequirements(entry, c, b),
           path      |-> path,
           conflicts |-> conflicts]
  BY DEF ScoreCandidate
<1> HIDE DEF plain, path
<1>5. /\ s.candidate = c /\ s.factors = factors
      /\ s.score = ScoreFactors(factors) /\ s.unopposed = ScoreFactors(plain)
      /\ s.path = path /\ s.conflicts = conflicts
  BY <1>4
<1> HIDE DEF matched
<1>6. LowerThan(factors, plain) /\ factors["topology"] = plain["topology"]
  BY <1>1, <1>2, OpposedIsLower
<1> HIDE DEF factors
<1>7. /\ ScoreFactors(factors) \in 0..1000
      /\ ScoreFactors(factors) <= ScoreFactors(plain)
  BY <1>2, <1>6, ScoresFollowFactors
<1>8. factors \in [DOMAIN Weight -> 0..Whole]
  BY <1>6 DEF LowerThan
<1> HIDE DEF s, conflicts
<1>9. s.conflicts = {[id     |-> Catalogue[c.cause].conflicts[k].id,
                      source |-> ConflictSource(Catalogue[c.cause].conflicts[k], b)]
                        : k \in MatchedConflicts(Catalogue[c.cause], b)}
  BY <1>5 DEF conflicts, matched
<1>10. s.path = TopologyPath(Catalogue[c.cause], c, b)
  BY <1>5 DEF path
<1>11. s.factors["topology"] = TopologyFactor(s.path)
  BY <1>3, <1>5, <1>6
<1>12. s.factors \in [DOMAIN Weight -> 0..Whole]
  BY <1>5, <1>8
<1>13. /\ s.score \in Int /\ 0 <= s.score /\ s.score <= 1000
       /\ s.score <= s.unopposed
  <2>1. \A x \in 0..1000 : x \in Int /\ 0 <= x /\ x <= 1000
    OBVIOUS
  <2> QED
    BY <1>5, <1>7, <2>1
<1>14. s.candidate = c
  BY <1>5
<1> QED
  BY ONLY <1>9, <1>10, <1>11, <1>12, <1>13, <1>14 DEF Scored, s

(* What InRank puts in order.                                              *)
Rankable(S) ==
    /\ IsFiniteSet(S)
    /\ \A s \in S : s.score \in Int /\ s.candidate.cause \in Int
    /\ \A s, t \in S : s.candidate.cause = t.candidate.cause => s = t

(* InRank lists a finite set from best to worst.                           *)
LEMMA RankingIs ==
    ASSUME NEW S, Rankable(S), NEW rank, rank = InRank(S)
    PROVE  /\ Len(rank) = Cardinality(S) /\ Len(rank) \in Nat
           /\ DOMAIN rank = 1..Len(rank)
           /\ \A k \in 1..Len(rank) : rank[k] \in S
           /\ \A j, k \in 1..Len(rank) : j < k => ~Better(rank[k], rank[j])
<1> DEFINE N == Cardinality(S)
           R == {p \in S \X S : Better(p[1], p[2])}
<1>1. N \in Nat /\ IsFiniteSet(S)
  BY FS_CardinalityType DEF Rankable
<1>2. \A x, y \in S : <<x, y>> \in R <=> Better(x, y)
  OBVIOUS
<1>3. ASSUME NEW x \in S PROVE Below(S, R, x) = {f \in S : Better(f, x)}
  BY <1>2 DEF Below
<1> HIDE DEF R
<1>4. IsOrder(S, R)
  <2>1. \A x \in S : ~Better(x, x)
    BY DEF Rankable, Better
  <2>2. \A x, y, z \in S : Better(x, y) /\ Better(y, z) => Better(x, z)
    BY DEF Rankable, Better
  <2> QED
    BY <1>2, <2>1, <2>2 DEF IsOrder
<1>5. IsTotal(S, R)
  <2>1. \A x, y \in S : x = y \/ Better(x, y) \/ Better(y, x)
    BY DEF Rankable, Better
  <2> QED
    BY <1>2, <2>1 DEF IsTotal
<1>6. rank = [k \in 1..N |->
                 CHOOSE s \in S : Cardinality({t \in S : Better(t, s)}) = k - 1]
  BY DEF InRank
<1>7. Len(rank) = N /\ DOMAIN rank = 1..N
  <2>1. \A v : N \in Nat => Len([k \in 1..N |-> CHOOSE s \in S :
                 Cardinality({t \in S : Better(t, s)}) = k - 1]) = N
    OBVIOUS
  <2> QED
    BY <1>1, <1>6, <2>1
<1>8. ASSUME NEW k \in 1..N
      PROVE  rank[k] \in S /\ Cardinality(Below(S, R, rank[k])) = k - 1
  <2>1. PICK x \in S : Cardinality(Below(S, R, x)) = k - 1
    BY <1>1, <1>4, <1>5, PlaceTaken
  <2>2. Cardinality({t \in S : Better(t, x)}) = k - 1
    BY <1>3, <2>1
  <2>3. rank[k] = CHOOSE s \in S : Cardinality({t \in S : Better(t, s)}) = k - 1
    BY <1>6
  <2>4. rank[k] \in S /\ Cardinality({t \in S : Better(t, rank[k])}) = k - 1
    BY <2>2, <2>3
  <2> QED
    BY <1>3, <2>4
<1>9. ASSUME NEW j \in 1..N, NEW k \in 1..N, j < k
      PROVE  ~Better(rank[k], rank[j])
  <2> SUFFICES ASSUME Better(rank[k], rank[j]) PROVE FALSE
    OBVIOUS
  <2>1. <<rank[k], rank[j]>> \in R
    BY <1>2, <1>8
  <2>2. Cardinality(Below(S, R, rank[k])) < Cardinality(Below(S, R, rank[j]))
    BY <1>1, <1>4, <1>8, <2>1, BelowGrows
  <2> QED
    BY <1>8, <1>9, <2>2
<1> QED
  BY <1>1, <1>7, <1>8, <1>9

Ranked(rank, b) ==
    /\ Len(rank) \in Nat /\ DOMAIN rank = 1..Len(rank)
    /\ \A k \in 1..Len(rank) :
          \E c \in Candidates(b) : Scored(rank[k], c, b)
    /\ \A j, k \in 1..Len(rank) : j < k => rank[j].score >= rank[k].score

(* The ranking lists scored candidates, best first.                        *)
LEMMA CandidatesRanked ==
    ASSUME NEW b, Readable(b)
    PROVE  Ranked(Rank(Candidates(b), b), b)
<1> DEFINE C == Candidates(b)
           score == [c \in C |-> ScoreCandidate(c, b)]
           S == {ScoreCandidate(c, b) : c \in C}
           rank == Rank(Candidates(b), b)
<1>1. /\ IsFiniteSet(C)
      /\ \A c \in C : c.cause \in DOMAIN Catalogue
      /\ \A c, d \in C : c.cause = d.cause => c = d
  BY CandidatesAre
<1>2. \A c \in C : Scored(ScoreCandidate(c, b), c, b)
  BY CandidatesScored
<1>3. \A c \in DOMAIN Catalogue : c \in Int
  BY CatalogueAssumption
<1>4. rank = InRank(S)
  BY DEF Rank
<1> HIDE DEF C
<1>5. IsFiniteSet(S)
  <2>1. score \in Surjection(C, S)
    BY DEF Surjection
  <2> QED
    BY <1>1, <2>1, FS_Surjection
<1>6. Rankable(S)
  <2>1. \A s \in S : \E c \in C : Scored(s, c, b)
    BY <1>2
  <2> HIDE DEF S
  <2>2. \A s \in S : \E c \in C : /\ s = ScoreCandidate(c, b)
                                   /\ s.candidate = c /\ s.score \in Int
    BY <2>1 DEF Scored
  <2>3. \A s \in S : s.score \in Int /\ s.candidate.cause \in Int
    BY <1>1, <1>3, <2>2
  <2>4. \A s, t \in S : s.candidate.cause = t.candidate.cause => s = t
    BY <1>1, <2>2
  <2> QED
    BY <1>5, <2>3, <2>4 DEF Rankable
<1> HIDE DEF S, rank
<1>7. /\ Len(rank) \in Nat /\ DOMAIN rank = 1..Len(rank)
      /\ \A k \in 1..Len(rank) : rank[k] \in S
      /\ \A j, k \in 1..Len(rank) : j < k => ~Better(rank[k], rank[j])
  BY <1>4, <1>6, RankingIs
<1>8. \A k \in 1..Len(rank) : \E c \in C : Scored(rank[k], c, b)
  BY <1>2, <1>7 DEF S
<1>9. \A j, k \in 1..Len(rank) : j < k => rank[j].score >= rank[k].score
  BY <1>6, <1>7 DEF Better, Rankable
<1> QED
  BY <1>7, <1>8, <1>9 DEF Ranked, rank, C

-----------------------------------------------------------------------------
(* The theorems about the ranking and the evidence.                         *)

(* What is ranked and collected is computed from the bundle and nothing else. *)
RankingInv ==
    /\ FromIncident
    /\ stage = "bundle" => ranked = << >>
    /\ ranked = << >> \/ ranked = Rank(Candidates(bundle), bundle)
    /\ evidence \in Seq({Collected(ranked[k]) : k \in DOMAIN ranked})
    /\ Len(evidence) <= Len(ranked)
    /\ \A k \in DOMAIN evidence : evidence[k] = Collected(ranked[k])
    /\ stage \in {"bundle", "failed"} \/ ranked = Rank(Candidates(bundle), bundle)

(* Initially nothing is ranked.                                            *)
LEMMA RankingInit == Init => RankingInv
<1> QED
  BY SnapshotInit DEF Init, RankingInv

(* What is ranked is a ranking of the candidates.                          *)
LEMMA RankedIs ==
    ASSUME RankingInv
    PROVE  /\ Len(ranked) \in Nat /\ DOMAIN ranked = 1..Len(ranked)
           /\ ranked # << >> => Ranked(ranked, bundle)
<1>1. Readable(bundle)
  BY BundleIsReadable DEF RankingInv
<1>2. ranked # << >> => Ranked(ranked, bundle)
  BY <1>1, CandidatesRanked DEF RankingInv
<1> QED
  BY <1>2 DEF Ranked

(* RankingInv is inductive.                                                *)
LEMMA RankingNext == RankingInv /\ [Next]_vars => RankingInv'
<1> SUFFICES ASSUME RankingInv, [Next]_vars PROVE RankingInv'
  OBVIOUS
<1>1. FromIncident'
  BY SnapshotNext DEF RankingInv
<1>2. bundle' = bundle
  BY DEF Next, vars, Analyse, NoCandidates, Collect, CollectFails, AllCollected,
         Template, TemplateFails, Accept, Stale, Retry, Answer, Finished
<1>3. Len(ranked) \in Nat /\ DOMAIN ranked = 1..Len(ranked)
  BY RankedIs
<1>4. CASE Analyse
  <2>1. Ranked(ranked', bundle)
    <3>1. ranked' = Rank(Candidates(bundle), bundle)
      BY <1>4 DEF Analyse
    <3> QED
      BY <3>1, BundleIsReadable, CandidatesRanked DEF RankingInv
  <2>2. ranked = << >> /\ evidence' = evidence /\ stage' = "collect"
    BY <1>4 DEF Analyse, RankingInv
  <2>3. evidence = << >>
    <3>1. Len(evidence) \in Nat /\ Len(evidence) <= 0
      BY <2>2 DEF RankingInv
    <3> QED
      BY <3>1 DEF RankingInv
  <2>4. Len(evidence') <= Len(ranked')
    BY <2>1, <2>2, <2>3 DEF Ranked
  <2> QED
    BY <1>1, <1>2, <1>4, <2>2, <2>3, <2>4 DEF Analyse, RankingInv
<1>5. CASE Collect
  <2> DEFINE n == Len(evidence)
             Sources == {Collected(ranked[k]) : k \in DOMAIN ranked}
             y == Collected(ranked[n + 1])
  <2>1. /\ evidence' = Append(evidence, y) /\ n < Len(ranked)
        /\ stage' = stage /\ ranked' = ranked
    BY <1>5 DEF Collect, NextHypothesis
  <2>2. evidence \in Seq(Sources) /\ n \in Nat
    BY DEF RankingInv
  <2>3. n + 1 \in DOMAIN ranked /\ y \in Sources
    BY <1>3, <2>1, <2>2
  <2>4. \A k \in 1..n : evidence[k] = Collected(ranked[k])
    BY <2>2 DEF RankingInv
  <2> HIDE DEF Sources, y
  <2>5. /\ evidence' \in Seq(Sources) /\ Len(evidence') = n + 1
        /\ \A k \in 1..n : evidence'[k] = evidence[k]
        /\ evidence'[n + 1] = y
    BY <2>1, <2>2, <2>3, AppendedSeq
  <2>6. \A k \in DOMAIN evidence' : evidence'[k] = Collected(ranked[k])
    <3>1. \A k \in DOMAIN evidence' : k \in 1..n \/ k = n + 1
      BY <2>2, <2>5
    <3> QED
      BY <2>4, <2>5, <3>1 DEF y
  <2>7. \A k : Collected(ranked[k])' = Collected(ranked[k])
    BY <1>2, <2>1 DEF Collected, Entry
  <2> HIDE DEF n
  <2>8. Sources' = Sources
    BY <2>1, <2>7 DEF Sources
  <2> QED
    BY <1>1, <1>2, <1>3, <2>1, <2>2, <2>5, <2>6, <2>7, <2>8
       DEF RankingInv, Sources, n
<1>6. ASSUME UNCHANGED <<ranked, evidence>>, stage' = "bundle" => stage = "bundle",
             stage \in {"bundle", "failed"} => stage' \in {"bundle", "failed"}
      PROVE  RankingInv'
  <2>1. \A k : Collected(ranked[k])' = Collected(ranked[k])
    BY <1>2, <1>6 DEF Collected, Entry
  <2> QED
    BY <1>1, <1>2, <1>6, <2>1 DEF RankingInv
<1> QED
  BY <1>4, <1>5, <1>6 DEF Next, vars, NoCandidates, CollectFails, AllCollected,
         Template, TemplateFails, Accept, Stale, Retry, Answer, Finished, Fail, Conclude

(* The model is asked twice at most.                                       *)
AnswersInv ==
    /\ answers \in Seq(Answers) /\ Len(answers) <= 2
    /\ stage \in {"bundle", "collect", "explain"} => answers = << >>
    /\ stage = "ask" => Len(answers) <= 1

(* Initially the model was not asked.                                      *)
LEMMA AnswersInit == Init => AnswersInv
<1> QED
  BY DEF Init, AnswersInv

(* AnswersInv is inductive.                                                *)
LEMMA AnswersNext == ExplanationInv /\ AnswersInv /\ [Next]_vars => AnswersInv'
<1> SUFFICES ASSUME ExplanationInv, AnswersInv, [Next]_vars PROVE AnswersInv'
  OBVIOUS
<1>1. ASSUME NEW a \in Answers, stage = "ask", answers' = Append(answers, a),
             stage' = "ask" => answers = << >>,
             stage' \in {"ask", "done"}
      PROVE  AnswersInv'
  <2>1. answers \in Seq(Answers) /\ Len(answers) <= 1 /\ Len(answers) \in Nat
    BY <1>1 DEF AnswersInv
  <2>2. Append(answers, a) \in Seq(Answers)
    BY <2>1, AppendedSeq
  <2>3. Len(Append(answers, a)) = Len(answers) + 1
    BY <2>1, AppendedSeq
  <2>4. stage' = "ask" => Len(answers') = 1
    BY <1>1, <2>3
  <2> QED
    BY <1>1, <2>1, <2>2, <2>3, <2>4 DEF AnswersInv
<1>2. ASSUME UNCHANGED answers, stage' = "ask" => answers = << >>,
             stage' \in {"bundle", "collect", "explain"} => answers = << >>
      PROVE  AnswersInv'
  BY <1>2 DEF AnswersInv
<1>3. CASE Accept
  BY <1>1, <1>3 DEF Accept, Answer, Conclude, Answers
<1>4. CASE Stale
  BY <1>1, <1>4 DEF Stale, Answer, Conclude, Answers
<1>5. CASE Retry
  <2>1. PICK a \in {"raises", "invalid"} :
            /\ Answer(a)
            /\ IF answers = << >> THEN UNCHANGED <<stage, fallback>>
               ELSE Conclude(IF a = "raises" THEN "LLM_GENERATION_FAILED"
                             ELSE "LLM_INVALID")
    BY <1>5 DEF Retry
  <2>2. a \in Answers
    BY DEF Answers
  <2> QED
    BY <1>1, <2>1, <2>2 DEF Answer, Conclude
<1>6. CASE UNCHANGED vars
  BY <1>6 DEF vars, AnswersInv
<1> QED
  BY <1>2, <1>3, <1>4, <1>5, <1>6
     DEF Next, vars, Analyse, NoCandidates, Collect, CollectFails, AllCollected,
         Template, TemplateFails, Finished, Fail, Conclude, AnswersInv

(* The type invariant follows.                                             *)
LEMMA TypesHold ==
    ASSUME ExplanationInv, AnswersInv, RankingInv
    PROVE  TypeOK
<1>1. stage \in Stages /\ Len(evidence) <= Len(ranked)
  BY DEF ExplanationInv, AttemptInv, RankingInv
<1>2. answers \in UNION {[1..n -> Answers] : n \in 0..2}
  <2>1. answers \in Seq(Answers) /\ Len(answers) <= 2
    BY DEF AnswersInv
  <2>2. Len(answers) \in Nat /\ answers \in [1..Len(answers) -> Answers]
    BY ONLY <2>1
  <2>3. Len(answers) \in 0..2
    BY ONLY <2>1, <2>2
  <2> QED
    BY ONLY <2>2, <2>3
<1>3. ASSUME NEW k \in DOMAIN ranked
      PROVE  /\ ranked[k].score \in 0..1000
             /\ \A f \in DOMAIN ranked[k].factors :
                   ranked[k].factors[f] \in 0..Whole
             /\ k > 1 => ranked[k - 1].score >= ranked[k].score
  <2>1. /\ Len(ranked) \in Nat /\ DOMAIN ranked = 1..Len(ranked)
        /\ Ranked(ranked, bundle)
    BY RankedIs
  <2>2. PICK c \in Candidates(bundle) : Scored(ranked[k], c, bundle)
    BY <2>1 DEF Ranked
  <2> DEFINE s == ranked[k]
  <2>3. /\ s.score \in Int /\ 0 <= s.score /\ s.score <= 1000
        /\ s.factors \in [DOMAIN Weight -> 0..Whole]
    BY <2>2 DEF Scored
  <2>4. \A f \in DOMAIN s.factors : s.factors[f] \in 0..Whole
    BY <2>3
  <2>5. k > 1 => ranked[k - 1].score >= s.score
    <3>1. k > 1 => k - 1 \in 1..Len(ranked) /\ k - 1 < k
      BY <2>1
    <3> QED
      BY <2>1, <3>1 DEF Ranked
  <2>6. s.score \in 0..1000
    <3>1. \A x \in Int : 0 <= x /\ x <= 1000 => x \in 0..1000
      OBVIOUS
    <3> QED
      BY <2>3, <3>1
  <2> QED
    BY <2>4, <2>5, <2>6
<1> QED
  BY <1>1, <1>2, <1>3 DEF TypeOK

(* Collected evidence shows the conflicts.                                 *)
LEMMA ConflictsShown ==
    ASSUME RankingInv
    PROVE  AppliedConflictsAreShown
<1> SUFFICES ASSUME NEW k \in DOMAIN evidence
             PROVE  /\ ranked[k].score <= ranked[k].unopposed
                    /\ \A c \in ranked[k].conflicts :
                          \E i \in evidence[k] : /\ i.kind = "conflicting"
                                                 /\ i.why = c.id
                                                 /\ i.source = c.source.id
  BY DEF AppliedConflictsAreShown
<1> DEFINE s == ranked[k]
<1>1. k \in DOMAIN ranked /\ Ranked(ranked, bundle)
  <2>1. Len(ranked) \in Nat /\ DOMAIN ranked = 1..Len(ranked)
    BY RankedIs
  <2>2. k \in 1..Len(evidence) /\ Len(evidence) \in Nat /\ Len(evidence) <= Len(ranked)
    BY DEF RankingInv
  <2> QED
    BY <2>1, <2>2, RankedIs
<1>2. s.score <= s.unopposed
  BY <1>1 DEF Ranked, Scored
<1>3. ASSUME NEW c \in s.conflicts
      PROVE  \E i \in evidence[k] : /\ i.kind = "conflicting" /\ i.why = c.id
                                    /\ i.source = c.source.id
  <2> DEFINE i == Item(c.id, "conflicting", <<"CONFLICT", c.id>>, c.source)
  <2>1. /\ i.kind = "conflicting" /\ i.why = c.id
        /\ i.source = c.source.id
    BY DEF Item
  <2>2. evidence[k] = CollectEvidence(Entry(s), bundle, s)
    BY DEF RankingInv, Collected
  <2>3. i \in ConflictItems(Entry(s), bundle, s.conflicts)
    BY <1>3 DEF ConflictItems
  <2> HIDE DEF i
  <2>4. i \in evidence[k]
    BY <2>2, <2>3 DEF CollectEvidence
  <2> QED
    BY <2>1, <2>4
<1> QED
  BY <1>2, <1>3

(* The code of an item tells what it was collected for.                     *)
IsItem(i) ==
    i = [why |-> i.why, kind |-> i.kind, code |-> i.code, source |-> i.source]

ForRequirement(i, entry) ==
    /\ i.why \in entry.expected
    /\ \/ i.code \in {<<"MISSING", i.why>>, <<"QUARANTINED", i.why>>,
                      <<"PRECEDING", i.why>>}
       \/ i.code = <<"OBSERVED", ReasonCode(i.why)>>

ForConflict(i) == i.kind = "conflicting" /\ i.code = <<"CONFLICT", i.why>>

ForAssociation(i, entry) ==
    i.why = "association" /\ i.code = <<"RELATED", entry.type>>

ForAlternative(i) ==
    i.why = "alternative" /\ i.code = <<"CONFLICT", "ALTERNATIVE_CAUSE_SIGNAL">>

(* The fields of an item.                                                  *)
LEMMA ItemIs ==
    ASSUME NEW why, NEW kind, NEW code, NEW e
    PROVE  LET i == Item(why, kind, code, e)
           IN /\ IsItem(i) /\ i.why = why /\ i.kind = kind
              /\ i.code = code /\ i.source = e.id
<1> QED
  BY DEF Item, IsItem

(* An item of a requirement.                                               *)
LEMMA RequirementItemIs ==
    ASSUME NEW entry, NEW b, NEW x, NEW r \in entry.expected
    PROVE  IsItem(RequirementItem(r, b, x))
               /\ ForRequirement(RequirementItem(r, b, x), entry)
<1> DEFINE e == LatestMatch(r, b, x)
           missing == Item(r, "missing", <<MissingPrefix(r), r>>, NoEvent)
           correlated == Item(r, "correlated", <<"PRECEDING", r>>, e)
           observed == Item(r, "observed", <<"OBSERVED", ReasonCode(r)>>, e)
<1>1. RequirementItem(r, b, x) \in {missing, correlated, observed}
  BY DEF RequirementItem
<1>2. IsItem(missing) /\ ForRequirement(missing, entry)
  <2>1. /\ IsItem(missing) /\ missing.why = r
        /\ missing.code = <<MissingPrefix(r), r>>
    BY ONLY ItemIs
  <2> QED
    BY <2>1 DEF ForRequirement, MissingPrefix
<1>3. IsItem(correlated) /\ ForRequirement(correlated, entry)
  <2>1. /\ IsItem(correlated) /\ correlated.why = r
        /\ correlated.code = <<"PRECEDING", r>>
    BY ONLY ItemIs
  <2> QED
    BY <2>1 DEF ForRequirement
<1>4. IsItem(observed) /\ ForRequirement(observed, entry)
  <2>1. /\ IsItem(observed) /\ observed.why = r
        /\ observed.code = <<"OBSERVED", ReasonCode(r)>>
    BY ONLY ItemIs
  <2> QED
    BY <2>1 DEF ForRequirement
<1> QED
  BY <1>1, <1>2, <1>3, <1>4

(* An item of a conflict.                                                  *)
LEMMA ConflictItemIs ==
    ASSUME NEW entry, NEW b, NEW applied, NEW i \in ConflictItems(entry, b, applied)
    PROVE  IsItem(i) /\ ForConflict(i)
<1>1. PICK id, e : i = Item(id, "conflicting", <<"CONFLICT", id>>, e)
  BY DEF ConflictItems, NamedConflict
<1>2. /\ IsItem(i) /\ i.why = id /\ i.kind = "conflicting"
      /\ i.code = <<"CONFLICT", id>>
  BY ONLY <1>1, ItemIs
<1> QED
  BY <1>2 DEF ForConflict

(* An association.                                                         *)
LEMMA AssociationIs ==
    ASSUME NEW entry, NEW b, NEW items, NEW i \in Association(entry, b, items)
    PROVE  IsItem(i) /\ ForAssociation(i, entry)
<1>1. PICK e : i = Item("association", "correlated", <<"RELATED", entry.type>>, e)
  BY DEF Association
<1>2. /\ IsItem(i) /\ i.why = "association"
      /\ i.code = <<"RELATED", entry.type>>
  BY ONLY <1>1, ItemIs
<1> QED
  BY <1>2 DEF ForAssociation

(* An alternative cause, shown only where no conflict is.                  *)
LEMMA AlternativeIs ==
    ASSUME NEW entry, NEW b, NEW conflicts,
           NEW i \in AlternativeCause(entry, b, conflicts)
    PROVE  IsItem(i) /\ ForAlternative(i) /\ conflicts = {}
<1>1. /\ conflicts = {}
      /\ \E e : i = Item("alternative", "conflicting",
                         <<"CONFLICT", "ALTERNATIVE_CAUSE_SIGNAL">>, e)
  BY DEF AlternativeCause
<1>2. PICK e : i = Item("alternative", "conflicting",
                        <<"CONFLICT", "ALTERNATIVE_CAUSE_SIGNAL">>, e)
  BY <1>1
<1>3. /\ IsItem(i) /\ i.why = "alternative"
      /\ i.code = <<"CONFLICT", "ALTERNATIVE_CAUSE_SIGNAL">>
  BY ONLY <1>2, ItemIs
<1> QED
  BY <1>1, <1>3 DEF ForAlternative

(* Requirements of one entry do not share a reason code.                   *)
LEMMA ReasonsDiffer ==
    ASSUME NEW k \in DOMAIN Catalogue,
           NEW r \in Catalogue[k].expected, NEW s \in Catalogue[k].expected,
           ReasonCode(r) = ReasonCode(s)
    PROVE  r = s
<1>1. "DEPENDENCY_TIMEOUT_LOG" \notin DOMAIN RankerRules
  BY DEF RankerRules
<1>2. /\ Catalogue[k].expected \subseteq DOMAIN RankerRules
      /\ ~({"timeout_log", "dependency_timeout"} \subseteq Catalogue[k].expected)
  BY ShippedAssumption
<1> QED
  BY <1>1, <1>2 DEF ReasonCode

(* Items of one hypothesis with one code were collected for one reason.    *)
LEMMA CodesTell ==
    ASSUME NEW k \in DOMAIN Catalogue, NEW i, NEW j, i.code = j.code,
           \/ ForRequirement(i, Catalogue[k])
           \/ ForConflict(i)
           \/ ForAssociation(i, Catalogue[k])
           \/ ForAlternative(i),
           \/ ForRequirement(j, Catalogue[k])
           \/ ForConflict(j)
           \/ ForAssociation(j, Catalogue[k])
           \/ ForAlternative(j),
           ~(ForConflict(i) /\ ForAlternative(j)),
           ~(ForConflict(j) /\ ForAlternative(i))
    PROVE  i.why = j.why
<1>2. CASE ForRequirement(i, Catalogue[k])
  <2>1. CASE i.code = <<"OBSERVED", ReasonCode(i.why)>>
    <3>1. j.code = <<"OBSERVED", ReasonCode(j.why)>> /\ ForRequirement(j, Catalogue[k])
      BY <2>1 DEF ForRequirement, ForConflict, ForAssociation, ForAlternative
    <3>2. ReasonCode(i.why) = ReasonCode(j.why)
      <4>1. i.code[2] = ReasonCode(i.why)
        BY ONLY <2>1
      <4>2. j.code[2] = ReasonCode(j.why)
        BY ONLY <3>1
      <4> QED
        BY <4>1, <4>2
    <3>3. i.why \in Catalogue[k].expected /\ j.why \in Catalogue[k].expected
      BY <1>2, <3>1 DEF ForRequirement
    <3> QED
      BY <3>2, <3>3, ReasonsDiffer
  <2>2. CASE i.code \in {<<"MISSING", i.why>>, <<"QUARANTINED", i.why>>,
                         <<"PRECEDING", i.why>>}
    <3>1. j.code \in {<<"MISSING", j.why>>, <<"QUARANTINED", j.why>>,
                      <<"PRECEDING", j.why>>}
      BY <2>2 DEF ForRequirement, ForConflict, ForAssociation, ForAlternative
    <3> QED
      BY <2>2, <3>1
  <2> QED
    BY <1>2, <2>1, <2>2 DEF ForRequirement
<1>3. CASE ForConflict(i)
  BY <1>3 DEF ForRequirement, ForConflict, ForAssociation
<1>4. CASE ForAssociation(i, Catalogue[k])
  BY <1>4 DEF ForRequirement, ForConflict, ForAssociation, ForAlternative
<1>5. CASE ForAlternative(i)
  BY <1>5 DEF ForRequirement, ForConflict, ForAssociation, ForAlternative
<1> QED
  BY <1>2, <1>3, <1>4, <1>5

(* So their ids differ.                                                    *)
LEMMA IdsDiffer ==
    ASSUME RankingInv
    PROVE  EvidenceIdsAreDistinct
<1> SUFFICES ASSUME NEW n \in DOMAIN evidence,
                    NEW i \in evidence[n], NEW j \in evidence[n],
                    EvidenceId(i) = EvidenceId(j)
             PROVE  i = j
  BY DEF EvidenceIdsAreDistinct
<1>1. n \in DOMAIN ranked /\ Ranked(ranked, bundle)
  <2>1. Len(ranked) \in Nat /\ DOMAIN ranked = 1..Len(ranked)
    BY RankedIs
  <2>2. n \in 1..Len(evidence) /\ Len(evidence) \in Nat /\ Len(evidence) <= Len(ranked)
    BY DEF RankingInv
  <2> QED
    BY <2>1, <2>2, RankedIs
<1> DEFINE s == ranked[n]
           k == s.candidate.cause
           entry == Catalogue[k]
           x == s.candidate.entity
           items == RequirementItems(entry, bundle, x)
           conflicts == ConflictItems(entry, bundle, s.conflicts)
<1>2. k \in DOMAIN Catalogue
  <2>1. PICK c \in Candidates(bundle) : Scored(s, c, bundle)
    BY <1>1 DEF Ranked
  <2>2. Readable(bundle)
    BY BundleIsReadable DEF RankingInv
  <2> QED
    BY <2>1, <2>2, CandidatesAre DEF Scored
<1>3. evidence[n] = items \cup Association(entry, bundle, items)
                       \cup conflicts \cup AlternativeCause(entry, bundle, conflicts)
  BY DEF RankingInv, Collected, CollectEvidence, Entry
<1>4. ASSUME NEW y \in items PROVE IsItem(y) /\ ForRequirement(y, entry)
  BY RequirementItemIs DEF RequirementItems
<1>5. ASSUME NEW y \in Association(entry, bundle, items)
      PROVE  IsItem(y) /\ ForAssociation(y, entry)
  BY AssociationIs
<1>6. ASSUME NEW y \in conflicts PROVE IsItem(y) /\ ForConflict(y)
  BY ConflictItemIs
<1>7. ASSUME NEW y \in AlternativeCause(entry, bundle, conflicts)
      PROVE  IsItem(y) /\ ForAlternative(y) /\ conflicts = {}
  BY AlternativeIs
<1> HIDE DEF items, conflicts, entry, k, x
<1>8. ASSUME NEW y \in evidence[n]
      PROVE  /\ IsItem(y)
             /\ \/ ForRequirement(y, entry) \/ ForConflict(y)
                \/ ForAssociation(y, entry) \/ ForAlternative(y)
             /\ ForConflict(y) => conflicts # {}
  <2>1. ForConflict(y) => /\ ~ForRequirement(y, entry)
                          /\ ~ForAssociation(y, entry) /\ ~ForAlternative(y)
    BY DEF ForRequirement, ForConflict, ForAssociation, ForAlternative
  <2> QED
    BY <1>3, <1>4, <1>5, <1>6, <1>7, <2>1
<1>9. ASSUME NEW y \in evidence[n], ForAlternative(y)
      PROVE  conflicts = {}
  <2>1. ~ForRequirement(y, entry) /\ ~ForAssociation(y, entry) /\ ~ForConflict(y)
    BY <1>9 DEF ForRequirement, ForConflict, ForAssociation, ForAlternative
  <2> QED
    BY <1>3, <1>4, <1>5, <1>6, <1>7, <1>9, <2>1
<1>10. i.code = j.code /\ i.kind = j.kind /\ i.source = j.source
  BY DEF EvidenceId
<1>11. ~(ForConflict(i) /\ ForAlternative(j)) /\ ~(ForConflict(j) /\ ForAlternative(i))
  BY <1>8, <1>9
<1>12. i.why = j.why
  BY <1>2, <1>8, <1>10, <1>11, CodesTell DEF entry
<1> QED
  BY <1>8, <1>10, <1>12 DEF IsItem

-----------------------------------------------------------------------------
(* Coverage.                                                               *)

(* What SharedVocabulary asks of one event, apart from the count of          *)
(* forwarded requests.                                                     *)
SharesVocabulary(e) ==
    /\ Said(e, SignalWords) \subseteq e.text.signal
    /\ Said(e, TypeWords) \subseteq e.text.type
    /\ Said(e, PayloadWords) \subseteq e.text.payload
    /\ "duration" \in e.text.signal => "latency" \in e.text.signal
    /\ "handshake" \in e.text.type =>
          e.text.type \cap {"certificate", "tls"} # {}
    /\ "waf" \in e.text.source => "waf_decision" \in e.text.type

(* When a rule matches an event.                                           *)
LEMMA MatchIs ==
    ASSUME NEW modality, NEW signal, NEW type, NEW payload, NEW source, NEW needs,
           NEW e
    PROVE  Matches(Rule(modality, signal, type, payload, source, needs), e) <=>
              /\ e.modality \in modality
              /\ \/ signal = {} /\ type = {} /\ payload = {} /\ source = {}
                 \/ signal \cap e.text.signal # {}
                 \/ type \cap e.text.type # {}
                 \/ payload \cap e.text.payload # {}
                 \/ source \cap e.text.source # {}
              /\ needs \subseteq e.text.payload
<1> DEFINE rule == Rule(modality, signal, type, payload, source, needs)
<1>1. /\ rule.modality = modality /\ rule.needs = needs
      /\ rule["signal"] = signal /\ rule["type"] = type
      /\ rule["payload"] = payload /\ rule["source"] = source
  BY DEF Rule
<1> HIDE DEF rule
<1>2. Matches(rule, e) <=>
         /\ e.modality \in rule.modality
         /\ \/ \A f \in {"signal", "type", "payload", "source"} : rule[f] = {}
            \/ \E f \in {"signal", "type", "payload", "source"} :
                  rule[f] \cap e.text[f] # {}
         /\ rule.needs \subseteq e.text.payload
  BY DEF Matches
<1>3. Matches(rule, e) <=>
         /\ e.modality \in modality
         /\ \/ signal = {} /\ type = {} /\ payload = {} /\ source = {}
            \/ signal \cap e.text.signal # {}
            \/ type \cap e.text.type # {}
            \/ payload \cap e.text.payload # {}
            \/ source \cap e.text.source # {}
         /\ needs \subseteq e.text.payload
  BY <1>1, <1>2
<1> QED
  BY <1>3 DEF rule

(* An event that shares the vocabulary has a word of the signal, of the type *)
(* or of the payload anywhere only if it has it there.                     *)
LEMMA WordsArePlaced ==
    ASSUME NEW e, SharesVocabulary(e), NEW words
    PROVE  LET anywhere == \/ words \cap e.text.signal # {}
                           \/ words \cap e.text.type # {}
                           \/ words \cap e.text.payload # {}
           IN /\ words \subseteq SignalWords =>
                    (anywhere <=> words \cap e.text.signal # {})
              /\ words \subseteq TypeWords =>
                    (anywhere <=> words \cap e.text.type # {})
              /\ words \subseteq PayloadWords =>
                    (anywhere <=> words \cap e.text.payload # {})
<1> QED
  BY DEF SharesVocabulary, Said

(* Two rules with one set of words, of which one looks for them anywhere and *)
(* the other in one place, match the same events.                          *)
LEMMA PlacesAgree ==
    ASSUME NEW e, SharesVocabulary(e), NEW words, words # {}, NEW modality,
           NEW needs
    PROVE  LET anywhere == Rule(modality, words, words, words, {}, needs)
           IN /\ words \subseteq SignalWords =>
                    (Matches(anywhere, e)
                        <=> Matches(Rule(modality, words, {}, {}, {}, needs), e))
              /\ words \subseteq TypeWords =>
                    (Matches(anywhere, e)
                        <=> Matches(Rule(modality, {}, words, {}, {}, needs), e))
              /\ words \subseteq PayloadWords =>
                    (Matches(anywhere, e)
                        <=> Matches(Rule(modality, {}, {}, words, {}, needs), e))
<1> DEFINE said == \/ words \cap e.text.signal # {}
                   \/ words \cap e.text.type # {}
                   \/ words \cap e.text.payload # {}
<1>1. /\ words \subseteq SignalWords => (said <=> words \cap e.text.signal # {})
      /\ words \subseteq TypeWords => (said <=> words \cap e.text.type # {})
      /\ words \subseteq PayloadWords => (said <=> words \cap e.text.payload # {})
  BY WordsArePlaced
<1> DEFINE anywhere == Rule(modality, words, words, words, {}, needs)
           inSignal == Rule(modality, words, {}, {}, {}, needs)
           inType == Rule(modality, {}, words, {}, {}, needs)
           inPayload == Rule(modality, {}, {}, words, {}, needs)
           fits == e.modality \in modality /\ needs \subseteq e.text.payload
<1>2. Matches(anywhere, e) <=> fits /\ said
  BY MatchIs
<1>3. Matches(inSignal, e) <=> fits /\ words \cap e.text.signal # {}
  BY MatchIs
<1>4. Matches(inType, e) <=> fits /\ words \cap e.text.type # {}
  BY MatchIs
<1>5. Matches(inPayload, e) <=> fits /\ words \cap e.text.payload # {}
  BY MatchIs
<1> HIDE DEF fits, said, anywhere, inSignal, inType, inPayload
<1>6. /\ words \subseteq SignalWords => (Matches(anywhere, e) <=> Matches(inSignal, e))
      /\ words \subseteq TypeWords => (Matches(anywhere, e) <=> Matches(inType, e))
      /\ words \subseteq PayloadWords => (Matches(anywhere, e) <=> Matches(inPayload, e))
  BY ONLY <1>1, <1>2, <1>3, <1>4, <1>5
<1> QED
  BY <1>6 DEF anywhere, inSignal, inType, inPayload

(* Except for the rate of forwarded requests, ranker and collector recognise *)
(* the evidence for a requirement in the same events.                      *)
LEMMA RulesAgree ==
    ASSUME NEW e, SharesVocabulary(e),
           NEW r \in DOMAIN RankerRules \ {"forwarded_rate"}
    PROVE  Matches(RankerRules[r], e) <=> Matches(CollectorRules[r], e)
<1> DEFINE R == RankerRules[r]
           C == CollectorRules[r]
           S == e.text.signal
           T == e.text.type
           P == e.text.payload
<1>1. CASE r \in {"config_diff", "path_telemetry", "upstream_health",
                 "scanner_authorization", "span_errors"}
  BY <1>1 DEF RankerRules, CollectorRules
<1>2. CASE r \in {"stable_raw_ingress", "raw_ingress",
                 "connection_pressure",
                 "active_connection_pressure",
                 "db_utilization", "pool_waits",
                 "resource_usage", "service_latency",
                 "connection_rejections"}
  <2> SUFFICES \E W \in SUBSET SignalWords :
                  W # {} /\ R = Anywhere(AnyModality, W) /\ C = InSignal(W)
    BY PlacesAgree DEF Anywhere, InSignal
  <2>1. CASE r = "stable_raw_ingress"
    <3> DEFINE W == {"raw_ingress"}
    <3>1. W \in SUBSET SignalWords /\ W # {}
      BY DEF SignalWords
    <3>2. R = Anywhere(AnyModality, W) /\ C = InSignal(W)
      BY <2>1 DEF RankerRules, CollectorRules
    <3> QED
      BY <3>1, <3>2
  <2>2. CASE r = "raw_ingress"
    <3> DEFINE W == {"raw_ingress"}
    <3>1. W \in SUBSET SignalWords /\ W # {}
      BY DEF SignalWords
    <3>2. R = Anywhere(AnyModality, W) /\ C = InSignal(W)
      BY <2>2 DEF RankerRules, CollectorRules
    <3> QED
      BY <3>1, <3>2
  <2>3. CASE r = "connection_pressure"
    <3> DEFINE W == {"connection_utilization"}
    <3>1. W \in SUBSET SignalWords /\ W # {}
      BY DEF SignalWords
    <3>2. R = Anywhere(AnyModality, W) /\ C = InSignal(W)
      BY <2>3 DEF RankerRules, CollectorRules
    <3> QED
      BY <3>1, <3>2
  <2>4. CASE r = "active_connection_pressure"
    <3> DEFINE W == {"active_connections"}
    <3>1. W \in SUBSET SignalWords /\ W # {}
      BY DEF SignalWords
    <3>2. R = Anywhere(AnyModality, W) /\ C = InSignal(W)
      BY <2>4 DEF RankerRules, CollectorRules
    <3> QED
      BY <3>1, <3>2
  <2>5. CASE r = "db_utilization"
    <3> DEFINE W == {"db_connection_utilization"}
    <3>1. W \in SUBSET SignalWords /\ W # {}
      BY DEF SignalWords
    <3>2. R = Anywhere(AnyModality, W) /\ C = InSignal(W)
      BY <2>5 DEF RankerRules, CollectorRules
    <3> QED
      BY <3>1, <3>2
  <2>6. CASE r = "pool_waits"
    <3> DEFINE W == {"pool_wait", "rejected_lease"}
    <3>1. W \in SUBSET SignalWords /\ W # {}
      BY DEF SignalWords
    <3>2. R = Anywhere(AnyModality, W) /\ C = InSignal(W)
      BY <2>6 DEF RankerRules, CollectorRules
    <3> QED
      BY <3>1, <3>2
  <2>7. CASE r = "resource_usage"
    <3> DEFINE W == {"cpu_usage", "memory_usage"}
    <3>1. W \in SUBSET SignalWords /\ W # {}
      BY DEF SignalWords
    <3>2. R = Anywhere(AnyModality, W) /\ C = InSignal(W)
      BY <2>7 DEF RankerRules, CollectorRules
    <3> QED
      BY <3>1, <3>2
  <2>8. CASE r = "service_latency"
    <3> DEFINE W == {"service_p95_latency"}
    <3>1. W \in SUBSET SignalWords /\ W # {}
      BY DEF SignalWords
    <3>2. R = Anywhere(AnyModality, W) /\ C = InSignal(W)
      BY <2>8 DEF RankerRules, CollectorRules
    <3> QED
      BY <3>1, <3>2
  <2>9. CASE r = "connection_rejections"
    <3> DEFINE W == {"rejected_connection_rate"}
    <3>1. W \in SUBSET SignalWords /\ W # {}
      BY DEF SignalWords
    <3>2. R = Anywhere(AnyModality, W) /\ C = InSignal(W)
      BY <2>9 DEF RankerRules, CollectorRules
    <3> QED
      BY <3>1, <3>2
  <2> QED
    BY <1>2, <2>1, <2>2, <2>3, <2>4, <2>5, <2>6, <2>7, <2>8, <2>9
<1>3. CASE r \in {"timeout_log", "resource_log"}
  <2> SUFFICES \E W \in SUBSET TypeWords :
                  W # {} /\ R = Anywhere({"log"}, W) /\ C = InType({"log"}, W)
    BY PlacesAgree DEF Anywhere, InType
  <2>1. CASE r = "timeout_log"
    <3> DEFINE W == {"timeout"}
    <3>1. W \in SUBSET TypeWords /\ W # {}
      BY DEF TypeWords
    <3>2. R = Anywhere({"log"}, W) /\ C = InType({"log"}, W)
      BY <2>1 DEF RankerRules, CollectorRules
    <3> QED
      BY <3>1, <3>2
  <2>2. CASE r = "resource_log"
    <3> DEFINE W == {"resource_saturation"}
    <3>1. W \in SUBSET TypeWords /\ W # {}
      BY DEF TypeWords
    <3>2. R = Anywhere({"log"}, W) /\ C = InType({"log"}, W)
      BY <2>2 DEF RankerRules, CollectorRules
    <3> QED
      BY <3>1, <3>2
  <2> QED
    BY <1>3, <2>1, <2>2
<1>4. CASE r = "dns_queries"
  <2> SUFFICES \E W \in SUBSET TypeWords :
                  W # {} /\ R = Anywhere(AnyModality, W)
                  /\ C = InType(AnyModality, W)
    BY PlacesAgree DEF Anywhere, InType
  <2>1. CASE r = "dns_queries"
    <3> DEFINE W == {"dns", "resolver"}
    <3>1. W \in SUBSET TypeWords /\ W # {}
      BY DEF TypeWords
    <3>2. R = Anywhere(AnyModality, W)
          /\ C = InType(AnyModality, W)
      BY <2>1 DEF RankerRules, CollectorRules
    <3> QED
      BY <3>1, <3>2
  <2> QED
    BY <1>4, <2>1
<1>5. CASE r \in {"scanner_source", "change_ticket"}
  <2> SUFFICES \E W \in SUBSET PayloadWords :
                  W # {} /\ R = Anywhere(AnyModality, W) /\ C = InText({}, {}, W)
    BY PlacesAgree DEF Anywhere, InText
  <2>1. CASE r = "scanner_source"
    <3> DEFINE W == {"source_fingerprint"}
    <3>1. W \in SUBSET PayloadWords /\ W # {}
      BY DEF PayloadWords
    <3>2. R = Anywhere(AnyModality, W) /\ C = InText({}, {}, W)
      BY <2>1 DEF RankerRules, CollectorRules
    <3> QED
      BY <3>1, <3>2
  <2>2. CASE r = "change_ticket"
    <3> DEFINE W == {"change_ticket", "authorization_ticket",
                      "approved_scan_ticket"}
    <3>1. W \in SUBSET PayloadWords /\ W # {}
      BY DEF PayloadWords
    <3>2. R = Anywhere(AnyModality, W) /\ C = InText({}, {}, W)
      BY <2>2 DEF RankerRules, CollectorRules
    <3> QED
      BY <3>1, <3>2
  <2> QED
    BY <1>5, <2>1, <2>2
<1>6. CASE r = "trace_critical_path"
  <2> SUFFICES \E W \in SUBSET SignalWords :
                  W # {} /\ R = Anywhere({"trace"}, W)
                  /\ C = Rule({"trace"}, W, {}, {}, {}, {})
    BY PlacesAgree DEF Anywhere
  <2>1. CASE r = "trace_critical_path"
    <3> DEFINE W == {"trace_span_duration"}
    <3>1. W \in SUBSET SignalWords /\ W # {}
      BY DEF SignalWords
    <3>2. R = Anywhere({"trace"}, W)
          /\ C = Rule({"trace"}, W, {}, {}, {}, {})
      BY <2>1 DEF RankerRules, CollectorRules
    <3> QED
      BY <3>1, <3>2
  <2> QED
    BY <1>6, <2>1
<1>7. CASE r = "dependency_timeout"
  <2> SUFFICES \E W \in SUBSET TypeWords :
                  W # {} /\ R = Rule({"log"}, W, W, W, {}, {"dependency_id"})
                  /\ C = Rule({"log"}, {}, W, {}, {}, {"dependency_id"})
    BY PlacesAgree DEF Anywhere
  <2>1. CASE r = "dependency_timeout"
    <3> DEFINE W == {"timeout"}
    <3>1. W \in SUBSET TypeWords /\ W # {}
      BY DEF TypeWords
    <3>2. R = Rule({"log"}, W, W, W, {}, {"dependency_id"})
          /\ C = Rule({"log"}, {}, W, {}, {}, {"dependency_id"})
      BY <2>1 DEF RankerRules, CollectorRules
    <3> QED
      BY <3>1, <3>2
  <2> QED
    BY <1>7, <2>1
<1>8. /\ \A w \in SignalWords : w \in T \/ w \in P => w \in S
      /\ \A w \in TypeWords : w \in S \/ w \in P => w \in T
      /\ \A w \in PayloadWords : w \in S \/ w \in T => w \in P
      /\ "duration" \in S => "latency" \in S
      /\ "handshake" \in T => "certificate" \in T \/ "tls" \in T
      /\ "waf" \in e.text.source => "waf_decision" \in T
  BY DEF SharesVocabulary, Said
<1> HIDE DEF S, T, P
<1>9. CASE r = "source_distribution"
  <2>1. R = Anywhere(AnyModality,
               {"raw_ingress", "source_distribution", "source_ip", "client_ip"})
    BY <1>9 DEF RankerRules
  <2>2. C = InText({"raw_ingress"}, {},
                    {"source_distribution", "client_ip", "source_ip"})
    BY <1>9 DEF CollectorRules
  <2> HIDE DEF R, C
  <2>3. Matches(R, e) <=>
           /\ e.modality \in AnyModality
           /\ "raw_ingress" \in S \/ "raw_ingress" \in T \/
              "raw_ingress" \in P \/ "source_distribution" \in S \/
              "source_distribution" \in T \/ "source_distribution" \in P \/
              "source_ip" \in S \/ "source_ip" \in T \/ "source_ip" \in P \/
              "client_ip" \in S \/ "client_ip" \in T \/ "client_ip" \in P
    BY <2>1, MatchIs DEF S, T, P, Anywhere
  <2>4. Matches(C, e) <=>
           /\ e.modality \in AnyModality
           /\ "raw_ingress" \in S \/ "source_distribution" \in P \/
              "source_ip" \in P \/ "client_ip" \in P
    BY <2>2, MatchIs DEF S, T, P, InSignal, InType, InText
  <2>5. /\ "raw_ingress" \in T \/ "raw_ingress" \in P => "raw_ingress" \in S
        /\ "source_distribution" \in S \/ "source_distribution" \in T
              => "source_distribution" \in P
        /\ "source_ip" \in S \/ "source_ip" \in T => "source_ip" \in P
        /\ "client_ip" \in S \/ "client_ip" \in T => "client_ip" \in P
    BY <1>8 DEF SignalWords, PayloadWords
  <2>6. Matches(R, e) <=> Matches(C, e)
    BY <2>3, <2>4, <2>5, <1>8
  <2> QED
    BY <2>6 DEF R, C
<1>10. CASE r = "downstream_latency"
  <2>1. R = Anywhere(AnyModality, {"latency"})
    BY <1>10 DEF RankerRules
  <2>2. C = InSignal({"latency", "duration"})
    BY <1>10 DEF CollectorRules
  <2> HIDE DEF R, C
  <2>3. Matches(R, e) <=>
           /\ e.modality \in AnyModality
           /\ "latency" \in S \/ "latency" \in T \/ "latency" \in P
    BY <2>1, MatchIs DEF S, T, P, Anywhere
  <2>4. Matches(C, e) <=>
           /\ e.modality \in AnyModality
           /\ "latency" \in S \/ "duration" \in S
    BY <2>2, MatchIs DEF S, T, P, InSignal, InType, InText
  <2>5. "latency" \in T \/ "latency" \in P => "latency" \in S
    BY <1>8 DEF SignalWords
  <2>6. Matches(R, e) <=> Matches(C, e)
    BY <2>3, <2>4, <2>5, <1>8
  <2> QED
    BY <2>6 DEF R, C
<1>11. CASE r \in {"waf_decision_logs", "waf_decisions"}
  <2>1. R = Anywhere(AnyModality, {"waf_decision"})
    BY <1>11 DEF RankerRules
  <2>2. C = Rule(AnyModality, {}, {"waf_decision"}, {}, {"waf"}, {})
    BY <1>11 DEF CollectorRules
  <2> HIDE DEF R, C
  <2>3. Matches(R, e) <=>
           /\ e.modality \in AnyModality
           /\ "waf_decision" \in S \/ "waf_decision" \in T \/
              "waf_decision" \in P
    BY <2>1, MatchIs DEF S, T, P, Anywhere
  <2>4. Matches(C, e) <=>
           /\ e.modality \in AnyModality
           /\ "waf_decision" \in T \/ "waf" \in e.text.source
    BY <2>2, MatchIs DEF S, T, P, InSignal, InType, InText
  <2>5. "waf_decision" \in S \/ "waf_decision" \in P => "waf_decision" \in T
    BY <1>8 DEF TypeWords
  <2>6. Matches(R, e) <=> Matches(C, e)
    BY <2>3, <2>4, <2>5, <1>8
  <2> QED
    BY <2>6 DEF R, C
<1>12. CASE r = "certificate_state"
  <2>1. R = Anywhere(AnyModality, {"certificate", "tls"})
    BY <1>12 DEF RankerRules
  <2>2. C = InType(AnyModality, {"certificate", "tls", "handshake"})
    BY <1>12 DEF CollectorRules
  <2> HIDE DEF R, C
  <2>3. Matches(R, e) <=>
           /\ e.modality \in AnyModality
           /\ "certificate" \in S \/ "certificate" \in T \/
              "certificate" \in P \/ "tls" \in S \/ "tls" \in T \/ "tls" \in P
    BY <2>1, MatchIs DEF S, T, P, Anywhere
  <2>4. Matches(C, e) <=>
           /\ e.modality \in AnyModality
           /\ "certificate" \in T \/ "tls" \in T \/ "handshake" \in T
    BY <2>2, MatchIs DEF S, T, P, InSignal, InType, InText
  <2>5. /\ "certificate" \in S \/ "certificate" \in P => "certificate" \in T
        /\ "tls" \in S \/ "tls" \in P => "tls" \in T
    BY <1>8 DEF TypeWords
  <2>6. Matches(R, e) <=> Matches(C, e)
    BY <2>3, <2>4, <2>5, <1>8
  <2> QED
    BY <2>6 DEF R, C
<1>13. CASE r = "scan_pattern"
  <2>1. R = Anywhere(AnyModality,
               {"unique_destination_ports", "destination_fanout", "port_scan"})
    BY <1>13 DEF RankerRules
  <2>2. C = InText({"unique_destination_ports", "destination_fanout"},
                    {"port_scan"}, {})
    BY <1>13 DEF CollectorRules
  <2> HIDE DEF R, C
  <2>3. Matches(R, e) <=>
           /\ e.modality \in AnyModality
           /\ "unique_destination_ports" \in S \/
              "unique_destination_ports" \in T \/
              "unique_destination_ports" \in P \/ "destination_fanout" \in S
              \/ "destination_fanout" \in T \/ "destination_fanout" \in P \/
              "port_scan" \in S \/ "port_scan" \in T \/ "port_scan" \in P
    BY <2>1, MatchIs DEF S, T, P, Anywhere
  <2>4. Matches(C, e) <=>
           /\ e.modality \in AnyModality
           /\ "unique_destination_ports" \in S \/
              "destination_fanout" \in S \/ "port_scan" \in T
    BY <2>2, MatchIs DEF S, T, P, InSignal, InType, InText
  <2>5. /\ "unique_destination_ports" \in T \/ "unique_destination_ports" \in P
              => "unique_destination_ports" \in S
        /\ "destination_fanout" \in T \/ "destination_fanout" \in P
              => "destination_fanout" \in S
        /\ "port_scan" \in S \/ "port_scan" \in P => "port_scan" \in T
    BY <1>8 DEF SignalWords, TypeWords
  <2>6. Matches(R, e) <=> Matches(C, e)
    BY <2>3, <2>4, <2>5, <1>8
  <2> QED
    BY <2>6 DEF R, C
<1>14. CASE r = "datanode_health"
  <2>1. R = Rule(AnyModality, {"datanode_io_error", "hdfs_datanode_failure"},
                  {"datanode_io_error", "hdfs_datanode_failure"}, {}, {}, {})
    BY <1>14 DEF RankerRules
  <2>2. C = InText({"datanode_io_error"}, {"hdfs_datanode_failure"}, {})
    BY <1>14 DEF CollectorRules
  <2> HIDE DEF R, C
  <2>3. Matches(R, e) <=>
           /\ e.modality \in AnyModality
           /\ "datanode_io_error" \in S \/ "datanode_io_error" \in T \/
              "hdfs_datanode_failure" \in S \/ "hdfs_datanode_failure" \in T
    BY <2>1, MatchIs DEF S, T, P, Anywhere
  <2>4. Matches(C, e) <=>
           /\ e.modality \in AnyModality
           /\ "datanode_io_error" \in S \/ "hdfs_datanode_failure" \in T
    BY <2>2, MatchIs DEF S, T, P, InSignal, InType, InText
  <2>5. /\ "datanode_io_error" \in T \/ "datanode_io_error" \in P
              => "datanode_io_error" \in S
        /\ "hdfs_datanode_failure" \in S \/ "hdfs_datanode_failure" \in P
              => "hdfs_datanode_failure" \in T
    BY <1>8 DEF SignalWords, TypeWords
  <2>6. Matches(R, e) <=> Matches(C, e)
    BY <2>3, <2>4, <2>5, <1>8
  <2> QED
    BY <2>6 DEF R, C
<1>15. CASE r = "replication_state"
  <2>1. R = Anywhere(AnyModality, {"replica", "datanode_failure"})
    BY <1>15 DEF RankerRules
  <2>2. C = InText({}, {"replica", "datanode_failure"}, {"replica"})
    BY <1>15 DEF CollectorRules
  <2> HIDE DEF R, C
  <2>3. Matches(R, e) <=>
           /\ e.modality \in AnyModality
           /\ "replica" \in S \/ "replica" \in T \/ "replica" \in P \/
              "datanode_failure" \in S \/ "datanode_failure" \in T \/
              "datanode_failure" \in P
    BY <2>1, MatchIs DEF S, T, P, Anywhere
  <2>4. Matches(C, e) <=>
           /\ e.modality \in AnyModality
           /\ "replica" \in T \/ "datanode_failure" \in T \/
              "replica" \in P
    BY <2>2, MatchIs DEF S, T, P, InSignal, InType, InText
  <2>5. /\ "datanode_failure" \in S \/ "datanode_failure" \in P
              => "datanode_failure" \in T
        /\ "replica" \in S \/ "replica" \in T => "replica" \in P
    BY <1>8 DEF TypeWords, PayloadWords
  <2>6. Matches(R, e) <=> Matches(C, e)
    BY <2>3, <2>4, <2>5, <1>8
  <2> QED
    BY <2>6 DEF R, C
<1> HIDE DEF R, C
<1>16. r \in {"config_diff", "path_telemetry", "upstream_health",
             "scanner_authorization", "span_errors", "stable_raw_ingress",
             "raw_ingress", "connection_pressure", "active_connection_pressure",
             "db_utilization", "pool_waits", "resource_usage", "service_latency",
             "connection_rejections", "trace_critical_path", "timeout_log",
             "dns_queries", "resource_log", "dependency_timeout",
             "scanner_source", "change_ticket", "source_distribution",
             "downstream_latency", "waf_decision_logs", "waf_decisions",
             "certificate_state", "scan_pattern", "datanode_health",
             "replication_state"}
  BY DEF RankerRules
<1> QED
  BY <1>1, <1>2, <1>3, <1>4, <1>5, <1>6, <1>7, <1>9, <1>10, <1>11, <1>12,
     <1>13, <1>14, <1>15, <1>16

(* A metric that counts forwarded requests is where an event speaks of them, *)
(* so that evidence for a requirement is in scope of an entity for the      *)
(* ranker just if it is for the collector.                                 *)
LEMMA EvidenceIsFound ==
    ASSUME NEW b, SharedVocabulary(b), NEW r \in DOMAIN RankerRules, NEW x
    PROVE  (\E e \in b.events : Matches(RankerRules[r], e) /\ InScope(r, e, x))
              <=> (\E e \in b.events :
                      Matches(CollectorRules[r], e) /\ InScope(r, e, x))
<1>1. \A e \in b.events : SharesVocabulary(e)
  BY DEF SharedVocabulary, SharesVocabulary
<1>2. CASE r # "forwarded_rate"
  <2>1. \A e \in b.events : Matches(RankerRules[r], e) <=> Matches(CollectorRules[r], e)
    BY <1>1, <1>2, RulesAgree
  <2> QED
    BY <2>1
<1>3. CASE r = "forwarded_rate"
  <2>1. \A e : InScope(r, e, x) <=> e.entity = x
    BY <1>3 DEF InScope, Unscoped
  <2>2. \A e : Matches(RankerRules[r], e) <=>
           e.modality \in AnyModality /\ Said(e, {"forwarded_request"}) # {}
    <3>1. RankerRules[r] = Anywhere(AnyModality, {"forwarded_request"})
      BY <1>3 DEF RankerRules
    <3> QED
      BY ONLY <3>1, MatchIs DEF Anywhere, Said
  <2>3. \A e : Matches(CollectorRules[r], e) <=>
           e.modality \in AnyModality /\ e.text.signal \cap RateNames # {}
    <3>1. CollectorRules[r] = InSignal(RateNames)
      BY <1>3 DEF CollectorRules, RateNames
    <3>2. RateNames # {}
      BY DEF RateNames
    <3> QED
      BY ONLY <3>1, <3>2, MatchIs DEF InSignal
  <2>4. ASSUME NEW e \in b.events, Said(e, {"forwarded_request"}) # {}
        PROVE  \E d \in b.events : /\ d.modality \in AnyModality
                                   /\ d.entity = e.entity
                                   /\ d.text.signal \cap RateNames # {}
    BY <2>4 DEF SharedVocabulary, AnyModality
  <2>5. ASSUME NEW e \in b.events, e.text.signal \cap RateNames # {}
        PROVE  Said(e, {"forwarded_request"}) # {}
    <3>1. "forwarded_request" \in e.text.signal
      BY <2>5 DEF SharedVocabulary
    <3> QED
      BY ONLY <3>1 DEF Said
  <2> QED
    BY ONLY <2>1, <2>2, <2>3, <2>4, <2>5
<1> QED
  BY <1>2, <1>3

(* A set of events has a latest one unless it is empty.                     *)
LEMMA LatestIs ==
    ASSUME NEW S, Dated(S), NoEvent \notin S
    PROVE  Latest(S) = NoEvent <=> S = {}
<1>1. CASE S = {}
  BY <1>1 DEF Latest
<1>2. CASE S # {}
  <2> DEFINE R == {p \in S \X S : Before(p[2], p[1])}
  <2>1. \A x, y \in S : <<x, y>> \in R <=> Before(y, x)
    OBVIOUS
  <2> HIDE DEF R
  <2>2. IsOrder(S, R)
    <3>1. \A x \in S : ~Before(x, x)
      BY DEF Dated, Before
    <3>2. \A x, y, z \in S : Before(x, y) /\ Before(y, z) => Before(x, z)
      BY DEF Dated, Before
    <3> QED
      BY <2>1, <3>1, <3>2 DEF IsOrder
  <2>3. PICK e \in S : \A f \in S : <<f, e>> \notin R
    BY <1>2, <2>2, MinimalExists DEF Dated
  <2>4. \A f \in S : e = f \/ Before(f, e)
    <3>1. \A f \in S : e = f \/ Before(f, e) \/ Before(e, f)
      BY DEF Dated, Before
    <3> QED
      BY <2>1, <2>3, <3>1
  <2>5. Latest(S) \in S
    BY <1>2, <2>4 DEF Latest
  <2> QED
    BY <1>2, <2>5
<1> QED
  BY <1>1, <1>2

(* The ids of events start at 1.                                           *)
LEMMA NoEventIsNone == FromIncident => NoEvent \notin bundle.events
<1> SUFFICES ASSUME FromIncident PROVE NoEvent \notin bundle.events
  OBVIOUS
<1>1. PICK inc \in Incidents : bundle = Bundle(inc)
  BY DEF FromIncident
<1>2. bundle.events = inc.events
  BY <1>1 DEF Bundle
<1>3. \A e \in inc.events : e.id \in Nat \ {0}
  BY DeliveryAssumption DEF CanonicalEvent
<1>4. NoEvent.id = 0
  BY DEF NoEvent
<1> QED
  BY <1>2, <1>3, <1>4

(* The collector misses a requirement just where the ranker has no event.   *)
LEMMA MissingIs ==
    ASSUME NEW b, Dated(b.events), NoEvent \notin b.events, SharedVocabulary(b),
           NEW r \in DOMAIN RankerRules, NEW x
    PROVE  LatestMatch(r, b, x) = NoEvent <=>
              ~\E e \in b.events : Matches(RankerRules[r], e) /\ InScope(r, e, x)
<1> DEFINE S == {e \in MatchingEvents(r, b) : InScope(r, e, x)}
<1>1. S \subseteq b.events /\ Dated(S) /\ NoEvent \notin S
  <2>1. S \subseteq b.events
    BY DEF MatchingEvents
  <2> HIDE DEF S
  <2>2. IsFiniteSet(S)
    BY <2>1, FS_Subset DEF Dated
  <2> QED
    BY <2>1, <2>2 DEF Dated
<1>2. S = {} <=> ~\E e \in b.events : /\ Matches(CollectorRules[r], e)
                                      /\ InScope(r, e, x)
  BY DEF MatchingEvents
<1>3. LatestMatch(r, b, x) = Latest(S)
  BY DEF LatestMatch
<1> HIDE DEF S
<1> QED
  BY <1>1, <1>2, <1>3, LatestIs, EvidenceIsFound

(* The missing items of a hypothesis are those of its missing requirements.  *)
LEMMA MissingItemsAre ==
    ASSUME NEW entry, NEW b, NEW scored
    PROVE  {i \in CollectEvidence(entry, b, scored) : i.kind = "missing"}
              = {RequirementItem(r, b, scored.candidate.entity) :
                    r \in {q \in entry.expected :
                       LatestMatch(q, b, scored.candidate.entity) = NoEvent}}
<1> DEFINE x == scored.candidate.entity
           items == RequirementItems(entry, b, x)
           conflicts == ConflictItems(entry, b, scored.conflicts)
           others == Association(entry, b, items) \cup conflicts
                        \cup AlternativeCause(entry, b, conflicts)
<1>1. CollectEvidence(entry, b, scored) = items \cup others
  BY DEF CollectEvidence
<1>2. \A i \in others : i.kind # "missing"
  <2>1. \A why, kind, code, e : Item(why, kind, code, e).kind = kind
    BY DEF Item
  <2>2. \A i \in Association(entry, b, items) : i.kind = "correlated"
    BY <2>1 DEF Association
  <2>3. \A i \in conflicts : i.kind = "conflicting"
    <3> SUFFICES ASSUME NEW i \in ConflictItems(entry, b, scored.conflicts)
                 PROVE  i.kind = "conflicting"
      OBVIOUS
    <3>1. \E why, code, e : i = Item(why, "conflicting", code, e)
      <4>1. CASE scored.conflicts # {}
        BY <4>1, Zenon DEF ConflictItems
      <4>2. CASE scored.conflicts = {}
        <5>1. PICK c : i = NamedConflict(c.id, b)
          BY <4>2, Zenon DEF ConflictItems
        <5> QED
          BY <5>1, Zenon DEF NamedConflict
      <4> QED
        BY <4>1, <4>2
    <3> QED
      BY <3>1, <2>1
  <2>4. \A i \in AlternativeCause(entry, b, conflicts) : i.kind = "conflicting"
    BY <2>1 DEF AlternativeCause
  <2> HIDE DEF items, conflicts
  <2> QED
    BY <2>2, <2>3, <2>4
<1>3. ASSUME NEW r \in entry.expected
      PROVE  RequirementItem(r, b, x).kind = "missing"
                <=> LatestMatch(r, b, x) = NoEvent
  <2>1. \A why, kind, code, e : Item(why, kind, code, e).kind = kind
    BY DEF Item
  <2> QED
    BY <2>1 DEF RequirementItem
<1>4. items = {RequirementItem(r, b, x) : r \in entry.expected}
  BY DEF RequirementItems
<1> HIDE DEF items, others, x
<1>5. {i \in items \cup others : i.kind = "missing"}
         = {RequirementItem(r, b, x) :
               r \in {q \in entry.expected : LatestMatch(q, b, x) = NoEvent}}
  BY <1>2, <1>3, <1>4
<1> QED
  BY <1>1, <1>5 DEF x

(* Items for different requirements differ, so they count the requirements.  *)
LEMMA MissingAreCounted ==
    ASSUME NEW b, NEW x, NEW M, IsFiniteSet(M)
    PROVE  Cardinality({RequirementItem(r, b, x) : r \in M}) = Cardinality(M)
<1> DEFINE I == {RequirementItem(r, b, x) : r \in M}
           f == [r \in M |-> RequirementItem(r, b, x)]
<1>1. \A r \in M : RequirementItem(r, b, x).why = r
  <2>1. \A why, kind, code, e : Item(why, kind, code, e).why = why
    BY DEF Item
  <2> QED
    BY <2>1 DEF RequirementItem
<1>2. f \in Bijection(M, I)
  BY <1>1 DEF Bijection, Injection, Surjection, IsInjective
<1> HIDE DEF f, I
<1>3. Cardinality(M) = Cardinality(I)
  <2>1. ExistsBijection(M, I)
    BY <1>2 DEF ExistsBijection
  <2> QED
    BY <2>1, FS_Bijection
<1> QED
  BY <1>3 DEF I

(* What is expected is available or missing.                               *)
LEMMA CoverageCounts ==
    ASSUME NEW E, IsFiniteSet(E), NEW A \in SUBSET E
    PROVE  Max({0, Cardinality(E) - Cardinality(E \ A)}) = Cardinality(A)
<1>1. /\ IsFiniteSet(A) /\ IsFiniteSet(E \ A)
      /\ Cardinality(A) \in Nat /\ Cardinality(E) \in Nat
      /\ Cardinality(E \ A) \in Nat
  BY FS_Subset, FS_Difference, FS_CardinalityType
<1>2. Cardinality(E \ A) = Cardinality(E) - Cardinality(E \cap A)
  BY FS_Difference
<1>3. E \cap A = A
  OBVIOUS
<1>4. Cardinality(E) - Cardinality(E \ A) = Cardinality(A)
  BY <1>1, <1>2, <1>3
<1> DEFINE n == Cardinality(A)
<1>5. n \in Nat
  BY <1>1
<1> HIDE DEF n
<1>6. Max({0, n}) = n
  BY <1>5, GreatestOfTwo
<1> QED
  BY <1>4, <1>6 DEF n

(* So the adapter's check of the coverage succeeds.                         *)
LEMMA CoverageHolds ==
    ASSUME RankingInv
    PROVE  CoverageAgrees
<1> SUFFICES ASSUME SharedVocabulary(bundle), NEW k \in DOMAIN ranked
             PROVE  CoverageMatches(ranked[k])
  BY DEF CoverageAgrees
<1> DEFINE s == ranked[k]
           c == s.candidate
           entry == Catalogue[c.cause]
           x == c.entity
           A == s.available
           M == {r \in entry.expected : LatestMatch(r, bundle, x) = NoEvent}
<1>1. /\ s = ScoreCandidate(c, bundle) /\ c.cause \in DOMAIN Catalogue
      /\ Dated(bundle.events) /\ NoEvent \notin bundle.events
  <2>1. Len(ranked) \in Nat /\ DOMAIN ranked = 1..Len(ranked)
    BY RankedIs
  <2>2. ranked # << >>
    BY <2>1
  <2>3. PICK d \in Candidates(bundle) : Scored(s, d, bundle)
    BY <2>1, <2>2, RankedIs DEF Ranked
  <2>4. Readable(bundle) /\ NoEvent \notin bundle.events
    BY BundleIsReadable, NoEventIsNone DEF RankingInv
  <2> QED
    BY <2>3, <2>4, CandidatesAre DEF Scored, Readable
<1>2. A = AvailableRequirements(entry, c, bundle)
  <2>1. ScoreCandidate(c, bundle).available
           = AvailableRequirements(Catalogue[c.cause], c, bundle)
    BY DEF ScoreCandidate
  <2> QED
    BY ONLY <1>1, <2>1
<1>3. IsFiniteSet(entry.expected) /\ entry.expected \subseteq DOMAIN RankerRules
  BY <1>1, CatalogueAssumption, ShippedAssumption
<1> HIDE DEF s, c, entry
<1>4. A = {r \in entry.expected : \E e \in bundle.events :
              Matches(RankerRules[r], e) /\ InScope(r, e, x)}
  BY <1>2 DEF AvailableRequirements
<1>5. M = entry.expected \ A
  <2>1. \A r \in entry.expected : r \in M <=> r \notin A
    BY <1>1, <1>3, <1>4, MissingIs
  <2> QED
    BY <2>1
<1>6. {i \in CollectEvidence(entry, bundle, s) : i.kind = "missing"}
         = {RequirementItem(r, bundle, x) : r \in M}
  BY MissingItemsAre DEF c
<1>7. IsFiniteSet(M)
  BY <1>3, FS_Subset
<1>8. A \in SUBSET entry.expected
  BY <1>4
<1> HIDE DEF A, M, x
<1>9. CalculateCoverage(entry, CollectEvidence(entry, bundle, s))
         = Max({0, Cardinality(entry.expected) - Cardinality(M)})
  <2>1. Cardinality({RequirementItem(r, bundle, x) : r \in M}) = Cardinality(M)
    BY <1>7, MissingAreCounted
  <2> QED
    BY <1>6, <2>1 DEF CalculateCoverage
<1>10. CalculateCoverage(entry, CollectEvidence(entry, bundle, s)) = Cardinality(A)
  BY <1>3, <1>5, <1>8, <1>9, CoverageCounts
<1> QED
  BY <1>10 DEF CoverageMatches, Collected, Entry, entry, c, s, A

-----------------------------------------------------------------------------
(* Routes.                                                                 *)

(* A graph that the engine traverses is within the topology.               *)
LEMMA GraphIs ==
    ASSUME NEW b, Readable(b), NEW traversal,
           traversal.relation \in {"sends_traffic_to", "depends_on"}
    PROVE  Graph(b, traversal) \in SUBSET (Entities \X Entities)
<1> DEFINE edges == b.edges[traversal.relation]
<1>1. edges \in SUBSET (Entities \X Entities)
  BY DEF Readable
<1> HIDE DEF edges
<1>2. {<<e[2], e[1]>> : e \in edges} \in SUBSET (Entities \X Entities)
  BY <1>1
<1> QED
  BY <1>1, <1>2 DEF Graph, RelationGraph, edges

(* A path of n edges has n hops and is not the empty route.                 *)
LEMMA HopsOfPath ==
    ASSUME NEW graph, NEW x, NEW y, NEW n \in Nat,
           NEW p \in Paths(Entities, graph, x, y, n)
    PROVE  Hops(p) = n /\ p # NoRoute /\ DOMAIN p = 0..n
<1>1. DOMAIN p = 0..n
  BY DEF Paths
<1>2. IsFiniteSet(0..n) /\ Cardinality(0..n) = n + 1
  BY FS_Interval
<1>3. 0 \in DOMAIN p
  BY <1>1
<1>4. DOMAIN NoRoute = {}
  BY DEF NoRoute
<1> QED
  BY <1>1, <1>2, <1>3, <1>4 DEF Hops

(* A route is a path that is not too long.                                  *)
LEMMA RouteIs ==
    ASSUME NEW b, Readable(b), NEW traversal,
           traversal.relation \in {"sends_traffic_to", "depends_on"},
           traversal.hops \in Nat, NEW x \in Entities, NEW y
    PROVE  \/ Route(b, x, y, traversal) = NoRoute
           \/ \E n \in 0..traversal.hops :
                 Route(b, x, y, traversal)
                     \in Paths(Entities, Graph(b, traversal), x, y, n)
<1> DEFINE graph == Graph(b, traversal)
           d == TopologyDistance(Entities, graph, x, y)
           N == Cardinality(Entities)
<1>1. graph \in SUBSET (Entities \X Entities)
  BY GraphIs
<1>2. IsFiniteSet(Entities) /\ N \in Nat
  BY TopologyAssumption, FS_CardinalityType
<1>3. CASE d = NoPath \/ d > traversal.hops
  BY <1>3 DEF Route
<1>4. CASE d # NoPath /\ d <= traversal.hops
  <2>1. d \in 0..N /\ y \in Ball(graph, x, d) /\ \A n \in 0..(d - 1) : y \notin Ball(graph, x, n)
    BY <1>2, <1>4, DistanceIs
  <2>2. d \in 0..traversal.hops /\ ~(d > traversal.hops)
    BY <1>4, <2>1
  <2>3. Route(b, x, y, traversal) = CHOOSE p \in Paths(Entities, graph, x, y, d) : TRUE
    BY <1>4, <2>2 DEF Route
  <2> HIDE DEF d, graph
  <2>4. Paths(Entities, graph, x, y, d) # {}
    <3>1. PICK n \in 0..d : Paths(Entities, graph, x, y, n) # {}
      BY <1>1, <2>1, BallIsPaths
    <3>2. y \in Ball(graph, x, n)
      BY <1>1, <2>1, <3>1, BallIsPaths
    <3>3. n = d
      <4>1. n \in 0..(d - 1) \/ n = d
        BY <2>1, <3>1
      <4> QED
        BY <2>1, <3>2, <4>1
    <3> QED
      BY <3>1, <3>3
  <2>5. Route(b, x, y, traversal) \in Paths(Entities, graph, x, y, d)
    BY <2>3, <2>4
  <2> QED
    BY <2>2, <2>5 DEF graph
<1> HIDE DEF graph
<1>5. d \in Int
  BY <1>2, DistanceIs DEF NoPath
<1> QED
  BY <1>3, <1>4, <1>5

(* The ranker has a route to what the generator could reach.                *)
LEMMA RouteExists ==
    ASSUME NEW b, Readable(b), NEW traversal,
           traversal.relation \in {"sends_traffic_to", "depends_on"},
           traversal.hops \in 1..MaxHops, NEW x \in Entities, NEW y,
           TypedPathExists(b, x, y, traversal)
    PROVE  \E n \in 0..traversal.hops :
               Route(b, x, y, traversal)
                   \in Paths(Entities, Graph(b, traversal), x, y, n)
<1> DEFINE graph == Graph(b, traversal)
           d == TopologyDistance(Entities, graph, x, y)
           N == Cardinality(Entities)
           hops == traversal.hops
<1>1. graph \in SUBSET (Entities \X Entities)
  BY GraphIs
<1>2. IsFiniteSet(Entities) /\ N \in Nat
  BY TopologyAssumption, FS_CardinalityType
<1>3. hops \in {1, 2} /\ hops \in Nat
  BY DEF MaxHops
<1>4. y \in Ball(graph, x, hops) /\ y \in Entities
  <2>1. y \in Ball(graph, x, hops)
    BY DEF TypedPathExists
  <2>2. Ball(graph, x, hops) \subseteq Entities
    BY <1>1, <1>3, BallWithin
  <2> QED
    BY <2>1, <2>2
<1> HIDE DEF graph, d, hops
<1>5. PICK n \in 0..N : n <= hops /\ y \in Ball(graph, x, n)
  <2>1. CASE N >= 2
    <3>1. hops \in 0..N /\ hops <= hops
      BY <1>2, <1>3, <2>1
    <3> QED
      BY <1>4, <3>1
  <2>2. CASE N <= 1
    <3>1. {x, y} \in SUBSET Entities
      BY <1>4
    <3>2. IsFiniteSet({x, y}) /\ Cardinality({x, y}) <= N
      BY <1>2, <3>1, FS_Subset
    <3>3. x = y
      <4>1. Cardinality({x} \cup {y}) = IF y \in {x} THEN 1 ELSE 2
        <5>1. IsFiniteSet({x}) /\ Cardinality({x}) = 1
          BY FS_Singleton
        <5>2. Cardinality({x} \cup {y})
                  = IF y \in {x} THEN Cardinality({x}) ELSE Cardinality({x}) + 1
          BY ONLY <5>1, FS_AddElement
        <5> QED
          BY <5>1, <5>2
      <4>2. {x} \cup {y} = {x, y}
        OBVIOUS
      <4> QED
        BY <1>2, <2>2, <3>2, <4>1, <4>2
    <3>4. y \in Ball(graph, x, 0)
      BY <3>3, BallIs
    <3> QED
      BY <1>2, <1>3, <3>4
  <2> QED
    BY <1>2, <2>1, <2>2
<1>6. d # NoPath /\ d <= hops
  <2>1. \/ /\ d = NoPath
           /\ \A m \in 0..N : y \notin Ball(graph, x, m)
        \/ /\ d \in 0..N
           /\ \A m \in 0..(d - 1) : y \notin Ball(graph, x, m)
    BY <1>2, DistanceIs DEF d
  <2>2. d \in 0..N /\ \A m \in 0..(d - 1) : y \notin Ball(graph, x, m)
    BY <1>5, <2>1
  <2>3. d <= n
    <3>1. n < d => n \in 0..(d - 1)
      BY <2>2
    <3> QED
      BY <1>5, <2>2, <3>1
  <2> QED
    BY <1>3, <1>5, <2>2, <2>3 DEF NoPath
<1>7. Paths(Entities, graph, x, y, d) # {}
  <2>1. IsDistance(Entities, graph, x, y, d)
    BY <1>1, <1>2, <1>4, DistanceIsShortest DEF d
  <2> QED
    BY <1>6, <2>1 DEF IsDistance
<1>8. d \in 0..hops
  BY <1>2, <1>3, <1>6, DistanceIs DEF d
<1>9. Route(b, x, y, traversal) = CHOOSE p \in Paths(Entities, graph, x, y, d) : TRUE
  <2>1. ~(d = NoPath \/ d > hops)
    BY <1>3, <1>6, <1>8
  <2> QED
    BY <2>1 DEF Route, d, graph, hops
<1>10. Route(b, x, y, traversal) \in Paths(Entities, graph, x, y, d)
  BY <1>7, <1>9
<1> QED
  BY <1>8, <1>10 DEF graph, hops

(* Where an entry looks for its origins, all of them are in the topology.   *)
LEMMA AffectedAre ==
    ASSUME NEW b, Readable(b)
    PROVE  /\ Len(AffectedOrPrimary(b)) \in Nat
           /\ DOMAIN AffectedOrPrimary(b) = 1..Len(AffectedOrPrimary(b))
           /\ \A k \in DOMAIN AffectedOrPrimary(b) :
                 AffectedOrPrimary(b)[k] \in Entities
<1>1. b.primary \in Entities /\ b.affected \in Seq(Entities)
  BY DEF Readable
<1>2. <<b.primary>> \in Seq(Entities)
  BY <1>1
<1>3. AffectedOrPrimary(b) \in Seq(Entities)
  BY <1>1, <1>2 DEF AffectedOrPrimary
<1> QED
  BY <1>3

(* Among finitely many places there is a first nearest one.                *)
LEMMA NearestIs ==
    ASSUME NEW S, IsFiniteSet(S), S # {}, S \subseteq Int,
           NEW length \in [S -> Int]
    PROVE  \E k \in S : \A l \in S : \/ length[k] < length[l]
                                     \/ length[k] = length[l] /\ k <= l
<1> DEFINE R == {p \in S \X S : \/ length[p[1]] < length[p[2]]
                                \/ length[p[1]] = length[p[2]] /\ p[1] < p[2]}
<1>1. \A x, y \in S : <<x, y>> \in R <=> \/ length[x] < length[y]
                                         \/ length[x] = length[y] /\ x < y
  OBVIOUS
<1> HIDE DEF R
<1>2. IsOrder(S, R)
  <2>1. \A x \in S : <<x, x>> \notin R
    BY <1>1
  <2>2. \A x, y, z \in S : <<x, y>> \in R /\ <<y, z>> \in R => <<x, z>> \in R
    BY <1>1
  <2> QED
    BY <2>1, <2>2 DEF IsOrder
<1>3. PICK k \in S : \A l \in S : <<l, k>> \notin R
  BY <1>2, MinimalExists
<1>4. ASSUME NEW l \in S
      PROVE  \/ length[k] < length[l]
             \/ length[k] = length[l] /\ k <= l
  <2>1. ~(length[l] < length[k]) /\ ~(length[l] = length[k] /\ l < k)
    BY <1>1, <1>3
  <2>2. length[l] \in Int /\ length[k] \in Int /\ l \in Int /\ k \in Int
    OBVIOUS
  <2> QED
    BY ONLY <2>1, <2>2
<1> QED
  BY <1>4

(* A route from an origin from which the cause can be reached.              *)
LEMMA TopologyPathIs ==
    ASSUME NEW b, Readable(b), NEW k \in DOMAIN Catalogue, NEW candidate,
           Admissible(Catalogue[k], b, candidate.entity),
           TopologyOrigins(Catalogue[k], b) = AffectedOrPrimary(b)
    PROVE  /\ TopologyPath(Catalogue[k], candidate, b) # NoRoute
           /\ TopologyFactor(TopologyPath(Catalogue[k], candidate, b)) > 0
<1> DEFINE entry == Catalogue[k]
           y == candidate.entity
           origins == AffectedOrPrimary(b)
           route == [n \in DOMAIN origins |->
                         Route(b, origins[n], y, entry.traversal)]
           connected == {n \in DOMAIN origins : route[n] # NoRoute}
           nearest == CHOOSE n \in connected : \A l \in connected :
                         \/ Hops(route[n]) < Hops(route[l])
                         \/ Hops(route[n]) = Hops(route[l]) /\ n <= l
           path == TopologyPath(entry, candidate, b)
<1>1. /\ entry.traversal.relation \in {"sends_traffic_to", "depends_on"}
      /\ entry.traversal.hops \in 1..MaxHops /\ entry.traversal.hops \in {1, 2}
      /\ entry.traversal.hops \in Nat
  BY CatalogueAssumption, ShippedAssumption DEF MaxHops
<1>2. /\ Len(origins) \in Nat /\ DOMAIN origins = 1..Len(origins)
      /\ \A n \in DOMAIN origins : origins[n] \in Entities
  BY AffectedAre
<1>3. PICK m \in DOMAIN origins : TypedPathExists(b, origins[m], y, entry.traversal)
  BY DEF Admissible, Range
<1>4. ASSUME NEW n \in connected
      PROVE  Hops(route[n]) \in {0, 1, 2} /\ n \in Int /\ route[n] # NoRoute
  <2>1. route[n] = Route(b, origins[n], y, entry.traversal) /\ origins[n] \in Entities
    BY <1>2
  <2>2. PICK d \in 0..entry.traversal.hops :
            route[n] \in Paths(Entities, Graph(b, entry.traversal), origins[n], y, d)
    <3> HIDE DEF origins, entry
    <3> QED
      BY <1>1, <2>1, RouteIs
  <2>3. Hops(route[n]) = d
    BY <2>2, HopsOfPath
  <2>4. d \in {0, 1, 2}
    BY <1>1
  <2> QED
    BY <1>2, <2>3, <2>4
<1>5. m \in connected
  <2>1. \E d \in 0..entry.traversal.hops :
            route[m] \in Paths(Entities, Graph(b, entry.traversal), origins[m], y, d)
    BY <1>1, <1>2, <1>3, RouteExists
  <2>2. route[m] # NoRoute
    BY <1>1, <2>1, HopsOfPath
  <2> QED
    BY <2>2
<1>6. nearest \in connected
  <2> DEFINE length == [n \in connected |-> Hops(route[n])]
  <2>1. IsFiniteSet(connected)
    <3>1. IsFiniteSet(1..Len(origins))
      BY <1>2, FS_Interval
    <3> QED
      BY <1>2, <3>1, FS_Subset
  <2>2. connected \subseteq Int /\ connected # {} /\ length \in [connected -> Int]
    BY <1>4, <1>5
  <2> HIDE DEF connected, route
  <2>3. \A n \in connected : length[n] = Hops(route[n])
    OBVIOUS
  <2> HIDE DEF length
  <2>4. \E n \in connected : \A l \in connected :
            \/ length[n] < length[l]
            \/ length[n] = length[l] /\ n <= l
    BY <2>1, <2>2, NearestIs
  <2>5. \E n \in connected : \A l \in connected :
            \/ Hops(route[n]) < Hops(route[l])
            \/ Hops(route[n]) = Hops(route[l]) /\ n <= l
    BY <2>3, <2>4
  <2> QED
    BY <2>5
<1>7. path = route[nearest]
  <2>1. TopologyOrigins(entry, b) = origins
    OBVIOUS
  <2>2. connected # {}
    BY <1>5
  <2>3. path = IF connected = {} THEN NoRoute ELSE route[nearest]
    BY <2>1 DEF TopologyPath
  <2> QED
    BY <2>2, <2>3
<1>8. Hops(path) \in {0, 1, 2} /\ path # NoRoute
  BY <1>4, <1>6, <1>7
<1> HIDE DEF path
<1>9. TopologyFactor(path) > 0
  BY <1>8 DEF TopologyFactor, Whole
<1> QED
  BY <1>8, <1>9 DEF path

(* A ranked hypothesis is a scored and admissible candidate.               *)
LEMMA RankedCause ==
    ASSUME RankingInv, NEW k \in DOMAIN ranked
    PROVE  LET s == ranked[k]
           IN /\ s.candidate \in Candidates(bundle)
              /\ Scored(s, s.candidate, bundle)
              /\ s.candidate.cause \in DOMAIN Catalogue
              /\ Admissible(Catalogue[s.candidate.cause], bundle, s.candidate.entity)
<1>1. k \in 1..Len(ranked) /\ Ranked(ranked, bundle)
  BY RankedIs
<1>2. PICK c \in Candidates(bundle) : Scored(ranked[k], c, bundle)
  BY <1>1 DEF Ranked
<1>3. ranked[k].candidate = c
  BY <1>2 DEF Scored
<1>4. Readable(bundle)
  BY BundleIsReadable DEF RankingInv
<1> QED
  BY <1>2, <1>3, <1>4, CandidatesAre

(* So the ranker locates it.                                               *)
LEMMA RankedLocated ==
    ASSUME RankingInv
    PROVE  CausesAreLocated
<1> SUFFICES ASSUME NEW k \in DOMAIN ranked,
                    TopologyOrigins(Entry(ranked[k]), bundle)
                        = AffectedOrPrimary(bundle)
             PROVE  ranked[k].path # NoRoute /\ ranked[k].factors["topology"] > 0
  BY DEF CausesAreLocated
<1> DEFINE s == ranked[k]
           c == s.candidate
<1>1. /\ Scored(s, c, bundle) /\ c.cause \in DOMAIN Catalogue
      /\ Admissible(Catalogue[c.cause], bundle, c.entity)
  BY RankedCause
<1>2. Readable(bundle)
  BY BundleIsReadable DEF RankingInv
<1>3. TopologyOrigins(Catalogue[c.cause], bundle) = AffectedOrPrimary(bundle)
  BY DEF Entry
<1>4. /\ s.path = TopologyPath(Catalogue[c.cause], c, bundle)
      /\ s.factors["topology"] = TopologyFactor(s.path)
  BY <1>1 DEF Scored
<1>5. /\ TopologyPath(Catalogue[c.cause], c, bundle) # NoRoute
      /\ TopologyFactor(TopologyPath(Catalogue[c.cause], c, bundle)) > 0
  BY <1>1, <1>2, <1>3, TopologyPathIs
<1> QED
  BY <1>4, <1>5

(* The nodes of a path are as near as the path is long.                     *)
LEMMA OnPath ==
    ASSUME NEW graph \in SUBSET (Entities \X Entities), NEW x \in Entities, NEW y,
           NEW m \in Nat, NEW p \in Paths(Entities, graph, x, y, m),
           NEW n \in 0..m, NEW N \in Nat, m <= N
    PROVE  p[n] \in Ball(graph, x, N) /\ p[n] \in Entities
<1> DEFINE q == [k \in 0..n |-> p[k]]
<1>1. /\ p \in [0..m -> Entities] /\ p[0] = x
      /\ \A k \in 1..m : <<p[k - 1], p[k]>> \in graph
  BY DEF Paths
<1>2. \A k \in 0..n : k \in 0..m
  OBVIOUS
<1>3. q \in [0..n -> Entities] /\ q[0] = x /\ q[n] = p[n]
  BY <1>1, <1>2
<1>4. ASSUME NEW k \in 1..n PROVE <<q[k - 1], q[k]>> \in graph
  <2>1. k - 1 \in 0..n /\ k \in 0..n /\ k \in 1..m
    OBVIOUS
  <2> QED
    BY <1>1, <2>1
<1>5. q \in Paths(Entities, graph, x, p[n], n)
  <2> HIDE DEF q
  <2> QED
    BY <1>3, <1>4 DEF Paths
<1>6. n \in 0..N
  OBVIOUS
<1>7. p[n] \in Ball(graph, x, N)
  BY <1>5, <1>6, BallIsPaths
<1> QED
  BY <1>1, <1>7

(* The edges of the impact are within the blast radius.                    *)
LEMMA ImpactIsReachable ==
    ASSUME NEW b, Readable(b), NEW root \in Entities,
           NEW e \in ImpactEdges(root, b)
    PROVE  /\ e[1] \in Entities /\ e[2] \in Entities
           /\ e[1] \in Reachable(b, root, BlastRadius)
           /\ e[2] \in Reachable(b, root, BlastRadius)
<1> DEFINE graph == Graph(b, BlastRadius)
<1>1. PICK x \in Range(b.affected) :
          \E n \in 0..Hops(Route(b, root, x, BlastRadius)) - 1 :
             e = <<Route(b, root, x, BlastRadius)[n],
                   Route(b, root, x, BlastRadius)[n + 1]>>
  BY DEF ImpactEdges
<1> DEFINE p == Route(b, root, x, BlastRadius)
<1>2. PICK n \in 0..Hops(p) - 1 : e = <<p[n], p[n + 1]>>
  BY <1>1
<1>3. /\ BlastRadius.relation \in {"sends_traffic_to", "depends_on"}
      /\ BlastRadius.hops = 3
  BY DEF BlastRadius
<1>4. graph \in SUBSET (Entities \X Entities)
  BY <1>3, GraphIs
<1>5. p # NoRoute
  <2> SUFFICES ASSUME p = NoRoute PROVE FALSE
    OBVIOUS
  <2>1. DOMAIN p = {}
    BY DEF NoRoute
  <2>2. Hops(p) = -1
    BY <2>1, FS_EmptySet DEF Hops
  <2>3. 0..(-1) - 1 = {}
    OBVIOUS
  <2> QED
    BY <2>2, <2>3
<1>6. PICK m \in 0..3 : p \in Paths(Entities, graph, root, x, m)
  <2>1. BlastRadius.hops \in Nat
    BY <1>3
  <2>2. p = NoRoute \/ \E m \in 0..BlastRadius.hops :
                          p \in Paths(Entities, graph, root, x, m)
    BY <1>3, <2>1, RouteIs
  <2> QED
    BY <1>3, <1>5, <2>2
<1>7. Hops(p) = m
  BY <1>6, HopsOfPath
<1>8. n \in 0..m /\ n + 1 \in 0..m /\ m <= 3 /\ m \in Nat
  BY <1>7
<1> HIDE DEF p, graph
<1>9. /\ p[n] \in Ball(graph, root, 3) /\ p[n] \in Entities
      /\ p[n + 1] \in Ball(graph, root, 3) /\ p[n + 1] \in Entities
  BY <1>4, <1>6, <1>8, OnPath
<1>10. Reachable(b, root, BlastRadius) = Ball(graph, root, 3)
  BY <1>3 DEF Reachable, graph
<1>11. e[1] = p[n] /\ e[2] = p[n + 1]
  BY <1>2
<1> QED
  BY <1>9, <1>10, <1>11

(* A ranking of length 0 is empty.                                         *)
LEMMA NothingRanked ==
    ASSUME NEW b, NEW C, Len(Rank(C, b)) = 0, DOMAIN Rank(C, b) = 1..Len(Rank(C, b))
    PROVE  Rank(C, b) = << >>
<1> DEFINE S == {ScoreCandidate(c, b) : c \in C}
           rank == Rank(C, b)
<1>1. rank = [k \in 1..Cardinality(S) |->
                 CHOOSE s \in S : Cardinality({t \in S : Better(t, s)}) = k - 1]
  BY DEF Rank, InRank
<1> HIDE DEF rank
<1>2. DOMAIN rank = 1..Cardinality(S) /\ DOMAIN rank = {}
  BY <1>1 DEF rank
<1>3. rank \in [1..0 -> S]
  <2>1. 1..0 = {} /\ 1..Cardinality(S) = {}
    BY <1>2
  <2> HIDE DEF S
  <2>2. \A k \in 1..Cardinality(S) : rank[k] \in S
    BY <2>1
  <2>3. rank \in [1..Cardinality(S) -> S]
    BY <1>1, <2>1, <2>2, Zenon
  <2> QED
    BY <2>1, <2>3
<1>4. rank \in Seq(S) /\ Len(rank) = 0
  <2> HIDE DEF S
  <2> QED
    BY <1>3 DEF rank
<1> QED
  BY <1>4 DEF rank

(* Painted edges join painted entities.                                    *)
LEMMA PaintedJoin ==
    ASSUME RankingInv
    PROVE  PaintedEdgesJoinPaintedNodes
<1> SUFFICES ASSUME ranked # << >>,
                    NEW e \in DOMAIN EdgeState(Root, bundle),
                    EdgeState(Root, bundle)[e] # "none"
             PROVE  /\ NodeState(Root, bundle)[e[1]] # "none"
                    /\ NodeState(Root, bundle)[e[2]] # "none"
  BY DEF PaintedEdgesJoinPaintedNodes
<1> DEFINE reachable == Reachable(bundle, Root, BlastRadius)
<1>1. Readable(bundle)
  BY BundleIsReadable DEF RankingInv
<1>2. Root \in Entities
  <2>1. 1 \in DOMAIN ranked
    <3>1. Len(ranked) \in Nat /\ DOMAIN ranked = 1..Len(ranked)
      BY RankedIs
    <3>2. Len(ranked) # 0
      BY <3>1, NothingRanked DEF RankingInv
    <3> QED
      BY <3>1, <3>2
  <2> QED
    BY <2>1, RankedCause DEF Admissible, Root
<1>3. ASSUME NEW x \in Entities, x \in reachable
      PROVE  NodeState(Root, bundle)[x] # "none"
  <2> HIDE DEF reachable
  <2>1. NodeState(Root, bundle)[x] =
            IF x = Root THEN "suspected_root"
            ELSE IF x = bundle.primary THEN "primary_affected"
            ELSE IF x \in Range(bundle.affected) THEN "impact_path"
            ELSE IF x \in reachable THEN "blast_radius"
            ELSE "none"
    BY DEF NodeState, reachable
  <2> QED
    BY <1>3, <2>1
<1>4. e \in bundle.edges["sends_traffic_to"]
  BY DEF EdgeState
<1>5. EdgeState(Root, bundle)[e] =
          IF e \in ImpactEdges(Root, bundle) THEN "impact_path"
          ELSE IF e[1] \in reachable /\ e[2] \in reachable THEN "blast_radius"
          ELSE "none"
  BY <1>4 DEF EdgeState
<1>6. CASE e \in ImpactEdges(Root, bundle)
  BY <1>1, <1>2, <1>3, <1>6, ImpactIsReachable
<1>7. CASE e \notin ImpactEdges(Root, bundle)
  <2>1. e[1] \in reachable /\ e[2] \in reachable
    BY <1>5, <1>7
  <2>2. e \in Entities \X Entities
    BY <1>1, <1>4 DEF Readable
  <2> QED
    BY <1>3, <2>1, <2>2
<1> QED
  BY <1>6, <1>7

-----------------------------------------------------------------------------
(* Context does not rank: the engine makes the same of two bundles that     *)
(* differ in anomalies that are context.                                   *)

Alike(b, p) ==
    /\ p.events = b.events /\ p.primary = b.primary /\ p.affected = b.affected
    /\ p.edges = b.edges /\ p.history = b.history
    /\ p.anomalies = {a \in b.anomalies : ~a.context}
    /\ \A a \in b.anomalies : a.context => a.type \in ContextTypes

(* No entry asks for context.                                              *)
LEMMA NothingOfContext ==
    ASSUME NEW k \in DOMAIN Catalogue
    PROVE  LET entry == Catalogue[k]
           IN /\ entry.anomalyTypes \cap ContextTypes = {}
              /\ entry.metricTypes \cap ContextTypes = {}
              /\ \A n \in DOMAIN entry.symptoms :
                    entry.symptoms[n].anomalyTypes \cap ContextTypes = {}
              /\ \A n \in DOMAIN entry.propagation :
                    entry.propagation[n].anomalyTypes \cap ContextTypes = {}
              /\ \A n \in DOMAIN entry.conflicts :
                    /\ entry.conflicts[n].absent \cap ContextTypes = {}
                    /\ entry.conflicts[n].match.anomalyTypes \cap ContextTypes = {}
<1> QED
  BY ShippedAssumption DEF ContextTypes

(* Rules that ask for anomalies find the same events.                      *)
LEMMA SameEvents ==
    ASSUME NEW b, NEW p, Alike(b, p), NEW types, types \cap ContextTypes = {}
    PROVE  EventsWithAnomaly(b, types) = EventsWithAnomaly(p, types)
<1> DEFINE Anomalous(q, e) == \E a \in q : a.event = e.id /\ a.type \in types
<1>1. ASSUME NEW e PROVE Anomalous(b.anomalies, e) <=> Anomalous(p.anomalies, e)
  BY DEF Alike
<1>2. p.events = b.events
  BY DEF Alike
<1>3. /\ EventsWithAnomaly(b, types) = {e \in b.events : Anomalous(b.anomalies, e)}
      /\ EventsWithAnomaly(p, types) = {e \in p.events : Anomalous(p.anomalies, e)}
  BY DEF EventsWithAnomaly
<1> HIDE DEF Anomalous
<1> QED
  BY <1>1, <1>2, <1>3

(* So do the rules of an entry.                                            *)
LEMMA SameMatches ==
    ASSUME NEW b, NEW p, Alike(b, p), NEW k \in DOMAIN Catalogue
    PROVE  /\ MatchedEvents(Catalogue[k], b) = MatchedEvents(Catalogue[k], p)
           /\ Changes(b) = Changes(p)
           /\ AffectedOrPrimary(b) = AffectedOrPrimary(p)
           /\ \A traversal : Graph(b, traversal) = Graph(p, traversal)
<1>1. EventsWithAnomaly(b, Catalogue[k].anomalyTypes)
          = EventsWithAnomaly(p, Catalogue[k].anomalyTypes)
  BY NothingOfContext, SameEvents
<1>2. /\ p.events = b.events /\ p.primary = b.primary
      /\ p.affected = b.affected /\ p.edges = b.edges
  BY DEF Alike
<1>3. MatchedEvents(Catalogue[k], b) = MatchedEvents(Catalogue[k], p)
  BY <1>1, <1>2 DEF MatchedEvents
<1>4. Changes(b) = Changes(p)
  BY <1>2 DEF Changes
<1>5. AffectedOrPrimary(b) = AffectedOrPrimary(p)
  BY <1>2 DEF AffectedOrPrimary
<1>6. \A traversal : Graph(b, traversal) = Graph(p, traversal)
  BY <1>2 DEF Graph
<1> QED
  BY <1>3, <1>4, <1>5, <1>6

(* The candidates are the same ...                                         *)
LEMMA SameCandidates ==
    ASSUME NEW b, NEW p, Alike(b, p)
    PROVE  Candidates(b) = Candidates(p)
<1> DEFINE named(q, k) == SelectEntities(Catalogue[k], q)
           fits(q, k) == {n \in DOMAIN named(q, k) :
                             Admissible(Catalogue[k], q, named(q, k)[n])}
           found(q, k) == RulesMatch(Catalogue[k], q) /\ fits(q, k) # {}
           chosen(q, k) == [cause |-> k, entity |-> named(q, k)[Min(fits(q, k))]]
<1>1. ASSUME NEW k \in DOMAIN Catalogue
      PROVE  (found(b, k) <=> found(p, k)) /\ chosen(b, k) = chosen(p, k)
  <2>1. /\ MatchedEvents(Catalogue[k], b) = MatchedEvents(Catalogue[k], p)
        /\ Changes(b) = Changes(p)
        /\ AffectedOrPrimary(b) = AffectedOrPrimary(p)
        /\ \A traversal : Graph(b, traversal) = Graph(p, traversal)
    BY SameMatches
  <2>2. RulesMatch(Catalogue[k], b) <=> RulesMatch(Catalogue[k], p)
    BY <2>1 DEF RulesMatch
  <2>3. named(b, k) = named(p, k)
    <3>1. b.primary = p.primary
      BY DEF Alike
    <3> QED
      BY <2>1, <3>1, Zenon DEF SelectEntities
  <2>4. ASSUME NEW x
        PROVE  Admissible(Catalogue[k], b, x) <=> Admissible(Catalogue[k], p, x)
    BY <2>1 DEF Admissible, TypedPathExists
  <2>5. fits(b, k) = fits(p, k)
    BY <2>3, <2>4
  <2> QED
    BY <2>2, <2>3, <2>5
<1>2. /\ Candidates(b) = {chosen(b, k) : k \in {c \in DOMAIN Catalogue : found(b, c)}}
      /\ Candidates(p) = {chosen(p, k) : k \in {c \in DOMAIN Catalogue : found(p, c)}}
  BY DEF Candidates
<1> HIDE DEF named, fits, found, chosen
<1> QED
  BY <1>1, <1>2

(* ... at the same distance ...                                            *)
LEMMA SameRoutes ==
    ASSUME NEW b, NEW p, Alike(b, p), NEW k \in DOMAIN Catalogue, NEW candidate
    PROVE  /\ TopologyOrigins(Catalogue[k], b) = TopologyOrigins(Catalogue[k], p)
           /\ TopologyPath(Catalogue[k], candidate, b)
                  = TopologyPath(Catalogue[k], candidate, p)
           /\ \A path : ImpactNodes(Catalogue[k], candidate, b, path)
                            = ImpactNodes(Catalogue[k], candidate, p, path)
<1> DEFINE entry == Catalogue[k]
<1>1. /\ AffectedOrPrimary(b) = AffectedOrPrimary(p)
      /\ \A traversal : Graph(b, traversal) = Graph(p, traversal)
  BY SameMatches
<1>2. TopologyOrigins(entry, b) = TopologyOrigins(entry, p)
  BY <1>1 DEF TopologyOrigins, Alike
<1>3. \A x, y : Route(b, x, y, entry.traversal) = Route(p, x, y, entry.traversal)
  <2> DEFINE Along(graph, x, y) ==
                 LET n == TopologyDistance(Entities, graph, x, y)
                 IN IF n = NoPath \/ n > entry.traversal.hops THEN NoRoute
                    ELSE CHOOSE q \in Paths(Entities, graph, x, y, n) : TRUE
  <2>1. ASSUME NEW x, NEW y
        PROVE  /\ Route(b, x, y, entry.traversal)
                      = Along(Graph(b, entry.traversal), x, y)
               /\ Route(p, x, y, entry.traversal)
                      = Along(Graph(p, entry.traversal), x, y)
    BY DEF Route
  <2> HIDE DEF Along
  <2> QED
    BY <1>1, <2>1
<1>4. TopologyPath(entry, candidate, b) = TopologyPath(entry, candidate, p)
  <2> DEFINE routes(q) ==
                 [n \in DOMAIN TopologyOrigins(entry, q) |->
                     Route(q, TopologyOrigins(entry, q)[n], candidate.entity,
                           entry.traversal)]
             Nearest(origins, route) ==
                 LET connected == {n \in DOMAIN origins : route[n] # NoRoute}
                 IN IF connected = {} THEN NoRoute
                    ELSE route[CHOOSE n \in connected : \A l \in connected :
                            \/ Hops(route[n]) < Hops(route[l])
                            \/ Hops(route[n]) = Hops(route[l]) /\ n <= l]
  <2>1. routes(b) = routes(p)
    BY <1>2, <1>3
  <2>2. /\ TopologyPath(entry, candidate, b)
              = Nearest(TopologyOrigins(entry, b), routes(b))
        /\ TopologyPath(entry, candidate, p)
              = Nearest(TopologyOrigins(entry, p), routes(p))
    BY DEF TopologyPath
  <2> HIDE DEF routes, Nearest
  <2> QED
    BY <1>2, <2>1, <2>2
<1>5. \A path : ImpactNodes(entry, candidate, b, path)
                    = ImpactNodes(entry, candidate, p, path)
  BY <1>1 DEF ImpactNodes, Reachable
<1> QED
  BY <1>2, <1>4, <1>5

(* ... with the same observations ...                                      *)
LEMMA SameObservations ==
    ASSUME NEW b, NEW p, Alike(b, p), NEW pattern,
           pattern.anomalyTypes \cap ContextTypes = {}
    PROVE  PatternObservations(b, pattern) = PatternObservations(p, pattern)
<1>1. EventsWithAnomaly(b, pattern.anomalyTypes)
          = EventsWithAnomaly(p, pattern.anomalyTypes)
  BY SameEvents
<1>2. p.events = b.events
  BY DEF Alike
<1> QED
  BY <1>1, <1>2 DEF PatternObservations

(* ... and symptoms ...                                                    *)
LEMMA SameSymptoms ==
    ASSUME NEW b, NEW p, Alike(b, p), NEW k \in DOMAIN Catalogue
    PROVE  SymptomFactor(Catalogue[k], b) = SymptomFactor(Catalogue[k], p)
<1> DEFINE symptoms == Catalogue[k].symptoms
           seen(q) == {s \in DOMAIN symptoms : PatternObservations(q, symptoms[s]) # {}}
<1>1. \A s \in DOMAIN symptoms :
         PatternObservations(b, symptoms[s]) = PatternObservations(p, symptoms[s])
  BY NothingOfContext, SameObservations
<1>2. seen(b) = seen(p)
  BY <1>1
<1>3. /\ SymptomFactor(Catalogue[k], b) = Ratio(Cardinality(seen(b)), Len(symptoms))
      /\ SymptomFactor(Catalogue[k], p) = Ratio(Cardinality(seen(p)), Len(symptoms))
  BY DEF SymptomFactor
<1> HIDE DEF seen
<1> QED
  BY <1>2, <1>3

(* ... and stages ...                                                      *)
LEMMA SamePropagation ==
    ASSUME NEW b, NEW p, Alike(b, p), NEW k \in DOMAIN Catalogue
    PROVE  PropagationFactor(Catalogue[k], b) = PropagationFactor(Catalogue[k], p)
<1> DEFINE stages == Catalogue[k].propagation
           first(q) == [n \in 1..Len(stages) |->
                           Earliest(PatternObservations(q, stages[n]))]
<1>1. DOMAIN stages = 1..Len(stages)
  <2>1. stages \in Seq(Range(stages))
    BY CatalogueAssumption
  <2> HIDE DEF stages
  <2> QED
    BY <2>1
<1>2. \A n \in 1..Len(stages) :
         PatternObservations(b, stages[n]) = PatternObservations(p, stages[n])
  BY <1>1, NothingOfContext, SameObservations
<1>3. first(b) = first(p)
  BY <1>2
<1>4. /\ PropagationFactor(Catalogue[k], b) = Ratio(StagesInOrder(first(b)), Len(stages))
      /\ PropagationFactor(Catalogue[k], p) = Ratio(StagesInOrder(first(p)), Len(stages))
  BY DEF PropagationFactor
<1> HIDE DEF first
<1> QED
  BY <1>3, <1>4

(* ... and metrics ...                                                     *)
LEMMA SameMetrics ==
    ASSUME NEW b, NEW p, Alike(b, p), NEW k \in DOMAIN Catalogue, NEW candidate,
           NEW path
    PROVE  MetricAnomalyFactor(Catalogue[k], candidate, b, path)
               = MetricAnomalyFactor(Catalogue[k], candidate, p, path)
<1> DEFINE entry == Catalogue[k]
           where(q) == ImpactNodes(entry, candidate, q, path)
           Fits(a, q) == /\ a.type \in entry.metricTypes
                         /\ \E e \in q.events : /\ e.id = a.event
                                                /\ e.modality = "metric"
                                                /\ e.entity \in where(q)
           found(q) == {a \in q.anomalies : Fits(a, q)}
<1>1. where(b) = where(p) /\ p.events = b.events
  BY SameRoutes DEF Alike
<1>2. ASSUME NEW a PROVE Fits(a, b) <=> Fits(a, p)
  <2> HIDE DEF where
  <2> QED
    BY <1>1
<1>3. \A a \in b.anomalies : Fits(a, b) => ~a.context
  BY NothingOfContext DEF Alike
<1>4. found(b) = found(p)
  <2>1. p.anomalies = {a \in b.anomalies : ~a.context}
    BY DEF Alike
  <2> HIDE DEF Fits
  <2> QED
    BY <1>2, <1>3, <2>1
<1>5. /\ MetricScores(entry, candidate, b, path) = {a.score : a \in found(b)}
      /\ MetricScores(entry, candidate, p, path) = {a.score : a \in found(p)}
  BY DEF MetricScores
<1> HIDE DEF found
<1> QED
  BY <1>4, <1>5 DEF MetricAnomalyFactor

(* ... and first symptom, signal, logs and history ...                     *)
LEMMA SameSigns ==
    ASSUME NEW b, NEW p, Alike(b, p), NEW k \in DOMAIN Catalogue, NEW candidate
    PROVE  /\ FirstSymptomEvent(b) = FirstSymptomEvent(p)
           /\ CandidateSignal(Catalogue[k], candidate, b)
                  = CandidateSignal(Catalogue[k], candidate, p)
           /\ DirectLogAlertFactor(b, candidate) = DirectLogAlertFactor(p, candidate)
           /\ HistoricalFactor(Catalogue[k], b) = HistoricalFactor(Catalogue[k], p)
<1> DEFINE entry == Catalogue[k]
<1>1. p.events = b.events /\ p.history = b.history
  BY DEF Alike
<1>2. FirstSymptomEvent(b) = FirstSymptomEvent(p)
  <2> DEFINE shown(q) == {e \in q.events :
                             \E a \in q.anomalies : a.event = e.id /\ ~a.context}
  <2>1. shown(b) = shown(p)
    BY DEF Alike
  <2>2. /\ FirstSymptomEvent(b) = Earliest(shown(b))
        /\ FirstSymptomEvent(p) = Earliest(shown(p))
    BY DEF FirstSymptomEvent
  <2> HIDE DEF shown
  <2> QED
    BY <2>1, <2>2
<1>3. CandidateSignal(entry, candidate, b) = CandidateSignal(entry, candidate, p)
  <2> DEFINE of(q) == IF entry.changeBased
                      THEN {e \in Changes(q) : ChangedEntity(e) = candidate.entity}
                      ELSE EventsWithAnomaly(q, entry.anomalyTypes)
                              \cup {e \in q.events :
                                       e.type \in entry.logTypes \cup entry.eventTypes}
  <2>1. EventsWithAnomaly(b, entry.anomalyTypes)
            = EventsWithAnomaly(p, entry.anomalyTypes)
    BY NothingOfContext, SameEvents
  <2>2. Changes(b) = Changes(p)
    BY SameMatches
  <2>3. of(b) = of(p)
    BY <1>1, <2>1, <2>2
  <2>4. /\ CandidateSignal(entry, candidate, b) = Earliest(of(b))
        /\ CandidateSignal(entry, candidate, p) = Earliest(of(p))
    BY DEF CandidateSignal
  <2> HIDE DEF of
  <2> QED
    BY <2>3, <2>4
<1>4. DirectLogAlertFactor(b, candidate) = DirectLogAlertFactor(p, candidate)
  <2> DEFINE Of(events) ==
                 LET kinds == {e.modality : e \in {f \in events :
                                  /\ f.modality \in {"log", "alert"}
                                  /\ candidate.entity \in {f.entity} \cup f.mentions}}
                 IN CASE Cardinality(kinds) = 2 -> Whole
                      [] Cardinality(kinds) = 1 -> 6000
                      [] OTHER -> 0
  <2>1. /\ DirectLogAlertFactor(b, candidate) = Of(b.events)
        /\ DirectLogAlertFactor(p, candidate) = Of(p.events)
    BY DEF DirectLogAlertFactor
  <2> HIDE DEF Of
  <2> QED
    BY <1>1, <2>1
<1>5. HistoricalFactor(entry, b) = HistoricalFactor(entry, p)
  <2> DEFINE Of(past) ==
                 Max({m.similarity : m \in {h \in past : h.cause = entry.type}}
                        \cup {0})
  <2>1. HistoricalFactor(entry, b) = Of(b.history) /\ HistoricalFactor(entry, p) = Of(p.history)
    BY DEF HistoricalFactor
  <2> HIDE DEF Of
  <2> QED
    BY <1>1, <2>1
<1> QED
  BY <1>2, <1>3, <1>4, <1>5

(* ... and conflicts ...                                                   *)
LEMMA SameConflicts ==
    ASSUME NEW b, NEW p, Alike(b, p), NEW k \in DOMAIN Catalogue
    PROVE  /\ \A n \in DOMAIN Catalogue[k].conflicts :
                 ConflictSource(Catalogue[k].conflicts[n], b)
                     = ConflictSource(Catalogue[k].conflicts[n], p)
           /\ MatchedConflicts(Catalogue[k], b) = MatchedConflicts(Catalogue[k], p)
<1> DEFINE entry == Catalogue[k]
<1>1. ASSUME NEW n \in DOMAIN entry.conflicts
      PROVE  ConflictSource(entry.conflicts[n], b) = ConflictSource(entry.conflicts[n], p)
  <2> DEFINE conflict == entry.conflicts[n]
  <2>1. /\ conflict.absent \cap ContextTypes = {}
        /\ conflict.match.anomalyTypes \cap ContextTypes = {}
    BY NothingOfContext
  <2>2. PatternObservations(b, conflict.match) = PatternObservations(p, conflict.match)
    BY <2>1, SameObservations
  <2>3. conflict.absent \cap AnomalyTypes(b) = conflict.absent \cap AnomalyTypes(p)
    BY <2>1 DEF AnomalyTypes, Alike
  <2> HIDE DEF conflict
  <2>4. ConflictSource(conflict, b) = ConflictSource(conflict, p)
    BY <2>2, <2>3 DEF ConflictSource
  <2> QED
    BY <2>4 DEF conflict
<1>2. MatchedConflicts(entry, b) = MatchedConflicts(entry, p)
  BY <1>1 DEF MatchedConflicts
<1> QED
  BY <1>1, <1>2

(* ... and causal fit.                                                     *)
LEMMA SameFit ==
    ASSUME NEW b, NEW p, Alike(b, p), NEW k \in DOMAIN Catalogue, NEW candidate,
           NEW path
    PROVE  ChangeCausalFit(Catalogue[k], candidate, b, path)
               = ChangeCausalFit(Catalogue[k], candidate, p, path)
<1> DEFINE entry == Catalogue[k]
           Fit(change, symptom, conflicts) ==
               LET near   == IF path = NoRoute THEN {candidate.entity} ELSE Range(path)
                   checks == <<Precedes(change, symptom),
                               ChangedEntity(change) \in near,
                               change.key \in entry.plausibleKeys,
                               conflicts = {}>>
               IN IF ~entry.changeBased \/ change = NoEvent THEN 0
                  ELSE 2500 * Cardinality({n \in DOMAIN checks : checks[n]})
<1>1. /\ FirstSymptomEvent(b) = FirstSymptomEvent(p)
      /\ CandidateSignal(entry, candidate, b) = CandidateSignal(entry, candidate, p)
      /\ MatchedConflicts(entry, b) = MatchedConflicts(entry, p)
  BY SameSigns, SameConflicts
<1>2. ASSUME NEW q
      PROVE  ChangeCausalFit(entry, candidate, q, path)
                 = Fit(CandidateSignal(entry, candidate, q), FirstSymptomEvent(q),
                       MatchedConflicts(entry, q))
  BY DEF ChangeCausalFit
<1> HIDE DEF Fit
<1> QED
  BY <1>1, <1>2

(* So factors are the same ...                                             *)
LEMMA SameFactors ==
    ASSUME NEW b, NEW p, Alike(b, p), NEW c, c.cause \in DOMAIN Catalogue
    PROVE  Factors(c, b) = Factors(c, p)
<1> DEFINE entry == Catalogue[c.cause]
           path(q) == TopologyPath(entry, c, q)
<1>1. SymptomFactor(entry, b) = SymptomFactor(entry, p)
  BY SameSymptoms
<1>2. path(b) = path(p)
  BY SameRoutes
<1>3. DirectLogAlertFactor(b, c) = DirectLogAlertFactor(p, c)
  BY SameSigns
<1>4. PropagationFactor(entry, b) = PropagationFactor(entry, p)
  BY SamePropagation
<1>5. MetricAnomalyFactor(entry, c, b, path(b)) = MetricAnomalyFactor(entry, c, p, path(p))
  BY <1>2, SameMetrics
<1>6. ChangeCausalFit(entry, c, b, path(b)) = ChangeCausalFit(entry, c, p, path(p))
  BY <1>2, SameFit
<1>7. TemporalFactor(CandidateSignal(entry, c, b), FirstSymptomEvent(b))
          = TemporalFactor(CandidateSignal(entry, c, p), FirstSymptomEvent(p))
  BY SameSigns
<1>8. HistoricalFactor(entry, b) = HistoricalFactor(entry, p)
  BY SameSigns
<1> DEFINE factors(q) ==
        [symptom     |-> SymptomFactor(entry, q),
         topology    |-> TopologyFactor(path(q)),
         direct      |-> DirectLogAlertFactor(q, c),
         propagation |-> PropagationFactor(entry, q),
         metric      |-> MetricAnomalyFactor(entry, c, q, path(q)),
         change      |-> ChangeCausalFit(entry, c, q, path(q)),
         temporal    |-> TemporalFactor(CandidateSignal(entry, c, q),
                                        FirstSymptomEvent(q)),
         history     |-> HistoricalFactor(entry, q)]
<1>9. Factors(c, b) = factors(b) /\ Factors(c, p) = factors(p)
  BY DEF Factors
<1> HIDE DEF path, entry
<1>10. factors(b) = factors(p)
  BY <1>1, <1>2, <1>3, <1>4, <1>5, <1>6, <1>7, <1>8
<1> QED
  BY <1>9, <1>10

(* ... and scores ...                                                      *)
LEMMA SameScores ==
    ASSUME NEW b, NEW p, Alike(b, p), NEW c, c.cause \in DOMAIN Catalogue
    PROVE  ScoreCandidate(c, b) = ScoreCandidate(c, p)
<1> DEFINE entry == Catalogue[c.cause]
           matched(q) == MatchedConflicts(entry, q)
           factors(q) == Opposed(entry, Factors(c, q), matched(q))
           conflicts(q) == {[id     |-> entry.conflicts[k].id,
                             source |-> ConflictSource(entry.conflicts[k], q)]
                               : k \in matched(q)}
           available(q) == AvailableRequirements(entry, c, q)
           score(q) ==
               [candidate |-> c,
                factors   |-> factors(q),
                score     |-> ScoreFactors(factors(q)),
                unopposed |-> ScoreFactors(Factors(c, q)),
                available |-> available(q),
                path      |-> TopologyPath(entry, c, q),
                conflicts |-> conflicts(q)]
<1>1. Factors(c, b) = Factors(c, p)
  BY SameFactors
<1>2. matched(b) = matched(p)
  BY SameConflicts
<1>3. conflicts(b) = conflicts(p)
  <2>1. \A k \in matched(b) : ConflictSource(entry.conflicts[k], b)
                                 = ConflictSource(entry.conflicts[k], p)
    BY SameConflicts DEF MatchedConflicts
  <2> HIDE DEF matched
  <2> QED
    BY <1>2, <2>1
<1>4. available(b) = available(p)
  <2>1. p.events = b.events
    BY DEF Alike
  <2> QED
    BY <2>1 DEF AvailableRequirements
<1>5. TopologyPath(entry, c, b) = TopologyPath(entry, c, p)
  BY SameRoutes
<1>6. ScoreCandidate(c, b) = score(b) /\ ScoreCandidate(c, p) = score(p)
  BY DEF ScoreCandidate
<1> HIDE DEF matched, conflicts, available, entry
<1>7. factors(b) = factors(p)
  BY <1>1, <1>2
<1> HIDE DEF factors
<1> QED
  BY <1>1, <1>3, <1>4, <1>5, <1>6, <1>7

(* ... and the ranking.                                                    *)
LEMMA SameRanking ==
    ASSUME NEW b, NEW p, Alike(b, p), Readable(b)
    PROVE  Rank(Candidates(b), b) = Rank(Candidates(p), p)
<1> DEFINE C == Candidates(b)
<1>1. C = Candidates(p)
  BY SameCandidates
<1>2. \A c \in C : c.cause \in DOMAIN Catalogue
  BY CandidatesAre
<1>3. \A c \in C : ScoreCandidate(c, b) = ScoreCandidate(c, p)
  BY <1>2, SameScores
<1> HIDE DEF C
<1>4. {ScoreCandidate(c, b) : c \in C} = {ScoreCandidate(c, p) : c \in C}
  BY <1>3
<1>5. Rank(C, b) = Rank(C, p)
  BY <1>4 DEF Rank
<1> QED
  BY <1>1, <1>5 DEF C

(* Context is no feature of an incident.                                    *)
LEMMA SameHistory ==
    ASSUME NEW b, NEW p, p.events = b.events, p.primary = b.primary,
           p.anomalies = {a \in b.anomalies : ~a.context},
           \A a \in b.anomalies : a.context => a.type \in ContextTypes
    PROVE  HistoricalMatches(b) = HistoricalMatches(p)
<1>1. "FORWARDED_TRAFFIC_SPIKE" \in AnomalyTypes(b)
          <=> "FORWARDED_TRAFFIC_SPIKE" \in AnomalyTypes(p)
  BY DEF AnomalyTypes, ContextTypes
<1>2. Changes(b) = Changes(p)
  BY DEF Changes
<1>3. FeatureVector(b) = FeatureVector(p)
  <2> DEFINE vector(primary, spike, changes) ==
                 LET change == Earliest({e \in changes : e.key # "none"}) IN
                 {<<"entity_type", EntityType[primary]>>,
                  <<"forwarded_traffic_spike", IF spike THEN "yes" ELSE "no">>}
                     \cup IF change = NoEvent THEN {}
                          ELSE {<<"change_type", change.key>>}
  <2>1. ASSUME NEW q
        PROVE  FeatureVector(q)
                   = vector(q.primary, "FORWARDED_TRAFFIC_SPIKE" \in AnomalyTypes(q),
                            Changes(q))
    BY DEF FeatureVector
  <2> HIDE DEF vector
  <2> QED
    BY <1>1, <1>2, <2>1
<1>4. ASSUME NEW past PROVE SimilarityOf(past, b) = SimilarityOf(past, p)
  <2> DEFINE of(events, features) ==
                 CASE past.fingerprint = {e.id : e \in events} -> Whole
                   [] /\ past.fingerprint # {e.id : e \in events}
                      /\ past.features # {}
                      /\ 2 * Cardinality(past.features \cap features)
                             >= Cardinality(past.features) -> 5000
                   [] OTHER -> 0
  <2>1. ASSUME NEW q PROVE SimilarityOf(past, q) = of(q.events, FeatureVector(q))
    BY DEF SimilarityOf
  <2> HIDE DEF of
  <2> QED
    BY <1>3, <2>1
<1> QED
  BY <1>4 DEF HistoricalMatches

(* The bundle without context differs in nothing else.                     *)
LEMMA BundleWithoutContext ==
    ASSUME FromIncident
    PROVE  LET symptoms == [bundle EXCEPT !.anomalies = {a \in @ : ~a.context}]
               plain == [symptoms EXCEPT !.history = HistoricalMatches(symptoms)]
           IN Alike(bundle, plain)
<1>1. PICK inc \in Incidents : bundle = Bundle(inc)
  BY DEF FromIncident
<1> DEFINE detected == Detect(inc.batches, inc.edges)
           whole == [batches   |-> inc.batches,
                     detected  |-> detected,
                     events    |-> inc.events,
                     anomalies |-> {a \in detected :
                                       \E e \in inc.events : e.id = a.event},
                     primary   |-> inc.primary,
                     affected  |-> inc.affected,
                     edges     |-> inc.edges,
                     history   |-> {}]
           symptoms == [bundle EXCEPT !.anomalies = {a \in @ : ~a.context}]
           plain == [symptoms EXCEPT !.history = HistoricalMatches(symptoms)]
<1>2. bundle = [whole EXCEPT !.history = HistoricalMatches(whole)]
  BY <1>1 DEF Bundle
<1>3. DOMAIN bundle = {"batches", "detected", "events", "anomalies", "primary",
                       "affected", "edges", "history"}
  <2> HIDE DEF detected
  <2> QED
    BY <1>2
<1>4. /\ bundle.events = whole.events /\ bundle.primary = whole.primary
      /\ bundle.anomalies = whole.anomalies
      /\ bundle.history = HistoricalMatches(whole)
  <2> HIDE DEF detected
  <2> QED
    BY <1>2
<1>5. /\ symptoms.events = bundle.events /\ symptoms.primary = bundle.primary
      /\ symptoms.affected = bundle.affected /\ symptoms.edges = bundle.edges
      /\ symptoms.anomalies = {a \in bundle.anomalies : ~a.context}
      /\ DOMAIN symptoms = DOMAIN bundle
  BY <1>3
<1> HIDE DEF symptoms, whole
<1>6. /\ plain.events = bundle.events /\ plain.primary = bundle.primary
      /\ plain.affected = bundle.affected /\ plain.edges = bundle.edges
      /\ plain.anomalies = {a \in bundle.anomalies : ~a.context}
      /\ plain.history = HistoricalMatches(symptoms)
  BY <1>3, <1>5
<1>7. \A a \in bundle.anomalies : a.context => a.type \in ContextTypes
  BY BundleIsReadable DEF Readable, IsAnomaly
<1>8. HistoricalMatches(whole) = HistoricalMatches(symptoms)
  BY <1>4, <1>5, <1>7, SameHistory
<1> HIDE DEF plain
<1>9. Alike(bundle, plain)
  BY <1>4, <1>6, <1>7, <1>8 DEF Alike
<1> QED
  BY <1>9 DEF plain, symptoms

(* Context, that is cascade signals and markers of configuration changes,    *)
(* neither suggests a cause nor moves one in the ranking.  The comments of  *)
(* TopologyCascadeDetector say the opposite of cascade signals, that they    *)
(* feed the topology and propagation factors (topology_cascade.py:10, 16-18, *)
(* 62-63): this is what the code does instead.                              *)
ContextDoesNotRank ==
    stage = "collect" /\ evidence = << >> =>
        LET symptoms == [bundle EXCEPT !.anomalies = {a \in @ : ~a.context}]
            plain == [symptoms EXCEPT !.history = HistoricalMatches(symptoms)]
        IN ranked = Rank(Candidates(plain), plain)

(* So context does not rank.                                               *)
LEMMA ContextIgnored ==
    ASSUME RankingInv
    PROVE  ContextDoesNotRank
<1> DEFINE symptoms == [bundle EXCEPT !.anomalies = {a \in @ : ~a.context}]
           plain == [symptoms EXCEPT !.history = HistoricalMatches(symptoms)]
<1> SUFFICES ASSUME stage = "collect"
             PROVE  ranked = Rank(Candidates(plain), plain)
  BY DEF ContextDoesNotRank
<1>1. ranked = Rank(Candidates(bundle), bundle)
  BY DEF RankingInv
<1>2. Alike(bundle, plain)
  BY BundleWithoutContext DEF RankingInv
<1>3. Readable(bundle)
  BY BundleIsReadable DEF RankingInv
<1> HIDE DEF plain
<1> QED
  BY <1>1, <1>2, <1>3, SameRanking

-----------------------------------------------------------------------------
(* The theorems.                                                           *)

AnalysisInv == ExplanationInv /\ AnswersInv /\ RankingInv

(* The invariant of the analysis.                                          *)
LEMMA AnalysisInvariant == Spec => []AnalysisInv
<1>1. Init => AnalysisInv
  BY ExplanationInit, AnswersInit, RankingInit DEF AnalysisInv
<1>2. AnalysisInv /\ [Next]_vars => AnalysisInv'
  BY ExplanationNext, AnswersNext, RankingNext DEF AnalysisInv
<1> QED
  BY <1>1, <1>2, PTL DEF Spec

(* RootCauseRanker.rank and apply_conflict keep factors and scores in their *)
(* ranges and hypotheses in the order of their scores, whatever conflicts a *)
(* catalogue declares, and ExplanationService asks the model twice at most.  *)
THEOREM RankingsAreTyped == Spec => []TypeOK
<1>1. AnalysisInv => TypeOK
  BY TypesHold DEF AnalysisInv
<1> QED
  BY <1>1, AnalysisInvariant, PTL

(* collect_evidence shows each conflict that apply_conflict took score for,  *)
(* with its event, and no conflict gains a hypothesis score.                *)
THEOREM ConflictsAreShown == Spec => []AppliedConflictsAreShown
<1>1. AnalysisInv => AppliedConflictsAreShown
  BY ConflictsShown DEF AnalysisInv
<1> QED
  BY <1>1, AnalysisInvariant, PTL

(* The ids that collect_evidence makes of kind, code and source never        *)
(* collide within a hypothesis of the shipped catalogue.                    *)
THEOREM EvidenceCanBeStored == Spec => []EvidenceIdsAreDistinct
<1>1. AnalysisInv => EvidenceIdsAreDistinct
  BY IdsDiffer DEF AnalysisInv
<1> QED
  BY <1>1, AnalysisInvariant, PTL

(* Whatever _available_requirement of the ranker counts, collect_evidence     *)
(* finds, and calculate_evidence_coverage agrees, as long as the attached    *)
(* events have the words of the rules where the collector looks for them.   *)
THEOREM CoverageAlwaysAgrees == Spec => []CoverageAgrees
<1>1. AnalysisInv => CoverageAgrees
  BY CoverageHolds DEF AnalysisInv
<1> QED
  BY <1>1, AnalysisInvariant, PTL

(* TopologyIndex of the ranker finds a route to every entity that the        *)
(* breadth-first search of CandidateGenerator located from the same origins. *)
THEOREM CausesAreAlwaysLocated == Spec => []CausesAreLocated
<1>1. AnalysisInv => CausesAreLocated
  BY RankedLocated DEF AnalysisInv
<1> QED
  BY <1>1, AnalysisInvariant, PTL

(* AnalysisEngine._topology_states paints the ends of each edge it paints,   *)
(* on any topology.                                                        *)
THEOREM MapsHangTogether == Spec => []PaintedEdgesJoinPaintedNodes
<1>1. AnalysisInv => PaintedEdgesJoinPaintedNodes
  BY PaintedJoin DEF AnalysisInv
<1> QED
  BY <1>1, AnalysisInvariant, PTL

(* Generator, ranker and fingerprint of an incident compute the same without *)
(* the signals of TopologyCascadeDetector and ConfigChangeDetector as with   *)
(* them, on every topology and for every catalogue whose patterns name no    *)
(* context.  So what the comments of the former say of its effect never is. *)
THEOREM ContextNeverRanks == Spec => []ContextDoesNotRank
<1>1. AnalysisInv => ContextDoesNotRank
  BY ContextIgnored DEF AnalysisInv
<1> QED
  BY <1>1, AnalysisInvariant, PTL
=============================================================================
