--------------------------- MODULE MatcherProofs ---------------------------
(***************************************************************************)
(* What Matcher guarantees for every pair of evidence indexes and every    *)
(* matching profile its assumptions admit.                                 *)
(***************************************************************************)
EXTENDS Matcher, TLAPS

-----------------------------------------------------------------------------
(* Scores. *)

(* The margin and the scale are natural numbers. *)
LEMMA MarginType == AmbiguityMargin \in Nat /\ Scale \in Nat
<1>1. AmbiguityMargin \in 0..Scale
  BY MatcherAssumption
<1>2. Scale \in Nat
  BY SMT DEF Scale
<1>3. QED BY <1>1, <1>2

(* A quotient of natural numbers is one, and is as small as its product    *)
(* with the divisor allows.                                                *)
LEMMA Quotient ==
  ASSUME NEW n \in Nat, NEW d \in Nat \ {0}
  PROVE  /\ n \div d \in Nat
         /\ \A q \in Nat : n < d * (q + 1) => n \div d <= q
<1>1. n \div d \in Nat /\ d * (n \div d) <= n
  OBVIOUS
<1>2. \A q, r \in Nat : r >= q + 1 => d * r >= d * (q + 1)
  OBVIOUS
<1>3. QED BY <1>1, <1>2

(* The weights add up to natural numbers, what matches is part of what     *)
(* applies, and a score is at most 1.0.                                    *)
LEMMA ScoreType ==
  ASSUME NEW s, NEW t
  PROVE  Total(s, t) \in Nat /\ Matched(s, t) \in Nat /\ Value(s, t) \in 0..Scale
<1>1. \A w \in Nat, b \in BOOLEAN : Count(w, b) \in Nat
  BY DEF Count
<1>2. \A w \in Nat : \A a, b \in BOOLEAN : (a => b) => Count(w, a) <= Count(w, b)
  BY DEF Count
<1> DEFINE hasId == s.pid # NoValue \/ t.pid # NoValue
           hasLabel == s.label # NoValue \/ t.label # NoValue
<1>3. /\ Count(WeightId, SameId(s, t)) \in Nat /\ Count(WeightId, hasId) \in Nat
      /\ Count(WeightId, SameId(s, t)) <= Count(WeightId, hasId)
  <2>1. SameId(s, t) \in BOOLEAN /\ hasId \in BOOLEAN /\ (SameId(s, t) => hasId)
    BY DEF SameId
  <2>2. QED BY <1>1, <1>2, <2>1, WeightAssumption
<1>4. /\ Count(WeightLabel, SameLabel(s, t)) \in Nat /\ Count(WeightLabel, hasLabel) \in Nat
      /\ Count(WeightLabel, SameLabel(s, t)) <= Count(WeightLabel, hasLabel)
  <2>1. SameLabel(s, t) \in BOOLEAN /\ hasLabel \in BOOLEAN /\ (SameLabel(s, t) => hasLabel)
    BY DEF SameLabel
  <2>2. QED BY <1>1, <1>2, <2>1, WeightAssumption
<1>5. \A w \in Nat, b \in BOOLEAN : Count(w, b) <= w
  BY DEF Count
<1>6. /\ Count(WeightSignature, Signature(s) = Signature(t)) \in Nat
      /\ Count(WeightSignature, Signature(s) = Signature(t)) <= WeightSignature
      /\ Count(WeightChildren, s.kids = t.kids) \in Nat
      /\ Count(WeightChildren, s.kids = t.kids) <= WeightChildren
  BY <1>1, <1>5, WeightAssumption
<1>7. /\ Total(s, t) \in Nat /\ Matched(s, t) \in Nat
      /\ Matched(s, t) <= Total(s, t)
  BY <1>3, <1>4, <1>6, WeightAssumption DEF Total, Matched
<1>8. Value(s, t) \in 0..Scale
  <2>1. CASE Total(s, t) = 0
    BY <2>1, MarginType DEF Value
  <2>2. CASE Total(s, t) # 0
    <3> DEFINE n == 2 * Scale * Matched(s, t) + Total(s, t)
               d == 2 * Total(s, t)
    <3>1. n \in Nat /\ d \in Nat \ {0} /\ Scale \in Nat
      BY <1>7, <2>2, SMT DEF Scale
    <3>2. n < d * (Scale + 1)
      <4>1. \A m, k \in Nat : m <= k /\ k # 0 => 2 * Scale * m + k < (2 * k) * (Scale + 1)
        BY SMT DEF Scale
      <4>2. QED BY <1>7, <2>2, <4>1
    <3>3. n \div d \in Nat /\ n \div d <= Scale
      BY <3>1, <3>2, Quotient
    <3>4. QED BY <2>2, <3>1, <3>3 DEF Value
  <2>3. QED BY <2>1, <2>2
<1>9. QED BY <1>7, <1>8

(* A positive score has evidence behind it. *)
LEMMA PositiveScore ==
  ASSUME NEW s, NEW t, Value(s, t) > 0
  PROVE  HasEvidence(s, t)
<1>1. SUFFICES ASSUME Matched(s, t) = 0 PROVE FALSE
  BY ScoreType DEF HasEvidence
<1>2. Total(s, t) # 0
  BY DEF Value
<1>3. \A n \in Nat : n # 0 => n \div (2 * n) = 0
  OBVIOUS
<1>4. Value(s, t) = Total(s, t) \div (2 * Total(s, t))
  BY <1>1, <1>2, ScoreType, MarginType DEF Value
<1>5. QED BY <1>2, <1>3, <1>4, ScoreType

-----------------------------------------------------------------------------
(* The inductive invariant.  Each conjunct says what one loop of match()   *)
(* leaves behind for the next one.                                         *)

ClaimOf(p) == Claim(p[1], Entry(Score(p[1], p[2]), p[2]))

Claims == Confirmable(rows, edges)

(* Phase 1 works through the shared ids, and every id it is done with has  *)
(* its pair confirmed, unless the types forbid it.                         *)
IdsInv ==
  /\ pendingIds \subseteq SharedUniqueIds(source, target)
  /\ \A p \in Sources \X Targets :
       ById(p) /\ source[p[1]].pid \notin pendingIds => p \in Confirmed

(* Rows hold scores, and never a node that an id has settled. *)
RowsInv ==
  \A s \in Sources : \A e \in rows[s] :
    /\ e = Entry(Score(s, e.ref), e.ref)
    /\ e.value >= ProbableThreshold
    /\ Admissible(s, e.ref)
    /\ \A p \in Sources \X Targets : ById(p) => p[1] # s /\ p[2] # e.ref

(* What each phase has not produced yet. *)
PhaseInv ==
  /\ phase = "ids" => rows = [s \in Sources |-> {}]
  /\ phase \in {"ids", "ambiguity"} =>
       InState("AMBIGUOUS") = {} /\ confirmable = {} /\ \A p \in Confirmed : ById(p)
  /\ phase \in {"ambiguity", "greedy", "returned"} => edges = AmbiguousEdges(rows)

(* A candidate is ambiguous because of an edge; it is confirmed by its id  *)
(* or by a claim the greedy loop has visited; every claim visited has left *)
(* its target matched.                                                     *)
ClaimsInv ==
  /\ confirmable \subseteq Claims
  /\ \A c \in InState("AMBIGUOUS") : <<c.source, c.target>> \in AmbiguousEdges(rows)
                                    /\ <<c.source, c.target>> \in edges
  /\ \A p \in Confirmed : ById(p) \/ ClaimOf(p) \in Claims \ confirmable
  /\ phase \in {"greedy", "returned"} =>
       \A d \in Claims \ confirmable : d.ref \in MatchedTargets

IInv == TypeOK /\ IdsInv /\ RowsInv /\ PhaseInv /\ ClaimsInv
          /\ ConfirmedDominates /\ NeverRaises

-----------------------------------------------------------------------------
(* Type correctness. *)

(* Shared unique ids are ids. *)
LEMMA SharedIdsType ==
  ASSUME NEW src \in SourceInputs, NEW tgt \in TargetInputs
  PROVE  SharedUniqueIds(src, tgt) \subseteq Ids
<1>1. UniqueIds(src) \subseteq Ids
  BY MatcherAssumption DEF UniqueIds
<1>2. QED BY <1>1 DEF SharedUniqueIds

(* The rows are rows and the claims read off them are claims. *)
LEMMA RowOfType ==
  ASSUME NEW s
  PROVE  RowOf(s) \in Row
BY ScoreType DEF RowOf, Plausible, Entry, Row, Score

(* An ambiguous edge joins a source and a target. *)
LEMMA EdgesType ==
  ASSUME NEW rs
  PROVE  AmbiguousEdges(rs) \subseteq Sources \X Targets
BY DEF AmbiguousEdges, SourceSideEdges, TargetSideEdges

(* A claim names its source, its target and a score. *)
LEMMA ConfirmableType ==
  ASSUME NEW rs \in [Sources -> Row], NEW es, NEW c \in Confirmable(rs, es)
  PROVE  c \in [value : 0..Scale, source : Sources, ref : Targets]
<1>1. PICK s \in Sources : \E e \in rs[s] : c = Claim(s, e)
  BY DEF Confirmable, ClaimsOf, TopPicks
<1>2. PICK e \in rs[s] : c = Claim(s, e)
  BY <1>1
<1>3. e \in [value : 0..Scale, ref : Targets]
  BY DEF Row
<1>4. QED BY <1>2, <1>3 DEF Claim

(* What a candidate is built from decides its type. *)
LEMMA CandidateType ==
  ASSUME NEW s \in Sources, NEW t \in Targets,
         NEW state \in {"CONFIRMED", "AMBIGUOUS", "REJECTED"},
         NEW v \in 0..Scale, NEW alts \in SUBSET (Sources \X Targets)
  PROVE  Candidate(s, t, state, v, alts) \in
           [source : Sources, target : Targets,
            state : {"CONFIRMED", "AMBIGUOUS", "REJECTED"},
            confidence : 0..Scale, alternatives : SUBSET (Sources \X Targets)]
BY DEF Candidate

(* No step of match() changes a type. *)
LEMMA TypeStep == TypeOK /\ [Next]_vars => TypeOK'
<1> SUFFICES ASSUME TypeOK, [Next]_vars PROVE TypeOK'
  OBVIOUS
<1>1. ASSUME NEW id \in pendingIds, NEW s \in Sources, NEW t \in Targets,
             RejectId(id, s, t)
      PROVE  TypeOK'
  <2>1. Candidate(s, t, "REJECTED", Score(s, t), {}) \in
          [source : Sources, target : Targets,
           state : {"CONFIRMED", "AMBIGUOUS", "REJECTED"},
           confidence : 0..Scale, alternatives : SUBSET (Sources \X Targets)]
    BY CandidateType, ScoreType DEF Score
  <2>2. QED BY <1>1, <2>1 DEF RejectId, TypeOK, inputs
<1>2. ASSUME NEW id \in pendingIds, NEW s \in Sources, NEW t \in Targets,
             ConfirmId(id, s, t)
      PROVE  TypeOK'
  <2>1. Candidate(s, t, "CONFIRMED", Scale, {}) \in
          [source : Sources, target : Targets,
           state : {"CONFIRMED", "AMBIGUOUS", "REJECTED"},
           confidence : 0..Scale, alternatives : SUBSET (Sources \X Targets)]
    BY CandidateType, MarginType
  <2>2. QED BY <1>2, <2>1 DEF ConfirmId, TypeOK, inputs
<1>3. ASSUME NEW id \in pendingIds, NEW s \in Sources, NEW t \in Targets,
             RaiseId(id, s, t)
      PROVE  TypeOK'
  BY <1>3 DEF RaiseId, TypeOK, Phases, inputs
<1>4. CASE ScoreRows
  <2>1. rows' \in [Sources -> Row]
    <3>1. \A s \in Sources : (IF s \in MatchedSources THEN {} ELSE RowOf(s)) \in Row
      BY RowOfType DEF Row
    <3>2. QED BY <1>4, <3>1 DEF ScoreRows
  <2>2. edges' \subseteq Sources \X Targets
    BY <1>4, EdgesType DEF ScoreRows
  <2>3. QED BY <1>4, <2>1, <2>2 DEF ScoreRows, TypeOK, Phases, inputs
<1>5. CASE EmitAmbiguous
  <2>1. \A e \in edges :
          Candidate(e[1], e[2], "AMBIGUOUS", Score(e[1], e[2]), Alternatives(edges, e))
            \in [source : Sources, target : Targets,
                 state : {"CONFIRMED", "AMBIGUOUS", "REJECTED"},
                 confidence : 0..Scale, alternatives : SUBSET (Sources \X Targets)]
    <3> TAKE e \in edges
    <3>1. e[1] \in Sources /\ e[2] \in Targets
      BY DEF TypeOK
    <3>2. Alternatives(edges, e) \subseteq Sources \X Targets
      BY DEF TypeOK, Alternatives
    <3>3. QED BY <3>1, <3>2, CandidateType, ScoreType DEF Score
  <2>2. confirmable' \subseteq [value : 0..Scale, source : Sources, ref : Targets]
    BY <1>5, ConfirmableType DEF EmitAmbiguous, TypeOK
  <2>3. QED BY <1>5, <2>1, <2>2 DEF EmitAmbiguous, TypeOK, Phases, inputs
<1>6. CASE RaiseAmbiguous
  BY <1>6 DEF RaiseAmbiguous, TypeOK, Phases, inputs
<1>7. ASSUME NEW c \in confirmable, SkipEntry(c)
      PROVE  TypeOK'
  BY <1>7 DEF SkipEntry, TypeOK, inputs
<1>8. ASSUME NEW c \in confirmable, ConfirmEntry(c)
      PROVE  TypeOK'
  <2>1. Candidate(c.source, c.ref, "CONFIRMED", c.value, {}) \in
          [source : Sources, target : Targets,
           state : {"CONFIRMED", "AMBIGUOUS", "REJECTED"},
           confidence : 0..Scale, alternatives : SUBSET (Sources \X Targets)]
    BY CandidateType DEF TypeOK
  <2>2. QED BY <1>8, <2>1 DEF ConfirmEntry, TypeOK, inputs
<1>9. ASSUME NEW c \in confirmable, RaiseEntry(c)
      PROVE  TypeOK'
  BY <1>9 DEF RaiseEntry, TypeOK, Phases, inputs
<1>10. CASE BuildGraph
  BY <1>10 DEF BuildGraph, TypeOK, Phases, inputs
<1>11. CASE UNCHANGED vars
  BY <1>11 DEF TypeOK, vars
<1>12. QED
  BY <1>1, <1>2, <1>3, <1>4, <1>5, <1>6, <1>7, <1>8, <1>9, <1>10, <1>11 DEF Next, Ended

(* match() starts with every variable in its type. *)
LEMMA TypeInit == Init => TypeOK
<1> SUFFICES ASSUME Init PROVE TypeOK
  OBVIOUS
<1>1. rows \in [Sources -> Row]
  BY DEF Init, Row
<1>2. pendingIds \subseteq Ids
  BY SharedIdsType DEF Init
<1>3. QED BY <1>1, <1>2 DEF Init, TypeOK, Phases

(* Every variable keeps its type in every state match() passes through. *)
THEOREM TypeCorrect == Spec => []TypeOK
BY TypeInit, TypeStep, PTL DEF Spec

-----------------------------------------------------------------------------
(* Ids and rows. *)

(* A shared unique id names one node on each side. *)
LEMMA IdPairUnique ==
  ASSUME source \in SourceInputs, target \in TargetInputs,
         NEW p \in Sources \X Targets, NEW q \in Sources \X Targets,
         SharesId(p), SharesId(q),
         p[1] = q[1] \/ p[2] = q[2] \/ source[p[1]].pid = source[q[1]].pid
  PROVE  p = q
<1>1. source[p[1]].pid = source[q[1]].pid /\ target[p[2]].pid = target[q[2]].pid
  BY DEF SharesId
<1>2. DOMAIN source = Sources /\ DOMAIN target = Targets
  BY MatcherAssumption
<1>3. /\ source[p[1]].pid \notin Duplicated(source) \cup {NoValue}
      /\ target[p[2]].pid \notin Duplicated(target) \cup {NoValue}
  BY DEF SharesId, SharedUniqueIds, UniqueIds
<1>4. p[1] = q[1]
  BY <1>1, <1>2, <1>3 DEF Duplicated
<1>5. p[2] = q[2]
  BY <1>1, <1>2, <1>3 DEF Duplicated
<1>6. QED BY <1>4, <1>5

(* A row has one head. *)
LEMMA FirstUnique ==
  ASSUME NEW row \in Row, NEW a, NEW b, IsFirst(a, row), IsFirst(b, row)
  PROVE  a = b
<1>1. /\ a \in [value : 0..Scale, ref : Targets]
      /\ b \in [value : 0..Scale, ref : Targets]
  BY DEF IsFirst, Row
<1>2. a.value \in Nat /\ a.ref \in Nat /\ b.value \in Nat /\ b.ref \in Nat
  <2>1. a.value \in 0..Scale /\ b.value \in 0..Scale /\ a.ref \in Targets /\ b.ref \in Targets
    BY <1>1
  <2>2. Targets \subseteq Nat
    BY MatcherAssumption
  <2>3. 0..Scale \subseteq Nat
    BY MarginType
  <2>4. QED BY <2>1, <2>2, <2>3
<1>3. a.value = b.value /\ a.ref = b.ref
  BY <1>2 DEF IsFirst, Before
<1>4. QED BY <1>1, <1>3

(* A claim is the head of the row of an unambiguous source. *)
LEMMA ClaimFacts ==
  ASSUME NEW rs \in [Sources -> Row], NEW es, NEW c \in Confirmable(rs, es)
  PROVE  /\ c.source \in Sources \ AmbiguousSources(es)
         /\ c.ref \in Targets \ AmbiguousTargets(es)
         /\ Entry(c.value, c.ref) \in rs[c.source]
         /\ IsTopPick(rs, c.source, Entry(c.value, c.ref))
         /\ c = Claim(c.source, Entry(c.value, c.ref))
<1>1. PICK s \in Sources \ AmbiguousSources(es) : c \in ClaimsOf(rs, s, es)
  BY DEF Confirmable
<1>2. PICK e \in rs[s] : c = Claim(s, e) /\ IsTopPick(rs, s, e)
  BY <1>1 DEF ClaimsOf, TopPicks
<1>3. e \in [value : 0..Scale, ref : Targets]
  BY DEF Row
<1>4. e = Entry(c.value, c.ref) /\ c.source = s
  BY <1>2, <1>3 DEF Claim, Entry
<1>5. c.ref \notin AmbiguousTargets(es) /\ c.ref \in Targets
  BY <1>1, <1>2, <1>3 DEF ClaimsOf, Claim
<1>6. QED BY <1>1, <1>2, <1>4, <1>5

(* One source makes one claim. *)
LEMMA ClaimUnique ==
  ASSUME NEW rs \in [Sources -> Row], NEW es,
         NEW c \in Confirmable(rs, es), NEW d \in Confirmable(rs, es),
         c.source = d.source
  PROVE  c = d
<1>1. rs[c.source] \in Row
  BY ClaimFacts
<1>2. Entry(c.value, c.ref) = Entry(d.value, d.ref)
  BY <1>1, ClaimFacts, FirstUnique DEF IsTopPick
<1>3. QED BY <1>2, ClaimFacts

(* An ambiguous edge joins a source to an entry of its row. *)
LEMMA EdgeInRow ==
  ASSUME NEW rs, NEW s \in Sources, NEW t \in Targets,
         <<s, t>> \in AmbiguousEdges(rs)
  PROVE  \E e \in rs[s] : e.ref = t
BY DEF AmbiguousEdges, SourceSideEdges, TargetSideEdges, NearBest, IsClose, Contends

(* A contender of t that is ambiguous at all makes t ambiguous. *)
LEMMA AmbiguousContender ==
  ASSUME NEW rs \in [Sources -> Row], AmbiguityMargin \in Nat,
         NEW s \in AmbiguousSources(AmbiguousEdges(rs)),
         NEW e \in rs[s], IsTopPick(rs, s, e)
  PROVE  e.ref \in AmbiguousTargets(AmbiguousEdges(rs))
<1>1. PICK edge \in AmbiguousEdges(rs) : s = edge[1]
  BY DEF AmbiguousSources
<1>2. edge \in Sources \X Targets /\ s \in Sources
  BY <1>1, EdgesType
<1>3. e \in [value : 0..Scale, ref : Targets] /\ rs[s] \in Row
  BY <1>2 DEF Row
<1>4. CASE edge \in SourceSideEdges(rs)
  <2>1. HasRival(rs, s)
    BY <1>1, <1>4 DEF SourceSideEdges
  <2>2. e.value - e.value <= AmbiguityMargin
    BY <1>3
  <2>3. NearBest(rs, s, e.ref)
    BY <2>2 DEF NearBest
  <2>4. <<s, e.ref>> \in AmbiguousEdges(rs)
    BY <1>2, <1>3, <2>1, <2>3 DEF AmbiguousEdges, SourceSideEdges
  <2>5. QED BY <2>4 DEF AmbiguousTargets
<1>5. CASE edge \in TargetSideEdges(rs)
  <2>1. PICK top : IsClose(rs, s, edge[2], top)
    BY <1>1, <1>5 DEF TargetSideEdges
  <2>2. PICK f \in rs[s] : IsTopPick(rs, s, f) /\ f.ref = edge[2]
    BY <2>1 DEF IsClose, Contends
  <2>3. e = f
    BY <1>3, <2>2, FirstUnique DEF IsTopPick
  <2>4. QED BY <1>1, <2>2, <2>3 DEF AmbiguousTargets
<1>6. QED BY <1>1, <1>4, <1>5 DEF AmbiguousEdges

(* Every ambiguous edge has a competitor: MatchCandidate's demand for      *)
(* alternatives is always met.                                             *)
LEMMA EdgesHaveAlternatives ==
  ASSUME NEW rs \in [Sources -> Row], AmbiguityMargin \in Nat,
         \A s \in Sources : \A e, f \in rs[s] : e.ref = f.ref => e = f,
         NEW edge \in AmbiguousEdges(rs)
  PROVE  Alternatives(AmbiguousEdges(rs), edge) # {}
<1>1. PICK s \in Sources, t \in Targets : edge = <<s, t>>
  BY EdgesType
<1>2. rs[s] \in Row /\ \A e \in rs[s] : e \in [value : 0..Scale, ref : Targets]
  BY DEF Row
<1>3. CASE edge \in SourceSideEdges(rs)
  <2>1. HasRival(rs, s)
    BY <1>1, <1>3 DEF SourceSideEdges
  <2>2. PICK best \in rs[s], rival \in rs[s] :
          /\ IsTopPick(rs, s, best) /\ rival # best
          /\ best.value - rival.value <= AmbiguityMargin
    BY <2>1 DEF HasRival
  <2>3. best.ref # rival.ref
    BY <2>2
  <2>4. NearBest(rs, s, rival.ref)
    BY <2>2 DEF NearBest
  <2>5. best.value - best.value <= AmbiguityMargin
    BY <1>2
  <2>6. NearBest(rs, s, best.ref)
    BY <2>2, <2>5 DEF NearBest
  <2>7. <<s, best.ref>> \in AmbiguousEdges(rs) /\ <<s, rival.ref>> \in AmbiguousEdges(rs)
    BY <1>2, <2>1, <2>4, <2>6 DEF AmbiguousEdges, SourceSideEdges
  <2>8. <<s, best.ref>> # edge \/ <<s, rival.ref>> # edge
    BY <1>1, <2>3
  <2>9. QED BY <1>1, <2>7, <2>8 DEF Alternatives
<1>4. CASE edge \in TargetSideEdges(rs)
  <2>1. PICK leader \in Sources : \E best \in rs[leader] :
          /\ LeadsContenders(rs, leader, t, best)
          /\ \E rival \in Sources \ {leader} : IsClose(rs, rival, t, best.value)
    BY <1>1, <1>4 DEF TargetSideEdges
  <2>2. PICK best \in rs[leader] :
          /\ LeadsContenders(rs, leader, t, best)
          /\ \E rival \in Sources \ {leader} : IsClose(rs, rival, t, best.value)
    BY <2>1
  <2>3. PICK rival \in Sources \ {leader} : IsClose(rs, rival, t, best.value)
    BY <2>2
  <2>4. IsClose(rs, leader, t, best.value)
    <3>1. best.value - best.value <= AmbiguityMargin
      BY <2>2 DEF Row
    <3>2. QED BY <2>2, <3>1 DEF LeadsContenders, IsClose
  <2>5. <<leader, t>> \in AmbiguousEdges(rs) /\ <<rival, t>> \in AmbiguousEdges(rs)
    BY <2>2, <2>3, <2>4 DEF AmbiguousEdges, TargetSideEdges
  <2>6. <<leader, t>> # edge \/ <<rival, t>> # edge
    BY <1>1, <2>3
  <2>7. QED BY <1>1, <2>5, <2>6 DEF Alternatives
<1>5. QED BY <1>3, <1>4 DEF AmbiguousEdges

-----------------------------------------------------------------------------
(* What the invariant says of one claim. *)

(* The best claim on a target beats every rival by more than the margin.   *)
(* No leader has to be assumed: a contender within the margin would make   *)
(* the claim itself the leader of an ambiguous target.                     *)
LEMMA BestClaimDominates ==
  ASSUME TypeOK, edges = AmbiguousEdges(rows),
         NEW c \in Claims,
         \A d \in Claims : d.ref = c.ref => d.value <= c.value
  PROVE  /\ \A e \in rows[c.source] :
              e.ref # c.ref => c.value - e.value > AmbiguityMargin
         /\ \A s \in Sources \ {c.source} : \A e \in rows[s] :
              (e.ref = c.ref /\ IsTopPick(rows, s, e))
                => c.value - e.value > AmbiguityMargin
<1> DEFINE best == Entry(c.value, c.ref)
<1>1. /\ rows \in [Sources -> Row] /\ AmbiguityMargin \in Nat
      /\ c \in [value : 0..Scale, source : Sources, ref : Targets]
  BY ConfirmableType, MarginType DEF TypeOK, Claims
<1>2. /\ c.source \in Sources \ AmbiguousSources(edges)
      /\ c.ref \in Targets \ AmbiguousTargets(edges)
      /\ best \in rows[c.source] /\ IsTopPick(rows, c.source, best)
  BY <1>1, ClaimFacts DEF Claims
<1>3. best.value = c.value /\ best.ref = c.ref
  BY DEF Entry
<1>4. best.value - best.value <= AmbiguityMargin
  BY <1>1, <1>3
<1>5. \A s \in Sources : \A e \in rows[s] : e.value \in Nat
  BY <1>1 DEF Row
<1>6. ASSUME NEW e \in rows[c.source], e.ref # c.ref,
             ~(c.value - e.value > AmbiguityMargin)
      PROVE  FALSE
  <2>1. best.value - e.value <= AmbiguityMargin /\ e # best
    BY <1>1, <1>2, <1>3, <1>5, <1>6
  <2>2. HasRival(rows, c.source)
    BY <1>2, <2>1 DEF HasRival
  <2>3. NearBest(rows, c.source, c.ref)
    BY <1>2, <1>3, <1>4 DEF NearBest
  <2>4. <<c.source, c.ref>> \in edges
    BY <1>2, <2>2, <2>3 DEF AmbiguousEdges, SourceSideEdges
  <2>5. QED BY <1>2, <2>4 DEF AmbiguousTargets
<1>7. ASSUME NEW s \in Sources, NEW e \in rows[s], Contends(rows, s, c.ref, e)
      PROVE  e.value <= best.value
  <2>1. s \notin AmbiguousSources(edges)
    BY <1>1, <1>2, <1>7, AmbiguousContender DEF Contends
  <2>2. Claim(s, e) \in Claims
    BY <1>2, <1>7, <2>1 DEF Claims, Confirmable, ClaimsOf, TopPicks, Contends, Claim
  <2>3. QED BY <1>3, <1>7, <2>2 DEF Contends, Claim
<1>8. ASSUME NEW s \in Sources \ {c.source}, NEW e \in rows[s],
             e.ref = c.ref, IsTopPick(rows, s, e),
             ~(c.value - e.value > AmbiguityMargin)
      PROVE  FALSE
  <2>1. LeadsContenders(rows, c.source, c.ref, best)
    BY <1>2, <1>3, <1>7 DEF LeadsContenders, Contends
  <2>2. best.value - e.value <= AmbiguityMargin
    BY <1>1, <1>3, <1>5, <1>8
  <2>3. IsClose(rows, s, c.ref, best.value)
    BY <1>8, <2>2 DEF IsClose, Contends
  <2>4. IsClose(rows, c.source, c.ref, best.value)
    BY <1>2, <1>3, <1>4 DEF IsClose, Contends
  <2>5. <<c.source, c.ref>> \in edges
    BY <1>2, <2>1, <2>3, <2>4 DEF AmbiguousEdges, TargetSideEdges
  <2>6. QED BY <1>2, <2>5 DEF AmbiguousTargets
<1>9. QED BY <1>6, <1>8

(* The claims on record are worth their score, and no id settles either of *)
(* their nodes.                                                            *)
LEMMA ClaimScore ==
  ASSUME TypeOK, RowsInv, NEW c \in Claims
  PROVE  /\ c.value = Score(c.source, c.ref)
         /\ c.value >= ProbableThreshold /\ c.value >= MatchThreshold
         /\ c = ClaimOf(<<c.source, c.ref>>)
         /\ \A p \in Sources \X Targets :
              ById(p) => p[1] # c.source /\ p[2] # c.ref
<1>1. rows \in [Sources -> Row]
  BY DEF TypeOK
<1>2. /\ c.source \in Sources
      /\ Entry(c.value, c.ref) \in rows[c.source]
      /\ IsTopPick(rows, c.source, Entry(c.value, c.ref))
      /\ c = Claim(c.source, Entry(c.value, c.ref))
  BY <1>1, ClaimFacts DEF Claims
<1>3. Entry(c.value, c.ref).value = c.value /\ Entry(c.value, c.ref).ref = c.ref
  BY DEF Entry
<1>4. c.value = Score(c.source, c.ref)
  <2>1. Entry(c.value, c.ref) = Entry(Score(c.source, c.ref), c.ref)
    BY <1>2, <1>3 DEF RowsInv
  <2>2. QED BY <2>1 DEF Entry
<1>5. c.value >= ProbableThreshold /\ c.value >= MatchThreshold
  BY <1>2, <1>3 DEF RowsInv, IsTopPick
<1>6. c = ClaimOf(<<c.source, c.ref>>)
  BY <1>2, <1>4 DEF ClaimOf
<1>7. QED BY <1>2, <1>3, <1>4, <1>5, <1>6 DEF RowsInv

-----------------------------------------------------------------------------
(* What follows from the invariant. *)

ConfirmedType == Confirmed \subseteq Sources \X Targets

(* A confirmed pair joins a source and a target. *)
LEMMA ConfirmedIsPairs == TypeOK => ConfirmedType
BY DEF TypeOK, ConfirmedType, Confirmed, InState

(* Two confirmed pairs that share a node are one pair. *)
LEMMA InvOneToOne == IInv => ConfirmedOneToOne
<1> SUFFICES ASSUME IInv, NEW p \in Confirmed, NEW q \in Confirmed,
                    p[1] = q[1] \/ p[2] = q[2]
             PROVE  p = q
  BY DEF ConfirmedOneToOne, OneToOne
<1>1. p \in Sources \X Targets /\ q \in Sources \X Targets
  BY ConfirmedIsPairs DEF ConfirmedType, IInv
<1>2. /\ source \in SourceInputs /\ target \in TargetInputs
      /\ rows \in [Sources -> Row] /\ TypeOK /\ RowsInv
  BY DEF IInv, TypeOK
<1>3. \A r \in Confirmed : ById(r) \/ ClaimOf(r) \in Claims
  BY DEF IInv, ClaimsInv
<1>4. \A r : ClaimOf(r).source = r[1] /\ ClaimOf(r).ref = r[2]
              /\ ClaimOf(r).value = Score(r[1], r[2])
  BY DEF ClaimOf, Claim, Entry
<1>5. CASE ById(p) /\ ById(q)
  BY <1>1, <1>2, <1>5, IdPairUnique DEF ById
<1>6. CASE ById(p) /\ ClaimOf(q) \in Claims
  BY <1>1, <1>2, <1>4, <1>6, ClaimScore
<1>7. CASE ClaimOf(p) \in Claims /\ ById(q)
  BY <1>1, <1>2, <1>4, <1>7, ClaimScore
<1>8. CASE ClaimOf(p) \in Claims /\ ClaimOf(q) \in Claims /\ p[1] = q[1]
  <2>1. ClaimOf(p) = ClaimOf(q)
    BY <1>2, <1>4, <1>8, ClaimUnique DEF Claims
  <2>2. QED BY <1>1, <1>4, <1>8, <2>1
<1>9. CASE ClaimOf(p) \in Claims /\ ClaimOf(q) \in Claims /\ p[2] = q[2] /\ p[1] # q[1]
  <2>1. ~ById(p) /\ ~ById(q)
    BY <1>1, <1>2, <1>4, <1>9, ClaimScore
  <2>2. /\ Entry(Score(q[1], q[2]), q[2]) \in rows[q[1]]
        /\ IsTopPick(rows, q[1], Entry(Score(q[1], q[2]), q[2]))
        /\ Entry(Score(p[1], p[2]), p[2]) \in rows[p[1]]
        /\ IsTopPick(rows, p[1], Entry(Score(p[1], p[2]), p[2]))
    BY <1>2, <1>4, <1>9, ClaimFacts DEF Claims
  <2>3. \A v, t : Entry(v, t).ref = t /\ Entry(v, t).value = v
    BY DEF Entry
  <2>4. Score(p[1], p[2]) - Score(q[1], q[2]) > AmbiguityMargin
    BY <1>1, <1>9, <2>1, <2>2, <2>3 DEF IInv, ConfirmedDominates
  <2>5. Score(q[1], q[2]) - Score(p[1], p[2]) > AmbiguityMargin
    BY <1>1, <1>9, <2>1, <2>2, <2>3 DEF IInv, ConfirmedDominates
  <2>6. /\ Score(p[1], p[2]) \in Nat /\ Score(q[1], q[2]) \in Nat
        /\ AmbiguityMargin \in Nat
    BY ScoreType, MarginType DEF Score
  <2>7. QED BY <2>4, <2>5, <2>6
<1>10. QED BY <1>3, <1>5, <1>6, <1>7, <1>8, <1>9

(* No confirmed node is an endpoint of an ambiguous candidate. *)
LEMMA InvDisjoint == IInv => AmbiguousNeverConfirmed
<1> SUFFICES ASSUME IInv, NEW c \in InState("AMBIGUOUS"), NEW p \in Confirmed,
                    c.source = p[1] \/ c.target = p[2]
             PROVE  FALSE
  BY DEF AmbiguousNeverConfirmed, MatchedSources, MatchedTargets
<1>1. /\ c.source \in Sources /\ c.target \in Targets
      /\ p \in Sources \X Targets
      /\ rows \in [Sources -> Row] /\ TypeOK /\ RowsInv
  BY ConfirmedIsPairs DEF ConfirmedType, IInv, TypeOK, InState
<1>2. /\ <<c.source, c.target>> \in AmbiguousEdges(rows)
      /\ <<c.source, c.target>> \in edges
      /\ ById(p) \/ ClaimOf(p) \in Claims
  BY DEF IInv, ClaimsInv
<1>3. CASE ById(p)
  <2>1. PICK e \in rows[c.source] : e.ref = c.target
    BY <1>1, <1>2, EdgeInRow
  <2>2. QED BY <1>1, <1>3, <2>1 DEF RowsInv
<1>4. CASE ClaimOf(p) \in Claims
  <2>1. ClaimOf(p).source = p[1] /\ ClaimOf(p).ref = p[2]
    BY DEF ClaimOf, Claim, Entry
  <2>2. p[1] \notin AmbiguousSources(edges) /\ p[2] \notin AmbiguousTargets(edges)
    BY <1>1, <1>4, <2>1, ClaimFacts DEF Claims
  <2>3. QED BY <1>2, <2>2 DEF AmbiguousSources, AmbiguousTargets
<1>5. QED BY <1>2, <1>3, <1>4

(* A confirmed pair keeps the hard constraint, by its id or by its row. *)
LEMMA InvAdmissible == IInv => \A p \in Confirmed : Admissible(p[1], p[2])
<1> SUFFICES ASSUME IInv, NEW p \in Confirmed PROVE Admissible(p[1], p[2])
  OBVIOUS
<1>1. TypeOK /\ RowsInv /\ rows \in [Sources -> Row]
  BY DEF IInv, TypeOK
<1>2. CASE ById(p)
  BY <1>2 DEF ById
<1>3. CASE ClaimOf(p) \in Claims
  <2>1. ClaimOf(p).source = p[1] /\ ClaimOf(p).ref = p[2]
    BY DEF ClaimOf, Claim, Entry
  <2>2. p[1] \in Sources /\ Entry(ClaimOf(p).value, p[2]) \in rows[p[1]]
    BY <1>1, <1>3, <2>1, ClaimFacts DEF Claims
  <2>3. Entry(ClaimOf(p).value, p[2]).ref = p[2]
    BY DEF Entry
  <2>4. QED BY <1>1, <2>2, <2>3 DEF RowsInv
<1>4. QED BY <1>2, <1>3 DEF IInv, ClaimsInv

-----------------------------------------------------------------------------
(* The invariant is inductive. *)

(* The inputs never change, so neither does what is read off them. *)
LEMMA InputsFixed ==
  ASSUME source' = source, target' = target
  PROVE  /\ \A s, t : Score(s, t)' = Score(s, t)
         /\ \A s, t : Admissible(s, t)' <=> Admissible(s, t)
         /\ \A p : ById(p)' <=> ById(p)
         /\ \A p : ClaimOf(p)' = ClaimOf(p)
         /\ SharedUniqueIds(source, target)' = SharedUniqueIds(source, target)
BY DEF Score, ById, SharesId, Admissible, ClaimOf

(* What a new candidate does to the confirmed pairs. *)
LEMMA AddCandidate ==
  ASSUME NEW s, NEW t, NEW state \in {"CONFIRMED", "REJECTED"}, NEW v, NEW alts,
         candidates' = candidates \cup {Candidate(s, t, state, v, alts)}
  PROVE  /\ Confirmed' = Confirmed \cup (IF state = "CONFIRMED" THEN {<<s, t>>} ELSE {})
         /\ InState("AMBIGUOUS")' = InState("AMBIGUOUS")
<1>1. InState("AMBIGUOUS")' = InState("AMBIGUOUS")
  BY DEF InState, Candidate
<1>2. CASE state = "CONFIRMED"
  <2>1. InState("CONFIRMED")' = InState("CONFIRMED") \cup {Candidate(s, t, state, v, alts)}
    BY <1>2 DEF InState, Candidate
  <2>2. \A x : x = Candidate(s, t, state, v, alts) => x.source = s /\ x.target = t
    BY DEF Candidate
  <2>3. \A x : x \in Confirmed' <=> x \in Confirmed \cup {<<s, t>>}
    BY <2>1, <2>2 DEF Confirmed
  <2>4. QED BY <1>1, <1>2, <2>3
<1>3. CASE state = "REJECTED"
  <2>1. InState("CONFIRMED")' = InState("CONFIRMED")
    BY <1>3 DEF InState, Candidate
  <2>2. QED BY <1>1, <1>3, <2>1 DEF Confirmed
<1>4. QED BY <1>2, <1>3

(* A step that confirms nothing and builds no row or claim keeps what the  *)
(* invariant says of them.                                                 *)
LEMMA Frame ==
  ASSUME IInv,
         UNCHANGED <<source, target, rows, edges, confirmable>>,
         Confirmed' = Confirmed,
         InState("AMBIGUOUS")' = InState("AMBIGUOUS"),
         \/ phase' = phase
         \/ phase' = "raised"
         \/ phase = "greedy" /\ phase' = "returned"
  PROVE  RowsInv' /\ PhaseInv' /\ ClaimsInv' /\ ConfirmedDominates'
<1>1. /\ \A s, t : Score(s, t)' = Score(s, t)
      /\ \A s, t : Admissible(s, t)' <=> Admissible(s, t)
      /\ \A p : ById(p)' <=> ById(p)
      /\ \A p : ClaimOf(p)' = ClaimOf(p)
  BY InputsFixed
<1>2. RowsInv'
  BY <1>1 DEF IInv, RowsInv
<1>3. PhaseInv'
  BY <1>1 DEF IInv, PhaseInv
<1>4. ClaimsInv'
  <2>1. Claims' = Claims /\ MatchedTargets' = MatchedTargets
    BY DEF Claims, MatchedTargets
  <2>2. QED BY <1>1, <2>1 DEF IInv, ClaimsInv
<1>5. ConfirmedDominates'
  BY <1>1 DEF IInv, ConfirmedDominates
<1>6. QED BY <1>2, <1>3, <1>4, <1>5

(* A shared id that carries weight is evidence. *)
LEMMA IdEvidence ==
  ASSUME NEW s, NEW t, SameId(s, t), WeightId > 0
  PROVE  HasEvidence(s, t)
<1>1. \A w \in Nat, b \in BOOLEAN : Count(w, b) \in Nat
  BY DEF Count
<1>2. Count(WeightId, SameId(s, t)) > 0
  BY DEF Count
<1>3. /\ Count(WeightId, SameId(s, t)) \in Nat
      /\ Count(WeightSignature, Signature(s) = Signature(t)) \in Nat
      /\ Count(WeightLabel, SameLabel(s, t)) \in Nat
      /\ Count(WeightChildren, s.kids = t.kids) \in Nat
  BY <1>1, WeightAssumption DEF SameLabel, SameId
<1>4. \A a, b, c, d \in Nat : a > 0 => a + b + c + d > 0
  OBVIOUS
<1>5. QED BY <1>2, <1>3, <1>4 DEF HasEvidence, Matched

(* The pair the next id names shares that id. *)
LEMMA NextIdShared ==
  ASSUME IInv, NEW id \in pendingIds, NEW s \in Sources, NEW t \in Targets,
         NextIdPair(id, s, t)
  PROVE  /\ SharesId(<<s, t>>)
         /\ SameId(source[s], target[t])
         /\ \A p \in Sources \X Targets :
              SharesId(p) /\ source[p[1]].pid = id => p = <<s, t>>
<1>1. /\ source \in SourceInputs /\ target \in TargetInputs
      /\ id \in SharedUniqueIds(source, target)
  BY DEF IInv, TypeOK, IdsInv
<1>2. SharesId(<<s, t>>)
  BY <1>1 DEF SharesId, NextIdPair
<1>3. id \in Ids
  BY DEF IInv, TypeOK
<1>4. SameId(source[s], target[t])
  BY <1>3, MatcherAssumption DEF NextIdPair, SameId
<1>5. ASSUME NEW p \in Sources \X Targets, SharesId(p), source[p[1]].pid = id
      PROVE  p = <<s, t>>
  BY <1>1, <1>2, <1>5, IdPairUnique DEF NextIdPair
<1>6. QED BY <1>2, <1>4, <1>5

(* Phase 1: rejecting an incompatible pair settles its id. *)
LEMMA RejectIdStep ==
  ASSUME IInv, NEW id \in pendingIds, NEW s \in Sources, NEW t \in Targets,
         RejectId(id, s, t)
  PROVE  IdsInv' /\ RowsInv' /\ PhaseInv' /\ ClaimsInv' /\ ConfirmedDominates' /\ NeverRaises'
<1>1. Confirmed' = Confirmed /\ InState("AMBIGUOUS")' = InState("AMBIGUOUS")
  BY AddCandidate DEF RejectId
<1>2. RowsInv' /\ PhaseInv' /\ ClaimsInv' /\ ConfirmedDominates'
  BY <1>1, Frame DEF RejectId, inputs
<1>3. ~ById(<<s, t>>)
  BY DEF RejectId, ById, Admissible
<1>4. \A p \in Sources \X Targets : ById(p) => source[p[1]].pid # id
  BY <1>3, NextIdShared DEF RejectId, ById
<1>5. /\ \A p : ById(p)' <=> ById(p)
      /\ source' = source /\ target' = target /\ pendingIds' = pendingIds \ {id}
  BY InputsFixed DEF RejectId, inputs
<1>6. IdsInv'
  BY <1>1, <1>4, <1>5 DEF IInv, IdsInv
<1>7. NeverRaises'
  BY DEF IInv, NeverRaises, RejectId
<1>8. QED BY <1>2, <1>6, <1>7

(* Phase 1: confirming the pair of an id. *)
LEMMA ConfirmIdStep ==
  ASSUME IInv, NEW id \in pendingIds, NEW s \in Sources, NEW t \in Targets,
         ConfirmId(id, s, t)
  PROVE  IdsInv' /\ RowsInv' /\ PhaseInv' /\ ClaimsInv' /\ ConfirmedDominates' /\ NeverRaises'
<1>1. /\ Confirmed' = Confirmed \cup {<<s, t>>}
      /\ InState("AMBIGUOUS")' = InState("AMBIGUOUS")
  BY AddCandidate DEF ConfirmId
<1>2. /\ \A p : ById(p)' <=> ById(p)
      /\ source' = source /\ target' = target /\ pendingIds' = pendingIds \ {id}
      /\ rows' = rows /\ edges' = edges /\ confirmable' = confirmable
      /\ phase' = phase /\ phase = "ids"
  BY InputsFixed DEF ConfirmId, NextIdPair, inputs
<1>3. ById(<<s, t>>)
  BY NextIdShared DEF ConfirmId, ById, Admissible
<1>4. /\ rows = [n \in Sources |-> {}] /\ InState("AMBIGUOUS") = {} /\ confirmable = {}
      /\ \A p \in Confirmed : ById(p)
  BY <1>2 DEF IInv, PhaseInv
<1>5. \A p \in Sources \X Targets :
        ById(p) /\ source[p[1]].pid = id => p = <<s, t>>
  BY NextIdShared DEF ConfirmId, ById
<1>6. IdsInv'
  BY <1>1, <1>2, <1>5 DEF IInv, IdsInv
<1>7. RowsInv'
  BY <1>2, <1>4 DEF RowsInv
<1>8. PhaseInv'
  BY <1>1, <1>2, <1>3, <1>4 DEF PhaseInv
<1>9. \A p \in Confirmed' : ById(p)'
  BY <1>1, <1>2, <1>3, <1>4
<1>10. ClaimsInv'
  <2>1. Confirmed' \subseteq Confirmed' /\ confirmable' = {}
    BY <1>2, <1>4
  <2>2. QED BY <1>1, <1>2, <1>4, <1>9, <2>1 DEF ClaimsInv
<1>11. ConfirmedDominates'
  BY <1>9 DEF ConfirmedDominates
<1>12. NeverRaises'
  BY <1>2 DEF NeverRaises
<1>13. QED BY <1>6, <1>7, <1>8, <1>10, <1>11, <1>12

(* The rows are built when every id is settled: they hold none of its nodes. *)
LEMMA ScoreRowsStep ==
  ASSUME IInv, ScoreRows
  PROVE  IdsInv' /\ RowsInv' /\ PhaseInv' /\ ClaimsInv' /\ ConfirmedDominates' /\ NeverRaises'
<1>1. /\ \A p : ById(p)' <=> ById(p)
      /\ \A s, t : Score(s, t)' = Score(s, t)
      /\ \A s, t : Admissible(s, t)' <=> Admissible(s, t)
      /\ source' = source /\ target' = target
      /\ pendingIds' = pendingIds /\ candidates' = candidates /\ confirmable' = confirmable
      /\ phase' = "ambiguity" /\ phase = "ids" /\ pendingIds = {}
  BY InputsFixed DEF ScoreRows, inputs
<1>2. Confirmed' = Confirmed /\ InState("AMBIGUOUS")' = InState("AMBIGUOUS")
  BY <1>1 DEF Confirmed, InState
<1>3. /\ InState("AMBIGUOUS") = {} /\ confirmable = {}
      /\ \A p \in Confirmed : ById(p)
  BY <1>1 DEF IInv, PhaseInv
<1>4. \A p \in Sources \X Targets :
        ById(p) => p[1] \in MatchedSources /\ p[2] \in MatchedTargets
  BY <1>1 DEF IInv, IdsInv, MatchedSources, MatchedTargets
<1>5. IdsInv'
  BY <1>1, <1>2 DEF IInv, IdsInv
<1>6. RowsInv'
  <2>1. SUFFICES ASSUME NEW s \in Sources, NEW e \in rows'[s]
                 PROVE  /\ e = Entry(Score(s, e.ref), e.ref)
                        /\ e.value >= ProbableThreshold
                        /\ Admissible(s, e.ref)
                        /\ \A p \in Sources \X Targets : ById(p) => p[1] # s /\ p[2] # e.ref
    BY <1>1 DEF RowsInv
  <2>2. s \notin MatchedSources /\ e \in RowOf(s)
    BY DEF ScoreRows
  <2>3. PICK t \in Plausible(s) : e = Entry(Score(s, t), t)
    BY <2>2 DEF RowOf
  <2>4. e.ref = t /\ e.value = Score(s, t)
    BY <2>3 DEF Entry
  <2>5. QED BY <1>4, <2>2, <2>3, <2>4 DEF Plausible
<1>7. PhaseInv'
  BY <1>1, <1>2, <1>3 DEF PhaseInv, ScoreRows
<1>8. \A p \in Confirmed' : ById(p)'
  BY <1>1, <1>2, <1>3
<1>9. ClaimsInv'
  BY <1>1, <1>2, <1>3, <1>8 DEF ClaimsInv
<1>10. ConfirmedDominates'
  BY <1>8 DEF ConfirmedDominates
<1>11. NeverRaises'
  BY <1>1 DEF NeverRaises
<1>12. QED BY <1>5, <1>6, <1>7, <1>9, <1>10, <1>11

(* The ambiguous candidates are the edges, and no claim is visited yet. *)
LEMMA EmitAmbiguousStep ==
  ASSUME IInv, EmitAmbiguous
  PROVE  IdsInv' /\ RowsInv' /\ PhaseInv' /\ ClaimsInv' /\ ConfirmedDominates' /\ NeverRaises'
<1>1. /\ \A p : ById(p)' <=> ById(p)
      /\ \A s, t : Score(s, t)' = Score(s, t)
      /\ \A s, t : Admissible(s, t)' <=> Admissible(s, t)
      /\ source' = source /\ target' = target
      /\ pendingIds' = pendingIds /\ rows' = rows /\ edges' = edges
      /\ phase' = "greedy" /\ phase = "ambiguity"
  BY InputsFixed DEF EmitAmbiguous, inputs
<1>2. /\ InState("AMBIGUOUS") = {} /\ edges = AmbiguousEdges(rows)
      /\ \A p \in Confirmed : ById(p)
  BY <1>1 DEF IInv, PhaseInv
<1>3. InState("CONFIRMED")' = InState("CONFIRMED")
  BY DEF EmitAmbiguous, InState, Candidate
<1>4. Confirmed' = Confirmed
  BY <1>3 DEF Confirmed
<1>5. \A c \in InState("AMBIGUOUS")' : <<c.source, c.target>> \in edges
  <2>1. SUFFICES ASSUME NEW c \in InState("AMBIGUOUS")'
                 PROVE  <<c.source, c.target>> \in edges
    OBVIOUS
  <2>2. c \notin candidates
    BY <1>2 DEF InState
  <2>3. PICK e \in edges :
          c = Candidate(e[1], e[2], "AMBIGUOUS", Score(e[1], e[2]), Alternatives(edges, e))
    BY <2>2 DEF EmitAmbiguous, InState
  <2>4. e \in Sources \X Targets
    BY <1>2, EdgesType
  <2>5. c.source = e[1] /\ c.target = e[2]
    BY <2>3 DEF Candidate
  <2>6. QED BY <2>4, <2>5
<1>6. confirmable' = Claims' /\ Claims' = Claims
  BY <1>1 DEF EmitAmbiguous, Claims
<1>7. IdsInv'
  BY <1>1, <1>4 DEF IInv, IdsInv
<1>8. RowsInv'
  BY <1>1 DEF IInv, RowsInv
<1>9. PhaseInv'
  BY <1>1, <1>2 DEF PhaseInv
<1>10. \A p \in Confirmed' : ById(p)'
  BY <1>1, <1>2, <1>4
<1>11. ClaimsInv'
  BY <1>1, <1>2, <1>5, <1>6, <1>10 DEF ClaimsInv
<1>12. ConfirmedDominates'
  BY <1>10 DEF ConfirmedDominates
<1>13. NeverRaises'
  BY <1>1 DEF NeverRaises
<1>14. QED BY <1>7, <1>8, <1>9, <1>11, <1>12, <1>13

(* A claim is skipped only because its target has been taken: its source   *)
(* makes no other claim, and no id has settled it.                         *)
LEMMA SkipEntryStep ==
  ASSUME IInv, NEW c \in confirmable, SkipEntry(c)
  PROVE  IdsInv' /\ RowsInv' /\ PhaseInv' /\ ClaimsInv' /\ ConfirmedDominates' /\ NeverRaises'
<1>1. /\ \A p : ById(p)' <=> ById(p)
      /\ \A p : ClaimOf(p)' = ClaimOf(p)
      /\ \A s, t : Score(s, t)' = Score(s, t)
      /\ \A s, t : Admissible(s, t)' <=> Admissible(s, t)
      /\ source' = source /\ target' = target
      /\ pendingIds' = pendingIds /\ rows' = rows /\ edges' = edges
      /\ candidates' = candidates /\ confirmable' = confirmable \ {c}
      /\ phase' = phase /\ phase = "greedy"
  BY InputsFixed DEF SkipEntry, NextEntry, inputs
<1>2. /\ Confirmed' = Confirmed /\ InState("AMBIGUOUS")' = InState("AMBIGUOUS")
      /\ MatchedTargets' = MatchedTargets /\ Claims' = Claims
  BY <1>1 DEF Confirmed, InState, MatchedTargets, Claims
<1>3. c \in Claims /\ TypeOK /\ RowsInv /\ rows \in [Sources -> Row]
  BY DEF IInv, ClaimsInv, TypeOK
<1>4. c.ref \in MatchedTargets
  <2>1. CASE c.source \in MatchedSources
    <3>1. PICK p \in Confirmed : p[1] = c.source
      BY <2>1 DEF MatchedSources
    <3>2. p \in Sources \X Targets
      BY <1>3, ConfirmedIsPairs DEF ConfirmedType
    <3>3. ~ById(p)
      BY <1>3, <3>1, <3>2, ClaimScore
    <3>4. ClaimOf(p) \in Claims \ confirmable
      BY <3>3 DEF IInv, ClaimsInv
    <3>5. ClaimOf(p).source = c.source
      BY <3>1 DEF ClaimOf, Claim
    <3>6. ClaimOf(p) = c
      BY <1>3, <3>4, <3>5, ClaimUnique DEF Claims
    <3>7. QED BY <3>4, <3>6
  <2>2. QED BY <2>1 DEF SkipEntry, Taken
<1>5. IdsInv'
  BY <1>1, <1>2 DEF IInv, IdsInv
<1>6. RowsInv'
  BY <1>1 DEF IInv, RowsInv
<1>7. PhaseInv'
  BY <1>1, <1>2 DEF IInv, PhaseInv
<1>8. ClaimsInv'
  BY <1>1, <1>2, <1>4 DEF IInv, ClaimsInv
<1>9. ConfirmedDominates'
  BY <1>1, <1>2 DEF IInv, ConfirmedDominates
<1>10. NeverRaises'
  BY <1>1 DEF IInv, NeverRaises
<1>11. QED BY <1>5, <1>6, <1>7, <1>8, <1>9, <1>10

(* A claim that is confirmed is the best on its target: the claims visited *)
(* before it went to other targets, those still to come are no better.     *)
LEMMA ConfirmEntryStep ==
  ASSUME IInv, NEW c \in confirmable, ConfirmEntry(c)
  PROVE  IdsInv' /\ RowsInv' /\ PhaseInv' /\ ClaimsInv' /\ ConfirmedDominates' /\ NeverRaises'
<1> DEFINE pair == <<c.source, c.ref>>
<1>1. /\ \A p : ById(p)' <=> ById(p)
      /\ \A p : ClaimOf(p)' = ClaimOf(p)
      /\ \A s, t : Score(s, t)' = Score(s, t)
      /\ \A s, t : Admissible(s, t)' <=> Admissible(s, t)
      /\ source' = source /\ target' = target
      /\ pendingIds' = pendingIds /\ rows' = rows /\ edges' = edges
      /\ confirmable' = confirmable \ {c}
      /\ phase' = phase /\ phase = "greedy"
  BY InputsFixed DEF ConfirmEntry, NextEntry, inputs
<1>2. /\ Confirmed' = Confirmed \cup {pair}
      /\ InState("AMBIGUOUS")' = InState("AMBIGUOUS")
      /\ Claims' = Claims
  BY <1>1, AddCandidate DEF ConfirmEntry, Claims
<1>3. MatchedTargets' = MatchedTargets \cup {c.ref}
  <2>1. pair[2] = c.ref
    OBVIOUS
  <2> HIDE DEF pair
  <2>2. \A x : x \in MatchedTargets' <=> x \in MatchedTargets \cup {c.ref}
    BY <1>2, <2>1 DEF MatchedTargets
  <2>3. QED BY <2>2
<1>4. /\ c \in Claims /\ TypeOK /\ RowsInv /\ rows \in [Sources -> Row]
      /\ edges = AmbiguousEdges(rows)
  BY <1>1 DEF IInv, ClaimsInv, PhaseInv, TypeOK
<1>5. /\ c.value = Score(c.source, c.ref) /\ c.value >= MatchThreshold
      /\ c = ClaimOf(pair)
  BY <1>4, ClaimScore
<1>6. ASSUME NEW d \in Claims, d.ref = c.ref
      PROVE  d.value <= c.value
  <2>1. c.ref \notin MatchedTargets
    BY DEF ConfirmEntry, Taken
  <2>2. d \in confirmable
    BY <1>1, <1>6, <2>1 DEF IInv, ClaimsInv
  <2>3. Earlier(c, d)
    BY <2>2 DEF ConfirmEntry, NextEntry
  <2>4. c.value \in Nat /\ d.value \in Nat
    BY <1>4, ConfirmableType DEF Claims
  <2>5. QED BY <2>3, <2>4 DEF Earlier
<1>7. IdsInv'
  BY <1>1, <1>2 DEF IInv, IdsInv
<1>8. RowsInv'
  BY <1>1 DEF IInv, RowsInv
<1>9. PhaseInv'
  BY <1>1, <1>2 DEF IInv, PhaseInv
<1>10. ClaimsInv'
  <2>1. ClaimOf(pair) \in Claims' \ confirmable'
    BY <1>1, <1>2, <1>4, <1>5
  <2>2. \A p \in Confirmed' : ById(p)' \/ ClaimOf(p)' \in Claims' \ confirmable'
    BY <1>1, <1>2, <2>1 DEF IInv, ClaimsInv
  <2>3. \A d \in Claims' \ confirmable' : d.ref \in MatchedTargets'
    BY <1>1, <1>2, <1>3 DEF IInv, ClaimsInv
  <2>4. QED BY <1>1, <1>2, <2>2, <2>3 DEF IInv, ClaimsInv
<1>11. ConfirmedDominates'
  <2>1. /\ \A e \in rows[c.source] :
             e.ref # c.ref => c.value - e.value > AmbiguityMargin
        /\ \A s \in Sources \ {c.source} : \A e \in rows[s] :
             (e.ref = c.ref /\ IsTopPick(rows, s, e))
               => c.value - e.value > AmbiguityMargin
    BY <1>4, <1>6, BestClaimDominates
  <2>2. pair[1] = c.source /\ pair[2] = c.ref
    OBVIOUS
  <2>3. SUFFICES ASSUME NEW p \in Confirmed', ~ById(p)
                 PROVE  /\ Score(p[1], p[2]) >= MatchThreshold
                        /\ \A e \in rows[p[1]] :
                             e.ref # p[2] => Score(p[1], p[2]) - e.value > AmbiguityMargin
                        /\ \A s \in Sources \ {p[1]} : \A e \in rows[s] :
                             (e.ref = p[2] /\ IsTopPick(rows, s, e))
                               => Score(p[1], p[2]) - e.value > AmbiguityMargin
    BY <1>1 DEF ConfirmedDominates
  <2>4. CASE p = pair
    BY <1>5, <2>1, <2>2, <2>4
  <2>5. CASE p \in Confirmed
    BY <2>3, <2>5 DEF IInv, ConfirmedDominates
  <2>6. QED BY <1>2, <2>4, <2>5
<1>12. NeverRaises'
  BY <1>1 DEF IInv, NeverRaises
<1>13. QED BY <1>7, <1>8, <1>9, <1>10, <1>11, <1>12

(* The steps that end match() in an error need a profile without evidence  *)
(* behind its ids, or one that lets worthless pairs into the rows.         *)
LEMMA RaiseStep ==
  ASSUME IInv,
         \/ \E id \in pendingIds, s \in Sources, t \in Targets : RaiseId(id, s, t)
         \/ RaiseAmbiguous
         \/ \E c \in confirmable : RaiseEntry(c)
  PROVE  IdsInv' /\ RowsInv' /\ PhaseInv' /\ ClaimsInv' /\ ConfirmedDominates' /\ NeverRaises'
<1>1. /\ UNCHANGED <<source, target, pendingIds, candidates, rows, edges, confirmable>>
      /\ phase' = "raised"
  BY DEF RaiseId, RaiseAmbiguous, RaiseEntry, inputs
<1>2. Confirmed' = Confirmed /\ InState("AMBIGUOUS")' = InState("AMBIGUOUS")
  BY <1>1 DEF Confirmed, InState
<1>3. RowsInv' /\ PhaseInv' /\ ClaimsInv' /\ ConfirmedDominates'
  BY <1>1, <1>2, Frame
<1>4. IdsInv'
  <2>1. \A p : ById(p)' <=> ById(p)
    BY <1>1, InputsFixed
  <2>2. QED BY <1>1, <1>2, <2>1 DEF IInv, IdsInv
<1>5. NeverRaises'
  <2>1. SUFFICES ASSUME WeightId > 0, ProbableThreshold > 0 PROVE FALSE
    BY DEF NeverRaises
  <2>2. /\ rows \in [Sources -> Row] /\ edges \subseteq Sources \X Targets
        /\ TypeOK /\ RowsInv /\ AmbiguityMargin \in Nat /\ ProbableThreshold \in Nat
    BY MarginType, MatcherAssumption DEF IInv, TypeOK
  <2>3. \A s \in Sources : \A e \in rows[s] : HasEvidence(source[s], target[e.ref])
    <3>1. SUFFICES ASSUME NEW s \in Sources, NEW e \in rows[s]
                   PROVE  HasEvidence(source[s], target[e.ref])
      OBVIOUS
    <3>2. e.value = Score(s, e.ref) /\ e.value >= ProbableThreshold
      BY <2>2 DEF RowsInv, Entry
    <3>3. Score(s, e.ref) > 0
      BY <2>1, <2>2, <3>2, ScoreType DEF Score
    <3>4. QED BY <3>3, PositiveScore DEF Score
  <2>4. CASE \E id \in pendingIds, s \in Sources, t \in Targets : RaiseId(id, s, t)
    <3>1. PICK id \in pendingIds, s \in Sources, t \in Targets : RaiseId(id, s, t)
      BY <2>4
    <3>2. SameId(source[s], target[t])
      BY <3>1, NextIdShared DEF RaiseId
    <3>3. QED BY <2>1, <3>1, <3>2, IdEvidence DEF RaiseId
  <2>5. CASE RaiseAmbiguous
    <3>1. edges = AmbiguousEdges(rows)
      BY <2>5 DEF RaiseAmbiguous, IInv, PhaseInv
    <3>2. PICK e \in edges :
            ~HasEvidence(source[e[1]], target[e[2]]) \/ Alternatives(edges, e) = {}
      BY <2>5 DEF RaiseAmbiguous
    <3>3. HasEvidence(source[e[1]], target[e[2]])
      BY <2>2, <2>3, <3>1, <3>2, EdgeInRow
    <3>4. \A s \in Sources : \A a, b \in rows[s] : a.ref = b.ref => a = b
      BY <2>2 DEF RowsInv
    <3>5. Alternatives(edges, e) # {}
      BY <2>2, <3>1, <3>4, EdgesHaveAlternatives
    <3>6. QED BY <3>2, <3>3, <3>5
  <2>6. CASE \E c \in confirmable : RaiseEntry(c)
    <3>1. PICK c \in confirmable : RaiseEntry(c)
      BY <2>6
    <3>2. c \in Confirmable(rows, edges)
      BY DEF IInv, ClaimsInv, Claims
    <3>3. c.source \in Sources /\ Entry(c.value, c.ref) \in rows[c.source]
      BY <2>2, <3>2, ClaimFacts
    <3>4. Entry(c.value, c.ref).ref = c.ref
      BY DEF Entry
    <3>5. QED BY <2>3, <3>1, <3>3, <3>4 DEF RaiseEntry
  <2>7. QED BY <2>4, <2>5, <2>6
<1>6. QED BY <1>3, <1>4, <1>5

(* MatchGraph accepts what the greedy loop leaves. *)
LEMMA BuildGraphStep ==
  ASSUME IInv, BuildGraph
  PROVE  IdsInv' /\ RowsInv' /\ PhaseInv' /\ ClaimsInv' /\ ConfirmedDominates' /\ NeverRaises'
<1>1. /\ UNCHANGED <<source, target, pendingIds, candidates, rows, edges, confirmable>>
      /\ phase = "greedy" /\ phase' = "returned"
  BY InvOneToOne DEF BuildGraph, ConfirmedOneToOne, inputs
<1>2. Confirmed' = Confirmed /\ InState("AMBIGUOUS")' = InState("AMBIGUOUS")
  BY <1>1 DEF Confirmed, InState
<1>3. RowsInv' /\ PhaseInv' /\ ClaimsInv' /\ ConfirmedDominates'
  BY <1>1, <1>2, Frame
<1>4. IdsInv'
  <2>1. \A p : ById(p)' <=> ById(p)
    BY <1>1, InputsFixed
  <2>2. QED BY <1>1, <1>2, <2>1 DEF IInv, IdsInv
<1>5. NeverRaises'
  BY <1>1 DEF NeverRaises
<1>6. QED BY <1>3, <1>4, <1>5

-----------------------------------------------------------------------------
(* The theorems. *)

(* Nothing is confirmed before the first step, and every id is pending. *)
LEMMA InitInv == Init => IInv
<1> SUFFICES ASSUME Init PROVE IInv
  OBVIOUS
<1>1. TypeOK
  BY TypeInit
<1>2. Confirmed = {} /\ InState("AMBIGUOUS") = {}
  BY DEF Init, Confirmed, InState
<1>3. IdsInv
  BY DEF Init, IdsInv, ById, SharesId
<1>4. RowsInv
  BY DEF Init, RowsInv
<1>5. PhaseInv
  BY <1>2 DEF Init, PhaseInv
<1>6. ClaimsInv
  BY <1>2 DEF Init, ClaimsInv
<1>7. ConfirmedDominates
  BY <1>2 DEF ConfirmedDominates
<1>8. NeverRaises
  BY DEF Init, NeverRaises
<1>9. QED BY <1>1, <1>3, <1>4, <1>5, <1>6, <1>7, <1>8 DEF IInv

(* Every step of match() keeps the invariant. *)
LEMMA StepInv == IInv /\ [Next]_vars => IInv'
<1> SUFFICES ASSUME IInv, [Next]_vars PROVE IInv'
  OBVIOUS
<1>1. TypeOK'
  BY TypeStep DEF IInv
<1>2. CASE \E id \in pendingIds, s \in Sources, t \in Targets : RejectId(id, s, t)
  BY <1>1, <1>2, RejectIdStep DEF IInv
<1>3. CASE \E id \in pendingIds, s \in Sources, t \in Targets : ConfirmId(id, s, t)
  BY <1>1, <1>3, ConfirmIdStep DEF IInv
<1>4. CASE ScoreRows
  BY <1>1, <1>4, ScoreRowsStep DEF IInv
<1>5. CASE EmitAmbiguous
  BY <1>1, <1>5, EmitAmbiguousStep DEF IInv
<1>6. CASE \E c \in confirmable : SkipEntry(c)
  BY <1>1, <1>6, SkipEntryStep DEF IInv
<1>7. CASE \E c \in confirmable : ConfirmEntry(c)
  BY <1>1, <1>7, ConfirmEntryStep DEF IInv
<1>8. CASE \/ \E id \in pendingIds, s \in Sources, t \in Targets : RaiseId(id, s, t)
           \/ RaiseAmbiguous
           \/ \E c \in confirmable : RaiseEntry(c)
  BY <1>1, <1>8, RaiseStep DEF IInv
<1>9. CASE BuildGraph
  BY <1>1, <1>9, BuildGraphStep DEF IInv
<1>10. CASE UNCHANGED vars
  <2>1. UNCHANGED <<source, target, phase, pendingIds, candidates, rows, edges, confirmable>>
    BY <1>10 DEF vars
  <2>2. Confirmed' = Confirmed /\ InState("AMBIGUOUS")' = InState("AMBIGUOUS")
    BY <2>1 DEF Confirmed, InState
  <2>3. \A p : ById(p)' <=> ById(p)
    BY <2>1, InputsFixed
  <2>4. IdsInv' /\ NeverRaises'
    BY <2>1, <2>2, <2>3 DEF IInv, IdsInv, NeverRaises
  <2>5. QED BY <1>1, <2>1, <2>2, <2>4, Frame DEF IInv
<1>11. QED
  BY <1>2, <1>3, <1>4, <1>5, <1>6, <1>7, <1>8, <1>9, <1>10 DEF Next, Ended

(* Every state match() passes through satisfies the invariant. *)
LEMMA Invariance == Spec => []IInv
BY InitInv, StepInv, PTL DEF Spec

(* No node is ever in two confirmed pairs, for all trees and profiles.     *)
THEOREM OneToOneHolds == Spec => []ConfirmedOneToOne
BY Invariance, InvOneToOne, PTL

(* A confirmed node is never an endpoint of an ambiguous candidate. *)
THEOREM DisjointHolds == Spec => []AmbiguousNeverConfirmed
BY Invariance, InvDisjoint, PTL

(* Ties never decide a similarity match. *)
THEOREM DominanceHolds == Spec => []ConfirmedDominates
<1>1. IInv => ConfirmedDominates
  BY DEF IInv
<1>2. QED BY Invariance, <1>1, PTL

(* No packaged profile makes a contract of the match graph raise. *)
THEOREM NeverRaisesHolds == Spec => []NeverRaises
<1>1. IInv => NeverRaises
  BY DEF IInv
<1>2. QED BY Invariance, <1>1, PTL
=============================================================================
