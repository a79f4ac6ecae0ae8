------------------------- MODULE MatcherRefinement -------------------------
(***************************************************************************)
(* Matcher implements MatchPolicy: for every pair of evidence indexes and  *)
(* every profile, the loops of match() confirm exactly the pairs that the  *)
(* policy settles, and the order on references does not show.              *)
(***************************************************************************)
EXTENDS MatcherProofs, Inductions

PlausibleTo(s) == { t \in Targets : Policy!Plausible(s, t) }

(* Once the ids are done with, the rows hold exactly the plausible pairs   *)
(* of the nodes that no id identifies.                                     *)
RowsExact ==
  \A s \in Sources : rows[s] = { Entry(Score(s, t), t) : t \in PlausibleTo(s) }

ExactInv ==
  phase \in {"ambiguity", "greedy", "returned"} => pendingIds = {} /\ RowsExact

-----------------------------------------------------------------------------
(* Policy and rows. *)

(* The policy reads the evidence as the matcher does. *)
LEMMA SameReading ==
  /\ \A a, b : Policy!Value(a, b) = Value(a, b)
  /\ \A a, b : Policy!HardViolation(a, b) = HardViolation(a, b)
  /\ \A ev : Policy!UniqueIds(ev) = UniqueIds(ev)
<1>1. \A w, b : Policy!Count(w, b) = Count(w, b)
  BY DEF Policy!Count, Count
<1>2. \A a, b : Policy!Total(a, b) = Total(a, b)
  BY <1>1 DEF Policy!Total, Total
<1>3. /\ \A a : Policy!Signature(a) = Signature(a)
      /\ \A a, b : Policy!SameId(a, b) = SameId(a, b)
      /\ \A a, b : Policy!SameLabel(a, b) = SameLabel(a, b)
  BY DEF Policy!Signature, Signature, Policy!SameId, SameId, Policy!SameLabel, SameLabel
<1>4. \A a, b : Policy!Matched(a, b) = Matched(a, b)
  BY <1>1, <1>3 DEF Policy!Matched, Matched
<1>5. \A a, b : Policy!Value(a, b) = Value(a, b)
  BY <1>2, <1>4 DEF Policy!Value, Value, Policy!Scale, Scale
<1>6. \A a, b : Policy!HardViolation(a, b) = HardViolation(a, b)
  BY DEF Policy!HardViolation, HardViolation
<1>7. \A ev : Policy!UniqueIds(ev) = UniqueIds(ev)
  BY DEF Policy!UniqueIds, UniqueIds, Policy!Duplicated, Duplicated
<1>8. QED BY <1>5, <1>6, <1>7

(* The score of the policy is the score of the rows. *)
LEMMA PolicyScore == \A s, t : Policy!Score(s, t) = Score(s, t)
BY SameReading DEF Policy!Score, Score

(* What the policy reads of the evidence does not change with a step. *)
LEMMA PolicyFixed ==
  ASSUME source' = source, target' = target
  PROVE  /\ \A s : PlausibleTo(s)' = PlausibleTo(s)
         /\ Policy!Identified' = Policy!Identified
         /\ Policy!Settled' = Policy!Settled
<1>1. \A s, t : Policy!Score(s, t)' = Policy!Score(s, t)
  BY DEF Policy!Score
<1>2. Policy!Identified' = Policy!Identified
  BY DEF Policy!Identified
<1>3. \A s, t : Policy!Plausible(s, t)' = Policy!Plausible(s, t)
  BY <1>1, <1>2 DEF Policy!Plausible, Policy!Free
<1>4. \A s, t : Policy!Leads(s, t)' = Policy!Leads(s, t)
  BY <1>1, <1>3 DEF Policy!Leads
<1>5. \A s : Policy!Shortlist(s)' = Policy!Shortlist(s)
  BY <1>1, <1>3, <1>4 DEF Policy!Shortlist
<1>6. QED BY <1>1, <1>2, <1>3, <1>5 DEF Policy!Settled, PlausibleTo

(* The identified pairs are those an id settles. *)
LEMMA IdentifiedById ==
  \A p : p \in Policy!Identified <=> p \in Sources \X Targets /\ ById(p)
<1>1. \A p : SharesId(p) <=> /\ AuthoritativeId
                            /\ source[p[1]].pid = target[p[2]].pid
                            /\ source[p[1]].pid \in UniqueIds(source) \cap UniqueIds(target)
  BY MatcherAssumption DEF SharesId, SharedUniqueIds
<1>2. QED BY <1>1, SameReading DEF Policy!Identified, ById, Admissible

(* An entry of an exact row is a plausible target with its score. *)
LEMMA EntryFacts ==
  ASSUME RowsExact, NEW s \in Sources
  PROVE  /\ \A e \in rows[s] : /\ e.ref \in Targets /\ Policy!Plausible(s, e.ref)
                               /\ e = Entry(Score(s, e.ref), e.ref)
                               /\ e.value = Score(s, e.ref)
         /\ \A t \in Targets : Policy!Plausible(s, t) => Entry(Score(s, t), t) \in rows[s]
BY DEF RowsExact, PlausibleTo, Entry

(* The head of a row, good enough to be confirmed, is a leader. *)
LEMMA TopPickLeads ==
  ASSUME RowsExact, NEW s \in Sources, NEW e \in rows[s], IsTopPick(rows, s, e)
  PROVE  Policy!Leads(s, e.ref)
<1>1. ASSUME NEW u \in Targets, Policy!Plausible(s, u)
      PROVE  Score(s, u) <= Score(s, e.ref)
  <2>1. Entry(Score(s, u), u) \in rows[s]
    BY <1>1, EntryFacts
  <2>2. Before(e, Entry(Score(s, u), u))
    BY <2>1 DEF IsTopPick, IsFirst
  <2>3. e.value = Score(s, e.ref) /\ Entry(Score(s, u), u).value = Score(s, u)
    BY EntryFacts DEF Entry
  <2>4. Score(s, u) \in Nat /\ Score(s, e.ref) \in Nat
    BY ScoreType DEF Score
  <2>5. QED BY <2>2, <2>3, <2>4 DEF Before
<1>2. /\ e.ref \in Targets /\ Policy!Plausible(s, e.ref) /\ e.value = Score(s, e.ref)
      /\ e.value >= MatchThreshold
  BY EntryFacts DEF IsTopPick
<1>3. QED BY <1>1, <1>2, PolicyScore DEF Policy!Leads

(* Where there is a leader, the row has a head that scores as much: the    *)
(* leader with the least reference.                                        *)
LEMMA LeaderTopPick ==
  ASSUME RowsExact, NEW s \in Sources, NEW t \in Targets, Policy!Leads(s, t)
  PROVE  \E e \in rows[s] : IsTopPick(rows, s, e) /\ e.value = Score(s, t)
<1> DEFINE Ties == { u \in Targets : Policy!Plausible(s, u) /\ Score(s, u) = Score(s, t) }
<1>1. Ties \in SUBSET Nat /\ Ties # {}
  BY MatcherAssumption DEF Policy!Leads
<1>2. PICK u \in Ties : \A v \in Ties : u <= v
  BY <1>1, LeastNumber
<1> DEFINE head == Entry(Score(s, u), u)
<1>3. head \in rows[s] /\ head.value = Score(s, t) /\ head.ref = u
  BY <1>2, EntryFacts DEF Entry
<1>4. ASSUME NEW f \in rows[s] PROVE Before(head, f)
  <2>1. f.ref \in Targets /\ Policy!Plausible(s, f.ref) /\ f.value = Score(s, f.ref)
    BY EntryFacts
  <2>2. f.value <= Score(s, t)
    BY <2>1, PolicyScore DEF Policy!Leads
  <2>3. f.value = Score(s, t) => u <= f.ref
    BY <1>2, <2>1
  <2>4. f.value \in Nat /\ Score(s, t) \in Nat
    BY <2>1, ScoreType DEF Score
  <2>5. QED BY <1>3, <2>2, <2>3, <2>4 DEF Before
<1>5. head.value >= MatchThreshold
  BY <1>3, PolicyScore DEF Policy!Leads
<1>6. QED BY <1>3, <1>4, <1>5 DEF IsTopPick, IsFirst

(* The shortlist of a source is what is within the margin of its head. *)
LEMMA ShortlistIsNearBest ==
  ASSUME RowsExact, NEW s \in Sources, NEW u
  PROVE  u \in Policy!Shortlist(s) <=> NearBest(rows, s, u)
<1>1. ASSUME u \in Policy!Shortlist(s) PROVE NearBest(rows, s, u)
  <2>1. PICK t \in Targets : Policy!Leads(s, t) /\ Score(s, t) - Score(s, u) <= AmbiguityMargin
    BY <1>1, PolicyScore DEF Policy!Shortlist
  <2>2. PICK best \in rows[s] : IsTopPick(rows, s, best) /\ best.value = Score(s, t)
    BY <2>1, LeaderTopPick
  <2>3. Entry(Score(s, u), u) \in rows[s]
    BY <1>1, EntryFacts DEF Policy!Shortlist
  <2>4. Entry(Score(s, u), u).value = Score(s, u) /\ Entry(Score(s, u), u).ref = u
    BY DEF Entry
  <2>5. QED BY <2>1, <2>2, <2>3, <2>4 DEF NearBest
<1>2. ASSUME NearBest(rows, s, u) PROVE u \in Policy!Shortlist(s)
  <2>1. PICK best \in rows[s], e \in rows[s] :
          /\ IsTopPick(rows, s, best)
          /\ e.ref = u /\ best.value - e.value <= AmbiguityMargin
    BY <1>2 DEF NearBest
  <2>2. /\ Policy!Leads(s, best.ref) /\ best.ref \in Targets
        /\ u \in Targets /\ Policy!Plausible(s, u)
        /\ best.value = Score(s, best.ref) /\ e.value = Score(s, u)
    BY <2>1, TopPickLeads, EntryFacts
  <2>3. QED BY <2>1, <2>2, PolicyScore DEF Policy!Shortlist
<1>3. QED BY <1>1, <1>2
-----------------------------------------------------------------------------
(* Shortlists and ambiguity. *)

(* The head of a row is on its source's shortlist. *)
LEMMA HeadShortlisted ==
  ASSUME RowsExact, NEW s \in Sources, NEW e \in rows[s], IsTopPick(rows, s, e)
  PROVE  e.ref \in Policy!Shortlist(s)
<1>1. e.value \in Nat
  BY EntryFacts, ScoreType DEF Score
<1>2. e.value - e.value <= AmbiguityMargin
  BY <1>1, MarginType
<1>3. NearBest(rows, s, e.ref)
  BY <1>2 DEF NearBest
<1>4. QED BY <1>3, ShortlistIsNearBest

(* A source has a rival exactly when its shortlist has a second target. *)
LEMMA RivalShortlisted ==
  ASSUME RowsExact, NEW s \in Sources
  PROVE  HasRival(rows, s) <=> \E u, v \in Policy!Shortlist(s) : u # v
<1>1. ASSUME HasRival(rows, s) PROVE \E u, v \in Policy!Shortlist(s) : u # v
  <2>1. PICK best \in rows[s], rival \in rows[s] :
          /\ IsTopPick(rows, s, best) /\ rival # best
          /\ best.value - rival.value <= AmbiguityMargin
    BY <1>1 DEF HasRival
  <2>2. best.ref \in Policy!Shortlist(s)
    BY <2>1, HeadShortlisted
  <2>3. NearBest(rows, s, rival.ref)
    BY <2>1 DEF NearBest
  <2>4. rival.ref \in Policy!Shortlist(s)
    BY <2>3, ShortlistIsNearBest
  <2>5. best.ref # rival.ref
    BY <2>1, EntryFacts
  <2>6. QED BY <2>2, <2>4, <2>5
<1>2. ASSUME NEW u \in Policy!Shortlist(s), NEW v \in Policy!Shortlist(s), u # v
      PROVE  HasRival(rows, s)
  <2>1. NearBest(rows, s, u) /\ NearBest(rows, s, v)
    BY ShortlistIsNearBest
  <2>2. PICK best \in rows[s], e \in rows[s] :
          /\ IsTopPick(rows, s, best)
          /\ e.ref = u /\ best.value - e.value <= AmbiguityMargin
    BY <2>1 DEF NearBest
  <2>3. PICK top \in rows[s], f \in rows[s] :
          /\ IsTopPick(rows, s, top)
          /\ f.ref = v /\ top.value - f.value <= AmbiguityMargin
    BY <2>1 DEF NearBest
  <2>4. e # best \/ f # top \/ e # top
    BY <1>2, <2>2, <2>3
  <2>5. CASE e # best
    BY <2>2, <2>5 DEF HasRival
  <2>6. CASE f # top
    BY <2>3, <2>6 DEF HasRival
  <2>7. CASE e = best /\ f = top
    <3>1. Before(e, f) /\ Before(f, e)
      BY <2>2, <2>3, <2>7 DEF IsTopPick, IsFirst
    <3>2. u \in Nat /\ v \in Nat
      BY MatcherAssumption DEF Policy!Shortlist
    <3>3. e.value \in Nat /\ f.value \in Nat
      BY EntryFacts, ScoreType DEF Score
    <3>4. QED BY <1>2, <2>2, <2>3, <3>1, <3>2, <3>3 DEF Before
  <2>8. QED BY <2>5, <2>6, <2>7
<1>3. QED BY <1>1, <1>2

(* A shortlist of one target is headed by it. *)
LEMMA LoneTargetHeads ==
  ASSUME RowsExact, NEW s \in Sources, NEW t \in Targets, Policy!Shortlist(s) = {t}
  PROVE  /\ Entry(Score(s, t), t) \in rows[s]
         /\ IsTopPick(rows, s, Entry(Score(s, t), t))
<1>1. PICK u \in Targets : Policy!Leads(s, u)
  BY DEF Policy!Shortlist
<1>2. PICK e \in rows[s] : IsTopPick(rows, s, e)
  BY <1>1, LeaderTopPick
<1>3. e.ref = t /\ e = Entry(Score(s, e.ref), e.ref)
  BY <1>2, HeadShortlisted, EntryFacts
<1>4. QED BY <1>2, <1>3

(* A pair confirmed on its score is one the policy settles: the margins    *)
(* that ConfirmedDominates speaks of leave no second target on a shortlist *)
(* and no second source near the target.                                   *)
LEMMA ConfirmedSettled ==
  ASSUME IInv, RowsExact, edges = AmbiguousEdges(rows), NEW p \in Confirmed, ~ById(p)
  PROVE  p \in Policy!Settled
<1> DEFINE s == p[1]
           t == p[2]
           e == Entry(Score(s, t), t)
<1>1. /\ p \in Sources \X Targets /\ s \in Sources /\ t \in Targets
      /\ rows \in [Sources -> Row]
  BY ConfirmedIsPairs DEF ConfirmedType, IInv, TypeOK
<1>2. ClaimOf(p) \in Claims
  BY DEF IInv, ClaimsInv
<1>3. ClaimOf(p).source = s /\ ClaimOf(p).ref = t /\ ClaimOf(p).value = Score(s, t)
  BY DEF ClaimOf, Claim, Entry
<1>4. e.ref = t /\ e.value = Score(s, t)
  BY DEF Entry
<1>5. /\ t \notin AmbiguousTargets(edges)
      /\ e \in rows[s] /\ IsTopPick(rows, s, e)
  BY <1>1, <1>2, <1>3, ClaimFacts DEF Claims
<1> HIDE DEF s, t, e
<1>6. ASSUME NEW x \in Sources, t \in Policy!Shortlist(x)
      PROVE  Policy!Shortlist(x) = {t}
  <2>1. NearBest(rows, x, t)
    BY <1>6, ShortlistIsNearBest
  <2>2. ~HasRival(rows, x)
    <3>1. SUFFICES ASSUME HasRival(rows, x) PROVE FALSE
      OBVIOUS
    <3>2. <<x, t>> \in edges
      BY <1>1, <2>1, <3>1 DEF AmbiguousEdges, SourceSideEdges
    <3>3. QED BY <1>5, <3>2 DEF AmbiguousTargets
  <2>3. QED BY <1>6, <2>2, RivalShortlisted
<1>7. Policy!Shortlist(s) = {t}
  BY <1>1, <1>4, <1>5, <1>6, HeadShortlisted
<1>8. ASSUME NEW x \in Sources \ {s}, t \in Policy!Shortlist(x)
      PROVE  Score(s, t) - Score(x, t) > AmbiguityMargin
  <2>1. Policy!Shortlist(x) = {t}
    BY <1>6, <1>8
  <2>2. /\ Entry(Score(x, t), t) \in rows[x]
        /\ IsTopPick(rows, x, Entry(Score(x, t), t))
    BY <1>1, <2>1, LoneTargetHeads
  <2>3. Entry(Score(x, t), t).ref = t /\ Entry(Score(x, t), t).value = Score(x, t)
    BY DEF Entry
  <2>4. QED BY <2>2, <2>3 DEF IInv, ConfirmedDominates, s, t
<1>9. QED BY <1>1, <1>6, <1>7, <1>8, PolicyScore DEF Policy!Settled, s, t

(* A target that the policy settles is contested by nobody. *)
LEMMA SettledUncontested ==
  ASSUME RowsExact, rows \in [Sources -> Row],
         NEW s \in Sources, NEW t \in Targets, <<s, t>> \in Policy!Settled,
         NEW x \in Sources
  PROVE  <<x, t>> \notin TargetSideEdges(rows)
<1> DEFINE top == Entry(Score(s, t), t)
<1>1. /\ Policy!Shortlist(s) = {t}
      /\ \A y \in Sources \ {s} :
           t \in Policy!Shortlist(y) => Score(s, t) - Score(y, t) > AmbiguityMargin
  BY PolicyScore DEF Policy!Settled
<1>2. top \in rows[s] /\ IsTopPick(rows, s, top)
  BY <1>1, LoneTargetHeads
<1>3. top.ref = t /\ top.value = Score(s, t)
  BY DEF Entry
<1> HIDE DEF top
<1>4. ASSUME NEW y \in Sources \ {s}, NEW e \in rows[y], Contends(rows, y, t, e)
      PROVE  Score(s, t) - e.value > AmbiguityMargin
  BY <1>1, <1>4, HeadShortlisted, EntryFacts DEF Contends
<1>5. SUFFICES ASSUME NEW leader \in Sources, NEW best \in rows[leader],
                      LeadsContenders(rows, leader, t, best),
                      NEW rival \in Sources \ {leader},
                      IsClose(rows, rival, t, best.value)
               PROVE  FALSE
  BY DEF TargetSideEdges
<1>6. /\ Score(s, t) \in Nat /\ AmbiguityMargin \in Nat
      /\ \A y \in Sources : \A e \in rows[y] : e.value \in Nat
  BY ScoreType, MarginType DEF Row, Score
<1>7. CASE leader = s
  <2>1. best = top
    <3>1. rows[s] \in Row
      OBVIOUS
    <3>2. IsFirst(best, rows[s]) /\ IsFirst(top, rows[s])
      BY <1>2, <1>5, <1>7 DEF LeadsContenders, Contends, IsTopPick
    <3>3. QED BY <3>1, <3>2, FirstUnique
  <2>2. PICK e \in rows[rival] :
          Contends(rows, rival, t, e) /\ best.value - e.value <= AmbiguityMargin
    BY <1>5 DEF IsClose
  <2>3. Score(s, t) - e.value > AmbiguityMargin
    BY <1>4, <1>5, <1>7, <2>2
  <2>4. QED BY <1>3, <1>6, <2>1, <2>2, <2>3
<1>8. CASE leader # s
  <2>1. Score(s, t) - best.value > AmbiguityMargin
    BY <1>4, <1>5, <1>8 DEF LeadsContenders
  <2>2. top.value <= best.value
    BY <1>2, <1>3, <1>5 DEF LeadsContenders, Contends
  <2>3. QED BY <1>3, <1>5, <1>6, <2>1, <2>2
<1>9. QED BY <1>7, <1>8

(* The greedy loop gets to visit every pair that the policy settles. *)
LEMMA SettledClaims ==
  ASSUME RowsExact, rows \in [Sources -> Row], NEW p \in Policy!Settled
  PROVE  ClaimOf(p) \in Confirmable(rows, AmbiguousEdges(rows))
<1>1. PICK s \in Sources, t \in Targets : p = <<s, t>>
  BY DEF Policy!Settled
<1> DEFINE top == Entry(Score(s, t), t)
<1>2. /\ Policy!Shortlist(s) = {t}
      /\ \A y \in Sources \ {s} : t \in Policy!Shortlist(y) => Policy!Shortlist(y) = {t}
  BY <1>1 DEF Policy!Settled
<1>3. top \in rows[s] /\ IsTopPick(rows, s, top)
  BY <1>2, LoneTargetHeads
<1>4. top.ref = t
  BY DEF Entry
<1> HIDE DEF top
<1>5. s \notin AmbiguousSources(AmbiguousEdges(rows))
  <2>1. SUFFICES ASSUME NEW u \in Targets, <<s, u>> \in AmbiguousEdges(rows) PROVE FALSE
    BY EdgesType DEF AmbiguousSources
  <2>2. ~HasRival(rows, s)
    BY <1>2, RivalShortlisted
  <2>3. <<s, u>> \in TargetSideEdges(rows)
    BY <2>1, <2>2 DEF AmbiguousEdges, SourceSideEdges
  <2>4. PICK v : IsClose(rows, s, u, v)
    BY <2>3 DEF TargetSideEdges
  <2>5. PICK e \in rows[s] : IsTopPick(rows, s, e) /\ e.ref = u
    BY <2>4 DEF IsClose, Contends
  <2>6. u = t
    BY <1>2, <2>5, HeadShortlisted
  <2>7. QED BY <1>1, <2>3, <2>6, SettledUncontested
<1>6. t \notin AmbiguousTargets(AmbiguousEdges(rows))
  <2>1. SUFFICES ASSUME NEW x \in Sources, <<x, t>> \in AmbiguousEdges(rows) PROVE FALSE
    BY EdgesType DEF AmbiguousTargets
  <2>2. HasRival(rows, x) /\ NearBest(rows, x, t)
    BY <1>1, <2>1, SettledUncontested DEF AmbiguousEdges, SourceSideEdges
  <2>3. t \in Policy!Shortlist(x)
    BY <2>2, ShortlistIsNearBest
  <2>4. Policy!Shortlist(x) = {t}
    BY <1>2, <2>3
  <2>5. QED BY <2>2, <2>4, RivalShortlisted
<1>7. ClaimOf(p) = Claim(s, top) /\ Claim(s, top).ref = t
  BY <1>1, <1>4 DEF ClaimOf, top, Claim
<1>8. QED BY <1>3, <1>5, <1>6, <1>7 DEF Confirmable, ClaimsOf, TopPicks

-----------------------------------------------------------------------------
(* Rows stay exact. *)

(* There is no exact row before the ids are done with. *)
LEMMA ExactInit == Init => ExactInv
BY DEF Init, ExactInv

(* The rows are exact when they are built, since a node is matched by then *)
(* if and only if the policy identifies it; no later step changes them.    *)
LEMMA ExactStep == IInv /\ ExactInv /\ [Next]_vars => ExactInv'
<1> SUFFICES ASSUME IInv, ExactInv, [Next]_vars PROVE ExactInv'
  OBVIOUS
<1>1. CASE ScoreRows
  <2>1. /\ source' = source /\ target' = target /\ phase = "ids"
        /\ pendingIds = {} /\ pendingIds' = {}
    BY <1>1 DEF ScoreRows, inputs
  <2>2. \A p : p \in Policy!Identified <=> p \in Confirmed
    <3>1. \A p \in Confirmed : p \in Sources \X Targets /\ ById(p)
      BY <2>1, ConfirmedIsPairs DEF IInv, PhaseInv, ConfirmedType
    <3>2. \A p \in Sources \X Targets : ById(p) => p \in Confirmed
      BY <2>1 DEF IInv, IdsInv
    <3>3. QED BY <3>1, <3>2, IdentifiedById
  <2>3. \A s, t : Policy!Free(s, t) <=> s \notin MatchedSources /\ t \notin MatchedTargets
    BY <2>2 DEF Policy!Free, MatchedSources, MatchedTargets
  <2>4. \A s, t : Policy!Plausible(s, t) <=>
          /\ s \notin MatchedSources /\ t \notin MatchedTargets
          /\ Admissible(s, t) /\ Score(s, t) >= ProbableThreshold
    BY <2>3, SameReading, PolicyScore DEF Policy!Plausible, Admissible
  <2>5. ASSUME NEW s \in Sources
        PROVE  rows'[s] = { Entry(Score(s, t), t) : t \in PlausibleTo(s) }
    <3>1. rows'[s] = IF s \in MatchedSources THEN {} ELSE RowOf(s)
      BY <1>1 DEF ScoreRows
    <3>2. CASE s \in MatchedSources
      BY <2>4, <3>1, <3>2 DEF PlausibleTo
    <3>3. CASE s \notin MatchedSources
      <4>1. PlausibleTo(s) = Plausible(s)
        BY <2>4, <3>3 DEF PlausibleTo, Plausible
      <4>2. QED BY <3>1, <3>3, <4>1 DEF RowOf
    <3>4. QED BY <3>2, <3>3
  <2>6. \A s, t : Score(s, t)' = Score(s, t)
    BY <2>1, InputsFixed
  <2>7. \A s : PlausibleTo(s)' = PlausibleTo(s)
    BY <2>1, PolicyFixed
  <2>8. RowsExact'
    BY <2>5, <2>6, <2>7 DEF RowsExact
  <2>9. QED BY <2>1, <2>8 DEF ExactInv
<1>2. CASE UNCHANGED <<source, target, rows, pendingIds>> /\
           (phase' \in {"ambiguity", "greedy", "returned"} =>
              phase \in {"ambiguity", "greedy", "returned"})
  <2>1. \A s, t : Score(s, t)' = Score(s, t)
    BY <1>2, InputsFixed
  <2>2. \A s : PlausibleTo(s)' = PlausibleTo(s)
    BY <1>2, PolicyFixed
  <2>3. RowsExact => RowsExact'
    BY <1>2, <2>1, <2>2 DEF RowsExact
  <2>4. QED BY <1>2, <2>3 DEF ExactInv
<1>3. CASE phase' \notin {"ambiguity", "greedy", "returned"}
  BY <1>3 DEF ExactInv
<1>4. CASE \E id \in pendingIds, s \in Sources, t \in Targets :
             RejectId(id, s, t) \/ ConfirmId(id, s, t) \/ RaiseId(id, s, t)
  BY <1>3, <1>4 DEF RejectId, ConfirmId, RaiseId, NextIdPair
<1>5. CASE EmitAmbiguous \/ RaiseAmbiguous
  BY <1>2, <1>3, <1>5 DEF EmitAmbiguous, RaiseAmbiguous, inputs
<1>6. CASE \E c \in confirmable : SkipEntry(c) \/ ConfirmEntry(c) \/ RaiseEntry(c)
  BY <1>2, <1>3, <1>6 DEF SkipEntry, ConfirmEntry, RaiseEntry, inputs
<1>7. CASE BuildGraph
  BY <1>2, <1>7 DEF BuildGraph, inputs
<1>8. CASE UNCHANGED vars
  BY <1>2, <1>8 DEF vars
<1>9. QED BY <1>1, <1>4, <1>5, <1>6, <1>7, <1>8 DEF Next, Ended

-----------------------------------------------------------------------------
(* Every step of match() is a step of the policy, or none. *)

(* A step that confirms nothing and does not return is no step of the      *)
(* policy.                                                                 *)
LEMMA Stutters ==
  ASSUME UNCHANGED <<source, target>>, Confirmed' = Confirmed,
         (phase' = "returned") <=> (phase = "returned")
  PROVE  UNCHANGED Policy!vars
BY DEF Policy!vars

(* Nothing is confirmed, nothing is done. *)
LEMMA RefinesInit == Init => Policy!Init
<1> SUFFICES ASSUME Init PROVE Policy!Init
  OBVIOUS
<1>1. Confirmed = {}
  BY DEF Init, Confirmed, InState
<1>2. QED BY <1>1 DEF Init, Policy!Init

(* Confirming by id is identifying. *)
LEMMA ConfirmIdIdentifies ==
  ASSUME IInv, NEW id \in pendingIds, NEW s \in Sources, NEW t \in Targets,
         ConfirmId(id, s, t)
  PROVE  [Policy!Next]_(Policy!vars)
<1>1. /\ Confirmed' = Confirmed \cup {<<s, t>>}
      /\ source' = source /\ target' = target /\ phase' = phase
  BY AddCandidate DEF ConfirmId, inputs
<1>2. <<s, t>> \in Policy!Identified
  BY NextIdShared, IdentifiedById DEF ConfirmId, ById, Admissible
<1>3. CASE <<s, t>> \in Confirmed
  BY <1>1, <1>3 DEF Policy!vars
<1>4. CASE <<s, t>> \notin Confirmed
  BY <1>1, <1>2, <1>4 DEF Policy!Next, Policy!Identify, Policy!Confirm
<1>5. QED BY <1>3, <1>4

ConfirmedAreSettled ==
  IInv /\ ExactInv /\ phase = "greedy" =>
    \A p \in Confirmed : ~ById(p) => p \in Policy!Settled

(* What the greedy loop has confirmed is what the policy settles. *)
LEMMA ConfirmedAreSettledHolds == ConfirmedAreSettled
BY ConfirmedSettled DEF ConfirmedAreSettled, ExactInv, IInv, PhaseInv

(* Confirming a claim is settling. *)
LEMMA ConfirmEntrySettles ==
  ASSUME IInv, ExactInv, IInv', ExactInv', NEW c \in confirmable, ConfirmEntry(c)
  PROVE  [Policy!Next]_(Policy!vars)
<1> DEFINE pair == <<c.source, c.ref>>
<1>1. /\ Confirmed' = Confirmed \cup {pair}
      /\ source' = source /\ target' = target /\ phase' = phase
      /\ rows' = rows /\ edges' = edges /\ phase = "greedy"
  BY AddCandidate DEF ConfirmEntry, NextEntry, inputs
<1>2. /\ c \in Claims /\ TypeOK /\ RowsInv /\ rows \in [Sources -> Row]
      /\ c.source \in Sources /\ c.ref \in Targets
  BY ConfirmableType DEF IInv, ClaimsInv, TypeOK, Claims
<1>3. pair \notin Confirmed
  BY DEF ConfirmEntry, Taken, MatchedSources
<1>4. ~ById(pair)
  BY <1>2, ClaimScore
<1>5. Policy!Identified \subseteq Confirmed
  BY <1>1, IdentifiedById DEF ExactInv, IInv, IdsInv
<1>6. pair \in Policy!Settled
  <2>1. ConfirmedAreSettled'
    BY ConfirmedAreSettledHolds, PTL
  <2>2. ~ById(pair)' /\ pair \in Confirmed' /\ phase' = "greedy"
    BY <1>1, <1>4, InputsFixed
  <2>3. pair \in Policy!Settled'
    BY <2>1, <2>2 DEF ConfirmedAreSettled
  <2>4. QED BY <1>1, <2>3, PolicyFixed
<1>7. QED BY <1>1, <1>2, <1>3, <1>5, <1>6 DEF Policy!Next, Policy!Settle, Policy!Confirm

(* When match() returns, everything identified and everything settled has  *)
(* been confirmed: the claim of a settled pair has been visited, and what  *)
(* took its target can only be that pair.                                  *)
LEMMA BuildGraphComplete ==
  ASSUME IInv, ExactInv, BuildGraph
  PROVE  Confirmed = Policy!Identified \cup Policy!Settled
<1>1. /\ UNCHANGED <<source, target, candidates>>
      /\ phase = "greedy" /\ phase' = "returned" /\ confirmable = {}
  BY InvOneToOne DEF BuildGraph, ConfirmedOneToOne, inputs
<1>2. /\ Confirmed' = Confirmed
      /\ RowsExact /\ rows \in [Sources -> Row] /\ TypeOK /\ RowsInv
      /\ edges = AmbiguousEdges(rows)
  BY <1>1 DEF Confirmed, InState, ExactInv, IInv, PhaseInv, TypeOK
<1>3. Policy!Identified \subseteq Confirmed
  BY <1>1, IdentifiedById DEF ExactInv, IInv, IdsInv
<1>4. ASSUME NEW p \in Policy!Settled PROVE p \in Confirmed
  <2>1. p \in Sources \X Targets /\ ClaimOf(p) \in Claims
    BY <1>2, SettledClaims DEF Claims, Policy!Settled
  <2>2. ClaimOf(p).source = p[1] /\ ClaimOf(p).ref = p[2]
    BY DEF ClaimOf, Claim, Entry
  <2>3. PICK q \in Confirmed : q[2] = p[2]
    BY <1>1, <2>1, <2>2 DEF IInv, ClaimsInv, MatchedTargets
  <2>4. q \in Sources \X Targets
    BY <1>2, ConfirmedIsPairs DEF ConfirmedType
  <2>5. ~ById(q)
    BY <1>2, <2>1, <2>2, <2>3, <2>4, ClaimScore
  <2>6. q \in Policy!Settled
    BY <1>2, <2>5, ConfirmedSettled
  <2>7. q[1] = p[1]
    <3>1. SUFFICES ASSUME q[1] # p[1] PROVE FALSE
      OBVIOUS
    <3>2. p[2] \in Policy!Shortlist(p[1]) /\ p[2] \in Policy!Shortlist(q[1])
      BY <2>3, <2>6 DEF Policy!Settled
    <3>3. /\ Score(p[1], p[2]) - Score(q[1], p[2]) > AmbiguityMargin
          /\ Score(q[1], p[2]) - Score(p[1], p[2]) > AmbiguityMargin
      BY <2>1, <2>3, <2>4, <2>6, <3>1, <3>2, PolicyScore DEF Policy!Settled
    <3>4. /\ Score(p[1], p[2]) \in Nat /\ Score(q[1], p[2]) \in Nat
          /\ AmbiguityMargin \in Nat
      BY ScoreType, MarginType DEF Score
    <3>5. QED BY <3>3, <3>4
  <2>8. QED BY <2>1, <2>3, <2>4, <2>7
<1>5. ASSUME NEW p \in Confirmed PROVE p \in Policy!Identified \cup Policy!Settled
  BY <1>2, ConfirmedIsPairs, ConfirmedSettled, IdentifiedById DEF ConfirmedType
<1>6. QED BY <1>3, <1>4, <1>5

(* So returning is finishing.                                              *)
LEMMA BuildGraphFinishes ==
  ASSUME IInv, ExactInv, BuildGraph
  PROVE  [Policy!Next]_(Policy!vars)
<1>1. /\ UNCHANGED <<source, target, candidates>>
      /\ phase = "greedy" /\ phase' = "returned"
  BY InvOneToOne DEF BuildGraph, ConfirmedOneToOne, inputs
<1>2. Confirmed' = Confirmed
  BY <1>1 DEF Confirmed, InState
<1>3. QED BY <1>1, <1>2, BuildGraphComplete DEF Policy!Next, Policy!Finish

(* The steps of match(), one by one. *)
LEMMA RefinesNext ==
  IInv /\ ExactInv /\ IInv' /\ ExactInv' /\ [Next]_vars => [Policy!Next]_(Policy!vars)
<1> SUFFICES ASSUME IInv, ExactInv, IInv', ExactInv', [Next]_vars
             PROVE  [Policy!Next]_(Policy!vars)
  OBVIOUS
<1>1. ASSUME NEW id \in pendingIds, NEW s \in Sources, NEW t \in Targets,
             RejectId(id, s, t)
      PROVE  UNCHANGED Policy!vars
  <2>1. Confirmed' = Confirmed
    BY <1>1, AddCandidate DEF RejectId
  <2>2. QED BY <1>1, <2>1, Stutters DEF RejectId, inputs
<1>2. CASE UNCHANGED <<source, target, candidates>> /\
           ((phase' = "returned") <=> (phase = "returned"))
  <2>1. Confirmed' = Confirmed
    BY <1>2 DEF Confirmed, InState
  <2>2. QED BY <1>2, <2>1, Stutters
<1>3. CASE EmitAmbiguous
  <2>1. InState("CONFIRMED")' = InState("CONFIRMED")
    BY <1>3 DEF EmitAmbiguous, InState, Candidate
  <2>2. Confirmed' = Confirmed
    BY <2>1 DEF Confirmed
  <2>3. QED BY <1>3, <2>2, Stutters DEF EmitAmbiguous, inputs
<1>4. CASE \E id \in pendingIds, s \in Sources, t \in Targets : ConfirmId(id, s, t)
  BY <1>4, ConfirmIdIdentifies
<1>5. CASE \E c \in confirmable : ConfirmEntry(c)
  BY <1>5, ConfirmEntrySettles
<1>6. CASE \E id \in pendingIds, s \in Sources, t \in Targets : RaiseId(id, s, t)
  BY <1>2, <1>6 DEF RaiseId, NextIdPair, inputs
<1>7. CASE \E c \in confirmable : SkipEntry(c) \/ RaiseEntry(c)
  BY <1>2, <1>7 DEF SkipEntry, RaiseEntry, NextEntry, inputs
<1>8. CASE ScoreRows \/ RaiseAmbiguous \/ UNCHANGED vars
  BY <1>2, <1>8 DEF ScoreRows, RaiseAmbiguous, inputs, vars
<1>9. QED BY <1>1, <1>3, <1>4, <1>5, <1>6, <1>7, <1>8, BuildGraphFinishes DEF Next, Ended

(* For all trees and profiles, match() is the policy: it confirms exactly  *)
(* the identified and the settled pairs, and neither the order of the      *)
(* greedy loop nor the order on references shows.                          *)
THEOREM PolicyImplemented == Spec => ImplementsPolicy
<1>1. IInv /\ ExactInv /\ [Next]_vars => (IInv /\ ExactInv)'
  BY StepInv, ExactStep
<1>2. IInv /\ ExactInv /\ (IInv /\ ExactInv)' /\ [Next]_vars => [Policy!Next]_(Policy!vars)
  BY RefinesNext
<1>3. Init => IInv /\ ExactInv
  BY InitInv, ExactInit
<1>4. QED BY <1>1, <1>2, <1>3, RefinesInit, PTL DEF Spec, ImplementsPolicy, Policy!Spec

-----------------------------------------------------------------------------
(* What match() returns. *)

(* Every ambiguous edge has become a candidate, and what is confirmed is   *)
(* what the policy says.                                                   *)
OutcomeInv ==
  /\ phase \in {"greedy", "returned"} =>
       \A e \in edges : \E c \in InState("AMBIGUOUS") : c.source = e[1] /\ c.target = e[2]
  /\ phase = "returned" => Confirmed = Policy!Identified \cup Policy!Settled

(* It has not returned yet.                                                *)
LEMMA OutcomeInit == Init => OutcomeInv
BY DEF Init, OutcomeInv

(* Every step keeps what it will return.                                   *)
LEMMA OutcomeStep == IInv /\ ExactInv /\ OutcomeInv /\ [Next]_vars => OutcomeInv'
<1> SUFFICES ASSUME IInv, ExactInv, OutcomeInv, [Next]_vars PROVE OutcomeInv'
  OBVIOUS
<1>1. CASE phase' \notin {"greedy", "returned"}
  BY <1>1 DEF OutcomeInv
<1>2. CASE EmitAmbiguous
  <2>1. phase' = "greedy" /\ edges' = edges
    BY <1>2 DEF EmitAmbiguous
  <2>2. ASSUME NEW e \in edges
        PROVE  \E c \in InState("AMBIGUOUS")' : c.source = e[1] /\ c.target = e[2]
    <3> DEFINE c == Candidate(e[1], e[2], "AMBIGUOUS", Score(e[1], e[2]), Alternatives(edges, e))
    <3>1. c \in candidates'
      BY <1>2 DEF EmitAmbiguous
    <3>2. c.state = "AMBIGUOUS" /\ c.source = e[1] /\ c.target = e[2]
      BY DEF Candidate
    <3>3. QED BY <3>1, <3>2 DEF InState
  <2>3. QED BY <2>1, <2>2 DEF OutcomeInv
<1>3. CASE BuildGraph
  <2>1. /\ phase = "greedy" /\ phase' = "returned"
        /\ UNCHANGED <<source, target, candidates, edges>>
    BY <1>3, InvOneToOne DEF BuildGraph, ConfirmedOneToOne, inputs
  <2>2. Confirmed' = Confirmed /\ InState("AMBIGUOUS")' = InState("AMBIGUOUS")
    BY <2>1 DEF Confirmed, InState
  <2>3. QED BY <1>3, <2>1, <2>2, BuildGraphComplete, PolicyFixed DEF OutcomeInv
<1>4. CASE \E c \in confirmable : SkipEntry(c) \/ ConfirmEntry(c)
  <2>1. /\ phase' = "greedy" /\ phase = "greedy" /\ edges' = edges
        /\ candidates \subseteq candidates'
    BY <1>4 DEF SkipEntry, ConfirmEntry, NextEntry
  <2>2. InState("AMBIGUOUS") \subseteq InState("AMBIGUOUS")'
    BY <2>1 DEF InState
  <2>3. QED BY <2>1, <2>2 DEF OutcomeInv
<1>5. CASE UNCHANGED vars
  <2>1. Confirmed' = Confirmed /\ InState("AMBIGUOUS")' = InState("AMBIGUOUS")
    BY <1>5 DEF Confirmed, InState, vars
  <2>2. QED BY <1>5, <2>1, PolicyFixed DEF OutcomeInv, vars
<1>6. CASE \E id \in pendingIds, s \in Sources, t \in Targets :
             RejectId(id, s, t) \/ ConfirmId(id, s, t) \/ RaiseId(id, s, t)
  BY <1>1, <1>6 DEF RejectId, ConfirmId, RaiseId, NextIdPair
<1>7. CASE \/ ScoreRows \/ RaiseAmbiguous
           \/ \E c \in confirmable : RaiseEntry(c)
  BY <1>1, <1>7 DEF ScoreRows, RaiseAmbiguous, RaiseEntry
<1>8. QED BY <1>2, <1>3, <1>4, <1>5, <1>6, <1>7 DEF Next, Ended

-----------------------------------------------------------------------------
(* A tree matched with itself. *)

(* A node and itself always share something that has weight.               *)
SelfScored == WeightSignature + WeightChildren > 0

(* Then a node and itself score 1.0.                                       *)
LEMMA SelfScore ==
  ASSUME SelfScored, NEW n
  PROVE  Value(n, n) = Scale
<1> DEFINE total == Total(n, n)
<1>1. Matched(n, n) = total
  <2>1. SameId(n, n) <=> (n.pid # NoValue \/ n.pid # NoValue)
    BY DEF SameId
  <2>2. SameLabel(n, n) <=> (n.label # NoValue \/ n.label # NoValue)
    BY DEF SameLabel
  <2>3. \A w : /\ Count(w, SameId(n, n)) = Count(w, n.pid # NoValue \/ n.pid # NoValue)
               /\ Count(w, SameLabel(n, n)) = Count(w, n.label # NoValue \/ n.label # NoValue)
    BY <2>1, <2>2 DEF Count
  <2>4. \A w : /\ Count(w, Signature(n) = Signature(n)) = w
               /\ Count(w, n.kids = n.kids) = w
    BY DEF Count
  <2>5. QED BY <2>3, <2>4 DEF Matched, Total
<1>2. total \in Nat \ {0}
  <2>1. \A w \in Nat, b \in BOOLEAN : Count(w, b) \in Nat
    BY DEF Count
  <2>2. /\ Count(WeightId, n.pid # NoValue \/ n.pid # NoValue) \in Nat
        /\ Count(WeightLabel, n.label # NoValue \/ n.label # NoValue) \in Nat
    BY <2>1, WeightAssumption
  <2>3. QED BY <2>2, WeightAssumption DEF Total, SelfScored
<1> HIDE DEF total
<1>3. ASSUME NEW d \in Nat \ {0}, NEW q \in Nat PROVE (2 * q * d + d) \div (2 * d) = q
  <2> DEFINE m == 2 * q * d + d
             r == m \div (2 * d)
  <2>1. m \in Nat /\ 2 * d \in Nat \ {0}
    OBVIOUS
  <2>2. r \in Nat /\ (2 * d) * r <= m /\ m < (2 * d) * (r + 1)
    BY <2>1
  <2>3. m = (2 * d) * q + d
    OBVIOUS
  <2> HIDE DEF m, r
  <2>4. \A x, y \in Nat : x >= y + 1 => (2 * d) * x >= (2 * d) * (y + 1)
    BY <2>1
  <2>5. \A y \in Nat : (2 * d) * (y + 1) = (2 * d) * y + 2 * d
    OBVIOUS
  <2>6. ~(q >= r + 1)
    BY <2>1, <2>2, <2>3, <2>4, <2>5
  <2>7. ~(r >= q + 1)
    BY <2>1, <2>2, <2>3, <2>4, <2>5
  <2>8. r = q
    BY <2>2, <2>6, <2>7
  <2>9. QED BY <2>8 DEF m, r
<1>4. (2 * Scale * total + total) \div (2 * total) = Scale
  BY <1>2, <1>3, MarginType
<1>5. QED BY <1>1, <1>2, <1>4 DEF Value, total

(* The score of two nodes does not depend on which of them is the source.  *)
LEMMA ScoreSymmetric == \A a, b : Value(a, b) = Value(b, a)
<1>1. TAKE a, b
<1>2. /\ SameId(a, b) <=> SameId(b, a)
      /\ SameLabel(a, b) <=> SameLabel(b, a)
      /\ (Signature(a) = Signature(b)) <=> (Signature(b) = Signature(a))
      /\ (a.kids = b.kids) <=> (b.kids = a.kids)
  BY DEF SameId, SameLabel
<1>3. Matched(a, b) = Matched(b, a)
  BY <1>2 DEF Matched, Count
<1>4. Total(a, b) = Total(b, a)
  BY DEF Total, Count
<1>5. QED BY <1>3, <1>4 DEF Value

(* No id identifies a node with another, and a node that no id identifies  *)
(* is a leader for itself.                                                 *)
LEMMA SelfLeads ==
  ASSUME TypeOK, source = target, SelfScored
  PROVE  /\ Sources = Targets
         /\ \A p \in Policy!Identified : p \in Sources \X Sources /\ p[1] = p[2]
         /\ \A n \in Sources : <<n, n>> \in Policy!Identified \/ Policy!Leads(n, n)
         /\ \A n \in Sources : Score(n, n) = Scale
<1>1. DOMAIN source = Sources /\ Sources = Targets
  BY MatcherAssumption DEF TypeOK
<1>2. ASSUME NEW p \in Policy!Identified PROVE p \in Sources \X Sources /\ p[1] = p[2]
  <2>1. /\ p \in Sources \X Sources /\ source[p[1]].pid = source[p[2]].pid
        /\ source[p[1]].pid \in UniqueIds(source)
    BY <1>1, SameReading DEF Policy!Identified
  <2>2. source[p[1]].pid \notin Duplicated(source) /\ source[p[1]].pid # NoValue
    BY <2>1 DEF UniqueIds
  <2>3. QED BY <1>1, <2>1, <2>2 DEF Duplicated
<1>3. \A n \in Sources : Score(n, n) = Scale
  BY SelfScore DEF Score
<1>4. ASSUME NEW n \in Sources, <<n, n>> \notin Policy!Identified PROVE Policy!Leads(n, n)
  <2>1. Policy!Free(n, n)
    <3>1. SUFFICES ASSUME NEW p \in Policy!Identified, p[1] = n \/ p[2] = n PROVE FALSE
      BY DEF Policy!Free
    <3>2. p = <<n, n>>
      BY <1>2, <3>1
    <3>3. QED BY <1>4, <3>2
  <2>2. ~HardViolation(source[n], target[n])
    BY DEF HardViolation
  <2>3. \A u : Score(n, u) \in 0..Scale
    BY ScoreType DEF Score
  <2>4. MatchThreshold \in 0..Scale /\ ProbableThreshold \in 0..MatchThreshold /\ Scale \in Nat
    BY MatcherAssumption, MarginType
  <2>5. Policy!Plausible(n, n)
    BY <1>3, <2>1, <2>2, <2>4, PolicyScore, SameReading DEF Policy!Plausible
  <2>6. QED BY <1>3, <2>3, <2>4, <2>5, PolicyScore DEF Policy!Leads
<1>5. QED BY <1>1, <1>2, <1>3, <1>4

(* Two nodes that cannot be told apart are on the shortlists of each       *)
(* other.                                                                  *)
LEMMA ShortlistSymmetric ==
  ASSUME TypeOK, source = target, SelfScored,
         NEW u \in Sources, NEW v \in Policy!Shortlist(u)
  PROVE  u \in Policy!Shortlist(v) /\ u \in Policy!Shortlist(u)
<1>1. /\ v \in Sources /\ Policy!Plausible(u, v) /\ Policy!Free(u, v)
      /\ Sources = Targets
  BY SelfLeads DEF Policy!Shortlist, Policy!Plausible
<1>2. Policy!Leads(u, u) /\ Policy!Leads(v, v)
  BY <1>1, SelfLeads DEF Policy!Free
<1>3. PICK t \in Targets : Policy!Leads(u, t) /\ Score(u, t) - Score(u, v) <= AmbiguityMargin
  BY PolicyScore DEF Policy!Shortlist
<1>4. Policy!Plausible(v, u)
  <2>1. Policy!Free(v, u)
    BY <1>1, SelfLeads DEF Policy!Free
  <2>2. ~HardViolation(source[v], target[u])
    BY <1>1, SameReading DEF Policy!Plausible, HardViolation
  <2>3. Score(v, u) = Score(u, v)
    BY ScoreSymmetric DEF Score
  <2>4. QED BY <1>1, <2>1, <2>2, <2>3, PolicyScore, SameReading DEF Policy!Plausible
<1>5. /\ Score(v, u) = Score(u, v) /\ Score(u, u) = Scale /\ Score(v, v) = Scale
      /\ Score(u, v) \in Nat /\ Score(u, t) \in Nat /\ Scale \in Nat /\ AmbiguityMargin \in Nat
  BY <1>1, ScoreSymmetric, SelfLeads, ScoreType, MarginType DEF Score
<1>6. Score(u, t) >= Scale
  BY <1>1, <1>2, <1>3, <1>5, PolicyScore DEF Policy!Leads
<1>7. Score(v, v) - Score(v, u) <= AmbiguityMargin
  BY <1>3, <1>5, <1>6
<1>8. Score(u, u) - Score(u, u) <= AmbiguityMargin
  BY <1>5
<1>9. QED BY <1>1, <1>2, <1>4, <1>7, <1>8, PolicyScore DEF Policy!Shortlist, Policy!Leads

(* A node is confirmed with itself or not at all, and when it is not       *)
(* confirmed it is an ambiguous candidate for itself: no node of a tree    *)
(* compared with itself is left without a candidate.                       *)
LEMMA SelfMatched ==
  ASSUME IInv, ExactInv, OutcomeInv, phase = "returned", source = target, SelfScored
  PROVE  /\ \A p \in Confirmed : p[1] = p[2]
         /\ \A n \in Sources :
              \/ <<n, n>> \in Confirmed
              \/ \E c \in InState("AMBIGUOUS") : c.source = n /\ c.target = n
<1>1. /\ TypeOK /\ RowsExact /\ Sources = Targets
      /\ edges = AmbiguousEdges(rows)
      /\ Confirmed = Policy!Identified \cup Policy!Settled
      /\ \A e \in edges : \E c \in InState("AMBIGUOUS") : c.source = e[1] /\ c.target = e[2]
  BY SelfLeads DEF IInv, PhaseInv, ExactInv, OutcomeInv
<1>2. ASSUME NEW p \in Policy!Settled PROVE p[1] = p[2]
  <2>1. p[1] \in Sources /\ Policy!Shortlist(p[1]) = {p[2]}
    BY DEF Policy!Settled
  <2>2. p[1] \in Policy!Shortlist(p[1])
    BY <1>1, <2>1, ShortlistSymmetric
  <2>3. QED BY <2>1, <2>2
<1>3. ASSUME NEW n \in Sources, <<n, n>> \notin Confirmed
      PROVE  \E c \in InState("AMBIGUOUS") : c.source = n /\ c.target = n
  <2>1. Policy!Leads(n, n)
    BY <1>1, <1>3, SelfLeads
  <2>2. Score(n, n) \in Nat /\ AmbiguityMargin \in Nat
    BY ScoreType, MarginType DEF Score
  <2>3. n \in Policy!Shortlist(n)
    BY <1>1, <2>1, <2>2, PolicyScore DEF Policy!Shortlist, Policy!Leads
  <2>4. Policy!Shortlist(n) # {n}
    <3>1. SUFFICES ASSUME Policy!Shortlist(n) = {n} PROVE <<n, n>> \in Policy!Settled
      BY <1>1, <1>3
    <3>2. ASSUME NEW s \in Sources \ {n}, n \in Policy!Shortlist(s) PROVE FALSE
      BY <1>1, <3>1, <3>2, ShortlistSymmetric
    <3>3. QED BY <1>1, <3>1, <3>2 DEF Policy!Settled
  <2>5. HasRival(rows, n)
    BY <1>1, <2>3, <2>4, RivalShortlisted
  <2>6. NearBest(rows, n, n)
    BY <1>1, <2>3, ShortlistIsNearBest
  <2>7. <<n, n>> \in edges
    BY <1>1, <2>5, <2>6 DEF AmbiguousEdges, SourceSideEdges
  <2>8. QED BY <1>1, <2>7
<1>4. QED BY <1>1, <1>2, <1>3, SelfLeads
=============================================================================
