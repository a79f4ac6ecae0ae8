------------------------------ MODULE Matcher ------------------------------
(***************************************************************************)
(* NodeMatcherService.match (core/matching/matcher.py), one loop iteration *)
(* per step: authoritative ids first, then the scored rows, the ambiguous  *)
(* edges, and the greedy confirmation of each remaining source's single    *)
(* best target in order of decreasing score.  The graph is built at the    *)
(* end; the contracts of core/contracts/matches.py raise instead of        *)
(* building a candidate that breaks them.                                  *)
(*                                                                         *)
(* The two evidence indexes are inputs: variables chosen by Init and never *)
(* changed.  Node references and ids are numbers because the code sorts    *)
(* them.                                                                   *)
(***************************************************************************)
EXTENDS Evidence, FiniteSets

CONSTANTS
  Sources, Targets,    \* node references of the two trees
  Ids,                 \* persistent ids
  SourceInputs,        \* the evidence indexes a job may bring
  TargetInputs,
  AuthoritativeId,     \* PERSISTENT_ID \in authoritative_id_features
  MatchThreshold, ProbableThreshold, AmbiguityMargin

\* The bounds of MatchingProfile and its validator (contracts/profiles.py);
\* references and ids are totally ordered.
ASSUME MatcherAssumption ==
  /\ Sources \subseteq Nat /\ Targets \subseteq Nat /\ Ids \subseteq Nat
  /\ NoValue \notin Ids
  /\ AuthoritativeId \in BOOLEAN
  /\ MatchThreshold \in 0..Scale
  /\ ProbableThreshold \in 0..MatchThreshold
  /\ AmbiguityMargin \in 0..Scale
  /\ \A ev \in SourceInputs :
       DOMAIN ev = Sources /\ \A n \in Sources : ev[n].pid \in Ids \cup {NoValue}
  /\ \A ev \in TargetInputs :
       DOMAIN ev = Targets /\ \A n \in Targets : ev[n].pid \in Ids \cup {NoValue}

VARIABLES
  source, target,      \* evidence.source, evidence.target
  phase,               \* where match() stands
  pendingIds,          \* shared unique ids phase 1 still has to visit
  candidates,          \* the candidates built so far
  rows,                \* scored: per free source, its plausible targets
  edges,               \* the ambiguous (source, target) edges
  confirmable          \* entries the greedy loop still has to visit

vars == <<source, target, phase, pendingIds, candidates, rows, edges, confirmable>>
inputs == <<source, target>>

Phases == {"ids", "ambiguity", "greedy", "build", "returned", "raised"}

Candidate(s, t, state, confidence, alternatives) ==
  [source |-> s, target |-> t, state |-> state,
   confidence |-> confidence, alternatives |-> alternatives]

InState(state) == { c \in candidates : c.state = state }

Confirmed       == { <<c.source, c.target>> : c \in InState("CONFIRMED") }
MatchedSources  == { p[1] : p \in Confirmed }
MatchedTargets  == { p[2] : p \in Confirmed }

Score(s, t)      == Value(source[s], target[t])
Admissible(s, t) == ~HardViolation(source[s], target[t])

-----------------------------------------------------------------------------
(* Rows and edges.  An entry of a row is a target with its value; the row  *)
(* is ordered by decreasing value, then by reference.                      *)

Entry(value, ref) == [value |-> value, ref |-> ref]

Plausible(s) ==
  { t \in Targets \ MatchedTargets :
      Admissible(s, t) /\ Score(s, t) >= ProbableThreshold }

RowOf(s) == { Entry(Score(s, t), t) : t \in Plausible(s) }

Before(a, b) == a.value > b.value \/ (a.value = b.value /\ a.ref <= b.ref)

IsFirst(e, row) == e \in row /\ \A other \in row : Before(e, other)

(* The head of a source's row, when it is good enough to be confirmed. *)
IsTopPick(rs, s, e) == IsFirst(e, rs[s]) /\ e.value >= MatchThreshold

(* Source side: a source whose runner-up is within the margin of its best  *)
(* keeps every target that is.                                             *)
(* Mutant of HasRival: only an equal score is a rival, the margin is not used. *)
MutantHasRival(rs, s) ==
  \E best, rival \in rs[s] :
    /\ IsTopPick(rs, s, best)
    /\ rival # best /\ best.value = rival.value

HasRival(rs, s) ==
  \E best, rival \in rs[s] :
    /\ IsTopPick(rs, s, best)
    /\ rival # best /\ best.value - rival.value <= AmbiguityMargin

NearBest(rs, s, t) ==
  \E best, e \in rs[s] :
    /\ IsTopPick(rs, s, best)
    /\ e.ref = t /\ best.value - e.value <= AmbiguityMargin

SourceSideEdges(rs) ==
  { p \in Sources \X Targets : HasRival(rs, p[1]) /\ NearBest(rs, p[1], p[2]) }

(* Target side: a target that heads the rows of two near-tied sources      *)
(* keeps every source that is within the margin of the leading one.        *)
Contends(rs, s, t, e) == IsTopPick(rs, s, e) /\ e.ref = t

LeadsContenders(rs, s, t, best) ==
  /\ Contends(rs, s, t, best)
  /\ \A other \in Sources : \A e \in rs[other] :
       Contends(rs, other, t, e) => e.value <= best.value

IsClose(rs, s, t, top) ==
  \E e \in rs[s] : Contends(rs, s, t, e) /\ top - e.value <= AmbiguityMargin

(* Mutant of TargetSideEdges: a lone contender needs no rival. *)
MutantTargetSideEdges(rs) ==
  { p \in Sources \X Targets :
      \E leader \in Sources : \E best \in rs[leader] :
        LeadsContenders(rs, leader, p[2], best) /\ IsClose(rs, p[1], p[2], best.value) }

TargetSideEdges(rs) ==
  { p \in Sources \X Targets :
      \E leader \in Sources : \E best \in rs[leader] :
        /\ LeadsContenders(rs, leader, p[2], best)
        /\ \E rival \in Sources \ {leader} : IsClose(rs, rival, p[2], best.value)
        /\ IsClose(rs, p[1], p[2], best.value) }

(* Mutant of AmbiguousEdges: contention for one target is not looked at. *)
MutantAmbiguousEdges(rs) == SourceSideEdges(rs)

AmbiguousEdges(rs) == SourceSideEdges(rs) \cup TargetSideEdges(rs)

AmbiguousSources(es) == { e[1] : e \in es }
AmbiguousTargets(es) == { e[2] : e \in es }

(* The competing edges that share an endpoint with an edge. *)
Alternatives(es, edge) ==
  { e \in es \ {edge} : e[1] = edge[1] \/ e[2] = edge[2] }

Claim(s, e) == [value |-> e.value, source |-> s, ref |-> e.ref]

(* What the greedy loop visits: the top pick of each unambiguous source,   *)
(* unless that target is itself ambiguous.                                 *)
TopPicks(rs, s) == { e \in rs[s] : IsTopPick(rs, s, e) }

(* Mutant of ClaimsOf: an ambiguous target may still be claimed. *)
MutantClaimsOf(rs, s, es) == { Claim(s, e) : e \in TopPicks(rs, s) }

ClaimsOf(rs, s, es) ==
  { c \in { Claim(s, e) : e \in TopPicks(rs, s) } : c.ref \notin AmbiguousTargets(es) }

Confirmable(rs, es) ==
  UNION { ClaimsOf(rs, s, es) : s \in Sources \ AmbiguousSources(es) }

(* Mutant of Earlier: the claims are visited in increasing order of value. *)
MutantEarlier(a, b) ==
  \/ a.value < b.value
  \/ a.value = b.value /\ (a.source < b.source \/ (a.source = b.source /\ a.ref <= b.ref))

Earlier(a, b) ==
  \/ a.value > b.value
  \/ a.value = b.value /\ (a.source < b.source \/ (a.source = b.source /\ a.ref <= b.ref))

-----------------------------------------------------------------------------
SharedUniqueIds(src, tgt) ==
  IF AuthoritativeId THEN UniqueIds(src) \cap UniqueIds(tgt) ELSE {}

Init ==
  /\ source \in SourceInputs
  /\ target \in TargetInputs
  /\ phase = "ids"
  /\ pendingIds = SharedUniqueIds(source, target)
  /\ candidates = {}
  /\ rows = [s \in Sources |-> {}]
  /\ edges = {}
  /\ confirmable = {}

(* The pair of nodes the next id (in sorted order) names. *)
NextIdPair(id, s, t) ==
  /\ phase = "ids" /\ id \in pendingIds
  /\ \A other \in pendingIds : id <= other
  /\ source[s].pid = id /\ target[t].pid = id

(* A shared id on incompatible types is rejected, never confirmed. *)
RejectId(id, s, t) ==
  /\ NextIdPair(id, s, t)
  /\ HardViolation(source[s], target[t])
  /\ candidates' = candidates \cup {Candidate(s, t, "REJECTED", Score(s, t), {})}
  /\ pendingIds' = pendingIds \ {id}
  /\ UNCHANGED <<inputs, phase, rows, edges, confirmable>>

(* A shared id confirms with confidence 1.0 whatever the score says. *)
ConfirmId(id, s, t) ==
  /\ NextIdPair(id, s, t)
  /\ ~HardViolation(source[s], target[t])
  /\ HasEvidence(source[s], target[t])
  /\ candidates' = candidates \cup {Candidate(s, t, "CONFIRMED", Scale, {})}
  /\ pendingIds' = pendingIds \ {id}
  /\ UNCHANGED <<inputs, phase, rows, edges, confirmable>>

(* A profile may make the id authoritative and give it no weight: the pair *)
(* then has no contribution and MatchCandidate refuses to be CONFIRMED.    *)
RaiseId(id, s, t) ==
  /\ NextIdPair(id, s, t)
  /\ ~HardViolation(source[s], target[t])
  /\ ~HasEvidence(source[s], target[t])
  /\ phase' = "raised"
  /\ UNCHANGED <<inputs, pendingIds, candidates, rows, edges, confirmable>>

ScoreRows ==
  /\ phase = "ids" /\ pendingIds = {}
  /\ phase' = "ambiguity"
  /\ rows' = [s \in Sources |-> IF s \in MatchedSources THEN {} ELSE RowOf(s)]
  /\ edges' = AmbiguousEdges(rows')
  /\ UNCHANGED <<inputs, pendingIds, candidates, confirmable>>

EmitAmbiguous ==
  /\ phase = "ambiguity"
  /\ \A e \in edges : /\ HasEvidence(source[e[1]], target[e[2]])
                      /\ Alternatives(edges, e) # {}
  /\ candidates' = candidates \cup
       { Candidate(e[1], e[2], "AMBIGUOUS", Score(e[1], e[2]), Alternatives(edges, e))
           : e \in edges }
  /\ confirmable' = Confirmable(rows, edges)
  /\ phase' = "greedy"
  /\ UNCHANGED <<inputs, pendingIds, rows, edges>>

RaiseAmbiguous ==
  /\ phase = "ambiguity"
  /\ \E e \in edges : \/ ~HasEvidence(source[e[1]], target[e[2]])
                      \/ Alternatives(edges, e) = {}
  /\ phase' = "raised"
  /\ UNCHANGED <<inputs, pendingIds, candidates, rows, edges, confirmable>>

(* The greedy loop visits its entries by decreasing value, then source. *)
NextEntry(c) ==
  /\ phase = "greedy" /\ c \in confirmable
  /\ \A other \in confirmable : Earlier(c, other)

(* Mutant of Taken: only the source is looked up. *)
MutantTaken(c) == c.source \in MatchedSources

Taken(c) == c.source \in MatchedSources \/ c.ref \in MatchedTargets

SkipEntry(c) ==
  /\ NextEntry(c) /\ Taken(c)
  /\ confirmable' = confirmable \ {c}
  /\ UNCHANGED <<inputs, phase, pendingIds, candidates, rows, edges>>

ConfirmEntry(c) ==
  /\ NextEntry(c) /\ ~Taken(c)
  /\ HasEvidence(source[c.source], target[c.ref])
  /\ candidates' = candidates \cup {Candidate(c.source, c.ref, "CONFIRMED", c.value, {})}
  /\ confirmable' = confirmable \ {c}
  /\ UNCHANGED <<inputs, phase, pendingIds, rows, edges>>

RaiseEntry(c) ==
  /\ NextEntry(c) /\ ~Taken(c)
  /\ ~HasEvidence(source[c.source], target[c.ref])
  /\ phase' = "raised"
  /\ UNCHANGED <<inputs, pendingIds, candidates, rows, edges, confirmable>>

OneToOne ==
  \A p, q \in Confirmed : (p[1] = q[1] \/ p[2] = q[2]) => p = q

(* MatchGraph(candidates): its validator refuses a node confirmed twice. *)
BuildGraph ==
  /\ phase = "greedy" /\ confirmable = {}
  /\ phase' = IF OneToOne THEN "returned" ELSE "raised"
  /\ UNCHANGED <<inputs, pendingIds, candidates, rows, edges, confirmable>>

(* match() has returned or raised: nothing runs any more. *)
Ended ==
  /\ phase \in {"returned", "raised"}
  /\ UNCHANGED vars

Next ==
  \/ \E id \in pendingIds, s \in Sources, t \in Targets :
       \/ RejectId(id, s, t)
       \/ ConfirmId(id, s, t)
       \/ RaiseId(id, s, t)
  \/ ScoreRows
  \/ EmitAmbiguous
  \/ RaiseAmbiguous
  \/ \E c \in confirmable :
       \/ SkipEntry(c)
       \/ ConfirmEntry(c)
       \/ RaiseEntry(c)
  \/ BuildGraph
  \/ Ended

Spec == Init /\ [][Next]_vars

-----------------------------------------------------------------------------
(* Properties. *)

Row == SUBSET [value : 0..Scale, ref : Targets]

TypeOK ==
  /\ source \in SourceInputs /\ target \in TargetInputs
  /\ phase \in Phases
  /\ pendingIds \subseteq Ids
  /\ candidates \subseteq
       [source : Sources, target : Targets,
        state : {"CONFIRMED", "AMBIGUOUS", "REJECTED"},
        confidence : 0..Scale, alternatives : SUBSET (Sources \X Targets)]
  /\ rows \in [Sources -> Row]
  /\ edges \subseteq Sources \X Targets
  /\ confirmable \subseteq [value : 0..Scale, source : Sources, ref : Targets]

(* MatchGraph's contract (REQ-255) is kept at every step, not only checked *)
(* at the end: no node is ever in two confirmed pairs, although phase 1,   *)
(* ambiguity and the greedy loop confirm independently of one another.     *)
ConfirmedOneToOne == OneToOne

(* A node that carries a confirmed match is never an endpoint of an        *)
(* ambiguous candidate: the aligner's and the classifier's extra filters   *)
(* on confirmed nodes never have anything to remove.                       *)
AmbiguousNeverConfirmed ==
  \A c \in InState("AMBIGUOUS") :
    c.source \notin MatchedSources /\ c.target \notin MatchedTargets

(* The pair is named by an id that is unique on both sides, and an id      *)
(* settles such a pair unless the types forbid it.                         *)
SharesId(p) ==
  /\ source[p[1]].pid = target[p[2]].pid
  /\ source[p[1]].pid \in SharedUniqueIds(source, target)

ById(p) == SharesId(p) /\ Admissible(p[1], p[2])

(* Ties never decide: a pair confirmed on similarity beats, by more than   *)
(* the ambiguity margin, every rival target of its source and every rival  *)
(* source whose own best is its target, whatever order the greedy loop     *)
(* visited them in (AC-009).                                               *)
ConfirmedDominates ==
  \A p \in Confirmed : ~ById(p) =>
    /\ Score(p[1], p[2]) >= MatchThreshold
    /\ \A e \in rows[p[1]] :
         e.ref # p[2] => Score(p[1], p[2]) - e.value > AmbiguityMargin
    /\ \A s \in Sources \ {p[1]} : \A e \in rows[s] :
         (e.ref = p[2] /\ IsTopPick(rows, s, e))
           => Score(p[1], p[2]) - e.value > AmbiguityMargin

(* With evidence behind the ids and a positive probable threshold (every   *)
(* packaged profile) no contract of the match graph ever raises: the       *)
(* ValueErrors of contracts/matches.py are unreachable from match().       *)
NeverRaises == (WeightId > 0 /\ ProbableThreshold > 0) => phase # "raised"

(* Matching is a policy on the two evidence indexes alone: which loop      *)
(* visits what first, and how references sort, does not show.              *)
Policy == INSTANCE MatchPolicy WITH
            confirmed <- Confirmed, done <- (phase = "returned")

ImplementsPolicy == Policy!Spec
=============================================================================
