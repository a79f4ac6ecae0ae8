---------------------------- MODULE MatchPolicy ----------------------------
(***************************************************************************)
(* What matching promises (docs/design/matching.md, the docstrings of      *)
(* core/matching/matcher.py), said without an algorithm: which pairs two   *)
(* evidence indexes settle.  Pairs are confirmed one at a time, in any     *)
(* order within a stage; nothing here depends on how references sort.      *)
(***************************************************************************)
EXTENDS Evidence

CONSTANTS
  Sources, Targets, SourceInputs, TargetInputs, AuthoritativeId,
  MatchThreshold, ProbableThreshold, AmbiguityMargin

VARIABLES source, target, confirmed, done

vars == <<source, target, confirmed, done>>

Score(s, t) == Value(source[s], target[t])

(* Pairs identified by an id that is unique on both sides. *)
Identified ==
  { p \in Sources \X Targets :
      /\ AuthoritativeId
      /\ source[p[1]].pid = target[p[2]].pid
      /\ source[p[1]].pid \in UniqueIds(source) \cap UniqueIds(target)
      /\ ~HardViolation(source[p[1]], target[p[2]]) }

Free(s, t) == \A p \in Identified : p[1] # s /\ p[2] # t

Plausible(s, t) ==
  /\ Free(s, t)
  /\ ~HardViolation(source[s], target[t])
  /\ Score(s, t) >= ProbableThreshold

(* t is one of the best targets of s, and good enough to confirm. *)
Leads(s, t) ==
  /\ Plausible(s, t) /\ Score(s, t) >= MatchThreshold
  /\ \A u \in Targets : Plausible(s, u) => Score(s, u) <= Score(s, t)

(* The targets of s that cannot be told from its best within the margin. *)
Shortlist(s) ==
  { u \in Targets : /\ Plausible(s, u)
                    /\ \E t \in Targets :
                         Leads(s, t) /\ Score(s, t) - Score(s, u) <= AmbiguityMargin }

(* s has one target only, and nobody else comes near it for that target. *)
Settled ==
  { p \in Sources \X Targets :
      /\ Shortlist(p[1]) = {p[2]}
      /\ \A s \in Sources \ {p[1]} :
           p[2] \in Shortlist(s) =>
             /\ Shortlist(s) = {p[2]}
             /\ Score(p[1], p[2]) - Score(s, p[2]) > AmbiguityMargin }

Init ==
  /\ source \in SourceInputs /\ target \in TargetInputs
  /\ confirmed = {} /\ done = FALSE

Confirm(p) ==
  /\ p \notin confirmed
  /\ confirmed' = confirmed \cup {p}
  /\ UNCHANGED <<source, target, done>>

Identify(p) == Confirm(p) /\ p \in Identified

Settle(p) == Confirm(p) /\ Identified \subseteq confirmed /\ p \in Settled

(* Done only when every identified and every settled pair is confirmed. *)
Finish ==
  /\ ~done /\ done' = TRUE
  /\ confirmed = Identified \cup Settled
  /\ UNCHANGED <<source, target, confirmed>>

Next ==
  \/ \E p \in Sources \X Targets : Identify(p) \/ Settle(p)
  \/ Finish

Spec == Init /\ [][Next]_vars
=============================================================================
