--------------------------- MODULE MCLocalization ---------------------------
(* The documents and commands of MCEngine, validated under a few policies. *)
EXTENDS Localization, MCEngine

MCRevisions == {1, 2}

(* Everything translated from the current revision. *)
Current ==
  [authority |-> "SOURCE", threshold |-> 900000, rules |-> {},
   revision |-> [s \in MCNodes |-> 2], synced |-> [t \in MCNodes |-> 2]]

(* Of the elements, one is stale, one current and one unknown. *)
Mixed ==
  [Current EXCEPT !.threshold = 500000,
                  !.synced = [t \in MCNodes |-> CASE t = 2 -> 1 [] t = 4 -> NoValue [] OTHER -> 2],
                  !.authority = "LOCALE"]

(* Locales may leave sections out, or have more of them. *)
Lenient ==
  [Mixed EXCEPT !.rules = {[permits |-> "DELETE", types |-> {"section"}],
                           [permits |-> "INSERT", types |-> {}]}]

MCValidations == {Current, Mixed, Lenient}
=============================================================================
