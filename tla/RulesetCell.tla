---------------------------- MODULE RulesetCell ----------------------------
(***************************************************************************)
(* What the daemon promises to whoever scans text: one cell holding the     *)
(* active ruleset.  The cell may be filled and replaced by any legitimate   *)
(* ruleset, but it is only open for scans while it is filled, and it is     *)
(* emptied only by closing it.                                              *)
(***************************************************************************)
CONSTANTS Rulesets,     \* the rulesets a daemon may legitimately enforce
          NoRuleset     \* the empty cell

VARIABLES active,       \* scanner._ruleset of the daemon process
          serving       \* TRUE once its socket is served

vars == <<active, serving>>

Init == active = NoRuleset /\ serving = FALSE

\* scanner.set_ruleset: one reference assignment.
Install(r) == active' = r /\ UNCHANGED serving

\* The daemon starts answering; the patterns were loaded first.
OpenUnloaded ==
  /\ ~serving
  /\ serving' = TRUE
  /\ UNCHANGED active
Open ==
  /\ ~serving
  /\ active # NoRuleset
  /\ serving' = TRUE
  /\ UNCHANGED active

\* The process is gone, and its memory with it.
Stop == active' = NoRuleset /\ serving' = FALSE

Next == (\E r \in Rulesets : Install(r)) \/ Open \/ Stop

Spec == Init /\ [][Next]_vars

(***************************************************************************)
(* A served cell is never empty: no scan runs without rules.                *)
(***************************************************************************)
Armed == serving => active \in Rulesets
=============================================================================
