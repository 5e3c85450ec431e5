----------------------------- MODULE AlertRules -----------------------------
(***************************************************************************)
(* The events of audit.build_event, and the rules of local_rules.xml that   *)
(* they match on the manager.  The manager itself is external: it reports   *)
(* an event under a matching rule of the highest level.  An empty field is  *)
(* taken to match a negated expression.  The correlation rules, which count *)
(* alerts in the manager's memory, are left out.                            *)
(***************************************************************************)
EXTENDS Naturals

\* Its fields that a rule looks at; findings are severities.
build_event(action, findings, mode, sha, source) ==
  [action |-> action, has_high |-> "high" \in findings, mode |-> mode,
   pattern_sha |-> sha, pattern_source |-> source]

NoSha == "none"

Alert(id, level) == [id |-> id, level |-> level]

PromptRules(e) ==
  {a \in {Alert(100201, 3)} : e.action = "warn"} \cup
  {a \in {Alert(100202, 10)} : e.action = "block"}

ToolRules(e) ==
  {a \in {Alert(100203, 12)} : e.action = "output_redacted" /\ e.has_high} \cup
  {a \in {Alert(100204, 5)} : e.action = "output_redacted" /\ ~e.has_high} \cup
  {a \in {Alert(100205, 6)} : e.action = "read_denied"} \cup
  {a \in {Alert(100206, 10)} : e.action = "error"}

\* expected: the sha that rule 100220 was given after the last publish.
DriftRulesUnlessFetched(e, expected) ==
  {a \in {Alert(100220, 10)} : e.pattern_sha # expected} \cup
  {a \in {Alert(100221, 7)} : e.pattern_source # "wazuh"}
DriftRules(e, expected) ==
  {a \in {Alert(100220, 10)} : e.pattern_sha # expected} \cup
  {a \in {Alert(100221, 7)} : e.pattern_source = "bundled"}

Matching(e, expected) ==
  PromptRules(e) \cup ToolRules(e) \cup DriftRules(e, expected) \cup
  {a \in {Alert(100207, 5)} : e.mode = "fallback"}

\* The event is reported at this level, or at a higher one.
Raises(e, expected, level) == \E a \in Matching(e, expected) : a.level >= level
=============================================================================
