------------------------------ MODULE Detection ------------------------------
(***************************************************************************)
(* The pure functions a verdict rests on, one call at a time: what parse    *)
(* makes of a payload, whether luhn_valid takes digits for a card number,   *)
(* scan's verdict on a text, and what redact_text leaves of one.  A text is *)
(* what the rules' patterns match in it and what Presidio (external)        *)
(* reports.                                                                 *)
(***************************************************************************)
EXTENDS RulesetParse, Redactor, Comprehension

CONSTANTS
  Names,       \* the rule names that occur
  MaxRules,    \* bound: the rules of a payload, and of a ruleset
  Digits,      \* the digits other than 0 that a number may have
  Lengths,     \* the lengths of the numbers
  Values,      \* what a pattern or Presidio may match
  Sample,      \* how each value reads once redacted: two may read the same
  Cards,       \* the values that luhn_valid accepts
  PhoneShaped, \* the values with separators or a country code
  Scores,      \* Presidio's confidence, in hundredths
  Length,      \* of a text to redact
  HighRules    \* for each rule of its ruleset, whether it is redacted

ASSUME DetectionAssumption ==
  /\ Names # {} /\ MaxRules \in Nat \ {0}
  /\ Digits \subseteq 1..9 /\ Lengths \subseteq Nat
  /\ Cards \cup PhoneShaped \subseteq Values /\ IsFiniteSet(Values)
  /\ Values \subseteq DOMAIN Sample /\ Scores \subseteq 0..100
  /\ Length \in Nat /\ HighRules \in Seq(BOOLEAN)

VARIABLES
  call,    \* a function and its arguments
  result   \* empty until it returns, then the value

vars == <<call, result>>

----------------------------------------------------------------------------
(* patterns.py: the policy of the engine *)

SEVERITY_ACTION == [high |-> "block", low |-> "warn"]
rank == [allow |-> 0, warn |-> 1, block |-> 2]

\* One entity for each treatment that an entity may get.
PRESIDIO_ENTITIES ==
  [US_PASSPORT |-> "high", CREDIT_CARD |-> "high",
   MEDICAL_LICENSE |-> "low", PERSON |-> "low", PHONE_NUMBER |-> "low"]
Floor(entity) ==
  CASE entity = "PHONE_NUMBER" -> 40 [] entity = "PERSON" -> 85 [] OTHER -> 50

\* checksum's share of the i-th digit; the code counts from 0.
Twice(n) == IF 2 * n > 9 THEN 2 * n - 9 ELSE 2 * n
FromTheLeft(nums, i) == IF i % 2 = 1 THEN Twice(nums[i]) ELSE nums[i]
Doubled(nums, i) == IF (i - 1) % 2 = Len(nums) % 2 THEN Twice(nums[i]) ELSE nums[i]
luhn_valid(nums) ==
  /\ Len(nums) \in 13..19
  /\ FoldLeft(+, 0, [i \in DOMAIN nums |-> Doubled(nums, i)]) % 10 = 0

----------------------------------------------------------------------------
(* scanner.py *)

Finding(name, severity, value) ==
  [rule |-> name, severity |-> severity, sample |-> Sample[value]]

\* Rule.validate
validate(rule, value) == rule.validator = "luhn" => value \in Cards

_scan_regex(rules, hits) ==
  FlattenSeq([i \in DOMAIN rules |->
    LET kept == Where(hits[i], LAMBDA v : validate(rules[i], v))
    IN  [k \in DOMAIN kept |->
          Finding(rules[i].name, effective_severity(rules[i]), kept[k])]])

Survives(r) ==
  /\ r.score >= Floor(r.entity)
  /\ r.entity = "CREDIT_CARD" => r.value \in Cards
  /\ r.entity = "PHONE_NUMBER" => r.value \in PhoneShaped
_scan_presidio(reported) ==
  LET kept == Where(reported, Survives)
  IN  [k \in DOMAIN kept |->
        Finding(kept[k].entity, PRESIDIO_ENTITIES[kept[k].entity], kept[k].value)]

\* best[key] = f, for the key (sample, rule).
KeepFirst(best, f) ==
  IF \E p \in best : p.rule = f.rule /\ p.sample = f.sample THEN best ELSE best \cup {f}
Keep(best, f) ==
  LET prior == {p \in best : p.rule = f.rule /\ p.sample = f.sample}
  IN  IF prior = {} \/ (f.severity = "high" /\ \A p \in prior : p.severity # "high")
        THEN (best \ prior) \cup {f}
        ELSE best
_dedupe(findings) == FoldLeft(Keep, {}, findings)

\* The action is that of the finding of the highest rank, "allow" without one.
scan(rules, hits, reported) ==
  LET findings == _dedupe(_scan_regex(rules, hits) \o _scan_presidio(reported))
      actions == {SEVERITY_ACTION[f.severity] : f \in findings} \cup {"allow"}
  IN  [findings |-> findings,
       action |-> CHOOSE a \in actions : \A b \in actions : rank[a] >= rank[b]]

----------------------------------------------------------------------------
(* The calls *)

Entries ==
  {[object |-> FALSE]} \cup
  [object : {TRUE}, name : Names \cup {"blank"},
   severity : {"high", "low", "other"},
   pattern : {"plain", "broken", "empty", "lookahead"},
   validator : {"none", "luhn", "other"}]

SeqsUpTo(S, n) == UNION {[1..k -> S] : k \in 0..n}

Documents ==
  {NotJson, NotObject, Object("given", FALSE, <<>>)} \cup
  {Object(v, TRUE, r) : v \in {"blank", "given"}, r \in SeqsUpTo(Entries, MaxRules)}

\* Numbers of which all digits but two at most are 0.
Numbers ==
  UNION {{[[k \in 1..n |-> 0] EXCEPT ![i] = d, ![j] = e] :
            i \in 1..n, j \in 1..n, d \in Digits, e \in Digits} : n \in Lengths}

Rulesets ==
  {r \in SeqsUpTo([name : Names, severity : {"high", "low"}, validator : {"none", "luhn"}],
                  MaxRules) : r # <<>> /\ \A i, j \in DOMAIN r : r[i].name = r[j].name => i = j}

Hits == {SetToSeq(V) : V \in SUBSET Values}
Reports == SeqsUpTo([entity : DOMAIN PRESIDIO_ENTITIES, score : Scores, value : Values], 1)

\* Positions start+1 to end of a text.  finditer goes through the text once
\* for each rule, so the matches of one rule are disjoint.
Spans == {s \in [start : 0..Length, end : 0..Length] : s.start < s.end}
Disjoint(s, t) == s.end <= t.start \/ t.end <= s.start
MatchesOfOne == {m \in SUBSET Spans : \A s, t \in m : s # t => Disjoint(s, t)}
Found(spans, r) == {[start |-> s.start, end |-> s.end, rule |-> r] : s \in spans}
MatchSets ==
  {UNION {Found(m[r], r) : r \in DOMAIN HighRules} : m \in [DOMAIN HighRules -> MatchesOfOne]}

Text == [p \in 1..Length |-> Char(p)]
Findings(matches) == {f \in matches : HighRules[f.rule]}

Init ==
  /\ result = <<>>
  /\ \/ call \in [f : {"parse"}, doc : Documents]
     \/ call \in [f : {"luhn_valid"}, digits : Numbers]
     \/ \E rules \in Rulesets : call \in
          [f : {"scan"}, rules : {rules}, hits : [DOMAIN rules -> Hits], reported : Reports]
     \/ call \in [f : {"redact_text"}, matches : MatchSets]

Returns(f, value) == call.f = f /\ result = <<>> /\ result' = <<value>> /\ UNCHANGED call

Parse == Returns("parse", parse(call.doc))
Validate == Returns("luhn_valid", luhn_valid(call.digits))
Scan == Returns("scan", scan(call.rules, call.hits, call.reported))

Redact == Returns("redact_text", redact_text(Text, Findings(call.matches)))

Next == Parse \/ Validate \/ Scan \/ Redact

Spec == Init /\ [][Next]_vars

Returned(f) == call.f = f /\ result # <<>>
----------------------------------------------------------------------------
Sound(doc) ==
  /\ doc.kind = "object" /\ doc.version = "given"
  /\ doc.list /\ doc.rules # <<>>
  /\ \A i \in DOMAIN doc.rules : Sane(doc.rules[i])
  /\ \A i, j \in DOMAIN doc.rules : doc.rules[i].name = doc.rules[j].name => i = j

(***************************************************************************)
(* "Validation is all-or-nothing: one bad regex rejects the entire          *)
(* payload."  What is accepted has a rule for each entry, in their order,   *)
(* under names of their own, so a malformed push can take no rule away; and *)
(* a sound payload is accepted.                                             *)
(***************************************************************************)
AllOrNothing ==
  Returned("parse") =>
    IF Sound(call.doc)
      THEN /\ result[1] # PatternError
           /\ result[1].compiled = [i \in DOMAIN call.doc.rules |-> Rule(call.doc.rules[i])]
      ELSE result[1] = PatternError

(***************************************************************************)
(* "Luhn checksum": the digits that count twice are every second one from   *)
(* the right, for a number of any length that a card number may have.       *)
(***************************************************************************)
DoubledDigit == <<0, 2, 4, 6, 8, 1, 3, 5, 7, 9>>
LuhnCountsFromTheRight ==
  Returned("luhn_valid") =>
    LET n == Len(call.digits)
        weighed == [k \in 1..n |->
          LET d == call.digits[n + 1 - k] IN IF k % 2 = 0 THEN DoubledDigit[d + 1] ELSE d]
    IN  result[1] <=> n \in 13..19 /\ FoldLeft(+, 0, weighed) % 10 = 0

(***************************************************************************)
(* "Strongest action across all findings wins", and no finding that is      *)
(* merged with another one weakens it: the prompt is blocked iff a rule or  *)
(* Presidio finds something of high severity in it, and the user is warned  *)
(* iff all there is to find is low.  Whatever passes Luhn is high.          *)
(***************************************************************************)
Detects(severity) ==
  \/ \E i \in DOMAIN call.rules :
       \/ call.rules[i].validator = "none" /\ call.hits[i] # <<>>
          /\ call.rules[i].severity = severity
       \/ call.rules[i].validator = "luhn" /\ severity = "high"
          /\ \E k \in DOMAIN call.hits[i] : call.hits[i][k] \in Cards
  \/ \E k \in DOMAIN call.reported :
       Survives(call.reported[k]) /\ PRESIDIO_ENTITIES[call.reported[k].entity] = severity
StrongestWins ==
  Returned("scan") =>
    result[1].action = IF Detects("high") THEN "block"
                    ELSE IF Detects("low") THEN "warn" ELSE "allow"

\* What position p becomes when all the kept findings are replaced at once.
Covers(f, p) == f.start < p /\ p <= f.end
Rewritten(kept, p) ==
  IF \A f \in kept : ~Covers(f, p) THEN <<Char(p)>>
  ELSE LET f == CHOOSE f \in kept : Covers(f, p)
       IN  IF p = f.start + 1 THEN <<Marker(f)>> ELSE <<>>

(***************************************************************************)
(* "Earlier spans stay valid as the string is rewritten": replacing one     *)
(* span after another gives what replacing all of them at once would, one   *)
(* marker for each and every other position untouched.                      *)
(***************************************************************************)
RewrittenAsAWhole ==
  Returned("redact_text") =>
    LET kept == ToSet(Kept(Findings(call.matches)))
    IN  result[1] = FlattenSeq([p \in 1..Length |-> Rewritten(kept, p)])

(***************************************************************************)
(* What a dropped match leaves behind: a position of a match is still in    *)
(* the text only if it lies beyond a kept match that overlaps the start of  *)
(* this one.  So every match loses at least its beginning, a match nested   *)
(* in a kept one is gone, and only the tail of one that sticks out stays.   *)
(***************************************************************************)
OnlyTailsSurvive ==
  Returned("redact_text") =>
    \A f \in Findings(call.matches) : \A p \in f.start + 1 .. f.end :
      Char(p) \in ToSet(result[1]) =>
        \E g \in ToSet(Kept(Findings(call.matches))) :
          g.start <= f.start /\ f.start < g.end /\ g.end < p
===============================================================================
