----------------------------- MODULE RulesetParse -----------------------------
(***************************************************************************)
(* ruleset.parse: the checks that a pattern payload goes through, as the    *)
(* fold over its rules that the code's loop is.  A payload is reduced to    *)
(* the outcome of each check; what a regular expression matches is data.    *)
(*                                                                          *)
(* An entry of the payload is no object, or has a name ("blank" when it is  *)
(* missing, no string, or white space), a severity, a pattern and perhaps a *)
(* validator.  The pattern is "broken" when it is missing or does not       *)
(* compile, "empty" when it matches the empty string, and "lookahead" when  *)
(* it does but begins with "(?!", which the code lets off.                  *)
(***************************************************************************)
EXTENDS Naturals, SequencesExt

NotJson == [kind |-> "text"]
NotObject == [kind |-> "value"]
Object(version, list, rules) ==
  [kind |-> "object", version |-> version, list |-> list, rules |-> rules]

PatternError == [error |-> TRUE]

\* Rule.effective_severity: what a validator has confirmed is high.
effective_severity(e) == IF e.validator = "none" THEN e.severity ELSE "high"
Rule(e) == [name |-> e.name, severity |-> e.severity, validator |-> e.validator]

Sane(e) ==
  /\ e.object
  /\ e.name # "blank"
  /\ e.severity \in {"high", "low"}
  /\ e.pattern \in {"plain", "lookahead"}
  /\ e.validator \in {"none", "luhn"}

\* One turn of the loop; an error leaves it for good.
CheckLeniently(acc, e) ==
  IF ~Sane(e) \/ e.name \in acc.seen
    THEN acc
    ELSE [seen |-> acc.seen \cup {e.name}, compiled |-> Append(acc.compiled, Rule(e))]
Check(acc, e) ==
  IF acc = PatternError \/ ~Sane(e) THEN PatternError
  ELSE IF e.name \in acc.seen THEN PatternError
  ELSE [seen |-> acc.seen \cup {e.name}, compiled |-> Append(acc.compiled, Rule(e))]

parse(doc) ==
  IF \/ doc.kind # "object"
     \/ doc.version = "blank"
     \/ ~doc.list \/ doc.rules = <<>>
    THEN PatternError
    ELSE FoldLeft(Check, [seen |-> {}, compiled |-> <<>>], doc.rules)

Accepted(doc) == parse(doc) # PatternError
===============================================================================
