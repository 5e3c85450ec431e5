------------------------------ MODULE Redactor ------------------------------
(***************************************************************************)
(* scanner.redact_text: the high-severity findings in a text are put in     *)
(* order, the overlapping ones are dropped, and what is kept is replaced    *)
(* from right to left.  A text is the sequence of its positions; a finding  *)
(* is a span of them, never empty, with the rule that found it; the rules   *)
(* are numbered in the ruleset's order.                                     *)
(***************************************************************************)
EXTENDS Integers, SequencesExt

Char(p) == [char |-> p]
Marker(f) == [redacted |-> f.rule]

\* sorted() is stable, and the matches come rule by rule.
Before(f, g) ==
  \/ f.start < g.start
  \/ f.start = g.start /\ f.end > g.end
  \/ f.start = g.start /\ f.end = g.end /\ f.rule < g.rule
Ordered(findings) ==
  [i \in 1..Cardinality(findings) |->
     CHOOSE f \in findings : Cardinality({g \in findings : Before(g, f)}) = i - 1]

\* One turn of the loop that drops what overlaps.
KeepApart(acc, f) ==
  IF f.start > acc.last_end
    THEN [kept |-> Append(acc.kept, f), last_end |-> f.end] ELSE acc
Choose(acc, f) ==
  IF f.start >= acc.last_end
    THEN [kept |-> Append(acc.kept, f), last_end |-> f.end] ELSE acc
Kept(findings) ==
  FoldLeft(Choose, [kept |-> <<>>, last_end |-> -1], Ordered(findings)).kept

\* out[:start] + marker + out[end:], where a slice ends with the text.
Substitute(out, f) ==
  SubSeq(out, 1, Min({f.start, Len(out)})) \o <<Marker(f)>> \o SubSeq(out, f.end + 1, Len(out))

LeftToRight(kept) == kept
RightToLeft(kept) == Reverse(kept)
redact_text(text, findings) == FoldLeft(Substitute, text, RightToLeft(Kept(findings)))
=============================================================================
