---------------------------- MODULE Comprehension ----------------------------
(***************************************************************************)
(* A list comprehension with a condition: what satisfies it, in order.      *)
(***************************************************************************)
EXTENDS Naturals, SequencesExt

Only(s, T) == FlattenSeq([i \in DOMAIN s |-> IF s[i] \in T THEN <<s[i]>> ELSE <<>>])
Where(s, keep(_)) == Only(s, {x \in ToSet(s) : keep(x)})
==============================================================================
