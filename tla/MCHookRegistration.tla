------------------------- MODULE MCHookRegistration -------------------------
(***************************************************************************)
(* An instance of HookRegistration: one event with a hook of the guardrail, *)
(* one without, and another tool that may share an entry with it.           *)
(***************************************************************************)
EXTENDS HookRegistration

CONSTANTS other, ours

Entry(hooks) == [matcher |-> "theirs", hooks |-> hooks]
MCAdded == [matcher |-> "new", hooks |-> <<other>>]
MCEntries ==
  {OurEntry} \cup {Entry(h) : h \in {<<>>, <<other>>, <<other, ours>>}}
MCLists == UNION {[1..n -> MCEntries] : n \in 0..2}

MCInitialFiles ==
  {Absent, NotJson} \cup
  {[hooks |-> h, rest |-> "given"] :
     h \in [{"PreToolUse", "Stop"} -> MCLists] \cup [{"Stop"} -> MCLists] \cup {<<>>}}
=============================================================================
