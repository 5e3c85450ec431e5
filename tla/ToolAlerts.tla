----------------------------- MODULE ToolAlerts -----------------------------
(***************************************************************************)
(* What the manager learns of the tool calls: ToolHooks' audit events, as   *)
(* the alert rules see them.                                                *)
(***************************************************************************)
EXTENDS ToolHooks, AlertRules

CONSTANTS
  BundledSha,  \* of the ruleset the hooks redact with
  Shas         \* what may have been published

\* Denials and errors carry no sha.
Event(e) ==
  IF e.action = "output_redacted"
    THEN build_event(e.action, {"high" : h \in e.hits}, "", BundledSha, "bundled")
    ELSE build_event(e.action, {}, "", NoSha, "")

(***************************************************************************)
(* "A live secret is sitting in a file or command output", and "an error    *)
(* here means output was NOT redacted, so it is graded as an exposure":     *)
(* when a tool returns a secret where the walk looks for it, the manager    *)
(* reports it at 10 or above, redacted or not, unless the hook could not    *)
(* read its payload, was killed, or could not write the log.                *)
(***************************************************************************)
SecretReturned ==
  \E p \in DOMAIN response \ {"elsewhere"} : response[p] \cap Secrets # {}
SecretsAreReported ==
  pc = "done" /\ writable /\ context # NoContext /\ call.tool \in PostMatcher /\ SecretReturned =>
    \/ \A published \in Shas : \E e \in events : Raises(Event(e), published, 10)
    \/ "unscanned" \in messages
    \/ {"PostToolUse", "killed"} \subseteq failed
=============================================================================
