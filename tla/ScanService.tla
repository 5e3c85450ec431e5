---------------------------- MODULE ScanService ----------------------------
(***************************************************************************)
(* One prompt, one hook process, one handler thread in the daemon: the      *)
(* UserPromptSubmit hook, the socket client, the daemon's Handler and       *)
(* scanner.scan, while the daemon swaps rulesets, loses its NLP engine,     *)
(* stops answering, dies and comes back.  The daemon's ruleset is a         *)
(* RulesetCell, which PatternStore implements.                              *)
(*                                                                          *)
(* A prompt is the set of sensitive values in it: credentials, which the    *)
(* regular expressions of a ruleset find, and personal data, which only the *)
(* NLP pass finds.  Some of the latter is of high severity, too: an IBAN, a *)
(* passport number.                                                         *)
(***************************************************************************)
EXTENDS Naturals, Sequences

CONSTANTS
  Hooks,          \* the hook processes, one for each prompt
  Credentials,    \* values whose rules are of high severity
  Personal,       \* values that only Presidio finds
  Identifiers,    \* those of them whose entity is of high severity
  Prompts,        \* what users may type
  Rulesets,       \* the rulesets the daemon may be given
  Detects,        \* the credentials each ruleset finds
  Bundled,        \* the ruleset a hook process has
  NoRuleset

ASSUME ValuesAssumption ==
  /\ Credentials \cap Personal = {} /\ Identifiers \subseteq Personal
  /\ Prompts \subseteq SUBSET (Credentials \cup Personal)
  /\ Detects \in [Rulesets -> SUBSET Credentials]
  /\ Bundled \in Rulesets /\ NoRuleset \notin Rulesets

VARIABLES
  active, serving,  \* the daemon's cell
  analyzer,         \* whether the daemon has Presidio loaded
  presidioError,    \* whether scanner._presidio_error is set
  hook,             \* where each hook process is
  prompt,           \* the prompt it was started for
  result,           \* the scan result it holds
  shown,            \* what it told Claude Code
  log,              \* the audit events it wrote
  handler,          \* where the handler thread that serves it is
  rs, found,        \* that thread's ruleset and findings
  seen              \* history: rulesets enforced since the hook connected

daemon  == <<active, serving, analyzer, presidioError>>
process == <<hook, prompt, result, shown, log>>
thread  == <<handler, rs, found>>
vars    == <<daemon, process, thread, seen>>

Cell == INSTANCE RulesetCell

Actions == {"allow", "warn", "block"}
NoResult == [mode |-> "none"]
ErrorReply == [mode |-> "error"]

\* SEVERITY_ACTION: the strongest severity decides.
Severities(values) ==
  {IF v \in Credentials \cup Identifiers THEN "high" ELSE "low" : v \in values}
WarnForPersonal(values) ==
  IF values \cap Credentials # {} THEN "block"
  ELSE IF values # {} THEN "warn" ELSE "allow"
Action(values) ==
  IF "high" \in Severities(values) THEN "block"
  ELSE IF values # {} THEN "warn" ELSE "allow"

\* scan()'s verdict.
Verdict(mode, values, ruleset, nlpFailed) ==
  [mode |-> mode, findings |-> values, action |-> Action(values),
   ruleset |-> ruleset, presidioError |-> nlpFailed]

Init ==
  /\ Cell!Init
  /\ analyzer = FALSE /\ presidioError = FALSE
  /\ hook = [h \in Hooks |-> "idle"]
  /\ prompt = [h \in Hooks |-> {}]
  /\ result = [h \in Hooks |-> NoResult]
  /\ shown = [h \in Hooks |-> "nothing"]
  /\ log = [h \in Hooks |-> <<>>]
  /\ handler = [h \in Hooks |-> "none"]
  /\ rs = [h \in Hooks |-> NoRuleset]
  /\ found = [h \in Hooks |-> {}]
  /\ seen = [h \in Hooks |-> {}]

HookGoes(h, here, there) == hook[h] = here /\ hook' = [hook EXCEPT ![h] = there]
Step(h, here, there) == handler[h] = here /\ handler' = [handler EXCEPT ![h] = there]

----------------------------------------------------------------------------
(* The daemon's own life *)

\* Startup and refresh: set_ruleset, under everybody's feet.
InstallRuleset ==
  /\ \E r \in Rulesets \ {active} : Cell!Install(r)
  /\ seen' = [h \in Hooks |->
       IF hook[h] = "sent" THEN seen[h] \cup {active'} ELSE seen[h]]
  /\ UNCHANGED <<analyzer, presidioError, process, thread>>

\* The warm-up scan has loaded Presidio, or recorded why it could not.
StartServing ==
  /\ Cell!Open
  /\ analyzer' \in BOOLEAN /\ presidioError' = ~analyzer'
  /\ UNCHANGED <<process, thread, seen>>

\* The handler threads are daemon threads: they die with the process.
Die ==
  /\ active # NoRuleset /\ Cell!Stop
  /\ analyzer' = FALSE /\ presidioError' = FALSE
  /\ handler' = [h \in Hooks |-> "none"]
  /\ rs' = [h \in Hooks |-> NoRuleset]
  /\ found' = [h \in Hooks |-> {}]
  /\ UNCHANGED <<process, seen>>

----------------------------------------------------------------------------
(* The handler thread that serves hook h: Handler.handle, scanner.scan *)

\* get_ruleset: the one look at the active ruleset that a scan takes.
PickRuleset(h) ==
  /\ Step(h, "accepted", "regex")
  /\ rs' = [rs EXCEPT ![h] = active]
  /\ UNCHANGED <<daemon, process, found, seen>>

ScanRegex(h) ==
  /\ Step(h, "regex", "presidio")
  /\ found' = [found EXCEPT ![h] = prompt[h] \cap Detects[rs[h]]]
  /\ UNCHANGED <<daemon, process, rs, seen>>

\* The NLP pass adds its findings; without an engine it adds none; and when
\* it raises, the error is recorded for good.
SwallowNlpError(h) ==
  /\ Step(h, "presidio", "reply")
  /\ found' \in {found, [found EXCEPT ![h] = @ \cup (prompt[h] \cap Personal)]}
  /\ UNCHANGED <<daemon, process, rs, seen>>
ScanPresidio(h) ==
  /\ Step(h, "presidio", "reply")
  /\ \/ analyzer /\ found' = [found EXCEPT ![h] = @ \cup (prompt[h] \cap Personal)]
                 /\ UNCHANGED presidioError
     \/ analyzer /\ UNCHANGED found /\ presidioError' = TRUE
     \/ ~analyzer /\ UNCHANGED <<found, presidioError>>
  /\ UNCHANGED <<active, serving, analyzer, process, rs, seen>>

\* A reply reaches a hook that still waits; otherwise the pipe is broken.
Deliver(h, reply) ==
  /\ IF hook[h] = "sent"
       THEN HookGoes(h, "sent", "scanned") /\ result' = [result EXCEPT ![h] = reply]
       ELSE UNCHANGED <<hook, result>>
  /\ rs' = [rs EXCEPT ![h] = NoRuleset]
  /\ found' = [found EXCEPT ![h] = {}]
  /\ UNCHANGED <<daemon, prompt, shown, log, seen>>

ReplyStampedNow(h) ==
  /\ Step(h, "reply", "none")
  /\ Deliver(h, Verdict("daemon", found[h], active, presidioError))
Reply(h) ==
  /\ Step(h, "reply", "none")
  /\ Deliver(h, Verdict("daemon", found[h], rs[h], presidioError))

\* Any exception in the handler is answered, too.
ReplyError(h) ==
  /\ handler[h] \in {"accepted", "regex", "presidio"}
  /\ Step(h, handler[h], "none")
  /\ Deliver(h, ErrorReply)

----------------------------------------------------------------------------
(* The hook process h *)

\* client.request: connect and send, or fall back at once.
Submit(h) ==
  /\ \E values \in Prompts : prompt' = [prompt EXCEPT ![h] = values]
  /\ HookGoes(h, "idle", IF serving THEN "sent" ELSE "fallback")
  /\ handler' = IF serving THEN [handler EXCEPT ![h] = "accepted"] ELSE handler
  /\ seen' = [seen EXCEPT ![h] = {active}]
  /\ UNCHANGED <<daemon, result, shown, log, rs, found>>

\* A timeout, a reset, or a reply cut short by the daemon's death.
GiveUp(h) ==
  /\ HookGoes(h, "sent", "fallback")
  /\ UNCHANGED <<daemon, prompt, result, shown, log, thread, seen>>

\* The scan in the hook's own process: its ruleset is the bundled one.
Fallback(h) ==
  /\ HookGoes(h, "fallback", "scanned")
  /\ result' = [result EXCEPT ![h] =
       Verdict("fallback", prompt[h] \cap Detects[Bundled], Bundled, FALSE)]
  /\ UNCHANGED <<daemon, prompt, shown, log, thread, seen>>

\* Fail open, but say so.
FallbackFails(h) ==
  /\ HookGoes(h, "fallback", "done")
  /\ shown' = [shown EXCEPT ![h] = "unscanned"]
  /\ UNCHANGED <<daemon, prompt, result, log, thread, seen>>

ErrorShown(h) ==
  /\ result[h].mode = "error"
  /\ HookGoes(h, "scanned", "done")
  /\ shown' = [shown EXCEPT ![h] = "unscanned"]
  /\ UNCHANGED <<daemon, prompt, result, log, thread, seen>>

\* Written before the answer is; a write that fails is swallowed.
Audit(h) ==
  /\ result[h].mode # "error"
  /\ HookGoes(h, "scanned", "audited")
  /\ log' \in {log, [log EXCEPT ![h] = Append(@, result[h])]}
  /\ UNCHANGED <<daemon, prompt, result, shown, thread, seen>>

\* Without findings build_response says nothing, which lets the prompt go.
RespondIfHealthy(h) ==
  /\ HookGoes(h, "audited", "done")
  /\ shown' = [shown EXCEPT ![h] =
       IF result[h].presidioError THEN "allow" ELSE result[h].action]
  /\ UNCHANGED <<daemon, prompt, result, log, thread, seen>>
Respond(h) ==
  /\ HookGoes(h, "audited", "done")
  /\ shown' = [shown EXCEPT ![h] = result[h].action]
  /\ UNCHANGED <<daemon, prompt, result, log, thread, seen>>

WaitForever(h) ==
  \/ Fallback(h) \/ FallbackFails(h) \/ ErrorShown(h) \/ Audit(h) \/ Respond(h)
HookRuns(h) ==
  \/ GiveUp(h) \/ Fallback(h) \/ FallbackFails(h)
  \/ ErrorShown(h) \/ Audit(h) \/ Respond(h)

HandlerRuns(h) ==
  PickRuleset(h) \/ ScanRegex(h) \/ ScanPresidio(h) \/ Reply(h) \/ ReplyError(h)

Next ==
  \/ InstallRuleset \/ StartServing \/ Die
  \/ \E h \in Hooks : HandlerRuns(h) \/ Submit(h) \/ HookRuns(h)

Spec == Init /\ [][Next]_vars

\* Every socket operation of the client times out; nothing is assumed of the
\* daemon, which may die or hang.
FairSpec == Spec /\ \A h \in Hooks : WF_vars(HookRuns(h))

----------------------------------------------------------------------------
Results ==
  {NoResult, ErrorReply} \cup
  [mode : {"daemon", "fallback"}, findings : SUBSET (Credentials \cup Personal), action : Actions,
   ruleset : Rulesets, presidioError : BOOLEAN]

(* Type correctness: every variable stays in its domain, and a scan under way
   has a ruleset. *)
TypeOK ==
  /\ active \in Rulesets \cup {NoRuleset} /\ serving \in BOOLEAN
  /\ analyzer \in BOOLEAN /\ presidioError \in BOOLEAN
  /\ hook \in [Hooks -> {"idle", "sent", "fallback", "scanned", "audited", "done"}]
  /\ prompt \in [Hooks -> SUBSET (Credentials \cup Personal)]
  /\ result \in [Hooks -> Results]
  /\ shown \in [Hooks -> Actions \cup {"nothing", "unscanned"}]
  /\ log \in [Hooks -> Seq(Results)]
  /\ handler \in [Hooks -> {"none", "accepted", "regex", "presidio", "reply"}]
  /\ rs \in [Hooks -> Rulesets \cup {NoRuleset}]
  /\ \A h \in Hooks : handler[h] \in {"regex", "presidio", "reply"} => rs[h] \in Rulesets
  /\ found \in [Hooks -> SUBSET (Credentials \cup Personal)]
  /\ seen \in [Hooks -> SUBSET (Rulesets \cup {NoRuleset})]

Judged(h) == result[h].mode \in {"daemon", "fallback"}
LetGo(h) == shown[h] \in {"allow", "warn"}

(***************************************************************************)
(* "In-flight scans finish against the set they started with": however many *)
(* swaps happen during a scan, the credentials reported are those of one    *)
(* ruleset that was in force meanwhile, and it is the one whose version and *)
(* sha the verdict carries.                                                 *)
(***************************************************************************)
VerdictOfOneRuleset ==
  \A h \in Hooks : Judged(h) =>
    /\ result[h].findings \cap Credentials = prompt[h] \cap Detects[result[h].ruleset]
    /\ result[h].ruleset \in seen[h] \cup {Bundled}

(***************************************************************************)
(* Detections fail closed: the daemon lets a prompt go only if a ruleset    *)
(* that was in force while the hook waited finds nothing in it, and nor     *)
(* does the NLP pass, unless it failed; the hook itself only if the bundled *)
(* rules find nothing.  No crash, timeout, swap or late reply lets go what  *)
(* the rules of the time know.                                              *)
(***************************************************************************)
NoSilentLeak ==
  \A h \in Hooks : LetGo(h) =>
    IF result[h].mode = "daemon"
      THEN /\ \E r \in seen[h] \cap Rulesets : prompt[h] \cap Detects[r] = {}
           /\ prompt[h] \cap Identifiers = {} \/ result[h].presidioError
      ELSE prompt[h] \cap Detects[Bundled] = {}

(***************************************************************************)
(* The audit trail tells what happened: at most one event per prompt, none  *)
(* for a prompt nobody scanned, and its action is the one that was taken.   *)
(***************************************************************************)
AuditTellsTheDecision ==
  \A h \in Hooks :
    /\ Len(log[h]) <= 1
    /\ log[h] # <<>> => shown[h] \in {"nothing", log[h][1].action}

(***************************************************************************)
(* "Failures are recorded in the result rather than swallowed": a verdict   *)
(* of the daemon that misses personal data says that the NLP pass failed.   *)
(***************************************************************************)
MissedPersonalDataIsExplained ==
  \A h \in Hooks :
    result[h].mode = "daemon" /\ ~(prompt[h] \cap Personal \subseteq result[h].findings)
      => result[h].presidioError

(***************************************************************************)
(* Whatever becomes of the daemon, the user gets an answer.                 *)
(***************************************************************************)
EveryPromptIsAnswered ==
  \A h \in Hooks : hook[h] # "idle" ~> hook[h] = "done"
=============================================================================
