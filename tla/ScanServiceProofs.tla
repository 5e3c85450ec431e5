-------------------------- MODULE ScanServiceProofs --------------------------
(***************************************************************************)
(* Theorems about ScanService and its alerts, for any number of hooks, any  *)
(* prompts, any rulesets and any schedule of swaps, crashes and timeouts.   *)
(***************************************************************************)
EXTENDS PromptAlerts, TLAPS

Scanning == {"regex", "presidio", "reply"}

\* Nobody is served without rules, and a missing NLP engine is on record.
DaemonOK ==
  /\ serving => active \in Rulesets
  /\ serving /\ ~analyzer => presidioError

\* A handler thread works for a hook that has sent its prompt, in a daemon
\* that serves, with a ruleset that the hook has seen in force; and its
\* findings are those of that ruleset.
ThreadOK(h) ==
  /\ handler[h] # "none" => serving /\ hook[h] # "idle"
  /\ hook[h] = "sent" => active \in seen[h] \cup {NoRuleset}
  /\ hook[h] = "sent" /\ handler[h] \in Scanning => rs[h] \in seen[h]
  /\ handler[h] \in {"presidio", "reply"} =>
       /\ found[h] \cap Credentials = prompt[h] \cap Detects[rs[h]]
       /\ found[h] \subseteq prompt[h]
  /\ handler[h] = "reply" => prompt[h] \cap Personal \subseteq found[h] \/ presidioError

\* What the hook holds, has logged and has shown, by where it is.
ResultOK(h) ==
  /\ hook[h] \in {"idle", "sent", "fallback"} => result[h] = NoResult
  /\ hook[h] = "scanned" => Judged(h) \/ result[h] = ErrorReply
  /\ hook[h] = "audited" => Judged(h)
  /\ hook[h] # "done" => shown[h] = "nothing"
  /\ hook[h] \notin {"audited", "done"} => log[h] = <<>>
  /\ log[h] = <<>> \/ (log[h] = <<result[h]>> /\ Judged(h))
  /\ hook[h] = "done" =>
       \/ shown[h] = "unscanned" /\ log[h] = <<>>
       \/ shown[h] = result[h].action /\ Judged(h)

VerdictOK(h) ==
  Judged(h) =>
    /\ result[h].findings \cap Credentials = prompt[h] \cap Detects[result[h].ruleset]
    /\ result[h].findings \subseteq prompt[h]
    /\ result[h].action = Action(result[h].findings)
    /\ result[h].mode = "fallback" => result[h].ruleset = Bundled
    /\ result[h].mode = "daemon" =>
         /\ result[h].ruleset \in seen[h]
         /\ prompt[h] \cap Personal \subseteq result[h].findings \/ result[h].presidioError

HookOK(h) == ThreadOK(h) /\ ResultOK(h) /\ VerdictOK(h)

Inv == TypeOK /\ DaemonOK /\ \A h \in Hooks : HookOK(h)

----------------------------------------------------------------------------
LEMMA ActionType ==
  ASSUME NEW values PROVE Action(values) \in Actions
BY DEF Action, Actions

LEMMA OtherReplies ==
  /\ NoResult \in Results /\ ErrorReply \in Results
  /\ NoResult.mode = "none" /\ ErrorReply.mode = "error"
BY DEF NoResult, ErrorReply, Results

LEMMA JudgedType ==
  ASSUME TypeOK, NEW h \in Hooks, Judged(h)
  PROVE  /\ result[h].findings \in SUBSET (Credentials \cup Personal)
         /\ result[h].ruleset \in Rulesets
         /\ result[h].presidioError \in BOOLEAN
<1>1. result[h] \in Results
  BY DEF TypeOK
<1>2. result[h] \notin {NoResult, ErrorReply}
  BY OtherReplies DEF Judged
<1> QED BY <1>1, <1>2 DEF Results

\* A step that leaves a hook and its thread alone, in a daemon that goes on.
LEMMA Elsewhere ==
  ASSUME NEW x \in Hooks, HookOK(x),
         UNCHANGED <<hook[x], prompt[x], result[x], shown[x], log[x]>>,
         UNCHANGED <<handler[x], rs[x], found[x], seen[x]>>,
         UNCHANGED <<active, serving>>, presidioError => presidioError'
  PROVE  HookOK(x)'
BY DEF HookOK, ThreadOK, ResultOK, VerdictOK, Judged

LEMMA InvStart == Init => Inv
<1> SUFFICES ASSUME Init PROVE Inv
  OBVIOUS
<1>1. TypeOK
  <2>1. <<>> \in Seq(Results)
    OBVIOUS
  <2> QED BY <2>1, OtherReplies DEF Init, Cell!Init, TypeOK
<1>2. DaemonOK
  BY DEF Init, Cell!Init, DaemonOK
<1>3. ASSUME NEW h \in Hooks PROVE HookOK(h)
  BY OtherReplies DEF Init, HookOK, ThreadOK, ResultOK, VerdictOK, Judged
<1> QED BY <1>1, <1>2, <1>3 DEF Inv

----------------------------------------------------------------------------
(* The daemon *)

LEMMA InstallStep ==
  ASSUME Inv, InstallRuleset PROVE Inv'
<1>1. PICK r \in Rulesets : active' = r /\ UNCHANGED serving
  BY DEF InstallRuleset, Cell!Install
<1>2. TypeOK'
  BY <1>1 DEF Inv, TypeOK, InstallRuleset, process, thread
<1>3. DaemonOK'
  BY <1>1 DEF Inv, DaemonOK, InstallRuleset
<1>4. ASSUME NEW h \in Hooks PROVE HookOK(h)'
  <2>1. /\ UNCHANGED <<hook[h], prompt[h], result[h], shown[h], log[h]>>
        /\ UNCHANGED <<handler[h], rs[h], found[h], serving, presidioError>>
        /\ seen[h] \subseteq seen'[h]
        /\ hook[h] = "sent" => active' \in seen'[h]
    BY <1>1 DEF Inv, TypeOK, InstallRuleset, process, thread
  <2> QED BY <2>1 DEF Inv, HookOK, ThreadOK, ResultOK, VerdictOK, Judged
<1> QED BY <1>2, <1>3, <1>4 DEF Inv

LEMMA StartStep ==
  ASSUME Inv, StartServing PROVE Inv'
<1>1. ~serving /\ active # NoRuleset /\ serving' /\ UNCHANGED active
      /\ presidioError' = ~analyzer' /\ analyzer' \in BOOLEAN
  BY DEF StartServing, Cell!Open
<1>2. TypeOK' /\ DaemonOK'
  BY <1>1 DEF Inv, TypeOK, DaemonOK, StartServing, Cell!Open, process, thread
<1>3. ASSUME NEW h \in Hooks PROVE HookOK(h)'
  BY <1>1 DEF Inv, HookOK, ThreadOK, ResultOK, VerdictOK, Judged, StartServing, process, thread,
              Scanning
<1> QED BY <1>2, <1>3 DEF Inv

LEMMA DieStep ==
  ASSUME Inv, Die PROVE Inv'
<1>1. TypeOK' /\ DaemonOK'
  BY DEF Inv, TypeOK, DaemonOK, Die, Cell!Stop, process
<1>2. ASSUME NEW h \in Hooks PROVE HookOK(h)'
  BY DEF Inv, HookOK, ThreadOK, ResultOK, VerdictOK, Judged, Die, Cell!Stop, process, Scanning
<1> QED BY <1>1, <1>2 DEF Inv

----------------------------------------------------------------------------
(* The handler thread *)

LEMMA ScanStep ==
  ASSUME Inv, NEW h \in Hooks, PickRuleset(h) \/ ScanRegex(h) \/ ScanPresidio(h)
  PROVE  Inv'
<1> USE DEF Step, process, daemon
<1>1. TypeOK'
  <2>1. CASE PickRuleset(h)
    BY <2>1 DEF Inv, TypeOK, DaemonOK, HookOK, ThreadOK, PickRuleset
  <2>2. CASE ScanRegex(h)
    BY <2>2, ValuesAssumption DEF Inv, TypeOK, ScanRegex
  <2>3. CASE ScanPresidio(h)
    <3>1. /\ found' \in [Hooks -> SUBSET (Credentials \cup Personal)]
          /\ presidioError' \in BOOLEAN
      <4>1. found[h] \cup (prompt[h] \cap Personal) \in SUBSET (Credentials \cup Personal)
        BY DEF Inv, TypeOK
      <4> QED BY <2>3, <4>1 DEF Inv, TypeOK, ScanPresidio
    <3> QED BY <2>3, <3>1 DEF Inv, TypeOK, ScanPresidio
  <2> QED BY <2>1, <2>2, <2>3
<1>2. DaemonOK'
  BY DEF Inv, DaemonOK, PickRuleset, ScanRegex, ScanPresidio
<1>3. ASSUME NEW x \in Hooks, x # h PROVE HookOK(x)'
  BY <1>3, Elsewhere DEF Inv, TypeOK, PickRuleset, ScanRegex, ScanPresidio
<1>4. HookOK(h)'
  <2>1. ResultOK(h)' /\ VerdictOK(h)'
    BY DEF Inv, HookOK, ResultOK, VerdictOK, Judged, PickRuleset, ScanRegex, ScanPresidio
  <2>2. CASE PickRuleset(h)
    <3>1. ThreadOK(h)'
      BY <2>2, ValuesAssumption
         DEF Inv, TypeOK, DaemonOK, HookOK, ThreadOK, PickRuleset, Scanning
    <3> QED BY <2>1, <3>1 DEF HookOK
  <2>3. CASE ScanRegex(h)
    <3>1. prompt[h] \cap Detects[rs[h]] \subseteq Credentials
      BY <2>3, ValuesAssumption DEF Inv, TypeOK, ScanRegex
    <3>2. ThreadOK(h)'
      BY <2>3, <3>1 DEF Inv, TypeOK, HookOK, ThreadOK, ScanRegex, Scanning
    <3> QED BY <2>1, <3>2 DEF HookOK
  <2>4. CASE ScanPresidio(h)
    <3>1. /\ found'[h] \cap Credentials = found[h] \cap Credentials
          /\ found'[h] \subseteq prompt[h]
          /\ prompt[h] \cap Personal \subseteq found'[h] \/ presidioError'
      BY <2>4, ValuesAssumption DEF Inv, TypeOK, DaemonOK, HookOK, ThreadOK, ScanPresidio
    <3>2. ThreadOK(h)'
      BY <2>4, <3>1 DEF Inv, TypeOK, HookOK, ThreadOK, ScanPresidio, Scanning
    <3> QED BY <2>1, <3>2 DEF HookOK
  <2> QED BY <2>2, <2>3, <2>4
<1> QED BY <1>1, <1>2, <1>3, <1>4 DEF Inv

\* A thread ends, and its reply reaches the hook or nobody.
LEMMA DeliverStep ==
  ASSUME Inv, NEW h \in Hooks, NEW reply \in Results, Deliver(h, reply),
         handler' = [handler EXCEPT ![h] = "none"],
         reply = ErrorReply \/ reply.mode \in {"daemon", "fallback"},
         hook[h] = "sent" /\ result' = [result EXCEPT ![h] = reply] => VerdictOK(h)'
  PROVE  Inv'
<1> USE DEF daemon, HookGoes
<1>1. TypeOK'
  BY DEF Inv, TypeOK, Deliver
<1>2. DaemonOK'
  BY DEF Inv, DaemonOK, Deliver
<1>3. ASSUME NEW x \in Hooks, x # h PROVE HookOK(x)'
  BY <1>3, Elsewhere DEF Inv, TypeOK, Deliver
<1>4. HookOK(h)'
  <2>1. ThreadOK(h)'
    BY DEF Inv, TypeOK, Deliver, ThreadOK, Scanning
  <2>2. CASE hook[h] = "sent"
    <3>1. hook'[h] = "scanned" /\ result'[h] = reply /\ UNCHANGED <<shown, log>>
      BY <2>2 DEF Inv, TypeOK, Deliver
    <3>2. ResultOK(h)'
      BY <2>2, <3>1, OtherReplies DEF Inv, HookOK, ResultOK, Judged
    <3> QED BY <2>1, <2>2, <3>2 DEF HookOK, Deliver
  <2>3. CASE hook[h] # "sent"
    BY <2>1, <2>3 DEF Inv, HookOK, ResultOK, VerdictOK, Judged, Deliver
  <2> QED BY <2>2, <2>3
<1> QED BY <1>1, <1>2, <1>3, <1>4 DEF Inv

LEMMA ReplyStep ==
  ASSUME Inv, NEW h \in Hooks, Reply(h) \/ ReplyError(h)
  PROVE  Inv'
<1>1. CASE Reply(h)
  <2> DEFINE verdict == Verdict("daemon", found[h], rs[h], presidioError)
  <2>1. /\ handler[h] = "reply" /\ handler' = [handler EXCEPT ![h] = "none"]
        /\ Deliver(h, verdict)
    BY <1>1 DEF Reply, Step
  <2>2. found[h] \in SUBSET (Credentials \cup Personal) /\ rs[h] \in Rulesets
        /\ presidioError \in BOOLEAN /\ "daemon" \in {"daemon", "fallback"}
    BY <2>1 DEF Inv, TypeOK
  <2>3. /\ verdict \in Results /\ verdict.mode = "daemon" /\ verdict.findings = found[h]
        /\ verdict.action = Action(found[h]) /\ verdict.ruleset = rs[h]
        /\ verdict.presidioError = presidioError
    BY <2>2, ActionType DEF Verdict, Results
  <2> HIDE DEF verdict
  <2>4. ASSUME hook[h] = "sent", result' = [result EXCEPT ![h] = verdict]
        PROVE  VerdictOK(h)'
    <3>1. result'[h] = verdict /\ UNCHANGED <<prompt, seen>>
      BY <2>1, <2>4 DEF Inv, TypeOK, Deliver
    <3> QED BY <2>1, <2>3, <2>4, <3>1 DEF Inv, HookOK, ThreadOK, VerdictOK, Scanning
  <2> QED BY <2>1, <2>3, <2>4, DeliverStep
<1>2. CASE ReplyError(h)
  <2>1. handler' = [handler EXCEPT ![h] = "none"] /\ Deliver(h, ErrorReply)
    BY <1>2 DEF ReplyError, Step
  <2>2. ASSUME result' = [result EXCEPT ![h] = ErrorReply]
        PROVE  VerdictOK(h)'
    BY <2>2, OtherReplies DEF Inv, TypeOK, VerdictOK, Judged
  <2> QED BY <2>1, <2>2, OtherReplies, DeliverStep
<1> QED BY <1>1, <1>2

----------------------------------------------------------------------------
(* The hook process *)

LEMMA SubmitStep ==
  ASSUME Inv, NEW h \in Hooks, Submit(h)
  PROVE  Inv'
<1> USE DEF daemon, HookGoes
<1>1. PICK values \in Prompts : prompt' = [prompt EXCEPT ![h] = values]
  BY DEF Submit
<1>2. values \in SUBSET (Credentials \cup Personal)
  BY ValuesAssumption
<1>3. /\ hook[h] = "idle" /\ handler[h] = "none"
      /\ hook'[h] \in {"sent", "fallback"}
      /\ hook' = [hook EXCEPT ![h] = hook'[h]]
      /\ handler' = [handler EXCEPT ![h] = handler'[h]]
      /\ handler'[h] \in {"none", "accepted"}
      /\ handler'[h] # "none" => serving
      /\ seen' = [seen EXCEPT ![h] = {active}]
      /\ UNCHANGED <<active, serving, analyzer, presidioError, result, shown, log, rs, found>>
  BY DEF Inv, TypeOK, HookOK, ThreadOK, Submit
<1>4. TypeOK' /\ DaemonOK'
  <2>1. prompt' \in [Hooks -> SUBSET (Credentials \cup Personal)]
    BY <1>1, <1>2 DEF Inv, TypeOK
  <2>2. /\ hook' \in [Hooks -> {"idle", "sent", "fallback", "scanned", "audited", "done"}]
        /\ handler' \in [Hooks -> {"none", "accepted", "regex", "presidio", "reply"}]
    <3>1. hook \in [Hooks -> {"idle", "sent", "fallback", "scanned", "audited", "done"}]
      BY DEF Inv, TypeOK
    <3>2. handler \in [Hooks -> {"none", "accepted", "regex", "presidio", "reply"}]
      BY DEF Inv, TypeOK
    <3> QED BY <1>3, <3>1, <3>2
  <2>4. seen' \in [Hooks -> SUBSET (Rulesets \cup {NoRuleset})]
    <3>1. {active} \in SUBSET (Rulesets \cup {NoRuleset})
      BY DEF Inv, TypeOK
    <3> QED BY <1>3, <3>1 DEF Inv, TypeOK
  <2>3. \A x \in Hooks : handler'[x] \in {"regex", "presidio", "reply"} => rs'[x] \in Rulesets
    BY <1>3 DEF Inv, TypeOK
  <2> QED BY <1>3, <2>1, <2>2, <2>3, <2>4 DEF Inv, TypeOK, DaemonOK
<1>5. ASSUME NEW x \in Hooks, x # h PROVE HookOK(x)'
  BY <1>1, <1>3, <1>5, Elsewhere DEF Inv, TypeOK
<1>6. HookOK(h)'
  <2>1. ThreadOK(h)'
    BY <1>3 DEF Inv, TypeOK, ThreadOK, Scanning
  <2>2. ResultOK(h)' /\ ~Judged(h)'
    BY <1>3, OtherReplies DEF Inv, HookOK, ResultOK, Judged
  <2> QED BY <2>1, <2>2 DEF HookOK, VerdictOK
<1> QED BY <1>4, <1>5, <1>6 DEF Inv

\* The other steps of a hook leave everything but the hook itself alone.
LEMMA HookStep ==
  ASSUME Inv, NEW h \in Hooks, NEW there \in {"fallback", "scanned", "audited", "done"},
         hook' = [hook EXCEPT ![h] = there], hook[h] # "idle",
         result'[h] \in Results, result' = [result EXCEPT ![h] = result'[h]],
         shown'[h] \in Actions \cup {"unscanned", "nothing"},
         shown' = [shown EXCEPT ![h] = shown'[h]],
         log'[h] \in Seq(Results), log' = [log EXCEPT ![h] = log'[h]],
         UNCHANGED <<daemon, prompt, thread, seen>>,
         ResultOK(h)', VerdictOK(h)'
  PROVE  Inv'
<1> USE DEF daemon, thread
<1>1. TypeOK' /\ DaemonOK'
  <2>1. hook' \in [Hooks -> {"idle", "sent", "fallback", "scanned", "audited", "done"}]
    BY DEF Inv, TypeOK
  <2>3. shown' \in [Hooks -> Actions \cup {"nothing", "unscanned"}]
    <3>1. shown \in [Hooks -> Actions \cup {"nothing", "unscanned"}]
      BY DEF Inv, TypeOK
    <3> QED BY <3>1
  <2>2. result' \in [Hooks -> Results] /\ log' \in [Hooks -> Seq(Results)]
    BY DEF Inv, TypeOK
  <2> QED BY <2>1, <2>2, <2>3 DEF Inv, TypeOK, DaemonOK
<1>2. ASSUME NEW x \in Hooks, x # h PROVE HookOK(x)'
  BY <1>2, Elsewhere DEF Inv, TypeOK
<1>3. ThreadOK(h)'
  BY DEF Inv, TypeOK, HookOK, ThreadOK
<1> QED BY <1>1, <1>2, <1>3 DEF Inv, HookOK

\* The hook gives up, or fails open: it holds nothing to be judged by.
LEMMA GiveUpStep ==
  ASSUME Inv, NEW h \in Hooks, GiveUp(h) \/ FallbackFails(h) \/ ErrorShown(h)
  PROVE  Inv'
<1> USE OtherReplies DEF HookGoes
<1>1. /\ hook[h] \in {"sent", "fallback", "scanned"}
      /\ hook'[h] \in {"fallback", "done"} /\ hook' = [hook EXCEPT ![h] = hook'[h]]
      /\ hook'[h] = "fallback" => hook[h] = "sent" /\ UNCHANGED shown
      /\ hook'[h] = "done" => shown'[h] = "unscanned"
      /\ shown'[h] \in {shown[h], "unscanned"} /\ shown' = [shown EXCEPT ![h] = shown'[h]]
      /\ UNCHANGED <<daemon, prompt, result, log, thread, seen>>
  BY DEF Inv, TypeOK, GiveUp, FallbackFails, ErrorShown
<1>2. /\ result[h] \in Results /\ log[h] \in Seq(Results) /\ shown[h] = "nothing"
      /\ result = [result EXCEPT ![h] = result[h]] /\ log = [log EXCEPT ![h] = log[h]]
      /\ log[h] = <<>> /\ ~Judged(h) /\ (hook[h] = "sent" => result[h] = NoResult)
  BY <1>1 DEF Inv, TypeOK, HookOK, ResultOK, Judged, GiveUp, FallbackFails, ErrorShown
<1>3. ResultOK(h)' /\ VerdictOK(h)'
  BY <1>1, <1>2 DEF ResultOK, VerdictOK, Judged
<1> QED BY <1>1, <1>2, <1>3, HookStep

LEMMA FallbackStep ==
  ASSUME Inv, NEW h \in Hooks, Fallback(h)
  PROVE  Inv'
<1> DEFINE values == prompt[h] \cap Detects[Bundled]
           verdict == Verdict("fallback", values, Bundled, FALSE)
<1>1. /\ hook[h] = "fallback" /\ hook' = [hook EXCEPT ![h] = "scanned"]
      /\ result' = [result EXCEPT ![h] = verdict]
      /\ UNCHANGED <<daemon, prompt, shown, log, thread, seen>>
  BY DEF Fallback, HookGoes
<1>2. values \in SUBSET (Credentials \cup Personal) /\ values \cap Credentials = values
      /\ Bundled \in Rulesets
  BY ValuesAssumption
<1>3. /\ verdict \in Results /\ verdict.mode = "fallback" /\ verdict.findings = values
      /\ verdict.action = Action(values) /\ verdict.ruleset = Bundled
  <2> HIDE DEF values
  <2> QED BY <1>2, ActionType DEF Verdict, Results
<1> HIDE DEF verdict
<1>4. /\ result'[h] = verdict /\ shown[h] = "nothing" /\ log[h] = <<>>
      /\ log[h] \in Seq(Results)
      /\ shown = [shown EXCEPT ![h] = shown[h]] /\ log = [log EXCEPT ![h] = log[h]]
  BY <1>1 DEF Inv, TypeOK, HookOK, ResultOK
<1>5. ResultOK(h)' /\ VerdictOK(h)'
  BY <1>1, <1>2, <1>3, <1>4 DEF Inv, TypeOK, ResultOK, VerdictOK, Judged
<1> QED BY <1>1, <1>3, <1>4, <1>5, HookStep

\* A verdict is logged, or not, and then shown.
LEMMA RespondStep ==
  ASSUME Inv, NEW h \in Hooks, Audit(h) \/ Respond(h)
  PROVE  Inv'
<1> USE OtherReplies DEF HookGoes
<1>1. Judged(h) /\ result[h] \in Results /\ result[h].action \in Actions
  <2>1. Judged(h) /\ result[h] \in Results
    BY DEF Inv, TypeOK, HookOK, ResultOK, Audit, Respond
  <2>2. result[h] \notin {NoResult, ErrorReply}
    BY <2>1 DEF Judged
  <2> QED BY <2>1, <2>2 DEF Results
<1>2. UNCHANGED result /\ UNCHANGED <<daemon, prompt, thread, seen>>
      /\ result = [result EXCEPT ![h] = result[h]]
  BY DEF Inv, TypeOK, Audit, Respond
<1>3. VerdictOK(h)'
  BY <1>2 DEF Inv, HookOK, VerdictOK, Judged
<1>4. CASE Audit(h)
  <2>1. /\ hook[h] = "scanned" /\ hook' = [hook EXCEPT ![h] = "audited"]
        /\ UNCHANGED shown /\ shown[h] = "nothing" /\ log[h] = <<>>
        /\ shown = [shown EXCEPT ![h] = shown[h]]
    BY <1>4 DEF Inv, TypeOK, HookOK, ResultOK, Audit
  <2>2. log'[h] \in {<<>>, <<result[h]>>} /\ log' = [log EXCEPT ![h] = log'[h]]
    BY <1>4, <2>1 DEF Inv, TypeOK, Audit
  <2>3. log'[h] \in Seq(Results)
    <3>1. <<>> \in Seq(Results) /\ <<result[h]>> \in Seq(Results)
      BY <1>1
    <3> QED BY <2>2, <3>1
  <2>4. ResultOK(h)'
    BY <1>1, <1>2, <2>1, <2>2 DEF Inv, TypeOK, ResultOK, Judged
  <2> QED BY <1>1, <1>2, <1>3, <2>1, <2>2, <2>3, <2>4, HookStep
<1>5. CASE Respond(h)
  <2>1. /\ hook[h] = "audited" /\ hook' = [hook EXCEPT ![h] = "done"]
        /\ shown' = [shown EXCEPT ![h] = result[h].action]
        /\ shown'[h] = result[h].action
        /\ UNCHANGED log /\ log = [log EXCEPT ![h] = log[h]] /\ log[h] \in Seq(Results)
    BY <1>5 DEF Inv, TypeOK, Respond
  <2>2. ResultOK(h)'
    BY <1>1, <1>2, <2>1 DEF Inv, TypeOK, HookOK, ResultOK, Judged
  <2> QED BY <1>1, <1>2, <1>3, <2>1, <2>2, HookStep
<1> QED BY <1>4, <1>5

LEMMA StutterStep ==
  ASSUME Inv, UNCHANGED vars PROVE Inv'
<1> USE DEF vars, daemon, process, thread
<1>1. TypeOK' /\ DaemonOK'
  BY DEF Inv, TypeOK, DaemonOK
<1>2. ASSUME NEW x \in Hooks PROVE HookOK(x)'
  BY Elsewhere DEF Inv
<1> QED BY <1>1, <1>2 DEF Inv

LEMMA InvStep == Inv /\ [Next]_vars => Inv'
BY InstallStep, StartStep, DieStep, ScanStep, ReplyStep, SubmitStep, GiveUpStep, FallbackStep,
   RespondStep, StutterStep
   DEF Next, HandlerRuns, HookRuns

LEMMA Invariance == Spec => []Inv
BY InvStart, InvStep, PTL DEF Spec

----------------------------------------------------------------------------
(***************************************************************************)
(* Type correctness of ScanService.                                         *)
(***************************************************************************)
THEOREM TypeCorrect == Spec => []TypeOK
<1>1. Inv => TypeOK
  BY DEF Inv
<1> QED BY <1>1, Invariance, PTL

(***************************************************************************)
(* However rulesets are swapped, a verdict is that of the one ruleset it    *)
(* names, which was in force while the hook waited, or the bundled one.     *)
(***************************************************************************)
THEOREM OneRuleset == Spec => []VerdictOfOneRuleset
<1>1. Inv => VerdictOfOneRuleset
  BY DEF Inv, HookOK, VerdictOK, Judged, VerdictOfOneRuleset
<1> QED BY <1>1, Invariance, PTL

LEMMA BlockIsHigh ==
  ASSUME NEW values
  PROVE  Action(values) = "block" <=> values \cap (Credentials \cup Identifiers) # {}
<1>1. "high" \in Severities(values) <=> values \cap (Credentials \cup Identifiers) # {}
  BY DEF Severities
<1> QED BY <1>1 DEF Action

\* A verdict that does not block has found nothing of high severity.
LEMMA NotBlocked ==
  ASSUME Inv, NEW h \in Hooks, Judged(h), result[h].action # "block"
  PROVE  /\ result[h].ruleset \in Rulesets
         /\ prompt[h] \cap Detects[result[h].ruleset] = {}
         /\ result[h].mode = "daemon" =>
              /\ result[h].ruleset \in seen[h]
              /\ prompt[h] \cap Identifiers = {} \/ result[h].presidioError
         /\ result[h].mode = "fallback" => result[h].ruleset = Bundled
<1>1. result[h].findings \cap (Credentials \cup Identifiers) = {}
  BY BlockIsHigh DEF Inv, HookOK, VerdictOK
<1> QED BY <1>1, JudgedType, ValuesAssumption DEF Inv, HookOK, VerdictOK

LEMMA LetGoIsClean ==
  ASSUME Inv, NEW h \in Hooks, LetGo(h)
  PROVE  Judged(h) /\ result[h].action # "block"
BY DEF Inv, HookOK, ResultOK, LetGo

(***************************************************************************)
(* No crash, timeout, swap or late reply lets a credential go that the      *)
(* rulesets of the time all know, nor personal data of high severity that   *)
(* a working NLP pass has read.                                             *)
(***************************************************************************)
THEOREM FailsClosed == Spec => []NoSilentLeak
<1>1. Inv => NoSilentLeak
  BY LetGoIsClean, NotBlocked DEF NoSilentLeak, Judged
<1> QED BY <1>1, Invariance, PTL

(***************************************************************************)
(* The audit trail never tells of a decision that was not taken.            *)
(***************************************************************************)
THEOREM TrailIsTrue == Spec => []AuditTellsTheDecision
<1>1. Inv => AuditTellsTheDecision
  <2> SUFFICES ASSUME Inv, NEW h \in Hooks
               PROVE  /\ Len(log[h]) <= 1
                      /\ log[h] # <<>> => shown[h] \in {"nothing", log[h][1].action}
    BY DEF AuditTellsTheDecision
  <2>1. CASE log[h] = <<>>
    BY <2>1
  <2>2. CASE log[h] = <<result[h]>>
    <3>1. Len(log[h]) = 1 /\ log[h][1] = result[h] /\ log[h] # <<>>
      BY <2>2
    <3> QED BY <3>1 DEF Inv, TypeOK, HookOK, ResultOK
  <2> QED BY <2>1, <2>2 DEF Inv, HookOK, ResultOK
<1> QED BY <1>1, Invariance, PTL

(***************************************************************************)
(* A verdict of the daemon that misses personal data says that the NLP pass *)
(* failed, whatever the threads of other hooks do to the shared error.      *)
(***************************************************************************)
THEOREM MissesAreExplained == Spec => []MissedPersonalDataIsExplained
<1>1. Inv => MissedPersonalDataIsExplained
  BY DEF Inv, HookOK, VerdictOK, Judged, MissedPersonalDataIsExplained
<1> QED BY <1>1, Invariance, PTL

LEMMA EventOfVerdict ==
  ASSUME Inv, NEW h \in Hooks, NEW e \in Events(h)
  PROVE  e = Event(result[h]) /\ Judged(h)
<1>1. PICK i \in DOMAIN log[h] : e = Event(log[h][i])
  BY DEF Events
<1>2. log[h] = <<result[h]>> /\ Judged(h)
  BY <1>1 DEF Inv, HookOK, ResultOK
<1> QED BY <1>1, <1>2

(***************************************************************************)
(* Whatever has been published, a prompt that it would have stopped and     *)
(* that got through is reported as drift, if it is on record.               *)
(***************************************************************************)
THEOREM DriftIsSeen == Spec => []MissesShowUp
<1>1. Inv => MissesShowUp
  <2> SUFFICES ASSUME Inv, NEW h \in Hooks, NEW published \in Rulesets,
                      LetGo(h), prompt[h] \cap Detects[published] # {},
                      NEW e \in Events(h)
               PROVE  Raises(e, Sha[published], 10)
    BY DEF MissesShowUp
  <2>1. e = Event(result[h])
    BY EventOfVerdict
  <2>2. e.pattern_sha = Sha[result[h].ruleset]
    BY <2>1 DEF Event, build_event
  <2>3. Sha[result[h].ruleset] # Sha[published]
    BY LetGoIsClean, NotBlocked, ShaAssumption
  <2>4. Alert(100220, 10) \in Matching(e, Sha[published])
    BY <2>2, <2>3 DEF Matching, DriftRules
  <2>5. Alert(100220, 10).level = 10
    BY DEF Alert
  <2> QED BY <2>4, <2>5 DEF Raises
<1> QED BY <1>1, Invariance, PTL

(***************************************************************************)
(* On a host that is in sync, every alarm about what the daemon has judged  *)
(* is true, and nothing that deserves one goes without.                     *)
(***************************************************************************)
THEOREM TrueAlarms == Spec => []AlarmsAreTrueInSync
<1>1. Inv => AlarmsAreTrueInSync
  <2> SUFFICES ASSUME Inv, NEW h \in Hooks, NEW published \in Rulesets,
                      \A r \in seen[h] \cap Rulesets :
                        Sha[r] = Sha[published] /\ Source[r] # "bundled",
                      result[h].mode = "daemon",
                      NEW e \in Events(h)
               PROVE  /\ Raises(e, Sha[published], 4) =>
                           prompt[h] \cap (Detects[published] \cup Identifiers) # {}
                      /\ ~Raises(e, Sha[published], 10) =>
                           /\ prompt[h] \cap Detects[published] = {}
                           /\ prompt[h] \cap Identifiers = {} \/ result[h].presidioError
    BY DEF AlarmsAreTrueInSync
  <2> DEFINE r == result[h].ruleset
  <2>1. e = Event(result[h]) /\ Judged(h)
    BY EventOfVerdict
  <2>2. r \in Rulesets /\ r \in seen[h] /\ Sha[r] = Sha[published] /\ Source[r] # "bundled"
    BY <2>1, JudgedType DEF Inv, HookOK, VerdictOK
  <2>3. Detects[r] = Detects[published]
    BY <2>2, ShaAssumption
  <2>4. /\ e.action = result[h].action /\ e.mode = "daemon"
        /\ e.pattern_sha = Sha[published] /\ e.pattern_source # "bundled"
        /\ result[h].action \in Actions
    BY <2>1, <2>2, ActionType DEF Event, build_event, Inv, HookOK, VerdictOK
  <2>5. ASSUME Raises(e, Sha[published], 4)
        PROVE  prompt[h] \cap (Detects[published] \cup Identifiers) # {}
    <3>1. result[h].action = "block"
      <4> SUFFICES ASSUME result[h].action # "block" PROVE FALSE
        OBVIOUS
      <4>1. \A a \in Matching(e, Sha[published]) : a = Alert(100201, 3)
        BY <2>4 DEF Matching, PromptRules, ToolRules, DriftRules, Actions
      <4> QED BY <2>5, <4>1 DEF Raises, Alert
    <3>2. result[h].findings \cap (Credentials \cup Identifiers) # {}
      BY <2>1, <3>1, BlockIsHigh DEF Inv, HookOK, VerdictOK
    <3> QED BY <2>1, <2>3, <3>2 DEF Inv, HookOK, VerdictOK
  <2>6. ASSUME ~Raises(e, Sha[published], 10)
        PROVE  /\ prompt[h] \cap Detects[published] = {}
               /\ prompt[h] \cap Identifiers = {} \/ result[h].presidioError
    <3>1. result[h].action # "block"
      <4> SUFFICES ASSUME result[h].action = "block" PROVE FALSE
        OBVIOUS
      <4>1. Alert(100202, 10) \in Matching(e, Sha[published])
        BY <2>4 DEF Matching, PromptRules
      <4> QED BY <2>6, <4>1 DEF Raises, Alert
    <3> QED BY <2>1, <2>3, <3>1, NotBlocked
  <2> QED BY <2>5, <2>6
<1> QED BY <1>1, Invariance, PTL
=============================================================================
