------------------------------ MODULE ToolHooks ------------------------------
(***************************************************************************)
(* One tool call of Claude Code and the two hook processes around it:       *)
(* PreToolUse may deny it, PostToolUse rewrites what it returned.  Claude   *)
(* Code (external) goes on without a hook that ends in any other way than   *)
(* by exit(0), and what a hook prints is seen once it has exited.           *)
(*                                                                          *)
(* What a tool returns is a set of values at each of some places; "whole"   *)
(* is a bare string, "elsewhere" all that the walk does not know: other     *)
(* keys, values that are no strings, results that are neither.              *)
(***************************************************************************)
EXTENDS Naturals, SequencesExt

CONSTANTS
  Secrets,    \* values that the rules of redact_text find
  Harmless,   \* other values
  Marker,     \* "[REDACTED:...]"
  NoContext,
  MaxFields   \* bound: the fields of a response

ASSUME ValuesAssumption ==
  /\ Secrets \cap Harmless = {} /\ Marker \notin Secrets \cup Harmless
  /\ MaxFields \in Nat

VARIABLES
  call,       \* the tool and its input
  response,   \* what the tool returned
  pc,         \* where the hooks are
  step,       \* the next place of the walk
  out, hits,  \* redact_tool_response's copy and findings
  writable,   \* whether the audit log can be written
  events,     \* the events in it
  messages,   \* what the user has been told
  failed,     \* the hooks that did not do their work
  context     \* what the model gets to see

walk == <<step, out, hits>>
told == <<events, messages>>
vars == <<call, response, pc, walk, writable, told, failed, context>>

----------------------------------------------------------------------------
(* What may be asked, and what may come back *)

\* The arguments of each tool that hold a path.
Arguments == [Read |-> {"file_path"}, NotebookRead |-> {"notebook_path"},
              Grep |-> {"path", "glob"}, Glob |-> {"path"}, Write |-> {"file_path"}]

\* The tools the hooks are registered for, and those PreToolUse cares about.
PreMatcher == {"Read", "NotebookRead", "Bash", "Grep", "Glob"}
PostMatcher == {"Read", "NotebookRead", "Bash", "Grep"}
ContentTools == {"Read", "NotebookRead", "Bash", "Grep", "Glob"}

\* stored: one of its segments is in PROTECTED_DIRS.
Paths == [name : {"example", "secret", "other"}, stored : BOOLEAN]

\* suspect: whether one of BASH_READ_PATTERNS matches the command.
Commands == {[tool |-> "Bash", suspect |-> b] : b \in BOOLEAN}
PathCalls ==
  UNION {UNION {{[tool |-> t, input |-> i] : i \in [keys -> Paths]} :
                  keys \in SUBSET Arguments[t]} : t \in DOMAIN Arguments}

Walked == <<"file.content", "stdout", "stderr", "content", "output", "text", "result">>
Texts == SUBSET (Secrets \cup Harmless)

\* The places where tools put their text.
Fields == [Read |-> {"file.content", "content"}, NotebookRead |-> {"file.content"},
           Bash |-> {"stdout", "stderr", "output"}, Glob |-> {"content"},
           Grep |-> {"content", "text", "result"}, Write |-> {"file.content"}]
Responses(tool) ==
  (IF tool = "Bash" THEN [{"whole"} -> Texts] ELSE {}) \cup
  UNION {[places -> Texts] :
           places \in {s \in SUBSET (Fields[tool] \cup {"elsewhere"}) :
                         Cardinality(s) <= MaxFields}}

\* What is withheld is told apart from all that may be shown.
ASSUME ContextAssumption ==
  \A places \in SUBSET (ToSet(Walked) \cup {"whole", "elsewhere"}) :
    NoContext \notin [places -> SUBSET (Secrets \cup Harmless \cup {Marker})]

Order(r) == IF DOMAIN r = {"whole"} THEN <<"whole">> ELSE Walked

Init ==
  /\ call \in Commands \cup PathCalls
  /\ response = <<>> /\ out = <<>> /\ hits = {} /\ step = 0
  /\ pc = "evaluate"
  /\ writable \in BOOLEAN
  /\ events = {} /\ messages = {} /\ failed = {}
  /\ context = NoContext

Goes(here, there) == pc = here /\ pc' = there
Logs(event) == events' = IF writable THEN events \cup {event} ELSE events
Tells(message) == messages' = messages \cup {message}
Fails(hook) == failed' = failed \cup {hook}

----------------------------------------------------------------------------
(* PreToolUse *)

is_protected_path(p) == p.name # "example" /\ (p.stored \/ p.name = "secret")

\* The keys that are looked at, whatever the tool; a search has one more.
KeysForReads(tool) == {"file_path", "path", "notebook_path"}
Keys(tool) ==
  KeysForReads(tool) \cup IF tool \in {"Grep", "Glob"} THEN {"path", "glob"} ELSE {}

evaluate ==
  /\ call.tool \in ContentTools
  /\ IF call.tool = "Bash" THEN call.suspect
     ELSE \E k \in DOMAIN call.input \cap Keys(call.tool) :
            is_protected_path(call.input[k])

Evaluate ==
  /\ call.tool \in PreMatcher
  /\ Goes("evaluate", IF evaluate THEN "log_denial" ELSE "run")
  /\ UNCHANGED <<call, response, walk, writable, told, failed, context>>

\* An unreadable payload is let go without a word, a crash with a warning.
EvaluateFails ==
  /\ call.tool \in PreMatcher
  /\ Goes("evaluate", "run") /\ Fails("PreToolUse")
  /\ messages' \in {messages, messages \cup {"unchecked"}}
  /\ UNCHANGED <<call, response, walk, writable, events, context>>

NoPreHook ==
  /\ call.tool \notin PreMatcher
  /\ Goes("evaluate", "run")
  /\ UNCHANGED <<call, response, walk, writable, told, failed, context>>

LogDenial ==
  /\ Goes("log_denial", "deny") /\ Logs([action |-> "read_denied"])
  /\ UNCHANGED <<call, response, walk, writable, messages, failed, context>>

Deny ==
  /\ Goes("deny", "done") /\ Tells("denied")
  /\ UNCHANGED <<call, response, walk, writable, events, failed, context>>

RunTool ==
  /\ Goes("run", "receive") /\ response' \in Responses(call.tool)
  /\ UNCHANGED <<call, walk, writable, told, failed, context>>

----------------------------------------------------------------------------
(* PostToolUse *)

CannotRead ==
  /\ call.tool \in PostMatcher
  /\ Goes("receive", "done") /\ Fails("PostToolUse") /\ Tells("unscanned")
  /\ context' = response
  /\ UNCHANGED <<call, response, walk, writable, events>>

NoPostHook ==
  /\ call.tool \notin PostMatcher
  /\ Goes("receive", "done") /\ context' = response
  /\ UNCHANGED <<call, response, walk, writable, told, failed>>

\* The walk works on a copy of the response.
Receive ==
  /\ call.tool \in PostMatcher
  /\ Goes("receive", "walk")
  /\ step' = 1 /\ out' = response
  /\ UNCHANGED <<call, response, hits, writable, told, failed, context>>

\* Only severities in REDACT_SEVERITIES drive a rewrite.
HitsOfAnySeverity(text) == text
HitsIn(text) == text \cap Secrets
redact_text(text) == (text \ Secrets) \cup {Marker}

RedactField ==
  /\ pc = "walk" /\ step <= Len(Order(response)) /\ step' = step + 1
  /\ LET place == Order(response)[step]
         found == IF place \in DOMAIN out THEN HitsIn(out[place]) ELSE {}
     IN  IF found = {} THEN UNCHANGED <<out, hits>>
         ELSE /\ out' = [out EXCEPT ![place] = redact_text(@)]
              /\ hits' = hits \cup {<<place, s>> : s \in found}
  /\ UNCHANGED <<call, response, pc, writable, told, failed, context>>

\* A copy without findings is dropped: nothing is printed.
EndOfWalkUnlogged ==
  /\ pc = "walk" /\ step > Len(Order(response))
  /\ IF hits = {} THEN pc' = "done" /\ context' = response
                  ELSE pc' = "answer" /\ UNCHANGED context
  /\ UNCHANGED <<call, response, walk, writable, told, failed>>
EndOfWalk ==
  /\ pc = "walk" /\ step > Len(Order(response))
  /\ IF hits = {} THEN pc' = "done" /\ context' = response
                  ELSE pc' = "log" /\ UNCHANGED context
  /\ UNCHANGED <<call, response, walk, writable, told, failed>>

LogRedaction ==
  /\ Goes("log", "answer") /\ Logs([action |-> "output_redacted", hits |-> hits])
  /\ UNCHANGED <<call, response, walk, writable, messages, failed, context>>

Answer ==
  /\ Goes("answer", "done") /\ Tells("redacted")
  /\ context' = out
  /\ UNCHANGED <<call, response, walk, writable, events, failed>>

\* Any exception out of the walk, whatever had been redacted before it.
KeepWhatIsDone ==
  /\ Goes("walk", IF hits = {} THEN "log_error" ELSE "log") /\ Fails("PostToolUse")
  /\ UNCHANGED <<call, response, walk, writable, told, context>>
WalkFails ==
  /\ Goes("walk", "log_error") /\ Fails("PostToolUse")
  /\ UNCHANGED <<call, response, walk, writable, told, context>>

\* The warning was printed before; it is seen when the hook exits.
LogError ==
  /\ Goes("log_error", "done") /\ Logs([action |-> "error"]) /\ Tells("unredacted")
  /\ context' = response
  /\ UNCHANGED <<call, response, walk, writable, failed>>

----------------------------------------------------------------------------
\* A hook is killed, by its timeout or otherwise: Claude Code goes on.
PreKilled ==
  /\ call.tool \in PreMatcher
  /\ pc \in {"evaluate", "log_denial", "deny"} /\ pc' = "run"
  /\ failed' = failed \cup {"PreToolUse", "killed"}
  /\ UNCHANGED <<call, response, walk, writable, told, context>>

PostKilled ==
  /\ call.tool \in PostMatcher
  /\ pc \in {"receive", "walk", "log", "answer", "log_error"} /\ pc' = "done"
  /\ failed' = failed \cup {"PostToolUse", "killed"}
  /\ context' = response
  /\ UNCHANGED <<call, response, walk, writable, told>>

Next ==
  \/ Evaluate \/ EvaluateFails \/ NoPreHook \/ LogDenial \/ Deny \/ PreKilled
  \/ RunTool
  \/ CannotRead \/ NoPostHook \/ Receive \/ RedactField \/ EndOfWalk \/ LogRedaction \/ Answer
  \/ WalkFails \/ LogError \/ PostKilled

Spec == Init /\ [][Next]_vars

----------------------------------------------------------------------------
Values == Secrets \cup Harmless \cup {Marker}

(* Type correctness: every variable stays in its domain, and the walk never
   goes beyond the last place. *)
TypeOK ==
  /\ call.tool \in DOMAIN Fields
  /\ DOMAIN response \subseteq Fields[call.tool] \cup {"whole", "elsewhere"}
  /\ \A p \in DOMAIN response : response[p] \subseteq Secrets \cup Harmless
  /\ pc \in {"evaluate", "log_denial", "deny", "run", "receive", "walk",
             "log", "answer", "log_error", "done"}
  /\ step \in 0 .. Len(Walked) + 1
  /\ DOMAIN out \in {{}, DOMAIN response} /\ \A p \in DOMAIN out : out[p] \subseteq Values
  /\ hits \subseteq (DOMAIN response) \X Secrets
  /\ writable \in BOOLEAN
  /\ \A e \in events : e.action \in {"read_denied", "output_redacted", "error"}
  /\ messages \subseteq {"unchecked", "denied", "unscanned", "redacted", "unredacted"}
  /\ failed \subseteq {"PreToolUse", "PostToolUse", "killed"}
  /\ context = NoContext \/ DOMAIN context = DOMAIN response

\* The response with the secrets taken out of every place the walk knows, and
\* with nothing else changed.
Cleaned(r) ==
  [p \in DOMAIN r |->
     IF p = "elsewhere" \/ r[p] \cap Secrets = {} THEN r[p]
                                                ELSE (r[p] \ Secrets) \cup {Marker}]

(***************************************************************************)
(* "It is never silent": the model gets the cleaned response, or the tool's *)
(* own, never a half-redacted one; and if a secret that the walk knows      *)
(* where to find is left in it, the user has been told, or the hook was     *)
(* killed before it could tell.                                             *)
(***************************************************************************)
CleanedOrAnnounced ==
  context # NoContext /\ call.tool \in PostMatcher =>
    \/ context = Cleaned(response)
    \/ /\ context = response
       /\ \/ messages \cap {"unscanned", "unredacted"} # {}
          \/ {"PostToolUse", "killed"} \subseteq failed

(***************************************************************************)
(* "Deny reads of files whose whole purpose is holding secrets": when any   *)
(* argument of a call names one, or a command reads one, the model sees     *)
(* nothing of what it returns, unless PreToolUse failed; and a call that    *)
(* names only example files is never denied.                                *)
(***************************************************************************)
NamesProtected(p) == p.name # "example" /\ (p.stored \/ p.name = "secret")
ProtectedStaysOut ==
  pc = "done" =>
    /\ context # NoContext /\ call.tool \in ContentTools =>
         \/ "PreToolUse" \in failed
         \/ IF call.tool = "Bash" THEN ~call.suspect
            ELSE \A k \in DOMAIN call.input : ~NamesProtected(call.input[k])
    /\ context = NoContext /\ call.tool # "Bash" =>
         \E k \in DOMAIN call.input : call.input[k].name # "example"

(***************************************************************************)
(* Nothing is withheld from the model without a trace: if the log can be    *)
(* written, a denial and a redaction that took effect have been logged, the *)
(* redaction with exactly what was taken out; and one that is logged took   *)
(* effect, unless the hook was killed between the two.                      *)
(***************************************************************************)
Removed ==
  {h \in (DOMAIN response) \X Secrets : h[2] \in response[h[1]] \ context[h[1]]}
InterventionsAreOnRecord ==
  pc = "done" /\ writable =>
    /\ context = NoContext => [action |-> "read_denied"] \in events
    /\ context # NoContext /\ Removed # {} =>
         [action |-> "output_redacted", hits |-> Removed] \in events
    /\ "killed" \notin failed =>
         \A e \in events :
           /\ e.action = "read_denied" => context = NoContext
           /\ e.action = "output_redacted" => context # NoContext /\ Removed = e.hits
=============================================================================
