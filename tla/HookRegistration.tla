-------------------------- MODULE HookRegistration --------------------------
(***************************************************************************)
(* scripts/register-hooks.sh: the guardrail's hooks are merged into, or     *)
(* taken out of, the settings of Claude Code, which the user and Claude     *)
(* Code (external) edit meanwhile.  The script runs again and again, and is *)
(* killed or fails at any step.  A dry run, and one that finds settings     *)
(* that are no JSON, end without writing anything.                          *)
(*                                                                          *)
(* Settings are the entries of each event, and the rest; an entry is a      *)
(* matcher with the hooks it calls.                                         *)
(***************************************************************************)
EXTENDS Naturals, Comprehension

CONSTANTS
  OurEvents,    \* the events the guardrail has a hook for
  Hooks,        \* the commands that settings may call
  Ours,         \* the guardrail's hook: its command names wazuh_guards.hooks
  Matchers,     \* what they may be called for
  OurMatcher,
  Added,        \* an entry that somebody else may add to an event
  Rests,        \* what the rest of the settings may be
  InitialFiles, \* what the settings may be at first
  MaxRuns,      \* bound: runs of the script
  MaxEdits      \* bound: edits

\* A file there is none of, one that is half written, one with a typo.
Absent == [absent |-> TRUE]
Torn == [torn |-> TRUE]
NotJson == [typo |-> TRUE]
EntryRecords == [matcher : Matchers, hooks : Seq(Hooks)]
IsSettings(s) ==
  /\ DOMAIN s = {"hooks", "rest"}
  /\ \A e \in DOMAIN s.hooks : s.hooks[e] \in Seq(EntryRecords)

ASSUME BoundsAssumption == MaxRuns \in Nat /\ MaxEdits \in Nat
ASSUME EntriesAssumption == Ours \in Hooks /\ OurMatcher \in Matchers /\ Added \in EntryRecords
ASSUME FilesAssumption == \A s \in InitialFiles : s \in {Absent, NotJson} \/ IsSettings(s)

VARIABLES
  settings, bak, tmp,  \* settings.json, settings.json.bak, settings.json.tmp
  pc, mode,
  merged,              \* the script's settings
  copying,             \* what its backup reads
  edited,              \* history: the last edit during this run
  runs, edits

files == <<settings, bak, tmp>>
run   == <<mode, merged, copying>>
vars  == <<files, pc, run, edited, runs, edits>>

----------------------------------------------------------------------------
OurEntry == [matcher |-> OurMatcher, hooks |-> <<Ours>>]
Theirs(h) == h # Ours

\* Drops the guardrail's hooks, and the entries that have none left.
DropEntries(entries) ==
  Where(entries, LAMBDA e : e.hooks # <<>> /\ Ours \notin ToSet(e.hooks))
strip_ours(entries) ==
  Where([i \in DOMAIN entries |-> [entries[i] EXCEPT !.hooks = Where(@, Theirs)]],
        LAMBDA e : e.hooks # <<>>)

Entries(hooks, e) == IF e \in DOMAIN hooks THEN hooks[e] ELSE <<>>

\* The events that are left without entries go.
Stripped(hooks) ==
  [e \in {e \in DOMAIN hooks : strip_ours(hooks[e]) # <<>>} |-> strip_ours(hooks[e])]
WithOurs(hooks) ==
  [e \in DOMAIN hooks \cup OurEvents |->
     Entries(hooks, e) \o IF e \in OurEvents THEN <<OurEntry>> ELSE <<>>]

Empty == [hooks |-> <<>>, rest |-> "empty"]
RegisterAgain(s, m) ==
  [s EXCEPT !.hooks = IF m = "remove" THEN Stripped(@) ELSE WithOurs(@)]
Merge(s, m) ==
  [s EXCEPT !.hooks = IF m = "remove" THEN Stripped(@) ELSE WithOurs(Stripped(@))]

Init ==
  /\ settings \in InitialFiles
  /\ bak = Absent /\ tmp = Absent
  /\ pc = "idle" /\ mode = "none" /\ merged = Absent /\ copying = Absent
  /\ edited = "no" /\ runs = 0 /\ edits = 0

Goes(here, there) == pc = here /\ pc' = there

Read ==
  /\ Goes("idle", "backup")
  /\ runs < MaxRuns /\ runs' = runs + 1
  /\ settings # NotJson
  /\ mode' \in {"register", "remove"}
  /\ merged' = Merge(IF settings = Absent THEN Empty ELSE settings, mode')
  /\ edited' = "no"
  /\ UNCHANGED <<files, copying, edits>>

\* shutil.copy2 truncates the backup of the last run, then fills it.
KeepOldBackup ==
  /\ Goes("backup", IF settings = Absent \/ bak # Absent THEN "write" ELSE "copy")
  /\ copying' = settings
  /\ bak' = IF settings = Absent \/ bak # Absent THEN bak ELSE Torn
  /\ UNCHANGED <<settings, tmp, mode, merged, edited, runs, edits>>
OpenBackup ==
  /\ Goes("backup", IF settings = Absent THEN "write" ELSE "copy")
  /\ copying' = settings
  /\ bak' = IF settings = Absent THEN bak ELSE Torn
  /\ UNCHANGED <<settings, tmp, mode, merged, edited, runs, edits>>
CloseBackup ==
  /\ Goes("copy", "write")
  /\ bak' = copying
  /\ UNCHANGED <<settings, tmp, run, edited, runs, edits>>

OpenInPlace ==
  /\ Goes("write", "fill")
  /\ tmp' = Torn /\ settings' = Torn
  /\ UNCHANGED <<bak, run, edited, runs, edits>>
OpenTmp ==
  /\ Goes("write", "fill")
  /\ tmp' = Torn
  /\ UNCHANGED <<settings, bak, run, edited, runs, edits>>
CloseTmp ==
  /\ Goes("fill", "replace")
  /\ tmp' = merged
  /\ UNCHANGED <<settings, bak, run, edited, runs, edits>>

\* os.replace
Replace ==
  /\ Goes("replace", "idle")
  /\ settings' = tmp /\ tmp' = Absent
  /\ UNCHANGED <<bak, run, edited, runs, edits>>

\* Killed, or out of disk space: the files stay as they are.
Abort ==
  /\ pc # "idle" /\ pc' = "idle"
  /\ UNCHANGED <<files, run, edited, runs, edits>>

\* An editor replaces the file with another one, or leaves it with a typo.
Edits(s) ==
  {NotJson} \cup {[s EXCEPT !.rest = r] : r \in Rests} \cup
  {[s EXCEPT !.hooks = [x \in DOMAIN @ \cup {e} |->
                          IF x = e THEN Append(Entries(@, e), Added) ELSE @[x]]] :
     e \in OurEvents}

Edit ==
  /\ edits < MaxEdits /\ edits' = edits + 1
  /\ settings' \in Edits(IF settings \in {Absent, NotJson} THEN Empty ELSE settings) \ {settings}
  /\ edited' = CASE pc = "idle" -> "no" [] pc = "backup" -> "after_read"
                 [] OTHER -> "after_copy"
  /\ UNCHANGED <<bak, tmp, pc, run, runs>>

Script == Read \/ OpenBackup \/ CloseBackup \/ OpenTmp \/ CloseTmp \/ Replace \/ Abort

Next == Script \/ Edit

Spec == Init /\ [][Next]_vars

----------------------------------------------------------------------------
\* What an event calls: each hook with the matcher it is called for.
Calls(s, e) ==
  IF s = Absent THEN <<>>
  ELSE FlattenSeq([i \in DOMAIN Entries(s.hooks, e) |->
         LET entry == s.hooks[e][i]
         IN  [k \in DOMAIN entry.hooks |-> <<entry.matcher, entry.hooks[k]>>]])
IsTheirs(call) == call[2] # Ours
IsOurs(call) == call[2] = Ours

(***************************************************************************)
(* "Hooks belonging to other tools survive untouched": a run that nobody    *)
(* edits the settings during leaves every other tool's hooks, in their      *)
(* order and with their matchers, and everything else as it was.            *)
(***************************************************************************)
OthersSurvive ==
  [][Replace /\ edited = "no" =>
       /\ \A e \in DOMAIN settings'.hooks \cup OurEvents :
            Where(Calls(settings', e), IsTheirs) = Where(Calls(settings, e), IsTheirs)
       /\ settings # Absent =>
            /\ settings'.rest = settings.rest
            /\ \A e \in DOMAIN settings.hooks \ DOMAIN settings'.hooks :
                 Where(Calls(settings, e), IsTheirs) = <<>>]_vars

(***************************************************************************)
(* The hooks are registered once, however often the script has run before   *)
(* and whatever was left of it, and a removal leaves none: "this one should *)
(* be trivially reversible".                                                *)
(***************************************************************************)
RegisteredOnceOrGone ==
  [][Replace => \A e \in DOMAIN settings'.hooks \cup OurEvents :
       Where(Calls(settings', e), IsOurs) =
         IF mode = "register" /\ e \in OurEvents THEN <<<<OurMatcher, Ours>>>> ELSE <<>>]_vars

(***************************************************************************)
(* The settings are replaced as a whole from what was read of them before:  *)
(* whatever the script overwrites is in the backup by then, an edit that    *)
(* came in between included, except one that came after the backup.         *)
(***************************************************************************)
OverwrittenIsBackedUp ==
  [][Replace => settings \in {Absent, bak} \/ edited = "after_copy"]_vars

(***************************************************************************)
(* No crash, at no step, leaves settings that are half written.             *)
(***************************************************************************)
SettingsWhole == settings # Torn
=============================================================================
