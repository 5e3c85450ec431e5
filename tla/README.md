# A TLA+ model of wazuh-guards

wazuh-guards keeps credentials and personal data out of a language model's
context: hooks of Claude Code scan prompts, deny reads and redact tool output; a
local daemon keeps the NLP model and the detection rules warm; the rules come
from a Wazuh manager, and the verdicts go back to it as events. This directory
holds TLA+ modules for the parts of it in which steps of several processes,
crashes, timeouts and failing writes meet, TLC configurations that check them on
small instances, and TLAPS proofs for all instances. `PROJECT.json` maps every
definition to the lines it models, and lists the runs, the mutants of the model
that each property refutes, the findings, the hazards and the theorems.

## 1. Inventory

Paths are below `src/src/wazuh_guards/` unless they begin with `src/`.

| Component | State it keeps | Operations | Interacts with | What is hard | What makes it correct |
|---|---|---|---|---|---|
| Pattern store, `ruleset.py` | cache file, its temporary file | `parse`, `load`, `load_cache`, `write_cache`, `load_bundled` | fetcher, daemon, `guardrailctl` | concurrent writers of one temporary name, kills between open and rename, failing writes, undecodable caches | the cache is whole; a fallback is never older than what was accepted; a served daemon has validated rules |
| Ruleset cell, `scanner.py` | `_ruleset` | `get_ruleset`, `set_ruleset` | refresh thread, handler threads | swaps under running scans | a scan uses one ruleset and reports that one |
| Daemon life, `daemon.py` | socket path, process state | `main`, idle reaper, refresh loop | other daemons, systemd | check-then-act on a path; stale sockets; restarts | one server; a live socket is not removed; in the end one is reachable |
| Scan path, `hooks/prompt_submit.py`, `client.py`, `daemon.Handler`, `scanner.scan` | the hook's progress, handler threads, `_analyzer`, `_presidio_error` | connect, scan, fall back, audit, respond | ruleset cell, audit log, Claude Code | timeouts racing answers, daemon death, swaps, a shared error flag | no silent leak; every prompt is answered; the trail matches the decision |
| Manager client, `wazuh/api.py` | token and its age | `get`, `authenticate`, `fetch_group_file` | manager | expiry, restarts, differing clocks, answers that are slow, endless or missing, login limit | no login loop; renewal never races expiry; a call ends unless its answer never does |
| Audit log, `audit.py` | `guardrail.json`, `guardrail.json.1` | `audit_event`, `_rotate_if_needed`, `build_event` | all hooks, Wazuh agent | hooks append and rotate without a lock; full disks | bounded; events reach the agent; one line per event |
| Redaction, `scanner.redact_text`, `hooks/post_tool_use.py` | none | choose spans, rewrite, walk a response | audit log | overlapping spans, offsets | no match survives whole; nothing else changes |
| Path policy, `hooks/pre_tool_use.py` | none | `is_protected_path`, `check_bash_command`, `evaluate` | audit log | order of allow and deny rules | denied exactly what the lists say |
| Pattern validation, `ruleset.parse` | none | `parse` | pattern store | errors in the middle of a payload | all or nothing |
| Policy and validators, `patterns.py` | none | Luhn, masking, thresholds | scanner | lengths and scores at their boundaries, merged findings | the strongest finding decides |
| Command line, `cli.py` | none | status, test, scan, patterns | daemon, pattern store | writes the cache while the daemon does | as for the pattern store |
| Hook registration, `src/scripts/register-hooks.sh` | Claude Code's settings | add, remove, dry run | editors, Claude Code | read-modify-write, repetition, crashes | registered once or gone; foreign hooks survive; nothing is half written or lost |
| Installer, live view, `src/scripts/` | installed files | copy, tail | everything | - | - |
| Alert rules, `src/deploy/wazuh/local_rules.xml` | manager's correlation windows | match events | audit log | events without a field, stale hosts, windows | an exposure raises its alert, stale rules show, the alarms of a host in sync are true |
| Service unit, `src/deploy/systemd/` | - | restart | daemon | restart after failure | - |

## 2. Modules

| Module | Models | Extends / instantiates |
|---|---|---|
| `RulesetCell` | abstract: what a daemon promises to its scans | - |
| `RulesetParse` | `ruleset.parse`, a pure function | `SequencesExt` |
| `PatternStore` | `ruleset.load` in any number of processes, the cache, the manager, the daemon's start, refresh and death | `Cell == INSTANCE RulesetCell WITH ...` |
| `MCPatternStore` | its instances, with payloads that `parse` accepts or not | `PatternStore`, `RulesetParse` |
| `PatternStoreProofs` | its theorems | `PatternStore`, `TLAPS` |
| `DaemonSocket`, `DaemonSocketProofs` | the socket path in `daemon.main`, and its theorems | `TLAPS` |
| `ScanService` | hook, client, handler thread and `scan` over a ruleset cell | `Cell == INSTANCE RulesetCell` |
| `AlertRules` | `build_event`, and the rules of `local_rules.xml` on one event | - |
| `PromptAlerts` | the prompts' events as the manager sees them | `ScanService`, `AlertRules` |
| `MCScanService`, `ScanServiceProofs` | its instance and its theorems | `PromptAlerts`, `TLAPS` |
| `WazuhApi`, `WazuhApiProofs` | the token protocol and its theorems | `TLAPS` |
| `AuditLog`, `MCAuditLog`, `AuditLogProofs` | the event log of concurrent hooks, its instances and theorems | `FiniteSetTheorems`, `TLAPS` |
| `ToolHooks` | a tool call between PreToolUse and PostToolUse | `SequencesExt` |
| `ToolAlerts`, `ToolHooksProofs` | the tool calls' events as the manager sees them, and the theorems | `ToolHooks`, `AlertRules` |
| `Redactor` | `redact_text`, a pure function | `SequencesExt` |
| `Comprehension` | a list comprehension with an `if`, which the next two use | `SequencesExt` |
| `Detection`, `MCDetection` | one call of `parse`, `luhn_valid`, `scan` or `redact_text` | `RulesetParse`, `Redactor`, `Comprehension` |
| `DetectionProofs` | its theorems, and what the folds compute | `Detection`, `FiniteSetTheorems`, `TLAPS` |
| `HookRegistration`, `MCHookRegistration`, `HookRegistrationProofs` | `register-hooks.sh`, its instance and its theorems | `Comprehension`, `TLAPS` |

The composition is by refinement: `PatternStore` implements `RulesetCell`
(`CellSpec`, checked and proved), and `ScanService` takes a `RulesetCell` for its
daemon instead of the whole store. So `ScanService` may let the daemon install
any ruleset at any time, which covers every way the store picks one.
`PromptAlerts` and `ToolAlerts` extend the models of the hooks with the alert
rules, so that their properties speak of what happened in a hook and of what the
manager makes of it. `MCPatternStore` assumes, and TLC evaluates, that the payloads
it calls parseable are those whose documents `RulesetParse` accepts.

### PatternStore

A file is a sequence of blocks reached through an inode; `cache` and `tmp` are
directory entries. `OpenTmp`, `WriteBlock`, `CloseTmp`, `Replace` are the four
system calls of `write_cache`, so that a second writer can truncate a file under
the first one, overlay its blocks, or rename it away. `Accept` and `Reject` are
the fetch together with `parse` (a fetch has no effect on local state before it
returns; a daemon that has no manager configured has no fetcher, and behaves as
one that never reaches it); `ReadCache` is `load_cache` and `load_bundled` (between
the two nothing is written). `Refresh` is the daemon's timer, `cmd_patterns` the
command that loads on the side. `Parses` is what `RulesetParse!Accepted` is about.
Contents are abstract blocks, but the conversion of the cache by text mode is
there (`AsRead`, `TextRead`), because the sha is computed after it. `recent` and
`unsaved` are history variables; they restrict nothing. Kills strike at any step of `load`.

### DaemonSocket

`pc` names the line of `main` a daemon is at; each system call on the path is a
step. The path is absent or names the owner of the socket bound last. With
`Overlapping = FALSE` daemons start one after another and an exit is not
interleaved with another daemon's bind; the code does nothing to ensure that,
which is why the race is a finding and the ordered case is what a user with one
systemd unit gets. The exit's steps (`Close`, `ExitCheck`, `ExitUnlink`) are there, but
no run lets them meet a successor's bind: a successor probes, loads and warms up
for seconds before it binds, the exit lasts an instant, and no sentence of the
repository speaks of the two at once. It is a hazard without a property.

### ScanService

A prompt is a set of sensitive values; a ruleset is the set of credentials it
detects; the NLP pass finds the personal ones, of which those in `Identifiers` (an
IBAN, a passport number: `patterns.PRESIDIO_ENTITIES`) are of high severity and block
as a credential does. Findings are sets: the thresholds,
the deduplication, and the wording of answers do not show. `handler[h]` is the
thread that serves hook `h`; it outlives a hook that has given up. The daemon
may die, hang (no fairness is assumed of it) and return. `seen` is history.

### WazuhApi

Time passes in ticks. A token's `age` is what the client measures from its
arrival; by the manager's clock it is older by `lag`, its time under way (`Tick`) and
whatever the clocks differ by (`ClocksDiffer`). `urlopen`'s timeout is one of each
socket operation, so there are two clocks of a call: `quiet`, since something came
last, which the timeout limits to `MaxDelay`, and `waited`, since it began, which
nothing limits: `PieceArrives` starts the timeout again. A call may fail at any time
(`Fails`), and the manager may answer 401 at any time and for any reason
(`Unauthorized`). `waited`, `age` and `lag` count up to `Lifetime`; more makes no
difference to any guard or property.

### AuditLog

Inodes again, with the number of events in each; a writer is a hook process
inside `audit_event`, which may be killed or meet an error at each step. The
agent is external: it reads the file it has open to the end, then opens the
one the path names. `PromptAgent = TRUE` is the agent at its best: it has caught
up whenever a hook begins an event.

A write that breaks off leaves half a line (`torn`), which the next event of any
hook is appended to; `halves` and `garbled` count what that costs.

### RulesetParse, Redactor, Detection

`parse` is the fold over the entries that its loop is; an entry is the outcome of
each check. `redact_text` is the fold that chooses spans and the fold that
replaces them, on texts of distinct positions, so that what is left can be told
exactly. `Detection` is a module with one step: `Init` is any call with any
arguments from small sets, the step is its return, and the invariants compare
the value with a reference that is written another way (digits from the right,
all spans at once, a quantifier over what there is to find). A text to scan is
what each rule matches in it and what Presidio reports. `PRESIDIO_ENTITIES` has one
entity for each treatment (threshold, severity, Luhn, shape), scores sit at
the thresholds and one hundredth below the lowest.

### AlertRules, PromptAlerts, ToolAlerts

A rule is a condition on an event's fields with an id and a level. The manager is
external: it reports an event under a matching rule of the highest level, so the
properties speak of levels (`Raises`). `expected` is the sha that the operator
wrote into rule 100220 at the last publish; the properties quantify over it. In
`PromptAlerts` two rulesets may be one text that was fetched once and found in
the cache later; `ShaAssumption` says that one text detects the same.
`AlarmsAreTrueInSync` is about the alarms of a host that has fetched the published text,
in both directions: one above level 3 is about a prompt that deserves it, and a
prompt that deserves it is reported at level 10, except for personal data while the
NLP engine is broken.

### HookRegistration

`Read` is the script up to its first write: it reads the settings and merges into
its copy. The backup's and the temporary file's open and close are steps, and the
script may die before each (`Abort`); somebody else edits the settings at any time,
by replacing them, which is what editors and Claude Code do. `edited` is history: the last
edit of a run, before or after the backup. Dry runs and runs that find settings
which are no JSON write nothing and are not in the model. An entry is its matcher
(one of `Matchers`) with the list of its hooks (of `Hooks`); `FilesAssumption` and
`EntriesAssumption` say that what is found and added has this shape.

### ToolHooks

The steps of both hooks' `main`, each of which may crash or be killed; the walk
redacts place after place on a copy. What a hook prints counts once it has
exited, so a kill between the event and the answer loses the answer. The tools'
arguments and results are external; which tools have a hook is taken from
`register-hooks.sh`. The names, directories and commands on PreToolUse's lists are
reduced to whether they match, the rules to the secrets they find.

## 3. Runs

All counts are distinct states; `StoreShared`, `ScanOne`, `HookRegistration` and
`ToolHooks` take between half a minute and two minutes with two workers, the others less.

| Run (cfg) | Shows | Instance | States |
|---|---|---|---|
| `StoreSolo` | `TypeOK`, `CacheWhole`, `NeverForgets`, `NoRegression`, `PublishedReachesDaemon` | one loader, 3 payloads (one malformed, one with CR LF), failing cache writes, no cache or one of 3 kinds (valid, refused, no text), 2 kills, fairness | 123 k |
| `StoreShared` | `NeverDisarmed`, refinement `CellSpec`, `PublishedReachesDaemon` | two loaders, failing cache writes, no cache or an undecodable one, 3 inodes, 1 kill, fairness | 754 k |
| `SocketOrdered` | `SoleServer`, `LiveSocketKept`, `InTheEndReachable` | one unit, two daemons by hand, 3 kills or exits | 418 |
| `ScanOne` | `TypeOK`, `VerdictOfOneRuleset`, `NoSilentLeak`, `AuditTellsTheDecision`, `MissedPersonalDataIsExplained`, `MissesShowUp`, `AlarmsAreTrueInSync`, `EveryPromptIsAnswered` | one hook, all prompts over 4 values, 4 rulesets, two of one text, fairness | 326 k |
| `WazuhApi` | `AtMostTwoLogins`, `NeverRacesExpiry`, `RetryRecovers`, `EveryGetEnds` | TTL 3, life time 5, timeout 2, 2 restarts, fairness | 33 k |
| `AuditShared` | `DiskBounded`, `HalvesGarbleOneEach` | two writers, two broken writes, 6 inodes | 28 k |
| `ToolHooks` | `TypeOK`, `CleanedOrAnnounced`, `ProtectedStaysOut`, `InterventionsAreOnRecord`, `SecretsAreReported` | 6 tools, all kinds of path, responses of up to 2 fields, the bundled ruleset published or another one | 1.64 M |
| `Detection` | `AllOrNothing`, `LuhnCountsFromTheRight`, `StrongestWins`, `RewrittenAsAWhole`, `OnlyTailsSurvive` | payloads and rulesets of 2 rules, numbers of 12 to 20 digits, 3 values, 4 scores; 3 rules on 4 positions | 400 k |
| `HookRegistration` | `SettingsWhole`, `OthersSurvive`, `RegisteredOnceOrGone`, `OverwrittenIsBackedUp` | 3 runs, 2 edits, 2 events with up to 2 entries, shared, empty or foreign ones | 3.26 M |

Bounds, and why they are enough. Two loaders and one temporary name give every
interleaving of two `write_cache` calls; more loaders share the same name and add
nothing that the proofs (for any set of loaders) do not cover. Payloads of two
blocks are the shortest that can be half written; `StoreShared` publishes
one block, which keeps its liveness check small (a file is then torn when it is
empty), and `StoreSolo` and `StoreTorn` publish two. One kill per loader run reaches
every crash point, two let a restart crash again. In `WazuhApi` the margin between
`TTL` and `Lifetime` is one timeout: a request may stay within it or take longer, and
so may the delivery of a token. Two writers suffice for both check-then-rename races, and the proofs
are for any number. `ScanOne` has one hook, with its handler thread, against
everything that happens to a daemon; two scans share only the ruleset cell and
the NLP error, and that this does no harm, for any number of hooks, is what
`ScanServiceProofs` proves of all the safety properties of the run. Redaction
needs four positions for two rules to nest, touch and overlap in a chain. Two
rules, one of them named like an entity of Presidio, and two values that read alike
when redacted are what it takes to merge findings. Luhn sees both parities
inside 13 to 19 and the lengths next to the limits; all digits but two are 0,
which is enough to tell every two positions apart. In `ToolHooks` two fields are enough
for a walk that fails between them. Three runs of the registration are a first
one, one that dies anywhere, and one that cleans up after it. Bounds on
counters (`MaxKills`, `MaxStops`, `MaxRestarts`, `MaxHalves`, `MaxRuns`,
`MaxEdits`) are constants of the modules; the events in a log file need none, since
a file no longer in use holds nothing.

`SYMMETRY` is used for writers and inodes (`AuditShared`, `AuditRace`), in runs
without liveness. `Detection`, `ToolHooks` and `HookRegistration` turn off the
deadlock check: the function returns, the tool call ends, the runs are used up.

### Findings (violation runs)

Each run checks a sentence of the repository and ends in a counterexample.

| Run | What the code does | What was said |
|---|---|---|
| `StoreTorn` | processes share one temporary name, a half-written file is renamed into place | `ruleset.py:194` "no torn file for a concurrent reader" |
| `SocketRace` | the unlink by name removes a socket bound since the probe | `daemon.py:136` |
| `AuditRace` | two hooks that find the log full rotate twice, an unread event is moved out of the agent's reach | `audit.py:30` |

A torn cache is not a disarmed guardrail: `StoreShared` and `ImplementsCell` show
that under the same interleavings the daemon only ever installs what parses. (A
torn file may even parse, as `<<a1, b2>>` does in the instances; it is then installed
as what it is, a validated ruleset from the cache.)

### Limits that the modules show

These follow from actions of the modules and have no run of their own.

- A refresh that fails is not without effect: `load` falls back and
  `refresh_patterns` installs that. After a cache write that failed (`Accept`,
  `CacheWriteFails`, `Install`, `Refresh`, `Reject`, `ReadCache`, `Install`) a serving
  daemon goes back to the older cached or bundled rules, against `daemon.py:59` and
  `src/README.md:209` ("previous ruleset stays in force"). `NoRegression` and
  `NeverForgets` name this exception, by the history variable `unsaved`, and no other.
- A cache that is not UTF-8 makes `load` raise (`ReadCache`, `HandleRaise`),
  against `ruleset.py:206`; a starting daemon ends, and `PublishedReachesDaemon`
  shows that it recovers once the manager can be reached.
- A payload with CR LF line ends has another sha when it comes back from the
  cache (`AsRead`), against `local_rules.xml:124`. The properties of the store
  compare contents up to that conversion.
- With the daemon down, the hook's own scan knows the bundled rules only
  (`ScanService!Fallback`), so a credential that only a published rule finds is
  not blocked (`src/README.md:207`, `src/tests/test_prompt_hook.py:73`), and its event
  says `bundled` on a host that has fetched (`local_rules.xml:137`). `NoSilentLeak` holds
  the hook's own scan to the bundled rules and the daemon to a ruleset that was in
  force; `MissesShowUp` says that what got through is reported as drift.
- A manager that sends its answer piece by piece, for ever, keeps a get from
  ending (`EveryGetEnds` excepts this), and with it a refresh, or the start of a daemon,
  which loads its patterns before it listens.
- A write that runs out of disk in mid-line takes the next event with it, which is
  appended to its half line (`HalvesGarbleOneEach` bounds the loss).
- The rule for an unreachable daemon (100207, level 5) is never the one an event is
  reported under: the hook's own scan uses the bundled rules, so rule 100221 (level
  7) matches as well. A daemon without its NLP engine raises no alert at all.
- Denials and errors carry no sha and match the drift rule 100220 (level 10) with
  whatever is published, a daily occurrence where PreToolUse denies reads;
  `SecretsAreReported` holds for an error event because of its own rule, too.
- PostToolUse redacts with the bundled rules (`src/README.md:220`): a secret that only the
  published ones know is in no event.
- `parse` lets a pattern that matches the empty string pass if it begins with
  `(?!` (`RulesetParse!Sane`), whatever follows.
- A second run of `register-hooks.sh` overwrites the backup of the original settings
  with its own result (`OpenBackup`); what an editor writes between the backup and
  the rename is lost, as `OverwrittenIsBackedUp` says. An entry of another tool
  that has no hooks is dropped. Two runs at the same time are not modelled; they
  would share the name `settings.json.tmp` as `StoreTorn`'s loaders share theirs.
- A PostToolUse hook killed between its event and its answer has logged a redaction
  that the model's context does not have; `InterventionsAreOnRecord` says that only a
  kill does this. The matchers of `register-hooks.sh` give `Glob` no PostToolUse and
  other makers' tools no hook at all; the property speaks of the registered tools.
- Of two matches that overlap without being nested the second is dropped, and
  the part that sticks out stays in the text, where `scanner.py:213` speaks of
  contained spans. `OnlyTailsSurvive` says exactly what may stay.

## 4. Fairness

- `PatternStore!FairSpec`: weak fairness of `Start` (systemd: `Restart=on-failure`),
  of `Serve` and of the steps of the daemon's `load` (each system call returns and
  each fetch ends, which it does unless the manager's answer trickles in for ever;
  see `EveryGetEnds`), and of `Refresh` (the timer thread is an endless loop
  whose exceptions are caught). Nothing of the manager, of other loaders or of
  `CacheWriteFails` alone: whether a write succeeds is left open.
- `DaemonSocket!FairSpec`: running processes run; units are restarted.
- `ScanService!FairSpec`: only the hook's own steps: every socket operation of
  the client has a timeout, and a daemon's reply is one finite write. Otherwise
  nothing is assumed of the daemon.
- `WazuhApi!FairSpec`: time passes, and the timeout fires when nothing has come for
  `MaxDelay`. Nothing is assumed of the manager, so `EveryGetEnds` is a disjunction:
  the get ends, or pieces of an answer keep coming.

## 5. Proofs

TLAPS checks the following for every value of the constants that satisfies the
named assumptions of the modules.

- **PatternStore.** `Inv` is type correctness together with two facts of the
  locals: a process that is about to install holds an honest ruleset (one whose
  source is what it says), and a serving daemon has one. `Invariance` gives
  `TypeCorrect`, `AlwaysArmed` and, with the refinement mapping
  `serving <- life = "serving"`, `ImplementsCell`: each step installs, opens,
  stops or stutters. The cache's contents do not occur in the argument, so it
  holds under every interleaving and failure.
- With `Loaders = {Daemon}` (`Solo`), `SoloInv` follows the temporary file: its
  owner is where the descriptor says, what is written so far is a prefix of the
  ruleset, and from `CloseTmp` on all of it. That gives `CacheIsWhole`. `MemoryInv`
  relates the cache, as long as the daemon's last write of it went well, to what was
  accepted and enforced; `ForgetsNothing` and `NothingRegresses` follow. A second
  loader breaks this as it does in `StoreTorn`.
- **DaemonSocket.** For daemons that do not overlap: whoever is past its bind owns
  the path, and nobody else is between its probe and its bind. `OneServer`,
  `LiveSocketsSurvive`.
- **WazuhApi.** `Ages`: a token under way has age zero; in a first request it was
  younger than `TTL` when the request began, so it is younger than `TTL + waited`; in a
  retry it has come with the login just before, so it is no older than `waited`. If the
  manager finds it too old, `lag + waited` has used up the margin `Lifetime - TTL`
  (`NoRaceWithExpiry`), or in a retry all of `Lifetime` (`OneRetryIsEnough`). No
  bound on the length of a call is assumed: the statements say how much time and
  clock difference the code's margin covers. `Logins` counts: `TwoLogins`. With the
  defaults (780 s, 900 s, timeout 10 s) the margin is twelve timeouts.
- **AuditLog.** `RoomFor(f)`: the events in a file and the writers that may still
  append to it without looking at its size stay below `Capacity` plus the
  number of writers. A check adds a writer only to a file below `Capacity`, a
  write trades a writer for an event, a rename strands at most the writers that
  have it open. `LogIsBounded`, by cardinalities of finite sets. `LossInv`:
  the garbled events and the half lines that nothing has been appended to are
  together no more than the writes that broke off, hence `HalvesAreCheap`. With one writer
  at a time and an agent that keeps up (`Alone`) nothing is unread when the log
  is renamed, hence `AloneTheAgentFollows`: `AuditRace` needs its second writer.
- **ScanService.** `Inv` says of the daemon that an engine that is missing has
  left its error (`DaemonOK`), and of each hook (`HookOK`) what its thread has found so far
  and with which ruleset (`ThreadOK`), what a result that has arrived says of its
  ruleset, prompt and error (`VerdictOK`), and what is in the log and was shown
  (`ResultOK`). A thread's ruleset is in `seen` as long as its hook waits, which
  is why a late reply does no harm. `OneRuleset`, `FailsClosed`, `TrailIsTrue`,
  `MissesAreExplained`; `DriftIsSeen` and `TrueAlarms` take the same invariant
  through `build_event` and the rules. `BlockIsHigh` says that a verdict blocks just when
  something of high severity was found, which `FailsClosed` and both directions of
  `TrueAlarms` rest on.
- **ToolHooks.** `WalkOK`: the places before `step` are cleaned in the copy, the
  others are as they were, and `hits` is what was taken out; `PreOK` and
  `EventsOK` say which events each point of the two hooks can have behind it, and
  `Ends` lists the ways a call ends. `NeverHalfRedacted`, `ProtectedIsDenied`,
  `RecordIsKept`, `SecretsReachTheManager` are read off that list.
- **HookRegistration.** `BackupOK`: from the backup on, the settings are absent or
  in the backup, or were edited since. `SettingsStayWhole`, `NothingIsLost`, for
  any settings, hooks, runs and edits. What the script's copy holds is `MergedOK`:
  settings in which ours is called once per event or not at all, as the mode says.
  That needs what the loops compute for lists of any length. Each of them is
  `Each(p, s)`, the pieces `p` makes of the elements of `s` in a row; `EachConcat` and
  `EachEach` say that this distributes over concatenation and that two loops in a row
  are one, and `StripCalls` that the calls left by `strip_ours` are the foreign calls of
  before, in their order. `MergedCalls` puts add and remove together;
  `OthersAreUntouched` and `OnceOrGone` follow.
- **Detection.** The invariant `IInv` is the least part: the call never changes, and
  the result is the function's value. The rest says that each loop computes its
  reference, for payloads, numbers, findings and spans of any length:
  `ParseReference`, `LuhnReference`, `DedupeReference` and `ScanReference`,
  `KeptReference` and `RedactReference`, `TailsReference`. A fold is first shown
  to be a walk: values `g[0]`, ..., `g[n]`, each made of the one before (`FoldCheck`,
  `FoldTotal`, `FoldKeep`, `FoldChoose`, `FoldSubstitute`), so that an invariant
  of the loop can be followed along it. `ParseIsAllOrNothing`, `LuhnCounts`,
  `VerdictIsStrongest`, `RewritingIsAsAWhole` and `TailsSurvive` are read off the
  references. `IsFiniteSet(Values)` is assumed because `scan` lists what there is in
  a text, and a text is finite.

Induction over the turns of a loop is carried out without the library's
induction theorems, which take an operator. Where a fact of this kind is
claimed, the numbers at which it fails form a set, and a nonempty set of naturals has a
least member (`Induction`, from `WFMin`). The folds and `FlattenSeq` are defined by
`CHOOSE` of a recursive function, so that there is such a function is a lemma too
(`Recursion`, `SubsetRecursion`, `Flattening`, `FlattenExists`). A few of these
stand in both proof modules.

Every invariant and every action property of the passing runs is the statement of a
theorem, for all values of the constants. The exceptions are the liveness properties,
`PublishedReachesDaemon`, `InTheEndReachable`, `EveryPromptIsAnswered` and
`EveryGetEnds`, which are only model-checked: fairness and `ENABLED` are out of the
prover's reach. No module here is recursive.

## 6. Not modelled

The regular expressions and the NLP engine (data and a third-party library: what
they find is a parameter), TLS and URLs, texts of messages, the Docker
deployment, the installer and the live view. `ping` and `status` of the daemon
read without changing anything; the commands of `guardrailctl` besides
`patterns` print, run a hook or call systemctl. The masking of samples is a
parameter of `Detection` (`Sample`). The correlation rules 100210 to 100212 count
alerts in the manager's memory, by the manager's own code.

## 7. Plan

Done: the store and its cell, the socket, the scan path, the manager client, the
audit log, redaction, the tool hooks; pattern validation, the pure functions, the
registration, the alert rules and their composition with both kinds of hooks;
proofs of all safety properties, those about what the loops compute included.

Left, in this order:

1. `MaskedSample`: `patterns.redact` on sequences, in place of `Sample`: what two
   samples that read alike may have in common.
2. Two registrations at the same time, and the installer around them.
3. The correlation rules as counters over `PromptAlerts` and `ToolAlerts`, if the
   manager's semantics of `frequency` and `if_matched_sid` are taken as given.
