---------------------------- MODULE PromptAlerts ----------------------------
(***************************************************************************)
(* What the manager learns of the prompts: ScanService's audit events, as   *)
(* the alert rules see them.                                                *)
(***************************************************************************)
EXTENDS ScanService, AlertRules

CONSTANTS
  Sha,      \* of the text of each ruleset
  Source    \* where each came from: one text may have come from several places

ASSUME ProvenanceAssumption ==
  /\ DOMAIN Sha = Rulesets
  /\ Source \in [Rulesets -> {"wazuh", "cache", "bundled"}]
  /\ Source[Bundled] = "bundled"
ASSUME ShaAssumption ==
  \A r, s \in Rulesets : Sha[r] = Sha[s] => Detects[r] = Detects[s]

Event(result_) ==
  build_event(result_.action, Severities(result_.findings), result_.mode,
              Sha[result_.ruleset], Source[result_.ruleset])
Events(h) == {Event(log[h][i]) : i \in DOMAIN log[h]}

(***************************************************************************)
(* "A host reporting a different sha is running stale or locally-modified   *)
(* patterns": whatever ruleset the operator has published, a prompt that it *)
(* would have stopped and that got through is reported as drift, if it is   *)
(* on record at all, whatever swaps, crashes and timeouts there were.       *)
(***************************************************************************)
MissesShowUp ==
  \A h \in Hooks, published \in Rulesets :
    LetGo(h) /\ prompt[h] \cap Detects[published] # {} =>
      \A e \in Events(h) : Raises(e, Sha[published], 10)

(***************************************************************************)
(* A host that has fetched the published text, now or before its daemon     *)
(* last started, raises true alarms for what the daemon has judged: above   *)
(* level 3 only for a prompt with a credential that the published rules     *)
(* know or with personal data of high severity, and for each of these at    *)
(* level 10, except for personal data when the NLP pass failed.             *)
(***************************************************************************)
AlarmsAreTrueInSync ==
  \A h \in Hooks, published \in Rulesets :
    /\ \A r \in seen[h] \cap Rulesets : Sha[r] = Sha[published] /\ Source[r] # "bundled"
    /\ result[h].mode = "daemon"
    => \A e \in Events(h) :
         /\ Raises(e, Sha[published], 4) =>
              prompt[h] \cap (Detects[published] \cup Identifiers) # {}
         /\ ~Raises(e, Sha[published], 10) =>
              /\ prompt[h] \cap Detects[published] = {}
              /\ prompt[h] \cap Identifiers = {} \/ result[h].presidioError
=============================================================================
