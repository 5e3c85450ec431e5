--------------------------- MODULE MCScanService ---------------------------
(***************************************************************************)
(* Instances of ScanService and its alerts.  The bundled ruleset knows one  *)
(* credential; a pushed ruleset adds a second one, and has been fetched or  *)
(* was found in the cache; another one drops the first.                     *)
(***************************************************************************)
EXTENDS PromptAlerts

CONSTANTS oldKey, newKey, name, iban, bundled, wider, widerCached, narrower

MCRulesets == {bundled, wider, widerCached, narrower}
MCDetects ==
  [r \in Rulesets |-> CASE r = bundled  -> {oldKey}
                          [] r = narrower -> {newKey}
                          [] OTHER        -> {oldKey, newKey}]
MCSha == [r \in Rulesets |-> IF r = widerCached THEN wider ELSE r]
MCSource == [r \in Rulesets |-> CASE r = bundled     -> "bundled"
                                    [] r = widerCached -> "cache"
                                    [] OTHER           -> "wazuh"]

AnyPrompt == SUBSET (Credentials \cup Personal)
=============================================================================
