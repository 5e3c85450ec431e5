SPECIFICATION FairSpec
CONSTANTS
  Hooks = {h1}
  oldKey = oldKey
  newKey = newKey
  name = name
  iban = iban
  bundled = bundled
  wider = wider
  widerCached = widerCached
  narrower = narrower
  Credentials = {oldKey, newKey}
  Personal = {name, iban}
  Identifiers = {iban}
  Rulesets <- MCRulesets
  Detects <- MCDetects
  Sha <- MCSha
  Source <- MCSource
  Prompts <- AnyPrompt
  Bundled = bundled
  NoRuleset = NoRuleset
INVARIANTS TypeOK VerdictOfOneRuleset NoSilentLeak AuditTellsTheDecision MissedPersonalDataIsExplained MissesShowUp AlarmsAreTrueInSync
PROPERTIES EveryPromptIsAnswered
