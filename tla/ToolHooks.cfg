SPECIFICATION Spec
CONSTANTS
  Secrets = {key}
  Harmless = {line}
  Marker = Marker
  NoContext = NoContext
  MaxFields = 2
  BundledSha = "bundled"
  Shas = {"bundled", "newer"}
CHECK_DEADLOCK FALSE
INVARIANTS TypeOK CleanedOrAnnounced ProtectedStaysOut InterventionsAreOnRecord SecretsAreReported
