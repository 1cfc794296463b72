SPECIFICATION Spec
CONSTANTS
  None = None
  MaxRepairBudget = 2
  Kinds = {"service", "target", "host", "api"}
  Identifiers = {"api", "web", "db", "prod", "production", "v1"}
  Documents <- MCDocuments
  Keys = {"deploy", "status", "destroy"}
  Answers <- MCAnswers
  Statuses = {"FRESH", "MISSING", "STALE", "PROVIDER_ERROR"}
  HarnessReasons <- MCHarnessReasons
  Arguments <- MCArguments
  MaxReasonCodes = 2
INVARIANTS
  EscalationsHaveAnOwner
  NoGateIsDisarmed
  TokenBindsResolvedMode
  UnrecordedTellsNothing
  EveryOutcomeIsAnswerable
  LeasesAreCanonical
PROPERTIES
  ResubmissionsAreEarned
