SPECIFICATION Spec
CONSTANTS
  None = None
  Unencodable = {"lone"}
  SafeBound = 2
  PlainBound = 4
  MaxDepth = 5
  Texts <- MCTexts
  Schemas <- MCSchemas
  MaxStrippedKeys = 1
  MaxMoves = 3
INVARIANTS
  BrokerAgrees
  OneMeaning
  ValidationSurvivesTheWire
  AcceptedIsFullyChecked
  ApprovalMeansWhatWasShown
  ApprovalFollowsTheAsk
CHECK_DEADLOCK FALSE
