\* The API and the bridge write one order's row, with any CMMS answers.
SPECIFICATION Spec
CONSTANTS
  api = api
  bridge = bridge
  Writer = {api, bridge}
  Answers <- AnyAnswer
  MaxCalls = 3
SYMMETRY WriterSymmetry
INVARIANT PhaseClaimsNoMore
PROPERTIES FirstDateKept FreshNeverReopens
CHECK_DEADLOCK FALSE
