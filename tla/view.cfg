CONSTANTS
  Revs = {r1}
  Envs = {e1, e2}
  Times <- MCTimes
  StageTypes <- MCStageTypes
  Unmapped = Unmapped
  NoResponse = NoResponse
SPECIFICATION Spec
INVARIANTS
  ShownWhereItStands
  NoCommitLeftOut
