SPECIFICATION Spec
CONSTANTS
  LmStudio = lmstudio
  Dynamic = {lmstudio}
  Compatible = {azure}
  Homeless = {azure}
  Fixed = {}
  Configs = {c1, c2}
  Bare = Bare
  Tasks = {llm}
  Requests = {r1, r2}
  NoConfig = NoConfig
  Static = Static
  Empty = Empty
  NoEntry = NoEntry
  Idle = Idle
  InDoubt = InDoubt
  Torn = Torn
  MaxFaults = 2
SYMMETRY Symmetry
INVARIANTS
  FileIsCurrent AnswersSurviveRestarts ModelsFollowConfig
  SelectedModelIsServed
CHECK_DEADLOCK FALSE
