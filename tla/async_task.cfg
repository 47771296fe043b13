SPECIFICATION Spec
CONSTANTS
  Suno = suno
  Gemini = gemini
  Video = video
  Tasks = {1, 2, 3, 4, 5}
  Passes = {p1, p2}
  Channels = {suno, gemini, video}
  Kind <- MCKind
  ChannelOf <- MCChannelOf
  Quota <- Two
  PreConsumed <- MCPreConsumed
  SubmitTime <- OneLegacy
  NullIds = {5}
  PerCall = {}
  Actuals = {1, 3}
  SweepLimit = 100
  QueryLimit = 1000
  Workloads = {{1}, {2}, {3, 4}, {3, 5}}
  MaxOverpaid = 0
  MaxFetches = 1
  MaxFaults = 2
SYMMETRY PassSymmetry
INVARIANTS TypeOK VideoRefundedOnce VideoRefundMeansFailure
PROPERTIES VideoTerminalFinal
