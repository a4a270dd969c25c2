SPECIFICATION SideBySide
CONSTANTS
  draft = draft
  cut = cut
  render = render
  review_ = review
  NoStage = NoStage
  r1 = r1
  Runner = {r1}
  Order <- FourStages
  Deps <- Chain
  Invalidates <- NothingMore
  Kind <- Kinds
  Retryable <- AllButReviews
  MaxAttempt = 2
  MaxRevision = 1
  MaxEpoch = 2
  HastyReview = TRUE
  HastyResume = TRUE
  CrashIn <- Everywhere
  Plan <- TwoPlans
  CutShort = {}
  Replaces = FALSE
  MaxTries = 4
  MaxUserEdits = 2
  MaxDeaths = 2
  Launchers = {p1, p2}
  NoLauncher = NoLauncher
  MaxWorkers = 4
  MaxSpoils = 1
  LatestStart = 2
  Overlap = FALSE
  Stages = {s1, s2, s3}
  Missing = missing
  hook = hook
  proof = proof
  call = call
  Segment = {hook, proof, call}
  SegmentRange <- Words
  Script <- ThreeSegments
  Cta = {call}
  Proof = {proof}
  Length = 16
  SceneFrames = 10
  SceneSegments = 3
  MaxScriptEdits = 1
  MaxChanges = 6
  Deserves <- Cards
  KindDeserves = 3
  Fps = 1
  Wish = {"energetic"}
  OwnCard <- OneSpan
CHECK_DEADLOCK FALSE
INVARIANTS FreshInputs DecisionsStand AppliedOnce RenderIsFresh  RuntimesInOrder
