SPECIFICATION Spec
CONSTANTS
  a = a  b = b  c = c  ra = ra
  g1 = g1  g2 = g2  o1 = o1  o2 = o2  act1 = act1  act2 = act2
  NoStep = NoStep  NoOwner = NoOwner  NoAction = NoAction
  PlanSteps <- LimitPlan
  DependsOn <- LimitEdges
  MergeSteps = {c}
  Oversized <- DerivedReviewer
  Gates = {g1, g2}
  Target <- LimitTarget
  PlannedReviewer <- LimitPlanned
  MaxIterations <- NoIterations
  OnLimit <- AbortOrPause
  HasBackup <- NoBackup
  Actions = {act1, act2}
  DeniedActions = {act2}
  ImageGates = {}
  MaxAttempts = 2
  Owners = {o1}
INVARIANTS
  FenceWhileRunning ApprovalMatchesStep GateBarrier FinalRunIsQuiet OneReviewUnderWay NoStallWithoutFailure
PROPERTIES
  FinalStatesAbsorb
CHECK_DEADLOCK FALSE
