SPECIFICATION Spec
CONSTANTS
  a = a  b = b  c = c  ra = ra
  g1 = g1  g2 = g2  o1 = o1  o2 = o2  act1 = act1  act2 = act2
  NoStep = NoStep  NoOwner = NoOwner  NoAction = NoAction
  PlanSteps <- ReviewPlan
  DependsOn <- ReviewEdges
  MergeSteps = {}
  Oversized = {}
  Gates = {g1}
  Target <- ReviewTarget
  PlannedReviewer <- ReviewPlanned
  MaxIterations <- OneIteration
  OnLimit <- Reassign
  HasBackup <- WithBackup
  Actions = {}
  DeniedActions = {}
  ImageGates = {g1}
  MaxAttempts = 2
  Owners = {o1, o2}
SYMMETRY OwnerSymmetry
INVARIANTS
  TypeOK GateBarrier ReviewTrail OneReviewUnderWay NoStallWithoutFailure
CHECK_DEADLOCK FALSE
