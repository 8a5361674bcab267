SPECIFICATION FairSpec
CONSTANTS
  a = a  b = b  c = c  ra = ra  g1 = g1  o1 = o1  o2 = o2  act1 = act1
  NoStep = NoStep  NoOwner = NoOwner  NoAction = NoAction
  PlanSteps <- MergePlan
  DependsOn <- MergeEdges
  MergeSteps = {c}
  Oversized = {b}
  Gates = {g1}
  Target <- ReviewTarget
  PlannedReviewer <- ReviewPlanned
  MaxIterations <- OneIteration
  OnLimit <- Abort
  HasBackup <- NoBackup
  Owners = {o1, o2}
  Actions = {act1}
  DeniedActions = {}
  ImageGates = {g1}
  MaxAttempts = 3
  Protected <- ProtectedB
  Preflight <- NoPreflight
  AllowOverlap = FALSE
  AbortMayThrow = FALSE
  MaxStalls = 0
  MaxCommands = 1
INVARIANTS
  RunningStepsAttended
PROPERTIES
  ImplementsStore RunSettles OrphansAreRecovered ReadyStepsStart
CHECK_DEADLOCK FALSE
