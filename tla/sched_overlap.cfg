SPECIFICATION SchedSpec
CONSTANTS
  a = a  b = b  c = c  ra = ra  g1 = g1  o1 = o1  o2 = o2  act1 = act1
  NoStep = NoStep  NoOwner = NoOwner  NoAction = NoAction
  PlanSteps <- Pair
  DependsOn <- Siblings
  MergeSteps = {}
  Oversized = {}
  Gates = {}
  Target <- NoGate
  PlannedReviewer <- NoGate
  MaxIterations <- NoGate
  OnLimit <- NoGate
  HasBackup <- NoGate
  Owners = {o1, o2}
  Actions = {act1}
  DeniedActions = {}
  ImageGates = {}
  MaxAttempts = 3
  Protected <- AllProtected
  Preflight <- PreflightB
  AllowOverlap = TRUE
  AbortMayThrow = TRUE
  MaxStalls = 1
  MaxCommands = 1
INVARIANTS
  SchedTypeOK RunningStepsAttended WaitersAreServed ProtectedStartsApproved
PROPERTIES
  ImplementsStore
CHECK_DEADLOCK FALSE
