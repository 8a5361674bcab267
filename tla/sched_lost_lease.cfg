SPECIFICATION FairSpec
CONSTANTS
  a = a  b = b  c = c  ra = ra  g1 = g1  o1 = o1  o2 = o2  act1 = act1
  NoStep = NoStep  NoOwner = NoOwner  NoAction = NoAction
  PlanSteps <- Pair
  DependsOn <- Chain
  MergeSteps = {}
  Oversized = {}
  Gates = {}
  Target <- NoGate
  PlannedReviewer <- NoGate
  MaxIterations <- NoGate
  OnLimit <- NoGate
  HasBackup <- NoGate
  Owners = {o1}
  Actions = {}
  DeniedActions = {}
  ImageGates = {}
  MaxAttempts = 3
  Protected <- AllProtected
  Preflight <- NoPreflight
  AllowOverlap = FALSE
  AbortMayThrow = FALSE
  MaxStalls = 1
  MaxCommands = 0
PROPERTIES
  LostLeasesAreCleanedUp
CHECK_DEADLOCK FALSE
