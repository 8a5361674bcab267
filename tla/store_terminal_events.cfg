SPECIFICATION Spec
CONSTANTS
  a = a  b = b  c = c  ra = ra
  g1 = g1  g2 = g2  o1 = o1  o2 = o2  act1 = act1  act2 = act2
  NoStep = NoStep  NoOwner = NoOwner  NoAction = NoAction
  PlanSteps <- ForkPlan
  DependsOn <- ForkEdges
  MergeSteps = {}
  Oversized = {}
  Gates = {}
  Target <- NoGate
  PlannedReviewer <- NoGate
  MaxIterations <- NoGate
  OnLimit <- NoGate
  HasBackup <- NoGate
  Actions = {act1}
  DeniedActions = {}
  ImageGates = {}
  MaxAttempts = 2
  Owners = {o1, o2}
INVARIANTS
  NoDuplicateTerminalEvents
CHECK_DEADLOCK FALSE
