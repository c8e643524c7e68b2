\* The body may await and raise, and Parent may be cancelled once from
\* outside at any point.
CONSTANTS
  c1 = c1
  c2 = c2
  P = P
  J = J
  p1 = p1
  p2 = p2
  s1 = s1
  s2 = s2
  s3 = s3
  Children <- MCChildren
  Parent = P
  Join = J
  Tasks <- MCTGTasks
  Promises <- MCTGPromise1
  Shields <- MCTGShields3
  UserError = UserError
  None = None
  MaxSteps = 2
  MaxCancels = 1
  SelfAwait = FALSE
  Catch = FALSE
  BodyAwaits = TRUE
  BodyRaises = TRUE
  BodyWaitsStarted = TRUE
SPECIFICATION TGSpec
\* The loop goes idle when a child waits on a promise nobody settles.
CHECK_DEADLOCK FALSE
PROPERTY
  ScopeCompletes
  WaitStartedReturns
INVARIANT
  ShieldErrorsOnlyStale
