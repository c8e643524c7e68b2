\* The body awaits a promise and raises once it fails; a child may have
\* finished meanwhile.
CONSTANTS
  c1 = c1
  c2 = c2
  P = P
  J = J
  p1 = p1
  p2 = p2
  s1 = s1
  s2 = s2
  s3 = s3
  Children <- MCChildren
  Parent = P
  Join = J
  Tasks <- MCTGTasks
  Promises <- MCTGPromises
  Shields <- MCTGShields
  UserError = UserError
  None = None
  MaxSteps = 2
  MaxCancels = 0
  SelfAwait = FALSE
  Catch = FALSE
  BodyAwaits = TRUE
  BodyRaises = TRUE
  BodyWaitsStarted = FALSE
SPECIFICATION TGSpec
\* The loop goes idle when a child waits on a promise nobody settles.
CHECK_DEADLOCK FALSE
INVARIANT
  NoChildOutlivesScope
