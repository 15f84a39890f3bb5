SPECIFICATION Spec
CONSTANTS
  owner = owner
  admin = admin
  agent = agent
  c1 = c1
  c2 = c2
  s1 = s1
  s2 = s2
  s3 = s3
  None = None
  User <- Users
  Privileged <- Owners
  Challenge <- Challenges
  Session <- Tokens
  Limit = 1
  Window = 2
  ChallengeTtl = 1
  MaxTime = 2
  MaxPending = 1
  MaxCrashes = 1
SYMMETRY Interchangeable
CHECK_DEADLOCK FALSE
INVARIANTS PasswordOnlyIsRetired OneSessionPerChallenge TriesAreCapped
