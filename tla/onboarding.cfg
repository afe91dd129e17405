SPECIFICATION Spec
CONSTANTS
  User = {u1, u2}
  Secret = {s1, s2, s3, s4}
  None = None
  Strict = TRUE
  MaxKeys = 2
  MaxFaults = 1
SYMMETRY Alike
INVARIANTS TypeOK LiveSecretsExist OnlyConfirmedKeysTrusted
PROPERTY NoOtherLeak
CHECK_DEADLOCK FALSE
