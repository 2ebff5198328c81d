SPECIFICATION GcpSpec
CONSTANTS
  Csv <- File
  UserRows <- Users
  Passwords = {p1, p2}
  NoPassword = NoPassword
  Scopes <- Both
  MaxTools = 2
  MaxCalls = 1
CHECK_DEADLOCK FALSE
SYMMETRY AnyPassword
INVARIANTS
    TeardownIsOrdered
    CredentialsProven
    LacksOnlyAfterFailedLoad
PROPERTY
    KeptUnlessForced
