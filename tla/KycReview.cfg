\* One user, who may also be made an operator, two admins in turn, and two
\* overrides that may be in flight together.
CONSTANTS
  Address = {adm, op, usr}
  Users = {usr}
  Admins = {adm, op}
  None = None
  Reasons = {fraud}
  Durations = {0, 2}
  MinTimelock = 1
  DefaultTimelock = 1
  MinExpiry = 1
  DefaultExpiry = 1
  MaxOperators = 2
  MaxTime = 3
  MaxOverrides = 2
SPECIFICATION Spec
INVARIANTS FinalityConsistent TimelockHonoured
PROPERTIES TerminalImmutable ReviewGraph
