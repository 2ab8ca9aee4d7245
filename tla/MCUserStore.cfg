CONSTANTS
  alice = alice
  bob = bob
  p1 = p1
  p2 = p2
  s1 = s1
  s2 = s2
  None = None
  Users = {alice, bob}
  Passwords = {p1, p2}
  Sessions = {s1, s2}
  Changers = {s1, s2}
  Registered <- AliceOnly
  Administer = "any"
  Crashes = TRUE
  MaxSalts = 3

SPECIFICATION Spec

SYMMETRY Interchangeable

CHECK_DEADLOCK FALSE

INVARIANTS
  MemoryWhole
  AcknowledgedIsKept

PROPERTIES
  VerdictWasRight
