SPECIFICATION Spec
CONSTANTS
  u1 = u1
  u2 = u2
  u3 = u3
  UserIds = {u1, u2, u3}
  Names = {"admin", "al", "al-x"}
  AdminName = "admin"
  Subjects = {s1}
  BaseName <- Base
  SessionIds = {k1, k2}
  AuthStates = {q1, q2}
  Requests = {r1, r2}
  Databases <- Stores
  NewRoles = {"viewer"}
  Patches <- AllPatches
  Threshold = 1
  Attempts = 2
  RescuePassword = TRUE
  MaxPassword = 2
  MaxCalls = 4
  MaxFaults = 1
  None = None
  Unborn = Unborn
  Gone = Gone
SYMMETRY Symmetry
CHECK_DEADLOCK FALSE
INVARIANTS TypeOK LockoutConsistent GuessesBounded
  DisabledUserNotServed RotationEndsSessions NoStrayShadowUser
PROPERTIES EndedSessionsStayEnded RestartLeavesUsableAdmin
