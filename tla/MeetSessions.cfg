SPECIFICATION Spec
CONSTANTS
  Pis = {p1, p2}
  Meets = {m1, m2}
  NoMeet = NoMeet
  Sockets = {s1, s2}
  Events = {"heartbeat"}
  MaxTasks = 2
  MaxAge = 1
INVARIANTS
  TypeOK
  BoundMeetIsClaimed
PROPERTY
  OwnerIsStable
SYMMETRY MCSymmetry
