SPECIFICATION FairSpec
CONSTANTS
  Pis = {p1}
  Meets = {m1}
  NoMeet = NoMeet
  Sockets = {s1, s2}
  Events <- MCAllEvents
  MaxTasks = 2
  MaxAge = 2
PROPERTIES
  QuietMeetCloses
  ServedMeetRecovers
