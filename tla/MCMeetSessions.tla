---------------------------- MODULE MCMeetSessions ----------------------------
\* The instances of MeetSessions that TLC checks.
EXTENDS MeetSessions, TLC

MCAllEvents == EventKinds

\* Pis, meet IDs and sockets are interchangeable.
MCSymmetry == Permutations(Pis) \cup Permutations(Meets) \cup Permutations(Sockets)
=============================================================================
