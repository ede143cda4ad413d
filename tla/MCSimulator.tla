----------------------------- MODULE MCSimulator -----------------------------
(* Two heats of the demo event; a lane with a swimmer, lane 3 and an empty   *)
(* lane.                                                                     *)
EXTENDS Simulator

CONSTANTS l1, l3, l7, h1, h2

MCSchedule == <<h1, h2>>
MCLaneOrder == <<l1, l3, l7>>
MCOtherHeat == [h \in {h1, h2} |-> IF h = h1 THEN h2 ELSE h1]
=============================================================================
