----------------------------- MODULE MCScoreboard -----------------------------
(* One result lane and the clock lane, two heats of a meet and the blank    *)
(* event/heat of an idle console.                                           *)
EXTENDS Scoreboard

CONSTANTS h1, h2

MCSchedule == <<h1, h2>>
MCOneHeat == <<h1>>
=============================================================================
