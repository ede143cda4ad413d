----------------------------- MODULE RaceLifecycle -----------------------------
(***************************************************************************)
(* What the race state machine promises about one race, whatever the       *)
(* console sends: results are those of a race that was run, and of the     *)
(* heat it was run under.                                                  *)
(***************************************************************************)
CONSTANTS EventHeats, Unset

VARIABLES phase,   \* "idle", "running", or "results" (shown or cleared)
          heat     \* the event/heat last seen on the console

lifecycle == <<phase, heat>>

Init == phase = "idle" /\ heat = Unset

\* A race starts, in any phase; the console may announce its heat with it, and
\* may correct the heat while the race runs.
Run == phase' = "running" /\ heat' \in EventHeats

\* A race ends, under the heat already announced.
End == phase = "running" /\ phase' = "results" /\ heat' = heat

\* The display goes back to waiting for a race, for the same or another heat.
\* A race that is running is never dropped.
Wait ==
  /\ phase # "running"
  /\ phase' = "idle"
  /\ heat' \in EventHeats \/ heat' = heat

Next == Run \/ End \/ Wait

Spec == Init /\ [][Next]_lifecycle
=============================================================================
