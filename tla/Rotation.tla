------------------------------- MODULE Rotation -------------------------------
(***************************************************************************)
(* What the scoreboard promises of a rotation: of a list of items, each    *)
(* enabled or not, one is up, a background task moves on to the next       *)
(* enabled one after each interval, and every change of the list or of the *)
(* switch re-evaluates which item is up and whether the task runs.  The    *)
(* message pages and the advertisements of CTS_Scoreboard.py are the two   *)
(* rotations (module Signage).                                             *)
(*                                                                         *)
(* Positions count from 1, those of the code from 0.                       *)
(***************************************************************************)
EXTENDS Naturals, Sequences

VARIABLES flags,    \* which items are enabled, in the order of the list
          on,       \* whether the items are shown at all
          index,    \* the item that is up
          running,  \* the flag by which the task is told to stop
          tickers   \* the tasks that sleep; a task that is told to stop, and
                    \* then to start again, before it wakes is joined by another

rotation == <<flags, on, index, running, tickers>>

EnabledIn(f) == {i \in 1 .. Len(f) : f[i]}
First(S) == CHOOSE i \in S : \A j \in S : i <= j

\* Mutant: the last item is not followed by the first.
After_NoWrap(S, i) ==
  LET later == {j \in S : j > i}
  IN  IF later # {} THEN First(later) ELSE i

\* The item after i, in the order of the list and round its end; the first
\* one when i is not enabled.
After(S, i) ==
  LET later == {j \in S : j > i}
  IN  IF i \in S /\ later # {} THEN First(later) ELSE First(S)

\* The item that is up after a change of the list.
Clamped(f, i) ==
  CASE EnabledIn(f) = {} -> 1
    [] i \in EnabledIn(f) -> i
    [] OTHER -> First(EnabledIn(f))

Several(f) == \E i, j \in EnabledIn(f) : i # j

Rotates(f, o) == o /\ Several(f)

Init ==
  /\ flags \in Seq(BOOLEAN) /\ on \in BOOLEAN
  /\ index = Clamped(flags, 1)
  /\ running = Rotates(flags, on)
  /\ tickers = IF running THEN 1 ELSE 0

Reconfigure ==
  /\ flags' \in Seq(BOOLEAN) /\ on' \in BOOLEAN
  /\ index' = Clamped(flags', index)
  /\ running' = Rotates(flags', on')
  /\ tickers' = IF running' /\ ~running THEN tickers + 1 ELSE tickers

\* A task wakes: it ends, or brings up the next item and sleeps again.
Tick ==
  /\ tickers > 0
  /\ running' = (running /\ Several(flags))
  /\ IF running' THEN index' = After(EnabledIn(flags), index) /\ UNCHANGED tickers
                 ELSE tickers' = tickers - 1 /\ UNCHANGED index
  /\ UNCHANGED <<flags, on>>

\* The process is started again with the same settings.
Restart ==
  /\ index' = Clamped(flags, 1)
  /\ running' = Rotates(flags, on)
  /\ tickers' = IF running' THEN 1 ELSE 0
  /\ UNCHANGED <<flags, on>>

Next == Reconfigure \/ Tick \/ Restart

Spec == Init /\ [][Next]_rotation

\* The task runs exactly while there is something to rotate, and an enabled
\* item is up whenever there is one.
IsAlive ==
  /\ running <=> Rotates(flags, on)
  /\ running => tickers > 0
  /\ EnabledIn(flags) # {} => index \in EnabledIn(flags)
=============================================================================
