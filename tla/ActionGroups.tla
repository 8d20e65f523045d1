---------------------------- MODULE ActionGroups ----------------------------
(***************************************************************************)
(* What the Scheduler promises about the actions it has taken on: groups    *)
(* of actions are worked off one group after the other, first in first out, *)
(* the actions of a group in order, each once, the next only after the one  *)
(* before it succeeded; two actions are at least Distance apart; no more    *)
(* than Capacity groups wait, and what finds no room is dropped whole.      *)
(***************************************************************************)
EXTENDS Integers, Sequences

CONSTANTS
  Owner,    \* whose group it is
  MaxLeft,  \* actions in a group
  Capacity, \* groups that may wait
  Distance  \* time from an action to the next

VARIABLES
  queue,  \* the groups, with the number of actions that are left of each
  wait    \* time until the next action may be tried

vars == <<queue, wait>>

NewGroup == [id : Owner, left : 1 .. MaxLeft]
Arrivals == UNION {[1 .. n -> NewGroup] : n \in 0 .. Capacity}

\* The first group after an action of it that succeeded or not.
After(q, succeeded) ==
  IF succeeded /\ Head(q).left > 1 THEN [q EXCEPT ![1].left = @ - 1] ELSE Tail(q)

\* Groups arrive, and then one action may be tried.
Take(groups) ==
  /\ Len(queue) + Len(groups) <= Capacity
  /\ queue' = queue \o groups
  /\ UNCHANGED wait

TakeAndTry(groups, succeeded) ==
  /\ wait = 0
  /\ Len(queue) + Len(groups) \in 1 .. Capacity
  /\ queue' = After(queue \o groups, succeeded)
  /\ wait' = Distance

Wait == wait > 0 /\ wait' = wait - 1 /\ UNCHANGED queue

Cancel == queue' = <<>> /\ UNCHANGED wait

Restart == queue' = <<>> /\ wait' = 0

Init == queue = <<>> /\ wait = 0

Next ==
  \/ \E groups \in Arrivals :
       Take(groups) \/ \E succeeded \in BOOLEAN : TakeAndTry(groups, succeeded)
  \/ Wait
  \/ Cancel
  \/ Restart

Spec == Init /\ [][Next]_vars
=============================================================================
