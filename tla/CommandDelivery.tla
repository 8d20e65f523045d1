--------------------------- MODULE CommandDelivery ---------------------------
(***************************************************************************)
(* What the handling of MQTT set commands promises a client                 *)
(* (MQTT-Topics.md, "MQTT heat-pump commands are queued ..."), without the  *)
(* slots, the packets and the sequence numbers:                             *)
(*   - deliveries are at least Gap apart;                                   *)
(*   - a delivered command that is not seen to take effect is delivered     *)
(*     again when Timeout has passed since, at most MaxRetries times, and   *)
(*     is only given up after the last of these;                            *)
(*   - a command whose effect is not reported is delivered once;            *)
(*   - a newer request for a command replaces the older one.                *)
(***************************************************************************)
EXTENDS Integers

CONSTANTS
  Command,    \* the commands
  Observable, \* those whose effect the heat pump reports
  Demand,     \* what a request can ask for
  Nothing,    \* no request
  MaxRetries, Gap, Timeout

VARIABLES
  demand,     \* demand[c]: the request being handled for c, or Nothing
  phase,      \* phase[c]: "idle", "queued" or "delivered"
  attempts,   \* attempts[c]: deliveries of demand[c] so far
  age,        \* age[c]: time since the last delivery of c, up to Timeout
  quiet       \* time since the last delivery of any command, up to Gap

vars == <<demand, phase, attempts, age, quiet>>

TypeOK ==
  /\ demand \in [Command -> Demand \cup {Nothing}]
  /\ phase \in [Command -> {"idle", "queued", "delivered"}]
  /\ attempts \in [Command -> 0 .. MaxRetries + 1]
  /\ age \in [Command -> 0 .. Timeout]
  /\ quiet \in 0 .. Gap

Init ==
  /\ demand = [c \in Command |-> Nothing]
  /\ phase = [c \in Command |-> "idle"]
  /\ attempts = [c \in Command |-> 0]
  /\ age = [c \in Command |-> 0]
  /\ quiet = Gap

-----------------------------------------------------------------------------
(* What a step may do to one command.                                      *)

Becomes(c, d, p, a, g) ==
  demand'[c] = d /\ phase'[c] = p /\ attempts'[c] = a /\ age'[c] = g

Stays(c)  == Becomes(c, demand[c], phase[c], attempts[c], age[c])
Settles(c) == phase[c] # "idle" /\ Becomes(c, Nothing, "idle", 0, 0)

Overdue(c) == phase[c] = "delivered" /\ age[c] = Timeout

GivesUp(c) == Overdue(c) /\ attempts[c] = MaxRetries + 1 /\ Settles(c)
Requeues(c) ==
  Overdue(c) /\ attempts[c] <= MaxRetries /\ Becomes(c, demand[c], "queued", attempts[c], 0)

Delivers(c) ==
  /\ phase[c] = "queued" \/ (Overdue(c) /\ attempts[c] <= MaxRetries)
  /\ IF c \in Observable
     THEN Becomes(c, demand[c], "delivered", attempts[c] + 1, 0)
     ELSE Becomes(c, Nothing, "idle", 0, 0)

Functions ==
  /\ demand' \in [Command -> Demand \cup {Nothing}]
  /\ phase' \in [Command -> {"idle", "queued", "delivered"}]
  /\ attempts' \in [Command -> 0 .. MaxRetries + 1]
  /\ age' \in [Command -> 0 .. Timeout]

-----------------------------------------------------------------------------
(* Steps.                                                                  *)

\* A new request for c, or one that replaces another.
Request(c) ==
  /\ \E d \in Demand : d # demand[c] /\ Becomes(c, d, "queued", 0, 0)
  /\ \A o \in Command \ {c} : Stays(o)
  /\ Functions /\ quiet' = quiet

\* The heat pump reports its state: any of the requests may be fulfilled.
Report ==
  /\ \A c \in Observable : Stays(c) \/ Settles(c)
  /\ \A c \in Command \ Observable : Stays(c)
  /\ Functions /\ quiet' = quiet

\* Overdue requests are queued again or given up.
Review ==
  /\ \A c \in Command : Stays(c) \/ GivesUp(c) \/ Requeues(c)
  /\ Functions /\ quiet' = quiet

\* The same, and one request is delivered.
Serve(c) ==
  /\ quiet = Gap /\ quiet' = 0
  /\ Delivers(c)
  /\ \A o \in Command \ {c} : Stays(o) \/ GivesUp(o) \/ Requeues(o)
  /\ Functions

Older(c) ==
  IF phase[c] = "delivered" /\ age[c] < Timeout THEN age[c] + 1 ELSE age[c]

Wait ==
  /\ age' = [c \in Command |-> Older(c)]
  /\ quiet' = IF quiet < Gap THEN quiet + 1 ELSE quiet
  /\ UNCHANGED <<demand, phase, attempts>>

Next ==
  \/ \E c \in Command : Request(c) \/ Serve(c)
  \/ Report \/ Review \/ Wait

Spec == Init /\ [][Next]_vars
=============================================================================
