----------------------------- MODULE Deployment -----------------------------
(***************************************************************************)
(* What the head end, its sockets and the meters have in common: which     *)
(* meters there are, how many sockets a run may create, what may go wrong, *)
(* and the vocabulary of the wire.                                         *)
(***************************************************************************)
EXTENDS Integers, Sequences

CONSTANTS
    Meters,       \* the simulated meters, one process each
    MaxSockets,   \* how many sockets a behaviour may create
    Faults        \* the failures of the environment that may happen

(***************************************************************************)
(* "resolve"  a name is not resolved                                       *)
(* "refuse"   a host refuses a connection though its meter listens         *)
(* "reset"    an established connection breaks and loses what it carries   *)
(* "bind"     a meter cannot bind its port                                 *)
(* "open"     Open cannot start the name resolution (its catch-all)        *)
(* "action"   the engine refuses to send the Action request                *)
(***************************************************************************)
AllFaults == {"resolve", "refuse", "reset", "bind", "open", "action"}

ASSUME MaxSocketsAssumption == MaxSockets \in Nat
ASSUME FaultsAssumption == Faults \subseteq AllFaults

(***************************************************************************)
(* Sockets are numbered in the order in which CreateSocket makes them.     *)
(***************************************************************************)
Sockets == 1..MaxSockets
NoSocket == 0

(***************************************************************************)
(* Method 1 and method 2 of the Disconnect Control class: the two requests *)
(* an Action may carry.                                                    *)
(***************************************************************************)
Commands == {"disconnect", "reconnect"}

(***************************************************************************)
(* What a client sends, what a meter answers, and the two ends of a TCP    *)
(* connection: FIN in the stream, RST when the peer is gone.               *)
(***************************************************************************)
ToMeter == {"AARQ", "RLRQ", "FIN", "RST"} \cup Commands
Replies == {"AARE", "ACTRES", "RLRE"}
ToClient == Replies \cup {"RST"}
=============================================================================
