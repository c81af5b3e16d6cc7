---------------------------- MODULE CommandRelay ----------------------------
(***************************************************************************)
(* What the head end promises of the calls of serviceConnect, without      *)
(* sockets, handlers or meter processes.  Calls are made one after the     *)
(* other.  A call that fails has not commanded its meter.  A call that     *)
(* succeeds may have, and then the meter performs the command at most      *)
(* once, some time later, and never after the command of a later call to   *)
(* the same meter.                                                         *)
(***************************************************************************)
EXTENDS Deployment

VARIABLES
    request,     \* the meter and the command of each call
    outcome,     \* what became of each call
    sent,        \* the calls whose command is on its way
    performed    \* what each meter did, in order

relayVars == <<request, outcome, sent, performed>>

Wanted == [meter : Meters, cmd : Commands]
NotCalled == [meter |-> "none", cmd |-> "none"]

RelayTypeOK ==
    /\ request \in [Sockets -> Wanted \cup {NotCalled}]
    /\ outcome \in [Sockets -> {"none", "pending", "failed", "ok"}]
    /\ sent \subseteq Sockets
    /\ performed \in [Meters -> Seq([sess : Sockets, cmd : Commands])]

(* Only a call that succeeded has sent something, and only what was sent   *)
(* is performed.  With RelayTypeOK inductive.                              *)
RelayInv ==
    /\ \A s \in Sockets : outcome[s] # "none" => request[s] \in Wanted
    /\ \A s \in sent : outcome[s] = "ok"
    /\ \A m \in Meters : \A i \in 1..Len(performed[m]) : performed[m][i].sess \in sent

RelayInit ==
    /\ request = [s \in Sockets |-> NotCalled]
    /\ outcome = [s \in Sockets |-> "none"]
    /\ sent = {}
    /\ performed = [m \in Meters |-> <<>>]

(* A call starts when no other is pending; one that cannot start fails.    *)
Accept(s, w, now) ==
    /\ outcome[s] = "none"
    /\ \A t \in Sockets : outcome[t] # "pending" /\ (t < s => outcome[t] # "none")
    /\ request' = [request EXCEPT ![s] = w]
    /\ outcome' = [outcome EXCEPT ![s] = now]
    /\ UNCHANGED <<sent, performed>>

Fail(s) ==
    /\ outcome[s] = "pending"
    /\ outcome' = [outcome EXCEPT ![s] = "failed"]
    /\ UNCHANGED <<request, sent, performed>>

Succeed(s) ==
    /\ outcome[s] = "pending"
    /\ outcome' = [outcome EXCEPT ![s] = "ok"]
    /\ sent' \in {sent, sent \cup {s}}
    /\ UNCHANGED <<request, performed>>

(* The meter carries out the command of a call that sent it, and only if   *)
(* it has done nothing yet for this call or a later one.                   *)
Perform(s) ==
    LET m == request[s].meter IN
    /\ s \in sent
    /\ \A i \in 1..Len(performed[m]) : performed[m][i].sess < s
    /\ performed' = [performed EXCEPT ![m] =
                        Append(@, [sess |-> s, cmd |-> request[s].cmd])]
    /\ UNCHANGED <<request, outcome, sent>>

RelayNext ==
    \E s \in Sockets :
        \/ \E w \in Wanted, now \in {"pending", "failed"} : Accept(s, w, now)
        \/ Fail(s)
        \/ Succeed(s)
        \/ Perform(s)

RelaySpec == RelayInit /\ [][RelayNext]_relayVars
=============================================================================
