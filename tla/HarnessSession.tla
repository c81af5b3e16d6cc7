--------------------------- MODULE HarnessSession ---------------------------
(***************************************************************************)
(* The two test harnesses against each other: the client menu and its TCP  *)
(* sockets (ClientMenu), the server menu, its engines and their devices    *)
(* (ServerMenu), and the kernel's connections between them.                *)
(***************************************************************************)
EXTENDS ClientMenu, ServerMenu

session == <<vars, serverVars>>

(* Types of both processes and of what travels between them.               *)
SessionTypeOK == TypeOK /\ ServerTypeOK

SessionInit == Init /\ ServerInit

-----------------------------------------------------------------------------
(* What leaves the client.                                                 *)

Sent(s, segment) ==
    IF Joined(s) /\ isOpen[s] /\ ~HangsUp(up[s])
    THEN [up EXCEPT ![s] = Append(@, segment)] ELSE up

(* A step of the client that closes sockets, or ends its process.          *)
Closing ==
    up' = [s \in Sockets |->
              IF /\ Joined(s) /\ ~HangsUp(up[s])
                 /\ isOpen[s] /\ (stopped' \/ ~isOpen'[s])
              THEN Append(up[s], Signal("FIN")) ELSE up[s]]

(* The selections that send nothing yet, or nothing at all.                *)
Quiet(A) == A /\ UNCHANGED serverVars

(* The menu's number for a request of that kind.                           *)
Selection(q) == CASE q.kind = "get" -> "2" [] q.kind = "set" -> "3" [] q.kind = "action" -> "4"

AskRequest ==
    /\ requests < MaxRequests
    /\ \E q \in Requests : AskDescriptor(Selection(q))

Open1 ==                                                              \* 1
    /\ COSEMOpen
    /\ up' = Sent(m_pClientEngine, Signal("AARQ"))
    /\ UNCHANGED <<engines, m_Values, association, acceptor, accepting, serving, backlog,
                   lines, prompting, ended, requests, log, behind, down>>

Request(q) ==                                                         \* 2, 3, 4
    /\ COSEMRequest(Selection(q))
    /\ requests < MaxRequests
    /\ requests' = requests + 1
    /\ up' = Sent(m_pClientEngine, q)
    /\ UNCHANGED <<engines, m_Values, association, acceptor, accepting, serving,
                   backlog, lines, prompting, ended, log, behind, down>>

Release ==                                                            \* 5
    /\ COSEMRelease
    /\ IF stopped' THEN Closing ELSE up' = Sent(m_pClientEngine, Signal("RLRQ"))
    /\ UNCHANGED <<engines, m_Values, association, acceptor, accepting, serving, backlog,
                   lines, prompting, ended, requests, log, behind, down>>

Closes(A) ==
    /\ A
    /\ Closing
    /\ UNCHANGED <<engines, m_Values, association, acceptor, accepting, serving, backlog,
                   lines, prompting, ended, requests, log, behind, down>>

ClientStep ==
    \/ Quiet(AskAddress) \/ Quiet(TCPConnect)
    \/ Quiet(AskSecurity) \/ Open1
    \/ Quiet(AskRequest) \/ \E q \in Requests : Request(q)
    \/ Quiet(NothingSent)
    \/ Release
    \/ Closes(COSEMRelease_NullEngine) \/ Closes(TCPDisconnect) \/ Closes(Exit)

Running == Closes(Run)

-----------------------------------------------------------------------------
(* The kernels between them.                                               *)

Resolution(s) == ResolveDone(s) /\ UNCHANGED <<menuVars, serverVars>>

(* The server's kernel completes connections as long as its acceptor is    *)
(* open, accepted or not.                                                  *)
Connection(s) ==
    /\ UNCHANGED menuVars
    /\ IF acceptor # 0 /\ ~ended
       THEN ConnectDone(s, "ok") /\ backlog' = Append(backlog, s)
       ELSE ConnectDone(s, "error") /\ backlog' = backlog
    /\ UNCHANGED <<engines, m_Values, association, acceptor, accepting, serving, lines,
                   prompting, ended, requests, log, behind, up, down>>

Delivery(s) ==
    /\ down[s] # <<>>
    /\ ReadDone(s, IF Head(down[s]) = "RST" THEN "error" ELSE Head(down[s]))
    /\ down' = [down EXCEPT ![s] = Tail(@)]
    /\ UNCHANGED <<menuVars, engines, m_Values, association, acceptor, accepting, serving,
                   backlog, lines, prompting, ended, requests, log, behind, up>>

(* For a client that is gone they complete nothing.                        *)
Kernel ==
    /\ ~stopped
    /\ \E s \in Sockets : Resolution(s) \/ Connection(s) \/ Delivery(s)

(* An established connection that nobody has closed yet breaks, and loses  *)
(* what it carries.                                                        *)
Reset(s) ==
    /\ "reset" \in Faults
    /\ Joined(s) /\ ~HangsUp(up[s])
    /\ up' = [up EXCEPT ![s] = <<Signal("RST")>>]
    /\ down' = [down EXCEPT ![s] = <<"RST">>]
    /\ UNCHANGED <<vars, engines, m_Values, association, acceptor, accepting, serving,
                   backlog, lines, prompting, ended, requests, log, behind>>

Server(A) == A /\ UNCHANGED vars

SessionNext ==
    \/ ClientStep
    \/ Running
    \/ Kernel
    \/ \E s \in Sockets : Reset(s)
    \/ Server(ServerSelection)
    \/ Server(SerialServerAnswered)
    \/ Server(ServerStep)
    \/ Server(LineStep)

(* The kernels deliver, and both loops go on calling handlers whenever no  *)
(* question keeps them: between any two selections the handlers that were  *)
(* ready before the input was armed again are called, so it does not       *)
(* matter how often the menu asks something, if each time it is answered.  *)
(* Nobody has to type anything, not even the answer to a question.         *)
SessionSpec ==
    /\ SessionInit
    /\ [][SessionNext]_session
    /\ SF_session(Running)
    /\ WF_session(Kernel)
    /\ SF_session(Server(ServerStep))

-----------------------------------------------------------------------------
(* Properties.                                                             *)

(* The successful sets of a data object through engine e among the first   *)
(* entries of a log, and whether v is what the latest of them stored, or,  *)
(* without any, what the constructor did.                                  *)
SetsBefore(l, n, e, i) ==
    {j \in 1..(n - 1) : /\ l[j].engine = e /\ l[j].res = "success"
                        /\ l[j].q.kind = "set" /\ l[j].q.class = "Data" /\ l[j].q.e = i}

Latest(l, n, e, i, v) ==
    LET before == SetsBefore(l, n, e, i) IN
    IF before = {} THEN v = NewValues["Data"][i]
    ELSE \E j \in before : v = l[j].q.value /\ \A k \in before : k <= j

(* A successful get of a data object answers what the latest successful    *)
(* set of that instance through the same engine stored, or the value the   *)
(* constructor gave it: whatever was refused in between, and whatever      *)
(* other engines of the process were told.                                 *)
ReadsLatestSet ==
    \A n \in 1..Len(log) :
        LET q == log[n].q IN
        q.kind = "get" /\ q.class = "Data" /\ log[n].res = "success" =>
            Latest(log, n, log[n].engine, q.e, log[n].data)

(* No request of any type writes behind an object's ten values, though the *)
(* only instance of Disconnect has the number ten: its schemas admit no    *)
(* string, and only strings are stored.                                    *)
NothingBehindTheArray == ~behind

(* Only the first connection the server's kernel completed is ever         *)
(* associated, whatever the client releases: the accept is issued once.    *)
(* Later ones are connected, as far as the client can tell, and stay       *)
(* without an answer.                                                      *)
OnlyFirstIsServed ==
    \A s \in Sockets :
        /\ engine[s] = "open" => s = serving
        /\ s # serving => \A i \in 1..Len(down[s]) : down[s][i] = "RST"

(* The client waits for the answer to a COSEM Open on the connection that  *)
(* the server accepted.                                                    *)
Waits ==
    /\ ~stopped
    /\ serving # NoSocket
    /\ engine[serving] = "asked"
    /\ sock[serving] # "removed"

(* It does not wait for ever: it is answered, or hears that the connection *)
(* is gone, or ends or releases the socket itself, unless one of the two   *)
(* harnesses is left at a question for good.                               *)
OpenIsAnswered ==
    Waits ~> \/ ~Waits
             \/ [](question # "none") \/ []prompting
=============================================================================
