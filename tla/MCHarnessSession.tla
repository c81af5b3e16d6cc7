-------------------------- MODULE MCHarnessSession --------------------------
(***************************************************************************)
(* An instance of HarnessSession for TLC: over TCP what the client menu    *)
(* can send, on the lines also what it cannot.                             *)
(***************************************************************************)
EXTENDS HarnessSession

NoFault == {}
BrokenConnections == {"reset"}

MenuRequests ==
    {Get("Data", 9, 2), Set("Data", 9, 2, "visible_string", "LINUXDATA#"),
     Action("Disconnect", 10, 1)}

OddRequests ==
    {Get("Data", 9, 2), Get("Disconnect", 10, 2),
     Set("Data", 9, 2, "integer", "1"), Set("Data", 9, 2, "visible_string", "new"),
     Set("Disconnect", 10, 2, "boolean", "true"),
     Set("Disconnect", 10, 2, "visible_string", "x")}
=============================================================================
