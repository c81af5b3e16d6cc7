------------------------ MODULE MCEndDeviceControls -------------------------
(***************************************************************************)
(* Instances of EndDeviceControls for TLC: two meters, M1001 and M1002, a  *)
(* name beyond the table, and a second name for the first meter.           *)
(***************************************************************************)
EXTENDS EndDeviceControls, TLC

CONSTANTS m1, m2

MCNames == {"M1001", "M1002", "M1003", "X1001"}
MCUrl == "M1001" :> m1 @@ "M1002" :> m2 @@ "X1001" :> m1 @@ "M1003" :> NoUrl

NoFaults == {}

Control(ref, devices) == [ref |-> ref, devices |-> devices]

(* The request of CISsim's run_client.                                     *)
FromCIS(ref) == connectCreateRequest(ref, <<"M1001", "M1002">>)

(* What the schema allows besides: several controls, mixed and unknown     *)
(* references, several end devices or none, a meter named twice, a name    *)
(* beyond the table, no controls at all.                                   *)
TwoControls ==
    <<Control("reconnect", << <<"M1001">> >>), Control("reconnect", << <<"M1002">> >>)>>
MixedRequest ==
    <<Control("disconnect", << <<"M1001">> >>), Control("reconnect", << <<"M1002">> >>)>>
OtherRequest == <<Control("other", << <<"M1001">> >>)>>
TwoDevices == <<Control("disconnect", << <<"M1001">>, <<"M1002">> >>)>>
AliasRequest == <<Control("reconnect", << <<"M1001", "X1001">> >>)>>
UnknownName == <<Control("reconnect", << <<"M1003", "M1001">> >>)>>

SchemaRequests ==
    {FromCIS("disconnect"), FromCIS("reconnect"), TwoControls, MixedRequest,
     OtherRequest, TwoDevices, AliasRequest, UnknownName,
     <<Control("disconnect", <<>>)>>, <<>>}
=============================================================================
