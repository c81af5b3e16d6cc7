---------------------------- MODULE CosemObjects ----------------------------
(***************************************************************************)
(* The COSEM objects of a logical device (LinuxCOSEMServer.cpp and the     *)
(* Linux{Clock,Data,Disconnect,ImageTransfer} classes): what a get, a set  *)
(* or an action answers, and what it does to the objects' m_Values.  Pure  *)
(* operators; the state belongs to the engine that owns the device.        *)
(*                                                                         *)
(* A request names a class, the value group E of an instance, and the      *)
(* number of an attribute or a method.  A value is a string; of a type     *)
(* only the schemas' distinctions are kept.  The library calls the object  *)
(* only when instance, attribute and method exist.                         *)
(***************************************************************************)
EXTENDS Integers, Sequences, TLC

Get(c, e, a) == [kind |-> "get", class |-> c, e |-> e, id |-> a]
Set(c, e, a, t, v) ==
    [kind |-> "set", class |-> c, e |-> e, id |-> a, type |-> t, value |-> v]
Action(c, e, m) == [kind |-> "action", class |-> c, e |-> e, id |-> m]

-----------------------------------------------------------------------------
(* The device.                                                             *)

Classes == {"Clock", "Data", "Disconnect", "ImageTransfer"}

(* Value group E of the instances each object's criteria match.            *)
Instances(c) ==
    CASE c = "Data"       -> 0..9
      [] c = "Disconnect" -> {10}
      [] OTHER            -> {0}

(* The attributes beside the logical name.  Disconnect declares all of its *)
(* three with the number of the first.                                     *)
ImageTransferAttributes == 2..7
ClockAttributes == 2..9

Attributes(c) ==
    CASE c = "ImageTransfer" -> ImageTransferAttributes
      [] c = "Clock"         -> ClockAttributes
      [] OTHER               -> {2}

ImageTransferMethods == 1..4

Methods(c) ==
    CASE c = "Disconnect"    -> 1..2
      [] c = "ImageTransfer" -> ImageTransferMethods
      [] c = "Clock"         -> 1..6
      [] OTHER               -> {}

Known(q) ==
    /\ q.class \in Classes
    /\ q.e \in Instances(q.class)
    /\ q.id \in IF q.kind = "action" THEN Methods(q.class) ELSE Attributes(q.class)

DataTypes == {"visible_string", "boolean", "enum", "integer",
              "double_long_unsigned", "bit_string", "structure"}

(* The types an attribute's schema admits.  Data's is a choice of any.     *)
ImageTransferSchema(a) ==
    CASE a \in {2, 4} -> {"double_long_unsigned"}
      [] a = 3        -> {"bit_string"}
      [] a = 5        -> {"boolean"}
      [] a = 6        -> {"enum"}
      [] a = 7        -> {"structure"}

Schema(c, a) ==
    CASE c = "Disconnect"    -> {"boolean", "enum"}
      [] c = "ImageTransfer" -> ImageTransferSchema(a)
      [] OTHER               -> DataTypes

(* std::string m_Values[10] of the three classes that have it.             *)
Size == 10
Keeping == {"Data", "Disconnect", "ImageTransfer"}

Devices(values) == [Keeping -> [0..(Size - 1) -> values]]

NewValues ==
    [c \in Keeping |-> [i \in 0..(Size - 1) |->
        IF c = "Data" THEN "LINUXDATA" \o ToString(i) ELSE ""]]

-----------------------------------------------------------------------------
(* What a call may come to: the result and the data that are answered, the *)
(* values afterwards, whether it wrote behind the array, and whether it    *)
(* ended the process.                                                      *)
ResultCodes == {"success", "object_unavailable", "object_undefined", "type_unmatched"}

Outcome(res, data, values) ==
    [res |-> res, data |-> data, values |-> values, behind |-> FALSE, ends |-> FALSE]

Unavailable(mv) == {Outcome("object_unavailable", "", mv)}

DataGet(q, mv) == {Outcome("success", mv["Data"][q.e], mv)}

(* An element that is not there: any string at all, or a crash.            *)
DisconnectGet(q, mv) ==
    IF q.e < Size THEN {Outcome("success", mv["Disconnect"][q.e], mv)}
    ELSE {[Outcome("success", "garbage", mv) EXCEPT !.ends = end] : end \in BOOLEAN}

ImageTransferGet(q, mv) ==
    CASE q.id = 2 -> {Outcome("success", "512", mv)}
      [] q.id = 5 -> {Outcome("success", "true", mv)}
      [] OTHER    -> Unavailable(mv)

ClockGet(q, mv) == Unavailable(mv)

InternalGet(q, mv) ==
    CASE q.class = "Data"          -> DataGet(q, mv)
      [] q.class = "Disconnect"    -> DisconnectGet(q, mv)
      [] q.class = "ImageTransfer" -> ImageTransferGet(q, mv)
      [] q.class = "Clock"         -> ClockGet(q, mv)

(* m_Values[E] = ... *)
Stored(q, mv) ==
    IF q.e < Size
    THEN Outcome("success", "", [mv EXCEPT ![q.class][q.e] = q.value])
    ELSE [Outcome("success", "", mv) EXCEPT !.behind = TRUE]

InternalSet_AnyType(q, mv) == {Stored(q, mv)}   \* mutant: does not look at the type

(* The same code in three classes.  The schema is checked first, by the    *)
(* base class; then DLMSValueGet<std::string> throws for a value that is   *)
(* no string.                                                              *)
InternalSet(q, mv) ==
    IF q.type \in Schema(q.class, q.id) /\ q.type = "visible_string"
    THEN {Stored(q, mv)}
    ELSE {Outcome("type_unmatched", "", mv)}

(* The clock has no InternalSet of its own and keeps no value: the answer  *)
(* is the library's.                                                       *)
InheritedSet(q, mv) == {Outcome(res, "", mv) : res \in {"success", "type_unmatched"}}

(* Every method of the two switches succeeds; none changes a value.        *)
DisconnectAction(q, mv) == {Outcome("success", "", mv)}
ImageTransferAction(q, mv) == {Outcome("success", "", mv)}
ClockAction(q, mv) == Unavailable(mv)

InternalAction(q, mv) ==
    CASE q.class = "Disconnect"    -> DisconnectAction(q, mv)
      [] q.class = "ImageTransfer" -> ImageTransferAction(q, mv)
      [] q.class = "Clock"         -> ClockAction(q, mv)

Outcomes(q, mv) ==
    IF ~Known(q) THEN {Outcome("object_undefined", "", mv)}
    ELSE CASE q.kind = "get"     -> InternalGet(q, mv)
           [] q.kind = "set" /\ q.class \in Keeping    -> InternalSet(q, mv)
           [] q.kind = "set" /\ q.class \notin Keeping -> InheritedSet(q, mv)
           [] q.kind = "action"  -> InternalAction(q, mv)
=============================================================================
