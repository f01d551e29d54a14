--------------------------- MODULE AssemblyAccess ---------------------------
(***************************************************************************)
(* What the Assembly object promises the TCP connections that access an   *)
(* instance's data with explicit requests (spec sections 4.4 and 4.7):    *)
(* the data is one value, a Set_Attribute_Single replaces all of it at    *)
(* once, and a Get_Attribute_Single returns the value it holds at that    *)
(* moment.  Whatever the order in which concurrent requests run, each     *)
(* access happens at a single instant.                                    *)
(*                                                                         *)
(* ExplicitTarget refines this specification: its two-step copies under   *)
(* AssemblyObject's RWMutex are hidden by the mapping in ExplicitTarget,   *)
(* and every step of it is a step of this module or leaves its variables  *)
(* unchanged.                                                             *)
(***************************************************************************)
CONSTANTS
    Values,     \* contents the instance can hold
    V0,         \* its registered content
    NoAccess    \* no access completed in the last step

VARIABLES
    data,       \* the instance's data
    done        \* the access the last step completed, with what it saw

vars == <<data, done>>

Accesses == [svc: {"get", "set"}, val: Values \X Values]

Init == data = V0 /\ done = NoAccess

(* A Set_Attribute_Single of v succeeds: all of the data becomes v.       *)
Set(v) ==
    /\ data' = v
    /\ done' = [svc |-> "set", val |-> <<v, v>>]

(* A Get_Attribute_Single succeeds: it returns both halves of the value   *)
(* held now.                                                              *)
Get ==
    /\ done' = [svc |-> "get", val |-> <<data, data>>]
    /\ UNCHANGED data

(* A step that completes no access to the data.                           *)
Quiet ==
    /\ done' = NoAccess
    /\ UNCHANGED data

Next == (\E v \in Values : Set(v)) \/ Get \/ Quiet

Spec == Init /\ [][Next]_vars

TypeOK == data \in Values /\ done \in Accesses \cup {NoAccess}
=============================================================================
