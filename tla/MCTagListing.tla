---------------------------- MODULE MCTagListing ----------------------------
(* Two instances: enough for a break between a listed and a lost tag,   *)
(* and named, unnamed, missing and cut replies in every order.           *)
EXTENDS TagListing

MCNames == {<<>>, <<67, 110, 116>>}   \* "" and "Cnt"
MCTypes == {196}                    \* DINT
MCClassStatuses == {0, 8}
MCAttrStatuses == {0, 8}
=============================================================================
