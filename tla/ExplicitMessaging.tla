-------------------------- MODULE ExplicitMessaging --------------------------
(***************************************************************************)
(* What the client and the target promise each other about one explicit   *)
(* request and one discovery call, with no bytes in sight (spec sections  *)
(* 3, 6 and 8).  A request is the service, the list of path segments the  *)
(* application added and the request data; the target serves exactly     *)
(* that request; ReadTag returns the router's answer: the tag value it    *)
(* read on success, the general and extended status on failure.  A      *)
(* discovery call returns the identity items (or the service items) the  *)
(* device listed, in order, or an error when the encapsulation status is  *)
(* not 0.                                                                  *)
(*                                                                         *)
(* Codecs refines this specification: its path bytes, frames and decoders *)
(* are hidden by the mapping in Codecs.tla, and every step of Codecs is a  *)
(* step of this module or leaves its variables unchanged.                  *)
(***************************************************************************)
EXTENDS Naturals, Sequences

CONSTANTS
    Segments,       \* the segments an Add call can stand for
    MaxSegs,        \* segments added to one path
    Requests,       \* service and data of the requests the client sends
    Responses,      \* the router's answers: status, ext, tag type, value
    NoValue,        \* the value of an answer that carries none
    IdentityType,   \* the item type of a CIP identity item
    IdentityOffers, \* items a device lists in a ListIdentity reply
    ServiceOffers,  \* items a device lists in a ListServices reply
    MaxItems        \* items in one discovery reply

VARIABLES segs, phase, req, served, answered, got, listing

vars == <<segs, phase, req, served, answered, got, listing>>

NoReq == [service |-> 0, data |-> <<>>]
NoServed == [ok |-> FALSE, service |-> 0, segs |-> <<>>, data |-> <<>>]
NoAnswer == [status |-> 0, ext |-> <<>>, tag |-> "none", value |-> NoValue]
NoGot == [kind |-> "none", status |-> 0, ext |-> <<>>, value |-> NoValue]
NoResult == [ok |-> FALSE, items |-> <<>>]
NoListing == [cmd |-> "none", offer |-> <<>>, status |-> 0, result |-> NoResult]

(* What ReadTag promises for an answer.                                   *)
Outcome(res) ==
    IF res.status = 0
    THEN [kind |-> "data", status |-> 0, ext |-> <<>>, value |-> res.value]
    ELSE [kind |-> "cip", status |-> res.status, ext |-> res.ext,
          value |-> NoValue]

(* What ListIdentity / ListServices promise for a device's reply.         *)
Listed(cmd, offer, st) ==
    LET ids == SelectSeq(offer, LAMBDA it : it.type = IdentityType)
    IN IF st # 0 THEN NoResult
       ELSE IF cmd = "identity"
       THEN [ok |-> TRUE, items |-> [i \in DOMAIN ids |-> ids[i].id]]
       ELSE [ok |-> TRUE, items |-> offer]

Init ==
    /\ segs = <<>> /\ phase = "build" /\ req = NoReq /\ served = NoServed
    /\ answered = NoAnswer /\ got = NoGot /\ listing = NoListing

AddSegment(s) ==
    /\ phase = "build" /\ Len(segs) < MaxSegs
    /\ segs' = Append(segs, s)
    /\ UNCHANGED <<phase, req, served, answered, got, listing>>

Send(r) ==
    /\ phase = "build" /\ segs # <<>>
    /\ req' = r /\ phase' = "sent"
    /\ UNCHANGED <<segs, served, answered, got, listing>>

(* The target serves the request the client sent, path included.          *)
Serve ==
    /\ phase = "sent"
    /\ served' = [ok |-> TRUE, service |-> req.service, segs |-> segs,
                  data |-> req.data]
    /\ phase' = "dispatch"
    /\ UNCHANGED <<segs, req, answered, got, listing>>

Respond(res) ==
    /\ phase = "dispatch"
    /\ answered' = res /\ phase' = "replied"
    /\ UNCHANGED <<segs, req, served, got, listing>>

Receive ==
    /\ phase = "replied"
    /\ got' = Outcome(answered) /\ phase' = "done"
    /\ UNCHANGED <<segs, req, served, answered, listing>>

List(cmd, offer, st) ==
    /\ phase = "build" /\ segs = <<>>
    /\ listing' = [cmd |-> cmd, offer |-> offer, status |-> st,
                   result |-> Listed(cmd, offer, st)]
    /\ phase' = "listed"
    /\ UNCHANGED <<segs, req, served, answered, got>>

NextCall ==
    /\ phase \in {"done", "listed"}
    /\ segs' = <<>> /\ phase' = "build" /\ req' = NoReq
    /\ served' = NoServed /\ answered' = NoAnswer /\ got' = NoGot
    /\ listing' = NoListing

Next ==
    \/ \E s \in Segments : AddSegment(s)
    \/ \E r \in Requests : Send(r)
    \/ Serve
    \/ \E res \in Responses : Respond(res)
    \/ Receive
    \/ \E n \in 0..MaxItems, st \in {0, 1} :
         \/ \E offer \in [1..n -> IdentityOffers] : List("identity", offer, st)
         \/ \E offer \in [1..n -> ServiceOffers] : List("services", offer, st)
    \/ NextCall

Spec == Init /\ [][Next]_vars
=============================================================================
