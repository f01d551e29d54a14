----------------------------- MODULE TagListing -----------------------------
(***************************************************************************)
(* Client.ListTags (pkg/client/discovery.go): one Get_Attribute_List on   *)
(* the Symbol class for the highest instance id, then one                  *)
(* Get_Attribute_List per instance 1..maxInstance, over the client's one  *)
(* TCP stream.  The requests and decoders are those of pkg/cip            *)
(* (encode_test.go) and Session.SendCIPRequest.                           *)
(*                                                                         *)
(* The device's Symbol object is fixed when the listing starts: for each  *)
(* instance, the CIP status of its reply, the status and value of each of *)
(* its two attributes, and whether the reply arrives cut.  The replies    *)
(* are bytes, decoded by the code's decoders.  The stream may break at    *)
(* any moment; once it has, every later SendCIPRequest fails (there are   *)
(* no deadlines, so a failed read means a dead connection).               *)
(***************************************************************************)
EXTENDS Naturals, Sequences, SequencesExt

CONSTANTS
    MaxInstance,    \* highest instance id a device may report
    Names,          \* tag names as byte sequences, <<>> among them
    Types,          \* symbol type codes
    ClassStatuses,  \* CIP statuses of the class-attribute reply, 0 among them
    AttrStatuses    \* attribute statuses inside a reply, 0 among them

StatusSuccess == 0
StatusObjectDoesNotExist == 22         \* 0x16
StatusPathDestinationUnknown == 5      \* 0x05
StatusOther == 8                       \* e.g. service not supported

(* --------------------------- byte helpers ------------------------------ *)

LE16(v) == <<v % 256, (v \div 256) % 256>>
Uint16At(s, i) == s[i] + 256 * s[i + 1]
From(s, from) == IF from > Len(s) THEN <<>> ELSE SubSeq(s, from, Len(s))

(* The device side, written from the reply layout of spec section 6 and  *)
(* Get_Attribute_List: the count, then per attribute its id, its status   *)
(* and, only when the status is 0, its value.  A cut reply lacks its last *)
(* byte.                                                                   *)
EncodeAttr(aid, st, val) == LE16(aid) \o LE16(st) \o (IF st = 0 THEN val ELSE <<>>)
Revision == 3
ClassReply(ms, max) ==
    LE16(2) \o EncodeAttr(1, 0, LE16(Revision)) \o EncodeAttr(2, ms, LE16(max))
SymbolReply(e) ==
    LET full == LE16(2) \o EncodeAttr(1, e.nameSt, LE16(Len(e.name)) \o e.name)
                       \o EncodeAttr(2, e.typeSt, LE16(e.type))
    IN IF e.cut THEN SubSeq(full, 1, Len(full) - 1) ELSE full

(* DecodeSymbolClassAttributesResponse's loop: an attribute with a non-  *)
(* zero status carries no value; attributes 1 and 2 are uint16s; any      *)
(* other attribute id consumes nothing.  A short read fails the call.     *)
RECURSIVE ClassAttrs(_, _, _)
ClassAttrs(n, r, acc) ==
    LET fail == [ok |-> FALSE, revision |-> 0, max |-> 0]
        aid == Uint16At(r, 1)
        v == From(r, 5)
    IN IF n = 0 THEN [acc EXCEPT !.ok = TRUE]
       ELSE IF Len(r) < 4 THEN fail
       ELSE IF Uint16At(r, 3) = 0 /\ aid \in {1, 2}
         THEN IF Len(v) < 2 THEN fail
              ELSE ClassAttrs(n - 1, From(v, 3),
                     IF aid = 1 THEN [acc EXCEPT !.revision = Uint16At(v, 1)]
                     ELSE [acc EXCEPT !.max = Uint16At(v, 1)])
       ELSE ClassAttrs(n - 1, v, acc)

DecodeSymbolClassAttributesResponse(d) ==
    IF Len(d) < 2 THEN [ok |-> FALSE, revision |-> 0, max |-> 0]
    ELSE ClassAttrs(Uint16At(d, 1), From(d, 3), [ok |-> FALSE, revision |-> 0, max |-> 0])

RECURSIVE SymbolAttrsByteLen(_, _, _)
SymbolAttrsByteLen(n, r, acc) ==
    LET fail == [ok |-> FALSE, name |-> <<>>, type |-> 0]
        aid == Uint16At(r, 1)
        v == From(r, 5)
    IN IF n = 0 THEN [acc EXCEPT !.ok = TRUE]
       ELSE IF Len(r) < 4 THEN fail
       ELSE IF Uint16At(r, 3) = 0 /\ aid = 1
         THEN IF Len(v) < 1 \/ Len(v) < 1 + v[1] THEN fail
              ELSE SymbolAttrsByteLen(n - 1, From(v, 2 + v[1]),
                     [acc EXCEPT !.name = SubSeq(v, 2, 1 + v[1])])
       ELSE IF Uint16At(r, 3) = 0 /\ aid = 2
         THEN IF Len(v) < 2 THEN fail
              ELSE SymbolAttrsByteLen(n - 1, From(v, 3), [acc EXCEPT !.type = Uint16At(v, 1)])
       ELSE SymbolAttrsByteLen(n - 1, v, acc)

(* DecodeSymbolAttributesResponse's loop: attribute 1 is a uint16 length *)
(* and that many name bytes, attribute 2 a uint16 type code.              *)
RECURSIVE SymbolAttrs(_, _, _)
SymbolAttrs(n, r, acc) ==
    LET fail == [ok |-> FALSE, name |-> <<>>, type |-> 0]
        aid == Uint16At(r, 1)
        v == From(r, 5)
    IN IF n = 0 THEN [acc EXCEPT !.ok = TRUE]
       ELSE IF Len(r) < 4 THEN fail
       ELSE IF Uint16At(r, 3) = 0 /\ aid = 1
         THEN IF Len(v) < 2 \/ Len(v) < 2 + Uint16At(v, 1) THEN fail
              ELSE SymbolAttrs(n - 1, From(v, 3 + Uint16At(v, 1)),
                     [acc EXCEPT !.name = SubSeq(v, 3, 2 + Uint16At(v, 1))])
       ELSE IF Uint16At(r, 3) = 0 /\ aid = 2
         THEN IF Len(v) < 2 THEN fail
              ELSE SymbolAttrs(n - 1, From(v, 3), [acc EXCEPT !.type = Uint16At(v, 1)])
       ELSE SymbolAttrs(n - 1, v, acc)

DecodeSymbolAttributesResponse(d) ==
    IF Len(d) < 2 THEN [ok |-> FALSE, name |-> <<>>, type |-> 0]
    ELSE SymbolAttrs(Uint16At(d, 1), From(d, 3), [ok |-> FALSE, name |-> <<>>, type |-> 0])

(* What the device answers for one instance: a CIP status, and for a     *)
(* success the two attributes (each with its own status) and whether the *)
(* reply arrives cut.                                                      *)
Entries ==
    [st: {StatusSuccess}, nameSt: AttrStatuses, name: Names,
     typeSt: AttrStatuses, type: Types, cut: BOOLEAN]
      \cup [st: {StatusObjectDoesNotExist, StatusPathDestinationUnknown,
                 StatusOther},
            nameSt: {0}, name: {<<>>}, typeSt: {0}, type: Types, cut: {FALSE}]

VARIABLES
    table,      \* instance id -> the device's answer
    classSt,    \* CIP status of the class-attribute reply
    maxSt,      \* attribute status of the max-instance attribute
    reported,   \* the max instance the device reports
    link,       \* "up" or "down": the client's TCP stream
    pc,         \* "class", "loop", "done"
    maxInst,    \* maxInstance as ListTags decoded it
    id,         \* the loop variable
    listed,     \* allSymbols
    result,     \* "none", "ok" (nil error) or "err"
    lost        \* ids whose request failed on the transport

vars == <<table, classSt, maxSt, reported, link, pc, maxInst, id, listed,
          result, lost>>

Init ==
    /\ table \in [1..MaxInstance -> Entries]
    /\ classSt \in ClassStatuses
    /\ maxSt \in AttrStatuses
    /\ reported \in 0..MaxInstance
    /\ link = "up"
    /\ pc = "class" /\ maxInst = 0 /\ id = 0
    /\ listed = <<>> /\ result = "none" /\ lost = {}

(* The class reply as ListTags decodes it.                                *)
ClassDecoded == DecodeSymbolClassAttributesResponse(ClassReply(maxSt, reported))

GetClassAttributesPastMax ==
    /\ pc = "class"
    /\ IF link = "down" \/ classSt # StatusSuccess \/ ~ClassDecoded.ok
       THEN /\ result' = "err" /\ pc' = "done"
            /\ UNCHANGED <<maxInst, id>>
       ELSE /\ maxInst' = ClassDecoded.max + 1 /\ id' = 1 /\ pc' = "loop"
            /\ UNCHANGED result
    /\ UNCHANGED <<table, classSt, maxSt, reported, link, listed, lost>>

(* Step 1: SendCIPRequest of NewGetSymbolClassAttributesRequest.  A      *)
(* transport error, a CIP error status or a decoding error is returned;  *)
(* otherwise maxInstance is decoded and the loop starts at 1.             *)
GetClassAttributes ==
    /\ pc = "class"
    /\ IF link = "down" \/ classSt # StatusSuccess \/ ~ClassDecoded.ok
       THEN /\ result' = "err" /\ pc' = "done"
            /\ UNCHANGED <<maxInst, id>>
       ELSE /\ maxInst' = ClassDecoded.max /\ id' = 1 /\ pc' = "loop"
            /\ UNCHANGED result
    /\ UNCHANGED <<table, classSt, maxSt, reported, link, listed, lost>>

(* The reply to instance i as DecodeSymbolAttributesResponse reads it.   *)
Decoded(i) == DecodeSymbolAttributesResponse(SymbolReply(table[i]))

(* One iteration of the loop: a transport error, a failed CIP status or  *)
(* an undecodable reply is skipped with continue, and an empty name is    *)
(* not listed.                                                             *)
FetchInstance ==
    /\ pc = "loop" /\ id <= maxInst
    /\ IF link = "down"
       THEN /\ lost' = lost \cup {id} /\ UNCHANGED listed
       ELSE /\ listed' = IF table[id].st = StatusSuccess /\ Decoded(id).ok
                            /\ Decoded(id).name # <<>>
                         THEN Append(listed, [id |-> id, name |-> Decoded(id).name,
                                              type |-> Decoded(id).type])
                         ELSE listed
            /\ UNCHANGED lost
    /\ id' = id + 1
    /\ UNCHANGED <<table, classSt, maxSt, reported, link, pc, maxInst, result>>

(* The loop condition id <= maxInstance fails: return allSymbols, nil.   *)
ReturnTags ==
    /\ pc = "loop" /\ id > maxInst
    /\ pc' = "done" /\ result' = "ok"
    /\ UNCHANGED <<table, classSt, maxSt, reported, link, maxInst, id, listed, lost>>

(* The TCP connection breaks (peer reset, cable pulled).                 *)
NetFail ==
    /\ link = "up" /\ pc # "done"
    /\ link' = "down"
    /\ UNCHANGED <<table, classSt, maxSt, reported, pc, maxInst, id, listed, result,
                   lost>>

Next ==
    \/ GetClassAttributes
    \/ FetchInstance
    \/ ReturnTags
    \/ NetFail

(* ListTags runs on the caller's goroutine and every step returns.       *)
Spec == Init /\ [][Next]_vars /\ WF_vars(GetClassAttributes \/ FetchInstance \/ ReturnTags)

(* ----------------------------- properties ------------------------------ *)

TypeOK ==
    /\ link \in {"up", "down"} /\ pc \in {"class", "loop", "done"}
    /\ result \in {"none", "ok", "err"}
    /\ maxInst \in 0..MaxInstance /\ id \in 0..MaxInstance + 1
    /\ lost \subseteq 1..MaxInstance

(* The tags ListTags should return, from the layouts of spec section 6:   *)
(* every instance up to the reported maximum (none if that attribute      *)
(* failed) whose reply succeeded, arrived whole and names the tag; its    *)
(* type is the type attribute, or 0 if that attribute failed.             *)
Expected ==
    LET top == IF maxSt = 0 THEN reported ELSE 0
        ids == {i \in 1..top : table[i].st = StatusSuccess /\ ~table[i].cut
                                 /\ table[i].nameSt = 0 /\ table[i].name # <<>>}
        sym(i) == [id |-> i, name |-> table[i].name,
                   type |-> IF table[i].typeSt = 0 THEN table[i].type ELSE 0]
    IN SetToSortSeq({sym(i) : i \in ids}, LAMBDA x, y : x.id < y.id)

(* The listing is exact whenever the stream held: ListTags returns nil    *)
(* error with exactly the named symbols in instance order, skipping the   *)
(* 0x16/0x05 instances and the others, and only a transport failure can   *)
(* lose a tag.  It is about the loop bounds, the skip cases and the name  *)
(* check of ListTags.                                                      *)
ListingExactWithoutLoss ==
    result = "ok" /\ lost = {} => listed = Expected

(* Spec section 6: transport failures terminate enumeration, so a nil    *)
(* error means the listing is complete.  It is about the continue that    *)
(* ListTags takes when SendCIPRequest fails.                              *)
OkMeansComplete ==
    result = "ok" => listed = Expected

====
