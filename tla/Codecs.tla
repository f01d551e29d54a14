------------------------------- MODULE Codecs -------------------------------
(***************************************************************************)
(* The byte codecs of one explicit request, end to end: the client's path  *)
(* builder (unnamed/part_005), MessageRouterRequest.Encode and             *)
(* DecodeMessageRouterResponse (unnamed/part_006), the CPF codec           *)
(* (pkg/eip/cpf.go), the encapsulation header (pkg/eip/discovery.go,       *)
(* pkg/transport/tcp.go), Session.SendRRData (pkg/session/session.go),     *)
(* the target's handleSendRRData (unnamed/part_001), and the Timer and    *)
(* Counter codecs that Client.ReadTimer and Client.ReadTagInto apply to    *)
(* the reply (unnamed/part_006, pkg/client/client.go).  Before any       *)
(* request the session registers (Session.Register, pkg/session) and      *)
(* keeps the handle the target's reply header carries.  Besides the       *)
(* client's requests, cmd/scanner's Forward_Open is built and encoded by  *)
(* hand (encodeForwardOpen) and parsed by HandleForwardOpen (part_008).   *)
(*                                                                         *)
(* Bytes are integers in 0..255.  The state is the request under          *)
(* construction and the bytes on the wire; the decoders are operators.    *)
(* The properties compare what each side decodes with what the other side *)
(* meant, and the path with a reference EPATH parser written from the     *)
(* segment grammar of spec section 3.                                      *)
(***************************************************************************)
EXTENDS Naturals, Integers, Sequences, SequencesExt, Bitwise

CONSTANTS
    ClassIds,       \* values passed to Path.AddClass
    InstanceIds,    \* values passed to Path.AddInstance
    Instance32Ids,  \* values passed to Path.AddInstance32
    AttributeIds,   \* values passed to Path.AddAttribute
    MemberIds,      \* values passed to Path.AddMember
    SymbolLens,     \* lengths of the tag names passed to AddSymbolicSegment
    MaxSegs,        \* segments added to one path
    Statuses,       \* CIP general statuses of failed replies
    ExtStatuses,    \* extended-status word sequences of failed replies
    Timers,         \* Timer tag values the target holds
    Counters,       \* Counter tag values the target holds
    IdentityOffers, \* items a device lists in a ListIdentity reply
    ServiceOffers,  \* items a device lists in a ListServices reply
    MaxItems,       \* items in one discovery reply
    ScannerFlags    \* cmd/scanner's flags: [out, in, rpi] (rpi in microseconds)

Bytes == 0..255
NameChar == 65      \* every tag name is made of 'A's: content is data

(* --------------------------- byte helpers ------------------------------ *)

(* binary.LittleEndian.PutUint16 of a uint16.                              *)
LE16(v) == <<v % 256, (v \div 256) % 256>>

(* binary.LittleEndian.PutUint32 of a uint32 or int32 (two's complement: *)
(* % and \div floor, so a negative value yields its unsigned bytes).      *)
LE32(v) == <<v % 256, (v \div 256) % 256, (v \div 65536) % 256,
             (v \div 16777216) % 256>>

Uint16At(s, i) == s[i] + 256 * s[i + 1]

(* int32(binary.LittleEndian.Uint32(s[i..i+3])).                          *)
Int32At(s, i) ==
    s[i] + 256 * s[i + 1] + 65536 * s[i + 2]
      + 16777216 * (IF s[i + 3] >= 128 THEN s[i + 3] - 256 ELSE s[i + 3])

Zeros(n) == [j \in 1..n |-> 0]

(* s[from:] with Go's slice bound: empty past the end.                    *)
From(s, from) == IF from > Len(s) THEN <<>> ELSE SubSeq(s, from, Len(s))

(* ----------------------------- EPATH ----------------------------------- *)

(* Path.AddClass, AddInstance, AddAttribute, AddMember: the 8-bit form up *)
(* to 0xFF, else the 16-bit form with a pad byte.                          *)
Logical(fmt8, v) ==
    IF v <= 255 THEN <<fmt8, v>> ELSE <<fmt8 + 1, 0>> \o LE16(v)

AddClassNoPad(v) == IF v <= 255 THEN <<32, v>> ELSE <<33>> \o LE16(v)
AddClass(v) == Logical(32, v)                    \* 0x20 / 0x21
AddInstance(v) == Logical(36, v)                 \* 0x24 / 0x25
AddAttribute(v) == Logical(48, v)                \* 0x30 / 0x31
AddMember(v) == Logical(40, v)                   \* 0x28 / 0x29

(* Path.AddInstance32: 8-, 16- or 32-bit form.                             *)
AddInstance32(v) ==
    IF v <= 65535 THEN Logical(36, v) ELSE <<38, 0>> \o LE32(v)

(* Path.AddSymbolicSegment: 0x91, byte(len), the name, a pad if odd.      *)
AddSymbolicSegment(name) ==
    <<145, Len(name) % 256>> \o name
        \o (IF Len(name) % 2 # 0 THEN <<0>> ELSE <<>>)

(* Path.LenWords: byte((len(p) + 1) / 2).                                  *)
LenWords(p) == ((Len(p) + 1) \div 2) % 256

(* The segment grammar of spec section 3, as a reference parser: the      *)
(* segments a path stands for, with ok = FALSE if it is not a sequence of *)
(* well-formed segments.                                                   *)
LogicalKinds == [c \in {32, 36, 48, 40} |->
                    CASE c = 32 -> "class" [] c = 36 -> "instance"
                      [] c = 48 -> "attribute" [] c = 40 -> "member"]
RECURSIVE ParsePath(_)
ParsePath(b) ==
    LET fail == [ok |-> FALSE, segs |-> <<>>]
        more(seg, n) ==
            LET rest == ParsePath(From(b, n + 1))
            IN [rest EXCEPT !.segs = <<seg>> \o @]
        t == b[1]
    IN IF b = <<>> THEN [ok |-> TRUE, segs |-> <<>>]
       ELSE IF t \in DOMAIN LogicalKinds /\ Len(b) >= 2
         THEN more([kind |-> LogicalKinds[t], val |-> <<b[2]>>], 2)
       ELSE IF t - 1 \in DOMAIN LogicalKinds /\ Len(b) >= 4 /\ b[2] = 0
         THEN more([kind |-> LogicalKinds[t - 1],
                    val |-> <<Uint16At(b, 3)>>], 4)
       ELSE IF t = 38 /\ Len(b) >= 6 /\ b[2] = 0
         THEN more([kind |-> "instance", val |-> <<Int32At(b, 3)>>], 6)
       ELSE IF t = 145 /\ Len(b) >= 2 /\ Len(b) >= 2 + b[2] + (b[2] % 2)
         THEN more([kind |-> "symbol", val |-> SubSeq(b, 3, 2 + b[2])],
                   2 + b[2] + (b[2] % 2))
       ELSE fail

(* ------------------------- requests and frames ------------------------- *)

(* The request constructors the client uses: NewReadTagRequest with one   *)
(* element (service 0x4C) and NewGetAttributeSingleRequest (0x0E).         *)
Requests == {[service |-> 76, data |-> LE16(1)], [service |-> 14, data |-> <<>>]}

(* MessageRouterRequest.Encode: service, LenWords, path, data.            *)
EncodeRequest(svc, p, d) == <<svc, LenWords(p)>> \o p \o d

(* CPFItem.Encode after NewCPFItem: Length is uint16(len(data)), and the  *)
(* data is written only when Length > 0.                                   *)
EncodeItem(it) ==
    LET n == Len(it.data) % 65536
    IN LE16(it.type) \o LE16(n) \o (IF n > 0 THEN it.data ELSE <<>>)

(* CommonPacketFormat.Encode: the item count, then each item.             *)
EncodeCPF(items) ==
    LE16(Len(items)) \o FlattenSeq([i \in DOMAIN items |-> EncodeItem(items[i])])

ItemNull == 0           \* ItemIDNullAddress
ItemUnconnected == 178  \* ItemIDUnconnectedMessage (0x00B2)

(* Interface handle and timeout (6 zero bytes), then the two-item CPF of  *)
(* SendRRData and handleSendRRData.                                        *)
RRData(msg) ==
    Zeros(6) \o EncodeCPF(<<[type |-> ItemNull, data |-> <<>>],
                            [type |-> ItemUnconnected, data |-> msg]>>)

CommandSendRRData == 111
SessionHandle == 16909060   \* 0x01020304, the handle the target assigns

(* The 24-byte encapsulation header: command, uint16 length, session      *)
(* handle, status, a zero sender context and zero options.                 *)
Header(cmd, n, sess, status) ==
    LE16(cmd) \o LE16(n % 65536) \o LE32(sess) \o LE32(status)
        \o Zeros(8) \o LE32(0)

(* TCPTransport.Send, and the reply write of handleConnection: header,    *)
(* then the data.                                                          *)
Frame(cmd, data, sess, status) == Header(cmd, Len(data), sess, status) \o data

(* Reading one frame: the header's Length bytes after the 24-byte header. *)
FrameData(f) == SubSeq(f, 25, 24 + Uint16At(f, 3))

(* DecodeCommonPacketFormat: the count, then count items, each of which  *)
(* must be wholly present.                                                 *)
RECURSIVE CPFItems(_, _)
CPFItems(n, r) ==
    IF n = 0 THEN [ok |-> TRUE, items |-> <<>>]
    ELSE IF Len(r) < 4 THEN [ok |-> FALSE, items |-> <<>>]
    ELSE LET len == Uint16At(r, 3)
             rest == CPFItems(n - 1, From(r, 5 + len))
         IN IF Len(r) < 4 + len THEN [ok |-> FALSE, items |-> <<>>]
            ELSE [rest EXCEPT !.items =
                    <<[type |-> Uint16At(r, 1), data |-> SubSeq(r, 5, 4 + len)]>>
                        \o @]

DecodeCommonPacketFormat(d) ==
    IF Len(d) < 2 THEN [ok |-> FALSE, items |-> <<>>]
    ELSE CPFItems(Uint16At(d, 1), From(d, 3))

FindItemFirst(items, t) ==
    IF items = <<>> THEN [found |-> FALSE, data |-> <<>>]
    ELSE [found |-> TRUE, data |-> items[1].data]

(* FindItemByType: the data of the first item of that type.               *)
FindItemByType(items, t) ==
    LET hits == {i \in DOMAIN items : items[i].type = t}
    IN IF hits = {} THEN [found |-> FALSE, data |-> <<>>]
       ELSE [found |-> TRUE, data |-> items[Min(hits)].data]

(* handleSendRRData's decoding: 6 bytes, the CPF, the unconnected item,   *)
(* service and path size, then a bytes.Reader.Read of 2*words bytes into  *)
(* a zeroed buffer (which may come up short, and fails only when nothing *)
(* is left), and the rest as request data.                                 *)
HandleSendRRData(data) ==
    LET fail == [ok |-> FALSE, service |-> 0, path |-> <<>>, data |-> <<>>]
        cpf == DecodeCommonPacketFormat(From(data, 7))
        item == FindItemByType(cpf.items, ItemUnconnected)
        d == item.data
        rem == From(d, 3)
        n == IF 2 * d[2] < Len(rem) THEN 2 * d[2] ELSE Len(rem)
    IN IF Len(data) < 6 \/ ~cpf.ok \/ ~item.found \/ Len(d) < 2 \/ rem = <<>>
       THEN fail
       ELSE [ok |-> TRUE, service |-> d[1],
             path |-> SubSeq(rem, 1, n) \o Zeros(2 * d[2] - n),
             data |-> From(rem, n + 1)]

(* ------------------------------ replies -------------------------------- *)

(* The target's encoding of the router's response in handleSendRRData:    *)
(* service | 0x80, reserved, status, ext size, ext words, data.            *)
EncodeResponse(svc, st, ext, d) ==
    <<svc | 128, 0, st, Len(ext) % 256>>
        \o FlattenSeq([i \in DOMAIN ext |-> LE16(ext[i])]) \o d

DecodeMRResponseExtBytes(d) ==
    IF Len(d) < 4 \/ Len(d) < 4 + d[4]
    THEN [ok |-> FALSE, status |-> 0, ext |-> <<>>, data |-> <<>>]
    ELSE [ok |-> TRUE, status |-> d[3],
          ext |-> [i \in 1..d[4] |-> d[4 + i]], data |-> From(d, 5 + d[4])]

(* DecodeMessageRouterResponse: the 4-byte prefix, ExtStatusSize 16-bit   *)
(* words, and the remaining bytes as response data.                        *)
DecodeMessageRouterResponse(d) ==
    IF Len(d) < 4 \/ Len(d) < 4 + 2 * d[4]
    THEN [ok |-> FALSE, status |-> 0, ext |-> <<>>, data |-> <<>>]
    ELSE [ok |-> TRUE, status |-> d[3],
          ext |-> [i \in 1..d[4] |-> Uint16At(d, 3 + 2 * i)],
          data |-> From(d, 5 + 2 * d[4])]

(* What Client.ReadTag returns for a reply frame: TCPTransport.Receive,   *)
(* SendRRData's checks (encapsulation status, 6 bytes, CPF, unconnected   *)
(* item), DecodeMessageRouterResponse, and resp.Error() for a non-zero    *)
(* general status.                                                         *)
NoGot == [kind |-> "none", status |-> 0, ext |-> <<>>, data |-> <<>>]
ReadTagResult(f) ==
    LET data == FrameData(f)
        cpf == DecodeCommonPacketFormat(From(data, 7))
        item == FindItemByType(cpf.items, ItemUnconnected)
        mr == DecodeMessageRouterResponse(item.data)
    IN IF SubSeq(f, 9, 12) # Zeros(4) \/ Len(data) < 6 \/ ~cpf.ok
          \/ ~item.found \/ ~mr.ok
       THEN [NoGot EXCEPT !.kind = "error"]
       ELSE IF mr.status # 0
       THEN [kind |-> "cip", status |-> mr.status, ext |-> mr.ext,
             data |-> <<>>]
       ELSE [kind |-> "data", status |-> 0, ext |-> <<>>, data |-> mr.data]

(* ------------------------------- Timer --------------------------------- *)

Bit(b, v) == IF b THEN v ELSE 0
StructType == 672   \* 0x02A0, the type code ReadTimer skips

(* Timer.MarshalCIP: reserved INT, status DINT with EN, TT, DN in bits    *)
(* 31..29 (its top byte, the only non-zero one), PRE and ACC as DINTs.     *)
MarshalTimer(tm) ==
    LE16(0) \o <<0, 0, 0, Bit(tm.en, 128) + Bit(tm.tt, 64) + Bit(tm.dn, 32)>>
        \o LE32(tm.pre) \o LE32(tm.acc)

NoTimer == [pre |-> 0, acc |-> 0, en |-> FALSE, tt |-> FALSE, dn |-> FALSE]

DecodeTimerSwapFlags(d) ==
    IF Len(d) < 14 THEN [ok |-> FALSE, timer |-> NoTimer]
    ELSE [ok |-> TRUE,
          timer |-> [pre |-> Int32At(d, 7), acc |-> Int32At(d, 11),
                     en |-> (d[6] & 64) # 0, tt |-> (d[6] & 128) # 0,
                     dn |-> (d[6] & 32) # 0]]

(* DecodeTimer: at least 14 bytes; PRE and ACC are int32 at offsets 6 and *)
(* 10, the flags bits 31, 30, 29 of the status word at offset 2.           *)
DecodeTimer(d) ==
    IF Len(d) < 14 THEN [ok |-> FALSE, timer |-> NoTimer]
    ELSE [ok |-> TRUE,
          timer |-> [pre |-> Int32At(d, 7), acc |-> Int32At(d, 11),
                     en |-> (d[6] & 128) # 0, tt |-> (d[6] & 64) # 0,
                     dn |-> (d[6] & 32) # 0]]

(* Client.ReadTimer: skip the 2-byte type code, then DecodeTimer.         *)
ReadTimer(data) ==
    IF Len(data) < 2 THEN [ok |-> FALSE, timer |-> NoTimer]
    ELSE DecodeTimer(From(data, 3))

(* ------------------------------ Counter -------------------------------- *)

(* Counter.MarshalCIP: reserved INT, status DINT with CU, CD, DN, OV, UN  *)
(* in bits 31..27 (its top byte), PRE and ACC as DINTs.                   *)
MarshalCounter(c) ==
    LE16(0) \o <<0, 0, 0, Bit(c.cu, 128) + Bit(c.cd, 64) + Bit(c.dn, 32)
                           + Bit(c.ov, 16) + Bit(c.un, 8)>>
        \o LE32(c.pre) \o LE32(c.acc)

NoCounter == [pre |-> 0, acc |-> 0, cu |-> FALSE, cd |-> FALSE, dn |-> FALSE,
              ov |-> FALSE, un |-> FALSE]

DecodeCounterSwapOvUn(d) ==
    IF Len(d) < 14 THEN [ok |-> FALSE, counter |-> NoCounter]
    ELSE [ok |-> TRUE,
          counter |-> [pre |-> Int32At(d, 7), acc |-> Int32At(d, 11),
                       cu |-> (d[6] & 128) # 0, cd |-> (d[6] & 64) # 0,
                       dn |-> (d[6] & 32) # 0, ov |-> (d[6] & 8) # 0,
                       un |-> (d[6] & 16) # 0]]

(* DecodeCounter: at least 14 bytes; PRE and ACC are int32 at offsets 6  *)
(* and 10, the flags bits 31..27 of the status word at offset 2.          *)
DecodeCounter(d) ==
    IF Len(d) < 14 THEN [ok |-> FALSE, counter |-> NoCounter]
    ELSE [ok |-> TRUE,
          counter |-> [pre |-> Int32At(d, 7), acc |-> Int32At(d, 11),
                       cu |-> (d[6] & 128) # 0, cd |-> (d[6] & 64) # 0,
                       dn |-> (d[6] & 32) # 0, ov |-> (d[6] & 16) # 0,
                       un |-> (d[6] & 8) # 0]]

(* Client.ReadTagInto(name, &Counter): skip the 2-byte type code, then    *)
(* cip.Unmarshal, which calls Counter.UnmarshalCIP, that is DecodeCounter. *)
ReadTagIntoCounter(data) ==
    IF Len(data) < 2 THEN [ok |-> FALSE, counter |-> NoCounter]
    ELSE DecodeCounter(From(data, 3))

NoValue == [none |-> TRUE]

(* The router's answers: a Read Tag of a Timer or a Counter tag, answered *)
(* with its type code and bytes, or a failure with a status and extended  *)
(* status.                                                                 *)
Responses ==
    [status: {0}, ext: {<<>>}, tag: {"timer"}, value: Timers]
        \cup [status: {0}, ext: {<<>>}, tag: {"counter"}, value: Counters]
        \cup [status: Statuses, ext: ExtStatuses, tag: {"none"}, value: {NoValue}]

ResponseData(res) ==
    IF res.status # 0 THEN <<>>
    ELSE LE16(StructType) \o (IF res.tag = "timer" THEN MarshalTimer(res.value)
                              ELSE MarshalCounter(res.value))

(* ----------------------------- discovery ------------------------------- *)

CommandListServices == 4
CommandListIdentity == 99
ItemListIdentity == 12      \* ItemIDListIdentity (0x000C)
ItemListServices == 256     \* ItemIDListServices (0x0100)

(* The reference encoders, written from the layouts of spec section 6: an *)
(* identity item (length counts the bytes after it), an item of another   *)
(* type with its data, and a service item with its name NUL-padded to 16. *)
EncodeIdentityItem(it) ==
    LET id == it.id
    IN LE16(ItemListIdentity) \o LE16(34 + Len(id.name)) \o LE16(id.encaps)
         \o id.sockaddr \o LE16(id.vendor) \o LE16(id.device)
         \o LE16(id.product) \o id.revision \o LE16(id.status)
         \o LE32(id.serial) \o <<Len(id.name)>> \o id.name \o <<id.state>>
EncodeOfferItem(it) ==
    IF it.type = ItemListIdentity THEN EncodeIdentityItem(it)
    ELSE LE16(it.type) \o LE16(Len(it.data)) \o it.data
EncodeIdentityResponse(items) ==
    LE16(Len(items)) \o FlattenSeq([i \in DOMAIN items |-> EncodeOfferItem(items[i])])
EncodeServicesResponse(svcs) ==
    LE16(Len(svcs))
      \o FlattenSeq([i \in DOMAIN svcs |->
            LE16(ItemListServices) \o LE16(20) \o LE16(svcs[i].version)
              \o LE16(svcs[i].flags) \o svcs[i].name
              \o Zeros(16 - Len(svcs[i].name))])

(* binary.Read of a uint32 (the serial numbers used are below 2^31).      *)
Uint32At(s, i) ==
    s[i] + 256 * s[i + 1] + 65536 * s[i + 2] + 16777216 * s[i + 3]

(* The fields of a CIP identity item read in order after its type and     *)
(* length (r starts at the type); its own length field is not consulted.  *)
IdentityFields(r) ==
    [encaps |-> Uint16At(r, 5), sockaddr |-> SubSeq(r, 7, 22),
     vendor |-> Uint16At(r, 23), device |-> Uint16At(r, 25),
     product |-> Uint16At(r, 27), revision |-> <<r[29], r[30]>>,
     status |-> Uint16At(r, 31), serial |-> Uint32At(r, 33),
     name |-> SubSeq(r, 38, 37 + r[37]), state |-> r[38 + r[37]]]

RECURSIVE IdentityItemsSkipShort(_, _)
IdentityItemsSkipShort(n, r) ==
    LET fail == [ok |-> FALSE, items |-> <<>>]
        type == Uint16At(r, 1)
        len == Uint16At(r, 3)
    IN IF n = 0 THEN [ok |-> TRUE, items |-> <<>>]
       ELSE IF Len(r) < 4 THEN fail
       ELSE IF type = ItemListIdentity
         THEN IF Len(r) < 37 \/ Len(r) < 38 + r[37] THEN fail
              ELSE LET rest == IdentityItemsSkipShort(n - 1, From(r, 39 + r[37]))
                   IN [rest EXCEPT !.items = <<IdentityFields(r)>> \o @]
       ELSE IF Len(r) < len THEN fail
       ELSE IdentityItemsSkipShort(n - 1, From(r, 1 + len))

(* The loop of DecodeListIdentityResponse over n items: a short read of   *)
(* any field fails the whole call; an identity item is consumed field by *)
(* field (38 bytes and the name), any other item is skipped by length.    *)
RECURSIVE IdentityItems(_, _)
IdentityItems(n, r) ==
    LET fail == [ok |-> FALSE, items |-> <<>>]
        type == Uint16At(r, 1)
        len == Uint16At(r, 3)
    IN IF n = 0 THEN [ok |-> TRUE, items |-> <<>>]
       ELSE IF Len(r) < 4 THEN fail
       ELSE IF type = ItemListIdentity
         THEN IF Len(r) < 37 \/ Len(r) < 38 + r[37] THEN fail
              ELSE LET rest == IdentityItems(n - 1, From(r, 39 + r[37]))
                   IN [rest EXCEPT !.items = <<IdentityFields(r)>> \o @]
       ELSE IF Len(r) < 4 + len THEN fail
       ELSE IdentityItems(n - 1, From(r, 5 + len))

DecodeListIdentityResponse(d) ==
    IF Len(d) < 2 THEN [ok |-> FALSE, items |-> <<>>]
    ELSE IdentityItems(Uint16At(d, 1), From(d, 3))

(* bytes.TrimRight(name, "\x00").                                          *)
TrimNul(s) ==
    LET keep == {i \in DOMAIN s : s[i] # 0}
    IN IF keep = {} THEN <<>> ELSE SubSeq(s, 1, Max(keep))

ServiceItemUntrimmed(r) ==
    [version |-> Uint16At(r, 5), flags |-> Uint16At(r, 7),
     name |-> SubSeq(r, 9, 24)]

(* DecodeListServicesItem: type, length (neither checked), version,       *)
(* capability flags, and the 16-byte name with trailing NULs trimmed.     *)
DecodeListServicesItem(r) ==
    [version |-> Uint16At(r, 5), flags |-> Uint16At(r, 7),
     name |-> TrimNul(SubSeq(r, 9, 24))]

(* DecodeListServicesResponse: the count, then count 24-byte items.       *)
RECURSIVE ServiceItems(_, _)
ServiceItems(n, r) ==
    IF n = 0 THEN [ok |-> TRUE, items |-> <<>>]
    ELSE IF Len(r) < 24 THEN [ok |-> FALSE, items |-> <<>>]
    ELSE LET rest == ServiceItems(n - 1, From(r, 25))
         IN [rest EXCEPT !.items = <<DecodeListServicesItem(r)>> \o @]

DecodeListServicesResponse(d) ==
    IF Len(d) < 2 THEN [ok |-> FALSE, items |-> <<>>]
    ELSE ServiceItems(Uint16At(d, 1), From(d, 3))

(* Session.ListIdentity and Session.ListServices after the reply frame is *)
(* received: a non-zero encapsulation status is an error, else the data  *)
(* is decoded.                                                             *)
SessionList(cmd, f) ==
    IF SubSeq(f, 9, 12) # Zeros(4) THEN [ok |-> FALSE, items |-> <<>>]
    ELSE IF cmd = "identity" THEN DecodeListIdentityResponse(FrameData(f))
    ELSE DecodeListServicesResponse(FrameData(f))

(* ---------------------------- Forward_Open ----------------------------- *)

(* The Forward_Open cmd/scanner builds from its flags: the fixed fields,  *)
(* the RPI flag in microseconds in both directions, and the connection    *)
(* path 20 04 24 out 2C in, whose assembly ids are cut to a byte and whose *)
(* size is given in 16-bit words (scanner/main.go:93-161).                 *)
ScannerForwardOpen(f) ==
    LET cpath == <<32, 4, 36, f.out % 256, 44, f.in % 256>>
    IN [tick |-> 10, ticks |-> 249, ot |-> 268435457, to |-> 0,
        serial |-> 1234, vendor |-> 4919, oserial |-> 5678, mult |-> 1,
        otrpi |-> f.rpi, otparams |-> 16932, torpi |-> f.rpi,
        toparams |-> 16932, trigger |-> 1,
        words |-> (Len(cpath) \div 2) % 256, cpath |-> cpath]

EncodeForwardOpenSerialLast(fo) ==
    <<fo.tick, fo.ticks>> \o LE32(fo.ot) \o LE32(fo.to) \o LE16(fo.vendor)
      \o LE16(fo.serial) \o LE32(fo.oserial) \o <<fo.mult, 0, 0, 0>>
      \o LE32(fo.otrpi) \o LE16(fo.otparams) \o LE32(fo.torpi)
      \o LE16(fo.toparams) \o <<fo.trigger, fo.words>> \o fo.cpath

(* encodeForwardOpen: each field little-endian in struct order, the       *)
(* three reserved bytes, then the path bytes (scanner/main.go:215-234).    *)
EncodeForwardOpen(fo) ==
    <<fo.tick, fo.ticks>> \o LE32(fo.ot) \o LE32(fo.to) \o LE16(fo.serial)
      \o LE16(fo.vendor) \o LE32(fo.oserial) \o <<fo.mult, 0, 0, 0>>
      \o LE32(fo.otrpi) \o LE16(fo.otparams) \o LE32(fo.torpi)
      \o LE16(fo.toparams) \o <<fo.trigger, fo.words>> \o fo.cpath

(* The request the scanner hands to Session.SendCIPRequest: service      *)
(* Forward_Open (0x54) with the encoded body (scanner/main.go:174-178).    *)
ForwardOpenRequests ==
    {[service |-> 84, data |-> EncodeForwardOpen(ScannerForwardOpen(f)),
      fo |-> ScannerForwardOpen(f)] : f \in ScannerFlags}

(* Every request a client of the model sends.                             *)
ClientRequests == Requests \cup ForwardOpenRequests

(* HandleForwardOpen's parse (part_008:35-89): binary.Read of each fixed  *)
(* field fails unless all 36 bytes are there; the path is then read with *)
(* bytes.Reader.Read into a zeroed buffer of 2 * words bytes, which fails *)
(* at the end of the data, even for an empty path, and otherwise may come *)
(* up short without an error.                                              *)
DecodeForwardOpen(d) ==
    LET rem == From(d, 37)
        n == IF 2 * d[36] < Len(rem) THEN 2 * d[36] ELSE Len(rem)
    IN IF Len(d) < 36 \/ rem = <<>> THEN [ok |-> FALSE]
       ELSE [ok |-> TRUE,
             fo |-> [tick |-> d[1], ticks |-> d[2], ot |-> Uint32At(d, 3),
                     to |-> Uint32At(d, 7), serial |-> Uint16At(d, 11),
                     vendor |-> Uint16At(d, 13), oserial |-> Uint32At(d, 15),
                     mult |-> d[19], otrpi |-> Uint32At(d, 23),
                     otparams |-> Uint16At(d, 27), torpi |-> Uint32At(d, 29),
                     toparams |-> Uint16At(d, 33), trigger |-> d[35],
                     words |-> d[36],
                     cpath |-> SubSeq(rem, 1, n) \o Zeros(2 * d[36] - n)]]

(* --------------------------- RegisterSession --------------------------- *)

CommandRegisterSession == 101   \* 0x0065
(* RegisterSessionData.Encode of NewRegisterSessionData: protocol version *)
(* 1, option flags 0; the goeip target answers with the same four bytes.  *)
RegisterSessionData == LE16(1) \o LE16(0)

(* ---------------------------- state machine ---------------------------- *)

VARIABLES
    path,       \* the Path being built
    segs,       \* the Add calls made on it, as the segments they stand for
    phase,      \* build, sent, dispatch, replied, done
    req,        \* the request the client sent
    wire,       \* the request frame on the stream
    served,     \* what the target decoded from it
    answered,   \* the router's response
    back,       \* the reply frame on the stream
    got,        \* what ReadTag returned
    listing,    \* the last ListIdentity or ListServices call and its result
    handle,     \* Session.sessionHandle
    reg         \* the reply frame of the last RegisterSession

vars == <<path, segs, phase, req, wire, served, answered, back, got, listing,
          handle, reg>>

NoReq == [service |-> 0, data |-> <<>>]
NoServed == [ok |-> FALSE, service |-> 0, path |-> <<>>, data |-> <<>>,
             session |-> 0]
NoAnswer == [status |-> 0, ext |-> <<>>, tag |-> "none", value |-> NoValue]
NoListing == [cmd |-> "none", offer |-> <<>>, status |-> 0,
              result |-> [ok |-> FALSE, items |-> <<>>]]

(* NewSession: no handle yet; NewClient registers before any call.       *)
Init ==
    /\ path = <<>> /\ segs = <<>> /\ phase = "unregistered"
    /\ req = NoReq /\ wire = <<>> /\ served = NoServed
    /\ answered = NoAnswer /\ back = <<>> /\ got = NoGot
    /\ listing = NoListing /\ handle = 0 /\ reg = <<>>

RegisterKeepStatus(st) ==
    LET reply == Frame(CommandRegisterSession, RegisterSessionData,
                       SessionHandle, st)
    IN /\ phase = "unregistered"
       /\ reg' = reply
       /\ IF Uint32At(reply, 9) = 0
          THEN handle' = Uint32At(reply, 9) /\ phase' = "build"
          ELSE UNCHANGED <<handle, phase>>
       /\ UNCHANGED <<path, segs, req, wire, served, answered, back, got,
                      listing>>

(* Session.Register in NewClient (session.go:32-58): RegisterSession with *)
(* RegisterSessionData and handle 0; the goeip target answers with its    *)
(* handle in the header and status 0 (part_001:93-100), another device   *)
(* may refuse with a non-zero status.  On status 0 the session keeps the  *)
(* header's handle; otherwise NewClient fails and the application dials  *)
(* again.                                                                  *)
Register(st) ==
    LET reply == Frame(CommandRegisterSession, RegisterSessionData,
                       SessionHandle, st)
    IN /\ phase = "unregistered"
       /\ reg' = reply
       /\ IF Uint32At(reply, 9) = 0
          THEN handle' = Uint32At(reply, 5) /\ phase' = "build"
          ELSE UNCHANGED <<handle, phase>>
       /\ UNCHANGED <<path, segs, req, wire, served, answered, back, got,
                      listing>>

(* One Add call on the path: the bytes it appends, and the segment it is  *)
(* meant to stand for.                                                     *)
Add(kind, val, bytes) ==
    /\ phase = "build" /\ Len(segs) < MaxSegs
    /\ path' = path \o bytes
    /\ segs' = Append(segs, [kind |-> kind, val |-> val])
    /\ UNCHANGED <<phase, req, wire, served, answered, back, got, listing, handle, reg>>

CallAddClass(v) == Add("class", <<v>>, AddClass(v))
CallAddInstance(v) == Add("instance", <<v>>, AddInstance(v))
CallAddInstance32(v) == Add("instance", <<v>>, AddInstance32(v))
CallAddAttribute(v) == Add("attribute", <<v>>, AddAttribute(v))
CallAddMember(v) == Add("member", <<v>>, AddMember(v))
CallAddSymbolicSegment(n) ==
    LET name == [j \in 1..n |-> NameChar]
    IN Add("symbol", name, AddSymbolicSegment(name))

(* Session.SendRRData's send: encode the request, wrap it, write it.      *)
SendRequest(r) ==
    /\ phase = "build" /\ segs # <<>>
    /\ req' = r
    /\ wire' = Frame(CommandSendRRData,
                     RRData(EncodeRequest(r.service, path, r.data)),
                     handle, 0)
    /\ phase' = "sent"
    /\ UNCHANGED <<path, segs, served, answered, back, got, listing, handle, reg>>

(* handleConnection reads the frame, keeping the header's session handle *)
(* for the reply (part_001:65-67, 122-128), and handleSendRRData decodes  *)
(* it; a    *)
(* decoding error is answered with encapsulation status 1 and no data.    *)
Serve ==
    /\ phase = "sent"
    /\ LET s == HandleSendRRData(FrameData(wire))
           session == Uint32At(wire, 5)
       IN
       /\ served' = s @@ [session |-> session]
       /\ phase' = IF s.ok THEN "dispatch" ELSE "replied"
       /\ back' = IF s.ok THEN back
                  ELSE Frame(CommandSendRRData, <<>>, session, 1)
    /\ wire' = <<>>
    /\ UNCHANGED <<path, segs, req, answered, got, listing, handle, reg>>

(* The router answers, and handleSendRRData encodes and sends the reply.  *)
Respond(res) ==
    /\ phase = "dispatch"
    /\ answered' = res
    /\ back' = Frame(CommandSendRRData,
                     RRData(EncodeResponse(served.service, res.status,
                                           res.ext, ResponseData(res))),
                     served.session, 0)
    /\ phase' = "replied"
    /\ UNCHANGED <<path, segs, req, wire, served, got, listing, handle, reg>>

(* SendRRData receives the reply and ReadTag returns.                     *)
Receive ==
    /\ phase = "replied"
    /\ got' = ReadTagResult(back)
    /\ back' = <<>> /\ phase' = "done"
    /\ UNCHANGED <<path, segs, req, wire, served, answered, listing, handle, reg>>

(* Client.ListIdentity / ListServices between requests: Session sends    *)
(* the command with no data, the device replies with the given items and *)
(* encapsulation status, and the session decodes the reply.               *)
ListCall(cmd, offer, st) ==
    LET reply == IF cmd = "identity"
                 THEN Frame(CommandListIdentity, EncodeIdentityResponse(offer), 0, st)
                 ELSE Frame(CommandListServices, EncodeServicesResponse(offer), 0, st)
    IN
    /\ phase = "build" /\ segs = <<>>
    /\ listing' = [cmd |-> cmd, offer |-> offer, status |-> st,
                   result |-> SessionList(cmd, reply)]
    /\ phase' = "listed"
    /\ UNCHANGED <<path, segs, req, wire, served, answered, back, got, handle, reg>>

ListIdentity(offer, st) == ListCall("identity", offer, st)
ListServices(offer, st) == ListCall("services", offer, st)

(* The application builds the next request on a NewPath.                  *)
NextCall ==
    /\ phase \in {"done", "listed"}
    /\ path' = <<>> /\ segs' = <<>> /\ phase' = "build"
    /\ req' = NoReq /\ served' = NoServed /\ answered' = NoAnswer
    /\ got' = NoGot /\ listing' = NoListing
    /\ UNCHANGED <<wire, back, handle, reg>>

Next ==
    \/ \E v \in ClassIds : CallAddClass(v)
    \/ \E v \in InstanceIds : CallAddInstance(v)
    \/ \E v \in Instance32Ids : CallAddInstance32(v)
    \/ \E v \in AttributeIds : CallAddAttribute(v)
    \/ \E v \in MemberIds : CallAddMember(v)
    \/ \E n \in SymbolLens : CallAddSymbolicSegment(n)
    \/ \E st \in {0, 1} : Register(st)
    \/ \E r \in ClientRequests : SendRequest(r)
    \/ Serve
    \/ \E res \in Responses : Respond(res)
    \/ Receive
    \/ \E n \in 0..MaxItems, st \in {0, 1} :
         \/ \E offer \in [1..n -> IdentityOffers] : ListIdentity(offer, st)
         \/ \E offer \in [1..n -> ServiceOffers] : ListServices(offer, st)
    \/ NextCall

Spec == Init /\ [][Next]_vars

(* ----------------------------- properties ------------------------------ *)

TypeOK ==
    /\ path \in Seq(Bytes) /\ wire \in Seq(Bytes) /\ back \in Seq(Bytes)
    /\ Len(segs) <= MaxSegs
    /\ phase \in {"unregistered", "build", "sent", "dispatch", "replied",
                  "done", "listed"}
    /\ got.kind \in {"none", "error", "cip", "data"}
    /\ listing.cmd \in {"none", "identity", "services"}

(* Spec section 8: the target decodes the service and data the client    *)
(* sent, and a path whose segments, parsed by the EPATH grammar, are the  *)
(* Add calls the client made (so path_words matched the path).  It is     *)
(* about Path's Add methods and LenWords, MessageRouterRequest.Encode,    *)
(* the CPF and header codecs and handleSendRRData's decoding.             *)
RequestDecoded ==
    phase \in {"dispatch", "replied", "done"} =>
        /\ served.ok
        /\ served.service = req.service /\ served.data = req.data
        /\ ParsePath(served.path) = [ok |-> TRUE, segs |-> segs]

(* Spec section 8: a successful RegisterSession yields a non-zero handle, *)
(* which every later request of the session carries and every reply to   *)
(* it echoes.  It is about Session.Register keeping the reply header's    *)
(* handle, SendRRData putting it in the request header, and the target's *)
(* reply header taking the request's (part_001:65, 124).                   *)
SessionHandleEchoed ==
    phase # "unregistered" =>
        /\ handle # 0
        /\ phase = "sent" => Uint32At(wire, 5) = handle
        /\ phase = "replied" => Uint32At(back, 5) = handle

(* Spec section 4.6: the connection manager reads from a Forward_Open of  *)
(* cmd/scanner the fields the scanner put in it, the connection path      *)
(* included.  It is about encodeForwardOpen's field order and widths, the *)
(* path size in words, and HandleForwardOpen's binary.Read sequence and   *)
(* its short path read that fails only at the end of the data.            *)
ForwardOpenDecoded ==
    phase \in {"dispatch", "replied", "done"} /\ req.service = 84 =>
        DecodeForwardOpen(served.data) = [ok |-> TRUE, fo |-> req.fo]

(* ----------------------------- refinement ------------------------------ *)

(* The segments the Add calls of Next stand for.                          *)
AddedSegments ==
    {[kind |-> "class", val |-> <<v>>] : v \in ClassIds}
      \cup {[kind |-> "instance", val |-> <<v>>] : v \in InstanceIds \cup Instance32Ids}
      \cup {[kind |-> "attribute", val |-> <<v>>] : v \in AttributeIds}
      \cup {[kind |-> "member", val |-> <<v>>] : v \in MemberIds}
      \cup {[kind |-> "symbol", val |-> [j \in 1..n |-> NameChar]] : n \in SymbolLens}

(* The request as the target understood it: its path parsed back into    *)
(* segments by the EPATH grammar.                                          *)
ServedRequest ==
    IF served.ok
    THEN [ok |-> TRUE, service |-> served.service,
          segs |-> ParsePath(served.path).segs, data |-> served.data]
    ELSE [ok |-> FALSE, service |-> 0, segs |-> <<>>, data |-> <<>>]

(* What ReadTag returned, its data read back by the call the application  *)
(* makes for the tag's type: Client.ReadTimer or Client.ReadTagInto.      *)
ReadTagOutcome ==
    [kind |-> got.kind, status |-> got.status, ext |-> got.ext,
     value |-> IF got.kind # "data" THEN NoValue
               ELSE IF answered.tag = "timer" THEN ReadTimer(got.data).timer
               ELSE ReadTagIntoCounter(got.data).counter]

(* Before RegisterSession the abstract client is between calls.          *)
MessagingPhase == IF phase = "unregistered" THEN "build" ELSE phase

Messaging == INSTANCE ExplicitMessaging
    WITH Segments <- AddedSegments, Requests <- ClientRequests,
         phase <- MessagingPhase, IdentityType <- ItemListIdentity,
         NoValue <- NoValue,
         served <- ServedRequest, got <- ReadTagOutcome

(* The codecs implement the message-level exchange of ExplicitMessaging:  *)
(* every Add call, send, serve, reply, receive and discovery call, with   *)
(* the bytes hidden, is a step of the abstract specification.  It is      *)
(* about the path builder, the request, CPF, header and reply codecs of   *)
(* both sides, Client.ReadTimer, Client.ReadTagInto and the ListIdentity / ListServices       *)
(* decoders, all at once and at every step.                                *)
MessagingSpec == Messaging!Spec

====
