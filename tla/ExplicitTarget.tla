---------------------------- MODULE ExplicitTarget ----------------------------
(***************************************************************************)
(* The explicit-messaging side of the goeip adapter: the encapsulation    *)
(* server's per-TCP-connection loop (server.handleConnection and its      *)
(* SendRRData / SendUnitData handlers), the CIP message router            *)
(* (cip.MessageRouter.Dispatch), the assembly object's Get/Set of         *)
(* attribute 3 and the connection manager (Forward_Open,                  *)
(* Large_Forward_Open, Forward_Close), wired as in cmd/adapter.           *)
(*                                                                         *)
(* Server goroutines share only the router map (read-only after start),   *)
(* the assembly object and the connection manager; a request touches each *)
(* in one critical section, so a frame is one step, except the copy of    *)
(* assembly data, taken in two halves as in IORuntime.                    *)
(***************************************************************************)
EXTENDS Integers, FiniteSets, TLC, Sequences

CONSTANTS
    Conns,          \* TCP connection slots (one server goroutine each)
    ServerHandle,   \* the session handle RegisterSession assigns
    Vals,           \* values written to the assembly by Set requests
    V0,             \* the assembly's registered content
    Triads,         \* (conn_serial, vendor_id, originator_serial) triples
    IdBits,         \* width of ConnectionManager.nextConnID (32 in the code)
    StartId,        \* its initial value (0x80000000 in the code)
    MaxOpens,       \* bound on successful Forward_Opens
    NoConn,         \* no goroutine holds the assembly write lock
    NoEvent         \* the step made nothing observable

ASSUME /\ V0 \notin Vals
       /\ IdBits \in Nat \ {0} /\ StartId \in 0..(2 ^ IdBits - 1)
       /\ MaxOpens \in Nat

(* General status codes of pkg/cip (part_006:479-496).                    *)
StatusSuccess == 0
StatusPathSegmentError == 4
StatusServiceNotSupported == 8
StatusInvalidAttributeValue == 9
StatusAttributeNotSupported == 20
StatusObjectDoesNotExist == 22
(* The spec's ConnectionFailure (section 4.6).                            *)
StatusConnectionFailure == 1

(* Encapsulation status the server puts on a failed payload (0x0001).     *)
EncapFail == 1

(* Frames as the server sees them after reading the header.  len is      *)
(* "max" for a length of exactly MaxPacketSize and "over" above it.       *)
(* A SendRRData / SendUnitData payload carries an abstract CIP request:   *)
(* "malformed" when the CPF, the item or the message-router prefix does   *)
(* not decode; otherwise the class its path names and, per object, what  *)
(* the rest of the request holds.                                        *)
RouterReqs == [cls: {"malformed", "none", "bad", "unknown"}]

(* Assembly requests: each branch of HandleRequest once, and a copying   *)
(* Get or Set of attribute 3 with every value.                           *)
AsmReq(svc, inst, attr, sizeOk, v) ==
    [cls |-> "asm", svc |-> svc, inst |-> inst, attr |-> attr,
     sizeOk |-> sizeOk, val |-> v]
AsmReqs ==
    {AsmReq(s, "ok", 3, TRUE, v) : s \in {"get", "set"}, v \in Vals}
    \cup {AsmReq(s, i, a, z, V0) :
          <<s, i, a, z>> \in {<<"get", "bad", 3, TRUE>>,
                             <<"other", "ok", 3, TRUE>>,
                             <<"set", "ok", 0, TRUE>>,
                             <<"get", "unknown", 3, TRUE>>,
                             <<"get", "ok", 4, TRUE>>,
                             <<"set", "unknown", 3, TRUE>>,
                             <<"set", "ok", 4, TRUE>>,
                             <<"set", "ok", 3, FALSE>>}}

(* Connection-manager requests: whether all fixed fields are present,    *)
(* path_words, and the bytes left after the fixed fields: a well-formed   *)
(* request, one with an empty path at the end of the data, one whose     *)
(* path is cut short, and one cut inside the fixed fields.               *)
Shapes == {[fixed |-> TRUE, words |-> 1, avail |-> 2],
           [fixed |-> TRUE, words |-> 0, avail |-> 0],
           [fixed |-> TRUE, words |-> 1, avail |-> 1],
           [fixed |-> FALSE, words |-> 0, avail |-> 0]}
CmReqs ==
    {[cls |-> "cm", svc |-> s, triad |-> t] @@ sh :
        s \in {"fo", "lfo", "fc"}, t \in Triads, sh \in Shapes}
    \cup {[cls |-> "cm", svc |-> "other", triad |-> t,
           fixed |-> TRUE, words |-> 1, avail |-> 2] : t \in Triads}
Reqs == RouterReqs \cup AsmReqs \cup CmReqs

PlainFrames == [cmd: {"register", "unregister", "other"}, len: {"max"}]
DataFrames == [cmd: {"rr", "unit"}, len: {"max"}, req: Reqs]
OverFrames == [cmd: {"register", "rr"}, len: {"over"}]
Frames == PlainFrames \cup DataFrames \cup OverFrames

VARIABLES
    tcp,        \* slot -> "open" | "closed"
    sess,       \* slot -> sessionHandle local of handleConnection (0: none)
    pc,         \* slot -> "idle" | "wlock" (blocked in Lock) | "set" | "get"
                \* (inside an assembly copy)
    op,         \* slot -> frame and value being written, or first half read
    asmData,    \* the assembly's Data as <<first half, second half>>
    wlock,      \* AssemblyObject.mu held for writing by
    rlocks,     \* AssemblyObject.mu held for reading by
    wq,         \* writers blocked in AssemblyObject.mu.Lock, in arrival order
    table,      \* ConnectionManager.connections: T->O id -> triad (history)
    nextConnID, \* ConnectionManager.nextConnID
    opens,      \* successful Forward_Opens so far (bounded)
    issued,     \* history: T->O ids returned so far
    event       \* history: the reply (or close) this step produced

vars == <<tcp, sess, pc, op, asmData, wlock, rlocks, wq, table, nextConnID,
          opens, issued, event>>

IdSpace == 0..(2 ^ IdBits - 1)

-----------------------------------------------------------------------------
(* Pure parts of the request path *)

(* bytes.Reader.Read: at end of data it fails with io.EOF, even for an    *)
(* empty buffer; otherwise it copies what is left, possibly short, and    *)
(* succeeds.  The connection manager reads the connection path with it    *)
(* (part_008:87, 185, 275) after binary.Read of the fixed fields.        *)
CmParseOk(r) == r.fixed /\ r.avail > 0

(* Dispatch (router.go:59-87): an empty path or a class segment other     *)
(* than a complete 0x20 / 0x21 one is returned as a Go error.             *)
RouterGoError(r) == r.cls \in {"none", "bad"}

(* AssemblyObject.HandleRequest (encode.go:178-253) for every outcome     *)
(* that does not copy data: the general status it returns.                *)
AsmStatus(r) ==
    CASE r.inst = "bad" -> StatusPathSegmentError
      [] r.svc = "other" -> StatusServiceNotSupported
      [] r.attr = 0 -> StatusPathSegmentError
      [] r.inst = "unknown" -> StatusObjectDoesNotExist
      [] r.attr # 3 -> StatusAttributeNotSupported
      [] r.svc = "set" /\ ~r.sizeOk -> StatusInvalidAttributeValue
      [] OTHER -> StatusSuccess

(* Requests whose handling copies assembly data in two halves.            *)
AsmCopies(r) == r.cls = "asm" /\ AsmStatus(r) = StatusSuccess

NextId(n) == (n + 1) % (2 ^ IdBits)

-----------------------------------------------------------------------------
Init ==
    /\ tcp = [c \in Conns |-> "closed"]
    /\ sess = [c \in Conns |-> 0]
    /\ pc = [c \in Conns |-> "idle"]
    /\ op = [c \in Conns |-> NoEvent]
    /\ asmData = <<V0, V0>>
    /\ wlock = NoConn
    /\ rlocks = {}
    /\ wq = <<>>
    /\ table = [i \in {} |-> NoConn]
    /\ nextConnID = StartId
    /\ opens = 0
    /\ issued = {}
    /\ event = NoEvent

-----------------------------------------------------------------------------
(* The reply handleConnection writes (part_001:122-138): the frame it     *)
(* answers, whether a session was registered before it, the encapsulation *)
(* status, the CIP general status inside it (-1: no CIP response) and     *)
(* the data that matters to a property.                                   *)
Reply(c, f, encap, cip, data) ==
    [kind |-> "reply", conn |-> c, frame |-> f, registered |-> sess[c] # 0,
     encap |-> encap, cip |-> cip, data |-> data]

Serving(c) == tcp[c] = "open" /\ pc[c] = "idle"

(* The assembly lock as AssemblyObject's RWMutex grants it: RLock also    *)
(* blocks while a writer waits in Lock (sync.RWMutex).                    *)
(* Mutant: readers are let in while a writer waits.                      *)
ReadFreeNoWriterWait == wlock = NoConn
ReadFree == wlock = NoConn /\ wq = <<>>
WriteFree == wlock = NoConn /\ rlocks = {}

(* acceptLoop hands a new TCP connection to handleConnection              *)
(* (part_001:39-56): its sessionHandle starts at 0.                       *)
Accept(c) ==
    /\ tcp[c] = "closed"
    /\ tcp' = [tcp EXCEPT ![c] = "open"]
    /\ sess' = [sess EXCEPT ![c] = 0]
    /\ event' = NoEvent
    /\ UNCHANGED <<pc, op, asmData, wlock, rlocks, wq, table, nextConnID, opens,
                   issued>>

(* io.ReadFull fails: the peer closed or the stream broke (60-62, 83-85). *)
PeerClose(c) ==
    /\ Serving(c)
    /\ tcp' = [tcp EXCEPT ![c] = "closed"]
    /\ event' = [kind |-> "peerclose", conn |-> c]
    /\ UNCHANGED <<sess, pc, op, asmData, wlock, rlocks, wq, table, nextConnID,
                   opens, issued>>

(* dataLen > MaxPacketSize: return, closing the connection (73-78).       *)
ServeOversize(c, f) ==
    /\ Serving(c)
    /\ f.len = "over"
    /\ tcp' = [tcp EXCEPT ![c] = "closed"]
    /\ event' = [kind |-> "close", conn |-> c, frame |-> f]
    /\ UNCHANGED <<sess, pc, op, asmData, wlock, rlocks, wq, table, nextConnID,
                   opens, issued>>

(* RegisterSession (93-100): the constant handle, in any state.           *)
ServeRegister(c, f) ==
    /\ Serving(c)
    /\ f.len # "over" /\ f.cmd = "register"
    /\ sess' = [sess EXCEPT ![c] = ServerHandle]
    /\ event' = Reply(c, f, 0, -1, NoEvent)
    /\ UNCHANGED <<tcp, pc, op, asmData, wlock, rlocks, wq, table, nextConnID,
                   opens, issued>>

(* UnregisterSession (102-103): return without a reply.                   *)
ServeUnregister(c, f) ==
    /\ Serving(c)
    /\ f.len # "over" /\ f.cmd = "unregister"
    /\ tcp' = [tcp EXCEPT ![c] = "closed"]
    /\ event' = [kind |-> "close", conn |-> c, frame |-> f]
    /\ UNCHANGED <<sess, pc, op, asmData, wlock, rlocks, wq, table, nextConnID,
                   opens, issued>>

(* Any other command (117-119), and a SendRRData / SendUnitData whose     *)
(* handler returns a Go error: CPF or request decoding failed (142-192,   *)
(* 236-308), or Dispatch rejected the class segment (195-198, 311-314).  *)
ServeEncapError(c, f) ==
    /\ Serving(c)
    /\ f.len # "over"
    /\ \/ f.cmd = "other"
       \/ f.cmd \in {"rr", "unit"} /\ f.req.cls = "malformed"
       \/ f.cmd \in {"rr", "unit"} /\ RouterGoError(f.req)
    /\ event' = Reply(c, f, EncapFail, -1, NoEvent)
    /\ UNCHANGED <<tcp, sess, pc, op, asmData, wlock, rlocks, wq, table,
                   nextConnID, opens, issued>>

(* Dispatch: no object registered for the class (router.go:89-98).        *)
ServeUnknownClass(c, f) ==
    /\ Serving(c)
    /\ f \in DataFrames /\ f.req.cls = "unknown"
    /\ event' = Reply(c, f, 0, StatusObjectDoesNotExist, NoEvent)
    /\ UNCHANGED <<tcp, sess, pc, op, asmData, wlock, rlocks, wq, table,
                   nextConnID, opens, issued>>

(* AssemblyObject.HandleRequest (encode.go:178-253) ending in a status:   *)
(* path and service checks first, then Get/SetAttributeSingle's checks   *)
(* under the lock (130-175).                                              *)
ServeAsmStatus(c, f) ==
    /\ Serving(c)
    /\ f \in DataFrames /\ f.req.cls = "asm" /\ ~AsmCopies(f.req)
    /\ LET r == f.req
           locked == r.inst # "bad" /\ r.svc # "other" /\ r.attr # 0
       IN /\ locked /\ r.svc = "get" => ReadFree
          /\ ~(locked /\ r.svc = "set")
          /\ event' = Reply(c, f, 0, AsmStatus(r), NoEvent)
    /\ UNCHANGED <<tcp, sess, pc, op, asmData, wlock, rlocks, wq, table,
                   nextConnID, opens, issued>>

(* A Set_Attribute_Single whose path and service checks pass reaches      *)
(* SetAttributeSingle, which calls ao.mu.Lock and blocks until no reader   *)
(* or writer holds it (encode.go:154-156).                                 *)
AsmSetCall(c, f) ==
    /\ Serving(c)
    /\ f \in DataFrames /\ f.req.cls = "asm" /\ f.req.svc = "set"
    /\ f.req.inst # "bad" /\ f.req.attr # 0
    /\ pc' = [pc EXCEPT ![c] = "wlock"]
    /\ wq' = Append(wq, c)
    /\ op' = [op EXCEPT ![c] = [frame |-> f, val |-> f.req.val]]
    /\ event' = NoEvent
    /\ UNCHANGED <<tcp, sess, asmData, wlock, rlocks, table, nextConnID, opens,
                   issued>>

(* Lock acquired (encode.go:156-175): an unknown instance, another         *)
(* attribute or a size mismatch returns its status and unlocks; a         *)
(* matching size starts copy(instance.Data, data), taken in two halves.   *)
AsmSetLocked(c) ==
    /\ pc[c] = "wlock" /\ WriteFree /\ Head(wq) = c
    /\ wq' = Tail(wq)
    /\ LET r == op[c].frame.req
       IN IF AsmCopies(r)
          THEN /\ wlock' = c
               /\ asmData' = [asmData EXCEPT ![1] = op[c].val]
               /\ pc' = [pc EXCEPT ![c] = "set"]
               /\ event' = NoEvent
               /\ UNCHANGED op
          ELSE /\ pc' = [pc EXCEPT ![c] = "idle"]
               /\ op' = [op EXCEPT ![c] = NoEvent]
               /\ event' = Reply(c, op[c].frame, 0, AsmStatus(r), NoEvent)
               /\ UNCHANGED <<wlock, asmData>>
    /\ UNCHANGED <<tcp, sess, rlocks, table, nextConnID, opens, issued>>

(* Mutant: the write leaves its request behind.                          *)
AsmSetEndKeepOp(c) ==
    /\ pc[c] = "set"
    /\ asmData' = [asmData EXCEPT ![2] = op[c].val]
    /\ wlock' = NoConn
    /\ pc' = [pc EXCEPT ![c] = "idle"]
    /\ event' = Reply(c, op[c].frame, 0, StatusSuccess, NoEvent)
    /\ UNCHANGED <<tcp, sess, op, rlocks, wq, table, nextConnID, opens, issued>>

AsmSetEnd(c) ==
    /\ pc[c] = "set"
    /\ asmData' = [asmData EXCEPT ![2] = op[c].val]
    /\ wlock' = NoConn
    /\ pc' = [pc EXCEPT ![c] = "idle"]
    /\ op' = [op EXCEPT ![c] = NoEvent]
    /\ event' = Reply(c, op[c].frame, 0, StatusSuccess, NoEvent)
    /\ UNCHANGED <<tcp, sess, rlocks, wq, table, nextConnID, opens, issued>>

(* Mutant: GetAttributeSingle copies without taking RLock.                *)
AsmGetBeginUnlocked(c, f) ==
    /\ Serving(c)
    /\ f \in DataFrames /\ AsmCopies(f.req) /\ f.req.svc = "get"
    /\ rlocks' = rlocks \cup {c}
    /\ pc' = [pc EXCEPT ![c] = "get"]
    /\ op' = [op EXCEPT ![c] = [frame |-> f, val |-> asmData[1]]]
    /\ event' = NoEvent
    /\ UNCHANGED <<tcp, sess, asmData, wlock, wq, table, nextConnID, opens,
                   issued>>

(* GetAttributeSingle of attribute 3 (encode.go:130-146): under RLock,    *)
(* copy the data into a fresh slice, taken in two halves.                 *)
AsmGetBegin(c, f) ==
    /\ Serving(c)
    /\ f \in DataFrames /\ AsmCopies(f.req) /\ f.req.svc = "get"
    /\ ReadFree
    /\ rlocks' = rlocks \cup {c}
    /\ pc' = [pc EXCEPT ![c] = "get"]
    /\ op' = [op EXCEPT ![c] = [frame |-> f, val |-> asmData[1]]]
    /\ event' = NoEvent
    /\ UNCHANGED <<tcp, sess, asmData, wlock, wq, table, nextConnID, opens,
                   issued>>

AsmGetEnd(c) ==
    /\ pc[c] = "get"
    /\ rlocks' = rlocks \ {c}
    /\ pc' = [pc EXCEPT ![c] = "idle"]
    /\ op' = [op EXCEPT ![c] = NoEvent]
    /\ event' = Reply(c, op[c].frame, 0, StatusSuccess,
                      <<op[c].val, asmData[2]>>)
    /\ UNCHANGED <<tcp, sess, asmData, wlock, wq, table, nextConnID, opens,
                   issued>>

(* ConnectionManager.HandleRequest (part_008:337-348) ending without a    *)
(* new entry: an unsupported service (0x08); a request whose fields or    *)
(* path read fails returns a plain Go error, which Dispatch answers with  *)
(* its 0x08 fallback (router.go:112-116); a Forward_Close that parses     *)
(* answers success and removes nothing (157-220).                         *)
ServeCm(c, f) ==
    /\ Serving(c)
    /\ f \in DataFrames /\ f.req.cls = "cm"
    /\ LET r == f.req
       IN /\ ~(r.svc \in {"fo", "lfo"} /\ CmParseOk(r))
          /\ event' = Reply(c, f, 0,
                            IF r.svc = "fc" /\ CmParseOk(r) THEN StatusSuccess
                            ELSE StatusServiceNotSupported,
                            NoEvent)
    /\ UNCHANGED <<tcp, sess, pc, op, asmData, wlock, rlocks, wq, table,
                   nextConnID, opens, issued>>

(* HandleForwardOpen / HandleLargeForwardOpen (34-154, 223-334): under    *)
(* cm.mu, nextConnID++ and store the new entry under it.                  *)
ForwardOpen(c, f) ==
    /\ Serving(c)
    /\ f \in DataFrames /\ f.req.cls = "cm" /\ f.req.svc \in {"fo", "lfo"}
    /\ CmParseOk(f.req)
    /\ opens < MaxOpens
    /\ LET id == NextId(nextConnID)
       IN /\ nextConnID' = id
          /\ table' = (id :> f.req.triad) @@ table
          /\ issued' = issued \cup {id}
          /\ event' = Reply(c, f, 0, StatusSuccess, id)
    /\ opens' = opens + 1
    /\ UNCHANGED <<tcp, sess, pc, op, asmData, wlock, rlocks, wq>>

-----------------------------------------------------------------------------
Serve(c) ==
    \/ PeerClose(c)
    \/ \E f \in Frames :
          \/ ServeOversize(c, f)
          \/ ServeRegister(c, f)
          \/ ServeUnregister(c, f)
          \/ ServeEncapError(c, f)
          \/ ServeUnknownClass(c, f)
          \/ ServeAsmStatus(c, f)
          \/ AsmSetCall(c, f)
          \/ AsmGetBegin(c, f)
          \/ ServeCm(c, f)
          \/ ForwardOpen(c, f)
    \/ AsmSetLocked(c)
    \/ AsmSetEnd(c)
    \/ AsmGetEnd(c)

Next == \E c \in Conns : Accept(c) \/ Serve(c)

(* A goroutine inside a copy finishes it and unlocks (the copies are      *)
(* finite and the unlocks deferred), and the writer at the head of the    *)
(* queue takes the lock once it stays free.                               *)
Fairness ==
    \A c \in Conns : /\ WF_vars(AsmSetLocked(c))
                    /\ WF_vars(AsmSetEnd(c)) /\ WF_vars(AsmGetEnd(c))

Spec == Init /\ [][Next]_vars /\ Fairness

-----------------------------------------------------------------------------
(* Properties *)

TypeOK ==
    /\ tcp \in [Conns -> {"open", "closed"}]
    /\ sess \in [Conns -> {0, ServerHandle}]
    /\ pc \in [Conns -> {"idle", "wlock", "set", "get"}]
    /\ \A c \in Conns : (pc[c] = "idle") = (op[c] = NoEvent)
    /\ asmData \in (Vals \cup {V0}) \X (Vals \cup {V0})
    /\ wlock \in Conns \cup {NoConn}
    /\ rlocks \subseteq Conns
    /\ wq \in Seq(Conns)
    /\ DOMAIN table \subseteq IdSpace
    /\ nextConnID \in IdSpace
    /\ opens \in 0..MaxOpens

IsReply(e) == e # NoEvent /\ e.kind = "reply"
IsCloseOf(e) == e # NoEvent /\ e.kind = "close"
DataReply(e) == IsReply(e) /\ e.frame.cmd \in {"rr", "unit"}
ReqOf(e) == e.frame.req

(* The access a reply reports, if it is a successful Get or Set of the   *)
(* assembly's data: the value it saw or wrote, as two halves.            *)
AsmAccess(e) ==
    IF DataReply(e) /\ ReqOf(e).cls = "asm" /\ e.cip = StatusSuccess
    THEN [svc |-> ReqOf(e).svc,
          val |-> IF ReqOf(e).svc = "get" THEN e.data
                  ELSE <<ReqOf(e).val, ReqOf(e).val>>]
    ELSE NoEvent

(* The assembly's data behaves as one atomic value (AssemblyAccess.tla):  *)
(* a Get_Attribute_Single returns the whole value held when it replies,   *)
(* never half of one Set and half of another and never a value already   *)
(* replaced, and a Set_Attribute_Single's value is all there when it      *)
(* replies, while requests of other TCP connections run concurrently.    *)
(* It is about the two copies in GetAttributeSingle (under RLock) and     *)
(* SetAttributeSingle (under Lock) (encode.go:130-175).  The abstract     *)
(* data is the second half: a Set writes it last.                         *)
Assembly == INSTANCE AssemblyAccess
                WITH Values <- Vals \cup {V0}, NoAccess <- NoEvent,
                     data <- asmData[2], done <- AsmAccess(event)

AssemblySpec == Assembly!Spec

(* A Set_Attribute_Single that has called Lock completes and is answered, *)
(* however the Gets and Sets of the other TCP connections keep the        *)
(* assembly's RWMutex busy: every path of GetAttributeSingle and          *)
(* SetAttributeSingle unlocks (encode.go:131-132, 155-156), and readers   *)
(* cannot overtake a waiting writer forever.                              *)
SetsComplete == \A c \in Conns : pc[c] = "wlock" ~> pc[c] = "idle"

(* Forward_Open allocates a fresh T->O connection id (spec section 4.6    *)
(* step 2): no id is returned twice, however the server goroutines of     *)
(* different TCP connections interleave their opens                       *)
(* (HandleForwardOpen's nextConnID++ under cm.mu, part_008:95-107).       *)
ToIdsFresh ==
    [][DataReply(event') /\ ReqOf(event').cls = "cm"
         /\ ReqOf(event').svc \in {"fo", "lfo"} /\ event'.cip = StatusSuccess
         => event'.data \notin issued]_vars

(* Session handles (spec section 4.5): RegisterSession gives each TCP     *)
(* connection a non-zero handle unique among the connections registered  *)
(* at the same time.                                                      *)
SessionHandlesUnique ==
    \A c, d \in Conns :
        (c # d /\ tcp[c] = "open" /\ tcp[d] = "open"
         /\ sess[c] # 0 /\ sess[d] # 0) => sess[c] # sess[d]

(* Session state machine (spec section 4.5): a connection in state        *)
(* Unregistered accepts only RegisterSession; SendRRData and SendUnitData *)
(* are served only after a session was registered on that connection.     *)
ServeOnlyRegistered ==
    [][DataReply(event') => event'.registered]_vars

(* The router always answers (spec sections 4.3 and 7): a request that    *)
(* decoded as a message-router request gets a CIP response inside a      *)
(* successful encapsulation reply; a missing or malformed class segment  *)
(* is PathSegmentError (0x04), never an encapsulation failure.            *)
RouterAlwaysResponds ==
    [][DataReply(event') /\ ReqOf(event').cls # "malformed"
         => /\ event'.encap = 0
            /\ ReqOf(event').cls \in {"none", "bad"}
                  => event'.cip = StatusPathSegmentError]_vars

(* Forward_Open structure (spec section 4.6): a request whose fixed       *)
(* fields and path_words*2 path bytes are all present succeeds, and one   *)
(* with a structural error fails with ConnectionFailure (0x01).           *)
WellFormedOpen(r) == r.fixed /\ r.avail >= 2 * r.words

ForwardOpenStatus ==
    [][DataReply(event') /\ ReqOf(event').cls = "cm"
         /\ ReqOf(event').svc \in {"fo", "lfo"}
         => event'.cip = IF WellFormedOpen(ReqOf(event')) THEN StatusSuccess
                         ELSE StatusConnectionFailure]_vars

(* Forward_Close (spec section 4.6) retires the connection opened with    *)
(* the same triad: after it succeeds no entry of that triad is left.      *)
ForwardCloseRetires ==
    [][DataReply(event') /\ ReqOf(event').cls = "cm"
         /\ ReqOf(event').svc = "fc" /\ event'.cip = StatusSuccess
         => \A id \in DOMAIN table' : table'[id] # ReqOf(event').triad]_vars

=============================================================================
