------------------------------ MODULE IORuntime ------------------------------
(***************************************************************************)
(* The implicit-I/O runtime of goeip: the connection map shared by the UDP *)
(* listener and the watchdog (pkg/runtime/runtime.go), the producer        *)
(* scheduler (pkg/runtime/scheduler.go), and the assembly instances they   *)
(* read and write (AssemblyObject.SetAttributeSingle in pkg/cip/encode.go).*)
(*                                                                         *)
(* Time is kept as ages: every timestamp of the code (LastSend,            *)
(* LastReceive, the two tickers) is the number of time units since it was *)
(* set, capped where larger values are indistinguishable to the code.     *)
(* An IOConnection is a pointer in the code: the scheduler's snapshot and  *)
(* the listener keep using it after the map has dropped it.  An object    *)
(* that left the map is "detached"; holders keep a copy of it.             *)
(***************************************************************************)
EXTENDS Naturals, FiniteSets, Functions, FiniteSetsExt, TLC

CONSTANTS
    ConnIds,        \* connection ids (IOConnection.ConnectionID)
    Asms,           \* registered assembly instance ids
    NoAsm,          \* IOConnection.Assembly == nil
    Vals,           \* payload values carried by datagrams and explicit writes
    V0,             \* initial content of every assembly
    Configs,        \* IOConnection field sets the application installs
    SchedPeriod,    \* scheduler ticker period (5 ms in scheduler.go:34)
    WatchdogPeriod, \* watchdog ticker period (100 ms in runtime.go:80)
    NoIngress,      \* the listener holds no datagram
    NoWrite,        \* the explicit writer holds no request
    NoConn,         \* the scheduler is not between send and LastSend update
    NoEvent         \* the step produced no observable event

ConfigSet == [rpi: Nat \ {0}, mult: 0..7, prod: BOOLEAN, cons: BOOLEAN,
              runIdle: BOOLEAN, remote: BOOLEAN, asm: Asms \cup {NoAsm}]

ASSUME /\ Configs # {} /\ Configs \subseteq ConfigSet
       /\ V0 \notin Vals
       /\ SchedPeriod \in Nat \ {0} /\ WatchdogPeriod \in Nat \ {0}

(* Connection timeout: RPI * (4 << TimeoutMult), runtime.go:111-112.       *)
Timeout(c) == c.rpi * (4 * 2 ^ c.mult)

(* Ages beyond these bounds are indistinguishable to every comparison the  *)
(* code makes (time.Since(LastSend) < RPI, now-LastReceive > timeout).     *)
RecvCap == Max({0} \cup {Timeout(c) : c \in {d \in Configs : d.cons}})
             + WatchdogPeriod + 1
SendCap == Max({c.rpi : c \in Configs})

(* LastReceive is read only for consumers (runtime.go:94-96) and LastSend *)
(* only for producers (scheduler.go:52): the other ages are kept at 0.    *)

CapInc(x, cap) == IF x < cap THEN x + 1 ELSE cap

(* An IOConnection object.  frameAge is a history field: time since this   *)
(* object last went through sendPacket.                                    *)
Obj == [cfg: Configs, sendAge: 0..SendCap, recvAge: 0..RecvCap,
        frameAge: 0..SendCap]

(* A datagram after parsing: the connection id of its address item, the   *)
(* Run bit of its Run/Idle header, whether the data item holds the 4-byte  *)
(* header, whether the rest matches the assembly size, and its content.    *)
Frames == [id: ConnIds, run: BOOLEAN, hdrOk: BOOLEAN, sizeOk: BOOLEAN,
           val: Vals]

VARIABLES
    conns,     \* Runtime.connections: id -> object
    asmData,   \* assembly id -> <<first half, second half>> of its Data
    aoLock,    \* holder of AssemblyObject.mu for writing
    lpc,       \* listener goroutine: where it is in handlePacket
    lst,       \* listener locals: datagram, the conn it resolved, attached?
    xst,       \* explicit Set_Attribute_Single in progress (server goroutine)
    spc,       \* scheduler goroutine: where it is in processTick
    stodo,     \* snapshot entries still to visit: id -> attached or copy
    scur,      \* connection whose LastSend is about to be set
    wdAge,     \* time since the watchdog ticker last fired
    schedAge,  \* time since the scheduler ticker last fired (capped)
    event      \* history: what this step made observable

vars == <<conns, asmData, aoLock, lpc, lst, xst, spc, stodo, scur, wdAge,
          schedAge, event>>

-----------------------------------------------------------------------------
(* Helpers *)

(* AddConnection: LastReceive = time.Now(), LastSend is the zero time.     *)
NewObject(c) == [cfg |-> c, recvAge |-> 0,
                 sendAge |-> IF c.prod THEN SendCap ELSE 0,
                 frameAge |-> IF c.prod THEN SendCap ELSE 0]

Age(o) == [o EXCEPT !.sendAge = IF o.cfg.prod THEN CapInc(@, SendCap) ELSE 0,
                    !.recvAge = IF o.cfg.cons THEN CapInc(@, RecvCap) ELSE 0,
                    !.frameAge = IF o.cfg.prod THEN CapInc(@, SendCap) ELSE 0]

(* The objects of ids R leave the map: the scheduler's snapshot keeps its  *)
(* pointers, which now denote detached copies.                             *)
DetachSched(R) ==
    [i \in DOMAIN stodo |->
        IF i \in R /\ stodo[i].attached
        THEN [attached |-> FALSE, obj |-> conns[i]]
        ELSE stodo[i]]

DetachListener(R) ==
    IF lst # NoIngress /\ lst.frame.id \in R
    THEN [lst EXCEPT !.attached = FALSE]
    ELSE lst

SchedObj(id) == IF stodo[id].attached THEN conns[id] ELSE stodo[id].obj

(* Write F(object) through the scheduler's pointer for id.                 *)
SetSchedObj(id, o) ==
    IF stodo[id].attached
    THEN /\ conns' = [conns EXCEPT ![id] = o]
         /\ UNCHANGED stodo
    ELSE /\ stodo' = [stodo EXCEPT ![id].obj = o]
         /\ UNCHANGED conns

(* Mutants of checkTimeouts' expiry test: the timeout doubled (4 << (mult *)
(* + 1)), and >= in place of >.                                           *)
StaleDoubled(o) == o.cfg.cons /\ o.recvAge > 2 * Timeout(o.cfg)
(* checkTimeouts' expiry test (runtime.go:94-96, 111-114).                *)
Stale(o) == o.cfg.cons /\ o.recvAge > Timeout(o.cfg)

Torn(a) == asmData[a][1] # asmData[a][2]

-----------------------------------------------------------------------------
Init ==
    /\ conns = [i \in {} |-> NoConn]
    /\ asmData = [a \in Asms |-> <<V0, V0>>]
    /\ aoLock = "free"
    /\ lpc = "idle"
    /\ lst = NoIngress
    /\ xst = NoWrite
    /\ spc = "idle"
    /\ stodo = [i \in {} |-> NoConn]
    /\ scur = NoConn
    /\ wdAge = 0
    /\ schedAge = 0
    /\ event = NoEvent

-----------------------------------------------------------------------------
(* Application calls: the scanner (cmd/scanner) or a connection manager.   *)

(* AddConnection (runtime.go:64-69) replaces any object with the same id. *)
AddConnection(id, c) ==
    /\ conns' = (id :> NewObject(c)) @@ conns
    /\ stodo' = DetachSched({id} \cap DOMAIN conns)
    /\ lst' = DetachListener({id} \cap DOMAIN conns)
    /\ event' = NoEvent
    /\ UNCHANGED <<asmData, aoLock, lpc, xst, spc, scur, wdAge, schedAge>>

(* RemoveConnection (runtime.go:72-76). *)
RemoveConnection(id) ==
    /\ id \in DOMAIN conns
    /\ conns' = Restrict(conns, DOMAIN conns \ {id})
    /\ stodo' = DetachSched({id})
    /\ lst' = DetachListener({id})
    /\ event' = NoEvent
    /\ UNCHANGED <<asmData, aoLock, lpc, xst, spc, scur, wdAge, schedAge>>

-----------------------------------------------------------------------------
(* The UDP listener, handlePacket (runtime.go:140-268).  A datagram that   *)
(* fails the framing checks of lines 146-186 or names an unknown id is     *)
(* dropped without any state change, so only known ids are received.      *)

(* Lines 190-209: look the id up under RLock and keep the pointer.         *)
Receive(f) ==
    /\ lpc = "idle"
    /\ f.id \in DOMAIN conns
    /\ lpc' = "refresh"
    /\ lst' = [frame |-> f, cfg |-> conns[f.id].cfg, attached |-> TRUE]
    /\ event' = NoEvent
    /\ UNCHANGED <<conns, asmData, aoLock, xst, spc, stodo, scur, wdAge,
                   schedAge>>

(* Lines 214-218: look the id up again under Lock and refresh LastReceive *)
(* of whatever object the map now holds for it.                           *)
Refresh ==
    /\ lpc = "refresh"
    /\ conns' = IF lst.frame.id \in DOMAIN conns
                THEN [conns EXCEPT ![lst.frame.id].recvAge = 0]
                ELSE conns
    /\ lpc' = "apply"
    /\ event' = NoEvent
    /\ UNCHANGED <<asmData, aoLock, lst, xst, spc, stodo, scur, wdAge,
                   schedAge>>

(* Lines 228-240 through the pointer kept at Receive: a Run/Idle          *)
(* connection needs 4 header bytes; a nil Assembly takes no data.         *)
ApplyDiscard ==
    /\ lpc = "apply"
    /\ \/ lst.cfg.runIdle /\ ~lst.frame.hdrOk
       \/ lst.cfg.asm = NoAsm
    /\ lpc' = "idle"
    /\ lst' = NoIngress
    /\ event' = NoEvent
    /\ UNCHANGED <<conns, asmData, aoLock, xst, spc, stodo, scur, wdAge,
                   schedAge>>

ApplyGuard ==
    /\ lpc = "apply"
    /\ ~(lst.cfg.runIdle /\ ~lst.frame.hdrOk)
    /\ lst.cfg.asm # NoAsm
    /\ aoLock = "free"

(* Line 267, SetAttributeSingle (encode.go:154-175) under AssemblyObject  *)
(* .mu: a size mismatch returns InvalidAttributeValue, which is ignored.  *)
ApplyRejected ==
    /\ ApplyGuard
    /\ ~lst.frame.sizeOk
    /\ lpc' = "idle"
    /\ lst' = NoIngress
    /\ event' = NoEvent
    /\ UNCHANGED <<conns, asmData, aoLock, xst, spc, stodo, scur, wdAge,
                   schedAge>>

(* encode.go:170, copy(instance.Data, data), is not atomic: it is taken in *)
(* two halves with the lock held in between.                              *)
ApplyBegin ==
    /\ ApplyGuard
    /\ lst.frame.sizeOk
    /\ aoLock' = "listener"
    /\ asmData' = [asmData EXCEPT ![lst.cfg.asm][1] = lst.frame.val]
    /\ lpc' = "copy"
    /\ event' = [kind |-> "apply", attached |-> lst.attached,
                 runIdle |-> lst.cfg.runIdle, run |-> lst.frame.run]
    /\ UNCHANGED <<conns, lst, xst, spc, stodo, scur, wdAge, schedAge>>

ApplyEnd ==
    /\ lpc = "copy"
    /\ asmData' = [asmData EXCEPT ![lst.cfg.asm][2] = lst.frame.val]
    /\ aoLock' = "free"
    /\ lpc' = "idle"
    /\ lst' = NoIngress
    /\ event' = NoEvent
    /\ UNCHANGED <<conns, xst, spc, stodo, scur, wdAge, schedAge>>

-----------------------------------------------------------------------------
(* An explicit Set_Attribute_Single on attribute 3 of an assembly, run by  *)
(* a TCP server goroutine through AssemblyObject.HandleRequest ->          *)
(* SetAttributeSingle (encode.go:154-175, 245-249), with a matching size.  *)

ExplicitSetBegin(a, v) ==
    /\ xst = NoWrite
    /\ aoLock = "free"
    /\ aoLock' = "explicit"
    /\ asmData' = [asmData EXCEPT ![a][1] = v]
    /\ xst' = [asm |-> a, val |-> v]
    /\ event' = NoEvent
    /\ UNCHANGED <<conns, lpc, lst, spc, stodo, scur, wdAge, schedAge>>

ExplicitSetEnd ==
    /\ xst # NoWrite
    /\ asmData' = [asmData EXCEPT ![xst.asm][2] = xst.val]
    /\ aoLock' = "free"
    /\ xst' = NoWrite
    /\ event' = NoEvent
    /\ UNCHANGED <<conns, lpc, lst, spc, stodo, scur, wdAge, schedAge>>

-----------------------------------------------------------------------------
(* The watchdog, checkTimeouts (runtime.go:88-123), atomic under Lock:     *)
(* it removes every consumer silent for longer than its timeout.          *)
WatchdogTick ==
    /\ wdAge = WatchdogPeriod
    /\ LET expired == {id \in DOMAIN conns : Stale(conns[id])}
       IN /\ conns' = Restrict(conns, DOMAIN conns \ expired)
          /\ stodo' = DetachSched(expired)
          /\ lst' = DetachListener(expired)
    /\ wdAge' = 0
    /\ event' = [kind |-> "watchdog"]
    /\ UNCHANGED <<asmData, aoLock, lpc, xst, spc, scur, schedAge>>

-----------------------------------------------------------------------------
(* The scheduler, processTick (scheduler.go:48-83).                      *)

(* Mutant: the snapshot filters on IsConsumer instead of IsProducer.     *)
SchedStartConsumers ==
    /\ spc = "idle"
    /\ schedAge >= SchedPeriod
    /\ stodo' = [id \in {i \in DOMAIN conns : conns[i].cfg.cons} |->
                    [attached |-> TRUE]]
    /\ spc' = "loop"
    /\ schedAge' = 0
    /\ event' = NoEvent
    /\ UNCHANGED <<conns, asmData, aoLock, lpc, lst, xst, scur, wdAge>>

(* Lines 49-57: snapshot the producers under RLock.                      *)
SchedStart ==
    /\ spc = "idle"
    /\ schedAge >= SchedPeriod
    /\ stodo' = [id \in {i \in DOMAIN conns : conns[i].cfg.prod} |->
                    [attached |-> TRUE]]
    /\ spc' = "loop"
    /\ schedAge' = 0
    /\ event' = NoEvent
    /\ UNCHANGED <<conns, asmData, aoLock, lpc, lst, xst, scur, wdAge>>

(* Lines 61-67: not due yet, or no assembly.                             *)
SchedSkip(id) ==
    /\ spc = "loop"
    /\ id \in DOMAIN stodo
    /\ LET o == SchedObj(id)
       IN o.sendAge < o.cfg.rpi \/ o.cfg.asm = NoAsm
    /\ stodo' = Restrict(stodo, DOMAIN stodo \ {id})
    /\ event' = NoEvent
    /\ UNCHANGED <<conns, asmData, aoLock, lpc, lst, xst, spc, scur, wdAge,
                   schedAge>>

(* Mutant: the due check is off by one (<= RPI in place of < RPI).       *)
SchedSendEarly(id) ==
    /\ spc = "loop"
    /\ id \in DOMAIN stodo
    /\ LET o == SchedObj(id)
       IN /\ o.sendAge + 1 >= o.cfg.rpi
          /\ o.cfg.asm # NoAsm
          /\ SetSchedObj(id, [o EXCEPT !.frameAge = 0])
          /\ event' = [kind |-> "send", id |-> id, age |-> o.frameAge,
                       rpi |-> o.cfg.rpi, wire |-> o.cfg.remote,
                       torn |-> Torn(o.cfg.asm)]
    /\ spc' = "sent"
    /\ scur' = id
    /\ UNCHANGED <<asmData, aoLock, lpc, lst, xst, wdAge, schedAge>>

(* Line 70, sendPacket (lines 85-182): reads conn.Assembly.Data without *)
(* AssemblyObject.mu, increments SequenceCount (not modelled: no control  *)
(* depends on it) and writes to RemoteAddr when it is set.                *)
SchedSend(id) ==
    /\ spc = "loop"
    /\ id \in DOMAIN stodo
    /\ LET o == SchedObj(id)
       IN /\ o.sendAge >= o.cfg.rpi
          /\ o.cfg.asm # NoAsm
          /\ SetSchedObj(id, [o EXCEPT !.frameAge = 0])
          /\ event' = [kind |-> "send", id |-> id, age |-> o.frameAge,
                       rpi |-> o.cfg.rpi, wire |-> o.cfg.remote,
                       torn |-> Torn(o.cfg.asm)]
    /\ spc' = "sent"
    /\ scur' = id
    /\ UNCHANGED <<asmData, aoLock, lpc, lst, xst, wdAge, schedAge>>

(* Mutant: the loop moves on without finishing the current connection.  *)
SchedMarkNoReset ==
    /\ spc = "sent"
    /\ LET o == SchedObj(scur)
       IN IF stodo[scur].attached
          THEN conns' = [conns EXCEPT ![scur] = [o EXCEPT !.sendAge = 0]]
          ELSE UNCHANGED conns
    /\ stodo' = Restrict(stodo, DOMAIN stodo \ {scur})
    /\ spc' = "loop"
    /\ event' = NoEvent
    /\ UNCHANGED <<asmData, aoLock, lpc, lst, xst, scur, wdAge, schedAge>>

(* Line 81: conn.LastSend = time.Now(), after the send.                   *)
SchedMark ==
    /\ spc = "sent"
    /\ LET o == SchedObj(scur)
       IN IF stodo[scur].attached
          THEN conns' = [conns EXCEPT ![scur] = [o EXCEPT !.sendAge = 0]]
          ELSE UNCHANGED conns
    /\ stodo' = Restrict(stodo, DOMAIN stodo \ {scur})
    /\ spc' = "loop"
    /\ scur' = NoConn
    /\ event' = NoEvent
    /\ UNCHANGED <<asmData, aoLock, lpc, lst, xst, wdAge, schedAge>>

SchedDone ==
    /\ spc = "loop"
    /\ stodo = [i \in {} |-> NoConn]
    /\ spc' = "idle"
    /\ event' = NoEvent
    /\ UNCHANGED <<conns, asmData, aoLock, lpc, lst, xst, stodo, scur, wdAge,
                   schedAge>>

-----------------------------------------------------------------------------
(* Time passes; the watchdog ticker is served when it fires.               *)
Tick ==
    /\ wdAge < WatchdogPeriod
    /\ conns' = [id \in DOMAIN conns |-> Age(conns[id])]
    /\ stodo' = [id \in DOMAIN stodo |->
                    IF stodo[id].attached THEN stodo[id]
                    ELSE [stodo[id] EXCEPT !.obj = Age(@)]]
    /\ wdAge' = wdAge + 1
    /\ schedAge' = CapInc(schedAge, SchedPeriod)
    /\ event' = NoEvent
    /\ UNCHANGED <<asmData, aoLock, lpc, lst, xst, spc, scur>>

-----------------------------------------------------------------------------
Environment ==
    \/ \E id \in ConnIds, c \in Configs : AddConnection(id, c)
    \/ \E id \in ConnIds : RemoveConnection(id)
    \/ \E f \in Frames : Receive(f)
    \/ \E a \in Asms, v \in Vals : ExplicitSetBegin(a, v)

Listener == Refresh \/ ApplyDiscard \/ ApplyRejected \/ ApplyBegin \/ ApplyEnd

Scheduler ==
    \/ SchedStart
    \/ \E id \in ConnIds : SchedSkip(id) \/ SchedSend(id)
    \/ SchedMark
    \/ SchedDone

Next ==
    \/ Environment
    \/ Listener
    \/ ExplicitSetEnd
    \/ WatchdogTick
    \/ Scheduler
    \/ Tick

(* Goroutines that are runnable are eventually run, and time passes.       *)
Fairness ==
    /\ WF_vars(Listener)
    /\ WF_vars(ExplicitSetEnd)
    /\ WF_vars(WatchdogTick)
    /\ WF_vars(Scheduler)
    /\ WF_vars(Tick)

Spec == Init /\ [][Next]_vars /\ Fairness

-----------------------------------------------------------------------------
(* Properties *)

TypeOK ==
    /\ DOMAIN conns \subseteq ConnIds
    /\ \A id \in DOMAIN conns : conns[id] \in Obj
    /\ asmData \in [Asms -> (Vals \cup {V0}) \X (Vals \cup {V0})]
    /\ aoLock \in {"free", "listener", "explicit"}
    /\ lpc \in {"idle", "refresh", "apply", "copy"}
    /\ (lpc = "idle") = (lst = NoIngress)
    /\ spc \in {"idle", "loop", "sent"}
    /\ DOMAIN stodo \subseteq ConnIds
    /\ (spc = "sent") = (scur # NoConn)
    /\ wdAge \in 0..WatchdogPeriod
    /\ schedAge \in 0..SchedPeriod

IsEvent(k) == event' # NoEvent /\ event'.kind = k

(* Watchdog expiry (spec section 8): a consumer that has been silent for  *)
(* longer than RPI * (4 << TimeoutMult) is gone from the map by the next  *)
(* watchdog tick after that instant, so no consumer in the map is ever    *)
(* older than its timeout plus one watchdog period.  It depends on        *)
(* checkTimeouts, the listener's refresh under Lock, and AddConnection    *)
(* resetting LastReceive.                                                 *)
WatchdogExpiryBound ==
    \A id \in DOMAIN conns :
        conns[id].cfg.cons =>
            conns[id].recvAge <= Timeout(conns[id].cfg) + WatchdogPeriod

(* Producer timing (spec section 8): two consecutive sendPacket calls for *)
(* one IOConnection are at least RPI apart.  It holds because LastSend is *)
(* set after the send (scheduler.go:81) and the due check reads it       *)
(* afresh for every connection while time runs through the loop.          *)
ProducerSpacing ==
    [][IsEvent("send") => event'.age >= event'.rpi]_vars

ProducerBound(id) ==
    id \in DOMAIN conns /\ conns[id].cfg.prod /\ conns[id].cfg.asm # NoAsm

(* A producer with an assembly is eventually sent, unless it leaves the   *)
(* map or is replaced first: the scheduler's snapshot, due check and      *)
(* LastSend update never starve it.                                       *)
ProducersProduce ==
    \A id \in ConnIds :
        ProducerBound(id)
            ~> (\/ ~ProducerBound(id)
                \/ event # NoEvent /\ event.kind = "send" /\ event.id = id)

(* Ingress (spec section 4.7): a datagram whose connection is not in the  *)
(* map is dropped.  handlePacket resolves the id under RLock, releases    *)
(* it, and applies the payload through the pointer it kept, even if the   *)
(* watchdog or RemoveConnection dropped the connection in between.        *)
IngressOnlyForLiveConnections ==
    [][IsEvent("apply") => event'.attached]_vars

(* Run/Idle (spec section 4.7, docs/implicit_messaging.md): the low bit   *)
(* of the Run/Idle header selects Run or Idle, and Idle data is not       *)
(* applied to the assembly.                                               *)
IdleDataNotApplied ==
    [][IsEvent("apply") => (event'.runIdle => event'.run)]_vars

(* Assemblies are guarded by a per-object lock (spec section 5): a frame  *)
(* the scheduler produces carries assembly data that was whole at some    *)
(* instant, never half of one write and half of another.                  *)
ProducedFramesWhole ==
    [][IsEvent("send") => ~event'.torn]_vars

=============================================================================
