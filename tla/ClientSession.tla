---------------------------- MODULE ClientSession ----------------------------
(***************************************************************************)
(* The originator's explicit-messaging stack as a program uses it from    *)
(* several goroutines: client.ReconnectingClient (getClient, Close,       *)
(* executeWithRetry), client.Client.ReadTag, session.Session.SendRRData   *)
(* and transport.TCPTransport.Send/Receive, over TCP links to a target    *)
(* that answers every request frame in order.                             *)
(*                                                                         *)
(* Callers are goroutines calling ReconnectingClient.ReadTag, for         *)
(* instance the polling goroutines of a TagMonitor whose reader is the     *)
(* ReconnectingClient (docs/handling_disconnects.md).  Everything done    *)
(* under rc.mu is one step; Send's two writes and Receive are steps of     *)
(* their own, since nothing serialises them between callers.              *)
(***************************************************************************)
EXTENDS Naturals, Sequences, FiniteSets, TLC

CONSTANTS
    Callers,      \* goroutines calling ReadTag on one ReconnectingClient
    MaxCalls,     \* ReadTag calls each caller makes
    MaxRetries,   \* ReconnectingClient.maxRetries (default 3; -1 not modelled)
    MaxDials,     \* transports that can be dialled in a behaviour
    MaxResets,    \* network failures in a behaviour
    NoCall        \* the request a garbled frame answers

ASSUME /\ MaxCalls \in Nat \ {0} /\ MaxRetries \in Nat
       /\ MaxDials \in Nat \ {0} /\ MaxResets \in Nat

Calls == Callers \X (1..MaxCalls)
Links == 1..MaxDials
NoLink == 0

(* A write on a TCP stream: the encapsulation header of a SendRRData, or   *)
(* its payload (TCPTransport.Send writes them in two conn.Write calls).    *)
Chunks == [k: {"hdr", "data"}, call: Calls]
(* A reply frame: encapsulation status success with a CIP response of     *)
(* general status 0 ("ok") or not ("cip"), or a non-zero encapsulation    *)
(* status ("encap", the server's answer to a request it cannot decode).   *)
Replies == [st: {"ok", "cip", "encap"}, call: Calls \cup {NoCall}]
(* The error executeWithRetry keeps in lastErr.                           *)
Errors == {"none", "closed", "dial", "register", "transport", "encap", "cip"}

VARIABLES
    rcClient,   \* rc.client: the link of the current *Client, or NoLink
    rcClosed,   \* rc.closed
    dials,      \* links dialled so far (link i is the i-th)
    tcp,        \* link state: unused, open, eof (peer closed or reset), closed
    wire,       \* bytes written by the originator, not yet read by the target
    back,       \* reply frames written by the target, not yet read
    pc,         \* where each caller is in ReadTag
    held,       \* the client local of executeWithRetry
    tries,      \* its loop counter i
    calls,      \* ReadTag calls a caller has started
    lastErr,    \* executeWithRetry's lastErr
    resets,     \* network failures so far
    event       \* the last return or close, for the properties

vars == <<rcClient, rcClosed, dials, tcp, wire, back, pc, held, tries, calls,
          lastErr, resets, event>>

CallOf(c) == <<c, calls[c]>>

(* NewReconnectingClient with autoConnect: the first connect succeeds or   *)
(* fails and is left to the first operation (reconnect.go:85-91).          *)
Init ==
    /\ rcClosed = FALSE
    /\ \/ /\ rcClient = 1 /\ dials = 1
          /\ tcp = [l \in Links |-> IF l = 1 THEN "open" ELSE "unused"]
       \/ /\ rcClient = NoLink /\ dials = 0
          /\ tcp = [l \in Links |-> "unused"]
    /\ wire = [l \in Links |-> <<>>]
    /\ back = [l \in Links |-> <<>>]
    /\ pc = [c \in Callers |-> "idle"]
    /\ held = [c \in Callers |-> NoLink]
    /\ tries = [c \in Callers |-> 0]
    /\ calls = [c \in Callers |-> 0]
    /\ lastErr = [c \in Callers |-> "none"]
    /\ resets = 0
    /\ event = [kind |-> "none"]

(* Client.Close on link l: Unregister's write (its error only logged) and  *)
(* conn.Close; what was in flight on the link is gone.                     *)
CloseLink(l) ==
    /\ tcp' = [tcp EXCEPT ![l] = "closed"]
    /\ wire' = [wire EXCEPT ![l] = <<>>]
    /\ back' = [back EXCEPT ![l] = <<>>]

(* The end of one iteration of executeWithRetry's loop after an error:    *)
(* the next iteration while i <= maxRetries, else "max retries exceeded"  *)
(* wrapping lastErr (reconnect.go:176, 213-223).                          *)
RetryOffByOne(c, err) ==
    IF tries[c] <= MaxRetries
    THEN /\ pc' = [pc EXCEPT ![c] = "get"]
         /\ tries' = [tries EXCEPT ![c] = @ + 1]
         /\ event' = [kind |-> "none"]
    ELSE /\ pc' = [pc EXCEPT ![c] = "idle"]
         /\ tries' = tries
         /\ event' = [kind |-> "return", call |-> CallOf(c), ok |-> FALSE,
                      got |-> NoCall, err |-> err]

Retry(c, err) ==
    IF tries[c] < MaxRetries
    THEN /\ pc' = [pc EXCEPT ![c] = "get"]
         /\ tries' = [tries EXCEPT ![c] = @ + 1]
         /\ event' = [kind |-> "none"]
    ELSE /\ pc' = [pc EXCEPT ![c] = "idle"]
         /\ tries' = tries
         /\ event' = [kind |-> "return", call |-> CallOf(c), ok |-> FALSE,
                      got |-> NoCall, err |-> err]

(* getClient failed: lastErr = err, sleep, continue (reconnect.go:178-186).*)
GetFailedNoCount(c, err) ==
    /\ lastErr' = [lastErr EXCEPT ![c] = err]
    /\ pc' = [pc EXCEPT ![c] = "get"]
    /\ UNCHANGED tries
    /\ event' = [kind |-> "none"]

GetFailed(c, err) ==
    /\ lastErr' = [lastErr EXCEPT ![c] = err]
    /\ Retry(c, err)

(* The operation failed: lastErr = err, then the invalidation step.       *)
OpFailed(c, err) ==
    /\ lastErr' = [lastErr EXCEPT ![c] = err]
    /\ pc' = [pc EXCEPT ![c] = "inval"]
    /\ event' = [kind |-> "none"]

(* A goroutine calls rc.ReadTag (reconnect.go:158-162).                   *)
Call(c) ==
    /\ pc[c] = "idle" /\ calls[c] < MaxCalls
    /\ calls' = [calls EXCEPT ![c] = @ + 1]
    /\ tries' = [tries EXCEPT ![c] = 0]
    /\ pc' = [pc EXCEPT ![c] = "get"]
    /\ lastErr' = [lastErr EXCEPT ![c] = "none"]
    /\ event' = [kind |-> "none"]
    /\ UNCHANGED <<rcClient, rcClosed, dials, tcp, wire, back, held, resets>>

(* getClient's read-locked part (reconnect.go:113-123).                   *)
GetRead(c) ==
    /\ pc[c] = "get"
    /\ \/ /\ rcClosed
          /\ GetFailed(c, "closed")
          /\ UNCHANGED held
       \/ /\ ~rcClosed /\ rcClient # NoLink
          /\ held' = [held EXCEPT ![c] = rcClient]
          /\ pc' = [pc EXCEPT ![c] = "hdr"]
          /\ UNCHANGED <<tries, lastErr>> /\ event' = [kind |-> "none"]
       \/ /\ ~rcClosed /\ rcClient = NoLink
          /\ pc' = [pc EXCEPT ![c] = "lock"]
          /\ UNCHANGED <<held, tries, lastErr>> /\ event' = [kind |-> "none"]
    /\ UNCHANGED <<rcClient, rcClosed, dials, tcp, wire, back, calls, resets>>

(* connect() under rc.mu: NewClient dials (DialTimeout) and registers a    *)
(* session; on a register failure it closes the transport                 *)
(* (reconnect.go:98-109, client.go:18-31, session.go:32-58).  The new      *)
(* link is not shared until rc.client is set, so this is one step.         *)
Connect(c) ==
    \/ /\ GetFailed(c, "dial")
       /\ UNCHANGED <<held, rcClient, dials, tcp>>
    \/ /\ dials < MaxDials
       /\ dials' = dials + 1
       /\ \/ /\ tcp' = [tcp EXCEPT ![dials + 1] = "open"]
             /\ rcClient' = dials + 1
             /\ held' = [held EXCEPT ![c] = dials + 1]
             /\ pc' = [pc EXCEPT ![c] = "hdr"]
             /\ UNCHANGED <<tries, lastErr>> /\ event' = [kind |-> "none"]
          \/ /\ tcp' = [tcp EXCEPT ![dials + 1] = "closed"]
             /\ GetFailed(c, "register")
             /\ UNCHANGED <<held, rcClient>>

(* getClient found the client closed, or a client set by another caller.  *)
LockedClosed(c) ==
    /\ GetFailed(c, "closed")
    /\ UNCHANGED <<held, rcClient, dials, tcp>>

LockedHave(c) ==
    /\ held' = [held EXCEPT ![c] = rcClient]
    /\ pc' = [pc EXCEPT ![c] = "hdr"]
    /\ UNCHANGED <<tries, lastErr, rcClient, dials, tcp>>
    /\ event' = [kind |-> "none"]

(* getClient's write-locked part (reconnect.go:125-140).                  *)
GetLockNoRecheck(c) ==
    /\ pc[c] = "lock"
    /\ \/ rcClosed /\ LockedClosed(c)
       \/ ~rcClosed /\ Connect(c)
    /\ UNCHANGED <<rcClosed, wire, back, calls, resets>>

GetLockNoClosedCheck(c) ==
    /\ pc[c] = "lock"
    /\ \/ rcClient # NoLink /\ LockedHave(c)
       \/ rcClient = NoLink /\ Connect(c)
    /\ UNCHANGED <<rcClosed, wire, back, calls, resets>>

GetLock(c) ==
    /\ pc[c] = "lock"
    /\ \/ rcClosed /\ LockedClosed(c)
       \/ ~rcClosed /\ rcClient # NoLink /\ LockedHave(c)
       \/ ~rcClosed /\ rcClient = NoLink /\ Connect(c)
    /\ UNCHANGED <<rcClosed, wire, back, calls, resets>>

(* TCPTransport.Send: header.Encode(conn), then conn.Write(data); either   *)
(* write fails on a link that is not open (tcp.go:39-62, called from       *)
(* session.go:94-96).                                                      *)
SendWrite(c, part, next) ==
    /\ pc[c] = part
    /\ IF tcp[held[c]] = "open"
       THEN /\ wire' = [wire EXCEPT ![held[c]] =
                            Append(@, [k |-> part, call |-> CallOf(c)])]
            /\ pc' = [pc EXCEPT ![c] = next]
            /\ UNCHANGED lastErr /\ event' = [kind |-> "none"]
       ELSE /\ OpFailed(c, "transport") /\ UNCHANGED wire
    /\ UNCHANGED <<rcClient, rcClosed, dials, tcp, back, held, tries, calls,
                   resets>>

SendHeader(c) == SendWrite(c, "hdr", "data")
SendData(c) == SendWrite(c, "data", "recv")

(* TCPTransport.Receive and the checks of SendRRData, SendCIPRequest and   *)
(* Client.ReadTag: a non-zero encapsulation status or CIP general status   *)
(* is an error; otherwise ReadTag returns the response data, that is the   *)
(* answer to whichever request the frame answers (tcp.go:65-80,            *)
(* session.go:99-126, client.go:53-67).  On a link with nothing to read    *)
(* the read blocks while it is open and fails once it is not.             *)
Recv(c) ==
    /\ pc[c] = "recv"
    /\ LET l == held[c] IN
       \/ /\ back[l] # <<>>
          /\ back' = [back EXCEPT ![l] = Tail(@)]
          /\ IF Head(back[l]).st = "ok"
             THEN /\ pc' = [pc EXCEPT ![c] = "idle"]
                  /\ event' = [kind |-> "return", call |-> CallOf(c),
                               ok |-> TRUE, got |-> Head(back[l]).call,
                               err |-> "none"]
                  /\ UNCHANGED lastErr
             ELSE OpFailed(c, Head(back[l]).st)
       \/ /\ back[l] = <<>> /\ tcp[l] # "open"
          /\ OpFailed(c, "transport") /\ UNCHANGED back
    /\ UNCHANGED <<rcClient, rcClosed, dials, tcp, wire, held, tries, calls,
                   resets>>

(* After a failed operation: under rc.mu, close and drop the client only  *)
(* if it is still the one the operation used, then sleep and go round     *)
(* (reconnect.go:193-221).                                                 *)
Invalidate(c) ==
    /\ pc[c] = "inval"
    /\ IF rcClient = held[c]
       THEN CloseLink(held[c]) /\ rcClient' = NoLink
       ELSE UNCHANGED <<tcp, wire, back, rcClient>>
    /\ Retry(c, lastErr[c])
    /\ UNCHANGED <<rcClosed, dials, held, calls, lastErr, resets>>

(* ReconnectingClient.Close (reconnect.go:144-155).  Calling it again     *)
(* changes nothing.                                                        *)
RcClose ==
    /\ ~rcClosed
    /\ rcClosed' = TRUE
    /\ IF rcClient # NoLink
       THEN CloseLink(rcClient) /\ rcClient' = NoLink
       ELSE UNCHANGED <<tcp, wire, back, rcClient>>
    /\ event' = [kind |-> "none"]
    /\ UNCHANGED <<dials, pc, held, tries, calls, lastErr, resets>>

(* The target reads one frame: a 24-byte header, then Length bytes, which *)
(* are the next write on the stream whoever made it, and answers it in    *)
(* order.  A request whose payload is not its own does not decode and is  *)
(* answered with an encapsulation error.  A payload at the head of the    *)
(* stream is read as a header: its Length is garbage, so the target       *)
(* either closes the connection (Length > 4096) or answers the unknown    *)
(* command with encapsulation status 1 and reads on (part_001:66-138).    *)
Serve(l) ==
    /\ tcp[l] = "open" /\ wire[l] # <<>>
    /\ LET h == Head(wire[l]) IN
       \/ /\ h.k = "data"
          /\ tcp' = [tcp EXCEPT ![l] = "eof"]
          /\ wire' = [wire EXCEPT ![l] = <<>>]
          /\ UNCHANGED back /\ event' = [kind |-> "none"]
       \/ /\ h.k = "data"
          /\ wire' = [wire EXCEPT ![l] = Tail(@)]
          /\ back' = [back EXCEPT ![l] =
                          Append(@, [st |-> "encap", call |-> NoCall])]
          /\ event' = [kind |-> "serve", whole |-> FALSE]
          /\ UNCHANGED tcp
       \/ /\ h.k = "hdr" /\ Len(wire[l]) >= 2
          /\ LET d == wire[l][2]
                 whole == d.k = "data" /\ d.call = h.call
             IN /\ wire' = [wire EXCEPT ![l] = SubSeq(@, 3, Len(@))]
                /\ \E r \in IF whole
                            THEN [st: {"ok", "cip"}, call: {h.call}]
                            ELSE [st: {"encap"}, call: {NoCall}] :
                       back' = [back EXCEPT ![l] = Append(@, r)]
                /\ event' = [kind |-> "serve", whole |-> whole]
          /\ UNCHANGED tcp
    /\ UNCHANGED <<rcClient, rcClosed, dials, pc, held, tries, calls, lastErr,
                   resets>>

(* The network fails: both directions of the link are lost.               *)
NetFail(l) ==
    /\ resets < MaxResets /\ tcp[l] = "open"
    /\ resets' = resets + 1
    /\ tcp' = [tcp EXCEPT ![l] = "eof"]
    /\ wire' = [wire EXCEPT ![l] = <<>>]
    /\ back' = [back EXCEPT ![l] = <<>>]
    /\ event' = [kind |-> "none"]
    /\ UNCHANGED <<rcClient, rcClosed, dials, pc, held, tries, calls, lastErr>>

(* Every caller has made its calls and returned.                          *)
Finished ==
    /\ \A c \in Callers : pc[c] = "idle" /\ calls[c] = MaxCalls
    /\ UNCHANGED vars

Caller(c) ==
    \/ GetRead(c) \/ GetLock(c) \/ SendHeader(c) \/ SendData(c) \/ Recv(c)
    \/ Invalidate(c)

Next ==
    \/ \E c \in Callers : Call(c) \/ Caller(c)
    \/ \E l \in Links : Serve(l) \/ NetFail(l)
    \/ RcClose
    \/ Finished

(* Runnable goroutines run, and the target answers what it has read.     *)
Fairness ==
    /\ \A c \in Callers : WF_vars(Caller(c))
    /\ \A l \in Links : WF_vars(Serve(l))

Spec == Init /\ [][Next]_vars /\ Fairness

-----------------------------------------------------------------------------
Events ==
    {[kind |-> "none"]}
    \cup [kind: {"return"}, call: Calls, ok: BOOLEAN,
          got: Calls \cup {NoCall}, err: Errors]
    \cup [kind: {"serve"}, whole: BOOLEAN]

TypeOK ==
    /\ rcClient \in Links \cup {NoLink} /\ rcClosed \in BOOLEAN
    /\ dials \in 0..MaxDials
    /\ tcp \in [Links -> {"unused", "open", "eof", "closed"}]
    /\ wire \in [Links -> Seq(Chunks)] /\ back \in [Links -> Seq(Replies)]
    /\ pc \in [Callers -> {"idle", "get", "lock", "hdr", "data", "recv",
                           "inval"}]
    /\ held \in [Callers -> Links \cup {NoLink}]
    /\ tries \in [Callers -> 0..MaxRetries]
    /\ calls \in [Callers -> 0..MaxCalls]
    /\ lastErr \in [Callers -> Errors]
    /\ resets \in 0..MaxResets
    /\ event \in Events

(* No transport is leaked: every link dialled, other than the one          *)
(* rc.client holds, has been closed.  getClient re-checks rc.client under  *)
(* the write lock and executeWithRetry closes only the client it used and  *)
(* only while rc.client still holds it (reconnect.go:133, 204); callers    *)
(* that saw no client at the same time must not each dial one.            *)
NoLeakedTransport ==
    \A l \in 1..dials : l # rcClient => tcp[l] = "closed"

(* Once ReconnectingClient.Close has run, no caller dials a new session   *)
(* or installs a client, even one that found no client before Close took  *)
(* the lock (reconnect.go:130-132, 148).                                   *)
ClosedStaysClosed ==
    [][rcClosed' => rcClient' = NoLink /\ dials' = dials]_vars

(* Every ReadTag call returns, with a value or with "max retries          *)
(* exceeded", whatever the network and the other callers do               *)
(* (executeWithRetry's loop bound, reconnect.go:176).                      *)
ReadTagReturns ==
    \A c \in Callers : pc[c] # "idle" ~> pc[c] = "idle"

(* A successful ReadTag returns the answer to its own request.  A         *)
(* Session is not safe for concurrent callers (spec section 5), yet       *)
(* ReconnectingClient hands one Session to every goroutine calling it.    *)
RepliesToOwnCall ==
    event.kind = "return" /\ event.ok => event.got = event.call

(* The target reads every request frame with the payload that its own     *)
(* header announced: TCPTransport.Send writes a header and a payload in   *)
(* two writes (tcp.go:50-58).                                              *)
FramesWhole ==
    event.kind = "serve" => event.whole

(* A CIP application error or an encapsulation status error leaves the    *)
(* session usable (spec section 7, docs/handling_disconnects.md: close    *)
(* and reconnect on a transport failure): a link is closed only by Close   *)
(* or after a transport error on it.                                       *)
SessionSurvivesAnswers ==
    [][\A l \in Links :
         tcp[l] = "open" /\ tcp'[l] = "closed" =>
            \/ rcClosed' /\ ~rcClosed
            \/ \E c \in Callers : /\ pc[c] = "inval" /\ held[c] = l
                                  /\ lastErr[c] = "transport"]_vars
=============================================================================
