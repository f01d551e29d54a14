------------------------------ MODULE IOFraming ------------------------------
(***************************************************************************)
(* The bytes of implicit I/O: the frame Scheduler.sendPacket builds        *)
(* (pkg/runtime/scheduler.go:85-182) and the parse of Runtime.listenLoop   *)
(* and handlePacket (pkg/runtime/runtime.go:125-268) down to the assembly  *)
(* write of AssemblyObject.SetAttributeSingle (pkg/cip/encode.go:154-175). *)
(*                                                                         *)
(* UDP may lose, duplicate and reorder datagrams: the network is a set of *)
(* datagrams that a delivery does not consume, so any of them may arrive  *)
(* any number of times, in any order, or never.  Other senders contribute *)
(* the datagrams of Foreign.  listenLoop reads every datagram into one     *)
(* buffer it allocated once and passes buf[:n]: a slice whose capacity     *)
(* runs to the end of the buffer, so a read past n is legal Go and sees    *)
(* the bytes an earlier, longer datagram left there.                       *)
(*                                                                         *)
(* The connection map, LastReceive and the locks are those of IORuntime;  *)
(* here the consumer map is fixed (Consumers) and a refresh is an event.  *)
(***************************************************************************)
EXTENDS Naturals, Sequences, SequencesExt

CONSTANTS
    Producers,  \* producing IOConnections: [id, runIdle, remote]
    Consumers,  \* the listener's map: connection id -> [runIdle, size]
    Vals,       \* contents of the producers' assemblies (byte sequences)
    Foreign,    \* datagrams other senders put on the network
    BufLen,     \* length of listenLoop's buffer (2048 in runtime.go:127)
    MaxSends,   \* sendPacket calls in one behaviour
    SeqStarts   \* SequenceCount values a producer may have reached

LE16(v) == <<v % 256, (v \div 256) % 256>>
LE32(v) == LE16(v % 65536) \o LE16(v \div 65536)
Uint16At(s, i) == s[i] + 256 * s[i + 1]
From(s, i) == IF i > Len(s) THEN <<>> ELSE SubSeq(s, i, Len(s))

ItemConnectedAddress == 161   \* 0x00A1
ItemConnectedData == 177      \* 0x00B1

ProducerFrameNoSeqLen(p, seq, data) ==
    LET hdr == IF p.runIdle THEN LE32(1) ELSE <<>>
    IN LE16(2) \o LE16(ItemConnectedAddress) \o LE16(4) \o LE32(p.id)
         \o LE16(ItemConnectedData) \o LE16((Len(hdr) + Len(data)) % 65536)
         \o LE16(seq) \o hdr \o data

(* sendPacket: item count 2, the Connected-Address item with the 4-byte   *)
(* connection id, the Connected-Data item whose length counts the        *)
(* sequence count, the Run/Idle header (always Run) and the data.          *)
ProducerFrame(p, seq, data) ==
    LET hdr == IF p.runIdle THEN LE32(1) ELSE <<>>
    IN LE16(2) \o LE16(ItemConnectedAddress) \o LE16(4) \o LE32(p.id)
         \o LE16(ItemConnectedData) \o LE16((2 + Len(hdr) + Len(data)) % 65536)
         \o LE16(seq) \o hdr \o data

(* ReadFromUDP(buf): the first n bytes are the datagram (cut at the       *)
(* buffer's length), the rest keep what was there.                        *)
ReadInto(b, d) ==
    LET n == IF Len(d) < BufLen THEN Len(d) ELSE BufLen
    IN [i \in 1..BufLen |-> IF i <= n THEN d[i] ELSE b[i]]

Dropped == [kind |-> "drop", id |-> <<>>, data |-> <<>>]

HandlePacketNoLenCheck(b, n) ==
    LET len2 == Uint16At(b, 13)
        id == SubSeq(b, 7, 10)
        payload == SubSeq(b, 15, 14 + len2)
        off == IF id \in DOMAIN Consumers /\ Consumers[id].runIdle THEN 4 ELSE 0
    IN IF n < 6 \/ Uint16At(b, 1) # 2 \/ Uint16At(b, 5) # 4 THEN Dropped
       ELSE IF id \notin DOMAIN Consumers THEN Dropped
       ELSE IF Len(payload) < off THEN [Dropped EXCEPT !.kind = "refresh", !.id = id]
       ELSE IF Len(payload) - off # Consumers[id].size
         THEN [kind |-> "rejected", id |-> id, data |-> <<>>]
       ELSE [kind |-> "apply", id |-> id, data |-> From(payload, off + 1)]

(* handlePacket on buf[:n]: at least 6 bytes, count 2, address length 4;   *)
(* the id and the data length are read at offsets 6 and 12 whatever n is; *)
(* the data item must end within n.  An unknown id is dropped; a known one *)
(* has LastReceive refreshed; a Run/Idle connection needs 4 header bytes   *)
(* and skips them (the Run bit is not read); SetAttributeSingle writes the *)
(* rest only if its length is the assembly's size.                         *)
HandlePacket(b, n) ==
    LET len2 == Uint16At(b, 13)
        id == SubSeq(b, 7, 10)
        payload == SubSeq(b, 15, 14 + len2)
        off == IF id \in DOMAIN Consumers /\ Consumers[id].runIdle THEN 4 ELSE 0
    IN IF n < 6 \/ Uint16At(b, 1) # 2 \/ Uint16At(b, 5) # 4 THEN Dropped
       ELSE IF n < 14 + len2 THEN Dropped
       ELSE IF id \notin DOMAIN Consumers THEN Dropped
       ELSE IF Len(payload) < off THEN [Dropped EXCEPT !.kind = "refresh", !.id = id]
       ELSE IF Len(payload) - off # Consumers[id].size
         THEN [kind |-> "rejected", id |-> id, data |-> <<>>]
       ELSE [kind |-> "apply", id |-> id, data |-> From(payload, off + 1)]

VARIABLES
    seq,      \* producer id -> IOConnection.SequenceCount
    sends,    \* sendPacket calls so far
    net,      \* datagrams on the network: [bytes, src, id, data]
    buf,      \* listenLoop's buffer
    asm,      \* consumer id -> the Data of its assembly instance
    event     \* history: what the last step did

vars == <<seq, sends, net, buf, asm, event>>

NoEvent == [kind |-> "none"]

Init ==
    /\ seq \in [Producers -> SeqStarts]
    /\ sends = 0
    /\ net = {[bytes |-> d, src |-> "foreign", id |-> <<>>, runIdle |-> FALSE,
                data |-> <<>>] :
                d \in Foreign}
    /\ buf = [i \in 1..BufLen |-> 0]
    /\ asm = [id \in DOMAIN Consumers |-> [j \in 1..Consumers[id].size |-> 0]]
    /\ event = NoEvent

(* processTick -> sendPacket for a due producer: SequenceCount++ (uint16) *)
(* then the frame, written only when RemoteAddr is set.                    *)
SendPacket(p, v) ==
    /\ sends < MaxSends
    /\ LET s == (seq[p] + 1) % 65536
           d == [bytes |-> ProducerFrame(p, s, v), src |-> "producer",
                 id |-> LE32(p.id), runIdle |-> p.runIdle, data |-> v]
       IN /\ seq' = [seq EXCEPT ![p] = s]
          /\ net' = IF p.remote THEN net \cup {d} ELSE net
          /\ event' = [kind |-> "send", id |-> p.id, seq |-> s,
                       bytes |-> d.bytes, data |-> v]
    /\ sends' = sends + 1
    /\ UNCHANGED <<buf, asm>>

(* listenLoop reads a datagram and handlePacket processes it.  A copy     *)
(* stays on the network, so a datagram may arrive again and in any order; *)
(* a lost datagram is one that is never delivered.                         *)
Deliver(m) ==
    /\ m \in net
    /\ LET b == ReadInto(buf, m.bytes)
           n == IF Len(m.bytes) < BufLen THEN Len(m.bytes) ELSE BufLen
           r == HandlePacket(b, n)
       IN /\ buf' = b
          /\ asm' = IF r.kind = "apply" THEN [asm EXCEPT ![r.id] = r.data] ELSE asm
          /\ event' = [kind |-> "deliver", msg |-> m, n |-> n, result |-> r]
    /\ UNCHANGED <<seq, sends, net>>

Next ==
    \/ \E p \in Producers, v \in Vals : SendPacket(p, v)
    \/ \E m \in net : Deliver(m)

Spec == Init /\ [][Next]_vars

-----------------------------------------------------------------------------
(* Properties *)

TypeOK ==
    /\ seq \in [Producers -> 0..65535]
    /\ sends \in 0..MaxSends
    /\ buf \in [1..BufLen -> 0..255]
    /\ event.kind \in {"none", "send", "deliver"}

(* Cut(d, n): the bytes listenLoop really received.                        *)
Cut(d, n) == SubSeq(d, 1, n)

(* Ingress (spec section 4.7): what handlePacket writes to an assembly    *)
(* lies within the datagram it is handling, never in bytes a previous,    *)
(* longer datagram left in the shared buffer.  It is about listenLoop's   *)
(* buf[:n], the reads at offsets 6..13 that a short datagram takes from   *)
(* beyond n, and the len(data) < offset+len2 check that must reject it.   *)
AppliedFromDatagram ==
    event.kind = "deliver" /\ event.result.kind = "apply" =>
        event.result.data \in SubSeqs(Cut(event.msg.bytes, event.n))

(* Frame layout (spec section 9, scenario 4): count 2, A1 00, 04 00, the  *)
(* id, B1 00, a length that counts everything after it, the sequence      *)
(* count, 01 00 00 00 when Run/Idle, then the assembly data.  It is about *)
(* sendPacket's dataLen arithmetic and its writes at the running offset.  *)
ProducerFrameLayout ==
    event.kind = "send" =>
        LET f == event.bytes
        IN /\ SubSeq(f, 1, 6) = <<2, 0, 161, 0, 4, 0>>
           /\ SubSeq(f, 11, 12) = <<177, 0>>
           /\ Uint16At(f, 13) = Len(f) - 14
           /\ Uint16At(f, 15) = event.seq
           /\ IsSuffix(event.data, f)

(* Round trip (spec section 4.7 and the data flow of section 2): a frame  *)
(* a goeip producer sends to a goeip consumer configured alike (same id,  *)
(* same Run/Idle setting, same assembly size) is applied to the           *)
(* consumer's assembly with the producer's data.  It is about sendPacket  *)
(* putting the sequence count in front of the Run/Idle header and data,   *)
(* and handlePacket taking the data item without skipping it.              *)
ProducedFramesApplied ==
    event.kind = "deliver" /\ event.msg.src = "producer" =>
        LET id == event.msg.id
        IN id \in DOMAIN Consumers
             /\ Consumers[id].runIdle = event.msg.runIdle
             /\ Len(event.msg.data) = Consumers[id].size
             => event.result = [kind |-> "apply", id |-> id, data |-> event.msg.data]

=============================================================================
