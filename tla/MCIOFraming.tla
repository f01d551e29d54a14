----------------------------- MODULE MCIOFraming -----------------------------
(* Two consumers in the listener's map, one with a Run/Idle header and    *)
(* one without, each with a 2-byte assembly; producers with the same ids   *)
(* and settings, and one whose RemoteAddr is nil.  Foreign datagrams: a    *)
(* well-formed frame for each consumer, a frame too short for the Run/Idle *)
(* header, frames cut at 10 and 6 bytes, and an unknown id.                *)
EXTENDS IOFraming, TLC

MCProducers ==
    {[id |-> 1, runIdle |-> TRUE, remote |-> TRUE],
     [id |-> 2, runIdle |-> FALSE, remote |-> TRUE],
     [id |-> 3, runIdle |-> FALSE, remote |-> FALSE]}
MCConsumers ==
    (LE32(1) :> [runIdle |-> TRUE, size |-> 2])
        @@ (LE32(2) :> [runIdle |-> FALSE, size |-> 2])
(* SequenceCount is 0 after AddConnection (cmd/scanner/main.go:200) and  *)
(* 65535 after 65535 frames: the next frame wraps it.                     *)
MCSeqStarts == {0, 65535}
MCVals == {<<5, 6>>}
MCForeign ==
    {<<2, 0, 161, 0, 4, 0, 2, 0, 0, 0, 177, 0, 2, 0, 9, 9>>,
     <<2, 0, 161, 0, 4, 0, 1, 0, 0, 0, 177, 0, 6, 0, 1, 0, 0, 0, 8, 8>>,
     <<2, 0, 161, 0, 4, 0, 1, 0, 0, 0, 177, 0, 2, 0, 1, 0>>,
     <<2, 0, 161, 0, 4, 0, 2, 0, 0, 0>>,
     <<2, 0, 161, 0, 4, 0>>,
     <<2, 0, 161, 0, 4, 0, 3, 0, 0, 0, 177, 0, 0, 0>>}
=============================================================================
