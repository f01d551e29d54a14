----------------------------- MODULE MCIORuntime -----------------------------
(* Model of IORuntime for TLC: one connection id, one assembly, one      *)
(* payload value besides the initial content, and three kinds of          *)
(* IOConnection: a producer with a Run/Idle-less output, a Run/Idle       *)
(* consumer, and a producer without an assembly.                 *)
EXTENDS IORuntime

CONSTANTS c1, a1, v1

MCConnIds == {c1}
MCAsms == {a1}
MCVals == {v1}

(* The scheduler ticks every time unit and the watchdog every two; the    *)
(* producer's RPI of two units lets it be not yet due at a scheduler tick, *)
(* the consumers' RPI of one unit gives a timeout (mult 0) of four.       *)
Producer == [rpi |-> 2, mult |-> 0, prod |-> TRUE, cons |-> FALSE,
             runIdle |-> FALSE, remote |-> TRUE, asm |-> a1]
Consumer == [rpi |-> 1, mult |-> 0, prod |-> FALSE, cons |-> TRUE,
             runIdle |-> TRUE, remote |-> FALSE, asm |-> a1]
Unbound  == [rpi |-> 1, mult |-> 0, prod |-> TRUE, cons |-> FALSE,
             runIdle |-> FALSE, remote |-> FALSE, asm |-> NoAsm]
MCConfigs == {Producer, Consumer, Unbound}

=============================================================================
