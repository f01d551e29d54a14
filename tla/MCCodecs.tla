------------------------------ MODULE MCCodecs ------------------------------
(* Inputs at the boundaries the codecs branch on: the 8/16/32-bit forms   *)
(* of the logical segments, odd and even tag names, empty and non-empty   *)
(* extended status, Counters, and Timers with negative and positive PRE/ACC and     *)
(* flags that differ from each other.                                      *)
EXTENDS Codecs

MCClassIds == {6, 255, 256}   \* 6: the Connection Manager the scanner addresses
MCInstanceIds == {1, 65535}
MCInstance32Ids == {65535, 65536}
MCAttributeIds == {1, 256}
MCMemberIds == {300}
MCSymbolLens == {1, 2}
MCLongSymbolLens == {255, 256}
MCStatuses == {22}                 \* ObjectDoesNotExist
MCExtStatuses == {<<>>, <<263>>}
MCTimers ==
    [pre: {1000, -1}, acc: {-2147483647 - 1}, en: {TRUE}, tt: {FALSE},
     dn: {TRUE, FALSE}]
        \cup {[pre |-> 1000, acc |-> 500, en |-> TRUE, tt |-> TRUE,
               dn |-> TRUE]}

(* Counters whose five flags each differ from a neighbour's, with the    *)
(* int32 extremes in PRE and ACC.                                          *)
MCCounters ==
    {[pre |-> 5, acc |-> -2147483647 - 1, cu |-> TRUE, cd |-> FALSE,
      dn |-> TRUE, ov |-> FALSE, un |-> TRUE],
     [pre |-> -1, acc |-> 2147483647, cu |-> FALSE, cd |-> TRUE,
      dn |-> FALSE, ov |-> TRUE, un |-> FALSE]}

(* sockaddr_in as spec section 6 lays it out: family 2 (LE), port 44818  *)
(* (BE), 192.168.1.100 (BE), eight zero bytes.                            *)
MCSockAddr == <<2, 0, 175, 18, 192, 168, 1, 100>> \o Zeros(8)
MCIdentity(n) ==
    [encaps |-> 1, sockaddr |-> MCSockAddr, vendor |-> 1, device |-> 14,
     product |-> 65535, revision |-> <<20, 11>>, status |-> 48,
     serial |-> 16909060, name |-> [j \in 1..n |-> NameChar], state |-> 3]
(* Identity items with an empty and a non-empty product name, and items  *)
(* of another type (0x8000) with and without data.                        *)
MCIdentityOffers ==
    {[type |-> ItemListIdentity, id |-> MCIdentity(n), data |-> <<>>] : n \in {0, 3}}
        \cup {[type |-> 32768, id |-> MCIdentity(0), data |-> d] :
                 d \in {<<>>, <<7, 7, 7>>}}
(* Service names of 0, 5 and 16 characters (no NUL at all).               *)
MCServiceOffers ==
    {[version |-> 1, flags |-> 288, name |-> [j \in 1..n |-> NameChar]] :
       n \in {0, 5, 16}}
(* The scanner's default flags (out 150, in 100, 100 ms), and assembly    *)
(* ids above a byte with a 1 ms RPI.                                       *)
MCScannerFlags ==
    {[out |-> 150, in |-> 100, rpi |-> 100000],
     [out |-> 300, in |-> 256, rpi |-> 1000]}
=============================================================================
