---------------------------- MODULE MCPcapReader ----------------------------
(* Instances of PcapReader for TLC: packets from 7 to 9 bytes are accepted,  *)
(* and the payload begins at byte 2.                                         *)
EXTENDS PcapReader

SomeLengths == {6, 7, 9, 10}

Packet(ts, length, data) == [ts |-> ts, incl |-> length, orig |-> length, data |-> data]
Packets == {Packet(ts, l, data) : ts \in {0, 1}, l \in SomeLengths, data \in {"a", "b"}}
OldPackets == {Packet(0, l, "a") : l \in SomeLengths}

\* Captured with a limit of 7 bytes
Truncated == [ts |-> 0, incl |-> 7, orig |-> 9, data |-> "a"]

Complete(records) == [records |-> records, cut |-> 0]
Cut(records, n) == [records |-> records, cut |-> n]

Lists ==
    {<<Complete(r)>> : r \in BoundedSeq(Packets, 2)}
    \cup {<<Complete(r)>> : r \in [1 .. 3 -> OldPackets]}
    \cup {<<Cut(r, n)>> : r \in [1 .. 2 -> OldPackets], n \in {1, 7, 8, 9, 20, 40}}
    \cup {<<Complete(r), None, Complete(<<p>>)>> : r \in [1 .. 2 -> OldPackets], p \in OldPackets}
    \cup {<<Complete(<<Truncated, p>>)>> : p \in OldPackets}
=============================================================================
