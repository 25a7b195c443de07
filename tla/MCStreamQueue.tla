---------------------------- MODULE MCStreamQueue ----------------------------
(***************************************************************************)
(* Instances of StreamQueue for TLC: a disk stream with two operations in  *)
(* flight at a low interrupt level, and a network stream whose driver      *)
(* interrupts the completion routine of the other.                         *)
(***************************************************************************)
EXTENDS StreamQueue

CONSTANTS disk, net, d1, d2, n1

MCStreams == {disk, net}
MCPBs == {d1, d2, n1}
MCOwner == [p \in MCPBs |-> IF p = n1 THEN net ELSE disk]
MCLevel == [s \in MCStreams |-> IF s = net THEN 2 ELSE 1]
=============================================================================
