----------------------------- MODULE MCPpuRegs -----------------------------
(***************************************************************************)
(* Instance of PpuRegs for TLC: eight addresses each of pattern ROM, of    *)
(* four nametable ranges of two, of their mirrors, of palette, and as many *)
(* that mean nothing.  The program sets the address to any of these        *)
(* ranges, writes to the data registers and changes the stride.            *)
(***************************************************************************)
EXTENDS PpuRegs

MCByte == 0 .. 4
MCStatus == {4}
MCChr == [a \in 0 .. 7 |-> a % 3]
MCWritten ==
  {<<6, b>> : b \in MCByte} \cup {<<7, 1>>, <<4, 1>>, <<0, 0>>, <<0, 4>>, <<5, 0>>}
=============================================================================
