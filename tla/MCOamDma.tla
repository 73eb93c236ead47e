------------------------------ MODULE MCOamDma ------------------------------
(***************************************************************************)
(* Instance of OamDma for TLC: pages of two bytes; pages 0 and 1 are the   *)
(* same RAM, page 2 is I/O and page 3 is ROM.  The program writes to a     *)
(* mirror of RAM, to $4014 and to $2004.                                   *)
(***************************************************************************)
EXTENDS OamDma

MCPrgRom == [p \in {3} |-> [i \in 0 .. 1 |-> 3 - i]]
MCDmaReg == <<2, 0>>
MCOamData == <<2, 1>>
MCReadAddr == {<<3, 0>>}
MCWriteAddr == {<<1, 1>>, MCDmaReg, MCOamData}
=============================================================================
