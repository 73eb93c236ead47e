------------------------------ MODULE VramPort ------------------------------
(***************************************************************************)
(* What the registers of the PPU promise a program: a memory behind an     *)
(* address.  Every access of $2007 uses the address and moves it on at     *)
(* once; two writes of $2006 set it, the high byte first, and writes of    *)
(* $2005 and reads of $2002 count with them.  OAM has a port of the same   *)
(* kind, $2004, whose address goes back to 0 while the PPU draws.          *)
(***************************************************************************)
EXTENDS Naturals

CONSTANTS
  NumAddr, LowSize, \* values of the address, and of its low byte
  OamSize,
  Byte,
  Cell, Writable,   \* the cells of memory, and those that can be written
  CellAt,           \* the cell an address means; NoCell if there is none
  NoCell,
  BigStride         \* the address moves on by 1 or by this

VARIABLES
  addr, second,  \* the address; the next byte of it is the second
  stride,
  mem, oam, oamAddr,
  read           \* what the last read of a register fetched

vars == <<addr, second, stride, mem, oam, oamAddr, read>>

Init ==
  /\ addr = 0 /\ second = FALSE /\ stride = 1
  /\ mem \in [Cell -> Byte] /\ oam \in [0 .. OamSize - 1 -> Byte]
  /\ oamAddr = 0 /\ read \in Byte

Reset ==
  /\ addr' = 0 /\ second' = FALSE /\ stride' = 1 /\ oamAddr' = 0
  /\ read' \in Byte
  /\ UNCHANGED <<mem, oam>>

\* Whatever the program does, the PPU may go back to the start of OAM.
OamStays == oamAddr' \in {oamAddr, 0}

SetStride ==
  /\ stride' \in {1, BigStride}
  /\ OamStays /\ UNCHANGED <<addr, second, mem, oam, read>>

SetAddr ==
  /\ \E b \in Byte :
       addr' = IF second THEN (addr - (addr % LowSize)) + b ELSE b * LowSize + (addr % LowSize)
  /\ second' = ~second
  /\ OamStays /\ UNCHANGED <<stride, mem, oam, read>>

SetScroll ==
  /\ second' = ~second
  /\ OamStays /\ UNCHANGED <<addr, stride, mem, oam, read>>

ReadStatus ==
  /\ second' = FALSE /\ read' \in Byte
  /\ OamStays /\ UNCHANGED <<addr, stride, mem, oam>>

Load ==
  /\ IF CellAt[addr] = NoCell THEN read' \in Byte ELSE read' = mem[CellAt[addr]]
  /\ addr' = (addr + stride) % NumAddr
  /\ OamStays /\ UNCHANGED <<second, stride, mem, oam>>

Store ==
  /\ \E d \in Byte : mem' = IF CellAt[addr] \in Writable
                            THEN [mem EXCEPT ![CellAt[addr]] = d] ELSE mem
  /\ addr' = (addr + stride) % NumAddr
  /\ read' \in Byte
  /\ OamStays /\ UNCHANGED <<second, stride, oam>>

OamLoad ==
  /\ read' = oam[oamAddr]
  /\ OamStays /\ UNCHANGED <<addr, second, stride, mem, oam>>

OamStore ==
  /\ \E d \in Byte : oam' = [oam EXCEPT ![oamAddr] = d]
  /\ oamAddr' \in {(oamAddr + 1) % OamSize, 1 % OamSize}
  /\ UNCHANGED <<addr, second, stride, mem, read>>

Idle == OamStays /\ UNCHANGED <<addr, second, stride, mem, oam, read>>

Next == \/ Reset \/ SetStride \/ SetAddr \/ SetScroll \/ ReadStatus
        \/ Load \/ Store \/ OamLoad \/ OamStore \/ Idle

Spec == Init /\ [][Next]_vars
=============================================================================
