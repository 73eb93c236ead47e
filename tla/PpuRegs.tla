------------------------------ MODULE PpuRegs ------------------------------
(***************************************************************************)
(* The registers of the PPU at $2000 .. $2007, as the CPU sees them        *)
(* (ppu.sv).  One step of Cycle is one clock of cpu_clk: the access of     *)
(* that clock, if it is one to these registers, and the increments that an *)
(* access of the clock before has left behind.                             *)
(*                                                                         *)
(* Behind $2007 lie the pattern ROM, two nametables that are wired to four *)
(* ranges of the address, and the palette.                                 *)
(***************************************************************************)
EXTENDS Naturals

CONSTANTS
  NumAddr,   \* values of vram_addr (2^16)
  LowSize,   \* values of its low byte (256)
  PatEnd,    \* the nametables start here ($2000)
  TableSize, \* bytes of a nametable (1024)
  PalBase,   \* the palette starts here ($3F00)
  PalSize,   \* its bytes (32)
  MapEnd,    \* and ends here ($4000)
  OamSize,   \* bytes of OAM (256)
  BigStride, \* the increment if control[2] is set (32)
  MirrorCfg, \* mirror_cfg: nametables side by side (nes.sv sets it)
  Byte,      \* values of a byte
  Chr,       \* the contents of pattern ROM
  Status,    \* values $2002 may show; VblankNmi has its bits
  Written,   \* what the program writes: pairs <<register, byte>>
  MaxStores  \* bound: bytes it writes to $2004 and $2007

ASSUME MapAssumption ==
  /\ {NumAddr, LowSize, PatEnd, TableSize, PalBase, PalSize, MapEnd, OamSize, BigStride}
       \subseteq Nat \ {0}
  /\ PatEnd % (4 * TableSize) = 0 /\ PalBase % PalSize = 0
  /\ PatEnd <= PalBase /\ PalBase < MapEnd /\ MapEnd <= NumAddr
  /\ NumAddr % LowSize = 0 /\ PalSize % 4 = 0
  /\ MirrorCfg \in BOOLEAN
  /\ Byte \subseteq Nat /\ 0 \in Byte
  /\ Chr \in [0 .. PatEnd - 1 -> Byte]
  /\ Status \subseteq Byte
  /\ Written \subseteq (0 .. 7) \X Byte
  /\ \A w \in Written : w[1] = 6 => w[2] < LowSize /\ w[2] < NumAddr \div LowSize
  /\ MaxStores \in Nat

VARIABLES
  vram_addr, incr,   \* the address, and its increment that is due
  addr_latch,        \* the next write of $2005 or $2006 is a second one
  oam_addr, oam_incr,
  stride2,           \* control[2]
  scroll,            \* x and y
  nmta, nmtb, palette, oam,
  bus_out,           \* what the CPU reads in the next clock
  prev,              \* the register the last clock accessed, or none (8)
  stores             \* how many bytes may still be written

regVars == <<vram_addr, incr, addr_latch, oam_addr, oam_incr, stride2, scroll, bus_out>>
memVars == <<nmta, nmtb, palette, oam>>
vars    == <<regVars, memVars, prev, stores>>

Address   == 0 .. NumAddr - 1
TableAddr == 0 .. TableSize - 1
PalAddr   == 0 .. PalSize - 1
OamAddr   == 0 .. OamSize - 1
Register  == 0 .. 7
None      == 8

TypeOK ==
  /\ vram_addr \in Address /\ oam_addr \in OamAddr
  /\ {incr, addr_latch, oam_incr, stride2} \subseteq BOOLEAN
  /\ scroll \in Byte \X Byte /\ bus_out \in Byte
  /\ nmta \in [TableAddr -> Byte] /\ nmtb \in [TableAddr -> Byte]
  /\ palette \in [PalAddr -> Byte] /\ oam \in [OamAddr -> Byte]
  /\ prev \in Register \cup {None} /\ stores \in 0 .. MaxStores

-----------------------------------------------------------------------------
(* The address map behind $2007. *)

inPattern == vram_addr < PatEnd
inTable   == PatEnd <= vram_addr /\ vram_addr < PalBase
inPalette == PalBase <= vram_addr /\ vram_addr < MapEnd

\* Mutant: the nametables lie the other way round.
tableAFlipped ==
  LET range == (vram_addr \div TableSize) % 4
  IN  range = 0 \/ (range = 1 /\ MirrorCfg) \/ (range = 2 /\ ~MirrorCfg)

\* vram_addr[11:10] and mirror_cfg choose the nametable.
tableA ==
  LET range == (vram_addr \div TableSize) % 4
  IN  range = 0 \/ (range = 1 /\ ~MirrorCfg) \/ (range = 2 /\ MirrorCfg)

nmtAddr == vram_addr % TableSize

\* $3F10, $3F14, $3F18 and $3F1C are $3F00, $3F04, $3F08 and $3F0C.
palette_addr ==
  LET i == vram_addr % PalSize
  IN  IF PalSize \div 2 <= i /\ i % 4 = 0 THEN i - PalSize \div 2 ELSE i

-----------------------------------------------------------------------------
(* The clocked registers: each is a function of the access <<r, wr, d>>. *)

stride == IF stride2 THEN BigStride ELSE 1

\* Mutant: the address does not wrap around.
AddrPastEnd(r, wr, d) ==
  vram_addr' = IF r = 6 /\ wr
               THEN IF addr_latch THEN (vram_addr - (vram_addr % LowSize)) + d
                                  ELSE d * LowSize + (vram_addr % LowSize)
               ELSE IF incr THEN vram_addr + stride ELSE vram_addr

\* The increment that is due, and over it the byte that $2006 writes.
StepAddr(r, wr, d) ==
  LET base == IF incr THEN (vram_addr + stride) % NumAddr ELSE vram_addr
  IN  vram_addr' = IF r = 6 /\ wr
                   THEN IF addr_latch THEN (base - (base % LowSize)) + d
                                      ELSE d * LowSize + (base % LowSize)
                   ELSE base

StepLatch(r, wr) ==
  addr_latch' = IF r \in {5, 6} /\ wr THEN ~addr_latch ELSE addr_latch /\ ~(r = 2 /\ ~wr)

StepScroll(r, wr, d) ==
  scroll' = IF r = 5 /\ wr THEN IF addr_latch THEN <<scroll[1], d>> ELSE <<d, scroll[2]>>
            ELSE scroll

\* While lines are drawn, part of the time, the address of OAM is held at 0
\* (here: at any time).
StepOamAddr(r, wr) ==
  /\ oam_incr' = (r = 4 /\ wr)
  /\ \E clear \in BOOLEAN :
       oam_addr' = IF clear THEN 0 ELSE IF oam_incr THEN (oam_addr + 1) % OamSize ELSE oam_addr

StepControl(r, wr, d) == stride2' = IF r = 0 /\ wr THEN (d \div 4) % 2 = 1 ELSE stride2

\* Only reads of $2007 in pattern ROM and palette load bus_out; in a nametable
\* a write does too, with the byte the memory then holds.
DataOut(wr, d) ==
  IF inPattern THEN IF wr THEN bus_out ELSE Chr[vram_addr]
  ELSE IF inTable THEN IF wr THEN d ELSE IF tableA THEN nmta[nmtAddr] ELSE nmtb[nmtAddr]
  ELSE IF inPalette THEN IF wr THEN bus_out ELSE palette[palette_addr]
  ELSE 0

StepBusOut(r, wr, d) ==
  bus_out' \in IF r = 2 /\ ~wr THEN Status
               ELSE IF r = 4 /\ ~wr THEN {oam[oam_addr]}
               ELSE IF r = 7 THEN {DataOut(wr, d)} ELSE {bus_out}

-----------------------------------------------------------------------------
(* The write ports of the memories. *)

nmta_en(r, wr) == r = 7 /\ wr /\ inTable /\ tableA
nmtb_en(r, wr) == r = 7 /\ wr /\ inTable /\ ~tableA
pal_en(r, wr)  == r = 7 /\ wr /\ inPalette
oam_en(r, wr)  == r = 4 /\ wr

WriteMem(r, wr, d) ==
  /\ nmta' = IF nmta_en(r, wr) THEN [nmta EXCEPT ![nmtAddr] = d] ELSE nmta
  /\ nmtb' = IF nmtb_en(r, wr) THEN [nmtb EXCEPT ![nmtAddr] = d] ELSE nmtb
  /\ palette' = IF pal_en(r, wr) THEN [palette EXCEPT ![palette_addr] = d] ELSE palette
  /\ oam' = IF oam_en(r, wr) THEN [oam EXCEPT ![oam_addr] = d] ELSE oam

-----------------------------------------------------------------------------

Clocked(r, wr, d) ==
  /\ StepAddr(r, wr, d) /\ incr' = (r = 7)
  /\ StepLatch(r, wr) /\ StepScroll(r, wr, d)
  /\ StepOamAddr(r, wr) /\ StepControl(r, wr, d)
  /\ StepBusOut(r, wr, d)
  /\ WriteMem(r, wr, d)

\* The program: after an access the CPU fetches its next instruction, unless
\* the same instruction accesses the register again; no program does that to
\* the two data registers.
mayAccess(r) == prev = None \/ (prev = r /\ r \notin {4, 7})

ReadRegister == \E r \in Register :
  /\ mayAccess(r)
  /\ Clocked(r, FALSE, 0)
  /\ prev' = r /\ UNCHANGED stores

WriteRegister == \E w \in Written :
  /\ mayAccess(w[1])
  /\ w[1] \in {4, 7} => stores > 0
  /\ Clocked(w[1], TRUE, w[2])
  /\ prev' = w[1]
  /\ stores' = IF w[1] \in {4, 7} THEN stores - 1 ELSE stores

NoAccess ==
  /\ Clocked(None, FALSE, 0)
  /\ prev' = None /\ UNCHANGED stores

\* The palette and the memories keep what they hold.
Reset ==
  /\ vram_addr' = 0 /\ incr' = FALSE /\ addr_latch' = FALSE
  /\ oam_addr' = 0 /\ oam_incr' = FALSE /\ stride2' = FALSE
  /\ scroll' = <<0, 0>> /\ bus_out' = 0
  /\ prev' = None
  /\ UNCHANGED <<memVars, stores>>

Init ==
  /\ vram_addr = 0 /\ incr = FALSE /\ addr_latch = FALSE
  /\ oam_addr = 0 /\ oam_incr = FALSE /\ stride2 = FALSE
  /\ scroll = <<0, 0>> /\ bus_out = 0
  /\ nmta = [i \in TableAddr |-> 0] /\ nmtb = [i \in TableAddr |-> 0]
  /\ palette = [i \in PalAddr |-> 0] /\ oam = [i \in OamAddr |-> 0]
  /\ prev = None /\ stores = MaxStores

Next == ReadRegister \/ WriteRegister \/ NoAccess \/ Reset

Spec == Init /\ [][Next]_vars
-----------------------------------------------------------------------------
(* What it promises, from the map of the original machine: the cell that   *)
(* an address means.                                                       *)

TableNo(n) == IF MirrorCfg THEN n % 2 ELSE n \div 2

Cell == {<<"chr", a>> : a \in 0 .. PatEnd - 1}
        \cup {<<"nmt", t * TableSize + i>> : t \in 0 .. 1, i \in TableAddr}
        \cup {<<"pal", i>> : i \in {j \in PalAddr : ~(PalSize \div 2 <= j /\ j % 4 = 0)}}

CellAt == [a \in Address |->
  IF a < PatEnd THEN <<"chr", a>>
  ELSE IF a < PalBase
  THEN <<"nmt", TableNo(((a - PatEnd) \div TableSize) % 4) * TableSize + (a % TableSize)>>
  ELSE IF a < MapEnd
  THEN <<"pal", IF (a - PalBase) % 4 = 0 THEN (a - PalBase) % (PalSize \div 2)
                ELSE (a - PalBase) % PalSize>>
  ELSE <<"none", 0>>]

Contents == [c \in Cell |->
  IF c[1] = "chr" THEN Chr[c[2]]
  ELSE IF c[1] = "pal" THEN palette[c[2]]
  ELSE IF c[2] < TableSize THEN nmta[c[2]] ELSE nmtb[c[2] - TableSize]]

Port == INSTANCE VramPort WITH
  Writable  <- {c \in Cell : c[1] # "chr"},
  NoCell    <- <<"none", 0>>,
  addr      <- IF incr THEN (vram_addr + stride) % NumAddr ELSE vram_addr,
  second    <- addr_latch,
  mem       <- Contents,
  oamAddr   <- IF oam_incr THEN (oam_addr + 1) % OamSize ELSE oam_addr,
  read      <- bus_out

\* The registers are the port VramPort describes: every access goes to the
\* cell its address means on the original machine, in every mirror of it, a
\* read fetches what was last stored there, and increments, half-written
\* addresses, reads of $2002 and reset come between as promised, although
\* the increments are done a clock late (ppu.sv:94-100,149-186,203-210).
ImplementsVramPort == Port!Spec
=============================================================================
