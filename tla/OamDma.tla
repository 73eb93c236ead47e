------------------------------- MODULE OamDma -------------------------------
(***************************************************************************)
(* Sprite DMA: the CPU writes a page number to $4014 and the dma module of *)
(* dma.sv stops the CPU, takes over the data bus and copies that page into *)
(* object attribute memory (OAM), one byte every two CPU clocks.           *)
(*                                                                         *)
(* One step of Tick is one positive edge of cpu_clk: the dma state machine *)
(* (dma.sv), the bus multiplexer (databus.sv), the system RAM and OAM      *)
(* write ports, the OAM address register of ppu.sv, and the bus cycle the  *)
(* T65 core starts next when nes.sv lets it run (Enable = ~DMA).  Press    *)
(* and Release are the reset button KEY[0], which is not synchronised.     *)
(*                                                                         *)
(* A bus address is a pair <<page, offset>>; a byte is also a page number, *)
(* as dma.sv latches the byte on the bus as the high half of the address.  *)
(***************************************************************************)
EXTENDS Naturals

CONSTANTS
  PageSize,     \* bytes in a page and in OAM (256)
  NumPages,     \* pages of the address space, and values of a byte (256)
  RamLimit,     \* pages below it are system RAM and its mirrors ($20)
  RamPages,     \* pages of physical system RAM (8: INT_ADDR[10:0])
  RomBase,      \* pages from it up are program ROM ($80)
  PrgRom,       \* the contents of program ROM
  DmaReg,       \* $4014
  OamData,      \* $2004
  ReadAddr,     \* addresses the running program reads
  WriteAddr     \* addresses the running program writes

Offset == 0 .. PageSize - 1
Byte   == 0 .. NumPages - 1
Addr   == Byte \X Offset

RamPage == {p \in Byte : p < RamLimit}
RomPage == {p \in Byte : RomBase <= p}
MemPage == RamPage \cup RomPage
RamPhys == 0 .. RamPages - 1

ASSUME SizesAssumption ==
  /\ PageSize \in Nat \ {0}
  /\ NumPages \in Nat \ {0}
  /\ RamPages \in Nat \ {0}
  /\ RamLimit \in Nat
  /\ RomBase \in Nat
  /\ RamLimit <= RomBase

ASSUME MapAssumption ==
  /\ PrgRom \in [RomPage -> [Offset -> Byte]]
  /\ DmaReg \in Addr /\ DmaReg[1] \notin MemPage
  /\ OamData \in Addr /\ OamData[1] \notin MemPage
  /\ DmaReg # OamData
  /\ ReadAddr \subseteq Addr /\ ReadAddr # {}
  /\ WriteAddr \subseteq Addr

VARIABLES
  dstate,   \* state of the dma module
  ctr,      \* its byte counter
  prefix,   \* its source page
  bus,      \* the CPU's bus cycle: write?, address, data out
  phase,    \* what the CPU's instruction is doing in that cycle
  reset,    \* KEY[0] held down
  ram,      \* system RAM
  oam,      \* OAM
  oamAddr,  \* OAMADDR of ppu.sv
  oamIncr   \* its pipelined increment

vars    == <<dstate, ctr, prefix, bus, phase, reset, ram, oam, oamAddr, oamIncr>>
dmaVars == <<dstate, ctr, prefix>>
cpuVars == <<bus, phase>>
memVars == <<ram, oam>>

Cycle == [wr : BOOLEAN, addr : Addr, data : Byte]

(***************************************************************************)
(* "any": a read, or a stack write; "modify": the first write of a         *)
(* read-modify-write instruction; "store": the last write of an            *)
(* instruction, or reset (two reads are due after each); "fetch": the      *)
(* first of the two.                                                       *)
(***************************************************************************)
Phase == {"any", "modify", "store", "fetch"}

TypeOK ==
  /\ dstate \in {"IDL", "DLY", "RD", "WR"}
  /\ ctr \in Offset
  /\ prefix \in Byte
  /\ bus \in Cycle
  /\ phase \in Phase
  /\ reset \in BOOLEAN
  /\ ram \in [RamPhys -> [Offset -> Byte]]
  /\ oam \in [Offset -> Byte]
  /\ oamAddr \in Offset
  /\ oamIncr \in BOOLEAN

-----------------------------------------------------------------------------
(* The bus. *)

\* The dma module drives the address bus and the CPU is stopped.
hijack == dstate \in {"RD", "WR"}

INT_ADDR == IF hijack THEN <<prefix, ctr>> ELSE bus.addr

\* The contents of a page of memory, as the bus shows it.
Image(p) == IF p \in RamPage THEN ram[p % RamPages] ELSE PrgRom[p]

\* The values the data bus may carry in this cycle: memory is what it holds,
\* an I/O address reads as anything.
BUS_OUT ==
  CASE INT_ADDR[1] \in RamPage ->
         {IF bus.wr THEN bus.data ELSE Image(INT_ADDR[1])[INT_ADDR[2]]}
    [] INT_ADDR[1] \in RomPage -> {Image(INT_ADDR[1])[INT_ADDR[2]]}
    [] OTHER -> IF bus.wr THEN {bus.data} ELSE Byte

SYSRAM_EN == bus.wr /\ INT_ADDR[1] \in RamPage

\* The RAM and OAM write ports at the end of a cycle that carries byte d.
WriteRam(d) ==
  ram' = IF SYSRAM_EN
         THEN [ram EXCEPT ![INT_ADDR[1] % RamPages][INT_ADDR[2]] = d]
         ELSE ram

oam_en     == bus.wr /\ bus.addr = OamData
dma_oam_en == dstate = "WR"

\* Mutant: the OAM address is not switched to the dma counter.
PortNotSwitched == oamAddr

oam_wren   == IF hijack THEN dma_oam_en ELSE oam_en
oam_port   == IF hijack THEN ctr ELSE oamAddr

WriteOam(d) ==
  oam' = IF oam_wren THEN [oam EXCEPT ![oam_port] = d] ELSE oam

\* OAMADDR: cleared by reset and in part of the lines that draw a picture
\* (here: at any time), incremented one cycle after a write to $2004.
StepOamAddr ==
  /\ oamIncr' = (~reset /\ oam_en)
  /\ \E clear \in BOOLEAN :
       oamAddr' = CASE reset \/ clear -> 0
                    [] ~reset /\ ~clear /\ oamIncr -> (oamAddr + 1) % PageSize
                    [] OTHER -> oamAddr

-----------------------------------------------------------------------------
(* The T65 core, as far as its bus cycles go. *)

ReadCycle == [wr : {FALSE}, addr : ReadAddr, data : {0}]

\* After the last write of an instruction the next two cycles are the opcode
\* fetch and the operand fetch of the next one: both read.  A read-modify-
\* write instruction writes the byte it read before it writes the new one.
\* Held in reset it reads, and leaves reset with reads.
NextCycle ==
  \/ /\ reset
     /\ bus' \in ReadCycle
     /\ phase' = "store"
  \/ /\ ~reset /\ phase \in {"any", "fetch"}
     /\ bus' \in ReadCycle
     /\ phase' = "any"
  \/ /\ ~reset /\ phase = "store"
     /\ bus' \in ReadCycle
     /\ phase' = "fetch"
  \/ /\ ~reset /\ phase = "modify"
     /\ \E d \in Byte : bus' = [wr |-> TRUE, addr |-> bus.addr, data |-> d]
     /\ phase' = "store"
  \/ /\ ~reset /\ phase = "any"
     /\ \E a \in WriteAddr, d \in Byte :
          bus' = [wr |-> TRUE, addr |-> a, data |-> d]
     /\ phase' \in {"modify", "store"}
  \/ /\ ~reset /\ phase = "any"
     /\ \E a \in WriteAddr, d \in Byte :
          /\ a[1] \in RamPage
          /\ bus' = [wr |-> TRUE, addr |-> a, data |-> d]
     /\ phase' = "any"

\* Mutant: the CPU's enable tied high.
CpuNeverStops == NextCycle

\* nes.sv: Enable = ~DMA.
StepCpu == IF hijack THEN UNCHANGED cpuVars ELSE NextCycle

-----------------------------------------------------------------------------
(* The dma state machine: one action for each of its transitions. *)

Trigger == bus.addr = DmaReg /\ bus.wr

Stay    == /\ dstate = "IDL" /\ ~Trigger
           /\ UNCHANGED dmaVars

\* Mutant: no DLY state.
StartAtOnce(d) == /\ dstate = "IDL" /\ Trigger
                  /\ dstate' = "RD" /\ prefix' = d /\ ctr' = 0

Start(d) == /\ dstate = "IDL" /\ Trigger
            /\ dstate' = "DLY" /\ prefix' = d
            /\ UNCHANGED ctr

\* Mutant: the counter is not reset.
BeginKeepsCounter == /\ dstate = "DLY" /\ dstate' = "RD"
                     /\ UNCHANGED <<ctr, prefix>>

Begin   == /\ dstate = "DLY"
           /\ dstate' = "RD" /\ ctr' = 0
           /\ UNCHANGED prefix

Read    == /\ dstate = "RD"
           /\ dstate' = "WR"
           /\ UNCHANGED <<ctr, prefix>>

\* Mutant: no comparison with the last offset.
AdvancePastEnd == /\ dstate = "WR" /\ dstate' = "RD"
                  /\ ctr' = ctr + 1
                  /\ UNCHANGED prefix

Advance == /\ dstate = "WR" /\ ctr # PageSize - 1
           /\ dstate' = "RD" /\ ctr' = ctr + 1
           /\ UNCHANGED prefix

\* Mutant: the counter wraps before it is compared.
FinishNever == /\ dstate = "WR" /\ ctr = PageSize - 1
               /\ dstate' = "RD" /\ ctr' = 0
               /\ UNCHANGED prefix

Finish  == /\ dstate = "WR" /\ ctr = PageSize - 1
           /\ dstate' = "IDL"
           /\ UNCHANGED <<ctr, prefix>>

StepDma(d) == Stay \/ Start(d) \/ Begin \/ Read \/ Advance \/ Finish

Tick == \E d \in BUS_OUT :
  /\ StepDma(d)
  /\ WriteRam(d) /\ WriteOam(d)
  /\ StepOamAddr
  /\ StepCpu
  /\ UNCHANGED reset

\* Reset stops the CPU's cycle at once; a write of that cycle may or may not
\* have reached memory.  The dma module has no reset.
Press ==
  /\ ~reset /\ reset' = TRUE
  /\ bus' \in ReadCycle /\ phase' = "store"
  /\ \/ UNCHANGED memVars
     \/ /\ ~hijack
        /\ WriteRam(bus.data) /\ WriteOam(bus.data)
  /\ UNCHANGED <<dmaVars, oamAddr, oamIncr>>

Release ==
  /\ reset /\ reset' = FALSE
  /\ UNCHANGED <<dmaVars, cpuVars, memVars, oamAddr, oamIncr>>

Init ==
  /\ dstate = "IDL" /\ ctr = 0 /\ prefix = 0
  /\ bus \in ReadCycle /\ phase = "store"
  /\ reset \in BOOLEAN
  /\ ram = [p \in RamPhys |-> [i \in Offset |-> 0]]
  /\ oam = [i \in Offset |-> 0]
  /\ oamAddr = 0 /\ oamIncr = FALSE

Next == Tick \/ Press \/ Release

Spec     == Init /\ [][Next]_vars
FairSpec == Spec /\ WF_vars(Tick)
-----------------------------------------------------------------------------
(* Properties. *)

\* While the dma module owns the bus (dma.sv:48-53), the bus cycle the stopped
\* CPU is frozen in is a read: a frozen write would write the CPU's byte to
\* every source address in turn (databus.sv:28-31).  The DLY state of dma.sv
\* is what keeps the second write of a read-modify-write out of it.
FrozenInRead == hijack => ~bus.wr

\* At every point of a transfer the bytes below the counter are in OAM, and
\* what they were copied from still stands (dma.sv:35-53).
CopiedSoFar ==
  hijack /\ prefix \in MemPage =>
    \A i \in Offset : i < ctr => oam[i] = Image(prefix)[i]

\* When the dma module gives the bus back, OAM is byte for byte the page the
\* program asked for, whatever OAMADDR is and whatever was pressed meanwhile
\* (dma.sv:27-28).
TransferIsExact ==
  [][hijack /\ ~hijack' /\ prefix \in MemPage => oam' = Image(prefix)']_vars

\* A page that was asked for arrives, and the CPU goes on from there: there
\* is no state of dma.sv in which it stays stopped.
RequestIsServed ==
  \A p \in MemPage :
    (dstate = "DLY" /\ prefix = p) ~> (dstate = "IDL" /\ oam = Image(p))

\* The abstract view: a transfer from memory happens as a whole when the CPU
\* is stopped, a transfer from I/O byte by byte.
absSource == [p \in MemPage |-> Image(p)]
absOam == [i \in Offset |->
             IF hijack /\ prefix \in MemPage /\ ctr <= i
             THEN Image(prefix)[i] ELSE oam[i]]
absReq == IF dstate = "DLY" \/ (hijack /\ prefix \notin MemPage)
          THEN prefix ELSE NumPages

Copy == INSTANCE PageCopy WITH Page <- Byte, NoPage <- NumPages,
          source <- absSource, oam <- absOam, req <- absReq

\* Sprite DMA implements the atomic page copy of module PageCopy: no store of
\* the program ever falls between two bytes of a transfer (nes.sv:100).
ImplementsPageCopy == Copy!Spec
=============================================================================
