----------------------------- MODULE VblankNmi -----------------------------
(***************************************************************************)
(* The vertical-blank flag (status[7]) of the PPU and the NMI it raises in *)
(* the CPU.  Both run on cpu_clk; the frame is a counter of CPU clocks     *)
(* that starts with line 480, the line on which the flag is set all the    *)
(* way, and goes on through the rest of vertical blank, line 524, on which *)
(* it is cleared, and the lines that draw.                                 *)
(*                                                                         *)
(* The CPU runs instructions one clock at a time; the last clock of an     *)
(* instruction is its access to the bus.  A write to $4014 stops the CPU   *)
(* for DmaLen clocks one clock later (module OamDma), and a stopped CPU    *)
(* samples no NMI.                                                         *)
(***************************************************************************)
EXTENDS Naturals

CONSTANTS
  SetLen,    \* CPU clocks of line 480 (57)
  VblLen,    \* CPU clocks of lines 481 to 523 (2446)
  ClearLen,  \* CPU clocks of line 524 (57)
  DrawLen,   \* CPU clocks of lines 0 to 479 (27300)
  DmaLen,    \* CPU clocks the dma module stops the CPU (512)
  NmiLen,    \* clocks of the NMI sequence (7)
  AccessLen, \* clocks of an instruction that uses the bus (4)
  OtherLens  \* lengths of the other instructions (2 .. 7)

FrameLen  == SetLen + VblLen + ClearLen + DrawLen
ClearFrom == SetLen + VblLen

ASSUME LengthsAssumption ==
  /\ {SetLen, VblLen, ClearLen, DrawLen, DmaLen, NmiLen, AccessLen} \subseteq Nat \ {0}
  /\ SetLen > 1 /\ NmiLen > 3 /\ AccessLen > 1
  /\ OtherLens \subseteq Nat \ {0, 1}

\* The worst case between the flag's being set and the CPU's seeing it: a
\* transfer, then the end of an instruction and one more.
ASSUME DmaFitsInVblank ==
  \A n \in OtherLens \cup {AccessLen, NmiLen} :
    DmaLen + NmiLen + 2 * n < ClearFrom

\* After line 524 there is time for what is due from the frame before: a
\* transfer, the end of an instruction, the sequence and a transfer within it.
ASSUME DmaFitsInDrawing ==
  \A n \in OtherLens \cup {AccessLen, NmiLen} :
    2 * DmaLen + NmiLen + n < ClearLen + DrawLen

VARIABLES
  pos,     \* CPU clocks since line 480 began
  vbl,     \* status[7]
  ctl,     \* control[7], which lets the flag raise the NMI
  latched, \* bit 7 of bus_out as the last read of $2002 left it
  op, len, \* the CPU's instruction and its length
  left,    \* its clocks that remain
  stop,    \* clocks until the dma module lets the CPU go on; 0 when it runs
  delay,   \* the dma module is in its DLY state
  nmiOld,  \* NMI_n_o: the NMI line as last sampled (TRUE is high)
  nmiAct,  \* NMIAct: an edge was seen
  \* What has happened since line 480 began:
  armed,   \* control[7] has been 1 all the time
  quiet,   \* nobody read $2002 on line 480
  polls,   \* the reads of $2002 while the flag stood to be seen, up to 2
  seen,    \* a read latched a 1
  got,     \* and a later one brought it to the program
  taken    \* the number of NMIs taken, up to 2

ppuVars   == <<vbl, ctl, latched>>
cpuVars   == <<op, len, left, nmiOld, nmiAct>>
dmaVars   == <<stop, delay>>
ghostVars == <<armed, quiet, polls, seen, got, taken>>
vars      == <<pos, ppuVars, cpuVars, dmaVars, ghostVars>>

Op == {"other", "branch", "readStatus", "nmiOn", "nmiOff", "dma", "nmi"}

TypeOK ==
  /\ pos \in 0 .. FrameLen - 1
  /\ {vbl, ctl, latched, delay, nmiOld, nmiAct} \subseteq BOOLEAN
  /\ op \in Op /\ len \in Nat /\ left \in 1 .. len
  /\ stop \in 0 .. DmaLen
  /\ {armed, quiet, seen, got} \subseteq BOOLEAN /\ polls \in 0 .. 2 /\ taken \in 0 .. 2

onSetLine   == pos < SetLen
onClearLine == ClearFrom <= pos /\ pos < ClearFrom + ClearLen

running  == stop = 0
boundary == running /\ left = 1
access(o) == boundary /\ op = o
nmi_n    == ~(vbl /\ ctl)

-----------------------------------------------------------------------------
(* The PPU's side. *)

\* Mutant: the flag is set by the first clock of line 480 only, as the read of
\* the same clock lets it.
VblEdge ==
  vbl' = CASE access("readStatus") -> FALSE
           [] ~access("readStatus") /\ pos = 0 -> TRUE
           [] ~access("readStatus") /\ onClearLine -> FALSE
           [] OTHER -> vbl

\* Mutant: line 524 does not clear the flag.
VblStays ==
  vbl' = CASE access("readStatus") -> FALSE
           [] ~access("readStatus") /\ onSetLine -> TRUE
           [] OTHER -> vbl

\* Mutant: a later line sets the flag again.
VblTwice ==
  vbl' = CASE access("readStatus") -> FALSE
           [] ~access("readStatus") /\ (pos < SetLen \/ pos = ClearFrom - 1) -> TRUE
           [] ~access("readStatus") /\ onClearLine -> FALSE
           [] OTHER -> vbl

StepVbl ==
  vbl' = CASE access("readStatus") -> FALSE
           [] ~access("readStatus") /\ onSetLine -> TRUE
           [] ~access("readStatus") /\ onClearLine -> FALSE
           [] OTHER -> vbl

StepPpu ==
  /\ StepVbl
  /\ latched' = IF access("readStatus") THEN vbl ELSE latched
  /\ ctl' = CASE access("nmiOn") -> TRUE
              [] access("nmiOff") -> FALSE
              [] OTHER -> ctl

-----------------------------------------------------------------------------
(* The CPU's side. *)

\* A branch does not sample the NMI line in its second clock.  It has two clocks
\* if it is not taken, three if it is, four if it goes to another page.
samples == running /\ ~(op = "branch" /\ left = len - 1)

StartNmi == op' = "nmi" /\ len' = NmiLen

StartOp ==
  \/ op' = "other" /\ len' \in OtherLens
  \/ op' = "branch" /\ len' \in {2, 3, 4}
  \/ op' \in {"readStatus", "nmiOn", "nmiOff", "dma"} /\ len' = AccessLen

\* An NMI that was seen is taken at the end of an instruction, but not right
\* after the sequence of another one.
takes == boundary /\ nmiAct /\ op # "nmi"

StepInstruction ==
  IF boundary
  THEN /\ IF takes THEN StartNmi ELSE StartOp
       /\ left' = len'
  ELSE /\ left' = IF running THEN left - 1 ELSE left
       /\ UNCHANGED <<op, len>>

\* Mutant: the edge is sampled although the CPU is stopped, and dropped.
NmiDropped ==
  /\ nmiOld' = IF samples \/ ~running THEN nmi_n ELSE nmiOld
  /\ nmiAct' = IF samples /\ nmiOld /\ ~nmi_n THEN TRUE ELSE nmiAct /\ ~takes

\* The edge detector; in the last clock but one of an NMI sequence it is held
\* clear, as the vector fetched then is the NMI's already.
SampleNmi ==
  /\ nmiOld' = IF samples THEN nmi_n ELSE nmiOld
  /\ nmiAct' = CASE running /\ op = "nmi" /\ left = 2 -> FALSE
                 [] ~(running /\ op = "nmi" /\ left = 2)
                    /\ samples /\ nmiOld /\ ~nmi_n -> TRUE
                 [] OTHER -> nmiAct /\ ~takes

\* Mutant: the count goes on when it has run out.
StopPastZero ==
  /\ delay' = access("dma")
  /\ stop' = IF delay THEN DmaLen ELSE stop - 1

\* The clocks of the dma module: one in DLY, in which the CPU runs, and then
\* DmaLen in which it does not.
StepDma ==
  /\ delay' = access("dma")
  /\ stop' = IF delay THEN DmaLen ELSE IF running THEN 0 ELSE stop - 1

-----------------------------------------------------------------------------

StepGhosts ==
  LET last == pos = FrameLen - 1
      read == access("readStatus")
  IN  /\ armed'  = IF last THEN ctl' ELSE armed /\ ctl'
      /\ quiet'  = IF last THEN TRUE ELSE quiet /\ ~(read /\ onSetLine)
      /\ polls'  = IF last THEN 0
                   ELSE IF read /\ 2 <= pos /\ pos < ClearFrom /\ polls < 2
                        THEN polls + 1 ELSE polls
      /\ seen'   = IF last THEN FALSE ELSE seen \/ (read /\ vbl)
      /\ got'    = IF last THEN FALSE ELSE got \/ (read /\ seen /\ latched)
      /\ taken'  = IF last THEN 0
                   ELSE IF takes /\ taken < 2 THEN taken + 1 ELSE taken

Clock ==
  /\ pos' = IF pos = FrameLen - 1 THEN 0 ELSE pos + 1
  /\ StepPpu /\ StepInstruction /\ SampleNmi /\ StepDma
  /\ StepGhosts

\* KEY[0]: the raster starts at line 0, the PPU's registers are cleared, the
\* CPU starts over; the dma module is not reset.
Reset ==
  /\ pos' = ClearFrom + ClearLen
  /\ vbl' = FALSE /\ ctl' = FALSE /\ latched' = FALSE
  /\ op' = "other" /\ len' \in OtherLens /\ left' = len'
  /\ nmiOld' = TRUE /\ nmiAct' = FALSE
  /\ armed' = FALSE /\ quiet' = TRUE /\ polls' = 0 /\ seen' = FALSE /\ got' = FALSE
  /\ taken' = 0
  /\ UNCHANGED dmaVars

Init ==
  /\ pos = ClearFrom + ClearLen
  /\ vbl = FALSE /\ ctl = FALSE /\ latched = FALSE
  /\ op = "other" /\ len \in OtherLens /\ left = len
  /\ stop = 0 /\ delay = FALSE
  /\ nmiOld = TRUE /\ nmiAct = FALSE
  /\ armed = FALSE /\ quiet = TRUE /\ polls = 0 /\ seen = FALSE /\ got = FALSE
  /\ taken = 0

Next == Clock \/ Reset

Spec == Init /\ [][Next]_vars
-----------------------------------------------------------------------------
(* Properties; each speaks of the last clock of a frame. *)

endOfFrame == pos = FrameLen - 1

\* As long as control[7] stays set every frame has its NMI: neither a read of
\* $2002 that races with the setting of the flag (ppu.sv:120-123) nor a sprite
\* DMA that keeps the CPU from sampling the edge (nes.sv:100) loses it.
FrameHasNmi == endOfFrame /\ armed => taken > 0

\* Once is enough: if nobody reads $2002 while line 480 lasts, the frame has
\* exactly one NMI, read or DMA later in the frame notwithstanding.
QuietFrameHasOneNmi == endOfFrame /\ armed /\ quiet => taken = 1

\* A program that polls instead of taking the NMI gets the flag of every frame.
\* A read brings what the one before it latched (ppu.sv:136-137), so that one
\* poll is not enough: two while the flag stands to be seen bring a 1 that a read
\* of this frame latched, if bus_out is not used for another register between.
PollGetsFlag == endOfFrame /\ polls = 2 => got

\* No frame's flag is left over for the next: when line 480 begins, the flag is
\* down, the line high and no NMI is pending (ppu.sv:124-125).
FrameStartsClean == pos = 0 => ~vbl /\ ~nmiAct
=============================================================================
