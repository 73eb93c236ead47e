----------------------------- MODULE SpriteScan -----------------------------
(***************************************************************************)
(* The sprites of a line.  While a line is drawn, a state machine of       *)
(* ppu.sv walks object attribute memory (OAM), four bytes to a sprite, and *)
(* keeps the first sprites that the line crosses.  At the end of every     *)
(* second line of the screen they are handed to the pixel logic, and the   *)
(* two pattern bytes of each are fetched.                                  *)
(*                                                                         *)
(* One step of Clock is one positive edge of vga_clk.  The CPU or its DMA  *)
(* writes OAM at any time through the other port of the memory.  The RAM   *)
(* and the pattern ROM answer one clock after they are addressed.          *)
(***************************************************************************)
EXTENDS Integers, FiniteSets

CONSTANTS
  Size,        \* bytes of OAM, and values of a byte (256)
  MaxFetch,    \* sprites on a line (8)
  Height,      \* lines of a sprite (8)
  LineLen,     \* clocks of a line (800)
  ScanEnd,     \* the first clock of a line the scan does not run in (512)
  HandAt,      \* the clock at which the hand-over begins (522)
  Picture,     \* lines of the screen with a picture (480)
  Lines,       \* lines of a frame (525)
  StartAddr,   \* values of oam_addr when a scan begins (0 .. 255)
  OamContents, \* what OAM may hold at first
  OamWrites    \* the writes of the CPU: pairs <<address, byte>>

Byte    == 0 .. Size - 1
HandEnd == HandAt + 4 * MaxFetch

ASSUME SizesAssumption ==
  /\ {Size, MaxFetch, Height, LineLen, ScanEnd, HandAt, Picture, Lines} \subseteq Nat \ {0}
  /\ 4 <= Size
  /\ ScanEnd <= HandAt /\ HandEnd < LineLen
  /\ Picture < Lines /\ Picture % 2 = 0
  /\ Picture \div 2 + Height <= Size

\* A scan that finds as many sprites as it may at the end of OAM ends in time.
ASSUME TimeAssumption == Size + 14 * MaxFetch + 24 <= 2 * ScanEnd

ASSUME OamAssumption ==
  /\ StartAddr \subseteq Byte /\ StartAddr # {}
  /\ OamContents \subseteq [Byte -> Byte]
  /\ OamWrites \subseteq Byte \X Byte

VARIABLES
  drx, dry,        \* the raster's column and line
  oam, oam_out,    \* OAM, and its answer to the scan
  state,           \* of the scan
  render_oam_addr, \* the address the scan is at
  fetched_data, fetched_ct, batch_ct, alt_s0, \* what it has found
  sprite_row, sprite_pat, \* sprite_data: attributes and X, pattern bytes
  sprite_ct, s0,   \* how many of them there are, and sprite 0 is the first
  pattern,         \* the pattern ROM's answer
  start,           \* history: the address the last scan began at
  stable           \* history: no write to OAM since then

scanVars  == <<state, render_oam_addr, fetched_data, fetched_ct, batch_ct, alt_s0>>
drawVars  == <<sprite_row, sprite_pat, sprite_ct, s0>>
histVars  == <<start, stable>>
vars      == <<drx, dry, oam, oam_out, scanVars, drawVars, pattern, histVars>>

\* A byte of pattern ROM: which tile, which of its planes, which line of it.
Pattern   == [tile : Byte, plane : 0 .. 1, y : 0 .. Height - 1]
NoPattern == [tile |-> 0, plane |-> 0, y |-> 0]

\* The byte of a slot that draws nothing; no byte of ROM.
Empty == [tile |-> Size, plane |-> 0, y |-> 0]

Index == 0 .. 4 * MaxFetch - 1
Slot  == 0 .. MaxFetch - 1
State == {"IDL", "MAINRD", "EVAL", "LATCH", "INCR_RD"}

NoRows     == [k \in Slot |-> [j \in 0 .. 1 |-> 0]]
NoPatterns == [k \in Slot |-> [j \in 0 .. 1 |-> Empty]]

TypeOK ==
  /\ drx \in 0 .. LineLen - 1 /\ dry \in 0 .. Lines - 1
  /\ oam \in [Byte -> Byte] /\ oam_out \in Byte
  /\ state \in State /\ render_oam_addr \in Byte
  /\ fetched_data \in [Index -> Byte]
  /\ fetched_ct \in 0 .. MaxFetch /\ batch_ct \in 0 .. 3 /\ alt_s0 \in BOOLEAN
  /\ sprite_row \in [Slot -> [0 .. 1 -> Byte]]
  /\ sprite_pat \in [Slot -> [0 .. 1 -> Pattern \cup {Empty}]]
  /\ sprite_ct \in 0 .. MaxFetch /\ s0 \in BOOLEAN
  /\ pattern \in Pattern
  /\ start \in Byte /\ stable \in BOOLEAN

-----------------------------------------------------------------------------
(* The scan. *)

rel_addr == dry \div 2

\* Mutant: one line too many.
CrossesOneMore(y) == y <= rel_addr /\ rel_addr <= (y + Height) % Size

\* The line crosses a sprite whose first byte is y; the sum is eight bits wide.
Crosses(y) == y <= rel_addr /\ rel_addr <= (y + Height - 1) % Size

scanning == dry < Picture /\ drx < ScanEnd

\* Mutant: the sprite-0 bit is not taken back.
BeginKeepsS0(a) ==
  /\ state = "IDL" /\ drx = 0
  /\ state' = "MAINRD"
  /\ render_oam_addr' = a
  /\ fetched_data' = [i \in Index |-> 0]
  /\ fetched_ct' = 0 /\ batch_ct' = 0
  /\ UNCHANGED alt_s0

Begin(a) ==
  /\ state = "IDL" /\ drx = 0
  /\ state' = "MAINRD"
  /\ render_oam_addr' = a
  /\ fetched_data' = [i \in Index |-> 0]
  /\ fetched_ct' = 0 /\ batch_ct' = 0 /\ alt_s0' = FALSE

Stay == state = "IDL" /\ drx # 0 /\ UNCHANGED scanVars

\* A clock for OAM to answer; a sprite needs all its four bytes, and nothing
\* is looked for on the last line of the picture.
MainRead ==
  /\ state = "MAINRD"
  /\ state' = IF render_oam_addr < Size - 3 /\ dry # Picture - 1 THEN "EVAL" ELSE "IDL"
  /\ UNCHANGED <<render_oam_addr, fetched_data, fetched_ct, batch_ct, alt_s0>>

Hit ==
  /\ state = "EVAL" /\ Crosses(oam_out)
  /\ state' = "LATCH"
  /\ batch_ct' = 0 /\ fetched_ct' = fetched_ct + 1
  /\ UNCHANGED <<render_oam_addr, fetched_data, alt_s0>>

\* Mutant: no comparison with the end of OAM.
MissGoesOn ==
  /\ state = "EVAL" /\ ~Crosses(oam_out)
  /\ state' = "MAINRD" /\ render_oam_addr' = (render_oam_addr + 4) % Size
  /\ UNCHANGED <<fetched_data, fetched_ct, batch_ct, alt_s0>>

Miss ==
  /\ state = "EVAL" /\ ~Crosses(oam_out)
  /\ IF render_oam_addr < Size - 7
     THEN state' = "MAINRD" /\ render_oam_addr' = (render_oam_addr + 4) % Size
     ELSE state' = "IDL" /\ UNCHANGED render_oam_addr
  /\ UNCHANGED <<fetched_data, fetched_ct, batch_ct, alt_s0>>

\* Mutant: the count is not compared with the number of slots.
LatchNoLimit ==
  /\ state = "LATCH"
  /\ state' = IF batch_ct < 3 THEN "INCR_RD"
              ELSE IF render_oam_addr > Size - 4
              THEN "IDL" ELSE "MAINRD"
  /\ fetched_data' = [fetched_data EXCEPT
                        ![4 * ((fetched_ct - 1) % MaxFetch) + batch_ct] = oam_out]
  /\ render_oam_addr' = (render_oam_addr + 1) % Size
  /\ batch_ct' = (batch_ct + 1) % 4
  /\ alt_s0' = (alt_s0 \/ render_oam_addr = 0)
  /\ UNCHANGED fetched_ct

\* fetched_ct is 0 here if reset came in the middle of a sprite; the index is
\* then taken modulo the size of fetched_data.
Latch ==
  /\ state = "LATCH"
  /\ state' = IF batch_ct < 3 THEN "INCR_RD"
              ELSE IF fetched_ct = MaxFetch \/ render_oam_addr > Size - 4
              THEN "IDL" ELSE "MAINRD"
  /\ fetched_data' = [fetched_data EXCEPT
                        ![4 * ((fetched_ct - 1) % MaxFetch) + batch_ct] = oam_out]
  /\ render_oam_addr' = (render_oam_addr + 1) % Size
  /\ batch_ct' = (batch_ct + 1) % 4
  /\ alt_s0' = (alt_s0 \/ render_oam_addr = 0)
  /\ UNCHANGED fetched_ct

IncrRead ==
  /\ state = "INCR_RD" /\ state' = "LATCH"
  /\ UNCHANGED <<render_oam_addr, fetched_data, fetched_ct, batch_ct, alt_s0>>

StepScan(a) ==
  IF scanning
  THEN Begin(a) \/ Stay \/ MainRead \/ Hit \/ Miss \/ Latch \/ IncrRead
  ELSE UNCHANGED scanVars

-----------------------------------------------------------------------------
(* The hand-over. *)

backshift == drx - HandAt
handing   == dry < Picture /\ HandAt <= drx /\ drx < HandEnd
slot      == backshift \div 4

\* The line of sprite k's tile that this line shows.
sprite_fetch_y(k) ==
  LET y == (rel_addr - fetched_data[4 * k]) % Height
  IN  IF fetched_data[4 * k + 2] >= Size \div 2 THEN Height - 1 - y ELSE y

render_pattern_addr ==
  IF handing
  THEN [tile |-> fetched_data[4 * slot + 1],
        plane |-> IF backshift % 4 < 2 THEN 0 ELSE 1,
        y |-> sprite_fetch_y(slot)]
  ELSE NoPattern

\* Mutant: the sprite-0 bit of an earlier line stays.
HandKeepsS0 ==
  /\ sprite_row' = [k \in Slot |-> [j \in 0 .. 1 |-> fetched_data[4 * k + 2 + j]]]
  /\ sprite_ct' = fetched_ct /\ s0' = (s0 \/ alt_s0)
  /\ UNCHANGED sprite_pat

\* Attributes and X are the last two bytes of a sprite in OAM.
HandRows ==
  /\ sprite_row' = [k \in Slot |-> [j \in 0 .. 1 |-> fetched_data[4 * k + 2 + j]]]
  /\ sprite_ct' = fetched_ct /\ s0' = alt_s0
  /\ UNCHANGED sprite_pat

HandPattern ==
  /\ backshift % 2 = 1
  /\ sprite_pat' = [sprite_pat EXCEPT
       ![slot][(backshift % 4) \div 2] = IF slot < sprite_ct THEN pattern ELSE Empty]
  /\ UNCHANGED <<sprite_row, sprite_ct, s0>>

StepHandOver ==
  IF handing /\ dry % 2 = 1
  THEN \/ drx = HandAt /\ HandRows
       \/ drx # HandAt /\ HandPattern
       \/ drx # HandAt /\ backshift % 2 = 0 /\ UNCHANGED drawVars
  ELSE UNCHANGED drawVars

-----------------------------------------------------------------------------

NextPixel ==
  /\ drx' = IF drx = LineLen - 1 THEN 0 ELSE drx + 1
  /\ dry' = IF drx # LineLen - 1 THEN dry ELSE IF dry = Lines - 1 THEN 0 ELSE dry + 1

\* oam_addr belongs to the other clock; writes of $2004 leave it anywhere.
Clock == \E a \in StartAddr :
  /\ NextPixel
  /\ StepScan(a)
  /\ StepHandOver
  /\ oam_out' = oam[render_oam_addr]
  /\ pattern' = render_pattern_addr
  /\ start'  = IF scanning /\ drx = 0 THEN a ELSE start
  /\ stable' = (stable \/ (scanning /\ drx = 0 /\ state = "IDL"))
  /\ UNCHANGED oam

\* A read of the byte that is being written returns anything.
Write(w) ==
  /\ oam' = [oam EXCEPT ![w[1]] = w[2]]
  /\ stable' = FALSE
  /\ oam_out' \in IF w[1] = render_oam_addr THEN Byte ELSE {oam_out}
  /\ UNCHANGED <<drx, dry, scanVars, drawVars, pattern, start>>

\* Mutant: the sprites that were handed over stay.
ResetKeepsCount ==
  /\ drx' = 0 /\ dry' = 0
  /\ fetched_data' = [i \in Index |-> 0]
  /\ sprite_row' = NoRows /\ sprite_pat' = NoPatterns
  /\ fetched_ct' = 0 /\ batch_ct' = 0 /\ alt_s0' = FALSE
  /\ render_oam_addr' = 0
  /\ stable' = FALSE
  /\ oam_out' = oam[render_oam_addr] /\ pattern' = render_pattern_addr
  /\ UNCHANGED <<oam, state, start, sprite_ct, s0>>

\* Everything but the state of the scan is reset.
Reset ==
  /\ drx' = 0 /\ dry' = 0
  /\ fetched_data' = [i \in Index |-> 0]
  /\ sprite_row' = NoRows /\ sprite_pat' = NoPatterns
  /\ fetched_ct' = 0 /\ batch_ct' = 0 /\ alt_s0' = FALSE
  /\ sprite_ct' = 0 /\ s0' = FALSE
  /\ render_oam_addr' = 0
  /\ stable' = FALSE
  /\ oam_out' = oam[render_oam_addr] /\ pattern' = render_pattern_addr
  /\ UNCHANGED <<oam, state, start>>

Init ==
  /\ drx = 0 /\ dry = 0
  /\ oam \in OamContents /\ oam_out = 0
  /\ state = "IDL" /\ render_oam_addr = 0
  /\ fetched_data = [i \in Index |-> 0]
  /\ fetched_ct = 0 /\ batch_ct = 0 /\ alt_s0 = FALSE
  /\ sprite_row = NoRows /\ sprite_pat = NoPatterns
  /\ sprite_ct = 0 /\ s0 = FALSE
  /\ pattern = NoPattern
  /\ start = 0 /\ stable = FALSE

Next == Clock \/ (\E w \in OamWrites : Write(w)) \/ Reset

Spec == Init /\ [][Next]_vars
-----------------------------------------------------------------------------
(* What the lines should show, straight from OAM. *)

\* The sprites a scan looks at, by the address of their first byte, those of
\* them that this line crosses, and the first of these.
Sprites == {b \in Byte : start <= b /\ b <= Size - 4 /\ (b - start) % 4 = 0}
Hits    == IF dry = Picture - 1 THEN {}
           ELSE {b \in Sprites : oam[b] <= rel_addr /\ rel_addr <= oam[b] + Height - 1}
Rank(b) == Cardinality({h \in Hits : h < b})
Shown   == {b \in Hits : Rank(b) < MaxFetch}

\* The line of sprite b's tile that the raster is at; attribute bit 7 flips it.
TileLine(b) == IF oam[b + 2] >= Size \div 2
               THEN Height - 1 - (rel_addr - oam[b]) ELSE rel_addr - oam[b]

handedOver == dry < Picture /\ dry % 2 = 1 /\ drx = HandEnd

-----------------------------------------------------------------------------
(* Properties. *)

\* The scan is back in IDL when its part of the line is over, so that it is
\* there when the next line begins (ppu.sv:474), whatever is written to OAM
\* under its feet and wherever reset struck.
ScanEndsInTime == dry < Picture /\ ScanEnd <= drx => state = "IDL"

\* After the hand-over the slots hold the first sprites that the line crosses
\* in the order of OAM, each with the line of its tile that belongs there, and
\* no other slot draws (ppu.sv:557-572), unless OAM was written meanwhile.
SlotsAreShown ==
  handedOver /\ stable =>
    /\ sprite_ct = Cardinality(Shown)
    /\ \A b \in Shown, j \in 0 .. 1 :
         /\ sprite_row[Rank(b)][j] = oam[b + 2 + j]
         /\ sprite_pat[Rank(b)][j] = [tile |-> oam[b + 1], plane |-> j, y |-> TileLine(b)]
    /\ \A k \in Slot, j \in 0 .. 1 : k >= sprite_ct => sprite_pat[k][j] = Empty

\* The bit that lets slot 0 raise the sprite-0 flag is set just when slot 0
\* is sprite 0 of OAM (ppu.sv:551-552,564).
SlotZeroIsSpriteZero == handedOver /\ stable => (s0 <=> 0 \in Shown)

\* Even if OAM changes while it is scanned, that bit never stands for an empty
\* line.
SpriteZeroIsDrawn == s0 => sprite_ct > 0

\* No sprite of the last line lives on in vertical blank or in the first line
\* of the next frame, where sprite_hit would count it (ppu.sv:476,704).
NoneInBlank ==
  (dry >= Picture \/ dry = 0 \/ (dry = 1 /\ drx <= HandAt)) => sprite_ct = 0 /\ ~s0
=============================================================================
