---------------------------- MODULE SpritePixels ----------------------------
(***************************************************************************)
(* What the pixels show of the sprites that SpriteScan handed over, and    *)
(* the flag that tells the CPU that sprite 0 has met the background.  At   *)
(* each column the slots are tried in order, and the first one with an     *)
(* opaque pixel there is shown.                                            *)
(*                                                                         *)
(* The background comes from outside: bg_en says whether it is opaque at   *)
(* this column and the masks of register $2001 let it be seen.             *)
(***************************************************************************)
EXTENDS SpriteScan

CONSTANTS
  Width,      \* columns of a sprite (8)
  Masked,     \* columns register $2001 hides sprites in: none, 0 .. 8, or all
  OpaqueBits  \* bits of pattern ROM that are set: [tile, plane, y, bit]

ASSUME PixelAssumption ==
  /\ Width \in Nat \ {0} /\ Masked \subseteq Nat
  /\ OpaqueBits \subseteq [tile : Byte, plane : 0 .. 1, y : 0 .. Height - 1, bit : 0 .. Width - 1]
  /\ Size % 4 = 0

VARIABLES
  bg_en,       \* the background is opaque at this column
  sprite_hit,  \* the sprite-0 flag, bit 6 of $2002
  drawn        \* history: where the scan of the slots began; Size if OAM was
               \* written since

pixelVars == <<bg_en, sprite_hit, drawn>>
allVars   == <<vars, pixelVars>>

-----------------------------------------------------------------------------
(* The pixel at column drx. *)

column == drx \div 2

sprites_on == column \notin Masked

\* A bit of a pattern byte; the byte of an empty slot has none.
set(p, bit) == [tile |-> p.tile, plane |-> p.plane, y |-> p.y, bit |-> bit] \in OpaqueBits

\* Mutant: mirrored the wrong way round.
BitMirrored(attributes, x) ==
  IF (attributes % (Size \div 2)) >= Size \div 4 THEN Width - 1 - (column - x) ELSE column - x

\* The leftmost pixel is the highest bit; attribute bit 6 mirrors the sprite.
bitAt(attributes, x) ==
  IF (attributes % (Size \div 2)) >= Size \div 4 THEN column - x ELSE Width - 1 - (column - x)

\* Slot k has an opaque pixel here.
opaque(k) ==
  LET attributes == sprite_row[k][0]
      x          == sprite_row[k][1]
  IN  /\ k < sprite_ct /\ x <= column /\ column <= x + Width - 1
      /\ \E j \in 0 .. 1 : set(sprite_pat[k][j], bitAt(attributes, x))

\* The first slot wins.
shown(k) == sprites_on /\ opaque(k) /\ \A l \in Slot : l < k => ~opaque(l)

\* Mutant: any slot may hit.
HitAny == bg_en /\ \E k \in Slot : shown(k)

hit0 == bg_en /\ shown(0)

-----------------------------------------------------------------------------

\* The last line of a frame takes the flag back.
PixelClock ==
  /\ Clock
  /\ sprite_hit' = (dry # Lines - 1 /\ (sprite_hit \/ (s0 /\ hit0)))
  /\ bg_en' \in BOOLEAN
  /\ drawn' = IF handing /\ dry % 2 = 1 /\ drx = HandAt
              THEN IF stable THEN start ELSE Size
              ELSE drawn

PixelWrite(w) == Write(w) /\ drawn' = Size /\ UNCHANGED <<bg_en, sprite_hit>>

PixelReset == Reset /\ sprite_hit' = FALSE /\ drawn' = Size /\ UNCHANGED bg_en

PixelInit == Init /\ bg_en = FALSE /\ sprite_hit = FALSE /\ drawn = Size

PixelNext == PixelClock \/ (\E w \in OamWrites : PixelWrite(w)) \/ PixelReset

PixelSpec == PixelInit /\ [][PixelNext]_allVars
-----------------------------------------------------------------------------
(* What OAM says. *)

\* The line of the NES the slots were filled for: they are drawn one line of the
\* NES later.
slotLine == IF dry % 2 = 1 /\ drx > HandAt THEN rel_addr ELSE rel_addr - 1

\* The sprites of OAM the slots stand for, in the order of OAM.
OnLine == IF slotLine \in 0 .. Picture \div 2 - 2
          THEN {b \in Byte : /\ drawn <= b /\ b <= Size - 4 /\ (b - drawn) % 4 = 0
                             /\ oam[b] <= slotLine /\ slotLine <= oam[b] + Height - 1}
          ELSE {}
OnLineRank(b) == Cardinality({c \in OnLine : c < b})

\* Sprite b of OAM has an opaque pixel at this column.
pixelOf(b) ==
  LET v == slotLine - oam[b]
      h == column - oam[b + 3]
      y == IF oam[b + 2] >= Size \div 2 THEN Height - 1 - v ELSE v
      x == IF (oam[b + 2] % (Size \div 2)) >= Size \div 4 THEN Width - 1 - h ELSE h
  IN  h \in 0 .. Width - 1 /\
      \E j \in 0 .. 1 : [tile |-> oam[b + 1], plane |-> j, y |-> y, bit |-> Width - 1 - x] \in OpaqueBits

\* It is the one to be seen.
foremost(b) == /\ b \in OnLine /\ OnLineRank(b) < MaxFetch /\ pixelOf(b)
               /\ \A c \in OnLine : c < b => ~pixelOf(c)

onScreen == drx < ScanEnd /\ dry < Picture

-----------------------------------------------------------------------------
(* Properties. *)

\* At each column of the picture the sprite that is shown is the first one in
\* the order of OAM that is opaque there, of those there was room for, with the
\* attributes OAM has for it (ppu.sv:609-644); none is shown where OAM has none.
FirstSpriteIsShown ==
  onScreen /\ drawn # Size /\ sprites_on =>
    /\ \A b \in OnLine : foremost(b) =>
         \E k \in Slot : shown(k) /\ sprite_row[k][0] = oam[b + 2]
    /\ (\E k \in Slot : shown(k)) => \E b \in OnLine : foremost(b)

\* On the screen the flag is raised just where sprite 0 of OAM is to be seen and
\* the background is opaque too; elsewhere only by a sprite 0 that reaches
\* beyond the right edge, and not in vertical blank (ppu.sv:647,698-704).
HitIsSpriteZero ==
  [][drawn # Size /\ ~sprite_hit /\ drx' = drx + 1 =>
       IF onScreen
       THEN sprite_hit' <=> bg_en /\ sprites_on /\ foremost(0)
       ELSE sprite_hit' => dry < Picture /\ 0 \in OnLine /\ oam[3] + Width > ScanEnd \div 2]_allVars
=============================================================================
