---------------------------- MODULE MCSpriteScan ----------------------------
(***************************************************************************)
(* Instance of SpritePixels, and with it of SpriteScan, for TLC: three     *)
(* sprites, of which a line shows two; the picture has four lines of the   *)
(* NES, and a blank one follows.  Each sprite starts on line 0 or 1 of the *)
(* NES, or is out of sight; one of them is upside down, the others are     *)
(* mirrored.  The game moves one of them away.  Their columns overlap, and *)
(* the first one reaches over the right edge of the screen.                *)
(***************************************************************************)
EXTENDS SpritePixels

MCStart == {0, 1}

\* The tile is 1, 2 or 3, the attributes 3, 6 and 3, X is 11, 10 or 9.
MCContents ==
  {[a \in 0 .. 11 |-> CASE a % 4 = 0 -> ys[a \div 4]
                        [] a % 4 = 1 -> 1 + a \div 4
                        [] a % 4 = 2 -> IF a = 6 THEN 6 ELSE 3
                        [] OTHER -> 11 - a \div 4] : ys \in [0 .. 2 -> {0, 1, 11}]}

MCWrites == {<<0, 11>>}

\* The patterns differ in their lines, planes and halves.
MCOpaqueBits ==
  {[tile |-> 1, plane |-> 0, y |-> 0, bit |-> 0], [tile |-> 1, plane |-> 1, y |-> 0, bit |-> 1],
   [tile |-> 1, plane |-> 0, y |-> 1, bit |-> 5], [tile |-> 2, plane |-> 1, y |-> 1, bit |-> 5],
   [tile |-> 2, plane |-> 0, y |-> 0, bit |-> 4], [tile |-> 3, plane |-> 0, y |-> 0, bit |-> 2]}
=============================================================================
