------------------------------ MODULE BgFetch ------------------------------
(***************************************************************************)
(* The background of the picture: while a tile is shown, the bytes of the  *)
(* next one are fetched in eight clocks and latched, and at the end of the *)
(* tile they become the tile shown.  A tile is 8 dots wide, a dot is two   *)
(* pixels wide and two lines high.  The first tile of a line is fetched at *)
(* the end of the line above.  The memories answer a clock after they are  *)
(* asked.  Bytes are symbolic: a byte of the name table memories is where  *)
(* it was read, a byte of the pattern memory the address it was read at.   *)
(***************************************************************************)
EXTENDS VgaTiming

CONSTANTS
  Columns,     \* tiles of a line (32)
  TileHeight,  \* dots of a tile's height (8)
  TileRows,    \* tiles of a column (30)
  ScrollXs, ScrollYs, Controls,  \* the values the program writes
  WritePixels  \* the pixels at which it does

ASSUME SizesFit ==
  /\ Columns \in Nat \ {0, 1} /\ TileHeight \in Nat \ {0} /\ TileRows \in Nat \ {0}
  /\ HPixels >= 16 * Columns + 32
  /\ VVisible = 2 * TileHeight * TileRows
  /\ ((HPixels - 31) % (16 * Columns)) % 16 = 0

\* A horizontal scroll starts within one table (a byte, of 8 * 32 dots).
ASSUME WritesFit ==
  /\ ScrollXs \subseteq 0 .. 8 * Columns - 1 /\ ScrollYs \subseteq Nat
  /\ Controls \subseteq [x : {0, 1}, y : {0, 1}, half : {0, 1}]

VARIABLES
  scroll,         \* [x, y], the scroll registers
  control,        \* [x, y, half]: the base name table, the pattern table
  mirror_cfg,     \* the cartridge's mirroring, fixed
  active_scrolly, \* the vertical scroll in use
  asked,          \* [nmt, pat]: the addresses the memories were last given
  nt, next,       \* the name and [pat1, pat2, attr] fetched so far
  shown,          \* [pat1, pat2, attr] of the tile on the screen
  steady,         \* history: control, scroll.x unchanged since the line began to be
                  \* fetched, scroll.y too if it is a frame's first
  frameY          \* history: scroll.y when the frame began

regs == <<scroll, control, mirror_cfg>>
latches == <<active_scrolly, asked, nt, next, shown>>
bgVars == <<vars, regs, latches, steady, frameY>>

Height == TileHeight * TileRows
Nothing == "byte 0"
NoTile == [pat1 |-> Nothing, pat2 |-> Nothing, attr |-> Nothing]
NotAsked == [nmt |-> Nothing, pat |-> Nothing]
-----------------------------------------------------------------------------
(* What is fetched now. *)

Xor(a, b) == (a + b) % 2

\* The two name table memories are told apart by one bit of the table.
Chip(y, x) == IF mirror_cfg THEN IF x = 0 THEN "A" ELSE "B"
              ELSE IF y = 0 THEN "A" ELSE "B"

transl_coord == ((hc % (16 * Columns)) + 2 * scroll.x) % (32 * Columns)
phase == transl_coord % 16

\* From the last tile of a line on, the first tile of the next line is due.
NextLineIsDue == hc \div 16 >= Columns - 1

\* The column of the tile to fetch, over both tables side by side.
Column ==
  IF NextLineIsDue THEN scroll.x \div 8
                   ELSE (transl_coord \div 16 + 1) % (2 * Columns)

\* The row of dots to fetch, over both tables one above the other.  For the
\* first tile of a line the code shifts by the sum of 1 and the scroll.
Row ==
  IF NextLineIsDue
  THEN IF vc >= VVisible - 1 THEN active_scrolly
                             ELSE (vc + 1) \div 2 ^ (1 + active_scrolly)
  ELSE vc \div 2 + active_scrolly

ovr_x == IF Column >= Columns THEN 1 ELSE 0
ovr_y == IF Row >= Height /\ ~(NextLineIsDue /\ vc >= VVisible - 1)
         THEN 1 ELSE 0
ndrx == Column % Columns
ndry == IF ovr_y = 1 THEN Row - Height ELSE Row

nt_addr == <<"name", ndry \div TileHeight, ndrx>>
attr_addr == <<"attr", ndry \div (4 * TileHeight), ndrx \div 4>>
PatternAddr(plane) == <<control.half, nt, plane, ndry % TileHeight>>

\* The name table byte that arrives now, asked for a clock ago: which memory
\* it is taken from is decided now.
nt_data == <<Chip(Xor(control.y, ovr_y), Xor(control.x, ovr_x)), asked.nmt>>

Fetching == \/ hc < 16 * Columns /\ vc < VVisible
            \/ hc >= HPixels - 31 /\ (vc < VVisible \/ vc = VLines)

nt_en == Fetching /\ phase \in {0, 1}
alt_attr_en == Fetching /\ phase \in {2, 3}
altpat1_en == Fetching /\ phase \in {4, 5}
altpat2_en == Fetching /\ phase \in {6, 7}

Ask ==
  asked' = [nmt |-> CASE nt_en -> nt_addr
                      [] alt_attr_en -> attr_addr
                      [] OTHER -> Nothing,
            pat |-> CASE altpat1_en -> PatternAddr(1)
                      [] altpat2_en -> PatternAddr(2)
                      [] OTHER -> Nothing]

LatchNext ==
  /\ nt' = IF nt_en THEN nt_data ELSE nt
  /\ next' = [pat1 |-> IF altpat1_en THEN asked.pat ELSE next.pat1,
              pat2 |-> IF altpat2_en THEN asked.pat ELSE next.pat2,
              attr |-> IF alt_attr_en THEN nt_data ELSE next.attr]

ShowNext == shown' = IF Fetching /\ phase = 15 THEN next ELSE shown

\* Mutant: the vertical scroll is taken over at once, as the horizontal one is.
TakeScrollAlways == active_scrolly' = scroll.y

\* Both edges of the clock: before and after the line changes.
TakeScroll ==
  active_scrolly' = IF vc = VLines \/ vc' = VLines
                    THEN scroll.y ELSE active_scrolly
-----------------------------------------------------------------------------
BgInit ==
  /\ Init
  /\ scroll = [x |-> 0, y |-> 0] /\ control = [x |-> 0, y |-> 0, half |-> 0]
  /\ mirror_cfg \in BOOLEAN
  /\ active_scrolly = 0 /\ asked = NotAsked
  /\ nt = Nothing /\ next = NoTile /\ shown = NoTile
  /\ steady = FALSE /\ frameY = 0

Pixel ==
  /\ Clock /\ Ask /\ LatchNext /\ ShowNext /\ TakeScroll
  /\ steady' = (steady \/ hc = HPixels - 32)
  /\ frameY' = IF vc = VLines THEN scroll.y ELSE frameY
  /\ UNCHANGED regs

\* The program's writes to $2005, first and second, and to $2000.
WriteScrollX ==
  /\ hc \in WritePixels
  /\ \E x \in ScrollXs \ {scroll.x} : scroll' = [scroll EXCEPT !.x = x]
  /\ steady' = FALSE
  /\ UNCHANGED <<vars, control, mirror_cfg, latches, frameY>>

WriteScrollY ==
  /\ hc \in WritePixels
  /\ \E y \in ScrollYs \ {scroll.y} : scroll' = [scroll EXCEPT !.y = y]
  /\ steady' = (steady /\ vc # VLines)
  /\ UNCHANGED <<vars, control, mirror_cfg, latches, frameY>>

WriteControl ==
  /\ hc \in WritePixels
  /\ control' \in Controls \ {control}
  /\ steady' = FALSE
  /\ UNCHANGED <<vars, scroll, mirror_cfg, latches, frameY>>

BgReset ==
  /\ hc \in WritePixels
  /\ Reset
  /\ scroll' = [x |-> 0, y |-> 0] /\ control' = [x |-> 0, y |-> 0, half |-> 0]
  /\ active_scrolly' = 0 /\ asked' = NotAsked
  /\ nt' = Nothing /\ next' = NoTile /\ shown' = NoTile
  /\ steady' = FALSE /\ frameY' = 0
  /\ UNCHANGED mirror_cfg

BgNext == Pixel \/ WriteScrollX \/ WriteScrollY \/ WriteControl \/ BgReset

BgSpec == BgInit /\ [][BgNext]_bgVars
-----------------------------------------------------------------------------
(* Properties. *)

fine == scroll.x % 8
tile == (hc + 2 * fine) \div 16  \* the tile of the line this pixel is in
dots == vc \div 2 + frameY       \* the row of dots the line shows

\* The tile that belongs in place t of a line that shows row d of dots, from
\* the scroll registers alone: the byte that names it, its colours' byte and
\* its line of each plane of the pattern.
ByteOf(t, d, address) ==
  <<Chip(Xor(control.y, d \div Height), Xor(control.x, (scroll.x \div 8 + t) \div Columns)),
    address>>
NameOf(t, d) ==
  <<"name", (d % Height) \div TileHeight, (scroll.x \div 8 + t) % Columns>>
AttrOf(t, d) ==
  <<"attr", (d % Height) \div (4 * TileHeight), ((scroll.x \div 8 + t) % Columns) \div 4>>
PlaneOf(t, d, p) ==
  <<control.half, ByteOf(t, d, NameOf(t, d)), p, (d % Height) % TileHeight>>

TileAt(t, d) == [pat1 |-> PlaneOf(t, d, 1), pat2 |-> PlaneOf(t, d, 2),
                 attr |-> ByteOf(t, d, AttrOf(t, d))]

WantedTile == TileAt(tile, dots)

\* The tiles the code gets right: it fetches the first of a line from a
\* wrong row when the picture is scrolled vertically, has no time to fetch the
\* second when the first is not whole, nor the one that is only begun at the
\* right edge when less than half of it is seen.
Fetchable ==
  \/ tile \in 2 .. Columns - 1
  \/ tile = 0 /\ (frameY = 0 \/ vc = 0)
  \/ tile = 1 /\ fine = 0
  \/ tile = Columns /\ fine >= 4

\* Every tile on the screen is the one the scroll registers ask for: its
\* pattern, its colours' byte, in the right name table when the picture goes
\* over a table's edge, under both mirrorings.  The registers may be written
\* at any time: a vertical scroll written while the frame is drawn does not
\* show before the next frame, a horizontal one is right again from the next
\* line on (ppu.sv:281-378, 409-442, 692-705).
TilesAreRight ==
  /\ hc < 16 * Columns /\ vc < VVisible
  /\ steady /\ frameY < Height /\ Fetchable
  => shown = WantedTile
=============================================================================
