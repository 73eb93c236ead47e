---------------------------- MODULE BgFetchProofs ----------------------------
(***************************************************************************)
(* Theorems about VgaTiming and BgFetch: the pulses are in place in every  *)
(* raster, and the tiles are right in every picture, whatever the program  *)
(* writes to the scroll and control registers and whenever it does.        *)
(***************************************************************************)
EXTENDS BgFetch, Integers, TLAPS

-----------------------------------------------------------------------------
(* Quotients and remainders. *)

\* A number is the divisor times the quotient and the remainder.
LEMMA Division ==
  ASSUME NEW a \in Nat, NEW b \in Nat, b > 0
  PROVE  /\ a \div b \in Nat /\ a % b \in 0 .. b - 1
         /\ a = b * (a \div b) + (a % b)
<1>1. a % b \in 0 .. b - 1
  OBVIOUS
<1>2. a \div b \in Int
  OBVIOUS
<1>3. a = b * (a \div b) + (a % b)
  BY SMTT(30)
<1>4. a \div b >= 0
  BY <1>1, <1>2, <1>3
<1> QED
  BY <1>1, <1>2, <1>3, <1>4

\* And there is only one way to write it so.
LEMMA DivisionIsUnique ==
  ASSUME NEW b \in Nat, b > 0, NEW q \in Nat, NEW r \in 0 .. b - 1
  PROVE  (b * q + r) \div b = q /\ (b * q + r) % b = r
<1> DEFINE a == b * q + r
           p == a \div b
           s == a % b
<1>1. a \in Nat /\ p \in Nat /\ s \in 0 .. b - 1 /\ b * p + s = b * q + r
  <2>1. a \in Nat
    OBVIOUS
  <2> QED
    BY <2>1, Division
<1> HIDE DEF a, p, s
<1>2. ASSUME NEW m \in Nat, NEW n \in Nat, m < n PROVE b * m + b <= b * n
  <2>1. b * (n - m - 1) >= 0
    <3>1. n - m - 1 \in Nat
      BY <1>2
    <3> QED
      BY <3>1
  <2> QED
    BY <1>2, <2>1
<1>3. ~(p < q)
  BY <1>1, <1>2
<1>4. ~(q < p)
  BY <1>1, <1>2
<1>5. p = q
  BY <1>1, <1>3, <1>4
<1>6. s = r
  BY <1>1, <1>5
<1> QED
  BY <1>5, <1>6 DEF p, s, a

\* A multiple of the divisor changes the quotient only.
LEMMA DivisionOfSum ==
  ASSUME NEW b \in Nat, b > 0, NEW k \in Nat, NEW a \in Nat
  PROVE  (b * k + a) % b = a % b /\ (b * k + a) \div b = k + (a \div b)
<1> DEFINE q == a \div b
           r == a % b
<1>1. q \in Nat /\ r \in 0 .. b - 1 /\ a = b * q + r
  BY Division
<1> HIDE DEF q, r
<1>2. b * k + a = b * (k + q) + r
  BY <1>1
<1>3. k + q \in Nat
  BY <1>1
<1>4. (b * (k + q) + r) \div b = k + q /\ (b * (k + q) + r) % b = r
  BY <1>1, <1>3, DivisionIsUnique
<1> QED
  BY <1>2, <1>4 DEF q, r

\* Counting by a multiple of a tile's pixels keeps the pixel within the tile.
LEMMA RemainderOfTiles ==
  ASSUME NEW c \in Nat, c > 0, NEW a \in Nat
  PROVE  a % (16 * c) \in Nat /\ (a % (16 * c)) % 16 = a % 16
<1> DEFINE n == 16 * c
           q == a \div n
           r == a % n
<1>0. n \in Nat /\ n > 0
  OBVIOUS
<1>1. q \in Nat /\ r \in Nat /\ a = n * q + r
  BY <1>0, Division
<1> HIDE DEF q, r
<1>2. a = 16 * (c * q) + r /\ c * q \in Nat
  BY <1>1
<1>3. (16 * (c * q) + r) % 16 = r % 16
  BY <1>1, <1>2, DivisionOfSum
<1> QED
  BY <1>1, <1>2, <1>3 DEF r

\* Doubling the dots of a scroll makes its fine part twice as large, in
\* pixels, and leaves its tiles.
LEMMA ScrollOfPixel ==
  ASSUME NEW h \in Nat, NEW x \in Nat
  PROVE  /\ (h + 2 * x) % 16 = (h + 2 * (x % 8)) % 16
         /\ (h + 2 * x) \div 16 = x \div 8 + ((h + 2 * (x % 8)) \div 16)
<1> DEFINE k == x \div 8
           f == x % 8
<1>1. k \in Nat /\ f \in 0 .. 7 /\ x = 8 * k + f
  BY Division
<1> HIDE DEF k, f
<1>2. h + 2 * x = 16 * k + (h + 2 * f) /\ h + 2 * f \in Nat
  BY <1>1
<1>3. (16 * k + (h + 2 * f)) % 16 = (h + 2 * f) % 16
  BY <1>1, <1>2, DivisionOfSum
<1>4. (16 * k + (h + 2 * f)) \div 16 = k + ((h + 2 * f) \div 16)
  BY <1>1, <1>2, DivisionOfSum
<1> QED
  BY <1>2, <1>3, <1>4 DEF k, f

\* What wraps after 2c tiles: the pixel within the tile does not notice, the
\* tile does.
LEMMA WrappedPixel ==
  ASSUME NEW c \in Nat, c > 0, NEW m \in Nat
  PROVE  /\ (m % (32 * c)) % 16 = m % 16
         /\ (m % (32 * c)) \div 16 = (m \div 16) % (2 * c)
<1> DEFINE q == m \div 16
           r == m % 16
           i == q \div (2 * c)
           j == q % (2 * c)
<1>1. q \in Nat /\ r \in 0 .. 15 /\ m = 16 * q + r
  BY Division
<1>2. i \in Nat /\ j \in 0 .. 2 * c - 1 /\ q = (2 * c) * i + j
  <2>1. 2 * c \in Nat /\ 2 * c > 0
    OBVIOUS
  <2> QED
    BY <1>1, <2>1, Division
<1> HIDE DEF q, r, i, j
<1>3. 16 * j + r \in 0 .. 32 * c - 1
  BY <1>1, <1>2
<1>4. m = (32 * c) * i + (16 * j + r)
  <2>1. 16 * ((2 * c) * i) = (32 * c) * i
    BY <1>2
  <2> QED
    BY <1>1, <1>2, <2>1
<1>5. m % (32 * c) = 16 * j + r
  <2>1. 32 * c \in Nat /\ 32 * c > 0
    OBVIOUS
  <2> QED
    BY <1>2, <1>3, <1>4, <2>1, DivisionIsUnique
<1>6. (16 * j + r) \div 16 = j /\ (16 * j + r) % 16 = r
  BY <1>1, <1>2, DivisionIsUnique
<1> QED
  BY <1>5, <1>6 DEF q, r, j

\* The tile after next, over two tables side by side: which table it is in, and
\* which of its columns it is.
LEMMA WrappedTile ==
  ASSUME NEW c \in Nat, c > 0, NEW n \in Nat
  PROVE  LET m == ((n % (2 * c)) + 1) % (2 * c)
         IN  m % c = (n + 1) % c /\ (IF m >= c THEN 1 ELSE 0) = ((n + 1) \div c) % 2
<1> DEFINE m == ((n % (2 * c)) + 1) % (2 * c)
           q == (n + 1) \div c
           r == (n + 1) % c
           i == q \div 2
           b == q % 2
<1>0. 2 * c \in Nat /\ 2 * c > 0
  OBVIOUS
<1>1. q \in Nat /\ r \in 0 .. c - 1 /\ n + 1 = c * q + r
  BY Division
<1>2. i \in Nat /\ b \in 0 .. 1 /\ q = 2 * i + b
  BY <1>1, Division
<1>3. m = (n + 1) % (2 * c)
  <2> DEFINE j == n \div (2 * c)
             s == n % (2 * c)
  <2>1. j \in Nat /\ s \in Nat /\ n = (2 * c) * j + s
    BY <1>0, Division
  <2> HIDE DEF j, s
  <2>2. n + 1 = (2 * c) * j + (s + 1)
    BY <2>1
  <2>3. s + 1 \in Nat
    BY <2>1
  <2>4. ((2 * c) * j + (s + 1)) % (2 * c) = (s + 1) % (2 * c)
    BY <1>0, <2>1, <2>3, DivisionOfSum, Zenon
  <2> QED
    BY <2>2, <2>4 DEF s
<1> HIDE DEF m, q, r, i, b
<1>4. n + 1 = (2 * c) * i + (c * b + r)
  <2>1. c * q = (2 * c) * i + c * b
    BY <1>2
  <2> QED
    BY <1>1, <1>2, <2>1
<1>5. CASE b = 0
  <2>1. n + 1 = (2 * c) * i + r /\ r \in 0 .. 2 * c - 1
    BY <1>1, <1>2, <1>4, <1>5
  <2>2. m = r
    BY <1>0, <1>2, <1>3, <2>1, DivisionIsUnique
  <2>3. m % c = r /\ ~(m >= c)
    BY <1>1, <2>2
  <2> QED
    BY <1>5, <2>3 DEF m, q, r, b
<1>6. CASE b = 1
  <2>1. n + 1 = (2 * c) * i + (c + r) /\ c + r \in 0 .. 2 * c - 1
    BY <1>1, <1>2, <1>4, <1>6
  <2>2. m = c + r
    BY <1>0, <1>2, <1>3, <2>1, DivisionIsUnique
  <2>3. c + r = c * 1 + r
    OBVIOUS
  <2>4. (c * 1 + r) % c = r
    BY <1>1, DivisionIsUnique
  <2>5. m % c = r /\ m >= c
    BY <1>1, <2>2, <2>3, <2>4
  <2> QED
    BY <1>6, <2>5 DEF m, q, r, b
<1> QED
  BY <1>2, <1>5, <1>6

\* One table above the other: which one a row is in, and which of its rows.
LEMMA WrappedRow ==
  ASSUME NEW h \in Nat, h > 0, NEW n \in 0 .. 2 * h - 1
  PROVE  /\ n \div h = IF n >= h THEN 1 ELSE 0
         /\ n % h = IF n >= h THEN n - h ELSE n
<1>1. CASE n >= h
  <2>1. n - h \in 0 .. h - 1 /\ h * 1 + (n - h) = n
    BY <1>1
  <2> QED
    BY <1>1, <2>1, DivisionIsUnique
<1>2. CASE ~(n >= h)
  <2>1. n \in 0 .. h - 1 /\ h * 0 + n = n
    BY <1>2
  <2> QED
    BY <1>2, <2>1, DivisionIsUnique
<1> QED
  BY <1>1, <1>2

\* The code's count of pixels in front of the edge and beyond it: the table
\* and the tile it stands for, and the pixel within the tile.
LEMMA PixelInLine ==
  ASSUME NEW c \in Nat, c > 0, NEW h \in 0 .. 16 * c - 1, NEW x \in Nat
  PROVE  LET m == ((h % (16 * c)) + 2 * x) % (32 * c)
             n == h + 2 * (x % 8)
         IN  m % 16 = n % 16 /\ m \div 16 = (x \div 8 + (n \div 16)) % (2 * c)
<1>1. h % (16 * c) = h
  <2>1. (16 * c) * 0 + h = h /\ 16 * c \in Nat /\ 16 * c > 0
    OBVIOUS
  <2> QED
    BY <2>1, DivisionIsUnique
<1>2. h + 2 * x \in Nat
  OBVIOUS
<1>3. /\ ((h + 2 * x) % (32 * c)) % 16 = (h + 2 * x) % 16
      /\ ((h + 2 * x) % (32 * c)) \div 16 = ((h + 2 * x) \div 16) % (2 * c)
  BY <1>2, WrappedPixel
<1>4. /\ (h + 2 * x) % 16 = (h + 2 * (x % 8)) % 16
      /\ (h + 2 * x) \div 16 = x \div 8 + ((h + 2 * (x % 8)) \div 16)
  BY ScrollOfPixel
<1> QED
  BY <1>1, <1>3, <1>4

\* The code's count at pixel h with a scroll of x, c tiles to a line.
Count16(h, x, c) == ((h % (16 * c)) + 2 * x) % (32 * c)

\* s pixels after one that begins a tile.
LEMMA PixelAtEdge ==
  ASSUME NEW c \in Nat, c > 0, NEW h \in Nat, NEW s \in Nat, h % 16 = s % 16, NEW x \in Nat
  PROVE  Count16(h, x, c) % 16 = (s + 2 * (x % 8)) % 16
<1> DEFINE t == h % (16 * c)
           f == x % 8
<1>1. t \in Nat /\ t % 16 = s % 16 /\ f \in 0 .. 7
  <2>1. t \in Nat /\ t % 16 = h % 16
    BY RemainderOfTiles, Zenon
  <2> QED
    BY <2>1
<1> HIDE DEF t, f
<1>2. (t + 2 * f) % 16 = (s + 2 * f) % 16
  BY <1>1
<1>3. ((t + 2 * x) % (32 * c)) % 16 = (t + 2 * x) % 16
  <2>1. t + 2 * x \in Nat
    BY <1>1
  <2> QED
    BY <2>1, WrappedPixel
<1>4. (t + 2 * x) % 16 = (t + 2 * f) % 16
  BY <1>1, ScrollOfPixel DEF f
<1> QED
  BY <1>2, <1>3, <1>4 DEF t, f, Count16
-----------------------------------------------------------------------------
(* The raster. *)

\* The vertical pulse is two whole lines long: it starts with the second pixel
\* of the line above the one compared with, and ends with the first pixel of the
\* line two below (VGA_controller.sv:90-101).
VsyncTwoLines ==
  ~Fresh => (vs = 0 <=> \/ vc = VSyncFirst - 1 /\ hc > 0
                        \/ vc = VSyncFirst
                        \/ vc = VSyncFirst + 1 /\ hc = 0)

\* The pulses of every pixel but the first after reset.
RasterInv == TypeOK /\ HsyncAligned /\ VsyncTwoLines

\* The counters and both pulses keep their places on every pixel.
LEMMA RasterStep == ASSUME RasterInv, [Next]_vars PROVE RasterInv'
<1> USE SizesAssumption DEF RasterInv, TypeOK, Fresh, HsyncAligned, VsyncTwoLines
<1>1. CASE Clock
  <2>1. CASE hc = HPixels
    BY <1>1, <2>1 DEF Clock, Count, StepHsync, StepVsync
  <2>2. CASE hc # HPixels
    BY <1>1, <2>2 DEF Clock, Count, StepHsync, StepVsync
  <2> QED
    BY <2>1, <2>2
<1>2. CASE Reset
  BY <1>2 DEF Reset
<1>3. CASE UNCHANGED vars
  BY <1>3 DEF vars
<1> QED
  BY <1>1, <1>2, <1>3 DEF Next

\* The counters and both pulses keep their places on every pixel.
THEOREM Timing == Spec => []RasterInv
<1>1. Init => RasterInv
  BY SizesAssumption DEF Init, RasterInv, TypeOK, Fresh, HsyncAligned, VsyncTwoLines
<1>2. RasterInv /\ [Next]_vars => RasterInv'
  BY RasterStep
<1> QED
  BY <1>1, <1>2, PTL DEF Spec

\* The horizontal pulse is where the comment says, at every picture size.
THEOREM HsyncPlace == Spec => []HsyncAligned
<1>1. RasterInv => HsyncAligned
  BY DEF RasterInv
<1> QED
  BY <1>1, Timing, PTL

\* The vertical pulse is two lines long and a line too early: on the line before
\* VSyncFirst and on VSyncFirst, not on the two lines the comment names.
THEOREM VsyncPlace == Spec => []VsyncTwoLines
<1>1. RasterInv => VsyncTwoLines
  BY DEF RasterInv
<1> QED
  BY <1>1, Timing, PTL

\* No sync pulse falls on a visible pixel.
THEOREM PictureIsWhole == Spec => SyncsAreBlanked
<1>1. RasterInv /\ [Next]_vars => [Clock => (display' => hs' = 1 /\ vs' = 1)]_vars
  <2> SUFFICES ASSUME RasterInv, Clock, display' PROVE hs' = 1 /\ vs' = 1
    OBVIOUS
  <2>1. hc' < HVisible /\ vc' < VVisible
    BY DEF display
  <2>2. CASE hc = HPixels
    BY <2>1, <2>2, SizesAssumption DEF RasterInv, TypeOK, Clock, Count, StepHsync, StepVsync
  <2>3. CASE hc # HPixels
    BY <2>1, <2>3, SizesAssumption DEF RasterInv, TypeOK, Clock, Count, StepHsync, StepVsync
  <2> QED
    BY <2>2, <2>3
<1> QED
  BY <1>1, Timing, PTL DEF Spec, SyncsAreBlanked

\* The background adds variables to the raster, and takes nothing from it.
LEMMA BackgroundAddsOnly == BgSpec => Spec
<1>1. BgInit => Init
  BY DEF BgInit
<1>2. [BgNext]_bgVars => [Next]_vars
  BY DEF BgNext, Pixel, WriteScrollX, WriteScrollY, WriteControl, BgReset, bgVars, Next, vars
<1> QED
  BY <1>1, <1>2, PTL DEF BgSpec, Spec
-----------------------------------------------------------------------------
(* The registers. *)

BgTypeOK ==
  /\ TypeOK
  /\ scroll \in [x : 0 .. 8 * Columns - 1, y : Nat]
  /\ control \in [x : {0, 1}, y : {0, 1}, half : {0, 1}]
  /\ active_scrolly \in Nat /\ frameY \in Nat /\ steady \in BOOLEAN
  /\ next = [pat1 |-> next.pat1, pat2 |-> next.pat2, attr |-> next.attr]

\* The first pixel at which the first tile of the next line is fetched.
Edge == HPixels - 31

\* The scroll in use is the frame's; while the first line of a frame begins to
\* be fetched it is the register's.
ScrollInv ==
  /\ vc # VLines \/ hc # 0 => active_scrolly = frameY
  /\ vc = VLines /\ hc >= Edge /\ steady => frameY = scroll.y

\* The sizes, one by one.
LEMMA Sizes ==
  /\ Columns \in Nat /\ Columns > 1 /\ TileHeight \in Nat /\ TileHeight > 0
  /\ Height \in Nat /\ Height > 0 /\ VVisible = 2 * Height
  /\ HPixels \in Nat /\ VLines \in Nat /\ VVisible \in Nat /\ VVisible + 1 < VLines
  /\ Edge \in Nat /\ Edge > 16 * Columns /\ Edge % 16 = 0
<1>1. TileHeight \in Nat /\ TileHeight > 0 /\ TileRows \in Nat /\ TileRows > 0
  BY SizesFit
<1>2. Height \in Nat
  BY <1>1 DEF Height
<1>3. VVisible = 2 * Height
  <2>1. 2 * TileHeight * TileRows = 2 * (TileHeight * TileRows)
    BY <1>1
  <2> QED
    BY <2>1, SizesFit DEF Height
<1>4. Columns \in Nat /\ Columns > 1 /\ HPixels >= 16 * Columns + 32
  BY SizesFit
<1>5. Edge \in Nat /\ Edge > 16 * Columns
  BY <1>4, SizesAssumption DEF Edge
<1>6. Edge % 16 = 0
  <2>1. Columns \in Nat /\ Columns > 0
    BY <1>4
  <2>2. (Edge % (16 * Columns)) % 16 = Edge % 16
    BY <1>5, <2>1, RemainderOfTiles
  <2> QED
    BY <2>2, SizesFit DEF Edge
<1> QED
  BY <1>1, <1>2, <1>3, <1>4, <1>5, <1>6, SizesAssumption

\* Every register keeps to its values.
LEMMA TypeStep == ASSUME BgTypeOK, TypeOK', BgNext PROVE BgTypeOK'
<1>1. CASE Pixel
  <2>1. frameY' \in Nat /\ active_scrolly' \in Nat /\ steady' \in BOOLEAN
    BY <1>1 DEF Pixel, TakeScroll, BgTypeOK
  <2>2. next' = [pat1 |-> next'.pat1, pat2 |-> next'.pat2, attr |-> next'.attr]
    BY <1>1 DEF Pixel, LatchNext
  <2> QED
    BY <1>1, <2>1, <2>2 DEF Pixel, regs, BgTypeOK
<1>2. CASE WriteScrollX
  BY <1>2, WritesFit DEF WriteScrollX, latches, BgTypeOK
<1>3. CASE WriteScrollY
  BY <1>3, WritesFit DEF WriteScrollY, latches, BgTypeOK
<1>4. CASE WriteControl
  BY <1>4, WritesFit DEF WriteControl, latches, BgTypeOK
<1>5. CASE BgReset
  <2>1. 0 \in 0 .. 8 * Columns - 1 /\ 0 \in Nat
    BY Sizes
  <2>2. next' = [pat1 |-> next'.pat1, pat2 |-> next'.pat2, attr |-> next'.attr]
    BY <1>5 DEF BgReset, NoTile
  <2> QED
    BY <1>5, <2>1, <2>2 DEF BgReset, BgTypeOK
<1> QED
  BY <1>1, <1>2, <1>3, <1>4, <1>5 DEF BgNext

\* The vertical scroll changes between frames, and not while a line is drawn.
LEMMA ScrollStep == ASSUME BgTypeOK, ScrollInv, BgNext PROVE ScrollInv'
<1> USE Sizes DEF ScrollInv, BgTypeOK, TypeOK, latches, vars
<1>1. CASE Pixel
  <2>1. UNCHANGED scroll /\ Count
    BY <1>1 DEF Pixel, regs, Clock
  <2>2. frameY' = (IF vc = VLines THEN scroll.y ELSE frameY)
    BY <1>1 DEF Pixel
  <2>3. active_scrolly' = IF vc = VLines \/ vc' = VLines THEN scroll.y ELSE active_scrolly
    BY <1>1 DEF Pixel, TakeScroll
  <2>4. CASE hc = HPixels
    BY <2>1, <2>2, <2>3, <2>4 DEF Count, Edge
  <2>5. CASE hc # HPixels
    BY <2>1, <2>2, <2>3, <2>5 DEF Count, Edge
  <2> QED
    BY <2>4, <2>5
<1>2. CASE WriteScrollX
  BY <1>2 DEF WriteScrollX
<1>3. CASE WriteScrollY
  BY <1>3 DEF WriteScrollY
<1>4. CASE WriteControl
  BY <1>4 DEF WriteControl
<1>5. CASE BgReset
  BY <1>5 DEF BgReset, Reset
<1> QED
  BY <1>1, <1>2, <1>3, <1>4, <1>5 DEF BgNext
-----------------------------------------------------------------------------
(* One fetch.                                                              *)

\* What phase p of the fetch of the tile in place t, row d, finds done: the
\* memories are asked in the even phases, and what they answer is kept from
\* the odd ones on.
Done(p, t, d) ==
  /\ p = 1 => asked.nmt = NameOf(t, d)
  /\ p >= 2 => nt = ByteOf(t, d, NameOf(t, d))
  /\ p = 3 => asked.nmt = AttrOf(t, d)
  /\ p >= 4 => next.attr = ByteOf(t, d, AttrOf(t, d))
  /\ p = 5 => asked.pat = PlaneOf(t, d, 1)
  /\ p >= 6 => next.pat1 = PlaneOf(t, d, 1)
  /\ p = 7 => asked.pat = PlaneOf(t, d, 2)
  /\ p >= 8 => next.pat2 = PlaneOf(t, d, 2)

\* The addresses are those of this tile.
Aimed(t, d) ==
  /\ nt_addr = NameOf(t, d) /\ attr_addr = AttrOf(t, d)
  /\ nt_data = ByteOf(t, d, asked.nmt)
  /\ ndry % TileHeight = (d % Height) % TileHeight

\* A fetch finds nothing done before its first phase.
LEMMA NothingDone == ASSUME NEW t, NEW d PROVE Done(0, t, d)
  BY DEF Done

\* With the registers untouched, what belongs in a place stays.
LEMMA TileStays ==
  ASSUME UNCHANGED regs, NEW t, NEW d
  PROVE  /\ NameOf(t, d)' = NameOf(t, d) /\ AttrOf(t, d)' = AttrOf(t, d)
         /\ ByteOf(t, d, NameOf(t, d))' = ByteOf(t, d, NameOf(t, d))
         /\ ByteOf(t, d, AttrOf(t, d))' = ByteOf(t, d, AttrOf(t, d))
         /\ PlaneOf(t, d, 1)' = PlaneOf(t, d, 1) /\ PlaneOf(t, d, 2)' = PlaneOf(t, d, 2)
         /\ TileAt(t, d)' = TileAt(t, d)
<1> USE DEF regs, NameOf, AttrOf, ByteOf, Chip, Xor
<1>1. /\ NameOf(t, d)' = NameOf(t, d) /\ AttrOf(t, d)' = AttrOf(t, d)
      /\ ByteOf(t, d, NameOf(t, d))' = ByteOf(t, d, NameOf(t, d))
      /\ ByteOf(t, d, AttrOf(t, d))' = ByteOf(t, d, AttrOf(t, d))
  OBVIOUS
<1>2. PlaneOf(t, d, 1)' = PlaneOf(t, d, 1) /\ PlaneOf(t, d, 2)' = PlaneOf(t, d, 2)
  BY DEF PlaneOf
<1> HIDE DEF NameOf, AttrOf, ByteOf, Chip, Xor
<1> QED
  BY <1>1, <1>2 DEF TileAt

\* A pixel takes a fetch one phase further; after the last phase the tile is
\* shown.  What comes after the eighth phase needs no address.
LEMMA FetchStep ==
  ASSUME Ask, LatchNext, ShowNext, UNCHANGED regs, Fetching,
         next = [pat1 |-> next.pat1, pat2 |-> next.pat2, attr |-> next.attr],
         NEW p \in 0 .. 15, phase = p, NEW t, NEW d, p < 8 => Aimed(t, d), Done(p, t, d)
  PROVE  /\ p < 15 => Done(p + 1, t, d)' /\ shown' = shown
         /\ p = 15 => shown' = TileAt(t, d)
<1> DEFINE N == NameOf(t, d)
           A == AttrOf(t, d)
           NB == ByteOf(t, d, NameOf(t, d))
           AB == ByteOf(t, d, AttrOf(t, d))
           P1 == PlaneOf(t, d, 1)
           P2 == PlaneOf(t, d, 2)
<1>1. N' = N /\ A' = A /\ NB' = NB /\ AB' = AB /\ P1' = P1 /\ P2' = P2
  BY TileStays
<1>2. /\ p = 0 => asked'.nmt = N
      /\ p \in {1, 2} => nt' = IF p = 1 THEN ByteOf(t, d, asked.nmt) ELSE nt
      /\ p >= 2 => nt' = nt
      /\ p = 2 => asked'.nmt = A
      /\ p = 3 => next'.attr = ByteOf(t, d, asked.nmt)
      /\ p >= 4 => next'.attr = next.attr
      /\ p = 4 => asked'.pat = PatternAddr(1)
      /\ p = 5 => next'.pat1 = asked.pat
      /\ p >= 6 => next'.pat1 = next.pat1
      /\ p = 6 => asked'.pat = PatternAddr(2)
      /\ p = 7 => next'.pat2 = asked.pat
      /\ p >= 8 => next'.pat2 = next.pat2
  <2> HIDE DEF N, A
  <2> HIDE DEF NB, AB, P1, P2
  <2>1. nt_en = (p \in {0, 1}) /\ alt_attr_en = (p \in {2, 3})
    BY DEF nt_en, alt_attr_en
  <2>2. altpat1_en = (p \in {4, 5}) /\ altpat2_en = (p \in {6, 7})
    BY DEF altpat1_en, altpat2_en
  <2>3. p < 8 => nt_addr = N /\ attr_addr = A /\ nt_data = ByteOf(t, d, asked.nmt)
    BY DEF Aimed, N, A
  <2> HIDE DEF nt_en, alt_attr_en, altpat1_en, altpat2_en, nt_addr, attr_addr, nt_data
  <2>4. /\ asked'.nmt = CASE nt_en -> nt_addr [] alt_attr_en -> attr_addr [] OTHER -> Nothing
        /\ asked'.pat = CASE altpat1_en -> PatternAddr(1) [] altpat2_en -> PatternAddr(2)
                          [] OTHER -> Nothing
    BY DEF Ask
  <2>5. /\ nt' = IF nt_en THEN nt_data ELSE nt
        /\ next'.pat1 = IF altpat1_en THEN asked.pat ELSE next.pat1
        /\ next'.pat2 = IF altpat2_en THEN asked.pat ELSE next.pat2
        /\ next'.attr = IF alt_attr_en THEN nt_data ELSE next.attr
    BY DEF LatchNext
  <2>6. /\ p \in {0, 1} <=> nt_en
        /\ p \in {2, 3} <=> alt_attr_en
        /\ p \in {4, 5} <=> altpat1_en
        /\ p \in {6, 7} <=> altpat2_en
    BY <2>1, <2>2
  <2>7. p \in {0, 2} => asked'.nmt = IF p = 0 THEN N ELSE A
    BY <2>3, <2>4, <2>6
  <2>8. p \in {4, 6} => asked'.pat = IF p = 4 THEN PatternAddr(1) ELSE PatternAddr(2)
    BY <2>4, <2>6
  <2>9. p \in {1, 3} => nt_data = ByteOf(t, d, asked.nmt)
    BY <2>3
  <2> QED
    BY <2>5, <2>6, <2>7, <2>8, <2>9
<1>3. p \in {4, 6} /\ Done(p, t, d) => PatternAddr(1) = P1 /\ PatternAddr(2) = P2
  <2>1. p \in {4, 6} => nt = NB
    BY DEF Done
  <2>2. p \in {4, 6} => ndry % TileHeight = (d % Height) % TileHeight
    BY DEF Aimed
  <2> HIDE DEF NB
  <2> QED
    BY <2>1, <2>2 DEF PatternAddr, PlaneOf, NB
<1>4. p < 15 => Done(p + 1, t, d)'
  <2>1. /\ p = 1 => asked.nmt = N
        /\ p >= 2 => nt = NB
        /\ p = 3 => asked.nmt = A
        /\ p >= 4 => next.attr = AB
        /\ p = 5 => asked.pat = P1
        /\ p >= 6 => next.pat1 = P1
        /\ p = 7 => asked.pat = P2
        /\ p >= 8 => next.pat2 = P2
    BY DEF Done
  <2>2. p = 1 => nt' = NB
    BY <1>2, <2>1
  <2>3. p = 3 => next'.attr = AB
    BY <1>2, <2>1
  <2>4. p = 4 => asked'.pat = P1
    BY <1>2, <1>3
  <2>5. p = 6 => asked'.pat = P2
    BY <1>2, <1>3
  <2> SUFFICES ASSUME p < 15
               PROVE  /\ p + 1 = 1 => asked'.nmt = N'
                      /\ p + 1 >= 2 => nt' = NB'
                      /\ p + 1 = 3 => asked'.nmt = A'
                      /\ p + 1 >= 4 => next'.attr = AB'
                      /\ p + 1 = 5 => asked'.pat = P1'
                      /\ p + 1 >= 6 => next'.pat1 = P1'
                      /\ p + 1 = 7 => asked'.pat = P2'
                      /\ p + 1 >= 8 => next'.pat2 = P2'
    BY DEF Done
  <2> HIDE DEF N, A, NB, AB, P1, P2
  <2> QED
    BY <1>1, <1>2, <2>1, <2>2, <2>3, <2>4, <2>5
<1>5. p = 15 => shown' = TileAt(t, d)
  BY DEF ShowNext, Done, TileAt
<1>6. p < 15 => shown' = shown
  BY DEF ShowNext
<1> QED
  BY <1>4, <1>5, <1>6
-----------------------------------------------------------------------------
(* Where a fetch is aimed.                                                 *)

\* Pixels from the last tile's edge before the first tile of the next line is
\* begun; that tile is fetched whole in places 16 to 31.
place == (hc - Edge) + 2 * fine

\* The row of dots the next line shows.
nextDots == IF vc = VLines THEN frameY ELSE (vc + 1) \div 2 + frameY

\* The next line is one the code fetches the first tile of as it should.
nextIsDrawn == vc = VLines \/ (vc < VVisible - 1 /\ frameY = 0)

\* In a line the phase is the pixel's place in its tile.
LEMMA PhaseInLine ==
  ASSUME BgTypeOK, hc < 16 * Columns
  PROVE  phase = (hc + 2 * fine) % 16 /\ transl_coord \div 16 = (scroll.x \div 8 + tile) % (2 * Columns)
<1>1. Columns \in Nat /\ Columns > 0 /\ hc \in 0 .. 16 * Columns - 1 /\ scroll.x \in Nat
  BY Sizes DEF BgTypeOK, TypeOK
<1> QED
  BY <1>1, PixelInLine DEF phase, transl_coord, tile, fine

\* At the edge it goes on from the beginning of a tile.
LEMMA PhaseAtEdge ==
  ASSUME BgTypeOK, hc >= Edge
  PROVE  phase = place % 16
<1>1. Columns \in Nat /\ Columns > 0 /\ Edge \in Nat /\ Edge % 16 = 0
      /\ hc - Edge \in Nat /\ scroll.x \in Nat /\ hc = Edge + (hc - Edge)
  BY Sizes DEF BgTypeOK, TypeOK
<1>2. PICK h \in Nat, s \in Nat, x \in Nat : h = hc /\ s = hc - Edge /\ x = scroll.x
  BY <1>1
<1>3. h % 16 = s % 16
  BY <1>1, <1>2
<1>4. Count16(h, x, Columns) % 16 = (s + 2 * (x % 8)) % 16
  <2>1. Columns \in Nat /\ Columns > 0
    BY <1>1
  <2> QED
    <3>1. ASSUME NEW c \in Nat, c > 0 PROVE Count16(h, x, c) % 16 = (s + 2 * (x % 8)) % 16
      BY <1>3, <3>1, PixelAtEdge
    <3> QED
      BY <2>1, <3>1
<1> QED
  BY <1>1, <1>2, <1>4 DEF phase, transl_coord, Count16, place, fine

\* A name table is found by its number's last bit.
LEMMA XorOfBit == ASSUME NEW a \in {0, 1}, NEW n \in Nat PROVE Xor(a, n % 2) = Xor(a, n)
  BY DEF Xor

\* Before the last tile of a line the fetch is for the next place.
LEMMA AimedInLine ==
  ASSUME BgTypeOK, ScrollInv, hc < 16 * Columns, vc < VVisible, frameY < Height,
         hc \div 16 < Columns - 1
  PROVE  Aimed(tile + 1, dots)
<1>1. ~NextLineIsDue
  BY Sizes DEF NextLineIsDue, BgTypeOK, TypeOK
<1>2. Row = dots
  BY <1>1, Sizes DEF Row, dots, ScrollInv
<1>3. PICK d \in 0 .. 2 * Height - 1 : d = dots
  BY Sizes DEF dots, BgTypeOK, TypeOK
<1>4. PICK n \in Nat : n = scroll.x \div 8 + tile
  <2>1. scroll.x \in Nat /\ hc \in Nat
    BY Sizes DEF BgTypeOK, TypeOK
  <2> QED
    BY <2>1 DEF tile, fine
<1>5. n + 1 = scroll.x \div 8 + (tile + 1)
  <2>1. scroll.x \in Nat /\ hc \in Nat
    BY Sizes DEF BgTypeOK, TypeOK
  <2>2. scroll.x \div 8 \in Nat /\ tile \in Nat
    BY <2>1 DEF tile, fine
  <2> QED
    BY <1>4, <2>2
<1>6. Column = ((n % (2 * Columns)) + 1) % (2 * Columns)
  BY <1>1, <1>4, PhaseInLine DEF Column
<1>7. ndrx = (n + 1) % Columns /\ ovr_x = ((n + 1) \div Columns) % 2
  <2>1. Columns \in Nat /\ Columns > 0
    BY Sizes
  <2>2. LET m == ((n % (2 * Columns)) + 1) % (2 * Columns)
        IN  /\ m % Columns = (n + 1) % Columns
            /\ (IF m >= Columns THEN 1 ELSE 0) = ((n + 1) \div Columns) % 2
    BY <2>1, WrappedTile
  <2> QED
    BY <1>6, <2>2, Zenon DEF ndrx, ovr_x
<1>8. ovr_y = d \div Height /\ ndry = d % Height
  <2>1. /\ d \div Height = IF d >= Height THEN 1 ELSE 0
        /\ d % Height = IF d >= Height THEN d - Height ELSE d
    BY Sizes, WrappedRow
  <2> QED
    BY <1>1, <1>2, <1>3, <2>1 DEF ovr_y, ndry
<1>9. Xor(control.x, ovr_x) = Xor(control.x, (n + 1) \div Columns)
  <2>1. (n + 1) \div Columns \in Nat /\ control.x \in {0, 1}
    <3>1. Columns \in Nat /\ Columns > 0 /\ n + 1 \in Nat
      BY Sizes
    <3>2. (n + 1) \div Columns \in Nat
      BY <3>1, Division
    <3> QED
      BY <3>2 DEF BgTypeOK
  <2> QED
    BY <1>7, <2>1, XorOfBit
<1> QED
  BY <1>3, <1>5, <1>7, <1>8, <1>9
  DEF Aimed, nt_addr, attr_addr, nt_data, NameOf, AttrOf, ByteOf

\* At the edge it is for the first place of the next line.
LEMMA AimedAtEdge ==
  ASSUME BgTypeOK, ScrollInv, hc >= Edge, nextIsDrawn, frameY < Height
  PROVE  Aimed(0, nextDots)
<1>1. NextLineIsDue
  <2>1. hc \in Nat /\ hc >= 16 * Columns
    BY Sizes DEF BgTypeOK, TypeOK
  <2> QED
    BY <2>1, Sizes DEF NextLineIsDue
<1>2. active_scrolly = frameY
  BY Sizes DEF ScrollInv, BgTypeOK, TypeOK
<1>3. PICK d \in 0 .. Height - 1 : d = nextDots
  BY Sizes DEF nextDots, nextIsDrawn, BgTypeOK, TypeOK
<1>4. Row = d /\ ovr_y = 0
  <2>1. CASE vc = VLines
    BY <1>1, <1>2, <1>3, <2>1, Sizes DEF Row, ovr_y, nextDots
  <2>2. CASE vc # VLines
    <3>1. vc < VVisible - 1 /\ frameY = 0 /\ vc \in Nat
      BY <2>2 DEF nextIsDrawn, BgTypeOK, TypeOK
    <3>2. 2 ^ (1 + active_scrolly) = 2
      <4>1. 1 + active_scrolly = 1
        BY <1>2, <3>1
      <4>2. 2 ^ 1 = 2
        BY SMT
      <4> QED
        BY <4>1, <4>2, Zenon
    <3>3. ~(vc >= VVisible - 1)
      BY <3>1, Sizes
    <3>4. Row = (vc + 1) \div 2
      BY <1>1, <3>2, <3>3 DEF Row
    <3>5. d = (vc + 1) \div 2
      BY <1>3, <2>2, <3>1 DEF nextDots
    <3> QED
      BY <3>3, <3>4, <3>5, Sizes DEF ovr_y
  <2> QED
    BY <2>1, <2>2
<1>5. ndry = d /\ d % Height = d /\ d \div Height = 0
  <2>1. d \in 0 .. 2 * Height - 1
    BY Sizes
  <2> QED
    BY <1>4, <2>1, Sizes, WrappedRow DEF ndry
<1>6. PICK k \in 0 .. Columns - 1 : k = scroll.x \div 8
  <2>1. scroll.x \in 0 .. 8 * Columns - 1
    BY DEF BgTypeOK
  <2> QED
    BY <2>1, Sizes
<1>7. k % Columns = k /\ k \div Columns = 0
  <2>1. k \in 0 .. 2 * Columns - 1
    BY Sizes
  <2> QED
    BY <2>1, Sizes, WrappedRow
<1>8. ndrx = k /\ ovr_x = 0
  BY <1>1, <1>6, <1>7, Sizes DEF ndrx, ovr_x, Column
<1>9. scroll.x \div 8 + 0 = k
  BY <1>6
<1> QED
  BY <1>3, <1>4, <1>5, <1>7, <1>8, <1>9
  DEF Aimed, nt_addr, attr_addr, nt_data, NameOf, AttrOf, ByteOf
-----------------------------------------------------------------------------
(* The invariant.                                                          *)

\* At the edge the first tile of the next line is fetched, if there is one, in
\* the last whole tile's time, and shown from then on.
EdgeInv ==
  steady /\ frameY < Height /\ hc >= Edge /\ nextIsDrawn =>
    /\ place \in 16 .. 31 => Done(place - 16, 0, nextDots)
    /\ place >= 32 => shown = TileAt(0, nextDots)

\* In a line there is time to fetch the tile after this one.
inTime == /\ tile > 0 \/ fine = 0
          /\ tile + 1 < Columns \/ (tile + 1 = Columns /\ fine >= 4)

\* In a line the tile shown is right, and the next one is being fetched.
LineInv ==
  steady /\ frameY < Height /\ hc < 16 * Columns /\ vc < VVisible =>
    /\ Fetchable => shown = TileAt(tile, dots)
    /\ inTime => Done((hc + 2 * fine) % 16, tile + 1, dots)

IInv == BgTypeOK /\ ScrollInv /\ EdgeInv /\ LineInv

\* From one pixel to the next.
LEMMA NextPixel ==
  ASSUME NEW n \in Nat
  PROVE  /\ n % 16 < 15 => (n + 1) % 16 = (n % 16) + 1 /\ (n + 1) \div 16 = n \div 16
         /\ n % 16 = 15 => (n + 1) % 16 = 0 /\ (n + 1) \div 16 = (n \div 16) + 1
  OBVIOUS

\* The parts of a pixel's step.
LEMMA PixelStep ==
  ASSUME BgTypeOK, Pixel
  PROVE  /\ Ask /\ LatchNext /\ ShowNext /\ UNCHANGED regs /\ fine' = fine
         /\ next = [pat1 |-> next.pat1, pat2 |-> next.pat2, attr |-> next.attr]
         /\ hc = HPixels => hc' = 0 /\ vc' = IF vc = VLines THEN 0 ELSE vc + 1
         /\ hc # HPixels => hc' = hc + 1 /\ vc' = vc
         /\ frameY' = (IF vc = VLines THEN scroll.y ELSE frameY)
         /\ steady' /\ hc # Edge - 1 => steady
<1>1. hc = HPixels - 32 <=> hc = Edge - 1
  BY Sizes DEF Edge
<1> QED
  BY <1>1 DEF Pixel, Clock, Count, regs, fine, BgTypeOK

\* Along the edge.
LEMMA PixelEdge == ASSUME IInv, Pixel PROVE EdgeInv'
<1> SUFFICES ASSUME steady', frameY' < Height, hc' >= Edge, nextIsDrawn'
             PROVE  /\ place' \in 16 .. 31 => Done(place - 16, 0, nextDots)'
                    /\ place' >= 32 => shown' = TileAt(0, nextDots)'
  BY DEF EdgeInv
<1>1. BgTypeOK /\ ScrollInv /\ EdgeInv
  BY DEF IInv
<1>2. /\ hc # HPixels /\ hc' = hc + 1 /\ vc' = vc /\ hc >= Edge - 1
  <2>1. hc # HPixels
    BY <1>1, PixelStep, Sizes
  <2>2. hc \in Nat
    BY <1>1 DEF BgTypeOK, TypeOK
  <2> QED
    BY <1>1, <2>1, <2>2, PixelStep, Sizes
<1>3. PICK h \in Nat, f \in 0 .. 7 : h = hc /\ f = fine /\ f = fine'
  <2>1. hc \in Nat /\ scroll.x \in Nat
    BY <1>1, Sizes DEF BgTypeOK, TypeOK
  <2>2. fine \in 0 .. 7
    BY <2>1 DEF fine
  <2> QED
    BY <1>1, <2>1, <2>2, PixelStep
<1>4. place' = ((h + 1) - Edge) + 2 * f
  BY <1>2, <1>3 DEF place, Edge
<1>5. CASE hc = Edge - 1
  <2>1. PICK q \in 0 .. 14 : q = ((h + 1) - Edge) + 2 * f
    <3>1. Edge \in Nat /\ h = Edge - 1
      BY <1>3, <1>5, Sizes
    <3>2. ((h + 1) - Edge) + 2 * f \in 0 .. 14
      BY <3>1
    <3> QED
      BY <3>2
  <2>2. ~(q \in 16 .. 31) /\ ~(q >= 32)
    OBVIOUS
  <2>3. place' = q
    BY <1>4, <2>1, Zenon
  <2> QED
    BY <2>2, <2>3, Zenon
<1>6. CASE hc >= Edge
  <2>1. steady /\ frameY' = frameY /\ nextIsDrawn
    <3>1. steady
      <4>1. hc # Edge - 1
        BY <1>3, <1>6, Sizes
      <4> QED
        BY <1>1, <4>1, PixelStep
    <3>2. vc = VLines => frameY = scroll.y
      BY <1>1, <1>6, <3>1 DEF ScrollInv
    <3>3. frameY' = frameY
      BY <1>1, <3>2, PixelStep
    <3> QED
      BY <1>2, <3>1, <3>3 DEF nextIsDrawn
  <2>2. PICK d : d = nextDots /\ d = nextDots'
    BY <1>2, <2>1 DEF nextDots
  <2>3. PICK q \in Nat : q = place /\ q = (h - Edge) + 2 * f /\ place' = q + 1
    <3>1. PICK q \in Nat : q = (h - Edge) + 2 * f
      <4>1. Edge \in Nat /\ h >= Edge
        BY <1>3, <1>6, Sizes
      <4>2. (h - Edge) + 2 * f \in Nat
        BY <4>1
      <4> QED
        BY <4>2
    <3>2. ((h + 1) - Edge) + 2 * f = q + 1
      BY <3>1, Sizes
    <3>3. place = q
      BY <1>3, <3>1 DEF place
    <3>4. place' = q + 1
      BY <1>4, <3>2, Zenon
    <3> QED
      BY <3>1, <3>3, <3>4, Zenon
  <2>4. TileAt(0, d)' = TileAt(0, d)
    BY <1>1, PixelStep, TileStays
  <2>5. phase = q % 16
    BY <1>1, <1>6, <2>3, PhaseAtEdge
  <2>6. Fetching
    <3>1. vc < VVisible \/ vc = VLines
      BY <1>1, <2>1, Sizes DEF nextIsDrawn, BgTypeOK, TypeOK
    <3> QED
      BY <1>6, <3>1, Zenon DEF Fetching, Edge
  <2>7. frameY < Height
    BY <2>1
  <2>8. CASE q < 15
    BY <2>3, <2>8
  <2>9. CASE q = 15
    <3>1. Done(0, 0, d)'
      BY DEF Done
    <3> QED
      BY <2>2, <2>3, <2>9, <3>1
  <2>10. CASE q \in 16 .. 31
    <3>1. PICK p \in 0 .. 15 : p = q - 16 /\ phase = p
      BY <2>5, <2>10
    <3>2. Done(p, 0, d)
      BY <1>1, <1>6, <2>1, <2>2, <2>3, <2>7, <2>10, <3>1 DEF EdgeInv
    <3>3. Aimed(0, d)
      BY <1>1, <1>6, <2>1, <2>2, <2>7, AimedAtEdge
    <3>4. p < 15 => Done(p + 1, 0, d)'
      BY <1>1, <2>6, <3>1, <3>2, <3>3, PixelStep, FetchStep
    <3>5. p = 15 => shown' = TileAt(0, d)
      BY <1>1, <2>6, <3>1, <3>2, <3>3, PixelStep, FetchStep
    <3>6. CASE p < 15
      <4>1. (q + 1) - 16 = p + 1
        BY <3>1
      <4>2. place' - 16 = p + 1 /\ ~(place' >= 32)
        BY <2>3, <3>1, <3>6, <4>1
      <4>3. Done(place - 16, 0, nextDots)'
        BY <2>2, <3>4, <3>6, <4>2, Zenon DEF Done
      <4> QED
        BY <4>2, <4>3
    <3>7. CASE p = 15
      <4>1. ~(place' \in 16 .. 31)
        BY <2>3, <3>1, <3>7
      <4>2. shown' = TileAt(0, nextDots)'
        BY <2>2, <2>4, <3>5, <3>7
      <4> QED
        BY <4>1, <4>2
    <3> QED
      BY <3>1, <3>6, <3>7
  <2>11. CASE q >= 32
    <3>1. shown = TileAt(0, d)
      BY <1>1, <1>6, <2>1, <2>2, <2>3, <2>7, <2>11 DEF EdgeInv
    <3>2. q < 47
      <4>1. hc <= HPixels /\ Edge = HPixels - 31 /\ HPixels \in Nat
        BY <1>1, Sizes DEF Edge, BgTypeOK, TypeOK
      <4>2. h <= HPixels
        BY <1>3, <4>1
      <4>3. q = (h - Edge) + 2 * f
        BY <2>3
      <4> QED
        BY <4>1, <4>2, <4>3
    <3>3. phase # 15
      BY <2>5, <2>11, <3>2
    <3>4. shown' = shown
      BY <1>1, <3>3, PixelStep DEF ShowNext
    <3>5. ~(place' \in 16 .. 31)
      BY <2>3, <2>11
    <3>6. shown' = TileAt(0, nextDots)'
      BY <2>2, <2>4, <3>1, <3>4
    <3> QED
      BY <3>5, <3>6
  <2> QED
    BY <2>3, <2>8, <2>9, <2>10, <2>11
<1> QED
  BY <1>2, <1>3, <1>5, <1>6, Sizes

\* While there is time, every phase that asks is aimed right.
LEMMA AimedInTime ==
  ASSUME BgTypeOK, ScrollInv, hc < 16 * Columns, vc < VVisible, frameY < Height,
         inTime, (hc + 2 * fine) % 16 < 8
  PROVE  Aimed(tile + 1, dots)
<1>1. PICK h \in Nat, f \in 0 .. 7 : h = hc /\ f = fine
  <2>1. hc \in Nat /\ scroll.x \in Nat
    BY Sizes DEF BgTypeOK, TypeOK
  <2> QED
    <3>1. \A x \in Nat : x % 8 \in 0 .. 7
      OBVIOUS
    <3> QED
      BY <2>1, <3>1, Zenon DEF fine
<1>2. PICK t \in Nat, p \in 0 .. 15 : t = tile /\ p = (h + 2 * f) % 16 /\ h + 2 * f = 16 * t + p
  BY <1>1 DEF tile
<1>3. p < 8
  BY <1>1, <1>2
<1>4. t + 1 < Columns \/ (t + 1 = Columns /\ f >= 4)
  BY <1>1, <1>2 DEF inTime
<1>5. h \div 16 < Columns - 1
  BY <1>2, <1>3, <1>4, Sizes
<1> QED
  BY <1>1, <1>5, AimedInLine

\* At the end of a line the next one begins with the tile fetched at the edge.
LEMMA PixelNewLine ==
  ASSUME IInv, Pixel, hc = HPixels, steady', frameY' < Height, vc' < VVisible
  PROVE  /\ Fetchable' => shown' = TileAt(tile, dots)'
         /\ inTime' => Done((hc + 2 * fine) % 16, tile + 1, dots)'
<1>1. BgTypeOK /\ ScrollInv /\ EdgeInv
  BY DEF IInv
<1>2. hc >= Edge /\ hc # Edge - 1 /\ HPixels = Edge + 31
  BY <1>1, Sizes DEF Edge, BgTypeOK, TypeOK
<1>3. hc' = 0 /\ vc' = (IF vc = VLines THEN 0 ELSE vc + 1)
  BY <1>1, PixelStep
<1>4. steady /\ frameY' = frameY
  <2>1. steady
    BY <1>1, <1>2, PixelStep
  <2>2. vc = VLines => frameY = scroll.y
    BY <1>1, <1>2, <2>1 DEF ScrollInv
  <2> QED
    BY <1>1, <2>1, <2>2, PixelStep
<1>5. PICK f \in 0 .. 7 : f = fine /\ f = fine'
  <2>1. scroll.x \in Nat
    BY <1>1, Sizes DEF BgTypeOK
  <2>2. fine \in 0 .. 7
    BY <2>1 DEF fine
  <2> QED
    BY <1>1, <2>2, PixelStep
<1>6. tile' = 0 /\ (hc' + 2 * fine') % 16 = (2 * f) % 16
  <2>1. (0 + 2 * f) \div 16 = 0 /\ (0 + 2 * f) % 16 = (2 * f) % 16
    OBVIOUS
  <2> QED
    BY <1>3, <1>5, <2>1 DEF tile
<1>7. dots' = nextDots
  <2>1. 0 \div 2 + frameY = frameY
    BY <1>1 DEF BgTypeOK
  <2>2. CASE vc = VLines
    BY <1>3, <1>4, <2>1, <2>2, Zenon DEF dots, nextDots
  <2>3. CASE vc # VLines
    BY <1>3, <1>4, <2>3, Zenon DEF dots, nextDots
  <2> QED
    BY <2>2, <2>3
<1>8. PICK d : d = nextDots
  OBVIOUS
<1>9. ASSUME Fetchable' PROVE shown' = TileAt(tile, dots)'
  <2>1. nextIsDrawn
    <3>1. PICK v \in Nat : v = vc
      BY <1>1, Sizes DEF BgTypeOK, TypeOK
    <3>2. frameY' = 0 \/ vc' = 0
      BY <1>6, <1>9, Sizes DEF Fetchable
    <3>3. CASE vc = VLines
      BY <3>3 DEF nextIsDrawn
    <3>4. CASE vc # VLines
      <4>1. vc' = v + 1
        BY <1>3, <3>1, <3>4
      <4>2. v + 1 < VVisible /\ frameY = 0
        BY <1>4, <3>2, <4>1
      <4> QED
        BY <3>1, <4>2, Sizes DEF nextIsDrawn
    <3> QED
      BY <3>3, <3>4
  <2>2. frameY < Height
    BY <1>4
  <2>3. Fetching
    <3>1. vc < VVisible \/ vc = VLines
      BY <1>1, <2>1, Sizes DEF nextIsDrawn, BgTypeOK, TypeOK
    <3> QED
      BY <1>2, <3>1, Zenon DEF Fetching, Edge
  <2>4. TileAt(0, d)' = TileAt(0, d)
    BY <1>1, PixelStep, TileStays
  <2>5. PICK q \in Nat : q = place /\ q = 31 + 2 * f
    <3>1. (HPixels - Edge) + 2 * f = 31 + 2 * f
      BY <1>2, Sizes
    <3>2. place = (HPixels - Edge) + 2 * f
      BY <1>5, Zenon DEF place
    <3> QED
      BY <3>1, <3>2
  <2>6. phase = q % 16
    BY <1>1, <1>2, <2>5, PhaseAtEdge
  <2>7. shown' = TileAt(0, d)
    <3>1. CASE f = 0
      <4>1. q = 31 /\ phase = 15 /\ place - 16 = 15
        BY <2>5, <2>6, <3>1
      <4>2. Done(15, 0, d)
        <5>1. Done(place - 16, 0, nextDots)
          BY <1>1, <1>2, <1>4, <2>1, <2>2, <2>5, <4>1 DEF EdgeInv
        <5> QED
          BY <1>8, <4>1, <5>1
      <4>3. 15 \in 0 .. 15 /\ ~(15 < 8)
        OBVIOUS
      <4> QED
        BY <1>1, <2>3, <4>1, <4>2, <4>3, PixelStep, FetchStep
    <3>2. CASE f # 0
      <4>1. q >= 32 /\ phase # 15
        BY <2>5, <2>6, <3>2
      <4>2. shown = TileAt(0, nextDots)
        BY <1>1, <1>2, <1>4, <2>1, <2>2, <2>5, <4>1 DEF EdgeInv
      <4>3. shown' = shown
        BY <1>1, <4>1, PixelStep DEF ShowNext
      <4> QED
        BY <1>8, <4>2, <4>3
    <3> QED
      BY <3>1, <3>2
  <2>8. TileAt(tile, dots)' = TileAt(0, d)'
    BY <1>6, <1>7, <1>8, Zenon DEF TileAt, PlaneOf, ByteOf, NameOf, AttrOf
  <2> QED
    BY <2>4, <2>7, <2>8, Zenon
<1>10. ASSUME inTime' PROVE Done((hc + 2 * fine) % 16, tile + 1, dots)'
  <2>1. f = 0
    BY <1>5, <1>6, <1>10 DEF inTime
  <2>2. (hc' + 2 * fine') % 16 = 0
    BY <1>6, <2>1
  <2>3. ~(0 = 1) /\ ~(0 >= 2) /\ ~(0 = 3) /\ ~(0 >= 4) /\ ~(0 = 5) /\ ~(0 >= 6) /\ ~(0 = 7) /\ ~(0 >= 8)
    OBVIOUS
  <2> QED
    BY <2>2, <2>3, Zenon DEF Done
<1> QED
  BY <1>9, <1>10

\* Within a line: the tile goes on, or the one that was fetched is shown.
LEMMA PixelInTile ==
  ASSUME IInv, Pixel, hc # HPixels, hc' < 16 * Columns, steady', frameY' < Height, vc' < VVisible
  PROVE  /\ Fetchable' => shown' = TileAt(tile, dots)'
         /\ inTime' => Done((hc + 2 * fine) % 16, tile + 1, dots)'
<1>1. BgTypeOK /\ ScrollInv /\ LineInv
  BY DEF IInv
<1>2. hc' = hc + 1 /\ vc' = vc /\ vc < VVisible /\ vc # VLines /\ vc' # VLines
  <2>1. hc' = hc + 1 /\ vc' = vc
    BY <1>1, PixelStep
  <2>2. vc < VVisible
    BY <2>1, Zenon
  <2>3. vc # VLines
    BY <1>1, <2>2, Sizes DEF BgTypeOK, TypeOK
  <2> QED
    BY <2>1, <2>2, <2>3
<1>3. PICK h \in Nat, f \in 0 .. 7 : h = hc /\ f = fine /\ f = fine'
  <2>1. hc \in Nat /\ scroll.x \in Nat
    BY <1>1, Sizes DEF BgTypeOK, TypeOK
  <2>2. \A x \in Nat : x % 8 \in 0 .. 7
    OBVIOUS
  <2>3. fine \in 0 .. 7
    BY <2>1, <2>2, Zenon DEF fine
  <2> QED
    BY <1>1, <2>1, <2>3, PixelStep
<1>4. h + 1 < 16 * Columns /\ hc < 16 * Columns /\ hc # Edge - 1
  <2>1. h + 1 < 16 * Columns
    BY <1>2, <1>3, Zenon
  <2> QED
    BY <1>3, <2>1, Sizes
<1>5. steady /\ frameY' = frameY /\ frameY < Height
  <2>1. steady /\ frameY' = frameY
    BY <1>1, <1>2, <1>4, PixelStep
  <2> QED
    BY <2>1
<1>6. PICK d : d = dots /\ d = dots'
  BY <1>2, <1>5 DEF dots
<1>7. PICK n \in Nat : n = h + 2 * f /\ n + 1 = (h + 1) + 2 * f
  OBVIOUS
<1>8. PICK t \in Nat, p \in 0 .. 15 : t = n \div 16 /\ p = n % 16
  OBVIOUS
<1>9. t = tile /\ (hc + 2 * fine) % 16 = p /\ phase = p
  BY <1>1, <1>3, <1>4, <1>7, <1>8, PhaseInLine DEF tile
<1>10. tile' = (n + 1) \div 16 /\ (hc' + 2 * fine') % 16 = (n + 1) % 16
  BY <1>2, <1>3, <1>7, Zenon DEF tile
<1>11. /\ p < 15 => (n + 1) % 16 = p + 1 /\ (n + 1) \div 16 = t
       /\ p = 15 => (n + 1) % 16 = 0 /\ (n + 1) \div 16 = t + 1
  BY <1>8, NextPixel
<1>12. Fetching
  BY <1>2, <1>4, Zenon DEF Fetching
<1>13. (vc' = 0) = (vc = 0) /\ (frameY' = 0) = (frameY = 0)
  BY <1>2, <1>5
<1>14. ASSUME inTime
       PROVE  /\ Done(p, t + 1, d) /\ p < 15 => Done(p + 1, t + 1, d)'
              /\ p = 15 => shown' = TileAt(t + 1, d)
  <2>1. Done(p, t + 1, d)
    BY <1>1, <1>2, <1>4, <1>5, <1>6, <1>9, <1>14, Zenon DEF LineInv
  <2>2. p < 8 => Aimed(t + 1, d)
    BY <1>1, <1>2, <1>4, <1>5, <1>6, <1>9, <1>14, AimedInTime
  <2>3. p < 15 => Done(p + 1, t + 1, d)'
    BY <1>1, <1>9, <1>12, <2>1, <2>2, PixelStep, FetchStep
  <2>4. p = 15 => shown' = TileAt(t + 1, d)
    BY <1>1, <1>9, <1>12, <2>1, <2>2, PixelStep, FetchStep
  <2> QED
    BY <2>3, <2>4
<1>15. CASE p < 15
  <2>1. tile' = t /\ (hc' + 2 * fine') % 16 = p + 1
    BY <1>10, <1>11, <1>15, Zenon
  <2>2. ASSUME Fetchable' PROVE shown' = TileAt(tile, dots)'
    <3>1. Fetchable
      BY <1>2, <1>3, <1>5, <1>9, <2>1, <2>2, Zenon DEF Fetchable
    <3>2. shown = TileAt(t, d)
      BY <1>1, <1>2, <1>4, <1>5, <1>6, <1>9, <3>1, Zenon DEF LineInv
    <3>3. shown' = shown
      <4>1. phase # 15
        BY <1>9, <1>15
      <4> QED
        BY <1>1, <4>1, PixelStep DEF ShowNext
    <3>4. TileAt(t, d)' = TileAt(t, d)
      BY <1>1, PixelStep, TileStays
    <3>5. TileAt(tile, dots)' = TileAt(t, d)'
      BY <1>6, <2>1, Zenon DEF TileAt, PlaneOf, ByteOf, NameOf, AttrOf
    <3> QED
      BY <3>2, <3>3, <3>4, <3>5, Zenon
  <2>3. ASSUME inTime' PROVE Done((hc + 2 * fine) % 16, tile + 1, dots)'
    <3>1. inTime
      BY <1>3, <1>9, <2>1, <2>3, Zenon DEF inTime
    <3>2. Done(p, t + 1, d)
      BY <1>1, <1>2, <1>4, <1>5, <1>6, <1>9, <3>1, Zenon DEF LineInv
    <3>3. Done(p + 1, t + 1, d)'
      BY <1>14, <1>15, <3>1, <3>2
    <3> QED
      BY <1>6, <2>1, <3>3, Zenon DEF Done, PlaneOf, ByteOf, NameOf, AttrOf
  <2> QED
    BY <2>2, <2>3
<1>16. CASE p = 15
  <2>1. tile' = t + 1 /\ (hc' + 2 * fine') % 16 = 0
    BY <1>10, <1>11, <1>16, Zenon
  <2>2. ASSUME Fetchable' PROVE shown' = TileAt(tile, dots)'
    <3>1. \/ t + 1 \in 2 .. Columns - 1
          \/ t + 1 = 1 /\ f = 0
          \/ t + 1 = Columns /\ f >= 4
      <4>1. ~(t + 1 = 0)
        OBVIOUS
      <4> QED
        BY <1>3, <2>1, <2>2, <4>1, Zenon DEF Fetchable
    <3>2. (t > 0 \/ f = 0) /\ (t + 1 < Columns \/ (t + 1 = Columns /\ f >= 4))
      BY <3>1, Sizes
    <3>3. inTime
      BY <1>3, <1>9, <3>2, Zenon DEF inTime
    <3>4. shown' = TileAt(t + 1, d)
      BY <1>14, <1>16, <3>3
    <3>5. TileAt(t + 1, d)' = TileAt(t + 1, d)
      BY <1>1, PixelStep, TileStays
    <3>6. TileAt(tile, dots)' = TileAt(t + 1, d)'
      BY <1>6, <2>1, Zenon DEF TileAt, PlaneOf, ByteOf, NameOf, AttrOf
    <3> QED
      BY <3>4, <3>5, <3>6, Zenon
  <2>3. ~(0 = 1) /\ ~(0 >= 2) /\ ~(0 = 3) /\ ~(0 >= 4) /\ ~(0 = 5) /\ ~(0 >= 6) /\ ~(0 = 7) /\ ~(0 >= 8)
    OBVIOUS
  <2>4. Done((hc + 2 * fine) % 16, tile + 1, dots)'
    BY <2>1, <2>3, Zenon DEF Done
  <2> QED
    BY <2>2, <2>4
<1> QED
  BY <1>15, <1>16

\* Every pixel.
LEMMA PixelLine == ASSUME IInv, Pixel PROVE LineInv'
<1> SUFFICES ASSUME steady', frameY' < Height, hc' < 16 * Columns, vc' < VVisible
             PROVE  /\ Fetchable' => shown' = TileAt(tile, dots)'
                    /\ inTime' => Done((hc + 2 * fine) % 16, tile + 1, dots)'
  BY DEF LineInv
<1>1. CASE hc = HPixels
  BY <1>1, PixelNewLine
<1>2. CASE hc # HPixels
  BY <1>2, PixelInTile
<1> QED
  BY <1>1, <1>2

\* What is done and what belongs in a place look at the latches and the
\* registers, and of the scroll only at its first half.
LEMMA SameTile ==
  ASSUME UNCHANGED <<control, mirror_cfg, nt, next, asked>>, scroll'.x = scroll.x,
         NEW p, NEW t, NEW d
  PROVE  Done(p, t, d)' = Done(p, t, d) /\ TileAt(t, d)' = TileAt(t, d)
<1>1. /\ NameOf(t, d)' = NameOf(t, d) /\ AttrOf(t, d)' = AttrOf(t, d)
      /\ ByteOf(t, d, NameOf(t, d))' = ByteOf(t, d, NameOf(t, d))
      /\ ByteOf(t, d, AttrOf(t, d))' = ByteOf(t, d, AttrOf(t, d))
  BY DEF NameOf, AttrOf, ByteOf, Chip, Xor
<1>2. PlaneOf(t, d, 1)' = PlaneOf(t, d, 1) /\ PlaneOf(t, d, 2)' = PlaneOf(t, d, 2)
  BY <1>1 DEF PlaneOf
<1> QED
  BY <1>1, <1>2 DEF Done, TileAt

\* And so does the invariant.
LEMMA SameLine ==
  ASSUME EdgeInv, LineInv, steady' => steady, scroll'.x = scroll.x,
         UNCHANGED <<hc, vc, frameY, shown, control, mirror_cfg, nt, next, asked>>
  PROVE  EdgeInv' /\ LineInv'
<1>1. PICK q, m, t : q = place /\ q = place' /\ m = nextDots /\ m = nextDots'
                    /\ t = tile /\ t = tile'
  BY Zenon DEF place, nextDots, tile, fine
<1>2. PICK d, f, u : d = dots /\ d = dots' /\ f = fine /\ f = fine'
                    /\ u = (hc + 2 * fine) % 16 /\ u = (hc' + 2 * fine') % 16
  BY Zenon DEF dots, fine
<1>3. EdgeInv'
  <2>1. Done(q - 16, 0, m)' = Done(q - 16, 0, m) /\ TileAt(0, m)' = TileAt(0, m)
    BY SameTile
  <2>2. Done(place - 16, 0, nextDots)' = Done(q - 16, 0, m)'
    BY <1>1, Zenon DEF Done, PlaneOf, ByteOf, NameOf, AttrOf
  <2>3. TileAt(0, nextDots)' = TileAt(0, m)'
    BY <1>1, Zenon DEF TileAt, PlaneOf, ByteOf, NameOf, AttrOf
  <2>4. nextIsDrawn' = nextIsDrawn
    BY DEF nextIsDrawn
  <2>5. SUFFICES ASSUME steady', frameY' < Height, hc' >= Edge, nextIsDrawn'
                 PROVE  /\ place' \in 16 .. 31 => Done(place - 16, 0, nextDots)'
                        /\ place' >= 32 => shown' = TileAt(0, nextDots)'
    BY DEF EdgeInv
  <2>6. /\ place \in 16 .. 31 => Done(place - 16, 0, nextDots)
        /\ place >= 32 => shown = TileAt(0, nextDots)
    BY <2>4, <2>5 DEF EdgeInv
  <2> QED
    BY <1>1, <2>1, <2>2, <2>3, <2>6, Zenon
<1>4. LineInv'
  <2>1. /\ Done(u, t + 1, d)' = Done(u, t + 1, d)
        /\ TileAt(t, d)' = TileAt(t, d)
    BY SameTile
  <2>2. Done((hc + 2 * fine) % 16, tile + 1, dots)' = Done(u, t + 1, d)'
    BY <1>1, <1>2, Zenon DEF Done, PlaneOf, ByteOf, NameOf, AttrOf
  <2>3. TileAt(tile, dots)' = TileAt(t, d)'
    BY <1>1, <1>2, Zenon DEF TileAt, PlaneOf, ByteOf, NameOf, AttrOf
  <2>4. Fetchable' = Fetchable /\ inTime' = inTime
    BY <1>1, <1>2, Zenon DEF Fetchable, inTime
  <2>5. SUFFICES ASSUME steady', frameY' < Height, hc' < 16 * Columns, vc' < VVisible
                 PROVE  /\ Fetchable' => shown' = TileAt(tile, dots)'
                        /\ inTime' => Done((hc + 2 * fine) % 16, tile + 1, dots)'
    BY DEF LineInv
  <2>6. /\ Fetchable => shown = TileAt(tile, dots)
        /\ inTime => Done((hc + 2 * fine) % 16, tile + 1, dots)
    BY <2>5 DEF LineInv
  <2> QED
    BY <1>1, <1>2, <2>1, <2>2, <2>3, <2>4, <2>6, Zenon
<1> QED
  BY <1>3, <1>4

\* A write to the scroll or the control register, or a reset, leaves nothing to
\* be said of the line, or nothing that the line depends on.
LEMMA WriteStep ==
  ASSUME IInv, WriteScrollX \/ WriteScrollY \/ WriteControl \/ BgReset
  PROVE  EdgeInv' /\ LineInv'
<1>1. CASE WriteScrollX \/ WriteControl \/ BgReset
  <2>1. ~steady'
    BY <1>1 DEF WriteScrollX, WriteControl, BgReset
  <2> QED
    BY <2>1 DEF EdgeInv, LineInv
<1>2. CASE WriteScrollY
  <2>1. /\ steady' => steady /\ vc # VLines
        /\ UNCHANGED <<vars, control, mirror_cfg, latches, frameY>>
        /\ scroll'.x = scroll.x
    BY <1>2 DEF WriteScrollY, IInv, BgTypeOK
  <2>2. /\ UNCHANGED <<hc, vc, control, mirror_cfg, frameY, shown, nt, next, asked>>
        /\ scroll'.x = scroll.x
    BY <2>1 DEF vars, latches
  <2> QED
    BY <2>1, <2>2, SameLine DEF IInv
<1> QED
  BY <1>1, <1>2

\* Every step keeps the invariant.
LEMMA InvStep == ASSUME IInv, TypeOK', [BgNext]_bgVars PROVE IInv'
<1>1. CASE BgNext
  <2>1. BgTypeOK'
    BY <1>1, TypeStep DEF IInv
  <2>2. ScrollInv'
    BY <1>1, ScrollStep DEF IInv
  <2>3. EdgeInv' /\ LineInv'
    BY <1>1, PixelEdge, PixelLine, WriteStep DEF BgNext
  <2> QED
    BY <2>1, <2>2, <2>3 DEF IInv
<1>2. CASE UNCHANGED bgVars
  <2>1. UNCHANGED <<hc, vc, scroll, control, mirror_cfg, active_scrolly, frameY, steady>>
        /\ UNCHANGED <<shown, nt, next, asked>>
    BY <1>2 DEF bgVars, vars, regs, latches
  <2>2. BgTypeOK' /\ ScrollInv'
    BY <2>1 DEF IInv, BgTypeOK, ScrollInv
  <2>3. EdgeInv' /\ LineInv'
    BY <2>1, SameLine DEF IInv
  <2> QED
    BY <2>2, <2>3 DEF IInv
<1> QED
  BY <1>1, <1>2

\* The invariant holds of the first pixel.
LEMMA InitIInv == ASSUME BgInit PROVE IInv
<1>1. TypeOK
  BY SizesAssumption DEF BgInit, Init, TypeOK
<1>2. 0 \in 0 .. 8 * Columns - 1
  BY Sizes
<1>3. BgTypeOK
  BY <1>1, <1>2 DEF BgInit, BgTypeOK, NoTile
<1>4. ScrollInv /\ EdgeInv /\ LineInv
  BY DEF BgInit, ScrollInv, EdgeInv, LineInv
<1> QED
  BY <1>3, <1>4 DEF IInv

\* The invariant always holds.
LEMMA Invariance == BgSpec => []IInv
<1>1. BgInit => IInv
  BY InitIInv
<1>2. IInv /\ TypeOK' /\ [BgNext]_bgVars => IInv'
  BY InvStep
<1>3. RasterInv => TypeOK
  BY DEF RasterInv
<1> QED
  BY <1>1, <1>2, <1>3, BackgroundAddsOnly, Timing, PTL DEF BgSpec

\* Every tile on the screen is the one the scroll registers ask for, whatever
\* the program writes to them and at whatever pixel, in a picture of any size.
THEOREM TilesRight == BgSpec => []TilesAreRight
<1>1. IInv => TilesAreRight
  BY DEF IInv, LineInv, TilesAreRight, WantedTile
<1> QED
  BY <1>1, Invariance, PTL
=============================================================================
