---------------------------- MODULE SpriteProofs ----------------------------
(***************************************************************************)
(* Theorems about SpriteScan and SpritePixels, for every size of OAM and   *)
(* of the raster that leaves the scan the time TimeAssumption names.       *)
(***************************************************************************)
EXTENDS SpritePixels, FiniteSetTheorems, TLAPS

\* The scan knows where it is: the address leaves room for the bytes of the
\* sprite it stands on, and there is a slot left for the next one.
InPlace ==
  /\ state = "EVAL" => render_oam_addr <= Size - 4
  /\ state \in {"LATCH", "INCR_RD"} => render_oam_addr <= Size - 4 + batch_ct
  /\ state \in {"MAINRD", "EVAL"} => fetched_ct < MaxFetch

\* A sprite that is passed over costs two clocks, one that is kept costs nine;
\* twice the column is bounded by how far the scan has come.  The constants
\* leave room for a state that survived a reset.
InTime ==
  /\ state # "IDL" => dry < Picture
  /\ state = "MAINRD"  => 2 * drx <= render_oam_addr + 14 * fetched_ct + 12
  /\ state = "EVAL"    => 2 * drx <= render_oam_addr + 14 * fetched_ct + 14
  /\ state = "LATCH"   => 2 * drx <= render_oam_addr + 14 * fetched_ct + 3 * batch_ct + 2
  /\ state = "INCR_RD" => 2 * drx <= render_oam_addr + 14 * fetched_ct + 3 * batch_ct

IInv == TypeOK /\ InPlace /\ InTime

\* The sizes, one by one.
LEMMA Sizes ==
  /\ Size \in Nat /\ 4 <= Size
  /\ MaxFetch \in Nat /\ 0 < MaxFetch /\ Height \in Nat /\ 0 < Height
  /\ LineLen \in Nat /\ Lines \in Nat
  /\ ScanEnd \in Nat /\ 0 < ScanEnd /\ HandAt \in Nat
  /\ ScanEnd <= HandAt /\ HandAt + 4 * MaxFetch < LineLen
  /\ Picture \in Nat /\ 0 < Picture /\ Picture < Lines
  BY SizesAssumption DEF HandEnd

\* The members of a set of addresses below one of them.
Below(H, x) == {h \in H : h < x}

\* They can be counted.
LEMMA BelowCount ==
  ASSUME NEW H, IsFiniteSet(H), NEW x
  PROVE  IsFiniteSet(Below(H, x)) /\ Cardinality(Below(H, x)) \in Nat
<1>1. Below(H, x) \in SUBSET H
  BY DEF Below
<1>2. IsFiniteSet(Below(H, x))
  BY <1>1, FS_Subset
<1> QED
  BY <1>2, FS_CardinalityType

\* There is nothing below 0.
LEMMA BelowNothing ==
  ASSUME NEW H \in SUBSET Nat, NEW x \in Nat, \A h \in H : x <= h
  PROVE  Below(H, x) = {} /\ Cardinality(Below(H, x)) = 0
<1>1. Below(H, x) = {}
  <2>1. \A h \in H : h \in Nat /\ ~(h < x)
    OBVIOUS
  <2> QED
    BY <2>1, Zenon DEF Below
<1> QED
  BY <1>1, FS_EmptySet

\* If nothing lies between x and y, only x itself can be below y and not below x.
LEMMA BelowNext ==
  ASSUME NEW H \in SUBSET Nat, IsFiniteSet(H), NEW x \in Nat, NEW y \in Nat, x < y,
         \A h \in H : x < h => y <= h
  PROVE  Cardinality(Below(H, y)) = IF x \in H THEN Cardinality(Below(H, x)) + 1
                                    ELSE Cardinality(Below(H, x))
<1>1. CASE x \in H
  <2>1. Below(H, y) = Below(H, x) \cup {x}
    <3>1. \A h \in H : h < y <=> h < x \/ h = x
      BY SMT
    <3> QED
      BY <1>1, <3>1, Zenon DEF Below
  <2>2. x \notin Below(H, x)
    BY DEF Below
  <2>3. IsFiniteSet(Below(H, x))
    BY BelowCount
  <2> HIDE DEF Below
  <2>4. Cardinality(Below(H, x) \cup {x}) = Cardinality(Below(H, x)) + 1
    BY <2>2, <2>3, FS_AddElement
  <2> QED
    BY <1>1, <2>1, <2>4
<1>2. CASE x \notin H
  <2>1. Below(H, y) = Below(H, x)
    <3>1. \A h \in H : h < y <=> h < x
      BY <1>2, SMT
    <3> QED
      BY <3>1, Zenon DEF Below
  <2> QED
    BY <1>2, <2>1
<1> QED
  BY <1>1, <1>2

\* More lies below an address than below a member that it is above.
LEMMA BelowGrows ==
  ASSUME NEW H \in SUBSET Nat, IsFiniteSet(H), NEW b \in H, NEW x \in Nat, b < x
  PROVE  Cardinality(Below(H, b)) < Cardinality(Below(H, x))
<1>1. Below(H, b) \cup {b} \in SUBSET Below(H, x)
  <2>1. \A h \in H : h < b => h < x
    BY SMT
  <2> QED
    BY <2>1, Zenon DEF Below
<1>2. b \notin Below(H, b)
  BY DEF Below
<1>3. /\ IsFiniteSet(Below(H, b)) /\ Cardinality(Below(H, b)) \in Nat
      /\ IsFiniteSet(Below(H, x)) /\ Cardinality(Below(H, x)) \in Nat
  BY BelowCount
<1>4. Cardinality(Below(H, b) \cup {b}) = Cardinality(Below(H, b)) + 1
  BY <1>2, <1>3, FS_AddElement
<1>5. Cardinality(Below(H, b) \cup {b}) <= Cardinality(Below(H, x))
  BY <1>1, <1>3, FS_Subset
<1> QED
  BY <1>3, <1>4, <1>5

\* Of the members with a low rank, each has a rank below their number.
LEMMA RankBelowCount ==
  ASSUME NEW H \in SUBSET Nat, IsFiniteSet(H), NEW n \in Nat, NEW b \in H,
         Cardinality(Below(H, b)) < n
  PROVE  Cardinality(Below(H, b)) < Cardinality({h \in H : Cardinality(Below(H, h)) < n})
<1> DEFINE S == {h \in H : Cardinality(Below(H, h)) < n}
<1>1. IsFiniteSet(S) /\ Cardinality(S) \in Nat
  <2>1. S \in SUBSET H
    OBVIOUS
  <2> QED
    BY <2>1, FS_Subset, FS_CardinalityType
<1>2. ASSUME NEW h \in H, h < b PROVE h \in S
  <2>1. Cardinality(Below(H, h)) < Cardinality(Below(H, b))
    BY <1>2, BelowGrows
  <2>2. Cardinality(Below(H, h)) \in Nat /\ Cardinality(Below(H, b)) \in Nat
    BY BelowCount
  <2> QED
    BY <2>1, <2>2
<1>3. Below(H, b) \cup {b} \in SUBSET S
  BY <1>2 DEF Below
<1>4. IsFiniteSet(Below(H, b)) /\ Cardinality(Below(H, b)) \in Nat /\ b \notin Below(H, b)
  <2>1. b \notin Below(H, b)
    BY DEF Below
  <2> QED
    BY <2>1, BelowCount
<1> HIDE DEF S
<1>5. Cardinality(Below(H, b) \cup {b}) = Cardinality(Below(H, b)) + 1
  BY <1>4, FS_AddElement
<1>6. Cardinality(Below(H, b) \cup {b}) <= Cardinality(S)
  BY <1>1, <1>3, FS_Subset
<1>7. Cardinality(Below(H, b)) < Cardinality(S)
  BY <1>1, <1>4, <1>5, <1>6
<1> QED
  BY <1>7 DEF S

\* When the walk has passed every member, or as many as there may be, those
\* below it are those with a low rank.
LEMMA BelowIsFirst ==
  ASSUME NEW H \in SUBSET Nat, IsFiniteSet(H), NEW n \in Nat, NEW x \in Nat,
         Cardinality(Below(H, x)) <= n,
         (\A h \in H : h < x) \/ Cardinality(Below(H, x)) = n
  PROVE  {h \in H : Cardinality(Below(H, h)) < n} = Below(H, x)
<1>1. \A h \in H : Cardinality(Below(H, h)) \in Nat
  BY BelowCount
<1>2. Cardinality(Below(H, x)) \in Nat
  BY BelowCount
<1>3. ASSUME NEW h \in H, h < x PROVE Cardinality(Below(H, h)) < n
  <2>1. Cardinality(Below(H, h)) < Cardinality(Below(H, x))
    BY <1>3, BelowGrows
  <2> QED
    BY <1>1, <1>2, <2>1
<1>4. ASSUME NEW h \in H, Cardinality(Below(H, h)) < n PROVE h < x
  <2> SUFFICES ASSUME ~(h < x), Cardinality(Below(H, x)) = n PROVE FALSE
    OBVIOUS
  <2>1. Below(H, x) \in SUBSET Below(H, h)
    <3>1. \A g \in H : g < x => g < h
      BY <1>4, SMT
    <3> QED
      BY <3>1, Zenon DEF Below
  <2>2. Cardinality(Below(H, x)) <= Cardinality(Below(H, h))
    BY <2>1, BelowCount, FS_Subset
  <2> QED
    BY <1>1, <1>2, <1>4, <2>2
<1> QED
  BY <1>3, <1>4 DEF Below

\* The ranks run through all numbers below that of the members.
LEMMA RankOnto ==
  ASSUME NEW H \in SUBSET Nat, IsFiniteSet(H), NEW n \in Nat,
         NEW S, S = {h \in H : Cardinality(Below(H, h)) < n},
         NEW l \in Nat, l < Cardinality(S)
  PROVE  \E b \in S : Cardinality(Below(H, b)) = l
<1> DEFINE f == [b \in S |-> Cardinality(Below(H, b))]
           T == 0 .. Cardinality(S) - 1
<1>1. S \in SUBSET H /\ IsFiniteSet(S) /\ Cardinality(S) \in Nat
  <2>1. S \in SUBSET H
    OBVIOUS
  <2> QED
    BY <2>1, FS_Subset, FS_CardinalityType
<1>2. \A b \in H : Cardinality(Below(H, b)) \in Nat
  BY BelowCount
<1>3. ASSUME NEW b \in S PROVE f[b] \in T
  <2>1. Cardinality(Below(H, b)) < Cardinality({h \in H : Cardinality(Below(H, h)) < n})
    BY <1>1, RankBelowCount
  <2>2. f[b] = Cardinality(Below(H, b)) /\ f[b] \in Nat
    BY <1>1, <1>2
  <2> QED
    BY <1>1, <2>1, <2>2
<1>4. ASSUME NEW b \in S, NEW c \in S, f[b] = f[c] PROVE b = c
  <2>1. b \in Nat /\ c \in Nat /\ b \in H /\ c \in H
    BY <1>1
  <2>2. f[b] = Cardinality(Below(H, b)) /\ f[c] = Cardinality(Below(H, c))
    OBVIOUS
  <2>3. ~(b < c) /\ ~(c < b)
    <3>1. b < c => Cardinality(Below(H, b)) < Cardinality(Below(H, c))
      BY <2>1, BelowGrows
    <3>2. c < b => Cardinality(Below(H, c)) < Cardinality(Below(H, b))
      BY <2>1, BelowGrows
    <3> QED
      BY <1>2, <1>4, <2>1, <2>2, <3>1, <3>2
  <2> QED
    BY <2>1, <2>3
<1>5. f \in [S -> T]
  BY <1>3
<1>6. f \in Injection(S, T)
  BY <1>4, <1>5 DEF Injection, IsInjective
<1>7. IsFiniteSet(T) /\ Cardinality(T) = Cardinality(S)
  <2>1. PICK m \in Nat : m = Cardinality(S)
    BY <1>1
  <2>2. 0 \in Int /\ m - 1 \in Int
    OBVIOUS
  <2>3. IsFiniteSet(0 .. m - 1) /\ Cardinality(0 .. m - 1) = IF 0 > m - 1 THEN 0 ELSE m - 1 - 0 + 1
    BY <2>2, FS_Interval
  <2>4. Cardinality(0 .. m - 1) = m
    BY <2>3
  <2> QED
    BY <2>1, <2>3, <2>4
<1> HIDE DEF f, T
<1>8. f \in Surjection(S, T)
  BY <1>6, <1>7, FS_Injection
<1>9. l \in T
  BY <1>1 DEF T
<1>10. PICK b \in S : f[b] = l
  BY <1>8, <1>9 DEF Surjection
<1> QED
  BY <1>10 DEF f

USE Sizes

\* A remainder lies below its divisor; a small number is its own.
LEMMA RemainderOfSize ==
  ASSUME NEW n \in Nat
  PROVE  n % Size \in Byte /\ (n < Size => n % Size = n)
<1>1. n % Size \in 0 .. Size - 1
  OBVIOUS
<1>2. n < Size => n % Size = n
  OBVIOUS
<1> QED
  BY <1>1, <1>2 DEF Byte

\* While the scan is not at rest it has not used up its part of the line.
LEMMA StillScanning == ASSUME IInv, state # "IDL" PROVE scanning /\ drx + 1 < LineLen
  BY TimeAssumption DEF IInv, TypeOK, InPlace, InTime, scanning, State, Byte, HandEnd

\* Cleared registers are in range.
LEMMA ClearedTypes ==
  /\ 0 \in Byte /\ NoPattern \in Pattern
  /\ [i \in Index |-> 0] \in [Index -> Byte]
  /\ NoRows \in [Slot -> [0 .. 1 -> Byte]]
  /\ NoPatterns \in [Slot -> [0 .. 1 -> Pattern \cup {Empty}]]
<1>1. 0 \in Byte
  BY DEF Byte
<1> QED
  BY <1>1 DEF NoPattern, Pattern, NoRows, NoPatterns

\* The invariant holds at power-up.
LEMMA InitIInv == ASSUME Init PROVE IInv
<1>1. oam \in [Byte -> Byte]
  BY OamAssumption DEF Init
<1>2. /\ drx \in 0 .. LineLen - 1 /\ dry \in 0 .. Lines - 1
      /\ fetched_ct \in 0 .. MaxFetch /\ batch_ct \in 0 .. 3 /\ sprite_ct \in 0 .. MaxFetch
  BY DEF Init
<1>3. oam_out \in Byte /\ render_oam_addr \in Byte /\ start \in Byte
  BY ClearedTypes DEF Init
<1>4. /\ fetched_data \in [Index -> Byte]
      /\ sprite_row \in [Slot -> [0 .. 1 -> Byte]]
      /\ sprite_pat \in [Slot -> [0 .. 1 -> Pattern \cup {Empty}]]
      /\ pattern \in Pattern
  BY ClearedTypes DEF Init
<1>5. /\ state \in State /\ alt_s0 \in BOOLEAN /\ s0 \in BOOLEAN /\ stable \in BOOLEAN
  BY DEF Init, State
<1>6. TypeOK
  BY <1>1, <1>2, <1>3, <1>4, <1>5 DEF TypeOK
<1> QED
  BY <1>6 DEF Init, IInv, InPlace, InTime

\* The byte of pattern ROM that is asked for is one of its bytes.
LEMMA PatternType ==
  ASSUME TypeOK PROVE render_pattern_addr \in Pattern
<1>1. CASE handing
  <2>1. slot \in Slot
    BY <1>1 DEF TypeOK, handing, HandEnd, slot, backshift, Slot
  <2>2. /\ 4 * slot \in Index /\ 4 * slot + 1 \in Index /\ 4 * slot + 2 \in Index
    BY <2>1 DEF Slot, Index
  <2>3. /\ fetched_data[4 * slot] \in Byte /\ fetched_data[4 * slot + 1] \in Byte
        /\ fetched_data[4 * slot + 2] \in Byte
    BY <2>2 DEF TypeOK
  <2>4. /\ (rel_addr - fetched_data[4 * slot]) \in Int
    BY <2>3 DEF TypeOK, rel_addr, Byte
  <2>5. (rel_addr - fetched_data[4 * slot]) % Height \in 0 .. Height - 1
    BY <2>4
  <2>6. sprite_fetch_y(slot) \in 0 .. Height - 1
    BY <2>5 DEF sprite_fetch_y
  <2> QED
    BY <1>1, <2>3, <2>6 DEF render_pattern_addr, Pattern
<1>2. CASE ~handing
  BY <1>2 DEF render_pattern_addr, NoPattern, Pattern, Byte
<1> QED
  BY <1>1, <1>2

\* One clock of the scan keeps its registers in range, its place and its pace.
LEMMA ScanStep ==
  ASSUME IInv, NEW a \in StartAddr, NextPixel, StepScan(a)
  PROVE  /\ state' \in State /\ render_oam_addr' \in Byte
         /\ fetched_data' \in [Index -> Byte]
         /\ fetched_ct' \in 0 .. MaxFetch /\ batch_ct' \in 0 .. 3 /\ alt_s0' \in BOOLEAN
         /\ InPlace' /\ InTime'
<1> USE DEF IInv
<1> DEFINE Goal == /\ state' \in State /\ render_oam_addr' \in Byte
                   /\ fetched_data' \in [Index -> Byte]
                   /\ fetched_ct' \in 0 .. MaxFetch /\ batch_ct' \in 0 .. 3
                   /\ alt_s0' \in BOOLEAN
                   /\ InPlace' /\ InTime'
<1>a. a \in Byte
  BY OamAssumption
<1>b. state # "IDL" => drx' = drx + 1 /\ dry' = dry /\ dry < Picture
  BY StillScanning DEF NextPixel, scanning, TypeOK
<1>0. CASE ~scanning
  <2>1. UNCHANGED scanVars
    BY <1>0 DEF StepScan
  <2>2. state = "IDL"
    BY <1>0, StillScanning
  <2> QED
    BY <2>1, <2>2 DEF scanVars, TypeOK, InPlace, InTime
<1>1. CASE scanning /\ Begin(a)
  <2>1. drx' = 1 /\ dry' = dry /\ dry < Picture
    BY <1>1 DEF NextPixel, scanning, Begin, HandEnd, TypeOK
  <2> QED
    <3>1. fetched_data' \in [Index -> Byte]
      BY <1>1, ClearedTypes DEF Begin
    <3>2. /\ state' = "MAINRD" /\ render_oam_addr' = a
          /\ fetched_ct' = 0 /\ batch_ct' = 0 /\ alt_s0' = FALSE
      BY <1>1 DEF Begin
    <3>3. InPlace'
      BY <3>2 DEF InPlace
    <3>4. InTime'
      BY <1>a, <2>1, <3>2 DEF InTime, Byte
    <3>5. alt_s0' \in BOOLEAN
      BY <1>1 DEF Begin
    <3>6. state' \in State /\ render_oam_addr' \in Byte
      BY <1>a, <3>2 DEF State
    <3>7. fetched_ct' \in 0 .. MaxFetch /\ batch_ct' \in 0 .. 3
      BY <3>2
    <3> QED
      BY <3>1, <3>3, <3>4, <3>5, <3>6, <3>7
<1>2. CASE scanning /\ Stay
  BY <1>2 DEF Stay, scanVars, TypeOK, InPlace, InTime
<1>3. CASE scanning /\ MainRead
  BY <1>3, <1>b DEF MainRead, TypeOK, InPlace, InTime, State, Byte
<1>4. CASE scanning /\ Hit
  BY <1>4, <1>b DEF Hit, TypeOK, InPlace, InTime, State, Byte
<1>5. CASE scanning /\ Miss
  <2>1. CASE render_oam_addr < Size - 7
    <3>1. (render_oam_addr + 4) % Size = render_oam_addr + 4
      BY <2>1, RemainderOfSize DEF TypeOK, Byte
    <3> QED
      <4>1. /\ state = "EVAL" /\ state' = "MAINRD" /\ render_oam_addr' = render_oam_addr + 4
            /\ fetched_ct' = fetched_ct /\ batch_ct' = batch_ct /\ alt_s0' = alt_s0
            /\ fetched_data' = fetched_data
        BY <1>5, <2>1, <3>1 DEF Miss
      <4>2. InPlace'
        BY <4>1 DEF InPlace
      <4>3. InTime'
        BY <1>b, <4>1 DEF InTime, TypeOK, Byte
      <4> QED
        BY <2>1, <4>1, <4>2, <4>3 DEF TypeOK, State, Byte
  <2>2. CASE ~(render_oam_addr < Size - 7)
    BY <1>5, <1>b, <2>2 DEF Miss, TypeOK, InPlace, InTime, State, Byte
  <2> QED
    BY <2>1, <2>2
<1>6. CASE scanning /\ Latch
  <2>1. /\ (render_oam_addr + 1) % Size \in Byte
        /\ render_oam_addr < Size - 1 => (render_oam_addr + 1) % Size = render_oam_addr + 1
    <3>1. render_oam_addr \in Nat /\ render_oam_addr + 1 \in Nat
      BY DEF TypeOK, Byte
    <3> QED
      BY <3>1, RemainderOfSize
  <2>2. /\ (batch_ct + 1) % 4 \in 0 .. 3
        /\ batch_ct < 3 => (batch_ct + 1) % 4 = batch_ct + 1
    <3>1. batch_ct \in {0, 1, 2, 3}
      BY DEF TypeOK
    <3> QED
      BY <3>1
  <2>3. fetched_data' \in [Index -> Byte]
    BY <1>6 DEF Latch, TypeOK
  <2>4. alt_s0' \in BOOLEAN
    BY <1>6 DEF Latch
  <2>5. state' \in State
    BY <1>6 DEF Latch, State
  <2>6. CASE batch_ct < 3
    <3>1. /\ state' = "INCR_RD" /\ fetched_ct' = fetched_ct
          /\ batch_ct' = batch_ct + 1
      BY <1>6, <2>2, <2>6 DEF Latch
    <3>2. render_oam_addr' = render_oam_addr + 1
      BY <1>6, <2>1, <2>6 DEF Latch, InPlace, TypeOK, Byte
    <3>3. InPlace'
      BY <1>6, <3>1, <3>2 DEF Latch, InPlace, TypeOK, Byte
    <3>4. InTime'
      BY <1>6, <1>b, <3>1, <3>2 DEF Latch, InTime, TypeOK, Byte
    <3> QED
      BY <2>1, <2>3, <2>4, <2>5, <3>1, <3>2, <3>3, <3>4, <1>6 DEF Latch, TypeOK
  <2>7. CASE ~(batch_ct < 3)
    <3>1. /\ batch_ct = 3 /\ fetched_ct' = fetched_ct
          /\ batch_ct' \in 0 .. 3 /\ render_oam_addr' \in Byte
      BY <1>6, <2>1, <2>2, <2>7 DEF Latch, TypeOK
    <3>2. CASE state' = "IDL"
      BY <2>3, <2>4, <2>5, <3>1, <3>2 DEF InPlace, InTime, TypeOK
    <3>3. CASE state' # "IDL"
      <4>1. /\ state' = "MAINRD" /\ fetched_ct # MaxFetch /\ render_oam_addr <= Size - 4
        BY <1>6, <2>7, <3>3 DEF Latch, TypeOK, Byte
      <4>2. render_oam_addr' = render_oam_addr + 1
        BY <1>6, <2>1, <4>1 DEF Latch, TypeOK, Byte
      <4>3. InPlace'
        BY <3>1, <4>1 DEF InPlace, TypeOK
      <4>4. InTime'
        BY <1>6, <1>b, <3>1, <4>1, <4>2 DEF Latch, InTime, TypeOK, Byte
      <4> QED
        BY <2>3, <2>4, <2>5, <3>1, <4>3, <4>4 DEF TypeOK
    <3> QED
      BY <3>2, <3>3
  <2> QED
    BY <2>6, <2>7
<1>7. CASE scanning /\ IncrRead
  BY <1>7, <1>b DEF IncrRead, TypeOK, InPlace, InTime, State, Byte
<1> QED
  BY <1>0, <1>1, <1>2, <1>3, <1>4, <1>5, <1>6, <1>7 DEF StepScan

\* The hand-over keeps what the pixel logic draws in range.
LEMMA HandType ==
  ASSUME TypeOK, StepHandOver
  PROVE  /\ sprite_row' \in [Slot -> [0 .. 1 -> Byte]]
         /\ sprite_pat' \in [Slot -> [0 .. 1 -> Pattern \cup {Empty}]]
         /\ sprite_ct' \in 0 .. MaxFetch /\ s0' \in BOOLEAN
<1>1. CASE UNCHANGED drawVars
  BY <1>1 DEF drawVars, TypeOK
<1>2. CASE HandRows
  <2>1. \A k \in Slot, j \in 0 .. 1 : 4 * k + 2 + j \in Index
    BY DEF Slot, Index
  <2>2. sprite_row' \in [Slot -> [0 .. 1 -> Byte]]
    BY <1>2, <2>1 DEF HandRows, TypeOK
  <2> QED
    BY <1>2, <2>2 DEF HandRows, TypeOK
<1>3. CASE handing /\ HandPattern
  BY <1>3 DEF HandPattern, TypeOK
<1> QED
  BY <1>1, <1>2, <1>3 DEF StepHandOver

\* A clock of the scan keeps the invariant.
LEMMA ClockIInv == ASSUME IInv, Clock PROVE IInv'
<1> PICK a \in StartAddr :
      /\ NextPixel /\ StepScan(a) /\ StepHandOver
      /\ oam_out' = oam[render_oam_addr]
      /\ pattern' = render_pattern_addr
      /\ start'  = (IF scanning /\ drx = 0 THEN a ELSE start)
      /\ stable' = (stable \/ (scanning /\ drx = 0 /\ state = "IDL"))
      /\ UNCHANGED oam
  BY DEF Clock
<1>1. drx' \in 0 .. LineLen - 1 /\ dry' \in 0 .. Lines - 1
  BY DEF NextPixel, IInv, TypeOK
<1>2. oam' \in [Byte -> Byte] /\ oam_out' \in Byte
  BY DEF IInv, TypeOK
<1>3. start' \in Byte /\ stable' \in BOOLEAN
  BY OamAssumption DEF IInv, TypeOK
<1>4. pattern' \in Pattern
  BY PatternType DEF IInv
<1> QED
  BY <1>1, <1>2, <1>3, <1>4, ScanStep, HandType DEF IInv, TypeOK

\* So does a write to OAM.
LEMMA WriteIInv == ASSUME IInv, NEW w \in OamWrites, Write(w) PROVE IInv'
<1>1. w[1] \in Byte /\ w[2] \in Byte
  BY OamAssumption
<1>2. TypeOK'
  BY <1>1 DEF IInv, TypeOK, Write, scanVars, drawVars
<1> QED
  BY <1>2 DEF IInv, InPlace, InTime, Write, scanVars

\* So does a reset.
LEMMA ResetIInv == ASSUME IInv, Reset PROVE IInv'
<1>1. pattern' \in Pattern
  BY PatternType DEF IInv, Reset
<1>2. /\ drx' \in 0 .. LineLen - 1 /\ dry' \in 0 .. Lines - 1
      /\ fetched_ct' \in 0 .. MaxFetch /\ batch_ct' \in 0 .. 3 /\ sprite_ct' \in 0 .. MaxFetch
  BY DEF Reset
<1>3. /\ render_oam_addr' \in Byte
      /\ fetched_data' \in [Index -> Byte]
      /\ sprite_row' \in [Slot -> [0 .. 1 -> Byte]]
      /\ sprite_pat' \in [Slot -> [0 .. 1 -> Pattern \cup {Empty}]]
  BY ClearedTypes DEF Reset
<1>4. /\ alt_s0' \in BOOLEAN /\ s0' \in BOOLEAN /\ stable' \in BOOLEAN
  BY DEF Reset
<1>5. oam_out' \in Byte /\ oam' \in [Byte -> Byte] /\ state' \in State /\ start' \in Byte
  BY DEF IInv, TypeOK, Reset
<1>6. TypeOK'
  BY <1>1, <1>2, <1>3, <1>4, <1>5 DEF TypeOK
<1> QED
  BY <1>6 DEF IInv, TypeOK, InPlace, InTime, Reset, Byte

\* The invariant holds in every reachable state.
THEOREM Invariance == Spec => []IInv
<1>1. Init => IInv
  BY InitIInv
<1>2. IInv /\ [Next]_vars => IInv'
  <2> SUFFICES ASSUME IInv, [Next]_vars PROVE IInv'
    OBVIOUS
  <2>1. CASE Next
    BY <2>1, ClockIInv, WriteIInv, ResetIInv DEF Next
  <2>2. CASE UNCHANGED vars
    BY <2>2 DEF IInv, TypeOK, InPlace, InTime, vars, scanVars, drawVars, histVars
  <2> QED
    BY <2>1, <2>2
<1> QED
  BY <1>1, <1>2, PTL DEF Spec

\* The registers of the scan never leave their range: neither does the address
\* run past OAM nor the count past the slots (ppu.sv:476,482,489).
THEOREM TypeCorrect == Spec => []TypeOK
<1>1. IInv => TypeOK
  BY DEF IInv
<1> QED
  BY <1>1, Invariance, PTL

\* However many sprites a line has and whatever is written to OAM meanwhile,
\* the scan is at rest when its part of the line is over (ppu.sv:520).
THEOREM ScanEnds == Spec => []ScanEndsInTime
<1>1. IInv => ScanEndsInTime
  <2> SUFFICES ASSUME IInv, dry < Picture, ScanEnd <= drx PROVE state = "IDL"
    BY DEF ScanEndsInTime
  <2> QED
    BY StillScanning DEF scanning, IInv, TypeOK
<1> QED
  BY <1>1, Invariance, PTL

-----------------------------------------------------------------------------
(* The sprite-0 bit.                                                       *)

\* A new line finds the scan at rest, unless reset has just begun the frame
\* under it.
RestInv == drx = 0 /\ (dry # 0 \/ stable) => state = "IDL"

\* Where nothing is handed over a reset may leave a sprite that was never
\* counted; everywhere else the bit comes with one.
CountInv ==
  dry # 0 /\ (drx # 0 \/ dry >= Picture) =>
    (alt_s0 \/ state \in {"LATCH", "INCR_RD"} => fetched_ct > 0)

\* The last line of the picture looks for nothing.
LastInv ==
  dry = Picture - 1 /\ drx # 0 =>
    fetched_ct = 0 /\ ~alt_s0 /\ state \in {"IDL", "MAINRD"}

\* So the slots are empty from the end of that line to that of the second one.
BlankInv ==
  /\ s0 => sprite_ct > 0
  /\ dry = Picture - 1 /\ drx > HandAt => sprite_ct = 0 /\ ~s0
  /\ dry >= Picture \/ dry = 0 \/ (dry = 1 /\ drx <= HandAt) => sprite_ct = 0 /\ ~s0

SlotInv == RestInv /\ CountInv /\ LastInv /\ BlankInv

\* The raster moves on by one, or to the next line.
LEMMA Raster ==
  ASSUME TypeOK, NextPixel
  PROVE  /\ drx \in Nat /\ dry \in Nat /\ drx < LineLen /\ dry < Lines
         /\ drx' # 0 => drx' = drx + 1 /\ dry' = dry /\ drx # LineLen - 1
         /\ drx' = 0 => drx = LineLen - 1 /\ (dry' = dry + 1 \/ (dry = Lines - 1 /\ dry' = 0))
BY DEF TypeOK, NextPixel, HandEnd

\* Which is at rest when it gets there.
LEMMA ClockRest == ASSUME IInv, Clock PROVE RestInv'
<1> SUFFICES ASSUME drx' = 0 PROVE state' = "IDL"
  BY DEF RestInv
<1>1. PICK a \in StartAddr : NextPixel /\ StepScan(a)
  BY DEF Clock
<1>2. drx = LineLen - 1 /\ drx >= ScanEnd
  BY <1>1, Raster DEF IInv
<1>3. state = "IDL" /\ ~scanning
  BY <1>2, StillScanning DEF IInv, TypeOK, scanning
<1> QED
  BY <1>1, <1>3 DEF StepScan, scanVars

\* The clocks of the scan keep the count and the bit together.
LEMMA ClockCount == ASSUME IInv, RestInv, CountInv, Clock PROVE CountInv'
<1> PICK a \in StartAddr : NextPixel /\ StepScan(a)
  BY DEF Clock
<1> SUFFICES ASSUME dry' # 0, drx' # 0 \/ dry' >= Picture,
                    alt_s0' \/ state' \in {"LATCH", "INCR_RD"}
             PROVE  fetched_ct' > 0
  BY DEF CountInv
<1>0. /\ drx \in Nat /\ dry \in Nat /\ fetched_ct \in Nat
      /\ (drx' # 0 => drx' = drx + 1 /\ dry' = dry /\ drx # LineLen - 1)
      /\ (drx' = 0 => drx = LineLen - 1 /\ (dry' = dry + 1 \/ (dry = Lines - 1 /\ dry' = 0)))
  BY Raster DEF IInv, TypeOK
<1>1. CASE scanning
  <2>1. drx' = drx + 1 /\ dry' = dry /\ dry # 0
    BY <1>0, <1>1 DEF scanning, HandEnd
  <2>2. CASE drx = 0
    <3>1. state = "IDL"
      BY <2>1, <2>2 DEF RestInv
    <3>2. Begin(a)
      BY <1>1, <2>2, <3>1 DEF StepScan, Stay, MainRead, Hit, Miss, Latch, IncrRead
    <3> QED
      BY <3>2 DEF Begin
  <2>3. CASE drx # 0
    <3>1. alt_s0 \/ state \in {"LATCH", "INCR_RD"} => fetched_ct > 0
      BY <2>1, <2>3 DEF CountInv
    <3>2. CASE state = "EVAL"
      BY <1>0, <1>1, <3>1, <3>2 DEF StepScan, Begin, Stay, MainRead, Hit, Miss, Latch, IncrRead
    <3>3. CASE state # "EVAL"
      BY <1>1, <2>3, <3>1, <3>3 DEF StepScan, Begin, Stay, MainRead, Hit, Miss, Latch, IncrRead, scanVars
    <3> QED
      BY <3>2, <3>3
  <2> QED
    BY <2>2, <2>3
<1>2. CASE ~scanning
  <2>1. UNCHANGED scanVars
    BY <1>2 DEF StepScan
  <2>2. dry # 0 /\ (drx # 0 \/ dry >= Picture)
    <3>1. CASE drx' = 0
      <4>1. drx # 0 /\ dry' >= Picture /\ dry' = dry + 1
        BY <1>0, <3>1 DEF HandEnd
      <4>2. Picture # 1
        BY SizesAssumption
      <4> QED
        BY <1>0, <4>1, <4>2
    <3>2. CASE drx' # 0
      <4>1. drx = 0 => dry >= Picture
        BY <1>0, <1>2 DEF scanning
      <4> QED
        BY <1>0, <3>2, <4>1
    <3> QED
      BY <3>1, <3>2
  <2> QED
    BY <2>1, <2>2 DEF CountInv, scanVars
<1> QED
  BY <1>1, <1>2

\* On the last line the first clock clears the count, and none is added.
LEMMA ClockLast == ASSUME IInv, RestInv, LastInv, Clock PROVE LastInv'
<1> PICK a \in StartAddr : NextPixel /\ StepScan(a)
  BY DEF Clock
<1> SUFFICES ASSUME dry' = Picture - 1, drx' # 0
             PROVE  fetched_ct' = 0 /\ ~alt_s0' /\ state' \in {"IDL", "MAINRD"}
  BY DEF LastInv
<1>0. drx \in Nat /\ dry = Picture - 1 /\ dry # 0 /\ drx' = drx + 1
  <2>1. Picture # 1
    BY SizesAssumption
  <2> QED
    BY <2>1, Raster DEF IInv
<1>1. CASE drx = 0
  <2>1. state = "IDL" /\ scanning
    BY <1>0, <1>1 DEF RestInv, scanning
  <2>2. Begin(a)
    BY <1>1, <2>1 DEF StepScan, Stay, MainRead, Hit, Miss, Latch, IncrRead
  <2> QED
    BY <2>2 DEF Begin
<1>2. CASE drx # 0
  BY <1>0, <1>2 DEF LastInv, StepScan, Begin, Stay, MainRead, Hit, Miss, Latch, IncrRead, scanVars
<1> QED
  BY <1>1, <1>2

\* The count and the bit are handed over in one clock of every second line.
LEMMA HandOverAt ==
  ASSUME TypeOK, StepHandOver
  PROVE  IF dry < Picture /\ dry % 2 = 1 /\ drx = HandAt
         THEN HandRows ELSE sprite_ct' = sprite_ct /\ s0' = s0
<1>1. CASE dry < Picture /\ dry % 2 = 1 /\ drx = HandAt
  <2>1. handing
    BY <1>1 DEF handing, HandEnd
  <2> QED
    BY <1>1, <2>1 DEF StepHandOver
<1>2. CASE ~(dry < Picture /\ dry % 2 = 1 /\ drx = HandAt)
  BY <1>2 DEF StepHandOver, handing, HandPattern, drawVars
<1> QED
  BY <1>1, <1>2

\* So nothing is drawn that was not found, and nothing in vertical blank.
LEMMA ClockBlank == ASSUME IInv, CountInv, LastInv, BlankInv, Clock PROVE BlankInv'
<1>0. NextPixel /\ StepHandOver /\ TypeOK
  BY DEF Clock, IInv
<1>1. /\ drx \in Nat /\ dry \in Nat /\ drx < LineLen /\ dry < Lines
      /\ drx' # 0 => drx' = drx + 1 /\ dry' = dry /\ drx # LineLen - 1
      /\ drx' = 0 => drx = LineLen - 1 /\ (dry' = dry + 1 \/ (dry = Lines - 1 /\ dry' = 0))
  BY <1>0, Raster
<1>2. CASE dry < Picture /\ dry % 2 = 1 /\ drx = HandAt
  <2>1. sprite_ct' = fetched_ct /\ s0' = alt_s0
    BY <1>0, <1>2, HandOverAt DEF HandRows
  <2>2. drx' = drx + 1 /\ dry' = dry /\ dry # 0 /\ drx # 0
    BY <1>1, <1>2
  <2>3. s0' => sprite_ct' > 0
    BY <2>1, <2>2 DEF CountInv
  <2>4. dry = Picture - 1 => sprite_ct' = 0 /\ ~s0'
    BY <2>1, <2>2 DEF LastInv
  <2>5. ~(dry' >= Picture \/ dry' = 0 \/ (dry' = 1 /\ drx' <= HandAt))
    BY <1>1, <1>2, <2>2
  <2> QED
    BY <2>2, <2>3, <2>4, <2>5 DEF BlankInv
<1>3. CASE ~(dry < Picture /\ dry % 2 = 1 /\ drx = HandAt)
  <2>1. sprite_ct' = sprite_ct /\ s0' = s0
    BY <1>0, <1>3, HandOverAt
  <2>2. (Picture - 1) % 2 = 1 /\ Picture # 1
    BY SizesAssumption
  <2>3. ASSUME dry' = Picture - 1, drx' > HandAt PROVE sprite_ct = 0 /\ ~s0
    <3>1. drx' = drx + 1 /\ dry' = dry
      BY <1>1, <2>3
    <3>2. dry = Picture - 1 /\ drx > HandAt
      BY <1>1, <1>3, <2>2, <2>3, <3>1
    <3> QED
      BY <3>2 DEF BlankInv
  <2>4. ASSUME dry' >= Picture \/ dry' = 0 \/ (dry' = 1 /\ drx' <= HandAt)
        PROVE  sprite_ct = 0 /\ ~s0
    <3>1. CASE drx' = 0
      <4>1. drx > HandAt
        BY <1>1, <3>1
      <4>2. dry' = 0 => dry >= Picture
        BY <1>1, <3>1
      <4>3. dry' >= Picture => dry >= Picture \/ dry = Picture - 1
        BY <1>1, <3>1
      <4>4. dry' = 1 => dry = 0
        BY <1>1, <3>1
      <4> QED
        BY <2>4, <4>1, <4>2, <4>3, <4>4 DEF BlankInv
    <3>2. CASE drx' # 0
      <4>1. drx' = drx + 1 /\ dry' = dry
        BY <1>1, <3>2
      <4> QED
        BY <1>1, <2>4, <4>1 DEF BlankInv
    <3> QED
      BY <3>1, <3>2
  <2>5. s0' => sprite_ct' > 0
    BY <2>1 DEF BlankInv
  <2> QED
    BY <2>1, <2>3, <2>4, <2>5 DEF BlankInv
<1> QED
  BY <1>2, <1>3

\* Writes to OAM disturb none of this, and reset clears it.
LEMMA SlotStep == ASSUME IInv, SlotInv, [Next]_vars PROVE SlotInv'
<1> USE DEF SlotInv
<1>1. CASE Clock
  BY <1>1, ClockRest, ClockCount, ClockLast, ClockBlank
<1>2. ASSUME NEW w \in OamWrites, Write(w) PROVE SlotInv'
  BY <1>2 DEF Write, scanVars, drawVars, RestInv, CountInv, LastInv, BlankInv
<1>3. CASE Reset
  <2>1. drx' = 0 /\ dry' = 0 /\ stable' = FALSE /\ sprite_ct' = 0 /\ s0' = FALSE
    BY <1>3 DEF Reset
  <2> QED
    BY <2>1 DEF RestInv, CountInv, LastInv, BlankInv
<1>4. CASE UNCHANGED vars
  BY <1>4 DEF vars, scanVars, drawVars, histVars, RestInv, CountInv, LastInv, BlankInv
<1> QED
  BY <1>1, <1>2, <1>3, <1>4 DEF Next

\* It always holds.
LEMMA SlotInvariance == Spec => []SlotInv
<1>1. Init => SlotInv
  BY DEF Init, SlotInv, RestInv, CountInv, LastInv, BlankInv
<1>2. IInv /\ SlotInv /\ [Next]_vars => SlotInv'
  BY SlotStep
<1> QED
  BY <1>1, <1>2, Invariance, PTL DEF Spec

\* The sprite-0 bit never stands for an empty line, whatever is written to OAM
\* meanwhile and wherever reset strikes (ppu.sv:551-552,564).
THEOREM SpriteZeroDrawn == Spec => []SpriteZeroIsDrawn
<1>1. SlotInv => SpriteZeroIsDrawn
  BY DEF SlotInv, BlankInv, SpriteZeroIsDrawn
<1> QED
  BY <1>1, SlotInvariance, PTL

\* No sprite lives on in vertical blank or in the first line of the next frame
\* (ppu.sv:476,704).
THEOREM BlankIsEmpty == Spec => []NoneInBlank
<1>1. SlotInv => NoneInBlank
  BY DEF SlotInv, BlankInv, NoneInBlank
<1> QED
  BY <1>1, SlotInvariance, PTL
-----------------------------------------------------------------------------
(* The slots.                                                              *)

\* The byte of OAM at which the sprite begins that the scan is at.
base == IF state \in {"LATCH", "INCR_RD"} THEN render_oam_addr - batch_ct ELSE render_oam_addr

\* The first n bytes of slot k are those of the sprite at b.
Holds(k, b, n) == \A i \in 0 .. 3 : i < n => fetched_data[4 * k + i] = oam[b + i]

\* The slots hold the sprites of the line below x, in their order.
HeldBelow(x) == \A h \in Hits : h < x => Holds(Rank(h), h, 4)

\* The scan has this line to itself: it began here and OAM has not changed.
undisturbed == stable /\ dry < Picture /\ drx # 0

\* What a running scan has done so far, and what it is about to use.
RunInv ==
  /\ start <= base /\ (base - start) % 4 = 0
  /\ HeldBelow(base)
  /\ alt_s0 <=> 0 \in Hits /\ 0 < render_oam_addr
  /\ state \in {"EVAL", "LATCH"} => oam_out = oam[render_oam_addr]
  /\ state = "EVAL" => dry # Picture - 1
  /\ state \in {"MAINRD", "EVAL"} => fetched_ct = Rank(base)
  /\ state \in {"LATCH", "INCR_RD"} =>
       base \in Hits /\ fetched_ct = Rank(base) + 1 /\ Holds(Rank(base), base, batch_ct)

\* What a scan that is over has done.
OverInv ==
  /\ fetched_ct = Cardinality(Shown)
  /\ \A h \in Shown : Holds(Rank(h), h, 4)
  /\ alt_s0 <=> 0 \in Shown

ScanInv == undisturbed => IF state = "IDL" THEN OverInv ELSE RunInv

\* What slot k should draw in plane j.
byteOf(k, j) ==
  IF k < sprite_ct
  THEN [tile |-> fetched_data[4 * k + 1], plane |-> j, y |-> sprite_fetch_y(k)] ELSE Empty

\* The slots are filled from the first one on; each pattern byte arrives one
\* clock after it was asked for.
HandInv ==
  dry < Picture /\ dry % 2 = 1 /\ HandAt < drx /\ drx <= HandEnd =>
    /\ sprite_ct = fetched_ct /\ s0 = alt_s0
    /\ \A k \in Slot, j \in 0 .. 1 :
         /\ sprite_row[k][j] = fetched_data[4 * k + 2 + j]
         /\ 4 * k + 2 * j + 1 < backshift => sprite_pat[k][j] = byteOf(k, j)
    /\ backshift % 2 = 1 =>
         pattern = [tile |-> fetched_data[4 * slot + 1],
                    plane |-> (backshift % 4) \div 2, y |-> sprite_fetch_y(slot)]

\* Where the sprites of the line are, and how they are counted.
HitsFacts ==
  /\ Hits \in SUBSET Nat /\ IsFiniteSet(Hits)
  /\ \A h \in Hits : /\ h \in Byte /\ start <= h /\ h <= Size - 4 /\ (h - start) % 4 = 0
                     /\ oam[h] <= rel_addr /\ rel_addr <= oam[h] + Height - 1
  /\ \A b \in Sprites :
       dry # Picture - 1 /\ oam[b] <= rel_addr /\ rel_addr <= oam[b] + Height - 1 => b \in Hits
  /\ dry = Picture - 1 => Hits = {}
  /\ \A x : Rank(x) = Cardinality(Below(Hits, x))
  /\ \A x : Rank(x) \in Nat

\* These hold in every state.
LEMMA HitsAre == TypeOK => HitsFacts
<1> SUFFICES ASSUME TypeOK PROVE HitsFacts
  OBVIOUS
<1>1. Hits \in SUBSET Byte
  BY DEF Hits, Sprites
<1>2. IsFiniteSet(Byte)
  BY FS_Interval DEF Byte
<1>3. IsFiniteSet(Hits)
  BY <1>1, <1>2, FS_Subset
<1>4. \A x : Rank(x) = Cardinality(Below(Hits, x))
  BY DEF Rank, Below
<1>5. \A x : Rank(x) \in Nat
  BY <1>3, <1>4, BelowCount
<1>6. Hits \in SUBSET Nat
  BY <1>1 DEF Byte
<1>7. \A h \in Hits : /\ h \in Byte /\ start <= h /\ h <= Size - 4 /\ (h - start) % 4 = 0
                      /\ oam[h] <= rel_addr /\ rel_addr <= oam[h] + Height - 1
  BY DEF Hits, Sprites
<1>8. \A b \in Sprites :
        dry # Picture - 1 /\ oam[b] <= rel_addr /\ rel_addr <= oam[b] + Height - 1 => b \in Hits
  BY DEF Hits
<1>9. dry = Picture - 1 => Hits = {}
  BY DEF Hits
<1> QED
  BY <1>3, <1>4, <1>5, <1>6, <1>7, <1>8, <1>9 DEF HitsFacts

\* In the next one too.
LEMMA HitsWillBe == TypeOK' => HitsFacts'
BY HitsAre, PTL

\* The next sprite is four bytes on.
LEMMA FourApart ==
  ASSUME NEW s \in Nat, NEW x \in Nat, NEW h \in Nat, s <= x, s <= h,
         (x - s) % 4 = 0, (h - s) % 4 = 0
  PROVE  (x < h => x + 4 <= h) /\ ((x + 4) - s) % 4 = 0
<1>1. PICK m \in Nat : x = s + m
  <2>1. x - s \in Nat /\ x = s + (x - s)
    BY SMT
  <2> QED
    BY <2>1
<1>2. PICK n \in Nat : h = s + n
  <2>1. h - s \in Nat /\ h = s + (h - s)
    BY SMT
  <2> QED
    BY <2>1
<1>3. m % 4 = 0 /\ n % 4 = 0 /\ x - s = m /\ h - s = n /\ (x + 4) - s = m + 4
  BY <1>1, <1>2
<1>4. (m < n => m + 4 <= n) /\ (m + 4) % 4 = 0
  BY <1>3, SMT
<1> QED
  BY <1>1, <1>2, <1>3, <1>4

\* The eight-bit sum does not wrap on a line of the picture.
LEMMA CrossesIs ==
  ASSUME TypeOK, dry < Picture, NEW y \in Byte
  PROVE  Crosses(y) <=> y <= rel_addr /\ rel_addr <= y + Height - 1
<1>1. rel_addr \in Nat /\ rel_addr < Picture \div 2 /\ Picture \div 2 + Height <= Size
  BY SizesAssumption DEF TypeOK, rel_addr
<1>2. CASE y <= rel_addr
  <2>1. y + Height - 1 \in Nat /\ y + Height - 1 < Size
    BY <1>1, <1>2 DEF Byte
  <2>2. (y + Height - 1) % Size = y + Height - 1
    BY <2>1, RemainderOfSize
  <2> QED
    BY <2>2 DEF Crosses
<1>3. CASE ~(y <= rel_addr)
  BY <1>3 DEF Crosses
<1> QED
  BY <1>2, <1>3

\* A scan that has passed all sprites of the line, or as many as there are
\* slots, has seen those that are to be shown.
LEMMA Finished ==
  ASSUME TypeOK, NEW x \in Nat, Rank(x) <= MaxFetch,
         (\A h \in Hits : h < x) \/ Rank(x) = MaxFetch
  PROVE  /\ Shown = {h \in Hits : h < x} /\ Cardinality(Shown) = Rank(x)
<1>1. HitsFacts
  BY HitsAre
<1>2. Hits \in SUBSET Nat /\ IsFiniteSet(Hits) /\ \A y : Rank(y) = Cardinality(Below(Hits, y))
  BY <1>1 DEF HitsFacts
<1>3. {h \in Hits : Cardinality(Below(Hits, h)) < MaxFetch} = Below(Hits, x)
  BY <1>2, BelowIsFirst
<1>4. Shown = {h \in Hits : Cardinality(Below(Hits, h)) < MaxFetch}
  BY <1>2, Zenon DEF Shown
<1>5. Shown = Below(Hits, x)
  BY <1>3, <1>4
<1>6. Cardinality(Shown) = Rank(x)
  BY <1>2, <1>5
<1> QED
  BY <1>5, <1>6 DEF Below

\* Inside a line nothing moves under an undisturbed scan.
LEMMA Undisturbed ==
  ASSUME IInv, Clock, undisturbed', drx # 0
  PROVE  /\ undisturbed /\ drx' = drx + 1 /\ dry' = dry /\ oam' = oam /\ start' = start
         /\ Hits' = Hits /\ Shown' = Shown /\ rel_addr' = rel_addr
         /\ \A x : Rank(x)' = Rank(x)
<1>1. /\ drx' = drx + 1 /\ dry' = dry /\ oam' = oam /\ dry < Picture
  <2>1. NextPixel /\ drx' # 0 /\ dry' < Picture /\ oam' = oam
    BY DEF Clock, undisturbed
  <2> QED
    BY <2>1, Raster DEF IInv
<1>2. stable /\ start' = start
  BY DEF Clock, undisturbed
<1>3. rel_addr' = rel_addr
  BY <1>1 DEF rel_addr
<1>4. Sprites' = Sprites
  BY <1>2 DEF Sprites
<1>5. Hits' = Hits
  BY <1>1, <1>3, <1>4 DEF Hits
<1>6. \A x : Rank(x)' = Rank(x)
  BY <1>5 DEF Rank
<1>7. Shown' = Shown
  BY <1>5 DEF Shown, Rank
<1> QED
  BY <1>1, <1>2, <1>3, <1>5, <1>6, <1>7 DEF undisturbed

\* At the first clock of a line the scan has nothing behind it.
LEMMA ScanBegins ==
  ASSUME IInv, RestInv, Clock, TypeOK', undisturbed', drx = 0 PROVE ScanInv'
<1> PICK a \in StartAddr :
      /\ NextPixel /\ StepScan(a)
      /\ start'  = (IF scanning /\ drx = 0 THEN a ELSE start)
      /\ stable' = (stable \/ (scanning /\ drx = 0 /\ state = "IDL"))
  BY DEF Clock
<1>1. drx' = drx + 1 /\ dry' = dry /\ dry < Picture /\ stable'
  BY Raster DEF IInv, undisturbed
<1>2. scanning
  BY <1>1 DEF scanning
<1>3. state = "IDL"
  BY <1>1, <1>2 DEF RestInv
<1>4. Begin(a) /\ start' = a
  BY <1>2, <1>3 DEF StepScan, Stay, MainRead, Hit, Miss, Latch, IncrRead
<1>5. a \in Nat
  BY OamAssumption DEF Byte
<1>6. /\ state' = "MAINRD" /\ render_oam_addr' = a /\ fetched_ct' = 0 /\ alt_s0' = FALSE
      /\ base' = a
  BY <1>4 DEF Begin, base
<1>7. HitsFacts'
  BY HitsWillBe
<1>8. /\ Hits' \in SUBSET Nat /\ \A h \in Hits' : a <= h
      /\ \A x : Rank(x)' = Cardinality(Below(Hits', x))
  BY <1>4, <1>7, Zenon DEF HitsFacts
<1>9. Rank(a)' = 0
  BY <1>5, <1>8, BelowNothing
<1>10. \A h \in Hits' : ~(h < a)
  BY <1>5, <1>8
<1>11. (a - a) % 4 = 0 /\ a <= a
  BY <1>5
<1>12. ~(0 \in Hits' /\ 0 < a)
  BY <1>10
<1>13. HeldBelow(base)'
  BY <1>6, <1>10, Zenon DEF HeldBelow
<1>14. Rank(base)' = 0
  BY <1>6, <1>9 DEF Rank
<1>15. RunInv'
  BY <1>4, <1>6, <1>11, <1>12, <1>13, <1>14, Zenon DEF RunInv
<1> QED
  BY <1>6, <1>15 DEF ScanInv

\* The byte a scan stands on is where a sprite may begin.
LEMMA BaseIs ==
  ASSUME IInv, undisturbed, RunInv, state # "IDL"
  PROVE  /\ base \in Nat /\ base < Size
         /\ \A h \in Hits : base < h => base + 4 <= h
         /\ start <= base + 4 /\ ((base + 4) - start) % 4 = 0
         /\ state \in {"MAINRD", "EVAL"} => base = render_oam_addr
         /\ state = "EVAL" => base \in Sprites
         /\ state \in {"LATCH", "INCR_RD"} => render_oam_addr = base + batch_ct
<1>0. render_oam_addr \in Nat /\ render_oam_addr < Size /\ batch_ct \in Nat /\ start \in Nat
  BY DEF IInv, TypeOK, Byte
<1>1. start <= base /\ (base - start) % 4 = 0
  BY DEF RunInv
<1>2. /\ base \in Nat /\ base < Size
      /\ state \in {"MAINRD", "EVAL"} => base = render_oam_addr
      /\ state \in {"LATCH", "INCR_RD"} => render_oam_addr = base + batch_ct
  BY <1>0, <1>1 DEF base, IInv, TypeOK, State
<1>3. ASSUME NEW h \in Hits, base < h PROVE base + 4 <= h
  <2>1. h \in Nat /\ start <= h /\ (h - start) % 4 = 0
    BY HitsAre DEF HitsFacts, IInv
  <2> QED
    BY <1>0, <1>1, <1>2, <1>3, <2>1, FourApart
<1>4. start <= base + 4 /\ ((base + 4) - start) % 4 = 0
  BY <1>0, <1>1, <1>2, FourApart
<1>5. state = "EVAL" => base \in Sprites
  BY <1>0, <1>1, <1>2 DEF Sprites, IInv, InPlace, Byte
<1> QED
  BY <1>2, <1>3, <1>4, <1>5

\* What lies below the next sprite is what lies below this one, and this one if
\* the line crosses it.
LEMMA RankOfNext ==
  ASSUME IInv, undisturbed, RunInv, state # "IDL"
  PROVE  /\ Rank(base + 4) = IF base \in Hits THEN Rank(base) + 1 ELSE Rank(base)
         /\ \A h \in Hits : h < base + 4 <=> h < base \/ h = base
         /\ \A h \in Hits : h < base => Rank(h) < Rank(base)
<1>1. HitsFacts
  BY HitsAre DEF IInv
<1>2. Hits \in SUBSET Nat /\ IsFiniteSet(Hits) /\ \A y : Rank(y) = Cardinality(Below(Hits, y))
  BY <1>1 DEF HitsFacts
<1>3. base \in Nat /\ base + 4 \in Nat /\ base < base + 4 /\ \A h \in Hits : base < h => base + 4 <= h
  BY BaseIs
<1> HIDE DEF base
<1>4. Cardinality(Below(Hits, base + 4)) =
        IF base \in Hits THEN Cardinality(Below(Hits, base)) + 1 ELSE Cardinality(Below(Hits, base))
  BY <1>2, <1>3, BelowNext
<1>5. \A h \in Hits : h < base + 4 <=> h < base \/ h = base
  BY <1>2, <1>3
<1>6. \A h \in Hits : h < base => Cardinality(Below(Hits, h)) < Cardinality(Below(Hits, base))
  BY <1>2, <1>3, BelowGrows
<1> QED
  BY <1>2, <1>4, <1>5, <1>6

\* What a running scan holds, byte by byte.
LEMMA BelowIsHeld ==
  ASSUME RunInv
  PROVE  \A h \in Hits : h < base => \A i \in 0 .. 3 : fetched_data[4 * Rank(h) + i] = oam[h + i]
<1>1. HeldBelow(base)
  BY DEF RunInv
<1>2. \A i \in 0 .. 3 : i < 4
  OBVIOUS
<1> QED
  BY <1>1, <1>2, Zenon DEF HeldBelow, Holds

\* A scan that comes to rest at x has found what is to be shown.
LEMMA ScanIsOver ==
  ASSUME IInv, Clock, undisturbed', drx # 0, state' = "IDL",
         NEW x \in Nat, Rank(x) <= MaxFetch, (\A h \in Hits : h < x) \/ Rank(x) = MaxFetch,
         fetched_ct' = Rank(x), alt_s0' <=> 0 \in Hits /\ 0 < x,
         \A h \in Hits : h < x => \A i \in 0 .. 3 : fetched_data'[4 * Rank(h) + i] = oam[h + i]
  PROVE  ScanInv'
<1>1. Shown = {h \in Hits : h < x} /\ Cardinality(Shown) = Rank(x)
  BY Finished DEF IInv
<1>2. Shown' = Shown /\ oam' = oam /\ \A h : Rank(h)' = Rank(h)
  BY Undisturbed
<1>3. fetched_ct' = Cardinality(Shown')
  BY <1>1, <1>2
<1>4. alt_s0' <=> 0 \in Shown'
  BY <1>1, <1>2
<1>5. \A h \in Shown' : Holds(Rank(h), h, 4)'
  BY <1>1, <1>2, Zenon DEF Holds
<1>6. OverInv'
  BY <1>3, <1>4, <1>5 DEF OverInv
<1> QED
  BY <1>6 DEF ScanInv

\* A scan that goes on carries with it what it has found.
LEMMA ScanGoesOn ==
  ASSUME IInv, Clock, undisturbed', drx # 0, state' # "IDL",
         NEW x \in Nat, base' = x, start <= x, (x - start) % 4 = 0,
         \A h \in Hits : h < x => \A i \in 0 .. 3 : fetched_data'[4 * Rank(h) + i] = oam[h + i],
         alt_s0' <=> 0 \in Hits /\ 0 < render_oam_addr',
         state' \in {"EVAL", "LATCH"} => oam[render_oam_addr] = oam[render_oam_addr'],
         state' = "EVAL" => dry # Picture - 1,
         state' \in {"MAINRD", "EVAL"} => fetched_ct' = Rank(x),
         state' \in {"LATCH", "INCR_RD"} =>
           /\ x \in Hits /\ fetched_ct' = Rank(x) + 1
           /\ \A i \in 0 .. 3 : i < batch_ct' => fetched_data'[4 * Rank(x) + i] = oam[x + i]
  PROVE  ScanInv'
<1>1. /\ Hits' = Hits /\ oam' = oam /\ start' = start /\ dry' = dry
      /\ \A h : Rank(h)' = Rank(h)
  BY Undisturbed
<1>2. oam_out' = oam[render_oam_addr]
  BY DEF Clock
<1>3. HeldBelow(base)'
  BY <1>1, Zenon DEF HeldBelow, Holds
<1>4. Rank(base)' = Rank(x)
  BY <1>1 DEF Rank
<1>5. state' \in {"LATCH", "INCR_RD"} => Holds(Rank(base), base, batch_ct)'
  BY <1>1, <1>4, Zenon DEF Holds
<1>6. RunInv'
  BY <1>1, <1>2, <1>3, <1>4, <1>5, Zenon DEF RunInv
<1> QED
  BY <1>6 DEF ScanInv

\* A clock in which the scan rests, asks for a byte or gets one.
LEMMA ScanWaits ==
  ASSUME IInv, ScanInv, Clock, undisturbed', drx # 0,
         (UNCHANGED scanVars /\ state = "IDL") \/ MainRead \/ IncrRead
  PROVE  ScanInv'
<1>1. /\ undisturbed /\ oam' = oam /\ Hits' = Hits /\ Shown' = Shown
      /\ \A x : Rank(x)' = Rank(x)
  BY Undisturbed
<1>2. CASE UNCHANGED scanVars /\ state = "IDL"
  BY <1>1, <1>2, Zenon DEF ScanInv, OverInv, Holds, scanVars
<1>3. CASE state # "IDL"
  <2>1. RunInv
    BY <1>1, <1>3 DEF ScanInv
  <2>2. \A h \in Hits : h < base => \A i \in 0 .. 3 : fetched_data[4 * Rank(h) + i] = oam[h + i]
    BY <2>1, BelowIsHeld
  <2>3. state # "IDL" => base \in Nat
    BY <1>1, <2>1, BaseIs
  <2>4. CASE MainRead /\ state' = "IDL"
    <3>1. /\ state = "MAINRD" /\ base = render_oam_addr /\ fetched_ct' = fetched_ct
          /\ fetched_data' = fetched_data /\ alt_s0' = alt_s0
          /\ render_oam_addr >= Size - 3 \/ dry = Picture - 1
      BY <2>4 DEF MainRead, base, IInv, TypeOK, Byte
    <3>2. fetched_ct = Rank(base) /\ (alt_s0 <=> 0 \in Hits /\ 0 < base)
      BY <2>1, <3>1 DEF RunInv
    <3>3. fetched_ct <= MaxFetch
      BY DEF IInv, TypeOK
    <3>4. \A h \in Hits : h < base
      BY <1>3, <2>3, <3>1, HitsAre DEF HitsFacts, IInv
    <3> QED
      BY <1>1, <1>3, <2>2, <2>3, <2>4, <3>1, <3>2, <3>3, <3>4, ScanIsOver, Zenon
  <2>5. CASE (MainRead /\ state' # "IDL") \/ IncrRead
    <3>0. /\ render_oam_addr' = render_oam_addr /\ fetched_ct' = fetched_ct
          /\ fetched_data' = fetched_data /\ alt_s0' = alt_s0 /\ batch_ct' = batch_ct
      BY <2>5 DEF MainRead, IncrRead
    <3>a. \/ state = "MAINRD" /\ state' = "EVAL" /\ dry # Picture - 1
          \/ state = "INCR_RD" /\ state' = "LATCH"
      BY <2>5 DEF MainRead, IncrRead
    <3>b. state' = "EVAL" => dry # Picture - 1
      BY <3>a
    <3>1. base' = base
      BY <3>0, <3>a DEF base
    <3>2. /\ start <= base /\ (base - start) % 4 = 0
          /\ alt_s0 <=> 0 \in Hits /\ 0 < render_oam_addr
          /\ state \in {"MAINRD", "EVAL"} => fetched_ct = Rank(base)
          /\ state \in {"LATCH", "INCR_RD"} =>
               /\ base \in Hits /\ fetched_ct = Rank(base) + 1
               /\ \A i \in 0 .. 3 : i < batch_ct => fetched_data[4 * Rank(base) + i] = oam[base + i]
      BY <2>1, Zenon DEF RunInv, Holds
    <3>3. /\ state' \in {"MAINRD", "EVAL"} => fetched_ct' = Rank(base)
          /\ state' \in {"LATCH", "INCR_RD"} =>
           /\ base \in Hits /\ fetched_ct' = Rank(base) + 1
           /\ \A i \in 0 .. 3 : i < batch_ct' => fetched_data'[4 * Rank(base) + i] = oam[base + i]
      BY <3>0, <3>a, <3>1, <3>2, Zenon
    <3>4. state' # "IDL" /\ (alt_s0' <=> 0 \in Hits /\ 0 < render_oam_addr')
      BY <3>0, <3>a, <3>2
    <3>5. \A h \in Hits : h < base => \A i \in 0 .. 3 : fetched_data'[4 * Rank(h) + i] = oam[h + i]
      BY <2>2, <3>0
    <3>6. base \in Nat
      BY <1>3, <2>3
    <3> HIDE DEF base
    <3> QED
      BY <3>0, <3>b, <3>1, <3>2, <3>3, <3>4, <3>5, <3>6, ScanGoesOn, Zenon
  <2> QED
    BY <1>3, <2>4, <2>5
<1> QED
  BY <1>2, <1>3 DEF MainRead, IncrRead

\* The line crosses the sprite the scan is at: it is to be kept.
LEMMA ScanHits ==
  ASSUME IInv, ScanInv, Clock, undisturbed', drx # 0, Hit
  PROVE  ScanInv'
<1>1. /\ state = "EVAL" /\ state' = "LATCH" /\ batch_ct' = 0 /\ fetched_ct' = fetched_ct + 1
      /\ render_oam_addr' = render_oam_addr /\ fetched_data' = fetched_data /\ alt_s0' = alt_s0
      /\ Crosses(oam_out)
  BY DEF Hit
<1>2. undisturbed
  BY Undisturbed
<1>3. RunInv
  BY <1>1, <1>2 DEF ScanInv
<1>4. base \in Nat /\ base = render_oam_addr /\ base \in Sprites
  BY <1>1, <1>2, <1>3, BaseIs
<1>5. base' = base
  <2>1. base' = render_oam_addr' - batch_ct'
    BY <1>1 DEF base
  <2> QED
    BY <1>1, <1>4, <2>1
<1>6. base \in Hits
  <2>1. oam_out = oam[base] /\ dry # Picture - 1 /\ oam_out \in Byte
    BY <1>1, <1>3, <1>4 DEF RunInv, IInv, TypeOK
  <2>2. oam[base] <= rel_addr /\ rel_addr <= oam[base] + Height - 1
    BY <1>1, <1>2, <2>1, CrossesIs DEF IInv, undisturbed
  <2> QED
    BY <1>4, <2>1, <2>2, HitsAre, Zenon DEF HitsFacts, IInv
<1>7. /\ start <= base /\ (base - start) % 4 = 0
      /\ alt_s0 <=> 0 \in Hits /\ 0 < render_oam_addr
      /\ fetched_ct = Rank(base)
  BY <1>1, <1>3 DEF RunInv
<1>8. \A h \in Hits : h < base => \A i \in 0 .. 3 : fetched_data'[4 * Rank(h) + i] = oam[h + i]
  BY <1>1, <1>3, BelowIsHeld
<1>9. \A i \in 0 .. 3 : i < batch_ct' => fetched_data'[4 * Rank(base) + i] = oam[base + i]
  BY <1>1
<1>10. fetched_ct' = Rank(base) + 1
  BY <1>1, <1>7
<1> HIDE DEF base
<1> QED
  BY <1>1, <1>4, <1>5, <1>6, <1>7, <1>8, <1>9, <1>10, ScanGoesOn, Zenon

\* It does not cross it: on to the next one, if OAM has one.
LEMMA ScanMisses ==
  ASSUME IInv, ScanInv, Clock, undisturbed', drx # 0, Miss
  PROVE  ScanInv'
<1>1. /\ state = "EVAL" /\ fetched_ct' = fetched_ct /\ fetched_data' = fetched_data
      /\ alt_s0' = alt_s0 /\ ~Crosses(oam_out)
  BY DEF Miss
<1>2. undisturbed
  BY Undisturbed
<1>3. RunInv
  BY <1>1, <1>2 DEF ScanInv
<1>4. /\ base \in Nat /\ base = render_oam_addr /\ base \in Sprites
      /\ start <= base + 4 /\ ((base + 4) - start) % 4 = 0
      /\ \A h \in Hits : base < h => base + 4 <= h
  BY <1>1, <1>2, <1>3, BaseIs
<1>5. base \notin Hits
  <2>1. oam_out = oam[base] /\ oam_out \in Byte
    BY <1>1, <1>3, <1>4 DEF RunInv, IInv, TypeOK
  <2>2. ~(oam[base] <= rel_addr /\ rel_addr <= oam[base] + Height - 1)
    BY <1>1, <1>2, <2>1, CrossesIs DEF IInv, undisturbed
  <2> QED
    BY <2>2, HitsAre, Zenon DEF HitsFacts, IInv
<1>6. /\ alt_s0 <=> 0 \in Hits /\ 0 < render_oam_addr
      /\ fetched_ct = Rank(base)
  BY <1>1, <1>3 DEF RunInv
<1>7. \A h \in Hits : h < base => \A i \in 0 .. 3 : fetched_data'[4 * Rank(h) + i] = oam[h + i]
  BY <1>1, <1>3, BelowIsHeld
<1> HIDE DEF base
<1>8. CASE render_oam_addr < Size - 7
  <2>1. (render_oam_addr + 4) % Size = base + 4
    <3>1. base + 4 \in Nat /\ base + 4 < Size
      BY <1>4, <1>8
    <3> QED
      BY <1>4, <3>1, RemainderOfSize
  <2>2. state' = "MAINRD" /\ render_oam_addr' = base + 4
    BY <1>8, <2>1 DEF Miss
  <2>3. base' = base + 4
    BY <2>2 DEF base
  <2>4. Rank(base + 4) = Rank(base) /\ \A h \in Hits : h < base + 4 => h < base
    BY <1>1, <1>2, <1>3, <1>5, RankOfNext
  <2>5. 0 < base + 4 /\ base + 4 \in Nat
    BY <1>4
  <2>6. 0 \in Hits => 0 < base
    BY <1>4, <1>5
  <2> QED
    <3>1. alt_s0' <=> 0 \in Hits /\ 0 < render_oam_addr'
      BY <1>1, <1>4, <1>6, <2>2, <2>5, <2>6, Zenon
    <3>2. \A h \in Hits : h < base + 4 =>
            \A i \in 0 .. 3 : fetched_data'[4 * Rank(h) + i] = oam[h + i]
      BY <1>7, <2>4, Zenon
    <3>3. /\ state' # "IDL" /\ state' # "EVAL" /\ state' # "LATCH" /\ state' # "INCR_RD"
          /\ fetched_ct' = Rank(base + 4)
      BY <1>1, <1>6, <2>2, <2>4
    <3> QED
      <4>1. PICK x \in Nat : x = base + 4
        BY <2>5
      <4>a. start <= x /\ (x - start) % 4 = 0
        BY <1>4, <4>1, Zenon
      <4>2. base' = x /\ fetched_ct' = Rank(x)
        BY <4>1, <2>3, <3>3, Zenon
      <4>3. \A h \in Hits : h < x => \A i \in 0 .. 3 : fetched_data'[4 * Rank(h) + i] = oam[h + i]
        BY <3>2, <4>1
      <4> QED
        BY <3>1, <3>3, <4>a, <4>2, <4>3, ScanGoesOn, Zenon
<1>9. CASE ~(render_oam_addr < Size - 7)
  <2>1. state' = "IDL"
    BY <1>9 DEF Miss
  <2>2. \A h \in Hits : h < base
    <3> SUFFICES ASSUME NEW h \in Hits, ~(h < base) PROVE FALSE
      OBVIOUS
    <3>1. h \in Nat /\ h <= Size - 4 /\ h # base
      BY <1>5, HitsAre DEF HitsFacts, IInv
    <3>2. base + 4 <= h
      BY <1>4, <3>1
    <3> QED
      BY <1>4, <1>9, <3>1, <3>2
  <2>3. fetched_ct <= MaxFetch
    BY DEF IInv, TypeOK
  <2> QED
    BY <1>1, <1>4, <1>6, <1>7, <2>1, <2>2, <2>3, ScanIsOver, Zenon
<1> QED
  BY <1>8, <1>9

\* One byte of the sprite is kept, in its place.
LEMMA LatchStores ==
  ASSUME IInv, undisturbed, RunInv, Latch
  PROVE  /\ base \in Hits /\ fetched_ct = Rank(base) + 1
         /\ \A h \in Hits : h < base =>
              \A i \in 0 .. 3 : fetched_data'[4 * Rank(h) + i] = oam[h + i]
         /\ \A i \in 0 .. 3 : i <= batch_ct => fetched_data'[4 * Rank(base) + i] = oam[base + i]
<1>1. /\ state = "LATCH"
      /\ fetched_data' = [fetched_data EXCEPT
                            ![4 * ((fetched_ct - 1) % MaxFetch) + batch_ct] = oam_out]
  BY DEF Latch
<1>2. /\ base \in Hits /\ fetched_ct = Rank(base) + 1 /\ Holds(Rank(base), base, batch_ct)
      /\ oam_out = oam[render_oam_addr]
  BY <1>1 DEF RunInv
<1>3. base \in Nat /\ render_oam_addr = base + batch_ct
  BY <1>1, BaseIs
<1>4. /\ \A x : Rank(x) \in Nat
      /\ \A h \in Hits : h < base => Rank(h) < Rank(base)
  BY <1>1, HitsAre, RankOfNext, Zenon DEF HitsFacts, IInv
<1>5. /\ fetched_ct \in Nat /\ fetched_ct <= MaxFetch /\ batch_ct \in 0 .. 3
      /\ fetched_data \in [Index -> Byte]
  BY DEF IInv, TypeOK
<1> HIDE DEF base
<1>6. PICK r \in Nat : r = Rank(base)
  BY <1>4
<1>7. (fetched_ct - 1) % MaxFetch = r /\ 4 * r + batch_ct \in Index
  BY <1>2, <1>5, <1>6 DEF Index
<1>8. fetched_data' = [fetched_data EXCEPT ![4 * r + batch_ct] = oam[base + batch_ct]]
  BY <1>1, <1>2, <1>3, <1>7
<1>9. ASSUME NEW h \in Hits, h < base, NEW i \in 0 .. 3
      PROVE  fetched_data'[4 * Rank(h) + i] = oam[h + i]
  <2>1. PICK n \in Nat : n = Rank(h)
    BY <1>4
  <2>2. n < r
    BY <1>4, <1>6, <1>9, <2>1
  <2>3. 4 * n + i # 4 * r + batch_ct /\ 4 * n + i \in Index
    BY <1>2, <1>5, <1>6, <2>2 DEF Index
  <2>4. fetched_data[4 * n + i] = oam[h + i]
    BY <1>9, <2>1, BelowIsHeld
  <2>5. fetched_data'[4 * n + i] = fetched_data[4 * n + i]
    BY <1>5, <1>8, <2>3
  <2> QED
    BY <2>1, <2>4, <2>5
<1>10. ASSUME NEW i \in 0 .. 3, i <= batch_ct
       PROVE  fetched_data'[4 * Rank(base) + i] = oam[base + i]
  <2>1. CASE i = batch_ct
    BY <1>5, <1>6, <1>7, <1>8, <2>1
  <2>2. CASE i # batch_ct
    <3>1. i < batch_ct /\ 4 * r + i # 4 * r + batch_ct /\ 4 * r + i \in Index
      BY <1>2, <1>5, <1>6, <1>10, <2>2 DEF Index
    <3>2. fetched_data[4 * r + i] = oam[base + i]
      BY <1>2, <1>6, <3>1 DEF Holds
    <3>3. fetched_data'[4 * r + i] = fetched_data[4 * r + i]
      BY <1>5, <1>8, <3>1
    <3> QED
      BY <1>6, <3>2, <3>3
  <2> QED
    BY <2>1, <2>2
<1> QED
  BY <1>2, <1>9, <1>10

\* After the fourth byte the sprite is complete.
LEMMA ScanLatches ==
  ASSUME IInv, ScanInv, Clock, undisturbed', drx # 0, Latch
  PROVE  ScanInv'
<1>1. /\ state = "LATCH"
      /\ render_oam_addr' = (render_oam_addr + 1) % Size
      /\ batch_ct' = (batch_ct + 1) % 4 /\ fetched_ct' = fetched_ct
      /\ alt_s0' = (alt_s0 \/ render_oam_addr = 0)
  BY DEF Latch
<1>2. undisturbed
  BY Undisturbed
<1>3. RunInv
  BY <1>1, <1>2 DEF ScanInv
<1>4. /\ base \in Nat /\ base < Size /\ render_oam_addr = base + batch_ct
      /\ start <= base + 4 /\ ((base + 4) - start) % 4 = 0
      /\ start <= base /\ (base - start) % 4 = 0
  BY <1>1, <1>2, <1>3, BaseIs DEF RunInv
<1>5. /\ base \in Hits /\ fetched_ct = Rank(base) + 1
      /\ \A h \in Hits : h < base => \A i \in 0 .. 3 : fetched_data'[4 * Rank(h) + i] = oam[h + i]
      /\ \A i \in 0 .. 3 : i <= batch_ct => fetched_data'[4 * Rank(base) + i] = oam[base + i]
  BY <1>2, <1>3, LatchStores
<1>6. alt_s0 <=> 0 \in Hits /\ 0 < render_oam_addr
  BY <1>3 DEF RunInv
<1>7. batch_ct \in 0 .. 3 /\ fetched_ct <= MaxFetch /\ render_oam_addr <= Size - 4 + batch_ct
  BY <1>1 DEF IInv, TypeOK, InPlace
<1>8. alt_s0' <=> 0 \in Hits /\ 0 < render_oam_addr + 1
  <2>1. render_oam_addr = 0 => base = 0
    BY <1>4, <1>7
  <2>2. 0 < render_oam_addr + 1 /\ (0 < render_oam_addr \/ render_oam_addr = 0)
    BY <1>4, <1>7
  <2> QED
    BY <1>1, <1>5, <1>6, <2>1, <2>2
<1>9. CASE batch_ct < 3
  <2>1. render_oam_addr' = render_oam_addr + 1
    <3>1. render_oam_addr + 1 \in Nat /\ render_oam_addr + 1 < Size
      BY <1>4, <1>7, <1>9
    <3> QED
      BY <1>1, <3>1, RemainderOfSize
  <2>2. batch_ct' = batch_ct + 1 /\ state' = "INCR_RD"
    BY <1>1, <1>7, <1>9 DEF Latch
  <2>3. base' = base
    <3>1. base' = render_oam_addr' - batch_ct'
      BY <2>2 DEF base
    <3> HIDE DEF base
    <3> QED
      BY <1>4, <1>7, <2>1, <2>2, <3>1
  <2>4. \A i \in 0 .. 3 : i < batch_ct + 1 => i <= batch_ct
    BY <1>7
  <2>5. /\ state' # "IDL" /\ state' # "EVAL" /\ state' # "LATCH" /\ state' # "MAINRD"
        /\ fetched_ct' = Rank(base) + 1
    BY <1>1, <1>5, <2>2
  <2>6. \A i \in 0 .. 3 : i < batch_ct' => fetched_data'[4 * Rank(base) + i] = oam[base + i]
    BY <1>5, <2>2, <2>4, Zenon
  <2>7. alt_s0' <=> 0 \in Hits /\ 0 < render_oam_addr'
    BY <1>8, <2>1
  <2> HIDE DEF base
  <2> QED
    BY <1>4, <1>5, <2>3, <2>5, <2>6, <2>7, ScanGoesOn, Zenon
<1>10. CASE ~(batch_ct < 3)
  <2>1. batch_ct = 3 /\ render_oam_addr + 1 = base + 4 /\ base + 4 \in Nat
    BY <1>4, <1>7, <1>10
  <2>2. /\ Rank(base + 4) = Rank(base) + 1
        /\ \A h \in Hits : h < base + 4 => h < base \/ h = base
    BY <1>1, <1>2, <1>3, <1>5, RankOfNext
  <2>3. \A i \in 0 .. 3 : i <= batch_ct
    BY <2>1
  <2>4. \A h \in Hits : h < base + 4 =>
          \A i \in 0 .. 3 : fetched_data'[4 * Rank(h) + i] = oam[h + i]
    BY <1>5, <2>2, <2>3, Zenon
  <2>5. fetched_ct' = Rank(base + 4) /\ Rank(base + 4) <= MaxFetch
    BY <1>1, <1>5, <1>7, <2>2
  <2>6. CASE fetched_ct = MaxFetch \/ render_oam_addr > Size - 4
    <3>1. state' = "IDL"
      BY <1>10, <2>6 DEF Latch
    <3>2. (\A h \in Hits : h < base + 4) \/ Rank(base + 4) = MaxFetch
      <4>1. CASE render_oam_addr > Size - 4
        <5>1. \A h \in Hits : h \in Nat /\ h <= Size - 4
          BY HitsAre DEF HitsFacts, IInv
        <5> QED
          BY <1>4, <2>1, <4>1, <5>1
      <4> QED
        BY <1>1, <2>5, <2>6, <4>1
    <3>3. alt_s0' <=> 0 \in Hits /\ 0 < base + 4
      BY <1>8, <2>1
    <3> HIDE DEF base
    <3> QED
      BY <2>1, <2>4, <2>5, <3>1, <3>2, <3>3, ScanIsOver, Zenon
  <2>7. CASE ~(fetched_ct = MaxFetch \/ render_oam_addr > Size - 4)
    <3>1. state' = "MAINRD"
      BY <1>10, <2>7 DEF Latch
    <3>2. render_oam_addr' = base + 4
      <4>1. base + 4 < Size
        BY <1>4, <2>1, <2>7
      <4> QED
        BY <1>1, <2>1, <4>1, RemainderOfSize
    <3>3. base' = base + 4
      BY <3>1, <3>2 DEF base
    <3>4. /\ state' # "IDL" /\ state' # "EVAL" /\ state' # "LATCH" /\ state' # "INCR_RD"
      BY <3>1
    <3>5. alt_s0' <=> 0 \in Hits /\ 0 < render_oam_addr'
      BY <1>8, <2>1, <3>2
    <3> HIDE DEF base
    <3> QED
      <4>1. PICK x \in Nat : x = base + 4
        BY <2>1
      <4>a. start <= x /\ (x - start) % 4 = 0
        BY <1>4, <4>1, Zenon
      <4>2. base' = x /\ fetched_ct' = Rank(x)
        BY <4>1, <3>3, <2>5, Zenon
      <4>3. \A h \in Hits : h < x => \A i \in 0 .. 3 : fetched_data'[4 * Rank(h) + i] = oam[h + i]
        BY <2>4, <4>1
      <4> QED
        BY <3>4, <3>5, <4>a, <4>2, <4>3, ScanGoesOn, Zenon
  <2> QED
    BY <2>6, <2>7
<1> QED
  BY <1>9, <1>10

\* Every clock keeps the account of the scan.
LEMMA ClockScan == ASSUME IInv, TypeOK', RestInv, ScanInv, Clock PROVE ScanInv'
<1> SUFFICES ASSUME undisturbed' PROVE ScanInv'
  BY DEF ScanInv
<1>1. CASE drx = 0
  BY <1>1, ScanBegins
<1>2. CASE drx # 0
  <2> PICK a \in StartAddr : StepScan(a)
    BY DEF Clock
  <2>1. CASE ~scanning
    BY <1>2, <2>1, StillScanning, ScanWaits DEF StepScan
  <2>2. CASE scanning
    <3>1. Stay \/ MainRead \/ Hit \/ Miss \/ Latch \/ IncrRead
      BY <1>2, <2>2 DEF StepScan, Begin
    <3>2. CASE Stay \/ MainRead \/ IncrRead
      BY <1>2, <3>2, ScanWaits DEF Stay
    <3> QED
      BY <1>2, <3>1, <3>2, ScanHits, ScanMisses, ScanLatches
  <2> QED
    BY <2>1, <2>2
<1> QED
  BY <1>1, <1>2

\* A write or a reset ends the account until the next scan begins.
LEMMA ScanInvStep ==
  ASSUME IInv, TypeOK', RestInv, ScanInv, [Next]_vars PROVE ScanInv'
<1>1. ASSUME NEW w \in OamWrites, Write(w) PROVE ScanInv'
  <2>1. ~undisturbed'
    BY <1>1 DEF Write, undisturbed
  <2> QED
    BY <2>1 DEF ScanInv
<1>2. CASE Reset
  <2>1. ~undisturbed'
    BY <1>2 DEF Reset, undisturbed
  <2> QED
    BY <2>1 DEF ScanInv
<1>3. CASE UNCHANGED vars
  <2>1. /\ undisturbed' = undisturbed /\ base' = base /\ oam' = oam /\ state' = state
        /\ start' = start /\ dry' = dry /\ Hits' = Hits /\ Shown' = Shown /\ oam_out' = oam_out
        /\ \A x : Rank(x)' = Rank(x)
    BY <1>3 DEF vars, scanVars, histVars, undisturbed, base, Hits, Sprites, rel_addr, Shown, Rank
  <2>2. /\ fetched_data' = fetched_data /\ fetched_ct' = fetched_ct /\ batch_ct' = batch_ct
        /\ alt_s0' = alt_s0 /\ render_oam_addr' = render_oam_addr
    BY <1>3 DEF vars, scanVars
  <2>3. Rank(base)' = Rank(base)
    BY <2>1 DEF Rank
  <2>4. Holds(Rank(base), base, batch_ct)' = Holds(Rank(base), base, batch_ct)
    BY <2>1, <2>2, <2>3, Zenon DEF Holds
  <2>5. RunInv => RunInv'
    <3>1. HeldBelow(base) => HeldBelow(base)'
      BY <2>1, <2>2, Zenon DEF HeldBelow, Holds
    <3> HIDE DEF base
    <3> QED
      BY <2>1, <2>2, <2>3, <2>4, <3>1, Zenon DEF RunInv
  <2>6. OverInv => OverInv'
    BY <2>1, <2>2, Zenon DEF OverInv, Holds
  <2> QED
    BY <2>1, <2>5, <2>6, Zenon DEF ScanInv
<1> QED
  BY <1>1, <1>2, <1>3, ClockScan DEF Next

\* A slot's line of its tile depends on what was found only.
LEMMA LineOfSlot ==
  ASSUME fetched_data' = fetched_data, dry' = dry
  PROVE  \A k : sprite_fetch_y(k)' = sprite_fetch_y(k)
<1>1. rel_addr' = rel_addr
  BY DEF rel_addr
<1> QED
  BY <1>1, Zenon DEF sprite_fetch_y

\* From the end of the scan to that of the line, the raster just moves on.
LEMMA HandMoves ==
  ASSUME IInv, Clock, dry' < Picture, HandAt < drx'
  PROVE  /\ drx \in Nat /\ drx' = drx + 1 /\ dry' = dry /\ HandAt <= drx
         /\ UNCHANGED scanVars
<1>1. /\ drx \in Nat /\ drx' = drx + 1 /\ dry' = dry /\ HandAt <= drx
  <2>1. NextPixel /\ drx' # 0
    BY DEF Clock
  <2> QED
    BY <2>1, Raster DEF IInv
<1>2. ~scanning
  BY <1>1 DEF scanning
<1> QED
  BY <1>1, <1>2 DEF Clock, StepScan

\* A quarter of a slot: which slot, which plane, and whether the byte is there.
LEMMA Quarter ==
  ASSUME NEW b \in Nat, b < 4 * MaxFetch
  PROVE  /\ b \div 4 \in Slot /\ (b % 4) \div 2 \in 0 .. 1
         /\ b % 2 = 1 => b = 4 * (b \div 4) + 2 * ((b % 4) \div 2) + 1
         /\ b % 2 = 0 => /\ (b + 1) \div 4 = b \div 4
                         /\ ((b + 1) % 4) \div 2 = (b % 4) \div 2
                         /\ (b + 1) % 2 = 1
         /\ b % 2 = 0 \/ (b % 2 = 1 /\ (b + 1) % 2 = 0)
         /\ (IF b % 4 < 2 THEN 0 ELSE 1) = (b % 4) \div 2
BY DEF Slot

\* What a clock of the hand-over does to the slots and to the pattern byte.
LEMMA HandsOver ==
  ASSUME IInv, Clock, dry < Picture, dry % 2 = 1, HandAt <= drx, drx < HandEnd
  PROVE  /\ drx = HandAt => HandRows
         /\ drx # HandAt /\ backshift % 2 = 1 => HandPattern
         /\ drx # HandAt /\ backshift % 2 = 0 => UNCHANGED drawVars
         /\ pattern' = [tile |-> fetched_data[4 * slot + 1],
                        plane |-> (backshift % 4) \div 2, y |-> sprite_fetch_y(slot)]
<1>1. handing
  BY DEF handing
<1>2. /\ StepHandOver /\ pattern' = render_pattern_addr
  BY DEF Clock
<1>3. backshift \in Nat /\ backshift < 4 * MaxFetch
  BY DEF backshift, HandEnd, IInv, TypeOK
<1>4. /\ (IF backshift % 4 < 2 THEN 0 ELSE 1) = (backshift % 4) \div 2
      /\ backshift % 2 = 0 \/ backshift % 2 = 1
  BY <1>3, Quarter
<1>5. pattern' = [tile |-> fetched_data[4 * slot + 1],
                  plane |-> (backshift % 4) \div 2, y |-> sprite_fetch_y(slot)]
  BY <1>1, <1>2, <1>4 DEF render_pattern_addr
<1>6. drx = HandAt => HandRows
  BY <1>1, <1>2 DEF StepHandOver
<1>7. drx # HandAt /\ backshift % 2 = 1 => HandPattern
  <2>1. backshift % 2 = 1 => ~(backshift % 2 = 0)
    BY <1>3
  <2> QED
    BY <1>1, <1>2, <2>1, Zenon DEF StepHandOver
<1>8. drx # HandAt /\ backshift % 2 = 0 => UNCHANGED drawVars
  <2>1. backshift % 2 = 0 => ~(backshift % 2 = 1)
    BY <1>3
  <2> QED
    BY <1>1, <1>2, <2>1, Zenon DEF StepHandOver, HandPattern
<1> QED
  BY <1>5, <1>6, <1>7, <1>8

\* The slots are filled in their order.
LEMMA ClockHand == ASSUME IInv, HandInv, Clock PROVE HandInv'
<1> SUFFICES ASSUME dry' < Picture, dry' % 2 = 1, HandAt < drx', drx' <= HandEnd
             PROVE  /\ sprite_ct' = fetched_ct' /\ s0' = alt_s0'
                    /\ \A k \in Slot, j \in 0 .. 1 :
                         /\ sprite_row'[k][j] = fetched_data'[4 * k + 2 + j]
                         /\ 4 * k + 2 * j + 1 < backshift' => sprite_pat'[k][j] = byteOf(k, j)'
                    /\ backshift' % 2 = 1 =>
                         pattern' = [tile |-> fetched_data'[4 * slot' + 1],
                                     plane |-> (backshift' % 4) \div 2, y |-> sprite_fetch_y(slot)']
  BY DEF HandInv
<1>1. /\ drx \in Nat /\ drx' = drx + 1 /\ dry' = dry /\ HandAt <= drx /\ UNCHANGED scanVars
  BY HandMoves
<1>2. /\ fetched_data' = fetched_data /\ fetched_ct' = fetched_ct /\ alt_s0' = alt_s0
      /\ dry < Picture /\ dry % 2 = 1 /\ drx < HandEnd
  BY <1>1 DEF scanVars, HandEnd
<1>3. /\ drx = HandAt => HandRows
      /\ drx # HandAt /\ backshift % 2 = 1 => HandPattern
      /\ drx # HandAt /\ backshift % 2 = 0 => UNCHANGED drawVars
      /\ pattern' = [tile |-> fetched_data[4 * slot + 1],
                     plane |-> (backshift % 4) \div 2, y |-> sprite_fetch_y(slot)]
  BY <1>1, <1>2, HandsOver
<1>4. PICK b \in Nat : b = backshift /\ b < 4 * MaxFetch /\ backshift' = b + 1 /\ (drx = HandAt <=> b = 0)
  BY <1>1, <1>2 DEF backshift, HandEnd
<1>5. slot = b \div 4 /\ slot' = (b + 1) \div 4
  BY <1>4 DEF slot
<1>6. \A k : sprite_fetch_y(k)' = sprite_fetch_y(k)
  BY <1>1, <1>2, LineOfSlot
<1>7. b % 2 = 0 \/ (b % 2 = 1 /\ (b + 1) % 2 = 0)
  BY <1>4, Quarter
<1>8. backshift' % 2 = 1 =>
        pattern' = [tile |-> fetched_data'[4 * slot' + 1],
                    plane |-> (backshift' % 4) \div 2, y |-> sprite_fetch_y(slot)']
  <2> SUFFICES ASSUME b % 2 = 0
               PROVE  pattern' = [tile |-> fetched_data'[4 * slot' + 1],
                                  plane |-> (backshift' % 4) \div 2, y |-> sprite_fetch_y(slot)']
    BY <1>4, <1>7
  <2>1. slot' = slot /\ (backshift' % 4) \div 2 = (backshift % 4) \div 2
    BY <1>4, <1>5, Quarter
  <2>2. sprite_fetch_y(slot)' = sprite_fetch_y(slot)
    BY <1>2, <1>1, <2>1 DEF sprite_fetch_y, rel_addr
  <2> QED
    BY <1>2, <1>3, <2>1, <2>2
<1>9. CASE b = 0
  <2>1. sprite_ct' = fetched_ct' /\ s0' = alt_s0'
    BY <1>2, <1>3, <1>4, <1>9 DEF HandRows
  <2>2. \A k \in Slot, j \in 0 .. 1 : sprite_row'[k][j] = fetched_data'[4 * k + 2 + j]
    <3>1. HandRows
      BY <1>3, <1>4, <1>9
    <3>2. sprite_row' = [k \in Slot |-> [j \in 0 .. 1 |-> fetched_data[4 * k + 2 + j]]]
      BY <3>1 DEF HandRows
    <3> QED
      BY <1>2, <3>2, Zenon
  <2>3. \A k \in Slot, j \in 0 .. 1 : ~(4 * k + 2 * j + 1 < backshift')
    <3>1. \A k \in Slot, j \in 0 .. 1 : ~(4 * k + 2 * j + 1 < b + 1)
      BY <1>9 DEF Slot
    <3> QED
      BY <1>4, <3>1, Zenon
  <2> QED
    BY <1>8, <2>1, <2>2, <2>3, Zenon
<1>10. CASE b # 0
  <2>0. HandAt < drx /\ drx <= HandEnd
    BY <1>1, <1>2, <1>4, <1>10 DEF HandEnd
  <2>1. /\ sprite_ct = fetched_ct /\ s0 = alt_s0
        /\ \A k \in Slot, j \in 0 .. 1 :
             /\ sprite_row[k][j] = fetched_data[4 * k + 2 + j]
             /\ 4 * k + 2 * j + 1 < b => sprite_pat[k][j] = byteOf(k, j)
        /\ b % 2 = 1 =>
             pattern = [tile |-> fetched_data[4 * slot + 1],
                        plane |-> (b % 4) \div 2, y |-> sprite_fetch_y(slot)]
    BY <1>2, <1>4, <2>0, Zenon DEF HandInv
  <2>2. UNCHANGED <<sprite_row, sprite_ct, s0>>
    BY <1>3, <1>4, <1>7, <1>10 DEF HandPattern, drawVars
  <2>3. \A k, j : byteOf(k, j)' = byteOf(k, j)
    BY <1>2, <1>6, <2>2, Zenon DEF byteOf
  <2>4. \A k \in Slot, j \in 0 .. 1 : 4 * k + 2 * j + 1 < b + 1 => sprite_pat'[k][j] = byteOf(k, j)
    <3>1. CASE b % 2 = 0
      <4>1. \A k \in Slot, j \in 0 .. 1 : 4 * k + 2 * j + 1 < b + 1 => 4 * k + 2 * j + 1 < b
        BY <3>1 DEF Slot
      <4>2. sprite_pat' = sprite_pat
        BY <1>3, <1>4, <1>10, <3>1 DEF drawVars
      <4> QED
        BY <2>1, <4>1, <4>2, Zenon
    <3>2. CASE b % 2 = 1
      <4>1. /\ sprite_pat' = [sprite_pat EXCEPT
                  ![slot][(b % 4) \div 2] = IF slot < sprite_ct THEN pattern ELSE Empty]
            /\ pattern = [tile |-> fetched_data[4 * slot + 1],
                          plane |-> (b % 4) \div 2, y |-> sprite_fetch_y(slot)]
        BY <1>3, <1>4, <1>10, <2>1, <3>2 DEF HandPattern
      <4>2. slot \in Slot /\ (b % 4) \div 2 \in 0 .. 1 /\ b = 4 * slot + 2 * ((b % 4) \div 2) + 1
        BY <1>4, <1>5, <3>2, Quarter
      <4>3. PICK p \in 0 .. 1 : p = (b % 4) \div 2
        BY <4>2
      <4>4. PICK q \in Slot : q = slot
        BY <4>2
      <4>5. b = 4 * q + 2 * p + 1
        BY <4>2, <4>3, <4>4
      <4>6. sprite_pat' = [sprite_pat EXCEPT ![q][p] = byteOf(q, p)]
        BY <4>1, <4>3, <4>4, Zenon DEF byteOf
      <4>7. sprite_pat \in [Slot -> [0 .. 1 -> Pattern \cup {Empty}]]
        BY DEF IInv, TypeOK
      <4>8. ASSUME NEW k \in Slot, NEW j \in 0 .. 1, 4 * k + 2 * j + 1 < b + 1
            PROVE  sprite_pat'[k][j] = byteOf(k, j)
        <5>1. CASE k = q /\ j = p
          BY <4>6, <4>7, <5>1
        <5>2. CASE ~(k = q /\ j = p)
          <6>1. 4 * k + 2 * j + 1 < b
            BY <4>5, <4>8, <5>2 DEF Slot
          <6>2. sprite_pat'[k][j] = sprite_pat[k][j]
            BY <4>6, <4>7, <5>2
          <6> QED
            BY <2>1, <6>1, <6>2
        <5> QED
          BY <5>1, <5>2
      <4> QED
        BY <4>8
    <3> QED
      BY <1>7, <3>1, <3>2
  <2>5. \A k \in Slot, j \in 0 .. 1 :
          /\ sprite_row'[k][j] = fetched_data'[4 * k + 2 + j]
          /\ 4 * k + 2 * j + 1 < backshift' => sprite_pat'[k][j] = byteOf(k, j)'
    BY <1>2, <1>4, <2>1, <2>2, <2>3, <2>4, Zenon
  <2> QED
    BY <1>2, <1>8, <2>1, <2>2, <2>5, Zenon
<1> QED
  BY <1>9, <1>10

\* A write to OAM leaves what was handed over alone, a reset goes to the top.
LEMMA HandInvStep == ASSUME IInv, HandInv, [Next]_vars PROVE HandInv'
<1>1. CASE Reset
  <2>1. ~(HandAt < drx')
    BY <1>1 DEF Reset
  <2> QED
    BY <2>1 DEF HandInv
<1>2. CASE UNCHANGED <<drx, dry, scanVars, drawVars, pattern>>
  <2>1. /\ drx' = drx /\ dry' = dry /\ fetched_data' = fetched_data /\ fetched_ct' = fetched_ct
        /\ alt_s0' = alt_s0 /\ sprite_row' = sprite_row /\ sprite_pat' = sprite_pat
        /\ sprite_ct' = sprite_ct /\ s0' = s0 /\ pattern' = pattern
    BY <1>2 DEF scanVars, drawVars
  <2>2. \A k : sprite_fetch_y(k)' = sprite_fetch_y(k)
    BY <2>1, LineOfSlot
  <2>3. \A k, j : byteOf(k, j)' = byteOf(k, j)
    BY <2>1, <2>2, Zenon DEF byteOf
  <2>4. backshift' = backshift /\ slot' = slot
    BY <2>1 DEF backshift, slot
  <2>5. sprite_fetch_y(slot)' = sprite_fetch_y(slot)
    BY <2>1, <2>4 DEF sprite_fetch_y, rel_addr
  <2> QED
    BY <2>1, <2>3, <2>4, <2>5, Zenon DEF HandInv
<1>3. ASSUME NEW w \in OamWrites, Write(w) PROVE HandInv'
  BY <1>2, <1>3 DEF Write
<1>4. CASE UNCHANGED vars
  BY <1>2, <1>4 DEF vars
<1> QED
  BY <1>1, <1>3, <1>4, ClockHand DEF Next

\* Both accounts are always right.
LEMMA DrawInvariance == Spec => [](ScanInv /\ HandInv)
<1>1. Init => ScanInv /\ HandInv
  BY DEF Init, ScanInv, undisturbed, HandInv
<1>2. IInv /\ IInv' /\ SlotInv /\ ScanInv /\ HandInv /\ [Next]_vars => ScanInv' /\ HandInv'
  BY ScanInvStep, HandInvStep DEF IInv, SlotInv
<1> QED
  BY <1>1, <1>2, Invariance, SlotInvariance, PTL DEF Spec

\* While the slots are being filled the line's scan is over.
InHandOver == dry < Picture /\ dry % 2 = 1 /\ HandAt < drx /\ drx <= HandEnd

\* What a slot gets is what was found, the pattern bytes last.
LEMMA HandedOver ==
  ASSUME IInv, ScanInv, HandInv, InHandOver, stable
  PROVE  /\ OverInv /\ HitsFacts
         /\ sprite_ct = fetched_ct /\ s0 = alt_s0
         /\ \A k \in Slot, j \in 0 .. 1 :
              /\ sprite_row[k][j] = fetched_data[4 * k + 2 + j]
              /\ drx = HandEnd => sprite_pat[k][j] = byteOf(k, j)
<1>1. dry < Picture /\ dry % 2 = 1 /\ HandAt < drx /\ drx <= HandEnd
  BY DEF InHandOver
<1>2. /\ drx # 0 /\ ~(drx < ScanEnd)
      /\ drx = HandEnd => backshift = 4 * MaxFetch
  BY <1>1 DEF HandEnd, backshift, IInv, TypeOK
<1>3. state = "IDL" /\ undisturbed
  BY <1>1, <1>2, StillScanning DEF scanning, undisturbed
<1>4. OverInv
  BY <1>3 DEF ScanInv
<1>5. drx = HandEnd => \A k \in Slot, j \in 0 .. 1 : 4 * k + 2 * j + 1 < backshift
  BY <1>2 DEF Slot
<1> QED
  BY <1>1, <1>4, <1>5, HitsAre, Zenon DEF HandInv, IInv

\* The bytes of a slot are those of its sprite, from the first clock on.
LEMMA SlotOfSprite ==
  ASSUME IInv, ScanInv, HandInv, InHandOver, stable, NEW b \in Shown
  PROVE  /\ Rank(b) \in Slot /\ Rank(b) < sprite_ct
         /\ fetched_data[4 * Rank(b)] = oam[b] /\ fetched_data[4 * Rank(b) + 1] = oam[b + 1]
         /\ fetched_data[4 * Rank(b) + 2] = oam[b + 2]
         /\ \A j \in 0 .. 1 : sprite_row[Rank(b)][j] = oam[b + 2 + j]
<1>1. /\ OverInv /\ HitsFacts /\ sprite_ct = fetched_ct
      /\ \A k \in Slot, j \in 0 .. 1 : sprite_row[k][j] = fetched_data[4 * k + 2 + j]
  BY HandedOver
<1>2. b \in Hits /\ Rank(b) \in Nat /\ Rank(b) < MaxFetch /\ Rank(b) \in Slot
  BY <1>1 DEF Shown, HitsFacts, Slot
<1>3. Rank(b) < sprite_ct
  <2>1. Hits \in SUBSET Nat /\ IsFiniteSet(Hits) /\ \A y : Rank(y) = Cardinality(Below(Hits, y))
    BY <1>1 DEF HitsFacts
  <2>2. Shown = {h \in Hits : Cardinality(Below(Hits, h)) < MaxFetch}
    BY <2>1, Zenon DEF Shown
  <2>3. Cardinality(Below(Hits, b)) < MaxFetch
    BY <1>2, <2>1
  <2>4. sprite_ct = Cardinality(Shown)
    BY <1>1 DEF OverInv
  <2> QED
    BY <2>1, <2>2, <2>3, <2>4, <1>2, RankBelowCount
<1>4. \A i \in 0 .. 3 : fetched_data[4 * Rank(b) + i] = oam[b + i]
  <2>1. \A i \in 0 .. 3 : i < 4
    OBVIOUS
  <2> QED
    BY <1>1, <2>1, Zenon DEF OverInv, Holds
<1>5. PICK k \in Slot : k = Rank(b)
  BY <1>2
<1>6. k \in Nat /\ b \in Nat
  BY <1>1, <1>2 DEF HitsFacts, Slot, Byte
<1>7. /\ fetched_data[4 * k] = oam[b] /\ fetched_data[4 * k + 1] = oam[b + 1]
      /\ fetched_data[4 * k + 2] = oam[b + 2] /\ fetched_data[4 * k + 3] = oam[b + 3]
  <2>1. /\ 4 * k + 0 = 4 * k /\ b + 0 = b
    BY <1>6
  <2>2. fetched_data[4 * k + 0] = oam[b + 0]
    BY <1>4, <1>5, 0 \in 0 .. 3
  <2>3. 1 \in 0 .. 3 /\ 2 \in 0 .. 3 /\ 3 \in 0 .. 3
    OBVIOUS
  <2> QED
    BY <1>4, <1>5, <2>1, <2>2, <2>3
<1>8. ASSUME NEW j \in 0 .. 1 PROVE sprite_row[k][j] = oam[b + 2 + j]
  <2>1. CASE j = 0
    <3>1. 4 * k + 2 + 0 = 4 * k + 2 /\ b + 2 + 0 = b + 2
      BY <1>6
    <3> QED
      BY <1>1, <1>7, <2>1, <3>1
  <2>2. CASE j = 1
    <3>1. 4 * k + 2 + 1 = 4 * k + 3 /\ b + 2 + 1 = b + 3
      BY <1>6
    <3> QED
      BY <1>1, <1>7, <2>2, <3>1
  <2>3. j \in {0, 1}
    OBVIOUS
  <2> QED
    BY <2>1, <2>2, <2>3
<1> QED
  BY <1>2, <1>3, <1>5, <1>7, <1>8

\* At the end of the hand-over every slot is what it should be.
LEMMA SlotsAre == ASSUME IInv, ScanInv, HandInv PROVE SlotsAreShown
<1> SUFFICES ASSUME handedOver, stable
             PROVE  /\ sprite_ct = Cardinality(Shown)
                    /\ \A b \in Shown, j \in 0 .. 1 :
                         /\ sprite_row[Rank(b)][j] = oam[b + 2 + j]
                         /\ sprite_pat[Rank(b)][j] =
                              [tile |-> oam[b + 1], plane |-> j, y |-> TileLine(b)]
                    /\ \A k \in Slot, j \in 0 .. 1 :
                         k >= sprite_ct => sprite_pat[k][j] = Empty
  BY DEF SlotsAreShown
<1>1. InHandOver /\ drx = HandEnd
  BY DEF InHandOver, handedOver, HandEnd
<1>2. /\ OverInv /\ HitsFacts /\ sprite_ct = fetched_ct
      /\ \A k \in Slot, j \in 0 .. 1 : sprite_pat[k][j] = byteOf(k, j)
  BY <1>1, HandedOver
<1>3. sprite_ct = Cardinality(Shown) /\ sprite_ct \in Nat
  BY <1>2 DEF OverInv, IInv, TypeOK
<1>4. \A k \in Slot, j \in 0 .. 1 : k >= sprite_ct => sprite_pat[k][j] = Empty
  <2>1. \A k \in Slot : k >= sprite_ct => ~(k < sprite_ct)
    BY <1>3 DEF Slot
  <2> QED
    BY <1>2, <2>1, Zenon DEF byteOf
<1>5. ASSUME NEW b \in Shown, NEW j \in 0 .. 1
      PROVE  /\ sprite_row[Rank(b)][j] = oam[b + 2 + j]
             /\ sprite_pat[Rank(b)][j] = [tile |-> oam[b + 1], plane |-> j, y |-> TileLine(b)]
  <2>1. /\ Rank(b) \in Slot /\ Rank(b) < sprite_ct
        /\ fetched_data[4 * Rank(b)] = oam[b] /\ fetched_data[4 * Rank(b) + 1] = oam[b + 1]
        /\ fetched_data[4 * Rank(b) + 2] = oam[b + 2]
        /\ sprite_row[Rank(b)][j] = oam[b + 2 + j]
    BY <1>1, SlotOfSprite
  <2>2. sprite_fetch_y(Rank(b)) = TileLine(b)
    <3>1. b \in Byte /\ oam[b] <= rel_addr /\ rel_addr <= oam[b] + Height - 1
      BY <1>2 DEF HitsFacts, Shown
    <3>2. /\ rel_addr \in Nat /\ oam[b] \in Nat
      BY <3>1 DEF IInv, TypeOK, Byte, rel_addr
    <3>3. (rel_addr - oam[b]) % Height = rel_addr - oam[b]
      BY <3>1, <3>2
    <3> QED
      BY <2>1, <3>3, Zenon DEF sprite_fetch_y, TileLine
  <2> QED
    BY <1>2, <2>1, <2>2, Zenon DEF byteOf
<1> QED
  BY <1>3, <1>4, <1>5

\* When OAM has not been written during the line, the slots hold the first
\* sprites that the line crosses, in the order of OAM and each with the right
\* line of its tile, and the other slots draw nothing (ppu.sv:557-572).
THEOREM SlotsShown == Spec => []SlotsAreShown
<1>1. IInv /\ ScanInv /\ HandInv => SlotsAreShown
  BY SlotsAre
<1> QED
  BY <1>1, Invariance, DrawInvariance, PTL

\* The bit that lets slot 0 raise the sprite-0 flag is set just when sprite 0
\* of OAM is on the line (ppu.sv:551-552,564); it is then in slot 0.
THEOREM SlotZero == Spec => []SlotZeroIsSpriteZero
<1>1. IInv /\ ScanInv /\ HandInv => SlotZeroIsSpriteZero
  <2> SUFFICES ASSUME IInv, ScanInv, HandInv, handedOver, stable PROVE s0 <=> 0 \in Shown
    BY DEF SlotZeroIsSpriteZero
  <2>1. InHandOver
    BY DEF InHandOver, handedOver, HandEnd
  <2> QED
    BY <2>1, HandedOver DEF OverInv
<1> QED
  BY <1>1, Invariance, DrawInvariance, PTL
-----------------------------------------------------------------------------
(* The pixels.                                                             *)

\* The sprites of OAM that there was a slot for.
Drawable == {b \in OnLine : OnLineRank(b) < MaxFetch}

\* The line of its tile that is drawn of sprite b.
LineDrawn(b) == IF oam[b + 2] >= Size \div 2
                THEN Height - 1 - (slotLine - oam[b]) ELSE slotLine - oam[b]

\* The slots stand for these sprites.
SlotsStand ==
  /\ sprite_ct = Cardinality(Drawable)
  /\ s0 <=> 0 \in Drawable
  /\ \A b \in Drawable, j \in 0 .. 1 :
       /\ sprite_row[OnLineRank(b)][j] = oam[b + 2 + j]
       /\ sprite_pat[OnLineRank(b)][j] = [tile |-> oam[b + 1], plane |-> j, y |-> LineDrawn(b)]

\* From the end of one hand-over to the beginning of the next they do.
DrawnInv ==
  /\ drawn \in 0 .. Size
  /\ drawn # Size => IF InHandOver THEN stable /\ drawn = start ELSE SlotsStand

\* SpritePixels adds variables to SpriteScan, and takes nothing from it.
LEMMA PixelsAddOnly == PixelSpec => Spec
<1>1. PixelInit => Init
  BY DEF PixelInit
<1>2. [PixelNext]_allVars => [Next]_vars
  <2> SUFFICES ASSUME [PixelNext]_allVars PROVE Next \/ UNCHANGED vars
    OBVIOUS
  <2>1. CASE UNCHANGED allVars
    BY <2>1 DEF allVars
  <2>2. CASE PixelNext
    BY <2>2 DEF PixelNext, PixelClock, PixelWrite, PixelReset, Next
  <2> QED
    BY <2>1, <2>2
<1> QED
  BY <1>1, <1>2, PTL DEF PixelSpec, Spec

\* The sprites of the line the slots stand for can be ranked like those of the
\* line that is scanned.
LEMMA OnLineFacts ==
  ASSUME TypeOK
  PROVE  /\ OnLine \in SUBSET Nat /\ IsFiniteSet(OnLine)
         /\ \A b \in OnLine : b \in Byte /\ b <= Size - 4
         /\ \A x : OnLineRank(x) = Cardinality(Below(OnLine, x)) /\ OnLineRank(x) \in Nat
         /\ Drawable = {b \in OnLine : Cardinality(Below(OnLine, b)) < MaxFetch}
<1>1. OnLine \in SUBSET Byte /\ \A b \in OnLine : b <= Size - 4
  BY DEF OnLine
<1>2. IsFiniteSet(Byte)
  BY FS_Interval DEF Byte
<1>3. IsFiniteSet(OnLine)
  BY <1>1, <1>2, FS_Subset
<1>4. \A x : OnLineRank(x) = Cardinality(Below(OnLine, x))
  BY DEF OnLineRank, Below
<1>5. \A x : OnLineRank(x) \in Nat
  BY <1>3, <1>4, BelowCount
<1>6. Drawable = {b \in OnLine : Cardinality(Below(OnLine, b)) < MaxFetch}
  BY <1>4, Zenon DEF Drawable
<1>7. OnLine \in SUBSET Nat
  BY <1>1 DEF Byte
<1> QED
  BY <1>1, <1>3, <1>4, <1>5, <1>6, <1>7

\* While the slots of an undisturbed line are filled, it is the line of the scan.
LEMMA LineOfScan ==
  ASSUME TypeOK, InHandOver, drawn = start
  PROVE  /\ OnLine = Hits /\ Drawable = Shown
         /\ \A b : OnLineRank(b) = Rank(b) /\ LineDrawn(b) = TileLine(b)
<1>1. slotLine = rel_addr
  BY DEF InHandOver, slotLine
<1>2. PICK h \in Nat : Picture = 2 * h /\ Picture \div 2 = h
  BY SizesAssumption
<1>3. rel_addr \in 0 .. Picture \div 2 - 2 <=> dry # Picture - 1
  <2>1. dry \in Nat /\ dry < Picture /\ dry % 2 = 1
    BY DEF InHandOver, TypeOK
  <2>2. PICK m \in Nat : dry = 2 * m + 1 /\ dry \div 2 = m
    BY <2>1
  <2> QED
    BY <1>2, <2>1, <2>2 DEF rel_addr
<1>4. OnLine = Hits
  <2>1. CASE dry = Picture - 1
    BY <1>1, <1>3, <2>1 DEF OnLine, Hits
  <2>2. CASE dry # Picture - 1
    <3>1. OnLine = {b \in Byte : /\ drawn <= b /\ b <= Size - 4 /\ (b - drawn) % 4 = 0
                                 /\ oam[b] <= slotLine /\ slotLine <= oam[b] + Height - 1}
      BY <1>1, <1>3, <2>2 DEF OnLine
    <3>2. Hits = {b \in Sprites : oam[b] <= rel_addr /\ rel_addr <= oam[b] + Height - 1}
      BY <2>2 DEF Hits
    <3> QED
      BY <1>1, <3>1, <3>2, Zenon DEF Sprites
  <2> QED
    BY <2>1, <2>2
<1>5. \A b : OnLineRank(b) = Rank(b)
  BY <1>4 DEF OnLineRank, Rank
<1>6. Drawable = Shown
  BY <1>4, <1>5, Zenon DEF Drawable, Shown
<1>7. \A b : LineDrawn(b) = TileLine(b)
  BY <1>1 DEF LineDrawn, TileLine
<1> QED
  BY <1>4, <1>5, <1>6, <1>7

\* The line the slots stand for at column x of line y.
LineAt(x, y) == IF y % 2 = 1 /\ x > HandAt THEN y \div 2 ELSE y \div 2 - 1

\* Slots are drawn on the two lines after their hand-over, and no line between
\* the last hand-over of a frame and the first of the next has sprites.
LEMMA LineStays ==
  ASSUME NEW x \in Nat, NEW y \in Nat, x < LineLen, y < Lines,
         ~(y < Picture /\ y % 2 = 1 /\ x = HandAt),
         NEW u \in Nat, NEW v \in Nat,
         \/ u = x + 1 /\ v = y
         \/ u = 0 /\ x = LineLen - 1 /\ (v = y + 1 \/ (y = Lines - 1 /\ v = 0))
  PROVE  \/ LineAt(u, v) = LineAt(x, y)
         \/ /\ LineAt(x, y) \notin 0 .. Picture \div 2 - 2
            /\ LineAt(u, v) \notin 0 .. Picture \div 2 - 2
<1>1. PICK h \in Nat : Picture = 2 * h /\ Picture \div 2 = h
  BY SizesAssumption
<1>2. PICK m \in Nat : y = 2 * m \/ y = 2 * m + 1
  OBVIOUS
<1>3. CASE u = x + 1 /\ v = y
  <2>1. CASE y % 2 = 1 /\ x = HandAt
    <3>1. y >= Picture
      BY <2>1
    <3> QED
      BY <1>1, <1>2, <1>3, <2>1, <3>1 DEF LineAt
  <2>2. CASE ~(y % 2 = 1 /\ x = HandAt)
    BY <1>3, <2>2 DEF LineAt
  <2> QED
    BY <2>1, <2>2
<1>4. CASE u = 0 /\ x = LineLen - 1 /\ v = y + 1
  <2>1. x > HandAt /\ ~(u > HandAt)
    BY <1>4
  <2>2. CASE y = 2 * m
    <3>1. y % 2 = 0 /\ y \div 2 = m /\ (y + 1) \div 2 = m
      BY <2>2
    <3> QED
      BY <1>4, <2>1, <3>1 DEF LineAt
  <2>3. CASE y = 2 * m + 1
    <3>1. y % 2 = 1 /\ y \div 2 = m /\ (y + 1) \div 2 = m + 1
      BY <2>3
    <3> QED
      BY <1>4, <2>1, <3>1 DEF LineAt
  <2> QED
    BY <1>2, <2>2, <2>3
<1>5. CASE u = 0 /\ y = Lines - 1 /\ v = 0
  <2>1. LineAt(u, v) = 0 - 1
    BY <1>5 DEF LineAt
  <2>2. y >= 2 * h
    BY <1>1, <1>5
  <2>3. y \div 2 >= h /\ y \div 2 \in Nat
    BY <1>2, <2>2
  <2>4. LineAt(x, y) > h - 2 /\ LineAt(x, y) \in Int
    BY <2>3 DEF LineAt
  <2> QED
    BY <1>1, <2>1, <2>4
<1> QED
  BY <1>3, <1>4, <1>5

\* The slots go on standing for the sprites they stood for while nothing is
\* handed over and OAM is not written.
LEMMA SlotsKeep ==
  ASSUME IInv, PixelClock, drawn' = drawn, SlotsStand,
         ~(dry < Picture /\ dry % 2 = 1 /\ HandAt <= drx /\ drx < HandEnd)
  PROVE  SlotsStand'
<1>1. NextPixel /\ StepHandOver /\ oam' = oam
  BY DEF PixelClock, Clock
<1>2. ~handing \/ ~(dry % 2 = 1)
  BY DEF handing
<1>3. /\ sprite_row' = sprite_row /\ sprite_pat' = sprite_pat /\ sprite_ct' = sprite_ct /\ s0' = s0
  BY <1>1, <1>2 DEF StepHandOver, drawVars
<1>4. /\ drx \in Nat /\ dry \in Nat /\ drx < LineLen /\ dry < Lines
      /\ drx' # 0 => drx' = drx + 1 /\ dry' = dry /\ drx # LineLen - 1
      /\ drx' = 0 => drx = LineLen - 1 /\ (dry' = dry + 1 \/ (dry = Lines - 1 /\ dry' = 0))
  BY <1>1, Raster DEF IInv
<1>5. PICK u \in Nat, v \in Nat :
        /\ u = drx' /\ v = dry'
        /\ \/ u = drx + 1 /\ v = dry
           \/ u = 0 /\ drx = LineLen - 1 /\ (v = dry + 1 \/ (dry = Lines - 1 /\ v = 0))
  <2>1. CASE drx' = 0
    <3>1. 0 = drx' /\ drx = LineLen - 1
      BY <1>4, <2>1
    <3>2. CASE dry' = dry + 1
      <4>1. dry + 1 \in Nat /\ dry + 1 = dry' /\ 0 \in Nat
        BY <1>4, <3>2
      <4> QED
        BY <3>1, <4>1, Zenon
    <3>3. CASE dry = Lines - 1 /\ dry' = 0
      <4>1. 0 \in Nat /\ 0 = dry'
        BY <3>3
      <4> QED
        BY <3>1, <3>3, <4>1, Zenon
    <3> QED
      BY <1>4, <2>1, <3>2, <3>3
  <2>2. CASE drx' # 0
    BY <1>4, <2>2
  <2> QED
    BY <2>1, <2>2
<1>6. slotLine = LineAt(drx, dry) /\ slotLine' = LineAt(u, v)
  BY <1>5 DEF slotLine, LineAt, rel_addr
<1>7. ~(dry < Picture /\ dry % 2 = 1 /\ drx = HandAt)
  BY <1>4 DEF HandEnd
<1>8. \/ LineAt(u, v) = LineAt(drx, dry)
      \/ /\ LineAt(drx, dry) \notin 0 .. Picture \div 2 - 2
         /\ LineAt(u, v) \notin 0 .. Picture \div 2 - 2
  BY <1>4, <1>5, <1>7, LineStays
<1>9. \/ slotLine' = slotLine
      \/ slotLine \notin 0 .. Picture \div 2 - 2 /\ slotLine' \notin 0 .. Picture \div 2 - 2
  BY <1>6, <1>8
<1>10. OnLine' = OnLine
  BY <1>1, <1>9 DEF OnLine
<1>11. \A b : OnLineRank(b)' = OnLineRank(b)
  BY <1>10 DEF OnLineRank
<1>12. Drawable' = Drawable
  BY <1>10, <1>11, Zenon DEF Drawable
<1>13. ASSUME NEW b \in Drawable PROVE LineDrawn(b)' = LineDrawn(b)
  <2>1. slotLine' = slotLine
    BY <1>9 DEF Drawable, OnLine
  <2> QED
    BY <1>1, <2>1 DEF LineDrawn
<1> QED
  BY <1>1, <1>3, <1>11, <1>12, <1>13, Zenon DEF SlotsStand

\* When the last pattern byte has come, they stand for those of the line that
\* was scanned.
LEMMA SlotsCome ==
  ASSUME IInv, ScanInv, HandInv, InHandOver, drx = HandEnd, stable, drawn = start
  PROVE  SlotsStand
<1>1. handedOver
  BY DEF InHandOver, handedOver
<1>2. /\ sprite_ct = Cardinality(Shown)
      /\ \A b \in Shown, j \in 0 .. 1 :
           /\ sprite_row[Rank(b)][j] = oam[b + 2 + j]
           /\ sprite_pat[Rank(b)][j] = [tile |-> oam[b + 1], plane |-> j, y |-> TileLine(b)]
  BY <1>1, SlotsAre DEF SlotsAreShown
<1>3. s0 <=> 0 \in Shown
  BY HandedOver DEF OverInv
<1>4. Drawable = Shown /\ \A b : OnLineRank(b) = Rank(b) /\ LineDrawn(b) = TileLine(b)
  BY LineOfScan DEF IInv
<1> QED
  BY <1>2, <1>3, <1>4, Zenon DEF SlotsStand

\* A clock hands the slots on from the scan to the pixels.
LEMMA ClockDrawn ==
  ASSUME IInv, ScanInv, HandInv, DrawnInv, PixelClock
  PROVE  DrawnInv'
<1>0. /\ NextPixel /\ drx \in Nat /\ dry \in Nat /\ start \in Byte
      /\ drawn' = IF handing /\ dry % 2 = 1 /\ drx = HandAt
                  THEN IF stable THEN start ELSE Size
                  ELSE drawn
  BY DEF PixelClock, Clock, IInv, TypeOK
<1>a. drawn' \in 0 .. Size
  BY <1>0 DEF DrawnInv, Byte
<1>b. /\ stable => stable'
      /\ ~scanning => start' = start
  BY DEF PixelClock, Clock
<1>c. /\ drx' # 0 => drx' = drx + 1 /\ dry' = dry /\ drx # LineLen - 1
      /\ drx' = 0 => drx = LineLen - 1
  BY <1>0, Raster DEF IInv
<1>1. CASE dry < Picture /\ dry % 2 = 1 /\ HandAt <= drx /\ drx < HandEnd
  <2>1. ~scanning /\ (drx = HandAt => handing)
    BY <1>0, <1>1 DEF scanning, handing
  <2>2. drx' = drx + 1 /\ dry' = dry
    <3>1. drx # LineLen - 1
      BY <1>0, <1>1 DEF HandEnd
    <3> QED
      BY <1>c, <3>1
  <2>3. InHandOver'
    BY <1>0, <1>1, <2>2 DEF InHandOver, HandEnd
  <2>4. CASE drx = HandAt
    <3>1. drawn' # Size => stable /\ drawn' = start
      BY <1>0, <1>1, <2>1, <2>4 DEF Byte
    <3> QED
      BY <1>a, <1>b, <2>1, <2>3, <3>1 DEF DrawnInv
  <2>5. CASE drx # HandAt
    <3>1. InHandOver /\ drawn' = drawn
      BY <1>0, <1>1, <2>5 DEF InHandOver, HandEnd
    <3>2. drawn # Size => stable /\ drawn = start
      BY <3>1 DEF DrawnInv
    <3> QED
      BY <1>a, <1>b, <2>1, <2>3, <3>1, <3>2 DEF DrawnInv
  <2> QED
    BY <2>4, <2>5
<1>2. CASE ~(dry < Picture /\ dry % 2 = 1 /\ HandAt <= drx /\ drx < HandEnd)
  <2>1. drawn' = drawn
    BY <1>0, <1>2 DEF handing
  <2>2. ~InHandOver'
    <3>1. CASE drx' = 0
      BY <3>1 DEF InHandOver
    <3>2. CASE drx' # 0
      BY <1>0, <1>c, <1>2, <3>2 DEF InHandOver, HandEnd
    <3> QED
      BY <3>1, <3>2
  <2>3. ASSUME drawn # Size PROVE SlotsStand
    <3>1. CASE InHandOver
      <4>1. drx = HandEnd
        BY <1>0, <1>2, <3>1 DEF InHandOver, HandEnd
      <4> QED
        BY <2>3, <3>1, <4>1, SlotsCome DEF DrawnInv
    <3>2. CASE ~InHandOver
      BY <2>3, <3>2 DEF DrawnInv
    <3> QED
      BY <3>1, <3>2
  <2>4. drawn' # Size => SlotsStand'
    BY <1>2, <2>1, <2>3, SlotsKeep
  <2> QED
    BY <1>a, <2>2, <2>4 DEF DrawnInv
<1> QED
  BY <1>1, <1>2

\* Nothing is promised after a write or a reset.
LEMMA DrawnStep ==
  ASSUME IInv, ScanInv, HandInv, DrawnInv, [PixelNext]_allVars
  PROVE  DrawnInv'
<1>1. CASE PixelClock
  BY <1>1, ClockDrawn
<1>2. CASE drawn' = Size
  BY <1>2 DEF DrawnInv
<1>3. CASE UNCHANGED allVars
  <2>1. /\ drx' = drx /\ dry' = dry /\ oam' = oam /\ start' = start /\ stable' = stable
        /\ sprite_row' = sprite_row /\ sprite_pat' = sprite_pat /\ sprite_ct' = sprite_ct
        /\ s0' = s0 /\ drawn' = drawn
    BY <1>3 DEF allVars, vars, drawVars, histVars, pixelVars
  <2>2. slotLine' = slotLine /\ InHandOver' = InHandOver
    BY <2>1 DEF slotLine, rel_addr, InHandOver
  <2>3. OnLine' = OnLine
    BY <2>1, <2>2 DEF OnLine
  <2>4. \A b : OnLineRank(b)' = OnLineRank(b) /\ LineDrawn(b)' = LineDrawn(b)
    BY <2>1, <2>2, <2>3 DEF OnLineRank, LineDrawn
  <2>5. Drawable' = Drawable
    BY <2>3, <2>4, Zenon DEF Drawable
  <2>6. SlotsStand => SlotsStand'
    BY <2>1, <2>4, <2>5, Zenon DEF SlotsStand
  <2> QED
    BY <2>1, <2>2, <2>6 DEF DrawnInv
<1> QED
  BY <1>1, <1>2, <1>3 DEF PixelNext, PixelWrite, PixelReset

\* What all of it says of SpritePixels.
PixelInv == IInv /\ SlotInv /\ ScanInv /\ HandInv /\ DrawnInv

\* It is an invariant.
LEMMA PixelInvariance == PixelSpec => []PixelInv
<1>1. PixelInit => DrawnInv
  BY DEF PixelInit, DrawnInv
<1>2. IInv /\ ScanInv /\ HandInv /\ DrawnInv /\ [PixelNext]_allVars => DrawnInv'
  BY DrawnStep
<1>3. PixelSpec => [](IInv /\ SlotInv /\ ScanInv /\ HandInv)
  BY PixelsAddOnly, Invariance, SlotInvariance, DrawInvariance, PTL
<1>4. PixelSpec => []DrawnInv
  BY <1>1, <1>2, <1>3, PTL DEF PixelSpec
<1> QED
  BY <1>3, <1>4, PTL DEF PixelInv

\* A slot has an opaque pixel at this column just where its sprite has one.
LEMMA OpaqueIs ==
  ASSUME TypeOK, NEW b \in Byte, NEW k \in Slot, k < sprite_ct, b <= Size - 4,
         \A j \in 0 .. 1 :
           /\ sprite_row[k][j] = oam[b + 2 + j]
           /\ sprite_pat[k][j] = [tile |-> oam[b + 1], plane |-> j, y |-> LineDrawn(b)]
  PROVE  opaque(k) <=> pixelOf(b)
<1>1. b \in Nat /\ b + 2 + 0 = b + 2 /\ b + 2 + 1 = b + 3 /\ b + 2 \in Byte /\ b + 3 \in Byte
  BY DEF Byte
<1>2. sprite_row[k][0] = oam[b + 2] /\ sprite_row[k][1] = oam[b + 3]
  BY <1>1
<1>3. PICK c \in Nat, x \in Nat : c = column /\ x = oam[b + 3]
  <2>1. column \in Nat
    BY DEF TypeOK, column
  <2>2. oam[b + 3] \in Nat
    BY <1>1 DEF TypeOK, Byte
  <2> QED
    BY <2>1, <2>2, Zenon
<1>4. x <= c /\ c <= x + Width - 1 <=> c - x \in 0 .. Width - 1
  BY <1>3, PixelAssumption
<1>5. PICK w \in Int : w = Width - 1
  BY PixelAssumption
<1>6. bitAt(oam[b + 2], x) =
        Width - 1 - (IF (oam[b + 2] % (Size \div 2)) >= Size \div 4
                     THEN Width - 1 - (c - x) ELSE c - x)
  <2>1. w - (w - (c - x)) = c - x
    BY <1>3, <1>5
  <2> QED
    BY <1>3, <1>5, <2>1 DEF bitAt
<1>7. ASSUME NEW j \in 0 .. 1, NEW bit
      PROVE  set(sprite_pat[k][j], bit) <=>
               [tile |-> oam[b + 1], plane |-> j, y |-> LineDrawn(b), bit |-> bit] \in OpaqueBits
  <2>1. /\ sprite_pat[k][j].tile = oam[b + 1] /\ sprite_pat[k][j].plane = j
        /\ sprite_pat[k][j].y = LineDrawn(b)
    OBVIOUS
  <2> QED
    BY <2>1, Zenon DEF set
<1>8. opaque(k) <=>
        /\ c - x \in 0 .. Width - 1
        /\ \E j \in 0 .. 1 :
             [tile |-> oam[b + 1], plane |-> j, y |-> LineDrawn(b), bit |-> bitAt(oam[b + 2], x)]
               \in OpaqueBits
  BY <1>2, <1>3, <1>4, <1>7, Zenon DEF opaque
<1> QED
  BY <1>3, <1>6, <1>8, Zenon DEF pixelOf, LineDrawn

\* Each drawable sprite has a slot that is opaque where it is, each slot in use a
\* sprite; and their orders agree.
LEMMA SlotsAndSprites ==
  ASSUME TypeOK, SlotsStand
  PROVE  /\ \A b \in Drawable : /\ OnLineRank(b) \in Slot /\ OnLineRank(b) < sprite_ct
                                /\ opaque(OnLineRank(b)) <=> pixelOf(b)
         /\ \A k \in Slot : k < sprite_ct => \E b \in Drawable : OnLineRank(b) = k
         /\ \A b \in Drawable, c \in OnLine :
              c < b => c \in Drawable /\ OnLineRank(c) < OnLineRank(b)
         /\ \A b \in Drawable, c \in OnLine : OnLineRank(c) < OnLineRank(b) => c < b
<1>1. /\ OnLine \in SUBSET Nat /\ IsFiniteSet(OnLine)
      /\ \A b \in OnLine : b \in Byte /\ b <= Size - 4
      /\ \A x : OnLineRank(x) = Cardinality(Below(OnLine, x)) /\ OnLineRank(x) \in Nat
      /\ Drawable = {b \in OnLine : Cardinality(Below(OnLine, b)) < MaxFetch}
  BY OnLineFacts
<1>2. sprite_ct = Cardinality(Drawable) /\ sprite_ct <= MaxFetch /\ sprite_ct \in Nat
  BY DEF SlotsStand, TypeOK
<1>3. ASSUME NEW b \in Drawable
      PROVE  b \in OnLine /\ OnLineRank(b) \in Slot /\ OnLineRank(b) < sprite_ct
  <2>1. b \in OnLine /\ Cardinality(Below(OnLine, b)) < MaxFetch
    BY <1>1
  <2>2. Cardinality(Below(OnLine, b)) < Cardinality(Drawable)
    BY <1>1, <2>1, RankBelowCount
  <2> QED
    BY <1>1, <1>2, <2>1, <2>2 DEF Slot
<1>4. ASSUME NEW b \in Drawable PROVE opaque(OnLineRank(b)) <=> pixelOf(b)
  <2>1. \A j \in 0 .. 1 :
          /\ sprite_row[OnLineRank(b)][j] = oam[b + 2 + j]
          /\ sprite_pat[OnLineRank(b)][j] = [tile |-> oam[b + 1], plane |-> j, y |-> LineDrawn(b)]
    BY DEF SlotsStand
  <2>2. b \in Byte /\ b <= Size - 4 /\ OnLineRank(b) \in Slot /\ OnLineRank(b) < sprite_ct
    BY <1>1, <1>3
  <2> QED
    BY <2>1, <2>2, OpaqueIs, Zenon
<1>5. ASSUME NEW k \in Slot, k < sprite_ct PROVE \E b \in Drawable : OnLineRank(b) = k
  <2>1. k \in Nat /\ k < Cardinality(Drawable)
    BY <1>2, <1>5 DEF Slot
  <2>2. \E b \in Drawable : Cardinality(Below(OnLine, b)) = k
    BY <1>1, <2>1, RankOnto
  <2> QED
    BY <1>1, <2>2
<1>6. \A b \in OnLine, c \in OnLine : c < b => OnLineRank(c) < OnLineRank(b)
  <2>1. \A b \in OnLine, c \in OnLine :
          c < b => Cardinality(Below(OnLine, c)) < Cardinality(Below(OnLine, b))
    BY <1>1, BelowGrows
  <2> QED
    BY <1>1, <2>1
<1>7. ASSUME NEW b \in Drawable, NEW c \in OnLine, c < b
      PROVE  c \in Drawable /\ OnLineRank(c) < OnLineRank(b)
  <2>1. OnLineRank(c) < OnLineRank(b)
    BY <1>3, <1>6, <1>7
  <2>2. OnLineRank(b) < MaxFetch
    BY DEF Drawable
  <2> QED
    BY <1>1, <2>1, <2>2 DEF Drawable
<1>8. ASSUME NEW b \in Drawable, NEW c \in OnLine, OnLineRank(c) < OnLineRank(b) PROVE c < b
  <2>1. b \in Nat /\ c \in Nat /\ b \in OnLine
    BY <1>1, <1>3
  <2>2. ~(b < c) /\ b # c
    BY <1>1, <1>6, <1>8, <2>1
  <2> QED
    BY <2>1, <2>2
<1> QED
  BY <1>3, <1>4, <1>5, <1>7, <1>8

\* On the screen the slots stand for what OAM says.
LEMMA OnScreenSlots ==
  ASSUME PixelInv, drawn # Size, onScreen PROVE SlotsStand
<1>1. ~InHandOver
  BY DEF onScreen, InHandOver, PixelInv, IInv, TypeOK
<1> QED
  BY <1>1 DEF PixelInv, DrawnInv

\* At every column of the picture the sprite to be seen is the one that is
\* shown, for all sprites, patterns and sizes (ppu.sv:609-644).
THEOREM FirstSpriteShown == PixelSpec => []FirstSpriteIsShown
<1>1. PixelInv => FirstSpriteIsShown
  <2> SUFFICES ASSUME PixelInv, onScreen, drawn # Size, sprites_on
               PROVE  /\ \A b \in OnLine : foremost(b) =>
                           \E k \in Slot : shown(k) /\ sprite_row[k][0] = oam[b + 2]
                      /\ (\E k \in Slot : shown(k)) => \E b \in OnLine : foremost(b)
    BY DEF FirstSpriteIsShown
  <2>1. TypeOK /\ SlotsStand
    BY OnScreenSlots DEF PixelInv, IInv
  <2>2. /\ \A b \in Drawable : /\ OnLineRank(b) \in Slot /\ OnLineRank(b) < sprite_ct
                               /\ opaque(OnLineRank(b)) <=> pixelOf(b)
        /\ \A k \in Slot : k < sprite_ct => \E b \in Drawable : OnLineRank(b) = k
        /\ \A b \in Drawable, c \in OnLine :
             c < b => c \in Drawable /\ OnLineRank(c) < OnLineRank(b)
        /\ \A b \in Drawable, c \in OnLine : OnLineRank(c) < OnLineRank(b) => c < b
    BY <2>1, SlotsAndSprites
  <2>3. \A k \in Slot : opaque(k) => k < sprite_ct
    BY DEF opaque
  <2>4. \A b \in Drawable : b \in OnLine
    BY DEF Drawable
  <2>5. ASSUME NEW b \in OnLine, foremost(b)
        PROVE  \E k \in Slot : shown(k) /\ sprite_row[k][0] = oam[b + 2]
    <3>1. b \in Drawable /\ pixelOf(b) /\ \A c \in OnLine : c < b => ~pixelOf(c)
      BY <2>5 DEF foremost, Drawable
    <3>2. OnLineRank(b) \in Slot /\ opaque(OnLineRank(b))
      BY <2>2, <3>1
    <3>3. ASSUME NEW l \in Slot, l < OnLineRank(b), opaque(l) PROVE FALSE
      <4>1. PICK c \in Drawable : OnLineRank(c) = l
        BY <2>2, <2>3, <3>3
      <4>2. c < b /\ pixelOf(c)
        BY <2>2, <2>4, <3>1, <3>3, <4>1
      <4> QED
        BY <2>4, <3>1, <4>2
    <3>4. shown(OnLineRank(b))
      BY <3>2, <3>3 DEF shown
    <3>5. sprite_row[OnLineRank(b)][0] = oam[b + 2]
      <4>1. b + 2 + 0 = b + 2
        BY <2>1, OnLineFacts DEF Byte
      <4>2. sprite_row[OnLineRank(b)][0] = oam[b + 2 + 0]
        BY <2>1, <3>1, 0 \in 0 .. 1 DEF SlotsStand
      <4> QED
        BY <4>1, <4>2
    <3> QED
      BY <3>2, <3>4, <3>5
  <2>6. ASSUME NEW k \in Slot, shown(k) PROVE \E b \in OnLine : foremost(b)
    <3>1. opaque(k) /\ \A l \in Slot : l < k => ~opaque(l)
      BY <2>6 DEF shown
    <3>2. PICK b \in Drawable : OnLineRank(b) = k
      BY <2>2, <2>3, <3>1
    <3>3. pixelOf(b) /\ b \in OnLine /\ OnLineRank(b) < MaxFetch
      BY <2>2, <3>1, <3>2 DEF Drawable
    <3>4. \A c \in OnLine : c < b => ~pixelOf(c)
      BY <2>2, <3>1, <3>2
    <3> QED
      BY <3>3, <3>4 DEF foremost
  <2> QED
    BY <2>5, <2>6
<1> QED
  BY <1>1, PixelInvariance, PTL

\* The flag is raised by a sprite that has the bit, which is sprite 0 of the line.
LEMMA BitIsSpriteZero ==
  ASSUME PixelInv, drawn # Size, s0
  PROVE  /\ dry < Picture /\ 0 \in OnLine /\ 0 < sprite_ct
         /\ sprite_row[0][1] = oam[3]
<1>1. dry < Picture
  BY DEF PixelInv, SlotInv, BlankInv, IInv, TypeOK
<1>2. 0 \in Slot
  BY DEF Slot
<1>3. CASE InHandOver
  <2>1. stable /\ drawn = start /\ IInv /\ ScanInv /\ HandInv
    BY <1>3 DEF PixelInv, DrawnInv
  <2>2. 0 \in Shown
    BY <1>3, <2>1, HandedOver DEF OverInv
  <2>3. OnLine = Hits
    BY <1>3, <2>1, LineOfScan DEF IInv
  <2>4. 0 \in Hits /\ Rank(0) = 0
    <3>1. 0 \in Hits
      BY <2>2 DEF Shown
    <3>2. HitsFacts
      BY <2>1, HitsAre DEF IInv
    <3>3. Hits \in SUBSET Nat /\ Rank(0) = Cardinality(Below(Hits, 0))
      BY <3>2, Zenon DEF HitsFacts
    <3>4. Cardinality(Below(Hits, 0)) = 0
      <4>1. \A h \in Hits : 0 <= h
        BY <3>3
      <4> QED
        BY <3>3, <4>1, BelowNothing
    <3> QED
      BY <3>1, <3>3, <3>4
  <2>5. Rank(0) < sprite_ct /\ sprite_row[Rank(0)][1] = oam[0 + 2 + 1]
    BY <1>3, <2>1, <2>2, SlotOfSprite, 1 \in 0 .. 1
  <2> QED
    BY <1>1, <2>3, <2>4, <2>5
<1>4. CASE ~InHandOver
  <2>1. SlotsStand /\ TypeOK
    BY <1>4 DEF PixelInv, DrawnInv, IInv
  <2>2. 0 \in Drawable
    BY <2>1 DEF SlotsStand
  <2>3. /\ OnLine \in SUBSET Nat /\ OnLineRank(0) = Cardinality(Below(OnLine, 0))
    BY <2>1, OnLineFacts
  <2>4. OnLineRank(0) = 0
    <3>1. \A h \in OnLine : 0 <= h
      BY <2>3
    <3> QED
      BY <2>3, <3>1, BelowNothing
  <2>5. OnLineRank(0) < sprite_ct /\ 0 \in OnLine
    BY <2>1, <2>2, SlotsAndSprites DEF Drawable
  <2>6. sprite_row[OnLineRank(0)][1] = oam[0 + 2 + 1]
    BY <2>1, <2>2, 1 \in 0 .. 1 DEF SlotsStand
  <2> QED
    BY <1>1, <2>4, <2>5, <2>6
<1> QED
  BY <1>3, <1>4

\* Where it meets the background on the screen sprite 0 is the one to be seen,
\* and where sprite 0 is to be seen it does.
LEMMA HitOnScreen ==
  ASSUME PixelInv, drawn # Size, onScreen
  PROVE  s0 /\ hit0 <=> bg_en /\ sprites_on /\ foremost(0)
<1>1. TypeOK /\ SlotsStand
  BY OnScreenSlots DEF PixelInv, IInv
<1>2. /\ OnLine \in SUBSET Nat /\ OnLineRank(0) = Cardinality(Below(OnLine, 0))
  BY <1>1, OnLineFacts
<1>3. \A h \in OnLine : h \in Nat /\ 0 <= h /\ ~(h < 0)
  BY <1>2
<1>4. OnLineRank(0) = 0
  BY <1>2, <1>3, BelowNothing
<1>5. 0 \in Drawable <=> 0 \in OnLine
  BY <1>4 DEF Drawable
<1>6. s0 <=> 0 \in OnLine
  BY <1>1, <1>5 DEF SlotsStand
<1>7. 0 \in OnLine => (opaque(0) <=> pixelOf(0))
  BY <1>1, <1>4, <1>5, SlotsAndSprites
<1>8. shown(0) <=> sprites_on /\ opaque(0)
  <2>1. \A l \in Slot : ~(l < 0)
    BY DEF Slot
  <2> QED
    BY <2>1 DEF shown
<1>9. foremost(0) <=> 0 \in OnLine /\ pixelOf(0)
  BY <1>3, <1>4 DEF foremost
<1> QED
  BY <1>6, <1>7, <1>8, <1>9 DEF hit0

\* The flag is raised just where sprite 0 of OAM is to be seen and the
\* background is opaque too; off the screen only by a sprite 0 that reaches
\* beyond the right edge, and never in vertical blank (ppu.sv:647,698-704).
THEOREM HitsAreSpriteZero == PixelSpec => HitIsSpriteZero
<1>1. ASSUME PixelInv, [PixelNext]_allVars, drawn # Size, ~sprite_hit, drx' = drx + 1
      PROVE  IF onScreen
             THEN sprite_hit' <=> bg_en /\ sprites_on /\ foremost(0)
             ELSE sprite_hit' => dry < Picture /\ 0 \in OnLine /\ oam[3] + Width > ScanEnd \div 2
  <2>0. drx \in Nat /\ dry \in Nat /\ oam[3] \in Nat
    BY <1>1, 3 \in Byte DEF PixelInv, IInv, TypeOK, Byte
  <2>1. PixelClock
    <3>1. drx' # drx /\ drx' # 0
      BY <1>1, <2>0
    <3> QED
      BY <1>1, <3>1 DEF PixelNext, PixelWrite, PixelReset, Write, Reset, allVars, vars
  <2>2. sprite_hit' <=> dry # Lines - 1 /\ s0 /\ hit0
    BY <1>1, <2>1 DEF PixelClock
  <2>3. CASE onScreen
    <3>1. dry # Lines - 1
      BY <2>0, <2>3 DEF onScreen
    <3> QED
      BY <1>1, <2>2, <2>3, <3>1, HitOnScreen
  <2>4. CASE ~onScreen
    <3> SUFFICES ASSUME sprite_hit'
                 PROVE  dry < Picture /\ 0 \in OnLine /\ oam[3] + Width > ScanEnd \div 2
      BY <2>4
    <3>1. s0 /\ hit0
      BY <2>2
    <3>2. dry < Picture /\ 0 \in OnLine /\ sprite_row[0][1] = oam[3]
      BY <1>1, <3>1, BitIsSpriteZero
    <3>3. ScanEnd <= drx
      BY <2>0, <2>4, <3>2 DEF onScreen
    <3>4. column <= oam[3] + Width - 1
      BY <3>1, <3>2 DEF hit0, shown, opaque
    <3>5. ScanEnd \div 2 <= column
      BY <2>0, <3>3 DEF column
    <3>6. column \in Nat /\ Width \in Nat
      BY <2>0, PixelAssumption DEF column
    <3>7. ScanEnd \div 2 \in Nat
      OBVIOUS
    <3> QED
      BY <2>0, <3>2, <3>4, <3>5, <3>6, <3>7
  <2> QED
    BY <2>3, <2>4
<1>2. PixelInv /\ [PixelNext]_allVars =>
        [drawn # Size /\ ~sprite_hit /\ drx' = drx + 1 =>
           IF onScreen
           THEN sprite_hit' <=> bg_en /\ sprites_on /\ foremost(0)
           ELSE sprite_hit' => dry < Picture /\ 0 \in OnLine /\ oam[3] + Width > ScanEnd \div 2]_allVars
  BY <1>1, Zenon
<1> QED
  BY <1>2, PixelInvariance, PTL DEF HitIsSpriteZero, PixelSpec
=============================================================================
