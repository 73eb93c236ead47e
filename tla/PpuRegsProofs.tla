---------------------------- MODULE PpuRegsProofs ----------------------------
(***************************************************************************)
(* Theorems about PpuRegs, for every address map MapAssumption allows and  *)
(* every program that keeps to mayAccess.                                  *)
(***************************************************************************)
EXTENDS PpuRegs, Integers, TLAPS

-----------------------------------------------------------------------------
(* Quotients and remainders. *)

\* A number is the divisor times the quotient and the remainder.
LEMMA Division ==
  ASSUME NEW a \in Nat, NEW b \in Nat, b > 0
  PROVE  /\ a \div b \in Nat /\ a % b \in 0 .. b - 1
         /\ a = b * (a \div b) + (a % b)
<1>1. a % b \in 0 .. b - 1
  OBVIOUS
<1>2. a \div b \in Int
  OBVIOUS
<1>3. a = b * (a \div b) + (a % b)
  BY SMTT(30)
<1>4. a \div b >= 0
  BY <1>1, <1>2, <1>3
<1> QED
  BY <1>1, <1>2, <1>3, <1>4

\* And there is only one way to write it so.
LEMMA DivisionIsUnique ==
  ASSUME NEW b \in Nat, b > 0, NEW q \in Nat, NEW r \in 0 .. b - 1
  PROVE  (b * q + r) \div b = q /\ (b * q + r) % b = r
<1> DEFINE a == b * q + r
           p == a \div b
           s == a % b
<1>1. a \in Nat /\ p \in Nat /\ s \in 0 .. b - 1 /\ b * p + s = b * q + r
  <2>1. a \in Nat
    OBVIOUS
  <2> QED
    BY <2>1, Division
<1> HIDE DEF a, p, s
<1>2. ASSUME NEW m \in Nat, NEW n \in Nat, m < n PROVE b * m + b <= b * n
  <2>1. b * (n - m - 1) >= 0
    <3>1. n - m - 1 \in Nat
      BY <1>2
    <3> QED
      BY <3>1
  <2> QED
    BY <1>2, <2>1
<1>3. ~(p < q)
  BY <1>1, <1>2
<1>4. ~(q < p)
  BY <1>1, <1>2
<1>5. p = q
  BY <1>1, <1>3, <1>4
<1>6. s = r
  BY <1>1, <1>5
<1> QED
  BY <1>5, <1>6 DEF p, s, a

\* A multiple of the divisor changes the quotient only.
LEMMA DivisionOfSum ==
  ASSUME NEW b \in Nat, b > 0, NEW k \in Nat, NEW a \in Nat
  PROVE  (b * k + a) % b = a % b /\ (b * k + a) \div b = k + (a \div b)
<1> DEFINE q == a \div b
           r == a % b
<1>1. q \in Nat /\ r \in 0 .. b - 1 /\ a = b * q + r
  BY Division
<1> HIDE DEF q, r
<1>2. b * k + a = b * (k + q) + r
  BY <1>1
<1>3. k + q \in Nat
  BY <1>1
<1>4. (b * (k + q) + r) \div b = k + q /\ (b * (k + q) + r) % b = r
  BY <1>1, <1>3, DivisionIsUnique
<1> QED
  BY <1>2, <1>4 DEF q, r

\* A remainder by a multiple of the divisor has the same remainder.
LEMMA RemainderOfRemainder ==
  ASSUME NEW b \in Nat, b > 0, NEW m \in Nat, NEW n \in Nat, n > 0, n = b * m, NEW a \in Nat
  PROVE  (a % n) % b = a % b
<1> DEFINE q == a \div n
           r == a % n
<1>1. q \in Nat /\ r \in Nat /\ a = n * q + r
  BY Division
<1> HIDE DEF q, r
<1>2. a = b * (m * q) + r /\ m * q \in Nat
  BY <1>1
<1>3. (b * (m * q) + r) % b = r % b
  BY <1>1, <1>2, DivisionOfSum
<1> QED
  BY <1>2, <1>3 DEF r
-----------------------------------------------------------------------------
(* Types. *)

\* What is due, and to whom: only the clock before can have left it behind.
DueInv == (incr => prev = 7) /\ (oam_incr => prev = 4)

IInv == TypeOK /\ DueInv

\* The sizes, one by one.
LEMMA Sizes ==
  /\ NumAddr \in Nat /\ NumAddr > 0 /\ LowSize \in Nat /\ LowSize > 0
  /\ PatEnd \in Nat /\ PatEnd > 0 /\ TableSize \in Nat /\ TableSize > 0
  /\ PalBase \in Nat /\ PalBase > 0 /\ PalSize \in Nat /\ PalSize > 0
  /\ MapEnd \in Nat /\ MapEnd > 0 /\ OamSize \in Nat /\ OamSize > 0
  /\ BigStride \in Nat /\ BigStride > 0
  /\ PatEnd <= PalBase /\ PalBase < MapEnd /\ MapEnd <= NumAddr
  /\ Byte \subseteq Nat /\ 0 \in Byte /\ Status \subseteq Byte /\ MaxStores \in Nat
<1>1. {NumAddr, LowSize, PatEnd, TableSize, PalBase, PalSize, MapEnd, OamSize, BigStride}
        \subseteq Nat \ {0}
  BY MapAssumption
<1>2. /\ PatEnd <= PalBase /\ PalBase < MapEnd /\ MapEnd <= NumAddr
      /\ Byte \subseteq Nat /\ 0 \in Byte /\ Status \subseteq Byte /\ MaxStores \in Nat
  BY MapAssumption
<1> QED
  BY <1>1, <1>2

\* An offset in the palette keeps its position in a group and in a half.
LEMMA RemainderOfPalette ==
  ASSUME NEW x \in Nat
  PROVE  /\ \A m \in Nat : PalSize = 4 * m => (x % PalSize) % 4 = x % 4
         /\ \A h \in Nat : h > 0 /\ PalSize = h * 2 => (x % PalSize) % h = x % h
<1>1. PalSize \in Nat /\ PalSize > 0 /\ 4 \in Nat /\ 4 > 0 /\ 2 \in Nat
  BY Sizes
<1>2. ASSUME NEW m \in Nat, PalSize = 4 * m PROVE (x % PalSize) % 4 = x % 4
  BY <1>1, <1>2, RemainderOfRemainder, Zenon
<1>3. ASSUME NEW h \in Nat, h > 0, PalSize = h * 2 PROVE (x % PalSize) % h = x % h
  BY <1>1, <1>3, RemainderOfRemainder, Zenon
<1> QED
  BY <1>2, <1>3, Zenon

USE Sizes

\* The address as the next access finds it.
base == IF incr THEN (vram_addr + stride) % NumAddr ELSE vram_addr

\* The address as the next access finds it is an address.
LEMMA BaseType == ASSUME TypeOK PROVE base \in Address /\ base \in Nat
<1>1. vram_addr \in Nat /\ vram_addr < NumAddr
  BY DEF TypeOK, Address
<1>2. vram_addr + stride \in Nat
  BY <1>1 DEF stride
<1>3. (vram_addr + stride) % NumAddr \in 0 .. NumAddr - 1
  BY <1>2
<1> QED
  BY <1>1, <1>3 DEF base, Address

\* Both bytes of an address leave it an address.
LEMMA HalvesType ==
  ASSUME NEW a \in Address, NEW d \in Nat, d < LowSize, d < NumAddr \div LowSize
  PROVE  (a - (a % LowSize)) + d \in Address /\ d * LowSize + (a % LowSize) \in Address
<1> DEFINE n == NumAddr \div LowSize
           q == a \div LowSize
           r == a % LowSize
<1>1. NumAddr = LowSize * n /\ n \in Nat
  BY MapAssumption, Division
<1>2. a \in Nat /\ a < NumAddr
  BY DEF Address
<1>3. a = LowSize * q + r /\ q \in Nat /\ r \in 0 .. LowSize - 1
  BY <1>2, Division
<1> HIDE DEF n, q, r
<1>4. ASSUME NEW k \in Nat, k < n PROVE LowSize * k + LowSize <= NumAddr
  <2>1. n - k - 1 \in Nat
    BY <1>1, <1>4
  <2>2. LowSize * (n - k - 1) >= 0
    BY <2>1
  <2> QED
    BY <1>1, <2>2
<1>5. q < n
  <2>1. ASSUME n <= q PROVE FALSE
    <3>1. q - n \in Nat
      BY <1>1, <1>3, <2>1
    <3>2. LowSize * (q - n) >= 0
      BY <3>1
    <3> QED
      BY <1>1, <1>2, <1>3, <3>2
  <2> QED
    BY <1>1, <1>3, <2>1
<1>6. LowSize * q + LowSize <= NumAddr
  BY <1>3, <1>4, <1>5
<1>7. LowSize * d + LowSize <= NumAddr
  <2>1. d < n
    BY DEF n
  <2> QED
    BY <1>4, <2>1
<1>8. (a - r) + d \in 0 .. NumAddr - 1
  <2>1. a - r = LowSize * q /\ LowSize * q \in Nat
    BY <1>3
  <2> QED
    BY <1>6, <2>1
<1>9. d * LowSize + r \in 0 .. NumAddr - 1
  <2>1. d * LowSize = LowSize * d /\ LowSize * d \in Nat
    OBVIOUS
  <2> QED
    BY <1>3, <1>7, <2>1
<1> QED
  BY <1>8, <1>9 DEF r, Address

\* The cells an address can mean, as the code reaches them.
LEMMA MapType ==
  ASSUME TypeOK
  PROVE  /\ vram_addr \in Nat
         /\ inPattern => vram_addr \in 0 .. PatEnd - 1
         /\ nmtAddr \in TableAddr
         /\ palette_addr \in PalAddr
<1>1. vram_addr \in Nat
  BY DEF TypeOK, Address
<1>2. vram_addr % TableSize \in 0 .. TableSize - 1
  BY <1>1
<1>3. vram_addr % PalSize \in 0 .. PalSize - 1
  BY <1>1
<1> QED
  BY <1>1, <1>2, <1>3 DEF inPattern, nmtAddr, TableAddr, palette_addr, PalAddr

\* Every clock keeps the registers and the memories in their ranges.
LEMMA ClockedType ==
  ASSUME TypeOK, NEW r \in Register \cup {None}, NEW wr \in BOOLEAN, NEW d \in Byte,
         Clocked(r, wr, d), wr /\ r = 6 => d < LowSize /\ d < NumAddr \div LowSize
  PROVE  /\ vram_addr' \in Address /\ oam_addr' \in OamAddr
         /\ {incr', addr_latch', oam_incr', stride2'} \subseteq BOOLEAN
         /\ scroll' \in Byte \X Byte /\ bus_out' \in Byte
         /\ nmta' \in [TableAddr -> Byte] /\ nmtb' \in [TableAddr -> Byte]
         /\ palette' \in [PalAddr -> Byte] /\ oam' \in [OamAddr -> Byte]
<1> USE DEF Clocked
<1>1. vram_addr' \in Address
  <2>1. vram_addr' = IF r = 6 /\ wr
                     THEN IF addr_latch THEN (base - (base % LowSize)) + d
                                        ELSE d * LowSize + (base % LowSize)
                     ELSE base
    BY DEF StepAddr, base
  <2>2. CASE r = 6 /\ wr
    <3>1. d \in Nat /\ d < LowSize /\ d < NumAddr \div LowSize
      BY <2>2
    <3>2. (base - (base % LowSize)) + d \in Address /\ d * LowSize + (base % LowSize) \in Address
      BY <3>1, BaseType, HalvesType
    <3> QED
      BY <2>1, <2>2, <3>2
  <2>3. CASE ~(r = 6 /\ wr)
    BY <2>1, <2>3, BaseType
  <2> QED
    BY <2>2, <2>3
<1>2. oam_addr' \in OamAddr
  <2>1. oam_addr \in Nat /\ 0 \in OamAddr /\ oam_addr \in OamAddr
    BY DEF TypeOK, OamAddr
  <2>2. (oam_addr + 1) % OamSize \in OamAddr
    BY <2>1 DEF OamAddr
  <2> QED
    BY <2>1, <2>2 DEF StepOamAddr
<1>3. {incr', addr_latch', oam_incr', stride2'} \subseteq BOOLEAN
  <2>1. incr' \in BOOLEAN /\ oam_incr' \in BOOLEAN
    BY DEF StepOamAddr
  <2>2. addr_latch' \in BOOLEAN
    BY DEF TypeOK, StepLatch
  <2>3. stride2' \in BOOLEAN
    BY DEF TypeOK, StepControl
  <2> QED
    BY <2>1, <2>2, <2>3
<1>4. scroll' \in Byte \X Byte
  BY DEF TypeOK, StepScroll
<1>5. bus_out' \in Byte
  <2>1. oam[oam_addr] \in Byte /\ bus_out \in Byte
    BY DEF TypeOK
  <2>2. DataOut(wr, d) \in Byte
    <3>1. inPattern => Chr[vram_addr] \in Byte
      BY MapType, MapAssumption
    <3>2. nmta[nmtAddr] \in Byte /\ nmtb[nmtAddr] \in Byte /\ palette[palette_addr] \in Byte
      BY MapType DEF TypeOK
    <3> QED
      BY <2>1, <3>1, <3>2 DEF DataOut
  <2> QED
    BY <2>1, <2>2 DEF StepBusOut
<1>6. /\ nmta' \in [TableAddr -> Byte] /\ nmtb' \in [TableAddr -> Byte]
      /\ palette' \in [PalAddr -> Byte] /\ oam' \in [OamAddr -> Byte]
  BY DEF TypeOK, WriteMem
<1> QED
  BY <1>1, <1>2, <1>3, <1>4, <1>5, <1>6

\* Every write of the program is one of a register, with a byte that fits.
LEMMA WrittenType ==
  ASSUME NEW w \in Written
  PROVE  w[1] \in Register /\ w[2] \in Byte /\ (w[1] = 6 => w[2] < LowSize /\ w[2] < NumAddr \div LowSize)
BY MapAssumption DEF Register

\* Every step keeps the inductive invariant.
LEMMA InvStep == ASSUME IInv, [Next]_vars PROVE IInv'
<1> USE DEF IInv
<1>1. CASE ReadRegister
  <2>1. PICK r \in Register : Clocked(r, FALSE, 0) /\ prev' = r /\ stores' = stores
    BY <1>1 DEF ReadRegister
  <2>2. TypeOK'
    BY <2>1, ClockedType DEF TypeOK
  <2>3. DueInv'
    BY <2>1 DEF DueInv, Clocked, StepOamAddr
  <2> QED
    BY <2>2, <2>3
<1>2. CASE WriteRegister
  <2>1. PICK w \in Written : /\ w[1] \in {4, 7} => stores > 0
                             /\ Clocked(w[1], TRUE, w[2]) /\ prev' = w[1]
                             /\ stores' = IF w[1] \in {4, 7} THEN stores - 1 ELSE stores
    BY <1>2 DEF WriteRegister
  <2>2. stores' \in 0 .. MaxStores /\ prev' \in Register
    BY <2>1, WrittenType, MapAssumption DEF TypeOK
  <2>3. TypeOK'
    BY <2>1, <2>2, WrittenType, ClockedType DEF TypeOK
  <2>4. DueInv'
    BY <2>1 DEF DueInv, Clocked, StepOamAddr
  <2> QED
    BY <2>3, <2>4
<1>3. CASE NoAccess
  <2>1. Clocked(None, FALSE, 0) /\ prev' = None /\ stores' = stores
    BY <1>3 DEF NoAccess
  <2>2. TypeOK'
    BY <2>1, ClockedType DEF TypeOK
  <2>3. DueInv'
    BY <2>1 DEF DueInv, Clocked, StepOamAddr, None
  <2> QED
    BY <2>2, <2>3
<1>4. CASE Reset
  <2>1. vram_addr' \in Address /\ oam_addr' \in OamAddr
    BY <1>4 DEF Reset, Address, OamAddr
  <2>2. /\ {incr', addr_latch', oam_incr', stride2'} \subseteq BOOLEAN
        /\ scroll' \in Byte \X Byte /\ bus_out' \in Byte /\ DueInv'
    BY <1>4 DEF Reset, DueInv
  <2> QED
    BY <1>4, <2>1, <2>2 DEF Reset, memVars, TypeOK
<1>5. CASE UNCHANGED vars
  BY <1>5 DEF vars, regVars, memVars, TypeOK, DueInv
<1> QED
  BY <1>1, <1>2, <1>3, <1>4, <1>5 DEF Next

\* And it holds at first.
LEMMA InitIInv == ASSUME Init PROVE IInv
<1>1. vram_addr \in Address /\ oam_addr \in OamAddr
  BY DEF Init, Address, OamAddr
<1>2. /\ {incr, addr_latch, oam_incr, stride2} \subseteq BOOLEAN
      /\ scroll \in Byte \X Byte /\ bus_out \in Byte /\ DueInv
  BY DEF Init, DueInv
<1>3. /\ nmta \in [TableAddr -> Byte] /\ nmtb \in [TableAddr -> Byte]
      /\ palette \in [PalAddr -> Byte] /\ oam \in [OamAddr -> Byte]
  BY DEF Init
<1>4. prev \in Register \cup {None} /\ stores \in 0 .. MaxStores
  BY DEF Init
<1> QED
  BY <1>1, <1>2, <1>3, <1>4 DEF IInv, TypeOK

\* So it always holds.
LEMMA Invariance == Spec => []IInv
  BY InitIInv, InvStep, PTL DEF Spec

\* The registers and the memories keep their ranges.
THEOREM TypeCorrect == Spec => []TypeOK
<1>1. IInv => TypeOK
  BY DEF IInv
<1> QED
  BY <1>1, Invariance, PTL
-----------------------------------------------------------------------------
(* The address map. *)

\* The bits of the address that choose the nametable choose the one the map
\* of the original machine has there, in every mirror.
LEMMA CellOfTable ==
  ASSUME TypeOK, inTable
  PROVE  CellAt[vram_addr] = <<"nmt", (IF tableA THEN 0 ELSE 1) * TableSize + nmtAddr>>
<1> DEFINE a == vram_addr
           e == a - PatEnd
           x == e \div TableSize
           range == (a \div TableSize) % 4
<1>1. a \in Nat /\ a \in Address /\ PatEnd <= a /\ a < PalBase /\ e \in Nat /\ a = PatEnd + e
  BY DEF TypeOK, Address, inTable
<1>2. PICK k \in Nat : PatEnd = TableSize * (4 * k)
  <2>1. 4 * TableSize \in Nat /\ 4 * TableSize > 0 /\ PatEnd % (4 * TableSize) = 0
    BY MapAssumption
  <2>2. PatEnd \div (4 * TableSize) \in Nat /\ PatEnd = (4 * TableSize) * (PatEnd \div (4 * TableSize)) + 0
    BY <2>1, Division
  <2> QED
    BY <2>2
<1> HIDE DEF e
<1>3. a \div TableSize = 4 * k + x /\ x \in Nat
  <2>1. 4 * k \in Nat
    OBVIOUS
  <2>2. (TableSize * (4 * k) + e) \div TableSize = 4 * k + (e \div TableSize)
    BY <1>1, <2>1, DivisionOfSum
  <2> QED
    BY <1>1, <1>2, <2>2, Division
<1> HIDE DEF a, x
<1>4. range = x % 4
  BY <1>3, DivisionOfSum
<1>5. range \in 0 .. 3
  BY <1>3
<1>6. TableNo(range) = IF tableA THEN 0 ELSE 1
  <2>1. range \in {0, 1, 2, 3} /\ MirrorCfg \in BOOLEAN
    BY <1>5, MapAssumption
  <2>2. tableA <=> range = 0 \/ (range = 1 /\ ~MirrorCfg) \/ (range = 2 /\ MirrorCfg)
    BY DEF tableA, a
  <2> HIDE DEF range
  <2>3. CASE MirrorCfg
    BY <2>1, <2>2, <2>3 DEF TableNo
  <2>4. CASE ~MirrorCfg
    BY <2>1, <2>2, <2>4 DEF TableNo
  <2> QED
    BY <2>3, <2>4
<1>7. CellAt[a] = <<"nmt", TableNo((e \div TableSize) % 4) * TableSize + (a % TableSize)>>
  BY <1>1 DEF CellAt, e
<1> QED
  BY <1>4, <1>6, <1>7 DEF a, x, nmtAddr

\* Both decodings of a palette address agree, and the cell is one there is.
LEMMA CellOfPalette ==
  ASSUME TypeOK, inPalette
  PROVE  /\ CellAt[vram_addr] = <<"pal", palette_addr>>
         /\ ~(PalSize \div 2 <= palette_addr /\ palette_addr % 4 = 0)
<1> DEFINE a == vram_addr
           e == a - PalBase
           i == a % PalSize
           h == PalSize \div 2
<1>1. a \in Nat /\ a \in Address /\ PalBase <= a /\ a < MapEnd /\ e \in Nat /\ a = PalBase + e
  BY DEF TypeOK, Address, inPalette
<1>2. PICK m \in Nat : PalSize = 4 * m /\ h = 2 * m /\ PalSize = h * 2 /\ h \in Nat /\ h > 0 /\ m > 0
  <2>1. PalSize % 4 = 0
    BY MapAssumption
  <2> QED
    BY <2>1
<1>3. i \in 0 .. PalSize - 1 /\ i = e % PalSize
  <2>1. PalBase % PalSize = 0
    BY MapAssumption
  <2>2. PICK k \in Nat : PalBase = PalSize * k
    BY <2>1, Division
  <2> HIDE DEF a, e
  <2>3. (PalSize * k + e) % PalSize = e % PalSize
    BY <1>1, DivisionOfSum
  <2>4. a = PalSize * k + e
    BY <1>1, <2>2
  <2>5. a % PalSize \in 0 .. PalSize - 1
    BY <1>1
  <2> QED
    BY <2>3, <2>4, <2>5
<1> HIDE DEF e, i, h
<1>4. i % 4 = e % 4 /\ i % h = e % h
  <2>1. e \in Nat /\ PalSize = 4 * m /\ PalSize = h * 2 /\ h \in Nat /\ h > 0
    BY <1>1, <1>2
  <2>2. (e % PalSize) % 4 = e % 4
    BY <2>1, RemainderOfPalette, Zenon
  <2>3. (e % PalSize) % h = e % h
    BY <2>1, RemainderOfPalette, Zenon
  <2> QED
    BY <1>3, <2>2, <2>3
<1>6. i % h = IF h <= i THEN i - h ELSE i
  <2>1. CASE h <= i
    <3>1. i - h \in 0 .. h - 1 /\ h * 1 + (i - h) = i
      BY <1>2, <1>3, <2>1
    <3>2. (h * 1 + (i - h)) % h = i - h
      BY <1>2, <3>1, DivisionIsUnique
    <3> QED
      BY <2>1, <3>1, <3>2
  <2>2. CASE i < h
    <3>1. i \in 0 .. h - 1 /\ h * 0 + i = i
      BY <1>2, <1>3, <2>2
    <3>2. (h * 0 + i) % h = i
      BY <1>2, <3>1, DivisionIsUnique
    <3> QED
      BY <1>2, <2>2, <3>1, <3>2
  <2> QED
    BY <1>2, <1>3, <2>1, <2>2
<1>7. palette_addr = IF h <= i /\ i % 4 = 0 THEN i - h ELSE i
  BY DEF palette_addr, i, h, a
<1>8. CellAt[a] = <<"pal", IF e % 4 = 0 THEN e % h ELSE e % PalSize>>
  BY <1>1 DEF CellAt, e, h
<1>9. palette_addr = IF e % 4 = 0 THEN e % h ELSE e % PalSize
  BY <1>2, <1>3, <1>4, <1>6, <1>7
<1>10. ~(h <= palette_addr /\ palette_addr % 4 = 0)
  <2>1. CASE h <= i /\ i % 4 = 0
    BY <1>2, <1>3, <1>7, <2>1
  <2>2. CASE ~(h <= i /\ i % 4 = 0)
    BY <1>7, <2>2
  <2> QED
    BY <2>1, <2>2
<1> QED
  BY <1>8, <1>9, <1>10 DEF a, h

\* The other addresses.
LEMMA CellElsewhere ==
  ASSUME TypeOK
  PROVE  /\ inPattern => CellAt[vram_addr] = <<"chr", vram_addr>>
         /\ ~inPattern /\ ~inTable /\ ~inPalette => CellAt[vram_addr] = <<"none", 0>>
BY DEF TypeOK, Address, CellAt, inPattern, inTable, inPalette

\* A cell is a byte of pattern ROM, of a nametable or of the palette.
LEMMA CellKinds ==
  ASSUME NEW c \in Cell
  PROVE  /\ c = <<c[1], c[2]>> /\ c[1] \in {"chr", "nmt", "pal"}
         /\ c[1] = "chr" => c[2] \in 0 .. PatEnd - 1
         /\ c[1] = "nmt" => c[2] \in Nat /\ (c[2] < TableSize => c[2] \in TableAddr)
                            /\ (~(c[2] < TableSize) => c[2] - TableSize \in TableAddr)
         /\ c[1] = "pal" => c[2] \in PalAddr
<1>1. CASE c \in {<<"chr", a>> : a \in 0 .. PatEnd - 1}
  BY <1>1
<1>2. CASE c \in {<<"nmt", t * TableSize + i>> : t \in 0 .. 1, i \in TableAddr}
  <2>1. PICK t \in 0 .. 1, i \in TableAddr : c = <<"nmt", t * TableSize + i>>
    BY <1>2
  <2>2. CASE t = 0
    <3>1. t * TableSize + i = i
      BY <2>2 DEF TableAddr
    <3> QED
      BY <2>1, <3>1 DEF TableAddr
  <2>3. CASE t = 1
    <3>1. t * TableSize + i = TableSize + i
      BY <2>3 DEF TableAddr
    <3> QED
      BY <2>1, <3>1 DEF TableAddr
  <2> QED
    BY <2>2, <2>3
<1>3. CASE c \in {<<"pal", i>> : i \in {j \in PalAddr : ~(PalSize \div 2 <= j /\ j % 4 = 0)}}
  BY <1>3
<1> QED
  BY <1>1, <1>2, <1>3 DEF Cell

\* Every cell holds a byte.
LEMMA ContentsType == ASSUME TypeOK PROVE Contents \in [Cell -> Byte]
<1> SUFFICES ASSUME NEW c \in Cell PROVE Contents[c] \in Byte
  BY DEF Contents
<1>1. Contents[c] = IF c[1] = "chr" THEN Chr[c[2]]
                    ELSE IF c[1] = "pal" THEN palette[c[2]]
                    ELSE IF c[2] < TableSize THEN nmta[c[2]] ELSE nmtb[c[2] - TableSize]
  BY DEF Contents
<1>2. CASE c[1] = "chr"
  BY <1>1, <1>2, CellKinds, MapAssumption
<1>3. CASE c[1] = "pal"
  BY <1>1, <1>3, CellKinds DEF TypeOK
<1>4. CASE c[1] = "nmt"
  BY <1>1, <1>4, CellKinds DEF TypeOK
<1> QED
  BY <1>2, <1>3, <1>4, CellKinds
-----------------------------------------------------------------------------
(* The port.  An increment that is due counts as done.                     *)

\* The address of OAM as the next access finds it.
oamBase == IF oam_incr THEN (oam_addr + 1) % OamSize ELSE oam_addr

\* No increment is due when the program makes an access: it leaves the CPU
\* time to fetch an instruction.
LEMMA NothingDue ==
  ASSUME IInv, NEW r \in Register, mayAccess(r)
  PROVE  ~incr /\ ~oam_incr /\ base = vram_addr /\ oamBase = oam_addr
BY DEF IInv, DueInv, mayAccess, Register, None, base, oamBase

\* What every clock does to what the port shows.
LEMMA EveryClock ==
  ASSUME TypeOK, NEW r \in Register \cup {None}, NEW wr \in BOOLEAN, NEW d \in Byte,
         Clocked(r, wr, d)
  PROVE  /\ ~(r = 6 /\ wr) => vram_addr' = base
         /\ base' = IF r = 7 THEN (vram_addr' + stride') % NumAddr ELSE vram_addr'
         /\ ~(r = 0 /\ wr) => stride' = stride
         /\ r \notin {2, 5, 6} => addr_latch' = addr_latch
         /\ ~(r = 4 /\ wr) => oamBase' \in {oamBase, 0} /\ oam' = oam
         /\ ~(r = 7 /\ wr) => nmta' = nmta /\ nmtb' = nmtb /\ palette' = palette
<1> USE DEF Clocked
<1>1. ~(r = 6 /\ wr) => vram_addr' = base
  BY DEF StepAddr, base
<1>2. base' = IF r = 7 THEN (vram_addr' + stride') % NumAddr ELSE vram_addr'
  BY DEF base
<1>3. ~(r = 0 /\ wr) => stride' = stride
  BY DEF StepControl, stride
<1>4. r \notin {2, 5, 6} => addr_latch' = addr_latch
  BY DEF StepLatch, TypeOK
<1>5. ~(r = 4 /\ wr) => oamBase' \in {oamBase, 0} /\ oam' = oam
  BY DEF StepOamAddr, oamBase, WriteMem, oam_en
<1>6. ~(r = 7 /\ wr) => nmta' = nmta /\ nmtb' = nmtb /\ palette' = palette
  BY DEF WriteMem, nmta_en, nmtb_en, pal_en
<1> QED
  BY <1>1, <1>2, <1>3, <1>4, <1>5, <1>6

\* The cells are where the code looks for them.
LEMMA CellHolds ==
  /\ \A a \in 0 .. PatEnd - 1 : <<"chr", a>> \in Cell /\ Contents[<<"chr", a>>] = Chr[a]
  /\ \A i \in TableAddr :
       /\ <<"nmt", 0 * TableSize + i>> \in Cell /\ <<"nmt", 1 * TableSize + i>> \in Cell
       /\ Contents[<<"nmt", 0 * TableSize + i>>] = nmta[i]
       /\ Contents[<<"nmt", 1 * TableSize + i>>] = nmtb[i]
  /\ \A i \in PalAddr : ~(PalSize \div 2 <= i /\ i % 4 = 0) =>
       <<"pal", i>> \in Cell /\ Contents[<<"pal", i>>] = palette[i]
<1>1. ASSUME NEW a \in 0 .. PatEnd - 1
      PROVE  <<"chr", a>> \in Cell /\ Contents[<<"chr", a>>] = Chr[a]
  BY DEF Cell, Contents
<1>2. ASSUME NEW i \in TableAddr
      PROVE  /\ <<"nmt", 0 * TableSize + i>> \in Cell /\ <<"nmt", 1 * TableSize + i>> \in Cell
             /\ Contents[<<"nmt", 0 * TableSize + i>>] = nmta[i]
             /\ Contents[<<"nmt", 1 * TableSize + i>>] = nmtb[i]
  <2>1. <<"nmt", 0 * TableSize + i>> \in Cell /\ <<"nmt", 1 * TableSize + i>> \in Cell
    <3>1. 0 \in 0 .. 1 /\ 1 \in 0 .. 1
      OBVIOUS
    <3> QED
      BY <3>1 DEF Cell
  <2>2. 0 * TableSize + i = i /\ 1 * TableSize + i = TableSize + i /\ i < TableSize
        /\ i \in Nat /\ ~(TableSize + i < TableSize) /\ (TableSize + i) - TableSize = i
    BY DEF TableAddr
  <2> QED
    BY <2>1, <2>2 DEF Contents
<1>3. ASSUME NEW i \in PalAddr, ~(PalSize \div 2 <= i /\ i % 4 = 0)
      PROVE  <<"pal", i>> \in Cell /\ Contents[<<"pal", i>>] = palette[i]
  BY <1>3 DEF Cell, Contents
<1> QED
  BY <1>1, <1>2, <1>3

\* What a read of $2007 fetches is what its cell holds.
LEMMA FetchesCell ==
  ASSUME TypeOK
  PROVE  CellAt[vram_addr] # <<"none", 0>> => DataOut(FALSE, 0) = Contents[CellAt[vram_addr]]
<1>0. vram_addr \in Nat
  BY MapType
<1>1. CASE inPattern
  BY <1>1, CellElsewhere, CellHolds, MapType DEF DataOut
<1>2. CASE inTable
  <2>1. CellAt[vram_addr] = <<"nmt", (IF tableA THEN 0 ELSE 1) * TableSize + nmtAddr>>
    BY <1>2, CellOfTable
  <2>2. DataOut(FALSE, 0) = IF tableA THEN nmta[nmtAddr] ELSE nmtb[nmtAddr]
    BY <1>2, <1>0 DEF DataOut, inPattern, inTable
  <2>3. nmtAddr \in TableAddr
    BY MapType
  <2>4. CASE tableA
    BY <2>1, <2>2, <2>3, <2>4, CellHolds
  <2>5. CASE ~tableA
    BY <2>1, <2>2, <2>3, <2>5, CellHolds
  <2> QED
    BY <2>4, <2>5
<1>3. CASE inPalette
  <2>1. DataOut(FALSE, 0) = palette[palette_addr]
    BY <1>3 DEF DataOut, inPattern, inTable, inPalette, TypeOK, Address
  <2> QED
    BY <1>3, <2>1, CellOfPalette, CellHolds, MapType
<1> QED
  BY <1>1, <1>2, <1>3, CellElsewhere

\* Memories that stay are cells that stay.
LEMMA SameContents ==
  ASSUME nmta' = nmta, nmtb' = nmtb, palette' = palette PROVE Contents' = Contents
BY DEF Contents

\* A write of $2007 stores in its cell, and in no other.
LEMMA StoresCell ==
  ASSUME TypeOK, NEW d \in Byte, WriteMem(7, TRUE, d)
  PROVE  Contents' = IF CellAt[vram_addr] \in {c \in Cell : c[1] # "chr"}
                     THEN [Contents EXCEPT ![CellAt[vram_addr]] = d] ELSE Contents
<1>1. CASE ~inTable /\ ~inPalette
  <2>1. Contents' = Contents
    BY <1>1, SameContents DEF WriteMem, nmta_en, nmtb_en, pal_en
  <2>2. CellAt[vram_addr] \notin {c \in Cell : c[1] # "chr"}
    <3>1. CellAt[vram_addr][1] \in {"chr", "none"}
      BY <1>1, CellElsewhere
    <3> QED
      BY <3>1, CellKinds
  <2> QED
    BY <2>1, <2>2
<1>2. CASE inTable
  <2> DEFINE c0 == CellAt[vram_addr]
  <2>1. /\ nmta' = IF tableA THEN [nmta EXCEPT ![nmtAddr] = d] ELSE nmta
        /\ nmtb' = IF tableA THEN nmtb ELSE [nmtb EXCEPT ![nmtAddr] = d]
        /\ palette' = palette
    BY <1>2 DEF WriteMem, nmta_en, nmtb_en, pal_en, inTable, inPalette, TypeOK, Address
  <2>2. nmtAddr \in TableAddr /\ nmtAddr \in Nat /\ nmtAddr < TableSize
    BY MapType DEF TableAddr
  <2>3. c0 \in Cell /\ c0[1] = "nmt" /\ c0[2] = IF tableA THEN nmtAddr ELSE TableSize + nmtAddr
    <3>1. c0 = <<"nmt", (IF tableA THEN 0 ELSE 1) * TableSize + nmtAddr>>
      BY <1>2, CellOfTable
    <3> HIDE DEF c0
    <3>2. 0 * TableSize + nmtAddr = nmtAddr /\ 1 * TableSize + nmtAddr = TableSize + nmtAddr
      BY <2>2
    <3>3. /\ <<"nmt", 0 * TableSize + nmtAddr>> \in Cell
          /\ <<"nmt", 1 * TableSize + nmtAddr>> \in Cell
      BY <2>2, CellHolds
    <3>4. CASE tableA
      BY <3>1, <3>2, <3>3, <3>4
    <3>5. CASE ~tableA
      BY <3>1, <3>2, <3>3, <3>5
    <3> QED
      BY <3>4, <3>5
  <2> HIDE DEF c0
  <2>4. ASSUME NEW c \in Cell PROVE Contents'[c] = [Contents EXCEPT ![c0] = d][c]
    <3>1. c = <<c[1], c[2]>> /\ c[1] \in {"chr", "nmt", "pal"}
      BY CellKinds
    <3>2. c0 = <<c0[1], c0[2]>>
      BY <2>3, CellKinds
    <3>3. CASE c[1] # "nmt"
      BY <2>1, <2>3, <3>1, <3>3 DEF Contents
    <3>4. CASE c[1] = "nmt"
      <4>1. /\ c[2] \in Nat /\ (c[2] < TableSize => c[2] \in TableAddr)
            /\ (~(c[2] < TableSize) => c[2] - TableSize \in TableAddr)
        BY <3>4, CellKinds
      <4>2. Contents'[c] = IF c[2] < TableSize THEN nmta'[c[2]] ELSE nmtb'[c[2] - TableSize]
        BY <3>4 DEF Contents
      <4>3. Contents[c] = IF c[2] < TableSize THEN nmta[c[2]] ELSE nmtb[c[2] - TableSize]
        BY <3>4 DEF Contents
      <4>4. (c = c0) <=> (c[2] = c0[2])
        BY <2>3, <3>1, <3>2, <3>4
      <4>5. [Contents EXCEPT ![c0] = d][c] = IF c = c0 THEN d ELSE Contents[c]
        BY DEF Contents
      <4>6. CASE tableA
        BY <2>1, <2>2, <2>3, <4>1, <4>2, <4>3, <4>4, <4>5, <4>6 DEF TypeOK
      <4>7. CASE ~tableA
        BY <2>1, <2>2, <2>3, <4>1, <4>2, <4>3, <4>4, <4>5, <4>7 DEF TypeOK
      <4> QED
        BY <4>6, <4>7
    <3> QED
      BY <3>3, <3>4
  <2>5. Contents' = [Contents EXCEPT ![c0] = d]
    BY <2>4 DEF Contents
  <2> QED
    BY <2>3, <2>5 DEF c0
<1>3. CASE inPalette
  <2> DEFINE c0 == CellAt[vram_addr]
  <2>1. palette' = [palette EXCEPT ![palette_addr] = d] /\ nmta' = nmta /\ nmtb' = nmtb
    BY <1>3 DEF WriteMem, nmta_en, nmtb_en, pal_en, inTable, inPalette, TypeOK, Address
  <2>2. palette_addr \in PalAddr
    BY MapType
  <2>3. c0 \in Cell /\ c0 = <<"pal", palette_addr>>
    BY <1>3, <2>2, CellOfPalette, CellHolds
  <2> HIDE DEF c0
  <2>4. ASSUME NEW c \in Cell PROVE Contents'[c] = [Contents EXCEPT ![c0] = d][c]
    <3>1. c = <<c[1], c[2]>> /\ c[1] \in {"chr", "nmt", "pal"} /\ (c[1] = "pal" => c[2] \in PalAddr)
      BY CellKinds
    <3>2. CASE c[1] # "pal"
      BY <2>1, <2>3, <3>2 DEF Contents
    <3>3. CASE c[1] = "pal"
      <4>1. Contents'[c] = palette'[c[2]] /\ Contents[c] = palette[c[2]]
        BY <3>3 DEF Contents
      <4>2. (c = c0) <=> (c[2] = palette_addr)
        BY <2>3, <3>1, <3>3
      <4>3. [Contents EXCEPT ![c0] = d][c] = IF c = c0 THEN d ELSE Contents[c]
        BY DEF Contents
      <4> QED
        BY <2>1, <2>2, <3>1, <3>3, <4>1, <4>2, <4>3 DEF TypeOK
    <3> QED
      BY <3>2, <3>3
  <2>5. Contents' = [Contents EXCEPT ![c0] = d]
    BY <2>4 DEF Contents
  <2> QED
    BY <2>3, <2>5 DEF c0
<1> QED
  BY <1>1, <1>2, <1>3

\* Every read is a step of the port.
LEMMA ReadMaps == ASSUME IInv, IInv', ReadRegister PROVE [Port!Next]_(Port!vars)
<1>1. PICK r \in Register : mayAccess(r) /\ Clocked(r, FALSE, 0) /\ prev' = r
  BY DEF ReadRegister
<1>2. ~incr /\ ~oam_incr /\ base = vram_addr /\ oamBase = oam_addr
  BY <1>1, NothingDue
<1>3. TypeOK /\ 0 \in Byte /\ bus_out' \in Byte
  BY DEF IInv, TypeOK
<1>4. /\ vram_addr' = base
      /\ base' = IF r = 7 THEN (vram_addr' + stride') % NumAddr ELSE vram_addr'
      /\ stride' = stride
      /\ r \notin {2, 5, 6} => addr_latch' = addr_latch
      /\ oamBase' \in {oamBase, 0} /\ oam' = oam
      /\ nmta' = nmta /\ nmtb' = nmtb /\ palette' = palette
  BY <1>1, <1>3, EveryClock
<1>5. Contents' = Contents
  BY <1>4, SameContents
<1>6. Port!OamStays
  BY <1>4 DEF Port!OamStays, oamBase
<1>7. addr_latch' = IF r = 2 THEN FALSE ELSE addr_latch
  BY <1>1, <1>3 DEF Clocked, StepLatch, TypeOK
<1>8. bus_out' \in IF r = 2 THEN Status ELSE IF r = 4 THEN {oam[oam_addr]}
                   ELSE IF r = 7 THEN {DataOut(FALSE, 0)} ELSE {bus_out}
  BY <1>1 DEF Clocked, StepBusOut
<1>9. CASE r = 7
  <2>1. IF CellAt[base] = <<"none", 0>> THEN bus_out' \in Byte ELSE bus_out' = Contents[CellAt[base]]
    <3>1. bus_out' = DataOut(FALSE, 0)
      BY <1>8, <1>9
    <3>2. CellAt[vram_addr] # <<"none", 0>> => DataOut(FALSE, 0) = Contents[CellAt[vram_addr]]
      BY <1>3, FetchesCell
    <3> QED
      BY <1>2, <1>3, <3>1, <3>2
  <2>2. base' = (base + stride) % NumAddr /\ addr_latch' = addr_latch
    BY <1>4, <1>9
  <2>3. Port!Load
    BY <1>4, <1>5, <1>6, <2>1, <2>2 DEF Port!Load, base
  <2> QED
    BY <2>3 DEF Port!Next
<1>10. CASE r = 2
  <2>1. Port!ReadStatus
    BY <1>3, <1>4, <1>5, <1>6, <1>7, <1>10 DEF Port!ReadStatus, base
  <2> QED
    BY <2>1 DEF Port!Next
<1>11. CASE r = 4
  <2>1. Port!OamLoad
    BY <1>2, <1>4, <1>5, <1>6, <1>7, <1>8, <1>11 DEF Port!OamLoad, base, oamBase
  <2> QED
    BY <2>1 DEF Port!Next
<1>12. CASE r \notin {2, 4, 7}
  <2>1. Port!Idle
    BY <1>4, <1>5, <1>6, <1>7, <1>8, <1>12 DEF Port!Idle, base
  <2> QED
    BY <2>1 DEF Port!Next
<1> QED
  BY <1>9, <1>10, <1>11, <1>12

\* And so is every write.
LEMMA WriteMaps == ASSUME IInv, IInv', WriteRegister PROVE [Port!Next]_(Port!vars)
<1>1. PICK w \in Written : mayAccess(w[1]) /\ Clocked(w[1], TRUE, w[2]) /\ prev' = w[1]
  BY DEF WriteRegister
<1> DEFINE r == w[1]
           d == w[2]
<1>0. r \in Register /\ d \in Byte /\ mayAccess(r) /\ Clocked(r, TRUE, d)
  BY <1>1, WrittenType
<1> HIDE DEF r, d
<1>2. ~incr /\ ~oam_incr /\ base = vram_addr /\ oamBase = oam_addr
  BY <1>0, NothingDue
<1>3. TypeOK /\ 0 \in Byte /\ bus_out' \in Byte
  BY DEF IInv, TypeOK
<1>4. /\ r # 6 => vram_addr' = base
      /\ base' = IF r = 7 THEN (vram_addr' + stride') % NumAddr ELSE vram_addr'
      /\ r # 0 => stride' = stride
      /\ r \notin {2, 5, 6} => addr_latch' = addr_latch
      /\ r # 4 => oamBase' \in {oamBase, 0} /\ oam' = oam
      /\ r # 7 => nmta' = nmta /\ nmtb' = nmtb /\ palette' = palette
  BY <1>0, <1>3, EveryClock
<1>5. r # 7 => Contents' = Contents
  BY <1>4, SameContents
<1>6. r # 4 => Port!OamStays
  BY <1>4 DEF Port!OamStays, oamBase
<1>7. addr_latch' = IF r \in {5, 6} THEN ~addr_latch ELSE addr_latch
  BY <1>0, <1>3 DEF Clocked, StepLatch, TypeOK
<1>8. r # 7 => bus_out' = bus_out
  BY <1>0 DEF Clocked, StepBusOut
<1>9. CASE r = 7
  <2>1. Contents' = IF CellAt[base] \in {c \in Cell : c[1] # "chr"}
                    THEN [Contents EXCEPT ![CellAt[base]] = d] ELSE Contents
    <3>1. WriteMem(7, TRUE, d)
      BY <1>0, <1>9 DEF Clocked
    <3> QED
      BY <1>0, <1>2, <1>3, <3>1, StoresCell
  <2>2. base' = (base + stride) % NumAddr /\ addr_latch' = addr_latch /\ stride' = stride
        /\ oam' = oam /\ Port!OamStays
    BY <1>4, <1>6, <1>9
  <2>3. Port!Store
    BY <1>0, <1>3, <2>1, <2>2 DEF Port!Store, base
  <2> QED
    BY <2>3 DEF Port!Next
<1>10. CASE r = 4
  <2>1. oam' = [oam EXCEPT ![oamBase] = d]
    BY <1>0, <1>2, <1>10 DEF Clocked, WriteMem, oam_en
  <2>2. oamBase' \in {(oamBase + 1) % OamSize, 1 % OamSize}
    <3>1. oam_incr' /\ oam_addr' \in {oam_addr, 0}
      BY <1>0, <1>2, <1>10 DEF Clocked, StepOamAddr
    <3> QED
      BY <1>2, <3>1 DEF oamBase
  <2>3. base' = base /\ addr_latch' = addr_latch /\ stride' = stride /\ Contents' = Contents
    BY <1>4, <1>5, <1>10
  <2>4. Port!OamStore
    <3>1. \E b \in Byte : oam' = [oam EXCEPT ![oamBase] = b]
      BY <1>0, <2>1
    <3>2. bus_out' = bus_out
      BY <1>8, <1>10
    <3> QED
      BY <2>2, <2>3, <3>1, <3>2, Zenon DEF Port!OamStore, base, oamBase
  <2> QED
    BY <2>4 DEF Port!Next
<1>11. CASE r = 0
  <2>1. stride' \in {1, BigStride}
    BY DEF stride
  <2>2. Port!SetStride
    BY <1>4, <1>5, <1>6, <1>8, <1>11, <2>1 DEF Port!SetStride, base
  <2> QED
    BY <2>2 DEF Port!Next
<1>12. CASE r = 6
  <2>1. base' = IF addr_latch THEN (base - (base % LowSize)) + d
                ELSE d * LowSize + (base % LowSize)
    <3>1. vram_addr' = IF addr_latch THEN (base - (base % LowSize)) + d
                       ELSE d * LowSize + (base % LowSize)
      BY <1>0, <1>12 DEF Clocked, StepAddr, base
    <3> QED
      BY <1>4, <1>12, <3>1
  <2>2. Port!SetAddr
    BY <1>0, <1>4, <1>5, <1>6, <1>7, <1>8, <1>12, <2>1 DEF Port!SetAddr, base
  <2> QED
    BY <2>2 DEF Port!Next
<1>13. CASE r = 5
  <2>1. Port!SetScroll
    BY <1>4, <1>5, <1>6, <1>7, <1>8, <1>13 DEF Port!SetScroll, base
  <2> QED
    BY <2>1 DEF Port!Next
<1>14. CASE r \notin {0, 4, 5, 6, 7}
  <2>1. Port!Idle
    BY <1>4, <1>5, <1>6, <1>7, <1>8, <1>14 DEF Port!Idle, base
  <2> QED
    BY <2>1 DEF Port!Next
<1> QED
  BY <1>9, <1>10, <1>11, <1>12, <1>13, <1>14

\* And so are the clocks between them, which do the increments that were due,
\* and reset.
LEMMA StepMaps == ASSUME IInv, IInv', [Next]_vars PROVE [Port!Next]_(Port!vars)
<1>1. CASE ReadRegister
  BY <1>1, ReadMaps
<1>2. CASE WriteRegister
  BY <1>2, WriteMaps
<1>3. CASE NoAccess
  <2>1. Clocked(None, FALSE, 0) /\ TypeOK
    BY <1>3 DEF NoAccess, IInv
  <2>2. /\ base' = base /\ stride' = stride /\ addr_latch' = addr_latch
        /\ oamBase' \in {oamBase, 0} /\ oam' = oam
        /\ nmta' = nmta /\ nmtb' = nmtb /\ palette' = palette
    <3>1. None \in Register \cup {None} /\ FALSE \in BOOLEAN /\ 0 \in Byte /\ None = 8
      BY DEF None
    <3>2. /\ vram_addr' = base /\ base' = IF None = 7 THEN (vram_addr' + stride') % NumAddr ELSE vram_addr'
          /\ stride' = stride /\ (None \notin {2, 5, 6} => addr_latch' = addr_latch)
          /\ oamBase' \in {oamBase, 0} /\ oam' = oam
          /\ nmta' = nmta /\ nmtb' = nmtb /\ palette' = palette
      BY <2>1, <3>1, EveryClock
    <3> QED
      BY <3>1, <3>2
  <2>3. Contents' = Contents /\ Port!OamStays
    BY <2>2, SameContents DEF Port!OamStays, oamBase
  <2>4. bus_out' = bus_out
    BY <2>1 DEF Clocked, StepBusOut, None
  <2>5. Port!Idle
    BY <2>2, <2>3, <2>4 DEF Port!Idle, base
  <2> QED
    BY <2>5 DEF Port!Next
<1>4. CASE Reset
  <2>1. base' = 0 /\ oamBase' = 0 /\ stride' = 1 /\ oam' = oam /\ Contents' = Contents
    BY <1>4, SameContents DEF Reset, memVars, base, oamBase, stride
  <2>2. Port!Reset
    BY <1>4, <2>1 DEF Reset, Port!Reset, base, oamBase
  <2> QED
    BY <2>2 DEF Port!Next
<1>5. CASE UNCHANGED vars
  <2>1. Contents' = Contents
    BY <1>5, SameContents DEF vars, memVars
  <2>2. UNCHANGED Port!vars
    BY <1>5, <2>1 DEF vars, regVars, memVars, Port!vars, stride
  <2> QED
    BY <2>2
<1> QED
  BY <1>1, <1>2, <1>3, <1>4, <1>5 DEF Next

\* The registers implement the port that VramPort describes.
THEOREM Refinement == Spec => ImplementsVramPort
<1>1. Init => Port!Init
  <2> SUFFICES ASSUME Init PROVE Port!Init
    OBVIOUS
  <2>1. TypeOK
    BY InitIInv DEF IInv
  <2>2. Contents \in [Cell -> Byte] /\ oam \in [0 .. OamSize - 1 -> Byte] /\ bus_out \in Byte
    BY <2>1, ContentsType DEF TypeOK, OamAddr
  <2> QED
    BY <2>2 DEF Init, Port!Init, stride
<1>2. IInv /\ IInv' /\ [Next]_vars => [Port!Next]_(Port!vars)
  BY StepMaps
<1> QED
  BY <1>1, <1>2, Invariance, PTL DEF Spec, ImplementsVramPort, Port!Spec
=============================================================================
