---------------------------- MODULE OamDmaProofs ----------------------------
(***************************************************************************)
(* Theorems about OamDma, for every page size, memory map and program.     *)
(***************************************************************************)
EXTENDS OamDma, TLAPS

\* Which bus cycles may stand when: a write outside RAM belongs to the end of
\* an instruction, so after $4014 is written two reads follow, or its second
\* write and then two reads.
Discipline ==
  /\ bus.wr /\ bus.addr[1] \notin RamPage => phase \in {"modify", "store"}
  /\ dstate = "DLY" => /\ phase \in {"store", "fetch"}
                       /\ bus.wr => bus.addr = DmaReg

IInv == TypeOK /\ Discipline /\ FrozenInRead /\ CopiedSoFar

\* A remainder lies below its divisor.
LEMMA ModRange == ASSUME NEW m \in Nat \ {0}, NEW n \in Nat
                  PROVE  n % m \in 0 .. m - 1
  OBVIOUS

\* A mirror of RAM is a page of physical RAM.
LEMMA Mirror == ASSUME NEW p \in RamPage PROVE p % RamPages \in RamPhys
  BY ModRange, SizesAssumption DEF RamPage, RamPhys, Byte

\* What a page of memory reads as is a page of bytes.
LEMMA ImageType == ASSUME TypeOK, NEW p \in MemPage
                   PROVE  Image(p) \in [Offset -> Byte]
  BY Mirror, MapAssumption DEF TypeOK, Image, MemPage

\* In a cycle in which the dma module has the bus, the byte on it is the byte
\* of memory that the counter points at.
LEMMA TransferredByte ==
  ASSUME TypeOK, FrozenInRead, hijack, prefix \in MemPage, NEW d \in BUS_OUT
  PROVE  d = Image(prefix)[ctr]
  BY DEF TypeOK, FrozenInRead, BUS_OUT, INT_ADDR, MemPage

\* Whatever the cycle, the bus carries a byte.
LEMMA BusType == ASSUME TypeOK, NEW d \in BUS_OUT PROVE d \in Byte
<1>1. INT_ADDR \in Byte \X Offset
  BY DEF TypeOK, INT_ADDR, Cycle, Addr
<1>2. CASE INT_ADDR[1] \in MemPage
  <2>1. Image(INT_ADDR[1])[INT_ADDR[2]] \in Byte
    BY <1>1, <1>2, ImageType
  <2>2. bus.data \in Byte
    BY DEF TypeOK, Cycle
  <2> QED
    BY <1>2, <2>1, <2>2 DEF BUS_OUT, MemPage
<1>3. CASE INT_ADDR[1] \notin MemPage
  BY <1>3 DEF BUS_OUT, MemPage, TypeOK, Cycle
<1> QED
  BY <1>2, <1>3

\* The memories stay memories of bytes.
LEMMA WriteType ==
  ASSUME TypeOK, NEW d \in Byte, WriteRam(d), WriteOam(d)
  PROVE  /\ ram' \in [RamPhys -> [Offset -> Byte]]
         /\ oam' \in [Offset -> Byte]
<1>1. INT_ADDR \in Byte \X Offset
  BY DEF TypeOK, INT_ADDR, Cycle, Addr
<1>2. INT_ADDR[1] \in RamPage => INT_ADDR[1] % RamPages \in RamPhys
  BY Mirror
<1>3. ram' \in [RamPhys -> [Offset -> Byte]]
  BY <1>1, <1>2 DEF TypeOK, WriteRam, SYSRAM_EN
<1>4. oam' \in [Offset -> Byte]
  BY DEF TypeOK, WriteOam, oam_port
<1> QED
  BY <1>3, <1>4

\* A read cycle does not write.
LEMMA ReadIsNoWrite == ASSUME bus' \in ReadCycle PROVE ~bus'.wr
  BY DEF ReadCycle

\* The next bus cycle of the CPU is well formed and keeps to its discipline.
LEMMA NextCycleType ==
  ASSUME TypeOK, Discipline, NextCycle
  PROVE  /\ bus' \in Cycle
         /\ phase' \in Phase
         /\ bus'.wr /\ bus'.addr[1] \notin RamPage
              => phase' \in {"modify", "store"}
<1>1. CASE bus' \in ReadCycle /\ phase' \in {"any", "store", "fetch"}
  <2>1. 0 \in Byte /\ ReadAddr \subseteq Addr
    BY SizesAssumption, MapAssumption DEF Byte
  <2>2. bus' \in Cycle /\ ~bus'.wr
    BY <1>1, <2>1 DEF ReadCycle, Cycle
  <2> QED
    BY <1>1, <2>2 DEF Phase
<1>2. ASSUME NEW a \in Addr, NEW d \in Byte,
             bus' = [wr |-> TRUE, addr |-> a, data |-> d],
             \/ phase' \in {"modify", "store"}
             \/ a[1] \in RamPage /\ phase' = "any"
      PROVE  /\ bus' \in Cycle
             /\ phase' \in Phase
             /\ bus'.wr /\ bus'.addr[1] \notin RamPage
                  => phase' \in {"modify", "store"}
  BY <1>2 DEF Cycle, Phase
<1>3. bus.addr \in Addr /\ WriteAddr \subseteq Addr
  BY MapAssumption DEF TypeOK, Cycle
<1> QED
  BY <1>1, <1>2, <1>3 DEF NextCycle

\* Type correctness is inductive together with the discipline.
LEMMA TypeStep == ASSUME IInv, [Next]_vars PROVE TypeOK'
<1> USE DEF IInv
<1>1. ASSUME Tick PROVE TypeOK'
  <2>1. PICK d \in BUS_OUT : /\ StepDma(d)
                             /\ WriteRam(d) /\ WriteOam(d)
                             /\ StepOamAddr
                             /\ StepCpu
                             /\ UNCHANGED reset
    BY <1>1 DEF Tick
  <2>2. d \in Byte
    BY BusType
  <2>3. /\ ram' \in [RamPhys -> [Offset -> Byte]]
        /\ oam' \in [Offset -> Byte]
    BY <2>1, <2>2, WriteType
  <2>4. bus' \in Cycle /\ phase' \in Phase
    BY <2>1, NextCycleType DEF StepCpu, cpuVars, TypeOK
  <2>5. oamIncr' \in BOOLEAN /\ oamAddr' \in Offset
    <3>1. 0 \in Offset /\ (oamAddr + 1) % PageSize \in Offset
      BY ModRange, SizesAssumption DEF Offset, TypeOK
    <3> QED
      BY <2>1, <3>1 DEF StepOamAddr, TypeOK
  <2>6. dstate' \in {"IDL", "DLY", "RD", "WR"} /\ ctr' \in Offset /\ prefix' \in Byte
    BY <2>1, <2>2, SizesAssumption
    DEF StepDma, Stay, Start, Begin, Read, Advance, Finish, dmaVars, TypeOK, Offset
  <2> QED
    BY <2>1, <2>3, <2>4, <2>5, <2>6 DEF TypeOK
<1>2. ASSUME Press PROVE TypeOK'
  <2>1. bus' \in Cycle
    <3>1. 0 \in Byte /\ ReadAddr \subseteq Addr
      BY SizesAssumption, MapAssumption DEF Byte
    <3> QED
      BY <1>2, <3>1 DEF Press, ReadCycle, Cycle
  <2>2. /\ ram' \in [RamPhys -> [Offset -> Byte]]
        /\ oam' \in [Offset -> Byte]
    <3>1. bus.data \in Byte
      BY DEF TypeOK, Cycle
    <3> QED
      BY <1>2, <3>1, WriteType DEF Press, memVars, TypeOK
  <2> QED
    BY <1>2, <2>1, <2>2 DEF Press, dmaVars, TypeOK, Phase
<1>3. ASSUME Release PROVE TypeOK'
  BY <1>3 DEF Release, dmaVars, cpuVars, memVars, TypeOK
<1>4. ASSUME UNCHANGED vars PROVE TypeOK'
  BY <1>4 DEF vars, TypeOK
<1> QED
  BY <1>1, <1>2, <1>3, <1>4 DEF Next

\* The CPU is never stopped in a write, and never between the two writes of
\* an instruction that reads, modifies and writes $4014.
LEMMA FrozenStep == ASSUME IInv, [Next]_vars PROVE Discipline' /\ FrozenInRead'
<1> USE DEF IInv
<1>1. ASSUME Tick PROVE Discipline' /\ FrozenInRead'
  <2>1. PICK d \in BUS_OUT : StepDma(d) /\ StepCpu
    BY <1>1 DEF Tick
  <2>2. CASE dstate = "IDL"
    <3>1. NextCycle
      BY <2>1, <2>2 DEF StepCpu, hijack
    <3>2. CASE Trigger
      <4>1. dstate' = "DLY"
        BY <2>1, <2>2, <3>2 DEF StepDma, Stay, Start, Begin, Read, Advance, Finish
      <4>2. phase \in {"modify", "store"}
        BY <3>2, MapAssumption DEF Trigger, Discipline, MemPage
      <4>3. phase' \in {"store", "fetch"} /\ (bus'.wr => bus'.addr = bus.addr)
        <5>1. CASE bus' \in ReadCycle
          BY <3>1, <4>2, <5>1, ReadIsNoWrite DEF NextCycle
        <5>2. CASE bus' \notin ReadCycle
          BY <3>1, <4>2, <5>2 DEF NextCycle
        <5> QED
          BY <5>1, <5>2
      <4> QED
        BY <3>1, <3>2, <4>1, <4>3, NextCycleType
        DEF Discipline, FrozenInRead, hijack, Trigger
    <3>3. CASE ~Trigger
      <4>1. dstate' = "IDL"
        BY <2>1, <2>2, <3>3 DEF StepDma, Stay, Start, Begin, Read, Advance, Finish, dmaVars
      <4> QED
        BY <3>1, <4>1, NextCycleType DEF Discipline, FrozenInRead, hijack
    <3> QED
      BY <3>2, <3>3
  <2>3. CASE dstate = "DLY"
    <3>1. NextCycle /\ dstate' = "RD"
      BY <2>1, <2>3
      DEF StepCpu, hijack, StepDma, Stay, Start, Begin, Read, Advance, Finish
    <3>2. ~bus'.wr
      BY <2>3, <3>1 DEF Discipline, NextCycle, ReadCycle
    <3> QED
      BY <3>1, <3>2 DEF Discipline, FrozenInRead, hijack
  <2>4. CASE hijack
    <3>1. UNCHANGED cpuVars /\ dstate' # "DLY"
      BY <2>1, <2>4
      DEF StepCpu, hijack, StepDma, Stay, Start, Begin, Read, Advance, Finish
    <3> QED
      BY <2>4, <3>1 DEF cpuVars, Discipline, FrozenInRead, hijack
  <2> QED
    BY <2>2, <2>3, <2>4 DEF TypeOK, hijack
<1>2. ASSUME Press PROVE Discipline' /\ FrozenInRead'
  BY <1>2 DEF Press, ReadCycle, dmaVars, Discipline, FrozenInRead
<1>3. CASE Release \/ UNCHANGED vars
  BY <1>3
  DEF Release, vars, dmaVars, cpuVars, Discipline, FrozenInRead, hijack
<1> QED
  BY <1>1, <1>2, <1>3 DEF Next

\* While the CPU is stopped no memory changes but the OAM byte that is due.
LEMMA HijackedMemories ==
  ASSUME FrozenInRead, hijack, NEW d, WriteRam(d), WriteOam(d)
  PROVE  /\ ram' = ram
         /\ oam' = IF dstate = "WR" THEN [oam EXCEPT ![ctr] = d] ELSE oam
  BY DEF FrozenInRead, WriteRam, SYSRAM_EN, WriteOam, oam_wren, oam_port, dma_oam_en

\* What a transfer has copied stays copied, and grows with the counter.
LEMMA CopyStep == ASSUME IInv, [Next]_vars PROVE CopiedSoFar'
<1> USE DEF IInv
<1>1. ASSUME Tick, hijack PROVE CopiedSoFar'
  <2>1. PICK d \in BUS_OUT : StepDma(d) /\ WriteRam(d) /\ WriteOam(d)
    BY <1>1 DEF Tick
  <2>2. /\ ram' = ram
        /\ oam' = IF dstate = "WR" THEN [oam EXCEPT ![ctr] = d] ELSE oam
    BY <1>1, <2>1, HijackedMemories
  <2>3. prefix' = prefix /\ Image(prefix)' = Image(prefix)
    BY <1>1, <2>1, <2>2
    DEF StepDma, Stay, Start, Begin, Read, Advance, Finish, hijack, Image
  <2>4. SUFFICES ASSUME hijack', prefix \in MemPage, NEW i \in Offset, i < ctr'
                 PROVE  oam'[i] = Image(prefix)[i]
    BY <2>3 DEF CopiedSoFar
  <2>5. CASE dstate = "RD"
    <3>1. ctr' = ctr /\ oam' = oam
      BY <2>1, <2>2, <2>5 DEF StepDma, Stay, Start, Begin, Read, Advance, Finish
    <3> QED
      BY <1>1, <2>4, <3>1 DEF CopiedSoFar
  <2>6. CASE dstate = "WR"
    <3>1. ctr' = ctr + 1
      BY <2>1, <2>4, <2>6
      DEF StepDma, Stay, Start, Begin, Read, Advance, Finish, hijack
    <3>2. oam' = [oam EXCEPT ![ctr] = d] /\ d = Image(prefix)[ctr]
      BY <1>1, <2>1, <2>2, <2>4, <2>6, TransferredByte
    <3>3. i = ctr \/ (i < ctr /\ i # ctr)
      BY <2>4, <3>1 DEF Offset, TypeOK
    <3> QED
      BY <1>1, <2>4, <3>2, <3>3 DEF CopiedSoFar, TypeOK
  <2> QED
    BY <1>1, <2>5, <2>6 DEF hijack
<1>2. ASSUME Tick, ~hijack PROVE CopiedSoFar'
  <2>1. PICK d \in BUS_OUT : StepDma(d)
    BY <1>2 DEF Tick
  <2>2. hijack' => ctr' = 0
    BY <1>2, <2>1
    DEF StepDma, Stay, Start, Begin, Read, Advance, Finish, hijack, dmaVars
  <2> QED
    BY <2>2 DEF CopiedSoFar, Offset
<1>3. ASSUME Press PROVE CopiedSoFar'
  <2>1. UNCHANGED dmaVars /\ (hijack => UNCHANGED memVars)
    BY <1>3 DEF Press
  <2> QED
    BY <2>1 DEF CopiedSoFar, hijack, Image, dmaVars, memVars
<1>4. CASE Release \/ UNCHANGED vars
  BY <1>4 DEF Release, vars, dmaVars, memVars, CopiedSoFar, hijack, Image
<1> QED
  BY <1>1, <1>2, <1>3, <1>4 DEF Next

\* The inductive invariant holds, whatever the sizes, the memory map and the
\* program: OamDma stays well typed, never stops the CPU in a write, and has
\* always copied what its counter says.
THEOREM Invariance == Spec => []IInv
<1>1. Init => IInv
  <2> SUFFICES ASSUME Init PROVE IInv
    OBVIOUS
  <2>1. /\ 0 \in Offset /\ 0 \in Byte
        /\ ReadAddr \subseteq Addr
    BY SizesAssumption, MapAssumption DEF Offset, Byte
  <2>2. bus \in Cycle /\ ~bus.wr
    BY <2>1 DEF Init, ReadCycle, Cycle
  <2> QED
    BY <2>1, <2>2
    DEF Init, IInv, TypeOK, Discipline, FrozenInRead, CopiedSoFar, hijack, Phase
<1>2. IInv /\ [Next]_vars => IInv'
  BY TypeStep, FrozenStep, CopyStep DEF IInv
<1> QED
  BY <1>1, <1>2, PTL DEF Spec

\* Type correctness.
THEOREM TypeCorrect == Spec => []TypeOK
<1>1. IInv => TypeOK
  BY DEF IInv
<1> QED
  BY <1>1, Invariance, PTL

\* A transfer never runs with the CPU frozen in a write cycle.
THEOREM NeverFrozenInWrite == Spec => []FrozenInRead
<1>1. IInv => FrozenInRead
  BY DEF IInv
<1> QED
  BY <1>1, Invariance, PTL

\* Below the counter of a transfer, OAM is the source page.
THEOREM CopiedSoFarHolds == Spec => []CopiedSoFar
<1>1. IInv => CopiedSoFar
  BY DEF IInv
<1> QED
  BY <1>1, Invariance, PTL

\* When the bus is given back the whole page is in OAM.
THEOREM ExactTransfer == Spec => TransferIsExact
<1>1. ASSUME IInv, [Next]_vars, hijack, ~hijack', prefix \in MemPage
      PROVE  oam' = Image(prefix)'
  <2> USE <1>1 DEF IInv
  <2>1. Tick
    BY DEF Next, Press, Release, vars, dmaVars, hijack
  <2>2. PICK d \in BUS_OUT : StepDma(d) /\ WriteRam(d) /\ WriteOam(d)
    BY <2>1 DEF Tick
  <2>3. /\ dstate = "WR" /\ ctr = PageSize - 1
        /\ prefix' = prefix
    BY <2>2 DEF StepDma, Stay, Start, Begin, Read, Advance, Finish, hijack
  <2>4. ram' = ram /\ oam' = [oam EXCEPT ![ctr] = Image(prefix)[ctr]]
    BY <2>2, <2>3, HijackedMemories, TransferredByte
  <2>5. Image(prefix)' = Image(prefix)
    BY <2>3, <2>4 DEF Image
  <2>6. ASSUME NEW i \in Offset PROVE oam'[i] = Image(prefix)[i]
    <3>1. i = ctr \/ (i < ctr /\ i # ctr)
      BY <2>3, SizesAssumption DEF Offset
    <3> QED
      BY <2>4, <3>1 DEF CopiedSoFar, TypeOK
  <2>7. oam' \in [Offset -> Byte] /\ Image(prefix) \in [Offset -> Byte]
    BY <2>4, TypeStep, ImageType DEF TypeOK
  <2> QED
    BY <2>5, <2>6, <2>7
<1>2. IInv /\ [Next]_vars
        => [hijack /\ ~hijack' /\ prefix \in MemPage => oam' = Image(prefix)']_vars
  BY <1>1
<1> QED
  BY <1>2, Invariance, PTL DEF Spec, TransferIsExact

-----------------------------------------------------------------------------
(* OamDma implements PageCopy. *)

\* A program's store to RAM is a store to all the mirrors of its page, and a
\* store to $2004 one to OAM.
LEMMA StoreStep ==
  ASSUME TypeOK, dstate = "IDL", dstate' = "IDL",
         NEW d \in Byte, WriteRam(d), WriteOam(d)
  PROVE  [Copy!Next]_(Copy!vars)
<1>1. /\ absReq = NumPages /\ absReq' = NumPages
      /\ absOam = oam /\ absOam' = oam'
  <2>1. oam \in [Offset -> Byte] /\ oam' \in [Offset -> Byte]
    BY WriteType DEF TypeOK
  <2> QED
    BY <2>1 DEF absReq, absOam, hijack
<1>2. INT_ADDR = bus.addr /\ INT_ADDR[1] \in Byte /\ INT_ADDR[2] \in Offset
  BY DEF INT_ADDR, hijack, TypeOK, Cycle, Addr
<1>3. CASE SYSRAM_EN
  <2> DEFINE P == {p \in RamPage : p % RamPages = INT_ADDR[1] % RamPages}
             i == INT_ADDR[2]
  <2>1. ~oam_en /\ oam' = oam
    BY <1>2, <1>3, MapAssumption
    DEF SYSRAM_EN, oam_en, WriteOam, oam_wren, hijack, MemPage
  <2>2. ASSUME NEW p \in MemPage
        PROVE  Image(p)' = IF p \in P THEN [Image(p) EXCEPT ![i] = d] ELSE Image(p)
    <3>1. ram' = [ram EXCEPT ![INT_ADDR[1] % RamPages][i] = d]
      BY <1>3 DEF WriteRam
    <3>2. p \in RamPage => p % RamPages \in RamPhys
      BY Mirror
    <3> QED
      BY <3>1, <3>2 DEF Image, TypeOK
  <2>3. P \in SUBSET MemPage /\ i \in Offset
    BY <1>2 DEF MemPage
  <2>4. absSource' = [p \in MemPage |-> IF p \in P THEN [absSource[p] EXCEPT ![i] = d]
                                                 ELSE absSource[p]]
    BY <2>2 DEF absSource
  <2>5. Copy!Store
    BY <1>1, <2>1, <2>3, <2>4 DEF Copy!Store
  <2> QED
    BY <2>5 DEF Copy!Next
<1>4. CASE ~SYSRAM_EN
  <2>1. ram' = ram /\ absSource' = absSource
    BY <1>4 DEF WriteRam, absSource, Image
  <2>2. CASE oam_en
    <3>1. oam' = [oam EXCEPT ![oamAddr] = d] /\ oamAddr \in Offset
      BY <2>2 DEF WriteOam, oam_wren, oam_port, hijack, TypeOK
    <3>2. Copy!OamStore
      BY <1>1, <2>1, <3>1 DEF Copy!OamStore
    <3> QED
      BY <3>2 DEF Copy!Next
  <2>3. CASE ~oam_en
    BY <1>1, <2>1, <2>3 DEF WriteOam, oam_wren, hijack, Copy!vars
  <2> QED
    BY <2>2, <2>3
<1> QED
  BY <1>3, <1>4

\* In the DLY cycle nothing is written: it is the opcode fetch, or the second
\* write to $4014.  Then the transfer from memory happens, as a whole.
LEMMA BeginStep ==
  ASSUME IInv, dstate = "DLY", Begin, NEW d \in Byte, WriteRam(d), WriteOam(d)
  PROVE  [Copy!Next]_(Copy!vars)
<1> USE DEF IInv
<1>1. ram' = ram /\ oam' = oam
  BY MapAssumption
  DEF Discipline, WriteRam, SYSRAM_EN, INT_ADDR, hijack, WriteOam, oam_wren, oam_en, MemPage
<1>2. absSource' = absSource
  BY <1>1 DEF absSource, Image
<1>3. ~hijack /\ hijack' /\ prefix' = prefix /\ ctr' = 0
  BY DEF Begin, hijack
<1>4. absReq = prefix
  BY DEF absReq
<1>5. CASE prefix \in MemPage
  <2>1. absOam' = [i \in Offset |-> Image(prefix)[i]]
    BY <1>1, <1>3, <1>5 DEF absOam, Image, Offset
  <2>2. absOam' = Image(prefix)
    BY <2>1, <1>5, ImageType
  <2>3. absSource[absReq] = Image(prefix)
    BY <1>4, <1>5 DEF absSource
  <2>4. absReq' = NumPages
    BY <1>3, <1>5 DEF absReq, Begin
  <2>5. Copy!Copy
    BY <1>2, <1>4, <1>5, <2>2, <2>3, <2>4 DEF Copy!Copy
  <2> QED
    BY <2>5 DEF Copy!Next
<1>6. CASE prefix \notin MemPage
  <2>1. absOam' = absOam /\ absReq' = absReq
    BY <1>1, <1>3, <1>4, <1>6 DEF absOam, absReq
  <2> QED
    BY <1>2, <2>1 DEF Copy!vars
<1> QED
  BY <1>5, <1>6

\* A byte of a transfer from memory changes nothing the program can tell; a
\* byte of a transfer from I/O is a byte of the request that is still open.
LEMMA TransferStep ==
  ASSUME IInv, hijack, NEW d \in BUS_OUT,
         Read \/ Advance \/ Finish, WriteRam(d), WriteOam(d)
  PROVE  [Copy!Next]_(Copy!vars)
<1> USE DEF IInv
<1>1. /\ ram' = ram
      /\ oam' = IF dstate = "WR" THEN [oam EXCEPT ![ctr] = d] ELSE oam
  BY HijackedMemories
<1>2. absSource' = absSource
  BY <1>1 DEF absSource, Image
<1>3. prefix' = prefix /\ dstate' # "DLY"
  BY DEF Read, Advance, Finish
<1>4. CASE prefix \in MemPage
  <2>1. absReq' = absReq
    BY <1>3, <1>4 DEF absReq, hijack
  <2>2. ASSUME NEW i \in Offset PROVE absOam'[i] = absOam[i]
    <3>1. Image(prefix)' = Image(prefix)
      BY <1>1, <1>3 DEF Image
    <3>2. CASE Read
      BY <1>1, <1>3, <3>1, <3>2 DEF Read, absOam, hijack
    <3>3. CASE Advance \/ Finish
      <4>1. oam' = [oam EXCEPT ![ctr] = Image(prefix)[ctr]]
        BY <1>1, <1>4, <3>3, TransferredByte DEF Advance, Finish
      <4>2. oam'[i] = IF i = ctr THEN Image(prefix)[i] ELSE oam[i]
        BY <4>1 DEF TypeOK
      <4>3. \/ i = ctr /\ ctr <= i /\ ~(ctr + 1 <= i)
            \/ i # ctr /\ ~(ctr <= i) /\ ~(ctr + 1 <= i)
            \/ i # ctr /\ ctr <= i /\ ctr + 1 <= i
        BY DEF TypeOK, Offset
      <4>4. absOam[i] = IF ctr <= i THEN Image(prefix)[i] ELSE oam[i]
        BY <1>4 DEF absOam
      <4>5. CASE Advance
        <5>1. hijack' /\ ctr' = ctr + 1 /\ prefix' = prefix
          BY <4>5 DEF Advance, hijack
        <5>2. absOam'[i] = IF ctr + 1 <= i THEN Image(prefix)[i] ELSE oam'[i]
          BY <1>4, <3>1, <5>1 DEF absOam
        <5> QED
          BY <4>2, <4>3, <4>4, <5>2
      <4>6. CASE Finish
        <5>1. ~hijack' /\ ~(ctr + 1 <= i)
          BY <4>6 DEF Finish, hijack, TypeOK, Offset
        <5>2. absOam'[i] = oam'[i]
          BY <5>1 DEF absOam
        <5> QED
          BY <4>2, <4>3, <4>4, <5>1, <5>2
      <4> QED
        BY <3>3, <4>5, <4>6
    <3> QED
      BY <3>2, <3>3
  <2>3. absOam' = absOam
    BY <2>2 DEF absOam
  <2> QED
    BY <1>2, <2>1, <2>3 DEF Copy!vars
<1>5. CASE prefix \notin MemPage
  <2>1. absOam = oam /\ absOam' = oam' /\ absReq = prefix
    <3>1. oam \in [Offset -> Byte] /\ oam' \in [Offset -> Byte]
      BY WriteType, BusType DEF TypeOK
    <3> QED
      BY <1>3, <1>5, <3>1 DEF absOam, absReq
  <2>2. absReq' \in {NumPages, absReq}
    BY <1>3, <1>5, <2>1 DEF absReq
  <2>3. CASE Read
    BY <1>1, <1>2, <1>5, <2>1, <2>3 DEF Read, absReq, hijack, Copy!vars
  <2>4. CASE Advance \/ Finish
    <3>1. oam' = [oam EXCEPT ![ctr] = d] /\ d \in Byte /\ ctr \in Offset
      BY <1>1, <2>4, BusType DEF Advance, Finish, TypeOK
    <3>2. absReq \in Byte \ MemPage
      BY <1>5, <2>1 DEF TypeOK
    <3>3. Copy!IoByte
      BY <1>2, <2>1, <3>1, <3>2 DEF Copy!IoByte
    <3> QED
      BY <2>2, <3>3 DEF Copy!IoCopy, Copy!IoEnd, Copy!Next
  <2> QED
    BY <2>3, <2>4
<1> QED
  BY <1>4, <1>5

\* Sprite DMA implements the atomic page copy.
THEOREM Refinement == Spec => ImplementsPageCopy
<1>1. IInv /\ Init => Copy!Init
  <2> SUFFICES ASSUME IInv, Init PROVE Copy!Init
    OBVIOUS
  <2>1. absSource \in [MemPage -> [Offset -> Byte]]
    BY ImageType DEF absSource, IInv
  <2>2. absReq = NumPages /\ absOam = oam
    BY DEF Init, absReq, absOam, hijack, IInv, TypeOK
  <2> QED
    BY <2>1, <2>2 DEF Copy!Init, IInv, TypeOK
<1>2. IInv /\ [Next]_vars => [Copy!Next]_(Copy!vars)
  <2> SUFFICES ASSUME IInv, [Next]_vars PROVE [Copy!Next]_(Copy!vars)
    OBVIOUS
  <2> USE DEF IInv
  <2>1. ASSUME Tick PROVE [Copy!Next]_(Copy!vars)
    <3>1. PICK d \in BUS_OUT : StepDma(d) /\ WriteRam(d) /\ WriteOam(d)
      BY <2>1 DEF Tick
    <3>2. d \in Byte
      BY BusType
    <3>3. CASE Stay
      <4>1. dstate = "IDL" /\ dstate' = "IDL"
        BY <3>3 DEF Stay, dmaVars
      <4> QED
        BY <3>1, <3>2, <4>1, StoreStep
    <3>4. CASE Start(d)
      <4>1. ram' = ram /\ oam' = oam
        BY <3>1, <3>4, MapAssumption
        DEF Start, Trigger, WriteRam, SYSRAM_EN, INT_ADDR, hijack, WriteOam,
            oam_wren, oam_en, MemPage
      <4>2. absSource' = absSource
        BY <4>1 DEF absSource, Image
      <4>3. absOam' = absOam
        BY <3>4, <4>1 DEF Start, absOam, hijack
      <4>4. absReq = NumPages /\ absReq' \in Byte
        BY <3>2, <3>4 DEF Start, absReq, hijack
      <4>5. Copy!Request
        BY <4>2, <4>3, <4>4 DEF Copy!Request
      <4> QED
        BY <4>5 DEF Copy!Next
    <3>5. CASE Begin
      <4>1. dstate = "DLY"
        BY <3>5 DEF Begin
      <4> QED
        BY <3>1, <3>2, <3>5, <4>1, BeginStep
    <3>6. CASE Read \/ Advance \/ Finish
      <4>1. hijack
        BY <3>6 DEF Read, Advance, Finish, hijack
      <4> QED
        BY <3>1, <3>6, <4>1, TransferStep
    <3> QED
      BY <3>1, <3>3, <3>4, <3>5, <3>6 DEF StepDma
  <2>2. ASSUME Press PROVE [Copy!Next]_(Copy!vars)
    <3>1. dstate' = dstate /\ ctr' = ctr /\ prefix' = prefix
      BY <2>2 DEF Press, dmaVars
    <3>2. CASE UNCHANGED memVars
      BY <3>1, <3>2
      DEF memVars, absSource, absOam, absReq, Image, hijack, Copy!vars
    <3>3. CASE ~hijack /\ WriteRam(bus.data) /\ WriteOam(bus.data)
      <4>1. bus.data \in Byte
        BY DEF TypeOK, Cycle
      <4>2. CASE dstate = "IDL"
        BY <3>1, <3>3, <4>1, <4>2, StoreStep
      <4>3. CASE dstate = "DLY"
        <5>1. ram' = ram /\ oam' = oam
          BY <3>3, <4>3, MapAssumption
          DEF Discipline, WriteRam, SYSRAM_EN, INT_ADDR, hijack, WriteOam,
              oam_wren, oam_en, MemPage
        <5> QED
          BY <3>1, <5>1 DEF absSource, absOam, absReq, Image, hijack, Copy!vars
      <4> QED
        BY <3>3, <4>2, <4>3 DEF TypeOK, hijack
    <3> QED
      BY <2>2, <3>2, <3>3 DEF Press
  <2>3. CASE Release \/ UNCHANGED vars
    BY <2>3
    DEF Release, vars, dmaVars, memVars, absSource, absOam, absReq, Image, hijack, Copy!vars
  <2> QED
    BY <2>1, <2>2, <2>3 DEF Next
<1> QED
  BY <1>1, <1>2, Invariance, PTL DEF Spec, ImplementsPageCopy, Copy!Spec
=============================================================================
