------------------------- MODULE KbControllerProofs -------------------------
(***************************************************************************)
(* Theorems about KbController, for every set of reports and any number of *)
(* ticks of the adapter's clock in a cycle of the CPU.                     *)
(***************************************************************************)
EXTENDS KbController, TLAPS

\* The edge detector remembers the cycle of the last tick.
EdgeInv == ticked => (SRP <=> cycle = "read")

\* How many bits have been shifted out since the strobe; the read that is
\* going on has had its bit when the edge detector has seen it.
shifted == IF cycle = "read" /\ SRP THEN reads + 1 ELSE reads

\* What the shift register holds after n shifts.
Left(n) == [b \in Button |-> IF b >= n THEN snap[b - n] ELSE 1]

ShiftInv ==
  /\ cycle # "write" => internal = Left(shifted)
  /\ cycle = "write" /\ ticked => internal = snap
  /\ cycle = "read" /\ SRP => DATA = IF reads < 8 THEN snap[7 - reads] ELSE 1

\* The ports hold the new report as far as it has been copied.
PortInv == keycode = [k \in 1 .. 3 |-> IF k <= copied THEN report[k] ELSE old[k]]

IInv == TypeOK /\ EdgeInv /\ ShiftInv /\ PortInv

\* The buttons are bits.
LEMMA ButtonsType == \A kc : Buttons(kc) \in [Button -> 0 .. 1]
  BY DEF Buttons

\* The invariant holds at power-up.
LEMMA InitIInv == ASSUME Init PROVE IInv
<1> USE ReportsAssumption DEF Init
<1>1. Blank \in [1 .. 3 -> Nat]
  BY DEF Blank
<1>2. TypeOK
  <2>1. {report, old, keycode} \subseteq [1 .. 3 -> Nat] /\ copied \in 0 .. 3
    BY <1>1
  <2>2. internal \in [Button -> 0 .. 1] /\ snap \in [Button -> 0 .. 1]
    OBVIOUS
  <2>3. DATA \in 0 .. 1 /\ reads \in 0 .. 9
    OBVIOUS
  <2>4. cycle \in {"other", "read", "write"} /\ SRP \in BOOLEAN /\ ticked \in BOOLEAN
    OBVIOUS
  <2> QED
    BY <2>1, <2>2, <2>3, <2>4 DEF TypeOK
<1>3. internal = Left(shifted)
  BY DEF Left, shifted, Button
<1>4. PortInv
  BY DEF PortInv, Blank
<1> QED
  BY <1>2, <1>3, <1>4 DEF IInv, EdgeInv, ShiftInv

\* Shifting the register and counting one more.
LEMMA ShiftOnce ==
  ASSUME NEW n \in Nat
  PROVE  [b \in Button |-> IF b = 0 THEN 1 ELSE Left(n)[b - 1]] = Left(n + 1)
<1>1. ASSUME NEW b \in Button
      PROVE  (IF b = 0 THEN 1 ELSE Left(n)[b - 1]) = Left(n + 1)[b]
  BY DEF Left, Button
<1> QED
  BY <1>1 DEF Left

\* A tick of the adapter's clock keeps the invariant.
LEMMA RamTickKeeps == ASSUME IInv, RamTick PROVE IInv'
<1> USE DEF IInv
<1>1. TypeOK'
  <2>1. composite \in [Button -> 0 .. 1]
    BY ButtonsType DEF composite
  <2>2. internal' \in [Button -> 0 .. 1] /\ DATA' \in 0 .. 1
    BY <2>1 DEF TypeOK, RamTick, ShiftOrLoad, Button
  <2>3. snap' \in [Button -> 0 .. 1]
    BY <2>1 DEF TypeOK, RamTick
  <2> QED
    BY <2>2, <2>3 DEF TypeOK, RamTick, niosVars
<1>2. EdgeInv'
  BY DEF EdgeInv, RamTick
<1>3. PortInv'
  BY DEF PortInv, RamTick, niosVars
<1>4. CASE cycle = "write"
  BY <1>1, <1>2, <1>3, <1>4 DEF ShiftInv, RamTick, ShiftOrLoad, shift_en
<1>5. CASE cycle = "read" /\ ~SRP
  <2>1. reads \in Nat
    BY DEF TypeOK
  <2>2. internal = Left(reads)
    BY <1>5 DEF ShiftInv, shifted
  <2>3. shifted' = reads + 1 /\ snap' = snap /\ reads' = reads
    BY <1>5 DEF RamTick, shifted
  <2>4. internal' = Left(reads + 1)
    BY <1>5, <2>1, <2>2, ShiftOnce DEF RamTick, ShiftOrLoad, shift_en
  <2>5. internal' = Left(shifted)'
    BY <2>3, <2>4 DEF Left
  <2>6. DATA' = IF reads < 8 THEN snap[7 - reads] ELSE 1
    BY <1>5, <2>1, <2>2 DEF RamTick, ShiftOrLoad, shift_en, Left, Button
  <2> QED
    BY <1>1, <1>2, <1>3, <1>5, <2>3, <2>5, <2>6 DEF ShiftInv, RamTick
<1>6. CASE cycle = "other" \/ (cycle = "read" /\ SRP)
  <2>1. internal' = internal /\ DATA' = DATA /\ snap' = snap /\ reads' = reads /\ cycle' = cycle
    BY <1>6 DEF RamTick, ShiftOrLoad, shift_en
  <2>2. shifted' = shifted
    BY <1>6, <2>1 DEF RamTick, shifted
  <2>3. Left(shifted)' = Left(shifted)
    BY <2>1, <2>2 DEF Left
  <2> QED
    BY <1>1, <1>2, <1>3, <1>6, <2>1, <2>3 DEF ShiftInv, RamTick
<1> QED
  BY <1>4, <1>5, <1>6 DEF TypeOK

\* So does a bus cycle of the CPU.
LEMMA NextCycleKeeps == ASSUME IInv, NextCycle PROVE IInv'
<1> USE DEF IInv
<1>1. cycle = "read" <=> SRP
  BY DEF EdgeInv, NextCycle, TypeOK
<1>2. reads' = IF cycle = "write" THEN 0
               ELSE IF cycle = "read" /\ cycle' # "read" /\ reads < 9 THEN reads + 1 ELSE reads
  BY DEF NextCycle
<1>3. reads \in 0 .. 9 /\ reads' \in 0 .. 9
  <2>1. reads \in 0 .. 9
    BY Zenon DEF TypeOK
  <2> QED
    BY <1>2, <2>1
<1>4. TypeOK'
  BY <1>3 DEF TypeOK, NextCycle, niosVars, padVars
<1>5. EdgeInv' /\ PortInv'
  BY DEF EdgeInv, PortInv, NextCycle, niosVars
<1>6. cycle' # "write" => internal' = Left(shifted)'
  <2> SUFFICES ASSUME cycle' # "write" PROVE internal' = Left(shifted)'
    OBVIOUS
  <2>1. internal' = internal /\ snap' = snap /\ SRP' = SRP
    BY DEF NextCycle, padVars
  <2>2. CASE cycle = "write"
    <3>1. shifted' = 0 /\ internal = snap
      BY <1>1, <1>2, <2>1, <2>2 DEF shifted, ShiftInv, NextCycle
    <3>2. snap \in [Button -> 0 .. 1]
      BY DEF TypeOK
    <3>3. snap = [b \in Button |-> IF b >= 0 THEN snap[b - 0] ELSE 1]
      BY <3>2 DEF Button
    <3> QED
      BY <2>1, <3>1, <3>3 DEF Left
  <2>3. CASE cycle # "write"
    <3>1. internal = Left(shifted)
      BY <2>3 DEF ShiftInv
    <3>2. shifted \in Nat /\ shifted' \in Nat
      <4>1. \A n \in 0 .. 9 : n \in Nat /\ n + 1 \in Nat
        OBVIOUS
      <4> QED
        BY <1>3, <4>1, Zenon DEF shifted
    <3>3. shifted' = shifted \/ (shifted = 10 /\ shifted' = 9)
      BY <1>1, <1>2, <2>1, <2>3 DEF shifted, TypeOK
    <3>4. Left(shifted) = Left(shifted)'
      BY <2>1, <3>2, <3>3 DEF Left, Button
    <3> QED
      BY <2>1, <3>1, <3>4
  <2> QED
    BY <2>2, <2>3
<1>7. cycle' = "read" /\ SRP' => DATA' = IF reads' < 8 THEN snap'[7 - reads'] ELSE 1
  BY <1>1, <1>2 DEF ShiftInv, NextCycle, padVars
<1> QED
  BY <1>4, <1>5, <1>6, <1>7 DEF ShiftInv, NextCycle

\* So do a poll and the writing of a port.
LEMMA NiosKeeps == ASSUME IInv, Poll \/ SetKeycode PROVE IInv'
<1> USE DEF IInv
<1>1. UNCHANGED <<padVars, cycle, ticked, snap, reads>>
  BY DEF Poll, SetKeycode
<1>2. {report', old', keycode'} \subseteq [1 .. 3 -> Nat] /\ copied' \in 0 .. 3
  BY ReportsAssumption DEF Poll, SetKeycode, TypeOK
<1>3. TypeOK'
  BY <1>1, <1>2 DEF TypeOK, padVars
<1>4. EdgeInv'
  BY <1>1 DEF EdgeInv, padVars
<1>5. shifted' = shifted
  BY <1>1 DEF shifted, padVars
<1>6. Left(shifted)' = Left(shifted)
  BY <1>1, <1>5 DEF Left
<1>7. ShiftInv'
  BY <1>1, <1>6 DEF ShiftInv, padVars
<1>8. PortInv'
  <2>1. CASE Poll
    BY <2>1 DEF Poll, PortInv, TypeOK
  <2>2. CASE SetKeycode
    <3>1. copied \in 0 .. 2 /\ report' = report /\ old' = old /\ copied' = copied + 1
      BY <2>2 DEF SetKeycode, TypeOK
    <3>2. keycode' = [keycode EXCEPT ![copied + 1] = report[copied + 1]]
      BY <2>2 DEF SetKeycode
    <3>3. keycode = [k \in 1 .. 3 |-> IF k <= copied THEN report[k] ELSE old[k]]
      BY DEF PortInv
    <3>4. keycode' = [k \in 1 .. 3 |-> IF k <= copied + 1 THEN report[k] ELSE old[k]]
      <4>1. ASSUME NEW k \in 1 .. 3
            PROVE  keycode'[k] = IF k <= copied + 1 THEN report[k] ELSE old[k]
        BY <3>1, <3>2, <3>3
      <4> QED
        BY <3>2, <3>3, <4>1
    <3> QED
      BY <3>1, <3>4 DEF PortInv
  <2> QED
    BY <2>1, <2>2
<1> QED
  BY <1>3, <1>4, <1>7, <1>8

\* And so does every step.
LEMMA NextKeeps == ASSUME IInv, [Next]_vars PROVE IInv'
<1>1. CASE Next
  BY <1>1, RamTickKeeps, NextCycleKeeps, NiosKeeps DEF Next
<1>2. CASE UNCHANGED vars
  BY <1>2 DEF vars, niosVars, padVars, IInv, TypeOK, EdgeInv, ShiftInv, PortInv, shifted, Left
<1> QED
  BY <1>1, <1>2

\* The invariant holds in every reachable state.
LEMMA Invariance == Spec => []IInv
  BY InitIInv, NextKeeps, PTL DEF Spec

\* The registers of adapter and ports stay in range.
THEOREM TypeCorrect == Spec => []TypeOK
<1>1. IInv => TypeOK
  BY DEF IInv
<1> QED
  BY Invariance, <1>1, PTL

\* Whatever the keyboard does and however often the adapter's clock ticks in a
\* cycle, the reads after a strobe bring the eight buttons of one moment, in
\* order, and then 1s (control_adapter.sv:32-40).
THEOREM BitsAreThoseStrobed == Spec => []SerialBits
<1>1. IInv => SerialBits
  BY DEF IInv, EdgeInv, ShiftInv, SerialBits, TypeOK
<1> QED
  BY Invariance, <1>1, PTL

\* What the strobe loads is what the ports say.
LEMMA StrobeLoads ==
  ASSUME IInv, cycle = "write", RamTick
  PROVE  internal' = Buttons([k \in 1 .. 3 |-> IF k <= copied THEN report[k] ELSE old[k]])
  BY DEF IInv, PortInv, RamTick, ShiftOrLoad, shift_en, composite

\* A strobe in the middle of the copying of a report sees no button that
\* neither the report nor the one before it holds down (main.c:174-176).
THEOREM NoPhantomHolds == Spec => NoPhantom
<1>1. ASSUME IInv, cycle = "write", RamTick, NEW b \in Button, internal'[b] = 1
      PROVE  Buttons(report)[b] = 1 \/ Buttons(old)[b] = 1
  <2>1. PICK k \in 1 .. 3 : (IF k <= copied THEN report[k] ELSE old[k]) = active[b]
    BY <1>1, StrobeLoads DEF Buttons
  <2> QED
    BY <2>1 DEF Buttons
<1>2. IInv /\ [Next]_vars =>
        [cycle = "write" /\ RamTick =>
          \A b \in Button : internal'[b] = 1 =>
            Buttons(report)[b] = 1 \/ Buttons(old)[b] = 1]_vars
  BY <1>1
<1> QED
  BY Invariance, <1>2, PTL DEF Spec, NoPhantom

\* And it sees every button held down by the same entry of both.
THEOREM HeldIsSeenHolds == Spec => HeldIsSeen
<1>1. ASSUME IInv, cycle = "write", RamTick, NEW b \in Button, NEW k \in 1 .. 3,
             report[k] = active[b], old[k] = active[b]
      PROVE  internal'[b] = 1
  BY <1>1, StrobeLoads DEF Buttons
<1>2. IInv /\ [Next]_vars =>
        [cycle = "write" /\ RamTick =>
          \A b \in Button, k \in 1 .. 3 :
            report[k] = active[b] /\ old[k] = active[b] => internal'[b] = 1]_vars
  BY <1>1
<1> QED
  BY Invariance, <1>2, PTL DEF Spec, HeldIsSeen
=============================================================================
