--------------------------- MODULE VblankNmiProofs ---------------------------
(***************************************************************************)
(* Theorems about VblankNmi, for all lengths of lines, transfers and       *)
(* instructions that LengthsAssumption, DmaFitsInVblank and                *)
(* DmaFitsInDrawing allow.                                                 *)
(***************************************************************************)
EXTENDS VblankNmi, Integers, TLAPS

\* The lengths of an instruction.
Lens == OtherLens \cup {2, 3, 4, AccessLen, NmiLen}

\* The clocks until the instruction has ended, the transfer within it included.
Wait == left + stop + (IF delay THEN DmaLen ELSE 0)

\* The clocks until the NMI line is sampled.
Blind == stop + (IF op = "branch" /\ left = len - 1 THEN 1 ELSE 0)

\* A transfer begins in the first clock of an instruction; the sequence of an
\* NMI ends with none pending.
ShapeInv ==
  /\ len \in Lens
  /\ delay => stop = 0 /\ left = len
  /\ op = "nmi" => len = NmiLen
  /\ op = "nmi" /\ left = 1 => ~nmiAct

\* The flag goes up with line 480, at the latest in its second clock if the
\* first one reads $2002, and stays until it is read; line 524 clears it.  What
\* a read latched stands until the next one brings it.
FlagInv ==
  /\ pos > ClearFrom \/ pos = 0 => ~vbl
  /\ pos = 1 /\ ~vbl => left = len /\ stop = 0 /\ ~delay
  /\ 2 <= pos /\ pos <= ClearFrom /\ ~seen => vbl
  /\ polls > 0 => seen
  /\ seen => got \/ latched
  /\ polls = 2 => got

\* What is left over after line 524 is done before the frame ends: a low line
\* that was sampled, an NMI that is pending, an NMI's sequence.
LateInv ==
  /\ pos > ClearFrom /\ ~nmiOld => pos + Blind < FrameLen
  /\ pos > ClearFrom /\ nmiAct => pos + Wait + NmiLen + DmaLen <= FrameLen
  /\ pos > ClearFrom /\ op = "nmi" => pos + Wait <= FrameLen

\* So that a frame starts with nothing of the one before.
StartInv == pos = 0 => nmiOld /\ ~nmiAct /\ op # "nmi" /\ taken = 0

\* While the NMI is not taken, the line was high when it was last sampled and
\* is low now, and soon sampled; or the NMI is pending, and soon taken.
EdgeInv ==
  /\ armed => ctl
  /\ armed /\ taken = 0 /\ pos >= 1 =>
       /\ op # "nmi"
       /\ nmiAct  => pos + Wait < FrameLen
       /\ ~nmiAct => nmiOld /\ IF vbl THEN pos + Blind <= DmaLen + 2 ELSE pos = 1

\* If nobody reads $2002 on line 480, the line falls only once.
OnceInv ==
  /\ quiet /\ 1 <= pos /\ pos <= SetLen => vbl
  /\ armed /\ quiet /\ (taken > 0 \/ nmiAct) => ~nmiOld \/ (~vbl /\ pos >= SetLen)
  /\ armed /\ quiet => taken = 0 \/ (taken = 1 /\ ~nmiAct)

IInv == TypeOK /\ ShapeInv /\ FlagInv /\ LateInv /\ StartInv /\ EdgeInv /\ OnceInv
-----------------------------------------------------------------------------

\* The lengths, one by one, and what fits where.
LEMMA Lengths ==
  /\ SetLen \in Nat /\ SetLen > 1 /\ VblLen \in Nat /\ VblLen > 0
  /\ ClearLen \in Nat /\ ClearLen > 0 /\ DrawLen \in Nat /\ DrawLen > 0
  /\ DmaLen \in Nat /\ DmaLen > 0
  /\ NmiLen \in Nat /\ NmiLen > 3 /\ AccessLen \in Nat /\ AccessLen > 1
  /\ ClearFrom \in Nat /\ ClearFrom = SetLen + VblLen
  /\ FrameLen \in Nat /\ FrameLen = ClearFrom + ClearLen + DrawLen
  /\ DmaLen + 2 < ClearFrom
<1>1. {SetLen, VblLen, ClearLen, DrawLen, DmaLen, NmiLen, AccessLen} \subseteq Nat \ {0}
  BY LengthsAssumption
<1>2. /\ SetLen \in Nat /\ VblLen \in Nat /\ VblLen > 0
      /\ ClearLen \in Nat /\ ClearLen > 0 /\ DrawLen \in Nat /\ DrawLen > 0
      /\ DmaLen \in Nat /\ DmaLen > 0 /\ NmiLen \in Nat /\ AccessLen \in Nat
  BY <1>1
<1>3. SetLen > 1 /\ NmiLen > 3 /\ AccessLen > 1
  BY LengthsAssumption
<1>4. DmaLen + 2 < ClearFrom
  <2>1. DmaLen + NmiLen + 2 * NmiLen < ClearFrom
    BY DmaFitsInVblank
  <2> QED
    BY <1>2, <1>3, <2>1 DEF ClearFrom
<1> QED
  BY <1>2, <1>3, <1>4 DEF ClearFrom, FrameLen

\* The length of an instruction fits.
LEMMA LenFits ==
  ASSUME NEW n \in Lens
  PROVE  n \in Nat /\ n > 1 /\ 2 * DmaLen + NmiLen + n < ClearLen + DrawLen
<1>1. ASSUME NEW m \in OtherLens \cup {AccessLen, NmiLen}
      PROVE  m \in Nat /\ m > 1 /\ 2 * DmaLen + NmiLen + m < ClearLen + DrawLen
  <2>1. m \in Nat /\ m > 1
    BY Lengths, LengthsAssumption
  <2> QED
    BY <2>1, DmaFitsInDrawing
<1>2. CASE n \in {2, 3, 4}
  BY <1>1, <1>2, Lengths
<1> QED
  BY <1>1, <1>2 DEF Lens

\* The types, one by one.
LEMMA Types ==
  ASSUME TypeOK
  PROVE  /\ pos \in Nat /\ pos < FrameLen
         /\ vbl \in BOOLEAN /\ ctl \in BOOLEAN /\ latched \in BOOLEAN /\ delay \in BOOLEAN
         /\ nmiOld \in BOOLEAN /\ nmiAct \in BOOLEAN
         /\ len \in Nat /\ left \in Nat /\ left >= 1 /\ left <= len
         /\ stop \in Nat /\ stop <= DmaLen
         /\ armed \in BOOLEAN /\ quiet \in BOOLEAN /\ seen \in BOOLEAN /\ got \in BOOLEAN
         /\ polls \in {0, 1, 2} /\ taken \in {0, 1, 2}
<1>1. /\ vbl \in BOOLEAN /\ ctl \in BOOLEAN /\ latched \in BOOLEAN /\ delay \in BOOLEAN
      /\ nmiOld \in BOOLEAN /\ nmiAct \in BOOLEAN
      /\ armed \in BOOLEAN /\ quiet \in BOOLEAN /\ seen \in BOOLEAN /\ got \in BOOLEAN
  BY DEF TypeOK
<1>2. pos \in Nat /\ pos < FrameLen /\ stop \in Nat /\ stop <= DmaLen
  BY Lengths DEF TypeOK
<1>3. len \in Nat /\ left \in Nat /\ left >= 1 /\ left <= len /\ polls \in {0, 1, 2} /\ taken \in {0, 1, 2}
  BY DEF TypeOK
<1> QED
  BY <1>1, <1>2, <1>3

-----------------------------------------------------------------------------
(* One clock of the CPU and the dma module. *)

\* The instructions and the transfers.
LEMMA CpuStep ==
  ASSUME TypeOK, ShapeInv, Clock
  PROVE  /\ len' \in Lens /\ left' \in 1 .. len' /\ op' \in Op
         /\ stop' \in 0 .. DmaLen /\ delay' \in BOOLEAN
         /\ delay' => stop' = 0 /\ left' = len'
         /\ op' = "nmi" => len' = NmiLen
         /\ boundary => left' = len' /\ stop' = 0 /\ ~delay /\ Wait = 1
                        /\ (takes => op' = "nmi") /\ (~takes => op' # "nmi")
                        /\ (op # "dma" => ~delay')
         /\ ~boundary => op' = op /\ len' = len /\ ~delay'
                         /\ left' = (IF running THEN left - 1 ELSE left)
<1>0. /\ len \in Nat /\ left \in Nat /\ left >= 1 /\ left <= len /\ op \in Op
      /\ stop \in Nat /\ stop <= DmaLen /\ delay \in BOOLEAN /\ len \in Lens /\ len > 1
      /\ (delay => stop = 0 /\ left = len) /\ (op = "nmi" => len = NmiLen)
  BY Types, LenFits DEF TypeOK, ShapeInv
<1>1. /\ StepInstruction
      /\ delay' = (boundary /\ op = "dma")
      /\ stop' = IF delay THEN DmaLen ELSE IF running THEN 0 ELSE stop - 1
  BY DEF Clock, StepDma, access
<1>2. CASE boundary
  <2>1. left = 1 /\ stop = 0 /\ ~delay
    BY <1>0, <1>2 DEF boundary, running
  <2>2. left' = len' /\ (IF takes THEN StartNmi ELSE StartOp)
    BY <1>1, <1>2 DEF StepInstruction
  <2>3. /\ len' \in Lens /\ op' \in Op /\ (op' = "nmi" => len' = NmiLen)
        /\ (takes => op' = "nmi") /\ (~takes => op' # "nmi")
    BY <2>2 DEF StartNmi, StartOp, Lens, Op
  <2>4. left' \in 1 .. len'
    BY <2>2, <2>3, LenFits
  <2>5. stop' = 0 /\ delay' \in BOOLEAN /\ (op # "dma" => ~delay')
    BY <1>1, <2>1 DEF running
  <2>6. Wait = 1
    BY <2>1 DEF Wait
  <2> QED
    BY <1>2, <2>1, <2>2, <2>3, <2>4, <2>5, <2>6, Lengths
<1>3. CASE ~boundary
  <2>1. op' = op /\ len' = len /\ ~delay' /\ left' = (IF running THEN left - 1 ELSE left)
    BY <1>1, <1>3 DEF StepInstruction
  <2>2. left' \in 1 .. len'
    BY <1>0, <1>3, <2>1 DEF boundary
  <2>3. stop' \in 0 .. DmaLen
    BY <1>0, <1>1, Lengths DEF running
  <2> QED
    BY <1>0, <1>1, <1>3, <2>1, <2>2, <2>3
<1> QED
  BY <1>2, <1>3

\* Every clock that does not end an instruction brings its end nearer, and
\* every one that does not sample the line brings the sampling nearer.
LEMMA Progress ==
  ASSUME TypeOK, ShapeInv, Clock
  PROVE  /\ Wait \in Nat /\ Wait >= 1 /\ Wait' \in Nat /\ Wait' >= 1
         /\ Blind \in Nat /\ Blind' \in Nat
         /\ ~boundary => Wait' = Wait - 1
         /\ Wait' <= len' + DmaLen
         /\ samples <=> Blind = 0
         /\ Blind > 0 => Blind' = Blind - 1 /\ ~access("readStatus")
         /\ Blind' <= DmaLen + 1
<1>0. /\ len \in Nat /\ left \in Nat /\ left >= 1 /\ left <= len
      /\ stop \in Nat /\ stop <= DmaLen /\ delay \in BOOLEAN /\ len > 1
      /\ (delay => stop = 0 /\ left = len)
  BY Types, LenFits DEF ShapeInv
<1>1. stop' = IF delay THEN DmaLen ELSE IF running THEN 0 ELSE stop - 1
  BY DEF Clock, StepDma
<1>2. /\ len' \in Nat /\ len' > 1 /\ left' \in Nat /\ left' >= 1 /\ left' <= len'
      /\ stop' \in Nat /\ stop' <= DmaLen /\ delay' \in BOOLEAN /\ (delay' => stop' = 0)
  BY CpuStep, LenFits, Lengths
<1> PICK n \in Nat, l \in Nat, s \in Nat : len' = n /\ left' = l /\ stop' = s
  BY <1>2
<1>3. ~boundary => /\ op' = op /\ len' = len /\ ~delay'
                   /\ left' = (IF running THEN left - 1 ELSE left)
  BY CpuStep
<1>4. boundary => left' = len' /\ stop' = 0 /\ ~delay
  BY CpuStep
<1>5. /\ Wait \in Nat /\ Wait >= 1 /\ Wait' \in Nat /\ Wait' >= 1
      /\ Wait' <= len' + DmaLen
  <2>1. (IF delay THEN DmaLen ELSE 0) \in {0, DmaLen}
    OBVIOUS
  <2>2. (IF delay' THEN DmaLen ELSE 0) \in {0, DmaLen}
    OBVIOUS
  <2>3. Wait \in Nat /\ Wait >= 1
    BY <1>0, <2>1, Lengths DEF Wait
  <2>4. Wait' = left' + stop' + (IF delay' THEN DmaLen ELSE 0)
    BY DEF Wait
  <2>5. left' + stop' + (IF delay' THEN DmaLen ELSE 0) \in 1 .. len' + DmaLen
    <3>1. CASE delay'
      BY <1>2, <3>1, Lengths
    <3>2. CASE ~delay'
      BY <1>2, <3>2, Lengths
    <3> QED
      BY <3>1, <3>2
  <2> QED
    BY <2>3, <2>4, <2>5
<1>6. ~boundary => Wait' = Wait - 1
  BY <1>0, <1>1, <1>3, Lengths DEF Wait, boundary, running
<1>7. Blind \in Nat /\ Blind' \in Nat /\ Blind' <= DmaLen + 1
  <2>1. (IF op = "branch" /\ left = len - 1 THEN 1 ELSE 0) \in {0, 1}
    OBVIOUS
  <2>2. (IF op' = "branch" /\ left' = len' - 1 THEN 1 ELSE 0) \in {0, 1}
    OBVIOUS
  <2> QED
    BY <1>0, <1>2, <2>1, <2>2, Lengths DEF Blind
<1>8. samples <=> Blind = 0
  BY <1>0 DEF Blind, samples, running
<1>9. Blind > 0 => Blind' = Blind - 1
  <2>1. CASE boundary
    <3>1. Blind' = 0
      BY <1>2, <1>4, <2>1 DEF Blind
    <3>2. Blind \in {0, 1}
      BY <2>1 DEF Blind, boundary, running
    <3> QED
      BY <3>1, <3>2
  <2>2. CASE ~boundary /\ stop = 0
    <3>1. left' = left - 1 /\ len' = len /\ op' = op
      BY <1>3, <2>2 DEF running
    <3>2. CASE op = "branch" /\ left = len - 1
      <4>1. ~delay /\ stop' = 0
        BY <1>0, <1>1, <2>2, <3>2 DEF running
      <4> QED
        BY <1>0, <2>2, <3>1, <3>2, <4>1 DEF Blind
    <3>3. CASE ~(op = "branch" /\ left = len - 1)
      BY <2>2, <3>3 DEF Blind
    <3> QED
      BY <3>2, <3>3
  <2>3. CASE ~boundary /\ stop # 0
    <3>1. left' = left /\ len' = len /\ op' = op /\ stop' = stop - 1
      BY <1>0, <1>1, <1>3, <2>3 DEF running
    <3> QED
      BY <1>0, <3>1 DEF Blind
  <2> QED
    BY <2>1, <2>2, <2>3
<1>10. Blind > 0 => ~access("readStatus")
  BY <1>0 DEF Blind, access, boundary, running
<1> QED
  BY <1>5, <1>6, <1>7, <1>8, <1>9, <1>10

\* The flag: a read of $2002 before the lines, line 480 before line 524.
LEMMA FlagStep ==
  ASSUME TypeOK, Clock
  PROVE  /\ vbl' \in BOOLEAN /\ ctl' \in BOOLEAN /\ latched' \in BOOLEAN
         /\ access("readStatus") => ~vbl'
         /\ ~access("readStatus") /\ onSetLine => vbl'
         /\ ~access("readStatus") /\ ~onSetLine => vbl' = (vbl /\ ~onClearLine)
<1>0. vbl \in BOOLEAN /\ ctl \in BOOLEAN /\ latched \in BOOLEAN
  BY Types
<1>1. vbl' = CASE access("readStatus") -> FALSE
               [] ~access("readStatus") /\ onSetLine -> TRUE
               [] ~access("readStatus") /\ onClearLine -> FALSE
               [] OTHER -> vbl
  BY DEF Clock, StepPpu, StepVbl
<1>2. ~(onSetLine /\ onClearLine)
  BY Lengths, Types DEF onSetLine, onClearLine
<1>3. access("readStatus") => vbl' = FALSE
  BY <1>1
<1>4. ~access("readStatus") /\ onSetLine => vbl' = TRUE
  BY <1>1, <1>2
<1>5. ~access("readStatus") /\ ~onSetLine => vbl' = (vbl /\ ~onClearLine)
  BY <1>0, <1>1
<1>6. vbl' \in BOOLEAN
  BY <1>0, <1>3, <1>4, <1>5
<1>7. ctl' \in BOOLEAN /\ latched' \in BOOLEAN
  <2>1. latched' = IF access("readStatus") THEN vbl ELSE latched
    BY DEF Clock, StepPpu
  <2>2. ctl' = CASE access("nmiOn") -> TRUE [] access("nmiOff") -> FALSE [] OTHER -> ctl
    BY DEF Clock, StepPpu
  <2>3. ctl' \in BOOLEAN
    BY <1>0, <2>2
  <2> QED
    BY <1>0, <2>1, <2>3
<1> QED
  BY <1>3, <1>4, <1>5, <1>6, <1>7

\* The line, its edges, and the NMI that is pending.
LEMMA EdgeStep ==
  ASSUME TypeOK, Clock
  PROVE  /\ nmiOld' \in BOOLEAN /\ nmiAct' \in BOOLEAN
         /\ samples => nmiOld' = ~(vbl /\ ctl)
         /\ ~samples => nmiOld' = nmiOld
         /\ nmiAct' => (nmiAct /\ ~takes) \/ (samples /\ nmiOld /\ vbl /\ ctl)
         /\ samples /\ nmiOld /\ vbl /\ ctl /\ op # "nmi" => nmiAct'
         /\ nmiAct /\ ~takes /\ op # "nmi" => nmiAct'
         /\ running /\ op = "nmi" /\ left = 2 => ~nmiAct'
<1>0. vbl \in BOOLEAN /\ ctl \in BOOLEAN /\ nmiOld \in BOOLEAN /\ nmiAct \in BOOLEAN
  BY Types
<1>1. nmiOld' = (IF samples THEN nmi_n ELSE nmiOld) /\ nmi_n = ~(vbl /\ ctl)
  BY DEF Clock, SampleNmi, nmi_n
<1> DEFINE held == running /\ op = "nmi" /\ left = 2
           edge == samples /\ nmiOld /\ vbl /\ ctl
           kept == nmiAct /\ ~takes
<1>2. nmiAct' = CASE held -> FALSE [] ~held /\ edge -> TRUE [] OTHER -> kept
  <2>1. nmiAct' = CASE running /\ op = "nmi" /\ left = 2 -> FALSE
                    [] ~(running /\ op = "nmi" /\ left = 2)
                       /\ samples /\ nmiOld /\ ~nmi_n -> TRUE
                    [] OTHER -> nmiAct /\ ~takes
    BY DEF Clock, SampleNmi
  <2> QED
    BY <1>0, <1>1, <2>1
<1>3. op # "nmi" => ~held
  OBVIOUS
<1>4. edge \in BOOLEAN /\ kept \in BOOLEAN /\ held \in BOOLEAN
  BY <1>0 DEF samples, running, takes
<1> HIDE DEF held, edge, kept
<1>5. (held => nmiAct' = FALSE) /\ (~held /\ edge => nmiAct' = TRUE) /\ (~held /\ ~edge => nmiAct' = kept)
  BY <1>2
<1>6. nmiAct' \in BOOLEAN
  BY <1>4, <1>5
<1>7. nmiOld' \in BOOLEAN
  BY <1>0, <1>1
<1> QED
  BY <1>1, <1>3, <1>5, <1>6, <1>7 DEF held, edge, kept

\* The frame, and what has happened in it.
LEMMA FrameStep ==
  ASSUME TypeOK, Clock
  PROVE  /\ pos = FrameLen - 1 =>
              /\ pos' = 0 /\ armed' = ctl' /\ quiet' = TRUE /\ polls' = 0
              /\ seen' = FALSE /\ got' = FALSE /\ taken' = 0
         /\ pos # FrameLen - 1 =>
              /\ pos' = pos + 1 /\ armed' = (armed /\ ctl')
              /\ quiet' = (quiet /\ ~(access("readStatus") /\ onSetLine))
              /\ polls' = (IF access("readStatus") /\ 2 <= pos /\ pos < ClearFrom /\ polls < 2
                           THEN polls + 1 ELSE polls)
              /\ seen' = (seen \/ (access("readStatus") /\ vbl))
              /\ got' = (got \/ (access("readStatus") /\ seen /\ latched))
              /\ taken' = (IF takes /\ taken < 2 THEN taken + 1 ELSE taken)
  BY DEF Clock, StepGhosts

\* The clock keeps the types.
LEMMA ClockType == ASSUME TypeOK, ShapeInv, Clock PROVE TypeOK'
<1>1. pos' \in 0 .. FrameLen - 1
  BY Types, Lengths DEF Clock
<1>2. {vbl', ctl', latched', delay', nmiOld', nmiAct'} \subseteq BOOLEAN
  BY FlagStep, EdgeStep, CpuStep
<1>3. op' \in Op /\ len' \in Nat /\ left' \in 1 .. len' /\ stop' \in 0 .. DmaLen
  BY CpuStep, LenFits
<1>4. {armed', quiet', seen', got'} \subseteq BOOLEAN
  BY FrameStep, FlagStep, Types
<1>5. taken' \in 0 .. 2
  <2>1. taken \in {0, 1, 2}
    BY Types
  <2>2. taken' = 0 \/ taken' = (IF takes /\ taken < 2 THEN taken + 1 ELSE taken)
    BY FrameStep
  <2> QED
    BY <2>1, <2>2
<1>6. polls' \in 0 .. 2
  <2>1. polls \in {0, 1, 2}
    BY Types
  <2>2. polls' \in {0, polls} \/ (polls < 2 /\ polls' = polls + 1)
    BY FrameStep
  <2> QED
    BY <2>1, <2>2
<1> QED
  BY <1>1, <1>2, <1>3, <1>4, <1>5, <1>6 DEF TypeOK

\* And the shape of an instruction.
LEMMA ClockShape == ASSUME TypeOK, ShapeInv, Clock PROVE ShapeInv'
<1>1. len' \in Lens /\ (delay' => stop' = 0 /\ left' = len') /\ (op' = "nmi" => len' = NmiLen)
  BY CpuStep
<1>2. ASSUME op' = "nmi", left' = 1 PROVE ~nmiAct'
  <2>1. ~boundary
    BY <1>1, <1>2, CpuStep, Lengths
  <2>2. op = "nmi" /\ left' = IF running THEN left - 1 ELSE left
    BY <1>2, <2>1, CpuStep
  <2>3. CASE running
    BY <1>2, <2>2, <2>3, EdgeStep, Types
  <2>4. CASE ~running
    BY <1>2, <2>2, <2>4, EdgeStep DEF samples, ShapeInv
  <2> QED
    BY <2>3, <2>4
<1> QED
  BY <1>1, <1>2 DEF ShapeInv

\* The numbers of a clock.
LEMMA Numbers ==
  ASSUME TypeOK, ShapeInv, Clock
  PROVE  \E p \in Nat, w \in Nat, b \in Nat :
           /\ pos' = p /\ p < FrameLen /\ p = (IF pos = FrameLen - 1 THEN 0 ELSE pos + 1)
           /\ Wait' = w /\ w >= 1 /\ (~boundary => w = Wait - 1) /\ w <= DmaLen + len'
           /\ Blind' = b /\ b <= DmaLen + 1 /\ (Blind > 0 => b = Blind - 1)
<1>1. PICK p \in Nat : pos' = p
  BY Types, Lengths DEF Clock
<1>2. p < FrameLen /\ p = (IF pos = FrameLen - 1 THEN 0 ELSE pos + 1)
  BY <1>1, Types, Lengths DEF Clock
<1>3. len' \in Nat /\ Wait' \in Nat /\ Blind' \in Nat
  BY Progress, CpuStep, LenFits
<1>4. PICK n \in Nat, w \in Nat, b \in Nat : len' = n /\ Wait' = w /\ Blind' = b
  BY <1>3
<1>5. w >= 1 /\ (~boundary => w = Wait - 1) /\ w <= n + DmaLen
  BY <1>4, Progress
<1>6. b <= DmaLen + 1 /\ (Blind > 0 => b = Blind - 1)
  BY <1>4, Progress
<1>7. w <= DmaLen + n
  BY <1>5, Lengths
<1> QED
  BY <1>1, <1>2, <1>4, <1>5, <1>6, <1>7

\* A poll latches the flag or finds it latched, and brings what it finds.
LEMMA PollStep ==
  ASSUME TypeOK, ShapeInv, FlagInv, Clock
  PROVE  (polls' > 0 => seen') /\ (seen' => got' \/ latched') /\ (polls' = 2 => got')
<1>0. /\ pos \in Nat /\ pos < FrameLen /\ vbl \in BOOLEAN /\ latched \in BOOLEAN
      /\ seen \in BOOLEAN /\ got \in BOOLEAN /\ polls \in {0, 1, 2}
  BY Types
<1>1. latched' = IF access("readStatus") THEN vbl ELSE latched
  BY DEF Clock, StepPpu
<1>2. CASE pos = FrameLen - 1
  BY <1>2, FrameStep
<1>3. CASE pos # FrameLen - 1
  <2>1. /\ seen' = (seen \/ (access("readStatus") /\ vbl))
        /\ got' = (got \/ (access("readStatus") /\ seen /\ latched))
    BY <1>3, FrameStep
  <2>2. (polls > 0 => seen) /\ (seen => got \/ latched) /\ (polls = 2 => got)
    BY DEF FlagInv
  <2>3. seen' => got' \/ latched'
    BY <1>1, <2>1, <2>2
  <2>4. CASE access("readStatus") /\ 2 <= pos /\ pos < ClearFrom /\ polls < 2
    <3>1. polls' = polls + 1
      BY <1>3, <2>4, FrameStep
    <3>2. seen \/ vbl
      BY <1>0, <2>4, Lengths DEF FlagInv
    <3>3. seen'
      BY <2>1, <2>4, <3>2
    <3>4. polls = 1 => got'
      <4>1. seen => got'
        BY <2>1, <2>2, <2>4, Zenon
      <4>2. polls = 1 => seen
        BY <2>2
      <4> QED
        BY <4>1, <4>2
    <3>5. polls' = 2 => polls = 1
      BY <1>0, <3>1
    <3> QED
      BY <2>3, <3>3, <3>4, <3>5
  <2>5. CASE ~(access("readStatus") /\ 2 <= pos /\ pos < ClearFrom /\ polls < 2)
    <3>1. polls' = polls
      BY <1>3, <2>5, FrameStep
    <3> QED
      BY <2>1, <2>2, <2>3, <3>1
  <2> QED
    BY <2>4, <2>5
<1> QED
  BY <1>2, <1>3

\* The flag is up when it has to be, and down when it has to be.
LEMMA ClockFlag == ASSUME TypeOK, ShapeInv, FlagInv, Clock PROVE FlagInv'
<1> PICK p \in Nat : pos' = p /\ p < FrameLen /\ p = (IF pos = FrameLen - 1 THEN 0 ELSE pos + 1)
  BY Numbers
<1>0. pos \in Nat /\ pos < FrameLen /\ vbl \in BOOLEAN
  BY Types
<1>1. ASSUME p > ClearFrom \/ p = 0 PROVE ~vbl'
  <2>1. pos >= ClearFrom
    BY <1>0, <1>1, Lengths
  <2>2. ~onSetLine /\ (pos = ClearFrom => onClearLine)
    BY <1>0, <2>1, Lengths DEF onSetLine, onClearLine
  <2>3. pos # ClearFrom => ~vbl
    BY <1>0, <2>1, Lengths DEF FlagInv
  <2> QED
    BY <2>2, <2>3, FlagStep
<1>2. ASSUME p = 1, ~vbl' PROVE left' = len' /\ stop' = 0 /\ ~delay'
  <2>1. onSetLine
    BY <1>0, <1>2, Lengths DEF onSetLine
  <2>2. boundary /\ op = "readStatus"
    BY <1>2, <2>1, FlagStep DEF access
  <2> QED
    BY <2>2, CpuStep
<1>3. ASSUME 2 <= p, p <= ClearFrom, ~seen' PROVE vbl'
  <2>1. 1 <= pos /\ pos < ClearFrom /\ pos # FrameLen - 1
    BY <1>0, <1>3, Lengths
  <2>2. ~seen /\ ~(access("readStatus") /\ vbl)
    BY <1>3, <2>1, FrameStep
  <2>3. ~onClearLine
    BY <1>0, <2>1, Lengths DEF onClearLine
  <2>4. CASE vbl
    BY <2>2, <2>3, <2>4, FlagStep
  <2>5. CASE ~vbl
    <3>1. pos = 1 /\ left = len
      BY <1>0, <2>1, <2>2, <2>5, Lengths DEF FlagInv
    <3>2. ~access("readStatus") /\ onSetLine
      BY <3>1, LenFits, Lengths DEF access, boundary, onSetLine, ShapeInv
    <3> QED
      BY <3>2, FlagStep
  <2> QED
    BY <2>4, <2>5
<1>4. polls' > 0 => seen'
  BY PollStep
<1>5. seen' => got' \/ latched'
  BY PollStep
<1>6. polls' = 2 => got'
  BY PollStep
<1> QED
  BY <1>1, <1>2, <1>3, <1>4, <1>5, <1>6 DEF FlagInv

\* What line 524 leaves over comes nearer to its end.
LEMMA ClockLate == ASSUME TypeOK, ShapeInv, FlagInv, LateInv, Clock PROVE LateInv'
<1> PICK p \in Nat, w \in Nat, b \in Nat :
      /\ pos' = p /\ p < FrameLen /\ p = (IF pos = FrameLen - 1 THEN 0 ELSE pos + 1)
      /\ Wait' = w /\ w >= 1 /\ (~boundary => w = Wait - 1) /\ w <= DmaLen + len'
      /\ Blind' = b /\ b <= DmaLen + 1 /\ (Blind > 0 => b = Blind - 1)
  BY Numbers
<1>0. /\ pos \in Nat /\ pos < FrameLen /\ vbl \in BOOLEAN
      /\ Wait \in Nat /\ Wait >= 1 /\ Blind \in Nat
  BY Types, Progress
<1>1. PICK n \in Lens : len' = n
  BY CpuStep
<1>2. n \in Nat /\ n > 1 /\ 2 * DmaLen + NmiLen + n < ClearLen + DrawLen /\ w <= DmaLen + n
  BY <1>1, LenFits
<1> SUFFICES ASSUME p > ClearFrom
             PROVE  /\ ~nmiOld' => p + b < FrameLen
                    /\ nmiAct' => p + w + NmiLen + DmaLen <= FrameLen
                    /\ op' = "nmi" => p + w <= FrameLen
  BY DEF LateInv
<1>3. p = pos + 1 /\ pos >= ClearFrom
  BY <1>0, Lengths
<1>4. CASE pos = ClearFrom
  BY <1>0, <1>2, <1>3, <1>4, Lengths
<1>5. CASE pos > ClearFrom
  <2>0. ~vbl
    BY <1>5 DEF FlagInv
  <2>1. ASSUME ~nmiOld' PROVE p + b < FrameLen
    <3>1. ~samples /\ ~nmiOld
      BY <2>0, <2>1, EdgeStep
    <3>2. Blind > 0
      BY <1>0, <3>1, Progress
    <3>3. pos + Blind < FrameLen
      BY <1>5, <3>1 DEF LateInv
    <3> QED
      BY <1>0, <1>3, <3>2, <3>3, Lengths
  <2>2. ASSUME nmiAct' PROVE p + w + NmiLen + DmaLen <= FrameLen
    <3>1. nmiAct /\ ~takes
      BY <2>0, <2>2, EdgeStep
    <3>2. ~boundary
      BY <3>1 DEF takes, boundary, ShapeInv
    <3>3. pos + Wait + NmiLen + DmaLen <= FrameLen
      BY <1>5, <3>1 DEF LateInv
    <3> QED
      BY <1>0, <1>3, <3>2, <3>3, Lengths
  <2>3. ASSUME op' = "nmi" PROVE p + w <= FrameLen
    <3>1. CASE boundary
      <4>1. takes /\ nmiAct /\ Wait = 1
        BY <2>3, <3>1, CpuStep DEF takes
      <4>2. pos + Wait + NmiLen + DmaLen <= FrameLen
        BY <1>5, <4>1 DEF LateInv
      <4>3. n = NmiLen
        BY <1>1, <2>3, CpuStep
      <4> QED
        BY <1>0, <1>2, <1>3, <4>1, <4>2, <4>3, Lengths
    <3>2. CASE ~boundary
      <4>1. pos + Wait <= FrameLen
        BY <1>5, <2>3, <3>2, CpuStep DEF LateInv
      <4> QED
        BY <1>0, <1>3, <3>2, <4>1, Lengths
    <3> QED
      BY <3>1, <3>2
  <2> QED
    BY <2>1, <2>2, <2>3
<1> QED
  BY <1>0, <1>3, <1>4, <1>5, Lengths

\* And has ended when line 480 begins.
LEMMA ClockStart == ASSUME TypeOK, ShapeInv, FlagInv, LateInv, Clock PROVE StartInv'
<1> SUFFICES ASSUME pos' = 0 PROVE nmiOld' /\ ~nmiAct' /\ op' # "nmi" /\ taken' = 0
  BY DEF StartInv
<1>0. /\ pos \in Nat /\ pos < FrameLen /\ Wait \in Nat /\ Wait >= 1 /\ Blind \in Nat
      /\ nmiAct \in BOOLEAN
  BY Types, Progress
<1>1. pos = FrameLen - 1 /\ pos > ClearFrom
  <2>1. PICK p \in Nat : p = 0 /\ p = (IF pos = FrameLen - 1 THEN 0 ELSE pos + 1)
    BY Numbers
  <2> QED
    BY <1>0, <2>1, Lengths
<1>2. ~vbl
  BY <1>1 DEF FlagInv
<1>3. nmiOld'
  <2>1. CASE samples
    BY <1>2, <2>1, EdgeStep
  <2>2. CASE ~samples
    <3>1. Blind > 0
      BY <1>0, <2>2, Progress
    <3>2. nmiOld
      BY <1>0, <1>1, <3>1, Lengths DEF LateInv
    <3> QED
      BY <2>2, <3>2, EdgeStep
  <2> QED
    BY <2>1, <2>2
<1>4. ~nmiAct
  BY <1>0, <1>1, Lengths DEF LateInv
<1>5. ~nmiAct'
  BY <1>2, <1>4, EdgeStep
<1>6. op' # "nmi"
  <2>1. CASE boundary
    BY <1>4, <2>1, CpuStep DEF takes
  <2>2. CASE ~boundary
    <3>1. PICK w \in Nat : w >= 1 /\ w = Wait - 1
      BY <2>2, Numbers
    <3>2. op # "nmi"
      BY <1>0, <1>1, <3>1, Lengths DEF LateInv
    <3> QED
      BY <2>2, <3>2, CpuStep
  <2> QED
    BY <2>1, <2>2
<1>7. taken' = 0
  BY <1>1, FrameStep
<1> QED
  BY <1>3, <1>5, <1>6, <1>7

\* The edge is sampled, and the NMI taken, in time.
LEMMA ClockEdge ==
  ASSUME TypeOK, ShapeInv, FlagInv, StartInv, EdgeInv, Clock PROVE EdgeInv'
<1> PICK p \in Nat, w \in Nat, b \in Nat :
      /\ pos' = p /\ p < FrameLen /\ p = (IF pos = FrameLen - 1 THEN 0 ELSE pos + 1)
      /\ Wait' = w /\ w >= 1 /\ (~boundary => w = Wait - 1) /\ w <= DmaLen + len'
      /\ Blind' = b /\ b <= DmaLen + 1 /\ (Blind > 0 => b = Blind - 1)
  BY Numbers
<1>0. /\ pos \in Nat /\ pos < FrameLen /\ vbl \in BOOLEAN /\ nmiAct \in BOOLEAN
      /\ taken \in {0, 1, 2} /\ Wait \in Nat /\ Wait >= 1 /\ Blind \in Nat
  BY Types, Progress
<1>1. armed' => ctl'
  BY FrameStep
<1> SUFFICES ASSUME armed', taken' = 0, p >= 1
             PROVE  /\ op' # "nmi"
                    /\ nmiAct'  => p + w < FrameLen
                    /\ ~nmiAct' => nmiOld' /\ IF vbl' THEN p + b <= DmaLen + 2 ELSE p = 1
  BY <1>1 DEF EdgeInv
<1>2. p = pos + 1 /\ pos # FrameLen - 1
  BY <1>0, Lengths
<1>3. armed /\ ctl
  BY <1>2, FrameStep DEF EdgeInv
<1>4. taken = 0 /\ ~takes
  <2>1. taken' = IF takes /\ taken < 2 THEN taken + 1 ELSE taken
    BY <1>2, FrameStep
  <2> QED
    BY <1>0, <2>1
<1>5. op # "nmi"
  BY <1>0, <1>3, <1>4 DEF StartInv, EdgeInv
<1>6. op' # "nmi"
  BY <1>4, <1>5, CpuStep
<1>7. CASE pos = 0
  <2>1. nmiOld /\ ~nmiAct /\ ~vbl
    BY <1>7 DEF StartInv, FlagInv
  <2>2. ~nmiAct' /\ nmiOld'
    BY <2>1, EdgeStep
  <2> QED
    BY <1>2, <1>6, <1>7, <2>2, Lengths
<1>8. CASE pos >= 1 /\ nmiAct
  <2>1. ~boundary /\ nmiAct'
    BY <1>4, <1>5, <1>8, EdgeStep DEF takes
  <2>2. pos + Wait < FrameLen
    BY <1>3, <1>4, <1>8 DEF EdgeInv
  <2> QED
    BY <1>0, <1>2, <1>6, <2>1, <2>2, Lengths
<1>9. CASE pos >= 1 /\ ~nmiAct /\ vbl /\ Blind = 0
  <2>1. nmiOld /\ pos + Blind <= DmaLen + 2
    BY <1>3, <1>4, <1>9 DEF EdgeInv
  <2>2. nmiAct'
    BY <1>3, <1>5, <1>9, <2>1, EdgeStep, Progress
  <2>3. PICK n \in Lens : len' = n
    BY CpuStep
  <2>4. n \in Nat /\ 2 * DmaLen + NmiLen + n < ClearLen + DrawLen /\ w <= DmaLen + n
    BY <2>3, LenFits
  <2>5. p + w < FrameLen
    BY <1>0, <1>2, <1>9, <2>1, <2>4, Lengths
  <2> QED
    BY <1>6, <2>2, <2>5
<1>10. CASE pos >= 1 /\ ~nmiAct /\ vbl /\ Blind > 0
  <2>1. nmiOld /\ pos + Blind <= DmaLen + 2
    BY <1>3, <1>4, <1>10 DEF EdgeInv
  <2>2. ~samples /\ ~access("readStatus")
    BY <1>0, <1>10, Progress
  <2>3. nmiOld' /\ ~nmiAct'
    BY <1>10, <2>1, <2>2, EdgeStep
  <2>4. ~onClearLine
    BY <1>0, <1>10, <2>1, Lengths DEF onClearLine
  <2>5. vbl'
    BY <1>10, <2>2, <2>4, FlagStep
  <2> QED
    BY <1>0, <1>2, <1>6, <1>10, <2>1, <2>3, <2>5, Lengths
<1>11. CASE pos >= 1 /\ ~nmiAct /\ ~vbl
  <2>1. nmiOld /\ pos = 1
    BY <1>3, <1>4, <1>11 DEF EdgeInv
  <2>2. nmiOld' /\ ~nmiAct'
    BY <1>11, <2>1, EdgeStep
  <2>3. left = len /\ stop = 0 /\ ~delay
    BY <1>11, <2>1 DEF FlagInv
  <2>4. ~access("readStatus") /\ onSetLine
    BY <2>1, <2>3, LenFits, Lengths DEF access, boundary, onSetLine, ShapeInv
  <2>5. stop' = 0
    BY <2>3 DEF Clock, StepDma, running
  <2>6. Blind' \in {0, 1}
    BY <2>5 DEF Blind
  <2>7. p + b <= DmaLen + 2
    BY <1>2, <2>1, <2>6, Lengths
  <2>8. vbl'
    BY <2>4, FlagStep
  <2> QED
    BY <1>6, <2>2, <2>7, <2>8
<1> QED
  BY <1>0, <1>7, <1>8, <1>9, <1>10, <1>11

\* And only one, if line 480 is quiet.
LEMMA ClockOnce ==
  ASSUME TypeOK, ShapeInv, StartInv, EdgeInv, OnceInv, Clock, StartInv' PROVE OnceInv'
<1> PICK p \in Nat : pos' = p /\ p = (IF pos = FrameLen - 1 THEN 0 ELSE pos + 1)
  BY Numbers
<1>0. /\ pos \in Nat /\ pos < FrameLen /\ vbl \in BOOLEAN /\ nmiAct \in BOOLEAN
      /\ nmiOld \in BOOLEAN /\ quiet \in BOOLEAN /\ taken \in {0, 1, 2}
  BY Types
<1>1. CASE p = 0
  BY <1>1 DEF OnceInv, StartInv
<1>2. CASE p > 0
  <2>0. p = pos + 1 /\ pos # FrameLen - 1
    BY <1>0, <1>2
  <2>1. ASSUME quiet', p <= SetLen PROVE vbl'
    <3>1. onSetLine
      BY <1>0, <2>0, <2>1, Lengths DEF onSetLine
    <3> QED
      BY <2>0, <2>1, <3>1, FrameStep, FlagStep
  <2>2. ASSUME armed', quiet'
        PROVE  /\ taken' > 0 \/ nmiAct' => ~nmiOld' \/ (~vbl' /\ p >= SetLen)
               /\ taken' = 0 \/ (taken' = 1 /\ ~nmiAct')
    <3>1. armed /\ quiet /\ ctl
      BY <2>0, <2>2, FrameStep DEF EdgeInv
    <3>2. taken' = IF takes /\ taken < 2 THEN taken + 1 ELSE taken
      BY <2>0, FrameStep
    <3>3. CASE taken = 0 /\ ~nmiAct
      <4>1. taken' = 0
        BY <3>2, <3>3 DEF takes
      <4>2. nmiAct' => ~nmiOld'
        BY <3>1, <3>3, EdgeStep
      <4> QED
        BY <4>1, <4>2
    <3>4. CASE taken > 0 \/ nmiAct
      <4>1. ~nmiOld \/ (~vbl /\ pos >= SetLen)
        BY <3>1, <3>4 DEF OnceInv
      <4>2. taken = 0 \/ (taken = 1 /\ ~nmiAct)
        BY <3>1 DEF OnceInv
      <4>3. nmiAct' => nmiAct /\ ~takes
        BY <4>1, EdgeStep
      <4>4. taken' = 0 \/ (taken' = 1 /\ ~nmiAct')
        BY <3>2, <4>2, <4>3 DEF takes
      <4>5. CASE vbl
        BY <3>1, <4>1, <4>4, <4>5, EdgeStep
      <4>6. CASE ~vbl
        <5>1. pos # 0
          BY <1>0, <3>4 DEF StartInv
        <5>2. pos >= SetLen
          BY <1>0, <3>1, <4>6, <5>1, Lengths DEF OnceInv
        <5>3. ~vbl'
          BY <1>0, <4>6, <5>2, FlagStep, Lengths DEF onSetLine
        <5> QED
          BY <1>0, <2>0, <4>4, <5>2, <5>3, Lengths
      <4> QED
        BY <1>0, <4>4, <4>5, <4>6
    <3> QED
      BY <1>0, <3>3, <3>4
  <2> QED
    BY <1>2, <2>1, <2>2 DEF OnceInv
<1> QED
  BY <1>1, <1>2

-----------------------------------------------------------------------------

\* Reset, like the start, is after line 524, where nothing is asked of a frame.
Restart ==
  /\ pos = ClearFrom + ClearLen /\ vbl = FALSE /\ ctl = FALSE /\ latched = FALSE
  /\ op = "other" /\ len \in OtherLens /\ left = len /\ nmiOld = TRUE /\ nmiAct = FALSE
  /\ armed = FALSE /\ quiet = TRUE /\ polls = 0 /\ seen = FALSE /\ got = FALSE /\ taken = 0
  /\ stop \in 0 .. DmaLen /\ delay \in BOOLEAN /\ (delay => stop = 0)

\* The inductive invariant holds there.
LEMMA Restarted == Restart => IInv
<1> SUFFICES ASSUME Restart PROVE IInv
  OBVIOUS
<1> USE DEF Restart
<1>1. len \in Lens /\ len \in Nat /\ len > 1
  BY LenFits DEF Lens
<1>2. TypeOK
  <2>1. pos \in 0 .. FrameLen - 1
    BY Lengths
  <2>2. {vbl, ctl, latched, delay, nmiOld, nmiAct} \subseteq BOOLEAN
    BY Zenon
  <2>3. {armed, quiet, seen, got} \subseteq BOOLEAN
    BY Zenon
  <2>5. polls \in 0 .. 2 /\ taken \in 0 .. 2
    OBVIOUS
  <2>4. op \in Op /\ len \in Nat /\ left \in 1 .. len /\ stop \in 0 .. DmaLen
    BY <1>1 DEF Op
  <2> QED
    BY <2>1, <2>2, <2>3, <2>4, <2>5 DEF TypeOK
<1>3. pos > ClearFrom /\ pos # 0 /\ pos # 1 /\ pos > SetLen
  BY Lengths
<1>4. ShapeInv /\ FlagInv /\ LateInv
  BY <1>1, <1>3, Lengths DEF ShapeInv, FlagInv, LateInv
<1>5. StartInv /\ EdgeInv /\ OnceInv
  BY <1>3, Lengths DEF StartInv, EdgeInv, OnceInv
<1> QED
  BY <1>2, <1>4, <1>5 DEF IInv

\* After a step, too.
LEMMA RestartedNext == Restart' => IInv'
  BY Restarted, PTL

\* It holds at first.
LEMMA InitIInv == ASSUME Init PROVE IInv
<1>1. stop \in 0 .. DmaLen /\ delay \in BOOLEAN /\ (delay => stop = 0)
  <2>1. stop = 0 /\ delay = FALSE
    BY DEF Init
  <2>2. stop \in 0 .. DmaLen
    BY <2>1, Lengths
  <2> QED
    BY <2>1, <2>2, Zenon
<1>2. Restart
  BY <1>1 DEF Init, Restart
<1> QED
  BY <1>2, Restarted

\* Every step keeps the inductive invariant.
LEMMA InvStep == ASSUME IInv, [Next]_vars PROVE IInv'
<1> USE DEF IInv
<1>1. CASE Clock
  BY <1>1, ClockType, ClockShape, ClockFlag, ClockLate, ClockStart, ClockEdge, ClockOnce
<1>2. CASE Reset
  <2>1. stop \in 0 .. DmaLen /\ delay \in BOOLEAN /\ (delay => stop = 0)
    BY DEF TypeOK, ShapeInv
  <2>2. Restart'
    BY <1>2, <2>1 DEF Reset, Restart, dmaVars
  <2> QED
    BY <2>2, RestartedNext
<1>3. CASE UNCHANGED vars
  BY <1>3 DEF vars, ppuVars, cpuVars, dmaVars, ghostVars, TypeOK, ShapeInv, FlagInv, LateInv,
              StartInv, EdgeInv, OnceInv, Wait, Blind
<1> QED
  BY <1>1, <1>2, <1>3 DEF Next

\* So it always holds.
LEMMA Invariance == Spec => []IInv
  BY InitIInv, InvStep, PTL DEF Spec
-----------------------------------------------------------------------------

\* The counters of the CPU, the dma module and the frame keep their ranges.
THEOREM TypeCorrect == Spec => []TypeOK
<1>1. IInv => TypeOK
  BY DEF IInv
<1> QED
  BY <1>1, Invariance, PTL

\* A frame whose NMI is enabled all along has one taken.
THEOREM EveryFrameHasItsNmi == Spec => []FrameHasNmi
<1>1. IInv => FrameHasNmi
  <2> SUFFICES ASSUME IInv, endOfFrame, armed PROVE taken > 0
    BY DEF FrameHasNmi
  <2> USE DEF IInv
  <2>1. /\ pos = FrameLen - 1 /\ pos > ClearFrom /\ pos > 1 /\ vbl \in BOOLEAN /\ ~vbl
        /\ taken \in {0, 1, 2} /\ left \in Nat /\ left >= 1 /\ stop \in Nat
    BY Types, Lengths DEF endOfFrame, FlagInv
  <2>2. (IF delay THEN DmaLen ELSE 0) \in {0, DmaLen}
    OBVIOUS
  <2>3. ~(pos + Wait < FrameLen)
    BY <2>1, <2>2, Lengths DEF Wait
  <2>4. taken # 0
    BY <2>1, <2>3 DEF EdgeInv
  <2> QED
    BY <2>1, <2>4
<1> QED
  BY <1>1, Invariance, PTL

\* And exactly one if nobody reads $2002 on line 480.
THEOREM QuietFramesHaveOneNmi == Spec => []QuietFrameHasOneNmi
<1>1. IInv /\ FrameHasNmi => QuietFrameHasOneNmi
  BY DEF IInv, OnceInv, FrameHasNmi, QuietFrameHasOneNmi
<1> QED
  BY <1>1, Invariance, EveryFrameHasItsNmi, PTL

\* Of two polls while the flag stands to be seen the second, at the latest, brings
\* the program a 1: the first one latched it, or found it latched already.
THEOREM PollsGetTheFlag == Spec => []PollGetsFlag
<1>1. IInv => PollGetsFlag
  BY DEF IInv, FlagInv, PollGetsFlag
<1> QED
  BY <1>1, Invariance, PTL

\* No frame starts with the flag or the NMI of the one before.
THEOREM FramesStartClean == Spec => []FrameStartsClean
<1>1. IInv => FrameStartsClean
  BY DEF IInv, FlagInv, StartInv, FrameStartsClean
<1> QED
  BY <1>1, Invariance, PTL
=============================================================================
