----------------------------- MODULE VgaTiming -----------------------------
(***************************************************************************)
(* The VGA controller: a pixel counter hc and a line counter vc, and the   *)
(* sync pulses, which are registered, so that what hs and vs show is       *)
(* decided one pixel earlier.  Reset is asynchronous.                      *)
(***************************************************************************)
EXTENDS Naturals

CONSTANTS
  HPixels,     \* last pixel of a line (799)
  VLines,      \* last line of a frame (524)
  HVisible,    \* visible pixels of a line (640)
  VVisible,    \* visible lines (480)
  HSyncFirst,  \* first pixel of the horizontal pulse (656)
  HSyncEnd,    \* first pixel after it (752)
  VSyncFirst   \* the code compares vc + 1 with this line and the next (490)

ASSUME SizesAssumption ==
  /\ HPixels \in Nat /\ VLines \in Nat /\ HVisible \in Nat /\ VVisible \in Nat
  /\ HSyncFirst \in Nat /\ HSyncEnd \in Nat /\ VSyncFirst \in Nat
  /\ 0 < HVisible /\ HVisible < HSyncFirst /\ HSyncFirst < HSyncEnd
  /\ HSyncEnd <= HPixels
  /\ 0 < VVisible /\ VVisible + 1 < VSyncFirst /\ VSyncFirst + 1 < VLines

VARIABLES
  hc, vc,  \* the counters, DrawX and DrawY
  hs, vs   \* the sync outputs, active low

vars == <<hc, vc, hs, vs>>

TypeOK == /\ hc \in 0 .. HPixels /\ vc \in 0 .. VLines
          /\ hs \in {0, 1} /\ vs \in {0, 1}

display == hc < HVisible /\ vc < VVisible

Init == hc = 0 /\ vc = 0 /\ hs = 0 /\ vs = 0

\* Mutant: the pulse is decided on the pixel shown, not on the next one.
HsyncLate == hs' = IF HSyncFirst <= hc /\ hc < HSyncEnd THEN 0 ELSE 1

StepHsync == hs' = IF HSyncFirst <= hc + 1 /\ hc + 1 < HSyncEnd THEN 0 ELSE 1

\* Mutant: the pulse goes on until the end of the frame.
VsyncLong == vs' = IF vc + 1 >= VSyncFirst THEN 0 ELSE 1

StepVsync == vs' = IF vc + 1 \in {VSyncFirst, VSyncFirst + 1} THEN 0 ELSE 1

\* Mutant: the pixel counter does not wrap.
CountPastEnd ==
  IF hc = HPixels + 1
  THEN hc' = 0 /\ vc' = IF vc = VLines THEN 0 ELSE vc + 1
  ELSE hc' = hc + 1 /\ vc' = vc

Count ==
  IF hc = HPixels
  THEN hc' = 0 /\ vc' = IF vc = VLines THEN 0 ELSE vc + 1
  ELSE hc' = hc + 1 /\ vc' = vc

Clock == Count /\ StepHsync /\ StepVsync

Reset == hc' = 0 /\ vc' = 0 /\ hs' = 0 /\ vs' = 0

Next == Clock \/ Reset

Spec == Init /\ [][Next]_vars
-----------------------------------------------------------------------------
(* Properties. *)

\* Reset has just been released; both outputs are low until the next pixel.
Fresh == hc = 0 /\ vc = 0

\* Despite the register the horizontal pulse lies exactly on the pixels the
\* comment names, 656 up to 752 (VGA_controller.sv:77-88).
HsyncAligned ==
  ~Fresh => (hs = 0 <=> HSyncFirst <= hc /\ hc < HSyncEnd)

\* No pixel of the picture is shown within a sync pulse, although each pulse is
\* decided on the pixel or the line before, over the ends of line and frame: the
\* picture is never cut (VGA_controller.sv:77-113).
SyncsAreBlanked == [][Clock => (display' => hs' = 1 /\ vs' = 1)]_vars

-----------------------------------------------------------------------------
(* What the comment says and the code does not keep. *)

\* VGA_controller.sv:90: "vertical sync pulse is 2 lines(800 pixels) long at
\* line 490-491".  The first pixel of a line is left to the register.
VsyncAtLines == hc > 0 => (vs = 0 <=> vc \in {VSyncFirst, VSyncFirst + 1})
=============================================================================
