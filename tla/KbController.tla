---------------------------- MODULE KbController ----------------------------
(***************************************************************************)
(* From a keyboard report to the bits a game reads at $4016.  The Nios     *)
(* program (main.c) copies three key codes of a report into three parallel *)
(* ports, one after the other.  The controller adapter                     *)
(* (control_adapter.sv) turns them into eight buttons, loads these into a  *)
(* shift register while the CPU writes $4016, and shifts a bit out when    *)
(* the CPU begins to read it.                                              *)
(*                                                                         *)
(* The adapter runs on ram_clk, which ticks about twelve times in a cycle  *)
(* of the CPU; the model only says at least once.  The Nios program runs   *)
(* on a clock of its own.                                                  *)
(***************************************************************************)
EXTENDS Naturals

CONSTANTS
  Reports,  \* the reports of the keyboard: three key codes each
  NoKey     \* 0, no key

ASSUME ReportsAssumption ==
  /\ Reports \subseteq [1 .. 3 -> Nat] /\ NoKey \in Nat

VARIABLES
  report, old,   \* history: the report being copied, and the one before it
  copied,        \* how many of its key codes are in the ports
  keycode,       \* the three ports
  internal, DATA, SRP, \* the adapter: shift register, output, edge detector
  cycle,         \* the CPU's cycle: does it read or write $4016?
  ticked,        \* ram_clk has ticked in it
  snap,          \* history: the buttons when a write last loaded them
  reads          \* history: reads finished since then, up to 9

niosVars == <<report, old, copied, keycode>>
padVars  == <<internal, DATA, SRP>>
vars     == <<niosVars, padVars, cycle, ticked, snap, reads>>

Button == 0 .. 7
Blank  == [k \in 1 .. 3 |-> NoKey]

TypeOK ==
  /\ {report, old, keycode} \subseteq [1 .. 3 -> Nat] /\ copied \in 0 .. 3
  /\ internal \in [Button -> 0 .. 1] /\ DATA \in 0 .. 1 /\ SRP \in BOOLEAN
  /\ cycle \in {"other", "read", "write"} /\ ticked \in BOOLEAN
  /\ snap \in [Button -> 0 .. 1] /\ reads \in 0 .. 9

-----------------------------------------------------------------------------
(* The adapter. *)

\* G and H are A and B, T and Y Select and Start, then W, S, A and D: the key
\* code that presses each button.
active == [b \in Button |->
             CASE b = 7 -> 10 [] b = 6 -> 11 [] b = 5 -> 23 [] b = 4 -> 28
               [] b = 3 -> 26 [] b = 2 -> 22 [] b = 1 -> 4 [] b = 0 -> 7]

Buttons(kc) == [b \in Button |-> IF \E k \in 1 .. 3 : kc[k] = active[b] THEN 1 ELSE 0]

composite == Buttons(keycode)

\* Mutant: a bit is shifted out on every tick.
LevelShift == cycle = "read"

\* A read of $4016 shifts once, on the first tick of it.
shift_en == cycle = "read" /\ ~SRP

\* Mutant: two bits are put out.
TwoBits ==
  IF shift_en
  THEN /\ DATA' = 2 * internal[7] + internal[6]
       /\ internal' = [b \in Button |-> IF b = 0 THEN 1 ELSE internal[b - 1]]
  ELSE /\ internal' = IF cycle = "write" THEN composite ELSE internal
       /\ UNCHANGED DATA

ShiftOrLoad ==
  IF shift_en
  THEN /\ DATA' = internal[7]
       /\ internal' = [b \in Button |-> IF b = 0 THEN 1 ELSE internal[b - 1]]
  ELSE /\ internal' = IF cycle = "write" THEN composite ELSE internal
       /\ UNCHANGED DATA

RamTick ==
  /\ ShiftOrLoad
  /\ SRP' = (cycle = "read")
  /\ ticked' = TRUE
  /\ snap' = IF cycle = "write" THEN composite ELSE snap
  /\ UNCHANGED <<niosVars, cycle, reads>>

\* The CPU's next cycle.  Two reads or writes in a row belong to one
\* instruction; the adapter takes them for one.
NextCycle ==
  /\ ticked /\ ticked' = FALSE
  /\ cycle' \in {"other", "read", "write"}
  /\ reads' = CASE cycle = "write" -> 0
                [] cycle = "read" /\ cycle' # "read" /\ reads < 9 -> reads + 1
                [] OTHER -> reads
  /\ UNCHANGED <<niosVars, padVars, snap>>

-----------------------------------------------------------------------------
(* The Nios program. *)

\* A poll brings a report, once the last one has been copied.
Poll ==
  /\ copied = 3
  /\ report' \in Reports /\ old' = report /\ copied' = 0
  /\ UNCHANGED <<keycode, padVars, cycle, ticked, snap, reads>>

\* Mutant: the ports are cleared before the new codes are written.
ClearFirst ==
  /\ copied < 3 /\ copied' = copied + 1
  /\ keycode' = IF copied = 0 THEN [Blank EXCEPT ![1] = report[1]]
                ELSE [keycode EXCEPT ![copied + 1] = report[copied + 1]]
  /\ UNCHANGED <<report, old, padVars, cycle, ticked, snap, reads>>

\* Mutant: a code is added to what the port holds.
OrKeycode ==
  /\ copied < 3 /\ copied' = copied + 1
  /\ keycode' = [keycode EXCEPT ![copied + 1] =
                   IF report[copied + 1] = NoKey THEN @ ELSE report[copied + 1]]
  /\ UNCHANGED <<report, old, padVars, cycle, ticked, snap, reads>>

SetKeycode ==
  /\ copied < 3 /\ copied' = copied + 1
  /\ keycode' = [keycode EXCEPT ![copied + 1] = report[copied + 1]]
  /\ UNCHANGED <<report, old, padVars, cycle, ticked, snap, reads>>

Init ==
  /\ report = Blank /\ old = Blank /\ keycode = Blank /\ copied = 3
  /\ internal = [b \in Button |-> 0] /\ DATA = 0 /\ SRP = FALSE
  /\ cycle = "other" /\ ticked = FALSE
  /\ snap = [b \in Button |-> 0] /\ reads = 0

Next == RamTick \/ NextCycle \/ Poll \/ SetKeycode

Spec == Init /\ [][Next]_vars
-----------------------------------------------------------------------------
(* Properties. *)

\* When a read of $4016 ends, it has got the bit that is due: all eight are
\* the buttons at one and the same moment, the end of the strobe, in the order
\* A, B, Select, Start, up, down, left, right, then 1s, however long a cycle
\* is and whatever the keyboard does meanwhile (control_adapter.sv:32-40).
SerialBits ==
  cycle = "read" /\ ticked => DATA = IF reads < 8 THEN snap[7 - reads] ELSE 1

\* While a report is being copied over the one before, port by port, a strobe
\* sees no button that neither of them holds down (main.c:174-176).
NoPhantom ==
  [][cycle = "write" /\ RamTick =>
       \A b \in Button : internal'[b] = 1 =>
         Buttons(report)[b] = 1 \/ Buttons(old)[b] = 1]_vars

\* And it sees every button that is held down by the same entry of both.
HeldIsSeen ==
  [][cycle = "write" /\ RamTick =>
       \A b \in Button, k \in 1 .. 3 :
         report[k] = active[b] /\ old[k] = active[b] => internal'[b] = 1]_vars
=============================================================================
