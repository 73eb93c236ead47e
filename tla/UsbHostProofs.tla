--------------------------- MODULE UsbHostProofs ---------------------------
(***************************************************************************)
(* Theorems about UsbHost, for every number of addresses, every clock and  *)
(* every set of devices.                                                   *)
(***************************************************************************)
EXTENDS UsbHost, WellFoundedInduction, TLAPS

\* The states a device that was running can be found in until main notices.
Early == {INITIALIZE, 2, WAIT_FOR_DEVICE, ILLEGAL, 5, ATTACHED, SETTLE, RESET_DEVICE}

\* What main remembers of the device that was running or has failed.
FlagInv ==
  /\ runningdebugflag => usb_task_state \in Early \cup {RUNNING} /\ ~errorflag
  /\ errorflag => usb_task_state \in Early \cup {ERROR}
  /\ pc = "max" /\ runningdebugflag => usb_task_state = RUNNING
  /\ pc = "max" /\ usb_task_state = RUNNING => runningdebugflag
  /\ pc \in {"ack", "usb"} /\ (runningdebugflag \/ errorflag) => usb_task_state # RESET_DEVICE
  /\ pc = "max" /\ errorflag => usb_task_state = ERROR

\* The chip and the table are initialised again before any pass.
BootInv ==
  /\ pc \in {"boot", "bootAck"} => usb_task_state \in Early /\ ~runningdebugflag
  /\ pc \notin {"boot", "bootAck"} => (led9 <=> runningdebugflag)

\* Entry i is the last that is taken.
LastTaken(i) == i \in Slots /\ epinfo[i] # "NULL" /\ \A j \in Slots : i < j => epinfo[j] = "NULL"

\* Entries are taken in order; the one that is configured, and the one of a
\* running device, is the last.
TableInv ==
  /\ pc \notin {"boot", "bootAck"} => epinfo[0] = "dev0ep"
  /\ \A i, j \in Slots : i < j /\ epinfo[i] = "NULL" => epinfo[j] = "NULL"
  /\ usb_task_state = CONFIGURING => LastTaken(tmp_addr)
  /\ usb_task_state = RUNNING =>
       /\ LastTaken(hid_addr) /\ epinfo[hid_addr] = "hid_ep" /\ devclass[hid_addr] # 0
       /\ runningdebugflag => device = devclass[hid_addr]

\* The inductive invariant.
IInv == TypeOK /\ FlagInv /\ BootInv /\ TableInv /\ TracksBus

-----------------------------------------------------------------------------
(* Facts about the constants and the helpers. *)

\* The constants, one by one.
LEMMA Sizes ==
  /\ MaxMs \in Nat /\ 0 < MaxMs /\ SettleMs \in Nat /\ 0 < SettleMs /\ LoopMs \in Nat /\ 0 < LoopMs
  /\ NumDevices \in Nat /\ 2 <= NumDevices
  /\ \A k \in Kinds : k.speed \in {"full", "low", "none"} /\ k.class \in {"keyboard", "mouse", "other"}
  /\ NoDevice \notin Kinds
  BY SizesAssumption, KindsAssumption

USE Sizes

\* A non-empty set of numbers has a least element.
LEMMA LeastExists ==
  ASSUME NEW S \in SUBSET Nat, S # {}
  PROVE  \E i \in S : \A j \in S : i <= j
<1>1. IsWellFoundedOn(OpToRel(<, Nat), Nat)
  BY NatLessThanWellFounded, Zenon
<1> DEFINE R == {ss \in Nat \X Nat : ss[1] < ss[2]}
<1>2. IsWellFoundedOn(R, Nat)
  BY <1>1, Zenon DEF OpToRel
<1> HIDE DEF R
<1>3. PICK x \in S : \A y \in S : ~ (<<y, x>> \in R)
  BY <1>2, WFMin
<1>4. ASSUME NEW j \in S PROVE x <= j
  <2>1. <<j, x>> \in Nat \X Nat
    OBVIOUS
  <2>2. j < x => <<j, x>> \in R
    BY <2>1 DEF R
  <2> QED
    BY <1>3, <2>2
<1> QED
  BY <1>4

\* An entry that is free, and none before it is.
LEMMA FirstFreeIsFree ==
  ASSUME free # {}
  PROVE  /\ FirstFree \in Slots /\ epinfo[FirstFree] = "NULL"
         /\ \A j \in Slots : epinfo[j] = "NULL" => FirstFree <= j
<1>1. free \in SUBSET Nat
  BY DEF free, Slots
<1>2. \E i \in free : \A j \in free : i <= j
  BY <1>1, LeastExists
<1>3. FirstFree \in free /\ \A j \in free : FirstFree <= j
  BY <1>2, Zenon DEF FirstFree
<1> QED
  BY <1>3 DEF free

\* The class main notes is that of the last entry that is taken.
LEMMA LastClassIs ==
  ASSUME NEW i, LastTaken(i)
  PROVE  lastClass = devclass[i]
<1>1. used # {} /\ i \in used /\ used \subseteq Slots
  BY DEF LastTaken, used
<1>2. \A j \in used : j <= i
  BY DEF LastTaken, used, Slots
<1>3. \A k \in used : (\A j \in used : j <= k) => k = i
  BY <1>1, <1>2 DEF Slots
<1>4. (CHOOSE k \in used : \A j \in used : j <= k) = i
  BY <1>1, <1>2, <1>3, Zenon
<1> QED
  BY <1>1, <1>4 DEF lastClass

-----------------------------------------------------------------------------
(* Type correctness. *)

\* The values of usb_task_state are plain numbers.
USE DEF INITIALIZE, WAIT_FOR_DEVICE, ILLEGAL, ATTACHED, SETTLE, RESET_DEVICE, WAIT_RESET_COMPLETE,
        WAIT_SOF, GET_DESCRIPTOR_SIZE, ADDRESSING, CONFIGURING, RUNNING, ERROR

\* An empty table.
LEMMA InitTableType ==
  ASSUME USB_init
  PROVE  /\ epinfo' \in [0 .. NumDevices -> {"NULL", "dev0ep", "hid_ep"}]
         /\ devclass' \in [0 .. NumDevices -> {0, HID_K, HID_M}]
         /\ epinfo'[0] = "dev0ep" /\ \A i \in Slots : epinfo'[i] = "NULL"
  BY DEF USB_init, Slots

\* Where a look at the bus leads.
LEMMA ProbeType ==
  ASSUME TypeOK, NEW low \in BOOLEAN
  PROVE  /\ probedState(low) \in {INITIALIZE, WAIT_FOR_DEVICE, ILLEGAL, ATTACHED, WAIT_RESET_COMPLETE}
         /\ probedState(low) = WAIT_RESET_COMPLETE => usb_task_state = WAIT_RESET_COMPLETE
         /\ probedSpeed(low) \in BOOLEAN
<1>1. probedSpeed(low) \in BOOLEAN
  BY Zenon DEF probedSpeed
<1>2. ignored(low) => usb_task_state = WAIT_RESET_COMPLETE
  BY Zenon DEF ignored
<1> QED
  BY <1>1, <1>2 DEF probedState

\* Where the interrupt handler leads, a waiting bus event included.
LEMMA HandlerStates ==
  ASSUME TypeOK, MaxIntHandler
  PROVE  /\ usb_task_state' \in {1, 2, 3, 4, 5, 16, 17, 19, 20}
         /\ usb_task_state' \in {19, 20} => usb_task_state = WAIT_RESET_COMPLETE
<1>1. LOWSPEED \in BOOLEAN
  BY DEF TypeOK
<1>2. usb_task_state' = (probedState(LOWSPEED) + 1) % 256 \/ usb_task_state' = probedState(LOWSPEED)
  BY Zenon DEF MaxIntHandler
<1> QED
  BY <1>1, <1>2, ProbeType

\* Every step keeps the types.
LEMMA TypeStep == ASSUME TypeOK, TableInv, Next PROVE TypeOK'
<1> USE DEF TypeOK, taskVars, tableVars, mainVars, chipVars, busVars, timeVars
<1>1. ASSUME Initialize PROVE TypeOK'
  <2>1. usb_task_state' \in States
    BY <1>1 DEF Initialize, States
  <2> QED
    BY <2>1, <1>1, InitTableType DEF Initialize, taskStep
<1>2. ASSUME StartSettle PROVE TypeOK'
  BY <1>2 DEF StartSettle, taskStep, States, Attaching
<1>3. ASSUME Settle PROVE TypeOK'
  BY <1>3 DEF Settle, taskStep, States, Attaching
<1>4. ASSUME ResetDevice PROVE TypeOK'
  <2>1. usb_task_state' \in States
    BY <1>4 DEF ResetDevice, States, Attaching
  <2>2. BUSEVENTIRQ' \in BOOLEAN /\ BUSRST' \in BOOLEAN
    BY <1>4, Zenon DEF ResetDevice
  <2> QED
    BY <2>1, <2>2, <1>4 DEF ResetDevice, taskStep
<1>5. ASSUME WaitReset PROVE TypeOK'
  BY <1>5 DEF WaitReset, taskStep, States, Attaching
<1>6. ASSUME WaitSof PROVE TypeOK'
  BY <1>6 DEF WaitSof, taskStep, States, Attaching
<1>7. ASSUME GetDescriptor PROVE TypeOK'
  BY <1>7 DEF GetDescriptor, taskStep, States, Attaching
<1>8. ASSUME Address PROVE TypeOK'
  <2>1. FirstFree \in Slots
    BY <1>8, FirstFreeIsFree, Zenon DEF Address
  <2>2. FirstFree \in 0 .. NumDevices - 1
    BY <2>1 DEF Slots
  <2>3. usb_task_state' \in States
    BY <1>8 DEF Address, States
  <2>4. tmp_addr' \in 0 .. NumDevices - 1 /\ devAddr' \in 0 .. NumDevices - 1
    BY <1>8, <2>2 DEF Address
  <2>5. epinfo' \in [0 .. NumDevices -> {"NULL", "dev0ep", "hid_ep"}]
    BY <1>8, <2>2 DEF Address
  <2> QED
    BY <2>3, <2>4, <2>5, <1>8 DEF Address, taskStep
<1>9. ASSUME NoAddress PROVE TypeOK'
  BY <1>9 DEF NoAddress, taskStep, States, Attaching
<1>10. ASSUME Configure PROVE TypeOK'
  <2>1. usb_task_state' \in States
    BY <1>10 DEF Configure, States
  <2>2. hid_addr' \in 0 .. NumDevices - 1
    BY <1>10 DEF Configure, SetHid
  <2>3. /\ epinfo' \in [0 .. NumDevices -> {"NULL", "dev0ep", "hid_ep"}]
        /\ devclass' \in [0 .. NumDevices -> {0, HID_K, HID_M}]
    BY <1>10 DEF Configure, SetHid
  <2> QED
    BY <2>1, <2>2, <2>3, <1>10 DEF Configure, taskStep
<1>11. ASSUME Rest PROVE TypeOK'
  BY <1>11 DEF Rest, taskStep
<1>12. ASSUME FirstPass PROVE TypeOK'
  <2>1. lastClass = devclass[hid_addr]
    BY <1>12, LastClassIs, Zenon DEF FirstPass, TableInv
  <2>2. runningdebugflag' \in BOOLEAN /\ errorflag' \in BOOLEAN /\ led9' \in BOOLEAN
    BY <1>12, Zenon DEF FirstPass
  <2>3. device' \in {0, HID_K, HID_M, 255}
    BY <1>12, <2>1 DEF FirstPass
  <2> QED
    BY <2>2, <2>3, <1>12 DEF FirstPass, mainStep
<1>13. ASSUME Poll PROVE TypeOK'
  BY <1>13 DEF Poll, mainStep
<1>14. ASSUME InError PROVE TypeOK'
  BY <1>14 DEF InError, mainStep
<1>15. ASSUME NotRunning PROVE TypeOK'
  <2>1. runningdebugflag' \in BOOLEAN /\ errorflag' \in BOOLEAN /\ led9' \in BOOLEAN
    <3>1. CASE runningdebugflag
      <4>1. runningdebugflag' = FALSE /\ errorflag' = errorflag /\ led9' = led9
        BY <1>15, <3>1 DEF NotRunning
      <4> QED
        BY <4>1, Zenon
    <3>2. CASE ~runningdebugflag
      BY <1>15, <3>2, Zenon DEF NotRunning
    <3> QED
      BY <3>1, <3>2
  <2>2. pc' \in {"boot", "max"}
    BY <1>15 DEF NotRunning
  <2> QED
    BY <2>1, <2>2, <1>15 DEF NotRunning, mainStep
<1>16. ASSUME MaxIntHandler PROVE TypeOK'
  <2>1. usb_task_state' \in States
    BY <1>16, HandlerStates DEF States, Attaching
  <2>2. LOWSPEED' \in BOOLEAN /\ seen' \in BOOLEAN /\ sendback' \in BOOLEAN
    BY <1>16, ProbeType, Zenon DEF MaxIntHandler, MAX_busprobe
  <2> QED
    BY <2>1, <2>2, <1>16 DEF MaxIntHandler
<1>17. ASSUME NoInterrupt PROVE TypeOK'
  BY <1>17 DEF NoInterrupt
<1>18. ASSUME Acknowledge PROVE TypeOK'
  <2>1. CONDETIRQ' \in BOOLEAN /\ BUSEVENTIRQ' \in BOOLEAN /\ sendback' \in BOOLEAN
    BY <1>18, Zenon DEF Acknowledge
  <2> QED
    BY <2>1, <1>18 DEF Acknowledge
<1>19. ASSUME InitChip PROVE TypeOK'
  <2> DEFINE st == probedState(FALSE)
  <2>1. st \in {INITIALIZE, WAIT_FOR_DEVICE, ILLEGAL, ATTACHED, WAIT_RESET_COMPLETE}
    BY ProbeType, Zenon
  <2>2. usb_task_state' = st
    BY <1>19 DEF InitChip
  <2> HIDE DEF st
  <2>3. usb_task_state' \in States
    BY <2>1, <2>2 DEF States, Attaching
  <2>4. LOWSPEED' \in BOOLEAN /\ seen' \in BOOLEAN /\ BUSRST' \in BOOLEAN /\ BUSEVENTIRQ' \in BOOLEAN
    BY <1>19, ProbeType, Zenon DEF InitChip, MAX_busprobe
  <2> QED
    BY <2>3, <2>4, <1>19 DEF InitChip
<1>20. ASSUME InitTable PROVE TypeOK'
  <2>1. CONDETIRQ' \in BOOLEAN /\ errorflag' \in BOOLEAN /\ led9' \in BOOLEAN
    BY <1>20, Zenon DEF InitTable
  <2> QED
    BY <2>1, <1>20, InitTableType DEF InitTable
<1>21. ASSUME Unplug PROVE TypeOK'
  <2>1. CONDETIRQ' \in BOOLEAN /\ seen' \in BOOLEAN
    BY <1>21, Zenon DEF Unplug
  <2> QED
    BY <2>1, <1>21 DEF Unplug
<1>22. ASSUME ResetDone PROVE TypeOK'
  <2>1. BUSRST' \in BOOLEAN /\ BUSEVENTIRQ' \in BOOLEAN /\ CONDETIRQ' \in BOOLEAN
    BY <1>22, Zenon DEF ResetDone
  <2> QED
    BY <2>1, <1>22 DEF ResetDone
<1>23. ASSUME Tick PROVE TypeOK'
  BY <1>23 DEF Tick
<1>24. ASSUME NEW k \in Kinds, Plug(k) PROVE TypeOK'
  <2>1. CONDETIRQ' \in BOOLEAN /\ seen' \in BOOLEAN
    BY <1>24, Zenon DEF Plug
  <2> QED
    BY <2>1, <1>24 DEF Plug
<1> QED
  BY <1>1, <1>2, <1>3, <1>4, <1>5, <1>6, <1>7, <1>8, <1>9, <1>10, <1>11, <1>12, <1>13, <1>14, <1>15, <1>16, <1>17, <1>18, <1>19, <1>20, <1>21, <1>22, <1>23, <1>24 DEF Next, Loop, World, USB_Task, Main

-----------------------------------------------------------------------------
(* The flags. *)

\* Every step keeps what the flags say.
LEMMA FlagStep == ASSUME TypeOK, FlagInv, BootInv, Next PROVE FlagInv' /\ BootInv'
<1> USE DEF FlagInv, BootInv, Early, taskVars, tableVars, mainVars, chipVars, busVars, timeVars
<1>1. ASSUME Initialize PROVE FlagInv' /\ BootInv'
  BY <1>1 DEF Initialize, taskStep, TypeOK
<1>2. ASSUME StartSettle PROVE FlagInv' /\ BootInv'
  BY <1>2 DEF StartSettle, taskStep, TypeOK
<1>3. ASSUME Settle PROVE FlagInv' /\ BootInv'
  BY <1>3 DEF Settle, taskStep, TypeOK
<1>4. ASSUME ResetDevice PROVE FlagInv' /\ BootInv'
  BY <1>4 DEF ResetDevice, taskStep, TypeOK
<1>5. ASSUME WaitReset PROVE FlagInv' /\ BootInv'
  BY <1>5 DEF WaitReset, taskStep, TypeOK
<1>6. ASSUME WaitSof PROVE FlagInv' /\ BootInv'
  BY <1>6 DEF WaitSof, taskStep, TypeOK
<1>7. ASSUME GetDescriptor PROVE FlagInv' /\ BootInv'
  BY <1>7 DEF GetDescriptor, taskStep, TypeOK
<1>8. ASSUME Address PROVE FlagInv' /\ BootInv'
  BY <1>8 DEF Address, taskStep, TypeOK
<1>9. ASSUME NoAddress PROVE FlagInv' /\ BootInv'
  BY <1>9 DEF NoAddress, taskStep, TypeOK
<1>10. ASSUME Configure PROVE FlagInv' /\ BootInv'
  BY <1>10 DEF Configure, taskStep, TypeOK
<1>11. ASSUME Rest PROVE FlagInv' /\ BootInv'
  BY <1>11 DEF Rest, taskStep, TypeOK
<1>12. ASSUME FirstPass PROVE FlagInv' /\ BootInv'
  BY <1>12 DEF FirstPass, mainStep, TypeOK
<1>13. ASSUME Poll PROVE FlagInv' /\ BootInv'
  BY <1>13 DEF Poll, mainStep, TypeOK
<1>14. ASSUME InError PROVE FlagInv' /\ BootInv'
  BY <1>14 DEF InError, mainStep, TypeOK
<1>15. ASSUME NotRunning PROVE FlagInv' /\ BootInv'
  BY <1>15 DEF NotRunning, mainStep, TypeOK
<1>16. ASSUME MaxIntHandler PROVE FlagInv' /\ BootInv'
  BY <1>16, HandlerStates DEF MaxIntHandler, TypeOK
<1>17. ASSUME NoInterrupt PROVE FlagInv' /\ BootInv'
  BY <1>17 DEF NoInterrupt, TypeOK
<1>18. ASSUME Acknowledge PROVE FlagInv' /\ BootInv'
  BY <1>18 DEF Acknowledge, TypeOK
<1>19. ASSUME InitTable PROVE FlagInv' /\ BootInv'
  BY <1>19 DEF InitTable, TypeOK
<1>20. ASSUME Unplug PROVE FlagInv' /\ BootInv'
  BY <1>20 DEF Unplug, TypeOK
<1>21. ASSUME ResetDone PROVE FlagInv' /\ BootInv'
  BY <1>21 DEF ResetDone, TypeOK
<1>22. ASSUME Tick PROVE FlagInv' /\ BootInv'
  BY <1>22 DEF Tick, TypeOK
<1>23. ASSUME InitChip PROVE FlagInv' /\ BootInv'
  <2> DEFINE st == probedState(FALSE)
  <2>1. st \in {INITIALIZE, WAIT_FOR_DEVICE, ILLEGAL, ATTACHED, WAIT_RESET_COMPLETE}
        /\ (st = WAIT_RESET_COMPLETE => usb_task_state = WAIT_RESET_COMPLETE)
    BY ProbeType, Zenon
  <2>2. usb_task_state' = st
    BY <1>23 DEF InitChip
  <2> HIDE DEF st
  <2>3. usb_task_state \in Early
    BY <1>23, Zenon DEF InitChip
  <2>4. usb_task_state' \in {1, 3, 4, 16}
    BY <2>1, <2>2, <2>3
  <2>5. /\ pc' = "bootAck" /\ runningdebugflag' = runningdebugflag
        /\ errorflag' = errorflag /\ led9' = led9 /\ ~runningdebugflag
    BY <1>23 DEF InitChip
  <2> QED
    BY <2>4, <2>5
<1>24. ASSUME NEW k \in Kinds, Plug(k) PROVE FlagInv' /\ BootInv'
  BY <1>24 DEF Plug, TypeOK
<1> QED
  BY <1>1, <1>2, <1>3, <1>4, <1>5, <1>6, <1>7, <1>8, <1>9, <1>10, <1>11, <1>12, <1>13, <1>14, <1>15, <1>16, <1>17, <1>18, <1>19, <1>20, <1>21, <1>22, <1>23, <1>24 DEF Next, Loop, World, USB_Task, Main

-----------------------------------------------------------------------------
(* The device table. *)

\* Every step keeps the order of the device table.
LEMMA TableStep == ASSUME TypeOK, FlagInv, BootInv, TableInv, Next PROVE TableInv'
<1> USE DEF TableInv, LastTaken, Slots, taskVars, tableVars, mainVars, chipVars, busVars, timeVars
<1>1. ASSUME StartSettle PROVE TableInv'
  BY <1>1 DEF StartSettle, taskStep, TypeOK
<1>2. ASSUME Settle PROVE TableInv'
  BY <1>2 DEF Settle, taskStep, TypeOK
<1>3. ASSUME ResetDevice PROVE TableInv'
  BY <1>3 DEF ResetDevice, taskStep, TypeOK
<1>4. ASSUME WaitReset PROVE TableInv'
  BY <1>4 DEF WaitReset, taskStep, TypeOK
<1>5. ASSUME WaitSof PROVE TableInv'
  BY <1>5 DEF WaitSof, taskStep, TypeOK
<1>6. ASSUME GetDescriptor PROVE TableInv'
  BY <1>6 DEF GetDescriptor, taskStep, TypeOK
<1>7. ASSUME NoAddress PROVE TableInv'
  BY <1>7 DEF NoAddress, taskStep, TypeOK
<1>8. ASSUME Rest PROVE TableInv'
  BY <1>8 DEF Rest, taskStep, TypeOK
<1>9. ASSUME Initialize PROVE TableInv'
  BY <1>9, InitTableType DEF Initialize, taskStep, TypeOK
<1>10. ASSUME Address PROVE TableInv'
  <2>1. /\ FirstFree \in Slots /\ epinfo[FirstFree] = "NULL"
        /\ \A j \in Slots : epinfo[j] = "NULL" => FirstFree <= j
    BY <1>10, FirstFreeIsFree, Zenon DEF Address
  <2>2. /\ epinfo[0] = "dev0ep" /\ pc' = "main"
        /\ epinfo' = [epinfo EXCEPT ![FirstFree] = epinfo[0]]
        /\ usb_task_state' \in {CONFIGURING, ERROR}
        /\ usb_task_state' = CONFIGURING => tmp_addr' = FirstFree
    BY <1>10 DEF Address, taskStep
  <2> DEFINE f == FirstFree
  <2>3. /\ f \in Slots /\ epinfo[f] = "NULL" /\ \A j \in Slots : epinfo[j] = "NULL" => f <= j
        /\ epinfo' = [epinfo EXCEPT ![f] = epinfo[0]] /\ (usb_task_state' = CONFIGURING => tmp_addr' = f)
    BY <2>1, <2>2
  <2> HIDE DEF f
  <2>4. epinfo'[0] = "dev0ep" /\ epinfo'[f] = "dev0ep" /\ \A j \in Slots : j # f => epinfo'[j] = epinfo[j]
    BY <2>2, <2>3 DEF TypeOK
  <2> QED
    BY <2>2, <2>3, <2>4
<1>11. ASSUME Configure PROVE TableInv'
  <2>1. CASE SetHid
    <3>1. /\ tmp_addr \in Slots /\ epinfo' = [epinfo EXCEPT ![tmp_addr] = "hid_ep"] /\ hid_addr' = tmp_addr
          /\ devclass'[tmp_addr] # 0
      BY <1>11, <2>1 DEF Configure, SetHid, TypeOK, HID_K, HID_M
    <3>2. pc' = "main" /\ pc = "usb" /\ usb_task_state' \in {RUNNING, ERROR} /\ ~runningdebugflag
          /\ runningdebugflag' = runningdebugflag /\ LastTaken(tmp_addr)
      BY <1>11 DEF Configure, taskStep, FlagInv, Early
    <3> QED
      BY <3>1, <3>2 DEF TypeOK
  <2>2. CASE UNCHANGED tableVars /\ usb_task_state' = ERROR
    BY <1>11, <2>2 DEF Configure, taskStep
  <2> QED
    BY <1>11, <2>1, <2>2 DEF Configure
<1>12. ASSUME FirstPass PROVE TableInv'
  <2>1. lastClass = devclass[hid_addr]
    BY <1>12, LastClassIs, Zenon DEF FirstPass
  <2> QED
    BY <1>12, <2>1 DEF FirstPass, mainStep, TypeOK
<1>13. ASSUME Poll PROVE TableInv'
  BY <1>13 DEF Poll, mainStep, TypeOK
<1>14. ASSUME InError PROVE TableInv'
  BY <1>14 DEF InError, mainStep, TypeOK
<1>15. ASSUME NotRunning PROVE TableInv'
  BY <1>15 DEF NotRunning, mainStep, TypeOK
<1>16. ASSUME MaxIntHandler PROVE TableInv'
  BY <1>16, HandlerStates DEF MaxIntHandler, TypeOK
<1>17. ASSUME InitChip PROVE TableInv'
  <2>1. pc' = "bootAck" /\ usb_task_state' = probedState(FALSE) /\ UNCHANGED <<epinfo, devclass>>
    BY <1>17 DEF InitChip
  <2>2. usb_task_state \in Early
    BY <1>17, Zenon DEF InitChip, BootInv
  <2> DEFINE st == probedState(FALSE)
  <2>3. st \in {INITIALIZE, WAIT_FOR_DEVICE, ILLEGAL, ATTACHED, WAIT_RESET_COMPLETE}
    BY ProbeType, Zenon
  <2>4. usb_task_state' = st
    BY <1>17 DEF InitChip
  <2> HIDE DEF st
  <2>5. usb_task_state' # CONFIGURING /\ usb_task_state' # RUNNING
    BY <2>3, <2>4
  <2>6. \A i, j \in Slots : i < j /\ epinfo'[i] = "NULL" => epinfo'[j] = "NULL"
    BY <2>1
  <2> QED
    BY <2>1, <2>5, <2>6
<1>18. ASSUME InitTable PROVE TableInv'
  BY <1>18, InitTableType DEF InitTable, TypeOK, BootInv, Early
<1>19. ASSUME NoInterrupt PROVE TableInv'
  BY <1>19 DEF NoInterrupt, TypeOK
<1>20. ASSUME Acknowledge PROVE TableInv'
  BY <1>20 DEF Acknowledge, TypeOK
<1>21. ASSUME Unplug PROVE TableInv'
  BY <1>21 DEF Unplug, TypeOK
<1>22. ASSUME ResetDone PROVE TableInv'
  BY <1>22 DEF ResetDone, TypeOK
<1>23. ASSUME Tick PROVE TableInv'
  BY <1>23 DEF Tick, TypeOK
<1>24. ASSUME NEW k \in Kinds, Plug(k) PROVE TableInv'
  BY <1>24 DEF Plug, TypeOK
<1> QED
  BY <1>1, <1>2, <1>3, <1>4, <1>5, <1>6, <1>7, <1>8, <1>9, <1>10, <1>11, <1>12, <1>13, <1>14, <1>15, <1>16, <1>17, <1>18, <1>19, <1>20, <1>21, <1>22, <1>23, <1>24 DEF Next, Loop, World, USB_Task, Main

-----------------------------------------------------------------------------
(* What the task takes the bus for. *)

\* A device of the other speed shows as K, and no device looks the same at both.
LEMMA SampleIs ==
  ASSUME NEW low \in BOOLEAN
  PROVE  /\ busSample(low) \in {"SE0", "SE1", "J", "K"}
         /\ busSample(low) = "K" => busSample(~low) = "J"
         /\ busSample(low) \in {"SE0", "SE1"} => \A any \in BOOLEAN : busSample(any) = busSample(low)
<1>1. CASE dev = NoDevice
  BY <1>1, Zenon DEF busSample
<1>2. CASE dev # NoDevice /\ dev.speed = "none"
  BY <1>2, Zenon DEF busSample
<1>3. CASE dev # NoDevice /\ dev.speed # "none"
  <2>1. \A any \in BOOLEAN : busSample(any) = IF (dev.speed = "low") <=> any THEN "J" ELSE "K"
    BY <1>3, Zenon DEF busSample
  <2>2. "J" # "K" /\ "J" \notin {"SE0", "SE1"} /\ "K" \notin {"SE0", "SE1"}
    OBVIOUS
  <2>3. CASE low
    BY <2>1, <2>2, <2>3, Zenon
  <2>4. CASE ~low
    BY <2>1, <2>2, <2>4, Zenon
  <2> QED
    BY <2>3, <2>4
<1> QED
  BY <1>1, <1>2, <1>3

\* The bus looks the same, and the task is as detached as it was.
LEMMA SameBus ==
  ASSUME TracksBus, UNCHANGED <<dev, LOWSPEED>>, seen' => seen,
         Detached(usb_task_state)' <=> Detached(usb_task_state)
  PROVE  TracksBus'
<1>1. busSample(LOWSPEED)' = busSample(LOWSPEED)
  BY DEF busSample
<1> QED
  BY <1>1, Zenon DEF TracksBus

\* The task and the chip are as a probe of the bus leaves them.
LEMMA ProbedTracks ==
  ASSUME TypeOK, NEW low \in BOOLEAN, ~ignored(low), dev' = dev, LOWSPEED' = probedSpeed(low),
         Detached(usb_task_state)' <=> Detached(probedState(low))
  PROVE  TracksBus'
<1>1. probedSpeed(low) \in BOOLEAN
  BY ProbeType
<1>2. busSample(LOWSPEED)' = busSample(probedSpeed(low))
  BY DEF busSample
<1>3. CASE busSample(low) \in {"J", "K"}
  <2>1. probedState(low) = ATTACHED
    BY <1>3, Zenon DEF probedState
  <2>2. ~Detached(usb_task_state)'
    BY <2>1 DEF Detached
  <2>3. busSample(probedSpeed(low)) = "J"
    <3>1. CASE busSample(low) = "K"
      <4>1. probedSpeed(low) = ~low
        BY <3>1, Zenon DEF probedSpeed
      <4> QED
        BY <4>1, <3>1, SampleIs
    <3>2. CASE busSample(low) = "J"
      <4>1. "J" # "K" /\ "J" # "SE0"
        OBVIOUS
      <4>2. probedSpeed(low) = low
        BY <3>2, <4>1, Zenon DEF probedSpeed
      <4> QED
        BY <4>2, <3>2, Zenon
    <3> QED
      BY <3>1, <3>2, <1>3
  <2>4. "J" \notin {"SE0", "SE1"}
    OBVIOUS
  <2> QED
    BY <1>2, <2>2, <2>3, <2>4, Zenon DEF TracksBus
<1>4. CASE busSample(low) \in {"SE0", "SE1"}
  <2>1. probedState(low) \in {INITIALIZE, WAIT_FOR_DEVICE, ILLEGAL}
    <3>1. busSample(low) \notin {"J", "K"}
      BY <1>4
    <3> QED
      BY <3>1, Zenon DEF probedState
  <2>2. Detached(usb_task_state)'
    <3>1. Detached(INITIALIZE) /\ Detached(WAIT_FOR_DEVICE) /\ Detached(ILLEGAL)
      BY DEF Detached
    <3> QED
      BY <2>1, <3>1, Zenon
  <2>3. busSample(probedSpeed(low)) \in {"SE0", "SE1"}
    BY <1>1, <1>4, SampleIs, Zenon
  <2> QED
    BY <1>2, <2>2, <2>3, Zenon DEF TracksBus
<1> QED
  BY <1>3, <1>4, SampleIs

\* Every step keeps the task in line with the bus.
LEMMA TracksStep == ASSUME TypeOK, BootInv, TracksBus, Next PROVE TracksBus'
<1> USE DEF taskVars, tableVars, mainVars, chipVars, busVars, timeVars
<1>1. ASSUME Initialize PROVE TracksBus'
  <2>1. Detached(usb_task_state)' <=> Detached(usb_task_state)
    BY <1>1 DEF Initialize, taskStep, Detached
  <2>2. UNCHANGED <<dev, LOWSPEED, seen>>
    BY <1>1 DEF Initialize, taskStep
  <2> QED
    BY <2>1, <2>2, SameBus
<1>2. ASSUME StartSettle PROVE TracksBus'
  <2>1. Detached(usb_task_state)' <=> Detached(usb_task_state)
    BY <1>2 DEF StartSettle, taskStep, Detached
  <2>2. UNCHANGED <<dev, LOWSPEED, seen>>
    BY <1>2 DEF StartSettle, taskStep
  <2> QED
    BY <2>1, <2>2, SameBus
<1>3. ASSUME Settle PROVE TracksBus'
  <2>1. Detached(usb_task_state)' <=> Detached(usb_task_state)
    BY <1>3 DEF Settle, taskStep, Detached
  <2>2. UNCHANGED <<dev, LOWSPEED, seen>>
    BY <1>3 DEF Settle, taskStep
  <2> QED
    BY <2>1, <2>2, SameBus
<1>4. ASSUME ResetDevice PROVE TracksBus'
  <2>1. Detached(usb_task_state)' <=> Detached(usb_task_state)
    BY <1>4 DEF ResetDevice, taskStep, Detached
  <2>2. UNCHANGED <<dev, LOWSPEED, seen>>
    BY <1>4 DEF ResetDevice, taskStep
  <2> QED
    BY <2>1, <2>2, SameBus
<1>5. ASSUME WaitReset PROVE TracksBus'
  <2>1. Detached(usb_task_state)' <=> Detached(usb_task_state)
    BY <1>5 DEF WaitReset, taskStep, Detached
  <2>2. UNCHANGED <<dev, LOWSPEED, seen>>
    BY <1>5 DEF WaitReset, taskStep
  <2> QED
    BY <2>1, <2>2, SameBus
<1>6. ASSUME WaitSof PROVE TracksBus'
  <2>1. Detached(usb_task_state)' <=> Detached(usb_task_state)
    BY <1>6 DEF WaitSof, taskStep, Detached
  <2>2. UNCHANGED <<dev, LOWSPEED, seen>>
    BY <1>6 DEF WaitSof, taskStep
  <2> QED
    BY <2>1, <2>2, SameBus
<1>7. ASSUME GetDescriptor PROVE TracksBus'
  <2>1. Detached(usb_task_state)' <=> Detached(usb_task_state)
    BY <1>7 DEF GetDescriptor, taskStep, Detached
  <2>2. UNCHANGED <<dev, LOWSPEED, seen>>
    BY <1>7 DEF GetDescriptor, taskStep
  <2> QED
    BY <2>1, <2>2, SameBus
<1>8. ASSUME Address PROVE TracksBus'
  <2>1. Detached(usb_task_state)' <=> Detached(usb_task_state)
    BY <1>8 DEF Address, taskStep, Detached
  <2>2. UNCHANGED <<dev, LOWSPEED, seen>>
    BY <1>8 DEF Address, taskStep
  <2> QED
    BY <2>1, <2>2, SameBus
<1>9. ASSUME NoAddress PROVE TracksBus'
  <2>1. Detached(usb_task_state)' <=> Detached(usb_task_state)
    BY <1>9 DEF NoAddress, taskStep, Detached
  <2>2. UNCHANGED <<dev, LOWSPEED, seen>>
    BY <1>9 DEF NoAddress, taskStep
  <2> QED
    BY <2>1, <2>2, SameBus
<1>10. ASSUME Configure PROVE TracksBus'
  <2>1. Detached(usb_task_state)' <=> Detached(usb_task_state)
    BY <1>10 DEF Configure, taskStep, Detached
  <2>2. UNCHANGED <<dev, LOWSPEED, seen>>
    BY <1>10 DEF Configure, taskStep
  <2> QED
    BY <2>1, <2>2, SameBus
<1>11. ASSUME Rest PROVE TracksBus'
  <2>1. Detached(usb_task_state)' <=> Detached(usb_task_state)
    BY <1>11 DEF Rest, taskStep, Detached
  <2>2. UNCHANGED <<dev, LOWSPEED, seen>>
    BY <1>11 DEF Rest, taskStep
  <2> QED
    BY <2>1, <2>2, SameBus
<1>12. ASSUME Main PROVE TracksBus'
  <2>1. UNCHANGED <<dev, LOWSPEED, seen, usb_task_state>>
    BY <1>12 DEF Main, FirstPass, Poll, InError, NotRunning, mainStep
  <2> QED
    BY <2>1, SameBus
<1>13. ASSUME MaxIntHandler PROVE TracksBus'
  <2>1. LOWSPEED \in BOOLEAN /\ BUSEVENTIRQ \in BOOLEAN
    BY DEF TypeOK
  <2>2. /\ LOWSPEED' = probedSpeed(LOWSPEED) /\ dev' = dev
        /\ seen' = (seen \/ ~ignored(LOWSPEED))
    BY <1>13 DEF MaxIntHandler, MAX_busprobe
  <2>3. CASE ignored(LOWSPEED)
    <3>1. /\ LOWSPEED' = LOWSPEED /\ usb_task_state = WAIT_RESET_COMPLETE
          /\ probedState(LOWSPEED) = WAIT_RESET_COMPLETE
      <4>1. usb_task_state = WAIT_RESET_COMPLETE /\ busSample(LOWSPEED) \in {"J", "K"}
        BY <2>3, Zenon DEF ignored
      <4>2. probedState(LOWSPEED) = WAIT_RESET_COMPLETE
        BY <2>3, <4>1, Zenon DEF probedState
      <4>3. busSample(LOWSPEED) # "SE0"
        BY <4>1
      <4>4. probedSpeed(LOWSPEED) = LOWSPEED
        BY <2>1, <2>3, <4>3, Zenon DEF probedSpeed
      <4> QED
        BY <2>2, <4>1, <4>2, <4>4
    <3>2. Detached(usb_task_state)' <=> Detached(usb_task_state)
      BY <1>13, <3>1 DEF MaxIntHandler, Detached
    <3>3. seen' => seen
      BY <2>2, <2>3, Zenon
    <3> QED
      BY <2>2, <3>1, <3>2, <3>3, SameBus
  <2>4. CASE ~ignored(LOWSPEED)
    <3>1. Detached(usb_task_state)' <=> Detached(probedState(LOWSPEED))
      BY <1>13, <2>1, ProbeType DEF MaxIntHandler, Detached
    <3> QED
      BY <2>1, <2>2, <2>4, <3>1, ProbedTracks
  <2> QED
    BY <2>3, <2>4
<1>14. ASSUME InitChip PROVE TracksBus'
  <2>1. usb_task_state \in Early
    BY <1>14, Zenon DEF InitChip, BootInv
  <2>2. ~ignored(FALSE)
    <3>1. usb_task_state # WAIT_RESET_COMPLETE
      BY <2>1 DEF Early
    <3> QED
      BY <3>1, Zenon DEF ignored
  <2>3. FALSE \in BOOLEAN /\ LOWSPEED' = probedSpeed(FALSE) /\ dev' = dev /\ usb_task_state' = probedState(FALSE)
    BY <1>14 DEF InitChip, MAX_busprobe
  <2>4. Detached(usb_task_state)' <=> Detached(probedState(FALSE))
    BY <2>3 DEF Detached
  <2> QED
    BY <2>2, <2>3, <2>4, ProbedTracks
<1>15. ASSUME InitTable PROVE TracksBus'
  <2>1. UNCHANGED <<dev, LOWSPEED, seen, usb_task_state>>
    BY <1>15 DEF InitTable
  <2> QED
    BY <2>1, SameBus
<1>16. ASSUME NoInterrupt PROVE TracksBus'
  <2>1. UNCHANGED <<dev, LOWSPEED, seen, usb_task_state>>
    BY <1>16 DEF NoInterrupt
  <2> QED
    BY <2>1, SameBus
<1>17. ASSUME Acknowledge PROVE TracksBus'
  <2>1. UNCHANGED <<dev, LOWSPEED, seen, usb_task_state>>
    BY <1>17 DEF Acknowledge
  <2> QED
    BY <2>1, SameBus
<1>18. ASSUME ResetDone PROVE TracksBus'
  <2>1. UNCHANGED <<dev, LOWSPEED, seen, usb_task_state>>
    BY <1>18 DEF ResetDone
  <2> QED
    BY <2>1, SameBus
<1>19. ASSUME Tick PROVE TracksBus'
  <2>1. UNCHANGED <<dev, LOWSPEED, seen, usb_task_state>>
    BY <1>19 DEF Tick
  <2> QED
    BY <2>1, SameBus
<1>20. ASSUME Unplug PROVE TracksBus'
  BY <1>20, Zenon DEF Unplug, TracksBus
<1>21. ASSUME NEW k \in Kinds, Plug(k) PROVE TracksBus'
  BY <1>21, Zenon DEF Plug, TracksBus
<1> QED
  BY <1>1, <1>2, <1>3, <1>4, <1>5, <1>6, <1>7, <1>8, <1>9, <1>10, <1>11, <1>12, <1>13, <1>14, <1>15, <1>16, <1>17, <1>18, <1>19, <1>20, <1>21 DEF Next, Loop, World, USB_Task

-----------------------------------------------------------------------------
(* The theorems. *)

\* The invariant holds after power-on ...
LEMMA InitIInv == ASSUME Init PROVE IInv
<1>1. /\ runningdebugflag = FALSE /\ errorflag = FALSE /\ led9 = FALSE /\ seen = FALSE
      /\ sendback = FALSE /\ CONDETIRQ = FALSE /\ BUSEVENTIRQ = FALSE /\ BUSRST = FALSE /\ LOWSPEED = FALSE
  BY DEF Init
<1>2. /\ runningdebugflag \in BOOLEAN /\ errorflag \in BOOLEAN /\ led9 \in BOOLEAN /\ sendback \in BOOLEAN
      /\ CONDETIRQ \in BOOLEAN /\ BUSEVENTIRQ \in BOOLEAN /\ BUSRST \in BOOLEAN
      /\ LOWSPEED \in BOOLEAN /\ seen \in BOOLEAN
  BY <1>1, Zenon
<1>3. TypeOK
  BY <1>2 DEF Init, TypeOK, States
<1>4. FlagInv /\ BootInv
  BY <1>1 DEF Init, FlagInv, BootInv, Early
<1>5. TableInv
  BY DEF Init, TableInv, Slots
<1>6. TracksBus
  BY <1>1, Zenon DEF TracksBus
<1> QED
  BY <1>3, <1>4, <1>5, <1>6 DEF IInv

\* ... and every step keeps it.
LEMMA NextIInv == ASSUME IInv, [Next]_vars PROVE IInv'
<1>1. CASE Next
  BY <1>1, TypeStep, FlagStep, TableStep, TracksStep DEF IInv
<1>2. CASE UNCHANGED vars
  <2> USE <1>2 DEF vars, taskVars, tableVars, mainVars, chipVars, busVars, timeVars
  <2>1. TypeOK'
    BY DEF IInv, TypeOK
  <2>2. FlagInv' /\ BootInv'
    BY DEF IInv, FlagInv, BootInv
  <2>3. TableInv'
    BY DEF IInv, TableInv, LastTaken
  <2>4. TracksBus'
    BY SameBus DEF IInv
  <2> QED
    BY <2>1, <2>2, <2>3, <2>4 DEF IInv
<1> QED
  BY <1>1, <1>2

\* The invariant the theorems follow from: what main remembers of a device fits the
\* state of the task, entries are taken in order, and the task tracks the bus.
THEOREM Invariance == Spec => []IInv
  BY InitIInv, NextIInv, PTL DEF Spec

\* The program's variables keep their types: no bus event ever takes the task to
\* a state USB_Task does not know of, and an entry is only taken if one is free.
THEOREM TypeCorrect == Spec => []TypeOK
  BY Invariance, PTL DEF IInv

\* As long as no change was missed, the task and the speed of the chip agree
\* with what is plugged in.
THEOREM TracksBusHolds == Spec => []TracksBus
  BY Invariance, PTL DEF IInv

\* Entry 1 and the entry that is polled are there and of the class noted.
THEOREM EntriesHold == Spec => []EntriesAreThere
<1>1. IInv => EntriesAreThere
  <2> SUFFICES ASSUME IInv, pc = "main", usb_task_state = RUNNING
               PROVE  /\ epinfo[1] # "NULL"
                      /\ runningdebugflag => /\ epinfo[hid_addr] = "hid_ep" /\ hid_addr # 0
                                             /\ device = devclass[hid_addr] /\ device # 0
    BY DEF EntriesAreThere
  <2>1. LastTaken(hid_addr) /\ epinfo[hid_addr] = "hid_ep" /\ devclass[hid_addr] # 0
    BY DEF IInv, TableInv
  <2>2. epinfo[1] # "NULL"
    BY <2>1 DEF IInv, TableInv, LastTaken, Slots
  <2>3. runningdebugflag => device = devclass[hid_addr]
    BY DEF IInv, TableInv
  <2> QED
    BY <2>1, <2>2, <2>3 DEF LastTaken, Slots
<1> QED
  BY <1>1, Invariance, PTL

\* Between two passes the LED shows whether a device is running.
THEOREM LedHolds == Spec => []LedIsRunning
<1>1. IInv => LedIsRunning
  BY DEF IInv, FlagInv, BootInv, LedIsRunning
<1> QED
  BY <1>1, Invariance, PTL

\* Each device that gets to RUNNING is asked for its class anew.
THEOREM EachReported == Spec => EachIsReported
<1>1. ASSUME IInv, [Next]_vars
      PROVE  [usb_task_state' = RUNNING /\ usb_task_state # RUNNING => ~runningdebugflag']_vars
  <2>1. SUFFICES ASSUME Next, usb_task_state' = RUNNING, usb_task_state # RUNNING PROVE ~runningdebugflag'
    BY <1>1
  <2> USE DEF taskVars, tableVars, mainVars, chipVars, busVars, timeVars
  <2>2. CASE USB_Task
    <3>1. Configure
      BY <2>1, <2>2 DEF USB_Task, Initialize, StartSettle, Settle, ResetDevice, WaitReset, WaitSof,
                        GetDescriptor, Address, NoAddress, Rest
    <3> QED
      BY <1>1, <3>1 DEF Configure, taskStep, IInv, FlagInv, Early
  <2>3. CASE MaxIntHandler
    BY <1>1, <2>1, <2>3, HandlerStates DEF IInv
  <2>4. CASE InitChip
    <3> DEFINE st == probedState(FALSE)
    <3>1. st \in {INITIALIZE, WAIT_FOR_DEVICE, ILLEGAL, ATTACHED, WAIT_RESET_COMPLETE}
      BY <1>1, ProbeType, Zenon DEF IInv
    <3>2. usb_task_state' = st
      BY <2>4 DEF InitChip
    <3> HIDE DEF st
    <3> QED
      BY <2>1, <3>1, <3>2
  <2>5. CASE InitTable \/ NoInterrupt \/ Acknowledge
    BY <2>1, <2>5 DEF InitTable, NoInterrupt, Acknowledge
  <2>6. CASE Main
    BY <2>1, <2>6 DEF Main, FirstPass, Poll, InError, NotRunning, mainStep
  <2>7. CASE World
    BY <2>1, <2>7 DEF World, Plug, Unplug, ResetDone, Tick
  <2> QED
    BY <2>1, <2>2, <2>3, <2>4, <2>5, <2>6, <2>7 DEF Next, Loop
<1> QED
  BY <1>1, Invariance, PTL DEF Spec, EachIsReported
=============================================================================
