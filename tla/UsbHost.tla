------------------------------ MODULE UsbHost ------------------------------
(***************************************************************************)
(* The USB host program: the main loop (main.c), the interrupt handler it  *)
(* polls (MAX3421E.c) and the task that attaches, resets, addresses and    *)
(* configures a device (USB_Task in transfer.c).  Devices come and go at   *)
(* any time, a bus reset ends when it ends, transfers fail at will, and    *)
(* the millisecond clock goes round.                                       *)
(*                                                                         *)
(* One pass of the loop is MAX3421E_Task (two steps if there was an        *)
(* interrupt: look at the bus, acknowledge), USB_Task, and the rest of     *)
(* main.  A transfer is one step with any outcome the device allows.       *)
(***************************************************************************)
EXTENDS Integers, FiniteSets

CONSTANTS
  MaxMs,       \* the clock's last value: 2^32 - 1 ticks, divided by 1000 (4294967)
  SettleMs,    \* (200)
  LoopMs,      \* the most a pass of the loop takes while it waits for SettleMs
  NumDevices,  \* USB_NUMDEVICES (8)
  Kinds,       \* the devices there are: a speed and a class
  NoDevice,    \* nothing is plugged in
  ResetRaises  \* whether a bus reset may raise CONDETIRQ

\* A device whose speed is "none" holds both lines high.
ASSUME KindsAssumption ==
  /\ Kinds \subseteq [speed : {"full", "low", "none"}, class : {"keyboard", "mouse", "other"}]
  /\ NoDevice \notin Kinds

ASSUME SizesAssumption ==
  /\ {MaxMs, SettleMs, LoopMs} \subseteq Nat \ {0}
  /\ NumDevices \in Nat /\ NumDevices >= 2
  /\ ResetRaises \subseteq BOOLEAN /\ FALSE \in ResetRaises

VARIABLES
  pc,             \* where the main loop is
  usb_task_state, usb_delay, tmp_addr,    \* of USB_Task
  epinfo, devclass, \* devtable: the endpoints an entry points to, its class
  hid_addr,       \* hid_device.addr
  runningdebugflag, errorflag, device, led9, \* of main
  sendback,       \* the handler is to acknowledge BUSEVENTIRQ, too
  CONDETIRQ, BUSEVENTIRQ, BUSRST, LOWSPEED,  \* of the MAX3421E
  dev, devAddr,   \* what is plugged in, and the address it answers to
  now, elapsed,   \* the clock; ms since the settle timer was last looked at
  seen            \* history: the handler has seen what is plugged in

taskVars  == <<usb_task_state, usb_delay, tmp_addr>>
tableVars == <<epinfo, devclass, hid_addr>>
mainVars  == <<runningdebugflag, errorflag, device, led9>>
chipVars  == <<CONDETIRQ, BUSEVENTIRQ, BUSRST, LOWSPEED>>
busVars   == <<dev, devAddr>>
timeVars  == <<now, elapsed>>
vars      == <<pc, taskVars, tableVars, mainVars, sendback, chipVars, busVars, timeVars, seen>>

\* The values of usb_task_state.
INITIALIZE          == 1
WAIT_FOR_DEVICE     == 3
ILLEGAL             == 4
ATTACHED            == 16
SETTLE              == 17
RESET_DEVICE        == 18
WAIT_RESET_COMPLETE == 19
WAIT_SOF            == 20
GET_DESCRIPTOR_SIZE == 21
ADDRESSING          == 32
CONFIGURING         == 48
RUNNING             == 64
ERROR               == 255

Attaching == ATTACHED .. GET_DESCRIPTOR_SIZE

\* 2 and 5 have no name: INITIALIZE and ILLEGAL, incremented by a bus event.
States == {INITIALIZE, 2, WAIT_FOR_DEVICE, ILLEGAL, 5, ADDRESSING, CONFIGURING, RUNNING, ERROR}
            \cup Attaching

Detached(s) == s < 16

HID_K == 1
HID_M == 2
Slots == 1 .. NumDevices - 1

TypeOK ==
  /\ pc \in {"boot", "bootAck", "max", "ack", "usb", "main"}
  /\ usb_task_state \in States /\ usb_delay \in 0 .. MaxMs + SettleMs /\ tmp_addr \in 0 .. NumDevices - 1
  /\ epinfo \in [0 .. NumDevices -> {"NULL", "dev0ep", "hid_ep"}]
  /\ devclass \in [0 .. NumDevices -> {0, HID_K, HID_M}] /\ hid_addr \in 0 .. NumDevices - 1
  /\ runningdebugflag \in BOOLEAN /\ errorflag \in BOOLEAN /\ led9 \in BOOLEAN /\ sendback \in BOOLEAN
  /\ device \in {0, HID_K, HID_M, 255}
  /\ CONDETIRQ \in BOOLEAN /\ BUSEVENTIRQ \in BOOLEAN /\ BUSRST \in BOOLEAN
  /\ LOWSPEED \in BOOLEAN /\ seen \in BOOLEAN
  /\ dev \in Kinds \cup {NoDevice} /\ devAddr \in 0 .. NumDevices - 1
  /\ now \in 0 .. MaxMs /\ elapsed \in 0 .. LoopMs

-----------------------------------------------------------------------------
(* The world. *)

Plug(k) ==
  /\ dev = NoDevice
  /\ dev' = k /\ devAddr' = 0 /\ CONDETIRQ' = TRUE
  /\ seen' = FALSE
  /\ UNCHANGED <<pc, taskVars, tableVars, mainVars, sendback, BUSEVENTIRQ, BUSRST, LOWSPEED, timeVars>>

Unplug ==
  /\ dev # NoDevice
  /\ dev' = NoDevice /\ devAddr' = 0 /\ CONDETIRQ' = TRUE
  /\ seen' = FALSE
  /\ UNCHANGED <<pc, taskVars, tableVars, mainVars, sendback, BUSEVENTIRQ, BUSRST, LOWSPEED, timeVars>>

\* The chip ends a bus reset by itself; the device then answers to address 0.
ResetDone ==
  /\ BUSRST
  /\ BUSRST' = FALSE /\ BUSEVENTIRQ' = TRUE /\ devAddr' = 0
  /\ \E raised \in ResetRaises : CONDETIRQ' = (CONDETIRQ \/ raised)
  /\ UNCHANGED <<pc, taskVars, tableVars, mainVars, sendback, LOWSPEED, dev, timeVars, seen>>

Tick ==
  /\ usb_task_state = SETTLE => elapsed < LoopMs
  /\ now' = IF now = MaxMs THEN 0 ELSE now + 1
  /\ elapsed' = IF usb_task_state = SETTLE THEN elapsed + 1 ELSE 0
  /\ UNCHANGED <<pc, taskVars, tableVars, mainVars, sendback, chipVars, busVars, seen>>

\* Whether a transfer to address a can reach a device.
reaches(a) ==
  /\ dev # NoDevice /\ ~BUSRST /\ devAddr = a
  /\ dev.speed = IF LOWSPEED THEN "low" ELSE "full"

\* The ways a transfer to address a may come out.
Outcomes(a) == {FALSE, reaches(a)}

-----------------------------------------------------------------------------
(* The interrupt handler. *)

\* J and K tell whether the device has the speed the chip is set to.
busSample(low) ==
  IF dev = NoDevice THEN "SE0"
  ELSE IF dev.speed = "none" THEN "SE1"
  ELSE IF (dev.speed = "low") <=> low THEN "J"
  ELSE "K"

\* A bus reset is known to raise the interrupt: what is there then is not new.
ignored(low) == busSample(low) \in {"J", "K"} /\ usb_task_state = WAIT_RESET_COMPLETE

\* Mutant: attachments are ignored from WAIT_RESET_COMPLETE on.
ProbedIgnoresLater(low) ==
  IF busSample(low) \in {"J", "K"}
  THEN IF usb_task_state >= WAIT_RESET_COMPLETE THEN usb_task_state ELSE ATTACHED
  ELSE IF busSample(low) = "SE1" THEN ILLEGAL
  ELSE IF Detached(usb_task_state) THEN WAIT_FOR_DEVICE
  ELSE INITIALIZE

\* The state MAX_busprobe goes to, with the chip set to the given speed.
probedState(low) ==
  IF busSample(low) \in {"J", "K"}
  THEN IF ignored(low) THEN usb_task_state ELSE ATTACHED
  ELSE IF busSample(low) = "SE1" THEN ILLEGAL
  ELSE IF Detached(usb_task_state) THEN WAIT_FOR_DEVICE
  ELSE INITIALIZE

\* Mutant: the speed is not changed.
ProbedKeepsSpeed(low) == low /\ ~(busSample(low) = "SE0" /\ Detached(usb_task_state))

\* Whether it sets the chip to low speed.
probedSpeed(low) ==
  IF busSample(low) = "K" /\ ~ignored(low) THEN ~low
  ELSE low /\ ~(busSample(low) = "SE0" /\ Detached(usb_task_state))

\* All of MAX_busprobe but for the state, which the handler goes on with.
MAX_busprobe(low) ==
  /\ LOWSPEED' = probedSpeed(low)
  /\ seen' = (seen \/ ~ignored(low))

\* The only interrupt that is enabled is CONDETIRQ; a bus event that waits is
\* handled along with it.
MaxIntHandler ==
  /\ pc = "max" /\ CONDETIRQ
  /\ MAX_busprobe(LOWSPEED)
  /\ usb_task_state' = IF BUSEVENTIRQ THEN (probedState(LOWSPEED) + 1) % 256 ELSE probedState(LOWSPEED)
  /\ sendback' = BUSEVENTIRQ
  /\ pc' = "ack"
  /\ UNCHANGED <<usb_delay, tmp_addr, tableVars, mainVars, CONDETIRQ, BUSEVENTIRQ, BUSRST, busVars, timeVars>>

NoInterrupt ==
  /\ pc = "max" /\ ~CONDETIRQ /\ pc' = "usb"
  /\ UNCHANGED <<taskVars, tableVars, mainVars, sendback, chipVars, busVars, timeVars, seen>>

\* The interrupts that were read are cleared, whatever came since.
Acknowledge ==
  /\ pc = "ack" /\ pc' = "usb"
  /\ CONDETIRQ' = FALSE /\ BUSEVENTIRQ' = (BUSEVENTIRQ /\ ~sendback)
  /\ sendback' = FALSE
  /\ UNCHANGED <<taskVars, tableVars, mainVars, BUSRST, LOWSPEED, busVars, timeVars, seen>>

\* MAX3421E_init: the chip is reset and the bus is looked at.
InitChip ==
  /\ pc = "boot" /\ pc' = "bootAck"
  /\ MAX_busprobe(FALSE) /\ usb_task_state' = probedState(FALSE)
  /\ BUSRST' = FALSE /\ BUSEVENTIRQ' = FALSE
  /\ UNCHANGED <<usb_delay, tmp_addr, tableVars, mainVars, sendback, CONDETIRQ, busVars, timeVars>>

USB_init ==
  /\ epinfo' = [i \in 0 .. NumDevices |-> IF i = 0 THEN "dev0ep" ELSE "NULL"]
  /\ devclass' = [i \in 0 .. NumDevices |-> 0]

\* The rest of MAX3421E_init, and the device table.
InitTable ==
  /\ pc = "bootAck" /\ pc' = "max"
  /\ CONDETIRQ' = FALSE
  /\ USB_init
  /\ errorflag' = FALSE /\ led9' = FALSE
  /\ UNCHANGED <<taskVars, hid_addr, runningdebugflag, device, sendback, BUSEVENTIRQ, BUSRST, LOWSPEED,
                 busVars, timeVars, seen>>

-----------------------------------------------------------------------------
(* USB_Task. *)

taskStep == pc = "usb" /\ pc' = "main" /\ UNCHANGED <<mainVars, sendback, LOWSPEED, dev, now, seen>>

Initialize ==
  /\ taskStep /\ usb_task_state = INITIALIZE
  /\ USB_init
  /\ usb_task_state' = WAIT_FOR_DEVICE
  /\ UNCHANGED <<usb_delay, tmp_addr, hid_addr, CONDETIRQ, BUSEVENTIRQ, BUSRST, devAddr, elapsed>>

StartSettle ==
  /\ taskStep /\ usb_task_state = ATTACHED
  /\ usb_delay' = now + SettleMs
  /\ usb_task_state' = SETTLE
  /\ elapsed' = 0
  /\ UNCHANGED <<tmp_addr, tableVars, CONDETIRQ, BUSEVENTIRQ, BUSRST, devAddr>>

\* Mutant: the timer is set again by each look at it.
SettleRestarts ==
  /\ taskStep /\ usb_task_state = SETTLE
  /\ usb_task_state' = IF now > usb_delay THEN RESET_DEVICE ELSE SETTLE
  /\ usb_delay' = now + SettleMs
  /\ elapsed' = 0
  /\ UNCHANGED <<tmp_addr, tableVars, CONDETIRQ, BUSEVENTIRQ, BUSRST, devAddr>>

Settle ==
  /\ taskStep /\ usb_task_state = SETTLE
  /\ usb_task_state' = IF now > usb_delay THEN RESET_DEVICE ELSE SETTLE
  /\ elapsed' = 0
  /\ UNCHANGED <<usb_delay, tmp_addr, tableVars, CONDETIRQ, BUSEVENTIRQ, BUSRST, devAddr>>

ResetDevice ==
  /\ taskStep /\ usb_task_state = RESET_DEVICE
  /\ BUSEVENTIRQ' = FALSE /\ BUSRST' = TRUE
  /\ usb_task_state' = WAIT_RESET_COMPLETE
  /\ UNCHANGED <<usb_delay, tmp_addr, tableVars, CONDETIRQ, devAddr, elapsed>>

\* Mutant: the bit is tested the wrong way round.
WaitResetInverted ==
  /\ taskStep /\ usb_task_state = WAIT_RESET_COMPLETE
  /\ usb_task_state' = IF ~BUSRST THEN WAIT_RESET_COMPLETE ELSE WAIT_SOF
  /\ UNCHANGED <<usb_delay, tmp_addr, tableVars, CONDETIRQ, BUSEVENTIRQ, BUSRST, devAddr, elapsed>>

WaitReset ==
  /\ taskStep /\ usb_task_state = WAIT_RESET_COMPLETE
  /\ usb_task_state' = IF BUSRST THEN WAIT_RESET_COMPLETE ELSE WAIT_SOF
  /\ UNCHANGED <<usb_delay, tmp_addr, tableVars, CONDETIRQ, BUSEVENTIRQ, BUSRST, devAddr, elapsed>>

\* The test for the first SOF always succeeds.
WaitSof ==
  /\ taskStep /\ usb_task_state = WAIT_SOF
  /\ usb_task_state' = GET_DESCRIPTOR_SIZE
  /\ UNCHANGED <<usb_delay, tmp_addr, tableVars, CONDETIRQ, BUSEVENTIRQ, BUSRST, devAddr, elapsed>>

GetDescriptor ==
  /\ taskStep /\ usb_task_state = GET_DESCRIPTOR_SIZE
  /\ \E ok \in Outcomes(0) : usb_task_state' = IF ok THEN ADDRESSING ELSE ERROR
  /\ UNCHANGED <<usb_delay, tmp_addr, tableVars, CONDETIRQ, BUSEVENTIRQ, BUSRST, devAddr, elapsed>>

free == {i \in Slots : epinfo[i] = "NULL"}

FirstFree == CHOOSE i \in free : \A j \in free : i <= j

\* The entry is taken before the device has got the address; the device may
\* have got it although the host thinks it has not.
Address ==
  /\ taskStep /\ usb_task_state = ADDRESSING /\ free # {}
  /\ epinfo' = [epinfo EXCEPT ![FirstFree] = epinfo[0]]
  /\ \/ /\ reaches(0)
        /\ usb_task_state' = CONFIGURING /\ tmp_addr' = FirstFree /\ devAddr' = FirstFree
     \/ /\ usb_task_state' = ERROR /\ UNCHANGED tmp_addr
        /\ devAddr' \in IF reaches(0) THEN {0, FirstFree} ELSE {devAddr}
  /\ UNCHANGED <<usb_delay, devclass, hid_addr, CONDETIRQ, BUSEVENTIRQ, BUSRST, elapsed>>

NoAddress ==
  /\ taskStep /\ usb_task_state = ADDRESSING /\ free = {}
  /\ usb_task_state' = ERROR
  /\ UNCHANGED <<usb_delay, tmp_addr, tableVars, CONDETIRQ, BUSEVENTIRQ, BUSRST, devAddr, elapsed>>

\* Mutant: the address of the device is not noted.
SetHidNoAddress ==
  /\ epinfo' = [epinfo EXCEPT ![tmp_addr] = "hid_ep"]
  /\ devclass' = [devclass EXCEPT ![tmp_addr] = IF dev.class = "keyboard" THEN HID_K ELSE HID_M]
  /\ UNCHANGED hid_addr

SetHid ==
  /\ epinfo' = [epinfo EXCEPT ![tmp_addr] = "hid_ep"]
  /\ devclass' = [devclass EXCEPT ![tmp_addr] = IF dev.class = "keyboard" THEN HID_K ELSE HID_M]
  /\ hid_addr' = tmp_addr

\* A probe fills in the entry when the descriptors are those of its class, and
\* may fail after that.
Configure ==
  /\ taskStep /\ usb_task_state = CONFIGURING
  /\ \/ /\ reaches(tmp_addr) /\ dev.class \in {"keyboard", "mouse"}
        /\ SetHid /\ usb_task_state' \in {RUNNING, ERROR}
     \/ UNCHANGED tableVars /\ usb_task_state' = ERROR
  /\ UNCHANGED <<usb_delay, tmp_addr, CONDETIRQ, BUSEVENTIRQ, BUSRST, devAddr, elapsed>>

\* States in which USB_Task does nothing, the unnamed ones among them.
Rest ==
  /\ taskStep /\ usb_task_state \in {2, WAIT_FOR_DEVICE, ILLEGAL, 5, RUNNING, ERROR}
  /\ UNCHANGED <<taskVars, tableVars, CONDETIRQ, BUSEVENTIRQ, BUSRST, devAddr, elapsed>>

USB_Task == \/ Initialize \/ StartSettle \/ Settle \/ ResetDevice \/ WaitReset \/ WaitSof
            \/ GetDescriptor \/ Address \/ NoAddress \/ Configure \/ Rest

-----------------------------------------------------------------------------
(* The rest of the main loop. *)

mainStep == pc = "main" /\ UNCHANGED <<taskVars, tableVars, sendback, chipVars, busVars, timeVars, seen>>

used == {i \in Slots : epinfo[i] # "NULL"}

\* GetDriverandReport: the class of the last entry that is taken.
lastClass == IF used = {} THEN 255
             ELSE devclass[CHOOSE i \in used : \A j \in used : j <= i]

FirstPass ==
  /\ mainStep /\ usb_task_state = RUNNING /\ ~runningdebugflag
  /\ runningdebugflag' = TRUE /\ led9' = TRUE /\ device' = lastClass
  /\ pc' = "max"
  /\ UNCHANGED errorflag

\* kbdPoll or mousePoll, according to device; what they bring goes elsewhere.
Poll ==
  /\ mainStep /\ usb_task_state = RUNNING /\ runningdebugflag
  /\ pc' = "max"
  /\ UNCHANGED mainVars

InError ==
  /\ mainStep /\ usb_task_state = ERROR
  /\ errorflag' = TRUE /\ led9' = (led9 /\ errorflag)
  /\ pc' = "max"
  /\ UNCHANGED <<runningdebugflag, device>>

\* Mutant: the flag is not taken back.
NotRunningKeepsFlag ==
  /\ mainStep /\ usb_task_state \notin {RUNNING, ERROR}
  /\ errorflag' = FALSE /\ led9' = FALSE
  /\ pc' = "max"
  /\ UNCHANGED <<runningdebugflag, device>>

\* A device that was running is gone: the chip and the table are initialised
\* again before the flags are taken back (InitChip, InitTable).
NotRunning ==
  /\ mainStep /\ usb_task_state \notin {RUNNING, ERROR}
  /\ runningdebugflag' = FALSE
  /\ IF runningdebugflag
     THEN pc' = "boot" /\ UNCHANGED <<errorflag, led9>>
     ELSE pc' = "max" /\ errorflag' = FALSE /\ led9' = FALSE
  /\ UNCHANGED device

Main == FirstPass \/ Poll \/ InError \/ NotRunning

-----------------------------------------------------------------------------

Init ==
  /\ pc = "boot" /\ usb_task_state = INITIALIZE /\ usb_delay = 0 /\ tmp_addr = 0
  /\ epinfo = [i \in 0 .. NumDevices |-> "NULL"] /\ devclass = [i \in 0 .. NumDevices |-> 0]
  /\ hid_addr = 0
  /\ runningdebugflag = FALSE /\ errorflag = FALSE /\ device = 0 /\ led9 = FALSE
  /\ sendback = FALSE
  /\ CONDETIRQ = FALSE /\ BUSEVENTIRQ = FALSE /\ BUSRST = FALSE /\ LOWSPEED = FALSE
  /\ dev \in Kinds \cup {NoDevice} /\ devAddr = 0
  /\ now = 0 /\ elapsed = 0 /\ seen = FALSE

Loop  == InitChip \/ InitTable \/ MaxIntHandler \/ NoInterrupt \/ Acknowledge \/ USB_Task \/ Main
World == (\E k \in Kinds : Plug(k)) \/ Unplug \/ ResetDone \/ Tick

Next == Loop \/ World

Spec == Init /\ [][Next]_vars

\* The loop goes on, the clock runs, and a bus reset ends.  Nobody has to plug
\* or unplug anything.
FairSpec == Spec /\ WF_vars(Loop) /\ WF_vars(Tick) /\ WF_vars(ResetDone)
-----------------------------------------------------------------------------
(* Properties. *)

\* As long as no change of the bus was missed, the task is detached just when
\* there is no usable device, and otherwise the chip has the device's speed
\* (MAX3421E.c:132-187).
TracksBus ==
  seen => /\ Detached(usb_task_state) <=> busSample(LOWSPEED) \in {"SE0", "SE1"}
          /\ ~Detached(usb_task_state) => busSample(LOWSPEED) = "J"

\* Transfers use entries of the device table that point somewhere: entry 1,
\* which main.c asks for the idle rate (main.c:43,52), and the entry it polls,
\* which is the one that was configured, for the class it has (main.c:159-180).
EntriesAreThere ==
  pc = "main" /\ usb_task_state = RUNNING =>
    /\ epinfo[1] # "NULL"
    /\ runningdebugflag => /\ epinfo[hid_addr] = "hid_ep" /\ hid_addr # 0
                           /\ device = devclass[hid_addr] /\ device # 0

\* Each device that gets to RUNNING is asked for its class anew: the flag of the
\* one before it is gone by then (main.c:155-159,222-227).
EachIsReported ==
  [][usb_task_state' = RUNNING /\ usb_task_state # RUNNING => ~runningdebugflag']_vars

\* The LED is on between two passes just when a device is running.
LedIsRunning == pc = "max" => (led9 <=> usb_task_state = RUNNING)

\* A settle timer that the clock may not get past, or not before it wraps.
timerTooLate == usb_delay + LoopMs > MaxMs

\* A wait for the settle timer ends, if the timer does not stand too close to
\* the clock's end (transfer.c:277-283).
SettleEnds ==
  usb_task_state = SETTLE /\ ~timerTooLate ~> usb_task_state # SETTLE

\* A bus reset ends, and raises the connection interrupt, when the handler has
\* been passed and USB_Task, which finds the reset over, is next.
EndsUnseen == pc = "usb" /\ BUSRST /\ ~BUSRST' /\ ~CONDETIRQ /\ CONDETIRQ'

\* When nobody touches the plug any more and no reset ends unseen any more, the
\* task comes to rest: it has got a device running, has given up, or has nothing
\* to do; it neither waits for a reset for ever nor starts over again and again
\* (MAX3421E.c:140-145, transfer.c:276-383).
ComesToRest ==
  <>[][dev' = dev /\ ~EndsUnseen]_vars =>
    <>[](\/ usb_task_state \in {2, WAIT_FOR_DEVICE, ILLEGAL, 5, RUNNING, ERROR}
         \/ usb_task_state = SETTLE /\ timerTooLate)

-----------------------------------------------------------------------------
(* What the comments say and the code does not keep. *)

\* MAX3421E.c:180: "(USB_DETACHED_SUBSTATE_INITIALIZE); // clear device data
\* structures": the device table is empty when the loop goes on after a device
\* has been found gone.
DetachClears ==
  pc = "max" /\ Detached(usb_task_state) => \A i \in Slots : epinfo[i] = "NULL"

\* transfer.c:256: "Detached state - when nothing is connected to ( or just
\* disconnected from) USB bus": a device that stays is not taken for nothing.
DetachedIsEmpty == Detached(usb_task_state) /\ dev # NoDevice ~> ~Detached(usb_task_state) \/ dev = NoDevice
=============================================================================
