----------------------------- MODULE HidSession -----------------------------
(***************************************************************************)
(* A keyboard or mouse from the moment it has an address: the probes of    *)
(* HID.c, run one after the other by USB_Task (transfer.c:360-373), what   *)
(* main.c asks it for, and the polls.  What the calls return decides which *)
(* call is next; the calls are those of UsbTransfer.                       *)
(***************************************************************************)
EXTENDS UsbTransfer

VARIABLE driver  \* the probe that runs or has succeeded; "none": all failed

vars == <<usbVars, driver>>

Drivers == {"mouse", "keyboard", "none"}

TypeOK == UsbTypeOK /\ driver \in Drivers

-----------------------------------------------------------------------------
(* Descriptors, as they stand in bigbuf. *)

Interfaces == {"mouse", "keyboard", "otherInterface"}

\* The first interface descriptor is number i.
firstInterface(i) == /\ i \in DOMAIN buf /\ buf[i] \in Interfaces
                     /\ \A j \in 1 .. i - 1 : buf[j] \notin Interfaces

\* Only the first interface counts.
classMatches == \E i \in DOMAIN buf : firstInterface(i) /\ buf[i] = driver

\* An endpoint descriptor follows it.
endpointFollows ==
  \E i, j \in DOMAIN buf : firstInterface(i) /\ i < j /\ buf[j] = "endpoint"

-----------------------------------------------------------------------------
(* The probes; the ones for mass storage and for nothing always fail. *)

returned(r) == stage = "idle" /\ req = r /\ driver # "none"

ok == rcode = "ok"

NextProbe(toggles) ==
  \/ driver = "mouse" /\ driver' = "keyboard" /\ Call("head", toggles)
  \/ /\ driver = "keyboard" /\ driver' = "none"
     /\ rcvToggle' = toggles /\ UNCHANGED <<callVars, RCVTOG, got>>

\* Mutant: the toggles are those of the device before.
HID_initKeeps == rcvToggle

HID_init == [rcvToggle EXCEPT ![1] = 0]

GotHead ==
  /\ returned("head")
  /\ IF ok THEN Call("config", rcvToggle) /\ UNCHANGED driver ELSE NextProbe(rcvToggle)
  /\ UNCHANGED devVars

GotConfig ==
  /\ returned("config")
  /\ \/ ok /\ classMatches /\ endpointFollows /\ Call("setConf", HID_init) /\ UNCHANGED driver
     \/ ok /\ classMatches /\ ~endpointFollows /\ NextProbe(HID_init)
     \/ ~(ok /\ classMatches) /\ NextProbe(rcvToggle)
  /\ UNCHANGED devVars

\* Mutant: the result of the request is not looked at.
ConfiguredAnyway ==
  /\ returned("setConf")
  /\ Call("setProto", rcvToggle) /\ UNCHANGED driver
  /\ UNCHANGED devVars

Configured ==
  /\ returned("setConf")
  /\ IF ok THEN Call("setProto", rcvToggle) /\ UNCHANGED driver ELSE NextProbe(rcvToggle)
  /\ UNCHANGED devVars

\* The probe has succeeded, and main.c asks for the idle rate and the protocol.
ProtocolSet ==
  /\ returned("setProto")
  /\ IF ok THEN Call("getIdle", rcvToggle) /\ UNCHANGED driver ELSE NextProbe(rcvToggle)
  /\ UNCHANGED devVars

\* An answer is printed, and a failure too; the next call comes anyway.
GotIdle     == returned("getIdle") /\ Call("getProto", rcvToggle) /\ UNCHANGED <<devVars, driver>>
GotProtocol == returned("getProto") /\ Call("poll", rcvToggle) /\ UNCHANGED <<devVars, driver>>

\* Mutant: a poll that fails is the last one.
PolledUntilError ==
  /\ returned("poll")
  /\ IF rcode \in {"ok", "NAK"} THEN Call("poll", rcvToggle) /\ UNCHANGED driver
     ELSE driver' = "none" /\ UNCHANGED hostVars /\ UNCHANGED got
  /\ UNCHANGED devVars

\* Whatever it has brought, the next pass of the loop polls again.
Polled == returned("poll") /\ Call("poll", rcvToggle) /\ UNCHANGED <<devVars, driver>>

Program == \/ GotHead \/ GotConfig \/ Configured \/ ProtocolSet
           \/ GotIdle \/ GotProtocol \/ Polled

\* No probe is running, and main.c is not between its two questions.
BetweenPasses ==
  /\ stage = "idle"
  /\ driver = "none" \/ req \in {"getProto", "poll"} \/ (req = "setProto" /\ ok)

\* Between two passes of the loop a device has come up again (UsbHost); the
\* probes start, the one for mice first.
Enumerate ==
  /\ BetweenPasses
  /\ \E d \in Devices : Arrive(d)
  /\ driver' = "mouse" /\ Call("head", rcvToggle)

-----------------------------------------------------------------------------

Init ==
  /\ stage = "idle" /\ req = "head" /\ buf = <<>>
  /\ nak_count = 0 /\ retry_count = 0 /\ rcode = "ok"
  /\ rcvToggle = [e \in 0 .. 1 |-> 0] /\ RCVTOG = 0
  /\ dev \in Devices /\ there = FALSE /\ configured = FALSE /\ boot = FALSE
  /\ tog = [e \in 0 .. 1 |-> 0] /\ pos = [e \in 0 .. 1 |-> 0]
  /\ pending = FALSE /\ made = 0 /\ got = <<>>
  /\ driver = "none"

Host  == Transfer /\ UNCHANGED driver
World == (MakeReport \/ Leave) /\ UNCHANGED driver

Next == Host \/ Program \/ Enumerate \/ World

Spec == Init /\ [][Next]_vars

\* A poll of a device that has a report gets through.
Heard == /\ req = "poll" /\ pending /\ Data(TRUE) /\ UNCHANGED driver

\* The program goes on, and a device that is polled again and again is heard
\* again and again.
FairSpec == Spec /\ WF_vars(Host) /\ WF_vars(Program) /\ SF_vars(Heard)
-----------------------------------------------------------------------------
(* Properties. *)

\* What is polled has taken both of its orders, although their answers may
\* have been lost, and is what it is taken for; or it is gone, and the polls
\* time out (HID.c:181-190, main.c:160-188).
PolledIsConfigured ==
  there /\ driver # "none" /\ req \in {"getIdle", "getProto", "poll"} =>
    configured /\ boot /\ \E i \in DOMAIN dev.config : dev.config[i] = driver

\* A report fits into a packet, and the packet ends the transfer.
WellSized(d) == d.report <= d.max1 /\ (d.report < d.max1 \/ PollLen <= d.report)

hasRead(r) == got # <<>> /\ got[Len(got)] = r

Stream == INSTANCE ReportStream WITH
  open <- pending /\ ~hasRead(made), read <- got

\* Each report a device makes is read once, in order and before the next one,
\* however packets and acknowledgements get lost.
ReadsEachReportOnce == Stream!Spec

\* A report of a device that is polled arrives, unless the device goes.
ReportArrives ==
  \A r \in 1 .. MaxReports :
    req = "poll" /\ pending /\ made = r /\ ~hasRead(r) ~> hasRead(r) \/ ~there
=============================================================================
