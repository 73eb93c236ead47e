---------------------------- MODULE UsbTransfer ----------------------------
(***************************************************************************)
(* A USB transfer, packet by packet (transfer.c): setup, data and status   *)
(* of a control transfer, or the packets of an interrupt endpoint, with    *)
(* the retries of XferDispatchPkt and the data toggles of XferInTransfer.  *)
(*                                                                         *)
(* One step is one pass of the loop in XferDispatchPkt: a packet is sent   *)
(* and what comes back is looked at.  On the bus a packet, the answer or   *)
(* the acknowledgement of the answer may be lost, the device may put the   *)
(* host off (NAK), and any other error may strike.  The device can be      *)
(* unplugged at any time.  Lengths are counted in units, not bytes.        *)
(***************************************************************************)
EXTENDS Integers, Sequences

CONSTANTS
  NakLimit,    \* USB_NAK_LIMIT (200)
  RetryLimit,  \* USB_RETRY_LIMIT (3)
  HeadLen,     \* CONF_DESCR_LEN (9)
  BufLen,      \* the size of bigbuf (256)
  PollLen,     \* what a poll asks for (8)
  MaxReports,  \* bound: reports made by the devices
  Devices      \* the devices there are

\* What is transferred: descriptors, and the answers to GetIdle and GetProto.
Items == {"config", "mouse", "keyboard", "otherInterface", "hid", "endpoint",
          "rate", "boot", "report"}

\* A device: its configuration descriptors, the packet sizes of endpoints 0
\* and 1, and the length of a report.
ASSUME DevicesAssumption ==
  Devices \subseteq [config : Seq(Items), max0 : Nat \ {0}, max1 : Nat \ {0}, report : Nat \ {0}]

ASSUME LimitsAssumption ==
  /\ {NakLimit, RetryLimit, HeadLen, BufLen, PollLen} \subseteq Nat \ {0}
  /\ MaxReports \in Nat

VARIABLES
  stage,       \* where the call in progress is
  req,         \* the request it makes
  buf,         \* what it has received
  nak_count, retry_count,  \* of XferDispatchPkt
  rcode,       \* what the last call returned
  rcvToggle,   \* of epinfo[0] and epinfo[1]
  RCVTOG,      \* the toggle the chip expects
  dev, there,  \* the device, and whether it can be reached
  configured, boot,  \* what it was told
  tog, pos,    \* its toggle, and how far it is, on either endpoint
  pending, made,     \* it has a report to send; the number of the last one
  got          \* history: the numbers of the reports that transfers brought

callVars == <<stage, req, buf, nak_count, retry_count, rcode>>
hostVars == <<callVars, rcvToggle, RCVTOG>>
devVars  == <<dev, there, configured, boot, tog, pos, pending, made>>
usbVars  == <<hostVars, devVars, got>>

Gets     == {"head", "config", "getIdle", "getProto"}
Sets     == {"setConf", "setProto"}
Requests == Gets \cup Sets \cup {"poll"}

Stages == {"idle", "setup", "data", "status"}
Codes  == {"ok", "NAK", "TIMEOUT", "TOGERR", "other"}

CallTypeOK ==
  /\ stage \in Stages /\ req \in Requests
  /\ IF req = "poll" THEN buf \in Seq(Nat) ELSE buf \in Seq(Items)
  /\ nak_count \in 0 .. NakLimit - 1 /\ retry_count \in 0 .. RetryLimit - 1
  /\ rcode \in Codes

ToggleTypeOK == rcvToggle \in [0 .. 1 -> 0 .. 1] /\ RCVTOG \in 0 .. 1

DeviceTypeOK ==
  /\ dev \in Devices /\ there \in BOOLEAN /\ configured \in BOOLEAN /\ boot \in BOOLEAN
  /\ tog \in [0 .. 1 -> 0 .. 1] /\ pos \in [0 .. 1 -> Nat]
  /\ pending \in BOOLEAN /\ made \in 0 .. MaxReports

UsbTypeOK == CallTypeOK /\ ToggleTypeOK /\ DeviceTypeOK /\ got \in Seq(0 .. MaxReports)

-----------------------------------------------------------------------------
(* What is transferred. *)

Lesser(m, n) == IF m <= n THEN m ELSE n

\* Polls use endpoint 1, whatever the descriptor of the endpoint says.
ep == IF req = "poll" THEN 1 ELSE 0

maxpktsize == IF req = "poll" THEN dev.max1 ELSE dev.max0

\* The length of the whole configuration stands in its first bytes.
nbytes == [head |-> HeadLen, config |-> Lesser(Len(dev.config), BufLen),
           getIdle |-> 1, getProto |-> 1, poll |-> PollLen][req]

\* What the device has to say: a report is as many copies of its number.
answer == [head |-> dev.config, config |-> dev.config, getIdle |-> <<"rate">>,
           getProto |-> <<IF boot THEN "boot" ELSE "report">>,
           poll |-> [i \in 1 .. dev.report |-> made]][req]

\* No more than was asked for is sent in answer to a request.
total == IF req = "poll" THEN dev.report ELSE Lesser(Len(answer), nbytes)

packet == SubSeq(answer, pos[ep] + 1, Lesser(pos[ep] + maxpktsize, total))

\* A keyboard at rest has nothing to send.
hasData == req = "poll" => configured /\ pending

-----------------------------------------------------------------------------
(* The steps of a call. *)

Stay == UNCHANGED <<req, buf, rcvToggle, RCVTOG, got>>

Return(code) == /\ stage' = "idle" /\ rcode' = code
                /\ nak_count' = 0 /\ retry_count' = 0

Dispatch(s) == /\ stage' = s /\ rcode' = "ok"
               /\ nak_count' = 0 /\ retry_count' = 0

\* XferInTransfer begins: the chip gets the toggle of the endpoint.
BeginIn(r, toggles) == /\ rcvToggle' = toggles
                       /\ RCVTOG' = toggles[IF r = "poll" THEN 1 ELSE 0]

\* A call is made: XferCtrlReq or, for a poll, XferInTransfer.
Call(r, toggles) ==
  /\ req' = r /\ buf' = <<>>
  /\ IF r = "poll"
     THEN Dispatch("data") /\ BeginIn(r, toggles)
     ELSE Dispatch("setup") /\ rcvToggle' = toggles /\ UNCHANGED RCVTOG
  /\ UNCHANGED got

\* Mutant: the count is not compared with the limit.
NakForever ==
  /\ stage \in {"data", "status"} /\ there
  /\ nak_count' = (nak_count + 1) % NakLimit /\ UNCHANGED <<stage, rcode, retry_count>>
  /\ Stay /\ UNCHANGED devVars

\* The device is busy or has nothing to send.
Nak ==
  /\ stage \in {"data", "status"} /\ there
  /\ IF nak_count + 1 = NakLimit
     THEN Return("NAK")
     ELSE nak_count' = nak_count + 1 /\ UNCHANGED <<stage, rcode, retry_count>>
  /\ Stay /\ UNCHANGED devVars

\* Mutant: one retry too many.
CountTimeoutMore ==
  /\ IF retry_count = RetryLimit
     THEN Return("TIMEOUT")
     ELSE retry_count' = retry_count + 1 /\ UNCHANGED <<stage, rcode, nak_count>>
  /\ Stay

CountTimeout ==
  /\ IF retry_count + 1 = RetryLimit
     THEN Return("TIMEOUT")
     ELSE retry_count' = retry_count + 1 /\ UNCHANGED <<stage, rcode, nak_count>>
  /\ Stay

\* Nothing comes back.  The device may have got a SETUP, which the next one
\* makes it forget; a status stage that got lost is LostStatus.
NoAnswer == stage # "idle" /\ CountTimeout /\ UNCHANGED devVars

\* Any other result, or none within five seconds, ends the call.
OtherError == stage # "idle" /\ Return("other") /\ Stay /\ UNCHANGED devVars

\* The setup packet arrived.  A data stage starts with DATA1.
Setup ==
  /\ stage = "setup" /\ there
  /\ pos' = [pos EXCEPT ![0] = 0] /\ tog' = [tog EXCEPT ![0] = 1]
  /\ IF req \in Gets
     THEN Dispatch("data") /\ BeginIn(req, [rcvToggle EXCEPT ![0] = 1])
     ELSE Dispatch("status") /\ UNCHANGED <<rcvToggle, RCVTOG>>
  /\ UNCHANGED <<req, buf, got, dev, there, configured, boot, pending, made>>

\* The device goes on when its packet was acknowledged.
Advance ==
  LET end == req = "poll" /\ pos[1] + Len(packet) >= total
  IN /\ tog' = [tog EXCEPT ![ep] = 1 - @]
     /\ pos' = [pos EXCEPT ![ep] = IF end THEN 0 ELSE @ + Len(packet)]
     /\ pending' = (pending /\ ~end)

\* Mutant: one unit less will do.
CompleteEarly == Len(packet) < maxpktsize \/ Len(buf) + Len(packet) >= nbytes - 1

\* The packet is the last one: a short one, or all has come.
Complete == Len(packet) < maxpktsize \/ Len(buf) + Len(packet) >= nbytes

\* The data stage is over, and the toggle saved.
Finish ==
  /\ rcvToggle' = [rcvToggle EXCEPT ![ep] = 1 - RCVTOG]
  /\ IF req = "poll" THEN Return("ok") /\ got' = Append(got, made)
                     ELSE Dispatch("status") /\ UNCHANGED got

\* A packet comes with the toggle the chip expects.
Receive ==
  /\ tog[ep] = RCVTOG
  /\ buf' = buf \o packet /\ RCVTOG' = 1 - RCVTOG
  /\ IF Complete THEN Finish ELSE Dispatch("data") /\ UNCHANGED <<rcvToggle, got>>
  /\ UNCHANGED req

\* It is taken for a repetition: acknowledged by the chip, and thrown away.
Repeated == tog[ep] # RCVTOG /\ Return("TOGERR") /\ Stay

Data(acknowledged) ==
  /\ stage = "data" /\ there /\ hasData
  /\ Receive \/ Repeated
  /\ IF acknowledged THEN Advance ELSE UNCHANGED <<tog, pos, pending>>
  /\ UNCHANGED <<dev, there, configured, boot, made>>

\* The device does what it was told when it answers the status stage.
Execute ==
  /\ configured' = (configured \/ req = "setConf")
  /\ boot' = (boot \/ req = "setProto")
  /\ tog' = IF req = "setConf" THEN [tog EXCEPT ![1] = 0] ELSE tog
  /\ UNCHANGED <<dev, there, pos, pending, made>>

Status     == stage = "status" /\ there /\ Return("ok") /\ Stay /\ Execute
LostStatus == stage = "status" /\ there /\ CountTimeout /\ Execute

Transfer == \/ Nak \/ NoAnswer \/ OtherError \/ Setup \/ Status \/ LostStatus
            \/ \E acknowledged \in BOOLEAN : Data(acknowledged)

-----------------------------------------------------------------------------
(* The device. *)

\* A key is pressed or released, or the mouse moves.
MakeReport ==
  /\ there /\ configured /\ ~pending /\ made < MaxReports
  /\ pending' = TRUE /\ made' = made + 1
  /\ UNCHANGED <<hostVars, dev, there, configured, boot, tog, pos, got>>

\* It is unplugged or reset: it has forgotten all it was told.
Leave ==
  /\ there /\ there' = FALSE
  /\ configured' = FALSE /\ boot' = FALSE /\ pending' = FALSE
  /\ tog' = [e \in 0 .. 1 |-> 0] /\ pos' = [e \in 0 .. 1 |-> 0]
  /\ UNCHANGED <<hostVars, dev, made, got>>

\* A device has been given its address.
Arrive(d) ==
  /\ ~there /\ there' = TRUE /\ dev' = d
  /\ UNCHANGED <<configured, boot, tog, pos, pending, made>>
-----------------------------------------------------------------------------
(* Properties. *)

\* A control transfer that has got to its status stage has received just what
\* was asked for, in order and once, or all there is of it, whatever was lost
\* or repeated on the way (transfer.c:213-223).
ControlIsExact ==
  there /\ stage = "status" /\ req \in Gets => buf = SubSeq(answer, 1, total)

\* Every call returns: NAKs and time-outs are counted (transfer.c:165-184).
CallEnds == stage # "idle" ~> stage = "idle"

\* main.c:164,182: "NAK means no new data": a poll that is put off has not
\* taken anything from the device.
NakMeansNoData == stage = "idle" /\ req = "poll" /\ rcode = "NAK" => buf = <<>>
=============================================================================
