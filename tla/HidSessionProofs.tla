-------------------------- MODULE HidSessionProofs --------------------------
(***************************************************************************)
(* Theorems about HidSession, for every limit, every set of devices and    *)
(* every number of reports.                                                *)
(***************************************************************************)
EXTENDS HidSession, SequenceTheorems, TLAPS

USE DevicesAssumption, LimitsAssumption

\* Which requests have which stages.
StageInv ==
  /\ stage = "setup" => req # "poll" /\ buf = <<>>
  /\ stage = "data" => req \in Gets \cup {"poll"}
  /\ stage = "status" => req # "poll"

\* As long as the toggles of host and device agree, the host has what the
\* device has sent; when they do not, the next packet ends the call.
ControlInv ==
  there /\ req \in Gets =>
    /\ stage = "data" /\ tog[0] = RCVTOG => pos[0] <= total /\ buf = SubSeq(answer, 1, pos[0])
    /\ stage = "status" \/ (stage = "idle" /\ rcode = "ok") => buf = SubSeq(answer, 1, total)

\* The device has the interface the probe looks for.
IsWanted == \E i \in DOMAIN dev.config : dev.config[i] = driver

\* What has been found out, and what the device has been told, by the request.
DriverInv ==
  there /\ driver # "none" =>
    /\ req \in {"setConf", "setProto", "getIdle", "getProto", "poll"} => IsWanted
    /\ req \in {"setProto", "getIdle", "getProto", "poll"} => configured
    /\ req \in {"getIdle", "getProto", "poll"} => boot
    /\ stage = "idle" /\ rcode = "ok" => /\ req = "setConf" => configured
                                         /\ req = "setProto" => boot

IInv == TypeOK /\ StageInv /\ ControlInv /\ DriverInv

-----------------------------------------------------------------------------
(* The data of a transfer. *)

\* What the requests for data have to bring.
LEMMA AnswerOfGet ==
  ASSUME TypeOK, req \in Gets
  PROVE  /\ answer \in Seq(Items) /\ Len(answer) \in Nat
         /\ total \in 0 .. Len(answer) /\ total <= nbytes /\ nbytes \in Nat
         /\ ep = 0 /\ maxpktsize = dev.max0 /\ maxpktsize \in Nat \ {0}
<1>1. dev.config \in Seq(Items) /\ dev.max0 \in Nat \ {0}
  BY DEF TypeOK, UsbTypeOK, DeviceTypeOK
<1>2. answer \in Seq(Items)
  <2>1. CASE req \in {"head", "config"}
    BY <1>1, <2>1 DEF answer
  <2>2. CASE req = "getIdle"
    <3>1. answer = <<"rate">>
      BY <2>2 DEF answer
    <3> QED
      BY <3>1 DEF Items
  <2>3. CASE req = "getProto"
    <3>1. answer = <<IF boot THEN "boot" ELSE "report">>
      BY <2>3 DEF answer
    <3> QED
      BY <3>1 DEF Items
  <2> QED
    BY <2>1, <2>2, <2>3 DEF Gets
<1>3. Len(answer) \in Nat
  BY <1>2
<1>4. nbytes \in Nat
  <2>1. Len(dev.config) \in Nat
    BY <1>1
  <2> QED
    BY <2>1 DEF nbytes, Gets, Lesser
<1>5. total = Lesser(Len(answer), nbytes)
  BY DEF total, Gets
<1>6. ep = 0 /\ maxpktsize = dev.max0
  BY DEF ep, maxpktsize, Gets
<1> QED
  BY <1>1, <1>2, <1>3, <1>4, <1>5, <1>6 DEF Lesser

\* A packet of them carries on where the device is.
LEMMA PacketOfGet ==
  ASSUME TypeOK, req \in Gets, pos[0] <= total,
         NEW m, m = Lesser(pos[0] + maxpktsize, total)
  PROVE  /\ m \in pos[0] .. total
         /\ packet = SubSeq(answer, pos[0] + 1, m) /\ packet \in Seq(Items)
         /\ Len(packet) = m - pos[0]
<1>1. pos[0] \in Nat
  BY DEF TypeOK, UsbTypeOK, DeviceTypeOK
<1>2. m \in pos[0] .. total
  BY <1>1, AnswerOfGet DEF Lesser
<1>3. packet = SubSeq(answer, pos[0] + 1, m)
  BY AnswerOfGet DEF packet
<1>4. \A i \in pos[0] + 1 .. m : answer[i] \in Items
  BY <1>1, <1>2, AnswerOfGet, ElementOfSeq
<1>5. /\ SubSeq(answer, pos[0] + 1, m) \in Seq(Items)
      /\ Len(SubSeq(answer, pos[0] + 1, m)) = m - pos[0]
  <2>1. m \in Int /\ pos[0] + 1 \in Int
    BY <1>1, <1>2, AnswerOfGet
  <2> HIDE DEF answer
  <2>2. /\ SubSeq(answer, pos[0] + 1, m) \in Seq(Items)
        /\ Len(SubSeq(answer, pos[0] + 1, m)) = IF pos[0] + 1 <= m THEN m - (pos[0] + 1) + 1 ELSE 0
    BY <2>1, <1>4, SubSeqProperties
  <2>3. m \in Nat /\ pos[0] <= m
    BY <1>1, <1>2, AnswerOfGet
  <2> QED
    BY <2>2, <2>3, <1>1
<1> QED
  BY <1>2, <1>3, <1>5

\* Any other packet of a request is still a sequence of descriptors.
LEMMA PacketType ==
  ASSUME TypeOK, req \in Gets
  PROVE  packet \in Seq(Items) /\ Len(packet) \in Nat
<1>1. pos[0] \in Nat
  BY DEF TypeOK, UsbTypeOK, DeviceTypeOK
<1> DEFINE m == Lesser(pos[0] + maxpktsize, total)
<1>2. m \in Nat /\ m <= Len(answer)
  BY <1>1, AnswerOfGet DEF Lesser
<1>3. packet = SubSeq(answer, pos[0] + 1, m)
  BY AnswerOfGet DEF packet
<1>4. \A i \in pos[0] + 1 .. m : answer[i] \in Items
  BY <1>1, <1>2, AnswerOfGet, ElementOfSeq
<1> HIDE DEF m
<1>5. SubSeq(answer, pos[0] + 1, m) \in Seq(Items)
  BY <1>1, <1>2, <1>4, SubSeqProperties
<1> QED
  BY <1>3, <1>5

\* What has come and the packet make what is to come, or the beginning of it.
LEMMA PacketCarriesOn ==
  ASSUME TypeOK, req \in Gets, pos[0] <= total, buf = SubSeq(answer, 1, pos[0]),
         NEW m, m = Lesser(pos[0] + maxpktsize, total)
  PROVE  /\ buf \o packet = SubSeq(answer, 1, m)
         /\ Complete => m = total
         /\ ~Complete => m = pos[0] + Len(packet)
<1>1. pos[0] \in Nat /\ m \in pos[0] .. total
  BY PacketOfGet DEF TypeOK, UsbTypeOK, DeviceTypeOK
<1>2. buf \o packet = SubSeq(answer, 1, m)
  <2>1. 1 \in 1 .. Len(answer) + 1 /\ pos[0] \in 1 - 1 .. Len(answer) /\ m \in pos[0] .. Len(answer)
    BY <1>1, AnswerOfGet
  <2>2. SubSeq(answer, 1, pos[0]) \o SubSeq(answer, pos[0] + 1, m) = SubSeq(answer, 1, m)
    BY <2>1, AnswerOfGet, ConcatAdjacentSubSeq
  <2> QED
    BY <2>2, PacketOfGet
<1>3. Len(buf) = pos[0]
  <2>1. \A i \in 1 .. pos[0] : answer[i] \in Items
    BY <1>1, AnswerOfGet, ElementOfSeq
  <2>2. Len(SubSeq(answer, 1, pos[0])) = IF 1 <= pos[0] THEN pos[0] - 1 + 1 ELSE 0
    BY <1>1, <2>1, SubSeqProperties
  <2> QED
    BY <2>2, <1>1
<1>4. Complete => m = total
  <2>1. Len(packet) = m - pos[0] /\ maxpktsize \in Nat /\ nbytes \in Nat /\ total \in Nat /\ total <= nbytes
    BY PacketOfGet, AnswerOfGet
  <2> QED
    BY <1>1, <1>3, <2>1 DEF Complete, Lesser
<1>5. m = pos[0] + Len(packet)
  <2>1. Len(packet) = m - pos[0] /\ m \in Nat
    BY <1>1, PacketOfGet, AnswerOfGet
  <2> QED
    BY <2>1, <1>1
<1> QED
  BY <1>2, <1>4, <1>5

\* A poll's report is one packet, and the packet ends the transfer.
LEMMA PacketOfPoll ==
  ASSUME TypeOK, req = "poll"
  PROVE  /\ packet \in Seq(Nat) /\ Len(packet) \in Nat
         /\ WellSized(dev) /\ pos[1] = 0 => /\ Len(packet) = total
                                            /\ buf = <<>> => Complete
<1>1. /\ dev.report \in Nat \ {0} /\ dev.max1 \in Nat \ {0} /\ made \in Nat
      /\ pos[1] \in Nat
  BY DEF TypeOK, UsbTypeOK, DeviceTypeOK
<1>2. ep = 1 /\ maxpktsize = dev.max1 /\ total = dev.report /\ nbytes = PollLen
  BY DEF ep, maxpktsize, total, nbytes
<1> DEFINE m == Lesser(pos[1] + dev.max1, dev.report)
<1>3. m \in Nat /\ m <= dev.report
  BY <1>1 DEF Lesser
<1>4. answer = [i \in 1 .. dev.report |-> made]
  BY DEF answer
<1>5. \A i \in pos[1] + 1 .. m : answer[i] \in Nat
  BY <1>1, <1>3, <1>4
<1>6. packet = SubSeq(answer, pos[1] + 1, m)
  BY <1>2 DEF packet
<1> HIDE DEF m
<1>7. /\ SubSeq(answer, pos[1] + 1, m) \in Seq(Nat)
      /\ Len(SubSeq(answer, pos[1] + 1, m)) = IF pos[1] + 1 <= m THEN m - (pos[1] + 1) + 1 ELSE 0
  BY <1>1, <1>3, <1>5, SubSeqProperties
<1>8. ASSUME WellSized(dev), pos[1] = 0
      PROVE  Len(packet) = total /\ (buf = <<>> => Complete)
  <2>1. m = dev.report
    BY <1>1, <1>8 DEF m, WellSized, Lesser
  <2>2. Len(packet) = dev.report
    BY <1>1, <1>6, <1>7, <1>8, <2>1
  <2> QED
    BY <1>1, <1>2, <1>8, <2>2 DEF Complete, WellSized
<1> QED
  BY <1>6, <1>7, <1>8
-----------------------------------------------------------------------------
(* Types. *)

\* A call begins with its registers in range.
LEMMA CallType ==
  ASSUME TypeOK, NEW r \in Requests, NEW toggles \in [0 .. 1 -> 0 .. 1], Call(r, toggles)
  PROVE  CallTypeOK' /\ ToggleTypeOK' /\ got' = got
<1> USE DEF TypeOK, UsbTypeOK, CallTypeOK, ToggleTypeOK, Call, Dispatch, Stages, Codes
<1>1. CASE r = "poll"
  BY <1>1 DEF BeginIn
<1>2. CASE r # "poll"
  BY <1>2
<1> QED
  BY <1>1, <1>2

\* A failed probe leaves the registers in range.
LEMMA NextProbeType ==
  ASSUME TypeOK, NEW toggles \in [0 .. 1 -> 0 .. 1], NextProbe(toggles)
  PROVE  CallTypeOK' /\ ToggleTypeOK' /\ got' = got /\ driver' \in Drivers
<1>1. CASE driver = "mouse" /\ driver' = "keyboard" /\ Call("head", toggles)
  <2>1. "head" \in Requests
    BY DEF Requests, Gets
  <2> QED
    BY <1>1, <2>1, CallType DEF Drivers
<1>2. CASE driver' = "none" /\ rcvToggle' = toggles /\ UNCHANGED <<callVars, RCVTOG, got>>
  BY <1>2 DEF TypeOK, UsbTypeOK, CallTypeOK, ToggleTypeOK, callVars, Drivers
<1> QED
  BY <1>1, <1>2 DEF NextProbe

\* So does a time-out, which is counted below its limit.
LEMMA CountTimeoutType ==
  ASSUME TypeOK, CountTimeout
  PROVE  CallTypeOK' /\ ToggleTypeOK' /\ got' = got
BY DEF TypeOK, UsbTypeOK, CallTypeOK, ToggleTypeOK, CountTimeout, Return, Stay, Stages, Codes

\* A data packet leaves everything in range, and adds items of its own kind.
LEMMA DataType ==
  ASSUME TypeOK, StageInv, NEW acknowledged \in BOOLEAN, Data(acknowledged)
  PROVE  UsbTypeOK'
<1>1. ep \in 0 .. 1
  BY DEF ep
<1>2. IF req = "poll" THEN buf \o packet \in Seq(Nat) ELSE buf \o packet \in Seq(Items)
  <2>1. CASE req = "poll"
    BY <2>1, PacketOfPoll, ConcatProperties DEF TypeOK, UsbTypeOK, CallTypeOK
  <2>2. CASE req \in Gets
    <3>1. req # "poll"
      BY <2>2 DEF Gets
    <3> QED
      BY <2>2, <3>1, PacketType, ConcatProperties DEF TypeOK, UsbTypeOK, CallTypeOK
  <2> QED
    BY <2>1, <2>2 DEF Data, StageInv
<1>3. Len(packet) \in Nat
  BY PacketOfPoll, PacketType DEF Data, StageInv
<1>4. CallTypeOK' /\ ToggleTypeOK'
  <2>1. CASE Repeated
    BY <2>1 DEF Repeated, Return, Stay, TypeOK, UsbTypeOK, CallTypeOK, ToggleTypeOK, Stages, Codes
  <2>2. CASE Receive
    <3>1. RCVTOG' \in 0 .. 1 /\ req' = req /\ buf' = buf \o packet
      BY <2>2 DEF Receive, TypeOK, UsbTypeOK, ToggleTypeOK
    <3>2. /\ stage' \in Stages /\ nak_count' \in 0 .. NakLimit - 1
          /\ retry_count' \in 0 .. RetryLimit - 1 /\ rcode' \in Codes
      BY <2>2 DEF Receive, Finish, Return, Dispatch, Stages, Codes
    <3>3. rcvToggle' \in [0 .. 1 -> 0 .. 1]
      BY <2>2, <1>1 DEF Receive, Finish, TypeOK, UsbTypeOK, ToggleTypeOK
    <3> QED
      BY <1>2, <3>1, <3>2, <3>3 DEF TypeOK, UsbTypeOK, CallTypeOK, ToggleTypeOK
  <2> QED
    BY <2>1, <2>2 DEF Data
<1>5. got' \in Seq(0 .. MaxReports)
  <2>1. got' = got \/ got' = Append(got, made)
    BY DEF Data, Receive, Repeated, Finish, Stay
  <2> QED
    <3>1. got \in Seq(0 .. MaxReports) /\ made \in 0 .. MaxReports
      BY DEF TypeOK, UsbTypeOK, DeviceTypeOK
    <3> DEFINE S == 0 .. MaxReports
    <3> HIDE DEF S
    <3>2. got \in Seq(S) /\ made \in S
      BY <3>1 DEF S
    <3>3. Append(got, made) \in Seq(S)
      BY <3>2, AppendProperties
    <3>4. got' \in Seq(S)
      BY <2>1, <3>2, <3>3, Zenon
    <3> QED
      BY <3>4 DEF S
<1>6. /\ tog' \in [0 .. 1 -> 0 .. 1] /\ pos' \in [0 .. 1 -> Nat]
      /\ pending' \in BOOLEAN
  <2>1. CASE acknowledged
    <3>1. tog' \in [0 .. 1 -> 0 .. 1]
      BY <2>1, <1>1 DEF Data, Advance, TypeOK, UsbTypeOK, DeviceTypeOK
    <3>2. pos' \in [0 .. 1 -> Nat]
      BY <2>1, <1>1, <1>3 DEF Data, Advance, TypeOK, UsbTypeOK, DeviceTypeOK
    <3>3. pending' \in BOOLEAN
      BY <2>1 DEF Data, Advance
    <3> QED
      BY <3>1, <3>2, <3>3
  <2>2. CASE ~acknowledged
    BY <2>2 DEF Data, TypeOK, UsbTypeOK, DeviceTypeOK
  <2> QED
    BY <2>1, <2>2
<1> QED
  BY <1>4, <1>5, <1>6 DEF Data, TypeOK, UsbTypeOK, DeviceTypeOK

\* A device that does what it was told stays a device.
LEMMA ExecuteType ==
  ASSUME TypeOK, Execute
  PROVE  DeviceTypeOK'
BY DEF TypeOK, UsbTypeOK, DeviceTypeOK, Execute

\* No step of a call takes a variable out of its range.
LEMMA TransferType ==
  ASSUME TypeOK, StageInv, Transfer
  PROVE  UsbTypeOK'
<1> USE DEF TypeOK, UsbTypeOK
<1>1. ASSUME UNCHANGED devVars PROVE DeviceTypeOK'
  BY <1>1 DEF devVars, DeviceTypeOK
<1>2. CASE Nak
  <2>1. CallTypeOK' /\ ToggleTypeOK' /\ got' = got
    BY <1>2 DEF Nak, Return, Stay, CallTypeOK, ToggleTypeOK, Stages, Codes
  <2> QED
    BY <1>1, <1>2, <2>1 DEF Nak
<1>3. CASE NoAnswer
  BY <1>1, <1>3, CountTimeoutType DEF NoAnswer
<1>4. CASE OtherError
  <2>1. CallTypeOK' /\ ToggleTypeOK' /\ got' = got
    BY <1>4 DEF OtherError, Return, Stay, CallTypeOK, ToggleTypeOK, Stages, Codes
  <2> QED
    BY <1>1, <1>4, <2>1 DEF OtherError
<1>5. CASE Setup
  <2>1. CallTypeOK' /\ got' = got
    BY <1>5 DEF Setup, Dispatch, CallTypeOK, Stages, Codes
  <2>2. ToggleTypeOK'
    BY <1>5 DEF Setup, BeginIn, ToggleTypeOK
  <2>3. DeviceTypeOK'
    BY <1>5 DEF Setup, DeviceTypeOK
  <2> QED
    BY <2>1, <2>2, <2>3
<1>6. CASE Status
  <2>1. CallTypeOK' /\ ToggleTypeOK' /\ got' = got
    BY <1>6 DEF Status, Return, Stay, CallTypeOK, ToggleTypeOK, Stages, Codes
  <2> QED
    BY <1>6, <2>1, ExecuteType DEF Status
<1>7. CASE LostStatus
  BY <1>7, CountTimeoutType, ExecuteType DEF LostStatus
<1>8. ASSUME NEW acknowledged \in BOOLEAN, Data(acknowledged) PROVE UsbTypeOK'
  BY <1>8, DataType
<1> QED
  BY <1>2, <1>3, <1>4, <1>5, <1>6, <1>7, <1>8 DEF Transfer

\* The calls the program makes are calls of requests, with toggles of either kind.
LEMMA ProgramCalls ==
  ASSUME TypeOK, Program \/ Enumerate
  PROVE  /\ \/ /\ driver' \in Drivers
               /\ \E r \in Requests, toggles \in {rcvToggle, HID_init} : Call(r, toggles)
            \/ \E toggles \in {rcvToggle, HID_init} : NextProbe(toggles)
         /\ UNCHANGED devVars \/ \E d \in Devices : Arrive(d)
<1> USE DEF Requests, Gets, Sets
<1>1. driver \in Drivers
  BY DEF TypeOK
<1>2. CASE GotHead
  BY <1>1, <1>2 DEF GotHead
<1>3. CASE GotConfig
  BY <1>1, <1>3 DEF GotConfig
<1>4. CASE Configured
  BY <1>1, <1>4 DEF Configured
<1>5. CASE ProtocolSet
  BY <1>1, <1>5 DEF ProtocolSet
<1>6. CASE GotIdle
  BY <1>1, <1>6 DEF GotIdle
<1>7. CASE GotProtocol
  BY <1>1, <1>7 DEF GotProtocol
<1>8. CASE Polled
  BY <1>1, <1>8 DEF Polled
<1>9. CASE Enumerate
  BY <1>9 DEF Enumerate, Drivers
<1> QED
  BY <1>2, <1>3, <1>4, <1>5, <1>6, <1>7, <1>8, <1>9 DEF Program

\* Nor does any other step.
LEMMA TypeStep ==
  ASSUME TypeOK, StageInv, [Next]_vars
  PROVE  TypeOK'
<1>1. CASE Host
  BY <1>1, TransferType DEF Host, TypeOK
<1>2. CASE Program \/ Enumerate
  <2>1. \A toggles \in {rcvToggle, HID_init} : toggles \in [0 .. 1 -> 0 .. 1]
    BY DEF TypeOK, UsbTypeOK, ToggleTypeOK, HID_init
  <2>2. CallTypeOK' /\ ToggleTypeOK' /\ got' = got /\ driver' \in Drivers
    BY <1>2, <2>1, ProgramCalls, CallType, NextProbeType
  <2>3. DeviceTypeOK'
    BY <1>2, ProgramCalls DEF TypeOK, UsbTypeOK, DeviceTypeOK, devVars, Arrive
  <2> QED
    BY <2>2, <2>3 DEF TypeOK, UsbTypeOK
<1>3. CASE World
  <2>1. CASE MakeReport
    BY <1>3, <2>1 DEF World, MakeReport, hostVars, callVars, TypeOK, UsbTypeOK, CallTypeOK, ToggleTypeOK, DeviceTypeOK
  <2>2. CASE Leave
    <3>1. CallTypeOK' /\ ToggleTypeOK' /\ got' = got /\ driver' = driver
      BY <1>3, <2>2 DEF World, Leave, hostVars, callVars, TypeOK, UsbTypeOK, CallTypeOK, ToggleTypeOK
    <3>2. tog' \in [0 .. 1 -> 0 .. 1] /\ pos' \in [0 .. 1 -> Nat]
      BY <2>2 DEF Leave
    <3>3. dev' = dev /\ made' = made /\ ~there' /\ ~configured' /\ ~boot' /\ ~pending'
          /\ there' \in BOOLEAN /\ configured' \in BOOLEAN /\ boot' \in BOOLEAN /\ pending' \in BOOLEAN
      BY <2>2 DEF Leave
    <3> QED
      BY <3>1, <3>2, <3>3 DEF TypeOK, UsbTypeOK, DeviceTypeOK
  <2> QED
    BY <1>3, <2>1, <2>2 DEF World
<1>4. CASE UNCHANGED vars
  BY <1>4 DEF vars, usbVars, hostVars, callVars, devVars, TypeOK, UsbTypeOK, CallTypeOK, ToggleTypeOK, DeviceTypeOK
<1> QED
  BY <1>1, <1>2, <1>3, <1>4 DEF Next
-----------------------------------------------------------------------------
(* Stages. *)

\* A call begins in the stage its request has.
LEMMA CallStage ==
  ASSUME NEW r \in Requests, NEW toggles, Call(r, toggles)
  PROVE  StageInv' /\ stage' # "idle" /\ stage' # "status" /\ req' = r
                   /\ (r # "poll" => stage' = "setup")
BY DEF Call, Dispatch, StageInv

\* A call goes through the stages its request has.
LEMMA TransferStage ==
  ASSUME TypeOK, StageInv, Transfer
  PROVE  StageInv' /\ req' = req
<1> USE DEF StageInv, Return, Dispatch, Stay
<1>0. req \in Requests
  BY DEF TypeOK, UsbTypeOK, CallTypeOK
<1>1. CASE Nak
  BY <1>1 DEF Nak
<1>2. CASE NoAnswer
  BY <1>2 DEF NoAnswer, CountTimeout
<1>3. CASE OtherError
  BY <1>3 DEF OtherError
<1>4. CASE Setup
  BY <1>0, <1>4 DEF Setup
<1>5. CASE Status
  BY <1>5 DEF Status
<1>6. CASE LostStatus
  BY <1>6 DEF LostStatus, CountTimeout
<1>7. ASSUME NEW acknowledged \in BOOLEAN, Data(acknowledged) PROVE StageInv' /\ req' = req
  <2>1. CASE Receive
    BY <1>7, <2>1 DEF Data, Receive, Finish
  <2>2. CASE Repeated
    BY <1>7, <2>2 DEF Data, Repeated
  <2> QED
    BY <1>7, <2>1, <2>2 DEF Data
<1> QED
  BY <1>1, <1>2, <1>3, <1>4, <1>5, <1>6, <1>7 DEF Transfer

\* The stages are those of the request after every step.
LEMMA StageStep ==
  ASSUME TypeOK, StageInv, [Next]_vars
  PROVE  StageInv'
<1>1. CASE Host
  BY <1>1, TransferStage DEF Host
<1>2. CASE Program \/ Enumerate
  <2>1. ASSUME NEW r \in Requests, NEW toggles, Call(r, toggles) PROVE StageInv'
    BY <2>1, CallStage
  <2>2. ASSUME NEW toggles, NextProbe(toggles) PROVE StageInv'
    <3>1. "head" \in Requests
      BY DEF Requests, Gets
    <3> QED
      BY <2>2, <3>1, CallStage DEF NextProbe, StageInv, callVars
  <2> QED
    BY <1>2, <2>1, <2>2, ProgramCalls
<1>3. CASE World
  BY <1>3 DEF World, MakeReport, Leave, hostVars, callVars, StageInv
<1>4. CASE UNCHANGED vars
  BY <1>4 DEF vars, usbVars, hostVars, callVars, StageInv
<1> QED
  BY <1>1, <1>2, <1>3, <1>4 DEF Next
-----------------------------------------------------------------------------
(* What control transfers bring. *)

\* The answer to a request for data depends on the device only, and on whether
\* it has been told to use the boot protocol.
LEMMA AnswerStays ==
  ASSUME req \in Gets, req' = req, dev' = dev, boot' = boot
  PROVE  answer' = answer /\ total' = total
<1>1. answer' = answer
  <2>1. CASE req \in {"head", "config"}
    BY <2>1 DEF answer
  <2>2. CASE req = "getIdle"
    BY <2>2 DEF answer
  <2>3. CASE req = "getProto"
    BY <2>3 DEF answer
  <2> QED
    BY <2>1, <2>2, <2>3 DEF Gets
<1>2. nbytes' = nbytes
  BY DEF nbytes
<1> QED
  BY <1>1, <1>2 DEF total, Gets

\* A data packet, come or repeated, acknowledged or not, keeps what has been received exact.
LEMMA DataControl ==
  ASSUME IInv, NEW acknowledged \in BOOLEAN, Data(acknowledged)
  PROVE  ControlInv'
<1> SUFFICES ASSUME req' \in Gets
             PROVE  /\ stage' = "data" /\ tog'[0] = RCVTOG' =>
                         pos'[0] <= total' /\ buf' = SubSeq(answer', 1, pos'[0])
                    /\ stage' = "status" \/ (stage' = "idle" /\ rcode' = "ok") =>
                         buf' = SubSeq(answer', 1, total')
  BY DEF ControlInv
<1>1. req' = req /\ dev' = dev /\ boot' = boot /\ stage = "data" /\ there
  BY DEF Data, Receive, Repeated, Stay
<1>2. answer' = answer /\ total' = total /\ ep = 0 /\ req # "poll"
  BY <1>1, AnswerStays, AnswerOfGet DEF Gets, ep
<1>3. CASE Repeated
  BY <1>3 DEF Repeated, Return
<1>4. CASE Receive
  <2> DEFINE m == Lesser(pos[0] + maxpktsize, total)
  <2>1. /\ tog[0] = RCVTOG /\ pos[0] <= total /\ buf = SubSeq(answer, 1, pos[0])
    BY <1>1, <1>2, <1>4 DEF IInv, ControlInv, Receive
  <2>2. /\ buf' = SubSeq(answer, 1, m)
        /\ Complete => m = total
        /\ ~Complete => m = pos[0] + Len(packet)
        /\ m <= total
    <3>1. TypeOK /\ req \in Gets
      BY <1>1 DEF IInv
    <3>2. buf' = buf \o packet
      BY <1>4 DEF Receive
    <3>3. m = Lesser(pos[0] + maxpktsize, total)
      OBVIOUS
    <3> HIDE DEF m
    <3>4. /\ buf \o packet = SubSeq(answer, 1, m)
          /\ Complete => m = total
          /\ ~Complete => m = pos[0] + Len(packet)
      BY <2>1, <3>1, <3>3, PacketCarriesOn
    <3>5. m \in pos[0] .. total
      BY <2>1, <3>1, <3>3, PacketOfGet
    <3> QED
      BY <3>1, <3>2, <3>4, <3>5, AnswerOfGet
  <2> HIDE DEF m
  <2>3. CASE Complete
    <3>1. stage' = "status"
      BY <1>2, <1>4, <2>3 DEF Receive, Finish, Dispatch
    <3> QED
      BY <1>2, <2>2, <2>3, <3>1
  <2>4. CASE ~Complete
    <3>1. stage' = "data" /\ RCVTOG' = 1 - RCVTOG
      BY <1>4, <2>4 DEF Receive, Dispatch
    <3>2. CASE acknowledged
      <4>1. pos'[0] = pos[0] + Len(packet)
        BY <1>2, <3>2 DEF Data, Advance, IInv, TypeOK, UsbTypeOK, DeviceTypeOK
      <4> QED
        BY <1>2, <2>2, <2>4, <3>1, <4>1
    <3>3. CASE ~acknowledged
      <4>1. tog' = tog /\ RCVTOG \in 0 .. 1
        BY <3>3 DEF Data, IInv, TypeOK, UsbTypeOK, ToggleTypeOK
      <4> QED
        BY <2>1, <3>1, <4>1
    <3> QED
      BY <3>2, <3>3
  <2> QED
    BY <2>3, <2>4
<1> QED
  BY <1>3, <1>4 DEF Data

\* So does every other step of a call.
LEMMA TransferControl ==
  ASSUME IInv, Transfer
  PROVE  ControlInv'
<1> USE DEF IInv
<1>1. CASE Nak
  <2>1. there' = there /\ req' = req /\ dev' = dev /\ boot' = boot /\ buf' = buf
        /\ tog' = tog /\ pos' = pos /\ RCVTOG' = RCVTOG
        /\ (stage' = stage \/ (stage' = "idle" /\ rcode' = "NAK"))
        /\ stage # "idle"
    BY <1>1 DEF Nak, Return, Stay, devVars
  <2> QED
    BY <2>1, AnswerStays DEF ControlInv
<1>2. CASE NoAnswer
  <2>1. there' = there /\ req' = req /\ dev' = dev /\ boot' = boot /\ buf' = buf
        /\ tog' = tog /\ pos' = pos /\ RCVTOG' = RCVTOG
        /\ (stage' = stage \/ (stage' = "idle" /\ rcode' = "TIMEOUT"))
        /\ stage # "idle"
    BY <1>2 DEF NoAnswer, CountTimeout, Return, Stay, devVars
  <2> QED
    BY <2>1, AnswerStays DEF ControlInv
<1>3. CASE OtherError
  BY <1>3 DEF OtherError, Return, ControlInv
<1>4. CASE Setup
  <2> SUFFICES ASSUME there', req' \in Gets PROVE
        /\ stage' = "data" /\ pos'[0] <= total' /\ buf' = SubSeq(answer', 1, pos'[0])
    BY DEF ControlInv
  <2>1. req' = req /\ dev' = dev /\ boot' = boot /\ stage' = "data" /\ buf' = <<>>
    BY <1>4 DEF Setup, Dispatch, StageInv
  <2>2. pos'[0] = 0
    BY <1>4 DEF Setup, TypeOK, UsbTypeOK, DeviceTypeOK
  <2>3. total' \in Nat
    BY <2>1, AnswerStays, AnswerOfGet
  <2>4. SubSeq(answer', 1, 0) = <<>>
    BY SubSeqEmpty
  <2> QED
    BY <2>1, <2>2, <2>3, <2>4
<1>5. CASE Status \/ LostStatus
  <2> SUFFICES ASSUME there', req' \in Gets PROVE stage' \in {"status", "idle"} /\ buf' = SubSeq(answer', 1, total')
    BY DEF ControlInv
  <2>1. req' = req /\ stage = "status" /\ there /\ buf' = buf /\ dev' = dev
        /\ stage' \in {"status", "idle"}
    BY <1>5 DEF Status, LostStatus, CountTimeout, Return, Stay, Execute
  <2>2. boot' = boot
    BY <1>5, <2>1 DEF Status, LostStatus, Execute, Gets, TypeOK, UsbTypeOK, DeviceTypeOK
  <2> QED
    BY <2>1, <2>2, AnswerStays DEF ControlInv
<1>6. ASSUME NEW acknowledged \in BOOLEAN, Data(acknowledged) PROVE ControlInv'
  BY <1>6, DataControl
<1> QED
  BY <1>1, <1>2, <1>3, <1>4, <1>5, <1>6 DEF Transfer

\* And every step of the system; a new call starts from nothing.
LEMMA ControlStep ==
  ASSUME IInv, [Next]_vars
  PROVE  ControlInv'
<1> USE DEF IInv
<1>1. CASE Host
  BY <1>1, TransferControl DEF Host
<1>2. CASE Program \/ Enumerate
  <2>1. ASSUME NEW r \in Requests, NEW toggles, Call(r, toggles) PROVE ControlInv'
    <3>1. CASE r = "poll"
      BY <2>1, <3>1, CallStage DEF ControlInv, Gets
    <3>2. CASE r # "poll"
      BY <2>1, <3>2, CallStage DEF ControlInv
    <3> QED
      BY <3>1, <3>2
  <2>2. ASSUME NEW toggles, NextProbe(toggles), UNCHANGED devVars PROVE ControlInv'
    <3>1. CASE Call("head", toggles)
      BY <3>1, <2>1 DEF Requests, Gets
    <3>2. CASE UNCHANGED <<callVars, RCVTOG>>
      <4>1. there' = there /\ req' = req /\ dev' = dev /\ boot' = boot /\ buf' = buf
            /\ tog' = tog /\ pos' = pos /\ RCVTOG' = RCVTOG /\ stage' = stage /\ rcode' = rcode
        BY <2>2, <3>2 DEF callVars, devVars
      <4> QED
        BY <4>1, AnswerStays DEF ControlInv
    <3> QED
      BY <2>2, <3>1, <3>2 DEF NextProbe
  <2>3. CASE Enumerate
    BY <2>1, <2>3 DEF Enumerate, Requests, Gets
  <2>4. CASE Program
    <3>1. UNCHANGED devVars
      BY <2>4 DEF Program, GotHead, GotConfig, Configured, ProtocolSet, GotIdle, GotProtocol, Polled
    <3> QED
      BY <2>1, <2>2, <2>4, <3>1, ProgramCalls
  <2> QED
    BY <1>2, <2>3, <2>4
<1>3. CASE World
  <2>1. CASE Leave
    BY <1>3, <2>1 DEF World, Leave, ControlInv
  <2>2. CASE MakeReport
    <3>1. there' = there /\ req' = req /\ dev' = dev /\ boot' = boot /\ buf' = buf
          /\ tog' = tog /\ pos' = pos /\ RCVTOG' = RCVTOG /\ stage' = stage /\ rcode' = rcode
      BY <2>2 DEF MakeReport, hostVars, callVars
    <3> QED
      BY <3>1, AnswerStays DEF ControlInv
  <2> QED
    BY <1>3, <2>1, <2>2 DEF World
<1>4. CASE UNCHANGED vars
  <2>1. there' = there /\ req' = req /\ dev' = dev /\ boot' = boot /\ buf' = buf
        /\ tog' = tog /\ pos' = pos /\ RCVTOG' = RCVTOG /\ stage' = stage /\ rcode' = rcode
    BY <1>4 DEF vars, usbVars, hostVars, callVars, devVars
  <2> QED
    BY <2>1, AnswerStays DEF ControlInv
<1> QED
  BY <1>1, <1>2, <1>3, <1>4 DEF Next
-----------------------------------------------------------------------------
(* What is polled. *)

\* A configuration that was read to its end, or as far as bigbuf reaches, tells
\* what the device is.
LEMMA MatchIsWanted ==
  ASSUME IInv, there, stage = "idle", req = "config", rcode = "ok", classMatches
  PROVE  IsWanted
<1>1. req \in Gets /\ TypeOK /\ buf = SubSeq(answer, 1, total)
  BY DEF IInv, ControlInv, Gets
<1>2. answer = dev.config
  BY DEF answer
<1>3. total \in 0 .. Len(dev.config) /\ dev.config \in Seq(Items)
  BY <1>1, <1>2, AnswerOfGet
<1>4. \A i \in 1 .. total : dev.config[i] \in Items
  BY <1>3, ElementOfSeq
<1>5. /\ SubSeq(dev.config, 1, total) \in Seq(Items)
      /\ Len(SubSeq(dev.config, 1, total)) = IF 1 <= total THEN total - 1 + 1 ELSE 0
      /\ \A i \in 1 .. total - 1 + 1 : SubSeq(dev.config, 1, total)[i] = dev.config[1 + i - 1]
  BY <1>3, <1>4, SubSeqProperties
<1>6. PICK i \in DOMAIN buf : buf[i] = driver
  BY DEF classMatches
<1>7. buf \in Seq(Items) /\ Len(buf) = total
  BY <1>1, <1>2, <1>3, <1>5
<1>8. i \in 1 .. total
  BY <1>6, <1>7, LenProperties
<1>9. buf[i] = dev.config[i]
  BY <1>1, <1>2, <1>3, <1>5, <1>8
<1>10. i \in DOMAIN dev.config
  BY <1>3, <1>8, LenProperties
<1> QED
  BY <1>6, <1>9, <1>10 DEF IsWanted

\* A call that succeeds has made the device do what it was told.
LEMMA TransferDriver ==
  ASSUME IInv, Transfer, UNCHANGED driver
  PROVE  DriverInv'
<1> USE DEF IInv
<1>1. req' = req
  BY TransferStage
<1>2. /\ there' = there /\ dev' = dev
      /\ configured => configured'
      /\ boot => boot'
  <2>1. ASSUME UNCHANGED devVars
        PROVE  there' = there /\ dev' = dev /\ configured' = configured /\ boot' = boot
    BY <2>1 DEF devVars
  <2>2. CASE Nak \/ NoAnswer \/ OtherError
    BY <2>1, <2>2 DEF Nak, NoAnswer, OtherError
  <2>3. CASE Setup
    BY <2>3 DEF Setup
  <2>4. CASE Status \/ LostStatus
    <3>1. Execute
      BY <2>4 DEF Status, LostStatus
    <3>2. there' = there /\ dev' = dev
      BY <3>1 DEF Execute
    <3>3. configured' = (configured \/ req = "setConf")
      BY <3>1 DEF Execute
    <3>4. boot' = (boot \/ req = "setProto")
      BY <3>1 DEF Execute
    <3> QED
      BY <3>2, <3>3, <3>4, Zenon
  <2>5. ASSUME NEW acknowledged \in BOOLEAN, Data(acknowledged)
        PROVE  there' = there /\ dev' = dev /\ configured' = configured /\ boot' = boot
    BY <2>5 DEF Data
  <2> QED
    BY <2>2, <2>3, <2>4, <2>5, Zenon DEF Transfer
<1>3. ASSUME req \in Sets, stage' = "idle", rcode' = "ok"
      PROVE  (req = "setConf" => configured') /\ (req = "setProto" => boot')
  <2>1. CASE Status
    BY <2>1 DEF Status, Execute
  <2>2. CASE Nak \/ NoAnswer \/ LostStatus \/ OtherError
    BY <1>3, <2>2 DEF Nak, NoAnswer, LostStatus, OtherError, CountTimeout, Return
  <2>3. CASE Setup
    BY <1>3, <2>3 DEF Setup, Dispatch
  <2>4. ASSUME NEW acknowledged \in BOOLEAN, Data(acknowledged) PROVE FALSE
    BY <1>3, <2>4 DEF Data, StageInv, Sets, Gets
  <2> QED
    BY <2>1, <2>2, <2>3, <2>4 DEF Transfer
<1>4. IsWanted => IsWanted'
  BY <1>2 DEF IsWanted
<1> QED
  BY <1>1, <1>2, <1>3, <1>4 DEF DriverInv, Sets

\* What has been found out about a device stays true until it goes.
LEMMA DriverStep ==
  ASSUME IInv, [Next]_vars
  PROVE  DriverInv'
<1> USE DEF IInv
<1>1. CASE Host
  BY <1>1, TransferDriver DEF Host
<1>2. ASSUME NEW r \in Requests, NEW toggles, Call(r, toggles) PROVE req' = r /\ stage' # "idle"
  BY <1>2, CallStage
<1>3. ASSUME NEW toggles, NextProbe(toggles) PROVE DriverInv'
  <2>1. CASE Call("head", toggles)
    BY <1>2, <2>1 DEF DriverInv, Requests, Gets
  <2> QED
    BY <1>3, <2>1 DEF NextProbe, DriverInv
<1>4. CASE Program
  <2>1. /\ there' = there /\ dev' = dev /\ configured' = configured /\ boot' = boot
        /\ (driver' = driver /\ IsWanted => IsWanted')
    <3>1. UNCHANGED devVars
      BY <1>4 DEF Program, GotHead, GotConfig, Configured, ProtocolSet, GotIdle, GotProtocol, Polled
    <3> QED
      BY <3>1 DEF devVars, IsWanted
  <2>2. CASE GotHead
    BY <1>2, <1>3, <2>2 DEF GotHead, DriverInv, Requests, Gets
  <2>3. CASE GotConfig
    <3>1. CASE ok /\ classMatches /\ Call("setConf", HID_init) /\ UNCHANGED driver
      <4>1. there => IsWanted
        BY <2>3, <3>1, MatchIsWanted DEF GotConfig, returned, ok
      <4>2. req' = "setConf" /\ stage' # "idle"
        BY <1>2, <3>1 DEF Requests, Sets
      <4>3. there' = there /\ (IsWanted => IsWanted')
        BY <2>1, <3>1
      <4> QED
        BY <4>1, <4>2, <4>3 DEF DriverInv
    <3> QED
      BY <1>3, <2>3, <3>1 DEF GotConfig
  <2>4. CASE Configured
    <3>1. CASE ok /\ Call("setProto", rcvToggle) /\ UNCHANGED driver
      <4>1. req' = "setProto" /\ stage' # "idle"
        BY <1>2, <3>1 DEF Requests, Sets
      <4>2. there /\ driver # "none" => IsWanted /\ configured
        BY <2>4, <3>1 DEF Configured, returned, ok, DriverInv
      <4> QED
        BY <2>1, <3>1, <4>1, <4>2 DEF DriverInv
    <3> QED
      BY <1>3, <2>4, <3>1 DEF Configured
  <2>5. CASE ProtocolSet
    BY <1>2, <1>3, <2>1, <2>5 DEF ProtocolSet, DriverInv, returned, ok, Requests, Gets
  <2>6. CASE GotIdle
    BY <1>2, <2>1, <2>6 DEF GotIdle, DriverInv, returned, Requests, Gets
  <2>7. CASE GotProtocol
    BY <1>2, <2>1, <2>7 DEF GotProtocol, DriverInv, returned, Requests
  <2>8. CASE Polled
    BY <1>2, <2>1, <2>8 DEF Polled, DriverInv, returned, Requests
  <2> QED
    BY <1>4, <2>2, <2>3, <2>4, <2>5, <2>6, <2>7, <2>8 DEF Program
<1>5. CASE Enumerate
  BY <1>2, <1>5 DEF Enumerate, DriverInv, Requests, Gets
<1>6. CASE World
  <2>1. CASE Leave
    BY <2>1 DEF Leave, DriverInv
  <2>2. CASE MakeReport
    BY <1>6, <2>2 DEF World, MakeReport, hostVars, callVars, DriverInv, IsWanted
  <2> QED
    BY <1>6, <2>1, <2>2 DEF World
<1>7. CASE UNCHANGED vars
  BY <1>7 DEF vars, usbVars, hostVars, callVars, devVars, DriverInv, IsWanted
<1> QED
  BY <1>1, <1>4, <1>5, <1>6, <1>7 DEF Next

\* The invariant holds at power-up.
LEMMA InitIInv == ASSUME Init PROVE IInv
<1>1. <<>> \in Seq(Items) /\ <<>> \in Seq(0 .. MaxReports)
  OBVIOUS
<1>2. CallTypeOK
  BY <1>1 DEF Init, CallTypeOK, Stages, Requests, Gets, Codes
<1>3. ToggleTypeOK /\ DeviceTypeOK /\ driver \in Drivers
  <2>1. ToggleTypeOK /\ tog \in [0 .. 1 -> 0 .. 1] /\ pos \in [0 .. 1 -> Nat]
    BY DEF Init, ToggleTypeOK
  <2>2. dev \in Devices /\ made \in 0 .. MaxReports /\ driver \in Drivers
    BY DEF Init, Drivers
  <2>3. there \in BOOLEAN /\ configured \in BOOLEAN /\ boot \in BOOLEAN /\ pending \in BOOLEAN
    BY DEF Init
  <2> QED
    BY <2>1, <2>2, <2>3 DEF DeviceTypeOK
<1>4. got \in Seq(0 .. MaxReports)
  BY <1>1 DEF Init
<1>5. TypeOK
  BY <1>2, <1>3, <1>4 DEF TypeOK, UsbTypeOK
<1>6. StageInv /\ ControlInv /\ DriverInv
  BY DEF Init, StageInv, ControlInv, DriverInv
<1> QED
  BY <1>5, <1>6 DEF IInv

\* The invariant holds in every reachable state.
LEMMA Invariance == Spec => []IInv
<1>1. IInv /\ [Next]_vars => IInv'
  BY TypeStep, StageStep, ControlStep, DriverStep DEF IInv
<1> QED
  BY InitIInv, <1>1, PTL DEF Spec

\* Counters, toggles and stages stay in range, whatever is lost on the bus.
THEOREM TypeCorrect == Spec => []TypeOK
<1>1. IInv => TypeOK
  BY DEF IInv
<1> QED
  BY <1>1, Invariance, PTL

\* A control transfer that gets to its status stage has received what was asked
\* for, in order and once (transfer.c:213-223).
THEOREM ControlIsExactHolds == Spec => []ControlIsExact
<1>1. IInv => ControlIsExact
  BY DEF IInv, ControlInv, ControlIsExact
<1> QED
  BY <1>1, Invariance, PTL

\* What is polled has taken both of its orders, and is what it is taken for
\* (HID.c:181-190).
THEOREM PolledHolds == Spec => []PolledIsConfigured
<1>1. IInv => PolledIsConfigured
  BY DEF IInv, DriverInv, IsWanted, PolledIsConfigured
<1> QED
  BY <1>1, Invariance, PTL
-----------------------------------------------------------------------------
(* Polling is the reading of reports. *)

Fresh(n) == ~hasRead(n)

\* The toggles of host and device differ just when the device has not heard
\* that its report was read.  Until the first poll both are those of a device
\* that has just been configured.
PollInv ==
  /\ pos[1] = 0
  /\ ~there => ~configured /\ ~pending
  /\ pending => configured
  /\ req # "poll" => /\ configured => tog[1] = 0 /\ rcvToggle[1] = 0
                     /\ pending => Fresh(made)
  /\ req = "setConf" => rcvToggle[1] = 0
  /\ configured => (rcvToggle[1] = tog[1] <=> ~pending \/ Fresh(made))
  /\ req = "poll" /\ stage = "data" => RCVTOG = rcvToggle[1] /\ buf = <<>>
  /\ \A i \in 1 .. Len(got) : got[i] <= made

SInv == TypeOK /\ StageInv /\ PollInv

StreamStep == [Stream!Next]_(Stream!vars)

\* What has nothing to do with reports is no step of the stream.
LEMMA StreamStutters ==
  ASSUME there' = there, made' = made, pending' = pending, got' = got
  PROVE  StreamStep
BY DEF StreamStep, Stream!vars, hasRead

\* What TypeOK says of the values the polls depend on.
LEMMA TypeFacts ==
  ASSUME TypeOK
  PROVE  /\ tog[0] \in 0 .. 1 /\ tog[1] \in 0 .. 1 /\ rcvToggle[0] \in 0 .. 1 /\ rcvToggle[1] \in 0 .. 1
         /\ RCVTOG \in 0 .. 1 /\ made \in Nat /\ dev \in Devices
         /\ got \in Seq(Nat) /\ Len(got) \in Nat
BY DEF TypeOK, UsbTypeOK, ToggleTypeOK, DeviceTypeOK

\* A poll that a device with a report gets.
LEMMA PollData ==
  ASSUME SInv, WellSized(dev), req = "poll", NEW acknowledged \in BOOLEAN, Data(acknowledged)
  PROVE  PollInv' /\ StreamStep
<1>1. /\ configured /\ pending /\ there /\ stage = "data" /\ pos[1] = 0
      /\ RCVTOG = rcvToggle[1] /\ buf = <<>>
      /\ rcvToggle[1] = tog[1] <=> Fresh(made)
  BY DEF SInv, PollInv, Data, hasData
<1>2. ep = 1 /\ Len(packet) = total /\ Complete /\ total \in Nat
  BY <1>1, PacketOfPoll DEF SInv, ep
<1>3. /\ there' = there /\ configured' = configured /\ made' = made /\ req' = req
      /\ dev' = dev /\ stage' = "idle"
  BY <1>2 DEF Data, Receive, Repeated, Finish, Return, Stay
<1>4. pos'[1] = 0
  <2>1. CASE acknowledged
    <3>1. pos[1] + Len(packet) >= total
      BY <1>1, <1>2
    <3>2. pos' = [pos EXCEPT ![1] = 0]
      BY <1>1, <1>2, <2>1, <3>1 DEF Data, Advance
    <3> QED
      BY <3>2 DEF SInv, TypeOK, UsbTypeOK, DeviceTypeOK
  <2>2. CASE ~acknowledged
    BY <1>1, <2>2 DEF Data
  <2> QED
    BY <2>1, <2>2
<1>5. IF acknowledged THEN tog'[1] = 1 - tog[1] /\ ~pending' ELSE tog'[1] = tog[1] /\ pending' = pending
  <2>1. CASE acknowledged
    <3>1. tog'[1] = 1 - tog[1]
      BY <1>2, <2>1 DEF Data, Advance, SInv, TypeOK, UsbTypeOK, DeviceTypeOK
    <3>2. pos[1] + Len(packet) >= total
      BY <1>1, <1>2
    <3>3. ~pending'
      BY <2>1, <3>2 DEF Data, Advance
    <3> QED
      BY <2>1, <3>1, <3>3
  <2>2. CASE ~acknowledged
    BY <2>2 DEF Data
  <2> QED
    BY <2>1, <2>2
<1>6. CASE Receive
  <2>1. tog[1] = RCVTOG /\ got' = Append(got, made)
    BY <1>2, <1>6 DEF Receive, Finish
  <2>2. rcvToggle'[1] = 1 - RCVTOG
    BY <1>2, <1>6 DEF Receive, Finish, SInv, TypeOK, UsbTypeOK, ToggleTypeOK
  <2>3. /\ Len(got') = Len(got) + 1 /\ got' # <<>> /\ got'[Len(got) + 1] = made
        /\ \A i \in 1 .. Len(got) : got'[i] = got[i]
        /\ Len(got) \in Nat /\ made \in Nat
    BY <2>1, TypeFacts, AppendProperties DEF SInv
  <2>4. hasRead(made)'
    BY <1>3, <2>3 DEF hasRead
  <2>5. \A i \in 1 .. Len(got') : got'[i] <= made'
    BY <1>3, <2>3 DEF SInv, PollInv
  <2>6. rcvToggle'[1] = tog'[1] <=> ~pending'
    <3>1. tog[1] \in 0 .. 1
      BY TypeFacts DEF SInv
    <3>2. CASE acknowledged
      <4>1. ~pending'
        BY <1>5, <3>2
      <4>2. rcvToggle'[1] = tog'[1]
        BY <1>5, <2>1, <2>2, <3>2
      <4> QED
        BY <4>1, <4>2
    <3>3. CASE ~acknowledged
      <4>1. pending'
        BY <1>1, <1>5, <3>3, Zenon
      <4>2. rcvToggle'[1] # tog'[1]
        BY <1>5, <2>1, <2>2, <3>1, <3>3
      <4> QED
        BY <4>1, <4>2
    <3> QED
      BY <3>2, <3>3
  <2>7. PollInv'
    BY <1>1, <1>3, <1>4, <2>4, <2>5, <2>6 DEF PollInv, Fresh
  <2>8. Stream!Read
    BY <1>1, <1>3, <2>1, <2>4 DEF Stream!Read, Fresh
  <2> QED
    BY <2>7, <2>8 DEF StreamStep, Stream!Next
<1>7. CASE Repeated
  <2>1. tog[1] # RCVTOG /\ got' = got /\ rcvToggle' = rcvToggle
    BY <1>2, <1>7 DEF Repeated, Stay
  <2>2. hasRead(made) /\ hasRead(made)'
    BY <1>1, <1>3, <2>1 DEF hasRead, Fresh
  <2>3. rcvToggle'[1] = tog'[1] <=> ~pending'
    <3>1. tog[1] \in 0 .. 1 /\ RCVTOG \in 0 .. 1
      BY TypeFacts DEF SInv
    <3>2. CASE acknowledged
      <4>1. ~pending'
        BY <1>5, <3>2
      <4>2. rcvToggle'[1] = tog'[1]
        BY <1>1, <1>5, <2>1, <3>1, <3>2
      <4> QED
        BY <4>1, <4>2
    <3>3. CASE ~acknowledged
      <4>1. pending'
        BY <1>1, <1>5, <3>3, Zenon
      <4>2. rcvToggle'[1] # tog'[1]
        BY <1>1, <1>5, <2>1, <3>1, <3>3
      <4> QED
        BY <4>1, <4>2
    <3> QED
      BY <3>2, <3>3
  <2>4. PollInv'
    BY <1>1, <1>3, <1>4, <2>1, <2>2, <2>3 DEF SInv, PollInv, Fresh
  <2>5. UNCHANGED Stream!vars
    BY <1>3, <2>1, <2>2 DEF Stream!vars
  <2> QED
    BY <2>4, <2>5 DEF StreamStep
<1> QED
  BY <1>6, <1>7 DEF Data

\* What changes neither the polled endpoint, on either side, nor the reports.
LEMMA PollStays ==
  ASSUME SInv, there' = there, configured' = configured, pending' = pending,
         made' = made, got' = got, req' = req,
         pos'[1] = pos[1], tog'[1] = tog[1], rcvToggle'[1] = rcvToggle[1],
         req = "poll" /\ stage' = "data" => stage = "data" /\ RCVTOG' = RCVTOG /\ buf' = buf
  PROVE  PollInv'
<1>1. PollInv
  BY DEF SInv
<1>2. Fresh(made)' <=> Fresh(made)
  BY DEF Fresh, hasRead
<1> QED
  BY <1>1, <1>2 DEF PollInv

\* The step of a call that is no packet of a poll.
LEMMA TransferPoll ==
  ASSUME SInv, WellSized(dev), Transfer
  PROVE  PollInv' /\ StreamStep
<1>1. PollInv /\ TypeOK /\ StageInv
  BY DEF SInv
<1>2. ASSUME Stay, UNCHANGED devVars, stage' = stage \/ stage' = "idle"
      PROVE  PollInv' /\ StreamStep
  BY <1>2, PollStays, StreamStutters DEF Stay, devVars
<1>3. CASE Nak
  BY <1>2, <1>3 DEF Nak, Return
<1>4. CASE NoAnswer
  BY <1>2, <1>4 DEF NoAnswer, CountTimeout, Return
<1>5. CASE OtherError
  BY <1>2, <1>5 DEF OtherError, Return
<1>6. CASE Setup
  <2>1. req # "poll"
    BY <1>1, <1>6 DEF Setup, StageInv
  <2>2. pos'[1] = pos[1] /\ tog'[1] = tog[1]
    BY <1>1, <1>6 DEF Setup, TypeOK, UsbTypeOK, DeviceTypeOK
  <2>3. rcvToggle'[1] = rcvToggle[1]
    BY <1>1, <1>6 DEF Setup, BeginIn, TypeOK, UsbTypeOK, ToggleTypeOK
  <2> QED
    BY <1>6, <2>1, <2>2, <2>3, PollStays, StreamStutters DEF Setup
<1>7. CASE Status \/ LostStatus
  <2>1. Execute /\ Stay /\ req # "poll" /\ there
    BY <1>1, <1>7 DEF Status, LostStatus, CountTimeout, StageInv
  <2>2. /\ req' = req /\ rcvToggle' = rcvToggle /\ got' = got /\ there' = there
        /\ pos' = pos /\ pending' = pending /\ made' = made
    BY <2>1 DEF Execute, Stay
  <2>3. CASE req = "setConf"
    <3>1. tog'[1] = 0 /\ rcvToggle'[1] = 0
      BY <1>1, <2>1, <2>2, <2>3 DEF Execute, PollInv, TypeOK, UsbTypeOK, DeviceTypeOK
    <3>2. configured'
      BY <2>1, <2>3 DEF Execute
    <3>3. pending => Fresh(made)
      BY <1>1, <2>1 DEF PollInv
    <3>4. Fresh(made)' <=> Fresh(made)
      BY <2>2 DEF Fresh, hasRead
    <3>5. PollInv'
      BY <1>1, <2>1, <2>2, <3>1, <3>2, <3>3, <3>4 DEF PollInv
    <3> QED
      BY <2>2, <3>5, StreamStutters
  <2>4. CASE req # "setConf"
    <3>1. tog' = tog /\ configured' = configured
      <4>1. tog' = tog
        BY <2>1, <2>4 DEF Execute
      <4>2. configured' = (configured \/ req = "setConf") /\ configured \in BOOLEAN
        BY <1>1, <2>1 DEF Execute, TypeOK, UsbTypeOK, DeviceTypeOK
      <4> QED
        BY <2>4, <4>1, <4>2
    <3> QED
      BY <2>1, <2>2, <3>1, PollStays, StreamStutters
  <2> QED
    BY <2>3, <2>4
<1>8. ASSUME NEW acknowledged \in BOOLEAN, Data(acknowledged)
      PROVE  PollInv' /\ StreamStep
  <2>1. CASE req = "poll"
    BY <1>8, <2>1, PollData
  <2>2. CASE req # "poll"
    <3>1. ep = 0
      BY <2>2 DEF ep
    <3>2. tog'[1] = tog[1] /\ pos'[1] = pos[1] /\ pending' = pending
      <4>1. CASE acknowledged
        <5>1. pending' = pending
          BY <1>1, <1>8, <2>2, <4>1 DEF Data, Advance, TypeOK, UsbTypeOK, DeviceTypeOK
        <5>2. tog'[1] = tog[1] /\ pos'[1] = pos[1]
          BY <1>1, <1>8, <3>1, <4>1 DEF Data, Advance, TypeOK, UsbTypeOK, DeviceTypeOK
        <5> QED
          BY <5>1, <5>2
      <4>2. CASE ~acknowledged
        BY <1>8, <4>2 DEF Data
      <4> QED
        BY <4>1, <4>2
    <3>3. rcvToggle'[1] = rcvToggle[1] /\ got' = got /\ req' = req
      BY <1>1, <1>8, <2>2, <3>1
      DEF Data, Receive, Repeated, Finish, Stay, TypeOK, UsbTypeOK, ToggleTypeOK
    <3>4. there' = there /\ configured' = configured /\ made' = made
      BY <1>8 DEF Data
    <3> QED
      BY <2>2, <3>2, <3>3, <3>4, PollStays, StreamStutters
  <2> QED
    BY <2>1, <2>2
<1> QED
  BY <1>3, <1>4, <1>5, <1>6, <1>7, <1>8 DEF Transfer

\* Polls follow polls or the last question; the interrupt endpoint is not
\* configured but with its toggle reset.
LEMMA ProgramPolls ==
  ASSUME Program
  PROVE  /\ UNCHANGED devVars /\ stage = "idle"
         /\ \/ /\ req \in {"getProto", "poll"} /\ Call("poll", rcvToggle)
            \/ /\ req # "poll"
               /\ \/ Call("setConf", HID_init)
                  \/ \E r \in Requests \ {"poll", "setConf"}, toggles \in {rcvToggle, HID_init} : Call(r, toggles)
                  \/ \E toggles \in {rcvToggle, HID_init} :
                       rcvToggle' = toggles /\ UNCHANGED <<callVars, RCVTOG, got>>
<1> USE DEF Requests, Gets, Sets, returned
<1>1. CASE GotHead
  BY <1>1 DEF GotHead, NextProbe
<1>2. CASE GotConfig
  BY <1>2 DEF GotConfig, NextProbe
<1>3. CASE Configured
  BY <1>3 DEF Configured, NextProbe
<1>4. CASE ProtocolSet
  BY <1>4 DEF ProtocolSet, NextProbe
<1>5. CASE GotIdle
  BY <1>5 DEF GotIdle
<1>6. CASE GotProtocol
  BY <1>6 DEF GotProtocol
<1>7. CASE Polled
  BY <1>7 DEF Polled
<1> QED
  BY <1>1, <1>2, <1>3, <1>4, <1>5, <1>6, <1>7 DEF Program

\* A call between transfers starts from the toggle that was saved.
LEMMA ProgramPoll ==
  ASSUME SInv, Program
  PROVE  PollInv' /\ StreamStep
<1>1. PollInv /\ TypeOK
  BY DEF SInv
<1>2. /\ there' = there /\ configured' = configured /\ pending' = pending /\ made' = made
      /\ tog' = tog /\ pos' = pos
  BY ProgramPolls DEF devVars
<1>3. got' = got
  BY ProgramPolls DEF Call
<1>4. Fresh(made)' <=> Fresh(made)
  BY <1>2, <1>3 DEF Fresh, hasRead
<1>5. CASE req \in {"getProto", "poll"} /\ Call("poll", rcvToggle)
  <2>1. req' = "poll" /\ rcvToggle' = rcvToggle /\ RCVTOG' = rcvToggle[1] /\ buf' = <<>>
    BY <1>5 DEF Call, BeginIn
  <2> QED
    BY <1>1, <1>2, <1>3, <1>4, <2>1, StreamStutters DEF PollInv
<1>6. CASE req # "poll"
  <2>1. HID_init[1] = 0
    BY <1>1 DEF HID_init, TypeOK, UsbTypeOK, ToggleTypeOK
  <2>2. configured => rcvToggle[1] = 0 /\ tog[1] = 0
    BY <1>1, <1>6 DEF PollInv
  <2>3. CASE Call("setConf", HID_init)
    <3>1. req' = "setConf" /\ rcvToggle' = HID_init
      BY <2>3 DEF Call
    <3> QED
      BY <1>1, <1>2, <1>3, <1>4, <1>6, <2>1, <2>2, <3>1, StreamStutters DEF PollInv
  <2>4. ASSUME NEW r \in Requests \ {"poll", "setConf"}, NEW toggles \in {rcvToggle, HID_init},
               Call(r, toggles)
        PROVE  PollInv' /\ StreamStep
    <3>1. req' \notin {"poll", "setConf"} /\ rcvToggle' = toggles
      BY <2>4 DEF Call
    <3>2. configured => rcvToggle'[1] = 0
      BY <2>1, <2>2, <3>1
    <3> QED
      BY <1>1, <1>2, <1>3, <1>4, <1>6, <2>2, <3>1, <3>2, StreamStutters DEF PollInv
  <2>5. ASSUME NEW toggles \in {rcvToggle, HID_init}, rcvToggle' = toggles,
               UNCHANGED <<callVars, RCVTOG, got>>
        PROVE  PollInv' /\ StreamStep
    <3>1. req' = req
      BY <2>5 DEF callVars
    <3>2. configured => rcvToggle'[1] = 0
      BY <2>1, <2>2, <2>5
    <3>3. rcvToggle[1] = 0 => rcvToggle'[1] = 0
      BY <2>1, <2>5
    <3> QED
      BY <1>1, <1>2, <1>3, <1>4, <1>6, <2>2, <3>1, <3>2, <3>3, StreamStutters DEF PollInv
  <2> QED
    BY <1>5, <1>6, <2>3, <2>4, <2>5, ProgramPolls
<1> QED
  BY <1>5, <1>6, ProgramPolls

\* A device that comes up has nothing to send.
LEMMA EnumeratePoll ==
  ASSUME SInv, Enumerate
  PROVE  PollInv' /\ StreamStep
<1>1. PollInv
  BY DEF SInv
<1>2. ~there /\ there' /\ ~configured /\ ~pending /\ pos[1] = 0
  BY <1>1 DEF Enumerate, Arrive, PollInv
<1>3. /\ configured' = configured /\ pending' = pending /\ made' = made /\ pos' = pos
      /\ req' = "head" /\ got' = got
  BY DEF Enumerate, Arrive, Call
<1>4. PollInv'
  BY <1>1, <1>2, <1>3 DEF PollInv
<1>5. Stream!Come
  BY <1>2, <1>3 DEF Enumerate, Arrive, Stream!Come
<1> QED
  BY <1>4, <1>5 DEF StreamStep, Stream!Next

\* A report that is made is a new one; a device that goes takes its report along.
LEMMA WorldPoll ==
  ASSUME SInv, World
  PROVE  PollInv' /\ StreamStep
<1>1. PollInv /\ TypeOK
  BY DEF SInv
<1>2. UNCHANGED <<hostVars, got>>
  BY DEF World, MakeReport, Leave
<1>3. /\ req' = req /\ stage' = stage /\ buf' = buf /\ rcvToggle' = rcvToggle
      /\ RCVTOG' = RCVTOG /\ got' = got
  BY <1>2 DEF hostVars, callVars
<1>4. CASE MakeReport
  <2>1. /\ there /\ configured /\ ~pending /\ made < MaxReports /\ pending' /\ made' = made + 1
        /\ there' = there /\ configured' = configured /\ tog' = tog /\ pos' = pos
    BY <1>4 DEF MakeReport
  <2>2. made \in Nat /\ Len(got) \in Nat /\ got \in Seq(Nat)
    BY <1>1, TypeFacts
  <2>3. Fresh(made)'
    <3>1. ASSUME got # <<>> PROVE got[Len(got)] <= made
      <4>1. Len(got) \in 1 .. Len(got)
        BY <2>2, <3>1, EmptySeq
      <4> QED
        BY <1>1, <4>1 DEF PollInv
    <3>2. ASSUME got # <<>> PROVE got[Len(got)] # made + 1
      <4>1. got[Len(got)] \in Nat
        BY <2>2, <3>2, EmptySeq, ElementOfSeq
      <4> QED
        BY <2>2, <3>1, <3>2, <4>1
    <3> QED
      BY <1>3, <2>1, <3>2 DEF Fresh, hasRead
  <2>4. \A i \in 1 .. Len(got') : got'[i] <= made'
    <3>1. \A i \in 1 .. Len(got) : got[i] \in Nat /\ got[i] <= made
      BY <1>1, <2>2, ElementOfSeq DEF PollInv
    <3> QED
      BY <1>3, <2>1, <2>2, <3>1
  <2>5. configured => (rcvToggle[1] = tog[1])
    BY <1>1, <2>1 DEF PollInv
  <2>6. PollInv'
    BY <1>1, <1>3, <2>1, <2>3, <2>4, <2>5 DEF PollInv
  <2>7. Stream!Make
    BY <1>3, <2>1, <2>3 DEF Stream!Make, Fresh
  <2> QED
    BY <2>6, <2>7 DEF StreamStep, Stream!Next
<1>5. CASE Leave
  <2>1. /\ there /\ ~there' /\ ~configured' /\ ~pending' /\ made' = made /\ pos'[1] = 0
    BY <1>5 DEF Leave
  <2>2. PollInv'
    BY <1>1, <1>3, <2>1 DEF PollInv
  <2>3. Stream!Go
    BY <1>3, <1>5, <2>1 DEF Leave, Stream!Go
  <2> QED
    BY <2>2, <2>3 DEF StreamStep, Stream!Next
<1> QED
  BY <1>4, <1>5 DEF World

\* Every step keeps the toggles, and is a step of the stream or none.
LEMMA PollStep ==
  ASSUME SInv, WellSized(dev), [Next]_vars
  PROVE  PollInv' /\ StreamStep
<1>1. CASE Host
  BY <1>1, TransferPoll DEF Host
<1>2. CASE UNCHANGED vars
  BY <1>2, PollStays, StreamStutters DEF vars, usbVars, hostVars, callVars, devVars
<1> QED
  BY <1>1, <1>2, ProgramPoll, EnumeratePoll, WorldPoll DEF Next

\* Polling implements the stream of reports, if every report of a device is
\* one packet and ends the transfer: each is read once, in order and before
\* the next one (transfer.c:207-223, HID.c:178-190).
THEOREM Refinement ==
  ASSUME \A d \in Devices : WellSized(d)
  PROVE  Spec => ReadsEachReportOnce
<1>1. Init => SInv /\ Stream!Init
  <2> SUFFICES ASSUME Init PROVE PollInv /\ Stream!Init
    BY InitIInv DEF SInv, IInv
  <2>1. pending = FALSE /\ there = FALSE /\ got = <<>> /\ made = 0
    BY DEF Init
  <2>2. Stream!Init
    BY <2>1 DEF Stream!Init
  <2> QED
    BY <2>2 DEF Init, PollInv
<1>2. SInv /\ [Next]_vars => SInv' /\ StreamStep
  <2> SUFFICES ASSUME SInv, [Next]_vars PROVE SInv' /\ StreamStep
    OBVIOUS
  <2>1. WellSized(dev)
    BY DEF SInv, TypeOK, UsbTypeOK, DeviceTypeOK
  <2> QED
    BY <2>1, PollStep, TypeStep, StageStep DEF SInv
<1> QED
  BY <1>1, <1>2, PTL DEF Spec, ReadsEachReportOnce, Stream!Spec, StreamStep
=============================================================================
