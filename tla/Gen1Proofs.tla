----------------------------- MODULE Gen1Proofs -----------------------------
(* The process that serves the older device.  Its session is proved for      *)
(* every number of transfers, depth of the FIFO, speed and amount of data,   *)
(* whatever an earlier session left in the device; its maintenance tools for *)
(* all data, whichever transfer fails and whichever cell does not keep what  *)
(* was written.                                                              *)
EXTENDS Gen1Main, Gen1LoaderProofs

Words    == Nat \X {0, 1} \X (0 .. 3)
Statuses == {"completed", "timeout"}
Bare     == {"error", "nodevice", "cancelled"}
Completions == (Statuses \X (Words \cup {None})) \cup (Bare \X {None})

UsbTypeOK == /\ at \in 1 .. 16 /\ round \in Nat /\ speed \in 0 .. 3 /\ made \in Nat
             /\ regs \in [Registers -> {0, 1}]
             /\ fifo \in Seq(Words) /\ Len(fifo) <= FifoDepth
             /\ flight \in Nat /\ due \in Seq(Completions)
             /\ closing \in BOOLEAN /\ fed \in Nat /\ bad = FALSE

(* A session is under way; its control sequence flushes at the same place    *)
(* for a capture and a test, and releases the reset at another.              *)
InSession == pc \in {"ctrl", "loop", "events"}
Flush   == 10
Release == IF mode = "test" THEN 11 ELSE 13
Length  == IF mode = "test" THEN 11 ELSE 15

(* Where the transfers can be, and how many callbacks the drain loop owes.   *)
TransfersPlaced ==
    /\ flight + Len(due) <= Transfers
    /\ pc \in {"main", "ctrl", "tool"} => flight = 0 /\ due = <<>>
    /\ closing => pc \in {"drain", "over"} /\ flight = 0
    /\ pc = "drain" => closing /\ round <= DrainRounds /\ Len(due) <= DrainRounds - round
    /\ closing /\ pc = "over" => due = <<>>

(* The registers, by the position in the control sequence.                   *)
Settled ==
    /\ mode = "test" => /\ at > 5 => regs["Speed0"] = 0
                        /\ at > 7 => regs["Speed1"] = 0
                        /\ at > 9 => regs["Test"] = 1
    /\ mode = "capture" => /\ at > 3 => regs["Test"] = 0
                           /\ at > 11 => regs["Speed0"] = speed % 2
                           /\ at > 12 => regs["Speed1"] = speed \div 2

(* From the first command to the release the capture logic is held in reset, *)
(* so that the flush, which has as many rounds as the FIFO has words, leaves *)
(* it empty.                                                                 *)
Held ==
    /\ at \in 2 .. Release => regs["Reset"] = 1 /\ made = 0
    /\ at < Flush => round = 0
    /\ at = Flush => round <= FlushReads /\ Len(fifo) <= FlushReads - round
    /\ at \in Flush + 1 .. Release => fifo = <<>>

(* After it, the FIFO holds the newest words made, and the callbacks that    *)
(* are due have those before them, in order, from the next one to be handed  *)
(* on.                                                                       *)
Flow(f, b, q, d) ==      \* f words handed on, b taken out of the FIFO q
    /\ f <= b
    /\ \A i \in 1 .. Len(q) : q[i] = Wanted(b + i)
    /\ \A i \in 1 .. Len(d) : d[i][2] # None =>
          \E n \in f + 1 .. b : d[i][2] = Wanted(n)
    /\ \A i, j \in 1 .. Len(d) : i < j /\ d[i][2] # None /\ d[j][2] # None =>
          d[i][2][1] < d[j][2][1]
    /\ \A n \in f + 1 .. b : \E i \in 1 .. Len(d) : d[i][2] = Wanted(n)
InFlow == made - Len(fifo) \in Nat /\ Flow(fed, made - Len(fifo), fifo, due)

SessionSound ==
    /\ mode \in {"capture", "test"} /\ at <= Length + 1
    /\ pc \in {"loop", "events"} => at = Length + 1
    /\ pc = "ctrl" => fed = 0
    /\ Settled /\ Held
    /\ at > Flush => InFlow

IInv == /\ UsbTypeOK /\ TransfersPlaced
        /\ pc = "main" => at = 1 /\ round = 0 /\ fed = 0
        /\ InSession => SessionSound

-----------------------------------------------------------------------------
(* The control sequences, position by position.  No other proof expands      *)
(* them.                                                                     *)
CtrlSteps == {<<r, v>> : r \in Registers \cup {"flush", "headers"}, v \in {0, 1}}

LEMMA SevenTuple ==
    ASSUME NEW S, NEW a \in S, NEW b \in S, NEW c \in S, NEW d \in S, NEW e \in S,
           NEW f \in S, NEW g \in S
    PROVE  LET s == <<a, b, c, d, e, f, g>>
           IN  /\ s \in Seq(S) /\ Len(s) = 7
               /\ s[1] = a /\ s[2] = b /\ s[3] = c /\ s[4] = d /\ s[5] = e /\ s[6] = f
               /\ s[7] = g
OBVIOUS

LEMMA EightTuple ==
    ASSUME NEW S, NEW a \in S, NEW b \in S, NEW c \in S, NEW d \in S, NEW e \in S,
           NEW f \in S, NEW g \in S, NEW h \in S
    PROVE  LET s == <<a, b, c, d, e, f, g, h>>
           IN  /\ s \in Seq(S) /\ Len(s) = 8
               /\ s[1] = a /\ s[2] = b /\ s[3] = c /\ s[4] = d /\ s[5] = e /\ s[6] = f
               /\ s[7] = g /\ s[8] = h
OBVIOUS

LEMMA StepTypes == \A r \in Registers \cup {"flush", "headers"}, v \in {0, 1} :
                      <<r, v>> \in CtrlSteps
BY DEF CtrlSteps

LEMMA InitSteps ==
    /\ UsbCtrlInit \in Seq(CtrlSteps) /\ Len(UsbCtrlInit) = 7
    /\ UsbCtrlInit[1] = <<"Reset", 1>> /\ UsbCtrlInit[2] = <<"Enable", 0>>
    /\ UsbCtrlInit[3] = <<"Test", 0>> /\ UsbCtrlInit[4] = <<"Speed0", 1>>
    /\ UsbCtrlInit[5] = <<"Speed0", 0>> /\ UsbCtrlInit[6] = <<"Speed1", 1>>
    /\ UsbCtrlInit[7] = <<"Speed1", 0>>
<1>1. PICK a \in CtrlSteps, b \in CtrlSteps, c \in CtrlSteps, d \in CtrlSteps,
           e \in CtrlSteps, f \in CtrlSteps, g \in CtrlSteps :
         /\ a = <<"Reset", 1>> /\ b = <<"Enable", 0>> /\ c = <<"Test", 0>>
         /\ d = <<"Speed0", 1>> /\ e = <<"Speed0", 0>> /\ f = <<"Speed1", 1>>
         /\ g = <<"Speed1", 0>>
  BY StepTypes DEF Registers
<1>2. UsbCtrlInit = <<a, b, c, d, e, f, g>>  BY <1>1 DEF UsbCtrlInit
<1>3. PICK s : s = <<a, b, c, d, e, f, g>>  OBVIOUS
<1>4. /\ s \in Seq(CtrlSteps) /\ Len(s) = 7 /\ s[1] = a /\ s[2] = b /\ s[3] = c
      /\ s[4] = d /\ s[5] = e /\ s[6] = f /\ s[7] = g
  BY <1>3, SevenTuple
<1> QED  BY <1>1, <1>2, <1>3, <1>4, Zenon

LEMMA TestSteps ==
    /\ Len(UsbSpeedTest) = 11
    /\ \A i \in 1 .. 7 : UsbSpeedTest[i] = UsbCtrlInit[i]
    /\ UsbSpeedTest[8] = <<"Reset", 1>> /\ UsbSpeedTest[9] = <<"Test", 1>>
    /\ UsbSpeedTest[10] = <<"flush", 0>> /\ UsbSpeedTest[11] = <<"Reset", 0>>
<1>1. PICK a \in CtrlSteps, b \in CtrlSteps, c \in CtrlSteps, d \in CtrlSteps :
         /\ a = <<"Reset", 1>> /\ b = <<"Test", 1>> /\ c = <<"flush", 0>> /\ d = <<"Reset", 0>>
  BY StepTypes DEF Registers
<1>2. UsbSpeedTest = UsbCtrlInit \o <<a, b, c, d>>  BY <1>1 DEF UsbSpeedTest
<1>3. PICK s : s = UsbCtrlInit  OBVIOUS
<1>4. PICK t : t = <<a, b, c, d>>  OBVIOUS
<1>5. PICK u : u = s \o t  OBVIOUS
<1>6. /\ t \in Seq(CtrlSteps) /\ Len(t) = 4 /\ t[1] = a /\ t[2] = b /\ t[3] = c /\ t[4] = d
  BY <1>4, FourTuple
<1>7. s \in Seq(CtrlSteps) /\ Len(s) = 7  BY <1>3, InitSteps
<1>8. /\ Len(u) = 11
      /\ \A i \in 1 .. 7 : u[i] = s[i]
      /\ \A i \in 1 .. 4 : u[7 + i] = t[i]
  <2>1. /\ Len(u) = Len(s) + Len(t)
        /\ \A i \in 1 .. Len(s) : u[i] = s[i]
        /\ \A i \in 1 .. Len(t) : u[Len(s) + i] = t[i]
    <3>1. s \in Seq(CtrlSteps) /\ t \in Seq(CtrlSteps)  BY <1>6, <1>7
    <3>2. /\ Len(s \o t) = Len(s) + Len(t)
          /\ \A i \in 1 .. Len(s) : (s \o t)[i] = s[i]
          /\ \A i \in 1 .. Len(t) : (s \o t)[Len(s) + i] = t[i]
      BY <3>1, Concatenated
    <3> QED  BY <3>2, <1>5, Zenon
  <2> QED  BY <1>6, <1>7, <2>1
<1>9. u[8] = t[1] /\ u[9] = t[2] /\ u[10] = t[3] /\ u[11] = t[4]  BY <1>8
<1>10. UsbSpeedTest = u  BY <1>2, <1>3, <1>4, <1>5
<1> QED  BY <1>1, <1>3, <1>6, <1>8, <1>9, <1>10, Zenon

LEMMA CaptureSteps ==
    ASSUME speed \in 0 .. 3
    PROVE  /\ Len(CaptureStart) = 15
           /\ \A i \in 1 .. 7 : CaptureStart[i] = UsbCtrlInit[i]
           /\ CaptureStart[8] = <<"Enable", 0>> /\ CaptureStart[9] = <<"Reset", 1>>
           /\ CaptureStart[10] = <<"flush", 0>>
           /\ CaptureStart[11] = <<"Speed0", speed % 2>>
           /\ CaptureStart[12] = <<"Speed1", speed \div 2>>
           /\ CaptureStart[13] = <<"Reset", 0>> /\ CaptureStart[14] = <<"Enable", 1>>
           /\ CaptureStart[15] = <<"headers", 0>>
<1>0. PICK m \in {0, 1}, q \in {0, 1} : m = speed % 2 /\ q = speed \div 2  OBVIOUS
<1>1. PICK a \in CtrlSteps, b \in CtrlSteps, c \in CtrlSteps, d \in CtrlSteps,
           e \in CtrlSteps, f \in CtrlSteps, g \in CtrlSteps, h \in CtrlSteps :
         /\ a = <<"Enable", 0>> /\ b = <<"Reset", 1>> /\ c = <<"flush", 0>>
         /\ d = <<"Speed0", m>> /\ e = <<"Speed1", q>> /\ f = <<"Reset", 0>>
         /\ g = <<"Enable", 1>> /\ h = <<"headers", 0>>
  BY StepTypes DEF Registers
<1>2. CaptureStart = UsbCtrlInit \o <<a, b, c, d, e, f, g, h>>
  BY <1>0, <1>1 DEF CaptureStart
<1>3. PICK s : s = UsbCtrlInit  OBVIOUS
<1>4. PICK t : t = <<a, b, c, d, e, f, g, h>>  OBVIOUS
<1>5. PICK u : u = s \o t  OBVIOUS
<1>6. /\ t \in Seq(CtrlSteps) /\ Len(t) = 8 /\ t[1] = a /\ t[2] = b /\ t[3] = c
      /\ t[4] = d /\ t[5] = e /\ t[6] = f /\ t[7] = g /\ t[8] = h
  BY <1>4, EightTuple
<1>7. s \in Seq(CtrlSteps) /\ Len(s) = 7  BY <1>3, InitSteps
<1>8. /\ Len(u) = 15
      /\ \A i \in 1 .. 7 : u[i] = s[i]
      /\ \A i \in 1 .. 8 : u[7 + i] = t[i]
  <2>1. /\ Len(u) = Len(s) + Len(t)
        /\ \A i \in 1 .. Len(s) : u[i] = s[i]
        /\ \A i \in 1 .. Len(t) : u[Len(s) + i] = t[i]
    <3>1. s \in Seq(CtrlSteps) /\ t \in Seq(CtrlSteps)  BY <1>6, <1>7
    <3>2. /\ Len(s \o t) = Len(s) + Len(t)
          /\ \A i \in 1 .. Len(s) : (s \o t)[i] = s[i]
          /\ \A i \in 1 .. Len(t) : (s \o t)[Len(s) + i] = t[i]
      BY <3>1, Concatenated
    <3> QED  BY <3>2, <1>5, Zenon
  <2> QED  BY <1>6, <1>7, <2>1
<1>9. /\ u[8] = t[1] /\ u[9] = t[2] /\ u[10] = t[3] /\ u[11] = t[4] /\ u[12] = t[5]
      /\ u[13] = t[6] /\ u[14] = t[7] /\ u[15] = t[8]
  BY <1>8
<1>10. CaptureStart = u  BY <1>2, <1>3, <1>4, <1>5
<1> QED  BY <1>0, <1>1, <1>3, <1>6, <1>8, <1>9, <1>10, Zenon

(* What the step at a position is, for both sequences.                       *)
LEMMA Steps ==
    ASSUME speed \in 0 .. 3, mode \in {"capture", "test"}
    PROVE  /\ Len(Sequence) = Length
           /\ Sequence[1] = <<"Reset", 1>> /\ Sequence[2] = <<"Enable", 0>>
           /\ Sequence[3] = <<"Test", 0>> /\ Sequence[4] = <<"Speed0", 1>>
           /\ Sequence[5] = <<"Speed0", 0>> /\ Sequence[6] = <<"Speed1", 1>>
           /\ Sequence[7] = <<"Speed1", 0>> /\ Sequence[10] = <<"flush", 0>>
           /\ mode = "test" => /\ Sequence[8] = <<"Reset", 1>>
                               /\ Sequence[9] = <<"Test", 1>>
                               /\ Sequence[11] = <<"Reset", 0>>
           /\ mode = "capture" => /\ Sequence[8] = <<"Enable", 0>>
                                  /\ Sequence[9] = <<"Reset", 1>>
                                  /\ Sequence[11] = <<"Speed0", speed % 2>>
                                  /\ Sequence[12] = <<"Speed1", speed \div 2>>
                                  /\ Sequence[13] = <<"Reset", 0>>
                                  /\ Sequence[14] = <<"Enable", 1>>
                                  /\ Sequence[15] = <<"headers", 0>>
<1>1. 1 \in 1 .. 7 /\ 2 \in 1 .. 7 /\ 3 \in 1 .. 7 /\ 4 \in 1 .. 7 /\ 5 \in 1 .. 7
      /\ 6 \in 1 .. 7 /\ 7 \in 1 .. 7
  OBVIOUS
<1>2. CASE mode = "test"
  BY <1>1, <1>2, InitSteps, TestSteps, Zenon DEF Sequence, Length
<1>3. CASE mode = "capture"
  <2>1. Sequence = CaptureStart /\ Length = 15  BY <1>3 DEF Sequence, Length
  <2>2. mode # "test"  BY <1>3
  <2> QED  BY <1>1, <2>1, <2>2, InitSteps, CaptureSteps, Zenon
<1> QED  BY <1>2, <1>3

-----------------------------------------------------------------------------
(* Steps that move the thread and nothing else of the USB side.              *)
usbButStop == <<at, round, speed, regs, fifo, made, flight, due, closing, fed, bad>>

LEMMA InitIInv == Init => IInv
<1> SUFFICES ASSUME Init PROVE IInv  OBVIOUS
<1> USE RoundsAssumption DEF Init, UsbInit
<1>1. PICK test \in {0, 1} :
         regs = [r \in Registers |-> CASE r = "Enable" -> 1 - test [] r = "Test" -> test
                                       [] OTHER -> 0]
  OBVIOUS
<1>2. regs \in [Registers -> {0, 1}]  BY <1>1 DEF Registers
<1>3. fifo \in Seq(Words) /\ Len(fifo) <= FifoDepth
  <2>1. CASE fifo = <<>>  BY <2>1
  <2>2. CASE fifo = [i \in 1 .. FifoDepth |-> <<i, regs["Test"], 0>>]
    <3>1. PICK t \in {0, 1} : t = regs["Test"]  BY <1>2 DEF Registers
    <3>2. \A i \in 1 .. FifoDepth : <<i, t, 0>> \in Words  BY DEF Words
    <3>3. fifo = [i \in 1 .. FifoDepth |-> <<i, t, 0>>]  BY <2>2, <3>1
    <3>4. PICK n \in Nat : n = FifoDepth  OBVIOUS
    <3>5. fifo \in [1 .. n -> Words] /\ DOMAIN fifo = 1 .. n  BY <3>2, <3>3, <3>4
    <3>6. fifo \in Seq(Words)  BY <3>5
    <3>7. Len(fifo) = n  BY <3>5, <3>6
    <3> QED  BY <3>4, <3>6, <3>7
  <2> QED  BY <2>1, <2>2
<1>4. due \in Seq(Completions) /\ Len(due) = 0  OBVIOUS
<1>5. UsbTypeOK
  <2>1. closing \in BOOLEAN /\ bad = FALSE  BY Zenon
  <2>2. speed \in 0 .. 3 /\ at \in 1 .. 16 /\ round \in Nat /\ made \in Nat  OBVIOUS
  <2>3. flight \in Nat /\ fed \in Nat  OBVIOUS
  <2> QED  BY <1>2, <1>3, <1>4, <2>1, <2>2, <2>3, Zenon DEF UsbTypeOK
<1>6. TransfersPlaced  BY <1>4 DEF TransfersPlaced
<1> QED  BY <1>5, <1>6 DEF IInv, InSession

LEMMA FlowPrimed ==
    ASSUME UNCHANGED <<mode, speed>>, NEW CONSTANT f, NEW CONSTANT b \in Nat, NEW CONSTANT q,
           NEW CONSTANT d, Flow(f, b, q, d), fed' = f, fifo' = q, due' = d,
           made' - Len(fifo') = b
    PROVE  InFlow'
<1>1. \A n : Wanted(n)' = Wanted(n)  BY DEF Wanted
<1>2. (made - Len(fifo))' = b  OBVIOUS
<1>3. None' = None  BY DEF None
<1>4. Flow(f, b, q, d)'  BY <1>1, <1>3, Zenon DEF Flow
<1> QED  BY <1>2, <1>4, Zenon DEF InFlow

LEMMA FlowStays ==
    ASSUME UNCHANGED usbButStop, mode' = mode, InFlow
    PROVE  InFlow'
<1>1. fed' = fed /\ made' = made /\ fifo' = fifo /\ due' = due /\ speed' = speed
  BY DEF usbButStop
<1>2. PICK f, b, q, d : f = fed /\ b = made - Len(fifo) /\ q = fifo /\ d = due  OBVIOUS
<1>3. b \in Nat /\ Flow(f, b, q, d)  BY <1>2, Zenon DEF InFlow
<1> QED  BY <1>1, <1>2, <1>3, FlowPrimed

LEMMA SessionStays ==
    ASSUME UNCHANGED usbButStop, mode' = mode, SessionSound,
           \/ pc' = pc
           \/ pc \in {"loop", "events"} /\ pc' \in {"loop", "events"}
    PROVE  SessionSound'
<1>1. Settled' /\ Held'  BY DEF usbButStop, SessionSound, Settled, Held, Release, Flush
<1>2. at > Flush => InFlow'  BY FlowStays DEF SessionSound
<1>3. at' = at /\ fed' = fed /\ Length' = Length  BY DEF usbButStop, Length
<1>4. Flush' = Flush  BY DEF Flush
<1> QED  BY <1>1, <1>2, <1>3, <1>4 DEF SessionSound

LEMMA StaysIInv ==
    ASSUME IInv, UNCHANGED usbButStop, UNCHANGED <<pc, mode>>
    PROVE  IInv'
<1>1. UsbTypeOK'  BY DEF IInv, UsbTypeOK, usbButStop
<1>2. TransfersPlaced'  BY DEF IInv, TransfersPlaced, usbButStop
<1>3. InSession => SessionSound'  BY SessionStays DEF IInv
<1> QED  BY <1>1, <1>2, <1>3 DEF IInv, InSession, usbButStop

(* The process ends outside usb_close, a tool ends, or the loop does.        *)
LEMMA LeavesIInv ==
    ASSUME IInv, UNCHANGED usbButStop, pc # "drain", pc # "over", pc' \in {"over", "close"}
    PROVE  IInv'
<1>1. ~closing /\ ~closing'  BY DEF IInv, TransfersPlaced, UsbTypeOK, usbButStop
<1>2. UsbTypeOK'  BY DEF IInv, UsbTypeOK, usbButStop
<1>3. TransfersPlaced'  BY <1>1 DEF IInv, TransfersPlaced, usbButStop
<1> QED  BY <1>2, <1>3 DEF IInv, InSession

LEMMA MainIInv == IInv /\ Main => IInv'
<1> SUFFICES ASSUME IInv, Main PROVE IInv'  OBVIOUS
<1>1. pc = "main" /\ UNCHANGED usbButStop  BY DEF Main, usbVars, usbButStop
<1>2. pc' \in {"main", "over"}  BY <1>1 DEF Main, RunSelectedCapture, Leave
<1>3. CASE pc' = "over"  BY <1>1, <1>3, LeavesIInv
<1>4. CASE pc' = "main"
  BY <1>1, <1>4 DEF usbButStop, IInv, UsbTypeOK, TransfersPlaced, InSession
<1> QED  BY <1>2, <1>3, <1>4

LEMMA OpenIInv == IInv /\ Open => IInv'
<1> SUFFICES ASSUME IInv, Open PROVE IInv'  OBVIOUS
<1>1. pc = "main" /\ UNCHANGED usbButStop  BY DEF Open, usbVars, usbButStop
<1>2. \/ pc' = "over"
      \/ pc' = "ctrl" /\ mode \in {"capture", "test"} /\ mode' = mode
      \/ pc' = "tool"
  BY DEF Open, Leave
<1>3. CASE pc' = "over"  BY <1>1, <1>3, LeavesIInv
<1>4. CASE pc' = "tool"
  BY <1>1, <1>4 DEF usbButStop, IInv, UsbTypeOK, TransfersPlaced, InSession
<1>5. CASE pc' = "ctrl" /\ mode \in {"capture", "test"} /\ mode' = mode
  <2>1. at' = 1 /\ round' = 0 /\ fed' = 0  BY <1>1 DEF IInv, usbButStop
  <2>2. SessionSound'
    <3>1. Settled'  BY <2>1 DEF Settled
    <3>2. Held'  BY <2>1 DEF Held, Flush
    <3>3. at' <= Length' + 1 /\ ~(at' > Flush)  BY <2>1 DEF Length, Flush
    <3> QED  BY <1>5, <2>1, <3>1, <3>2, <3>3 DEF SessionSound
  <2>3. UsbTypeOK' /\ TransfersPlaced'
    BY <1>1, <1>5 DEF usbButStop, IInv, UsbTypeOK, TransfersPlaced
  <2> QED  BY <1>5, <2>2, <2>3 DEF IInv
<1> QED  BY <1>2, <1>3, <1>4, <1>5

(* The tools and the device's own clock.                                     *)
LEMMA LoaderIInv == IInv /\ (LoaderThread \/ ExecuteClock) => IInv'
<1> SUFFICES ASSUME IInv, LoaderThread \/ ExecuteClock PROVE IInv'  OBVIOUS
<1>1. CASE ExecuteClock
  <2>1. UNCHANGED usbButStop /\ UNCHANGED <<pc, mode>>
    BY <1>1 DEF ExecuteClock, usbVars, usbButStop
  <2> QED  BY <2>1, StaysIInv
<1>2. CASE LoaderThread
  <2>1. UNCHANGED usbVars /\ pc = "tool"
    BY <1>2 DEF LoaderThread, JtagBegin, JtagClk, JtagSync, UsbJtagResponse, McuStep, ToolDone,
                JtagTurn
  <2>2. \/ UNCHANGED <<pc, mode>>
        \/ pc' \in {"over", "close"}
    <3>1. CASE JtagBegin  BY <3>1 DEF JtagBegin
    <3>2. CASE JtagClk  BY <3>2 DEF JtagClk, UsbJtagRequest, Exits
    <3>3. CASE JtagSync  BY <3>3 DEF JtagSync, UsbJtagRequest, Exits
    <3>4. CASE UsbJtagResponse  BY <3>4 DEF UsbJtagResponse, Exits
    <3>5. CASE McuStep  BY <3>5 DEF McuStep, Exits
    <3>6. CASE ToolDone  BY <3>6 DEF ToolDone
    <3> QED  BY <1>2, <3>1, <3>2, <3>3, <3>4, <3>5, <3>6 DEF LoaderThread
  <2>3. UNCHANGED usbButStop  BY <2>1 DEF usbVars, usbButStop
  <2> QED  BY <2>1, <2>2, <2>3, StaysIInv, LeavesIInv
<1> QED  BY <1>1, <1>2

LEMMA SignalIInv == IInv /\ Signal => IInv'
<1> SUFFICES ASSUME IInv, Signal PROVE IInv'  OBVIOUS
<1>1. UNCHANGED usbButStop /\ UNCHANGED <<pc, mode>>  BY DEF Signal, devVars, usbButStop
<1> QED  BY <1>1, StaysIInv

LEMMA LoopIInv == IInv /\ (LoopTest \/ EventsReturn) => IInv'
<1> SUFFICES ASSUME IInv, LoopTest \/ EventsReturn PROVE IInv'  OBVIOUS
<1>1. /\ UNCHANGED usbButStop /\ mode' = mode /\ pc \in {"loop", "events"}
      /\ pc' \in {"loop", "events", "close"}
  BY DEF LoopTest, EventsReturn, usbVars, usbButStop
<1>2. CASE pc' = "close"  BY <1>1, <1>2, LeavesIInv
<1>3. CASE pc' \in {"loop", "events"}
  <2>1. UsbTypeOK' /\ TransfersPlaced'
    BY <1>1, <1>3 DEF usbButStop, IInv, UsbTypeOK, TransfersPlaced
  <2>2. SessionSound  BY <1>1 DEF IInv, InSession
  <2>3. SessionSound'  BY <1>1, <1>3, <2>2, SessionStays
  <2> QED  BY <1>3, <2>1, <2>3 DEF IInv
<1> QED  BY <1>1, <1>2, <1>3

-----------------------------------------------------------------------------
(* The words on their way.                                                   *)
LEMMA WantedIsWord ==
    ASSUME NEW n \in Nat, speed \in 0 .. 3
    PROVE  Wanted(n) \in Words /\ Wanted(n) # None /\ Wanted(n)[1] = n
BY DEF Wanted, Words, None

(* The registers are those that the session asked for.                       *)
LEMMA Made ==
    ASSUME UsbTypeOK, SessionSound, at > Release, NEW n
    PROVE  <<n, regs["Test"], Setting>> = Wanted(n)
<1>1. /\ at \in 1 .. 16 /\ speed \in 0 .. 3 /\ regs["Speed0"] \in {0, 1}
      /\ regs["Speed1"] \in {0, 1}
  BY DEF UsbTypeOK, Registers
<1>2. CASE mode = "test"
  <2>1. at > 11  BY <1>1, <1>2 DEF Release
  <2>2. regs["Test"] = 1 /\ regs["Speed0"] = 0 /\ regs["Speed1"] = 0
    BY <1>1, <1>2, <2>1 DEF SessionSound, Settled
  <2> QED  BY <1>2, <2>2 DEF Wanted, Setting
<1>3. CASE mode = "capture"
  <2>1. at > 13  BY <1>1, <1>3 DEF Release
  <2>2. regs["Test"] = 0 /\ regs["Speed0"] = speed % 2 /\ regs["Speed1"] = speed \div 2
    BY <1>1, <1>3, <2>1 DEF SessionSound, Settled
  <2>3. (speed % 2) + 2 * (speed \div 2) = speed  BY <1>1
  <2> QED  BY <1>3, <2>2, <2>3 DEF Wanted, Setting
<1> QED  BY <1>2, <1>3 DEF SessionSound

(* A word is made.                                                           *)
LEMMA FlowMade ==
    ASSUME NEW f \in Nat, NEW b \in Nat, NEW q \in Seq(Words), NEW d, Flow(f, b, q, d),
           speed \in 0 .. 3
    PROVE  Flow(f, b, Append(q, Wanted(b + Len(q) + 1)), d)
<1>1. PICK k \in Nat : k = Len(q)  OBVIOUS
<1>2. PICK w \in Words : w = Wanted(b + k + 1)  BY WantedIsWord
<1>3. PICK g : g = Append(q, w)  OBVIOUS
<1>4. Len(g) = k + 1 /\ (\A i \in 1 .. k : g[i] = q[i]) /\ g[k + 1] = w
  BY <1>1, <1>3, AppendShape
<1>5. \A i \in 1 .. k + 1 : g[i] = Wanted(b + i)
  <2> TAKE i \in 1 .. k + 1
  <2>1. CASE i = k + 1  BY <1>2, <1>4, <2>1
  <2>2. CASE i \in 1 .. k  BY <1>1, <1>4, <2>2 DEF Flow
  <2> QED  BY <2>1, <2>2
<1>6. Flow(f, b, g, d)  BY <1>4, <1>5, Zenon DEF Flow
<1> QED  BY <1>1, <1>2, <1>3, <1>6

(* Transfers complete without a word.                                        *)
LEMMA FlowEmpty ==
    ASSUME NEW f \in Nat, NEW b \in Nat, NEW q, NEW d, NEW e, Flow(f, b, q, d),
           Len(d) \in Nat, Len(e) \in Nat, Len(d) <= Len(e),
           \A i \in 1 .. Len(d) : e[i] = d[i],
           \A i \in Len(d) + 1 .. Len(e) : e[i][2] = None
    PROVE  Flow(f, b, q, e)
<1>1. PICK k \in Nat, l \in Nat : k = Len(d) /\ l = Len(e) /\ k <= l  OBVIOUS
<1>2. \A i \in 1 .. l : e[i][2] # None => i \in 1 .. k /\ e[i] = d[i]  BY <1>1
<1>3. \A i \in 1 .. l : e[i][2] # None => \E n \in f + 1 .. b : e[i][2] = Wanted(n)
  <2> TAKE i \in 1 .. l
  <2> HAVE e[i][2] # None
  <2>1. i \in 1 .. k /\ e[i] = d[i]  BY <1>2
  <2> QED  BY <1>1, <2>1, Zenon DEF Flow
<1>4. \A i, j \in 1 .. l : i < j /\ e[i][2] # None /\ e[j][2] # None => e[i][2][1] < e[j][2][1]
  <2> TAKE i, j \in 1 .. l
  <2> HAVE i < j /\ e[i][2] # None /\ e[j][2] # None
  <2>1. i \in 1 .. k /\ e[i] = d[i] /\ j \in 1 .. k /\ e[j] = d[j]  BY <1>2
  <2> QED  BY <1>1, <2>1, Zenon DEF Flow
<1>5. \A n \in f + 1 .. b : \E i \in 1 .. l : e[i][2] = Wanted(n)
  <2> TAKE n \in f + 1 .. b
  <2>1. PICK i \in 1 .. k : d[i][2] = Wanted(n)  BY <1>1 DEF Flow
  <2>2. i \in 1 .. l /\ e[i] = d[i]  BY <1>1
  <2> QED  BY <2>1, <2>2
<1> QED  BY <1>1, <1>3, <1>4, <1>5, Zenon DEF Flow

(* A transfer completes with the oldest word of the FIFO.                    *)
LEMMA FlowTaken ==
    ASSUME NEW f \in Nat, NEW b \in Nat, NEW q \in Seq(Words), NEW d \in Seq(Completions),
           Flow(f, b, q, d), speed \in 0 .. 3, q # <<>>, NEW status \in Statuses
    PROVE  Flow(f, b + 1, Tail(q), Append(d, <<status, Head(q)>>))
<1>1. PICK k \in Nat \ {0}, l \in Nat : k = Len(q) /\ l = Len(d)  BY TailShape
<1>2. PICK g : g = Tail(q)  OBVIOUS
<1>3. /\ Len(g) = k - 1 /\ \A i \in 1 .. k - 1 : g[i] = q[i + 1]
      /\ Head(q) = q[1] /\ q[1] \in Words
  BY <1>1, <1>2, TailShape
<1>4. PICK w \in Words : w = Wanted(b + 1)  BY WantedIsWord
<1>5. w # None /\ w[1] = b + 1  BY <1>4, WantedIsWord
<1>6. Head(q) = w  BY <1>1, <1>3, <1>4 DEF Flow
<1>7. PICK x \in Completions : x = <<status, w>>  BY DEF Completions
<1>8. x[2] = w  BY <1>7
<1>9. PICK e : e = Append(d, x)  OBVIOUS
<1>10. Len(e) = l + 1 /\ e[l + 1] = x /\ \A i \in 1 .. l : e[i] = d[i]
  BY <1>1, <1>9, AppendShape
<1>11. \A i \in 1 .. k - 1 : g[i] = Wanted(b + 1 + i)
  <2> TAKE i \in 1 .. k - 1
  <2>1. i + 1 \in 1 .. k  BY <1>1
  <2>2. q[i + 1] = Wanted(b + (i + 1))  BY <1>1, <2>1, Zenon DEF Flow
  <2>3. b + (i + 1) = b + 1 + i  OBVIOUS
  <2> QED  BY <1>3, <2>2, <2>3
<1>12. \A i \in 1 .. l : d[i][2] # None => \E n \in f + 1 .. b : d[i][2] = Wanted(n)
  BY <1>1, Zenon DEF Flow
<1>13. \A i \in 1 .. l + 1 : e[i][2] # None => \E n \in f + 1 .. b + 1 : e[i][2] = Wanted(n)
  <2> TAKE i \in 1 .. l + 1
  <2> HAVE e[i][2] # None
  <2>1. CASE i = l + 1
    <3>1. e[i][2] = Wanted(b + 1)  BY <1>4, <1>8, <1>10, <2>1
    <3>2. b + 1 \in f + 1 .. b + 1  BY DEF Flow
    <3> QED  BY <3>1, <3>2
  <2>2. CASE i \in 1 .. l
    <3>1. PICK n \in f + 1 .. b : d[i][2] = Wanted(n)  BY <1>10, <1>12, <2>2
    <3>2. n \in f + 1 .. b + 1  OBVIOUS
    <3> QED  BY <1>10, <2>2, <3>1, <3>2
  <2> QED  BY <2>1, <2>2
<1>14. \A i \in 1 .. l : d[i][2] # None => d[i][2][1] \in f + 1 .. b
  <2> TAKE i \in 1 .. l
  <2> HAVE d[i][2] # None
  <2>1. PICK n \in f + 1 .. b : d[i][2] = Wanted(n)  BY <1>12
  <2>2. n \in Nat  OBVIOUS
  <2>3. d[i][2][1] = n  BY <2>1, <2>2, WantedIsWord
  <2> QED  BY <2>3
<1>15. \A i, j \in 1 .. l + 1 : i < j /\ e[i][2] # None /\ e[j][2] # None => e[i][2][1] < e[j][2][1]
  <2> TAKE i, j \in 1 .. l + 1
  <2> HAVE i < j /\ e[i][2] # None /\ e[j][2] # None
  <2>1. i \in 1 .. l /\ e[i] = d[i]  BY <1>10
  <2>2. CASE j = l + 1
    <3>1. e[j][2][1] = b + 1  BY <1>5, <1>8, <1>10, <2>2
    <3>2. e[i][2][1] \in f + 1 .. b  BY <1>14, <2>1
    <3> QED  BY <3>1, <3>2
  <2>3. CASE j \in 1 .. l
    <3>1. e[j] = d[j]  BY <1>10, <2>3
    <3> QED  BY <1>1, <2>1, <2>3, <3>1, Zenon DEF Flow
  <2> QED  BY <2>2, <2>3
<1>16. \A n \in f + 1 .. b + 1 : \E i \in 1 .. l + 1 : e[i][2] = Wanted(n)
  <2> TAKE n \in f + 1 .. b + 1
  <2>1. CASE n = b + 1
    <3>1. e[l + 1][2] = Wanted(n)  BY <1>4, <1>8, <1>10, <2>1
    <3> QED  BY <3>1
  <2>2. CASE n \in f + 1 .. b
    <3>1. PICK i \in 1 .. l : d[i][2] = Wanted(n)  BY <1>1, <2>2, Zenon DEF Flow
    <3>2. i \in 1 .. l + 1 /\ e[i] = d[i]  BY <1>10
    <3> QED  BY <3>1, <3>2
  <2> QED  BY <2>1, <2>2
<1>17. f <= b + 1  BY DEF Flow
<1>18. Flow(f, b + 1, g, e)  BY <1>3, <1>10, <1>11, <1>13, <1>15, <1>16, <1>17, Zenon DEF Flow
<1> QED  BY <1>2, <1>6, <1>7, <1>9, <1>18

(* A callback: the word it hands on is the next one.                         *)
LEMMA FlowFed ==
    ASSUME NEW f \in Nat, NEW b \in Nat, NEW q, NEW d \in Seq(Completions),
           Flow(f, b, q, d), speed \in 0 .. 3, d # <<>>
    PROVE  /\ Head(d)[2] = None => Flow(f, b, q, Tail(d))
           /\ Head(d)[2] # None => Head(d)[2] = Wanted(f + 1) /\ Flow(f + 1, b, q, Tail(d))
<1>1. PICK l \in Nat : l + 1 = Len(d)
  <2>1. Len(d) \in Nat \ {0}  BY TailShape
  <2> QED  BY <2>1
<1>2. PICK e : e = Tail(d)  OBVIOUS
<1>3. Len(e) = l /\ (\A i \in 1 .. l : e[i] = d[i + 1]) /\ Head(d) = d[1]
  <2>1. /\ Len(e) = Len(d) - 1 /\ \A i \in 1 .. Len(d) - 1 : e[i] = d[i + 1]
        /\ Head(d) = d[1]
    BY <1>2, TailShape
  <2> QED  BY <1>1, <2>1
<1>4. \A i \in 1 .. l : i + 1 \in 1 .. l + 1 /\ 1 < i + 1  OBVIOUS
<1>5. /\ \A i \in 1 .. l + 1 : d[i][2] # None => \E n \in f + 1 .. b : d[i][2] = Wanted(n)
      /\ \A i, j \in 1 .. l + 1 : i < j /\ d[i][2] # None /\ d[j][2] # None =>
            d[i][2][1] < d[j][2][1]
      /\ \A n \in f + 1 .. b : \E i \in 1 .. l + 1 : d[i][2] = Wanted(n)
      /\ f <= b /\ \A i \in 1 .. Len(q) : q[i] = Wanted(b + i)
  BY <1>1, Zenon DEF Flow
<1>6. \A i, j \in 1 .. l : i < j /\ e[i][2] # None /\ e[j][2] # None => e[i][2][1] < e[j][2][1]
  <2> TAKE i, j \in 1 .. l
  <2> HAVE i < j /\ e[i][2] # None /\ e[j][2] # None
  <2>1. i + 1 \in 1 .. l + 1 /\ j + 1 \in 1 .. l + 1 /\ i + 1 < j + 1  OBVIOUS
  <2>2. e[i] = d[i + 1] /\ e[j] = d[j + 1]  BY <1>3
  <2> QED  BY <1>5, <2>1, <2>2, Zenon
<1>7. CASE d[1][2] = None
  <2>1. \A i \in 1 .. l : e[i][2] # None => \E n \in f + 1 .. b : e[i][2] = Wanted(n)
    <3> TAKE i \in 1 .. l
    <3>1. e[i] = d[i + 1] /\ i + 1 \in 1 .. l + 1  BY <1>3, <1>4
    <3> QED  BY <1>5, <3>1, Zenon
  <2>2. \A n \in f + 1 .. b : \E i \in 1 .. l : e[i][2] = Wanted(n)
    <3> TAKE n \in f + 1 .. b
    <3>1. PICK i \in 1 .. l + 1 : d[i][2] = Wanted(n)  BY <1>5
    <3>2. n \in Nat  OBVIOUS
    <3>3. i # 1  BY <1>7, <3>1, <3>2, WantedIsWord
    <3>4. i - 1 \in 1 .. l /\ i = (i - 1) + 1  BY <3>3
    <3>5. e[i - 1] = d[i]  BY <1>3, <3>4
    <3> QED  BY <3>1, <3>4, <3>5
  <2>3. Flow(f, b, q, e)  BY <1>3, <1>5, <1>6, <2>1, <2>2, Zenon DEF Flow
  <2> QED  BY <1>2, <1>3, <1>7, <2>3
<1>8. CASE d[1][2] # None
  <2>1. PICK m \in f + 1 .. b : d[1][2] = Wanted(m)
    <3>1. 1 \in 1 .. l + 1  OBVIOUS
    <3> QED  BY <1>5, <1>8, <3>1
  <2>2. \A n \in f + 1 .. b : n \in Nat  OBVIOUS
  <2>3. d[1][2][1] = m  BY <2>1, <2>2, WantedIsWord
  <2>4. \A i \in 1 .. l : e[i][2] # None => e[i][2][1] > m
    <3> TAKE i \in 1 .. l
    <3> HAVE e[i][2] # None
    <3>1. i + 1 \in 1 .. l + 1 /\ 1 \in 1 .. l + 1 /\ 1 < i + 1  OBVIOUS
    <3>2. e[i] = d[i + 1]  BY <1>3
    <3>3. d[1][2][1] < d[i + 1][2][1]  BY <1>5, <1>8, <3>1, <3>2, Zenon
    <3> QED  BY <2>3, <3>2, <3>3
  <2>5. m = f + 1
    <3>1. f + 1 \in f + 1 .. b  BY <2>1
    <3>2. PICK i \in 1 .. l + 1 : d[i][2] = Wanted(f + 1)  BY <1>5, <3>1, Zenon
    <3>3. d[i][2] # None /\ d[i][2][1] = f + 1  BY <3>2, WantedIsWord
    <3>4. CASE i = 1  BY <2>3, <3>3, <3>4
    <3>5. CASE i # 1
      <4>1. i - 1 \in 1 .. l /\ i = (i - 1) + 1  BY <3>5
      <4>2. e[i - 1] = d[i]  BY <1>3, <4>1
      <4>3. f + 1 > m  BY <2>4, <3>3, <4>1, <4>2
      <4> QED  BY <2>1, <4>3
    <3> QED  BY <3>4, <3>5
  <2>6. \A i \in 1 .. l : e[i][2] # None => \E n \in f + 1 + 1 .. b : e[i][2] = Wanted(n)
    <3> TAKE i \in 1 .. l
    <3> HAVE e[i][2] # None
    <3>1. PICK n \in f + 1 .. b : e[i][2] = Wanted(n)  BY <1>3, <1>4, <1>5, Zenon
    <3>2. e[i][2][1] = n  BY <2>2, <3>1, WantedIsWord
    <3>3. n > f + 1  BY <2>4, <2>5, <3>2
    <3>4. n \in f + 1 + 1 .. b  BY <3>3
    <3> QED  BY <3>1, <3>4
  <2>7. \A n \in f + 1 + 1 .. b : \E i \in 1 .. l : e[i][2] = Wanted(n)
    <3> TAKE n \in f + 1 + 1 .. b
    <3>1. n \in f + 1 .. b /\ n # f + 1  OBVIOUS
    <3>2. PICK i \in 1 .. l + 1 : d[i][2] = Wanted(n)  BY <1>5, <3>1, Zenon
    <3>3. d[i][2][1] = n  BY <2>2, <3>1, <3>2, WantedIsWord
    <3>4. i # 1  BY <2>3, <2>5, <3>1, <3>3
    <3>5. i - 1 \in 1 .. l /\ i = (i - 1) + 1  BY <3>4
    <3>6. e[i - 1] = d[i]  BY <1>3, <3>5
    <3> QED  BY <3>2, <3>5, <3>6
  <2>8. f + 1 <= b  BY <2>1
  <2>9. Flow(f + 1, b, q, e)  BY <1>3, <1>5, <1>6, <2>6, <2>7, <2>8, Zenon DEF Flow
  <2> QED  BY <1>2, <1>3, <1>8, <2>1, <2>5, <2>9
<1> QED  BY <1>3, <1>7, <1>8

-----------------------------------------------------------------------------
(* The device.                                                               *)
LEMMA MakeWordIInv == IInv /\ MakeWord => IInv'
<1> SUFFICES ASSUME IInv, MakeWord PROVE IInv'  OBVIOUS
<1>1. /\ UNCHANGED <<mode, pc, at, speed, regs, flight, due, closing, fed, bad, round>>
      /\ regs["Reset"] = 0 /\ Len(fifo) < FifoDepth /\ made' = made + 1
      /\ fifo' = Append(fifo, <<made + 1, regs["Test"], Setting>>)
  BY DEF MakeWord
<1>2. UsbTypeOK /\ TransfersPlaced  BY DEF IInv
<1>3. /\ made \in Nat /\ regs["Test"] \in {0, 1} /\ regs["Speed0"] \in {0, 1}
      /\ regs["Speed1"] \in {0, 1} /\ fifo \in Seq(Words) /\ speed \in 0 .. 3
      /\ fed \in Nat /\ due \in Seq(Completions) /\ at \in 1 .. 16
  BY <1>2 DEF UsbTypeOK, Registers
<1>4. PICK w \in Words : w = <<made + 1, regs["Test"], Setting>>
  <2>1. PICK s \in 0 .. 3 : s = Setting  BY <1>3 DEF Setting
  <2>2. PICK t \in {0, 1}, n \in Nat : t = regs["Test"] /\ n = made + 1  BY <1>3
  <2>3. <<n, t, s>> \in Words  BY DEF Words
  <2> QED  BY <2>1, <2>2, <2>3
<1>5. PICK g \in Seq(Words) : g = Append(fifo, w) /\ Len(g) = Len(fifo) + 1
  BY <1>3, AppendShape
<1>6. fifo' = g  BY <1>1, <1>4, <1>5
<1>7. Len(fifo) \in Nat  BY <1>3
<1>8. UsbTypeOK'
  <2>1. Len(g) <= FifoDepth  BY <1>1, <1>5, <1>7, RoundsAssumption
  <2>2. made' \in Nat  BY <1>1, <1>3
  <2> QED  BY <1>1, <1>2, <1>6, <2>1, <2>2, Zenon DEF UsbTypeOK
<1>9. TransfersPlaced'  BY <1>1, <1>2 DEF TransfersPlaced
<1>10. ASSUME InSession PROVE SessionSound'
  <2>1. SessionSound  BY <1>10 DEF IInv
  <2>2. Release \in {11, 13}  BY DEF Release
  <2>3. at = 1 \/ at > Release
    <3>1. ~(at \in 2 .. Release)  BY <1>1, <2>1 DEF SessionSound, Held
    <3> QED  BY <1>3, <2>2, <3>1
  <2>4. Release' = Release /\ Length' = Length  BY <1>1 DEF Release, Length
  <2>5. Held'
    <3>1. at' = at /\ round' = round /\ (at < Flush => round = 0)
      BY <1>1, <2>1 DEF SessionSound, Held
    <3>2. at # Flush /\ ~(at \in 2 .. Release) /\ ~(at \in Flush + 1 .. Release)
      BY <1>3, <2>2, <2>3 DEF Flush
    <3> QED  BY <2>4, <3>1, <3>2 DEF Held, Flush
  <2>6. at > Flush => InFlow'
    <3> HAVE at > Flush
    <3>1. at > Release /\ InFlow  BY <2>1, <2>3 DEF SessionSound, Flush
    <3>2. PICK b \in Nat, f \in Nat, q \in Seq(Words), d \in Seq(Completions) :
             b = made - Len(fifo) /\ f = fed /\ q = fifo /\ d = due
      BY <1>3, <3>1 DEF InFlow
    <3>3. Flow(f, b, q, d)  BY <3>1, <3>2, Zenon DEF InFlow
    <3>4. w = Wanted(made + 1)  BY <1>2, <1>4, <2>1, <3>1, Made
    <3>5. b + Len(q) + 1 = made + 1  BY <1>3, <1>7, <3>2
    <3>6. Flow(f, b, g, d)
      <4>1. g = Append(q, Wanted(b + Len(q) + 1))  BY <1>5, <3>2, <3>4, <3>5
      <4> QED  BY <1>3, <3>3, <4>1, FlowMade
    <3>7. made' - Len(fifo') = b  BY <1>1, <1>3, <1>5, <1>6, <1>7, <3>2
    <3> QED  BY <1>1, <1>6, <3>2, <3>6, <3>7, FlowPrimed
  <2>7. Settled'  BY <1>1, <2>1 DEF SessionSound, Settled
  <2> QED  BY <1>1, <2>1, <2>4, <2>5, <2>6, <2>7 DEF SessionSound, Flush
<1> QED  BY <1>1, <1>8, <1>9, <1>10 DEF IInv, InSession

(* What a completion does, with a word or without: the thread is in its      *)
(* loop, or the session is over.                                             *)
LEMMA CompletionIInv ==
    ASSUME IInv, UNCHANGED <<mode, pc, at, speed, regs, made, closing, fed, bad, round>>,
           pc \notin {"main", "ctrl", "tool", "drain"}, ~closing,
           fifo' \in Seq(Words), Len(fifo') <= Len(fifo),
           due' \in Seq(Completions), flight' \in Nat,
           flight' + Len(due') <= flight + Len(due),
           InSession => InFlow'
    PROVE  IInv'
<1>1. UsbTypeOK /\ TransfersPlaced  BY DEF IInv
<1>2. UsbTypeOK'
  <2>1. Len(fifo') <= FifoDepth
    <3>1. PICK x \in Nat, y \in Nat, z \in Nat : x = Len(fifo) /\ y = Len(fifo') /\ z = FifoDepth
      BY <1>1, RoundsAssumption DEF UsbTypeOK
    <3>2. x <= z /\ y <= x  BY <1>1, <3>1 DEF UsbTypeOK
    <3> QED  BY <3>1, <3>2
  <2> QED  BY <1>1, <2>1, Zenon DEF UsbTypeOK
<1>3. TransfersPlaced'
  <2>1. flight' + Len(due') <= Transfers
    <3>1. PICK a \in Int, b \in Int : a = flight + Len(due) /\ b = flight' + Len(due')
      BY <1>1 DEF UsbTypeOK
    <3>2. a <= Transfers /\ b <= a  BY <1>1, <3>1 DEF TransfersPlaced
    <3> QED  BY <3>1, <3>2, RoundsAssumption
  <2>2. ~closing' /\ pc' \notin {"main", "ctrl", "tool", "drain"}  OBVIOUS
  <2> QED  BY <2>1, <2>2 DEF TransfersPlaced
<1>4. ASSUME InSession PROVE SessionSound'
  <2>1. pc \in {"loop", "events"} /\ SessionSound  BY <1>4 DEF InSession, IInv
  <2>2. Release' = Release /\ Length' = Length  BY DEF Release, Length
  <2>3. at = Length + 1 /\ Length + 1 > Release /\ Release > Flush /\ Length \in Nat /\ Release \in Nat
    BY <2>1 DEF SessionSound, Length, Release, Flush
  <2>4. Held'  BY <2>2, <2>3 DEF Held, Flush
  <2>5. Settled'  BY <2>1 DEF SessionSound, Settled
  <2> QED  BY <1>4, <2>1, <2>2, <2>4, <2>5 DEF SessionSound
<1> QED  BY <1>2, <1>3, <1>4 DEF IInv, InSession

(* While transfers are in flight, the thread is past the control sequence.   *)
LEMMA InFlight ==
    ASSUME IInv, flight > 0
    PROVE  /\ pc \notin {"main", "ctrl", "tool", "drain"} /\ ~closing
           /\ InSession => InFlow /\ speed \in 0 .. 3
           /\ fifo \in Seq(Words) /\ due \in Seq(Completions) /\ flight \in Nat /\ fed \in Nat
           /\ Len(fifo) \in Nat /\ Len(due) \in Nat /\ made \in Nat /\ speed \in 0 .. 3
<1>1. UsbTypeOK /\ TransfersPlaced  BY DEF IInv
<1>2. pc \notin {"main", "ctrl", "tool", "drain"} /\ ~closing
  BY <1>1 DEF TransfersPlaced, UsbTypeOK
<1>3. ASSUME InSession PROVE InFlow
  <2>1. SessionSound /\ pc \in {"loop", "events"}  BY <1>2, <1>3 DEF IInv, InSession
  <2>2. at > Flush  BY <2>1 DEF SessionSound, Length, Flush
  <2> QED  BY <2>1, <2>2 DEF SessionSound
<1> QED  BY <1>1, <1>2, <1>3 DEF UsbTypeOK

(* Completions without a word.                                               *)
LEMMA EmptyIInv ==
    ASSUME IInv, flight > 0, NEW e \in Seq(Completions), due' = e,
           UNCHANGED <<mode, pc, at, speed, regs, fifo, made, closing, fed, bad, round>>,
           flight' \in Nat, flight' + Len(e) <= flight + Len(due), Len(due) <= Len(e),
           \A i \in 1 .. Len(due) : e[i] = due[i],
           \A i \in Len(due) + 1 .. Len(e) : e[i][2] = None
    PROVE  IInv'
<1>1. /\ pc \notin {"main", "ctrl", "tool", "drain"} /\ ~closing /\ (InSession => InFlow)
      /\ fifo \in Seq(Words) /\ due \in Seq(Completions) /\ fed \in Nat /\ Len(due) \in Nat
      /\ Len(fifo) \in Nat
  BY InFlight
<1>2. ASSUME InSession PROVE InFlow'
  <2>1. PICK f \in Nat, b \in Nat, q \in Seq(Words), d \in Seq(Completions) :
           b = made - Len(fifo) /\ f = fed /\ q = fifo /\ d = due
    BY <1>1, <1>2 DEF InFlow
  <2>2. Flow(f, b, q, d)  BY <1>1, <1>2, <2>1, Zenon DEF InFlow
  <2>3. Len(e) \in Nat  OBVIOUS
  <2>4. Flow(f, b, q, e)  BY <1>1, <2>1, <2>2, <2>3, FlowEmpty
  <2> QED  BY <2>1, <2>4, FlowPrimed
<1>3. Len(fifo') <= Len(fifo)  BY <1>1
<1> QED  BY <1>1, <1>2, <1>3, CompletionIInv

LEMMA StallIInv == IInv /\ Stall => IInv'
<1> SUFFICES ASSUME IInv, Stall PROVE IInv'  OBVIOUS
<1>1. /\ flight > 0 /\ due' = Append(due, <<"error", None>>) /\ flight' = flight - 1
      /\ UNCHANGED <<mode, pc, at, speed, regs, fifo, made, closing, fed, bad, round>>
  BY DEF Stall, devVars
<1>2. due \in Seq(Completions) /\ Len(due) \in Nat /\ flight \in Nat  BY <1>1, InFlight
<1>3. PICK x \in Completions : x = <<"error", None>>  BY DEF Completions, Bare
<1>4. x[2] = None  BY <1>3
<1>5. PICK e \in Seq(Completions) : e = Append(due, x)  BY <1>2, AppendShape
<1>6. Len(e) = Len(due) + 1 /\ e[Len(due) + 1] = x /\ \A i \in 1 .. Len(due) : e[i] = due[i]
  BY <1>2, <1>5, AppendShape
<1>7. \A i \in Len(due) + 1 .. Len(e) : e[i][2] = None
  <2> TAKE i \in Len(due) + 1 .. Len(e)
  <2>1. i = Len(due) + 1  BY <1>2, <1>6
  <2> QED  BY <1>4, <1>6, <2>1
<1>8. flight' \in Nat /\ flight' + Len(e) <= flight + Len(due) /\ Len(due) <= Len(e)
  BY <1>1, <1>2, <1>6
<1>9. due' = e  BY <1>1, <1>3, <1>5
<1> QED  BY <1>1, <1>6, <1>7, <1>8, <1>9, EmptyIInv

LEMMA CompleteIInv == IInv /\ Complete => IInv'
<1> SUFFICES ASSUME IInv, Complete PROVE IInv'  OBVIOUS
<1>1. PICK status \in {"completed", "timeout"} :
         \/ /\ fifo # <<>> /\ due' = Append(due, <<status, Head(fifo)>>) /\ fifo' = Tail(fifo)
         \/ /\ due' = Append(due, <<status, None>>) /\ UNCHANGED fifo
  BY DEF Complete
<1>2. /\ flight > 0 /\ flight' = flight - 1
      /\ UNCHANGED <<mode, pc, at, speed, regs, made, closing, fed, bad, round>>
  BY DEF Complete
<1>3. /\ pc \notin {"main", "ctrl", "tool", "drain"} /\ ~closing /\ (InSession => InFlow)
      /\ fifo \in Seq(Words) /\ due \in Seq(Completions) /\ fed \in Nat /\ Len(due) \in Nat
      /\ Len(fifo) \in Nat /\ flight \in Nat /\ made \in Nat /\ speed \in 0 .. 3
  BY <1>2, InFlight
<1>4. CASE due' = Append(due, <<status, None>>) /\ UNCHANGED fifo
  <2>1. PICK x \in Completions : x = <<status, None>>  BY DEF Completions, Statuses
  <2>2. x[2] = None  BY <2>1
  <2>3. PICK e \in Seq(Completions) : e = Append(due, x)  BY <1>3, AppendShape
  <2>4. Len(e) = Len(due) + 1 /\ e[Len(due) + 1] = x /\ \A i \in 1 .. Len(due) : e[i] = due[i]
    BY <1>3, <2>3, AppendShape
  <2>5. \A i \in Len(due) + 1 .. Len(e) : e[i][2] = None
    <3> TAKE i \in Len(due) + 1 .. Len(e)
    <3>1. i = Len(due) + 1  BY <1>3, <2>4
    <3> QED  BY <2>2, <2>4, <3>1
  <2>6. flight' \in Nat /\ flight' + Len(e) <= flight + Len(due) /\ Len(due) <= Len(e)
    BY <1>2, <1>3, <2>4
  <2>7. due' = e  BY <1>4, <2>1, <2>3
  <2> QED  BY <1>2, <1>4, <2>4, <2>5, <2>6, <2>7, EmptyIInv
<1>5. CASE fifo # <<>> /\ due' = Append(due, <<status, Head(fifo)>>) /\ fifo' = Tail(fifo)
  <2>1. PICK w \in Words : w = Head(fifo)  BY <1>3, <1>5, TailShape
  <2>2. PICK x \in Completions : x = <<status, w>>  BY DEF Completions, Statuses
  <2>3. PICK e \in Seq(Completions) : e = Append(due, x) /\ Len(e) = Len(due) + 1
    BY <1>3, AppendShape
  <2>4. PICK g \in Seq(Words) : g = Tail(fifo) /\ Len(g) = Len(fifo) - 1
    BY <1>3, <1>5, TailShape
  <2>5. due' = e /\ fifo' = g  BY <1>5, <2>1, <2>2, <2>3, <2>4
  <2>6. ASSUME InSession PROVE InFlow'
    <3>1. PICK f \in Nat, b \in Nat, q \in Seq(Words), d \in Seq(Completions) :
             b = made - Len(fifo) /\ f = fed /\ q = fifo /\ d = due
      BY <1>3, <2>6 DEF InFlow
    <3>2. Flow(f, b, q, d)  BY <1>3, <2>6, <3>1, Zenon DEF InFlow
    <3>3. status \in Statuses  BY DEF Statuses
    <3>4. Flow(f, b + 1, Tail(q), Append(d, <<status, Head(q)>>))
      BY <1>3, <1>5, <3>1, <3>2, <3>3, FlowTaken
    <3>5. PICK c \in Nat : c = b + 1  OBVIOUS
    <3>6. Flow(f, c, g, e)  BY <2>1, <2>2, <2>3, <2>4, <3>1, <3>4, <3>5
    <3>7. made' - Len(fifo') = c  BY <1>2, <1>3, <2>4, <2>5, <3>1, <3>5
    <3> QED  BY <1>2, <2>5, <3>1, <3>6, <3>7, FlowPrimed
  <2>7. /\ Len(fifo') <= Len(fifo) /\ flight' \in Nat
        /\ flight' + Len(due') <= flight + Len(due)
    BY <1>2, <1>3, <2>3, <2>4, <2>5
  <2> QED  BY <1>2, <1>3, <2>5, <2>6, <2>7, CompletionIInv
<1> QED  BY <1>1, <1>4, <1>5

(* A number of equal completions.                                            *)
LEMMA Repeated ==
    ASSUME NEW n \in Nat, NEW x \in Completions
    PROVE  /\ [i \in 1 .. n |-> x] \in Seq(Completions) /\ Len([i \in 1 .. n |-> x]) = n
           /\ \A i \in 1 .. n : [j \in 1 .. n |-> x][i] = x
<1>1. [i \in 1 .. n |-> x] \in [1 .. n -> Completions]  OBVIOUS
<1>2. [i \in 1 .. n |-> x] \in Seq(Completions)  BY <1>1
<1> QED  BY <1>2

LEMMA AllComplete ==
    ASSUME due \in Seq(Completions), flight \in Nat, NEW x \in Completions, x[2] = None
    PROVE  LET e == due \o [i \in 1 .. flight |-> x]
           IN  /\ e \in Seq(Completions) /\ Len(e) = Len(due) + flight
               /\ \A i \in 1 .. Len(due) : e[i] = due[i]
               /\ \A i \in Len(due) + 1 .. Len(e) : e[i][2] = None
<1>1. PICK t \in Seq(Completions) :
         /\ t = [i \in 1 .. flight |-> x] /\ Len(t) = flight
         /\ \A i \in 1 .. flight : t[i] = x
  BY Repeated
<1>2. PICK d \in Seq(Completions), m \in Nat, n \in Nat :
         d = due /\ m = Len(d) /\ n = flight
  OBVIOUS
<1>3. /\ d \o t \in Seq(Completions) /\ Len(d \o t) = Len(d) + Len(t)
      /\ \A i \in 1 .. Len(d) : (d \o t)[i] = d[i]
      /\ \A i \in 1 .. Len(t) : (d \o t)[Len(d) + i] = t[i]
  BY Concatenated
<1>4. PICK e : e = d \o t  OBVIOUS
<1>5. /\ e \in Seq(Completions) /\ Len(e) = m + n
      /\ \A i \in 1 .. m : e[i] = d[i]
      /\ \A i \in 1 .. n : e[m + i] = t[i]
  BY <1>1, <1>2, <1>3, <1>4
<1>6. \A i \in m + 1 .. m + n : e[i][2] = None
  <2> TAKE i \in m + 1 .. m + n
  <2>1. i - m \in 1 .. n /\ m + (i - m) = i  OBVIOUS
  <2>2. e[i] = t[i - m] /\ t[i - m] = x  BY <1>1, <1>2, <1>5, <2>1
  <2> QED  BY <2>2
<1> QED  BY <1>1, <1>2, <1>4, <1>5, <1>6

LEMMA UnplugIInv == IInv /\ Unplug => IInv'
<1> SUFFICES ASSUME IInv, Unplug PROVE IInv'  OBVIOUS
<1>1. /\ pc \in {"loop", "events"} /\ flight' = 0
      /\ due' = due \o [i \in 1 .. flight |-> <<"nodevice", None>>]
      /\ UNCHANGED <<mode, pc, at, speed, regs, fifo, made, closing, fed, bad, round>>
  BY DEF Unplug
<1>2. /\ due \in Seq(Completions) /\ flight \in Nat /\ Len(due) \in Nat
  BY DEF IInv, UsbTypeOK
<1>3. PICK x \in Completions : x = <<"nodevice", None>>  BY DEF Completions, Bare
<1>4. x[2] = None  BY <1>3
<1>5. PICK e : e = due \o [i \in 1 .. flight |-> x]  OBVIOUS
<1>6. /\ e \in Seq(Completions) /\ Len(e) = Len(due) + flight
      /\ \A i \in 1 .. Len(due) : e[i] = due[i]
      /\ \A i \in Len(due) + 1 .. Len(e) : e[i][2] = None
  BY <1>2, <1>4, <1>5, AllComplete
<1>7. due' = e  BY <1>1, <1>3, <1>5
<1>8. CASE flight > 0
  <2>1. flight' \in Nat /\ flight' + Len(e) <= flight + Len(due) /\ Len(due) <= Len(e)
    BY <1>1, <1>2, <1>6
  <2> QED  BY <1>1, <1>6, <1>7, <1>8, <2>1, EmptyIInv
<1>9. CASE flight = 0
  <2>1. e = due
    <3>1. Len(e) = Len(due)  BY <1>2, <1>6, <1>9
    <3>2. PICK m \in Nat : m = Len(e) /\ m = Len(due)  BY <1>2, <3>1
    <3>3. DOMAIN e = 1 .. m /\ DOMAIN due = 1 .. m /\ e \in Seq(Completions)
      BY <1>2, <1>6, <3>2
    <3>4. \A i \in 1 .. m : e[i] = due[i]  BY <1>6, <3>2
    <3> QED  BY <1>2, <3>2, <3>3, <3>4
  <2>2. UNCHANGED usbButStop /\ UNCHANGED <<pc, mode>>  BY <1>1, <1>7, <1>9, <2>1 DEF usbButStop
  <2> QED  BY <2>2, StaysIInv
<1> QED  BY <1>2, <1>8, <1>9

-----------------------------------------------------------------------------
(* The control sequence.                                                     *)

(* What usb_ctrl writes at each position.                                    *)
LEMMA CtrlWrites ==
    ASSUME UsbTypeOK, SessionSound, at <= Len(Sequence), Step[1] \in Registers
    PROVE  \E r \in Registers, v \in {0, 1} :
              /\ Step[1] = r /\ Step[2] = v /\ at # Flush /\ at <= Length
              /\ mode = "test" =>
                    /\ at = 5 => r = "Speed0" /\ v = 0
                    /\ at > 5 => r # "Speed0"
                    /\ at = 7 => r = "Speed1" /\ v = 0
                    /\ at > 7 => r # "Speed1"
                    /\ at = 9 => r = "Test" /\ v = 1
                    /\ at > 9 => r # "Test"
              /\ mode = "capture" =>
                    /\ at = 3 => r = "Test" /\ v = 0
                    /\ at > 3 => r # "Test"
                    /\ at = 11 => r = "Speed0" /\ v = speed % 2
                    /\ at > 11 => r # "Speed0"
                    /\ at = 12 => r = "Speed1" /\ v = speed \div 2
                    /\ at > 12 => r # "Speed1"
              /\ at = 1 => r = "Reset" /\ v = 1
              /\ at < Release => (r = "Reset" => v = 1)
              /\ at = Release => r = "Reset" /\ v = 0
              /\ at > Release => r # "Reset"
<1>1. at \in 1 .. 16 /\ speed \in 0 .. 3 /\ mode \in {"capture", "test"}
  BY DEF UsbTypeOK, SessionSound
<1>2. PICK m \in {0, 1}, q \in {0, 1} : m = speed % 2 /\ q = speed \div 2  BY <1>1
<1>3. PICK s : s = Sequence  OBVIOUS
<1>4. /\ Len(s) = Length
      /\ s[1] = <<"Reset", 1>> /\ s[2] = <<"Enable", 0>>
      /\ s[3] = <<"Test", 0>> /\ s[4] = <<"Speed0", 1>>
      /\ s[5] = <<"Speed0", 0>> /\ s[6] = <<"Speed1", 1>>
      /\ s[7] = <<"Speed1", 0>> /\ s[10] = <<"flush", 0>>
      /\ mode = "test" => /\ s[8] = <<"Reset", 1>>
                          /\ s[9] = <<"Test", 1>>
                          /\ s[11] = <<"Reset", 0>>
      /\ mode = "capture" => /\ s[8] = <<"Enable", 0>>
                             /\ s[9] = <<"Reset", 1>>
                             /\ s[11] = <<"Speed0", m>>
                             /\ s[12] = <<"Speed1", q>>
                             /\ s[13] = <<"Reset", 0>>
                             /\ s[14] = <<"Enable", 1>>
                             /\ s[15] = <<"headers", 0>>
  BY <1>1, <1>2, <1>3, Steps
<1>5. Step = s[at]  BY <1>3 DEF Step
<1>6. CASE mode = "test"
  <2>1. at \in {1, 2, 3, 4, 5, 6, 7, 8, 9, 10, 11} /\ Release = 11 /\ Length = 11
    BY <1>1, <1>3, <1>4, <1>6 DEF Release, Length
  <2>2. at # 10  BY <1>4, <1>5 DEF Registers
  <2>3. CASE at \in {1, 2, 3, 4, 5}
    BY <1>4, <1>5, <1>6, <2>1, <2>3 DEF Registers, Flush
  <2>4. CASE at \in {6, 7, 8, 9, 11}
    BY <1>4, <1>5, <1>6, <2>1, <2>4 DEF Registers, Flush
  <2> QED  BY <2>1, <2>2, <2>3, <2>4
<1>7. CASE mode = "capture"
  <2>1. at \in {1, 2, 3, 4, 5, 6, 7, 8, 9, 10, 11, 12, 13, 14, 15} /\ Release = 13 /\ Length = 15
    BY <1>1, <1>3, <1>4, <1>7 DEF Release, Length
  <2>2. at # 10 /\ at # 15
    <3>1. Step[1] \in Registers  OBVIOUS
    <3>2. at = 10 => Step[1] = "flush"  BY <1>4, <1>5
    <3>3. at = 15 => Step[1] = "headers"  BY <1>4, <1>5, <1>7
    <3> QED  BY <3>1, <3>2, <3>3 DEF Registers
  <2>3. CASE at \in {1, 2, 3, 4, 5}
    BY <1>4, <1>5, <1>7, <2>1, <2>3, SMTT(20) DEF Registers, Flush
  <2>4. CASE at \in {6, 7, 8, 9}
    BY <1>4, <1>5, <1>7, <2>1, <2>4 DEF Registers, Flush
  <2>5. CASE at \in {11, 12, 13, 14}
    BY <1>2, <1>4, <1>5, <1>7, <2>1, <2>5, SMTT(20) DEF Registers, Flush
  <2> QED  BY <2>1, <2>2, <2>3, <2>4, <2>5
<1> QED  BY <1>1, <1>6, <1>7

(* Wherever the process exits in the control sequence or in a callback,      *)
(* usb_close has not begun.                                                  *)
LEMMA ExitIInv ==
    ASSUME IInv, InSession, pc' = "over", UNCHANGED <<speed, closing, bad>>,
           at' = at, round' = round, regs' = regs, fifo' = fifo, made' = made,
           flight' = flight, due' \in Seq(Completions), Len(due') <= Len(due), fed' \in Nat
    PROVE  IInv'
<1>1. UsbTypeOK /\ TransfersPlaced /\ ~closing
  BY DEF IInv, InSession, TransfersPlaced, UsbTypeOK
<1>2. UsbTypeOK'  BY <1>1, Zenon DEF UsbTypeOK
<1>3. TransfersPlaced'
  <2>1. PICK a \in Nat, b \in Nat, c \in Nat : a = Len(due) /\ b = Len(due') /\ c = flight
    BY <1>1 DEF UsbTypeOK
  <2>2. flight' + Len(due') <= Transfers
    BY <1>1, <2>1, RoundsAssumption DEF TransfersPlaced
  <2>3. ~closing'  BY <1>1
  <2> QED  BY <2>2, <2>3 DEF TransfersPlaced
<1> QED  BY <1>2, <1>3 DEF IInv, InSession

LEMMA UsbCtrlIInv == IInv /\ UsbCtrl => IInv'
<1> SUFFICES ASSUME IInv, UsbCtrl PROVE IInv'  OBVIOUS
<1>1. /\ pc = "ctrl" /\ at <= Len(Sequence) /\ Step[1] \in Registers
      /\ UNCHANGED <<speed, fifo, flight, due, closing, fed, bad, round>>
  BY DEF UsbCtrl
<1>2. UsbTypeOK /\ TransfersPlaced /\ SessionSound /\ InSession
  BY <1>1 DEF IInv, InSession
<1>3. CASE Exits /\ UNCHANGED <<at, regs, made>>
  <2>1. due' \in Seq(Completions) /\ Len(due') <= Len(due) /\ fed' \in Nat
    BY <1>1, <1>2 DEF UsbTypeOK
  <2> QED  BY <1>1, <1>2, <1>3, <2>1, ExitIInv DEF Exits
<1>4. CASE /\ regs' = [regs EXCEPT ![Step[1]] = Step[2]]
           /\ made' = IF Step[1] = "Reset" /\ Step[2] = 1 THEN 0 ELSE made
           /\ at' = at + 1
           /\ UNCHANGED <<mode, pc>>
  <2>1. PICK r \in Registers, v \in {0, 1} :
              /\ Step[1] = r /\ Step[2] = v /\ at # Flush /\ at <= Length
              /\ mode = "test" =>
                    /\ at = 5 => r = "Speed0" /\ v = 0
                    /\ at > 5 => r # "Speed0"
                    /\ at = 7 => r = "Speed1" /\ v = 0
                    /\ at > 7 => r # "Speed1"
                    /\ at = 9 => r = "Test" /\ v = 1
                    /\ at > 9 => r # "Test"
              /\ mode = "capture" =>
                    /\ at = 3 => r = "Test" /\ v = 0
                    /\ at > 3 => r # "Test"
                    /\ at = 11 => r = "Speed0" /\ v = speed % 2
                    /\ at > 11 => r # "Speed0"
                    /\ at = 12 => r = "Speed1" /\ v = speed \div 2
                    /\ at > 12 => r # "Speed1"
              /\ at = 1 => r = "Reset" /\ v = 1
              /\ at < Release => (r = "Reset" => v = 1)
              /\ at = Release => r = "Reset" /\ v = 0
              /\ at > Release => r # "Reset"
    BY <1>1, <1>2, CtrlWrites
  <2>2. PICK g : g = [regs EXCEPT ![r] = v]  OBVIOUS
  <2>3. regs \in [Registers -> {0, 1}] /\ at \in 1 .. 16 /\ made \in Nat /\ speed \in 0 .. 3
    BY <1>2 DEF UsbTypeOK
  <2>4. /\ g \in [Registers -> {0, 1}] /\ g[r] = v
        /\ \A p \in Registers : p # r => g[p] = regs[p]
    BY <2>2, <2>3
  <2>5. regs' = g /\ at' = at + 1 /\ mode' = mode /\ pc' = "ctrl"
    BY <1>1, <1>4, <2>1, <2>2
  <2>6. /\ r = "Reset" /\ v = 1 => made' = 0
        /\ ~(r = "Reset" /\ v = 1) => made' = made
    BY <1>4, <2>1
  <2>7. Length \in {11, 15} /\ Release \in {11, 13} /\ Length' = Length /\ Release' = Release
    BY <2>5 DEF Length, Release
  <2>8. /\ "Speed0" \in Registers /\ "Speed1" \in Registers /\ "Test" \in Registers
        /\ "Reset" \in Registers
    BY DEF Registers
  <2>9. UsbTypeOK'
    <3>1. made' \in Nat  BY <2>3, <2>6
    <3>2. at' \in 1 .. 16  BY <2>1, <2>3, <2>5, <2>7
    <3> QED  BY <1>1, <1>2, <2>4, <2>5, <3>1, <3>2, Zenon DEF UsbTypeOK
  <2>10. TransfersPlaced'  BY <1>1, <1>2, <2>5 DEF TransfersPlaced
  <2>11. Settled'
    <3>1. /\ mode = "test" => /\ at > 5 => regs["Speed0"] = 0
                              /\ at > 7 => regs["Speed1"] = 0
                              /\ at > 9 => regs["Test"] = 1
          /\ mode = "capture" => /\ at > 3 => regs["Test"] = 0
                                 /\ at > 11 => regs["Speed0"] = speed % 2
                                 /\ at > 12 => regs["Speed1"] = speed \div 2
      BY <1>2 DEF SessionSound, Settled
    <3>2. ASSUME mode = "test"
          PROVE  /\ at + 1 > 5 => g["Speed0"] = 0
                 /\ at + 1 > 7 => g["Speed1"] = 0
                 /\ at + 1 > 9 => g["Test"] = 1
      BY <2>1, <2>3, <2>4, <2>8, <3>1, <3>2
    <3>3. ASSUME mode = "capture"
          PROVE  /\ at + 1 > 3 => g["Test"] = 0
                 /\ at + 1 > 11 => g["Speed0"] = speed % 2
                 /\ at + 1 > 12 => g["Speed1"] = speed \div 2
      BY <2>1, <2>3, <2>4, <2>8, <3>1, <3>3
    <3> QED  BY <1>1, <2>5, <3>2, <3>3 DEF Settled
  <2>12. Held'
    <3>1. /\ at \in 2 .. Release => regs["Reset"] = 1 /\ made = 0
          /\ at < Flush => round = 0
          /\ at \in Flush + 1 .. Release => fifo = <<>>
      BY <1>2 DEF SessionSound, Held
    <3>2. at + 1 \in 2 .. Release => g["Reset"] = 1 /\ made' = 0
      <4> HAVE at + 1 \in 2 .. Release
      <4>1. at < Release  BY <2>3, <2>7
      <4>2. CASE r = "Reset"  BY <2>1, <2>4, <2>6, <4>1, <4>2
      <4>3. CASE r # "Reset"
        <5>1. at \in 2 .. Release  BY <2>1, <2>3, <2>7, <4>1, <4>3
        <5> QED  BY <2>4, <2>6, <2>8, <3>1, <4>3, <5>1
      <4> QED  BY <4>2, <4>3
    <3>3. at + 1 < Flush => round' = 0  BY <1>1, <2>3, <3>1 DEF Flush
    <3>4. at + 1 = Flush => round' <= FlushReads /\ Len(fifo') <= FlushReads - round'
      <4> HAVE at + 1 = Flush
      <4>1. round' = 0  BY <1>1, <2>3, <3>1 DEF Flush
      <4>2. Len(fifo) \in Nat /\ Len(fifo) <= FifoDepth  BY <1>2 DEF UsbTypeOK
      <4> QED  BY <1>1, <4>1, <4>2, RoundsAssumption
    <3>5. at + 1 \in Flush + 1 .. Release => fifo' = <<>>
      <4> HAVE at + 1 \in Flush + 1 .. Release
      <4>1. at \in Flush + 1 .. Release  BY <2>1, <2>3, <2>7 DEF Flush
      <4> QED  BY <1>1, <3>1, <4>1
    <3> QED  BY <2>5, <2>7, <3>2, <3>3, <3>4, <3>5 DEF Held, Flush
  <2>13. at + 1 > Flush => InFlow'
    <3> HAVE at + 1 > Flush
    <3>1. at > Flush /\ at > 10  BY <2>1, <2>3 DEF Flush
    <3>2. ~(r = "Reset" /\ v = 1)
      <4>1. CASE mode = "test"
        <5>1. Release = 11  BY <4>1 DEF Release
        <5> QED  BY <2>1, <2>3, <3>1, <5>1
      <4>2. CASE mode = "capture"
        <5>1. at \in 11 .. 15  BY <2>1, <2>3, <2>7, <3>1
        <5>2. Release = 13  BY <4>2 DEF Release
        <5>3. CASE at \in {11, 12}  BY <2>1, <4>2, <5>3
        <5>4. CASE at \in {13, 14, 15}  BY <2>1, <5>2, <5>4
        <5> QED  BY <5>1, <5>3, <5>4
      <4> QED  BY <1>2, <4>1, <4>2 DEF SessionSound
    <3>3. InFlow  BY <1>2, <3>1 DEF SessionSound
    <3>4. PICK f \in Nat, b \in Nat, q \in Seq(Words), d \in Seq(Completions) :
             f = fed /\ b = made - Len(fifo) /\ q = fifo /\ d = due
      BY <1>2, <3>3 DEF InFlow, UsbTypeOK
    <3>5. Flow(f, b, q, d)  BY <3>3, <3>4, Zenon DEF InFlow
    <3>6. made' = made  BY <2>6, <3>2
    <3> QED  BY <1>1, <2>5, <3>4, <3>5, <3>6, FlowPrimed
  <2>14. SessionSound'
    <3>1. at + 1 <= Length + 1  BY <2>1, <2>3, <2>7
    <3> QED  BY <1>1, <1>2, <2>5, <2>7, <2>11, <2>12, <2>13, <3>1 DEF SessionSound, Flush
  <2> QED  BY <2>5, <2>9, <2>10, <2>14 DEF IInv
<1> QED  BY <1>3, <1>4 DEF UsbCtrl

(* Where the flush and the headers are in the sequences.                     *)
LEMMA FlushPlace ==
    ASSUME speed \in 0 .. 3, mode \in {"capture", "test"}, at \in 1 .. 16, at <= Len(Sequence)
    PROVE  /\ Step[1] = "flush" => at = Flush
           /\ Step[1] = "headers" => at = 15 /\ mode = "capture"
<1>1. PICK m \in {0, 1}, q \in {0, 1} : m = speed % 2 /\ q = speed \div 2  OBVIOUS
<1>2. PICK s : s = Sequence  OBVIOUS
<1>3. /\ Len(s) = Length
      /\ s[1] = <<"Reset", 1>> /\ s[2] = <<"Enable", 0>>
      /\ s[3] = <<"Test", 0>> /\ s[4] = <<"Speed0", 1>>
      /\ s[5] = <<"Speed0", 0>> /\ s[6] = <<"Speed1", 1>>
      /\ s[7] = <<"Speed1", 0>> /\ s[10] = <<"flush", 0>>
      /\ mode = "test" => /\ s[8] = <<"Reset", 1>>
                          /\ s[9] = <<"Test", 1>>
                          /\ s[11] = <<"Reset", 0>>
      /\ mode = "capture" => /\ s[8] = <<"Enable", 0>>
                             /\ s[9] = <<"Reset", 1>>
                             /\ s[11] = <<"Speed0", m>>
                             /\ s[12] = <<"Speed1", q>>
                             /\ s[13] = <<"Reset", 0>>
                             /\ s[14] = <<"Enable", 1>>
                             /\ s[15] = <<"headers", 0>>
  BY <1>1, <1>2, Steps
<1>4. Step = s[at]  BY <1>2 DEF Step
<1>5. CASE mode = "test"
  <2>1. at \in {1, 2, 3, 4, 5, 6, 7, 8, 9, 10, 11}  BY <1>2, <1>3, <1>5 DEF Length
  <2> QED  BY <1>3, <1>4, <1>5, <2>1 DEF Flush
<1>6. CASE mode = "capture"
  <2>1. at \in {1, 2, 3, 4, 5, 6, 7, 8, 9, 10, 11, 12, 13, 14, 15}
    BY <1>2, <1>3, <1>6 DEF Length
  <2>2. CASE at \in {1, 2, 3, 4, 5, 6, 7}
    <3>1. CASE at \in {1, 2, 3}  BY <1>3, <1>4, <3>1
    <3>2. CASE at \in {4, 5, 6, 7}  BY <1>3, <1>4, <3>2
    <3> QED  BY <2>2, <3>1, <3>2
  <2>3. CASE at \in {8, 9, 11, 12, 13, 14}
    <3>1. CASE at \in {8, 9, 11}  BY <1>3, <1>4, <1>6, <3>1, SMTT(20)
    <3>2. CASE at \in {12, 13, 14}  BY <1>3, <1>4, <1>6, <3>2
    <3> QED  BY <2>3, <3>1, <3>2
  <2>4. CASE at = 10  BY <1>3, <1>4, <2>4 DEF Flush
  <2>5. CASE at = 15  BY <1>3, <1>4, <1>6, <2>5
  <2> QED  BY <2>1, <2>2, <2>3, <2>4, <2>5
<1> QED  BY <1>5, <1>6

(* The flush empties the FIFO: it has a round for every word, and none is    *)
(* made meanwhile.                                                           *)
LEMMA UsbFlushDataIInv == IInv /\ UsbFlushData => IInv'
<1> SUFFICES ASSUME IInv, UsbFlushData PROVE IInv'  OBVIOUS
<1>1. /\ pc = "ctrl" /\ at <= Len(Sequence) /\ Step[1] = "flush"
      /\ UNCHANGED <<speed, regs, made, flight, due, closing, fed, bad>>
  BY DEF UsbFlushData
<1>2. UsbTypeOK /\ TransfersPlaced /\ SessionSound /\ InSession
  BY <1>1 DEF IInv, InSession
<1>3. /\ at \in 1 .. 16 /\ round \in Nat /\ fifo \in Seq(Words) /\ speed \in 0 .. 3
      /\ mode \in {"capture", "test"} /\ Len(fifo) \in Nat /\ Len(fifo) <= FifoDepth
      /\ due = <<>> /\ fed = 0 /\ due \in Seq(Completions)
  BY <1>1, <1>2 DEF UsbTypeOK, SessionSound, TransfersPlaced
<1>4. at = Flush  BY <1>1, <1>3, FlushPlace
<1>5. /\ regs["Reset"] = 1 /\ made = 0 /\ round <= FlushReads
      /\ Len(fifo) <= FlushReads - round
  BY <1>2, <1>4 DEF SessionSound, Held, Release, Flush
<1>6. CASE Exits /\ UNCHANGED <<at, round, fifo>>
  <2>1. due' \in Seq(Completions) /\ Len(due') <= Len(due) /\ fed' \in Nat
    BY <1>1, <1>3
  <2> QED  BY <1>1, <1>2, <1>6, <2>1, ExitIInv DEF Exits
<1>7. CASE /\ round < FlushReads /\ fifo # <<>> /\ fifo' = Tail(fifo) /\ round' = round + 1
           /\ UNCHANGED <<mode, pc, at>>
  <2>1. PICK g \in Seq(Words) : g = Tail(fifo) /\ Len(g) = Len(fifo) - 1
    BY <1>3, <1>7, TailShape
  <2>2. Len(g) <= FifoDepth /\ round + 1 \in Nat  BY <1>3, <2>1, RoundsAssumption
  <2>3. UsbTypeOK'  BY <1>1, <1>2, <1>7, <2>1, <2>2, Zenon DEF UsbTypeOK
  <2>4. TransfersPlaced'  BY <1>1, <1>2, <1>7 DEF TransfersPlaced
  <2>5. round + 1 <= FlushReads /\ Len(g) <= FlushReads - (round + 1)
    BY <1>3, <1>5, <1>7, <2>1, RoundsAssumption
  <2>6. Held'
    BY <1>1, <1>4, <1>5, <1>7, <2>1, <2>5 DEF Held, Release, Flush
  <2>7. Settled'  BY <1>1, <1>2, <1>7 DEF SessionSound, Settled
  <2>8. SessionSound'
    BY <1>1, <1>2, <1>3, <1>4, <1>7, <2>6, <2>7 DEF SessionSound, Length, Flush
  <2> QED  BY <1>1, <1>7, <2>3, <2>4, <2>8 DEF IInv
<1>8. CASE /\ round = FlushReads \/ fifo = <<>>
           /\ round' = 0 /\ at' = at + 1 /\ UNCHANGED <<mode, pc, fifo>>
  <2>1. fifo = <<>>
    <3>1. CASE round = FlushReads
      <4>1. Len(fifo) = 0  BY <1>3, <1>5, <3>1, RoundsAssumption
      <4> QED  BY <1>3, <4>1
    <3> QED  BY <1>8, <3>1
  <2>2. at' = 11 /\ round' \in Nat  BY <1>4, <1>8 DEF Flush
  <2>3. UsbTypeOK'  BY <1>1, <1>2, <1>8, <2>2 DEF UsbTypeOK
  <2>4. TransfersPlaced'  BY <1>1, <1>2, <1>8 DEF TransfersPlaced
  <2>5. Held'  BY <1>1, <1>5, <1>8, <2>1, <2>2 DEF Held, Release, Flush
  <2>6. Settled'
    <3>1. mode = "test" => regs["Speed0"] = 0 /\ regs["Speed1"] = 0 /\ regs["Test"] = 1
      BY <1>2, <1>4 DEF SessionSound, Settled, Flush
    <3>2. mode = "capture" => regs["Test"] = 0
      BY <1>2, <1>4 DEF SessionSound, Settled, Flush
    <3> QED  BY <1>1, <1>8, <2>2, <3>1, <3>2 DEF Settled
  <2>7. InFlow'
    <3>1. PICK q \in Seq(Words), d \in Seq(Completions) :
             q = fifo /\ d = due /\ Len(q) = 0 /\ Len(d) = 0
      BY <1>3, <2>1
    <3>2. Flow(0, 0, q, d)  BY <3>1 DEF Flow
    <3>3. made' - Len(fifo') = 0  BY <1>1, <1>5, <1>8, <3>1
    <3> QED  BY <1>1, <1>3, <1>8, <3>1, <3>2, <3>3, FlowPrimed
  <2>8. SessionSound'
    BY <1>1, <1>3, <1>8, <2>2, <2>5, <2>6, <2>7 DEF SessionSound, Length
  <2> QED  BY <1>1, <1>8, <2>3, <2>4, <2>8 DEF IInv
<1> QED  BY <1>6, <1>7, <1>8 DEF UsbFlushData

LEMMA WriteHeadersIInv == IInv /\ WriteHeaders => IInv'
<1> SUFFICES ASSUME IInv, WriteHeaders PROVE IInv'  OBVIOUS
<1>1. /\ pc = "ctrl" /\ at <= Len(Sequence) /\ Step[1] = "headers"
      /\ UNCHANGED <<speed, regs, fifo, made, flight, due, closing, fed, bad, round>>
  BY DEF WriteHeaders, devVars
<1>2. UsbTypeOK /\ TransfersPlaced /\ SessionSound /\ InSession
  BY <1>1 DEF IInv, InSession
<1>3. /\ at \in 1 .. 16 /\ speed \in 0 .. 3 /\ mode \in {"capture", "test"}
      /\ due \in Seq(Completions) /\ fed \in Nat /\ Len(due) \in Nat
  BY <1>2 DEF UsbTypeOK, SessionSound
<1>4. at = 15 /\ mode = "capture"  BY <1>1, <1>3, FlushPlace
<1>5. CASE Exits /\ UNCHANGED at
  <2>1. due' \in Seq(Completions) /\ Len(due') <= Len(due) /\ fed' \in Nat
    BY <1>1, <1>3
  <2> QED  BY <1>1, <1>2, <1>5, <2>1, ExitIInv DEF Exits
<1>6. CASE at' = at + 1 /\ UNCHANGED <<mode, pc>>
  <2>1. at' = 16 /\ at' \in 1 .. 16  BY <1>4, <1>6
  <2>2. UsbTypeOK'  BY <1>1, <1>2, <2>1, Zenon DEF UsbTypeOK
  <2>3. TransfersPlaced'  BY <1>1, <1>2, <1>6 DEF TransfersPlaced
  <2>4. Held'  BY <1>4, <1>6, <2>1 DEF Held, Release, Flush
  <2>5. Settled'  BY <1>1, <1>2, <1>4, <1>6, <2>1 DEF SessionSound, Settled
  <2>6. InFlow'
    <3>1. InFlow  BY <1>2, <1>4 DEF SessionSound, Flush
    <3>2. PICK f \in Nat, b \in Nat, q \in Seq(Words), d \in Seq(Completions) :
             f = fed /\ b = made - Len(fifo) /\ q = fifo /\ d = due
      BY <1>2, <3>1 DEF InFlow, UsbTypeOK
    <3>3. Flow(f, b, q, d)  BY <3>1, <3>2, Zenon DEF InFlow
    <3> QED  BY <1>1, <1>6, <3>2, <3>3, FlowPrimed
  <2>7. SessionSound'
    <3>1. at' <= Length' + 1  BY <1>4, <1>6, <2>1 DEF Length
    <3> QED  BY <1>1, <1>2, <1>4, <1>6, <2>4, <2>5, <2>6, <3>1 DEF SessionSound
  <2> QED  BY <1>1, <1>6, <2>2, <2>3, <2>7 DEF IInv
<1> QED  BY <1>5, <1>6 DEF WriteHeaders

LEMMA UsbDataTransferIInv == IInv /\ UsbDataTransfer => IInv'
<1> SUFFICES ASSUME IInv, UsbDataTransfer PROVE IInv'  OBVIOUS
<1>1. /\ pc = "ctrl" /\ at > Len(Sequence)
      /\ UNCHANGED <<at, speed, regs, fifo, made, due, closing, fed, bad, round>>
  BY DEF UsbDataTransfer, devVars
<1>2. UsbTypeOK /\ TransfersPlaced /\ SessionSound /\ InSession
  BY <1>1 DEF IInv, InSession
<1>3. /\ at \in 1 .. 16 /\ speed \in 0 .. 3 /\ mode \in {"capture", "test"}
      /\ due \in Seq(Completions) /\ fed \in Nat /\ Len(due) \in Nat
  BY <1>2 DEF UsbTypeOK, SessionSound
<1>4. at = Length + 1
  <2>1. Len(Sequence) = Length  BY <1>3, Steps
  <2>2. at > Length  BY <1>1, <2>1
  <2>3. at <= Length + 1 /\ Length \in Nat  BY <1>2 DEF SessionSound, Length
  <2> QED  BY <1>3, <2>2, <2>3
<1>5. CASE Exits /\ UNCHANGED flight
  <2>1. due' \in Seq(Completions) /\ Len(due') <= Len(due) /\ fed' \in Nat
    BY <1>1, <1>3
  <2> QED  BY <1>1, <1>2, <1>5, <2>1, ExitIInv DEF Exits
<1>6. CASE pc' = "loop" /\ flight' = Transfers /\ UNCHANGED mode
  <2>1. flight' \in Nat /\ Len(due') = 0 /\ ~closing'
    BY <1>1, <1>2, <1>6, RoundsAssumption DEF TransfersPlaced, UsbTypeOK
  <2>2. UsbTypeOK'  BY <1>1, <1>2, <2>1, Zenon DEF UsbTypeOK
  <2>3. TransfersPlaced'  BY <1>6, <2>1, RoundsAssumption DEF TransfersPlaced
  <2>4. Held' /\ Settled'
    BY <1>1, <1>2, <1>6 DEF SessionSound, Held, Settled, Release, Flush
  <2>5. InFlow'
    <3>1. InFlow
      <4>1. at > Flush  BY <1>4 DEF Length, Flush
      <4> QED  BY <1>2, <4>1 DEF SessionSound
    <3>2. PICK f \in Nat, b \in Nat, q \in Seq(Words), d \in Seq(Completions) :
             f = fed /\ b = made - Len(fifo) /\ q = fifo /\ d = due
      BY <1>2, <3>1 DEF InFlow, UsbTypeOK
    <3>3. Flow(f, b, q, d)  BY <3>1, <3>2, Zenon DEF InFlow
    <3> QED  BY <1>1, <1>6, <3>2, <3>3, FlowPrimed
  <2>6. Length' = Length  BY <1>6 DEF Length
  <2>7. SessionSound'
    BY <1>1, <1>3, <1>4, <1>6, <2>4, <2>5, <2>6 DEF SessionSound
  <2> QED  BY <1>6, <2>2, <2>3, <2>7 DEF IInv
<1> QED  BY <1>5, <1>6 DEF UsbDataTransfer

-----------------------------------------------------------------------------
(* The callback.                                                             *)

(* The head of what is due, and what is left of it.                          *)
LEMMA Callback ==
    ASSUME IInv, pc = "events", due # <<>>
    PROVE  /\ Tail(due) \in Seq(Completions) /\ Len(Tail(due)) = Len(due) - 1
           /\ Len(due) \in Nat \ {0} /\ ~closing /\ flight + Len(due) <= Transfers
           /\ flight \in Nat /\ fed \in Nat /\ speed \in 0 .. 3
           /\ mode \in {"capture", "test"}
           /\ Head(due)[2] # None => Head(due)[2] = Wanted(fed + 1)
<1>1. UsbTypeOK /\ TransfersPlaced /\ SessionSound  BY DEF IInv, InSession
<1>2. /\ Tail(due) \in Seq(Completions) /\ Len(Tail(due)) = Len(due) - 1
      /\ Len(due) \in Nat \ {0}
  BY <1>1, TailShape DEF UsbTypeOK
<1>3. InFlow
  <2>1. at > Flush  BY <1>1 DEF SessionSound, Length, Flush
  <2> QED  BY <1>1, <2>1 DEF SessionSound
<1>4. PICK f \in Nat, b \in Nat, q \in Seq(Words), d \in Seq(Completions) :
         f = fed /\ b = made - Len(fifo) /\ q = fifo /\ d = due
  BY <1>1, <1>3 DEF InFlow, UsbTypeOK
<1>5. Flow(f, b, q, d) /\ speed \in 0 .. 3  BY <1>1, <1>3, <1>4, Zenon DEF InFlow, UsbTypeOK
<1>6. Head(d)[2] # None => Head(d)[2] = Wanted(f + 1)  BY <1>4, <1>5, FlowFed
<1> QED  BY <1>1, <1>2, <1>4, <1>6 DEF UsbTypeOK, TransfersPlaced, SessionSound

(* A callback that ends the process, whatever it handed on.                  *)
LEMMA CallbackExitIInv ==
    ASSUME IInv, pc = "events", due # <<>>, due' = Tail(due), pc' = "over",
           UNCHANGED <<at, speed, regs, fifo, made, flight, closing, bad, round>>, fed' \in Nat
    PROVE  IInv'
<1>1. due' \in Seq(Completions) /\ Len(due') <= Len(due)  BY Callback
<1>2. InSession  BY DEF InSession
<1> QED  BY <1>1, <1>2, ExitIInv

(* A callback after which the loop goes on.                                  *)
LEMMA CallbackStaysIInv ==
    ASSUME IInv, pc = "events", due # <<>>, due' = Tail(due), UNCHANGED <<mode, pc>>,
           UNCHANGED <<at, speed, regs, fifo, made, closing, round>>, bad' = FALSE,
           flight' \in {flight, flight + 1},
           \/ Head(due)[2] = None /\ fed' = fed
           \/ Head(due)[2] # None /\ fed' = fed + 1
    PROVE  IInv'
<1>1. /\ Tail(due) \in Seq(Completions) /\ Len(Tail(due)) = Len(due) - 1
      /\ Len(due) \in Nat \ {0} /\ ~closing /\ flight + Len(due) <= Transfers
      /\ flight \in Nat /\ fed \in Nat /\ speed \in 0 .. 3
  BY Callback
<1>2. UsbTypeOK /\ TransfersPlaced /\ SessionSound  BY DEF IInv, InSession
<1>3. fed' \in Nat /\ flight' \in Nat  BY <1>1
<1>4. UsbTypeOK'  BY <1>1, <1>2, <1>3, Zenon DEF UsbTypeOK
<1>5. TransfersPlaced'
  <2>1. flight' + Len(due') <= Transfers  BY <1>1, RoundsAssumption
  <2> QED  BY <1>1, <2>1 DEF TransfersPlaced
<1>6. InFlow'
  <2>1. InFlow
    <3>1. at > Flush  BY <1>2 DEF SessionSound, Length, Flush
    <3> QED  BY <1>2, <3>1 DEF SessionSound
  <2>2. PICK f \in Nat, b \in Nat, q \in Seq(Words), d \in Seq(Completions) :
           f = fed /\ b = made - Len(fifo) /\ q = fifo /\ d = due
    BY <1>2, <2>1 DEF InFlow, UsbTypeOK
  <2>3. Flow(f, b, q, d) /\ d # <<>>  BY <2>1, <2>2, Zenon DEF InFlow
  <2>4. PICK e : e = Tail(d)  OBVIOUS
  <2>5. /\ Head(d)[2] = None => Flow(f, b, q, e)
        /\ Head(d)[2] # None => Flow(f + 1, b, q, e)
    BY <1>1, <2>3, <2>4, FlowFed
  <2>6. PICK g \in Nat : g = fed'  BY <1>3
  <2>7. Flow(g, b, q, e)
    <3>1. CASE Head(due)[2] = None /\ fed' = fed  BY <2>2, <2>5, <2>6, <3>1
    <3>2. CASE Head(due)[2] # None /\ fed' = fed + 1
      <4>1. g = f + 1  BY <2>2, <2>6, <3>2
      <4> QED  BY <2>2, <2>5, <3>2, <4>1
    <3> QED  BY <3>1, <3>2
  <2> QED  BY <2>2, <2>4, <2>6, <2>7, FlowPrimed
<1>7. Settled' /\ Held'  BY <1>2 DEF SessionSound, Settled, Held, Release, Flush
<1>8. Length' = Length  BY DEF Length
<1>9. SessionSound'  BY <1>2, <1>6, <1>7, <1>8 DEF SessionSound
<1> QED  BY <1>4, <1>5, <1>9 DEF IInv

(* Feeding keeps bad unset.                                                  *)
LEMMA FeedGood ==
    ASSUME IInv, pc = "events", due # <<>>, Feed(Head(due)[2])
    PROVE  /\ bad' = FALSE /\ bad = FALSE /\ fed' \in Nat
           /\ \/ Head(due)[2] = None /\ fed' = fed
              \/ Head(due)[2] # None /\ fed' = fed + 1
<1>1. Head(due)[2] # None => Head(due)[2] = Wanted(fed + 1)  BY Callback
<1>2. fed \in Nat /\ bad = FALSE  BY DEF IInv, UsbTypeOK
<1>3. PICK w : w = Head(due)[2]  OBVIOUS
<1>4. /\ fed' = (IF w = None THEN fed ELSE fed + 1)
      /\ bad' = (bad \/ (w # None /\ w # Wanted(fed + 1)))
  BY <1>3 DEF Feed
<1>5. bad' = FALSE  BY <1>1, <1>2, <1>3, <1>4
<1> QED  BY <1>2, <1>3, <1>4, <1>5

LEMMA UsbCaptureCallbackIInv == IInv /\ UsbCaptureCallback => IInv'
<1> SUFFICES ASSUME IInv, UsbCaptureCallback PROVE IInv'  OBVIOUS
<1>1. /\ pc = "events" /\ due # <<>> /\ due' = Tail(due)
      /\ UNCHANGED <<at, speed, regs, fifo, made, closing, round>>
  BY DEF UsbCaptureCallback, devVars
<1>2. PICK status, word : status = Head(due)[1] /\ word = Head(due)[2]  OBVIOUS
<1>3. \/ /\ status \in {"cancelled", "nodevice"} /\ UNCHANGED <<mode, pc, flight, fed, bad>>
      \/ Exits /\ UNCHANGED <<flight, fed, bad>>
      \/ /\ Feed(word)
         /\ \/ Exits /\ UNCHANGED flight
            \/ flight' = flight + 1 /\ UNCHANGED <<mode, pc>>
  BY <1>2 DEF UsbCaptureCallback, Resubmit
<1>4. fed \in Nat /\ bad = FALSE  BY DEF IInv, UsbTypeOK
<1>5. CASE Exits /\ UNCHANGED <<flight, fed, bad>>
  BY <1>1, <1>4, <1>5, CallbackExitIInv DEF Exits
<1>6. CASE Feed(word) /\ Exits /\ UNCHANGED flight
  <2>1. bad' = bad /\ fed' \in Nat  BY <1>1, <1>2, <1>6, FeedGood
  <2> QED  BY <1>1, <1>6, <2>1, CallbackExitIInv DEF Exits
<1>7. CASE Feed(word) /\ flight' = flight + 1 /\ UNCHANGED <<mode, pc>>
  <2>1. /\ bad' = FALSE
        /\ \/ Head(due)[2] = None /\ fed' = fed
           \/ Head(due)[2] # None /\ fed' = fed + 1
    BY <1>1, <1>2, <1>7, FeedGood
  <2> QED  BY <1>1, <1>7, <2>1, CallbackStaysIInv
<1>8. CASE status \in {"cancelled", "nodevice"} /\ UNCHANGED <<mode, pc, flight, fed, bad>>
  <2>1. Head(due)[2] = None
    <3>1. Head(due) \in Completions  BY <1>1, TailShape DEF IInv, UsbTypeOK
    <3> QED  BY <1>2, <1>8, <3>1 DEF Completions, Statuses, Bare
  <2> QED  BY <1>1, <1>4, <1>8, <2>1, CallbackStaysIInv
<1> QED  BY <1>3, <1>5, <1>6, <1>7, <1>8

LEMMA CaptureEndsIInv == IInv /\ CaptureEnds => IInv'
<1> SUFFICES ASSUME IInv, CaptureEnds PROVE IInv'  OBVIOUS
<1>1. /\ pc = "events" /\ due # <<>> /\ due' = Tail(due) /\ pc' = "over"
      /\ Feed(Head(due)[2])
      /\ UNCHANGED <<at, speed, regs, fifo, made, flight, closing, round>>
  BY DEF CaptureEnds, devVars
<1>2. bad' = bad /\ fed' \in Nat  BY <1>1, FeedGood
<1> QED  BY <1>1, <1>2, CallbackExitIInv

-----------------------------------------------------------------------------
(* The teardown.                                                             *)
LEMMA UsbCloseIInv == IInv /\ UsbClose => IInv'
<1> SUFFICES ASSUME IInv, UsbClose PROVE IInv'  OBVIOUS
<1>1. /\ pc = "close" /\ closing' = TRUE /\ flight' = 0 /\ pc' = "drain" /\ round' = 0
      /\ due' = due \o [i \in 1 .. flight |-> <<"cancelled", None>>]
      /\ UNCHANGED <<mode, at, speed, regs, fifo, made, fed, bad>>
  BY DEF UsbClose, devVars
<1>2. UsbTypeOK /\ TransfersPlaced  BY DEF IInv
<1>3. due \in Seq(Completions) /\ flight \in Nat /\ Len(due) \in Nat  BY <1>2 DEF UsbTypeOK
<1>4. PICK x \in Completions : x = <<"cancelled", None>>  BY DEF Completions, Bare
<1>5. x[2] = None  BY <1>4
<1>6. PICK e : e = due \o [i \in 1 .. flight |-> x]  OBVIOUS
<1>7. e \in Seq(Completions) /\ Len(e) = Len(due) + flight
  BY <1>3, <1>5, <1>6, AllComplete
<1>8. due' = e  BY <1>1, <1>4, <1>6
<1>9. Len(e) <= Transfers /\ Len(e) <= DrainRounds
  BY <1>2, <1>3, <1>7, RoundsAssumption DEF TransfersPlaced
<1>10. UsbTypeOK'
  <2>1. closing' \in BOOLEAN  BY <1>1, Zenon
  <2>2. flight' \in Nat /\ round' \in Nat  BY <1>1
  <2> QED  BY <1>1, <1>2, <1>7, <1>8, <2>1, <2>2, Zenon DEF UsbTypeOK
<1>11. TransfersPlaced'
  <2>1. PICK n \in Nat : n = Len(e)  BY <1>7
  <2>2. Len(due') = n /\ n <= Transfers /\ n <= DrainRounds  BY <1>8, <1>9, <2>1
  <2>3. flight' + Len(due') <= Transfers
    <3>1. 0 + n <= Transfers  BY <2>1, <2>2
    <3>2. flight' = 0 /\ Len(due') = n  BY <1>1, <2>2, Zenon
    <3> QED  BY <3>1, <3>2, Zenon
  <2>4. round' <= DrainRounds /\ Len(due') <= DrainRounds - round'
    <3>1. 0 <= DrainRounds /\ n <= DrainRounds - 0  BY <2>1, <2>2, RoundsAssumption
    <3>2. round' = 0 /\ Len(due') = n  BY <1>1, <2>2, Zenon
    <3> QED  BY <3>1, <3>2, Zenon
  <2>5. closing' /\ pc' = "drain" /\ flight' = 0  BY <1>1
  <2> QED  BY <2>3, <2>4, <2>5 DEF TransfersPlaced
<1> QED  BY <1>1, <1>10, <1>11 DEF IInv, InSession

LEMMA UsbCloseDrainIInv == IInv /\ UsbCloseDrain => IInv'
<1> SUFFICES ASSUME IInv, UsbCloseDrain PROVE IInv'  OBVIOUS
<1>1. /\ pc = "drain" /\ round < DrainRounds /\ round' = round + 1
      /\ due' = IF due = <<>> THEN due ELSE Tail(due)
      /\ UNCHANGED <<mode, pc, at, speed, regs, fifo, made, flight, closing, fed, bad>>
  BY DEF UsbCloseDrain, devVars
<1>2. UsbTypeOK /\ TransfersPlaced  BY DEF IInv
<1>3. /\ due \in Seq(Completions) /\ flight \in Nat /\ Len(due) \in Nat /\ round \in Nat
      /\ closing /\ flight = 0 /\ Len(due) <= DrainRounds - round
      /\ flight + Len(due) <= Transfers
  BY <1>1, <1>2 DEF UsbTypeOK, TransfersPlaced
<1>4. PICK e \in Seq(Completions), n \in Nat :
         e = due' /\ n = Len(e) /\ n <= Len(due) /\ n <= DrainRounds - (round + 1)
  <2>1. CASE due = <<>>
    <3>1. due' = due /\ Len(due) = 0  BY <1>1, <2>1
    <3>2. 0 <= DrainRounds - (round + 1)  BY <1>1, <1>3, RoundsAssumption
    <3>3. PICK e \in Seq(Completions) : e = due  BY <1>3
    <3>4. e = due' /\ Len(e) = 0 /\ 0 <= Len(due)  BY <3>1, <3>3
    <3>5. 0 \in Nat /\ 0 = Len(e)  BY <3>4
    <3> QED  BY <3>2, <3>4, <3>5, Zenon
  <2>2. CASE due # <<>>
    <3>1. due' = Tail(due)  BY <1>1, <2>2
    <3>2. PICK t \in Seq(Completions) : t = Tail(due) /\ Len(t) = Len(due) - 1 /\ Len(due) > 0
      <4>1. Tail(due) \in Seq(Completions) /\ Len(Tail(due)) = Len(due) - 1
        BY <1>3, <2>2, TailShape, Zenon
      <4>2. Len(due) > 0  BY <1>3, <2>2
      <4> QED  BY <4>1, <4>2
    <3>3. /\ Len(t) \in Nat /\ Len(t) <= Len(due) /\ Len(t) <= DrainRounds - (round + 1)
      BY <1>3, <3>2, RoundsAssumption
    <3> QED  BY <3>1, <3>2, <3>3
  <2> QED  BY <2>1, <2>2
<1>5. UsbTypeOK'
  <2>1. round' \in Nat  BY <1>1, <1>3
  <2> QED  BY <1>1, <1>2, <1>4, <2>1, Zenon DEF UsbTypeOK
<1>6. TransfersPlaced'
  <2>1. flight' + Len(due') <= Transfers  BY <1>1, <1>3, <1>4, RoundsAssumption
  <2>2. round' <= DrainRounds /\ Len(due') <= DrainRounds - round'
    BY <1>1, <1>3, <1>4, RoundsAssumption
  <2> QED  BY <1>1, <1>3, <2>1, <2>2 DEF TransfersPlaced
<1> QED  BY <1>1, <1>5, <1>6 DEF IInv, InSession

LEMMA UsbCloseFreeIInv == IInv /\ UsbCloseFree => IInv'
<1> SUFFICES ASSUME IInv, UsbCloseFree PROVE IInv'  OBVIOUS
<1>1. pc = "drain" /\ round = DrainRounds /\ pc' = "over" /\ UNCHANGED usbVars
  BY DEF UsbCloseFree
<1>2. UsbTypeOK /\ TransfersPlaced  BY DEF IInv
<1>3. due = <<>>
  <2>1. Len(due) \in Nat /\ Len(due) <= DrainRounds - DrainRounds /\ due \in Seq(Completions)
    BY <1>1, <1>2 DEF UsbTypeOK, TransfersPlaced
  <2>2. Len(due) = 0  BY <2>1, RoundsAssumption
  <2> QED  BY <2>1, <2>2
<1>4. UsbTypeOK'  BY <1>1, <1>2 DEF UsbTypeOK, usbVars
<1>5. TransfersPlaced'  BY <1>1, <1>2, <1>3 DEF TransfersPlaced, usbVars
<1> QED  BY <1>1, <1>4, <1>5 DEF IInv, InSession

-----------------------------------------------------------------------------
(* Every step of the process and of the device preserves the invariant.      *)
LEMMA NextIInv == IInv /\ [Next]_vars => IInv'
<1> SUFFICES ASSUME IInv, [Next]_vars PROVE IInv'  OBVIOUS
<1>1. CASE Main  BY <1>1, MainIInv
<1>2. CASE Open  BY <1>2, OpenIInv
<1>3. CASE LoaderThread \/ ExecuteClock  BY <1>3, LoaderIInv
<1>4. CASE Device
  BY <1>4, MakeWordIInv, CompleteIInv, StallIInv, UnplugIInv DEF Device
<1>5. CASE Signal  BY <1>5, SignalIInv
<1>6. CASE UsbThread
  BY <1>6, UsbCtrlIInv, UsbFlushDataIInv, WriteHeadersIInv, UsbDataTransferIInv, LoopIInv,
     UsbCaptureCallbackIInv, CaptureEndsIInv, UsbCloseIInv, UsbCloseDrainIInv,
     UsbCloseFreeIInv DEF UsbThread
<1>7. CASE UNCHANGED vars
  <2>1. UNCHANGED usbButStop /\ UNCHANGED <<pc, mode>>  BY <1>7 DEF vars, usbVars, usbButStop
  <2> QED  BY <2>1, StaysIInv
<1> QED  BY <1>1, <1>2, <1>3, <1>4, <1>5, <1>6, <1>7 DEF Next, Engine

LEMMA Invariance == Spec => []IInv
<1> QED  BY InitIInv, NextIInv, PTL DEF Spec

(* capture_start and usb_speed_test: whatever an earlier session left in the *)
(* device, what is handed on is the next word of the data asked for, and     *)
(* usb_close frees no transfer before its callback, for any number of        *)
(* transfers, any FIFO and any order of completions, failures and signals.   *)
THEOREM OwnData == Spec => []OwnDataInOrder
<1>1. IInv => OwnDataInOrder
  BY DEF IInv, UsbTypeOK, TransfersPlaced, OwnDataInOrder
<1> QED  BY <1>1, Invariance, PTL

-----------------------------------------------------------------------------
(* The tools.  The host is at place h of the routine of mode m, and the      *)
(* device at the clocks of the trail q, which leads there.                   *)
InTool == mode \in JtagModes /\ pc \in {"tool", "close"}

Hosted(m, h) ==
    /\ InTool => /\ m = mode /\ HostAt(m, h, items, op) /\ op \in 1 .. Len(Ops(m)) + 1
                 /\ items = <<>> /\ op = Len(Ops(m)) + 1 /\ m # "fpga_erase" => buf = <<>>
                 /\ pc = "close" => wire = <<>> /\ items = <<>> /\ op = Len(Ops(m)) + 1
    /\ pc = "main" => h = <<1, 1>> /\ buf = <<>> /\ wire = <<>> /\ op = 1 /\ items = <<>>

Tracked(m, q, h) == Placed(m, q, h, buf, wire, tap, fpga) /\ Hosted(m, h)

LoaderFacts == (wire # <<>> => buf = <<>>) /\ garbled = FALSE

LoaderType == /\ TapType(tap) /\ ARecord(tap)
              /\ items \in Seq(AllItems) /\ buf \in Seq(AllItems) /\ wire \in Seq(AllItems)

LoaderInv == /\ LoaderType /\ LoaderFacts
             /\ \E m \in JtagModes, q \in Seq(Places), h \in Places : Tracked(m, q, h)

-----------------------------------------------------------------------------
(* The steps of the system and the invariant.                                *)
LEMMA LoaderHolds ==
    ASSUME NEW m \in JtagModes, NEW q \in Seq(Places), NEW h \in Places,
           TapType(tap'), ARecord(tap'), items' \in Seq(AllItems), buf' \in Seq(AllItems), wire' \in Seq(AllItems),
           wire' # <<>> => buf' = <<>>, garbled' = FALSE,
           Placed(m, q, h, buf', wire', tap', fpga'), Hosted(m, h)'
    PROVE  LoaderInv'
<1>1. LoaderType'  BY Zenon DEF LoaderType
<1>2. LoaderFacts'  BY Zenon DEF LoaderFacts
<1>3. Tracked(m, q, h)'  BY Zenon DEF Tracked
<1> QED  BY <1>1, <1>2, <1>3, Zenon DEF LoaderInv

LEMMA LoaderIs ==
    ASSUME LoaderInv
    PROVE  /\ TapType(tap) /\ ARecord(tap) /\ items \in Seq(AllItems) /\ buf \in Seq(AllItems) /\ wire \in Seq(AllItems)
           /\ wire # <<>> => buf = <<>>
           /\ garbled = FALSE
           /\ \E m \in JtagModes, q \in Seq(Places), h \in Places :
                 Placed(m, q, h, buf, wire, tap, fpga) /\ Hosted(m, h)
<1>1. LoaderType /\ LoaderFacts  BY DEF LoaderInv
<1>2. \E m \in JtagModes, q \in Seq(Places), h \in Places : Tracked(m, q, h)  BY Zenon DEF LoaderInv
<1>3. PICK m \in JtagModes, q \in Seq(Places), h \in Places : Tracked(m, q, h)  BY <1>2, Zenon
<1>4. Placed(m, q, h, buf, wire, tap, fpga) /\ Hosted(m, h)  BY <1>3, Zenon DEF Tracked
<1>5. \E n \in JtagModes, y \in Seq(Places), g \in Places :
                 Placed(n, y, g, buf, wire, tap, fpga) /\ Hosted(n, g)
  BY <1>4, Zenon
<1> QED  BY <1>1, <1>5, Zenon DEF LoaderType, LoaderFacts

LEMMA OverHosted == ASSUME NEW m, NEW h, pc' = "over" PROVE Hosted(m, h)'
BY DEF Hosted, InTool

LEMMA ExecuteLoader == LoaderInv /\ ExecuteClock => LoaderInv'
<1> SUFFICES ASSUME LoaderInv, ExecuteClock PROVE LoaderInv'  OBVIOUS
<1>1. /\ TapType(tap) /\ ARecord(tap) /\ items \in Seq(AllItems) /\ wire \in Seq(AllItems)
      /\ wire # <<>> => buf = <<>>
      /\ garbled = FALSE
  BY LoaderIs, Zenon
<1>2. PICK m \in JtagModes, q \in Seq(Places), h \in Places :
        Placed(m, q, h, buf, wire, tap, fpga) /\ Hosted(m, h)
  BY LoaderIs, Zenon
<1>3. /\ wire # <<>> /\ wire' = Tail(wire) /\ UNCHANGED <<mode, pc, op, items, buf, mcu, garbled>>
      /\ Clocked(tap, fpga, Head(wire)[2], Head(wire)[3], tap', fpga') /\ ARecord(tap')
  BY ExecuteIs, Zenon
<1>4. PICK w, t, f, t2, f2 : w = wire /\ t = tap /\ f = fpga /\ t2 = tap' /\ f2 = fpga'  BY Zenon
<1>5. buf = <<>> /\ buf' = <<>>  BY <1>1, <1>3
<1>6. /\ w \in Seq(AllItems) /\ w # <<>> /\ Placed(m, q, h, <<>>, w, t, f) /\ TapType(t)
      /\ Clocked(t, f, Head(w)[2], Head(w)[3], t2, f2)
  BY <1>1, <1>2, <1>3, <1>4, <1>5, Zenon
<1>7. Placed(m, Tail(q), h, <<>>, Tail(w), t2, f2) /\ TapType(t2) /\ Tail(q) \in Seq(Places)
  BY <1>6, PlacedTick
<1>8. Hosted(m, h)'
  BY <1>2, <1>3 DEF Hosted, InTool
<1>9. <<>> \in Seq(AllItems) /\ Tail(w) \in Seq(AllItems)  BY <1>6, TailShape
<1>10. Placed(m, Tail(q), h, buf', wire', tap', fpga') /\ TapType(tap')  BY <1>3, <1>4, <1>5, <1>7, Zenon
<1>11. items' \in Seq(AllItems) /\ buf' \in Seq(AllItems) /\ wire' \in Seq(AllItems) /\ garbled' = FALSE
  BY <1>1, <1>3, <1>4, <1>5, <1>9, Zenon
<1> QED  BY <1>3, <1>5, <1>7, <1>8, <1>10, <1>11, LoaderHolds

LEMMA LoaderStays ==
    ASSUME LoaderInv, UNCHANGED <<items, buf, wire, tap, fpga, garbled>>,
           pc' = "main" => pc = "main" /\ op' = op,
           mode' \in JtagModes /\ pc' \in {"tool", "close"} => mode' = mode /\ pc' = pc /\ op' = op
    PROVE  LoaderInv'
<1>1. /\ TapType(tap) /\ ARecord(tap) /\ items \in Seq(AllItems) /\ buf \in Seq(AllItems) /\ wire \in Seq(AllItems)
      /\ wire # <<>> => buf = <<>>
      /\ garbled = FALSE
  BY LoaderIs, Zenon
<1>2. PICK m \in JtagModes, q \in Seq(Places), h \in Places :
        Placed(m, q, h, buf, wire, tap, fpga) /\ Hosted(m, h)
  BY LoaderIs, Zenon
<1>3. /\ items' = items /\ buf' = buf /\ wire' = wire /\ tap' = tap /\ fpga' = fpga /\ garbled' = garbled
  OBVIOUS
<1>4. Hosted(m, h)'
  <2>1. ASSUME InTool'
        PROVE  /\ m = mode' /\ HostAt(m, h, items', op') /\ op' \in 1 .. Len(Ops(m)) + 1
               /\ items' = <<>> /\ op' = Len(Ops(m)) + 1 /\ m # "fpga_erase" => buf' = <<>>
               /\ pc' = "close" => wire' = <<>> /\ items' = <<>> /\ op' = Len(Ops(m)) + 1
    <3>1. mode' = mode /\ pc' = pc /\ op' = op /\ InTool  BY <2>1 DEF InTool
    <3>2. /\ m = mode /\ HostAt(m, h, items, op) /\ op \in 1 .. Len(Ops(m)) + 1
          /\ items = <<>> /\ op = Len(Ops(m)) + 1 /\ m # "fpga_erase" => buf = <<>>
          /\ pc = "close" => wire = <<>> /\ items = <<>> /\ op = Len(Ops(m)) + 1
      BY <1>2, <3>1, Zenon DEF Hosted
    <3> QED  BY <1>3, <3>1, <3>2, Zenon
  <2>2. pc' = "main" => h = <<1, 1>> /\ buf' = <<>> /\ wire' = <<>> /\ op' = 1 /\ items' = <<>>
    BY <1>2, <1>3, Zenon DEF Hosted
  <2> QED  BY <2>1, <2>2, Zenon DEF Hosted
<1>5. Placed(m, q, h, buf', wire', tap', fpga')  BY <1>2, <1>3, Zenon
<1>6. /\ TapType(tap') /\ ARecord(tap') /\ items' \in Seq(AllItems) /\ buf' \in Seq(AllItems) /\ wire' \in Seq(AllItems)
      /\ wire' # <<>> => buf' = <<>>
      /\ garbled' = FALSE
  BY <1>1, <1>3, Zenon
<1> QED  BY <1>4, <1>5, <1>6, LoaderHolds

LEMMA NoTrail == ASSUME NEW m, NEW h PROVE Trail(m, <<>>, h, <<>>)
BY DEF Trail

LEMMA PlacedFirst ==
    ASSUME NEW m \in JtagModes, NEW t, NEW f, FirstState(1, t.state), StrayData(t, f)
    PROVE  Placed(m, <<>>, <<1, 1>>, <<>>, <<>>, t, f) /\ <<1, 1>> \in Places
<1>1. PICK h : h = <<1, 1>>  OBVIOUS
<1>2. h \in Places /\ h[1] = 1 /\ h[2] = 1  BY <1>1, PlaceIs
<1>3. At(m, h, t, f)
  <2>1. PICK B \in Nat \ {0} : B = Bits  BY BitsAssumption
  <2>2. 1 <= 6 + Bits  BY <2>1
  <2> QED  BY <1>1, <2>2, AtFirst
<1>4. Within(m, h) \/ h = End(m)  BY <1>3, Zenon DEF At
<1>5. ~Reading(m, h)  BY <1>2 DEF Reading
<1>6. Echo(m, h, h, Len(<<>>), Len(<<>>), Len(t.tdo))  BY <1>5, Zenon DEF Echo
<1>7. DeviceAt(<<>>, h) = h  BY DEF DeviceAt
<1>8. Trail(m, <<>>, h, IF <<>> = <<>> THEN <<>> ELSE <<>>)  BY NoTrail
<1>9. Placed(m, <<>>, h, <<>>, <<>>, t, f)  BY <1>3, <1>4, <1>6, <1>7, <1>8, Zenon DEF Placed
<1> QED  BY <1>1, <1>2, <1>9

LEMMA PlacedAtFirst ==
    ASSUME NEW m \in JtagModes, NEW q \in Seq(Places), NEW t, NEW f, Placed(m, q, <<1, 1>>, <<>>, <<>>, t, f)
    PROVE  FirstState(1, t.state) /\ StrayData(t, f)
<1>1. PICK h : h = <<1, 1>>  OBVIOUS
<1>2. Trail(m, q, h, <<>>) /\ At(m, DeviceAt(q, h), t, f)  BY <1>1, Zenon DEF Placed
<1>3. Len(q) = Len(<<>>) /\ Len(<<>>) = 0  BY <1>2 DEF Trail
<1>4. q = <<>>  BY <1>3, EmptyIs
<1>5. At(m, <<1, 1>>, t, f)  BY <1>1, <1>2, <1>4 DEF DeviceAt
<1> QED  BY <1>5, AtFirst

LEMMA RoutineIs == mode \in JtagModes => Routine = Ops(mode)
<1>1. CASE mode = "fpga_erase"  BY <1>1, EraseMode DEF Routine
<1>2. CASE mode = "fpga_flash"  BY <1>2, FlashMode DEF Routine
<1>3. CASE mode = "fpga_sram"  BY <1>3, SramMode DEF Routine
<1> QED  BY <1>1, <1>2, <1>3 DEF JtagModes

LEMMA MainLoader == LoaderInv /\ Main => LoaderInv'
<1> SUFFICES ASSUME LoaderInv, Main PROVE LoaderInv'  OBVIOUS
<1>1. pc = "main" /\ UNCHANGED loadVars  BY DEF Main
<1>2. pc' \in {"main", "over"}  BY <1>1 DEF Main, RunSelectedCapture, Leave
<1> QED  BY <1>1, <1>2, LoaderStays DEF loadVars

LEMMA OpenLoader == LoaderInv /\ Open => LoaderInv'
<1> SUFFICES ASSUME LoaderInv, Open PROVE LoaderInv'  OBVIOUS
<1>1. pc = "main" /\ UNCHANGED loadVars  BY DEF Open
<1>2. \/ pc' = "over"
      \/ pc' \in {"ctrl", "tool"} /\ mode' = mode /\ (mode \in {"capture", "test"} => pc' = "ctrl")
  BY DEF Open, Leave
<1>3. UNCHANGED <<items, buf, wire, tap, fpga, garbled, op>>  BY <1>1 DEF loadVars
<1>4. CASE ~(pc' = "tool" /\ mode' \in JtagModes)
  <2>1. pc' # "main" /\ pc' # "close"  BY <1>2
  <2> QED  BY <1>3, <1>4, <2>1, LoaderStays
<1>5. CASE pc' = "tool" /\ mode' \in JtagModes
  <2>1. mode' = mode /\ mode \in JtagModes  BY <1>2, <1>5
  <2>2. /\ TapType(tap) /\ ARecord(tap) /\ items \in Seq(AllItems) /\ buf \in Seq(AllItems) /\ wire \in Seq(AllItems)
        /\ wire # <<>> => buf = <<>>
        /\ garbled = FALSE
    BY LoaderIs, Zenon
  <2>3. PICK m \in JtagModes, q \in Seq(Places), h \in Places :
          Placed(m, q, h, buf, wire, tap, fpga) /\ Hosted(m, h)
    BY LoaderIs, Zenon
  <2>4. h = <<1, 1>> /\ buf = <<>> /\ wire = <<>> /\ op = 1 /\ items = <<>>  BY <1>1, <2>3 DEF Hosted
  <2>5. PICK n, t, f : n = mode /\ t = tap /\ f = fpga  OBVIOUS
  <2>6. Placed(m, q, <<1, 1>>, <<>>, <<>>, t, f)  BY <2>3, <2>4, <2>5, Zenon
  <2>7. FirstState(1, t.state) /\ StrayData(t, f)  BY <2>6, PlacedAtFirst
  <2>8. Placed(n, <<>>, <<1, 1>>, <<>>, <<>>, t, f) /\ <<1, 1>> \in Places /\ n \in JtagModes
    BY <2>1, <2>5, <2>7, PlacedFirst
  <2>9. Placed(n, <<>>, h, buf', wire', tap', fpga') /\ <<>> \in Seq(Places)
    <3>1. <<>> \in Seq(Places)  OBVIOUS
    <3> QED  BY <1>3, <2>4, <2>5, <2>8, <3>1, Zenon
  <2>10. Hosted(n, h)'
    <3>1. HostAt(n, h, items', op')  BY <1>3, <2>4 DEF HostAt
    <3>2. op' \in 1 .. Len(Ops(n)) + 1  BY <1>3, <2>4, <2>8, OpsTypes
    <3>3. n = mode' /\ buf' = <<>>  BY <1>3, <2>1, <2>4, <2>5
    <3>4. pc' # "close" /\ pc' # "main"  BY <1>5
    <3> QED  BY <3>1, <3>2, <3>3, <3>4, Zenon DEF Hosted
  <2>11. /\ TapType(tap') /\ ARecord(tap') /\ items' \in Seq(AllItems) /\ buf' \in Seq(AllItems) /\ wire' \in Seq(AllItems)
         /\ wire' # <<>> => buf' = <<>>
         /\ garbled' = FALSE
    BY <1>3, <2>2
  <2> QED  BY <2>8, <2>9, <2>10, <2>11, LoaderHolds
<1> QED  BY <1>4, <1>5

(* A step of the loader that is not taken by the tools of the controller.    *)
LEMMA TurnIs ==
    ASSUME LoaderInv, JtagTurn
    PROVE  /\ pc = "tool" /\ mode \in JtagModes /\ wire = <<>>
           /\ \E q \in Seq(Places), h \in Places :
                 /\ Placed(mode, q, h, buf, wire, tap, fpga)
                 /\ HostAt(mode, h, items, op) /\ op \in 1 .. Len(Ops(mode)) + 1
                 /\ items = <<>> /\ op = Len(Ops(mode)) + 1 /\ mode # "fpga_erase" => buf = <<>>
<1>1. pc = "tool" /\ mode \in JtagModes /\ wire = <<>>  BY DEF JtagTurn
<1>2. PICK m \in JtagModes, q \in Seq(Places), h \in Places :
        Placed(m, q, h, buf, wire, tap, fpga) /\ Hosted(m, h)
  BY LoaderIs, Zenon
<1>3. InTool  BY <1>1 DEF InTool
<1>4. /\ m = mode /\ HostAt(m, h, items, op) /\ op \in 1 .. Len(Ops(m)) + 1
      /\ items = <<>> /\ op = Len(Ops(m)) + 1 /\ m # "fpga_erase" => buf = <<>>
  BY <1>2, <1>3, Zenon DEF Hosted
<1> QED  BY <1>1, <1>2, <1>4, Zenon

LEMMA ToolHosted ==
    ASSUME NEW m, NEW h, m = mode', pc' = "tool", HostAt(m, h, items', op'), op' \in 1 .. Len(Ops(m)) + 1,
           items' = <<>> /\ op' = Len(Ops(m)) + 1 /\ m # "fpga_erase" => buf' = <<>>
    PROVE  Hosted(m, h)'
<1>1. pc' # "close" /\ pc' # "main"  OBVIOUS
<1> QED  BY <1>1, Zenon DEF Hosted

LEMMA BeginLoader == LoaderInv /\ JtagBegin => LoaderInv'
<1> SUFFICES ASSUME LoaderInv, JtagBegin PROVE LoaderInv'  OBVIOUS
<1>1. /\ JtagTurn /\ items = <<>> /\ op <= Len(Routine) /\ items' = Items(Routine[op]) /\ op' = op + 1
      /\ mode' = mode /\ pc' = pc /\ buf' = buf /\ wire' = wire /\ tap' = tap /\ fpga' = fpga /\ garbled' = garbled
  BY DEF JtagBegin
<1>2. /\ TapType(tap) /\ ARecord(tap) /\ buf \in Seq(AllItems) /\ wire \in Seq(AllItems)
      /\ wire # <<>> => buf = <<>>
      /\ garbled = FALSE
  BY LoaderIs, Zenon
<1>3. pc = "tool" /\ mode \in JtagModes  BY <1>1, TurnIs, Zenon
<1>4. PICK m \in JtagModes : m = mode  BY <1>3
<1>5. PICK q \in Seq(Places), h \in Places :
        /\ Placed(m, q, h, buf, wire, tap, fpga)
        /\ HostAt(m, h, items, op) /\ op \in 1 .. Len(Ops(m)) + 1
  BY <1>1, <1>4, TurnIs, Zenon
<1>6. Routine = Ops(m)  BY <1>4, RoutineIs
<1>7. PICK k, L : k = op /\ L = Len(Ops(m))  OBVIOUS
<1>8. L \in Nat  BY <1>7, OpsTypes
<1>9. k \in 1 .. L + 1 /\ k <= L  BY <1>1, <1>5, <1>6, <1>7
<1>10. k \in 1 .. L /\ k + 1 \in 1 .. L + 1 /\ k \in Nat \ {0}  BY <1>8, <1>9
<1>11. h = <<k, 1>>  BY <1>1, <1>5, <1>7 DEF HostAt
<1>12. PICK r : r = Items(Ops(m)[k])  OBVIOUS
<1>13. r \in Seq(AllItems) /\ r # <<>>  BY <1>7, <1>10, <1>12, ItemsSeq
<1>14. items' = r /\ op' = k + 1  BY <1>1, <1>6, <1>7, <1>12
<1>15. HostAt(m, h, r, k + 1)
  <2>1. h[1] = k /\ h[2] = 1  BY <1>10, <1>11, PlaceIs
  <2>2. PICK N : N = Len(r)  OBVIOUS
  <2>3. N \in Nat \ {0}  BY <1>7, <1>10, <1>12, <2>2, ItemsLength
  <2>4. N = N - 1 + 1 /\ 1 <= N  BY <2>3
  <2>5. Within(m, h)
    <3>1. k <= Len(Ops(m)) /\ 1 <= Len(Items(Ops(m)[k])) /\ 1 \in Nat \ {0}  BY <1>7, <1>9, <1>12, <2>2, <2>4
    <3> QED  BY <1>10, <1>11, <3>1, WithinIs
  <2>6. \A i \in 1 .. Len(r) : r[i] = r[1 + i - 1]
    <3> TAKE i \in 1 .. Len(r)
    <3>1. i \in 1 .. N  BY <2>2
    <3>2. 1 + i - 1 = i  BY <2>3, <3>1
    <3> QED  BY <3>2
  <2>7. /\ Len(r) = Len(Items(Ops(m)[h[1]])) - h[2] + 1
        /\ \A i \in 1 .. Len(r) : r[i] = Items(Ops(m)[h[1]])[h[2] + i - 1]
        /\ k + 1 = h[1] + 1
    BY <1>12, <2>1, <2>2, <2>4, <2>6, Zenon
  <2>8. Rest(m, h, r, k + 1)  BY <2>5, <2>7, Zenon DEF Rest
  <2> QED  BY <1>13, <2>8 DEF HostAt
<1>16. Hosted(m, h)'
  <2>1. HostAt(m, h, items', op') /\ op' \in 1 .. Len(Ops(m)) + 1  BY <1>7, <1>10, <1>14, <1>15
  <2>2. items' # <<>> /\ pc' = "tool" /\ m = mode'  BY <1>1, <1>3, <1>4, <1>13, <1>14
  <2> QED  BY <2>1, <2>2, ToolHosted
<1>18. Placed(m, q, h, buf', wire', tap', fpga')  BY <1>1, <1>5, Zenon
<1>19. /\ TapType(tap') /\ ARecord(tap') /\ items' \in Seq(AllItems) /\ buf' \in Seq(AllItems) /\ wire' \in Seq(AllItems)
       /\ wire' # <<>> => buf' = <<>>
       /\ garbled' = FALSE
  BY <1>1, <1>2, <1>13, <1>14, Zenon
<1> QED  BY <1>16, <1>18, <1>19, LoaderHolds

LEMMA DoneLoader == LoaderInv /\ ToolDone => LoaderInv'
<1> SUFFICES ASSUME LoaderInv, ToolDone PROVE LoaderInv'  OBVIOUS
<1>1. /\ pc = "tool" /\ items = <<>> /\ wire = <<>> /\ op > Len(Routine) /\ pc' = "close" /\ mode' = mode
      /\ UNCHANGED <<items, buf, wire, tap, fpga, garbled, op>>
  BY DEF ToolDone, loadVars
<1>2. CASE mode \notin JtagModes  BY <1>1, <1>2, LoaderStays
<1>3. CASE mode \in JtagModes
  <2>1. JtagTurn  BY <1>1, <1>3 DEF JtagTurn
  <2>2. /\ TapType(tap) /\ ARecord(tap) /\ items \in Seq(AllItems) /\ buf \in Seq(AllItems) /\ wire \in Seq(AllItems)
        /\ garbled = FALSE
    BY LoaderIs, Zenon
  <2>3. PICK m \in JtagModes : m = mode  BY <1>3
  <2>4. PICK q \in Seq(Places), h \in Places :
          /\ Placed(m, q, h, buf, wire, tap, fpga)
          /\ HostAt(m, h, items, op) /\ op \in 1 .. Len(Ops(m)) + 1
          /\ items = <<>> /\ op = Len(Ops(m)) + 1 /\ m # "fpga_erase" => buf = <<>>
    BY <2>1, <2>3, TurnIs, Zenon
  <2>5. PICK k, L : k = op /\ L = Len(Ops(m))  OBVIOUS
  <2>6. L \in Nat /\ k \in 1 .. L + 1 /\ k > L  BY <1>1, <2>3, <2>4, <2>5, OpsTypes, RoutineIs
  <2>7. k = L + 1  BY <2>6
  <2>8. op = Len(Ops(m)) + 1  BY <2>5, <2>7
  <2>9. /\ items' = items /\ buf' = buf /\ wire' = wire /\ tap' = tap /\ fpga' = fpga /\ garbled' = garbled
        /\ op' = op /\ mode' = mode
    BY <1>1
  <2>10. /\ m = mode' /\ HostAt(m, h, items', op') /\ op' \in 1 .. Len(Ops(m)) + 1
         /\ items' = <<>> /\ op' = Len(Ops(m)) + 1 /\ m # "fpga_erase" => buf' = <<>>
         /\ pc' = "close" => wire' = <<>> /\ items' = <<>> /\ op' = Len(Ops(m)) + 1
    BY <1>1, <2>3, <2>4, <2>8, <2>9, Zenon
  <2>11. pc' # "main"  BY <1>1
  <2>12. Hosted(m, h)'  BY <2>10, <2>11, Zenon DEF Hosted
  <2>13. Placed(m, q, h, buf', wire', tap', fpga')  BY <2>4, <2>9, Zenon
  <2>14. /\ TapType(tap') /\ ARecord(tap') /\ items' \in Seq(AllItems) /\ buf' \in Seq(AllItems) /\ wire' \in Seq(AllItems)
         /\ wire' # <<>> => buf' = <<>>
         /\ garbled' = FALSE
    BY <1>1, <2>2, <2>9
  <2> QED  BY <2>12, <2>13, <2>14, LoaderHolds
<1> QED  BY <1>2, <1>3

LEMMA McuLoader == LoaderInv /\ McuStep => LoaderInv'
<1> SUFFICES ASSUME LoaderInv, McuStep PROVE LoaderInv'  OBVIOUS
<1>1. pc = "tool" /\ mode \in McuModes /\ UNCHANGED <<items, buf, wire, tap, fpga, garbled>>  BY DEF McuStep
<1>2. UNCHANGED <<mode, pc>> \/ (pc' = "over" /\ mode' = "failed")  BY DEF McuStep, Exits
<1> QED  BY <1>1, <1>2, LoaderStays DEF JtagModes, McuModes

(* usb_jtag_request sends the clocks b of the buffer.                        *)
LEMMA RequestLoader ==
    ASSUME LoaderInv, NEW m \in JtagModes, m = mode, pc = "tool", NEW b \in Seq(AllItems), b # <<>>,
           NEW q \in Seq(Places), NEW h, NEW h2 \in Places, Placed(m, q, h, b, <<>>, tap, fpga),
           Skips(m, h, h2), Within(m, h2) \/ h2 = End(m), Reading(m, h2) => h2[2] \notin 6 .. 4 + Bits,
           UsbJtagRequest(b), fpga' = fpga, garbled' = garbled, items' \in Seq(AllItems),
           HostAt(m, h2, items', op'), op' \in 1 .. Len(Ops(m)) + 1
    PROVE  LoaderInv'
<1>1. TapType(tap) /\ ARecord(tap) /\ garbled = FALSE  BY LoaderIs, Zenon
<1>2. PICK t, f, t2 : t = tap /\ f = fpga /\ t2 = [t EXCEPT !.tdo = <<>>]  BY Zenon
<1>3. ARecord(t2) /\ t2.state = t.state /\ t2.ir = t.ir /\ t2.reg = t.reg /\ t2.tdo = <<>>
  BY <1>1, <1>2, RecordCleared
<1>4. /\ buf' = <<>> /\ tap' = t2
      /\ \/ wire' = b /\ mode' = mode /\ pc' = pc
         \/ wire' \in {<<>>, b} /\ pc' = "over"
  BY <1>2 DEF UsbJtagRequest, Exits
<1>5. TapType(t2)
  <2>1. <<>> \in Seq(Cells)  OBVIOUS
  <2> QED  BY <1>1, <1>2, <1>3, <2>1, Zenon DEF TapType
<1>6. Placed(m, q, h, b, <<>>, t, f)  BY <1>2
<1>7. /\ Placed(m, q, h2, <<>>, b, t2, f)
      /\ Placed(m, <<>>, DeviceAt(q, h), <<>>, <<>>, t2, f) /\ DeviceAt(q, h) \in Places
  BY <1>3, <1>6, PlacedSend
<1>8. <<>> \in Seq(AllItems) /\ <<>> \in Seq(Places)  OBVIOUS
<1>9. /\ TapType(tap') /\ ARecord(tap') /\ buf' \in Seq(AllItems) /\ garbled' = FALSE /\ fpga' = f /\ buf' = <<>>
  BY <1>1, <1>2, <1>3, <1>4, <1>5, <1>8
<1>10. CASE wire' = b /\ mode' = mode /\ pc' = pc
  <2>1. Placed(m, q, h2, buf', wire', tap', fpga') /\ wire' \in Seq(AllItems)
    BY <1>4, <1>7, <1>9, <1>10, Zenon
  <2>2. m = mode' /\ pc' = "tool"  BY <1>10
  <2>3. Hosted(m, h2)'  BY <1>9, <2>2, ToolHosted
  <2> QED  BY <1>9, <2>1, <2>3, LoaderHolds
<1>11. CASE wire' = b /\ pc' = "over"
  <2>1. Placed(m, q, h2, buf', wire', tap', fpga') /\ wire' \in Seq(AllItems)
    BY <1>4, <1>7, <1>9, <1>11, Zenon
  <2>2. Hosted(m, h2)'  BY <1>11, OverHosted
  <2> QED  BY <1>9, <2>1, <2>2, LoaderHolds
<1>12. CASE wire' = <<>> /\ pc' = "over"
  <2>1. Placed(m, <<>>, DeviceAt(q, h), buf', wire', tap', fpga') /\ wire' \in Seq(AllItems)
    BY <1>4, <1>7, <1>8, <1>9, <1>12, Zenon
  <2>2. PICK g \in Places : g = DeviceAt(q, h)  BY <1>7
  <2>3. Hosted(m, g)'  BY <1>12, OverHosted
  <2>4. Placed(m, <<>>, g, buf', wire', tap', fpga')  BY <2>1, <2>2
  <2> QED  BY <1>8, <1>9, <2>1, <2>3, <2>4, LoaderHolds
<1> QED  BY <1>4, <1>10, <1>11, <1>12

LEMMA ItemIn == ASSUME NEW m \in JtagModes, NEW h \in Places PROVE ItemAt(m, h) \in AllItems
BY DEF AllItems

LEMMA ClkLoader == LoaderInv /\ JtagClk => LoaderInv'
<1> SUFFICES ASSUME LoaderInv, JtagClk PROVE LoaderInv'  OBVIOUS
<1>1. /\ JtagTurn /\ items # <<>> /\ Head(items)[1] = "clk" /\ items' = Tail(items)
      /\ op' = op /\ fpga' = fpga /\ garbled' = garbled
      /\ IF Len(Append(buf, Head(items))) = MaxCount THEN UsbJtagRequest(Append(buf, Head(items)))
         ELSE buf' = Append(buf, Head(items)) /\ UNCHANGED <<mode, pc, wire, tap>>
  BY Zenon DEF JtagClk
<1>2. TapType(tap) /\ ARecord(tap) /\ items \in Seq(AllItems) /\ buf \in Seq(AllItems) /\ garbled = FALSE
  BY LoaderIs, Zenon
<1>3. pc = "tool" /\ mode \in JtagModes /\ wire = <<>>  BY <1>1, TurnIs, Zenon
<1>4. PICK m \in JtagModes : m = mode  BY <1>3
<1>5. PICK q \in Seq(Places), h \in Places :
        /\ Placed(m, q, h, buf, wire, tap, fpga)
        /\ HostAt(m, h, items, op) /\ op \in 1 .. Len(Ops(m)) + 1
  BY <1>1, <1>4, TurnIs, Zenon
<1>6. PICK r, b, t, f, o : r = items /\ b = buf /\ t = tap /\ f = fpga /\ o = op  OBVIOUS
<1>7. /\ r \in Seq(AllItems) /\ r # <<>> /\ HostAt(m, h, r, o) /\ o \in 1 .. Len(Ops(m)) + 1
      /\ b \in Seq(AllItems) /\ Head(r)[1] = "clk" /\ Placed(m, q, h, b, <<>>, t, f)
  BY <1>1, <1>2, <1>3, <1>5, <1>6, Zenon
<1>8. /\ Within(m, h) /\ Head(r) = ItemAt(m, h)
      /\ Tail(r) = <<>> /\ o = Len(Ops(m)) + 1 /\ m # "fpga_erase" => ItemAt(m, h) = <<"sync">>
  BY <1>7, HostStep
<1>9. PICK h2 \in After(m, h) : HostAt(m, h2, Tail(r), o)  BY <1>7, HostStep
<1>10. ClockAt(m, h)  BY <1>7, <1>8, Zenon DEF ClockAt
<1>11. h2 \in Places /\ (Within(m, h2) \/ h2 = End(m))  BY <1>8, AfterBack
<1>12. PICK c, e, y : c = ItemAt(m, h) /\ e = Append(b, c) /\ y = Append(q, h)  OBVIOUS
<1>13. c \in AllItems /\ c = Head(r)  BY <1>8, <1>12, ItemIn
<1>14. Placed(m, y, h2, e, <<>>, t, f) /\ y \in Seq(Places)
  <2>1. ItemAt(m, h) \in AllItems  BY ItemIn
  <2>2. Placed(m, q, h, b, <<>>, t, f) /\ b \in Seq(AllItems)  BY <1>7
  <2>3. /\ Placed(m, Append(q, h), h2, Append(b, ItemAt(m, h)), <<>>, t, f)
        /\ Append(q, h) \in Seq(Places)
    BY <1>10, <2>1, <2>2, PlacedClk
  <2> QED  BY <1>12, <2>3
<1>15. e \in Seq(AllItems) /\ e # <<>>
  <2>1. e \in Seq(AllItems) /\ Len(e) = Len(b) + 1  BY <1>7, <1>12, <1>13, AppendShape
  <2>2. Len(b) \in Nat  BY <1>7, EmptyIs
  <2>3. Len(e) > 0  BY <2>1, <2>2
  <2> QED  BY <2>1, <2>3, EmptyIs
<1>16. ~(Tail(r) = <<>> /\ o = Len(Ops(m)) + 1 /\ m # "fpga_erase")
  <2>1. c[1] = "clk"  BY <1>7, <1>13
  <2>2. c # <<"sync">>  BY <2>1
  <2> QED  BY <1>8, <1>12, <2>2
<1>17. Tail(r) \in Seq(AllItems)  BY <1>7, TailShape
<1>18. items' = Tail(r) /\ op' = o /\ Append(buf, Head(items)) = e  BY <1>1, <1>6, <1>12, <1>13
<1>19. CASE Len(e) = MaxCount
  <2>1. UsbJtagRequest(e)  BY <1>1, <1>18, <1>19
  <2>2. Skips(m, h2, h2)  BY DEF Skips
  <2>3. ASSUME Reading(m, h2) PROVE h2[2] \notin 6 .. 4 + Bits
    <3>1. Echo(m, DeviceAt(y, h2), h2, Len(e), Len(<<>>), Len(t.tdo))  BY <1>14, Zenon DEF Placed
    <3>2. Len(<<>>) = 0  OBVIOUS
    <3>3. PICK j, n : j = h2[2] /\ n = Len(e)  OBVIOUS
    <3>4. j \in Nat \ {0}  BY <2>3, <3>3, ReadingPlace
    <3>5. j \in 5 .. 4 + Bits => n = j - 5  BY <2>3, <3>1, <3>2, <3>3, EchoHost
    <3>6. PICK B \in Nat \ {0}, M \in Nat : B = Bits /\ M = MaxCount /\ B <= M  BY BitsAssumption
    <3>7. n = M  BY <1>19, <3>3, <3>6
    <3>8. j \in 5 .. 4 + B => n = j - 5  BY <3>5, <3>6
    <3>9. j \notin 6 .. 4 + B  BY <3>4, <3>6, <3>7, <3>8
    <3> QED  BY <3>3, <3>6, <3>9
  <2>4. Placed(m, y, h2, e, <<>>, tap, fpga)  BY <1>6, <1>14
  <2>5. HostAt(m, h2, items', op') /\ op' \in 1 .. Len(Ops(m)) + 1 /\ items' \in Seq(AllItems)
    BY <1>7, <1>9, <1>17, <1>18
  <2> QED  BY <1>1, <1>3, <1>4, <1>11, <1>14, <1>15, <2>1, <2>2, <2>3, <2>4, <2>5, RequestLoader
<1>20. CASE Len(e) # MaxCount
  <2>1. buf' = e /\ mode' = mode /\ pc' = pc /\ wire' = <<>> /\ tap' = tap  BY <1>1, <1>3, <1>18, <1>20
  <2>2. Placed(m, y, h2, buf', wire', tap', fpga')  BY <1>1, <1>6, <1>14, <2>1, Zenon
  <2>3. HostAt(m, h2, items', op') /\ op' \in 1 .. Len(Ops(m)) + 1 /\ items' \in Seq(AllItems)
    BY <1>7, <1>9, <1>17, <1>18
  <2>4. ~(items' = <<>> /\ op' = Len(Ops(m)) + 1 /\ m # "fpga_erase")  BY <1>16, <1>18
  <2>5. m = mode' /\ pc' = "tool"  BY <1>3, <1>4, <2>1
  <2>6. Hosted(m, h2)'  BY <2>3, <2>4, <2>5, ToolHosted
  <2>7. <<>> \in Seq(AllItems)  OBVIOUS
  <2>8. /\ TapType(tap') /\ ARecord(tap') /\ buf' \in Seq(AllItems) /\ wire' \in Seq(AllItems)
        /\ wire' = <<>> /\ garbled' = FALSE
    BY <1>1, <1>2, <1>15, <2>1, <2>7, Zenon
  <2> QED  BY <1>11, <1>14, <2>2, <2>3, <2>6, <2>8, LoaderHolds
<1> QED  BY <1>19, <1>20

LEMMA SyncLoader == LoaderInv /\ JtagSync => LoaderInv'
<1> SUFFICES ASSUME LoaderInv, JtagSync PROVE LoaderInv'  OBVIOUS
<1>1. /\ JtagTurn /\ items # <<>> /\ Head(items)[1] = "sync" /\ items' = Tail(items)
      /\ op' = op /\ fpga' = fpga /\ garbled' = garbled
      /\ IF buf = <<>> THEN UNCHANGED <<mode, pc, buf, wire, tap>> ELSE UsbJtagRequest(buf)
  BY Zenon DEF JtagSync
<1>2. TapType(tap) /\ ARecord(tap) /\ items \in Seq(AllItems) /\ buf \in Seq(AllItems) /\ garbled = FALSE
  BY LoaderIs, Zenon
<1>3. pc = "tool" /\ mode \in JtagModes /\ wire = <<>>  BY <1>1, TurnIs, Zenon
<1>4. PICK m \in JtagModes : m = mode  BY <1>3
<1>5. PICK q \in Seq(Places), h \in Places :
        /\ Placed(m, q, h, buf, wire, tap, fpga)
        /\ HostAt(m, h, items, op) /\ op \in 1 .. Len(Ops(m)) + 1
  BY <1>1, <1>4, TurnIs, Zenon
<1>6. PICK r, b, t, f, o : r = items /\ b = buf /\ t = tap /\ f = fpga /\ o = op  OBVIOUS
<1>7. /\ r \in Seq(AllItems) /\ r # <<>> /\ HostAt(m, h, r, o) /\ o \in 1 .. Len(Ops(m)) + 1
      /\ b \in Seq(AllItems) /\ Head(r)[1] = "sync" /\ Placed(m, q, h, b, <<>>, t, f)
  BY <1>1, <1>2, <1>3, <1>5, <1>6, Zenon
<1>8. Within(m, h) /\ Head(r) = ItemAt(m, h)  BY <1>7, HostStep
<1>9. PICK h2 \in After(m, h) : HostAt(m, h2, Tail(r), o)  BY <1>7, HostStep
<1>10. ItemAt(m, h)[1] = "sync"  BY <1>7, <1>8
<1>11. h2 \in Places /\ (Within(m, h2) \/ h2 = End(m))  BY <1>8, AfterBack
<1>12. Tail(r) \in Seq(AllItems)  BY <1>7, TailShape
<1>13. items' = Tail(r) /\ op' = o  BY <1>1, <1>6
<1>14. HostAt(m, h2, items', op') /\ op' \in 1 .. Len(Ops(m)) + 1 /\ items' \in Seq(AllItems)
  BY <1>7, <1>9, <1>12, <1>13
<1>15. CASE b = <<>>
  <2>1. buf' = <<>> /\ mode' = mode /\ pc' = pc /\ wire' = <<>> /\ tap' = tap  BY <1>1, <1>3, <1>6, <1>15
  <2>2. Placed(m, q, h, <<>>, <<>>, t, f)  BY <1>7, <1>15
  <2>3. Placed(m, q, h2, <<>>, <<>>, t, f)  BY <1>8, <1>10, <2>2, PlacedSync
  <2>4. Placed(m, q, h2, buf', wire', tap', fpga')  BY <1>1, <1>6, <2>1, <2>3, Zenon
  <2>5. m = mode' /\ pc' = "tool"  BY <1>3, <1>4, <2>1
  <2>6. Hosted(m, h2)'  BY <1>14, <2>1, <2>5, ToolHosted
  <2>7. <<>> \in Seq(AllItems)  OBVIOUS
  <2>8. /\ TapType(tap') /\ ARecord(tap') /\ buf' \in Seq(AllItems) /\ wire' \in Seq(AllItems)
        /\ wire' = <<>> /\ garbled' = FALSE
    BY <1>1, <1>2, <2>1, <2>7, Zenon
  <2> QED  BY <1>11, <1>14, <2>4, <2>6, <2>8, LoaderHolds
<1>16. CASE b # <<>>
  <2>1. UsbJtagRequest(b)  BY <1>1, <1>6, <1>16
  <2>2. Skips(m, h, h2)  BY <1>8, <1>10 DEF Skips
  <2>3. ASSUME Reading(m, h2) PROVE h2[2] \notin 6 .. 4 + Bits
    <3>1. CASE h2[2] > 1
      <4>1. Reading(m, h) /\ h2[2] = h[2] + 1  BY <1>8, <2>3, <3>1, ReadBack
      <4>2. h[2] \in {4, 5 + Bits}  BY <1>8, <1>10, <4>1, SyncPlace
      <4>3. PICK j, i, B : B \in Nat \ {0} /\ j = h2[2] /\ i = h[2] /\ B = Bits  BY BitsAssumption
      <4>4. j = i + 1 /\ i \in {4, 5 + B}  BY <4>1, <4>2, <4>3
      <4>5. j \notin 6 .. 4 + B  BY <4>3, <4>4
      <4> QED  BY <4>3, <4>5
    <3>2. CASE ~(h2[2] > 1)
      <4>1. PICK j, B : B \in Nat \ {0} /\ j = h2[2] /\ B = Bits  BY BitsAssumption
      <4>2. j \in Nat \ {0} /\ ~(j > 1)  BY <2>3, <3>2, <4>1, ReadingPlace
      <4>3. j \notin 6 .. 4 + B  BY <4>1, <4>2
      <4> QED  BY <4>1, <4>3
    <3> QED  BY <3>1, <3>2
  <2>4. Placed(m, q, h, b, <<>>, tap, fpga)  BY <1>6, <1>7
  <2> QED  BY <1>1, <1>3, <1>4, <1>7, <1>11, <1>14, <1>16, <2>1, <2>2, <2>3, <2>4, RequestLoader
<1> QED  BY <1>15, <1>16

LEMMA ResponseIs ==
    ASSUME UsbJtagResponse
    PROVE  /\ JtagTurn /\ items # <<>> /\ Head(items)[1] = "resp" /\ items' = Tail(items)
           /\ buf' = buf /\ wire' = wire /\ tap' = tap /\ fpga' = fpga
           /\ LET what  == Head(items)[2]
                  value == ValueOf(SubSeq(tap.tdo, 1, Bits))
              IN /\ garbled' = (garbled \/ value = Junk)
                 /\ \/ value = Answered(what) /\ mode' = mode /\ pc' = pc /\ op' = op
                    \/ what = "busy" /\ mode' = mode /\ pc' = pc /\ op' = op - 2
                    \/ pc' = "over"
<1>1. /\ JtagTurn /\ items # <<>> /\ Head(items)[1] = "resp" /\ items' = Tail(items)
      /\ buf' = buf /\ wire' = wire /\ tap' = tap /\ fpga' = fpga
  BY DEF UsbJtagResponse
<1>2. LET what   == Head(items)[2]
          wanted == Answered(what)
          value  == ValueOf(SubSeq(tap.tdo, 1, Bits))
      IN  /\ garbled' = (garbled \/ value = Junk)
          /\ \/ /\ value = wanted
                /\ UNCHANGED <<mode, pc, op>>
             \/ /\ what = "busy" /\ value # wanted
                /\ op' = op - 2 /\ UNCHANGED <<mode, pc>>
             \/ /\ what # "busy" /\ value # wanted
                /\ Exits /\ UNCHANGED op
             \/ Exits /\ UNCHANGED op
  BY Zenon DEF UsbJtagResponse
<1>3. PICK what, value, wanted : /\ what = Head(items)[2] /\ value = ValueOf(SubSeq(tap.tdo, 1, Bits))
                                 /\ wanted = Answered(what)
  OBVIOUS
<1>4. /\ garbled' = (garbled \/ value = Junk)
      /\ \/ value = wanted /\ UNCHANGED <<mode, pc, op>>
         \/ what = "busy" /\ op' = op - 2 /\ UNCHANGED <<mode, pc>>
         \/ Exits
  BY <1>2, <1>3, Zenon
<1>5. \/ value = wanted /\ mode' = mode /\ pc' = pc /\ op' = op
      \/ what = "busy" /\ mode' = mode /\ pc' = pc /\ op' = op - 2
      \/ pc' = "over"
  BY <1>4 DEF Exits
<1> QED  BY <1>1, <1>3, <1>4, <1>5, Zenon

LEMMA ResponseLoader == LoaderInv /\ UsbJtagResponse => LoaderInv'
<1> SUFFICES ASSUME LoaderInv, UsbJtagResponse PROVE LoaderInv'  OBVIOUS
<1>1. /\ JtagTurn /\ items # <<>> /\ Head(items)[1] = "resp" /\ items' = Tail(items)
      /\ buf' = buf /\ wire' = wire /\ tap' = tap /\ fpga' = fpga
  BY ResponseIs, Zenon
<1>2. TapType(tap) /\ ARecord(tap) /\ items \in Seq(AllItems) /\ buf \in Seq(AllItems) /\ garbled = FALSE
  BY LoaderIs, Zenon
<1>3. pc = "tool" /\ mode \in JtagModes /\ wire = <<>>  BY <1>1, TurnIs, Zenon
<1>4. PICK m \in JtagModes : m = mode  BY <1>3
<1>5. PICK q \in Seq(Places), h \in Places :
        /\ Placed(m, q, h, buf, wire, tap, fpga)
        /\ HostAt(m, h, items, op) /\ op \in 1 .. Len(Ops(m)) + 1
  BY <1>1, <1>4, TurnIs, Zenon
<1>6. PICK r, b, t, f, o, value, w :
        /\ r = items /\ b = buf /\ t = tap /\ f = fpga /\ o = op /\ w = Head(r)[2]
        /\ value = ValueOf(SubSeq(t.tdo, 1, Bits))
  BY Zenon
<1>7. /\ r \in Seq(AllItems) /\ r # <<>> /\ HostAt(m, h, r, o) /\ o \in 1 .. Len(Ops(m)) + 1
      /\ b \in Seq(AllItems) /\ Head(r)[1] = "resp" /\ Placed(m, q, h, b, <<>>, t, f) /\ TapType(t)
  BY <1>1, <1>2, <1>3, <1>5, <1>6, Zenon
<1>8. /\ garbled' = (garbled \/ value = Junk)
      /\ \/ value = Answered(w) /\ mode' = mode /\ pc' = pc /\ op' = op
         \/ w = "busy" /\ mode' = mode /\ pc' = pc /\ op' = op - 2
         \/ pc' = "over"
  BY <1>6, ResponseIs, Zenon
<1>17. PICK k \in 3 .. Len(Ops(m)) : RespAt(m, h, r, o, k, w)
  <2>1. /\ r \in Seq(AllItems) /\ r # <<>> /\ HostAt(m, h, r, o) /\ o \in 1 .. Len(Ops(m)) + 1
        /\ Head(r)[1] = "resp" /\ w = Head(r)[2]
    BY <1>6, <1>7
  <2> QED  BY <2>1, HostResp
<1>9. /\ Ops(m)[k] = Read(w) /\ h = <<k, 6 + Bits>> /\ o = k + 1 /\ Tail(r) # <<>>
      /\ HostAt(m, <<k, 7 + Bits>>, Tail(r), o)
      /\ w = "busy" => HostAt(m, <<k, 7 + Bits>>, Tail(r), o - 2) /\ o - 2 \in 1 .. Len(Ops(m)) + 1
  BY <1>17, Zenon DEF RespAt
<1>10. /\ value # Junk
       /\ value = Answered(w) \/ w = "busy" => Placed(m, q, <<k, 7 + Bits>>, b, <<>>, t, f)
  BY <1>6, <1>7, <1>9, PlacedResp
<1>11. garbled' = FALSE  BY <1>2, <1>8, <1>10
<1>12. Tail(r) \in Seq(AllItems)  BY <1>7, TailShape
<1>13. items' = Tail(r) /\ items' # <<>>  BY <1>1, <1>6, <1>9
<1>14. /\ TapType(tap') /\ ARecord(tap') /\ buf' \in Seq(AllItems) /\ wire' \in Seq(AllItems)
       /\ wire' = <<>> /\ items' \in Seq(AllItems)
  <2>1. <<>> \in Seq(AllItems)  OBVIOUS
  <2> QED  BY <1>1, <1>2, <1>3, <1>12, <1>13, <2>1, Zenon
<1>15. CASE pc' = "over"
  <2>1. Placed(m, q, h, buf', wire', tap', fpga')  BY <1>1, <1>5, Zenon
  <2>2. Hosted(m, h)'  BY <1>15, OverHosted
  <2> QED  BY <1>11, <1>14, <2>1, <2>2, LoaderHolds
<1>16. CASE pc' # "over"
  <2>1. PICK h2 : h2 = <<k, 7 + Bits>>  OBVIOUS
  <2>2. h2 \in Places
    <3>1. PICK B \in Nat \ {0} : B = Bits  BY BitsAssumption
    <3>2. Len(Ops(m)) \in Nat  BY OpsTypes
    <3>3. k \in Nat \ {0}  BY <3>2
    <3>4. 7 + B \in Nat \ {0}  BY <3>1
    <3> QED  BY <2>1, <3>1, <3>3, <3>4, PlaceIs
  <2>3. /\ mode' = mode /\ pc' = pc /\ (value = Answered(w) \/ w = "busy")
        /\ op' = o \/ (w = "busy" /\ op' = o - 2)
    BY <1>6, <1>8, <1>16
  <2>4. Placed(m, q, h2, b, <<>>, t, f)  BY <1>10, <2>1, <2>3
  <2>5. Placed(m, q, h2, buf', wire', tap', fpga')  BY <1>1, <1>3, <1>6, <2>4, Zenon
  <2>6. HostAt(m, h2, items', op') /\ op' \in 1 .. Len(Ops(m)) + 1
    BY <1>7, <1>9, <1>13, <2>1, <2>3
  <2>7. m = mode' /\ pc' = "tool"  BY <1>3, <1>4, <2>3
  <2>8. Hosted(m, h2)'  BY <1>13, <2>6, <2>7, ToolHosted
  <2> QED  BY <1>11, <1>14, <2>2, <2>5, <2>8, LoaderHolds
<1> QED  BY <1>15, <1>16

LEMMA InitLoader == Init => LoaderInv
<1> SUFFICES ASSUME Init PROVE LoaderInv  OBVIOUS
<1>1. /\ pc = "main" /\ op = 1 /\ items = <<>> /\ buf = <<>> /\ wire = <<>> /\ garbled = FALSE
  BY DEF Init, LoadInit
<1>2. PICK state \in {"TestLogicReset", "RunTestIdle", "SelectDR", "SelectIR"}
                      \cup {"CaptureDR", "ShiftDR", "Exit1DR", "UpdateDR"}
                      \cup {"CaptureIR", "ShiftIR", "Exit1IR", "UpdateIR"} :
        tap = [state |-> state, ir |-> "READ_STATUS", reg |-> BitsOf(Junk), tdo |-> <<>>]
  BY DEF Init, LoadInit
<1>3. PICK enabled \in {"off", "sram", "flash"} :
        fpga = [enabled |-> enabled, sram |-> IF enabled = "off" THEN "flash" ELSE "blank",
                flash |-> Filled(IF enabled = "flash" THEN "blank" ELSE "old"),
                done |-> enabled # "flash", addr |-> 1]
  BY Zenon DEF Init, LoadInit
<1>4. PICK t, f : t = tap /\ f = fpga  OBVIOUS
<1>5. ARecord(t) /\ t.state = state /\ t.ir = "READ_STATUS" /\ t.reg = BitsOf(Junk) /\ t.tdo = <<>>
  BY <1>2, <1>4, RecordIs
<1>6. Junk \in BitWords  BY DEF BitWords, Values, Mild
<1>7. t.reg \in Seq(Cells) /\ Len(t.reg) = Bits /\ \A n \in 1 .. Bits : t.reg[n] = <<Junk, n>>
  BY <1>5, <1>6, BitsType
<1>8. TapType(t)
  <2>1. <<>> \in Seq(Cells) /\ t.state \in States  BY <1>5 DEF States
  <2> QED  BY <1>5, <1>7, <2>1, Zenon DEF TapType
<1>9. FirstState(1, t.state)
  <2>1. PICK B \in Nat \ {0} : B = Bits  BY BitsAssumption
  <2>2. 1 \notin 5 .. 4 + Bits /\ 1 # 5 + Bits /\ 1 # 6 + Bits  BY <2>1
  <2> QED  BY <1>5, <2>2 DEF FirstState
<1>10. Safe(f)
  <2>1. PICK fill : fill = Filled(IF enabled = "flash" THEN "blank" ELSE "old")  OBVIOUS
  <2>2. fill \in [1 .. Rows + 2 -> Contents]  BY <2>1 DEF Filled, Contents
  <2>3. PICK sram : sram = IF enabled = "off" THEN "flash" ELSE "blank"  OBVIOUS
  <2>4. enabled \in Values /\ sram \in Values  BY <2>3 DEF Values, Mild, Contents
  <2>5. f = [enabled |-> enabled, sram |-> sram, flash |-> fill, done |-> enabled # "flash", addr |-> 1]
    BY <1>3, <1>4, <2>1, <2>3, Zenon
  <2>6. PICK done \in BOOLEAN : done = (enabled # "flash")  OBVIOUS
  <2>7. f = [enabled |-> enabled, sram |-> sram, flash |-> fill, done |-> done, addr |-> 1]
    BY <2>5, <2>6, Zenon
  <2>8. f \in Fpgas /\ f.done = done /\ f.flash = fill  BY <2>2, <2>4, <2>7 DEF Fpgas
  <2>9. done => fill = Filled("old")  BY <2>1, <2>6
  <2> QED  BY <2>8, <2>9 DEF Safe
<1>11. StrayData(t, f)
  <2>1. "READ_STATUS" \in Mild /\ Junk \in Mild  BY DEF Mild
  <2>2. \A n \in 1 .. Bits : t.reg[n][1] \in Mild  BY <1>7, <2>1
  <2> QED  BY <1>5, <1>10, <2>1, <2>2 DEF StrayData
<1>12. PICK m \in JtagModes : m = "fpga_erase"  BY DEF JtagModes
<1>13. Placed(m, <<>>, <<1, 1>>, <<>>, <<>>, t, f) /\ <<1, 1>> \in Places  BY <1>9, <1>11, PlacedFirst
<1>14. PICK h \in Places : h = <<1, 1>>  BY <1>13
<1>15. Placed(m, <<>>, h, buf, wire, tap, fpga)  BY <1>1, <1>4, <1>13, <1>14, Zenon
<1>16. Hosted(m, h)  BY <1>1, <1>14 DEF Hosted, InTool
<1>17. Tracked(m, <<>>, h)  BY <1>15, <1>16, Zenon DEF Tracked
<1>18. <<>> \in Seq(AllItems) /\ <<>> \in Seq(Places)  OBVIOUS
<1>19. LoaderType  BY <1>1, <1>4, <1>5, <1>8, <1>18, Zenon DEF LoaderType
<1>20. LoaderFacts  BY <1>1 DEF LoaderFacts
<1>21. \E n \in JtagModes, y \in Seq(Places), g \in Places : Tracked(n, y, g)
  BY <1>17, <1>18, Zenon
<1> QED  BY <1>19, <1>20, <1>21, Zenon DEF LoaderInv

(* No step of a capture or a speed test leads to a maintenance tool.         *)
LEMMA SessionKeeps ==
    ASSUME IInv, UsbThread \/ Device \/ Signal
    PROVE  /\ pc' = "main" => pc = "main"
           /\ pc' \in {"tool", "close"} => (mode' = mode /\ pc' = pc) \/ mode' \in {"capture", "test"}
<1>1. CASE Device \/ Signal
  <2>1. mode' = mode /\ pc' = pc  BY <1>1 DEF Device, MakeWord, Complete, Stall, Unplug, Signal
  <2> QED  BY <2>1
<1>2. CASE UsbThread
  <2>1. CASE UsbCtrl  BY <2>1 DEF UsbCtrl, Exits
  <2>2. CASE UsbFlushData  BY <2>2 DEF UsbFlushData, Exits
  <2>3. CASE WriteHeaders  BY <2>3 DEF WriteHeaders, Exits
  <2>4. CASE UsbDataTransfer  BY <2>4 DEF UsbDataTransfer, Exits
  <2>5. CASE LoopTest
    <3>1. pc = "loop" /\ pc' \in {"close", "events"} /\ mode' = mode  BY <2>5 DEF LoopTest
    <3>2. mode \in {"capture", "test"}  BY <3>1 DEF IInv, InSession, SessionSound
    <3> QED  BY <3>1, <3>2
  <2>6. CASE EventsReturn  BY <2>6 DEF EventsReturn
  <2>7. CASE UsbCaptureCallback  BY <2>7 DEF UsbCaptureCallback, Exits, Resubmit
  <2>8. CASE CaptureEnds  BY <2>8 DEF CaptureEnds
  <2>9. CASE UsbClose  BY <2>9 DEF UsbClose
  <2>10. CASE UsbCloseDrain  BY <2>10 DEF UsbCloseDrain
  <2>11. CASE UsbCloseFree  BY <2>11 DEF UsbCloseFree
  <2> QED  BY <1>2, <2>1, <2>2, <2>3, <2>4, <2>5, <2>6, <2>7, <2>8, <2>9, <2>10, <2>11 DEF UsbThread
<1> QED  BY <1>1, <1>2

-----------------------------------------------------------------------------
(* The controller.  A block is written and then read back, from operation    *)
(* Lead + 1 on.                                                              *)
Lead == IF mode = "mcu_sram" THEN 1 ELSE 0
Mcus == [state : {"boot", "held", "runs"}, mem : [1 .. Blocks -> {"old", "new", "flawed"}]]
AllNew == \A b \in 1 .. Blocks : mcu.mem[b] = "new"
Uploading == mode \in McuModes /\ pc \in {"tool", "close"}

McuInv ==
    /\ mcu \in Mcus
    /\ mcu.state = "runs" => AllNew
    /\ pc = "main" => op = 1 /\ mcu.state # "runs"
    /\ Uploading => /\ op \in 1 .. Len(Routine) + 1
                    /\ \A b \in 1 .. Blocks : op > Lead + 2 * b => mcu.mem[b] = "new"
                    /\ mcu.state = "runs" \/ pc = "close" => op = Len(Routine) + 1

LEMMA BlockPlace ==
    ASSUME NEW B \in Nat, NEW i \in 1 .. 2 * B
    PROVE  \E b \in 1 .. B : /\ (i + 1) \div 2 = b
                             /\ (i = 2 * b - 1 /\ i % 2 = 1) \/ (i = 2 * b /\ i % 2 = 0)
<1>1. PICK b : b = (i + 1) \div 2  OBVIOUS
<1>2. b \in 1 .. B /\ ((i = 2 * b - 1 /\ i % 2 = 1) \/ (i = 2 * b /\ i % 2 = 0))  BY <1>1
<1> QED  BY <1>1, <1>2

McuSteps == {<<a, b>> : a \in {"reset", "write", "verify"}, b \in Nat}

LEMMA BlocksAre ==
    /\ WriteBlocks \in Seq(McuSteps) /\ Len(WriteBlocks) = 2 * Blocks
    /\ \A i \in 1 .. 2 * Blocks : \E b \in 1 .. Blocks :
          \/ i = 2 * b - 1 /\ WriteBlocks[i] = <<"write", b>>
          \/ i = 2 * b /\ WriteBlocks[i] = <<"verify", b>>
<1>1. PICK B \in Nat : B = Blocks  BY BitsAssumption
<1>2. PICK s : s = WriteBlocks  OBVIOUS
<1>3. s = [i \in 1 .. 2 * B |-> <<IF i % 2 = 1 THEN "write" ELSE "verify", (i + 1) \div 2>>]
  BY <1>1, <1>2 DEF WriteBlocks
<1>4. \A i \in 1 .. 2 * B : \E b \in 1 .. B :
          \/ i = 2 * b - 1 /\ s[i] = <<"write", b>>
          \/ i = 2 * b /\ s[i] = <<"verify", b>>
  <2> TAKE i \in 1 .. 2 * B
  <2>1. PICK b \in 1 .. B : /\ (i + 1) \div 2 = b
                            /\ (i = 2 * b - 1 /\ i % 2 = 1) \/ (i = 2 * b /\ i % 2 = 0)
    BY BlockPlace
  <2>2. s[i] = <<IF i % 2 = 1 THEN "write" ELSE "verify", b>>  BY <1>3, <2>1
  <2>3. i % 2 = 1 => s[i] = <<"write", b>>  BY <2>2
  <2>4. i % 2 = 0 => s[i] = <<"verify", b>>  BY <2>2
  <2> QED  BY <2>1, <2>3, <2>4
<1>5. s \in [1 .. 2 * B -> McuSteps]
  <2>1. \A i \in 1 .. 2 * B : s[i] \in McuSteps
    <3> TAKE i \in 1 .. 2 * B
    <3>1. PICK b \in 1 .. B : s[i] = <<"write", b>> \/ s[i] = <<"verify", b>>  BY <1>4
    <3>2. b \in Nat  BY <1>1
    <3> QED  BY <3>1, <3>2 DEF McuSteps
  <2> QED  BY <1>3, <2>1
<1>6. PICK n \in Nat : n = 2 * B  BY <1>1
<1>7. s \in Seq(McuSteps) /\ Len(s) = n
  <2>1. s \in [1 .. n -> McuSteps]  BY <1>5, <1>6
  <2> QED  BY <2>1
<1> QED  BY <1>1, <1>2, <1>4, <1>6, <1>7

LEMMA OneTuple ==
    ASSUME NEW S, NEW a \in S PROVE <<a>> \in Seq(S) /\ Len(<<a>>) = 1 /\ <<a>>[1] = a
OBVIOUS

LEMMA Framed ==
    ASSUME NEW S, NEW s \in Seq(S), NEW x \in S, NEW y \in S
    PROVE  LET v == <<x>> \o s \o <<y>>
           IN  /\ Len(v) = Len(s) + 2 /\ v[1] = x /\ v[Len(s) + 2] = y
               /\ \A i \in 1 .. Len(s) : v[i + 1] = s[i]
<1>1. PICK a, c, v : a = <<x>> /\ c = <<y>> /\ v = a \o s \o c  OBVIOUS
<1>2. a \in Seq(S) /\ c \in Seq(S) /\ Len(a) = 1 /\ Len(c) = 1 /\ a[1] = x /\ c[1] = y  BY <1>1, OneTuple
<1>3. /\ Len(v) = Len(a) + Len(s) + Len(c)
      /\ \A i \in 1 .. Len(a) : v[i] = a[i]
      /\ \A i \in 1 .. Len(s) : v[Len(a) + i] = s[i]
      /\ \A i \in 1 .. Len(c) : v[Len(a) + Len(s) + i] = c[i]
  <2>1. a \in Seq(S) /\ c \in Seq(S)  BY <1>2
  <2>2. Parts(v, S, a, s, c)  BY <1>1, <2>1, ThreeJoined
  <2> QED  BY <2>2, Zenon DEF Parts
<1>4. PICK n \in Nat : n = Len(s)  OBVIOUS
<1>5. /\ Len(v) = 1 + n + 1
      /\ \A i \in 1 .. 1 : v[i] = a[i]
      /\ \A i \in 1 .. n : v[1 + i] = s[i]
      /\ \A i \in 1 .. 1 : v[1 + n + i] = c[i]
  BY <1>2, <1>3, <1>4, Zenon
<1>6. 1 + n + 1 = n + 2 /\ 1 \in 1 .. 1 /\ \A i \in 1 .. n : 1 + i = i + 1  BY <1>4
<1>7. Len(v) = n + 2 /\ v[1] = x /\ v[n + 2] = y  BY <1>2, <1>5, <1>6, Zenon
<1>8. \A i \in 1 .. n : v[i + 1] = s[i]  BY <1>5, <1>6, Zenon
<1> QED  BY <1>1, <1>4, <1>7, <1>8

(* The steps r of an upload of B blocks, with o steps before and after them. *)
Uploads(r, B, o) ==
    /\ Len(r) = 2 * B + 2 * o
    /\ \A k \in 1 .. 2 * B + 2 * o :
          \/ k = 1 /\ o = 1 /\ r[k] = <<"reset", 1>>
          \/ k = 2 * B + 2 * o /\ o = 1 /\ r[k] = <<"reset", 0>>
          \/ \E b \in 1 .. B : k = o + 2 * b - 1 /\ r[k] = <<"write", b>>
          \/ \E b \in 1 .. B : k = o + 2 * b /\ r[k] = <<"verify", b>>

LEMMA UploadSteps ==
    ASSUME mode \in McuModes
    PROVE  /\ Len(Routine) = 2 * Blocks + 2 * Lead
           /\ \A k \in 1 .. 2 * Blocks + 2 * Lead :
                 \/ k = 1 /\ Lead = 1 /\ Routine[k] = <<"reset", 1>>
                 \/ k = 2 * Blocks + 2 * Lead /\ Lead = 1 /\ Routine[k] = <<"reset", 0>>
                 \/ \E b \in 1 .. Blocks : k = Lead + 2 * b - 1 /\ Routine[k] = <<"write", b>>
                 \/ \E b \in 1 .. Blocks : k = Lead + 2 * b /\ Routine[k] = <<"verify", b>>
<1>1. PICK B \in Nat : B = Blocks  BY BitsAssumption
<1>2. PICK s \in Seq(McuSteps), n \in Nat : s = WriteBlocks /\ n = 2 * B /\ Len(s) = n  BY <1>1, BlocksAre
<1>3. \A i \in 1 .. n : \E b \in 1 .. B : \/ i = 2 * b - 1 /\ s[i] = <<"write", b>>
                                          \/ i = 2 * b /\ s[i] = <<"verify", b>>
  BY <1>1, <1>2, BlocksAre
<1>4. CASE mode = "mcu_eeprom"
  <2>1. Routine = s /\ Lead = 0  BY <1>2, <1>4 DEF Routine, Fx2lpEepromUpload, Lead
  <2>2. 2 * B + 2 * 0 = n  BY <1>2
  <2>3. \A k \in 1 .. n : \/ \E b \in 1 .. B : k = 0 + 2 * b - 1 /\ s[k] = <<"write", b>>
                          \/ \E b \in 1 .. B : k = 0 + 2 * b /\ s[k] = <<"verify", b>>
    <3> TAKE k \in 1 .. n
    <3>1. PICK b \in 1 .. B : (k = 2 * b - 1 /\ s[k] = <<"write", b>>) \/ (k = 2 * b /\ s[k] = <<"verify", b>>)
      BY <1>3
    <3>2. 2 * b - 1 = 0 + 2 * b - 1 /\ 2 * b = 0 + 2 * b  OBVIOUS
    <3> QED  BY <3>1, <3>2
  <2>4. Uploads(s, B, 0)
    <3>1. Len(s) = 2 * B + 2 * 0  BY <1>2, <2>2
    <3>2. \A k \in 1 .. 2 * B + 2 * 0 : k \in 1 .. n  BY <2>2
    <3> QED  BY <2>3, <3>1, <3>2, Zenon DEF Uploads
  <2>5. Uploads(Routine, Blocks, Lead)  BY <1>1, <2>1, <2>4
  <2> QED  BY <2>5, Zenon DEF Uploads
<1>5. CASE mode = "mcu_sram"
  <2>1. PICK x, y : x = <<"reset", 1>> /\ y = <<"reset", 0>>  OBVIOUS
  <2>2. Routine = <<x>> \o s \o <<y>> /\ Lead = 1  BY <1>2, <1>5, <2>1 DEF Routine, Fx2lpSramUpload, Lead
  <2>3. x \in McuSteps /\ y \in McuSteps  BY <2>1 DEF McuSteps
  <2>4. PICK v : v = <<x>> \o s \o <<y>>  OBVIOUS
  <2>5. Len(v) = n + 2 /\ v[1] = x /\ v[n + 2] = y /\ \A i \in 1 .. n : v[i + 1] = s[i]
    BY <1>2, <2>3, <2>4, Framed
  <2>6. Routine = v  BY <2>2, <2>4
  <2>7. 2 * B + 2 * 1 = n + 2  BY <1>2
  <2>8. \A k \in 1 .. n + 2 : \/ k = 1 /\ v[k] = x
                              \/ k = n + 2 /\ v[k] = y
                              \/ \E b \in 1 .. B : k = 1 + 2 * b - 1 /\ v[k] = <<"write", b>>
                              \/ \E b \in 1 .. B : k = 1 + 2 * b /\ v[k] = <<"verify", b>>
    <3> TAKE k \in 1 .. n + 2
    <3>1. CASE k = 1  BY <2>5, <3>1
    <3>2. CASE k = n + 2  BY <2>5, <3>2
    <3>3. CASE k # 1 /\ k # n + 2
      <4>1. PICK i \in 1 .. n : k = i + 1
        <5>1. k - 1 \in 1 .. n /\ k = (k - 1) + 1  BY <1>2, <3>3
        <5> QED  BY <5>1
      <4>3. v[k] = s[i]  BY <2>5, <4>1
      <4>4. PICK b \in 1 .. B : (i = 2 * b - 1 /\ s[i] = <<"write", b>>) \/ (i = 2 * b /\ s[i] = <<"verify", b>>)
        BY <1>3
      <4>5. (2 * b - 1) + 1 = 1 + 2 * b - 1 /\ 2 * b + 1 = 1 + 2 * b  OBVIOUS
      <4> QED  BY <4>1, <4>3, <4>4, <4>5
    <3> QED  BY <3>1, <3>2, <3>3
  <2>9. Uploads(v, B, 1)
    <3>1. Len(v) = 2 * B + 2 * 1  BY <2>5, <2>7
    <3>2. ASSUME NEW k \in 1 .. 2 * B + 2 * 1
          PROVE  \/ k = 1 /\ v[k] = <<"reset", 1>>
                 \/ k = 2 * B + 2 * 1 /\ v[k] = <<"reset", 0>>
                 \/ \E b \in 1 .. B : k = 1 + 2 * b - 1 /\ v[k] = <<"write", b>>
                 \/ \E b \in 1 .. B : k = 1 + 2 * b /\ v[k] = <<"verify", b>>
      <4>1. k \in 1 .. n + 2  BY <2>7
      <4> QED  BY <2>1, <2>7, <2>8, <4>1, Zenon
    <3> QED  BY <3>1, <3>2, Zenon DEF Uploads
  <2>10. Uploads(Routine, Blocks, Lead)  BY <1>1, <2>2, <2>6, <2>9
  <2> QED  BY <2>10, Zenon DEF Uploads
<1> QED  BY <1>4, <1>5 DEF McuModes

LEMMA McuStays ==
    ASSUME McuInv, mcu' = mcu, pc' = "main" => pc = "main" /\ op' = op,
           mode' \in McuModes /\ pc' \in {"tool", "close"} => mode' = mode /\ pc' = pc /\ op' = op
    PROVE  McuInv'
<1>1. mcu' \in Mcus /\ (mcu'.state = "runs" => AllNew')  BY DEF McuInv, AllNew
<1>2. pc' = "main" => op' = 1 /\ mcu'.state # "runs"  BY DEF McuInv
<1>3. ASSUME Uploading'
      PROVE  /\ op' \in 1 .. Len(Routine') + 1
             /\ \A b \in 1 .. Blocks : op' > Lead' + 2 * b => mcu'.mem[b] = "new"
             /\ mcu'.state = "runs" \/ pc' = "close" => op' = Len(Routine') + 1
  <2>1. mode' = mode /\ pc' = pc /\ op' = op /\ Uploading  BY <1>3 DEF Uploading
  <2>2. Routine' = Routine /\ Lead' = Lead  BY <2>1 DEF Routine, Lead
  <2>3. /\ op \in 1 .. Len(Routine) + 1
        /\ \A b \in 1 .. Blocks : op > Lead + 2 * b => mcu.mem[b] = "new"
        /\ mcu.state = "runs" \/ pc = "close" => op = Len(Routine) + 1
    BY <2>1, Zenon DEF McuInv
  <2> QED  BY <2>1, <2>2, <2>3, Zenon
<1> QED  BY <1>1, <1>2, <1>3, Zenon DEF McuInv

LEMMA InitMcu == Init => McuInv
<1> SUFFICES ASSUME Init PROVE McuInv  OBVIOUS
<1>1. pc = "main" /\ op = 1 /\ mcu = [state |-> "boot", mem |-> [b \in 1 .. Blocks |-> "old"]]
  BY DEF Init, LoadInit
<1>2. mcu \in Mcus /\ mcu.state = "boot"  BY <1>1 DEF Mcus
<1> QED  BY <1>1, <1>2 DEF McuInv, Uploading

LEMMA OpenMcu == McuInv /\ Open => McuInv'
<1> SUFFICES ASSUME McuInv, Open PROVE McuInv'  OBVIOUS
<1>1. pc = "main" /\ op' = op /\ mcu' = mcu  BY DEF Open, loadVars
<1>2. pc' \in {"over", "ctrl", "tool"} /\ (pc' = "tool" => mode' = mode)  BY DEF Open, Leave
<1>3. mcu \in Mcus /\ op = 1 /\ mcu.state # "runs"  BY <1>1 DEF McuInv
<1>4. mcu' \in Mcus /\ mcu'.state # "runs" /\ pc' # "main" /\ pc' # "close"  BY <1>1, <1>2, <1>3
<1>5. ASSUME Uploading'
      PROVE  /\ op' \in 1 .. Len(Routine') + 1
             /\ \A b \in 1 .. Blocks : op' > Lead' + 2 * b => mcu'.mem[b] = "new"
  <2>1. mode \in McuModes /\ mode' = mode  BY <1>2, <1>5 DEF Uploading
  <2>5. Routine' = Routine /\ Lead' = Lead  BY <2>1 DEF Routine, Lead
  <2>6. Len(Routine) = 2 * Blocks + 2 * Lead  BY <2>1, UploadSteps
  <2>2. Len(Routine') = 2 * Blocks + 2 * Lead'  BY <2>5, <2>6
  <2>7. Lead' \in {0, 1}  BY DEF Lead
  <2>3. PICK B \in Nat, O \in {0, 1} : B = Blocks /\ O = Lead'  BY <2>7, BitsAssumption
  <2>8. 0 <= 2 * B + 2 * O /\ 2 * B + 2 * O \in Nat  OBVIOUS
  <2>9. 1 \in 1 .. (2 * B + 2 * O) + 1  BY <2>8
  <2>10. \A b \in 1 .. B : ~(1 > O + 2 * b)  OBVIOUS
  <2>4. 1 \in 1 .. (2 * B + 2 * O) + 1 /\ \A b \in 1 .. B : ~(1 > O + 2 * b)  BY <2>9, <2>10
  <2> QED  BY <1>1, <1>3, <2>2, <2>3, <2>4
<1> QED  BY <1>4, <1>5, Zenon DEF McuInv

LEMMA UploadHolds ==
    ASSUME mcu' \in Mcus, pc' = "tool", mcu'.state = "runs" => AllNew' /\ op' = Len(Routine') + 1,
           op' \in 1 .. Len(Routine') + 1,
           \A b \in 1 .. Blocks : op' > Lead' + 2 * b => mcu'.mem[b] = "new"
    PROVE  McuInv'
<1>1. pc' # "main" /\ pc' # "close"  OBVIOUS
<1> QED  BY <1>1, Zenon DEF McuInv

LEMMA McuStepMcu == McuInv /\ McuStep => McuInv'
<1> SUFFICES ASSUME McuInv, McuStep PROVE McuInv'  OBVIOUS
<1>1. pc = "tool" /\ mode \in McuModes /\ op <= Len(Routine)  BY DEF McuStep
<1>2. PICK o : o = Routine[op]  OBVIOUS
<1>3. \/ /\ o[1] = "reset"
         /\ mcu' = [mcu EXCEPT !.state = IF o[2] = 1 THEN "held" ELSE "runs"]
         /\ op' = op + 1 /\ UNCHANGED <<mode, pc, flawsLeft>>
      \/ /\ o[1] = "write"
         /\ \E flaw \in 0 .. 1 : /\ flaw <= flawsLeft
                                 /\ mcu' = [mcu EXCEPT !.mem[o[2]] = IF flaw = 1 THEN "flawed" ELSE "new"]
                                 /\ flawsLeft' = flawsLeft - flaw
         /\ op' = op + 1 /\ UNCHANGED <<mode, pc>>
      \/ /\ o[1] = "verify" /\ mcu.mem[o[2]] = "new"
         /\ op' = op + 1 /\ UNCHANGED <<mode, pc, mcu, flawsLeft>>
      \/ Exits /\ UNCHANGED <<op, mcu, flawsLeft>>
  BY <1>2, Zenon DEF McuStep
<1>4. CASE Exits /\ UNCHANGED <<op, mcu, flawsLeft>>  BY <1>4, McuStays DEF Exits
<1>5. CASE ~(Exits /\ UNCHANGED <<op, mcu, flawsLeft>>)
  <2>1. mode' = mode /\ pc' = pc /\ op' = op + 1  BY <1>3, <1>5
  <2>2. Routine' = Routine /\ Lead' = Lead /\ pc' = "tool"  BY <1>1, <2>1 DEF Routine, Lead
  <2>3. PICK B \in Nat, O \in {0, 1}, k \in {op}, L \in {Len(Routine)}, c \in {mcu} :
          B = Blocks /\ O = Lead /\ k = op /\ L = Len(Routine) /\ c = mcu
    BY BitsAssumption DEF Lead
  <2>4. /\ c \in Mcus
        /\ k \in 1 .. L + 1 /\ k <= L
        /\ \A b \in 1 .. B : k > O + 2 * b => c.mem[b] = "new"
        /\ c.state # "runs"
    <3>1. Uploading  BY <1>1 DEF Uploading
    <3>2. /\ mcu \in Mcus /\ op \in 1 .. Len(Routine) + 1
          /\ \A b \in 1 .. Blocks : op > Lead + 2 * b => mcu.mem[b] = "new"
          /\ mcu.state = "runs" => op = Len(Routine) + 1
      BY <3>1, Zenon DEF McuInv
    <3>3. L = 2 * B + 2 * O  BY <1>1, <2>3, UploadSteps
    <3>4. L \in Nat /\ k <= L  BY <1>1, <2>3, <3>3
    <3>5. k \in 1 .. L + 1 /\ (c.state = "runs" => k = L + 1)  BY <2>3, <3>2
    <3>6. c.state # "runs"  BY <3>4, <3>5
    <3> QED  BY <2>3, <3>2, <3>4, <3>5, <3>6
  <2>5. L = 2 * B + 2 * O  BY <1>1, <2>3, UploadSteps
  <2>6. L \in Nat /\ k \in 1 .. L /\ k + 1 \in 1 .. L + 1  BY <2>3, <2>4, <2>5
  <2>7. \/ k = 1 /\ O = 1 /\ o = <<"reset", 1>>
        \/ k = L /\ O = 1 /\ o = <<"reset", 0>>
        \/ \E b \in 1 .. B : k = O + 2 * b - 1 /\ o = <<"write", b>>
        \/ \E b \in 1 .. B : k = O + 2 * b /\ o = <<"verify", b>>
    BY <1>1, <1>2, <2>3, <2>5, <2>6, UploadSteps
  <2>8. op' = k + 1 /\ Lead' = O /\ op' \in 1 .. Len(Routine') + 1  BY <2>1, <2>2, <2>3, <2>6
  <2>9. CASE k = 1 /\ O = 1 /\ o = <<"reset", 1>>
    <3>1. mcu' = [c EXCEPT !.state = "held"]  BY <1>3, <1>5, <2>3, <2>9
    <3>2. mcu' \in Mcus /\ mcu'.state = "held"  BY <2>4, <3>1 DEF Mcus
    <3>3. \A b \in 1 .. B : ~(k + 1 > O + 2 * b)  BY <2>3, <2>9
    <3> QED  BY <2>2, <2>3, <2>8, <3>2, <3>3, UploadHolds
  <2>10. CASE k = L /\ O = 1 /\ o = <<"reset", 0>>
    <3>1. mcu' = [c EXCEPT !.state = "runs"]  BY <1>3, <1>5, <2>3, <2>10
    <3>2. mcu' \in Mcus /\ mcu'.mem = c.mem  BY <2>4, <3>1 DEF Mcus
    <3>3. \A b \in 1 .. B : k > O + 2 * b  BY <2>3, <2>5, <2>10
    <3>4. \A b \in 1 .. B : mcu'.mem[b] = "new"  BY <2>4, <3>2, <3>3
    <3>5. AllNew' /\ op' = Len(Routine') + 1  BY <2>1, <2>2, <2>3, <2>10, <3>4 DEF AllNew
    <3> QED  BY <2>2, <2>3, <2>8, <3>2, <3>4, <3>5, UploadHolds
  <2>11. CASE \E b \in 1 .. B : k = O + 2 * b - 1 /\ o = <<"write", b>>
    <3>1. PICK b \in 1 .. B : k = O + 2 * b - 1 /\ o = <<"write", b>>  BY <2>11
    <3>2. PICK v \in {"new", "flawed"} : mcu' = [c EXCEPT !.mem[b] = v]
      <4>1. o[1] = "write" /\ o[2] = b  BY <3>1
      <4>2. PICK flaw \in 0 .. 1 : mcu' = [mcu EXCEPT !.mem[o[2]] = IF flaw = 1 THEN "flawed" ELSE "new"]
        BY <1>3, <1>5, <4>1
      <4>3. PICK v : v = IF flaw = 1 THEN "flawed" ELSE "new"  OBVIOUS
      <4>4. mcu' = [c EXCEPT !.mem[b] = v]  BY <2>3, <4>1, <4>2, <4>3
      <4>5. v \in {"new", "flawed"}  BY <4>3
      <4> QED  BY <4>4, <4>5
    <3>3. /\ mcu' \in Mcus /\ mcu'.state = c.state
          /\ \A i \in 1 .. B : i # b => mcu'.mem[i] = c.mem[i]
      BY <2>3, <2>4, <3>2 DEF Mcus
    <3>4. \A i \in 1 .. B : k + 1 > O + 2 * i => i # b /\ k > O + 2 * i  BY <2>3, <3>1
    <3>5. \A i \in 1 .. B : k + 1 > O + 2 * i => mcu'.mem[i] = "new"  BY <2>4, <3>3, <3>4
    <3> QED  BY <2>2, <2>3, <2>4, <2>8, <3>3, <3>5, UploadHolds
  <2>12. CASE \E b \in 1 .. B : k = O + 2 * b /\ o = <<"verify", b>>
    <3>1. PICK b \in 1 .. B : k = O + 2 * b /\ o = <<"verify", b>>  BY <2>12
    <3>2. mcu' = c /\ c.mem[b] = "new"
      <4>1. o[1] = "verify" /\ o[2] = b  BY <3>1
      <4> QED  BY <1>3, <1>5, <2>3, <4>1
    <3>3. \A i \in 1 .. B : k + 1 > O + 2 * i => i = b \/ k > O + 2 * i  BY <2>3, <3>1
    <3>4. \A i \in 1 .. B : k + 1 > O + 2 * i => mcu'.mem[i] = "new"  BY <2>4, <3>2, <3>3
    <3> QED  BY <2>2, <2>3, <2>4, <2>8, <3>2, <3>4, UploadHolds
  <2> QED  BY <2>7, <2>9, <2>10, <2>11, <2>12
<1> QED  BY <1>4, <1>5

LEMMA DoneMcu == McuInv /\ ToolDone => McuInv'
<1> SUFFICES ASSUME McuInv, ToolDone PROVE McuInv'  OBVIOUS
<1>1. pc = "tool" /\ op > Len(Routine) /\ pc' = "close" /\ mode' = mode /\ op' = op /\ mcu' = mcu
  BY DEF ToolDone, loadVars
<1>2. CASE mode \notin McuModes  BY <1>1, <1>2, McuStays
<1>3. CASE mode \in McuModes
  <2>1. /\ mcu \in Mcus /\ (mcu.state = "runs" => AllNew) /\ op \in 1 .. Len(Routine) + 1
        /\ \A b \in 1 .. Blocks : op > Lead + 2 * b => mcu.mem[b] = "new"
    <3>1. Uploading  BY <1>1, <1>3 DEF Uploading
    <3> QED  BY <3>1, Zenon DEF McuInv
  <2>2. op = Len(Routine) + 1
    <3>1. PICK B \in Nat, O \in {0, 1}, k \in {op}, L \in {Len(Routine)} : B = Blocks /\ O = Lead /\ k = op /\ L = Len(Routine)
      BY BitsAssumption DEF Lead
    <3>2. L = 2 * B + 2 * O  BY <1>3, <3>1, UploadSteps
    <3>3. L \in Nat /\ k \in 1 .. L + 1 /\ k > L  BY <1>1, <2>1, <3>1, <3>2
    <3>4. k = L + 1  BY <3>3
    <3> QED  BY <3>1, <3>4
  <2>3. Routine' = Routine /\ Lead' = Lead  BY <1>1 DEF Routine, Lead
  <2>4. AllNew' <=> AllNew  BY <1>1 DEF AllNew
  <2>5. /\ mcu' \in Mcus /\ (mcu'.state = "runs" => AllNew') /\ op' \in 1 .. Len(Routine') + 1
        /\ \A b \in 1 .. Blocks : op' > Lead' + 2 * b => mcu'.mem[b] = "new"
        /\ op' = Len(Routine') + 1 /\ pc' # "main"
    BY <1>1, <2>1, <2>2, <2>3, <2>4
  <2> QED  BY <2>5, Zenon DEF McuInv
<1> QED  BY <1>2, <1>3

-----------------------------------------------------------------------------
(* Every step of the process and of the device preserves both.               *)
LEMMA JtagMcu ==
    McuInv /\ (JtagBegin \/ JtagClk \/ JtagSync \/ UsbJtagResponse \/ ExecuteClock) => McuInv'
<1> SUFFICES ASSUME McuInv, JtagBegin \/ JtagClk \/ JtagSync \/ UsbJtagResponse \/ ExecuteClock
             PROVE  McuInv'
  OBVIOUS
<1>1. CASE ExecuteClock
  <2>1. mcu' = mcu /\ op' = op /\ mode' = mode /\ pc' = pc  BY <1>1, ExecuteIs
  <2> QED  BY <2>1, McuStays
<1>2. CASE JtagBegin \/ JtagClk \/ JtagSync \/ UsbJtagResponse
  <2>1. mcu' = mcu /\ JtagTurn  BY <1>2 DEF JtagBegin, JtagClk, JtagSync, UsbJtagResponse
  <2>2. (mode' = mode /\ pc' = pc) \/ pc' = "over"
    BY <1>2 DEF JtagBegin, JtagClk, JtagSync, UsbJtagResponse, UsbJtagRequest, Exits
  <2>3. pc = "tool" /\ mode \notin McuModes  BY <2>1 DEF JtagTurn, JtagModes, McuModes
  <2> QED  BY <2>1, <2>2, <2>3, McuStays
<1> QED  BY <1>1, <1>2

LEMMA MainMcu == McuInv /\ Main => McuInv'
<1> SUFFICES ASSUME McuInv, Main PROVE McuInv'  OBVIOUS
<1>1. pc = "main" /\ mcu' = mcu /\ op' = op  BY DEF Main, loadVars
<1>2. pc' \in {"main", "over"}  BY <1>1 DEF Main, RunSelectedCapture, Leave
<1> QED  BY <1>1, <1>2, McuStays

LEMMA SessionLoader ==
    ASSUME IInv, LoaderInv, McuInv, UsbThread \/ Device \/ Signal, UNCHANGED loadVars
    PROVE  LoaderInv' /\ McuInv'
<1>1. UNCHANGED <<items, buf, wire, tap, fpga, garbled>> /\ op' = op /\ mcu' = mcu  BY DEF loadVars
<1>2. /\ pc' = "main" => pc = "main"
      /\ pc' \in {"tool", "close"} => (mode' = mode /\ pc' = pc) \/ mode' \in {"capture", "test"}
  BY SessionKeeps
<1>3. mode' \in JtagModes /\ pc' \in {"tool", "close"} => mode' = mode /\ pc' = pc /\ op' = op
  BY <1>1, <1>2 DEF JtagModes
<1>4. mode' \in McuModes /\ pc' \in {"tool", "close"} => mode' = mode /\ pc' = pc /\ op' = op
  BY <1>1, <1>2 DEF McuModes
<1>5. LoaderInv'  BY <1>1, <1>2, <1>3, LoaderStays
<1>6. McuInv'  BY <1>1, <1>2, <1>4, McuStays
<1> QED  BY <1>5, <1>6

LEMMA NextLoader == IInv /\ LoaderInv /\ McuInv /\ [Next]_vars => LoaderInv' /\ McuInv'
<1> SUFFICES ASSUME IInv, LoaderInv, McuInv, [Next]_vars PROVE LoaderInv' /\ McuInv'  OBVIOUS
<1>1. CASE Main  BY <1>1, MainLoader, MainMcu
<1>2. CASE Open  BY <1>2, OpenLoader, OpenMcu
<1>3. CASE ExecuteClock  BY <1>3, ExecuteLoader, JtagMcu
<1>4. CASE LoaderThread
  <2>1. CASE JtagBegin  BY <2>1, BeginLoader, JtagMcu
  <2>2. CASE JtagClk  BY <2>2, ClkLoader, JtagMcu
  <2>3. CASE JtagSync  BY <2>3, SyncLoader, JtagMcu
  <2>4. CASE UsbJtagResponse  BY <2>4, ResponseLoader, JtagMcu
  <2>5. CASE McuStep  BY <2>5, McuLoader, McuStepMcu
  <2>6. CASE ToolDone  BY <2>6, DoneLoader, DoneMcu
  <2> QED  BY <1>4, <2>1, <2>2, <2>3, <2>4, <2>5, <2>6, Zenon DEF LoaderThread
<1>5. CASE (UsbThread \/ Device \/ Signal) /\ UNCHANGED loadVars  BY <1>5, SessionLoader
<1>6. CASE UNCHANGED vars
  <2>1. UNCHANGED <<items, buf, wire, tap, fpga, garbled>> /\ op' = op /\ mcu' = mcu /\ pc' = pc /\ mode' = mode
    BY <1>6 DEF vars, loadVars
  <2> QED  BY <2>1, LoaderStays, McuStays
<1> QED  BY <1>1, <1>2, <1>3, <1>4, <1>5, <1>6, Zenon DEF Next, Engine

LEMMA LoaderInvariance == Spec => [](LoaderInv /\ McuInv)
<1>1. Init => LoaderInv /\ McuInv  BY InitLoader, InitMcu
<1>2. IInv /\ (LoaderInv /\ McuInv) /\ [Next]_vars => (LoaderInv /\ McuInv)'  BY NextLoader
<1> QED  BY <1>1, <1>2, Invariance, PTL DEF Spec

LEMMA TurnIdle ==
    ASSUME LoaderInv, JtagTurn, items = <<>>, op > 2
    PROVE  TapAfter(tap.state, buf) = "RunTestIdle"
<1>1. PICK m \in JtagModes : m = mode  BY DEF JtagTurn
<1>2. buf \in Seq(AllItems) /\ wire = <<>>  BY LoaderIs DEF JtagTurn
<1>3. PICK q \in Seq(Places), h \in Places :
        /\ Placed(m, q, h, buf, wire, tap, fpga)
        /\ HostAt(m, h, items, op) /\ op \in 1 .. Len(Ops(m)) + 1
  BY <1>1, TurnIs, Zenon
<1>4. PICK P, t, f, k : P \in Seq(AllItems) /\ P = buf /\ t = tap /\ f = fpga /\ k = op  BY <1>2
<1>5. Placed(m, q, h, P, <<>>, t, f)  BY <1>2, <1>3, <1>4
<1>6. h = <<k, 1>>  BY <1>3, <1>4, Zenon DEF HostAt
<1>7. k \in 3 .. Len(Ops(m)) + 1  BY <1>3, <1>4, OpsTypes
<1>8. /\ Trail(m, q, h, P) /\ (P # <<>> => h \in After(m, q[Len(q)])) /\ At(m, DeviceAt(q, h), t, f)
  BY <1>5, Zenon DEF Placed
<1>9. StateAt(m, DeviceAt(q, h)[1], DeviceAt(q, h)[2], t.state)  BY <1>8, Zenon DEF At
<1>10. Len(P) \in Nat /\ (P = <<>> <=> Len(P) = 0) /\ (q = <<>> <=> Len(q) = 0)  OBVIOUS
<1>11. TapAfter(t.state, P) = "RunTestIdle"  BY <1>6, <1>7, <1>8, <1>9, <1>10, TapAlong
<1> QED  BY <1>4, <1>11

LEMMA ClosedPlace ==
    ASSUME LoaderInv, pc = "close", mode \in {"fpga_flash", "fpga_sram"}
    PROVE  buf = <<>> /\ At(mode, End(mode), tap, fpga)
<1>1. PICK m \in JtagModes, q \in Seq(Places), h \in Places :
        Placed(m, q, h, buf, wire, tap, fpga) /\ Hosted(m, h)
  BY LoaderIs, Zenon
<1>2. InTool  BY DEF InTool, JtagModes
<1>3. /\ m = mode /\ HostAt(m, h, items, op)
      /\ items = <<>> /\ op = Len(Ops(m)) + 1 /\ m # "fpga_erase" => buf = <<>>
      /\ wire = <<>> /\ items = <<>> /\ op = Len(Ops(m)) + 1
  BY <1>1, <1>2, Zenon DEF Hosted
<1>4. buf = <<>> /\ wire = <<>>  BY <1>3
<1>5. h = End(m)  BY <1>3, Zenon DEF HostAt, End
<1>6. Placed(m, q, h, <<>>, <<>>, tap, fpga)  BY <1>1, <1>4
<1>7. Trail(m, q, h, <<>>) /\ At(m, DeviceAt(q, h), tap, fpga)  BY <1>6, Zenon DEF Placed
<1>8. Len(q) = 0
  <2>1. Len(q) = Len(<<>>)  BY <1>7, Zenon DEF Trail
  <2> QED  BY <2>1
<1>9. DeviceAt(q, h) = h  BY <1>8 DEF DeviceAt
<1> QED  BY <1>3, <1>4, <1>5, <1>7, <1>9

(* fpga.c, which never resets the TAP controller and knows its state only by *)
(* counting: for any data, any length of the registers, any buffer that a    *)
(* register fits into and any number of busy answers, and wherever a stopped *)
(* tool left the controller, it is in step with the routine, and every       *)
(* response is the whole register that was to be read.                       *)
THEOREM InStep == Spec => []TapInStep
<1>1. LoaderInv => TapInStep
  <2> SUFFICES ASSUME LoaderInv PROVE TapInStep  OBVIOUS
  <2>1. JtagTurn /\ items = <<>> /\ op > 2 => TapAfter(tap.state, buf) = "RunTestIdle"  BY TurnIdle
  <2>2. ~garbled  BY LoaderIs
  <2>3. ASSUME pc = "close", mode \in {"fpga_flash", "fpga_sram"}
        PROVE  buf = <<>> /\ tap.state = "RunTestIdle"
    <3>1. buf = <<>> /\ At(mode, End(mode), tap, fpga)  BY <2>3, ClosedPlace
    <3>2. mode \in JtagModes  BY <2>3 DEF JtagModes
    <3> QED  BY <3>1, <3>2, AtEnd
  <2> QED  BY <2>1, <2>2, <2>3 DEF TapInStep
<1> QED  BY <1>1, LoaderInvariance, PTL

(* fpga_program_flash and fx2lp.c: for any amount of data, whichever         *)
(* transfer fails and whichever cell does not keep what was written, only    *)
(* what was read back is marked as bootable or let run, and a tool that gets *)
(* to its end has written everything.                                        *)
THEOREM VerifiedRuns == Spec => []OnlyVerifiedRuns
<1>1. LoaderInv /\ McuInv => OnlyVerifiedRuns
  <2> SUFFICES ASSUME LoaderInv, McuInv PROVE OnlyVerifiedRuns  OBVIOUS
  <2>1. fpga.done => fpga.flash \in {Filled("old"), Image}
    <3>1. PICK m \in JtagModes, q \in Seq(Places), h \in Places : Placed(m, q, h, buf, wire, tap, fpga)
      BY LoaderIs, Zenon
    <3>2. At(m, DeviceAt(q, h), tap, fpga)  BY <3>1, Zenon DEF Placed
    <3>3. Safe(fpga)  BY <3>2, AtSafe
    <3> QED  BY <3>3, Zenon DEF Safe
  <2>2. mcu.state = "runs" => \A b \in 1 .. Blocks : mcu.mem[b] = "new"  BY DEF McuInv, AllNew
  <2>3. ASSUME pc = "close", mode \in McuModes PROVE \A b \in 1 .. Blocks : mcu.mem[b] = "new"
    <3>1. Uploading  BY <2>3 DEF Uploading
    <3>2. /\ op = Len(Routine) + 1
          /\ \A b \in 1 .. Blocks : op > Lead + 2 * b => mcu.mem[b] = "new"
      BY <2>3, <3>1, Zenon DEF McuInv
    <3>3. PICK B \in Nat, O \in {0, 1} : B = Blocks /\ O = Lead  BY BitsAssumption DEF Lead
    <3>4. op = (2 * B + 2 * O) + 1  BY <2>3, <3>2, <3>3, UploadSteps
    <3>5. \A b \in 1 .. B : (2 * B + 2 * O) + 1 > O + 2 * b  BY <3>3
    <3> QED  BY <3>2, <3>3, <3>4, <3>5
  <2>4. ASSUME pc = "close", mode = "fpga_flash" PROVE fpga.done /\ fpga.sram = "flash"
    <3>1. PICK m \in JtagModes : m = mode /\ m = "fpga_flash"  BY <2>4 DEF JtagModes
    <3>2. At(m, End(m), tap, fpga)  BY <2>4, <3>1, ClosedPlace
    <3>3. PICK k \in Nat, D \in Nat : k = Len(Ops(m)) + 1 /\ D = DoneAt /\ k = D + 17
      <4>1. PICK R \in Nat : R = Rows  BY RowsType
      <4>2. DoneAt = 48 + 10 * R  BY <4>1 DEF DoneAt
      <4>3. Len(Ops(m)) = DoneAt + 16  BY <3>1, FlashMode, FlashLength
      <4> QED  BY <4>2, <4>3
    <3>4. Known(m, k, tap.ir, fpga)  BY <3>2, <3>3, AtEnd
    <3>5. FpgaKnown(m, k, fpga)  BY <3>4, Zenon DEF Known
    <3>6. k >= DoneAt + 2 /\ k >= DoneAt + 13 /\ m # "fpga_sram"  BY <3>1, <3>3
    <3>7. fpga.done = TRUE /\ fpga.sram = "flash"  BY <3>5, <3>6, Zenon DEF FpgaKnown
    <3> QED  BY <3>7
  <2> QED  BY <2>1, <2>2, <2>3, <2>4 DEF OnlyVerifiedRuns
<1> QED  BY <1>1, LoaderInvariance, PTL
=============================================================================
