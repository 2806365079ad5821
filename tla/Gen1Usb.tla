------------------------------ MODULE Gen1Usb -------------------------------
(* The USB side of the older device, gen1/usb.c: the control registers that  *)
(* start a capture or a speed test, the flush of the endpoint, the pool of   *)
(* transfers, the event loop and the teardown.  One thread runs everything;  *)
(* callbacks run inside libusb_handle_events.                                *)
(*                                                                           *)
(* Nothing stops the FPGA when a session ends: it may still send what an     *)
(* earlier session asked for, and the endpoint FIFO may be full of it.  A    *)
(* word of data is <<n, test, speed>>: its number since the last reset of    *)
(* the capture logic and the settings it was made with.                      *)
EXTENDS Integers, Sequences, SequencesExt

CONSTANTS Transfers,     \* TRANSFER_COUNT
          FifoDepth,     \* depth of the endpoint FIFO of the device
          FlushReads,    \* rounds of usb_flush_data
          DrainRounds,   \* rounds of the drain loop of usb_close
          Speeds,        \* capture_speed, two bits of it
          MaxWords       \* bound: words sent after a reset

(* A flush takes out all that the FIFO can hold, and the drain loop has a    *)
(* round for each transfer.                                                  *)
ASSUME RoundsAssumption == /\ FifoDepth <= FlushReads /\ Transfers <= DrainRounds
                           /\ Transfers \in Nat \ {0} /\ Speeds \subseteq 0 .. 3
                           /\ FifoDepth \in Nat /\ FlushReads \in Nat
                           /\ DrainRounds \in Nat /\ MaxWords \in Nat

VARIABLES mode,     \* what main picked; see Gen1Main
          pc,       \* where the thread is
          at,       \* the next step of the control sequence
          round,    \* of usb_flush_data, of the drain loop
          speed,    \* g_opt.capture_speed
          regs,     \* the control registers of the device
          fifo,     \* the endpoint FIFO
          made,     \* words made since the last reset
          plugged,  \* the device is connected
          flight,   \* submitted transfers: how many
          due,      \* completed transfers whose callback has not run
          closing,  \* g_usb_closing
          stop,     \* g_stop
          fed,      \* words handed on so far
          bad       \* a word was handed on that is not the next one asked for

usbVars == <<at, round, speed, regs, fifo, made, plugged, flight, due, closing, stop, fed, bad>>
devVars == <<regs, fifo, made, plugged>>

Registers == {"Reset", "Enable", "Speed0", "Speed1", "Test"}
None == <<>>

(* Nothing is open.  The device is as an earlier session, or one that was    *)
(* killed, left it.                                                          *)
UsbInit ==
    /\ at = 1 /\ round = 0 /\ speed \in Speeds /\ plugged = TRUE
    /\ \E test \in {0, 1} :
          regs = [r \in Registers |-> CASE r = "Enable" -> 1 - test [] r = "Test" -> test
                                        [] OTHER -> 0]
    /\ fifo \in {<<>>, [i \in 1 .. FifoDepth |-> <<i, regs["Test"], 0>>]} /\ made = MaxWords
    /\ flight = 0 /\ due = <<>> /\ closing = FALSE /\ stop = FALSE
    /\ fed = 0 /\ bad = FALSE

-----------------------------------------------------------------------------
(* The device.                                                               *)
Setting == regs["Speed0"] + 2 * regs["Speed1"]

MakeWord == /\ plugged /\ regs["Reset"] = 0 /\ regs["Enable"] + regs["Test"] > 0
            /\ Len(fifo) < FifoDepth /\ made < MaxWords
            /\ made' = made + 1
            /\ fifo' = Append(fifo, <<made + 1, regs["Test"], Setting>>)
            /\ UNCHANGED <<mode, pc, at, speed, regs, plugged, flight, due, closing, stop, fed, bad, round>>

(* The oldest transfer completes with a word, or times out, with a word that *)
(* came before the time was over or with none.                               *)
Complete == /\ plugged /\ flight > 0
            /\ \E status \in {"completed", "timeout"} :
                  \/ /\ fifo # <<>>
                     /\ due' = Append(due, <<status, Head(fifo)>>)
                     /\ fifo' = Tail(fifo)
                  \/ /\ status = "timeout"
                     /\ due' = Append(due, <<status, None>>)
                     /\ UNCHANGED fifo
            /\ flight' = flight - 1
            /\ UNCHANGED <<mode, pc, at, speed, regs, made, plugged, closing, stop, fed, bad, round>>

(* A transfer fails for another reason than the device being gone.           *)
Stall == /\ plugged /\ flight > 0
         /\ due' = Append(due, <<"error", None>>) /\ flight' = flight - 1
         /\ UNCHANGED <<mode, pc, at, speed, devVars, closing, stop, fed, bad, round>>

(* The device is unplugged: every transfer completes.                        *)
Unplug == /\ plugged /\ pc \in {"loop", "events"}
          /\ plugged' = FALSE
          /\ due' = due \o [i \in 1 .. flight |-> <<"nodevice", None>>] /\ flight' = 0
          /\ UNCHANGED <<mode, pc, at, speed, regs, fifo, made, closing, stop, fed, bad, round>>

(* sig_handler of main.c.                                                    *)
Signal == /\ ~stop /\ pc \notin {"main", "over"}
          /\ stop' = TRUE
          /\ UNCHANGED <<mode, pc, at, speed, devVars, flight, due, closing, fed, bad, round>>

-----------------------------------------------------------------------------
(* os_error and os_check end the process on the spot.                        *)
Exits == pc' = "over" /\ mode' = "failed"

(* usb_ctrl_init, and what capture_start and usb_speed_test do after it.     *)
UsbCtrlInit == << <<"Reset", 1>>, <<"Enable", 0>>, <<"Test", 0>>, <<"Speed0", 1>>,
                  <<"Speed0", 0>>, <<"Speed1", 1>>, <<"Speed1", 0>> >>

CaptureStartNoFlush ==
    UsbCtrlInit \o << <<"Enable", 0>>, <<"Reset", 1>>,
                      <<"Speed0", speed % 2>>, <<"Speed1", speed \div 2>>,
                      <<"Reset", 0>>, <<"Enable", 1>>, <<"headers", 0>> >>

CaptureStart ==
    UsbCtrlInit \o << <<"Enable", 0>>, <<"Reset", 1>>, <<"flush", 0>>,
                      <<"Speed0", speed % 2>>, <<"Speed1", speed \div 2>>,
                      <<"Reset", 0>>, <<"Enable", 1>>, <<"headers", 0>> >>

UsbSpeedTest == UsbCtrlInit \o << <<"Reset", 1>>, <<"Test", 1>>, <<"flush", 0>>, <<"Reset", 0>> >>

Sequence == IF mode = "test" THEN UsbSpeedTest ELSE CaptureStart
Step     == Sequence[at]

(* usb_ctrl.  A reset starts the numbering of the words anew; it does not    *)
(* reach the endpoint FIFO.                                                  *)
UsbCtrl == /\ pc = "ctrl" /\ at <= Len(Sequence) /\ Step[1] \in Registers
           /\ \/ /\ regs' = [regs EXCEPT ![Step[1]] = Step[2]]
                 /\ made' = IF Step[1] = "Reset" /\ Step[2] = 1 THEN 0 ELSE made
                 /\ at' = at + 1
                 /\ UNCHANGED <<mode, pc>>
              \/ Exits /\ UNCHANGED <<at, regs, made>>
           /\ UNCHANGED <<speed, fifo, plugged, flight, due, closing, stop, fed, bad, round>>

(* usb_flush_data: each round reads one packet; a timeout ends it.           *)
UsbFlushData == /\ pc = "ctrl" /\ at <= Len(Sequence) /\ Step[1] = "flush"
                /\ \/ /\ round < FlushReads /\ fifo # <<>>
                      /\ fifo' = Tail(fifo) /\ round' = round + 1
                      /\ UNCHANGED <<mode, pc, at>>
                   \/ /\ round = FlushReads \/ fifo = <<>>
                      /\ round' = 0 /\ at' = at + 1
                      /\ UNCHANGED <<mode, pc, fifo>>
                   \/ Exits /\ UNCHANGED <<at, round, fifo>>
                /\ UNCHANGED <<speed, regs, made, plugged, flight, due, closing, stop, fed, bad>>

(* write_file_header, write_usb_header and write_info_header; os_check ends  *)
(* the process when the consumer is gone.                                    *)
WriteHeaders == /\ pc = "ctrl" /\ at <= Len(Sequence) /\ Step[1] = "headers"
                /\ \/ at' = at + 1 /\ UNCHANGED <<mode, pc>>
                   \/ Exits /\ UNCHANGED at
                /\ UNCHANGED <<speed, devVars, flight, due, closing, stop, fed, bad, round>>

(* usb_data_transfer: all transfers are submitted, or the process ends.      *)
UsbDataTransfer == /\ pc = "ctrl" /\ at > Len(Sequence)
                   /\ \/ pc' = "loop" /\ flight' = Transfers /\ UNCHANGED mode
                      \/ Exits /\ UNCHANGED flight
                   /\ UNCHANGED <<at, speed, devVars, due, closing, stop, fed, bad, round>>

(* while (!g_stop) libusb_handle_events: a call may run many callbacks, and  *)
(* g_stop is not looked at between them.                                     *)
LoopTestUntilIdle == /\ pc = "loop"
                     /\ pc' = IF stop /\ flight = 0 THEN "close" ELSE "events"
                     /\ UNCHANGED <<mode, usbVars>>

LoopTest == /\ pc = "loop"
            /\ pc' = IF stop THEN "close" ELSE "events"
            /\ UNCHANGED <<mode, usbVars>>

EventsReturn == /\ pc = "events"
                /\ pc' = "loop"
                /\ UNCHANGED <<mode, usbVars>>

(* usb_capture_callback.  What is handed on is the next word of what was     *)
(* asked for, or bad; in a speed test a bad one ends the process, in a       *)
(* capture the limit, a broken frame or a failed write may do so.            *)
Wanted(n) == <<n, IF mode = "test" THEN 1 ELSE 0, IF mode = "test" THEN 0 ELSE speed>>

Feed(word) == /\ fed' = IF word = None THEN fed ELSE fed + 1
              /\ bad' = (bad \/ (word # None /\ word # Wanted(fed + 1)))

Resubmit == \/ flight' = flight + 1 /\ UNCHANGED <<mode, pc>>
            \/ Exits /\ UNCHANGED flight

UsbCaptureCallback ==
    /\ pc = "events" /\ due # <<>>
    /\ due' = Tail(due)
    /\ LET status == Head(due)[1]
           word   == Head(due)[2]
       IN \/ /\ status \in {"cancelled", "nodevice"}
             /\ UNCHANGED <<mode, pc, flight, fed, bad>>
          \/ /\ status = "error"
             /\ Exits /\ UNCHANGED <<flight, fed, bad>>
          \/ /\ status \in {"completed", "timeout"}
             /\ Feed(word)
             /\ IF mode = "test" /\ bad' THEN Exits /\ UNCHANGED flight ELSE Resubmit
    /\ UNCHANGED <<at, speed, devVars, closing, stop, round>>

CaptureEnds == /\ mode = "capture" /\ pc = "events" /\ due # <<>>
               /\ Head(due)[2] # None
               /\ Feed(Head(due)[2])
               /\ due' = Tail(due)
               /\ pc' = "over" /\ mode' = "ended"
               /\ UNCHANGED <<at, speed, devVars, flight, closing, stop, round>>

(* usb_close: no callback resubmits any more, every transfer is cancelled,   *)
(* and so many rounds of event handling are given to their callbacks.  The   *)
(* cancelled transfers are taken to complete at once; UsbTransport has the   *)
(* same loop with a kernel that completes them at any moment.                *)
UsbClose == /\ pc = "close"
            /\ closing' = TRUE
            /\ due' = due \o [i \in 1 .. flight |-> <<"cancelled", None>>] /\ flight' = 0
            /\ pc' = "drain" /\ round' = 0
            /\ UNCHANGED <<mode, at, speed, devVars, stop, fed, bad>>

UsbCloseDrain == /\ pc = "drain" /\ round < DrainRounds
                 /\ round' = round + 1
                 /\ due' = IF due = <<>> THEN due ELSE Tail(due)   \* closing: returns
                 /\ UNCHANGED <<mode, pc, at, speed, devVars, flight, closing, stop, fed, bad>>

UsbCloseFree == /\ pc = "drain" /\ round = DrainRounds
                /\ pc' = "over"
                /\ mode' = "ended"
                /\ UNCHANGED usbVars

Device == MakeWord \/ Complete \/ Stall \/ Unplug

UsbThread == \/ UsbCtrl \/ UsbFlushData \/ WriteHeaders \/ UsbDataTransfer
             \/ LoopTest \/ EventsReturn \/ UsbCaptureCallback \/ CaptureEnds
             \/ UsbClose \/ UsbCloseDrain \/ UsbCloseFree

-----------------------------------------------------------------------------
(* capture_start and usb_speed_test: whatever an earlier session left in the *)
(* device, the interpreter and the speed test see the data they asked for,   *)
(* from the first word after the reset on, made with the settings asked for, *)
(* in order and without a gap, so the speed test reports no false error; and *)
(* usb_close frees the transfers after the last callback.                    *)
OwnDataInOrder == ~bad /\ (pc = "over" /\ closing => due = <<>> /\ flight = 0)

=============================================================================
