------------------------------- MODULE Session ------------------------------
(* A capture session, run_capture_gen2 in main.c, from the command that      *)
(* enables the FPGA to its end: the main thread, the parser thread that may  *)
(* find the capture limit reached, the signal handler, the writer thread     *)
(* that may find the pipe closed, and a device or a replay file that may end.*)
(*                                                                           *)
(* A unit of data is one captured packet.  The queues between the threads,   *)
(* the commands and the gate are modules of their own; here the raw queue is *)
(* a number of packets, and the trigger is disabled.                         *)
EXTENDS Integers

CONSTANTS Limits,      \* values of the option --limit; 0 is unlimited
          MaxEarly,    \* bound: packets counted before the announcement
          MaxPackets   \* bound: packets the device sends

ASSUME ConstantsAssumption == /\ Limits \subseteq Nat
                              /\ MaxEarly \in Nat /\ MaxPackets \in Nat

VARIABLES limit,     \* the option
          replay,    \* transport_replay, not transport_libusb
          pc,        \* main thread: "enabling", "loop", "drain", "why", "stopping",
                     \* "ended"
          attempt,   \* of the startup loop
          wpc,       \* parser thread: "parse", or "wake" in the end of data_cb
          left,      \* p->opts.capture_limit; all negative values are -1
          done,      \* p->done
          gStop,     \* g_stop
          alive,     \* transport_alive
          wrErr,     \* p->wr_err of pcapng.c
          sent, onWire, queued,   \* packets sent, under way, in the raw queue
          early,     \* packets counted before the announcement
          captured,  \* packets written
          signal,    \* a signal was delivered
          why        \* the reason recorded

sourceVars == <<limit, replay>>
packetVars == <<left, done, captured>>
sessionVars == <<limit, replay, pc, attempt, wpc, left, done, gStop, alive, wrErr, sent,
                 onWire, queued, early, captured, signal, why>>

SessionInit == /\ limit \in Limits /\ replay \in BOOLEAN
               /\ pc = "enabling" /\ attempt = 0 /\ wpc = "parse"
               /\ left = IF limit = 0 THEN -1 ELSE limit
               /\ done = FALSE /\ gStop = FALSE /\ alive = TRUE /\ wrErr = FALSE
               /\ sent = 0 /\ onWire = 0 /\ queued = 0 /\ early = 0 /\ captured = 0
               /\ signal = FALSE /\ why = "none"

-----------------------------------------------------------------------------
(* packet_feed and check_capture_limit, for a packet that passes the gate.   *)
PacketFeedDone ==
    /\ captured' = captured + 1
    /\ left' = IF left > 0 THEN left - 1 ELSE -1
    /\ done' = (done \/ left' = 0)

PacketFeed ==
    IF done THEN UNCHANGED packetVars
    ELSE /\ captured' = captured + 1
         /\ left' = IF left > 0 THEN left - 1 ELSE -1
         /\ done' = (left' = 0)

(* The main thread waits for an ACK: what it reads goes through data_cb.     *)
SyncFeed == /\ onWire > 0 /\ onWire' = onWire - 1
            /\ PacketFeed
            /\ gStop' = (gStop \/ done')

-----------------------------------------------------------------------------
(* The main thread.                                                          *)

(* cmd_exec(ENABLE, 1): the FPGA captures already while its ACK is awaited.  *)
EnableRead == /\ pc = "enabling" /\ early < MaxEarly
              /\ SyncFeed
              /\ early' = early + 1
              /\ UNCHANGED <<sourceVars, pc, attempt, wpc, alive, wrErr, sent, queued, signal,
                             why>>

(* The gate is still closed: the packet is dropped.                          *)
EnableReadGated == /\ pc = "enabling" /\ onWire > 0
                   /\ onWire' = onWire - 1
                   /\ gStop' = (gStop \/ done)
                   /\ UNCHANGED <<sourceVars, pc, attempt, wpc, packetVars, alive, wrErr,
                                  sent, queued, early, signal, why>>

(* No ACK: the device is reset once and opened again, the packet layer is   *)
(* not.  A device that cannot be reset, and a replay file, end the program.  *)
EnableFails == /\ pc = "enabling"
               /\ \/ /\ attempt = 0 /\ ~replay
                     /\ attempt' = 1 /\ onWire' = 0 /\ alive' = TRUE /\ UNCHANGED pc
                  \/ pc' = "ended" /\ UNCHANGED <<attempt, onWire, alive>>
               /\ UNCHANGED <<sourceVars, wpc, packetVars, gStop, wrErr, sent, queued, early,
                              signal, why>>

(* The ACK has come: packet_announce, which arms the capture once more, and  *)
(* transport_stream_mode.                                                    *)
Announce == /\ pc = "enabling"
            /\ done' = FALSE
            /\ pc' = "loop"
            /\ UNCHANGED <<sourceVars, attempt, wpc, left, captured, gStop, alive, wrErr,
                           sent, onWire, queued, early, signal, why>>

Running == ~gStop /\ alive /\ ~done /\ ~wrErr

(* transport_events: in_callback puts what has come into the raw queue.      *)
LoopEvents == /\ pc = "loop" /\ Running /\ onWire > 0
              /\ \E n \in 1 .. onWire : onWire' = onWire - n /\ queued' = queued + n
              /\ UNCHANGED <<sourceVars, pc, attempt, wpc, packetVars, gStop, alive, wrErr,
                             sent, early, signal, why>>

LoopEndDeaf == /\ pc = "loop" /\ ~(~gStop /\ alive /\ ~done)
               /\ pc' = "drain"
               /\ UNCHANGED <<sourceVars, attempt, wpc, packetVars, gStop, alive, wrErr, sent,
                              onWire, queued, early, signal, why>>

LoopEnd == /\ pc = "loop" /\ ~Running
           /\ pc' = "drain"
           /\ UNCHANGED <<sourceVars, attempt, wpc, packetVars, gStop, alive, wrErr, sent,
                          onWire, queued, early, signal, why>>

(* rawq_stop returns: the parser thread has worked off the queue.            *)
Drain == /\ pc = "drain" /\ queued = 0 /\ wpc = "parse"
         /\ pc' = "why"
         /\ UNCHANGED <<sourceVars, attempt, wpc, packetVars, gStop, alive, wrErr, sent, onWire,
                        queued, early, signal, why>>

(* The reason is chosen and recorded (packet_stop_info).                     *)
ReasonHostFirst == IF gStop THEN "host" ELSE IF done THEN "limit"
                   ELSE IF wrErr THEN "pipe" ELSE IF ~alive THEN "lost" ELSE "ended"

Reason == IF done THEN "limit" ELSE IF gStop THEN "host"
          ELSE IF wrErr THEN "pipe" ELSE IF ~alive THEN "lost" ELSE "ended"

Why == /\ pc = "why"
       /\ why' = Reason
       /\ pc' = IF alive THEN "stopping" ELSE "ended"
       /\ UNCHANGED <<sourceVars, attempt, wpc, packetVars, gStop, alive, wrErr, sent, onWire,
                      queued, early, signal>>

(* cmd_exec(ENABLE, 0), cmd_tx_quiet and transport_events: data still comes. *)
StopRead == /\ pc = "stopping"
            /\ SyncFeed
            /\ UNCHANGED <<sourceVars, pc, attempt, wpc, alive, wrErr, sent, queued, early,
                           signal, why>>

StopEnds == /\ pc = "stopping"
            /\ pc' = "ended"
            /\ UNCHANGED <<sourceVars, attempt, wpc, packetVars, gStop, alive, wrErr, sent,
                           onWire, queued, early, signal, why>>

MainStep == \/ EnableRead \/ EnableReadGated \/ EnableFails \/ Announce
            \/ LoopEvents \/ LoopEnd \/ Drain \/ Why \/ StopRead \/ StopEnds

-----------------------------------------------------------------------------
(* The parser thread: data_cb parses, then wakes the main loop.  Both p->done *)
(* and g_stop are read without a lock, so the main thread may run in between. *)
Parse == /\ wpc = "parse" /\ queued > 0
         /\ queued' = queued - 1
         /\ PacketFeed
         /\ wpc' = "wake"
         /\ UNCHANGED <<sourceVars, pc, attempt, gStop, alive, wrErr, sent, onWire, early,
                        signal, why>>

Wake == /\ wpc = "wake"
        /\ gStop' = (gStop \/ done)
        /\ wpc' = "parse"
        /\ UNCHANGED <<sourceVars, pc, attempt, packetVars, alive, wrErr, sent, onWire, queued,
                       early, signal, why>>

WorkStep == Parse \/ Wake

(* sig_handler, writer_main, the device, and the end of the replay file.     *)
SigHandler == /\ pc # "ended" /\ ~signal
              /\ gStop' = TRUE /\ signal' = TRUE
              /\ UNCHANGED <<sourceVars, pc, attempt, wpc, packetVars, alive, wrErr, sent,
                             onWire, queued, early, why>>

WriteFails == /\ pc \in {"loop", "drain", "why", "stopping"} /\ ~wrErr
              /\ wrErr' = TRUE
              /\ UNCHANGED <<sourceVars, pc, attempt, wpc, packetVars, gStop, alive, sent,
                             onWire, queued, early, signal, why>>

DeviceSends == /\ alive /\ pc # "ended" /\ sent < MaxPackets
               /\ sent' = sent + 1 /\ onWire' = onWire + 1
               /\ UNCHANGED <<sourceVars, pc, attempt, wpc, packetVars, gStop, alive, wrErr,
                              queued, early, signal, why>>

(* Found in transport_events, by in_callback or by a read at the end of the  *)
(* file: the transport is not alive any more.                                *)
TransportEnds == /\ pc \in {"enabling", "loop", "stopping"} /\ alive
                 /\ replay => onWire = 0
                 /\ alive' = FALSE
                 /\ UNCHANGED <<sourceVars, pc, attempt, wpc, packetVars, gStop, wrErr, sent,
                                onWire, queued, early, signal, why>>

Ended == pc = "ended" /\ UNCHANGED sessionVars

SessionNext == \/ MainStep \/ WorkStep
               \/ SigHandler \/ WriteFails \/ DeviceSends \/ TransportEnds \/ Ended

SessionSpec == SessionInit /\ [][SessionNext]_sessionVars

(* Both threads run; commands and events have time-outs, so the startup and  *)
(* the end do not wait for good (StartupEnds of CmdLink).                    *)
FairSpec == SessionSpec /\ WF_sessionVars(MainStep) /\ WF_sessionVars(WorkStep)

-----------------------------------------------------------------------------
LimitReached == limit > 0 /\ captured >= limit

(* "It stopped by itself" is never a mystery: the reason recorded is a real  *)
(* one, and a capture that reached its limit says so, although data_cb also  *)
(* raises g_stop then and signals, write errors and the loss of the device   *)
(* come at any moment up to the choice of the reason.                        *)
ReasonTrue ==
    [][why' # why => /\ why' = "limit" <=> LimitReached
                     /\ why' = "host" => signal
                     /\ why' = "pipe" => wrErr
                     /\ why' = "lost" => ~alive
                     /\ why' # "ended"]_sessionVars

(* No more packets are written than the limit allows, whoever parses them:   *)
(* the main thread before and after the streaming phase, or the parser.      *)
LimitKept == limit > 0 => captured <= limit

(* A capture ends after a signal, the loss of the device, a closed pipe, or  *)
(* once its limit is reached, although only the loop polls for these.        *)
SessionEnds ==
    pc = "loop" /\ (gStop \/ ~alive \/ wrErr \/ LimitReached) ~> pc = "ended"
=============================================================================
