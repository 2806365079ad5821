------------------------------- MODULE Packet -------------------------------
(* The interpret layer of packet.c: what every whole frame of the capture    *)
(* stream, and every record the session adds, does to the struct packet and  *)
(* to the pcapng output.  The parts of the C code that run within one frame  *)
(* are operators from a packet state to the next; a frame is one action.     *)
(*                                                                           *)
(* Time is counted in units of half a keep-alive; the constants of the code  *)
(* (keep-alive window, counter range, update interval, 32-bit deltas) are    *)
(* scaled down, and the conversion of ticks to ns with them.  Frames are     *)
(* numbered; of their content only the class of the PID and the error flags  *)
(* matter.                                                                   *)
EXTENDS Integers, Sequences

CONSTANTS Cases,         \* the packet_opts to check; see CaseType
          LineStates,    \* line states; SE0 and J3 among them
          Speeds,        \* speeds the status frames report
          TsRange,       \* 0x100000: the range of the counter in a frame header
          Clocks,        \* bound: HEADER_TS_OVERFLOW and the counter in a header
          FoldBufSize,   \* FOLD_BUF_SIZE
          FoldLimitHS, FoldLimitLSFS,
          KeepMin, KeepMax,   \* MIN_KEEPALIVE_DURATION, MAX_KEEPALIVE_DURATION
          UpdateInterval,     \* UPDATE_INTERVAL
          IntRange,      \* 2^32: deltas are truncated to an int
          MaxTs          \* bound: the largest time stamp

Triggers == {"disabled", "low", "high", "falling", "rising"}

(* The options, and with them what the device may report: pairs of VBUS and  *)
(* trigger inputs, sets of error flags of a data header, and the number of   *)
(* frames in a behaviour.                                                    *)
CaseType(c) == /\ c.gen \in {1, 2}         \* the device: see Gen1Capture
               /\ c.fold \in BOOLEAN /\ c.exclude \in BOOLEAN /\ c.trigger \in Triggers
               /\ c.speed \in {"Reset", "LS", "FS", "HS"} /\ c.limit \in Nat
               /\ c.inputs \subseteq {0, 1} \X {0, 1}
               /\ c.flags \subseteq SUBSET {"overflow", "crc", "data"}
               /\ c.frames \in Nat

ASSUME ConstantsAssumption ==
    /\ \A c \in Cases : CaseType(c)
    /\ FoldBufSize \in Nat \ {0} /\ FoldLimitHS \in Nat /\ FoldLimitLSFS \in Nat
    /\ TsRange \in Nat \ {0} /\ Clocks \subseteq {0, 1} \X (0 .. TsRange - 1)
    /\ KeepMin \in Nat /\ KeepMax \in Nat
    /\ UpdateInterval \in Nat /\ IntRange \in Nat
    /\ KeepMax <= UpdateInterval /\ UpdateInterval + TsRange <= IntRange

Pids == {"SOF", "IN", "DATA"}    \* PID_SOF; PID_IN and PID_NAK; any other

VARIABLES opts,     \* packet_opts, and the inputs of this behaviour
          p,        \* struct packet
          o,        \* the output, as far as the properties need it
          announced,
          frames    \* frames received

vars == <<opts, p, o, announced, frames>>

(* packet_start.  "none" stands for the -1 of the code; payload says that a  *)
(* data header was read and its payload is still to come (~capture_header).  *)
PacketStart(limit) ==
    [done |-> FALSE, limit |-> limit, ls |-> "none", vbus |-> -1, trigger |-> -1,
     speed |-> "none", enabled |-> FALSE, tsInt |-> 0, ts |-> 0, lastTs |-> 0,
     foldBuf |-> <<>>, foldCount |-> 0, savedLs |-> "none", savedTs |-> 0,
     payload |-> FALSE, flags |-> {}]

(* The output: the last time stamp, how far time stamps may go back, and     *)
(* whether they never went back further, the last frame written and whether  *)
(* frames came in their order, the (micro)frames accepted and neither        *)
(* written nor reported as folded, and whether every keep-alive reported was *)
(* a short one.  The rest is for the older device: the frame that the last   *)
(* record is about and whether records of all kinds came in the order of     *)
(* what they are about, and the frames of the saved line state and of the    *)
(* frame last counted as folded.                                             *)
Output == [lastTs |-> 0, slack |-> 0, ordered |-> TRUE, lastFrame |-> 0, inOrder |-> TRUE,
           owed |-> 0, keepOk |-> TRUE,
           lastCause |-> 0, causal |-> TRUE, savedCause |-> 0, foldCause |-> 0]

-----------------------------------------------------------------------------
(* A state s is [p |-> struct packet, o |-> output].                         *)

EffectiveSpeed(s) == IF /\ s.p.speed = "LS"
                        /\ opts.speed \notin {"Reset", "LS"}
                     THEN opts.speed ELSE s.p.speed

(* pcapng_write_*: a record with this time stamp is appended.                *)
Emit(s, ts) == [s EXCEPT !.p.lastTs = ts,
                         !.o.ordered = s.o.ordered /\ s.o.lastTs <= ts + s.o.slack,
                         !.o.lastTs = ts]

(* line_state_event: the saved line state, if there is one, is written.      *)
LineStateEvent(s) ==
    IF s.p.savedLs = "none" THEN s
    ELSE LET t == [s EXCEPT !.p.savedLs = "none"]
         IN IF opts.exclude THEN t ELSE Emit(t, s.p.savedTs)

(* capture_info: an info record, after the line state that precedes it.      *)
CaptureInfo(s, ts) == Emit(LineStateEvent(s), ts)

(* write_packet, and write_keepalive: frame f goes to the output.            *)
Put(s, ts, f) == [Emit(s, ts) EXCEPT
                    !.o.inOrder = s.o.inOrder /\ s.o.lastFrame < f.id,
                    !.o.lastFrame = f.id,
                    !.o.owed = s.o.owed - (IF f.head THEN 1 ELSE 0)]

WritePacket(s, ts, f)    == Put(s, ts, f)
WriteKeepalive(s, ts, f) == Put(LineStateEvent(s), ts, f)

TimeoutEvent(s) == IF s.p.enabled THEN CaptureInfo(s, s.p.ts) ELSE s

(* stop_folding: the buffered frames with time stamps that do not go back,   *)
(* then the record that tells how many were folded.                          *)
PutFoldedUnclamped(s, e) == IF e.keep THEN WriteKeepalive(s, e.ts, e) ELSE WritePacket(s, e.ts, e)

PutFolded(s, e) ==
    LET ts == IF e.ts < s.p.lastTs THEN s.p.lastTs ELSE e.ts
    IN IF e.keep THEN WriteKeepalive(s, ts, e) ELSE WritePacket(s, ts, e)

(* The buffered frames, from the first to the last.                          *)
PutAll(s, buf) ==
    LET after[i \in 0 .. Len(buf)] == IF i = 0 THEN s ELSE PutFolded(after[i - 1], buf[i])
    IN after[Len(buf)]

StopFoldingKeepsCount(s) ==
    IF s.p.foldCount = 0 /\ s.p.foldBuf = <<>> THEN s
    ELSE LET emptied == [s EXCEPT !.p.foldBuf = <<>>]
             put == PutAll(emptied, s.p.foldBuf)
         IN IF s.p.foldCount = 0 THEN put
            ELSE [CaptureInfo(put, s.p.ts) EXCEPT
                    !.o.owed = @ - s.p.foldCount]

StopFolding(s) ==
    IF s.p.foldCount = 0 /\ s.p.foldBuf = <<>> THEN s
    ELSE LET emptied == [s EXCEPT !.p.foldCount = 0, !.p.foldBuf = <<>>]
             put == PutAll(emptied, s.p.foldBuf)
         IN IF s.p.foldCount = 0 THEN put
            ELSE [CaptureInfo(put, s.p.ts) EXCEPT
                    !.o.owed = @ - s.p.foldCount]

(* fold_packet and fold_keepalive.                                           *)
FoldFrame(s, f) == [s EXCEPT !.p.foldBuf = Append(s.p.foldBuf, f)]

(* A new (micro)frame while one is buffered: the buffered one was empty and  *)
(* is only counted.                                                          *)
CountAndFold(s, f, limit) ==
    LET counted == [s EXCEPT !.p.foldCount = s.p.foldCount + 1, !.p.foldBuf = <<>>]
    IN FoldFrame(IF counted.p.foldCount = limit THEN StopFolding(counted) ELSE counted, f)

(* check_capture_limit.  All negative values of the s64 counter, which is    *)
(* unlimited then, are one.                                                  *)
CheckCaptureLimit(s) ==
    LET left == IF s.p.limit > 0 THEN s.p.limit - 1 ELSE -1
        t == [s EXCEPT !.p.limit = left]
    IN IF left = 0 THEN [CaptureInfo(t, s.p.ts) EXCEPT !.p.done = TRUE] ELSE t

(* The number of the frame being interpreted: a header is not counted yet.   *)
This == IF p.payload THEN frames ELSE frames + 1

(* The entry of the fold buffer, or the record, that stands for this frame.  *)
Frame(s, ts, head, keep) == [id |-> This, ts |-> ts, head |-> head, keep |-> keep]

(* keepalive_event.                                                          *)
KeepaliveEvent(s, ts) ==
    IF ~s.p.enabled THEN s
    ELSE LET f == Frame(s, ts, TRUE, TRUE)
             t == [s EXCEPT !.o.owed = @ + 1]
         IN CheckCaptureLimit(
              IF ~opts.fold THEN WriteKeepalive(t, ts, f)
              ELSE IF s.p.foldBuf # <<>> THEN CountAndFold(t, f, FoldLimitLSFS)
              ELSE FoldFrame(t, f))

(* data_event, once the payload is complete.                                 *)
FoldDataNoFlush(s, f, pid) ==
    LET sof == pid = "SOF" /\ EffectiveSpeed(s) # "LS"
        limit == IF EffectiveSpeed(s) = "HS" THEN FoldLimitHS ELSE FoldLimitLSFS
    IN IF s.p.foldBuf # <<>>
       THEN IF pid = "IN" THEN FoldFrame(s, f)
            ELSE IF sof THEN CountAndFold(s, f, limit)
            ELSE WritePacket(s, s.p.ts, f)
       ELSE IF sof THEN FoldFrame(s, f) ELSE WritePacket(s, s.p.ts, f)

FoldData(s, f, pid) ==
    LET sof == pid = "SOF" /\ EffectiveSpeed(s) # "LS"
        limit == IF EffectiveSpeed(s) = "HS" THEN FoldLimitHS ELSE FoldLimitLSFS
    IN IF s.p.foldBuf # <<>>
       THEN IF pid = "IN" THEN FoldFrame(s, f)
            ELSE IF sof THEN CountAndFold(s, f, limit)
            ELSE WritePacket(StopFolding(s), s.p.ts, f)
       ELSE IF sof THEN FoldFrame(s, f) ELSE WritePacket(s, s.p.ts, f)

DataEventUngated(s, pid) ==
    LET head == pid = "SOF" /\ EffectiveSpeed(s) # "LS"
        f  == Frame(s, s.p.ts, head, FALSE)
        s1 == LineStateEvent([s EXCEPT !.o.owed = @ + (IF head THEN 1 ELSE 0)])
        s2 == IF s.p.flags # {} \/ Len(s.p.foldBuf) = FoldBufSize
              THEN StopFolding(s1) ELSE s1
        s3 == IF "overflow" \in s.p.flags THEN CaptureInfo(s2, s.p.ts) ELSE s2
        s4 == IF "data" \in s.p.flags THEN CaptureInfo(s3, s.p.ts) ELSE s3
    IN CheckCaptureLimit(IF s.p.flags \ {"overflow"} # {} \/ ~opts.fold
                         THEN WritePacket(s4, s.p.ts, f)
                         ELSE FoldData(s4, f, pid))

DataEvent(s, pid) ==
    IF ~s.p.enabled THEN s
    ELSE LET head == pid = "SOF" /\ EffectiveSpeed(s) # "LS"
             f  == Frame(s, s.p.ts, head, FALSE)
             s1 == LineStateEvent([s EXCEPT !.o.owed = @ + (IF head THEN 1 ELSE 0)])
             s2 == IF s.p.flags # {} \/ Len(s.p.foldBuf) = FoldBufSize
                   THEN StopFolding(s1) ELSE s1
             s3 == IF "overflow" \in s.p.flags THEN CaptureInfo(s2, s.p.ts) ELSE s2
             s4 == IF "data" \in s.p.flags THEN CaptureInfo(s3, s.p.ts) ELSE s3
         IN CheckCaptureLimit(IF s.p.flags \ {"overflow"} # {} \/ ~opts.fold
                              THEN WritePacket(s4, s.p.ts, f)
                              ELSE FoldData(s4, f, pid))

(* status_event, one part for each of the four fields.                       *)
Gate(s, trigger) ==
    CASE opts.trigger = "disabled" -> TRUE
      [] opts.trigger = "low"      -> trigger = 0
      [] opts.trigger = "high"     -> trigger = 1
      [] opts.trigger = "falling"  -> s.p.enabled \/ (trigger = 0 /\ s.p.trigger = 1)
      [] opts.trigger = "rising"   -> s.p.enabled \/ (trigger = 1 /\ s.p.trigger = 0)

TriggerChange(s, trigger) ==
    IF s.p.trigger = trigger THEN s
    ELSE LET t == CaptureInfo([s EXCEPT !.p.enabled = Gate(s, trigger),
                                        !.p.trigger = trigger], s.p.ts)
         IN IF t.p.enabled # s.p.enabled THEN CaptureInfo(t, s.p.ts) ELSE t

VbusChange(s, vbus) ==
    IF s.p.vbus = vbus THEN s ELSE CaptureInfo([s EXCEPT !.p.vbus = vbus], s.p.ts)

SpeedChange(s, speed) ==
    IF s.p.speed = speed THEN s
    ELSE LET t == [s EXCEPT !.p.speed = speed]
         IN IF s.p.enabled THEN CaptureInfo(t, s.p.ts) ELSE t

LineChange(s, ls) ==
    IF s.p.ls = ls THEN s
    ELSE LET t == [s EXCEPT !.p.ls = ls]
             span == s.p.ts - s.p.savedTs
             delta == span % IntRange            \* (int)delta
         IN IF /\ EffectiveSpeed(s) = "LS" /\ s.p.savedLs = "SE0" /\ ls = "J3"
               /\ KeepMin < delta /\ delta < KeepMax
            THEN KeepaliveEvent([t EXCEPT !.p.savedLs = "none",
                                  !.o.keepOk = @ /\ (s.p.enabled => KeepMin < span /\ span < KeepMax)],
                                s.p.savedTs)
            ELSE [LineStateEvent(t) EXCEPT !.p.savedLs = ls, !.p.savedTs = s.p.ts]

(* The time stamp of a frame header: the counter, extended by the overflow   *)
(* flag.  Nothing keeps it from going back, within one range of the counter; *)
(* once it did, the output may go back as far.                               *)
Stamp(c) ==
    LET int == p.tsInt + c[1] * TsRange
        ts  == int + c[2]
    IN [p |-> [p EXCEPT !.tsInt = int, !.ts = ts],
        o |-> [o EXCEPT !.slack = IF ts < p.ts THEN TsRange - 1 ELSE @]]

(* Then the periodic update; the comparison is signed.                       *)
TickNoUpdate(c) == Stamp(c)

Tick(c) ==
    LET s == Stamp(c)
    IN IF s.p.ts - s.p.lastTs > UpdateInterval THEN TimeoutEvent(s) ELSE s

-----------------------------------------------------------------------------
Init == /\ opts \in Cases
        /\ p = PacketStart(opts.limit)
        /\ o = Output
        /\ announced = FALSE
        /\ frames = 0

Becomes(s) == p' = s.p /\ o' = s.o

(* A frame header arrives: packet_feed ignores it once the capture is done.  *)
HeaderArrives == /\ ~p.done /\ ~p.payload /\ frames < opts.frames
                 /\ frames' = frames + 1
                 /\ UNCHANGED <<opts, announced>>

StatusFrame ==
    /\ HeaderArrives
    /\ \E c \in Clocks, ls \in LineStates, in \in opts.inputs, speed \in Speeds :
          /\ Stamp(c).p.ts <= MaxTs
          /\ Becomes(LineChange(SpeedChange(VbusChange(TriggerChange(
                       Tick(c), in[2]), in[1]), speed), ls))

(* The flags are taken from the header also when the frame has no payload,   *)
(* and then nothing more becomes of it.                                      *)
DataHeader ==
    /\ HeaderArrives
    /\ \E c \in Clocks, payload \in BOOLEAN, flags \in opts.flags :
          /\ Stamp(c).p.ts <= MaxTs
          /\ Becomes([Tick(c) EXCEPT !.p.payload = payload, !.p.flags = flags])

(* A header whose size is out of range: reported, and the frame is dropped.  *)
BadHeader ==
    /\ HeaderArrives
    /\ \E c \in Clocks : /\ Stamp(c).p.ts <= MaxTs
                         /\ LET s == Tick(c) IN Becomes(CaptureInfo(s, s.p.ts))

(* The payload may come in a later block: other steps may come between.      *)
DataPayload ==
    /\ ~p.done /\ p.payload
    /\ \E pid \in Pids :
          Becomes(DataEvent([p |-> [p EXCEPT !.payload = FALSE], o |-> o], pid))
    /\ UNCHANGED <<opts, announced, frames>>

(* packet_announce: the session starts.                                      *)
Announce == /\ ~announced
            /\ announced' = TRUE
            /\ LET s == [p |-> [p EXCEPT !.done = FALSE], o |-> o]
               IN IF opts.trigger = "disabled"
                  THEN Becomes([CaptureInfo(s, 0) EXCEPT !.p.enabled = TRUE,
                                                         !.o.ordered = o.ordered])
                  ELSE Becomes(CaptureInfo(s, p.ts))
            /\ UNCHANGED <<opts, frames>>

(* packet_rsync, packet_info and packet_stop_info: a record of the session.  *)
SessionInfo == /\ announced
               /\ Becomes(CaptureInfo([p |-> p, o |-> o], p.ts))
               /\ UNCHANGED <<opts, announced, frames>>

Next == StatusFrame \/ DataHeader \/ BadHeader \/ DataPayload \/ Announce \/ SessionInfo

Spec == Init /\ [][Next]_vars

-----------------------------------------------------------------------------
(* The comment of stop_folding: what is written does not go back in time,    *)
(* although line states and folded frames are written late, with the time    *)
(* stamps they were received with.  That is as long as the frames' own time  *)
(* stamps do not go back, against which only the folded frames are clamped:  *)
(* from then on no record is earlier than the one before it by a whole range *)
(* of the counter.  The one exception is "Starting capture", which has time  *)
(* stamp 0 whatever came before it.  The older device makes no such promise. *)
MonotoneOutput == opts.gen = 2 => o.ordered

(* The comment of capture_info: frames are written in the order received;    *)
(* the folded ones always before a frame that ends the folding.              *)
FramesInOrder == o.inOrder

(* Folding hides no frame: every start of frame and keep-alive accepted is   *)
(* written, reported in a "Folded" record, or still counted or buffered; and *)
(* the buffer, to which fold_packet appends without a check, has the room.   *)
FoldConservation == /\ o.owed = p.foldCount + (IF p.foldBuf = <<>> THEN 0 ELSE 1)
                    /\ Len(p.foldBuf) <= FoldBufSize

(* The width of a keep-alive is compared as a 32-bit int, which has wrapped  *)
(* after 4 s of SE0, or when the time stamp went back: what is reported was  *)
(* short nevertheless, since the periodic update would have written the line *)
(* state by then.                                                            *)
KeepaliveIsShort == o.keepOk

(* The gate: for a level trigger the capture is enabled exactly while the    *)
(* last trigger input reported has that level, whatever comes between, with  *)
(* no trigger it is enabled from the announcement on, and an edge trigger    *)
(* opens it for good.  No frame is written while the capture waits for its   *)
(* trigger, but for those the older device still holds when the gate shuts.  *)
GatedOutput ==
    [][/\ opts.trigger = "low"  => p'.enabled = (p'.trigger = 0)
       /\ opts.trigger = "high" => p'.enabled = (p'.trigger = 1)
       /\ opts.trigger = "disabled" /\ announced' => p'.enabled
       /\ opts.trigger \in {"falling", "rising"} /\ p.enabled => p'.enabled
       /\ o'.lastFrame # o.lastFrame => p'.enabled \/ (opts.gen = 1 /\ p.enabled)]_vars
=============================================================================
