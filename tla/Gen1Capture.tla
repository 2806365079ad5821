---------------------------- MODULE Gen1Capture -----------------------------
(* The interpreter of the older device, gen1/capture.c, from which packet.c  *)
(* was made.  Its frames and its static variables are those of Packet, which *)
(* this module extends, and so are the parts that packet.c left as they      *)
(* were: the gate, the fold buffer, the entries in it.  What differs is      *)
(* defined here: an info record always ends the folding, the count of folded *)
(* frames is written before the frames that are still buffered, their time   *)
(* stamps are left as they are, the speed is the one detected, and the limit *)
(* and a broken header end the process.                                      *)
EXTENDS Packet

(* A record joins the output; cause is the number of the frame it is about.  *)
Record(s, ts, cause) ==
    [Emit(s, ts) EXCEPT !.o.causal = @ /\ s.o.lastCause <= cause,
                        !.o.lastCause = cause]

(* write_packet, and the Keep-alive record of write_keepalive.               *)
G1Put(s, ts, f) == Put(Record(s, ts, f.id), ts, f)

(* line_state_event and capture_info when nothing is folded.                 *)
G1SavedLine(s) ==
    IF s.p.savedLs = "none" THEN s
    ELSE LET t == [s EXCEPT !.p.savedLs = "none"]
         IN IF opts.exclude THEN t ELSE Record(t, s.p.savedTs, s.o.savedCause)

G1InfoUnfolded(s, ts, cause) == Record(G1SavedLine(s), ts, cause)

(* stop_folding: the record with the count, then the buffered frames.        *)
G1PutFolded(s, e) == IF e.keep THEN G1Put(G1SavedLine(s), e.ts, e) ELSE G1Put(s, e.ts, e)

G1PutAll(s, buf) ==
    LET after[i \in 0 .. Len(buf)] == IF i = 0 THEN s ELSE G1PutFolded(after[i - 1], buf[i])
    IN after[Len(buf)]

G1StopFolding(s) ==
    IF s.p.foldCount = 0 /\ s.p.foldBuf = <<>> THEN s
    ELSE LET emptied == [s EXCEPT !.p.foldCount = 0, !.p.foldBuf = <<>>, !.o.foldCause = 0]
             told == IF s.p.foldCount = 0 THEN emptied
                     ELSE [G1InfoUnfolded(emptied, s.p.ts, s.o.foldCause) EXCEPT
                             !.o.owed = @ - s.p.foldCount]
         IN G1PutAll(told, s.p.foldBuf)

(* line_state_event: the saved line state becomes an info record of its own, *)
(* and so ends the folding.                                                  *)
G1LineStateEvent(s) ==
    IF s.p.savedLs = "none" THEN s
    ELSE LET t == [s EXCEPT !.p.savedLs = "none"]
         IN IF opts.exclude THEN t
            ELSE Record(G1StopFolding(t), s.p.savedTs, s.o.savedCause)

G1CaptureInfoPlain(s, ts) == Record(G1LineStateEvent(s), ts, This)

G1CaptureInfo(s, ts) == Record(G1StopFolding(G1LineStateEvent(s)), ts, This)

G1TimeoutEvent(s) == IF s.p.enabled THEN G1CaptureInfo(s, s.p.ts) ELSE s

(* A new (micro)frame while one is buffered.                                 *)
G1CountAndFold(s, f, limit) ==
    LET counted == [s EXCEPT !.p.foldCount = @ + 1, !.p.foldBuf = <<>>,
                             !.o.foldCause = Head(s.p.foldBuf).id]
    IN FoldFrame(IF counted.p.foldCount = limit THEN G1StopFolding(counted) ELSE counted, f)

(* check_capture_limit: the process ends in the callback.                    *)
G1CheckCaptureLimitQuiet(s) ==
    LET left == IF s.p.limit > 0 THEN s.p.limit - 1 ELSE -1
    IN [s EXCEPT !.p.limit = left, !.p.done = left = 0]

G1CheckCaptureLimit(s) ==
    LET left == IF s.p.limit > 0 THEN s.p.limit - 1 ELSE -1
        t == [s EXCEPT !.p.limit = left]
    IN IF left = 0 THEN [G1CaptureInfo(t, s.p.ts) EXCEPT !.p.done = TRUE] ELSE t

G1KeepaliveEvent(s, ts) ==
    IF ~s.p.enabled THEN s
    ELSE LET f == Frame(s, ts, TRUE, TRUE)
             t == [s EXCEPT !.o.owed = @ + 1]
         IN G1CheckCaptureLimit(
              IF ~opts.fold THEN G1Put(G1StopFolding(G1LineStateEvent(t)), ts, f)
              ELSE IF s.p.foldBuf # <<>> THEN G1CountAndFold(t, f, FoldLimitLSFS)
              ELSE FoldFrame(t, f))

(* data_event.                                                               *)
G1FoldData(s, f, pid) ==
    LET sof == pid = "SOF" /\ s.p.speed # "LS"
        limit == IF s.p.speed = "HS" THEN FoldLimitHS ELSE FoldLimitLSFS
    IN IF s.p.foldBuf # <<>>
       THEN IF pid = "IN" THEN FoldFrame(s, f)
            ELSE IF sof THEN G1CountAndFold(s, f, limit)
            ELSE G1Put(G1StopFolding(s), s.p.ts, f)
       ELSE IF sof THEN FoldFrame(s, f) ELSE G1Put(s, s.p.ts, f)

G1DataEvent(s, pid) ==
    IF ~s.p.enabled THEN s
    ELSE LET head == pid = "SOF" /\ s.p.speed # "LS"
             f  == Frame(s, s.p.ts, head, FALSE)
             s1 == G1LineStateEvent([s EXCEPT !.o.owed = @ + (IF head THEN 1 ELSE 0)])
             s2 == IF s.p.flags # {} \/ Len(s1.p.foldBuf) = FoldBufSize
                   THEN G1StopFolding(s1) ELSE s1
             s3 == IF "overflow" \in s.p.flags THEN G1CaptureInfo(s2, s.p.ts) ELSE s2
             s4 == IF "data" \in s.p.flags THEN G1CaptureInfo(s3, s.p.ts) ELSE s3
         IN G1CheckCaptureLimit(IF s.p.flags \ {"overflow"} # {} \/ ~opts.fold
                                THEN G1Put(s4, s.p.ts, f)
                                ELSE G1FoldData(s4, f, pid))

(* status_event.                                                             *)
G1TriggerChange(s, trigger) ==
    IF s.p.trigger = trigger THEN s
    ELSE LET t == G1CaptureInfo([s EXCEPT !.p.enabled = Gate(s, trigger),
                                          !.p.trigger = trigger], s.p.ts)
         IN IF t.p.enabled # s.p.enabled THEN G1CaptureInfo(t, s.p.ts) ELSE t

G1VbusChange(s, vbus) ==
    IF s.p.vbus = vbus THEN s ELSE G1CaptureInfo([s EXCEPT !.p.vbus = vbus], s.p.ts)

G1SpeedChange(s, speed) ==
    IF s.p.speed = speed THEN s
    ELSE LET t == [s EXCEPT !.p.speed = speed]
         IN IF s.p.enabled THEN G1CaptureInfo(t, s.p.ts) ELSE t

(* The width of a keep-alive is compared in 64 bits here.                    *)
G1LineChange(s, ls) ==
    IF s.p.ls = ls THEN s
    ELSE LET t == [s EXCEPT !.p.ls = ls]
             delta == s.p.ts - s.p.savedTs
         IN IF /\ s.p.speed = "LS" /\ s.p.savedLs = "SE0" /\ ls = "J3"
               /\ KeepMin < delta /\ delta < KeepMax
            THEN G1KeepaliveEvent([t EXCEPT !.p.savedLs = "none"], s.p.savedTs)
            ELSE [G1LineStateEvent(t) EXCEPT !.p.savedLs = ls, !.p.savedTs = s.p.ts,
                                             !.o.savedCause = This]

(* The comparison is unsigned: a time stamp before the last one written is   *)
(* taken for a long gap.                                                     *)
G1Tick(c) ==
    LET s == Stamp(c)
    IN IF s.p.ts < s.p.lastTs \/ s.p.ts - s.p.lastTs > UpdateInterval
       THEN G1TimeoutEvent(s) ELSE s

-----------------------------------------------------------------------------
(* capture_start writes its record before the first transfer is submitted.   *)
G1Start == /\ ~announced
           /\ announced' = TRUE
           /\ Becomes([G1CaptureInfo([p |-> p, o |-> o], 0) EXCEPT
                         !.p.enabled = opts.trigger = "disabled"])
           /\ UNCHANGED <<opts, frames>>

(* capture_sm, at the end of a header.                                       *)
G1HeaderArrives == /\ announced /\ ~p.done /\ ~p.payload /\ frames < opts.frames
                   /\ frames' = frames + 1
                   /\ UNCHANGED <<opts, announced>>

G1StatusFrame ==
    /\ G1HeaderArrives
    /\ \E c \in Clocks, ls \in LineStates, in \in opts.inputs, speed \in Speeds :
          /\ Stamp(c).p.ts <= MaxTs
          /\ Becomes(G1LineChange(G1SpeedChange(G1VbusChange(G1TriggerChange(
                       G1Tick(c), in[2]), in[1]), speed), ls))

G1DataHeader ==
    /\ G1HeaderArrives
    /\ \E c \in Clocks, payload \in BOOLEAN, flags \in opts.flags :
          /\ Stamp(c).p.ts <= MaxTs
          /\ Becomes([G1Tick(c) EXCEPT !.p.payload = payload, !.p.flags = flags])

(* check_header and check_data_size: the process ends.                       *)
G1BadHeader ==
    /\ G1HeaderArrives
    /\ \E s \in {[p |-> p, o |-> o]} \cup
                {G1Tick(c) : c \in {e \in Clocks : Stamp(e).p.ts <= MaxTs}} :
          Becomes([G1CaptureInfo(s, s.p.ts) EXCEPT !.p.done = TRUE])

G1DataPayload ==
    /\ ~p.done /\ p.payload
    /\ \E pid \in Pids :
          Becomes(G1DataEvent([p |-> [p EXCEPT !.payload = FALSE], o |-> o], pid))
    /\ UNCHANGED <<opts, announced, frames>>

G1Next == G1Start \/ G1StatusFrame \/ G1DataHeader \/ G1BadHeader \/ G1DataPayload

(* The interpreter of the device at hand.                                    *)
AnyNext == (opts.gen = 2 /\ Next) \/ (opts.gen = 1 /\ G1Next)

AnySpec == Init /\ [][AnyNext]_vars

-----------------------------------------------------------------------------
(* capture_info of the older device writes the saved line state and ends the *)
(* folding before its own record, and so do the frames: records of all kinds *)
(* come in the order in which what they are about was received, in spite of  *)
(* everything that is held back.                                             *)
RecordsInOrder == opts.gen = 1 => o.causal

(* check_capture_limit and desync_error of the older device end the process  *)
(* in the middle of a callback, and no one closes the capture after them:    *)
(* nothing that was accepted is held back then.                              *)
ExitWritesAll == opts.gen = 1 /\ p.done =>
                     p.foldBuf = <<>> /\ p.foldCount = 0 /\ o.owed = 0 /\ p.savedLs = "none"
=============================================================================
