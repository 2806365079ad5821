----------------------------- MODULE FrameWalk ------------------------------
(* How capture_sm finds the frames in the bytes of the capture stream, in    *)
(* packet.c and in gen1/capture.c.  A frame is a header of StatusHeader or   *)
(* DataHeader bytes and the payload whose size the header gives; nothing     *)
(* marks the start of a frame, so a header that is misread moves every later *)
(* boundary.  Byte 0 tells status from data and carries a toggle that        *)
(* alternates from frame to frame and a zero bit; the size is spread over    *)
(* the two bytes after it.  Headers are scaled down and keep their order:    *)
(* the data header is longer than the status header.                         *)
EXTENDS Integers, Sequences

CONSTANTS StatusHeader, DataHeader,   \* STATUS_HEADER_SIZE, DATA_HEADER_SIZE
          MaxDataSize,                \* MAX_DATA_SIZE
          MaxFrames, MaxGlitches      \* bounds on what is sent

ASSUME SizesAssumption ==
    /\ StatusHeader \in Nat \ {0, 1} /\ DataHeader \in Nat /\ MaxDataSize \in Nat
    /\ StatusHeader < DataHeader /\ DataHeader <= MaxDataSize
    /\ MaxDataSize <= 7           \* the size field can hold it
    /\ MaxFrames \in Nat /\ MaxGlitches \in Nat

VARIABLES gen,     \* the generation of the device
          wire,    \* the bytes of the current frame that are still to come
          frame,   \* the kind of the current frame
          toggle,  \* the toggle of the next frame
          w,       \* the walk: the variables of capture_sm
          h        \* history: frames sent, interpreted, broken; what went wrong

vars == <<gen, wire, frame, toggle, w, h>>

(* A byte is a number.  As byte 0 it tells data from status, and holds the   *)
(* toggle and the zero bit; its two low bits are what the size is made of.   *)
IsStatus(b) == b < 16
ToggleOf(b) == (b \div 8) % 2
ZeroOf(b)   == (b \div 4) % 2
HeaderByte(status, tg, zero) == (IF status THEN 0 ELSE 16) + 8 * tg + 4 * zero

(* A byte further on, with v in its low bits: read as byte 0 it may be       *)
(* anything.                                                                 *)
Byte(v) == HeaderByte(v < 2, v % 2, 0) + v

(* The size field: two bits of the byte after byte 0, one of the next.       *)
SizeOf(data) == 2 * (data[2] % 4) + (data[3] % 2)

Start == [data |-> [i \in 1 .. MaxDataSize |-> Byte(0)], ptr |-> 0, size |-> 0,
          header |-> TRUE, status |-> FALSE, toggle |-> 0, exited |-> FALSE]

Init == /\ gen \in {1, 2}
        /\ wire = <<>> /\ frame = "none" /\ toggle = 0
        /\ w = Start
        /\ h = [sent |-> 0, seen |-> 0, glitches |-> 0, unsized |-> 0,
                phantom |-> FALSE, misread |-> FALSE]

-----------------------------------------------------------------------------
(* The device.  A glitch is one of those the comments of packet.c name: it   *)
(* breaks the toggle, the zero bit or the size of one header, or frames are  *)
(* lost as a whole, which only the toggle of the next one shows.             *)
Glitches == {"none", "toggle", "zero"}

Sends(kind, bytes, glitch) ==
    /\ wire = <<>> /\ ~w.exited /\ h.sent < MaxFrames
    /\ h.glitches + (IF glitch = "none" THEN 0 ELSE 1) <= MaxGlitches
    /\ frame' = kind
    /\ wire' = <<HeaderByte(kind = "status",
                            IF glitch = "toggle" THEN 1 - toggle ELSE toggle,
                            IF glitch = "zero" THEN 1 ELSE 0)>> \o bytes
    /\ toggle' = 1 - toggle
    /\ h' = [h EXCEPT !.sent = @ + 1,
                      !.glitches = @ + (IF glitch = "none" THEN 0 ELSE 1),
                      !.unsized = @ + (IF glitch = "size" THEN 1 ELSE 0)]
    /\ UNCHANGED <<gen, w>>

SendStatus == \E v \in 0 .. 3, glitch \in Glitches :
    Sends("status", [i \in 1 .. StatusHeader - 1 |-> Byte(v)], glitch)

SendData == \E size \in DataHeader .. MaxDataSize, v \in 0 .. 3, glitch \in Glitches :
    Sends("data", <<Byte(size \div 2), Byte(size % 2)>> \o [i \in 1 .. size - 3 |-> Byte(v)], glitch)

(* A size that is out of range comes with a header and nothing else.         *)
SendUnsized == \E size \in (0 .. DataHeader - 1) \cup (MaxDataSize + 1 .. 7) :
    Sends("data", <<Byte(size \div 2), Byte(size % 2)>> \o [i \in 1 .. DataHeader - 3 |-> Byte(0)],
          "size")

LoseFrame == /\ wire = <<>> /\ ~w.exited /\ h.glitches < MaxGlitches
             /\ toggle' = 1 - toggle
             /\ h' = [h EXCEPT !.glitches = @ + 1]
             /\ UNCHANGED <<gen, wire, frame, w>>

-----------------------------------------------------------------------------
(* desync_error: the older device ends the process; packet.c resets the      *)
(* assembler and returns into capture_sm.                                    *)
DesyncErrorKeepsPtr(s) ==
    IF gen = 1 THEN [s EXCEPT !.exited = TRUE]
    ELSE [s EXCEPT !.size = 0, !.header = TRUE, !.status = FALSE]

DesyncErrorResumes(s) ==
    [s EXCEPT !.size = 0, !.ptr = 0, !.header = TRUE, !.status = FALSE]

DesyncError(s) ==
    IF gen = 1 THEN [s EXCEPT !.exited = TRUE]
    ELSE [s EXCEPT !.size = 0, !.ptr = 0, !.header = TRUE, !.status = FALSE]

Sound(s) == ToggleOf(s.data[1]) = s.toggle /\ ZeroOf(s.data[1]) = 0

CheckHeader(s) == IF Sound(s) THEN s ELSE DesyncError(s)

(* The end of a header, once it is checked.                                  *)
HeaderDone(s) ==
    LET t == [s EXCEPT !.toggle = 1 - ToggleOf(s.data[1])]
        size == SizeOf(s.data)
    IN IF s.exited THEN s
       ELSE IF s.status THEN [t EXCEPT !.ptr = 0]
       ELSE IF size < DataHeader \/ size > MaxDataSize THEN DesyncError(t)
       ELSE [t EXCEPT !.size = size - DataHeader, !.header = size = DataHeader, !.ptr = 0]

(* capture_sm.                                                               *)
Take(s, b) ==
    LET first == s.header /\ s.ptr = 0
        begun == IF ~first THEN s
                 ELSE [s EXCEPT !.status = IsStatus(b),
                                !.size = IF IsStatus(b) THEN StatusHeader ELSE DataHeader]
    IN [begun EXCEPT !.data[s.ptr + 1] = b, !.ptr = s.ptr + 1]

Walk(s, b) ==
    LET t == Take(s, b)
    IN IF t.ptr < t.size THEN t
       ELSE IF t.header THEN HeaderDone(CheckHeader(t))
       ELSE [t EXCEPT !.header = TRUE, !.ptr = 0]          \* data_event

(* What the byte makes the interpreter act on: a status frame, or a data     *)
(* frame once it is complete.                                                *)
Event(s, b) ==
    LET t == Take(s, b)
        c == CheckHeader(t)
    IN IF t.ptr < t.size THEN "none"
       ELSE IF ~t.header THEN "data"
       ELSE IF c.exited THEN "none"
       ELSE IF c.status THEN "status"
       ELSE IF SizeOf(t.data) = DataHeader THEN "data" ELSE "none"

WalkByte ==
    /\ wire # <<>> /\ ~w.exited
    /\ LET b == Head(wire)
           t == Take(w, b)
           event == Event(w, b)
       IN /\ w' = Walk(w, b)
          /\ wire' = Tail(wire)
          /\ h' = [h EXCEPT !.seen = @ + (IF event = "none" THEN 0 ELSE 1),
                            !.phantom = @ \/ (event # "none" /\ (event # frame \/ Tail(wire) # <<>>)),
                            !.misread = @ \/ (/\ t.ptr >= t.size /\ t.header
                                              /\ t.status /\ ~Sound(t))]
    /\ UNCHANGED <<gen, frame, toggle>>

Next == SendStatus \/ SendData \/ SendUnsized \/ LoseFrame \/ WalkByte

Spec == Init /\ [][Next]_vars

-----------------------------------------------------------------------------
Boundary == wire = <<>> /\ ~w.exited

(* check_header and check_data_size lose nothing but the frame they reject:  *)
(* at the end of every frame sent the walk waits for a header and has        *)
(* interpreted all frames but the ones without a usable size, although two   *)
(* frames are rejected for each broken toggle.  This holds as long as no     *)
(* status header is rejected; see FreshWalk.                                 *)
OnlyBrokenLost ==
    Boundary /\ ~h.misread => w.header /\ w.ptr = 0 /\ h.seen = h.sent - h.unsized

(* Every frame that reaches status_event or data_event is one that was sent. *)
(* The older device acts on no header that it rejects and on nothing after   *)
(* it, and never stops a capture that had no glitch.                         *)
NoPhantomFrame ==
    /\ ~h.misread => ~h.phantom
    /\ gen = 1 => /\ ~h.phantom
                  /\ h.misread => w.exited
                  /\ w.exited => h.glitches > 0 /\ h.seen = h.sent - 1

(* The comment of desync_error: after the reset "the next header starts a    *)
(* fresh walk", so at the end of every frame, rejected or not, the walk      *)
(* waits for a header.                                                       *)
FreshWalk == Boundary => w.header /\ w.ptr = 0
=============================================================================
