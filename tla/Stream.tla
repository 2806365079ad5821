------------------------------- MODULE Stream -------------------------------
(* The stream layer, stream.c: carves the byte stream of EP1 IN into blocks, *)
(* whatever the boundaries of the transfers, and finds the block framing     *)
(* again after data was lost.  One action per turn of the loops of           *)
(* stream_feed and process_available.                                        *)
(*                                                                           *)
(* The unit is two bytes or more: a header is the magic half-word "m", the   *)
(* crc "c" and the other words "s".  A crc matches the words it was computed *)
(* from and no others; payload may look like a magic half-word.              *)
EXTENDS Integers, Sequences

CONSTANTS Cap,        \* STREAM_BUF_SIZE, in units
          Lens,       \* payload lengths; 0 is an ACK block
          SeqRange,     \* 256: range of the block sequence number
          MaxChunk,   \* bound: units in a transfer
          MaxBlocks,  \* bound: blocks the device sends
          MaxLost     \* bound: units lost on the way

HdrSize  == 3           \* UHSIF_ACK_SIZE
Window   == 2           \* sizeof(u32): what the scan looks at
KeepTail == Window - 1  \* SCAN_KEEP_TAIL

ASSUME ConstantsAssumption ==
    /\ Lens \subseteq Nat /\ Cap \in Nat /\ \A l \in Lens : HdrSize + l <= Cap
    /\ SeqRange \in Nat \ {0} /\ MaxChunk \in Nat /\ MaxBlocks \in Nat /\ MaxLost \in Nat

VARIABLES wire,     \* sent and not yet received
          sent,     \* length of every block sent, by its number
          lost,     \* units lost
          input,    \* what stream_feed has left to copy
          pc,       \* where the loops of stream_feed are
          s,        \* struct stream
          last,     \* last block accepted, 0 for none
          reported, \* rsync_cb was called since
          missed,   \* a loss was passed over in silence
          alarms    \* rsync_cb was called

vars == <<wire, sent, lost, input, pc, s, last, reported, missed, alarms>>

Kinds  == {"m", "c", "s", "d"}
Unit(k, b, i) == [k |-> k, b |-> b, i |-> i]

(* What the device sends for block b: odd payload units look like a magic.   *)
BlockUnits(b, len) ==
    <<Unit("m", b, 0), Unit("c", b, 0), Unit("s", b, 0)>>
    \o [i \in 1 .. len |-> Unit(IF i % 2 = 1 THEN "m" ELSE "d", b, i)]

TypeOK == /\ \A i \in DOMAIN s.buf : s.buf[i].k \in Kinds
          /\ s.head >= 0 /\ s.head + Len(s.buf) <= Cap
          /\ s.state \in {"SCAN", "BLOCK"} /\ s.haveSeq \in BOOLEAN
          /\ s.lastSeq \in 0 .. SeqRange - 1 /\ s.good \in 0 .. 2
          /\ pc \in {"idle", "copy", "mid", "last"}
          /\ lost \in 0 .. MaxLost /\ Len(sent) <= MaxBlocks
          /\ reported \in BOOLEAN /\ missed \in BOOLEAN /\ alarms \in BOOLEAN

(* stream_new; what is left of a block of an earlier session may come first. *)
Init == /\ wire \in {<<>>, <<Unit("m", 0, 1), Unit("d", 0, 2)>>,
                     <<Unit("d", 0, 1), Unit("d", 0, 2)>>}
        /\ sent = <<>> /\ lost = 0 /\ input = <<>> /\ pc = "idle"
        /\ s = [buf |-> <<>>, head |-> 0, state |-> "SCAN", haveSeq |-> FALSE,
                lastSeq |-> 0, good |-> 0]
        /\ last = 0 /\ reported = FALSE /\ missed = FALSE /\ alarms = FALSE

-----------------------------------------------------------------------------
(* The device and the link.  They do not touch what stream_feed works on, so *)
(* it is enough to let them move between two calls.                          *)

DeviceSend == /\ pc = "idle" /\ Len(sent) < MaxBlocks /\ Len(wire) < MaxChunk
              /\ \E l \in Lens : /\ sent' = Append(sent, l)
                                 /\ wire' = wire \o BlockUnits(Len(sent) + 1, l)
              /\ UNCHANGED <<lost, input, pc, s, last, reported, missed, alarms>>

LinkLoses == /\ pc = "idle" /\ wire # <<>> /\ lost < MaxLost
             /\ wire' = Tail(wire)
             /\ lost' = lost + 1
             /\ UNCHANGED <<sent, input, pc, s, last, reported, missed, alarms>>

-----------------------------------------------------------------------------
(* stream_feed.                                                              *)

FeedCall == /\ pc = "idle"
            /\ \E n \in 1 .. MaxChunk :
                  /\ n <= Len(wire)
                  /\ input' = SubSeq(wire, 1, n)
                  /\ wire' = SubSeq(wire, n + 1, Len(wire))
            /\ pc' = "copy"
            /\ UNCHANGED <<sent, lost, s, last, reported, missed, alarms>>

(* The staging buffer holds what is left of the transfer, perhaps once its   *)
(* content is moved to the front.                                            *)
CompactedHead == IF Len(s.buf) + Len(input) > Cap - s.head THEN 0 ELSE s.head

CopyAll == /\ pc = "copy"
           /\ Len(s.buf) + Len(input) <= Cap - CompactedHead
           /\ s' = [s EXCEPT !.head = CompactedHead, !.buf = s.buf \o input]
           /\ input' = <<>>
           /\ pc' = "last"
           /\ UNCHANGED <<wire, sent, lost, last, reported, missed, alarms>>

(* It does not: as much as fits is copied and processed.                     *)
CopyPart ==
    /\ pc = "copy"
    /\ Len(s.buf) + Len(input) > Cap
    /\ LET part == Cap - Len(s.buf)
       IN /\ s' = [s EXCEPT !.head = 0, !.buf = s.buf \o SubSeq(input, 1, part)]
          /\ input' = SubSeq(input, part + 1, Len(input))
    /\ pc' = "mid"
    /\ UNCHANGED <<wire, sent, lost, last, reported, missed, alarms>>

(* process_available returns with the struct t; between two parts of a       *)
(* transfer its content is moved to the front.                               *)
ReturnDrops(t) ==
    /\ pc' = IF pc = "mid" THEN "copy" ELSE "idle"
    /\ s' = IF pc = "mid" /\ Len(t.buf) > KeepTail
            THEN [t EXCEPT !.head = 0,
                           !.buf = SubSeq(t.buf, Len(t.buf) - KeepTail + 1, Len(t.buf))]
            ELSE t
    /\ UNCHANGED <<wire, sent, lost, input, last, reported, missed, alarms>>

Return(t) == /\ pc' = IF pc = "mid" THEN "copy" ELSE "idle"
             /\ s' = IF pc = "mid" THEN [t EXCEPT !.head = 0] ELSE t
             /\ UNCHANGED <<wire, sent, lost, input, last, reported, missed, alarms>>

-----------------------------------------------------------------------------
(* process_available.                                                        *)

(* The header at offset i is valid: its crc is that of its words.            *)
HeaderValid(i) == /\ s.buf[i + 1].k = "m" /\ s.buf[i + 2].k = "c"
                  /\ s.buf[i + 3].k = "s" /\ s.buf[i + 2].b = s.buf[i + 3].b

Block(i)    == s.buf[i + 3].b                 \* the block whose header it is
FullSize(i) == HdrSize + sent[Block(i)]

Processing == pc \in {"mid", "last"} /\ Len(s.buf) >= HdrSize
InBlock    == Processing /\ s.state = "BLOCK"
Scanning   == Processing /\ s.state = "SCAN"

DropFront(n) == SubSeq(s.buf, n + 1, Len(s.buf))

(* rsync_cb, and the search for a header begins.                             *)
Resync == /\ s' = [s EXCEPT !.haveSeq = FALSE, !.good = 0, !.state = "SCAN"]
          /\ reported' = TRUE /\ alarms' = TRUE
          /\ UNCHANGED <<wire, sent, lost, input, pc, last, missed>>

(* accept_block, for the header at offset i: a jump of the sequence number   *)
(* is reported; the block goes to the command or the frame layer.            *)
SeqJumps(i) == s.haveSeq /\ Block(i) % SeqRange # (s.lastSeq + 1) % SeqRange

AcceptBlockUnchecked(i) ==
    /\ s' = [buf |-> DropFront(i + FullSize(i)), head |-> s.head + i + FullSize(i),
             state |-> "BLOCK", haveSeq |-> TRUE, lastSeq |-> Block(i) % SeqRange,
             good |-> IF s.good < 2 THEN s.good + 1 ELSE 2]
    /\ last' = Block(i)
    /\ reported' = FALSE
    /\ missed' = (missed \/ (/\ last # 0 /\ Block(i) # last + 1 /\ ~reported
                             /\ Block(i) - last <= SeqRange))
    /\ UNCHANGED <<wire, sent, lost, input, pc, alarms>>

AcceptBlock(i) ==
    /\ s' = [buf |-> DropFront(i + FullSize(i)), head |-> s.head + i + FullSize(i),
             state |-> "BLOCK", haveSeq |-> TRUE, lastSeq |-> Block(i) % SeqRange,
             good |-> IF SeqJumps(i) \/ s.good = 0 THEN 1 ELSE 2]
    /\ last' = Block(i)
    /\ reported' = FALSE
    /\ missed' = (missed \/ (/\ last # 0 /\ Block(i) # last + 1
                             /\ ~reported /\ ~SeqJumps(i)
                             /\ Block(i) - last <= SeqRange))
    /\ alarms' = (alarms \/ SeqJumps(i))
    /\ UNCHANGED <<wire, sent, lost, input, pc>>

(* Aligned, and the block is not complete yet.                               *)
BlockIncomplete ==
    /\ InBlock /\ HeaderValid(0) /\ Len(s.buf) < FullSize(0)
    /\ IF FullSize(0) <= Cap
       THEN Return(s) ELSE Resync

BlockInvalid == InBlock /\ ~HeaderValid(0) /\ Resync

BlockAccept == InBlock /\ HeaderValid(0) /\ Len(s.buf) >= FullSize(0) /\ AcceptBlock(0)

(* Offsets at which the scan sees a magic half-word.                         *)
Candidates == {i \in 0 .. Len(s.buf) - Window : s.buf[i + 1].k = "m"}
Found == CHOOSE i \in Candidates : \A j \in Candidates : i <= j

(* Everything before offset n is dropped, and the content moved to the front. *)
HoldAt(n) == Return([s EXCEPT !.buf = DropFront(n), !.head = 0])

ScanNothingKeepsNone == Scanning /\ Candidates = {} /\ HoldAt(Len(s.buf))

ScanNothing == Scanning /\ Candidates = {} /\ HoldAt(Len(s.buf) - KeepTail)

ScanPartHeader == /\ Scanning /\ Candidates # {} /\ Len(s.buf) - Found < HdrSize
                  /\ HoldAt(Found)

ScanBogusAgain == /\ Scanning /\ Candidates # {} /\ Len(s.buf) - Found >= HdrSize
                  /\ ~HeaderValid(Found)
                  /\ s' = [s EXCEPT !.buf = DropFront(Found), !.head = s.head + Found]
                  /\ UNCHANGED <<wire, sent, lost, input, pc, last, reported, missed,
                                 alarms>>

ScanBogus == /\ Scanning /\ Candidates # {} /\ Len(s.buf) - Found >= HdrSize
             /\ ~HeaderValid(Found)
             /\ s' = [s EXCEPT !.buf = DropFront(Found + 1), !.head = s.head + Found + 1]
             /\ UNCHANGED <<wire, sent, lost, input, pc, last, reported, missed, alarms>>

ScanPartBlock == /\ Scanning /\ Candidates # {} /\ Len(s.buf) - Found >= HdrSize
                 /\ HeaderValid(Found) /\ Len(s.buf) - Found < FullSize(Found)
                 /\ HoldAt(Found)

ScanAccept == /\ Scanning /\ Candidates # {} /\ Len(s.buf) - Found >= HdrSize
              /\ HeaderValid(Found) /\ Len(s.buf) - Found >= FullSize(Found)
              /\ AcceptBlock(Found)

(* Less than a header is left.                                               *)
Exhausted == pc \in {"mid", "last"} /\ Len(s.buf) < HdrSize /\ Return(s)

Process == \/ BlockIncomplete \/ BlockInvalid \/ BlockAccept
           \/ ScanNothing \/ ScanPartHeader \/ ScanBogus \/ ScanPartBlock \/ ScanAccept
           \/ Exhausted

Next == \/ DeviceSend \/ LinkLoses \/ FeedCall \/ CopyAll \/ CopyPart \/ Process

Spec == Init /\ [][Next]_vars

(* stream_feed runs to its end; nothing is assumed of the device or the link. *)
FairSpec == Spec /\ WF_vars(CopyAll \/ CopyPart \/ Process)

-----------------------------------------------------------------------------
(* A loss is never passed over in silence: between two blocks handed on that *)
(* were not sent one after the other, rsync_cb is called, also when the loss *)
(* made one block swallow others as its payload.  (Up to the range of the    *)
(* sequence number: a loss of SeqRange blocks in a row cannot be seen.)        *)
LossReported == ~missed

(* "USB link packet loss" is reported only after a loss, wherever transfers  *)
(* end, whatever the payload looks like and however full the staging buffer  *)
(* is, which is never overrun.                                               *)
NoFalseAlarm == TypeOK /\ (alarms => lost > 0)

(* When nothing was lost, every block received as a whole has been handed on *)
(* when stream_feed returns, none is held back: cmd_exec waits for ACKs.     *)
NothingHeldBack ==
    pc = "idle" /\ lost = 0 =>
      \A b \in DOMAIN sent : b > last => \E i \in DOMAIN wire : wire[i].b = b

(* stream_feed returns, also when the transfer exceeds the staging buffer.   *)
FeedReturns == pc = "copy" ~> pc = "idle"
=============================================================================
