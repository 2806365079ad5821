-------------------------- MODULE FrameWalkProofs ---------------------------
(* The safety properties of the byte walk of capture_sm, proved for any      *)
(* number of frames and glitches in any order, and for all header lengths    *)
(* and largest sizes that the size field of FrameWalk can hold; and those of *)
(* the session that the frames are captured in, for any number of packets.   *)
EXTENDS FrameWalk, Session, SequenceTheorems, TLAPS

Walks == [data : [1 .. MaxDataSize -> Nat], ptr : Nat, size : Nat, header : BOOLEAN,
          status : BOOLEAN, toggle : {0, 1}, exited : BOOLEAN]
Histories == [sent : Nat, seen : Nat, glitches : Nat, unsized : Nat,
              phantom : BOOLEAN, misread : BOOLEAN]

Typed == /\ gen \in {1, 2} /\ wire \in Seq(Nat) /\ frame \in {"none", "status", "data"}
         /\ toggle \in {0, 1} /\ w \in Walks /\ h \in Histories

(* Byte j of the frame, of which p bytes are in d and the others in q.       *)
At(d, p, q, j) == IF j <= p THEN d[j] ELSE q[j - p]

FrameByte(j) == At(w.data, w.ptr, wire, j)

(* The size that the header of the frame gives.                              *)
Declared == 2 * (FrameByte(2) % 4) + (FrameByte(3) % 2)
Usable(z) == DataHeader <= z /\ z <= MaxDataSize

(* Where the walk is in the frame that is being sent, as long as it is in    *)
(* step with the device.                                                     *)
Between == /\ wire = <<>> /\ w.header /\ w.ptr = 0
           /\ h.seen + h.unsized = h.sent
           /\ gen = 1 => h.unsized = 0

InStatus == /\ wire # <<>> /\ frame = "status" /\ w.header
            /\ w.ptr + Len(wire) = StatusHeader
            /\ w.ptr = 0 => IsStatus(wire[1])
            /\ w.ptr > 0 => w.status /\ w.size = StatusHeader
            /\ h.seen + 1 + h.unsized = h.sent
            /\ gen = 1 => h.unsized = 0

InHeader == /\ wire # <<>> /\ frame = "data" /\ w.header /\ w.ptr < DataHeader
            /\ w.ptr = 0 => ~IsStatus(wire[1])
            /\ w.ptr > 0 => ~w.status /\ w.size = DataHeader
            /\ Usable(Declared) => /\ w.ptr + Len(wire) = Declared
                                   /\ h.seen + 1 + h.unsized = h.sent
                                   /\ gen = 1 => h.unsized = 0
            /\ ~Usable(Declared) => /\ w.ptr + Len(wire) = DataHeader
                                    /\ h.seen + h.unsized = h.sent
                                    /\ h.unsized > 0 /\ (gen = 1 => h.unsized = 1)

InPayload == /\ wire # <<>> /\ frame = "data" /\ ~w.header
             /\ w.ptr + Len(wire) = w.size
             /\ h.seen + 1 + h.unsized = h.sent
             /\ gen = 1 => h.unsized = 0

InStep == Between \/ InStatus \/ InHeader \/ InPayload

(* Without a glitch the toggles agree, and so does the zero bit.             *)
Agreed == IF wire # <<>> /\ w.header
          THEN /\ w.toggle = 1 - toggle
               /\ ToggleOf(FrameByte(1)) = w.toggle /\ ZeroOf(FrameByte(1)) = 0
          ELSE w.toggle = toggle

IInv == /\ Typed
        /\ ~h.misread /\ ~w.exited => InStep
        /\ h.glitches = 0 /\ ~w.exited => Agreed
        /\ h.unsized <= h.glitches
        /\ gen = 1 \/ ~h.misread => ~h.phantom
        /\ gen = 1 /\ h.misread => w.exited
        /\ h.glitches = 0 => ~h.misread
        /\ w.exited => gen = 1 /\ h.glitches > 0 /\ h.seen + 1 = h.sent

-----------------------------------------------------------------------------
(* Bytes.                                                                    *)

LEMMA HeaderByteFacts ==
    ASSUME NEW st \in BOOLEAN, NEW tg \in {0, 1}, NEW zero \in {0, 1}
    PROVE  /\ HeaderByte(st, tg, zero) \in Nat
           /\ IsStatus(HeaderByte(st, tg, zero)) <=> st
           /\ ToggleOf(HeaderByte(st, tg, zero)) = tg /\ ZeroOf(HeaderByte(st, tg, zero)) = zero
<1>1. PICK y : y = HeaderByte(st, tg, zero)  OBVIOUS
<1>2. y = (IF st THEN 0 ELSE 16) + 8 * tg + 4 * zero  BY <1>1 DEF HeaderByte
<1>3. CASE tg = 0 /\ zero = 0
  <2>1. y = IF st THEN 0 ELSE 16  BY <1>2, <1>3
  <2> QED  BY <1>1, <1>3, <2>1 DEF IsStatus, ToggleOf, ZeroOf
<1>4. CASE tg = 0 /\ zero = 1
  <2>1. y = IF st THEN 4 ELSE 20  BY <1>2, <1>4
  <2> QED  BY <1>1, <1>4, <2>1 DEF IsStatus, ToggleOf, ZeroOf
<1>5. CASE tg = 1 /\ zero = 0
  <2>1. y = IF st THEN 8 ELSE 24  BY <1>2, <1>5
  <2> QED  BY <1>1, <1>5, <2>1 DEF IsStatus, ToggleOf, ZeroOf
<1>6. CASE tg = 1 /\ zero = 1
  <2>1. y = IF st THEN 12 ELSE 28  BY <1>2, <1>6
  <2> QED  BY <1>1, <1>6, <2>1 DEF IsStatus, ToggleOf, ZeroOf
<1> QED  BY <1>3, <1>4, <1>5, <1>6

LEMMA ByteFacts ==
    ASSUME NEW v \in 0 .. 3
    PROVE  Byte(v) \in Nat /\ Byte(v) % 4 = v /\ Byte(v) % 2 = v % 2
<1>1. v \in {0, 1, 2, 3}  OBVIOUS
<1>2. Byte(v) = IF v = 0 THEN 0 ELSE IF v = 1 THEN 9 ELSE IF v = 2 THEN 18 ELSE 27
  BY <1>1 DEF Byte, HeaderByte
<1> QED  BY <1>1, <1>2

LEMMA SizeField ==
    ASSUME NEW size \in 0 .. 7
    PROVE  /\ Byte(size \div 2) \in Nat /\ Byte(size % 2) \in Nat
           /\ 2 * (Byte(size \div 2) % 4) + (Byte(size % 2) % 2) = size
<1>1. PICK q \in 0 .. 3, r \in 0 .. 1 : q = size \div 2 /\ r = size % 2 /\ size = 2 * q + r
  OBVIOUS
<1>2. Byte(q) \in Nat /\ Byte(q) % 4 = q  BY ByteFacts
<1>3. Byte(r) \in Nat /\ Byte(r) % 2 = r
  <2>1. r \in 0 .. 3 /\ r % 2 = r  OBVIOUS
  <2> QED  BY <2>1, ByteFacts
<1> QED  BY <1>1, <1>2, <1>3

LEMMA BitType == ASSUME NEW b \in Nat PROVE ToggleOf(b) \in {0, 1} /\ 1 - ToggleOf(b) \in {0, 1}
<1>1. b \div 8 \in Nat  OBVIOUS
<1>2. \A n \in Nat : n % 2 \in {0, 1}  OBVIOUS
<1> QED  BY <1>1, <1>2 DEF ToggleOf

(* A byte that the walk takes is the same byte of the frame.                 *)
LEMMA Shift ==
    ASSUME NEW d \in [1 .. MaxDataSize -> Nat], NEW p \in Nat, p + 1 <= MaxDataSize,
           NEW q \in Seq(Nat), q # <<>>, NEW j \in 1 .. p + Len(q)
    PROVE  At([d EXCEPT ![p + 1] = q[1]], p + 1, Tail(q), j) = At(d, p, q, j)
<1>1. MaxDataSize \in Nat  BY SizesAssumption
<1>2. PICK l \in Nat : l = Len(q) /\ l > 0  OBVIOUS
<1>3. Len(Tail(q)) = l - 1 /\ \A i \in 1 .. l - 1 : Tail(q)[i] = q[i + 1]  BY <1>2
<1>4. CASE j <= p
  <2>1. j \in 1 .. MaxDataSize /\ j # p + 1 /\ j <= p + 1  BY <1>1, <1>2, <1>4
  <2> QED  BY <1>4, <2>1 DEF At
<1>5. CASE j = p + 1
  <2>1. p + 1 \in 1 .. MaxDataSize /\ ~(j <= p) /\ j - p = 1  BY <1>1, <1>5
  <2> QED  BY <1>5, <2>1 DEF At
<1>6. CASE j > p + 1
  <2>1. j - (p + 1) \in 1 .. l - 1 /\ (j - (p + 1)) + 1 = j - p /\ ~(j <= p) /\ ~(j <= p + 1)
    BY <1>2, <1>6
  <2>2. Tail(q)[j - (p + 1)] = q[j - p]  BY <1>3, <2>1
  <2> QED  BY <2>1, <2>2 DEF At
<1> QED  BY <1>2, <1>4, <1>5, <1>6

-----------------------------------------------------------------------------
(* capture_sm.                                                               *)

LEMMA TakeFacts ==
    ASSUME NEW s \in Walks, NEW b \in Nat
    PROVE  /\ Take(s, b) \in Walks
           /\ Take(s, b).data = [s.data EXCEPT ![s.ptr + 1] = b] /\ Take(s, b).ptr = s.ptr + 1
           /\ Take(s, b).header = s.header /\ Take(s, b).exited = s.exited
           /\ Take(s, b).toggle = s.toggle
           /\ s.header /\ s.ptr = 0 =>
                 /\ Take(s, b).status <=> IsStatus(b)
                 /\ Take(s, b).size = IF IsStatus(b) THEN StatusHeader ELSE DataHeader
           /\ ~(s.header /\ s.ptr = 0) =>
                 (Take(s, b).status <=> s.status) /\ Take(s, b).size = s.size
<1> DEFINE n == IF IsStatus(b) THEN StatusHeader ELSE DataHeader
           d == [s.data EXCEPT ![s.ptr + 1] = b]
<1>1. n \in Nat /\ IsStatus(b) \in BOOLEAN  BY SizesAssumption DEF IsStatus
<1>2. d \in [1 .. MaxDataSize -> Nat] /\ s.ptr + 1 \in Nat
  <2>1. s.data \in [1 .. MaxDataSize -> Nat] /\ s.ptr \in Nat  BY DEF Walks
  <2>2. \A f \in [1 .. MaxDataSize -> Nat], i \in Nat :
           [f EXCEPT ![i] = b] \in [1 .. MaxDataSize -> Nat]
    OBVIOUS
  <2>3. s.ptr + 1 \in Nat  BY <2>1
  <2> QED  BY <2>1, <2>2, <2>3
<1>3. s = [data |-> s.data, ptr |-> s.ptr, size |-> s.size, header |-> s.header,
           status |-> s.status, toggle |-> s.toggle, exited |-> s.exited]
  BY DEF Walks
<1>4. CASE s.header /\ s.ptr = 0
  <2>1. Take(s, b) = [[s EXCEPT !.status = IsStatus(b), !.size = n]
                         EXCEPT !.data[s.ptr + 1] = b, !.ptr = s.ptr + 1]
    BY <1>4 DEF Take
  <2>2. Take(s, b) = [data |-> d, ptr |-> s.ptr + 1, size |-> n, header |-> s.header,
                      status |-> IsStatus(b), toggle |-> s.toggle, exited |-> s.exited]
    <3> HIDE DEF n
    <3> QED  BY <1>3, <2>1
  <2> HIDE DEF d, n
  <2>3. Take(s, b) \in Walks  BY <1>1, <1>2, <2>2 DEF Walks
  <2> QED  BY <1>4, <2>2, <2>3 DEF d, n
<1>5. CASE ~(s.header /\ s.ptr = 0)
  <2>1. Take(s, b) = [s EXCEPT !.data[s.ptr + 1] = b, !.ptr = s.ptr + 1]
    BY <1>5 DEF Take
  <2>2. Take(s, b) = [data |-> d, ptr |-> s.ptr + 1, size |-> s.size, header |-> s.header,
                      status |-> s.status, toggle |-> s.toggle, exited |-> s.exited]
    BY <1>3, <2>1
  <2> HIDE DEF d
  <2>3. Take(s, b) \in Walks  BY <1>2, <2>2 DEF Walks
  <2> QED  BY <1>5, <2>2, <2>3 DEF d
<1> QED  BY <1>4, <1>5

(* What a byte does, once it is taken: t is the walk with the byte in it.    *)
Quiet == h'.seen = h.seen /\ (h'.phantom <=> h.phantom) /\ (h'.misread <=> h.misread)

Acts(kind) == /\ h'.seen = h.seen + 1 /\ (h'.misread <=> h.misread)
              /\ h'.phantom => h.phantom \/ frame # kind \/ Tail(wire) # <<>>

More(t) == t.ptr < t.size /\ w' = t /\ Quiet

DataDone(t) == /\ t.ptr >= t.size /\ ~t.header
               /\ w'.header /\ w'.ptr = 0 /\ w'.toggle = t.toggle /\ ~w'.exited
               /\ Acts("data")

Rejects(t) == /\ t.ptr >= t.size /\ t.header /\ ~Sound(t) /\ gen = 1
              /\ w'.exited /\ h'.seen = h.seen /\ (h'.phantom <=> h.phantom)

Misreads(t) == /\ t.ptr >= t.size /\ t.header /\ ~Sound(t) /\ gen = 2 /\ t.status
               /\ ~w'.exited /\ h'.misread

StatusDone(t) == /\ t.ptr >= t.size /\ t.header /\ t.status
                 /\ w'.header /\ w'.ptr = 0 /\ w'.toggle = 1 - ToggleOf(t.data[1]) /\ ~w'.exited
                 /\ Acts("status")

NoSize(t) == /\ t.ptr >= t.size /\ t.header /\ ~t.status /\ ~Usable(SizeOf(t.data))
             /\ gen = 1 => w'.exited
             /\ gen = 2 => /\ w'.header /\ w'.ptr = 0 /\ w'.toggle = 1 - ToggleOf(t.data[1])
                           /\ ~w'.exited
             /\ Quiet

SizeRead(t) == /\ t.ptr >= t.size /\ t.header /\ ~t.status /\ Usable(SizeOf(t.data))
               /\ (w'.header <=> SizeOf(t.data) = DataHeader) /\ w'.ptr = 0
               /\ w'.size = SizeOf(t.data) - DataHeader
               /\ w'.toggle = 1 - ToggleOf(t.data[1]) /\ ~w'.exited
               /\ IF SizeOf(t.data) = DataHeader THEN Acts("data") ELSE Quiet

LEMMA WalkTypes ==
    ASSUME Typed, NEW t \in Walks
    PROVE  /\ t.ptr \in Nat /\ t.size \in Nat /\ t.header \in BOOLEAN /\ t.status \in BOOLEAN
           /\ t.exited \in BOOLEAN /\ t.toggle \in {0, 1} /\ t.data \in [1 .. MaxDataSize -> Nat]
           /\ t.data[1] \in Nat /\ 1 - ToggleOf(t.data[1]) \in {0, 1} /\ SizeOf(t.data) \in Int
<1>1. t.data \in [1 .. MaxDataSize -> Nat]  BY DEF Walks
<1>2. 1 \in 1 .. MaxDataSize /\ 2 \in 1 .. MaxDataSize /\ 3 \in 1 .. MaxDataSize
  BY SizesAssumption
<1>3. t.data[1] \in Nat /\ t.data[2] \in Nat /\ t.data[3] \in Nat  BY <1>1, <1>2
<1>4. t.data[2] % 4 \in Int /\ t.data[3] % 2 \in Int  BY <1>3
<1>5. SizeOf(t.data) \in Int  BY <1>4 DEF SizeOf
<1>6. 1 - ToggleOf(t.data[1]) \in {0, 1}  BY <1>3, BitType
<1> QED  BY <1>1, <1>3, <1>5, <1>6 DEF Walks

(* The end of a header that is not that of a status frame, or not any more.  *)
LEMMA HeaderEnd ==
    ASSUME Typed, NEW c \in Walks, ~c.exited, ~c.status
    PROVE  /\ HeaderDone(c) \in Walks
           /\ Usable(SizeOf(c.data)) =>
                 /\ HeaderDone(c).header <=> SizeOf(c.data) = DataHeader
                 /\ HeaderDone(c).ptr = 0 /\ HeaderDone(c).size = SizeOf(c.data) - DataHeader
                 /\ HeaderDone(c).toggle = 1 - ToggleOf(c.data[1]) /\ ~HeaderDone(c).exited
           /\ ~Usable(SizeOf(c.data)) =>
                 /\ gen = 1 => HeaderDone(c).exited
                 /\ gen = 2 => /\ HeaderDone(c).header /\ HeaderDone(c).ptr = 0
                               /\ HeaderDone(c).toggle = 1 - ToggleOf(c.data[1])
                               /\ ~HeaderDone(c).exited
<1>1. PICK g \in {0, 1}, z \in Int : g = 1 - ToggleOf(c.data[1]) /\ z = SizeOf(c.data)
  BY WalkTypes
<1>2. PICK k \in Walks : /\ k = [c EXCEPT !.toggle = g] /\ k.data = c.data /\ k.toggle = g
                         /\ ~k.exited
  <2>1. [c EXCEPT !.toggle = g] \in Walks  BY DEF Walks
  <2>2. /\ [c EXCEPT !.toggle = g].data = c.data /\ [c EXCEPT !.toggle = g].toggle = g
        /\ ~[c EXCEPT !.toggle = g].exited
    BY DEF Walks
  <2> QED  BY <2>1, <2>2
<1>3. HeaderDone(c) = IF z < DataHeader \/ z > MaxDataSize THEN DesyncError(k)
                      ELSE [k EXCEPT !.size = z - DataHeader, !.header = z = DataHeader, !.ptr = 0]
  BY <1>1, <1>2 DEF HeaderDone
<1>4. Usable(z) <=> ~(z < DataHeader \/ z > MaxDataSize)  BY SizesAssumption DEF Usable
<1>5. CASE Usable(z)
  <2>1. z - DataHeader \in Nat  BY <1>5, SizesAssumption DEF Usable
  <2>2. PICK n \in Nat, f \in BOOLEAN : n = z - DataHeader /\ f = (z = DataHeader)  BY <2>1
  <2>3. HeaderDone(c) = [k EXCEPT !.size = n, !.header = f, !.ptr = 0]
    BY <1>3, <1>4, <1>5, <2>2
  <2>4. [k EXCEPT !.size = n, !.header = f, !.ptr = 0] \in Walks  BY DEF Walks
  <2>5. /\ HeaderDone(c).header = f /\ HeaderDone(c).ptr = 0 /\ HeaderDone(c).size = n
        /\ HeaderDone(c).toggle = g /\ HeaderDone(c).exited = k.exited
    BY <1>2, <2>3 DEF Walks
  <2>6. f <=> z = DataHeader  BY <2>2
  <2>7. HeaderDone(c).header <=> z = DataHeader  BY <2>5, <2>6
  <2>8. HeaderDone(c) \in Walks /\ ~HeaderDone(c).exited  BY <1>2, <2>3, <2>4, <2>5
  <2> QED  BY <1>1, <1>5, <2>2, <2>5, <2>7, <2>8
<1>6. CASE ~Usable(z) /\ gen = 1
  <2>1. HeaderDone(c) = [k EXCEPT !.exited = TRUE]  BY <1>3, <1>4, <1>6 DEF DesyncError
  <2>2. [k EXCEPT !.exited = TRUE] \in Walks /\ [k EXCEPT !.exited = TRUE].exited  BY DEF Walks
  <2> QED  BY <1>1, <1>6, <2>1, <2>2
<1>7. CASE ~Usable(z) /\ gen = 2
  <2> DEFINE r == [k EXCEPT !.size = 0, !.ptr = 0, !.header = TRUE, !.status = FALSE]
  <2>1. HeaderDone(c) = r  BY <1>3, <1>4, <1>7 DEF DesyncError
  <2>2. r \in Walks  BY DEF Walks
  <2>3. r.header = TRUE /\ r.ptr = 0 /\ r.toggle = k.toggle /\ r.exited = k.exited  BY DEF Walks
  <2> HIDE DEF r
  <2> QED  BY <1>1, <1>2, <1>7, <2>1, <2>2, <2>3
<1> QED  BY <1>1, <1>5, <1>6, <1>7 DEF Typed

LEMMA WalkCases ==
    ASSUME Typed, WalkByte
    PROVE  LET t == Take(w, wire[1])
           IN /\ t \in Walks /\ w' \in Walks /\ h' \in Histories
              /\ h'.sent = h.sent /\ h'.glitches = h.glitches /\ h'.unsized = h.unsized
              /\ wire' = Tail(wire) /\ UNCHANGED <<gen, frame, toggle>>
              /\ \/ More(t) \/ DataDone(t) \/ Rejects(t) \/ Misreads(t) \/ StatusDone(t)
                 \/ NoSize(t) \/ SizeRead(t)
<1>0. /\ wire # <<>> /\ ~w.exited /\ wire \in Seq(Nat) /\ w \in Walks /\ h \in Histories
      /\ gen \in {1, 2}
  BY DEF WalkByte, Typed
<1>1. wire[1] \in Nat /\ Head(wire) = wire[1]  BY <1>0
<1>2. PICK b \in Nat : b = wire[1]  BY <1>1
<1>3. PICK t \in Walks : t = Take(w, b) /\ ~t.exited
  <2>1. Take(w, b) \in Walks /\ Take(w, b).exited = w.exited  BY <1>0, TakeFacts
  <2> QED  BY <1>0, <2>1
<1> DEFINE e == Event(w, b)
           q == e # "none" /\ (e # frame \/ Tail(wire) # <<>>)
           m == t.ptr >= t.size /\ t.header /\ t.status /\ ~Sound(t)
<1>4. /\ w' = Walk(w, b) /\ wire' = Tail(wire) /\ UNCHANGED <<gen, frame, toggle>>
      /\ h' = [h EXCEPT !.seen = @ + (IF e = "none" THEN 0 ELSE 1), !.phantom = @ \/ q,
                        !.misread = @ \/ m]
  BY <1>1, <1>2, <1>3 DEF WalkByte
<1>5. PICK c : c = CheckHeader(t)  OBVIOUS
<1>6. /\ w' = IF t.ptr < t.size THEN t
              ELSE IF t.header THEN HeaderDone(c) ELSE [t EXCEPT !.header = TRUE, !.ptr = 0]
      /\ e = IF t.ptr < t.size THEN "none" ELSE IF ~t.header THEN "data"
             ELSE IF c.exited THEN "none" ELSE IF c.status THEN "status"
             ELSE IF SizeOf(t.data) = DataHeader THEN "data" ELSE "none"
  BY <1>3, <1>4, <1>5 DEF Walk, Event
<1>7. q \in BOOLEAN /\ m \in BOOLEAN  OBVIOUS
<1>8. m <=> t.ptr >= t.size /\ t.header /\ t.status /\ ~Sound(t)  OBVIOUS
<1>9. /\ e = "none" => ~q
      /\ \A kind \in {"data", "status"} : e = kind => (q <=> frame # kind \/ Tail(wire) # <<>>)
  OBVIOUS
<1> HIDE DEF e, q, m
<1>10. PICK n \in {0, 1} : n = (IF e = "none" THEN 0 ELSE 1)  OBVIOUS
<1>11. h' = [h EXCEPT !.seen = @ + n, !.phantom = @ \/ q, !.misread = @ \/ m]  BY <1>4, <1>10
<1>12. /\ h'.sent = h.sent /\ h'.glitches = h.glitches /\ h'.unsized = h.unsized
       /\ h'.seen = h.seen + n /\ (h'.phantom <=> h.phantom \/ q) /\ (h'.misread <=> h.misread \/ m)
  BY <1>0, <1>11 DEF Histories
<1>13. h' \in Histories
  <2>1. h.seen + n \in Nat  BY <1>0 DEF Histories
  <2>2. PICK k \in Nat, f1 \in BOOLEAN, f2 \in BOOLEAN :
           k = h.seen + n /\ f1 = (h.phantom \/ q) /\ f2 = (h.misread \/ m)
    BY <2>1
  <2>3. h' = [h EXCEPT !.seen = k, !.phantom = f1, !.misread = f2]  BY <1>11, <2>2
  <2> QED  BY <1>0, <2>3 DEF Histories
<1>14. /\ t.ptr \in Nat /\ t.size \in Nat /\ t.header \in BOOLEAN /\ t.status \in BOOLEAN
  BY WalkTypes
<1>15. t.ptr < t.size <=> ~(t.ptr >= t.size)  BY <1>14
<1>16. /\ e = "none" => h'.seen = h.seen /\ (h'.phantom <=> h.phantom)
       /\ \A kind \in {"data", "status"} :
             e = kind /\ ~m => Acts(kind)
       /\ e = "none" /\ ~m => Quiet
  <2>1. e = "none" => n = 0 /\ h'.seen = h.seen
    <3>1. h.seen \in Nat  BY <1>0 DEF Histories
    <3> QED  BY <1>10, <1>12, <3>1
  <2>2. e = "data" \/ e = "status" => n = 1  BY <1>10
  <2> QED  BY <1>9, <1>12, <2>1, <2>2 DEF Acts, Quiet
<1>17. CASE t.ptr < t.size
  <2>1. e = "none" /\ w' = t /\ ~m  BY <1>6, <1>8, <1>15, <1>17
  <2>2. More(t)  BY <1>16, <1>17, <2>1 DEF More
  <2> QED  BY <1>2, <1>3, <1>4, <1>12, <1>13, <2>1, <2>2
<1>18. CASE t.ptr >= t.size /\ ~t.header
  <2>1. e = "data" /\ ~m /\ w' = [t EXCEPT !.header = TRUE, !.ptr = 0]
    BY <1>6, <1>8, <1>15, <1>18
  <2>2. w' \in Walks /\ w'.header = TRUE /\ w'.ptr = 0 /\ w'.toggle = t.toggle /\ w'.exited = t.exited
    BY <2>1 DEF Walks
  <2>3. DataDone(t)  BY <1>3, <1>16, <1>18, <2>1, <2>2 DEF DataDone
  <2> QED  BY <1>2, <1>3, <1>4, <1>12, <1>13, <2>2, <2>3
<1>19. ASSUME t.ptr >= t.size, t.header
       PROVE  /\ w' = HeaderDone(c)
              /\ e = IF c.exited THEN "none" ELSE IF c.status THEN "status"
                     ELSE IF SizeOf(t.data) = DataHeader THEN "data" ELSE "none"
  BY <1>6, <1>15, <1>19
<1>20. CASE t.ptr >= t.size /\ t.header /\ ~Sound(t) /\ gen = 1
  <2>1. c = [t EXCEPT !.exited = TRUE]  BY <1>5, <1>20 DEF CheckHeader, DesyncError
  <2>2. c \in Walks /\ c.exited  BY <2>1 DEF Walks
  <2>3. HeaderDone(c) = c  BY <2>2 DEF HeaderDone
  <2>4. e = "none" /\ w' = c  BY <1>19, <1>20, <2>2, <2>3
  <2>5. Rejects(t)  BY <1>16, <1>20, <2>2, <2>4 DEF Rejects
  <2> QED  BY <1>2, <1>3, <1>4, <1>12, <1>13, <2>2, <2>4, <2>5
<1>21. ASSUME ~Sound(t), gen = 2 PROVE c \in Walks /\ ~c.exited /\ ~c.status /\ c.data = t.data
  <2>1. c = [t EXCEPT !.size = 0, !.ptr = 0, !.header = TRUE, !.status = FALSE]
    BY <1>5, <1>21 DEF CheckHeader, DesyncError
  <2>2. c \in Walks /\ c.exited = t.exited /\ c.status = FALSE /\ c.data = t.data
    BY <2>1 DEF Walks
  <2> QED  BY <1>3, <2>2
<1>22. CASE t.ptr >= t.size /\ t.header /\ ~Sound(t) /\ gen = 2 /\ t.status
  <2>1. w' \in Walks /\ ~w'.exited
    <3>1. /\ HeaderDone(c) \in Walks /\ (Usable(SizeOf(c.data)) => ~HeaderDone(c).exited)
          /\ ~Usable(SizeOf(c.data)) => (gen = 2 => ~HeaderDone(c).exited)
      BY <1>21, <1>22, HeaderEnd
    <3> QED  BY <1>19, <1>22, <3>1
  <2>2. h'.misread  BY <1>8, <1>12, <1>22
  <2>3. Misreads(t)  BY <1>22, <2>1, <2>2 DEF Misreads
  <2> QED  BY <1>2, <1>3, <1>4, <1>12, <1>13, <2>1, <2>3
<1>23. CASE t.ptr >= t.size /\ t.header /\ Sound(t) /\ t.status
  <2>1. c = t  BY <1>5, <1>23 DEF CheckHeader
  <2>2. PICK g \in {0, 1} : g = 1 - ToggleOf(t.data[1])  BY WalkTypes
  <2>3. HeaderDone(c) = [[t EXCEPT !.toggle = g] EXCEPT !.ptr = 0]
    BY <1>3, <1>23, <2>1, <2>2 DEF HeaderDone
  <2>4. e = "status" /\ ~m /\ w' = [[t EXCEPT !.toggle = g] EXCEPT !.ptr = 0]
    BY <1>3, <1>8, <1>19, <1>23, <2>1, <2>3
  <2>5. w' \in Walks /\ w'.header = t.header /\ w'.ptr = 0 /\ w'.toggle = g /\ w'.exited = t.exited
    BY <2>4 DEF Walks
  <2>6. StatusDone(t)  BY <1>3, <1>16, <1>23, <2>2, <2>4, <2>5 DEF StatusDone
  <2> QED  BY <1>2, <1>3, <1>4, <1>12, <1>13, <2>5, <2>6
<1>24. CASE t.ptr >= t.size /\ t.header /\ ~t.status /\ (Sound(t) \/ gen = 2)
  <2>1. c \in Walks /\ ~c.exited /\ ~c.status /\ c.data = t.data
    <3>1. Sound(t) => c = t  BY <1>5 DEF CheckHeader
    <3> QED  BY <1>3, <1>21, <1>24, <3>1
  <2>2. w' = HeaderDone(c) /\ ~m /\ e = IF SizeOf(t.data) = DataHeader THEN "data" ELSE "none"
    BY <1>8, <1>19, <1>24, <2>1
  <2>3. w' \in Walks  BY <2>1, <2>2, HeaderEnd
  <2>4. CASE Usable(SizeOf(t.data))
    <3>1. /\ (w'.header <=> SizeOf(t.data) = DataHeader) /\ w'.ptr = 0
          /\ w'.size = SizeOf(t.data) - DataHeader
          /\ w'.toggle = 1 - ToggleOf(t.data[1]) /\ ~w'.exited
      BY <2>1, <2>2, <2>4, HeaderEnd
    <3>2. IF SizeOf(t.data) = DataHeader THEN Acts("data") ELSE Quiet  BY <1>16, <2>2
    <3>3. SizeRead(t)  BY <1>24, <2>4, <3>1, <3>2 DEF SizeRead
    <3> QED  BY <1>2, <1>3, <1>4, <1>12, <1>13, <2>3, <3>3
  <2>5. CASE ~Usable(SizeOf(t.data))
    <3>1. SizeOf(t.data) # DataHeader  BY <2>5, SizesAssumption DEF Usable
    <3>2. /\ gen = 1 => w'.exited
          /\ gen = 2 => /\ w'.header /\ w'.ptr = 0 /\ w'.toggle = 1 - ToggleOf(t.data[1])
                        /\ ~w'.exited
      BY <2>1, <2>2, <2>5, HeaderEnd
    <3>3. Quiet  BY <1>16, <2>2, <3>1
    <3>4. NoSize(t)  BY <1>24, <2>5, <3>2, <3>3 DEF NoSize
    <3> QED  BY <1>2, <1>3, <1>4, <1>12, <1>13, <2>3, <3>4
  <2> QED  BY <2>4, <2>5
<1> QED  BY <1>0, <1>14, <1>15, <1>17, <1>18, <1>20, <1>22, <1>23, <1>24

(* The byte taken, t, and what becomes of the walk.                          *)
Taken(t, p, l) ==
    /\ p = w.ptr /\ l = Len(wire) /\ l > 0 /\ Len(wire') = l - 1 /\ (wire' = <<>> <=> l = 1)
    /\ wire' = Tail(wire)
    /\ t.ptr = p + 1 /\ (t.header <=> w.header) /\ ~t.exited /\ t.toggle = w.toggle
    /\ w.header /\ p = 0 => /\ t.status <=> IsStatus(wire[1])
                            /\ t.size = IF IsStatus(wire[1]) THEN StatusHeader ELSE DataHeader
    /\ ~(w.header /\ p = 0) => (t.status <=> w.status) /\ t.size = w.size
    /\ p + 1 <= MaxDataSize =>
          /\ \A j \in 1 .. p + l : At(t.data, p + 1, wire', j) = FrameByte(j)
          /\ \A j \in 1 .. p + 1 : t.data[j] = FrameByte(j)
    /\ h'.sent = h.sent /\ h'.glitches = h.glitches /\ h'.unsized = h.unsized
    /\ gen' = gen /\ frame' = frame /\ toggle' = toggle
    /\ \/ More(t) \/ DataDone(t) \/ Rejects(t) \/ Misreads(t) \/ StatusDone(t) \/ NoSize(t)
       \/ SizeRead(t)

LEMMA WalkFacts ==
    ASSUME Typed, WalkByte
    PROVE  Typed' /\ \E t \in Walks, p \in Nat, l \in Nat : Taken(t, p, l)
<1>1. wire # <<>> /\ ~w.exited /\ wire \in Seq(Nat) /\ w \in Walks  BY DEF WalkByte, Typed
<1>2. PICK b \in Nat : b = wire[1]  BY <1>1
<1>3. PICK p \in Nat, d \in [1 .. MaxDataSize -> Nat] : p = w.ptr /\ d = w.data
  BY <1>1 DEF Walks
<1>4. PICK l \in Nat : l = Len(wire) /\ l > 0 /\ Len(Tail(wire)) = l - 1
  BY <1>1
<1>5. PICK t \in Walks : t = Take(w, b)
  <2>1. Take(w, b) \in Walks  BY <1>1, TakeFacts
  <2> QED  BY <2>1
<1>6. /\ w' \in Walks /\ h' \in Histories
      /\ h'.sent = h.sent /\ h'.glitches = h.glitches /\ h'.unsized = h.unsized
      /\ wire' = Tail(wire) /\ gen' = gen /\ frame' = frame /\ toggle' = toggle
      /\ \/ More(t) \/ DataDone(t) \/ Rejects(t) \/ Misreads(t) \/ StatusDone(t)
         \/ NoSize(t) \/ SizeRead(t)
  BY <1>2, <1>5, WalkCases
<1>7. Typed'
  <2>1. Tail(wire) \in Seq(Nat)  BY <1>1
  <2> QED  BY <1>6, <2>1 DEF Typed
<1>8. /\ t.data = [d EXCEPT ![p + 1] = wire[1]] /\ t.ptr = p + 1
      /\ (t.header <=> w.header) /\ ~t.exited /\ t.toggle = w.toggle
      /\ w.header /\ p = 0 => /\ t.status <=> IsStatus(wire[1])
                              /\ t.size = IF IsStatus(wire[1]) THEN StatusHeader ELSE DataHeader
      /\ ~(w.header /\ p = 0) => (t.status <=> w.status) /\ t.size = w.size
  BY <1>1, <1>2, <1>3, <1>5, TakeFacts
<1>9. wire' = <<>> <=> l = 1
  <2>1. Tail(wire) = <<>> <=> Len(Tail(wire)) = 0
    <3>1. Tail(wire) \in Seq(Nat)  BY <1>1
    <3>2. PICK x \in Seq(Nat) : x = Tail(wire)  BY <3>1
    <3>3. x = <<>> <=> Len(x) = 0  BY EmptySeq
    <3> QED  BY <3>2, <3>3
  <2>2. Len(Tail(wire)) = 0 <=> l = 1  BY <1>4
  <2> QED  BY <1>6, <2>1, <2>2
<1>10. ASSUME p + 1 <= MaxDataSize
       PROVE  /\ \A j \in 1 .. p + l : At(t.data, p + 1, wire', j) = FrameByte(j)
              /\ \A j \in 1 .. p + 1 : t.data[j] = FrameByte(j)
  <2>1. \A j \in 1 .. p + l : At(t.data, p + 1, wire', j) = FrameByte(j)
    <3> SUFFICES ASSUME NEW j \in 1 .. p + l PROVE At(t.data, p + 1, wire', j) = FrameByte(j)
        OBVIOUS
    <3>1. j \in 1 .. p + Len(wire)  BY <1>4
    <3>2. At([d EXCEPT ![p + 1] = wire[1]], p + 1, Tail(wire), j) = At(d, p, wire, j)
      BY <1>1, <1>10, <3>1, Shift
    <3> QED  BY <1>3, <1>6, <1>8, <3>2 DEF FrameByte
  <2>2. \A j \in 1 .. p + 1 : j \in 1 .. p + l /\ j <= p + 1  BY <1>4
  <2>3. \A j \in 1 .. p + 1 : t.data[j] = FrameByte(j)  BY <2>1, <2>2 DEF At
  <2> QED  BY <2>1, <2>3
<1>11. Len(wire') = l - 1  BY <1>4, <1>6
<1>12. Taken(t, p, l)  BY <1>3, <1>4, <1>6, <1>8, <1>9, <1>10, <1>11 DEF Taken
<1> QED  BY <1>7, <1>12

(* A rejected header of the newer device has been misread before.            *)
LEMMA MisreadStep == ASSUME IInv, WalkByte, h.misread PROVE IInv'
<1>0. Typed /\ ~w.exited  BY DEF IInv, WalkByte
<1>1. gen = 2 /\ h.glitches # 0 /\ h.unsized <= h.glitches  BY <1>0 DEF IInv, Typed
<1>2. Typed'  BY <1>0, WalkFacts
<1>3. PICK t \in Walks, p \in Nat, l \in Nat : Taken(t, p, l)  BY <1>0, WalkFacts
<1>4. h'.misread /\ ~w'.exited
  BY <1>1, <1>3 DEF Taken, More, DataDone, Rejects, Misreads, StatusDone, NoSize, SizeRead, Quiet, Acts
<1>5. gen' = 2 /\ h'.glitches = h.glitches /\ h'.unsized = h.unsized  BY <1>1, <1>3 DEF Taken
<1>6. gen' # 1 /\ h'.glitches # 0 /\ h'.unsized <= h'.glitches  BY <1>1, <1>5
<1> QED  BY <1>2, <1>4, <1>6 DEF IInv

LEMMA WalkStatus == ASSUME IInv, WalkByte, ~h.misread, InStatus PROVE IInv'
<1>0. Typed /\ ~w.exited /\ h.unsized <= h.glitches /\ ~h.phantom  BY DEF IInv, WalkByte
<1>1. PICK t \in Walks, p \in Nat, l \in Nat : Taken(t, p, l)  BY <1>0, WalkFacts
<1>2. /\ p + l = StatusHeader /\ t.status /\ t.size = StatusHeader /\ t.header /\ t.ptr = p + 1
      /\ frame = "status" /\ wire # <<>>
  BY <1>1 DEF Taken, InStatus
<1>3. p + 1 <= MaxDataSize /\ l \in Nat /\ l > 0 /\ 1 \in 1 .. p + l /\ 1 \in 1 .. p + 1
  <2>1. l > 0 /\ p + l < DataHeader /\ DataHeader <= MaxDataSize /\ DataHeader \in Nat
    BY <1>1, <1>2, SizesAssumption DEF Taken
  <2> QED  BY <2>1, SizesAssumption
<1>4. /\ At(t.data, p + 1, wire', 1) = FrameByte(1) /\ t.data[1] = FrameByte(1)
  BY <1>1, <1>3 DEF Taken
<1>5. ASSUME h.glitches = 0 PROVE w.toggle = 1 - toggle /\ ToggleOf(t.data[1]) = w.toggle /\ Sound(t)
                                  /\ ToggleOf(FrameByte(1)) = w.toggle /\ ZeroOf(FrameByte(1)) = 0
  <2>1. /\ w.toggle = 1 - toggle
        /\ ToggleOf(FrameByte(1)) = w.toggle /\ ZeroOf(FrameByte(1)) = 0
    BY <1>0, <1>1, <1>2, <1>5 DEF IInv, Agreed, Taken
  <2>2. t.toggle = w.toggle  BY <1>1 DEF Taken
  <2> QED  BY <1>4, <2>1, <2>2 DEF Sound
<1>6. Typed'  BY <1>0, WalkFacts
<1>7. /\ h'.sent = h.sent /\ h'.glitches = h.glitches /\ h'.unsized = h.unsized
      /\ gen' = gen /\ frame' = frame /\ toggle' = toggle /\ Len(wire') = l - 1
      /\ (wire' = <<>> <=> l = 1)
  BY <1>1 DEF Taken
<1>8. h.seen + 1 + h.unsized = h.sent /\ (gen = 1 => h.unsized = 0)  BY DEF InStatus
<1>9. h.seen \in Nat /\ h.unsized \in Nat /\ h.glitches \in Nat /\ h.sent \in Nat
  BY <1>0 DEF Typed, Histories
<1>10. CASE More(t)
  <2>1. w' = t /\ Quiet /\ p + 1 < StatusHeader  BY <1>2, <1>10 DEF More
  <2>2. ~h'.phantom /\ ~h'.misread /\ h'.seen = h.seen /\ ~w'.exited
    BY <1>0, <1>1, <2>1 DEF Quiet, Taken
  <2>3. l # 1 /\ (p + 1) + (l - 1) = StatusHeader /\ p + 1 > 0 /\ p + 1 # 0
    BY <1>2, <2>1, SizesAssumption
  <2>4. InStatus'
    <3>1. /\ w'.ptr = p + 1 /\ w'.header /\ w'.status /\ w'.size = StatusHeader  BY <1>2, <2>1
    <3> QED  BY <1>2, <1>7, <1>8, <2>2, <2>3, <3>1 DEF InStatus
  <2>5. h'.glitches = 0 => Agreed'
    <3> SUFFICES ASSUME h.glitches = 0 PROVE Agreed'
        BY <1>7
    <3>1. w'.toggle = w.toggle /\ FrameByte(1)' = FrameByte(1)
      BY <1>1, <1>2, <1>4, <2>1 DEF Taken, FrameByte
    <3>2. wire' # <<>> /\ w'.header  BY <1>2, <1>7, <2>1, <2>3
    <3> QED  BY <1>5, <1>7, <3>1, <3>2 DEF Agreed
  <2> QED  BY <1>0, <1>6, <1>7, <2>2, <2>4, <2>5 DEF IInv, InStep
<1>11. CASE Rejects(t)
  <2>1. w'.exited /\ gen = 1 /\ h'.seen = h.seen /\ ~h'.phantom /\ ~Sound(t)
    BY <1>0, <1>11 DEF Rejects
  <2>2. h.glitches # 0  BY <1>5, <2>1
  <2>3. h'.glitches > 0 /\ h'.seen + 1 = h'.sent  BY <1>7, <1>8, <1>9, <2>1, <2>2
  <2>4. h'.glitches # 0 /\ h'.unsized <= h'.glitches  BY <1>0, <1>7, <2>2
  <2> QED  BY <1>6, <1>7, <2>1, <2>3, <2>4 DEF IInv
<1>12. CASE Misreads(t)
  <2>1. ~w'.exited /\ gen = 2 /\ h'.misread /\ ~Sound(t)  BY <1>12 DEF Misreads
  <2>2. h.glitches # 0  BY <1>5, <2>1
  <2>3. h'.glitches # 0 /\ h'.unsized <= h'.glitches /\ gen' # 1  BY <1>0, <1>7, <2>1, <2>2
  <2> QED  BY <1>6, <2>1, <2>3 DEF IInv
<1>13. CASE StatusDone(t)
  <2>1. /\ w'.header /\ w'.ptr = 0 /\ w'.toggle = 1 - ToggleOf(t.data[1]) /\ ~w'.exited
        /\ Acts("status") /\ t.ptr >= t.size
    BY <1>13 DEF StatusDone
  <2>2. l = 1 /\ wire' = <<>>
    <3>1. l = 1  BY <1>2, <1>3, <2>1, SizesAssumption
    <3> QED  BY <1>7, <3>1
  <2>3. ~h'.phantom /\ ~h'.misread /\ h'.seen = h.seen + 1
    <3>1. Tail(wire) = <<>>  BY <1>1, <2>2 DEF Taken
    <3> QED  BY <1>0, <1>2, <2>1, <3>1 DEF Acts
  <2>4. Between'
    <3>1. h'.seen + h'.unsized = h'.sent  BY <1>7, <1>8, <2>3
    <3> QED  BY <1>7, <1>8, <2>1, <2>2, <3>1 DEF Between
  <2>5. h'.glitches = 0 => Agreed'
    <3> SUFFICES ASSUME h.glitches = 0 PROVE w'.toggle = toggle'
        BY <1>7, <2>2 DEF Agreed
    <3>1. w'.toggle = 1 - (1 - toggle)  BY <1>5, <2>1
    <3>2. toggle \in {0, 1}  BY <1>0 DEF Typed
    <3> QED  BY <1>7, <3>1, <3>2
  <2> QED  BY <1>0, <1>6, <1>7, <2>1, <2>3, <2>4, <2>5 DEF IInv, InStep
<1> QED  BY <1>1, <1>2, <1>10, <1>11, <1>12, <1>13 DEF Taken, DataDone, NoSize, SizeRead

LEMMA WalkHeader == ASSUME IInv, WalkByte, ~h.misread, InHeader PROVE IInv'
<1>0. Typed /\ ~w.exited /\ h.unsized <= h.glitches /\ ~h.phantom  BY DEF IInv, WalkByte
<1>1. PICK t \in Walks, p \in Nat, l \in Nat : Taken(t, p, l)  BY <1>0, WalkFacts
<1>2. /\ p < DataHeader /\ ~t.status /\ t.size = DataHeader /\ t.header /\ t.ptr = p + 1
      /\ frame = "data" /\ wire # <<>>
  BY <1>1 DEF Taken, InHeader
<1>3. PICK z \in Int : z = Declared
  <2>1. FrameByte(2) % 4 \in Int /\ FrameByte(3) % 2 \in Int
    <3>1. FrameByte(2) \in Nat /\ FrameByte(3) \in Nat
      <4>1. \A j \in {2, 3} : j \in 1 .. p + l
        <5>1. p + l >= DataHeader
          <6>1. (Usable(Declared) => p + l = Declared) /\ (~Usable(Declared) => p + l = DataHeader)
            BY <1>1 DEF InHeader, Taken
          <6> QED  BY <6>1, SizesAssumption DEF Usable
        <5> QED  BY <5>1, SizesAssumption
      <4>2. \A j \in {2, 3} : FrameByte(j) \in Nat
        <5> SUFFICES ASSUME NEW j \in {2, 3} PROVE FrameByte(j) \in Nat
            OBVIOUS
        <5>1. j \in 1 .. MaxDataSize  BY SizesAssumption
        <5>2. w.data \in [1 .. MaxDataSize -> Nat] /\ wire \in Seq(Nat)  BY <1>0 DEF Typed, Walks
        <5>3. CASE j <= p  BY <1>1, <5>1, <5>2, <5>3 DEF FrameByte, At, Taken
        <5>4. CASE ~(j <= p)
          <6>1. j - p \in 1 .. l  BY <4>1, <5>4
          <6>2. l = Len(wire)  BY <1>1 DEF Taken
          <6>3. wire[j - p] \in Nat  BY <5>2, <6>1, <6>2
          <6> QED  BY <1>1, <5>4, <6>3 DEF FrameByte, At, Taken
        <5> QED  BY <5>3, <5>4
      <4> QED  BY <4>2
    <3> QED  BY <3>1
  <2> QED  BY <2>1 DEF Declared
<1>4. /\ Usable(z) => p + l = z /\ h.seen + 1 + h.unsized = h.sent /\ (gen = 1 => h.unsized = 0)
      /\ ~Usable(z) => /\ p + l = DataHeader /\ h.seen + h.unsized = h.sent /\ h.unsized > 0
                       /\ gen = 1 => h.unsized = 1
  BY <1>1, <1>3 DEF InHeader, Taken
<1>5. /\ p + 1 <= MaxDataSize /\ p + l >= DataHeader /\ 1 \in 1 .. p + 1
      /\ 1 \in 1 .. p + l /\ 2 \in 1 .. p + l /\ 3 \in 1 .. p + l
  <2>1. p + l >= DataHeader  BY <1>4, SizesAssumption DEF Usable
  <2> QED  BY <1>2, <2>1, SizesAssumption
<1>6. /\ At(t.data, p + 1, wire', 1) = FrameByte(1) /\ t.data[1] = FrameByte(1)
      /\ At(t.data, p + 1, wire', 2) = FrameByte(2) /\ At(t.data, p + 1, wire', 3) = FrameByte(3)
  BY <1>1, <1>5 DEF Taken
<1>7. p + 1 >= DataHeader => p + 1 = DataHeader /\ SizeOf(t.data) = z
  <2> SUFFICES ASSUME p + 1 >= DataHeader PROVE p + 1 = DataHeader /\ SizeOf(t.data) = z
      OBVIOUS
  <2>1. p + 1 = DataHeader /\ 2 \in 1 .. p + 1 /\ 3 \in 1 .. p + 1  BY <1>2, SizesAssumption
  <2>2. t.data[2] = FrameByte(2) /\ t.data[3] = FrameByte(3)  BY <1>1, <1>5, <2>1 DEF Taken
  <2> QED  BY <1>3, <2>1, <2>2 DEF SizeOf, Declared
<1>8. ASSUME h.glitches = 0 PROVE w.toggle = 1 - toggle /\ ToggleOf(t.data[1]) = w.toggle /\ Sound(t)
                                  /\ ToggleOf(FrameByte(1)) = w.toggle /\ ZeroOf(FrameByte(1)) = 0
  <2>1. /\ w.toggle = 1 - toggle
        /\ ToggleOf(FrameByte(1)) = w.toggle /\ ZeroOf(FrameByte(1)) = 0
    BY <1>0, <1>1, <1>2, <1>8 DEF IInv, Agreed, Taken
  <2>2. t.toggle = w.toggle  BY <1>1 DEF Taken
  <2> QED  BY <1>6, <2>1, <2>2 DEF Sound
<1>9. Typed'  BY <1>0, WalkFacts
<1>10. /\ h'.sent = h.sent /\ h'.glitches = h.glitches /\ h'.unsized = h.unsized
       /\ gen' = gen /\ frame' = frame /\ toggle' = toggle /\ Len(wire') = l - 1
       /\ (wire' = <<>> <=> l = 1) /\ l > 0
  BY <1>1 DEF Taken
<1>11. h.seen \in Nat /\ h.unsized \in Nat /\ h.glitches \in Nat /\ h.sent \in Nat
  BY <1>0 DEF Typed, Histories
<1>12. ASSUME h.glitches = 0, w'.toggle = 1 - ToggleOf(t.data[1]) PROVE w'.toggle = toggle'
  <2>1. w'.toggle = 1 - (1 - toggle)  BY <1>8, <1>12
  <2>2. toggle \in {0, 1}  BY <1>0 DEF Typed
  <2> QED  BY <1>10, <2>1, <2>2
<1>13. CASE More(t)
  <2>1. w' = t /\ Quiet /\ p + 1 < DataHeader  BY <1>2, <1>13 DEF More
  <2>2. ~h'.phantom /\ ~h'.misread /\ h'.seen = h.seen /\ ~w'.exited
    BY <1>0, <1>1, <2>1 DEF Quiet, Taken
  <2>3. l # 1 /\ (p + 1) + (l - 1) = p + l /\ p + 1 > 0 /\ p + 1 # 0
    BY <1>5, <2>1, SizesAssumption
  <2>4. w'.ptr = p + 1 /\ w'.header /\ ~w'.status /\ w'.size = DataHeader  BY <1>2, <2>1
  <2>5. Declared' = z
    <3>1. FrameByte(2)' = FrameByte(2) /\ FrameByte(3)' = FrameByte(3)
      BY <1>2, <1>6, <2>1 DEF FrameByte
    <3> QED  BY <1>3, <3>1 DEF Declared
  <2>6. InHeader'
    <3>1. /\ wire' # <<>> /\ frame' = "data" /\ w'.header /\ w'.ptr < DataHeader
          /\ (w'.ptr = 0 => ~IsStatus(wire'[1]))
          /\ (w'.ptr > 0 => ~w'.status /\ w'.size = DataHeader)
      BY <1>2, <1>10, <2>1, <2>3, <2>4
    <3>2. w'.ptr + Len(wire') = p + l  BY <1>10, <2>3, <2>4
    <3>3. /\ Usable(z)' <=> Usable(z)
      BY DEF Usable
    <3>4. /\ Usable(Declared)' => /\ w'.ptr + Len(wire') = Declared'
                                  /\ h'.seen + 1 + h'.unsized = h'.sent
                                  /\ gen' = 1 => h'.unsized = 0
      BY <1>4, <1>10, <2>2, <2>5, <3>2 DEF Usable
    <3>5. /\ ~Usable(Declared)' => /\ w'.ptr + Len(wire') = DataHeader
                                   /\ h'.seen + h'.unsized = h'.sent
                                   /\ h'.unsized > 0 /\ (gen' = 1 => h'.unsized = 1)
      BY <1>4, <1>10, <2>2, <2>5, <3>2 DEF Usable
    <3> QED  BY <3>1, <3>4, <3>5 DEF InHeader
  <2>7. h'.glitches = 0 => Agreed'
    <3> SUFFICES ASSUME h.glitches = 0 PROVE Agreed'
        BY <1>10
    <3>1. w'.toggle = w.toggle /\ FrameByte(1)' = FrameByte(1)
      BY <1>1, <1>2, <1>6, <2>1 DEF Taken, FrameByte
    <3>2. wire' # <<>> /\ w'.header  BY <1>10, <2>3, <2>4
    <3> QED  BY <1>8, <1>10, <3>1, <3>2 DEF Agreed
  <2> QED  BY <1>0, <1>9, <1>10, <2>2, <2>6, <2>7 DEF IInv, InStep
<1>14. CASE Rejects(t)
  <2>1. w'.exited /\ gen = 1 /\ h'.seen = h.seen /\ ~h'.phantom /\ ~Sound(t)
    BY <1>0, <1>14 DEF Rejects
  <2>2. h.glitches # 0  BY <1>8, <2>1
  <2>3. h'.glitches > 0 /\ h'.seen + 1 = h'.sent
    <3>1. h.seen + 1 = h.sent
      <4>1. CASE Usable(z)  BY <1>4, <1>11, <2>1, <4>1
      <4>2. CASE ~Usable(z)  BY <1>4, <1>11, <2>1, <4>2
      <4> QED  BY <4>1, <4>2
    <3> QED  BY <1>10, <1>11, <2>1, <2>2, <3>1
  <2>4. h'.glitches # 0 /\ h'.unsized <= h'.glitches  BY <1>0, <1>10, <2>2
  <2> QED  BY <1>9, <1>10, <2>1, <2>3, <2>4 DEF IInv
<1>15. CASE NoSize(t)
  <2>1. /\ t.ptr >= t.size /\ ~Usable(SizeOf(t.data)) /\ Quiet
        /\ (gen = 1 => w'.exited)
        /\ gen = 2 => /\ w'.header /\ w'.ptr = 0 /\ w'.toggle = 1 - ToggleOf(t.data[1])
                      /\ ~w'.exited
    BY <1>15 DEF NoSize
  <2>2. ~Usable(z) /\ l = 1
    <3>1. p + 1 = DataHeader /\ SizeOf(t.data) = z  BY <1>2, <1>7, <2>1
    <3>2. p + l = DataHeader  BY <1>4, <2>1, <3>1
    <3> QED  BY <2>1, <3>1, <3>2
  <2>3. h.glitches # 0 /\ h.glitches > 0  BY <1>0, <1>4, <1>11, <2>2
  <2>4. ~h'.phantom /\ ~h'.misread /\ h'.seen = h.seen  BY <1>0, <2>1 DEF Quiet
  <2>5. h'.glitches # 0 /\ h'.glitches > 0 /\ h'.unsized <= h'.glitches  BY <1>0, <1>10, <2>3
  <2>6. CASE gen = 1
    <3>1. h'.seen + 1 = h'.sent  BY <1>4, <1>10, <2>2, <2>4, <2>6
    <3> QED  BY <1>9, <1>10, <2>1, <2>4, <2>5, <2>6, <3>1 DEF IInv
  <2>7. CASE gen = 2
    <3>1. Between'  BY <1>4, <1>10, <2>1, <2>2, <2>4, <2>7 DEF Between
    <3>2. gen' # 1 /\ ~w'.exited  BY <1>10, <2>1, <2>7
    <3> QED  BY <1>9, <2>4, <2>5, <3>1, <3>2 DEF IInv, InStep
  <2> QED  BY <1>0, <2>6, <2>7 DEF Typed
<1>16. CASE SizeRead(t)
  <2>1. /\ t.ptr >= t.size /\ Usable(SizeOf(t.data))
        /\ (w'.header <=> SizeOf(t.data) = DataHeader) /\ w'.ptr = 0
        /\ w'.size = SizeOf(t.data) - DataHeader
        /\ w'.toggle = 1 - ToggleOf(t.data[1]) /\ ~w'.exited
        /\ IF SizeOf(t.data) = DataHeader THEN Acts("data") ELSE Quiet
    BY <1>16 DEF SizeRead
  <2>2. p + 1 = DataHeader /\ SizeOf(t.data) = z /\ Usable(z)  BY <1>2, <1>7, <2>1
  <2>3. l = z - DataHeader + 1 /\ z >= DataHeader
    <3>1. p + l = z  BY <1>4, <2>2
    <3> QED  BY <2>2, <3>1, SizesAssumption DEF Usable
  <2>4. h.seen + 1 + h.unsized = h.sent /\ (gen = 1 => h.unsized = 0)  BY <1>4, <2>2
  <2>5. h'.unsized <= h'.glitches  BY <1>0, <1>10
  <2>6. CASE z = DataHeader
    <3>1. wire' = <<>> /\ w'.header /\ Acts("data")
      <4>1. l = 1  BY <2>3, <2>6
      <4> QED  BY <1>10, <2>1, <2>2, <2>6, <4>1
    <3>2. Tail(wire) = <<>>  BY <1>1, <3>1 DEF Taken
    <3>3. ~h'.phantom /\ ~h'.misread /\ h'.seen = h.seen + 1  BY <1>0, <1>2, <3>1, <3>2 DEF Acts
    <3>4. Between'
      <4>1. h'.seen + h'.unsized = h'.sent  BY <1>10, <2>4, <3>3
      <4> QED  BY <1>10, <2>1, <2>4, <3>1, <4>1 DEF Between
    <3>5. h'.glitches = 0 => Agreed'  BY <1>10, <1>12, <2>1, <3>1 DEF Agreed
    <3> QED  BY <1>9, <2>1, <2>5, <3>3, <3>4, <3>5 DEF IInv, InStep
  <2>7. CASE z # DataHeader
    <3>1. wire' # <<>> /\ ~w'.header /\ Quiet
      <4>1. l # 1  BY <2>3, <2>7, SizesAssumption
      <4> QED  BY <1>10, <2>1, <2>2, <2>7, <4>1
    <3>2. ~h'.phantom /\ ~h'.misread /\ h'.seen = h.seen  BY <1>0, <3>1 DEF Quiet
    <3>3. InPayload'
      <4>1. w'.ptr + Len(wire') = w'.size  BY <1>10, <2>1, <2>2, <2>3, SizesAssumption
      <4> QED  BY <1>2, <1>10, <2>4, <3>1, <3>2, <4>1 DEF InPayload
    <3>4. h'.glitches = 0 => Agreed'  BY <1>10, <1>12, <2>1, <3>1 DEF Agreed
    <3> QED  BY <1>9, <2>1, <2>5, <3>2, <3>3, <3>4 DEF IInv, InStep
  <2> QED  BY <2>6, <2>7
<1> QED  BY <1>1, <1>2, <1>13, <1>14, <1>15, <1>16 DEF Taken, DataDone, StatusDone, Misreads

LEMMA WalkPayload == ASSUME IInv, WalkByte, ~h.misread, InPayload PROVE IInv'
<1>0. Typed /\ ~w.exited /\ h.unsized <= h.glitches /\ ~h.phantom  BY DEF IInv, WalkByte
<1>1. PICK t \in Walks, p \in Nat, l \in Nat : Taken(t, p, l)  BY <1>0, WalkFacts
<1>2. /\ p + l = t.size /\ ~t.header /\ t.ptr = p + 1 /\ frame = "data" /\ wire # <<>>
      /\ t.toggle = w.toggle /\ ~t.exited /\ ~w.header /\ t.size \in Nat
  BY <1>1 DEF Taken, InPayload, Walks
<1>3. Typed'  BY <1>0, WalkFacts
<1>4. /\ h'.sent = h.sent /\ h'.glitches = h.glitches /\ h'.unsized = h.unsized
      /\ gen' = gen /\ frame' = frame /\ toggle' = toggle /\ Len(wire') = l - 1
      /\ (wire' = <<>> <=> l = 1) /\ l > 0
  BY <1>1 DEF Taken
<1>5. h.seen + 1 + h.unsized = h.sent /\ (gen = 1 => h.unsized = 0)  BY DEF InPayload
<1>6. h.glitches = 0 => w.toggle = toggle  BY <1>0, <1>2 DEF IInv, Agreed
<1>7. h'.unsized <= h'.glitches  BY <1>0, <1>4
<1>8. CASE More(t)
  <2>1. w' = t /\ Quiet /\ p + 1 < t.size  BY <1>2, <1>8 DEF More
  <2>2. ~h'.phantom /\ ~h'.misread /\ h'.seen = h.seen /\ ~w'.exited  BY <1>0, <1>2, <2>1 DEF Quiet
  <2>3. l # 1 /\ (p + 1) + (l - 1) = t.size  BY <1>2, <2>1
  <2>4. w'.ptr = p + 1 /\ ~w'.header /\ w'.size = t.size /\ w'.toggle = w.toggle  BY <1>2, <2>1
  <2>5. InPayload'  BY <1>2, <1>4, <1>5, <2>2, <2>3, <2>4 DEF InPayload
  <2>6. h'.glitches = 0 => Agreed'  BY <1>4, <1>6, <2>4 DEF Agreed
  <2> QED  BY <1>3, <1>7, <2>2, <2>5, <2>6 DEF IInv, InStep
<1>9. CASE DataDone(t)
  <2>1. /\ t.ptr >= t.size /\ w'.header /\ w'.ptr = 0 /\ w'.toggle = t.toggle /\ ~w'.exited
        /\ Acts("data")
    BY <1>9 DEF DataDone
  <2>2. wire' = <<>>
    <3>1. l = 1  BY <1>2, <1>4, <2>1
    <3> QED  BY <1>4, <3>1
  <2>3. ~h'.phantom /\ ~h'.misread /\ h'.seen = h.seen + 1
    <3>1. Tail(wire) = <<>>  BY <1>1, <2>2 DEF Taken
    <3> QED  BY <1>0, <1>2, <2>1, <3>1 DEF Acts
  <2>4. Between'
    <3>1. h'.seen + h'.unsized = h'.sent  BY <1>4, <1>5, <2>3
    <3> QED  BY <1>4, <1>5, <2>1, <2>2, <3>1 DEF Between
  <2>5. h'.glitches = 0 => Agreed'  BY <1>2, <1>4, <1>6, <2>1, <2>2 DEF Agreed
  <2> QED  BY <1>3, <1>7, <2>1, <2>3, <2>4, <2>5 DEF IInv, InStep
<1> QED  BY <1>1, <1>2, <1>8, <1>9 DEF Taken, Rejects, Misreads, StatusDone, NoSize, SizeRead

LEMMA WalkByteStep == ASSUME IInv, WalkByte PROVE IInv'
<1>1. wire # <<>> /\ ~w.exited  BY DEF WalkByte
<1>2. h.misread \/ InStep  BY <1>1 DEF IInv
<1> QED  BY <1>1, <1>2, MisreadStep, WalkStatus, WalkHeader, WalkPayload DEF InStep, Between

-----------------------------------------------------------------------------
(* The device.                                                               *)

(* What the device sends: a frame of the kind, whose header is followed by   *)
(* the bytes.                                                                *)
LEMMA SendFacts ==
    ASSUME Typed, NEW kind \in {"status", "data"}, NEW bytes \in Seq(Nat),
           NEW glitch \in Glitches \cup {"size"}, Sends(kind, bytes, glitch)
    PROVE  /\ Typed' /\ wire = <<>> /\ wire' # <<>> /\ Len(wire') = 1 + Len(bytes)
           /\ IsStatus(wire'[1]) <=> kind = "status"
           /\ \A j \in 1 .. Len(bytes) : wire'[j + 1] = bytes[j]
           /\ glitch = "none" => ToggleOf(wire'[1]) = toggle /\ ZeroOf(wire'[1]) = 0
           /\ w' = w /\ gen' = gen /\ frame' = kind /\ toggle' = 1 - toggle /\ ~w.exited
           /\ h'.sent = h.sent + 1 /\ h'.seen = h.seen
           /\ (h'.phantom <=> h.phantom) /\ (h'.misread <=> h.misread)
           /\ h'.glitches = h.glitches + (IF glitch = "none" THEN 0 ELSE 1)
           /\ h'.unsized = h.unsized + (IF glitch = "size" THEN 1 ELSE 0)
<1>1. toggle \in {0, 1} /\ h \in Histories  BY DEF Typed
<1>2. PICK tg \in {0, 1}, zero \in {0, 1}, st \in BOOLEAN :
         /\ tg = (IF glitch = "toggle" THEN 1 - toggle ELSE toggle)
         /\ zero = (IF glitch = "zero" THEN 1 ELSE 0) /\ st = (kind = "status")
  <2>1. PICK st \in BOOLEAN : st = (kind = "status")  OBVIOUS
  <2>2. PICK zero \in {0, 1} : zero = (IF glitch = "zero" THEN 1 ELSE 0)  OBVIOUS
  <2>3. PICK tg \in {0, 1} : tg = (IF glitch = "toggle" THEN 1 - toggle ELSE toggle)  BY <1>1
  <2> QED  BY <2>1, <2>2, <2>3
<1>3. PICK n \in {0, 1}, u \in {0, 1} :
         n = (IF glitch = "none" THEN 0 ELSE 1) /\ u = (IF glitch = "size" THEN 1 ELSE 0)
  OBVIOUS
<1>4. /\ wire = <<>> /\ ~w.exited /\ frame' = kind /\ toggle' = 1 - toggle
      /\ wire' = <<HeaderByte(st, tg, zero)>> \o bytes
      /\ h' = [h EXCEPT !.sent = @ + 1, !.glitches = @ + n, !.unsized = @ + u]
      /\ gen' = gen /\ w' = w
  BY <1>2, <1>3 DEF Sends
<1>5. PICK y \in Nat : /\ y = HeaderByte(st, tg, zero) /\ (IsStatus(y) <=> st)
                       /\ ToggleOf(y) = tg /\ ZeroOf(y) = zero
  BY HeaderByteFacts
<1>6. /\ wire' \in Seq(Nat) /\ Len(wire') = 1 + Len(bytes) /\ wire'[1] = y
      /\ \A j \in 1 .. Len(bytes) : wire'[j + 1] = bytes[j]
  <2>1. wire' = <<y>> \o bytes /\ <<y>> \in Seq(Nat) /\ Len(<<y>>) = 1 /\ <<y>>[1] = y
    BY <1>4, <1>5
  <2>2. PICK m \in Nat : m = Len(bytes)  OBVIOUS
  <2>3. PICK x \in Seq(Nat) : x = <<y>> /\ Len(x) = 1 /\ x[1] = y  BY <2>1
  <2>4. /\ x \o bytes \in Seq(Nat) /\ Len(x \o bytes) = Len(x) + Len(bytes)
        /\ \A i \in 1 .. Len(x) + Len(bytes) :
              (x \o bytes)[i] = IF i <= Len(x) THEN x[i] ELSE bytes[i - Len(x)]
    BY ConcatProperties
  <2>5. \A i \in 1 .. 1 + m : (x \o bytes)[i] = IF i <= 1 THEN x[i] ELSE bytes[i - 1]
    BY <2>2, <2>3, <2>4
  <2>6. (x \o bytes)[1] = y  BY <2>3, <2>5
  <2>7. \A j \in 1 .. m : j + 1 \in 1 .. 1 + m /\ ~(j + 1 <= 1) /\ (j + 1) - 1 = j  OBVIOUS
  <2>8. \A j \in 1 .. m : (x \o bytes)[j + 1] = bytes[j]  BY <2>5, <2>7
  <2> QED  BY <2>1, <2>2, <2>3, <2>4, <2>6, <2>8
<1>7. wire' # <<>>
  <2>1. Len(wire') # 0  BY <1>6
  <2> QED  BY <2>1
<1>8. /\ h'.sent = h.sent + 1 /\ h'.seen = h.seen /\ h'.glitches = h.glitches + n
      /\ h'.unsized = h.unsized + u /\ h'.phantom = h.phantom /\ h'.misread = h.misread
  BY <1>1, <1>4 DEF Histories
<1>9. h' \in Histories
  <2>1. h.sent + 1 \in Nat /\ h.glitches + n \in Nat /\ h.unsized + u \in Nat
    BY <1>1 DEF Histories
  <2>2. PICK a \in Nat, b \in Nat, c \in Nat :
           a = h.sent + 1 /\ b = h.glitches + n /\ c = h.unsized + u
    BY <2>1
  <2>3. h' = [h EXCEPT !.sent = a, !.glitches = b, !.unsized = c]  BY <1>4, <2>2
  <2> QED  BY <1>1, <2>3 DEF Histories
<1>10. Typed'
  <2>1. toggle' \in {0, 1}  BY <1>1, <1>4
  <2> QED  BY <1>4, <1>6, <1>9, <2>1 DEF Typed
<1>11. glitch = "none" => ToggleOf(wire'[1]) = toggle /\ ZeroOf(wire'[1]) = 0
  BY <1>2, <1>5, <1>6
<1>12. IsStatus(wire'[1]) <=> kind = "status"  BY <1>2, <1>5, <1>6
<1> QED  BY <1>3, <1>4, <1>6, <1>7, <1>8, <1>10, <1>11, <1>12

(* A frame that is sent as its header says keeps the invariant.              *)
LEMMA SendKeeps ==
    ASSUME IInv, NEW kind \in {"status", "data"}, NEW bytes \in Seq(Nat),
           NEW glitch \in Glitches \cup {"size"}, Sends(kind, bytes, glitch),
           ~h.misread /\ Between => InStep'
    PROVE  IInv'
<1>0. Typed /\ ~w.exited /\ wire = <<>> /\ w' = w /\ gen' = gen
  BY SendFacts DEF IInv
<1>1. h.glitches \in Nat /\ h.unsized \in Nat  BY <1>0 DEF Typed, Histories
<1>2. ~h.misread => Between
  BY <1>0 DEF IInv, InStep, InStatus, InHeader, InPayload
<1>3. ~h'.misread => InStep'  BY <1>0, <1>2, SendFacts
<1>4. h'.unsized <= h'.glitches /\ (h'.glitches = 0 => h.glitches = 0 /\ glitch = "none")
  <2>1. h.unsized <= h.glitches  BY DEF IInv
  <2>2. /\ h'.glitches = h.glitches + (IF glitch = "none" THEN 0 ELSE 1)
        /\ h'.unsized = h.unsized + (IF glitch = "size" THEN 1 ELSE 0)
    BY <1>0, SendFacts
  <2>3. CASE glitch = "none"  BY <1>1, <2>1, <2>2, <2>3
  <2>4. CASE glitch = "size"  BY <1>1, <2>1, <2>2, <2>4
  <2>5. CASE glitch # "none" /\ glitch # "size"  BY <1>1, <2>1, <2>2, <2>5
  <2> QED  BY <2>3, <2>4, <2>5
<1>5. h'.glitches = 0 => Agreed'
  <2> SUFFICES ASSUME h'.glitches = 0 PROVE Agreed'
      OBVIOUS
  <2>1. h.glitches = 0 /\ glitch = "none"  BY <1>4
  <2>2. w.toggle = toggle /\ Between  BY <1>0, <1>2, <2>1 DEF IInv, Agreed
  <2>3. /\ wire' # <<>> /\ ToggleOf(wire'[1]) = toggle /\ ZeroOf(wire'[1]) = 0
        /\ toggle' = 1 - toggle
    BY <1>0, <2>1, SendFacts
  <2>4. w'.header /\ w'.ptr = 0 /\ w'.toggle = toggle  BY <1>0, <2>2 DEF Between
  <2>5. FrameByte(1)' = wire'[1]
    <3>1. 1 - 0 = 1 /\ ~(1 <= 0)  OBVIOUS
    <3> QED  BY <2>4, <3>1 DEF FrameByte, At
  <2>6. 1 - toggle' = toggle
    <3>1. toggle \in {0, 1}  BY <1>0 DEF Typed
    <3> QED  BY <2>3, <3>1
  <2> QED  BY <2>3, <2>4, <2>5, <2>6 DEF Agreed
<1>6. Typed' /\ (h'.phantom <=> h.phantom) /\ (h'.misread <=> h.misread)  BY <1>0, SendFacts
<1> QED  BY <1>0, <1>3, <1>4, <1>5, <1>6 DEF IInv

(* The bytes of a header after byte 0, with the payload.                     *)
LEMMA SizedBytes ==
    ASSUME NEW size \in 0 .. 7, NEW n \in Nat, NEW v \in 0 .. 3
    PROVE  LET bytes == <<Byte(size \div 2), Byte(size % 2)>> \o [i \in 1 .. n |-> Byte(v)]
           IN /\ bytes \in Seq(Nat) /\ Len(bytes) = 2 + n
              /\ 2 * (bytes[1] % 4) + (bytes[2] % 2) = size
<1>1. PICK a \in Nat, b \in Nat : /\ a = Byte(size \div 2) /\ b = Byte(size % 2)
                                  /\ 2 * (a % 4) + (b % 2) = size
  BY SizeField
<1>2. PICK x \in Seq(Nat) : x = <<a, b>> /\ Len(x) = 2 /\ x[1] = a /\ x[2] = b
  <2>1. <<a, b>> \in Seq(Nat) /\ Len(<<a, b>>) = 2 /\ <<a, b>>[1] = a /\ <<a, b>>[2] = b  OBVIOUS
  <2> QED  BY <2>1
<1>3. PICK y \in Seq(Nat) : y = [i \in 1 .. n |-> Byte(v)] /\ Len(y) = n
  <2>1. Byte(v) \in Nat  BY ByteFacts
  <2>2. PICK e \in Nat : e = Byte(v)  BY <2>1
  <2>3. [i \in 1 .. n |-> e] \in Seq(Nat) /\ Len([i \in 1 .. n |-> e]) = n  OBVIOUS
  <2> QED  BY <2>2, <2>3
<1>4. /\ x \o y \in Seq(Nat) /\ Len(x \o y) = Len(x) + Len(y)
      /\ \A i \in 1 .. Len(x) + Len(y) : (x \o y)[i] = IF i <= Len(x) THEN x[i] ELSE y[i - Len(x)]
  BY ConcatProperties
<1>5. (x \o y)[1] = a /\ (x \o y)[2] = b
  <2>1. 1 \in 1 .. Len(x) + Len(y) /\ 2 \in 1 .. Len(x) + Len(y) /\ 1 <= Len(x) /\ 2 <= Len(x)
    BY <1>2, <1>3
  <2> QED  BY <1>2, <1>4, <2>1
<1>6. Len(x \o y) = 2 + n  BY <1>2, <1>3, <1>4
<1> QED  BY <1>1, <1>2, <1>3, <1>4, <1>5, <1>6

(* The size that the header of a data frame gives is the one it is sent for. *)
LEMMA DeclaredNext ==
    ASSUME Typed, Between, NEW bytes \in Seq(Nat), Len(bytes) >= 2, NEW glitch \in Glitches \cup {"size"},
           Sends("data", bytes, glitch)
    PROVE  Declared' = 2 * (bytes[1] % 4) + (bytes[2] % 2)
<1>1. w'.ptr = 0  BY SendFacts DEF Between
<1>2. \A j \in 1 .. Len(bytes) : wire'[j + 1] = bytes[j]  BY SendFacts
<1>3. 1 \in 1 .. Len(bytes) /\ 2 \in 1 .. Len(bytes) /\ 1 + 1 = 2 /\ 2 + 1 = 3  OBVIOUS
<1>4. wire'[2] = bytes[1] /\ wire'[3] = bytes[2]  BY <1>2, <1>3
<1>5. 2 - 0 = 2 /\ 3 - 0 = 3 /\ ~(2 <= 0) /\ ~(3 <= 0)  OBVIOUS
<1>6. FrameByte(2)' = wire'[2] /\ FrameByte(3)' = wire'[3]  BY <1>1, <1>5 DEF FrameByte, At
<1> QED  BY <1>4, <1>6 DEF Declared

LEMMA SendStatusStep == ASSUME IInv, SendStatus PROVE IInv'
<1>0. Typed  BY DEF IInv
<1>1. PICK v \in 0 .. 3, glitch \in Glitches :
         Sends("status", [i \in 1 .. StatusHeader - 1 |-> Byte(v)], glitch)
  BY DEF SendStatus
<1>2. PICK n \in Nat : n = StatusHeader - 1  BY SizesAssumption
<1>3. PICK bytes \in Seq(Nat) : bytes = [i \in 1 .. StatusHeader - 1 |-> Byte(v)] /\ Len(bytes) = n
  <2>1. PICK e \in Nat : e = Byte(v)  BY ByteFacts
  <2>2. [i \in 1 .. n |-> e] \in Seq(Nat) /\ Len([i \in 1 .. n |-> e]) = n  OBVIOUS
  <2> QED  BY <1>2, <2>1, <2>2
<1>4. Sends("status", bytes, glitch)  BY <1>1, <1>3
<1>5. ASSUME ~h.misread, Between PROVE InStatus'
  <2>1. /\ wire' # <<>> /\ Len(wire') = 1 + Len(bytes) /\ IsStatus(wire'[1])
        /\ w' = w /\ gen' = gen /\ frame' = "status"
        /\ h'.sent = h.sent + 1 /\ h'.seen = h.seen
        /\ h'.unsized = h.unsized + (IF glitch = "size" THEN 1 ELSE 0)
    BY <1>0, <1>4, SendFacts
  <2>2. Len(wire') = StatusHeader  BY <1>2, <1>3, <2>1, SizesAssumption
  <2>3. h.seen \in Nat /\ h.unsized \in Nat /\ h.sent \in Nat  BY <1>0 DEF Typed, Histories
  <2>4. glitch # "size"  BY DEF Glitches
  <2>5. h.seen + h.unsized = h.sent /\ (gen = 1 => h.unsized = 0) /\ w.header /\ w.ptr = 0
    BY <1>5 DEF Between
  <2>6. h'.unsized = h.unsized  BY <2>1, <2>3, <2>4
  <2>7. h'.seen + 1 + h'.unsized = h'.sent  BY <2>1, <2>3, <2>5, <2>6
  <2>8. w'.ptr = 0 /\ w'.ptr + Len(wire') = StatusHeader /\ ~(w'.ptr > 0)
    BY <2>1, <2>2, <2>5, SizesAssumption
  <2> QED  BY <2>1, <2>5, <2>6, <2>7, <2>8 DEF InStatus
<1> QED  BY <1>4, <1>5, SendKeeps DEF InStep

LEMMA SendDataStep == ASSUME IInv, SendData PROVE IInv'
<1>0. Typed  BY DEF IInv
<1>1. PICK size \in DataHeader .. MaxDataSize, v \in 0 .. 3, glitch \in Glitches :
         Sends("data", <<Byte(size \div 2), Byte(size % 2)>> \o [i \in 1 .. size - 3 |-> Byte(v)],
               glitch)
  BY DEF SendData
<1>2. size \in 0 .. 7 /\ size - 3 \in Nat /\ size \in Nat  BY SizesAssumption
<1>3. PICK bytes \in Seq(Nat) :
         /\ bytes = <<Byte(size \div 2), Byte(size % 2)>> \o [i \in 1 .. size - 3 |-> Byte(v)]
         /\ Len(bytes) = 2 + (size - 3) /\ 2 * (bytes[1] % 4) + (bytes[2] % 2) = size
  <2> DEFINE x == <<Byte(size \div 2), Byte(size % 2)>> \o [i \in 1 .. size - 3 |-> Byte(v)]
  <2>1. /\ x \in Seq(Nat) /\ Len(x) = 2 + (size - 3)
        /\ 2 * (x[1] % 4) + (x[2] % 2) = size
    BY <1>2, SizedBytes, ZenonT(60)
  <2> HIDE DEF x
  <2> QED  BY <2>1 DEF x
<1>4. Sends("data", bytes, glitch)  BY <1>1, <1>3
<1>5. ASSUME ~h.misread, Between PROVE InHeader'
  <2>1. /\ wire' # <<>> /\ Len(wire') = 1 + Len(bytes) /\ ~IsStatus(wire'[1])
        /\ w' = w /\ gen' = gen /\ frame' = "data"
        /\ h'.sent = h.sent + 1 /\ h'.seen = h.seen
        /\ h'.unsized = h.unsized + (IF glitch = "size" THEN 1 ELSE 0)
    BY <1>0, <1>4, SendFacts
  <2>2. Len(wire') = size  BY <1>2, <1>3, <2>1
  <2>3. h.seen \in Nat /\ h.unsized \in Nat /\ h.sent \in Nat  BY <1>0 DEF Typed, Histories
  <2>4. glitch # "size"  BY DEF Glitches
  <2>5. h.seen + h.unsized = h.sent /\ (gen = 1 => h.unsized = 0) /\ w.header /\ w.ptr = 0
    BY <1>5 DEF Between
  <2>6. h'.unsized = h.unsized  BY <2>1, <2>3, <2>4
  <2>7. h'.seen + 1 + h'.unsized = h'.sent  BY <2>1, <2>3, <2>5, <2>6
  <2>8. w'.ptr = 0 /\ w'.ptr + Len(wire') = size /\ ~(w'.ptr > 0) /\ w'.ptr < DataHeader
    BY <1>2, <2>1, <2>2, <2>5, SizesAssumption
  <2>9. Len(bytes) >= 2  BY <1>2, <1>3
  <2>10. Declared' = size  BY <1>0, <1>3, <1>4, <1>5, <2>9, DeclaredNext
  <2>11. Usable(Declared)'
    <3>1. DataHeader <= size /\ size <= MaxDataSize  BY SizesAssumption
    <3> QED  BY <2>10, <3>1 DEF Usable
  <2> QED  BY <2>1, <2>5, <2>6, <2>7, <2>8, <2>10, <2>11 DEF InHeader
<1> QED  BY <1>4, <1>5, SendKeeps DEF InStep

LEMMA SendUnsizedStep == ASSUME IInv, SendUnsized PROVE IInv'
<1>0. Typed  BY DEF IInv
<1>1. PICK size \in (0 .. DataHeader - 1) \cup (MaxDataSize + 1 .. 7) :
         Sends("data", <<Byte(size \div 2), Byte(size % 2)>> \o
                       [i \in 1 .. DataHeader - 3 |-> Byte(0)], "size")
  BY DEF SendUnsized
<1>2. size \in 0 .. 7 /\ DataHeader - 3 \in Nat /\ 0 \in 0 .. 3  BY SizesAssumption
<1>3. PICK bytes \in Seq(Nat) :
         /\ bytes = <<Byte(size \div 2), Byte(size % 2)>> \o [i \in 1 .. DataHeader - 3 |-> Byte(0)]
         /\ Len(bytes) = 2 + (DataHeader - 3) /\ 2 * (bytes[1] % 4) + (bytes[2] % 2) = size
  <2> DEFINE x == <<Byte(size \div 2), Byte(size % 2)>> \o [i \in 1 .. DataHeader - 3 |-> Byte(0)]
  <2>1. /\ x \in Seq(Nat) /\ Len(x) = 2 + (DataHeader - 3)
        /\ 2 * (x[1] % 4) + (x[2] % 2) = size
    BY <1>2, SizedBytes, ZenonT(60)
  <2> HIDE DEF x
  <2> QED  BY <2>1 DEF x
<1>4. Sends("data", bytes, "size")  BY <1>1, <1>3
<1>5. ASSUME ~h.misread, Between PROVE InHeader'
  <2>1. /\ wire' # <<>> /\ Len(wire') = 1 + Len(bytes) /\ ~IsStatus(wire'[1])
        /\ w' = w /\ gen' = gen /\ frame' = "data"
        /\ h'.sent = h.sent + 1 /\ h'.seen = h.seen /\ h'.unsized = h.unsized + 1
    BY <1>0, <1>4, SendFacts
  <2>2. Len(wire') = DataHeader  BY <1>2, <1>3, <2>1, SizesAssumption
  <2>3. h.seen \in Nat /\ h.unsized \in Nat /\ h.sent \in Nat  BY <1>0 DEF Typed, Histories
  <2>4. h.seen + h.unsized = h.sent /\ (gen = 1 => h.unsized = 0) /\ w.header /\ w.ptr = 0
    BY <1>5 DEF Between
  <2>5. /\ h'.seen + h'.unsized = h'.sent /\ h'.unsized > 0 /\ (gen' = 1 => h'.unsized = 1)
    BY <2>1, <2>3, <2>4
  <2>6. w'.ptr = 0 /\ w'.ptr + Len(wire') = DataHeader /\ ~(w'.ptr > 0) /\ w'.ptr < DataHeader
    BY <1>2, <2>1, <2>2, <2>4, SizesAssumption
  <2>7. Len(bytes) >= 2  BY <1>2, <1>3
  <2>8. Declared' = size  BY <1>0, <1>3, <1>4, <1>5, <2>7, DeclaredNext
  <2>9. ~Usable(Declared)'
    <3>1. ~(DataHeader <= size /\ size <= MaxDataSize)  BY SizesAssumption
    <3> QED  BY <2>8, <3>1 DEF Usable
  <2> QED  BY <2>1, <2>4, <2>5, <2>6, <2>9 DEF InHeader
<1> QED  BY <1>4, <1>5, SendKeeps DEF InStep

LEMMA LoseFrameStep == ASSUME IInv, LoseFrame PROVE IInv'
<1>1. /\ wire = <<>> /\ ~w.exited /\ toggle' = 1 - toggle /\ h' = [h EXCEPT !.glitches = @ + 1]
      /\ gen' = gen /\ wire' = wire /\ frame' = frame /\ w' = w
  BY DEF LoseFrame
<1>2. Typed /\ h \in Histories /\ toggle \in {0, 1} /\ h.glitches \in Nat /\ h.unsized \in Nat
  BY DEF IInv, Typed, Histories
<1>3. PICK n \in Nat : n = h.glitches + 1  BY <1>2
<1>4. /\ h' \in Histories /\ h'.sent = h.sent /\ h'.seen = h.seen /\ h'.glitches = n
      /\ h'.unsized = h.unsized /\ h'.phantom = h.phantom /\ h'.misread = h.misread
  <2>1. h' = [h EXCEPT !.glitches = n]  BY <1>1, <1>3
  <2> QED  BY <1>2, <2>1 DEF Histories
<1>5. Typed'
  <2>1. toggle' \in {0, 1}  BY <1>1, <1>2
  <2> QED  BY <1>1, <1>2, <1>4, <2>1 DEF Typed
<1>6. h'.glitches # 0 /\ h'.unsized <= h'.glitches  BY <1>2, <1>3, <1>4 DEF IInv
<1>7. ~h'.misread => InStep'
  <2> SUFFICES ASSUME ~h.misread PROVE Between'
      BY <1>4 DEF InStep
  <2>1. Between  BY <1>1 DEF IInv, InStep, InStatus, InHeader, InPayload
  <2> QED  BY <1>1, <1>4, <2>1 DEF Between
<1> QED  BY <1>1, <1>4, <1>5, <1>6, <1>7 DEF IInv

-----------------------------------------------------------------------------
LEMMA InitIInv == Init => IInv
<1> SUFFICES ASSUME Init PROVE IInv
    OBVIOUS
<1>1. w = Start /\ gen \in {1, 2} /\ wire = <<>> /\ frame = "none" /\ toggle = 0
  BY DEF Init
<1>2. /\ h.sent = 0 /\ h.seen = 0 /\ h.glitches = 0 /\ h.unsized = 0 /\ ~h.phantom /\ ~h.misread
      /\ h \in Histories
  BY DEF Init, Histories
<1>3. w \in Walks /\ w.header /\ w.ptr = 0 /\ w.toggle = 0 /\ ~w.exited
  <2>1. 0 \in 0 .. 3  OBVIOUS
  <2>2. PICK e \in Nat : e = Byte(0)  BY <2>1, ByteFacts
  <2>3. [i \in 1 .. MaxDataSize |-> e] \in [1 .. MaxDataSize -> Nat]  OBVIOUS
  <2> QED  BY <1>1, <2>2, <2>3 DEF Start, Walks
<1>4. Typed  BY <1>1, <1>2, <1>3 DEF Typed
<1>5. Between  BY <1>1, <1>2, <1>3 DEF Between
<1>6. Agreed  BY <1>1, <1>3 DEF Agreed
<1> QED  BY <1>2, <1>3, <1>4, <1>5, <1>6 DEF IInv, InStep

LEMMA NextIInv == IInv /\ [Next]_vars => IInv'
<1> SUFFICES ASSUME IInv, [Next]_vars PROVE IInv'
    OBVIOUS
<1>1. CASE UNCHANGED vars
  BY <1>1 DEF vars, IInv, Typed, InStep, Between, InStatus, InHeader, InPayload, Agreed, Declared,
              FrameByte, At, Usable
<1>2. CASE Next
  BY <1>2, SendStatusStep, SendDataStep, SendUnsizedStep, LoseFrameStep, WalkByteStep DEF Next
<1> QED  BY <1>1, <1>2

(* The inductive invariant: as long as no status header was rejected, the    *)
(* walk of capture_sm is at the byte of the frame that the device is at.     *)
THEOREM Invariance == Spec => []IInv
BY InitIInv, NextIInv, PTL DEF Spec

(* check_header and check_data_size of packet.c and gen1/capture.c lose      *)
(* nothing but the frame they reject.                                        *)
THEOREM BrokenFramesOnly == Spec => []OnlyBrokenLost
<1>1. IInv => OnlyBrokenLost
  <2> SUFFICES ASSUME IInv, wire = <<>>, ~w.exited, ~h.misread
               PROVE  w.header /\ w.ptr = 0 /\ h.seen = h.sent - h.unsized
      BY DEF OnlyBrokenLost, Boundary
  <2>1. Between  BY DEF IInv, InStep, InStatus, InHeader, InPayload
  <2>2. h.seen \in Nat /\ h.unsized \in Nat /\ h.sent \in Nat  BY DEF IInv, Typed, Histories
  <2> QED  BY <2>1, <2>2 DEF Between
<1> QED  BY <1>1, Invariance, PTL

(* Every frame that reaches status_event or data_event was sent, and the     *)
(* older device ends only a capture that had a glitch, before it acts on the *)
(* frame that it rejects.                                                    *)
THEOREM NoPhantoms == Spec => []NoPhantomFrame
<1>1. IInv => NoPhantomFrame
  <2> SUFFICES ASSUME IInv PROVE NoPhantomFrame
      OBVIOUS
  <2>1. h.seen \in Nat /\ h.sent \in Nat  BY DEF IInv, Typed, Histories
  <2>2. w.exited => h.seen = h.sent - 1  BY <2>1 DEF IInv
  <2> QED  BY <2>2 DEF IInv, NoPhantomFrame
<1> QED  BY <1>1, Invariance, PTL

-----------------------------------------------------------------------------
(* The session that the frames are captured in: the reason recorded at its   *)
(* end, and its limit, for every limit that is above the number of packets   *)
(* counted before the announcement.  (For the others packet_announce undoes  *)
(* the end of the capture, and both statements are wrong.)                   *)
LimitsAboveEarly == \A l \in Limits : l = 0 \/ l > MaxEarly

(* Where the counters can be.                                                *)
Counters == /\ limit \in Nat /\ left \in Int /\ captured \in Nat /\ early \in Nat
            /\ early <= MaxEarly
            /\ done \in BOOLEAN /\ gStop \in BOOLEAN /\ alive \in BOOLEAN
            /\ wrErr \in BOOLEAN /\ signal \in BOOLEAN

(* What is left of the limit is the limit without what was written, and the  *)
(* capture is done exactly when nothing is left.                             *)
LimitAccount == /\ limit = 0 => left = -1 /\ ~done
                /\ limit > 0 => /\ left >= 0 /\ captured + left = limit
                                /\ done <=> left = 0

(* Before the announcement the limit is not reached yet, and the raw queue   *)
(* is not in use.                                                            *)
EarlyShort == pc = "enabling" => /\ captured <= early
                                 /\ limit = 0 \/ limit > MaxEarly
                                 /\ queued = 0

(* The loop has ended for one of its four causes, and it persists.           *)
CauseKept == /\ gStop => signal \/ done
             /\ pc \in {"drain", "why"} => ~Running

SessionIInv == Counters /\ LimitAccount /\ EarlyShort /\ CauseKept

(* packet_new and the start of the session.                                  *)
LEMMA SessionInitially ==
  ASSUME LimitsAboveEarly, SessionInit
  PROVE  SessionIInv
<1> USE ConstantsAssumption DEF SessionInit
<1>1. limit \in Nat /\ (limit = 0 \/ limit > MaxEarly)
  BY DEF LimitsAboveEarly
<1>2. left = (IF limit = 0 THEN -1 ELSE limit) /\ captured = 0 /\ ~done
  OBVIOUS
<1>3. Counters
  <2>1. /\ left \in Int /\ captured \in Nat /\ early \in Nat /\ early <= MaxEarly
    BY <1>1, <1>2
  <2>2. /\ done \in BOOLEAN /\ gStop \in BOOLEAN /\ alive \in BOOLEAN
        /\ wrErr \in BOOLEAN /\ signal \in BOOLEAN
    BY Zenon
  <2> QED BY <1>1, <2>1, <2>2 DEF Counters
<1>4. LimitAccount
  BY <1>1, <1>2 DEF LimitAccount
<1>5. EarlyShort /\ CauseKept
  BY <1>1 DEF EarlyShort, CauseKept
<1> QED BY <1>3, <1>4, <1>5 DEF SessionIInv

(* A packet, whoever parses it, keeps the account, and the capture stays     *)
(* done once it is.                                                          *)
LEMMA FeedAccount ==
  ASSUME Counters, LimitAccount, PacketFeed, UNCHANGED limit
  PROVE  /\ LimitAccount' /\ left' \in Int /\ captured' \in Nat /\ done' \in BOOLEAN
         /\ done => done'
         /\ captured' <= captured + 1
<1>1. CASE done
  BY <1>1 DEF PacketFeed, packetVars, Counters, LimitAccount
<1>2. CASE ~done
  <2>1. /\ captured' = captured + 1 /\ left' = (IF left > 0 THEN left - 1 ELSE -1)
        /\ done' \in BOOLEAN /\ (done' <=> left' = 0)
    BY <1>2 DEF PacketFeed
  <2> QED BY <1>2, <2>1 DEF Counters, LimitAccount
<1> QED BY <1>1, <1>2

(* Data that the main thread reads while it waits for an ACK.                *)
LEMMA SyncFeeds == SessionIInv /\ (EnableRead \/ StopRead) => SessionIInv'
<1> SUFFICES ASSUME SessionIInv, EnableRead \/ StopRead PROVE SessionIInv'
  OBVIOUS
<1> USE ConstantsAssumption DEF SessionIInv
<1>1. PacketFeed /\ UNCHANGED limit /\ gStop' = (gStop \/ done')
  BY DEF EnableRead, StopRead, SyncFeed, sourceVars
<1>2. /\ LimitAccount' /\ left' \in Int /\ captured' \in Nat /\ done' \in BOOLEAN
      /\ done => done'
      /\ captured' <= captured + 1
  BY <1>1, FeedAccount
<1>3. CASE EnableRead
  <2>1. /\ early' = early + 1 /\ early < MaxEarly /\ pc = "enabling" /\ pc' = "enabling"
        /\ UNCHANGED <<limit, queued, alive, wrErr, signal>>
    BY <1>3 DEF EnableRead, sourceVars
  <2>2. Counters'
    BY <1>1, <1>2, <2>1 DEF Counters
  <2>3. EarlyShort'
    BY <1>2, <2>1 DEF EarlyShort, Counters
  <2>4. CauseKept'
    BY <1>1, <1>2, <2>1 DEF CauseKept, Counters
  <2> QED BY <1>2, <2>2, <2>3, <2>4
<1>4. CASE StopRead
  <2>1. /\ pc = "stopping" /\ pc' = "stopping"
        /\ UNCHANGED <<limit, early, alive, wrErr, signal>>
    BY <1>4 DEF StopRead, sourceVars
  <2>2. Counters'
    BY <1>1, <1>2, <2>1 DEF Counters
  <2>3. EarlyShort' /\ CauseKept'
    BY <1>1, <1>2, <2>1 DEF EarlyShort, CauseKept, Counters
  <2> QED BY <1>2, <2>2, <2>3
<1> QED BY <1>3, <1>4

(* data_cb on the parser thread.                                             *)
LEMMA WorkFeeds == SessionIInv /\ WorkStep => SessionIInv'
<1> SUFFICES ASSUME SessionIInv, WorkStep PROVE SessionIInv'
  OBVIOUS
<1> USE DEF SessionIInv
<1>1. CASE Parse
  <2>1. /\ PacketFeed /\ queued > 0
        /\ UNCHANGED <<limit, pc, gStop, alive, wrErr, early, signal>>
    BY <1>1 DEF Parse, sourceVars
  <2>2. /\ LimitAccount' /\ left' \in Int /\ captured' \in Nat /\ done' \in BOOLEAN
        /\ done => done'
    BY <2>1, FeedAccount
  <2>3. pc # "enabling"
    BY <2>1 DEF EarlyShort
  <2>4. Counters'
    BY <2>1, <2>2 DEF Counters
  <2>5. EarlyShort'
    BY <2>1, <2>3 DEF EarlyShort
  <2>6. CauseKept'
    BY <2>1, <2>2 DEF CauseKept, Running, Counters
  <2> QED BY <2>2, <2>4, <2>5, <2>6
<1>2. CASE Wake
  <2>1. /\ gStop' = (gStop \/ done)
        /\ UNCHANGED <<limit, left, done, captured, pc, alive, wrErr, early, queued, signal>>
    BY <1>2 DEF Wake, sourceVars, packetVars
  <2>2. Counters' /\ LimitAccount' /\ EarlyShort'
    BY <2>1 DEF Counters, LimitAccount, EarlyShort
  <2>3. CauseKept'
    BY <2>1 DEF CauseKept, Running, Counters
  <2> QED BY <2>2, <2>3
<1> QED BY <1>1, <1>2 DEF WorkStep

(* packet_announce resets done, which was not set: nothing of the limit's    *)
(* end is forgotten.                                                         *)
LEMMA AnnounceArms == SessionIInv /\ Announce => SessionIInv'
<1> SUFFICES ASSUME SessionIInv, Announce PROVE SessionIInv'
  OBVIOUS
<1> USE ConstantsAssumption DEF SessionIInv
<1>1. /\ pc = "enabling" /\ pc' = "loop" /\ done' = FALSE
      /\ UNCHANGED <<limit, left, captured, gStop, alive, wrErr, early, queued, signal>>
  BY DEF Announce, sourceVars
<1>2. ~done
  BY <1>1 DEF Counters, LimitAccount, EarlyShort
<1>3. Counters' /\ LimitAccount' /\ EarlyShort'
  BY <1>1, <1>2 DEF Counters, LimitAccount, EarlyShort
<1>4. CauseKept'
  BY <1>1, <1>2 DEF CauseKept, Counters
<1> QED BY <1>3, <1>4

(* The steps that leave the packet layer alone: control of the main thread,  *)
(* and what comes from outside.                                              *)
LEMMA ControlLeaves ==
  ASSUME SessionIInv,
         \/ EnableReadGated \/ EnableFails \/ LoopEvents \/ LoopEnd \/ Drain \/ Why
         \/ StopEnds \/ SigHandler \/ WriteFails \/ DeviceSends \/ TransportEnds
  PROVE  SessionIInv'
<1> USE DEF SessionIInv
<1>1. UNCHANGED <<limit, left, done, captured, early>>
  BY DEF EnableReadGated, EnableFails, LoopEvents, LoopEnd, Drain, Why, StopEnds,
      SigHandler, WriteFails, DeviceSends, TransportEnds, sourceVars, packetVars
<1>2. /\ gStop' \in BOOLEAN /\ alive' \in BOOLEAN /\ wrErr' \in BOOLEAN
      /\ signal' \in BOOLEAN
      /\ (gStop => gStop') /\ (signal => signal') /\ (wrErr => wrErr')
      /\ pc' \in {"drain", "why"} => (alive' => alive)
      /\ gStop' => gStop \/ signal' \/ done
  <2>1. CASE EnableReadGated
    BY <2>1 DEF EnableReadGated, Counters
  <2>2. CASE LoopEvents \/ LoopEnd \/ Drain \/ Why \/ StopEnds \/ DeviceSends
    <3>1. UNCHANGED <<gStop, alive, wrErr, signal>>
      BY <2>2 DEF LoopEvents, LoopEnd, Drain, Why, StopEnds, DeviceSends
    <3> QED BY <3>1 DEF Counters
  <2>3. CASE SigHandler
    BY <2>3 DEF SigHandler, Counters
  <2>4. CASE WriteFails
    BY <2>4 DEF WriteFails, Counters
  <2>5. CASE TransportEnds
    BY <2>5 DEF TransportEnds, Counters
  <2>6. CASE EnableFails
    <3>1. /\ UNCHANGED <<gStop, wrErr, signal>>
          /\ pc' \in {"enabling", "ended"}
      BY <2>6 DEF EnableFails
    <3>2. alive' \in BOOLEAN
      BY <2>6 DEF EnableFails, Counters
    <3> QED BY <3>1, <3>2 DEF Counters
  <2> QED BY <2>1, <2>2, <2>3, <2>4, <2>5, <2>6
<1>3. /\ pc' = "enabling" => pc = "enabling" /\ UNCHANGED queued
      /\ pc' \in {"drain", "why"} => pc \in {"drain", "why"} \/ ~Running
  BY DEF EnableReadGated, EnableFails, LoopEvents, LoopEnd, Drain, Why, StopEnds,
      SigHandler, WriteFails, DeviceSends, TransportEnds
<1>4. Counters' /\ LimitAccount'
  BY <1>1, <1>2 DEF Counters, LimitAccount
<1>5. EarlyShort'
  BY <1>1, <1>3 DEF EarlyShort
<1>6. CauseKept'
  BY <1>1, <1>2, <1>3 DEF CauseKept, Running, Counters
<1> QED BY <1>4, <1>5, <1>6

(* Every step preserves the invariant.                                       *)
LEMMA SessionSteps == SessionIInv /\ [SessionNext]_sessionVars => SessionIInv'
<1> SUFFICES ASSUME SessionIInv, [SessionNext]_sessionVars PROVE SessionIInv'
  OBVIOUS
<1>1. CASE EnableRead \/ StopRead   BY <1>1, SyncFeeds
<1>2. CASE WorkStep                 BY <1>2, WorkFeeds
<1>3. CASE Announce                 BY <1>3, AnnounceArms
<1>4. CASE \/ EnableReadGated \/ EnableFails \/ LoopEvents \/ LoopEnd \/ Drain \/ Why
           \/ StopEnds \/ SigHandler \/ WriteFails \/ DeviceSends \/ TransportEnds
  BY <1>4, ControlLeaves
<1>5. CASE UNCHANGED sessionVars
  BY <1>5 DEF sessionVars, SessionIInv, Counters, LimitAccount, EarlyShort, CauseKept, Running
<1> QED BY <1>1, <1>2, <1>3, <1>4, <1>5 DEF SessionNext, MainStep, Ended

(* The invariant holds in every reachable state.                             *)
LEMMA SessionInvariance ==
  ASSUME LimitsAboveEarly
  PROVE  SessionSpec => []SessionIInv
<1>1. SessionInit => SessionIInv
  BY SessionInitially
<1> QED BY <1>1, SessionSteps, PTL DEF SessionSpec

(* check_capture_limit: a capture never writes more packets than its limit,  *)
(* whatever the limit, the number of packets and the order of the threads.   *)
THEOREM LimitHeld ==
  ASSUME LimitsAboveEarly
  PROVE  SessionSpec => []LimitKept
<1>1. SessionIInv => LimitKept
  BY DEF SessionIInv, Counters, LimitAccount, LimitKept
<1> QED BY <1>1, SessionInvariance, PTL

(* The reason that run_capture_gen2 records is true: limit exactly when the  *)
(* limit is reached, host stop only after a signal, pipe and uplink only     *)
(* when these failed.                                                        *)
THEOREM ReasonRecorded ==
  ASSUME LimitsAboveEarly
  PROVE  SessionSpec => ReasonTrue
<1> DEFINE True == why' # why => /\ why' = "limit" <=> LimitReached
                                 /\ why' = "host" => signal
                                 /\ why' = "pipe" => wrErr
                                 /\ why' = "lost" => ~alive
                                 /\ why' # "ended"
<1>1. SessionIInv /\ [SessionNext]_sessionVars => [True]_sessionVars
  <2> SUFFICES ASSUME SessionIInv, SessionNext PROVE True
    BY DEF sessionVars
  <2>1. CASE Why
    <3>1. pc = "why" /\ why' = Reason
      BY <2>1 DEF Why
    <3>2. done <=> LimitReached
      BY DEF SessionIInv, Counters, LimitAccount, LimitReached
    <3>3. gStop /\ ~done => signal
      BY DEF SessionIInv, CauseKept
    <3>4. gStop \/ ~alive \/ done \/ wrErr
      BY <3>1 DEF SessionIInv, CauseKept, Running
    <3>5. /\ Reason = "limit" <=> done
          /\ Reason = "host" => gStop /\ ~done
          /\ Reason = "pipe" => wrErr
          /\ Reason = "lost" => ~alive
          /\ Reason # "ended"
      BY <3>4 DEF Reason, SessionIInv, Counters
    <3> QED BY <3>1, <3>2, <3>3, <3>5
  <2>2. CASE ~Why
    <3>1. why' = why
      BY <2>2 DEF SessionNext, MainStep, WorkStep, EnableRead, StopRead, Parse, Wake, Announce,
           EnableReadGated, EnableFails, LoopEvents, LoopEnd, Drain, StopEnds, SigHandler,
           WriteFails, DeviceSends, TransportEnds, Ended, sessionVars
    <3> QED BY <3>1
  <2> QED BY <2>1, <2>2
<1>2. ReasonTrue <=> [][True]_sessionVars
  BY DEF ReasonTrue
<1> QED BY <1>1, <1>2, SessionInvariance, PTL DEF SessionSpec
=============================================================================
