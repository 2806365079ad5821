-------------------------- MODULE Gen1LoaderProofs --------------------------
(* The JTAG routines of the older device, proved for every number of rows    *)
(* and bits and every size of the buffer: what every clock of every          *)
(* operation makes of the TAP controller and the memories.                   *)
EXTENDS Gen1Loader, SequenceTheorems, WellFoundedInduction, TLAPS

LEMMA FourTuple ==
    ASSUME NEW S, NEW a \in S, NEW b \in S, NEW c \in S, NEW d \in S
    PROVE  /\ <<a, b, c, d>> \in Seq(S) /\ Len(<<a, b, c, d>>) = 4
           /\ <<a, b, c, d>>[1] = a /\ <<a, b, c, d>>[2] = b
           /\ <<a, b, c, d>>[3] = c /\ <<a, b, c, d>>[4] = d
OBVIOUS

LEMMA Concatenated ==
    ASSUME NEW S, NEW s \in Seq(S), NEW t \in Seq(S)
    PROVE  /\ s \o t \in Seq(S) /\ Len(s \o t) = Len(s) + Len(t)
           /\ \A i \in 1 .. Len(s) : (s \o t)[i] = s[i]
           /\ \A i \in 1 .. Len(t) : (s \o t)[Len(s) + i] = t[i]
OBVIOUS

LEMMA TailShape ==
    ASSUME NEW S, NEW s \in Seq(S), s # <<>>
    PROVE  /\ Tail(s) \in Seq(S) /\ Len(Tail(s)) = Len(s) - 1 /\ Len(s) \in Nat \ {0}
           /\ \A i \in 1 .. Len(s) - 1 : Tail(s)[i] = s[i + 1]
           /\ Head(s) = s[1] /\ s[1] \in S
<1>1. s[1] \in S /\ Head(s) = s[1] /\ Len(s) \in Nat \ {0}  OBVIOUS
<1>2. Tail(s) \in Seq(S) /\ Len(Tail(s)) = Len(s) - 1  OBVIOUS
<1>3. \A i \in 1 .. Len(s) - 1 : Tail(s)[i] = s[i + 1]  OBVIOUS
<1> QED  BY <1>1, <1>2, <1>3

LEMMA AppendShape ==
    ASSUME NEW S, NEW s \in Seq(S), NEW x \in S
    PROVE  /\ Append(s, x) \in Seq(S) /\ Len(Append(s, x)) = Len(s) + 1 /\ Len(s) \in Nat
           /\ \A i \in 1 .. Len(s) : Append(s, x)[i] = s[i]
           /\ Append(s, x)[Len(s) + 1] = x
OBVIOUS

-----------------------------------------------------------------------------
(* The loaders.  What the FPGA holds is known by the position in the routine *)
(* of mode m that it has executed up to.                                     *)
Ops(m) == CASE m = "fpga_erase" -> FpgaEraseFlash [] m = "fpga_flash" -> FpgaProgramFlash
            [] m = "fpga_sram" -> FpgaProgramSram

(* Where the parts of fpga_program_flash begin.                              *)
VerifyAt  == 20 + 8 * Rows
FeatureAt == 24 + 10 * Rows
FeabitsAt == 37 + 10 * Rows
DoneAt    == 48 + 10 * Rows

(* Instructions, and values taken for one, that write nothing but blanks.    *)
Mild == {"READ_STATUS", "ENABLE", "ERASE", "NOOP", "BITSTREAM_BURST", "DISABLE",
         Junk, "zero", "sram", "ok", "fail"}

Contents == {Image[r] : r \in 1 .. Rows + 2} \cup {"old", "blank", "flawed"}
Values   == Mild \cup Contents \cup {"off", "flash", "all_nv", "bitstream"}
Fpgas    == [enabled : Values, sram : Values, flash : [1 .. Rows + 2 -> Contents],
             done : BOOLEAN, addr : Nat \ {0}]
Safe(f) == f \in Fpgas /\ (f.done => f.flash \in {Filled("old"), Image})

Verified(f, n) == \A i \in 1 .. n : f.flash[i] = Image[i]

(* What the instruction register holds before operation k.                   *)
IrKnown(m, k, ir) ==
    /\ m = "fpga_sram" \/ k <= 12 => ir \in Mild
    /\ m # "fpga_sram" =>
          /\ k = 9 => ir = "ENABLE"
          /\ k = 12 => ir = "ERASE"
          /\ k \in 13 .. Len(Ops(m)) => /\ Ops(m)[k] = Read("busy") => ir = "CHECK_BUSY"
                                        /\ Ops(m)[k] = Read("status") => ir = "READ_STATUS"
          /\ k \in 21 .. VerifyAt /\ Ops(m)[k][1] = "dr" => ir = "PROG_INCR_NV"
          /\ k \in VerifyAt + 4 .. FeatureAt => ir = "READ_INCR_NV"
          /\ k = FeatureAt + 4 => ir = "PROG_FEATURE"
          /\ k = FeatureAt + 12 => ir = "READ_FEATURE"
          /\ k = FeabitsAt + 2 => ir = "PROG_FEABITS"
          /\ k \in {FeabitsAt + 10, FeabitsAt + 11} => ir = "READ_FEABITS"

(* What the memories hold before operation k.                                *)
FpgaKnown(m, k, f) ==
    /\ Safe(f)
    /\ m # "fpga_sram" =>
          /\ k \in 10 .. DoneAt + 1 => f.enabled = "flash"
          /\ k \in 13 .. DoneAt + 1 => f.done = FALSE
          /\ k \in {VerifyAt + 2, VerifyAt + 3} => f.addr = 1
          /\ \A n \in 0 .. Rows : k \in {VerifyAt + 4 + 2 * n, VerifyAt + 5 + 2 * n} =>
                Verified(f, n) /\ f.addr = n + 1
          /\ k > FeatureAt => Verified(f, Rows)
          /\ k >= FeatureAt + 13 => f.flash[Feature] = Image[Feature]
          /\ k >= DoneAt + 1 => f.flash = Image
          /\ k >= DoneAt + 2 => f.done = TRUE
          /\ k >= DoneAt + 13 => f.sram = "flash"

Known(m, k, ir, f) == IrKnown(m, k, ir) /\ FpgaKnown(m, k, f)

(* A register that v is shifted into, after i clocks, and one that v is      *)
(* shifted out of.                                                           *)
ShiftedIn(reg, v, i)  == \A n \in 1 .. i : reg[Bits - i + n] = <<v, n>>
ShiftedOut(reg, v, i) == \A n \in 1 .. Bits - i : reg[n] = <<v, n + i>>
ReadsAs(f, ir) == {Captured(f, ir, busy, status) : busy \in {"busy", "idle"}, status \in {"ok", "fail"}}

(* The state of the TAP controller before item j of an operation, when it is *)
(* in step.                                                                  *)
IrState(j, s) ==
    /\ j = 1 => s = "RunTestIdle"
    /\ j = 2 => s = "SelectDR"
    /\ j = 3 => s = "SelectIR"
    /\ j = 4 => s = "CaptureIR"
    /\ j \in 5 .. 4 + Bits => s = "ShiftIR"
    /\ j = 5 + Bits => s = "Exit1IR"
    /\ j = 6 + Bits => s = "UpdateIR"
DrState(j, s) ==
    /\ j = 1 => s = "RunTestIdle"
    /\ j = 2 => s = "SelectDR"
    /\ j = 3 => s = "CaptureDR"
    /\ j \in 4 .. 3 + Bits => s = "ShiftDR"
    /\ j = 4 + Bits => s = "Exit1DR"
    /\ j = 5 + Bits => s = "UpdateDR"
ReadState(j, s) ==
    /\ j = 1 => s = "RunTestIdle"
    /\ j = 2 => s = "SelectDR"
    /\ j = 3 => s = "CaptureDR"
    /\ j \in 4 .. 4 + Bits => s = "ShiftDR"
    /\ j \in 5 + Bits .. 7 + Bits => s = "Exit1DR"
    /\ j = 8 + Bits => s = "UpdateDR"

(* The first two operations find the TAP controller in any state: they get   *)
(* it to idle, and whatever is shifted where meanwhile does no harm.         *)
FirstState(j, s) ==
    /\ j = 1 => s \in {"TestLogicReset", "RunTestIdle", "SelectDR", "SelectIR", "CaptureDR", "ShiftDR",
                       "Exit1DR", "UpdateDR", "CaptureIR", "ShiftIR", "Exit1IR", "UpdateIR"}
    /\ j = 2 => s \in {"TestLogicReset", "SelectDR", "SelectIR", "Exit1DR", "UpdateDR", "Exit1IR",
                       "UpdateIR"}
    /\ j = 3 => s \in {"TestLogicReset", "SelectIR", "UpdateDR", "SelectDR", "UpdateIR"}
    /\ j = 4 => s \in {"RunTestIdle", "CaptureIR", "CaptureDR"}
    /\ j \in 5 .. 4 + Bits => s \in {"RunTestIdle", "ShiftIR", "ShiftDR"}
    /\ j = 5 + Bits => s \in {"SelectDR", "Exit1IR", "Exit1DR"}
    /\ j = 6 + Bits => s \in {"SelectIR", "UpdateIR", "UpdateDR"}
SecondState(j, s) ==
    /\ j = 1 => s \in {"CaptureIR", "RunTestIdle"}
    /\ j = 2 => s \in {"Exit1IR", "SelectDR"}
    /\ j = 3 => s \in {"PauseIR", "CaptureDR"}
    /\ j \in 4 .. 3 + Bits => s \in {"PauseIR", "ShiftDR"}
    /\ j = 4 + Bits => s \in {"Exit2IR", "Exit1DR"}
    /\ j = 5 + Bits => s \in {"UpdateIR", "UpdateDR"}

StateAt(m, k, j, s) ==
    /\ k = 1 => FirstState(j, s)
    /\ k = 2 => SecondState(j, s)
    /\ k \in 3 .. Len(Ops(m)) =>
          /\ Ops(m)[k][1] = "ir" => IrState(j, s)
          /\ Ops(m)[k][1] = "dr" => DrState(j, s)
          /\ Ops(m)[k][1] = "read" => ReadState(j, s)
          /\ Ops(m)[k][1] \in {"run", "sync"} => s = "RunTestIdle"
    /\ k = Len(Ops(m)) + 1 => s = "RunTestIdle"

(* The registers and the memories there.  The response has been looked at    *)
(* before item 7 + Bits.                                                     *)
IrData(m, k, j, t, f) ==
    /\ Known(m, IF j = 6 + Bits THEN k + 1 ELSE k, t.ir, f)
    /\ j \in 5 .. 5 + Bits => ShiftedIn(t.reg, Ops(m)[k][2], j - 5)
DrData(m, k, j, t, f) ==
    /\ Known(m, IF j = 5 + Bits THEN k + 1 ELSE k, t.ir, f)
    /\ j \in 4 .. 4 + Bits => ShiftedIn(t.reg, Ops(m)[k][2], j - 4)
ReadData(m, k, j, t, f) ==
    /\ Known(m, IF j = 8 + Bits THEN k + 1 ELSE k, t.ir, f)
    /\ j = 4 => \E v \in ReadsAs(f, t.ir) : ShiftedOut(t.reg, v, 0)
    /\ j \in 5 .. 6 + Bits => \E v \in ReadsAs(f, t.ir) :
          /\ j <= 4 + Bits => ShiftedOut(t.reg, v, j - 5)
          /\ \A n \in 1 .. (IF j = 6 + Bits THEN Bits ELSE j - 5) : t.tdo[n] = <<v, n>>
    /\ j = 7 + Bits /\ Ops(m)[k] # Read("busy") => Answered(Ops(m)[k][2]) \in ReadsAs(f, t.ir)
    /\ j = 8 + Bits /\ Ops(m)[k] = Read("busy") => Known(m, k - 1, t.ir, f)
StrayData(t, f) == t.ir \in Mild /\ Safe(f) /\ \A n \in 1 .. Bits : t.reg[n][1] \in Mild

DataAt(m, k, j, t, f) ==
    /\ k \in {1, 2} => StrayData(t, f)
    /\ k \in 3 .. Len(Ops(m)) =>
          /\ Ops(m)[k][1] = "ir" => IrData(m, k, j, t, f)
          /\ Ops(m)[k][1] = "dr" => DrData(m, k, j, t, f)
          /\ Ops(m)[k][1] = "read" => ReadData(m, k, j, t, f)
          /\ Ops(m)[k][1] \in {"run", "sync"} => Known(m, k, t.ir, f)
    /\ k = Len(Ops(m)) + 1 => Known(m, k, t.ir, f)

(* A place p is an operation and an item of it.                              *)
Places == (Nat \ {0}) \X (Nat \ {0})
Within(m, p) == p \in Places /\ p[1] <= Len(Ops(m)) /\ p[2] <= Len(Items(Ops(m)[p[1]]))
ItemAt(m, p) == Items(Ops(m)[p[1]])[p[2]]
ClockAt(m, p) == Within(m, p) /\ ItemAt(m, p)[1] = "clk"
End(m) == <<Len(Ops(m)) + 1, 1>>
After(m, p) ==
    IF p[2] < Len(Items(Ops(m)[p[1]])) THEN {<<p[1], p[2] + 1>>}
    ELSE {<<p[1] + 1, 1>>} \cup (IF Ops(m)[p[1]] = Read("busy") THEN {<<p[1] - 1, 1>>} ELSE {})

(* The device has executed everything before place p.                        *)
At(m, p, t, f) == /\ Within(m, p) \/ p = End(m)
                  /\ StateAt(m, p[1], p[2], t.state) /\ DataAt(m, p[1], p[2], t, f)

(* The clocks that the device has still to execute, P, are at the places q   *)
(* of the routine, which lead to place h, where the host is.                 *)
Skips(m, p, n) == n = p \/ (Within(m, p) /\ ItemAt(m, p)[1] = "sync" /\ n \in After(m, p))
Trail(m, q, h, P) ==
    /\ Len(q) = Len(P)
    /\ \A i \in 1 .. Len(P) : ClockAt(m, q[i]) /\ P[i] = ItemAt(m, q[i])
    /\ \A i \in 1 .. Len(P) - 1 : q[i + 1] \in After(m, q[i])
    /\ Len(P) > 0 => \E s \in After(m, q[Len(P)]) : Skips(m, s, h)
DeviceAt(q, h) == IF q = <<>> THEN h ELSE q[1]

(* What is read out of a register is clocked by one request: the host has    *)
(* sent the clocks before, b are in its buffer, w on the wire and n answered.*)
Reading(m, p) == Within(m, p) /\ p[1] > 2 /\ Ops(m)[p[1]][1] = "read"
Echo(m, p, h, b, w, n) ==
    /\ Reading(m, h) =>
          /\ w = 0 /\ h[2] \in 5 .. 4 + Bits => b = h[2] - 5
          /\ w = 0 /\ h[2] = 5 + Bits => b \in {0, Bits}
          /\ w > 0 => h[2] \notin 6 .. 4 + Bits
          /\ h[2] = 6 + Bits => b = 0
    /\ Reading(m, p) =>
          /\ w > 0 /\ p[2] \in 5 .. 4 + Bits => n = p[2] - 5
          /\ w = 0 => p[2] \notin 6 .. 4 + Bits
          /\ p[2] \in {5 + Bits, 6 + Bits} => n = Bits

(* The host: what is left, r, of the operation under way, and the one, o,    *)
(* that follows.                                                             *)
Rest(m, h, r, o) ==
    /\ Within(m, h) /\ Len(r) = Len(Items(Ops(m)[h[1]])) - h[2] + 1
    /\ \A i \in 1 .. Len(r) : r[i] = Items(Ops(m)[h[1]])[h[2] + i - 1]
    /\ \/ o = h[1] + 1
       \/ o = h[1] - 1 /\ Ops(m)[h[1]] = Read("busy") /\ h[2] > 6 + Bits
HostAt(m, h, r, o) == IF r = <<>> THEN h = <<o, 1>> ELSE Rest(m, h, r, o)

(* b is the buffer, w the clocks of a request; one of them is empty.         *)
Placed(m, q, h, b, w, t, f) ==
    /\ Trail(m, q, h, IF w = <<>> THEN b ELSE w)
    /\ Within(m, h) \/ h = End(m)
    /\ w = <<>> /\ b # <<>> => h \in After(m, q[Len(q)])
    /\ At(m, DeviceAt(q, h), t, f)
    /\ Echo(m, DeviceAt(q, h), h, Len(b), Len(w), Len(t.tdo))

-----------------------------------------------------------------------------
(* The routines, operation by operation.  No other proof expands them.       *)
Instructions == {"READ_STATUS", "ENABLE", "ERASE", "NOOP", "BITSTREAM_BURST", "DISABLE",
                 "CHECK_BUSY", "INIT_ADDRESS", "PROG_INCR_NV", "READ_INCR_NV", "PROG_FEATURE",
                 "READ_FEATURE", "PROG_FEABITS", "READ_FEABITS", "PROGRAM_DONE", "REFRESH"}
Opers == {Ir(c) : c \in Instructions} \cup {Dr(v) : v \in Values}
         \cup {Read(w) : w \in Contents \cup {"busy", "status"}} \cup {Run, <<"sync">>}

LEMMA OperTypes == /\ \A c \in Instructions : Ir(c) \in Opers
                   /\ \A v \in Values : Dr(v) \in Opers
                   /\ \A w \in Contents \cup {"busy", "status"} : Read(w) \in Opers
                   /\ Run \in Opers /\ <<"sync">> \in Opers
BY DEF Opers

LEMMA TwoTuple ==
    ASSUME NEW S, NEW a \in S, NEW b \in S
    PROVE  LET s == <<a, b>> IN s \in Seq(S) /\ Len(s) = 2 /\ s[1] = a /\ s[2] = b
OBVIOUS

LEMMA ThreeTuple ==
    ASSUME NEW S, NEW a \in S, NEW b \in S, NEW c \in S
    PROVE  LET s == <<a, b, c>>
           IN  s \in Seq(S) /\ Len(s) = 3 /\ s[1] = a /\ s[2] = b /\ s[3] = c
OBVIOUS

LEMMA FiveTuple ==
    ASSUME NEW S, NEW a \in S, NEW b \in S, NEW c \in S, NEW d \in S, NEW e \in S
    PROVE  LET s == <<a, b, c, d, e>>
           IN  /\ s \in Seq(S) /\ Len(s) = 5
               /\ s[1] = a /\ s[2] = b /\ s[3] = c /\ s[4] = d /\ s[5] = e
OBVIOUS

LEMMA NineTuple ==
    ASSUME NEW S, NEW a \in S, NEW b \in S, NEW c \in S, NEW d \in S, NEW e \in S,
           NEW f \in S, NEW g \in S, NEW h \in S, NEW i \in S
    PROVE  LET s == <<a, b, c, d, e, f, g, h, i>>
           IN  /\ s \in Seq(S) /\ Len(s) = 9
               /\ s[1] = a /\ s[2] = b /\ s[3] = c /\ s[4] = d /\ s[5] = e /\ s[6] = f
               /\ s[7] = g /\ s[8] = h /\ s[9] = i
OBVIOUS

LEMMA ThirteenTuple ==
    ASSUME NEW S, NEW a \in S, NEW b \in S, NEW c \in S, NEW d \in S, NEW e \in S,
           NEW f \in S, NEW g \in S, NEW h \in S, NEW i \in S, NEW j \in S, NEW k \in S,
           NEW l \in S, NEW m \in S
    PROVE  LET s == <<a, b, c, d, e, f, g, h, i, j, k, l, m>>
           IN  /\ s \in Seq(S) /\ Len(s) = 13
               /\ s[1] = a /\ s[2] = b /\ s[3] = c /\ s[4] = d /\ s[5] = e /\ s[6] = f
               /\ s[7] = g /\ s[8] = h /\ s[9] = i /\ s[10] = j /\ s[11] = k /\ s[12] = l
               /\ s[13] = m
OBVIOUS

LEMMA FifteenTuple ==
    ASSUME NEW S, NEW a \in S, NEW b \in S, NEW c \in S, NEW d \in S, NEW e \in S,
           NEW f \in S, NEW g \in S, NEW h \in S, NEW i \in S, NEW j \in S, NEW k \in S,
           NEW l \in S, NEW m \in S, NEW n \in S, NEW o \in S
    PROVE  LET s == <<a, b, c, d, e, f, g, h, i, j, k, l, m, n, o>>
           IN  /\ s \in Seq(S) /\ Len(s) = 15
               /\ s[1] = a /\ s[2] = b /\ s[3] = c /\ s[4] = d /\ s[5] = e /\ s[6] = f
               /\ s[7] = g /\ s[8] = h /\ s[9] = i /\ s[10] = j /\ s[11] = k /\ s[12] = l
               /\ s[13] = m /\ s[14] = n /\ s[15] = o
OBVIOUS

LEMMA SeqDomain == ASSUME NEW S, NEW s \in Seq(S) PROVE DOMAIN s = 1 .. Len(s) /\ Len(s) \in Nat
OBVIOUS

LEMMA RowsType == /\ Rows \in Nat /\ Image \in Seq(Contents) /\ Len(Image) = Rows + 2
                  /\ \A r \in 1 .. Rows + 2 : Image[r] \in Contents
                  /\ \A r \in 1 .. Rows + 2 : Image[r] \notin {Junk, "busy", "status"}
<1>1. PICK c \in Seq(STRING) : c = Config  BY BitsAssumption
<1>2. PICK n \in Nat : n = Len(c) /\ n = Rows  BY <1>1 DEF Rows
<1>3. DOMAIN c = 1 .. n  BY <1>1, <1>2, SeqDomain
<1>4. \A r \in 1 .. n : c[r] \notin {Junk, "busy", "status"}
  BY <1>1, <1>3, BitsAssumption DEF Junk
<1> DEFINE S == {c[r] : r \in 1 .. n} \cup {"feature row", "feabits"}
<1>5. c \in Seq(S)
  <2>1. c = [r \in 1 .. n |-> c[r]]  BY <1>3
  <2>2. c \in [1 .. n -> S]  BY <2>1
  <2> HIDE DEF S
  <2> QED  BY <1>2, <2>2
<1>6. PICK t \in Seq(S) : /\ t = <<"feature row", "feabits">> /\ Len(t) = 2
                          /\ t[1] = "feature row" /\ t[2] = "feabits"
  <2>1. PICK a \in S, b \in S : a = "feature row" /\ b = "feabits"  OBVIOUS
  <2>2. <<a, b>> \in Seq(S) /\ Len(<<a, b>>) = 2 /\ <<a, b>>[1] = a /\ <<a, b>>[2] = b
    BY TwoTuple
  <2> QED  BY <2>1, <2>2
<1>7. Image = c \o t  BY <1>1, <1>6 DEF Image
<1> HIDE DEF S
<1>8. PICK d \in Seq(S) : /\ d = Image /\ Len(d) = n + 2
                          /\ \A i \in 1 .. n : d[i] = c[i]
                          /\ d[n + 1] = t[1] /\ d[n + 2] = t[2]
  <2>1. /\ c \o t \in Seq(S) /\ Len(c \o t) = Len(c) + Len(t)
        /\ \A i \in 1 .. Len(c) : (c \o t)[i] = c[i]
        /\ \A i \in 1 .. Len(t) : (c \o t)[Len(c) + i] = t[i]
    BY <1>5, Concatenated
  <2>2. PICK e \in Seq(S) : e = c \o t  BY <2>1
  <2>3. Len(e) = n + 2 /\ (\A i \in 1 .. n : e[i] = c[i]) /\ (\A i \in 1 .. 2 : e[n + i] = t[i])
    BY <1>2, <1>6, <2>1, <2>2
  <2>4. e[n + 1] = t[1] /\ e[n + 2] = t[2]  BY <2>3
  <2> QED  BY <1>7, <2>2, <2>3, <2>4
<1>9. \A r \in 1 .. n + 2 : d[r] \notin {Junk, "busy", "status"}
  <2> TAKE r \in 1 .. n + 2
  <2>1. CASE r \in 1 .. n  BY <1>4, <1>8, <2>1
  <2>2. CASE r = n + 1  BY <1>6, <1>8, <2>2 DEF Junk
  <2>3. CASE r = n + 2  BY <1>6, <1>8, <2>3 DEF Junk
  <2> QED  BY <2>1, <2>2, <2>3
<1>10. \A r \in 1 .. n + 2 : d[r] \in Contents  BY <1>2, <1>8 DEF Contents
<1>11. d \in Seq(Contents)
  <2>1. d = [r \in 1 .. n + 2 |-> d[r]]  BY <1>8
  <2>2. d \in [1 .. n + 2 -> Contents]  BY <1>10, <2>1
  <2> QED  BY <1>2, <2>2
<1> QED  BY <1>2, <1>8, <1>9, <1>10, <1>11

LEMMA Joined ==
    ASSUME NEW S, NEW s \in Seq(S), NEW t \in Seq(S), NEW a \in Nat, NEW b \in Nat,
           Len(s) = a, Len(t) = b
    PROVE  /\ s \o t \in Seq(S) /\ Len(s \o t) = a + b
           /\ \A i \in 1 .. a : (s \o t)[i] = s[i]
           /\ \A i \in 1 .. b : (s \o t)[a + i] = t[i]
<1>1. /\ s \o t \in Seq(S) /\ Len(s \o t) = Len(s) + Len(t)
      /\ \A i \in 1 .. Len(s) : (s \o t)[i] = s[i]
      /\ \A i \in 1 .. Len(t) : (s \o t)[Len(s) + i] = t[i]
  OBVIOUS
<1> QED  BY <1>1

LEMMA PollOps ==
    LET s == PollBusyFlag
    IN  /\ s \in Seq(Opers) /\ Len(s) = 5
        /\ s[1] = Ir("CHECK_BUSY") /\ s[2] = Read("busy") /\ s[3] = Ir("READ_STATUS")
        /\ s[4] = Read("status") /\ s[5] = Run
<1>1. /\ Ir("CHECK_BUSY") \in Opers /\ Read("busy") \in Opers /\ Ir("READ_STATUS") \in Opers
      /\ Read("status") \in Opers /\ Run \in Opers
  BY OperTypes DEF Instructions
<1> QED  BY <1>1, FiveTuple, Zenon DEF PollBusyFlag

(* p is followed by poll_busy_flag.                                          *)
LEMMA ThenPoll ==
    ASSUME NEW p \in Seq(Opers), NEW n \in Nat, Len(p) = n
    PROVE  LET s == p \o PollBusyFlag
           IN  /\ s \in Seq(Opers) /\ Len(s) = n + 5
               /\ \A i \in 1 .. n : s[i] = p[i]
               /\ s[n + 1] = Ir("CHECK_BUSY") /\ s[n + 2] = Read("busy")
               /\ s[n + 3] = Ir("READ_STATUS") /\ s[n + 4] = Read("status") /\ s[n + 5] = Run
<1>1. Len(PollBusyFlag) = 5  BY PollOps
<1>2. /\ p \o PollBusyFlag \in Seq(Opers) /\ Len(p \o PollBusyFlag) = n + 5
      /\ \A i \in 1 .. n : (p \o PollBusyFlag)[i] = p[i]
      /\ \A i \in 1 .. 5 : (p \o PollBusyFlag)[n + i] = PollBusyFlag[i]
  <2>1. /\ p \o PollBusyFlag \in Seq(Opers)
        /\ Len(p \o PollBusyFlag) = n + Len(PollBusyFlag)
        /\ \A i \in 1 .. n : (p \o PollBusyFlag)[i] = p[i]
        /\ \A i \in 1 .. Len(PollBusyFlag) : (p \o PollBusyFlag)[n + i] = PollBusyFlag[i]
    <3>1. PollBusyFlag \in Seq(Opers) /\ Len(PollBusyFlag) \in Nat  BY PollOps
    <3> QED  BY <3>1, Joined
  <2> QED  BY <1>1, <2>1, Zenon
<1>3. 1 \in 1 .. 5 /\ 2 \in 1 .. 5 /\ 3 \in 1 .. 5 /\ 4 \in 1 .. 5 /\ 5 \in 1 .. 5  OBVIOUS
<1> QED  BY <1>2, <1>3, PollOps, Zenon

LEMMA EraseOps ==
    LET s == FpgaEraseFlash
    IN  /\ s \in Seq(Opers) /\ Len(s) = 18
        /\ s[1] = Ir("ENABLE") /\ s[2] = Dr("sram") /\ s[3] = Run /\ s[4] = Ir("ERASE")
        /\ s[5] = Dr("sram") /\ s[6] = Run /\ s[7] = Ir("NOOP") /\ s[8] = Ir("ENABLE")
        /\ s[9] = Dr("flash") /\ s[10] = Run /\ s[11] = Ir("ERASE") /\ s[12] = Dr("all_nv")
        /\ s[13] = Run /\ s[14] = Ir("CHECK_BUSY") /\ s[15] = Read("busy")
        /\ s[16] = Ir("READ_STATUS") /\ s[17] = Read("status") /\ s[18] = Run
<1>1. /\ Ir("ENABLE") \in Opers /\ Dr("sram") \in Opers /\ Run \in Opers /\ Ir("ERASE") \in Opers
      /\ Ir("NOOP") \in Opers /\ Dr("flash") \in Opers /\ Dr("all_nv") \in Opers
  BY OperTypes DEF Instructions, Values, Mild
<1>2. PICK t : t = <<Ir("ENABLE"), Dr("sram"), Run, Ir("ERASE"), Dr("sram"), Run, Ir("NOOP"),
                     Ir("ENABLE"), Dr("flash"), Run, Ir("ERASE"), Dr("all_nv"), Run>>
  OBVIOUS
<1>3. /\ t \in Seq(Opers) /\ Len(t) = 13
      /\ t[1] = Ir("ENABLE") /\ t[2] = Dr("sram") /\ t[3] = Run /\ t[4] = Ir("ERASE")
      /\ t[5] = Dr("sram") /\ t[6] = Run /\ t[7] = Ir("NOOP") /\ t[8] = Ir("ENABLE")
      /\ t[9] = Dr("flash") /\ t[10] = Run /\ t[11] = Ir("ERASE") /\ t[12] = Dr("all_nv")
      /\ t[13] = Run
  BY <1>1, <1>2, ThirteenTuple, Zenon
<1>4. PICK u : u = t \o PollBusyFlag  OBVIOUS
<1>5. /\ u \in Seq(Opers) /\ Len(u) = 13 + 5
      /\ \A i \in 1 .. 13 : u[i] = t[i]
      /\ u[13 + 1] = Ir("CHECK_BUSY") /\ u[13 + 2] = Read("busy")
      /\ u[13 + 3] = Ir("READ_STATUS") /\ u[13 + 4] = Read("status") /\ u[13 + 5] = Run
  <2>1. 13 \in Nat  OBVIOUS
  <2> QED  BY <1>3, <1>4, <2>1, ThenPoll, Zenon
<1>6. /\ u[1] = t[1] /\ u[2] = t[2] /\ u[3] = t[3] /\ u[4] = t[4] /\ u[5] = t[5] /\ u[6] = t[6]
      /\ u[7] = t[7] /\ u[8] = t[8] /\ u[9] = t[9] /\ u[10] = t[10] /\ u[11] = t[11]
      /\ u[12] = t[12] /\ u[13] = t[13]
  BY <1>5
<1>7. u = FpgaEraseFlash  BY <1>2, <1>4, Zenon DEF FpgaEraseFlash
<1>8. 13 + 5 = 18 /\ 13 + 1 = 14 /\ 13 + 2 = 15 /\ 13 + 3 = 16 /\ 13 + 4 = 17  OBVIOUS
<1> QED  BY <1>3, <1>5, <1>6, <1>7, <1>8, Zenon

LEMMA SramOps ==
    LET s == FpgaProgramSram
    IN  /\ s \in Seq(Opers) /\ Len(s) = 15
        /\ s[1] = Ir("ENABLE") /\ s[2] = Dr("sram") /\ s[3] = Run /\ s[4] = Ir("ERASE")
        /\ s[5] = Dr("sram") /\ s[6] = Run /\ s[7] = Ir("BITSTREAM_BURST") /\ s[8] = Run
        /\ s[9] = Dr("bitstream") /\ s[10] = Run /\ s[11] = Ir("DISABLE") /\ s[12] = Run
        /\ s[13] = Ir("NOOP") /\ s[14] = Run /\ s[15] = <<"sync">>
<1>1. /\ Ir("ENABLE") \in Opers /\ Dr("sram") \in Opers /\ Run \in Opers /\ Ir("ERASE") \in Opers
      /\ Ir("NOOP") \in Opers /\ Dr("bitstream") \in Opers /\ Ir("DISABLE") \in Opers
      /\ Ir("BITSTREAM_BURST") \in Opers /\ <<"sync">> \in Opers
  BY OperTypes DEF Instructions, Values, Mild
<1> QED  BY <1>1, FifteenTuple, ZenonT(40) DEF FpgaProgramSram

(* A routine for every row, n operations each.                               *)
LEMMA RowPlace ==
    ASSUME NEW N, N = 2 \/ N = 8, NEW R \in Nat, NEW k \in 1 .. N * R
    PROVE  \E r \in 1 .. R, i \in 1 .. N : /\ k = N * (r - 1) + i
                                           /\ (k - 1) \div N + 1 = r /\ ((k - 1) % N) + 1 = i
<1>1. CASE N = 8
  <2>1. PICK d \in Nat, x \in 0 .. 7 : d = (k - 1) \div 8 /\ x = (k - 1) % 8 /\ k - 1 = 8 * d + x
    BY <1>1
  <2>2. d + 1 \in 1 .. R /\ x + 1 \in 1 .. 8 /\ k = 8 * ((d + 1) - 1) + (x + 1)  BY <1>1, <2>1
  <2> QED  BY <1>1, <2>1, <2>2
<1>2. CASE N = 2
  <2>1. PICK d \in Nat, x \in 0 .. 1 : d = (k - 1) \div 2 /\ x = (k - 1) % 2 /\ k - 1 = 2 * d + x
    BY <1>2
  <2>2. d + 1 \in 1 .. R /\ x + 1 \in 1 .. 2 /\ k = 2 * ((d + 1) - 1) + (x + 1)  BY <1>2, <2>1
  <2> QED  BY <1>2, <2>1, <2>2
<1> QED  BY <1>1, <1>2

LEMMA RowIndex ==
    ASSUME NEW N, N = 2 \/ N = 8, NEW R \in Nat, NEW r \in 1 .. R, NEW i \in 1 .. N,
           NEW k, k = N * (r - 1) + i
    PROVE  k \in 1 .. N * R /\ (k - 1) \div N + 1 = r /\ ((k - 1) % N) + 1 = i
<1>1. CASE N = 8
  <2>1. k \in 1 .. 8 * R /\ (k - 1) \div 8 = r - 1 /\ (k - 1) % 8 = i - 1  BY <1>1
  <2> QED  BY <1>1, <2>1
<1>2. CASE N = 2
  <2>1. k \in 1 .. 2 * R /\ (k - 1) \div 2 = r - 1 /\ (k - 1) % 2 = i - 1  BY <1>2
  <2> QED  BY <1>2, <2>1
<1> QED  BY <1>1, <1>2

LEMMA AroundPoll ==
    ASSUME NEW p \in Seq(Opers), NEW t \in Seq(Opers)
    PROVE  LET s == p \o PollBusyFlag \o t
               n == Len(p)
               b == Len(t)
           IN  /\ s \in Seq(Opers) /\ Len(s) = n + 5 + b
               /\ \A i \in 1 .. n : s[i] = p[i]
               /\ s[n + 1] = Ir("CHECK_BUSY") /\ s[n + 2] = Read("busy")
               /\ s[n + 3] = Ir("READ_STATUS") /\ s[n + 4] = Read("status") /\ s[n + 5] = Run
               /\ \A i \in 1 .. b : s[n + 5 + i] = t[i]
<1>0. PICK n \in Nat, b \in Nat : n = Len(p) /\ b = Len(t)  OBVIOUS
<1>1. PICK u : u = p \o PollBusyFlag  OBVIOUS
<1>2. /\ u \in Seq(Opers) /\ Len(u) = n + 5
      /\ \A i \in 1 .. n : u[i] = p[i]
      /\ u[n + 1] = Ir("CHECK_BUSY") /\ u[n + 2] = Read("busy")
      /\ u[n + 3] = Ir("READ_STATUS") /\ u[n + 4] = Read("status") /\ u[n + 5] = Run
  BY <1>0, <1>1, ThenPoll, Zenon
<1>3. PICK a \in Nat : a = n + 5  OBVIOUS
<1>4. PICK v : v = u \o t  OBVIOUS
<1>5. /\ v \in Seq(Opers) /\ Len(v) = a + b
      /\ \A i \in 1 .. a : v[i] = u[i]
      /\ \A i \in 1 .. b : v[a + i] = t[i]
  <2>1. u \in Seq(Opers) /\ Len(u) = a /\ Len(t) = b  BY <1>0, <1>2, <1>3, Zenon
  <2>2. /\ u \o t \in Seq(Opers) /\ Len(u \o t) = a + b
        /\ \A i \in 1 .. a : (u \o t)[i] = u[i]
        /\ \A i \in 1 .. b : (u \o t)[a + i] = t[i]
    BY <2>1
  <2> QED  BY <1>4, <2>2, Zenon
<1>6. /\ \A i \in 1 .. n : v[i] = u[i]
      /\ v[n + 1] = u[n + 1] /\ v[n + 2] = u[n + 2] /\ v[n + 3] = u[n + 3]
      /\ v[n + 4] = u[n + 4] /\ v[n + 5] = u[n + 5]
  <2>1. /\ n + 1 \in 1 .. a /\ n + 2 \in 1 .. a /\ n + 3 \in 1 .. a /\ n + 4 \in 1 .. a
        /\ n + 5 \in 1 .. a /\ \A i \in 1 .. n : i \in 1 .. a
    BY <1>3
  <2> QED  BY <1>5, <2>1, Zenon
<1>7. v = p \o PollBusyFlag \o t  BY <1>1, <1>4, Zenon
<1> QED  BY <1>0, <1>2, <1>3, <1>5, <1>6, <1>7, Zenon

LEMMA FeatureOps ==
    LET s == FeatureRow
    IN  /\ s \in Seq(Opers) /\ Len(s) = 13
        /\ s[1] = Ir("INIT_ADDRESS") /\ s[2] = Run /\ s[3] = Ir("PROG_FEATURE")
        /\ s[4] = Dr(Image[Feature]) /\ s[5] = Run
        /\ s[6] = Ir("CHECK_BUSY") /\ s[7] = Read("busy") /\ s[8] = Ir("READ_STATUS")
        /\ s[9] = Read("status") /\ s[10] = Run
        /\ s[11] = Ir("READ_FEATURE") /\ s[12] = Read(Image[Feature]) /\ s[13] = Run
<1>1. /\ Ir("INIT_ADDRESS") \in Opers /\ Run \in Opers /\ Ir("PROG_FEATURE") \in Opers
      /\ Ir("READ_FEATURE") \in Opers
  BY OperTypes DEF Instructions
<1>2. Dr(Image[Feature]) \in Opers /\ Read(Image[Feature]) \in Opers
  <2>1. Image[Feature] \in Contents  BY RowsType DEF Feature
  <2> QED  BY <2>1, OperTypes DEF Values
<1>3. PICK p : p = <<Ir("INIT_ADDRESS"), Run, Ir("PROG_FEATURE"), Dr(Image[Feature]), Run>>
  OBVIOUS
<1>4. PICK t : t = <<Ir("READ_FEATURE"), Read(Image[Feature]), Run>>  OBVIOUS
<1>5. /\ p \in Seq(Opers) /\ Len(p) = 5
      /\ p[1] = Ir("INIT_ADDRESS") /\ p[2] = Run /\ p[3] = Ir("PROG_FEATURE")
      /\ p[4] = Dr(Image[Feature]) /\ p[5] = Run
  BY <1>1, <1>2, <1>3, FiveTuple, Zenon
<1>6. /\ t \in Seq(Opers) /\ Len(t) = 3
      /\ t[1] = Ir("READ_FEATURE") /\ t[2] = Read(Image[Feature]) /\ t[3] = Run
  BY <1>1, <1>2, <1>4, ThreeTuple, Zenon
<1>7. PICK s : s = p \o PollBusyFlag \o t  OBVIOUS
<1>8. /\ s \in Seq(Opers) /\ Len(s) = 5 + 5 + 3
      /\ \A i \in 1 .. 5 : s[i] = p[i]
      /\ s[5 + 1] = Ir("CHECK_BUSY") /\ s[5 + 2] = Read("busy")
      /\ s[5 + 3] = Ir("READ_STATUS") /\ s[5 + 4] = Read("status") /\ s[5 + 5] = Run
      /\ \A i \in 1 .. 3 : s[5 + 5 + i] = t[i]
  <2>1. /\ s \in Seq(Opers) /\ Len(s) = Len(p) + 5 + Len(t)
        /\ \A i \in 1 .. Len(p) : s[i] = p[i]
        /\ s[Len(p) + 1] = Ir("CHECK_BUSY") /\ s[Len(p) + 2] = Read("busy")
        /\ s[Len(p) + 3] = Ir("READ_STATUS") /\ s[Len(p) + 4] = Read("status")
        /\ s[Len(p) + 5] = Run
        /\ \A i \in 1 .. Len(t) : s[Len(p) + 5 + i] = t[i]
    BY <1>5, <1>6, <1>7, AroundPoll, Zenon
  <2> QED  BY <1>5, <1>6, <2>1, Zenon
<1>9. /\ s[1] = p[1] /\ s[2] = p[2] /\ s[3] = p[3] /\ s[4] = p[4] /\ s[5] = p[5]
      /\ s[11] = t[1] /\ s[12] = t[2] /\ s[13] = t[3]
  BY <1>8
<1>10. 5 + 5 + 3 = 13 /\ 5 + 1 = 6 /\ 5 + 2 = 7 /\ 5 + 3 = 8 /\ 5 + 4 = 9 /\ 5 + 5 = 10  OBVIOUS
<1>11. s = FeatureRow  BY <1>3, <1>4, <1>7, Zenon DEF FeatureRow
<1> QED  BY <1>5, <1>6, <1>8, <1>9, <1>10, <1>11, Zenon

LEMMA FeabitsOps ==
    LET s == FeabitsRow
    IN  /\ s \in Seq(Opers) /\ Len(s) = 11
        /\ s[1] = Ir("PROG_FEABITS") /\ s[2] = Dr(Image[Feabits]) /\ s[3] = Run
        /\ s[4] = Ir("CHECK_BUSY") /\ s[5] = Read("busy") /\ s[6] = Ir("READ_STATUS")
        /\ s[7] = Read("status") /\ s[8] = Run
        /\ s[9] = Ir("READ_FEABITS") /\ s[10] = Run /\ s[11] = Read(Image[Feabits])
<1>1. Ir("PROG_FEABITS") \in Opers /\ Run \in Opers /\ Ir("READ_FEABITS") \in Opers
  BY OperTypes DEF Instructions
<1>2. Dr(Image[Feabits]) \in Opers /\ Read(Image[Feabits]) \in Opers
  <2>1. Image[Feabits] \in Contents  BY RowsType DEF Feabits
  <2> QED  BY <2>1, OperTypes DEF Values
<1>3. PICK p : p = <<Ir("PROG_FEABITS"), Dr(Image[Feabits]), Run>>  OBVIOUS
<1>4. PICK t : t = <<Ir("READ_FEABITS"), Run, Read(Image[Feabits])>>  OBVIOUS
<1>5. /\ p \in Seq(Opers) /\ Len(p) = 3
      /\ p[1] = Ir("PROG_FEABITS") /\ p[2] = Dr(Image[Feabits]) /\ p[3] = Run
  BY <1>1, <1>2, <1>3, ThreeTuple, Zenon
<1>6. /\ t \in Seq(Opers) /\ Len(t) = 3
      /\ t[1] = Ir("READ_FEABITS") /\ t[2] = Run /\ t[3] = Read(Image[Feabits])
  BY <1>1, <1>2, <1>4, ThreeTuple, Zenon
<1>7. PICK s : s = p \o PollBusyFlag \o t  OBVIOUS
<1>8. /\ s \in Seq(Opers) /\ Len(s) = 3 + 5 + 3
      /\ \A i \in 1 .. 3 : s[i] = p[i]
      /\ s[3 + 1] = Ir("CHECK_BUSY") /\ s[3 + 2] = Read("busy")
      /\ s[3 + 3] = Ir("READ_STATUS") /\ s[3 + 4] = Read("status") /\ s[3 + 5] = Run
      /\ \A i \in 1 .. 3 : s[3 + 5 + i] = t[i]
  <2>1. /\ s \in Seq(Opers) /\ Len(s) = Len(p) + 5 + Len(t)
        /\ \A i \in 1 .. Len(p) : s[i] = p[i]
        /\ s[Len(p) + 1] = Ir("CHECK_BUSY") /\ s[Len(p) + 2] = Read("busy")
        /\ s[Len(p) + 3] = Ir("READ_STATUS") /\ s[Len(p) + 4] = Read("status")
        /\ s[Len(p) + 5] = Run
        /\ \A i \in 1 .. Len(t) : s[Len(p) + 5 + i] = t[i]
    BY <1>5, <1>6, <1>7, AroundPoll, Zenon
  <2> QED  BY <1>5, <1>6, <2>1, Zenon
<1>9. /\ s[1] = p[1] /\ s[2] = p[2] /\ s[3] = p[3] /\ s[9] = t[1] /\ s[10] = t[2] /\ s[11] = t[3]
  BY <1>8
<1>10. 3 + 5 + 3 = 11 /\ 3 + 1 = 4 /\ 3 + 2 = 5 /\ 3 + 3 = 6 /\ 3 + 4 = 7 /\ 3 + 5 = 8  OBVIOUS
<1>11. s = FeabitsRow  BY <1>3, <1>4, <1>7, Zenon DEF FeabitsRow
<1> QED  BY <1>5, <1>6, <1>8, <1>9, <1>10, <1>11, Zenon

LEMMA DoneOps ==
    LET s == ProgramDone
    IN  /\ s \in Seq(Opers) /\ Len(s) = 16
        /\ s[1] = Ir("PROGRAM_DONE") /\ s[2] = Run
        /\ s[3] = Ir("CHECK_BUSY") /\ s[4] = Read("busy") /\ s[5] = Ir("READ_STATUS")
        /\ s[6] = Read("status") /\ s[7] = Run
        /\ s[8] = Ir("DISABLE") /\ s[9] = Run /\ s[10] = Ir("NOOP") /\ s[11] = Run
        /\ s[12] = Ir("REFRESH") /\ s[13] = Run /\ s[14] = Ir("NOOP") /\ s[15] = Run
        /\ s[16] = <<"sync">>
<1>1. /\ Ir("PROGRAM_DONE") \in Opers /\ Run \in Opers /\ Ir("DISABLE") \in Opers
      /\ Ir("NOOP") \in Opers /\ Ir("REFRESH") \in Opers /\ <<"sync">> \in Opers
  BY OperTypes DEF Instructions
<1>3. PICK p : p = <<Ir("PROGRAM_DONE"), Run>>  OBVIOUS
<1>4. PICK t : t = <<Ir("DISABLE"), Run, Ir("NOOP"), Run, Ir("REFRESH"), Run, Ir("NOOP"), Run,
                     <<"sync">> >>
  OBVIOUS
<1>5. p \in Seq(Opers) /\ Len(p) = 2 /\ p[1] = Ir("PROGRAM_DONE") /\ p[2] = Run
  BY <1>1, <1>3, TwoTuple, Zenon
<1>6. /\ t \in Seq(Opers) /\ Len(t) = 9
      /\ t[1] = Ir("DISABLE") /\ t[2] = Run /\ t[3] = Ir("NOOP") /\ t[4] = Run
      /\ t[5] = Ir("REFRESH") /\ t[6] = Run /\ t[7] = Ir("NOOP") /\ t[8] = Run
      /\ t[9] = <<"sync">>
  BY <1>1, <1>4, NineTuple, Zenon
<1>7. PICK s : s = p \o PollBusyFlag \o t  OBVIOUS
<1>8. /\ s \in Seq(Opers) /\ Len(s) = 2 + 5 + 9
      /\ \A i \in 1 .. 2 : s[i] = p[i]
      /\ s[2 + 1] = Ir("CHECK_BUSY") /\ s[2 + 2] = Read("busy")
      /\ s[2 + 3] = Ir("READ_STATUS") /\ s[2 + 4] = Read("status") /\ s[2 + 5] = Run
      /\ \A i \in 1 .. 9 : s[2 + 5 + i] = t[i]
  <2>1. /\ s \in Seq(Opers) /\ Len(s) = Len(p) + 5 + Len(t)
        /\ \A i \in 1 .. Len(p) : s[i] = p[i]
        /\ s[Len(p) + 1] = Ir("CHECK_BUSY") /\ s[Len(p) + 2] = Read("busy")
        /\ s[Len(p) + 3] = Ir("READ_STATUS") /\ s[Len(p) + 4] = Read("status")
        /\ s[Len(p) + 5] = Run
        /\ \A i \in 1 .. Len(t) : s[Len(p) + 5 + i] = t[i]
    BY <1>5, <1>6, <1>7, AroundPoll, Zenon
  <2> QED  BY <1>5, <1>6, <2>1, Zenon
<1>9. /\ s[1] = p[1] /\ s[2] = p[2] /\ s[8] = t[1] /\ s[9] = t[2] /\ s[10] = t[3]
      /\ s[11] = t[4] /\ s[12] = t[5] /\ s[13] = t[6] /\ s[14] = t[7] /\ s[15] = t[8]
      /\ s[16] = t[9]
  BY <1>8
<1>10. 2 + 5 + 9 = 16 /\ 2 + 1 = 3 /\ 2 + 2 = 4 /\ 2 + 3 = 5 /\ 2 + 4 = 6 /\ 2 + 5 = 7  OBVIOUS
<1>11. s = ProgramDone  BY <1>3, <1>4, <1>7, Zenon DEF ProgramDone
<1> QED  BY <1>5, <1>6, <1>8, <1>9, <1>10, <1>11, Zenon

RowSeq(r) == <<Ir("PROG_INCR_NV"), Dr(Image[r]), Run>> \o PollBusyFlag
ReadSeq(r) == <<Read(Image[r]), Run>>

LEMMA RowSeqOps ==
    ASSUME NEW r \in 1 .. Rows
    PROVE  LET s == RowSeq(r)
           IN  /\ s \in Seq(Opers) /\ Len(s) = 8
               /\ s[1] = Ir("PROG_INCR_NV") /\ s[2] = Dr(Image[r]) /\ s[3] = Run
               /\ s[4] = Ir("CHECK_BUSY") /\ s[5] = Read("busy") /\ s[6] = Ir("READ_STATUS")
               /\ s[7] = Read("status") /\ s[8] = Run
<1>1. Ir("PROG_INCR_NV") \in Opers /\ Run \in Opers  BY OperTypes DEF Instructions
<1>2. Dr(Image[r]) \in Opers
  <2>1. Image[r] \in Contents  BY RowsType
  <2> QED  BY <2>1, OperTypes DEF Values
<1>3. PICK p : p = <<Ir("PROG_INCR_NV"), Dr(Image[r]), Run>>  OBVIOUS
<1>4. p \in Seq(Opers) /\ Len(p) = 3 /\ p[1] = Ir("PROG_INCR_NV") /\ p[2] = Dr(Image[r]) /\ p[3] = Run
  BY <1>1, <1>2, <1>3, ThreeTuple, Zenon
<1>5. PICK s : s = p \o PollBusyFlag  OBVIOUS
<1>6. /\ s \in Seq(Opers) /\ Len(s) = 3 + 5
      /\ \A i \in 1 .. 3 : s[i] = p[i]
      /\ s[3 + 1] = Ir("CHECK_BUSY") /\ s[3 + 2] = Read("busy")
      /\ s[3 + 3] = Ir("READ_STATUS") /\ s[3 + 4] = Read("status") /\ s[3 + 5] = Run
  <2>1. 3 \in Nat  OBVIOUS
  <2> QED  BY <1>4, <1>5, <2>1, ThenPoll, Zenon
<1>7. s[1] = p[1] /\ s[2] = p[2] /\ s[3] = p[3]  BY <1>6
<1>8. 3 + 1 = 4 /\ 3 + 2 = 5 /\ 3 + 3 = 6 /\ 3 + 4 = 7 /\ 3 + 5 = 8  OBVIOUS
<1>9. s = RowSeq(r)  BY <1>3, <1>5, Zenon DEF RowSeq
<1> QED  BY <1>4, <1>6, <1>7, <1>8, <1>9, Zenon

LEMMA ReadSeqOps ==
    ASSUME NEW r \in 1 .. Rows
    PROVE  LET s == ReadSeq(r)
           IN  s \in Seq(Opers) /\ Len(s) = 2 /\ s[1] = Read(Image[r]) /\ s[2] = Run
<1>1. Read(Image[r]) \in Opers /\ Run \in Opers
  <2>1. Image[r] \in Contents  BY RowsType
  <2> QED  BY <2>1, OperTypes
<1> QED  BY <1>1, TwoTuple, Zenon DEF ReadSeq

LEMMA FunctionIsSeq ==
    ASSUME NEW S, NEW n \in Nat, NEW g \in [1 .. n -> S] PROVE g \in Seq(S) /\ Len(g) = n
OBVIOUS

(* The operations of all rows, one after the other.                          *)
(* Place of operation i of row r, when every row has n of them.              *)
Cell(n, r, i) == n * (r - 1) + i
EachHas(N, ops) == \A r \in 1 .. Rows : ops[r] \in Seq(Opers) /\ Len(ops[r]) = N
EachOf(N, ops) == [i \in 1 .. N * Rows |-> ops[(i - 1) \div N + 1][((i - 1) % N) + 1]]

LEMMA EachRowOps ==
    ASSUME NEW N, N = 2 \/ N = 8, NEW ops, EachHas(N, ops)
    PROVE  LET s == EachOf(N, ops)
           IN  /\ s \in Seq(Opers) /\ Len(s) = N * Rows
               /\ \A r \in 1 .. Rows, i \in 1 .. N : s[Cell(N, r, i)] = ops[r][i]
<1> DEFINE s == EachOf(N, ops)
<1>1. PICK R \in Nat : R = Rows  BY RowsType
<1>2. PICK L \in Nat : L = N * R  BY <1>1
<1>3. \A r \in 1 .. R, i \in 1 .. N : ops[r][i] \in Opers  BY <1>1 DEF EachHas
<1>4. \A k \in 1 .. L : ops[(k - 1) \div N + 1][((k - 1) % N) + 1] \in Opers
  <2> TAKE k \in 1 .. L
  <2>1. PICK r \in 1 .. R, i \in 1 .. N : /\ k = N * (r - 1) + i
                                          /\ (k - 1) \div N + 1 = r /\ ((k - 1) % N) + 1 = i
    <3>1. k \in 1 .. N * R  BY <1>2
    <3> QED  BY <3>1, RowPlace, Zenon
  <2> QED  BY <1>3, <2>1
<1>5. s = [k \in 1 .. L |-> ops[(k - 1) \div N + 1][((k - 1) % N) + 1]]
  BY <1>1, <1>2, Zenon DEF EachOf
<1> HIDE DEF s
<1>6. s \in [1 .. L -> Opers]  BY <1>4, <1>5, Zenon
<1>7. s \in Seq(Opers) /\ Len(s) = L
  BY <1>6, FunctionIsSeq, Zenon
<1>8. \A r \in 1 .. R, i \in 1 .. N : s[Cell(N, r, i)] = ops[r][i]
  <2> TAKE r \in 1 .. R, i \in 1 .. N
  <2>1. PICK k : k = Cell(N, r, i)  OBVIOUS
  <2>2. k \in 1 .. L /\ (k - 1) \div N + 1 = r /\ ((k - 1) % N) + 1 = i
    <3>1. k \in 1 .. N * R /\ (k - 1) \div N + 1 = r /\ ((k - 1) % N) + 1 = i
      BY <2>1, RowIndex DEF Cell
    <3> QED  BY <1>2, <2>1, <3>1, Zenon
  <2>3. s[k] = ops[(k - 1) \div N + 1][((k - 1) % N) + 1]  BY <1>5, <2>2, Zenon
  <2> QED  BY <2>1, <2>2, <2>3, Zenon
<1> QED  BY <1>1, <1>2, <1>7, <1>8, Zenon DEF s

LEMMA RowOps ==
    LET s == ProgramRows
    IN  /\ s \in Seq(Opers) /\ Len(s) = 2 + 8 * Rows
        /\ s[1] = Ir("INIT_ADDRESS") /\ s[2] = Run
        /\ \A r \in 1 .. Rows, i \in 1 .. 8 : s[2 + Cell(8, r, i)] = RowSeq(r)[i]
<1>1. Ir("INIT_ADDRESS") \in Opers /\ Run \in Opers  BY OperTypes DEF Instructions
<1>2. PICK p : p = <<Ir("INIT_ADDRESS"), Run>>  OBVIOUS
<1>3. p \in Seq(Opers) /\ Len(p) = 2 /\ p[1] = Ir("INIT_ADDRESS") /\ p[2] = Run
  BY <1>1, <1>2, TwoTuple, Zenon
<1>4. PICK ops : ops = [r \in 1 .. Rows |-> RowSeq(r)]  OBVIOUS
<1>5. PICK t : t = EachOf(8, ops)  OBVIOUS
<1>6. /\ t \in Seq(Opers) /\ Len(t) = 8 * Rows
      /\ \A r \in 1 .. Rows, i \in 1 .. 8 : t[Cell(8, r, i)] = ops[r][i]
  <2>1. EachHas(8, ops)  BY <1>4, RowSeqOps, Zenon DEF EachHas
  <2>2. EachOf(8, ops) \in Seq(Opers) /\ Len(EachOf(8, ops)) = 8 * Rows
    BY <2>1, EachRowOps, Zenon
  <2>3. \A r \in 1 .. Rows, i \in 1 .. 8 : EachOf(8, ops)[Cell(8, r, i)] = ops[r][i]
    BY <2>1, EachRowOps, SMT
  <2> QED  BY <1>5, <2>2, <2>3, Zenon
<1>7. t = EachRow(8, LAMBDA r : <<Ir("PROG_INCR_NV"), Dr(Image[r]), Run>> \o PollBusyFlag)
  <2>1. PICK R \in Nat : R = Rows  BY RowsType
  <2>2. \A i \in 1 .. 8 * R : (i - 1) \div 8 + 1 \in 1 .. R
    <3> TAKE i \in 1 .. 8 * R
    <3>1. \E r \in 1 .. R, n \in 1 .. 8 : (i - 1) \div 8 + 1 = r  BY RowPlace
    <3> QED  BY <3>1
  <2>3. \A i \in 1 .. 8 * Rows : ops[(i - 1) \div 8 + 1] = RowSeq((i - 1) \div 8 + 1)
    BY <1>4, <2>1, <2>2, Zenon
  <2>4. t = [i \in 1 .. 8 * Rows |-> RowSeq((i - 1) \div 8 + 1)[((i - 1) % 8) + 1]]
    BY <1>5, <2>3, Zenon DEF EachOf
  <2> QED  BY <2>4, Zenon DEF EachRow, RowSeq
<1>8. PICK s : s = p \o t  OBVIOUS
<1>9. s = ProgramRows  BY <1>2, <1>7, <1>8, Zenon DEF ProgramRows
<1>10. /\ s \in Seq(Opers) /\ Len(s) = Len(p) + Len(t)
       /\ \A i \in 1 .. Len(p) : s[i] = p[i]
       /\ \A i \in 1 .. Len(t) : s[Len(p) + i] = t[i]
  <2>1. p \in Seq(Opers) /\ t \in Seq(Opers)  BY <1>3, <1>6
  <2>2. /\ p \o t \in Seq(Opers) /\ Len(p \o t) = Len(p) + Len(t)
        /\ \A i \in 1 .. Len(p) : (p \o t)[i] = p[i]
        /\ \A i \in 1 .. Len(t) : (p \o t)[Len(p) + i] = t[i]
    BY <2>1
  <2> QED  BY <1>8, <2>2, Zenon
<1>11. s[1] = p[1] /\ s[2] = p[2]  BY <1>3, <1>10
<1>12. \A r \in 1 .. Rows, i \in 1 .. 8 : s[2 + Cell(8, r, i)] = RowSeq(r)[i]
  <2> TAKE r \in 1 .. Rows, i \in 1 .. 8
  <2>1. PICK k : k = Cell(8, r, i)  OBVIOUS
  <2>2. k \in 1 .. 8 * Rows  BY <2>1, RowIndex, RowsType DEF Cell
  <2>3. s[2 + k] = t[k]  BY <1>3, <1>6, <1>10, <2>2, Zenon
  <2>4. t[k] = ops[r][i] /\ ops[r] = RowSeq(r)  BY <1>4, <1>6, <2>1, Zenon
  <2> QED  BY <2>1, <2>3, <2>4, Zenon
<1> QED  BY <1>3, <1>6, <1>9, <1>10, <1>11, <1>12, Zenon

LEMMA VerifyOps ==
    LET s == VerifyRows
    IN  /\ s \in Seq(Opers) /\ Len(s) = 4 + 2 * Rows
        /\ s[1] = Ir("INIT_ADDRESS") /\ s[2] = Run /\ s[3] = Ir("READ_INCR_NV") /\ s[4] = Run
        /\ \A r \in 1 .. Rows, i \in 1 .. 2 : s[4 + Cell(2, r, i)] = ReadSeq(r)[i]
<1>1. Ir("INIT_ADDRESS") \in Opers /\ Run \in Opers /\ Ir("READ_INCR_NV") \in Opers
  BY OperTypes DEF Instructions
<1>2. PICK p : p = <<Ir("INIT_ADDRESS"), Run, Ir("READ_INCR_NV"), Run>>  OBVIOUS
<1>3. /\ p \in Seq(Opers) /\ Len(p) = 4
      /\ p[1] = Ir("INIT_ADDRESS") /\ p[2] = Run /\ p[3] = Ir("READ_INCR_NV") /\ p[4] = Run
  BY <1>1, <1>2, FourTuple, Zenon
<1>4. PICK ops : ops = [r \in 1 .. Rows |-> ReadSeq(r)]  OBVIOUS
<1>5. PICK t : t = EachOf(2, ops)  OBVIOUS
<1>6. /\ t \in Seq(Opers) /\ Len(t) = 2 * Rows
      /\ \A r \in 1 .. Rows, i \in 1 .. 2 : t[Cell(2, r, i)] = ops[r][i]
  <2>1. EachHas(2, ops)  BY <1>4, ReadSeqOps, Zenon DEF EachHas
  <2>2. EachOf(2, ops) \in Seq(Opers) /\ Len(EachOf(2, ops)) = 2 * Rows
    BY <2>1, EachRowOps, Zenon
  <2>3. \A r \in 1 .. Rows, i \in 1 .. 2 : EachOf(2, ops)[Cell(2, r, i)] = ops[r][i]
    BY <2>1, EachRowOps, SMT
  <2> QED  BY <1>5, <2>2, <2>3, Zenon
<1>7. t = EachRow(2, LAMBDA r : <<Read(Image[r]), Run>>)
  <2>1. PICK R \in Nat : R = Rows  BY RowsType
  <2>2. \A i \in 1 .. 2 * R : (i - 1) \div 2 + 1 \in 1 .. R
    <3> TAKE i \in 1 .. 2 * R
    <3>1. \E r \in 1 .. R, n \in 1 .. 2 : (i - 1) \div 2 + 1 = r  BY RowPlace
    <3> QED  BY <3>1
  <2>3. \A i \in 1 .. 2 * Rows : ops[(i - 1) \div 2 + 1] = ReadSeq((i - 1) \div 2 + 1)
    BY <1>4, <2>1, <2>2, Zenon
  <2>4. t = [i \in 1 .. 2 * Rows |-> ReadSeq((i - 1) \div 2 + 1)[((i - 1) % 2) + 1]]
    BY <1>5, <2>3, Zenon DEF EachOf
  <2> QED  BY <2>4, Zenon DEF EachRow, ReadSeq
<1>8. PICK s : s = p \o t  OBVIOUS
<1>9. s = VerifyRows  BY <1>2, <1>7, <1>8, Zenon DEF VerifyRows
<1>10. /\ s \in Seq(Opers) /\ Len(s) = Len(p) + Len(t)
       /\ \A i \in 1 .. Len(p) : s[i] = p[i]
       /\ \A i \in 1 .. Len(t) : s[Len(p) + i] = t[i]
  <2>1. p \in Seq(Opers) /\ t \in Seq(Opers)  BY <1>3, <1>6
  <2>2. /\ p \o t \in Seq(Opers) /\ Len(p \o t) = Len(p) + Len(t)
        /\ \A i \in 1 .. Len(p) : (p \o t)[i] = p[i]
        /\ \A i \in 1 .. Len(t) : (p \o t)[Len(p) + i] = t[i]
    BY <2>1
  <2> QED  BY <1>8, <2>2, Zenon
<1>11. s[1] = p[1] /\ s[2] = p[2] /\ s[3] = p[3] /\ s[4] = p[4]  BY <1>3, <1>10
<1>12. \A r \in 1 .. Rows, i \in 1 .. 2 : s[4 + Cell(2, r, i)] = ReadSeq(r)[i]
  <2> TAKE r \in 1 .. Rows, i \in 1 .. 2
  <2>1. PICK k : k = Cell(2, r, i)  OBVIOUS
  <2>2. k \in 1 .. 2 * Rows  BY <2>1, RowIndex, RowsType DEF Cell
  <2>3. s[4 + k] = t[k]  BY <1>3, <1>6, <1>10, <2>2, Zenon
  <2>4. t[k] = ops[r][i] /\ ops[r] = ReadSeq(r)  BY <1>4, <1>6, <2>1, Zenon
  <2> QED  BY <2>1, <2>3, <2>4, Zenon
<1> QED  BY <1>3, <1>6, <1>9, <1>10, <1>11, <1>12, Zenon

Parts(s, S, a, b, c) ==
    /\ s \in Seq(S) /\ Len(s) = Len(a) + Len(b) + Len(c)
    /\ \A i \in 1 .. Len(a) : s[i] = a[i]
    /\ \A i \in 1 .. Len(b) : s[Len(a) + i] = b[i]
    /\ \A i \in 1 .. Len(c) : s[Len(a) + Len(b) + i] = c[i]

LEMMA ThreeJoined ==
    ASSUME NEW S, NEW a \in Seq(S), NEW b \in Seq(S), NEW c \in Seq(S)
    PROVE  Parts(a \o b \o c, S, a, b, c)
<1>1. PICK u : u = a \o b  OBVIOUS
<1>2. /\ u \in Seq(S) /\ Len(u) = Len(a) + Len(b)
      /\ \A i \in 1 .. Len(a) : u[i] = a[i]
      /\ \A i \in 1 .. Len(b) : u[Len(a) + i] = b[i]
  BY <1>1
<1>3. PICK v : v = u \o c  OBVIOUS
<1>4. /\ v \in Seq(S) /\ Len(v) = Len(u) + Len(c)
      /\ \A i \in 1 .. Len(u) : v[i] = u[i]
      /\ \A i \in 1 .. Len(c) : v[Len(u) + i] = c[i]
  <2>1. u \in Seq(S)  BY <1>2
  <2> QED  BY <1>3, <2>1
<1>5. PICK x \in Nat, y \in Nat : x = Len(a) /\ y = Len(b)  OBVIOUS
<1>6. \A i \in 1 .. x : v[i] = a[i]
  <2>1. \A i \in 1 .. x : i \in 1 .. x + y  OBVIOUS
  <2> QED  BY <1>2, <1>4, <1>5, <2>1, Zenon
<1>7. \A i \in 1 .. y : v[x + i] = b[i]
  <2>1. \A i \in 1 .. y : x + i \in 1 .. x + y  OBVIOUS
  <2> QED  BY <1>2, <1>4, <1>5, <2>1, Zenon
<1> QED  BY <1>1, <1>2, <1>3, <1>4, <1>5, <1>6, <1>7, Zenon DEF Parts

LEMMA FlashOps ==
    LET s == FpgaProgramFlash
    IN  /\ s \in Seq(Opers) /\ Len(s) = DoneAt + 16
        /\ \A i \in 1 .. 18 : s[i] = FpgaEraseFlash[i]
        /\ \A i \in 1 .. 2 + 8 * Rows : s[18 + i] = ProgramRows[i]
        /\ \A i \in 1 .. 4 + 2 * Rows : s[VerifyAt + i] = VerifyRows[i]
        /\ \A i \in 1 .. 13 : s[FeatureAt + i] = FeatureRow[i]
        /\ \A i \in 1 .. 11 : s[FeabitsAt + i] = FeabitsRow[i]
        /\ \A i \in 1 .. 16 : s[DoneAt + i] = ProgramDone[i]
<1>1. PICK a, b, c, d, e, f : /\ a = FpgaEraseFlash /\ b = ProgramRows /\ c = VerifyRows
                              /\ d = FeatureRow /\ e = FeabitsRow /\ f = ProgramDone
  OBVIOUS
<1>2. /\ a \in Seq(Opers) /\ b \in Seq(Opers) /\ c \in Seq(Opers)
      /\ d \in Seq(Opers) /\ e \in Seq(Opers) /\ f \in Seq(Opers)
  BY <1>1, EraseOps, RowOps, VerifyOps, FeatureOps, FeabitsOps, DoneOps, Zenon
<1>3. /\ Len(a) = 18 /\ Len(b) = 2 + 8 * Rows /\ Len(c) = 4 + 2 * Rows
      /\ Len(d) = 13 /\ Len(e) = 11 /\ Len(f) = 16
  BY <1>1, EraseOps, RowOps, VerifyOps, FeatureOps, FeabitsOps, DoneOps, Zenon
<1>4. PICK u : u = a \o b \o c  OBVIOUS
<1>5. PICK v : v = u \o d \o e  OBVIOUS
<1>6. PICK s : s = v \o f  OBVIOUS
<1>7. s = FpgaProgramFlash
  BY <1>1, <1>4, <1>5, <1>6, Zenon DEF FpgaProgramFlash
<1>8. /\ u \in Seq(Opers) /\ Len(u) = Len(a) + Len(b) + Len(c)
      /\ \A i \in 1 .. Len(a) : u[i] = a[i]
      /\ \A i \in 1 .. Len(b) : u[Len(a) + i] = b[i]
      /\ \A i \in 1 .. Len(c) : u[Len(a) + Len(b) + i] = c[i]
  <2>1. a \in Seq(Opers) /\ b \in Seq(Opers) /\ c \in Seq(Opers)  BY <1>2
  <2>2. Parts(u, Opers, a, b, c)  BY <1>4, <2>1, ThreeJoined
  <2> QED  BY <2>2, Zenon DEF Parts
<1>9. /\ v \in Seq(Opers) /\ Len(v) = Len(u) + Len(d) + Len(e)
      /\ \A i \in 1 .. Len(u) : v[i] = u[i]
      /\ \A i \in 1 .. Len(d) : v[Len(u) + i] = d[i]
      /\ \A i \in 1 .. Len(e) : v[Len(u) + Len(d) + i] = e[i]
  <2>1. u \in Seq(Opers) /\ d \in Seq(Opers) /\ e \in Seq(Opers)  BY <1>2, <1>8
  <2>2. Parts(v, Opers, u, d, e)  BY <1>5, <2>1, ThreeJoined
  <2> QED  BY <2>2, Zenon DEF Parts
<1>10. /\ s \in Seq(Opers) /\ Len(s) = Len(v) + Len(f)
       /\ \A i \in 1 .. Len(v) : s[i] = v[i]
       /\ \A i \in 1 .. Len(f) : s[Len(v) + i] = f[i]
  <2>1. v \in Seq(Opers) /\ f \in Seq(Opers)  BY <1>2, <1>9
  <2> QED  BY <1>6, <2>1
<1>11. PICK R \in Nat : R = Rows  BY RowsType
<1>12. /\ Len(u) = VerifyAt + 4 + 2 * R /\ Len(v) = DoneAt /\ Len(s) = DoneAt + 16
       /\ VerifyAt \in Nat /\ FeatureAt = VerifyAt + 4 + 2 * R /\ FeatureAt + 13 = FeabitsAt
       /\ VerifyAt = 18 + (2 + 8 * R)
  <2>1. Len(u) = 18 + (2 + 8 * R) + (4 + 2 * R)  BY <1>3, <1>8, <1>11
  <2>2. Len(v) = Len(u) + 13 + 11  BY <1>3, <1>9
  <2> QED  BY <1>3, <1>10, <1>11, <2>1, <2>2 DEF VerifyAt, FeatureAt, FeabitsAt, DoneAt
<1>13. \A i \in 1 .. 18 : s[i] = a[i]
  <2>1. \A i \in 1 .. 18 : u[i] = a[i]  BY <1>3, <1>8, Zenon
  <2>2. \A i \in 1 .. 18 : i \in 1 .. Len(u) /\ i \in 1 .. Len(v)
    BY <1>11, <1>12 DEF VerifyAt, DoneAt
  <2> QED  BY <1>9, <1>10, <2>1, <2>2, Zenon
<1>14. \A i \in 1 .. 2 + 8 * R : s[18 + i] = b[i]
  <2>1. \A i \in 1 .. 2 + 8 * R : u[18 + i] = b[i]  BY <1>3, <1>8, <1>11, Zenon
  <2>2. \A i \in 1 .. 2 + 8 * R : 18 + i \in 1 .. Len(u) /\ 18 + i \in 1 .. Len(v)
    BY <1>11, <1>12 DEF VerifyAt, DoneAt
  <2> QED  BY <1>9, <1>10, <2>1, <2>2, Zenon
<1>15. \A i \in 1 .. 4 + 2 * R : s[VerifyAt + i] = c[i]
  <2>1. \A i \in 1 .. 4 + 2 * R : u[VerifyAt + i] = c[i]  BY <1>3, <1>8, <1>11, <1>12, Zenon
  <2>2. \A i \in 1 .. 4 + 2 * R : VerifyAt + i \in 1 .. Len(u) /\ VerifyAt + i \in 1 .. Len(v)
    BY <1>11, <1>12 DEF VerifyAt, DoneAt
  <2> QED  BY <1>9, <1>10, <2>1, <2>2, Zenon
<1>16. \A i \in 1 .. 13 : s[FeatureAt + i] = d[i]
  <2>1. \A i \in 1 .. 13 : v[FeatureAt + i] = d[i]  BY <1>3, <1>9, <1>12, Zenon
  <2>2. \A i \in 1 .. 13 : FeatureAt + i \in 1 .. Len(v)
    BY <1>11, <1>12 DEF VerifyAt, DoneAt
  <2> QED  BY <1>10, <2>1, <2>2, Zenon
<1>17. \A i \in 1 .. 11 : s[FeabitsAt + i] = e[i]
  <2>1. \A i \in 1 .. 11 : v[FeabitsAt + i] = e[i]  BY <1>3, <1>9, <1>12, Zenon
  <2>2. \A i \in 1 .. 11 : FeabitsAt + i \in 1 .. Len(v)
    BY <1>11, <1>12 DEF VerifyAt, FeabitsAt, DoneAt
  <2> QED  BY <1>10, <2>1, <2>2, Zenon
<1>18. \A i \in 1 .. 16 : s[DoneAt + i] = f[i]  BY <1>3, <1>10, <1>12, Zenon
<1> QED  BY <1>1, <1>7, <1>10, <1>11, <1>12, <1>13, <1>14, <1>15, <1>16, <1>17, <1>18, Zenon

LEMMA FlashLength == Len(FpgaProgramFlash) = DoneAt + 16 /\ FpgaProgramFlash \in Seq(Opers)
BY FlashOps, Zenon

LEMMA ErasePart == \A i \in 1 .. 18 : FpgaProgramFlash[i] = FpgaEraseFlash[i]
BY FlashOps, Zenon

LEMMA RowPart == \A i \in 1 .. 2 + 8 * Rows : FpgaProgramFlash[18 + i] = ProgramRows[i]
BY FlashOps, Zenon

LEMMA VerifyPart == \A i \in 1 .. 4 + 2 * Rows : FpgaProgramFlash[VerifyAt + i] = VerifyRows[i]
BY FlashOps, Zenon

LEMMA FeaturePart == \A i \in 1 .. 13 : FpgaProgramFlash[FeatureAt + i] = FeatureRow[i]
BY FlashOps, Zenon

LEMMA FeabitsPart == \A i \in 1 .. 11 : FpgaProgramFlash[FeabitsAt + i] = FeabitsRow[i]
BY FlashOps, Zenon

LEMMA DonePart == \A i \in 1 .. 16 : FpgaProgramFlash[DoneAt + i] = ProgramDone[i]
BY FlashOps, Zenon

-----------------------------------------------------------------------------
(* What operation k of fpga_program_flash can be.                            *)
Still == Instructions \ {"INIT_ADDRESS", "PROGRAM_DONE", "DISABLE", "REFRESH"}

FlashIr(k, o) ==
    \/ \E c \in Still : o = Ir(c) /\ (k <= 11 => c \in Mild) /\ k \notin VerifyAt + 4 .. FeatureAt
    \/ o = Ir("INIT_ADDRESS") /\ k \in {19, VerifyAt + 1, FeatureAt + 1}
    \/ o = Ir("PROGRAM_DONE") /\ k = DoneAt + 1
    \/ o = Ir("DISABLE") /\ k = DoneAt + 8
    \/ o = Ir("REFRESH") /\ k = DoneAt + 12

FlashDr(k, o, before) ==
    \/ o = Dr("sram") /\ k \in {2, 5}
    \/ o = Dr("flash") /\ k = 9
    \/ o = Dr("all_nv") /\ k = 12
    \/ k \in 21 .. VerifyAt /\ before = Ir("PROG_INCR_NV") /\ \E v \in Contents : o = Dr(v)
    \/ o = Dr(Image[Feature]) /\ k = FeatureAt + 4
    \/ o = Dr(Image[Feabits]) /\ k = FeabitsAt + 2

FlashRead(k, o, before) ==
    \/ o = Read("busy") /\ before = Ir("CHECK_BUSY") /\ k > 14
          /\ k \notin VerifyAt + 1 .. FeatureAt + 1 /\ k # DoneAt + 2
    \/ o = Read("status") /\ before = Ir("READ_STATUS") /\ k > 14 /\ k \notin VerifyAt + 1 .. FeatureAt + 1
    \/ \E n \in 1 .. Rows : o = Read(Image[n]) /\ k = VerifyAt + 3 + 2 * n
    \/ o = Read(Image[Feature]) /\ k = FeatureAt + 12
    \/ o = Read(Image[Feabits]) /\ k = FeabitsAt + 11

FlashOp(k, o, before) == \/ FlashIr(k, o) \/ FlashDr(k, o, before) \/ FlashRead(k, o, before)
                         \/ o = Run \/ o = <<"sync">>

LEMMA EraseKinds ==
    ASSUME NEW k \in 1 .. 18
    PROVE  FlashOp(k, FpgaEraseFlash[k], FpgaEraseFlash[k - 1])
<1>1. PICK R \in Nat : R = Rows  BY RowsType
<1>2. k \notin VerifyAt + 1 .. FeatureAt + 1 /\ k \notin VerifyAt + 4 .. FeatureAt /\ k # DoneAt + 2
  BY <1>1 DEF VerifyAt, FeatureAt, DoneAt
<1> DEFINE s == FpgaEraseFlash
<1>3. CASE s[k] = Ir("ENABLE") \/ s[k] = Ir("ERASE") \/ s[k] = Ir("NOOP")
  BY <1>2, <1>3 DEF FlashOp, FlashIr, Still, Instructions, Mild
<1>4. CASE k \in {14, 16}
  <2>1. s[k] = Ir("CHECK_BUSY") \/ s[k] = Ir("READ_STATUS")  BY <1>4, EraseOps
  <2>2. ~(k <= 11)  BY <1>4
  <2> QED  BY <1>2, <2>1, <2>2 DEF FlashOp, FlashIr, Still, Instructions
<1>5. CASE k \in {2, 5, 9, 12}
  <2>1. \/ k \in {2, 5} /\ s[k] = Dr("sram")
        \/ k = 9 /\ s[k] = Dr("flash")
        \/ k = 12 /\ s[k] = Dr("all_nv")
    BY <1>5, EraseOps
  <2> QED  BY <2>1 DEF FlashOp, FlashDr
<1>6. CASE k \in {15, 17}
  <2>1. \/ s[k] = Read("busy") /\ s[k - 1] = Ir("CHECK_BUSY")
        \/ s[k] = Read("status") /\ s[k - 1] = Ir("READ_STATUS")
    BY <1>6, EraseOps
  <2>2. k > 14  BY <1>6
  <2> QED  BY <1>2, <2>1, <2>2 DEF FlashOp, FlashRead
<1>7. CASE k \in {3, 6, 10, 13, 18}
  <2>1. s[k] = Run  BY <1>7, EraseOps
  <2> QED  BY <2>1 DEF FlashOp
<1>8. CASE k \in {1, 4, 7, 8, 11}
  <2>1. s[k] = Ir("ENABLE") \/ s[k] = Ir("ERASE") \/ s[k] = Ir("NOOP")  BY <1>8, EraseOps
  <2> QED  BY <1>3, <2>1
<1>9. k \in {1, 4, 7, 8, 11} \/ k \in {14, 16} \/ k \in {2, 5, 9, 12} \/ k \in {15, 17}
      \/ k \in {3, 6, 10, 13, 18}
  OBVIOUS
<1> QED  BY <1>4, <1>5, <1>6, <1>7, <1>8, <1>9

LEMMA FeatureKinds ==
    ASSUME NEW i \in 1 .. 13, NEW k, k = FeatureAt + i, NEW before, i > 1 => before = FeatureRow[i - 1]
    PROVE  FlashOp(k, FeatureRow[i], before)
<1>1. PICK R \in Nat : R = Rows  BY RowsType
<1>2. /\ k > 14 /\ k \notin VerifyAt + 4 .. FeatureAt /\ k # DoneAt + 2
      /\ i > 1 => k \notin VerifyAt + 1 .. FeatureAt + 1
  BY <1>1 DEF VerifyAt, FeatureAt, DoneAt
<1> DEFINE s == FeatureRow
<1>3. CASE i = 1
  <2>1. s[i] = Ir("INIT_ADDRESS") /\ k = FeatureAt + 1  BY <1>3, FeatureOps
  <2> QED  BY <2>1 DEF FlashOp, FlashIr
<1>4. CASE i \in {3, 6, 8, 11}
  <2>1. \/ s[i] = Ir("PROG_FEATURE") \/ s[i] = Ir("CHECK_BUSY") \/ s[i] = Ir("READ_STATUS")
        \/ s[i] = Ir("READ_FEATURE")
    BY <1>4, FeatureOps
  <2>2. ~(k <= 11)  BY <1>1 DEF FeatureAt
  <2> QED  BY <1>2, <2>1, <2>2 DEF FlashOp, FlashIr, Still, Instructions
<1>5. CASE i = 4
  <2>1. s[i] = Dr(Image[Feature]) /\ k = FeatureAt + 4  BY <1>5, FeatureOps
  <2> QED  BY <2>1 DEF FlashOp, FlashDr
<1>6. CASE i \in {7, 9}
  <2>1. \/ s[i] = Read("busy") /\ before = Ir("CHECK_BUSY")
        \/ s[i] = Read("status") /\ before = Ir("READ_STATUS")
    BY <1>6, FeatureOps
  <2>2. i > 1  BY <1>6
  <2> QED  BY <1>2, <2>1, <2>2 DEF FlashOp, FlashRead
<1>7. CASE i = 12
  <2>1. s[i] = Read(Image[Feature]) /\ k = FeatureAt + 12  BY <1>7, FeatureOps
  <2> QED  BY <2>1 DEF FlashOp, FlashRead
<1>8. CASE i \in {2, 5, 10, 13}
  <2>1. s[i] = Run  BY <1>8, FeatureOps
  <2> QED  BY <2>1 DEF FlashOp
<1>9. i = 1 \/ i \in {3, 6, 8, 11} \/ i = 4 \/ i \in {7, 9} \/ i = 12 \/ i \in {2, 5, 10, 13}
  OBVIOUS
<1> QED  BY <1>3, <1>4, <1>5, <1>6, <1>7, <1>8, <1>9

LEMMA FeabitsKinds ==
    ASSUME NEW i \in 1 .. 11, NEW k, k = FeabitsAt + i, NEW before, i > 1 => before = FeabitsRow[i - 1]
    PROVE  FlashOp(k, FeabitsRow[i], before)
<1>1. PICK R \in Nat : R = Rows  BY RowsType
<1>2. /\ k > 14 /\ k \notin VerifyAt + 4 .. FeatureAt /\ k # DoneAt + 2
      /\ k \notin VerifyAt + 1 .. FeatureAt + 1 /\ ~(k <= 11)
  BY <1>1 DEF VerifyAt, FeatureAt, FeabitsAt, DoneAt
<1> DEFINE s == FeabitsRow
<1>3. CASE i \in {1, 4, 6, 9}
  <2>1. \/ s[i] = Ir("PROG_FEABITS") \/ s[i] = Ir("CHECK_BUSY") \/ s[i] = Ir("READ_STATUS")
        \/ s[i] = Ir("READ_FEABITS")
    BY <1>3, FeabitsOps
  <2> QED  BY <1>2, <2>1 DEF FlashOp, FlashIr, Still, Instructions
<1>4. CASE i = 2
  <2>1. s[i] = Dr(Image[Feabits]) /\ k = FeabitsAt + 2  BY <1>4, FeabitsOps
  <2> QED  BY <2>1 DEF FlashOp, FlashDr
<1>5. CASE i \in {5, 7}
  <2>1. \/ s[i] = Read("busy") /\ before = Ir("CHECK_BUSY")
        \/ s[i] = Read("status") /\ before = Ir("READ_STATUS")
    BY <1>5, FeabitsOps
  <2> QED  BY <1>2, <2>1 DEF FlashOp, FlashRead
<1>6. CASE i = 11
  <2>1. s[i] = Read(Image[Feabits]) /\ k = FeabitsAt + 11  BY <1>6, FeabitsOps
  <2> QED  BY <2>1 DEF FlashOp, FlashRead
<1>7. CASE i \in {3, 8, 10}
  <2>1. s[i] = Run  BY <1>7, FeabitsOps
  <2> QED  BY <2>1 DEF FlashOp
<1>8. i \in {1, 4, 6, 9} \/ i = 2 \/ i \in {5, 7} \/ i = 11 \/ i \in {3, 8, 10}  OBVIOUS
<1> QED  BY <1>3, <1>4, <1>5, <1>6, <1>7, <1>8

LEMMA DoneKinds ==
    ASSUME NEW i \in 1 .. 16, NEW k, k = DoneAt + i, NEW before, i > 1 => before = ProgramDone[i - 1]
    PROVE  FlashOp(k, ProgramDone[i], before)
<1>1. PICK R \in Nat : R = Rows  BY RowsType
<1>2. /\ k > 14 /\ k \notin VerifyAt + 4 .. FeatureAt /\ (i # 2 => k # DoneAt + 2)
      /\ k \notin VerifyAt + 1 .. FeatureAt + 1 /\ ~(k <= 11)
  BY <1>1 DEF VerifyAt, FeatureAt, DoneAt
<1> DEFINE s == ProgramDone
<1>3. CASE i \in {1, 8, 12}
  <2>1. \/ s[i] = Ir("PROGRAM_DONE") /\ k = DoneAt + 1
        \/ s[i] = Ir("DISABLE") /\ k = DoneAt + 8
        \/ s[i] = Ir("REFRESH") /\ k = DoneAt + 12
    BY <1>3, DoneOps
  <2> QED  BY <2>1 DEF FlashOp, FlashIr
<1>4. CASE i \in {3, 5, 10, 14}
  <2>1. s[i] = Ir("CHECK_BUSY") \/ s[i] = Ir("READ_STATUS") \/ s[i] = Ir("NOOP")
    BY <1>4, DoneOps
  <2> QED  BY <1>2, <2>1 DEF FlashOp, FlashIr, Still, Instructions
<1>5. CASE i \in {4, 6}
  <2>1. \/ s[i] = Read("busy") /\ before = Ir("CHECK_BUSY")
        \/ s[i] = Read("status") /\ before = Ir("READ_STATUS")
    BY <1>5, DoneOps
  <2>2. i # 2  BY <1>5
  <2> QED  BY <1>2, <2>1, <2>2 DEF FlashOp, FlashRead
<1>6. CASE i \in {2, 7, 9, 11, 13, 15, 16}
  <2>1. s[i] = Run \/ s[i] = <<"sync">>  BY <1>6, DoneOps
  <2> QED  BY <2>1 DEF FlashOp
<1>7. i \in {1, 8, 12} \/ i \in {3, 5, 10, 14} \/ i \in {4, 6} \/ i \in {2, 7, 9, 11, 13, 15, 16}
  OBVIOUS
<1> QED  BY <1>3, <1>4, <1>5, <1>6, <1>7

LEMMA RowOf8 ==
    ASSUME NEW R \in Nat, NEW x \in 1 .. 8 * R
    PROVE  \E r \in 1 .. R, j \in 1 .. 8 : x = 8 * (r - 1) + j
<1>1. PICK d \in Nat, y \in 0 .. 7 : d = (x - 1) \div 8 /\ y = (x - 1) % 8 /\ x - 1 = 8 * d + y
  OBVIOUS
<1>2. d + 1 \in 1 .. R /\ y + 1 \in 1 .. 8 /\ x = 8 * ((d + 1) - 1) + (y + 1)  BY <1>1
<1> QED  BY <1>2

LEMMA RowOf2 ==
    ASSUME NEW R \in Nat, NEW x \in 1 .. 2 * R
    PROVE  \E r \in 1 .. R, j \in 1 .. 2 : x = 2 * (r - 1) + j
<1>1. PICK d \in Nat, y \in 0 .. 1 : d = (x - 1) \div 2 /\ y = (x - 1) % 2 /\ x - 1 = 2 * d + y
  OBVIOUS
<1>2. d + 1 \in 1 .. R /\ y + 1 \in 1 .. 2 /\ x = 2 * ((d + 1) - 1) + (y + 1)  BY <1>1
<1> QED  BY <1>2

LEMMA RowKinds ==
    ASSUME NEW i \in 1 .. 2 + 8 * Rows, NEW k, k = 18 + i,
           NEW before, i > 1 => before = ProgramRows[i - 1]
    PROVE  FlashOp(k, ProgramRows[i], before)
<1>1. PICK R \in Nat : R = Rows  BY RowsType
<1> DEFINE s == ProgramRows
<1>2. CASE i = 1
  <2>1. s[i] = Ir("INIT_ADDRESS") /\ k = 19  BY <1>2, RowOps
  <2> QED  BY <2>1 DEF FlashOp, FlashIr
<1>3. CASE i = 2
  <2>1. s[i] = Run  BY <1>3, RowOps
  <2> QED  BY <2>1 DEF FlashOp
<1>4. CASE i > 2
  <2>1. i - 2 \in 1 .. 8 * R  BY <1>1, <1>4
  <2>2. PICK r \in 1 .. R, j \in 1 .. 8 : i - 2 = 8 * (r - 1) + j  BY <2>1, RowOf8
  <2>3. i = 2 + Cell(8, r, j) /\ (j > 1 => i - 1 = 2 + Cell(8, r, j - 1))  BY <1>1, <2>2 DEF Cell
  <2>4. s[i] = RowSeq(r)[j]  BY <1>1, <2>3, RowOps
  <2>5. j > 1 => before = RowSeq(r)[j - 1]
    <3>1. CASE j > 1
      <4>1. j - 1 \in 1 .. 8 /\ i > 1  BY <1>4, <3>1
      <4>2. s[2 + Cell(8, r, j - 1)] = RowSeq(r)[j - 1]  BY <1>1, <4>1, RowOps
      <4> QED  BY <2>3, <3>1, <4>1, <4>2
    <3> QED  BY <3>1
  <2>6. /\ k > 14 /\ k \in 21 .. VerifyAt /\ k \notin VerifyAt + 4 .. FeatureAt /\ k # DoneAt + 2
        /\ k \notin VerifyAt + 1 .. FeatureAt + 1 /\ ~(k <= 11)
    BY <1>1, <1>4 DEF VerifyAt, FeatureAt, DoneAt
  <2>7. CASE j \in {1, 4, 6}
    <3>1. s[i] = Ir("PROG_INCR_NV") \/ s[i] = Ir("CHECK_BUSY") \/ s[i] = Ir("READ_STATUS")
      BY <1>1, <2>4, <2>7, RowSeqOps
    <3> QED  BY <2>6, <3>1 DEF FlashOp, FlashIr, Still, Instructions
  <2>8. CASE j = 2
    <3>1. s[i] = Dr(Image[r]) /\ before = Ir("PROG_INCR_NV")  BY <1>1, <2>4, <2>5, <2>8, RowSeqOps
    <3>2. Image[r] \in Contents  BY <1>1, RowsType
    <3> QED  BY <2>6, <3>1, <3>2 DEF FlashOp, FlashDr
  <2>9. CASE j \in {5, 7}
    <3>1. \/ s[i] = Read("busy") /\ before = Ir("CHECK_BUSY")
          \/ s[i] = Read("status") /\ before = Ir("READ_STATUS")
      BY <1>1, <2>4, <2>5, <2>9, RowSeqOps
    <3> QED  BY <2>6, <3>1 DEF FlashOp, FlashRead
  <2>10. CASE j \in {3, 8}
    <3>1. s[i] = Run  BY <1>1, <2>4, <2>10, RowSeqOps
    <3> QED  BY <3>1 DEF FlashOp
  <2>11. j \in {1, 4, 6} \/ j = 2 \/ j \in {5, 7} \/ j \in {3, 8}  OBVIOUS
  <2> QED  BY <2>7, <2>8, <2>9, <2>10, <2>11
<1> QED  BY <1>1, <1>2, <1>3, <1>4

LEMMA VerifyKinds ==
    ASSUME NEW i \in 1 .. 4 + 2 * Rows, NEW k, k = VerifyAt + i, NEW before
    PROVE  FlashOp(k, VerifyRows[i], before)
<1>1. PICK R \in Nat : R = Rows  BY RowsType
<1> DEFINE s == VerifyRows
<1>2. CASE i = 1
  <2>1. s[i] = Ir("INIT_ADDRESS") /\ k = VerifyAt + 1  BY <1>2, VerifyOps
  <2> QED  BY <2>1 DEF FlashOp, FlashIr
<1>3. CASE i \in {2, 4}
  <2>1. s[i] = Run  BY <1>3, VerifyOps
  <2> QED  BY <2>1 DEF FlashOp
<1>4. CASE i = 3
  <2>1. s[i] = Ir("READ_INCR_NV")  BY <1>4, VerifyOps
  <2>2. k \notin VerifyAt + 4 .. FeatureAt /\ ~(k <= 11)  BY <1>1, <1>4 DEF VerifyAt, FeatureAt
  <2> QED  BY <2>1, <2>2 DEF FlashOp, FlashIr, Still, Instructions
<1>5. CASE i > 4
  <2>1. i - 4 \in 1 .. 2 * R  BY <1>1, <1>5
  <2>2. PICK r \in 1 .. R, j \in 1 .. 2 : i - 4 = 2 * (r - 1) + j  BY <2>1, RowOf2
  <2>3. i = 4 + Cell(2, r, j)  BY <1>1, <2>2 DEF Cell
  <2>4. s[i] = ReadSeq(r)[j]  BY <1>1, <2>3, VerifyOps
  <2>5. CASE j = 1
    <3>1. s[i] = Read(Image[r])  BY <1>1, <2>4, <2>5, ReadSeqOps
    <3>2. k = VerifyAt + 3 + 2 * r  BY <1>1, <2>2, <2>5 DEF VerifyAt
    <3> QED  BY <1>1, <3>1, <3>2 DEF FlashOp, FlashRead
  <2>6. CASE j = 2
    <3>1. s[i] = Run  BY <1>1, <2>4, <2>6, ReadSeqOps
    <3> QED  BY <3>1 DEF FlashOp
  <2> QED  BY <2>5, <2>6
<1>6. i = 1 \/ i \in {2, 4} \/ i = 3 \/ i > 4  BY <1>1
<1> QED  BY <1>2, <1>3, <1>4, <1>5, <1>6

LEMMA FlashKinds ==
    ASSUME NEW k \in 1 .. DoneAt + 16
    PROVE  FlashOp(k, FpgaProgramFlash[k], FpgaProgramFlash[k - 1])
<1>1. PICK R \in Nat : R = Rows  BY RowsType
<1> DEFINE s == FpgaProgramFlash
<1>2. CASE k \in 1 .. 18
  <2>1. CASE k = 1
    <3>1. s[k] = Ir("ENABLE")  BY <2>1, ErasePart, EraseOps
    <3>2. k \notin VerifyAt + 4 .. FeatureAt  BY <1>1, <2>1 DEF VerifyAt, FeatureAt
    <3> QED  BY <3>1, <3>2 DEF FlashOp, FlashIr, Still, Instructions, Mild
  <2>2. CASE k > 1
    <3>1. k - 1 \in 1 .. 18  BY <1>2, <2>2
    <3>2. s[k] = FpgaEraseFlash[k] /\ s[k - 1] = FpgaEraseFlash[k - 1]  BY <1>2, <3>1, ErasePart
    <3> QED  BY <1>2, <3>2, EraseKinds
  <2> QED  BY <1>2, <2>1, <2>2
<1>3. CASE k \in 19 .. VerifyAt
  <2>1. PICK i \in 1 .. 2 + 8 * R : k = 18 + i
    <3>1. k - 18 \in 1 .. 2 + 8 * R /\ k = 18 + (k - 18)  BY <1>1, <1>3 DEF VerifyAt
    <3> QED  BY <3>1
  <2>2. s[k] = ProgramRows[i]  BY <1>1, <2>1, RowPart
  <2>3. i > 1 => s[k - 1] = ProgramRows[i - 1]
    <3>1. CASE i > 1
      <4>1. i - 1 \in 1 .. 2 + 8 * R /\ k - 1 = 18 + (i - 1)  BY <1>1, <2>1, <3>1
      <4> QED  BY <1>1, <4>1, RowPart
    <3> QED  BY <3>1
  <2> QED  BY <1>1, <2>1, <2>2, <2>3, RowKinds
<1>4. CASE k \in VerifyAt + 1 .. FeatureAt
  <2>1. PICK i \in 1 .. 4 + 2 * R : k = VerifyAt + i
    <3>1. k - VerifyAt \in 1 .. 4 + 2 * R /\ k = VerifyAt + (k - VerifyAt)
      BY <1>1, <1>4 DEF VerifyAt, FeatureAt
    <3> QED  BY <3>1
  <2>2. s[k] = VerifyRows[i]  BY <1>1, <2>1, VerifyPart
  <2> QED  BY <1>1, <2>1, <2>2, VerifyKinds
<1>5. CASE k \in FeatureAt + 1 .. FeabitsAt
  <2>1. PICK i \in 1 .. 13 : k = FeatureAt + i
    <3>1. k - FeatureAt \in 1 .. 13 /\ k = FeatureAt + (k - FeatureAt)
      BY <1>1, <1>5 DEF FeatureAt, FeabitsAt
    <3> QED  BY <3>1
  <2>2. s[k] = FeatureRow[i]  BY <2>1, FeaturePart
  <2>3. i > 1 => s[k - 1] = FeatureRow[i - 1]
    <3>1. CASE i > 1
      <4>1. i - 1 \in 1 .. 13 /\ k - 1 = FeatureAt + (i - 1)  BY <1>1, <2>1, <3>1 DEF FeatureAt
      <4> QED  BY <4>1, FeaturePart
    <3> QED  BY <3>1
  <2> QED  BY <2>1, <2>2, <2>3, FeatureKinds
<1>6. CASE k \in FeabitsAt + 1 .. DoneAt
  <2>1. PICK i \in 1 .. 11 : k = FeabitsAt + i
    <3>1. k - FeabitsAt \in 1 .. 11 /\ k = FeabitsAt + (k - FeabitsAt)
      BY <1>1, <1>6 DEF FeabitsAt, DoneAt
    <3> QED  BY <3>1
  <2>2. s[k] = FeabitsRow[i]  BY <2>1, FeabitsPart
  <2>3. i > 1 => s[k - 1] = FeabitsRow[i - 1]
    <3>1. CASE i > 1
      <4>1. i - 1 \in 1 .. 11 /\ k - 1 = FeabitsAt + (i - 1)  BY <1>1, <2>1, <3>1 DEF FeabitsAt
      <4> QED  BY <4>1, FeabitsPart
    <3> QED  BY <3>1
  <2> QED  BY <2>1, <2>2, <2>3, FeabitsKinds
<1>7. CASE k \in DoneAt + 1 .. DoneAt + 16
  <2>1. PICK i \in 1 .. 16 : k = DoneAt + i
    <3>1. k - DoneAt \in 1 .. 16 /\ k = DoneAt + (k - DoneAt)  BY <1>1, <1>7 DEF DoneAt
    <3> QED  BY <3>1
  <2>2. s[k] = ProgramDone[i]  BY <2>1, DonePart
  <2>3. i > 1 => s[k - 1] = ProgramDone[i - 1]
    <3>1. CASE i > 1
      <4>1. i - 1 \in 1 .. 16 /\ k - 1 = DoneAt + (i - 1)  BY <1>1, <2>1, <3>1 DEF DoneAt
      <4> QED  BY <4>1, DonePart
    <3> QED  BY <3>1
  <2> QED  BY <2>1, <2>2, <2>3, DoneKinds
<1>8. \/ k \in 1 .. 18 \/ k \in 19 .. VerifyAt \/ k \in VerifyAt + 1 .. FeatureAt
      \/ k \in FeatureAt + 1 .. FeabitsAt \/ k \in FeabitsAt + 1 .. DoneAt
      \/ k \in DoneAt + 1 .. DoneAt + 16
  BY <1>1 DEF VerifyAt, FeatureAt, FeabitsAt, DoneAt
<1> QED  BY <1>2, <1>3, <1>4, <1>5, <1>6, <1>7, <1>8

(* The operations that the proofs below look up by their place.              *)
LEMMA FlashPlaces ==
    LET s == FpgaProgramFlash
    IN  /\ s[1] = Ir("ENABLE") /\ s[2] = Dr("sram")
        /\ s[8] = Ir("ENABLE") /\ s[9] = Dr("flash") /\ s[11] = Ir("ERASE") /\ s[12] = Dr("all_nv")
        /\ s[VerifyAt + 1] = Ir("INIT_ADDRESS") /\ s[VerifyAt + 3] = Ir("READ_INCR_NV")
        /\ \A n \in 1 .. Rows : s[VerifyAt + 3 + 2 * n] = Read(Image[n])
        /\ s[FeatureAt + 3] = Ir("PROG_FEATURE") /\ s[FeatureAt + 4] = Dr(Image[Feature])
        /\ s[FeatureAt + 11] = Ir("READ_FEATURE") /\ s[FeatureAt + 12] = Read(Image[Feature])
        /\ s[FeabitsAt + 1] = Ir("PROG_FEABITS") /\ s[FeabitsAt + 2] = Dr(Image[Feabits])
        /\ s[FeabitsAt + 9] = Ir("READ_FEABITS") /\ s[FeabitsAt + 10] = Run
        /\ s[FeabitsAt + 11] = Read(Image[Feabits])
        /\ s[DoneAt + 1] = Ir("PROGRAM_DONE") /\ s[DoneAt + 12] = Ir("REFRESH")
        /\ s[DoneAt + 16] = <<"sync">>
<1>1. PICK R \in Nat : R = Rows  BY RowsType
<1> DEFINE s == FpgaProgramFlash
<1>2. /\ s[1] = Ir("ENABLE") /\ s[2] = Dr("sram")
      /\ s[8] = Ir("ENABLE") /\ s[9] = Dr("flash") /\ s[11] = Ir("ERASE") /\ s[12] = Dr("all_nv")
  BY ErasePart, EraseOps
<1>3. s[VerifyAt + 1] = Ir("INIT_ADDRESS") /\ s[VerifyAt + 3] = Ir("READ_INCR_NV")
  <2>1. 1 \in 1 .. 4 + 2 * R /\ 3 \in 1 .. 4 + 2 * R  OBVIOUS
  <2> QED  BY <1>1, <2>1, VerifyPart, VerifyOps
<1>4. \A n \in 1 .. R : s[VerifyAt + 3 + 2 * n] = Read(Image[n])
  <2> TAKE n \in 1 .. R
  <2>1. PICK i : i = 4 + Cell(2, n, 1)  OBVIOUS
  <2>2. i \in 1 .. 4 + 2 * R /\ VerifyAt + 3 + 2 * n = VerifyAt + i  BY <1>1, <2>1 DEF Cell, VerifyAt
  <2>3. s[VerifyAt + i] = VerifyRows[i]  BY <1>1, <2>2, VerifyPart
  <2>4. VerifyRows[i] = ReadSeq(n)[1]  BY <1>1, <2>1, VerifyOps
  <2> QED  BY <1>1, <2>2, <2>3, <2>4, ReadSeqOps
<1>5. /\ s[FeatureAt + 3] = Ir("PROG_FEATURE") /\ s[FeatureAt + 4] = Dr(Image[Feature])
      /\ s[FeatureAt + 11] = Ir("READ_FEATURE") /\ s[FeatureAt + 12] = Read(Image[Feature])
  <2>1. 3 \in 1 .. 13 /\ 4 \in 1 .. 13 /\ 11 \in 1 .. 13 /\ 12 \in 1 .. 13  OBVIOUS
  <2>2. /\ s[FeatureAt + 3] = FeatureRow[3]
        /\ s[FeatureAt + 4] = FeatureRow[4]
        /\ s[FeatureAt + 11] = FeatureRow[11]
        /\ s[FeatureAt + 12] = FeatureRow[12]
    BY <2>1, FeaturePart, Zenon
  <2> QED  BY <2>2, FeatureOps
<1>6. /\ s[FeabitsAt + 1] = Ir("PROG_FEABITS") /\ s[FeabitsAt + 2] = Dr(Image[Feabits])
      /\ s[FeabitsAt + 9] = Ir("READ_FEABITS") /\ s[FeabitsAt + 10] = Run
      /\ s[FeabitsAt + 11] = Read(Image[Feabits])
  <2>1. 1 \in 1 .. 11 /\ 2 \in 1 .. 11 /\ 9 \in 1 .. 11 /\ 10 \in 1 .. 11 /\ 11 \in 1 .. 11  OBVIOUS
  <2>2. /\ s[FeabitsAt + 1] = FeabitsRow[1]
        /\ s[FeabitsAt + 2] = FeabitsRow[2]
        /\ s[FeabitsAt + 9] = FeabitsRow[9]
        /\ s[FeabitsAt + 10] = FeabitsRow[10]
        /\ s[FeabitsAt + 11] = FeabitsRow[11]
    BY <2>1, FeabitsPart, Zenon
  <2> QED  BY <2>2, FeabitsOps
<1>7. /\ s[DoneAt + 1] = Ir("PROGRAM_DONE") /\ s[DoneAt + 12] = Ir("REFRESH")
      /\ s[DoneAt + 16] = <<"sync">>
  <2>1. 1 \in 1 .. 16 /\ 12 \in 1 .. 16 /\ 16 \in 1 .. 16  OBVIOUS
  <2>2. /\ s[DoneAt + 1] = ProgramDone[1]
        /\ s[DoneAt + 12] = ProgramDone[12]
        /\ s[DoneAt + 16] = ProgramDone[16]
    BY <2>1, DonePart, Zenon
  <2> QED  BY <2>2, DoneOps
<1> QED  BY <1>1, <1>2, <1>3, <1>4, <1>5, <1>6, <1>7

LEMMA IrOf ==
    ASSUME NEW k, NEW o, NEW before, FlashOp(k, o, before), NEW c, o = Ir(c)
    PROVE  \/ c \in Still /\ (k <= 11 => c \in Mild) /\ k \notin VerifyAt + 4 .. FeatureAt
           \/ c = "INIT_ADDRESS" /\ k \in {19, VerifyAt + 1, FeatureAt + 1}
           \/ c = "PROGRAM_DONE" /\ k = DoneAt + 1
           \/ c = "DISABLE" /\ k = DoneAt + 8
           \/ c = "REFRESH" /\ k = DoneAt + 12
<1>1. \A d : o = Ir(d) => d = c  BY DEF Ir
<1>2. (\A v : o # Dr(v)) /\ (\A w : o # Read(w)) /\ o # Run /\ o # <<"sync">>
  BY DEF Ir, Dr, Read, Run
<1>3. ~FlashDr(k, o, before) /\ ~FlashRead(k, o, before)  BY <1>2, Zenon DEF FlashDr, FlashRead
<1>4. FlashIr(k, o)  BY <1>2, <1>3, Zenon DEF FlashOp
<1> QED  BY <1>1, <1>4, Zenon DEF FlashIr

LEMMA DrOf ==
    ASSUME NEW k, NEW o, NEW before, FlashOp(k, o, before), NEW v, o = Dr(v)
    PROVE  \/ v = "sram" /\ k \in {2, 5}
           \/ v = "flash" /\ k = 9
           \/ v = "all_nv" /\ k = 12
           \/ k \in 21 .. VerifyAt /\ before = Ir("PROG_INCR_NV") /\ v \in Contents
           \/ v = Image[Feature] /\ k = FeatureAt + 4
           \/ v = Image[Feabits] /\ k = FeabitsAt + 2
<1>1. \A d : o = Dr(d) => d = v  BY DEF Dr
<1>2. (\A c : o # Ir(c)) /\ (\A w : o # Read(w)) /\ o # Run /\ o # <<"sync">>
  BY DEF Ir, Dr, Read, Run
<1>3. ~FlashIr(k, o) /\ ~FlashRead(k, o, before)  BY <1>2, Zenon DEF FlashIr, FlashRead
<1>4. FlashDr(k, o, before)  BY <1>2, <1>3, Zenon DEF FlashOp
<1> QED  BY <1>1, <1>4, Zenon DEF FlashDr

LEMMA ReadOf ==
    ASSUME NEW k, NEW o, NEW before, FlashOp(k, o, before), NEW w, o = Read(w)
    PROVE  \/ w = "busy" /\ before = Ir("CHECK_BUSY") /\ k > 14
              /\ k \notin VerifyAt + 1 .. FeatureAt + 1 /\ k # DoneAt + 2
           \/ w = "status" /\ before = Ir("READ_STATUS") /\ k > 14
              /\ k \notin VerifyAt + 1 .. FeatureAt + 1
           \/ \E n \in 1 .. Rows : w = Image[n] /\ k = VerifyAt + 3 + 2 * n
           \/ w = Image[Feature] /\ k = FeatureAt + 12
           \/ w = Image[Feabits] /\ k = FeabitsAt + 11
<1>1. \A d : o = Read(d) => d = w  BY DEF Read
<1>2. (\A c : o # Ir(c)) /\ (\A v : o # Dr(v)) /\ o # Run /\ o # <<"sync">>
  BY DEF Ir, Dr, Read, Run
<1>3. ~FlashIr(k, o) /\ ~FlashDr(k, o, before)  BY <1>2, Zenon DEF FlashIr, FlashDr
<1>4. FlashRead(k, o, before)  BY <1>2, <1>3, Zenon DEF FlashOp
<1> QED  BY <1>1, <1>4, Zenon DEF FlashRead

LEMMA ImageWords == \A r \in 1 .. Rows + 2 : Image[r] # "busy" /\ Image[r] # "status" /\ Image[r] # Junk
BY RowsType

LEMMA FlashMode == Ops("fpga_flash") = FpgaProgramFlash
BY DEF Ops

LEMMA EraseMode == Ops("fpga_erase") = FpgaEraseFlash
BY DEF Ops

LEMMA SramMode == Ops("fpga_sram") = FpgaProgramSram
BY DEF Ops

(* The instruction that an operation needs is written just before it.        *)
LEMMA FlashBefore ==
    ASSUME NEW k \in 1 .. DoneAt + 15
    PROVE  LET s == FpgaProgramFlash
           IN  /\ s[k + 1] = Read("busy") => s[k] = Ir("CHECK_BUSY")
               /\ s[k + 1] = Read("status") => s[k] = Ir("READ_STATUS")
               /\ k + 1 \in 21 .. VerifyAt /\ s[k + 1][1] = "dr" => s[k] = Ir("PROG_INCR_NV")
<1> DEFINE s == FpgaProgramFlash
<1>0. PICK R \in Nat : R = Rows  BY RowsType
<1>1. FlashOp(k + 1, s[k + 1], s[k])
  <2>1. k + 1 \in 1 .. DoneAt + 16 /\ (k + 1) - 1 = k  BY <1>0 DEF DoneAt
  <2> QED  BY <2>1, FlashKinds
<1>2. \A n \in 1 .. Rows : Image[n] # "busy" /\ Image[n] # "status"  BY ImageWords, RowsType
<1>3. /\ Image[Feature] # "busy" /\ Image[Feature] # "status"
      /\ Image[Feabits] # "busy" /\ Image[Feabits] # "status"
  BY ImageWords, RowsType DEF Feature, Feabits
<1>4. ASSUME s[k + 1] = Read("busy") PROVE s[k] = Ir("CHECK_BUSY")
  <2>1. PICK w : w = "busy" /\ s[k + 1] = Read(w)  BY <1>4
  <2>2. \/ w = "busy" /\ s[k] = Ir("CHECK_BUSY")
        \/ w = "status" /\ s[k] = Ir("READ_STATUS")
        \/ \E n \in 1 .. Rows : w = Image[n]
        \/ w = Image[Feature] \/ w = Image[Feabits]
    <3>1. s[k + 1] = Read(w)  BY <2>1
    <3> QED  BY <1>1, <3>1, ReadOf
  <2> QED  BY <1>2, <1>3, <2>1, <2>2
<1>5. ASSUME s[k + 1] = Read("status") PROVE s[k] = Ir("READ_STATUS")
  <2>1. PICK w : w = "status" /\ s[k + 1] = Read(w)  BY <1>5
  <2>2. \/ w = "busy" /\ s[k] = Ir("CHECK_BUSY")
        \/ w = "status" /\ s[k] = Ir("READ_STATUS")
        \/ \E n \in 1 .. Rows : w = Image[n]
        \/ w = Image[Feature] \/ w = Image[Feabits]
    <3>1. s[k + 1] = Read(w)  BY <2>1
    <3> QED  BY <1>1, <3>1, ReadOf
  <2> QED  BY <1>2, <1>3, <2>1, <2>2
<1>6. ASSUME k + 1 \in 21 .. VerifyAt, s[k + 1][1] = "dr" PROVE s[k] = Ir("PROG_INCR_NV")
  <2>1. /\ \A x : s[k + 1] # Ir(x)
        /\ \A x : s[k + 1] # Read(x)
        /\ s[k + 1] # Run /\ s[k + 1] # <<"sync">>
    BY <1>6 DEF Ir, Read, Run
  <2>2. ~FlashIr(k + 1, s[k + 1]) /\ ~FlashRead(k + 1, s[k + 1], s[k])
    BY <2>1, Zenon DEF FlashIr, FlashRead
  <2>3. FlashDr(k + 1, s[k + 1], s[k])  BY <1>1, <2>1, <2>2, Zenon DEF FlashOp
  <2>4. /\ k + 1 \notin {2, 5} /\ k + 1 # 9 /\ k + 1 # 12 /\ k + 1 # FeatureAt + 4
        /\ k + 1 # FeabitsAt + 2
    BY <1>0, <1>6 DEF VerifyAt, FeatureAt, FeabitsAt
  <2> QED  BY <2>3, <2>4, Zenon DEF FlashDr
<1> QED  BY <1>4, <1>5, <1>6

(* An instruction that is written is the one that the next operation needs.  *)
LEMMA IrWrittenFlash ==
    ASSUME NEW k \in 1 .. DoneAt + 16, NEW c, FpgaProgramFlash[k] = Ir(c)
    PROVE  IrKnown("fpga_flash", k + 1, c)
<1> DEFINE s == FpgaProgramFlash
<1>1. PICK R \in Nat : R = Rows  BY RowsType
<1>2. Len(s) = DoneAt + 16 /\ Ops("fpga_flash") = s  BY FlashLength, FlashMode
<1>3. \A d : s[k] = Ir(d) => c = d  BY DEF Ir
<1>4. FlashOp(k, s[k], s[k - 1])  BY FlashKinds
<1>5. \/ c \in Still /\ (k <= 11 => c \in Mild) /\ k \notin VerifyAt + 4 .. FeatureAt
      \/ c = "INIT_ADDRESS" /\ k \in {19, VerifyAt + 1, FeatureAt + 1}
      \/ c = "PROGRAM_DONE" /\ k = DoneAt + 1
      \/ c = "DISABLE" /\ k = DoneAt + 8
      \/ c = "REFRESH" /\ k = DoneAt + 12
  BY <1>4, IrOf, Zenon
<1>6. k + 1 <= 12 => c \in Mild
  BY <1>1, <1>5 DEF VerifyAt, FeatureAt, DoneAt
<1>7. /\ k + 1 = 9 => c = "ENABLE"
      /\ k + 1 = 12 => c = "ERASE"
  <2>1. (k + 1 = 9 => k = 8) /\ (k + 1 = 12 => k = 11)  OBVIOUS
  <2> QED  BY <1>3, <2>1, FlashPlaces, Zenon
<1>8. /\ k + 1 = FeatureAt + 4 => c = "PROG_FEATURE"
      /\ k + 1 = FeatureAt + 12 => c = "READ_FEATURE"
      /\ k + 1 = FeabitsAt + 2 => c = "PROG_FEABITS"
      /\ k + 1 = FeabitsAt + 10 => c = "READ_FEABITS"
      /\ k + 1 = FeabitsAt + 11 => c = "READ_FEABITS"
  <2>1. /\ k + 1 = FeatureAt + 4 => k = FeatureAt + 3
        /\ k + 1 = FeatureAt + 12 => k = FeatureAt + 11
        /\ k + 1 = FeabitsAt + 2 => k = FeabitsAt + 1
        /\ k + 1 = FeabitsAt + 10 => k = FeabitsAt + 9
        /\ k + 1 = FeabitsAt + 11 => k = FeabitsAt + 10
    BY <1>1 DEF FeatureAt, FeabitsAt
  <2>2. s[k] # Run  BY DEF Ir, Run
  <2> QED  BY <1>3, <2>1, <2>2, FlashPlaces, Zenon
<1>9. k + 1 \in VerifyAt + 4 .. FeatureAt => c = "READ_INCR_NV"
  <2>1. k + 1 \in VerifyAt + 4 .. FeatureAt => k = VerifyAt + 3 \/ k \in VerifyAt + 4 .. FeatureAt
    BY <1>1 DEF VerifyAt, FeatureAt
  <2>2. k \notin VerifyAt + 4 .. FeatureAt
    BY <1>1, <1>5 DEF VerifyAt, FeatureAt, DoneAt
  <2> QED  BY <1>3, <2>1, <2>2, FlashPlaces, Zenon
<1>10. k + 1 \in 13 .. Len(s) => /\ s[k + 1] = Read("busy") => c = "CHECK_BUSY"
                                 /\ s[k + 1] = Read("status") => c = "READ_STATUS"
  <2>1. k + 1 \in 13 .. Len(s) => k \in 1 .. DoneAt + 15  BY <1>1, <1>2 DEF DoneAt
  <2> QED  BY <1>3, <2>1, FlashBefore, Zenon
<1>11. k + 1 \in 21 .. VerifyAt /\ s[k + 1][1] = "dr" => c = "PROG_INCR_NV"
  <2>1. k + 1 \in 21 .. VerifyAt => k \in 1 .. DoneAt + 15  BY <1>1 DEF VerifyAt, DoneAt
  <2> QED  BY <1>3, <2>1, FlashBefore, Zenon
<1>12. "fpga_flash" # "fpga_sram"  OBVIOUS
<1>13. k + 1 \in {FeabitsAt + 10, FeabitsAt + 11} => c = "READ_FEABITS"  BY <1>8
<1> HIDE DEF s
<1> QED
  BY <1>2, <1>6, <1>7, <1>8, <1>9, <1>10, <1>11, <1>12, <1>13, Zenon DEF IrKnown

(* An operation that writes no instruction leaves it for the next one.       *)
LEMMA IrKeptFlash ==
    ASSUME NEW k \in 1 .. DoneAt + 16, \A c : FpgaProgramFlash[k] # Ir(c),
           NEW ir, IrKnown("fpga_flash", k, ir)
    PROVE  IrKnown("fpga_flash", k + 1, ir)
<1> DEFINE s == FpgaProgramFlash
<1>1. PICK R \in Nat : R = Rows  BY RowsType
<1>2. Len(s) = DoneAt + 16 /\ Ops("fpga_flash") = s /\ "fpga_flash" # "fpga_sram"
  BY FlashLength, FlashMode
<1>3. /\ k # 8 /\ k # 11 /\ k # VerifyAt + 3 /\ k # FeatureAt + 3 /\ k # FeatureAt + 11
      /\ k # FeabitsAt + 1 /\ k # FeabitsAt + 9
  BY FlashPlaces, Zenon
<1>4. /\ k <= 12 => ir \in Mild
      /\ k \in VerifyAt + 4 .. FeatureAt => ir = "READ_INCR_NV"
      /\ k \in {FeabitsAt + 10, FeabitsAt + 11} => ir = "READ_FEABITS"
  BY <1>2, Zenon DEF IrKnown
<1>5. k + 1 <= 12 => ir \in Mild
  <2>1. k + 1 <= 12 => k <= 12  BY <1>1 DEF DoneAt
  <2> QED  BY <1>4, <2>1
<1>6. k + 1 # 9 /\ k + 1 # 12 /\ k + 1 # FeatureAt + 4 /\ k + 1 # FeatureAt + 12
      /\ k + 1 # FeabitsAt + 2
  BY <1>1, <1>3 DEF FeatureAt, FeabitsAt
<1>7. k + 1 \in VerifyAt + 4 .. FeatureAt => ir = "READ_INCR_NV"
  <2>1. k + 1 \in VerifyAt + 4 .. FeatureAt => k \in VerifyAt + 4 .. FeatureAt
    BY <1>1, <1>3 DEF VerifyAt, FeatureAt
  <2> QED  BY <1>4, <2>1
<1>8. k + 1 \in {FeabitsAt + 10, FeabitsAt + 11} => ir = "READ_FEABITS"
  <2>1. k + 1 \in {FeabitsAt + 10, FeabitsAt + 11} => k = FeabitsAt + 10
    BY <1>1, <1>3 DEF FeabitsAt
  <2> QED  BY <1>4, <2>1
<1>9. k + 1 \in 13 .. Len(s) => s[k + 1] # Read("busy") /\ s[k + 1] # Read("status")
  <2>1. k + 1 \in 13 .. Len(s) => k \in 1 .. DoneAt + 15  BY <1>1, <1>2 DEF DoneAt
  <2> QED  BY <2>1, FlashBefore, Zenon
<1>10. ~(k + 1 \in 21 .. VerifyAt /\ s[k + 1][1] = "dr")
  <2>1. k + 1 \in 21 .. VerifyAt => k \in 1 .. DoneAt + 15  BY <1>1 DEF VerifyAt, DoneAt
  <2> QED  BY <2>1, FlashBefore, Zenon
<1> HIDE DEF s
<1> QED  BY <1>2, <1>5, <1>6, <1>7, <1>8, <1>9, <1>10, Zenon DEF IrKnown

-----------------------------------------------------------------------------
(* What an operation makes of the memories.                                  *)
LEMMA FpgaFields ==
    ASSUME NEW f \in Fpgas
    PROVE  /\ f.enabled \in Values /\ f.sram \in Values /\ f.flash \in [1 .. Rows + 2 -> Contents]
           /\ f.done \in BOOLEAN /\ f.addr \in Nat \ {0}
BY DEF Fpgas

LEMMA SetAddr ==
    ASSUME NEW f \in Fpgas, NEW x \in Nat \ {0}
    PROVE  LET g == [f EXCEPT !.addr = x]
           IN  /\ g \in Fpgas /\ g.enabled = f.enabled /\ g.sram = f.sram /\ g.flash = f.flash
               /\ g.done = f.done /\ g.addr = x
BY DEF Fpgas

LEMMA SetEnabled ==
    ASSUME NEW f \in Fpgas, NEW x \in Values
    PROVE  LET g == [f EXCEPT !.enabled = x]
           IN  /\ g \in Fpgas /\ g.enabled = x /\ g.sram = f.sram /\ g.flash = f.flash
               /\ g.done = f.done /\ g.addr = f.addr
BY DEF Fpgas

LEMMA SetSram ==
    ASSUME NEW f \in Fpgas, NEW x \in Values
    PROVE  LET g == [f EXCEPT !.sram = x]
           IN  /\ g \in Fpgas /\ g.enabled = f.enabled /\ g.sram = x /\ g.flash = f.flash
               /\ g.done = f.done /\ g.addr = f.addr
BY DEF Fpgas

LEMMA SetDone ==
    ASSUME NEW f \in Fpgas
    PROVE  LET g == [f EXCEPT !.done = TRUE]
           IN  /\ g \in Fpgas /\ g.enabled = f.enabled /\ g.sram = f.sram /\ g.flash = f.flash
               /\ g.done = TRUE /\ g.addr = f.addr
BY DEF Fpgas

LEMMA SetCell ==
    ASSUME NEW f \in Fpgas, NEW i \in 1 .. Rows + 2, NEW v \in Contents
    PROVE  LET g == [f EXCEPT !.flash[i] = v]
           IN  /\ g \in Fpgas /\ g.enabled = f.enabled /\ g.sram = f.sram
               /\ g.done = f.done /\ g.addr = f.addr
               /\ \A n \in 1 .. Rows + 2 : n # i => g.flash[n] = f.flash[n]
BY DEF Fpgas

LEMMA SetErased ==
    ASSUME NEW f \in Fpgas
    PROVE  LET g == [f EXCEPT !.flash = Filled("blank"), !.done = FALSE]
           IN  /\ g \in Fpgas /\ g.enabled = f.enabled /\ g.sram = f.sram
               /\ g.done = FALSE /\ g.addr = f.addr
<1>1. Filled("blank") \in [1 .. Rows + 2 -> Contents]  BY DEF Filled, Contents
<1> QED  BY <1>1 DEF Fpgas

(* f is as g but for the fields that FpgaKnown does not look at.             *)
LEMMA FpgaStays ==
    ASSUME NEW k \in Nat, NEW f, FpgaKnown("fpga_flash", k, f),
           k \notin {9, 12, VerifyAt + 1, FeatureAt + 12, DoneAt, DoneAt + 1, DoneAt + 12},
           \A n \in 1 .. Rows : k # VerifyAt + 3 + 2 * n
    PROVE  FpgaKnown("fpga_flash", k + 1, f)
<1>1. PICK R \in Nat : R = Rows  BY RowsType
<1>2. "fpga_flash" # "fpga_sram"  OBVIOUS
<1>3. /\ Safe(f)
      /\ k \in 10 .. DoneAt + 1 => f.enabled = "flash"
      /\ k \in 13 .. DoneAt + 1 => f.done = FALSE
      /\ k \in {VerifyAt + 2, VerifyAt + 3} => f.addr = 1
      /\ \A n \in 0 .. R : k \in {VerifyAt + 4 + 2 * n, VerifyAt + 5 + 2 * n} =>
            Verified(f, n) /\ f.addr = n + 1
      /\ k > FeatureAt => Verified(f, R)
      /\ k >= FeatureAt + 13 => f.flash[Feature] = Image[Feature]
      /\ k >= DoneAt + 1 => f.flash = Image
      /\ k >= DoneAt + 2 => f.done = TRUE
      /\ k >= DoneAt + 13 => f.sram = "flash"
  BY <1>1, <1>2, Zenon DEF FpgaKnown
<1>4. (k + 1 \in 10 .. DoneAt + 1 => f.enabled = "flash") /\ (k + 1 \in 13 .. DoneAt + 1 => f.done = FALSE)
  BY <1>1, <1>3 DEF DoneAt
<1>5. k + 1 \in {VerifyAt + 2, VerifyAt + 3} => f.addr = 1
  BY <1>1, <1>3 DEF VerifyAt
<1>6. \A n \in 0 .. R : k + 1 \in {VerifyAt + 4 + 2 * n, VerifyAt + 5 + 2 * n} =>
            Verified(f, n) /\ f.addr = n + 1
  <2> SUFFICES ASSUME NEW n \in 0 .. R, k + 1 \in {VerifyAt + 4 + 2 * n, VerifyAt + 5 + 2 * n}
               PROVE  Verified(f, n) /\ f.addr = n + 1
    OBVIOUS
  <2>1. CASE k + 1 = VerifyAt + 5 + 2 * n
    <3>1. k = VerifyAt + 4 + 2 * n  BY <1>1, <2>1 DEF VerifyAt
    <3> QED  BY <1>3, <3>1
  <2>2. CASE k + 1 = VerifyAt + 4 + 2 * n
    <3>1. k = VerifyAt + 3 + 2 * n  BY <1>1, <2>2 DEF VerifyAt
    <3>2. n = 0  BY <1>1, <3>1
    <3>3. k = VerifyAt + 3  BY <1>1, <3>1, <3>2 DEF VerifyAt
    <3>4. Verified(f, 0)  BY DEF Verified
    <3> QED  BY <1>3, <3>2, <3>3, <3>4
  <2> QED  BY <2>1, <2>2
<1>7. k + 1 > FeatureAt => Verified(f, R)
  <2>1. CASE k > FeatureAt  BY <1>3, <2>1
  <2>2. CASE k = FeatureAt
    <3>1. k = VerifyAt + 4 + 2 * R  BY <1>1, <2>2 DEF FeatureAt, VerifyAt
    <3> QED  BY <1>3, <3>1
  <2>3. k + 1 > FeatureAt => k > FeatureAt \/ k = FeatureAt  BY <1>1 DEF FeatureAt
  <2> QED  BY <2>1, <2>2, <2>3
<1>8. /\ k + 1 >= FeatureAt + 13 => f.flash[Feature] = Image[Feature]
      /\ k + 1 >= DoneAt + 1 => f.flash = Image
      /\ k + 1 >= DoneAt + 2 => f.done = TRUE
      /\ k + 1 >= DoneAt + 13 => f.sram = "flash"
  <2>1. /\ k + 1 >= FeatureAt + 13 => k >= FeatureAt + 13
        /\ k + 1 >= DoneAt + 1 => k >= DoneAt + 1
        /\ k + 1 >= DoneAt + 2 => k >= DoneAt + 2
        /\ k + 1 >= DoneAt + 13 => k >= DoneAt + 13
    BY <1>1 DEF FeatureAt, DoneAt
  <2> QED  BY <1>3, <2>1
<1> QED  BY <1>1, <1>3, <1>4, <1>5, <1>6, <1>7, <1>8, Zenon DEF FpgaKnown

LEMMA StillIr == ASSUME NEW c \in Still, NEW f PROVE UpdateIR(f, c) = f
BY DEF Still, Instructions, UpdateIR

LEMMA FpgaIrFlash ==
    ASSUME NEW k \in 1 .. DoneAt + 16, NEW c, FpgaProgramFlash[k] = Ir(c),
           NEW f, FpgaKnown("fpga_flash", k, f)
    PROVE  FpgaKnown("fpga_flash", k + 1, UpdateIR(f, c))
<1> DEFINE s == FpgaProgramFlash
<1>1. PICK R \in Nat : R = Rows  BY RowsType
<1>2. /\ \A d : s[k] = Ir(d) => c = d
      /\ \A v : s[k] # Dr(v)
      /\ \A w : s[k] # Read(w)
  BY DEF Ir, Dr, Read
<1>3. FlashOp(k, s[k], s[k - 1])  BY FlashKinds
<1>4. \/ c \in Still /\ k \notin VerifyAt + 4 .. FeatureAt
      \/ c = "INIT_ADDRESS" /\ k \in {19, VerifyAt + 1, FeatureAt + 1}
      \/ c = "PROGRAM_DONE" /\ k = DoneAt + 1
      \/ c = "DISABLE" /\ k = DoneAt + 8
      \/ c = "REFRESH" /\ k = DoneAt + 12
  BY <1>3, IrOf, Zenon
<1>5. "fpga_flash" # "fpga_sram"  OBVIOUS
<1>6. Safe(f) /\ f \in Fpgas  BY Zenon DEF FpgaKnown, Safe
<1>7. CASE c \in Still
  <2>1. c # "INIT_ADDRESS" /\ c # "PROGRAM_DONE" /\ c # "REFRESH"  BY <1>7 DEF Still
  <2>2. /\ k # 9 /\ k # 12 /\ k # VerifyAt + 1 /\ k # FeatureAt + 12 /\ k # FeabitsAt + 11
        /\ k # DoneAt + 1 /\ k # DoneAt + 12 /\ \A n \in 1 .. Rows : k # VerifyAt + 3 + 2 * n
    BY <1>2, <2>1, FlashPlaces, Zenon
  <2>3. k \in Nat /\ k # DoneAt  BY <1>1, <2>2 DEF FeabitsAt, DoneAt
  <2>4. k \notin {9, 12, VerifyAt + 1, FeatureAt + 12, DoneAt, DoneAt + 1, DoneAt + 12}
    BY <2>2, <2>3
  <2>5. FpgaKnown("fpga_flash", k + 1, f)  BY <2>2, <2>3, <2>4, FpgaStays, Zenon
  <2> QED  BY <1>7, <2>5, StillIr
<1>8. CASE c = "INIT_ADDRESS"
  <2>1. k \in {19, VerifyAt + 1, FeatureAt + 1}  BY <1>4, <1>8 DEF Still
  <2>2. PICK g : g = [f EXCEPT !.addr = 1]  OBVIOUS
  <2>3. g \in Fpgas /\ g.enabled = f.enabled /\ g.flash = f.flash /\ g.done = f.done /\ g.addr = 1
    BY <1>6, <2>2, SetAddr
  <2>4. UpdateIR(f, c) = g  BY <1>8, <2>2 DEF UpdateIR
  <2>5. Safe(g) /\ (Verified(f, R) => Verified(g, R))  BY <1>6, <2>3 DEF Safe, Verified
  <2>6. /\ k \in 10 .. DoneAt + 1 /\ k \in 13 .. DoneAt + 1
        /\ k + 1 < FeatureAt + 13 /\ k + 1 < DoneAt + 1
        /\ \A n \in 0 .. R : k + 1 \notin {VerifyAt + 4 + 2 * n, VerifyAt + 5 + 2 * n}
        /\ k + 1 > FeatureAt => k > FeatureAt
    BY <1>1, <2>1 DEF VerifyAt, FeatureAt, DoneAt
  <2>7. g.enabled = "flash" /\ g.done = FALSE /\ (k + 1 > FeatureAt => Verified(g, R))
    BY <1>1, <1>5, <2>3, <2>5, <2>6, Zenon DEF FpgaKnown
  <2>8. ~(k + 1 >= FeatureAt + 13) /\ ~(k + 1 >= DoneAt + 1) /\ ~(k + 1 >= DoneAt + 2)
        /\ ~(k + 1 >= DoneAt + 13)
    BY <1>1, <2>6 DEF FeatureAt, DoneAt
  <2> QED  BY <1>1, <2>3, <2>4, <2>5, <2>6, <2>7, <2>8, Zenon DEF FpgaKnown
<1>9. CASE c \in {"PROGRAM_DONE", "DISABLE", "REFRESH"}
  <2>1. \/ c = "PROGRAM_DONE" /\ k = DoneAt + 1
        \/ c = "DISABLE" /\ k = DoneAt + 8
        \/ c = "REFRESH" /\ k = DoneAt + 12
    BY <1>4, <1>9 DEF Still
  <2>2. k > FeatureAt /\ k >= FeatureAt + 13 /\ k >= DoneAt + 1 /\ k \in Nat
    BY <1>1, <2>1 DEF FeatureAt, DoneAt
  <2>3. Verified(f, R) /\ f.flash[Feature] = Image[Feature] /\ f.flash = Image
    BY <1>1, <1>5, <2>2, Zenon DEF FpgaKnown
  <2>4. PICK g \in Fpgas : /\ g = UpdateIR(f, c) /\ g.flash = f.flash /\ g.done = TRUE
                           /\ k + 1 >= DoneAt + 13 => g.sram = "flash"
    <3>1. CASE k = DoneAt + 1
      <4>1. f.enabled = "flash"
        <5>1. k \in 10 .. DoneAt + 1  BY <1>1, <3>1 DEF DoneAt
        <5> QED  BY <1>5, <5>1, Zenon DEF FpgaKnown
      <4>2. c = "PROGRAM_DONE" /\ ~(k + 1 >= DoneAt + 13)  BY <1>1, <2>1, <3>1 DEF DoneAt
      <4>3. UpdateIR(f, c) = [f EXCEPT !.done = TRUE]  BY <4>1, <4>2 DEF UpdateIR
      <4> QED  BY <1>6, <4>2, <4>3, SetDone
    <3>2. CASE k = DoneAt + 8
      <4>1. c = "DISABLE" /\ k >= DoneAt + 2 /\ ~(k + 1 >= DoneAt + 13)
        BY <1>1, <2>1, <3>2 DEF DoneAt
      <4>2. f.done = TRUE  BY <1>5, <4>1, Zenon DEF FpgaKnown
      <4>3. UpdateIR(f, c) = [f EXCEPT !.enabled = "off"]  BY <4>1 DEF UpdateIR
      <4>4. "off" \in Values  BY DEF Values
      <4>5. PICK g : g = [f EXCEPT !.enabled = "off"]  OBVIOUS
      <4>6. g \in Fpgas /\ g.flash = f.flash /\ g.done = f.done  BY <1>6, <4>4, <4>5, SetEnabled
      <4>7. g = UpdateIR(f, c)  BY <4>3, <4>5
      <4> QED  BY <4>1, <4>2, <4>6, <4>7, Zenon
    <3>3. CASE k = DoneAt + 12
      <4>1. c = "REFRESH" /\ k >= DoneAt + 2  BY <1>1, <2>1, <3>3 DEF DoneAt
      <4>2. f.done = TRUE  BY <1>5, <4>1, Zenon DEF FpgaKnown
      <4>3. UpdateIR(f, c) = [f EXCEPT !.sram = "flash"]  BY <4>1, <4>2 DEF UpdateIR
      <4>4. "flash" \in Values  BY DEF Values
      <4>5. PICK g : g = [f EXCEPT !.sram = "flash"]  OBVIOUS
      <4>6. g \in Fpgas /\ g.flash = f.flash /\ g.done = f.done /\ g.sram = "flash"
        BY <1>6, <4>4, <4>5, SetSram
      <4>7. g = UpdateIR(f, c)  BY <4>3, <4>5
      <4> QED  BY <4>2, <4>6, <4>7, Zenon
    <3> QED  BY <2>1, <3>1, <3>2, <3>3
  <2>5. Safe(g) /\ Verified(g, R)  BY <2>3, <2>4 DEF Safe, Verified
  <2>6. /\ k + 1 \notin 10 .. DoneAt + 1 /\ k + 1 \notin 13 .. DoneAt + 1
        /\ k + 1 \notin {VerifyAt + 2, VerifyAt + 3}
        /\ \A n \in 0 .. R : k + 1 \notin {VerifyAt + 4 + 2 * n, VerifyAt + 5 + 2 * n}
    BY <1>1, <2>1 DEF VerifyAt, DoneAt
  <2> QED  BY <1>1, <2>3, <2>4, <2>5, <2>6, Zenon DEF FpgaKnown
<1> QED  BY <1>4, <1>7, <1>8, <1>9

LEMMA Early ==
    ASSUME NEW m, NEW k \in Nat, k < 10, NEW f, Safe(f)
    PROVE  FpgaKnown(m, k, f)
<1>1. PICK R \in Nat : R = Rows  BY RowsType
<1>2. /\ k \notin 10 .. DoneAt + 1 /\ k \notin 13 .. DoneAt + 1 /\ k \notin {VerifyAt + 2, VerifyAt + 3}
      /\ \A n \in 0 .. R : k \notin {VerifyAt + 4 + 2 * n, VerifyAt + 5 + 2 * n}
      /\ ~(k > FeatureAt) /\ ~(k >= FeatureAt + 13) /\ ~(k >= DoneAt + 1) /\ ~(k >= DoneAt + 2)
      /\ ~(k >= DoneAt + 13)
  BY <1>1 DEF VerifyAt, FeatureAt, DoneAt
<1> QED  BY <1>1, <1>2, Zenon DEF FpgaKnown

LEMMA SafeFields == ASSUME NEW f, NEW g \in Fpgas, Safe(f), g.flash = f.flash, g.done = f.done PROVE Safe(g)
BY Zenon DEF Safe

LEMMA SafeUndone == ASSUME NEW g \in Fpgas, g.done = FALSE PROVE Safe(g)
BY Zenon DEF Safe

(* A mild instruction lets the FPGA boot nothing new.                        *)
LEMMA MildDr ==
    ASSUME NEW f, Safe(f), NEW ir \in Mild, NEW w \in Values
    PROVE  Safe(UpdateDR(f, ir, w))
<1>1. f \in Fpgas  BY Zenon DEF Safe
<1>2. CASE ir = "ENABLE"
  <2>1. PICK g : g = [f EXCEPT !.enabled = w]  OBVIOUS
  <2>2. g \in Fpgas /\ g.flash = f.flash /\ g.done = f.done  BY <1>1, <2>1, SetEnabled
  <2>3. UpdateDR(f, ir, w) = g  BY <1>2, <2>1 DEF UpdateDR
  <2> QED  BY <2>2, <2>3, SafeFields
<1>3. CASE ir = "ERASE" /\ w = "sram" /\ f.enabled = "sram"
  <2>0. "blank" \in Values  BY DEF Values, Contents
  <2>1. PICK g : g = [f EXCEPT !.sram = "blank"]  OBVIOUS
  <2>2. g \in Fpgas /\ g.flash = f.flash /\ g.done = f.done  BY <1>1, <2>0, <2>1, SetSram
  <2>3. UpdateDR(f, ir, w) = g  BY <1>3, <2>1 DEF UpdateDR
  <2> QED  BY <2>2, <2>3, SafeFields
<1>4. CASE ir = "ERASE" /\ w = "all_nv" /\ f.enabled = "flash"
  <2>1. PICK g : g = [f EXCEPT !.flash = Filled("blank"), !.done = FALSE]  OBVIOUS
  <2>2. g \in Fpgas /\ g.done = FALSE  BY <1>1, <2>1, SetErased
  <2>3. UpdateDR(f, ir, w) = g  BY <1>4, <2>1 DEF UpdateDR
  <2> QED  BY <2>2, <2>3, SafeUndone
<1>5. CASE ir = "BITSTREAM_BURST" /\ f.enabled = "sram"
  <2>1. PICK g : g = [f EXCEPT !.sram = w]  OBVIOUS
  <2>2. g \in Fpgas /\ g.flash = f.flash /\ g.done = f.done  BY <1>1, <2>1, SetSram
  <2>3. UpdateDR(f, ir, w) = g  BY <1>5, <2>1 DEF UpdateDR
  <2> QED  BY <2>2, <2>3, SafeFields
<1>6. CASE ~ \/ ir = "ENABLE" \/ (ir = "ERASE" /\ w = "sram" /\ f.enabled = "sram")
             \/ (ir = "ERASE" /\ w = "all_nv" /\ f.enabled = "flash")
             \/ (ir = "BITSTREAM_BURST" /\ f.enabled = "sram")
  <2>1. UpdateDR(f, ir, w) = f  BY <1>6 DEF UpdateDR, Mild, Junk
  <2> QED  BY <2>1
<1> QED  BY <1>2, <1>3, <1>4, <1>5, <1>6

LEMMA MildIr ==
    ASSUME NEW f, Safe(f), NEW c \in Mild
    PROVE  Safe(UpdateIR(f, c))
<1>1. f \in Fpgas  BY Zenon DEF Safe
<1>2. CASE c = "DISABLE"
  <2>0. "off" \in Values  BY DEF Values
  <2>1. PICK g : g = [f EXCEPT !.enabled = "off"]  OBVIOUS
  <2>2. g \in Fpgas /\ g.flash = f.flash /\ g.done = f.done  BY <1>1, <2>0, <2>1, SetEnabled
  <2>3. UpdateIR(f, c) = g  BY <1>2, <2>1 DEF UpdateIR
  <2> QED  BY <2>2, <2>3, SafeFields
<1>3. CASE c # "DISABLE"
  <2>1. UpdateIR(f, c) = f  BY <1>3 DEF UpdateIR, Mild, Junk
  <2> QED  BY <2>1
<1> QED  BY <1>2, <1>3

LEMMA WriteEffect ==
    ASSUME NEW f \in Fpgas, NEW i \in 1 .. Rows + 2, NEW v \in Contents
    PROVE  LET g == Write(f, i, v)
           IN  /\ g \in Fpgas /\ g.enabled = f.enabled /\ g.sram = f.sram
               /\ g.done = f.done /\ g.addr = f.addr
               /\ \A n \in 1 .. Rows + 2 : n # i => g.flash[n] = f.flash[n]
<1>1. CASE f.enabled = "flash"
  <2>1. Write(f, i, v) = [f EXCEPT !.flash[i] = v]  BY <1>1 DEF Write
  <2> QED  BY <2>1, SetCell
<1>2. CASE f.enabled # "flash"
  <2>1. Write(f, i, v) = f  BY <1>2 DEF Write
  <2> QED  BY <2>1
<1> QED  BY <1>1, <1>2

(* Writing the flash between erasing it and marking it.                      *)
LEMMA Wrote ==
    ASSUME NEW k \in Nat, k \in 20 .. VerifyAt \/ k = FeatureAt + 4 \/ k = FeabitsAt + 2,
           NEW g \in Fpgas, g.enabled = "flash", g.done = FALSE,
           k > FeatureAt => Verified(g, Rows),
           k >= FeatureAt + 13 => g.flash[Feature] = Image[Feature]
    PROVE  FpgaKnown("fpga_flash", k + 1, g)
<1>1. PICK R \in Nat : R = Rows  BY RowsType
<1>2. /\ k + 1 \notin {VerifyAt + 2, VerifyAt + 3}
      /\ \A n \in 0 .. R : k + 1 \notin {VerifyAt + 4 + 2 * n, VerifyAt + 5 + 2 * n}
      /\ k + 1 > FeatureAt => k > FeatureAt
      /\ k + 1 >= FeatureAt + 13 => k >= FeatureAt + 13
      /\ ~(k + 1 >= DoneAt + 1) /\ ~(k + 1 >= DoneAt + 2) /\ ~(k + 1 >= DoneAt + 13)
  BY <1>1 DEF VerifyAt, FeatureAt, FeabitsAt, DoneAt
<1>3. Safe(g)  BY SafeUndone
<1> QED  BY <1>1, <1>2, <1>3, Zenon DEF FpgaKnown

LEMMA FpgaDrFlash ==
    ASSUME NEW k \in 3 .. DoneAt + 16, NEW v, FpgaProgramFlash[k] = Dr(v),
           NEW ir, NEW f, Known("fpga_flash", k, ir, f),
           NEW w, w = v \/ (w = "flawed" /\ ir \in Writing)
    PROVE  FpgaKnown("fpga_flash", k + 1, UpdateDR(f, ir, w))
<1> DEFINE s == FpgaProgramFlash
<1>1. PICK R \in Nat : R = Rows  BY RowsType
<1>2. k \in Nat /\ k \in 1 .. DoneAt + 16  BY <1>1 DEF DoneAt
<1>3. FlashOp(k, s[k], s[k - 1])  BY <1>2, FlashKinds
<1>4. \/ v = "sram" /\ k \in {2, 5}
      \/ v = "flash" /\ k = 9
      \/ v = "all_nv" /\ k = 12
      \/ k \in 21 .. VerifyAt /\ v \in Contents
      \/ v = Image[Feature] /\ k = FeatureAt + 4
      \/ v = Image[Feabits] /\ k = FeabitsAt + 2
  BY <1>3, DrOf, Zenon
<1>5. "fpga_flash" # "fpga_sram"  OBVIOUS
<1>6. Ops("fpga_flash") = s  BY FlashMode
<1>7. IrKnown("fpga_flash", k, ir) /\ FpgaKnown("fpga_flash", k, f)  BY Zenon DEF Known
<1>8. Safe(f) /\ f \in Fpgas  BY <1>7, Zenon DEF FpgaKnown, Safe
<1>9. CASE k \in {5, 9}
  <2>1. ir \in Mild /\ ir \notin Writing
    <3>1. k <= 12  BY <1>9
    <3>2. ir \in Mild  BY <1>7, <3>1, Zenon DEF IrKnown
    <3> QED  BY <3>2 DEF Mild, Writing, Junk
  <2>2. w = v /\ v \in {"sram", "flash"}
    BY <1>1, <1>4, <1>9, <2>1 DEF VerifyAt, FeatureAt, FeabitsAt
  <2>3. w \in Values  BY <2>2 DEF Values, Mild
  <2>4. Safe(UpdateDR(f, ir, w))  BY <1>8, <2>1, <2>3, MildDr
  <2>5. CASE k = 5
    <3>1. k + 1 \in Nat /\ k + 1 < 10  BY <2>5
    <3> QED  BY <2>4, <3>1, Early
  <2>6. CASE k = 9
    <3>1. ir = "ENABLE"  BY <1>5, <1>7, <2>6, Zenon DEF IrKnown
    <3>2. v = "flash"  BY <1>1, <1>4, <2>6 DEF VerifyAt, FeatureAt, FeabitsAt
    <3>3. PICK g : g = [f EXCEPT !.enabled = w]  OBVIOUS
    <3>4. g.enabled = "flash"  BY <1>8, <2>2, <2>3, <3>2, <3>3, SetEnabled
    <3>5. UpdateDR(f, ir, w) = g  BY <3>1, <3>3 DEF UpdateDR
    <3>6. k + 1 = 10  BY <2>6
    <3>7. /\ 10 \notin 13 .. DoneAt + 1 /\ 10 \notin {VerifyAt + 2, VerifyAt + 3}
          /\ \A n \in 0 .. R : 10 \notin {VerifyAt + 4 + 2 * n, VerifyAt + 5 + 2 * n}
          /\ ~(10 > FeatureAt) /\ ~(10 >= FeatureAt + 13) /\ ~(10 >= DoneAt + 1) /\ ~(10 >= DoneAt + 2)
          /\ ~(10 >= DoneAt + 13)
      BY <1>1 DEF VerifyAt, FeatureAt, DoneAt
    <3> QED  BY <1>1, <2>4, <3>4, <3>5, <3>6, <3>7, Zenon DEF FpgaKnown
  <2> QED  BY <1>9, <2>5, <2>6
<1>10. CASE k = 12
  <2>1. ir = "ERASE"  BY <1>5, <1>7, <1>10, Zenon DEF IrKnown
  <2>2. w = "all_nv"
    BY <1>1, <1>4, <1>10, <2>1 DEF VerifyAt, FeatureAt, FeabitsAt, Writing
  <2>3. f.enabled = "flash"
    <3>1. k \in 10 .. DoneAt + 1  BY <1>1, <1>10 DEF DoneAt
    <3> QED  BY <1>5, <1>7, <3>1, Zenon DEF FpgaKnown
  <2>4. PICK g : g = [f EXCEPT !.flash = Filled("blank"), !.done = FALSE]  OBVIOUS
  <2>5. g \in Fpgas /\ g.done = FALSE /\ g.enabled = "flash"  BY <1>8, <2>3, <2>4, SetErased
  <2>6. UpdateDR(f, ir, w) = g  BY <2>1, <2>2, <2>3, <2>4 DEF UpdateDR
  <2>7. k + 1 = 13  BY <1>10
  <2>8. /\ 13 \notin {VerifyAt + 2, VerifyAt + 3}
        /\ \A n \in 0 .. R : 13 \notin {VerifyAt + 4 + 2 * n, VerifyAt + 5 + 2 * n}
        /\ ~(13 > FeatureAt) /\ ~(13 >= FeatureAt + 13) /\ ~(13 >= DoneAt + 1) /\ ~(13 >= DoneAt + 2)
        /\ ~(13 >= DoneAt + 13)
    BY <1>1 DEF VerifyAt, FeatureAt, DoneAt
  <2>9. Safe(g)  BY <2>5, SafeUndone
  <2> QED  BY <1>1, <2>5, <2>6, <2>7, <2>8, <2>9, Zenon DEF FpgaKnown
<1>11. CASE k \in 21 .. VerifyAt \/ k = FeatureAt + 4 \/ k = FeabitsAt + 2
  <2>1. k \in 10 .. DoneAt + 1 /\ k \in 13 .. DoneAt + 1
    BY <1>1, <1>11 DEF VerifyAt, FeatureAt, FeabitsAt, DoneAt
  <2>2. f.enabled = "flash" /\ f.done = FALSE /\ (k > FeatureAt => Verified(f, R))
        /\ (k >= FeatureAt + 13 => f.flash[Feature] = Image[Feature])
    BY <1>1, <1>5, <1>7, <2>1, Zenon DEF FpgaKnown
  <2>3. w \in Contents
    <3>1. "flawed" \in Contents  BY DEF Contents
    <3>2. Image[Feature] \in Contents /\ Image[Feabits] \in Contents
      BY <1>1, RowsType DEF Feature, Feabits
    <3>3. v \in Contents
      BY <1>1, <1>4, <1>11, <3>2 DEF VerifyAt, FeatureAt, FeabitsAt, DoneAt
    <3> QED  BY <3>1, <3>3
  <2>4. CASE k \in 21 .. VerifyAt
    <3>1. ir = "PROG_INCR_NV"
      <4>1. s[k][1] = "dr"  BY DEF Dr
      <4> QED  BY <1>5, <1>6, <1>7, <2>4, <4>1, Zenon DEF IrKnown
    <3>2. k \in 20 .. VerifyAt /\ ~(k > FeatureAt) /\ ~(k >= FeatureAt + 13)
      BY <1>1, <2>4 DEF VerifyAt, FeatureAt
    <3>3. CASE f.addr <= Rows
      <4>1. f.addr \in 1 .. Rows + 2 /\ f.addr + 1 \in Nat \ {0}
        BY <1>1, <1>8, <3>3, FpgaFields
      <4>2. PICK a \in 1 .. Rows + 2 : a = f.addr  BY <4>1
      <4>3. PICK g1 : g1 = Write(f, a, w)  OBVIOUS
      <4>4. g1 \in Fpgas /\ g1.enabled = f.enabled /\ g1.done = f.done /\ g1.addr = f.addr
        BY <1>8, <2>3, <4>2, <4>3, WriteEffect
      <4>5. PICK b : b = a + 1  OBVIOUS
      <4>6. b \in Nat \ {0}  BY <4>1, <4>2, <4>5
      <4>7. PICK g : g = [g1 EXCEPT !.addr = b]  OBVIOUS
      <4>8. g \in Fpgas /\ g.enabled = g1.enabled /\ g.done = g1.done
        BY <4>4, <4>6, <4>7, SetAddr
      <4>9. UpdateDR(f, ir, w) = g
        <5>1. UpdateDR(f, ir, w) = [Write(f, f.addr, w) EXCEPT !.addr = @ + 1]
          BY <3>1, <3>3 DEF UpdateDR
        <5>2. [g1 EXCEPT !.addr = @ + 1] = [g1 EXCEPT !.addr = g1.addr + 1]
          BY <4>4 DEF Fpgas
        <5> QED  BY <4>2, <4>3, <4>4, <4>5, <4>7, <5>1, <5>2
      <4>10. g.enabled = "flash" /\ g.done = FALSE  BY <2>2, <4>4, <4>8
      <4> QED  BY <1>2, <3>2, <4>8, <4>9, <4>10, Wrote, Zenon
    <3>4. CASE ~(f.addr <= Rows)
      <4>1. UpdateDR(f, ir, w) = f  BY <3>1, <3>4 DEF UpdateDR
      <4> QED  BY <1>2, <1>8, <2>2, <3>2, <4>1, Wrote, Zenon
    <3> QED  BY <3>3, <3>4
  <2>5. CASE k = FeatureAt + 4
    <3>1. ir = "PROG_FEATURE"  BY <1>5, <1>7, <2>5, Zenon DEF IrKnown
    <3>2. PICK g : g = Write(f, Feature, w)  OBVIOUS
    <3>3. Feature \in 1 .. Rows + 2  BY <1>1 DEF Feature
    <3>4. g \in Fpgas /\ g.enabled = f.enabled /\ g.done = f.done
          /\ \A n \in 1 .. Rows + 2 : n # Feature => g.flash[n] = f.flash[n]
      BY <1>8, <2>3, <3>2, <3>3, WriteEffect
    <3>5. UpdateDR(f, ir, w) = g  BY <3>1, <3>2 DEF UpdateDR
    <3>6. Verified(g, Rows)
      <4>1. Verified(f, R)  BY <1>1, <2>2, <2>5 DEF FeatureAt
      <4> QED  BY <1>1, <3>4, <4>1 DEF Verified, Feature
    <3>7. ~(k >= FeatureAt + 13)  BY <1>1, <2>5 DEF FeatureAt
    <3>8. g.enabled = "flash" /\ g.done = FALSE  BY <2>2, <3>4
    <3> QED  BY <1>2, <2>5, <3>4, <3>5, <3>6, <3>7, <3>8, Wrote, Zenon
  <2>6. CASE k = FeabitsAt + 2
    <3>1. ir = "PROG_FEABITS"  BY <1>5, <1>7, <2>6, Zenon DEF IrKnown
    <3>2. PICK g : g = Write(f, Feabits, w)  OBVIOUS
    <3>3. Feabits \in 1 .. Rows + 2 /\ Feature \in 1 .. Rows + 2 /\ Feature # Feabits
      BY <1>1 DEF Feabits, Feature
    <3>4. g \in Fpgas /\ g.enabled = f.enabled /\ g.done = f.done
          /\ \A n \in 1 .. Rows + 2 : n # Feabits => g.flash[n] = f.flash[n]
      BY <1>8, <2>3, <3>2, <3>3, WriteEffect
    <3>5. UpdateDR(f, ir, w) = g  BY <3>1, <3>2 DEF UpdateDR
    <3>6. Verified(g, Rows)
      <4>1. Verified(f, R)  BY <1>1, <2>2, <2>6 DEF FeatureAt, FeabitsAt
      <4> QED  BY <1>1, <3>4, <4>1 DEF Verified, Feabits
    <3>7. g.flash[Feature] = Image[Feature]
      <4>1. k >= FeatureAt + 13  BY <1>1, <2>6 DEF FeatureAt, FeabitsAt
      <4> QED  BY <2>2, <3>3, <3>4, <4>1, Zenon
    <3>8. g.enabled = "flash" /\ g.done = FALSE  BY <2>2, <3>4
    <3> QED  BY <1>2, <2>6, <3>4, <3>5, <3>6, <3>7, <3>8, Wrote, Zenon
  <2> QED  BY <1>11, <2>4, <2>5, <2>6
<1> QED  BY <1>2, <1>4, <1>9, <1>10, <1>11

(* What a register reads as, by the instruction.                             *)
LEMMA ReadsOf ==
    ASSUME NEW f, NEW ir
    PROVE  /\ ir = "CHECK_BUSY" => ReadsAs(f, ir) = {"busy", "idle"}
           /\ ir = "READ_STATUS" => ReadsAs(f, ir) = {"ok", "fail"}
           /\ ir = "READ_INCR_NV" /\ f.addr <= Rows => ReadsAs(f, ir) = {f.flash[f.addr]}
           /\ ir = "READ_FEATURE" => ReadsAs(f, ir) = {f.flash[Feature]}
           /\ ir = "READ_FEABITS" => ReadsAs(f, ir) = {f.flash[Feabits]}
<1>1. CASE ir = "CHECK_BUSY"
  <2>1. \A b, s : Captured(f, ir, b, s) = b  BY <1>1 DEF Captured
  <2> QED  BY <1>1, <2>1 DEF ReadsAs
<1>2. CASE ir = "READ_STATUS"
  <2>1. \A b, s : Captured(f, ir, b, s) = s  BY <1>2 DEF Captured
  <2> QED  BY <1>2, <2>1 DEF ReadsAs
<1>3. CASE ir = "READ_INCR_NV" /\ f.addr <= Rows
  <2>1. \A b, s : Captured(f, ir, b, s) = f.flash[f.addr]  BY <1>3 DEF Captured
  <2> QED  BY <1>3, <2>1 DEF ReadsAs
<1>4. CASE ir = "READ_FEATURE"
  <2>1. \A b, s : Captured(f, ir, b, s) = f.flash[Feature]  BY <1>4 DEF Captured
  <2> QED  BY <1>4, <2>1 DEF ReadsAs
<1>5. CASE ir = "READ_FEABITS"
  <2>1. \A b, s : Captured(f, ir, b, s) = f.flash[Feabits]  BY <1>5 DEF Captured
  <2> QED  BY <1>5, <2>1 DEF ReadsAs
<1> QED  BY <1>1, <1>2, <1>3, <1>4, <1>5

(* The instruction register and the memories before a read.                  *)
ReadCase(k, w, ir, f) ==
    \/ w = "busy" /\ ir = "CHECK_BUSY" /\ k > 14 /\ k \notin VerifyAt + 1 .. FeatureAt + 1 /\ k # DoneAt + 2
    \/ w = "status" /\ ir = "READ_STATUS" /\ k > 14 /\ k \notin VerifyAt + 1 .. FeatureAt + 1
    \/ \E n \in 1 .. Rows : /\ w = Image[n] /\ k = VerifyAt + 3 + 2 * n
                            /\ ir = "READ_INCR_NV" /\ f.addr = n /\ Verified(f, n - 1)
    \/ w = Image[Feature] /\ k = FeatureAt + 12 /\ ir = "READ_FEATURE"
    \/ w = Image[Feabits] /\ k = FeabitsAt + 11 /\ ir = "READ_FEABITS"

LEMMA ReadCases ==
    ASSUME NEW k \in 3 .. DoneAt + 16, NEW w, FpgaProgramFlash[k] = Read(w),
           NEW ir, NEW f, Known("fpga_flash", k, ir, f)
    PROVE  ReadCase(k, w, ir, f)
<1> DEFINE s == FpgaProgramFlash
<1>1. PICK R \in Nat : R = Rows  BY RowsType
<1>2. k \in Nat /\ k \in 1 .. DoneAt + 16  BY <1>1 DEF DoneAt
<1>3. FlashOp(k, s[k], s[k - 1])  BY <1>2, FlashKinds
<1>4. \/ w = "busy" /\ k > 14 /\ k \notin VerifyAt + 1 .. FeatureAt + 1 /\ k # DoneAt + 2
      \/ w = "status" /\ k > 14 /\ k \notin VerifyAt + 1 .. FeatureAt + 1
      \/ \E n \in 1 .. Rows : w = Image[n] /\ k = VerifyAt + 3 + 2 * n
      \/ w = Image[Feature] /\ k = FeatureAt + 12
      \/ w = Image[Feabits] /\ k = FeabitsAt + 11
  <2>1. PICK o : o = s[k]  OBVIOUS
  <2>2. PICK before : before = s[k - 1]  OBVIOUS
  <2>3. FlashOp(k, o, before) /\ o = Read(w)  BY <1>3, <2>1, <2>2, Zenon
  <2>4. \/ w = "busy" /\ before = Ir("CHECK_BUSY") /\ k > 14
           /\ k \notin VerifyAt + 1 .. FeatureAt + 1 /\ k # DoneAt + 2
        \/ w = "status" /\ before = Ir("READ_STATUS") /\ k > 14
           /\ k \notin VerifyAt + 1 .. FeatureAt + 1
        \/ \E n \in 1 .. Rows : w = Image[n] /\ k = VerifyAt + 3 + 2 * n
        \/ w = Image[Feature] /\ k = FeatureAt + 12
        \/ w = Image[Feabits] /\ k = FeabitsAt + 11
    BY <2>3, ReadOf, Zenon
  <2> QED  BY <2>4, Zenon
<1>5. "fpga_flash" # "fpga_sram"  OBVIOUS
<1>6. Ops("fpga_flash") = s /\ Len(s) = DoneAt + 16  BY FlashMode, FlashLength
<1>7. IrKnown("fpga_flash", k, ir) /\ FpgaKnown("fpga_flash", k, f)  BY Zenon DEF Known
<1>8. CASE w \in {"busy", "status"} /\ k > 14
  <2>1. k \in 13 .. Len(s)  BY <1>1, <1>6, <1>8 DEF DoneAt
  <2>2. (w = "busy" => ir = "CHECK_BUSY") /\ (w = "status" => ir = "READ_STATUS")
    BY <1>5, <1>6, <1>7, <2>1, Zenon DEF IrKnown
  <2>3. \A n \in 1 .. Rows + 2 : w # Image[n]  BY <1>8, ImageWords
  <2>4. Feature \in 1 .. Rows + 2 /\ Feabits \in 1 .. Rows + 2 /\ \A n \in 1 .. Rows : n \in 1 .. Rows + 2
    BY <1>1 DEF Feature, Feabits
  <2> QED  BY <1>4, <2>2, <2>3, <2>4, Zenon DEF ReadCase
<1>9. ASSUME NEW n \in 1 .. Rows, w = Image[n], k = VerifyAt + 3 + 2 * n
      PROVE  ReadCase(k, w, ir, f)
  <2>1. k \in VerifyAt + 4 .. FeatureAt  BY <1>1, <1>9 DEF VerifyAt, FeatureAt
  <2>2. ir = "READ_INCR_NV"  BY <1>5, <1>7, <2>1, Zenon DEF IrKnown
  <2>3. PICK p \in 0 .. Rows : p = n - 1  BY <1>1
  <2>4. k = VerifyAt + 5 + 2 * p
    <3>1. PICK V \in Nat : V = VerifyAt  BY <1>1 DEF VerifyAt
    <3>2. p \in Nat /\ n = p + 1  BY <1>1, <2>3
    <3> QED  BY <1>9, <3>1, <3>2
  <2>5. Verified(f, p) /\ f.addr = p + 1
    <3>1. k \in {VerifyAt + 4 + 2 * p, VerifyAt + 5 + 2 * p}  BY <2>4
    <3> QED  BY <1>5, <1>7, <3>1, Zenon DEF FpgaKnown
  <2>6. p + 1 = n  BY <1>1, <2>3
  <2> QED  BY <1>9, <2>2, <2>3, <2>5, <2>6, Zenon DEF ReadCase
<1>10. CASE w = Image[Feature] /\ k = FeatureAt + 12
  <2>1. ir = "READ_FEATURE"  BY <1>5, <1>7, <1>10, Zenon DEF IrKnown
  <2> QED  BY <1>10, <2>1, Zenon DEF ReadCase
<1>11. CASE w = Image[Feabits] /\ k = FeabitsAt + 11
  <2>1. ir = "READ_FEABITS"
    <3>1. k \in {FeabitsAt + 10, FeabitsAt + 11}  BY <1>11
    <3> QED  BY <1>5, <1>7, <3>1, Zenon DEF IrKnown
  <2> QED  BY <1>11, <2>1, Zenon DEF ReadCase
<1> QED  BY <1>4, <1>8, <1>9, <1>10, <1>11

(* No register that is read holds junk.                                      *)
LEMMA NoJunkFlash ==
    ASSUME NEW k \in 3 .. DoneAt + 16, NEW w, FpgaProgramFlash[k] = Read(w),
           NEW ir, NEW f, Known("fpga_flash", k, ir, f)
    PROVE  Junk \notin ReadsAs(f, ir)
<1>1. PICK R \in Nat : R = Rows  BY RowsType
<1>2. f \in Fpgas  BY Zenon DEF Known, FpgaKnown, Safe
<1>3. ReadCase(k, w, ir, f)  BY ReadCases
<1>4. \A n \in 1 .. Rows + 2 : f.flash[n] # Junk
  <2>1. Junk \notin Contents  BY ImageWords DEF Contents, Junk
  <2> QED  BY <1>2, <2>1, FpgaFields
<1>5. Feature \in 1 .. Rows + 2 /\ Feabits \in 1 .. Rows + 2  BY <1>1 DEF Feature, Feabits
<1>6. CASE ir = "CHECK_BUSY"  BY <1>6, ReadsOf DEF Junk
<1>7. CASE ir = "READ_STATUS"  BY <1>7, ReadsOf DEF Junk
<1>8. ASSUME NEW n \in 1 .. Rows, ir = "READ_INCR_NV", f.addr = n PROVE Junk \notin ReadsAs(f, ir)
  <2>1. f.addr <= Rows /\ f.addr \in 1 .. Rows + 2  BY <1>1, <1>8
  <2>2. ReadsAs(f, ir) = {f.flash[f.addr]}  BY <1>8, <2>1, ReadsOf, Zenon
  <2> QED  BY <1>4, <2>1, <2>2, Zenon
<1>9. CASE ir = "READ_FEATURE"  BY <1>4, <1>5, <1>9, ReadsOf, Zenon
<1>10. CASE ir = "READ_FEABITS"  BY <1>4, <1>5, <1>10, ReadsOf, Zenon
<1> QED  BY <1>3, <1>6, <1>7, <1>8, <1>9, <1>10, Zenon DEF ReadCase

(* Reading changes no memory, and what was wanted was there.                 *)
LEMMA FpgaReadFlash ==
    ASSUME NEW k \in 3 .. DoneAt + 16, NEW w, FpgaProgramFlash[k] = Read(w),
           NEW ir, NEW f, Known("fpga_flash", k, ir, f),
           w # "busy" => Answered(w) \in ReadsAs(f, ir), NEW x
    PROVE  FpgaKnown("fpga_flash", k + 1, UpdateDR(f, ir, x))
<1>1. PICK R \in Nat : R = Rows  BY RowsType
<1>2. ReadCase(k, w, ir, f)  BY ReadCases
<1>3. k \in Nat /\ FpgaKnown("fpga_flash", k, f)
  <2>1. k \in Nat  BY <1>1 DEF DoneAt
  <2> QED  BY <2>1, Zenon DEF Known
<1>4. "fpga_flash" # "fpga_sram"  OBVIOUS
<1>5. Safe(f) /\ f \in Fpgas  BY <1>3, Zenon DEF FpgaKnown, Safe
<1>6. Feature \in 1 .. Rows + 2 /\ Feabits \in 1 .. Rows + 2  BY <1>1 DEF Feature, Feabits
<1>7. CASE w \in {"busy", "status"} /\ k > 14 /\ k \notin VerifyAt + 1 .. FeatureAt + 1
           /\ ir \in {"CHECK_BUSY", "READ_STATUS"}
  <2>1. UpdateDR(f, ir, x) = f  BY <1>7 DEF UpdateDR
  <2>2. \A c : FpgaProgramFlash[k] # Ir(c)  BY DEF Ir, Read
  <2>3. \A v \in Contents : v # w  BY <1>7, ImageWords DEF Contents
  <2>4. \A v \in Contents : FpgaProgramFlash[k] # Read(v)  BY <2>3 DEF Read
  <2>5. Image[Feature] \in Contents /\ Image[Feabits] \in Contents  BY <1>6, RowsType
  <2>6. k # FeatureAt + 12 /\ k # FeabitsAt + 11 /\ k # DoneAt + 1 /\ k # DoneAt + 12
    BY <2>2, <2>4, <2>5, FlashPlaces, Zenon
  <2>7. k \notin {9, 12, VerifyAt + 1, FeatureAt + 12, DoneAt, DoneAt + 1, DoneAt + 12}
    BY <1>1, <1>7, <2>6 DEF VerifyAt, FeatureAt, FeabitsAt, DoneAt
  <2>8. \A n \in 1 .. Rows : k # VerifyAt + 3 + 2 * n  BY <1>1, <1>7 DEF VerifyAt, FeatureAt
  <2> QED  BY <1>3, <2>1, <2>7, <2>8, FpgaStays, Zenon
<1>8. ASSUME NEW n \in 1 .. Rows, w = Image[n], k = VerifyAt + 3 + 2 * n,
             ir = "READ_INCR_NV", f.addr = n, Verified(f, n - 1)
      PROVE  FpgaKnown("fpga_flash", k + 1, UpdateDR(f, ir, x))
  <2>1. f.flash[n] = Image[n]
    <3>1. w # "busy" /\ w # "status"  BY <1>1, <1>8, ImageWords
    <3>2. Answered(w) = w  BY <3>1 DEF Answered
    <3>3. f.addr <= Rows  BY <1>1, <1>8
    <3>4. ReadsAs(f, ir) = {f.flash[f.addr]}  BY <1>8, <3>3, ReadsOf, Zenon
    <3> QED  BY <1>8, <3>1, <3>2, <3>4
  <2>2. PICK a \in Nat \ {0} : a = n + 1  BY <1>1
  <2>3. PICK g : g = [f EXCEPT !.addr = a]  OBVIOUS
  <2>4. g \in Fpgas /\ g.enabled = f.enabled /\ g.flash = f.flash /\ g.done = f.done /\ g.addr = a
    BY <1>5, <2>3, SetAddr
  <2>5. UpdateDR(f, ir, x) = g
    <3>1. UpdateDR(f, ir, x) = [f EXCEPT !.addr = @ + 1]  BY <1>8 DEF UpdateDR
    <3>2. [f EXCEPT !.addr = @ + 1] = [f EXCEPT !.addr = f.addr + 1]  BY <1>5 DEF Fpgas
    <3> QED  BY <1>8, <2>2, <2>3, <3>1, <3>2
  <2>6. Verified(g, n)  BY <1>1, <1>8, <2>1, <2>4 DEF Verified
  <2>7. Safe(g)  BY <1>5, <2>4, SafeFields
  <2>8. k \in 10 .. DoneAt + 1 /\ k \in 13 .. DoneAt + 1  BY <1>1, <1>8 DEF VerifyAt, DoneAt
  <2>9. g.enabled = "flash" /\ g.done = FALSE  BY <1>3, <1>4, <2>4, <2>8, Zenon DEF FpgaKnown
  <2>10. \A i \in 0 .. R : k + 1 \in {VerifyAt + 4 + 2 * i, VerifyAt + 5 + 2 * i} =>
            Verified(g, i) /\ g.addr = i + 1
    <3> SUFFICES ASSUME NEW i \in 0 .. R, k + 1 \in {VerifyAt + 4 + 2 * i, VerifyAt + 5 + 2 * i}
                 PROVE  Verified(g, i) /\ g.addr = i + 1
      OBVIOUS
    <3>1. i = n  BY <1>1, <1>8 DEF VerifyAt
    <3> QED  BY <2>2, <2>4, <2>6, <3>1
  <2>11. /\ k + 1 \notin {VerifyAt + 2, VerifyAt + 3} /\ ~(k + 1 > FeatureAt) /\ ~(k + 1 >= FeatureAt + 13)
         /\ ~(k + 1 >= DoneAt + 1) /\ ~(k + 1 >= DoneAt + 2) /\ ~(k + 1 >= DoneAt + 13)
    BY <1>1, <1>8 DEF VerifyAt, FeatureAt, DoneAt
  <2> QED  BY <1>1, <2>5, <2>7, <2>9, <2>10, <2>11, Zenon DEF FpgaKnown
<1>9. CASE w = Image[Feature] /\ k = FeatureAt + 12 /\ ir = "READ_FEATURE"
  <2>1. f.flash[Feature] = Image[Feature]
    <3>1. w # "busy" /\ w # "status"  BY <1>6, <1>9, ImageWords
    <3>2. Answered(w) = w  BY <3>1 DEF Answered
    <3>3. ReadsAs(f, ir) = {f.flash[Feature]}  BY <1>9, ReadsOf, Zenon
    <3> QED  BY <1>9, <3>1, <3>2, <3>3
  <2>2. UpdateDR(f, ir, x) = f  BY <1>9 DEF UpdateDR
  <2>3. k \in 10 .. DoneAt + 1 /\ k \in 13 .. DoneAt + 1 /\ k > FeatureAt
    BY <1>1, <1>9 DEF FeatureAt, DoneAt
  <2>4. f.enabled = "flash" /\ f.done = FALSE /\ Verified(f, R)
    BY <1>1, <1>3, <1>4, <2>3, Zenon DEF FpgaKnown
  <2>5. /\ k + 1 \notin {VerifyAt + 2, VerifyAt + 3}
        /\ \A n \in 0 .. R : k + 1 \notin {VerifyAt + 4 + 2 * n, VerifyAt + 5 + 2 * n}
        /\ ~(k + 1 >= DoneAt + 1) /\ ~(k + 1 >= DoneAt + 2) /\ ~(k + 1 >= DoneAt + 13)
    BY <1>1, <1>9 DEF VerifyAt, FeatureAt, DoneAt
  <2> QED  BY <1>1, <1>5, <2>1, <2>2, <2>4, <2>5, Zenon DEF FpgaKnown
<1>10. CASE w = Image[Feabits] /\ k = FeabitsAt + 11 /\ ir = "READ_FEABITS"
  <2>1. f.flash[Feabits] = Image[Feabits]
    <3>1. w # "busy" /\ w # "status"  BY <1>6, <1>10, ImageWords
    <3>2. Answered(w) = w  BY <3>1 DEF Answered
    <3>3. ReadsAs(f, ir) = {f.flash[Feabits]}  BY <1>10, ReadsOf, Zenon
    <3> QED  BY <1>10, <3>1, <3>2, <3>3
  <2>2. UpdateDR(f, ir, x) = f  BY <1>10 DEF UpdateDR
  <2>3. k \in 10 .. DoneAt + 1 /\ k \in 13 .. DoneAt + 1 /\ k > FeatureAt /\ k >= FeatureAt + 13
    BY <1>1, <1>10 DEF FeatureAt, FeabitsAt, DoneAt
  <2>4. /\ f.enabled = "flash" /\ f.done = FALSE /\ Verified(f, R)
        /\ f.flash[Feature] = Image[Feature]
    BY <1>1, <1>3, <1>4, <2>3, Zenon DEF FpgaKnown
  <2>5. f.flash = Image
    <3>1. f.flash \in [1 .. Rows + 2 -> Contents]  BY <1>5, FpgaFields
    <3>2. Image \in Seq(Contents) /\ Len(Image) = Rows + 2  BY RowsType
    <3>3. Image \in [1 .. Rows + 2 -> Contents]
      <4>1. Image \in [1 .. Len(Image) -> Contents]  BY <3>2
      <4> QED  BY <3>2, <4>1
    <3>4. \A n \in 1 .. Rows + 2 : f.flash[n] = Image[n]
      <4> SUFFICES ASSUME NEW n \in 1 .. Rows + 2 PROVE f.flash[n] = Image[n]  OBVIOUS
      <4>1. n \in 1 .. R \/ n = Feature \/ n = Feabits  BY <1>1 DEF Feature, Feabits
      <4> QED  BY <2>1, <2>4, <4>1 DEF Verified
    <3>5. PICK a \in [1 .. Rows + 2 -> Contents] : a = f.flash  BY <3>1
    <3>6. PICK b \in [1 .. Rows + 2 -> Contents] : b = Image  BY <3>3
    <3>7. \A n \in 1 .. Rows + 2 : a[n] = b[n]  BY <3>4, <3>5, <3>6
    <3>8. a = b
      <4>1. DOMAIN a = 1 .. Rows + 2 /\ DOMAIN b = 1 .. Rows + 2  OBVIOUS
      <4>2. a = [n \in 1 .. Rows + 2 |-> a[n]] /\ b = [n \in 1 .. Rows + 2 |-> b[n]]  BY <4>1
      <4> QED  BY <3>7, <4>2, Zenon
    <3> QED  BY <3>5, <3>6, <3>8
  <2>6. /\ k + 1 \notin {VerifyAt + 2, VerifyAt + 3}
        /\ \A n \in 0 .. R : k + 1 \notin {VerifyAt + 4 + 2 * n, VerifyAt + 5 + 2 * n}
        /\ ~(k + 1 >= DoneAt + 2) /\ ~(k + 1 >= DoneAt + 13)
    BY <1>1, <1>10 DEF VerifyAt, FeabitsAt, DoneAt
  <2> QED  BY <1>1, <1>5, <2>2, <2>4, <2>5, <2>6, Zenon DEF FpgaKnown
<1> QED  BY <1>2, <1>7, <1>8, <1>9, <1>10 DEF ReadCase

(* A busy flash is asked again.                                              *)
LEMMA PollAgainFlash ==
    ASSUME NEW k \in 3 .. DoneAt + 16, FpgaProgramFlash[k] = Read("busy"),
           NEW ir, NEW f, Known("fpga_flash", k, ir, f), NEW x
    PROVE  Known("fpga_flash", k - 1, ir, UpdateDR(f, ir, x))
<1> DEFINE s == FpgaProgramFlash
<1>1. PICK R \in Nat : R = Rows  BY RowsType
<1>2. PICK w : w = "busy"  OBVIOUS
<1>3. ReadCase(k, w, ir, f)  BY <1>2, ReadCases
<1>4. ir = "CHECK_BUSY" /\ k > 14 /\ k \notin VerifyAt + 1 .. FeatureAt + 1 /\ k # DoneAt + 2
  <2>1. \A n \in 1 .. Rows + 2 : w # Image[n]  BY <1>2, ImageWords
  <2>2. Feature \in 1 .. Rows + 2 /\ Feabits \in 1 .. Rows + 2 /\ \A n \in 1 .. Rows : n \in 1 .. Rows + 2
    BY <1>1 DEF Feature, Feabits
  <2>3. w # "status"  BY <1>2
  <2> QED  BY <1>3, <2>1, <2>2, <2>3, Zenon DEF ReadCase
<1>5. UpdateDR(f, ir, x) = f  BY <1>4 DEF UpdateDR
<1>6. PICK j \in Nat : j = k - 1 /\ j \in 1 .. DoneAt + 15 /\ j + 1 = k /\ j > 12
  BY <1>1, <1>4 DEF DoneAt
<1>7. s[j] = Ir("CHECK_BUSY")  BY <1>6, FlashBefore, Zenon
<1>8. /\ \A v : s[j] # Dr(v)
      /\ \A v : s[j] # Read(v)
      /\ s[j] # Run /\ s[j][1] # "dr"
  BY <1>7 DEF Ir, Dr, Read, Run
<1>9. "fpga_flash" # "fpga_sram" /\ Ops("fpga_flash") = s  BY FlashMode
<1>10. IrKnown("fpga_flash", j, ir)
  <2>1. j # FeatureAt + 4 /\ j # FeatureAt + 12 /\ j # FeabitsAt + 2 /\ j # FeabitsAt + 10
        /\ j # FeabitsAt + 11
    BY <1>8, FlashPlaces, Zenon
  <2>2. j \notin VerifyAt + 4 .. FeatureAt /\ ~(j <= 12) /\ j # 9 /\ j # 12
    BY <1>1, <1>4, <1>6 DEF VerifyAt, FeatureAt
  <2>3. j \notin {FeabitsAt + 10, FeabitsAt + 11}  BY <2>1
  <2> QED  BY <1>8, <1>9, <2>1, <2>2, <2>3, Zenon DEF IrKnown
<1>11. FpgaKnown("fpga_flash", j, f)
  <2>1. FpgaKnown("fpga_flash", k, f)  BY Zenon DEF Known
  <2>3. PICK d \in Nat : d = k  BY <1>6
  <2>4. j + 1 = d /\ d > 14 /\ d \notin VerifyAt + 1 .. FeatureAt + 1 /\ d # DoneAt + 2
    BY <1>4, <1>6, <2>3
  <2>5. /\ j \in 10 .. DoneAt + 1 => d \in 10 .. DoneAt + 1
        /\ j \in 13 .. DoneAt + 1 => d \in 13 .. DoneAt + 1
    BY <1>1, <2>4 DEF DoneAt
  <2>6. /\ j \notin {VerifyAt + 2, VerifyAt + 3}
        /\ \A n \in 0 .. R : j \notin {VerifyAt + 4 + 2 * n, VerifyAt + 5 + 2 * n}
    <3>1. s[FeatureAt + 1] = Ir("INIT_ADDRESS")
      <4>1. 1 \in 1 .. 13  OBVIOUS
      <4>2. s[FeatureAt + 1] = FeatureRow[1]  BY <4>1, FeaturePart, Zenon
      <4> QED  BY <4>2, FeatureOps
    <3>2. Ir("INIT_ADDRESS") # Ir("CHECK_BUSY")  BY DEF Ir
    <3>3. j # FeatureAt + 1  BY <1>7, <3>1, <3>2
    <3> QED  BY <1>1, <2>4, <3>3 DEF VerifyAt, FeatureAt
  <2>7. /\ (j > FeatureAt => d > FeatureAt) /\ (j >= FeatureAt + 13 => d >= FeatureAt + 13)
        /\ (j >= DoneAt + 1 => d >= DoneAt + 1) /\ (j >= DoneAt + 2 => d >= DoneAt + 2)
        /\ (j >= DoneAt + 13 => d >= DoneAt + 13)
    BY <1>1, <2>4 DEF FeatureAt, DoneAt
  <2>2. /\ j \in 10 .. DoneAt + 1 => k \in 10 .. DoneAt + 1
        /\ j \in 13 .. DoneAt + 1 => k \in 13 .. DoneAt + 1
        /\ j \notin {VerifyAt + 2, VerifyAt + 3}
        /\ \A n \in 0 .. R : j \notin {VerifyAt + 4 + 2 * n, VerifyAt + 5 + 2 * n}
        /\ (j > FeatureAt => k > FeatureAt) /\ (j >= FeatureAt + 13 => k >= FeatureAt + 13)
        /\ (j >= DoneAt + 1 => k >= DoneAt + 1) /\ (j >= DoneAt + 2 => k >= DoneAt + 2)
        /\ (j >= DoneAt + 13 => k >= DoneAt + 13)
    BY <2>3, <2>5, <2>6, <2>7, Zenon
  <2> QED  BY <1>1, <1>9, <2>1, <2>2, Zenon DEF FpgaKnown
<1> QED  BY <1>5, <1>6, <1>10, <1>11, Zenon DEF Known

(* An operation without value changes nothing that is known.                 *)
LEMMA FpgaIdleFlash ==
    ASSUME NEW k \in 3 .. DoneAt + 16, FpgaProgramFlash[k] \in {Run, <<"sync">>},
           NEW f, FpgaKnown("fpga_flash", k, f)
    PROVE  FpgaKnown("fpga_flash", k + 1, f)
<1>1. PICK R \in Nat : R = Rows  BY RowsType
<1>2. /\ \A c : FpgaProgramFlash[k] # Ir(c)
      /\ \A v : FpgaProgramFlash[k] # Dr(v)
      /\ \A v : FpgaProgramFlash[k] # Read(v)
  BY DEF Ir, Dr, Read, Run
<1>3. /\ k # 9 /\ k # 12 /\ k # VerifyAt + 1 /\ k # FeatureAt + 12 /\ k # FeabitsAt + 11
      /\ k # DoneAt + 1 /\ k # DoneAt + 12 /\ \A n \in 1 .. Rows : k # VerifyAt + 3 + 2 * n
  BY <1>2, FlashPlaces, Zenon
<1>4. k \in Nat /\ k # DoneAt  BY <1>1, <1>3 DEF FeabitsAt, DoneAt
<1>5. k \notin {9, 12, VerifyAt + 1, FeatureAt + 12, DoneAt, DoneAt + 1, DoneAt + 12}
  BY <1>3, <1>4
<1> QED  BY <1>3, <1>4, <1>5, FpgaStays, Zenon

-----------------------------------------------------------------------------
(* The same for the routine of every mode.                                   *)
LEMMA OpsTypes ==
    ASSUME NEW m \in JtagModes
    PROVE  /\ Ops(m) \in Seq(Opers) /\ Len(Ops(m)) \in Nat /\ Len(Ops(m)) >= 15
           /\ Ops(m)[1] = Ir("ENABLE") /\ Ops(m)[2] = Dr("sram")
           /\ m # "fpga_erase" => Ops(m)[Len(Ops(m))] = <<"sync">>
<1>1. PICK R \in Nat : R = Rows  BY RowsType
<1>2. CASE m = "fpga_erase"
  <2>1. PICK s : s = FpgaEraseFlash  OBVIOUS
  <2>2. s \in Seq(Opers) /\ Len(s) = 18 /\ s[1] = Ir("ENABLE") /\ s[2] = Dr("sram")
    BY <2>1, EraseOps, Zenon
  <2>3. 18 \in Nat /\ 18 >= 15  OBVIOUS
  <2>4. Ops(m) = s  BY <1>2, <2>1, EraseMode
  <2> QED  BY <1>2, <2>2, <2>3, <2>4, Zenon
<1>3. CASE m = "fpga_sram"
  <2>1. PICK s : s = FpgaProgramSram  OBVIOUS
  <2>2. s \in Seq(Opers) /\ Len(s) = 15 /\ s[1] = Ir("ENABLE") /\ s[2] = Dr("sram") /\ s[15] = <<"sync">>
    BY <2>1, SramOps, Zenon
  <2>3. 15 \in Nat /\ 15 >= 15  OBVIOUS
  <2>4. Ops(m) = s  BY <1>3, <2>1, SramMode
  <2> QED  BY <1>3, <2>2, <2>3, <2>4, Zenon
<1>4. CASE m = "fpga_flash"
  <2>1. PICK s : s = FpgaProgramFlash  OBVIOUS
  <2>2. s \in Seq(Opers) /\ Len(s) = DoneAt + 16  BY <2>1, FlashOps, Zenon
  <2>3. s[1] = Ir("ENABLE") /\ s[2] = Dr("sram") /\ s[DoneAt + 16] = <<"sync">>
    BY <2>1, FlashPlaces, Zenon
  <2>4. DoneAt + 16 \in Nat /\ DoneAt + 16 >= 15  BY <1>1 DEF DoneAt
  <2>5. Ops(m) = s  BY <1>4, <2>1, FlashMode
  <2> QED  BY <1>4, <2>2, <2>3, <2>4, <2>5, Zenon
<1> QED  BY <1>2, <1>3, <1>4 DEF JtagModes

(* The erasing is how fpga_program_flash begins.                             *)
LEMMA EraseBegins ==
    ASSUME NEW k \in 1 .. 18
    PROVE  /\ Ops("fpga_erase")[k] = FpgaProgramFlash[k] /\ Len(Ops("fpga_erase")) = 18
           /\ k \in 1 .. DoneAt + 16 /\ k \in 1 .. 18
<1>1. PICK R \in Nat : R = Rows  BY RowsType
<1>2. k \in 1 .. DoneAt + 16  BY <1>1 DEF DoneAt
<1>3. FpgaProgramFlash[k] = FpgaEraseFlash[k]  BY ErasePart
<1>4. Len(FpgaEraseFlash) = 18  BY EraseOps
<1> QED  BY <1>2, <1>3, <1>4, EraseMode

LEMMA EraseFpga ==
    ASSUME NEW k, NEW f
    PROVE  FpgaKnown("fpga_erase", k, f) = FpgaKnown("fpga_flash", k, f)
<1>1. "fpga_flash" # "fpga_sram" /\ "fpga_erase" # "fpga_sram"  OBVIOUS
<1> QED  BY <1>1 DEF FpgaKnown

LEMMA EraseKnown ==
    ASSUME NEW k \in 1 .. 18, NEW ir, NEW f, Known("fpga_erase", k, ir, f)
    PROVE  Known("fpga_flash", k, ir, f)
<1> DEFINE s == FpgaProgramFlash
           e == Ops("fpga_erase")
<1>1. PICK R \in Nat : R = Rows  BY RowsType
<1>2. Ops("fpga_flash") = s /\ "fpga_flash" # "fpga_sram" /\ "fpga_erase" # "fpga_sram"
  BY FlashMode
<1>3. e[k] = s[k] /\ Len(e) = 18  BY EraseBegins
<1>4. /\ k \notin 21 .. VerifyAt /\ k \notin VerifyAt + 4 .. FeatureAt
      /\ k # FeatureAt + 4 /\ k # FeatureAt + 12 /\ k # FeabitsAt + 2
      /\ k \notin {FeabitsAt + 10, FeabitsAt + 11}
      /\ k \in 13 .. Len(s) => k \in 13 .. Len(e)
  BY <1>1, <1>3 DEF VerifyAt, FeatureAt, FeabitsAt
<1>5. IrKnown("fpga_erase", k, ir) /\ FpgaKnown("fpga_flash", k, f)  BY EraseFpga, Zenon DEF Known
<1>6. /\ k <= 12 => ir \in Mild
      /\ k = 9 => ir = "ENABLE"
      /\ k = 12 => ir = "ERASE"
      /\ k \in 13 .. Len(e) => /\ e[k] = Read("busy") => ir = "CHECK_BUSY"
                               /\ e[k] = Read("status") => ir = "READ_STATUS"
  BY <1>2, <1>5, Zenon DEF IrKnown
<1> HIDE DEF s, e
<1>7. IrKnown("fpga_flash", k, ir)
  BY <1>2, <1>3, <1>4, <1>6, Zenon DEF IrKnown
<1> QED  BY <1>5, <1>7, Zenon DEF Known

LEMMA EraseKept ==
    ASSUME NEW k \in 1 .. 19, NEW ir, NEW f, Known("fpga_flash", k, ir, f)
    PROVE  Known("fpga_erase", k, ir, f)
<1> DEFINE s == FpgaProgramFlash
           e == Ops("fpga_erase")
<1>1. PICK R \in Nat : R = Rows  BY RowsType
<1>2. Ops("fpga_flash") = s /\ "fpga_flash" # "fpga_sram" /\ "fpga_erase" # "fpga_sram"
  BY FlashMode
<1>3. k \in 1 .. 18 => e[k] = s[k]  BY EraseBegins
<1>4. Len(e) = 18 /\ Len(s) = DoneAt + 16  BY EraseMode, EraseOps, FlashLength
<1>5. /\ k \notin 21 .. VerifyAt /\ k \notin VerifyAt + 4 .. FeatureAt
      /\ k # FeatureAt + 4 /\ k # FeatureAt + 12 /\ k # FeabitsAt + 2
      /\ k \notin {FeabitsAt + 10, FeabitsAt + 11}
      /\ k \in 13 .. 18 => k \in 13 .. DoneAt + 16
      /\ k \in 13 .. 18 => k \in 1 .. 18
  BY <1>1 DEF VerifyAt, FeatureAt, FeabitsAt, DoneAt
<1>6. IrKnown("fpga_flash", k, ir) /\ FpgaKnown("fpga_erase", k, f)  BY EraseFpga, Zenon DEF Known
<1>7. /\ k <= 12 => ir \in Mild
      /\ k = 9 => ir = "ENABLE"
      /\ k = 12 => ir = "ERASE"
      /\ k \in 13 .. Len(s) => /\ s[k] = Read("busy") => ir = "CHECK_BUSY"
                               /\ s[k] = Read("status") => ir = "READ_STATUS"
  BY <1>2, <1>6, Zenon DEF IrKnown
<1>8. k \in 13 .. Len(e) => /\ e[k] = Read("busy") => ir = "CHECK_BUSY"
                            /\ e[k] = Read("status") => ir = "READ_STATUS"
  <2> HIDE DEF s, e
  <2> SUFFICES ASSUME k \in 13 .. Len(e)
               PROVE  /\ e[k] = Read("busy") => ir = "CHECK_BUSY"
                      /\ e[k] = Read("status") => ir = "READ_STATUS"
    OBVIOUS
  <2>1. k \in 13 .. 18 /\ k \in 13 .. Len(s) /\ e[k] = s[k]  BY <1>3, <1>4, <1>5
  <2> QED  BY <1>7, <2>1, Zenon
<1> HIDE DEF s, e
<1>9. \A S : e[k] \in S => e[k] \in S  OBVIOUS
<1>10. IrKnown("fpga_erase", k, ir)
  BY <1>2, <1>5, <1>7, <1>8, Zenon DEF IrKnown, e
<1> QED  BY <1>6, <1>10, Zenon DEF Known

LEMMA SramKnown ==
    ASSUME NEW k, NEW ir, NEW f
    PROVE  Known("fpga_sram", k, ir, f) <=> ir \in Mild /\ Safe(f)
BY DEF Known, IrKnown, FpgaKnown

LEMMA SramIr ==
    ASSUME NEW k \in 3 .. 15, NEW c, FpgaProgramSram[k] = Ir(c)
    PROVE  c \in Mild
<1> DEFINE s == FpgaProgramSram
<1>1. \A d : Ir(d) = Ir(c) => c = d  BY DEF Ir
<1>2. Ir(c) # Run /\ Ir(c) # <<"sync">> /\ \A v : Ir(c) # Dr(v)  BY DEF Ir, Run, Dr
<1>3. \/ k = 3 \/ k = 4 \/ k = 5 \/ k = 6 \/ k = 7 \/ k = 8 \/ k = 9 \/ k = 10 \/ k = 11 \/ k = 12
      \/ k = 13 \/ k = 14 \/ k = 15
  OBVIOUS
<1>4. c \in {"ERASE", "BITSTREAM_BURST", "DISABLE", "NOOP"}
  <2>1. s[k] \in {Ir("ERASE"), Ir("BITSTREAM_BURST"), Ir("DISABLE"), Ir("NOOP"), Run, <<"sync">>}
        \/ \E v : s[k] = Dr(v)
    BY <1>3, SramOps, Zenon
  <2> QED  BY <1>1, <1>2, <2>1, Zenon
<1> QED  BY <1>4 DEF Mild

LEMMA SramDr ==
    ASSUME NEW k \in 3 .. 15, NEW v, FpgaProgramSram[k] = Dr(v)
    PROVE  v \in Values
<1> DEFINE s == FpgaProgramSram
<1>1. \A d : Dr(d) = Dr(v) => v = d  BY DEF Dr
<1>2. Dr(v) # Run /\ Dr(v) # <<"sync">> /\ \A c : Ir(c) # Dr(v)  BY DEF Ir, Run, Dr
<1>3. \/ k = 3 \/ k = 4 \/ k = 5 \/ k = 6 \/ k = 7 \/ k = 8 \/ k = 9 \/ k = 10 \/ k = 11 \/ k = 12
      \/ k = 13 \/ k = 14 \/ k = 15
  OBVIOUS
<1>4. v \in {"sram", "bitstream"}
  <2>1. s[k] \in {Dr("sram"), Dr("bitstream"), Run, <<"sync">>} \/ \E c : s[k] = Ir(c)
    BY <1>3, SramOps, Zenon
  <2> QED  BY <1>1, <1>2, <2>1, Zenon
<1> QED  BY <1>4 DEF Values, Mild

LEMMA SramRead ==
    ASSUME NEW k \in 3 .. 15, NEW w
    PROVE  FpgaProgramSram[k] # Read(w)
<1> DEFINE s == FpgaProgramSram
<1>2. Read(w) # Run /\ Read(w) # <<"sync">> /\ (\A c : Ir(c) # Read(w)) /\ (\A c : Dr(c) # Read(w))
  BY DEF Ir, Run, Dr, Read
<1>3. \/ k = 3 \/ k = 4 \/ k = 5 \/ k = 6 \/ k = 7 \/ k = 8 \/ k = 9 \/ k = 10 \/ k = 11 \/ k = 12
      \/ k = 13 \/ k = 14 \/ k = 15
  OBVIOUS
<1>4. s[k] \in {Run, <<"sync">>} \/ (\E c : s[k] = Ir(c)) \/ (\E c : s[k] = Dr(c))
  BY <1>3, SramOps, Zenon
<1> QED  BY <1>2, <1>4, Zenon

(* What is known before operation k is known before the next one.            *)
LEMMA IrStep ==
    ASSUME NEW m \in JtagModes, NEW k \in 3 .. Len(Ops(m)), NEW c, Ops(m)[k] = Ir(c),
           NEW ir, NEW f, Known(m, k, ir, f)
    PROVE  Known(m, k + 1, c, UpdateIR(f, c))
<1>0. PICK R \in Nat : R = Rows  BY RowsType
<1>1. ASSUME NEW i \in 1 .. DoneAt + 16, FpgaProgramFlash[i] = Ir(c), Known("fpga_flash", i, ir, f)
      PROVE  Known("fpga_flash", i + 1, c, UpdateIR(f, c))
  <2>1. FpgaKnown("fpga_flash", i, f)  BY <1>1, Zenon DEF Known
  <2>2. IrKnown("fpga_flash", i + 1, c)  BY <1>1, IrWrittenFlash
  <2>3. FpgaKnown("fpga_flash", i + 1, UpdateIR(f, c))  BY <1>1, <2>1, FpgaIrFlash
  <2> QED  BY <2>2, <2>3, Zenon DEF Known
<1>2. CASE m = "fpga_flash"
  <2>1. k \in 1 .. DoneAt + 16  BY <1>0, <1>2, FlashMode, FlashLength DEF DoneAt
  <2>2. FpgaProgramFlash[k] = Ir(c)  BY <1>2, FlashMode
  <2> QED  BY <1>1, <1>2, <2>1, <2>2
<1>3. CASE m = "fpga_erase"
  <2>1. Len(Ops(m)) = 18  BY <1>3, EraseMode, EraseOps
  <2>2. k \in 1 .. 18 /\ k + 1 \in 1 .. 19  BY <2>1
  <2>3. FpgaProgramFlash[k] = Ir(c) /\ k \in 1 .. DoneAt + 16  BY <1>3, <2>2, EraseBegins
  <2>4. Known("fpga_flash", k, ir, f)  BY <1>3, <2>2, EraseKnown
  <2>5. Known("fpga_flash", k + 1, c, UpdateIR(f, c))  BY <1>1, <2>3, <2>4
  <2> QED  BY <1>3, <2>2, <2>5, EraseKept
<1>4. CASE m = "fpga_sram"
  <2>1. k \in 3 .. 15 /\ FpgaProgramSram[k] = Ir(c)  BY <1>4, SramMode, SramOps
  <2>2. c \in Mild  BY <2>1, SramIr
  <2>3. Safe(f)  BY <1>4, SramKnown
  <2>4. Safe(UpdateIR(f, c))  BY <2>2, <2>3, MildIr
  <2> QED  BY <1>4, <2>2, <2>4, SramKnown
<1> QED  BY <1>2, <1>3, <1>4 DEF JtagModes

LEMMA DrStep ==
    ASSUME NEW m \in JtagModes, NEW k \in 3 .. Len(Ops(m)), NEW v, Ops(m)[k] = Dr(v),
           NEW ir, NEW f, Known(m, k, ir, f), NEW w, w = v \/ (w = "flawed" /\ ir \in Writing)
    PROVE  Known(m, k + 1, ir, UpdateDR(f, ir, w))
<1>0. PICK R \in Nat : R = Rows  BY RowsType
<1>1. ASSUME NEW i \in 3 .. DoneAt + 16, FpgaProgramFlash[i] = Dr(v), Known("fpga_flash", i, ir, f)
      PROVE  Known("fpga_flash", i + 1, ir, UpdateDR(f, ir, w))
  <2>1. IrKnown("fpga_flash", i, ir)  BY <1>1, Zenon DEF Known
  <2>2. \A c : FpgaProgramFlash[i] # Ir(c)  BY <1>1 DEF Ir, Dr
  <2>3. i \in 1 .. DoneAt + 16  BY <1>0 DEF DoneAt
  <2>4. IrKnown("fpga_flash", i + 1, ir)  BY <2>1, <2>2, <2>3, IrKeptFlash
  <2>5. FpgaKnown("fpga_flash", i + 1, UpdateDR(f, ir, w))  BY <1>1, FpgaDrFlash
  <2> QED  BY <2>4, <2>5, Zenon DEF Known
<1>2. CASE m = "fpga_flash"
  <2>1. k \in 3 .. DoneAt + 16  BY <1>0, <1>2, FlashMode, FlashLength DEF DoneAt
  <2>2. FpgaProgramFlash[k] = Dr(v)  BY <1>2, FlashMode
  <2> QED  BY <1>1, <1>2, <2>1, <2>2
<1>3. CASE m = "fpga_erase"
  <2>1. Len(Ops(m)) = 18  BY <1>3, EraseMode, EraseOps
  <2>2. k \in 1 .. 18 /\ k + 1 \in 1 .. 19  BY <2>1
  <2>3. FpgaProgramFlash[k] = Dr(v)  BY <1>3, <2>2, EraseBegins
  <2>4. Known("fpga_flash", k, ir, f)  BY <1>3, <2>2, EraseKnown
  <2>5. k \in 3 .. DoneAt + 16  BY <1>0, <2>2 DEF DoneAt
  <2>6. Known("fpga_flash", k + 1, ir, UpdateDR(f, ir, w))  BY <1>1, <2>3, <2>4, <2>5
  <2> QED  BY <1>3, <2>2, <2>6, EraseKept
<1>4. CASE m = "fpga_sram"
  <2>1. k \in 3 .. 15 /\ FpgaProgramSram[k] = Dr(v)  BY <1>4, SramMode, SramOps
  <2>2. ir \in Mild /\ Safe(f)  BY <1>4, SramKnown
  <2>3. ir \notin Writing  BY <2>2 DEF Mild, Writing, Junk
  <2>4. w \in Values  BY <2>1, <2>3, SramDr
  <2>5. Safe(UpdateDR(f, ir, w))  BY <2>2, <2>4, MildDr
  <2> QED  BY <1>4, <2>2, <2>5, SramKnown
<1> QED  BY <1>2, <1>3, <1>4 DEF JtagModes

(* A read is one of fpga_program_flash or of its beginning.                  *)
LEMMA ReadPlace ==
    ASSUME NEW m \in JtagModes, NEW k \in 3 .. Len(Ops(m)), NEW w, Ops(m)[k] = Read(w)
    PROVE  /\ k \in 3 .. DoneAt + 16 /\ FpgaProgramFlash[k] = Read(w) /\ m # "fpga_sram"
           /\ \A ir, f : Known(m, k, ir, f) => Known("fpga_flash", k, ir, f)
           /\ \A ir, f : Known("fpga_flash", k + 1, ir, f) => Known(m, k + 1, ir, f)
           /\ \A ir, f : Known("fpga_flash", k - 1, ir, f) => Known(m, k - 1, ir, f)
<1>0. PICK R \in Nat : R = Rows  BY RowsType
<1>2. CASE m = "fpga_flash"
  <2>1. k \in 3 .. DoneAt + 16  BY <1>0, <1>2, FlashMode, FlashLength DEF DoneAt
  <2>2. FpgaProgramFlash[k] = Read(w)  BY <1>2, FlashMode
  <2> QED  BY <1>2, <2>1, <2>2
<1>3. CASE m = "fpga_erase"
  <2>1. Len(Ops(m)) = 18  BY <1>3, EraseMode, EraseOps
  <2>2. k \in 1 .. 18 /\ k + 1 \in 1 .. 19 /\ k - 1 \in 1 .. 19  BY <2>1
  <2>3. FpgaProgramFlash[k] = Read(w)  BY <1>3, <2>2, EraseBegins
  <2>4. \A ir, f : Known(m, k, ir, f) => Known("fpga_flash", k, ir, f)  BY <1>3, <2>2, EraseKnown
  <2>5. k \in 3 .. DoneAt + 16  BY <1>0, <2>2 DEF DoneAt
  <2>6. \A ir, f : Known("fpga_flash", k + 1, ir, f) => Known(m, k + 1, ir, f)
    BY <1>3, <2>2, EraseKept
  <2>7. \A ir, f : Known("fpga_flash", k - 1, ir, f) => Known(m, k - 1, ir, f)
    BY <1>3, <2>2, EraseKept
  <2> QED  BY <1>3, <2>3, <2>4, <2>5, <2>6, <2>7
<1>4. CASE m = "fpga_sram"
  <2>1. k \in 3 .. 15 /\ FpgaProgramSram[k] = Read(w)  BY <1>4, SramMode, SramOps
  <2> QED  BY <2>1, SramRead
<1> QED  BY <1>2, <1>3, <1>4 DEF JtagModes

LEMMA ReadStep ==
    ASSUME NEW m \in JtagModes, NEW k \in 3 .. Len(Ops(m)), NEW w, Ops(m)[k] = Read(w),
           NEW ir, NEW f, Known(m, k, ir, f), NEW x,
           w # "busy" => Answered(w) \in ReadsAs(f, ir)
    PROVE  Known(m, k + 1, ir, UpdateDR(f, ir, x))
<1>0. PICK R \in Nat : R = Rows  BY RowsType
<1>1. k \in 3 .. DoneAt + 16 /\ FpgaProgramFlash[k] = Read(w) /\ Known("fpga_flash", k, ir, f)
  BY ReadPlace, Zenon
<1>2. IrKnown("fpga_flash", k, ir)  BY <1>1, Zenon DEF Known
<1>3. \A c : FpgaProgramFlash[k] # Ir(c)  BY <1>1 DEF Ir, Read
<1>4. k \in 1 .. DoneAt + 16  BY <1>0, <1>1 DEF DoneAt
<1>5. IrKnown("fpga_flash", k + 1, ir)  BY <1>2, <1>3, <1>4, IrKeptFlash
<1>6. FpgaKnown("fpga_flash", k + 1, UpdateDR(f, ir, x))  BY <1>1, FpgaReadFlash
<1>7. Known("fpga_flash", k + 1, ir, UpdateDR(f, ir, x))  BY <1>5, <1>6, Zenon DEF Known
<1> QED  BY <1>7, ReadPlace, Zenon

LEMMA PollAgain ==
    ASSUME NEW m \in JtagModes, NEW k \in 3 .. Len(Ops(m)), Ops(m)[k] = Read("busy"),
           NEW ir, NEW f, Known(m, k, ir, f), NEW x
    PROVE  Known(m, k - 1, ir, UpdateDR(f, ir, x))
<1>1. k \in 3 .. DoneAt + 16 /\ FpgaProgramFlash[k] = Read("busy") /\ Known("fpga_flash", k, ir, f)
  BY ReadPlace, Zenon
<1>2. Known("fpga_flash", k - 1, ir, UpdateDR(f, ir, x))  BY <1>1, PollAgainFlash
<1> QED  BY <1>2, ReadPlace, Zenon

LEMMA ReadWell ==
    ASSUME NEW m \in JtagModes, NEW k \in 3 .. Len(Ops(m)), NEW w, Ops(m)[k] = Read(w),
           NEW ir, NEW f, Known(m, k, ir, f)
    PROVE  Junk \notin ReadsAs(f, ir) /\ ir \notin Writing /\ (w = "busy" => k > 14)
<1>1. k \in 3 .. DoneAt + 16 /\ FpgaProgramFlash[k] = Read(w) /\ Known("fpga_flash", k, ir, f)
  BY ReadPlace, Zenon
<1>2. Junk \notin ReadsAs(f, ir)  BY <1>1, NoJunkFlash
<1>3. ReadCase(k, w, ir, f)  BY <1>1, ReadCases
<1>4. ir \in {"CHECK_BUSY", "READ_STATUS", "READ_INCR_NV", "READ_FEATURE", "READ_FEABITS"}
  BY <1>3, Zenon DEF ReadCase
<1>5. ir \notin Writing  BY <1>4 DEF Writing
<1>6. w = "busy" => k > 14
  <2>0. PICK R \in Nat : R = Rows  BY RowsType
  <2>1. w = "busy" => \A n \in 1 .. Rows + 2 : w # Image[n]  BY ImageWords
  <2>2. Feature \in 1 .. Rows + 2 /\ Feabits \in 1 .. Rows + 2 /\ \A n \in 1 .. Rows : n \in 1 .. Rows + 2
    BY <2>0 DEF Feature, Feabits
  <2> QED  BY <1>3, <2>1, <2>2, Zenon DEF ReadCase
<1> QED  BY <1>2, <1>5, <1>6

LEMMA IdleStep ==
    ASSUME NEW m \in JtagModes, NEW k \in 3 .. Len(Ops(m)), Ops(m)[k] \in {Run, <<"sync">>},
           NEW ir, NEW f, Known(m, k, ir, f)
    PROVE  Known(m, k + 1, ir, f)
<1>0. PICK R \in Nat : R = Rows  BY RowsType
<1>1. ASSUME NEW i \in 3 .. DoneAt + 16, FpgaProgramFlash[i] \in {Run, <<"sync">>},
             Known("fpga_flash", i, ir, f)
      PROVE  Known("fpga_flash", i + 1, ir, f)
  <2>1. IrKnown("fpga_flash", i, ir) /\ FpgaKnown("fpga_flash", i, f)  BY <1>1, Zenon DEF Known
  <2>2. \A c : FpgaProgramFlash[i] # Ir(c)  BY <1>1 DEF Ir, Run
  <2>3. i \in 1 .. DoneAt + 16  BY <1>0 DEF DoneAt
  <2>4. IrKnown("fpga_flash", i + 1, ir)  BY <2>1, <2>2, <2>3, IrKeptFlash
  <2>5. FpgaKnown("fpga_flash", i + 1, f)  BY <1>1, <2>1, FpgaIdleFlash
  <2> QED  BY <2>4, <2>5, Zenon DEF Known
<1>2. CASE m = "fpga_flash"
  <2>1. k \in 3 .. DoneAt + 16  BY <1>0, <1>2, FlashMode, FlashLength DEF DoneAt
  <2>2. FpgaProgramFlash[k] \in {Run, <<"sync">>}  BY <1>2, FlashMode
  <2> QED  BY <1>1, <1>2, <2>1, <2>2
<1>3. CASE m = "fpga_erase"
  <2>1. Len(Ops(m)) = 18  BY <1>3, EraseMode, EraseOps
  <2>2. k \in 1 .. 18 /\ k + 1 \in 1 .. 19  BY <2>1
  <2>3. FpgaProgramFlash[k] \in {Run, <<"sync">>}  BY <1>3, <2>2, EraseBegins
  <2>4. Known("fpga_flash", k, ir, f)  BY <1>3, <2>2, EraseKnown
  <2>5. k \in 3 .. DoneAt + 16  BY <1>0, <2>2 DEF DoneAt
  <2>6. Known("fpga_flash", k + 1, ir, f)  BY <1>1, <2>3, <2>4, <2>5
  <2> QED  BY <1>3, <2>2, <2>6, EraseKept
<1>4. CASE m = "fpga_sram"  BY <1>4, SramKnown
<1> QED  BY <1>2, <1>3, <1>4 DEF JtagModes

(* After the first two operations.                                           *)
LEMMA KnownThird ==
    ASSUME NEW m \in JtagModes, NEW ir \in Mild, NEW f, Safe(f)
    PROVE  Known(m, 3, ir, f)
<1>0. PICK R \in Nat : R = Rows  BY RowsType
<1>1. FpgaKnown(m, 3, f)  BY Early
<1>2. /\ 3 # 9 /\ 3 # 12 /\ 3 \notin 13 .. Len(Ops(m)) /\ 3 \notin 21 .. VerifyAt
      /\ 3 \notin VerifyAt + 4 .. FeatureAt /\ 3 # FeatureAt + 4 /\ 3 # FeatureAt + 12
      /\ 3 # FeabitsAt + 2 /\ 3 \notin {FeabitsAt + 10, FeabitsAt + 11}
  BY <1>0 DEF VerifyAt, FeatureAt, FeabitsAt
<1>3. IrKnown(m, 3, ir)  BY <1>2, Zenon DEF IrKnown
<1> QED  BY <1>1, <1>3, Zenon DEF Known

-----------------------------------------------------------------------------
(* The items of an operation.                                                *)
Clocks(bits) == {Clk(bits[i], tms) : i \in 1 .. Bits, tms \in {0, 1}}
Bit(up) == IF up THEN 1 ELSE 0

LEMMA ShiftedItems ==
    ASSUME NEW bits
    PROVE  LET s == Shifted(bits)
           IN  /\ s \in Seq(Clocks(bits)) /\ Len(s) = Bits
               /\ \A i \in 1 .. Bits : s[i] = Clk(bits[i], Bit(i = Bits))
<1> DEFINE S == Clocks(bits)
<1>1. Bits \in Nat  BY BitsAssumption
<1>2. \A i \in 1 .. Bits : Bit(i = Bits) \in {0, 1}  BY DEF Bit
<1>3. Shifted(bits) = [i \in 1 .. Bits |-> Clk(bits[i], Bit(i = Bits))]  BY DEF Shifted, Bit
<1>4. \A i \in 1 .. Bits : Clk(bits[i], Bit(i = Bits)) \in S  BY <1>2 DEF Clocks
<1>5. PICK g : g = Shifted(bits)  OBVIOUS
<1>6. g \in [1 .. Bits -> S]  BY <1>3, <1>4, <1>5
<1>7. g \in Seq(S) /\ Len(g) = Bits  BY <1>1, <1>6, FunctionIsSeq
<1>8. \A i \in 1 .. Bits : g[i] = Clk(bits[i], Bit(i = Bits))  BY <1>3, <1>5
<1> QED  BY <1>5, <1>7, <1>8

(* The clocks of jtag_write_ir, jtag_write_dr and jtag_read_dr.              *)
LEMMA IrItemsIn ==
    ASSUME NEW c
    PROVE  LET s == JtagWriteIr(c)
           IN  /\ \E S : s \in Seq(S)
               /\ Len(s) = 6 + Bits
               /\ s[1] = Clk(Zero, 1) /\ s[2] = Clk(Zero, 1) /\ s[3] = Clk(Zero, 0) /\ s[4] = Clk(Zero, 0)
               /\ \A i \in 1 .. Bits : s[4 + i] = Clk(<<c, i>>, Bit(i = Bits))
               /\ s[5 + Bits] = Clk(Zero, 1) /\ s[6 + Bits] = Clk(Zero, 0)
<1> DEFINE bits == BitsOf(c)
           S == Clocks(bits) \cup {Clk(Zero, 0), Clk(Zero, 1)}
<1>1. PICK B \in Nat : B = Bits  BY BitsAssumption
<1>2. PICK x \in S, y \in S : x = Clk(Zero, 1) /\ y = Clk(Zero, 0)  OBVIOUS
<1> HIDE DEF bits
<1>3. PICK g : g = Shifted(bits)  OBVIOUS
<1>4. g \in Seq(Clocks(bits)) /\ Len(g) = Bits /\ \A i \in 1 .. Bits : g[i] = Clk(bits[i], Bit(i = Bits))
  BY <1>3, ShiftedItems
<1>5. g \in Seq(S)
  <2>1. Clocks(bits) \subseteq S  OBVIOUS
  <2> QED  BY <1>4, <2>1
<1> HIDE DEF S
<1>6. PICK p : p = <<x, x, y, y>>  OBVIOUS
<1>7. p \in Seq(S) /\ Len(p) = 4 /\ p[1] = x /\ p[2] = x /\ p[3] = y /\ p[4] = y
  BY <1>6, FourTuple
<1>8. PICK q : q = <<x, y>>  OBVIOUS
<1>9. q \in Seq(S) /\ Len(q) = 2 /\ q[1] = x /\ q[2] = y  BY <1>8, TwoTuple
<1>10. PICK s : s = p \o g \o q  OBVIOUS
<1>11. /\ s \in Seq(S) /\ Len(s) = Len(p) + Len(g) + Len(q)
       /\ \A i \in 1 .. Len(p) : s[i] = p[i]
       /\ \A i \in 1 .. Len(g) : s[Len(p) + i] = g[i]
       /\ \A i \in 1 .. Len(q) : s[Len(p) + Len(g) + i] = q[i]
  <2>1. p \in Seq(S) /\ q \in Seq(S)  BY <1>7, <1>9
  <2>2. Parts(s, S, p, g, q)  BY <1>5, <1>10, <2>1, ThreeJoined
  <2> QED  BY <2>2, Zenon DEF Parts
<1>12. JtagWriteIr(c) = s
  BY <1>2, <1>3, <1>6, <1>8, <1>10 DEF JtagWriteIr, ToIdle, bits
<1>13. s[1] = p[1] /\ s[2] = p[2] /\ s[3] = p[3] /\ s[4] = p[4]
  BY <1>7, <1>11
<1>14. Len(s) = 6 + B  BY <1>1, <1>4, <1>7, <1>9, <1>11
<1>15. \A i \in 1 .. B : s[4 + i] = g[i]  BY <1>1, <1>4, <1>7, <1>11
<1>16. s[5 + B] = q[1] /\ s[6 + B] = q[2]
  <2>1. 4 + B + 1 = 5 + B /\ 4 + B + 2 = 6 + B  OBVIOUS
  <2>2. s[4 + B + 1] = q[1] /\ s[4 + B + 2] = q[2]  BY <1>1, <1>4, <1>7, <1>9, <1>11
  <2> QED  BY <2>1, <2>2, Zenon
<1>17. \A i \in 1 .. Bits : bits[i] = <<c, i>>  BY DEF bits, BitsOf
<1>19. \E T : s \in Seq(T)  BY <1>11
<1> QED
  BY <1>1, <1>2, <1>4, <1>19, <1>7, <1>9, <1>12, <1>13, <1>14, <1>15, <1>16, <1>17, Zenon

LEMMA IrItems ==
    ASSUME NEW c
    PROVE  LET s == JtagWriteIr(c)
           IN  /\ Len(s) = 6 + Bits
               /\ s[1] = Clk(Zero, 1) /\ s[2] = Clk(Zero, 1) /\ s[3] = Clk(Zero, 0) /\ s[4] = Clk(Zero, 0)
               /\ \A i \in 1 .. Bits : s[4 + i] = Clk(<<c, i>>, Bit(i = Bits))
               /\ s[5 + Bits] = Clk(Zero, 1) /\ s[6 + Bits] = Clk(Zero, 0)
BY IrItemsIn, Zenon

LEMMA DrItemsIn ==
    ASSUME NEW v
    PROVE  LET s == JtagWriteDr(v)
           IN  /\ \E S : s \in Seq(S)
               /\ Len(s) = 5 + Bits
               /\ s[1] = Clk(Zero, 1) /\ s[2] = Clk(Zero, 0) /\ s[3] = Clk(Zero, 0)
               /\ \A i \in 1 .. Bits : s[3 + i] = Clk(<<v, i>>, Bit(i = Bits))
               /\ s[4 + Bits] = Clk(Zero, 1) /\ s[5 + Bits] = Clk(Zero, 0)
<1> DEFINE bits == BitsOf(v)
           S == Clocks(bits) \cup {Clk(Zero, 0), Clk(Zero, 1)}
<1>1. PICK B \in Nat : B = Bits  BY BitsAssumption
<1>2. PICK x \in S, y \in S : x = Clk(Zero, 1) /\ y = Clk(Zero, 0)  OBVIOUS
<1> HIDE DEF bits
<1>3. PICK g : g = Shifted(bits)  OBVIOUS
<1>4. g \in Seq(Clocks(bits)) /\ Len(g) = Bits /\ \A i \in 1 .. Bits : g[i] = Clk(bits[i], Bit(i = Bits))
  BY <1>3, ShiftedItems
<1>5. g \in Seq(S)
  <2>1. Clocks(bits) \subseteq S  OBVIOUS
  <2> QED  BY <1>4, <2>1
<1> HIDE DEF S
<1>6. PICK p : p = <<x, y, y>>  OBVIOUS
<1>7. p \in Seq(S) /\ Len(p) = 3 /\ p[1] = x /\ p[2] = y /\ p[3] = y
  BY <1>6, ThreeTuple
<1>8. PICK q : q = <<x, y>>  OBVIOUS
<1>9. q \in Seq(S) /\ Len(q) = 2 /\ q[1] = x /\ q[2] = y  BY <1>8, TwoTuple
<1>10. PICK s : s = p \o g \o q  OBVIOUS
<1>11. /\ s \in Seq(S) /\ Len(s) = Len(p) + Len(g) + Len(q)
       /\ \A i \in 1 .. Len(p) : s[i] = p[i]
       /\ \A i \in 1 .. Len(g) : s[Len(p) + i] = g[i]
       /\ \A i \in 1 .. Len(q) : s[Len(p) + Len(g) + i] = q[i]
  <2>1. p \in Seq(S) /\ q \in Seq(S)  BY <1>7, <1>9
  <2>2. Parts(s, S, p, g, q)  BY <1>5, <1>10, <2>1, ThreeJoined
  <2> QED  BY <2>2, Zenon DEF Parts
<1>12. JtagWriteDr(v) = s
  BY <1>2, <1>3, <1>6, <1>8, <1>10 DEF JtagWriteDr, ToIdle, bits
<1>13. s[1] = p[1] /\ s[2] = p[2] /\ s[3] = p[3]  BY <1>7, <1>11
<1>14. Len(s) = 5 + B  BY <1>1, <1>4, <1>7, <1>9, <1>11
<1>15. \A i \in 1 .. B : s[3 + i] = g[i]  BY <1>1, <1>4, <1>7, <1>11
<1>16. s[4 + B] = q[1] /\ s[5 + B] = q[2]
  <2>1. 3 + B + 1 = 4 + B /\ 3 + B + 2 = 5 + B  OBVIOUS
  <2>2. s[3 + B + 1] = q[1] /\ s[3 + B + 2] = q[2]  BY <1>1, <1>4, <1>7, <1>9, <1>11
  <2> QED  BY <2>1, <2>2, Zenon
<1>17. \A i \in 1 .. Bits : bits[i] = <<v, i>>  BY DEF bits, BitsOf
<1>19. \E T : s \in Seq(T)  BY <1>11
<1> QED
  BY <1>1, <1>2, <1>4, <1>19, <1>7, <1>9, <1>12, <1>13, <1>14, <1>15, <1>16, <1>17, Zenon

LEMMA DrItems ==
    ASSUME NEW v
    PROVE  LET s == JtagWriteDr(v)
           IN  /\ Len(s) = 5 + Bits
               /\ s[1] = Clk(Zero, 1) /\ s[2] = Clk(Zero, 0) /\ s[3] = Clk(Zero, 0)
               /\ \A i \in 1 .. Bits : s[3 + i] = Clk(<<v, i>>, Bit(i = Bits))
               /\ s[4 + Bits] = Clk(Zero, 1) /\ s[5 + Bits] = Clk(Zero, 0)
BY DrItemsIn, Zenon

LEMMA ReadItemsIn ==
    ASSUME NEW w
    PROVE  LET s == JtagReadDr(w)
           IN  /\ \E S : s \in Seq(S)
               /\ Len(s) = 8 + Bits
               /\ s[1] = Clk(Zero, 1) /\ s[2] = Clk(Zero, 0) /\ s[3] = Clk(Zero, 0) /\ s[4] = <<"sync">>
               /\ \A i \in 1 .. Bits : s[4 + i] = Clk(Zero, Bit(i = Bits))
               /\ s[5 + Bits] = <<"sync">> /\ s[6 + Bits] = <<"resp", w>>
               /\ s[7 + Bits] = Clk(Zero, 1) /\ s[8 + Bits] = Clk(Zero, 0)
<1> DEFINE bits == [i \in 1 .. Bits |-> Zero]
           S == Clocks(bits) \cup {Clk(Zero, 0), Clk(Zero, 1), <<"sync">>, <<"resp", w>>}
<1>1. PICK B \in Nat : B = Bits  BY BitsAssumption
<1>2. PICK x \in S, y \in S : x = Clk(Zero, 1) /\ y = Clk(Zero, 0)  OBVIOUS
<1> HIDE DEF bits
<1>3. PICK g : g = Shifted(bits)  OBVIOUS
<1>4. g \in Seq(Clocks(bits)) /\ Len(g) = Bits /\ \A i \in 1 .. Bits : g[i] = Clk(bits[i], Bit(i = Bits))
  BY <1>3, ShiftedItems
<1>18. PICK a \in S, b \in S : a = <<"sync">> /\ b = <<"resp", w>>
  <2>1. <<"sync">> \in S /\ <<"resp", w>> \in S  BY Zenon
  <2> QED  BY <2>1, Zenon
<1>5. g \in Seq(S)
  <2>1. Clocks(bits) \subseteq S  OBVIOUS
  <2> QED  BY <1>4, <2>1
<1> HIDE DEF S
<1>6. PICK p : p = <<x, y, y, a>>  OBVIOUS
<1>7. p \in Seq(S) /\ Len(p) = 4 /\ p[1] = x /\ p[2] = y /\ p[3] = y /\ p[4] = a
  BY <1>6, FourTuple
<1>8. PICK q : q = <<a, b>> \o <<x, y>>  OBVIOUS
<1>9. q \in Seq(S) /\ Len(q) = 4 /\ q[1] = a /\ q[2] = b /\ q[3] = x /\ q[4] = y
  <2>1. PICK d : d = <<a, b>>  OBVIOUS
  <2>2. PICK e : e = <<x, y>>  OBVIOUS
  <2>3. d \in Seq(S) /\ Len(d) = 2 /\ d[1] = a /\ d[2] = b  BY <2>1, TwoTuple
  <2>4. e \in Seq(S) /\ Len(e) = 2 /\ e[1] = x /\ e[2] = y  BY <2>2, TwoTuple
  <2>5. PICK n \in Nat : n = 2  OBVIOUS
  <2>6. /\ q \in Seq(S) /\ Len(q) = n + n
        /\ \A i \in 1 .. n : q[i] = d[i]
        /\ \A i \in 1 .. n : q[n + i] = e[i]
    BY <1>8, <2>1, <2>2, <2>3, <2>4, <2>5, Joined
  <2>7. q[1] = d[1] /\ q[2] = d[2] /\ q[n + 1] = e[1] /\ q[n + 2] = e[2]  BY <2>5, <2>6
  <2> QED  BY <2>3, <2>4, <2>5, <2>6, <2>7
<1>10. PICK s : s = p \o g \o q  OBVIOUS
<1>11. /\ s \in Seq(S) /\ Len(s) = Len(p) + Len(g) + Len(q)
       /\ \A i \in 1 .. Len(p) : s[i] = p[i]
       /\ \A i \in 1 .. Len(g) : s[Len(p) + i] = g[i]
       /\ \A i \in 1 .. Len(q) : s[Len(p) + Len(g) + i] = q[i]
  <2>1. p \in Seq(S) /\ q \in Seq(S)  BY <1>7, <1>9
  <2>2. Parts(s, S, p, g, q)  BY <1>5, <1>10, <2>1, ThreeJoined
  <2> QED  BY <2>2, Zenon DEF Parts
<1>12. JtagReadDr(w) = s
  <2>1. JtagReadDr(w) = p \o g \o <<a, b>> \o <<x, y>>
    BY <1>2, <1>3, <1>6, <1>18 DEF JtagReadDr, ToIdle, bits
  <2>2. PICK u : u = p \o g  OBVIOUS
  <2>3. u \in Seq(S)  BY <1>5, <1>7, <2>2
  <2>4. PICK d \in Seq(S), e \in Seq(S) : d = <<a, b>> /\ e = <<x, y>>  BY TwoTuple
  <2>5. (u \o d) \o e = u \o (d \o e)  BY <2>3
  <2> QED  BY <1>8, <1>10, <2>1, <2>2, <2>4, <2>5
<1>13. s[1] = p[1] /\ s[2] = p[2] /\ s[3] = p[3] /\ s[4] = p[4]
  BY <1>7, <1>11
<1>14. Len(s) = 8 + B  BY <1>1, <1>4, <1>7, <1>9, <1>11
<1>15. \A i \in 1 .. B : s[4 + i] = g[i]  BY <1>1, <1>4, <1>7, <1>11
<1>16. s[5 + B] = q[1] /\ s[6 + B] = q[2] /\ s[7 + B] = q[3] /\ s[8 + B] = q[4]
  <2>1. 4 + B + 1 = 5 + B /\ 4 + B + 2 = 6 + B /\ 4 + B + 3 = 7 + B /\ 4 + B + 4 = 8 + B  OBVIOUS
  <2>2. s[4 + B + 1] = q[1] /\ s[4 + B + 2] = q[2] /\ s[4 + B + 3] = q[3] /\ s[4 + B + 4] = q[4]
    BY <1>1, <1>4, <1>7, <1>9, <1>11
  <2> QED  BY <2>1, <2>2, Zenon
<1>17. \A i \in 1 .. Bits : bits[i] = Zero  BY DEF bits
<1>19. \E T : s \in Seq(T)  BY <1>11
<1> QED
  BY <1>1, <1>2, <1>4, <1>19, <1>7, <1>9, <1>12, <1>13, <1>14, <1>15, <1>16, <1>17, <1>18, Zenon

LEMMA ReadItems ==
    ASSUME NEW w
    PROVE  LET s == JtagReadDr(w)
           IN  /\ Len(s) = 8 + Bits
               /\ s[1] = Clk(Zero, 1) /\ s[2] = Clk(Zero, 0) /\ s[3] = Clk(Zero, 0) /\ s[4] = <<"sync">>
               /\ \A i \in 1 .. Bits : s[4 + i] = Clk(Zero, Bit(i = Bits))
               /\ s[5 + Bits] = <<"sync">> /\ s[6 + Bits] = <<"resp", w>>
               /\ s[7 + Bits] = Clk(Zero, 1) /\ s[8 + Bits] = Clk(Zero, 0)
BY ReadItemsIn, Zenon

-----------------------------------------------------------------------------
(* One clock.                                                                *)
States == {"TestLogicReset", "RunTestIdle", "SelectDR", "SelectIR", "CaptureDR", "ShiftDR", "Exit1DR",
           "PauseDR", "Exit2DR", "UpdateDR", "CaptureIR", "ShiftIR", "Exit1IR", "PauseIR", "Exit2IR",
           "UpdateIR"}
BitWords == Values \cup Instructions \cup {"busy", "idle"}
Cells == BitWords \X Nat
TapType(t) == /\ t.state \in States /\ t.reg \in Seq(Cells) /\ Len(t.reg) = Bits
              /\ t.tdo \in Seq(Cells)

LEMMA TapTable ==
    /\ TapNext("TestLogicReset", 0) = "RunTestIdle" /\ TapNext("TestLogicReset", 1) = "TestLogicReset"
    /\ TapNext("RunTestIdle", 0) = "RunTestIdle" /\ TapNext("RunTestIdle", 1) = "SelectDR"
    /\ TapNext("UpdateDR", 0) = "RunTestIdle" /\ TapNext("UpdateDR", 1) = "SelectDR"
    /\ TapNext("UpdateIR", 0) = "RunTestIdle" /\ TapNext("UpdateIR", 1) = "SelectDR"
    /\ TapNext("SelectDR", 0) = "CaptureDR" /\ TapNext("SelectDR", 1) = "SelectIR"
    /\ TapNext("SelectIR", 0) = "CaptureIR" /\ TapNext("SelectIR", 1) = "TestLogicReset"
    /\ TapNext("CaptureDR", 0) = "ShiftDR" /\ TapNext("CaptureDR", 1) = "Exit1DR"
    /\ TapNext("ShiftDR", 0) = "ShiftDR" /\ TapNext("ShiftDR", 1) = "Exit1DR"
    /\ TapNext("CaptureIR", 0) = "ShiftIR" /\ TapNext("CaptureIR", 1) = "Exit1IR"
    /\ TapNext("ShiftIR", 0) = "ShiftIR" /\ TapNext("ShiftIR", 1) = "Exit1IR"
    /\ TapNext("Exit1DR", 0) = "PauseDR" /\ TapNext("Exit1DR", 1) = "UpdateDR"
    /\ TapNext("Exit1IR", 0) = "PauseIR" /\ TapNext("Exit1IR", 1) = "UpdateIR"
    /\ TapNext("PauseDR", 0) = "PauseDR" /\ TapNext("PauseDR", 1) = "Exit2DR"
    /\ TapNext("PauseIR", 0) = "PauseIR" /\ TapNext("PauseIR", 1) = "Exit2IR"
    /\ TapNext("Exit2DR", 0) = "ShiftDR" /\ TapNext("Exit2DR", 1) = "UpdateDR"
    /\ TapNext("Exit2IR", 0) = "ShiftIR" /\ TapNext("Exit2IR", 1) = "UpdateIR"
BY DEF TapNext

LEMMA TapStates == ASSUME NEW s \in States, NEW tms \in {0, 1} PROVE TapNext(s, tms) \in States
BY TapTable DEF States

Clocked(t, f, tdi, tms, t2, f2) ==
    /\ t2.state = TapNext(t.state, tms)
    /\ t.state \in {"ShiftDR", "ShiftIR"} => t2.reg = Append(Tail(t.reg), tdi)
    /\ t.state = "CaptureDR" => \E v \in ReadsAs(f, t.ir) : t2.reg = BitsOf(v)
    /\ t.state = "CaptureIR" => t2.reg = BitsOf(Junk)
    /\ t.state \notin {"ShiftDR", "ShiftIR", "CaptureDR", "CaptureIR"} => t2.reg = t.reg
    /\ t2.tdo = Append(t.tdo, IF t.state = "ShiftDR" THEN Head(t.reg) ELSE <<Junk, 0>>)
    /\ t2.state = "UpdateIR" => t2.ir = ValueOf(t2.reg) /\ f2 = UpdateIR(f, t2.ir)
    /\ t2.state # "UpdateIR" => t2.ir = t.ir
    /\ t2.state = "UpdateDR" => \E w : /\ w = ValueOf(t2.reg) \/ (w = "flawed" /\ t.ir \in Writing)
                                       /\ f2 = UpdateDR(f, t.ir, w)
    /\ t2.state \notin {"UpdateIR", "UpdateDR"} => f2 = f

(* Shifting a register.                                                      *)
LEMMA TailAppend ==
    ASSUME NEW S, NEW s \in Seq(S), s # <<>>, NEW x \in S
    PROVE  /\ Append(Tail(s), x) \in Seq(S) /\ Len(Append(Tail(s), x)) = Len(s)
           /\ Append(Tail(s), x)[Len(s)] = x
           /\ \A n \in 1 .. Len(s) - 1 : Append(Tail(s), x)[n] = s[n + 1]
           /\ Head(s) = s[1] /\ Head(s) \in S
<1>1. PICK u : u = Tail(s)  OBVIOUS
<1>2. u \in Seq(S) /\ Len(u) = Len(s) - 1 /\ Len(s) \in Nat \ {0} /\ \A n \in 1 .. Len(s) - 1 : u[n] = s[n + 1]
  BY <1>1, TailShape
<1>3. PICK y : y = Append(u, x)  OBVIOUS
<1>4. y \in Seq(S) /\ Len(y) = Len(u) + 1 /\ y[Len(u) + 1] = x /\ \A n \in 1 .. Len(u) : y[n] = u[n]
  <2>1. u \in Seq(S)  BY <1>2
  <2> QED  BY <1>3, <2>1, AppendShape
<1>5. Head(s) = s[1] /\ s[1] \in S  BY <1>2
<1>6. PICK n \in Nat \ {0} : n = Len(s)  BY <1>2
<1>7. (n - 1) + 1 = n  OBVIOUS
<1>8. Len(y) = n /\ y[n] = x  BY <1>2, <1>4, <1>6, <1>7
<1>9. \A i \in 1 .. n - 1 : y[i] = s[i + 1]  BY <1>2, <1>4, <1>6
<1> QED  BY <1>1, <1>3, <1>4, <1>5, <1>6, <1>8, <1>9

LEMMA ShiftStep ==
    ASSUME NEW reg \in Seq(Cells), Len(reg) = Bits, NEW x \in Cells, NEW new, new = Append(Tail(reg), x)
    PROVE  /\ new \in Seq(Cells) /\ Len(new) = Bits /\ new[Bits] = x
           /\ \A n \in 1 .. Bits - 1 : new[n] = reg[n + 1]
           /\ Head(reg) = reg[1] /\ Head(reg) \in Cells
<1>1. reg # <<>>  BY BitsAssumption
<1>2. /\ Append(Tail(reg), x) \in Seq(Cells) /\ Len(Append(Tail(reg), x)) = Len(reg)
      /\ Append(Tail(reg), x)[Len(reg)] = x
      /\ \A n \in 1 .. Len(reg) - 1 : Append(Tail(reg), x)[n] = reg[n + 1]
      /\ Head(reg) = reg[1] /\ Head(reg) \in Cells
  BY <1>1, TailAppend
<1> QED  BY <1>2

LEMMA ShiftIn ==
    ASSUME NEW reg \in Seq(Cells), Len(reg) = Bits, NEW v, NEW i \in 0 .. Bits - 1,
           ShiftedIn(reg, v, i), <<v, i + 1>> \in Cells,
           NEW new, new = Append(Tail(reg), <<v, i + 1>>)
    PROVE  ShiftedIn(new, v, i + 1)
<1>1. PICK B \in Nat \ {0} : B = Bits  BY BitsAssumption
<1>2. PICK x \in Cells : x = <<v, i + 1>>  OBVIOUS
<1>3. new[B] = x /\ \A n \in 1 .. B - 1 : new[n] = reg[n + 1]
  <2>1. new = Append(Tail(reg), x)  BY <1>2
  <2> QED  BY <1>1, <2>1, ShiftStep
<1>4. \A n \in 1 .. i : reg[B - i + n] = <<v, n>>  BY <1>1 DEF ShiftedIn
<1>5. \A n \in 1 .. i + 1 : new[B - (i + 1) + n] = <<v, n>>
  <2> SUFFICES ASSUME NEW n \in 1 .. i + 1 PROVE new[B - (i + 1) + n] = <<v, n>>  OBVIOUS
  <2>1. CASE n = i + 1
    <3>1. B - (i + 1) + n = B  BY <1>1, <2>1
    <3> QED  BY <1>2, <1>3, <2>1, <3>1, Zenon
  <2>2. CASE n # i + 1
    <3>1. PICK l \in Nat : l = B - (i + 1) + n  BY <1>1
    <3>2. l \in 1 .. B - 1 /\ l + 1 = B - i + n /\ n \in 1 .. i  BY <1>1, <2>2, <3>1
    <3>3. new[l] = reg[l + 1]  BY <1>3, <3>2
    <3> QED  BY <1>4, <3>1, <3>2, <3>3, Zenon
  <2> QED  BY <2>1, <2>2
<1> QED  BY <1>1, <1>5 DEF ShiftedIn

LEMMA ShiftOut ==
    ASSUME NEW reg \in Seq(Cells), Len(reg) = Bits, NEW v, NEW i \in 0 .. Bits - 1,
           ShiftedOut(reg, v, i), NEW x \in Cells, NEW new, new = Append(Tail(reg), x)
    PROVE  ShiftedOut(new, v, i + 1) /\ Head(reg) = <<v, i + 1>>
<1>1. PICK B \in Nat \ {0} : B = Bits  BY BitsAssumption
<1>2. (\A n \in 1 .. B - 1 : new[n] = reg[n + 1]) /\ Head(reg) = reg[1]
  BY <1>1, ShiftStep
<1>3. \A n \in 1 .. B - i : reg[n] = <<v, n + i>>  BY <1>1 DEF ShiftedOut
<1>4. Head(reg) = <<v, i + 1>>
  <2>1. 1 \in 1 .. B - i /\ 1 + i = i + 1  BY <1>1
  <2> QED  BY <1>2, <1>3, <2>1, Zenon
<1>5. \A n \in 1 .. B - (i + 1) : new[n] = <<v, n + (i + 1)>>
  <2> SUFFICES ASSUME NEW n \in 1 .. B - (i + 1) PROVE new[n] = <<v, n + (i + 1)>>  OBVIOUS
  <2>1. n \in 1 .. B - 1 /\ n + 1 \in 1 .. B - i /\ (n + 1) + i = n + (i + 1)  BY <1>1
  <2> QED  BY <1>2, <1>3, <2>1, Zenon
<1> QED  BY <1>1, <1>4, <1>5 DEF ShiftedOut

LEMMA WholeValue ==
    ASSUME NEW reg \in Seq(Cells), Len(reg) = Bits, NEW v, \A n \in 1 .. Bits : reg[n] = <<v, n>>
    PROVE  ValueOf(reg) = v
<1>1. PICK B \in Nat \ {0} : B = Bits  BY BitsAssumption
<1>2. DOMAIN reg = 1 .. Bits  OBVIOUS
<1>3. reg = BitsOf(v)
  <2>1. reg = [n \in 1 .. Bits |-> reg[n]]  BY <1>2
  <2> QED  BY <2>1, Zenon DEF BitsOf
<1>4. reg[1] = <<v, 1>> /\ 1 \in DOMAIN reg  BY <1>1, <1>2
<1>5. reg[1][1] = v  BY <1>4
<1>6. \E x \in {reg[i][1] : i \in DOMAIN reg} : reg = BitsOf(x)  BY <1>3, <1>4, <1>5
<1> QED  BY <1>5, <1>6 DEF ValueOf

LEMMA MildValue ==
    ASSUME NEW reg, \A n \in 1 .. Bits : reg[n][1] \in Mild
    PROVE  ValueOf(reg) \in Mild
<1>1. Junk \in Mild  BY DEF Mild
<1>2. 1 \in 1 .. Bits  BY BitsAssumption
<1> QED  BY <1>1, <1>2 DEF ValueOf

LEMMA BitsType ==
    ASSUME NEW v \in BitWords
    PROVE  BitsOf(v) \in Seq(Cells) /\ Len(BitsOf(v)) = Bits /\ \A n \in 1 .. Bits : BitsOf(v)[n] = <<v, n>>
<1>1. PICK B \in Nat : B = Bits  BY BitsAssumption
<1>2. PICK g : g = BitsOf(v)  OBVIOUS
<1>3. g \in [1 .. Bits -> Cells]  BY <1>1, <1>2 DEF BitsOf, Cells
<1>4. g \in Seq(Cells) /\ Len(g) = Bits  BY <1>1, <1>3, FunctionIsSeq
<1>5. \A n \in 1 .. Bits : g[n] = <<v, n>>  BY <1>2 DEF BitsOf
<1> QED  BY <1>2, <1>4, <1>5

LEMMA ReadWords == ASSUME NEW f \in Fpgas, NEW ir PROVE ReadsAs(f, ir) \subseteq BitWords
<1>1. PICK R \in Nat : R = Rows  BY RowsType
<1>2. f.flash \in [1 .. Rows + 2 -> Contents] /\ f.addr \in Nat \ {0}  BY FpgaFields
<1>3. Feature \in 1 .. Rows + 2 /\ Feabits \in 1 .. Rows + 2  BY <1>1 DEF Feature, Feabits
<1>4. f.addr <= Rows => f.addr \in 1 .. Rows + 2  BY <1>1, <1>2
<1>5. /\ f.flash[Feature] \in BitWords /\ f.flash[Feabits] \in BitWords
      /\ f.addr <= Rows => f.flash[f.addr] \in BitWords
  BY <1>2, <1>3, <1>4 DEF BitWords, Values
<1>6. /\ "busy" \in BitWords /\ "idle" \in BitWords /\ "ok" \in BitWords /\ "fail" \in BitWords /\ Junk \in BitWords
  BY DEF BitWords, Values, Mild
<1>7. \A b \in {"busy", "idle"}, s \in {"ok", "fail"} : Captured(f, ir, b, s) \in BitWords
  <2> SUFFICES ASSUME NEW b \in {"busy", "idle"}, NEW s \in {"ok", "fail"}
               PROVE  Captured(f, ir, b, s) \in BitWords
    OBVIOUS
  <2>1. b \in BitWords /\ s \in BitWords  BY <1>6
  <2> QED  BY <1>5, <1>6, <2>1 DEF Captured
<1> QED  BY <1>7 DEF ReadsAs

(* Every clock keeps the registers in shape.                                 *)
LEMMA TypeStep ==
    ASSUME NEW t, NEW f \in Fpgas, NEW tdi \in Cells, NEW tms \in {0, 1}, NEW t2, NEW f2,
           TapType(t), Clocked(t, f, tdi, tms, t2, f2)
    PROVE  TapType(t2) /\ Len(t2.tdo) = Len(t.tdo) + 1
<1>1. t.state \in States /\ t.reg \in Seq(Cells) /\ Len(t.reg) = Bits /\ t.tdo \in Seq(Cells)
  BY DEF TapType
<1>2. t2.state \in States  BY <1>1, TapStates DEF Clocked
<1>3. PICK r \in Seq(Cells) : r = t.reg /\ Len(r) = Bits  BY <1>1
<1>4. Head(r) \in Cells  BY <1>3, ShiftStep
<1>5. t2.reg \in Seq(Cells) /\ Len(t2.reg) = Bits
  <2>1. CASE t.state \in {"ShiftDR", "ShiftIR"}
    <3>1. t2.reg = Append(Tail(r), tdi)  BY <1>3, <2>1, Zenon DEF Clocked
    <3> QED  BY <1>3, <3>1, ShiftStep
  <2>2. CASE t.state = "CaptureDR"
    <3>1. PICK v \in ReadsAs(f, t.ir) : t2.reg = BitsOf(v)  BY <2>2, Zenon DEF Clocked
    <3>2. v \in BitWords  BY ReadWords
    <3> QED  BY <3>1, <3>2, BitsType
  <2>3. CASE t.state = "CaptureIR"
    <3>1. t2.reg = BitsOf(Junk)  BY <2>3, Zenon DEF Clocked
    <3>2. Junk \in BitWords  BY DEF BitWords, Values, Mild
    <3> QED  BY <3>1, <3>2, BitsType
  <2>4. CASE t.state \notin {"ShiftDR", "ShiftIR", "CaptureDR", "CaptureIR"}
    <3>1. t2.reg = t.reg  BY <2>4, Zenon DEF Clocked
    <3> QED  BY <1>1, <3>1
  <2> QED  BY <2>1, <2>2, <2>3, <2>4
<1>6. t2.tdo \in Seq(Cells) /\ Len(t2.tdo) = Len(t.tdo) + 1
  <2>1. <<Junk, 0>> \in Cells
    <3>1. Junk \in BitWords  BY DEF BitWords, Values, Mild
    <3> QED  BY <3>1 DEF Cells
  <2>2. PICK x \in Cells : t2.tdo = Append(t.tdo, x)
    <3>1. CASE t.state = "ShiftDR"
      <4>1. t2.tdo = Append(t.tdo, Head(r))  BY <1>3, <3>1 DEF Clocked
      <4> QED  BY <1>4, <4>1
    <3>2. CASE t.state # "ShiftDR"
      <4>1. t2.tdo = Append(t.tdo, <<Junk, 0>>)  BY <3>2 DEF Clocked
      <4> QED  BY <2>1, <4>1
    <3> QED  BY <3>1, <3>2
  <2> QED  BY <1>1, <2>2
<1> QED  BY <1>2, <1>5, <1>6 DEF TapType

(* A clock of jtag_write_ir.                                                 *)
LEMMA ClkParts == ASSUME NEW a, NEW b, NEW c, NEW d, Clk(a, b) = Clk(c, d) PROVE a = c /\ b = d
BY DEF Clk

LEMMA Quiet ==
    ASSUME NEW t, NEW f, NEW tdi, NEW tms, NEW t2, NEW f2, Clocked(t, f, tdi, tms, t2, f2),
           t2.state \notin {"UpdateIR", "UpdateDR"}
    PROVE  t2.ir = t.ir /\ f2 = f
<1>1. t2.state # "UpdateIR"  OBVIOUS
<1> QED  BY <1>1, Zenon DEF Clocked

LEMMA IrClock ==
    ASSUME NEW m \in JtagModes, NEW k \in 3 .. Len(Ops(m)), NEW c \in Instructions, Ops(m)[k] = Ir(c),
           NEW j \in 1 .. 6 + Bits, NEW t, NEW f, NEW tdi, NEW tms, NEW t2, NEW f2,
           TapType(t), IrState(j, t.state), IrData(m, k, j, t, f),
           JtagWriteIr(c)[j] = Clk(tdi, tms), Clocked(t, f, tdi, tms, t2, f2)
    PROVE  /\ j < 6 + Bits => IrState(j + 1, t2.state) /\ IrData(m, k, j + 1, t2, f2)
           /\ j = 6 + Bits => t2.state = "RunTestIdle" /\ Known(m, k + 1, t2.ir, f2)
<1>1. PICK B \in Nat \ {0} : B = Bits  BY BitsAssumption
<1>2. Ops(m)[k][2] = c  BY DEF Ir
<1>3. t2.state = TapNext(t.state, tms)  BY Zenon DEF Clocked
<1>4. t.reg \in Seq(Cells) /\ Len(t.reg) = Bits  BY Zenon DEF TapType
<1>5. PICK s : s = JtagWriteIr(c)  OBVIOUS
<1>11. /\ s[1] = Clk(Zero, 1) /\ s[2] = Clk(Zero, 1) /\ s[3] = Clk(Zero, 0) /\ s[4] = Clk(Zero, 0)
       /\ \A i \in 1 .. Bits : s[4 + i] = Clk(<<c, i>>, Bit(i = Bits))
       /\ s[5 + Bits] = Clk(Zero, 1) /\ s[6 + Bits] = Clk(Zero, 0)
  BY <1>5, IrItems, Zenon
<1>12. \A a, b : s[j] = Clk(a, b) => tdi = a /\ tms = b  BY <1>5, ClkParts, Zenon
<1>6. CASE j <= 4
  <2>1. Known(m, k, t.ir, f)
    <3>1. j # 6 + Bits  BY <1>1, <1>6
    <3> QED  BY <3>1, Zenon DEF IrData
  <2>2. \/ j = 1 /\ t2.state = "SelectDR"
        \/ j = 2 /\ t2.state = "SelectIR"
        \/ j = 3 /\ t2.state = "CaptureIR"
        \/ j = 4 /\ t2.state = "ShiftIR"
    <3>1. CASE j = 1
      <4>1. t.state = "RunTestIdle"  BY <3>1, Zenon DEF IrState
      <4>2. tms = 1  BY <1>11, <1>12, <3>1
      <4> QED  BY <1>3, <3>1, <4>1, <4>2, TapTable, Zenon
    <3>2. CASE j = 2
      <4>1. t.state = "SelectDR"  BY <3>2, Zenon DEF IrState
      <4>2. tms = 1  BY <1>11, <1>12, <3>2
      <4> QED  BY <1>3, <3>2, <4>1, <4>2, TapTable, Zenon
    <3>3. CASE j = 3
      <4>1. t.state = "SelectIR"  BY <3>3, Zenon DEF IrState
      <4>2. tms = 0  BY <1>11, <1>12, <3>3
      <4> QED  BY <1>3, <3>3, <4>1, <4>2, TapTable, Zenon
    <3>4. CASE j = 4
      <4>1. t.state = "CaptureIR"  BY <3>4, Zenon DEF IrState
      <4>2. tms = 0  BY <1>11, <1>12, <3>4
      <4> QED  BY <1>3, <3>4, <4>1, <4>2, TapTable, Zenon
    <3>5. j = 1 \/ j = 2 \/ j = 3 \/ j = 4  BY <1>1, <1>6
    <3> QED  BY <3>1, <3>2, <3>3, <3>4, <3>5
  <2>3. IrState(j + 1, t2.state)  BY <1>1, <2>2 DEF IrState
  <2>4. t2.ir = t.ir /\ f2 = f
    <3>1. t2.state \notin {"UpdateIR", "UpdateDR"}  BY <2>2
    <3> QED  BY <3>1, Quiet
  <2>5. ShiftedIn(t2.reg, c, 0)  BY DEF ShiftedIn
  <2>6. IrData(m, k, j + 1, t2, f2)
    <3>1. j + 1 # 6 + Bits /\ (j + 1 \in 5 .. 5 + Bits => (j + 1) - 5 = 0)  BY <1>1, <1>6
    <3> QED  BY <1>2, <2>1, <2>4, <2>5, <3>1, Zenon DEF IrData
  <2>7. j # 6 + Bits  BY <1>1, <1>6
  <2> QED  BY <2>3, <2>6, <2>7
<1>7. CASE j \in 5 .. 4 + Bits
  <2>1. Known(m, k, t.ir, f) /\ ShiftedIn(t.reg, c, j - 5)
    <3>1. j # 6 + Bits /\ j \in 5 .. 5 + Bits  BY <1>1, <1>7
    <3> QED  BY <1>2, <3>1, Zenon DEF IrData
  <2>2. t.state = "ShiftIR"  BY <1>7, Zenon DEF IrState
  <2>3. PICK i \in 1 .. Bits : i = j - 4 /\ j = 4 + i  BY <1>1, <1>7
  <2>4. tdi = <<c, i>> /\ tms = Bit(i = Bits)
    <3>1. s[j] = Clk(<<c, i>>, Bit(i = Bits))  BY <1>11, <2>3, ZenonT(40)
    <3> QED  BY <1>12, <3>1, ZenonT(40)
  <2>5. /\ i = Bits => t2.state = "Exit1IR"
        /\ i # Bits => t2.state = "ShiftIR"
    BY <1>3, <2>2, <2>4, TapTable DEF Bit
  <2>6. IrState(j + 1, t2.state)  BY <1>1, <2>3, <2>5 DEF IrState
  <2>7. t2.ir = t.ir /\ f2 = f
    <3>1. t2.state \notin {"UpdateIR", "UpdateDR"}  BY <2>5
    <3> QED  BY <3>1, Quiet
  <2>8. ShiftedIn(t2.reg, c, i)
    <3>1. PICK l \in 0 .. Bits - 1 : l = j - 5 /\ l + 1 = i  BY <1>1, <2>3
    <3>2. tdi = <<c, l + 1>>  BY <2>4, <3>1
    <3>3. <<c, l + 1>> \in Cells
      <4>1. c \in BitWords /\ l + 1 \in Nat  BY <1>1 DEF BitWords
      <4> QED  BY <4>1 DEF Cells
    <3>4. t2.reg = Append(Tail(t.reg), <<c, l + 1>>)  BY <2>2, <3>2 DEF Clocked
    <3>5. ShiftedIn(t.reg, c, l)  BY <2>1, <3>1
    <3>6. ShiftedIn(t2.reg, c, l + 1)  BY <1>4, <3>3, <3>4, <3>5, ShiftIn
    <3> QED  BY <3>1, <3>6
  <2>9. IrData(m, k, j + 1, t2, f2)
    <3>1. j + 1 # 6 + Bits /\ (j + 1) - 5 = i  BY <1>1, <2>3
    <3> QED  BY <1>2, <2>1, <2>7, <2>8, <3>1, Zenon DEF IrData
  <2>10. j # 6 + Bits  BY <1>1, <1>7
  <2> QED  BY <2>6, <2>9, <2>10
<1>8. CASE j = 5 + Bits
  <2>1. Known(m, k, t.ir, f) /\ ShiftedIn(t.reg, c, Bits)
    <3>1. j # 6 + Bits /\ j \in 5 .. 5 + Bits /\ j - 5 = Bits  BY <1>1, <1>8
    <3> QED  BY <1>2, <3>1, Zenon DEF IrData
  <2>2. t.state = "Exit1IR" /\ tms = 1
    <3>1. t.state = "Exit1IR"  BY <1>8, Zenon DEF IrState
    <3>2. tms = 1  BY <1>11, <1>12, <1>8
    <3> QED  BY <3>1, <3>2
  <2>3. t2.state = "UpdateIR"  BY <1>3, <2>2, TapTable, Zenon
  <2>4. t2.reg = t.reg  BY <2>2 DEF Clocked
  <2>5. ValueOf(t.reg) = c
    <3>1. \A n \in 1 .. Bits : t.reg[n] = <<c, n>>
      <4>1. \A n \in 1 .. Bits : Bits - Bits + n = n  BY <1>1
      <4> QED  BY <2>1, <4>1 DEF ShiftedIn
    <3> QED  BY <1>4, <3>1, WholeValue
  <2>6. t2.ir = c /\ f2 = UpdateIR(f, c)
    <3>1. t2.ir = ValueOf(t2.reg) /\ f2 = UpdateIR(f, t2.ir)  BY <2>3, Zenon DEF Clocked
    <3> QED  BY <2>4, <2>5, <3>1
  <2>7. Known(m, k + 1, t2.ir, f2)  BY <2>1, <2>6, IrStep
  <2>8. IrState(j + 1, t2.state)  BY <1>1, <1>8, <2>3 DEF IrState
  <2>9. IrData(m, k, j + 1, t2, f2)
    <3>1. j + 1 = 6 + Bits /\ j + 1 \notin 5 .. 5 + Bits  BY <1>1, <1>8
    <3> QED  BY <2>7, <3>1, Zenon DEF IrData
  <2>10. j # 6 + Bits  BY <1>1, <1>8
  <2> QED  BY <2>8, <2>9, <2>10
<1>9. CASE j = 6 + Bits
  <2>1. Known(m, k + 1, t.ir, f)  BY <1>9, Zenon DEF IrData
  <2>2. t.state = "UpdateIR"  BY <1>9, Zenon DEF IrState
  <2>3. tms = 0  BY <1>11, <1>12, <1>9
  <2>4. t2.state = "RunTestIdle"  BY <1>3, <2>2, <2>3, TapTable, Zenon
  <2>5. t2.ir = t.ir /\ f2 = f
    <3>1. t2.state \notin {"UpdateIR", "UpdateDR"}  BY <2>4
    <3> QED  BY <3>1, Quiet
  <2>6. ~(j < 6 + Bits)  BY <1>1, <1>9
  <2> QED  BY <2>1, <2>4, <2>5, <2>6
<1>10. j <= 4 \/ j \in 5 .. 4 + Bits \/ j = 5 + Bits \/ j = 6 + Bits  BY <1>1
<1> QED  BY <1>6, <1>7, <1>8, <1>9, <1>10

(* A clock of jtag_write_dr.                                                 *)
LEMMA DrClock ==
    ASSUME NEW m \in JtagModes, NEW k \in 3 .. Len(Ops(m)), NEW v \in Values, Ops(m)[k] = Dr(v),
           NEW j \in 1 .. 5 + Bits, NEW t, NEW f, NEW tdi, NEW tms, NEW t2, NEW f2,
           TapType(t), DrState(j, t.state), DrData(m, k, j, t, f),
           JtagWriteDr(v)[j] = Clk(tdi, tms), Clocked(t, f, tdi, tms, t2, f2)
    PROVE  /\ j < 5 + Bits => DrState(j + 1, t2.state) /\ DrData(m, k, j + 1, t2, f2)
           /\ j = 5 + Bits => t2.state = "RunTestIdle" /\ Known(m, k + 1, t2.ir, f2)
<1>1. PICK B \in Nat \ {0} : B = Bits  BY BitsAssumption
<1>2. Ops(m)[k][2] = v  BY DEF Dr
<1>3. t2.state = TapNext(t.state, tms)  BY Zenon DEF Clocked
<1>4. t.reg \in Seq(Cells) /\ Len(t.reg) = Bits  BY Zenon DEF TapType
<1>5. PICK s : s = JtagWriteDr(v)  OBVIOUS
<1>6. /\ s[1] = Clk(Zero, 1) /\ s[2] = Clk(Zero, 0) /\ s[3] = Clk(Zero, 0)
      /\ \A i \in 1 .. Bits : s[3 + i] = Clk(<<v, i>>, Bit(i = Bits))
      /\ s[4 + Bits] = Clk(Zero, 1) /\ s[5 + Bits] = Clk(Zero, 0)
  BY <1>5, DrItems, Zenon
<1>7. \A a, b : s[j] = Clk(a, b) => tdi = a /\ tms = b  BY <1>5, ClkParts, Zenon
<1>8. CASE j <= 3
  <2>1. Known(m, k, t.ir, f)
    <3>1. j # 5 + Bits  BY <1>1, <1>8
    <3> QED  BY <3>1, Zenon DEF DrData
  <2>2. \/ j = 1 /\ t2.state = "SelectDR"
        \/ j = 2 /\ t2.state = "CaptureDR"
        \/ j = 3 /\ t2.state = "ShiftDR"
    <3>1. CASE j = 1
      <4>1. t.state = "RunTestIdle"  BY <3>1, Zenon DEF DrState
      <4>2. tms = 1  BY <1>6, <1>7, <3>1
      <4> QED  BY <1>3, <3>1, <4>1, <4>2, TapTable, Zenon
    <3>2. CASE j = 2
      <4>1. t.state = "SelectDR"  BY <3>2, Zenon DEF DrState
      <4>2. tms = 0  BY <1>6, <1>7, <3>2
      <4> QED  BY <1>3, <3>2, <4>1, <4>2, TapTable, Zenon
    <3>3. CASE j = 3
      <4>1. t.state = "CaptureDR"  BY <3>3, Zenon DEF DrState
      <4>2. tms = 0  BY <1>6, <1>7, <3>3
      <4> QED  BY <1>3, <3>3, <4>1, <4>2, TapTable, Zenon
    <3>4. j = 1 \/ j = 2 \/ j = 3  BY <1>1, <1>8
    <3> QED  BY <3>1, <3>2, <3>3, <3>4
  <2>3. DrState(j + 1, t2.state)  BY <1>1, <2>2 DEF DrState
  <2>4. t2.ir = t.ir /\ f2 = f
    <3>1. t2.state \notin {"UpdateIR", "UpdateDR"}  BY <2>2
    <3> QED  BY <3>1, Quiet
  <2>5. ShiftedIn(t2.reg, v, 0)  BY DEF ShiftedIn
  <2>6. DrData(m, k, j + 1, t2, f2)
    <3>1. j + 1 # 5 + Bits /\ (j + 1 \in 4 .. 4 + Bits => (j + 1) - 4 = 0)  BY <1>1, <1>8
    <3> QED  BY <1>2, <2>1, <2>4, <2>5, <3>1, Zenon DEF DrData
  <2>7. j # 5 + Bits  BY <1>1, <1>8
  <2> QED  BY <2>3, <2>6, <2>7
<1>9. CASE j \in 4 .. 3 + Bits
  <2>1. Known(m, k, t.ir, f) /\ ShiftedIn(t.reg, v, j - 4)
    <3>1. j # 5 + Bits /\ j \in 4 .. 4 + Bits  BY <1>1, <1>9
    <3> QED  BY <1>2, <3>1, Zenon DEF DrData
  <2>2. t.state = "ShiftDR"  BY <1>9, Zenon DEF DrState
  <2>3. PICK i \in 1 .. Bits : i = j - 3 /\ j = 3 + i  BY <1>1, <1>9
  <2>4. tdi = <<v, i>> /\ tms = Bit(i = Bits)
    <3>1. s[j] = Clk(<<v, i>>, Bit(i = Bits))  BY <1>6, <2>3, ZenonT(40)
    <3> QED  BY <1>7, <3>1, ZenonT(40)
  <2>5. /\ i = Bits => t2.state = "Exit1DR"
        /\ i # Bits => t2.state = "ShiftDR"
    BY <1>3, <2>2, <2>4, TapTable DEF Bit
  <2>6. DrState(j + 1, t2.state)  BY <1>1, <2>3, <2>5 DEF DrState
  <2>7. t2.ir = t.ir /\ f2 = f
    <3>1. t2.state \notin {"UpdateIR", "UpdateDR"}  BY <2>5
    <3> QED  BY <3>1, Quiet
  <2>8. ShiftedIn(t2.reg, v, i)
    <3>1. PICK l \in 0 .. Bits - 1 : l = j - 4 /\ l + 1 = i  BY <1>1, <2>3
    <3>2. tdi = <<v, l + 1>>  BY <2>4, <3>1
    <3>3. <<v, l + 1>> \in Cells
      <4>1. v \in BitWords /\ l + 1 \in Nat  BY <1>1 DEF BitWords
      <4> QED  BY <4>1 DEF Cells
    <3>4. t2.reg = Append(Tail(t.reg), <<v, l + 1>>)  BY <2>2, <3>2 DEF Clocked
    <3>5. ShiftedIn(t.reg, v, l)  BY <2>1, <3>1
    <3>6. ShiftedIn(t2.reg, v, l + 1)  BY <1>4, <3>3, <3>4, <3>5, ShiftIn
    <3> QED  BY <3>1, <3>6
  <2>9. DrData(m, k, j + 1, t2, f2)
    <3>1. j + 1 # 5 + Bits /\ (j + 1) - 4 = i  BY <1>1, <2>3
    <3> QED  BY <1>2, <2>1, <2>7, <2>8, <3>1, Zenon DEF DrData
  <2>10. j # 5 + Bits  BY <1>1, <1>9
  <2> QED  BY <2>6, <2>9, <2>10
<1>10. CASE j = 4 + Bits
  <2>1. Known(m, k, t.ir, f) /\ ShiftedIn(t.reg, v, Bits)
    <3>1. j # 5 + Bits /\ j \in 4 .. 4 + Bits /\ j - 4 = Bits  BY <1>1, <1>10
    <3> QED  BY <1>2, <3>1, Zenon DEF DrData
  <2>2. t.state = "Exit1DR" /\ tms = 1
    <3>1. t.state = "Exit1DR"  BY <1>10, Zenon DEF DrState
    <3>2. tms = 1  BY <1>6, <1>7, <1>10
    <3> QED  BY <3>1, <3>2
  <2>3. t2.state = "UpdateDR" /\ t2.state # "UpdateIR"  BY <1>3, <2>2, TapTable
  <2>4. t2.reg = t.reg  BY <2>2 DEF Clocked
  <2>5. ValueOf(t.reg) = v
    <3>1. \A n \in 1 .. Bits : t.reg[n] = <<v, n>>
      <4>1. \A n \in 1 .. Bits : Bits - Bits + n = n  BY <1>1
      <4> QED  BY <2>1, <4>1 DEF ShiftedIn
    <3> QED  BY <1>4, <3>1, WholeValue
  <2>6. t2.ir = t.ir  BY <2>3, Zenon DEF Clocked
  <2>7. PICK w : /\ w = ValueOf(t2.reg) \/ (w = "flawed" /\ t.ir \in Writing)
                 /\ f2 = UpdateDR(f, t.ir, w)
    BY <2>3, Zenon DEF Clocked
  <2>8. w = v \/ (w = "flawed" /\ t.ir \in Writing)  BY <2>4, <2>5, <2>7
  <2>9. Known(m, k + 1, t2.ir, f2)  BY <2>1, <2>6, <2>7, <2>8, DrStep
  <2>10. DrState(j + 1, t2.state)  BY <1>1, <1>10, <2>3 DEF DrState
  <2>11. DrData(m, k, j + 1, t2, f2)
    <3>1. j + 1 = 5 + Bits /\ j + 1 \notin 4 .. 4 + Bits  BY <1>1, <1>10
    <3> QED  BY <2>9, <3>1, Zenon DEF DrData
  <2>12. j # 5 + Bits  BY <1>1, <1>10
  <2> QED  BY <2>10, <2>11, <2>12
<1>11. CASE j = 5 + Bits
  <2>1. Known(m, k + 1, t.ir, f)  BY <1>11, Zenon DEF DrData
  <2>2. t.state = "UpdateDR"  BY <1>11, Zenon DEF DrState
  <2>3. tms = 0  BY <1>6, <1>7, <1>11
  <2>4. t2.state = "RunTestIdle"  BY <1>3, <2>2, <2>3, TapTable, Zenon
  <2>5. t2.ir = t.ir /\ f2 = f
    <3>1. t2.state \notin {"UpdateIR", "UpdateDR"}  BY <2>4
    <3> QED  BY <3>1, Quiet
  <2>6. ~(j < 5 + Bits)  BY <1>1, <1>11
  <2> QED  BY <2>1, <2>4, <2>5, <2>6
<1>12. j <= 3 \/ j \in 4 .. 3 + Bits \/ j = 4 + Bits \/ j = 5 + Bits  BY <1>1
<1> QED  BY <1>8, <1>9, <1>10, <1>11, <1>12

(* A clock of jtag_read_dr.                                                  *)
LEMMA ReadClock ==
    ASSUME NEW m \in JtagModes, NEW k \in 3 .. Len(Ops(m)), NEW w, Ops(m)[k] = Read(w),
           NEW j \in 1 .. 8 + Bits, j \notin {4, 5 + Bits, 6 + Bits},
           NEW t, NEW f, NEW tdi, NEW tms, NEW t2, NEW f2,
           TapType(t), ReadState(j, t.state), ReadData(m, k, j, t, f), f \in Fpgas,
           j \in 5 .. 4 + Bits => Len(t.tdo) = j - 5,
           JtagReadDr(w)[j] = Clk(tdi, tms), Clocked(t, f, tdi, tms, t2, f2)
    PROVE  /\ j < 8 + Bits => ReadState(j + 1, t2.state) /\ ReadData(m, k, j + 1, t2, f2)
           /\ j = 8 + Bits => /\ t2.state = "RunTestIdle" /\ Known(m, k + 1, t2.ir, f2)
                              /\ w = "busy" => Known(m, k - 1, t2.ir, f2)
<1>1. PICK B \in Nat \ {0} : B = Bits  BY BitsAssumption
<1>2. Ops(m)[k][2] = w /\ (w # "busy" <=> Ops(m)[k] # Read("busy"))  BY DEF Read
<1>3. t2.state = TapNext(t.state, tms)  BY Zenon DEF Clocked
<1>4. t.reg \in Seq(Cells) /\ Len(t.reg) = Bits /\ t.tdo \in Seq(Cells)  BY Zenon DEF TapType
<1>5. PICK s : s = JtagReadDr(w)  OBVIOUS
<1>6. /\ s[1] = Clk(Zero, 1) /\ s[2] = Clk(Zero, 0) /\ s[3] = Clk(Zero, 0)
      /\ \A i \in 1 .. Bits : s[4 + i] = Clk(Zero, Bit(i = Bits))
      /\ s[7 + Bits] = Clk(Zero, 1) /\ s[8 + Bits] = Clk(Zero, 0)
  BY <1>5, ReadItems, Zenon
<1>7. \A a, b : s[j] = Clk(a, b) => tdi = a /\ tms = b  BY <1>5, ClkParts, Zenon
<1>8. CASE j <= 3
  <2>1. Known(m, k, t.ir, f)
    <3>1. j # 8 + Bits  BY <1>1, <1>8
    <3> QED  BY <3>1, Zenon DEF ReadData
  <2>2. \/ j = 1 /\ t2.state = "SelectDR"
        \/ j = 2 /\ t2.state = "CaptureDR"
        \/ j = 3 /\ t2.state = "ShiftDR" /\ t.state = "CaptureDR"
    <3>1. CASE j = 1
      <4>1. t.state = "RunTestIdle"  BY <3>1, Zenon DEF ReadState
      <4>2. tms = 1  BY <1>6, <1>7, <3>1
      <4> QED  BY <1>3, <3>1, <4>1, <4>2, TapTable, Zenon
    <3>2. CASE j = 2
      <4>1. t.state = "SelectDR"  BY <3>2, Zenon DEF ReadState
      <4>2. tms = 0  BY <1>6, <1>7, <3>2
      <4> QED  BY <1>3, <3>2, <4>1, <4>2, TapTable, Zenon
    <3>3. CASE j = 3
      <4>1. t.state = "CaptureDR"  BY <3>3, Zenon DEF ReadState
      <4>2. tms = 0  BY <1>6, <1>7, <3>3
      <4> QED  BY <1>3, <3>3, <4>1, <4>2, TapTable, Zenon
    <3>4. j = 1 \/ j = 2 \/ j = 3  BY <1>1, <1>8
    <3> QED  BY <3>1, <3>2, <3>3, <3>4
  <2>3. ReadState(j + 1, t2.state)  BY <1>1, <2>2 DEF ReadState
  <2>4. t2.ir = t.ir /\ f2 = f
    <3>1. t2.state \notin {"UpdateIR", "UpdateDR"}  BY <2>2
    <3> QED  BY <3>1, Quiet
  <2>5. j = 3 => \E v \in ReadsAs(f2, t2.ir) : ShiftedOut(t2.reg, v, 0)
    <3> SUFFICES ASSUME j = 3 PROVE \E v \in ReadsAs(f, t.ir) : ShiftedOut(t2.reg, v, 0)
      BY <2>4
    <3>1. t.state = "CaptureDR"  BY <2>2
    <3>2. PICK v \in ReadsAs(f, t.ir) : t2.reg = BitsOf(v)  BY <3>1, Zenon DEF Clocked
    <3>3. v \in BitWords  BY ReadWords
    <3>4. \A n \in 1 .. Bits : t2.reg[n] = <<v, n>>  BY <3>2, <3>3, BitsType
    <3>5. Bits - 0 = Bits /\ \A n \in 1 .. Bits : n + 0 = n  BY <1>1
    <3>6. ShiftedOut(t2.reg, v, 0)  BY <3>4, <3>5 DEF ShiftedOut
    <3> QED  BY <3>6
  <2>6. ReadData(m, k, j + 1, t2, f2)
    <3>1. /\ j + 1 # 8 + Bits /\ j + 1 \notin 5 .. 6 + Bits /\ j + 1 # 7 + Bits
          /\ j + 1 = 4 => j = 3
      BY <1>1, <1>8
    <3> QED  BY <2>1, <2>4, <2>5, <3>1, Zenon DEF ReadData
  <2>7. j # 8 + Bits  BY <1>1, <1>8
  <2> QED  BY <2>3, <2>6, <2>7
<1>9. CASE j \in 5 .. 4 + Bits
  <2>1. PICK i \in 1 .. Bits : i = j - 4 /\ j = 4 + i  BY <1>1, <1>9
  <2>2. PICK l \in 0 .. Bits - 1 : l = j - 5 /\ l + 1 = i  BY <1>1, <2>1
  <2>3. j # 8 + Bits /\ j \in 5 .. 6 + Bits /\ j # 6 + Bits /\ j <= 4 + Bits  BY <1>1, <1>9
  <2>4. Known(m, k, t.ir, f)  BY <2>3, Zenon DEF ReadData
  <2>5. PICK v \in ReadsAs(f, t.ir) : /\ ShiftedOut(t.reg, v, l)
                                      /\ \A n \in 1 .. l : t.tdo[n] = <<v, n>>
    BY <2>2, <2>3 DEF ReadData
  <2>6. t.state = "ShiftDR"
    <3>1. j \in 4 .. 4 + Bits  BY <1>1, <1>9
    <3> QED  BY <3>1, Zenon DEF ReadState
  <2>7. tdi = Zero /\ tms = Bit(i = Bits)
    <3>1. PICK b : b = Bit(i = Bits)  OBVIOUS
    <3>2. s[j] = Clk(Zero, b)  BY <1>6, <2>1, <3>1, Zenon
    <3> QED  BY <1>7, <3>1, <3>2
  <2>8. /\ i = Bits => t2.state = "Exit1DR"
        /\ i # Bits => t2.state = "ShiftDR"
    BY <1>3, <2>6, <2>7, TapTable DEF Bit
  <2>9. ReadState(j + 1, t2.state)  BY <1>1, <2>1, <2>8 DEF ReadState
  <2>10. t2.ir = t.ir /\ f2 = f
    <3>1. t2.state \notin {"UpdateIR", "UpdateDR"}  BY <2>8
    <3> QED  BY <3>1, Quiet
  <2>11. Zero \in Cells  BY DEF Zero, Cells, BitWords, Values, Mild
  <2>12. t2.reg = Append(Tail(t.reg), Zero)  BY <2>6, <2>7 DEF Clocked
  <2>13. ShiftedOut(t2.reg, v, i) /\ Head(t.reg) = <<v, i>>
    <3>1. PICK r \in Seq(Cells) : r = t.reg /\ Len(r) = Bits  BY <1>4
    <3>2. PICK new : new = t2.reg  OBVIOUS
    <3>5. PICK x \in Cells : x = Zero  BY <2>11
    <3>3. new = Append(Tail(r), x) /\ ShiftedOut(r, v, l)  BY <2>5, <2>12, <3>1, <3>2, <3>5
    <3>4. ShiftedOut(new, v, l + 1) /\ Head(r) = <<v, l + 1>>  BY <3>1, <3>3, ShiftOut
    <3> QED  BY <2>2, <3>1, <3>2, <3>4
  <2>14. \A n \in 1 .. i : t2.tdo[n] = <<v, n>>
    <3>1. t2.tdo = Append(t.tdo, <<v, i>>)  BY <2>6, <2>13 DEF Clocked
    <3>2. <<v, i>> \in Cells
      <4>1. Head(t.reg) \in Cells  BY <1>4, <2>11, <2>12, ShiftStep
      <4> QED  BY <2>13, <4>1
    <3>3. PICK d \in Seq(Cells) : d = t.tdo  BY <1>4
    <3>4. Len(d) = l  BY <1>9, <2>2, <3>3
    <3>5. PICK e : e = <<v, i>>  OBVIOUS
    <3>6. PICK y : y = Append(d, e)  OBVIOUS
    <3>7. y[Len(d) + 1] = e /\ \A n \in 1 .. Len(d) : y[n] = d[n]
      BY <3>2, <3>5, <3>6, AppendShape
    <3>8. y[i] = e /\ \A n \in 1 .. l : y[n] = <<v, n>>
      BY <2>2, <2>5, <3>3, <3>4, <3>7
    <3>9. \A n \in 1 .. i : n = i \/ n \in 1 .. l  BY <2>2
    <3>10. y = t2.tdo  BY <3>1, <3>3, <3>5, <3>6
    <3> QED  BY <3>5, <3>8, <3>9, <3>10, Zenon
  <2>15. ReadData(m, k, j + 1, t2, f2)
    <3>1. /\ j + 1 # 8 + Bits /\ j + 1 # 4 /\ j + 1 # 7 + Bits /\ j + 1 # 6 + Bits /\ (j + 1) - 5 = i
      BY <1>1, <2>1
    <3>2. \E u \in ReadsAs(f2, t2.ir) :
             /\ j + 1 <= 4 + Bits => ShiftedOut(t2.reg, u, (j + 1) - 5)
             /\ \A n \in 1 .. (IF j + 1 = 6 + Bits THEN Bits ELSE (j + 1) - 5) : t2.tdo[n] = <<u, n>>
      <4>1. v \in ReadsAs(f2, t2.ir)  BY <2>10
      <4>2. (IF j + 1 = 6 + Bits THEN Bits ELSE (j + 1) - 5) = i  BY <3>1
      <4>3. ShiftedOut(t2.reg, v, (j + 1) - 5)  BY <2>13, <3>1
      <4> QED  BY <2>14, <4>1, <4>2, <4>3
    <3>3. Known(m, k, t2.ir, f2)  BY <2>4, <2>10
    <3> QED  BY <3>1, <3>2, <3>3, Zenon DEF ReadData
  <2> QED  BY <2>3, <2>9, <2>15
<1>10. CASE j = 7 + Bits
  <2>1. j # 8 + Bits /\ j + 1 = 8 + Bits /\ j \in 5 + Bits .. 7 + Bits  BY <1>1, <1>10
  <2>2. Known(m, k, t.ir, f)  BY <2>1, Zenon DEF ReadData
  <2>3. w # "busy" => Answered(w) \in ReadsAs(f, t.ir)
    BY <1>2, <1>10, Zenon DEF ReadData
  <2>4. t.state = "Exit1DR" /\ tms = 1
    <3>1. t.state = "Exit1DR"  BY <2>1, Zenon DEF ReadState
    <3>2. tms = 1  BY <1>6, <1>7, <1>10
    <3> QED  BY <3>1, <3>2
  <2>5. t2.state = "UpdateDR" /\ t2.state # "UpdateIR"  BY <1>3, <2>4, TapTable
  <2>6. t2.ir = t.ir  BY <2>5, Zenon DEF Clocked
  <2>7. PICK x : f2 = UpdateDR(f, t.ir, x)  BY <2>5, Zenon DEF Clocked
  <2>8. Known(m, k + 1, t2.ir, f2)  BY <2>2, <2>3, <2>6, <2>7, ReadStep
  <2>9. w = "busy" => Known(m, k - 1, t2.ir, f2)
    <3> SUFFICES ASSUME w = "busy" PROVE Known(m, k - 1, t2.ir, f2)  OBVIOUS
    <3>1. Ops(m)[k] = Read("busy")  OBVIOUS
    <3> QED  BY <2>2, <2>6, <2>7, <3>1, PollAgain
  <2>10. ReadState(j + 1, t2.state)  BY <1>1, <1>10, <2>5 DEF ReadState
  <2>11. ReadData(m, k, j + 1, t2, f2)
    <3>1. j + 1 \notin 5 .. 6 + Bits /\ j + 1 # 4 /\ j + 1 # 7 + Bits  BY <1>1, <1>10
    <3> QED  BY <1>2, <2>1, <2>8, <2>9, <3>1, Zenon DEF ReadData
  <2> QED  BY <2>1, <2>10, <2>11
<1>11. CASE j = 8 + Bits
  <2>1. Known(m, k + 1, t.ir, f)  BY <1>11, Zenon DEF ReadData
  <2>2. t.state = "UpdateDR"  BY <1>11, Zenon DEF ReadState
  <2>3. tms = 0  BY <1>6, <1>7, <1>11
  <2>4. t2.state = "RunTestIdle"  BY <1>3, <2>2, <2>3, TapTable, Zenon
  <2>5. t2.ir = t.ir /\ f2 = f
    <3>1. t2.state \notin {"UpdateIR", "UpdateDR"}  BY <2>4
    <3> QED  BY <3>1, Quiet
  <2>6. ~(j < 8 + Bits)  BY <1>1, <1>11
  <2>7. w = "busy" => Known(m, k - 1, t.ir, f)  BY <1>2, <1>11, Zenon DEF ReadData
  <2> QED  BY <2>1, <2>4, <2>5, <2>6, <2>7
<1>12. j <= 3 \/ j \in 5 .. 4 + Bits \/ j = 7 + Bits \/ j = 8 + Bits  BY <1>1
<1> QED  BY <1>8, <1>9, <1>10, <1>11, <1>12

(* The first two operations, wherever they find the TAP controller.          *)
LEMMA MildReads == ASSUME NEW f, NEW ir \in Mild PROVE ReadsAs(f, ir) \subseteq Mild
<1>1. \A b \in {"busy", "idle"}, s \in {"ok", "fail"} : Captured(f, ir, b, s) \in Mild
  BY DEF Captured, Mild, Junk
<1> QED  BY <1>1 DEF ReadsAs

LEMMA StrayClock ==
    ASSUME NEW t, NEW f, NEW tdi \in Cells, NEW tms, NEW t2, NEW f2, tdi[1] \in Mild,
           TapType(t), StrayData(t, f), Clocked(t, f, tdi, tms, t2, f2)
    PROVE  StrayData(t2, f2)
<1>1. PICK B \in Nat \ {0} : B = Bits  BY BitsAssumption
<1>2. t.ir \in Mild /\ Safe(f) /\ \A n \in 1 .. Bits : t.reg[n][1] \in Mild  BY Zenon DEF StrayData
<1>3. t.reg \in Seq(Cells) /\ Len(t.reg) = Bits  BY Zenon DEF TapType
<1>4. f \in Fpgas  BY <1>2 DEF Safe
<1>5. Mild \subseteq BitWords /\ Mild \subseteq Values  BY DEF BitWords, Values
<1>6. \A v \in Mild : \A n \in 1 .. Bits : BitsOf(v)[n][1] = v  BY DEF BitsOf
<1>7. \A n \in 1 .. Bits : t2.reg[n][1] \in Mild
  <2>1. CASE t.state \in {"ShiftDR", "ShiftIR"}
    <3>1. PICK r \in Seq(Cells) : r = t.reg /\ Len(r) = Bits  BY <1>3
    <3>2. PICK new : new = t2.reg  OBVIOUS
    <3>3. new = Append(Tail(r), tdi)  BY <2>1, <3>1, <3>2 DEF Clocked
    <3>4. new[B] = tdi /\ \A n \in 1 .. B - 1 : new[n] = r[n + 1]  BY <1>1, <3>1, <3>3, ShiftStep
    <3>5. \A n \in 1 .. B : n = B \/ (n \in 1 .. B - 1 /\ n + 1 \in 1 .. B)  OBVIOUS
    <3> QED  BY <1>1, <1>2, <3>1, <3>2, <3>4, <3>5
  <2>2. CASE t.state = "CaptureDR"
    <3>1. PICK v \in ReadsAs(f, t.ir) : t2.reg = BitsOf(v)  BY <2>2, Zenon DEF Clocked
    <3>2. v \in Mild  BY <1>2, MildReads
    <3> QED  BY <1>6, <3>1, <3>2
  <2>3. CASE t.state = "CaptureIR"
    <3>1. t2.reg = BitsOf(Junk)  BY <2>3, Zenon DEF Clocked
    <3>2. Junk \in Mild  BY DEF Mild
    <3> QED  BY <1>6, <3>1, <3>2
  <2>4. CASE t.state \notin {"ShiftDR", "ShiftIR", "CaptureDR", "CaptureIR"}
    <3>1. t2.reg = t.reg  BY <2>4, Zenon DEF Clocked
    <3> QED  BY <1>2, <3>1
  <2> QED  BY <2>1, <2>2, <2>3, <2>4
<1>8. ValueOf(t2.reg) \in Mild  BY <1>7, MildValue
<1>9. t2.ir \in Mild /\ Safe(f2)
  <2>1. CASE t2.state = "UpdateIR"
    <3>1. t2.ir = ValueOf(t2.reg) /\ f2 = UpdateIR(f, t2.ir)  BY <2>1, Zenon DEF Clocked
    <3>2. t2.ir \in Mild  BY <1>8, <3>1
    <3>3. Safe(UpdateIR(f, t2.ir))  BY <1>2, <3>2, MildIr
    <3> QED  BY <3>1, <3>2, <3>3
  <2>2. CASE t2.state = "UpdateDR"
    <3>1. t2.state # "UpdateIR"  BY <2>2
    <3>2. t2.ir = t.ir  BY <3>1, Zenon DEF Clocked
    <3>3. PICK w : /\ w = ValueOf(t2.reg) \/ (w = "flawed" /\ t.ir \in Writing)
                   /\ f2 = UpdateDR(f, t.ir, w)
      BY <2>2, Zenon DEF Clocked
    <3>4. t.ir \notin Writing  BY <1>2 DEF Mild, Writing, Junk
    <3>5. w \in Values  BY <1>5, <1>8, <3>3, <3>4
    <3>6. Safe(UpdateDR(f, t.ir, w))  BY <1>2, <3>5, MildDr
    <3> QED  BY <1>2, <3>2, <3>3, <3>6
  <2>3. CASE t2.state \notin {"UpdateIR", "UpdateDR"}
    <3>1. t2.ir = t.ir /\ f2 = f  BY <2>3, Quiet
    <3> QED  BY <1>2, <3>1
  <2> QED  BY <2>1, <2>2, <2>3
<1> QED  BY <1>7, <1>9, Zenon DEF StrayData

LEMMA FirstClock ==
    ASSUME NEW j \in 1 .. 6 + Bits, NEW s, FirstState(j, s), NEW tdi, NEW tms,
           JtagWriteIr("ENABLE")[j] = Clk(tdi, tms)
    PROVE  /\ j < 6 + Bits => FirstState(j + 1, TapNext(s, tms))
           /\ j = 6 + Bits => SecondState(1, TapNext(s, tms))
           /\ tdi \in Cells /\ tdi[1] \in Mild /\ tms \in {0, 1}
<1>1. PICK B \in Nat \ {0} : B = Bits  BY BitsAssumption
<1>2. PICK c : c = "ENABLE"  OBVIOUS
<1>3. PICK q : q = JtagWriteIr(c)  OBVIOUS
<1>4. /\ q[1] = Clk(Zero, 1) /\ q[2] = Clk(Zero, 1) /\ q[3] = Clk(Zero, 0) /\ q[4] = Clk(Zero, 0)
      /\ \A i \in 1 .. Bits : q[4 + i] = Clk(<<c, i>>, Bit(i = Bits))
      /\ q[5 + Bits] = Clk(Zero, 1) /\ q[6 + Bits] = Clk(Zero, 0)
  BY <1>3, IrItems, Zenon
<1>5. \A a, b : q[j] = Clk(a, b) => tdi = a /\ tms = b
  <2>1. q[j] = Clk(tdi, tms)  BY <1>2, <1>3
  <2> QED  BY <2>1, ClkParts
<1>6. c \in Mild /\ c \in BitWords  BY <1>2 DEF Mild, BitWords, Values
<1>7. Zero \in Cells /\ Zero[1] \in Mild  BY DEF Zero, Cells, BitWords, Values, Mild
<1>8. /\ j = 1 => tdi = Zero /\ tms = 1
      /\ j = 2 => tdi = Zero /\ tms = 1
      /\ j = 3 => tdi = Zero /\ tms = 0
      /\ j = 4 => tdi = Zero /\ tms = 0
      /\ j = 5 + Bits => tdi = Zero /\ tms = 1
      /\ j = 6 + Bits => tdi = Zero /\ tms = 0
  BY <1>4, <1>5
<1>9. CASE j \in 5 .. 4 + Bits
  <2>1. PICK i \in 1 .. Bits : j = 4 + i  BY <1>1, <1>9
  <2>2. PICK b : b = Bit(i = Bits)  OBVIOUS
  <2>3. q[j] = Clk(<<c, i>>, b)  BY <1>4, <2>1, <2>2, Zenon
  <2>4. tdi = <<c, i>> /\ tms = b  BY <1>5, <2>3
  <2>5. s \in {"RunTestIdle", "ShiftIR", "ShiftDR"}  BY <1>9, Zenon DEF FirstState
  <2>6. b \in {0, 1} /\ (i = Bits => b = 1) /\ (i # Bits => b = 0)  BY <2>2 DEF Bit
  <2>7. /\ i # Bits => TapNext(s, tms) \in {"RunTestIdle", "ShiftIR", "ShiftDR"}
        /\ i = Bits => TapNext(s, tms) \in {"SelectDR", "Exit1IR", "Exit1DR"}
    BY <2>4, <2>5, <2>6, TapTable
  <2>8. FirstState(j + 1, TapNext(s, tms))  BY <1>1, <2>1, <2>7 DEF FirstState
  <2>9. <<c, i>> \in Cells /\ <<c, i>>[1] \in Mild  BY <1>1, <1>6 DEF Cells
  <2>10. j # 6 + Bits  BY <1>1, <1>9
  <2> QED  BY <2>4, <2>6, <2>8, <2>9, <2>10
<1>10. CASE j \notin 5 .. 4 + Bits
  <2>1. j = 1 \/ j = 2 \/ j = 3 \/ j = 4 \/ j = 5 + B \/ j = 6 + B  BY <1>1, <1>10
  <2>2. tdi = Zero /\ tms \in {0, 1}  BY <1>1, <1>8, <2>1
  <2>3. /\ j = 1 => TapNext(s, tms) \in {"TestLogicReset", "SelectDR", "SelectIR", "Exit1DR", "UpdateDR",
                                         "Exit1IR", "UpdateIR"}
        /\ j = 2 => TapNext(s, tms) \in {"TestLogicReset", "SelectIR", "UpdateDR", "SelectDR", "UpdateIR"}
        /\ j = 3 => TapNext(s, tms) \in {"RunTestIdle", "CaptureIR", "CaptureDR"}
        /\ j = 4 => TapNext(s, tms) \in {"RunTestIdle", "ShiftIR", "ShiftDR"}
        /\ j = 5 + Bits => TapNext(s, tms) \in {"SelectIR", "UpdateIR", "UpdateDR"}
        /\ j = 6 + Bits => TapNext(s, tms) \in {"CaptureIR", "RunTestIdle"}
    <3>1. CASE j = 1
      <4>1. s \in {"TestLogicReset", "RunTestIdle", "SelectDR", "SelectIR", "CaptureDR", "ShiftDR",
                   "Exit1DR", "UpdateDR", "CaptureIR", "ShiftIR", "Exit1IR", "UpdateIR"}
        BY <3>1, Zenon DEF FirstState
      <4>2. tms = 1 /\ j # 5 + Bits /\ j # 6 + Bits  BY <1>1, <1>8, <3>1
      <4> QED  BY <3>1, <4>1, <4>2, TapTable
    <3>2. CASE j = 2
      <4>1. s \in {"TestLogicReset", "SelectDR", "SelectIR", "Exit1DR", "UpdateDR", "Exit1IR", "UpdateIR"}
        BY <3>2, Zenon DEF FirstState
      <4>2. tms = 1 /\ j # 5 + Bits /\ j # 6 + Bits  BY <1>1, <1>8, <3>2
      <4> QED  BY <3>2, <4>1, <4>2, TapTable
    <3>3. CASE j = 3
      <4>1. s \in {"TestLogicReset", "SelectIR", "UpdateDR", "SelectDR", "UpdateIR"}
        BY <3>3, Zenon DEF FirstState
      <4>2. tms = 0 /\ j # 5 + Bits /\ j # 6 + Bits  BY <1>1, <1>8, <3>3
      <4> QED  BY <3>3, <4>1, <4>2, TapTable
    <3>4. CASE j = 4
      <4>1. s \in {"RunTestIdle", "CaptureIR", "CaptureDR"}  BY <3>4, Zenon DEF FirstState
      <4>2. tms = 0 /\ j # 5 + Bits /\ j # 6 + Bits  BY <1>1, <1>8, <3>4
      <4> QED  BY <3>4, <4>1, <4>2, TapTable
    <3>5. CASE j = 5 + Bits
      <4>1. s \in {"SelectDR", "Exit1IR", "Exit1DR"}  BY <3>5, Zenon DEF FirstState
      <4>2. tms = 1 /\ j # 1 /\ j # 2 /\ j # 3 /\ j # 4 /\ j # 6 + Bits  BY <1>1, <1>8, <3>5
      <4> QED  BY <4>1, <4>2, TapTable
    <3>6. CASE j = 6 + Bits
      <4>1. s \in {"SelectIR", "UpdateIR", "UpdateDR"}  BY <3>6, Zenon DEF FirstState
      <4>2. tms = 0 /\ j # 1 /\ j # 2 /\ j # 3 /\ j # 4 /\ j # 5 + Bits  BY <1>1, <1>8, <3>6
      <4> QED  BY <4>1, <4>2, TapTable
    <3> QED  BY <1>1, <2>1, <3>1, <3>2, <3>3, <3>4, <3>5, <3>6
  <2>4. j < 6 + Bits => FirstState(j + 1, TapNext(s, tms))
    BY <1>1, <2>1, <2>3 DEF FirstState
  <2>5. j = 6 + Bits => SecondState(1, TapNext(s, tms))
    <3> SUFFICES ASSUME j = 6 + Bits PROVE SecondState(1, TapNext(s, tms))  OBVIOUS
    <3>1. TapNext(s, tms) \in {"CaptureIR", "RunTestIdle"}  BY <2>3
    <3>2. 1 \notin 4 .. 3 + B /\ 1 # 4 + B /\ 1 # 5 + B  OBVIOUS
    <3> QED  BY <1>1, <3>1, <3>2 DEF SecondState
  <2> QED  BY <1>7, <2>2, <2>4, <2>5
<1> QED  BY <1>9, <1>10

LEMMA SecondClock ==
    ASSUME NEW j \in 1 .. 5 + Bits, NEW s, SecondState(j, s), NEW tdi, NEW tms,
           JtagWriteDr("sram")[j] = Clk(tdi, tms)
    PROVE  /\ j < 5 + Bits => SecondState(j + 1, TapNext(s, tms))
           /\ j = 5 + Bits => TapNext(s, tms) = "RunTestIdle"
           /\ tdi \in Cells /\ tdi[1] \in Mild /\ tms \in {0, 1}
<1>1. PICK B \in Nat \ {0} : B = Bits  BY BitsAssumption
<1>2. PICK c : c = "sram"  OBVIOUS
<1>3. PICK q : q = JtagWriteDr(c)  OBVIOUS
<1>4. /\ q[1] = Clk(Zero, 1) /\ q[2] = Clk(Zero, 0) /\ q[3] = Clk(Zero, 0)
      /\ \A i \in 1 .. Bits : q[3 + i] = Clk(<<c, i>>, Bit(i = Bits))
      /\ q[4 + Bits] = Clk(Zero, 1) /\ q[5 + Bits] = Clk(Zero, 0)
  BY <1>3, DrItems, Zenon
<1>5. \A a, b : q[j] = Clk(a, b) => tdi = a /\ tms = b
  <2>1. q[j] = Clk(tdi, tms)  BY <1>2, <1>3
  <2> QED  BY <2>1, ClkParts
<1>6. c \in Mild /\ c \in BitWords  BY <1>2 DEF Mild, BitWords, Values
<1>7. Zero \in Cells /\ Zero[1] \in Mild  BY DEF Zero, Cells, BitWords, Values, Mild
<1>8. /\ j = 1 => tdi = Zero /\ tms = 1
      /\ j = 2 => tdi = Zero /\ tms = 0
      /\ j = 3 => tdi = Zero /\ tms = 0
      /\ j = 4 + Bits => tdi = Zero /\ tms = 1
      /\ j = 5 + Bits => tdi = Zero /\ tms = 0
  BY <1>4, <1>5
<1>9. CASE j \in 4 .. 3 + Bits
  <2>1. PICK i \in 1 .. Bits : j = 3 + i  BY <1>1, <1>9
  <2>2. PICK b : b = Bit(i = Bits)  OBVIOUS
  <2>3. q[j] = Clk(<<c, i>>, b)  BY <1>4, <2>1, <2>2, Zenon
  <2>4. tdi = <<c, i>> /\ tms = b  BY <1>5, <2>3
  <2>5. s \in {"PauseIR", "ShiftDR"}  BY <1>9, Zenon DEF SecondState
  <2>6. b \in {0, 1} /\ (i = Bits => b = 1) /\ (i # Bits => b = 0)  BY <2>2 DEF Bit
  <2>7. /\ i # Bits => TapNext(s, tms) \in {"PauseIR", "ShiftDR"}
        /\ i = Bits => TapNext(s, tms) \in {"Exit2IR", "Exit1DR"}
    BY <2>4, <2>5, <2>6, TapTable
  <2>8. SecondState(j + 1, TapNext(s, tms))  BY <1>1, <2>1, <2>7 DEF SecondState
  <2>9. <<c, i>> \in Cells /\ <<c, i>>[1] \in Mild  BY <1>1, <1>6 DEF Cells
  <2>10. j # 5 + Bits  BY <1>1, <1>9
  <2> QED  BY <2>4, <2>6, <2>8, <2>9, <2>10
<1>10. CASE j \notin 4 .. 3 + Bits
  <2>1. j = 1 \/ j = 2 \/ j = 3 \/ j = 4 + B \/ j = 5 + B  BY <1>1, <1>10
  <2>2. tdi = Zero /\ tms \in {0, 1}  BY <1>1, <1>8, <2>1
  <2>3. /\ j = 1 => TapNext(s, tms) \in {"Exit1IR", "SelectDR"}
        /\ j = 2 => TapNext(s, tms) \in {"PauseIR", "CaptureDR"}
        /\ j = 3 => TapNext(s, tms) \in {"PauseIR", "ShiftDR"}
        /\ j = 4 + Bits => TapNext(s, tms) \in {"UpdateIR", "UpdateDR"}
        /\ j = 5 + Bits => TapNext(s, tms) = "RunTestIdle"
    <3>1. CASE j = 1
      <4>1. s \in {"CaptureIR", "RunTestIdle"}  BY <3>1, Zenon DEF SecondState
      <4>2. tms = 1 /\ j # 4 + Bits /\ j # 5 + Bits  BY <1>1, <1>8, <3>1
      <4> QED  BY <3>1, <4>1, <4>2, TapTable
    <3>2. CASE j = 2
      <4>1. s \in {"Exit1IR", "SelectDR"}  BY <3>2, Zenon DEF SecondState
      <4>2. tms = 0 /\ j # 4 + Bits /\ j # 5 + Bits  BY <1>1, <1>8, <3>2
      <4> QED  BY <3>2, <4>1, <4>2, TapTable
    <3>3. CASE j = 3
      <4>1. s \in {"PauseIR", "CaptureDR"}  BY <3>3, Zenon DEF SecondState
      <4>2. tms = 0 /\ j # 4 + Bits /\ j # 5 + Bits  BY <1>1, <1>8, <3>3
      <4> QED  BY <3>3, <4>1, <4>2, TapTable
    <3>4. CASE j = 4 + Bits
      <4>1. s \in {"Exit2IR", "Exit1DR"}  BY <3>4, Zenon DEF SecondState
      <4>2. tms = 1 /\ j # 1 /\ j # 2 /\ j # 3 /\ j # 5 + Bits  BY <1>1, <1>8, <3>4
      <4> QED  BY <4>1, <4>2, TapTable
    <3>5. CASE j = 5 + Bits
      <4>1. s \in {"UpdateIR", "UpdateDR"}  BY <3>5, Zenon DEF SecondState
      <4>2. tms = 0 /\ j # 1 /\ j # 2 /\ j # 3 /\ j # 4 + Bits  BY <1>1, <1>8, <3>5
      <4> QED  BY <4>1, <4>2, TapTable
    <3> QED  BY <1>1, <2>1, <3>1, <3>2, <3>3, <3>4, <3>5
  <2>4. j < 5 + Bits => SecondState(j + 1, TapNext(s, tms))
    BY <1>1, <2>1, <2>3 DEF SecondState
  <2>5. j = 5 + Bits => TapNext(s, tms) = "RunTestIdle"  BY <2>3
  <2> QED  BY <1>7, <2>2, <2>4, <2>5
<1> QED  BY <1>9, <1>10

-----------------------------------------------------------------------------
(* Places.                                                                   *)
LEMMA ItemsAre == /\ \A c : Items(Ir(c)) = JtagWriteIr(c)
                  /\ \A v : Items(Dr(v)) = JtagWriteDr(v)
                  /\ \A w : Items(Read(w)) = JtagReadDr(w)
                  /\ Items(Run) = JtagRun
                  /\ Items(<<"sync">>) = << <<"sync">> >>
BY DEF Items, Ir, Dr, Read, Run

LEMMA OpKinds ==
    ASSUME NEW m \in JtagModes, NEW k \in 1 .. Len(Ops(m))
    PROVE  \/ \E c \in Instructions : Ops(m)[k] = Ir(c)
           \/ \E v \in Values : Ops(m)[k] = Dr(v)
           \/ \E w : Ops(m)[k] = Read(w)
           \/ Ops(m)[k] = Run
           \/ Ops(m)[k] = <<"sync">>
<1>1. PICK s : s = Ops(m)  OBVIOUS
<1>2. s \in Seq(Opers) /\ k \in 1 .. Len(s)  BY <1>1, OpsTypes
<1>3. s[k] \in Opers  BY <1>2
<1> QED  BY <1>1, <1>3, Zenon DEF Opers

LEMMA ItemsLength ==
    ASSUME NEW m \in JtagModes, NEW k \in 1 .. Len(Ops(m))
    PROVE  Len(Items(Ops(m)[k])) \in Nat \ {0}
<1>1. PICK B \in Nat \ {0} : B = Bits  BY BitsAssumption
<1>2. \A c : Len(JtagWriteIr(c)) \in Nat \ {0}  BY <1>1, IrItems
<1>3. \A v : Len(JtagWriteDr(v)) \in Nat \ {0}  BY <1>1, DrItems
<1>4. \A w : Len(JtagReadDr(w)) \in Nat \ {0}  BY <1>1, ReadItems
<1>5. Len(JtagRun) \in Nat \ {0} /\ Len(<< <<"sync">> >>) \in Nat \ {0}  BY DEF JtagRun
<1> QED  BY <1>2, <1>3, <1>4, <1>5, ItemsAre, OpKinds, Zenon

LEMMA PlaceIs == ASSUME NEW k \in Nat \ {0}, NEW j \in Nat \ {0}
                 PROVE  <<k, j>> \in Places /\ <<k, j>>[1] = k /\ <<k, j>>[2] = j
BY DEF Places

LEMMA PlaceParts == ASSUME NEW p \in Places
                    PROVE  p[1] \in Nat \ {0} /\ p[2] \in Nat \ {0} /\ p = <<p[1], p[2]>>
BY DEF Places

LEMMA WithinIs ==
    ASSUME NEW m \in JtagModes, NEW k \in Nat \ {0}, NEW j \in Nat \ {0}
    PROVE  Within(m, <<k, j>>) <=> k <= Len(Ops(m)) /\ j <= Len(Items(Ops(m)[k]))
<1>1. PICK p : p = <<k, j>>  OBVIOUS
<1>2. p \in Places /\ p[1] = k /\ p[2] = j  BY <1>1, PlaceIs
<1>3. Within(m, p) <=> k <= Len(Ops(m)) /\ j <= Len(Items(Ops(m)[k]))  BY <1>2, Zenon DEF Within
<1> QED  BY <1>1, <1>3

(* Being at a place, by the kind of the operation.                           *)
LEMMA AtIs ==
    ASSUME NEW m \in JtagModes, NEW k \in 1 .. Len(Ops(m)), NEW j \in Nat \ {0}, NEW t, NEW f
    PROVE  At(m, <<k, j>>, t, f) <=> /\ j <= Len(Items(Ops(m)[k]))
                                     /\ StateAt(m, k, j, t.state) /\ DataAt(m, k, j, t, f)
<1>1. Len(Ops(m)) \in Nat  BY OpsTypes
<1>2. k \in Nat \ {0} /\ k <= Len(Ops(m)) /\ k # Len(Ops(m)) + 1  BY <1>1
<1>3. PICK p : p = <<k, j>>  OBVIOUS
<1>4. p[1] = k /\ p[2] = j  BY <1>2, <1>3, PlaceIs
<1>5. Within(m, p) <=> j <= Len(Items(Ops(m)[k]))  BY <1>2, <1>3, WithinIs
<1>6. p # End(m)  BY <1>2, <1>3 DEF End
<1>7. At(m, p, t, f) <=> /\ j <= Len(Items(Ops(m)[k]))
                         /\ StateAt(m, k, j, t.state) /\ DataAt(m, k, j, t, f)
  BY <1>4, <1>5, <1>6, Zenon DEF At
<1> QED  BY <1>3, <1>7

LEMMA AtFirst ==
    ASSUME NEW m \in JtagModes, NEW j \in Nat \ {0}, NEW t, NEW f
    PROVE  At(m, <<1, j>>, t, f) <=> j <= 6 + Bits /\ FirstState(j, t.state) /\ StrayData(t, f)
<1>1. Len(Ops(m)) \in Nat /\ Len(Ops(m)) >= 15 /\ Ops(m)[1] = Ir("ENABLE")  BY OpsTypes
<1>2. PICK k \in 1 .. Len(Ops(m)) : k = 1  BY <1>1
<1>3. Len(Items(Ops(m)[k])) = 6 + Bits
  <2>1. PICK c : c = "ENABLE"  OBVIOUS
  <2>2. Items(Ops(m)[k]) = JtagWriteIr(c)  BY <1>1, <1>2, <2>1, ItemsAre, Zenon
  <2> QED  BY <2>2, IrItems
<1>4. k # 2 /\ k \notin 3 .. Len(Ops(m)) /\ k # Len(Ops(m)) + 1 /\ k \in {1, 2}  BY <1>1, <1>2
<1>5. StateAt(m, k, j, t.state) <=> FirstState(j, t.state)  BY <1>2, <1>4, Zenon DEF StateAt
<1>6. DataAt(m, k, j, t, f) <=> StrayData(t, f)  BY <1>4, Zenon DEF DataAt
<1> QED  BY <1>2, <1>3, <1>5, <1>6, AtIs

LEMMA AtSecond ==
    ASSUME NEW m \in JtagModes, NEW j \in Nat \ {0}, NEW t, NEW f
    PROVE  At(m, <<2, j>>, t, f) <=> j <= 5 + Bits /\ SecondState(j, t.state) /\ StrayData(t, f)
<1>1. Len(Ops(m)) \in Nat /\ Len(Ops(m)) >= 15 /\ Ops(m)[2] = Dr("sram")  BY OpsTypes
<1>2. PICK k \in 1 .. Len(Ops(m)) : k = 2  BY <1>1
<1>3. Len(Items(Ops(m)[k])) = 5 + Bits
  <2>1. PICK c : c = "sram"  OBVIOUS
  <2>2. Items(Ops(m)[k]) = JtagWriteDr(c)  BY <1>1, <1>2, <2>1, ItemsAre, Zenon
  <2> QED  BY <2>2, DrItems
<1>4. k # 1 /\ k \notin 3 .. Len(Ops(m)) /\ k # Len(Ops(m)) + 1 /\ k \in {1, 2}  BY <1>1, <1>2
<1>5. StateAt(m, k, j, t.state) <=> SecondState(j, t.state)  BY <1>2, <1>4, Zenon DEF StateAt
<1>6. DataAt(m, k, j, t, f) <=> StrayData(t, f)  BY <1>4, Zenon DEF DataAt
<1> QED  BY <1>2, <1>3, <1>5, <1>6, AtIs

LEMMA AtIr ==
    ASSUME NEW m \in JtagModes, NEW k \in 3 .. Len(Ops(m)), NEW c, Ops(m)[k] = Ir(c),
           NEW j \in Nat \ {0}, NEW t, NEW f
    PROVE  At(m, <<k, j>>, t, f) <=> j <= 6 + Bits /\ IrState(j, t.state) /\ IrData(m, k, j, t, f)
<1>1. Len(Ops(m)) \in Nat  BY OpsTypes
<1>2. k \in 1 .. Len(Ops(m)) /\ k # 1 /\ k # 2 /\ k \notin {1, 2} /\ k # Len(Ops(m)) + 1  BY <1>1
<1>3. Len(Items(Ops(m)[k])) = 6 + Bits  BY ItemsAre, IrItems
<1>4. /\ Ops(m)[k][1] = "ir" /\ Ops(m)[k][1] # "dr" /\ Ops(m)[k][1] # "read"
      /\ Ops(m)[k][1] \notin {"run", "sync"}
  BY DEF Ir
<1>5. StateAt(m, k, j, t.state) <=> IrState(j, t.state)  BY <1>2, <1>4, Zenon DEF StateAt
<1>6. DataAt(m, k, j, t, f) <=> IrData(m, k, j, t, f)  BY <1>2, <1>4, Zenon DEF DataAt
<1> QED  BY <1>2, <1>3, <1>5, <1>6, AtIs

LEMMA AtDr ==
    ASSUME NEW m \in JtagModes, NEW k \in 3 .. Len(Ops(m)), NEW v, Ops(m)[k] = Dr(v),
           NEW j \in Nat \ {0}, NEW t, NEW f
    PROVE  At(m, <<k, j>>, t, f) <=> j <= 5 + Bits /\ DrState(j, t.state) /\ DrData(m, k, j, t, f)
<1>1. Len(Ops(m)) \in Nat  BY OpsTypes
<1>2. k \in 1 .. Len(Ops(m)) /\ k # 1 /\ k # 2 /\ k \notin {1, 2} /\ k # Len(Ops(m)) + 1  BY <1>1
<1>3. Len(Items(Ops(m)[k])) = 5 + Bits  BY ItemsAre, DrItems
<1>4. /\ Ops(m)[k][1] # "ir" /\ Ops(m)[k][1] = "dr" /\ Ops(m)[k][1] # "read"
      /\ Ops(m)[k][1] \notin {"run", "sync"}
  BY DEF Dr
<1>5. StateAt(m, k, j, t.state) <=> DrState(j, t.state)  BY <1>2, <1>4, Zenon DEF StateAt
<1>6. DataAt(m, k, j, t, f) <=> DrData(m, k, j, t, f)  BY <1>2, <1>4, Zenon DEF DataAt
<1> QED  BY <1>2, <1>3, <1>5, <1>6, AtIs

LEMMA AtRead ==
    ASSUME NEW m \in JtagModes, NEW k \in 3 .. Len(Ops(m)), NEW w, Ops(m)[k] = Read(w),
           NEW j \in Nat \ {0}, NEW t, NEW f
    PROVE  At(m, <<k, j>>, t, f) <=> j <= 8 + Bits /\ ReadState(j, t.state) /\ ReadData(m, k, j, t, f)
<1>1. Len(Ops(m)) \in Nat  BY OpsTypes
<1>2. k \in 1 .. Len(Ops(m)) /\ k # 1 /\ k # 2 /\ k \notin {1, 2} /\ k # Len(Ops(m)) + 1  BY <1>1
<1>3. Len(Items(Ops(m)[k])) = 8 + Bits  BY ItemsAre, ReadItems
<1>4. /\ Ops(m)[k][1] # "ir" /\ Ops(m)[k][1] # "dr" /\ Ops(m)[k][1] = "read"
      /\ Ops(m)[k][1] \notin {"run", "sync"}
  BY DEF Read
<1>5. StateAt(m, k, j, t.state) <=> ReadState(j, t.state)  BY <1>2, <1>4, Zenon DEF StateAt
<1>6. DataAt(m, k, j, t, f) <=> ReadData(m, k, j, t, f)  BY <1>2, <1>4, Zenon DEF DataAt
<1> QED  BY <1>2, <1>3, <1>5, <1>6, AtIs

LEMMA AtIdle ==
    ASSUME NEW m \in JtagModes, NEW k \in 3 .. Len(Ops(m)), Ops(m)[k] \in {Run, <<"sync">>},
           NEW j \in Nat \ {0}, NEW t, NEW f
    PROVE  /\ At(m, <<k, j>>, t, f) <=> j <= 1 /\ t.state = "RunTestIdle" /\ Known(m, k, t.ir, f)
           /\ Len(Items(Ops(m)[k])) = 1
<1>1. Len(Ops(m)) \in Nat  BY OpsTypes
<1>2. k \in 1 .. Len(Ops(m)) /\ k # 1 /\ k # 2 /\ k \notin {1, 2} /\ k # Len(Ops(m)) + 1  BY <1>1
<1>3. Len(Items(Ops(m)[k])) = 1  BY ItemsAre DEF JtagRun
<1>4. /\ Ops(m)[k][1] # "ir" /\ Ops(m)[k][1] # "dr" /\ Ops(m)[k][1] # "read"
      /\ Ops(m)[k][1] \in {"run", "sync"}
  BY DEF Run
<1>5. StateAt(m, k, j, t.state) <=> t.state = "RunTestIdle"  BY <1>2, <1>4, Zenon DEF StateAt
<1>6. DataAt(m, k, j, t, f) <=> Known(m, k, t.ir, f)  BY <1>2, <1>4, Zenon DEF DataAt
<1> QED  BY <1>2, <1>3, <1>5, <1>6, AtIs

LEMMA AtEnd ==
    ASSUME NEW m \in JtagModes, NEW t, NEW f
    PROVE  At(m, End(m), t, f) <=> t.state = "RunTestIdle" /\ Known(m, Len(Ops(m)) + 1, t.ir, f)
<1>1. Len(Ops(m)) \in Nat /\ Len(Ops(m)) >= 15  BY OpsTypes
<1>2. PICK k : k = Len(Ops(m)) + 1  OBVIOUS
<1>3. k # 1 /\ k # 2 /\ k \notin {1, 2} /\ k \notin 3 .. Len(Ops(m))  BY <1>1, <1>2
<1>4. PICK p : p = End(m)  OBVIOUS
<1>5. p[1] = k /\ p[2] = 1  BY <1>2, <1>4 DEF End
<1>6. StateAt(m, k, 1, t.state) <=> t.state = "RunTestIdle"  BY <1>2, <1>3, Zenon DEF StateAt
<1>7. DataAt(m, k, 1, t, f) <=> Known(m, k, t.ir, f)  BY <1>2, <1>3, Zenon DEF DataAt
<1>8. At(m, p, t, f) <=> StateAt(m, k, 1, t.state) /\ DataAt(m, k, 1, t, f)
  BY <1>4, <1>5, Zenon DEF At
<1> QED  BY <1>2, <1>4, <1>6, <1>7, <1>8, Zenon

(* The TAP controller is idle between operations.                            *)
LEMMA AtBegin ==
    ASSUME NEW m \in JtagModes, NEW k \in 3 .. Len(Ops(m)) + 1, NEW t, NEW f
    PROVE  At(m, <<k, 1>>, t, f) <=> t.state = "RunTestIdle" /\ Known(m, k, t.ir, f)
<1>1. Len(Ops(m)) \in Nat  BY OpsTypes
<1>2. PICK B \in Nat \ {0} : B = Bits  BY BitsAssumption
<1>3. 1 \in Nat \ {0} /\ 1 <= 6 + B /\ 1 <= 5 + B /\ 1 <= 8 + B  OBVIOUS
<1>4. CASE k = Len(Ops(m)) + 1
  <2>1. <<k, 1>> = End(m)  BY <1>4 DEF End
  <2> QED  BY <1>4, <2>1, AtEnd
<1>5. CASE k # Len(Ops(m)) + 1
  <2>1. k \in 3 .. Len(Ops(m)) /\ k \in 1 .. Len(Ops(m))  BY <1>1, <1>5
  <2>2. ASSUME NEW c, Ops(m)[k] = Ir(c)
        PROVE  At(m, <<k, 1>>, t, f) <=> t.state = "RunTestIdle" /\ Known(m, k, t.ir, f)
    <3>1. At(m, <<k, 1>>, t, f) <=> 1 <= 6 + Bits /\ IrState(1, t.state) /\ IrData(m, k, 1, t, f)
      BY <1>3, <2>1, <2>2, AtIr
    <3>2. 1 \notin 5 .. 4 + Bits /\ 1 # 5 + Bits /\ 1 # 6 + Bits /\ 1 \notin 5 .. 5 + Bits  BY <1>2
    <3>3. IrState(1, t.state) <=> t.state = "RunTestIdle"  BY <3>2 DEF IrState
    <3>4. IrData(m, k, 1, t, f) <=> Known(m, k, t.ir, f)  BY <3>2, Zenon DEF IrData
    <3> QED  BY <1>2, <1>3, <3>1, <3>3, <3>4
  <2>3. ASSUME NEW v, Ops(m)[k] = Dr(v)
        PROVE  At(m, <<k, 1>>, t, f) <=> t.state = "RunTestIdle" /\ Known(m, k, t.ir, f)
    <3>1. At(m, <<k, 1>>, t, f) <=> 1 <= 5 + Bits /\ DrState(1, t.state) /\ DrData(m, k, 1, t, f)
      BY <1>3, <2>1, <2>3, AtDr
    <3>2. 1 \notin 4 .. 3 + Bits /\ 1 # 4 + Bits /\ 1 # 5 + Bits /\ 1 \notin 4 .. 4 + Bits  BY <1>2
    <3>3. DrState(1, t.state) <=> t.state = "RunTestIdle"  BY <3>2 DEF DrState
    <3>4. DrData(m, k, 1, t, f) <=> Known(m, k, t.ir, f)  BY <3>2, Zenon DEF DrData
    <3> QED  BY <1>2, <1>3, <3>1, <3>3, <3>4
  <2>4. ASSUME NEW w, Ops(m)[k] = Read(w)
        PROVE  At(m, <<k, 1>>, t, f) <=> t.state = "RunTestIdle" /\ Known(m, k, t.ir, f)
    <3>1. At(m, <<k, 1>>, t, f) <=> 1 <= 8 + Bits /\ ReadState(1, t.state) /\ ReadData(m, k, 1, t, f)
      BY <1>3, <2>1, <2>4, AtRead
    <3>2. /\ 1 \notin 4 .. 4 + Bits /\ 1 \notin 5 + Bits .. 7 + Bits /\ 1 # 8 + Bits
          /\ 1 \notin 5 .. 6 + Bits /\ 1 # 4 /\ 1 # 7 + Bits
      BY <1>2
    <3>3. ReadState(1, t.state) <=> t.state = "RunTestIdle"  BY <3>2 DEF ReadState
    <3>4. ReadData(m, k, 1, t, f) <=> Known(m, k, t.ir, f)  BY <3>2, Zenon DEF ReadData
    <3> QED  BY <1>2, <1>3, <3>1, <3>3, <3>4
  <2>5. CASE Ops(m)[k] \in {Run, <<"sync">>}
    <3>1. At(m, <<k, 1>>, t, f) <=> 1 <= 1 /\ t.state = "RunTestIdle" /\ Known(m, k, t.ir, f)
      BY <1>3, <2>1, <2>5, AtIdle
    <3> QED  BY <3>1
  <2> QED  BY <2>1, <2>2, <2>3, <2>4, <2>5, OpKinds
<1> QED  BY <1>4, <1>5

-----------------------------------------------------------------------------
(* One clock.                                                                *)
LEMMA WithinParts ==
    ASSUME NEW m \in JtagModes, NEW p, Within(m, p)
    PROVE  /\ p \in Places /\ p[1] \in 1 .. Len(Ops(m)) /\ p[2] \in 1 .. Len(Items(Ops(m)[p[1]]))
           /\ p[1] \in Nat \ {0} /\ p[2] \in Nat \ {0} /\ p = <<p[1], p[2]>> /\ p # End(m)
<1>1. p \in Places /\ p[1] <= Len(Ops(m)) /\ p[2] <= Len(Items(Ops(m)[p[1]]))  BY Zenon DEF Within
<1>2. p[1] \in Nat \ {0} /\ p[2] \in Nat \ {0} /\ p = <<p[1], p[2]>>  BY <1>1, PlaceParts
<1>3. Len(Ops(m)) \in Nat  BY OpsTypes
<1>4. p[1] \in 1 .. Len(Ops(m))  BY <1>1, <1>2, <1>3
<1>5. Len(Items(Ops(m)[p[1]])) \in Nat  BY <1>4, ItemsLength
<1>6. p[2] \in 1 .. Len(Items(Ops(m)[p[1]]))  BY <1>1, <1>2, <1>5
<1>7. p # End(m)
  <2>1. SUFFICES ASSUME p = End(m) PROVE FALSE  OBVIOUS
  <2>2. p[1] = Len(Ops(m)) + 1  BY <2>1 DEF End
  <2> QED  BY <1>1, <1>3, <2>2
<1> QED  BY <1>1, <1>2, <1>4, <1>6, <1>7

LEMMA KnownSafe == ASSUME NEW m, NEW k, NEW ir, NEW f, Known(m, k, ir, f) PROVE Safe(f)
BY DEF Known, FpgaKnown

LEMMA AtSafe ==
    ASSUME NEW m \in JtagModes, NEW p, NEW t, NEW f, At(m, p, t, f)
    PROVE  Safe(f) /\ f \in Fpgas
<1>1. CASE p = End(m)
  <2>1. Known(m, Len(Ops(m)) + 1, t.ir, f)  BY <1>1, AtEnd
  <2> QED  BY <2>1, KnownSafe DEF Safe
<1>2. CASE p # End(m)
  <2>1. Within(m, p)  BY <1>2 DEF At
  <2>2. PICK k, j : k = p[1] /\ j = p[2]  OBVIOUS
  <2>3. k \in 1 .. Len(Ops(m)) /\ j \in Nat \ {0} /\ p = <<k, j>>  BY <2>1, <2>2, WithinParts
  <2>4. At(m, <<k, j>>, t, f)  BY <2>3
  <2>5. CASE k = 1
    <3>1. At(m, <<1, j>>, t, f)  BY <2>4, <2>5
    <3>2. StrayData(t, f)  BY <2>3, <3>1, AtFirst
    <3> QED  BY <3>2 DEF StrayData, Safe
  <2>6. CASE k = 2
    <3>1. At(m, <<2, j>>, t, f)  BY <2>4, <2>6
    <3>2. StrayData(t, f)  BY <2>3, <3>1, AtSecond
    <3> QED  BY <3>2 DEF StrayData, Safe
  <2>7. CASE k # 1 /\ k # 2
    <3>1. k \in 3 .. Len(Ops(m))  BY <2>3, <2>7, OpsTypes
    <3>2. ASSUME NEW c, Ops(m)[k] = Ir(c) PROVE Safe(f)
      <4>1. IrData(m, k, j, t, f)  BY <2>3, <2>4, <3>1, <3>2, AtIr
      <4> QED  BY <4>1, KnownSafe DEF IrData
    <3>3. ASSUME NEW c, Ops(m)[k] = Dr(c) PROVE Safe(f)
      <4>1. DrData(m, k, j, t, f)  BY <2>3, <2>4, <3>1, <3>3, AtDr
      <4> QED  BY <4>1, KnownSafe DEF DrData
    <3>4. ASSUME NEW c, Ops(m)[k] = Read(c) PROVE Safe(f)
      <4>1. ReadData(m, k, j, t, f)  BY <2>3, <2>4, <3>1, <3>4, AtRead
      <4> QED  BY <4>1, KnownSafe DEF ReadData
    <3>5. ASSUME Ops(m)[k] \in {Run, <<"sync">>} PROVE Safe(f)
      <4>1. Known(m, k, t.ir, f)  BY <2>3, <2>4, <3>1, <3>5, AtIdle
      <4> QED  BY <4>1, KnownSafe
    <3>6. Safe(f)  BY <2>3, <3>2, <3>3, <3>4, <3>5, OpKinds
    <3> QED  BY <3>6 DEF Safe
  <2> QED  BY <2>5, <2>6, <2>7
<1> QED  BY <1>1, <1>2

LEMMA ClkIs == ASSUME NEW a, NEW b PROVE Clk(a, b)[1] = "clk" /\ Clk(a, b)[2] = a /\ Clk(a, b)[3] = b
BY DEF Clk

(* What the clocks put on TDI and TMS.                                       *)
AClock(x) == \E tdi \in Cells, tms \in {0, 1} : x = Clk(tdi, tms)

LEMMA ZeroClocks == Zero \in Cells /\ \A tms \in {0, 1} : AClock(Clk(Zero, tms))
<1>1. Zero \in Cells  BY DEF Zero, Cells, BitWords, Values, Mild
<1> QED  BY <1>1 DEF AClock

LEMMA BitIs == \A up : Bit(up) \in {0, 1}
BY DEF Bit

LEMMA BitCell ==
    ASSUME NEW v \in BitWords, NEW i \in 1 .. Bits
    PROVE  <<v, i>> \in Cells
BY BitsAssumption DEF Cells

LEMMA CellClock == ASSUME NEW x \in Cells, NEW up PROVE AClock(Clk(x, Bit(up)))
BY BitIs, Zenon DEF AClock

LEMMA IrClocks ==
    ASSUME NEW c \in BitWords, NEW j \in 1 .. 6 + Bits
    PROVE  AClock(JtagWriteIr(c)[j])
<1>1. PICK B \in Nat \ {0} : B = Bits  BY BitsAssumption
<1>2. PICK s : s = JtagWriteIr(c)  OBVIOUS
<1>3. /\ s[1] = Clk(Zero, 1) /\ s[2] = Clk(Zero, 1) /\ s[3] = Clk(Zero, 0) /\ s[4] = Clk(Zero, 0)
      /\ s[5 + Bits] = Clk(Zero, 1) /\ s[6 + Bits] = Clk(Zero, 0)
      /\ \A i \in 1 .. Bits : s[4 + i] = Clk(<<c, i>>, Bit(i = Bits))
  BY <1>2, IrItems
<1>4. AClock(Clk(Zero, 0)) /\ AClock(Clk(Zero, 1))  BY ZeroClocks
<1>5. CASE j \in {1, 2, 3, 4, 5 + Bits, 6 + Bits}  BY <1>2, <1>3, <1>4, <1>5, Zenon
<1>6. CASE j \notin {1, 2, 3, 4, 5 + Bits, 6 + Bits}
  <2>1. PICK i \in 1 .. Bits : j = 4 + i
    <3>1. j - 4 \in 1 .. Bits /\ j = 4 + (j - 4)  BY <1>1, <1>6
    <3> QED  BY <3>1
  <2>2. s[j] = Clk(<<c, i>>, Bit(i = Bits))  BY <1>3, <2>1
  <2>3. AClock(Clk(<<c, i>>, Bit(i = Bits)))  BY BitCell, CellClock
  <2> QED  BY <1>2, <2>2, <2>3
<1> QED  BY <1>5, <1>6

LEMMA DrClocks ==
    ASSUME NEW v \in BitWords, NEW j \in 1 .. 5 + Bits
    PROVE  AClock(JtagWriteDr(v)[j])
<1>1. PICK B \in Nat \ {0} : B = Bits  BY BitsAssumption
<1>2. PICK s : s = JtagWriteDr(v)  OBVIOUS
<1>3. /\ s[1] = Clk(Zero, 1) /\ s[2] = Clk(Zero, 0) /\ s[3] = Clk(Zero, 0)
      /\ s[4 + Bits] = Clk(Zero, 1) /\ s[5 + Bits] = Clk(Zero, 0)
      /\ \A i \in 1 .. Bits : s[3 + i] = Clk(<<v, i>>, Bit(i = Bits))
  BY <1>2, DrItems
<1>4. AClock(Clk(Zero, 0)) /\ AClock(Clk(Zero, 1))  BY ZeroClocks
<1>5. CASE j \in {1, 2, 3, 4 + Bits, 5 + Bits}  BY <1>2, <1>3, <1>4, <1>5, Zenon
<1>6. CASE j \notin {1, 2, 3, 4 + Bits, 5 + Bits}
  <2>1. PICK i \in 1 .. Bits : j = 3 + i
    <3>1. j - 3 \in 1 .. Bits /\ j = 3 + (j - 3)  BY <1>1, <1>6
    <3> QED  BY <3>1
  <2>2. s[j] = Clk(<<v, i>>, Bit(i = Bits))  BY <1>3, <2>1
  <2>3. AClock(Clk(<<v, i>>, Bit(i = Bits)))  BY BitCell, CellClock
  <2> QED  BY <1>2, <2>2, <2>3
<1> QED  BY <1>5, <1>6

LEMMA ReadClocks ==
    ASSUME NEW w, NEW j \in 1 .. 8 + Bits
    PROVE  /\ j \in {4, 5 + Bits} => JtagReadDr(w)[j] = <<"sync">>
           /\ j = 6 + Bits => JtagReadDr(w)[j] = <<"resp", w>>
           /\ j \notin {4, 5 + Bits, 6 + Bits} => AClock(JtagReadDr(w)[j])
<1>1. PICK B \in Nat \ {0} : B = Bits  BY BitsAssumption
<1>2. PICK s : s = JtagReadDr(w)  OBVIOUS
<1>3. /\ s[1] = Clk(Zero, 1) /\ s[2] = Clk(Zero, 0) /\ s[3] = Clk(Zero, 0) /\ s[4] = <<"sync">>
      /\ s[5 + Bits] = <<"sync">> /\ s[6 + Bits] = <<"resp", w>>
      /\ s[7 + Bits] = Clk(Zero, 1) /\ s[8 + Bits] = Clk(Zero, 0)
      /\ \A i \in 1 .. Bits : s[4 + i] = Clk(Zero, Bit(i = Bits))
  BY <1>2, ReadItems
<1>4. AClock(Clk(Zero, 0)) /\ AClock(Clk(Zero, 1))  BY ZeroClocks
<1>5. CASE j \in {4, 5 + Bits, 6 + Bits}
  <2>1. 4 # 6 + Bits /\ 5 + Bits # 6 + Bits  BY <1>1
  <2> QED  BY <1>2, <1>3, <1>5, <2>1, Zenon
<1>6. CASE j \in {1, 2, 3, 7 + Bits, 8 + Bits}
  <2>1. AClock(s[j])  BY <1>3, <1>4, <1>6, Zenon
  <2>2. j \notin {4, 5 + Bits, 6 + Bits}  BY <1>1, <1>6
  <2> QED  BY <1>2, <2>1, <2>2
<1>7. CASE j \notin {1, 2, 3, 4, 5 + Bits, 6 + Bits, 7 + Bits, 8 + Bits}
  <2>1. PICK i \in 1 .. Bits : j = 4 + i
    <3>1. j - 4 \in 1 .. Bits /\ j = 4 + (j - 4)  BY <1>1, <1>7
    <3> QED  BY <3>1
  <2>2. s[j] = Clk(Zero, Bit(i = Bits))  BY <1>3, <2>1
  <2>3. AClock(Clk(Zero, Bit(i = Bits)))  BY ZeroClocks, CellClock
  <2>4. j \notin {4, 5 + Bits, 6 + Bits}  BY <1>7
  <2> QED  BY <1>2, <2>2, <2>3, <2>4
<1> QED  BY <1>5, <1>6, <1>7

(* Only a read has transfers and a response within it.                       *)
LEMMA ItemKinds ==
    ASSUME NEW m \in JtagModes, NEW p, Within(m, p)
    PROVE  LET o == Ops(m)[p[1]]
               x == ItemAt(m, p)
           IN  \/ AClock(x) /\ o # <<"sync">>
                  /\ (o[1] = "read" => p[2] \notin {4, 5 + Bits, 6 + Bits})
               \/ x = <<"sync">> /\ o = <<"sync">> /\ p[2] = 1
               \/ x = <<"sync">> /\ (\E w : o = Read(w)) /\ p[2] \in {4, 5 + Bits} /\ p[1] > 2
               \/ \E w : x = <<"resp", w>> /\ o = Read(w) /\ p[2] = 6 + Bits /\ p[1] > 2
<1>1. PICK k, j : k = p[1] /\ j = p[2]  OBVIOUS
<1>2. PICK o, x : o = Ops(m)[k] /\ x = ItemAt(m, p)  OBVIOUS
<1>3. k \in 1 .. Len(Ops(m)) /\ j \in 1 .. Len(Items(o))  BY <1>1, <1>2, WithinParts
<1>4. x = Items(o)[j]  BY <1>1, <1>2, Zenon DEF ItemAt
<1>5. Instructions \subseteq BitWords /\ Values \subseteq BitWords  BY DEF BitWords
<1>6. CASE \E c \in Instructions : o = Ir(c)
  <2>1. PICK c \in Instructions : o = Ir(c)  BY <1>6
  <2>2. x = JtagWriteIr(c)[j] /\ j \in 1 .. 6 + Bits  BY <1>3, <1>4, <2>1, ItemsAre, IrItems
  <2>3. AClock(x)  BY <1>5, <2>1, <2>2, IrClocks
  <2>4. o # <<"sync">> /\ o[1] # "read"  BY <2>1 DEF Ir
  <2> QED  BY <1>1, <1>2, <2>3, <2>4
<1>7. CASE \E v \in Values : o = Dr(v)
  <2>1. PICK v \in Values : o = Dr(v)  BY <1>7
  <2>2. x = JtagWriteDr(v)[j] /\ j \in 1 .. 5 + Bits  BY <1>3, <1>4, <2>1, ItemsAre, DrItems
  <2>3. AClock(x)  BY <1>5, <2>1, <2>2, DrClocks
  <2>4. o # <<"sync">> /\ o[1] # "read"  BY <2>1 DEF Dr
  <2> QED  BY <1>1, <1>2, <2>3, <2>4
<1>8. CASE \E w : o = Read(w)
  <2>1. PICK w : o = Read(w)  BY <1>8
  <2>2. x = JtagReadDr(w)[j] /\ j \in 1 .. 8 + Bits  BY <1>3, <1>4, <2>1, ItemsAre, ReadItems
  <2>3. o # <<"sync">> /\ o[1] = "read"  BY <2>1 DEF Read
  <2>4. k > 2
    <3>1. k # 1 /\ k # 2
      <4>1. Ops(m)[1] = Ir("ENABLE") /\ Ops(m)[2] = Dr("sram")  BY OpsTypes
      <4>2. Ops(m)[1][1] # "read" /\ Ops(m)[2][1] # "read"  BY <4>1 DEF Ir, Dr
      <4> QED  BY <1>2, <2>3, <4>2
    <3> QED  BY <1>3, <3>1, OpsTypes
  <2>5. CASE j \in {4, 5 + Bits}
    <3>1. x = <<"sync">>  BY <2>2, <2>5, ReadClocks
    <3> QED  BY <1>1, <1>2, <2>1, <2>4, <2>5, <3>1
  <2>6. CASE j = 6 + Bits
    <3>1. x = <<"resp", w>>  BY <2>2, <2>6, ReadClocks
    <3> QED  BY <1>1, <1>2, <2>1, <2>4, <2>6, <3>1
  <2>7. CASE j \notin {4, 5 + Bits, 6 + Bits}
    <3>1. AClock(x)  BY <2>2, <2>7, ReadClocks
    <3> QED  BY <1>1, <1>2, <2>3, <2>7, <3>1
  <2> QED  BY <2>5, <2>6, <2>7
<1>9. CASE o = Run
  <2>1. Items(o) = <<Clk(Zero, 0)>>  BY <1>9, ItemsAre DEF JtagRun
  <2>2. j = 1  BY <1>3, <2>1
  <2>3. x = Clk(Zero, 0)  BY <1>4, <2>1, <2>2
  <2>4. AClock(x)  BY <2>3, ZeroClocks
  <2>5. o # <<"sync">> /\ o[1] # "read"  BY <1>9 DEF Run
  <2> QED  BY <1>1, <1>2, <2>4, <2>5
<1>10. CASE o = <<"sync">>
  <2>1. Items(o) = << <<"sync">> >>  BY <1>10, ItemsAre
  <2>2. j = 1  BY <1>3, <2>1
  <2>3. x = <<"sync">>  BY <1>4, <2>1, <2>2
  <2> QED  BY <1>1, <1>2, <1>10, <2>2, <2>3
<1> QED  BY <1>2, <1>3, <1>6, <1>7, <1>8, <1>9, <1>10, OpKinds

LEMMA ClockParts ==
    ASSUME NEW m \in JtagModes, NEW p, ClockAt(m, p)
    PROVE  /\ Within(m, p) /\ ItemAt(m, p)[2] \in Cells /\ ItemAt(m, p)[3] \in {0, 1}
           /\ ItemAt(m, p) = Clk(ItemAt(m, p)[2], ItemAt(m, p)[3])
           /\ Ops(m)[p[1]] # <<"sync">>
           /\ Ops(m)[p[1]][1] = "read" => p[2] \notin {4, 5 + Bits, 6 + Bits}
<1>1. Within(m, p) /\ ItemAt(m, p)[1] = "clk"  BY DEF ClockAt
<1>2. PICK x : x = ItemAt(m, p)  OBVIOUS
<1>3. x # <<"sync">> /\ \A w : x # <<"resp", w>>
  <2>1. x[1] = "clk"  BY <1>1, <1>2
  <2> QED  BY <2>1
<1>4. AClock(x) /\ Ops(m)[p[1]] # <<"sync">>
      /\ (Ops(m)[p[1]][1] = "read" => p[2] \notin {4, 5 + Bits, 6 + Bits})
  BY <1>1, <1>2, <1>3, ItemKinds, Zenon
<1>5. PICK a \in Cells, b \in {0, 1} : x = Clk(a, b)  BY <1>4 DEF AClock
<1>6. x[2] = a /\ x[3] = b  BY <1>5, ClkIs
<1> QED  BY <1>1, <1>2, <1>4, <1>5, <1>6

LEMMA AfterIs ==
    ASSUME NEW m \in JtagModes, NEW k, NEW j, NEW n, NEW p, p = <<k, j>>, n \in After(m, p)
    PROVE  /\ j < Len(Items(Ops(m)[k])) => n = <<k, j + 1>>
           /\ ~(j < Len(Items(Ops(m)[k]))) => n = <<k + 1, 1>> \/ (n = <<k - 1, 1>> /\ Ops(m)[k] = Read("busy"))
<1>1. p[1] = k /\ p[2] = j  OBVIOUS
<1>2. n \in IF j < Len(Items(Ops(m)[k])) THEN {<<k, j + 1>>}
            ELSE {<<k + 1, 1>>} \cup (IF Ops(m)[k] = Read("busy") THEN {<<k - 1, 1>>} ELSE {})
  BY <1>1, Zenon DEF After
<1> QED  BY <1>2

LEMMA BusyPlace ==
    ASSUME NEW m \in JtagModes, NEW k \in 3 .. Len(Ops(m)), Ops(m)[k] = Read("busy")
    PROVE  k > 14
<1>1. PICK w : w = "busy"  OBVIOUS
<1>2. FpgaProgramFlash[k] = Read(w)  BY <1>1, ReadPlace
<1>3. Len(Ops(m)) \in Nat  BY OpsTypes
<1>4. SUFFICES ASSUME k \in 3 .. 14 PROVE FALSE  BY <1>3
<1>5. FpgaEraseFlash[k] = Read(w)  BY <1>2, <1>4, ErasePart
<1>6. k \in {3, 4, 5, 6, 7, 8, 9, 10, 11, 12, 13, 14}  BY <1>4
<1>7. \A i \in {3, 4, 5, 6, 7, 8, 9, 10, 11, 12, 13, 14} : FpgaEraseFlash[i][1] \in {"ir", "dr", "run"}
  BY EraseOps, SMTT(20) DEF Ir, Dr, Run
<1> QED  BY <1>5, <1>6, <1>7 DEF Read

(* What a clock of a read needs.                                             *)
ReadTick(m, k, j, w, t, f) ==
    /\ k \in 3 .. Len(Ops(m)) /\ Ops(m)[k] = Read(w)
    /\ j \in 1 .. 8 + Bits /\ j \notin {4, 5 + Bits, 6 + Bits}
    /\ TapType(t) /\ ReadState(j, t.state) /\ ReadData(m, k, j, t, f) /\ f \in Fpgas
    /\ j \in 5 .. 4 + Bits => Len(t.tdo) = j - 5

LEMMA ReadTicks ==
    ASSUME NEW m \in JtagModes, NEW k, NEW j, NEW w, NEW t, NEW f, NEW tdi, NEW tms, NEW t2, NEW f2,
           ReadTick(m, k, j, w, t, f), JtagReadDr(w)[j] = Clk(tdi, tms), Clocked(t, f, tdi, tms, t2, f2)
    PROVE  /\ j < 8 + Bits => ReadState(j + 1, t2.state) /\ ReadData(m, k, j + 1, t2, f2)
           /\ j = 8 + Bits => /\ t2.state = "RunTestIdle" /\ Known(m, k + 1, t2.ir, f2)
                              /\ w = "busy" => Known(m, k - 1, t2.ir, f2)
<1>1. /\ k \in 3 .. Len(Ops(m)) /\ Ops(m)[k] = Read(w)
      /\ j \in 1 .. 8 + Bits /\ j \notin {4, 5 + Bits, 6 + Bits}
      /\ TapType(t) /\ ReadState(j, t.state) /\ ReadData(m, k, j, t, f) /\ f \in Fpgas
      /\ j \in 5 .. 4 + Bits => Len(t.tdo) = j - 5
  BY Zenon DEF ReadTick
<1> QED  BY <1>1, ReadClock

LEMMA ClockStep ==
    ASSUME NEW m \in JtagModes, NEW p, ClockAt(m, p), NEW t, NEW f, NEW t2, NEW f2,
           At(m, p, t, f), TapType(t), Clocked(t, f, ItemAt(m, p)[2], ItemAt(m, p)[3], t2, f2),
           Reading(m, p) /\ p[2] \in 5 .. 4 + Bits => Len(t.tdo) = p[2] - 5
    PROVE  /\ \A n \in After(m, p) : At(m, n, t2, f2)
           /\ TapType(t2) /\ Len(t2.tdo) = Len(t.tdo) + 1
<1>1. PICK tdi \in Cells, tms \in {0, 1} : /\ ItemAt(m, p) = Clk(tdi, tms)
                                           /\ Clocked(t, f, tdi, tms, t2, f2)
  BY ClockParts
<1>2. Safe(f) /\ f \in Fpgas  BY AtSafe
<1>3. TapType(t2) /\ Len(t2.tdo) = Len(t.tdo) + 1  BY <1>1, <1>2, TypeStep
<1>4. PICK k, j : k = p[1] /\ j = p[2]  OBVIOUS
<1>5. PICK o : o = Ops(m)[k]  OBVIOUS
<1>6. /\ Within(m, p) /\ o # <<"sync">> /\ (o[1] = "read" => j \notin {4, 5 + Bits, 6 + Bits})
  BY <1>4, <1>5, ClockParts
<1>7. /\ k \in 1 .. Len(Ops(m)) /\ j \in 1 .. Len(Items(o)) /\ k \in Nat \ {0} /\ j \in Nat \ {0}
      /\ p = <<k, j>>
  BY <1>4, <1>5, <1>6, WithinParts
<1>8. Items(o)[j] = Clk(tdi, tms)  BY <1>1, <1>4, <1>5, Zenon DEF ItemAt
<1>9. Len(Ops(m)) \in Nat /\ Len(Ops(m)) >= 15  BY OpsTypes
<1>10. PICK B \in Nat \ {0} : B = Bits  BY BitsAssumption
<1>11. SUFFICES ASSUME NEW n \in After(m, p) PROVE At(m, n, t2, f2)  BY <1>3
<1>12. /\ j < Len(Items(o)) => n = <<k, j + 1>>
       /\ ~(j < Len(Items(o))) => n = <<k + 1, 1>> \/ (n = <<k - 1, 1>> /\ o = Read("busy"))
  BY <1>5, <1>7, AfterIs
<1>13. At(m, <<k, j>>, t, f)  BY <1>7
<1>14. t2.state = TapNext(t.state, tms)  BY <1>1 DEF Clocked
<1>15. CASE k = 1
  <2>1. PICK c : c = "ENABLE"  OBVIOUS
  <2>2. o = Ir(c)  BY <1>5, <1>15, <2>1, OpsTypes
  <2>3. Items(o) = JtagWriteIr(c) /\ Len(Items(o)) = 6 + Bits  BY <2>2, ItemsAre, IrItems
  <2>4. FirstState(j, t.state) /\ StrayData(t, f)  BY <1>7, <1>13, <1>15, AtFirst
  <2>5. j \in 1 .. 6 + Bits /\ JtagWriteIr("ENABLE")[j] = Clk(tdi, tms)  BY <1>7, <1>8, <2>1, <2>3
  <2>6. /\ j < 6 + Bits => FirstState(j + 1, t2.state)
        /\ j = 6 + Bits => SecondState(1, t2.state)
        /\ tdi[1] \in Mild
    BY <1>14, <2>4, <2>5, FirstClock
  <2>7. StrayData(t2, f2)  BY <1>1, <2>4, <2>6, StrayClock
  <2>8. CASE j < 6 + Bits
    <3>1. n = <<1, j + 1>>  BY <1>12, <1>15, <2>3, <2>8
    <3>2. j + 1 \in Nat \ {0} /\ j + 1 <= 6 + Bits  BY <1>7, <1>10, <2>8
    <3>3. At(m, <<1, j + 1>>, t2, f2)  BY <2>6, <2>7, <2>8, <3>2, AtFirst
    <3> QED  BY <3>1, <3>3
  <2>9. CASE j = 6 + Bits
    <3>1. o # Read("busy")  BY <2>2 DEF Ir, Read
    <3>2. ~(j < 6 + Bits)  BY <1>10, <2>9
    <3>3. n = <<2, 1>>  BY <1>12, <1>15, <2>3, <3>1, <3>2
    <3>4. 1 \in Nat \ {0} /\ 1 <= 5 + Bits  BY <1>10
    <3>5. At(m, <<2, 1>>, t2, f2)  BY <2>6, <2>7, <2>9, <3>4, AtSecond
    <3> QED  BY <3>3, <3>5
  <2> QED  BY <1>10, <2>5, <2>8, <2>9
<1>16. CASE k = 2
  <2>1. PICK c : c = "sram"  OBVIOUS
  <2>2. o = Dr(c)  BY <1>5, <1>16, <2>1, OpsTypes
  <2>3. Items(o) = JtagWriteDr(c) /\ Len(Items(o)) = 5 + Bits  BY <2>2, ItemsAre, DrItems
  <2>4. SecondState(j, t.state) /\ StrayData(t, f)  BY <1>7, <1>13, <1>16, AtSecond
  <2>5. j \in 1 .. 5 + Bits /\ JtagWriteDr("sram")[j] = Clk(tdi, tms)  BY <1>7, <1>8, <2>1, <2>3
  <2>6. /\ j < 5 + Bits => SecondState(j + 1, t2.state)
        /\ j = 5 + Bits => t2.state = "RunTestIdle"
        /\ tdi[1] \in Mild
    BY <1>14, <2>4, <2>5, SecondClock
  <2>7. StrayData(t2, f2)  BY <1>1, <2>4, <2>6, StrayClock
  <2>8. CASE j < 5 + Bits
    <3>1. n = <<2, j + 1>>  BY <1>12, <1>16, <2>3, <2>8
    <3>2. j + 1 \in Nat \ {0} /\ j + 1 <= 5 + Bits  BY <1>7, <1>10, <2>8
    <3>3. At(m, <<2, j + 1>>, t2, f2)  BY <2>6, <2>7, <2>8, <3>2, AtSecond
    <3> QED  BY <3>1, <3>3
  <2>9. CASE j = 5 + Bits
    <3>1. o # Read("busy")  BY <2>2 DEF Dr, Read
    <3>2. ~(j < 5 + Bits)  BY <1>10, <2>9
    <3>3. n = <<3, 1>>  BY <1>12, <1>16, <2>3, <3>1, <3>2
    <3>4. 3 \in 3 .. Len(Ops(m)) + 1  BY <1>9
    <3>5. t2.ir \in Mild /\ Safe(f2)  BY <2>7 DEF StrayData
    <3>6. Known(m, 3, t2.ir, f2)  BY <3>5, KnownThird
    <3>7. At(m, <<3, 1>>, t2, f2)  BY <2>6, <2>9, <3>4, <3>6, AtBegin
    <3> QED  BY <3>3, <3>7
  <2> QED  BY <1>10, <2>5, <2>8, <2>9
<1>17. CASE k # 1 /\ k # 2
  <2>1. k \in 3 .. Len(Ops(m)) /\ k + 1 \in 3 .. Len(Ops(m)) + 1  BY <1>7, <1>9, <1>17
  <2>2. ASSUME NEW c \in Instructions, o = Ir(c) PROVE At(m, n, t2, f2)
    <3>1. Items(o) = JtagWriteIr(c) /\ Len(Items(o)) = 6 + Bits  BY <2>2, ItemsAre, IrItems
    <3>2. IrState(j, t.state) /\ IrData(m, k, j, t, f)  BY <1>5, <1>7, <1>13, <2>1, <2>2, AtIr
    <3>3. j \in 1 .. 6 + Bits /\ JtagWriteIr(c)[j] = Clk(tdi, tms)  BY <1>7, <1>8, <3>1
    <3>4. /\ j < 6 + Bits => IrState(j + 1, t2.state) /\ IrData(m, k, j + 1, t2, f2)
          /\ j = 6 + Bits => t2.state = "RunTestIdle" /\ Known(m, k + 1, t2.ir, f2)
      BY <1>1, <1>5, <2>1, <2>2, <3>2, <3>3, IrClock
    <3>5. CASE j < 6 + Bits
      <4>1. n = <<k, j + 1>>  BY <1>12, <3>1, <3>5
      <4>2. j + 1 \in Nat \ {0} /\ j + 1 <= 6 + Bits  BY <1>7, <1>10, <3>5
      <4>3. At(m, <<k, j + 1>>, t2, f2)  BY <1>5, <2>1, <2>2, <3>4, <3>5, <4>2, AtIr
      <4> QED  BY <4>1, <4>3
    <3>6. CASE j = 6 + Bits
      <4>1. o # Read("busy")  BY <2>2 DEF Ir, Read
      <4>2. ~(j < 6 + Bits)  BY <1>10, <3>6
      <4>3. n = <<k + 1, 1>>  BY <1>12, <3>1, <4>1, <4>2
      <4>4. At(m, <<k + 1, 1>>, t2, f2)  BY <2>1, <3>4, <3>6, AtBegin
      <4> QED  BY <4>3, <4>4
    <3> QED  BY <1>10, <3>3, <3>5, <3>6
  <2>3. ASSUME NEW v \in Values, o = Dr(v) PROVE At(m, n, t2, f2)
    <3>1. Items(o) = JtagWriteDr(v) /\ Len(Items(o)) = 5 + Bits  BY <2>3, ItemsAre, DrItems
    <3>2. DrState(j, t.state) /\ DrData(m, k, j, t, f)  BY <1>5, <1>7, <1>13, <2>1, <2>3, AtDr
    <3>3. j \in 1 .. 5 + Bits /\ JtagWriteDr(v)[j] = Clk(tdi, tms)  BY <1>7, <1>8, <3>1
    <3>4. /\ j < 5 + Bits => DrState(j + 1, t2.state) /\ DrData(m, k, j + 1, t2, f2)
          /\ j = 5 + Bits => t2.state = "RunTestIdle" /\ Known(m, k + 1, t2.ir, f2)
      BY <1>1, <1>5, <2>1, <2>3, <3>2, <3>3, DrClock
    <3>5. CASE j < 5 + Bits
      <4>1. n = <<k, j + 1>>  BY <1>12, <3>1, <3>5
      <4>2. j + 1 \in Nat \ {0} /\ j + 1 <= 5 + Bits  BY <1>7, <1>10, <3>5
      <4>3. At(m, <<k, j + 1>>, t2, f2)  BY <1>5, <2>1, <2>3, <3>4, <3>5, <4>2, AtDr
      <4> QED  BY <4>1, <4>3
    <3>6. CASE j = 5 + Bits
      <4>1. o # Read("busy")  BY <2>3 DEF Dr, Read
      <4>2. ~(j < 5 + Bits)  BY <1>10, <3>6
      <4>3. n = <<k + 1, 1>>  BY <1>12, <3>1, <4>1, <4>2
      <4>4. At(m, <<k + 1, 1>>, t2, f2)  BY <2>1, <3>4, <3>6, AtBegin
      <4> QED  BY <4>3, <4>4
    <3> QED  BY <1>10, <3>3, <3>5, <3>6
  <2>4. ASSUME NEW w, o = Read(w) PROVE At(m, n, t2, f2)
    <3>1. Items(o) = JtagReadDr(w) /\ Len(Items(o)) = 8 + Bits  BY <2>4, ItemsAre, ReadItems
    <3>2. ReadState(j, t.state) /\ ReadData(m, k, j, t, f)  BY <1>5, <1>7, <1>13, <2>1, <2>4, AtRead
    <3>3. j \in 1 .. 8 + Bits /\ JtagReadDr(w)[j] = Clk(tdi, tms)  BY <1>7, <1>8, <3>1
    <3>4. o[1] = "read"  BY <2>4 DEF Read
    <3>5. j \notin {4, 5 + Bits, 6 + Bits}  BY <1>6, <3>4
    <3>6. j \in 5 .. 4 + Bits => Len(t.tdo) = j - 5
      <4>1. k > 2  BY <2>1, <1>9
      <4>2. Reading(m, p)  BY <1>4, <1>5, <1>6, <3>4, <4>1 DEF Reading
      <4> QED  BY <1>4, <4>2
    <3>7. /\ j < 8 + Bits => ReadState(j + 1, t2.state) /\ ReadData(m, k, j + 1, t2, f2)
          /\ j = 8 + Bits => /\ t2.state = "RunTestIdle" /\ Known(m, k + 1, t2.ir, f2)
                             /\ w = "busy" => Known(m, k - 1, t2.ir, f2)
      <4>1. Ops(m)[k] = Read(w)  BY <1>5, <2>4
      <4>2. ReadTick(m, k, j, w, t, f)
        BY <1>2, <2>1, <3>2, <3>3, <3>5, <3>6, <4>1, Zenon DEF ReadTick
      <4> QED  BY <1>1, <3>3, <4>2, ReadTicks, Zenon
    <3>8. CASE j < 8 + Bits
      <4>1. n = <<k, j + 1>>  BY <1>12, <3>1, <3>8
      <4>2. j + 1 \in Nat \ {0} /\ j + 1 <= 8 + Bits  BY <1>7, <1>10, <3>8
      <4>3. At(m, <<k, j + 1>>, t2, f2)  BY <1>5, <2>1, <2>4, <3>7, <3>8, <4>2, AtRead
      <4> QED  BY <4>1, <4>3
    <3>9. CASE j = 8 + Bits
      <4>1. ~(j < 8 + Bits)  BY <1>10, <3>9
      <4>2. n = <<k + 1, 1>> \/ (n = <<k - 1, 1>> /\ o = Read("busy"))  BY <1>12, <3>1, <4>1
      <4>3. At(m, <<k + 1, 1>>, t2, f2)  BY <2>1, <3>7, <3>9, AtBegin
      <4>4. ASSUME o = Read("busy") PROVE At(m, <<k - 1, 1>>, t2, f2)
        <5>1. w = "busy"  BY <2>4, <4>4 DEF Read
        <5>2. Known(m, k - 1, t2.ir, f2) /\ t2.state = "RunTestIdle"  BY <3>7, <3>9, <5>1
        <5>3. k > 14  BY <1>5, <2>1, <4>4, BusyPlace
        <5>4. k - 1 \in 3 .. Len(Ops(m)) + 1  BY <2>1, <1>9, <5>3
        <5> QED  BY <5>2, <5>4, AtBegin
      <4> QED  BY <4>2, <4>3, <4>4
    <3> QED  BY <1>10, <3>3, <3>8, <3>9
  <2>5. ASSUME o = Run PROVE At(m, n, t2, f2)
    <3>1. Items(o) = <<Clk(Zero, 0)>>  BY <2>5, ItemsAre DEF JtagRun
    <3>2. j = 1 /\ Clk(tdi, tms) = Clk(Zero, 0) /\ Len(Items(o)) = 1  BY <1>7, <1>8, <3>1
    <3>3. tms = 0  BY <3>2, ClkParts
    <3>4. t.state = "RunTestIdle" /\ Known(m, k, t.ir, f)
      BY <1>5, <1>7, <1>13, <2>1, <2>5, AtIdle
    <3>5. t2.state = "RunTestIdle"  BY <1>14, <3>3, <3>4, TapTable
    <3>6. t2.ir = t.ir /\ f2 = f  BY <1>1, <3>5, Quiet
    <3>7. Known(m, k + 1, t2.ir, f2)  BY <1>5, <2>1, <2>5, <3>4, <3>6, IdleStep
    <3>8. At(m, <<k + 1, 1>>, t2, f2)  BY <2>1, <3>5, <3>7, AtBegin
    <3>9. o # Read("busy")  BY <2>5 DEF Run, Read
    <3> QED  BY <1>12, <3>2, <3>8, <3>9
  <2> QED  BY <1>5, <1>6, <1>7, <2>2, <2>3, <2>4, <2>5, OpKinds
<1> QED  BY <1>15, <1>16, <1>17

(* A transfer of the buffer leaves the device where it is.                   *)
LEMMA SyncStep ==
    ASSUME NEW m \in JtagModes, NEW p, Within(m, p), ItemAt(m, p)[1] = "sync", NEW t, NEW f,
           At(m, p, t, f), NEW n \in After(m, p)
    PROVE  At(m, n, t, f)
<1>1. PICK k, j : k = p[1] /\ j = p[2]  OBVIOUS
<1>2. PICK o, x : o = Ops(m)[k] /\ x = ItemAt(m, p)  OBVIOUS
<1>3. /\ k \in 1 .. Len(Ops(m)) /\ j \in 1 .. Len(Items(o)) /\ k \in Nat \ {0} /\ j \in Nat \ {0}
      /\ p = <<k, j>>
  BY <1>1, <1>2, WithinParts
<1>4. ~AClock(x) /\ \A w : x # <<"resp", w>>
  <2>1. x[1] = "sync"  BY <1>2
  <2>2. \A a, b : x # Clk(a, b)  BY <2>1, ClkIs
  <2> QED  BY <2>1, <2>2 DEF AClock
<1>5. \/ o = <<"sync">> /\ j = 1
      \/ (\E w : o = Read(w)) /\ j \in {4, 5 + Bits} /\ k > 2
  BY <1>1, <1>2, <1>4, ItemKinds
<1>6. Len(Ops(m)) \in Nat  BY OpsTypes
<1>7. PICK B \in Nat \ {0} : B = Bits  BY BitsAssumption
<1>8. /\ j < Len(Items(o)) => n = <<k, j + 1>>
      /\ ~(j < Len(Items(o))) => n = <<k + 1, 1>> \/ (n = <<k - 1, 1>> /\ o = Read("busy"))
  BY <1>2, <1>3, AfterIs
<1>9. At(m, <<k, j>>, t, f)  BY <1>3
<1>10. CASE o = <<"sync">> /\ j = 1
  <2>1. k # 1 /\ k # 2
    <3>1. Ops(m)[1] = Ir("ENABLE") /\ Ops(m)[2] = Dr("sram")  BY OpsTypes
    <3>2. Ops(m)[1] # <<"sync">> /\ Ops(m)[2] # <<"sync">>  BY <3>1 DEF Ir, Dr
    <3> QED  BY <1>2, <1>10, <3>2
  <2>2. k \in 3 .. Len(Ops(m)) /\ k + 1 \in 3 .. Len(Ops(m)) + 1  BY <1>3, <1>6, <2>1
  <2>3. t.state = "RunTestIdle" /\ Known(m, k, t.ir, f) /\ Len(Items(o)) = 1
    <3>1. Ops(m)[k] \in {Run, <<"sync">>}  BY <1>2, <1>10
    <3>2. /\ At(m, <<k, j>>, t, f) <=> j <= 1 /\ t.state = "RunTestIdle" /\ Known(m, k, t.ir, f)
          /\ Len(Items(Ops(m)[k])) = 1
      BY <1>3, <2>2, <3>1, AtIdle
    <3> QED  BY <1>2, <1>9, <3>2, Zenon
  <2>4. Known(m, k + 1, t.ir, f)  BY <1>2, <1>10, <2>2, <2>3, IdleStep
  <2>5. At(m, <<k + 1, 1>>, t, f)  BY <2>2, <2>3, <2>4, AtBegin
  <2>6. o # Read("busy")  BY <1>10 DEF Read
  <2> QED  BY <1>8, <1>10, <2>3, <2>5, <2>6
<1>11. ASSUME NEW w, o = Read(w), j \in {4, 5 + Bits}, k > 2 PROVE At(m, n, t, f)
  <2>1. k \in 3 .. Len(Ops(m))  BY <1>3, <1>6, <1>11
  <2>2. Len(Items(o)) = 8 + Bits  BY <1>11, ItemsAre, ReadItems
  <2>3. n = <<k, j + 1>> /\ j + 1 \in Nat \ {0} /\ j + 1 <= 8 + Bits  BY <1>3, <1>7, <1>8, <1>11, <2>2
  <2>4. ReadState(j, t.state) /\ ReadData(m, k, j, t, f)  BY <1>2, <1>3, <1>9, <1>11, <2>1, AtRead
  <2>5. ReadState(j + 1, t.state) /\ ReadData(m, k, j + 1, t, f)
    <3>1. CASE j = 4
      <4>1. PICK i \in Nat : i = j + 1  BY <1>3
      <4>2. /\ i = 5 /\ i \in 4 .. 4 + Bits /\ i \notin 5 + Bits .. 7 + Bits /\ i # 8 + Bits /\ i # 4
            /\ i \in 5 .. 6 + Bits /\ i # 7 + Bits /\ i # 6 + Bits /\ 1 .. i - 5 = {} /\ i - 5 = 0
            /\ j # 8 + Bits /\ j \in 4 .. 4 + Bits /\ i # 1 /\ i # 2 /\ i # 3
        BY <1>7, <3>1, <4>1
      <4>3. t.state = "ShiftDR"  BY <2>4, <4>2 DEF ReadState
      <4>4. ReadState(i, t.state)  BY <4>2, <4>3 DEF ReadState
      <4>5. Known(m, k, t.ir, f) /\ \E v \in ReadsAs(f, t.ir) : ShiftedOut(t.reg, v, 0)
        BY <2>4, <3>1, <4>2, Zenon DEF ReadData
      <4>6. PICK v \in ReadsAs(f, t.ir) : ShiftedOut(t.reg, v, 0)  BY <4>5
      <4>7. ShiftedOut(t.reg, v, i - 5)  BY <4>2, <4>6
      <4>8. \A z \in 1 .. i - 5 : t.tdo[z] = <<v, z>>  BY <4>2
      <4>9. ReadData(m, k, i, t, f)
        BY <4>2, <4>5, <4>7, <4>8, Zenon DEF ReadData
      <4> QED  BY <4>1, <4>4, <4>9
    <3>2. CASE j = 5 + Bits
      <4>1. PICK i \in Nat : i = j + 1  BY <1>3
      <4>2. /\ i = 6 + Bits /\ i \notin 4 .. 4 + Bits /\ i \in 5 + Bits .. 7 + Bits /\ i # 8 + Bits /\ i # 4
            /\ i \in 5 .. 6 + Bits /\ i # 7 + Bits /\ ~(i <= 4 + Bits)
            /\ j # 8 + Bits /\ j \in 5 + Bits .. 7 + Bits /\ i # 1 /\ i # 2 /\ i # 3
            /\ j # 6 + Bits /\ j - 5 = Bits /\ j \in 5 .. 6 + Bits
        BY <1>7, <3>2, <4>1
      <4>3. t.state = "Exit1DR"  BY <2>4, <4>2 DEF ReadState
      <4>4. ReadState(i, t.state)  BY <4>2, <4>3 DEF ReadState
      <4>5. Known(m, k, t.ir, f) /\ \E v \in ReadsAs(f, t.ir) : \A z \in 1 .. j - 5 : t.tdo[z] = <<v, z>>
        BY <2>4, <4>2, Zenon DEF ReadData
      <4>6. PICK v \in ReadsAs(f, t.ir) : \A z \in 1 .. j - 5 : t.tdo[z] = <<v, z>>  BY <4>5
      <4>7. \A z \in 1 .. Bits : t.tdo[z] = <<v, z>>  BY <4>2, <4>6
      <4>8. ReadData(m, k, i, t, f)
        BY <4>2, <4>5, <4>7, Zenon DEF ReadData
      <4> QED  BY <4>1, <4>4, <4>8
    <3> QED  BY <1>11, <3>1, <3>2
  <2>6. At(m, <<k, j + 1>>, t, f)  BY <1>2, <1>11, <2>1, <2>3, <2>5, AtRead
  <2> QED  BY <2>3, <2>6
<1> QED  BY <1>5, <1>10, <1>11

(* A response is the register that was read.                                 *)
LEMMA RespStep ==
    ASSUME NEW m \in JtagModes, NEW k \in 3 .. Len(Ops(m)), NEW w, Ops(m)[k] = Read(w), NEW t, NEW f,
           At(m, <<k, 6 + Bits>>, t, f), TapType(t), Len(t.tdo) = Bits
    PROVE  LET value == ValueOf(SubSeq(t.tdo, 1, Bits))
           IN  /\ value # Junk
               /\ value = Answered(w) \/ w = "busy" => At(m, <<k, 7 + Bits>>, t, f)
<1>1. PICK B \in Nat \ {0} : B = Bits  BY BitsAssumption
<1>2. PICK j \in Nat : j = 6 + Bits  BY <1>1
<1>3. /\ j \in Nat \ {0} /\ j \in 5 .. 6 + Bits /\ j # 8 + Bits /\ j \in 5 + Bits .. 7 + Bits
  BY <1>1, <1>2
<1>4. ReadState(j, t.state) /\ ReadData(m, k, j, t, f)  BY <1>2, <1>3, AtRead
<1>5. t.state = "Exit1DR"  BY <1>3, <1>4 DEF ReadState
<1>6. Known(m, k, t.ir, f) /\ \E v \in ReadsAs(f, t.ir) : \A z \in 1 .. Bits : t.tdo[z] = <<v, z>>
  BY <1>2, <1>3, <1>4, Zenon DEF ReadData
<1>7. PICK v \in ReadsAs(f, t.ir) : \A z \in 1 .. Bits : t.tdo[z] = <<v, z>>  BY <1>6
<1>8. PICK r : r = t.tdo  OBVIOUS
<1>9. r \in Seq(Cells) /\ Len(r) = B  BY <1>1, <1>8 DEF TapType
<1>10. SubSeq(r, 1, B) = r
  <2>1. SubSeq(r, 1, B) \in Seq(Cells) /\ Len(SubSeq(r, 1, B)) = B  BY <1>9
  <2>2. \A z \in 1 .. B : SubSeq(r, 1, B)[z] = r[z]  BY <1>9
  <2> QED  BY <1>9, <2>1, <2>2
<1>11. ValueOf(r) = v  BY <1>1, <1>7, <1>8, <1>9, WholeValue
<1>12. PICK value : value = ValueOf(SubSeq(t.tdo, 1, Bits))  OBVIOUS
<1>13. value = v  BY <1>1, <1>8, <1>10, <1>11, <1>12
<1>14. v # Junk  BY <1>6, <1>7, ReadWell
<1>15. ASSUME v = Answered(w) \/ w = "busy" PROVE At(m, <<k, 7 + Bits>>, t, f)
  <2>1. PICK i \in Nat : i = 7 + Bits  BY <1>1
  <2>2. /\ i \in Nat \ {0} /\ i <= 8 + Bits /\ i \notin 4 .. 4 + Bits /\ i \in 5 + Bits .. 7 + Bits
        /\ i # 8 + Bits /\ i # 4 /\ i \notin 5 .. 6 + Bits /\ i # 1 /\ i # 2 /\ i # 3
    BY <1>1, <2>1
  <2>3. ReadState(i, t.state)  BY <1>5, <2>2 DEF ReadState
  <2>4. Ops(m)[k] # Read("busy") => Answered(Ops(m)[k][2]) \in ReadsAs(f, t.ir)
    <3>1. Ops(m)[k][2] = w  BY DEF Read
    <3> QED  BY <1>7, <1>15, <3>1
  <2>5. ReadData(m, k, i, t, f)  BY <1>6, <2>2, <2>4, Zenon DEF ReadData
  <2>6. At(m, <<k, i>>, t, f)  BY <2>2, <2>3, <2>5, AtRead
  <2> QED  BY <2>1, <2>6
<1> QED  BY <1>12, <1>13, <1>14, <1>15

(* A new request clears the answer of the last one.                          *)
LEMMA ClearStep ==
    ASSUME NEW m \in JtagModes, NEW p, NEW t, NEW f, NEW t2, At(m, p, t, f),
           ~(Reading(m, p) /\ p[2] \in 6 .. 6 + Bits),
           t2.state = t.state, t2.ir = t.ir, t2.reg = t.reg
    PROVE  At(m, p, t2, f)
<1>1. CASE p = End(m)
  <2>1. At(m, End(m), t, f)  BY <1>1
  <2>2. At(m, End(m), t2, f)  BY <2>1, AtEnd
  <2> QED  BY <1>1, <2>2
<1>2. CASE p # End(m)
  <2>1. Within(m, p)  BY <1>2 DEF At
  <2>2. PICK k, j : k = p[1] /\ j = p[2]  OBVIOUS
  <2>3. /\ k \in 1 .. Len(Ops(m)) /\ k \in Nat \ {0} /\ j \in Nat \ {0} /\ p = <<k, j>>
    BY <2>1, <2>2, WithinParts
  <2>4. At(m, <<k, j>>, t, f)  BY <2>3
  <2>5. CASE k = 1
    <3>1. At(m, <<1, j>>, t, f)  BY <2>4, <2>5
    <3>2. j <= 6 + Bits /\ FirstState(j, t.state) /\ StrayData(t, f)  BY <2>3, <3>1, AtFirst
    <3>3. FirstState(j, t2.state) /\ StrayData(t2, f)  BY <3>2, Zenon DEF StrayData
    <3>4. At(m, <<1, j>>, t2, f)  BY <2>3, <3>2, <3>3, AtFirst
    <3> QED  BY <2>3, <2>5, <3>4
  <2>6. CASE k = 2
    <3>1. At(m, <<2, j>>, t, f)  BY <2>4, <2>6
    <3>2. j <= 5 + Bits /\ SecondState(j, t.state) /\ StrayData(t, f)  BY <2>3, <3>1, AtSecond
    <3>3. SecondState(j, t2.state) /\ StrayData(t2, f)  BY <3>2, Zenon DEF StrayData
    <3>4. At(m, <<2, j>>, t2, f)  BY <2>3, <3>2, <3>3, AtSecond
    <3> QED  BY <2>3, <2>6, <3>4
  <2>7. CASE k # 1 /\ k # 2
    <3>1. k \in 3 .. Len(Ops(m)) /\ k > 2  BY <2>3, <2>7, OpsTypes
    <3>2. ASSUME NEW c, Ops(m)[k] = Ir(c) PROVE At(m, <<k, j>>, t2, f)
      <4>1. j <= 6 + Bits /\ IrState(j, t.state) /\ IrData(m, k, j, t, f)
        BY <2>3, <2>4, <3>1, <3>2, AtIr
      <4>2. IrState(j, t2.state) /\ IrData(m, k, j, t2, f)  BY <4>1, Zenon DEF IrData
      <4> QED  BY <2>3, <3>1, <3>2, <4>1, <4>2, AtIr
    <3>3. ASSUME NEW c, Ops(m)[k] = Dr(c) PROVE At(m, <<k, j>>, t2, f)
      <4>1. j <= 5 + Bits /\ DrState(j, t.state) /\ DrData(m, k, j, t, f)
        BY <2>3, <2>4, <3>1, <3>3, AtDr
      <4>2. DrState(j, t2.state) /\ DrData(m, k, j, t2, f)  BY <4>1, Zenon DEF DrData
      <4> QED  BY <2>3, <3>1, <3>3, <4>1, <4>2, AtDr
    <3>4. ASSUME NEW c, Ops(m)[k] = Read(c) PROVE At(m, <<k, j>>, t2, f)
      <4>1. j <= 8 + Bits /\ ReadState(j, t.state) /\ ReadData(m, k, j, t, f)
        BY <2>3, <2>4, <3>1, <3>4, AtRead
      <4>2. Ops(m)[k][1] = "read"  BY <3>4 DEF Read
      <4>3. Reading(m, p)  BY <2>1, <2>2, <3>1, <4>2, Zenon DEF Reading
      <4>4. j \notin 6 .. 6 + Bits  BY <2>2, <4>3
      <4>5. PICK B \in Nat \ {0} : B = Bits  BY BitsAssumption
      <4>6. ReadData(m, k, j, t2, f)
        <5>1. CASE j = 5
          <6>1. 1 .. (j - 5) = {} /\ j # 6 + Bits /\ j # 4 /\ j # 7 + Bits /\ j # 8 + Bits
                /\ j \in 5 .. 6 + Bits /\ j <= 4 + Bits
            BY <4>5, <5>1
          <6>2. Known(m, k, t.ir, f) /\ \E v \in ReadsAs(f, t.ir) : ShiftedOut(t.reg, v, j - 5)
            BY <4>1, <6>1, Zenon DEF ReadData
          <6>3. PICK v \in ReadsAs(f, t.ir) : ShiftedOut(t.reg, v, j - 5)  BY <6>2
          <6>4. \A z \in 1 .. (j - 5) : t2.tdo[z] = <<v, z>>  BY <6>1
          <6>5. Known(m, k, t2.ir, f) /\ v \in ReadsAs(f, t2.ir) /\ ShiftedOut(t2.reg, v, j - 5)
            BY <6>2, <6>3
          <6> QED  BY <6>1, <6>4, <6>5, Zenon DEF ReadData
        <5>2. CASE j # 5
          <6>1. j \notin 5 .. 6 + Bits  BY <2>3, <4>4, <4>5, <5>2
          <6> QED  BY <4>1, <6>1, Zenon DEF ReadData
        <5> QED  BY <5>1, <5>2
      <4>7. ReadState(j, t2.state)  BY <4>1
      <4> QED  BY <2>3, <3>1, <3>4, <4>1, <4>6, <4>7, AtRead
    <3>5. ASSUME Ops(m)[k] \in {Run, <<"sync">>} PROVE At(m, <<k, j>>, t2, f)
      <4>1. j <= 1 /\ t.state = "RunTestIdle" /\ Known(m, k, t.ir, f)
        BY <2>3, <2>4, <3>1, <3>5, AtIdle
      <4> QED  BY <2>3, <3>1, <3>5, <4>1, AtIdle
    <3>6. At(m, <<k, j>>, t2, f)  BY <2>3, <3>2, <3>3, <3>4, <3>5, OpKinds
    <3> QED  BY <2>3, <3>6
  <2> QED  BY <2>5, <2>6, <2>7
<1> QED  BY <1>1, <1>2

-----------------------------------------------------------------------------
(* The clocks under way.                                                     *)
LEMMA AfterBack ==
    ASSUME NEW m \in JtagModes, NEW p, Within(m, p), NEW n \in After(m, p)
    PROVE  /\ n \in Places /\ (Within(m, n) \/ n = End(m))
           /\ n[2] > 1 => n[1] = p[1] /\ n[2] = p[2] + 1
<1>1. PICK k, j : k = p[1] /\ j = p[2]  OBVIOUS
<1>2. PICK L : L = Len(Items(Ops(m)[k]))  OBVIOUS
<1>3. /\ k \in 1 .. Len(Ops(m)) /\ j \in 1 .. L /\ k \in Nat \ {0} /\ j \in Nat \ {0} /\ p = <<k, j>>
  BY <1>1, <1>2, WithinParts
<1>4. /\ j < L => n = <<k, j + 1>>
      /\ ~(j < L) => n = <<k + 1, 1>> \/ (n = <<k - 1, 1>> /\ Ops(m)[k] = Read("busy"))
  BY <1>2, <1>3, AfterIs
<1>5. Len(Ops(m)) \in Nat /\ L \in Nat  BY <1>2, <1>3, OpsTypes, ItemsLength
<1>6. CASE j < L
  <2>1. j + 1 \in Nat \ {0} /\ j + 1 <= L /\ k <= Len(Ops(m)) /\ n = <<k, j + 1>>  BY <1>3, <1>4, <1>5, <1>6
  <2>2. Within(m, n)  BY <1>2, <1>3, <2>1, WithinIs
  <2>3. n \in Places /\ n[1] = k /\ n[2] = j + 1  BY <1>3, <2>1, PlaceIs
  <2> QED  BY <1>1, <2>2, <2>3
<1>7. CASE n = <<k + 1, 1>>
  <2>1. k + 1 \in Nat \ {0} /\ 1 \in Nat \ {0}  BY <1>3
  <2>2. n \in Places /\ n[2] = 1  BY <1>7, <2>1, PlaceIs
  <2>3. CASE k = Len(Ops(m))
    <3>1. n = End(m)  BY <1>7, <2>3 DEF End
    <3> QED  BY <2>2, <3>1
  <2>4. CASE k # Len(Ops(m))
    <3>1. k + 1 \in 1 .. Len(Ops(m)) /\ k + 1 <= Len(Ops(m))  BY <1>3, <1>5, <2>4
    <3>2. Len(Items(Ops(m)[k + 1])) \in Nat \ {0}  BY <3>1, ItemsLength
    <3>3. 1 <= Len(Items(Ops(m)[k + 1]))  BY <3>2
    <3>4. Within(m, n)  BY <1>7, <2>1, <3>1, <3>3, WithinIs
    <3> QED  BY <2>2, <3>4
  <2> QED  BY <2>3, <2>4
<1>8. CASE n = <<k - 1, 1>> /\ Ops(m)[k] = Read("busy")
  <2>1. k \in 3 .. Len(Ops(m))
    <3>1. Ops(m)[1] = Ir("ENABLE") /\ Ops(m)[2] = Dr("sram")  BY OpsTypes
    <3>2. Ops(m)[1] # Read("busy") /\ Ops(m)[2] # Read("busy")  BY <3>1 DEF Ir, Dr, Read
    <3>3. k # 1 /\ k # 2  BY <1>8, <3>2
    <3> QED  BY <1>3, <1>5, <3>3
  <2>2. k - 1 \in Nat \ {0} /\ 1 \in Nat \ {0} /\ k - 1 \in 1 .. Len(Ops(m)) /\ k - 1 <= Len(Ops(m))
    BY <1>5, <2>1
  <2>3. n \in Places /\ n[2] = 1  BY <1>8, <2>2, PlaceIs
  <2>4. Len(Items(Ops(m)[k - 1])) \in Nat \ {0}  BY <2>2, ItemsLength
  <2>5. 1 <= Len(Items(Ops(m)[k - 1]))  BY <2>4
  <2>6. Within(m, n)  BY <1>8, <2>2, <2>5, WithinIs
  <2> QED  BY <2>3, <2>6
<1> QED  BY <1>4, <1>6, <1>7, <1>8

LEMMA NoClock ==
    ASSUME NEW m \in JtagModes, NEW p, Reading(m, p), p[2] \in {4, 5 + Bits, 6 + Bits}
    PROVE  ~ClockAt(m, p)
BY ClockParts DEF Reading

(* The place before one within a read.                                       *)
LEMMA ReadBack ==
    ASSUME NEW m \in JtagModes, NEW p, Within(m, p), NEW n \in After(m, p), Reading(m, n), n[2] > 1
    PROVE  Reading(m, p) /\ n[1] = p[1] /\ n[2] = p[2] + 1
<1>1. n[1] = p[1] /\ n[2] = p[2] + 1  BY AfterBack
<1> QED  BY <1>1 DEF Reading

LEMMA SyncPlace ==
    ASSUME NEW m \in JtagModes, NEW p, Within(m, p), ItemAt(m, p)[1] = "sync", Reading(m, p)
    PROVE  p[2] \in {4, 5 + Bits}
<1>1. PICK o, x : o = Ops(m)[p[1]] /\ x = ItemAt(m, p)  OBVIOUS
<1>2. ~AClock(x) /\ \A w : x # <<"resp", w>>
  <2>1. x[1] = "sync"  BY <1>1
  <2>2. \A a, b : x # Clk(a, b)  BY <2>1, ClkIs
  <2> QED  BY <2>1, <2>2 DEF AClock
<1>3. o[1] = "read"  BY <1>1 DEF Reading
<1>4. o # <<"sync">>  BY <1>3
<1> QED  BY <1>1, <1>2, <1>4, ItemKinds

LEMMA TrailTail ==
    ASSUME NEW m \in JtagModes, NEW S, NEW P \in Seq(S), P # <<>>, NEW q \in Seq(Places), NEW h,
           Trail(m, q, h, P)
    PROVE  /\ q # <<>> /\ Tail(q) \in Seq(Places) /\ Tail(P) \in Seq(S)
           /\ Head(P) = ItemAt(m, q[1]) /\ ClockAt(m, q[1])
           /\ Trail(m, Tail(q), h, Tail(P))
           /\ Tail(P) # <<>> => Tail(q) # <<>> /\ Tail(q)[1] \in After(m, q[1]) /\ ClockAt(m, Tail(q)[1])
           /\ Tail(P) = <<>> => Tail(q) = <<>> /\ \E s \in After(m, q[1]) : Skips(m, s, h)
<1>1. /\ Len(q) = Len(P)
      /\ \A i \in 1 .. Len(P) : ClockAt(m, q[i]) /\ P[i] = ItemAt(m, q[i])
      /\ \A i \in 1 .. Len(P) - 1 : q[i + 1] \in After(m, q[i])
      /\ \E s \in After(m, q[Len(P)]) : Skips(m, s, h)
  <2>1. Len(P) > 0  OBVIOUS
  <2> QED  BY <2>1 DEF Trail
<1>2. PICK L \in Nat \ {0} : L = Len(P)  OBVIOUS
<1>3. /\ q # <<>> /\ Tail(q) \in Seq(Places) /\ Tail(P) \in Seq(S) /\ Len(Tail(q)) = L - 1
      /\ Len(Tail(P)) = L - 1 /\ Head(P) = P[1]
      /\ \A i \in 1 .. L - 1 : Tail(q)[i] = q[i + 1] /\ Tail(P)[i] = P[i + 1]
  BY <1>1, <1>2
<1>4. Head(P) = ItemAt(m, q[1]) /\ ClockAt(m, q[1])  BY <1>1, <1>2, <1>3
<1>5. PICK q2, P2 : q2 = Tail(q) /\ P2 = Tail(P)  OBVIOUS
<1>6. /\ q2 \in Seq(Places) /\ P2 \in Seq(S) /\ Len(q2) = L - 1 /\ Len(P2) = L - 1
      /\ \A i \in 1 .. L - 1 : q2[i] = q[i + 1] /\ P2[i] = P[i + 1]
  BY <1>3, <1>5
<1>7. \A i \in 1 .. L - 1 : ClockAt(m, q2[i]) /\ P2[i] = ItemAt(m, q2[i])
  <2> TAKE i \in 1 .. L - 1
  <2>1. i + 1 \in 1 .. L  BY <1>2
  <2> QED  BY <1>1, <1>2, <1>6, <2>1
<1>8. \A i \in 1 .. (L - 1) - 1 : q2[i + 1] \in After(m, q2[i])
  <2> TAKE i \in 1 .. (L - 1) - 1
  <2>1. i + 1 \in 1 .. L - 1 /\ i \in 1 .. L - 1  BY <1>2
  <2>2. q2[i] = q[i + 1] /\ q2[i + 1] = q[(i + 1) + 1]  BY <1>6, <2>1
  <2> QED  BY <1>1, <1>2, <2>1, <2>2
<1>9. L - 1 > 0 => \E s \in After(m, q2[L - 1]) : Skips(m, s, h)
  <2> HAVE L - 1 > 0
  <2>1. L - 1 \in 1 .. L - 1 /\ (L - 1) + 1 = L  BY <1>2
  <2>2. q2[L - 1] = q[L]  BY <1>6, <2>1
  <2> QED  BY <1>1, <1>2, <2>2
<1>10. Trail(m, q2, h, P2)
  <2>1. Len(q2) = Len(P2)  BY <1>6
  <2>2. PICK K : K = Len(P2)  OBVIOUS
  <2>3. K = L - 1  BY <1>6, <2>2
  <2>4. /\ \A i \in 1 .. K : ClockAt(m, q2[i]) /\ P2[i] = ItemAt(m, q2[i])
        /\ \A i \in 1 .. K - 1 : q2[i + 1] \in After(m, q2[i])
        /\ K > 0 => \E s \in After(m, q2[K]) : Skips(m, s, h)
    BY <1>7, <1>8, <1>9, <2>3
  <2> QED  BY <2>1, <2>2, <2>4, Zenon DEF Trail
<1>11. ASSUME P2 # <<>> PROVE q2 # <<>> /\ q2[1] \in After(m, q[1]) /\ ClockAt(m, q2[1])
  <2>1. L - 1 # 0  BY <1>6, <1>11
  <2>2. 1 \in 1 .. L - 1 /\ q2 # <<>>  BY <1>2, <1>6, <2>1
  <2>3. q2[1] = q[1 + 1] /\ ClockAt(m, q2[1])  BY <1>6, <1>7, <2>2
  <2> QED  BY <1>1, <1>2, <2>2, <2>3
<1>12. ASSUME P2 = <<>> PROVE q2 = <<>> /\ \E s \in After(m, q[1]) : Skips(m, s, h)
  <2>1. L - 1 = 0 /\ L = 1  BY <1>2, <1>6, <1>12
  <2>2. q2 = <<>>  BY <1>6, <2>1
  <2> QED  BY <1>1, <1>2, <2>1, <2>2
<1> QED  BY <1>3, <1>4, <1>5, <1>10, <1>11, <1>12

LEMMA EmptyIs == ASSUME NEW S, NEW s \in Seq(S)
                 PROVE  Len(s) \in Nat /\ (s = <<>> <=> Len(s) = 0) /\ (s # <<>> <=> Len(s) > 0)
OBVIOUS

LEMMA EchoHost ==
    ASSUME NEW m, NEW p, NEW h, NEW b, NEW w, NEW n, Echo(m, p, h, b, w, n), Reading(m, h)
    PROVE  /\ w = 0 /\ h[2] \in 5 .. 4 + Bits => b = h[2] - 5
           /\ w = 0 /\ h[2] = 5 + Bits => b \in {0, Bits}
           /\ w > 0 => h[2] \notin 6 .. 4 + Bits
           /\ h[2] = 6 + Bits => b = 0
BY Zenon DEF Echo

LEMMA EchoDevice ==
    ASSUME NEW m, NEW p, NEW h, NEW b, NEW w, NEW n, Echo(m, p, h, b, w, n), Reading(m, p)
    PROVE  /\ w > 0 /\ p[2] \in 5 .. 4 + Bits => n = p[2] - 5
           /\ w = 0 => p[2] \notin 6 .. 4 + Bits
           /\ p[2] \in {5 + Bits, 6 + Bits} => n = Bits
BY Zenon DEF Echo

LEMMA ReadingPlace ==
    ASSUME NEW m \in JtagModes, NEW p, Reading(m, p)
    PROVE  Within(m, p) /\ p[2] \in Nat \ {0} /\ p[1] \in 3 .. Len(Ops(m))
<1>1. Within(m, p) /\ p[1] > 2  BY DEF Reading
<1>2. p[2] \in Nat \ {0} /\ p[1] \in 1 .. Len(Ops(m))  BY <1>1, WithinParts
<1>3. Len(Ops(m)) \in Nat  BY OpsTypes
<1> QED  BY <1>1, <1>2, <1>3

(* The device executes a clock: it gets to the next place, or over the       *)
(* transfer to the host's.                                                   *)
LEMMA TickArrives ==
    ASSUME NEW m \in JtagModes, NEW p, ClockAt(m, p), NEW t, NEW f, NEW s \in After(m, p), NEW h,
           Skips(m, s, h), At(m, s, t, f)
    PROVE  /\ At(m, h, t, f)
           /\ Reading(m, h) /\ h[2] \in {5 + Bits, 6 + Bits} => Reading(m, p) /\ p[2] = 4 + Bits
<1>1. PICK B \in Nat \ {0} : B = Bits  BY BitsAssumption
<1>2. Within(m, p)  BY DEF ClockAt
<1>3. CASE h = s
  <2>1. ASSUME Reading(m, h), h[2] \in {5 + Bits, 6 + Bits} PROVE Reading(m, p) /\ p[2] = 4 + Bits
    <3>1. h[2] > 1  BY <1>1, <2>1
    <3>2. Reading(m, p) /\ h[2] = p[2] + 1  BY <1>2, <1>3, <2>1, <3>1, ReadBack
    <3>3. p[2] \in Nat \ {0}  BY <3>2, ReadingPlace
    <3>4. p[2] # 5 + Bits  BY <3>2, NoClock
    <3> QED  BY <1>1, <2>1, <3>2, <3>3, <3>4
  <2> QED  BY <1>3, <2>1
<1>4. CASE h # s
  <2>1. Within(m, s) /\ ItemAt(m, s)[1] = "sync" /\ h \in After(m, s)  BY <1>4 DEF Skips
  <2>2. At(m, h, t, f)  BY <2>1, SyncStep
  <2>3. ASSUME Reading(m, h), h[2] \in {5 + Bits, 6 + Bits} PROVE Reading(m, p) /\ p[2] = 4 + Bits
    <3>1. h[2] > 1  BY <1>1, <2>3
    <3>2. Reading(m, s) /\ h[2] = s[2] + 1  BY <2>1, <2>3, <3>1, ReadBack
    <3>3. s[2] \in {4, 5 + Bits} /\ s[2] \in Nat  BY <2>1, <3>2, SyncPlace, ReadingPlace
    <3>4. s[2] = 5 + Bits  BY <1>1, <2>3, <3>2, <3>3
    <3>5. s[2] > 1  BY <1>1, <3>4
    <3>6. Reading(m, p) /\ s[2] = p[2] + 1  BY <1>2, <3>2, <3>5, ReadBack
    <3>7. p[2] \in Nat \ {0}  BY <3>6, ReadingPlace
    <3> QED  BY <1>1, <3>4, <3>6, <3>7
  <2> QED  BY <2>2, <2>3
<1> QED  BY <1>3, <1>4

LEMMA PlacedTick ==
    ASSUME NEW m \in JtagModes, NEW S, NEW w \in Seq(S), w # <<>>, NEW q \in Seq(Places), NEW h,
           NEW t, NEW f, NEW t2, NEW f2, Placed(m, q, h, <<>>, w, t, f), TapType(t),
           Clocked(t, f, Head(w)[2], Head(w)[3], t2, f2)
    PROVE  Placed(m, Tail(q), h, <<>>, Tail(w), t2, f2) /\ TapType(t2) /\ Tail(q) \in Seq(Places)
<1>1. PICK q2, w2, p : q2 = Tail(q) /\ w2 = Tail(w) /\ p = q[1]  OBVIOUS
<1>2. /\ Trail(m, q, h, w) /\ (Within(m, h) \/ h = End(m))
      /\ At(m, DeviceAt(q, h), t, f)
      /\ Echo(m, DeviceAt(q, h), h, Len(<<>>), Len(w), Len(t.tdo))
  BY DEF Placed
<1>3. /\ q # <<>> /\ q2 \in Seq(Places) /\ w2 \in Seq(S)
      /\ Head(w) = ItemAt(m, p) /\ ClockAt(m, p)
      /\ Trail(m, q2, h, w2)
      /\ w2 # <<>> => q2 # <<>> /\ q2[1] \in After(m, p) /\ ClockAt(m, q2[1])
      /\ w2 = <<>> => q2 = <<>> /\ \E s \in After(m, p) : Skips(m, s, h)
  <2>1. /\ q # <<>> /\ Tail(q) \in Seq(Places) /\ Tail(w) \in Seq(S)
        /\ Head(w) = ItemAt(m, q[1]) /\ ClockAt(m, q[1])
        /\ Trail(m, Tail(q), h, Tail(w))
        /\ Tail(w) # <<>> => Tail(q) # <<>> /\ Tail(q)[1] \in After(m, q[1]) /\ ClockAt(m, Tail(q)[1])
        /\ Tail(w) = <<>> => Tail(q) = <<>> /\ \E s \in After(m, q[1]) : Skips(m, s, h)
    BY <1>2, TrailTail
  <2> QED  BY <1>1, <2>1, Zenon
<1>4. DeviceAt(q, h) = p  BY <1>1, <1>3 DEF DeviceAt
<1>5. PICK W \in Nat \ {0} : W = Len(w)  OBVIOUS
<1>6. PICK n : n = Len(t.tdo)  OBVIOUS
<1>7. n \in Nat  BY <1>6 DEF TapType
<1>8. At(m, p, t, f) /\ Echo(m, p, h, 0, W, n)  BY <1>2, <1>4, <1>5, <1>6
<1>9. Reading(m, p) /\ p[2] \in 5 .. 4 + Bits => n = p[2] - 5
  <2> HAVE Reading(m, p) /\ p[2] \in 5 .. 4 + Bits
  <2>1. W > 0  BY <1>5
  <2> QED  BY <1>8, <2>1, EchoDevice
<1>10. (\A s \in After(m, p) : At(m, s, t2, f2)) /\ TapType(t2) /\ Len(t2.tdo) = n + 1
  <2>1. Clocked(t, f, ItemAt(m, p)[2], ItemAt(m, p)[3], t2, f2)  BY <1>3
  <2>2. Reading(m, p) /\ p[2] \in 5 .. 4 + Bits => Len(t.tdo) = p[2] - 5  BY <1>6, <1>9
  <2>3. (\A s \in After(m, p) : At(m, s, t2, f2)) /\ TapType(t2) /\ Len(t2.tdo) = Len(t.tdo) + 1
    BY <1>3, <1>8, <2>1, <2>2, ClockStep
  <2> QED  BY <1>6, <2>3
<1>11. PICK W2 \in Nat : W2 = Len(w2) /\ W2 = W - 1
  <2>1. Len(w2) = W - 1 /\ W - 1 \in Nat  BY <1>1, <1>5
  <2> QED  BY <2>1
<1>12. PICK B \in Nat \ {0} : B = Bits  BY BitsAssumption
<1>13. Within(m, p)  BY <1>3 DEF ClockAt
<1>14. PICK p2 : p2 = DeviceAt(q2, h)  OBVIOUS
<1>15. /\ At(m, p2, t2, f2)
       /\ w2 = <<>> => p2 = h
       /\ Reading(m, p2) /\ p2[2] \in {5 + Bits, 6 + Bits} => Reading(m, p) /\ p[2] = 4 + Bits
       /\ w2 # <<>> => ClockAt(m, p2) /\ p2 \in After(m, p)
  <2>1. CASE w2 = <<>>
    <3>1. p2 = h  BY <1>3, <1>14, <2>1 DEF DeviceAt
    <3>2. PICK s \in After(m, p) : Skips(m, s, h)  BY <1>3, <2>1
    <3>3. At(m, s, t2, f2)  BY <1>10, <3>2
    <3>4. /\ At(m, h, t2, f2)
          /\ Reading(m, h) /\ h[2] \in {5 + Bits, 6 + Bits} => Reading(m, p) /\ p[2] = 4 + Bits
      BY <1>3, <3>2, <3>3, TickArrives
    <3> QED  BY <2>1, <3>1, <3>4
  <2>2. CASE w2 # <<>>
    <3>1. p2 = q2[1]  BY <1>3, <1>14, <2>2 DEF DeviceAt
    <3>2. p2 \in After(m, p) /\ ClockAt(m, p2)  BY <1>3, <2>2, <3>1
    <3>3. ~(Reading(m, p2) /\ p2[2] \in {5 + Bits, 6 + Bits})  BY <3>2, NoClock
    <3> QED  BY <1>10, <2>2, <3>2, <3>3
  <2> QED  BY <2>1, <2>2
<1>16. Echo(m, p2, h, 0, W2, n + 1)
  <2>1. ASSUME Reading(m, h)
        PROVE  /\ W2 = 0 /\ h[2] \in 5 .. 4 + Bits => 0 = h[2] - 5
               /\ W2 = 0 /\ h[2] = 5 + Bits => 0 \in {0, Bits}
               /\ W2 > 0 => h[2] \notin 6 .. 4 + Bits
               /\ h[2] = 6 + Bits => 0 = 0
    <3>1. h[2] \notin 6 .. 4 + Bits  BY <1>5, <1>8, <2>1, EchoHost
    <3>2. h[2] \in 5 .. 4 + Bits => h[2] - 5 = 0  BY <1>12, <3>1
    <3> QED  BY <3>1, <3>2
  <2>2. ASSUME Reading(m, p2)
        PROVE  /\ W2 > 0 /\ p2[2] \in 5 .. 4 + Bits => n + 1 = p2[2] - 5
               /\ W2 = 0 => p2[2] \notin 6 .. 4 + Bits
               /\ p2[2] \in {5 + Bits, 6 + Bits} => n + 1 = Bits
    <3>1. ASSUME W2 > 0, p2[2] \in 5 .. 4 + Bits PROVE n + 1 = p2[2] - 5
      <4>1. w2 # <<>>  BY <1>3, <1>11, <3>1, EmptyIs
      <4>2. ClockAt(m, p2) /\ p2 \in After(m, p)  BY <1>15, <4>1
      <4>3. p2[2] > 1  BY <1>12, <3>1
      <4>4. Reading(m, p) /\ p2[2] = p[2] + 1  BY <1>13, <2>2, <4>2, <4>3, ReadBack
      <4>5. p[2] \in Nat \ {0} /\ p[2] # 4  BY <1>3, <4>4, NoClock, ReadingPlace
      <4>6. p[2] \in 5 .. 4 + Bits  BY <1>12, <3>1, <4>4, <4>5
      <4>7. n = p[2] - 5  BY <1>9, <4>4, <4>6
      <4> QED  BY <1>7, <4>4, <4>5, <4>7
    <3>2. ASSUME W2 = 0 PROVE p2[2] \notin 6 .. 4 + Bits
      <4>1. w2 = <<>>  BY <1>3, <1>11, <3>2, EmptyIs
      <4>2. p2 = h  BY <1>15, <4>1
      <4> QED  BY <1>5, <1>8, <2>2, <4>2, EchoHost
    <3>3. ASSUME p2[2] \in {5 + Bits, 6 + Bits} PROVE n + 1 = Bits
      <4>1. Reading(m, p) /\ p[2] = 4 + Bits  BY <1>15, <2>2, <3>3
      <4>2. p[2] \in 5 .. 4 + Bits  BY <1>12, <4>1
      <4>3. n = p[2] - 5  BY <1>9, <4>1, <4>2
      <4> QED  BY <1>12, <4>1, <4>3
    <3> QED  BY <3>1, <3>2, <3>3
  <2> QED  BY <2>1, <2>2, Zenon DEF Echo
<1>17. Placed(m, q2, h, <<>>, w2, t2, f2)
  <2>1. (IF w2 = <<>> THEN <<>> ELSE w2) = w2  OBVIOUS
  <2>2. Echo(m, DeviceAt(q2, h), h, Len(<<>>), Len(w2), Len(t2.tdo))
    <3>1. Len(<<>>) = 0  OBVIOUS
    <3> QED  BY <1>10, <1>11, <1>14, <1>16, <3>1
  <2>3. At(m, DeviceAt(q2, h), t2, f2)  BY <1>14, <1>15
  <2> QED  BY <1>2, <1>3, <2>1, <2>2, <2>3, Zenon DEF Placed
<1> QED  BY <1>1, <1>3, <1>10, <1>17

LEMMA TrailAppend ==
    ASSUME NEW m \in JtagModes, NEW S, NEW P \in Seq(S), NEW q \in Seq(Places), NEW h, NEW h2,
           Trail(m, q, h, P), P # <<>> => h \in After(m, q[Len(q)]), ClockAt(m, h),
           h2 \in After(m, h), ItemAt(m, h) \in S, h \in Places
    PROVE  /\ Trail(m, Append(q, h), h2, Append(P, ItemAt(m, h)))
           /\ Append(q, h) \in Seq(Places) /\ Append(P, ItemAt(m, h)) \in Seq(S)
           /\ Append(q, h) # <<>> /\ Append(P, ItemAt(m, h)) # <<>>
           /\ Append(q, h)[1] = DeviceAt(q, h) /\ Append(q, h)[Len(Append(q, h))] = h
           /\ Len(Append(P, ItemAt(m, h))) = Len(P) + 1 /\ Len(q) = Len(P)
<1>1. /\ Len(q) = Len(P)
      /\ \A i \in 1 .. Len(P) : ClockAt(m, q[i]) /\ P[i] = ItemAt(m, q[i])
      /\ \A i \in 1 .. Len(P) - 1 : q[i + 1] \in After(m, q[i])
  BY DEF Trail
<1>2. PICK L \in Nat : L = Len(P)  OBVIOUS
<1>3. PICK x, q2, P2 : x \in S /\ x = ItemAt(m, h) /\ q2 = Append(q, h) /\ P2 = Append(P, x)  OBVIOUS
<1>4. /\ P2 \in Seq(S) /\ Len(P2) = L + 1 /\ P2[L + 1] = x /\ \A i \in 1 .. L : P2[i] = P[i]
  BY <1>2, <1>3, AppendShape
<1>5. /\ q2 \in Seq(Places) /\ Len(q2) = L + 1 /\ q2[L + 1] = h /\ \A i \in 1 .. L : q2[i] = q[i]
  BY <1>1, <1>2, <1>3, AppendShape
<1>6. \A i \in 1 .. L + 1 : ClockAt(m, q2[i]) /\ P2[i] = ItemAt(m, q2[i])
  <2> TAKE i \in 1 .. L + 1
  <2>1. CASE i = L + 1
    <3>1. q2[i] = h /\ P2[i] = x  BY <1>4, <1>5, <2>1
    <3> QED  BY <1>3, <3>1
  <2>2. CASE i # L + 1
    <3>1. i \in 1 .. L  BY <1>2, <2>2
    <3>2. q2[i] = q[i] /\ P2[i] = P[i]  BY <1>4, <1>5, <3>1
    <3> QED  BY <1>1, <1>2, <3>1, <3>2
  <2> QED  BY <2>1, <2>2
<1>7. \A i \in 1 .. (L + 1) - 1 : q2[i + 1] \in After(m, q2[i])
  <2> TAKE i \in 1 .. (L + 1) - 1
  <2>0. i \in 1 .. L  BY <1>2
  <2>1. CASE i = L
    <3>1. q2[i + 1] = h /\ q2[i] = q[i]  BY <1>5, <2>0, <2>1
    <3>2. P # <<>>  BY <1>2, <2>0
    <3> QED  BY <1>1, <1>2, <2>1, <3>1, <3>2
  <2>2. CASE i # L
    <3>1. i \in 1 .. L - 1 /\ i + 1 \in 1 .. L  BY <1>2, <2>0, <2>2
    <3>2. q2[i + 1] = q[i + 1] /\ q2[i] = q[i]  BY <1>5, <2>0, <3>1
    <3> QED  BY <1>1, <1>2, <3>1, <3>2
  <2> QED  BY <2>1, <2>2
<1>8. \E s \in After(m, q2[L + 1]) : Skips(m, s, h2)
  <2>1. Skips(m, h2, h2)  BY DEF Skips
  <2> QED  BY <1>5, <2>1
<1>9. Trail(m, q2, h2, P2)
  <2>1. Len(q2) = Len(P2)  BY <1>4, <1>5
  <2>2. PICK K : K = Len(P2)  OBVIOUS
  <2>3. K = L + 1  BY <1>4, <2>2
  <2>4. /\ \A i \in 1 .. K : ClockAt(m, q2[i]) /\ P2[i] = ItemAt(m, q2[i])
        /\ \A i \in 1 .. K - 1 : q2[i + 1] \in After(m, q2[i])
        /\ K > 0 => \E s \in After(m, q2[K]) : Skips(m, s, h2)
    BY <1>6, <1>7, <1>8, <2>3
  <2> QED  BY <2>1, <2>2, <2>4, Zenon DEF Trail
<1>10. q2[1] = DeviceAt(q, h)
  <2>1. CASE q = <<>>
    <3>1. L = 0  BY <1>1, <1>2, <2>1
    <3>2. q2[1] = h  BY <1>5, <3>1
    <3> QED  BY <2>1, <3>2 DEF DeviceAt
  <2>2. CASE q # <<>>
    <3>1. 1 \in 1 .. L  BY <1>1, <1>2, <2>2
    <3>2. q2[1] = q[1]  BY <1>5, <3>1
    <3> QED  BY <2>2, <3>2 DEF DeviceAt
  <2> QED  BY <2>1, <2>2
<1>11. q2 # <<>> /\ P2 # <<>>
  <2>1. L + 1 # 0  BY <1>2
  <2> QED  BY <1>4, <1>5, <2>1, EmptyIs
<1> QED  BY <1>1, <1>2, <1>3, <1>4, <1>5, <1>9, <1>10, <1>11

(* The host puts a clock into the buffer.                                    *)
LEMMA PlacedClk ==
    ASSUME NEW m \in JtagModes, NEW S, NEW b \in Seq(S), NEW q \in Seq(Places), NEW h, NEW h2, NEW t, NEW f,
           Placed(m, q, h, b, <<>>, t, f), ClockAt(m, h), h2 \in After(m, h), ItemAt(m, h) \in S
    PROVE  /\ Placed(m, Append(q, h), h2, Append(b, ItemAt(m, h)), <<>>, t, f)
           /\ Append(q, h) \in Seq(Places) /\ h2 \in Places
<1>1. PICK q2, b2 : q2 = Append(q, h) /\ b2 = Append(b, ItemAt(m, h))  OBVIOUS
<1>2. /\ Trail(m, q, h, b) /\ (b # <<>> => h \in After(m, q[Len(q)]))
      /\ At(m, DeviceAt(q, h), t, f)
      /\ Echo(m, DeviceAt(q, h), h, Len(b), Len(<<>>), Len(t.tdo))
  BY DEF Placed
<1>3. Within(m, h)  BY DEF ClockAt
<1>4. h \in Places  BY <1>3, WithinParts
<1>5. /\ Trail(m, q2, h2, b2) /\ q2 \in Seq(Places) /\ b2 \in Seq(S) /\ q2 # <<>> /\ b2 # <<>>
      /\ q2[1] = DeviceAt(q, h) /\ q2[Len(q2)] = h /\ Len(b2) = Len(b) + 1
  BY <1>1, <1>2, <1>4, TrailAppend
<1>6. DeviceAt(q2, h2) = DeviceAt(q, h)  BY <1>5 DEF DeviceAt
<1>7. h2 \in Places /\ (Within(m, h2) \/ h2 = End(m))  BY <1>3, AfterBack
<1>8. PICK p, n, N : p = DeviceAt(q, h) /\ n = Len(t.tdo) /\ N = Len(b)  OBVIOUS
<1>9. N \in Nat  BY <1>8
<1>10. Echo(m, p, h, N, 0, n)
  <2>1. Len(<<>>) = 0  OBVIOUS
  <2> QED  BY <1>2, <1>8, <2>1
<1>11. PICK B \in Nat \ {0} : B = Bits  BY BitsAssumption
<1>12. Echo(m, p, h2, N + 1, 0, n)
  <2>1. ASSUME Reading(m, h2)
        PROVE  /\ 0 = 0 /\ h2[2] \in 5 .. 4 + Bits => N + 1 = h2[2] - 5
               /\ 0 = 0 /\ h2[2] = 5 + Bits => N + 1 \in {0, Bits}
               /\ 0 > 0 => h2[2] \notin 6 .. 4 + Bits
               /\ h2[2] = 6 + Bits => N + 1 = 0
    <3>1. CASE h2[2] \in 5 .. 6 + Bits
      <4>1. h2[2] > 1  BY <1>11, <3>1
      <4>2. Reading(m, h) /\ h2[2] = h[2] + 1  BY <1>3, <2>1, <4>1, ReadBack
      <4>3. h[2] \in Nat \ {0} /\ h[2] \notin {4, 5 + Bits, 6 + Bits}  BY <4>2, NoClock, ReadingPlace
      <4>4. h[2] \in 5 .. 4 + Bits  BY <1>11, <3>1, <4>2, <4>3
      <4>5. N = h[2] - 5  BY <1>10, <4>2, <4>4, EchoHost
      <4>6. N + 1 = h2[2] - 5 /\ h2[2] # 6 + Bits  BY <1>9, <1>11, <4>2, <4>3, <4>4, <4>5
      <4>7. h2[2] = 5 + Bits => N + 1 = Bits  BY <1>11, <4>6
      <4> QED  BY <4>6, <4>7
    <3>2. CASE h2[2] \notin 5 .. 6 + Bits  BY <1>11, <3>2
    <3> QED  BY <3>1, <3>2
  <2>2. ASSUME Reading(m, p)
        PROVE  /\ 0 > 0 /\ p[2] \in 5 .. 4 + Bits => n = p[2] - 5
               /\ 0 = 0 => p[2] \notin 6 .. 4 + Bits
               /\ p[2] \in {5 + Bits, 6 + Bits} => n = Bits
    BY <1>10, <2>2, EchoDevice
  <2> QED  BY <2>1, <2>2, Zenon DEF Echo
<1>13. Placed(m, q2, h2, b2, <<>>, t, f)
  <2>1. Echo(m, DeviceAt(q2, h2), h2, Len(b2), Len(<<>>), Len(t.tdo))
    <3>1. Len(<<>>) = 0  OBVIOUS
    <3> QED  BY <1>5, <1>6, <1>8, <1>12, <3>1
  <2>2. h2 \in After(m, q2[Len(q2)])  BY <1>5
  <2>3. At(m, DeviceAt(q2, h2), t, f)  BY <1>2, <1>6
  <2> QED  BY <1>5, <1>7, <2>1, <2>2, <2>3, Zenon DEF Placed
<1> QED  BY <1>1, <1>5, <1>7, <1>13

(* A request is sent: the host goes on, over a transfer if it is at one.     *)
LEMMA PlacedSend ==
    ASSUME NEW m \in JtagModes, NEW S, NEW b \in Seq(S), b # <<>>, NEW q \in Seq(Places), NEW h, NEW h2,
           NEW t, NEW f, NEW t2, Placed(m, q, h, b, <<>>, t, f), Skips(m, h, h2),
           Within(m, h2) \/ h2 = End(m), Reading(m, h2) => h2[2] \notin 6 .. 4 + Bits,
           t2.state = t.state, t2.ir = t.ir, t2.reg = t.reg, t2.tdo = <<>>
    PROVE  /\ Placed(m, q, h2, <<>>, b, t2, f)
           /\ Placed(m, <<>>, DeviceAt(q, h), <<>>, <<>>, t2, f) /\ DeviceAt(q, h) \in Places
<1>1. /\ Trail(m, q, h, b) /\ h \in After(m, q[Len(q)])
      /\ At(m, DeviceAt(q, h), t, f)
      /\ Echo(m, DeviceAt(q, h), h, Len(b), Len(<<>>), Len(t.tdo))
  BY DEF Placed
<1>2. PICK L \in Nat \ {0} : L = Len(b)  OBVIOUS
<1>3. /\ Len(q) = Len(b)
      /\ \A i \in 1 .. Len(b) : ClockAt(m, q[i]) /\ b[i] = ItemAt(m, q[i])
      /\ \A i \in 1 .. Len(b) - 1 : q[i + 1] \in After(m, q[i])
  BY <1>1 DEF Trail
<1>4. PICK p, n : p = q[1] /\ n = Len(t.tdo)  OBVIOUS
<1>5. q # <<>> /\ 1 \in 1 .. L  BY <1>2, <1>3
<1>6. ClockAt(m, p) /\ DeviceAt(q, h) = p /\ DeviceAt(q, h2) = p  BY <1>2, <1>3, <1>4, <1>5 DEF DeviceAt
<1>7. Within(m, p)  BY <1>6 DEF ClockAt
<1>8. PICK B \in Nat \ {0} : B = Bits  BY BitsAssumption
<1>9. Echo(m, p, h, L, 0, n)
  <2>1. Len(<<>>) = 0  OBVIOUS
  <2> QED  BY <1>1, <1>2, <1>4, <1>6, <2>1
<1>10. ASSUME Reading(m, p) PROVE p[2] \notin 6 .. 4 + Bits /\ p[2] \notin {5 + Bits, 6 + Bits} /\ p[2] \in Nat
  BY <1>6, <1>9, <1>10, EchoDevice, NoClock, ReadingPlace
<1>11. At(m, p, t2, f)
  <2>1. ~(Reading(m, p) /\ p[2] \in 6 .. 6 + Bits)
    <3>1. SUFFICES ASSUME Reading(m, p) PROVE p[2] \notin 6 .. 6 + Bits  OBVIOUS
    <3> QED  BY <1>8, <1>10, <3>1
  <2>2. At(m, p, t, f)  BY <1>1, <1>6
  <2> QED  BY <2>1, <2>2, ClearStep
<1>12. Len(<<>>) = 0 /\ Len(t2.tdo) = 0  OBVIOUS
<1>13. Placed(m, q, h2, <<>>, b, t2, f)
  <2>1. Trail(m, q, h2, b)
    <3>1. \E s \in After(m, q[Len(b)]) : Skips(m, s, h2)  BY <1>1, <1>3
    <3> QED  BY <1>3, <3>1, Zenon DEF Trail
  <2>2. Echo(m, p, h2, 0, L, 0)
    <3>1. ASSUME Reading(m, h2)
          PROVE  /\ L = 0 /\ h2[2] \in 5 .. 4 + Bits => 0 = h2[2] - 5
                 /\ L = 0 /\ h2[2] = 5 + Bits => 0 \in {0, Bits}
                 /\ L > 0 => h2[2] \notin 6 .. 4 + Bits
                 /\ h2[2] = 6 + Bits => 0 = 0
      BY <1>2, <3>1
    <3>2. ASSUME Reading(m, p)
          PROVE  /\ L > 0 /\ p[2] \in 5 .. 4 + Bits => 0 = p[2] - 5
                 /\ L = 0 => p[2] \notin 6 .. 4 + Bits
                 /\ p[2] \in {5 + Bits, 6 + Bits} => 0 = Bits
      BY <1>2, <1>8, <1>10, <3>2
    <3> QED  BY <3>1, <3>2, Zenon DEF Echo
  <2>3. Echo(m, DeviceAt(q, h2), h2, Len(<<>>), Len(b), Len(t2.tdo))  BY <1>2, <1>6, <1>12, <2>2
  <2>4. At(m, DeviceAt(q, h2), t2, f)  BY <1>6, <1>11
  <2> QED  BY <2>1, <2>3, <2>4, Zenon DEF Placed
<1>14. Placed(m, <<>>, p, <<>>, <<>>, t2, f)
  <2>1. Trail(m, <<>>, p, <<>>)
    <3>1. PICK e : e = <<>>  OBVIOUS
    <3>2. Len(e) = 0 /\ 1 .. 0 = {} /\ 1 .. 0 - 1 = {} /\ ~(0 > 0)  BY <3>1
    <3>3. Trail(m, e, p, e)  BY <3>2 DEF Trail
    <3> QED  BY <3>1, <3>3
  <2>2. DeviceAt(<<>>, p) = p  BY DEF DeviceAt
  <2>3. Echo(m, p, p, 0, 0, 0)
    <3>1. ASSUME Reading(m, p)
          PROVE  /\ /\ 0 = 0 /\ p[2] \in 5 .. 4 + Bits => 0 = p[2] - 5
                    /\ 0 = 0 /\ p[2] = 5 + Bits => 0 \in {0, Bits}
                    /\ 0 > 0 => p[2] \notin 6 .. 4 + Bits
                    /\ p[2] = 6 + Bits => 0 = 0
                 /\ /\ 0 > 0 /\ p[2] \in 5 .. 4 + Bits => 0 = p[2] - 5
                    /\ 0 = 0 => p[2] \notin 6 .. 4 + Bits
                    /\ p[2] \in {5 + Bits, 6 + Bits} => 0 = Bits
      BY <1>8, <1>10, <3>1
    <3> QED  BY <3>1, Zenon DEF Echo
  <2>4. Echo(m, DeviceAt(<<>>, p), p, Len(<<>>), Len(<<>>), Len(t2.tdo))  BY <1>12, <2>2, <2>3
  <2>5. At(m, DeviceAt(<<>>, p), t2, f)  BY <1>11, <2>2
  <2>6. (IF <<>> = <<>> THEN <<>> ELSE <<>>) = <<>>  OBVIOUS
  <2> QED  BY <1>7, <2>1, <2>4, <2>5, <2>6, Zenon DEF Placed
<1>15. p \in Places  BY <1>7, WithinParts
<1> QED  BY <1>6, <1>13, <1>14, <1>15

(* With nothing in the buffer a transfer does nothing.                       *)
LEMMA PlacedSync ==
    ASSUME NEW m \in JtagModes, NEW q \in Seq(Places), NEW h, NEW h2, NEW t, NEW f,
           Placed(m, q, h, <<>>, <<>>, t, f), Within(m, h), ItemAt(m, h)[1] = "sync", h2 \in After(m, h)
    PROVE  Placed(m, q, h2, <<>>, <<>>, t, f) /\ h2 \in Places
<1>1. /\ Trail(m, q, h, <<>>)
      /\ At(m, DeviceAt(q, h), t, f)
      /\ Echo(m, DeviceAt(q, h), h, Len(<<>>), Len(<<>>), Len(t.tdo))
  BY DEF Placed
<1>2. Len(<<>>) = 0  OBVIOUS
<1>3. q = <<>>
  <2>1. Len(q) = Len(<<>>)  BY <1>1, Zenon DEF Trail
  <2> QED  BY <1>2, <2>1, EmptyIs
<1>4. DeviceAt(q, h) = h /\ DeviceAt(q, h2) = h2  BY <1>3 DEF DeviceAt
<1>5. PICK n : n = Len(t.tdo)  OBVIOUS
<1>6. Echo(m, h, h, 0, 0, n)  BY <1>1, <1>2, <1>4, <1>5
<1>7. At(m, h2, t, f)  BY <1>1, <1>4, SyncStep
<1>8. h2 \in Places /\ (Within(m, h2) \/ h2 = End(m))  BY AfterBack
<1>9. PICK B \in Nat \ {0} : B = Bits  BY BitsAssumption
<1>10. Echo(m, h2, h2, 0, 0, n)
  <2>1. ASSUME Reading(m, h2)
        PROVE  /\ h2[2] \in 5 .. 4 + Bits => 0 = h2[2] - 5
               /\ h2[2] \notin 6 .. 5 + Bits
               /\ h2[2] \in {5 + Bits, 6 + Bits} => n = Bits
    <3>1. CASE h2[2] \in 5 .. 6 + Bits
      <4>1. h2[2] > 1  BY <1>9, <3>1
      <4>2. Reading(m, h) /\ h2[2] = h[2] + 1  BY <2>1, <4>1, ReadBack
      <4>3. h[2] \in {4, 5 + Bits}  BY <4>2, SyncPlace
      <4>4. h[2] = 5 + Bits => n = Bits  BY <1>6, <4>2, EchoDevice
      <4> QED  BY <1>9, <4>2, <4>3, <4>4
    <3>2. CASE h2[2] \notin 5 .. 6 + Bits  BY <1>9, <3>2
    <3> QED  BY <3>1, <3>2
  <2>2. Reading(m, h2) => h2[2] # 5 + Bits /\ h2[2] \notin 6 .. 4 + Bits  BY <1>9, <2>1
  <2>3. ~(0 > 0) /\ 0 \in {0, Bits}  OBVIOUS
  <2> QED  BY <2>1, <2>2, <2>3, Zenon DEF Echo
<1>11. Trail(m, q, h2, <<>>)
  <2>1. PICK e : e = <<>>  OBVIOUS
  <2>2. Len(e) = 0 /\ 1 .. 0 = {} /\ 1 .. 0 - 1 = {} /\ ~(0 > 0)  BY <2>1
  <2>3. Trail(m, e, h2, e)  BY <2>2 DEF Trail
  <2> QED  BY <1>3, <2>1, <2>3
<1>12. Echo(m, DeviceAt(q, h2), h2, Len(<<>>), Len(<<>>), Len(t.tdo))  BY <1>2, <1>4, <1>5, <1>10
<1>13. At(m, DeviceAt(q, h2), t, f)  BY <1>4, <1>7
<1>14. (IF <<>> = <<>> THEN <<>> ELSE <<>>) = <<>>  OBVIOUS
<1> QED  BY <1>8, <1>11, <1>12, <1>13, <1>14, Zenon DEF Placed

(* The response to a read.                                                   *)
LEMMA PlacedResp ==
    ASSUME NEW m \in JtagModes, NEW S, NEW b \in Seq(S), NEW q \in Seq(Places),
           NEW k \in 3 .. Len(Ops(m)), NEW w, Ops(m)[k] = Read(w), NEW h, h = <<k, 6 + Bits>>,
           NEW t, NEW f, Placed(m, q, h, b, <<>>, t, f), TapType(t)
    PROVE  LET value == ValueOf(SubSeq(t.tdo, 1, Bits))
           IN  /\ value # Junk
               /\ value = Answered(w) \/ w = "busy" => Placed(m, q, <<k, 7 + Bits>>, b, <<>>, t, f)
<1>1. /\ Trail(m, q, h, b)
      /\ At(m, DeviceAt(q, h), t, f)
      /\ Echo(m, DeviceAt(q, h), h, Len(b), Len(<<>>), Len(t.tdo))
  BY DEF Placed
<1>2. PICK B \in Nat \ {0} : B = Bits  BY BitsAssumption
<1>3. Len(<<>>) = 0  OBVIOUS
<1>4. Len(Ops(m)) \in Nat  BY OpsTypes
<1>5. /\ 6 + Bits \in Nat \ {0} /\ 7 + Bits \in Nat \ {0} /\ k \in Nat \ {0} /\ k <= Len(Ops(m))
      /\ 6 + Bits <= 8 + Bits /\ 7 + Bits <= 8 + Bits
  BY <1>2, <1>4
<1>6. Len(Items(Ops(m)[k])) = 8 + Bits  BY ItemsAre, ReadItems
<1>7. Within(m, h)  BY <1>5, <1>6, WithinIs
<1>8. h[1] = k /\ h[2] = 6 + Bits  BY <1>5, PlaceIs
<1>9. Reading(m, h)
  <2>1. Ops(m)[k][1] = "read" /\ k > 2  BY <1>4 DEF Read
  <2> QED  BY <1>7, <1>8, <2>1, Zenon DEF Reading
<1>10. b = <<>>
  <2>1. Len(b) = 0  BY <1>1, <1>8, <1>9, EchoHost
  <2> QED  BY <2>1, EmptyIs
<1>11. q = <<>>
  <2>1. Len(q) = Len(b)  BY <1>1, Zenon DEF Trail
  <2> QED  BY <1>3, <1>10, <2>1, EmptyIs
<1>12. DeviceAt(q, h) = h  BY <1>11 DEF DeviceAt
<1>13. Len(t.tdo) = Bits  BY <1>1, <1>8, <1>9, <1>12, EchoDevice, SMTT(20)
<1>14. At(m, <<k, 6 + Bits>>, t, f)  BY <1>1, <1>12
<1>15. PICK value : value = ValueOf(SubSeq(t.tdo, 1, Bits))  OBVIOUS
<1>16. value # Junk /\ (value = Answered(w) \/ w = "busy" => At(m, <<k, 7 + Bits>>, t, f))
  BY <1>13, <1>14, <1>15, RespStep
<1>17. ASSUME value = Answered(w) \/ w = "busy" PROVE Placed(m, q, <<k, 7 + Bits>>, b, <<>>, t, f)
  <2>1. PICK h2 : h2 = <<k, 7 + Bits>>  OBVIOUS
  <2>2. At(m, h2, t, f)  BY <1>16, <1>17, <2>1
  <2>3. Within(m, h2)  BY <1>5, <1>6, <2>1, WithinIs
  <2>4. h2[2] = 7 + Bits  BY <1>5, <2>1, PlaceIs
  <2>5. DeviceAt(q, h2) = h2  BY <1>11 DEF DeviceAt
  <2>6. /\ h2[2] \notin 5 .. 4 + Bits /\ h2[2] # 5 + Bits /\ h2[2] \notin 6 .. 4 + Bits
        /\ h2[2] # 6 + Bits /\ h2[2] \notin {5 + Bits, 6 + Bits}
    BY <1>2, <2>4
  <2>7. Echo(m, DeviceAt(q, h2), h2, Len(b), Len(<<>>), Len(t.tdo))  BY <2>5, <2>6, Zenon DEF Echo
  <2>8. Trail(m, q, h2, b)
    <3>1. PICK e : e = <<>>  OBVIOUS
    <3>2. Len(e) = 0 /\ 1 .. 0 = {} /\ 1 .. 0 - 1 = {} /\ ~(0 > 0)  BY <3>1
    <3>3. Trail(m, e, h2, e)  BY <3>2 DEF Trail
    <3> QED  BY <1>10, <1>11, <3>1, <3>3
  <2>9. At(m, DeviceAt(q, h2), t, f)  BY <2>2, <2>5
  <2>10. Placed(m, q, h2, b, <<>>, t, f)  BY <1>10, <2>3, <2>7, <2>8, <2>9, Zenon DEF Placed
  <2> QED  BY <2>1, <2>10
<1> QED  BY <1>15, <1>16, <1>17

-----------------------------------------------------------------------------
(* What the host has left of the operation under way.                        *)
AllItems == {ItemAt(m, p) : m \in JtagModes, p \in Places}

ARecord(t) == t = [state |-> t.state, ir |-> t.ir, reg |-> t.reg, tdo |-> t.tdo]

LEMMA RecordIs ==
    ASSUME NEW a, NEW b, NEW c, NEW d, NEW t, t = [state |-> a, ir |-> b, reg |-> c, tdo |-> d]
    PROVE  ARecord(t) /\ t.state = a /\ t.ir = b /\ t.reg = c /\ t.tdo = d
BY DEF ARecord

LEMMA RecordCleared ==
    ASSUME NEW t, ARecord(t), NEW t2, t2 = [t EXCEPT !.tdo = <<>>]
    PROVE  ARecord(t2) /\ t2.state = t.state /\ t2.ir = t.ir /\ t2.reg = t.reg /\ t2.tdo = <<>>
<1>1. PICK a, b, c, d : t = [state |-> a, ir |-> b, reg |-> c, tdo |-> d]  BY DEF ARecord
<1>2. t2 = [state |-> a, ir |-> b, reg |-> c, tdo |-> <<>>]  BY <1>1
<1> QED  BY <1>1, <1>2, RecordIs

LEMMA ExecuteIs ==
    ASSUME ExecuteClock
    PROVE  /\ wire # <<>> /\ wire' = Tail(wire) /\ UNCHANGED <<mode, pc, op, items, buf, mcu, garbled>>
           /\ Clocked(tap, fpga, Head(wire)[2], Head(wire)[3], tap', fpga') /\ ARecord(tap')
<1>1. /\ wire # <<>> /\ wire' = Tail(wire) /\ UNCHANGED <<mode, pc, op, items, buf, mcu, garbled>>
  BY DEF ExecuteClock
<1> DEFINE next == TapNext(tap.state, Head(wire)[3])
<1>2. \E busy \in {"busy", "idle"}, status \in {"ok", "fail"}, flaw \in 0 .. 1 :
        LET reg == Shifting(tap, fpga, Head(wire)[2], busy, status)
            ir  == IF next = "UpdateIR" THEN ValueOf(reg) ELSE tap.ir
        IN /\ busy = "busy" => busyLeft > 0 /\ tap.state = "CaptureDR" /\ tap.ir = "CHECK_BUSY"
           /\ status = "fail" => tap.state = "CaptureDR" /\ tap.ir = "READ_STATUS"
           /\ flaw = 1 => flawsLeft > 0 /\ next = "UpdateDR" /\ tap.ir \in Writing
           /\ tap' = [state |-> next, ir |-> ir, reg |-> reg,
                      tdo |-> Append(tap.tdo, IF tap.state = "ShiftDR" THEN Head(tap.reg) ELSE <<Junk, 0>>)]
           /\ fpga' = Updating(fpga, next, ir, IF flaw = 1 THEN "flawed" ELSE ValueOf(reg))
           /\ busyLeft' = IF busy = "busy" THEN busyLeft - 1 ELSE busyLeft
           /\ flawsLeft' = flawsLeft - flaw
  BY Zenon DEF ExecuteClock
<1>3. PICK busy \in {"busy", "idle"}, status \in {"ok", "fail"}, flaw \in 0 .. 1 :
        LET reg == Shifting(tap, fpga, Head(wire)[2], busy, status)
            ir  == IF next = "UpdateIR" THEN ValueOf(reg) ELSE tap.ir
        IN /\ busy = "busy" => busyLeft > 0 /\ tap.state = "CaptureDR" /\ tap.ir = "CHECK_BUSY"
           /\ status = "fail" => tap.state = "CaptureDR" /\ tap.ir = "READ_STATUS"
           /\ flaw = 1 => flawsLeft > 0 /\ next = "UpdateDR" /\ tap.ir \in Writing
           /\ tap' = [state |-> next, ir |-> ir, reg |-> reg,
                      tdo |-> Append(tap.tdo, IF tap.state = "ShiftDR" THEN Head(tap.reg) ELSE <<Junk, 0>>)]
           /\ fpga' = Updating(fpga, next, ir, IF flaw = 1 THEN "flawed" ELSE ValueOf(reg))
           /\ busyLeft' = IF busy = "busy" THEN busyLeft - 1 ELSE busyLeft
           /\ flawsLeft' = flawsLeft - flaw
  BY <1>2, Zenon
<1>4. PICK t, f, tdi, tms, t2, f2, reg, ir, v :
        /\ t = tap /\ f = fpga /\ tdi = Head(wire)[2] /\ tms = Head(wire)[3] /\ t2 = tap' /\ f2 = fpga'
        /\ reg = Shifting(tap, fpga, Head(wire)[2], busy, status)
        /\ ir = IF next = "UpdateIR" THEN ValueOf(reg) ELSE tap.ir
        /\ v = IF flaw = 1 THEN "flawed" ELSE ValueOf(reg)
  BY Zenon
<1>5. /\ ARecord(t2) /\ t2.state = TapNext(t.state, tms) /\ t2.ir = ir /\ t2.reg = reg
      /\ t2.tdo = Append(t.tdo, IF t.state = "ShiftDR" THEN Head(t.reg) ELSE <<Junk, 0>>)
  BY <1>3, <1>4, RecordIs
<1>6. /\ reg = Shifting(t, f, tdi, busy, status)
      /\ ir = IF t2.state = "UpdateIR" THEN ValueOf(reg) ELSE t.ir
      /\ f2 = Updating(f, t2.state, ir, v)
      /\ flaw = 1 => t.ir \in Writing
  BY <1>3, <1>4, <1>5, Zenon
<1>7. /\ t.state \in {"ShiftDR", "ShiftIR"} => t2.reg = Append(Tail(t.reg), tdi)
      /\ t.state = "CaptureIR" => t2.reg = BitsOf(Junk)
      /\ t.state \notin {"ShiftDR", "ShiftIR", "CaptureDR", "CaptureIR"} => t2.reg = t.reg
  BY <1>5, <1>6 DEF Shifting
<1>8. ASSUME t.state = "CaptureDR" PROVE \E w \in ReadsAs(f, t.ir) : t2.reg = BitsOf(w)
  <2>1. t2.reg = BitsOf(Captured(f, t.ir, busy, status))  BY <1>5, <1>6, <1>8 DEF Shifting
  <2>2. Captured(f, t.ir, busy, status) \in ReadsAs(f, t.ir)  BY <1>3 DEF ReadsAs
  <2> QED  BY <2>1, <2>2
<1>9. ASSUME t2.state = "UpdateIR" PROVE t2.ir = ValueOf(t2.reg) /\ f2 = UpdateIR(f, t2.ir)
  BY <1>5, <1>6, <1>9 DEF Updating
<1>10. t2.state # "UpdateIR" => t2.ir = t.ir  BY <1>5, <1>6
<1>11. ASSUME t2.state = "UpdateDR"
       PROVE  \E w : /\ w = ValueOf(t2.reg) \/ (w = "flawed" /\ t.ir \in Writing)
                     /\ f2 = UpdateDR(f, t.ir, w)
  <2>1. f2 = UpdateDR(f, t.ir, v)  BY <1>5, <1>6, <1>10, <1>11 DEF Updating
  <2>2. v = ValueOf(t2.reg) \/ (v = "flawed" /\ t.ir \in Writing)  BY <1>4, <1>5, <1>6
  <2> QED  BY <2>1, <2>2
<1>12. t2.state \notin {"UpdateIR", "UpdateDR"} => f2 = f  BY <1>6 DEF Updating
<1>13. Clocked(t, f, tdi, tms, t2, f2)
  BY <1>5, <1>7, <1>8, <1>9, <1>10, <1>11, <1>12, Zenon DEF Clocked
<1> QED  BY <1>1, <1>4, <1>5, <1>13

LEMMA SeqInto ==
    ASSUME NEW S, NEW T, NEW s \in Seq(S), \A j \in 1 .. Len(s) : s[j] \in T
    PROVE  s \in Seq(T)
<1>1. Len(s) \in Nat /\ DOMAIN s = 1 .. Len(s) /\ s = [j \in 1 .. Len(s) |-> s[j]]  OBVIOUS
<1>2. s \in [1 .. Len(s) -> T]  BY <1>1
<1> QED  BY <1>1, <1>2

LEMMA ItemsSeq ==
    ASSUME NEW m \in JtagModes, NEW k \in 1 .. Len(Ops(m))
    PROVE  Items(Ops(m)[k]) \in Seq(AllItems) /\ Items(Ops(m)[k]) # <<>>
<1>1. PICK o, s : o = Ops(m)[k] /\ s = Items(o)  OBVIOUS
<1>2. \E S : s \in Seq(S)
  <2>1. ASSUME NEW c, o = Ir(c) PROVE \E S : s \in Seq(S)  BY <1>1, <2>1, ItemsAre, IrItemsIn
  <2>2. ASSUME NEW c, o = Dr(c) PROVE \E S : s \in Seq(S)  BY <1>1, <2>2, ItemsAre, DrItemsIn
  <2>3. ASSUME NEW c, o = Read(c) PROVE \E S : s \in Seq(S)  BY <1>1, <2>3, ItemsAre, ReadItemsIn
  <2>4. ASSUME o = Run PROVE \E S : s \in Seq(S)
    <3>1. PICK x : x = Clk(Zero, 0)  OBVIOUS
    <3>2. s = <<x>>  BY <1>1, <2>4, <3>1, ItemsAre DEF JtagRun
    <3>3. <<x>> \in Seq({x})  OBVIOUS
    <3> QED  BY <3>2, <3>3
  <2>5. ASSUME o = <<"sync">> PROVE \E S : s \in Seq(S)
    <3>1. PICK x : x = <<"sync">>  OBVIOUS
    <3>2. s = <<x>>  BY <1>1, <2>5, <3>1, ItemsAre
    <3>3. <<x>> \in Seq({x})  OBVIOUS
    <3> QED  BY <3>2, <3>3
  <2> QED  BY <1>1, <2>1, <2>2, <2>3, <2>4, <2>5, OpKinds
<1>3. PICK S : s \in Seq(S)  BY <1>2
<1>4. Len(s) \in Nat \ {0}  BY <1>1, ItemsLength
<1>5. k \in Nat \ {0}  BY OpsTypes
<1>6. \A j \in 1 .. Len(s) : s[j] \in AllItems
  <2> TAKE j \in 1 .. Len(s)
  <2>1. j \in Nat \ {0}  BY <1>4
  <2>2. PICK p \in Places : p = <<k, j>> /\ p[1] = k /\ p[2] = j  BY <1>5, <2>1, PlaceIs
  <2>3. s[j] = ItemAt(m, p)  BY <1>1, <2>2, Zenon DEF ItemAt
  <2> QED  BY <2>2, <2>3 DEF AllItems
<1>7. s \in Seq(AllItems)  BY <1>3, <1>6, SeqInto
<1>8. s # <<>>  BY <1>4, <1>7, EmptyIs
<1> QED  BY <1>1, <1>7, <1>8

LEMMA RestParts ==
    ASSUME NEW m \in JtagModes, NEW h \in Places, NEW S, NEW r \in Seq(S), r # <<>>, NEW o, HostAt(m, h, r, o),
           NEW k, NEW j, k = h[1], j = h[2], NEW L, L = Len(Items(Ops(m)[k]))
    PROVE  /\ Within(m, h) /\ Head(r) = ItemAt(m, h)
           /\ k \in 1 .. Len(Ops(m)) /\ j \in 1 .. L /\ L \in Nat \ {0} /\ k \in Nat \ {0} /\ j \in Nat \ {0}
           /\ h = <<k, j>>
           /\ Len(r) = L - j + 1 /\ \A i \in 1 .. Len(r) : r[i] = Items(Ops(m)[k])[j + i - 1]
           /\ o = k + 1 \/ (o = k - 1 /\ Ops(m)[k] = Read("busy") /\ j > 6 + Bits)
<1>1. Rest(m, h, r, o)  BY DEF HostAt
<1>2. /\ Within(m, h) /\ Len(r) = Len(Items(Ops(m)[h[1]])) - h[2] + 1
      /\ \A i \in 1 .. Len(r) : r[i] = Items(Ops(m)[h[1]])[h[2] + i - 1]
      /\ o = h[1] + 1 \/ (o = h[1] - 1 /\ Ops(m)[h[1]] = Read("busy") /\ h[2] > 6 + Bits)
  BY <1>1, Zenon DEF Rest
<1>3. /\ k \in 1 .. Len(Ops(m)) /\ j \in 1 .. L /\ k \in Nat \ {0} /\ j \in Nat \ {0} /\ h = <<k, j>>
  BY <1>2, WithinParts
<1>4. L \in Nat \ {0}  BY <1>3, ItemsLength
<1>5. Len(r) = L - j + 1 /\ \A i \in 1 .. Len(r) : r[i] = Items(Ops(m)[k])[j + i - 1]  BY <1>2
<1>6. Head(r) = ItemAt(m, h)
  <2>1. Head(r) = r[1] /\ 1 \in 1 .. Len(r)  OBVIOUS
  <2>2. r[1] = Items(Ops(m)[k])[j + 1 - 1] /\ j + 1 - 1 = j  BY <1>3, <1>5, <2>1
  <2> QED  BY <2>1, <2>2 DEF ItemAt
<1> QED  BY <1>2, <1>3, <1>4, <1>5, <1>6

(* The host goes to the next item.                                           *)
LEMMA RestTail ==
    ASSUME NEW m \in JtagModes, NEW h \in Places, NEW S, NEW r \in Seq(S), r # <<>>, Tail(r) # <<>>,
           NEW o, HostAt(m, h, r, o), NEW o2, NEW k, NEW j, k = h[1], j = h[2],
           o2 = o \/ (o2 = k - 1 /\ Ops(m)[k] = Read("busy") /\ j >= 6 + Bits)
    PROVE  /\ HostAt(m, <<k, j + 1>>, Tail(r), o2) /\ <<k, j + 1>> \in After(m, h)
<1>1. PICK L : L = Len(Items(Ops(m)[k]))  OBVIOUS
<1>2. /\ k \in 1 .. Len(Ops(m)) /\ j \in 1 .. L /\ L \in Nat \ {0} /\ k \in Nat \ {0} /\ j \in Nat \ {0}
      /\ h = <<k, j>>
      /\ Len(r) = L - j + 1 /\ \A i \in 1 .. Len(r) : r[i] = Items(Ops(m)[k])[j + i - 1]
      /\ o = k + 1 \/ (o = k - 1 /\ Ops(m)[k] = Read("busy") /\ j > 6 + Bits)
  BY <1>1, RestParts
<1>3. PICK r2 : r2 = Tail(r)  OBVIOUS
<1>4. /\ r2 \in Seq(S) /\ Len(r2) = Len(r) - 1 /\ \A i \in 1 .. Len(r) - 1 : r2[i] = r[i + 1]
  BY <1>3, TailShape
<1>5. r2 # <<>>  BY <1>3
<1>6. Len(r2) > 0 /\ Len(r2) \in Nat  BY <1>4, <1>5, EmptyIs
<1>17. PICK N, M, K : N = Len(r) /\ M = Len(r2) /\ K = Len(Ops(m))  OBVIOUS
<1>18. N = L - j + 1 /\ M = N - 1 /\ M > 0 /\ M \in Nat  BY <1>2, <1>4, <1>6, <1>17
<1>19. K \in Nat /\ k \in 1 .. K  BY <1>2, <1>17, OpsTypes
<1>7. j < L /\ M = L - (j + 1) + 1  BY <1>2, <1>18
<1>8. PICK h2 : h2 = <<k, j + 1>>  OBVIOUS
<1>21. j \in Nat /\ L \in Nat /\ k \in Nat  BY <1>2
<1>22. k <= K  BY <1>19
<1>23. j + 1 \in Nat \ {0} /\ j + 1 <= L  BY <1>7, <1>21, SMTT(20)
<1>20. j + 1 \in Nat \ {0} /\ j + 1 <= L /\ k <= K  BY <1>22, <1>23
<1>9. j + 1 \in Nat \ {0} /\ j + 1 <= L /\ k <= Len(Ops(m))  BY <1>17, <1>20
<1>10. h2[1] = k /\ h2[2] = j + 1  BY <1>2, <1>8, <1>9, PlaceIs
<1>11. Within(m, h2)  BY <1>1, <1>2, <1>8, <1>9, WithinIs
<1>12. \A i \in 1 .. Len(r2) : r2[i] = Items(Ops(m)[k])[(j + 1) + i - 1]
  <2> TAKE i \in 1 .. Len(r2)
  <2>3. i \in 1 .. M  BY <1>17
  <2>4. i \in 1 .. N - 1 /\ i + 1 \in 1 .. N /\ j + (i + 1) - 1 = (j + 1) + i - 1
    BY <1>18, <1>21, <2>3, SMTT(20)
  <2>1. i \in 1 .. Len(r) - 1 /\ i + 1 \in 1 .. Len(r) /\ j + (i + 1) - 1 = (j + 1) + i - 1
    BY <1>17, <2>4
  <2>2. r2[i] = Items(Ops(m)[k])[j + (i + 1) - 1]  BY <1>2, <1>4, <2>1
  <2> QED  BY <2>1, <2>2
<1>13. o2 = k + 1 \/ (o2 = k - 1 /\ Ops(m)[k] = Read("busy") /\ j + 1 > 6 + Bits)
  <2>1. PICK B \in Nat \ {0} : B = Bits  BY BitsAssumption
  <2> QED  BY <1>2, <2>1
<1>14. Rest(m, h2, r2, o2)
  BY <1>1, <1>7, <1>10, <1>11, <1>12, <1>13, <1>17, Zenon DEF Rest
<1>15. HostAt(m, h2, r2, o2)  BY <1>5, <1>14 DEF HostAt
<1>16. h2 \in After(m, h)
  <2>1. h[1] = k /\ h[2] = j  OBVIOUS
  <2>2. j < Len(Items(Ops(m)[k]))  BY <1>1, <1>7
  <2> QED  BY <1>8, <2>1, <2>2, Zenon DEF After
<1> QED  BY <1>3, <1>8, <1>15, <1>16

LEMMA RestLast ==
    ASSUME NEW m \in JtagModes, NEW h \in Places, NEW S, NEW r \in Seq(S), r # <<>>, Tail(r) = <<>>,
           NEW o, HostAt(m, h, r, o), o \in 1 .. Len(Ops(m)) + 1
    PROVE  /\ HostAt(m, <<o, 1>>, Tail(r), o) /\ <<o, 1>> \in After(m, h)
           /\ o = Len(Ops(m)) + 1 /\ m # "fpga_erase" => ItemAt(m, h) = <<"sync">>
<1>1. PICK k, j : k = h[1] /\ j = h[2]  OBVIOUS
<1>2. PICK L : L = Len(Items(Ops(m)[k]))  OBVIOUS
<1>3. /\ k \in 1 .. Len(Ops(m)) /\ j \in 1 .. L /\ L \in Nat \ {0} /\ k \in Nat \ {0} /\ j \in Nat \ {0}
      /\ h = <<k, j>> /\ Len(r) = L - j + 1
      /\ o = k + 1 \/ (o = k - 1 /\ Ops(m)[k] = Read("busy") /\ j > 6 + Bits)
  BY <1>1, <1>2, RestParts
<1>9. PICK N : N = Len(r)  OBVIOUS
<1>4. N \in Nat /\ N - 1 = 0
  <2>1. Len(r) \in Nat  OBVIOUS
  <2>2. Len(Tail(r)) = Len(r) - 1  BY TailShape
  <2>4. Len(<<>>) = 0  OBVIOUS
  <2>3. Len(Tail(r)) = 0  BY <2>4, Zenon
  <2> QED  BY <1>9, <2>1, <2>2, <2>3
<1>10. N = L - j + 1  BY <1>3, <1>9
<1>5. j = L /\ ~(j < L)  BY <1>3, <1>4, <1>10
<1>6. HostAt(m, <<o, 1>>, Tail(r), o)  BY DEF HostAt
<1>7. <<o, 1>> \in After(m, h)
  <2>1. PICK h2 : h2 = <<o, 1>>  OBVIOUS
  <2>2. h2 = <<k + 1, 1>> \/ (h2 = <<k - 1, 1>> /\ Ops(m)[k] = Read("busy"))  BY <1>3, <2>1
  <2>3. ~(h[2] < Len(Items(Ops(m)[h[1]]))) /\ h[1] = k  BY <1>1, <1>2, <1>5
  <2>4. h2 \in {<<k + 1, 1>>} \cup (IF Ops(m)[k] = Read("busy") THEN {<<k - 1, 1>>} ELSE {})  BY <2>2
  <2>5. After(m, h) = {<<k + 1, 1>>} \cup (IF Ops(m)[k] = Read("busy") THEN {<<k - 1, 1>>} ELSE {})
    BY <2>3 DEF After
  <2> QED  BY <2>1, <2>4, <2>5
<1>8. ASSUME o = Len(Ops(m)) + 1, m # "fpga_erase" PROVE ItemAt(m, h) = <<"sync">>
  <2>1. k = Len(Ops(m))  BY <1>3, <1>8, OpsTypes
  <2>2. Ops(m)[k] = <<"sync">>  BY <1>8, <2>1, OpsTypes
  <2>3. Items(Ops(m)[k]) = << <<"sync">> >>  BY <2>2, ItemsAre
  <2>4. L = 1  BY <1>2, <2>3
  <2>5. j = 1  BY <1>5, <2>4
  <2> QED  BY <1>1, <2>3, <2>5 DEF ItemAt
<1> QED  BY <1>6, <1>7, <1>8

LEMMA HostStep ==
    ASSUME NEW m \in JtagModes, NEW h \in Places, NEW S, NEW r \in Seq(S), r # <<>>,
           NEW o, HostAt(m, h, r, o), o \in 1 .. Len(Ops(m)) + 1
    PROVE  /\ Within(m, h) /\ Head(r) = ItemAt(m, h)
           /\ \E h2 \in After(m, h) : HostAt(m, h2, Tail(r), o)
           /\ Tail(r) = <<>> /\ o = Len(Ops(m)) + 1 /\ m # "fpga_erase" => ItemAt(m, h) = <<"sync">>
<1>1. Within(m, h) /\ Head(r) = ItemAt(m, h)
  <2>1. PICK k, j : k = h[1] /\ j = h[2]  OBVIOUS
  <2>2. PICK L : L = Len(Items(Ops(m)[k]))  OBVIOUS
  <2> QED  BY <2>1, <2>2, RestParts
<1>2. CASE Tail(r) = <<>>  BY <1>1, <1>2, RestLast
<1>3. CASE Tail(r) # <<>>
  <2>1. PICK k, j : k = h[1] /\ j = h[2]  OBVIOUS
  <2>2. HostAt(m, <<k, j + 1>>, Tail(r), o) /\ <<k, j + 1>> \in After(m, h)  BY <1>3, <2>1, RestTail
  <2> QED  BY <1>1, <1>3, <2>2
<1> QED  BY <1>2, <1>3

(* The host waits for the response with w, in operation k.                   *)
RespAt(m, h, r, o, k, w) ==
    /\ Ops(m)[k] = Read(w) /\ h = <<k, 6 + Bits>> /\ o = k + 1 /\ Tail(r) # <<>>
    /\ HostAt(m, <<k, 7 + Bits>>, Tail(r), o)
    /\ w = "busy" => HostAt(m, <<k, 7 + Bits>>, Tail(r), o - 2) /\ o - 2 \in 1 .. Len(Ops(m)) + 1

LEMMA HostResp ==
    ASSUME NEW m \in JtagModes, NEW h \in Places, NEW S, NEW r \in Seq(S), r # <<>>,
           NEW o, HostAt(m, h, r, o), o \in 1 .. Len(Ops(m)) + 1, Head(r)[1] = "resp",
           NEW w, w = Head(r)[2]
    PROVE  \E k \in 3 .. Len(Ops(m)) : RespAt(m, h, r, o, k, w)
<1>1. PICK k, j : k = h[1] /\ j = h[2]  OBVIOUS
<1>2. PICK L : L = Len(Items(Ops(m)[k]))  OBVIOUS
<1>3. /\ Within(m, h) /\ Head(r) = ItemAt(m, h)
      /\ k \in 1 .. Len(Ops(m)) /\ j \in 1 .. L /\ L \in Nat \ {0} /\ k \in Nat \ {0} /\ j \in Nat \ {0}
      /\ h = <<k, j>> /\ Len(r) = L - j + 1
      /\ o = k + 1 \/ (o = k - 1 /\ Ops(m)[k] = Read("busy") /\ j > 6 + Bits)
  BY <1>1, <1>2, RestParts
<1>4. PICK x : x = ItemAt(m, h)  OBVIOUS
<1>5. x[1] = "resp"  BY <1>3, <1>4
<1>6. ~AClock(x) /\ x # <<"sync">>
  <2>1. \A a, b : x # Clk(a, b)  BY <1>5, ClkIs
  <2> QED  BY <1>5, <2>1 DEF AClock
<1>8. PICK v : x = <<"resp", v>> /\ Ops(m)[k] = Read(v) /\ j = 6 + Bits /\ k > 2
  BY <1>1, <1>3, <1>4, <1>6, ItemKinds
<1>19. v = w  BY <1>3, <1>4, <1>8
<1>7. Ops(m)[k] = Read(w) /\ j = 6 + Bits /\ k > 2  BY <1>8, <1>19
<1>9. PICK B \in Nat \ {0} : B = Bits  BY BitsAssumption
<1>10. Len(Ops(m)) \in Nat  BY OpsTypes
<1>11. k \in 3 .. Len(Ops(m))  BY <1>3, <1>7, <1>10
<1>12. o = k + 1  BY <1>3, <1>7, <1>9
<1>13. L = 8 + Bits  BY <1>2, <1>7, ItemsAre, ReadItems
<1>14. Tail(r) # <<>>
  <2>4. PICK N, M : N = Len(r) /\ M = Len(Tail(r))  OBVIOUS
  <2>5. N = L - j + 1  BY <1>3, <2>4
  <2>1. N = 3  BY <1>7, <1>9, <1>13, <2>5
  <2>2. Tail(r) \in Seq(S) /\ M = N - 1  BY <2>4, TailShape
  <2>6. M > 0  BY <2>1, <2>2
  <2>3. Len(Tail(r)) > 0  BY <2>4, <2>6
  <2> QED  BY <2>2, <2>3, EmptyIs
<1>15. <<k, j + 1>> = <<k, 7 + Bits>> /\ j >= 6 + Bits  BY <1>7, <1>9
<1>16. HostAt(m, <<k, 7 + Bits>>, Tail(r), o)
  <2>1. HostAt(m, <<k, j + 1>>, Tail(r), o)  BY <1>1, <1>14, RestTail
  <2> QED  BY <1>15, <2>1
<1>17. ASSUME w = "busy"
       PROVE  HostAt(m, <<k, 7 + Bits>>, Tail(r), o - 2) /\ o - 2 \in 1 .. Len(Ops(m)) + 1
  <2>1. o - 2 = k - 1 /\ Ops(m)[k] = Read("busy")  BY <1>7, <1>11, <1>12, <1>17
  <2>2. HostAt(m, <<k, j + 1>>, Tail(r), o - 2)  BY <1>1, <1>14, <1>15, <2>1, RestTail
  <2>3. k - 1 \in 1 .. Len(Ops(m)) + 1  BY <1>10, <1>11
  <2> QED  BY <1>15, <2>1, <2>2, <2>3
<1>18. h = <<k, 6 + Bits>>  BY <1>3, <1>7
<1>20. RespAt(m, h, r, o, k, w)  BY <1>7, <1>12, <1>14, <1>16, <1>17, <1>18, Zenon DEF RespAt
<1> QED  BY <1>11, <1>20

-----------------------------------------------------------------------------
(* The TAP controller alone, along the clocks of the buffer.                 *)
LEMMA IrTick ==
    ASSUME NEW c, NEW j \in 1 .. 6 + Bits, NEW z, NEW tdi, NEW tms, IrState(j, z),
           JtagWriteIr(c)[j] = Clk(tdi, tms)
    PROVE  /\ j < 6 + Bits => IrState(j + 1, TapNext(z, tms))
           /\ j = 6 + Bits => TapNext(z, tms) = "RunTestIdle"
<1>1. PICK B \in Nat \ {0} : B = Bits  BY BitsAssumption
<1>2. PICK y : y = TapNext(z, tms)  OBVIOUS
<1>3. PICK s : s = JtagWriteIr(c)  OBVIOUS
<1>4. /\ s[1] = Clk(Zero, 1) /\ s[2] = Clk(Zero, 1) /\ s[3] = Clk(Zero, 0) /\ s[4] = Clk(Zero, 0)
      /\ \A i \in 1 .. Bits : s[4 + i] = Clk(<<c, i>>, Bit(i = Bits))
      /\ s[5 + Bits] = Clk(Zero, 1) /\ s[6 + Bits] = Clk(Zero, 0)
  BY <1>3, IrItems, Zenon
<1>5. \A a, b : s[j] = Clk(a, b) => tdi = a /\ tms = b  BY <1>3, ClkParts, Zenon
<1>6. CASE j <= 4
  <2>1. CASE j = 1
    <3>1. z = "RunTestIdle"  BY <2>1, Zenon DEF IrState
    <3>2. tms = 1  BY <1>4, <1>5, <2>1
    <3>3. y = "SelectDR"  BY <1>2, <3>1, <3>2, TapTable, Zenon
    <3> QED  BY <1>1, <1>2, <2>1, <3>3 DEF IrState
  <2>2. CASE j = 2
    <3>1. z = "SelectDR"  BY <2>2, Zenon DEF IrState
    <3>2. tms = 1  BY <1>4, <1>5, <2>2
    <3>3. y = "SelectIR"  BY <1>2, <3>1, <3>2, TapTable, Zenon
    <3> QED  BY <1>1, <1>2, <2>2, <3>3 DEF IrState
  <2>3. CASE j = 3
    <3>1. z = "SelectIR"  BY <2>3, Zenon DEF IrState
    <3>2. tms = 0  BY <1>4, <1>5, <2>3
    <3>3. y = "CaptureIR"  BY <1>2, <3>1, <3>2, TapTable, Zenon
    <3> QED  BY <1>1, <1>2, <2>3, <3>3 DEF IrState
  <2>4. CASE j = 4
    <3>1. z = "CaptureIR"  BY <2>4, Zenon DEF IrState
    <3>2. tms = 0  BY <1>4, <1>5, <2>4
    <3>3. y = "ShiftIR"  BY <1>2, <3>1, <3>2, TapTable, Zenon
    <3> QED  BY <1>1, <1>2, <2>4, <3>3 DEF IrState
  <2>5. j = 1 \/ j = 2 \/ j = 3 \/ j = 4  BY <1>1, <1>6
  <2> QED  BY <2>1, <2>2, <2>3, <2>4, <2>5
<1>7. CASE j \in 5 .. 4 + Bits
  <2>1. z = "ShiftIR"  BY <1>7, Zenon DEF IrState
  <2>2. PICK i \in 1 .. Bits : j = 4 + i  BY <1>1, <1>7
  <2>3. tms = Bit(i = Bits)
    <3>1. s[j] = Clk(<<c, i>>, Bit(i = Bits))  BY <1>4, <2>2, ZenonT(40)
    <3> QED  BY <1>5, <3>1, ZenonT(40)
  <2>4. /\ i = Bits => y = "Exit1IR"
        /\ i # Bits => y = "ShiftIR"
    BY <1>2, <2>1, <2>3, TapTable DEF Bit
  <2> QED  BY <1>1, <1>2, <2>2, <2>4 DEF IrState
<1>8. CASE j = 5 + Bits
  <2>1. z = "Exit1IR"  BY <1>8, Zenon DEF IrState
  <2>2. tms = 1  BY <1>4, <1>5, <1>8
  <2>3. y = "UpdateIR"  BY <1>2, <2>1, <2>2, TapTable, Zenon
  <2> QED  BY <1>1, <1>2, <1>8, <2>3 DEF IrState
<1>9. CASE j = 6 + Bits
  <2>1. z = "UpdateIR"  BY <1>9, Zenon DEF IrState
  <2>2. tms = 0  BY <1>4, <1>5, <1>9
  <2>3. y = "RunTestIdle"  BY <1>2, <2>1, <2>2, TapTable, Zenon
  <2> QED  BY <1>1, <1>2, <1>9, <2>3
<1>10. j <= 4 \/ j \in 5 .. 4 + Bits \/ j = 5 + Bits \/ j = 6 + Bits  BY <1>1
<1> QED  BY <1>6, <1>7, <1>8, <1>9, <1>10

LEMMA DrTick ==
    ASSUME NEW v, NEW j \in 1 .. 5 + Bits, NEW z, NEW tdi, NEW tms, DrState(j, z),
           JtagWriteDr(v)[j] = Clk(tdi, tms)
    PROVE  /\ j < 5 + Bits => DrState(j + 1, TapNext(z, tms))
           /\ j = 5 + Bits => TapNext(z, tms) = "RunTestIdle"
<1>1. PICK B \in Nat \ {0} : B = Bits  BY BitsAssumption
<1>2. PICK y : y = TapNext(z, tms)  OBVIOUS
<1>3. PICK s : s = JtagWriteDr(v)  OBVIOUS
<1>4. /\ s[1] = Clk(Zero, 1) /\ s[2] = Clk(Zero, 0) /\ s[3] = Clk(Zero, 0)
      /\ \A i \in 1 .. Bits : s[3 + i] = Clk(<<v, i>>, Bit(i = Bits))
      /\ s[4 + Bits] = Clk(Zero, 1) /\ s[5 + Bits] = Clk(Zero, 0)
  BY <1>3, DrItems, Zenon
<1>5. \A a, b : s[j] = Clk(a, b) => tdi = a /\ tms = b  BY <1>3, ClkParts, Zenon
<1>6. CASE j <= 3
  <2>1. CASE j = 1
    <3>1. z = "RunTestIdle"  BY <2>1, Zenon DEF DrState
    <3>2. tms = 1  BY <1>4, <1>5, <2>1
    <3>3. y = "SelectDR"  BY <1>2, <3>1, <3>2, TapTable, Zenon
    <3> QED  BY <1>1, <1>2, <2>1, <3>3 DEF DrState
  <2>2. CASE j = 2
    <3>1. z = "SelectDR"  BY <2>2, Zenon DEF DrState
    <3>2. tms = 0  BY <1>4, <1>5, <2>2
    <3>3. y = "CaptureDR"  BY <1>2, <3>1, <3>2, TapTable, Zenon
    <3> QED  BY <1>1, <1>2, <2>2, <3>3 DEF DrState
  <2>3. CASE j = 3
    <3>1. z = "CaptureDR"  BY <2>3, Zenon DEF DrState
    <3>2. tms = 0  BY <1>4, <1>5, <2>3
    <3>3. y = "ShiftDR"  BY <1>2, <3>1, <3>2, TapTable, Zenon
    <3> QED  BY <1>1, <1>2, <2>3, <3>3 DEF DrState
  <2>4. j = 1 \/ j = 2 \/ j = 3  BY <1>1, <1>6
  <2> QED  BY <2>1, <2>2, <2>3, <2>4
<1>7. CASE j \in 4 .. 3 + Bits
  <2>1. z = "ShiftDR"  BY <1>7, Zenon DEF DrState
  <2>2. PICK i \in 1 .. Bits : j = 3 + i  BY <1>1, <1>7
  <2>3. tms = Bit(i = Bits)
    <3>1. s[j] = Clk(<<v, i>>, Bit(i = Bits))  BY <1>4, <2>2, ZenonT(40)
    <3> QED  BY <1>5, <3>1, ZenonT(40)
  <2>4. /\ i = Bits => y = "Exit1DR"
        /\ i # Bits => y = "ShiftDR"
    BY <1>2, <2>1, <2>3, TapTable DEF Bit
  <2> QED  BY <1>1, <1>2, <2>2, <2>4 DEF DrState
<1>8. CASE j = 4 + Bits
  <2>1. z = "Exit1DR"  BY <1>8, Zenon DEF DrState
  <2>2. tms = 1  BY <1>4, <1>5, <1>8
  <2>3. y = "UpdateDR"  BY <1>2, <2>1, <2>2, TapTable, Zenon
  <2> QED  BY <1>1, <1>2, <1>8, <2>3 DEF DrState
<1>9. CASE j = 5 + Bits
  <2>1. z = "UpdateDR"  BY <1>9, Zenon DEF DrState
  <2>2. tms = 0  BY <1>4, <1>5, <1>9
  <2>3. y = "RunTestIdle"  BY <1>2, <2>1, <2>2, TapTable, Zenon
  <2> QED  BY <1>1, <1>2, <1>9, <2>3
<1>10. j <= 3 \/ j \in 4 .. 3 + Bits \/ j = 4 + Bits \/ j = 5 + Bits  BY <1>1
<1> QED  BY <1>6, <1>7, <1>8, <1>9, <1>10

LEMMA RdTick ==
    ASSUME NEW w, NEW j \in 1 .. 8 + Bits, j \notin {4, 5 + Bits, 6 + Bits}, NEW z, NEW tdi, NEW tms,
           ReadState(j, z), JtagReadDr(w)[j] = Clk(tdi, tms)
    PROVE  /\ j < 8 + Bits => ReadState(j + 1, TapNext(z, tms))
           /\ j = 8 + Bits => TapNext(z, tms) = "RunTestIdle"
<1>1. PICK B \in Nat \ {0} : B = Bits  BY BitsAssumption
<1>2. PICK y : y = TapNext(z, tms)  OBVIOUS
<1>3. PICK s : s = JtagReadDr(w)  OBVIOUS
<1>4. /\ s[1] = Clk(Zero, 1) /\ s[2] = Clk(Zero, 0) /\ s[3] = Clk(Zero, 0)
      /\ \A i \in 1 .. Bits : s[4 + i] = Clk(Zero, Bit(i = Bits))
      /\ s[7 + Bits] = Clk(Zero, 1) /\ s[8 + Bits] = Clk(Zero, 0)
  BY <1>3, ReadItems, Zenon
<1>5. \A a, b : s[j] = Clk(a, b) => tdi = a /\ tms = b  BY <1>3, ClkParts, Zenon
<1>6. CASE j <= 3
  <2>1. CASE j = 1
    <3>1. z = "RunTestIdle"  BY <2>1, Zenon DEF ReadState
    <3>2. tms = 1  BY <1>4, <1>5, <2>1
    <3>3. y = "SelectDR"  BY <1>2, <3>1, <3>2, TapTable, Zenon
    <3> QED  BY <1>1, <1>2, <2>1, <3>3 DEF ReadState
  <2>2. CASE j = 2
    <3>1. z = "SelectDR"  BY <2>2, Zenon DEF ReadState
    <3>2. tms = 0  BY <1>4, <1>5, <2>2
    <3>3. y = "CaptureDR"  BY <1>2, <3>1, <3>2, TapTable, Zenon
    <3> QED  BY <1>1, <1>2, <2>2, <3>3 DEF ReadState
  <2>3. CASE j = 3
    <3>1. z = "CaptureDR"  BY <2>3, Zenon DEF ReadState
    <3>2. tms = 0  BY <1>4, <1>5, <2>3
    <3>3. y = "ShiftDR"  BY <1>2, <3>1, <3>2, TapTable, Zenon
    <3> QED  BY <1>1, <1>2, <2>3, <3>3 DEF ReadState
  <2>4. j = 1 \/ j = 2 \/ j = 3  BY <1>1, <1>6
  <2> QED  BY <2>1, <2>2, <2>3, <2>4
<1>7. CASE j \in 5 .. 4 + Bits
  <2>1. z = "ShiftDR"
    <3>1. j \in 4 .. 4 + Bits  BY <1>1, <1>7
    <3> QED  BY <3>1, Zenon DEF ReadState
  <2>2. PICK i \in 1 .. Bits : j = 4 + i  BY <1>1, <1>7
  <2>3. tms = Bit(i = Bits)
    <3>1. PICK b : b = Bit(i = Bits)  OBVIOUS
    <3>2. s[j] = Clk(Zero, b)  BY <1>4, <2>2, <3>1, Zenon
    <3> QED  BY <1>5, <3>1, <3>2
  <2>4. /\ i = Bits => y = "Exit1DR"
        /\ i # Bits => y = "ShiftDR"
    BY <1>2, <2>1, <2>3, TapTable DEF Bit
  <2> QED  BY <1>1, <1>2, <2>2, <2>4 DEF ReadState
<1>8. CASE j = 7 + Bits
  <2>1. z = "Exit1DR"
    <3>1. j \in 5 + Bits .. 7 + Bits  BY <1>1, <1>8
    <3> QED  BY <3>1, Zenon DEF ReadState
  <2>2. tms = 1  BY <1>4, <1>5, <1>8
  <2>3. y = "UpdateDR"  BY <1>2, <2>1, <2>2, TapTable, Zenon
  <2> QED  BY <1>1, <1>2, <1>8, <2>3 DEF ReadState
<1>9. CASE j = 8 + Bits
  <2>1. z = "UpdateDR"  BY <1>9, Zenon DEF ReadState
  <2>2. tms = 0  BY <1>4, <1>5, <1>9
  <2>3. y = "RunTestIdle"  BY <1>2, <2>1, <2>2, TapTable, Zenon
  <2> QED  BY <1>1, <1>2, <1>9, <2>3
<1>10. j <= 3 \/ j \in 5 .. 4 + Bits \/ j = 7 + Bits \/ j = 8 + Bits  BY <1>1
<1> QED  BY <1>6, <1>7, <1>8, <1>9, <1>10

LEMMA StateKinds ==
    ASSUME NEW m \in JtagModes, NEW k \in 3 .. Len(Ops(m)), NEW j, NEW z
    PROVE  /\ \A c : Ops(m)[k] = Ir(c) => (StateAt(m, k, j, z) <=> IrState(j, z))
           /\ \A v : Ops(m)[k] = Dr(v) => (StateAt(m, k, j, z) <=> DrState(j, z))
           /\ \A w : Ops(m)[k] = Read(w) => (StateAt(m, k, j, z) <=> ReadState(j, z))
           /\ Ops(m)[k] \in {Run, <<"sync">>} => (StateAt(m, k, j, z) <=> z = "RunTestIdle")
<1>1. Len(Ops(m)) \in Nat  BY OpsTypes
<1>2. k # 1 /\ k # 2 /\ k # Len(Ops(m)) + 1  BY <1>1
<1>3. PICK o : o = Ops(m)[k][1]  OBVIOUS
<1>4. /\ o = "ir" => (StateAt(m, k, j, z) <=> IrState(j, z))
      /\ o = "dr" => (StateAt(m, k, j, z) <=> DrState(j, z))
      /\ o = "read" => (StateAt(m, k, j, z) <=> ReadState(j, z))
      /\ o \in {"run", "sync"} => (StateAt(m, k, j, z) <=> z = "RunTestIdle")
  <2>1. StateAt(m, k, j, z) <=> /\ o = "ir" => IrState(j, z)
                                /\ o = "dr" => DrState(j, z)
                                /\ o = "read" => ReadState(j, z)
                                /\ o \in {"run", "sync"} => z = "RunTestIdle"
    BY <1>2, <1>3, Zenon DEF StateAt
  <2> QED  BY <2>1
<1>5. \A c : Ops(m)[k] = Ir(c) => o = "ir"  BY <1>3 DEF Ir
<1>6. \A v : Ops(m)[k] = Dr(v) => o = "dr"  BY <1>3 DEF Dr
<1>7. \A w : Ops(m)[k] = Read(w) => o = "read"  BY <1>3 DEF Read
<1>8. Ops(m)[k] \in {Run, <<"sync">>} => o \in {"run", "sync"}  BY <1>3 DEF Run
<1> QED  BY <1>4, <1>5, <1>6, <1>7, <1>8, Zenon

LEMMA StateBegin ==
    ASSUME NEW m \in JtagModes, NEW k \in 3 .. Len(Ops(m)) + 1, NEW z
    PROVE  StateAt(m, k, 1, z) <=> z = "RunTestIdle"
<1>1. Len(Ops(m)) \in Nat  BY OpsTypes
<1>2. PICK B \in Nat \ {0} : B = Bits  BY BitsAssumption
<1>3. CASE k = Len(Ops(m)) + 1
  <2>1. k # 1 /\ k # 2 /\ k \notin 3 .. Len(Ops(m))  BY <1>1, <1>3
  <2> QED  BY <1>3, <2>1, Zenon DEF StateAt
<1>4. CASE k # Len(Ops(m)) + 1
  <2>1. k \in 3 .. Len(Ops(m)) /\ k \in 1 .. Len(Ops(m))  BY <1>1, <1>4
  <2>2. IrState(1, z) <=> z = "RunTestIdle"  BY <1>2 DEF IrState
  <2>3. DrState(1, z) <=> z = "RunTestIdle"  BY <1>2 DEF DrState
  <2>4. ReadState(1, z) <=> z = "RunTestIdle"  BY <1>2 DEF ReadState
  <2> QED  BY <2>1, <2>2, <2>3, <2>4, StateKinds, OpKinds
<1> QED  BY <1>3, <1>4

LEMMA StateFirst ==
    ASSUME NEW m \in JtagModes, NEW j, NEW z
    PROVE  /\ StateAt(m, 1, j, z) <=> FirstState(j, z)
           /\ StateAt(m, 2, j, z) <=> SecondState(j, z)
<1>1. Len(Ops(m)) \in Nat /\ Len(Ops(m)) >= 15  BY OpsTypes
<1>2. PICK a, b : a = 1 /\ b = 2  OBVIOUS
<1>3. /\ a # 2 /\ b # 1 /\ a \notin 3 .. Len(Ops(m)) /\ b \notin 3 .. Len(Ops(m))
      /\ a # Len(Ops(m)) + 1 /\ b # Len(Ops(m)) + 1
  BY <1>1, <1>2
<1>4. StateAt(m, a, j, z) <=> FirstState(j, z)  BY <1>2, <1>3, Zenon DEF StateAt
<1>5. StateAt(m, b, j, z) <=> SecondState(j, z)  BY <1>2, <1>3, Zenon DEF StateAt
<1> QED  BY <1>2, <1>4, <1>5

LEMMA StateStep ==
    ASSUME NEW m \in JtagModes, NEW p, ClockAt(m, p), NEW z, StateAt(m, p[1], p[2], z),
           NEW n \in After(m, p)
    PROVE  StateAt(m, n[1], n[2], TapNext(z, ItemAt(m, p)[3]))
<1>1. PICK tdi \in Cells, tms \in {0, 1} : ItemAt(m, p) = Clk(tdi, tms) /\ tms = ItemAt(m, p)[3]
  BY ClockParts
<1>2. PICK y : y = TapNext(z, tms)  OBVIOUS
<1>3. PICK k, j : k = p[1] /\ j = p[2]  OBVIOUS
<1>4. PICK o : o = Ops(m)[k]  OBVIOUS
<1>5. /\ Within(m, p) /\ o # <<"sync">> /\ (o[1] = "read" => j \notin {4, 5 + Bits, 6 + Bits})
  BY <1>3, <1>4, ClockParts
<1>6. /\ k \in 1 .. Len(Ops(m)) /\ j \in 1 .. Len(Items(o)) /\ k \in Nat \ {0} /\ j \in Nat \ {0}
      /\ p = <<k, j>>
  BY <1>3, <1>4, <1>5, WithinParts
<1>7. Items(o)[j] = Clk(tdi, tms)  BY <1>1, <1>3, <1>4, Zenon DEF ItemAt
<1>8. Len(Ops(m)) \in Nat /\ Len(Ops(m)) >= 15  BY OpsTypes
<1>9. PICK B \in Nat \ {0} : B = Bits  BY BitsAssumption
<1>10. /\ j < Len(Items(o)) => n = <<k, j + 1>>
       /\ ~(j < Len(Items(o))) => n = <<k + 1, 1>> \/ (n = <<k - 1, 1>> /\ o = Read("busy"))
  BY <1>4, <1>6, AfterIs
<1>11. StateAt(m, k, j, z)  BY <1>3
<1>12. SUFFICES StateAt(m, n[1], n[2], y)  BY <1>1, <1>2
<1>13. ASSUME NEW a, NEW b, n = <<a, b>>, StateAt(m, a, b, y) PROVE StateAt(m, n[1], n[2], y)
  <2>1. n[1] = a /\ n[2] = b  BY <1>13
  <2> QED  BY <1>13, <2>1
<1>14. CASE k = 1
  <2>1. PICK c : c = "ENABLE"  OBVIOUS
  <2>2. o = Ir(c)  BY <1>4, <1>14, <2>1, OpsTypes
  <2>3. Items(o) = JtagWriteIr(c) /\ Len(Items(o)) = 6 + Bits  BY <2>2, ItemsAre, IrItems
  <2>4. FirstState(j, z)  BY <1>11, <1>14, StateFirst
  <2>5. j \in 1 .. 6 + Bits /\ JtagWriteIr("ENABLE")[j] = Clk(tdi, tms)  BY <1>6, <1>7, <2>1, <2>3
  <2>6. /\ j < 6 + Bits => FirstState(j + 1, y)
        /\ j = 6 + Bits => SecondState(1, y)
    BY <1>2, <2>4, <2>5, FirstClock
  <2>7. CASE j < 6 + Bits
    <3>1. n = <<1, j + 1>>  BY <1>10, <1>14, <2>3, <2>7
    <3>2. StateAt(m, 1, j + 1, y)  BY <2>6, <2>7, StateFirst
    <3> QED  BY <1>13, <3>1, <3>2
  <2>8. CASE j = 6 + Bits
    <3>1. o # Read("busy")  BY <2>2 DEF Ir, Read
    <3>2. ~(j < 6 + Bits)  BY <1>9, <2>8
    <3>3. n = <<2, 1>>  BY <1>10, <1>14, <2>3, <3>1, <3>2
    <3>4. StateAt(m, 2, 1, y)  BY <2>6, <2>8, StateFirst
    <3> QED  BY <1>13, <3>3, <3>4
  <2> QED  BY <1>9, <2>5, <2>7, <2>8
<1>15. CASE k = 2
  <2>1. PICK c : c = "sram"  OBVIOUS
  <2>2. o = Dr(c)  BY <1>4, <1>15, <2>1, OpsTypes
  <2>3. Items(o) = JtagWriteDr(c) /\ Len(Items(o)) = 5 + Bits  BY <2>2, ItemsAre, DrItems
  <2>4. SecondState(j, z)  BY <1>11, <1>15, StateFirst
  <2>5. j \in 1 .. 5 + Bits /\ JtagWriteDr("sram")[j] = Clk(tdi, tms)  BY <1>6, <1>7, <2>1, <2>3
  <2>6. /\ j < 5 + Bits => SecondState(j + 1, y)
        /\ j = 5 + Bits => y = "RunTestIdle"
    BY <1>2, <2>4, <2>5, SecondClock
  <2>7. CASE j < 5 + Bits
    <3>1. n = <<2, j + 1>>  BY <1>10, <1>15, <2>3, <2>7
    <3>2. StateAt(m, 2, j + 1, y)  BY <2>6, <2>7, StateFirst
    <3> QED  BY <1>13, <3>1, <3>2
  <2>8. CASE j = 5 + Bits
    <3>1. o # Read("busy")  BY <2>2 DEF Dr, Read
    <3>2. ~(j < 5 + Bits)  BY <1>9, <2>8
    <3>3. n = <<3, 1>>  BY <1>10, <1>15, <2>3, <3>1, <3>2
    <3>4. 3 \in 3 .. Len(Ops(m)) + 1  BY <1>8
    <3>5. StateAt(m, 3, 1, y)  BY <2>6, <2>8, <3>4, StateBegin
    <3> QED  BY <1>13, <3>3, <3>5
  <2> QED  BY <1>9, <2>5, <2>7, <2>8
<1>16. CASE k # 1 /\ k # 2
  <2>1. k \in 3 .. Len(Ops(m)) /\ k + 1 \in 3 .. Len(Ops(m)) + 1  BY <1>6, <1>8, <1>16
  <2>2. y = "RunTestIdle" => StateAt(m, k + 1, 1, y)  BY <2>1, StateBegin
  <2>3. ASSUME NEW c \in Instructions, o = Ir(c) PROVE StateAt(m, n[1], n[2], y)
    <3>1. Items(o) = JtagWriteIr(c) /\ Len(Items(o)) = 6 + Bits  BY <2>3, ItemsAre, IrItems
    <3>2. IrState(j, z)  BY <1>4, <1>11, <2>1, <2>3, StateKinds
    <3>3. j \in 1 .. 6 + Bits /\ JtagWriteIr(c)[j] = Clk(tdi, tms)  BY <1>6, <1>7, <3>1
    <3>4. /\ j < 6 + Bits => IrState(j + 1, y)
          /\ j = 6 + Bits => y = "RunTestIdle"
      BY <1>2, <3>2, <3>3, IrTick
    <3>5. CASE j < 6 + Bits
      <4>1. n = <<k, j + 1>>  BY <1>10, <3>1, <3>5
      <4>2. StateAt(m, k, j + 1, y)  BY <1>4, <2>1, <2>3, <3>4, <3>5, StateKinds
      <4> QED  BY <1>13, <4>1, <4>2
    <3>6. CASE j = 6 + Bits
      <4>1. o # Read("busy")  BY <2>3 DEF Ir, Read
      <4>2. ~(j < 6 + Bits)  BY <1>9, <3>6
      <4>3. n = <<k + 1, 1>>  BY <1>10, <3>1, <4>1, <4>2
      <4> QED  BY <1>13, <2>2, <3>4, <3>6, <4>3
    <3> QED  BY <1>9, <3>3, <3>5, <3>6
  <2>4. ASSUME NEW v \in Values, o = Dr(v) PROVE StateAt(m, n[1], n[2], y)
    <3>1. Items(o) = JtagWriteDr(v) /\ Len(Items(o)) = 5 + Bits  BY <2>4, ItemsAre, DrItems
    <3>2. DrState(j, z)  BY <1>4, <1>11, <2>1, <2>4, StateKinds
    <3>3. j \in 1 .. 5 + Bits /\ JtagWriteDr(v)[j] = Clk(tdi, tms)  BY <1>6, <1>7, <3>1
    <3>4. /\ j < 5 + Bits => DrState(j + 1, y)
          /\ j = 5 + Bits => y = "RunTestIdle"
      BY <1>2, <3>2, <3>3, DrTick
    <3>5. CASE j < 5 + Bits
      <4>1. n = <<k, j + 1>>  BY <1>10, <3>1, <3>5
      <4>2. StateAt(m, k, j + 1, y)  BY <1>4, <2>1, <2>4, <3>4, <3>5, StateKinds
      <4> QED  BY <1>13, <4>1, <4>2
    <3>6. CASE j = 5 + Bits
      <4>1. o # Read("busy")  BY <2>4 DEF Dr, Read
      <4>2. ~(j < 5 + Bits)  BY <1>9, <3>6
      <4>3. n = <<k + 1, 1>>  BY <1>10, <3>1, <4>1, <4>2
      <4> QED  BY <1>13, <2>2, <3>4, <3>6, <4>3
    <3> QED  BY <1>9, <3>3, <3>5, <3>6
  <2>5. ASSUME NEW w, o = Read(w) PROVE StateAt(m, n[1], n[2], y)
    <3>1. Items(o) = JtagReadDr(w) /\ Len(Items(o)) = 8 + Bits  BY <2>5, ItemsAre, ReadItems
    <3>2. ReadState(j, z)  BY <1>4, <1>11, <2>1, <2>5, StateKinds
    <3>3. j \in 1 .. 8 + Bits /\ JtagReadDr(w)[j] = Clk(tdi, tms)  BY <1>6, <1>7, <3>1
    <3>4. j \notin {4, 5 + Bits, 6 + Bits}  BY <1>5, <2>5 DEF Read
    <3>5. /\ j < 8 + Bits => ReadState(j + 1, y)
          /\ j = 8 + Bits => y = "RunTestIdle"
      BY <1>2, <3>2, <3>3, <3>4, RdTick
    <3>6. CASE j < 8 + Bits
      <4>1. n = <<k, j + 1>>  BY <1>10, <3>1, <3>6
      <4>2. StateAt(m, k, j + 1, y)  BY <1>4, <2>1, <2>5, <3>5, <3>6, StateKinds
      <4> QED  BY <1>13, <4>1, <4>2
    <3>7. CASE j = 8 + Bits
      <4>1. ~(j < 8 + Bits)  BY <1>9, <3>7
      <4>2. n = <<k + 1, 1>> \/ (n = <<k - 1, 1>> /\ o = Read("busy"))  BY <1>10, <3>1, <4>1
      <4>3. ASSUME o = Read("busy") PROVE StateAt(m, k - 1, 1, y)
        <5>1. k > 14  BY <1>4, <2>1, <4>3, BusyPlace
        <5>2. k - 1 \in 3 .. Len(Ops(m)) + 1  BY <1>8, <2>1, <5>1
        <5> QED  BY <3>5, <3>7, <5>2, StateBegin
      <4> QED  BY <1>13, <2>2, <3>5, <3>7, <4>2, <4>3
    <3> QED  BY <1>9, <3>3, <3>6, <3>7
  <2>6. ASSUME o = Run PROVE StateAt(m, n[1], n[2], y)
    <3>1. Items(o) = <<Clk(Zero, 0)>>  BY <2>6, ItemsAre DEF JtagRun
    <3>2. j = 1 /\ Clk(tdi, tms) = Clk(Zero, 0) /\ Len(Items(o)) = 1  BY <1>6, <1>7, <3>1
    <3>3. tms = 0  BY <3>2, ClkParts
    <3>4. z = "RunTestIdle"  BY <1>4, <1>11, <2>1, <2>6, StateKinds
    <3>5. y = "RunTestIdle"  BY <1>2, <3>3, <3>4, TapTable
    <3>6. o # Read("busy")  BY <2>6 DEF Run, Read
    <3>7. n = <<k + 1, 1>>  BY <1>10, <3>2, <3>6
    <3> QED  BY <1>13, <2>2, <3>5, <3>7
  <2> QED  BY <1>4, <1>5, <1>6, <2>3, <2>4, <2>5, <2>6, OpKinds
<1> QED  BY <1>14, <1>15, <1>16

(* A set of natural numbers has a least one.                                 *)
LEMMA LeastNumber ==
    ASSUME NEW T, T \subseteq Nat, T # {}
    PROVE  \E i \in T : \A j \in T : i <= j
<1> DEFINE R == {ss \in Nat \X Nat : ss[1] < ss[2]}
<1>1. IsWellFoundedOn(R, Nat)  BY NatLessThanWellFounded DEF OpToRel
<1> HIDE DEF R
<1>2. PICK i \in T : \A j \in T : ~(<<j, i>> \in R)  BY <1>1, WFMin
<1>3. \A j \in T : ~(j < i)  BY <1>2 DEF R
<1> QED  BY <1>3

(* The states that TapAfter goes through.                                    *)
IsWalk(g, z, P, n) ==
    g = [i \in 0 .. n |-> IF i = 0 THEN z ELSE TapNext(g[i - 1], P[i][3])]

LEMMA Walk ==
    ASSUME NEW z, NEW P, NEW N \in Nat
    PROVE  \E g : IsWalk(g, z, P, N)
<1> DEFINE T == {n \in 0 .. N : ~\E g : IsWalk(g, z, P, n)}
<1>1. SUFFICES T = {}  OBVIOUS
<1>2. SUFFICES ASSUME T # {} PROVE FALSE  OBVIOUS
<1>3. PICK n \in T : \A j \in T : n <= j
  <2>1. T \subseteq Nat  OBVIOUS
  <2> QED  BY <1>2, <2>1, LeastNumber
<1>4. n \in 0 .. N /\ ~\E g : IsWalk(g, z, P, n)  OBVIOUS
<1>5. n # 0
  <2>1. IsWalk([i \in 0 .. 0 |-> z], z, P, 0)  BY DEF IsWalk
  <2> QED  BY <1>4, <2>1
<1>6. PICK h : IsWalk(h, z, P, n - 1)
  <2>1. n - 1 \in 0 .. N  BY <1>4, <1>5
  <2> HIDE DEF T
  <2>2. n - 1 \notin T  BY <1>3, <1>4
  <2> QED  BY <2>1, <2>2 DEF T
<1>7. PICK x : x = TapNext(h[n - 1], P[n][3])  OBVIOUS
<1>8. PICK g : g = [i \in 0 .. n |-> IF i = n THEN x ELSE h[i]]  OBVIOUS
<1>9. IsWalk(g, z, P, n)
  <2>1. \A i \in 0 .. n : g[i] = IF i = n THEN x ELSE h[i]  BY <1>8
  <2>2. \A i \in 0 .. n - 1 : h[i] = IF i = 0 THEN z ELSE TapNext(h[i - 1], P[i][3])
    BY <1>6 DEF IsWalk
  <2>3. ASSUME NEW i \in 0 .. n PROVE g[i] = IF i = 0 THEN z ELSE TapNext(g[i - 1], P[i][3])
    <3>1. i # 0 => g[i - 1] = h[i - 1]  BY <1>4, <2>1
    <3>2. CASE i = n  BY <1>4, <1>5, <1>7, <2>1, <3>1, <3>2
    <3>3. CASE i # n
      <4>1. i \in 0 .. n - 1 /\ g[i] = h[i]  BY <1>4, <2>1, <3>3
      <4> QED  BY <2>2, <3>1, <4>1
    <3> QED  BY <3>2, <3>3
  <2>4. g = [i \in 0 .. n |-> g[i]]  BY <1>8
  <2> QED  BY <2>3, <2>4 DEF IsWalk
<1> QED  BY <1>4, <1>9

Walked(z, P, N, last) ==
    \E g : /\ last = g[N] /\ g[0] = z
           /\ \A i \in 1 .. N : g[i] = TapNext(g[i - 1], P[i][3])

LEMMA TapWalk ==
    ASSUME NEW z, NEW P, NEW N \in Nat, N = Len(P)
    PROVE  Walked(z, P, N, TapAfter(z, P))
<1> DEFINE Is(g) == g = [i \in 0 .. Len(P) |-> IF i = 0 THEN z ELSE TapNext(g[i - 1], P[i][3])]
           h == CHOOSE g : Is(g)
<1>1. \E g : Is(g)
  <2>1. PICK g : IsWalk(g, z, P, N)  BY Walk
  <2>2. Is(g)  BY <2>1, Zenon DEF IsWalk
  <2> QED  BY <2>2, Zenon
<1>2. Is(h)  BY <1>1, Zenon
<1>3. TapAfter(z, P) = h[Len(P)]  BY DEF TapAfter
<1> HIDE DEF h
<1>4. PICK g : g = h  OBVIOUS
<1>5. g[0] = z /\ \A i \in 1 .. N : g[i] = TapNext(g[i - 1], P[i][3])  BY <1>2, <1>4
<1>6. TapAfter(z, P) = g[N]  BY <1>3, <1>4
<1> HIDE DEF Is
<1> QED  BY <1>5, <1>6, Zenon DEF Walked

(* After the clocks that lead to an operation the TAP controller is idle.    *)
LEMMA TapAlong ==
    ASSUME NEW m \in JtagModes, NEW q, NEW h, NEW P, Len(P) \in Nat, Trail(m, q, h, P),
           NEW k \in 3 .. Len(Ops(m)) + 1, h = <<k, 1>>, P # <<>> => h \in After(m, q[Len(q)]),
           P = <<>> <=> Len(P) = 0, q = <<>> <=> Len(q) = 0,
           NEW z, StateAt(m, DeviceAt(q, h)[1], DeviceAt(q, h)[2], z)
    PROVE  TapAfter(z, P) = "RunTestIdle"
<1>1. PICK N \in Nat : N = Len(P) /\ N = Len(q)  BY DEF Trail
<1>2. PICK g : /\ TapAfter(z, P) = g[N] /\ g[0] = z
               /\ \A i \in 1 .. N : g[i] = TapNext(g[i - 1], P[i][3])
  <2>1. Walked(z, P, N, TapAfter(z, P))  BY <1>1, TapWalk
  <2> QED  BY <2>1, Zenon DEF Walked
<1>3. h[1] = k /\ h[2] = 1  OBVIOUS
<1>4. CASE N = 0
  <2>1. DeviceAt(q, h) = h  BY <1>1, <1>4 DEF DeviceAt
  <2>2. StateAt(m, k, 1, z)  BY <1>3, <2>1
  <2>3. z = "RunTestIdle"  BY <2>2, StateBegin
  <2> QED  BY <1>2, <1>4, <2>3
<1>5. CASE N # 0
  <2>1. DeviceAt(q, h) = q[1]  BY <1>1, <1>5 DEF DeviceAt
  <2>2. /\ \A i \in 1 .. N : ClockAt(m, q[i]) /\ P[i] = ItemAt(m, q[i])
        /\ \A i \in 1 .. N - 1 : q[i + 1] \in After(m, q[i])
    BY <1>1, Zenon DEF Trail
  <2>3. h \in After(m, q[N])  BY <1>1, <1>5
  <2> DEFINE Good(i) == StateAt(m, q[i][1], q[i][2], g[i - 1])
             T == {i \in 1 .. N : ~Good(i)}
  <2>4. ASSUME NEW i \in 1 .. N, Good(i), NEW n \in After(m, q[i]) PROVE StateAt(m, n[1], n[2], g[i])
    <3>1. StateAt(m, n[1], n[2], TapNext(g[i - 1], ItemAt(m, q[i])[3]))  BY <2>2, <2>4, StateStep
    <3> QED  BY <1>2, <2>2, <3>1
  <2>5. ASSUME T # {} PROVE FALSE
    <3>1. T \subseteq Nat  OBVIOUS
    <3>2. PICK i \in T : \A j \in T : i <= j  BY <2>5, <3>1, LeastNumber
    <3>3. i \in 1 .. N /\ ~Good(i)  OBVIOUS
    <3>4. i # 1
      <4>1. Good(1)  BY <1>2, <2>1
      <4> QED  BY <3>3, <4>1
    <3>5. i - 1 \in 1 .. N /\ i - 1 \in 1 .. N - 1 /\ (i - 1) + 1 = i  BY <3>3, <3>4
    <3>6. Good(i - 1)
      <4>1. i - 1 \notin T
        <5> HIDE DEF T
        <5> QED  BY <3>2, <3>3
      <4> QED  BY <3>5, <4>1
    <3>7. q[i] \in After(m, q[i - 1])  BY <2>2, <3>5
    <3> HIDE DEF Good
    <3>8. StateAt(m, q[i][1], q[i][2], g[i - 1])  BY <2>4, <3>5, <3>6, <3>7
    <3> QED  BY <3>3, <3>8 DEF Good
  <2>6. N \in 1 .. N /\ Good(N)  BY <1>1, <1>5, <2>5
  <2> HIDE DEF Good
  <2>7. StateAt(m, h[1], h[2], g[N])  BY <2>3, <2>4, <2>6
  <2>8. g[N] = "RunTestIdle"  BY <1>3, <2>7, StateBegin
  <2> QED  BY <1>2, <2>8
<1> QED  BY <1>4, <1>5
=============================================================================
