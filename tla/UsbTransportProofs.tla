------------------------- MODULE UsbTransportProofs -------------------------
(* The safety properties of the libusb transport, proved for any number of   *)
(* IN transfers and OUT slots.                                               *)
EXTENDS UsbTransport, FiniteSetTheorems, SequenceTheorems, TLAPS

Completion == [t : Transfers, status : {"completed", "error", "nodev", "cancelled"},
               full : BOOLEAN, data : BOOLEAN]
Callback   == [stage : {"submit", "feed", "feedFull", "submitFull"}, t : Transfers,
               buf : Bufs, data : BOOLEAN]

CtlTypeOK == /\ phase \in {"cmd", "stream", "closed", "exited", "raced"}
             /\ mode \in {"idle", "events", "ctl", "drain"}
             /\ closing \in BOOLEAN /\ alive \in BOOLEAN /\ upper \in BOOLEAN
             /\ spins \in Nat /\ why \in {"close", "reset"}
PoolTypeOK == /\ flight \in Seq(Transfers) /\ comp \in Seq(Completion)
              /\ tbuf \in [Transfers -> Bufs] /\ spare \in Bufs \cup {NoBuf}
              /\ freed \subseteq Transfers /\ armed \subseteq Transfers
              /\ cb \in Callback \cup {None}
OutTypeOK == /\ out \in [OutSlots -> {"idle", "flight", "done"}]
             /\ busy \in [OutSlots -> BOOLEAN]
DataTypeOK == /\ mem \in [Bufs -> Nat] /\ sentData \in Nat /\ fed \in Nat
              /\ gap \in BOOLEAN /\ staleFeed \in BOOLEAN /\ lastDone \in Nat
TypeOK == CtlTypeOK /\ PoolTypeOK /\ OutTypeOK /\ DataTypeOK

(* A transfer is submitted or completed, once, or it is with its callback,   *)
(* which gives it back when it submits it.                                   *)
OneSubmission(f) == \A i, j \in DOMAIN f : i # j => f[i] # f[j]
OneCompletion(c) == \A i, j \in DOMAIN c : i # j => c[i].t # c[j].t
Holding == cb.stage \in {"submit", "feedFull", "submitFull"}

OncePlaced == /\ OneSubmission(flight) /\ OneCompletion(comp)
              /\ Submitted \cap Waiting = {}
              /\ Holding => cb.t \notin Submitted \cup Waiting
              /\ cb.stage = "feed" => cb.t \in Submitted \cup Waiting
              /\ phase # "raced" => Submitted \cup Waiting \subseteq armed
              /\ cb # None => cb.t \in armed
              /\ phase = "stream" /\ alive /\ ~closing =>
                    armed \subseteq Submitted \cup Waiting
                                    \cup (IF cb = None THEN {} ELSE {cb.t})

(* No two transfers share a buffer, and none has the spare one; the callback *)
(* parses the spare, or the buffer of a transfer that it has not given back. *)
OwnBuffer == /\ \A t, u \in Transfers : t # u => tbuf[t] # tbuf[u]
             /\ \A t \in Transfers : tbuf[t] # spare
             /\ cb.stage \in {"submit", "feed"} => cb.buf = spare
             /\ cb.stage \in {"feedFull", "submitFull"} => cb.buf = tbuf[cb.t]
             /\ phase \in {"cmd", "stream"} =>
                   spare \notin freed /\ \A t \in armed : tbuf[t] \notin freed

(* What the phases and the calls leave at rest.                              *)
Quiet == flight = <<>> /\ comp = <<>> /\ cb = None
AtRest == /\ phase \notin {"stream", "raced"} => Quiet
          /\ phase = "cmd" => /\ armed = {} /\ freed = {} /\ spare = NoBuf
                              /\ ~gap /\ fed = 0 /\ sentData = 0
          /\ phase \in {"closed", "exited", "raced"} => mode = "idle"
          /\ mode \in {"idle", "drain"} => cb = None
          /\ phase \in {"cmd", "stream"} => (closing <=> mode = "drain")
          /\ mode \in {"ctl", "drain"} =>
                phase = IF why = "close" THEN "stream" ELSE "cmd"

(* The callbacks due in the drain loop: one has run in each round since the  *)
(* last completion, or none is left.                                         *)
Due == {s \in OutSlots : out[s] = "done"}
Calls == Len(comp) + Cardinality(Due)
Pool == Cardinality(Transfers) + Cardinality(OutSlots)
Draining == mode = "drain" => \/ comp = <<>> /\ Due = {}
                              \/ Calls + spins <= Pool + lastDone

(* The data not yet fed is that of the callback and of the completions with  *)
(* data, numbered in order.                                                  *)
Parsing   == cb.stage \in {"submit", "feed", "feedFull"} /\ cb.data
Base      == IF Parsing THEN fed + 1 ELSE fed
Number(k) == mem[tbuf[comp[k].t]]
DataInOrder ==
    alive /\ ~closing =>
      /\ ~gap /\ Base <= sentData
      /\ Parsing => mem[cb.buf] = fed + 1
      /\ \A k \in DOMAIN comp : comp[k].data => Number(k) \in Base + 1 .. sentData
      /\ \A j, k \in DOMAIN comp :
            comp[j].data /\ comp[k].data /\ j < k => Number(j) < Number(k)
      /\ \A n \in Base + 1 .. sentData :
            \E k \in DOMAIN comp : comp[k].data /\ Number(k) = n

IInv == /\ TypeOK /\ OncePlaced /\ OwnBuffer /\ AtRest /\ Draining /\ DataInOrder
        /\ OutSlotOwned /\ FedInOrder

-----------------------------------------------------------------------------
(* Sequences of distinct transfers and of their completions.                 *)

Carriers(c) == {c[k].t : k \in DOMAIN c}

(* The shape of a sequence without its first element.                        *)
LEMMA TailShape ==
  ASSUME NEW S, NEW s \in Seq(S), s # <<>>
  PROVE  /\ Len(s) \in Nat /\ Len(s) >= 1
         /\ DOMAIN s = 1 .. Len(s)
         /\ Head(s) = s[1] /\ Head(s) \in S
         /\ Tail(s) \in Seq(S)
         /\ Len(Tail(s)) = Len(s) - 1
         /\ DOMAIN Tail(s) = 1 .. Len(s) - 1
         /\ \A i \in 1 .. Len(s) - 1 : Tail(s)[i] = s[i + 1]
<1>1. Len(s) \in Nat \ {0} /\ DOMAIN s = 1 .. Len(s)
  BY EmptySeq, LenProperties
<1>2. /\ Head(s) \in S /\ Tail(s) \in Seq(S) /\ Len(Tail(s)) = Len(s) - 1
      /\ \A i \in 1 .. Len(Tail(s)) : Tail(s)[i] = s[i + 1]
  BY HeadTailProperties
<1>3. DOMAIN Tail(s) = 1 .. Len(Tail(s))
  BY <1>2, LenProperties
<1>4. Head(s) = s[1]
  BY <1>1
<1> QED BY <1>1, <1>2, <1>3, <1>4

(* The shape of a sequence with one more element.                            *)
LEMMA AppendShape ==
  ASSUME NEW S, NEW s \in Seq(S), NEW x \in S
  PROVE  /\ Len(s) \in Nat
         /\ DOMAIN s = 1 .. Len(s)
         /\ Append(s, x) \in Seq(S)
         /\ Len(Append(s, x)) = Len(s) + 1
         /\ DOMAIN Append(s, x) = 1 .. Len(s) + 1
         /\ \A i \in 1 .. Len(s) : Append(s, x)[i] = s[i]
         /\ Append(s, x)[Len(s) + 1] = x
<1>1. Len(s) \in Nat /\ DOMAIN s = 1 .. Len(s)
  BY LenProperties
<1>2. /\ Append(s, x) \in Seq(S) /\ Len(Append(s, x)) = Len(s) + 1
      /\ \A i \in 1 .. Len(s) : Append(s, x)[i] = s[i]
      /\ Append(s, x)[Len(s) + 1] = x
  BY AppendProperties
<1>3. DOMAIN Append(s, x) = 1 .. Len(Append(s, x))
  BY <1>2, LenProperties
<1> QED BY <1>1, <1>2, <1>3

(* The transfer at the head of the submitted ones leaves them.               *)
LEMMA TailFlight ==
  ASSUME NEW f \in Seq(Transfers), f # <<>>, OneSubmission(f)
  PROVE  /\ Tail(f) \in Seq(Transfers) /\ Head(f) \in Transfers
         /\ OneSubmission(Tail(f))
         /\ Range(f) = Range(Tail(f)) \cup {Head(f)}
         /\ Head(f) \notin Range(Tail(f))
<1> DEFINE n == Len(f)
<1>1. /\ n \in Nat /\ n >= 1 /\ DOMAIN f = 1 .. n
      /\ Head(f) = f[1] /\ Head(f) \in Transfers /\ Tail(f) \in Seq(Transfers)
      /\ DOMAIN Tail(f) = 1 .. n - 1
      /\ \A i \in 1 .. n - 1 : Tail(f)[i] = f[i + 1]
  BY TailShape
<1> HIDE DEF n
<1>2. \A i \in 1 .. n - 1 : i + 1 \in 1 .. n /\ i + 1 # 1
  BY <1>1
<1>3. \A i \in 1 .. n : i # 1 => i - 1 \in 1 .. n - 1 /\ (i - 1) + 1 = i
  BY <1>1
<1>4. 1 \in 1 .. n
  BY <1>1
<1>5. OneSubmission(Tail(f))
  BY <1>1, <1>2 DEF OneSubmission
<1>6. Range(f) = Range(Tail(f)) \cup {Head(f)}
  <2>1. ASSUME NEW x \in Range(f) PROVE x \in Range(Tail(f)) \cup {Head(f)}
    <3>1. PICK i \in 1 .. n : x = f[i]
      BY <1>1, <2>1 DEF Range
    <3>2. CASE i = 1
      BY <1>1, <3>1, <3>2
    <3>3. CASE i # 1
      <4>1. i - 1 \in DOMAIN Tail(f) /\ Tail(f)[i - 1] = f[i]
        BY <1>1, <1>3, <3>3
      <4> QED BY <3>1, <4>1 DEF Range
    <3> QED BY <3>2, <3>3
  <2>2. ASSUME NEW x \in Range(Tail(f)) PROVE x \in Range(f)
    BY <1>1, <1>2, <2>2 DEF Range
  <2>3. Head(f) \in Range(f)
    BY <1>1, <1>4 DEF Range
  <2> QED BY <2>1, <2>2, <2>3
<1>7. Head(f) \notin Range(Tail(f))
  BY <1>1, <1>2, <1>4 DEF OneSubmission, Range
<1> QED BY <1>1, <1>5, <1>6, <1>7

(* A transfer is submitted behind the others.                                *)
LEMMA AppendFlight ==
  ASSUME NEW f \in Seq(Transfers), NEW t \in Transfers, OneSubmission(f), t \notin Range(f)
  PROVE  /\ Append(f, t) \in Seq(Transfers)
         /\ OneSubmission(Append(f, t))
         /\ Range(Append(f, t)) = Range(f) \cup {t}
<1> DEFINE n == Len(f)  g == Append(f, t)
<1>1. /\ n \in Nat /\ DOMAIN f = 1 .. n /\ g \in Seq(Transfers)
      /\ DOMAIN g = 1 .. n + 1
      /\ \A i \in 1 .. n : g[i] = f[i]
      /\ g[n + 1] = t
  BY AppendShape
<1> HIDE DEF n, g
<1>2. \A i \in 1 .. n + 1 : i \in 1 .. n \/ i = n + 1
  BY <1>1
<1>3. n + 1 \in 1 .. n + 1 /\ \A i \in 1 .. n : i \in 1 .. n + 1
  BY <1>1
<1>4. OneSubmission(g)
  BY <1>1, <1>2 DEF OneSubmission, Range
<1>5. Range(g) = Range(f) \cup {t}
  BY <1>1, <1>2, <1>3 DEF Range
<1> QED BY <1>1, <1>4, <1>5 DEF g

(* The callback of the oldest completion runs.                               *)
LEMMA TailComp ==
  ASSUME NEW c \in Seq(Completion), c # <<>>, OneCompletion(c)
  PROVE  /\ Tail(c) \in Seq(Completion) /\ Head(c) \in Completion
         /\ OneCompletion(Tail(c))
         /\ Carriers(c) = Carriers(Tail(c)) \cup {Head(c).t}
         /\ Head(c).t \notin Carriers(Tail(c))
<1> DEFINE n == Len(c)
<1>1. /\ n \in Nat /\ n >= 1 /\ DOMAIN c = 1 .. n
      /\ Head(c) = c[1] /\ Head(c) \in Completion /\ Tail(c) \in Seq(Completion)
      /\ DOMAIN Tail(c) = 1 .. n - 1
      /\ \A i \in 1 .. n - 1 : Tail(c)[i] = c[i + 1]
  BY TailShape
<1> HIDE DEF n
<1>2. \A i \in 1 .. n - 1 : i + 1 \in 1 .. n /\ i + 1 # 1
  BY <1>1
<1>3. \A i \in 1 .. n : i # 1 => i - 1 \in 1 .. n - 1 /\ (i - 1) + 1 = i
  BY <1>1
<1>4. 1 \in 1 .. n
  BY <1>1
<1>5. OneCompletion(Tail(c))
  BY <1>1, <1>2 DEF OneCompletion
<1>6. Carriers(c) = Carriers(Tail(c)) \cup {Head(c).t}
  <2>1. ASSUME NEW x \in Carriers(c) PROVE x \in Carriers(Tail(c)) \cup {Head(c).t}
    <3>1. PICK i \in 1 .. n : x = c[i].t
      BY <1>1, <2>1 DEF Carriers
    <3>2. CASE i = 1
      BY <1>1, <3>1, <3>2
    <3>3. CASE i # 1
      <4>1. i - 1 \in DOMAIN Tail(c) /\ Tail(c)[i - 1] = c[i]
        BY <1>1, <1>3, <3>3
      <4> QED BY <3>1, <4>1 DEF Carriers
    <3> QED BY <3>2, <3>3
  <2>2. ASSUME NEW x \in Carriers(Tail(c)) PROVE x \in Carriers(c)
    BY <1>1, <1>2, <2>2 DEF Carriers
  <2>3. Head(c).t \in Carriers(c)
    BY <1>1, <1>4 DEF Carriers
  <2> QED BY <2>1, <2>2, <2>3
<1>7. Head(c).t \notin Carriers(Tail(c))
  BY <1>1, <1>2, <1>4 DEF OneCompletion, Carriers
<1> QED BY <1>1, <1>5, <1>6, <1>7

(* A transfer completes after the others.                                    *)
LEMMA AppendComp ==
  ASSUME NEW c \in Seq(Completion), NEW x \in Completion, OneCompletion(c),
         x.t \notin Carriers(c)
  PROVE  /\ Append(c, x) \in Seq(Completion)
         /\ OneCompletion(Append(c, x))
         /\ Carriers(Append(c, x)) = Carriers(c) \cup {x.t}
<1> DEFINE n == Len(c)  g == Append(c, x)
<1>1. /\ n \in Nat /\ DOMAIN c = 1 .. n /\ g \in Seq(Completion)
      /\ DOMAIN g = 1 .. n + 1
      /\ \A i \in 1 .. n : g[i] = c[i]
      /\ g[n + 1] = x
  BY AppendShape
<1> HIDE DEF n, g
<1>2. \A i \in 1 .. n + 1 : i \in 1 .. n \/ i = n + 1
  BY <1>1
<1>3. n + 1 \in 1 .. n + 1 /\ \A i \in 1 .. n : i \in 1 .. n + 1
  BY <1>1
<1>4. OneCompletion(g)
  BY <1>1, <1>2 DEF OneCompletion, Carriers
<1>5. Carriers(g) = Carriers(c) \cup {x.t}
  BY <1>1, <1>2, <1>3 DEF Carriers
<1> QED BY <1>1, <1>4, <1>5 DEF g

(* All submitted transfers complete at once: cancelled, or without a device. *)
LEMMA CompleteAll ==
  ASSUME NEW c \in Seq(Completion), NEW f \in Seq(Transfers), NEW d,
         d \in [DOMAIN f -> Completion], \A k \in DOMAIN f : d[k].t = f[k],
         OneCompletion(c), OneSubmission(f), Range(f) \cap Carriers(c) = {}
  PROVE  /\ c \o d \in Seq(Completion)
         /\ OneCompletion(c \o d)
         /\ Carriers(c \o d) = Carriers(c) \cup Range(f)
         /\ Len(c) \in Nat /\ Len(f) \in Nat
         /\ DOMAIN c = 1 .. Len(c) /\ DOMAIN f = 1 .. Len(f)
         /\ DOMAIN (c \o d) = 1 .. Len(c) + Len(f)
         /\ \A k \in 1 .. Len(c) : (c \o d)[k] = c[k]
         /\ \A k \in 1 .. Len(f) : (c \o d)[Len(c) + k] = d[k]
<1> DEFINE m == Len(c)  n == Len(f)  g == c \o d
<1>1. m \in Nat /\ n \in Nat /\ DOMAIN c = 1 .. m /\ DOMAIN f = 1 .. n
  BY LenProperties
<1>2. d \in Seq(Completion)
  BY <1>1, SeqDef, SMT
<1>3. Len(d) = n
  BY <1>1, <1>2, LenProperties
<1>4. /\ g \in Seq(Completion) /\ Len(g) = m + n
      /\ \A i \in 1 .. m + n : g[i] = IF i <= m THEN c[i] ELSE d[i - m]
  <2>1. /\ c \o d \in Seq(Completion) /\ Len(c \o d) = Len(c) + Len(d)
        /\ \A i \in 1 .. Len(c) + Len(d) :
              (c \o d)[i] = IF i <= Len(c) THEN c[i] ELSE d[i - Len(c)]
    BY <1>2, ConcatProperties, Zenon
  <2> QED BY <1>3, <2>1, Zenon
<1>5. DOMAIN g = 1 .. m + n
  BY <1>4, LenProperties
<1> HIDE DEF m, n, g
<1>6. \A i \in 1 .. m + n : i \in 1 .. m \/ (i - m \in 1 .. n /\ ~(i <= m))
  BY <1>1
<1>7. \A i \in 1 .. m : i \in 1 .. m + n /\ i <= m
  BY <1>1
<1>8. \A i \in 1 .. n : m + i \in 1 .. m + n /\ ~(m + i <= m) /\ (m + i) - m = i
  BY <1>1
<1>9. (\A i \in 1 .. m : g[i] = c[i]) /\ (\A i \in 1 .. n : g[m + i] = d[i])
  BY <1>4, <1>7, <1>8
<1>10. OneCompletion(g)
  <2> SUFFICES ASSUME NEW i \in 1 .. m + n, NEW j \in 1 .. m + n, i # j
               PROVE  g[i].t # g[j].t
    BY <1>5 DEF OneCompletion
  <2>1. CASE i \in 1 .. m /\ j \in 1 .. m
    BY <1>1, <1>9, <2>1 DEF OneCompletion
  <2>2. CASE i \notin 1 .. m /\ j \notin 1 .. m
    <3>1. i - m \in 1 .. n /\ j - m \in 1 .. n /\ i - m # j - m
      BY <1>1, <1>6, <2>2
    <3>2. g[i].t = f[i - m] /\ g[j].t = f[j - m]
      BY <1>1, <1>4, <1>6, <2>2, <3>1
    <3> QED BY <1>1, <3>1, <3>2 DEF OneSubmission
  <2>3. CASE i \in 1 .. m /\ j \notin 1 .. m
    <3>1. g[i].t \in Carriers(c)
      BY <1>1, <1>9, <2>3 DEF Carriers
    <3>2. g[j].t \in Range(f)
      BY <1>1, <1>4, <1>6, <2>3 DEF Range
    <3> QED BY <3>1, <3>2
  <2>4. CASE i \notin 1 .. m /\ j \in 1 .. m
    <3>1. g[j].t \in Carriers(c)
      BY <1>1, <1>9, <2>4 DEF Carriers
    <3>2. g[i].t \in Range(f)
      BY <1>1, <1>4, <1>6, <2>4 DEF Range
    <3> QED BY <3>1, <3>2
  <2> QED BY <2>1, <2>2, <2>3, <2>4
<1>11. Carriers(g) = Carriers(c) \cup Range(f)
  <2>1. ASSUME NEW x \in Carriers(g) PROVE x \in Carriers(c) \cup Range(f)
    <3>1. PICK i \in 1 .. m + n : x = g[i].t
      BY <1>5 DEF Carriers
    <3> QED BY <1>1, <1>4, <1>6, <1>9, <3>1 DEF Carriers, Range
  <2>2. Carriers(c) \subseteq Carriers(g)
    BY <1>1, <1>5, <1>7, <1>9 DEF Carriers
  <2>3. Range(f) \subseteq Carriers(g)
    BY <1>1, <1>5, <1>8, <1>9 DEF Carriers, Range
  <2> QED BY <2>1, <2>2, <2>3
<1> QED BY <1>1, <1>4, <1>5, <1>9, <1>10, <1>11 DEF m, n, g

(* A pool of transfers is submitted in some order, each once.                *)
LEMMA SubmitAll ==
  ASSUME NEW S \in SUBSET Transfers
  PROVE  /\ SetToSeq(S) \in Seq(Transfers)
         /\ OneSubmission(SetToSeq(S))
         /\ Range(SetToSeq(S)) = S
         /\ S = {} => SetToSeq(S) = <<>>
<1> DEFINE n == Cardinality(S)  f == SetToSeq(S)
<1>1. IsFiniteSet(S)
  BY PoolAssumption, FS_Subset
<1>2. n \in Nat /\ ExistsBijection(1 .. n, S)
  BY <1>1, FS_CardinalityType
<1>3. \E g \in [1 .. n -> S] : IsInjective(g)
  BY <1>2 DEF ExistsBijection, Bijection, Injection
<1>4. f \in [1 .. n -> S] /\ IsInjective(f)
  BY <1>3 DEF SetToSeq
<1>5. f \in Injection(1 .. n, S)
  BY <1>4 DEF Injection
<1>6. Cardinality(1 .. n) = n
  BY <1>2, FS_Interval
<1>7. f \in Surjection(1 .. n, S)
  BY <1>1, <1>5, <1>6, FS_Injection
<1> HIDE DEF f
<1>8. Range(f) = S
  BY <1>4, <1>7 DEF Surjection, Range
<1>9. f \in Seq(Transfers)
  <2>1. f \in [1 .. n -> Transfers]
    BY <1>4
  <2> QED BY <1>2, <2>1, SeqDef
<1>10. OneSubmission(f)
  BY <1>4 DEF IsInjective, OneSubmission
<1>11. S = {} => f = <<>>
  <2> SUFFICES ASSUME S = {} PROVE f = <<>>
    OBVIOUS
  <2>1. n = 0
    BY FS_EmptySet
  <2>2. Len(f) = 0
    <3>1. DOMAIN f = 1 .. 0
      BY <1>4, <2>1
    <3>2. DOMAIN f = 1 .. Len(f) /\ Len(f) \in Nat
      BY <1>9, LenProperties
    <3> QED BY <3>1, <3>2
  <2> QED BY <1>9, <2>2, EmptySeq
<1> QED BY <1>8, <1>9, <1>10, <1>11 DEF f

(* There are no more completions than transfers.                             *)
LEMMA CompBound ==
  ASSUME NEW c \in Seq(Completion), OneCompletion(c)
  PROVE  Len(c) \in Nat /\ Len(c) <= Cardinality(Transfers)
<1> DEFINE n == Len(c)  g == [k \in 1 .. n |-> c[k].t]
<1>1. n \in Nat /\ DOMAIN c = 1 .. n /\ c \in [1 .. n -> Completion]
  BY LenProperties
<1> HIDE DEF n
<1>2. g \in [1 .. n -> Transfers]
  BY <1>1 DEF Completion
<1>3. \A a, b \in 1 .. n : g[a] = g[b] => a = b
  BY <1>1 DEF OneCompletion
<1> HIDE DEF g
<1>4. g \in Injection(1 .. n, Transfers)
  BY <1>2, <1>3 DEF Injection, IsInjective
<1>5. Cardinality(1 .. n) <= Cardinality(Transfers)
  BY <1>4, PoolAssumption, FS_Injection
<1>6. Cardinality(1 .. n) = n
  BY <1>1, FS_Interval
<1> QED BY <1>1, <1>5, <1>6 DEF n

(* The callbacks due are no more than the transfers, so the rounds start to  *)
(* count again with every completion.                                        *)
LEMMA JustCompleted ==
  ASSUME comp' \in Seq(Completion), OneCompletion(comp'), spins' \in Nat,
         lastDone' \in Nat, spins' <= lastDone'
  PROVE  Draining'
<1>1. Len(comp') \in Nat /\ Len(comp') <= Cardinality(Transfers)
  BY CompBound
<1>2. Due' \subseteq OutSlots
  BY DEF Due
<1>3. Cardinality(Due') \in Nat /\ Cardinality(Due') <= Cardinality(OutSlots)
  BY <1>2, PoolAssumption, FS_Subset, FS_CardinalityType
<1>4. Cardinality(Transfers) \in Nat /\ Cardinality(OutSlots) \in Nat
  BY PoolAssumption, FS_CardinalityType
<1>5. Len(comp') + Cardinality(Due') + spins'
        <= Cardinality(Transfers) + Cardinality(OutSlots) + lastDone'
  BY <1>1, <1>3, <1>4
<1> QED BY <1>5, Zenon DEF Draining, Calls, Pool

-----------------------------------------------------------------------------
(* tl_open establishes the invariant.                                        *)
LEMMA InitIInv == Init => IInv
<1> SUFFICES ASSUME Init PROVE IInv
  OBVIOUS
<1> USE PoolAssumption DEF Init
<1>1. TypeOK
  BY EmptySeq DEF TypeOK, CtlTypeOK, PoolTypeOK, OutTypeOK, DataTypeOK, Bufs
<1>2. Submitted = {} /\ Waiting = {} /\ cb.stage = "none" /\ DOMAIN flight = {}
      /\ DOMAIN comp = {}
  BY DEF Submitted, Waiting, Range, None
<1>3. OncePlaced
  BY <1>2 DEF OncePlaced, OneSubmission, OneCompletion, Holding
<1>4. OwnBuffer
  BY <1>2 DEF OwnBuffer, Bufs
<1>5. AtRest /\ Draining
  BY DEF AtRest, Draining, Quiet
<1>6. DataInOrder
  BY <1>2 DEF DataInOrder, Base, Parsing
<1>7. OutSlotOwned /\ FedInOrder
  BY DEF OutSlotOwned, FedInOrder
<1> QED BY <1>1, <1>3, <1>4, <1>5, <1>6, <1>7 DEF IInv

(* The callback under way and its stages.                                    *)
LEMMA CbStage ==
  ASSUME PoolTypeOK
  PROVE  /\ cb = None <=> cb.stage = "none"
         /\ cb # None => /\ cb \in Callback /\ cb.t \in Transfers /\ cb.buf \in Bufs
                         /\ cb.data \in BOOLEAN
                         /\ cb.stage \in {"submit", "feed", "feedFull", "submitFull"}
  BY DEF PoolTypeOK, Callback, None

(* A callback runs only while the transport streams, before the teardown.    *)
LEMMA CbLive ==
  ASSUME IInv, cb # None
  PROVE  phase = "stream" /\ ~closing /\ mode \in {"events", "ctl"}
<1>1. phase = "stream" /\ mode \notin {"idle", "drain"}
  BY DEF IInv, AtRest, Quiet
<1> QED BY <1>1 DEF IInv, AtRest, TypeOK, CtlTypeOK

(* A step that touches neither the pool nor the callback nor the data.       *)
LEMMA KeepPool ==
  ASSUME OncePlaced, OwnBuffer, DataInOrder, FedInOrder, PoolTypeOK, DataTypeOK,
         UNCHANGED <<poolVars, cb, mem, sentData, fed, gap, staleFeed, freed, phase, closing>>,
         lastDone' \in Nat, alive' => alive
  PROVE  /\ OncePlaced' /\ OwnBuffer' /\ DataInOrder' /\ FedInOrder'
         /\ PoolTypeOK' /\ DataTypeOK'
<1> USE DEF poolVars
<1>1. PoolTypeOK' /\ DataTypeOK'
  BY DEF PoolTypeOK, DataTypeOK
<1>2. OncePlaced' /\ OwnBuffer'
  BY DEF OncePlaced, OwnBuffer, Submitted, Waiting, Holding
<1>3. DataInOrder' /\ FedInOrder'
  BY DEF DataInOrder, FedInOrder, Base, Parsing, Number
<1> QED BY <1>1, <1>2, <1>3

(* The calls that change only where the thread is, and the OUT transfers.    *)
LEMMA CallStep ==
  ASSUME IInv, \/ Write \/ EventsBegin \/ EventsEnd \/ DeleteUpper \/ ResetRequest
               \/ OutCallback \/ OutCompletes \/ UNCHANGED vars
  PROVE  IInv'
<1>1. CtlTypeOK /\ PoolTypeOK /\ OutTypeOK /\ DataTypeOK /\ OutSlotOwned
  BY DEF IInv, TypeOK
<1>2. /\ UNCHANGED <<poolVars, cb, mem, sentData, fed, gap, staleFeed, freed, phase, closing,
                     spins>>
      /\ alive' => alive
  <2>1. UNCHANGED <<poolVars, cb, mem, sentData, fed, gap, staleFeed, freed, phase, closing,
                    spins>>
    BY DEF Write, EventsBegin, EventsEnd, DeleteUpper, ResetRequest, OutCallback,
         OutCompletes, vars, ctlVars, poolVars, dataVars
  <2>2. alive' = alive \/ alive' = FALSE
    BY DEF Write, EventsBegin, EventsEnd, DeleteUpper, ResetRequest, OutCallback,
         OutCompletes, vars, ctlVars
  <2>3. alive' => alive
    BY <1>1, <2>2 DEF CtlTypeOK
  <2> QED BY <2>1, <2>3
<1>3. OncePlaced' /\ OwnBuffer' /\ DataInOrder' /\ FedInOrder' /\ PoolTypeOK' /\ DataTypeOK'
  <2>1. lastDone' = lastDone \/ lastDone' = spins
    BY DEF Write, EventsBegin, EventsEnd, DeleteUpper, ResetRequest, OutCallback,
         OutCompletes, vars, dataVars
  <2>2. lastDone' \in Nat
    BY <1>1, <2>1 DEF CtlTypeOK, DataTypeOK
  <2> QED BY <1>2, <2>2, KeepPool DEF IInv, TypeOK
<1>4. CtlTypeOK'
  BY <1>1, <1>2 DEF CtlTypeOK, Write, EventsBegin, EventsEnd, DeleteUpper, ResetRequest,
       OutCallback, OutCompletes, vars, ctlVars
<1>5. OutTypeOK' /\ OutSlotOwned'
  <2>1. CASE Write \/ OutCallback \/ OutCompletes
    <3>1. PICK s \in OutSlots :
            /\ out' = [out EXCEPT ![s] = out'[s]] /\ out'[s] \in {"idle", "flight", "done"}
            /\ busy' = [busy EXCEPT ![s] = busy'[s]] /\ busy'[s] \in BOOLEAN
            /\ busy'[s] <=> out'[s] # "idle"
      <4>1. CASE Write
        BY <1>1, <4>1 DEF Write, OutTypeOK
      <4>2. CASE OutCallback
        BY <1>1, <4>2 DEF OutCallback, OutTypeOK
      <4>3. CASE OutCompletes
        BY <1>1, <4>3 DEF OutCompletes, OutTypeOK, OutSlotOwned
      <4> QED BY <2>1, <4>1, <4>2, <4>3
    <3> QED BY <1>1, <1>2, <3>1 DEF OutTypeOK, OutSlotOwned
  <2>2. CASE UNCHANGED <<out, busy>>
    BY <1>1, <1>2, <2>2 DEF OutTypeOK, OutSlotOwned
  <2> QED BY <2>1, <2>2 DEF EventsBegin, EventsEnd, DeleteUpper, ResetRequest, outVars, vars
<1>6. AtRest'
  BY <1>1, <1>2 DEF IInv, AtRest, Quiet, CtlTypeOK, poolVars, dataVars, ctlVars, vars, Write,
       EventsBegin, EventsEnd, DeleteUpper, ResetRequest, OutCallback, OutCompletes
<1>7. Draining'
  <2>1. CASE mode' # "drain"
    BY <2>1 DEF Draining
  <2>2. CASE mode' = "drain" /\ UNCHANGED <<out, lastDone>>
    <3>1. mode = "drain"
      BY <2>2 DEF Write, EventsBegin, EventsEnd, DeleteUpper, ResetRequest, OutCallback,
           OutCompletes, Handling, ctlVars, vars
    <3> QED BY <1>2, <2>2, <3>1 DEF IInv, Draining, Calls, Pool, Due, poolVars
  <2>3. CASE OutCompletes
    <3>1. /\ comp' = comp /\ spins' = spins /\ lastDone' = spins /\ spins \in Nat
          /\ comp \in Seq(Completion) /\ OneCompletion(comp)
      BY <1>1, <1>2, <2>3 DEF OutCompletes, poolVars, CtlTypeOK, PoolTypeOK, IInv, OncePlaced
    <3>2. spins' \in Nat /\ lastDone' \in Nat /\ spins' <= lastDone'
      BY <3>1
    <3> QED BY <3>1, <3>2, JustCompleted
  <2>4. CASE ~OutCompletes /\ mode' = "drain"
    <3>1. UNCHANGED <<out, lastDone>>
      BY <2>4 DEF Write, EventsBegin, EventsEnd, DeleteUpper, ResetRequest, OutCallback,
           Handling, ctlVars, vars, outVars, dataVars
    <3> QED BY <2>2, <2>4, <3>1
  <2> QED BY <2>1, <2>3, <2>4
<1> QED BY <1>3, <1>4, <1>5, <1>6, <1>7 DEF IInv, TypeOK

(* tl_stream_mode arms the pool.                                             *)
LEMMA StreamModeStep == ASSUME IInv, StreamMode PROVE IInv'
<1>1. /\ phase = "cmd" /\ mode = "idle" /\ Quiet /\ spare = NoBuf /\ ~gap /\ fed = 0
      /\ sentData = 0 /\ ~closing
  BY DEF StreamMode, IInv, AtRest
<1>2. PICK ok \in SUBSET Transfers :
         /\ armed' = ok /\ flight' = SetToSeq(ok) /\ freed' = Transfers \ ok
         /\ phase' = IF ok = {} THEN "exited" ELSE "stream"
  BY DEF StreamMode
<1>3. /\ spare' = Spare /\ tbuf' = [t \in Transfers |-> t]
      /\ UNCHANGED <<mode, closing, alive, spins, why, upper, comp, out, busy, cb, mem,
                     sentData, fed, gap, staleFeed, lastDone>>
  BY <1>1 DEF StreamMode, outVars, dataVars
<1>4. /\ flight' \in Seq(Transfers) /\ OneSubmission(flight') /\ Submitted' = ok
      /\ ok = {} => flight' = <<>>
  BY <1>2, SubmitAll DEF Submitted
<1>5. comp' = <<>> /\ cb' = None /\ Waiting' = {} /\ DOMAIN comp' = {} /\ cb'.stage = "none"
  BY <1>1, <1>3 DEF Quiet, Waiting, None
<1>6. TypeOK'
  <2>1. CtlTypeOK /\ PoolTypeOK /\ OutTypeOK /\ DataTypeOK
    BY DEF IInv, TypeOK
  <2>2. CtlTypeOK' /\ OutTypeOK' /\ DataTypeOK'
    BY <1>2, <1>3, <2>1 DEF CtlTypeOK, OutTypeOK, DataTypeOK
  <2>3. PoolTypeOK'
    BY <1>2, <1>3, <1>4, <1>5, <2>1 DEF PoolTypeOK, Bufs
  <2> QED BY <2>2, <2>3 DEF TypeOK
<1>7. OncePlaced'
  BY <1>2, <1>4, <1>5 DEF OncePlaced, OneCompletion, Holding
<1>8. OwnBuffer'
  BY <1>2, <1>3, <1>5, PoolAssumption DEF OwnBuffer, Bufs
<1>9. AtRest' /\ Draining'
  BY <1>1, <1>2, <1>3, <1>4, <1>5 DEF AtRest, Draining, Quiet
<1>10. DataInOrder'
  BY <1>1, <1>3, <1>5 DEF DataInOrder, Base, Parsing
<1>11. OutSlotOwned' /\ FedInOrder'
  BY <1>1, <1>3 DEF IInv, OutSlotOwned, FedInOrder
<1> QED BY <1>6, <1>7, <1>8, <1>9, <1>10, <1>11 DEF IInv

(* tl_teardown_io asks for the cancellation of everything.                   *)
LEMMA TeardownStep == ASSUME IInv, Teardown PROVE IInv'
<1>1. /\ mode = "ctl" /\ cb = None /\ mode' = "drain" /\ closing' = TRUE /\ spins' = 0
      /\ UNCHANGED <<phase, alive, why, upper, freed, flight, comp, tbuf, spare, armed, out,
                     busy, cb, mem, sentData, fed, gap, staleFeed, lastDone>>
  BY DEF Teardown, poolVars, outVars, dataVars
<1>2. /\ CtlTypeOK /\ PoolTypeOK /\ OutTypeOK /\ DataTypeOK /\ OncePlaced /\ OwnBuffer
      /\ OutSlotOwned /\ FedInOrder /\ AtRest
  BY DEF IInv, TypeOK
<1>3. TypeOK'
  <2>1. CtlTypeOK' /\ OutTypeOK' /\ DataTypeOK'
    BY <1>1, <1>2 DEF CtlTypeOK, OutTypeOK, DataTypeOK
  <2>2. PoolTypeOK'
    BY <1>1, <1>2 DEF PoolTypeOK
  <2> QED BY <2>1, <2>2 DEF TypeOK
<1>4. OncePlaced'
  BY <1>1, <1>2 DEF OncePlaced, Holding, Submitted, Waiting
<1>5. OwnBuffer'
  BY <1>1, <1>2 DEF OwnBuffer
<1>6. AtRest'
  BY <1>1, <1>2 DEF AtRest, Quiet, CtlTypeOK
<1>7. Draining'
  <2>1. /\ comp' \in Seq(Completion) /\ OneCompletion(comp') /\ spins' = 0
        /\ lastDone' \in Nat
    BY <1>1, <1>2 DEF PoolTypeOK, OncePlaced, DataTypeOK
  <2> QED BY <2>1, JustCompleted
<1>8. DataInOrder' /\ FedInOrder'
  BY <1>1, <1>2 DEF DataInOrder, FedInOrder
<1>9. OutSlotOwned'
  BY <1>1, <1>2 DEF OutSlotOwned
<1> QED BY <1>3, <1>4, <1>5, <1>6, <1>7, <1>8, <1>9 DEF IInv

(* A round of the drain loop runs one of the callbacks that are due.         *)
LEMMA DrainSpinStep == ASSUME IInv, DrainSpin PROVE IInv'
<1>1. /\ mode = "drain" /\ cb = None /\ spins' = spins + 1
      /\ UNCHANGED <<phase, mode, closing, alive, why, upper, flight, tbuf, spare, freed,
                     armed, cb, mem, sentData, fed, gap, staleFeed, lastDone>>
  BY DEF DrainSpin, dataVars
<1>2. /\ CtlTypeOK /\ PoolTypeOK /\ OutTypeOK /\ DataTypeOK /\ OncePlaced /\ OwnBuffer
      /\ OutSlotOwned /\ FedInOrder /\ AtRest /\ closing
      /\ (comp = <<>> /\ Due = {}) \/ Calls + spins <= Pool + lastDone
  BY <1>1 DEF IInv, TypeOK, Draining, AtRest, CtlTypeOK
<1>3. /\ Len(comp) \in Nat /\ IsFiniteSet(Due) /\ Cardinality(Due) \in Nat /\ spins \in Nat
      /\ Pool \in Nat /\ lastDone \in Nat /\ comp \in Seq(Completion)
  <2>1. Due \subseteq OutSlots
    BY DEF Due
  <2>2. IsFiniteSet(Due) /\ Cardinality(Due) \in Nat
    BY <2>1, PoolAssumption, FS_Subset, FS_CardinalityType
  <2>3. Cardinality(Transfers) \in Nat /\ Cardinality(OutSlots) \in Nat
    BY PoolAssumption, FS_CardinalityType
  <2>4. Pool \in Nat
    BY <2>3 DEF Pool
  <2> QED BY <1>2, <2>2, <2>4, LenProperties DEF PoolTypeOK, CtlTypeOK, DataTypeOK
<1>4. /\ comp' \in Seq(Completion) /\ OneCompletion(comp') /\ Waiting' \subseteq Waiting
      /\ OutTypeOK' /\ OutSlotOwned' /\ Draining'
      /\ comp = <<>> => comp' = <<>>
  <2>1. CASE UNCHANGED comp /\ \E s \in OutSlots : /\ out[s] = "done"
                                                   /\ out' = [out EXCEPT ![s] = "idle"]
                                                   /\ busy' = [busy EXCEPT ![s] = FALSE]
    <3>1. PICK s \in OutSlots : /\ out[s] = "done"
                                /\ out' = [out EXCEPT ![s] = "idle"]
                                /\ busy' = [busy EXCEPT ![s] = FALSE]
      BY <2>1
    <3>2. Due' = Due \ {s} /\ s \in Due
      BY <1>2, <3>1 DEF Due, OutTypeOK
    <3>3. Cardinality(Due') = Cardinality(Due) - 1
      BY <1>3, <3>2, FS_RemoveElement
    <3>4. Len(comp') = Len(comp) /\ Len(comp) + Cardinality(Due) + spins <= Pool + lastDone
      BY <1>2, <2>1, <3>2 DEF Calls
    <3>5. Len(comp') + Cardinality(Due') + spins' <= Pool + lastDone
      BY <1>1, <1>3, <3>3, <3>4
    <3>6. Draining'
      BY <1>1, <3>5 DEF Draining, Calls, Pool
    <3>7. OutTypeOK' /\ OutSlotOwned'
      BY <1>1, <1>2, <3>1 DEF OutTypeOK, OutSlotOwned
    <3> QED BY <1>2, <2>1, <3>6, <3>7 DEF PoolTypeOK, OncePlaced, Waiting
  <2>2. CASE comp # <<>> /\ comp' = Tail(comp) /\ UNCHANGED <<out, busy>>
    <3>1. /\ comp' \in Seq(Completion) /\ OneCompletion(comp')
          /\ Carriers(comp) = Carriers(comp') \cup {Head(comp).t}
      BY <1>2, <2>2, TailComp DEF PoolTypeOK, OncePlaced
    <3>2. Len(comp') = Len(comp) - 1
      BY <1>3, <2>2, HeadTailProperties
    <3>3. Due' = Due /\ Len(comp) + Cardinality(Due) + spins <= Pool + lastDone
      BY <1>2, <2>2 DEF Due, Calls
    <3>4. Len(comp') + Cardinality(Due') + spins' <= Pool + lastDone
      BY <1>1, <1>3, <3>2, <3>3
    <3>5. Draining'
      BY <1>1, <3>4 DEF Draining, Calls, Pool
    <3> QED BY <1>1, <1>2, <2>2, <3>1, <3>5 DEF OutTypeOK, OutSlotOwned, Waiting, Carriers
  <2>3. CASE /\ comp = <<>> /\ \A s \in OutSlots : out[s] # "done"
             /\ UNCHANGED <<comp, out, busy>>
    <3>1. comp' = <<>> /\ Due' = {}
      BY <2>3 DEF Due
    <3>2. Draining'
      BY <3>1 DEF Draining
    <3> QED
      BY <1>1, <1>2, <2>3, <3>2 DEF OutTypeOK, OutSlotOwned, PoolTypeOK, OncePlaced, Waiting
  <2> QED BY <2>1, <2>2, <2>3 DEF DrainSpin, outVars
<1>5. TypeOK'
  BY <1>1, <1>2, <1>3, <1>4 DEF TypeOK, CtlTypeOK, PoolTypeOK, DataTypeOK
<1>6. OncePlaced'
  BY <1>1, <1>2, <1>4 DEF OncePlaced, Submitted, Holding, None
<1>7. OwnBuffer' /\ AtRest'
  BY <1>1, <1>2, <1>4 DEF OwnBuffer, AtRest, Quiet
<1>8. DataInOrder' /\ FedInOrder'
  BY <1>1, <1>2 DEF DataInOrder, FedInOrder
<1> QED BY <1>4, <1>5, <1>6, <1>7, <1>8 DEF IInv

(* When the drain loop ends, every callback has run if the kernel was in     *)
(* time.                                                                     *)
LEMMA Drained ==
  ASSUME IInv, mode = "drain", spins = Spins, InTime
  PROVE  ~Outstanding
<1>1. /\ flight = <<>> /\ (\A s \in OutSlots : out[s] # "flight")
      /\ lastDone + Cardinality(Transfers) + Cardinality(OutSlots) <= Spins
      /\ (comp = <<>> /\ Due = {}) \/ Calls + spins <= Pool + lastDone
  BY DEF IInv, Draining, InTime
<1>2. Len(comp) \in Nat /\ comp \in Seq(Completion) /\ lastDone \in Nat
  BY LenProperties DEF IInv, TypeOK, PoolTypeOK, DataTypeOK
<1>3. IsFiniteSet(Due) /\ Cardinality(Due) \in Nat
  <2>1. Due \subseteq OutSlots
    BY DEF Due
  <2> QED BY <2>1, PoolAssumption, FS_Subset, FS_CardinalityType
<1>4. comp = <<>> /\ Due = {}
  <2> SUFFICES ASSUME Calls + spins <= Pool + lastDone PROVE comp = <<>> /\ Due = {}
    BY <1>1
  <2>1. Cardinality(Transfers) \in Nat /\ Cardinality(OutSlots) \in Nat
    BY PoolAssumption, FS_CardinalityType
  <2>2. Len(comp) = 0 /\ Cardinality(Due) = 0
    BY <1>1, <1>2, <1>3, <2>1, SpinsAssumption DEF Calls, Pool
  <2> QED BY <1>2, <1>3, <2>2, EmptySeq, FS_EmptySet
<1> QED BY <1>1, <1>4 DEF Due, Outstanding, IInv, TypeOK, OutTypeOK

(* tl_teardown_io frees the pools.                                           *)
LEMMA TeardownFreeStep == ASSUME IInv, TeardownFree PROVE IInv'
<1>1. /\ mode = "drain" /\ mode' = "idle" /\ armed' = {}
      /\ freed' = freed \cup armed /\ spins' = 0
      /\ busy' = [s \in OutSlots |-> FALSE]
      /\ UNCHANGED <<why, upper, flight, comp, tbuf, spare, out, cb, mem, sentData, fed,
                     gap, staleFeed, lastDone>>
  BY DEF TeardownFree, dataVars
<1>2. \/ Outstanding /\ phase' = "raced" /\ UNCHANGED <<closing, alive>>
      \/ ~Outstanding /\ why = "close" /\ phase' = "closed" /\ UNCHANGED <<closing, alive>>
      \/ ~Outstanding /\ why = "reset" /\ phase' = "cmd" /\ closing' = FALSE /\ alive' = TRUE
      \/ /\ ~Outstanding /\ why = "reset" /\ phase' = "exited"
         /\ closing' = FALSE /\ alive' = FALSE
  BY DEF TeardownFree, Reopen
<1>3. /\ CtlTypeOK /\ PoolTypeOK /\ OutTypeOK /\ DataTypeOK /\ OncePlaced /\ OwnBuffer
      /\ OutSlotOwned /\ FedInOrder /\ AtRest
  BY DEF IInv, TypeOK
<1>4. ~Outstanding => flight = <<>> /\ comp = <<>> /\ \A s \in OutSlots : out[s] = "idle"
  BY DEF Outstanding
<1>5. cb = None /\ closing /\ cb.stage = "none"
  BY <1>1, <1>3 DEF AtRest, None, CtlTypeOK
<1>6. why = "reset" => /\ armed = {} /\ freed = {} /\ spare = NoBuf
                       /\ ~gap /\ fed = 0 /\ sentData = 0
  BY <1>1, <1>3 DEF AtRest
<1>7. TypeOK'
  <2>1. CtlTypeOK' /\ DataTypeOK' /\ OutTypeOK'
    BY <1>1, <1>2, <1>3 DEF CtlTypeOK, DataTypeOK, OutTypeOK
  <2>2. PoolTypeOK'
    BY <1>1, <1>3 DEF PoolTypeOK
  <2> QED BY <2>1, <2>2 DEF TypeOK
<1>8. OwnBuffer'
  <2>1. phase' = "cmd" => freed' = {}
    BY <1>1, <1>2, <1>6
  <2>2. phase' # "stream"
    BY <1>2
  <2> QED BY <1>1, <1>3, <1>5, <2>1, <2>2 DEF OwnBuffer
<1>9. CASE Outstanding
  <2>1. phase' = "raced" /\ UNCHANGED <<closing, alive>>
    BY <1>2, <1>9
  <2>2. OncePlaced'
    BY <1>1, <1>3, <1>5, <2>1 DEF OncePlaced, Submitted, Waiting, Holding
  <2>3. AtRest' /\ Draining' /\ OutSlotOwned'
    BY <1>1, <1>5, <2>1 DEF AtRest, Draining, OutSlotOwned
  <2>4. DataInOrder' /\ FedInOrder'
    BY <1>1, <1>3, <1>5, <2>1 DEF DataInOrder, FedInOrder
  <2> QED BY <1>7, <1>8, <2>2, <2>3, <2>4 DEF IInv
<1>10. CASE ~Outstanding
  <2>1. /\ flight = <<>> /\ comp = <<>> /\ phase' # "raced"
        /\ Submitted' = {} /\ Waiting' = {} /\ DOMAIN comp' = {} /\ DOMAIN flight' = {}
    BY <1>1, <1>2, <1>4, <1>10 DEF Submitted, Waiting, Range
  <2>2. OncePlaced'
    BY <1>1, <1>2, <1>5, <2>1 DEF OncePlaced, OneSubmission, OneCompletion, Holding
  <2>3. AtRest' /\ Draining'
    BY <1>1, <1>2, <1>5, <1>6, <1>10, <2>1 DEF AtRest, Draining, Quiet
  <2>4. DataInOrder' /\ FedInOrder'
    <3>1. CASE why = "reset"
      <4>1. ~gap' /\ fed' = 0 /\ sentData' = 0 /\ ~Parsing'
        BY <1>1, <1>5, <1>6, <3>1 DEF Parsing
      <4> QED BY <2>1, <4>1 DEF DataInOrder, FedInOrder, Base
    <3>2. CASE why = "close"
      <4>1. phase' = "closed" /\ UNCHANGED <<closing, alive>>
        BY <1>2, <1>10, <3>2
      <4>2. UNCHANGED gap
        BY <1>1
      <4> QED BY <1>3, <1>5, <4>1, <4>2 DEF DataInOrder, FedInOrder
    <3> QED BY <1>2, <1>10, <3>1, <3>2
  <2>5. OutSlotOwned'
    BY <1>1, <1>4, <1>10 DEF OutSlotOwned
  <2> QED BY <1>7, <1>8, <2>2, <2>3, <2>4, <2>5 DEF IInv
<1> QED BY <1>9, <1>10

-----------------------------------------------------------------------------
(* in_callback takes up the oldest completion: its data is next.             *)
LEMMA TakeData ==
  ASSUME IInv, comp # <<>>, cb = None, comp' = Tail(comp),
         UNCHANGED <<mem, sentData, fed, gap, alive, closing>>,
         Parsing' <=> Head(comp).data, cb'.buf = tbuf[Head(comp).t],
         \A t \in Transfers \ {Head(comp).t} : tbuf'[t] = tbuf[t]
  PROVE  DataInOrder'
<1> DEFINE n == Len(comp)
<1>1. /\ n \in Nat /\ n >= 1 /\ DOMAIN comp = 1 .. n /\ Head(comp) = comp[1]
      /\ DOMAIN comp' = 1 .. n - 1 /\ \A k \in 1 .. n - 1 : comp'[k] = comp[k + 1]
  BY TailShape DEF IInv, TypeOK, PoolTypeOK
<1> HIDE DEF n
<1>2. 1 \in 1 .. n /\ \A k \in 1 .. n - 1 : k + 1 \in 1 .. n /\ k + 1 # 1
  BY <1>1
<1>3. \A k \in 1 .. n - 1 : Number(k)' = Number(k + 1)
  <2> TAKE k \in 1 .. n - 1
  <2>1. comp[k + 1].t # comp[1].t
    BY <1>1, <1>2 DEF IInv, OncePlaced, OneCompletion
  <2>2. comp[k + 1].t \in Transfers
    <3>1. comp[k + 1] \in Completion
      BY <1>1, <1>2, LenProperties DEF IInv, TypeOK, PoolTypeOK
    <3> QED BY <3>1 DEF Completion
  <2> QED BY <1>1, <2>1, <2>2 DEF Number
<1>4. SUFFICES ASSUME alive, ~closing PROVE DataInOrder'
  BY DEF DataInOrder
<1>5. /\ ~gap /\ fed <= sentData /\ Base = fed
      /\ \A k \in 1 .. n : comp[k].data => Number(k) \in fed + 1 .. sentData
      /\ \A j, k \in 1 .. n :
            comp[j].data /\ comp[k].data /\ j < k => Number(j) < Number(k)
      /\ \A m \in fed + 1 .. sentData : \E k \in 1 .. n : comp[k].data /\ Number(k) = m
  <2>1. Base = fed
    BY DEF Base, Parsing, None
  <2> QED BY <1>1, <1>4, <2>1 DEF IInv, DataInOrder
<1>6. fed \in Nat /\ sentData \in Nat
  BY DEF IInv, TypeOK, DataTypeOK
<1>7. comp[1].data => Number(1) = fed + 1
  <2> SUFFICES ASSUME comp[1].data PROVE Number(1) = fed + 1
    OBVIOUS
  <2>1. Number(1) \in fed + 1 .. sentData
    BY <1>2, <1>5
  <2>2. fed + 1 \in fed + 1 .. sentData
    BY <1>6, <2>1
  <2>3. PICK k \in 1 .. n : comp[k].data /\ Number(k) = fed + 1
    BY <1>5, <2>2
  <2>4. CASE k = 1
    BY <2>3, <2>4
  <2>5. CASE k # 1
    <3>1. 1 < k
      BY <1>1, <2>5
    <3>2. Number(1) < Number(k)
      BY <1>2, <1>5, <2>3, <3>1
    <3> QED BY <1>6, <2>1, <2>3, <3>2
  <2> QED BY <2>4, <2>5
<1>8. Base' = IF comp[1].data THEN fed + 1 ELSE fed
  BY <1>1 DEF Base
<1>9. Parsing' => mem'[cb'.buf] = fed' + 1
  BY <1>1, <1>7 DEF Number
<1>10. Base' <= sentData'
  BY <1>2, <1>5, <1>6, <1>7, <1>8
<1>11. ASSUME NEW k \in 1 .. n - 1, comp'[k].data
       PROVE  Number(k)' \in Base' + 1 .. sentData'
  <2>1. k + 1 \in 1 .. n /\ comp[k + 1].data /\ 1 < k + 1
    BY <1>1, <1>2, <1>11
  <2>2. Number(k + 1) \in fed + 1 .. sentData
    BY <1>5, <2>1
  <2>3. comp[1].data => fed + 1 < Number(k + 1)
    BY <1>2, <1>5, <1>7, <2>1
  <2> QED BY <1>3, <1>6, <1>8, <2>2, <2>3
<1>12. ASSUME NEW j \in 1 .. n - 1, NEW k \in 1 .. n - 1, comp'[j].data, comp'[k].data, j < k
       PROVE  Number(j)' < Number(k)'
  <2>1. /\ j + 1 \in 1 .. n /\ k + 1 \in 1 .. n /\ comp[j + 1].data /\ comp[k + 1].data
        /\ j + 1 < k + 1
    BY <1>1, <1>2, <1>12
  <2> QED BY <1>3, <1>5, <2>1
<1>13. ASSUME NEW m \in Base' + 1 .. sentData'
       PROVE  \E k \in 1 .. n - 1 : comp'[k].data /\ Number(k)' = m
  <2>1. m \in fed + 1 .. sentData /\ (comp[1].data => m # fed + 1)
    BY <1>6, <1>8
  <2>2. PICK k \in 1 .. n : comp[k].data /\ Number(k) = m
    BY <1>5, <2>1
  <2>3. k # 1
    BY <1>7, <2>1, <2>2
  <2>4. k - 1 \in 1 .. n - 1 /\ (k - 1) + 1 = k
    BY <1>1, <2>3
  <2>5. comp'[k - 1].data /\ Number(k - 1)' = m
    <3>1. comp'[k - 1] = comp[k]
      BY <1>1, <2>4
    <3>2. Number(k - 1)' = Number(k)
      BY <1>3, <2>4
    <3> QED BY <2>2, <3>1, <3>2
  <2> QED BY <2>4, <2>5
<1> QED BY <1>1, <1>5, <1>9, <1>10, <1>11, <1>12, <1>13 DEF DataInOrder

(* in_callback, up to the swap: the transfer goes from the completions to    *)
(* the callback.                                                             *)
LEMMA InCallbackStep == ASSUME IInv, InCallback PROVE IInv'
<1> DEFINE c == Head(comp)
<1>1. /\ mode \in {"events", "ctl"} /\ cb = None /\ comp # <<>> /\ comp' = Tail(comp)
      /\ UNCHANGED <<phase, mode, closing, spins, why, upper, freed, flight, armed, out,
                     busy, mem, sentData, fed, gap, staleFeed, lastDone>>
  BY DEF InCallback, Handling, outVars, dataVars
<1>2. /\ CtlTypeOK /\ PoolTypeOK /\ OutTypeOK /\ DataTypeOK /\ OncePlaced /\ OwnBuffer
      /\ OutSlotOwned /\ FedInOrder /\ AtRest
  BY DEF IInv, TypeOK
<1>3. /\ comp' \in Seq(Completion) /\ c \in Completion /\ OneCompletion(comp')
      /\ Waiting = Waiting' \cup {c.t} /\ c.t \notin Waiting' /\ Submitted' = Submitted
  <2>1. comp \in Seq(Completion) /\ OneCompletion(comp)
    BY <1>2 DEF PoolTypeOK, OncePlaced
  <2>2. Waiting = Carriers(comp) /\ Waiting' = Carriers(comp')
    BY DEF Waiting, Carriers
  <2> QED BY <1>1, <2>1, <2>2, TailComp DEF Submitted
<1>4. phase = "stream" /\ ~closing /\ cb.stage = "none"
  BY <1>1, <1>2 DEF AtRest, Quiet, None
<1>5. /\ c.t \in Transfers /\ c.data \in BOOLEAN /\ c.t \in armed /\ c.t \notin Submitted
  BY <1>2, <1>3, <1>4 DEF Completion, OncePlaced
<1> HIDE DEF c
<1>6. CtlTypeOK' /\ OutTypeOK' /\ DataTypeOK' /\ OutSlotOwned' /\ FedInOrder'
  <2>1. alive' = alive \/ alive' = FALSE
    BY DEF InCallback
  <2>2. CtlTypeOK' /\ OutTypeOK' /\ DataTypeOK' /\ OutSlotOwned'
    BY <1>1, <1>2, <2>1 DEF CtlTypeOK, OutTypeOK, DataTypeOK, OutSlotOwned
  <2>3. FedInOrder'
    BY <1>1, <1>2, <2>1 DEF FedInOrder, CtlTypeOK
  <2> QED BY <2>2, <2>3
<1>7. AtRest' /\ Draining'
  BY <1>1, <1>2, <1>4 DEF AtRest, Quiet, Draining
<1>8. CASE alive' = FALSE /\ UNCHANGED <<tbuf, spare, cb>>
  <2>1. PoolTypeOK'
    BY <1>1, <1>2, <1>3, <1>8 DEF PoolTypeOK
  <2>2. OncePlaced'
    BY <1>1, <1>2, <1>3, <1>4, <1>8 DEF OncePlaced, Holding
  <2>3. OwnBuffer' /\ DataInOrder'
    BY <1>1, <1>2, <1>8 DEF OwnBuffer, DataInOrder
  <2> QED BY <1>6, <1>7, <2>1, <2>2, <2>3 DEF IInv, TypeOK
<1>9. CASE /\ spare # NoBuf
           /\ tbuf' = [tbuf EXCEPT ![c.t] = spare]
           /\ spare' = tbuf[c.t]
           /\ cb' = [stage |-> "submit", t |-> c.t, buf |-> tbuf[c.t], data |-> c.data]
           /\ UNCHANGED alive
  <2>1. /\ cb' # None /\ cb'.stage = "submit" /\ cb'.t = c.t /\ cb'.buf = tbuf[c.t]
        /\ cb'.data = c.data /\ tbuf[c.t] \in Bufs
    BY <1>2, <1>5, <1>9 DEF None, PoolTypeOK
  <2>2. PoolTypeOK'
    BY <1>1, <1>2, <1>3, <1>5, <1>9, <2>1 DEF PoolTypeOK, Callback
  <2>3. OncePlaced'
    BY <1>1, <1>2, <1>3, <1>5, <1>9, <2>1 DEF OncePlaced, Holding
  <2>4. OwnBuffer'
    <3>1. /\ \A t \in Transfers : tbuf'[t] = IF t = c.t THEN spare ELSE tbuf[t]
          /\ freed' = freed /\ armed' = armed /\ phase' = phase /\ spare' = tbuf[c.t]
      BY <1>1, <1>2, <1>9 DEF PoolTypeOK
    <3>2. /\ \A t, u \in Transfers : t # u => tbuf[t] # tbuf[u]
          /\ \A t \in Transfers : tbuf[t] # spare
          /\ spare \notin freed /\ \A t \in armed : tbuf[t] \notin freed
      BY <1>2, <1>4 DEF OwnBuffer
    <3>3. armed \subseteq Transfers
      BY <1>2 DEF PoolTypeOK
    <3> QED BY <1>5, <2>1, <3>1, <3>2, <3>3 DEF OwnBuffer
  <2>5. DataInOrder'
    <3>1. Parsing' <=> c.data
      BY <1>5, <2>1 DEF Parsing
    <3>2. \A t \in Transfers \ {c.t} : tbuf'[t] = tbuf[t]
      BY <1>2, <1>9 DEF PoolTypeOK
    <3> QED BY <1>1, <1>9, <2>1, <3>1, <3>2, TakeData DEF c
  <2> QED BY <1>6, <1>7, <2>2, <2>3, <2>4, <2>5 DEF IInv, TypeOK
<1>10. CASE /\ cb' = [stage |-> "feedFull", t |-> c.t, buf |-> tbuf[c.t], data |-> c.data]
            /\ UNCHANGED <<tbuf, spare, alive>>
  <2>1. /\ cb' # None /\ cb'.stage = "feedFull" /\ cb'.t = c.t /\ cb'.buf = tbuf[c.t]
        /\ cb'.data = c.data /\ tbuf[c.t] \in Bufs
    BY <1>2, <1>5, <1>10 DEF None, PoolTypeOK
  <2>2. PoolTypeOK'
    BY <1>1, <1>2, <1>3, <1>5, <1>10, <2>1 DEF PoolTypeOK, Callback
  <2>3. OncePlaced'
    BY <1>1, <1>2, <1>3, <1>5, <1>10, <2>1 DEF OncePlaced, Holding
  <2>4. OwnBuffer'
    BY <1>1, <1>2, <1>10, <2>1 DEF OwnBuffer
  <2>5. DataInOrder'
    <3>1. Parsing' <=> c.data
      BY <1>5, <2>1 DEF Parsing
    <3> QED BY <1>1, <1>10, <2>1, <3>1, TakeData DEF c
  <2> QED BY <1>6, <1>7, <2>2, <2>3, <2>4, <2>5 DEF IInv, TypeOK
<1> QED BY <1>8, <1>9, <1>10 DEF InCallback, c

(* A step of the callback that neither takes nor drops data.                 *)
LEMMA KeepData ==
  ASSUME DataInOrder, UNCHANGED <<comp, tbuf, mem, sentData, closing, alive>>,
         alive /\ ~closing => Base' = Base /\ ~gap',
         Parsing' => Parsing /\ cb'.buf = cb.buf /\ fed' = fed
  PROVE  DataInOrder'
<1>1. \A k \in DOMAIN comp : Number(k)' = Number(k)
  BY DEF Number
<1> QED BY <1>1 DEF DataInOrder

(* What feeding the data of the callback does.                               *)
LEMMA FeedInOrder ==
  ASSUME IInv, FeedData, cb.stage \in {"feed", "feedFull"}, ~Parsing'
  PROVE  /\ alive /\ ~closing => Base' = Base /\ ~gap'
         /\ fed' \in Nat /\ gap' \in BOOLEAN /\ staleFeed' \in BOOLEAN
<1>1. /\ PoolTypeOK /\ DataTypeOK /\ cb.data \in BOOLEAN /\ cb.buf \in Bufs
      /\ upper \in BOOLEAN
  BY CbStage DEF IInv, TypeOK, CtlTypeOK
<1>2. alive /\ ~closing => ~gap /\ (Parsing => mem[cb.buf] = fed + 1)
  BY DEF IInv, DataInOrder
<1>3. CASE cb.data
  <2>1. Parsing /\ Base = fed + 1 /\ Base' = fed'
    BY <1>3 DEF Parsing, Base
  <2>2. fed' = mem[cb.buf] /\ gap' = (gap \/ mem[cb.buf] # fed + 1)
        /\ staleFeed' = (staleFeed \/ ~upper)
    BY <1>3 DEF FeedData
  <2> QED BY <1>1, <1>2, <2>1, <2>2 DEF DataTypeOK
<1>4. CASE ~cb.data
  BY <1>1, <1>2, <1>4 DEF FeedData, Parsing, Base, DataTypeOK
<1> QED BY <1>3, <1>4

(* in_callback, from the swap on.                                            *)
LEMMA CallbackStep ==
  ASSUME IInv, CbSubmit \/ CbSubmitFails \/ CbFeed \/ CbFeedFull \/ CbSubmitFull
  PROVE  IInv'
<1>1. /\ CtlTypeOK /\ PoolTypeOK /\ OutTypeOK /\ DataTypeOK /\ OncePlaced /\ OwnBuffer
      /\ OutSlotOwned /\ FedInOrder /\ AtRest /\ DataInOrder
  BY DEF IInv, TypeOK
<1>2. cb # None
  BY DEF CbSubmit, CbSubmitFails, CbFeed, CbFeedFull, CbSubmitFull, None
<1>3. phase = "stream" /\ ~closing /\ mode \in {"events", "ctl"}
  BY <1>2, CbLive
<1>4. /\ cb \in Callback /\ cb.t \in Transfers /\ cb.buf \in Bufs /\ cb.data \in BOOLEAN
      /\ cb.t \in armed
  BY <1>1, <1>2, CbStage DEF OncePlaced
<1>5. /\ UNCHANGED <<phase, mode, closing, spins, why, upper, freed, comp, armed, out, busy,
                     mem, sentData, lastDone>>
      /\ alive' = alive \/ alive' = FALSE
  BY DEF CbSubmit, CbSubmitFails, CbFeed, CbFeedFull, CbSubmitFull, ctlVars, poolVars,
       outVars, dataVars
<1>6. Waiting' = Waiting /\ CtlTypeOK' /\ OutTypeOK' /\ OutSlotOwned' /\ AtRest' /\ Draining'
  <2>1. CtlTypeOK' /\ OutTypeOK' /\ OutSlotOwned' /\ Waiting' = Waiting
    BY <1>1, <1>5 DEF CtlTypeOK, OutTypeOK, OutSlotOwned, Waiting
  <2>2. AtRest' /\ Draining'
    BY <1>1, <1>3, <1>5 DEF AtRest, Draining
  <2> QED BY <2>1, <2>2
<1>7. CASE CbSubmit
  <2>1. /\ cb.stage = "submit" /\ flight' = Append(flight, cb.t)
        /\ cb' = [cb EXCEPT !.stage = "feed"]
        /\ UNCHANGED <<alive, tbuf, spare, fed, gap, staleFeed>>
    BY <1>7 DEF CbSubmit, ctlVars, dataVars
  <2>2. /\ cb' \in Callback /\ cb'.stage = "feed" /\ cb'.t = cb.t /\ cb'.buf = cb.buf
        /\ cb'.data = cb.data /\ cb' # None
    BY <1>4, <2>1 DEF Callback, None
  <2>3. /\ flight' \in Seq(Transfers) /\ OneSubmission(flight')
        /\ Submitted' = Submitted \cup {cb.t}
    BY <1>1, <1>4, <2>1, AppendFlight DEF PoolTypeOK, OncePlaced, Submitted, Holding
  <2>4. PoolTypeOK' /\ DataTypeOK' /\ FedInOrder'
    BY <1>1, <1>5, <2>1, <2>2, <2>3 DEF PoolTypeOK, DataTypeOK, FedInOrder
  <2>5. OncePlaced'
    BY <1>1, <1>4, <1>5, <1>6, <2>1, <2>2, <2>3 DEF OncePlaced, Holding
  <2>6. OwnBuffer'
    BY <1>1, <1>5, <2>1, <2>2 DEF OwnBuffer
  <2>7. DataInOrder'
    BY <1>1, <1>5, <2>1, <2>2, KeepData DEF Base, Parsing, DataInOrder
  <2> QED BY <1>6, <2>4, <2>5, <2>6, <2>7 DEF IInv, TypeOK
<1>8. CASE CbSubmitFails
  <2>1. /\ cb.stage = "submit" /\ alive' = FALSE /\ tbuf' = [tbuf EXCEPT ![cb.t] = cb.buf]
        /\ spare' = NoBuf /\ cb' = None
        /\ UNCHANGED <<flight, fed, gap, staleFeed>>
    BY <1>8 DEF CbSubmitFails, dataVars
  <2>2. cb'.stage = "none"
    BY <2>1 DEF None
  <2>3. PoolTypeOK' /\ DataTypeOK' /\ FedInOrder' /\ DataInOrder'
    BY <1>1, <1>4, <1>5, <2>1 DEF PoolTypeOK, DataTypeOK, FedInOrder, DataInOrder
  <2>4. OncePlaced'
    BY <1>1, <1>5, <1>6, <2>1, <2>2 DEF OncePlaced, Holding, Submitted
  <2>5. OwnBuffer'
    <3>1. /\ \A t \in Transfers : tbuf'[t] = IF t = cb.t THEN cb.buf ELSE tbuf[t]
          /\ freed' = freed /\ armed' = armed /\ spare' = NoBuf
      BY <1>1, <1>5, <2>1 DEF PoolTypeOK
    <3>2. /\ \A t, u \in Transfers : t # u => tbuf[t] # tbuf[u]
          /\ \A t \in Transfers : tbuf[t] # cb.buf
          /\ cb.buf \notin freed /\ \A t \in armed : tbuf[t] \notin freed
      BY <1>1, <1>3, <2>1 DEF OwnBuffer
    <3>3. armed \subseteq Transfers /\ tbuf' \in [Transfers -> Bufs]
      BY <1>1, <2>3 DEF PoolTypeOK
    <3>4. NoBuf \notin freed /\ \A t \in Transfers : tbuf'[t] # NoBuf
      BY <1>1, <3>3, PoolAssumption DEF PoolTypeOK, Bufs
    <3> QED BY <1>4, <2>2, <3>1, <3>2, <3>3, <3>4 DEF OwnBuffer
  <2> QED BY <1>6, <2>3, <2>4, <2>5 DEF IInv, TypeOK
<1>9. CASE CbFeed
  <2>1. /\ cb.stage = "feed" /\ FeedData /\ spare' = cb.buf /\ cb' = None
        /\ UNCHANGED <<alive, flight, tbuf>>
    BY <1>9 DEF CbFeed, ctlVars
  <2>2. cb'.stage = "none" /\ ~Parsing' /\ spare = cb.buf
    BY <1>1, <2>1 DEF None, Parsing, OwnBuffer
  <2>3. /\ alive /\ ~closing => Base' = Base /\ ~gap'
        /\ fed' \in Nat /\ gap' \in BOOLEAN /\ staleFeed' \in BOOLEAN
    BY <2>1, <2>2, FeedInOrder
  <2>4. PoolTypeOK' /\ DataTypeOK' /\ FedInOrder'
    BY <1>1, <1>3, <1>4, <1>5, <2>1, <2>3 DEF PoolTypeOK, DataTypeOK, FedInOrder
  <2>5. OncePlaced'
    BY <1>1, <1>2, <1>5, <1>6, <2>1, <2>2 DEF OncePlaced, Holding, Submitted
  <2>6. OwnBuffer'
    BY <1>1, <1>5, <2>1, <2>2 DEF OwnBuffer
  <2>7. DataInOrder'
    BY <1>1, <1>5, <2>1, <2>2, <2>3, KeepData
  <2> QED BY <1>6, <2>4, <2>5, <2>6, <2>7 DEF IInv, TypeOK
<1>10. CASE CbFeedFull
  <2>1. /\ cb.stage = "feedFull" /\ FeedData /\ cb' = [cb EXCEPT !.stage = "submitFull"]
        /\ UNCHANGED <<alive, flight, tbuf, spare>>
    BY <1>10 DEF CbFeedFull, ctlVars, poolVars
  <2>2. /\ cb' \in Callback /\ cb'.stage = "submitFull" /\ cb'.t = cb.t /\ cb'.buf = cb.buf
        /\ cb' # None /\ ~Parsing'
    BY <1>4, <2>1 DEF Callback, None, Parsing
  <2>3. /\ alive /\ ~closing => Base' = Base /\ ~gap'
        /\ fed' \in Nat /\ gap' \in BOOLEAN /\ staleFeed' \in BOOLEAN
    BY <2>1, <2>2, FeedInOrder
  <2>4. PoolTypeOK' /\ DataTypeOK' /\ FedInOrder'
    BY <1>1, <1>3, <1>5, <2>1, <2>2, <2>3 DEF PoolTypeOK, DataTypeOK, FedInOrder
  <2>5. OncePlaced'
    BY <1>1, <1>2, <1>5, <1>6, <2>1, <2>2 DEF OncePlaced, Holding, Submitted
  <2>6. OwnBuffer'
    BY <1>1, <1>5, <2>1, <2>2 DEF OwnBuffer
  <2>7. DataInOrder'
    BY <1>1, <1>5, <2>1, <2>2, <2>3, KeepData
  <2> QED BY <1>6, <2>4, <2>5, <2>6, <2>7 DEF IInv, TypeOK
<1>11. CASE CbSubmitFull
  <2>1. /\ cb.stage = "submitFull" /\ cb' = None
        /\ UNCHANGED <<tbuf, spare, fed, gap, staleFeed>>
        /\ \/ flight' = Append(flight, cb.t) /\ UNCHANGED alive
           \/ alive' = FALSE /\ UNCHANGED flight
    BY <1>11 DEF CbSubmitFull, dataVars
  <2>2. cb'.stage = "none" /\ ~Parsing' /\ ~Parsing
    BY <2>1 DEF None, Parsing
  <2>3. /\ flight' \in Seq(Transfers) /\ OneSubmission(flight')
        /\ Submitted' \subseteq Submitted \cup {cb.t}
        /\ alive' => cb.t \in Submitted' /\ Submitted \subseteq Submitted'
    <3>1. CASE flight' = Append(flight, cb.t)
      BY <1>1, <1>4, <2>1, <3>1, AppendFlight DEF PoolTypeOK, OncePlaced, Submitted, Holding
    <3>2. CASE alive' = FALSE /\ UNCHANGED flight
      BY <1>1, <3>2 DEF PoolTypeOK, OncePlaced, Submitted
    <3> QED BY <2>1, <3>1, <3>2
  <2>4. PoolTypeOK' /\ DataTypeOK' /\ FedInOrder'
    <3>1. PoolTypeOK' /\ DataTypeOK'
      BY <1>1, <1>5, <2>1, <2>3 DEF PoolTypeOK, DataTypeOK
    <3>2. FedInOrder'
      BY <1>1, <1>5, <2>1 DEF FedInOrder, CtlTypeOK, DataTypeOK
    <3> QED BY <3>1, <3>2
  <2>5. OncePlaced'
    <3>1. alive' => alive
      BY <1>1, <1>5 DEF CtlTypeOK
    <3> QED BY <1>1, <1>3, <1>4, <1>5, <1>6, <2>1, <2>2, <2>3, <3>1 DEF OncePlaced, Holding
  <2>6. OwnBuffer'
    BY <1>1, <1>5, <2>1, <2>2 DEF OwnBuffer
  <2>7. DataInOrder'
    <3>1. CASE UNCHANGED alive
      BY <1>1, <1>5, <2>1, <2>2, <3>1, KeepData DEF Base, DataInOrder
    <3>2. CASE alive' = FALSE
      BY <3>2 DEF DataInOrder
    <3> QED BY <1>5, <3>1, <3>2
  <2> QED BY <1>6, <2>4, <2>5, <2>6, <2>7 DEF IInv, TypeOK
<1> QED BY <1>7, <1>8, <1>9, <1>10, <1>11

-----------------------------------------------------------------------------
(* The kernel writes into a buffer in which nothing is left to be fed.       *)
LEMMA WriteApart ==
  ASSUME IInv, flight # <<>>
  PROVE  /\ Head(flight) \in Transfers /\ tbuf[Head(flight)] \in Bufs
         /\ \A k \in DOMAIN comp : /\ comp[k].t \in Transfers /\ tbuf[comp[k].t] \in Bufs
                                   /\ tbuf[comp[k].t] # tbuf[Head(flight)]
         /\ cb # None => cb.buf # tbuf[Head(flight)]
<1> DEFINE h == Head(flight)
<1>1. /\ PoolTypeOK /\ OncePlaced /\ OwnBuffer
  BY DEF IInv, TypeOK
<1>2. h \in Transfers /\ h \in Submitted
  BY <1>1, TailFlight DEF PoolTypeOK, OncePlaced, Submitted
<1> HIDE DEF h
<1>3. tbuf[h] \in Bufs
  BY <1>1, <1>2 DEF PoolTypeOK
<1>4. ASSUME NEW k \in DOMAIN comp
      PROVE  /\ comp[k].t \in Transfers /\ tbuf[comp[k].t] \in Bufs
             /\ tbuf[comp[k].t] # tbuf[h]
  <2>1. comp[k] \in Completion
    BY <1>1, LenProperties, ElementOfSeq DEF PoolTypeOK
  <2>2. comp[k].t \in Transfers /\ comp[k].t \in Waiting
    BY <2>1 DEF Completion, Waiting
  <2>3. comp[k].t # h
    BY <1>1, <1>2, <2>2 DEF OncePlaced
  <2> QED BY <1>1, <1>2, <2>2, <2>3 DEF OwnBuffer, PoolTypeOK
<1>5. cb # None => cb.buf # tbuf[h]
  <2> SUFFICES ASSUME cb # None PROVE cb.buf # tbuf[h]
    OBVIOUS
  <2>1. cb.stage \in {"submit", "feed", "feedFull", "submitFull"} /\ cb.t \in Transfers
    BY <1>1, CbStage
  <2>2. CASE cb.stage \in {"submit", "feed"}
    BY <1>1, <1>2, <2>2 DEF OwnBuffer
  <2>3. CASE cb.stage \in {"feedFull", "submitFull"}
    <3>1. cb.t # h
      BY <1>1, <1>2, <2>3 DEF OncePlaced, Holding
    <3> QED BY <1>1, <1>2, <2>1, <2>3, <3>1 DEF OwnBuffer
  <2> QED BY <2>1, <2>2, <2>3
<1> QED BY <1>2, <1>3, <1>4, <1>5 DEF h

(* A completion with data has the next number.                               *)
LEMMA GiveData ==
  ASSUME IInv, flight # <<>>, NEW x \in Completion, x.t = Head(flight), x.data,
         comp' = Append(comp, x), sentData' = sentData + 1,
         mem' = [mem EXCEPT ![tbuf[Head(flight)]] = sentData + 1],
         UNCHANGED <<tbuf, cb, fed, gap, alive, closing>>
  PROVE  DataInOrder'
<1>1. PICK n \in Nat :
         /\ DOMAIN comp = 1 .. n /\ DOMAIN comp' = 1 .. n + 1
         /\ comp'[n + 1] = x /\ \A k \in 1 .. n : comp'[k] = comp[k]
  BY AppendShape DEF IInv, TypeOK, PoolTypeOK
<1>2. /\ tbuf[Head(flight)] \in Bufs
      /\ \A k \in 1 .. n : tbuf[comp[k].t] \in Bufs /\ tbuf[comp[k].t] # tbuf[Head(flight)]
      /\ cb # None => cb.buf # tbuf[Head(flight)] /\ cb.buf \in Bufs
  BY <1>1, WriteApart, CbStage DEF IInv, TypeOK
<1>3. mem \in [Bufs -> Nat] /\ fed \in Nat /\ sentData \in Nat
  BY DEF IInv, TypeOK, DataTypeOK
<1>4. (\A k \in 1 .. n : Number(k)' = Number(k)) /\ Number(n + 1)' = sentData + 1
  <2>1. ASSUME NEW k \in 1 .. n PROVE Number(k)' = Number(k)
    BY <1>1, <1>2, <1>3 DEF Number
  <2>2. Number(n + 1)' = sentData + 1
    BY <1>1, <1>2, <1>3 DEF Number
  <2> QED BY <2>1, <2>2
<1>5. SUFFICES ASSUME alive, ~closing PROVE DataInOrder'
  BY DEF DataInOrder
<1>6. /\ ~gap /\ Base <= sentData
      /\ Parsing => mem[cb.buf] = fed + 1
      /\ \A k \in 1 .. n : comp[k].data => Number(k) \in Base + 1 .. sentData
      /\ \A j, k \in 1 .. n :
            comp[j].data /\ comp[k].data /\ j < k => Number(j) < Number(k)
      /\ \A m \in Base + 1 .. sentData : \E k \in 1 .. n : comp[k].data /\ Number(k) = m
  BY <1>1, <1>5 DEF IInv, DataInOrder
<1>7. Base' = Base /\ Base \in Nat
  BY <1>3 DEF Base, Parsing
<1>8. Parsing' => mem'[cb'.buf] = fed' + 1
  <2>1. Parsing => cb # None
    BY DEF Parsing, None
  <2> QED BY <1>2, <1>3, <1>6, <2>1 DEF Parsing
<1>9. \A k \in 1 .. n + 1 : k \in 1 .. n \/ k = n + 1
  OBVIOUS
<1>10. n + 1 \in 1 .. n + 1 /\ \A k \in 1 .. n : k \in 1 .. n + 1 /\ ~(n + 1 < k)
  OBVIOUS
<1>11. ASSUME NEW k \in 1 .. n + 1, comp'[k].data
       PROVE  Number(k)' \in Base' + 1 .. sentData'
  <2>1. CASE k \in 1 .. n
    <3>1. Number(k) \in Base + 1 .. sentData /\ Number(k)' = Number(k)
      BY <1>1, <1>4, <1>6, <1>11, <2>1
    <3> QED BY <1>3, <1>7, <3>1
  <2>2. CASE k = n + 1
    BY <1>3, <1>4, <1>6, <1>7, <2>2
  <2> QED BY <1>9, <2>1, <2>2
<1>12. ASSUME NEW j \in 1 .. n + 1, NEW k \in 1 .. n + 1, comp'[j].data, comp'[k].data, j < k
       PROVE  Number(j)' < Number(k)'
  <2>1. j \in 1 .. n
    BY <1>12
  <2>2. CASE k \in 1 .. n
    BY <1>1, <1>4, <1>6, <1>12, <2>1, <2>2
  <2>3. CASE k = n + 1
    <3>1. Number(j) \in Base + 1 .. sentData /\ Number(j)' = Number(j)
      BY <1>1, <1>4, <1>6, <1>12, <2>1
    <3> QED BY <1>3, <1>4, <1>7, <2>3, <3>1
  <2> QED BY <1>9, <2>2, <2>3
<1>13. ASSUME NEW m \in Base' + 1 .. sentData'
       PROVE  \E k \in 1 .. n + 1 : comp'[k].data /\ Number(k)' = m
  <2>1. CASE m \in Base + 1 .. sentData
    BY <1>1, <1>4, <1>6, <1>10, <2>1
  <2>2. CASE m = sentData + 1
    BY <1>1, <1>4, <1>10, <2>2
  <2>3. m \in Base + 1 .. sentData \/ m = sentData + 1
    BY <1>3, <1>7
  <2> QED BY <2>1, <2>2, <2>3
<1>14. Base' <= sentData'
  BY <1>3, <1>6, <1>7
<1> QED BY <1>1, <1>6, <1>8, <1>11, <1>12, <1>13, <1>14 DEF DataInOrder

(* Completions without data leave the numbering alone.                       *)
LEMMA NoNewData ==
  ASSUME IInv, NEW n \in Nat, NEW m \in Nat,
         DOMAIN comp = 1 .. n, DOMAIN comp' = 1 .. n + m,
         \A k \in 1 .. n : comp'[k] = comp[k],
         \A k \in 1 .. m : ~comp'[n + k].data,
         UNCHANGED <<tbuf, mem, cb, fed, sentData, gap, alive, closing>>
  PROVE  DataInOrder'
<1>1. \A k \in 1 .. n : k \in 1 .. n + m /\ Number(k)' = Number(k)
  BY DEF Number
<1>2. \A k \in 1 .. n + m : comp'[k].data => k \in 1 .. n
  <2> SUFFICES ASSUME NEW k \in 1 .. n + m, k \notin 1 .. n PROVE ~comp'[k].data
    OBVIOUS
  <2>1. k - n \in 1 .. m /\ n + (k - n) = k
    OBVIOUS
  <2> QED BY <2>1
<1>3. Base' = Base /\ (Parsing' <=> Parsing)
  BY DEF Base, Parsing
<1> QED BY <1>1, <1>2, <1>3 DEF IInv, DataInOrder

(* The oldest submitted transfer completes.                                  *)
LEMMA DeviceCompletesStep == ASSUME IInv, DeviceCompletes PROVE IInv'
<1> DEFINE h == Head(flight)
<1>1. /\ flight # <<>> /\ flight' = Tail(flight) /\ phase # "raced" /\ lastDone' = spins
      /\ UNCHANGED <<phase, mode, closing, alive, spins, why, upper, freed, tbuf, spare,
                     armed, out, busy, cb, fed, gap, staleFeed>>
  BY DEF DeviceCompletes, ctlVars, outVars
<1>2. PICK st \in {"completed", "error", "cancelled"}, full \in BOOLEAN, data \in BOOLEAN :
         /\ comp' = Append(comp, [t |-> h, status |-> st, full |-> full, data |-> data])
         /\ IF data THEN /\ sentData' = sentData + 1
                         /\ mem' = [mem EXCEPT ![tbuf[h]] = sentData + 1]
                    ELSE UNCHANGED <<sentData, mem>>
  BY DEF DeviceCompletes
<1>3. /\ CtlTypeOK /\ PoolTypeOK /\ OutTypeOK /\ DataTypeOK /\ OncePlaced /\ OwnBuffer
      /\ OutSlotOwned /\ FedInOrder /\ AtRest /\ Draining
  BY DEF IInv, TypeOK
<1>4. /\ flight' \in Seq(Transfers) /\ OneSubmission(flight') /\ h \in Transfers
      /\ Submitted = Submitted' \cup {h} /\ h \notin Submitted' /\ h \notin Waiting
  <2>1. /\ flight' \in Seq(Transfers) /\ OneSubmission(flight') /\ h \in Transfers
        /\ Submitted = Submitted' \cup {h} /\ h \notin Submitted'
    BY <1>1, <1>3, TailFlight DEF PoolTypeOK, OncePlaced, Submitted
  <2> QED BY <1>3, <2>1 DEF OncePlaced
<1> HIDE DEF h
<1> DEFINE x == [t |-> h, status |-> st, full |-> full, data |-> data]
<1>5. x \in Completion /\ x.t = h /\ x.data = data /\ comp' = Append(comp, x)
  BY <1>2, <1>4 DEF Completion
<1> HIDE DEF x
<1>6. /\ comp' \in Seq(Completion) /\ OneCompletion(comp') /\ Waiting' = Waiting \cup {h}
  <2>1. comp \in Seq(Completion) /\ OneCompletion(comp)
    BY <1>3 DEF PoolTypeOK, OncePlaced
  <2>2. Waiting = Carriers(comp) /\ Waiting' = Carriers(comp')
    BY DEF Waiting, Carriers
  <2> QED BY <1>4, <1>5, <2>1, <2>2, AppendComp
<1>7. tbuf[h] \in Bufs
  BY <1>3, <1>4 DEF PoolTypeOK
<1>8. TypeOK'
  <2>1. CtlTypeOK' /\ OutTypeOK'
    BY <1>1, <1>3 DEF CtlTypeOK, OutTypeOK
  <2>2. PoolTypeOK'
    BY <1>1, <1>3, <1>4, <1>6 DEF PoolTypeOK
  <2>3. DataTypeOK'
    <3>1. sentData \in Nat /\ mem \in [Bufs -> Nat] /\ spins \in Nat
      BY <1>3 DEF DataTypeOK, CtlTypeOK
    <3>2. sentData' \in Nat /\ mem' \in [Bufs -> Nat]
      <4>1. CASE data
        <5>1. sentData' = sentData + 1 /\ mem' = [mem EXCEPT ![tbuf[h]] = sentData + 1]
          BY <1>2, <4>1
        <5> QED BY <1>7, <3>1, <5>1
      <4>2. CASE ~data
        BY <1>2, <3>1, <4>2
      <4> QED BY <4>1, <4>2
    <3>3. lastDone' \in Nat /\ UNCHANGED <<fed, gap, staleFeed>>
      BY <1>1, <3>1
    <3> QED BY <1>3, <3>2, <3>3 DEF DataTypeOK
  <2> QED BY <2>1, <2>2, <2>3 DEF TypeOK
<1>9. OncePlaced'
  BY <1>1, <1>3, <1>4, <1>6 DEF OncePlaced, Holding
<1>10. OwnBuffer' /\ OutSlotOwned' /\ FedInOrder'
  BY <1>1, <1>3 DEF OwnBuffer, OutSlotOwned, FedInOrder
<1>11. phase = "stream"
  BY <1>1, <1>3 DEF AtRest, Quiet
<1>12. AtRest' /\ Draining'
  <2>1. AtRest'
    BY <1>1, <1>3, <1>11 DEF AtRest
  <2>2. spins' \in Nat /\ lastDone' \in Nat /\ spins' <= lastDone'
    BY <1>1, <1>3 DEF CtlTypeOK
  <2> QED BY <1>6, <2>1, <2>2, JustCompleted
<1>13. DataInOrder'
  <2>1. CASE data
    BY <1>1, <1>2, <1>5, <2>1, GiveData DEF h
  <2>2. CASE ~data
    <3>1. PICK n \in Nat : /\ DOMAIN comp = 1 .. n /\ DOMAIN comp' = 1 .. n + 1
                           /\ comp'[n + 1] = x /\ \A k \in 1 .. n : comp'[k] = comp[k]
      BY <1>3, <1>5, AppendShape DEF PoolTypeOK
    <3>2. \A k \in 1 .. 1 : ~comp'[n + k].data
      BY <1>5, <2>2, <3>1
    <3> QED BY <1>1, <1>2, <2>2, <3>1, <3>2, NoNewData
  <2> QED BY <2>1, <2>2
<1> QED BY <1>8, <1>9, <1>10, <1>12, <1>13 DEF IInv

(* The device is gone: every submitted transfer completes without data.      *)
LEMMA DeviceGoneStep == ASSUME IInv, DeviceGone PROVE IInv'
<1> DEFINE d == [k \in DOMAIN flight |-> [t |-> flight[k], status |-> "nodev",
                                         full |-> FALSE, data |-> FALSE]]
<1>1. /\ flight # <<>> /\ flight' = <<>> /\ comp' = comp \o d /\ phase # "raced"
      /\ lastDone' = spins
      /\ UNCHANGED <<phase, mode, closing, alive, spins, why, upper, freed, tbuf, spare,
                     armed, out, busy, cb, mem, sentData, fed, gap, staleFeed>>
  BY DEF DeviceGone, ctlVars, outVars
<1>2. /\ CtlTypeOK /\ PoolTypeOK /\ OutTypeOK /\ DataTypeOK /\ OncePlaced /\ OwnBuffer
      /\ OutSlotOwned /\ FedInOrder /\ AtRest /\ Draining
  BY DEF IInv, TypeOK
<1>3. /\ d \in [DOMAIN flight -> Completion]
      /\ \A k \in DOMAIN flight : d[k].t = flight[k] /\ ~d[k].data
  <2>1. \A k \in DOMAIN flight : flight[k] \in Transfers
    BY <1>2, LenProperties, ElementOfSeq DEF PoolTypeOK
  <2> QED BY <2>1 DEF Completion
<1> HIDE DEF d
<1>4. /\ comp' \in Seq(Completion) /\ OneCompletion(comp')
      /\ Waiting' = Waiting \cup Submitted
      /\ Len(comp) \in Nat /\ Len(flight) \in Nat
      /\ DOMAIN comp = 1 .. Len(comp) /\ DOMAIN flight = 1 .. Len(flight)
      /\ DOMAIN comp' = 1 .. Len(comp) + Len(flight)
      /\ \A k \in 1 .. Len(comp) : comp'[k] = comp[k]
      /\ \A k \in 1 .. Len(flight) : comp'[Len(comp) + k] = d[k]
  <2>1. Waiting = Carriers(comp) /\ Submitted = Range(flight) /\ Waiting' = Carriers(comp')
    BY DEF Waiting, Submitted, Carriers
  <2>2. Range(flight) \cap Carriers(comp) = {}
    BY <1>2, <2>1 DEF OncePlaced
  <2>3. /\ comp \in Seq(Completion) /\ flight \in Seq(Transfers)
        /\ OneCompletion(comp) /\ OneSubmission(flight)
    BY <1>2 DEF PoolTypeOK, OncePlaced
  <2> QED BY <1>1, <1>3, <2>1, <2>2, <2>3, CompleteAll, SMTT(30)
<1>5. Submitted' = {} /\ OneSubmission(flight') /\ flight' \in Seq(Transfers)
  BY <1>1, EmptySeq DEF Submitted, Range, OneSubmission
<1>6. TypeOK'
  <2>1. CtlTypeOK' /\ OutTypeOK' /\ DataTypeOK'
    BY <1>1, <1>2 DEF CtlTypeOK, OutTypeOK, DataTypeOK
  <2>2. PoolTypeOK'
    BY <1>1, <1>2, <1>4, <1>5 DEF PoolTypeOK
  <2> QED BY <2>1, <2>2 DEF TypeOK
<1>7. OncePlaced'
  BY <1>1, <1>2, <1>4, <1>5 DEF OncePlaced, Holding
<1>8. OwnBuffer' /\ OutSlotOwned' /\ FedInOrder'
  BY <1>1, <1>2 DEF OwnBuffer, OutSlotOwned, FedInOrder
<1>9. phase = "stream"
  BY <1>1, <1>2 DEF AtRest, Quiet
<1>10. AtRest' /\ Draining'
  <2>1. AtRest'
    BY <1>1, <1>2, <1>9 DEF AtRest
  <2>2. spins' \in Nat /\ lastDone' \in Nat /\ spins' <= lastDone'
    BY <1>1, <1>2 DEF CtlTypeOK
  <2> QED BY <1>4, <2>1, <2>2, JustCompleted
<1>11. DataInOrder'
  <2>1. PICK n \in Nat, m \in Nat : n = Len(comp) /\ m = Len(flight)
    BY <1>4
  <2>2. \A k \in 1 .. m : ~comp'[n + k].data
    BY <1>3, <1>4, <2>1
  <2> QED BY <1>1, <1>4, <2>1, <2>2, NoNewData
<1> QED BY <1>6, <1>7, <1>8, <1>10, <1>11 DEF IInv

-----------------------------------------------------------------------------
(* Every step preserves the invariant.                                       *)
LEMMA NextIInv == IInv /\ [Next]_vars => IInv'
<1> SUFFICES ASSUME IInv, [Next]_vars PROVE IInv'
  OBVIOUS
<1> QED
  BY CallStep, StreamModeStep, TeardownStep, DrainSpinStep, TeardownFreeStep,
     InCallbackStep, CallbackStep, DeviceCompletesStep, DeviceGoneStep
  DEF Next, Stopped

(* The invariant holds throughout.                                           *)
THEOREM Invariance == Spec => []IInv
  BY InitIInv, NextIInv, PTL DEF Spec

(* The device never writes into memory that someone else uses, and no        *)
(* transfer leaks out of the pool: for any pool size and any mix of          *)
(* completions, failures, resets and teardown.                               *)
THEOREM NeverShared == Spec => []BuffersApart
<1>1. IInv => BuffersApart
  <2> SUFFICES ASSUME IInv, phase # "raced" PROVE BuffersApart
    BY DEF BuffersApart
  <2>1. PoolTypeOK /\ OncePlaced /\ OwnBuffer /\ AtRest
    BY DEF IInv, TypeOK
  <2>2. armed \subseteq Transfers /\ Submitted \cup Waiting \subseteq armed
    BY <2>1 DEF PoolTypeOK, OncePlaced
  <2>3. phase = "stream" /\ alive /\ ~closing =>
          armed = Submitted \cup Waiting \cup (IF cb = None THEN {} ELSE {cb.t})
    BY <2>1 DEF OncePlaced
  <2>4. Submitted \cup Waiting # {} \/ cb # None => phase = "stream"
    BY <2>1 DEF AtRest, Quiet, Submitted, Waiting, Range
  <2>5. ASSUME NEW t \in Submitted \cup Waiting
        PROVE  /\ tbuf[t] \notin freed /\ tbuf[t] # spare
               /\ cb # None => tbuf[t] # cb.buf
    <3>1. t \in Transfers /\ t \in armed
      BY <2>2
    <3>2. tbuf[t] \notin freed /\ tbuf[t] # spare
      BY <2>1, <2>4, <3>1 DEF OwnBuffer
    <3>3. CASE cb # None
      <4>1. cb.stage \in {"submit", "feed", "feedFull", "submitFull"} /\ cb.t \in Transfers
        BY <2>1, <3>3, CbStage
      <4>2. CASE cb.stage \in {"submit", "feed"}
        BY <2>1, <3>1, <3>2, <4>2 DEF OwnBuffer
      <4>3. CASE cb.stage \in {"feedFull", "submitFull"}
        <5>1. t # cb.t
          BY <2>1, <4>3 DEF OncePlaced, Holding
        <5> QED BY <2>1, <3>1, <3>2, <4>1, <4>3, <5>1 DEF OwnBuffer
      <4> QED BY <4>1, <4>2, <4>3
    <3> QED BY <3>2, <3>3
  <2>6. cb # None => cb.buf \notin freed
    <3> SUFFICES ASSUME cb # None PROVE cb.buf \notin freed
      OBVIOUS
    <3>1. cb.stage \in {"submit", "feed", "feedFull", "submitFull"} /\ cb.t \in armed
      BY <2>1, CbStage DEF OncePlaced
    <3> QED BY <2>1, <2>4, <3>1 DEF OwnBuffer
  <2>7. \A t, u \in Submitted \cup Waiting : t # u => tbuf[t] # tbuf[u]
    BY <2>1, <2>2 DEF OwnBuffer
  <2> QED BY <2>3, <2>5, <2>6, <2>7 DEF BuffersApart
<1> QED BY Invariance, <1>1, PTL

(* As long as the transport is alive, the layers above get the data in the   *)
(* order in which the device sent it and without a gap.                      *)
THEOREM InOrder == Spec => []FedInOrder
<1>1. IInv => FedInOrder
  BY DEF IInv
<1> QED BY Invariance, <1>1, PTL

(* tl_write never refills an OUT slot whose transfer is outstanding.         *)
THEOREM SlotsOwned == Spec => []OutSlotOwned
<1>1. IInv => OutSlotOwned
  BY DEF IInv
<1> QED BY Invariance, <1>1, PTL

(* tl_teardown_io counts rounds and waits for no callback, yet it frees      *)
(* nothing whose callback is due or still to come, if the kernel completes   *)
(* the cancelled transfers, at whatever moments, while as many rounds are    *)
(* left as there are transfers.                                              *)
THEOREM FreedLast == Spec => FreedAfterCallbacks
<1>1. IInv /\ [Next]_vars => [mode = "drain" /\ mode' = "idle" /\ InTime => ~Outstanding]_vars
  <2> SUFFICES ASSUME IInv, Next, mode = "drain", mode' = "idle", InTime
               PROVE  ~Outstanding
    BY DEF vars
  <2>1. cb = None /\ cb.stage = "none"
    BY DEF IInv, AtRest, None
  <2>2. TeardownFree
    BY <2>1 DEF Next, StreamMode, Write, EventsBegin, EventsEnd, DeleteUpper, ResetRequest,
         Teardown, DrainSpin, OutCallback, InCallback, Handling, CbSubmit, CbSubmitFails,
         CbFeed, CbFeedFull, CbSubmitFull, DeviceCompletes, DeviceGone, OutCompletes,
         Stopped, ctlVars, vars
  <2>3. spins = Spins
    BY <2>2 DEF TeardownFree
  <2> QED BY <2>3, Drained
<1> QED BY Invariance, <1>1, PTL DEF Spec, FreedAfterCallbacks
=============================================================================
