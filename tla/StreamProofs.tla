---------------------------- MODULE StreamProofs ----------------------------
(* The safety properties of the stream layer, proved for every size of the   *)
(* staging buffer that holds the largest block, every range of the sequence  *)
(* number, and transfers, blocks and losses of any number and size.          *)
EXTENDS Stream, SequenceTheorems, WellFoundedInduction, TLAPS

Units == [k : Kinds, b : Nat, i : Nat]

(* Where a unit stands in its block.                                         *)
Ord(u) == IF u.i > 0 THEN u.i + 2 ELSE IF u.k = "m" THEN 0 ELSE IF u.k = "c" THEN 1 ELSE 2

(* The size of block b, when se gives the payload lengths of the blocks; of  *)
(* block 0, of the earlier session, the last two units may still come.       *)
Size(se, b) == IF b = 0 THEN 5 ELSE HdrSize + se[b]

(* What of the stream has not been handed on: every unit is one the device   *)
(* sends, and the units are in order, although some may be missing.          *)
Genuine(t, se) ==
    \A j \in 1 .. Len(t) :
       /\ t[j].b <= Len(se) /\ Ord(t[j]) < Size(se, t[j].b)
       /\ t[j].b = 0 => t[j].i > 0
       /\ t[j].k \in {"c", "s"} => t[j].i = 0
       /\ t[j].i = 0 => t[j].k \in {"m", "c", "s"}

Sorted(t) ==
    \A j, k \in 1 .. Len(t) : j < k =>
       \/ t[j].b < t[k].b
       \/ t[j].b = t[k].b /\ Ord(t[k]) - Ord(t[j]) >= k - j

(* Nothing is missing: each unit is followed by the rest of its block and    *)
(* the first unit of the next.                                               *)
Gapless(t, se) ==
    \A j, k \in 1 .. Len(t) : j < k =>
       /\ Ord(t[j]) + (k - j) < Size(se, t[j].b) =>
             t[k].b = t[j].b /\ Ord(t[k]) = Ord(t[j]) + (k - j)
       /\ Ord(t[j]) + (k - j) = Size(se, t[j].b) =>
             t[k].b = t[j].b + 1 /\ Ord(t[k]) = 0

Ended(t, se) ==
    \A j \in 1 .. Len(t) :
       /\ j + Size(se, t[j].b) <= Len(t) + 1 + Ord(t[j])
       /\ j + Size(se, t[j].b) = Len(t) + 1 + Ord(t[j]) => t[j].b = Len(se)

Ordered(t, se) == Genuine(t, se) /\ Sorted(t)
Whole(t, se)   == Gapless(t, se) /\ Ended(t, se)

(* Every block after block l is still to come, from its first unit on.       *)
Headers(t, se, l) ==
    \A b \in 1 .. Len(se) : b > l => \E j \in 1 .. Len(t) : t[j].b = b /\ Ord(t[j]) = 0

All == s.buf \o (input \o wire)

Typed == /\ wire \in Seq(Units) /\ sent \in Seq(Lens) /\ input \in Seq(Units)
         /\ lost \in 0 .. MaxLost /\ Len(sent) <= MaxBlocks
         /\ pc \in {"idle", "copy", "mid", "last"}
         /\ s \in [buf : Seq(Units), head : Nat, state : {"SCAN", "BLOCK"}, haveSeq : BOOLEAN,
                   lastSeq : 0 .. SeqRange - 1, good : 0 .. 2]
         /\ last \in Nat
         /\ reported \in BOOLEAN /\ missed \in BOOLEAN /\ alarms \in BOOLEAN

Room == s.head + Len(s.buf) <= Cap

NoInput == pc \in {"idle", "last"} => input = <<>>

(* What struct stream remembers of the last block.                           *)
Counted == /\ last <= Len(sent)
           /\ s.haveSeq <=> s.state = "BLOCK"
           /\ s.haveSeq => last # 0 /\ s.lastSeq = last % SeqRange
           /\ last # 0 /\ ~reported => s.haveSeq

(* Blocks are handed on in the order of their numbers.                       *)
Newer == last # 0 => \A j \in 1 .. Len(All) : All[j].b > last

(* Without a loss, an aligned stream continues with the next block, and what *)
(* waits between two calls of stream_feed is less than a block.              *)
Aligned == s.state = "BLOCK" /\ Len(All) > 0 => All[1].b = last + 1 /\ Ord(All[1]) = 0
Partial == pc = "idle" => \/ Len(s.buf) < HdrSize
                          \/ Ord(All[1]) = 0 /\ Len(s.buf) < Size(sent, All[1].b)
Undamaged == /\ Whole(All, sent) /\ Headers(All, sent, last)
             /\ ~alarms /\ Aligned /\ Partial

IInv == /\ Typed /\ Room /\ NoInput /\ Counted /\ Newer
        /\ Ordered(All, sent)
        /\ lost = 0 => Undamaged
        /\ LossReported

-----------------------------------------------------------------------------
(* Sequences.                                                                *)

LEMMA SuffixShape ==
    ASSUME NEW S, NEW t \in Seq(S), NEW n \in 0 .. Len(t)
    PROVE  /\ SubSeq(t, n + 1, Len(t)) \in Seq(S)
           /\ Len(SubSeq(t, n + 1, Len(t))) = Len(t) - n
           /\ \A i \in 1 .. Len(t) - n : SubSeq(t, n + 1, Len(t))[i] = t[n + i]
           /\ Len(t) \in Nat
<1>1. Len(t) \in Nat  OBVIOUS
<1>2. \A i \in n + 1 .. Len(t) : t[i] \in S  BY <1>1
<1>3. /\ SubSeq(t, n + 1, Len(t)) \in Seq(S)
      /\ Len(SubSeq(t, n + 1, Len(t))) = IF n + 1 <= Len(t) THEN Len(t) - (n + 1) + 1 ELSE 0
      /\ \A i \in 1 .. Len(t) - (n + 1) + 1 : SubSeq(t, n + 1, Len(t))[i] = t[(n + 1) + i - 1]
  <2>1. n + 1 \in Int /\ Len(t) \in Int  BY <1>1
  <2> QED  BY <1>2, <2>1, SubSeqProperties
<1>4. Len(SubSeq(t, n + 1, Len(t))) = Len(t) - n
  <2> DEFINE m == Len(SubSeq(t, n + 1, Len(t)))
             l == Len(t)
  <2>1. l \in Nat /\ n \in 0 .. l /\ m = IF n + 1 <= l THEN l - (n + 1) + 1 ELSE 0
    BY <1>1, <1>3
  <2> HIDE DEF m, l
  <2>2. m = l - n  BY <2>1
  <2> QED  BY <2>2 DEF m, l
<1>5. \A i \in 1 .. Len(t) - n : SubSeq(t, n + 1, Len(t))[i] = t[n + i]
  <2> SUFFICES ASSUME NEW i \in 1 .. Len(t) - n
               PROVE  SubSeq(t, n + 1, Len(t))[i] = t[n + i]
      OBVIOUS
  <2>1. i \in 1 .. Len(t) - (n + 1) + 1 /\ (n + 1) + i - 1 = n + i  BY <1>1
  <2> QED  BY <1>3, <2>1
<1> QED  BY <1>1, <1>3, <1>4, <1>5

LEMMA PrefixShape ==
    ASSUME NEW S, NEW t \in Seq(S), NEW n \in 0 .. Len(t)
    PROVE  /\ SubSeq(t, 1, n) \in Seq(S) /\ Len(SubSeq(t, 1, n)) = n
           /\ SubSeq(t, 1, n) \o SubSeq(t, n + 1, Len(t)) = t
<1>1. Len(t) \in Nat /\ n \in Nat /\ n <= Len(t)  OBVIOUS
<1>2. \A i \in 1 .. n : t[i] \in S  BY <1>1
<1>3. /\ SubSeq(t, 1, n) \in Seq(S)
      /\ Len(SubSeq(t, 1, n)) = IF 1 <= n THEN n - 1 + 1 ELSE 0
  <2>1. 1 \in Int /\ n \in Int  BY <1>1
  <2> QED  BY <1>2, <2>1, SubSeqProperties
<1>4. Len(SubSeq(t, 1, n)) = n
  <2> DEFINE m == Len(SubSeq(t, 1, n))
  <2>1. m = IF 1 <= n THEN n - 1 + 1 ELSE 0  BY <1>3
  <2> HIDE DEF m
  <2>2. m = n  BY <1>1, <2>1
  <2> QED  BY <2>2 DEF m
<1>5. SubSeq(t, 1, n) \o SubSeq(t, n + 1, Len(t)) = SubSeq(t, 1, Len(t))
  <2>1. 1 \in 1 .. Len(t) + 1 /\ n \in 1 - 1 .. Len(t) /\ Len(t) \in n .. Len(t)  BY <1>1
  <2> QED  BY <2>1, ConcatAdjacentSubSeq
<1>6. SubSeq(t, 1, Len(t)) = t  BY SubSeqFull
<1> QED  BY <1>3, <1>4, <1>5, <1>6

(* Dropping the front of the first part drops the front of the whole.        *)
LEMMA DropOfConcat ==
    ASSUME NEW S, NEW x \in Seq(S), NEW y \in Seq(S), NEW n \in 0 .. Len(x)
    PROVE  SubSeq(x, n + 1, Len(x)) \o y = SubSeq(x \o y, n + 1, Len(x \o y))
<1> DEFINE u == SubSeq(x, n + 1, Len(x))
           v == SubSeq(x \o y, n + 1, Len(x \o y))
           p == Len(x)
           q == Len(y)
<1>1. /\ p \in Nat /\ q \in Nat /\ x \o y \in Seq(S) /\ Len(x \o y) = p + q
      /\ \A i \in 1 .. p + q : (x \o y)[i] = IF i <= p THEN x[i] ELSE y[i - p]
  BY ConcatProperties
<1>2. u \in Seq(S) /\ Len(u) = p - n /\ \A i \in 1 .. p - n : u[i] = x[n + i]
  BY SuffixShape
<1>3. n \in 0 .. Len(x \o y)  BY <1>1
<1>4. v \in Seq(S) /\ Len(v) = p + q - n /\ \A i \in 1 .. p + q - n : v[i] = (x \o y)[n + i]
  <2>1. /\ v \in Seq(S) /\ Len(v) = Len(x \o y) - n
        /\ \A i \in 1 .. Len(x \o y) - n : v[i] = (x \o y)[n + i]
    BY <1>1, <1>3, SuffixShape
  <2> HIDE DEF v
  <2> QED  BY <1>1, <2>1
<1>5. /\ u \o y \in Seq(S) /\ Len(u \o y) = Len(u) + q
      /\ \A i \in 1 .. Len(u) + q : (u \o y)[i] = IF i <= Len(u) THEN u[i] ELSE y[i - Len(u)]
  BY <1>2, ConcatProperties
<1> HIDE DEF u, v, p, q
<1>6. Len(u \o y) = Len(v) /\ Len(v) = p + q - n  BY <1>1, <1>2, <1>4, <1>5
<1>7. \A i \in 1 .. Len(u \o y) : (u \o y)[i] = v[i]
  <2> SUFFICES ASSUME NEW i \in 1 .. p + q - n PROVE (u \o y)[i] = v[i]
      BY <1>6
  <2>1. n \in 0 .. p  BY DEF p
  <2>2. n + i \in 1 .. p + q  BY <1>1, <2>1
  <2>3. v[i] = IF n + i <= p THEN x[n + i] ELSE y[(n + i) - p]  BY <1>1, <1>4, <2>2
  <2>4. (u \o y)[i] = IF i <= p - n THEN u[i] ELSE y[i - (p - n)]  BY <1>2, <1>5, <1>1, <2>1
  <2>5. i - (p - n) = (n + i) - p /\ (i <= p - n <=> n + i <= p)  BY <1>1, <2>1
  <2>6. i <= p - n => u[i] = x[n + i]  BY <1>2
  <2> QED  BY <2>3, <2>4, <2>5, <2>6
<1>8. u \o y = v  BY <1>4, <1>5, <1>6, <1>7, SeqEqual
<1> QED  BY <1>8 DEF u, v

-----------------------------------------------------------------------------
(* The stream.                                                               *)

LEMMA OrdType == ASSUME NEW u \in Units PROVE Ord(u) \in Nat
BY DEF Units, Ord

LEMMA SizeType ==
    ASSUME NEW se \in Seq(Lens), NEW b \in 0 .. Len(se)
    PROVE  Size(se, b) \in Nat /\ Size(se, b) >= HdrSize
<1>1. CASE b = 0  BY <1>1 DEF Size, HdrSize
<1>2. CASE b # 0
  <2>1. b \in 1 .. Len(se)  BY <1>2
  <2>2. se[b] \in Lens  BY <2>1
  <2>3. se[b] \in Nat  BY <2>2, ConstantsAssumption
  <2> QED  BY <1>2, <2>3 DEF Size, HdrSize
<1> QED  BY <1>1, <1>2

(* What is left after units were taken from the front.                       *)
LEMMA DropStream ==
    ASSUME NEW t \in Seq(Units), NEW se \in Seq(Lens), NEW n \in 0 .. Len(t), Ordered(t, se)
    PROVE  /\ Ordered(SubSeq(t, n + 1, Len(t)), se)
           /\ Whole(t, se) => Whole(SubSeq(t, n + 1, Len(t)), se)
<1> DEFINE u == SubSeq(t, n + 1, Len(t))
<1>1. /\ Len(t) \in Nat /\ u \in Seq(Units) /\ Len(u) = Len(t) - n
      /\ \A i \in 1 .. Len(t) - n : u[i] = t[n + i]
  BY SuffixShape
<1> HIDE DEF u
<1>2. \A i \in 1 .. Len(u) : i \in Nat /\ n + i \in 1 .. Len(t) /\ u[i] = t[n + i]  BY <1>1
<1>3. \A i, j \in 1 .. Len(u) : i < j => n + i < n + j /\ (n + j) - (n + i) = j - i  BY <1>2
<1>4. Genuine(t, se) => Genuine(u, se)  BY <1>2 DEF Genuine
<1>5. Sorted(t) => Sorted(u)
  <2> SUFFICES ASSUME Sorted(t), NEW j \in 1 .. Len(u), NEW k \in 1 .. Len(u), j < k
               PROVE  u[j].b < u[k].b \/ (u[j].b = u[k].b /\ Ord(u[k]) - Ord(u[j]) >= k - j)
      BY DEF Sorted
  <2>1. \/ t[n + j].b < t[n + k].b
        \/ t[n + j].b = t[n + k].b /\ Ord(t[n + k]) - Ord(t[n + j]) >= (n + k) - (n + j)
    BY <1>2, <1>3 DEF Sorted
  <2> QED  BY <1>2, <1>3, <2>1
<1>6. Gapless(t, se) => Gapless(u, se)
  <2> SUFFICES ASSUME Gapless(t, se), NEW j \in 1 .. Len(u), NEW k \in 1 .. Len(u), j < k
               PROVE  /\ Ord(u[j]) + (k - j) < Size(se, u[j].b) =>
                            u[k].b = u[j].b /\ Ord(u[k]) = Ord(u[j]) + (k - j)
                      /\ Ord(u[j]) + (k - j) = Size(se, u[j].b) =>
                            u[k].b = u[j].b + 1 /\ Ord(u[k]) = 0
      BY DEF Gapless
  <2>1. /\ n + j \in 1 .. Len(t) /\ n + k \in 1 .. Len(t) /\ n + j < n + k
        /\ u[j] = t[n + j] /\ u[k] = t[n + k] /\ (n + k) - (n + j) = k - j
    BY <1>2, <1>3
  <2>2. /\ Ord(t[n + j]) + ((n + k) - (n + j)) < Size(se, t[n + j].b) =>
              t[n + k].b = t[n + j].b /\ Ord(t[n + k]) = Ord(t[n + j]) + ((n + k) - (n + j))
        /\ Ord(t[n + j]) + ((n + k) - (n + j)) = Size(se, t[n + j].b) =>
              t[n + k].b = t[n + j].b + 1 /\ Ord(t[n + k]) = 0
    BY <2>1 DEF Gapless
  <2> QED  BY <2>1, <2>2
<1>7. Ended(t, se) => Ended(u, se)
  <2> SUFFICES ASSUME Ended(t, se), NEW j \in 1 .. Len(u)
               PROVE  /\ j + Size(se, u[j].b) <= Len(u) + 1 + Ord(u[j])
                      /\ j + Size(se, u[j].b) = Len(u) + 1 + Ord(u[j]) => u[j].b = Len(se)
      BY DEF Ended
  <2>1. t[n + j] \in Units /\ n + j \in 1 .. Len(t) /\ u[j] = t[n + j]  BY <1>2
  <2>2. Ord(u[j]) \in Nat  BY <2>1, OrdType
  <2>3. u[j].b \in 0 .. Len(se)  BY <2>1 DEF Ordered, Genuine, Units
  <2>4. Size(se, u[j].b) \in Nat  BY <2>3, SizeType
  <2>5. /\ (n + j) + Size(se, u[j].b) <= Len(t) + 1 + Ord(u[j])
        /\ (n + j) + Size(se, u[j].b) = Len(t) + 1 + Ord(u[j]) => u[j].b = Len(se)
    BY <2>1 DEF Ended
  <2>6. PICK o \in Nat, z \in Nat, l \in Nat : o = Ord(u[j]) /\ z = Size(se, u[j].b) /\ l = Len(t)
    BY <1>1, <2>2, <2>4
  <2>7. Len(u) = l - n /\ j \in Nat /\ n \in Nat  BY <1>1, <1>2, <2>6
  <2>8. (n + j) + z <= l + 1 + o /\ ((n + j) + z = l + 1 + o => u[j].b = Len(se))  BY <2>5, <2>6
  <2>9. j + z <= (l - n) + 1 + o /\ (j + z = (l - n) + 1 + o => u[j].b = Len(se))
    BY <2>7, <2>8
  <2> QED  BY <2>6, <2>7, <2>9
<1>8. Ordered(u, se) /\ (Whole(t, se) => Whole(u, se))
  BY <1>4, <1>5, <1>6, <1>7 DEF Ordered, Whole
<1> QED  BY <1>8 DEF u

(* What is left after the link lost the first unit of y.                     *)
LEMMA LoseStream ==
    ASSUME NEW x \in Seq(Units), NEW y \in Seq(Units), y # <<>>, NEW se,
           Ordered(x \o y, se)
    PROVE  /\ x \o Tail(y) \in Seq(Units) /\ Ordered(x \o Tail(y), se)
           /\ \A j \in 1 .. Len(x \o Tail(y)) :
                 \E i \in 1 .. Len(x \o y) : (x \o Tail(y))[j] = (x \o y)[i]
<1> DEFINE t == x \o y
           u == x \o Tail(y)
           p == Len(x)
           q == Len(y)
           f(j) == IF j <= p THEN j ELSE j + 1
<1>1. /\ p \in Nat /\ t \in Seq(Units) /\ Len(t) = p + q
      /\ \A i \in 1 .. p + q : t[i] = IF i <= p THEN x[i] ELSE y[i - p]
  BY ConcatProperties
<1>2. /\ q \in Nat \ {0} /\ Tail(y) \in Seq(Units) /\ Len(Tail(y)) = q - 1
      /\ \A i \in 1 .. q - 1 : Tail(y)[i] = y[i + 1]
  OBVIOUS
<1>3. /\ u \in Seq(Units) /\ Len(u) = p + (q - 1)
      /\ \A i \in 1 .. p + (q - 1) : u[i] = IF i <= p THEN x[i] ELSE Tail(y)[i - p]
  <2>1. /\ u \in Seq(Units) /\ Len(u) = p + Len(Tail(y))
        /\ \A i \in 1 .. p + Len(Tail(y)) : u[i] = IF i <= p THEN x[i] ELSE Tail(y)[i - p]
    BY <1>2, ConcatProperties
  <2> HIDE DEF u, p, q
  <2> QED  BY <1>2, <2>1
<1> HIDE DEF t, u, p, q
<1>4. \A j \in 1 .. Len(u) : j \in Nat /\ f(j) \in 1 .. Len(t) /\ u[j] = t[f(j)]
  <2> SUFFICES ASSUME NEW j \in 1 .. p + (q - 1)
               PROVE  j \in Nat /\ f(j) \in 1 .. p + q /\ u[j] = t[f(j)]
      BY <1>1, <1>3
  <2>1. f(j) \in 1 .. p + q  BY <1>1, <1>2
  <2>2. CASE j <= p  BY <1>1, <1>3, <2>1, <2>2
  <2>3. CASE ~(j <= p)
    <3>1. /\ j - p \in 1 .. q - 1 /\ f(j) = j + 1 /\ ~(j + 1 <= p)
          /\ (j - p) + 1 = (j + 1) - p
      BY <1>1, <1>2, <2>3
    <3>2. u[j] = Tail(y)[j - p] /\ t[f(j)] = y[(j + 1) - p]  BY <1>1, <1>3, <2>1, <2>3, <3>1
    <3>3. Tail(y)[j - p] = y[(j - p) + 1]  BY <1>2, <3>1
    <3>4. u[j] = t[f(j)]  BY <3>1, <3>2, <3>3
    <3> HIDE DEF f
    <3> QED  BY <1>1, <2>1, <3>4
  <2> QED  BY <2>2, <2>3
<1>5. \A j, k \in 1 .. Len(u) : j < k => f(j) < f(k) /\ f(k) - f(j) >= k - j  BY <1>1, <1>4
<1>6. Genuine(u, se)
  <2> HIDE DEF f
  <2> QED  BY <1>4 DEF Genuine, Ordered, t
<1>7. Sorted(u)
  <2> SUFFICES ASSUME NEW j \in 1 .. Len(u), NEW k \in 1 .. Len(u), j < k
               PROVE  u[j].b < u[k].b \/ (u[j].b = u[k].b /\ Ord(u[k]) - Ord(u[j]) >= k - j)
      BY DEF Sorted
  <2>1. Sorted(t)  BY DEF Ordered, t
  <2>2. /\ f(j) \in 1 .. Len(t) /\ f(k) \in 1 .. Len(t) /\ f(j) < f(k) /\ f(k) - f(j) >= k - j
        /\ u[j] = t[f(j)] /\ u[k] = t[f(k)] /\ u[j] \in Units /\ u[k] \in Units
    <3>1. u[j] \in Units /\ u[k] \in Units  BY <1>3
    <3>2. f(j) < f(k) /\ f(k) - f(j) >= k - j  BY <1>5
    <3> HIDE DEF f
    <3> QED  BY <1>4, <3>1, <3>2
  <2> HIDE DEF f
  <2>3. u[j].b < u[k].b \/ (u[j].b = u[k].b /\ Ord(u[k]) - Ord(u[j]) >= f(k) - f(j))
    BY <2>1, <2>2 DEF Sorted
  <2>4. Ord(u[j]) \in Nat /\ Ord(u[k]) \in Nat  BY <2>2, OrdType
  <2>5. Ord(u[k]) - Ord(u[j]) >= f(k) - f(j) => Ord(u[k]) - Ord(u[j]) >= k - j
    <3>1. f(j) \in Int /\ f(k) \in Int /\ j \in Int /\ k \in Int  BY <1>1, <2>2
    <3> QED  BY <2>2, <2>4, <3>1
  <2> QED  BY <2>3, <2>5
<1>8. \A j \in 1 .. Len(u) : \E i \in 1 .. Len(t) : u[j] = t[i]
  <2> HIDE DEF f
  <2> QED  BY <1>4
<1> QED  BY <1>3, <1>6, <1>7, <1>8 DEF Ordered, t, u

(* A block as the device sends it.                                           *)
LEMMA BlockShape ==
    ASSUME NEW b \in Nat \ {0}, NEW l \in Lens
    PROVE  /\ BlockUnits(b, l) \in Seq(Units)
           /\ Len(BlockUnits(b, l)) = HdrSize + l /\ l \in Nat
           /\ \A j \in 1 .. HdrSize + l :
                 /\ BlockUnits(b, l)[j].b = b /\ Ord(BlockUnits(b, l)[j]) = j - 1
                 /\ BlockUnits(b, l)[j].k \in {"c", "s"} => BlockUnits(b, l)[j].i = 0
                 /\ BlockUnits(b, l)[j].i = 0 => BlockUnits(b, l)[j].k \in {"m", "c", "s"}
<1> DEFINE h == <<Unit("m", b, 0), Unit("c", b, 0), Unit("s", b, 0)>>
           p == [i \in 1 .. l |-> Unit(IF i % 2 = 1 THEN "m" ELSE "d", b, i)]
           x == h \o p
<1>1. l \in Nat  BY ConstantsAssumption
<1>2. /\ Unit("m", b, 0) \in Units /\ Unit("c", b, 0) \in Units /\ Unit("s", b, 0) \in Units
      /\ \A i \in 1 .. l : Unit(IF i % 2 = 1 THEN "m" ELSE "d", b, i) \in Units
  BY <1>1 DEF Units, Unit, Kinds
<1>3. h \in Seq(Units) /\ Len(h) = 3
  <2> HIDE DEF Unit
  <2> QED  BY <1>2
<1>4. /\ h[1] = [k |-> "m", b |-> b, i |-> 0] /\ h[2] = [k |-> "c", b |-> b, i |-> 0]
      /\ h[3] = [k |-> "s", b |-> b, i |-> 0]
  BY DEF Unit
<1>5. p \in Seq(Units) /\ Len(p) = l
  <2>1. p \in [1 .. l -> Units]  BY <1>2
  <2> HIDE DEF p
  <2> QED  BY <1>1, <2>1
<1>6. \A i \in 1 .. l : p[i].b = b /\ p[i].i = i /\ p[i].k \in {"m", "d"}  BY DEF Unit
<1> HIDE DEF h, p
<1>7. /\ x \in Seq(Units) /\ Len(x) = 3 + l
      /\ \A j \in 1 .. 3 + l : x[j] = IF j <= 3 THEN h[j] ELSE p[j - 3]
  <2>1. /\ x \in Seq(Units) /\ Len(x) = Len(h) + Len(p)
        /\ \A j \in 1 .. Len(h) + Len(p) : x[j] = IF j <= Len(h) THEN h[j] ELSE p[j - Len(h)]
    BY <1>3, <1>5, ConcatProperties
  <2> HIDE DEF x
  <2> QED  BY <1>3, <1>5, <2>1
<1> HIDE DEF x
<1>8. ASSUME NEW j \in 1 .. 3 + l
      PROVE  /\ x[j].b = b /\ Ord(x[j]) = j - 1
             /\ x[j].k \in {"c", "s"} => x[j].i = 0
             /\ x[j].i = 0 => x[j].k \in {"m", "c", "s"}
  <2>1. CASE j > 3
    <3>1. j - 3 \in 1 .. l /\ (j - 3) + 2 = j - 1 /\ j - 3 > 0  BY <1>1, <2>1
    <3>2. x[j] = p[j - 3]  BY <1>1, <1>7, <2>1
    <3>3. x[j].b = b /\ x[j].i = j - 3 /\ x[j].k \in {"m", "d"}  BY <1>6, <3>1, <3>2
    <3>4. Ord(x[j]) = (j - 3) + 2  BY <3>1, <3>3 DEF Ord
    <3> QED  BY <3>1, <3>3, <3>4
  <2>2. CASE j = 1
    <3>1. x[1] = [k |-> "m", b |-> b, i |-> 0]  BY <1>1, <1>4, <1>7
    <3> QED  BY <2>2, <3>1 DEF Ord
  <2>3. CASE j = 2
    <3>1. x[2] = [k |-> "c", b |-> b, i |-> 0]  BY <1>1, <1>4, <1>7
    <3> QED  BY <2>3, <3>1 DEF Ord
  <2>4. CASE j = 3
    <3>1. x[3] = [k |-> "s", b |-> b, i |-> 0]  BY <1>1, <1>4, <1>7
    <3> QED  BY <2>4, <3>1 DEF Ord
  <2> QED  BY <1>1, <2>1, <2>2, <2>3, <2>4
<1>9. BlockUnits(b, l) = x  BY DEF BlockUnits, x, h, p
<1> QED  BY <1>1, <1>7, <1>8, <1>9 DEF HdrSize

(* What is there after the device has sent another block.                    *)
LEMMA AppendStream ==
    ASSUME NEW t \in Seq(Units), NEW se \in Seq(Lens), NEW l \in Lens, Ordered(t, se)
    PROVE  LET v == t \o BlockUnits(Len(se) + 1, l)
               sf == Append(se, l)
           IN /\ v \in Seq(Units) /\ Ordered(v, sf) /\ sf \in Seq(Lens) /\ Len(sf) = Len(se) + 1
              /\ Whole(t, se) => Whole(v, sf)
              /\ \A n \in Nat : Headers(t, se, n) => Headers(v, sf, n)
              /\ Len(v) >= Len(t) /\ \A j \in 1 .. Len(t) : v[j] = t[j]
              /\ \A j \in 1 .. Len(v) : j > Len(t) => v[j].b = Len(se) + 1
              /\ Len(v) > Len(t) /\ Ord(v[Len(t) + 1]) = 0
              /\ \A b \in 0 .. Len(se) : Size(sf, b) = Size(se, b)
<1> DEFINE c == BlockUnits(Len(se) + 1, l)
           v == t \o c
           sf == Append(se, l)
<1>1. PICK p \in Nat, n \in Nat : p = Len(t) /\ n = Len(se)  OBVIOUS
<1>2. /\ c \in Seq(Units) /\ Len(c) = 3 + l /\ l \in Nat
      /\ \A j \in 1 .. 3 + l :
            /\ c[j].b = n + 1 /\ Ord(c[j]) = j - 1
            /\ c[j].k \in {"c", "s"} => c[j].i = 0
            /\ c[j].i = 0 => c[j].k \in {"m", "c", "s"}
  <2>1. Len(se) + 1 \in Nat \ {0}  BY <1>1
  <2> QED  BY <1>1, <2>1, BlockShape DEF HdrSize
<1> HIDE DEF c
<1>3. /\ v \in Seq(Units) /\ Len(v) = p + (3 + l)
      /\ \A j \in 1 .. p + (3 + l) : v[j] = IF j <= p THEN t[j] ELSE c[j - p]
  <2>1. /\ v \in Seq(Units) /\ Len(v) = Len(t) + Len(c)
        /\ \A j \in 1 .. Len(t) + Len(c) : v[j] = IF j <= Len(t) THEN t[j] ELSE c[j - Len(t)]
    BY <1>2, ConcatProperties
  <2> HIDE DEF v
  <2> QED  BY <1>1, <1>2, <2>1
<1>4. sf \in Seq(Lens) /\ Len(sf) = n + 1 /\ sf[n + 1] = l /\ \A i \in 1 .. n : sf[i] = se[i]
  BY <1>1
<1> HIDE DEF v, sf
<1>5. \A b \in 0 .. n : Size(sf, b) = Size(se, b)  BY <1>4 DEF Size
<1>6. Size(sf, n + 1) = 3 + l  BY <1>1, <1>4 DEF Size, HdrSize
<1>7. \A j \in 1 .. p : v[j] = t[j] /\ j \in 1 .. Len(v) /\ t[j] \in Units  BY <1>1, <1>2, <1>3
<1>8. \A j \in 1 .. Len(v) : j > p =>
         /\ v[j].b = n + 1 /\ Ord(v[j]) = j - p - 1
         /\ v[j].k \in {"c", "s"} => v[j].i = 0
         /\ v[j].i = 0 => v[j].k \in {"m", "c", "s"}
  <2> SUFFICES ASSUME NEW j \in 1 .. Len(v), j > p
               PROVE  /\ v[j].b = n + 1 /\ Ord(v[j]) = j - p - 1
                      /\ v[j].k \in {"c", "s"} => v[j].i = 0
                      /\ v[j].i = 0 => v[j].k \in {"m", "c", "s"}
      OBVIOUS
  <2>1. j - p \in 1 .. 3 + l /\ v[j] = c[j - p]  BY <1>2, <1>3
  <2> QED  BY <1>2, <2>1
<1>9. \A j \in 1 .. p : /\ t[j].b \in 0 .. n /\ Ord(t[j]) \in Nat /\ Size(se, t[j].b) \in Nat
                        /\ Size(sf, t[j].b) = Size(se, t[j].b)
                        /\ Ord(t[j]) < Size(se, t[j].b)
  <2> SUFFICES ASSUME NEW j \in 1 .. p
               PROVE  /\ t[j].b \in 0 .. n /\ Ord(t[j]) \in Nat /\ Size(se, t[j].b) \in Nat
                      /\ Size(sf, t[j].b) = Size(se, t[j].b)
                      /\ Ord(t[j]) < Size(se, t[j].b)
      OBVIOUS
  <2>1. t[j] \in Units  BY <1>7
  <2>2. t[j].b \in 0 .. n /\ Ord(t[j]) < Size(se, t[j].b)
    BY <1>1, <2>1 DEF Ordered, Genuine, Units
  <2>3. Ord(t[j]) \in Nat  BY <2>1, OrdType
  <2>4. Size(se, t[j].b) \in Nat  BY <1>1, <2>2, SizeType
  <2> QED  BY <1>5, <2>2, <2>3, <2>4
<1>10. Genuine(v, sf)
  <2> SUFFICES ASSUME NEW j \in 1 .. Len(v)
               PROVE  /\ v[j].b <= Len(sf) /\ Ord(v[j]) < Size(sf, v[j].b)
                      /\ v[j].b = 0 => v[j].i > 0
                      /\ v[j].k \in {"c", "s"} => v[j].i = 0
                      /\ v[j].i = 0 => v[j].k \in {"m", "c", "s"}
      BY DEF Genuine
  <2>1. CASE j <= p
    <3>1. j \in 1 .. p /\ v[j] = t[j]  BY <1>3, <1>7, <2>1
    <3>2. v[j].b <= Len(sf) /\ Ord(v[j]) < Size(sf, v[j].b)  BY <1>4, <1>9, <3>1
    <3> QED  BY <1>1, <3>1, <3>2 DEF Ordered, Genuine
  <2>2. CASE j > p
    <3>1. /\ v[j].b = n + 1 /\ Ord(v[j]) = j - p - 1
          /\ v[j].k \in {"c", "s"} => v[j].i = 0
          /\ v[j].i = 0 => v[j].k \in {"m", "c", "s"}
      BY <1>8, <2>2
    <3>2. j - p - 1 < 3 + l  BY <1>2, <1>3
    <3> QED  BY <1>4, <1>6, <3>1, <3>2
  <2> QED  BY <1>3, <2>1, <2>2
<1>11. Sorted(v)
  <2> SUFFICES ASSUME NEW j \in 1 .. Len(v), NEW k \in 1 .. Len(v), j < k
               PROVE  v[j].b < v[k].b \/ (v[j].b = v[k].b /\ Ord(v[k]) - Ord(v[j]) >= k - j)
      BY DEF Sorted
  <2>0. j \in Nat /\ k \in Nat  BY <1>3
  <2>1. CASE k <= p
    <3>1. j \in 1 .. p /\ k \in 1 .. p  BY <2>0, <2>1
    <3> QED  BY <1>1, <1>7, <3>1 DEF Ordered, Sorted
  <2>2. CASE j <= p /\ k > p
    <3>1. j \in 1 .. p  BY <2>0, <2>2
    <3>2. v[j].b \in 0 .. n  BY <1>7, <1>9, <3>1
    <3>3. v[k].b = n + 1  BY <1>8, <2>2
    <3> QED  BY <3>2, <3>3
  <2>3. CASE j > p /\ k > p
    <3>1. v[j].b = n + 1 /\ Ord(v[j]) = j - p - 1 /\ v[k].b = n + 1 /\ Ord(v[k]) = k - p - 1
      BY <1>8, <2>3
    <3> QED  BY <2>0, <3>1
  <2> QED  BY <2>0, <2>1, <2>2, <2>3
<1>12. ASSUME Whole(t, se) PROVE Gapless(v, sf)
  <2> SUFFICES ASSUME NEW j \in 1 .. Len(v), NEW k \in 1 .. Len(v), j < k
               PROVE  /\ Ord(v[j]) + (k - j) < Size(sf, v[j].b) =>
                            v[k].b = v[j].b /\ Ord(v[k]) = Ord(v[j]) + (k - j)
                      /\ Ord(v[j]) + (k - j) = Size(sf, v[j].b) =>
                            v[k].b = v[j].b + 1 /\ Ord(v[k]) = 0
      BY DEF Gapless
  <2>0. j \in Nat /\ k \in Nat  BY <1>3
  <2>1. CASE k <= p
    <3>1. j \in 1 .. p /\ k \in 1 .. p  BY <2>0, <2>1
    <3>2. v[j] = t[j] /\ v[k] = t[k] /\ Size(sf, t[j].b) = Size(se, t[j].b)  BY <1>7, <1>9, <3>1
    <3>3. /\ Ord(t[j]) + (k - j) < Size(se, t[j].b) =>
                t[k].b = t[j].b /\ Ord(t[k]) = Ord(t[j]) + (k - j)
          /\ Ord(t[j]) + (k - j) = Size(se, t[j].b) =>
                t[k].b = t[j].b + 1 /\ Ord(t[k]) = 0
      BY <1>1, <1>12, <3>1 DEF Whole, Gapless
    <3> QED  BY <3>2, <3>3
  <2>2. CASE j <= p /\ k > p
    <3>1. j \in 1 .. p  BY <2>0, <2>2
    <3>2. /\ v[j] = t[j] /\ Size(sf, t[j].b) = Size(se, t[j].b)
          /\ t[j].b \in 0 .. n
      BY <1>7, <1>9, <3>1
    <3>3. PICK o \in Nat, z \in Nat : o = Ord(t[j]) /\ z = Size(se, t[j].b)  BY <1>9, <3>1
    <3>4. j + z <= p + 1 + o /\ (j + z = p + 1 + o => t[j].b = n)
      BY <1>1, <1>12, <3>1, <3>3 DEF Whole, Ended
    <3>5. v[k].b = n + 1 /\ Ord(v[k]) = k - p - 1  BY <1>8, <2>2
    <3>6. ~(o + (k - j) < z)  BY <2>0, <2>2, <3>4
    <3>7. o + (k - j) = z => k = p + 1 /\ j + z = p + 1 + o  BY <2>0, <2>2, <3>4
    <3>8. ASSUME o + (k - j) = z PROVE v[k].b = v[j].b + 1 /\ Ord(v[k]) = 0
      <4>1. k = p + 1 /\ t[j].b = n  BY <3>4, <3>7, <3>8
      <4>2. k - p - 1 = 0  BY <4>1
      <4> QED  BY <3>2, <3>5, <4>1, <4>2
    <3>9. Ord(v[j]) = o /\ Size(sf, v[j].b) = z  BY <3>2, <3>3
    <3> QED  BY <3>6, <3>8, <3>9
  <2>3. CASE j > p /\ k > p
    <3>1. v[j].b = n + 1 /\ Ord(v[j]) = j - p - 1 /\ v[k].b = n + 1 /\ Ord(v[k]) = k - p - 1
      BY <1>8, <2>3
    <3>2. k - p - 1 < 3 + l  BY <1>2, <1>3
    <3>3. (j - p - 1) + (k - j) = k - p - 1  BY <2>0
    <3>4. Size(sf, v[j].b) = 3 + l  BY <1>6, <3>1
    <3>5. Ord(v[j]) + (k - j) = k - p - 1  BY <3>1, <3>3
    <3>6. k - p - 1 # 3 + l  BY <1>2, <2>0, <3>2
    <3> QED  BY <3>1, <3>4, <3>5, <3>6
  <2> QED  BY <2>0, <2>1, <2>2, <2>3
<1>13. ASSUME Whole(t, se) PROVE Ended(v, sf)
  <2> SUFFICES ASSUME NEW j \in 1 .. Len(v)
               PROVE  /\ j + Size(sf, v[j].b) <= Len(v) + 1 + Ord(v[j])
                      /\ j + Size(sf, v[j].b) = Len(v) + 1 + Ord(v[j]) => v[j].b = Len(sf)
      BY DEF Ended
  <2>1. CASE j <= p
    <3>1. j \in 1 .. p  BY <1>3, <2>1
    <3>2. v[j] = t[j] /\ Size(sf, t[j].b) = Size(se, t[j].b)  BY <1>7, <1>9, <3>1
    <3>3. PICK o \in Nat, z \in Nat : o = Ord(t[j]) /\ z = Size(se, t[j].b)  BY <1>9, <3>1
    <3>4. j + z <= p + 1 + o  BY <1>1, <1>13, <3>1, <3>3 DEF Whole, Ended
    <3>5. j + z < p + (3 + l) + 1 + o  BY <1>2, <3>1, <3>4
    <3>6. Len(v) = p + (3 + l) /\ j \in Nat  BY <1>3, <3>1
    <3>7. j + z < Len(v) + 1 + o  BY <3>5, <3>6
    <3>8. \A a, b \in Int : a < b => a <= b /\ a # b  OBVIOUS
    <3>9. j + z <= Len(v) + 1 + o /\ j + z # Len(v) + 1 + o  BY <1>2, <3>6, <3>7, <3>8
    <3> QED  BY <3>2, <3>3, <3>9
  <2>2. CASE j > p
    <3>1. v[j].b = n + 1 /\ Ord(v[j]) = j - p - 1  BY <1>8, <2>2
    <3> QED  BY <1>2, <1>3, <1>4, <1>6, <3>1
  <2> QED  BY <1>3, <2>1, <2>2
<1>14. ASSUME NEW m \in Nat, Headers(t, se, m) PROVE Headers(v, sf, m)
  <2> SUFFICES ASSUME NEW b \in 1 .. n + 1, b > m
               PROVE  \E j \in 1 .. Len(v) : v[j].b = b /\ Ord(v[j]) = 0
      BY <1>4 DEF Headers
  <2>1. CASE b <= n
    <3>1. b \in 1 .. Len(se)  BY <1>1, <2>1
    <3>2. PICK j \in 1 .. p : t[j].b = b /\ Ord(t[j]) = 0  BY <1>1, <1>14, <3>1 DEF Headers
    <3> QED  BY <1>7, <3>2
  <2>2. CASE b = n + 1
    <3>1. p + 1 \in 1 .. Len(v) /\ p + 1 > p  BY <1>2, <1>3
    <3>2. v[p + 1].b = n + 1 /\ Ord(v[p + 1]) = (p + 1) - p - 1  BY <1>8, <3>1
    <3>3. v[p + 1].b = b /\ Ord(v[p + 1]) = 0  BY <2>2, <3>2
    <3> QED  BY <3>1, <3>3
  <2> QED  BY <2>1, <2>2
<1>15. /\ Len(v) > Len(t) /\ Ord(v[Len(t) + 1]) = 0
       /\ \A j \in 1 .. Len(v) : j > Len(t) => v[j].b = Len(se) + 1
  <2>1. p + 1 \in 1 .. Len(v) /\ p + 1 > p /\ Len(v) > p  BY <1>2, <1>3
  <2>2. Ord(v[p + 1]) = 0  BY <1>8, <2>1
  <2> QED  BY <1>1, <1>8, <2>1, <2>2
<1>16. /\ v \in Seq(Units) /\ Ordered(v, sf) /\ sf \in Seq(Lens) /\ Len(sf) = Len(se) + 1
       /\ Whole(t, se) => Whole(v, sf)
       /\ \A m \in Nat : Headers(t, se, m) => Headers(v, sf, m)
       /\ Len(v) >= Len(t) /\ \A j \in 1 .. Len(t) : v[j] = t[j]
       /\ \A b \in 0 .. Len(se) : Size(sf, b) = Size(se, b)
  <2>1. Len(v) >= Len(t) /\ Len(sf) = Len(se) + 1  BY <1>1, <1>2, <1>3, <1>4
  <2>2. Ordered(v, sf)  BY <1>10, <1>11 DEF Ordered
  <2>3. Whole(t, se) => Whole(v, sf)  BY <1>12, <1>13 DEF Whole
  <2> QED  BY <1>1, <1>3, <1>4, <1>5, <1>7, <1>14, <2>1, <2>2, <2>3
<1> QED  BY <1>15, <1>16 DEF v, sf, c

-----------------------------------------------------------------------------
(* Numbers.                                                                  *)

(* A set of natural numbers has a least one.                                 *)
LEMMA Least ==
    ASSUME NEW T, T \subseteq Nat, T # {}
    PROVE  \E i \in T : \A j \in T : i <= j
<1> DEFINE R == {ss \in Nat \X Nat : ss[1] < ss[2]}
<1>1. IsWellFoundedOn(R, Nat)  BY NatLessThanWellFounded DEF OpToRel
<1> HIDE DEF R
<1>2. PICK i \in T : \A j \in T : ~(<<j, i>> \in R)  BY <1>1, WFMin
<1>3. \A j \in T : ~(j < i)  BY <1>2 DEF R
<1> QED  BY <1>3

LEMMA FoundFirst ==
    ASSUME Typed, Candidates # {}
    PROVE  /\ Found \in 0 .. Len(s.buf) - Window /\ s.buf[Found + 1].k = "m"
           /\ \A j \in Candidates : Found <= j
<1>1. Len(s.buf) \in Nat  BY DEF Typed
<1>2. Candidates \subseteq Nat  BY <1>1 DEF Candidates
<1>3. \E i \in Candidates : \A j \in Candidates : i <= j  BY <1>2, Least
<1>4. Found \in Candidates /\ \A j \in Candidates : Found <= j  BY <1>3 DEF Found
<1> QED  BY <1>4 DEF Candidates

(* Consecutive sequence numbers of blocks at most a range apart are those of *)
(* consecutive blocks.                                                       *)
LEMMA SameTimes ==
    ASSUME NEW r \in Nat \ {0}, NEW d \in Int, r * d + 1 > 0, r * d + 1 <= r
    PROVE  r * d = 0
<1>1. CASE d >= 1
  <2>1. r * d >= r  BY <1>1
  <2> QED  BY <2>1
<1>2. CASE d <= -1
  <2>1. r * d <= -r  BY <1>2
  <2> QED  BY <2>1
<1>3. CASE d = 0  BY <1>3
<1> QED  BY <1>1, <1>2, <1>3

LEMMA NextInRange ==
    ASSUME NEW r \in Nat \ {0}, NEW a \in Nat, NEW b \in Nat, a < b, b - a <= r,
           b % r = ((a % r) + 1) % r
    PROVE  b = a + 1
<1>1. /\ a = r * (a \div r) + (a % r) /\ a % r \in 0 .. r - 1 /\ a \div r \in Int
      /\ b = r * (b \div r) + (b % r) /\ b % r \in 0 .. r - 1 /\ b \div r \in Int
  OBVIOUS
<1>2. PICK x \in Int, y \in Int, m \in 0 .. r - 1 : /\ x = a \div r /\ y = b \div r /\ m = a % r
  BY <1>1
<1>3. CASE m + 1 < r
  <2>1. b % r = m + 1  BY <1>2, <1>3
  <2>2. a = r * x + m /\ b = r * y + (m + 1)  BY <1>1, <1>2, <2>1
  <2>3. b - a = r * (y - x) + 1  BY <2>2
  <2>4. r * (y - x) = 0  BY <2>3, SameTimes
  <2> QED  BY <2>3, <2>4
<1>4. CASE m + 1 = r
  <2>1. b % r = 0  BY <1>2, <1>4
  <2>2. a = r * x + m /\ b = r * y  BY <1>1, <1>2, <2>1
  <2>3. b - a = r * (y - x - 1) + 1  BY <1>4, <2>2
  <2>4. r * (y - x - 1) = 0  BY <2>3, SameTimes
  <2> QED  BY <2>3, <2>4
<1> QED  BY <1>3, <1>4

LEMMA NextSequence ==
    ASSUME NEW r \in Nat \ {0}, NEW a \in Nat
    PROVE  (a + 1) % r = ((a % r) + 1) % r
<1>1. a = r * (a \div r) + (a % r) /\ a % r \in 0 .. r - 1 /\ a \div r \in Int  OBVIOUS
<1>2. /\ a + 1 = r * ((a + 1) \div r) + ((a + 1) % r)
      /\ (a + 1) % r \in 0 .. r - 1 /\ (a + 1) \div r \in Int
  OBVIOUS
<1>3. PICK x \in Int, y \in Int, m \in 0 .. r - 1, k \in 0 .. r - 1 :
         x = a \div r /\ y = (a + 1) \div r /\ m = a % r /\ k = (a + 1) % r
  BY <1>1, <1>2
<1>4. k - m = r * (x - y) + 1
  <2>1. a = r * x + m /\ a + 1 = r * y + k  BY <1>1, <1>2, <1>3
  <2> QED  BY <2>1
<1>5. CASE k > m
  <2>1. r * (x - y) + 1 > 0 /\ r * (x - y) + 1 <= r  BY <1>4, <1>5
  <2>2. r * (x - y) = 0  BY <2>1, SameTimes
  <2>3. k = m + 1  BY <1>4, <2>2
  <2>4. (m + 1) % r = m + 1  BY <2>3
  <2> QED  BY <1>3, <2>3, <2>4
<1>6. CASE ~(k > m)
  <2>1. x - y + 1 \in Int /\ r * (x - y + 1) = r * (x - y) + r  OBVIOUS
  <2>2. r * (x - y + 1) + 1 > 0 /\ r * (x - y + 1) + 1 <= r  BY <1>4, <1>6, <2>1
  <2>3. r * (x - y + 1) = 0  BY <2>1, <2>2, SameTimes
  <2>4. k = 0 /\ m + 1 = r  BY <1>4, <2>1, <2>3
  <2>5. (m + 1) % r = 0  BY <2>4
  <2> QED  BY <1>3, <2>4, <2>5
<1> QED  BY <1>5, <1>6

-----------------------------------------------------------------------------
(* The parts of the stream.                                                  *)

LEMMA AllShape ==
    ASSUME Typed
    PROVE  /\ All \in Seq(Units) /\ Len(All) = Len(s.buf) + (Len(input) + Len(wire))
           /\ Len(All) \in Nat /\ Len(s.buf) <= Len(All)
           /\ Len(s.buf) \in Nat /\ Len(input) \in Nat /\ Len(wire) \in Nat
           /\ \A i \in 1 .. Len(s.buf) : All[i] = s.buf[i] /\ i \in 1 .. Len(All)
           /\ \A i \in 1 .. Len(All) : All[i] \in Units /\ Ord(All[i]) \in Nat /\ All[i].b \in Nat
<1> DEFINE r == input \o wire
           p == Len(s.buf)
<1>1. s.buf \in Seq(Units) /\ input \in Seq(Units) /\ wire \in Seq(Units)  BY DEF Typed
<1>2. p \in Nat /\ Len(input) \in Nat /\ Len(wire) \in Nat  BY <1>1
<1>3. r \in Seq(Units) /\ Len(r) = Len(input) + Len(wire)  BY <1>1, ConcatProperties
<1> HIDE DEF r, p
<1>4. /\ s.buf \o r \in Seq(Units) /\ Len(s.buf \o r) = p + Len(r)
      /\ \A i \in 1 .. p + Len(r) :
            (s.buf \o r)[i] = IF i <= p THEN s.buf[i] ELSE r[i - p]
  <2>1. /\ s.buf \o r \in Seq(Units) /\ Len(s.buf \o r) = Len(s.buf) + Len(r)
        /\ \A i \in 1 .. Len(s.buf) + Len(r) :
              (s.buf \o r)[i] = IF i <= Len(s.buf) THEN s.buf[i] ELSE r[i - Len(s.buf)]
    BY <1>1, <1>3, ConcatProperties, ZenonT(60)
  <2> QED  BY <2>1 DEF p
<1>5. All = s.buf \o r  BY DEF All, r
<1>6. All \in Seq(Units) /\ Len(All) = p + (Len(input) + Len(wire))  BY <1>3, <1>4, <1>5
<1>7. \A i \in 1 .. p : i \in 1 .. Len(All) /\ All[i] = s.buf[i]
  <2> SUFFICES ASSUME NEW i \in 1 .. p PROVE i \in 1 .. Len(All) /\ All[i] = s.buf[i]
      OBVIOUS
  <2>1. i \in 1 .. Len(All)  BY <1>2, <1>6
  <2>2. i \in 1 .. p + Len(r) /\ i <= p  BY <1>2, <1>3
  <2> QED  BY <1>4, <1>5, <2>1, <2>2
<1>8. \A i \in 1 .. Len(All) : All[i] \in Units  BY <1>6
<1>9. \A i \in 1 .. Len(All) : Ord(All[i]) \in Nat /\ All[i].b \in Nat
  BY <1>8, OrdType DEF Units
<1>10. Len(All) \in Nat /\ p <= Len(All)  BY <1>2, <1>6
<1> QED  BY <1>2, <1>6, <1>7, <1>8, <1>9, <1>10 DEF p

(* Units are taken from the front of the staging buffer.                     *)
LEMMA Drained ==
    ASSUME Typed, NEW n \in 0 .. Len(s.buf), s'.buf = SubSeq(s.buf, n + 1, Len(s.buf)),
           UNCHANGED <<input, wire>>
    PROVE  /\ All' = SubSeq(All, n + 1, Len(All)) /\ n \in 0 .. Len(All)
           /\ s'.buf \in Seq(Units) /\ Len(s'.buf) = Len(s.buf) - n
           /\ Len(All') = Len(All) - n
           /\ \A j \in 1 .. Len(All') : n + j \in 1 .. Len(All) /\ All'[j] = All[n + j]
<1>1. s.buf \in Seq(Units) /\ input \o wire \in Seq(Units)
  <2>1. s.buf \in Seq(Units) /\ input \in Seq(Units) /\ wire \in Seq(Units)  BY DEF Typed
  <2> QED  BY <2>1, ConcatProperties
<1>2. All' = SubSeq(s.buf, n + 1, Len(s.buf)) \o (input \o wire)  BY DEF All
<1>3. All' = SubSeq(All, n + 1, Len(All))  BY <1>1, <1>2, DropOfConcat DEF All
<1>4. s'.buf \in Seq(Units) /\ Len(s'.buf) = Len(s.buf) - n  BY <1>1, SuffixShape
<1>5. All \in Seq(Units) /\ Len(All) \in Nat /\ n \in 0 .. Len(All)
  <2>1. /\ All \in Seq(Units) /\ Len(All) = Len(s.buf) + (Len(input) + Len(wire))
        /\ Len(s.buf) \in Nat /\ Len(input) \in Nat /\ Len(wire) \in Nat
    BY AllShape
  <2>2. PICK p \in Nat, q \in Nat, r \in Nat : p = Len(s.buf) /\ q = Len(input) /\ r = Len(wire)
    BY <2>1
  <2>3. Len(All) = p + (q + r)  BY <2>1, <2>2
  <2>4. n \in 0 .. p  BY <2>2
  <2>5. p + (q + r) \in Nat /\ n \in 0 .. p + (q + r)  BY <2>4
  <2> QED  BY <2>1, <2>3, <2>5
<1>6. /\ Len(SubSeq(All, n + 1, Len(All))) = Len(All) - n
      /\ \A j \in 1 .. Len(All) - n : SubSeq(All, n + 1, Len(All))[j] = All[n + j]
  BY <1>5, SuffixShape
<1>7. Len(All') = Len(All) - n /\ \A j \in 1 .. Len(All) - n : All'[j] = All[n + j]
  BY <1>3, <1>6
<1>8. \A j \in 1 .. Len(All') : n + j \in 1 .. Len(All)  BY <1>5, <1>7
<1> QED  BY <1>3, <1>4, <1>5, <1>7, <1>8

(* A valid header.                                                           *)
LEMMA HeaderFacts ==
    ASSUME Typed, Ordered(All, sent), NEW i \in 0 .. Len(s.buf) - HdrSize, HeaderValid(i)
    PROVE  /\ Block(i) \in 1 .. Len(sent) /\ FullSize(i) = Size(sent, Block(i))
           /\ FullSize(i) \in Nat /\ FullSize(i) >= HdrSize /\ FullSize(i) <= Cap
           /\ i + 1 \in 1 .. Len(All) /\ i + 2 \in 1 .. Len(All) /\ i + 3 \in 1 .. Len(All)
           /\ All[i + 3].b = Block(i) /\ Ord(All[i + 3]) = 2
           /\ All[i + 2].b = Block(i) /\ Ord(All[i + 2]) = 1
<1>1. i + 1 \in 1 .. Len(s.buf) /\ i + 2 \in 1 .. Len(s.buf) /\ i + 3 \in 1 .. Len(s.buf)
  <2>1. Len(s.buf) \in Nat  BY AllShape
  <2> QED  BY <2>1 DEF HdrSize
<1>2. /\ i + 1 \in 1 .. Len(All) /\ i + 2 \in 1 .. Len(All) /\ i + 3 \in 1 .. Len(All)
      /\ All[i + 2] = s.buf[i + 2] /\ All[i + 3] = s.buf[i + 3]
  BY <1>1, AllShape
<1>3. All[i + 2] \in Units /\ All[i + 3] \in Units  BY <1>2, AllShape
<1>4. /\ All[i + 2].k = "c" /\ All[i + 3].k = "s" /\ All[i + 3].b = Block(i)
      /\ All[i + 2].b = Block(i)
  BY <1>2 DEF HeaderValid, Block
<1>5. All[i + 2].i = 0 /\ All[i + 3].i = 0  BY <1>2, <1>4 DEF Ordered, Genuine
<1>6. Ord(All[i + 2]) = 1 /\ Ord(All[i + 3]) = 2  BY <1>4, <1>5 DEF Ord
<1>7. Block(i) \in 1 .. Len(sent)
  <2>1. Block(i) <= Len(sent) /\ Block(i) # 0  BY <1>2, <1>4, <1>5 DEF Ordered, Genuine
  <2>2. Block(i) \in Nat  BY <1>3, <1>4 DEF Units
  <2>3. Len(sent) \in Nat  BY DEF Typed
  <2> QED  BY <2>1, <2>2, <2>3
<1>8. FullSize(i) = Size(sent, Block(i))  BY <1>7 DEF FullSize, Size
<1>9. sent[Block(i)] \in Lens  BY <1>7 DEF Typed
<1>10. FullSize(i) \in Nat /\ FullSize(i) >= HdrSize /\ FullSize(i) <= Cap
  <2>1. sent[Block(i)] \in Nat /\ 3 + sent[Block(i)] <= Cap
    BY <1>9, ConstantsAssumption DEF HdrSize
  <2> QED  BY <2>1 DEF FullSize, HdrSize
<1> QED  BY <1>2, <1>4, <1>6, <1>7, <1>8, <1>10

(* Without a loss, a valid header begins with the first unit of its block,   *)
(* and such a unit begins a valid header.                                    *)
LEMMA HeaderWhole ==
    ASSUME Typed, Ordered(All, sent), Whole(All, sent), NEW i \in 0 .. Len(s.buf) - HdrSize
    PROVE  /\ HeaderValid(i) => All[i + 1].b = Block(i) /\ Ord(All[i + 1]) = 0
           /\ Ord(All[i + 1]) = 0 => HeaderValid(i)
<1>0. Len(s.buf) \in Nat /\ Len(All) \in Nat  BY AllShape
<1>1. i + 1 \in 1 .. Len(s.buf) /\ i + 2 \in 1 .. Len(s.buf) /\ i + 3 \in 1 .. Len(s.buf)
  BY <1>0 DEF HdrSize
<1>2. /\ i + 1 \in 1 .. Len(All) /\ i + 2 \in 1 .. Len(All) /\ i + 3 \in 1 .. Len(All)
      /\ All[i + 1] = s.buf[i + 1] /\ All[i + 2] = s.buf[i + 2] /\ All[i + 3] = s.buf[i + 3]
  BY <1>1, AllShape
<1>3. PICK o \in Nat, z \in Nat : /\ o = Ord(All[i + 1]) /\ z = Size(sent, All[i + 1].b)
                                  /\ o < z /\ z >= 3
  <2>1. All[i + 1].b \in 0 .. Len(sent) /\ Ord(All[i + 1]) \in Nat
    <3>1. All[i + 1].b \in Nat /\ Ord(All[i + 1]) \in Nat  BY <1>2, AllShape
    <3>2. All[i + 1].b <= Len(sent)  BY <1>2 DEF Ordered, Genuine
    <3>3. Len(sent) \in Nat  BY DEF Typed
    <3> QED  BY <3>1, <3>2, <3>3
  <2>2. sent \in Seq(Lens)  BY DEF Typed
  <2>3. Size(sent, All[i + 1].b) \in Nat /\ Size(sent, All[i + 1].b) >= 3
    BY <2>1, <2>2, SizeType DEF HdrSize
  <2>4. Ord(All[i + 1]) < Size(sent, All[i + 1].b)  BY <1>2 DEF Ordered, Genuine
  <2> QED  BY <2>1, <2>3, <2>4
<1>4. /\ o + 1 < z => All[i + 2].b = All[i + 1].b /\ Ord(All[i + 2]) = o + 1
      /\ o + 1 = z => Ord(All[i + 2]) = 0
      /\ o + 2 < z => All[i + 3].b = All[i + 1].b /\ Ord(All[i + 3]) = o + 2
  <2>1. i + 1 < i + 2 /\ (i + 2) - (i + 1) = 1 /\ i + 1 < i + 3 /\ (i + 3) - (i + 1) = 2  OBVIOUS
  <2>2. /\ Ord(All[i + 1]) + ((i + 2) - (i + 1)) < Size(sent, All[i + 1].b) =>
              All[i + 2].b = All[i + 1].b /\ Ord(All[i + 2]) = Ord(All[i + 1]) + ((i + 2) - (i + 1))
        /\ Ord(All[i + 1]) + ((i + 2) - (i + 1)) = Size(sent, All[i + 1].b) => Ord(All[i + 2]) = 0
    BY <1>2, <2>1 DEF Whole, Gapless
  <2>3. Ord(All[i + 1]) + ((i + 3) - (i + 1)) < Size(sent, All[i + 1].b) =>
              All[i + 3].b = All[i + 1].b /\ Ord(All[i + 3]) = Ord(All[i + 1]) + ((i + 3) - (i + 1))
    BY <1>2, <2>1 DEF Whole, Gapless
  <2> QED  BY <1>3, <2>1, <2>2, <2>3
<1>5. ASSUME HeaderValid(i) PROVE All[i + 1].b = Block(i) /\ Ord(All[i + 1]) = 0
  <2>1. All[i + 2].b = Block(i) /\ Ord(All[i + 2]) = 1  BY <1>5, HeaderFacts
  <2>2. o + 1 < z  BY <1>3, <1>4, <2>1
  <2> QED  BY <1>3, <1>4, <2>1, <2>2
<1>6. ASSUME o = 0 PROVE HeaderValid(i)
  <2>1. /\ All[i + 2].b = All[i + 1].b /\ Ord(All[i + 2]) = 1
        /\ All[i + 3].b = All[i + 1].b /\ Ord(All[i + 3]) = 2
    BY <1>3, <1>4, <1>6
  <2>2. All[i + 1] \in Units /\ All[i + 2] \in Units /\ All[i + 3] \in Units  BY <1>2, AllShape
  <2>3. ASSUME NEW u \in Units, u.i = 0 => u.k \in {"m", "c", "s"}
        PROVE  /\ Ord(u) = 0 => u.k = "m"
               /\ Ord(u) = 1 => u.k = "c"
               /\ Ord(u) = 2 => u.k = "s"
    BY <2>3 DEF Ord, Units
  <2>4. /\ All[i + 1].i = 0 => All[i + 1].k \in {"m", "c", "s"}
        /\ All[i + 2].i = 0 => All[i + 2].k \in {"m", "c", "s"}
        /\ All[i + 3].i = 0 => All[i + 3].k \in {"m", "c", "s"}
    BY <1>2 DEF Ordered, Genuine
  <2>5. All[i + 1].k = "m"  BY <1>3, <1>6, <2>2, <2>3, <2>4
  <2>6. All[i + 2].k = "c"  BY <2>1, <2>2, <2>3, <2>4
  <2>7. All[i + 3].k = "s"  BY <2>1, <2>2, <2>3, <2>4
  <2> QED  BY <1>2, <2>1, <2>5, <2>6, <2>7 DEF HeaderValid
<1> QED  BY <1>3, <1>5, <1>6

-----------------------------------------------------------------------------
(* process_available keeps n units fewer, and hands on nothing.              *)
LEMMA HoldStep ==
    ASSUME IInv, NEW n \in 0 .. Len(s.buf), NEW head \in Nat,
           s' = [s EXCEPT !.buf = SubSeq(s.buf, n + 1, Len(s.buf)), !.head = head],
           head + (Len(s.buf) - n) <= Cap,
           UNCHANGED <<wire, sent, lost, input, last, reported, missed, alarms>>,
           pc' \in {"idle", "copy", "mid", "last"}, pc' \in {"idle", "last"} => pc = "last",
           lost = 0 => /\ \A j \in 1 .. n : Ord(All[j]) # 0
                       /\ s.state = "BLOCK" => n = 0
                       /\ pc' = "idle" =>
                             \/ Len(s.buf) - n < HdrSize
                             \/ /\ Ord(All[n + 1]) = 0
                                /\ Len(s.buf) - n < Size(sent, All[n + 1].b)
    PROVE  IInv'
<1>0. Typed  BY DEF IInv
<1>1. /\ s'.buf = SubSeq(s.buf, n + 1, Len(s.buf)) /\ s'.head = head
      /\ s'.state = s.state /\ s'.haveSeq = s.haveSeq /\ s'.lastSeq = s.lastSeq
  BY <1>0 DEF Typed
<1>2. /\ All' = SubSeq(All, n + 1, Len(All)) /\ n \in 0 .. Len(All)
      /\ s'.buf \in Seq(Units) /\ Len(s'.buf) = Len(s.buf) - n
      /\ Len(All') = Len(All) - n
      /\ \A j \in 1 .. Len(All') : n + j \in 1 .. Len(All) /\ All'[j] = All[n + j]
  BY <1>0, <1>1, Drained
<1>3. /\ All \in Seq(Units) /\ Len(All) \in Nat /\ Len(s.buf) \in Nat
      /\ \A i \in 1 .. Len(All) : Ord(All[i]) \in Nat
  BY <1>0, AllShape
<1>4. Typed'
  <2>1. s' \in [buf : Seq(Units), head : Nat, state : {"SCAN", "BLOCK"}, haveSeq : BOOLEAN,
                lastSeq : 0 .. SeqRange - 1, good : 0 .. 2]
    BY <1>0, <1>1, <1>2 DEF Typed
  <2> QED  BY <1>0, <2>1 DEF Typed
<1>5. Room'  BY <1>1, <1>2 DEF Room
<1>6. NoInput'  BY DEF IInv, NoInput
<1>7. Counted'  BY <1>1 DEF IInv, Counted
<1>8. Newer'  BY <1>2 DEF IInv, Newer
<1>9. Ordered(All, sent)' /\ (Whole(All, sent) => Whole(All, sent)')
  <2>1. sent \in Seq(Lens) /\ Ordered(All, sent)  BY <1>0 DEF IInv, Typed
  <2>2. /\ Ordered(SubSeq(All, n + 1, Len(All)), sent)
        /\ Whole(All, sent) => Whole(SubSeq(All, n + 1, Len(All)), sent)
    BY <1>2, <1>3, <2>1, DropStream
  <2>3. sent' = sent  OBVIOUS
  <2> QED  BY <1>2, <2>2, <2>3
<1>10. ASSUME lost = 0 PROVE Undamaged'
  <2>1. Undamaged  BY <1>10 DEF IInv
  <2>2. Whole(All, sent)'  BY <1>9, <2>1 DEF Undamaged
  <2>3. Headers(All, sent, last)'
    <3> SUFFICES ASSUME NEW b \in 1 .. Len(sent), b > last
                 PROVE  \E j \in 1 .. Len(All') : All'[j].b = b /\ Ord(All'[j]) = 0
        BY DEF Headers
    <3>1. PICK j \in 1 .. Len(All) : All[j].b = b /\ Ord(All[j]) = 0
      BY <2>1 DEF Undamaged, Headers
    <3>2. j \notin 1 .. n  BY <1>10, <3>1
    <3>3. j - n \in 1 .. Len(All') /\ n + (j - n) = j
      <4>1. PICK a \in Nat : a = Len(All)  BY <1>3
      <4>2. j \in 1 .. a /\ n \in Nat /\ Len(All') = a - n  BY <1>2, <4>1
      <4> QED  BY <3>2, <4>2
    <3> QED  BY <1>2, <3>1, <3>3
  <2>4. Aligned'
    <3> SUFFICES ASSUME s.state = "BLOCK", Len(All') > 0
                 PROVE  All'[1].b = last + 1 /\ Ord(All'[1]) = 0
        BY <1>1 DEF Aligned
    <3>1. n = 0  BY <1>10
    <3>2. Len(All) > 0 /\ 1 \in 1 .. Len(All')  BY <1>2, <1>3, <3>1
    <3>3. All'[1] = All[1]  BY <1>2, <3>1, <3>2
    <3> QED  BY <2>1, <3>2, <3>3 DEF Undamaged, Aligned
  <2>5. Partial'
    <3> SUFFICES ASSUME pc' = "idle", ~(Len(s.buf) - n < HdrSize)
                 PROVE  Ord(All'[1]) = 0 /\ Len(s'.buf) < Size(sent, All'[1].b)
      BY <1>2 DEF Partial
    <3>1. Ord(All[n + 1]) = 0 /\ Len(s.buf) - n < Size(sent, All[n + 1].b)  BY <1>10
    <3>2. Len(s.buf) - n >= 3  BY <1>3 DEF HdrSize
    <3>3. n + 1 \in 1 .. Len(s.buf)  BY <1>3, <3>2
    <3>4. n + 1 \in 1 .. Len(All)  BY <1>0, <3>3, AllShape
    <3>5. 1 \in 1 .. Len(All')  BY <1>2, <1>3, <3>4
    <3>6. All'[1] = All[n + 1]  BY <1>2, <3>5
    <3> QED  BY <1>2, <3>1, <3>6
  <2> QED  BY <2>1, <2>2, <2>3, <2>4, <2>5 DEF Undamaged
<1>11. LossReported'  BY DEF IInv, LossReported
<1> QED  BY <1>4, <1>5, <1>6, <1>7, <1>8, <1>9, <1>10, <1>11 DEF IInv

(* A block is handed on whose header is at offset i.                         *)
LEMMA AcceptStep ==
    ASSUME IInv, NEW i \in 0 .. Len(s.buf) - HdrSize, HeaderValid(i),
           i + FullSize(i) <= Len(s.buf), AcceptBlock(i), pc \in {"mid", "last"},
           lost = 0 /\ s.state = "BLOCK" => i = 0
    PROVE  IInv'
<1>0. Typed /\ Ordered(All, sent)  BY DEF IInv
<1>1. PICK n \in 0 .. Len(s.buf), B \in 1 .. Len(sent), z \in Nat :
         /\ n = i + z /\ B = Block(i) /\ z = FullSize(i) /\ z >= 3
  <2>1. /\ Block(i) \in 1 .. Len(sent) /\ FullSize(i) \in Nat /\ FullSize(i) >= 3
    BY <1>0, HeaderFacts DEF HdrSize
  <2>2. Len(s.buf) \in Nat  BY <1>0, AllShape
  <2>3. i + FullSize(i) \in 0 .. Len(s.buf)  BY <2>1, <2>2
  <2> QED  BY <2>1, <2>3
<1>2. /\ z = Size(sent, B)
      /\ i + 3 \in 1 .. Len(All) /\ All[i + 3].b = B /\ Ord(All[i + 3]) = 2
  BY <1>0, <1>1, HeaderFacts
<1>3. /\ s' = [buf |-> SubSeq(s.buf, n + 1, Len(s.buf)), head |-> s.head + i + z,
               state |-> "BLOCK", haveSeq |-> TRUE, lastSeq |-> B % SeqRange,
               good |-> IF SeqJumps(i) \/ s.good = 0 THEN 1 ELSE 2]
      /\ last' = B /\ reported' = FALSE
      /\ missed' = (missed \/ (/\ last # 0 /\ B # last + 1
                               /\ ~reported /\ ~SeqJumps(i)
                               /\ B - last <= SeqRange))
      /\ alarms' = (alarms \/ SeqJumps(i))
      /\ UNCHANGED <<wire, sent, lost, input, pc>>
  BY <1>1 DEF AcceptBlock, DropFront
<1>4. /\ s'.buf = SubSeq(s.buf, n + 1, Len(s.buf)) /\ s'.head = s.head + i + z
      /\ s'.state = "BLOCK" /\ s'.haveSeq = TRUE /\ s'.lastSeq = B % SeqRange
      /\ s'.good \in 0 .. 2
  BY <1>3
<1>5. /\ All' = SubSeq(All, n + 1, Len(All)) /\ n \in 0 .. Len(All)
      /\ s'.buf \in Seq(Units) /\ Len(s'.buf) = Len(s.buf) - n
      /\ Len(All') = Len(All) - n
      /\ \A j \in 1 .. Len(All') : n + j \in 1 .. Len(All) /\ All'[j] = All[n + j]
  BY <1>0, <1>3, <1>4, Drained
<1>6. /\ All \in Seq(Units) /\ Len(All) \in Nat /\ Len(s.buf) \in Nat
      /\ \A j \in 1 .. Len(All) : Ord(All[j]) \in Nat /\ All[j].b \in Nat
  BY <1>0, AllShape
<1>7. Typed'
  <2>1. s' \in [buf : Seq(Units), head : Nat, state : {"SCAN", "BLOCK"}, haveSeq : BOOLEAN,
                lastSeq : 0 .. SeqRange - 1, good : 0 .. 2]
    <3>1. s.head + i + z \in Nat  BY <1>0 DEF Typed
    <3>2. B % SeqRange \in 0 .. SeqRange - 1  BY ConstantsAssumption
    <3>3. s'.good \in 0 .. 2  BY <1>4
    <3>4. (IF SeqJumps(i) \/ s.good = 0 THEN 1 ELSE 2) \in 0 .. 2  OBVIOUS
    <3> HIDE DEF SeqJumps
    <3> QED  BY <1>3, <1>4, <1>5, <3>1, <3>2, <3>4
  <2>2. last' \in Nat  BY <1>3
  <2>3. reported' \in BOOLEAN /\ missed' \in BOOLEAN /\ alarms' \in BOOLEAN
    BY <1>0, <1>3 DEF Typed
  <2> QED  BY <1>0, <1>3, <2>1, <2>2, <2>3 DEF Typed
<1>8. Room'
  <2>1. s.head + Len(s.buf) <= Cap /\ s.head \in Nat  BY <1>0 DEF IInv, Room, Typed
  <2>2. Cap \in Nat  BY ConstantsAssumption
  <2>3. PICK p \in Nat, h \in Nat : p = Len(s.buf) /\ h = s.head  BY <1>6, <2>1
  <2>4. /\ Len(s'.buf) = p - n /\ s'.head = h + i + z /\ h + p <= Cap
        /\ n = i + z /\ i \in Nat /\ n \in Nat
    <3>1. i \in Nat /\ n \in Nat  OBVIOUS
    <3> QED  BY <1>1, <1>4, <1>5, <2>1, <2>3, <3>1
  <2>5. h + i + z + (p - n) <= Cap
    <3>1. \A a, b, c, d, e \in Nat : a + b <= e => a + c + d + (b - (c + d)) <= e  OBVIOUS
    <3>2. h + i + z + (p - (i + z)) <= Cap  BY <2>2, <2>4, <3>1
    <3> QED  BY <2>4, <3>2
  <2> QED  BY <2>4, <2>5 DEF Room
<1>9. NoInput'  BY <1>3 DEF IInv, NoInput
<1>10. Counted'  BY <1>3, <1>4 DEF Counted
<1>11. Newer'
  <2> SUFFICES ASSUME NEW j \in 1 .. Len(All') PROVE All'[j].b > B
      BY <1>3 DEF Newer
  <2>1. j \in Nat /\ j >= 1 /\ n + j \in 1 .. Len(All) /\ All'[j] = All[n + j]  BY <1>5, <1>6
  <2>2. i + 3 < n + j /\ (n + j) - (i + 3) = z + j - 3
    <3>1. \A a, b, c \in Nat : b >= 3 /\ c >= 1 =>
             a + 3 < (a + b) + c /\ ((a + b) + c) - (a + 3) = b + c - 3
      OBVIOUS
    <3>2. i \in Nat /\ z >= 3 /\ n = i + z  BY <1>1
    <3> QED  BY <2>1, <3>1, <3>2
  <2>3. \/ All[i + 3].b < All[n + j].b
        \/ /\ All[i + 3].b = All[n + j].b
           /\ Ord(All[n + j]) - Ord(All[i + 3]) >= (n + j) - (i + 3)
    BY <1>0, <1>2, <2>1, <2>2 DEF Ordered, Sorted
  <2>4. All[n + j].b = B => Ord(All[n + j]) < z  BY <1>0, <1>2, <2>1 DEF Ordered, Genuine
  <2>5. Ord(All[n + j]) \in Nat /\ All[n + j].b \in Nat  BY <1>6, <2>1
  <2>6. ~(Ord(All[n + j]) < z /\ Ord(All[n + j]) - 2 >= z + j - 3)  BY <2>1, <2>5
  <2> QED  BY <1>2, <2>1, <2>2, <2>3, <2>4, <2>5, <2>6
<1>12. Ordered(All, sent)' /\ (Whole(All, sent) => Whole(All, sent)')
  <2>1. sent \in Seq(Lens)  BY <1>0 DEF Typed
  <2>2. /\ Ordered(SubSeq(All, n + 1, Len(All)), sent)
        /\ Whole(All, sent) => Whole(SubSeq(All, n + 1, Len(All)), sent)
    BY <1>0, <1>5, <1>6, <2>1, DropStream
  <2>3. sent' = sent  BY <1>3
  <2> QED  BY <1>5, <2>2, <2>3
<1>13. LossReported'
  <2> SUFFICES ASSUME last # 0, B # last + 1, ~reported, ~SeqJumps(i), B - last <= SeqRange
               PROVE  FALSE
    <3>1. ~missed  BY DEF IInv, LossReported
    <3> QED  BY <1>3, <3>1 DEF LossReported
  <2>1. s.haveSeq /\ s.lastSeq = last % SeqRange  BY DEF IInv, Counted
  <2>2. B > last  BY <1>2 DEF IInv, Newer
  <2>3. B % SeqRange = ((last % SeqRange) + 1) % SeqRange  BY <1>1, <2>1 DEF SeqJumps
  <2>4. last \in Nat /\ B \in Nat /\ SeqRange \in Nat \ {0}
    BY <1>0, ConstantsAssumption DEF Typed
  <2>5. B = last + 1  BY <2>2, <2>3, <2>4, NextInRange
  <2> QED  BY <2>5
<1>14. ASSUME lost = 0 PROVE Undamaged'
  <2>1. Undamaged  BY <1>14 DEF IInv
  <2>2. Whole(All, sent) /\ Whole(All, sent)'  BY <1>12, <2>1 DEF Undamaged
  <2>3. i + 1 \in 1 .. Len(All) /\ All[i + 1].b = B /\ Ord(All[i + 1]) = 0
    <3>1. i + 1 \in 1 .. Len(All)  BY <1>0, HeaderFacts
    <3>2. All[i + 1].b = B /\ Ord(All[i + 1]) = 0  BY <1>0, <1>1, <2>2, HeaderWhole
    <3> QED  BY <3>1, <3>2
  <2>4. Headers(All, sent, last)'
    <3> SUFFICES ASSUME NEW b \in 1 .. Len(sent), b > B
                 PROVE  \E j \in 1 .. Len(All') : All'[j].b = b /\ Ord(All'[j]) = 0
        BY <1>3 DEF Headers
    <3>1. b > last
      <4>1. last = 0 \/ B > last  BY <1>2 DEF IInv, Newer
      <4>2. last \in Nat  BY <1>0 DEF Typed
      <4> QED  BY <4>1, <4>2
    <3>2. PICK j \in 1 .. Len(All) : All[j].b = b /\ Ord(All[j]) = 0
      BY <2>1, <3>1 DEF Undamaged, Headers
    <3>3. j > i + 1
      <4>1. j # i + 1  BY <2>3, <3>2
      <4>2. ~(j < i + 1)
        <5>1. j < i + 1 => All[j].b <= All[i + 1].b  BY <1>0, <1>6, <2>3 DEF Ordered, Sorted
        <5> QED  BY <2>3, <3>2, <5>1
      <4> QED  BY <1>6, <4>1, <4>2
    <3>4. ~(j <= n)
      <4>1. 0 + (j - (i + 1)) < z => All[j].b = B
        BY <1>2, <2>2, <2>3, <3>3 DEF Whole, Gapless
      <4>2. j <= n => 0 + (j - (i + 1)) < z  BY <1>1, <1>6
      <4> QED  BY <3>2, <4>1, <4>2
    <3>5. j - n \in 1 .. Len(All') /\ n + (j - n) = j
      <4>1. PICK a \in Nat : a = Len(All)  BY <1>6
      <4>2. j \in 1 .. a /\ n \in Nat /\ Len(All') = a - n  BY <1>5, <4>1
      <4> QED  BY <3>4, <4>2
    <3> QED  BY <1>5, <3>2, <3>5
  <2>5. Aligned'
    <3> SUFFICES ASSUME Len(All') > 0 PROVE All'[1].b = B + 1 /\ Ord(All'[1]) = 0
        BY <1>3 DEF Aligned
    <3>1. 1 \in 1 .. Len(All')  BY <1>5, <1>6
    <3>2. n + 1 \in 1 .. Len(All) /\ All'[1] = All[n + 1]  BY <1>5, <3>1
    <3>3. i + 1 < n + 1 /\ 0 + ((n + 1) - (i + 1)) = z  BY <1>1
    <3>4. All[n + 1].b = All[i + 1].b + 1 /\ Ord(All[n + 1]) = 0
      BY <1>2, <2>2, <2>3, <3>2, <3>3 DEF Whole, Gapless
    <3> QED  BY <2>3, <3>2, <3>4
  <2>6. Partial'  BY <1>3 DEF Partial
  <2>7. ~alarms'
    <3>1. ~SeqJumps(i)
      <4> SUFFICES ASSUME s.haveSeq PROVE Block(i) % SeqRange = (s.lastSeq + 1) % SeqRange
          BY DEF SeqJumps
      <4>1. s.state = "BLOCK" /\ s.lastSeq = last % SeqRange  BY DEF IInv, Counted
      <4>2. i = 0  BY <1>14, <4>1
      <4>3. Len(All) > 0 /\ All[1].b = last + 1
        <5>1. Len(All) > 0  BY <1>6, <2>3, <4>2
        <5> QED  BY <2>1, <4>1, <5>1 DEF Undamaged, Aligned
      <4>4. B = last + 1  BY <2>3, <4>2, <4>3
      <4>5. (last + 1) % SeqRange = ((last % SeqRange) + 1) % SeqRange
        <5>1. last \in Nat /\ SeqRange \in Nat \ {0}  BY <1>0, ConstantsAssumption DEF Typed
        <5> QED  BY <5>1, NextSequence
      <4> QED  BY <1>1, <4>1, <4>4, <4>5
    <3> QED  BY <1>3, <2>1, <3>1 DEF Undamaged
  <2> QED  BY <2>2, <2>4, <2>5, <2>6, <2>7 DEF Undamaged
<1> QED  BY <1>3, <1>7, <1>8, <1>9, <1>10, <1>11, <1>12, <1>13, <1>14 DEF IInv

-----------------------------------------------------------------------------
(* process_available.                                                        *)

(* It returns, and keeps everything.                                         *)
LEMMA ReturnStep ==
    ASSUME IInv, pc \in {"mid", "last"}, Return(s),
           lost = 0 => \/ Len(s.buf) < HdrSize
                       \/ Ord(All[1]) = 0 /\ Len(s.buf) < Size(sent, All[1].b)
    PROVE  IInv'
<1>0. Typed  BY DEF IInv
<1>1. s.buf \in Seq(Units) /\ Len(s.buf) \in Nat /\ s.head \in Nat  BY <1>0 DEF Typed
<1>2. PICK h \in Nat : h = (IF pc = "mid" THEN 0 ELSE s.head)  BY <1>1
<1>3. SubSeq(s.buf, 0 + 1, Len(s.buf)) = s.buf
  <2>1. SubSeq(s.buf, 1, Len(s.buf)) = s.buf  BY <1>1, SubSeqFull
  <2> QED  BY <2>1
<1>4. s' = [s EXCEPT !.buf = s.buf, !.head = h]
  <2>1. s' = IF pc = "mid" THEN [s EXCEPT !.head = 0] ELSE s  BY DEF Return
  <2>2. s = [s EXCEPT !.buf = s.buf, !.head = s.head]  BY <1>0 DEF Typed
  <2>3. [s EXCEPT !.head = 0] = [s EXCEPT !.buf = s.buf, !.head = 0]  BY <1>0 DEF Typed
  <2> QED  BY <1>2, <2>1, <2>2, <2>3
<1>5. s' = [s EXCEPT !.buf = SubSeq(s.buf, 0 + 1, Len(s.buf)), !.head = h]  BY <1>3, <1>4
<1>6. h + (Len(s.buf) - 0) <= Cap
  <2>1. s.head + Len(s.buf) <= Cap /\ Cap \in Nat  BY ConstantsAssumption DEF IInv, Room
  <2> QED  BY <1>1, <1>2, <2>1
<1>7. /\ UNCHANGED <<wire, sent, lost, input, last, reported, missed, alarms>>
      /\ pc' \in {"idle", "copy", "mid", "last"} /\ (pc' \in {"idle", "last"} => pc = "last")
  BY DEF Return
<1>8. lost = 0 => /\ \A j \in 1 .. 0 : Ord(All[j]) # 0
                  /\ s.state = "BLOCK" => 0 = 0
                  /\ pc' = "idle" =>
                        \/ Len(s.buf) - 0 < HdrSize
                        \/ /\ Ord(All[0 + 1]) = 0
                           /\ Len(s.buf) - 0 < Size(sent, All[0 + 1].b)
  <2>1. Len(s.buf) - 0 = Len(s.buf) /\ 0 + 1 = 1 /\ \A j \in 1 .. 0 : FALSE  BY <1>1
  <2> QED  BY <2>1
<1>9. 0 \in 0 .. Len(s.buf)  BY <1>1
<1> QED  BY <1>2, <1>5, <1>6, <1>7, <1>8, <1>9, HoldStep

(* It returns, and keeps what begins at offset n.                            *)
LEMMA HoldAtStep ==
    ASSUME IInv, pc \in {"mid", "last"}, s.state = "SCAN", NEW n \in 0 .. Len(s.buf), HoldAt(n),
           lost = 0 => /\ \A j \in 1 .. n : Ord(All[j]) # 0
                       /\ \/ Len(s.buf) - n < HdrSize
                          \/ /\ Ord(All[n + 1]) = 0
                             /\ Len(s.buf) - n < Size(sent, All[n + 1].b)
    PROVE  IInv'
<1>0. Typed  BY DEF IInv
<1>1. Len(s.buf) \in Nat /\ s.head \in Nat  BY <1>0 DEF Typed
<1>2. s' = [s EXCEPT !.buf = SubSeq(s.buf, n + 1, Len(s.buf)), !.head = 0]
  <2> DEFINE t == [s EXCEPT !.buf = SubSeq(s.buf, n + 1, Len(s.buf)), !.head = 0]
  <2>1. s' = IF pc = "mid" THEN [t EXCEPT !.head = 0] ELSE t  BY DEF HoldAt, Return, DropFront
  <2>2. [t EXCEPT !.head = 0] = t  BY <1>0 DEF Typed
  <2> QED  BY <2>1, <2>2
<1>3. 0 + (Len(s.buf) - n) <= Cap
  <2>1. s.head + Len(s.buf) <= Cap /\ Cap \in Nat  BY ConstantsAssumption DEF IInv, Room
  <2> QED  BY <1>1, <2>1
<1>4. /\ UNCHANGED <<wire, sent, lost, input, last, reported, missed, alarms>>
      /\ pc' \in {"idle", "copy", "mid", "last"} /\ (pc' \in {"idle", "last"} => pc = "last")
  BY DEF HoldAt, Return
<1>5. 0 \in Nat /\ s.state # "BLOCK"  OBVIOUS
<1> QED  BY <1>2, <1>3, <1>4, <1>5, HoldStep

(* rsync_cb is called: the stream was not undamaged.                         *)
LEMMA ResyncStep == ASSUME IInv, lost # 0, Resync PROVE IInv'
<1>0. Typed  BY DEF IInv
<1>1. /\ s' = [s EXCEPT !.haveSeq = FALSE, !.good = 0, !.state = "SCAN"]
      /\ reported' = TRUE /\ alarms' = TRUE
      /\ UNCHANGED <<wire, sent, lost, input, pc, last, missed>>
  BY DEF Resync
<1>2. /\ s'.buf = s.buf /\ s'.head = s.head /\ s'.state = "SCAN" /\ s'.haveSeq = FALSE
      /\ s'.lastSeq = s.lastSeq
  BY <1>0, <1>1 DEF Typed
<1>3. All' = All  BY <1>1, <1>2 DEF All
<1>4. Typed'
  <2>1. s' \in [buf : Seq(Units), head : Nat, state : {"SCAN", "BLOCK"}, haveSeq : BOOLEAN,
                lastSeq : 0 .. SeqRange - 1, good : 0 .. 2]
    <3>1. /\ s.buf \in Seq(Units) /\ s.head \in Nat /\ s.lastSeq \in 0 .. SeqRange - 1
          /\ s = [buf |-> s.buf, head |-> s.head, state |-> s.state, haveSeq |-> s.haveSeq,
                  lastSeq |-> s.lastSeq, good |-> s.good]
      BY <1>0 DEF Typed
    <3>2. s' = [buf |-> s.buf, head |-> s.head, state |-> "SCAN", haveSeq |-> FALSE,
                lastSeq |-> s.lastSeq, good |-> 0]
      BY <1>1, <3>1
    <3> QED  BY <3>1, <3>2
  <2> QED  BY <1>0, <1>1, <2>1 DEF Typed
<1>5. Room' /\ NoInput' /\ Counted'  BY <1>1, <1>2 DEF IInv, Room, NoInput, Counted
<1>6. Newer' /\ Ordered(All, sent)' /\ LossReported'
  <2>1. Newer'  BY <1>1, <1>3 DEF IInv, Newer
  <2>2. Ordered(All, sent) /\ sent' = sent  BY <1>1 DEF IInv
  <2>3. Ordered(All, sent)'  BY <1>3, <2>2
  <2> QED  BY <1>1, <2>1, <2>3 DEF IInv, LossReported
<1> QED  BY <1>1, <1>4, <1>5, <1>6 DEF IInv

LEMMA BlockIncompleteStep == ASSUME IInv, BlockIncomplete PROVE IInv'
<1>0. Typed /\ Ordered(All, sent)  BY DEF IInv
<1>1. /\ HeaderValid(0) /\ Len(s.buf) < FullSize(0) /\ pc \in {"mid", "last"}
      /\ Len(s.buf) >= HdrSize
      /\ IF FullSize(0) <= Cap THEN Return(s) ELSE Resync
  BY DEF BlockIncomplete, InBlock, Processing
<1>2. 0 \in 0 .. Len(s.buf) - HdrSize
  <2>1. Len(s.buf) \in Nat  BY <1>0 DEF Typed
  <2> QED  BY <1>1, <2>1 DEF HdrSize
<1>3. FullSize(0) <= Cap /\ FullSize(0) = Size(sent, Block(0))  BY <1>0, <1>1, <1>2, HeaderFacts
<1>4. ASSUME lost = 0 PROVE Ord(All[1]) = 0 /\ Len(s.buf) < Size(sent, All[1].b)
  <2>1. Whole(All, sent)  BY <1>4 DEF IInv, Undamaged
  <2>2. All[0 + 1].b = Block(0) /\ Ord(All[0 + 1]) = 0  BY <1>0, <1>1, <1>2, <2>1, HeaderWhole
  <2> QED  BY <1>1, <1>3, <2>2
<1> QED  BY <1>1, <1>3, <1>4, ReturnStep

LEMMA BlockInvalidStep == ASSUME IInv, BlockInvalid PROVE IInv'
<1>0. Typed /\ Ordered(All, sent)  BY DEF IInv
<1>1. /\ ~HeaderValid(0) /\ s.state = "BLOCK" /\ Len(s.buf) >= HdrSize /\ Resync
  BY DEF BlockInvalid, InBlock, Processing
<1>2. 0 \in 0 .. Len(s.buf) - HdrSize /\ Len(All) > 0
  <2>1. Len(s.buf) \in Nat /\ Len(All) \in Nat /\ Len(s.buf) <= Len(All)  BY <1>0, AllShape
  <2> QED  BY <1>1, <2>1 DEF HdrSize
<1>3. ASSUME lost = 0 PROVE FALSE
  <2>1. Whole(All, sent) /\ Aligned  BY <1>3 DEF IInv, Undamaged
  <2>2. Ord(All[0 + 1]) = 0  BY <1>1, <1>2, <2>1 DEF Aligned
  <2> QED  BY <1>0, <1>1, <1>2, <2>1, <2>2, HeaderWhole
<1> QED  BY <1>1, <1>3, ResyncStep

LEMMA BlockAcceptStep == ASSUME IInv, BlockAccept PROVE IInv'
<1>0. Typed  BY DEF IInv
<1>1. /\ HeaderValid(0) /\ Len(s.buf) >= FullSize(0) /\ pc \in {"mid", "last"}
      /\ Len(s.buf) >= HdrSize /\ AcceptBlock(0)
  BY DEF BlockAccept, InBlock, Processing
<1>2. 0 \in 0 .. Len(s.buf) - HdrSize
  <2>1. Len(s.buf) \in Nat  BY <1>0 DEF Typed
  <2> QED  BY <1>1, <2>1 DEF HdrSize
<1>3. FullSize(0) \in Nat  BY <1>0, <1>1, <1>2, HeaderFacts DEF IInv
<1>4. 0 + FullSize(0) <= Len(s.buf)
  <2>1. Len(s.buf) \in Nat  BY <1>0 DEF Typed
  <2> QED  BY <1>1, <1>3, <2>1
<1> QED  BY <1>1, <1>2, <1>4, AcceptStep

(* Wherever a block begins in the staging buffer, the scan sees a magic.     *)
LEMMA ScanSees ==
    ASSUME Typed, Ordered(All, sent), NEW j \in 1 .. Len(s.buf) - 1, Ord(All[j]) = 0
    PROVE  j - 1 \in Candidates
<1>1. Len(s.buf) \in Nat  BY DEF Typed
<1>2. j \in 1 .. Len(s.buf) /\ j - 1 \in 0 .. Len(s.buf) - 2 /\ (j - 1) + 1 = j  BY <1>1
<1>3. All[j] = s.buf[j] /\ j \in 1 .. Len(All)  BY <1>2, AllShape
<1>4. All[j] \in Units  BY <1>3, AllShape
<1>5. All[j].i = 0 => All[j].k \in {"m", "c", "s"}  BY <1>3 DEF Ordered, Genuine
<1>6. All[j].k = "m"  BY <1>4, <1>5 DEF Ord, Units
<1> QED  BY <1>2, <1>3, <1>6 DEF Candidates, Window

(* No block begins before the first magic.                                   *)
LEMMA NoneBefore ==
    ASSUME Typed, Ordered(All, sent), Candidates # {}
    PROVE  /\ Found \in 0 .. Len(s.buf) - 2 /\ Found \in 0 .. Len(s.buf)
           /\ \A j \in 1 .. Found : Ord(All[j]) # 0
<1>1. Len(s.buf) \in Nat  BY DEF Typed
<1>2. PICK f \in 0 .. Len(s.buf) - 2 : f = Found /\ \A j \in Candidates : f <= j
  BY FoundFirst DEF Window
<1>3. ASSUME NEW j \in 1 .. f, Ord(All[j]) = 0 PROVE FALSE
  <2>1. j \in 1 .. Len(s.buf) - 1  BY <1>1, <1>2
  <2>2. j - 1 \in Candidates  BY <1>3, <2>1, ScanSees
  <2>3. f <= j - 1  BY <1>2, <2>2
  <2> QED  BY <1>1, <2>3
<1>4. f \in 0 .. Len(s.buf)  BY <1>1, <1>2
<1> QED  BY <1>2, <1>3, <1>4

LEMMA ScanNothingStep == ASSUME IInv, ScanNothing PROVE IInv'
<1>0. Typed /\ Ordered(All, sent)  BY DEF IInv
<1>1. /\ Candidates = {} /\ s.state = "SCAN" /\ pc \in {"mid", "last"}
      /\ Len(s.buf) >= 3 /\ HoldAt(Len(s.buf) - 1)
  BY DEF ScanNothing, Scanning, Processing, HdrSize, KeepTail, Window
<1>2. Len(s.buf) \in Nat  BY <1>0 DEF Typed
<1>3. PICK n \in 0 .. Len(s.buf) : n = Len(s.buf) - 1  BY <1>1, <1>2
<1>4. HoldAt(n) /\ Len(s.buf) - n < HdrSize
  <2>1. Len(s.buf) - n = 1  BY <1>2, <1>3
  <2> QED  BY <1>1, <1>3, <2>1 DEF HdrSize
<1>5. \A j \in 1 .. n : Ord(All[j]) # 0
  <2>1. \A j \in 1 .. n : j \in 1 .. Len(s.buf) - 1  BY <1>3
  <2> QED  BY <1>0, <1>1, <2>1, ScanSees
<1> QED  BY <1>1, <1>4, <1>5, HoldAtStep

LEMMA ScanPartHeaderStep == ASSUME IInv, ScanPartHeader PROVE IInv'
<1>0. Typed /\ Ordered(All, sent)  BY DEF IInv
<1>1. /\ Candidates # {} /\ s.state = "SCAN" /\ pc \in {"mid", "last"}
      /\ Len(s.buf) - Found < HdrSize /\ HoldAt(Found)
  BY DEF ScanPartHeader, Scanning, Processing
<1>2. Found \in 0 .. Len(s.buf) /\ \A j \in 1 .. Found : Ord(All[j]) # 0  BY <1>0, <1>1, NoneBefore
<1> QED  BY <1>1, <1>2, HoldAtStep

(* What the scan found is a header within the staging buffer.                *)
LEMMA FoundHeader ==
    ASSUME Typed, Ordered(All, sent), Candidates # {}, Len(s.buf) - Found >= HdrSize
    PROVE  Found \in 0 .. Len(s.buf) - HdrSize
<1>1. Found \in 0 .. Len(s.buf)  BY NoneBefore
<1>2. Len(s.buf) \in Nat  BY DEF Typed
<1>3. PICK f \in Nat : f = Found  BY <1>1
<1>4. Len(s.buf) - f >= 3  BY <1>3 DEF HdrSize
<1>5. f \in 0 .. Len(s.buf) - 3  BY <1>2, <1>4
<1> QED  BY <1>3, <1>5 DEF HdrSize

LEMMA ScanPartBlockStep == ASSUME IInv, ScanPartBlock PROVE IInv'
<1>0. Typed /\ Ordered(All, sent)  BY DEF IInv
<1>1. /\ Candidates # {} /\ s.state = "SCAN" /\ pc \in {"mid", "last"}
      /\ Len(s.buf) - Found >= HdrSize
      /\ HeaderValid(Found) /\ Len(s.buf) - Found < FullSize(Found) /\ HoldAt(Found)
  BY DEF ScanPartBlock, Scanning, Processing
<1>2. Found \in 0 .. Len(s.buf) /\ \A j \in 1 .. Found : Ord(All[j]) # 0  BY <1>0, <1>1, NoneBefore
<1>3. Found \in 0 .. Len(s.buf) - HdrSize  BY <1>0, <1>1, FoundHeader
<1>4. FullSize(Found) = Size(sent, Block(Found))  BY <1>0, <1>1, <1>3, HeaderFacts
<1>5. ASSUME lost = 0
      PROVE  Ord(All[Found + 1]) = 0 /\ Len(s.buf) - Found < Size(sent, All[Found + 1].b)
  <2>1. Whole(All, sent)  BY <1>5 DEF IInv, Undamaged
  <2>2. All[Found + 1].b = Block(Found) /\ Ord(All[Found + 1]) = 0
    BY <1>0, <1>1, <1>3, <2>1, HeaderWhole
  <2> QED  BY <1>1, <1>4, <2>2
<1> QED  BY <1>1, <1>2, <1>5, HoldAtStep

LEMMA ScanBogusStep == ASSUME IInv, ScanBogus PROVE IInv'
<1>0. Typed /\ Ordered(All, sent)  BY DEF IInv
<1>1. /\ Candidates # {} /\ s.state = "SCAN" /\ pc \in {"mid", "last"}
      /\ Len(s.buf) - Found >= HdrSize /\ ~HeaderValid(Found)
      /\ s' = [s EXCEPT !.buf = SubSeq(s.buf, (Found + 1) + 1, Len(s.buf)),
                        !.head = s.head + Found + 1]
      /\ UNCHANGED <<wire, sent, lost, input, pc, last, reported, missed, alarms>>
  BY DEF ScanBogus, Scanning, Processing, DropFront
<1>2. Found \in 0 .. Len(s.buf) - 2 /\ \A j \in 1 .. Found : Ord(All[j]) # 0
  BY <1>0, <1>1, NoneBefore
<1>3. Found \in 0 .. Len(s.buf) - HdrSize  BY <1>0, <1>1, FoundHeader
<1>4. Len(s.buf) \in Nat /\ s.head \in Nat  BY <1>0 DEF Typed
<1>5. PICK f \in Nat, n \in 0 .. Len(s.buf), h \in Nat :
         f = Found /\ n = f + 1 /\ h = s.head + Found + 1
  <2>1. PICK f \in Nat : f = Found /\ f \in 0 .. Len(s.buf) - 2  BY <1>2
  <2>2. f + 1 \in 0 .. Len(s.buf) /\ s.head + f + 1 \in Nat  BY <1>4, <2>1
  <2> QED  BY <2>1, <2>2
<1>6. s' = [s EXCEPT !.buf = SubSeq(s.buf, n + 1, Len(s.buf)), !.head = h]  BY <1>1, <1>5
<1>7. h + (Len(s.buf) - n) <= Cap
  <2>1. s.head + Len(s.buf) <= Cap /\ Cap \in Nat  BY ConstantsAssumption DEF IInv, Room
  <2>2. h = s.head + f + 1 /\ n = f + 1  BY <1>5
  <2> QED  BY <1>4, <2>1, <2>2
<1>8. ASSUME lost = 0, NEW j \in 1 .. n PROVE Ord(All[j]) # 0
  <2>1. CASE j \in 1 .. f  BY <1>2, <1>5, <2>1
  <2>2. CASE j = f + 1
    <3>1. Whole(All, sent)  BY <1>8 DEF IInv, Undamaged
    <3>2. Ord(All[Found + 1]) # 0  BY <1>0, <1>1, <1>3, <3>1, HeaderWhole
    <3> QED  BY <1>5, <2>2, <3>2
  <2> QED  BY <1>5, <2>1, <2>2
<1>9. /\ pc' \in {"idle", "copy", "mid", "last"} /\ (pc' \in {"idle", "last"} => pc = "last")
      /\ pc' # "idle" /\ s.state # "BLOCK"
      /\ UNCHANGED <<wire, sent, lost, input, last, reported, missed, alarms>>
  BY <1>1
<1> QED  BY <1>6, <1>7, <1>8, <1>9, HoldStep

LEMMA ScanAcceptStep == ASSUME IInv, ScanAccept PROVE IInv'
<1>0. Typed /\ Ordered(All, sent)  BY DEF IInv
<1>1. /\ Candidates # {} /\ s.state = "SCAN" /\ pc \in {"mid", "last"}
      /\ Len(s.buf) - Found >= HdrSize
      /\ HeaderValid(Found) /\ Len(s.buf) - Found >= FullSize(Found) /\ AcceptBlock(Found)
  BY DEF ScanAccept, Scanning, Processing
<1>2. Found \in 0 .. Len(s.buf) - HdrSize  BY <1>0, <1>1, FoundHeader
<1>3. Found \in 0 .. Len(s.buf) /\ Len(s.buf) \in Nat  BY <1>0, <1>1, NoneBefore DEF Typed
<1>4. FullSize(Found) \in Nat  BY <1>0, <1>1, <1>2, HeaderFacts
<1>5. Found + FullSize(Found) <= Len(s.buf)
  <2>1. PICK f \in Nat, z \in Nat : f = Found /\ z = FullSize(Found)  BY <1>3, <1>4
  <2>2. Len(s.buf) - f >= z  BY <1>1, <2>1
  <2>3. f + z <= Len(s.buf)  BY <1>3, <2>2
  <2> QED  BY <2>1, <2>3
<1>6. s.state # "BLOCK"  BY <1>1
<1> QED  BY <1>1, <1>2, <1>5, <1>6, AcceptStep

LEMMA ExhaustedStep == ASSUME IInv, Exhausted PROVE IInv'
BY ReturnStep DEF Exhausted

LEMMA ProcessStep == ASSUME IInv, Process PROVE IInv'
<1>1. CASE BlockIncomplete  BY <1>1, BlockIncompleteStep
<1>2. CASE BlockInvalid  BY <1>2, BlockInvalidStep
<1>3. CASE BlockAccept  BY <1>3, BlockAcceptStep
<1>4. CASE ScanNothing  BY <1>4, ScanNothingStep
<1>5. CASE ScanPartHeader  BY <1>5, ScanPartHeaderStep
<1>6. CASE ScanBogus  BY <1>6, ScanBogusStep
<1>7. CASE ScanPartBlock  BY <1>7, ScanPartBlockStep
<1>8. CASE ScanAccept  BY <1>8, ScanAcceptStep
<1>9. CASE Exhausted  BY <1>9, ExhaustedStep
<1> QED  BY <1>1, <1>2, <1>3, <1>4, <1>5, <1>6, <1>7, <1>8, <1>9 DEF Process

-----------------------------------------------------------------------------
(* The device, the link, and the copying of a transfer.                      *)

LEMMA Associative ==
    \A x, y, z \in Seq(Units) : x \o (y \o z) = (x \o y) \o z
<1> SUFFICES ASSUME NEW x \in Seq(Units), NEW y \in Seq(Units), NEW z \in Seq(Units)
             PROVE  (x \o y) \o z = x \o (y \o z)
    OBVIOUS
<1> QED  BY ConcatAssociative

LEMMA Idle == ASSUME Typed, input = <<>> PROVE All = s.buf \o wire
<1>1. wire \in Seq(Units)  BY DEF Typed
<1>2. <<>> \o wire = wire  BY <1>1, ConcatEmptySeq
<1> QED  BY <1>2 DEF All

LEMMA DeviceSendStep == ASSUME IInv, DeviceSend PROVE IInv'
<1>0. Typed /\ Ordered(All, sent)  BY DEF IInv
<1>1. PICK l \in Lens : /\ sent' = Append(sent, l)
                        /\ wire' = wire \o BlockUnits(Len(sent) + 1, l)
  BY DEF DeviceSend
<1>2. pc = "idle" /\ Len(sent) < MaxBlocks /\ input = <<>>  BY DEF DeviceSend, IInv, NoInput
<1>3. UNCHANGED <<lost, input, pc, s, last, reported, missed, alarms>>  BY DEF DeviceSend
<1>4. PICK n \in Nat : n = Len(sent)  BY <1>0 DEF Typed
<1> DEFINE c == BlockUnits(Len(sent) + 1, l)
<1>5. c \in Seq(Units)
  <2>1. Len(sent) + 1 \in Nat \ {0}  BY <1>4
  <2> QED  BY <2>1, BlockShape
<1> HIDE DEF c
<1>6. wire' \in Seq(Units) /\ All' = All \o c
  <2>1. s.buf \in Seq(Units) /\ wire \in Seq(Units)  BY <1>0 DEF Typed
  <2>2. wire \o c \in Seq(Units)  BY <1>5, <2>1, ConcatProperties
  <2>3. <<>> \o (wire \o c) = wire \o c  BY <2>2, ConcatEmptySeq
  <2>4. All' = s.buf \o (wire \o c)  BY <1>1, <1>2, <1>3, <2>3 DEF All, c
  <2>5. s.buf \o (wire \o c) = (s.buf \o wire) \o c  BY <1>5, <2>1, Associative
  <2>6. All = s.buf \o wire  BY <1>0, <1>2, Idle
  <2> QED  BY <1>1, <2>2, <2>4, <2>5, <2>6 DEF c
<1>7. PICK a \in Nat : a = Len(All) /\ All \in Seq(Units)  BY <1>0, AllShape
<1>8. /\ All' \in Seq(Units) /\ Ordered(All', sent') /\ sent' \in Seq(Lens) /\ Len(sent') = n + 1
      /\ Whole(All, sent) => Whole(All', sent')
      /\ \A m \in Nat : Headers(All, sent, m) => Headers(All', sent', m)
      /\ Len(All') >= a /\ \A j \in 1 .. a : All'[j] = All[j]
      /\ \A j \in 1 .. Len(All') : j > a => All'[j].b = n + 1
      /\ Len(All') > a /\ Ord(All'[a + 1]) = 0
      /\ \A b \in 0 .. n : Size(sent', b) = Size(sent, b)
  <2>1. sent \in Seq(Lens)  BY <1>0 DEF Typed
  <2> DEFINE v == All \o c
             sf == Append(sent, l)
  <2>2. /\ v \in Seq(Units) /\ Ordered(v, sf) /\ sf \in Seq(Lens) /\ Len(sf) = Len(sent) + 1
        /\ Whole(All, sent) => Whole(v, sf)
        /\ \A m \in Nat : Headers(All, sent, m) => Headers(v, sf, m)
        /\ Len(v) >= Len(All) /\ \A j \in 1 .. Len(All) : v[j] = All[j]
        /\ \A j \in 1 .. Len(v) : j > Len(All) => v[j].b = Len(sent) + 1
        /\ Len(v) > Len(All) /\ Ord(v[Len(All) + 1]) = 0
        /\ \A b \in 0 .. Len(sent) : Size(sf, b) = Size(sent, b)
    BY <1>0, <1>7, <2>1, AppendStream DEF c
  <2>3. v = All' /\ sf = sent'  BY <1>1, <1>6
  <2> HIDE DEF v, sf
  <2> QED  BY <1>4, <1>7, <2>2, <2>3
<1>9. last \in Nat /\ last <= n  BY <1>0, <1>4 DEF IInv, Counted, Typed
<1>10. Typed'
  <2>1. Len(sent') <= MaxBlocks
    <3>1. MaxBlocks \in Nat  BY ConstantsAssumption
    <3> QED  BY <1>2, <1>4, <1>8, <3>1
  <2> QED  BY <1>0, <1>3, <1>6, <1>8, <2>1 DEF Typed
<1>11. Room' /\ NoInput' /\ LossReported'  BY <1>3 DEF IInv, Room, NoInput, LossReported
<1>12. Counted'
  <2>1. last' <= Len(sent')  BY <1>3, <1>8, <1>9
  <2> QED  BY <1>3, <2>1 DEF IInv, Counted
<1>13. Newer'
  <2> SUFFICES ASSUME last # 0, NEW j \in 1 .. Len(All') PROVE All'[j].b > last
      BY <1>3 DEF Newer
  <2>1. CASE j <= a
    <3>1. j \in 1 .. a  BY <1>8, <2>1
    <3> QED  BY <1>7, <1>8, <3>1 DEF IInv, Newer
  <2>2. CASE j > a  BY <1>8, <1>9, <2>2
  <2>3. j \in Nat  BY <1>8
  <2> QED  BY <2>1, <2>2, <2>3
<1>14. ASSUME lost = 0 PROVE Undamaged'
  <2>1. Undamaged  BY <1>14 DEF IInv
  <2>2. Whole(All, sent)' /\ Headers(All, sent, last)' /\ ~alarms'
    <3>1. Whole(All, sent) /\ Headers(All, sent, last) /\ ~alarms  BY <2>1 DEF Undamaged
    <3>2. Whole(All', sent') /\ Headers(All', sent', last)  BY <1>8, <1>9, <3>1
    <3> QED  BY <1>3, <3>1, <3>2
  <2>3. Aligned'
    <3> SUFFICES ASSUME s.state = "BLOCK" PROVE All'[1].b = last + 1 /\ Ord(All'[1]) = 0
        BY <1>3 DEF Aligned
    <3>1. CASE a > 0
      <4>1. 1 \in 1 .. a /\ Len(All) > 0  BY <1>7, <3>1
      <4> QED  BY <1>8, <2>1, <4>1 DEF Undamaged, Aligned
    <3>2. CASE a = 0
      <4>1. last = n
        <5>1. \A j \in 1 .. Len(All) : FALSE  BY <1>7, <3>2
        <5>2. ~(n \in 1 .. Len(sent) /\ n > last)  BY <2>1, <5>1 DEF Undamaged, Headers
        <5> QED  BY <1>4, <1>9, <5>2
      <4>2. 1 \in 1 .. Len(All') /\ 1 > a /\ a + 1 = 1  BY <1>8, <3>2
      <4>3. All'[1].b = n + 1 /\ Ord(All'[a + 1]) = 0  BY <1>8, <4>2
      <4> QED  BY <4>1, <4>2, <4>3
    <3> QED  BY <3>1, <3>2
  <2>4. Partial'
    <3> SUFFICES ASSUME ~(Len(s.buf) < HdrSize)
                 PROVE  Ord(All'[1]) = 0 /\ Len(s.buf) < Size(sent', All'[1].b)
        BY <1>3 DEF Partial
    <3>1. Ord(All[1]) = 0 /\ Len(s.buf) < Size(sent, All[1].b)
      BY <1>2, <2>1 DEF Undamaged, Partial
    <3>2. 1 \in 1 .. a
      <4>1. Len(s.buf) \in Nat /\ Len(s.buf) <= Len(All)  BY <1>0, AllShape
      <4> QED  BY <1>7, <4>1 DEF HdrSize
    <3>3. All[1].b \in 0 .. n
      <4>1. All[1].b \in Nat  BY <1>0, <1>7, <3>2, AllShape
      <4>2. All[1].b <= n  BY <1>0, <1>4, <1>7, <3>2 DEF Ordered, Genuine
      <4> QED  BY <4>1, <4>2
    <3> QED  BY <1>8, <3>1, <3>2, <3>3
  <2> QED  BY <2>2, <2>3, <2>4 DEF Undamaged
<1>15. Ordered(All, sent)'  BY <1>8
<1> QED  BY <1>3, <1>10, <1>11, <1>12, <1>13, <1>14, <1>15 DEF IInv

LEMMA LinkLosesStep == ASSUME IInv, LinkLoses PROVE IInv'
<1>0. Typed /\ Ordered(All, sent)  BY DEF IInv
<1>1. /\ wire # <<>> /\ lost < MaxLost /\ wire' = Tail(wire) /\ lost' = lost + 1
      /\ UNCHANGED <<sent, input, pc, s, last, reported, missed, alarms>>
  BY DEF LinkLoses
<1>2. input = <<>>  BY DEF LinkLoses, IInv, NoInput
<1>3. s.buf \in Seq(Units) /\ wire \in Seq(Units)  BY <1>0 DEF Typed
<1>4. wire' \in Seq(Units)  BY <1>1, <1>3
<1>5. Typed'
  <2>1. lost' \in 0 .. MaxLost /\ lost' # 0
    <3>1. lost \in Nat /\ MaxLost \in Nat  BY <1>0, ConstantsAssumption DEF Typed
    <3> QED  BY <1>1, <3>1
  <2> QED  BY <1>0, <1>1, <1>4, <2>1 DEF Typed
<1>6. All = s.buf \o wire /\ All' = s.buf \o Tail(wire)
  <2>1. <<>> \o Tail(wire) = Tail(wire)  BY <1>1, <1>4, ConcatEmptySeq
  <2> QED  BY <1>0, <1>1, <1>2, <2>1, Idle DEF All
<1>7. /\ Ordered(All', sent)
      /\ \A j \in 1 .. Len(All') : \E i \in 1 .. Len(All) : All'[j] = All[i]
  BY <1>0, <1>1, <1>3, <1>6, LoseStream
<1>8. Room' /\ NoInput' /\ LossReported' /\ Counted'
  BY <1>1 DEF IInv, Room, NoInput, LossReported, Counted
<1>9. Newer'  BY <1>1, <1>7 DEF IInv, Newer
<1>10. Ordered(All, sent)'  BY <1>1, <1>7
<1>11. lost' # 0
  <2>1. lost \in Nat  BY <1>0, ConstantsAssumption DEF Typed
  <2> QED  BY <1>1, <2>1
<1> QED  BY <1>5, <1>8, <1>9, <1>10, <1>11 DEF IInv

(* stream_feed moves units on, and drops none.                               *)
LEMMA MoveStep ==
    ASSUME IInv, Typed', Room', NoInput', All' = All, pc' # "idle",
           s'.state = s.state, s'.haveSeq = s.haveSeq, s'.lastSeq = s.lastSeq,
           UNCHANGED <<sent, lost, last, reported, missed, alarms>>
    PROVE  IInv'
<1>1. Counted' /\ LossReported'  BY DEF IInv, Counted, LossReported
<1>2. Newer'  BY DEF IInv, Newer
<1>3. Ordered(All, sent)' /\ (Undamaged => Whole(All, sent)' /\ Headers(All, sent, last)')
  <2>1. Ordered(All, sent) /\ (Undamaged => Whole(All, sent) /\ Headers(All, sent, last))
    BY DEF IInv, Undamaged
  <2> QED  BY <2>1
<1>4. Undamaged => Aligned' /\ Partial' /\ ~alarms'  BY DEF Undamaged, Aligned, Partial
<1>5. Undamaged => Undamaged'  BY <1>3, <1>4 DEF Undamaged
<1> QED  BY <1>1, <1>2, <1>3, <1>5 DEF IInv

LEMMA FeedCallStep == ASSUME IInv, FeedCall PROVE IInv'
<1>0. Typed  BY DEF IInv
<1>1. PICK n \in 1 .. MaxChunk : /\ n <= Len(wire) /\ input' = SubSeq(wire, 1, n)
                                 /\ wire' = SubSeq(wire, n + 1, Len(wire))
  BY DEF FeedCall
<1>2. pc' = "copy" /\ UNCHANGED <<sent, lost, s, last, reported, missed, alarms>> /\ input = <<>>
  BY DEF FeedCall, IInv, NoInput
<1>3. wire \in Seq(Units) /\ Len(wire) \in Nat /\ MaxChunk \in Nat
  BY <1>0, ConstantsAssumption DEF Typed
<1>4. n \in 0 .. Len(wire)  BY <1>1, <1>3
<1>5. input' \in Seq(Units) /\ input' \o wire' = wire  BY <1>1, <1>3, <1>4, PrefixShape
<1>6. wire' \in Seq(Units)  BY <1>1, <1>3, <1>4, SuffixShape
<1>7. All' = All
  <2>1. All' = s.buf \o wire  BY <1>2, <1>5 DEF All
  <2> QED  BY <1>0, <1>2, <2>1, Idle
<1>8. Typed'  BY <1>0, <1>2, <1>5, <1>6 DEF Typed
<1>9. Room' /\ NoInput'  BY <1>2 DEF IInv, Room, NoInput
<1> QED  BY <1>2, <1>7, <1>8, <1>9, MoveStep

LEMMA CopyAllStep == ASSUME IInv, CopyAll PROVE IInv'
<1>0. Typed  BY DEF IInv
<1>1. /\ Len(s.buf) + Len(input) <= Cap - CompactedHead
      /\ s' = [s EXCEPT !.head = CompactedHead, !.buf = s.buf \o input]
      /\ input' = <<>> /\ pc' = "last"
      /\ UNCHANGED <<wire, sent, lost, last, reported, missed, alarms>>
  BY DEF CopyAll
<1>2. s.buf \in Seq(Units) /\ input \in Seq(Units) /\ wire \in Seq(Units) /\ s.head \in Nat
  BY <1>0 DEF Typed
<1>3. PICK h \in Nat : h = CompactedHead  BY <1>2 DEF CompactedHead
<1>4. s.buf \o input \in Seq(Units) /\ Len(s.buf \o input) = Len(s.buf) + Len(input)
  BY <1>2, ConcatProperties
<1>5. /\ s'.buf = s.buf \o input /\ s'.head = h /\ s'.state = s.state
      /\ s'.haveSeq = s.haveSeq /\ s'.lastSeq = s.lastSeq
  BY <1>0, <1>1, <1>3 DEF Typed
<1>6. Typed'
  <2>1. s' = [s EXCEPT !.head = h, !.buf = s.buf \o input]  BY <1>1, <1>3
  <2>2. s' \in [buf : Seq(Units), head : Nat, state : {"SCAN", "BLOCK"}, haveSeq : BOOLEAN,
                lastSeq : 0 .. SeqRange - 1, good : 0 .. 2]
    BY <1>0, <1>4, <2>1 DEF Typed
  <2>3. <<>> \in Seq(Units)  OBVIOUS
  <2> QED  BY <1>0, <1>1, <2>2, <2>3 DEF Typed
<1>7. Room'
  <2>1. PICK p \in Nat, q \in Nat : p = Len(s.buf) /\ q = Len(input)  BY <1>2
  <2>2. p + q <= Cap - h /\ Cap \in Nat  BY <1>1, <1>3, <2>1, ConstantsAssumption
  <2>3. h + (p + q) <= Cap  BY <2>2
  <2> QED  BY <1>4, <1>5, <2>1, <2>3 DEF Room
<1>8. All' = All
  <2>1. <<>> \o wire = wire  BY <1>2, ConcatEmptySeq
  <2>2. All' = (s.buf \o input) \o wire  BY <1>1, <1>5, <2>1 DEF All
  <2>3. s.buf \o (input \o wire) = (s.buf \o input) \o wire  BY <1>2, Associative
  <2> QED  BY <2>2, <2>3 DEF All
<1>9. NoInput'  BY <1>1 DEF NoInput
<1> QED  BY <1>1, <1>5, <1>6, <1>7, <1>8, <1>9, MoveStep

LEMMA CopyPartStep == ASSUME IInv, CopyPart PROVE IInv'
<1>0. Typed  BY DEF IInv
<1>1. s.buf \in Seq(Units) /\ input \in Seq(Units) /\ wire \in Seq(Units) /\ s.head \in Nat
  BY <1>0 DEF Typed
<1>2. PICK p \in Nat, q \in Nat : p = Len(s.buf) /\ q = Len(input)  BY <1>1
<1>3. PICK r \in 0 .. q : r = Cap - p
  <2>1. Cap \in Nat /\ s.head + p <= Cap  BY <1>2, ConstantsAssumption DEF IInv, Room
  <2>2. p + q > Cap  BY <1>2 DEF CopyPart
  <2>3. Cap - p \in 0 .. q  BY <1>1, <2>1, <2>2
  <2> QED  BY <2>3
<1>4. /\ s' = [s EXCEPT !.head = 0, !.buf = s.buf \o SubSeq(input, 1, r)]
      /\ input' = SubSeq(input, r + 1, Len(input)) /\ pc' = "mid"
      /\ UNCHANGED <<wire, sent, lost, last, reported, missed, alarms>>
  BY <1>2, <1>3 DEF CopyPart
<1>5. /\ SubSeq(input, 1, r) \in Seq(Units) /\ Len(SubSeq(input, 1, r)) = r
      /\ SubSeq(input, 1, r) \o SubSeq(input, r + 1, Len(input)) = input
      /\ SubSeq(input, r + 1, Len(input)) \in Seq(Units)
  <2>1. r \in 0 .. Len(input)  BY <1>2
  <2>2. SubSeq(input, r + 1, Len(input)) \in Seq(Units)  BY <1>1, <2>1, SuffixShape
  <2> QED  BY <1>1, <2>1, <2>2, PrefixShape
<1>6. PICK x \in Seq(Units), y \in Seq(Units) :
         x = SubSeq(input, 1, r) /\ y = SubSeq(input, r + 1, Len(input)) /\ Len(x) = r /\ x \o y = input
  BY <1>5
<1>7. s.buf \o x \in Seq(Units) /\ Len(s.buf \o x) = p + r
  <2>1. s.buf \o x \in Seq(Units) /\ Len(s.buf \o x) = Len(s.buf) + Len(x)
    BY <1>1, ConcatProperties
  <2> QED  BY <1>2, <1>6, <2>1
<1>8. s' = [s EXCEPT !.head = 0, !.buf = s.buf \o x] /\ input' = y  BY <1>4, <1>6
<1>9. /\ s'.buf = s.buf \o x /\ s'.head = 0 /\ s'.state = s.state
      /\ s'.haveSeq = s.haveSeq /\ s'.lastSeq = s.lastSeq
  BY <1>0, <1>8 DEF Typed
<1>10. Typed'
  <2>1. s' \in [buf : Seq(Units), head : Nat, state : {"SCAN", "BLOCK"}, haveSeq : BOOLEAN,
                lastSeq : 0 .. SeqRange - 1, good : 0 .. 2]
    BY <1>0, <1>7, <1>8 DEF Typed
  <2>2. input' \in Seq(Units)  BY <1>8
  <2> QED  BY <1>0, <1>4, <2>1, <2>2 DEF Typed
<1>11. Room'
  <2>1. Cap \in Nat  BY ConstantsAssumption
  <2>2. 0 + (p + r) <= Cap  BY <1>3, <2>1
  <2> QED  BY <1>7, <1>9, <2>2 DEF Room
<1>12. All' = All
  <2>1. All' = (s.buf \o x) \o (y \o wire)  BY <1>4, <1>8, <1>9 DEF All
  <2>2. y \o wire \in Seq(Units)  BY <1>1, ConcatProperties, SMTT(30)
  <2>3. s.buf \o (x \o (y \o wire)) = (s.buf \o x) \o (y \o wire)  BY <1>1, <2>2, Associative, ZenonT(60)
  <2>4. x \o (y \o wire) = (x \o y) \o wire  BY <1>1, Associative
  <2> QED  BY <1>6, <2>1, <2>3, <2>4 DEF All
<1>13. NoInput'  BY <1>4 DEF NoInput
<1> QED  BY <1>4, <1>9, <1>10, <1>11, <1>12, <1>13, MoveStep

-----------------------------------------------------------------------------
LEMMA InitIInv == Init => IInv
<1> SUFFICES ASSUME Init PROVE IInv
    OBVIOUS
<1>1. /\ sent = <<>> /\ lost = 0 /\ input = <<>> /\ pc = "idle" /\ last = 0
      /\ s = [buf |-> <<>>, head |-> 0, state |-> "SCAN", haveSeq |-> FALSE,
              lastSeq |-> 0, good |-> 0]
      /\ reported = FALSE /\ missed = FALSE /\ alarms = FALSE
  BY DEF Init
<1>2. wire = <<>> \/ /\ wire \in Seq(Units) /\ Len(wire) = 2
                     /\ wire[1].b = 0 /\ wire[1].i = 1 /\ wire[1].k \in {"m", "d"}
                     /\ wire[2].b = 0 /\ wire[2].i = 2 /\ wire[2].k \in {"m", "d"}
  <2> DEFINE u(k) == Unit(k, 0, 1)
             v == Unit("d", 0, 2)
  <2>1. /\ u("m") \in Units /\ u("d") \in Units /\ v \in Units
        /\ \A k \in {"m", "d"} : u(k).b = 0 /\ u(k).i = 1 /\ u(k).k = k
        /\ v.b = 0 /\ v.i = 2 /\ v.k = "d"
    BY DEF Unit, Units, Kinds
  <2>2. wire = <<>> \/ wire = <<u("m"), v>> \/ wire = <<u("d"), v>>  BY DEF Init
  <2>3. ASSUME NEW k \in {"m", "d"}, wire = <<u(k), v>>
        PROVE  /\ wire \in Seq(Units) /\ Len(wire) = 2 /\ wire[1] = u(k) /\ wire[2] = v
    <3>1. u(k) \in Units  BY <2>1
    <3> HIDE DEF u, v
    <3> QED  BY <2>1, <2>3, <3>1
  <2> HIDE DEF u, v
  <2>4. CASE wire = <<u("m"), v>>
    <3>1. wire \in Seq(Units) /\ Len(wire) = 2 /\ wire[1] = u("m") /\ wire[2] = v
      BY <2>3, <2>4
    <3> QED  BY <2>1, <3>1
  <2>5. CASE wire = <<u("d"), v>>
    <3>1. wire \in Seq(Units) /\ Len(wire) = 2 /\ wire[1] = u("d") /\ wire[2] = v
      BY <2>3, <2>5
    <3> QED  BY <2>1, <3>1
  <2> QED  BY <2>2, <2>4, <2>5
<1>3. wire \in Seq(Units) /\ Len(wire) \in {0, 2}
  <2>1. <<>> \in Seq(Units) /\ Len(<<>>) = 0  OBVIOUS
  <2> QED  BY <1>2, <2>1
<1>4. Typed
  <2>1. <<>> \in Seq(Units) /\ <<>> \in Seq(Lens) /\ Len(<<>>) = 0  OBVIOUS
  <2>2. 0 \in 0 .. SeqRange - 1 /\ 0 \in 0 .. MaxLost /\ 0 <= MaxBlocks  BY ConstantsAssumption
  <2>3. s \in [buf : Seq(Units), head : Nat, state : {"SCAN", "BLOCK"}, haveSeq : BOOLEAN,
               lastSeq : 0 .. SeqRange - 1, good : 0 .. 2]
    BY <1>1, <2>1, <2>2
  <2> QED  BY <1>1, <1>3, <2>1, <2>2, <2>3 DEF Typed
<1>5. All = wire
  <2>1. <<>> \o wire = wire  BY <1>3, ConcatEmptySeq
  <2> QED  BY <1>1, <1>4, <2>1, Idle
<1>6. \A j \in 1 .. Len(wire) :
         /\ wire[j].b = 0 /\ Ord(wire[j]) = j + 2 /\ wire[j].i > 0 /\ wire[j].k \in {"m", "d"}
         /\ j \in {1, 2} /\ Len(wire) = 2
  <2>1. CASE Len(wire) = 0  BY <2>1
  <2>2. CASE Len(wire) = 2
    <3>1. wire # <<>>  BY <2>2
    <3>2. Ord(wire[1]) = 1 + 2 /\ Ord(wire[2]) = 2 + 2  BY <1>2, <3>1 DEF Ord
    <3>3. \A j \in 1 .. 2 : j = 1 \/ j = 2  OBVIOUS
    <3> QED  BY <1>2, <2>2, <3>1, <3>2, <3>3
  <2> QED  BY <1>3, <2>1, <2>2
<1>7. Size(sent, 0) = 5 /\ Len(sent) = 0  BY <1>1 DEF Size
<1>8. Genuine(wire, sent)  BY <1>6, <1>7 DEF Genuine
<1>9. Sorted(wire)  BY <1>6 DEF Sorted
<1>10. Gapless(wire, sent)  BY <1>6, <1>7 DEF Gapless
<1>11. Ended(wire, sent)  BY <1>6, <1>7 DEF Ended
<1>12. Headers(wire, sent, last)
  <2>1. \A b \in 1 .. Len(sent) : FALSE  BY <1>7
  <2> QED  BY <2>1 DEF Headers
<1>13. Room /\ NoInput /\ Counted /\ Newer /\ LossReported
  BY <1>1, <1>7, ConstantsAssumption DEF Room, NoInput, Counted, Newer, LossReported
<1>14. Aligned /\ Partial  BY <1>1 DEF Aligned, Partial, HdrSize
<1>15. Undamaged  BY <1>1, <1>5, <1>10, <1>11, <1>12, <1>14 DEF Undamaged, Whole
<1> QED  BY <1>4, <1>5, <1>8, <1>9, <1>13, <1>15 DEF IInv, Ordered

LEMMA NextIInv == IInv /\ [Next]_vars => IInv'
<1> SUFFICES ASSUME IInv, [Next]_vars PROVE IInv'
    OBVIOUS
<1>1. CASE DeviceSend  BY <1>1, DeviceSendStep
<1>2. CASE LinkLoses  BY <1>2, LinkLosesStep
<1>3. CASE FeedCall  BY <1>3, FeedCallStep
<1>4. CASE CopyAll  BY <1>4, CopyAllStep
<1>5. CASE CopyPart  BY <1>5, CopyPartStep
<1>6. CASE Process  BY <1>6, ProcessStep
<1>7. CASE UNCHANGED vars
  <2>1. UNCHANGED <<wire, sent, lost, input, pc, s, last, reported, missed, alarms>>
    BY <1>7 DEF vars
  <2>2. All' = All  BY <2>1 DEF All
  <2>3. Typed' /\ Room' /\ NoInput' /\ Counted' /\ LossReported'
    BY <2>1 DEF IInv, Typed, Room, NoInput, Counted, LossReported
  <2>4. Newer'  BY <2>1, <2>2 DEF IInv, Newer
  <2>5. Ordered(All, sent)'
    <3>1. Ordered(All, sent)  BY DEF IInv
    <3> QED  BY <2>1, <2>2, <3>1
  <2>6. lost = 0 => Undamaged'
    <3>1. lost = 0 => Whole(All, sent) /\ Headers(All, sent, last) /\ ~alarms /\ Aligned /\ Partial
      BY DEF IInv, Undamaged
    <3>2. Aligned' <=> Aligned  BY <2>1, <2>2 DEF Aligned
    <3>3. Partial' <=> Partial  BY <2>1, <2>2 DEF Partial
    <3>4. Whole(All, sent)' <=> Whole(All, sent)  BY <2>1, <2>2
    <3>5. Headers(All, sent, last)' <=> Headers(All, sent, last)  BY <2>1, <2>2
    <3> QED  BY <2>1, <3>1, <3>2, <3>3, <3>4, <3>5 DEF Undamaged
  <2> QED  BY <2>1, <2>3, <2>4, <2>5, <2>6 DEF IInv
<1> QED  BY <1>1, <1>2, <1>3, <1>4, <1>5, <1>6, <1>7 DEF Next

(* What the device sent and stream_feed has not handed on stays in order and, *)
(* without a loss, complete, in every run of stream_feed.                    *)
THEOREM Invariance == Spec => []IInv
BY InitIInv, NextIInv, PTL DEF Spec

(* accept_block hands on no block that does not follow the last one without  *)
(* rsync_cb, unless as many blocks were lost as the sequence number counts.  *)
THEOREM LossIsReported == Spec => []LossReported
<1>1. IInv => LossReported  BY DEF IInv
<1> QED  BY <1>1, Invariance, PTL

(* rsync_cb is never called for a stream that lost nothing, and neither      *)
(* memcpy of stream_feed overruns the staging buffer.                        *)
THEOREM AlarmMeansLoss == Spec => []NoFalseAlarm
<1>1. IInv => NoFalseAlarm
  <2> SUFFICES ASSUME IInv PROVE NoFalseAlarm
      OBVIOUS
  <2>1. Typed  BY DEF IInv
  <2>2. \A i \in DOMAIN s.buf : s.buf[i].k \in Kinds
    <3>1. s.buf \in Seq(Units)  BY <2>1 DEF Typed
    <3>2. \A i \in DOMAIN s.buf : s.buf[i] \in Units  BY <3>1
    <3> QED  BY <3>2 DEF Units
  <2>3. s.head >= 0 /\ s.head + Len(s.buf) <= Cap
    BY <2>1 DEF IInv, Typed, Room
  <2>4. TypeOK  BY <2>1, <2>2, <2>3 DEF Typed, TypeOK
  <2>5. alarms => lost > 0
    <3>1. lost \in Nat  BY <2>1, ConstantsAssumption DEF Typed
    <3>2. lost = 0 => ~alarms  BY DEF IInv, Undamaged
    <3> QED  BY <3>1, <3>2
  <2> QED  BY <2>4, <2>5 DEF NoFalseAlarm
<1> QED  BY <1>1, Invariance, PTL

(* When nothing was lost and stream_feed has returned, some of every block   *)
(* not yet handed on is still on its way: process_available holds none back. *)
THEOREM NoneHeldBack == Spec => []NothingHeldBack
<1>1. IInv => NothingHeldBack
  <2> SUFFICES ASSUME IInv, pc = "idle", lost = 0, NEW b \in DOMAIN sent, b > last
               PROVE  \E i \in DOMAIN wire : wire[i].b = b
      BY DEF NothingHeldBack
  <2>0. Typed /\ Ordered(All, sent) /\ Undamaged  BY DEF IInv
  <2>1. b \in 1 .. Len(sent) /\ sent \in Seq(Lens) /\ Len(sent) \in Nat  BY <2>0 DEF Typed
  <2>2. PICK j \in 1 .. Len(All) : All[j].b = b /\ Ord(All[j]) = 0
    BY <2>0, <2>1 DEF Undamaged, Headers
  <2>3. PICK z \in Nat : z = Size(sent, b) /\ z >= 3
    <3>1. b \in 0 .. Len(sent)  BY <2>1
    <3> QED  BY <2>1, <3>1, SizeType DEF HdrSize
  <2>4. PICK p \in Nat, w \in Nat : /\ p = Len(s.buf) /\ w = Len(wire) /\ Len(All) = p + w
                                    /\ \A i \in 1 .. p + w :
                                          i > p => All[i] = wire[i - p]
    <3>1. s.buf \in Seq(Units) /\ wire \in Seq(Units)  BY <2>0 DEF Typed
    <3>2. All = s.buf \o wire  BY <2>0, Idle DEF IInv, NoInput
    <3>3. /\ Len(s.buf \o wire) = Len(s.buf) + Len(wire)
          /\ \A i \in 1 .. Len(s.buf) + Len(wire) :
                (s.buf \o wire)[i] = IF i <= Len(s.buf) THEN s.buf[i] ELSE wire[i - Len(s.buf)]
      BY <3>1, ConcatProperties
    <3>4. PICK p \in Nat, w \in Nat : p = Len(s.buf) /\ w = Len(wire)  BY <3>1
    <3>5. \A i \in 1 .. p + w : i > p => ~(i <= p)  OBVIOUS
    <3> QED  BY <3>2, <3>3, <3>4, <3>5
  <2>5. PICK e \in 1 .. Len(All) : e = j + (z - 1) /\ e > j
    <3>1. j + z <= Len(All) + 1 + 0  BY <2>0, <2>2, <2>3 DEF Undamaged, Whole, Ended
    <3>2. j + (z - 1) \in 1 .. p + w /\ j + (z - 1) > j  BY <2>3, <2>4, <3>1
    <3> QED  BY <2>4, <3>2
  <2>6. All[e].b = b
    <3>1. 0 + (e - j) < z  BY <2>3, <2>4, <2>5
    <3> QED  BY <2>0, <2>2, <2>3, <2>5, <3>1 DEF Undamaged, Whole, Gapless
  <2>7. CASE e > p
    <3>0. e \in 1 .. p + w  BY <2>4
    <3>1. e - p \in 1 .. w /\ All[e] = wire[e - p]
      <4>1. e - p \in 1 .. w  BY <2>7, <3>0
      <4> QED  BY <2>4, <2>7, <3>0, <4>1
    <3>2. e - p \in DOMAIN wire  BY <2>0, <2>4, <3>1 DEF Typed
    <3> QED  BY <2>6, <3>1, <3>2
  <2>8. CASE ~(e > p)
    <3>0. j \in Nat /\ e \in Nat /\ j >= 1 /\ e <= p  BY <2>4, <2>5, <2>8
    <3>1. p >= 3  BY <2>3, <2>5, <3>0
    <3>2. Ord(All[1]) = 0 /\ p < Size(sent, All[1].b)
      BY <2>0, <2>4, <3>1 DEF Undamaged, Partial, HdrSize
    <3>3. j # 1  BY <2>2, <2>3, <2>5, <3>0, <3>2
    <3>4. 1 \in 1 .. Len(All) /\ 1 < j  BY <2>4, <3>0, <3>1, <3>3
    <3>5. All[1].b < All[j].b \/ (All[1].b = All[j].b /\ 0 - 0 >= j - 1)
      BY <2>0, <2>2, <3>2, <3>4 DEF Ordered, Sorted
    <3>6. All[1].b \in Nat /\ All[1].b # All[j].b
      <4>1. All[1].b \in Nat /\ All[j].b \in Nat  BY <2>0, <2>2, <3>4, AllShape
      <4>2. ~(0 - 0 >= j - 1)  BY <3>0, <3>4
      <4> QED  BY <3>5, <4>1, <4>2
    <3>7. PICK y \in Nat : y = Size(sent, All[1].b)
      <4>1. All[1].b \in 0 .. Len(sent)
        <5>1. All[1].b <= Len(sent)  BY <2>0, <3>4 DEF Ordered, Genuine
        <5> QED  BY <2>1, <3>6, <5>1
      <4> QED  BY <2>1, <4>1, SizeType
    <3>8. 0 + (j - 1) < y  BY <2>5, <3>0, <3>2, <3>7
    <3>9. All[j].b = All[1].b
      BY <2>0, <3>2, <3>4, <3>7, <3>8 DEF Undamaged, Whole, Gapless
    <3> QED  BY <3>6, <3>9
  <2> QED  BY <2>7, <2>8
<1> QED  BY <1>1, Invariance, PTL
=============================================================================
