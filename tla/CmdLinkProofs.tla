---------------------------- MODULE CmdLinkProofs ---------------------------
(* The safety properties of the control plane, proved for any number of      *)
(* retries, any amount of loss and data, any cap of tl_discard, and an FPGA  *)
(* that answers when it likes.                                               *)
EXTENDS CmdLink, SequenceTheorems, TLAPS

Command == [op : {"quiet", "exec"}, reg : Regs, val : {0, 1}]

TypeOK == /\ attempt \in {0, 1} /\ pos \in 1 .. 13
          /\ pc \in {"step", "wait", "reset", "running", "ended", "failed"}
          /\ try \in Nat /\ reads \in Nat
          /\ waiting \in BOOLEAN /\ ackSeen \in BOOLEAN /\ suppress \in BOOLEAN
          /\ alive \in BOOLEAN
          /\ down \in Seq(Command) /\ up \in Seq({Ack, Fresh, Stale})
          /\ regs \in [Regs -> {0, 1}] /\ ours \in BOOLEAN
          /\ executed \in BOOLEAN /\ lost \in Nat /\ data \in Nat
          /\ quietLost \in BOOLEAN /\ execLost \in BOOLEAN
          /\ cut \in BOOLEAN /\ late \in BOOLEAN
          /\ wrongAck \in BOOLEAN /\ staleFed \in BOOLEAN /\ stopAcked \in BOOLEAN

NoAck   == \A i \in DOMAIN up : up[i] # Ack
OneAck  == \A i, j \in DOMAIN up : up[i] = Ack /\ up[j] = Ack => i = j
NoStale == \A i \in DOMAIN up : up[i] # Stale

(* The phases: commands without acknowledgement first, and no data parsed.   *)
Shape == /\ pc = "wait" => pos >= 9 /\ ~ackSeen
         /\ pc = "running" => pos = 12
         /\ pos < 9 => /\ ~wrongAck /\ ~staleFed
                       /\ \A i \in DOMAIN down : down[i].op = "quiet"
         /\ ~alive => pc = "failed" \/ (down = <<>> /\ up = <<>>)
         /\ stopAcked => pc = "ended"

(* From the second flush on, as long as the host did not go on too early,    *)
(* one command at a time is under way, or its ACK.                           *)
Patient == ~late /\ ~cut
Awaited == regs[Script[pos].reg] = Script[pos].val
Outstanding ==
    \/ /\ down = <<>> /\ OneAck
       /\ NoAck \/ (executed /\ Awaited)
    \/ Len(down) = 1 /\ NoAck /\ down[1] = Script[pos]

OneAtATime == Patient =>
                 /\ pc = "wait" => Outstanding
                 /\ pc = "step" /\ pos >= 9 => down = <<>> /\ NoAck
                 /\ pc = "running" => down = <<>> /\ NoAck

(* What was acknowledged then stays in force.                                *)
Settled == Patient =>
              /\ pc \in {"step", "wait", "running"} /\ pos \in 9 .. 12 =>
                    /\ pos > 9 => regs["upload"] = 1
                    /\ pos > 10 => regs["speed"] = 1
                    /\ pos > 11 => regs["reset"] = 0
              /\ pc = "running" => regs["enable"] = 1
              /\ stopAcked => down = <<>> /\ regs["enable"] = 0

(* Whoever is late, the commands under way bring it into force, unless one   *)
(* of cmd_exec's was lost.                                                   *)
Ordered == ~execLost =>
              /\ pc \in {"step", "wait", "running"} /\ pos \in 9 .. 12 =>
                    /\ pos > 9 => Ends("exec", "upload", 1)
                    /\ pos > 10 => Ends("exec", "speed", 1)
                    /\ pos > 11 => Ends("exec", "reset", 0)
              /\ pc = "wait" => Ends("exec", Script[pos].reg, Script[pos].val)
              /\ pc = "running" => Ends("exec", "enable", 1)
              /\ stopAcked => Ends("exec", "enable", 0)

(* Unless a command without acknowledgement was lost, the FPGA is silent     *)
(* once the second flush has left nothing under way, and sends nothing stale *)
(* after it, whatever commands of cmd_exec are repeated and late.            *)
NoTest == \A i \in DOMAIN down : down[i].reg # "test"
Silenced == alive /\ ~quietLost /\ pc \in {"step", "wait", "running"} =>
              /\ pos \in 2 .. 8 => Ends("quiet", "enable", 0)
              /\ pos = 8 => Ends("quiet", "test", 0)
              /\ pos >= 9 /\ ~cut => /\ regs["enable"] = 0 \/ ours
                                     /\ regs["test"] = 0 /\ NoTest /\ NoStale

IInv == /\ TypeOK /\ Shape /\ OneAtATime /\ Settled /\ Ordered /\ Silenced
        /\ AckMeansExecuted /\ NoStaleData

-----------------------------------------------------------------------------
(* The script, position by position.  No other proof expands it.             *)

LEMMA ScriptSteps ==
    /\ Len(Script) = 13 /\ Started = 12
    /\ Script[1] = [op |-> "quiet", reg |-> "enable", val |-> 0]
    /\ Script[2] = [op |-> "quiet", reg |-> "reset", val |-> 1]
    /\ Script[3] = [op |-> "discard", reg |-> "none", val |-> 0]
    /\ Script[4] = [op |-> "quiet", reg |-> "upload", val |-> 1]
    /\ Script[5] = [op |-> "quiet", reg |-> "test", val |-> 1]
    /\ Script[6] = [op |-> "probe", reg |-> "none", val |-> 0]
    /\ Script[7] = [op |-> "quiet", reg |-> "test", val |-> 0]
    /\ Script[8] = [op |-> "discard", reg |-> "none", val |-> 0]
    /\ Script[9] = [op |-> "exec", reg |-> "upload", val |-> 1]
    /\ Script[10] = [op |-> "exec", reg |-> "speed", val |-> 1]
    /\ Script[11] = [op |-> "exec", reg |-> "reset", val |-> 0]
    /\ Script[12] = [op |-> "exec", reg |-> "enable", val |-> 1]
    /\ Script[13] = [op |-> "exec", reg |-> "enable", val |-> 0]
BY DEF Script, Step, Started

(* Where each kind of step stands, and what the commands write.              *)
LEMMA Phases ==
    ASSUME NEW i \in 1 .. 13
    PROVE  /\ Script[i].op = "quiet" <=> i \in {1, 2, 4, 5, 7}
           /\ Script[i].op = "discard" <=> i \in {3, 8}
           /\ Script[i].op = "probe" <=> i = 6
           /\ Script[i].op = "exec" <=> i \in 9 .. 13
           /\ i \notin {3, 6, 8} => Script[i].reg \in Regs
           /\ Script[i].val \in {0, 1}
           /\ i >= 9 => Script[i].reg # "test"
<1>1. i \in {1, 2, 3, 4, 5, 6, 7, 8, 9, 10, 11, 12, 13}  OBVIOUS
<1>2. CASE i \in {1, 2, 3, 4}  BY <1>2, ScriptSteps DEF Regs
<1>3. CASE i \in {5, 6, 7, 8}  BY <1>3, ScriptSteps DEF Regs
<1>4. CASE i \in {9, 10, 11, 12, 13}  BY <1>4, ScriptSteps DEF Regs
<1> QED  BY <1>1, <1>2, <1>3, <1>4

-----------------------------------------------------------------------------
(* Sequences.                                                                *)

LEMMA TailShape ==
    ASSUME NEW S, NEW s \in Seq(S), s # <<>>
    PROVE  /\ Tail(s) \in Seq(S) /\ Len(Tail(s)) = Len(s) - 1 /\ Len(s) \in Nat \ {0}
           /\ \A i \in 1 .. Len(s) - 1 : Tail(s)[i] = s[i + 1]
           /\ DOMAIN s = 1 .. Len(s) /\ DOMAIN Tail(s) = 1 .. Len(s) - 1
           /\ Head(s) = s[1] /\ s[1] \in S
<1>1. s[1] \in S /\ Head(s) = s[1] /\ Len(s) \in Nat \ {0}  OBVIOUS
<1>2. Tail(s) \in Seq(S) /\ Len(Tail(s)) = Len(s) - 1  OBVIOUS
<1>3. \A i \in 1 .. Len(s) - 1 : Tail(s)[i] = s[i + 1]  OBVIOUS
<1>4. DOMAIN s = 1 .. Len(s) /\ DOMAIN Tail(s) = 1 .. Len(Tail(s))  BY <1>2
<1> QED  BY <1>1, <1>2, <1>3, <1>4

LEMMA AppendShape ==
    ASSUME NEW S, NEW s \in Seq(S), NEW x \in S
    PROVE  /\ Append(s, x) \in Seq(S) /\ Len(Append(s, x)) = Len(s) + 1 /\ Len(s) \in Nat
           /\ \A i \in 1 .. Len(s) : Append(s, x)[i] = s[i]
           /\ Append(s, x)[Len(s) + 1] = x
           /\ DOMAIN s = 1 .. Len(s) /\ DOMAIN Append(s, x) = 1 .. Len(s) + 1
<1>1. Append(s, x) \in Seq(S) /\ Len(Append(s, x)) = Len(s) + 1 /\ Len(s) \in Nat  OBVIOUS
<1>2. DOMAIN s = 1 .. Len(s) /\ DOMAIN Append(s, x) = 1 .. Len(Append(s, x))  BY <1>1
<1>3. (\A i \in 1 .. Len(s) : Append(s, x)[i] = s[i]) /\ Append(s, x)[Len(s) + 1] = x  OBVIOUS
<1> QED  BY <1>1, <1>2, <1>3

(* What a read leaves behind, and what it takes.                             *)
LEMMA SuffixShape ==
    ASSUME NEW S, NEW s \in Seq(S), NEW k \in 0 .. Len(s)
    PROVE  /\ SubSeq(s, k + 1, Len(s)) \in Seq(S)
           /\ Len(SubSeq(s, k + 1, Len(s))) = Len(s) - k
           /\ DOMAIN SubSeq(s, k + 1, Len(s)) = 1 .. Len(s) - k
           /\ \A i \in 1 .. Len(s) - k : SubSeq(s, k + 1, Len(s))[i] = s[k + i]
           /\ Len(s) \in Nat /\ DOMAIN s = 1 .. Len(s)
<1>1. Len(s) \in Nat /\ DOMAIN s = 1 .. Len(s)  OBVIOUS
<1>2. \A i \in k + 1 .. Len(s) : s[i] \in S  BY <1>1
<1>3. /\ SubSeq(s, k + 1, Len(s)) \in Seq(S)
      /\ Len(SubSeq(s, k + 1, Len(s))) = IF k + 1 <= Len(s) THEN Len(s) - (k + 1) + 1 ELSE 0
      /\ \A i \in 1 .. Len(s) - (k + 1) + 1 : SubSeq(s, k + 1, Len(s))[i] = s[(k + 1) + i - 1]
  <2>1. k + 1 \in Int /\ Len(s) \in Int  BY <1>1
  <2> QED  BY <1>2, <2>1, SubSeqProperties
<1>4. Len(SubSeq(s, k + 1, Len(s))) = Len(s) - k
  <2> DEFINE m == Len(SubSeq(s, k + 1, Len(s)))
             n == Len(s)
  <2>1. n \in Nat /\ k \in 0 .. n /\ m = IF k + 1 <= n THEN n - (k + 1) + 1 ELSE 0
    BY <1>1, <1>3
  <2> HIDE DEF m, n
  <2>2. m = n - k  BY <2>1
  <2> QED  BY <2>2 DEF m, n
<1>5. DOMAIN SubSeq(s, k + 1, Len(s)) = 1 .. Len(s) - k  BY <1>3, <1>4
<1>6. \A i \in 1 .. Len(s) - k : SubSeq(s, k + 1, Len(s))[i] = s[k + i]
  <2> SUFFICES ASSUME NEW i \in 1 .. Len(s) - k
               PROVE  SubSeq(s, k + 1, Len(s))[i] = s[k + i]
      OBVIOUS
  <2>1. i \in 1 .. Len(s) - (k + 1) + 1 /\ (k + 1) + i - 1 = k + i  BY <1>1
  <2> QED  BY <1>3, <2>1
<1> QED  BY <1>1, <1>3, <1>4, <1>5, <1>6

LEMMA PrefixShape ==
    ASSUME NEW S, NEW s \in Seq(S), NEW k \in 1 .. Len(s)
    PROVE  Range(SubSeq(s, 1, k)) = {s[i] : i \in 1 .. k}
<1>1. Len(s) \in Nat  OBVIOUS
<1>2. SubSeq(s, 1, k) = [i \in 1 .. k |-> s[i]]  BY <1>1
<1>3. DOMAIN SubSeq(s, 1, k) = 1 .. k /\ \A i \in 1 .. k : SubSeq(s, 1, k)[i] = s[i]  BY <1>2
<1> QED  BY <1>3 DEF Range

-----------------------------------------------------------------------------
(* What is under way.                                                        *)

(* The registers that a command reaches, and the ones it does not.           *)
LEMMA Sending ==
    ASSUME TypeOK, NEW step \in Command, Transmit(step)
    PROVE  /\ down' \in Seq(Command)
           /\ ~alive => down' = down
           /\ alive => /\ Len(down) \in Nat /\ Len(down') = Len(down) + 1
                       /\ DOMAIN down = 1 .. Len(down) /\ DOMAIN down' = 1 .. Len(down) + 1
                       /\ \A i \in 1 .. Len(down) : down'[i] = down[i]
                       /\ down'[Len(down) + 1] = step
<1>1. down \in Seq(Command)  BY DEF TypeOK
<1>2. CASE ~alive  BY <1>1, <1>2 DEF Transmit
<1>3. CASE alive
  <2>1. down' = Append(down, step)  BY <1>3 DEF Transmit
  <2>2. /\ Append(down, step) \in Seq(Command) /\ Len(Append(down, step)) = Len(down) + 1
        /\ Len(down) \in Nat
        /\ \A i \in 1 .. Len(down) : Append(down, step)[i] = down[i]
        /\ Append(down, step)[Len(down) + 1] = step
        /\ DOMAIN down = 1 .. Len(down) /\ DOMAIN Append(down, step) = 1 .. Len(down) + 1
    BY <1>1, AppendShape
  <2> QED  BY <1>3, <2>1, <2>2
<1> QED  BY <1>2, <1>3

(* A register ends with the value of the last command sent.                  *)
LEMMA EndsSend ==
    ASSUME TypeOK, alive, UNCHANGED regs, NEW step \in Command, Transmit(step)
    PROVE  /\ Ends(step.op, step.reg, step.val)'
           /\ \A op \in {"quiet", "exec"}, r \in Regs, v \in {0, 1} :
                 r # step.reg /\ Ends(op, r, v) => Ends(op, r, v)'
<1>1. PICK n \in Nat : n = Len(down)  BY DEF TypeOK
<1>2. /\ DOMAIN down = 1 .. n /\ DOMAIN down' = 1 .. n + 1
      /\ \A i \in 1 .. n : down'[i] = down[i]
      /\ down'[n + 1] = step
  BY <1>1, Sending
<1>3. Ends(step.op, step.reg, step.val)'
  <2>1. n + 1 \in DOMAIN down' /\ \A j \in DOMAIN down' : ~(j > n + 1)  BY <1>2
  <2> QED  BY <1>2, <2>1 DEF Ends
<1>4. ASSUME NEW op \in {"quiet", "exec"}, NEW r \in Regs, NEW v \in {0, 1},
             r # step.reg, Ends(op, r, v)
      PROVE  Ends(op, r, v)'
  <2>1. CASE regs[r] = v /\ \A i \in DOMAIN down : down[i].reg # r
    <3>1. \A i \in DOMAIN down' : down'[i].reg # r  BY <1>2, <1>4, <2>1
    <3> QED  BY <2>1, <3>1 DEF Ends
  <2>2. CASE \E i \in DOMAIN down : /\ down[i].op = op /\ down[i].reg = r /\ down[i].val = v
                                    /\ \A j \in DOMAIN down : j > i => down[j].reg # r
    <3>1. PICK i \in DOMAIN down : /\ down[i].op = op /\ down[i].reg = r /\ down[i].val = v
                                   /\ \A j \in DOMAIN down : j > i => down[j].reg # r
      BY <2>2
    <3>2. i \in DOMAIN down' /\ down'[i].op = op /\ down'[i].reg = r /\ down'[i].val = v
      BY <1>2, <3>1
    <3>3. \A j \in DOMAIN down' : j > i => down'[j].reg # r  BY <1>2, <1>4, <3>1
    <3> QED  BY <3>2, <3>3 DEF Ends
  <2> QED  BY <1>4, <2>1, <2>2 DEF Ends
<1> QED  BY <1>3, <1>4

(* Executing a command, or losing one of the other kind, does not change     *)
(* where the registers end.                                                  *)
LEMMA EndsTail ==
    ASSUME TypeOK, down # <<>>, down' = Tail(down),
           NEW op \in {"quiet", "exec"}, NEW r \in Regs, NEW v \in {0, 1}, Ends(op, r, v),
           \/ regs' = [regs EXCEPT ![Head(down).reg] = Head(down).val]
           \/ regs' = regs /\ Head(down).op # op
    PROVE  Ends(op, r, v)'
<1>1. PICK n \in Nat \ {0} : n = Len(down)  BY DEF TypeOK
<1>2. /\ DOMAIN down = 1 .. n /\ DOMAIN down' = 1 .. n - 1
      /\ \A i \in 1 .. n - 1 : down'[i] = down[i + 1]
      /\ Head(down) = down[1]
  <2>1. down \in Seq(Command)  BY DEF TypeOK
  <2> QED  BY <1>1, <2>1, TailShape
<1>3. /\ regs \in [Regs -> {0, 1}]
      /\ \/ regs' = [regs EXCEPT ![down[1].reg] = down[1].val]
         \/ regs' = regs /\ down[1].op # op
  BY <1>2 DEF TypeOK
<1>4. CASE regs[r] = v /\ \A i \in DOMAIN down : down[i].reg # r
  <2>1. \A i \in DOMAIN down' : down'[i].reg # r  BY <1>2, <1>4
  <2>2. regs'[r] = v  BY <1>2, <1>3, <1>4
  <2> QED  BY <2>1, <2>2 DEF Ends
<1>5. CASE \E i \in DOMAIN down : /\ down[i].op = op /\ down[i].reg = r /\ down[i].val = v
                                  /\ \A j \in DOMAIN down : j > i => down[j].reg # r
  <2>1. PICK i \in DOMAIN down : /\ down[i].op = op /\ down[i].reg = r /\ down[i].val = v
                                 /\ \A j \in DOMAIN down : j > i => down[j].reg # r
    BY <1>5
  <2>2. CASE i = 1
    <3>1. regs'[r] = v  BY <1>3, <2>1, <2>2
    <3>2. \A j \in DOMAIN down' : down'[j].reg # r
      <4>1. \A j \in 1 .. n - 1 : j + 1 \in DOMAIN down /\ j + 1 > i  BY <1>2, <2>2
      <4> QED  BY <1>2, <2>1, <4>1
    <3> QED  BY <3>1, <3>2 DEF Ends
  <2>3. CASE i # 1
    <3>1. i - 1 \in 1 .. n - 1 /\ (i - 1) + 1 = i  BY <1>2, <2>3
    <3>2. /\ i - 1 \in DOMAIN down' /\ down'[i - 1].op = op
          /\ down'[i - 1].reg = r /\ down'[i - 1].val = v
      BY <1>2, <2>1, <3>1
    <3>3. \A j \in DOMAIN down' : j > i - 1 => down'[j].reg # r
      <4>1. \A j \in 1 .. n - 1 : j > i - 1 => j + 1 \in DOMAIN down /\ j + 1 > i
        BY <1>2, <2>1
      <4> QED  BY <1>2, <2>1, <4>1
    <3> QED  BY <3>2, <3>3 DEF Ends
  <2> QED  BY <2>2, <2>3
<1> QED  BY <1>4, <1>5 DEF Ends

(* With nothing under way, a register has the value it ends with.            *)
LEMMA EndsNow ==
    ASSUME down = <<>>, NEW op, NEW r, NEW v, Ends(op, r, v)
    PROVE  regs[r] = v
<1>1. DOMAIN down = {}  OBVIOUS
<1> QED  BY <1>1 DEF Ends

-----------------------------------------------------------------------------
(* Types.                                                                    *)

LEMMA InitType == ASSUME Init PROVE TypeOK
<1>1. up \in Seq({Ack, Fresh, Stale})
  <2>1. up = <<>> \/ up = <<Stale>> \/ up = <<Ack>>  BY DEF Init
  <2>2. CASE up = <<>>  BY <2>2
  <2>3. ASSUME NEW b \in {Ack, Fresh, Stale}, up = <<b>>  PROVE up \in Seq({Ack, Fresh, Stale})
    <3>1. <<b>> \in Seq({Ack, Fresh, Stale})  OBVIOUS
    <3> QED  BY <2>3, <3>1
  <2> QED  BY <2>1, <2>2, <2>3
<1>2. down \in Seq(Command)
  <2>1. down = <<>>  BY DEF Init
  <2> QED  BY <2>1
<1>3. regs \in [Regs -> {0, 1}]
  <2>1. PICK e \in {0, 1} : regs = [r \in Regs |-> IF r = "enable" THEN e ELSE 0]  BY DEF Init
  <2> QED  BY <2>1
<1>4. /\ attempt \in {0, 1} /\ pos \in 1 .. 13 /\ pc = "step" /\ try \in Nat /\ reads \in Nat
      /\ lost \in Nat /\ data \in Nat
  BY DEF Init
<1>5. /\ waiting \in BOOLEAN /\ ackSeen \in BOOLEAN /\ suppress \in BOOLEAN /\ alive \in BOOLEAN
      /\ ours \in BOOLEAN /\ executed \in BOOLEAN
      /\ quietLost \in BOOLEAN /\ execLost \in BOOLEAN /\ cut \in BOOLEAN /\ late \in BOOLEAN
      /\ wrongAck \in BOOLEAN /\ staleFed \in BOOLEAN /\ stopAcked \in BOOLEAN
  BY DEF Init
<1> QED  BY <1>1, <1>2, <1>3, <1>4, <1>5 DEF TypeOK

(* The steps of the script that are commands.                                *)
LEMMA CommandStep ==
    ASSUME TypeOK
    PROVE  /\ At("quiet") => Script[pos] \in Command
           /\ At("exec") => Script[pos] \in Command
           /\ pos > Started => [Script[pos] EXCEPT !.op = "quiet"] \in Command
<1>1. pos \in {1, 2, 3, 4, 5, 6, 7, 8, 9, 10, 11, 12, 13}  BY DEF TypeOK
<1>2. At("quiet") => pos \in {1, 2, 4, 5, 7}  BY Phases DEF TypeOK, At
<1>3. At("exec") => pos \in {9, 10, 11, 12, 13}
  <2>1. At("exec") => Script[pos].op = "exec"  BY Zenon DEF At
  <2>2. pos \in 1 .. 13  BY <1>1
  <2>3. Script[pos].op = "exec" => pos \in 9 .. 13  BY <2>2, Phases, Zenon
  <2>4. pos \in 9 .. 13 => pos \in {9, 10, 11, 12, 13}  BY <2>2
  <2> QED BY <2>1, <2>3, <2>4
<1>4. pos > Started => pos = 13  BY <1>1, ScriptSteps
<1>5. At("quiet") => Script[pos] \in Command
  BY <1>2, ScriptSteps DEF Regs, Command
<1>6. At("exec") => Script[pos] \in Command
  BY <1>3, ScriptSteps DEF Regs, Command
<1>7. [Script[13] EXCEPT !.op = "quiet"] \in Command
  BY ScriptSteps DEF Regs, Command
<1> QED  BY <1>4, <1>5, <1>6, <1>7

LEMMA TypeFpga == ASSUME TypeOK, Fpga PROVE TypeOK'
<1> USE ConstantsAssumption
<1>1. down \in Seq(Command) /\ up \in Seq({Ack, Fresh, Stale})  BY DEF TypeOK
<1>2. CASE FpgaExecutes
  <2>1. Head(down) \in Command /\ down' \in Seq(Command)
    BY <1>1, <1>2, TailShape DEF FpgaExecutes
  <2>2. up' \in Seq({Ack, Fresh, Stale})  BY <1>1, <1>2 DEF FpgaExecutes
  <2>3. regs' \in [Regs -> {0, 1}] /\ ours' \in BOOLEAN /\ executed' \in BOOLEAN
    BY <1>2, <2>1 DEF FpgaExecutes, Command, TypeOK
  <2> QED  BY <1>2, <2>1, <2>2, <2>3 DEF FpgaExecutes, TypeOK, hostVars, cmdVars, obsVars,
              hasteVars, lossVars
<1>3. CASE FpgaSends
  <2>1. up' \in Seq({Ack, Fresh, Stale})  BY <1>1, <1>3 DEF FpgaSends
  <2> QED  BY <1>3, <2>1 DEF FpgaSends, TypeOK, hostVars, cmdVars, obsVars, hasteVars, lossVars
<1>4. CASE CommandLost
  <2>1. down' \in Seq(Command)  BY <1>1, <1>4, TailShape DEF CommandLost
  <2>2. quietLost' \in BOOLEAN /\ execLost' \in BOOLEAN /\ lost' \in Nat  BY <1>4 DEF CommandLost,
              TypeOK
  <2> QED  BY <1>4, <2>1, <2>2 DEF CommandLost, TypeOK, hostVars, cmdVars, obsVars,
              hasteVars, lossVars, fpgaVars
<1>5. CASE AckLost
  <2>1. up' \in Seq({Ack, Fresh, Stale})  BY <1>1, <1>5, TailShape DEF AckLost
  <2> QED  BY <1>5, <2>1 DEF AckLost, TypeOK, hostVars, cmdVars, obsVars,
              hasteVars, lossVars, fpgaVars
<1>6. CASE DeviceGone
  <2>1. /\ down' = <<>> /\ up' = <<>> /\ alive' = FALSE
        /\ quietLost' \in BOOLEAN /\ execLost' \in BOOLEAN /\ lost' \in Nat
    BY <1>6 DEF DeviceGone, TypeOK
  <2>2. down' \in Seq(Command) /\ up' \in Seq({Ack, Fresh, Stale})  BY <2>1
  <2>3. alive' \in BOOLEAN  BY <2>1, Zenon
  <2> QED  BY <1>6, <2>1, <2>2, <2>3 DEF DeviceGone, TypeOK, hostVars, cmdVars, obsVars,
              hasteVars, fpgaVars
<1> QED  BY <1>2, <1>3, <1>4, <1>5, <1>6 DEF Fpga

LEMMA TypeStartup == ASSUME TypeOK, Startup PROVE TypeOK'
<1>1. /\ down \in Seq(Command) /\ up \in Seq({Ack, Fresh, Stale}) /\ pos \in 1 .. 13
  BY DEF TypeOK
<1>2. CASE QuietCommand
  <2>1. down' \in Seq(Command)
    BY <1>2, CommandStep, Sending DEF QuietCommand
  <2>2. pos' \in 1 .. 13  BY <1>1, <1>2, Phases DEF QuietCommand, At
  <2> QED  BY <1>2, <2>1, <2>2 DEF QuietCommand, TypeOK, cmdVars, obsVars, hasteVars, lossVars,
              fpgaVars
<1>3. CASE DiscardRead
  <2>1. up' \in Seq({Ack, Fresh, Stale})  BY <1>1, <1>3, TailShape DEF DiscardRead
  <2> QED  BY <1>3, <2>1 DEF DiscardRead, TypeOK, cmdVars, obsVars, hasteVars, lossVars, fpgaVars
<1>4. CASE DiscardEnd
  <2>1. pos' \in 1 .. 13  BY <1>1, <1>4, Phases DEF DiscardEnd, At
  <2>2. cut' \in BOOLEAN  BY <1>4 DEF DiscardEnd
  <2> QED  BY <1>4, <2>1, <2>2 DEF DiscardEnd, TypeOK, cmdVars, obsVars, hasteVars, lossVars,
              fpgaVars
<1>5. CASE Probe
  <2>1. pos' \in 1 .. 13  BY <1>1, <1>5, Phases DEF Probe, At
  <2>2. up' \in Seq({Ack, Fresh, Stale})  BY <1>1, <1>5, SuffixShape DEF Probe
  <2> QED  BY <1>5, <2>1, <2>2 DEF Probe, TypeOK, cmdVars, obsVars, hasteVars, lossVars, fpgaVars
<1>6. CASE ExecSend
  <2>1. down' \in Seq(Command)  BY <1>6, CommandStep, Sending DEF ExecSend
  <2>2. executed' \in BOOLEAN  BY <1>6 DEF ExecSend, TypeOK
  <2> QED  BY <1>6, <2>1, <2>2 DEF ExecSend, TypeOK, obsVars, hasteVars, lossVars, fpgaVars
<1>7. CASE ExecRead
  <2>1. up' \in Seq({Ack, Fresh, Stale})
    <3>1. PICK k \in 1 .. Len(up) : up' = SubSeq(up, k + 1, Len(up))  BY <1>7 DEF ExecRead
    <3>2. k \in 0 .. Len(up)  BY <1>1
    <3> QED  BY <1>1, <3>1, <3>2, SuffixShape
  <2>2. ackSeen' \in BOOLEAN /\ staleFed' \in BOOLEAN
    BY <1>7 DEF ExecRead, Feed, TypeOK
  <2>3. /\ waiting' \in BOOLEAN /\ wrongAck' \in BOOLEAN /\ stopAcked' \in BOOLEAN
        /\ pos' \in 1 .. 13 /\ try' \in Nat
        /\ pc' \in {"step", "wait", "reset", "running", "ended", "failed"}
    <3>1. IF ackSeen'
          THEN Succeed /\ wrongAck' = (wrongAck \/ ~executed)
          ELSE UNCHANGED <<waiting, try, pos, pc, wrongAck, stopAcked>>
      BY <1>7 DEF ExecRead
    <3>2. CASE ackSeen'
      <4>1. Succeed /\ wrongAck' \in BOOLEAN  BY <3>1, <3>2 DEF TypeOK
      <4>2. waiting' \in BOOLEAN /\ try' \in Nat  BY <4>1 DEF Succeed
      <4>5. stopAcked' = (pos > Started)  BY <4>1 DEF Succeed
      <4>6. stopAcked' \in BOOLEAN  BY <4>5
      <4>3. pos' \in 1 .. 13  BY <1>1, <4>1, ScriptSteps DEF Succeed
      <4>4. pc' \in {"step", "running", "ended"}  BY <4>1 DEF Succeed
      <4> QED  BY <4>1, <4>2, <4>3, <4>4, <4>6
    <3>3. CASE ~ackSeen'  BY <3>1, <3>3 DEF TypeOK
    <3> QED  BY <3>2, <3>3
  <2> QED  BY <1>7, <2>1, <2>2, <2>3 DEF ExecRead, TypeOK, hasteVars, lossVars, fpgaVars
<1>8. ASSUME Fail
      PROVE  /\ waiting' \in BOOLEAN /\ try' \in Nat /\ down' \in Seq(Command)
             /\ pc' \in {"step", "wait", "reset", "running", "ended", "failed"}
  <2>1. down' \in Seq(Command)
    BY <1>1, <1>8, CommandStep, Sending DEF Fail
  <2> QED  BY <1>8, <2>1 DEF Fail
<1>9. CASE ExecTimeout
  <2>1. /\ waiting' \in BOOLEAN /\ try' \in Nat /\ down' \in Seq(Command)
        /\ pc' \in {"step", "wait", "reset", "running", "ended", "failed"}
    <3>1. CASE try + 1 < Retries
      <4>1. waiting' = FALSE /\ try' = try + 1 /\ pc' = "step" /\ down' = down
        BY <1>9, <3>1 DEF ExecTimeout
      <4>2. try' \in Nat  BY <4>1 DEF TypeOK
      <4> QED  BY <1>1, <4>1, <4>2
    <3>2. CASE ~(try + 1 < Retries)  BY <1>8, <1>9, <3>2 DEF ExecTimeout
    <3> QED  BY <3>1, <3>2
  <2>2. late' \in BOOLEAN  BY <1>9 DEF ExecTimeout, UnderWay, TypeOK
  <2> QED  BY <1>9, <2>1, <2>2 DEF ExecTimeout, TypeOK, obsVars, hasteVars, lossVars, fpgaVars
<1>10. CASE ExecGone
  <2>1. /\ waiting' \in BOOLEAN /\ try' \in Nat /\ down' \in Seq(Command)
        /\ pc' \in {"step", "wait", "reset", "running", "ended", "failed"}
    BY <1>8, <1>10 DEF ExecGone
  <2> QED  BY <1>10, <2>1 DEF ExecGone, TypeOK, obsVars, hasteVars, lossVars, fpgaVars
<1>11. CASE ResetDevice
  <2>1. down' = <<>> /\ up' = <<>>  BY <1>11 DEF ResetDevice
  <2>2. down' \in Seq(Command) /\ up' \in Seq({Ack, Fresh, Stale})  BY <2>1
  <2>3. /\ attempt' = 1 /\ pos' = 1 /\ pc' = "step" /\ alive' = TRUE
        /\ waiting' = FALSE /\ ackSeen' = FALSE /\ suppress' = TRUE
        /\ UNCHANGED <<try, reads, stopAcked, regs, executed, data, lost>>
    BY <1>11 DEF ResetDevice
  <2>4. attempt' \in {0, 1} /\ pos' \in 1 .. 13  BY <2>3
  <2>5. /\ alive' \in BOOLEAN /\ waiting' \in BOOLEAN /\ ackSeen' \in BOOLEAN
        /\ suppress' \in BOOLEAN
    BY <2>3, Zenon
  <2>6. /\ ours' \in BOOLEAN /\ quietLost' \in BOOLEAN /\ execLost' \in BOOLEAN
        /\ cut' \in BOOLEAN /\ late' \in BOOLEAN
        /\ wrongAck' \in BOOLEAN /\ staleFed' \in BOOLEAN
    BY <1>11, Zenon DEF ResetDevice
  <2> QED  BY <2>2, <2>3, <2>4, <2>5, <2>6 DEF TypeOK, obsVars, hasteVars, lossVars, fpgaVars
<1>12. CASE ResetFails
  <2>1. alive' \in BOOLEAN  BY <1>12, Zenon DEF ResetFails
  <2>2. pc' = "failed"  BY <1>12 DEF ResetFails
  <2> QED  BY <1>12, <2>1, <2>2 DEF ResetFails, TypeOK, cmdVars, obsVars, hasteVars, lossVars,
              fpgaVars
<1> QED  BY <1>2, <1>3, <1>4, <1>5, <1>6, <1>7, <1>9, <1>10, <1>11, <1>12 DEF Startup

LEMMA TypeStep == ASSUME TypeOK, [Next]_vars PROVE TypeOK'
<1>1. CASE RunRead
  <2>1. up' \in Seq({Ack, Fresh, Stale})  BY <1>1, TailShape DEF RunRead, TypeOK
  <2>2. ackSeen' \in BOOLEAN /\ staleFed' \in BOOLEAN  BY <1>1 DEF RunRead, Feed, TypeOK
  <2> QED  BY <1>1, <2>1, <2>2 DEF RunRead, TypeOK, hasteVars, lossVars, fpgaVars
<1>2. CASE RunEnd
  <2>1. pos' \in 1 .. 13  BY <1>2, ScriptSteps DEF RunEnd
  <2>2. pc' \in {"step", "ended"}  BY <1>2 DEF RunEnd
  <2>3. UNCHANGED <<attempt, try, reads, cmdVars, obsVars, hasteVars, alive, down, up, fpgaVars,
                    executed, lossVars>>
    BY <1>2, Zenon DEF RunEnd
  <2> QED  BY <2>1, <2>2, <2>3 DEF TypeOK, cmdVars, obsVars, hasteVars, lossVars, fpgaVars
<1>3. CASE UNCHANGED vars
  BY <1>3 DEF vars, hostVars, cmdVars, obsVars, hasteVars, lossVars, fpgaVars, TypeOK
<1> QED  BY <1>1, <1>2, <1>3, TypeFpga, TypeStartup DEF Next, Over

-----------------------------------------------------------------------------
(* The steps of the FPGA and of the link.                                    *)

LEMMA ExecutesStep == ASSUME IInv, FpgaExecutes PROVE IInv'
<1>0. TypeOK /\ TypeOK'  BY TypeFpga DEF IInv, Fpga
<1>1. PICK n \in Nat \ {0} : n = Len(down)  BY <1>0 DEF TypeOK, FpgaExecutes
<1>2. /\ DOMAIN down = 1 .. n /\ DOMAIN down' = 1 .. n - 1 /\ Len(down') = n - 1
      /\ \A i \in 1 .. n - 1 : down'[i] = down[i + 1]
      /\ Head(down) = down[1] /\ down[1] \in Command
  <2>1. down \in Seq(Command) /\ down # <<>> /\ down' = Tail(down)
    BY <1>0 DEF TypeOK, FpgaExecutes
  <2> QED  BY <1>1, <2>1, TailShape
<1>3. PICK m \in Nat : m = Len(up)  BY <1>0 DEF TypeOK
<1>4. /\ DOMAIN up = 1 .. m /\ DOMAIN up' = 1 .. m + 1
      /\ \A i \in 1 .. m : up'[i] = up[i]
      /\ up'[m + 1] = Ack
  <2>1. up \in Seq({Ack, Fresh, Stale}) /\ up' = Append(up, Ack) /\ Ack \in {Ack, Fresh, Stale}
    BY <1>0 DEF TypeOK, FpgaExecutes
  <2> QED  BY <1>3, <2>1, AppendShape
<1>5. /\ regs' = [regs EXCEPT ![down[1].reg] = down[1].val]
      /\ ours' = (ours \/ (down[1].reg = "enable" /\ down[1].val = 1))
      /\ executed' = (executed \/ down[1] = Script[pos])
      /\ UNCHANGED <<pos, pc, ackSeen, alive, quietLost, execLost, cut, late>>
      /\ UNCHANGED <<stopAcked, staleFed, wrongAck>>
  BY <1>2 DEF FpgaExecutes, hostVars, cmdVars, obsVars, hasteVars, lossVars
<1>6. down # <<>> /\ regs \in [Regs -> {0, 1}] /\ pos \in 1 .. 13
  BY <1>0 DEF FpgaExecutes, TypeOK
<1>7. \A i \in DOMAIN down' : i + 1 \in DOMAIN down /\ down'[i] = down[i + 1]  BY <1>2
<1>8. \A op \in {"quiet", "exec"}, r \in Regs, v \in {0, 1} : Ends(op, r, v) => Ends(op, r, v)'
  <2>1. down' = Tail(down)  BY DEF FpgaExecutes
  <2>2. regs' = [regs EXCEPT ![Head(down).reg] = Head(down).val]  BY <1>2, <1>5
  <2> QED  BY <1>0, <1>6, <2>1, <2>2, EndsTail
<1>9. Shape'
  <2>1. pos < 9 => \A i \in DOMAIN down' : down'[i].op = "quiet"  BY <1>7 DEF IInv, Shape
  <2>2. ~alive => pc = "failed"  BY <1>6 DEF IInv, Shape
  <2> QED  BY <1>5, <2>1, <2>2 DEF IInv, Shape
<1>10. Patient => /\ pc # "running" /\ ~stopAcked /\ (pc = "step" => pos < 9)
                  /\ pc = "wait" => n = 1 /\ NoAck /\ down[1] = Script[pos]
  BY <1>1, <1>6 DEF IInv, OneAtATime, Settled, Outstanding
<1>11. OneAtATime'
  <2> SUFFICES ASSUME Patient, pc = "wait" PROVE Outstanding'
      BY <1>5, <1>6, <1>10 DEF OneAtATime, Patient
  <2>1. down' = <<>>  BY <1>0, <1>2, <1>10 DEF TypeOK
  <2>2. OneAck'
    <3>1. \A i \in DOMAIN up' : up'[i] = Ack => i = m + 1  BY <1>4, <1>10 DEF NoAck
    <3> QED  BY <3>1 DEF OneAck
  <2>3. executed'  BY <1>5, <1>10
  <2>4. Awaited'
    <3>1. down[1].reg \in Regs  BY <1>2 DEF Command
    <3>2. regs'[down[1].reg] = down[1].val  BY <1>5, <1>6, <3>1
    <3> QED  BY <1>5, <1>10, <3>2 DEF Awaited
  <2> QED  BY <2>1, <2>2, <2>3, <2>4 DEF Outstanding
<1>12. Settled'
  <2>1. ASSUME Patient, pc = "wait", pos \in 9 .. 12
        PROVE  /\ pos > 9 => regs'["upload"] = 1
               /\ pos > 10 => regs'["speed"] = 1
               /\ pos > 11 => regs'["reset"] = 0
    <3>1. /\ pos > 9 => regs["upload"] = 1
          /\ pos > 10 => regs["speed"] = 1
          /\ pos > 11 => regs["reset"] = 0
      BY <2>1 DEF IInv, Settled
    <3>2. /\ pos = 10 => down[1].reg = "speed"
          /\ pos = 11 => down[1].reg = "reset"
          /\ pos = 12 => down[1].reg = "enable"
      BY <1>10, <2>1, ScriptSteps
    <3>3. pos = 9 \/ pos = 10 \/ pos = 11 \/ pos = 12  BY <2>1
    <3>4. CASE pos = 9  BY <3>4
    <3>5. CASE pos = 10  BY <1>5, <1>6, <3>1, <3>2, <3>5 DEF Regs
    <3>6. CASE pos = 11  BY <1>5, <1>6, <3>1, <3>2, <3>6 DEF Regs
    <3>7. CASE pos = 12  BY <1>5, <1>6, <3>1, <3>2, <3>7 DEF Regs
    <3> QED  BY <3>3, <3>4, <3>5, <3>6, <3>7
  <2> QED  BY <1>5, <1>6, <1>10, <2>1 DEF Settled, Patient
<1>13. Ordered'
  <2>1. "exec" \in {"quiet", "exec"} /\ {"upload", "speed", "reset", "enable"} \subseteq Regs
    BY DEF Regs
  <2>2. pc = "wait" => Script[pos].reg \in Regs /\ Script[pos].val \in {0, 1}
    BY <1>6, Phases DEF IInv, Shape
  <2> HIDE DEF Ends
  <2> QED  BY <1>5, <1>8, <2>1, <2>2 DEF IInv, Ordered
<1>14. Silenced'
  <2> SUFFICES ASSUME alive, ~quietLost, pc \in {"step", "wait", "running"}
               PROVE  /\ pos \in 2 .. 8 => Ends("quiet", "enable", 0)'
                      /\ pos = 8 => Ends("quiet", "test", 0)'
                      /\ pos >= 9 /\ ~cut => /\ regs'["enable"] = 0 \/ ours'
                                             /\ regs'["test"] = 0 /\ NoTest' /\ NoStale'
      BY <1>5 DEF Silenced
  <2>1. /\ pos \in 2 .. 8 => Ends("quiet", "enable", 0)
        /\ pos = 8 => Ends("quiet", "test", 0)
        /\ pos >= 9 /\ ~cut => /\ regs["enable"] = 0 \/ ours
                               /\ regs["test"] = 0 /\ NoTest /\ NoStale
    BY DEF IInv, Silenced
  <2>2. "enable" \in Regs /\ "test" \in Regs  BY DEF Regs
  <2>3. pos \in 2 .. 8 => Ends("quiet", "enable", 0)'  BY <1>8, <2>1, <2>2
  <2>4. pos = 8 => Ends("quiet", "test", 0)'  BY <1>8, <2>1, <2>2
  <2>5. ASSUME pos >= 9, ~cut
        PROVE  /\ regs'["enable"] = 0 \/ ours'
               /\ regs'["test"] = 0 /\ NoTest' /\ NoStale'
    <3>1. down[1].val \in {0, 1} /\ down[1].reg # "test"
      <4>1. 1 \in DOMAIN down  BY <1>2
      <4> QED  BY <1>2, <2>1, <2>5, <4>1 DEF Command, NoTest
    <3>2. regs'["enable"] = 0 \/ ours'
      <4>1. CASE down[1].reg = "enable"  BY <1>5, <1>6, <2>2, <3>1, <4>1
      <4>2. CASE down[1].reg # "enable"  BY <1>5, <1>6, <2>1, <2>2, <2>5, <4>2
      <4> QED  BY <4>1, <4>2
    <3>3. regs'["test"] = 0  BY <1>5, <1>6, <2>1, <2>2, <2>5, <3>1
    <3>4. NoTest'  BY <1>7, <2>1, <2>5 DEF NoTest
    <3>5. NoStale'  BY <1>4, <2>1, <2>5 DEF NoStale, Ack, Stale
    <3> QED  BY <3>2, <3>3, <3>4, <3>5
  <2> QED  BY <2>3, <2>4, <2>5
<1> QED  BY <1>0, <1>5, <1>9, <1>11, <1>12, <1>13, <1>14 DEF IInv, AckMeansExecuted, NoStaleData

LEMMA SendsStep == ASSUME IInv, FpgaSends PROVE IInv'
<1>0. TypeOK /\ TypeOK'  BY TypeFpga DEF IInv, Fpga
<1> DEFINE b == IF ours /\ regs["test"] = 0 THEN Fresh ELSE Stale
<1>1. PICK m \in Nat : m = Len(up)  BY <1>0 DEF TypeOK
<1>2. /\ DOMAIN up = 1 .. m /\ DOMAIN up' = 1 .. m + 1
      /\ \A i \in 1 .. m : up'[i] = up[i]
      /\ up'[m + 1] = b
  <2>1. up \in Seq({Ack, Fresh, Stale}) /\ up' = Append(up, b) /\ b \in {Ack, Fresh, Stale}
    BY <1>0 DEF TypeOK, FpgaSends
  <2> HIDE DEF b
  <2> QED  BY <1>1, <2>1, AppendShape
<1>3. /\ UNCHANGED <<pos, pc, ackSeen, alive, down, regs, ours, executed>>
      /\ UNCHANGED <<quietLost, execLost, cut, late, stopAcked, staleFed, wrongAck>>
      /\ alive
      /\ regs["enable"] = 1 \/ regs["test"] = 1
  BY DEF FpgaSends, hostVars, cmdVars, obsVars, hasteVars, lossVars
<1>4. \A i \in DOMAIN up' : up'[i] = Ack => i \in DOMAIN up /\ up[i] = Ack
  BY <1>2 DEF Ack, Fresh, Stale
<1>5. (NoAck => NoAck') /\ (OneAck => OneAck')  BY <1>4 DEF NoAck, OneAck
<1>6. Outstanding => Outstanding'  BY <1>3, <1>5 DEF Outstanding, Awaited
<1>7. Shape'  BY <1>3 DEF IInv, Shape
<1>8. OneAtATime'  BY <1>3, <1>5, <1>6 DEF IInv, OneAtATime, Patient
<1>9. Settled'  BY <1>3 DEF IInv, Settled, Patient
<1>10. Ordered'  BY <1>3 DEF IInv, Ordered, Ends
<1>11. Silenced'
  <2>1. ASSUME regs["test"] = 0, NoStale, regs["enable"] = 0 \/ ours
        PROVE  NoStale'
    <3>1. b = Fresh  BY <1>3, <2>1
    <3> QED  BY <1>2, <2>1, <3>1 DEF NoStale, Fresh, Stale
  <2>2. NoTest => NoTest'  BY <1>3 DEF NoTest
  <2>3. /\ Ends("quiet", "enable", 0) => Ends("quiet", "enable", 0)'
        /\ Ends("quiet", "test", 0) => Ends("quiet", "test", 0)'
    BY <1>3 DEF Ends
  <2> QED  BY <1>3, <2>1, <2>2, <2>3 DEF IInv, Silenced
<1> QED  BY <1>0, <1>3, <1>7, <1>8, <1>9, <1>10, <1>11 DEF IInv, AckMeansExecuted, NoStaleData

LEMMA CommandLostStep == ASSUME IInv, CommandLost PROVE IInv'
<1>0. TypeOK /\ TypeOK'  BY TypeFpga DEF IInv, Fpga
<1>1. PICK n \in Nat \ {0} : n = Len(down)  BY <1>0 DEF TypeOK, CommandLost
<1>2. /\ DOMAIN down = 1 .. n /\ DOMAIN down' = 1 .. n - 1 /\ Len(down') = n - 1
      /\ \A i \in 1 .. n - 1 : down'[i] = down[i + 1]
      /\ Head(down) = down[1] /\ down[1] \in Command
  <2>1. down \in Seq(Command) /\ down # <<>> /\ down' = Tail(down)
    BY <1>0 DEF TypeOK, CommandLost
  <2> QED  BY <1>1, <2>1, TailShape
<1>3. /\ UNCHANGED <<pos, pc, ackSeen, alive, up, regs, ours, executed, cut, late>>
      /\ UNCHANGED <<stopAcked, staleFed, wrongAck>>
      /\ quietLost' = (quietLost \/ Head(down).op = "quiet")
      /\ execLost' = (execLost \/ Head(down).op = "exec")
      /\ down # <<>> /\ down' = Tail(down)
  BY DEF CommandLost, hostVars, cmdVars, obsVars, hasteVars, fpgaVars
<1>4. \A i \in DOMAIN down' : i + 1 \in DOMAIN down /\ down'[i] = down[i + 1]  BY <1>2
<1>5. \A op \in {"quiet", "exec"}, r \in Regs, v \in {0, 1} :
         Head(down).op # op /\ Ends(op, r, v) => Ends(op, r, v)'
  BY <1>0, <1>3, EndsTail
<1>6. Shape'
  <2>1. pos < 9 => \A i \in DOMAIN down' : down'[i].op = "quiet"  BY <1>4 DEF IInv, Shape
  <2>2. ~alive => pc = "failed"  BY <1>3 DEF IInv, Shape
  <2> QED  BY <1>3, <2>1, <2>2 DEF IInv, Shape
<1>7. pos \in 1 .. 13  BY <1>0 DEF TypeOK
<1>8. Patient => /\ pc # "running" /\ ~stopAcked /\ (pc = "step" => pos < 9)
                 /\ pc = "wait" => n = 1 /\ NoAck
  BY <1>1, <1>3, <1>7 DEF IInv, OneAtATime, Settled, Outstanding
<1>9. OneAtATime'
  <2> SUFFICES ASSUME Patient, pc = "wait" PROVE Outstanding'
      BY <1>3, <1>7, <1>8 DEF OneAtATime, Patient
  <2>1. down' = <<>>  BY <1>0, <1>2, <1>8 DEF TypeOK
  <2>2. NoAck' /\ OneAck'  BY <1>3, <1>8 DEF NoAck, OneAck
  <2> QED  BY <2>1, <2>2 DEF Outstanding
<1>10. Settled'  BY <1>3, <1>8 DEF IInv, Settled, Patient
<1>11. Ordered'
  <2> SUFFICES ASSUME ~execLost' PROVE Ordered'
      BY DEF Ordered
  <2>1. ~execLost /\ Head(down).op # "exec"  BY <1>3
  <2>2. "exec" \in {"quiet", "exec"} /\ {"upload", "speed", "reset", "enable"} \subseteq Regs
    BY DEF Regs
  <2>3. pc = "wait" => Script[pos].reg \in Regs /\ Script[pos].val \in {0, 1}
    BY <1>7, Phases DEF IInv, Shape
  <2> QED  BY <1>3, <1>5, <2>1, <2>2, <2>3 DEF IInv, Ordered
<1>12. Silenced'
  <2> SUFFICES ASSUME ~quietLost' PROVE Silenced'
      BY DEF Silenced
  <2>1. ~quietLost /\ Head(down).op # "quiet"  BY <1>3
  <2>2. "enable" \in Regs /\ "test" \in Regs  BY DEF Regs
  <2>3. NoStale => NoStale'  BY <1>3 DEF NoStale
  <2>4. NoTest => NoTest'  BY <1>4 DEF NoTest
  <2> QED  BY <1>3, <1>5, <2>1, <2>2, <2>3, <2>4 DEF IInv, Silenced
<1>13. NoStaleData'  BY <1>3 DEF IInv, NoStaleData
<1> QED  BY <1>0, <1>3, <1>6, <1>9, <1>10, <1>11, <1>12, <1>13 DEF IInv, AckMeansExecuted

(* Blocks leave the link in order: nothing new is among those that are left. *)
LEMMA Fewer ==
    ASSUME TypeOK, NEW k \in 0 .. Len(up), up' = SubSeq(up, k + 1, Len(up))
    PROVE  /\ NoAck => NoAck'
           /\ OneAck => OneAck'
           /\ NoStale => NoStale'
           /\ OneAck /\ (\E i \in 1 .. k : up[i] = Ack) => NoAck'
           /\ up = <<>> => up' = <<>>
<1>1. PICK m \in Nat : m = Len(up)  BY DEF TypeOK
<1>2. /\ DOMAIN up = 1 .. m /\ DOMAIN up' = 1 .. m - k /\ k \in 0 .. m
      /\ \A i \in 1 .. m - k : up'[i] = up[k + i]
  <2>1. up \in Seq({Ack, Fresh, Stale})  BY DEF TypeOK
  <2> QED  BY <1>1, <2>1, SuffixShape
<1>3. \A i \in DOMAIN up' : i \in Int /\ k + i \in DOMAIN up /\ k + i > k /\ up'[i] = up[k + i]
  BY <1>2
<1>4. NoAck => NoAck'  BY <1>3 DEF NoAck
<1>5. NoStale => NoStale'  BY <1>3 DEF NoStale
<1>6. OneAck => OneAck'
  <2> SUFFICES ASSUME OneAck, NEW i \in DOMAIN up', NEW j \in DOMAIN up',
                      up'[i] = Ack, up'[j] = Ack
               PROVE  i = j
      BY DEF OneAck
  <2>1. k + i = k + j  BY <1>3 DEF OneAck
  <2> QED  BY <1>3, <2>1
<1>7. ASSUME OneAck, NEW i \in 1 .. k, up[i] = Ack  PROVE NoAck'
  <2> SUFFICES ASSUME NEW j \in DOMAIN up', up'[j] = Ack PROVE FALSE
      BY DEF NoAck
  <2>1. i \in DOMAIN up /\ k + j \in DOMAIN up /\ up[k + j] = Ack /\ k + j > i  BY <1>2, <1>3
  <2>2. i = k + j  BY <1>7, <2>1 DEF OneAck
  <2> QED  BY <2>1, <2>2
<1>8. up = <<>> => up' = <<>>
  <2>1. up = <<>> => m = 0  BY <1>1
  <2> QED  BY <1>2, <2>1
<1> QED  BY <1>4, <1>5, <1>6, <1>7, <1>8

(* Tail as a read of one block.                                              *)
LEMMA OneFewer ==
    ASSUME TypeOK, up # <<>>
    PROVE  1 \in 0 .. Len(up) /\ Tail(up) = SubSeq(up, 1 + 1, Len(up)) /\ Head(up) = up[1]
<1>1. up \in Seq({Ack, Fresh, Stale})  BY DEF TypeOK
<1>2. Len(up) \in Nat \ {0}  BY <1>1
<1> QED  BY <1>1, <1>2

(* The invariant survives when blocks are taken from the link.               *)
LEMMA FewerStep ==
    ASSUME IInv, NEW k \in 0 .. Len(up), up' = SubSeq(up, k + 1, Len(up)),
           UNCHANGED <<pos, pc, alive, down, regs, ours, executed>>,
           UNCHANGED <<quietLost, execLost, cut, late, stopAcked, wrongAck>>,
           pc = "wait" => ackSeen' = ackSeen,
           pos < 9 => staleFed' = staleFed
    PROVE  Shape' /\ OneAtATime' /\ Settled' /\ Ordered' /\ Silenced' /\ AckMeansExecuted'
<1>1. /\ NoAck => NoAck'
      /\ OneAck => OneAck'
      /\ NoStale => NoStale'
      /\ up = <<>> => up' = <<>>
  BY Fewer DEF IInv
<1>2. Outstanding => Outstanding'  BY <1>1 DEF Outstanding, Awaited
<1>3. Shape'  BY <1>1 DEF IInv, Shape
<1>4. OneAtATime'  BY <1>1, <1>2 DEF IInv, OneAtATime, Patient
<1>5. Settled'  BY DEF IInv, Settled, Patient
<1>6. Ordered'  BY DEF IInv, Ordered, Ends
<1>7. Silenced'
  <2>1. NoTest => NoTest'  BY DEF NoTest
  <2>2. /\ Ends("quiet", "enable", 0) => Ends("quiet", "enable", 0)'
        /\ Ends("quiet", "test", 0) => Ends("quiet", "test", 0)'
    BY DEF Ends
  <2> QED  BY <1>1, <2>1, <2>2 DEF IInv, Silenced
<1> QED  BY <1>3, <1>4, <1>5, <1>6, <1>7 DEF IInv, AckMeansExecuted

LEMMA AckLostStep == ASSUME IInv, AckLost PROVE IInv'
<1>0. TypeOK /\ TypeOK'  BY TypeFpga DEF IInv, Fpga
<1>1. /\ UNCHANGED <<pos, pc, ackSeen, alive, down, regs, ours, executed>>
      /\ UNCHANGED <<quietLost, execLost, cut, late, stopAcked, staleFed, wrongAck>>
      /\ up # <<>> /\ up' = Tail(up)
  BY DEF AckLost, hostVars, cmdVars, obsVars, hasteVars, fpgaVars
<1>2. Shape' /\ OneAtATime' /\ Settled' /\ Ordered' /\ Silenced' /\ AckMeansExecuted'
  BY <1>0, <1>1, OneFewer, FewerStep
<1> QED  BY <1>0, <1>1, <1>2 DEF IInv, NoStaleData

LEMMA DeviceGoneStep == ASSUME IInv, DeviceGone PROVE IInv'
<1>0. TypeOK /\ TypeOK'  BY TypeFpga DEF IInv, Fpga
<1>1. /\ UNCHANGED <<pos, pc, ackSeen, regs, ours, executed, cut, late>>
      /\ UNCHANGED <<stopAcked, staleFed, wrongAck>>
      /\ alive' = FALSE /\ down' = <<>> /\ up' = <<>>
      /\ quietLost => quietLost'
      /\ execLost' = (execLost \/ \E k \in DOMAIN down : down[k].op = "exec")
  BY DEF DeviceGone, hostVars, cmdVars, obsVars, hasteVars, fpgaVars
<1>2. DOMAIN up' = {} /\ DOMAIN down' = {}  BY <1>1
<1>3. NoAck' /\ OneAck' /\ (\A i \in DOMAIN down' : down'[i].op = "quiet")
  BY <1>2 DEF NoAck, OneAck
<1>4. Outstanding'  BY <1>1, <1>3 DEF Outstanding
<1>5. Shape'  BY <1>1, <1>3 DEF IInv, Shape
<1>6. OneAtATime'  BY <1>1, <1>3, <1>4 DEF IInv, OneAtATime
<1>7. Settled'  BY <1>1 DEF IInv, Settled, Patient
<1>8. Ordered'
  <2> SUFFICES ASSUME ~execLost' PROVE Ordered'
      BY DEF Ordered
  <2>1. ~execLost /\ \A k \in DOMAIN down : down[k].op # "exec"  BY <1>1
  <2>2. ASSUME NEW r, NEW v, Ends("exec", r, v) PROVE Ends("exec", r, v)'
    BY <1>1, <1>2, <2>1, <2>2 DEF Ends
  <2> QED  BY <1>1, <2>1, <2>2 DEF IInv, Ordered
<1>9. Silenced'  BY <1>1 DEF Silenced
<1> QED  BY <1>0, <1>1, <1>5, <1>6, <1>7, <1>8, <1>9 DEF IInv, AckMeansExecuted, NoStaleData

-----------------------------------------------------------------------------
(* The steps of the host.                                                    *)

(* Before the first command of cmd_exec most of the invariant says nothing.  *)
LEMMA Preparing ==
    ASSUME pc' = "step", pos' \in 1 .. 8, ~stopAcked'
    PROVE  OneAtATime' /\ Settled' /\ Ordered'
<1>1. ~(pos' \in 9 .. 12) /\ ~(pos' >= 9)  OBVIOUS
<1> QED  BY <1>1 DEF OneAtATime, Settled, Ordered

LEMMA QuietStep == ASSUME IInv, QuietCommand PROVE IInv'
<1>0. TypeOK /\ TypeOK'  BY TypeStartup DEF IInv, Startup
<1>1. /\ UNCHANGED <<pc, ackSeen, alive, up, regs, ours, quietLost, execLost, cut, late>>
      /\ UNCHANGED <<stopAcked, staleFed, wrongAck>>
      /\ pc = "step" /\ pos' = pos + 1 /\ Transmit(Script[pos])
  BY DEF QuietCommand, At, cmdVars, obsVars, hasteVars, fpgaVars, lossVars
<1>2. PICK s \in Command : s = Script[pos]  BY <1>0, CommandStep DEF QuietCommand
<1>3. pos \in {1, 2, 4, 5, 7}  BY <1>0, Phases DEF QuietCommand, At, TypeOK
<1>4. s.op = "quiet" /\ Transmit(s)  BY <1>1, <1>2 DEF QuietCommand, At
<1>5. ~stopAcked /\ ~wrongAck /\ ~staleFed /\ \A i \in DOMAIN down : down[i].op = "quiet"
  BY <1>1, <1>3 DEF IInv, Shape
<1>6. Shape'
  <2>1. \A i \in DOMAIN down' : down'[i].op = "quiet"
    <3>1. CASE ~alive
      <4>1. down' = down  BY <1>0, <1>4, <3>1, Sending
      <4> QED  BY <1>5, <4>1
    <3>2. CASE alive
      <4>1. /\ Len(down) \in Nat
            /\ DOMAIN down = 1 .. Len(down) /\ DOMAIN down' = 1 .. Len(down) + 1
            /\ \A i \in 1 .. Len(down) : down'[i] = down[i]
            /\ down'[Len(down) + 1] = s
        BY <1>0, <1>4, <3>2, Sending
      <4> QED  BY <1>4, <1>5, <4>1
    <3> QED  BY <3>1, <3>2
  <2>2. ~alive' => down' = <<>> /\ up' = <<>>
    <3>1. ~alive => down' = down  BY <1>0, <1>4, Sending
    <3>2. ~alive => down = <<>> /\ up = <<>>  BY <1>1 DEF IInv, Shape
    <3> QED  BY <1>1, <3>1, <3>2
  <2> QED  BY <1>1, <1>5, <2>1, <2>2 DEF Shape
<1>7. OneAtATime' /\ Settled' /\ Ordered'
  <2>1. pc' = "step" /\ pos' \in 1 .. 8 /\ ~stopAcked'  BY <1>1, <1>3, <1>5
  <2> QED  BY <2>1, Preparing
<1>8. Silenced'
  <2> SUFFICES ASSUME alive, ~quietLost
               PROVE  /\ Ends("quiet", "enable", 0)'
                      /\ pos' = 8 => Ends("quiet", "test", 0)'
                      /\ ~(pos' >= 9)
      BY <1>1 DEF Silenced
  <2>1. /\ Ends(s.op, s.reg, s.val)'
        /\ \A op \in {"quiet", "exec"}, r \in Regs, v \in {0, 1} :
              r # s.reg /\ Ends(op, r, v) => Ends(op, r, v)'
    <3>1. alive /\ UNCHANGED regs  BY <1>1
    <3> QED  BY <1>0, <1>4, <3>1, EndsSend
  <2>2. Ends("quiet", "enable", 0)'
    <3>1. CASE pos = 1
      <4>1. s.reg = "enable" /\ s.val = 0  BY <1>2, <3>1, ScriptSteps
      <4> QED  BY <1>4, <2>1, <4>1
    <3>2. CASE pos \in {2, 4, 5, 7}
      <4>1. s.reg # "enable" /\ "enable" \in Regs  BY <1>2, <3>2, ScriptSteps DEF Regs
      <4>2. Ends("quiet", "enable", 0)  BY <1>1, <3>2 DEF IInv, Silenced
      <4> QED  BY <2>1, <4>1, <4>2
    <3> QED  BY <1>3, <3>1, <3>2
  <2>3. pos' = 8 => Ends("quiet", "test", 0)'
    <3>1. pos' = 8 => s.reg = "test" /\ s.val = 0  BY <1>1, <1>2, <1>3, ScriptSteps
    <3> QED  BY <1>4, <2>1, <3>1
  <2>4. ~(pos' >= 9)  BY <1>1, <1>3
  <2> QED  BY <2>2, <2>3, <2>4
<1> QED  BY <1>0, <1>1, <1>5, <1>6, <1>7, <1>8 DEF IInv, AckMeansExecuted, NoStaleData

LEMMA DiscardReadStep == ASSUME IInv, DiscardRead PROVE IInv'
<1>0. TypeOK /\ TypeOK'  BY TypeStartup DEF IInv, Startup
<1>1. /\ UNCHANGED <<pos, pc, ackSeen, alive, down, regs, ours, executed>>
      /\ UNCHANGED <<quietLost, execLost, cut, late, stopAcked, staleFed, wrongAck>>
      /\ up # <<>> /\ up' = Tail(up)
  BY DEF DiscardRead, cmdVars, obsVars, hasteVars, fpgaVars, lossVars
<1>2. Shape' /\ OneAtATime' /\ Settled' /\ Ordered' /\ Silenced' /\ AckMeansExecuted'
  BY <1>0, <1>1, OneFewer, FewerStep
<1> QED  BY <1>0, <1>1, <1>2 DEF IInv, NoStaleData

(* A flush that leaves nothing under way leaves the FPGA silent.             *)
LEMMA DiscardEndStep == ASSUME IInv, DiscardEnd PROVE IInv'
<1>0. TypeOK /\ TypeOK'  BY TypeStartup DEF IInv, Startup
<1>1. /\ UNCHANGED <<pc, ackSeen, alive, down, up, regs, ours, quietLost, execLost, late>>
      /\ UNCHANGED <<stopAcked, staleFed, wrongAck>>
      /\ pc = "step" /\ pos' = pos + 1
      /\ cut' = (down # <<>> \/ up # <<>>)
  BY DEF DiscardEnd, At, cmdVars, obsVars, fpgaVars, lossVars
<1>2. pos \in {3, 8}  BY <1>0, Phases DEF DiscardEnd, At, TypeOK
<1>3. ~stopAcked /\ ~wrongAck /\ ~staleFed  BY <1>1, <1>2 DEF IInv, Shape
<1>4. Shape'
  <2>1. \A i \in DOMAIN down' : down'[i].op = "quiet"  BY <1>1, <1>2 DEF IInv, Shape
  <2> QED  BY <1>1, <1>3, <2>1 DEF IInv, Shape
<1>5. ASSUME ~cut' PROVE down = <<>> /\ NoAck' /\ NoStale' /\ NoTest'
  <2>1. down = <<>> /\ up = <<>>  BY <1>1, <1>5
  <2>2. DOMAIN up' = {} /\ DOMAIN down' = {}  BY <1>1, <2>1
  <2> QED  BY <2>1, <2>2 DEF NoAck, NoStale, NoTest
<1>6. OneAtATime'  BY <1>1, <1>5 DEF OneAtATime, Patient
<1>7. Settled' /\ Ordered'
  <2>1. pos' \in {4, 9}  BY <1>1, <1>2
  <2> QED  BY <1>1, <1>3, <2>1 DEF Settled, Ordered
<1>8. Silenced'
  <2> SUFFICES ASSUME alive, ~quietLost
               PROVE  /\ pos' \in 2 .. 8 => Ends("quiet", "enable", 0)'
                      /\ pos' = 8 => Ends("quiet", "test", 0)'
                      /\ pos' >= 9 /\ ~cut' => /\ regs'["enable"] = 0 \/ ours'
                                               /\ regs'["test"] = 0 /\ NoTest' /\ NoStale'
      BY <1>1 DEF Silenced
  <2>1. Ends("quiet", "enable", 0) /\ (pos = 8 => Ends("quiet", "test", 0))
    BY <1>1, <1>2 DEF IInv, Silenced
  <2>2. Ends("quiet", "enable", 0)'  BY <1>1, <2>1 DEF Ends
  <2>3. ASSUME pos = 8, ~cut' PROVE regs["enable"] = 0 /\ regs["test"] = 0
    BY <1>5, <2>1, <2>3, EndsNow
  <2>4. pos' = 4 \/ (pos' = 9 /\ pos = 8)  BY <1>1, <1>2
  <2> QED  BY <1>1, <1>5, <2>2, <2>3, <2>4
<1> QED  BY <1>0, <1>1, <1>3, <1>4, <1>6, <1>7, <1>8 DEF IInv, AckMeansExecuted, NoStaleData

LEMMA ProbeStep == ASSUME IInv, Probe PROVE IInv'
<1>0. TypeOK /\ TypeOK'  BY TypeStartup DEF IInv, Startup
<1>1. /\ UNCHANGED <<pc, ackSeen, alive, down, regs, ours, quietLost, execLost, cut, late>>
      /\ UNCHANGED <<stopAcked, staleFed, wrongAck>>
      /\ pc = "step" /\ pos' = pos + 1
      /\ \E k \in 0 .. Len(up) : up' = SubSeq(up, k + 1, Len(up))
  BY DEF Probe, At, cmdVars, obsVars, hasteVars, fpgaVars, lossVars
<1>2. pos = 6 /\ pos' = 7
  <2>1. pos = 6  BY <1>0, Phases DEF Probe, At, TypeOK
  <2> QED  BY <1>1, <2>1
<1>3. up = <<>> => up' = <<>>  BY <1>0, <1>1, Fewer
<1>4. ~stopAcked /\ ~wrongAck /\ ~staleFed  BY <1>1, <1>2 DEF IInv, Shape
<1>5. Shape'
  <2>1. \A i \in DOMAIN down' : down'[i].op = "quiet"  BY <1>1, <1>2 DEF IInv, Shape
  <2>2. ~alive' => down' = <<>> /\ up' = <<>>  BY <1>1, <1>3 DEF IInv, Shape
  <2> QED  BY <1>1, <1>2, <1>4, <2>1, <2>2 DEF Shape
<1>6. OneAtATime' /\ Settled' /\ Ordered'
  <2>1. pc' = "step" /\ pos' \in 1 .. 8 /\ ~stopAcked'  BY <1>1, <1>2, <1>4
  <2> QED  BY <2>1, Preparing
<1>7. Silenced'
  <2>1. alive /\ ~quietLost => Ends("quiet", "enable", 0)  BY <1>1, <1>2 DEF IInv, Silenced
  <2>2. Ends("quiet", "enable", 0) => Ends("quiet", "enable", 0)'  BY <1>1 DEF Ends
  <2> QED  BY <1>1, <1>2, <2>1, <2>2 DEF Silenced
<1> QED  BY <1>0, <1>1, <1>4, <1>5, <1>6, <1>7 DEF IInv, AckMeansExecuted, NoStaleData

(* With one command at a time, it is the only one under way.                 *)
LEMMA ExecSendStep == ASSUME IInv, ExecSend PROVE IInv'
<1>0. TypeOK /\ TypeOK'  BY TypeStartup DEF IInv, Startup
<1>1. /\ UNCHANGED <<pos, alive, up, regs, ours, quietLost, execLost, cut, late>>
      /\ UNCHANGED <<stopAcked, staleFed, wrongAck>>
      /\ pc = "step" /\ pc' = "wait" /\ alive /\ Transmit(Script[pos]) /\ ackSeen' = FALSE
  BY DEF ExecSend, At, obsVars, hasteVars, fpgaVars, lossVars
<1>2. PICK s \in Command : s = Script[pos]  BY <1>0, CommandStep DEF ExecSend
<1>3. pos \in 9 .. 13 /\ s.op = "exec"  BY <1>0, <1>2, Phases DEF ExecSend, At, TypeOK
<1>4. /\ Len(down) \in Nat /\ Len(down') = Len(down) + 1
      /\ DOMAIN down = 1 .. Len(down) /\ DOMAIN down' = 1 .. Len(down) + 1
      /\ \A i \in 1 .. Len(down) : down'[i] = down[i]
      /\ down'[Len(down) + 1] = s
  BY <1>0, <1>1, <1>2, Sending
<1>5. ~stopAcked  BY <1>1 DEF IInv, Shape
<1>6. Shape'  BY <1>1, <1>3, <1>5 DEF Shape
<1>7. OneAtATime'
  <2> SUFFICES ASSUME Patient PROVE Outstanding'
      BY <1>1 DEF OneAtATime, Patient
  <2>1. down = <<>> /\ NoAck  BY <1>1, <1>3 DEF IInv, OneAtATime
  <2>2. NoAck'  BY <1>1, <2>1 DEF NoAck
  <2>3. Len(down) = 0  BY <2>1
  <2>4. Len(down') = 1 /\ down'[1] = s  BY <1>4, <2>3
  <2> QED  BY <1>1, <1>2, <2>2, <2>4 DEF Outstanding
<1>8. Settled'  BY <1>1, <1>5 DEF IInv, Settled, Patient
<1>9. Ordered'
  <2> SUFFICES ASSUME ~execLost
               PROVE  /\ pos \in 9 .. 12 => /\ pos > 9 => Ends("exec", "upload", 1)'
                                            /\ pos > 10 => Ends("exec", "speed", 1)'
                                            /\ pos > 11 => Ends("exec", "reset", 0)'
                      /\ Ends("exec", s.reg, s.val)'
      BY <1>1, <1>2, <1>5 DEF Ordered
  <2>1. /\ Ends(s.op, s.reg, s.val)'
        /\ \A op \in {"quiet", "exec"}, r \in Regs, v \in {0, 1} :
              r # s.reg /\ Ends(op, r, v) => Ends(op, r, v)'
    <3>1. alive /\ UNCHANGED regs /\ Transmit(s)  BY <1>1, <1>2
    <3> QED  BY <1>0, <3>1, EndsSend
  <2>2. pos \in 9 .. 12 => /\ pos > 9 => Ends("exec", "upload", 1)
                           /\ pos > 10 => Ends("exec", "speed", 1)
                           /\ pos > 11 => Ends("exec", "reset", 0)
    BY <1>1 DEF IInv, Ordered
  <2>3. /\ pos = 10 => s.reg = "speed"
        /\ pos = 11 => s.reg = "reset"
        /\ pos = 12 => s.reg = "enable"
    BY <1>2, ScriptSteps
  <2>4. pos = 9 \/ pos = 10 \/ pos = 11 \/ pos = 12 \/ pos = 13  BY <1>3
  <2>5. "exec" \in {"quiet", "exec"} /\ {"upload", "speed", "reset"} \subseteq Regs  BY DEF Regs
  <2>6. CASE pos = 9 \/ pos = 13  BY <1>3, <2>1, <2>6
  <2>7. CASE pos = 10  BY <1>3, <2>1, <2>2, <2>3, <2>5, <2>7
  <2>8. CASE pos = 11  BY <1>3, <2>1, <2>2, <2>3, <2>5, <2>8
  <2>9. CASE pos = 12  BY <1>3, <2>1, <2>2, <2>3, <2>5, <2>9
  <2> QED  BY <2>4, <2>6, <2>7, <2>8, <2>9
<1>10. Silenced'
  <2>1. s.reg # "test"  BY <1>2, <1>3, Phases
  <2>2. NoTest => NoTest'  BY <1>4, <2>1 DEF NoTest
  <2>3. NoStale => NoStale'  BY <1>1 DEF NoStale
  <2> QED  BY <1>1, <1>3, <2>2, <2>3 DEF IInv, Silenced
<1> QED  BY <1>0, <1>1, <1>6, <1>7, <1>8, <1>9, <1>10 DEF IInv, AckMeansExecuted, NoStaleData

(* With one command at a time under way, an ACK is that of the command.      *)
LEMMA ExecReadStep == ASSUME IInv, ExecRead PROVE IInv'
<1>0. TypeOK /\ TypeOK'  BY TypeStartup DEF IInv, Startup
<1>1. PICK k \in 1 .. Len(up) :
         /\ up' = SubSeq(up, k + 1, Len(up))
         /\ Feed(SubSeq(up, 1, k))
  BY DEF ExecRead
<1>2. /\ UNCHANGED <<alive, down, regs, ours, executed, quietLost, execLost, cut, late>>
      /\ pc = "wait"
      /\ IF ackSeen'
         THEN Succeed /\ wrongAck' = (wrongAck \/ ~executed)
         ELSE UNCHANGED <<waiting, try, pos, pc, wrongAck, stopAcked>>
  BY DEF ExecRead, hasteVars, fpgaVars, lossVars
<1>3. /\ up \in Seq({Ack, Fresh, Stale}) /\ Len(up) \in Nat /\ DOMAIN up = 1 .. Len(up)
      /\ k \in 0 .. Len(up)
  BY <1>0 DEF TypeOK
<1>4. /\ NoAck => NoAck'
      /\ OneAck => OneAck'
      /\ NoStale => NoStale'
      /\ OneAck /\ (\E i \in 1 .. k : up[i] = Ack) => NoAck'
      /\ up = <<>> => up' = <<>>
  BY <1>0, <1>1, <1>3, Fewer
<1>5. Range(SubSeq(up, 1, k)) = {up[i] : i \in 1 .. k}  BY <1>3, PrefixShape
<1>6. alive /\ pos \in 9 .. 13 /\ ~stopAcked /\ ~ackSeen
  <2>1. up # <<>>  BY <1>1
  <2>2. alive  BY <1>2, <2>1 DEF IInv, Shape
  <2>3. pos \in 9 .. 13  BY <1>0, <1>2 DEF IInv, Shape, TypeOK
  <2> QED  BY <1>2, <2>2, <2>3 DEF IInv, Shape
<1>7. NoStaleData'
  <2> SUFFICES ASSUME ~quietLost, ~cut PROVE ~staleFed'
      BY <1>2 DEF NoStaleData
  <2>1. NoStale  BY <1>2, <1>6 DEF IInv, Silenced
  <2>2. Stale \notin Range(SubSeq(up, 1, k))  BY <1>3, <1>5, <2>1 DEF NoStale
  <2>3. ~staleFed  BY DEF IInv, NoStaleData
  <2> QED  BY <1>1, <2>2, <2>3 DEF Feed
<1>8. CASE ~ackSeen'
  <2>1. UNCHANGED <<pos, pc, wrongAck, stopAcked>>  BY <1>2, <1>8
  <2>2. (pc = "wait" => ackSeen' = ackSeen) /\ (pos < 9 => staleFed' = staleFed)
    <3>1. ackSeen' = ackSeen  BY <1>0, <1>6, <1>8 DEF TypeOK
    <3> QED  BY <1>6, <3>1
  <2>3. Shape' /\ OneAtATime' /\ Settled' /\ Ordered' /\ Silenced' /\ AckMeansExecuted'
    BY <1>1, <1>2, <1>3, <2>1, <2>2, FewerStep
  <2> QED  BY <1>0, <1>7, <2>3 DEF IInv
<1>9. CASE ackSeen'
  <2>1. Succeed /\ wrongAck' = (wrongAck \/ ~executed)  BY <1>2, <1>9
  <2>2. \E i \in 1 .. k : up[i] = Ack
    <3>1. Ack \in Range(SubSeq(up, 1, k))  BY <1>1, <1>6, <1>9 DEF Feed
    <3> QED  BY <1>5, <3>1
  <2>3. ~NoAck  BY <1>3, <2>2 DEF NoAck
  <2>4. Patient => down = <<>> /\ OneAck /\ executed /\ Awaited
    BY <1>2, <2>3 DEF IInv, OneAtATime, Outstanding
  <2>5. Patient => NoAck'  BY <1>4, <2>2, <2>4
  <2>6. AckMeansExecuted'
    BY <1>2, <2>1, <2>4 DEF IInv, AckMeansExecuted, Patient
  <2>7. /\ pos < 12 => pos' = pos + 1 /\ pc' = "step"
        /\ pos = 12 => pos' = 12 /\ pc' = "running"
        /\ pos = 13 => pos' = 13 /\ pc' = "ended"
        /\ pos < 13 => ~stopAcked'
    <3>1. Started = 12  BY ScriptSteps
    <3>2. /\ pos < 12 => pos' = pos + 1 /\ pc' = "step"
          /\ pos = 12 => pos' = 12 /\ pc' = "running"
          /\ pos = 13 => pos' = 13 /\ pc' = "ended"
      BY <1>6, <2>1, <3>1 DEF Succeed
    <3>3. stopAcked' = (pos > 12)  BY <2>1, <3>1 DEF Succeed
    <3>4. pos < 13 => ~(pos > 12)  BY <1>6
    <3> QED  BY <3>2, <3>3, <3>4
  <2>8. pos' >= 9 /\ pc' # "wait" /\ (pc' = "running" => pos' = 12)  BY <1>6, <2>7
  <2>9. Shape'
    <3>1. stopAcked' => pc' = "ended"  BY <1>6, <2>7
    <3>2. alive' /\ ~(pos' < 9)
      <4>1. pos' \in 1 .. 13  BY <1>0 DEF TypeOK
      <4> QED  BY <1>2, <1>6, <2>8, <4>1
    <3> QED  BY <2>8, <3>1, <3>2 DEF Shape
  <2>10. OneAtATime'  BY <1>2, <2>4, <2>5, <2>8 DEF OneAtATime, Patient
  <2>11. pos = 9 \/ pos = 10 \/ pos = 11 \/ pos = 12 \/ pos = 13  BY <1>6
  <2>12. Settled'
    <3> SUFFICES ASSUME Patient PROVE Settled'
        BY <1>2 DEF Settled, Patient
    <3>1. pos \in 9 .. 12 => /\ pos > 9 => regs["upload"] = 1
                             /\ pos > 10 => regs["speed"] = 1
                             /\ pos > 11 => regs["reset"] = 0
      BY <1>2 DEF IInv, Settled
    <3>2. regs[Script[pos].reg] = Script[pos].val /\ down = <<>>  BY <2>4 DEF Awaited
    <3>3. CASE pos = 9
      <4>1. regs["upload"] = 1  BY <3>2, <3>3, ScriptSteps
      <4> QED  BY <1>2, <2>7, <3>3, <4>1 DEF Settled
    <3>4. CASE pos = 10
      <4>1. regs["speed"] = 1  BY <3>2, <3>4, ScriptSteps
      <4> QED  BY <1>2, <2>7, <3>1, <3>4, <4>1 DEF Settled
    <3>5. CASE pos = 11
      <4>1. regs["reset"] = 0  BY <3>2, <3>5, ScriptSteps
      <4> QED  BY <1>2, <2>7, <3>1, <3>5, <4>1 DEF Settled
    <3>6. CASE pos = 12
      <4>1. regs["enable"] = 1  BY <3>2, <3>6, ScriptSteps
      <4> QED  BY <1>2, <2>7, <3>1, <3>6, <4>1 DEF Settled
    <3>7. CASE pos = 13
      <4>1. regs["enable"] = 0  BY <3>2, <3>7, ScriptSteps
      <4> QED  BY <1>2, <2>7, <3>2, <3>7, <4>1 DEF Settled
    <3> QED  BY <2>11, <3>3, <3>4, <3>5, <3>6, <3>7
  <2>13. Ordered'
    <3> SUFFICES ASSUME ~execLost PROVE Ordered'
        BY <1>2 DEF Ordered
    <3>1. pos \in 9 .. 12 => /\ pos > 9 => Ends("exec", "upload", 1)
                             /\ pos > 10 => Ends("exec", "speed", 1)
                             /\ pos > 11 => Ends("exec", "reset", 0)
      BY <1>2 DEF IInv, Ordered
    <3>2. Ends("exec", Script[pos].reg, Script[pos].val)  BY <1>2 DEF IInv, Ordered
    <3>3. ASSUME NEW r, NEW v, Ends("exec", r, v) PROVE Ends("exec", r, v)'
      BY <1>2, <3>3 DEF Ends
    <3>4. CASE pos = 9
      <4>1. Ends("exec", "upload", 1)  BY <3>2, <3>4, ScriptSteps
      <4> QED  BY <2>7, <3>3, <3>4, <4>1 DEF Ordered
    <3>5. CASE pos = 10
      <4>1. Ends("exec", "speed", 1)  BY <3>2, <3>5, ScriptSteps
      <4> QED  BY <2>7, <3>1, <3>3, <3>5, <4>1 DEF Ordered
    <3>6. CASE pos = 11
      <4>1. Ends("exec", "reset", 0)  BY <3>2, <3>6, ScriptSteps
      <4> QED  BY <2>7, <3>1, <3>3, <3>6, <4>1 DEF Ordered
    <3>7. CASE pos = 12
      <4>1. Ends("exec", "enable", 1)  BY <3>2, <3>7, ScriptSteps
      <4> QED  BY <2>7, <3>1, <3>3, <3>7, <4>1 DEF Ordered
    <3>8. CASE pos = 13
      <4>1. Ends("exec", "enable", 0)  BY <3>2, <3>8, ScriptSteps
      <4> QED  BY <2>7, <3>3, <3>8, <4>1 DEF Ordered
    <3> QED  BY <2>11, <3>4, <3>5, <3>6, <3>7, <3>8
  <2>14. Silenced'
    <3>1. alive /\ ~quietLost /\ ~cut => /\ regs["enable"] = 0 \/ ours
                                         /\ regs["test"] = 0 /\ NoTest /\ NoStale
      BY <1>2, <1>6 DEF IInv, Silenced
    <3>2. NoTest => NoTest'  BY <1>2 DEF NoTest
    <3>3. pos' \notin 2 .. 8 /\ pos' # 8  BY <2>8
    <3> QED  BY <1>2, <1>4, <3>1, <3>2, <3>3 DEF Silenced
  <2> QED  BY <1>0, <1>7, <2>6, <2>9, <2>10, <2>12, <2>13, <2>14 DEF IInv
<1> QED  BY <1>8, <1>9

(* cmd_exec gives up; only the end of the session sends another command.     *)
LEMMA FailStep ==
    ASSUME TypeOK, Fail, pos \in 9 .. 13, ~stopAcked,
           UNCHANGED <<pos, alive, up, stopAcked>>,
           ~alive => down = <<>> /\ up = <<>>
    PROVE  Shape' /\ OneAtATime' /\ Settled' /\ Ordered' /\ Silenced'
<1>1. pc' \in {"reset", "failed", "ended"}  BY DEF Fail
<1>2. ~alive => down' = down
  <2>1. CASE pos > Started  BY <2>1, CommandStep, Sending DEF Fail
  <2>2. CASE ~(pos > Started)  BY <2>2 DEF Fail
  <2> QED  BY <2>1, <2>2
<1>3. Shape'
  <2>1. ~(pos' < 9) /\ pc' # "wait" /\ pc' # "running"  BY <1>1
  <2> QED  BY <1>2, <2>1 DEF Shape
<1>4. OneAtATime' /\ Settled' /\ Ordered' /\ Silenced'
  BY <1>1 DEF OneAtATime, Settled, Ordered, Silenced
<1> QED  BY <1>3, <1>4

(* A time-out that is not too early leaves nothing under way either.         *)
LEMMA ExecTimeoutStep == ASSUME IInv, ExecTimeout PROVE IInv'
<1>0. TypeOK /\ TypeOK'  BY TypeStartup DEF IInv, Startup
<1>1. /\ UNCHANGED <<pos, ackSeen, alive, up, regs, ours, quietLost, execLost, cut>>
      /\ UNCHANGED <<stopAcked, staleFed, wrongAck>>
      /\ pc = "wait" /\ alive
      /\ late' = (late \/ UnderWay)
  BY DEF ExecTimeout, obsVars, fpgaVars, lossVars
<1>2. pos \in 9 .. 13 /\ ~stopAcked  BY <1>0, <1>1 DEF IInv, Shape, TypeOK
<1>3. AckMeansExecuted' /\ NoStaleData'  BY <1>1 DEF IInv, AckMeansExecuted, NoStaleData
<1>4. CASE try + 1 < Retries
  <2>1. pc' = "step" /\ down' = down  BY <1>4 DEF ExecTimeout
  <2>2. Shape'  BY <1>1, <1>2, <2>1 DEF Shape
  <2>3. OneAtATime'
    <3> SUFFICES ASSUME Patient' PROVE down' = <<>> /\ NoAck'
        BY <2>1 DEF OneAtATime
    <3>1. ~UnderWay  BY <1>1 DEF Patient
    <3>2. down = <<>> /\ Ack \notin Range(up)  BY <3>1 DEF UnderWay
    <3> QED  BY <1>1, <2>1, <3>2 DEF NoAck, Range
  <2>4. Settled'
    <3>1. Patient' => Patient  BY <1>1 DEF Patient
    <3> QED  BY <1>1, <1>2, <2>1, <3>1 DEF IInv, Settled
  <2>5. Ordered'
    <3>1. ASSUME NEW r, NEW v, Ends("exec", r, v) PROVE Ends("exec", r, v)'
      BY <1>1, <2>1, <3>1 DEF Ends
    <3> QED  BY <1>1, <1>2, <2>1, <3>1 DEF IInv, Ordered
  <2>6. Silenced'
    <3>1. (NoStale => NoStale') /\ (NoTest => NoTest')  BY <1>1, <2>1 DEF NoStale, NoTest
    <3> QED  BY <1>1, <1>2, <2>1, <3>1 DEF IInv, Silenced
  <2> QED  BY <1>0, <1>3, <2>2, <2>3, <2>4, <2>5, <2>6 DEF IInv
<1>5. CASE ~(try + 1 < Retries)
  <2>1. Fail  BY <1>5 DEF ExecTimeout
  <2>2. Shape' /\ OneAtATime' /\ Settled' /\ Ordered' /\ Silenced'
    BY <1>0, <1>1, <1>2, <2>1, FailStep
  <2> QED  BY <1>0, <1>3, <2>2 DEF IInv
<1> QED  BY <1>4, <1>5

LEMMA ExecGoneStep == ASSUME IInv, ExecGone PROVE IInv'
<1>0. TypeOK /\ TypeOK'  BY TypeStartup DEF IInv, Startup
<1>1. /\ UNCHANGED <<pos, alive, up, quietLost, cut, late, stopAcked, staleFed, wrongAck>>
      /\ At("exec") \/ pc = "wait"
      /\ ~alive /\ Fail
  BY DEF ExecGone, obsVars, hasteVars, fpgaVars, lossVars
<1>2. pc = "step" \/ pc = "wait"  BY <1>1 DEF At
<1>3. pos \in 9 .. 13
  <2>1. At("exec") => pos \in 9 .. 13  BY <1>0, Phases DEF At, TypeOK
  <2>2. pc = "wait" => pos \in 9 .. 13  BY <1>0 DEF IInv, Shape, TypeOK
  <2> QED  BY <1>1, <2>1, <2>2
<1>4. ~stopAcked /\ down = <<>> /\ up = <<>>  BY <1>1, <1>2 DEF IInv, Shape
<1>5. Shape' /\ OneAtATime' /\ Settled' /\ Ordered' /\ Silenced'
  BY <1>0, <1>1, <1>3, <1>4, FailStep
<1> QED  BY <1>0, <1>1, <1>5 DEF IInv, AckMeansExecuted, NoStaleData

LEMMA ResetStep == ASSUME IInv, ResetDevice \/ ResetFails PROVE IInv'
<1>0. TypeOK /\ TypeOK'  BY TypeStartup DEF IInv, Startup
<1>1. stopAcked' = stopAcked /\ pc = "reset"  BY DEF ResetDevice, ResetFails, obsVars
<1>2. ~stopAcked'  BY <1>1 DEF IInv, Shape
<1>3. CASE ResetDevice
  <2>1. /\ down' = <<>> /\ up' = <<>> /\ pos' = 1 /\ pc' = "step"
        /\ ~wrongAck' /\ ~staleFed'
    BY <1>3 DEF ResetDevice
  <2>2. DOMAIN down' = {}  BY <2>1
  <2>3. Shape'  BY <1>2, <2>1, <2>2 DEF Shape
  <2>4. OneAtATime' /\ Settled' /\ Ordered'
    <3>1. pos' \in 1 .. 8  BY <2>1
    <3> QED  BY <1>2, <2>1, <3>1, Preparing
  <2>5. Silenced'  BY <2>1 DEF Silenced
  <2> QED  BY <1>0, <2>1, <2>3, <2>4, <2>5 DEF IInv, AckMeansExecuted, NoStaleData
<1>4. CASE ResetFails
  <2>1. /\ pc' = "failed"
        /\ UNCHANGED <<pos, ackSeen, down, wrongAck, staleFed, quietLost, cut, late>>
    BY <1>4 DEF ResetFails, cmdVars, obsVars, hasteVars, lossVars
  <2>2. Shape'  BY <1>2, <2>1 DEF IInv, Shape
  <2>3. OneAtATime' /\ Settled' /\ Ordered' /\ Silenced'
    BY <1>2, <2>1 DEF OneAtATime, Settled, Ordered, Silenced
  <2> QED  BY <1>0, <2>1, <2>2, <2>3 DEF IInv, AckMeansExecuted, NoStaleData
<1> QED  BY <1>3, <1>4

LEMMA RunReadStep == ASSUME IInv, RunRead PROVE IInv'
<1>0. TypeOK /\ TypeOK'  BY TypeStep DEF IInv, Next
<1>1. /\ UNCHANGED <<pos, pc, alive, down, regs, ours, executed>>
      /\ UNCHANGED <<quietLost, execLost, cut, late, stopAcked, wrongAck>>
      /\ pc = "running" /\ alive /\ up # <<>> /\ up' = Tail(up)
      /\ Feed(<<Head(up)>>)
  BY DEF RunRead, hasteVars, fpgaVars, lossVars
<1>2. pos = 12  BY <1>1 DEF IInv, Shape
<1>3. Shape' /\ OneAtATime' /\ Settled' /\ Ordered' /\ Silenced' /\ AckMeansExecuted'
  BY <1>0, <1>1, <1>2, OneFewer, FewerStep
<1>4. NoStaleData'
  <2> SUFFICES ASSUME ~quietLost, ~cut PROVE ~staleFed'
      BY <1>1 DEF NoStaleData
  <2>1. NoStale  BY <1>1, <1>2 DEF IInv, Silenced
  <2>2. Head(up) # Stale
    <3>1. up \in Seq({Ack, Fresh, Stale})  BY <1>0 DEF TypeOK
    <3>2. Head(up) = up[1] /\ 1 \in DOMAIN up  BY <1>1, <3>1
    <3> QED  BY <2>1, <3>2 DEF NoStale
  <2>3. Stale \notin Range(<<Head(up)>>)
    <3>1. DOMAIN <<Head(up)>> = {1} /\ <<Head(up)>>[1] = Head(up)  OBVIOUS
    <3> QED  BY <2>2, <3>1 DEF Range
  <2>4. ~staleFed  BY DEF IInv, NoStaleData
  <2> QED  BY <1>1, <2>3, <2>4 DEF Feed
<1> QED  BY <1>0, <1>3, <1>4 DEF IInv

LEMMA RunEndStep == ASSUME IInv, RunEnd PROVE IInv'
<1>0. TypeOK /\ TypeOK'  BY TypeStep DEF IInv, Next
<1>1. /\ UNCHANGED <<ackSeen, alive, down, up, regs, ours, quietLost, execLost, cut, late>>
      /\ UNCHANGED <<stopAcked, staleFed, wrongAck>>
      /\ pc = "running" /\ pos' = 13
      /\ pc' \in {"step", "ended"}
  BY ScriptSteps DEF RunEnd, cmdVars, obsVars, hasteVars, fpgaVars, lossVars
<1>2. pos = 12 /\ ~stopAcked /\ (~alive => down = <<>> /\ up = <<>>)
  BY <1>1 DEF IInv, Shape
<1>3. (NoAck => NoAck') /\ (NoStale => NoStale') /\ (NoTest => NoTest')
  BY <1>1 DEF NoAck, NoStale, NoTest
<1>4. Shape'  BY <1>1, <1>2 DEF Shape
<1>5. OneAtATime'  BY <1>1, <1>3 DEF IInv, OneAtATime, Patient
<1>6. Settled' /\ Ordered'  BY <1>1, <1>2 DEF Settled, Ordered
<1>7. Silenced'
  <2>1. alive /\ ~quietLost /\ ~cut => /\ regs["enable"] = 0 \/ ours
                                       /\ regs["test"] = 0 /\ NoTest /\ NoStale
    BY <1>1, <1>2 DEF IInv, Silenced
  <2> QED  BY <1>1, <1>3, <2>1 DEF Silenced
<1> QED  BY <1>0, <1>1, <1>4, <1>5, <1>6, <1>7 DEF IInv, AckMeansExecuted, NoStaleData

LEMMA InitIInv == ASSUME Init PROVE IInv
<1>1. TypeOK  BY InitType
<1>2. /\ pos = 1 /\ pc = "step" /\ alive /\ down = <<>>
      /\ ~wrongAck /\ ~staleFed /\ ~stopAcked
  BY DEF Init
<1>3. DOMAIN down = {}  BY <1>2
<1>4. Shape  BY <1>2, <1>3 DEF Shape
<1>5. OneAtATime /\ Settled /\ Ordered /\ Silenced
  BY <1>2 DEF OneAtATime, Settled, Ordered, Silenced
<1> QED  BY <1>1, <1>2, <1>4, <1>5 DEF IInv, AckMeansExecuted, NoStaleData

LEMMA NextIInv == ASSUME IInv, [Next]_vars PROVE IInv'
<1>1. CASE Fpga
  BY <1>1, ExecutesStep, SendsStep, CommandLostStep, AckLostStep, DeviceGoneStep DEF Fpga
<1>2. CASE Startup
  BY <1>2, QuietStep, DiscardReadStep, DiscardEndStep, ProbeStep, ExecSendStep, ExecReadStep,
     ExecTimeoutStep, ExecGoneStep, ResetStep DEF Startup
<1>3. CASE UNCHANGED vars
  BY <1>3 DEF vars, hostVars, cmdVars, obsVars, hasteVars, lossVars, fpgaVars, IInv, TypeOK, Shape,
     OneAtATime, Patient, Outstanding, Awaited, Settled, Ordered, Silenced, Ends, NoAck, OneAck,
     NoStale, NoTest, AckMeansExecuted, NoStaleData
<1> QED  BY <1>1, <1>2, <1>3, RunReadStep, RunEndStep DEF Next, Over

-----------------------------------------------------------------------------
(* The inductive invariant holds of every behaviour, whatever the FPGA and   *)
(* the link do.                                                              *)
THEOREM Invariance == Spec => []IInv
<1>1. Init => IInv  BY InitIInv
<1>2. IInv /\ [Next]_vars => IInv'  BY NextIInv
<1> QED  BY <1>1, <1>2, PTL DEF Spec

(* cmd_exec returns true only for a command that the FPGA executed since it  *)
(* was called, for any number of retries and any loss, as long as no flush   *)
(* and no time-out came while something was still under way.                 *)
THEOREM AckedIsExecuted == Spec => []AckMeansExecuted
<1>1. IInv => AckMeansExecuted  BY DEF IInv
<1> QED  BY <1>1, Invariance, PTL

(* While the capture runs the FPGA has the settings of capture_init_cmds, or *)
(* has them once the commands under way are executed when ACKs were taken    *)
(* for those of other commands; the same of an acknowledged stop.            *)
THEOREM SettingsHold == Spec => []SettingsInForce
<1>1. IInv => SettingsInForce
  <2> SUFFICES ASSUME IInv PROVE SettingsInForce
      OBVIOUS
  <2>1. pc = "running" => pos = 12  BY DEF IInv, Shape
  <2>2. ASSUME pc = "running", NEW s \in Settings
        PROVE  /\ ~late /\ ~cut => regs[s[1]] = s[2]
               /\ ~execLost => Ends("exec", s[1], s[2])
    <3>1. ~late /\ ~cut => /\ regs["upload"] = 1 /\ regs["speed"] = 1
                           /\ regs["reset"] = 0 /\ regs["enable"] = 1
      BY <2>1, <2>2 DEF IInv, Settled, Patient
    <3>2. ~execLost => /\ Ends("exec", "upload", 1) /\ Ends("exec", "speed", 1)
                       /\ Ends("exec", "reset", 0) /\ Ends("exec", "enable", 1)
      BY <2>1, <2>2 DEF IInv, Ordered
    <3>3. \/ s[1] = "upload" /\ s[2] = 1
          \/ s[1] = "speed" /\ s[2] = 1
          \/ s[1] = "reset" /\ s[2] = 0
          \/ s[1] = "enable" /\ s[2] = 1
      BY <2>2 DEF Settings
    <3> QED  BY <3>1, <3>2, <3>3
  <2>3. stopAcked => /\ ~late /\ ~cut => regs["enable"] = 0
                     /\ ~execLost => Ends("exec", "enable", 0)
    BY DEF IInv, Settled, Ordered, Patient
  <2> QED  BY <2>2, <2>3 DEF SettingsInForce
<1> QED  BY <1>1, Invariance, PTL

(* No data of an earlier session or of the link probe reaches the packet     *)
(* layer, unless an unacknowledged command was lost or the flush ended with  *)
(* something under way.                                                      *)
THEOREM StaleStaysOut == Spec => []NoStaleData
<1>1. IInv => NoStaleData  BY DEF IInv
<1> QED  BY <1>1, Invariance, PTL
=============================================================================
