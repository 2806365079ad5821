------------------------------- MODULE CmdLink ------------------------------
(* The control plane of a capture session: the startup and the end of        *)
(* run_capture_gen2 in main.c over the command layer, cmd.c.  Commands go    *)
(* down to the FPGA, which answers each with an ACK block that does not say  *)
(* which command it acknowledges; data blocks come up between the ACKs.      *)
(*                                                                           *)
(* A command under way is the step of the script that sent it.  The sequence *)
(* counter of the command layer is left out: the FPGA does not look at it.   *)
EXTENDS Integers, Sequences, SequencesExt

CONSTANTS Retries,    \* UHSIF_CMD_RETRIES
          DiscardCap, \* reads of tl_discard: 50 in the code
          MaxLost,    \* bound: commands and ACKs lost on the way
          MaxData     \* bound: data blocks the FPGA sends

ASSUME ConstantsAssumption == /\ Retries \in Nat \ {0} /\ DiscardCap \in Nat \ {0}
                              /\ MaxLost \in Nat /\ MaxData \in Nat

(* An attempt of run_capture_gen2 to start: capture_stop_and_flush,          *)
(* capture_speed_probe and capture_init_cmds.  The step after the last one   *)
(* is the command that ends the session.                                     *)
Step(op, reg, val) == [op |-> op, reg |-> reg, val |-> val]
ScriptFlushFirst ==
          << Step("quiet", "enable", 0), Step("quiet", "reset", 1),
             Step("discard", "none", 0),
             Step("quiet", "upload", 1), Step("quiet", "test", 1),
             Step("probe", "none", 0),
             Step("discard", "none", 0), Step("quiet", "test", 0),
             Step("exec", "upload", 1), Step("exec", "speed", 1),
             Step("exec", "reset", 0), Step("exec", "enable", 1),
             Step("exec", "enable", 0) >>

Script == << Step("quiet", "enable", 0), Step("quiet", "reset", 1),
             Step("discard", "none", 0),
             Step("quiet", "upload", 1), Step("quiet", "test", 1),
             Step("probe", "none", 0),
             Step("quiet", "test", 0), Step("discard", "none", 0),
             Step("exec", "upload", 1), Step("exec", "speed", 1),
             Step("exec", "reset", 0), Step("exec", "enable", 1),
             Step("exec", "enable", 0) >>
Started == Len(Script) - 1
Regs == {"enable", "reset", "test", "upload", "speed"}

(* Blocks that come up: ACKs, data captured since this attempt enabled the   *)
(* capture, and any other data.                                              *)
Ack   == "ack"
Fresh == "fresh"
Stale == "stale"

VARIABLES attempt,   \* of the startup loop
          pos,       \* step of the script
          pc,        \* "step", "wait" (for the ACK), "reset", "running", "ended" or
                     \* "failed" (os_error)
          try,       \* attempt of cmd_exec
          reads,     \* reads of tl_discard
          waiting, ackSeen, suppress,   \* struct cmd
          alive,     \* transport_alive
          down, up,  \* commands and blocks under way
          regs,      \* registers of the FPGA
          ours,      \* the FPGA executed an enable of this attempt
          executed,  \* the FPGA executed the command since cmd_exec was called
          lost, data,
          stopAcked,
          \* History of this attempt:
          quietLost, execLost,  \* a command of cmd_tx_quiet, of cmd_exec was lost
          cut,       \* the last flush ended with something still under way
          late,      \* a time-out came before a command or an ACK under way did
          wrongAck,  \* a command was taken for acknowledged and was not executed
          staleFed   \* stale data reached the packet layer

cmdVars  == <<waiting, ackSeen, suppress>>
obsVars  == <<wrongAck, staleFed, stopAcked>>
hasteVars == <<cut, late>>
hostVars == <<attempt, pos, pc, try, reads, cmdVars, obsVars, hasteVars>>
fpgaVars == <<regs, ours, data>>
lossVars == <<lost, quietLost, execLost>>
vars == <<hostVars, alive, down, up, fpgaVars, executed, lossVars>>

(* The transport is open.  An earlier session may have been killed while the *)
(* FPGA captured, and blocks of it may be under way.                         *)
Init == /\ attempt = 0 /\ pos = 1 /\ pc = "step" /\ try = 0 /\ reads = 0
        /\ waiting = FALSE /\ ackSeen = FALSE /\ suppress = TRUE
        /\ alive = TRUE /\ down = <<>> /\ up \in {<<>>, <<Stale>>, <<Ack>>}
        /\ \E e \in {0, 1} : regs = [r \in Regs |-> IF r = "enable" THEN e ELSE 0]
        /\ ours = FALSE /\ executed = FALSE
        /\ lost = 0 /\ data = 0 /\ stopAcked = FALSE
        /\ quietLost = FALSE /\ execLost = FALSE /\ cut = FALSE /\ late = FALSE
        /\ wrongAck = FALSE /\ staleFed = FALSE

-----------------------------------------------------------------------------
(* The FPGA, and the way to it and back.                                     *)

FpgaExecutes ==
    /\ down # <<>>
    /\ LET c == Head(down)
       IN /\ regs' = [regs EXCEPT ![c.reg] = c.val]
          /\ ours' = (ours \/ (c.reg = "enable" /\ c.val = 1))
          /\ executed' = (executed \/ c = Script[pos])
    /\ down' = Tail(down)
    /\ up' = Append(up, Ack)
    /\ UNCHANGED <<hostVars, alive, data, lossVars>>

FpgaSends == /\ regs["enable"] = 1 \/ regs["test"] = 1
             /\ alive /\ data < MaxData
             /\ data' = data + 1
             /\ up' = Append(up, IF ours /\ regs["test"] = 0 THEN Fresh ELSE Stale)
             /\ UNCHANGED <<hostVars, alive, down, regs, ours, executed, lossVars>>

CommandLost == /\ down # <<>> /\ lost < MaxLost
               /\ lost' = lost + 1
               /\ quietLost' = (quietLost \/ Head(down).op = "quiet")
               /\ execLost' = (execLost \/ Head(down).op = "exec")
               /\ down' = Tail(down)
               /\ UNCHANGED <<hostVars, alive, up, fpgaVars, executed>>

AckLost == /\ up # <<>> /\ Head(up) = Ack /\ lost < MaxLost
           /\ lost' = lost + 1
           /\ up' = Tail(up)
           /\ UNCHANGED <<hostVars, alive, down, fpgaVars, executed, quietLost, execLost>>

DeviceGone == /\ alive /\ lost < MaxLost
              /\ lost' = lost + 1
              /\ alive' = FALSE /\ down' = <<>> /\ up' = <<>>
              /\ quietLost' = (quietLost \/ \E k \in DOMAIN down : down[k].op = "quiet")
              /\ execLost' = (execLost \/ \E k \in DOMAIN down : down[k].op = "exec")
              /\ UNCHANGED <<hostVars, fpgaVars, executed>>

-----------------------------------------------------------------------------
(* The host.                                                                 *)

At(op) == pc = "step" /\ Script[pos].op = op

(* transport_write; false when the transport is gone.                        *)
Transmit(step) == down' = IF alive THEN Append(down, step) ELSE down

(* cmd_tx_quiet: nobody waits for the ACK, a failure is only logged.         *)
QuietCommand == /\ At("quiet")
                /\ Transmit(Script[pos])
                /\ pos' = pos + 1
                /\ UNCHANGED <<attempt, pc, try, reads, cmdVars, obsVars, hasteVars, alive,
                               up, fpgaVars, executed, lossVars>>

(* tl_discard: blocks are read and dropped until a read times out, the       *)
(* device is gone, or the cap is reached; nothing says that the FPGA is      *)
(* through with its commands by then, or that all it sent has been read.     *)
DiscardRead == /\ At("discard") /\ up # <<>> /\ reads < DiscardCap
               /\ up' = Tail(up)
               /\ reads' = reads + 1
               /\ UNCHANGED <<attempt, pos, pc, try, cmdVars, obsVars, hasteVars, alive,
                              down, fpgaVars, executed, lossVars>>

DiscardEnd == /\ At("discard")
              /\ up = <<>> \/ reads = DiscardCap
              /\ pos' = pos + 1
              /\ reads' = 0
              /\ cut' = (down # <<>> \/ up # <<>>)
              /\ UNCHANGED <<attempt, pc, try, cmdVars, obsVars, late, alive, down, up,
                             fpgaVars, executed, lossVars>>

(* transport_probe_upstream: what comes during the window is counted only.   *)
Probe == /\ At("probe")
         /\ \E k \in 0 .. Len(up) : up' = SubSeq(up, k + 1, Len(up))
         /\ pos' = pos + 1
         /\ UNCHANGED <<attempt, pc, try, reads, cmdVars, obsVars, hasteVars, alive, down,
                        fpgaVars, executed, lossVars>>

(* cmd_exec sends its command, again after a time-out.                       *)
ExecSendKeepsAck ==
            /\ At("exec") /\ alive
            /\ Transmit(Script[pos])
            /\ executed' = (executed /\ try > 0)
            /\ suppress' = FALSE /\ waiting' = TRUE
            /\ pc' = "wait"
            /\ UNCHANGED <<attempt, pos, try, reads, ackSeen, obsVars, hasteVars, alive, up,
                           fpgaVars, lossVars>>

ExecSend == /\ At("exec") /\ alive
            /\ Transmit(Script[pos])
            /\ executed' = (executed /\ try > 0)
            /\ suppress' = FALSE /\ waiting' = TRUE /\ ackSeen' = FALSE
            /\ pc' = "wait"
            /\ UNCHANGED <<attempt, pos, try, reads, obsVars, hasteVars, alive, up, fpgaVars,
                           lossVars>>

(* The blocks that a read returns go through the stream layer: data_cb drops *)
(* data while it is suppressed, cmd_ack_event ignores an ACK nobody awaits.  *)
Feed(blocks) == /\ ackSeen' = (ackSeen \/ (waiting /\ Ack \in Range(blocks)))
                /\ staleFed' = (staleFed \/ (~suppress /\ Stale \in Range(blocks)))

(* cmd_exec returns true.                                                    *)
Succeed == /\ waiting' = FALSE /\ try' = 0
           /\ pos' = IF pos < Started THEN pos + 1 ELSE pos
           /\ pc' = CASE pos < Started -> "step"
                      [] pos = Started -> "running"
                      [] OTHER -> "ended"
           /\ stopAcked' = (pos > Started)

(* cmd_exec returns false: the first attempt to start resets the device, the *)
(* second one gives up; the command at the end is sent once more, quietly.   *)
Fail == /\ waiting' = FALSE /\ try' = 0
        /\ pc' = CASE pos > Started -> "ended"
                   [] attempt = 0 /\ pos <= Started -> "reset"
                   [] OTHER -> "failed"
        /\ IF pos > Started THEN Transmit([Script[pos] EXCEPT !.op = "quiet"])
                            ELSE UNCHANGED down

ExecRead ==
    /\ pc = "wait"
    /\ \E k \in 1 .. Len(up) :
          /\ up' = SubSeq(up, k + 1, Len(up))
          /\ Feed(SubSeq(up, 1, k))
    /\ IF ackSeen'
       THEN /\ Succeed
            /\ wrongAck' = (wrongAck \/ ~executed)
       ELSE UNCHANGED <<waiting, try, pos, pc, wrongAck, stopAcked>>
    /\ UNCHANGED <<attempt, reads, suppress, hasteVars, alive, down, fpgaVars, executed,
                   lossVars>>

(* The deadline passes without an ACK, by the clock: the command may still   *)
(* be on its way to the FPGA, and an ACK on its way back.                    *)
UnderWay == down # <<>> \/ Ack \in Range(up)

ExecTimeoutRearmed == pc = "wait" /\ alive /\ UNCHANGED vars

ExecTimeoutIgnored ==
    /\ pc = "wait" /\ alive
    /\ late' = (late \/ UnderWay)
    /\ Succeed
    /\ UNCHANGED <<attempt, reads, ackSeen, suppress, wrongAck, staleFed, cut, alive,
                   up, down, executed, fpgaVars, lossVars>>

ExecTimeout ==
    /\ pc = "wait" /\ alive
    /\ late' = (late \/ UnderWay)
    /\ IF try + 1 < Retries
       THEN /\ waiting' = FALSE /\ try' = try + 1 /\ pc' = "step"
            /\ UNCHANGED down
       ELSE Fail
    /\ UNCHANGED <<attempt, pos, reads, ackSeen, suppress, obsVars, cut, alive, up,
                   fpgaVars, executed, lossVars>>

(* The transport is gone, when the command is sent or while it waits.        *)
ExecGone == /\ At("exec") \/ pc = "wait"
            /\ ~alive
            /\ Fail
            /\ UNCHANGED <<attempt, pos, reads, ackSeen, suppress, obsVars, hasteVars,
                           alive, up, fpgaVars, executed, lossVars>>

(* transport_reset_device, cmd_init, and the second attempt; or the device   *)
(* does not come back.                                                       *)
ResetDevice == /\ pc = "reset"
               /\ down' = <<>> /\ up' = <<>>
               /\ attempt' = 1 /\ pos' = 1 /\ pc' = "step" /\ alive' = TRUE
               /\ waiting' = FALSE /\ ackSeen' = FALSE /\ suppress' = TRUE
               /\ ours' = FALSE /\ quietLost' = FALSE /\ execLost' = FALSE
               /\ cut' = FALSE /\ late' = FALSE /\ wrongAck' = FALSE /\ staleFed' = FALSE
               /\ UNCHANGED <<try, reads, stopAcked, regs, executed, data, lost>>

ResetFails == /\ pc = "reset"
              /\ pc' = "failed" /\ alive' = FALSE
              /\ UNCHANGED <<attempt, pos, try, reads, cmdVars, obsVars, hasteVars, down, up,
                             fpgaVars, executed, lossVars>>

(* The main loop, and its end: the stop command only while the transport is  *)
(* alive.                                                                    *)
RunRead == /\ pc = "running" /\ alive /\ up # <<>>
           /\ Feed(<<Head(up)>>)
           /\ up' = Tail(up)
           /\ UNCHANGED <<attempt, pos, pc, try, reads, waiting, suppress, wrongAck,
                          stopAcked, hasteVars, alive, down, fpgaVars, executed, lossVars>>

RunEnd == /\ pc = "running"
          /\ pos' = Len(Script)
          /\ pc' = IF alive THEN "step" ELSE "ended"
          /\ UNCHANGED <<attempt, try, reads, cmdVars, obsVars, hasteVars, alive, down, up,
                         fpgaVars, executed, lossVars>>

Over == pc \in {"ended", "failed"} /\ UNCHANGED vars

Fpga == FpgaExecutes \/ FpgaSends \/ CommandLost \/ AckLost \/ DeviceGone

Startup == \/ QuietCommand \/ DiscardRead \/ DiscardEnd \/ Probe
           \/ ExecSend \/ ExecRead \/ ExecTimeout \/ ExecGone \/ ResetDevice \/ ResetFails

Next == Fpga \/ Startup \/ RunRead \/ RunEnd \/ Over

Spec == Init /\ [][Next]_vars

(* The host is one thread that never waits without a time-out.  Nothing is   *)
(* assumed of the FPGA, which may answer late or never.                      *)
FairSpec == Spec /\ WF_vars(Startup)

-----------------------------------------------------------------------------
(* The value that register r has once the commands under way are executed,   *)
(* the last one that writes it being one of cmd_exec or of cmd_tx_quiet.     *)
Ends(op, r, v) ==
    \/ /\ regs[r] = v
       /\ \A i \in DOMAIN down : down[i].reg # r
    \/ \E i \in DOMAIN down : /\ down[i].op = op /\ down[i].reg = r /\ down[i].val = v
                              /\ \A j \in DOMAIN down : j > i => down[j].reg # r

(* cmd.h: cmd_exec sends one command and waits for its ACK.  A command taken *)
(* for acknowledged has been executed since cmd_exec was called, whatever is *)
(* lost and repeated, unless the host itself went on too early: a flush      *)
(* ended, or a time-out came, while something was still under way.  What     *)
(* happens then is in EveryAckItsOwn.                                        *)
AckMeansExecuted == wrongAck => late \/ cut

(* While the capture runs the FPGA has the settings of capture_init_cmds,    *)
(* and it has stopped after the acknowledged command at the end, under the   *)
(* same condition.  Also without it, when ACKs are taken for those of other  *)
(* commands, the settings come into force with the commands under way,       *)
(* unless one of cmd_exec's commands was lost as well: nobody repeats it.    *)
Settings == {<<"upload", 1>>, <<"speed", 1>>, <<"reset", 0>>, <<"enable", 1>>}

SettingsInForce ==
    /\ pc = "running" => \A s \in Settings : /\ ~late /\ ~cut => regs[s[1]] = s[2]
                                             /\ ~execLost => Ends("exec", s[1], s[2])
    /\ pc = "ended" /\ stopAcked => /\ ~late /\ ~cut => regs["enable"] = 0
                                    /\ ~execLost => Ends("exec", "enable", 0)

(* Data of an earlier session, of an earlier attempt or of the link probe    *)
(* never reaches the packet layer, unless the FPGA missed one of the         *)
(* unacknowledged commands or the flush ended with something under way; late *)
(* time-outs do no harm here.                                                *)
NoStaleData == staleFed => quietLost \/ cut

(* The startup comes to an end, also when the FPGA never answers.            *)
StartupEnds == pc = "step" /\ pos = 1 ~> pc \in {"running", "ended", "failed"}

(* The comment of capture_init_cmds: "the FPGA acknowledges every command    *)
(* with a 16-byte ACK block before the next one is issued", since after the  *)
(* flush "the upstream stream is clean and every ACK resolves promptly".     *)
(* Once a flush has left nothing under way, cmd_exec returns true only for a *)
(* command that was executed.                                                *)
EveryAckItsOwn == wrongAck => cut
=============================================================================
