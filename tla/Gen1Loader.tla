----------------------------- MODULE Gen1Loader -----------------------------
(* The maintenance tools of the older device: gen1/fpga.c writes the SRAM or *)
(* the flash of the FPGA over JTAG, gen1/fx2lp.c the SRAM or the EEPROM of   *)
(* the controller.                                                           *)
(*                                                                           *)
(* A JTAG clock is <<"clk", tdi, tms>>.  jtag_clk collects clocks and sends  *)
(* MaxCount of them at a time; usb_jtag_response gives back what TDO was     *)
(* during the clocks of the last request.  A bit of an instruction or a      *)
(* value v is <<v, i>>, so a bit at the wrong place is seen; instructions    *)
(* and values have Bits bits.  The FPGA and its TAP controller (IEEE 1149.1) *)
(* are external.                                                             *)
EXTENDS Gen1Usb

CONSTANTS Bits,        \* length of instructions and of values
          MaxCount,    \* MAX_COUNT_IN_REQUEST
          Config,      \* the rows of the configuration data, a sequence of strings
          Blocks,      \* blocks of firmware: EP0 packets, EEPROM pages
          MaxBusy,     \* bound: answers that the flash is still busy
          MaxFlaws     \* bound: writes that go wrong unnoticed

(* What is read fits into one request, and a row is not one of the words     *)
(* that stand for something else.                                            *)
ASSUME BitsAssumption == /\ Bits \in Nat \ {0} /\ MaxCount \in Nat /\ Bits <= MaxCount
                         /\ Blocks \in Nat /\ Config \in Seq(STRING)
                         /\ \A r \in DOMAIN Config : Config[r] \notin {"junk", "busy", "status"}

VARIABLES op,        \* the next operation of the tool
          items,     \* what is left of the JTAG operation under way
          buf,       \* g_jtag_buf
          wire,      \* clocks of a request the device has still to execute
          tap,       \* the TAP controller and its registers
          fpga,      \* the memories of the FPGA
          mcu,       \* the memories of the controller
          busyLeft, flawsLeft,
          garbled    \* a response was not the value that was to be read

loadVars == <<op, items, buf, wire, tap, fpga, mcu, busyLeft, flawsLeft, garbled>>

BitsOf(v) == [i \in 1 .. Bits |-> <<v, i>>]
Junk      == "junk"
ValueOf(bits) == IF \E v \in {bits[i][1] : i \in DOMAIN bits} : bits = BitsOf(v)
                 THEN bits[1][1] ELSE Junk

-----------------------------------------------------------------------------
(* The TAP controller: the state after a clock with TMS = 0 and TMS = 1.     *)
TapNext(state, tms) ==
    LET to == CASE state = "TestLogicReset" -> <<"RunTestIdle", "TestLogicReset">>
                [] state \in {"RunTestIdle", "UpdateDR", "UpdateIR"} -> <<"RunTestIdle", "SelectDR">>
                [] state = "SelectDR" -> <<"CaptureDR", "SelectIR">>
                [] state = "SelectIR" -> <<"CaptureIR", "TestLogicReset">>
                [] state \in {"CaptureDR", "ShiftDR"} -> <<"ShiftDR", "Exit1DR">>
                [] state \in {"CaptureIR", "ShiftIR"} -> <<"ShiftIR", "Exit1IR">>
                [] state = "Exit1DR" -> <<"PauseDR", "UpdateDR">>
                [] state = "Exit1IR" -> <<"PauseIR", "UpdateIR">>
                [] state = "PauseDR" -> <<"PauseDR", "Exit2DR">>
                [] state = "PauseIR" -> <<"PauseIR", "Exit2IR">>
                [] state = "Exit2DR" -> <<"ShiftDR", "UpdateDR">>
                [] state = "Exit2IR" -> <<"ShiftIR", "UpdateIR">>
    IN to[tms + 1]

TapAfter(state, clocks) ==
    LET after[i \in 0 .. Len(clocks)] ==
            IF i = 0 THEN state ELSE TapNext(after[i - 1], clocks[i][3])
    IN after[Len(clocks)]

(* The FPGA.  flash is the configuration rows, then the feature row and the  *)
(* FEABITS; done is the bit that lets the FPGA boot it.                      *)
Rows == Len(Config)
Image == Config \o <<"feature row", "feabits">>
Feature == Rows + 1
Feabits == Rows + 2
Filled(v) == [i \in 1 .. Rows + 2 |-> v]

(* What an instruction puts into the data register.                          *)
Captured(f, ir, busy, status) ==
    CASE ir = "CHECK_BUSY"  -> busy
      [] ir = "READ_STATUS" -> status
      [] ir = "READ_INCR_NV" /\ f.addr <= Rows -> f.flash[f.addr]
      [] ir = "READ_FEATURE" -> f.flash[Feature]
      [] ir = "READ_FEABITS" -> f.flash[Feabits]
      [] OTHER -> Junk

Writing == {"PROG_INCR_NV", "PROG_FEATURE", "PROG_FEABITS"}

Write(f, i, v) == IF f.enabled = "flash" THEN [f EXCEPT !.flash[i] = v] ELSE f

(* The effect of an instruction with its value, and of one without.          *)
UpdateDR(f, ir, v) ==
    CASE ir = "ENABLE" -> [f EXCEPT !.enabled = v]
      [] ir = "ERASE" /\ v = "sram" /\ f.enabled = "sram" -> [f EXCEPT !.sram = "blank"]
      [] ir = "ERASE" /\ v = "all_nv" /\ f.enabled = "flash" ->
             [f EXCEPT !.flash = Filled("blank"), !.done = FALSE]
      [] ir = "PROG_INCR_NV" /\ f.addr <= Rows -> [Write(f, f.addr, v) EXCEPT !.addr = @ + 1]
      [] ir = "READ_INCR_NV" -> [f EXCEPT !.addr = @ + 1]
      [] ir = "PROG_FEATURE" -> Write(f, Feature, v)
      [] ir = "PROG_FEABITS" -> Write(f, Feabits, v)
      [] ir = "BITSTREAM_BURST" /\ f.enabled = "sram" -> [f EXCEPT !.sram = v]
      [] OTHER -> f

UpdateIR(f, ir) ==
    CASE ir = "INIT_ADDRESS" -> [f EXCEPT !.addr = 1]
      [] ir = "PROGRAM_DONE" /\ f.enabled = "flash" -> [f EXCEPT !.done = TRUE]
      [] ir = "DISABLE" -> [f EXCEPT !.enabled = "off"]
      [] ir = "REFRESH" -> [f EXCEPT !.sram = IF f.done THEN "flash" ELSE "blank"]
      [] OTHER -> f

(* The register after a clock, and the memories.                             *)
Shifting(t, f, tdi, busy, status) ==
    CASE t.state \in {"ShiftDR", "ShiftIR"} -> Append(Tail(t.reg), tdi)
      [] t.state = "CaptureDR" -> BitsOf(Captured(f, t.ir, busy, status))
      [] t.state = "CaptureIR" -> BitsOf(Junk)
      [] OTHER -> t.reg

Updating(f, state, ir, v) == CASE state = "UpdateDR" -> UpdateDR(f, ir, v)
                               [] state = "UpdateIR" -> UpdateIR(f, ir)
                               [] OTHER -> f

(* One clock of the request that was sent: it goes on being executed when    *)
(* the transfer is given up.                                                 *)
ExecuteClock ==
    /\ wire # <<>> /\ wire' = Tail(wire)
    /\ LET next == TapNext(tap.state, Head(wire)[3])
       IN \E busy \in {"busy", "idle"}, status \in {"ok", "fail"}, flaw \in 0 .. 1 :
             LET reg == Shifting(tap, fpga, Head(wire)[2], busy, status)
                 ir  == IF next = "UpdateIR" THEN ValueOf(reg) ELSE tap.ir
             IN /\ busy = "busy" => busyLeft > 0 /\ tap.state = "CaptureDR" /\ tap.ir = "CHECK_BUSY"
                /\ status = "fail" => tap.state = "CaptureDR" /\ tap.ir = "READ_STATUS"
                /\ flaw = 1 => flawsLeft > 0 /\ next = "UpdateDR" /\ tap.ir \in Writing
                /\ tap' = [state |-> next, ir |-> ir, reg |-> reg,
                           tdo |-> Append(tap.tdo, IF tap.state = "ShiftDR" THEN Head(tap.reg) ELSE <<Junk, 0>>)]
                /\ fpga' = Updating(fpga, next, ir, IF flaw = 1 THEN "flawed" ELSE ValueOf(reg))
                /\ busyLeft' = IF busy = "busy" THEN busyLeft - 1 ELSE busyLeft
                /\ flawsLeft' = flawsLeft - flaw
    /\ UNCHANGED <<mode, pc, usbVars, op, items, buf, mcu, garbled>>

-----------------------------------------------------------------------------
(* The operations of fpga.c, as the clocks, the transfers of the buffer      *)
(* ("sync") and the responses ("resp") they consist of.                      *)
Clk(tdi, tms) == <<"clk", tdi, tms>>
Zero == <<"zero", 0>>
Shifted(bits) == [i \in 1 .. Bits |-> Clk(bits[i], IF i = Bits THEN 1 ELSE 0)]
ToIdle == <<Clk(Zero, 1), Clk(Zero, 0)>>

JtagWriteIr(ir) == <<Clk(Zero, 1), Clk(Zero, 1), Clk(Zero, 0), Clk(Zero, 0)>>
                   \o Shifted(BitsOf(ir)) \o ToIdle

JtagWriteDr(v) == <<Clk(Zero, 1), Clk(Zero, 0), Clk(Zero, 0)>> \o Shifted(BitsOf(v)) \o ToIdle

JtagReadDrOneSync(what) ==
    <<Clk(Zero, 1), Clk(Zero, 0), Clk(Zero, 0)>>
    \o Shifted([i \in 1 .. Bits |-> Zero]) \o << <<"sync">>, <<"resp", what>> >> \o ToIdle

JtagReadDr(what) ==
    <<Clk(Zero, 1), Clk(Zero, 0), Clk(Zero, 0), <<"sync">> >>
    \o Shifted([i \in 1 .. Bits |-> Zero]) \o << <<"sync">>, <<"resp", what>> >> \o ToIdle

JtagRun == <<Clk(Zero, 0)>>     \* the number of idle clocks does not matter

Items(o) == CASE o[1] = "ir" -> JtagWriteIr(o[2]) [] o[1] = "dr" -> JtagWriteDr(o[2])
              [] o[1] = "read" -> JtagReadDr(o[2]) [] o[1] = "run" -> JtagRun
              [] o[1] = "sync" -> << <<"sync">> >>

Ir(c) == <<"ir", c>>
Dr(v) == <<"dr", v>>
Read(what) == <<"read", what>>
Run == <<"run">>

(* poll_busy_flag; a busy answer goes back to its first operation.           *)
PollBusyFlag == <<Ir("CHECK_BUSY"), Read("busy"), Ir("READ_STATUS"), Read("status"), Run>>

FpgaEraseFlash ==
    <<Ir("ENABLE"), Dr("sram"), Run, Ir("ERASE"), Dr("sram"), Run, Ir("NOOP"),
      Ir("ENABLE"), Dr("flash"), Run, Ir("ERASE"), Dr("all_nv"), Run>> \o PollBusyFlag

EachRow(n, ops(_)) == [i \in 1 .. n * Rows |-> ops((i - 1) \div n + 1)[((i - 1) % n) + 1]]

ProgramRows == <<Ir("INIT_ADDRESS"), Run>> \o
    EachRow(8, LAMBDA r : <<Ir("PROG_INCR_NV"), Dr(Image[r]), Run>> \o PollBusyFlag)

VerifyRows == <<Ir("INIT_ADDRESS"), Run, Ir("READ_INCR_NV"), Run>> \o
    EachRow(2, LAMBDA r : <<Read(Image[r]), Run>>)

FeatureRow == <<Ir("INIT_ADDRESS"), Run, Ir("PROG_FEATURE"), Dr(Image[Feature]), Run>> \o PollBusyFlag
              \o <<Ir("READ_FEATURE"), Read(Image[Feature]), Run>>

FeabitsRow == <<Ir("PROG_FEABITS"), Dr(Image[Feabits]), Run>> \o PollBusyFlag
              \o <<Ir("READ_FEABITS"), Run, Read(Image[Feabits])>>

ProgramDone == <<Ir("PROGRAM_DONE"), Run>> \o PollBusyFlag
               \o <<Ir("DISABLE"), Run, Ir("NOOP"), Run, Ir("REFRESH"), Run, Ir("NOOP"), Run, <<"sync">> >>

FpgaProgramFlashEarlyDone ==
    FpgaEraseFlash \o ProgramRows \o FeatureRow \o FeabitsRow \o ProgramDone \o VerifyRows

FpgaProgramFlash ==
    FpgaEraseFlash \o ProgramRows \o VerifyRows \o FeatureRow \o FeabitsRow \o ProgramDone

FpgaProgramSram ==
    <<Ir("ENABLE"), Dr("sram"), Run, Ir("ERASE"), Dr("sram"), Run, Ir("BITSTREAM_BURST"), Run,
      Dr("bitstream"), Run, Ir("DISABLE"), Run, Ir("NOOP"), Run, <<"sync">> >>

(* fx2lp.c: hold the controller in reset, write and read back block by       *)
(* block, let it run; the EEPROM needs no reset.                             *)
WriteBlocks ==
    [i \in 1 .. 2 * Blocks |-> <<IF i % 2 = 1 THEN "write" ELSE "verify", (i + 1) \div 2>>]

Fx2lpSramUpload   == << <<"reset", 1>> >> \o WriteBlocks \o << <<"reset", 0>> >>
Fx2lpEepromUpload == WriteBlocks

Routine == CASE mode = "fpga_erase" -> FpgaEraseFlash [] mode = "fpga_flash" -> FpgaProgramFlash
             [] mode = "fpga_sram" -> FpgaProgramSram [] mode = "mcu_sram" -> Fx2lpSramUpload
             [] mode = "mcu_eeprom" -> Fx2lpEepromUpload

-----------------------------------------------------------------------------
(* The TAP controller is idle, or where a tool that was stopped left it, the *)
(* erasing of the flash, which does not send its last clocks, included: the  *)
(* FPGA is then still enabled for that tool.                                 *)
LoadInit ==
    /\ op = 1 /\ items = <<>> /\ buf = <<>> /\ wire = <<>> /\ garbled = FALSE
    /\ \E state \in {"TestLogicReset", "RunTestIdle", "SelectDR", "SelectIR"}
                      \cup {"CaptureDR", "ShiftDR", "Exit1DR", "UpdateDR"}
                      \cup {"CaptureIR", "ShiftIR", "Exit1IR", "UpdateIR"} :
          tap = [state |-> state, ir |-> "READ_STATUS", reg |-> BitsOf(Junk), tdo |-> <<>>]
    /\ \E enabled \in {"off", "sram", "flash"} :
          /\ enabled = "off" <=> tap.state \in {"TestLogicReset", "RunTestIdle"}
          /\ fpga = [enabled |-> enabled, sram |-> IF enabled = "off" THEN "flash" ELSE "blank",
                     flash |-> Filled(IF enabled = "flash" THEN "blank" ELSE "old"),
                     done |-> enabled # "flash", addr |-> 1]
    /\ mcu = [state |-> "boot", mem |-> [b \in 1 .. Blocks |-> "old"]]
    /\ busyLeft = MaxBusy /\ flawsLeft = MaxFlaws

JtagModes == {"fpga_erase", "fpga_flash", "fpga_sram"}
McuModes  == {"mcu_sram", "mcu_eeprom"}

(* usb_jtag_request: the transfer ends when the device has executed the      *)
(* clocks; when it fails, the device may have got them or not.               *)
UsbJtagRequest(clocks) ==
    /\ buf' = <<>> /\ tap' = [tap EXCEPT !.tdo = <<>>]
    /\ \/ wire' = clocks /\ UNCHANGED <<mode, pc>>
       \/ wire' \in {<<>>, clocks} /\ Exits

JtagTurn == pc = "tool" /\ mode \in JtagModes /\ wire = <<>>

JtagBegin == /\ JtagTurn /\ items = <<>> /\ op <= Len(Routine)
             /\ items' = Items(Routine[op]) /\ op' = op + 1
             /\ UNCHANGED <<mode, pc, usbVars, buf, wire, tap, fpga, mcu, busyLeft, flawsLeft, garbled>>

JtagClk == /\ JtagTurn /\ items # <<>> /\ Head(items)[1] = "clk"
           /\ items' = Tail(items)
           /\ LET more == Append(buf, Head(items))
              IN IF Len(more) = MaxCount THEN UsbJtagRequest(more)
                 ELSE buf' = more /\ UNCHANGED <<mode, pc, wire, tap>>
           /\ UNCHANGED <<usbVars, op, fpga, mcu, busyLeft, flawsLeft, garbled>>

JtagSync == /\ JtagTurn /\ items # <<>> /\ Head(items)[1] = "sync"
            /\ items' = Tail(items)
            /\ IF buf = <<>> THEN UNCHANGED <<mode, pc, buf, wire, tap>>
               ELSE UsbJtagRequest(buf)
            /\ UNCHANGED <<usbVars, op, fpga, mcu, busyLeft, flawsLeft, garbled>>

(* The answer that lets the routine go on.                                   *)
Answered(what) == CASE what = "busy" -> "idle" [] what = "status" -> "ok" [] OTHER -> what

(* usb_jtag_response, and what poll_busy_flag and fpga_program_flash make of *)
(* the value: busy is asked again, a failure or a difference ends the        *)
(* process.                                                                  *)
UsbJtagResponse ==
    /\ JtagTurn /\ items # <<>> /\ Head(items)[1] = "resp"
    /\ LET what   == Head(items)[2]
           wanted == Answered(what)
           value  == ValueOf(SubSeq(tap.tdo, 1, Bits))
       IN /\ garbled' = (garbled \/ value = Junk)
          /\ \/ /\ value = wanted
                /\ UNCHANGED <<mode, pc, op>>
             \/ /\ what = "busy" /\ value # wanted
                /\ op' = op - 2 /\ UNCHANGED <<mode, pc>>
             \/ /\ what # "busy" /\ value # wanted
                /\ Exits /\ UNCHANGED op
             \/ Exits /\ UNCHANGED op      \* the transfer fails
    /\ items' = Tail(items)
    /\ UNCHANGED <<usbVars, buf, wire, tap, fpga, mcu, busyLeft, flawsLeft>>

(* usb_fx2lp_reset, usb_fx2lp_sram_write, usb_i2c_write and the reads.       *)
McuStep ==
    /\ pc = "tool" /\ mode \in McuModes /\ op <= Len(Routine)
    /\ LET o == Routine[op]
       IN \/ /\ o[1] = "reset"
             /\ mcu' = [mcu EXCEPT !.state = IF o[2] = 1 THEN "held" ELSE "runs"]
             /\ op' = op + 1 /\ UNCHANGED <<mode, pc, flawsLeft>>
          \/ /\ o[1] = "write"
             /\ \E flaw \in 0 .. 1 : /\ flaw <= flawsLeft
                                     /\ mcu' = [mcu EXCEPT !.mem[o[2]] = IF flaw = 1 THEN "flawed" ELSE "new"]
                                     /\ flawsLeft' = flawsLeft - flaw
             /\ op' = op + 1 /\ UNCHANGED <<mode, pc>>
          \/ /\ o[1] = "verify" /\ mcu.mem[o[2]] = "new"
             /\ op' = op + 1 /\ UNCHANGED <<mode, pc, mcu, flawsLeft>>
          \/ Exits /\ UNCHANGED <<op, mcu, flawsLeft>>
    /\ UNCHANGED <<usbVars, items, buf, wire, tap, fpga, busyLeft, garbled>>

ToolDone == /\ pc = "tool" /\ items = <<>> /\ wire = <<>> /\ op > Len(Routine)
            /\ pc' = "close"
            /\ UNCHANGED <<mode, usbVars, loadVars>>

LoaderThread == JtagBegin \/ JtagClk \/ JtagSync \/ UsbJtagResponse \/ McuStep \/ ToolDone

-----------------------------------------------------------------------------
(* The JTAG routines know the state of the TAP controller only by counting,  *)
(* and fpga_enable, which would reset it, is compiled out: whatever state it *)
(* was left in, after two operations it is idle at the end of each, once the *)
(* clocks still in the buffer are counted; every response is the register    *)
(* that was to be read and not a part of something else, wherever the buffer *)
(* was cut; and no clock is left behind when a programmed device is closed.  *)
TapInStep ==
    /\ JtagTurn /\ items = <<>> /\ op > 2 =>
           TapAfter(tap.state, buf) = "RunTestIdle"
    /\ ~garbled
    /\ pc = "close" /\ mode \in {"fpga_flash", "fpga_sram"} => buf = <<>> /\ tap.state = "RunTestIdle"

(* Only what was read back runs: the flash of the FPGA is marked as bootable *)
(* with all of the old content or all of the new and never with a mixture, a *)
(* controller whose SRAM was written is let go only with the whole firmware, *)
(* and a tool that gets to its end has written all blocks.  Whichever        *)
(* transfer fails, and whichever cell does not keep what was written.        *)
OnlyVerifiedRuns ==
    /\ fpga.done => fpga.flash \in {Filled("old"), Image}
    /\ mcu.state = "runs" => \A b \in 1 .. Blocks : mcu.mem[b] = "new"
    /\ pc = "close" /\ mode \in McuModes => \A b \in 1 .. Blocks : mcu.mem[b] = "new"
    /\ pc = "close" /\ mode = "fpga_flash" => fpga.done /\ fpga.sram = "flash"
=============================================================================
