------------------------------ MODULE Gen1Main ------------------------------
(* The process that serves the older device: main picks what to do from the  *)
(* command line, device_probe tells the generations apart, and one of the    *)
(* engines of Gen1Usb and Gen1Loader runs until the process ends.            *)
EXTENDS Gen1Loader

vars == <<mode, pc, usbVars, loadVars>>

Init == mode = "none" /\ pc = "main" /\ UsbInit /\ LoadInit

-----------------------------------------------------------------------------
(* What may be connected, each time the bus is looked at.                    *)
Buses == SUBSET {"gen1", "legacy", "gen2", "fx2lp"}

(* device_probe: a configured gen1 outranks a bare FX2LP, an unrelated FX2LP *)
(* does not block gen2.                                                      *)
DeviceProbe(bus) ==
    LET gen1 == bus \cap {"gen1", "legacy"} # {}
        gen2 == "gen2" \in bus
    IN CASE gen1 /\ gen2 -> "both" [] gen1 /\ ~gen2 -> "gen1" [] ~gen1 /\ gen2 -> "gen2"
         [] ~gen1 /\ ~gen2 -> IF "fx2lp" \in bus THEN "fx2lp" ELSE "none"

(* main: a capture comes before the tools, which come in this order.         *)
Order == <<"capture", "test", "mcu_sram", "mcu_eeprom", "fpga_sram", "fpga_flash", "fpga_erase">>

Picked(flags) == Order[CHOOSE i \in DOMAIN Order :
                         Order[i] \in flags /\ \A j \in 1 .. i - 1 : Order[j] \notin flags]

Leave(how) == pc' = "over" /\ mode' = how

(* run_selected_capture of main for a live capture; missing_device_error,    *)
(* and a device list that cannot be had, end the process.                    *)
RunSelectedCapture == \E bus \in Buses :
    \/ DeviceProbe(bus) = "gen1" /\ mode' = "capture" /\ UNCHANGED pc
    \/ DeviceProbe(bus) = "gen2" /\ Leave("gen2")
    \/ DeviceProbe(bus) \in {"none", "fx2lp", "both"} /\ Leave("failed")
    \/ Leave("failed")

Main == /\ pc = "main" /\ mode = "none"
        /\ \E flags \in SUBSET Range(Order) :
              \/ flags = {} /\ Leave("nothing")
              \/ flags # {} /\ Picked(flags) = "capture" /\ RunSelectedCapture
              \/ flags # {} /\ Picked(flags) # "capture" /\ mode' = Picked(flags) /\ UNCHANGED pc
        /\ UNCHANGED <<usbVars, loadVars>>

(* What is found wrong with a file before anything is written: bitstream_    *)
(* valid, parse_jed_file, the size checks of fx2lp.c and the placeholder for *)
(* the serial number.                                                        *)
BitstreamValid(file) == file # "no signature"
ParseJedFile(file)   == BitstreamValid(file) /\ file # "malformed"
Fits(file)           == file # "too big"

Accepted(file) == CASE mode = "fpga_sram"  -> BitstreamValid(file)
                    [] mode = "fpga_flash" -> ParseJedFile(file)
                    [] mode = "mcu_sram"   -> Fits(file)
                    [] mode = "mcu_eeprom" -> Fits(file) /\ file # "no serial number"
                    [] OTHER -> TRUE

Files == {"sound", "no signature", "malformed", "too big", "no serial number"}

(* open_capture_device, or usb_open of the unconfigured FX2LP: a device of   *)
(* the other generation is never taken.                                      *)
UsbOpen(bus) == bus \cap (IF mode = "mcu_sram" THEN {"fx2lp"} ELSE {"gen1", "legacy"}) # {}

Open == /\ pc = "main" /\ mode # "none"
        /\ \E bus \in Buses, file \in Files :
              \/ /\ UsbOpen(bus) /\ Accepted(file)
                 /\ pc' = IF mode \in {"capture", "test"} THEN "ctrl" ELSE "tool"
                 /\ UNCHANGED mode
              \/ ~(UsbOpen(bus) /\ Accepted(file)) /\ Leave("failed")
        /\ UNCHANGED <<usbVars, loadVars>>

Engine == (UsbThread /\ UNCHANGED loadVars) \/ LoaderThread

Next == \/ Main \/ Open \/ Engine \/ ExecuteClock
        \/ (Device \/ Signal) /\ UNCHANGED loadVars

(* The thread runs; a control transfer ends; and libusb_handle_events        *)
(* returns, at the latest after its own timeout of a minute.                 *)
Spec == Init /\ [][Next]_vars /\ WF_vars(Main \/ Open \/ Engine) /\ WF_vars(ExecuteClock)
             /\ WF_vars(EventsReturn /\ UNCHANGED loadVars)

-----------------------------------------------------------------------------
(* main, usb_data_transfer and usb_close: a signal ends a capture or a speed *)
(* test in whatever state it finds the loop, a busy or a lost device         *)
(* included, and every maintenance tool ends by itself, once the flash that  *)
(* poll_busy_flag asks is not busy any more.                                 *)
ProcessEnds == [](stop \/ pc = "tool" => <>(pc = "over"))
=============================================================================
