---------------------------- MODULE UsbTransport ----------------------------
(* The libusb transport, transport_libusb.c: the pool of asynchronous IN     *)
(* transfers with the one spare buffer that in_callback swaps in, the pool   *)
(* of OUT transfers, the soft reset of the startup and the teardown.         *)
(*                                                                           *)
(* One thread runs everything: callbacks run only inside a libusb call that  *)
(* handles events.  The device and the kernel run beside it: they complete   *)
(* the IN transfers in the order in which they were submitted and number the *)
(* data they deliver.                                                        *)
EXTENDS Integers, Sequences, FiniteSets, SequencesExt

CONSTANTS Transfers,  \* TRANSFER_COUNT transfers, as a set
          OutSlots,   \* OUT_POOL_SIZE slots, as a set
          Spins,      \* rounds of the drain loop of tl_teardown_io
          MaxData,    \* bound: transfers' worth of data the device sends
          NoBuf

Spare == "spare"                       \* the buffer allocated for p->spare
Bufs  == Transfers \cup {Spare}        \* in_buffers[i], named by i, and the spare

(* The pools are arrays of a fixed size, and their buffers and the spare are *)
(* allocations of their own.                                                 *)
ASSUME PoolAssumption == /\ IsFiniteSet(Transfers) /\ IsFiniteSet(OutSlots)
                         /\ Spare \notin Transfers /\ NoBuf \notin Bufs

ASSUME SpinsAssumption == Spins \in Nat

None  == [stage |-> "none"]

VARIABLES phase,     \* "cmd", "stream", "closed", "exited" (os_error), or "raced":
                     \* a transfer was freed whose callback was still due
          mode,      \* what the thread is in: no call, event handling, a control
                     \* transfer of tl_close or tl_reset_device, the drain loop
          closing, alive, spins,
          why,       \* the caller of the teardown
          upper,     \* the stream and packet layers exist
          flight,    \* submitted IN transfers, oldest first
          comp,      \* completed IN transfers whose callback has not run
          tbuf,      \* transfer->buffer
          spare,     \* p->spare
          freed,     \* buffers freed
          armed,     \* in_transfers[i] is not NULL
          out,       \* state of every OUT slot's transfer
          busy,      \* out_slot.busy
          cb,        \* the IN callback under way
          mem,       \* content of the buffers: number of the data last received
          sentData, fed, gap, staleFeed,
          lastDone   \* the round of the drain loop at the last completion

poolVars == <<flight, comp, tbuf, spare, armed>>
outVars  == <<out, busy>>
dataVars == <<mem, sentData, fed, gap, staleFeed, lastDone>>
ctlVars  == <<phase, mode, closing, alive, spins, why, upper, freed>>
vars == <<phase, mode, closing, alive, spins, why, upper, flight, comp, tbuf, spare,
          freed, armed, out, busy, cb, mem, sentData, fed, gap, staleFeed, lastDone>>

(* tl_open succeeded: the handle is open, no IN transfer is submitted.       *)
Init == /\ phase = "cmd" /\ mode = "idle" /\ closing = FALSE /\ alive = TRUE
        /\ spins = 0 /\ why = "close" /\ upper = TRUE
        /\ flight = <<>> /\ comp = <<>>
        /\ tbuf = [t \in Transfers |-> t] /\ spare = NoBuf /\ freed = {} /\ armed = {}
        /\ out = [s \in OutSlots |-> "idle"] /\ busy = [s \in OutSlots |-> FALSE]
        /\ cb = None
        /\ mem = [b \in Bufs |-> 0] /\ sentData = 0 /\ fed = 0
        /\ gap = FALSE /\ staleFeed = FALSE /\ lastDone = 0

-----------------------------------------------------------------------------
(* Calls of the owner.                                                       *)

(* tl_stream_mode: every transfer the driver accepts is armed; none is fatal. *)
StreamMode == /\ mode = "idle" /\ phase = "cmd" /\ upper
              /\ spare' = IF spare = NoBuf THEN Spare ELSE spare
              /\ \E ok \in SUBSET Transfers :
                    /\ armed' = ok
                    /\ flight' = SetToSeq(ok)
                    /\ freed' = Transfers \ ok
                    /\ phase' = IF ok = {} THEN "exited" ELSE "stream"
              /\ tbuf' = [t \in Transfers |-> t]
              /\ UNCHANGED <<mode, closing, alive, spins, why, upper, comp, outVars, cb,
                             dataVars>>

(* tl_write: a slot that is not busy; without one the command is dropped.    *)
Write == /\ mode = "idle" /\ phase \in {"cmd", "stream"} /\ upper
         /\ \E s \in OutSlots : /\ ~busy[s]
                                /\ out' = [out EXCEPT ![s] = "flight"]
                                /\ busy' = [busy EXCEPT ![s] = TRUE]
         /\ UNCHANGED <<ctlVars, poolVars, cb, dataVars>>

(* tl_events: in the command phase the synchronous read, in the stream phase *)
(* the handling of events; both run callbacks.  tl_discard and               *)
(* tl_probe_upstream, in the command phase, do as well and whether or not    *)
(* the transport is alive; their data does not go to the layers above.       *)
EventsBegin == /\ mode = "idle" /\ upper
               /\ phase = "cmd" \/ (phase = "stream" /\ alive)
               /\ mode' = "events"
               /\ UNCHANGED <<phase, closing, alive, spins, why, upper, freed, poolVars,
                              outVars, cb, dataVars>>

EventsEnd == /\ mode = "events" /\ cb = None
             /\ mode' = "idle"
             /\ alive' \in {alive, FALSE}      \* a libusb error ends the session
             /\ UNCHANGED <<phase, closing, spins, why, upper, freed, poolVars, outVars,
                            cb, dataVars>>

(* run_capture_gen2 deletes the layers above before it closes the transport. *)
DeleteUpper == /\ mode = "idle" /\ phase = "stream" /\ upper
               /\ upper' = FALSE
               /\ UNCHANGED <<phase, mode, closing, alive, spins, why, freed, poolVars,
                              outVars, cb, dataVars>>

(* The control transfer that resets the device, in tl_close and in           *)
(* tl_reset_device: a synchronous call, which handles events.                *)
ResetRequest == /\ mode = "idle"
                /\ \/ phase = "stream" /\ ~upper /\ why' = "close"
                   \/ phase = "cmd" /\ upper /\ why' = "reset"
                /\ mode' = "ctl"
                /\ UNCHANGED <<phase, closing, alive, spins, upper, freed, poolVars,
                               outVars, cb, dataVars>>

(* tl_teardown_io: closing is set and every transfer is cancelled, which     *)
(* only asks for it: the kernel completes the transfers when it gets to it.  *)
Teardown == /\ mode = "ctl" /\ cb = None
            /\ mode' = "drain"
            /\ closing' = TRUE
            /\ spins' = 0
            /\ UNCHANGED <<phase, alive, why, upper, freed, poolVars, outVars, cb, dataVars>>

(* A round of the drain loop runs a callback, if one is due, or lets its     *)
(* 10 ms pass.  The number of the rounds does not depend on what is due.     *)
DrainSpin == /\ mode = "drain" /\ cb = None /\ spins < Spins
             /\ spins' = spins + 1
             /\ \/ \E s \in OutSlots : /\ out[s] = "done"
                                       /\ out' = [out EXCEPT ![s] = "idle"]
                                       /\ busy' = [busy EXCEPT ![s] = FALSE]
                                       /\ UNCHANGED comp
                \/ /\ comp # <<>>
                   /\ comp' = Tail(comp)      \* in_callback returns at once: closing
                   /\ UNCHANGED outVars
                \/ /\ comp = <<>> /\ \A s \in OutSlots : out[s] # "done"
                   /\ UNCHANGED <<comp, outVars>>
             /\ UNCHANGED <<phase, mode, closing, alive, why, upper, flight, tbuf, spare,
                            freed, armed, cb, dataVars>>

(* The transfers that are submitted or whose callback has not run.           *)
Outstanding == flight # <<>> \/ comp # <<>> \/ \E s \in OutSlots : out[s] # "idle"

(* tl_reset_device opens the device again, or fails, which main treats as    *)
(* fatal.                                                                    *)
Reopen == /\ closing' = FALSE
          /\ \/ phase' = "cmd" /\ alive' = TRUE
             \/ phase' = "exited" /\ alive' = FALSE

TeardownFreeEarly == /\ mode = "drain"
                     /\ mode' = "idle"
                     /\ freed' = freed \cup armed
                     /\ armed' = {}
                     /\ busy' = [s \in OutSlots |-> FALSE]
                     /\ spins' = 0
                     /\ phase' = IF Outstanding THEN "raced" ELSE "exited"
                     /\ UNCHANGED <<closing, alive, why, upper, flight, comp, tbuf, spare,
                                    out, cb, dataVars>>

(* The rest of tl_teardown_io frees the pools, whatever is outstanding; what *)
(* an outstanding transfer does from then on is undefined and not modelled.  *)
(* tl_close drops the handle.                                                *)
TeardownFree == /\ mode = "drain" /\ spins = Spins
                /\ mode' = "idle"
                /\ freed' = freed \cup armed
                /\ armed' = {}
                /\ busy' = [s \in OutSlots |-> FALSE]
                /\ spins' = 0
                /\ \/ Outstanding /\ phase' = "raced" /\ UNCHANGED <<closing, alive>>
                   \/ /\ ~Outstanding /\ why = "close"
                      /\ phase' = "closed" /\ UNCHANGED <<closing, alive>>
                   \/ ~Outstanding /\ why = "reset" /\ Reopen
                /\ UNCHANGED <<why, upper, flight, comp, tbuf, spare, out, cb, dataVars>>

-----------------------------------------------------------------------------
(* Callbacks, run inside event handling before closing is set.               *)

Handling == mode \in {"events", "ctl"} /\ cb = None

(* out_callback.                                                             *)
OutCallbackKeepsBusy == /\ Handling
                        /\ \E s \in OutSlots : /\ out[s] = "done"
                                               /\ out' = [out EXCEPT ![s] = "idle"]
                        /\ UNCHANGED <<ctlVars, poolVars, busy, cb, dataVars>>

OutCallback == /\ Handling
               /\ \E s \in OutSlots : /\ out[s] = "done"
                                      /\ out' = [out EXCEPT ![s] = "idle"]
                                      /\ busy' = [busy EXCEPT ![s] = FALSE]
               /\ UNCHANGED <<ctlVars, poolVars, cb, dataVars>>

(* in_callback, up to the swap of the buffers.                               *)
InCallbackNoSwap ==
    /\ Handling /\ comp # <<>>
    /\ comp' = Tail(comp)
    /\ LET c == Head(comp) IN
          cb' = [stage |-> "submit", t |-> c.t, buf |-> tbuf[c.t], data |-> c.data]
    /\ UNCHANGED <<ctlVars, flight, tbuf, spare, armed, outVars, dataVars>>

InCallbackCompletedOnly ==
    /\ Handling /\ comp # <<>>
    /\ comp' = Tail(comp)
    /\ LET c == Head(comp) IN
          cb' = [stage |-> "feedFull", t |-> c.t, buf |-> tbuf[c.t],
                 data |-> c.data /\ c.status = "completed"]
    /\ UNCHANGED <<ctlVars, flight, tbuf, spare, armed, outVars, dataVars>>

InCallback ==
    /\ Handling /\ comp # <<>>
    /\ comp' = Tail(comp)
    /\ LET c == Head(comp) IN
       \/ /\ c.status = "nodev"
          /\ alive' = FALSE
          /\ UNCHANGED <<tbuf, spare, cb>>
       \/ /\ c.status \in {"completed", "error"} /\ spare # NoBuf /\ ~c.full
          /\ tbuf' = [tbuf EXCEPT ![c.t] = spare]
          /\ spare' = tbuf[c.t]
          /\ cb' = [stage |-> "submit", t |-> c.t, buf |-> tbuf[c.t], data |-> c.data]
          /\ UNCHANGED alive
       \/ /\ c.status \in {"completed", "error"} /\ (spare = NoBuf \/ c.full)
          /\ cb' = [stage |-> "feedFull", t |-> c.t, buf |-> tbuf[c.t], data |-> c.data]
          /\ UNCHANGED <<tbuf, spare, alive>>
    /\ UNCHANGED <<phase, mode, closing, spins, why, upper, freed, flight, armed, outVars,
                   dataVars>>

(* libusb_submit_transfer of the swapped transfer.                           *)
CbSubmit == /\ cb.stage = "submit"
            /\ flight' = Append(flight, cb.t)
            /\ cb' = [cb EXCEPT !.stage = "feed"]
            /\ UNCHANGED <<ctlVars, comp, tbuf, spare, armed, outVars, dataVars>>

(* It fails: the buffer is put back, its data is not parsed, and from now on *)
(* there is no spare.                                                        *)
CbSubmitFails == /\ cb.stage = "submit"
                 /\ alive' = FALSE
                 /\ tbuf' = [tbuf EXCEPT ![cb.t] = cb.buf]
                 /\ spare' = NoBuf
                 /\ cb' = None
                 /\ UNCHANGED <<phase, mode, closing, spins, why, upper, freed, flight,
                                comp, armed, outVars, dataVars>>

(* The feed callback: the data in the buffer goes to the layers above.       *)
FeedData == IF cb.data THEN /\ fed' = mem[cb.buf]
                            /\ gap' = (gap \/ mem[cb.buf] # fed + 1)
                            /\ staleFeed' = (staleFeed \/ ~upper)
                       ELSE UNCHANGED <<fed, gap, staleFeed>>

CbFeed == /\ cb.stage = "feed"
          /\ FeedData
          /\ spare' = cb.buf
          /\ cb' = None
          /\ UNCHANGED <<ctlVars, flight, comp, tbuf, armed, outVars, mem, sentData, lastDone>>

(* A full transfer, or one without a spare, is parsed first.                 *)
CbFeedFull == /\ cb.stage = "feedFull"
              /\ FeedData
              /\ cb' = [cb EXCEPT !.stage = "submitFull"]
              /\ UNCHANGED <<ctlVars, poolVars, outVars, mem, sentData, lastDone>>

CbSubmitFull == /\ cb.stage = "submitFull"
                /\ \/ flight' = Append(flight, cb.t) /\ UNCHANGED alive
                   \/ alive' = FALSE /\ UNCHANGED flight
                /\ cb' = None
                /\ UNCHANGED <<phase, mode, closing, spins, why, upper, freed, comp, tbuf,
                               spare, armed, outVars, dataVars>>

-----------------------------------------------------------------------------
(* The device and the kernel.  A transfer that is cancelled completes at some *)
(* moment after that, with what it got or with none; the order in which      *)
(* cancelled transfers complete makes no difference.                         *)

DeviceCompletes ==
    /\ flight # <<>> /\ phase # "raced"
    /\ \E st \in {"completed", "error", "cancelled"}, full \in BOOLEAN, data \in BOOLEAN :
          /\ st = "cancelled" => mode = "drain" /\ ~full
          /\ data => sentData < MaxData
          /\ full => data
          /\ ~data => st # "completed"
          /\ comp' = Append(comp, [t |-> Head(flight), status |-> st, full |-> full,
                                   data |-> data])
          /\ IF data THEN /\ sentData' = sentData + 1
                          /\ mem' = [mem EXCEPT ![tbuf[Head(flight)]] = sentData + 1]
                     ELSE UNCHANGED <<sentData, mem>>
    /\ flight' = Tail(flight)
    /\ lastDone' = spins
    /\ UNCHANGED <<ctlVars, tbuf, spare, armed, outVars, cb, fed, gap, staleFeed>>

DeviceGone == /\ flight # <<>> /\ phase # "raced"
              /\ comp' = comp \o [k \in DOMAIN flight |->
                            [t |-> flight[k], status |-> "nodev", full |-> FALSE,
                             data |-> FALSE]]
              /\ flight' = <<>>
              /\ lastDone' = spins
              /\ UNCHANGED <<ctlVars, tbuf, spare, armed, outVars, cb, mem, sentData, fed,
                             gap, staleFeed>>

OutCompletes == /\ phase # "raced"
                /\ \E s \in OutSlots : /\ out[s] = "flight"
                                       /\ out' = [out EXCEPT ![s] = "done"]
                /\ lastDone' = spins
                /\ UNCHANGED <<ctlVars, poolVars, busy, cb, mem, sentData, fed, gap,
                               staleFeed>>

Stopped == phase \in {"closed", "exited", "raced"} /\ mode = "idle" /\ UNCHANGED vars

Next == \/ StreamMode \/ Write \/ EventsBegin \/ EventsEnd \/ DeleteUpper
        \/ ResetRequest \/ Teardown \/ DrainSpin \/ TeardownFree
        \/ OutCallback \/ InCallback \/ CbSubmit \/ CbSubmitFails \/ CbFeed
        \/ CbFeedFull \/ CbSubmitFull
        \/ DeviceCompletes \/ DeviceGone \/ OutCompletes \/ Stopped

Spec == Init /\ [][Next]_vars

-----------------------------------------------------------------------------
Submitted == Range(flight)
Waiting   == {comp[k].t : k \in DOMAIN comp}

(* The device never writes into memory that someone else uses: submitted     *)
(* transfers have buffers of their own, none of which is the spare, the one  *)
(* in_callback is parsing, or freed.  A completed transfer's buffer stays its *)
(* own until its callback runs.  And no transfer leaks out of the pool:      *)
(* while the transport streams, each armed one is submitted, completed or in *)
(* its callback.  (What a free of the teardown that comes too early does to  *)
(* this is the matter of FreedAfterCallbacks.)                               *)
BuffersApart == phase # "raced" =>
    /\ phase = "stream" /\ alive /\ ~closing =>
          armed = Submitted \cup Waiting \cup (IF cb = None THEN {} ELSE {cb.t})
    /\ \A t, u \in Submitted \cup Waiting : t # u => tbuf[t] # tbuf[u]
    /\ \A t \in Submitted \cup Waiting :
          /\ tbuf[t] \notin freed
          /\ cb = None => tbuf[t] # spare
          /\ cb # None => tbuf[t] # cb.buf
    /\ cb # None => cb.buf \notin freed

(* The data reaches the layers above in order and without a gap, whatever    *)
(* the mix of short, full and failed transfers, as long as the transport is  *)
(* alive; only a failed resubmission loses data, and it ends the session.    *)
FedInOrder == gap => ~alive

(* out_slot.busy tells whether the slot's transfer is outstanding, so that   *)
(* tl_write never refills one that is.                                       *)
OutSlotOwned == phase # "raced" => \A s \in OutSlots : busy[s] <=> out[s] # "idle"

(* tl_teardown_io waits for no callback, it counts rounds.  It frees nothing *)
(* whose callback is due or still to come, although cancelled transfers      *)
(* complete at any moment, unless the kernel was too slow: it had not        *)
(* completed them all when as many rounds were left as there are transfers.  *)
InTime == /\ flight = <<>> /\ \A s \in OutSlots : out[s] # "flight"
          /\ lastDone + Cardinality(Transfers) + Cardinality(OutSlots) <= Spins

FreedAfterCallbacks == [][mode = "drain" /\ mode' = "idle" /\ InTime => ~Outstanding]_vars

(* The comment of in_callback: the data of a transfer that completes during  *)
(* teardown is dropped, and never fed to layers that are already deleted.    *)
NoFeedAfterDelete == ~staleFeed
=============================================================================
