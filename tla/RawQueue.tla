------------------------------ MODULE RawQueue ------------------------------
(* The raw queue of main.c: the main thread, inside the transport's feed     *)
(* callback, copies every received buffer into a pooled chunk (rawq_push);   *)
(* the worker thread takes the chunks in order and parses them               *)
(* (rawq_thread); rawq_stop drains the queue and joins the worker.           *)
(*                                                                           *)
(* Each region between pthread_mutex_lock and the next unlock or cond_wait   *)
(* is one action.  Chunks are numbered in the order in which the main thread *)
(* receives them, and a buffer's content is the number of the chunk last     *)
(* copied into it.                                                           *)
EXTENDS Integers

CONSTANTS Slots,      \* RAWQ_SLOTS
          MaxPieces,  \* bound: chunks one rawq_push call splits its data into
          MaxChunks   \* bound: chunks pushed in a behaviour

ASSUME SlotsAssumption == Slots \in Nat /\ Slots >= 2
ASSUME BoundsAssumption == MaxPieces \in Nat /\ MaxChunks \in Nat

Index == 0 .. Slots - 1
Bufs  == Index                  \* a buffer is named by its place of allocation
NULL  == -1

VARIABLES q, head, tail, count,     \* the ring of filled buffers
          freeBufs, freeCount,      \* the stack of free buffers
          stop,
          mem,                      \* content of every buffer
          mpc, mbuf, pieces,        \* main thread: control, buffer held, chunks
                                    \* of the current rawq_push still to copy
          wpc, wbuf,                \* worker: control, buffer held
          sent,                     \* chunks put into the ring so far
          fed                       \* number of the chunk parsed last

queueVars == <<q, head, tail, count>>
freeVars  == <<freeBufs, freeCount>>
mainVars  == <<mpc, mbuf, pieces, sent>>
workVars  == <<wpc, wbuf, fed>>
rawqVars == <<q, head, tail, count, freeBufs, freeCount, stop, mem, mpc, mbuf,
              pieces, wpc, wbuf, sent, fed>>

MainStates == {"idle", "lockFree", "waitNonfull", "copy", "lockPut", "join",
               "done"}
WorkStates == {"lockPop", "waitNonempty", "feed", "lockReturn", "exited"}

TypeOK == /\ q \in [Index -> Bufs \cup {NULL}]
          /\ head \in Index /\ tail \in Index /\ count \in 0 .. Slots
          /\ freeBufs \in [Index -> Bufs] /\ freeCount \in 0 .. Slots
          /\ stop \in BOOLEAN
          /\ mem \in [Bufs -> Nat]
          /\ mpc \in MainStates /\ mbuf \in Bufs \cup {NULL} /\ pieces \in Nat
          /\ wpc \in WorkStates /\ wbuf \in Bufs \cup {NULL}
          /\ sent \in Nat /\ fed \in Nat

QueueInit == /\ q = [i \in Index |-> NULL] /\ head = 0 /\ tail = 0 /\ count = 0
             /\ freeBufs = [i \in Index |-> i] /\ freeCount = Slots
             /\ stop = FALSE
             /\ mem = [b \in Bufs |-> 0]
             /\ mpc = "idle" /\ mbuf = NULL /\ pieces = 0
             /\ wpc = "lockPop" /\ wbuf = NULL
             /\ sent = 0 /\ fed = 0

-----------------------------------------------------------------------------
(* The main thread: rawq_push and rawq_stop, called one after the other.     *)

PushCall == /\ mpc = "idle"
            /\ \E n \in 1 .. MaxPieces : /\ sent + n <= MaxChunks
                                         /\ pieces' = n
            /\ mpc' = "lockFree"
            /\ UNCHANGED <<queueVars, freeVars, stop, mem, mbuf, sent, workVars>>

PushWait == /\ mpc = "lockFree"
            /\ freeCount = 0 /\ ~stop
            /\ mpc' = "waitNonfull"
            /\ UNCHANGED <<queueVars, freeVars, stop, mem, mbuf, pieces, sent,
                           workVars>>

(* The early return of rawq_push on stop is not an action: the thread that     *)
(* sets stop is the one that pushes, so the branch is never taken.           *)
PushTake == /\ mpc = "lockFree"
            /\ freeCount > 0 /\ ~stop
            /\ mbuf' = freeBufs[freeCount - 1]
            /\ freeCount' = freeCount - 1
            /\ mpc' = "copy"
            /\ UNCHANGED <<queueVars, freeBufs, stop, mem, pieces, sent, workVars>>

PushCopy == /\ mpc = "copy"
            /\ mem' = [mem EXCEPT ![mbuf] = sent + 1]
            /\ mpc' = "lockPut"
            /\ UNCHANGED <<queueVars, freeVars, stop, mbuf, pieces, sent, workVars>>

(* pthread_cond_signal: the waiter, if there is one, goes back to the lock.  *)
SignalNonempty == wpc' = IF wpc = "waitNonempty" THEN "lockPop" ELSE wpc
SignalNonfull  == mpc' = IF mpc = "waitNonfull" THEN "lockFree" ELSE mpc

PushPut == /\ mpc = "lockPut"
           /\ q' = [q EXCEPT ![head] = mbuf]
           /\ head' = (head + 1) % Slots
           /\ count' = count + 1
           /\ SignalNonempty
           /\ mbuf' = NULL
           /\ sent' = sent + 1
           /\ pieces' = pieces - 1
           /\ mpc' = IF pieces = 1 THEN "idle" ELSE "lockFree"
           /\ UNCHANGED <<tail, freeVars, stop, mem, wbuf, fed>>

StopCallNoSignal == /\ mpc = "idle"
                    /\ stop' = TRUE
                    /\ mpc' = "join"
                    /\ UNCHANGED <<queueVars, freeVars, mem, mbuf, pieces, sent,
                                   workVars>>

StopCall == /\ mpc = "idle"
            /\ stop' = TRUE
            /\ SignalNonempty
            /\ mpc' = "join"
            /\ UNCHANGED <<queueVars, freeVars, mem, mbuf, pieces, sent, wbuf, fed>>

(* pthread_join returns, and the buffers on the free stack are freed.        *)
StopJoin == /\ mpc = "join"
            /\ wpc = "exited"
            /\ mpc' = "done"
            /\ UNCHANGED <<queueVars, freeVars, stop, mem, mbuf, pieces, sent,
                           workVars>>

MainStep == PushCall \/ PushWait \/ PushTake \/ PushCopy \/ PushPut
            \/ StopCall \/ StopJoin

-----------------------------------------------------------------------------
(* The worker: rawq_thread.                                                  *)

WorkWait == /\ wpc = "lockPop"
            /\ count = 0 /\ ~stop
            /\ wpc' = "waitNonempty"
            /\ UNCHANGED <<queueVars, freeVars, stop, mem, mainVars, wbuf, fed>>

WorkExitUndrained == /\ wpc = "lockPop"
                     /\ stop
                     /\ wpc' = "exited"
                     /\ UNCHANGED <<queueVars, freeVars, stop, mem, mainVars, wbuf,
                                    fed>>

WorkExit == /\ wpc = "lockPop"
            /\ count = 0 /\ stop
            /\ wpc' = "exited"
            /\ UNCHANGED <<queueVars, freeVars, stop, mem, mainVars, wbuf, fed>>

WorkPopNoSignal == /\ wpc = "lockPop"
                   /\ count > 0
                   /\ wbuf' = q[tail]
                   /\ tail' = (tail + 1) % Slots
                   /\ count' = count - 1
                   /\ wpc' = "feed"
                   /\ UNCHANGED <<q, head, freeVars, stop, mem, mainVars, fed>>

WorkPopEarlyFree == /\ wpc = "lockPop"
                    /\ count > 0
                    /\ wbuf' = q[tail]
                    /\ tail' = (tail + 1) % Slots
                    /\ count' = count - 1
                    /\ SignalNonfull
                    /\ freeBufs' = [freeBufs EXCEPT ![freeCount] = q[tail]]
                    /\ freeCount' = freeCount + 1
                    /\ wpc' = "feed"
                    /\ UNCHANGED <<q, head, stop, mem, mbuf, pieces, sent, fed>>

WorkPopNewest == /\ wpc = "lockPop"
                 /\ count > 0
                 /\ wbuf' = q[(head + Slots - 1) % Slots]
                 /\ head' = (head + Slots - 1) % Slots
                 /\ count' = count - 1
                 /\ SignalNonfull
                 /\ wpc' = "feed"
                 /\ UNCHANGED <<q, tail, freeVars, stop, mem, mbuf, pieces, sent, fed>>

WorkPop == /\ wpc = "lockPop"
           /\ count > 0
           /\ wbuf' = q[tail]
           /\ tail' = (tail + 1) % Slots
           /\ count' = count - 1
           /\ SignalNonfull
           /\ wpc' = "feed"
           /\ UNCHANGED <<q, head, freeVars, stop, mem, mbuf, pieces, sent, fed>>

(* stream_feed returns: the chunk in the buffer has been parsed.             *)
WorkFeed == /\ wpc = "feed"
            /\ fed' = mem[wbuf]
            /\ wpc' = "lockReturn"
            /\ UNCHANGED <<queueVars, freeVars, stop, mem, mainVars, wbuf>>

(* The buffer goes back to the free stack; no condition is signalled.        *)
WorkReturn == /\ wpc = "lockReturn"
              /\ freeBufs' = [freeBufs EXCEPT ![freeCount] = wbuf]
              /\ freeCount' = freeCount + 1
              /\ wbuf' = NULL
              /\ wpc' = "lockPop"
              /\ UNCHANGED <<queueVars, stop, mem, mainVars, fed>>

WorkStep == WorkWait \/ WorkExit \/ WorkPop \/ WorkFeed \/ WorkReturn

(* POSIX lets a condition wait return without a signal.                      *)
SpuriousWakeup ==
    /\ \/ wpc = "waitNonempty" /\ wpc' = "lockPop" /\ UNCHANGED mpc
       \/ mpc = "waitNonfull" /\ mpc' = "lockFree" /\ UNCHANGED wpc
    /\ UNCHANGED <<queueVars, freeVars, stop, mem, mbuf, pieces, sent, wbuf, fed>>

Done == mpc = "done" /\ UNCHANGED rawqVars

QueueNext == MainStep \/ WorkStep \/ SpuriousWakeup \/ Done

QueueSpec == QueueInit /\ [][QueueNext]_rawqVars

(* The operating system runs both threads.  Nothing obliges the caller to    *)
(* push more data or to stop, and no wakeup without a signal is relied on.   *)
FairSpec == /\ QueueSpec
            /\ WF_rawqVars(PushWait \/ PushTake \/ PushCopy \/ PushPut \/ StopJoin)
            /\ WF_rawqVars(WorkStep)

-----------------------------------------------------------------------------
(* Where a buffer can be.                                                    *)

(* Ring slots are counted from the oldest chunk.                             *)
Age(i)    == IF i >= tail THEN i - tail ELSE i - tail + Slots
Live(i)   == Age(i) < count
MainHolds == mpc \in {"copy", "lockPut"}
WorkHolds == wpc \in {"feed", "lockReturn"}
MainShare == IF MainHolds THEN 1 ELSE 0
WorkShare == IF WorkHolds THEN 1 ELSE 0

OnFreeStack(b) == \E i \in Index : i < freeCount /\ freeBufs[i] = b
InRing(b)      == \E i \in Index : Live(i) /\ q[i] = b

(* Every buffer is in exactly one place: on the free stack, in a live slot of *)
(* the ring, in the main thread's hands between the two locked regions of     *)
(* rawq_push, or in the worker's hands while it is parsed.  No buffer is lost *)
(* or handed out twice, so neither index of the two arrays can overflow.      *)
BufferOwnership ==
    /\ freeCount + count + MainShare + WorkShare = Slots
    /\ head = IF tail + count < Slots THEN tail + count ELSE tail + count - Slots
    /\ \A i, j \in Index :
          /\ i < freeCount /\ j < freeCount /\ i # j => freeBufs[i] # freeBufs[j]
          /\ Live(i) /\ Live(j) /\ i # j => q[i] # q[j]
          /\ i < freeCount /\ Live(j) => freeBufs[i] # q[j]
    /\ \A i \in Index : Live(i) => q[i] # NULL
    /\ MainHolds => mbuf # NULL /\ ~OnFreeStack(mbuf) /\ ~InRing(mbuf)
    /\ WorkHolds => wbuf # NULL /\ ~OnFreeStack(wbuf) /\ ~InRing(wbuf)
    /\ MainHolds /\ WorkHolds => mbuf # wbuf

(* The ring holds the chunks that were received and not yet parsed, oldest    *)
(* first and each intact: a buffer is not overwritten between the memcpy of   *)
(* rawq_push and the end of the stream_feed that reads it.                    *)
ChunksInOrder ==
    /\ \A i \in Index : Live(i) => mem[q[i]] = sent - count + Age(i) + 1
    /\ mpc = "lockPut" => mem[mbuf] = sent + 1
    /\ wpc = "feed" => mem[wbuf] = sent - count /\ fed = sent - count - 1
    /\ wpc # "feed" => fed = sent - count

(* rawq_thread signals nonfull when it takes a chunk, before the buffer is on *)
(* the free stack, and nothing when it puts the buffer there.  A sleeping     *)
(* pusher is still never stranded: there is a chunk in the ring, and taking   *)
(* that one signals again.  A sleeping worker has neither work nor a stop     *)
(* request.  So the two never sleep at the same time.                         *)
NoStrandedThread ==
    /\ mpc = "waitNonfull" => count >= 1
    /\ wpc = "waitNonempty" => count = 0 /\ ~stop

(* rawq_stop: the worker leaves only once the ring is empty, so when the join *)
(* returns every chunk has been parsed and every buffer is on the free stack, *)
(* from where rawq_stop frees them all.                                       *)
StopDrains ==
    /\ stop <=> mpc \in {"join", "done"}
    /\ wpc = "exited" => stop /\ count = 0
    /\ mpc = "done" => wpc = "exited" /\ fed = sent /\ freeCount = Slots

(* The raw queue as a channel of Slots chunks that is closed by rawq_stop.    *)
ChannelOf == INSTANCE Channel WITH Capacity <- Slots, sent <- sent, got <- fed,
                                   closed <- (mpc = "done")

(* rawq_push and rawq_thread implement an in-order exactly-once channel whose *)
(* backlog is bounded by RAWQ_SLOTS, and rawq_stop closes it without loss.    *)
ImplementsChannel == ChannelOf!CSpec

(* A call of rawq_push or rawq_stop returns: backpressure delays the USB      *)
(* callback and does not block it for good, and the worker notices the        *)
(* request to stop, however the wakeups fall; and every chunk that was put    *)
(* into the ring is parsed, also when no other follows it.                    *)
CallsReturn == /\ mpc \notin {"idle", "done"} ~> mpc \in {"idle", "done"}
               /\ \A n \in 1 .. MaxChunks : sent >= n ~> fed >= n
=============================================================================
