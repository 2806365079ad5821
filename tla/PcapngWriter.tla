---------------------------- MODULE PcapngWriter ----------------------------
(* The output side, pcapng.c: a producer thread assembles pcapng blocks in a *)
(* staging chunk and hands full chunks to a writer thread through a ring;    *)
(* the writer writes and flushes them and returns the buffers.               *)
(*                                                                           *)
(* Regions under the mutex are single actions.  Output is counted in units,  *)
(* numbered in the order in which sink_write accepts them; a block is a few  *)
(* units long and may straddle chunks.  A buffer's content is the number of  *)
(* its first unit.                                                           *)
EXTENDS Integers

CONSTANTS Slots,      \* WQ_SLOTS
          ChunkCap,   \* WQ_CHUNK, in units
          HdrBlocks,  \* blocks pcapng_begin writes: SHB and two IDBs, a unit each
          MaxBlock,   \* bound: units of a block
          MaxPend,    \* bound: units staged before pcapng_begin
          MaxUnits    \* bound: units accepted in a behaviour

ASSUME SizesAssumption == /\ Slots \in Nat \ {0}
                          /\ ChunkCap \in Nat \ {0}
                          /\ HdrBlocks \in Nat \ {0}
                          /\ MaxBlock \in Nat /\ MaxPend \in Nat /\ MaxUnits \in Nat

Index == 0 .. Slots - 1
Bufs  == Index                  \* a buffer is named by its place of allocation
NULL  == -1

VARIABLES begun, pend,              \* pcapng_begin was called; units in p->pend
          chunk, chunkLen,          \* the staging chunk
          q, qLen, qHead, qTail, qCount,  \* the ring of chunks to write
          freeq, freeN,             \* the stack of free buffers
          stop, wrErr,
          mem,                      \* number of the first unit in every buffer
          ppc, op, left, then,      \* producer: control, operation, units left of
                                    \* the current sink_write, where chunk_flush
                                    \* returns to
          hdrs,                     \* header blocks pcapng_begin has still to write
          wpc, wbuf, wlen,          \* writer: control, chunk held, its length
          acc, hdrAcc,              \* units accepted, header units among them
          infoAcc,                  \* last unit of the last info record
          written, intact,          \* units fwrite accepted; they are the first ones
                                    \* of sink_write
          out, stdio                \* units known to have reached the consumer; "ok",
                                    \* or "failed" when the last flush failed

ringVars  == <<q, qLen, qHead, qTail, qCount>>
freeVars  == <<freeq, freeN>>
stageVars == <<begun, pend, hdrs>>
ghostVars == <<hdrAcc, infoAcc>>
stdioVars == <<out, stdio>>
fileVars  == <<written, intact, stdioVars>>
prodVars  == <<begun, pend, hdrs, chunk, chunkLen, ppc, op, left, then, acc, hdrAcc,
               infoAcc>>
workVars  == <<wpc, wbuf, wlen>>
vars == <<begun, pend, chunk, chunkLen, q, qLen, qHead, qTail, qCount, freeq, freeN,
          stop, wrErr, mem, ppc, op, left, then, hdrs, wpc, wbuf, wlen, acc, hdrAcc,
          infoAcc, written, intact, out, stdio>>

ProdStates == {"idle", "sink", "getFirst", "flush", "getNext", "waitNext", "ret",
               "drain", "waitDrain", "stopping", "join", "closed"}
WorkStates == {"lockPop", "waitNonempty", "write", "fflush", "lockReturn", "exited"}
Ops        == {"none", "epb", "info", "begin", "beginPend", "flush", "close"}

TypeOK == /\ begun \in BOOLEAN /\ pend \in Nat
          /\ chunk \in Bufs \cup {NULL} /\ chunkLen \in 0 .. ChunkCap
          /\ q \in [Index -> Bufs \cup {NULL}] /\ qLen \in [Index -> 0 .. ChunkCap]
          /\ qHead \in Index /\ qTail \in Index /\ qCount \in 0 .. Slots
          /\ freeq \in [Index -> Bufs] /\ freeN \in 0 .. Slots
          /\ stop \in BOOLEAN /\ wrErr \in BOOLEAN
          /\ mem \in [Bufs -> Nat]
          /\ ppc \in ProdStates /\ op \in Ops /\ left \in Nat
          /\ then \in {"sink", "ret", "drain"} /\ hdrs \in Nat
          /\ wpc \in WorkStates /\ wbuf \in Bufs \cup {NULL} /\ wlen \in 0 .. ChunkCap
          /\ acc \in Nat /\ hdrAcc \in Nat /\ infoAcc \in Nat
          /\ written \in Nat /\ intact \in BOOLEAN
          /\ out \in Nat /\ stdio \in {"ok", "failed"}

Init == /\ begun = FALSE /\ pend = 0 /\ hdrs = HdrBlocks
        /\ chunk = NULL /\ chunkLen = 0
        /\ q = [i \in Index |-> NULL] /\ qLen = [i \in Index |-> 0]
        /\ qHead = 0 /\ qTail = 0 /\ qCount = 0
        /\ freeq = [i \in Index |-> i] /\ freeN = Slots
        /\ stop = FALSE /\ wrErr = FALSE
        /\ mem = [b \in Bufs |-> 0]
        /\ ppc = "idle" /\ op = "none" /\ left = 0 /\ then = "ret"
        /\ wpc = "lockPop" /\ wbuf = NULL /\ wlen = 0
        /\ acc = 0 /\ hdrAcc = 0 /\ infoAcc = 0
        /\ written = 0 /\ intact = TRUE /\ out = 0 /\ stdio = "ok"

-----------------------------------------------------------------------------
(* fflush, and the flush in fclose: what fwrite accepted reaches the         *)
(* consumer, or an error keeps part of it in stdio or drops it (a drop is a   *)
(* flush that fails from then on).  Nobody looks at the result: wr_err stays *)
(* as it is.                                                                 *)
StdioFlush == \/ out' = written /\ stdio' = "ok"
              \/ out < written /\ stdio' = "failed" /\ UNCHANGED out

(* pthread_cond_signal: the one waiter, if there is one, goes back to the    *)
(* lock.  nonfull has no action: see NoStrandedThread.                       *)
SignalNonempty == wpc' = IF wpc = "waitNonempty" THEN "lockPop" ELSE wpc
SignalFreecv   == ppc' = IF ppc = "waitNext" THEN "getNext"
                         ELSE IF ppc = "waitDrain" THEN "drain" ELSE ppc

(* Entry of sink_write: after a write error everything is dropped.           *)
SinkEnter(n) == /\ left' = IF wrErr THEN 0 ELSE n
                /\ ppc' = IF wrErr THEN "ret" ELSE "sink"

(* Calls of the public operations.  Before pcapng_begin, send_buffer stages  *)
(* the block in p->pend.                                                     *)
WriteBlock(o) ==
    /\ ppc = "idle"
    /\ op' = o
    /\ \E n \in 1 .. MaxBlock :
          \/ /\ begun
             /\ acc + n <= MaxUnits
             /\ SinkEnter(n)
             /\ UNCHANGED pend
          \/ /\ ~begun
             /\ pend + n <= MaxPend
             /\ pend' = pend + n
             /\ ppc' = "ret" /\ left' = 0
    /\ UNCHANGED <<begun, hdrs, chunk, chunkLen, ringVars, freeVars, stop, wrErr, mem,
                   then, workVars, acc, ghostVars, fileVars>>

WriteEpb  == WriteBlock("epb")
WriteInfo == WriteBlock("info")

(* pcapng_begin: begun is set first, so that the header blocks go to the     *)
(* sink, ahead of what was staged.                                           *)
Begin == /\ ppc = "idle" /\ ~begun
         /\ begun' = TRUE
         /\ op' = "begin"
         /\ ppc' = "ret"
         /\ UNCHANGED <<pend, hdrs, chunk, chunkLen, ringVars, freeVars, stop, wrErr,
                        mem, left, then, workVars, acc, ghostVars, fileVars>>

BeginHeader == /\ ppc = "ret" /\ op = "begin" /\ hdrs > 0
               /\ hdrs' = hdrs - 1
               /\ SinkEnter(1)
               /\ UNCHANGED <<begun, pend, chunk, chunkLen, ringVars, freeVars, stop,
                              wrErr, mem, op, then, workVars, acc, ghostVars, fileVars>>

BeginPendFirst == /\ ppc = "ret" /\ op = "begin"
                  /\ op' = "beginPend"
                  /\ IF pend > 0 THEN SinkEnter(pend)
                                 ELSE ppc' = ppc /\ UNCHANGED left
                  /\ UNCHANGED <<stageVars, chunk, chunkLen, ringVars, freeVars, stop,
                                 wrErr, mem, then, workVars, acc, ghostVars, fileVars>>

BeginPend == /\ ppc = "ret" /\ op = "begin" /\ hdrs = 0
             /\ op' = "beginPend"
             /\ IF pend > 0 THEN SinkEnter(pend)
                            ELSE ppc' = ppc /\ UNCHANGED left
             /\ UNCHANGED <<stageVars, chunk, chunkLen, ringVars, freeVars, stop, wrErr,
                            mem, then, workVars, acc, ghostVars, fileVars>>

(* pcapng_flush, alone or as the first step of pcapng_close.                 *)
FlushOrClose(o) == /\ ppc = "idle"
                   /\ op' = o
                   /\ ppc' = IF begun THEN "flush"
                             ELSE IF o = "close" THEN "stopping" ELSE "ret"
                   /\ then' = "drain"
                   /\ UNCHANGED <<stageVars, chunk, chunkLen, ringVars, freeVars, stop,
                                  wrErr, mem, left, workVars, acc, ghostVars, fileVars>>

Flush == FlushOrClose("flush")
Close == FlushOrClose("close")

-----------------------------------------------------------------------------
(* sink_write: copy into the staging chunk, flushing it whenever it is full. *)

SinkFirst == /\ ppc = "sink" /\ left > 0 /\ chunk = NULL
             /\ ppc' = "getFirst"
             /\ UNCHANGED <<stageVars, chunk, chunkLen, ringVars, freeVars, stop, wrErr,
                            mem, op, left, then, workVars, acc, ghostVars, fileVars>>

Take == IF left < ChunkCap - chunkLen THEN left ELSE ChunkCap - chunkLen

SinkCopy == /\ ppc = "sink" /\ left > 0 /\ chunk # NULL
            /\ mem' = IF chunkLen = 0 THEN [mem EXCEPT ![chunk] = acc + 1] ELSE mem
            /\ chunkLen' = chunkLen + Take
            /\ left' = left - Take
            /\ acc' = acc + Take
            /\ hdrAcc' = IF op = "begin" THEN hdrAcc + Take ELSE hdrAcc
            /\ IF chunkLen + Take = ChunkCap THEN ppc' = "flush" /\ then' = "sink"
                                             ELSE UNCHANGED <<ppc, then>>
            /\ UNCHANGED <<stageVars, chunk, ringVars, freeVars, stop, wrErr, op,
                           workVars, infoAcc, fileVars>>

(* The copy loop is done; a chunk that has been open for LIVE_FLUSH_MS is    *)
(* handed over although it is not full.                                      *)
SinkDone == /\ ppc = "sink" /\ left = 0
            /\ infoAcc' = IF op = "info" THEN acc ELSE infoAcc
            /\ \/ ppc' = "ret" /\ UNCHANGED then
               \/ ppc' = "flush" /\ then' = "ret"
            /\ UNCHANGED <<stageVars, chunk, chunkLen, ringVars, freeVars, stop, wrErr,
                           mem, op, left, workVars, acc, hdrAcc, fileVars>>

(* buf_get_free for the first chunk.  It never waits: see NoStrandedThread.  *)
GetFirst == /\ ppc = "getFirst"
            /\ IF freeN > 0
               THEN /\ chunk' = freeq[freeN - 1]
                    /\ freeN' = freeN - 1
                    /\ ppc' = "sink"
                    /\ UNCHANGED <<wrErr, left>>
               ELSE /\ wrErr
                    /\ wrErr' = TRUE
                    /\ ppc' = "ret" /\ left' = 0
                    /\ UNCHANGED <<chunk, freeN>>
            /\ UNCHANGED <<stageVars, chunkLen, ringVars, freeq, stop, mem, op, then,
                           workVars, acc, ghostVars, fileVars>>

-----------------------------------------------------------------------------
(* chunk_flush.                                                              *)

FlushNothing == /\ ppc = "flush"
                /\ chunkLen = 0 \/ chunk = NULL
                /\ ppc' = then
                /\ UNCHANGED <<stageVars, chunk, chunkLen, ringVars, freeVars, stop,
                               wrErr, mem, op, left, then, workVars, acc, ghostVars,
                               fileVars>>

FlushDiscard == /\ ppc = "flush"
                /\ chunkLen > 0 /\ chunk # NULL
                /\ wrErr
                /\ chunkLen' = 0
                /\ ppc' = then
                /\ UNCHANGED <<stageVars, chunk, ringVars, freeVars, stop, wrErr, mem, op,
                               left, then, workVars, acc, ghostVars, fileVars>>

FlushPutKeepsChunk == /\ ppc = "flush"
                      /\ chunkLen > 0 /\ chunk # NULL
                      /\ ~wrErr
                      /\ q' = [q EXCEPT ![qTail] = chunk]
                      /\ qLen' = [qLen EXCEPT ![qTail] = chunkLen]
                      /\ qTail' = (qTail + 1) % Slots
                      /\ qCount' = qCount + 1
                      /\ SignalNonempty
                      /\ chunkLen' = 0
                      /\ ppc' = then
                      /\ UNCHANGED <<stageVars, chunk, qHead, freeVars, stop, wrErr, mem,
                                     op, left, then, wbuf, wlen, acc, ghostVars, fileVars>>

FlushPut == /\ ppc = "flush"
            /\ chunkLen > 0 /\ chunk # NULL
            /\ ~wrErr
            /\ q' = [q EXCEPT ![qTail] = chunk]
            /\ qLen' = [qLen EXCEPT ![qTail] = chunkLen]
            /\ qTail' = (qTail + 1) % Slots
            /\ qCount' = qCount + 1
            /\ SignalNonempty
            /\ ppc' = "getNext"
            /\ UNCHANGED <<stageVars, chunk, chunkLen, qHead, freeVars, stop, wrErr, mem,
                           op, left, then, wbuf, wlen, acc, ghostVars, fileVars>>

(* buf_get_free for the next chunk; it gives up on a write error.            *)
GetNextWait == /\ ppc = "getNext"
               /\ freeN = 0 /\ ~wrErr
               /\ ppc' = "waitNext"
               /\ UNCHANGED <<stageVars, chunk, chunkLen, ringVars, freeVars, stop, wrErr,
                              mem, op, left, then, workVars, acc, ghostVars, fileVars>>

GetNext == /\ ppc = "getNext"
           /\ freeN > 0 \/ wrErr
           /\ chunk' = IF freeN > 0 THEN freeq[freeN - 1] ELSE NULL
           /\ freeN' = IF freeN > 0 THEN freeN - 1 ELSE 0
           /\ chunkLen' = 0
           /\ ppc' = then
           /\ UNCHANGED <<stageVars, ringVars, freeq, stop, wrErr, mem, op, left, then,
                          workVars, acc, ghostVars, fileVars>>

-----------------------------------------------------------------------------
(* Ends of the operations.                                                   *)

(* pcapng_write_info hands the staging chunk over before it returns.         *)
InfoKept == /\ ppc = "ret" /\ op = "info"
            /\ op' = "none"
            /\ ppc' = "idle"
            /\ UNCHANGED <<stageVars, chunk, chunkLen, ringVars, freeVars, stop, wrErr,
                           mem, left, then, workVars, acc, ghostVars, fileVars>>

InfoFlush == /\ ppc = "ret" /\ op = "info"
             /\ op' = "none"
             /\ ppc' = "flush"
             /\ then' = "ret"
             /\ UNCHANGED <<stageVars, chunk, chunkLen, ringVars, freeVars, stop, wrErr,
                            mem, left, workVars, acc, ghostVars, fileVars>>

OpReturn == /\ ppc = "ret" /\ op \in {"none", "epb", "beginPend", "flush"}
            /\ op' = "none"
            /\ ppc' = "idle"
            /\ UNCHANGED <<stageVars, chunk, chunkLen, ringVars, freeVars, stop, wrErr,
                           mem, left, then, workVars, acc, ghostVars, fileVars>>

(* pcapng_flush waits until the ring is empty, then flushes stdio.           *)
DrainWait == /\ ppc = "drain"
             /\ qCount # 0 /\ ~wrErr
             /\ ppc' = "waitDrain"
             /\ UNCHANGED <<stageVars, chunk, chunkLen, ringVars, freeVars, stop, wrErr,
                            mem, op, left, then, workVars, acc, ghostVars, fileVars>>

Drained == /\ ppc = "drain"
           /\ qCount = 0 \/ wrErr
           /\ StdioFlush
           /\ ppc' = IF op = "close" THEN "stopping" ELSE "ret"
           /\ UNCHANGED <<stageVars, chunk, chunkLen, ringVars, freeVars, stop, wrErr,
                          mem, op, left, then, workVars, acc, ghostVars, written, intact>>

CloseStopNoSignal == /\ ppc = "stopping"
                     /\ stop' = TRUE
                     /\ ppc' = "join"
                     /\ UNCHANGED <<stageVars, chunk, chunkLen, ringVars, freeVars, wrErr,
                                    mem, op, left, then, workVars, acc, ghostVars,
                                    fileVars>>

CloseStop == /\ ppc = "stopping"
             /\ stop' = TRUE
             /\ SignalNonempty
             /\ ppc' = "join"
             /\ UNCHANGED <<stageVars, chunk, chunkLen, ringVars, freeVars, wrErr, mem,
                            op, left, then, wbuf, wlen, acc, ghostVars, fileVars>>

(* pthread_join returns; the chunk and the free buffers are freed and the    *)
(* file is closed, which flushes stdio.                                      *)
CloseJoin == /\ ppc = "join"
             /\ wpc = "exited"
             /\ StdioFlush
             /\ ppc' = "closed"
             /\ UNCHANGED <<stageVars, chunk, chunkLen, ringVars, freeVars, stop, wrErr,
                            mem, op, left, then, workVars, acc, ghostVars, written,
                            intact>>

ProdCall == WriteEpb \/ WriteInfo \/ Begin \/ Flush \/ Close
ProdRun  == \/ BeginHeader \/ BeginPend \/ SinkFirst \/ SinkCopy \/ SinkDone \/ GetFirst
            \/ FlushNothing \/ FlushDiscard \/ FlushPut \/ GetNextWait \/ GetNext
            \/ InfoFlush \/ OpReturn \/ DrainWait \/ Drained \/ CloseStop \/ CloseJoin

-----------------------------------------------------------------------------
(* The writer thread: writer_main.                                           *)

WorkWait == /\ wpc = "lockPop"
            /\ qCount = 0 /\ ~stop
            /\ wpc' = "waitNonempty"
            /\ UNCHANGED <<prodVars, ringVars, freeVars, stop, wrErr, mem, wbuf, wlen,
                           fileVars>>

WorkExitUndrained == /\ wpc = "lockPop"
                     /\ stop
                     /\ wpc' = "exited"
                     /\ UNCHANGED <<prodVars, ringVars, freeVars, stop, wrErr, mem, wbuf,
                                    wlen, fileVars>>

WorkExit == /\ wpc = "lockPop"
            /\ qCount = 0 /\ stop
            /\ wpc' = "exited"
            /\ UNCHANGED <<prodVars, ringVars, freeVars, stop, wrErr, mem, wbuf, wlen,
                           fileVars>>

WorkPop == /\ wpc = "lockPop"
           /\ qCount > 0
           /\ wbuf' = q[qHead]
           /\ wlen' = qLen[qHead]
           /\ qHead' = (qHead + 1) % Slots
           /\ qCount' = qCount - 1
           /\ wpc' = "write"
           /\ UNCHANGED <<prodVars, q, qLen, qTail, freeVars, stop, wrErr, mem, fileVars>>

(* The fwrite loop writes the whole chunk, or stops early on an error: the   *)
(* first n units of the chunk are in the file.                               *)
FileAppend(n) == /\ written' = written + n
                 /\ intact' = (intact /\ (n = 0 \/ mem[wbuf] = written + 1))
                 /\ wpc' = "fflush"
                 /\ UNCHANGED <<prodVars, ringVars, freeVars, stop, mem, wbuf, wlen,
                                stdioVars>>

WorkWrite == /\ wpc = "write"
             /\ FileAppend(wlen)
             /\ UNCHANGED wrErr

WorkWriteFails == /\ wpc = "write"
                  /\ \E n \in 0 .. wlen - 1 : FileAppend(n)
                  /\ wrErr' = TRUE

WorkFflush == /\ wpc = "fflush"
              /\ IF wrErr THEN UNCHANGED stdioVars ELSE StdioFlush
              /\ wpc' = "lockReturn"
              /\ UNCHANGED <<prodVars, ringVars, freeVars, stop, wrErr, mem, wbuf, wlen,
                             written, intact>>

WorkReturnNoSignal == /\ wpc = "lockReturn"
                      /\ freeq' = [freeq EXCEPT ![freeN] = wbuf]
                      /\ freeN' = freeN + 1
                      /\ wbuf' = NULL /\ wlen' = 0
                      /\ wpc' = "lockPop"
                      /\ UNCHANGED <<prodVars, ringVars, stop, wrErr, mem, fileVars>>

WorkReturn == /\ wpc = "lockReturn"
              /\ freeq' = [freeq EXCEPT ![freeN] = wbuf]
              /\ freeN' = freeN + 1
              /\ SignalFreecv
              /\ wbuf' = NULL /\ wlen' = 0
              /\ wpc' = "lockPop"
              /\ UNCHANGED <<begun, pend, hdrs, chunk, chunkLen, op, left, then, acc,
                             ghostVars, ringVars, stop, wrErr, mem, fileVars>>

WorkStep == \/ WorkWait \/ WorkExit \/ WorkPop \/ WorkWrite \/ WorkWriteFails
            \/ WorkFflush \/ WorkReturn

(* POSIX lets a condition wait return without a signal.                      *)
SpuriousWakeup ==
    /\ \/ wpc = "waitNonempty" /\ wpc' = "lockPop" /\ UNCHANGED ppc
       \/ ppc = "waitNext" /\ ppc' = "getNext" /\ UNCHANGED wpc
       \/ ppc = "waitDrain" /\ ppc' = "drain" /\ UNCHANGED wpc
    /\ UNCHANGED <<stageVars, chunk, chunkLen, ringVars, freeVars, stop, wrErr, mem, op,
                   left, then, wbuf, wlen, acc, ghostVars, fileVars>>

Done == ppc = "closed" /\ UNCHANGED vars

Next == ProdCall \/ ProdRun \/ WorkStep \/ SpuriousWakeup \/ Done

Spec == Init /\ [][Next]_vars

(* Both threads run and the consumer keeps reading or closes the pipe, so    *)
(* that fwrite returns.                                                      *)
FairSpec == Spec /\ WF_vars(ProdRun) /\ WF_vars(WorkStep)

-----------------------------------------------------------------------------
(* Where a buffer can be.                                                    *)

Age(i)     == IF i >= qHead THEN i - qHead ELSE i - qHead + Slots
Live(i)    == Age(i) < qCount
ChunkGone  == ppc \in {"getNext", "waitNext"}   \* p->chunk is already in the ring
ProdHolds  == chunk # NULL /\ ~ChunkGone
WorkHolds  == wpc \in {"write", "fflush", "lockReturn"}
ProdShare  == IF ProdHolds THEN 1 ELSE 0
WorkShare  == IF WorkHolds THEN 1 ELSE 0
Staged     == IF ChunkGone THEN 0 ELSE chunkLen
InWrite    == IF wpc = "write" THEN wlen ELSE 0

OnFreeStack(b) == \E i \in Index : i < freeN /\ freeq[i] = b
InRing(b)      == \E i \in Index : Live(i) /\ q[i] = b

(* Every buffer is in exactly one place: on the free stack, in a live slot of *)
(* the ring, staged by the producer, or held by the writer until it has been  *)
(* flushed.  This holds on the error paths of chunk_flush and buf_get_free    *)
(* too, so pcapng_close frees each buffer once.                               *)
BufferOwnership ==
    /\ TypeOK
    /\ freeN + qCount + ProdShare + WorkShare = Slots
    /\ qTail = IF qHead + qCount < Slots THEN qHead + qCount ELSE qHead + qCount - Slots
    /\ \A i, j \in Index :
          /\ i < freeN /\ j < freeN /\ i # j => freeq[i] # freeq[j]
          /\ Live(i) /\ Live(j) /\ i # j => q[i] # q[j]
          /\ i < freeN /\ Live(j) => freeq[i] # q[j]
    /\ \A i \in Index : Live(i) => q[i] # NULL
    /\ ProdHolds => ~OnFreeStack(chunk) /\ ~InRing(chunk)
    /\ WorkHolds => wbuf # NULL /\ ~OnFreeStack(wbuf) /\ ~InRing(wbuf)
    /\ ProdHolds /\ WorkHolds => chunk # wbuf

(* As long as no write failed, the units given to stdio are the first ones    *)
(* that were accepted, in order and without a gap, and the writer's chunk,    *)
(* the ring and the staging chunk continue them without a gap or an overlap.  *)
(* The section header comes first, also when blocks were staged before        *)
(* pcapng_begin.                                                              *)
OutputInOrder ==
    /\ hdrAcc = IF acc < HdrBlocks THEN acc ELSE HdrBlocks
    /\ ~wrErr =>
      /\ intact
      /\ wpc = "write" => mem[wbuf] = written + 1
      /\ qCount = 0 => written + InWrite = acc - Staged
      /\ \A i \in Index : Live(i) =>
            /\ Age(i) = 0 => mem[q[i]] = written + InWrite + 1
            /\ Age(i) = qCount - 1 => mem[q[i]] + qLen[i] = acc - Staged + 1
      /\ \A i, j \in Index : Live(i) /\ Live(j) /\ Age(j) = Age(i) + 1 =>
            mem[q[j]] = mem[q[i]] + qLen[i]
      /\ ProdHolds /\ chunkLen > 0 => mem[chunk] = acc - chunkLen + 1

(* Neither thread sleeps without a wakeup on its way.  The writer raises      *)
(* wr_err without the mutex and signals nothing then, but a producer asleep   *)
(* in buf_get_free or pcapng_flush is still woken, by the return of the       *)
(* buffer that failed.  buf_get_free never sleeps on the first chunk, and     *)
(* chunk_flush never on nonfull: the producer owns a buffer then, so the ring *)
(* is short of one.                                                           *)
NoStrandedThread ==
    /\ ppc = "flush" /\ chunkLen > 0 /\ chunk # NULL => qCount < Slots
    /\ ppc = "waitNext" => freeN = 0 /\ (WorkHolds \/ qCount > 0)
    /\ ppc = "waitDrain" => WorkHolds \/ qCount > 0
    /\ wpc = "waitNonempty" => qCount = 0 /\ ~stop
    /\ ppc = "getFirst" => freeN > 0 \/ wrErr

(* pcapng_close: the ring is empty and every buffer is freed; without a write *)
(* error stdio has been given everything accepted, and all of it has reached  *)
(* the consumer unless a flush failed.  That loss is silent: wr_err is raised *)
(* by fwrite only.                                                            *)
CloseComplete ==
    ppc = "closed" => /\ qCount = 0 /\ freeN + ProdShare = Slots
                      /\ ~wrErr => /\ written = acc /\ intact
                                   /\ stdio = "ok" => out = acc

(* Whatever the writer does, a call of the producer returns.                  *)
OpsReturn == ppc \notin {"idle", "closed"} ~> ppc \in {"idle", "closed"}

(* Live delivery: an info record reaches the consumer without another block   *)
(* having to follow it, unless writing or flushing failed.                    *)
InfoDelivered ==
    \A n \in 1 .. MaxUnits : infoAcc >= n ~> (out >= n \/ wrErr \/ stdio # "ok")
=============================================================================
