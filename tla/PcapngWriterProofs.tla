------------------------- MODULE PcapngWriterProofs -------------------------
(* The safety properties of the pcapng writer, proved for every number of    *)
(* slots and every chunk size.                                               *)
EXTENDS PcapngWriter, TLAPS

(* The strengthening.  The header blocks come first because pcapng_begin     *)
(* gets all of them into the sink before anything else, unless a write error *)
(* keeps everything after them out as well.                                  *)
HeaderFirst ==
    /\ ~begun => /\ acc = 0 /\ left = 0 /\ hdrs = HdrBlocks /\ chunk = NULL
                 /\ op # "begin" /\ ppc \notin {"getFirst", "getNext", "waitNext"}
    /\ ppc = "idle" => op = "none"
    /\ op = "begin" => /\ acc + left + hdrs <= HdrBlocks
                       /\ ~wrErr => acc + left + hdrs = HdrBlocks
    /\ begun /\ op # "begin" /\ acc < HdrBlocks => wrErr /\ left = 0
    /\ left > 0 => \/ ppc \in {"sink", "getFirst"}
                   \/ ppc \in {"flush", "getNext", "waitNext"} /\ then = "sink"

(* A missing staging chunk is the sign of the start or of a write error, and *)
(* whoever waits for the ring to drain has nothing staged.                   *)
NothingStaged ==
    /\ chunk = NULL => chunkLen = 0 /\ (wrErr \/ freeN = Slots)
    /\ ppc = "getFirst" => chunk = NULL
    /\ ppc \in {"drain", "waitDrain", "stopping", "join", "closed"} => chunkLen = 0

(* The writer leaves only a drained ring, into which nothing is put any more. *)
WriterLast ==
    /\ stop <=> ppc \in {"join", "closed"}
    /\ wpc = "exited" => stop /\ qCount = 0
    /\ ppc = "closed" => wpc = "exited" /\ (stdio = "ok" => out = written)

IInv == /\ BufferOwnership
        /\ OutputInOrder
        /\ NoStrandedThread
        /\ HeaderFirst
        /\ NothingStaged
        /\ WriterLast

-----------------------------------------------------------------------------
(* One step along the ring: the % of the code, as a comparison.              *)
LEMMA RingStep ==
  ASSUME NEW i \in Index
  PROVE  (i + 1) % Slots = IF i + 1 = Slots THEN 0 ELSE i + 1
  BY SizesAssumption DEF Index

(* The null pointer is no buffer.                                            *)
LEMMA NullNotBuf == NULL \notin Bufs /\ NULL \notin Index
  BY DEF NULL, Bufs, Index

(* pcapng_new establishes the invariant.                                     *)
LEMMA InitIInv == Init => IInv
<1> SUFFICES ASSUME Init PROVE IInv
  OBVIOUS
<1> USE SizesAssumption DEF Init
<1>1. TypeOK
  <2>1. /\ 0 \in Index /\ 0 \in Nat /\ Slots \in 0 .. Slots /\ 0 \in 0 .. Slots
        /\ 0 \in 0 .. ChunkCap
    BY DEF Index
  <2> QED BY <2>1 DEF TypeOK, Bufs, ProdStates, WorkStates, Ops
<1>2. HeaderFirst /\ NothingStaged /\ WriterLast /\ NoStrandedThread
  BY DEF HeaderFirst, NothingStaged, WriterLast, NoStrandedThread
<1>3. BufferOwnership
  BY <1>1 DEF BufferOwnership, Age, Live, ChunkGone, ProdHolds, WorkHolds, ProdShare,
      WorkShare, OnFreeStack, InRing, Index, Bufs
<1>4. OutputInOrder
  BY DEF OutputInOrder, Live, Age, Index, InWrite, Staged, ChunkGone, ProdHolds
<1> QED BY <1>1, <1>2, <1>3, <1>4 DEF IInv

(* What the accounting says of the counters while a buffer is held.          *)
LEMMA Accounts ==
  ASSUME BufferOwnership
  PROVE  /\ ProdHolds => qCount < Slots /\ chunk \in Bufs
         /\ WorkHolds => freeN < Slots /\ freeN \in Index /\ wbuf \in Bufs
         /\ freeN > 0 => freeN - 1 \in Index /\ freeq[freeN - 1] \in Bufs
         /\ \A i \in Index : Age(i) \in Index /\ (Live(i) => q[i] \in Bufs)
         /\ Age(qHead) = 0
         /\ qCount < Slots => Age(qTail) = qCount
<1> USE SizesAssumption
<1>1. TypeOK
  BY DEF BufferOwnership
<1>2. freeN + qCount + ProdShare + WorkShare = Slots
  BY DEF BufferOwnership
<1>3. /\ ProdHolds => qCount < Slots
      /\ WorkHolds => freeN < Slots
  BY <1>1, <1>2 DEF TypeOK, ProdShare, WorkShare
<1>4. freeN < Slots => freeN \in Index
  BY <1>1 DEF TypeOK, Index
<1>5. freeN > 0 => freeN - 1 \in Index
  BY <1>1 DEF TypeOK, Index
<1>6. (ProdHolds => chunk \in Bufs) /\ (WorkHolds => wbuf \in Bufs)
  BY <1>1 DEF TypeOK, BufferOwnership, ProdHolds
<1>7. \A i \in Index : Age(i) \in Index
  BY <1>1 DEF TypeOK, Age, Index
<1>8. \A i \in Index : Live(i) => q[i] \in Bufs
  BY <1>1 DEF TypeOK, BufferOwnership
<1>9. Age(qHead) = 0 /\ (qCount < Slots => Age(qTail) = qCount)
  BY <1>1 DEF TypeOK, Age, Index, BufferOwnership
<1> QED BY <1>1, <1>3, <1>4, <1>5, <1>6, <1>7, <1>8, <1>9 DEF TypeOK

-----------------------------------------------------------------------------
(* The control part of the invariant: types, header account, what is staged, *)
(* the order of the shutdown, and the waits.                                 *)
Control == TypeOK /\ HeaderFirst /\ NothingStaged /\ WriterLast /\ NoStrandedThread

(* Every step of the producer that starts an operation or ends one.          *)
LEMMA CallControl ==
  ASSUME IInv,
         \/ WriteEpb \/ WriteInfo \/ Begin \/ Flush \/ Close
         \/ BeginHeader \/ BeginPend \/ InfoFlush \/ OpReturn
  PROVE  Control'
<1> USE SizesAssumption
<1>1. TypeOK /\ HeaderFirst /\ NothingStaged /\ WriterLast /\ NoStrandedThread
  BY DEF IInv, BufferOwnership
<1>2. chunk # NULL /\ ~ChunkGone => qCount < Slots
  BY Accounts DEF IInv, ProdHolds
<1> USE DEF Control, SinkEnter, stageVars, ringVars, freeVars, ghostVars, fileVars, stdioVars, workVars
<1>3. ASSUME NEW o \in {"epb", "info"}, WriteBlock(o) PROVE Control'
  <2>1. PICK n \in 1 .. MaxBlock :
           \/ begun /\ SinkEnter(n) /\ UNCHANGED pend
           \/ ~begun /\ pend' = pend + n /\ ppc' = "ret" /\ left' = 0
    BY <1>3 DEF WriteBlock
  <2>2. TypeOK'
    BY <1>1, <1>3, <2>1 DEF TypeOK, WriteBlock, ProdStates, Ops
  <2>3. (HeaderFirst /\ NothingStaged /\ WriterLast /\ NoStrandedThread)'
    BY <1>1, <1>3, <2>1 DEF TypeOK, WriteBlock, HeaderFirst, NothingStaged, WriterLast,
         NoStrandedThread, WorkHolds
  <2> QED BY <2>2, <2>3
<1>4. CASE Begin
  BY <1>1, <1>4 DEF TypeOK, ProdStates, Ops, Begin, HeaderFirst, NothingStaged, WriterLast,
       NoStrandedThread, WorkHolds
<1>5. CASE BeginHeader
  BY <1>1, <1>5 DEF TypeOK, ProdStates, Ops, BeginHeader, HeaderFirst, NothingStaged,
       WriterLast, NoStrandedThread, WorkHolds
<1>6. CASE BeginPend
  BY <1>1, <1>6 DEF TypeOK, ProdStates, Ops, BeginPend, HeaderFirst, NothingStaged,
       WriterLast, NoStrandedThread, WorkHolds
<1>7. ASSUME NEW o \in {"flush", "close"}, FlushOrClose(o) PROVE Control'
  BY <1>1, <1>2, <1>7 DEF ChunkGone, TypeOK, ProdStates, Ops, FlushOrClose, HeaderFirst, NothingStaged,
       WriterLast, NoStrandedThread, WorkHolds
<1>8. CASE InfoFlush
  BY <1>1, <1>2, <1>8 DEF ChunkGone, TypeOK, ProdStates, Ops, InfoFlush, HeaderFirst, NothingStaged,
       WriterLast, NoStrandedThread, WorkHolds
<1>9. CASE OpReturn
  BY <1>1, <1>9 DEF TypeOK, ProdStates, Ops, OpReturn, HeaderFirst, NothingStaged,
       WriterLast, NoStrandedThread, WorkHolds
<1> QED BY <1>3, <1>4, <1>5, <1>6, <1>7, <1>8, <1>9
        DEF WriteEpb, WriteInfo, Flush, Close

(* Every step of sink_write, chunk_flush, pcapng_flush and pcapng_close.     *)
LEMMA SinkControl ==
  ASSUME IInv,
         \/ SinkFirst \/ SinkCopy \/ SinkDone \/ GetFirst
         \/ FlushNothing \/ FlushDiscard \/ FlushPut \/ GetNextWait \/ GetNext
         \/ DrainWait \/ Drained \/ CloseStop \/ CloseJoin
  PROVE  Control'
<1> USE SizesAssumption
<1>1. TypeOK /\ HeaderFirst /\ NothingStaged /\ WriterLast /\ NoStrandedThread
  BY DEF IInv, BufferOwnership
<1>2. /\ ProdHolds => qCount < Slots /\ chunk \in Bufs
      /\ freeN > 0 => freeN - 1 \in Index /\ freeq[freeN - 1] \in Bufs
      /\ freeN = 0 /\ ~ProdHolds => WorkHolds \/ qCount > 0
  <2>1. freeN + qCount + ProdShare + WorkShare = Slots
    BY DEF IInv, BufferOwnership
  <2>2. freeN = 0 /\ ~ProdHolds => WorkHolds \/ qCount > 0
    BY <1>1, <2>1 DEF TypeOK, ProdShare, WorkShare
  <2> QED BY <2>2, Accounts DEF IInv
<1> USE DEF Control, SinkEnter, stageVars, ringVars, freeVars, ghostVars, fileVars, stdioVars, workVars,
            SignalNonempty
<1>3. CASE SinkFirst
  BY <1>1, <1>3 DEF TypeOK, ProdStates, SinkFirst, HeaderFirst, NothingStaged, WriterLast,
       NoStrandedThread, WorkHolds
<1>4. CASE SinkCopy
  <2>1. /\ Take \in 0 .. left /\ chunkLen + Take \in 0 .. ChunkCap
        /\ ppc = "sink" /\ left > 0 /\ chunk # NULL /\ chunk \in Bufs
        /\ chunkLen' = chunkLen + Take /\ left' = left - Take /\ acc' = acc + Take
        /\ hdrAcc' = (IF op = "begin" THEN hdrAcc + Take ELSE hdrAcc)
        /\ mem' = IF chunkLen = 0 THEN [mem EXCEPT ![chunk] = acc + 1] ELSE mem
        /\ \/ ppc' = "flush" /\ then' = "sink"
           \/ UNCHANGED <<ppc, then>>
        /\ UNCHANGED <<begun, pend, hdrs, chunk, q, qLen, qHead, qTail, qCount, freeq, freeN,
                       stop, wrErr, op, wpc, wbuf, wlen, infoAcc, written, intact, out, stdio>>
    BY <1>1, <1>4 DEF TypeOK, SinkCopy, Take
  <2>2. TypeOK'
    <3>1. left' \in Nat /\ acc' \in Nat /\ hdrAcc' \in Nat
      BY <1>1, <2>1 DEF TypeOK
    <3>2. mem' \in [Bufs -> Nat]
      BY <1>1, <2>1 DEF TypeOK
    <3> HIDE DEF Take
    <3> QED BY <1>1, <2>1, <3>1, <3>2 DEF TypeOK, ProdStates
  <2>3. (NothingStaged /\ WriterLast)'
    BY <1>1, <2>1 DEF TypeOK, NothingStaged, WriterLast
  <2>4. HeaderFirst'
    BY <1>1, <2>1 DEF TypeOK, HeaderFirst
  <2>5. NoStrandedThread'
    BY <1>1, <1>2, <2>1 DEF TypeOK, NoStrandedThread, WorkHolds, ProdHolds, ChunkGone
  <2> QED BY <2>2, <2>3, <2>4, <2>5
<1>5. CASE SinkDone
  BY <1>1, <1>2, <1>5 DEF TypeOK, ProdStates, SinkDone, HeaderFirst, NothingStaged,
       WriterLast, NoStrandedThread, WorkHolds, ProdHolds, ChunkGone
<1>6. CASE GetFirst
  <2>1. CASE freeN > 0
    <3>1. TypeOK'
      BY <1>1, <1>2, <1>6, <2>1 DEF TypeOK, ProdStates, GetFirst
    <3>2. (HeaderFirst /\ NothingStaged /\ WriterLast /\ NoStrandedThread)'
      BY <1>1, <1>2, <1>6, <2>1, NullNotBuf DEF TypeOK, GetFirst, HeaderFirst,
           NothingStaged, WriterLast, NoStrandedThread, WorkHolds
    <3> QED BY <3>1, <3>2
  <2>2. CASE ~(freeN > 0)
    <3>1. TypeOK'
      BY <1>1, <1>6, <2>2 DEF TypeOK, ProdStates, GetFirst
    <3>2. (HeaderFirst /\ NothingStaged /\ WriterLast /\ NoStrandedThread)'
      BY <1>1, <1>6, <2>2 DEF TypeOK, GetFirst, HeaderFirst, NothingStaged,
           WriterLast, NoStrandedThread, WorkHolds
    <3> QED BY <3>1, <3>2
  <2> QED BY <2>1, <2>2
<1>7. CASE FlushNothing
  BY <1>1, <1>7 DEF TypeOK, ProdStates, FlushNothing, HeaderFirst, NothingStaged,
       WriterLast, NoStrandedThread, WorkHolds
<1>8. CASE FlushDiscard
  BY <1>1, <1>8 DEF TypeOK, ProdStates, FlushDiscard, HeaderFirst, NothingStaged,
       WriterLast, NoStrandedThread, WorkHolds
<1>9. CASE FlushPut
  <2>1. qTail' \in Index
    BY <1>1, <1>9, RingStep DEF TypeOK, FlushPut, Index
  <2>2. qCount' \in 0 .. Slots
    BY <1>1, <1>2, <1>9 DEF TypeOK, FlushPut, ProdHolds, ChunkGone
  <2>3. TypeOK'
    BY <1>1, <1>9, <2>1, <2>2 DEF TypeOK, ProdStates, WorkStates, FlushPut
  <2>4. (HeaderFirst /\ NothingStaged /\ WriterLast /\ NoStrandedThread)'
    BY <1>1, <1>9 DEF TypeOK, FlushPut, HeaderFirst, NothingStaged, WriterLast,
         NoStrandedThread, WorkHolds
  <2> QED BY <2>3, <2>4
<1>10. CASE GetNextWait
  BY <1>1, <1>2, <1>10 DEF TypeOK, ProdStates, GetNextWait, HeaderFirst, NothingStaged,
       WriterLast, NoStrandedThread, WorkHolds, ProdHolds, ChunkGone
<1>11. CASE GetNext
  <2>1. TypeOK'
    BY <1>1, <1>2, <1>11 DEF TypeOK, ProdStates, GetNext
  <2>2. (HeaderFirst /\ NothingStaged /\ WriterLast /\ NoStrandedThread)'
    BY <1>1, <1>2, <1>11, NullNotBuf DEF TypeOK, GetNext, HeaderFirst, NothingStaged,
         WriterLast, NoStrandedThread, WorkHolds
  <2> QED BY <2>1, <2>2
<1>12. CASE DrainWait
  BY <1>1, <1>12 DEF TypeOK, ProdStates, DrainWait, HeaderFirst, NothingStaged,
       WriterLast, NoStrandedThread, WorkHolds
<1>13. CASE Drained
  BY <1>1, <1>13 DEF TypeOK, ProdStates, Drained, StdioFlush, HeaderFirst, NothingStaged,
       WriterLast, NoStrandedThread, WorkHolds
<1>14. CASE CloseStop
  BY <1>1, <1>14 DEF TypeOK, ProdStates, WorkStates, CloseStop, HeaderFirst, NothingStaged,
       WriterLast, NoStrandedThread, WorkHolds
<1>15. CASE CloseJoin
  BY <1>1, <1>15 DEF TypeOK, ProdStates, CloseJoin, StdioFlush, HeaderFirst, NothingStaged,
       WriterLast, NoStrandedThread, WorkHolds
<1> QED BY <1>3, <1>4, <1>5, <1>6, <1>7, <1>8, <1>9, <1>10, <1>11, <1>12, <1>13, <1>14,
           <1>15

(* Every step of the writer thread, and a wait that ends without a signal.   *)
LEMMA WorkControl ==
  ASSUME IInv,
         \/ WorkWait \/ WorkExit \/ WorkPop \/ WorkWrite \/ WorkWriteFails
         \/ WorkFflush \/ WorkReturn \/ SpuriousWakeup
  PROVE  Control'
<1> USE SizesAssumption
<1>1. TypeOK /\ HeaderFirst /\ NothingStaged /\ WriterLast /\ NoStrandedThread
  BY DEF IInv, BufferOwnership
<1>2. /\ WorkHolds => freeN < Slots /\ freeN \in Index /\ wbuf \in Bufs
      /\ WorkHolds /\ chunk = NULL => wrErr
      /\ qCount > 0 /\ chunk = NULL => wrErr
  <2>1. freeN + qCount + ProdShare + WorkShare = Slots
    BY DEF IInv, BufferOwnership
  <2>2. (WorkHolds \/ qCount > 0) /\ chunk = NULL => wrErr
    BY <1>1, <2>1 DEF TypeOK, ProdShare, ProdHolds, WorkShare, NothingStaged
  <2> QED BY <2>2, Accounts DEF IInv
<1> USE DEF Control, stageVars, ringVars, freeVars, ghostVars, fileVars, stdioVars, prodVars
<1>3. CASE WorkWait
  BY <1>1, <1>3 DEF TypeOK, WorkStates, WorkWait, HeaderFirst, NothingStaged, WriterLast,
       NoStrandedThread, WorkHolds
<1>4. CASE WorkExit
  BY <1>1, <1>4 DEF TypeOK, WorkStates, WorkExit, HeaderFirst, NothingStaged, WriterLast,
       NoStrandedThread, WorkHolds
<1>5. CASE WorkPop
  <2>1. qHead' \in Index /\ qCount' \in 0 .. Slots
    BY <1>1, <1>5, RingStep DEF TypeOK, WorkPop, Index
  <2>2. TypeOK'
    BY <1>1, <1>5, <2>1 DEF TypeOK, WorkStates, WorkPop
  <2>3. (HeaderFirst /\ NothingStaged /\ WriterLast /\ NoStrandedThread)'
    BY <1>1, <1>5 DEF TypeOK, WorkPop, HeaderFirst, NothingStaged, WriterLast,
         NoStrandedThread, WorkHolds
  <2> QED BY <2>2, <2>3
<1>6. ASSUME NEW n \in 0 .. wlen, wpc = "write", FileAppend(n),
             wrErr' = wrErr \/ wrErr' = TRUE
      PROVE  Control'
  <2>1. /\ written' = written + n /\ intact' \in BOOLEAN /\ wpc' = "fflush" /\ wpc = "write"
        /\ UNCHANGED <<begun, pend, hdrs, chunk, chunkLen, ppc, op, left, then, acc, hdrAcc,
                       infoAcc, q, qLen, qHead, qTail, qCount, freeq, freeN, stop, mem, wbuf,
                       wlen, out, stdio>>
    BY <1>6 DEF FileAppend
  <2>2. wrErr' \in BOOLEAN /\ (wrErr => wrErr')
    <3>1. wrErr \in BOOLEAN
      BY <1>1 DEF TypeOK
    <3>2. CASE wrErr' = wrErr
      BY <3>1, <3>2
    <3>3. CASE wrErr' = TRUE
      BY <3>3
    <3> QED BY <1>6, <3>2, <3>3
  <2>3. TypeOK'
    BY <1>1, <1>6, <2>1, <2>2 DEF TypeOK, WorkStates
  <2>4. (HeaderFirst /\ NothingStaged /\ WriterLast /\ NoStrandedThread)'
    BY <1>1, <2>1, <2>2 DEF HeaderFirst, NothingStaged, WriterLast, NoStrandedThread,
         WorkHolds
  <2> QED BY <2>3, <2>4
<1>7. CASE WorkFflush
  BY <1>1, <1>7 DEF TypeOK, WorkStates, WorkFflush, StdioFlush, HeaderFirst, NothingStaged, WriterLast,
       NoStrandedThread, WorkHolds
<1>8. CASE WorkReturn
  <2>1. WorkHolds /\ freeN + 1 \in 0 .. Slots
    BY <1>1, <1>2, <1>8 DEF TypeOK, WorkHolds, WorkReturn
  <2>2. TypeOK'
    BY <1>1, <1>2, <1>8, <2>1 DEF TypeOK, ProdStates, WorkStates, WorkReturn, SignalFreecv
  <2>3. (HeaderFirst /\ NothingStaged /\ WriterLast /\ NoStrandedThread)'
    BY <1>1, <1>2, <1>8, <2>1 DEF TypeOK, WorkReturn, SignalFreecv, HeaderFirst,
         NothingStaged, WriterLast, NoStrandedThread, WorkHolds
  <2> QED BY <2>2, <2>3
<1>9. CASE SpuriousWakeup
  BY <1>1, <1>9 DEF TypeOK, ProdStates, WorkStates, SpuriousWakeup, HeaderFirst,
       NothingStaged, WriterLast, NoStrandedThread, WorkHolds
<1>10. CASE WorkWrite
  <2>1. wlen \in 0 .. wlen
    BY <1>1 DEF TypeOK
  <2> QED BY <1>6, <1>10, <2>1 DEF WorkWrite
<1>11. CASE WorkWriteFails
  <2>1. PICK n \in 0 .. wlen - 1 : FileAppend(n)
    BY <1>11 DEF WorkWriteFails
  <2>2. n \in 0 .. wlen
    BY <1>1 DEF TypeOK
  <2> QED BY <1>6, <1>11, <2>1, <2>2 DEF WorkWriteFails
<1> QED BY <1>3, <1>4, <1>5, <1>7, <1>8, <1>9, <1>10, <1>11

-----------------------------------------------------------------------------
(* Ownership of the buffers: the steps that move one.                        *)

(* The types these proofs need.                                              *)
LEMMA RingTypes ==
  ASSUME TypeOK
  PROVE  /\ Slots \in Nat \ {0}
         /\ q \in [Index -> Bufs \cup {NULL}] /\ freeq \in [Index -> Bufs]
         /\ qHead \in Index /\ qTail \in Index
         /\ qCount \in 0 .. Slots /\ freeN \in 0 .. Slots
  BY SizesAssumption DEF TypeOK

(* sink_write takes the buffer on top of the free stack as its first chunk.  *)
LEMMA TakeOwned ==
  ASSUME BufferOwnership, TypeOK', ~ProdHolds, freeN > 0,
         chunk' = freeq[freeN - 1], freeN' = freeN - 1, ProdHolds',
         UNCHANGED <<q, qHead, qTail, qCount, freeq, wpc, wbuf>>
  PROVE  BufferOwnership'
<1>1. TypeOK /\ freeN - 1 \in Index /\ chunk' \in Bufs /\ chunk' # NULL
  BY Accounts, NullNotBuf DEF BufferOwnership
<1>2. (\A i \in Index : Live(i)' <=> Live(i)) /\ (WorkHolds' <=> WorkHolds)
  BY DEF Live, Age, WorkHolds
<1>3. ~InRing(chunk)'
  BY RingTypes, <1>1, <1>2 DEF BufferOwnership, InRing
<1>4. ~OnFreeStack(chunk)'
  BY RingTypes, <1>1 DEF BufferOwnership, OnFreeStack, Index
<1>5. WorkHolds' => wbuf' # NULL /\ ~OnFreeStack(wbuf)' /\ ~InRing(wbuf)' /\ chunk' # wbuf'
  BY RingTypes, <1>1, <1>2 DEF BufferOwnership, OnFreeStack, InRing, Index
<1>6. (freeN + qCount + ProdShare + WorkShare = Slots)'
  BY RingTypes, <1>1, <1>2 DEF BufferOwnership, ProdShare, WorkShare
<1>7. (/\ qTail = IF qHead + qCount < Slots THEN qHead + qCount ELSE qHead + qCount - Slots
       /\ \A i, j \in Index :
             /\ i < freeN /\ j < freeN /\ i # j => freeq[i] # freeq[j]
             /\ Live(i) /\ Live(j) /\ i # j => q[i] # q[j]
             /\ i < freeN /\ Live(j) => freeq[i] # q[j]
       /\ \A i \in Index : Live(i) => q[i] # NULL)'
  BY RingTypes, <1>1, <1>2 DEF BufferOwnership, Index
<1> QED BY <1>3, <1>4, <1>5, <1>6, <1>7 DEF BufferOwnership

(* chunk_flush puts the staging chunk into the slot behind the newest one.   *)
LEMMA FlushPutOwned == ASSUME BufferOwnership, TypeOK', FlushPut PROVE BufferOwnership'
<1>1. /\ TypeOK /\ ProdHolds /\ ~ProdHolds' /\ chunk \in Bufs /\ qCount < Slots
      /\ Age(qTail) = qCount
  BY Accounts DEF BufferOwnership, FlushPut, ProdHolds, ChunkGone
<1>2. /\ qTail' = IF qTail + 1 = Slots THEN 0 ELSE qTail + 1
      /\ q' = [q EXCEPT ![qTail] = chunk] /\ qCount' = qCount + 1
      /\ SignalNonempty
      /\ UNCHANGED <<qHead, freeq, freeN, wbuf, chunk>>
  BY RingTypes, <1>1, RingStep DEF FlushPut, freeVars
<1>3. /\ \A i \in Index : /\ Age(i)' = Age(i)
                          /\ Live(i)' <=> Live(i) \/ i = qTail
                          /\ i # qTail => q'[i] = q[i]
                          /\ Live(i) => i # qTail
      /\ q'[qTail] = chunk
  BY RingTypes, <1>1, <1>2, SMTT(30) DEF Age, Live, Index
<1>4. WorkHolds' <=> WorkHolds
  BY <1>2 DEF WorkHolds, SignalNonempty
<1>5. (freeN + qCount + ProdShare + WorkShare = Slots)'
  BY RingTypes, <1>1, <1>2, <1>4 DEF BufferOwnership, ProdShare, WorkShare
<1>6. (qTail = IF qHead + qCount < Slots THEN qHead + qCount ELSE qHead + qCount - Slots)'
  BY RingTypes, <1>1, <1>2, SMTT(30) DEF BufferOwnership, Index
<1>7. (\A i, j \in Index :
         /\ i < freeN /\ j < freeN /\ i # j => freeq[i] # freeq[j]
         /\ Live(i) /\ Live(j) /\ i # j => q[i] # q[j]
         /\ i < freeN /\ Live(j) => freeq[i] # q[j])'
  BY <1>1, <1>2, <1>3 DEF BufferOwnership, OnFreeStack, InRing
<1>8. (\A i \in Index : Live(i) => q[i] # NULL)'
  BY <1>1, <1>2, <1>3, NullNotBuf DEF BufferOwnership
<1>9. WorkHolds' => wbuf' # NULL /\ ~OnFreeStack(wbuf)' /\ ~InRing(wbuf)'
  BY <1>1, <1>2, <1>3, <1>4 DEF BufferOwnership, OnFreeStack, InRing
<1> QED BY <1>1, <1>5, <1>6, <1>7, <1>8, <1>9 DEF BufferOwnership

(* writer_main takes the oldest chunk.                                       *)
LEMMA WorkPopOwned == ASSUME BufferOwnership, TypeOK', WorkPop PROVE BufferOwnership'
<1>1. TypeOK /\ qHead \in Index /\ Live(qHead) /\ Age(qHead) = 0 /\ q[qHead] \in Bufs
  BY RingTypes, Accounts DEF BufferOwnership, Live, WorkPop
<1>2. /\ wpc = "lockPop" /\ wpc' = "write" /\ qCount > 0
      /\ wbuf' = q[qHead] /\ qCount' = qCount - 1
      /\ qHead' = IF qHead + 1 = Slots THEN 0 ELSE qHead + 1
      /\ UNCHANGED <<q, qTail, freeq, freeN, chunk, ppc>>
  BY RingTypes, <1>1, RingStep DEF WorkPop, freeVars, prodVars
<1>3. \A i \in Index : /\ Live(i)' <=> Live(i) /\ i # qHead
                       /\ i # qHead => Age(i)' = Age(i) - 1
  BY RingTypes, <1>1, <1>2, SMTT(30) DEF Age, Live, Index
<1>4. (ProdHolds' <=> ProdHolds) /\ ~WorkHolds /\ WorkHolds'
  BY <1>2 DEF ProdHolds, ChunkGone, WorkHolds
<1>5. (freeN + qCount + ProdShare + WorkShare = Slots)'
  BY RingTypes, <1>1, <1>2, <1>4 DEF BufferOwnership, ProdShare, WorkShare
<1>6. (qTail = IF qHead + qCount < Slots THEN qHead + qCount ELSE qHead + qCount - Slots)'
  BY RingTypes, <1>1, <1>2, SMTT(30) DEF BufferOwnership, Index
<1>7. (\A i, j \in Index :
         /\ i < freeN /\ j < freeN /\ i # j => freeq[i] # freeq[j]
         /\ Live(i) /\ Live(j) /\ i # j => q[i] # q[j]
         /\ i < freeN /\ Live(j) => freeq[i] # q[j])'
  BY <1>2, <1>3 DEF BufferOwnership
<1>8. (\A i \in Index : Live(i) => q[i] # NULL)'
  BY <1>2, <1>3 DEF BufferOwnership
<1>9. ProdHolds' => ~OnFreeStack(chunk)' /\ ~InRing(chunk)' /\ chunk' # wbuf'
  BY <1>1, <1>2, <1>3, <1>4 DEF BufferOwnership, OnFreeStack, InRing
<1>10. wbuf' # NULL /\ ~OnFreeStack(wbuf)' /\ ~InRing(wbuf)'
  BY <1>1, <1>2, <1>3, NullNotBuf DEF BufferOwnership, OnFreeStack, InRing
<1> QED BY <1>5, <1>6, <1>7, <1>8, <1>9, <1>10 DEF BufferOwnership

(* writer_main puts the written buffer on top of the free stack.             *)
LEMMA WorkReturnOwned == ASSUME BufferOwnership, TypeOK', WorkReturn PROVE BufferOwnership'
<1>1. /\ TypeOK /\ freeN \in Index /\ wbuf \in Bufs /\ WorkHolds /\ ~WorkHolds'
      /\ ProdHolds' => ProdHolds
  BY Accounts DEF BufferOwnership, WorkHolds, WorkReturn, ProdHolds, ChunkGone, SignalFreecv
<1>2. /\ freeq' = [freeq EXCEPT ![freeN] = wbuf] /\ freeN' = freeN + 1
      /\ ProdHolds' <=> ProdHolds
      /\ UNCHANGED <<q, qHead, qTail, qCount, chunk>>
  BY <1>1 DEF WorkReturn, ringVars, ProdHolds, ChunkGone, SignalFreecv
<1>3. (freeN + qCount + ProdShare + WorkShare = Slots)'
  BY RingTypes, <1>1, <1>2 DEF BufferOwnership, ProdShare, WorkShare
<1>4. \A i \in Index : (Live(i)' <=> Live(i)) /\ (Live(i) => q[i] # wbuf)
  BY <1>1, <1>2 DEF Live, Age, BufferOwnership, InRing
<1>5. \A i \in Index : i < freeN' => IF i = freeN THEN freeq'[i] = wbuf
                                     ELSE i < freeN /\ freeq'[i] = freeq[i]
  BY RingTypes, <1>1, <1>2 DEF Index
<1>6. (\A i, j \in Index :
         /\ i < freeN /\ j < freeN /\ i # j => freeq[i] # freeq[j]
         /\ Live(i) /\ Live(j) /\ i # j => q[i] # q[j]
         /\ i < freeN /\ Live(j) => freeq[i] # q[j])'
  BY <1>1, <1>2, <1>4, <1>5 DEF BufferOwnership, OnFreeStack
<1>7. (\A i \in Index : Live(i) => q[i] # NULL)'
  BY <1>2, <1>4 DEF BufferOwnership
<1>8. ProdHolds' => ~OnFreeStack(chunk)' /\ ~InRing(chunk)'
  BY <1>1, <1>2, <1>4, <1>5 DEF BufferOwnership, OnFreeStack, InRing
<1>9. (qTail = IF qHead + qCount < Slots THEN qHead + qCount ELSE qHead + qCount - Slots)'
  BY <1>2 DEF BufferOwnership
<1> QED BY <1>1, <1>3, <1>6, <1>7, <1>8, <1>9 DEF BufferOwnership

(* Every other step leaves each buffer where it is.                          *)
LEMMA KeepOwned ==
  ASSUME BufferOwnership, TypeOK', ProdHolds' <=> ProdHolds, WorkHolds' <=> WorkHolds,
         UNCHANGED <<chunk, q, qHead, qTail, qCount, freeq, freeN, wbuf>>
  PROVE  BufferOwnership'
  BY DEF BufferOwnership, Age, Live, ProdShare, WorkShare, OnFreeStack, InRing

(* The ownership of every buffer survives every step.                        *)
LEMMA OwnershipStep == ASSUME IInv, Control', [Next]_vars PROVE BufferOwnership'
<1>1. BufferOwnership /\ TypeOK /\ TypeOK' /\ NothingStaged /\ HeaderFirst
  BY DEF IInv, BufferOwnership, Control
<1> USE DEF stageVars, ringVars, freeVars, ghostVars, fileVars, stdioVars, workVars, prodVars
<1>2. CASE GetFirst
  <2>1. CASE freeN > 0
    <3>1. /\ ~ProdHolds /\ chunk' = freeq[freeN - 1] /\ freeN' = freeN - 1 /\ ppc' = "sink"
          /\ UNCHANGED <<q, qHead, qTail, qCount, freeq, wpc, wbuf>>
      BY <1>1, <1>2, <2>1 DEF GetFirst, ProdHolds, NothingStaged
    <3>2. ProdHolds'
      BY <1>1, <2>1, <3>1, Accounts, NullNotBuf DEF ProdHolds, ChunkGone
    <3> QED BY <1>1, <2>1, <3>1, <3>2, TakeOwned
  <2>2. CASE ~(freeN > 0)
    BY <1>1, <1>2, <2>2, KeepOwned DEF GetFirst, ProdHolds, WorkHolds, ChunkGone
  <2> QED BY <2>1, <2>2
<1>3. CASE GetNext
  <2>1. ~ProdHolds
    BY <1>3 DEF GetNext, ProdHolds, ChunkGone
  <2>2. /\ then \in {"sink", "ret", "drain"} /\ ppc' = then
        /\ UNCHANGED <<q, qHead, qTail, qCount, freeq, wpc, wbuf>>
    BY <1>1, <1>3 DEF TypeOK, GetNext
  <2>3. CASE freeN > 0
    <3>1. chunk' = freeq[freeN - 1] /\ freeN' = freeN - 1
      BY <1>3, <2>3 DEF GetNext
    <3>2. ProdHolds'
      BY <1>1, <2>2, <2>3, <3>1, Accounts, NullNotBuf DEF ProdHolds, ChunkGone
    <3> QED BY <1>1, <2>1, <2>2, <2>3, <3>1, <3>2, TakeOwned
  <2>4. CASE ~(freeN > 0)
    <3>1. chunk' = NULL /\ freeN' = freeN
      BY <1>1, <1>3, <2>4 DEF TypeOK, GetNext
    <3>2. (ProdHolds' <=> ProdHolds) /\ (WorkHolds' <=> WorkHolds)
      BY <2>1, <2>2, <3>1 DEF ProdHolds, WorkHolds
    <3> QED
      BY <1>1, <2>1, <2>2, <3>1, <3>2
      DEF BufferOwnership, Age, Live, ProdShare, WorkShare, OnFreeStack, InRing
  <2> QED BY <2>3, <2>4
<1>4. CASE FlushPut    BY <1>1, <1>4, FlushPutOwned
<1>5. CASE WorkPop     BY <1>1, <1>5, WorkPopOwned
<1>6. CASE WorkReturn  BY <1>1, <1>6, WorkReturnOwned
<1>7. CASE \/ WriteEpb \/ WriteInfo \/ Begin \/ Flush \/ Close \/ BeginHeader \/ BeginPend
           \/ InfoFlush \/ OpReturn
  <2>1. /\ UNCHANGED <<chunk, q, qHead, qTail, qCount, freeq, freeN, wbuf, wpc>>
        /\ ppc \in {"idle", "ret"}
        /\ ppc' \in {"idle", "ret", "sink", "flush", "stopping"}
    BY <1>7 DEF WriteEpb, WriteInfo, WriteBlock, Begin, Flush, Close, FlushOrClose,
          BeginHeader, BeginPend, InfoFlush, OpReturn, SinkEnter
  <2> QED BY <1>1, <2>1, KeepOwned DEF ProdHolds, WorkHolds, ChunkGone
<1>8. CASE \/ SinkFirst \/ SinkCopy \/ SinkDone \/ FlushNothing \/ FlushDiscard
           \/ GetNextWait \/ DrainWait \/ Drained \/ CloseStop \/ CloseJoin
  <2>1. /\ UNCHANGED <<chunk, q, qHead, qTail, qCount, freeq, freeN, wbuf>>
        /\ ChunkGone' <=> ChunkGone
        /\ WorkHolds' <=> WorkHolds
    BY <1>1, <1>8 DEF TypeOK, SinkFirst, SinkCopy, SinkDone, FlushNothing, FlushDiscard,
         GetNextWait, DrainWait, Drained, CloseStop, CloseJoin, SignalNonempty, ChunkGone,
         WorkHolds
  <2> QED BY <1>1, <2>1, KeepOwned DEF ProdHolds
<1>9. CASE \/ WorkWait \/ WorkExit \/ WorkWrite \/ WorkWriteFails \/ WorkFflush
           \/ SpuriousWakeup \/ UNCHANGED vars
  <2>1. /\ UNCHANGED <<chunk, q, qHead, qTail, qCount, freeq, freeN, wbuf>>
        /\ ChunkGone' <=> ChunkGone
        /\ WorkHolds' <=> WorkHolds
    BY <1>9 DEF WorkWait, WorkExit, WorkWrite, WorkWriteFails, FileAppend, WorkFflush,
         SpuriousWakeup, ChunkGone, WorkHolds, vars
  <2> QED BY <1>1, <2>1, KeepOwned DEF ProdHolds
<1> QED BY <1>2, <1>3, <1>4, <1>5, <1>6, <1>7, <1>8, <1>9
        DEF Next, ProdCall, ProdRun, WorkStep, Done

-----------------------------------------------------------------------------
(* The order of the output.                                                  *)

(* A step that moves no units.                                               *)
LEMMA KeepOrder ==
  ASSUME OutputInOrder,
         wrErr => wrErr',
         UNCHANGED <<q, qLen, qHead, qCount, mem, written, intact, acc, hdrAcc, wbuf>>,
         InWrite' = InWrite, Staged' = Staged, wpc' = "write" => wpc = "write",
         ProdHolds' /\ chunkLen' > 0 => ProdHolds /\ UNCHANGED <<chunk, chunkLen>>
  PROVE  OutputInOrder'
  BY DEF OutputInOrder, Age, Live

(* After a write error only the header account is left to say.               *)
LEMMA ErrorOrder ==
  ASSUME OutputInOrder, wrErr' = TRUE, UNCHANGED <<acc, hdrAcc>>
  PROVE  OutputInOrder'
  BY DEF OutputInOrder

(* The types that the order speaks of.                                       *)
LEMMA UnitTypes ==
  ASSUME IInv
  PROVE  /\ acc \in Nat /\ written \in Nat /\ chunkLen \in Nat /\ wlen \in Nat
         /\ mem \in [Bufs -> Nat] /\ qLen \in [Index -> 0 .. ChunkCap]
         /\ q \in [Index -> Bufs \cup {NULL}]
         /\ qHead \in Index /\ qTail \in Index /\ qCount \in 0 .. Slots
         /\ Slots \in Nat \ {0} /\ ChunkCap \in Nat \ {0} /\ HdrBlocks \in Nat \ {0}
         /\ Index = 0 .. Slots - 1
         /\ \A i \in Index : Age(i) \in Index /\ (Live(i) => q[i] \in Bufs)
         /\ \A i \in Index : qLen[i] \in Nat
         /\ \A b \in Bufs : mem[b] \in Nat
         /\ InWrite \in Nat /\ Staged \in Nat
<1>1. TypeOK
  BY DEF IInv, BufferOwnership
<1>2. \A i \in Index : Age(i) \in Index /\ (Live(i) => q[i] \in Bufs)
  BY Accounts DEF IInv
<1>3. /\ qLen \in [Index -> 0 .. ChunkCap] /\ ChunkCap \in Nat \ {0}
      /\ chunkLen \in 0 .. ChunkCap /\ wlen \in 0 .. ChunkCap
  BY <1>1, SizesAssumption DEF TypeOK
<1>4. (\A i \in Index : qLen[i] \in Nat) /\ chunkLen \in Nat /\ wlen \in Nat
  BY <1>3
<1>5. InWrite \in Nat /\ Staged \in Nat
  BY <1>4 DEF InWrite, Staged
<1>6. /\ acc \in Nat /\ written \in Nat /\ mem \in [Bufs -> Nat]
      /\ q \in [Index -> Bufs \cup {NULL}]
      /\ qHead \in Index /\ qTail \in Index /\ qCount \in 0 .. Slots
  BY <1>1 DEF TypeOK
<1> QED BY <1>2, <1>3, <1>4, <1>5, <1>6, SizesAssumption DEF Index

(* sink_write copies into the staging chunk, which no one else sees.         *)
LEMMA SinkCopyOrder == ASSUME IInv, SinkCopy PROVE OutputInOrder'
<1>1. /\ ppc = "sink" /\ left > 0 /\ chunk # NULL
      /\ mem' = IF chunkLen = 0 THEN [mem EXCEPT ![chunk] = acc + 1] ELSE mem
      /\ chunkLen' = chunkLen + Take /\ acc' = acc + Take
      /\ hdrAcc' = IF op = "begin" THEN hdrAcc + Take ELSE hdrAcc
      /\ ppc' \in {"sink", "flush"}
      /\ UNCHANGED <<chunk, q, qLen, qHead, qCount, wrErr, wpc, wbuf, wlen, written, intact>>
  BY DEF SinkCopy, ringVars, workVars, fileVars, stdioVars
<1>2. /\ Take \in Nat /\ Take <= left /\ left \in Nat /\ hdrs \in Nat
      /\ acc \in Nat /\ chunkLen \in Nat /\ HdrBlocks \in Nat
      /\ ProdHolds /\ chunk \in Bufs
      /\ Staged = chunkLen /\ Staged' = chunkLen' /\ InWrite' = InWrite
  <2>1. left \in Nat /\ hdrs \in Nat /\ chunkLen \in 0 .. ChunkCap
    BY DEF IInv, BufferOwnership, TypeOK
  <2>2. Take \in Nat /\ Take <= left
    BY <1>1, <2>1, SizesAssumption DEF Take
  <2>3. ProdHolds /\ chunk \in Bufs
    BY <1>1, Accounts DEF IInv, ProdHolds, ChunkGone
  <2>4. acc \in Nat /\ chunkLen \in Nat /\ HdrBlocks \in Nat
    BY UnitTypes
  <2> QED BY <1>1, <2>1, <2>2, <2>3, <2>4 DEF Staged, ChunkGone, InWrite
<1>3. hdrAcc' = IF acc' < HdrBlocks THEN acc' ELSE HdrBlocks
  <2>1. begun
    BY <1>1 DEF IInv, HeaderFirst
  <2>2. CASE op = "begin"
    <3>1. acc + left + hdrs <= HdrBlocks /\ hdrAcc = IF acc < HdrBlocks THEN acc ELSE HdrBlocks
      BY <2>2 DEF IInv, HeaderFirst, OutputInOrder
    <3> QED BY <1>1, <1>2, <2>2, <3>1
  <2>3. CASE op # "begin"
    <3>1. ~(acc < HdrBlocks)
      BY <1>1, <1>2, <2>1, <2>3 DEF IInv, HeaderFirst
    <3>2. hdrAcc = HdrBlocks
      BY <3>1 DEF IInv, OutputInOrder
    <3> QED BY <1>1, <1>2, <2>3, <3>1, <3>2
  <2> QED BY <2>2, <2>3
<1>4. /\ \A i \in Index : Live(i) => mem'[q[i]] = mem[q[i]]
      /\ wpc = "write" => mem'[wbuf] = mem[wbuf]
      /\ mem'[chunk] = IF chunkLen = 0 THEN acc + 1 ELSE mem[chunk]
  <2>1. \A i \in Index : Live(i) => q[i] # chunk /\ q[i] \in Bufs
    BY <1>2, Accounts DEF IInv, BufferOwnership, InRing
  <2>2. wpc = "write" => wbuf # chunk /\ wbuf \in Bufs
    BY <1>2, Accounts DEF IInv, BufferOwnership, WorkHolds
  <2> QED BY <1>1, <1>2, <2>1, <2>2, UnitTypes
<1>5. acc' - Staged' = acc - Staged
  <2>1. chunkLen' = chunkLen + Take /\ acc' = acc + Take
    BY <1>1
  <2> QED BY <1>2, <2>1
<1>6. \A i \in Index : Age(i)' = Age(i) /\ (Live(i)' <=> Live(i))
  BY <1>1 DEF Age, Live
<1>7. ~wrErr => mem'[chunk] = acc' - chunkLen' + 1
  <2>1. chunkLen' = chunkLen + Take /\ acc' = acc + Take
    BY <1>1
  <2>2. CASE chunkLen = 0
    BY <1>2, <1>4, <2>1, <2>2
  <2>3. CASE chunkLen # 0
    <3>1. ~wrErr => mem[chunk] = acc - chunkLen + 1
      BY <1>2, <2>3 DEF IInv, OutputInOrder
    <3>2. acc - chunkLen + 1 = acc' - chunkLen' + 1
      BY <1>2, <2>1
    <3> QED BY <1>4, <2>3, <3>1, <3>2
  <2> QED BY <2>2, <2>3
<1>8. ~wrErr =>
        /\ intact
        /\ wpc = "write" => mem[wbuf] = written + 1
        /\ qCount = 0 => written + InWrite = acc - Staged
        /\ \A i \in Index : Live(i) =>
              /\ Age(i) = 0 => mem[q[i]] = written + InWrite + 1
              /\ Age(i) = qCount - 1 => mem[q[i]] + qLen[i] = acc - Staged + 1
        /\ \A i, j \in Index : Live(i) /\ Live(j) /\ Age(j) = Age(i) + 1 =>
              mem[q[j]] = mem[q[i]] + qLen[i]
  BY DEF IInv, OutputInOrder
<1> QED BY <1>1, <1>2, <1>3, <1>4, <1>5, <1>6, <1>7, <1>8 DEF OutputInOrder

(* chunk_flush appends the staging chunk to the ring.                        *)
LEMMA FlushPutOrder == ASSUME IInv, FlushPut PROVE OutputInOrder'
<1>1. /\ ppc = "flush" /\ ppc' = "getNext" /\ chunkLen > 0 /\ chunk # NULL /\ ~wrErr
      /\ q' = [q EXCEPT ![qTail] = chunk] /\ qLen' = [qLen EXCEPT ![qTail] = chunkLen]
      /\ qCount' = qCount + 1 /\ SignalNonempty
      /\ UNCHANGED <<chunk, chunkLen, qHead, wrErr, mem, wbuf, wlen, acc, hdrAcc, written,
                     intact>>
  BY DEF FlushPut, ghostVars, fileVars, stdioVars
<1>2. /\ chunk \in Bufs /\ qCount < Slots /\ Age(qTail) = qCount
      /\ ProdHolds /\ ~ProdHolds' /\ Staged = chunkLen /\ Staged' = 0 /\ InWrite' = InWrite
      /\ wpc' = "write" => wpc = "write"
  BY <1>1, Accounts DEF IInv, ProdHolds, ChunkGone, Staged, InWrite, SignalNonempty
<1>3. \A i \in Index : /\ Age(i)' = Age(i)
                       /\ Live(i)' <=> Live(i) \/ i = qTail
                       /\ i # qTail => q'[i] = q[i] /\ qLen'[i] = qLen[i]
                       /\ Live(i) => i # qTail
  <2>1. TypeOK
    BY DEF IInv, BufferOwnership
  <2>2. qLen \in [Index -> 0 .. ChunkCap]
    BY UnitTypes
  <2> TAKE i \in Index
  <2>3. i # qTail => q'[i] = q[i] /\ qLen'[i] = qLen[i]
    BY <1>1, <2>1, <2>2, RingTypes
  <2>4. qHead' = qHead /\ qCount' = qCount + 1
    BY <1>1
  <2>5. Age(i)' = Age(i) /\ (Live(i)' <=> Live(i) \/ i = qTail) /\ (Live(i) => i # qTail)
    BY <1>2, <2>1, <2>4, RingTypes DEF Age, Live, Index
  <2> QED BY <2>3, <2>5
<1>4. q'[qTail] = chunk /\ qLen'[qTail] = chunkLen /\ mem[chunk] = acc - chunkLen + 1
  BY <1>1, <1>2, UnitTypes DEF IInv, OutputInOrder
<1>5. /\ hdrAcc = IF acc < HdrBlocks THEN acc ELSE HdrBlocks
      /\ intact
      /\ wpc = "write" => mem[wbuf] = written + 1
      /\ qCount = 0 => written + InWrite = acc - chunkLen
      /\ \A i \in Index : Live(i) =>
            /\ Age(i) = 0 => mem[q[i]] = written + InWrite + 1
            /\ Age(i) = qCount - 1 => mem[q[i]] + qLen[i] = acc - chunkLen + 1
      /\ \A i, j \in Index : Live(i) /\ Live(j) /\ Age(j) = Age(i) + 1 =>
            mem[q[j]] = mem[q[i]] + qLen[i]
  BY <1>1, <1>2 DEF IInv, OutputInOrder
<1>6. ASSUME NEW i \in Index, Live(i)'
      PROVE  /\ Age(i)' = 0 => mem'[q'[i]] = written' + InWrite' + 1
             /\ Age(i)' = qCount' - 1 => mem'[q'[i]] + qLen'[i] = acc' - Staged' + 1
  <2>0. /\ acc \in Nat /\ chunkLen \in Nat /\ written \in Nat /\ InWrite \in Nat
        /\ qCount \in Nat /\ Age(i) \in Int
    BY UnitTypes
  <2>a. /\ qCount' = qCount + 1 /\ mem' = mem /\ written' = written /\ acc' = acc
        /\ InWrite' = InWrite /\ Staged' = 0 /\ Age(i)' = Age(i)
    BY <1>1, <1>2, <1>3
  <2>1. CASE i = qTail
    <3>1. Age(i) = qCount /\ mem'[q'[i]] = acc - chunkLen + 1 /\ qLen'[i] = chunkLen
      BY <1>2, <1>4, <2>1, <2>a
    <3>2. qCount = 0 => written + InWrite = acc - chunkLen
      BY <1>5
    <3> QED BY <2>0, <2>a, <3>1, <3>2
  <2>2. CASE i # qTail
    <3>1. Live(i) /\ Age(i) < qCount /\ q'[i] = q[i]
      BY <1>3, <1>6, <2>2 DEF Live
    <3>2. Age(i)' # qCount' - 1
      BY <2>0, <2>a, <3>1
    <3>3. Age(i) = 0 => mem[q[i]] = written + InWrite + 1
      BY <1>5, <3>1
    <3> QED BY <2>a, <3>1, <3>2, <3>3
  <2> QED BY <2>1, <2>2
<1>7. ASSUME NEW i \in Index, NEW j \in Index, Live(i)', Live(j)', Age(j)' = Age(i)' + 1
      PROVE  mem'[q'[j]] = mem'[q'[i]] + qLen'[i]
  <2>1. CASE i = qTail
    <3>1. Age(j) < qCount + 1 /\ Age(j) = qCount + 1
      BY <1>1, <1>2, <1>3, <1>7, <2>1 DEF Live
    <3> QED BY <3>1, UnitTypes
  <2>2. CASE i # qTail /\ j = qTail
    <3>0. Age(i) \in Int /\ qCount \in Int
      BY UnitTypes
    <3>1. Live(i) /\ Age(i) = qCount - 1
      <4>1. Live(i) /\ Age(i)' = Age(i) /\ Age(j)' = Age(j) /\ Age(j) = qCount
        BY <1>2, <1>3, <1>7, <2>2
      <4> QED BY <1>7, <3>0, <4>1
    <3>2. mem[q[i]] + qLen[i] = acc - chunkLen + 1
      BY <1>5, <3>1
    <3> QED BY <1>1, <1>3, <1>4, <2>2, <3>2
  <2>3. CASE i # qTail /\ j # qTail
    BY <1>1, <1>3, <1>5, <1>7, <2>3
  <2> QED BY <2>1, <2>2, <2>3
<1>8. qCount' # 0
  BY <1>1, UnitTypes
<1> QED BY <1>1, <1>2, <1>5, <1>6, <1>7, <1>8 DEF OutputInOrder

(* writer_main takes the oldest chunk, which continues what is written.      *)
LEMMA WorkPopOrder == ASSUME IInv, WorkPop PROVE OutputInOrder'
<1>1. /\ wpc = "lockPop" /\ wpc' = "write" /\ qCount > 0
      /\ wbuf' = q[qHead] /\ wlen' = qLen[qHead] /\ qCount' = qCount - 1
      /\ qHead' = IF qHead + 1 = Slots THEN 0 ELSE qHead + 1
      /\ UNCHANGED <<q, qLen, chunk, chunkLen, ppc, wrErr, mem, acc, hdrAcc, written, intact>>
  BY UnitTypes, RingStep DEF WorkPop, prodVars, fileVars, stdioVars
<1>2. /\ Live(qHead) /\ Age(qHead) = 0 /\ q[qHead] \in Bufs
      /\ Staged' = Staged /\ InWrite = 0 /\ InWrite' = wlen' /\ (ProdHolds' <=> ProdHolds)
  BY <1>1, Accounts, UnitTypes DEF IInv, Live, ProdHolds, ChunkGone, Staged, InWrite
<1>3. \A i \in Index : /\ Live(i)' <=> Live(i) /\ i # qHead
                       /\ i # qHead => Age(i)' = Age(i) - 1 /\ Age(i) # 0
  <2>1. TypeOK
    BY DEF IInv, BufferOwnership
  <2>2. qHead' = (IF qHead + 1 = Slots THEN 0 ELSE qHead + 1) /\ qCount' = qCount - 1
    BY <1>1
  <2> TAKE i \in Index
  <2>3. i # qHead => Age(i)' = Age(i) - 1 /\ Age(i) # 0
    BY <2>1, <2>2, RingTypes, SMTT(30) DEF Age, Index
  <2>4. i = qHead => Age(i)' = Slots - 1
    BY <2>1, <2>2, RingTypes DEF Age, Index
  <2>5. Live(i)' <=> Live(i) /\ i # qHead
    <3>1. Age(i) \in Int /\ qCount \in 0 .. Slots /\ Slots \in Nat
      BY UnitTypes
    <3>2. CASE i = qHead
      BY <2>2, <2>4, <3>1, <3>2 DEF Live
    <3>3. CASE i # qHead
      BY <2>2, <2>3, <3>1, <3>3 DEF Live
    <3> QED BY <3>2, <3>3
  <2> QED BY <2>3, <2>5
<1>4. hdrAcc' = IF acc' < HdrBlocks THEN acc' ELSE HdrBlocks
  BY <1>1 DEF IInv, OutputInOrder
<1>5. SUFFICES ASSUME ~wrErr
               PROVE  OutputInOrder'
  BY <1>1, <1>4 DEF OutputInOrder
<1>6. /\ intact
      /\ mem[q[qHead]] = written + 1
      /\ qCount = 1 => written + qLen[qHead] = acc - Staged
      /\ \A i \in Index : Live(i) /\ Age(i) = qCount - 1 =>
            mem[q[i]] + qLen[i] = acc - Staged + 1
      /\ \A i, j \in Index : Live(i) /\ Live(j) /\ Age(j) = Age(i) + 1 =>
            mem[q[j]] = mem[q[i]] + qLen[i]
      /\ ProdHolds /\ chunkLen > 0 => mem[chunk] = acc - chunkLen + 1
  <2>1. mem[q[qHead]] = written + 1
    BY <1>2, <1>5, UnitTypes DEF IInv, OutputInOrder
  <2>2. qCount = 1 => mem[q[qHead]] + qLen[qHead] = acc - Staged + 1
    BY <1>2, <1>5, UnitTypes DEF IInv, OutputInOrder
  <2>3. qCount = 1 => written + qLen[qHead] = acc - Staged
    <3>1. written \in Nat /\ qLen[qHead] \in Nat /\ acc \in Nat /\ Staged \in Nat
      BY UnitTypes
    <3> QED BY <2>1, <2>2, <3>1
  <2> QED BY <1>5, <2>1, <2>3 DEF IInv, OutputInOrder
<1>7. ASSUME NEW i \in Index, Live(i)'
      PROVE  /\ Age(i)' = 0 => mem'[q'[i]] = written' + InWrite' + 1
             /\ Age(i)' = qCount' - 1 => mem'[q'[i]] + qLen'[i] = acc' - Staged' + 1
  <2>1. Live(i) /\ i # qHead /\ Age(i)' = Age(i) - 1 /\ Age(i) \in Int
    BY <1>3, <1>7, UnitTypes
  <2>2. Age(i)' = 0 => mem[q[i]] = mem[q[qHead]] + qLen[qHead]
    <3>1. Age(i)' = 0 => Age(i) = Age(qHead) + 1
      BY <1>2, <2>1
    <3> QED BY <1>2, <1>6, <2>1, <3>1, UnitTypes
  <2>3. Age(i)' = 0 => mem[q[i]] = written + qLen[qHead] + 1
    BY <1>6, <2>2, UnitTypes, SMTT(30)
  <2>4. Age(i)' = qCount' - 1 => Age(i) = qCount - 1
    <3>1. qCount' = qCount - 1 /\ qCount \in Int
      BY <1>1, UnitTypes
    <3> QED BY <2>1, <3>1
  <2> QED BY <1>1, <1>2, <1>6, <2>1, <2>3, <2>4
<1>8. ASSUME NEW i \in Index, NEW j \in Index, Live(i)', Live(j)', Age(j)' = Age(i)' + 1
      PROVE  mem'[q'[j]] = mem'[q'[i]] + qLen'[i]
  <2>1. Live(i) /\ Live(j) /\ Age(j)' = Age(j) - 1 /\ Age(i)' = Age(i) - 1
    BY <1>3, <1>8
  <2>2. Age(i) \in Int /\ Age(j) \in Int
    BY UnitTypes, SMTT(30)
  <2>3. Age(j) = Age(i) + 1
    BY <1>8, <2>1, <2>2
  <2> QED BY <1>1, <1>6, <2>1, <2>3
<1>9. qCount' = 0 => written' + InWrite' = acc' - Staged'
  BY <1>1, <1>2, <1>6, UnitTypes
<1> QED BY <1>1, <1>2, <1>4, <1>6, <1>7, <1>8, <1>9 DEF OutputInOrder

(* writer_main writes the chunk it holds.                                    *)
LEMMA WorkWriteOrder == ASSUME IInv, WorkWrite PROVE OutputInOrder'
<1>1. /\ wpc = "write" /\ wpc' = "fflush" /\ written' = written + wlen
      /\ intact' = (intact /\ (wlen = 0 \/ mem[wbuf] = written + 1))
      /\ UNCHANGED <<q, qLen, qHead, qCount, chunk, chunkLen, ppc, wrErr, mem, acc, hdrAcc>>
  BY DEF WorkWrite, FileAppend, prodVars, ringVars
<1>2. /\ Staged' = Staged /\ InWrite = wlen /\ InWrite' = 0 /\ (ProdHolds' <=> ProdHolds)
      /\ written' + InWrite' = written + InWrite
      /\ \A i \in Index : Age(i)' = Age(i) /\ (Live(i)' <=> Live(i))
  BY <1>1, UnitTypes DEF Staged, ChunkGone, ProdHolds, InWrite, Age, Live
<1> QED BY <1>1, <1>2 DEF IInv, OutputInOrder

-----------------------------------------------------------------------------
(* Every step keeps the output in order.                                     *)
LEMMA OrderStep == ASSUME IInv, [Next]_vars PROVE OutputInOrder'
<1>1. OutputInOrder /\ TypeOK
  BY DEF IInv, BufferOwnership
<1>2. CASE SinkCopy        BY <1>2, SinkCopyOrder
<1>3. CASE FlushPut        BY <1>3, FlushPutOrder
<1>4. CASE WorkPop         BY <1>4, WorkPopOrder
<1>5. CASE WorkWrite       BY <1>5, WorkWriteOrder
<1>6. CASE FlushDiscard \/ WorkWriteFails
  <2>1. wrErr' = TRUE /\ UNCHANGED <<acc, hdrAcc>>
    BY <1>1, <1>6 DEF TypeOK, FlushDiscard, WorkWriteFails, FileAppend, prodVars, ghostVars
  <2> QED BY <1>1, <2>1, ErrorOrder
<1>7. CASE GetFirst \/ GetNext
  <2>1. /\ UNCHANGED <<q, qLen, qHead, qCount, mem, written, intact, acc, hdrAcc, wbuf,
                       wpc, wlen>>
        /\ wrErr => wrErr'
        /\ chunkLen' = 0 /\ Staged = 0
    BY <1>7 DEF GetFirst, GetNext, IInv, NothingStaged, ringVars, workVars, ghostVars,
         fileVars, stdioVars, Staged, ChunkGone
  <2>2. Staged' = 0 /\ InWrite' = InWrite
    BY <2>1 DEF Staged, InWrite
  <2> QED BY <1>1, <2>1, <2>2, KeepOrder
<1>8. CASE \/ WriteEpb \/ WriteInfo \/ Begin \/ Flush \/ Close \/ BeginHeader \/ BeginPend
           \/ InfoFlush \/ OpReturn
  <2>1. /\ UNCHANGED <<q, qLen, qHead, qCount, mem, written, intact, acc, hdrAcc, wbuf,
                       wpc, wlen, chunk, chunkLen, wrErr>>
        /\ ppc \in {"idle", "ret"}
        /\ ppc' \in {"idle", "ret", "sink", "flush", "stopping"}
    BY <1>8 DEF WriteEpb, WriteInfo, WriteBlock, Begin, Flush, Close, FlushOrClose,
          BeginHeader, BeginPend, InfoFlush, OpReturn, SinkEnter, ringVars, workVars,
          ghostVars, fileVars, stdioVars
  <2> QED BY <1>1, <2>1, KeepOrder DEF Staged, ProdHolds, ChunkGone, InWrite
<1>9. CASE \/ SinkFirst \/ SinkDone \/ FlushNothing \/ GetNextWait \/ DrainWait \/ Drained
           \/ CloseStop \/ CloseJoin
  <2>1. /\ UNCHANGED <<q, qLen, qHead, qCount, mem, written, intact, acc, hdrAcc, wbuf,
                       wlen, chunk, chunkLen, wrErr>>
        /\ ChunkGone' <=> ChunkGone
        /\ wpc' = "write" <=> wpc = "write"
    BY <1>1, <1>9 DEF TypeOK, SinkFirst, SinkDone, FlushNothing, GetNextWait, DrainWait,
         Drained, CloseStop, CloseJoin, SignalNonempty, ChunkGone, ringVars, workVars,
         ghostVars, fileVars, stdioVars
  <2> QED BY <1>1, <2>1, KeepOrder DEF Staged, ProdHolds, InWrite
<1>10. CASE \/ WorkWait \/ WorkExit \/ WorkFflush \/ WorkReturn \/ SpuriousWakeup
            \/ UNCHANGED vars
  <2>1. /\ UNCHANGED <<q, qLen, qHead, qCount, mem, written, intact, acc, hdrAcc, chunk,
                       chunkLen, wrErr>>
        /\ wpc' = "write" <=> wpc = "write"
        /\ wpc = "write" => UNCHANGED <<wbuf, wlen>>
        /\ Staged' = Staged
    <3>1. CASE WorkReturn
      <4>1. (ppc = "waitNext" /\ ppc' = "getNext") \/ ppc' = ppc
            \/ (ppc = "waitDrain" /\ ppc' = "drain")
        BY <3>1 DEF WorkReturn, SignalFreecv
      <4> QED BY <3>1, <4>1 DEF WorkReturn, ringVars, ghostVars, fileVars, stdioVars, Staged, ChunkGone
    <3>2. CASE SpuriousWakeup
      BY <3>2 DEF SpuriousWakeup, ringVars, ghostVars, fileVars, stdioVars, Staged, ChunkGone
    <3>3. CASE WorkWait \/ WorkExit \/ WorkFflush
      BY <3>3 DEF WorkWait, WorkExit, WorkFflush, prodVars, ringVars, fileVars, stdioVars, Staged,
           ChunkGone
    <3>4. CASE UNCHANGED vars
      BY <3>4 DEF vars, Staged, ChunkGone
    <3> QED BY <1>10, <3>1, <3>2, <3>3, <3>4
  <2>2. ProdHolds' <=> ProdHolds
    <3>1. ChunkGone' <=> ChunkGone
      BY <1>10 DEF WorkWait, WorkExit, WorkFflush, WorkReturn, SignalFreecv, prodVars,
           SpuriousWakeup, ChunkGone, vars
    <3> QED BY <2>1, <3>1 DEF ProdHolds
  <2>3. InWrite' = InWrite
    BY <2>1 DEF InWrite
  <2> QED BY <1>1, <2>1, <2>2, <2>3 DEF OutputInOrder, Age, Live
<1> QED BY <1>2, <1>3, <1>4, <1>5, <1>6, <1>7, <1>8, <1>9, <1>10
        DEF Next, ProdCall, ProdRun, WorkStep, Done

(* Every step of the two threads preserves the invariant.                    *)
LEMMA NextIInv == IInv /\ [Next]_vars => IInv'
<1> SUFFICES ASSUME IInv, [Next]_vars PROVE IInv'
  OBVIOUS
<1>1. Control'
  <2>1. CASE UNCHANGED vars
    <3>1. Control
      BY DEF IInv, BufferOwnership, Control
    <3> QED BY <2>1, <3>1 DEF Control, TypeOK, HeaderFirst, NothingStaged, WriterLast,
                 NoStrandedThread, WorkHolds, vars
  <2>2. CASE Next
    BY <2>1, <2>2, CallControl, SinkControl, WorkControl
    DEF Next, ProdCall, ProdRun, WorkStep, Done
  <2> QED BY <2>1, <2>2
<1> QED BY <1>1, OwnershipStep, OrderStep DEF IInv, Control

(* The invariant holds throughout.                                           *)
THEOREM Invariance == Spec => []IInv
  BY InitIInv, NextIInv, PTL DEF Spec

(* Every variable keeps its type: the ring's indices stay in the ring, its   *)
(* counters within WQ_SLOTS and every length within WQ_CHUNK.                *)
THEOREM TypeCorrect == Spec => []TypeOK
<1>1. IInv => TypeOK
  BY DEF IInv, BufferOwnership
<1> QED BY Invariance, <1>1, PTL

(* Whatever the two threads do, and also after a write error, every buffer   *)
(* has exactly one owner.                                                    *)
THEOREM OwnedOnce == Spec => []BufferOwnership
<1>1. IInv => BufferOwnership
  BY DEF IInv
<1> QED BY Invariance, <1>1, PTL

(* Until a write fails, the file holds what the producer wrote, in the order *)
(* in which it wrote it, section header first.                               *)
THEOREM InOrder == Spec => []OutputInOrder
<1>1. IInv => OutputInOrder
  BY DEF IInv
<1> QED BY Invariance, <1>1, PTL

(* Neither thread sleeps without a wakeup on its way.                        *)
THEOREM NeverStranded == Spec => []NoStrandedThread
<1>1. IInv => NoStrandedThread
  BY DEF IInv
<1> QED BY Invariance, <1>1, PTL

(* pcapng_close frees every buffer and, unless a write failed, has given all *)
(* of the output to stdio; it is delivered unless the last flush failed.     *)
THEOREM CloseLeavesAll == Spec => []CloseComplete
<1>1. IInv => CloseComplete
  <2> SUFFICES ASSUME IInv, ppc = "closed"
               PROVE  /\ qCount = 0 /\ freeN + ProdShare = Slots
                      /\ ~wrErr => /\ written = acc /\ intact
                                   /\ stdio = "ok" => out = acc
    BY DEF CloseComplete
  <2>1. wpc = "exited" /\ (stdio = "ok" => out = written) /\ qCount = 0 /\ chunkLen = 0
    BY DEF IInv, WriterLast, NothingStaged
  <2>2. freeN + ProdShare = Slots
    <3>1. freeN + qCount + ProdShare + WorkShare = Slots /\ TypeOK
      BY DEF IInv, BufferOwnership
    <3>2. WorkShare = 0 /\ ProdShare \in Nat /\ freeN \in 0 .. Slots /\ Slots \in Nat
      BY <2>1, <3>1, RingTypes DEF WorkShare, WorkHolds, ProdShare
    <3> QED BY <2>1, <3>1, <3>2
  <2>3. InWrite = 0 /\ Staged = 0
    BY <2>1 DEF InWrite, Staged
  <2>4. ~wrErr => intact /\ written + InWrite = acc - Staged
    BY <2>1 DEF IInv, OutputInOrder
  <2>5. written \in Nat /\ acc \in Nat
    BY UnitTypes
  <2> QED BY <2>1, <2>2, <2>3, <2>4, <2>5
<1> QED BY Invariance, <1>1, PTL
=============================================================================
