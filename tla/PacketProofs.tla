---------------------------- MODULE PacketProofs ----------------------------
(* The parser thread's two ends.  The raw queue it takes its input from:     *)
(* its safety properties, for every number of slots from two on.  And the    *)
(* packet interpreter of both generations: its properties, for all options,  *)
(* fold buffers, fold limits, time stamps and numbers of frames.             *)
EXTENDS RawQueue, Gen1Capture, SequenceTheorems, WellFoundedInduction, TLAPS

-----------------------------------------------------------------------------
(* The raw queue.                                                            *)

(* The inductive invariant: the checked invariants, and that a rawq_push     *)
(* under way has a chunk left to copy.                                       *)
PiecesLeft == mpc \in {"lockFree", "waitNonfull", "copy", "lockPut"} => pieces >= 1

QueueInv == /\ TypeOK
        /\ PiecesLeft
        /\ BufferOwnership
        /\ ChunksInOrder
        /\ NoStrandedThread
        /\ StopDrains

(* One step along the ring: the % of the code, as a comparison.              *)
LEMMA RingStep ==
  ASSUME NEW i \in Index
  PROVE  (i + 1) % Slots = IF i + 1 = Slots THEN 0 ELSE i + 1
  BY SlotsAssumption DEF Index

(* The null pointer is no buffer of the pool.                                *)
LEMMA NullNotBuf == NULL \notin Bufs /\ NULL \notin Index
  BY DEF NULL, Bufs, Index

(* rawq_init establishes the invariant.                                      *)
LEMMA InitQueueInv == QueueInit => QueueInv
<1> SUFFICES ASSUME QueueInit PROVE QueueInv
  OBVIOUS
<1> USE SlotsAssumption DEF QueueInit
<1>1. TypeOK
  <2>1. 0 \in Index /\ Slots \in 0 .. Slots /\ 0 \in 0 .. Slots
    BY DEF Index
  <2> QED BY <2>1 DEF TypeOK, Bufs, MainStates, WorkStates
<1>2. PiecesLeft /\ NoStrandedThread /\ StopDrains
  BY DEF PiecesLeft, NoStrandedThread, StopDrains
<1>3. BufferOwnership
  BY DEF BufferOwnership, Age, Live, MainHolds, WorkHolds, MainShare, WorkShare,
      OnFreeStack, InRing, Index, Bufs
<1>4. ChunksInOrder
  BY DEF ChunksInOrder, Age, Live, Index, Bufs
<1> QED BY <1>1, <1>2, <1>3, <1>4 DEF QueueInv

(* What the accounting says of the counters while a buffer is held.          *)
LEMMA Accounts ==
  ASSUME TypeOK, BufferOwnership
  PROVE  /\ MainHolds => count < Slots /\ mbuf \in Bufs
         /\ WorkHolds => freeCount < Slots /\ freeCount \in Index /\ wbuf \in Bufs
         /\ freeCount > 0 => freeCount - 1 \in Index
         /\ \A i \in Index : Age(i) \in Index /\ (Live(i) => q[i] \in Bufs)
         /\ Age(tail) = 0
         /\ count < Slots => Age(head) = count
<1> USE SlotsAssumption DEF TypeOK
<1>1. /\ MainHolds => count < Slots
      /\ WorkHolds => freeCount < Slots /\ freeCount \in Index
      /\ freeCount > 0 => freeCount - 1 \in Index
  BY DEF BufferOwnership, MainShare, WorkShare, Index
<1>2. (MainHolds => mbuf \in Bufs) /\ (WorkHolds => wbuf \in Bufs)
  BY DEF BufferOwnership
<1>3. \A i \in Index : Age(i) \in Index
  BY DEF Age, Index
<1>4. \A i \in Index : Live(i) => q[i] \in Bufs
  BY DEF BufferOwnership
<1>5. Age(tail) = 0 /\ (count < Slots => Age(head) = count)
  BY DEF Age, Index, BufferOwnership
<1> QED BY <1>1, <1>2, <1>3, <1>4, <1>5

(* rawq_push takes the buffer on top of the free stack.                      *)
LEMMA PushTakeIInv == QueueInv /\ PushTake => QueueInv'
<1> SUFFICES ASSUME QueueInv, PushTake PROVE QueueInv'
  OBVIOUS
<1> USE SlotsAssumption DEF QueueInv, PushTake, queueVars, workVars
<1>1. freeCount - 1 \in Index /\ freeCount - 1 \in 0 .. Slots
  BY Accounts DEF TypeOK
<1>2. TypeOK'
  BY <1>1 DEF TypeOK, MainStates
<1>3. (PiecesLeft /\ NoStrandedThread /\ StopDrains)'
  BY DEF TypeOK, PiecesLeft, NoStrandedThread, StopDrains
<1>4. BufferOwnership'
  <2>1. mbuf' \in Bufs /\ mbuf' # NULL
    BY <1>1, NullNotBuf DEF TypeOK
  <2>2. \A i \in Index : Live(i)' <=> Live(i)
    BY DEF Live, Age
  <2>3. ~InRing(mbuf)'
    BY <1>1, <2>2 DEF TypeOK, BufferOwnership, InRing
  <2>4. ~OnFreeStack(mbuf)'
    BY <1>1 DEF TypeOK, BufferOwnership, OnFreeStack, Index
  <2>5. WorkHolds' => wbuf' # NULL /\ ~OnFreeStack(wbuf)' /\ ~InRing(wbuf)' /\ mbuf' # wbuf'
    BY <1>1, <2>2 DEF TypeOK, BufferOwnership, OnFreeStack, InRing, WorkHolds, Index
  <2>6. (freeCount + count + MainShare + WorkShare = Slots)'
    BY DEF TypeOK, BufferOwnership, MainShare, WorkShare, MainHolds, WorkHolds
  <2>7. (/\ head = IF tail + count < Slots THEN tail + count ELSE tail + count - Slots
         /\ \A i, j \in Index :
               /\ i < freeCount /\ j < freeCount /\ i # j => freeBufs[i] # freeBufs[j]
               /\ Live(i) /\ Live(j) /\ i # j => q[i] # q[j]
               /\ i < freeCount /\ Live(j) => freeBufs[i] # q[j]
         /\ \A i \in Index : Live(i) => q[i] # NULL)'
    BY <2>2 DEF TypeOK, BufferOwnership, Index
  <2> QED BY <2>1, <2>3, <2>4, <2>5, <2>6, <2>7 DEF BufferOwnership
<1>5. ChunksInOrder'
  BY DEF TypeOK, ChunksInOrder, Live, Age
<1> QED BY <1>2, <1>3, <1>4, <1>5 DEF QueueInv

(* rawq_push copies the chunk: no other thread sees the buffer.              *)
LEMMA PushCopyIInv == QueueInv /\ PushCopy => QueueInv'
<1> SUFFICES ASSUME QueueInv, PushCopy PROVE QueueInv'
  OBVIOUS
<1> USE SlotsAssumption DEF QueueInv, PushCopy, queueVars, freeVars, workVars
<1>1. mbuf \in Bufs /\ MainHolds
  BY Accounts DEF MainHolds
<1>2. TypeOK'
  BY <1>1 DEF TypeOK, MainStates
<1>3. (PiecesLeft /\ NoStrandedThread /\ StopDrains)'
  BY DEF TypeOK, PiecesLeft, NoStrandedThread, StopDrains
<1>4. BufferOwnership'
  BY DEF TypeOK, BufferOwnership, Age, Live, MainHolds, WorkHolds, MainShare, WorkShare,
      OnFreeStack, InRing
<1>5. ChunksInOrder'
  <2>1. \A i \in Index : Live(i) => q[i] \in Bufs /\ q[i] # mbuf /\ mem'[q[i]] = mem[q[i]]
    BY <1>1, Accounts DEF TypeOK, BufferOwnership, InRing
  <2>2. wpc = "feed" => wbuf \in Bufs /\ mem'[wbuf] = mem[wbuf]
    BY <1>1, Accounts DEF TypeOK, BufferOwnership, WorkHolds
  <2>3. mem'[mbuf] = sent + 1
    BY <1>1 DEF TypeOK
  <2>4. \A i \in Index : Age(i)' = Age(i) /\ (Live(i)' <=> Live(i))
    BY DEF Live, Age
  <2> QED BY <2>1, <2>2, <2>3, <2>4 DEF ChunksInOrder
<1> QED BY <1>2, <1>3, <1>4, <1>5 DEF QueueInv

(* rawq_push puts the filled buffer into the slot behind the newest chunk.   *)
LEMMA PushPutIInv == QueueInv /\ PushPut => QueueInv'
<1> SUFFICES ASSUME QueueInv, PushPut PROVE QueueInv'
  OBVIOUS
<1> USE SlotsAssumption DEF QueueInv
<1>1. /\ mbuf \in Bufs /\ MainHolds /\ count < Slots
      /\ Age(head) = count /\ ~MainHolds'
  BY Accounts DEF MainHolds, PushPut
<1>2. /\ mpc = "lockPut" /\ mpc' = (IF pieces = 1 THEN "idle" ELSE "lockFree")
      /\ head' = IF head + 1 = Slots THEN 0 ELSE head + 1
      /\ q' = [q EXCEPT ![head] = mbuf]
      /\ count' = count + 1 /\ sent' = sent + 1 /\ pieces' = pieces - 1 /\ mbuf' = NULL
      /\ SignalNonempty
      /\ UNCHANGED <<tail, freeBufs, freeCount, stop, mem, wbuf, fed>>
  BY RingStep DEF TypeOK, PushPut, freeVars
<1>3. TypeOK'
  <2>1. head' \in Index /\ count' \in 0 .. Slots /\ pieces' \in Nat /\ sent' \in Nat
    BY <1>1, <1>2 DEF TypeOK, Index, PiecesLeft
  <2>2. wpc' \in WorkStates /\ mpc' \in MainStates
    BY <1>2 DEF TypeOK, MainStates, WorkStates, SignalNonempty
  <2> QED BY <1>1, <1>2, <2>1, <2>2 DEF TypeOK
<1>4. (PiecesLeft /\ NoStrandedThread /\ StopDrains)'
  BY <1>2 DEF TypeOK, PiecesLeft, NoStrandedThread, StopDrains, SignalNonempty
<1>5. \A i \in Index : /\ Age(i)' = Age(i)
                       /\ Live(i)' <=> Live(i) \/ i = head
                       /\ i # head => q'[i] = q[i]
                       /\ Live(i) => i # head
  BY <1>1, <1>2, SMTT(30) DEF Age, Live, TypeOK, Index
<1>6. q'[head] = mbuf
  BY <1>1, <1>2 DEF TypeOK
<1>7. WorkHolds' <=> WorkHolds
  BY <1>2 DEF WorkHolds, SignalNonempty
<1>8. BufferOwnership'
  <2>1. (freeCount + count + MainShare + WorkShare = Slots)'
    BY <1>1, <1>2, <1>7 DEF TypeOK, BufferOwnership, MainShare, WorkShare
  <2>2. (head = IF tail + count < Slots THEN tail + count ELSE tail + count - Slots)'
    BY <1>1, <1>2 DEF TypeOK, BufferOwnership, Index
  <2>3. (\A i, j \in Index :
           /\ i < freeCount /\ j < freeCount /\ i # j => freeBufs[i] # freeBufs[j]
           /\ Live(i) /\ Live(j) /\ i # j => q[i] # q[j]
           /\ i < freeCount /\ Live(j) => freeBufs[i] # q[j])'
    BY <1>1, <1>2, <1>5, <1>6 DEF BufferOwnership, OnFreeStack, InRing
  <2>4. (\A i \in Index : Live(i) => q[i] # NULL)'
    BY <1>1, <1>2, <1>5, <1>6, NullNotBuf DEF BufferOwnership
  <2>5. WorkHolds' => wbuf' # NULL /\ ~OnFreeStack(wbuf)' /\ ~InRing(wbuf)'
    BY <1>1, <1>2, <1>5, <1>6, <1>7 DEF BufferOwnership, OnFreeStack, InRing
  <2> QED BY <1>1, <2>1, <2>2, <2>3, <2>4, <2>5 DEF BufferOwnership
<1>9. ChunksInOrder'
  <2>1. mpc' # "lockPut" /\ (wpc' = "feed" <=> wpc = "feed")
    BY <1>2 DEF SignalNonempty
  <2>2. \A i \in Index : Live(i)' => mem'[q'[i]] = sent' - count' + Age(i)' + 1
    <3> TAKE i \in Index
    <3>1. CASE i = head
      BY <3>1, <1>1, <1>2, <1>5, <1>6 DEF TypeOK, ChunksInOrder
    <3>2. CASE i # head
      BY <3>2, <1>2, <1>5, Accounts DEF TypeOK, ChunksInOrder, Index
    <3> QED BY <3>1, <3>2
  <2>3. sent' - count' = sent - count
    BY <1>2 DEF TypeOK
  <2> QED BY <1>2, <2>1, <2>2, <2>3 DEF ChunksInOrder
<1> QED BY <1>3, <1>4, <1>8, <1>9 DEF QueueInv

(* rawq_thread takes the oldest chunk.                                       *)
LEMMA WorkPopIInv == QueueInv /\ WorkPop => QueueInv'
<1> SUFFICES ASSUME QueueInv, WorkPop PROVE QueueInv'
  OBVIOUS
<1> USE SlotsAssumption DEF QueueInv
<1>1. tail \in Index /\ Live(tail) /\ Age(tail) = 0 /\ q[tail] \in Bufs
  BY Accounts DEF TypeOK, Live, WorkPop
<1>2. /\ wpc = "lockPop" /\ wpc' = "feed" /\ count > 0 /\ SignalNonfull
      /\ wbuf' = q[tail] /\ count' = count - 1
      /\ tail' = IF tail + 1 = Slots THEN 0 ELSE tail + 1
      /\ UNCHANGED <<q, head, freeBufs, freeCount, stop, mem, mbuf, pieces, sent, fed>>
  BY RingStep DEF TypeOK, WorkPop, freeVars
<1>3. TypeOK'
  <2>1. tail' \in Index /\ count' \in 0 .. Slots
    BY <1>2 DEF TypeOK, Index
  <2>2. wpc' \in WorkStates /\ mpc' \in MainStates
    BY <1>2 DEF TypeOK, MainStates, WorkStates, SignalNonfull
  <2> QED BY <1>1, <1>2, <2>1, <2>2 DEF TypeOK
<1>4. (PiecesLeft /\ NoStrandedThread /\ StopDrains)'
  BY <1>2 DEF TypeOK, PiecesLeft, NoStrandedThread, StopDrains, SignalNonfull
<1>5. \A i \in Index : /\ Live(i)' <=> Live(i) /\ i # tail
                       /\ i # tail => Age(i)' = Age(i) - 1
  BY <1>2 DEF Age, Live, TypeOK, Index
<1>6. (MainHolds' <=> MainHolds) /\ ~WorkHolds /\ WorkHolds'
  BY <1>2 DEF MainHolds, WorkHolds, SignalNonfull
<1>7. BufferOwnership'
  <2>1. (freeCount + count + MainShare + WorkShare = Slots)'
    BY <1>2, <1>6 DEF TypeOK, BufferOwnership, MainShare, WorkShare
  <2>2. (head = IF tail + count < Slots THEN tail + count ELSE tail + count - Slots)'
    BY <1>2 DEF TypeOK, BufferOwnership, Index
  <2>3. (\A i, j \in Index :
           /\ i < freeCount /\ j < freeCount /\ i # j => freeBufs[i] # freeBufs[j]
           /\ Live(i) /\ Live(j) /\ i # j => q[i] # q[j]
           /\ i < freeCount /\ Live(j) => freeBufs[i] # q[j])'
    BY <1>2, <1>5 DEF BufferOwnership
  <2>4. (\A i \in Index : Live(i) => q[i] # NULL)'
    BY <1>2, <1>5 DEF BufferOwnership
  <2>5. MainHolds' => mbuf' # NULL /\ ~OnFreeStack(mbuf)' /\ ~InRing(mbuf)' /\ mbuf' # wbuf'
    BY <1>1, <1>2, <1>5, <1>6 DEF BufferOwnership, OnFreeStack, InRing
  <2>6. wbuf' # NULL /\ ~OnFreeStack(wbuf)' /\ ~InRing(wbuf)'
    BY <1>1, <1>2, <1>5, NullNotBuf DEF BufferOwnership, OnFreeStack, InRing
  <2> QED BY <1>2, <2>1, <2>2, <2>3, <2>4, <2>5, <2>6 DEF BufferOwnership
<1>8. ChunksInOrder'
  <2>1. ASSUME NEW i \in Index, Live(i)'
        PROVE  mem'[q'[i]] = sent' - count' + Age(i)' + 1
    <3>1. Live(i) /\ Age(i)' = Age(i) - 1
      BY <1>5, <2>1
    <3>2. mem[q[i]] = sent - count + Age(i) + 1
      BY <3>1 DEF ChunksInOrder
    <3>3. sent \in Int /\ count \in Int /\ Age(i) \in Int
      BY DEF TypeOK, Age, Index
    <3> HIDE DEF QueueInv
    <3>4. sent - count + Age(i) = sent - (count - 1) + (Age(i) - 1)
      BY <3>3
    <3> QED BY <1>2, <3>1, <3>2, <3>4
  <2>2. mem'[wbuf'] = sent' - count' /\ fed' = sent' - count' - 1
    BY <1>1, <1>2 DEF TypeOK, ChunksInOrder
  <2>3. mpc' = "lockPut" => mem'[mbuf'] = sent' + 1
    BY <1>2 DEF ChunksInOrder, SignalNonfull
  <2> QED BY <1>2, <2>1, <2>2, <2>3 DEF ChunksInOrder
<1> QED BY <1>3, <1>4, <1>7, <1>8 DEF QueueInv

(* rawq_thread puts the parsed buffer on top of the free stack.              *)
LEMMA WorkReturnIInv == QueueInv /\ WorkReturn => QueueInv'
<1> SUFFICES ASSUME QueueInv, WorkReturn PROVE QueueInv'
  OBVIOUS
<1> USE SlotsAssumption DEF QueueInv, WorkReturn, queueVars, mainVars
<1>1. freeCount \in Index /\ wbuf \in Bufs /\ WorkHolds /\ ~WorkHolds'
  BY Accounts DEF WorkHolds
<1>2. TypeOK'
  <2>1. freeCount' \in 0 .. Slots
    BY <1>1 DEF TypeOK, Index
  <2> QED BY <1>1, <2>1 DEF TypeOK, WorkStates
<1>3. (PiecesLeft /\ NoStrandedThread /\ StopDrains)'
  BY DEF TypeOK, PiecesLeft, NoStrandedThread, StopDrains
<1>4. BufferOwnership'
  <2>1. (freeCount + count + MainShare + WorkShare = Slots)'
    BY <1>1 DEF TypeOK, BufferOwnership, MainShare, WorkShare, MainHolds
  <2>2. \A i \in Index : (Live(i)' <=> Live(i)) /\ (Live(i) => q[i] # wbuf)
    BY <1>1 DEF Live, Age, BufferOwnership, InRing
  <2>3. \A i \in Index : i < freeCount' =>
           IF i = freeCount THEN freeBufs'[i] = wbuf
                            ELSE i < freeCount /\ freeBufs'[i] = freeBufs[i]
    BY <1>1 DEF TypeOK, Index
  <2>4. (\A i, j \in Index :
           /\ i < freeCount /\ j < freeCount /\ i # j => freeBufs[i] # freeBufs[j]
           /\ Live(i) /\ Live(j) /\ i # j => q[i] # q[j]
           /\ i < freeCount /\ Live(j) => freeBufs[i] # q[j])'
    BY <1>1, <2>2, <2>3 DEF BufferOwnership, OnFreeStack
  <2>5. (\A i \in Index : Live(i) => q[i] # NULL)'
    BY <2>2 DEF BufferOwnership
  <2>6. MainHolds' => mbuf' # NULL /\ ~OnFreeStack(mbuf)' /\ ~InRing(mbuf)'
    BY <1>1, <2>2, <2>3 DEF BufferOwnership, OnFreeStack, InRing, MainHolds
  <2>7. (head = IF tail + count < Slots THEN tail + count ELSE tail + count - Slots)'
    BY DEF BufferOwnership
  <2> QED BY <1>1, <2>1, <2>4, <2>5, <2>6, <2>7 DEF BufferOwnership
<1>5. ChunksInOrder'
  BY DEF TypeOK, ChunksInOrder, Live, Age
<1> QED BY <1>2, <1>3, <1>4, <1>5 DEF QueueInv

(* The remaining steps move no buffer.                                       *)
LEMMA ControlIInv ==
  ASSUME QueueInv,
         \/ PushCall \/ PushWait \/ StopCall \/ StopJoin
         \/ WorkWait \/ WorkExit \/ WorkFeed \/ SpuriousWakeup
  PROVE  QueueInv'
<1> USE SlotsAssumption
    DEF QueueInv, PushCall, PushWait, StopCall, StopJoin, WorkWait, WorkExit, WorkFeed,
        SpuriousWakeup, SignalNonempty, queueVars, freeVars, mainVars, workVars
<1>1. wpc = "feed" => wbuf \in Bufs
  BY Accounts DEF WorkHolds
<1>2. pieces' \in Nat /\ (PushCall => pieces' >= 1)
  BY BoundsAssumption DEF TypeOK
<1>3. TypeOK' /\ PiecesLeft' /\ NoStrandedThread'
  <2>1. CASE PushCall
    BY <1>2, <2>1 DEF TypeOK, MainStates, PiecesLeft, NoStrandedThread
  <2>2. CASE PushWait
    BY <2>2 DEF TypeOK, MainStates, PiecesLeft, NoStrandedThread, BufferOwnership,
         MainHolds, MainShare, WorkShare
  <2>3. CASE StopCall
    BY <2>3 DEF TypeOK, MainStates, WorkStates, PiecesLeft, NoStrandedThread
  <2>4. CASE WorkFeed
    BY <1>1, <2>4 DEF TypeOK, WorkStates, PiecesLeft, NoStrandedThread
  <2>5. CASE StopJoin \/ WorkWait \/ WorkExit
    BY <2>5 DEF TypeOK, MainStates, WorkStates, PiecesLeft, NoStrandedThread
  <2>6. CASE SpuriousWakeup
    BY <2>6 DEF TypeOK, MainStates, WorkStates, PiecesLeft, NoStrandedThread
  <2> QED BY <2>1, <2>2, <2>3, <2>4, <2>5, <2>6
<1>4. StopDrains'
  BY DEF TypeOK, StopDrains, BufferOwnership, ChunksInOrder, MainHolds, WorkHolds,
         MainShare, WorkShare
<1>5. (MainHolds' <=> MainHolds) /\ (WorkHolds' <=> WorkHolds)
  BY DEF MainHolds, WorkHolds
<1>6. UNCHANGED <<q, head, tail, count, freeBufs, freeCount, mem, mbuf, wbuf, sent>>
  OBVIOUS
<1>7. BufferOwnership'
  BY <1>5, <1>6 DEF BufferOwnership, Age, Live, MainShare, WorkShare, OnFreeStack, InRing
<1>8. ChunksInOrder'
  <2>1. \A i \in Index : Age(i)' = Age(i) /\ (Live(i)' <=> Live(i))
    BY <1>6 DEF Age, Live
  <2>2. (mpc' = "lockPut" => mpc = "lockPut") /\ (wpc' = "feed" => wpc = "feed" /\ fed' = fed)
    OBVIOUS
  <2>3. wpc' # "feed" => fed' = sent' - count'
    BY DEF ChunksInOrder
  <2> QED BY <1>6, <2>1, <2>2, <2>3 DEF ChunksInOrder
<1> QED BY <1>3, <1>4, <1>7, <1>8 DEF QueueInv

(* Every step of either thread preserves the invariant.                      *)
LEMMA NextQueueInv == QueueInv /\ [QueueNext]_rawqVars => QueueInv'
<1> SUFFICES ASSUME QueueInv, [QueueNext]_rawqVars PROVE QueueInv'
  OBVIOUS
<1>1. CASE PushTake   BY <1>1, PushTakeIInv
<1>2. CASE PushCopy   BY <1>2, PushCopyIInv
<1>3. CASE PushPut    BY <1>3, PushPutIInv
<1>4. CASE WorkPop    BY <1>4, WorkPopIInv
<1>5. CASE WorkReturn BY <1>5, WorkReturnIInv
<1>6. CASE \/ PushCall \/ PushWait \/ StopCall \/ StopJoin
           \/ WorkWait \/ WorkExit \/ WorkFeed \/ SpuriousWakeup
  BY <1>6, ControlIInv
<1>7. CASE UNCHANGED rawqVars
  BY <1>7 DEF rawqVars, QueueInv, TypeOK, PiecesLeft, ChunksInOrder, NoStrandedThread,
      StopDrains, BufferOwnership, Age, Live, MainHolds, WorkHolds, MainShare, WorkShare,
      OnFreeStack, InRing
<1> QED BY <1>1, <1>2, <1>3, <1>4, <1>5, <1>6, <1>7
        DEF QueueNext, MainStep, WorkStep, Done

(* The invariant holds in every reachable state.                             *)
LEMMA QueueInvariance == QueueSpec => []QueueInv
  BY InitQueueInv, NextQueueInv, PTL DEF QueueSpec

(* The raw queue is type correct: in particular neither index leaves its     *)
(* array, and neither counter its range.                                     *)
THEOREM TypeCorrect == QueueSpec => []TypeOK
<1>1. QueueInv => TypeOK
  BY DEF QueueInv
<1> QED BY <1>1, QueueInvariance, PTL

(* At every moment each of the RAWQ_SLOTS buffers is in exactly one place.   *)
THEOREM OwnedOnce == QueueSpec => []BufferOwnership
<1>1. QueueInv => BufferOwnership
  BY DEF QueueInv
<1> QED BY <1>1, QueueInvariance, PTL

(* The ring holds the received and not yet parsed chunks, intact, in order.  *)
THEOREM ChunkOrder == QueueSpec => []ChunksInOrder
<1>1. QueueInv => ChunksInOrder
  BY DEF QueueInv
<1> QED BY <1>1, QueueInvariance, PTL

(* With two slots or more the missing signal of rawq_thread strands no one.  *)
THEOREM NeverStranded == QueueSpec => []NoStrandedThread
<1>1. QueueInv => NoStrandedThread
  BY DEF QueueInv
<1> QED BY <1>1, QueueInvariance, PTL

(* rawq_stop returns only with an empty queue and a complete free stack.     *)
THEOREM StopDrained == QueueSpec => []StopDrains
<1>1. QueueInv => StopDrains
  BY DEF QueueInv
<1> QED BY <1>1, QueueInvariance, PTL

(* Every step of the raw queue is a step of the channel or leaves it alone,  *)
(* so the queue implements the channel for every RAWQ_SLOTS.                 *)
THEOREM Refinement == QueueSpec => ImplementsChannel
<1> USE SlotsAssumption
<1>1. QueueInit => ChannelOf!CInit
  BY DEF QueueInit, ChannelOf!CInit
<1>2. QueueInv /\ [QueueNext]_rawqVars => [ChannelOf!CNext]_(ChannelOf!cvars)
  <2> SUFFICES ASSUME QueueInv, [QueueNext]_rawqVars
               PROVE  [ChannelOf!CNext]_(ChannelOf!cvars)
    OBVIOUS
  <2> USE DEF ChannelOf!CNext, ChannelOf!cvars
  <2>1. CASE PushPut
    <3>1. sent - fed < Slots
      BY <2>1, Accounts DEF QueueInv, TypeOK, PushPut, ChunksInOrder, BufferOwnership,
            MainHolds, WorkHolds, MainShare, WorkShare
    <3>2. mpc # "done" /\ mpc' # "done" /\ sent' = sent + 1 /\ fed' = fed
      BY <2>1 DEF PushPut
    <3> QED BY <3>1, <3>2 DEF ChannelOf!CSend
  <2>2. CASE WorkFeed
    <3>1. fed' = fed + 1 /\ fed < sent
      BY <2>2 DEF QueueInv, TypeOK, WorkFeed, ChunksInOrder
    <3>2. sent' = sent /\ mpc' = mpc
      BY <2>2 DEF WorkFeed, mainVars
    <3> QED BY <3>1, <3>2 DEF ChannelOf!CDeliver
  <2>3. CASE StopJoin
    <3>1. fed = sent
      BY <2>3 DEF QueueInv, TypeOK, StopJoin, StopDrains, ChunksInOrder
    <3> QED BY <2>3, <3>1 DEF StopJoin, workVars, ChannelOf!CClose
  <2>4. CASE \/ PushCall \/ PushWait \/ PushTake \/ PushCopy \/ StopCall
             \/ WorkWait \/ WorkExit \/ WorkPop \/ WorkReturn \/ SpuriousWakeup
             \/ UNCHANGED rawqVars
    BY <2>4 DEF PushCall, PushWait, PushTake, PushCopy, StopCall, WorkWait, WorkExit,
         WorkPop, WorkReturn, SpuriousWakeup, rawqVars, mainVars, workVars, SignalNonfull
  <2> QED BY <2>1, <2>2, <2>3, <2>4 DEF QueueNext, MainStep, WorkStep, Done
<1> QED BY <1>1, <1>2, QueueInvariance, PTL DEF QueueSpec, ImplementsChannel, ChannelOf!CSpec

-----------------------------------------------------------------------------
(* The packet interpreter.                                                   *)

Flags   == {"overflow", "crc", "data"}
Entries == [id : Nat, ts : Nat, head : BOOLEAN, keep : BOOLEAN]
Packets == [done : BOOLEAN, limit : Int, ls : LineStates \cup {"none"}, vbus : {-1, 0, 1},
            trigger : {-1, 0, 1}, speed : Speeds \cup {"none"}, enabled : BOOLEAN,
            tsInt : Nat, ts : Nat, lastTs : Nat, foldBuf : Seq(Entries), foldCount : Nat,
            savedLs : LineStates \cup {"none"}, savedTs : Nat, payload : BOOLEAN,
            flags : SUBSET Flags]
Outputs == [lastTs : Nat, slack : Nat, ordered : BOOLEAN, lastFrame : Nat, inOrder : BOOLEAN,
            owed : Int, keepOk : BOOLEAN, lastCause : Nat, causal : BOOLEAN, savedCause : Nat,
            foldCause : Nat]
States  == [p : Packets, o : Outputs]

Entered(buf) == IF buf = <<>> THEN 0 ELSE 1

(* The fold buffer holds a start of frame, or a keep-alive, and what         *)
(* followed it: frames that come after the last one written and before       *)
(* frame n.                                                                  *)
Buffered(buf, last, n) ==
    /\ \A i \in 1 .. Len(buf) : last < buf[i].id /\ buf[i].id < n /\ (buf[i].head <=> i = 1)
    /\ \A i, j \in 1 .. Len(buf) : i < j => buf[i].id < buf[j].id

(* Folding, when frame n is next and k frames accepted are in no account.    *)
Account(s, n, k) ==
    /\ s.o.inOrder /\ s.o.lastFrame < n
    /\ Buffered(s.p.foldBuf, s.o.lastFrame, n)
    /\ s.o.owed = s.p.foldCount + Entered(s.p.foldBuf) + k
    /\ Len(s.p.foldBuf) <= FoldBufSize
    /\ ~opts.fold => s.p.foldBuf = <<>>

Folding(s, n, k) == Account(s, n, k) /\ (s.p.foldBuf = <<>> => s.p.foldCount = 0)

(* The latest time stamp there was, as far as it is known: the present one   *)
(* as long as none went back, later the end of the range of the counter.     *)
Far(int, ts, slack) == IF slack = 0 THEN ts ELSE int + TsRange - 1

Pace(int, ts, slack) ==
    /\ slack \in {0, TsRange - 1} /\ int <= ts /\ ts < int + TsRange
    /\ Far(int, ts, slack) \in Nat
    /\ ts <= Far(int, ts, slack) /\ Far(int, ts, slack) <= ts + slack

Reach(s) == Far(s.p.tsInt, s.p.ts, s.o.slack)

(* A record at ts is not earlier than the last one, by more than the slack.  *)
Timely(s, ts) == s.p.lastTs <= ts + s.o.slack /\ ts <= Reach(s)

(* Time: what is held back is not older than what was written last, by more  *)
(* than the slack.                                                           *)
Times(s) ==
    /\ s.o.ordered /\ s.o.lastTs = s.p.lastTs /\ s.p.lastTs <= Reach(s)
    /\ s.p.savedLs # "none" => Timely(s, s.p.savedTs)
    /\ \A i \in 1 .. Len(s.p.foldBuf) : s.p.foldBuf[i].ts <= Reach(s)
    /\ Pace(s.p.tsInt, s.p.ts, s.o.slack)

(* What the older device holds back, but for the line state, is about later  *)
(* frames than what it wrote last, and none later than frame n: first the    *)
(* count, then the buffer.                                                   *)
Held(s, n) ==
    /\ s.o.causal /\ s.o.lastCause <= n
    /\ \A i \in 1 .. Len(s.p.foldBuf) :
          s.o.lastCause <= s.p.foldBuf[i].id /\ s.p.foldBuf[i].id <= n
    /\ s.p.foldCount > 0 =>
          /\ s.o.lastCause <= s.o.foldCause /\ s.o.foldCause <= n
          /\ \A i \in 1 .. Len(s.p.foldBuf) : s.o.foldCause <= s.p.foldBuf[i].id

(* Causes: the saved line state is about no earlier frame than all of that.  *)
Causes(s, n) ==
    /\ Held(s, n)
    /\ s.p.savedLs # "none" => s.o.savedCause <= n /\ Held(s, s.o.savedCause)

(* The gate, as far as it follows from the trigger input.                    *)
Gated(s, a) ==
    /\ opts.trigger = "low"  => (s.p.enabled <=> s.p.trigger = 0)
    /\ opts.trigger = "high" => (s.p.enabled <=> s.p.trigger = 1)
    /\ opts.trigger = "disabled" /\ a => s.p.enabled

Flushed(s) == s.p.foldBuf = <<>> /\ s.p.savedLs = "none"

(* The older device holds no frame back while it waits for its trigger.      *)
Shut(s) == ~s.p.enabled => s.p.foldBuf = <<>>

Now == [p |-> p, o |-> o]

(* The frame that comes next when f headers were received.                   *)
Upcoming(s, f) == IF s.p.payload THEN f ELSE f + 1

(* The inductive invariant, of a state s after f headers.                    *)
Sound(s, f, a) ==
    /\ s \in States /\ f \in Nat /\ a \in BOOLEAN /\ (s.p.payload => f > 0)
    /\ Folding(s, Upcoming(s, f), 0) /\ s.o.keepOk
    /\ opts.gen = 2 => Times(s)
    /\ opts.gen = 1 => Causes(s, Upcoming(s, f)) /\ Shut(s)
    /\ Gated(s, a)
    /\ opts.gen = 1 /\ s.p.done => Flushed(s)
    /\ opts.gen = 1 /\ ~a => s.p.trigger = -1 /\ ~s.p.enabled /\ ~s.p.payload

IInv == opts \in Cases /\ Sound(Now, frames, announced)

-----------------------------------------------------------------------------
(* What the parts of an event leave alone.                                   *)
Still(s, t) ==
    /\ t.p.done = s.p.done /\ t.p.trigger = s.p.trigger /\ t.p.speed = s.p.speed
    /\ t.p.enabled = s.p.enabled /\ t.p.ts = s.p.ts /\ t.p.savedTs = s.p.savedTs
    /\ t.p.payload = s.p.payload /\ t.p.flags = s.p.flags
    /\ t.p.tsInt = s.p.tsInt /\ t.o.slack = s.o.slack
    /\ t.o.keepOk = s.o.keepOk /\ t.o.savedCause = s.o.savedCause

SameFold(s, t) ==
    /\ t.p.foldBuf = s.p.foldBuf /\ t.p.foldCount = s.p.foldCount /\ t.o.owed = s.o.owed
    /\ t.o.lastFrame = s.o.lastFrame /\ t.o.inOrder = s.o.inOrder

SameCause(s, t) == /\ t.o.lastCause = s.o.lastCause /\ t.o.causal = s.o.causal
                   /\ t.o.foldCause = s.o.foldCause

Stamped(s, t, ts) == /\ t.p.lastTs = ts /\ t.o.lastTs = ts
                     /\ t.o.ordered <=> s.o.ordered /\ s.o.lastTs <= ts + s.o.slack

LEMMA StateType ==
    ASSUME NEW s \in States
    PROVE  /\ s.p \in Packets /\ s.o \in Outputs
           /\ s = [p |-> s.p, o |-> s.o]
BY DEF States

(* The reach depends on the clock alone.                                     *)
LEMMA SameReach ==
    ASSUME NEW s, NEW t, Still(s, t)
    PROVE  /\ Reach(t) = Reach(s)
           /\ t.p.lastTs = s.p.lastTs => \A ts : Timely(s, ts) => Timely(t, ts)
<1>1. Reach(t) = Reach(s)  BY DEF Still, Reach
<1> QED  BY <1>1 DEF Still, Timely

(* Now is always in time.                                                    *)
LEMMA NowTimely ==
    ASSUME NEW s \in States, Times(s)
    PROVE  /\ Timely(s, s.p.ts) /\ s.p.ts <= Reach(s)
           /\ Reach(s) \in Nat /\ Reach(s) <= s.p.ts + s.o.slack
<1>1. s.p.lastTs \in Nat /\ s.p.ts \in Nat /\ s.o.slack \in Nat
  BY StateType DEF Packets, Outputs
<1>2. /\ Reach(s) \in Nat /\ s.p.ts <= Reach(s) /\ Reach(s) <= s.p.ts + s.o.slack
      /\ s.p.lastTs <= Reach(s)
  BY DEF Times, Pace, Reach
<1> QED  BY <1>1, <1>2 DEF Timely

LEMMA EmitFacts ==
    ASSUME NEW s \in States, NEW ts \in Nat
    PROVE  /\ Emit(s, ts) \in States /\ Still(s, Emit(s, ts)) /\ SameFold(s, Emit(s, ts))
           /\ SameCause(s, Emit(s, ts)) /\ Stamped(s, Emit(s, ts), ts)
           /\ Emit(s, ts).p.savedLs = s.p.savedLs
<1> DEFINE e == Emit(s, ts)
<1>1. PICK b \in BOOLEAN : b = (s.o.ordered /\ s.o.lastTs <= ts + s.o.slack)  OBVIOUS
<1>2. e = [s EXCEPT !.p.lastTs = ts, !.o.ordered = b, !.o.lastTs = ts]  BY <1>1 DEF Emit
<1> HIDE DEF e
<1>3. s.p \in Packets /\ s.o \in Outputs  BY StateType
<1>4. /\ e.p = [s.p EXCEPT !.lastTs = ts] /\ e.o = [s.o EXCEPT !.ordered = b, !.lastTs = ts]
      /\ e = [p |-> e.p, o |-> e.o]
  <2>1. PICK pp, oo : s = [p |-> pp, o |-> oo]  BY StateType
  <2>2. e = [p |-> [pp EXCEPT !.lastTs = ts], o |-> [oo EXCEPT !.ordered = b, !.lastTs = ts]]
    BY <1>2, <2>1
  <2> QED  BY <2>1, <2>2
<1>5. e \in States
  <2>1. e.p \in Packets  BY <1>3, <1>4 DEF Packets
  <2>2. e.o \in Outputs  BY <1>3, <1>4 DEF Outputs
  <2> QED  BY <1>4, <2>1, <2>2 DEF States
<1>6. Still(s, e)  BY <1>3, <1>4 DEF Still, Packets, Outputs
<1>7. SameFold(s, e)  BY <1>3, <1>4 DEF SameFold, Packets, Outputs
<1>8. SameCause(s, e)  BY <1>3, <1>4 DEF SameCause, Outputs
<1>9. Stamped(s, e, ts)  BY <1>1, <1>3, <1>4 DEF Stamped, Packets, Outputs
<1>10. e.p.savedLs = s.p.savedLs  BY <1>3, <1>4 DEF Packets
<1> QED  BY <1>5, <1>6, <1>7, <1>8, <1>9, <1>10 DEF e

-----------------------------------------------------------------------------
(* The interpreter of packet.c, part by part.                                *)

(* What a part does that writes no frame and leaves no line state behind.    *)
Told(s, t) == /\ t \in States /\ Still(s, t) /\ SameFold(s, t) /\ t.p.savedLs = "none"
              /\ Times(s) => Times(t)

LEMMA DropLine ==
    ASSUME NEW s \in States
    PROVE  LET t == [s EXCEPT !.p.savedLs = "none"]
           IN /\ Told(s, t) /\ SameCause(s, t)
              /\ t.p.lastTs = s.p.lastTs /\ t.o.lastTs = s.o.lastTs /\ t.o.ordered = s.o.ordered
<1>1. PICK pp \in Packets, oo \in Outputs : s = [p |-> pp, o |-> oo]  BY StateType
<1>2. PICK t : t = [s EXCEPT !.p.savedLs = "none"]  OBVIOUS
<1>3. t = [p |-> [pp EXCEPT !.savedLs = "none"], o |-> oo]  BY <1>1, <1>2
<1>4. t \in States
  <2>1. t.p \in Packets  BY <1>3 DEF Packets
  <2> QED  BY <1>3, <2>1 DEF States
<1>5. Still(s, t)  BY <1>1, <1>3 DEF Still, Packets
<1>6. SameFold(s, t) /\ SameCause(s, t)  BY <1>1, <1>3 DEF SameFold, SameCause, Packets
<1>7. /\ t.p.savedLs = "none" /\ t.p.lastTs = s.p.lastTs /\ t.o.lastTs = s.o.lastTs
      /\ t.o.ordered = s.o.ordered
  BY <1>1, <1>3 DEF Packets
<1>8. Times(s) => Times(t)
  BY <1>5, <1>6, <1>7, SameReach DEF Times, Still, SameFold
<1> QED  BY <1>2, <1>4, <1>5, <1>6, <1>7, <1>8 DEF Told

LEMMA ToldTwice ==
    ASSUME NEW s \in States, NEW t \in States, NEW u \in States, Told(s, t), Told(t, u)
    PROVE  Told(s, u)
BY DEF Told, Still, SameFold

(* A record at ts that follows what was written, before what is held back.   *)
LEMMA EmitTimes ==
    ASSUME NEW s \in States, NEW ts \in Nat, Times(s), s.p.savedLs = "none",
           Timely(s, ts)
    PROVE  Times(Emit(s, ts))
<1> DEFINE t == Emit(s, ts)
<1>1. /\ t.p.lastTs = ts /\ t.o.lastTs = ts /\ t.o.ordered /\ Still(s, t)
      /\ t.p.savedLs = "none" /\ t.p.foldBuf = s.p.foldBuf
  BY EmitFacts DEF SameFold, Stamped, Times, Timely
<1> HIDE DEF t
<1>2. Reach(t) = Reach(s)  BY <1>1, SameReach
<1>3. Times(t)  BY <1>1, <1>2 DEF Times, Timely, Still
<1> QED  BY <1>3 DEF t

LEMMA LineStateFacts ==
    ASSUME NEW s \in States
    PROVE  Told(s, LineStateEvent(s))
<1>1. CASE s.p.savedLs = "none"
  BY <1>1 DEF LineStateEvent, Told, Still, SameFold
<1>2. CASE s.p.savedLs # "none"
  <2>1. PICK t : t = [s EXCEPT !.p.savedLs = "none"]  OBVIOUS
  <2>2. Told(s, t) /\ t.p.lastTs = s.p.lastTs  BY <2>1, DropLine
  <2>3. t \in States /\ s.p.savedTs \in Nat  BY <2>2, StateType DEF Told, Packets
  <2>4. CASE opts.exclude  BY <1>2, <2>1, <2>2, <2>4 DEF LineStateEvent
  <2>5. CASE ~opts.exclude
    <3> DEFINE u == Emit(t, s.p.savedTs)
    <3>1. LineStateEvent(s) = u  BY <1>2, <2>1, <2>5 DEF LineStateEvent
    <3>2. u \in States /\ Still(t, u) /\ SameFold(t, u) /\ u.p.savedLs = "none"
      BY <2>2, <2>3, EmitFacts DEF Told
    <3>3. ASSUME Times(s) PROVE Times(u)
      <4>1. Times(t) /\ t.p.savedLs = "none" /\ Still(s, t)
        BY <2>2, <3>3 DEF Told
      <4>2. Timely(t, s.p.savedTs)  BY <1>2, <2>2, <3>3, <4>1, SameReach DEF Times
      <4> QED  BY <2>2, <2>3, <4>1, <4>2, EmitTimes
    <3> HIDE DEF u
    <3>4. Still(s, u) /\ SameFold(s, u)  BY <2>2, <3>2 DEF Told, Still, SameFold
    <3> QED  BY <3>1, <3>2, <3>3, <3>4 DEF Told
  <2> QED  BY <2>4, <2>5
<1> QED  BY <1>1, <1>2

LEMMA CaptureInfoFacts ==
    ASSUME NEW s \in States
    PROVE  Told(s, CaptureInfo(s, s.p.ts))
<1> DEFINE t == LineStateEvent(s)
           u == Emit(t, s.p.ts)
<1>1. Told(s, t) /\ t \in States  BY LineStateFacts DEF Told
<1>2. s.p.ts \in Nat  BY StateType DEF Packets
<1>3. u \in States /\ Still(t, u) /\ SameFold(t, u) /\ u.p.savedLs = "none"
  BY <1>1, <1>2, EmitFacts DEF Told
<1>4. ASSUME Times(s) PROVE Times(u)
  <2>1. Times(t) /\ t.p.savedLs = "none" /\ t.p.ts = s.p.ts  BY <1>1, <1>4 DEF Told, Still
  <2>2. Timely(t, s.p.ts)  BY <1>1, <2>1, NowTimely
  <2> QED  BY <1>1, <1>2, <2>1, <2>2, EmitTimes
<1>5. CaptureInfo(s, s.p.ts) = u  BY DEF CaptureInfo
<1> HIDE DEF t, u
<1>6. Still(s, u) /\ SameFold(s, u)  BY <1>1, <1>3 DEF Told, Still, SameFold
<1> QED  BY <1>3, <1>4, <1>5, <1>6 DEF Told

(* What writing frame f does.                                                *)
Ones(f) == IF f.head THEN 1 ELSE 0

Wrote(s, t, f) ==
    /\ t \in States /\ Still(s, t) /\ t.p.savedLs = s.p.savedLs
    /\ t.p.foldBuf = s.p.foldBuf /\ t.p.foldCount = s.p.foldCount
    /\ t.o.lastFrame = f.id /\ (t.o.inOrder <=> s.o.inOrder /\ s.o.lastFrame < f.id)
    /\ t.o.owed = s.o.owed - Ones(f)

LEMMA PutFacts ==
    ASSUME NEW s \in States, NEW ts \in Nat, NEW f \in Entries
    PROVE  /\ Wrote(s, Put(s, ts, f), f) /\ SameCause(s, Put(s, ts, f))
           /\ Put(s, ts, f).p.lastTs = ts
           /\ Times(s) /\ s.p.savedLs = "none" /\ Timely(s, ts)
                 => Times(Put(s, ts, f))
<1> DEFINE e == Emit(s, ts)
<1>1. /\ e \in States /\ Still(s, e) /\ SameFold(s, e) /\ SameCause(s, e)
      /\ Stamped(s, e, ts) /\ e.p.savedLs = s.p.savedLs
  BY EmitFacts
<1>2. Times(s) /\ s.p.savedLs = "none" /\ Timely(s, ts) => Times(e)
  BY EmitTimes
<1>3. PICK b \in BOOLEAN : b = (s.o.inOrder /\ s.o.lastFrame < f.id)  OBVIOUS
<1>4. PICK k \in Int : k = s.o.owed - Ones(f)
  <2>1. s.o.owed \in Int /\ Ones(f) \in Int  BY StateType DEF Outputs, Ones
  <2> QED  BY <2>1
<1>5. PICK t : t = Put(s, ts, f)  OBVIOUS
<1>6. t = [e EXCEPT !.o.inOrder = b, !.o.lastFrame = f.id, !.o.owed = k]
  BY <1>3, <1>4, <1>5 DEF Put, Ones
<1> HIDE DEF e
<1>7. PICK pp \in Packets, oo \in Outputs : e = [p |-> pp, o |-> oo]  BY <1>1, StateType
<1>8. t = [p |-> pp, o |-> [oo EXCEPT !.inOrder = b, !.lastFrame = f.id, !.owed = k]]
  BY <1>6, <1>7
<1>9. f.id \in Nat  BY DEF Entries
<1>10. t \in States
  <2>1. t.o \in Outputs  BY <1>8, <1>9 DEF Outputs
  <2> QED  BY <1>8, <2>1 DEF States
<1>11. t.p = e.p  BY <1>7, <1>8
<1>12. /\ t.o.inOrder = b /\ t.o.lastFrame = f.id /\ t.o.owed = k
       /\ t.o.keepOk = e.o.keepOk /\ t.o.savedCause = e.o.savedCause
       /\ t.o.lastCause = e.o.lastCause /\ t.o.causal = e.o.causal
       /\ t.o.foldCause = e.o.foldCause /\ t.o.lastTs = e.o.lastTs
       /\ t.o.ordered = e.o.ordered /\ t.o.slack = e.o.slack
  BY <1>7, <1>8 DEF Outputs
<1>13. Still(s, t)  BY <1>1, <1>11, <1>12 DEF Still
<1>14. SameCause(s, t) /\ t.p.lastTs = ts  BY <1>1, <1>11, <1>12 DEF SameCause, Stamped
<1>15. Times(e) => Times(t)  BY <1>11, <1>12 DEF Times, Timely, Reach
<1>16. Wrote(s, t, f)
  <2>1. /\ t.p.savedLs = s.p.savedLs /\ t.p.foldBuf = s.p.foldBuf
        /\ t.p.foldCount = s.p.foldCount
    BY <1>1, <1>11 DEF SameFold
  <2>2. t.o.inOrder <=> s.o.inOrder /\ s.o.lastFrame < f.id  BY <1>3, <1>12
  <2> QED  BY <1>4, <1>10, <1>12, <1>13, <2>1, <2>2 DEF Wrote
<1> QED  BY <1>2, <1>5, <1>14, <1>15, <1>16

(* The frames of the fold buffer are written while no line state is held.    *)
LEMMA PutFoldedFacts ==
    ASSUME NEW s \in States, NEW e \in Entries
    PROVE  /\ PutFolded(s, e) \in States
           /\ s.p.savedLs = "none" =>
                 /\ Wrote(s, PutFolded(s, e), e)
                 /\ Times(s) /\ e.ts <= Reach(s) => Times(PutFolded(s, e))
<1>1. PICK ts : ts = IF e.ts < s.p.lastTs THEN s.p.lastTs ELSE e.ts  OBVIOUS
<1>2. e.ts \in Nat /\ s.p.lastTs \in Nat /\ s.o.slack \in Nat
  BY StateType DEF Entries, Packets, Outputs
<1>3. ts \in Nat /\ s.p.lastTs <= ts + s.o.slack  BY <1>1, <1>2
<1>4. PutFolded(s, e) = IF e.keep THEN Put(LineStateEvent(s), ts, e) ELSE Put(s, ts, e)
  BY <1>1 DEF PutFolded, WriteKeepalive, WritePacket
<1>5. LineStateEvent(s) \in States  BY LineStateFacts DEF Told
<1>6. Put(LineStateEvent(s), ts, e) \in States /\ Put(s, ts, e) \in States
  BY <1>3, <1>5, PutFacts DEF Wrote
<1>7. PutFolded(s, e) \in States  BY <1>4, <1>6
<1>8. ASSUME s.p.savedLs = "none"
      PROVE  /\ Wrote(s, PutFolded(s, e), e)
             /\ Times(s) /\ e.ts <= Reach(s) => Times(PutFolded(s, e))
  <2>1. PutFolded(s, e) = Put(s, ts, e)  BY <1>4, <1>8 DEF LineStateEvent
  <2>2. Wrote(s, PutFolded(s, e), e)  BY <1>3, <2>1, PutFacts
  <2>3. Times(s) /\ e.ts <= Reach(s) => Timely(s, ts)  BY <1>1, <1>3 DEF Times, Timely
  <2>4. Times(s) /\ e.ts <= Reach(s) => Times(PutFolded(s, e))
    BY <1>3, <1>8, <2>1, <2>3, PutFacts
  <2> QED  BY <2>2, <2>4
<1> QED  BY <1>7, <1>8

-----------------------------------------------------------------------------
(* The loop over the fold buffer.                                            *)

(* A set of natural numbers has a least one.                                 *)
LEMMA LeastNumber ==
    ASSUME NEW T, T \subseteq Nat, T # {}
    PROVE  \E i \in T : \A j \in T : i <= j
<1> DEFINE R == {ss \in Nat \X Nat : ss[1] < ss[2]}
<1>1. IsWellFoundedOn(R, Nat)  BY NatLessThanWellFounded DEF OpToRel
<1> HIDE DEF R
<1>2. PICK i \in T : \A j \in T : ~(<<j, i>> \in R)  BY <1>1, WFMin
<1>3. \A j \in T : ~(j < i)  BY <1>2 DEF R
<1> QED  BY <1>3

(* A loop that applies g to each element has a trace.                        *)
IsTrace(f, g, s, buf, n) ==
    f[0] = s /\ \A i \in 1 .. n : f[i] = g[<<f[i - 1], buf[i]>>]

LEMMA Trace ==
    ASSUME NEW A, NEW B, NEW g \in [A \X B -> A], NEW s \in A, NEW buf \in Seq(B)
    PROVE  \E f \in [0 .. Len(buf) -> A] : IsTrace(f, g, s, buf, Len(buf))
<1> DEFINE Is(f, n) == IsTrace(f, g, s, buf, n)
           T == {n \in 0 .. Len(buf) : ~\E f \in [0 .. n -> A] : Is(f, n)}
<1>1. Len(buf) \in Nat  OBVIOUS
<1>2. SUFFICES T = {}  BY <1>1
<1>3. SUFFICES ASSUME T # {} PROVE FALSE  OBVIOUS
<1>4. PICK n \in T : \A j \in T : n <= j
  <2>1. T \subseteq Nat  BY <1>1
  <2> QED  BY <1>3, <2>1, LeastNumber
<1>5. n \in 0 .. Len(buf) /\ ~\E f \in [0 .. n -> A] : Is(f, n)  OBVIOUS
<1>6. n # 0
  <2>1. Is([j \in 0 .. 0 |-> s], 0) /\ [j \in 0 .. 0 |-> s] \in [0 .. 0 -> A]
    BY DEF IsTrace
  <2> QED  BY <1>5, <2>1
<1>7. n - 1 \in 0 .. Len(buf) /\ n - 1 \notin T
  <2>1. n - 1 \in 0 .. Len(buf)  BY <1>1, <1>5, <1>6
  <2> HIDE DEF T
  <2> QED  BY <1>4, <1>5, <2>1
<1>8. PICK h \in [0 .. n - 1 -> A] : Is(h, n - 1)  BY <1>7
<1>9. PICK x \in A : x = g[<<h[n - 1], buf[n]>>]
  <2>1. h[n - 1] \in A /\ buf[n] \in B  BY <1>1, <1>5, <1>6, <1>8
  <2>2. <<h[n - 1], buf[n]>> \in A \X B  BY <2>1
  <2> QED  BY <2>2
<1> DEFINE f == [j \in 0 .. n |-> IF j = n THEN x ELSE h[j]]
<1>10. f \in [0 .. n -> A]  BY <1>5, <1>8
<1>11. Is(f, n)
  <2>1. f[0] = s  BY <1>5, <1>6, <1>8 DEF IsTrace
  <2>2. ASSUME NEW i \in 1 .. n PROVE f[i] = g[<<f[i - 1], buf[i]>>]
    <3>1. f[i - 1] = h[i - 1]  BY <1>5
    <3>2. CASE i = n
      <4>1. f[n] = x  BY <1>5
      <4> HIDE DEF f
      <4> QED  BY <1>9, <3>1, <3>2, <4>1
    <3>3. CASE i # n
      <4>1. i \in 1 .. n - 1 /\ f[i] = h[i]  BY <1>5, <3>3
      <4> HIDE DEF f
      <4> QED  BY <1>8, <3>1, <4>1 DEF IsTrace
    <3> QED  BY <3>2, <3>3
  <2> HIDE DEF f
  <2> QED  BY <2>1, <2>2 DEF IsTrace
<1> QED  BY <1>5, <1>10, <1>11

(* What holds before the first frame, and after each if before it, holds     *)
(* after the last.                                                           *)
LEMMA PutAllKeeps ==
    ASSUME NEW s \in States, NEW buf \in Seq(Entries), NEW R, s \in R[0],
           \A i \in 0 .. Len(buf) : R[i] \subseteq States,
           \A i \in 1 .. Len(buf) : \A t \in R[i - 1] : PutFolded(t, buf[i]) \in R[i]
    PROVE  PutAll(s, buf) \in R[Len(buf)]
<1> DEFINE Is(h) == h = [i \in 0 .. Len(buf) |->
                            IF i = 0 THEN s ELSE PutFolded(h[i - 1], buf[i])]
<1>1. Len(buf) \in Nat  OBVIOUS
<1>2. PICK g \in [States \X Entries -> States] :
         g = [x \in States \X Entries |-> PutFolded(x[1], x[2])]
  <2>1. \A x \in States \X Entries : PutFolded(x[1], x[2]) \in States
    BY PutFoldedFacts
  <2> QED  BY <2>1
<1>3. PICK f \in [0 .. Len(buf) -> States] : IsTrace(f, g, s, buf, Len(buf))
  BY Trace, Zenon
<1>4. ASSUME NEW i \in 1 .. Len(buf) PROVE f[i] = PutFolded(f[i - 1], buf[i])
  <2>1. f[i - 1] \in States /\ buf[i] \in Entries  BY <1>1
  <2>2. g[<<f[i - 1], buf[i]>>] = PutFolded(f[i - 1], buf[i])  BY <1>2, <2>1
  <2> QED  BY <1>3, <2>2 DEF IsTrace
<1>5. Is(f)  BY <1>1, <1>3, <1>4 DEF IsTrace
<1> DEFINE h == CHOOSE x : Is(x)
<1>6. Is(h)  BY <1>5, Zenon
<1>7. PutAll(s, buf) = h[Len(buf)]  BY DEF PutAll
<1> HIDE DEF h
<1>8. h[0] = s /\ \A i \in 1 .. Len(buf) : h[i] = PutFolded(h[i - 1], buf[i])
  BY <1>1, <1>6
<1> DEFINE T == {i \in 0 .. Len(buf) : h[i] \notin R[i]}
<1>9. ASSUME T # {} PROVE FALSE
  <2>1. T \subseteq Nat  BY <1>1
  <2>2. PICK i \in T : \A j \in T : i <= j  BY <1>9, <2>1, LeastNumber
  <2>3. i # 0  BY <1>8
  <2>4. i - 1 \in 0 .. Len(buf) /\ i - 1 \notin T /\ i \in 1 .. Len(buf)  BY <1>1, <2>2, <2>3
  <2>5. h[i - 1] \in R[i - 1]  BY <2>4
  <2> QED  BY <1>8, <2>4, <2>5
<1> QED  BY <1>1, <1>7, <1>9

(* While the first i frames of buf are being written.                        *)
Stamps(buf, ts) == \A i \in 1 .. Len(buf) : buf[i].ts <= ts

Midway(s, t, buf, i) ==
    /\ t \in States /\ Still(s, t) /\ t.p.savedLs = "none"
    /\ t.p.foldBuf = s.p.foldBuf /\ t.p.foldCount = s.p.foldCount /\ t.o.inOrder
    /\ t.o.lastFrame = IF i = 0 THEN s.o.lastFrame ELSE buf[i].id
    /\ t.o.owed = s.o.owed - (IF i = 0 THEN 0 ELSE 1)

LEMMA MidwayStep ==
    ASSUME NEW s \in States, NEW t, NEW u, NEW buf \in Seq(Entries), NEW n \in Nat,
           NEW i \in 1 .. Len(buf), Buffered(buf, s.o.lastFrame, n),
           Midway(s, t, buf, i - 1), Wrote(t, u, buf[i])
    PROVE  Midway(s, u, buf, i)
<1>1. Len(buf) \in Nat /\ buf[i] \in Entries  OBVIOUS
<1>2. u \in States /\ Still(s, u)  BY DEF Midway, Wrote, Still
<1>3. /\ u.p.savedLs = "none" /\ u.p.foldBuf = s.p.foldBuf /\ u.p.foldCount = s.p.foldCount
      /\ u.o.lastFrame = buf[i].id
  BY DEF Midway, Wrote
<1>4. t.o.lastFrame < buf[i].id
  <2>1. CASE i = 1  BY <2>1 DEF Midway, Buffered
  <2>2. CASE i # 1
    <3>1. i - 1 \in 1 .. Len(buf) /\ i - 1 < i  BY <1>1, <2>2
    <3>2. buf[i - 1].id < buf[i].id  BY <3>1 DEF Buffered
    <3> QED  BY <2>2, <3>2 DEF Midway
  <2> QED  BY <2>1, <2>2
<1>5. u.o.inOrder  BY <1>4 DEF Midway, Wrote
<1>6. u.o.owed = s.o.owed - 1
  <2>1. s.o.owed \in Int  BY StateType DEF Outputs
  <2>2. buf[i].head <=> i = 1  BY DEF Buffered
  <2>3. PICK a \in Int : a = s.o.owed  BY <2>1
  <2>4. CASE i = 1
    <3>1. t.o.owed = a /\ u.o.owed = t.o.owed - 1  BY <2>2, <2>3, <2>4 DEF Midway, Wrote, Ones
    <3> QED  BY <2>3, <3>1
  <2>5. CASE i # 1
    <3>1. t.o.owed = a - 1  BY <2>3, <2>5 DEF Midway
    <3>2. u.o.owed = t.o.owed  BY <2>1, <2>2, <2>3, <2>5, <3>1 DEF Wrote, Ones
    <3> QED  BY <2>3, <3>1, <3>2
  <2> QED  BY <2>4, <2>5
<1>7. i # 0  OBVIOUS
<1> QED  BY <1>2, <1>3, <1>5, <1>6, <1>7 DEF Midway

(* All of them are written, in their order, and one start of frame of them.  *)
AllWritten(s, t, buf, n) ==
    /\ t \in States /\ Still(s, t) /\ t.p.savedLs = "none"
    /\ t.p.foldBuf = s.p.foldBuf /\ t.p.foldCount = s.p.foldCount
    /\ t.o.inOrder /\ t.o.lastFrame < n /\ t.o.owed = s.o.owed - Entered(buf)
    /\ buf = <<>> => t.o.lastFrame = s.o.lastFrame

LEMMA MidwayEnd ==
    ASSUME NEW s \in States, NEW t, NEW buf \in Seq(Entries), NEW n \in Nat,
           s.o.lastFrame < n, Buffered(buf, s.o.lastFrame, n), Midway(s, t, buf, Len(buf))
    PROVE  AllWritten(s, t, buf, n)
<1>1. CASE buf = <<>>
  <2>1. Len(buf) = 0  BY <1>1
  <2> QED  BY <1>1, <2>1 DEF Midway, AllWritten, Entered
<1>2. CASE buf # <<>>
  <2>1. Len(buf) # 0 /\ Len(buf) \in 1 .. Len(buf)  BY <1>2
  <2>2. buf[Len(buf)].id < n  BY <2>1 DEF Buffered
  <2> QED  BY <1>2, <2>1, <2>2 DEF Midway, AllWritten, Entered
<1> QED  BY <1>1, <1>2

LEMMA PutAllFacts ==
    ASSUME NEW s \in States, NEW buf \in Seq(Entries), NEW n \in Nat,
           s.p.savedLs = "none", s.o.inOrder, s.o.lastFrame < n,
           Buffered(buf, s.o.lastFrame, n)
    PROVE  /\ AllWritten(s, PutAll(s, buf), buf, n)
           /\ Times(s) /\ Stamps(buf, Reach(s)) => Times(PutAll(s, buf))
<1> DEFINE Good(t, i) == /\ Midway(s, t, buf, i)
                         /\ Times(s) /\ Stamps(buf, Reach(s)) => Times(t)
           R == [i \in 0 .. Len(buf) |-> {t \in States : Good(t, i)}]
<1>1. Len(buf) \in Nat  OBVIOUS
<1>2. Good(s, 0)
  <2>1. s.o.owed \in Int  BY StateType DEF Outputs
  <2> QED  BY <2>1 DEF Midway, Still
<1>3. ASSUME NEW i \in 1 .. Len(buf), NEW t \in States, Good(t, i - 1)
      PROVE  Good(PutFolded(t, buf[i]), i) /\ PutFolded(t, buf[i]) \in States
  <2>1. buf[i] \in Entries  BY <1>1
  <2>2. t.p.savedLs = "none" /\ Reach(t) = Reach(s)  BY <1>3, SameReach DEF Midway
  <2>3. Wrote(t, PutFolded(t, buf[i]), buf[i]) /\ PutFolded(t, buf[i]) \in States
    BY <2>1, <2>2, PutFoldedFacts
  <2>4. Midway(s, PutFolded(t, buf[i]), buf, i)  BY <1>3, <2>3, MidwayStep
  <2>5. ASSUME Times(s), Stamps(buf, Reach(s)) PROVE Times(PutFolded(t, buf[i]))
    <3>1. Times(t) /\ buf[i].ts <= Reach(t)  BY <1>3, <2>2, <2>5 DEF Stamps
    <3> QED  BY <2>1, <2>2, <3>1, PutFoldedFacts
  <2> QED  BY <2>3, <2>4, <2>5
<1> HIDE DEF Good
<1>4. PICK r : r = R  OBVIOUS
<1>5. PutAll(s, buf) \in r[Len(buf)]
  <2>1. s \in r[0]  BY <1>1, <1>2, <1>4
  <2>2. \A i \in 0 .. Len(buf) : r[i] \subseteq States  BY <1>4
  <2>3. ASSUME NEW i \in 1 .. Len(buf), NEW t \in r[i - 1] PROVE PutFolded(t, buf[i]) \in r[i]
    <3>1. i - 1 \in 0 .. Len(buf) /\ i \in 0 .. Len(buf)  BY <1>1
    <3>2. t \in States /\ Good(t, i - 1)  BY <1>4, <3>1
    <3>3. Good(PutFolded(t, buf[i]), i) /\ PutFolded(t, buf[i]) \in States  BY <1>3, <3>2
    <3> QED  BY <1>4, <3>1, <3>3
  <2> QED  BY <2>1, <2>2, <2>3, PutAllKeeps
<1>6. Good(PutAll(s, buf), Len(buf))  BY <1>1, <1>4, <1>5
<1> QED  BY <1>6, MidwayEnd DEF Good

-----------------------------------------------------------------------------
(* Folding.                                                                  *)

(* Only the account of frames owed is changed.                               *)
Owing(s, t, k) == /\ t \in States /\ t.p = s.p /\ Still(s, t) /\ SameCause(s, t)
                  /\ t.o.owed = k /\ t.o.lastFrame = s.o.lastFrame /\ t.o.inOrder = s.o.inOrder
                  /\ Times(s) => Times(t)

LEMMA SetOwed ==
    ASSUME NEW s \in States, NEW k \in Int
    PROVE  Owing(s, [s EXCEPT !.o.owed = k], k)
<1>1. PICK pp \in Packets, oo \in Outputs : s = [p |-> pp, o |-> oo]  BY StateType
<1>2. PICK t : t = [s EXCEPT !.o.owed = k]  OBVIOUS
<1>3. t = [p |-> pp, o |-> [oo EXCEPT !.owed = k]]  BY <1>1, <1>2
<1>4. t \in States
  <2>1. t.o \in Outputs  BY <1>3 DEF Outputs
  <2> QED  BY <1>3, <2>1 DEF States
<1>5. t.p = s.p  BY <1>1, <1>3
<1>6. /\ t.o.owed = k /\ t.o.lastFrame = s.o.lastFrame /\ t.o.inOrder = s.o.inOrder
      /\ t.o.keepOk = s.o.keepOk /\ t.o.savedCause = s.o.savedCause
      /\ t.o.lastTs = s.o.lastTs /\ t.o.ordered = s.o.ordered /\ SameCause(s, t)
      /\ t.o.slack = s.o.slack
  BY <1>1, <1>3 DEF Outputs, SameCause
<1>7. Still(s, t)  BY <1>5, <1>6 DEF Still
<1>8. Times(s) => Times(t)  BY <1>5, <1>6 DEF Times, Timely, Reach
<1> QED  BY <1>2, <1>4, <1>5, <1>6, <1>7, <1>8 DEF Owing

(* The fold buffer and the count of folded frames are emptied.               *)
Cleared(s, t) ==
    /\ t \in States /\ Still(s, t) /\ t.p.savedLs = s.p.savedLs
    /\ t.p.foldBuf = <<>> /\ t.p.foldCount = 0
    /\ t.o.owed = s.o.owed /\ t.o.lastFrame = s.o.lastFrame /\ t.o.inOrder = s.o.inOrder

LEMMA Clear ==
    ASSUME NEW s \in States
    PROVE  LET t == [s EXCEPT !.p.foldCount = 0, !.p.foldBuf = <<>>]
           IN Cleared(s, t) /\ (Times(s) => Times(t))
<1>1. PICK pp \in Packets, oo \in Outputs : s = [p |-> pp, o |-> oo]  BY StateType
<1>2. PICK t : t = [s EXCEPT !.p.foldCount = 0, !.p.foldBuf = <<>>]  OBVIOUS
<1>3. t = [p |-> [pp EXCEPT !.foldCount = 0, !.foldBuf = <<>>], o |-> oo]  BY <1>1, <1>2
<1>4. t \in States
  <2>1. <<>> \in Seq(Entries) /\ 0 \in Nat  OBVIOUS
  <2>2. t.p \in Packets  BY <1>3, <2>1 DEF Packets
  <2> QED  BY <1>3, <2>2 DEF States
<1>5. Still(s, t) /\ t.o = s.o  BY <1>1, <1>3 DEF Still, Packets
<1>6. /\ t.p.foldBuf = <<>> /\ t.p.foldCount = 0 /\ t.p.savedLs = s.p.savedLs
      /\ t.p.lastTs = s.p.lastTs
  BY <1>1, <1>3 DEF Packets
<1>7. Times(s) => Times(t)
  <2>1. \A i \in 1 .. Len(t.p.foldBuf) : FALSE  BY <1>6
  <2> QED  BY <1>5, <1>6, <2>1, SameReach DEF Times, Still
<1> QED  BY <1>2, <1>4, <1>5, <1>6, <1>7 DEF Cleared

(* Folding ends: every frame of the buffer is written, and all are paid for. *)
Stopped(s, t, n, k) ==
    /\ t \in States /\ Still(s, t) /\ t.p.savedLs = "none" /\ Folding(t, n, k)
    /\ t.p.foldBuf = <<>> /\ t.p.foldCount = 0
    /\ s.p.foldBuf = <<>> => t.o.lastFrame = s.o.lastFrame

LEMMA StoppedWhen ==
    ASSUME NEW s \in States, NEW n \in Nat, NEW k \in Int, Account(s, n, k), NEW t \in States,
           Still(s, t), t.p.savedLs = "none", t.p.foldBuf = <<>>, t.p.foldCount = 0,
           t.o.inOrder, t.o.lastFrame < n,
           t.o.owed = s.o.owed - Entered(s.p.foldBuf) - s.p.foldCount,
           s.p.foldBuf = <<>> => t.o.lastFrame = s.o.lastFrame
    PROVE  Stopped(s, t, n, k)
<1>1. s.p.foldCount \in Nat /\ s.o.owed \in Int  BY StateType DEF Packets, Outputs
<1>2. Entered(s.p.foldBuf) \in Nat  BY DEF Entered
<1>3. t.o.owed = k
  <2>1. \A a, b, c, d \in Int : a = b + c + k /\ d = a - c - b => d = k  OBVIOUS
  <2>2. s.o.owed = s.p.foldCount + Entered(s.p.foldBuf) + k  BY DEF Account
  <2>3. t.o.owed \in Int  BY <1>1, <1>2
  <2> QED  BY <1>1, <1>2, <2>1, <2>2, <2>3
<1>4. Len(t.p.foldBuf) = 0 /\ Entered(t.p.foldBuf) = 0  BY DEF Entered
<1>5. Buffered(t.p.foldBuf, t.o.lastFrame, n)  BY <1>4 DEF Buffered
<1>6. 0 <= FoldBufSize  BY ConstantsAssumption
<1>7. t.o.owed = t.p.foldCount + Entered(t.p.foldBuf) + k  BY <1>3, <1>4
<1> QED  BY <1>4, <1>5, <1>6, <1>7 DEF Stopped, Folding, Account

LEMMA StopFoldingFacts ==
    ASSUME NEW s \in States, NEW n \in Nat, NEW k \in Int, Account(s, n, k),
           s.p.savedLs = "none"
    PROVE  /\ Stopped(s, StopFolding(s), n, k)
           /\ Times(s) => Times(StopFolding(s))
<1> DEFINE buf == s.p.foldBuf
           folded == s.p.foldCount
<1>1. /\ buf \in Seq(Entries) /\ folded \in Nat /\ s.o.owed \in Int /\ s.p.ts \in Nat
      /\ Entered(buf) \in Nat
  BY StateType DEF Packets, Outputs, Entered
<1>2. CASE folded = 0 /\ buf = <<>>
  <2>1. StopFolding(s) = s  BY <1>2 DEF StopFolding
  <2>2. Entered(buf) = 0  BY <1>2 DEF Entered
  <2>3. s.o.owed = s.o.owed - Entered(buf) - folded  BY <1>1, <1>2, <2>2
  <2>4. Stopped(s, s, n, k)  BY <1>2, <2>3, StoppedWhen DEF Account, Still
  <2> QED  BY <2>1, <2>4
<1>3. CASE ~(folded = 0 /\ buf = <<>>)
  <2>1. PICK e : e = [s EXCEPT !.p.foldCount = 0, !.p.foldBuf = <<>>]  OBVIOUS
  <2>2. Cleared(s, e) /\ (Times(s) => Times(e)) /\ e \in States  BY <2>1, Clear DEF Cleared
  <2>3. PICK put : put = PutAll(e, buf)  OBVIOUS
  <2>4. /\ AllWritten(e, put, buf, n)
        /\ Times(e) /\ Stamps(buf, Reach(e)) => Times(put)
    <3>1. /\ e.p.savedLs = "none" /\ e.o.inOrder /\ e.o.lastFrame < n
          /\ Buffered(buf, e.o.lastFrame, n)
      BY <2>2 DEF Cleared, Account
    <3> QED  BY <1>1, <2>2, <2>3, <3>1, PutAllFacts
  <2>5. Times(s) => Times(put)
    <3>1. Reach(e) = Reach(s)  BY <2>2, SameReach DEF Cleared
    <3>2. Times(s) => Stamps(buf, Reach(s))  BY DEF Times, Stamps
    <3> QED  BY <2>2, <2>4, <3>1, <3>2
  <2>6. /\ put \in States /\ Still(s, put) /\ put.p.savedLs = "none"
        /\ put.p.foldBuf = <<>> /\ put.p.foldCount = 0 /\ put.o.inOrder
        /\ put.o.lastFrame < n /\ put.o.owed = s.o.owed - Entered(buf)
        /\ buf = <<>> => put.o.lastFrame = s.o.lastFrame
    BY <2>2, <2>4 DEF Cleared, AllWritten, Still
  <2>7. CASE folded = 0
    <3>1. StopFolding(s) = put  BY <1>3, <2>1, <2>3, <2>7 DEF StopFolding
    <3>2. put.o.owed = s.o.owed - Entered(buf) - folded  BY <1>1, <2>6, <2>7
    <3>3. Stopped(s, put, n, k)  BY <2>6, <3>2, StoppedWhen
    <3> QED  BY <2>5, <3>1, <3>3
  <2>8. CASE folded # 0
    <3>1. PICK i : i = CaptureInfo(put, put.p.ts)  OBVIOUS
    <3>2. Told(put, i) /\ i \in States  BY <2>6, <3>1, CaptureInfoFacts DEF Told
    <3>3. put.p.ts = s.p.ts  BY <2>6 DEF Still
    <3>4. i.o.owed = s.o.owed - Entered(buf)  BY <2>6, <3>2 DEF Told, SameFold
    <3>5. PICK d \in Int : d = i.o.owed - folded  BY <1>1, <3>4
    <3>6. PICK t : t = [i EXCEPT !.o.owed = d]  OBVIOUS
    <3>7. StopFolding(s) = t
      BY <1>3, <2>1, <2>3, <2>8, <3>1, <3>3, <3>5, <3>6 DEF StopFolding
    <3>8. Owing(i, t, d)  BY <3>2, <3>6, SetOwed
    <3>9. Times(s) => Times(t)  BY <2>5, <3>2, <3>8 DEF Told, Owing
    <3>10. t.o.owed = s.o.owed - Entered(buf) - folded  BY <3>4, <3>5, <3>8 DEF Owing
    <3>11. /\ t \in States /\ t.p.savedLs = "none" /\ t.p.foldBuf = <<>> /\ t.p.foldCount = 0
           /\ t.o.inOrder /\ t.o.lastFrame < n
           /\ buf = <<>> => t.o.lastFrame = s.o.lastFrame
      BY <2>6, <3>2, <3>8 DEF Told, SameFold, Owing
    <3>12. Still(s, t)  BY <2>6, <3>2, <3>8 DEF Told, Owing, Still
    <3>13. Stopped(s, t, n, k)  BY <3>10, <3>11, <3>12, StoppedWhen
    <3> QED  BY <3>7, <3>9, <3>13
  <2> QED  BY <2>7, <2>8
<1> QED  BY <1>2, <1>3

(* Frame n was taken: it is written, or it is in the buffer.                 *)
Taken(s, t, n) == t \in States /\ Still(s, t) /\ t.p.savedLs = "none" /\ Folding(t, n + 1, 0)

LEMMA BufferedMore ==
    ASSUME NEW buf \in Seq(Entries), NEW last \in Nat, NEW n \in Nat, NEW f \in Entries,
           Buffered(buf, last, n), last < n, f.id = n, f.head <=> buf = <<>>
    PROVE  Buffered(Append(buf, f), last, n + 1)
<1> DEFINE new == Append(buf, f)
<1>1. PICK m \in Nat : m = Len(buf)  OBVIOUS
<1>2. /\ Len(new) = m + 1 /\ new[m + 1] = f /\ \A i \in 1 .. m : new[i] = buf[i]
      /\ (buf = <<>> <=> m = 0)
  BY <1>1
<1>3. \A i \in 1 .. m : buf[i].id \in Nat
  <2>1. \A i \in 1 .. m : buf[i] \in Entries  BY <1>1
  <2> QED  BY <2>1 DEF Entries
<1> HIDE DEF new
<1>4. ASSUME NEW i \in 1 .. Len(new)
      PROVE  last < new[i].id /\ new[i].id < n + 1 /\ (new[i].head <=> i = 1)
  <2>1. CASE i = m + 1  BY <1>2, <2>1
  <2>2. CASE i # m + 1
    <3>1. i \in 1 .. m  BY <1>2, <2>2
    <3>2. last < buf[i].id /\ buf[i].id < n /\ (buf[i].head <=> i = 1)
      BY <1>1, <3>1 DEF Buffered
    <3>3. buf[i].id < n + 1  BY <1>3, <3>1, <3>2
    <3> QED  BY <1>2, <3>1, <3>2, <3>3
  <2> QED  BY <2>1, <2>2
<1>5. ASSUME NEW i \in 1 .. Len(new), NEW j \in 1 .. Len(new), i < j
      PROVE  new[i].id < new[j].id
  <2>1. i \in 1 .. m  BY <1>2, <1>5
  <2>2. CASE j = m + 1  BY <1>1, <1>2, <2>1, <2>2 DEF Buffered
  <2>3. CASE j # m + 1
    <3>1. j \in 1 .. m  BY <1>2, <2>3
    <3> QED  BY <1>1, <1>2, <1>5, <2>1, <3>1 DEF Buffered
  <2> QED  BY <2>2, <2>3
<1>6. Buffered(new, last, n + 1)  BY <1>4, <1>5 DEF Buffered
<1> QED  BY <1>6 DEF new

(* A start of frame joins the empty buffer, another frame one that is not.   *)
LEMMA FoldFrameFacts ==
    ASSUME NEW s \in States, NEW n \in Nat, NEW f \in Entries, f.id = n, opts.fold,
           Account(s, n, Ones(f)), Len(s.p.foldBuf) < FoldBufSize,
           f.head <=> s.p.foldBuf = <<>>
    PROVE  LET t == FoldFrame(s, f)
           IN /\ s.p.savedLs = "none" => Taken(s, t, n)
              /\ Times(s) /\ f.ts <= Reach(s) => Times(t)
              /\ t.p.savedLs = s.p.savedLs /\ t.o = s.o /\ t.p.foldCount = s.p.foldCount
              /\ t.p.foldBuf = Append(s.p.foldBuf, f)
<1>1. PICK pp \in Packets, oo \in Outputs : s = [p |-> pp, o |-> oo]  BY StateType
<1>2. PICK new : new = Append(s.p.foldBuf, f)  OBVIOUS
<1>3. PICK t : t = FoldFrame(s, f)  OBVIOUS
<1>4. t = [p |-> [pp EXCEPT !.foldBuf = new], o |-> oo]
  <2>1. t = [s EXCEPT !.p.foldBuf = new]  BY <1>2, <1>3 DEF FoldFrame
  <2> QED  BY <1>1, <2>1
<1>5. s.p.foldBuf \in Seq(Entries) /\ s.p.foldCount \in Nat /\ s.o.lastFrame \in Nat
  BY StateType DEF Packets, Outputs
<1>6. new \in Seq(Entries) /\ Len(new) = Len(s.p.foldBuf) + 1 /\ new # <<>>  BY <1>2, <1>5
<1>7. t \in States
  <2>1. t.p \in Packets  BY <1>4, <1>6 DEF Packets
  <2> QED  BY <1>4, <2>1 DEF States
<1>8. Still(s, t) /\ t.o = s.o  BY <1>1, <1>4 DEF Still, Packets
<1>9. /\ t.p.foldBuf = new /\ t.p.foldCount = s.p.foldCount /\ t.p.savedLs = s.p.savedLs
      /\ t.p.lastTs = s.p.lastTs
  BY <1>1, <1>4 DEF Packets
<1>10. Folding(t, n + 1, 0)
  <2>1. Buffered(new, s.o.lastFrame, n + 1)
    BY <1>2, <1>5, BufferedMore DEF Account
  <2>2. s.o.owed = s.p.foldCount + 1
    <3>1. s.o.owed = s.p.foldCount + Entered(s.p.foldBuf) + Ones(f)  BY DEF Account
    <3>2. Entered(s.p.foldBuf) + Ones(f) = 1
      <4>1. CASE s.p.foldBuf = <<>>  BY <4>1 DEF Entered, Ones
      <4>2. CASE s.p.foldBuf # <<>>  BY <4>2 DEF Entered, Ones
      <4> QED  BY <4>1, <4>2
    <3>3. Entered(s.p.foldBuf) \in Nat /\ Ones(f) \in Nat  BY DEF Entered, Ones
    <3> QED  BY <1>5, <3>1, <3>2, <3>3
  <2>3. Entered(new) = 1  BY <1>6 DEF Entered
  <2>4. t.o.owed = t.p.foldCount + Entered(t.p.foldBuf) + 0
    BY <1>5, <1>8, <1>9, <2>2, <2>3
  <2>5. Len(new) <= FoldBufSize
    <3>1. Len(s.p.foldBuf) \in Nat /\ FoldBufSize \in Nat  BY <1>5, ConstantsAssumption
    <3> QED  BY <1>6, <3>1
  <2>6. s.o.inOrder /\ s.o.lastFrame < n + 1  BY <1>5 DEF Account
  <2> QED  BY <1>6, <1>8, <1>9, <2>1, <2>4, <2>5, <2>6 DEF Folding, Account
<1>11. ASSUME Times(s), f.ts <= Reach(s) PROVE Times(t)
  <2>1. \A i \in 1 .. Len(new) : new[i].ts <= Reach(s)
    <3>1. PICK m \in Nat : m = Len(s.p.foldBuf)  BY <1>5
    <3>2. Len(new) = m + 1 /\ new[m + 1] = f /\ \A i \in 1 .. m : new[i] = s.p.foldBuf[i]
      BY <1>2, <1>5, <3>1
    <3>3. \A i \in 1 .. m : s.p.foldBuf[i].ts <= Reach(s)  BY <1>11, <3>1 DEF Times
    <3>4. ASSUME NEW i \in 1 .. Len(new) PROVE new[i].ts <= Reach(s)
      <4>1. i = m + 1 \/ i \in 1 .. m  BY <3>2
      <4> QED  BY <1>11, <3>2, <3>3, <4>1
    <3> QED  BY <3>4
  <2>2. /\ s.o.ordered /\ s.o.lastTs = s.p.lastTs /\ s.p.lastTs <= Reach(s)
        /\ s.p.savedLs # "none" => Timely(s, s.p.savedTs)
        /\ Pace(s.p.tsInt, s.p.ts, s.o.slack)
    BY <1>11 DEF Times
  <2>3. Reach(t) = Reach(s) /\ (s.p.savedLs # "none" => Timely(t, s.p.savedTs))
    BY <1>8, <1>9, <2>2, SameReach
  <2> QED  BY <1>8, <1>9, <2>1, <2>2, <2>3 DEF Times, Still
<1>12. s.p.savedLs = "none" => Taken(s, t, n)  BY <1>7, <1>8, <1>9, <1>10 DEF Taken
<1> QED  BY <1>2, <1>3, <1>8, <1>9, <1>11, <1>12

(* Frame n is written, at ts, when nothing is folded.                        *)
LEMMA WroteTaken ==
    ASSUME NEW s \in States, NEW n \in Nat, NEW f \in Entries, f.id = n,
           Folding(s, n, Ones(f)), s.p.foldBuf = <<>>, s.p.savedLs = "none",
           NEW t, Wrote(s, t, f)
    PROVE  Taken(s, t, n)
<1>1. /\ t.p.foldBuf = <<>> /\ t.p.foldCount = 0 /\ t.o.lastFrame = n /\ t.o.inOrder
      /\ t.p.savedLs = "none"
  BY DEF Wrote, Folding, Account
<1>2. t.o.owed = 0
  <2>1. s.o.owed = 0 + 0 + Ones(f)  BY DEF Folding, Account, Entered
  <2>2. Ones(f) \in Nat  BY DEF Ones
  <2> QED  BY <2>1, <2>2 DEF Wrote
<1>3. Buffered(t.p.foldBuf, t.o.lastFrame, n + 1)
  <2>1. Len(t.p.foldBuf) = 0  BY <1>1
  <2> QED  BY <2>1 DEF Buffered
<1>4. t.o.owed = t.p.foldCount + Entered(t.p.foldBuf) + 0  BY <1>1, <1>2 DEF Entered
<1>5. Len(t.p.foldBuf) <= FoldBufSize /\ t.o.lastFrame < n + 1
  BY <1>1, ConstantsAssumption
<1>6. Folding(t, n + 1, 0)  BY <1>1, <1>3, <1>4, <1>5 DEF Folding, Account
<1> QED  BY <1>1, <1>6 DEF Taken, Wrote

LEMMA WriteFrame ==
    ASSUME NEW s \in States, NEW n \in Nat, NEW f \in Entries, NEW ts \in Nat, f.id = n,
           Folding(s, n, Ones(f)), s.p.foldBuf = <<>>, s.p.savedLs = "none"
    PROVE  /\ Taken(s, Put(s, ts, f), n)
           /\ Times(s) /\ Timely(s, ts) => Times(Put(s, ts, f))
<1>1. PICK t : t = Put(s, ts, f)  OBVIOUS
<1>2. /\ Wrote(s, t, f)
      /\ Times(s) /\ Timely(s, ts) => Times(t)
  BY <1>1, PutFacts
<1> QED  BY <1>1, <1>2, WroteTaken

(* The buffered frame was empty: from now on it is only counted.             *)
LEMMA Count ==
    ASSUME NEW s \in States, NEW n \in Nat, Account(s, n, 1), s.p.foldBuf # <<>>
    PROVE  LET t == [s EXCEPT !.p.foldCount = s.p.foldCount + 1, !.p.foldBuf = <<>>]
           IN /\ t \in States /\ Still(s, t) /\ t.p.savedLs = s.p.savedLs /\ t.o = s.o
              /\ t.p.foldBuf = <<>> /\ t.p.foldCount = s.p.foldCount + 1
              /\ Account(t, n, 1) /\ (Times(s) => Times(t))
<1>1. PICK pp \in Packets, oo \in Outputs : s = [p |-> pp, o |-> oo]  BY StateType
<1>2. s.p.foldCount \in Nat /\ s.o.owed \in Int  BY StateType DEF Packets, Outputs
<1>3. PICK c \in Nat : c = s.p.foldCount + 1  BY <1>2
<1>4. PICK t : t = [s EXCEPT !.p.foldCount = c, !.p.foldBuf = <<>>]  OBVIOUS
<1>5. t = [p |-> [pp EXCEPT !.foldCount = c, !.foldBuf = <<>>], o |-> oo]  BY <1>1, <1>4
<1>6. t \in States
  <2>1. <<>> \in Seq(Entries)  OBVIOUS
  <2>2. t.p \in Packets  BY <1>5, <2>1 DEF Packets
  <2> QED  BY <1>5, <2>2 DEF States
<1>7. Still(s, t) /\ t.o = s.o  BY <1>1, <1>5 DEF Still, Packets
<1>8. /\ t.p.foldBuf = <<>> /\ t.p.foldCount = c /\ t.p.savedLs = s.p.savedLs
      /\ t.p.lastTs = s.p.lastTs
  BY <1>1, <1>5 DEF Packets
<1>9. Len(t.p.foldBuf) = 0  BY <1>8
<1>10. Times(s) => Times(t)  BY <1>7, <1>8, <1>9, SameReach DEF Times, Still
<1>11. Account(t, n, 1)
  <2>1. s.o.owed = s.p.foldCount + 1 + 1  BY DEF Account, Entered
  <2>2. t.o.owed = t.p.foldCount + Entered(t.p.foldBuf) + 1
    BY <1>2, <1>3, <1>7, <1>8, <2>1 DEF Entered
  <2>3. Buffered(t.p.foldBuf, t.o.lastFrame, n)  BY <1>9 DEF Buffered
  <2>4. Len(t.p.foldBuf) <= FoldBufSize  BY <1>9, ConstantsAssumption
  <2> QED  BY <1>7, <1>8, <2>2, <2>3, <2>4 DEF Account
<1> QED  BY <1>3, <1>4, <1>6, <1>7, <1>8, <1>10, <1>11

LEMMA CountAndFoldFacts ==
    ASSUME NEW s \in States, NEW n \in Nat, NEW f \in Entries, f.id = n, f.head, opts.fold,
           Account(s, n, 1), s.p.foldBuf # <<>>, s.p.savedLs = "none", NEW limit
    PROVE  /\ Taken(s, CountAndFold(s, f, limit), n)
           /\ Times(s) /\ f.ts <= Reach(s) => Times(CountAndFold(s, f, limit))
<1>1. PICK c : c = [s EXCEPT !.p.foldCount = s.p.foldCount + 1, !.p.foldBuf = <<>>]
  OBVIOUS
<1>2. /\ c \in States /\ Still(s, c) /\ c.p.savedLs = "none" /\ c.p.foldBuf = <<>>
      /\ Account(c, n, 1) /\ (Times(s) => Times(c))
  BY <1>1, Count
<1>3. PICK d : d = IF c.p.foldCount = limit THEN StopFolding(c) ELSE c  OBVIOUS
<1>4. /\ d \in States /\ Still(s, d) /\ d.p.savedLs = "none" /\ d.p.foldBuf = <<>>
      /\ Account(d, n, 1) /\ (Times(s) => Times(d))
  <2>1. CASE c.p.foldCount = limit
    <3>1. Stopped(c, d, n, 1) /\ (Times(c) => Times(d))
      BY <1>2, <1>3, <2>1, StopFoldingFacts
    <3>2. Still(s, d)  BY <1>2, <3>1 DEF Stopped, Still
    <3> QED  BY <1>2, <3>1, <3>2 DEF Stopped, Folding
  <2>2. CASE c.p.foldCount # limit  BY <1>2, <1>3, <2>2
  <2> QED  BY <2>1, <2>2
<1>5. CountAndFold(s, f, limit) = FoldFrame(d, f)  BY <1>1, <1>3 DEF CountAndFold
<1>6. Ones(f) = 1 /\ Len(d.p.foldBuf) < FoldBufSize  BY <1>4, ConstantsAssumption DEF Ones
<1>7. /\ Taken(d, FoldFrame(d, f), n)
      /\ Times(d) /\ f.ts <= Reach(d) => Times(FoldFrame(d, f))
  BY <1>4, <1>6, FoldFrameFacts
<1>8. Reach(d) = Reach(s)  BY <1>4, SameReach
<1>9. Taken(s, FoldFrame(d, f), n)
  <2>1. PICK t : t = FoldFrame(d, f)  OBVIOUS
  <2>2. Taken(s, t, n)  BY <1>4, <1>7, <2>1 DEF Taken, Still
  <2> QED  BY <2>1, <2>2
<1> QED  BY <1>4, <1>5, <1>7, <1>8, <1>9

-----------------------------------------------------------------------------
(* Whole events.                                                             *)

LEMMA FoldingKept ==
    ASSUME NEW s, NEW t, SameFold(s, t), NEW n, NEW k
    PROVE  /\ Account(s, n, k) => Account(t, n, k)
           /\ Folding(s, n, k) => Folding(t, n, k)
BY DEF SameFold, Folding, Account

LEMMA FoldingLater ==
    ASSUME NEW s \in States, NEW n \in Nat, NEW k, Folding(s, n, k)
    PROVE  Folding(s, n + 1, k)
<1>1. s.p.foldBuf \in Seq(Entries) /\ s.o.lastFrame \in Nat
  BY StateType DEF Packets, Outputs
<1>2. \A i \in 1 .. Len(s.p.foldBuf) : s.p.foldBuf[i].id \in Nat
  <2>1. \A i \in 1 .. Len(s.p.foldBuf) : s.p.foldBuf[i] \in Entries  BY <1>1
  <2> QED  BY <2>1 DEF Entries
<1>3. Buffered(s.p.foldBuf, s.o.lastFrame, n)  BY DEF Folding, Account
<1>4. \A i \in 1 .. Len(s.p.foldBuf) : s.p.foldBuf[i].id < n + 1  BY <1>2, <1>3 DEF Buffered
<1>5. Buffered(s.p.foldBuf, s.o.lastFrame, n + 1)  BY <1>3, <1>4 DEF Buffered
<1>6. s.o.lastFrame < n + 1  BY <1>1 DEF Folding, Account
<1> QED  BY <1>5, <1>6 DEF Folding, Account

(* A field of struct packet changes that is none of folding or of time.      *)
Aside(s, t) ==
    /\ t \in States /\ t.o = s.o /\ t.p.tsInt = s.p.tsInt /\ t.p.ts = s.p.ts
    /\ t.p.lastTs = s.p.lastTs
    /\ t.p.foldBuf = s.p.foldBuf /\ t.p.foldCount = s.p.foldCount
    /\ t.p.savedLs = s.p.savedLs /\ t.p.savedTs = s.p.savedTs

LEMMA AsideFacts ==
    ASSUME NEW s \in States, NEW t, Aside(s, t)
    PROVE  /\ SameFold(s, t) /\ (Times(s) => Times(t))
           /\ \A n : (Held(s, n) => Held(t, n)) /\ (Causes(s, n) => Causes(t, n))
<1>1. SameFold(s, t)  BY DEF Aside, SameFold
<1>2. Times(s) => Times(t)  BY DEF Aside, Times, Timely, Reach
<1>3. ASSUME NEW n PROVE Held(s, n) => Held(t, n)  BY DEF Aside, Held
<1>4. ASSUME NEW n PROVE Causes(s, n) => Causes(t, n)
  <2>1. Held(s, s.o.savedCause) => Held(t, s.o.savedCause)  BY <1>3
  <2> QED  BY <1>3, <2>1 DEF Aside, Causes
<1> QED  BY <1>1, <1>2, <1>3, <1>4

LEMMA SetLimit ==
    ASSUME NEW s \in States, NEW k \in Int
    PROVE  LET t == [s EXCEPT !.p.limit = k] IN Aside(s, t) /\ Still(s, t)
<1>1. PICK pp \in Packets, oo \in Outputs : s = [p |-> pp, o |-> oo]  BY StateType
<1>2. PICK t : t = [s EXCEPT !.p.limit = k]  OBVIOUS
<1>3. t = [p |-> [pp EXCEPT !.limit = k], o |-> oo]  BY <1>1, <1>2
<1>4. t \in States
  <2>1. t.p \in Packets  BY <1>3 DEF Packets
  <2> QED  BY <1>3, <2>1 DEF States
<1>5. Still(s, t) /\ Aside(s, t)  BY <1>1, <1>3, <1>4 DEF Still, Aside, Packets
<1> QED  BY <1>2, <1>5

(* What an event leaves alone.                                               *)
Calm(s, t) == /\ t.p.trigger = s.p.trigger /\ t.p.enabled = s.p.enabled /\ t.p.ts = s.p.ts
              /\ t.p.payload = s.p.payload /\ t.o.keepOk = s.o.keepOk

LEMMA SetDone ==
    ASSUME NEW s \in States
    PROVE  LET t == [s EXCEPT !.p.done = TRUE] IN Aside(s, t) /\ Calm(s, t) /\ t.p.done
<1>1. PICK pp \in Packets, oo \in Outputs : s = [p |-> pp, o |-> oo]  BY StateType
<1>2. PICK t : t = [s EXCEPT !.p.done = TRUE]  OBVIOUS
<1>3. t = [p |-> [pp EXCEPT !.done = TRUE], o |-> oo]  BY <1>1, <1>2
<1>4. t \in States
  <2>1. t.p \in Packets  BY <1>3 DEF Packets
  <2> QED  BY <1>3, <2>1 DEF States
<1>5. Calm(s, t) /\ Aside(s, t) /\ t.p.done  BY <1>1, <1>3, <1>4 DEF Calm, Aside, Packets
<1> QED  BY <1>2, <1>5

(* An event of frame n of the newer device.                                  *)
Event(s, t, n) == /\ t \in States /\ Calm(s, t) /\ Folding(t, n + 1, 0) /\ Times(t)
                  /\ ~s.p.enabled => t.o.lastFrame = s.o.lastFrame

LEMMA LimitFacts ==
    ASSUME NEW s \in States, NEW n \in Nat, Folding(s, n + 1, 0), Times(s)
    PROVE  LET t == CheckCaptureLimit(s)
           IN t \in States /\ Calm(s, t) /\ Folding(t, n + 1, 0) /\ Times(t)
<1>1. PICK left : left = IF s.p.limit > 0 THEN s.p.limit - 1 ELSE -1  OBVIOUS
<1>2. left \in Int
  <2>1. s.p.limit \in Int  BY StateType DEF Packets
  <2> QED  BY <1>1, <2>1
<1>3. PICK a : a = [s EXCEPT !.p.limit = left]  OBVIOUS
<1>4. Aside(s, a) /\ Still(s, a) /\ a \in States  BY <1>2, <1>3, SetLimit DEF Aside
<1>5. Calm(s, a) /\ Folding(a, n + 1, 0) /\ Times(a)
  BY <1>4, AsideFacts, FoldingKept DEF Still, Calm
<1>6. CASE left # 0
  <2>1. CheckCaptureLimit(s) = a  BY <1>1, <1>3, <1>6 DEF CheckCaptureLimit
  <2> QED  BY <1>4, <1>5, <2>1
<1>7. CASE left = 0
  <2>1. PICK i : i = CaptureInfo(a, a.p.ts)  OBVIOUS
  <2>2. Told(a, i) /\ i \in States  BY <1>4, <2>1, CaptureInfoFacts DEF Told
  <2>3. PICK t : t = [i EXCEPT !.p.done = TRUE]  OBVIOUS
  <2>4. Aside(i, t) /\ Calm(i, t) /\ t \in States  BY <2>2, <2>3, SetDone DEF Aside
  <2>5. CheckCaptureLimit(s) = t
    BY <1>1, <1>3, <1>4, <1>7, <2>1, <2>3 DEF CheckCaptureLimit, Aside
  <2>6. Folding(i, n + 1, 0) /\ Times(i)  BY <1>5, <2>2, FoldingKept DEF Told
  <2>7. Folding(t, n + 1, 0) /\ Times(t)  BY <2>2, <2>4, <2>6, AsideFacts, FoldingKept
  <2>8. Calm(s, t)  BY <1>5, <2>2, <2>4 DEF Calm, Told, Still
  <2> QED  BY <2>4, <2>5, <2>7, <2>8
<1> QED  BY <1>6, <1>7

LEMMA FrameType ==
    ASSUME This \in Nat, NEW s, NEW ts \in Nat, NEW starts \in BOOLEAN, NEW keep \in BOOLEAN
    PROVE  LET f == Frame(s, ts, starts, keep)
           IN f \in Entries /\ f.id = This /\ f.ts = ts /\ f.head = starts
BY DEF Frame, Entries

(* The frame joins the account of frames owed.                               *)
LEMMA Accept ==
    ASSUME NEW s \in States, NEW n \in Nat, NEW k \in {0, 1}, Folding(s, n, 0)
    PROVE  LET t == [s EXCEPT !.o.owed = @ + k]
           IN Owing(s, t, s.o.owed + k) /\ t \in States /\ Folding(t, n, k)
<1>1. s.o.owed \in Int /\ s.p.foldCount \in Nat /\ Entered(s.p.foldBuf) \in Nat
  BY StateType DEF Packets, Outputs, Entered
<1>2. PICK d \in Int : d = s.o.owed + k  BY <1>1
<1>3. PICK t : t = [s EXCEPT !.o.owed = d]  OBVIOUS
<1>4. Owing(s, t, d)  BY <1>3, SetOwed
<1>5. t.o.owed = t.p.foldCount + Entered(t.p.foldBuf) + k
  <2>1. s.o.owed = s.p.foldCount + Entered(s.p.foldBuf) + 0  BY DEF Folding, Account
  <2> QED  BY <1>1, <1>2, <1>4, <2>1 DEF Owing
<1>6. Folding(t, n, k)  BY <1>4, <1>5 DEF Owing, Folding, Account
<1> QED  BY <1>2, <1>3, <1>4, <1>6 DEF Owing

LEMMA KeepaliveFacts ==
    ASSUME NEW s \in States, This \in Nat, Folding(s, This, 0), Times(s),
           s.p.savedLs = "none", NEW ts \in Nat, Timely(s, ts)
    PROVE  Event(s, KeepaliveEvent(s, ts), This)
<1>1. PICK n \in Nat : n = This  OBVIOUS
<1>2. CASE ~s.p.enabled
  <2>1. KeepaliveEvent(s, ts) = s  BY <1>2 DEF KeepaliveEvent
  <2>2. Folding(s, n + 1, 0)  BY <1>1, FoldingLater
  <2> QED  BY <1>1, <2>1, <2>2 DEF Event, Calm
<1>3. CASE s.p.enabled
  <2>1. PICK f : f = Frame(s, ts, TRUE, TRUE)  OBVIOUS
  <2>2. f \in Entries /\ f.id = n /\ f.ts = ts /\ f.head  BY <1>1, <2>1, FrameType
  <2>3. Ones(f) = 1  BY <2>2 DEF Ones
  <2>4. PICK t : t = [s EXCEPT !.o.owed = @ + 1]  OBVIOUS
  <2>5. Owing(s, t, s.o.owed + 1) /\ t \in States /\ Folding(t, n, 1)
    BY <1>1, <2>4, Accept
  <2>6. /\ t.p = s.p /\ Times(t) /\ Account(t, n, 1) /\ Still(s, t) /\ Timely(t, ts)
        /\ ts <= Reach(t)
    <3>1. t.p = s.p /\ Times(t) /\ Account(t, n, 1) /\ Still(s, t)
      BY <2>5 DEF Owing, Folding
    <3>2. Timely(t, ts)  BY <3>1, SameReach
    <3> QED  BY <3>1, <3>2 DEF Timely
  <2>7. PICK u : u = IF ~opts.fold THEN WriteKeepalive(t, ts, f)
                     ELSE IF s.p.foldBuf # <<>> THEN CountAndFold(t, f, FoldLimitLSFS)
                     ELSE FoldFrame(t, f)
    OBVIOUS
  <2>8. Taken(t, u, n) /\ Times(u)
    <3>1. CASE ~opts.fold
      <4>1. t.p.foldBuf = <<>>  BY <2>6, <3>1 DEF Account
      <4>2. u = Put(t, ts, f)
        BY <2>6, <2>7, <3>1 DEF WriteKeepalive, LineStateEvent
      <4> QED  BY <2>2, <2>3, <2>5, <2>6, <4>1, <4>2, WriteFrame
    <3>2. CASE opts.fold /\ s.p.foldBuf # <<>>
      <4>1. u = CountAndFold(t, f, FoldLimitLSFS)  BY <2>7, <3>2
      <4> QED  BY <2>2, <2>5, <2>6, <3>2, <4>1, CountAndFoldFacts
    <3>3. CASE opts.fold /\ s.p.foldBuf = <<>>
      <4>1. u = FoldFrame(t, f)  BY <2>7, <3>3
      <4>2. Len(t.p.foldBuf) < FoldBufSize  BY <2>6, <3>3, ConstantsAssumption
      <4> QED  BY <2>2, <2>3, <2>5, <2>6, <3>3, <4>1, <4>2, FoldFrameFacts
    <3> QED  BY <3>1, <3>2, <3>3
  <2>9. KeepaliveEvent(s, ts) = CheckCaptureLimit(u)
    BY <1>3, <2>1, <2>4, <2>7 DEF KeepaliveEvent
  <2>10. PICK v : v = CheckCaptureLimit(u)  OBVIOUS
  <2>11. v \in States /\ Calm(u, v) /\ Folding(v, n + 1, 0) /\ Times(v)
    BY <2>8, <2>10, LimitFacts DEF Taken
  <2>12. Calm(s, v)  BY <2>6, <2>8, <2>11 DEF Calm, Taken, Still
  <2> QED  BY <1>1, <1>3, <2>9, <2>10, <2>11, <2>12 DEF Event
<1> QED  BY <1>2, <1>3

(* The fold buffer has room here: data_event made it.                        *)
LEMMA FoldDataFacts ==
    ASSUME NEW s \in States, NEW n \in Nat, NEW f \in Entries, NEW pid,
           f.id = n, f.ts = s.p.ts, f.head <=> pid = "SOF" /\ EffectiveSpeed(s) # "LS",
           opts.fold, Folding(s, n, Ones(f)), Times(s), s.p.savedLs = "none",
           Len(s.p.foldBuf) < FoldBufSize
    PROVE  Taken(s, FoldData(s, f, pid), n) /\ Times(FoldData(s, f, pid))
<1>1. Account(s, n, Ones(f)) /\ s.p.ts \in Nat  BY StateType DEF Folding, Packets
<1>2. Timely(s, s.p.ts) /\ s.p.ts <= Reach(s)  BY NowTimely
<1>3. CASE s.p.foldBuf # <<>> /\ pid = "IN"
  <2>1. FoldData(s, f, pid) = FoldFrame(s, f)  BY <1>3 DEF FoldData
  <2>2. ~f.head  BY <1>3
  <2> QED  BY <1>1, <1>2, <1>3, <2>1, <2>2, FoldFrameFacts
<1>4. CASE s.p.foldBuf # <<>> /\ pid # "IN" /\ f.head
  <2>1. PICK limit : FoldData(s, f, pid) = CountAndFold(s, f, limit)  BY <1>4 DEF FoldData
  <2>2. Ones(f) = 1  BY <1>4 DEF Ones
  <2> QED  BY <1>1, <1>2, <1>4, <2>1, <2>2, CountAndFoldFacts
<1>5. CASE s.p.foldBuf # <<>> /\ pid # "IN" /\ ~f.head
  <2>1. PICK d : d = StopFolding(s)  OBVIOUS
  <2>2. FoldData(s, f, pid) = Put(d, s.p.ts, f)  BY <1>5, <2>1 DEF FoldData, WritePacket
  <2>3. Ones(f) = 0  BY <1>5 DEF Ones
  <2>4. Stopped(s, d, n, 0) /\ Times(d)  BY <1>1, <2>1, <2>3, StopFoldingFacts
  <2>5. d \in States /\ Timely(d, s.p.ts)
    <3>1. d \in States /\ d.p.ts = s.p.ts  BY <2>4 DEF Stopped, Still
    <3> QED  BY <2>4, <3>1, NowTimely
  <2>6. Taken(d, Put(d, s.p.ts, f), n) /\ Times(Put(d, s.p.ts, f))
    BY <1>1, <1>2, <2>3, <2>4, <2>5, WriteFrame DEF Stopped
  <2>7. PICK t : t = Put(d, s.p.ts, f)  OBVIOUS
  <2>8. Taken(s, t, n)  BY <2>4, <2>6, <2>7 DEF Taken, Stopped, Still
  <2> QED  BY <2>2, <2>6, <2>7, <2>8
<1>6. CASE s.p.foldBuf = <<>> /\ f.head
  <2>1. FoldData(s, f, pid) = FoldFrame(s, f)  BY <1>6 DEF FoldData
  <2> QED  BY <1>1, <1>2, <1>6, <2>1, FoldFrameFacts
<1>7. CASE s.p.foldBuf = <<>> /\ ~f.head
  <2>1. FoldData(s, f, pid) = Put(s, s.p.ts, f)  BY <1>7 DEF FoldData, WritePacket
  <2> QED  BY <1>1, <1>2, <1>7, <2>1, WriteFrame
<1> QED  BY <1>3, <1>4, <1>5, <1>6, <1>7

(* An info record, or none.                                                  *)
LEMMA MaybeInfo ==
    ASSUME NEW s \in States, NEW n \in Nat, NEW k, NEW b, Folding(s, n, k), Times(s),
           s.p.savedLs = "none"
    PROVE  LET t == IF b THEN CaptureInfo(s, s.p.ts) ELSE s
           IN /\ t \in States /\ Still(s, t) /\ t.p.savedLs = "none" /\ Folding(t, n, k)
              /\ Times(t) /\ t.p.foldBuf = s.p.foldBuf
<1>1. CASE b
  <2>1. PICK t : t = CaptureInfo(s, s.p.ts)  OBVIOUS
  <2>2. Told(s, t)  BY <2>1, CaptureInfoFacts
  <2> QED  BY <1>1, <2>1, <2>2, FoldingKept DEF Told, SameFold
<1>2. CASE ~b  BY <1>2 DEF Still
<1> QED  BY <1>1, <1>2

LEMMA DataFacts ==
    ASSUME NEW s \in States, This \in Nat, Folding(s, This, 0), Times(s), NEW pid
    PROVE  Event(s, DataEvent(s, pid), This)
<1>1. PICK n \in Nat : n = This  OBVIOUS
<1>2. CASE ~s.p.enabled
  <2>1. DataEvent(s, pid) = s  BY <1>2 DEF DataEvent
  <2>2. Folding(s, n + 1, 0)  BY <1>1, FoldingLater
  <2> QED  BY <1>1, <2>1, <2>2 DEF Event, Calm
<1>3. CASE s.p.enabled
  <2> DEFINE flags == s.p.flags
  <2>1. PICK starts \in BOOLEAN : starts = (pid = "SOF" /\ EffectiveSpeed(s) # "LS")  OBVIOUS
  <2>2. s.p.ts \in Nat /\ Len(s.p.foldBuf) \in Nat  BY StateType DEF Packets
  <2>3. PICK f : f = Frame(s, s.p.ts, starts, FALSE)  OBVIOUS
  <2>4. f \in Entries /\ f.id = n /\ f.ts = s.p.ts /\ f.head = starts
    BY <1>1, <2>2, <2>3 DEF Frame, Entries
  <2>5. PICK k \in {0, 1} : k = IF starts THEN 1 ELSE 0  OBVIOUS
  <2>6. Ones(f) = k  BY <2>4, <2>5 DEF Ones
  <2>7. PICK s0 : s0 = [s EXCEPT !.o.owed = @ + k]  OBVIOUS
  <2>8. s0 \in States /\ Still(s, s0) /\ Folding(s0, n, k) /\ Times(s0) /\ s0.p = s.p
    BY <1>1, <2>7, Accept DEF Owing
  <2>9. PICK s1 : s1 = LineStateEvent(s0)  OBVIOUS
  <2>10. Told(s0, s1)  BY <2>8, <2>9, LineStateFacts
  <2>11. /\ s1 \in States /\ Still(s, s1) /\ Folding(s1, n, k) /\ Times(s1)
         /\ s1.p.savedLs = "none" /\ s1.p.foldBuf = s.p.foldBuf
    <3>1. Folding(s1, n, k)  BY <2>8, <2>10, FoldingKept DEF Told
    <3> QED  BY <2>8, <2>10, <3>1 DEF Told, Still, SameFold
  <2>12. PICK s2 : s2 = IF flags # {} \/ Len(s.p.foldBuf) = FoldBufSize
                        THEN StopFolding(s1) ELSE s1
    OBVIOUS
  <2>13. /\ s2 \in States /\ Still(s, s2) /\ Folding(s2, n, k) /\ Times(s2)
         /\ s2.p.savedLs = "none" /\ Len(s2.p.foldBuf) < FoldBufSize
         /\ flags # {} => s2.p.foldBuf = <<>>
    <3>1. CASE flags # {} \/ Len(s.p.foldBuf) = FoldBufSize
      <4>1. Stopped(s1, s2, n, k) /\ Times(s2)
        BY <2>11, <2>12, <3>1, StopFoldingFacts DEF Folding
      <4>2. Len(s2.p.foldBuf) < FoldBufSize  BY <4>1, ConstantsAssumption DEF Stopped
      <4>3. Still(s, s2)  BY <2>11, <4>1 DEF Stopped, Still
      <4> QED  BY <4>1, <4>2, <4>3 DEF Stopped
    <3>2. CASE ~(flags # {} \/ Len(s.p.foldBuf) = FoldBufSize)
      <4>1. s2 = s1  BY <2>12, <3>2
      <4>2. Len(s.p.foldBuf) <= FoldBufSize  BY DEF Folding, Account
      <4>3. Len(s1.p.foldBuf) < FoldBufSize
        BY <2>2, <2>11, <3>2, <4>2, ConstantsAssumption
      <4> QED  BY <2>11, <3>2, <4>1, <4>3
    <3> QED  BY <3>1, <3>2
  <2>14. PICK s3 : s3 = IF "overflow" \in flags THEN CaptureInfo(s2, s.p.ts) ELSE s2
    OBVIOUS
  <2>15. /\ s3 \in States /\ Still(s2, s3) /\ s3.p.savedLs = "none" /\ Folding(s3, n, k)
         /\ Times(s3) /\ s3.p.foldBuf = s2.p.foldBuf
    <3>1. s2.p.ts = s.p.ts  BY <2>13 DEF Still
    <3> QED  BY <2>13, <2>14, <3>1, MaybeInfo
  <2>16. PICK s4 : s4 = IF "data" \in flags THEN CaptureInfo(s3, s.p.ts) ELSE s3  OBVIOUS
  <2>17. /\ s4 \in States /\ Still(s3, s4) /\ s4.p.savedLs = "none" /\ Folding(s4, n, k)
         /\ Times(s4) /\ s4.p.foldBuf = s3.p.foldBuf
    <3>1. s3.p.ts = s.p.ts  BY <2>13, <2>15 DEF Still
    <3> QED  BY <2>15, <2>16, <3>1, MaybeInfo
  <2>18. Still(s, s4)  BY <2>13, <2>15, <2>17 DEF Still
  <2>19. PICK u : u = IF flags \ {"overflow"} # {} \/ ~opts.fold
                      THEN WritePacket(s4, s.p.ts, f) ELSE FoldData(s4, f, pid)
    OBVIOUS
  <2>20. Taken(s4, u, n) /\ Times(u)
    <3>1. s4.p.ts = s.p.ts /\ EffectiveSpeed(s4) = EffectiveSpeed(s)
      BY <2>18 DEF Still, EffectiveSpeed
    <3>2. CASE flags \ {"overflow"} # {} \/ ~opts.fold
      <4>1. u = Put(s4, s.p.ts, f)  BY <2>19, <3>2 DEF WritePacket
      <4>2. s4.p.foldBuf = <<>>
        <5>1. flags # {} => s4.p.foldBuf = <<>>  BY <2>13, <2>15, <2>17
        <5>2. ~opts.fold => s4.p.foldBuf = <<>>  BY <2>17 DEF Folding, Account
        <5> QED  BY <3>2, <5>1, <5>2
      <4>3. Timely(s4, s.p.ts)  BY <2>17, <3>1, NowTimely
      <4> QED  BY <2>2, <2>4, <2>6, <2>17, <4>1, <4>2, <4>3, WriteFrame
    <3>3. CASE ~(flags \ {"overflow"} # {} \/ ~opts.fold)
      <4>1. u = FoldData(s4, f, pid) /\ opts.fold  BY <2>19, <3>3
      <4>2. f.ts = s4.p.ts /\ (f.head <=> pid = "SOF" /\ EffectiveSpeed(s4) # "LS")
        BY <2>1, <2>4, <3>1
      <4>3. Len(s4.p.foldBuf) < FoldBufSize  BY <2>13, <2>15, <2>17
      <4> QED  BY <2>4, <2>6, <2>17, <4>1, <4>2, <4>3, FoldDataFacts
    <3> QED  BY <3>2, <3>3
  <2>21. DataEvent(s, pid) = CheckCaptureLimit(u)
    BY <1>3, <2>1, <2>3, <2>5, <2>7, <2>9, <2>12, <2>14, <2>16, <2>19 DEF DataEvent
  <2>22. PICK v : v = CheckCaptureLimit(u)  OBVIOUS
  <2>23. v \in States /\ Calm(u, v) /\ Folding(v, n + 1, 0) /\ Times(v)
    BY <2>20, <2>22, LimitFacts DEF Taken
  <2>24. Calm(s, v)  BY <2>18, <2>20, <2>23 DEF Calm, Taken, Still
  <2> QED  BY <1>1, <1>3, <2>21, <2>22, <2>23, <2>24 DEF Event
<1> QED  BY <1>2, <1>3

-----------------------------------------------------------------------------
(* Status frames.                                                            *)

(* How the gate follows the trigger input.                                   *)
LEMMA GateFacts ==
    ASSUME NEW s \in States, NEW x \in {0, 1}, opts.trigger \in Triggers
    PROVE  /\ Gate(s, x) \in BOOLEAN
           /\ opts.trigger = "low"  => (Gate(s, x) <=> x = 0)
           /\ opts.trigger = "high" => (Gate(s, x) <=> x = 1)
           /\ opts.trigger = "disabled" => Gate(s, x)
           /\ opts.trigger \in {"falling", "rising"} /\ s.p.enabled => Gate(s, x)
<1>1. s.p.enabled \in BOOLEAN  BY StateType DEF Packets
<1>2. CASE opts.trigger = "disabled"  BY <1>2 DEF Gate
<1>3. CASE opts.trigger = "low"  BY <1>3 DEF Gate
<1>4. CASE opts.trigger = "high"  BY <1>4 DEF Gate
<1>5. CASE opts.trigger = "falling"  BY <1>1, <1>5 DEF Gate
<1>6. CASE opts.trigger = "rising"  BY <1>1, <1>6 DEF Gate
<1> QED  BY <1>2, <1>3, <1>4, <1>5, <1>6 DEF Triggers

(* The part of the trigger input that changes the gate.                      *)
Gating(s, x) == [s EXCEPT !.p.enabled = Gate(s, x), !.p.trigger = x]

LEMMA SetGate ==
    ASSUME NEW s \in States, NEW x \in {0, 1}, opts.trigger \in Triggers
    PROVE  LET t == Gating(s, x)
           IN /\ Aside(s, t) /\ (t.p.enabled <=> Gate(s, x)) /\ t.p.trigger = x
              /\ t.p.done = s.p.done /\ t.p.payload = s.p.payload
<1>1. PICK pp \in Packets, oo \in Outputs : s = [p |-> pp, o |-> oo]  BY StateType
<1>2. PICK b \in BOOLEAN : b = Gate(s, x)  BY GateFacts
<1>3. PICK t : t = [s EXCEPT !.p.enabled = b, !.p.trigger = x]  OBVIOUS
<1>4. t = [p |-> [pp EXCEPT !.enabled = b, !.trigger = x], o |-> oo]  BY <1>1, <1>3
<1>5. t \in States
  <2>1. t.p \in Packets  BY <1>4 DEF Packets
  <2> QED  BY <1>4, <2>1 DEF States
<1>6. /\ Aside(s, t) /\ t.p.enabled = b /\ t.p.trigger = x /\ t.p.done = s.p.done
      /\ t.p.payload = s.p.payload
  BY <1>1, <1>4, <1>5 DEF Aside, Packets
<1>7. t = Gating(s, x)  BY <1>2, <1>3 DEF Gating
<1> QED  BY <1>2, <1>6, <1>7

LEMMA SetVbus ==
    ASSUME NEW s \in States, NEW x \in {0, 1}
    PROVE  LET t == [s EXCEPT !.p.vbus = x] IN Aside(s, t) /\ Still(s, t)
<1>1. PICK pp \in Packets, oo \in Outputs : s = [p |-> pp, o |-> oo]  BY StateType
<1>2. PICK t : t = [s EXCEPT !.p.vbus = x]  OBVIOUS
<1>3. t = [p |-> [pp EXCEPT !.vbus = x], o |-> oo]  BY <1>1, <1>2
<1>4. t \in States
  <2>1. t.p \in Packets  BY <1>3 DEF Packets
  <2> QED  BY <1>3, <2>1 DEF States
<1>5. Still(s, t) /\ Aside(s, t)  BY <1>1, <1>3, <1>4 DEF Still, Aside, Packets
<1> QED  BY <1>2, <1>5

LEMMA SetSpeed ==
    ASSUME NEW s \in States, NEW x \in Speeds
    PROVE  LET t == [s EXCEPT !.p.speed = x]
           IN Aside(s, t) /\ Calm(s, t) /\ t.p.done = s.p.done
<1>1. PICK pp \in Packets, oo \in Outputs : s = [p |-> pp, o |-> oo]  BY StateType
<1>2. PICK t : t = [s EXCEPT !.p.speed = x]  OBVIOUS
<1>3. t = [p |-> [pp EXCEPT !.speed = x], o |-> oo]  BY <1>1, <1>2
<1>4. t \in States
  <2>1. t.p \in Packets  BY <1>3 DEF Packets
  <2> QED  BY <1>3, <2>1 DEF States
<1>5. Calm(s, t) /\ Aside(s, t) /\ t.p.done = s.p.done
  BY <1>1, <1>3, <1>4 DEF Calm, Aside, Packets
<1> QED  BY <1>2, <1>5

LEMMA SetLs ==
    ASSUME NEW s \in States, NEW x \in LineStates
    PROVE  LET t == [s EXCEPT !.p.ls = x] IN Aside(s, t) /\ Still(s, t)
<1>1. PICK pp \in Packets, oo \in Outputs : s = [p |-> pp, o |-> oo]  BY StateType
<1>2. PICK t : t = [s EXCEPT !.p.ls = x]  OBVIOUS
<1>3. t = [p |-> [pp EXCEPT !.ls = x], o |-> oo]  BY <1>1, <1>2
<1>4. t \in States
  <2>1. t.p \in Packets  BY <1>3 DEF Packets
  <2> QED  BY <1>3, <2>1 DEF States
<1>5. Still(s, t) /\ Aside(s, t)  BY <1>1, <1>3, <1>4 DEF Still, Aside, Packets
<1> QED  BY <1>2, <1>5

(* While the capture is enabled a line state is held back for no longer than *)
(* the update interval, and what the clock may have gone back.               *)
Window(s) == s.p.enabled /\ s.p.savedLs # "none" =>
                 s.p.ts - s.p.savedTs < UpdateInterval + TsRange

(* What the first three parts of a status event leave alone.                 *)
Reported(s, t) ==
    /\ t \in States /\ SameFold(s, t) /\ t.p.ts = s.p.ts /\ t.p.payload = s.p.payload
    /\ t.o.keepOk = s.o.keepOk
    /\ Times(s) => Times(t)
    /\ Window(s) => Window(t)

Steady(s, t) == t.p.trigger = s.p.trigger /\ t.p.enabled = s.p.enabled

LEMMA InfoReported ==
    ASSUME NEW s \in States
    PROVE  LET t == CaptureInfo(s, s.p.ts)
           IN Reported(s, t) /\ Steady(s, t) /\ t.p.savedLs = "none"
<1>1. PICK t : t = CaptureInfo(s, s.p.ts)  OBVIOUS
<1>2. Told(s, t)  BY <1>1, CaptureInfoFacts
<1>3. Window(t)  BY <1>2 DEF Told, Window
<1> QED  BY <1>1, <1>2, <1>3 DEF Told, Still, Reported, Steady

LEMMA ReportedTwice ==
    ASSUME NEW s, NEW t, NEW u, Reported(s, t), Reported(t, u)
    PROVE  Reported(s, u)
BY DEF Reported, SameFold

LEMMA TriggerFacts ==
    ASSUME NEW s \in States, NEW x \in {0, 1}, opts.trigger \in Triggers
    PROVE  LET t == TriggerChange(s, x)
           IN /\ Reported(s, t)
              /\ \A a : Gated(s, a) => Gated(t, a)
              /\ opts.trigger \in {"falling", "rising"} /\ s.p.enabled => t.p.enabled
<1>1. CASE s.p.trigger = x  BY <1>1 DEF TriggerChange, Reported, SameFold
<1>2. CASE s.p.trigger # x
  <2>1. PICK b \in BOOLEAN : b = Gate(s, x)  BY GateFacts
  <2>2. PICK g : g = Gating(s, x)  OBVIOUS
  <2>3. /\ Aside(s, g) /\ g.p.enabled = b /\ g.p.trigger = x
        /\ g.p.payload = s.p.payload /\ g \in States /\ g.p.ts = s.p.ts
    <3>1. /\ Aside(s, g) /\ (g.p.enabled <=> Gate(s, x)) /\ g.p.trigger = x
          /\ g.p.payload = s.p.payload
      BY <2>2, SetGate
    <3>2. g \in States /\ g.p.enabled \in BOOLEAN /\ g.p.ts = s.p.ts
      BY <3>1, StateType DEF Aside, Packets
    <3> QED  BY <2>1, <3>1, <3>2
  <2>4. PICK t : t = CaptureInfo(g, g.p.ts)  OBVIOUS
  <2>5. Told(g, t) /\ t \in States  BY <2>3, <2>4, CaptureInfoFacts DEF Told
  <2>6. /\ t.p.enabled = b /\ t.p.trigger = x /\ t.p.payload = s.p.payload
        /\ t.p.ts = s.p.ts /\ t.o.keepOk = s.o.keepOk /\ t.p.savedLs = "none"
    BY <2>3, <2>5 DEF Told, Still, Aside
  <2>7. SameFold(s, t) /\ (Times(s) => Times(t))
    <3>1. SameFold(s, g) /\ (Times(s) => Times(g))  BY <2>3, AsideFacts
    <3> QED  BY <2>5, <3>1 DEF Told, SameFold
  <2>8. Reported(s, t)
    <3>1. Window(t)  BY <2>6 DEF Window
    <3> QED  BY <2>5, <2>6, <2>7, <3>1 DEF Reported
  <2>9. PICK u : u = IF t.p.enabled # s.p.enabled THEN CaptureInfo(t, t.p.ts) ELSE t
    OBVIOUS
  <2>10. Reported(t, u) /\ Steady(t, u)
    <3>1. CASE t.p.enabled # s.p.enabled  BY <2>5, <2>9, <3>1, InfoReported
    <3>2. CASE t.p.enabled = s.p.enabled
      BY <2>5, <2>9, <3>2 DEF Reported, Steady, SameFold
    <3> QED  BY <3>1, <3>2
  <2>11. TriggerChange(s, x) = u
    BY <1>2, <2>2, <2>3, <2>4, <2>6, <2>9 DEF TriggerChange, Gating
  <2>12. Reported(s, u)  BY <2>8, <2>10, ReportedTwice
  <2>13. u.p.enabled = b /\ u.p.trigger = x  BY <2>6, <2>10 DEF Steady
  <2>14. ASSUME NEW a PROVE Gated(u, a)  BY <2>1, <2>13, GateFacts DEF Gated
  <2>15. opts.trigger \in {"falling", "rising"} /\ s.p.enabled => u.p.enabled
    BY <2>1, <2>13, GateFacts
  <2> QED  BY <2>11, <2>12, <2>14, <2>15
<1> QED  BY <1>1, <1>2

LEMMA VbusFacts ==
    ASSUME NEW s \in States, NEW x \in {0, 1}
    PROVE  Reported(s, VbusChange(s, x)) /\ Steady(s, VbusChange(s, x))
<1>1. CASE s.p.vbus = x  BY <1>1 DEF VbusChange, Reported, SameFold, Steady
<1>2. CASE s.p.vbus # x
  <2>1. PICK g : g = [s EXCEPT !.p.vbus = x]  OBVIOUS
  <2>2. Aside(s, g) /\ Still(s, g) /\ g \in States /\ g.p.ts = s.p.ts
    BY <2>1, SetVbus DEF Aside
  <2>3. Reported(s, g) /\ Steady(s, g)
    <3>1. SameFold(s, g) /\ (Times(s) => Times(g))  BY <2>2, AsideFacts
    <3> QED  BY <2>2, <3>1 DEF Aside, Still, Reported, Steady, Window
  <2>4. PICK t : t = CaptureInfo(g, g.p.ts)  OBVIOUS
  <2>5. Reported(g, t) /\ Steady(g, t)  BY <2>2, <2>4, InfoReported
  <2>6. VbusChange(s, x) = t  BY <1>2, <2>1, <2>2, <2>4 DEF VbusChange
  <2>7. Steady(s, t)  BY <2>3, <2>5 DEF Steady
  <2> QED  BY <2>3, <2>5, <2>6, <2>7, ReportedTwice
<1> QED  BY <1>1, <1>2

LEMMA SpeedFacts ==
    ASSUME NEW s \in States, NEW x \in Speeds
    PROVE  Reported(s, SpeedChange(s, x)) /\ Steady(s, SpeedChange(s, x))
<1>1. CASE s.p.speed = x  BY <1>1 DEF SpeedChange, Reported, SameFold, Steady
<1>2. CASE s.p.speed # x
  <2>1. PICK g : g = [s EXCEPT !.p.speed = x]  OBVIOUS
  <2>2. Aside(s, g) /\ Calm(s, g) /\ g \in States /\ g.p.ts = s.p.ts
    BY <2>1, SetSpeed DEF Aside
  <2>3. Reported(s, g) /\ Steady(s, g)
    <3>1. SameFold(s, g) /\ (Times(s) => Times(g))  BY <2>2, AsideFacts
    <3> QED  BY <2>2, <3>1 DEF Aside, Calm, Reported, Steady, Window
  <2>4. PICK t : t = CaptureInfo(g, g.p.ts)  OBVIOUS
  <2>5. Reported(g, t) /\ Steady(g, t)  BY <2>2, <2>4, InfoReported
  <2>6. SpeedChange(s, x) = IF s.p.enabled THEN t ELSE g
    BY <1>2, <2>1, <2>2, <2>4 DEF SpeedChange
  <2>7. Steady(s, t)  BY <2>3, <2>5 DEF Steady
  <2> QED  BY <2>3, <2>5, <2>6, <2>7, ReportedTwice
<1> QED  BY <1>1, <1>2

(* The line state is dropped since it was a part of a keep-alive.            *)
LEMMA DropKeepalive ==
    ASSUME NEW s \in States, s.o.keepOk
    PROVE  LET t == [s EXCEPT !.p.savedLs = "none", !.o.keepOk = TRUE]
           IN Told(s, t) /\ SameCause(s, t) /\ t.p.lastTs = s.p.lastTs
<1>1. PICK pp \in Packets, oo \in Outputs : s = [p |-> pp, o |-> oo]  BY StateType
<1>2. PICK t : t = [s EXCEPT !.p.savedLs = "none", !.o.keepOk = TRUE]  OBVIOUS
<1>3. t = [p |-> [pp EXCEPT !.savedLs = "none"], o |-> [oo EXCEPT !.keepOk = TRUE]]
  BY <1>1, <1>2
<1>4. t \in States
  <2>1. t.p \in Packets  BY <1>3 DEF Packets
  <2>2. t.o \in Outputs  BY <1>3 DEF Outputs
  <2> QED  BY <1>3, <2>1, <2>2 DEF States
<1>5. /\ t.p.done = s.p.done /\ t.p.trigger = s.p.trigger /\ t.p.speed = s.p.speed
      /\ t.p.enabled = s.p.enabled /\ t.p.ts = s.p.ts /\ t.p.savedTs = s.p.savedTs
      /\ t.p.payload = s.p.payload /\ t.p.flags = s.p.flags
      /\ t.p.foldBuf = s.p.foldBuf /\ t.p.foldCount = s.p.foldCount
      /\ t.p.savedLs = "none" /\ t.p.lastTs = s.p.lastTs
      /\ t.p.tsInt = s.p.tsInt
  BY <1>1, <1>3 DEF Packets
<1>6. /\ t.o.savedCause = s.o.savedCause /\ t.o.owed = s.o.owed
      /\ t.o.lastFrame = s.o.lastFrame /\ t.o.inOrder = s.o.inOrder
      /\ t.o.lastTs = s.o.lastTs /\ t.o.ordered = s.o.ordered /\ SameCause(s, t)
      /\ t.o.slack = s.o.slack
  BY <1>1, <1>3 DEF Outputs, SameCause
<1>7. t.o.keepOk = s.o.keepOk
  <2>1. s.o.keepOk \in BOOLEAN  BY StateType DEF Outputs
  <2>2. s.o.keepOk = TRUE  BY <2>1
  <2>3. t.o.keepOk = TRUE  BY <1>1, <1>3 DEF Outputs
  <2> QED  BY <2>2, <2>3
<1>8. Still(s, t) /\ SameFold(s, t)  BY <1>5, <1>6, <1>7 DEF Still, SameFold
<1>9. Times(s) => Times(t)  BY <1>5, <1>6, <1>8, SameReach DEF Times
<1> QED  BY <1>2, <1>4, <1>5, <1>6, <1>8, <1>9 DEF Told

(* The new line state is held back.                                          *)
LEMMA SaveLine ==
    ASSUME NEW s \in States, NEW x \in LineStates, NEW ts \in Nat
    PROVE  LET t == [s EXCEPT !.p.savedLs = x, !.p.savedTs = ts]
           IN /\ t \in States /\ Calm(s, t) /\ SameFold(s, t)
              /\ Times(s) /\ ts = s.p.ts => Times(t)
<1>1. PICK pp \in Packets, oo \in Outputs : s = [p |-> pp, o |-> oo]  BY StateType
<1>2. PICK t : t = [s EXCEPT !.p.savedLs = x, !.p.savedTs = ts]  OBVIOUS
<1>3. t = [p |-> [pp EXCEPT !.savedLs = x, !.savedTs = ts], o |-> oo]  BY <1>1, <1>2
<1>4. t \in States
  <2>1. t.p \in Packets  BY <1>3 DEF Packets
  <2> QED  BY <1>3, <2>1 DEF States
<1>5. Calm(s, t) /\ SameFold(s, t) /\ t.o = s.o /\ t.p.lastTs = s.p.lastTs /\ t.p.savedTs = ts
      /\ t.p.tsInt = s.p.tsInt
  BY <1>1, <1>3 DEF Calm, SameFold, Packets
<1>6. ASSUME Times(s), ts = s.p.ts PROVE Times(t)
  <2>1. t.p.ts = s.p.ts /\ t.p.foldBuf = s.p.foldBuf  BY <1>5 DEF Calm, SameFold
  <2>2. Reach(t) = Reach(s) /\ t.o.slack = s.o.slack  BY <1>5, <2>1 DEF Reach
  <2>3. Timely(t, t.p.savedTs)
    <3>1. Timely(s, ts)  BY <1>6, NowTimely
    <3> QED  BY <1>5, <2>2, <3>1 DEF Timely
  <2> QED  BY <1>5, <1>6, <2>1, <2>2, <2>3 DEF Times
<1> QED  BY <1>2, <1>4, <1>5, <1>6

(* As the older device saves it, with the frame it is about.                 *)
SavedLine(s, x, ts, c) == [s EXCEPT !.p.savedLs = x, !.p.savedTs = ts, !.o.savedCause = c]

LEMMA SaveLineCause ==
    ASSUME NEW s \in States, NEW x \in LineStates, NEW ts \in Nat, NEW c \in Nat
    PROVE  LET u == SavedLine(s, x, ts, c)
           IN /\ u \in States /\ Calm(s, u) /\ SameFold(s, u) /\ u.p.done = s.p.done
              /\ SameCause(s, u) /\ u.o.savedCause = c
<1>1. PICK pp \in Packets, oo \in Outputs : s = [p |-> pp, o |-> oo]  BY StateType
<1>2. PICK u : u = [s EXCEPT !.p.savedLs = x, !.p.savedTs = ts, !.o.savedCause = c]
  OBVIOUS
<1>3. u = [p |-> [pp EXCEPT !.savedLs = x, !.savedTs = ts],
           o |-> [oo EXCEPT !.savedCause = c]]
  BY <1>1, <1>2
<1>4. u \in States
  <2>1. u.p \in Packets  BY <1>3 DEF Packets
  <2>2. u.o \in Outputs  BY <1>3 DEF Outputs
  <2> QED  BY <1>3, <2>1, <2>2 DEF States
<1>5. Calm(s, u) /\ u.p.done = s.p.done  BY <1>1, <1>3 DEF Calm, Packets, Outputs
<1>6. SameFold(s, u)  BY <1>1, <1>3 DEF SameFold, Packets, Outputs
<1>7. SameCause(s, u) /\ u.o.savedCause = c  BY <1>1, <1>3 DEF SameCause, Outputs
<1> QED  BY <1>2, <1>4, <1>5, <1>6, <1>7 DEF SavedLine

LEMMA LineFacts ==
    ASSUME NEW s \in States, This \in Nat, Folding(s, This, 0), Times(s), Window(s),
           s.o.keepOk, NEW ls \in LineStates
    PROVE  Event(s, LineChange(s, ls), This)
<1>1. PICK n \in Nat : n = This  OBVIOUS
<1>2. Folding(s, n + 1, 0)  BY <1>1, FoldingLater
<1>3. CASE s.p.ls = ls
  <2>1. LineChange(s, ls) = s  BY <1>3 DEF LineChange
  <2> QED  BY <1>1, <1>2, <2>1 DEF Event, Calm
<1>4. CASE s.p.ls # ls
  <2>1. PICK t : t = [s EXCEPT !.p.ls = ls]  OBVIOUS
  <2>2. Aside(s, t) /\ Still(s, t) /\ t \in States  BY <2>1, SetLs DEF Aside
  <2>3. /\ Folding(t, n, 0) /\ Folding(t, n + 1, 0) /\ Times(t)
        /\ t.p.ts = s.p.ts /\ t.p.savedTs = s.p.savedTs /\ t.p.savedLs = s.p.savedLs
        /\ t.p.lastTs = s.p.lastTs /\ t.o.keepOk /\ t.o.lastFrame = s.o.lastFrame
    BY <1>1, <1>2, <2>2, AsideFacts, FoldingKept DEF Aside
  <2>4. s.p.ts \in Nat /\ s.p.savedTs \in Nat /\ s.p.lastTs \in Nat  BY StateType DEF Packets
  <2> DEFINE span == s.p.ts - s.p.savedTs
             keep == /\ EffectiveSpeed(s) = "LS" /\ s.p.savedLs = "SE0" /\ ls = "J3"
                     /\ KeepMin < span % IntRange /\ span % IntRange < KeepMax
  <2>5. CASE keep
    <3>1. s.p.savedLs # "none"  BY <2>5
    <3>2. Timely(s, s.p.savedTs)  BY <3>1 DEF Times
    <3>3. s.p.enabled => KeepMin < span /\ span < KeepMax
      <4>1. SUFFICES ASSUME s.p.enabled PROVE KeepMin < span /\ span < KeepMax  OBVIOUS
      <4>2. span < UpdateInterval + TsRange  BY <3>1, <4>1 DEF Window
      <4>3. /\ IntRange \in Nat /\ UpdateInterval \in Nat /\ TsRange \in Nat /\ TsRange > 0
            /\ KeepMax \in Nat /\ KeepMax <= UpdateInterval
            /\ UpdateInterval + TsRange <= IntRange
        BY ConstantsAssumption
      <4>4. s.p.savedTs <= s.p.ts + s.o.slack /\ s.o.slack \in {0, TsRange - 1}
        <5>1. s.o.slack \in {0, TsRange - 1}  BY DEF Times, Pace
        <5>2. /\ s.p.savedTs <= Reach(s) /\ Reach(s) \in Nat
              /\ Reach(s) <= s.p.ts + s.o.slack
          BY <3>2, NowTimely DEF Timely
        <5> QED  BY <2>4, <4>3, <5>1, <5>2
      <4>5. span \in Int /\ -TsRange < span /\ span < IntRange
        BY <2>4, <4>2, <4>3, <4>4
      <4>6. KeepMin < span % IntRange /\ span % IntRange < KeepMax  BY <2>5
      <4> HIDE DEF span, keep
      <4>7. CASE span >= 0
        <5>1. \A a, m \in Nat : a < m => a % m = a  OBVIOUS
        <5>2. span % IntRange = span  BY <4>3, <4>5, <4>7, <5>1
        <5> QED  BY <4>6, <5>2
      <4>8. CASE span < 0
        <5>1. \A a \in Int, m \in Nat : a < 0 /\ -a < m => a % m = a + m  OBVIOUS
        <5>2. -span < IntRange  BY <4>3, <4>5
        <5>3. span % IntRange = span + IntRange  BY <4>3, <4>5, <4>8, <5>1, <5>2
        <5>4. span + IntRange > UpdateInterval  BY <4>3, <4>5
        <5> QED  BY <4>3, <4>5, <4>6, <5>3, <5>4
      <4> QED  BY <4>5, <4>7, <4>8
    <3>4. PICK d : d = [t EXCEPT !.p.savedLs = "none", !.o.keepOk = TRUE]  OBVIOUS
    <3>5. d = [t EXCEPT !.p.savedLs = "none",
                        !.o.keepOk = @ /\ (s.p.enabled => KeepMin < span /\ span < KeepMax)]
      BY <2>3, <3>3, <3>4
    <3>6. LineChange(s, ls) = KeepaliveEvent(d, s.p.savedTs)
      BY <1>4, <2>1, <2>5, <3>5 DEF LineChange
    <3>7. Told(t, d) /\ d.p.lastTs = t.p.lastTs  BY <2>2, <2>3, <3>4, DropKeepalive
    <3>8. /\ d \in States /\ Folding(d, n, 0) /\ Times(d) /\ d.p.savedLs = "none"
          /\ Timely(d, s.p.savedTs)
      <4>1. Still(s, d)  BY <2>2, <3>7 DEF Told, Still
      <4>2. Timely(d, s.p.savedTs)  BY <2>3, <3>2, <3>7, <4>1, SameReach
      <4> QED  BY <2>3, <3>7, <4>2, FoldingKept DEF Told
    <3>9. Event(d, KeepaliveEvent(d, s.p.savedTs), n)
      BY <1>1, <2>4, <3>8, KeepaliveFacts
    <3>10. PICK v : v = KeepaliveEvent(d, s.p.savedTs)  OBVIOUS
    <3>11. Calm(s, v) /\ (~s.p.enabled => v.o.lastFrame = s.o.lastFrame)
      BY <2>2, <2>3, <3>7, <3>9, <3>10 DEF Event, Calm, Told, Still, SameFold
    <3> QED  BY <1>1, <3>6, <3>9, <3>10, <3>11 DEF Event
  <2>6. CASE ~keep
    <3>1. PICK d : d = LineStateEvent(t)  OBVIOUS
    <3>2. Told(t, d) /\ d \in States  BY <2>2, <3>1, LineStateFacts DEF Told
    <3>3. PICK v : v = [d EXCEPT !.p.savedLs = ls, !.p.savedTs = s.p.ts]  OBVIOUS
    <3>4. LineChange(s, ls) = v  BY <1>4, <2>1, <2>6, <3>1, <3>3 DEF LineChange
    <3>5. d.p.ts = s.p.ts /\ Times(d) /\ Folding(d, n + 1, 0)
      BY <2>3, <3>2, FoldingKept DEF Told, Still
    <3>6. v \in States /\ Calm(d, v) /\ SameFold(d, v) /\ Times(v)
      BY <2>4, <3>2, <3>3, <3>5, SaveLine
    <3>7. Folding(v, n + 1, 0)  BY <3>5, <3>6, FoldingKept
    <3>8. Calm(s, v) /\ v.o.lastFrame = s.o.lastFrame
      BY <2>2, <2>3, <3>2, <3>6 DEF Calm, Told, Still, SameFold
    <3> QED  BY <1>1, <3>4, <3>6, <3>7, <3>8 DEF Event
  <2> QED  BY <2>5, <2>6
<1> QED  BY <1>3, <1>4

(* The new time stamp: nothing but the clock moves.                          *)
Moved(s, t) ==
    /\ t \in States /\ SameFold(s, t) /\ t.p.done = s.p.done /\ t.p.trigger = s.p.trigger
    /\ t.p.enabled = s.p.enabled /\ t.p.payload = s.p.payload
    /\ t.o.keepOk = s.o.keepOk /\ t.o.savedCause = s.o.savedCause

LEMMA NowFacts ==
    ASSUME Now \in States
    PROVE  /\ p \in Packets /\ o \in Outputs /\ Now.p = p /\ Now.o = o
           /\ p.ts \in Nat /\ p.lastTs \in Nat /\ p.savedTs \in Nat
<1>1. p \in Packets /\ o \in Outputs /\ Now.p = p /\ Now.o = o  BY StateType DEF Now
<1> QED  BY <1>1 DEF Packets

LEMMA Clock ==
    ASSUME Now \in States, NEW c \in Clocks
    PROVE  LET t == Stamp(c)
           IN /\ Moved(Now, t) /\ SameCause(Now, t) /\ t.p.savedLs = p.savedLs
              /\ Times(Now) => Times(t)
<1>1. /\ p \in Packets /\ o \in Outputs /\ Now.p = p /\ Now.o = o /\ p.ts \in Nat
      /\ p.lastTs \in Nat /\ p.savedTs \in Nat /\ p.tsInt \in Nat /\ o.slack \in Nat
  BY NowFacts DEF Packets, Outputs
<1>2. TsRange \in Nat /\ TsRange > 0 /\ c[1] \in {0, 1} /\ c[2] \in 0 .. TsRange - 1
  BY ConstantsAssumption
<1>3. PICK int \in Nat : int = p.tsInt + c[1] * TsRange  BY <1>1, <1>2
<1>4. PICK x \in Nat : x = int + c[2]  BY <1>2, <1>3
<1>5. int >= p.tsInt /\ int <= x /\ x < int + TsRange  BY <1>1, <1>2, <1>3, <1>4
<1>6. PICK k \in Nat : k = IF x < p.ts THEN TsRange - 1 ELSE o.slack  BY <1>1, <1>2
<1>7. PICK t : t = [p |-> [p EXCEPT !.tsInt = int, !.ts = x], o |-> [o EXCEPT !.slack = k]]
  OBVIOUS
<1>8. t = Stamp(c)  BY <1>3, <1>4, <1>6, <1>7 DEF Stamp
<1>9. t \in States
  <2>1. [p EXCEPT !.tsInt = int, !.ts = x] \in Packets  BY <1>1 DEF Packets
  <2>2. [o EXCEPT !.slack = k] \in Outputs  BY <1>1 DEF Outputs
  <2> QED  BY <1>7, <2>1, <2>2 DEF States
<1>10. /\ t.p.done = p.done /\ t.p.trigger = p.trigger /\ t.p.enabled = p.enabled
       /\ t.p.payload = p.payload /\ t.p.foldBuf = p.foldBuf /\ t.p.foldCount = p.foldCount
       /\ t.p.tsInt = int /\ t.p.ts = x /\ t.p.lastTs = p.lastTs
       /\ t.p.savedLs = p.savedLs /\ t.p.savedTs = p.savedTs
  BY <1>1, <1>7 DEF Packets
<1>11. /\ t.o.slack = k /\ t.o.owed = o.owed /\ t.o.lastFrame = o.lastFrame
       /\ t.o.inOrder = o.inOrder /\ t.o.keepOk = o.keepOk /\ t.o.savedCause = o.savedCause
       /\ t.o.lastTs = o.lastTs /\ t.o.ordered = o.ordered /\ t.o.lastCause = o.lastCause
       /\ t.o.causal = o.causal /\ t.o.foldCause = o.foldCause
  BY <1>1, <1>7 DEF Outputs
<1>12. Moved(Now, t)  BY <1>1, <1>9, <1>10, <1>11 DEF Moved, SameFold
<1>13. SameCause(Now, t)  BY <1>1, <1>11 DEF SameCause
<1>14. ASSUME Times(Now) PROVE Times(t)
  <2>1. /\ o.ordered /\ o.lastTs = p.lastTs /\ p.lastTs <= Reach(Now)
        /\ p.savedLs # "none" => Timely(Now, p.savedTs)
        /\ \A i \in 1 .. Len(p.foldBuf) : p.foldBuf[i].ts <= Reach(Now)
        /\ Pace(p.tsInt, p.ts, o.slack)
    BY <1>1, <1>14 DEF Times
  <2>2. PICK far \in Nat : far = Reach(Now)  BY <1>14, NowTimely
  <2>3. far = IF o.slack = 0 THEN p.ts ELSE p.tsInt + TsRange - 1
    BY <1>1, <2>2 DEF Reach, Far
  <2>4. /\ o.slack \in {0, TsRange - 1} /\ p.tsInt <= p.ts /\ p.ts < p.tsInt + TsRange
    BY <2>1 DEF Pace
  <2>5. k \in {0, TsRange - 1} /\ o.slack <= k  BY <1>2, <1>6, <2>4
  <2>6. PICK new : new = IF k = 0 THEN x ELSE int + TsRange - 1  OBVIOUS
  <2>7. /\ new \in Nat /\ far <= new /\ x <= new /\ new <= x + k
    <3>1. CASE k = 0
      <4>1. o.slack = 0 /\ x >= p.ts
        BY <1>1, <1>2, <1>5, <1>6, <2>4, <2>5, <3>1
      <4> QED  BY <1>1, <2>3, <2>6, <3>1, <4>1
    <3>2. CASE k # 0
      <4>1. k = TsRange - 1 /\ new = int + TsRange - 1  BY <2>5, <2>6, <3>2
      <4> QED  BY <1>1, <1>2, <1>5, <2>3, <2>4, <4>1
    <3> QED  BY <3>1, <3>2
  <2>8. Far(int, x, k) = new  BY <2>6 DEF Far
  <2>9. Pace(int, x, k) /\ Reach(t) = new
    BY <1>5, <1>10, <1>11, <2>5, <2>7, <2>8 DEF Pace, Reach
  <2>10. \A a \in Nat : a <= far => a <= new  BY <2>7
  <2>11. p.lastTs <= new /\ \A i \in 1 .. Len(p.foldBuf) : p.foldBuf[i].ts <= new
    <3>1. p.foldBuf \in Seq(Entries)  BY <1>1 DEF Packets
    <3>2. \A i \in 1 .. Len(p.foldBuf) : p.foldBuf[i] \in Entries  BY <3>1
    <3>3. \A i \in 1 .. Len(p.foldBuf) : p.foldBuf[i].ts \in Nat  BY <3>2 DEF Entries
    <3> QED  BY <1>1, <2>1, <2>2, <2>10, <3>3
  <2>12. p.savedLs # "none" => Timely(t, p.savedTs)
    <3>1. SUFFICES ASSUME p.savedLs # "none" PROVE Timely(t, p.savedTs)  OBVIOUS
    <3>2. p.lastTs <= p.savedTs + o.slack /\ p.savedTs <= far
      BY <1>1, <2>1, <2>2, <3>1 DEF Timely
    <3>3. p.lastTs <= p.savedTs + k /\ p.savedTs <= new  BY <1>1, <2>5, <2>10, <3>2
    <3> QED  BY <1>10, <1>11, <2>9, <3>3 DEF Timely
  <2> QED  BY <1>10, <1>11, <2>1, <2>9, <2>11, <2>12 DEF Times
<1> QED  BY <1>8, <1>10, <1>12, <1>13, <1>14

LEMMA TickFacts ==
    ASSUME Now \in States, Times(Now), NEW c \in Clocks
    PROVE  LET t == Tick(c) IN Moved(Now, t) /\ Times(t) /\ Window(t)
<1>1. UpdateInterval \in Nat /\ TsRange \in Nat /\ TsRange > 0  BY ConstantsAssumption
<1>2. PICK s : s = Stamp(c)  OBVIOUS
<1>3. Moved(Now, s) /\ Times(s) /\ s \in States  BY <1>2, Clock DEF Moved
<1>4. s.p.ts \in Nat /\ s.p.lastTs \in Nat /\ s.p.savedTs \in Nat
  BY <1>3, StateType DEF Packets
<1>5. Tick(c) = IF s.p.ts - s.p.lastTs > UpdateInterval THEN TimeoutEvent(s) ELSE s
  BY <1>2 DEF Tick
<1>6. CASE ~(s.p.ts - s.p.lastTs > UpdateInterval)
  <2>1. s.p.savedLs # "none" => s.p.lastTs <= s.p.savedTs + s.o.slack
    BY <1>3 DEF Times, Timely
  <2>2. s.o.slack \in {0, TsRange - 1}  BY <1>3 DEF Times, Pace
  <2>3. s.p.savedLs # "none" => s.p.ts - s.p.savedTs < UpdateInterval + TsRange
    BY <1>1, <1>4, <1>6, <2>1, <2>2
  <2>4. Window(s)  BY <2>3 DEF Window
  <2> QED  BY <1>3, <1>5, <1>6, <2>4
<1>7. CASE s.p.ts - s.p.lastTs > UpdateInterval /\ ~s.p.enabled
  <2>1. Tick(c) = s  BY <1>5, <1>7 DEF TimeoutEvent
  <2> QED  BY <1>3, <1>7, <2>1 DEF Window
<1>8. CASE s.p.ts - s.p.lastTs > UpdateInterval /\ s.p.enabled
  <2>1. PICK t : t = CaptureInfo(s, s.p.ts)  OBVIOUS
  <2>2. Tick(c) = t  BY <1>5, <1>8, <2>1 DEF TimeoutEvent
  <2>3. Told(s, t)  BY <1>3, <2>1, CaptureInfoFacts
  <2>4. Times(t) /\ Window(t)  BY <1>3, <2>3 DEF Told, Window
  <2>5. Moved(Now, t)  BY <1>3, <2>3 DEF Moved, Told, Still, SameFold
  <2> QED  BY <2>2, <2>4, <2>5
<1> QED  BY <1>6, <1>7, <1>8

-----------------------------------------------------------------------------
(* The actions of the newer device.                                          *)

(* What the gate allows a step to do.                                        *)
Allowed(s, t) ==
    /\ opts.trigger \in {"falling", "rising"} /\ s.p.enabled => t.p.enabled
    /\ t.o.lastFrame # s.o.lastFrame => t.p.enabled \/ (opts.gen = 1 /\ s.p.enabled)

Preserved == /\ opts' = opts /\ Sound(Now', frames', announced') /\ Allowed(Now, Now')

LEMMA OptsFacts ==
    ASSUME opts \in Cases
    PROVE  /\ opts.trigger \in Triggers /\ opts.inputs \subseteq {0, 1} \X {0, 1}
           /\ opts.flags \subseteq SUBSET Flags /\ opts.limit \in Nat /\ opts.gen \in {1, 2}
BY ConstantsAssumption DEF CaseType, Flags

LEMMA BecomesFacts ==
    ASSUME NEW t \in States, p' = t.p, o' = t.o
    PROVE  Now' = t
<1>1. t = [p |-> t.p, o |-> t.o]  BY StateType
<1> QED  BY <1>1 DEF Now

LEMMA StatusFrameKeeps ==
    ASSUME IInv, opts.gen = 2, StatusFrame
    PROVE  Preserved
<1>1. /\ opts \in Cases /\ Now \in States /\ frames \in Nat /\ announced \in BOOLEAN
      /\ Folding(Now, Upcoming(Now, frames), 0) /\ o.keepOk /\ Times(Now)
      /\ Gated(Now, announced) /\ Now.p = p /\ Now.o = o
  BY DEF IInv, Sound, Now
<1>2. /\ ~p.payload /\ frames' = frames + 1 /\ opts' = opts /\ announced' = announced
  BY DEF StatusFrame, HeaderArrives
<1>3. PICK n \in Nat : n = frames + 1  BY <1>1
<1>4. This = n /\ Upcoming(Now, frames) = n  BY <1>1, <1>2, <1>3 DEF This, Upcoming
<1>5. PICK c \in Clocks, ls \in LineStates, in \in opts.inputs, speed \in Speeds :
         Becomes(LineChange(SpeedChange(VbusChange(TriggerChange(
                   Tick(c), in[2]), in[1]), speed), ls))
  BY DEF StatusFrame
<1>6. opts.trigger \in Triggers /\ in[1] \in {0, 1} /\ in[2] \in {0, 1}
  BY <1>1, OptsFacts
<1>7. PICK t1 : t1 = Tick(c)  OBVIOUS
<1>8. Moved(Now, t1) /\ Times(t1) /\ Window(t1) /\ t1 \in States
  BY <1>1, <1>7, TickFacts DEF Moved
<1>9. PICK t2 : t2 = TriggerChange(t1, in[2])  OBVIOUS
<1>10. /\ Reported(t1, t2) /\ (Gated(t1, announced) => Gated(t2, announced)) /\ t2 \in States
       /\ opts.trigger \in {"falling", "rising"} /\ t1.p.enabled => t2.p.enabled
  BY <1>6, <1>8, <1>9, TriggerFacts DEF Reported
<1>11. PICK t3 : t3 = VbusChange(t2, in[1])  OBVIOUS
<1>12. Reported(t2, t3) /\ Steady(t2, t3) /\ t3 \in States
  BY <1>6, <1>10, <1>11, VbusFacts DEF Reported
<1>13. PICK t4 : t4 = SpeedChange(t3, speed)  OBVIOUS
<1>14. Reported(t3, t4) /\ Steady(t3, t4) /\ t4 \in States
  BY <1>12, <1>13, SpeedFacts DEF Reported
<1>15. Reported(t1, t4)  BY <1>10, <1>12, <1>14, ReportedTwice
<1>16. SameFold(Now, t4)  BY <1>8, <1>15 DEF Moved, Reported, SameFold
<1>17. Folding(t4, n, 0) /\ Times(t4) /\ Window(t4) /\ t4.o.keepOk /\ ~t4.p.payload
  <2>1. Folding(t4, n, 0)  BY <1>1, <1>4, <1>16, FoldingKept
  <2> QED  BY <1>1, <1>2, <1>8, <1>15, <2>1 DEF Moved, Reported
<1>18. Gated(t4, announced)
  <2>1. Gated(t1, announced)  BY <1>1, <1>8 DEF Moved, Gated
  <2> QED  BY <1>10, <1>12, <1>14, <2>1 DEF Steady, Gated
<1>19. PICK t : t = LineChange(t4, ls)  OBVIOUS
<1>20. Event(t4, t, n)  BY <1>4, <1>14, <1>17, <1>19, LineFacts
<1>21. Now' = t
  BY <1>5, <1>7, <1>9, <1>11, <1>13, <1>19, <1>20, BecomesFacts DEF Becomes, Event
<1>22. Upcoming(t, frames') = n + 1
  BY <1>2, <1>3, <1>17, <1>20 DEF Event, Calm, Upcoming
<1>23. Gated(t, announced') /\ ~t.p.payload /\ t.o.keepOk
  BY <1>2, <1>17, <1>18, <1>20 DEF Event, Calm, Gated
<1>24. Sound(t, frames', announced')
  BY <1>1, <1>2, <1>20, <1>22, <1>23 DEF Event, Sound
<1>25. Allowed(Now, t)
  <2>1. t.p.enabled = t4.p.enabled /\ t4.p.enabled = t2.p.enabled
    BY <1>12, <1>14, <1>20 DEF Event, Calm, Steady
  <2>2. t.o.lastFrame # o.lastFrame => t.p.enabled
    BY <1>1, <1>16, <1>20, <2>1 DEF Event, SameFold
  <2>3. opts.trigger \in {"falling", "rising"} /\ p.enabled => t.p.enabled
    BY <1>1, <1>8, <1>10, <2>1 DEF Moved
  <2> QED  BY <1>1, <2>2, <2>3 DEF Allowed
<1> QED  BY <1>2, <1>21, <1>24, <1>25 DEF Preserved

(* The fields of struct packet that a frame header sets.                     *)
Headed(s, payload, flags) == [s EXCEPT !.p.payload = payload, !.p.flags = flags]

LEMMA SetHeader ==
    ASSUME NEW s \in States, NEW b \in BOOLEAN, NEW x \in SUBSET Flags
    PROVE  LET t == Headed(s, b, x)
           IN /\ Aside(s, t) /\ Steady(s, t) /\ (t.p.payload <=> b) /\ t.p.done = s.p.done
<1>1. PICK pp \in Packets, oo \in Outputs : s = [p |-> pp, o |-> oo]  BY StateType
<1>2. PICK t : t = [s EXCEPT !.p.payload = b, !.p.flags = x]  OBVIOUS
<1>3. t = [p |-> [pp EXCEPT !.payload = b, !.flags = x], o |-> oo]  BY <1>1, <1>2
<1>4. t \in States
  <2>1. t.p \in Packets  BY <1>3 DEF Packets
  <2> QED  BY <1>3, <2>1 DEF States
<1>5. Aside(s, t) /\ Steady(s, t) /\ t.p.payload = b /\ t.p.done = s.p.done
  BY <1>1, <1>3, <1>4 DEF Aside, Steady, Packets
<1> QED  BY <1>2, <1>5 DEF Headed

LEMMA DataHeaderKeeps ==
    ASSUME IInv, opts.gen = 2, DataHeader
    PROVE  Preserved
<1>1. /\ opts \in Cases /\ Now \in States /\ frames \in Nat /\ announced \in BOOLEAN
      /\ Folding(Now, Upcoming(Now, frames), 0) /\ o.keepOk /\ Times(Now)
      /\ Gated(Now, announced) /\ Now.p = p /\ Now.o = o
  BY DEF IInv, Sound, Now
<1>2. /\ ~p.payload /\ frames' = frames + 1 /\ opts' = opts /\ announced' = announced
  BY DEF DataHeader, HeaderArrives
<1>3. PICK n \in Nat : n = frames + 1  BY <1>1
<1>4. Upcoming(Now, frames) = n  BY <1>1, <1>2, <1>3 DEF Upcoming
<1>5. PICK c \in Clocks, b \in BOOLEAN, flags \in opts.flags : Becomes(Headed(Tick(c), b, flags))
  BY DEF DataHeader, Headed
<1>6. PICK s : s = Tick(c)  OBVIOUS
<1>7. Moved(Now, s) /\ Times(s) /\ s \in States  BY <1>1, <1>6, TickFacts DEF Moved
<1>8. PICK t : t = Headed(s, b, flags)  OBVIOUS
<1>9. Aside(s, t) /\ Steady(s, t) /\ t.p.done = s.p.done /\ t \in States
  <2>1. flags \in SUBSET Flags  BY <1>1, OptsFacts
  <2>2. Aside(s, t) /\ Steady(s, t) /\ t.p.done = s.p.done  BY <1>7, <1>8, <2>1, SetHeader
  <2> QED  BY <2>2 DEF Aside
<1>10. Now' = t  BY <1>5, <1>6, <1>8, <1>9, BecomesFacts DEF Becomes
<1>11. Folding(t, n, 0) /\ Folding(t, n + 1, 0) /\ Times(t)
  <2>1. Folding(s, n, 0)  BY <1>1, <1>4, <1>7, FoldingKept DEF Moved
  <2>2. SameFold(s, t) /\ Times(t)  BY <1>7, <1>9, AsideFacts
  <2>3. Folding(t, n, 0)  BY <2>1, <2>2, FoldingKept
  <2> QED  BY <1>9, <2>2, <2>3, FoldingLater
<1>12. Upcoming(t, frames') \in {n, n + 1}  BY <1>2, <1>3 DEF Upcoming
<1>13. Gated(t, announced') /\ t.o.keepOk /\ frames' \in Nat /\ frames' > 0
  BY <1>1, <1>2, <1>7, <1>9 DEF Moved, Aside, Steady, Gated
<1>14. Sound(t, frames', announced')
  <2>1. Folding(t, Upcoming(t, frames'), 0)  BY <1>11, <1>12
  <2> QED  BY <1>1, <1>2, <1>9, <1>11, <1>13, <2>1 DEF Sound
<1>15. Allowed(Now, t)  BY <1>1, <1>7, <1>9 DEF Moved, Aside, Steady, SameFold, Allowed
<1> QED  BY <1>2, <1>10, <1>14, <1>15 DEF Preserved

LEMMA BadHeaderKeeps ==
    ASSUME IInv, opts.gen = 2, BadHeader
    PROVE  Preserved
<1>1. /\ opts \in Cases /\ Now \in States /\ frames \in Nat /\ announced \in BOOLEAN
      /\ Folding(Now, Upcoming(Now, frames), 0) /\ o.keepOk /\ Times(Now)
      /\ Gated(Now, announced) /\ Now.p = p /\ Now.o = o
  BY DEF IInv, Sound, Now
<1>2. /\ ~p.payload /\ frames' = frames + 1 /\ opts' = opts /\ announced' = announced
  BY DEF BadHeader, HeaderArrives
<1>3. PICK n \in Nat : n = frames + 1  BY <1>1
<1>4. Upcoming(Now, frames) = n  BY <1>1, <1>2, <1>3 DEF Upcoming
<1>5. PICK c \in Clocks : Becomes(CaptureInfo(Tick(c), Tick(c).p.ts))  BY DEF BadHeader
<1>6. PICK s : s = Tick(c)  OBVIOUS
<1>7. Moved(Now, s) /\ Times(s) /\ s \in States  BY <1>1, <1>6, TickFacts DEF Moved
<1>8. PICK t : t = CaptureInfo(s, s.p.ts)  OBVIOUS
<1>9. Told(s, t) /\ t \in States  BY <1>7, <1>8, CaptureInfoFacts DEF Told
<1>10. Now' = t  BY <1>5, <1>6, <1>8, <1>9, BecomesFacts DEF Becomes
<1>11. Folding(t, n + 1, 0) /\ Times(t) /\ ~t.p.payload
  <2>1. Folding(s, n, 0)  BY <1>1, <1>4, <1>7, FoldingKept DEF Moved
  <2>2. Folding(t, n, 0)  BY <1>9, <2>1, FoldingKept DEF Told
  <2>3. Folding(t, n + 1, 0)  BY <1>9, <2>2, FoldingLater
  <2> QED  BY <1>1, <1>2, <1>7, <1>9, <2>3 DEF Told, Still, Moved
<1>12. Upcoming(t, frames') = n + 1  BY <1>2, <1>3, <1>11 DEF Upcoming
<1>13. Gated(t, announced') /\ t.o.keepOk
  BY <1>1, <1>2, <1>7, <1>9 DEF Moved, Told, Still, Gated
<1>14. Sound(t, frames', announced')
  BY <1>1, <1>2, <1>9, <1>11, <1>12, <1>13 DEF Sound
<1>15. Allowed(Now, t)  BY <1>1, <1>7, <1>9 DEF Moved, Told, Still, SameFold, Allowed
<1> QED  BY <1>2, <1>10, <1>14, <1>15 DEF Preserved

(* The header is forgotten once its payload has come.                        *)
LEMMA EndPayload ==
    ASSUME Now \in States
    PROVE  LET t == [p |-> [p EXCEPT !.payload = FALSE], o |-> o]
           IN /\ Aside(Now, t) /\ Steady(Now, t) /\ ~t.p.payload /\ t.p.done = p.done
              /\ t.o = o
<1>1. p \in Packets /\ o \in Outputs /\ Now.p = p /\ Now.o = o  BY NowFacts
<1>2. PICK t : t = [p |-> [p EXCEPT !.payload = FALSE], o |-> o]  OBVIOUS
<1>3. t \in States
  <2>1. [p EXCEPT !.payload = FALSE] \in Packets  BY <1>1 DEF Packets
  <2> QED  BY <1>1, <1>2, <2>1 DEF States
<1>4. Aside(Now, t) /\ Steady(Now, t) /\ ~t.p.payload /\ t.p.done = p.done /\ t.o = o
  BY <1>1, <1>2, <1>3 DEF Aside, Steady, Packets
<1> QED  BY <1>2, <1>4

LEMMA DataPayloadKeeps ==
    ASSUME IInv, opts.gen = 2, DataPayload
    PROVE  Preserved
<1>1. /\ opts \in Cases /\ Now \in States /\ frames \in Nat /\ announced \in BOOLEAN
      /\ Folding(Now, Upcoming(Now, frames), 0) /\ o.keepOk /\ Times(Now)
      /\ Gated(Now, announced) /\ Now.p = p /\ Now.o = o
  BY DEF IInv, Sound, Now
<1>2. p.payload /\ frames' = frames /\ opts' = opts /\ announced' = announced
  BY DEF DataPayload
<1>3. PICK n \in Nat : n = frames  BY <1>1
<1>4. This = n /\ Upcoming(Now, frames) = n  BY <1>1, <1>2, <1>3 DEF This, Upcoming
<1>5. PICK s : s = [p |-> [p EXCEPT !.payload = FALSE], o |-> o]  OBVIOUS
<1>6. Aside(Now, s) /\ Steady(Now, s) /\ ~s.p.payload /\ s \in States /\ s.o = o
  BY <1>1, <1>5, EndPayload DEF Aside
<1>7. PICK pid \in Pids : Becomes(DataEvent(s, pid))  BY <1>5 DEF DataPayload
<1>8. Folding(s, n, 0) /\ Times(s)  BY <1>1, <1>4, <1>6, AsideFacts, FoldingKept
<1>9. PICK t : t = DataEvent(s, pid)  OBVIOUS
<1>10. Event(s, t, n)  BY <1>4, <1>6, <1>8, <1>9, DataFacts
<1>11. Now' = t  BY <1>7, <1>9, <1>10, BecomesFacts DEF Becomes, Event
<1>12. Upcoming(t, frames') = n + 1
  BY <1>2, <1>3, <1>6, <1>10 DEF Event, Calm, Upcoming
<1>13. Gated(t, announced') /\ ~t.p.payload /\ t.o.keepOk
  BY <1>1, <1>2, <1>6, <1>10 DEF Event, Calm, Steady, Gated
<1>14. Sound(t, frames', announced')
  BY <1>1, <1>2, <1>10, <1>12, <1>13 DEF Event, Sound
<1>15. Allowed(Now, t)  BY <1>1, <1>6, <1>10 DEF Event, Calm, Steady, Allowed
<1> QED  BY <1>2, <1>11, <1>14, <1>15 DEF Preserved

(* The first record of the session.                                          *)
LEMMA BeginSession ==
    ASSUME Now \in States
    PROVE  LET t == [p |-> [p EXCEPT !.done = FALSE], o |-> o]
           IN Aside(Now, t) /\ Calm(Now, t) /\ ~t.p.done /\ t.o = o
<1>1. p \in Packets /\ o \in Outputs /\ Now.p = p /\ Now.o = o  BY NowFacts
<1>2. PICK t : t = [p |-> [p EXCEPT !.done = FALSE], o |-> o]  OBVIOUS
<1>3. t \in States
  <2>1. [p EXCEPT !.done = FALSE] \in Packets  BY <1>1 DEF Packets
  <2> QED  BY <1>1, <1>2, <2>1 DEF States
<1>4. Aside(Now, t) /\ Calm(Now, t) /\ ~t.p.done /\ t.o = o
  BY <1>1, <1>2, <1>3 DEF Aside, Calm, Packets
<1> QED  BY <1>2, <1>4

LEMMA OpenGate ==
    ASSUME NEW s \in States
    PROVE  LET t == [s EXCEPT !.p.enabled = TRUE, !.o.ordered = TRUE]
           IN /\ t \in States /\ SameFold(s, t) /\ t.p.enabled /\ t.o.ordered
              /\ t.p.trigger = s.p.trigger /\ t.p.ts = s.p.ts /\ t.p.payload = s.p.payload
              /\ t.p.lastTs = s.p.lastTs /\ t.o.lastTs = s.o.lastTs
              /\ t.p.savedLs = s.p.savedLs /\ t.o.keepOk = s.o.keepOk
              /\ t.p.tsInt = s.p.tsInt /\ t.o.slack = s.o.slack
<1>1. PICK pp \in Packets, oo \in Outputs : s = [p |-> pp, o |-> oo]  BY StateType
<1>2. PICK t : t = [s EXCEPT !.p.enabled = TRUE, !.o.ordered = TRUE]  OBVIOUS
<1>3. t = [p |-> [pp EXCEPT !.enabled = TRUE], o |-> [oo EXCEPT !.ordered = TRUE]]
  BY <1>1, <1>2
<1>4. t \in States
  <2>1. t.p \in Packets  BY <1>3 DEF Packets
  <2>2. t.o \in Outputs  BY <1>3 DEF Outputs
  <2> QED  BY <1>3, <2>1, <2>2 DEF States
<1>5. /\ t.p.enabled /\ t.p.trigger = s.p.trigger /\ t.p.ts = s.p.ts
      /\ t.p.payload = s.p.payload /\ t.p.lastTs = s.p.lastTs /\ t.p.savedLs = s.p.savedLs
      /\ t.p.foldBuf = s.p.foldBuf /\ t.p.foldCount = s.p.foldCount
      /\ t.p.tsInt = s.p.tsInt
  BY <1>1, <1>3 DEF Packets
<1>6. /\ t.o.ordered /\ t.o.lastTs = s.o.lastTs /\ t.o.keepOk = s.o.keepOk
      /\ t.o.owed = s.o.owed /\ t.o.lastFrame = s.o.lastFrame /\ t.o.inOrder = s.o.inOrder
      /\ t.o.slack = s.o.slack
  BY <1>1, <1>3 DEF Outputs
<1> QED  BY <1>2, <1>4, <1>5, <1>6 DEF SameFold

LEMMA AnnounceKeeps ==
    ASSUME IInv, opts.gen = 2, Announce
    PROVE  Preserved
<1>1. /\ opts \in Cases /\ Now \in States /\ frames \in Nat /\ announced \in BOOLEAN
      /\ Folding(Now, Upcoming(Now, frames), 0) /\ o.keepOk /\ Times(Now)
      /\ Gated(Now, announced) /\ (p.payload => frames > 0) /\ Now.p = p /\ Now.o = o
  BY DEF IInv, Sound, Now
<1>2. frames' = frames /\ opts' = opts /\ announced' = TRUE  BY DEF Announce
<1>3. PICK s : s = [p |-> [p EXCEPT !.done = FALSE], o |-> o]  OBVIOUS
<1>4. Aside(Now, s) /\ Calm(Now, s) /\ s \in States /\ s.p.ts = p.ts /\ s.o = o
  BY <1>1, <1>3, BeginSession DEF Aside
<1>5. SameFold(Now, s) /\ Times(s)  BY <1>1, <1>4, AsideFacts
<1>6. CASE opts.trigger # "disabled"
  <2>1. PICK t : t = CaptureInfo(s, s.p.ts)  OBVIOUS
  <2>2. Told(s, t) /\ t \in States  BY <1>4, <2>1, CaptureInfoFacts DEF Told
  <2>3. Now' = t
    BY <1>3, <1>4, <1>6, <2>1, <2>2, BecomesFacts DEF Announce, Becomes
  <2>4. /\ SameFold(Now, t) /\ Times(t) /\ t.p.payload = p.payload
        /\ t.p.trigger = p.trigger /\ t.p.enabled = p.enabled /\ t.o.keepOk
    BY <1>1, <1>4, <1>5, <2>2 DEF Told, Still, SameFold, Calm
  <2>5. Upcoming(t, frames') = Upcoming(Now, frames)  BY <1>1, <1>2, <2>4 DEF Upcoming
  <2>6. Folding(t, Upcoming(t, frames'), 0)  BY <1>1, <2>4, <2>5, FoldingKept
  <2>7. Gated(t, announced')  BY <1>1, <1>6, <2>4 DEF Gated
  <2>8. Sound(t, frames', announced')  BY <1>1, <1>2, <2>2, <2>4, <2>6, <2>7 DEF Sound
  <2>9. Allowed(Now, t)  BY <1>1, <2>4 DEF Allowed, SameFold
  <2> QED  BY <1>2, <2>3, <2>8, <2>9 DEF Preserved
<1>7. CASE opts.trigger = "disabled"
  <2>1. PICK l : l = LineStateEvent(s)  OBVIOUS
  <2>2. Told(s, l) /\ l \in States  BY <1>4, <2>1, LineStateFacts DEF Told
  <2>3. PICK i : i = Emit(l, 0)  OBVIOUS
  <2>4. /\ i \in States /\ Still(l, i) /\ SameFold(l, i) /\ Stamped(l, i, 0)
        /\ i.p.savedLs = "none"
    BY <2>2, <2>3, EmitFacts DEF Told
  <2>5. PICK t : t = [i EXCEPT !.p.enabled = TRUE, !.o.ordered = TRUE]  OBVIOUS
  <2>6. /\ t \in States /\ SameFold(i, t) /\ t.p.enabled /\ t.o.ordered
        /\ t.p.trigger = i.p.trigger /\ t.p.ts = i.p.ts /\ t.p.payload = i.p.payload
        /\ t.p.lastTs = i.p.lastTs /\ t.o.lastTs = i.o.lastTs
        /\ t.p.savedLs = i.p.savedLs /\ t.o.keepOk = i.o.keepOk
        /\ t.p.tsInt = i.p.tsInt /\ t.o.slack = i.o.slack
    BY <2>4, <2>5, OpenGate
  <2>7. Now' = t
    <3>1. o.ordered = TRUE
      <4>1. o.ordered \in BOOLEAN  BY <1>1, NowFacts DEF Outputs
      <4> QED  BY <1>1, <4>1 DEF Times
    <3>2. i = CaptureInfo(s, 0)  BY <2>1, <2>3 DEF CaptureInfo
    <3>3. Becomes([i EXCEPT !.p.enabled = TRUE, !.o.ordered = o.ordered])
      BY <1>3, <1>7, <3>2 DEF Announce
    <3>4. p' = t.p /\ o' = t.o  BY <2>5, <3>1, <3>3 DEF Becomes
    <3> QED  BY <2>6, <3>4, BecomesFacts
  <2>8. SameFold(Now, t)  BY <1>5, <2>2, <2>4, <2>6 DEF Told, SameFold
  <2>9. /\ t.p.ts = p.ts /\ t.p.payload = p.payload /\ t.p.lastTs = 0 /\ t.o.lastTs = 0
        /\ t.p.savedLs = "none" /\ t.o.keepOk /\ t.p.tsInt = p.tsInt /\ t.o.slack = o.slack
    BY <1>1, <1>4, <2>2, <2>4, <2>6 DEF Told, Still, Calm, Stamped, Aside
  <2>10. Times(t)
    <3>1. Reach(t) = Reach(Now)  BY <1>1, <2>9 DEF Reach
    <3>2. \A j \in 1 .. Len(t.p.foldBuf) : t.p.foldBuf[j].ts <= Reach(t)
      BY <1>1, <2>8, <3>1 DEF Times, SameFold
    <3>3. 0 <= Reach(t)
      <4>1. Reach(Now) \in Nat  BY <1>1, NowTimely
      <4> QED  BY <3>1, <4>1
    <3>4. Pace(t.p.tsInt, t.p.ts, t.o.slack)  BY <1>1, <2>9 DEF Times
    <3> QED  BY <2>6, <2>9, <3>2, <3>3, <3>4 DEF Times
  <2>11. Upcoming(t, frames') = Upcoming(Now, frames)  BY <1>1, <1>2, <2>9 DEF Upcoming
  <2>12. Folding(t, Upcoming(t, frames'), 0)  BY <1>1, <2>8, <2>11, FoldingKept
  <2>13. Gated(t, announced')  BY <1>7, <2>6 DEF Gated
  <2>14. Sound(t, frames', announced')
    BY <1>1, <1>2, <2>6, <2>9, <2>10, <2>12, <2>13 DEF Sound
  <2>15. Allowed(Now, t)  BY <2>6 DEF Allowed
  <2> QED  BY <1>2, <2>7, <2>14, <2>15 DEF Preserved
<1> QED  BY <1>6, <1>7

LEMMA SessionInfoKeeps ==
    ASSUME IInv, opts.gen = 2, SessionInfo
    PROVE  Preserved
<1>1. /\ opts \in Cases /\ Now \in States /\ frames \in Nat /\ announced \in BOOLEAN
      /\ Folding(Now, Upcoming(Now, frames), 0) /\ o.keepOk /\ Times(Now)
      /\ Gated(Now, announced) /\ (p.payload => frames > 0) /\ Now.p = p /\ Now.o = o
  BY DEF IInv, Sound, Now
<1>2. frames' = frames /\ opts' = opts /\ announced' = announced  BY DEF SessionInfo
<1>3. PICK s : s = Now  OBVIOUS
<1>4. PICK t : t = CaptureInfo(s, s.p.ts)  OBVIOUS
<1>5. Told(s, t) /\ t \in States  BY <1>1, <1>3, <1>4, CaptureInfoFacts DEF Told
<1>6. Now' = t
  <2>1. Becomes(CaptureInfo(Now, p.ts))  BY DEF SessionInfo, Now
  <2> QED  BY <1>1, <1>3, <1>4, <1>5, <2>1, BecomesFacts DEF Becomes
<1>7. /\ SameFold(Now, t) /\ Times(t) /\ t.p.payload = p.payload
      /\ t.p.trigger = p.trigger /\ t.p.enabled = p.enabled /\ t.o.keepOk
  BY <1>1, <1>3, <1>5 DEF Told, Still
<1>8. Upcoming(t, frames') = Upcoming(Now, frames)  BY <1>1, <1>2, <1>7 DEF Upcoming
<1>9. Folding(t, Upcoming(t, frames'), 0)  BY <1>1, <1>7, <1>8, FoldingKept
<1>10. Gated(t, announced')  BY <1>1, <1>2, <1>7 DEF Gated
<1>11. Sound(t, frames', announced')  BY <1>1, <1>2, <1>5, <1>7, <1>9, <1>10 DEF Sound
<1>12. Allowed(Now, t)  BY <1>1, <1>7 DEF Allowed, SameFold
<1> QED  BY <1>2, <1>6, <1>11, <1>12 DEF Preserved

-----------------------------------------------------------------------------
(* The interpreter of gen1/capture.c, part by part.                          *)

(* A record about frame cause.                                               *)
Caused(s, t, cause) == /\ t.o.lastCause = cause /\ t.o.foldCause = s.o.foldCause
                       /\ (t.o.causal <=> s.o.causal /\ s.o.lastCause <= cause)

LEMMA RecordFacts ==
    ASSUME NEW s \in States, NEW ts \in Nat, NEW cause \in Nat
    PROVE  LET t == Record(s, ts, cause)
           IN /\ t \in States /\ Still(s, t) /\ SameFold(s, t) /\ t.p.savedLs = s.p.savedLs
              /\ Caused(s, t, cause)
<1>1. PICK e : e = Emit(s, ts)  OBVIOUS
<1>2. /\ e \in States /\ Still(s, e) /\ SameFold(s, e) /\ SameCause(s, e)
      /\ e.p.savedLs = s.p.savedLs
  BY <1>1, EmitFacts
<1>3. PICK b \in BOOLEAN : b = (e.o.causal /\ s.o.lastCause <= cause)  OBVIOUS
<1>4. PICK t : t = Record(s, ts, cause)  OBVIOUS
<1>5. t = [e EXCEPT !.o.causal = b, !.o.lastCause = cause]  BY <1>1, <1>3, <1>4 DEF Record
<1>6. PICK pp \in Packets, oo \in Outputs : e = [p |-> pp, o |-> oo]  BY <1>2, StateType
<1>7. t = [p |-> pp, o |-> [oo EXCEPT !.causal = b, !.lastCause = cause]]  BY <1>5, <1>6
<1>8. t \in States
  <2>1. t.o \in Outputs  BY <1>7 DEF Outputs
  <2> QED  BY <1>7, <2>1 DEF States
<1>9. t.p = e.p  BY <1>6, <1>7
<1>10. /\ t.o.causal = b /\ t.o.lastCause = cause /\ t.o.foldCause = e.o.foldCause
       /\ t.o.keepOk = e.o.keepOk /\ t.o.savedCause = e.o.savedCause /\ t.o.slack = e.o.slack
       /\ t.o.owed = e.o.owed /\ t.o.lastFrame = e.o.lastFrame /\ t.o.inOrder = e.o.inOrder
  BY <1>6, <1>7 DEF Outputs
<1>11. Still(s, t)  BY <1>2, <1>9, <1>10 DEF Still
<1>12. SameFold(s, t) /\ t.p.savedLs = s.p.savedLs  BY <1>2, <1>9, <1>10 DEF SameFold
<1>13. Caused(s, t, cause)  BY <1>2, <1>3, <1>10 DEF Caused, SameCause
<1> QED  BY <1>4, <1>8, <1>11, <1>12, <1>13

LEMMA G1PutFacts ==
    ASSUME NEW s \in States, NEW ts \in Nat, NEW f \in Entries
    PROVE  Wrote(s, G1Put(s, ts, f), f) /\ Caused(s, G1Put(s, ts, f), f.id)
<1>1. f.id \in Nat  BY DEF Entries
<1>2. PICK r : r = Record(s, ts, f.id)  OBVIOUS
<1>3. /\ r \in States /\ Still(s, r) /\ SameFold(s, r) /\ r.p.savedLs = s.p.savedLs
      /\ Caused(s, r, f.id)
  BY <1>1, <1>2, RecordFacts
<1>4. PICK t : t = Put(r, ts, f)  OBVIOUS
<1>5. Wrote(r, t, f) /\ SameCause(r, t)  BY <1>3, <1>4, PutFacts
<1>6. Wrote(s, t, f)  BY <1>3, <1>5 DEF Wrote, Still, SameFold
<1>7. Caused(s, t, f.id)  BY <1>3, <1>5 DEF Caused, SameCause
<1> QED  BY <1>2, <1>4, <1>6, <1>7 DEF G1Put

LEMMA G1PutFoldedFacts ==
    ASSUME NEW s \in States, NEW e \in Entries
    PROVE  LET t == G1PutFolded(s, e)
           IN /\ t \in States
              /\ s.p.savedLs = "none" => Wrote(s, t, e) /\ Caused(s, t, e.id)
<1>1. e.ts \in Nat  BY DEF Entries
<1>2. G1SavedLine(s) \in States
  <2>1. PICK d : d = [s EXCEPT !.p.savedLs = "none"]  OBVIOUS
  <2>2. d \in States  BY <2>1, DropLine DEF Told
  <2>3. s.p.savedTs \in Nat /\ s.o.savedCause \in Nat  BY StateType DEF Packets, Outputs
  <2>4. Record(d, s.p.savedTs, s.o.savedCause) \in States  BY <2>2, <2>3, RecordFacts
  <2> QED  BY <2>1, <2>2, <2>4 DEF G1SavedLine
<1>3. s.p.savedLs = "none" => G1SavedLine(s) = s  BY DEF G1SavedLine
<1>4. PICK u : u = IF e.keep THEN G1SavedLine(s) ELSE s  OBVIOUS
<1>5. u \in States /\ (s.p.savedLs = "none" => u = s)  BY <1>2, <1>3, <1>4
<1>6. G1PutFolded(s, e) = G1Put(u, e.ts, e)  BY <1>4 DEF G1PutFolded
<1>7. Wrote(u, G1Put(u, e.ts, e), e) /\ Caused(u, G1Put(u, e.ts, e), e.id)
  BY <1>1, <1>5, G1PutFacts
<1>8. G1Put(u, e.ts, e) \in States  BY <1>7 DEF Wrote
<1> QED  BY <1>5, <1>6, <1>7, <1>8

LEMMA G1PutAllKeeps ==
    ASSUME NEW s \in States, NEW buf \in Seq(Entries), NEW R, s \in R[0],
           \A i \in 0 .. Len(buf) : R[i] \subseteq States,
           \A i \in 1 .. Len(buf) : \A t \in R[i - 1] : G1PutFolded(t, buf[i]) \in R[i]
    PROVE  G1PutAll(s, buf) \in R[Len(buf)]
<1> DEFINE Is(h) == h = [i \in 0 .. Len(buf) |->
                            IF i = 0 THEN s ELSE G1PutFolded(h[i - 1], buf[i])]
<1>1. Len(buf) \in Nat  OBVIOUS
<1>2. PICK g \in [States \X Entries -> States] :
         g = [x \in States \X Entries |-> G1PutFolded(x[1], x[2])]
  <2>1. \A x \in States \X Entries : G1PutFolded(x[1], x[2]) \in States
    BY G1PutFoldedFacts
  <2> QED  BY <2>1
<1>3. PICK f \in [0 .. Len(buf) -> States] : IsTrace(f, g, s, buf, Len(buf))
  BY Trace, Zenon
<1>4. ASSUME NEW i \in 1 .. Len(buf) PROVE f[i] = G1PutFolded(f[i - 1], buf[i])
  <2>1. f[i - 1] \in States /\ buf[i] \in Entries  BY <1>1
  <2>2. g[<<f[i - 1], buf[i]>>] = G1PutFolded(f[i - 1], buf[i])  BY <1>2, <2>1
  <2> QED  BY <1>3, <2>2 DEF IsTrace
<1>5. Is(f)  BY <1>1, <1>3, <1>4 DEF IsTrace
<1> DEFINE h == CHOOSE x : Is(x)
<1>6. Is(h)  BY <1>5, Zenon
<1>7. G1PutAll(s, buf) = h[Len(buf)]  BY DEF G1PutAll
<1> HIDE DEF h
<1>8. h[0] = s /\ \A i \in 1 .. Len(buf) : h[i] = G1PutFolded(h[i - 1], buf[i])
  BY <1>1, <1>6
<1> DEFINE T == {i \in 0 .. Len(buf) : h[i] \notin R[i]}
<1>9. ASSUME T # {} PROVE FALSE
  <2>1. T \subseteq Nat  BY <1>1
  <2>2. PICK i \in T : \A j \in T : i <= j  BY <1>9, <2>1, LeastNumber
  <2>3. i # 0  BY <1>8
  <2>4. i - 1 \in 0 .. Len(buf) /\ i - 1 \notin T /\ i \in 1 .. Len(buf)  BY <1>1, <2>2, <2>3
  <2>5. h[i - 1] \in R[i - 1]  BY <2>4
  <2> QED  BY <1>8, <2>4, <2>5
<1> QED  BY <1>1, <1>7, <1>9

(* The frames of buf are about no earlier frame than what was written last,  *)
(* and about none later than frame c.                                        *)
Within(s, buf, c) ==
    /\ s.o.causal /\ s.o.lastCause <= c
    /\ \A i \in 1 .. Len(buf) : s.o.lastCause <= buf[i].id /\ buf[i].id <= c

LEMMA G1PutAllFacts ==
    ASSUME NEW s \in States, NEW buf \in Seq(Entries), NEW n \in Nat, NEW c \in Nat,
           s.p.savedLs = "none", s.o.inOrder, s.o.lastFrame < n,
           Buffered(buf, s.o.lastFrame, n), Within(s, buf, c)
    PROVE  LET t == G1PutAll(s, buf)
           IN /\ AllWritten(s, t, buf, n) /\ t.o.causal /\ t.o.lastCause <= c
<1> DEFINE Good(t, i) ==
             /\ Midway(s, t, buf, i) /\ t.o.causal
             /\ t.o.lastCause = IF i = 0 THEN s.o.lastCause ELSE buf[i].id
           R == [i \in 0 .. Len(buf) |-> {t \in States : Good(t, i)}]
<1>1. Len(buf) \in Nat  OBVIOUS
<1>2. Good(s, 0)
  <2>1. s.o.owed \in Int  BY StateType DEF Outputs
  <2> QED  BY <2>1 DEF Midway, Still, Within
<1>3. ASSUME NEW i \in 1 .. Len(buf), NEW t \in States, Good(t, i - 1)
      PROVE  Good(G1PutFolded(t, buf[i]), i) /\ G1PutFolded(t, buf[i]) \in States
  <2>1. buf[i] \in Entries  BY <1>1
  <2>2. t.p.savedLs = "none"  BY <1>3 DEF Midway
  <2>3. PICK u : u = G1PutFolded(t, buf[i])  OBVIOUS
  <2>4. Wrote(t, u, buf[i]) /\ Caused(t, u, buf[i].id) /\ u \in States
    BY <2>1, <2>2, <2>3, G1PutFoldedFacts
  <2>5. Midway(s, u, buf, i)  BY <1>3, <2>4, MidwayStep
  <2>6. t.o.lastCause <= buf[i].id
    <3>1. CASE i = 1  BY <1>3, <3>1 DEF Within
    <3>2. CASE i # 1
      <4>1. i - 1 \in 1 .. Len(buf) /\ i - 1 < i  BY <1>1, <3>2
      <4>2. buf[i - 1].id < buf[i].id  BY <4>1 DEF Buffered
      <4>3. buf[i - 1] \in Entries  BY <1>1, <4>1
      <4>4. buf[i - 1].id \in Nat /\ buf[i].id \in Nat  BY <2>1, <4>3 DEF Entries
      <4>5. t.o.lastCause = buf[i - 1].id  BY <1>3, <3>2
      <4> QED  BY <4>2, <4>4, <4>5
    <3> QED  BY <3>1, <3>2
  <2>7. u.o.causal /\ u.o.lastCause = buf[i].id  BY <1>3, <2>4, <2>6 DEF Caused
  <2>8. i # 0  OBVIOUS
  <2> QED  BY <2>3, <2>4, <2>5, <2>7, <2>8
<1> HIDE DEF Good
<1>4. PICK r : r = R  OBVIOUS
<1>5. G1PutAll(s, buf) \in r[Len(buf)]
  <2>1. s \in r[0]  BY <1>1, <1>2, <1>4
  <2>2. \A i \in 0 .. Len(buf) : r[i] \subseteq States  BY <1>4
  <2>3. ASSUME NEW i \in 1 .. Len(buf), NEW t \in r[i - 1]
        PROVE  G1PutFolded(t, buf[i]) \in r[i]
    <3>1. i - 1 \in 0 .. Len(buf) /\ i \in 0 .. Len(buf)  BY <1>1
    <3>2. t \in States /\ Good(t, i - 1)  BY <1>4, <3>1
    <3>3. Good(G1PutFolded(t, buf[i]), i) /\ G1PutFolded(t, buf[i]) \in States
      BY <1>3, <3>2
    <3> QED  BY <1>4, <3>1, <3>3
  <2> QED  BY <2>1, <2>2, <2>3, G1PutAllKeeps
<1>6. PICK t : t = G1PutAll(s, buf)  OBVIOUS
<1>7. Good(t, Len(buf))  BY <1>1, <1>4, <1>5, <1>6
<1>8. AllWritten(s, t, buf, n)  BY <1>7, MidwayEnd DEF Good
<1>9. t.o.causal /\ t.o.lastCause <= c
  <2>1. Len(buf) # 0 => Len(buf) \in 1 .. Len(buf)  BY <1>1
  <2> QED  BY <1>7, <2>1 DEF Good, Within
<1> QED  BY <1>6, <1>8, <1>9

(* With nothing folded, only what was written last matters.                  *)
LEMMA HeldEmpty ==
    ASSUME NEW s, NEW c, s.p.foldBuf = <<>>, s.p.foldCount = 0
    PROVE  Held(s, c) <=> s.o.causal /\ s.o.lastCause <= c
<1>1. Len(s.p.foldBuf) = 0 /\ ~(s.p.foldCount > 0)  OBVIOUS
<1> QED  BY <1>1 DEF Held

LEMMA HeldLater ==
    ASSUME NEW s \in States, NEW c \in Nat, NEW d \in Nat, c <= d, Held(s, c)
    PROVE  Held(s, d)
<1>1. s.p.foldBuf \in Seq(Entries) /\ s.o.lastCause \in Nat /\ s.o.foldCause \in Nat
  BY StateType DEF Packets, Outputs
<1>2. \A i \in 1 .. Len(s.p.foldBuf) : s.p.foldBuf[i].id \in Nat
  <2>1. \A i \in 1 .. Len(s.p.foldBuf) : s.p.foldBuf[i] \in Entries  BY <1>1
  <2> QED  BY <2>1 DEF Entries
<1>3. \A a \in Nat : a <= c => a <= d  OBVIOUS
<1>4. \A i \in 1 .. Len(s.p.foldBuf) : s.p.foldBuf[i].id <= d  BY <1>2, <1>3 DEF Held
<1>5. s.o.lastCause <= d /\ (s.p.foldCount > 0 => s.o.foldCause <= d)
  BY <1>1, <1>3 DEF Held
<1> QED  BY <1>4, <1>5 DEF Held

LEMMA G1Clear ==
    ASSUME NEW s \in States
    PROVE  LET t == [s EXCEPT !.p.foldCount = 0, !.p.foldBuf = <<>>, !.o.foldCause = 0]
           IN Cleared(s, t) /\ t.o.causal = s.o.causal /\ t.o.lastCause = s.o.lastCause
<1>1. PICK pp \in Packets, oo \in Outputs : s = [p |-> pp, o |-> oo]  BY StateType
<1>2. PICK t : t = [s EXCEPT !.p.foldCount = 0, !.p.foldBuf = <<>>, !.o.foldCause = 0]
  OBVIOUS
<1>3. t = [p |-> [pp EXCEPT !.foldCount = 0, !.foldBuf = <<>>],
           o |-> [oo EXCEPT !.foldCause = 0]]
  BY <1>1, <1>2
<1>4. t \in States
  <2>1. <<>> \in Seq(Entries) /\ 0 \in Nat  OBVIOUS
  <2>2. t.p \in Packets  BY <1>3, <2>1 DEF Packets
  <2>3. t.o \in Outputs  BY <1>3, <2>1 DEF Outputs
  <2> QED  BY <1>3, <2>2, <2>3 DEF States
<1>5. /\ t.p.done = s.p.done /\ t.p.trigger = s.p.trigger /\ t.p.speed = s.p.speed
      /\ t.p.enabled = s.p.enabled /\ t.p.ts = s.p.ts /\ t.p.savedTs = s.p.savedTs
      /\ t.p.payload = s.p.payload /\ t.p.flags = s.p.flags /\ t.p.savedLs = s.p.savedLs
      /\ t.p.tsInt = s.p.tsInt
      /\ t.p.foldBuf = <<>> /\ t.p.foldCount = 0
  BY <1>1, <1>3 DEF Packets
<1>6. /\ t.o.keepOk = s.o.keepOk /\ t.o.savedCause = s.o.savedCause /\ t.o.owed = s.o.owed
      /\ t.o.slack = s.o.slack
      /\ t.o.lastFrame = s.o.lastFrame /\ t.o.inOrder = s.o.inOrder
      /\ t.o.causal = s.o.causal /\ t.o.lastCause = s.o.lastCause
  BY <1>1, <1>3 DEF Outputs
<1>7. Still(s, t)  BY <1>5, <1>6 DEF Still
<1> QED  BY <1>2, <1>4, <1>5, <1>6, <1>7 DEF Cleared

LEMMA G1StopFoldingFacts ==
    ASSUME NEW s \in States, NEW n \in Nat, NEW k \in Int, NEW c \in Nat,
           Account(s, n, k), s.p.savedLs = "none", Held(s, c)
    PROVE  Stopped(s, G1StopFolding(s), n, k) /\ Held(G1StopFolding(s), c)
<1> DEFINE buf == s.p.foldBuf
           folded == s.p.foldCount
<1>1. /\ buf \in Seq(Entries) /\ folded \in Nat /\ s.o.owed \in Int /\ s.p.ts \in Nat
      /\ s.o.foldCause \in Nat /\ s.o.lastCause \in Nat /\ Entered(buf) \in Nat
  BY StateType DEF Packets, Outputs, Entered
<1>2. CASE folded = 0 /\ buf = <<>>
  <2>1. G1StopFolding(s) = s  BY <1>2 DEF G1StopFolding
  <2>2. Entered(buf) = 0  BY <1>2 DEF Entered
  <2>3. s.o.owed = s.o.owed - Entered(buf) - folded  BY <1>1, <1>2, <2>2
  <2>4. Stopped(s, s, n, k)  BY <1>2, <2>3, StoppedWhen DEF Account, Still
  <2> QED  BY <2>1, <2>4
<1>3. CASE ~(folded = 0 /\ buf = <<>>)
  <2>1. PICK e : e = [s EXCEPT !.p.foldCount = 0, !.p.foldBuf = <<>>, !.o.foldCause = 0]
    OBVIOUS
  <2>2. Cleared(s, e) /\ e.o.causal = s.o.causal /\ e.o.lastCause = s.o.lastCause
    BY <2>1, G1Clear
  <2>3. /\ e \in States /\ Still(s, e) /\ e.p.savedLs = "none" /\ e.p.foldBuf = <<>>
        /\ e.p.foldCount = 0 /\ e.o.owed = s.o.owed /\ e.o.lastFrame = s.o.lastFrame
        /\ e.o.inOrder = s.o.inOrder
    BY <2>2 DEF Cleared
  <2>4. PICK told : told = IF folded = 0 THEN e
                           ELSE [G1InfoUnfolded(e, s.p.ts, s.o.foldCause) EXCEPT
                                   !.o.owed = @ - folded]
    OBVIOUS
  <2>5. /\ told \in States /\ Still(s, told) /\ told.p.savedLs = "none"
        /\ told.p.foldBuf = <<>> /\ told.p.foldCount = 0 /\ told.o.owed = s.o.owed - folded
        /\ told.o.lastFrame = s.o.lastFrame /\ told.o.inOrder = s.o.inOrder
        /\ Within(told, buf, c)
    <3>1. CASE folded = 0
      <4>1. told = e  BY <2>4, <3>1
      <4>2. Within(e, buf, c)  BY <2>2 DEF Held, Within
      <4>3. s.o.owed = s.o.owed - folded  BY <1>1, <3>1
      <4> QED  BY <2>3, <4>1, <4>2, <4>3
    <3>2. CASE folded # 0
      <4>1. PICK i : i = Record(e, s.p.ts, s.o.foldCause)  OBVIOUS
      <4>2. /\ i \in States /\ Still(e, i) /\ SameFold(e, i) /\ i.p.savedLs = "none"
            /\ Caused(e, i, s.o.foldCause)
        BY <1>1, <2>3, <4>1, RecordFacts
      <4>3. G1InfoUnfolded(e, s.p.ts, s.o.foldCause) = i
        BY <2>3, <4>1 DEF G1InfoUnfolded, G1SavedLine
      <4>4. i.o.owed = s.o.owed  BY <2>3, <4>2 DEF SameFold
      <4>5. PICK d \in Int : d = i.o.owed - folded  BY <1>1, <4>4
      <4>6. told = [i EXCEPT !.o.owed = d]  BY <2>4, <3>2, <4>3, <4>5
      <4>7. Owing(i, told, d)  BY <4>2, <4>6, SetOwed
      <4>8. Still(s, told)  BY <2>3, <4>2, <4>7 DEF Owing, Still
      <4>9. folded > 0  BY <1>1, <3>2
      <4>10. told.o.causal /\ told.o.lastCause = s.o.foldCause
        BY <2>2, <4>2, <4>7, <4>9 DEF Owing, SameCause, Caused, Held
      <4>11. Within(told, buf, c)  BY <4>9, <4>10 DEF Held, Within
      <4> QED  BY <2>3, <4>2, <4>4, <4>5, <4>7, <4>8, <4>11 DEF Owing, SameFold
    <3> QED  BY <3>1, <3>2
  <2>6. PICK t : t = G1PutAll(told, buf)  OBVIOUS
  <2>7. G1StopFolding(s) = t  BY <1>3, <2>1, <2>4, <2>6 DEF G1StopFolding
  <2>8. AllWritten(told, t, buf, n) /\ t.o.causal /\ t.o.lastCause <= c
    <3>1. /\ told.o.inOrder /\ told.o.lastFrame < n
          /\ Buffered(buf, told.o.lastFrame, n)
      BY <2>5 DEF Account
    <3> QED  BY <1>1, <2>5, <2>6, <3>1, G1PutAllFacts
  <2>9. /\ t \in States /\ Still(s, t) /\ t.p.savedLs = "none" /\ t.p.foldBuf = <<>>
        /\ t.p.foldCount = 0 /\ t.o.inOrder /\ t.o.lastFrame < n
        /\ t.o.owed = told.o.owed - Entered(buf)
        /\ buf = <<>> => t.o.lastFrame = s.o.lastFrame
    BY <2>5, <2>8 DEF AllWritten, Still
  <2>10. t.o.owed = s.o.owed - Entered(buf) - folded
    <3>1. PICK a, b, x \in Int : a = s.o.owed /\ b = Entered(buf) /\ x = folded
      BY <1>1
    <3>2. told.o.owed = a - x  BY <2>5, <3>1
    <3>3. t.o.owed = a - x - b  BY <2>9, <3>1, <3>2
    <3>4. a - x - b = a - b - x  OBVIOUS
    <3> QED  BY <3>1, <3>3, <3>4
  <2>11. Stopped(s, t, n, k)  BY <2>9, <2>10, StoppedWhen
  <2>12. Held(t, c)  BY <2>8, <2>9, HeldEmpty
  <2> QED  BY <2>7, <2>11, <2>12
<1> QED  BY <1>2, <1>3

(* The saved line state ends the folding when it is written.                 *)
LineDone(s, t, n, k) ==
    /\ t \in States /\ Still(s, t) /\ t.p.savedLs = "none" /\ Account(t, n, k)
    /\ Folding(s, n, k) => Folding(t, n, k)
    /\ s.p.foldBuf = <<>> => t.p.foldBuf = <<>> /\ t.o.lastFrame = s.o.lastFrame
    /\ t.p.foldBuf \in {<<>>, s.p.foldBuf}

LEMMA G1LineStateFacts ==
    ASSUME NEW s \in States, NEW n \in Nat, NEW k \in Int, NEW m \in Nat,
           Account(s, n, k), Causes(s, m)
    PROVE  LineDone(s, G1LineStateEvent(s), n, k) /\ Held(G1LineStateEvent(s), m)
<1>1. CASE s.p.savedLs = "none"
  <2>1. G1LineStateEvent(s) = s  BY <1>1 DEF G1LineStateEvent
  <2> QED  BY <1>1, <2>1 DEF LineDone, Still, Causes
<1>2. CASE s.p.savedLs # "none"
  <2>1. PICK d : d = [s EXCEPT !.p.savedLs = "none"]  OBVIOUS
  <2>2. Told(s, d) /\ SameCause(s, d) /\ d \in States  BY <2>1, DropLine DEF Told
  <2>3. Account(d, n, k) /\ (Folding(s, n, k) => Folding(d, n, k)) /\ d.p.savedLs = "none"
    BY <2>2, FoldingKept DEF Told
  <2>4. s.p.savedTs \in Nat /\ s.o.savedCause \in Nat  BY StateType DEF Packets, Outputs
  <2>5. s.o.savedCause <= m /\ Held(s, s.o.savedCause) /\ Held(s, m)
    BY <1>2 DEF Causes
  <2>6. Held(d, s.o.savedCause) /\ Held(d, m)
    BY <2>2, <2>5 DEF Told, SameFold, SameCause, Held
  <2>7. CASE opts.exclude
    <3>1. G1LineStateEvent(s) = d  BY <1>2, <2>1, <2>7 DEF G1LineStateEvent
    <3> QED  BY <2>2, <2>3, <2>6, <3>1 DEF LineDone, Told, SameFold
  <2>8. CASE ~opts.exclude
    <3>1. PICK u : u = G1StopFolding(d)  OBVIOUS
    <3>2. Stopped(d, u, n, k) /\ Held(u, s.o.savedCause)
      BY <2>2, <2>3, <2>4, <2>6, <3>1, G1StopFoldingFacts
    <3>3. PICK t : t = Record(u, s.p.savedTs, s.o.savedCause)  OBVIOUS
    <3>4. G1LineStateEvent(s) = t
      BY <1>2, <2>1, <2>8, <3>1, <3>3 DEF G1LineStateEvent
    <3>5. u \in States /\ u.p.foldBuf = <<>> /\ u.p.foldCount = 0  BY <3>2 DEF Stopped
    <3>6. /\ t \in States /\ Still(u, t) /\ SameFold(u, t) /\ t.p.savedLs = "none"
          /\ Caused(u, t, s.o.savedCause)
      BY <2>4, <3>2, <3>3, <3>5, RecordFacts DEF Stopped
    <3>7. t.p.foldBuf = <<>> /\ t.p.foldCount = 0  BY <3>5, <3>6 DEF SameFold
    <3>8. t.o.causal /\ t.o.lastCause <= m
      <4>1. u.o.causal /\ u.o.lastCause <= s.o.savedCause  BY <3>2, <3>5, HeldEmpty
      <4> QED  BY <2>5, <3>6, <4>1 DEF Caused
    <3>9. Held(t, m)  BY <3>7, <3>8, HeldEmpty
    <3>10. Folding(t, n, k)  BY <3>2, <3>6, FoldingKept DEF Stopped
    <3>11. Still(s, t)  BY <2>2, <3>2, <3>6 DEF Told, Stopped, Still
    <3>12. s.p.foldBuf = <<>> => t.o.lastFrame = s.o.lastFrame
      BY <2>2, <3>2, <3>6 DEF Told, Stopped, SameFold
    <3> QED  BY <3>4, <3>6, <3>7, <3>9, <3>10, <3>11, <3>12 DEF LineDone, Folding
  <2> QED  BY <2>7, <2>8
<1> QED  BY <1>1, <1>2

LEMMA G1CaptureInfoFacts ==
    ASSUME NEW s \in States, NEW n \in Nat, NEW k \in Int, This \in Nat, NEW ts \in Nat,
           Account(s, n, k), Causes(s, This)
    PROVE  LET t == G1CaptureInfo(s, ts)
           IN Stopped(s, t, n, k) /\ Held(t, This) /\ Causes(t, This)
<1>1. PICK m \in Nat : m = This  OBVIOUS
<1>2. PICK a : a = G1LineStateEvent(s)  OBVIOUS
<1>3. LineDone(s, a, n, k) /\ Held(a, m) /\ a \in States
  BY <1>1, <1>2, G1LineStateFacts DEF LineDone
<1>4. PICK b : b = G1StopFolding(a)  OBVIOUS
<1>5. Stopped(a, b, n, k) /\ Held(b, m) /\ b \in States
  BY <1>3, <1>4, G1StopFoldingFacts DEF LineDone, Stopped
<1>6. PICK t : t = Record(b, ts, m)  OBVIOUS
<1>7. G1CaptureInfo(s, ts) = t  BY <1>1, <1>2, <1>4, <1>6 DEF G1CaptureInfo
<1>8. /\ t \in States /\ Still(b, t) /\ SameFold(b, t) /\ t.p.savedLs = "none"
      /\ Caused(b, t, m)
  BY <1>5, <1>6, RecordFacts DEF Stopped
<1>9. t.p.foldBuf = <<>> /\ t.p.foldCount = 0  BY <1>5, <1>8 DEF Stopped, SameFold
<1>10. Held(t, m)
  <2>1. b.o.causal /\ b.o.lastCause <= m  BY <1>5, HeldEmpty DEF Stopped
  <2>2. t.o.causal /\ t.o.lastCause <= m  BY <1>8, <2>1 DEF Caused
  <2> QED  BY <1>9, <2>2, HeldEmpty
<1>11. Stopped(s, t, n, k)
  <2>1. Folding(t, n, k)  BY <1>5, <1>8, FoldingKept DEF Stopped
  <2>2. Still(s, t)  BY <1>3, <1>5, <1>8 DEF LineDone, Stopped, Still
  <2>3. s.p.foldBuf = <<>> => t.o.lastFrame = s.o.lastFrame
    BY <1>3, <1>5, <1>8 DEF LineDone, Stopped, SameFold
  <2> QED  BY <1>8, <1>9, <2>1, <2>2, <2>3 DEF Stopped
<1> QED  BY <1>1, <1>7, <1>8, <1>10, <1>11 DEF Causes

(* Frame n joins the buffer, or the output.                                  *)
LEMMA FoldHeld ==
    ASSUME NEW s \in States, NEW n \in Nat, NEW f \in Entries, f.id = n, Held(s, n),
           NEW t, t.o = s.o, t.p.foldCount = s.p.foldCount,
           t.p.foldBuf = Append(s.p.foldBuf, f)
    PROVE  Held(t, n)
<1>1. s.p.foldBuf \in Seq(Entries)  BY StateType DEF Packets
<1>2. PICK m \in Nat : m = Len(s.p.foldBuf)  BY <1>1
<1>3. /\ Len(t.p.foldBuf) = m + 1 /\ t.p.foldBuf[m + 1] = f
      /\ \A i \in 1 .. m : t.p.foldBuf[i] = s.p.foldBuf[i]
  BY <1>1, <1>2
<1>4. ASSUME NEW i \in 1 .. Len(t.p.foldBuf)
      PROVE  /\ s.o.lastCause <= t.p.foldBuf[i].id /\ t.p.foldBuf[i].id <= n
             /\ s.p.foldCount > 0 => s.o.foldCause <= t.p.foldBuf[i].id
  <2>1. CASE i = m + 1  BY <1>3, <2>1 DEF Held
  <2>2. CASE i # m + 1
    <3>1. i \in 1 .. Len(s.p.foldBuf) /\ t.p.foldBuf[i] = s.p.foldBuf[i]
      BY <1>2, <1>3, <2>2
    <3> QED  BY <3>1 DEF Held
  <2> QED  BY <2>1, <2>2
<1> QED  BY <1>4 DEF Held

LEMMA WriteHeld ==
    ASSUME NEW s \in States, NEW n \in Nat, NEW f \in Entries, f.id = n, Held(s, n),
           NEW t, Wrote(s, t, f), Caused(s, t, n), s.p.foldBuf = <<>>, s.p.foldCount = 0
    PROVE  Held(t, n)
<1>1. t.p.foldBuf = <<>> /\ t.p.foldCount = 0  BY DEF Wrote
<1>2. t.o.causal /\ t.o.lastCause <= n  BY HeldEmpty DEF Caused
<1> QED  BY <1>1, <1>2, HeldEmpty

LEMMA G1WriteFrame ==
    ASSUME NEW s \in States, NEW n \in Nat, NEW f \in Entries, NEW ts \in Nat, f.id = n,
           Folding(s, n, Ones(f)), s.p.foldBuf = <<>>, s.p.savedLs = "none", Held(s, n)
    PROVE  Taken(s, G1Put(s, ts, f), n) /\ Held(G1Put(s, ts, f), n)
<1>1. PICK t : t = G1Put(s, ts, f)  OBVIOUS
<1>2. Wrote(s, t, f) /\ Caused(s, t, n)  BY <1>1, G1PutFacts
<1>3. s.p.foldCount = 0  BY DEF Folding
<1> QED  BY <1>1, <1>2, <1>3, WroteTaken, WriteHeld

LEMMA G1Count ==
    ASSUME NEW s \in States, NEW n \in Nat, Account(s, n, 1), s.p.foldBuf # <<>>, Held(s, n)
    PROVE  LET t == [s EXCEPT !.p.foldCount = @ + 1, !.p.foldBuf = <<>>,
                              !.o.foldCause = Head(s.p.foldBuf).id]
           IN /\ t \in States /\ Still(s, t) /\ t.p.savedLs = s.p.savedLs
              /\ t.p.foldBuf = <<>> /\ Account(t, n, 1) /\ Held(t, n)
<1>1. PICK pp \in Packets, oo \in Outputs : s = [p |-> pp, o |-> oo]  BY StateType
<1>2. /\ s.p.foldCount \in Nat /\ s.o.owed \in Int /\ s.p.foldBuf \in Seq(Entries)
  BY StateType DEF Packets, Outputs
<1>3. PICK c \in Nat : c = s.p.foldCount + 1  BY <1>2
<1>4. PICK h \in Nat : h = Head(s.p.foldBuf).id
  <2>1. Head(s.p.foldBuf) \in Entries  BY <1>2
  <2> QED  BY <2>1 DEF Entries
<1>5. s.o.lastCause <= h /\ h <= n /\ s.o.causal /\ s.o.lastCause <= n
  <2>1. 1 \in 1 .. Len(s.p.foldBuf) /\ h = s.p.foldBuf[1].id  BY <1>2, <1>4
  <2> QED  BY <2>1 DEF Held
<1>6. PICK t : t = [s EXCEPT !.p.foldCount = c, !.p.foldBuf = <<>>, !.o.foldCause = h]
  OBVIOUS
<1>7. t = [p |-> [pp EXCEPT !.foldCount = c, !.foldBuf = <<>>],
           o |-> [oo EXCEPT !.foldCause = h]]
  BY <1>1, <1>6
<1>8. t \in States
  <2>1. <<>> \in Seq(Entries)  OBVIOUS
  <2>2. t.p \in Packets  BY <1>7, <2>1 DEF Packets
  <2>3. t.o \in Outputs  BY <1>7 DEF Outputs
  <2> QED  BY <1>7, <2>2, <2>3 DEF States
<1>9. /\ t.p.done = s.p.done /\ t.p.trigger = s.p.trigger /\ t.p.speed = s.p.speed
      /\ t.p.enabled = s.p.enabled /\ t.p.ts = s.p.ts /\ t.p.savedTs = s.p.savedTs
      /\ t.p.payload = s.p.payload /\ t.p.flags = s.p.flags /\ t.p.savedLs = s.p.savedLs
      /\ t.p.tsInt = s.p.tsInt
      /\ t.p.foldBuf = <<>> /\ t.p.foldCount = c
  BY <1>1, <1>7 DEF Packets
<1>10. /\ t.o.keepOk = s.o.keepOk /\ t.o.savedCause = s.o.savedCause /\ t.o.owed = s.o.owed
       /\ t.o.slack = s.o.slack
       /\ t.o.lastFrame = s.o.lastFrame /\ t.o.inOrder = s.o.inOrder
       /\ t.o.causal = s.o.causal /\ t.o.lastCause = s.o.lastCause /\ t.o.foldCause = h
  BY <1>1, <1>7 DEF Outputs
<1>11. Still(s, t)  BY <1>9, <1>10 DEF Still
<1>12. Len(t.p.foldBuf) = 0  BY <1>9
<1>13. Account(t, n, 1)
  <2>1. s.o.owed = s.p.foldCount + 1 + 1  BY DEF Account, Entered
  <2>2. t.o.owed = t.p.foldCount + Entered(t.p.foldBuf) + 1
    BY <1>2, <1>3, <1>9, <1>10, <2>1 DEF Entered
  <2>3. Buffered(t.p.foldBuf, t.o.lastFrame, n)  BY <1>12 DEF Buffered
  <2>4. Len(t.p.foldBuf) <= FoldBufSize  BY <1>12, ConstantsAssumption
  <2> QED  BY <1>9, <1>10, <2>2, <2>3, <2>4 DEF Account
<1>14. Held(t, n)  BY <1>5, <1>10, <1>12 DEF Held
<1> QED  BY <1>3, <1>4, <1>6, <1>8, <1>9, <1>11, <1>13, <1>14

LEMMA G1CountAndFoldFacts ==
    ASSUME NEW s \in States, NEW n \in Nat, NEW f \in Entries, f.id = n, f.head, opts.fold,
           Account(s, n, 1), s.p.foldBuf # <<>>, s.p.savedLs = "none", Held(s, n), NEW limit
    PROVE  LET t == G1CountAndFold(s, f, limit) IN Taken(s, t, n) /\ Held(t, n)
<1>1. PICK c : c = [s EXCEPT !.p.foldCount = @ + 1, !.p.foldBuf = <<>>,
                             !.o.foldCause = Head(s.p.foldBuf).id]
  OBVIOUS
<1>2. /\ c \in States /\ Still(s, c) /\ c.p.savedLs = "none" /\ c.p.foldBuf = <<>>
      /\ Account(c, n, 1) /\ Held(c, n)
  BY <1>1, G1Count
<1>3. PICK d : d = IF c.p.foldCount = limit THEN G1StopFolding(c) ELSE c  OBVIOUS
<1>4. /\ d \in States /\ Still(s, d) /\ d.p.savedLs = "none" /\ d.p.foldBuf = <<>>
      /\ Account(d, n, 1) /\ Held(d, n)
  <2>1. CASE c.p.foldCount = limit
    <3>1. Stopped(c, d, n, 1) /\ Held(d, n)  BY <1>2, <1>3, <2>1, G1StopFoldingFacts
    <3>2. Still(s, d)  BY <1>2, <3>1 DEF Stopped, Still
    <3> QED  BY <3>1, <3>2 DEF Stopped, Folding
  <2>2. CASE c.p.foldCount # limit  BY <1>2, <1>3, <2>2
  <2> QED  BY <2>1, <2>2
<1>5. PICK t : t = FoldFrame(d, f)  OBVIOUS
<1>6. G1CountAndFold(s, f, limit) = t  BY <1>1, <1>3, <1>5 DEF G1CountAndFold
<1>7. Ones(f) = 1 /\ Len(d.p.foldBuf) < FoldBufSize  BY <1>4, ConstantsAssumption DEF Ones
<1>8. /\ Taken(d, t, n) /\ t.o = d.o /\ t.p.foldCount = d.p.foldCount
      /\ t.p.foldBuf = Append(d.p.foldBuf, f)
  BY <1>4, <1>5, <1>7, FoldFrameFacts
<1>9. Held(t, n)  BY <1>4, <1>8, FoldHeld
<1>10. Taken(s, t, n)  BY <1>4, <1>8 DEF Taken, Still
<1> QED  BY <1>6, <1>9, <1>10

(* An event of frame n of the older device, which may end the process.       *)
G1Event(s, t, n) ==
    /\ t \in States /\ Calm(s, t) /\ Folding(t, n + 1, 0) /\ Causes(t, n)
    /\ ~s.p.done /\ t.p.done => Flushed(t)
    /\ ~s.p.enabled => t.o.lastFrame = s.o.lastFrame /\ t.p.foldBuf = s.p.foldBuf

LEMMA G1LimitFacts ==
    ASSUME NEW s \in States, This \in Nat, Folding(s, This + 1, 0), Held(s, This),
           s.p.savedLs = "none"
    PROVE  LET t == G1CheckCaptureLimit(s)
           IN /\ t \in States /\ Calm(s, t) /\ Folding(t, This + 1, 0) /\ Causes(t, This)
              /\ ~s.p.done /\ t.p.done => Flushed(t)
<1>1. PICK n \in Nat : n = This  OBVIOUS
<1>2. PICK left : left = IF s.p.limit > 0 THEN s.p.limit - 1 ELSE -1  OBVIOUS
<1>3. left \in Int
  <2>1. s.p.limit \in Int  BY StateType DEF Packets
  <2> QED  BY <1>2, <2>1
<1>4. PICK a : a = [s EXCEPT !.p.limit = left]  OBVIOUS
<1>5. Aside(s, a) /\ Still(s, a) /\ a \in States  BY <1>3, <1>4, SetLimit DEF Aside
<1>6. Folding(a, n + 1, 0) /\ Held(a, n)  BY <1>1, <1>5, AsideFacts, FoldingKept
<1>7. Calm(s, a) /\ a.p.done = s.p.done /\ a.p.savedLs = "none" /\ a.p.ts = s.p.ts
  BY <1>5 DEF Still, Calm, Aside
<1>8. Causes(a, n)  BY <1>6, <1>7 DEF Causes
<1>9. CASE left # 0
  <2>1. G1CheckCaptureLimit(s) = a  BY <1>2, <1>4, <1>9 DEF G1CheckCaptureLimit
  <2> QED  BY <1>1, <1>5, <1>6, <1>7, <1>8, <2>1
<1>10. CASE left = 0
  <2>1. s.p.ts \in Nat  BY StateType DEF Packets
  <2>2. PICK i : i = G1CaptureInfo(a, s.p.ts)  OBVIOUS
  <2>3. Stopped(a, i, n + 1, 0) /\ Causes(i, n)
    <3>1. Account(a, n + 1, 0)  BY <1>6 DEF Folding
    <3> QED  BY <1>1, <1>5, <1>8, <2>1, <2>2, <3>1, G1CaptureInfoFacts
  <2>4. /\ i \in States /\ Still(a, i) /\ Folding(i, n + 1, 0) /\ Flushed(i)
    BY <2>3 DEF Stopped, Flushed
  <2>5. PICK t : t = [i EXCEPT !.p.done = TRUE]  OBVIOUS
  <2>6. Aside(i, t) /\ Calm(i, t) /\ t \in States  BY <2>4, <2>5, SetDone DEF Aside
  <2>7. G1CheckCaptureLimit(s) = t
    BY <1>2, <1>4, <1>10, <2>2, <2>5 DEF G1CheckCaptureLimit
  <2>8. Folding(t, n + 1, 0) /\ Causes(t, n)
    BY <2>3, <2>4, <2>6, AsideFacts, FoldingKept
  <2>9. Flushed(t)  BY <2>4, <2>6 DEF Flushed, Aside
  <2>10. Calm(s, t)  BY <1>7, <2>4, <2>6 DEF Calm, Still
  <2> QED  BY <1>1, <2>6, <2>7, <2>8, <2>9, <2>10
<1> QED  BY <1>9, <1>10

LEMMA G1KeepaliveFacts ==
    ASSUME NEW s \in States, This \in Nat, Folding(s, This, 0), Held(s, This),
           s.p.savedLs = "none", NEW ts \in Nat
    PROVE  G1Event(s, G1KeepaliveEvent(s, ts), This)
<1>1. PICK n \in Nat : n = This  OBVIOUS
<1>2. CASE ~s.p.enabled
  <2>1. G1KeepaliveEvent(s, ts) = s  BY <1>2 DEF G1KeepaliveEvent
  <2>2. Folding(s, n + 1, 0) /\ Causes(s, n)  BY <1>1, FoldingLater DEF Causes
  <2> QED  BY <1>1, <2>1, <2>2 DEF G1Event, Calm
<1>3. CASE s.p.enabled
  <2>1. PICK f : f = Frame(s, ts, TRUE, TRUE)  OBVIOUS
  <2>2. f \in Entries /\ f.id = n /\ f.head  BY <1>1, <2>1, FrameType
  <2>3. Ones(f) = 1  BY <2>2 DEF Ones
  <2>4. PICK t : t = [s EXCEPT !.o.owed = @ + 1]  OBVIOUS
  <2>5. Owing(s, t, s.o.owed + 1) /\ t \in States /\ Folding(t, n, 1)
    BY <1>1, <2>4, Accept
  <2>6. /\ t.p = s.p /\ Account(t, n, 1) /\ Still(s, t) /\ SameCause(s, t)
        /\ t.p.savedLs = "none"
    BY <2>5 DEF Owing, Folding
  <2>7. Held(t, n) /\ Causes(t, n)  BY <1>1, <2>6 DEF Held, SameCause, Causes
  <2>8. PICK u : u = IF ~opts.fold THEN G1Put(G1StopFolding(G1LineStateEvent(t)), ts, f)
                     ELSE IF s.p.foldBuf # <<>> THEN G1CountAndFold(t, f, FoldLimitLSFS)
                     ELSE FoldFrame(t, f)
    OBVIOUS
  <2>9. u \in States /\ Still(t, u) /\ u.p.savedLs = "none" /\ Folding(u, n + 1, 0) /\ Held(u, n)
    <3>1. CASE ~opts.fold
      <4>1. PICK d : d = G1StopFolding(t)  OBVIOUS
      <4>2. Stopped(t, d, n, 1) /\ Held(d, n)  BY <2>5, <2>6, <2>7, <4>1, G1StopFoldingFacts
      <4>3. u = G1Put(d, ts, f)  BY <2>6, <2>8, <3>1, <4>1 DEF G1LineStateEvent
      <4>4. Taken(d, u, n) /\ Held(u, n)
        BY <2>2, <2>3, <4>2, <4>3, G1WriteFrame DEF Stopped
      <4> QED  BY <4>2, <4>4 DEF Stopped, Taken, Still
    <3>2. CASE opts.fold /\ s.p.foldBuf # <<>>
      <4>1. u = G1CountAndFold(t, f, FoldLimitLSFS)  BY <2>8, <3>2
      <4>2. Taken(t, u, n) /\ Held(u, n)
        BY <2>2, <2>5, <2>6, <2>7, <3>2, <4>1, G1CountAndFoldFacts
      <4> QED  BY <4>2 DEF Taken
    <3>3. CASE opts.fold /\ s.p.foldBuf = <<>>
      <4>1. u = FoldFrame(t, f)  BY <2>8, <3>3
      <4>2. Len(t.p.foldBuf) < FoldBufSize  BY <2>6, <3>3, ConstantsAssumption
      <4>3. /\ Taken(t, u, n) /\ u.o = t.o /\ u.p.foldCount = t.p.foldCount
            /\ u.p.foldBuf = Append(t.p.foldBuf, f)
        BY <2>2, <2>3, <2>5, <2>6, <3>3, <4>1, <4>2, FoldFrameFacts
      <4>4. Held(u, n)  BY <2>2, <2>5, <2>7, <4>3, FoldHeld
      <4> QED  BY <4>3, <4>4 DEF Taken
    <3> QED  BY <3>1, <3>2, <3>3
  <2>10. G1KeepaliveEvent(s, ts) = G1CheckCaptureLimit(u)
    BY <1>3, <2>1, <2>4, <2>8 DEF G1KeepaliveEvent
  <2>11. PICK v : v = G1CheckCaptureLimit(u)  OBVIOUS
  <2>12. /\ v \in States /\ Calm(u, v) /\ Folding(v, n + 1, 0) /\ Causes(v, n)
         /\ ~u.p.done /\ v.p.done => Flushed(v)
    BY <1>1, <2>9, <2>11, G1LimitFacts
  <2>13. Calm(s, v) /\ u.p.done = s.p.done  BY <2>6, <2>9, <2>12 DEF Calm, Still
  <2> QED  BY <1>1, <1>3, <2>10, <2>11, <2>12, <2>13 DEF G1Event
<1> QED  BY <1>2, <1>3

LEMMA G1FoldDataFacts ==
    ASSUME NEW s \in States, NEW n \in Nat, NEW f \in Entries, NEW pid,
           f.id = n, f.head <=> pid = "SOF" /\ s.p.speed # "LS",
           opts.fold, Folding(s, n, Ones(f)), Held(s, n), s.p.savedLs = "none",
           Len(s.p.foldBuf) < FoldBufSize
    PROVE  Taken(s, G1FoldData(s, f, pid), n) /\ Held(G1FoldData(s, f, pid), n)
<1>1. Account(s, n, Ones(f)) /\ s.p.ts \in Nat  BY StateType DEF Folding, Packets
<1>2. PICK t : t = G1FoldData(s, f, pid)  OBVIOUS
<1>3. CASE t = FoldFrame(s, f) /\ (f.head <=> s.p.foldBuf = <<>>)
  <2>1. /\ Taken(s, t, n) /\ t.o = s.o /\ t.p.foldCount = s.p.foldCount
        /\ t.p.foldBuf = Append(s.p.foldBuf, f)
    BY <1>1, <1>3, FoldFrameFacts
  <2>2. Held(t, n)  BY <2>1, FoldHeld
  <2> QED  BY <1>2, <2>1, <2>2
<1>4. CASE s.p.foldBuf # <<>> /\ pid = "IN"
  <2>1. t = FoldFrame(s, f)  BY <1>2, <1>4 DEF G1FoldData
  <2>2. ~f.head  BY <1>4
  <2> QED  BY <1>3, <1>4, <2>1, <2>2
<1>5. CASE s.p.foldBuf # <<>> /\ pid # "IN" /\ f.head
  <2>1. PICK limit : t = G1CountAndFold(s, f, limit)  BY <1>2, <1>5 DEF G1FoldData
  <2>2. Ones(f) = 1  BY <1>5 DEF Ones
  <2> QED  BY <1>1, <1>2, <1>5, <2>1, <2>2, G1CountAndFoldFacts
<1>6. CASE s.p.foldBuf # <<>> /\ pid # "IN" /\ ~f.head
  <2>1. PICK d : d = G1StopFolding(s)  OBVIOUS
  <2>2. t = G1Put(d, s.p.ts, f)  BY <1>2, <1>6, <2>1 DEF G1FoldData
  <2>3. Ones(f) = 0  BY <1>6 DEF Ones
  <2>4. Stopped(s, d, n, 0) /\ Held(d, n)  BY <1>1, <2>1, <2>3, G1StopFoldingFacts
  <2>5. Taken(d, t, n) /\ Held(t, n)
    BY <1>1, <2>2, <2>3, <2>4, G1WriteFrame DEF Stopped
  <2>6. Taken(s, t, n)  BY <2>4, <2>5 DEF Taken, Stopped, Still
  <2> QED  BY <1>2, <2>5, <2>6
<1>7. CASE s.p.foldBuf = <<>> /\ f.head
  <2>1. t = FoldFrame(s, f)  BY <1>2, <1>7 DEF G1FoldData
  <2> QED  BY <1>3, <1>7, <2>1
<1>8. CASE s.p.foldBuf = <<>> /\ ~f.head
  <2>1. t = G1Put(s, s.p.ts, f)  BY <1>2, <1>8 DEF G1FoldData
  <2> QED  BY <1>1, <1>2, <1>8, <2>1, G1WriteFrame
<1> QED  BY <1>4, <1>5, <1>6, <1>7, <1>8

LEMMA G1MaybeInfo ==
    ASSUME NEW s \in States, This \in Nat, NEW k \in Int, NEW b, NEW ts \in Nat,
           Folding(s, This, k), Held(s, This), s.p.savedLs = "none"
    PROVE  LET t == IF b THEN G1CaptureInfo(s, ts) ELSE s
           IN /\ t \in States /\ Still(s, t) /\ t.p.savedLs = "none" /\ Folding(t, This, k)
              /\ Held(t, This) /\ t.p.foldBuf \in {<<>>, s.p.foldBuf}
<1>1. CASE b
  <2>1. PICK t : t = G1CaptureInfo(s, ts)  OBVIOUS
  <2>2. Account(s, This, k) /\ Causes(s, This)  BY DEF Folding, Causes
  <2>3. Stopped(s, t, This, k) /\ Held(t, This)  BY <2>1, <2>2, G1CaptureInfoFacts
  <2> QED  BY <1>1, <2>1, <2>3 DEF Stopped
<1>2. CASE ~b  BY <1>2 DEF Still
<1> QED  BY <1>1, <1>2

LEMMA G1DataFacts ==
    ASSUME NEW s \in States, This \in Nat, Folding(s, This, 0), Causes(s, This), NEW pid
    PROVE  G1Event(s, G1DataEvent(s, pid), This)
<1>1. PICK n \in Nat : n = This  OBVIOUS
<1>2. CASE ~s.p.enabled
  <2>1. G1DataEvent(s, pid) = s  BY <1>2 DEF G1DataEvent
  <2>2. Folding(s, n + 1, 0)  BY <1>1, FoldingLater
  <2> QED  BY <1>1, <2>1, <2>2 DEF G1Event, Calm
<1>3. CASE s.p.enabled
  <2> DEFINE flags == s.p.flags
  <2>1. PICK starts \in BOOLEAN : starts = (pid = "SOF" /\ s.p.speed # "LS")  OBVIOUS
  <2>2. s.p.ts \in Nat  BY StateType DEF Packets
  <2>3. PICK f : f = Frame(s, s.p.ts, starts, FALSE)  OBVIOUS
  <2>4. f \in Entries /\ f.id = n /\ f.head = starts
    BY <1>1, <2>2, <2>3 DEF Frame, Entries
  <2>5. PICK k \in {0, 1} : k = IF starts THEN 1 ELSE 0  OBVIOUS
  <2>6. Ones(f) = k  BY <2>4, <2>5 DEF Ones
  <2>7. PICK s0 : s0 = [s EXCEPT !.o.owed = @ + k]  OBVIOUS
  <2>8. Owing(s, s0, s.o.owed + k) /\ s0 \in States /\ Folding(s0, n, k)
    BY <1>1, <2>7, Accept
  <2>9. /\ Still(s, s0) /\ s0.p = s.p /\ Account(s0, n, k) /\ SameCause(s, s0)
        /\ s0.o.savedCause = s.o.savedCause
    BY <2>8 DEF Owing, Folding, Still
  <2>10. Causes(s0, n)  BY <1>1, <2>9 DEF Causes, Held, SameCause
  <2>11. PICK s1 : s1 = G1LineStateEvent(s0)  OBVIOUS
  <2>12. LineDone(s0, s1, n, k) /\ Held(s1, n)
    BY <2>8, <2>9, <2>10, <2>11, G1LineStateFacts
  <2>13. /\ s1 \in States /\ Still(s, s1) /\ Folding(s1, n, k) /\ s1.p.savedLs = "none"
    BY <2>8, <2>9, <2>12 DEF LineDone, Still
  <2>14. PICK s2 : s2 = IF flags # {} \/ Len(s1.p.foldBuf) = FoldBufSize
                        THEN G1StopFolding(s1) ELSE s1
    OBVIOUS
  <2>15. /\ s2 \in States /\ Still(s, s2) /\ Folding(s2, n, k) /\ Held(s2, n)
         /\ s2.p.savedLs = "none" /\ Len(s2.p.foldBuf) < FoldBufSize
         /\ flags # {} => s2.p.foldBuf = <<>>
    <3>1. CASE flags # {} \/ Len(s1.p.foldBuf) = FoldBufSize
      <4>1. Stopped(s1, s2, n, k) /\ Held(s2, n)
        BY <2>12, <2>13, <2>14, <3>1, G1StopFoldingFacts DEF Folding
      <4>2. Len(s2.p.foldBuf) < FoldBufSize  BY <4>1, ConstantsAssumption DEF Stopped
      <4>3. Still(s, s2)  BY <2>13, <4>1 DEF Stopped, Still
      <4> QED  BY <4>1, <4>2, <4>3 DEF Stopped
    <3>2. CASE ~(flags # {} \/ Len(s1.p.foldBuf) = FoldBufSize)
      <4>1. s2 = s1  BY <2>14, <3>2
      <4>2. Len(s1.p.foldBuf) <= FoldBufSize  BY <2>13 DEF Folding, Account
      <4>3. Len(s1.p.foldBuf) \in Nat  BY <2>13, StateType DEF Packets
      <4>4. Len(s1.p.foldBuf) < FoldBufSize  BY <3>2, <4>2, <4>3, ConstantsAssumption
      <4> QED  BY <2>12, <2>13, <3>2, <4>1, <4>4
    <3> QED  BY <3>1, <3>2
  <2>16. PICK s3 : s3 = IF "overflow" \in flags THEN G1CaptureInfo(s2, s.p.ts) ELSE s2
    OBVIOUS
  <2>17. /\ s3 \in States /\ Still(s2, s3) /\ s3.p.savedLs = "none" /\ Folding(s3, n, k)
         /\ Held(s3, n) /\ s3.p.foldBuf \in {<<>>, s2.p.foldBuf}
    <3>1. k \in Int  OBVIOUS
    <3> QED  BY <1>1, <2>2, <2>15, <2>16, <3>1, G1MaybeInfo
  <2>18. PICK s4 : s4 = IF "data" \in flags THEN G1CaptureInfo(s3, s.p.ts) ELSE s3
    OBVIOUS
  <2>19. /\ s4 \in States /\ Still(s3, s4) /\ s4.p.savedLs = "none" /\ Folding(s4, n, k)
         /\ Held(s4, n) /\ s4.p.foldBuf \in {<<>>, s3.p.foldBuf}
    <3>1. k \in Int  OBVIOUS
    <3> QED  BY <1>1, <2>2, <2>17, <2>18, <3>1, G1MaybeInfo
  <2>20. Still(s, s4)  BY <2>15, <2>17, <2>19 DEF Still
  <2>21. /\ Len(s4.p.foldBuf) < FoldBufSize
         /\ flags # {} => s4.p.foldBuf = <<>>
    <3>1. s4.p.foldBuf \in {<<>>, s2.p.foldBuf}  BY <2>17, <2>19
    <3>2. Len(<<>>) < FoldBufSize  BY ConstantsAssumption
    <3> QED  BY <2>15, <3>1, <3>2
  <2>22. PICK u : u = IF flags \ {"overflow"} # {} \/ ~opts.fold
                      THEN G1Put(s4, s.p.ts, f) ELSE G1FoldData(s4, f, pid)
    OBVIOUS
  <2>23. Taken(s4, u, n) /\ Held(u, n)
    <3>1. CASE flags \ {"overflow"} # {} \/ ~opts.fold
      <4>1. u = G1Put(s4, s.p.ts, f)  BY <2>22, <3>1
      <4>2. s4.p.foldBuf = <<>>
        <5>1. ~opts.fold => s4.p.foldBuf = <<>>  BY <2>19 DEF Folding, Account
        <5> QED  BY <2>21, <3>1, <5>1
      <4> QED  BY <2>2, <2>4, <2>6, <2>19, <4>1, <4>2, G1WriteFrame
    <3>2. CASE ~(flags \ {"overflow"} # {} \/ ~opts.fold)
      <4>1. u = G1FoldData(s4, f, pid) /\ opts.fold  BY <2>22, <3>2
      <4>2. f.head <=> pid = "SOF" /\ s4.p.speed # "LS"  BY <2>1, <2>4, <2>20 DEF Still
      <4> QED  BY <2>4, <2>6, <2>19, <2>21, <4>1, <4>2, G1FoldDataFacts
    <3> QED  BY <3>1, <3>2
  <2>24. G1DataEvent(s, pid) = G1CheckCaptureLimit(u)
    BY <1>3, <2>1, <2>3, <2>5, <2>7, <2>11, <2>14, <2>16, <2>18, <2>22 DEF G1DataEvent
  <2>25. PICK v : v = G1CheckCaptureLimit(u)  OBVIOUS
  <2>26. /\ v \in States /\ Calm(u, v) /\ Folding(v, n + 1, 0) /\ Causes(v, n)
         /\ ~u.p.done /\ v.p.done => Flushed(v)
    BY <1>1, <2>23, <2>25, G1LimitFacts DEF Taken
  <2>27. Calm(s, v) /\ u.p.done = s.p.done  BY <2>20, <2>23, <2>26 DEF Calm, Taken, Still
  <2> QED  BY <1>1, <1>3, <2>24, <2>25, <2>26, <2>27 DEF G1Event
<1> QED  BY <1>2, <1>3

-----------------------------------------------------------------------------
(* Status frames of the older device.                                        *)

Fine(s) == s \in States /\ Folding(s, This, 0) /\ Causes(s, This)

G1Reported(s, t) ==
    /\ Fine(t) /\ t.p.payload = s.p.payload /\ t.p.done = s.p.done
    /\ t.o.keepOk = s.o.keepOk
    /\ Shut(s) => Shut(t)
    /\ s.p.foldBuf = <<>> => t.p.foldBuf = <<>> /\ t.o.lastFrame = s.o.lastFrame

LEMMA G1ReportedTwice ==
    ASSUME NEW s, NEW t, NEW u, G1Reported(s, t), G1Reported(t, u)
    PROVE  G1Reported(s, u)
BY DEF G1Reported

LEMMA FineAside ==
    ASSUME NEW s, Fine(s), NEW t, Aside(s, t)
    PROVE  Fine(t) /\ SameFold(s, t) /\ t.o.keepOk = s.o.keepOk
<1>1. s \in States /\ Folding(s, This, 0) /\ Causes(s, This)  BY DEF Fine
<1>2. SameFold(s, t) /\ Causes(t, This)  BY <1>1, AsideFacts
<1>3. Folding(t, This, 0)  BY <1>1, <1>2, FoldingKept
<1> QED  BY <1>2, <1>3 DEF Aside, Fine

LEMMA G1InfoReported ==
    ASSUME NEW s, Fine(s), This \in Nat, NEW ts \in Nat
    PROVE  LET t == G1CaptureInfo(s, ts)
           IN G1Reported(s, t) /\ Steady(s, t) /\ Flushed(t) /\ t \in States
<1>1. PICK t : t = G1CaptureInfo(s, ts)  OBVIOUS
<1>2. s \in States /\ Account(s, This, 0) /\ Causes(s, This)  BY DEF Fine, Folding
<1>3. Stopped(s, t, This, 0) /\ Causes(t, This)  BY <1>1, <1>2, G1CaptureInfoFacts
<1>4. Fine(t) /\ Flushed(t) /\ Shut(t)  BY <1>3 DEF Stopped, Fine, Flushed, Shut
<1> QED  BY <1>1, <1>3, <1>4 DEF Stopped, Still, G1Reported, Steady

LEMMA G1TriggerFacts ==
    ASSUME NEW s, Fine(s), This \in Nat, NEW x \in {0, 1}, opts.trigger \in Triggers
    PROVE  LET t == G1TriggerChange(s, x)
           IN /\ G1Reported(s, t)
              /\ \A a : Gated(s, a) => Gated(t, a)
              /\ opts.trigger \in {"falling", "rising"} /\ s.p.enabled => t.p.enabled
<1>1. CASE s.p.trigger = x  BY <1>1 DEF G1TriggerChange, G1Reported
<1>2. CASE s.p.trigger # x
  <2>1. s \in States /\ s.p.ts \in Nat  BY StateType DEF Fine, Packets
  <2>2. PICK b \in BOOLEAN : b = Gate(s, x)  BY <2>1, GateFacts
  <2>3. PICK g : g = Gating(s, x)  OBVIOUS
  <2>4. /\ Aside(s, g) /\ g.p.enabled = b /\ g.p.trigger = x
        /\ g.p.payload = s.p.payload /\ g.p.done = s.p.done
    <3>1. /\ Aside(s, g) /\ (g.p.enabled <=> Gate(s, x)) /\ g.p.trigger = x
          /\ g.p.payload = s.p.payload /\ g.p.done = s.p.done
      BY <2>1, <2>3, SetGate
    <3>2. g.p.enabled \in BOOLEAN  BY <3>1, StateType DEF Aside, Packets
    <3> QED  BY <2>2, <3>1, <3>2
  <2>5. Fine(g) /\ SameFold(s, g) /\ g.o.keepOk = s.o.keepOk  BY <2>4, FineAside
  <2>6. PICK t : t = G1CaptureInfo(g, s.p.ts)  OBVIOUS
  <2>7. G1Reported(g, t) /\ Steady(g, t) /\ Flushed(t)
    BY <2>1, <2>5, <2>6, G1InfoReported
  <2>8. G1Reported(s, t)
    <3>1. Shut(t)  BY <2>7 DEF Flushed, Shut
    <3> QED  BY <2>4, <2>5, <2>7, <3>1 DEF G1Reported, SameFold
  <2>9. PICK u : u = IF t.p.enabled # s.p.enabled THEN G1CaptureInfo(t, s.p.ts) ELSE t
    OBVIOUS
  <2>10. G1Reported(t, u) /\ Steady(t, u)
    <3>1. CASE t.p.enabled # s.p.enabled
      BY <2>1, <2>8, <2>9, <3>1, G1InfoReported DEF G1Reported
    <3>2. CASE t.p.enabled = s.p.enabled  BY <2>8, <2>9, <3>2 DEF G1Reported, Steady
    <3> QED  BY <3>1, <3>2
  <2>11. G1TriggerChange(s, x) = u
    BY <1>2, <2>3, <2>6, <2>9 DEF G1TriggerChange, Gating
  <2>12. G1Reported(s, u)  BY <2>8, <2>10, G1ReportedTwice
  <2>13. u.p.enabled = b /\ u.p.trigger = x  BY <2>4, <2>7, <2>10 DEF Steady
  <2>14. ASSUME NEW a PROVE Gated(u, a)  BY <2>1, <2>2, <2>13, GateFacts DEF Gated
  <2>15. opts.trigger \in {"falling", "rising"} /\ s.p.enabled => u.p.enabled
    BY <2>1, <2>2, <2>13, GateFacts
  <2> QED  BY <2>11, <2>12, <2>14, <2>15
<1> QED  BY <1>1, <1>2

LEMMA G1VbusFacts ==
    ASSUME NEW s, Fine(s), This \in Nat, NEW x \in {0, 1}
    PROVE  G1Reported(s, G1VbusChange(s, x)) /\ Steady(s, G1VbusChange(s, x))
<1>1. CASE s.p.vbus = x  BY <1>1 DEF G1VbusChange, G1Reported, Steady
<1>2. CASE s.p.vbus # x
  <2>1. s \in States /\ s.p.ts \in Nat  BY StateType DEF Fine, Packets
  <2>2. PICK g : g = [s EXCEPT !.p.vbus = x]  OBVIOUS
  <2>3. Aside(s, g) /\ Still(s, g)  BY <2>1, <2>2, SetVbus
  <2>4. G1Reported(s, g) /\ Steady(s, g) /\ Fine(g)
    <3>1. Fine(g) /\ SameFold(s, g)  BY <2>3, FineAside
    <3> QED  BY <2>3, <3>1 DEF Still, G1Reported, Steady, Shut, SameFold
  <2>5. PICK t : t = G1CaptureInfo(g, s.p.ts)  OBVIOUS
  <2>6. G1Reported(g, t) /\ Steady(g, t)  BY <2>1, <2>4, <2>5, G1InfoReported
  <2>7. G1VbusChange(s, x) = t  BY <1>2, <2>2, <2>5 DEF G1VbusChange
  <2>8. Steady(s, t)  BY <2>4, <2>6 DEF Steady
  <2> QED  BY <2>4, <2>6, <2>7, <2>8, G1ReportedTwice
<1> QED  BY <1>1, <1>2

LEMMA G1SpeedFacts ==
    ASSUME NEW s, Fine(s), This \in Nat, NEW x \in Speeds
    PROVE  G1Reported(s, G1SpeedChange(s, x)) /\ Steady(s, G1SpeedChange(s, x))
<1>1. CASE s.p.speed = x  BY <1>1 DEF G1SpeedChange, G1Reported, Steady
<1>2. CASE s.p.speed # x
  <2>1. s \in States /\ s.p.ts \in Nat  BY StateType DEF Fine, Packets
  <2>2. PICK g : g = [s EXCEPT !.p.speed = x]  OBVIOUS
  <2>3. Aside(s, g) /\ Calm(s, g) /\ g.p.done = s.p.done  BY <2>1, <2>2, SetSpeed
  <2>4. G1Reported(s, g) /\ Steady(s, g) /\ Fine(g)
    <3>1. Fine(g) /\ SameFold(s, g)  BY <2>3, FineAside
    <3> QED  BY <2>3, <3>1 DEF Calm, G1Reported, Steady, Shut, SameFold
  <2>5. PICK t : t = G1CaptureInfo(g, s.p.ts)  OBVIOUS
  <2>6. G1Reported(g, t) /\ Steady(g, t)  BY <2>1, <2>4, <2>5, G1InfoReported
  <2>7. G1SpeedChange(s, x) = IF s.p.enabled THEN t ELSE g
    BY <1>2, <2>2, <2>5 DEF G1SpeedChange
  <2>8. Steady(s, t)  BY <2>4, <2>6 DEF Steady
  <2> QED  BY <2>4, <2>6, <2>7, <2>8, G1ReportedTwice
<1> QED  BY <1>1, <1>2

LEMMA G1LineFacts ==
    ASSUME NEW s, Fine(s), Shut(s), This \in Nat, NEW ls \in LineStates
    PROVE  G1Event(s, G1LineChange(s, ls), This)
<1>1. PICK n \in Nat : n = This  OBVIOUS
<1>2. /\ s \in States /\ Folding(s, n, 0) /\ Causes(s, n) /\ s.p.ts \in Nat
      /\ s.p.savedTs \in Nat
  BY <1>1, StateType DEF Fine, Packets
<1>3. Folding(s, n + 1, 0)  BY <1>2, FoldingLater
<1>4. CASE s.p.ls = ls
  <2>1. G1LineChange(s, ls) = s  BY <1>4 DEF G1LineChange
  <2> QED  BY <1>1, <1>2, <1>3, <2>1 DEF G1Event, Calm
<1>5. CASE s.p.ls # ls
  <2>1. PICK t : t = [s EXCEPT !.p.ls = ls]  OBVIOUS
  <2>2. Aside(s, t) /\ Still(s, t) /\ t \in States  BY <1>2, <2>1, SetLs DEF Aside
  <2>3. Fine(t) /\ SameFold(s, t)  BY <2>2, FineAside
  <2>4. Folding(t, n, 0) /\ Causes(t, n) /\ Account(t, n, 0)
    BY <1>1, <2>3 DEF Fine, Folding
  <2> DEFINE delta == s.p.ts - s.p.savedTs
             keep == /\ s.p.speed = "LS" /\ s.p.savedLs = "SE0" /\ ls = "J3"
                     /\ KeepMin < delta /\ delta < KeepMax
  <2>5. CASE keep
    <3>1. PICK d : d = [t EXCEPT !.p.savedLs = "none"]  OBVIOUS
    <3>2. Told(t, d) /\ SameCause(t, d)  BY <2>2, <3>1, DropLine
    <3>3. G1LineChange(s, ls) = G1KeepaliveEvent(d, s.p.savedTs)
      BY <1>5, <2>1, <2>5, <3>1 DEF G1LineChange
    <3>4. d \in States /\ Folding(d, n, 0) /\ d.p.savedLs = "none"
      BY <2>4, <3>2, FoldingKept DEF Told
    <3>5. Held(d, n)  BY <2>4, <3>2 DEF Causes, Held, Told, SameFold, SameCause
    <3>6. PICK v : v = G1KeepaliveEvent(d, s.p.savedTs)  OBVIOUS
    <3>7. G1Event(d, v, n)  BY <1>1, <1>2, <3>4, <3>5, <3>6, G1KeepaliveFacts
    <3>8. /\ Calm(s, v) /\ d.p.done = s.p.done /\ d.p.enabled = s.p.enabled
          /\ d.o.lastFrame = s.o.lastFrame /\ d.p.foldBuf = s.p.foldBuf
      BY <2>2, <2>3, <3>2, <3>7 DEF G1Event, Calm, Told, Still, SameFold
    <3> QED  BY <1>1, <3>3, <3>6, <3>7, <3>8 DEF G1Event
  <2>6. CASE ~keep
    <3>1. PICK d : d = G1LineStateEvent(t)  OBVIOUS
    <3>2. LineDone(t, d, n, 0) /\ Held(d, n)  BY <2>2, <2>4, <3>1, G1LineStateFacts
    <3>3. d \in States /\ Folding(d, n, 0) /\ Still(t, d)  BY <2>4, <3>2 DEF LineDone
    <3>4. PICK v : v = SavedLine(d, ls, s.p.ts, n)  OBVIOUS
    <3>5. G1LineChange(s, ls) = v
      BY <1>1, <1>5, <2>1, <2>6, <3>1, <3>4 DEF G1LineChange, SavedLine
    <3>6. /\ v \in States /\ Calm(d, v) /\ SameFold(d, v) /\ v.p.done = d.p.done
          /\ SameCause(d, v) /\ v.o.savedCause = n
      <4>1. d \in States /\ s.p.ts \in Nat  BY <1>2, <3>3
      <4> QED  BY <3>4, <4>1, SaveLineCause, Zenon
    <3>7. Folding(v, n, 0)  BY <3>3, <3>6, FoldingKept
    <3>8. Folding(v, n + 1, 0)  BY <3>6, <3>7, FoldingLater
    <3>9. Causes(v, n)
      <4>1. Held(v, n)  BY <3>2, <3>6 DEF Held, SameFold, SameCause
      <4> QED  BY <3>6, <4>1 DEF Causes
    <3>10. Calm(s, v) /\ v.p.done = s.p.done  BY <2>2, <3>3, <3>6 DEF Calm, Still
    <3>11. ~s.p.enabled => v.o.lastFrame = s.o.lastFrame /\ v.p.foldBuf = s.p.foldBuf
      BY <2>3, <3>2, <3>6 DEF Shut, LineDone, SameFold
    <3> QED  BY <1>1, <3>5, <3>6, <3>8, <3>9, <3>10, <3>11 DEF G1Event
  <2> QED  BY <2>5, <2>6
<1> QED  BY <1>4, <1>5

LEMMA G1TickFacts ==
    ASSUME Fine(Now), This \in Nat, NEW c \in Clocks
    PROVE  G1Reported(Now, G1Tick(c)) /\ Steady(Now, G1Tick(c))
<1>1. Now \in States  BY DEF Fine
<1>2. PICK s : s = Stamp(c)  OBVIOUS
<1>3. /\ Moved(Now, s) /\ SameCause(Now, s) /\ s.p.savedLs = p.savedLs /\ s \in States
      /\ Now.p = p /\ Now.o = o
  BY <1>1, <1>2, Clock, NowFacts DEF Moved
<1>4. Fine(s)
  <2>1. Folding(s, This, 0)  BY <1>3, FoldingKept DEF Fine, Moved
  <2>2. Causes(s, This)  BY <1>3 DEF Fine, Moved, SameFold, SameCause, Causes, Held
  <2> QED  BY <1>3, <2>1, <2>2 DEF Fine
<1>5. G1Reported(Now, s) /\ Steady(Now, s)
  BY <1>3, <1>4 DEF G1Reported, Steady, Moved, SameFold, Shut
<1>6. s.p.ts \in Nat  BY <1>3, StateType DEF Packets
<1>7. G1Tick(c) = IF s.p.ts < s.p.lastTs \/ s.p.ts - s.p.lastTs > UpdateInterval
                  THEN G1TimeoutEvent(s) ELSE s
  BY <1>2 DEF G1Tick
<1>8. PICK t : t = G1CaptureInfo(s, s.p.ts)  OBVIOUS
<1>9. G1Reported(s, t) /\ Steady(s, t)  BY <1>4, <1>6, <1>8, G1InfoReported
<1>10. G1Reported(Now, t) /\ Steady(Now, t)  BY <1>5, <1>9, G1ReportedTwice DEF Steady
<1>11. G1Tick(c) \in {s, t}  BY <1>7, <1>8 DEF G1TimeoutEvent
<1> QED  BY <1>5, <1>10, <1>11

-----------------------------------------------------------------------------
(* The actions of the older device.                                          *)

LEMMA CausesLater ==
    ASSUME NEW s \in States, NEW n \in Nat, Causes(s, n)
    PROVE  Causes(s, n + 1)
<1>1. Held(s, n + 1)
  <2>1. Held(s, n) /\ n <= n + 1 /\ n + 1 \in Nat  BY DEF Causes
  <2> QED  BY <2>1, HeldLater
<1>2. s.o.savedCause \in Nat  BY StateType DEF Outputs
<1>3. s.p.savedLs # "none" => s.o.savedCause <= n + 1  BY <1>2 DEF Causes
<1> QED  BY <1>1, <1>3 DEF Causes

(* What the invariant says of the older device.                              *)
LEMMA G1Before ==
    ASSUME IInv, opts.gen = 1
    PROVE  /\ opts \in Cases /\ Now \in States /\ frames \in Nat /\ announced \in BOOLEAN
           /\ p.payload \in BOOLEAN /\ (p.payload => frames > 0)
           /\ This \in Nat /\ This = Upcoming(Now, frames) /\ Fine(Now)
           /\ o.keepOk /\ Shut(Now) /\ Gated(Now, announced) /\ Now.p = p /\ Now.o = o
           /\ ~announced => p.trigger = -1 /\ ~p.enabled /\ ~p.payload
<1>1. /\ opts \in Cases /\ Now \in States /\ frames \in Nat /\ announced \in BOOLEAN
      /\ Folding(Now, Upcoming(Now, frames), 0) /\ Causes(Now, Upcoming(Now, frames))
      /\ Shut(Now) /\ Gated(Now, announced) /\ Now.p = p /\ Now.o = o /\ Now.o.keepOk
      /\ (Now.p.payload => frames > 0)
      /\ ~announced => Now.p.trigger = -1 /\ ~Now.p.enabled /\ ~Now.p.payload
  BY DEF IInv, Sound, Now
<1>2. This \in Nat /\ This = Upcoming(Now, frames)  BY <1>1 DEF This, Upcoming
<1>3. p.payload \in BOOLEAN  BY <1>1, NowFacts DEF Packets
<1> QED  BY <1>1, <1>2, <1>3 DEF Fine

LEMMA G1Sound ==
    ASSUME opts.gen = 1, NEW t \in States, NEW f \in Nat, (t.p.payload => f > 0),
           Folding(t, Upcoming(t, f), 0), Causes(t, Upcoming(t, f)), t.o.keepOk, Shut(t),
           Gated(t, TRUE), (t.p.done => Flushed(t))
    PROVE  Sound(t, f, TRUE)
<1>1. opts.gen # 2  OBVIOUS
<1>2. PICK a \in BOOLEAN : a  OBVIOUS
<1>3. a = TRUE  BY <1>2
<1>4. Gated(t, a)  BY <1>3, Zenon
<1>5. Sound(t, f, a)  BY <1>1, <1>2, <1>4, Zenon DEF Sound
<1> QED  BY <1>3, <1>5, Zenon

LEMMA G1StatusFrameKeeps ==
    ASSUME IInv, opts.gen = 1, G1StatusFrame
    PROVE  Preserved
<1>1. /\ opts \in Cases /\ Now \in States /\ frames \in Nat /\ announced \in BOOLEAN
      /\ This \in Nat /\ Fine(Now) /\ o.keepOk /\ Shut(Now) /\ Gated(Now, announced)
      /\ Now.p = p /\ Now.o = o
  BY G1Before
<1>2. /\ announced /\ ~p.done /\ ~p.payload /\ frames' = frames + 1 /\ opts' = opts
      /\ announced' = TRUE
  BY <1>1 DEF G1StatusFrame, G1HeaderArrives
<1>3. PICK n \in Nat : n = frames + 1  BY <1>1
<1>4. This = n  BY <1>2, <1>3 DEF This
<1>5. PICK c \in Clocks, ls \in LineStates, in \in opts.inputs, speed \in Speeds :
         Becomes(G1LineChange(G1SpeedChange(G1VbusChange(G1TriggerChange(
                   G1Tick(c), in[2]), in[1]), speed), ls))
  BY DEF G1StatusFrame
<1>6. opts.trigger \in Triggers /\ in[1] \in {0, 1} /\ in[2] \in {0, 1}
  BY <1>1, OptsFacts
<1>7. PICK t1 : t1 = G1Tick(c)  OBVIOUS
<1>8. G1Reported(Now, t1) /\ Steady(Now, t1) /\ Fine(t1)
  BY <1>1, <1>7, G1TickFacts DEF G1Reported
<1>9. PICK t2 : t2 = G1TriggerChange(t1, in[2])  OBVIOUS
<1>10. /\ G1Reported(t1, t2) /\ (Gated(t1, TRUE) => Gated(t2, TRUE)) /\ Fine(t2)
       /\ opts.trigger \in {"falling", "rising"} /\ t1.p.enabled => t2.p.enabled
  BY <1>1, <1>6, <1>8, <1>9, G1TriggerFacts DEF G1Reported
<1>11. PICK t3 : t3 = G1VbusChange(t2, in[1])  OBVIOUS
<1>12. G1Reported(t2, t3) /\ Steady(t2, t3) /\ Fine(t3)
  BY <1>1, <1>6, <1>10, <1>11, G1VbusFacts DEF G1Reported
<1>13. PICK t4 : t4 = G1SpeedChange(t3, speed)  OBVIOUS
<1>14. G1Reported(t3, t4) /\ Steady(t3, t4) /\ Fine(t4)
  BY <1>1, <1>12, <1>13, G1SpeedFacts DEF G1Reported
<1>15. G1Reported(Now, t4)  BY <1>8, <1>10, <1>12, <1>14, G1ReportedTwice
<1>16. Shut(t4) /\ ~t4.p.done /\ ~t4.p.payload /\ t4.o.keepOk
  BY <1>1, <1>2, <1>15 DEF G1Reported
<1>17. Gated(t4, TRUE)
  <2>1. Gated(t1, TRUE)  BY <1>1, <1>2, <1>8 DEF Steady, Gated
  <2> QED  BY <1>10, <1>12, <1>14, <2>1 DEF Steady, Gated
<1>18. PICK t : t = G1LineChange(t4, ls)  OBVIOUS
<1>19. G1Event(t4, t, n)  BY <1>1, <1>4, <1>14, <1>16, <1>18, G1LineFacts
<1>20. Now' = t
  BY <1>5, <1>7, <1>9, <1>11, <1>13, <1>18, <1>19, BecomesFacts DEF Becomes, G1Event
<1>21. Upcoming(t, frames') = n + 1
  BY <1>2, <1>3, <1>16, <1>19 DEF G1Event, Calm, Upcoming
<1>22. Gated(t, TRUE) /\ ~t.p.payload /\ t.o.keepOk /\ Shut(t)
  BY <1>2, <1>16, <1>17, <1>19 DEF G1Event, Calm, Gated, Shut
<1>23. Causes(t, n + 1)  BY <1>19, CausesLater DEF G1Event
<1>24. Sound(t, frames', TRUE)
  <2>1. t \in States /\ frames' \in Nat  BY <1>1, <1>2, <1>19 DEF G1Event
  <2>2. Folding(t, Upcoming(t, frames'), 0) /\ Causes(t, Upcoming(t, frames'))
    BY <1>19, <1>21, <1>23 DEF G1Event
  <2>3. t.p.done => Flushed(t)  BY <1>16, <1>19 DEF G1Event
  <2> QED  BY <1>22, <2>1, <2>2, <2>3, G1Sound
<1>25. Allowed(Now, t)
  <2>1. t.p.enabled = t4.p.enabled /\ t4.p.enabled = t2.p.enabled
    BY <1>12, <1>14, <1>19 DEF G1Event, Calm, Steady
  <2>2. ~p.enabled /\ ~t.p.enabled => t.o.lastFrame = o.lastFrame
    BY <1>1, <1>15, <1>19, <2>1 DEF G1Event, G1Reported, Shut
  <2>3. opts.trigger \in {"falling", "rising"} /\ p.enabled => t.p.enabled
    BY <1>1, <1>8, <1>10, <2>1 DEF Steady
  <2> QED  BY <1>1, <2>2, <2>3 DEF Allowed
<1> QED  BY <1>2, <1>20, <1>24, <1>25 DEF Preserved

LEMMA G1DataHeaderKeeps ==
    ASSUME IInv, opts.gen = 1, G1DataHeader
    PROVE  Preserved
<1>1. /\ opts \in Cases /\ Now \in States /\ frames \in Nat /\ announced \in BOOLEAN
      /\ This \in Nat /\ Fine(Now) /\ o.keepOk /\ Shut(Now) /\ Gated(Now, announced)
      /\ Now.p = p /\ Now.o = o
  BY G1Before
<1>2. /\ announced /\ ~p.done /\ ~p.payload /\ frames' = frames + 1 /\ opts' = opts
      /\ announced' = TRUE
  BY <1>1 DEF G1DataHeader, G1HeaderArrives
<1>3. PICK n \in Nat : n = frames + 1  BY <1>1
<1>4. This = n  BY <1>2, <1>3 DEF This
<1>5. PICK c \in Clocks, b \in BOOLEAN, flags \in opts.flags :
         Becomes(Headed(G1Tick(c), b, flags))
  BY DEF G1DataHeader, Headed
<1>6. PICK s : s = G1Tick(c)  OBVIOUS
<1>7. G1Reported(Now, s) /\ Steady(Now, s) /\ Fine(s) /\ s \in States
  BY <1>1, <1>6, G1TickFacts DEF G1Reported, Fine
<1>8. PICK t : t = Headed(s, b, flags)  OBVIOUS
<1>9. Aside(s, t) /\ Steady(s, t) /\ t.p.done = s.p.done /\ t \in States
  <2>1. flags \in SUBSET Flags  BY <1>1, OptsFacts
  <2>2. Aside(s, t) /\ Steady(s, t) /\ t.p.done = s.p.done  BY <1>7, <1>8, <2>1, SetHeader
  <2> QED  BY <2>2 DEF Aside
<1>10. Now' = t  BY <1>5, <1>6, <1>8, <1>9, BecomesFacts DEF Becomes
<1>11. Fine(t) /\ SameFold(s, t) /\ t.o.keepOk = s.o.keepOk  BY <1>7, <1>9, FineAside
<1>12. /\ Folding(t, n, 0) /\ Folding(t, n + 1, 0) /\ Causes(t, n) /\ Causes(t, n + 1)
  <2>1. Folding(t, n, 0) /\ Causes(t, n)  BY <1>4, <1>11 DEF Fine
  <2> QED  BY <1>9, <2>1, FoldingLater, CausesLater
<1>13. Upcoming(t, frames') \in {n, n + 1}  BY <1>2, <1>3 DEF Upcoming
<1>14. Folding(t, Upcoming(t, frames'), 0) /\ Causes(t, Upcoming(t, frames'))
  BY <1>12, <1>13
<1>15. Shut(s) /\ ~t.p.done /\ t.o.keepOk  BY <1>1, <1>2, <1>7, <1>9, <1>11 DEF G1Reported
<1>16. Shut(t)  BY <1>9, <1>11, <1>15 DEF Shut, Steady, SameFold
<1>17. Gated(t, TRUE) /\ frames' \in Nat /\ frames' > 0
  BY <1>1, <1>2, <1>7, <1>9 DEF Steady, Gated
<1>18. Sound(t, frames', TRUE)  BY <1>9, <1>14, <1>15, <1>16, <1>17, G1Sound
<1>19. Allowed(Now, t)
  BY <1>1, <1>7, <1>9, <1>11 DEF G1Reported, Steady, SameFold, Allowed, Shut
<1> QED  BY <1>2, <1>10, <1>18, <1>19 DEF Preserved

(* The broken header is reported, and the process ends.                      *)
LEMMA G1BadHeaderKeeps ==
    ASSUME IInv, opts.gen = 1, G1BadHeader
    PROVE  Preserved
<1>1. /\ opts \in Cases /\ Now \in States /\ frames \in Nat /\ announced \in BOOLEAN
      /\ This \in Nat /\ Fine(Now) /\ o.keepOk /\ Shut(Now) /\ Gated(Now, announced)
      /\ Now.p = p /\ Now.o = o
  BY G1Before
<1>2. /\ announced /\ ~p.done /\ ~p.payload /\ frames' = frames + 1 /\ opts' = opts
      /\ announced' = TRUE
  BY <1>1 DEF G1BadHeader, G1HeaderArrives
<1>3. PICK n \in Nat : n = frames + 1  BY <1>1
<1>4. This = n  BY <1>2, <1>3 DEF This
<1>5. PICK s \in {Now} \cup {G1Tick(c) : c \in Clocks} :
         Becomes([G1CaptureInfo(s, s.p.ts) EXCEPT !.p.done = TRUE])
  BY DEF G1BadHeader, Now
<1>6. G1Reported(Now, s) /\ Steady(Now, s) /\ Fine(s) /\ s \in States
  <2>1. CASE s = Now  BY <1>1, <2>1 DEF G1Reported, Steady
  <2>2. ASSUME NEW c \in Clocks, s = G1Tick(c) PROVE G1Reported(Now, s) /\ Steady(Now, s)
    BY <1>1, <2>2, G1TickFacts
  <2>3. G1Reported(Now, s) /\ Steady(Now, s)  BY <1>5, <2>1, <2>2
  <2> QED  BY <2>3 DEF G1Reported, Fine
<1>7. PICK u : u = G1CaptureInfo(s, s.p.ts)  OBVIOUS
<1>8. G1Reported(s, u) /\ Steady(s, u) /\ Flushed(u) /\ u \in States /\ Fine(u)
  <2>1. s.p.ts \in Nat  BY <1>6, StateType DEF Packets
  <2>2. G1Reported(s, u) /\ Steady(s, u) /\ Flushed(u) /\ u \in States
    BY <1>1, <1>6, <1>7, <2>1, G1InfoReported
  <2> QED  BY <2>2 DEF G1Reported
<1>9. PICK t : t = [u EXCEPT !.p.done = TRUE]  OBVIOUS
<1>10. Aside(u, t) /\ Calm(u, t) /\ t \in States  BY <1>8, <1>9, SetDone DEF Aside
<1>11. Now' = t  BY <1>5, <1>7, <1>9, <1>10, BecomesFacts DEF Becomes
<1>12. Fine(t) /\ SameFold(u, t)  BY <1>8, <1>10, FineAside
<1>13. Flushed(t)  BY <1>8, <1>10 DEF Aside, Flushed
<1>14. G1Reported(Now, u)  BY <1>6, <1>8, G1ReportedTwice
<1>15. ~t.p.payload /\ t.o.keepOk  BY <1>1, <1>2, <1>10, <1>14 DEF Calm, G1Reported
<1>16. Upcoming(t, frames') = n + 1  BY <1>2, <1>3, <1>15 DEF Upcoming
<1>17. Folding(t, n + 1, 0) /\ Causes(t, n + 1)
  <2>1. Folding(t, n, 0) /\ Causes(t, n)  BY <1>4, <1>12 DEF Fine
  <2> QED  BY <1>10, <2>1, FoldingLater, CausesLater
<1>18. Gated(t, TRUE) /\ Shut(t)
  BY <1>1, <1>2, <1>6, <1>8, <1>10, <1>13 DEF Steady, Calm, Gated, Shut, Flushed
<1>19. Sound(t, frames', TRUE)
  <2>1. frames' \in Nat  BY <1>1, <1>2
  <2> QED  BY <1>10, <1>13, <1>15, <1>16, <1>17, <1>18, <2>1, G1Sound
<1>20. Allowed(Now, t)
  <2>1. t.p.enabled = p.enabled  BY <1>1, <1>6, <1>8, <1>10 DEF Steady, Calm
  <2>2. ~p.enabled => t.o.lastFrame = o.lastFrame
    BY <1>1, <1>12, <1>14 DEF G1Reported, SameFold, Shut
  <2> QED  BY <1>1, <2>1, <2>2 DEF Allowed
<1> QED  BY <1>2, <1>11, <1>19, <1>20 DEF Preserved

LEMMA G1DataPayloadKeeps ==
    ASSUME IInv, opts.gen = 1, G1DataPayload
    PROVE  Preserved
<1>1. /\ opts \in Cases /\ Now \in States /\ frames \in Nat /\ announced \in BOOLEAN
      /\ This \in Nat /\ Fine(Now) /\ o.keepOk /\ Shut(Now) /\ Gated(Now, announced)
      /\ Now.p = p /\ Now.o = o /\ (~announced => ~p.payload)
  BY G1Before
<1>2. /\ p.payload /\ ~p.done /\ announced = TRUE /\ frames' = frames /\ opts' = opts
      /\ announced' = TRUE
  BY <1>1 DEF G1DataPayload
<1>3. PICK n \in Nat : n = frames  BY <1>1
<1>4. This = n  BY <1>2, <1>3 DEF This
<1>5. PICK s : s = [p |-> [p EXCEPT !.payload = FALSE], o |-> o]  OBVIOUS
<1>6. /\ Aside(Now, s) /\ Steady(Now, s) /\ ~s.p.payload /\ s \in States /\ s.o = o
      /\ s.p.done = p.done
  BY <1>1, <1>5, EndPayload DEF Aside
<1>7. PICK pid \in Pids : Becomes(G1DataEvent(s, pid))  BY <1>5 DEF G1DataPayload
<1>8. Fine(s) /\ SameFold(Now, s)  BY <1>1, <1>6, FineAside
<1>9. PICK t : t = G1DataEvent(s, pid)  OBVIOUS
<1>10. G1Event(s, t, n)  BY <1>1, <1>4, <1>8, <1>9, G1DataFacts DEF Fine
<1>11. Now' = t  BY <1>7, <1>9, <1>10, BecomesFacts DEF Becomes, G1Event
<1>12. Upcoming(t, frames') = n + 1
  BY <1>2, <1>3, <1>6, <1>10 DEF G1Event, Calm, Upcoming
<1>13. /\ Gated(t, TRUE) /\ ~t.p.payload /\ t.o.keepOk /\ Shut(t)
  <2>1. t.p.trigger = p.trigger /\ t.p.enabled = p.enabled /\ ~t.p.payload /\ t.o.keepOk
    BY <1>1, <1>6, <1>10 DEF G1Event, Calm, Steady
  <2>2. Gated(t, TRUE)  BY <1>1, <1>2, <2>1 DEF Gated
  <2>3. Shut(t)  BY <1>1, <1>6, <1>8, <1>10, <2>1 DEF G1Event, Shut, Steady, SameFold
  <2> QED  BY <2>1, <2>2, <2>3
<1>14. Causes(t, n + 1)  BY <1>10, CausesLater DEF G1Event
<1>15. Sound(t, frames', TRUE)
  <2>1. t \in States /\ frames' \in Nat  BY <1>1, <1>2, <1>10 DEF G1Event
  <2>2. Folding(t, Upcoming(t, frames'), 0) /\ Causes(t, Upcoming(t, frames'))
    BY <1>10, <1>12, <1>14 DEF G1Event
  <2>3. t.p.done => Flushed(t)  BY <1>2, <1>6, <1>10 DEF G1Event
  <2> QED  BY <1>13, <2>1, <2>2, <2>3, G1Sound
<1>16. Allowed(Now, t)
  <2>1. t.p.enabled = p.enabled  BY <1>1, <1>6, <1>10 DEF Steady, Calm, G1Event
  <2>2. ~p.enabled => t.o.lastFrame = o.lastFrame
    BY <1>1, <1>6, <1>10 DEF G1Event, Steady
  <2> QED  BY <1>1, <2>1, <2>2 DEF Allowed
<1> QED  BY <1>2, <1>11, <1>15, <1>16 DEF Preserved

(* The first record of the session, and the gate as it is at first.          *)
Opened(s, b) == [s EXCEPT !.p.enabled = b]

LEMMA SetEnabled ==
    ASSUME NEW s \in States, NEW b \in BOOLEAN
    PROVE  LET t == Opened(s, b)
           IN /\ Aside(s, t) /\ (t.p.enabled <=> b) /\ t.p.trigger = s.p.trigger
              /\ t.p.payload = s.p.payload
<1>1. PICK pp \in Packets, oo \in Outputs : s = [p |-> pp, o |-> oo]  BY StateType
<1>2. PICK t : t = [s EXCEPT !.p.enabled = b]  OBVIOUS
<1>3. t = [p |-> [pp EXCEPT !.enabled = b], o |-> oo]  BY <1>1, <1>2
<1>4. t \in States
  <2>1. t.p \in Packets  BY <1>3 DEF Packets
  <2> QED  BY <1>3, <2>1 DEF States
<1>5. Aside(s, t) /\ t.p.enabled = b /\ t.p.trigger = s.p.trigger /\ t.p.payload = s.p.payload
  BY <1>1, <1>3, <1>4 DEF Aside, Packets
<1> QED  BY <1>2, <1>5 DEF Opened

LEMMA G1StartKeeps ==
    ASSUME IInv, opts.gen = 1, G1Start
    PROVE  Preserved
<1>1. /\ opts \in Cases /\ Now \in States /\ frames \in Nat /\ announced \in BOOLEAN
      /\ This \in Nat /\ This = Upcoming(Now, frames) /\ Fine(Now) /\ o.keepOk /\ Shut(Now)
      /\ Now.p = p /\ Now.o = o
  BY G1Before
<1>2. /\ p.trigger = -1 /\ ~p.enabled /\ ~p.payload /\ frames' = frames /\ opts' = opts
      /\ announced' = TRUE
  BY G1Before DEF G1Start
<1>3. PICK b \in BOOLEAN : b = (opts.trigger = "disabled")  OBVIOUS
<1>4. PICK s : s = G1CaptureInfo(Now, 0)  OBVIOUS
<1>5. G1Reported(Now, s) /\ Steady(Now, s) /\ Flushed(s) /\ s \in States /\ Fine(s)
  <2>1. G1Reported(Now, s) /\ Steady(Now, s) /\ Flushed(s) /\ s \in States
    BY <1>1, <1>4, G1InfoReported
  <2> QED  BY <2>1 DEF G1Reported
<1>6. PICK t : t = Opened(s, b)  OBVIOUS
<1>7. /\ Aside(s, t) /\ (t.p.enabled <=> b) /\ t.p.trigger = s.p.trigger
      /\ t.p.payload = s.p.payload /\ t \in States
  <2>1. /\ Aside(s, t) /\ (t.p.enabled <=> b) /\ t.p.trigger = s.p.trigger
        /\ t.p.payload = s.p.payload
    BY <1>5, <1>6, SetEnabled
  <2> QED  BY <2>1 DEF Aside
<1>8. Now' = t
  <2>1. Becomes([s EXCEPT !.p.enabled = b])  BY <1>3, <1>4 DEF G1Start, Now
  <2> QED  BY <1>6, <1>7, <2>1, BecomesFacts DEF Becomes, Opened
<1>9. Fine(t) /\ SameFold(s, t) /\ t.o.keepOk = s.o.keepOk  BY <1>5, <1>7, FineAside
<1>10. Flushed(t) /\ Shut(t)  BY <1>5, <1>7 DEF Aside, Flushed, Shut
<1>11. ~t.p.payload /\ t.o.keepOk /\ t.p.trigger = -1
  BY <1>1, <1>2, <1>5, <1>7, <1>9 DEF G1Reported, Steady
<1>12. Upcoming(t, frames') = This  BY <1>2, <1>11 DEF Upcoming, This
<1>13. Folding(t, Upcoming(t, frames'), 0) /\ Causes(t, Upcoming(t, frames'))
  BY <1>9, <1>12 DEF Fine
<1>14. Gated(t, TRUE)
  <2>1. t.p.trigger # 0 /\ t.p.trigger # 1  BY <1>11
  <2>2. t.p.enabled <=> opts.trigger = "disabled"  BY <1>3, <1>7
  <2> QED  BY <2>1, <2>2 DEF Gated
<1>15. Sound(t, frames', TRUE)
  <2>1. frames' \in Nat  BY <1>1, <1>2
  <2> QED  BY <1>7, <1>10, <1>11, <1>13, <1>14, <2>1, G1Sound
<1>16. Allowed(Now, t)
  <2>1. t.o.lastFrame = o.lastFrame  BY <1>1, <1>2, <1>5, <1>9 DEF G1Reported, SameFold, Shut
  <2> QED  BY <1>1, <1>2, <2>1 DEF Allowed
<1> QED  BY <1>2, <1>8, <1>15, <1>16 DEF Preserved

-----------------------------------------------------------------------------
(* The specification of both.                                                *)

LEMMA InitSound == Init => IInv
<1> SUFFICES ASSUME Init PROVE IInv  OBVIOUS
<1>1. opts \in Cases /\ opts.limit \in Nat  BY OptsFacts DEF Init
<1>2. p = PacketStart(opts.limit) /\ o = Output /\ announced = FALSE /\ frames = 0  BY DEF Init
<1>3. p \in Packets
  <2>1. <<>> \in Seq(Entries)  OBVIOUS
  <2> QED  BY <1>1, <1>2, <2>1 DEF PacketStart, Packets
<1>4. o \in Outputs  BY <1>2 DEF Output, Outputs
<1>5. Now \in States /\ Now.p = p /\ Now.o = o  BY <1>3, <1>4 DEF Now, States
<1>6. /\ p.foldBuf = <<>> /\ p.foldCount = 0 /\ p.savedLs = "none" /\ ~p.done /\ ~p.payload
      /\ ~p.enabled /\ p.trigger = -1 /\ p.ts = 0 /\ p.lastTs = 0 /\ p.tsInt = 0
  BY <1>2 DEF PacketStart
<1>7. /\ o.inOrder /\ o.lastFrame = 0 /\ o.owed = 0 /\ o.keepOk /\ o.ordered /\ o.lastTs = 0
      /\ o.causal /\ o.lastCause = 0 /\ o.slack = 0
  BY <1>2 DEF Output
<1>8. Upcoming(Now, frames) = 1  BY <1>2, <1>5, <1>6 DEF Upcoming
<1>9. Folding(Now, 1, 0)
  BY <1>5, <1>6, <1>7, ConstantsAssumption DEF Folding, Account, Buffered, Entered
<1>10. Times(Now)
  <2>1. TsRange \in Nat /\ TsRange > 0  BY ConstantsAssumption
  <2>2. Far(0, 0, 0) = 0  BY DEF Far
  <2>3. Pace(0, 0, 0)  BY <2>1, <2>2 DEF Pace
  <2>4. Reach(Now) = 0  BY <1>5, <1>6, <1>7, <2>2 DEF Reach
  <2> QED  BY <1>5, <1>6, <1>7, <2>3, <2>4 DEF Times
<1>11. Causes(Now, 1)  BY <1>5, <1>6, <1>7 DEF Causes, Held
<1>12. Shut(Now) /\ Gated(Now, announced)  BY <1>2, <1>5, <1>6 DEF Shut, Gated
<1>13. Sound(Now, frames, announced)
  BY <1>2, <1>5, <1>6, <1>7, <1>8, <1>9, <1>10, <1>11, <1>12 DEF Sound
<1> QED  BY <1>1, <1>13 DEF IInv

LEMMA StepPreserves ==
    ASSUME IInv, AnyNext
    PROVE  Preserved
<1>1. CASE opts.gen = 2 /\ Next
  BY <1>1, StatusFrameKeeps, DataHeaderKeeps, BadHeaderKeeps, DataPayloadKeeps,
     AnnounceKeeps, SessionInfoKeeps DEF Next
<1>2. CASE opts.gen = 1 /\ G1Next
  BY <1>2, G1StartKeeps, G1StatusFrameKeeps, G1DataHeaderKeeps, G1BadHeaderKeeps,
     G1DataPayloadKeeps DEF G1Next
<1> QED  BY <1>1, <1>2 DEF AnyNext

LEMMA PreservedSound ==
    ASSUME IInv, Preserved
    PROVE  IInv'
<1>1. opts' = opts /\ opts \in Cases /\ Sound(Now', frames', announced')
  BY DEF IInv, Preserved
<1>2. Sound(Now, frames, announced)'
  BY <1>1 DEF Sound, Folding, Account, Times, Timely, Reach, Causes, Held, Shut, Gated, Flushed, Upcoming
<1> QED  BY <1>1, <1>2 DEF IInv

LEMMA Inductive == IInv /\ [AnyNext]_vars => IInv'
<1> SUFFICES ASSUME IInv, [AnyNext]_vars PROVE IInv'  OBVIOUS
<1>1. CASE AnyNext  BY <1>1, StepPreserves, PreservedSound
<1>2. CASE UNCHANGED vars
  <2>1. opts' = opts /\ Now' = Now /\ frames' = frames /\ announced' = announced
    BY <1>2 DEF vars, Now
  <2>2. Preserved  BY <2>1 DEF Preserved, IInv, Allowed
  <2> QED  BY <2>2, PreservedSound
<1> QED  BY <1>1, <1>2

(* The inductive invariant IInv holds of every state the interpreters of     *)
(* packet.c and of gen1/capture.c reach.                                     *)
THEOREM Soundness == AnySpec => []IInv
BY InitSound, Inductive, PTL DEF AnySpec

(* As long as the frames' own time stamps do not go back, what packet.c      *)
(* writes does not either, but for the record that announces the session;    *)
(* and afterwards never by a whole range of the counter, however long line   *)
(* states and folded frames are held back.                                   *)
THEOREM OutputMonotone == AnySpec => []MonotoneOutput
<1>1. IInv => MonotoneOutput
  BY DEF IInv, Sound, Times, Now, MonotoneOutput
<1> QED  BY <1>1, Soundness, PTL

(* Both interpreters write the frames in the order they came, the folded     *)
(* ones too.                                                                 *)
THEOREM InOrder == AnySpec => []FramesInOrder
<1>1. IInv => FramesInOrder
  BY DEF IInv, Sound, Folding, Account, Now, FramesInOrder
<1> QED  BY <1>1, Soundness, PTL

(* No start of frame or keep-alive is lost by the folding, and fold_packet   *)
(* never writes past the end of its buffer.                                  *)
THEOREM Conservation == AnySpec => []FoldConservation
<1>1. ASSUME IInv PROVE FoldConservation
  <2>1. Account(Now, Upcoming(Now, frames), 0) /\ Now.p = p /\ Now.o = o /\ Now \in States
    BY <1>1 DEF IInv, Sound, Folding, Now
  <2>2. o.owed = p.foldCount + Entered(p.foldBuf) + 0 /\ Len(p.foldBuf) <= FoldBufSize
    BY <2>1 DEF Account
  <2>3. p.foldCount \in Nat /\ Entered(p.foldBuf) \in Nat
    BY <2>1, NowFacts DEF Packets, Entered
  <2> QED  BY <2>2, <2>3 DEF Entered, FoldConservation
<1> QED  BY <1>1, Soundness, PTL

(* A keep-alive is never reported for a reset of more than four seconds,     *)
(* whose width has wrapped in the int that packet.c compares.                *)
THEOREM KeepalivesShort == AnySpec => []KeepaliveIsShort
<1>1. IInv => KeepaliveIsShort
  BY DEF IInv, Sound, Now, KeepaliveIsShort
<1> QED  BY <1>1, Soundness, PTL

(* The records of the older device come in the order of the frames that they *)
(* are about.                                                                *)
THEOREM CausalOutput == AnySpec => []RecordsInOrder
<1>1. IInv => RecordsInOrder
  BY DEF IInv, Sound, Causes, Held, Now, RecordsInOrder
<1> QED  BY <1>1, Soundness, PTL

(* When gen1/capture.c ends the process, nothing accepted is held back.      *)
THEOREM NothingLeft == AnySpec => []ExitWritesAll
<1>1. ASSUME IInv PROVE ExitWritesAll
  <2>1. SUFFICES ASSUME opts.gen = 1, p.done
                 PROVE  /\ p.foldBuf = <<>> /\ p.foldCount = 0 /\ o.owed = 0
                        /\ p.savedLs = "none"
    BY DEF ExitWritesAll
  <2>2. Flushed(Now) /\ Folding(Now, Upcoming(Now, frames), 0) /\ Now.p = p /\ Now.o = o
    BY <1>1, <2>1 DEF IInv, Sound, Now
  <2>3. p.foldBuf = <<>> /\ p.savedLs = "none" /\ p.foldCount = 0
    BY <2>2 DEF Flushed, Folding
  <2> QED  BY <2>2, <2>3 DEF Folding, Account, Entered
<1> QED  BY <1>1, Soundness, PTL

(* The gate follows the trigger as its option says, and no frame is written  *)
(* while it is shut, but for what the older device held when it shut.        *)
THEOREM GateHolds == AnySpec => GatedOutput
<1> DEFINE Allows ==
      /\ opts.trigger = "low"  => p'.enabled = (p'.trigger = 0)
      /\ opts.trigger = "high" => p'.enabled = (p'.trigger = 1)
      /\ opts.trigger = "disabled" /\ announced' => p'.enabled
      /\ opts.trigger \in {"falling", "rising"} /\ p.enabled => p'.enabled
      /\ o'.lastFrame # o.lastFrame => p'.enabled \/ (opts.gen = 1 /\ p.enabled)
<1>1. ASSUME IInv, [AnyNext]_vars PROVE [Allows]_vars
  <2>1. SUFFICES ASSUME AnyNext PROVE Allows  BY <1>1
  <2>2. Preserved /\ IInv'  BY <1>1, <2>1, StepPreserves, PreservedSound
  <2>3. PICK t \in States : t = Now'  BY <2>2 DEF Preserved, Sound
  <2>4. t.p = p' /\ t.o = o'  BY <2>3 DEF Now
  <2>5. Gated(t, announced') /\ Allowed(Now, t)  BY <2>2, <2>3 DEF Preserved, Sound
  <2>6. PICK e \in BOOLEAN : e = p'.enabled
    <3>1. t.p.enabled \in BOOLEAN  BY StateType DEF Packets
    <3> QED  BY <2>4, <3>1
  <2>7. /\ opts.trigger = "low"  => e = (p'.trigger = 0)
        /\ opts.trigger = "high" => e = (p'.trigger = 1)
        /\ opts.trigger = "disabled" /\ announced' => e
    BY <2>4, <2>5, <2>6 DEF Gated
  <2>8. /\ opts.trigger \in {"falling", "rising"} /\ p.enabled => e
        /\ o'.lastFrame # o.lastFrame => e \/ (opts.gen = 1 /\ p.enabled)
    BY <2>4, <2>5, <2>6 DEF Allowed, Now
  <2> QED  BY <2>6, <2>7, <2>8
<1> QED  BY <1>1, Soundness, PTL DEF AnySpec, GatedOutput
=============================================================================
