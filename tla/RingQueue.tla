------------------------------ MODULE RingQueue ------------------------------
(***************************************************************************)
(* internal/queue/ring.go: the bounded lock-free ring that joins the       *)
(* goroutines of the pipeline.                                             *)
(*                                                                         *)
(* Every access to shared memory is a step of its own: the load of a       *)
(* position, the load of a cell's sequence number, the compare-and-swap,   *)
(* the plain write or read of the cell's value, the store of the sequence  *)
(* number and the update of the length counter.  Go's sync/atomic          *)
(* operations are sequentially consistent, so interleaving them is exact;  *)
(* the accesses to a cell's value are plain, and interleaving those is     *)
(* justified by ExclusiveCell below.                                       *)
(*                                                                         *)
(* Positions are natural numbers: the code's uint64 counters wrap after    *)
(* 2^64 calls, which no run of the program reaches.                        *)
(***************************************************************************)
EXTENDS Integers, Sequences, FiniteSets

CONSTANTS Producers,  \* goroutines that call Enqueue
          Consumers,  \* goroutines that call Dequeue
          Capacity,   \* number of cells
          Values,     \* what callers enqueue
          Zero,       \* Go's zero value of the element type
          MaxCalls    \* bound: MaxCalls[t] is how many calls goroutine t makes

ASSUME CapacityAssumption == Capacity \in Nat /\ Capacity >= 2
ASSUME CallsAssumption    == MaxCalls \in [Producers \cup Consumers -> Nat]
ASSUME ZeroAssumption     == Zero \notin Values
ASSUME ThreadsAssumption  == IsFiniteSet(Producers) /\ IsFiniteSet(Consumers)

VARIABLES enqueuePos,  \* next position to be claimed by a producer
          dequeuePos,  \* next position to be claimed by a consumer
          seq,         \* seq[c]: the sequence number of cell c
          val,         \* val[c]: the value stored in cell c
          length,      \* the counter behind Len()
          pc,          \* where each goroutine is in Enqueue or Dequeue
          pos,         \* its local variable pos
          arg,         \* the argument of its Enqueue
          ret,         \* its local variable v in Dequeue
          calls,       \* calls it has made
          hist         \* history: the values in the order of the winning CASes

vars == <<enqueuePos, dequeuePos, seq, val, length, pc, pos, arg, ret, calls, hist>>

ring == <<enqueuePos, dequeuePos, seq, val, length, hist>>

Threads == Producers \cup Consumers
Cells   == 0..(Capacity - 1)

\* pos & q.mask: NewRing only accepts powers of two, for which this is %.
Cell(p) == p % Capacity

EnqClaimed  == {"e_write", "e_pub"}
DeqClaimed  == {"d_read", "d_zero", "d_pub"}
EnqPcs      == {"e_loadPos", "e_loadSeq", "e_cas", "e_len", "e_full"} \cup EnqClaimed
DeqPcs      == {"d_loadPos", "d_loadSeq", "d_cas", "d_len", "d_empty"} \cup DeqClaimed
Pcs         == {"idle"} \cup EnqPcs \cup DeqPcs

\* Types of the ring's counters, its cells and the locals of every call.
TypeOK == /\ enqueuePos \in Nat
          /\ dequeuePos \in Nat
          /\ seq \in [Cells -> Nat]
          /\ val \in [Cells -> Values \cup {Zero}]
          /\ length \in Int
          /\ pc \in [Threads -> Pcs]
          /\ pos \in [Threads -> Nat]
          /\ arg \in [Threads -> Values \cup {Zero}]
          /\ ret \in [Threads -> Values \cup {Zero}]
          /\ calls \in [Threads -> Nat]
          /\ hist \in Seq(Values)

\* NewRing: cell i starts with sequence number i.
Init == /\ enqueuePos = 0
        /\ dequeuePos = 0
        /\ seq = [c \in Cells |-> c]
        /\ val = [c \in Cells |-> Zero]
        /\ length = 0
        /\ pc = [t \in Threads |-> "idle"]
        /\ pos = [t \in Threads |-> 0]
        /\ arg = [t \in Threads |-> Zero]
        /\ ret = [t \in Threads |-> Zero]
        /\ calls = [t \in Threads |-> 0]
        /\ hist = <<>>

Goto(t, from, to) == pc[t] = from /\ pc' = [pc EXCEPT ![t] = to]

\* The loop runs again: its local pos is gone.
Retry(t, from, to) == /\ Goto(t, from, to)
                      /\ pos' = [pos EXCEPT ![t] = 0]
                      /\ UNCHANGED <<ring, arg, ret, calls>>

\* The call returns: all its local variables are gone.
Return(t, from) == /\ Goto(t, from, "idle")
                   /\ pos' = [pos EXCEPT ![t] = 0]
                   /\ arg' = [arg EXCEPT ![t] = Zero]
                   /\ ret' = [ret EXCEPT ![t] = Zero]
                   /\ UNCHANGED <<enqueuePos, dequeuePos, seq, val, hist, calls>>

-----------------------------------------------------------------------------
(* Enqueue *)

CallEnqueue(t) == /\ calls[t] < MaxCalls[t]
                  /\ Goto(t, "idle", "e_loadPos")
                  /\ \E v \in Values : arg' = [arg EXCEPT ![t] = v]
                  /\ calls' = [calls EXCEPT ![t] = @ + 1]
                  /\ UNCHANGED <<ring, pos, ret>>

EnqLoadPos(t) == /\ Goto(t, "e_loadPos", "e_loadSeq")
                 /\ pos' = [pos EXCEPT ![t] = enqueuePos]
                 /\ UNCHANGED <<ring, arg, ret, calls>>

\* Mutant: a full ring is not noticed.
EnqLoadSeqIgnoresFull(t) == LET dif == seq[Cell(pos[t])] - pos[t] IN
    \/ /\ dif <= 0 /\ Goto(t, "e_loadSeq", "e_cas")
       /\ UNCHANGED <<ring, pos, arg, ret, calls>>
    \/ dif > 0 /\ Retry(t, "e_loadSeq", "e_loadPos")

\* Mutant: a producer waits for room instead of returning false.
EnqLoadSeqSpinsWhenFull(t) == LET dif == seq[Cell(pos[t])] - pos[t] IN
    \/ /\ dif = 0 /\ Goto(t, "e_loadSeq", "e_cas")
       /\ UNCHANGED <<ring, pos, arg, ret, calls>>
    \/ dif # 0 /\ Retry(t, "e_loadSeq", "e_loadPos")

\* dif = 0: try to claim; dif < 0: full; dif > 0: pos is stale, start again.
EnqLoadSeq(t) == LET dif == seq[Cell(pos[t])] - pos[t] IN
    \/ /\ \/ dif = 0 /\ Goto(t, "e_loadSeq", "e_cas")
          \/ dif < 0 /\ Goto(t, "e_loadSeq", "e_full")
       /\ UNCHANGED <<ring, pos, arg, ret, calls>>
    \/ dif > 0 /\ Retry(t, "e_loadSeq", "e_loadPos")

EnqCasWins(t) == /\ enqueuePos = pos[t]
                 /\ Goto(t, "e_cas", "e_write")
                 /\ enqueuePos' = pos[t] + 1
                 /\ hist' = Append(hist, arg[t])
                 /\ UNCHANGED <<dequeuePos, seq, val, length, pos, arg, ret, calls>>

\* Mutant: losing the race for a position is taken for a full ring.
EnqCasFailsGivesUp(t) == /\ enqueuePos # pos[t]
                         /\ Goto(t, "e_cas", "e_full")
                         /\ UNCHANGED <<ring, pos, arg, ret, calls>>

EnqCasFails(t) == enqueuePos # pos[t] /\ Retry(t, "e_cas", "e_loadPos")

\* Mutant: the cell is computed from the position after the claimed one.
EnqWriteWrongCell(t) == /\ Goto(t, "e_write", "e_pub")
                        /\ val' = [val EXCEPT ![Cell(pos[t] + 1)] = arg[t]]
                        /\ UNCHANGED <<enqueuePos, dequeuePos, seq, length, hist, pos, arg, ret, calls>>

EnqWrite(t) == /\ Goto(t, "e_write", "e_pub")
               /\ val' = [val EXCEPT ![Cell(pos[t])] = arg[t]]
               /\ UNCHANGED <<enqueuePos, dequeuePos, seq, length, hist, pos, arg, ret, calls>>

EnqPublish(t) == /\ Goto(t, "e_pub", "e_len")
                 /\ seq' = [seq EXCEPT ![Cell(pos[t])] = pos[t] + 1]
                 /\ UNCHANGED <<enqueuePos, dequeuePos, val, length, hist, pos, arg, ret, calls>>

EnqCount(t) == Return(t, "e_len") /\ length' = length + 1

EnqReturnsFalse(t) == Return(t, "e_full") /\ UNCHANGED length

-----------------------------------------------------------------------------
(* Dequeue *)

CallDequeue(t) == /\ calls[t] < MaxCalls[t]
                  /\ Goto(t, "idle", "d_loadPos")
                  /\ calls' = [calls EXCEPT ![t] = @ + 1]
                  /\ UNCHANGED <<ring, pos, arg, ret>>

DeqLoadPos(t) == /\ Goto(t, "d_loadPos", "d_loadSeq")
                 /\ pos' = [pos EXCEPT ![t] = dequeuePos]
                 /\ UNCHANGED <<ring, arg, ret, calls>>

\* Mutant: dif is computed without the + 1, so that a cell whose producer has
\* claimed it and not published it is taken as well.
DeqLoadSeqTakesUnpublished(t) == LET dif == seq[Cell(pos[t])] - pos[t] IN
    \/ /\ dif \in {0, 1} /\ Goto(t, "d_loadSeq", "d_cas")
       /\ UNCHANGED <<ring, pos, arg, ret, calls>>
    \/ /\ dif < 0 /\ Goto(t, "d_loadSeq", "d_empty")
       /\ UNCHANGED <<ring, pos, arg, ret, calls>>
    \/ dif > 1 /\ Retry(t, "d_loadSeq", "d_loadPos")

DeqLoadSeq(t) == LET dif == seq[Cell(pos[t])] - (pos[t] + 1) IN
    \/ /\ \/ dif = 0 /\ Goto(t, "d_loadSeq", "d_cas")
          \/ dif < 0 /\ Goto(t, "d_loadSeq", "d_empty")
       /\ UNCHANGED <<ring, pos, arg, ret, calls>>
    \/ dif > 0 /\ Retry(t, "d_loadSeq", "d_loadPos")

DeqCasWins(t) == /\ dequeuePos = pos[t]
                 /\ Goto(t, "d_cas", "d_read")
                 /\ dequeuePos' = pos[t] + 1
                 /\ UNCHANGED <<enqueuePos, seq, val, length, hist, pos, arg, ret, calls>>

DeqCasFails(t) == dequeuePos # pos[t] /\ Retry(t, "d_cas", "d_loadPos")

DeqRead(t) == /\ Goto(t, "d_read", "d_zero")
              /\ ret' = [ret EXCEPT ![t] = val[Cell(pos[t])]]
              /\ UNCHANGED <<ring, pos, arg, calls>>

\* Mutant: the value stays in the cell.
DeqZeroSkipped(t) == Goto(t, "d_zero", "d_pub") /\ UNCHANGED <<ring, pos, arg, ret, calls>>

DeqZero(t) == /\ Goto(t, "d_zero", "d_pub")
              /\ val' = [val EXCEPT ![Cell(pos[t])] = Zero]
              /\ UNCHANGED <<enqueuePos, dequeuePos, seq, length, hist, pos, arg, ret, calls>>

\* Mutant: the lap is subtracted.
DeqReleaseBackwards(t) ==
    /\ Goto(t, "d_pub", "d_len")
    /\ seq' = [seq EXCEPT ![Cell(pos[t])] = pos[t] - Capacity]
    /\ UNCHANGED <<enqueuePos, dequeuePos, val, length, hist, pos, arg, ret, calls>>

\* Mutant: pos + mask, one too low.
DeqReleaseOffByOne(t) ==
    /\ Goto(t, "d_pub", "d_len")
    /\ seq' = [seq EXCEPT ![Cell(pos[t])] = pos[t] + Capacity - 1]
    /\ UNCHANGED <<enqueuePos, dequeuePos, val, length, hist, pos, arg, ret, calls>>

\* pos + mask + 1: the cell is free for the producer one lap later.
DeqRelease(t) == /\ Goto(t, "d_pub", "d_len")
                 /\ seq' = [seq EXCEPT ![Cell(pos[t])] = pos[t] + Capacity]
                 /\ UNCHANGED <<enqueuePos, dequeuePos, val, length, hist, pos, arg, ret, calls>>

\* Mutant: length.Add(-1) is missing.
DeqCountMissing(t) == Return(t, "d_len") /\ UNCHANGED length

DeqCount(t) == Return(t, "d_len") /\ length' = length - 1

DeqReturnsFalse(t) == Return(t, "d_empty") /\ UNCHANGED length

-----------------------------------------------------------------------------
EnqueueStep(t) == \/ EnqLoadPos(t) \/ EnqLoadSeq(t) \/ EnqCasWins(t)
                  \/ EnqCasFails(t) \/ EnqWrite(t) \/ EnqPublish(t)
                  \/ EnqCount(t) \/ EnqReturnsFalse(t)

DequeueStep(t) == \/ DeqLoadPos(t) \/ DeqLoadSeq(t) \/ DeqCasWins(t)
                  \/ DeqCasFails(t) \/ DeqRead(t) \/ DeqZero(t)
                  \/ DeqRelease(t) \/ DeqCount(t) \/ DeqReturnsFalse(t)

\* The end of a bounded run: every goroutine has made all its calls.
AllReturned == /\ \A t \in Threads : pc[t] = "idle" /\ calls[t] = MaxCalls[t]
               /\ UNCHANGED vars

Next == \/ \E t \in Producers : CallEnqueue(t)
        \/ \E t \in Consumers : CallDequeue(t)
        \/ \E t \in Threads : EnqueueStep(t) \/ DequeueStep(t)
        \/ AllReturned

Spec == Init /\ [][Next]_vars

-----------------------------------------------------------------------------
(* Properties *)

\* Threads that own the cell of their position: they have won it and have not
\* handed it on by storing its sequence number.
Owners == {t \in Threads : pc[t] \in EnqClaimed \cup DeqClaimed}

(***************************************************************************)
(* No data race on a cell's value: a cell has at most one owner, so the    *)
(* plain accesses c.value = v, v := c.value and c.value = zero never meet. *)
(***************************************************************************)
ExclusiveCell == \A t, u \in Owners : t # u => Cell(pos[t]) # Cell(pos[u])

(***************************************************************************)
(* First in, first out, exactly once: what a consumer has read at position *)
(* p is the p-th value that a producer claimed a place for, although the   *)
(* cell has been reused for other values before and may be again.          *)
(***************************************************************************)
ReadsWhatWasPut == \A t \in Threads :
    pc[t] \in {"d_zero", "d_pub"} => ret[t] = hist[pos[t] + 1]

(***************************************************************************)
(* A cell that is free for a producer holds the zero value: the ring never *)
(* keeps a dequeued block alive.                                           *)
(***************************************************************************)
FreeCellsZeroed == \A p \in enqueuePos..(dequeuePos + Capacity - 1) :
    seq[Cell(p)] = p => val[Cell(p)] = Zero

\* Len(), as a caller sees it.
RingLen == length

Uncounted(claimed, counting) == Cardinality({t \in Threads : pc[t] \in claimed \cup {counting}})

(***************************************************************************)
(* Len() differs from the number of claimed positions by exactly the calls *)
(* that have won their CAS and not yet reached length.Add.                 *)
(***************************************************************************)
LengthAccounted ==
    RingLen + Uncounted(EnqClaimed, "e_len") - Uncounted(DeqClaimed, "d_len")
        = enqueuePos - dequeuePos

-----------------------------------------------------------------------------
(* The ring implements BoundedQueue.  With several producers or consumers  *)
(* a call takes effect at its CAS and may fail because of a call half way; *)
(* with one of each it takes effect when it stores the sequence number and *)
(* fails only on a full or empty queue.                                    *)

EnqCalling == {"e_loadPos", "e_loadSeq", "e_cas"}
DeqCalling == {"d_loadPos", "d_loadSeq", "d_cas"}

CallOf(t, enqPending, deqPending, taken) ==
    CASE pc[t] = "idle"        -> [op |-> "none"]
      [] pc[t] \in enqPending  -> [op |-> "enq", v |-> arg[t]]
      [] pc[t] = "e_full"      -> [op |-> "enqDone", ok |-> FALSE]
      [] pc[t] \in deqPending  -> [op |-> "deq"]
      [] pc[t] = "d_empty"     -> [op |-> "deqEmpty"]
      [] pc[t] \in EnqPcs \ (enqPending \cup {"e_full"})  -> [op |-> "enqDone", ok |-> TRUE]
      [] pc[t] \in DeqPcs \ (deqPending \cup {"d_empty"}) -> [op |-> "deqDone", v |-> taken]

AtCas == INSTANCE BoundedQueue WITH
    Exact <- FALSE,
    queue <- SubSeq(hist, dequeuePos + 1, enqueuePos),
    call  <- [t \in Threads |-> CallOf(t, EnqCalling, DeqCalling,
                 IF pc[t] = "d_read" THEN hist[pos[t] + 1] ELSE ret[t])]

Inside(claimed) == Cardinality({t \in Threads : pc[t] \in claimed})

AtPublish == INSTANCE BoundedQueue WITH
    Exact <- TRUE,
    queue <- SubSeq(hist, dequeuePos - Inside(DeqClaimed) + 1,
                          enqueuePos - Inside(EnqClaimed)),
    call  <- [t \in Threads |-> CallOf(t, EnqCalling \cup EnqClaimed,
                                          DeqCalling \cup DeqClaimed, ret[t])]

(***************************************************************************)
(* Linearizability: each call of the ring takes effect at one instant.     *)
(***************************************************************************)
Linearizable == AtCas!Spec

(***************************************************************************)
(* Used by one producer and one consumer, as every ring of runner.go is,   *)
(* the ring is an atomic queue: Enqueue fails only when Capacity values    *)
(* are queued and Dequeue only when none is.                               *)
(***************************************************************************)
ExactlyAQueue == AtPublish!Spec

-----------------------------------------------------------------------------
(* The inductive invariant behind ExclusiveCell, ReadsWhatWasPut and        *)
(* FreeCellsZeroed.                                                          *)

Positions == dequeuePos <= enqueuePos /\ enqueuePos <= dequeuePos + Capacity

\* A claimed position's cell waits for its producer (p) or is published (p + 1).
StoredCells == \A p \in dequeuePos..(enqueuePos - 1) :
    seq[Cell(p)] = p \/ seq[Cell(p)] = p + 1

\* An unclaimed position's cell is free (p) or still with the consumer of the
\* position one lap earlier (p - Capacity + 1).
FreeCells == \A p \in enqueuePos..(dequeuePos + Capacity - 1) :
    seq[Cell(p)] = p \/ seq[Cell(p)] = p - Capacity + 1

\* What a loaded position is worth: it may be stale, but if it is not then the
\* cell is as the goroutine saw it.
LoadedPositions == \A t \in Threads :
    /\ pc[t] \in {"e_loadSeq", "e_cas"} => pos[t] <= enqueuePos
    /\ pc[t] \in {"d_loadSeq", "d_cas"} => pos[t] <= dequeuePos
    /\ pc[t] = "e_cas" /\ pos[t] = enqueuePos => seq[Cell(pos[t])] = pos[t]
    /\ pc[t] = "d_cas" /\ pos[t] = dequeuePos => seq[Cell(pos[t])] = pos[t] + 1

\* A cell between the winning CAS and the store of its sequence number.
ClaimedPositions == \A t \in Threads :
    /\ pc[t] \in EnqClaimed => /\ dequeuePos <= pos[t] /\ pos[t] < enqueuePos
                               /\ seq[Cell(pos[t])] = pos[t]
    /\ pc[t] \in DeqClaimed => /\ enqueuePos <= pos[t] + Capacity /\ pos[t] < dequeuePos
                               /\ seq[Cell(pos[t])] = pos[t] + 1

DistinctClaims == \A t, u \in Threads :
    t # u => /\ pc[t] \in EnqClaimed /\ pc[u] \in EnqClaimed => pos[t] # pos[u]
             /\ pc[t] \in DeqClaimed /\ pc[u] \in DeqClaimed => pos[t] # pos[u]

\* A goroutine inside Enqueue has a caller's value to store.
HasArgument == \A t \in Threads : pc[t] \in EnqCalling \cup EnqClaimed => arg[t] \in Values

(***************************************************************************)
(* The ring's bookkeeping: how every cell's sequence number, the two       *)
(* positions and every call in progress (stale or not) fit together.       *)
(***************************************************************************)
RingInv == /\ Positions
           /\ StoredCells
           /\ FreeCells
           /\ LoadedPositions
           /\ ClaimedPositions
           /\ DistinctClaims

(***************************************************************************)
(* Where the values are: a published cell holds the value of its position, *)
(* a claimed one what its owner has got to, a free one nothing.            *)
(***************************************************************************)
DataInv ==
    /\ Len(hist) = enqueuePos
    /\ \A t \in Threads :
          /\ pc[t] \in EnqClaimed => hist[pos[t] + 1] = arg[t]
          /\ pc[t] = "e_write" => val[Cell(pos[t])] = Zero
          /\ pc[t] = "e_pub"   => val[Cell(pos[t])] = arg[t]
          /\ pc[t] = "d_read"  => val[Cell(pos[t])] = hist[pos[t] + 1]
          /\ pc[t] = "d_pub"   => val[Cell(pos[t])] = Zero
    /\ \A p \in dequeuePos..(enqueuePos - 1) : seq[Cell(p)] = p + 1
          => val[Cell(p)] = hist[p + 1]
    /\ ReadsWhatWasPut
    /\ FreeCellsZeroed

-----------------------------------------------------------------------------
(* Lock-freedom.  Only the goroutines in Running are scheduled fairly; the *)
(* others may stop for ever, in the middle of a call too.                  *)

CONSTANT Running      \* goroutines that the Go scheduler keeps running

ASSUME RunningAssumption == Running \subseteq Threads

FairSpec == Spec /\ \A t \in Running : WF_vars(EnqueueStep(t) \/ DequeueStep(t))

(***************************************************************************)
(* A running goroutine's call returns, whatever the others are stopped in  *)
(* the middle of; MaxCalls bounds how often they can make it start again.  *)
(***************************************************************************)
EveryCallReturns == \A t \in Running : pc[t] # "idle" ~> pc[t] = "idle"
=============================================================================
