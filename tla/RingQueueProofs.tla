--------------------------- MODULE RingQueueProofs ---------------------------
(***************************************************************************)
(* Proofs about RingQueue for every number of producers, consumers, calls  *)
(* and cells: no two goroutines are inside one cell; the values come out   *)
(* first in, first out, exactly once, with a length counter that accounts  *)
(* for every call; and the ring implements BoundedQueue, where each call   *)
(* takes effect at its CAS.  With one producer and one consumer it         *)
(* implements the exact queue, where a call fails on a full or an empty    *)
(* queue only.                                                             *)
(***************************************************************************)
EXTENDS RingQueue, FiniteSetTheorems, SequenceTheorems, TLAPS

(* Arithmetic of cells. *)

\* The remainder and the quotient of a position by the number of cells.
LEMMA DivMod ==
    ASSUME NEW p \in Nat
    PROVE  /\ p % Capacity \in 0..(Capacity - 1)
           /\ p \div Capacity \in Nat
           /\ p = (Capacity * (p \div Capacity)) + (p % Capacity)
  BY CapacityAssumption

\* A positive multiple of Capacity is at least Capacity.
LEMMA MultipleBound == ASSUME NEW k \in Nat, k >= 1 PROVE Capacity * k >= Capacity
  BY CapacityAssumption

\* Quotient and remainder are determined by the position.
LEMMA DivModUnique ==
    ASSUME NEW a \in Nat, NEW b \in Nat, NEW r \in Cells, NEW s \in Cells,
           (Capacity * a) + r = (Capacity * b) + s
    PROVE  r = s
  <1>1. CASE a < b
    <2>1. Capacity * (b - a) >= Capacity  BY <1>1, MultipleBound
    <2>2. QED  BY <2>1, CapacityAssumption DEF Cells
  <1>2. CASE b < a
    <2>1. Capacity * (a - b) >= Capacity  BY <1>2, MultipleBound
    <2>2. QED  BY <2>1, CapacityAssumption DEF Cells
  <1>3. QED  BY <1>1, <1>2, CapacityAssumption DEF Cells

\* pos & q.mask is the index of a cell.
LEMMA CellType == ASSUME NEW p \in Nat PROVE Cell(p) \in Cells
  BY DivMod DEF Cell, Cells

\* Two positions less than one lap apart that share a cell are the same.
LEMMA CellInjective ==
    ASSUME NEW p \in Nat, NEW q \in Nat, p <= q, q < p + Capacity, Cell(p) = Cell(q)
    PROVE  p = q
  <1> DEFINE a == p \div Capacity
             b == q \div Capacity
  <1>1. /\ a \in Nat /\ b \in Nat
        /\ p = (Capacity * a) + Cell(p)
        /\ q = (Capacity * b) + Cell(q)
        /\ Cell(p) \in Int
    BY DivMod DEF Cell
  <1> HIDE DEF a, b
  <1>2. CASE a < b
    <2>1. Capacity * (b - a) >= Capacity  BY <1>1, <1>2, MultipleBound
    <2>2. QED  BY <2>1, <1>1, CapacityAssumption
  <1>3. CASE b < a
    <2>1. Capacity * (a - b) >= Capacity  BY <1>1, <1>3, MultipleBound
    <2>2. QED  BY <2>1, <1>1, CapacityAssumption
  <1>4. QED  BY <1>1, <1>2, <1>3

\* A position and the one a lap later share a cell.
LEMMA CellLap == ASSUME NEW p \in Nat PROVE Cell(p + Capacity) = Cell(p)
  <1> DEFINE a == p \div Capacity
             b == (p + Capacity) \div Capacity
  <1>1. /\ a \in Nat /\ b \in Nat
        /\ Cell(p) \in Cells /\ Cell(p + Capacity) \in Cells
        /\ p = (Capacity * a) + Cell(p)
        /\ p + Capacity = (Capacity * b) + Cell(p + Capacity)
    BY DivMod, CapacityAssumption DEF Cell, Cells
  <1> HIDE DEF a, b
  <1>2. (Capacity * (a + 1)) + Cell(p) = (Capacity * b) + Cell(p + Capacity)
    BY <1>1, CapacityAssumption DEF Cells
  <1>3. QED  BY <1>1, <1>2, DivModUnique

-----------------------------------------------------------------------------
(* Types. *)

TypeInv == TypeOK /\ HasArgument

\* NewRing gives every field its type.
LEMMA InitTypeInv == Init => TypeInv
  <1> SUFFICES ASSUME Init PROVE TypeInv  OBVIOUS
  <1>1. seq \in [Cells -> Nat]  BY CapacityAssumption DEF Init, Cells
  <1>2. hist \in Seq(Values)  BY DEF Init
  <1>3. pc \in [Threads -> Pcs]  BY DEF Init, Pcs
  <1>4. HasArgument  BY DEF Init, HasArgument, EnqCalling, EnqClaimed
  <1>5. QED  BY <1>1, <1>2, <1>3, <1>4 DEF Init, TypeInv, TypeOK

\* Every step of Enqueue and Dequeue keeps the types.
LEMMA NextTypeInv == TypeInv /\ [Next]_vars => TypeInv'
  <1> SUFFICES ASSUME TypeInv, [Next]_vars PROVE TypeInv'  OBVIOUS
  <1> USE DEF TypeInv, TypeOK
  <1>1. ASSUME NEW t \in Producers, CallEnqueue(t) PROVE TypeInv'
    <2> t \in Threads  BY DEF Threads
    <2>1. pc' \in [Threads -> Pcs]  BY <1>1 DEF CallEnqueue, Goto, ring, Pcs, EnqPcs, DeqPcs, EnqClaimed, DeqClaimed
    <2>2. calls' \in [Threads -> Nat]  BY <1>1 DEF CallEnqueue, ring
    <2>3. UNCHANGED <<ring, pos, ret>> /\ arg' \in [Threads -> Values \cup {Zero}]  BY <1>1 DEF CallEnqueue
    <2>4. TypeOK'  BY <2>1, <2>2, <2>3 DEF ring
    <2>5. HasArgument'  BY <1>1 DEF CallEnqueue, Goto, ring, HasArgument, EnqCalling, EnqClaimed
    <2>6. QED  BY <2>4, <2>5
  <1>2. ASSUME NEW t \in Consumers, CallDequeue(t) PROVE TypeInv'
    <2> t \in Threads  BY DEF Threads
    <2>1. pc' \in [Threads -> Pcs]  BY <1>2 DEF CallDequeue, Goto, ring, Pcs, EnqPcs, DeqPcs, EnqClaimed, DeqClaimed
    <2>2. calls' \in [Threads -> Nat]  BY <1>2 DEF CallDequeue, ring
    <2>3. UNCHANGED <<ring, pos, arg, ret>>  BY <1>2 DEF CallDequeue
    <2>4. TypeOK'  BY <2>1, <2>2, <2>3 DEF ring
    <2>5. HasArgument'  BY <1>2 DEF CallDequeue, Goto, ring, HasArgument, EnqCalling, EnqClaimed
    <2>6. QED  BY <2>4, <2>5
  <1>3. ASSUME NEW t \in Threads, EnqueueStep(t) PROVE TypeInv'
    <2>1. CASE EnqLoadPos(t)
      <3>1. pc' \in [Threads -> Pcs]  BY <2>1 DEF EnqLoadPos, Goto, ring, Pcs, EnqPcs, DeqPcs, EnqClaimed, DeqClaimed
      <3>2. TypeOK'  BY <2>1, <3>1 DEF EnqLoadPos, Goto, ring
      <3>3. HasArgument'  BY <2>1 DEF EnqLoadPos, Goto, ring, HasArgument, EnqCalling, EnqClaimed
      <3>4. QED  BY <3>2, <3>3
    <2>2. CASE EnqLoadSeq(t)
      <3>1. pc' \in [Threads -> Pcs]  BY <2>2 DEF EnqLoadSeq, Goto, Retry, ring, Pcs, EnqPcs, DeqPcs, EnqClaimed, DeqClaimed
      <3>2. UNCHANGED <<ring, arg, ret, calls>>  BY <2>2 DEF EnqLoadSeq, Retry
      <3>3. pos' = pos \/ pos' = [pos EXCEPT ![t] = 0]  BY <2>2 DEF EnqLoadSeq, Retry, ring
      <3>4. [pos EXCEPT ![t] = 0] \in [Threads -> Nat]  OBVIOUS
      <3>5. pos' \in [Threads -> Nat]  BY <3>3, <3>4
      <3>6. TypeOK'  BY <3>1, <3>2, <3>5 DEF ring
      <3>7. HasArgument'  BY <2>2 DEF EnqLoadSeq, Goto, Retry, ring, HasArgument, EnqCalling, EnqClaimed
      <3>8. QED  BY <3>6, <3>7
    <2>3. CASE EnqCasWins(t)
      <3>1. pc' \in [Threads -> Pcs]  BY <2>3 DEF EnqCasWins, Goto, Pcs, EnqPcs, DeqPcs, EnqClaimed, DeqClaimed
      <3>2. enqueuePos' = pos[t] + 1  BY <2>3 DEF EnqCasWins
      <3>3. enqueuePos' \in Nat  BY <3>2
      <3>4. hist' \in Seq(Values)  BY <2>3 DEF EnqCasWins, HasArgument, EnqCalling, EnqClaimed, Goto
      <3>5. UNCHANGED <<dequeuePos, seq, val, length, pos, arg, ret, calls>>  BY <2>3 DEF EnqCasWins
      <3>6. TypeOK'  BY <3>1, <3>3, <3>4, <3>5
      <3>7. HasArgument'  BY <2>3 DEF EnqCasWins, Goto, HasArgument, EnqCalling, EnqClaimed
      <3>8. QED  BY <3>6, <3>7
    <2>4. CASE EnqCasFails(t)
      <3>1. pc' \in [Threads -> Pcs]  BY <2>4 DEF EnqCasFails, Goto, Retry, ring, Pcs, EnqPcs, DeqPcs, EnqClaimed, DeqClaimed
      <3>2. TypeOK'  BY <2>4, <3>1 DEF EnqCasFails, Goto, Retry, ring
      <3>3. HasArgument'  BY <2>4 DEF EnqCasFails, Goto, Retry, ring, HasArgument, EnqCalling, EnqClaimed
      <3>4. QED  BY <3>2, <3>3
    <2>5. CASE EnqWrite(t)
      <3>1. pc' \in [Threads -> Pcs]  BY <2>5 DEF EnqWrite, Goto, Pcs, EnqPcs, DeqPcs, EnqClaimed, DeqClaimed
      <3>2. TypeOK'  BY <2>5, <3>1 DEF EnqWrite, Goto
      <3>3. HasArgument'  BY <2>5 DEF EnqWrite, Goto, HasArgument, EnqCalling, EnqClaimed
      <3>4. QED  BY <3>2, <3>3
    <2>6. CASE EnqPublish(t)
      <3>1. pc' \in [Threads -> Pcs]  BY <2>6 DEF EnqPublish, Goto, Pcs, EnqPcs, DeqPcs, EnqClaimed, DeqClaimed
      <3>2. Cell(pos[t]) \in Cells /\ pos[t] + 1 \in Nat
        <4>1. pos[t] \in Nat  OBVIOUS
        <4>2. QED  BY <4>1, CellType
      <3>3. seq' = [seq EXCEPT ![Cell(pos[t])] = pos[t] + 1]  BY <2>6 DEF EnqPublish
      <3>4. seq' \in [Cells -> Nat]  BY <3>2, <3>3
      <3>5. UNCHANGED <<enqueuePos, dequeuePos, val, length, hist, pos, arg, ret, calls>>  BY <2>6 DEF EnqPublish
      <3>6. TypeOK'  BY <3>1, <3>4, <3>5
      <3>7. HasArgument'  BY <2>6 DEF EnqPublish, Goto, HasArgument, EnqCalling, EnqClaimed
      <3>8. QED  BY <3>6, <3>7
    <2>7. CASE EnqCount(t)
      <3>1. pc' \in [Threads -> Pcs]  BY <2>7 DEF EnqCount, Goto, Return, Pcs, EnqPcs, DeqPcs, EnqClaimed, DeqClaimed
      <3>2. length' \in Int  BY <2>7 DEF EnqCount, Return
      <3>3. UNCHANGED <<enqueuePos, dequeuePos, seq, val, hist, calls>>  BY <2>7 DEF EnqCount, Return
      <3>4. pos' \in [Threads -> Nat] /\ arg' \in [Threads -> Values \cup {Zero}] /\ ret' \in [Threads -> Values \cup {Zero}]
        BY <2>7, <3>2 DEF EnqCount, Return
      <3>5. TypeOK'  BY <3>1, <3>2, <3>3, <3>4
      <3>6. HasArgument'  BY <2>7 DEF EnqCount, Goto, Return, HasArgument, EnqCalling, EnqClaimed
      <3>7. QED  BY <3>5, <3>6
    <2>8. CASE EnqReturnsFalse(t)
      <3>1. pc' \in [Threads -> Pcs]  BY <2>8 DEF EnqReturnsFalse, Goto, Return, ring, Pcs, EnqPcs, DeqPcs, EnqClaimed, DeqClaimed
      <3>2. TypeOK'  BY <2>8, <3>1 DEF EnqReturnsFalse, Goto, Return, ring
      <3>3. HasArgument'  BY <2>8 DEF EnqReturnsFalse, Goto, Return, ring, HasArgument, EnqCalling, EnqClaimed
      <3>4. QED  BY <3>2, <3>3
    <2>9. QED  BY <1>3, <2>1, <2>2, <2>3, <2>4, <2>5, <2>6, <2>7, <2>8 DEF EnqueueStep
  <1>4. ASSUME NEW t \in Threads, DequeueStep(t) PROVE TypeInv'
    <2>1. CASE DeqLoadPos(t)
      <3>1. pc' \in [Threads -> Pcs]  BY <2>1 DEF DeqLoadPos, Goto, ring, Pcs, EnqPcs, DeqPcs, EnqClaimed, DeqClaimed
      <3>2. TypeOK'  BY <2>1, <3>1 DEF DeqLoadPos, Goto, ring
      <3>3. HasArgument'  BY <2>1 DEF DeqLoadPos, Goto, ring, HasArgument, EnqCalling, EnqClaimed
      <3>4. QED  BY <3>2, <3>3
    <2>2. CASE DeqLoadSeq(t)
      <3>1. pc' \in [Threads -> Pcs]  BY <2>2 DEF DeqLoadSeq, Goto, Retry, ring, Pcs, EnqPcs, DeqPcs, EnqClaimed, DeqClaimed
      <3>2. UNCHANGED <<ring, arg, ret, calls>>  BY <2>2 DEF DeqLoadSeq, Retry
      <3>3. pos' = pos \/ pos' = [pos EXCEPT ![t] = 0]  BY <2>2 DEF DeqLoadSeq, Retry, ring
      <3>4. [pos EXCEPT ![t] = 0] \in [Threads -> Nat]  OBVIOUS
      <3>5. pos' \in [Threads -> Nat]  BY <3>3, <3>4
      <3>6. TypeOK'  BY <3>1, <3>2, <3>5 DEF ring
      <3>7. HasArgument'  BY <2>2 DEF DeqLoadSeq, Goto, Retry, ring, HasArgument, EnqCalling, EnqClaimed
      <3>8. QED  BY <3>6, <3>7
    <2>3. CASE DeqCasWins(t)
      <3>1. pc' \in [Threads -> Pcs]  BY <2>3 DEF DeqCasWins, Goto, Pcs, EnqPcs, DeqPcs, EnqClaimed, DeqClaimed
      <3>2. dequeuePos' = pos[t] + 1  BY <2>3 DEF DeqCasWins
      <3>3. dequeuePos' \in Nat  BY <3>2
      <3>4. UNCHANGED <<enqueuePos, seq, val, length, hist, pos, arg, ret, calls>>  BY <2>3 DEF DeqCasWins
      <3>5. TypeOK'  BY <3>1, <3>3, <3>4
      <3>6. HasArgument'  BY <2>3 DEF DeqCasWins, Goto, HasArgument, EnqCalling, EnqClaimed
      <3>7. QED  BY <3>5, <3>6
    <2>4. CASE DeqCasFails(t)
      <3>1. pc' \in [Threads -> Pcs]  BY <2>4 DEF DeqCasFails, Goto, Retry, ring, Pcs, EnqPcs, DeqPcs, EnqClaimed, DeqClaimed
      <3>2. TypeOK'  BY <2>4, <3>1 DEF DeqCasFails, Goto, Retry, ring
      <3>3. HasArgument'  BY <2>4 DEF DeqCasFails, Goto, Retry, ring, HasArgument, EnqCalling, EnqClaimed
      <3>4. QED  BY <3>2, <3>3
    <2>5. CASE DeqRead(t)
      <3>1. pc' \in [Threads -> Pcs]  BY <2>5 DEF DeqRead, Goto, ring, Pcs, EnqPcs, DeqPcs, EnqClaimed, DeqClaimed
      <3>2. TypeOK'
        <4>1. pos[t] \in Nat  OBVIOUS
        <4>2. val[Cell(pos[t])] \in Values \cup {Zero}  BY <4>1, CellType
        <4>3. QED  BY <2>5, <3>1, <4>2 DEF DeqRead, Goto, ring
      <3>3. HasArgument'  BY <2>5 DEF DeqRead, Goto, ring, HasArgument, EnqCalling, EnqClaimed
      <3>4. QED  BY <3>2, <3>3
    <2>6. CASE DeqZero(t)
      <3>1. pc' \in [Threads -> Pcs]  BY <2>6 DEF DeqZero, Goto, Pcs, EnqPcs, DeqPcs, EnqClaimed, DeqClaimed
      <3>2. TypeOK'  BY <2>6, <3>1 DEF DeqZero, Goto
      <3>3. HasArgument'  BY <2>6 DEF DeqZero, Goto, HasArgument, EnqCalling, EnqClaimed
      <3>4. QED  BY <3>2, <3>3
    <2>7. CASE DeqRelease(t)
      <3>1. pc' \in [Threads -> Pcs]  BY <2>7 DEF DeqRelease, Goto, Pcs, EnqPcs, DeqPcs, EnqClaimed, DeqClaimed
      <3>2. Cell(pos[t]) \in Cells /\ pos[t] + Capacity \in Nat
        <4>1. pos[t] \in Nat /\ Capacity \in Nat  BY CapacityAssumption
        <4>2. Cell(pos[t]) \in Cells  BY <4>1, CellType
        <4>3. PICK p : p = pos[t]  OBVIOUS
        <4>4. p + Capacity \in Nat  BY <4>1, <4>3
        <4>5. QED  BY <4>2, <4>3, <4>4
      <3>3. seq' = [seq EXCEPT ![Cell(pos[t])] = pos[t] + Capacity]  BY <2>7 DEF DeqRelease
      <3>4. seq' \in [Cells -> Nat]  BY <3>2, <3>3
      <3>5. UNCHANGED <<enqueuePos, dequeuePos, val, length, hist, pos, arg, ret, calls>>  BY <2>7 DEF DeqRelease
      <3>6. TypeOK'  BY <3>1, <3>4, <3>5
      <3>7. HasArgument'  BY <2>7 DEF DeqRelease, Goto, HasArgument, EnqCalling, EnqClaimed
      <3>8. QED  BY <3>6, <3>7
    <2>8. CASE DeqCount(t)
      <3>1. pc' \in [Threads -> Pcs]  BY <2>8 DEF DeqCount, Goto, Return, Pcs, EnqPcs, DeqPcs, EnqClaimed, DeqClaimed
      <3>2. length' \in Int  BY <2>8 DEF DeqCount, Return
      <3>3. UNCHANGED <<enqueuePos, dequeuePos, seq, val, hist, calls>>  BY <2>8 DEF DeqCount, Return
      <3>4. pos' \in [Threads -> Nat] /\ arg' \in [Threads -> Values \cup {Zero}] /\ ret' \in [Threads -> Values \cup {Zero}]
        BY <2>8, <3>2 DEF DeqCount, Return
      <3>5. TypeOK'  BY <3>1, <3>2, <3>3, <3>4
      <3>6. HasArgument'  BY <2>8 DEF DeqCount, Goto, Return, HasArgument, EnqCalling, EnqClaimed
      <3>7. QED  BY <3>5, <3>6
    <2>9. CASE DeqReturnsFalse(t)
      <3>1. pc' \in [Threads -> Pcs]  BY <2>9 DEF DeqReturnsFalse, Goto, Return, ring, Pcs, EnqPcs, DeqPcs, EnqClaimed, DeqClaimed
      <3>2. TypeOK'  BY <2>9, <3>1 DEF DeqReturnsFalse, Goto, Return, ring
      <3>3. HasArgument'  BY <2>9 DEF DeqReturnsFalse, Goto, Return, ring, HasArgument, EnqCalling, EnqClaimed
      <3>4. QED  BY <3>2, <3>3
    <2>10. QED  BY <1>4, <2>1, <2>2, <2>3, <2>4, <2>5, <2>6, <2>7, <2>8, <2>9 DEF DequeueStep
  <1>5. CASE UNCHANGED vars  BY <1>5 DEF vars, HasArgument
  <1>6. QED  BY <1>1, <1>2, <1>3, <1>4, <1>5 DEF Next, AllReturned

(***************************************************************************)
(* Every variable of the ring keeps its type; in particular only values    *)
(* that callers passed to Enqueue enter the history.                       *)
(***************************************************************************)
THEOREM TypeCorrect == Spec => []TypeOK
  <1>1. TypeInv => TypeOK  BY DEF TypeInv
  <1>2. QED  BY <1>1, InitTypeInv, NextTypeInv, PTL DEF Spec

-----------------------------------------------------------------------------
(* The ring's bookkeeping. *)

\* A new ring is all free cells.
LEMMA InitRingInv == Init => RingInv
  <1> SUFFICES ASSUME Init PROVE RingInv  OBVIOUS
  <1>1. \A p \in 0..(Capacity - 1) : Cell(p) = p
    BY CapacityAssumption DEF Cell
  <1>2. FreeCells
    <2>1. ASSUME NEW p \in 0..(Capacity - 1) PROVE seq[Cell(p)] = p
      BY <2>1, <1>1 DEF Init, Cells
    <2>2. enqueuePos..(dequeuePos + Capacity - 1) = 0..(Capacity - 1)
      BY CapacityAssumption DEF Init
    <2>3. QED  BY <2>1, <2>2 DEF FreeCells
  <1>3. Positions /\ StoredCells  BY CapacityAssumption DEF Init, Positions, StoredCells
  <1>4. LoadedPositions /\ ClaimedPositions /\ DistinctClaims
    BY DEF Init, LoadedPositions, ClaimedPositions, DistinctClaims, EnqClaimed, DeqClaimed
  <1>5. QED  BY <1>2, <1>3, <1>4 DEF RingInv

\* A step of goroutine t that touches neither position counter nor a sequence
\* number: only what is said of t itself can change.
LEMMA LocalStep ==
    ASSUME TypeOK, RingInv, NEW t \in Threads,
           UNCHANGED <<enqueuePos, dequeuePos, seq>>,
           \A u \in Threads \ {t} : pc'[u] = pc[u] /\ pos'[u] = pos[u],
           pc'[t] \in {"e_loadSeq", "e_cas"} => pos'[t] <= enqueuePos,
           pc'[t] \in {"d_loadSeq", "d_cas"} => pos'[t] <= dequeuePos,
           pc'[t] = "e_cas" => seq[Cell(pos'[t])] = pos'[t],
           pc'[t] = "d_cas" => seq[Cell(pos'[t])] = pos'[t] + 1,
           pc'[t] \in EnqClaimed => pc[t] \in EnqClaimed /\ pos'[t] = pos[t],
           pc'[t] \in DeqClaimed => pc[t] \in DeqClaimed /\ pos'[t] = pos[t]
    PROVE  RingInv'
  <1>1. Positions' /\ StoredCells' /\ FreeCells'
    BY DEF RingInv, Positions, StoredCells, FreeCells
  <1>2. LoadedPositions'
    <2> SUFFICES ASSUME NEW u \in Threads
                 PROVE  /\ pc'[u] \in {"e_loadSeq", "e_cas"} => pos'[u] <= enqueuePos
                        /\ pc'[u] \in {"d_loadSeq", "d_cas"} => pos'[u] <= dequeuePos
                        /\ pc'[u] = "e_cas" /\ pos'[u] = enqueuePos => seq[Cell(pos'[u])] = pos'[u]
                        /\ pc'[u] = "d_cas" /\ pos'[u] = dequeuePos => seq[Cell(pos'[u])] = pos'[u] + 1
      BY DEF LoadedPositions, Cell
    <2>1. CASE u = t  BY <2>1
    <2>2. CASE u # t  BY <2>2 DEF RingInv, LoadedPositions
    <2>3. QED  BY <2>1, <2>2
  <1>3. ClaimedPositions'
    BY DEF RingInv, ClaimedPositions, Cell
  <1>4. DistinctClaims'
    BY DEF RingInv, DistinctClaims
  <1>5. QED  BY <1>1, <1>2, <1>3, <1>4 DEF RingInv

\* A producer wins a position.
LEMMA EnqCasStep ==
    ASSUME TypeOK, RingInv, NEW t \in Threads, EnqCasWins(t) PROVE RingInv'
  <1> USE CapacityAssumption DEF TypeOK
  <1> DEFINE e == enqueuePos
             d == dequeuePos
  <1>1. /\ e \in Nat /\ d \in Nat /\ pos[t] = e /\ d <= e /\ e <= d + Capacity
        /\ seq[Cell(e)] = e /\ pc[t] = "e_cas" /\ pos \in [Threads -> Nat]
    BY DEF EnqCasWins, Goto, RingInv, Positions, LoadedPositions
  <1>2. /\ enqueuePos' = e + 1 /\ dequeuePos' = d /\ seq' = seq /\ pos' = pos
        /\ pc' = [pc EXCEPT ![t] = "e_write"] /\ pc \in [Threads -> Pcs]
    BY <1>1 DEF EnqCasWins, Goto
  <1>3. e < d + Capacity
    <2>1. SUFFICES ASSUME e = d + Capacity PROVE FALSE  BY <1>1
    <2>2. d \in d..(e - 1)  BY <1>1, <2>1
    <2>3. seq[Cell(d)] = d \/ seq[Cell(d)] = d + 1
      BY <2>2 DEF RingInv, StoredCells
    <2>4. Cell(e) = Cell(d)  BY <1>1, <2>1, CellLap
    <2>5. QED  BY <1>1, <2>1, <2>3, <2>4
  <1>4. Positions'  BY <1>1, <1>2, <1>3 DEF Positions
  <1>5. StoredCells'
    <2>1. ASSUME NEW p \in d..e PROVE seq[Cell(p)] = p \/ seq[Cell(p)] = p + 1
      <3>1. CASE p = e  BY <3>1, <1>1
      <3>2. CASE p # e
        <4>1. p \in d..(e - 1)  BY <1>1, <3>2
        <4>2. QED  BY <4>1 DEF RingInv, StoredCells
      <3>3. QED  BY <3>1, <3>2
    <2>2. dequeuePos'..(enqueuePos' - 1) = d..e  BY <1>1, <1>2
    <2>3. QED  BY <1>2, <2>1, <2>2 DEF StoredCells, Cell
  <1>6. FreeCells'
    <2>1. ASSUME NEW p \in (e + 1)..(d + Capacity - 1)
          PROVE  seq[Cell(p)] = p \/ seq[Cell(p)] = p - Capacity + 1
      <3>1. p \in e..(d + Capacity - 1)  BY <1>1
      <3>2. QED  BY <3>1 DEF RingInv, FreeCells
    <2>2. QED  BY <1>2, <2>1 DEF FreeCells, Cell
  <1>7. LoadedPositions'
    <2> SUFFICES ASSUME NEW u \in Threads
                 PROVE  /\ pc'[u] \in {"e_loadSeq", "e_cas"} => pos[u] <= e + 1
                        /\ pc'[u] \in {"d_loadSeq", "d_cas"} => pos[u] <= d
                        /\ pc'[u] = "e_cas" => pos[u] # e + 1
                        /\ pc'[u] = "d_cas" /\ pos[u] = d => seq[Cell(pos[u])] = pos[u] + 1
      BY <1>2 DEF LoadedPositions, Cell
    <2>1. CASE u = t  BY <2>1, <1>2
    <2>2. CASE u # t
      <3>1. pc'[u] = pc[u]  BY <1>2, <2>2
      <3>2. /\ pc[u] \in {"e_loadSeq", "e_cas"} => pos[u] <= e
            /\ pc[u] \in {"d_loadSeq", "d_cas"} => pos[u] <= d
            /\ pc[u] = "d_cas" /\ pos[u] = d => seq[Cell(pos[u])] = pos[u] + 1
        BY DEF RingInv, LoadedPositions
      <3>3. QED  BY <1>1, <3>1, <3>2
    <2>3. QED  BY <2>1, <2>2
  <1>8. ClaimedPositions'
    <2> SUFFICES ASSUME NEW u \in Threads
                 PROVE  /\ pc'[u] \in EnqClaimed => /\ d <= pos[u] /\ pos[u] < e + 1
                                                    /\ seq[Cell(pos[u])] = pos[u]
                        /\ pc'[u] \in DeqClaimed => /\ e + 1 <= pos[u] + Capacity /\ pos[u] < d
                                                    /\ seq[Cell(pos[u])] = pos[u] + 1
      BY <1>2 DEF ClaimedPositions, Cell
    <2>1. CASE u = t  BY <2>1, <1>1, <1>2 DEF DeqClaimed
    <2>2. CASE u # t
      <3>1. pc'[u] = pc[u]  BY <1>2, <2>2
      <3>2. /\ pc[u] \in EnqClaimed => /\ d <= pos[u] /\ pos[u] < e
                                       /\ seq[Cell(pos[u])] = pos[u]
            /\ pc[u] \in DeqClaimed => /\ e <= pos[u] + Capacity /\ pos[u] < d
                                       /\ seq[Cell(pos[u])] = pos[u] + 1
        BY DEF RingInv, ClaimedPositions
      <3>3. ASSUME pc[u] \in DeqClaimed PROVE e + 1 <= pos[u] + Capacity
        <4>1. Cell(pos[u] + Capacity) = Cell(pos[u])  BY <1>1, CellLap
        <4>2. e \in Nat /\ pos[u] \in Nat /\ Capacity \in Nat /\ e <= pos[u] + Capacity
          BY <1>1, <3>2, <3>3
        <4>3. ~(e = pos[u] + Capacity)  BY <1>1, <3>2, <3>3, <4>1
        <4> HIDE DEF e
        <4>4. QED  BY ONLY <4>2, <4>3
      <3>4. ASSUME pc[u] \in EnqClaimed PROVE pos[u] < e + 1
        BY <1>1, <3>2, <3>4
      <3>5. QED  BY <3>1, <3>2, <3>3, <3>4
    <2>3. QED  BY <2>1, <2>2
  <1>9. DistinctClaims'
    <2>1. \A u \in Threads : pc[u] \in EnqClaimed => pos[u] < e
      BY DEF RingInv, ClaimedPositions
    <2>2. QED  BY <1>1, <1>2, <2>1 DEF RingInv, DistinctClaims, EnqClaimed, DeqClaimed
  <1>10. QED  BY <1>4, <1>5, <1>6, <1>7, <1>8, <1>9 DEF RingInv

\* A consumer wins a position.
LEMMA DeqCasStep ==
    ASSUME TypeOK, RingInv, NEW t \in Threads, DeqCasWins(t) PROVE RingInv'
  <1> USE CapacityAssumption DEF TypeOK
  <1> DEFINE e == enqueuePos
             d == dequeuePos
  <1>1. /\ e \in Nat /\ d \in Nat /\ pos[t] = d /\ d <= e /\ e <= d + Capacity
        /\ seq[Cell(d)] = d + 1 /\ pc[t] = "d_cas" /\ pos \in [Threads -> Nat]
    BY DEF DeqCasWins, Goto, RingInv, Positions, LoadedPositions
  <1>2. /\ enqueuePos' = e /\ dequeuePos' = d + 1 /\ seq' = seq /\ pos' = pos
        /\ pc' = [pc EXCEPT ![t] = "d_read"] /\ pc \in [Threads -> Pcs]
    BY <1>1 DEF DeqCasWins, Goto
  <1>3. d < e
    <2>1. SUFFICES ASSUME d = e PROVE FALSE  BY <1>1
    <2>2. d \in e..(d + Capacity - 1)  BY <1>1, <2>1
    <2>3. seq[Cell(d)] = d \/ seq[Cell(d)] = d - Capacity + 1
      BY <2>2 DEF RingInv, FreeCells
    <2>4. QED  BY <1>1, <2>3
  <1>4. Positions'  BY <1>1, <1>2, <1>3 DEF Positions
  <1>5. StoredCells'
    <2>1. ASSUME NEW p \in (d + 1)..(e - 1) PROVE seq[Cell(p)] = p \/ seq[Cell(p)] = p + 1
      <3>1. p \in d..(e - 1)  BY <1>1
      <3>2. QED  BY <3>1 DEF RingInv, StoredCells
    <2>2. QED  BY <1>2, <2>1 DEF StoredCells, Cell
  <1>6. FreeCells'
    <2>1. ASSUME NEW p \in e..(d + Capacity)
          PROVE  seq[Cell(p)] = p \/ seq[Cell(p)] = p - Capacity + 1
      <3>1. CASE p = d + Capacity
        <4>1. Cell(p) = Cell(d)  BY <1>1, <3>1, CellLap
        <4>2. QED  BY <1>1, <3>1, <4>1
      <3>2. CASE p # d + Capacity
        <4>1. p \in e..(d + Capacity - 1)  BY <1>1, <3>2
        <4>2. QED  BY <4>1 DEF RingInv, FreeCells
      <3>3. QED  BY <3>1, <3>2
    <2>2. enqueuePos'..(dequeuePos' + Capacity - 1) = e..(d + Capacity)  BY <1>1, <1>2
    <2>3. QED  BY <1>2, <2>1, <2>2 DEF FreeCells, Cell
  <1>7. LoadedPositions'
    <2> SUFFICES ASSUME NEW u \in Threads
                 PROVE  /\ pc'[u] \in {"e_loadSeq", "e_cas"} => pos[u] <= e
                        /\ pc'[u] \in {"d_loadSeq", "d_cas"} => pos[u] <= d + 1
                        /\ pc'[u] = "e_cas" /\ pos[u] = e => seq[Cell(pos[u])] = pos[u]
                        /\ pc'[u] = "d_cas" => pos[u] # d + 1
      BY <1>2 DEF LoadedPositions, Cell
    <2>1. CASE u = t  BY <2>1, <1>2
    <2>2. CASE u # t
      <3>1. pc'[u] = pc[u]  BY <1>2, <2>2
      <3>2. /\ pc[u] \in {"e_loadSeq", "e_cas"} => pos[u] <= e
            /\ pc[u] \in {"d_loadSeq", "d_cas"} => pos[u] <= d
            /\ pc[u] = "e_cas" /\ pos[u] = e => seq[Cell(pos[u])] = pos[u]
        BY DEF RingInv, LoadedPositions
      <3>3. QED  BY <1>1, <3>1, <3>2
    <2>3. QED  BY <2>1, <2>2
  <1>8. ClaimedPositions'
    <2> SUFFICES ASSUME NEW u \in Threads
                 PROVE  /\ pc'[u] \in EnqClaimed => /\ d + 1 <= pos[u] /\ pos[u] < e
                                                    /\ seq[Cell(pos[u])] = pos[u]
                        /\ pc'[u] \in DeqClaimed => /\ e <= pos[u] + Capacity /\ pos[u] < d + 1
                                                    /\ seq[Cell(pos[u])] = pos[u] + 1
      BY <1>2 DEF ClaimedPositions, Cell
    <2>1. CASE u = t  BY <2>1, <1>1, <1>2 DEF EnqClaimed
    <2>2. CASE u # t
      <3>1. pc'[u] = pc[u]  BY <1>2, <2>2
      <3>2. /\ pc[u] \in EnqClaimed => /\ d <= pos[u] /\ pos[u] < e
                                       /\ seq[Cell(pos[u])] = pos[u]
            /\ pc[u] \in DeqClaimed => /\ e <= pos[u] + Capacity /\ pos[u] < d
                                       /\ seq[Cell(pos[u])] = pos[u] + 1
        BY DEF RingInv, ClaimedPositions
      <3>3. ASSUME pc[u] \in EnqClaimed PROVE d + 1 <= pos[u]
        <4>1. d # pos[u]  BY <1>1, <3>2, <3>3
        <4>2. QED  BY <1>1, <3>2, <3>3, <4>1
      <3>4. ASSUME pc[u] \in DeqClaimed PROVE pos[u] < d + 1
        BY <1>1, <3>2, <3>4
      <3>5. QED  BY <3>1, <3>2, <3>3, <3>4
    <2>3. QED  BY <2>1, <2>2
  <1>9. DistinctClaims'
    <2>1. \A u \in Threads : pc[u] \in DeqClaimed => pos[u] < d
      BY DEF RingInv, ClaimedPositions
    <2>2. QED  BY <1>1, <1>2, <2>1 DEF RingInv, DistinctClaims, EnqClaimed, DeqClaimed
  <1>10. QED  BY <1>4, <1>5, <1>6, <1>7, <1>8, <1>9 DEF RingInv

\* A producer publishes its cell: the sequence number goes from p to p + 1.
LEMMA PublishStep ==
    ASSUME TypeOK, RingInv, NEW t \in Threads, EnqPublish(t) PROVE RingInv'
  <1> USE CapacityAssumption DEF TypeOK
  <1> DEFINE e == enqueuePos
             d == dequeuePos
             q == pos[t]
  <1>1. /\ e \in Nat /\ d \in Nat /\ q \in Nat /\ d <= q /\ q < e /\ e <= d + Capacity
        /\ seq[Cell(q)] = q /\ pc[t] = "e_pub" /\ pos \in [Threads -> Nat]
        /\ seq \in [Cells -> Nat]
    BY DEF EnqPublish, Goto, RingInv, Positions, ClaimedPositions, EnqClaimed
  <1>2. /\ enqueuePos' = e /\ dequeuePos' = d /\ pos' = pos
        /\ seq' = [seq EXCEPT ![Cell(q)] = q + 1]
        /\ pc' = [pc EXCEPT ![t] = "e_len"] /\ pc \in [Threads -> Pcs]
    BY <1>1 DEF EnqPublish, Goto
  <1> HIDE DEF q
  <1>3. ASSUME NEW p \in Nat
        PROVE  seq'[Cell(p)] = IF Cell(p) = Cell(q) THEN q + 1 ELSE seq[Cell(p)]
    BY <1>1, <1>2, CellType
  \* No other position of the current lap shares the cell.
  <1>4. ASSUME NEW p \in Nat, d <= p, p < d + Capacity, Cell(p) = Cell(q) PROVE p = q
    <2>1. CASE p <= q  BY <1>1, <1>4, <2>1, CellInjective
    <2>2. CASE q <= p  BY <1>1, <1>4, <2>2, CellInjective
    <2>3. QED  BY <1>1, <2>1, <2>2
  <1>5. Positions'  BY <1>2 DEF RingInv, Positions
  <1>6. StoredCells'
    <2>1. ASSUME NEW p \in d..(e - 1) PROVE seq'[Cell(p)] = p \/ seq'[Cell(p)] = p + 1
      <3>1. seq[Cell(p)] = p \/ seq[Cell(p)] = p + 1  BY DEF RingInv, StoredCells
      <3>2. p \in Nat /\ d <= p /\ p < d + Capacity  BY <1>1
      <3>3. QED  BY <1>1, <1>3, <1>4, <3>1, <3>2
    <2>2. QED  BY <1>2, <2>1 DEF StoredCells, Cell
  <1>7. FreeCells'
    <2>1. ASSUME NEW p \in e..(d + Capacity - 1)
          PROVE  seq'[Cell(p)] = p \/ seq'[Cell(p)] = p - Capacity + 1
      <3>1. seq[Cell(p)] = p \/ seq[Cell(p)] = p - Capacity + 1  BY DEF RingInv, FreeCells
      <3>2. p \in Nat /\ d <= p /\ p < d + Capacity /\ p # q  BY <1>1
      <3>3. QED  BY <1>1, <1>3, <1>4, <3>1, <3>2
    <2>2. QED  BY <1>2, <2>1 DEF FreeCells, Cell
  <1>8. LoadedPositions'
    <2> SUFFICES ASSUME NEW u \in Threads
                 PROVE  /\ pc'[u] \in {"e_loadSeq", "e_cas"} => pos[u] <= e
                        /\ pc'[u] \in {"d_loadSeq", "d_cas"} => pos[u] <= d
                        /\ pc'[u] = "e_cas" /\ pos[u] = e => seq'[Cell(pos[u])] = pos[u]
                        /\ pc'[u] = "d_cas" /\ pos[u] = d => seq'[Cell(pos[u])] = pos[u] + 1
      BY <1>2 DEF LoadedPositions, Cell
    <2>1. CASE u = t  BY <2>1, <1>2
    <2>2. CASE u # t
      <3>1. pc'[u] = pc[u] /\ pos[u] \in Nat  BY <1>1, <1>2, <2>2
      <3>2. /\ pc[u] \in {"e_loadSeq", "e_cas"} => pos[u] <= e
            /\ pc[u] \in {"d_loadSeq", "d_cas"} => pos[u] <= d
            /\ pc[u] = "e_cas" /\ pos[u] = e => seq[Cell(pos[u])] = pos[u]
            /\ pc[u] = "d_cas" /\ pos[u] = d => seq[Cell(pos[u])] = pos[u] + 1
        BY DEF RingInv, LoadedPositions
      <3>3. ASSUME pc[u] = "e_cas", pos[u] = e PROVE seq'[Cell(pos[u])] = pos[u]
        <4>1. seq[Cell(e)] = e  BY <3>2, <3>3
        <4>2. Cell(e) # Cell(q)  BY <1>1, <4>1
        <4>3. seq'[Cell(e)] = e  BY <1>1, <1>3, <4>1, <4>2
        <4>4. QED  BY <3>3, <4>3
      <3>4. ASSUME pc[u] = "d_cas", pos[u] = d PROVE seq'[Cell(pos[u])] = pos[u] + 1
        <4>1. CASE Cell(d) = Cell(q)
          <5>1. d = q  BY <1>1, <1>4, <4>1
          <5>2. QED  BY <1>1, <1>3, <3>1, <3>2, <3>4, <5>1
        <4>2. CASE Cell(d) # Cell(q)  BY <1>1, <1>3, <3>1, <3>2, <3>4, <4>2
        <4>3. QED  BY <4>1, <4>2
      <3>5. QED  BY <3>1, <3>2, <3>3, <3>4
    <2>3. QED  BY <2>1, <2>2
  <1>9. ClaimedPositions'
    <2> SUFFICES ASSUME NEW u \in Threads
                 PROVE  /\ pc'[u] \in EnqClaimed => /\ d <= pos[u] /\ pos[u] < e
                                                    /\ seq'[Cell(pos[u])] = pos[u]
                        /\ pc'[u] \in DeqClaimed => /\ e <= pos[u] + Capacity /\ pos[u] < d
                                                    /\ seq'[Cell(pos[u])] = pos[u] + 1
      BY <1>2 DEF ClaimedPositions, Cell
    <2>1. CASE u = t  BY <2>1, <1>2 DEF EnqClaimed, DeqClaimed
    <2>2. CASE u # t
      <3>1. pc'[u] = pc[u] /\ pos[u] \in Nat  BY <1>1, <1>2, <2>2
      <3>2. /\ pc[u] \in EnqClaimed => /\ d <= pos[u] /\ pos[u] < e
                                       /\ seq[Cell(pos[u])] = pos[u]
            /\ pc[u] \in DeqClaimed => /\ e <= pos[u] + Capacity /\ pos[u] < d
                                       /\ seq[Cell(pos[u])] = pos[u] + 1
        BY DEF RingInv, ClaimedPositions
      <3>3. pc[u] \in EnqClaimed => pos[u] # q
        BY <1>1, <2>2 DEF RingInv, DistinctClaims, EnqClaimed, q
      <3>4. ASSUME pc[u] \in EnqClaimed PROVE Cell(pos[u]) # Cell(q)
        BY <1>1, <1>4, <3>1, <3>2, <3>3, <3>4
      <3>5. ASSUME pc[u] \in DeqClaimed PROVE Cell(pos[u]) # Cell(q)
        <4>1. SUFFICES ASSUME Cell(pos[u]) = Cell(q) PROVE FALSE  OBVIOUS
        <4>2. q = pos[u] + 1  BY <1>1, <3>2, <3>5, <4>1
        <4>3. pos[u] = q  BY <1>1, <3>1, <4>1, <4>2, CellInjective
        <4>4. QED  BY <3>1, <4>2, <4>3
      <3>6. QED  BY <1>3, <3>1, <3>2, <3>4, <3>5
    <2>3. QED  BY <2>1, <2>2
  <1>10. DistinctClaims'
    BY <1>1, <1>2 DEF RingInv, DistinctClaims, EnqClaimed, DeqClaimed
  <1>11. QED  BY <1>5, <1>6, <1>7, <1>8, <1>9, <1>10 DEF RingInv

\* A consumer releases its cell: the sequence number goes from p + 1 to the
\* position one lap later.
LEMMA ReleaseStep ==
    ASSUME TypeOK, RingInv, NEW t \in Threads, DeqRelease(t) PROVE RingInv'
  <1> USE CapacityAssumption DEF TypeOK
  <1> DEFINE e == enqueuePos
             d == dequeuePos
             q == pos[t]
  <1>1. /\ e \in Nat /\ d \in Nat /\ q \in Nat /\ e <= q + Capacity /\ q < d /\ d <= e
        /\ e <= d + Capacity
        /\ seq[Cell(q)] = q + 1 /\ pc[t] = "d_pub" /\ pos \in [Threads -> Nat]
        /\ seq \in [Cells -> Nat]
    BY DEF DeqRelease, Goto, RingInv, Positions, ClaimedPositions, DeqClaimed
  <1>2. /\ enqueuePos' = e /\ dequeuePos' = d /\ pos' = pos
        /\ seq' = [seq EXCEPT ![Cell(q)] = q + Capacity]
        /\ pc' = [pc EXCEPT ![t] = "d_len"] /\ pc \in [Threads -> Pcs]
    BY <1>1 DEF DeqRelease, Goto
  <1> HIDE DEF q
  <1>3. ASSUME NEW p \in Nat
        PROVE  seq'[Cell(p)] = IF Cell(p) = Cell(q) THEN q + Capacity ELSE seq[Cell(p)]
    BY <1>1, <1>2, CellType
  \* The released position and the one a lap later are the only ones near by.
  <1>4. ASSUME NEW p \in Nat, p < q + Capacity, q < p + Capacity, Cell(p) = Cell(q) PROVE p = q
    <2>1. CASE p <= q  BY <1>1, <1>4, <2>1, CellInjective
    <2>2. CASE q <= p  BY <1>1, <1>4, <2>2, CellInjective
    <2>3. QED  BY <1>1, <2>1, <2>2
  <1>5. ASSUME NEW p \in Nat, e <= p, p < d + Capacity, Cell(p) = Cell(q) PROVE p = q + Capacity
    <2>1. Cell(q + Capacity) = Cell(q) /\ q + Capacity \in Nat  BY <1>1, CellLap
    <2>2. CASE p <= q + Capacity  BY <1>1, <1>5, <2>1, <2>2, CellInjective
    <2>3. CASE q + Capacity <= p  BY <1>1, <1>5, <2>1, <2>3, CellInjective
    <2>4. QED  BY <1>1, <2>2, <2>3
  <1>6. Positions'  BY <1>2 DEF RingInv, Positions
  <1>7. StoredCells'
    <2>1. ASSUME NEW p \in d..(e - 1) PROVE seq'[Cell(p)] = p \/ seq'[Cell(p)] = p + 1
      <3>1. seq[Cell(p)] = p \/ seq[Cell(p)] = p + 1  BY DEF RingInv, StoredCells
      <3>2. p \in Nat /\ p < q + Capacity /\ q < p + Capacity /\ p # q  BY <1>1
      <3>3. Cell(p) # Cell(q)  BY <1>4, <3>2
      <3>4. QED  BY <1>3, <3>1, <3>2, <3>3
    <2>2. QED  BY <1>2, <2>1 DEF StoredCells, Cell
  <1>8. FreeCells'
    <2>1. ASSUME NEW p \in e..(d + Capacity - 1)
          PROVE  seq'[Cell(p)] = p \/ seq'[Cell(p)] = p - Capacity + 1
      <3>1. seq[Cell(p)] = p \/ seq[Cell(p)] = p - Capacity + 1  BY DEF RingInv, FreeCells
      <3>2. p \in Nat /\ e <= p /\ p < d + Capacity  BY <1>1
      <3>3. QED  BY <1>1, <1>3, <1>5, <3>1, <3>2
    <2>2. QED  BY <1>2, <2>1 DEF FreeCells, Cell
  <1>9. LoadedPositions'
    <2> SUFFICES ASSUME NEW u \in Threads
                 PROVE  /\ pc'[u] \in {"e_loadSeq", "e_cas"} => pos[u] <= e
                        /\ pc'[u] \in {"d_loadSeq", "d_cas"} => pos[u] <= d
                        /\ pc'[u] = "e_cas" /\ pos[u] = e => seq'[Cell(pos[u])] = pos[u]
                        /\ pc'[u] = "d_cas" /\ pos[u] = d => seq'[Cell(pos[u])] = pos[u] + 1
      BY <1>2 DEF LoadedPositions, Cell
    <2>1. CASE u = t  BY <2>1, <1>2
    <2>2. CASE u # t
      <3>1. pc'[u] = pc[u] /\ pos[u] \in Nat  BY <1>1, <1>2, <2>2
      <3>2. /\ pc[u] \in {"e_loadSeq", "e_cas"} => pos[u] <= e
            /\ pc[u] \in {"d_loadSeq", "d_cas"} => pos[u] <= d
            /\ pc[u] = "e_cas" /\ pos[u] = e => seq[Cell(pos[u])] = pos[u]
            /\ pc[u] = "d_cas" /\ pos[u] = d => seq[Cell(pos[u])] = pos[u] + 1
        BY DEF RingInv, LoadedPositions
      <3>3. ASSUME pc[u] = "e_cas", pos[u] = e PROVE seq'[Cell(pos[u])] = pos[u]
        <4>1. CASE Cell(e) = Cell(q)
          <5>1. e = q + 1  BY <1>1, <3>2, <3>3, <4>1
          <5>2. e = q  BY <1>1, <4>1, <5>1, <1>4
          <5>3. QED  BY <1>1, <5>1, <5>2
        <4>2. CASE Cell(e) # Cell(q)  BY <1>1, <1>3, <3>1, <3>2, <3>3, <4>2
        <4>3. QED  BY <4>1, <4>2
      <3>4. ASSUME pc[u] = "d_cas", pos[u] = d PROVE seq'[Cell(pos[u])] = pos[u] + 1
        <4>1. Cell(d) # Cell(q)  BY <1>1, <3>2, <3>4
        <4>2. QED  BY <1>3, <3>1, <3>2, <3>4, <4>1
      <3>5. QED  BY <3>1, <3>2, <3>3, <3>4
    <2>3. QED  BY <2>1, <2>2
  <1>10. ClaimedPositions'
    <2> SUFFICES ASSUME NEW u \in Threads
                 PROVE  /\ pc'[u] \in EnqClaimed => /\ d <= pos[u] /\ pos[u] < e
                                                    /\ seq'[Cell(pos[u])] = pos[u]
                        /\ pc'[u] \in DeqClaimed => /\ e <= pos[u] + Capacity /\ pos[u] < d
                                                    /\ seq'[Cell(pos[u])] = pos[u] + 1
      BY <1>2 DEF ClaimedPositions, Cell
    <2>1. CASE u = t  BY <2>1, <1>2 DEF EnqClaimed, DeqClaimed
    <2>2. CASE u # t
      <3>1. pc'[u] = pc[u] /\ pos[u] \in Nat  BY <1>1, <1>2, <2>2
      <3>2. /\ pc[u] \in EnqClaimed => /\ d <= pos[u] /\ pos[u] < e
                                       /\ seq[Cell(pos[u])] = pos[u]
            /\ pc[u] \in DeqClaimed => /\ e <= pos[u] + Capacity /\ pos[u] < d
                                       /\ seq[Cell(pos[u])] = pos[u] + 1
        BY DEF RingInv, ClaimedPositions
      <3>3. pc[u] \in DeqClaimed => pos[u] # q
        BY <1>1, <2>2 DEF RingInv, DistinctClaims, DeqClaimed, q
      <3>4. ASSUME pc[u] \in EnqClaimed PROVE Cell(pos[u]) # Cell(q)
        <4>1. pos[u] < q + Capacity /\ q < pos[u] + Capacity /\ pos[u] # q
          BY <1>1, <3>1, <3>2, <3>4
        <4>2. QED  BY <1>4, <3>1, <4>1
      <3>5. ASSUME pc[u] \in DeqClaimed PROVE Cell(pos[u]) # Cell(q)
        <4>1. pos[u] < q + Capacity /\ q < pos[u] + Capacity
          BY <1>1, <3>1, <3>2, <3>5
        <4>2. QED  BY <1>4, <3>1, <3>3, <3>5, <4>1
      <3>6. QED  BY <1>3, <3>1, <3>2, <3>4, <3>5
    <2>3. QED  BY <2>1, <2>2
  <1>11. DistinctClaims'
    BY <1>1, <1>2 DEF RingInv, DistinctClaims, EnqClaimed, DeqClaimed
  <1>12. QED  BY <1>6, <1>7, <1>8, <1>9, <1>10, <1>11 DEF RingInv

\* Every step of Enqueue and Dequeue keeps the bookkeeping.
LEMMA NextRingInv == TypeOK /\ RingInv /\ [Next]_vars => RingInv'
  <1> SUFFICES ASSUME TypeOK, RingInv, [Next]_vars PROVE RingInv'  OBVIOUS
  <1> USE DEF EnqClaimed, DeqClaimed, Goto
  <1>a. pc \in [Threads -> Pcs] /\ pos \in [Threads -> Nat]  BY DEF TypeOK
  <1>b. enqueuePos \in Nat /\ dequeuePos \in Nat /\ seq \in [Cells -> Nat]  BY DEF TypeOK
  <1>1. ASSUME NEW t \in Producers, CallEnqueue(t) PROVE RingInv'
    <2>1. t \in Threads  BY DEF Threads
    <2>2. QED  BY <1>a, <1>1, <2>1, LocalStep DEF CallEnqueue, ring
  <1>2. ASSUME NEW t \in Consumers, CallDequeue(t) PROVE RingInv'
    <2>1. t \in Threads  BY DEF Threads
    <2>2. QED  BY <1>a, <1>2, <2>1, LocalStep DEF CallDequeue, ring
  <1>3. ASSUME NEW t \in Threads, EnqueueStep(t) PROVE RingInv'
    <2>1. CASE EnqLoadPos(t)  BY <1>a, <1>b, <2>1, LocalStep DEF EnqLoadPos, ring
    <2>2. CASE EnqLoadSeq(t)
      <3>1. CASE Retry(t, "e_loadSeq", "e_loadPos")
        BY <1>a, <3>1, LocalStep DEF Retry, ring
      <3>2. CASE Goto(t, "e_loadSeq", "e_full") /\ UNCHANGED <<ring, pos>>
        BY <1>a, <3>2, LocalStep DEF ring
      <3>3. CASE /\ seq[Cell(pos[t])] - pos[t] = 0
                 /\ Goto(t, "e_loadSeq", "e_cas") /\ UNCHANGED <<ring, pos>>
        <4>1. pos[t] \in Nat /\ seq[Cell(pos[t])] \in Nat  BY <1>a, <1>b, CellType
        <4>2. seq[Cell(pos[t])] = pos[t]  BY <3>3, <4>1
        <4>3. pos[t] <= enqueuePos  BY <3>3 DEF RingInv, LoadedPositions
        <4>4. UNCHANGED <<enqueuePos, dequeuePos, seq, pos>>  BY <3>3 DEF ring
        <4>5. pc' = [pc EXCEPT ![t] = "e_cas"]  BY <3>3
        <4>6. QED  BY <1>a, <4>2, <4>3, <4>4, <4>5, LocalStep
      <3>4. QED  BY <2>2, <3>1, <3>2, <3>3 DEF EnqLoadSeq
    <2>3. CASE EnqCasWins(t)  BY <2>3, EnqCasStep
    <2>4. CASE EnqCasFails(t)  BY <1>a, <2>4, LocalStep DEF EnqCasFails, Retry, ring
    <2>5. CASE EnqWrite(t)  BY <1>a, <2>5, LocalStep DEF EnqWrite
    <2>6. CASE EnqPublish(t)  BY <2>6, PublishStep
    <2>7. CASE EnqCount(t)
      <3>1. Return(t, "e_len") /\ UNCHANGED <<enqueuePos, dequeuePos, seq>>
        BY <2>7 DEF EnqCount, Return
      <3>2. QED  BY <1>a, <3>1, LocalStep DEF Return
    <2>8. CASE EnqReturnsFalse(t)  BY <1>a, <2>8, LocalStep DEF EnqReturnsFalse, Return
    <2>9. QED  BY <1>3, <2>1, <2>2, <2>3, <2>4, <2>5, <2>6, <2>7, <2>8 DEF EnqueueStep
  <1>4. ASSUME NEW t \in Threads, DequeueStep(t) PROVE RingInv'
    <2>1. CASE DeqLoadPos(t)  BY <1>a, <1>b, <2>1, LocalStep DEF DeqLoadPos, ring
    <2>2. CASE DeqLoadSeq(t)
      <3>1. CASE Retry(t, "d_loadSeq", "d_loadPos")
        BY <1>a, <3>1, LocalStep DEF Retry, ring
      <3>2. CASE Goto(t, "d_loadSeq", "d_empty") /\ UNCHANGED <<ring, pos>>
        BY <1>a, <3>2, LocalStep DEF ring
      <3>3. CASE /\ seq[Cell(pos[t])] - (pos[t] + 1) = 0
                 /\ Goto(t, "d_loadSeq", "d_cas") /\ UNCHANGED <<ring, pos>>
        <4>1. pos[t] \in Nat /\ seq[Cell(pos[t])] \in Nat  BY <1>a, <1>b, CellType
        <4>2. seq[Cell(pos[t])] = pos[t] + 1  BY <3>3, <4>1
        <4>3. pos[t] <= dequeuePos  BY <3>3 DEF RingInv, LoadedPositions
        <4>4. UNCHANGED <<enqueuePos, dequeuePos, seq, pos>>  BY <3>3 DEF ring
        <4>5. pc' = [pc EXCEPT ![t] = "d_cas"]  BY <3>3
        <4>6. QED  BY <1>a, <4>2, <4>3, <4>4, <4>5, LocalStep
      <3>4. QED  BY <2>2, <3>1, <3>2, <3>3 DEF DeqLoadSeq
    <2>3. CASE DeqCasWins(t)  BY <2>3, DeqCasStep
    <2>4. CASE DeqCasFails(t)  BY <1>a, <2>4, LocalStep DEF DeqCasFails, Retry, ring
    <2>5. CASE DeqRead(t)  BY <1>a, <2>5, LocalStep DEF DeqRead, ring
    <2>6. CASE DeqZero(t)  BY <1>a, <2>6, LocalStep DEF DeqZero
    <2>7. CASE DeqRelease(t)  BY <2>7, ReleaseStep
    <2>8. CASE DeqCount(t)
      <3>1. Return(t, "d_len") /\ UNCHANGED <<enqueuePos, dequeuePos, seq>>
        BY <2>8 DEF DeqCount, Return
      <3>2. QED  BY <1>a, <3>1, LocalStep DEF Return
    <2>9. CASE DeqReturnsFalse(t)  BY <1>a, <2>9, LocalStep DEF DeqReturnsFalse, Return
    <2>10. QED  BY <1>4, <2>1, <2>2, <2>3, <2>4, <2>5, <2>6, <2>7, <2>8, <2>9 DEF DequeueStep
  <1>5. CASE UNCHANGED vars
    BY <1>5 DEF vars, RingInv, Positions, StoredCells, FreeCells, LoadedPositions,
                ClaimedPositions, DistinctClaims, Cell
  <1>6. QED  BY <1>1, <1>2, <1>3, <1>4, <1>5 DEF Next, AllReturned

\* Two owners of one cell would hold the same position, or a position of the
\* queue's content and one that has already left it.
LEMMA RingInvExclusive == TypeOK /\ RingInv => ExclusiveCell
  <1> SUFFICES ASSUME TypeOK, RingInv, NEW t \in Owners, NEW u \in Owners, t # u,
                      Cell(pos[t]) = Cell(pos[u]), pos[t] <= pos[u]
               PROVE  FALSE
    <2>1. \A t \in Owners : TypeOK => pos[t] \in Nat  BY DEF Owners, TypeOK
    <2>2. QED  BY <2>1 DEF ExclusiveCell
  <1> USE CapacityAssumption DEF TypeOK
  <1>1. /\ t \in Threads /\ u \in Threads /\ pos[t] \in Nat /\ pos[u] \in Nat
        /\ enqueuePos \in Nat /\ dequeuePos \in Nat
    BY DEF Owners
  <1>2. ASSUME NEW w \in Owners
        PROVE  /\ pc[w] \in EnqClaimed => dequeuePos <= pos[w]
               /\ pc[w] \in DeqClaimed => pos[w] < dequeuePos
               /\ enqueuePos <= pos[w] + Capacity /\ pos[w] < enqueuePos
    <2>1. w \in Threads /\ pos[w] \in Nat  BY DEF Owners
    <2>2. Positions /\ ClaimedPositions  BY DEF RingInv
    <2>3. CASE pc[w] \in EnqClaimed
      BY <1>1, <2>1, <2>2, <2>3 DEF Positions, ClaimedPositions, EnqClaimed, DeqClaimed
    <2>4. CASE pc[w] \in DeqClaimed
      BY <1>1, <2>1, <2>2, <2>4 DEF Positions, ClaimedPositions, EnqClaimed, DeqClaimed
    <2>5. QED  BY <2>3, <2>4 DEF Owners
  <1>3. pos[t] = pos[u]
    <2>1. pos[u] < pos[t] + Capacity  BY <1>1, <1>2
    <2>2. QED  BY <1>1, <2>1, CellInjective
  <1>4. CASE pc[t] \in EnqClaimed /\ pc[u] \in EnqClaimed
    BY <1>1, <1>3, <1>4 DEF RingInv, DistinctClaims
  <1>5. CASE pc[t] \in DeqClaimed /\ pc[u] \in DeqClaimed
    BY <1>1, <1>3, <1>5 DEF RingInv, DistinctClaims
  <1>6. CASE pc[t] \in EnqClaimed /\ pc[u] \in DeqClaimed  BY <1>1, <1>2, <1>3, <1>6
  <1>7. CASE pc[t] \in DeqClaimed /\ pc[u] \in EnqClaimed  BY <1>1, <1>2, <1>3, <1>7
  <1>8. QED  BY <1>4, <1>5, <1>6, <1>7 DEF Owners

(***************************************************************************)
(* Enqueue and Dequeue never race on a cell's value: between its winning   *)
(* compare-and-swap and its store of the sequence number a goroutine is    *)
(* alone in its cell, for any number of producers and consumers.           *)
(***************************************************************************)
THEOREM NoDataRace == Spec => []ExclusiveCell
  <1>1. TypeInv => TypeOK  BY DEF TypeInv
  <1>2. QED
    BY <1>1, InitTypeInv, NextTypeInv, InitRingInv, NextRingInv, RingInvExclusive, PTL DEF Spec

-----------------------------------------------------------------------------
(* What the ring does with its callers' values. *)

IInv == TypeInv /\ RingInv /\ DataInv

\* A new ring holds nothing.
LEMMA InitDataInv == Init => DataInv
  <1> SUFFICES ASSUME Init PROVE DataInv  OBVIOUS
  <1>1. Len(hist) = 0 /\ enqueuePos = 0 /\ dequeuePos = 0  BY DEF Init
  <1>2. ASSUME NEW t \in Threads PROVE pc[t] = "idle"  BY DEF Init
  <1>3. ReadsWhatWasPut  BY <1>2 DEF ReadsWhatWasPut
  <1>4. FreeCellsZeroed
    <2>1. ASSUME NEW p \in 0..(Capacity - 1) PROVE val[Cell(p)] = Zero
      BY CellType, CapacityAssumption DEF Init
    <2>2. enqueuePos..(dequeuePos + Capacity - 1) = 0..(Capacity - 1)
      BY <1>1, CapacityAssumption
    <2>3. QED  BY <2>1, <2>2 DEF FreeCellsZeroed
  <1>5. QED  BY <1>1, <1>2, <1>3, <1>4 DEF DataInv, EnqClaimed

\* What DataInv says of one goroutine.
Holds(t) == /\ pc[t] \in EnqClaimed => hist[pos[t] + 1] = arg[t]
            /\ pc[t] = "e_write" => val[Cell(pos[t])] = Zero
            /\ pc[t] = "e_pub"   => val[Cell(pos[t])] = arg[t]
            /\ pc[t] = "d_read"  => val[Cell(pos[t])] = hist[pos[t] + 1]
            /\ pc[t] = "d_pub"   => val[Cell(pos[t])] = Zero
            /\ pc[t] \in {"d_zero", "d_pub"} => ret[t] = hist[pos[t] + 1]

\* What it says of the position p between the two counters, and beyond.
Published(p) == seq[Cell(p)] = p + 1 => val[Cell(p)] = hist[p + 1]
Free(p)      == seq[Cell(p)] = p => val[Cell(p)] = Zero

DataParts == /\ Len(hist) = enqueuePos
             /\ \A t \in Threads : Holds(t)
             /\ \A p \in dequeuePos..(enqueuePos - 1) : Published(p)
             /\ \A p \in enqueuePos..(dequeuePos + Capacity - 1) : Free(p)

\* DataInv by goroutine and by position, before and after a step.
LEMMA DataInvParts == (DataInv <=> DataParts) /\ (DataInv <=> DataParts)'
  BY DEF DataInv, DataParts, Holds, Published, Free, ReadsWhatWasPut, FreeCellsZeroed

\* A step of goroutine t that changes neither the counters, the cells nor the history.
LEMMA LocalData ==
    ASSUME DataInv, NEW t \in Threads,
           UNCHANGED <<enqueuePos, dequeuePos, seq, val, hist>>,
           \A u \in Threads \ {t} : /\ pc'[u] = pc[u] /\ pos'[u] = pos[u]
                                    /\ arg'[u] = arg[u] /\ ret'[u] = ret[u],
           pc'[t] \notin EnqClaimed \cup DeqClaimed
    PROVE  DataInv'
  <1>1. ASSUME NEW u \in Threads PROVE Holds(u)'
    <2>1. CASE u = t  BY <2>1 DEF Holds, EnqClaimed, DeqClaimed
    <2>2. CASE u # t  BY <2>2, DataInvParts DEF DataParts, Holds, Cell
    <2>3. QED  BY <2>1, <2>2
  <1>2. \A p \in dequeuePos..(enqueuePos - 1) : Published(p)'
    BY DataInvParts DEF DataParts, Published, Cell
  <1>3. \A p \in enqueuePos..(dequeuePos + Capacity - 1) : Free(p)'
    BY DataInvParts DEF DataParts, Free, Cell
  <1>4. (Len(hist) = enqueuePos)'  BY DataInvParts DEF DataParts
  <1>5. QED  BY <1>1, <1>2, <1>3, <1>4, DataInvParts DEF DataParts

\* Two positions of one lap have different cells.
LEMMA CellsApart ==
    ASSUME NEW p \in Nat, NEW q \in Nat, p # q, p < q + Capacity, q < p + Capacity
    PROVE  Cell(p) # Cell(q)
  <1>1. CASE p <= q  BY <1>1, CellInjective
  <1>2. CASE q <= p  BY <1>2, CellInjective
  <1>3. QED  BY <1>1, <1>2

\* Two goroutines that own cells own different ones.
LEMMA OwnersApart ==
    ASSUME TypeOK, RingInv, NEW t \in Threads, NEW u \in Threads, t # u,
           pc[t] \in EnqClaimed \cup DeqClaimed, pc[u] \in EnqClaimed \cup DeqClaimed
    PROVE  Cell(pos[t]) # Cell(pos[u])
  BY RingInvExclusive DEF ExclusiveCell, Owners

\* Where the position of a goroutine lies that owns a cell.
LEMMA ClaimRange ==
    ASSUME TypeOK, RingInv, NEW t \in Threads
    PROVE  /\ enqueuePos \in Nat /\ dequeuePos \in Nat /\ pos[t] \in Nat
           /\ dequeuePos <= enqueuePos /\ enqueuePos <= dequeuePos + Capacity
           /\ pc[t] \in EnqClaimed => /\ dequeuePos <= pos[t] /\ pos[t] < enqueuePos
                                      /\ seq[Cell(pos[t])] = pos[t]
           /\ pc[t] \in DeqClaimed => /\ enqueuePos <= pos[t] + Capacity /\ pos[t] < dequeuePos
                                      /\ seq[Cell(pos[t])] = pos[t] + 1
  BY DEF TypeOK, RingInv, Positions, ClaimedPositions

\* A producer wins a position: its value joins the history, its cell is free.
LEMMA EnqCasData ==
    ASSUME TypeOK, RingInv, DataInv, NEW t \in Threads, EnqCasWins(t) PROVE DataInv'
  <1> USE CapacityAssumption
  <1> DEFINE e == enqueuePos
             d == dequeuePos
  <1>1. /\ e \in Nat /\ d \in Nat /\ pos[t] = e /\ d <= e
        /\ seq[Cell(e)] = e /\ pc[t] = "e_cas" /\ pos \in [Threads -> Nat]
        /\ pc \in [Threads -> Pcs] /\ hist \in Seq(Values) /\ arg \in [Threads -> Values \cup {Zero}]
    BY DEF EnqCasWins, Goto, RingInv, Positions, LoadedPositions, TypeOK
  <1>2. /\ enqueuePos' = e + 1 /\ dequeuePos' = d /\ seq' = seq /\ pos' = pos /\ val' = val
        /\ pc' = [pc EXCEPT ![t] = "e_write"] /\ hist' = Append(hist, arg[t])
        /\ arg' = arg /\ ret' = ret
    BY <1>1 DEF EnqCasWins, Goto
  <1>3. RingInv'  BY EnqCasStep
  <1>4. e < d + Capacity  BY <1>1, <1>2, <1>3 DEF RingInv, Positions
  <1>5. Len(hist) = e /\ \A u \in Threads : Holds(u)  BY DataInvParts DEF DataParts
  <1>6. /\ hist' \in Seq(Values \cup {Zero}) /\ Len(hist') = e + 1 /\ hist'[e + 1] = arg[t]
        /\ \A i \in 1..e : hist'[i] = hist[i]
    BY <1>1, <1>2, <1>5
  <1>7. ASSUME NEW u \in Threads PROVE Holds(u)'
    <2>1. CASE u = t
      <3>0. e \in e..(d + Capacity - 1)  BY <1>1, <1>4
      <3>1. val[Cell(e)] = Zero  BY <1>1, <3>0, DataInvParts DEF DataParts, Free
      <3>2. QED  BY <1>1, <1>2, <1>6, <2>1, <3>1 DEF Holds, Cell
    <2>2. CASE u # t
      <3>1. pc'[u] = pc[u]  BY <1>1, <1>2, <2>2
      <3>2. pc[u] \in EnqClaimed \cup DeqClaimed => pos[u] + 1 \in 1..e
        BY <1>1, ClaimRange
      <3>3. pc[u] \in EnqClaimed \cup DeqClaimed => hist'[pos[u] + 1] = hist[pos[u] + 1]
        BY <1>6, <3>2
      <3>4. Holds(u)  BY <1>5
      <3>5. QED  BY <1>2, <3>1, <3>3, <3>4 DEF Holds, EnqClaimed, DeqClaimed, Cell
    <2>3. QED  BY <2>1, <2>2
  <1>8. ASSUME NEW p \in d..e PROVE Published(p)'
    <2>1. CASE p = e  BY <1>1, <1>2, <2>1 DEF Published, Cell
    <2>2. CASE p # e
      <3>1. p \in d..(e - 1) /\ p + 1 \in 1..e  BY <1>1, <2>2
      <3>2. Published(p)  BY <3>1, DataInvParts DEF DataParts
      <3>3. QED  BY <1>2, <1>6, <3>1, <3>2 DEF Published, Cell
    <2>3. QED  BY <2>1, <2>2
  <1>9. ASSUME NEW p \in (e + 1)..(d + Capacity - 1) PROVE Free(p)'
    <2>1. p \in e..(d + Capacity - 1)  BY <1>1
    <2>2. Free(p)  BY <2>1, DataInvParts DEF DataParts
    <2>3. QED  BY <1>2, <2>2 DEF Free, Cell
  <1>10. dequeuePos'..(enqueuePos' - 1) = d..e  BY <1>1, <1>2
  <1>11. enqueuePos'..(dequeuePos' + Capacity - 1) = (e + 1)..(d + Capacity - 1)  BY <1>2
  <1>12. DataParts'
    BY <1>2, <1>6, <1>7, <1>8, <1>9, <1>10, <1>11 DEF DataParts
  <1>13. QED  BY <1>12, DataInvParts

\* A consumer wins a position: its cell holds the value of that position.
LEMMA DeqCasData ==
    ASSUME TypeOK, RingInv, DataInv, NEW t \in Threads, DeqCasWins(t) PROVE DataInv'
  <1> USE CapacityAssumption
  <1> DEFINE e == enqueuePos
             d == dequeuePos
  <1>1. /\ e \in Nat /\ d \in Nat /\ pos[t] = d /\ d <= e
        /\ seq[Cell(d)] = d + 1 /\ pc[t] = "d_cas" /\ pos \in [Threads -> Nat]
        /\ pc \in [Threads -> Pcs]
    BY DEF DeqCasWins, Goto, RingInv, Positions, LoadedPositions, TypeOK
  <1>2. /\ enqueuePos' = e /\ dequeuePos' = d + 1 /\ seq' = seq /\ pos' = pos /\ val' = val
        /\ pc' = [pc EXCEPT ![t] = "d_read"] /\ hist' = hist /\ arg' = arg /\ ret' = ret
    BY <1>1 DEF DeqCasWins, Goto
  <1>3. RingInv'  BY DeqCasStep
  <1>4. d < e  BY <1>1, <1>2, <1>3 DEF RingInv, Positions
  <1>5. ASSUME NEW u \in Threads PROVE Holds(u)'
    <2>1. CASE u = t
      <3>1. val[Cell(d)] = hist[d + 1]  BY <1>1, <1>4, DataInvParts DEF DataParts, Published
      <3>2. QED  BY <1>1, <1>2, <2>1, <3>1 DEF Holds, EnqClaimed, Cell
    <2>2. CASE u # t
      <3>1. Holds(u)  BY DataInvParts DEF DataParts
      <3>2. QED  BY <1>1, <1>2, <2>2, <3>1 DEF Holds, Cell
    <2>3. QED  BY <2>1, <2>2
  <1>6. ASSUME NEW p \in (d + 1)..(e - 1) PROVE Published(p)'
    <2>1. Published(p)  BY <1>1, DataInvParts DEF DataParts
    <2>2. QED  BY <1>2, <2>1 DEF Published, Cell
  <1>7. ASSUME NEW p \in e..(d + Capacity) PROVE Free(p)'
    <2>1. CASE p = d + Capacity
      <3>1. Cell(p) = Cell(d)  BY <1>1, <2>1, CellLap
      <3>2. seq[Cell(p)] # p  BY <1>1, <2>1, <3>1
      <3>3. QED  BY <1>2, <3>2 DEF Free, Cell
    <2>2. CASE p # d + Capacity
      <3>1. p \in e..(d + Capacity - 1)  BY <1>1, <2>2
      <3>2. Free(p)  BY <3>1, DataInvParts DEF DataParts
      <3>3. QED  BY <1>2, <3>2 DEF Free, Cell
    <2>3. QED  BY <2>1, <2>2
  <1>8. dequeuePos'..(enqueuePos' - 1) = (d + 1)..(e - 1)  BY <1>2
  <1>9. enqueuePos'..(dequeuePos' + Capacity - 1) = e..(d + Capacity)  BY <1>1, <1>2
  <1>10. (Len(hist) = enqueuePos)'  BY <1>2, DataInvParts DEF DataParts
  <1>11. DataParts'
    BY <1>5, <1>6, <1>7, <1>8, <1>9, <1>10 DEF DataParts
  <1>12. QED  BY <1>11, DataInvParts

\* The owner t of a cell writes v to it, a consumer only the zero value.
LEMMA WriteData ==
    ASSUME TypeOK, RingInv, DataInv, NEW t \in Threads, NEW v,
           pc[t] \in EnqClaimed \cup DeqClaimed,
           UNCHANGED <<enqueuePos, dequeuePos, seq, hist, pos>>,
           val' = [val EXCEPT ![Cell(pos[t])] = v],
           \A u \in Threads \ {t} : pc'[u] = pc[u] /\ arg'[u] = arg[u] /\ ret'[u] = ret[u],
           Holds(t)',
           pc[t] \in EnqClaimed \/ v = Zero
    PROVE  DataInv'
  <1> USE CapacityAssumption
  <1> DEFINE e == enqueuePos
             d == dequeuePos
             q == pos[t]
  <1>1. /\ e \in Nat /\ d \in Nat /\ q \in Nat /\ d <= e /\ e <= d + Capacity
        /\ pc[t] \in EnqClaimed => d <= q /\ q < e /\ seq[Cell(q)] = q
        /\ pc[t] \in DeqClaimed => e <= q + Capacity /\ q < d
    BY ClaimRange
  <1>2. val \in [Cells -> Values \cup {Zero}] /\ pos \in [Threads -> Nat]  BY DEF TypeOK
  <1>3. ASSUME NEW p \in Nat
        PROVE  val'[Cell(p)] = IF Cell(p) = Cell(q) THEN v ELSE val[Cell(p)]
    BY <1>2, CellType
  <1> HIDE DEF q
  <1>4. ASSUME NEW u \in Threads PROVE Holds(u)'
    <2>1. CASE u = t  BY <2>1
    <2>2. CASE u # t
      <3>1. CASE pc[u] \in EnqClaimed \cup DeqClaimed
        <4>1. Cell(pos[u]) # Cell(q)  BY <2>2, <3>1, OwnersApart DEF q
        <4>2. val'[Cell(pos[u])] = val[Cell(pos[u])]  BY <1>2, <1>3, <4>1
        <4>3. Holds(u)  BY DataInvParts DEF DataParts
        <4>4. QED  BY <2>2, <4>2, <4>3 DEF Holds, Cell
      <3>2. CASE pc[u] \notin EnqClaimed \cup DeqClaimed
        BY <2>2, <3>2 DEF Holds, EnqClaimed, DeqClaimed
      <3>3. QED  BY <3>1, <3>2
    <2>3. QED  BY <2>1, <2>2
  <1>5. ASSUME NEW p \in d..(e - 1) PROVE Published(p)'
    <2>1. Published(p) /\ p \in Nat  BY <1>1, DataInvParts DEF DataParts
    <2>2. CASE p = q
      <3>1. pc[t] \in EnqClaimed  BY <1>1, <2>2
      <3>2. QED  BY <1>1, <2>1, <2>2, <3>1 DEF Published, Cell
    <2>3. CASE p # q
      <3>1. p < q + Capacity /\ q < p + Capacity  BY <1>1, <2>1
      <3>2. Cell(p) # Cell(q)  BY <1>1, <2>1, <2>3, <3>1, CellsApart
      <3>3. val'[Cell(p)] = val[Cell(p)]  BY <1>3, <2>1, <3>2
      <3>4. QED  BY <2>1, <3>3 DEF Published, Cell
    <2>4. QED  BY <2>2, <2>3
  <1>6. ASSUME NEW p \in e..(d + Capacity - 1) PROVE Free(p)'
    <2>1. Free(p) /\ p \in Nat  BY <1>1, DataInvParts DEF DataParts
    <2>2. CASE v = Zero  BY <1>3, <2>1, <2>2 DEF Free, Cell
    <2>3. CASE pc[t] \in EnqClaimed
      <3>1. p # q /\ p < q + Capacity /\ q < p + Capacity  BY <1>1, <2>1, <2>3
      <3>2. Cell(p) # Cell(q)  BY <1>1, <2>1, <3>1, CellsApart
      <3>3. QED  BY <1>3, <2>1, <3>2 DEF Free, Cell
    <2>4. QED  BY <2>2, <2>3
  <1>7. (Len(hist) = enqueuePos)'  BY DataInvParts DEF DataParts
  <1>8. DataParts'  BY <1>4, <1>5, <1>6, <1>7 DEF DataParts
  <1>9. QED  BY <1>8, DataInvParts

\* The owner t of a cell hands it on by storing the sequence number n: that of a
\* published position, or that of a free one a lap later.
LEMMA HandOnData ==
    ASSUME TypeOK, RingInv, DataInv, NEW t \in Threads, NEW n \in Nat,
           \/ pc[t] = "e_pub" /\ n = pos[t] + 1
           \/ pc[t] = "d_pub" /\ n = pos[t] + Capacity,
           UNCHANGED <<enqueuePos, dequeuePos, val, hist, pos, arg, ret>>,
           seq' = [seq EXCEPT ![Cell(pos[t])] = n],
           \A u \in Threads \ {t} : pc'[u] = pc[u],
           pc'[t] \notin EnqClaimed \cup DeqClaimed
    PROVE  DataInv'
  <1> USE CapacityAssumption
  <1> DEFINE e == enqueuePos
             d == dequeuePos
             q == pos[t]
  <1>1. /\ e \in Nat /\ d \in Nat /\ q \in Nat /\ d <= e /\ e <= d + Capacity
        /\ pc[t] = "e_pub" => d <= q /\ q < e
        /\ pc[t] = "d_pub" => e <= q + Capacity /\ q < d
    BY ClaimRange DEF EnqClaimed, DeqClaimed
  <1>2. seq \in [Cells -> Nat] /\ pos \in [Threads -> Nat]  BY DEF TypeOK
  <1>3. ASSUME NEW p \in Nat
        PROVE  seq'[Cell(p)] = IF Cell(p) = Cell(q) THEN n ELSE seq[Cell(p)]
    BY <1>2, CellType
  <1>4. Holds(t)  BY DataInvParts DEF DataParts
  <1>5. /\ pc[t] = "e_pub" => val[Cell(q)] = hist[q + 1]
        /\ pc[t] = "d_pub" => val[Cell(q)] = Zero
    BY <1>4 DEF Holds, EnqClaimed
  <1> HIDE DEF q
  <1>6. ASSUME NEW u \in Threads PROVE Holds(u)'
    <2>1. CASE u = t  BY <2>1 DEF Holds, EnqClaimed, DeqClaimed
    <2>2. CASE u # t  BY <2>2, DataInvParts DEF DataParts, Holds, Cell
    <2>3. QED  BY <2>1, <2>2
  <1>7. ASSUME NEW p \in d..(e - 1) PROVE Published(p)'
    <2>1. Published(p) /\ p \in Nat  BY <1>1, DataInvParts DEF DataParts
    <2>2. CASE p = q  BY <1>1, <1>5, <2>2 DEF Published, Cell, q
    <2>3. CASE p # q
      <3>1. p < q + Capacity /\ q < p + Capacity  BY <1>1, <2>1 DEF q
      <3>2. Cell(p) # Cell(q)  BY <1>1, <2>1, <2>3, <3>1, CellsApart
      <3>3. seq'[Cell(p)] = seq[Cell(p)]  BY <1>3, <2>1, <3>2
      <3>4. QED  BY <2>1, <3>3 DEF Published, Cell
    <2>4. QED  BY <2>2, <2>3
  <1>8. ASSUME NEW p \in e..(d + Capacity - 1) PROVE Free(p)'
    <2>1. Free(p) /\ p \in Nat  BY <1>1, DataInvParts DEF DataParts
    <2>2. CASE pc[t] = "d_pub"
      <3>1. CASE Cell(p) = Cell(q)
        <4>1. val[Cell(p)] = Zero  BY <1>5, <2>2, <3>1
        <4>2. QED  BY <4>1 DEF Free, Cell
      <3>2. CASE Cell(p) # Cell(q)  BY <1>3, <2>1, <3>2 DEF Free, Cell
      <3>3. QED  BY <3>1, <3>2
    <2>3. CASE pc[t] = "e_pub"
      <3>1. p # q /\ p < q + Capacity /\ q < p + Capacity  BY <1>1, <2>1, <2>3
      <3>2. Cell(p) # Cell(q)  BY <1>1, <2>1, <3>1, CellsApart
      <3>3. QED  BY <1>3, <2>1, <3>2 DEF Free, Cell
    <2>4. QED  BY <2>2, <2>3
  <1>9. (Len(hist) = enqueuePos)'  BY DataInvParts DEF DataParts
  <1>10. DataParts'  BY <1>6, <1>7, <1>8, <1>9 DEF DataParts
  <1>11. QED  BY <1>10, DataInvParts

\* A consumer reads its cell.
LEMMA ReadData ==
    ASSUME TypeOK, RingInv, DataInv, NEW t \in Threads, DeqRead(t) PROVE DataInv'
  <1>1. /\ pc[t] = "d_read" /\ pc' = [pc EXCEPT ![t] = "d_zero"] /\ pc \in [Threads -> Pcs]
        /\ ret' = [ret EXCEPT ![t] = val[Cell(pos[t])]] /\ ret \in [Threads -> Values \cup {Zero}]
        /\ UNCHANGED <<enqueuePos, dequeuePos, seq, val, hist, pos, arg>>
    BY DEF DeqRead, Goto, ring, TypeOK
  <1>2. ASSUME NEW u \in Threads PROVE Holds(u)'
    <2>1. Holds(u)  BY DataInvParts DEF DataParts
    <2>2. CASE u = t  BY <1>1, <2>1, <2>2 DEF Holds, EnqClaimed, Cell
    <2>3. CASE u # t  BY <1>1, <2>1, <2>3 DEF Holds, EnqClaimed, Cell
    <2>4. QED  BY <2>2, <2>3
  <1>3. \A p \in dequeuePos..(enqueuePos - 1) : Published(p)'
    BY <1>1, DataInvParts DEF DataParts, Published, Cell
  <1>4. \A p \in enqueuePos..(dequeuePos + Capacity - 1) : Free(p)'
    BY <1>1, DataInvParts DEF DataParts, Free, Cell
  <1>5. (Len(hist) = enqueuePos)'  BY <1>1, DataInvParts DEF DataParts
  <1>6. DataParts'  BY <1>1, <1>2, <1>3, <1>4, <1>5 DEF DataParts
  <1>7. QED  BY <1>6, DataInvParts

\* Every step of Enqueue and Dequeue keeps the values where they belong.
LEMMA NextDataInv == IInv /\ [Next]_vars => DataInv'
  <1> SUFFICES ASSUME TypeOK, RingInv, DataInv, [Next]_vars PROVE DataInv'
    BY DEF IInv, TypeInv
  <1> USE DEF Goto, ring
  <1>a. /\ pc \in [Threads -> Pcs] /\ pos \in [Threads -> Nat]
        /\ arg \in [Threads -> Values \cup {Zero}] /\ ret \in [Threads -> Values \cup {Zero}]
        /\ val \in [Cells -> Values \cup {Zero}]
    BY DEF TypeOK
  <1>1. ASSUME NEW t \in Producers, CallEnqueue(t) PROVE DataInv'
    <2>1. t \in Threads  BY DEF Threads
    <2>2. QED  BY <1>a, <1>1, <2>1, LocalData DEF CallEnqueue, EnqClaimed, DeqClaimed
  <1>2. ASSUME NEW t \in Consumers, CallDequeue(t) PROVE DataInv'
    <2>1. t \in Threads  BY DEF Threads
    <2>2. QED  BY <1>a, <1>2, <2>1, LocalData DEF CallDequeue, EnqClaimed, DeqClaimed
  <1>3. ASSUME NEW t \in Threads, NEW from, NEW to, Goto(t, from, to),
               to \notin EnqClaimed \cup DeqClaimed,
               UNCHANGED <<enqueuePos, dequeuePos, seq, val, hist>>,
               pos' = pos \/ \E x : pos' = [pos EXCEPT ![t] = x],
               arg' = arg \/ \E x : arg' = [arg EXCEPT ![t] = x],
               ret' = ret \/ \E x : ret' = [ret EXCEPT ![t] = x]
        PROVE  DataInv'
    BY <1>a, <1>3, LocalData
  <1>4. ASSUME NEW t \in Threads, EnqueueStep(t) PROVE DataInv'
    <2> USE DEF EnqClaimed, DeqClaimed
    <2>1. CASE EnqLoadPos(t)  BY <2>1, <1>3 DEF EnqLoadPos
    <2>2. CASE EnqLoadSeq(t)
      <3>1. CASE Retry(t, "e_loadSeq", "e_loadPos")  BY <3>1, <1>3 DEF Retry
      <3>2. CASE Goto(t, "e_loadSeq", "e_full") /\ UNCHANGED <<ring, pos, arg, ret>>  BY <3>2, <1>3
      <3>3. CASE Goto(t, "e_loadSeq", "e_cas") /\ UNCHANGED <<ring, pos, arg, ret>>  BY <3>3, <1>3
      <3>4. QED  BY <2>2, <3>1, <3>2, <3>3 DEF EnqLoadSeq
    <2>3. CASE EnqCasWins(t)  BY <2>3, EnqCasData
    <2>4. CASE EnqCasFails(t)  BY <2>4, <1>3 DEF EnqCasFails, Retry
    <2>5. CASE EnqWrite(t)
      <3>1. /\ pc[t] = "e_write" /\ pc' = [pc EXCEPT ![t] = "e_pub"]
            /\ val' = [val EXCEPT ![Cell(pos[t])] = arg[t]]
            /\ UNCHANGED <<enqueuePos, dequeuePos, seq, hist, pos, arg, ret>>
        BY <2>5 DEF EnqWrite
      <3>2. val'[Cell(pos[t])] = arg[t]  BY <1>a, <3>1, CellType
      <3>3. Holds(t)  BY DataInvParts DEF DataParts
      <3>4. Holds(t)'  BY <1>a, <3>1, <3>2, <3>3 DEF Holds, Cell
      <3>5. QED  BY <1>a, <3>1, <3>4, WriteData
    <2>6. CASE EnqPublish(t)
      <3>1. /\ pc[t] = "e_pub" /\ pc' = [pc EXCEPT ![t] = "e_len"]
            /\ seq' = [seq EXCEPT ![Cell(pos[t])] = pos[t] + 1]
            /\ UNCHANGED <<enqueuePos, dequeuePos, val, hist, pos, arg, ret>>
        BY <2>6 DEF EnqPublish
      <3>2. pos[t] + 1 \in Nat  BY <1>a
      <3>3. QED  BY <1>a, <3>1, <3>2, HandOnData
    <2>7. CASE EnqCount(t)  BY <2>7, <1>3 DEF EnqCount, Return
    <2>8. CASE EnqReturnsFalse(t)  BY <2>8, <1>3 DEF EnqReturnsFalse, Return
    <2>9. QED  BY <1>4, <2>1, <2>2, <2>3, <2>4, <2>5, <2>6, <2>7, <2>8 DEF EnqueueStep
  <1>5. ASSUME NEW t \in Threads, DequeueStep(t) PROVE DataInv'
    <2> USE DEF EnqClaimed, DeqClaimed
    <2>1. CASE DeqLoadPos(t)  BY <2>1, <1>3 DEF DeqLoadPos
    <2>2. CASE DeqLoadSeq(t)
      <3>1. CASE Retry(t, "d_loadSeq", "d_loadPos")  BY <3>1, <1>3 DEF Retry
      <3>2. CASE Goto(t, "d_loadSeq", "d_empty") /\ UNCHANGED <<ring, pos, arg, ret>>  BY <3>2, <1>3
      <3>3. CASE Goto(t, "d_loadSeq", "d_cas") /\ UNCHANGED <<ring, pos, arg, ret>>  BY <3>3, <1>3
      <3>4. QED  BY <2>2, <3>1, <3>2, <3>3 DEF DeqLoadSeq
    <2>3. CASE DeqCasWins(t)  BY <2>3, DeqCasData
    <2>4. CASE DeqCasFails(t)  BY <2>4, <1>3 DEF DeqCasFails, Retry
    <2>5. CASE DeqRead(t)  BY <2>5, ReadData
    <2>6. CASE DeqZero(t)
      <3>1. /\ pc[t] = "d_zero" /\ pc' = [pc EXCEPT ![t] = "d_pub"]
            /\ val' = [val EXCEPT ![Cell(pos[t])] = Zero]
            /\ UNCHANGED <<enqueuePos, dequeuePos, seq, hist, pos, arg, ret>>
        BY <2>6 DEF DeqZero
      <3>2. val'[Cell(pos[t])] = Zero  BY <1>a, <3>1, CellType
      <3>3. Holds(t)  BY DataInvParts DEF DataParts
      <3>4. Holds(t)'  BY <1>a, <3>1, <3>2, <3>3 DEF Holds, Cell
      <3>5. QED  BY <1>a, <3>1, <3>4, WriteData
    <2>7. CASE DeqRelease(t)
      <3>1. /\ pc[t] = "d_pub" /\ pc' = [pc EXCEPT ![t] = "d_len"]
            /\ seq' = [seq EXCEPT ![Cell(pos[t])] = pos[t] + Capacity]
            /\ UNCHANGED <<enqueuePos, dequeuePos, val, hist, pos, arg, ret>>
        BY <2>7 DEF DeqRelease
      <3>2. pos[t] + Capacity \in Nat  BY <1>a, CapacityAssumption
      <3>3. QED  BY <1>a, <3>1, <3>2, HandOnData
    <2>8. CASE DeqCount(t)  BY <2>8, <1>3 DEF DeqCount, Return
    <2>9. CASE DeqReturnsFalse(t)  BY <2>9, <1>3 DEF DeqReturnsFalse, Return
    <2>10. QED  BY <1>5, <2>1, <2>2, <2>3, <2>4, <2>5, <2>6, <2>7, <2>8, <2>9 DEF DequeueStep
  <1>6. CASE UNCHANGED vars
    BY <1>6 DEF vars, DataInv, ReadsWhatWasPut, FreeCellsZeroed, Cell
  <1>7. QED  BY <1>1, <1>2, <1>4, <1>5, <1>6 DEF Next, AllReturned

\* The invariant of all behaviours that the results below rest on.
LEMMA InvariantHolds == Spec => []IInv
  <1>1. Init => IInv  BY InitTypeInv, InitRingInv, InitDataInv DEF IInv
  <1>2. IInv /\ [Next]_vars => IInv'
    BY NextTypeInv, NextRingInv, NextDataInv DEF IInv, TypeInv
  <1>3. QED  BY <1>1, <1>2, PTL DEF Spec

(***************************************************************************)
(* The ring's bookkeeping, in every behaviour: the two positions, every    *)
(* cell's sequence number and every call in progress fit together.         *)
(***************************************************************************)
THEOREM Bookkeeping == Spec => []RingInv
  <1>1. IInv => RingInv  BY DEF IInv
  <1>2. QED  BY <1>1, InvariantHolds, PTL

(***************************************************************************)
(* Every value is where its position says: published values in their       *)
(* cells, claimed ones with their owners, and nothing in a free cell.      *)
(***************************************************************************)
THEOREM ValuesInPlace == Spec => []DataInv
  <1>1. IInv => DataInv  BY DEF IInv
  <1>2. QED  BY <1>1, InvariantHolds, PTL

(***************************************************************************)
(* First in, first out, exactly once: the consumer that wins position p    *)
(* reads the value of the producer that won position p, however often the  *)
(* cell is reused and however long either of them pauses.                  *)
(***************************************************************************)
THEOREM FirstInFirstOut == Spec => []ReadsWhatWasPut
  <1>1. DataInv => ReadsWhatWasPut  BY DEF DataInv
  <1>2. QED  BY <1>1, ValuesInPlace, PTL

-----------------------------------------------------------------------------
(* The length counter. *)

At(A) == {t \in Threads : pc[t] \in A}

EnqUncounted == At(EnqClaimed \cup {"e_len"})
DeqUncounted == At(DeqClaimed \cup {"d_len"})

\* How many goroutines are at the places A, when goroutine t moves.
LEMMA Moves ==
    ASSUME TypeOK, NEW A, NEW t \in Threads, NEW to, pc' = [pc EXCEPT ![t] = to]
    PROVE  /\ Cardinality(At(A)) \in Nat
           /\ (pc[t] \in A <=> to \in A) => At(A)' = At(A)
           /\ pc[t] \notin A /\ to \in A => Cardinality(At(A)') = Cardinality(At(A)) + 1
           /\ pc[t] \in A /\ to \notin A => Cardinality(At(A)') = Cardinality(At(A)) - 1
  <1>1. IsFiniteSet(Threads)  BY ThreadsAssumption, FS_Union DEF Threads
  <1>2. IsFiniteSet(At(A)) /\ Cardinality(At(A)) \in Nat
    BY <1>1, FS_Subset, FS_CardinalityType DEF At
  <1>3. \A u \in Threads : pc'[u] = IF u = t THEN to ELSE pc[u]  BY DEF TypeOK
  <1>4. ASSUME pc[t] \notin A, to \in A PROVE Cardinality(At(A)') = Cardinality(At(A)) + 1
    <2>1. At(A)' = At(A) \cup {t} /\ t \notin At(A)  BY <1>3, <1>4 DEF At
    <2>2. QED  BY <1>2, <2>1, FS_AddElement
  <1>5. ASSUME pc[t] \in A, to \notin A PROVE Cardinality(At(A)') = Cardinality(At(A)) - 1
    <2>1. At(A)' = At(A) \ {t} /\ t \in At(A)  BY <1>3, <1>5 DEF At
    <2>2. QED  BY <1>2, <2>1, FS_RemoveElement
  <1>6. (pc[t] \in A <=> to \in A) => At(A)' = At(A)  BY <1>3 DEF At
  <1>7. QED  BY <1>2, <1>4, <1>5, <1>6

\* LengthAccounted in terms of those goroutines, before and after a step.
LEMMA LengthParts ==
    LET Accounted == length + Cardinality(EnqUncounted) - Cardinality(DeqUncounted)
                         = enqueuePos - dequeuePos
    IN  (LengthAccounted <=> Accounted) /\ (LengthAccounted <=> Accounted)'
  BY DEF LengthAccounted, RingLen, Uncounted, EnqUncounted, DeqUncounted, At

\* The counter is adjusted once by every call that wins its CAS.
LEMMA NextLength == IInv /\ LengthAccounted /\ [Next]_vars => LengthAccounted'
  <1> SUFFICES ASSUME TypeOK, LengthAccounted, [Next]_vars PROVE LengthAccounted'
    BY DEF IInv, TypeInv
  <1> DEFINE nE == Cardinality(EnqUncounted)
             nD == Cardinality(DeqUncounted)
  <1>a. length \in Int /\ enqueuePos \in Nat /\ dequeuePos \in Nat  BY DEF TypeOK
  <1>b. length + nE - nD = enqueuePos - dequeuePos  BY LengthParts
  <1>1. ASSUME NEW t \in Threads, NEW from, NEW to, Goto(t, from, to),
               UNCHANGED <<enqueuePos, dequeuePos, length>>,
               from \in EnqClaimed \cup {"e_len"} <=> to \in EnqClaimed \cup {"e_len"},
               from \in DeqClaimed \cup {"d_len"} <=> to \in DeqClaimed \cup {"d_len"}
        PROVE  LengthAccounted'
    <2>1. EnqUncounted' = EnqUncounted /\ DeqUncounted' = DeqUncounted
      BY <1>1, Moves DEF EnqUncounted, DeqUncounted, Goto
    <2>2. QED  BY <1>1, <1>b, <2>1, LengthParts
  <1>2. ASSUME NEW t \in Threads, EnqCasWins(t) \/ EnqCount(t) PROVE LengthAccounted'
    <2> DEFINE A == EnqClaimed \cup {"e_len"}
    <2>1. PICK to : /\ pc' = [pc EXCEPT ![t] = to]
                    /\ to \notin DeqClaimed \cup {"d_len"} /\ pc[t] \notin DeqClaimed \cup {"d_len"}
                    /\ \/ /\ pc[t] \notin A /\ to \in A
                          /\ enqueuePos' = enqueuePos + 1 /\ length' = length
                       \/ /\ pc[t] \in A /\ to \notin A
                          /\ enqueuePos' = enqueuePos /\ length' = length + 1
      BY <1>2 DEF EnqCasWins, EnqCount, Return, Goto, EnqClaimed, DeqClaimed
    <2>2. nD' = nD  BY <2>1, Moves DEF DeqUncounted
    <2>3. nE \in Nat /\ nD \in Nat  BY <2>1, Moves DEF EnqUncounted, DeqUncounted
    <2>4. dequeuePos' = dequeuePos  BY <1>2 DEF EnqCasWins, EnqCount, Return
    <2>5. \/ nE' = nE + 1 /\ enqueuePos' = enqueuePos + 1 /\ length' = length
          \/ nE' = nE - 1 /\ enqueuePos' = enqueuePos /\ length' = length + 1
      BY <2>1, Moves DEF EnqUncounted
    <2> HIDE DEF nE, nD
    <2>6. (length + nE - nD = enqueuePos - dequeuePos)'
      BY <1>a, <1>b, <2>2, <2>3, <2>4, <2>5
    <2>7. QED  BY <2>6, LengthParts DEF nE, nD
  <1>3. ASSUME NEW t \in Threads, DeqCasWins(t) \/ DeqCount(t) PROVE LengthAccounted'
    <2> DEFINE A == DeqClaimed \cup {"d_len"}
    <2>1. PICK to : /\ pc' = [pc EXCEPT ![t] = to]
                    /\ to \notin EnqClaimed \cup {"e_len"} /\ pc[t] \notin EnqClaimed \cup {"e_len"}
                    /\ \/ /\ pc[t] \notin A /\ to \in A
                          /\ dequeuePos' = dequeuePos + 1 /\ length' = length
                       \/ /\ pc[t] \in A /\ to \notin A
                          /\ dequeuePos' = dequeuePos /\ length' = length - 1
      BY <1>3 DEF DeqCasWins, DeqCount, Return, Goto, EnqClaimed, DeqClaimed
    <2>2. nE' = nE  BY <2>1, Moves DEF EnqUncounted
    <2>3. nE \in Nat /\ nD \in Nat  BY <2>1, Moves DEF EnqUncounted, DeqUncounted
    <2>4. enqueuePos' = enqueuePos  BY <1>3 DEF DeqCasWins, DeqCount, Return
    <2>5. \/ nD' = nD + 1 /\ dequeuePos' = dequeuePos + 1 /\ length' = length
          \/ nD' = nD - 1 /\ dequeuePos' = dequeuePos /\ length' = length - 1
      BY <2>1, Moves DEF DeqUncounted
    <2> HIDE DEF nE, nD
    <2>6. (length + nE - nD = enqueuePos - dequeuePos)'
      BY <1>a, <1>b, <2>2, <2>3, <2>4, <2>5
    <2>7. QED  BY <2>6, LengthParts DEF nE, nD
  <1>4. ASSUME NEW t \in Threads, EnqueueStep(t) PROVE LengthAccounted'
    <2> USE DEF EnqClaimed, DeqClaimed, Retry, Return, ring
    <2>1. CASE EnqLoadPos(t)  BY <2>1, <1>1 DEF EnqLoadPos
    <2>2. CASE EnqLoadSeq(t)  BY <2>2, <1>1 DEF EnqLoadSeq
    <2>3. CASE EnqCasFails(t)  BY <2>3, <1>1 DEF EnqCasFails
    <2>4. CASE EnqWrite(t)  BY <2>4, <1>1 DEF EnqWrite
    <2>5. CASE EnqPublish(t)  BY <2>5, <1>1 DEF EnqPublish
    <2>6. CASE EnqReturnsFalse(t)  BY <2>6, <1>1 DEF EnqReturnsFalse
    <2>7. QED  BY <1>2, <1>4, <2>1, <2>2, <2>3, <2>4, <2>5, <2>6 DEF EnqueueStep
  <1>5. ASSUME NEW t \in Threads, DequeueStep(t) PROVE LengthAccounted'
    <2> USE DEF EnqClaimed, DeqClaimed, Retry, Return, ring
    <2>1. CASE DeqLoadPos(t)  BY <2>1, <1>1 DEF DeqLoadPos
    <2>2. CASE DeqLoadSeq(t)  BY <2>2, <1>1 DEF DeqLoadSeq
    <2>3. CASE DeqCasFails(t)  BY <2>3, <1>1 DEF DeqCasFails
    <2>4. CASE DeqRead(t)  BY <2>4, <1>1 DEF DeqRead
    <2>5. CASE DeqZero(t)  BY <2>5, <1>1 DEF DeqZero
    <2>6. CASE DeqRelease(t)  BY <2>6, <1>1 DEF DeqRelease
    <2>7. CASE DeqReturnsFalse(t)  BY <2>7, <1>1 DEF DeqReturnsFalse
    <2>8. QED
      BY <1>3, <1>5, <2>1, <2>2, <2>3, <2>4, <2>5, <2>6, <2>7 DEF DequeueStep
  <1>6. ASSUME NEW t \in Producers, CallEnqueue(t) PROVE LengthAccounted'
    BY <1>6, <1>1 DEF CallEnqueue, ring, Threads, EnqClaimed, DeqClaimed
  <1>7. ASSUME NEW t \in Consumers, CallDequeue(t) PROVE LengthAccounted'
    BY <1>7, <1>1 DEF CallDequeue, ring, Threads, EnqClaimed, DeqClaimed
  <1>8. CASE UNCHANGED vars
    BY <1>8 DEF vars, LengthAccounted, RingLen, Uncounted
  <1>9. QED  BY <1>4, <1>5, <1>6, <1>7, <1>8 DEF Next, AllReturned

(***************************************************************************)
(* Len() is off by exactly the calls between their CAS and length.Add, for *)
(* any number of goroutines: no interleaving makes it drift.               *)
(***************************************************************************)
THEOREM LengthIsAccounted == Spec => []LengthAccounted
  <1>1. Init => LengthAccounted
    <2>1. ASSUME Init PROVE EnqUncounted = {} /\ DeqUncounted = {}
      BY <2>1 DEF Init, EnqUncounted, DeqUncounted, At, EnqClaimed, DeqClaimed
    <2>2. Cardinality({}) = 0  BY FS_EmptySet
    <2>3. ASSUME Init PROVE length + Cardinality(EnqUncounted) - Cardinality(DeqUncounted)
                                = enqueuePos - dequeuePos
      <3>1. length = 0 /\ enqueuePos = 0 /\ dequeuePos = 0  BY <2>3 DEF Init
      <3>2. Cardinality(EnqUncounted) = 0 /\ Cardinality(DeqUncounted) = 0
        BY <2>1, <2>2, <2>3
      <3>3. QED  BY <3>1, <3>2
    <2>4. QED  BY <2>3, LengthParts
  <1>2. QED  BY <1>1, NextLength, InvariantHolds, PTL DEF Spec

-----------------------------------------------------------------------------
(* The refinement of BoundedQueue. *)

(* Why a call fails: the owners of the cells that are neither published nor *)
(* free.                                                                    *)

\* A position that consumers have passed is never seen unpublished again.
Passed == \A p \in 0..(dequeuePos - 1) : seq[Cell(p)] >= p + 1

\* A cell that waits to be published has a producer, one that waits to be
\* handed back has the consumer of a lap earlier.
HasProducer(p) == \E u \in Threads : pc[u] \in EnqClaimed /\ pos[u] = p
HasConsumer(p) == \E u \in Threads : pc[u] \in DeqClaimed /\ pos[u] = p

Unpublished == \A p \in dequeuePos..(enqueuePos - 1) : seq[Cell(p)] = p => HasProducer(p)
Unreturned  == \A p \in enqueuePos..(dequeuePos + Capacity - 1) :
                   seq[Cell(p)] = p - Capacity + 1 => HasConsumer(p - Capacity)

OwnerInv == Passed /\ Unpublished /\ Unreturned

\* In a new ring every cell is free.
LEMMA InitOwnerInv == Init => OwnerInv
  <1> SUFFICES ASSUME Init PROVE OwnerInv  OBVIOUS
  <1> USE CapacityAssumption
  <1>1. enqueuePos = 0 /\ dequeuePos = 0  BY DEF Init
  <1>2. Passed  BY <1>1 DEF Passed
  <1>3. Unpublished  BY <1>1 DEF Unpublished
  <1>4. ASSUME NEW p \in 0..(Capacity - 1) PROVE seq[Cell(p)] # p - Capacity + 1
    <2>1. Cell(p) = p  BY DEF Cell
    <2>2. seq[Cell(p)] = p  BY <2>1 DEF Init, Cells
    <2>3. QED  BY <2>2
  <1>5. Unreturned
    <2>1. enqueuePos..(dequeuePos + Capacity - 1) = 0..(Capacity - 1)  BY <1>1
    <2>2. QED  BY <1>4, <2>1 DEF Unreturned
  <1>6. QED  BY <1>2, <1>3, <1>5 DEF OwnerInv

\* The goroutines that own cells keep their positions: owners survive a step of
\* goroutine t that stays where it was.
LEMMA OwnersKept ==
    ASSUME NEW t \in Threads,
           \A u \in Threads \ {t} : pc'[u] = pc[u] /\ pos'[u] = pos[u],
           pc[t] \in EnqClaimed => pc'[t] \in EnqClaimed /\ pos'[t] = pos[t],
           pc[t] \in DeqClaimed => pc'[t] \in DeqClaimed /\ pos'[t] = pos[t],
           NEW p
    PROVE  /\ HasProducer(p) => HasProducer(p)'
           /\ HasConsumer(p) => HasConsumer(p)'
  BY DEF HasProducer, HasConsumer

\* A step that changes neither the counters nor the sequence numbers.
LEMMA LocalOwner ==
    ASSUME OwnerInv, NEW t \in Threads, UNCHANGED <<enqueuePos, dequeuePos, seq>>,
           \A u \in Threads \ {t} : pc'[u] = pc[u] /\ pos'[u] = pos[u],
           pc[t] \in EnqClaimed => pc'[t] \in EnqClaimed /\ pos'[t] = pos[t],
           pc[t] \in DeqClaimed => pc'[t] \in DeqClaimed /\ pos'[t] = pos[t]
    PROVE  OwnerInv'
  <1>1. ASSUME NEW p PROVE /\ HasProducer(p) => HasProducer(p)'
                           /\ HasConsumer(p) => HasConsumer(p)'
    BY OwnersKept
  <1>2. Passed'  BY DEF OwnerInv, Passed, Cell
  <1>3. Unpublished'
    <2>1. ASSUME NEW p \in dequeuePos..(enqueuePos - 1), seq[Cell(p)] = p PROVE HasProducer(p)'
      BY <1>1, <2>1 DEF OwnerInv, Unpublished
    <2>2. QED  BY <2>1 DEF Unpublished, Cell
  <1>4. Unreturned'
    <2>1. ASSUME NEW p \in enqueuePos..(dequeuePos + Capacity - 1),
                 seq[Cell(p)] = p - Capacity + 1
          PROVE  HasConsumer(p - Capacity)'
      BY <1>1, <2>1 DEF OwnerInv, Unreturned
    <2>2. QED  BY <2>1 DEF Unreturned, Cell, HasConsumer
  <1>5. QED  BY <1>2, <1>3, <1>4 DEF OwnerInv

\* A producer that wins a position owns its cell.
LEMMA EnqCasOwner ==
    ASSUME TypeOK, RingInv, OwnerInv, NEW t \in Threads, EnqCasWins(t) PROVE OwnerInv'
  <1> USE CapacityAssumption
  <1> DEFINE e == enqueuePos
             d == dequeuePos
  <1>1. /\ e \in Nat /\ d \in Nat /\ pos[t] = e /\ d <= e
        /\ pc[t] = "e_cas" /\ pc \in [Threads -> Pcs]
        /\ enqueuePos' = e + 1 /\ dequeuePos' = d /\ seq' = seq /\ pos' = pos
        /\ pc' = [pc EXCEPT ![t] = "e_write"]
    BY DEF EnqCasWins, Goto, RingInv, Positions, TypeOK
  <1>2. ASSUME NEW p PROVE /\ HasProducer(p) => HasProducer(p)'
                           /\ HasConsumer(p) => HasConsumer(p)'
    <2>1. \A u \in Threads \ {t} : pc'[u] = pc[u] /\ pos'[u] = pos[u]  BY <1>1
    <2>2. QED  BY <1>1, <2>1, OwnersKept DEF EnqClaimed, DeqClaimed
  <1>3. Passed'  BY <1>1 DEF OwnerInv, Passed, Cell
  <1>4. ASSUME NEW p \in d..e, seq[Cell(p)] = p PROVE HasProducer(p)'
    <2>1. CASE p = e  BY <1>1, <2>1 DEF HasProducer, EnqClaimed
    <2>2. CASE p # e
      <3>1. p \in d..(e - 1)  BY <1>1, <2>2
      <3>2. QED  BY <1>2, <1>4, <3>1 DEF OwnerInv, Unpublished
    <2>3. QED  BY <2>1, <2>2
  <1>5. Unpublished'
    <2>1. dequeuePos'..(enqueuePos' - 1) = d..e  BY <1>1
    <2>2. QED  BY <1>1, <1>4, <2>1 DEF Unpublished, Cell
  <1>6. ASSUME NEW p \in (e + 1)..(d + Capacity - 1), seq[Cell(p)] = p - Capacity + 1
        PROVE  HasConsumer(p - Capacity)'
    <2>1. p \in e..(d + Capacity - 1)  BY <1>1
    <2>2. QED  BY <1>2, <1>6, <2>1 DEF OwnerInv, Unreturned
  <1>7. Unreturned'
    <2>1. enqueuePos'..(dequeuePos' + Capacity - 1) = (e + 1)..(d + Capacity - 1)  BY <1>1
    <2>2. QED  BY <1>1, <1>6, <2>1 DEF Unreturned, Cell, HasConsumer
  <1>8. QED  BY <1>3, <1>5, <1>7 DEF OwnerInv

\* A consumer that wins a position owns its cell until it hands it back.
LEMMA DeqCasOwner ==
    ASSUME TypeOK, RingInv, OwnerInv, NEW t \in Threads, DeqCasWins(t) PROVE OwnerInv'
  <1> USE CapacityAssumption
  <1> DEFINE e == enqueuePos
             d == dequeuePos
  <1>1. /\ e \in Nat /\ d \in Nat /\ pos[t] = d /\ d <= e /\ seq[Cell(d)] = d + 1
        /\ pc[t] = "d_cas" /\ pc \in [Threads -> Pcs]
        /\ enqueuePos' = e /\ dequeuePos' = d + 1 /\ seq' = seq /\ pos' = pos
        /\ pc' = [pc EXCEPT ![t] = "d_read"]
    BY DEF DeqCasWins, Goto, RingInv, Positions, LoadedPositions, TypeOK
  <1>2. ASSUME NEW p PROVE /\ HasProducer(p) => HasProducer(p)'
                           /\ HasConsumer(p) => HasConsumer(p)'
    <2>1. \A u \in Threads \ {t} : pc'[u] = pc[u] /\ pos'[u] = pos[u]  BY <1>1
    <2>2. QED  BY <1>1, <2>1, OwnersKept DEF EnqClaimed, DeqClaimed
  <1>3. ASSUME NEW p \in 0..d PROVE seq[Cell(p)] >= p + 1
    <2>1. CASE p = d  BY <1>1, <2>1
    <2>2. CASE p # d
      <3>1. p \in 0..(d - 1)  BY <1>1, <2>2
      <3>2. QED  BY <3>1 DEF OwnerInv, Passed
    <2>3. QED  BY <2>1, <2>2
  <1>4. Passed'
    <2>1. 0..(dequeuePos' - 1) = 0..d  BY <1>1
    <2>2. QED  BY <1>1, <1>3, <2>1 DEF Passed, Cell
  <1>5. ASSUME NEW p \in (d + 1)..(e - 1), seq[Cell(p)] = p PROVE HasProducer(p)'
    <2>1. p \in d..(e - 1)  BY <1>1
    <2>2. QED  BY <1>2, <1>5, <2>1 DEF OwnerInv, Unpublished
  <1>6. Unpublished'
    <2>1. dequeuePos'..(enqueuePos' - 1) = (d + 1)..(e - 1)  BY <1>1
    <2>2. QED  BY <1>1, <1>5, <2>1 DEF Unpublished, Cell
  <1>7. ASSUME NEW p \in e..(d + Capacity), seq[Cell(p)] = p - Capacity + 1
        PROVE  HasConsumer(p - Capacity)'
    <2>1. CASE p = d + Capacity
      <3>1. p - Capacity = d  BY <1>1, <2>1
      <3>2. QED  BY <1>1, <3>1 DEF HasConsumer, DeqClaimed
    <2>2. CASE p # d + Capacity
      <3>1. p \in e..(d + Capacity - 1)  BY <1>1, <2>2
      <3>2. QED  BY <1>2, <1>7, <3>1 DEF OwnerInv, Unreturned
    <2>3. QED  BY <2>1, <2>2
  <1>8. Unreturned'
    <2>1. enqueuePos'..(dequeuePos' + Capacity - 1) = e..(d + Capacity)  BY <1>1
    <2>2. QED  BY <1>1, <1>7, <2>1 DEF Unreturned, Cell, HasConsumer
  <1>9. QED  BY <1>4, <1>6, <1>8 DEF OwnerInv

\* The owner t of a cell hands it on by storing the sequence number n.
LEMMA HandOnOwner ==
    ASSUME TypeOK, RingInv, OwnerInv, NEW t \in Threads, NEW n \in Nat,
           \/ pc[t] = "e_pub" /\ n = pos[t] + 1
           \/ pc[t] = "d_pub" /\ n = pos[t] + Capacity,
           UNCHANGED <<enqueuePos, dequeuePos, pos>>,
           seq' = [seq EXCEPT ![Cell(pos[t])] = n],
           \A u \in Threads \ {t} : pc'[u] = pc[u]
    PROVE  OwnerInv'
  <1> USE CapacityAssumption
  <1> DEFINE e == enqueuePos
             d == dequeuePos
             q == pos[t]
  <1>1. /\ e \in Nat /\ d \in Nat /\ q \in Nat /\ d <= e /\ e <= d + Capacity
        /\ pc[t] = "e_pub" => d <= q /\ q < e /\ seq[Cell(q)] = q
        /\ pc[t] = "d_pub" => e <= q + Capacity /\ q < d /\ seq[Cell(q)] = q + 1
    BY ClaimRange DEF EnqClaimed, DeqClaimed
  <1>2. seq \in [Cells -> Nat] /\ pos \in [Threads -> Nat]  BY DEF TypeOK
  <1>3. ASSUME NEW p \in Nat
        PROVE  /\ seq'[Cell(p)] = IF Cell(p) = Cell(q) THEN n ELSE seq[Cell(p)]
               /\ seq[Cell(p)] \in Nat
    BY <1>2, CellType
  <1>4. ASSUME NEW p, p # q PROVE /\ HasProducer(p) => HasProducer(p)'
                                  /\ HasConsumer(p) => HasConsumer(p)'
    BY <1>4 DEF HasProducer, HasConsumer
  <1>5. \/ pc[t] = "e_pub" /\ n = q + 1
        \/ pc[t] = "d_pub" /\ n = q + Capacity
    OBVIOUS
  <1> HIDE DEF q
  <1>6. ASSUME NEW p \in 0..(d - 1) PROVE seq'[Cell(p)] >= p + 1
    <2>1. p \in Nat /\ seq[Cell(p)] >= p + 1  BY <1>1 DEF OwnerInv, Passed
    <2>2. seq[Cell(q)] <= n  BY <1>1, <1>5
    <2>3. QED  BY <1>1, <1>3, <2>1, <2>2
  <1>7. Passed'  BY <1>6 DEF Passed, Cell
  <1>8. ASSUME NEW p \in d..(e - 1), seq'[Cell(p)] = p PROVE HasProducer(p)'
    <2>1. p \in Nat /\ p < q + Capacity /\ q < p + Capacity  BY <1>1, <1>5
    <2>2. p # q  BY <1>1, <1>3, <1>5, <1>8, <2>1
    <2>3. Cell(p) # Cell(q)  BY <1>1, <2>1, <2>2, CellsApart
    <2>4. seq[Cell(p)] = p  BY <1>3, <1>8, <2>1, <2>3
    <2>5. QED  BY <1>4, <2>2, <2>4 DEF OwnerInv, Unpublished
  <1>9. Unpublished'  BY <1>8 DEF Unpublished, Cell
  <1>10. ASSUME NEW p \in e..(d + Capacity - 1), seq'[Cell(p)] = p - Capacity + 1
         PROVE  HasConsumer(p - Capacity)'
    <2>1. p \in Nat  BY <1>1
    <2>2. p # q /\ p - Capacity # q
      <3>1. CASE pc[t] = "e_pub"  BY <1>1, <1>5, <3>1
      <3>2. CASE pc[t] = "d_pub"
        <4>1. p # q  BY <1>1, <3>2
        <4>2. ASSUME p = q + Capacity PROVE FALSE
          <5>1. Cell(p) = Cell(q)  BY <1>1, <4>2, CellLap
          <5>2. QED  BY <1>1, <1>3, <1>5, <1>10, <2>1, <3>2, <4>2, <5>1
        <4>3. QED  BY <1>1, <2>1, <4>1, <4>2
      <3>3. QED  BY <1>5, <3>1, <3>2
    <2>3. Cell(p) # Cell(q)
      <3>1. CASE pc[t] = "e_pub"
        <4>1. p < q + Capacity /\ q < p + Capacity  BY <1>1, <2>1, <3>1
        <4>2. QED  BY <1>1, <2>1, <2>2, <4>1, CellsApart
      <3>2. CASE pc[t] = "d_pub"
        <4>1. ASSUME Cell(p) = Cell(q) PROVE FALSE
          <5>1. seq'[Cell(p)] = q + Capacity  BY <1>3, <1>5, <2>1, <3>2, <4>1
          <5>2. p = q + Capacity + Capacity - 1  BY <1>1, <1>10, <2>1, <5>1
          <5>3. Cell(q + Capacity) = Cell(q)  BY <1>1, CellLap
          <5>4. q + Capacity \in Nat /\ p # q + Capacity  BY <1>1, <5>2
          <5>5. p < q + Capacity + Capacity /\ q + Capacity < p + Capacity  BY <1>1, <5>2
          <5>6. QED  BY <2>1, <4>1, <5>3, <5>4, <5>5, CellsApart
        <4>2. QED  BY <4>1
      <3>3. QED  BY <1>5, <3>1, <3>2
    <2>4. seq[Cell(p)] = p - Capacity + 1  BY <1>3, <1>10, <2>1, <2>3
    <2>5. QED  BY <1>4, <2>2, <2>4 DEF OwnerInv, Unreturned
  <1>11. Unreturned'  BY <1>10 DEF Unreturned, Cell, HasConsumer
  <1>12. QED  BY <1>7, <1>9, <1>11 DEF OwnerInv

\* Every step of Enqueue and Dequeue keeps a cell's owner known.
LEMMA NextOwnerInv == IInv /\ OwnerInv /\ [Next]_vars => OwnerInv'
  <1> SUFFICES ASSUME TypeOK, RingInv, OwnerInv, [Next]_vars PROVE OwnerInv'
    BY DEF IInv, TypeInv
  <1> USE DEF Goto, ring
  <1>a. pc \in [Threads -> Pcs] /\ pos \in [Threads -> Nat]  BY DEF TypeOK
  <1>1. ASSUME NEW t \in Threads, NEW from, NEW to, Goto(t, from, to),
               from \in EnqClaimed => to \in EnqClaimed /\ pos' = pos,
               from \in DeqClaimed => to \in DeqClaimed /\ pos' = pos,
               UNCHANGED <<enqueuePos, dequeuePos, seq>>,
               pos' = pos \/ \E x : pos' = [pos EXCEPT ![t] = x]
        PROVE  OwnerInv'
    BY <1>a, <1>1, LocalOwner
  <1>2. ASSUME NEW t \in Producers, CallEnqueue(t) PROVE OwnerInv'
    BY <1>1, <1>2 DEF CallEnqueue, Threads, EnqClaimed, DeqClaimed
  <1>3. ASSUME NEW t \in Consumers, CallDequeue(t) PROVE OwnerInv'
    BY <1>1, <1>3 DEF CallDequeue, Threads, EnqClaimed, DeqClaimed
  <1>4. ASSUME NEW t \in Threads, EnqueueStep(t) PROVE OwnerInv'
    <2> USE DEF EnqClaimed, DeqClaimed, Retry, Return
    <2>1. CASE EnqLoadPos(t)  BY <2>1, <1>1 DEF EnqLoadPos
    <2>2. CASE EnqLoadSeq(t)  BY <2>2, <1>1 DEF EnqLoadSeq
    <2>3. CASE EnqCasWins(t)  BY <2>3, EnqCasOwner
    <2>4. CASE EnqCasFails(t)  BY <2>4, <1>1 DEF EnqCasFails
    <2>5. CASE EnqWrite(t)  BY <2>5, <1>1 DEF EnqWrite
    <2>6. CASE EnqPublish(t)
      <3>1. /\ pc[t] = "e_pub" /\ pc' = [pc EXCEPT ![t] = "e_len"]
            /\ seq' = [seq EXCEPT ![Cell(pos[t])] = pos[t] + 1]
            /\ UNCHANGED <<enqueuePos, dequeuePos, pos>>
        BY <2>6 DEF EnqPublish
      <3>2. pos[t] + 1 \in Nat  BY <1>a
      <3>3. QED  BY <1>a, <3>1, <3>2, HandOnOwner
    <2>7. CASE EnqCount(t)  BY <2>7, <1>1 DEF EnqCount
    <2>8. CASE EnqReturnsFalse(t)  BY <2>8, <1>1 DEF EnqReturnsFalse
    <2>9. QED  BY <1>4, <2>1, <2>2, <2>3, <2>4, <2>5, <2>6, <2>7, <2>8 DEF EnqueueStep
  <1>5. ASSUME NEW t \in Threads, DequeueStep(t) PROVE OwnerInv'
    <2> USE DEF EnqClaimed, DeqClaimed, Retry, Return
    <2>1. CASE DeqLoadPos(t)  BY <2>1, <1>1 DEF DeqLoadPos
    <2>2. CASE DeqLoadSeq(t)  BY <2>2, <1>1 DEF DeqLoadSeq
    <2>3. CASE DeqCasWins(t)  BY <2>3, DeqCasOwner
    <2>4. CASE DeqCasFails(t)  BY <2>4, <1>1 DEF DeqCasFails
    <2>5. CASE DeqRead(t)  BY <2>5, <1>1 DEF DeqRead
    <2>6. CASE DeqZero(t)  BY <2>6, <1>1 DEF DeqZero
    <2>7. CASE DeqRelease(t)
      <3>1. /\ pc[t] = "d_pub" /\ pc' = [pc EXCEPT ![t] = "d_len"]
            /\ seq' = [seq EXCEPT ![Cell(pos[t])] = pos[t] + Capacity]
            /\ UNCHANGED <<enqueuePos, dequeuePos, pos>>
        BY <2>7 DEF DeqRelease
      <3>2. pos[t] + Capacity \in Nat  BY <1>a, CapacityAssumption
      <3>3. QED  BY <1>a, <3>1, <3>2, HandOnOwner
    <2>8. CASE DeqCount(t)  BY <2>8, <1>1 DEF DeqCount
    <2>9. CASE DeqReturnsFalse(t)  BY <2>9, <1>1 DEF DeqReturnsFalse
    <2>10. QED  BY <1>5, <2>1, <2>2, <2>3, <2>4, <2>5, <2>6, <2>7, <2>8, <2>9 DEF DequeueStep
  <1>6. CASE UNCHANGED vars
    BY <1>6 DEF vars, OwnerInv, Passed, Unpublished, Unreturned, HasProducer, HasConsumer, Cell
  <1>7. QED  BY <1>2, <1>3, <1>4, <1>5, <1>6 DEF Next, AllReturned

-----------------------------------------------------------------------------
(* The refinement mapping: what a ring state is as a queue. *)

Queue == SubSeq(hist, dequeuePos + 1, enqueuePos)

Call(t) == CallOf(t, EnqCalling, DeqCalling,
                  IF pc[t] = "d_read" THEN hist[pos[t] + 1] ELSE ret[t])

\* The abstract call of a goroutine, by where it is in the code.
CallShown(t) ==
    /\ pc[t] = "idle"       => Call(t) = [op |-> "none"]
    /\ pc[t] \in EnqCalling => Call(t) = [op |-> "enq", v |-> arg[t]]
    /\ pc[t] = "e_full"     => Call(t) = [op |-> "enqDone", ok |-> FALSE]
    /\ pc[t] \in DeqCalling => Call(t) = [op |-> "deq"]
    /\ pc[t] = "d_empty"    => Call(t) = [op |-> "deqEmpty"]
    /\ pc[t] \in EnqClaimed \cup {"e_len"} => Call(t) = [op |-> "enqDone", ok |-> TRUE]
    /\ pc[t] = "d_read"     => Call(t) = [op |-> "deqDone", v |-> hist[pos[t] + 1]]
    /\ pc[t] \in {"d_zero", "d_pub", "d_len"} => Call(t) = [op |-> "deqDone", v |-> ret[t]]

\* What a goroutine shows of its call, by where it stands.
LEMMA CallByPlace == ASSUME NEW t PROVE CallShown(t) /\ CallShown(t)'
  <1> USE DEF EnqCalling, DeqCalling, EnqClaimed, DeqClaimed, EnqPcs, DeqPcs
  <1>1. CallShown(t)  BY DEF CallShown, Call, CallOf
  <1>2. CallShown(t)'  BY DEF CallShown, Call, CallOf
  <1>3. QED  BY <1>1, <1>2

\* Only goroutine t's call changes.
OnlyCallOf(t) == \A u \in Threads \ {t} : Call(u)' = Call(u)

\* The steps of BoundedQueue, in terms of the mapping.
LEMMA Invokes ==
    ASSUME NEW t \in Threads, Call(t) = [op |-> "none"], OnlyCallOf(t), Queue' = Queue,
           \/ \E v \in Values : Call(t)' = [op |-> "enq", v |-> v]
           \/ Call(t)' = [op |-> "deq"]
    PROVE  AtCas!Next
  <1>1. AtCas!Invoke(t)
    BY DEF AtCas!Invoke, AtCas!Idle, AtCas!EnqCalled, AtCas!DeqCalled, Call, Queue, OnlyCallOf
  <1>2. QED  BY <1>1 DEF AtCas!Next

\* A CAS that succeeds is the put of the abstract queue.
LEMMA Puts ==
    ASSUME NEW t \in Threads, NEW v, Call(t) = [op |-> "enq", v |-> v], OnlyCallOf(t),
           Len(Queue) < Capacity, Queue' = Append(Queue, v),
           Call(t)' = [op |-> "enqDone", ok |-> TRUE]
    PROVE  AtCas!Next
  <1>1. Call(t).op = "enq" /\ Call(t).v = v  OBVIOUS
  <1>2. AtCas!Put(t)  BY <1>1 DEF AtCas!Put, AtCas!EnqAnswered, Call, Queue, OnlyCallOf
  <1>3. QED  BY <1>2 DEF AtCas!Next

\* An Enqueue that fails does so because the queue is full or another call is half way.
LEMMA PutsFail ==
    ASSUME NEW t \in Threads, NEW v, Call(t) = [op |-> "enq", v |-> v], OnlyCallOf(t),
           \/ Len(Queue) = Capacity
           \/ \E u \in Threads \ {t}, w \in Values : Call(u) = [op |-> "deqDone", v |-> w],
           Queue' = Queue, Call(t)' = [op |-> "enqDone", ok |-> FALSE]
    PROVE  AtCas!Next
  <1>1. Call(t).op = "enq"  OBVIOUS
  <1>2. AtCas!PutFails(t)
    BY <1>1 DEF AtCas!PutFails, AtCas!HalfWay, AtCas!EnqAnswered, AtCas!DeqAnswered,
                Call, Queue, OnlyCallOf
  <1>3. QED  BY <1>2 DEF AtCas!Next

\* A CAS that succeeds is the take of the abstract queue.
LEMMA Takes ==
    ASSUME NEW t \in Threads, Call(t) = [op |-> "deq"], OnlyCallOf(t),
           Queue # <<>>, Queue' = Tail(Queue),
           Call(t)' = [op |-> "deqDone", v |-> Head(Queue)]
    PROVE  AtCas!Next
  <1>1. Call(t).op = "deq"  OBVIOUS
  <1>2. AtCas!Take(t)  BY <1>1 DEF AtCas!Take, AtCas!DeqAnswered, Call, Queue, OnlyCallOf
  <1>3. QED  BY <1>2 DEF AtCas!Next

\* A Dequeue that fails does so because the queue is empty or another call is half way.
LEMMA TakesFail ==
    ASSUME NEW t \in Threads, Call(t) = [op |-> "deq"], OnlyCallOf(t),
           \/ Queue = <<>>
           \/ \E u \in Threads \ {t} : Call(u) = [op |-> "enqDone", ok |-> TRUE],
           Queue' = Queue, Call(t)' = [op |-> "deqEmpty"]
    PROVE  AtCas!Next
  <1>1. Call(t).op = "deq"  OBVIOUS
  <1>2. AtCas!TakeFails(t)
    BY <1>1 DEF AtCas!TakeFails, AtCas!HalfWay, AtCas!EnqAnswered, AtCas!DeqEmpty,
                Call, Queue, OnlyCallOf
  <1>3. QED  BY <1>2 DEF AtCas!Next

\* A call that returns.
LEMMA Returns ==
    ASSUME NEW t \in Threads, OnlyCallOf(t), Queue' = Queue,
           Call(t).op \in {"enqDone", "deqDone", "deqEmpty"},
           Call(t)' = [op |-> "none"]
    PROVE  AtCas!Next
  <1>1. AtCas!Return(t)  BY DEF AtCas!Return, AtCas!Idle, Call, Queue, OnlyCallOf
  <1>2. QED  BY <1>1 DEF AtCas!Next

\* A step that the abstract queue does not see.
LEMMA Stutters ==
    ASSUME NEW t \in Threads, OnlyCallOf(t), Queue' = Queue, Call(t)' = Call(t)
    PROVE  UNCHANGED AtCas!vars
  <1>1. \A u \in Threads : Call(u)' = Call(u)  BY DEF OnlyCallOf
  <1>2. QED  BY <1>1 DEF AtCas!vars, Call, Queue

\* What other goroutines are doing does not change when t moves, unless the history grows
\* under them, which it does only at its end.
LEMMA OthersKeepCalls ==
    ASSUME IInv, NEW t \in Threads,
           \A u \in Threads \ {t} : /\ pc'[u] = pc[u] /\ pos'[u] = pos[u]
                                    /\ arg'[u] = arg[u] /\ ret'[u] = ret[u],
           hist' = hist \/ \E v \in Values : hist' = Append(hist, v)
    PROVE  OnlyCallOf(t)
  <1> SUFFICES ASSUME NEW u \in Threads \ {t} PROVE Call(u)' = Call(u)  BY DEF OnlyCallOf
  <1>1. pc[u] = "d_read" => hist'[pos[u] + 1] = hist[pos[u] + 1]
    <2>1. hist \in Seq(Values) /\ Len(hist) = enqueuePos /\ pos[u] \in Nat
      BY DEF IInv, TypeInv, TypeOK, DataInv
    <2>2. pc[u] = "d_read" => pos[u] + 1 \in 1..Len(hist)
      BY <2>1, ClaimRange DEF IInv, TypeInv, DeqClaimed
    <2>3. QED  BY <2>1, <2>2
  <1>2. QED  BY <1>1 DEF Call, CallOf

\* The queue of a ring state: its length and its values.
LEMMA QueueShape ==
    ASSUME IInv
    PROVE  /\ hist \in Seq(Values) /\ Len(hist) = enqueuePos
           /\ enqueuePos \in Nat /\ dequeuePos \in Nat
           /\ dequeuePos <= enqueuePos /\ enqueuePos <= dequeuePos + Capacity
           /\ Queue \in Seq(Values) /\ Len(Queue) = enqueuePos - dequeuePos
           /\ \A i \in 1..(enqueuePos - dequeuePos) : Queue[i] = hist[dequeuePos + i]
  <1>1. /\ hist \in Seq(Values) /\ Len(hist) = enqueuePos
        /\ enqueuePos \in Nat /\ dequeuePos \in Nat
        /\ dequeuePos <= enqueuePos /\ enqueuePos <= dequeuePos + Capacity
    BY DEF IInv, TypeInv, TypeOK, DataInv, RingInv, Positions
  <1>2. QED  BY <1>1, CapacityAssumption DEF Queue

\* Enqueue returns false only when Capacity values are queued or a consumer has taken
\* a value and not yet handed its cell back.
LEMMA WhyPutFails ==
    ASSUME IInv, OwnerInv, NEW t \in Threads, pc[t] = "e_loadSeq", seq[Cell(pos[t])] < pos[t]
    PROVE  \/ Len(Queue) = Capacity
           \/ \E u \in Threads \ {t}, w \in Values : Call(u) = [op |-> "deqDone", v |-> w]
  <1> USE CapacityAssumption
  <1> DEFINE e == enqueuePos
             d == dequeuePos
             q == pos[t]
  <1>1. /\ e \in Nat /\ d \in Nat /\ d <= e /\ e <= d + Capacity /\ Len(Queue) = e - d
        /\ hist \in Seq(Values) /\ Len(hist) = e
    BY QueueShape
  <1>2. q \in Nat /\ q <= e /\ seq[Cell(q)] \in Nat
    BY CellType DEF IInv, TypeInv, TypeOK, RingInv, LoadedPositions
  <1>3. q = e
    <2>1. CASE q < d
      <3>1. q \in 0..(d - 1)  BY <1>1, <1>2, <2>1
      <3>2. QED  BY <1>2, <3>1 DEF OwnerInv, Passed
    <2>2. CASE d <= q /\ q < e
      <3>1. q \in d..(e - 1)  BY <1>1, <1>2, <2>2
      <3>2. QED  BY <1>2, <3>1 DEF IInv, RingInv, StoredCells
    <2>3. QED  BY <1>1, <1>2, <2>1, <2>2
  <1>4. CASE e = d + Capacity  BY <1>1, <1>4
  <1>5. CASE e < d + Capacity
    <2>1. e \in e..(d + Capacity - 1)  BY <1>1, <1>5
    <2>2. seq[Cell(e)] # e  BY <1>2, <1>3
    <2>3. seq[Cell(e)] = e - Capacity + 1  BY <2>1, <2>2 DEF IInv, RingInv, FreeCells
    <2>4. PICK u \in Threads : pc[u] \in DeqClaimed /\ pos[u] = e - Capacity
      BY <2>1, <2>3 DEF OwnerInv, Unreturned, HasConsumer
    <2>5. pos[u] \in Nat /\ pos[u] + 1 \in 1..Len(hist)
      BY <1>1, <2>4 DEF IInv, TypeInv, TypeOK
    <2>6. hist[pos[u] + 1] \in Values  BY <1>1, <2>5
    <2>7. Call(u) = [op |-> "deqDone", v |-> hist[pos[u] + 1]]
      <3>1. CASE pc[u] = "d_read"  BY <3>1, CallByPlace DEF CallShown
      <3>2. CASE pc[u] \in {"d_zero", "d_pub"}
        <4>1. Call(u) = [op |-> "deqDone", v |-> ret[u]]  BY <3>2, CallByPlace DEF CallShown
        <4>2. ret[u] = hist[pos[u] + 1]  BY <3>2 DEF IInv, DataInv, ReadsWhatWasPut
        <4>3. QED  BY <4>1, <4>2
      <3>3. QED  BY <2>4, <3>1, <3>2 DEF DeqClaimed
    <2>8. u # t  BY <2>4 DEF DeqClaimed
    <2>9. QED  BY <2>6, <2>7, <2>8
  <1>6. QED  BY <1>1, <1>4, <1>5

\* Dequeue returns false only when nothing is queued or a producer has claimed a
\* place and not yet published its value.
LEMMA WhyTakeFails ==
    ASSUME IInv, OwnerInv, NEW t \in Threads, pc[t] = "d_loadSeq", seq[Cell(pos[t])] < pos[t] + 1
    PROVE  \/ Queue = <<>>
           \/ \E u \in Threads \ {t} : Call(u) = [op |-> "enqDone", ok |-> TRUE]
  <1> USE CapacityAssumption
  <1> DEFINE e == enqueuePos
             d == dequeuePos
             q == pos[t]
  <1>1. /\ e \in Nat /\ d \in Nat /\ d <= e /\ Queue \in Seq(Values) /\ Len(Queue) = e - d
    BY QueueShape
  <1>2. q \in Nat /\ q <= d /\ seq[Cell(q)] \in Nat
    BY CellType DEF IInv, TypeInv, TypeOK, RingInv, LoadedPositions
  <1>3. q = d
    <2>1. CASE q < d
      <3>1. q \in 0..(d - 1)  BY <1>1, <1>2, <2>1
      <3>2. QED  BY <1>2, <3>1 DEF OwnerInv, Passed
    <2>2. QED  BY <1>1, <1>2, <2>1
  <1>4. CASE e = d  BY <1>1, <1>4
  <1>5. CASE d < e
    <2>1. d \in d..(e - 1)  BY <1>1, <1>5
    <2>2. seq[Cell(d)] # d + 1  BY <1>2, <1>3
    <2>3. seq[Cell(d)] = d  BY <2>1, <2>2 DEF IInv, RingInv, StoredCells
    <2>4. PICK u \in Threads : pc[u] \in EnqClaimed /\ pos[u] = d
      BY <2>1, <2>3 DEF OwnerInv, Unpublished, HasProducer
    <2>5. Call(u) = [op |-> "enqDone", ok |-> TRUE]  BY <2>4, CallByPlace DEF CallShown
    <2>6. u # t  BY <2>4 DEF EnqClaimed
    <2>7. QED  BY <2>5, <2>6
  <1>6. QED  BY <1>1, <1>4, <1>5

\* Winning the CAS of Enqueue puts the value at the end of the queue.
LEMMA CasPuts ==
    ASSUME IInv, IInv', NEW t \in Threads, EnqCasWins(t)
    PROVE  Len(Queue) < Capacity /\ Queue' = Append(Queue, arg[t]) /\ arg[t] \in Values
  <1> DEFINE e == enqueuePos
             d == dequeuePos
  <1>1. enqueuePos' = e + 1 /\ dequeuePos' = d /\ hist' = Append(hist, arg[t]) /\ pc[t] = "e_cas"
    BY DEF EnqCasWins, Goto
  <1>2. arg[t] \in Values  BY <1>1 DEF IInv, TypeInv, HasArgument, EnqCalling
  <1>3. /\ hist \in Seq(Values) /\ Len(hist) = e /\ e \in Nat /\ d \in Nat /\ d <= e
        /\ Queue \in Seq(Values) /\ Len(Queue) = e - d
        /\ \A i \in 1..(e - d) : Queue[i] = hist[d + i]
    BY QueueShape
  <1>4. e + 1 <= d + Capacity  BY <1>1 DEF IInv, RingInv, Positions
  <1>5. /\ Queue' \in Seq(Values) /\ Len(Queue') = e + 1 - d
        /\ \A i \in 1..(e + 1 - d) : Queue'[i] = hist'[d + i]
    <2>1. hist' \in Seq(Values) /\ Len(hist') = e + 1  BY <1>1, <1>2, <1>3
    <2>2. Queue' = SubSeq(hist', d + 1, e + 1)  BY <1>1 DEF Queue
    <2>3. QED  BY <1>3, <2>1, <2>2
  <1>6. ASSUME NEW i \in 1..(e + 1 - d) PROVE Queue'[i] = Append(Queue, arg[t])[i]
    <2>1. CASE i = e + 1 - d
      <3>1. d + i = e + 1  BY <1>3, <2>1
      <3>2. hist'[e + 1] = arg[t]  BY <1>1, <1>2, <1>3
      <3>3. QED  BY <1>2, <1>3, <1>5, <2>1, <3>1, <3>2
    <2>2. CASE i # e + 1 - d
      <3>1. i \in 1..(e - d) /\ d + i \in 1..e  BY <1>3, <2>2
      <3>2. hist'[d + i] = hist[d + i]  BY <1>1, <1>2, <1>3, <3>1
      <3>3. Append(Queue, arg[t])[i] = Queue[i]  BY <1>2, <1>3, <3>1
      <3>4. QED  BY <1>3, <1>5, <3>1, <3>2, <3>3
    <2>3. QED  BY <2>1, <2>2
  <1>7. Append(Queue, arg[t]) \in Seq(Values) /\ Len(Append(Queue, arg[t])) = e + 1 - d
    BY <1>2, <1>3
  <1>8. Queue' = Append(Queue, arg[t])  BY <1>5, <1>6, <1>7, SeqEqual
  <1>9. QED  BY <1>2, <1>3, <1>4, <1>8, CapacityAssumption

\* Winning the CAS of Dequeue takes the oldest value.
LEMMA CasTakes ==
    ASSUME IInv, IInv', NEW t \in Threads, DeqCasWins(t)
    PROVE  Queue # <<>> /\ Queue' = Tail(Queue) /\ Head(Queue) = hist[pos[t] + 1]
  <1> DEFINE e == enqueuePos
             d == dequeuePos
  <1>1. enqueuePos' = e /\ dequeuePos' = d + 1 /\ hist' = hist /\ pos[t] = d
    BY DEF DeqCasWins
  <1>2. /\ hist \in Seq(Values) /\ Len(hist) = e /\ e \in Nat /\ d \in Nat
        /\ Queue \in Seq(Values) /\ Len(Queue) = e - d
        /\ \A i \in 1..(e - d) : Queue[i] = hist[d + i]
    BY QueueShape
  <1>3. d + 1 <= e  BY <1>1 DEF IInv, RingInv, Positions
  <1>4. Queue # <<>> /\ Head(Queue) = hist[d + 1]  BY <1>2, <1>3
  <1>5. /\ Queue' \in Seq(Values) /\ Len(Queue') = e - (d + 1)
        /\ \A i \in 1..(e - (d + 1)) : Queue'[i] = hist[(d + 1) + i]
    <2>1. Queue' = SubSeq(hist, d + 1 + 1, e)  BY <1>1 DEF Queue
    <2>2. QED  BY <1>2, <1>3, <2>1
  <1>6. Tail(Queue) \in Seq(Values) /\ Len(Tail(Queue)) = e - (d + 1)  BY <1>2, <1>3
  <1>7. ASSUME NEW i \in 1..(e - (d + 1)) PROVE Queue'[i] = Tail(Queue)[i]
    <2>1. i + 1 \in 1..(e - d) /\ d + (i + 1) = (d + 1) + i  BY <1>2, <1>3
    <2>2. Tail(Queue)[i] = Queue[i + 1]  BY <1>2, <1>3, <1>6
    <2>3. QED  BY <1>2, <1>5, <2>1, <2>2
  <1>8. Queue' = Tail(Queue)  BY <1>5, <1>6, <1>7, SeqEqual
  <1>9. QED  BY <1>1, <1>4, <1>8

-----------------------------------------------------------------------------
(* Every step of the ring is a step of the queue or none. *)

\* Every step of the ring is one of the abstract queue, or none.
LEMMA StepImplements ==
    ASSUME IInv, IInv', OwnerInv, [Next]_vars
    PROVE  [AtCas!Next]_(AtCas!vars)
  <1> USE DEF Goto, ring
  <1>a. /\ pc \in [Threads -> Pcs] /\ pos \in [Threads -> Nat]
        /\ arg \in [Threads -> Values \cup {Zero}] /\ ret \in [Threads -> Values \cup {Zero}]
    BY DEF IInv, TypeInv, TypeOK
  <1>b. ASSUME NEW t \in Threads PROVE CallShown(t) /\ CallShown(t)'  BY CallByPlace
  <1>c. ASSUME UNCHANGED <<hist, enqueuePos, dequeuePos>> PROVE Queue' = Queue
    BY <1>c DEF Queue
  \* A goroutine moves and changes none of the queue.
  <1>d. ASSUME NEW t \in Threads, NEW from, NEW to, Goto(t, from, to), UNCHANGED hist,
               pos' = pos \/ \E x : pos' = [pos EXCEPT ![t] = x],
               arg' = arg \/ \E x : arg' = [arg EXCEPT ![t] = x],
               ret' = ret \/ \E x : ret' = [ret EXCEPT ![t] = x]
        PROVE  OnlyCallOf(t)
    BY <1>a, <1>d, OthersKeepCalls
  <1>1. ASSUME NEW t \in Producers, CallEnqueue(t) PROVE AtCas!Next
    <2>1. t \in Threads  BY DEF Threads
    <2>2. OnlyCallOf(t) /\ Queue' = Queue  BY <1>1, <1>c, <1>d, <2>1 DEF CallEnqueue
    <2>3. PICK v \in Values : arg' = [arg EXCEPT ![t] = v]  BY <1>1 DEF CallEnqueue
    <2>4. pc[t] = "idle" /\ pc'[t] = "e_loadPos" /\ arg'[t] = v
      BY <1>a, <1>1, <2>1, <2>3 DEF CallEnqueue
    <2>5. Call(t) = [op |-> "none"] /\ Call(t)' = [op |-> "enq", v |-> v]
      BY <1>b, <2>1, <2>4 DEF CallShown, EnqCalling
    <2>6. QED  BY <2>1, <2>2, <2>5, Invokes
  <1>2. ASSUME NEW t \in Consumers, CallDequeue(t) PROVE AtCas!Next
    <2>1. t \in Threads  BY DEF Threads
    <2>2. OnlyCallOf(t) /\ Queue' = Queue  BY <1>2, <1>c, <1>d, <2>1 DEF CallDequeue
    <2>3. pc[t] = "idle" /\ pc'[t] = "d_loadPos"  BY <1>a, <1>2, <2>1 DEF CallDequeue
    <2>4. Call(t) = [op |-> "none"] /\ Call(t)' = [op |-> "deq"]
      BY <1>b, <2>1, <2>3 DEF CallShown, DeqCalling
    <2>5. QED  BY <2>1, <2>2, <2>4, Invokes
  \* A goroutine stays at the same point of the abstract call.
  <1>3. ASSUME NEW t \in Threads, NEW from, NEW to, Goto(t, from, to),
               UNCHANGED <<hist, enqueuePos, dequeuePos, arg>>,
               pos' = pos \/ \E x : pos' = [pos EXCEPT ![t] = x],
               \/ from \in EnqCalling /\ to \in EnqCalling /\ ret' = ret
               \/ from \in DeqCalling /\ to \in DeqCalling /\ ret' = ret
               \/ from \in EnqClaimed /\ to \in EnqClaimed \cup {"e_len"} /\ ret' = ret
               \/ from \in {"d_zero", "d_pub"} /\ to \in {"d_pub", "d_len"} /\ ret' = ret
        PROVE  UNCHANGED AtCas!vars
    <2>1. pc'[t] = to /\ pc[t] = from  BY <1>a, <1>3
    <2>a. CallShown(t) /\ CallShown(t)'  BY <1>b
    <2>b. arg'[t] = arg[t] /\ ret'[t] = ret[t]  BY <1>3
    <2>2. Call(t)' = Call(t)
      <3>1. CASE from \in EnqCalling /\ to \in EnqCalling  BY <2>a, <2>b, <2>1, <3>1 DEF CallShown
      <3>2. CASE from \in DeqCalling /\ to \in DeqCalling  BY <2>a, <2>b, <2>1, <3>2 DEF CallShown
      <3>3. CASE from \in EnqClaimed /\ to \in EnqClaimed \cup {"e_len"}
        BY <2>a, <2>b, <2>1, <3>3 DEF CallShown
      <3>4. CASE from \in {"d_zero", "d_pub"} /\ to \in {"d_pub", "d_len"}
        BY <2>a, <2>b, <2>1, <3>4 DEF CallShown
      <3>5. QED  BY <1>3, <3>1, <3>2, <3>3, <3>4
    <2>3. OnlyCallOf(t) /\ Queue' = Queue  BY <1>c, <1>d, <1>3
    <2>4. QED  BY <2>2, <2>3, Stutters
  \* A call returns.
  <1>4. ASSUME NEW t \in Threads, NEW from \in {"e_len", "e_full", "d_len", "d_empty"},
               Return(t, from)
        PROVE  AtCas!Next
    <2>1. pc'[t] = "idle" /\ pc[t] = from  BY <1>a, <1>4 DEF Return
    <2>2. Call(t)' = [op |-> "none"] /\ Call(t).op \in {"enqDone", "deqDone", "deqEmpty"}
      BY <1>b, <2>1 DEF CallShown
    <2>3. OnlyCallOf(t) /\ Queue' = Queue  BY <1>c, <1>d, <1>4 DEF Return
    <2>4. QED  BY <2>2, <2>3, Returns
  <1>5. ASSUME NEW t \in Threads, EnqueueStep(t) PROVE AtCas!Next \/ UNCHANGED AtCas!vars
    <2> USE DEF EnqCalling, EnqClaimed
    <2>1. CASE EnqLoadPos(t)  BY <1>3, <2>1 DEF EnqLoadPos
    <2>2. CASE EnqLoadSeq(t)
      <3>1. CASE Goto(t, "e_loadSeq", "e_cas") /\ UNCHANGED <<ring, pos, arg, ret>>
        BY <1>3, <3>1
      <3>2. CASE Retry(t, "e_loadSeq", "e_loadPos")  BY <1>3, <3>2 DEF Retry
      <3>3. CASE /\ seq[Cell(pos[t])] - pos[t] < 0
                 /\ Goto(t, "e_loadSeq", "e_full") /\ UNCHANGED <<ring, pos, arg, ret>>
        <4>1. pc[t] = "e_loadSeq" /\ pc'[t] = "e_full"  BY <1>a, <3>3
        <4>2. Call(t) = [op |-> "enq", v |-> arg[t]] /\ Call(t)' = [op |-> "enqDone", ok |-> FALSE]
          BY <1>b, <4>1 DEF CallShown
        <4>3. OnlyCallOf(t) /\ Queue' = Queue  BY <1>c, <1>d, <3>3
        <4>4. seq[Cell(pos[t])] \in Nat /\ pos[t] \in Nat
          BY CellType DEF IInv, TypeInv, TypeOK
        <4>5. seq[Cell(pos[t])] < pos[t]  BY <3>3, <4>4
        <4>6. QED  BY <4>1, <4>2, <4>3, <4>5, WhyPutFails, PutsFail
      <3>4. QED  BY <2>2, <3>1, <3>2, <3>3 DEF EnqLoadSeq
    <2>3. CASE EnqCasWins(t)
      <3>1. /\ Len(Queue) < Capacity /\ Queue' = Append(Queue, arg[t]) /\ arg[t] \in Values
        BY <2>3, CasPuts
      <3>2. OnlyCallOf(t)  BY <1>a, <2>3, <3>1, OthersKeepCalls DEF EnqCasWins
      <3>3. pc[t] = "e_cas" /\ pc'[t] = "e_write"  BY <1>a, <2>3 DEF EnqCasWins
      <3>4. Call(t) = [op |-> "enq", v |-> arg[t]] /\ Call(t)' = [op |-> "enqDone", ok |-> TRUE]
        BY <1>b, <3>3 DEF CallShown
      <3>5. QED  BY <3>1, <3>2, <3>4, Puts
    <2>4. CASE EnqCasFails(t)  BY <1>3, <2>4 DEF EnqCasFails, Retry
    <2>5. CASE EnqWrite(t)  BY <1>3, <2>5 DEF EnqWrite
    <2>6. CASE EnqPublish(t)  BY <1>3, <2>6 DEF EnqPublish
    <2>7. CASE EnqCount(t)  BY <1>4, <2>7 DEF EnqCount
    <2>8. CASE EnqReturnsFalse(t)  BY <1>4, <2>8 DEF EnqReturnsFalse
    <2>9. QED  BY <1>5, <2>1, <2>2, <2>3, <2>4, <2>5, <2>6, <2>7, <2>8 DEF EnqueueStep
  <1>6. ASSUME NEW t \in Threads, DequeueStep(t) PROVE AtCas!Next \/ UNCHANGED AtCas!vars
    <2> USE DEF DeqCalling
    <2>1. CASE DeqLoadPos(t)  BY <1>3, <2>1 DEF DeqLoadPos
    <2>2. CASE DeqLoadSeq(t)
      <3>1. CASE Goto(t, "d_loadSeq", "d_cas") /\ UNCHANGED <<ring, pos, arg, ret>>
        BY <1>3, <3>1
      <3>2. CASE Retry(t, "d_loadSeq", "d_loadPos")  BY <1>3, <3>2 DEF Retry
      <3>3. CASE /\ seq[Cell(pos[t])] - (pos[t] + 1) < 0
                 /\ Goto(t, "d_loadSeq", "d_empty") /\ UNCHANGED <<ring, pos, arg, ret>>
        <4>1. pc[t] = "d_loadSeq" /\ pc'[t] = "d_empty"  BY <1>a, <3>3
        <4>2. Call(t) = [op |-> "deq"] /\ Call(t)' = [op |-> "deqEmpty"]
          BY <1>b, <4>1 DEF CallShown
        <4>3. OnlyCallOf(t) /\ Queue' = Queue  BY <1>c, <1>d, <3>3
        <4>4. seq[Cell(pos[t])] \in Nat /\ pos[t] \in Nat
          BY CellType DEF IInv, TypeInv, TypeOK
        <4>5. seq[Cell(pos[t])] < pos[t] + 1  BY <3>3, <4>4
        <4>6. QED  BY <4>1, <4>2, <4>3, <4>5, WhyTakeFails, TakesFail
      <3>4. QED  BY <2>2, <3>1, <3>2, <3>3 DEF DeqLoadSeq
    <2>3. CASE DeqCasWins(t)
      <3>1. Queue # <<>> /\ Queue' = Tail(Queue) /\ Head(Queue) = hist[pos[t] + 1]
        BY <2>3, CasTakes
      <3>2. OnlyCallOf(t)  BY <1>d, <2>3 DEF DeqCasWins
      <3>3. pc[t] = "d_cas" /\ pc'[t] = "d_read" /\ pos' = pos /\ hist' = hist
        BY <1>a, <2>3 DEF DeqCasWins
      <3>4. Call(t) = [op |-> "deq"] /\ Call(t)' = [op |-> "deqDone", v |-> hist[pos[t] + 1]]
        BY <1>b, <3>3 DEF CallShown
      <3>5. QED  BY <3>1, <3>2, <3>4, Takes
    <2>4. CASE DeqCasFails(t)  BY <1>3, <2>4 DEF DeqCasFails, Retry
    <2>5. CASE DeqRead(t)
      <3>1. /\ pc[t] = "d_read" /\ pc'[t] = "d_zero" /\ ret'[t] = val[Cell(pos[t])]
        BY <1>a, <2>5 DEF DeqRead
      <3>2. val[Cell(pos[t])] = hist[pos[t] + 1]  BY <3>1 DEF IInv, DataInv
      <3>3. Call(t)' = Call(t)  BY <1>b, <3>1, <3>2 DEF CallShown
      <3>4. OnlyCallOf(t) /\ Queue' = Queue  BY <1>c, <1>d, <2>5 DEF DeqRead
      <3>5. QED  BY <3>3, <3>4, Stutters
    <2>6. CASE DeqZero(t)  BY <1>3, <2>6 DEF DeqZero
    <2>7. CASE DeqRelease(t)  BY <1>3, <2>7 DEF DeqRelease
    <2>8. CASE DeqCount(t)  BY <1>4, <2>8 DEF DeqCount
    <2>9. CASE DeqReturnsFalse(t)  BY <1>4, <2>9 DEF DeqReturnsFalse
    <2>10. QED  BY <1>6, <2>1, <2>2, <2>3, <2>4, <2>5, <2>6, <2>7, <2>8, <2>9 DEF DequeueStep
  <1>7. CASE UNCHANGED vars
    BY <1>7 DEF vars, AtCas!vars, CallOf
  <1>8. QED  BY <1>1, <1>2, <1>5, <1>6, <1>7 DEF Next, AllReturned

(***************************************************************************)
(* Linearizability: with any number of producers and consumers every       *)
(* Enqueue and Dequeue takes effect at one instant, its CAS, on a first-in *)
(* first-out queue of at most Capacity values, and one that fails does so  *)
(* on a full or empty queue or because of a call half way through.         *)
(***************************************************************************)
THEOREM RingIsLinearizable == Spec => Linearizable
  <1>1. Init => AtCas!Init
    <2> SUFFICES ASSUME Init PROVE AtCas!Init  OBVIOUS
    <2>1. IInv  BY InitTypeInv, InitRingInv, InitDataInv DEF IInv
    <2>2. Queue = <<>>  BY <2>1, QueueShape DEF Init
    <2>3. \A t \in Threads : Call(t) = [op |-> "none"]  BY CallByPlace DEF CallShown, Init
    <2>4. QED  BY <2>2, <2>3 DEF AtCas!Init, AtCas!Idle, Call, Queue
  <1>2. Spec => []OwnerInv
    BY InitOwnerInv, NextOwnerInv, InvariantHolds, PTL DEF Spec
  <1>3. IInv /\ IInv' /\ OwnerInv /\ [Next]_vars => [AtCas!Next]_(AtCas!vars)
    BY StepImplements
  <1>4. QED  BY <1>1, <1>2, <1>3, InvariantHolds, PTL DEF Spec, Linearizable, AtCas!Spec

-----------------------------------------------------------------------------
(* One producer and one consumer: the ring as an exact queue. *)

OneOfEach == /\ \A t, u \in Producers : t = u
             /\ \A t, u \in Consumers : t = u

\* A goroutine is inside the calls of its role only.
RolesInv == \A t \in Threads : /\ pc[t] \in EnqPcs => t \in Producers
                               /\ pc[t] \in DeqPcs => t \in Consumers

\* Nobody else moves the position that a goroutine has loaded or claimed.
SoleInv == \A t \in Threads :
    /\ pc[t] \in {"e_loadSeq", "e_cas"} => pos[t] = enqueuePos
    /\ pc[t] \in EnqClaimed             => pos[t] + 1 = enqueuePos
    /\ pc[t] \in {"d_loadSeq", "d_cas"} => pos[t] = dequeuePos
    /\ pc[t] \in DeqClaimed             => pos[t] + 1 = dequeuePos

\* Every step keeps a goroutine in its role.
LEMMA NextRoles == TypeOK /\ RolesInv /\ [Next]_vars => RolesInv'
  <1> SUFFICES ASSUME TypeOK, RolesInv, [Next]_vars PROVE RolesInv'  OBVIOUS
  <1> USE DEF EnqPcs, DeqPcs, EnqClaimed, DeqClaimed
  <1>1. ASSUME NEW t \in Threads, NEW to, pc' = [pc EXCEPT ![t] = to],
               to \in EnqPcs => t \in Producers, to \in DeqPcs => t \in Consumers
        PROVE  RolesInv'
    <2>1. \A u \in Threads : pc'[u] = IF u = t THEN to ELSE pc[u]  BY <1>1 DEF TypeOK
    <2>2. QED  BY <1>1, <2>1 DEF RolesInv
  <1>2. ASSUME NEW t \in Producers, CallEnqueue(t) PROVE RolesInv'
    <2>1. t \in Threads /\ pc' = [pc EXCEPT ![t] = "e_loadPos"]  BY <1>2 DEF CallEnqueue, Goto, Threads
    <2>2. QED  BY <1>1, <2>1
  <1>3. ASSUME NEW t \in Consumers, CallDequeue(t) PROVE RolesInv'
    <2>1. t \in Threads /\ pc' = [pc EXCEPT ![t] = "d_loadPos"]  BY <1>3 DEF CallDequeue, Goto, Threads
    <2>2. QED  BY <1>1, <2>1
  <1>4. ASSUME NEW t \in Threads, EnqueueStep(t) PROVE RolesInv'
    <2>1. PICK to \in EnqPcs \cup {"idle"} : pc[t] \in EnqPcs /\ pc' = [pc EXCEPT ![t] = to]
      BY <1>4 DEF EnqueueStep, EnqLoadPos, EnqLoadSeq, EnqCasWins, EnqCasFails, EnqWrite, EnqPublish,
         EnqCount, EnqReturnsFalse, Goto, Retry, Return
    <2>2. t \in Producers /\ to \notin DeqPcs  BY <2>1 DEF RolesInv
    <2> HIDE DEF EnqPcs, DeqPcs
    <2>3. QED  BY <1>1, <2>1, <2>2
  <1>5. ASSUME NEW t \in Threads, DequeueStep(t) PROVE RolesInv'
    <2>1. PICK to \in DeqPcs \cup {"idle"} : pc[t] \in DeqPcs /\ pc' = [pc EXCEPT ![t] = to]
      BY <1>5 DEF DequeueStep, DeqLoadPos, DeqLoadSeq, DeqCasWins, DeqCasFails, DeqRead, DeqZero, DeqRelease,
         DeqCount, DeqReturnsFalse, Goto, Retry, Return
    <2>2. t \in Consumers /\ to \notin EnqPcs  BY <2>1 DEF RolesInv
    <2> HIDE DEF EnqPcs, DeqPcs
    <2>3. QED  BY <1>1, <2>1, <2>2
  <1>6. CASE UNCHANGED vars  BY <1>6 DEF vars, RolesInv
  <1>7. QED  BY <1>2, <1>3, <1>4, <1>5, <1>6 DEF Next, AllReturned

\* Every step keeps the positions of the two.
LEMMA NextSole == OneOfEach /\ TypeOK /\ RolesInv /\ SoleInv /\ [Next]_vars => SoleInv'
  <1> SUFFICES ASSUME OneOfEach, TypeOK, RolesInv, SoleInv, [Next]_vars PROVE SoleInv'  OBVIOUS
  <1> USE DEF EnqPcs, DeqPcs, EnqClaimed, DeqClaimed, Goto, ring
  <1>1. /\ pc \in [Threads -> Pcs] /\ pos \in [Threads -> Nat] /\ enqueuePos \in Nat /\ dequeuePos \in Nat
    BY DEF TypeOK
  <1>2. \A t, u \in Threads : /\ pc[t] \in EnqPcs /\ pc[u] \in EnqPcs => t = u
                              /\ pc[t] \in DeqPcs /\ pc[u] \in DeqPcs => t = u
    BY DEF OneOfEach, RolesInv
  \* A goroutine moves on with its position, or without one.
  <1>3. ASSUME NEW t \in Threads, NEW from, NEW to, Goto(t, from, to), UNCHANGED <<enqueuePos, dequeuePos>>,
               \/ to \in {"idle", "e_loadPos", "d_loadPos", "e_full", "d_empty", "e_len", "d_len"}
               \/ pos' = pos /\ <<from, to>> \in {<<"e_loadSeq", "e_cas">>, <<"d_loadSeq", "d_cas">>,
                     <<"e_write", "e_pub">>, <<"d_read", "d_zero">>, <<"d_zero", "d_pub">>}
               \/ to = "e_loadSeq" /\ pos' = [pos EXCEPT ![t] = enqueuePos]
               \/ to = "d_loadSeq" /\ pos' = [pos EXCEPT ![t] = dequeuePos],
               pos' = pos \/ \E x \in Nat : pos' = [pos EXCEPT ![t] = x]
        PROVE  SoleInv'
    <2>1. \A u \in Threads \ {t} : pc'[u] = pc[u] /\ pos'[u] = pos[u]  BY <1>1, <1>3
    <2>2. pc'[t] = to /\ pc[t] = from  BY <1>1, <1>3
    <2>3. SUFFICES ASSUME NEW u \in Threads PROVE
            /\ pc'[u] \in {"e_loadSeq", "e_cas"} => pos'[u] = enqueuePos
            /\ pc'[u] \in EnqClaimed             => pos'[u] + 1 = enqueuePos
            /\ pc'[u] \in {"d_loadSeq", "d_cas"} => pos'[u] = dequeuePos
            /\ pc'[u] \in DeqClaimed             => pos'[u] + 1 = dequeuePos
      BY <1>3 DEF SoleInv
    <2>4. CASE u # t  BY <2>1, <2>4 DEF SoleInv
    <2>5. CASE u = t  BY <1>1, <1>3, <2>2, <2>5 DEF SoleInv
    <2>6. QED  BY <2>4, <2>5
  <1>4. ASSUME NEW t \in Producers, CallEnqueue(t) PROVE SoleInv'
    <2>1. t \in Threads  BY DEF Threads
    <2>2. QED  BY <1>3, <1>4, <2>1 DEF CallEnqueue
  <1>5. ASSUME NEW t \in Consumers, CallDequeue(t) PROVE SoleInv'
    <2>1. t \in Threads  BY DEF Threads
    <2>2. QED  BY <1>3, <1>5, <2>1 DEF CallDequeue
  <1>6. ASSUME NEW t \in Threads, EnqueueStep(t) PROVE SoleInv'
    <2>1. CASE EnqLoadPos(t)  BY <1>1, <1>3, <2>1 DEF EnqLoadPos
    <2>2. CASE EnqLoadSeq(t)
      <3>1. CASE Goto(t, "e_loadSeq", "e_cas") /\ UNCHANGED <<ring, pos>>  BY <1>3, <3>1
      <3>2. CASE Goto(t, "e_loadSeq", "e_full") /\ UNCHANGED <<ring, pos>>  BY <1>3, <3>2
      <3>3. CASE Retry(t, "e_loadSeq", "e_loadPos")  BY <1>3, <3>3 DEF Retry
      <3>4. QED  BY <2>2, <3>1, <3>2, <3>3 DEF EnqLoadSeq
    <2>3. CASE EnqCasWins(t)
      <3>1. /\ pc[t] = "e_cas" /\ pc' = [pc EXCEPT ![t] = "e_write"] /\ enqueuePos' = pos[t] + 1
            /\ UNCHANGED <<dequeuePos, pos>>
        BY <2>3 DEF EnqCasWins
      <3>2. SUFFICES ASSUME NEW u \in Threads PROVE
            /\ pc'[u] \in {"e_loadSeq", "e_cas"} => pos'[u] = enqueuePos'
            /\ pc'[u] \in EnqClaimed             => pos'[u] + 1 = enqueuePos'
            /\ pc'[u] \in {"d_loadSeq", "d_cas"} => pos'[u] = dequeuePos'
            /\ pc'[u] \in DeqClaimed             => pos'[u] + 1 = dequeuePos'
        BY DEF SoleInv
      <3>3. CASE u # t
        <4>1. pc'[u] = pc[u] /\ pc[u] \notin EnqPcs  BY <1>1, <1>2, <3>1, <3>3
        <4>2. QED  BY <3>1, <4>1 DEF SoleInv
      <3>4. CASE u = t  BY <1>1, <3>1, <3>4
      <3>5. QED  BY <3>3, <3>4
    <2>4. CASE EnqCasFails(t)  BY <1>3, <2>4 DEF EnqCasFails, Retry
    <2>5. CASE EnqWrite(t)  BY <1>3, <2>5 DEF EnqWrite
    <2>6. CASE EnqPublish(t)  BY <1>3, <2>6 DEF EnqPublish
    <2>7. CASE EnqCount(t)  BY <1>3, <2>7 DEF EnqCount, Return
    <2>8. CASE EnqReturnsFalse(t)  BY <1>3, <2>8 DEF EnqReturnsFalse, Return
    <2>9. QED  BY <1>6, <2>1, <2>2, <2>3, <2>4, <2>5, <2>6, <2>7, <2>8 DEF EnqueueStep
  <1>7. ASSUME NEW t \in Threads, DequeueStep(t) PROVE SoleInv'
    <2>1. CASE DeqLoadPos(t)  BY <1>1, <1>3, <2>1 DEF DeqLoadPos
    <2>2. CASE DeqLoadSeq(t)
      <3>1. CASE Goto(t, "d_loadSeq", "d_cas") /\ UNCHANGED <<ring, pos>>  BY <1>3, <3>1
      <3>2. CASE Goto(t, "d_loadSeq", "d_empty") /\ UNCHANGED <<ring, pos>>  BY <1>3, <3>2
      <3>3. CASE Retry(t, "d_loadSeq", "d_loadPos")  BY <1>3, <3>3 DEF Retry
      <3>4. QED  BY <2>2, <3>1, <3>2, <3>3 DEF DeqLoadSeq
    <2>3. CASE DeqCasWins(t)
      <3>1. /\ pc[t] = "d_cas" /\ pc' = [pc EXCEPT ![t] = "d_read"] /\ dequeuePos' = pos[t] + 1
            /\ UNCHANGED <<enqueuePos, pos>>
        BY <2>3 DEF DeqCasWins
      <3>2. SUFFICES ASSUME NEW u \in Threads PROVE
            /\ pc'[u] \in {"e_loadSeq", "e_cas"} => pos'[u] = enqueuePos'
            /\ pc'[u] \in EnqClaimed             => pos'[u] + 1 = enqueuePos'
            /\ pc'[u] \in {"d_loadSeq", "d_cas"} => pos'[u] = dequeuePos'
            /\ pc'[u] \in DeqClaimed             => pos'[u] + 1 = dequeuePos'
        BY DEF SoleInv
      <3>3. CASE u # t
        <4>1. pc'[u] = pc[u] /\ pc[u] \notin DeqPcs  BY <1>1, <1>2, <3>1, <3>3
        <4>2. QED  BY <3>1, <4>1 DEF SoleInv
      <3>4. CASE u = t  BY <1>1, <3>1, <3>4
      <3>5. QED  BY <3>3, <3>4
    <2>4. CASE DeqCasFails(t)  BY <1>3, <2>4 DEF DeqCasFails, Retry
    <2>5. CASE DeqRead(t)  BY <1>3, <2>5 DEF DeqRead
    <2>6. CASE DeqZero(t)  BY <1>3, <2>6 DEF DeqZero
    <2>7. CASE DeqRelease(t)  BY <1>3, <2>7 DEF DeqRelease
    <2>8. CASE DeqCount(t)  BY <1>3, <2>8 DEF DeqCount, Return
    <2>9. CASE DeqReturnsFalse(t)  BY <1>3, <2>9 DEF DeqReturnsFalse, Return
    <2>10. QED  BY <1>7, <2>1, <2>2, <2>3, <2>4, <2>5, <2>6, <2>7, <2>8, <2>9 DEF DequeueStep
  <1>8. CASE UNCHANGED vars  BY <1>8 DEF vars, SoleInv
  <1>9. QED  BY <1>4, <1>5, <1>6, <1>7, <1>8 DEF Next, AllReturned

-----------------------------------------------------------------------------
(* Stretches of a sequence *)

\* One value more at the end.
LEMMA StretchGrows ==
    ASSUME NEW S, NEW h \in Seq(S), NEW a \in Nat, NEW b \in Nat, a <= b, b + 1 <= Len(h)
    PROVE  SubSeq(h, a + 1, b + 1) = Append(SubSeq(h, a + 1, b), h[b + 1])
  <1> DEFINE old == SubSeq(h, a + 1, b)
             new == SubSeq(h, a + 1, b + 1)
  <1>1. Len(h) \in Nat /\ h[b + 1] \in S  OBVIOUS
  <1>2. old \in Seq(S) /\ Len(old) = b - a /\ \A i \in 1..(b - a) : old[i] = h[a + i]  BY <1>1
  <1>3. new \in Seq(S) /\ Len(new) = b + 1 - a /\ \A i \in 1..(b + 1 - a) : new[i] = h[a + i]  BY <1>1
  <1> HIDE DEF old, new
  <1>4. Append(old, h[b + 1]) \in Seq(S) /\ Len(Append(old, h[b + 1])) = b + 1 - a  BY <1>1, <1>2
  <1>5. ASSUME NEW i \in 1..(b + 1 - a) PROVE new[i] = Append(old, h[b + 1])[i]
    <2>1. CASE i = b + 1 - a
      <3>1. a + i = b + 1  BY <2>1
      <3>2. Append(old, h[b + 1])[i] = h[b + 1]  BY <1>1, <1>2, <2>1
      <3>3. QED  BY <1>3, <3>1, <3>2
    <2>2. CASE i # b + 1 - a
      <3>1. i \in 1..(b - a)  BY <2>2
      <3>2. Append(old, h[b + 1])[i] = old[i]  BY <1>1, <1>2, <3>1
      <3>3. QED  BY <1>2, <1>3, <3>1, <3>2
    <2>3. QED  BY <2>1, <2>2
  <1>6. new = Append(old, h[b + 1])  BY <1>3, <1>4, <1>5, SeqEqual
  <1>7. QED  BY <1>6 DEF old, new

\* One value less at the beginning.
LEMMA StretchDrops ==
    ASSUME NEW S, NEW h \in Seq(S), NEW a \in Nat, NEW b \in Nat, a + 1 <= b, b <= Len(h)
    PROVE  /\ SubSeq(h, a + 1, b) # <<>> /\ Head(SubSeq(h, a + 1, b)) = h[a + 1]
           /\ SubSeq(h, a + 1 + 1, b) = Tail(SubSeq(h, a + 1, b))
  <1> DEFINE old == SubSeq(h, a + 1, b)
             new == SubSeq(h, a + 1 + 1, b)
  <1>1. Len(h) \in Nat  OBVIOUS
  <1>2. old \in Seq(S) /\ Len(old) = b - a /\ \A i \in 1..(b - a) : old[i] = h[a + i]  BY <1>1
  <1>3. /\ new \in Seq(S) /\ Len(new) = b - (a + 1)
        /\ \A i \in 1..(b - (a + 1)) : new[i] = h[(a + 1) + i]
    BY <1>1
  <1> HIDE DEF old, new
  <1>4. old # <<>> /\ Head(old) = h[a + 1]  BY <1>2
  <1>5. Tail(old) \in Seq(S) /\ Len(Tail(old)) = b - (a + 1)  BY <1>2
  <1>6. ASSUME NEW i \in 1..(b - (a + 1)) PROVE new[i] = Tail(old)[i]
    <2>1. i + 1 \in 1..(b - a) /\ a + (i + 1) = (a + 1) + i  OBVIOUS
    <2>2. Tail(old)[i] = old[i + 1]  BY <1>2, <1>5
    <2>3. QED  BY <1>2, <1>3, <2>1, <2>2
  <1>7. new = Tail(old)  BY <1>3, <1>5, <1>6, SeqEqual
  <1>8. QED  BY <1>4, <1>7 DEF old, new

\* What is appended after a stretch is not in it.
LEMMA StretchStays ==
    ASSUME NEW S, NEW h \in Seq(S), NEW v \in S, NEW a \in Nat, NEW b \in Nat, a <= b, b <= Len(h)
    PROVE  SubSeq(Append(h, v), a + 1, b) = SubSeq(h, a + 1, b)
  <1> DEFINE old == SubSeq(h, a + 1, b)
             g == Append(h, v)
             new == SubSeq(g, a + 1, b)
  <1>1. Len(h) \in Nat  OBVIOUS
  <1>2. old \in Seq(S) /\ Len(old) = b - a /\ \A i \in 1..(b - a) : old[i] = h[a + i]  BY <1>1
  <1>3. g \in Seq(S) /\ Len(g) = Len(h) + 1 /\ \A i \in 1..Len(h) : g[i] = h[i]  OBVIOUS
  <1> HIDE DEF g, old
  <1>4. new \in Seq(S) /\ Len(new) = b - a /\ \A i \in 1..(b - a) : new[i] = g[a + i]  BY <1>1, <1>3
  <1> HIDE DEF new
  <1>5. ASSUME NEW i \in 1..(b - a) PROVE new[i] = old[i]
    <2>1. a + i \in 1..Len(h)  BY <1>1
    <2>2. QED  BY <1>2, <1>3, <1>4, <2>1
  <1>6. new = old  BY <1>2, <1>4, <1>5, SeqEqual
  <1>7. QED  BY <1>6 DEF new, g, old

-----------------------------------------------------------------------------
(* The mapping at the store of the sequence number *)

Taken  == dequeuePos - Inside(DeqClaimed)
Stored == enqueuePos - Inside(EnqClaimed)
Queued == SubSeq(hist, Taken + 1, Stored)

Calls(t) == CallOf(t, EnqCalling \cup EnqClaimed, DeqCalling \cup DeqClaimed, ret[t])

CallsShown(t) ==
    /\ pc[t] = "idle"       => Calls(t) = [op |-> "none"]
    /\ pc[t] \in EnqCalling \cup EnqClaimed => Calls(t) = [op |-> "enq", v |-> arg[t]]
    /\ pc[t] = "e_full"     => Calls(t) = [op |-> "enqDone", ok |-> FALSE]
    /\ pc[t] = "e_len"      => Calls(t) = [op |-> "enqDone", ok |-> TRUE]
    /\ pc[t] \in DeqCalling \cup DeqClaimed => Calls(t) = [op |-> "deq"]
    /\ pc[t] = "d_empty"    => Calls(t) = [op |-> "deqEmpty"]
    /\ pc[t] = "d_len"      => Calls(t) = [op |-> "deqDone", v |-> ret[t]]

\* What a goroutine shows of its call, by where it stands.
LEMMA CallsByPlace == ASSUME NEW t PROVE CallsShown(t) /\ CallsShown(t)'
  <1> USE DEF EnqCalling, DeqCalling, EnqClaimed, DeqClaimed, EnqPcs, DeqPcs
  <1>1. CallsShown(t)  BY DEF CallsShown, Calls, CallOf
  <1>2. CallsShown(t)'  BY DEF CallsShown, Calls, CallOf
  <1>3. QED  BY <1>1, <1>2

OnlyCallsOf(t) == \A u \in Threads \ {t} : Calls(u)' = Calls(u)

\* The steps of BoundedQueue, in terms of this mapping.
LEMMA ExactInvokes ==
    ASSUME NEW t \in Threads, Calls(t) = [op |-> "none"], OnlyCallsOf(t), Queued' = Queued,
           \/ \E v \in Values : Calls(t)' = [op |-> "enq", v |-> v]
           \/ Calls(t)' = [op |-> "deq"]
    PROVE  AtPublish!Next
  <1>1. AtPublish!Invoke(t)
    BY DEF AtPublish!Invoke, AtPublish!Idle, AtPublish!EnqCalled, AtPublish!DeqCalled, Calls, Queued, Taken, Stored, OnlyCallsOf
  <1>2. QED  BY <1>1 DEF AtPublish!Next

\* The store of the sequence number is the put.
LEMMA ExactPuts ==
    ASSUME NEW t \in Threads, NEW v, Calls(t) = [op |-> "enq", v |-> v], OnlyCallsOf(t),
           Len(Queued) < Capacity, Queued' = Append(Queued, v),
           Calls(t)' = [op |-> "enqDone", ok |-> TRUE]
    PROVE  AtPublish!Next
  <1>1. Calls(t).op = "enq" /\ Calls(t).v = v  OBVIOUS
  <1>2. AtPublish!Put(t)  BY <1>1 DEF AtPublish!Put, AtPublish!EnqAnswered, Calls, Queued, Taken, Stored, OnlyCallsOf
  <1>3. QED  BY <1>2 DEF AtPublish!Next

\* An Enqueue that fails found a full queue.
LEMMA ExactPutsFail ==
    ASSUME NEW t \in Threads, NEW v, Calls(t) = [op |-> "enq", v |-> v], OnlyCallsOf(t),
           Len(Queued) = Capacity, Queued' = Queued, Calls(t)' = [op |-> "enqDone", ok |-> FALSE]
    PROVE  AtPublish!Next
  <1>1. Calls(t).op = "enq"  OBVIOUS
  <1>2. AtPublish!PutFails(t)
    BY <1>1 DEF AtPublish!PutFails, AtPublish!EnqAnswered, Calls, Queued, Taken, Stored, OnlyCallsOf
  <1>3. QED  BY <1>2 DEF AtPublish!Next

\* Handing the cell back is the take.
LEMMA ExactTakes ==
    ASSUME NEW t \in Threads, Calls(t) = [op |-> "deq"], OnlyCallsOf(t),
           Queued # <<>>, Queued' = Tail(Queued),
           Calls(t)' = [op |-> "deqDone", v |-> Head(Queued)]
    PROVE  AtPublish!Next
  <1>1. Calls(t).op = "deq"  OBVIOUS
  <1>2. AtPublish!Take(t)  BY <1>1 DEF AtPublish!Take, AtPublish!DeqAnswered, Calls, Queued, Taken, Stored, OnlyCallsOf
  <1>3. QED  BY <1>2 DEF AtPublish!Next

\* A Dequeue that fails found an empty queue.
LEMMA ExactTakesFail ==
    ASSUME NEW t \in Threads, Calls(t) = [op |-> "deq"], OnlyCallsOf(t),
           Queued = <<>>, Queued' = Queued, Calls(t)' = [op |-> "deqEmpty"]
    PROVE  AtPublish!Next
  <1>1. Calls(t).op = "deq"  OBVIOUS
  <1>2. AtPublish!TakeFails(t)
    BY <1>1 DEF AtPublish!TakeFails, AtPublish!DeqEmpty, Calls, Queued, Taken, Stored, OnlyCallsOf
  <1>3. QED  BY <1>2 DEF AtPublish!Next

\* A call that returns.
LEMMA ExactReturns ==
    ASSUME NEW t \in Threads, OnlyCallsOf(t), Queued' = Queued,
           Calls(t).op \in {"enqDone", "deqDone", "deqEmpty"}, Calls(t)' = [op |-> "none"]
    PROVE  AtPublish!Next
  <1>1. AtPublish!Return(t)  BY DEF AtPublish!Return, AtPublish!Idle, Calls, Queued, Taken, Stored, OnlyCallsOf
  <1>2. QED  BY <1>1 DEF AtPublish!Next

\* A step that the queue does not see.
LEMMA ExactStutters ==
    ASSUME NEW t \in Threads, OnlyCallsOf(t), Queued' = Queued, Calls(t)' = Calls(t)
    PROVE  UNCHANGED AtPublish!vars
  <1>1. \A u \in Threads : Calls(u)' = Calls(u)  BY DEF OnlyCallsOf
  <1>2. QED  BY <1>1 DEF AtPublish!vars, Calls, Queued, Taken, Stored

SpscInv == IInv /\ OwnerInv /\ RolesInv /\ SoleInv

\* A set in which all are the same.
LEMMA AtMostOne ==
    ASSUME NEW S, \A x, y \in S : x = y PROVE Cardinality(S) = IF S = {} THEN 0 ELSE 1
  <1>1. CASE S = {}  BY <1>1, FS_EmptySet
  <1>2. CASE S # {}
    <2>1. PICK x : S = {x}  BY <1>2
    <2>2. QED  BY <1>2, <2>1, FS_Singleton
  <1>3. QED  BY <1>1, <1>2

\* One producer and one consumer at most have claimed a cell.
LEMMA InsideCounts ==
    ASSUME OneOfEach, RolesInv
    PROVE  /\ Inside(EnqClaimed) = IF \E t \in Threads : pc[t] \in EnqClaimed THEN 1 ELSE 0
           /\ Inside(DeqClaimed) = IF \E t \in Threads : pc[t] \in DeqClaimed THEN 1 ELSE 0
  <1>1. \A t, u \in {t \in Threads : pc[t] \in EnqClaimed} : t = u  BY DEF OneOfEach, RolesInv, EnqPcs
  <1>2. \A t, u \in {t \in Threads : pc[t] \in DeqClaimed} : t = u  BY DEF OneOfEach, RolesInv, DeqPcs
  <1>3. Inside(EnqClaimed) = IF {t \in Threads : pc[t] \in EnqClaimed} = {} THEN 0 ELSE 1
    BY <1>1, AtMostOne DEF Inside
  <1>4. Inside(DeqClaimed) = IF {t \in Threads : pc[t] \in DeqClaimed} = {} THEN 0 ELSE 1
    BY <1>2, AtMostOne DEF Inside
  <1>5. QED  BY <1>3, <1>4

\* A goroutine inside a call is the only one there.
LEMMA InsideOf ==
    ASSUME OneOfEach, RolesInv, NEW t \in Threads
    PROVE  /\ pc[t] \in EnqClaimed => Inside(EnqClaimed) = 1
           /\ pc[t] \in EnqPcs \ EnqClaimed => Inside(EnqClaimed) = 0
           /\ pc[t] \in DeqClaimed => Inside(DeqClaimed) = 1
           /\ pc[t] \in DeqPcs \ DeqClaimed => Inside(DeqClaimed) = 0
  <1>1. \A u \in Threads : /\ pc[t] \in EnqPcs /\ pc[u] \in EnqClaimed => t = u
                           /\ pc[t] \in DeqPcs /\ pc[u] \in DeqClaimed => t = u
    BY DEF OneOfEach, RolesInv, EnqPcs, DeqPcs
  <1>2. QED  BY <1>1, InsideCounts

\* The values that are queued, and how they lie to the two positions.
LEMMA ExactShape ==
    ASSUME OneOfEach, SpscInv
    PROVE  /\ hist \in Seq(Values) /\ Len(hist) = enqueuePos
           /\ enqueuePos \in Nat /\ dequeuePos \in Nat /\ Taken \in Nat /\ Stored \in Nat
           /\ Taken <= dequeuePos /\ dequeuePos <= Stored /\ Stored <= enqueuePos
           /\ enqueuePos <= Taken + Capacity
           /\ Queued \in Seq(Values) /\ Len(Queued) = Stored - Taken
  <1> USE CapacityAssumption
  <1>1. /\ hist \in Seq(Values) /\ Len(hist) = enqueuePos /\ enqueuePos \in Nat /\ dequeuePos \in Nat
        /\ dequeuePos <= enqueuePos /\ enqueuePos <= dequeuePos + Capacity
    BY QueueShape DEF SpscInv
  <1>2. pos \in [Threads -> Nat]  BY DEF SpscInv, IInv, TypeInv, TypeOK
  <1>3. Stored \in Nat /\ dequeuePos <= Stored /\ Stored <= enqueuePos
    <2>1. CASE \E t \in Threads : pc[t] \in EnqClaimed
      <3>1. PICK t \in Threads : pc[t] \in EnqClaimed  BY <2>1
      <3>2. pos[t] \in Nat /\ dequeuePos <= pos[t] /\ pos[t] + 1 = enqueuePos
        BY <1>2, <3>1 DEF SpscInv, IInv, RingInv, ClaimedPositions, SoleInv
      <3>3. Inside(EnqClaimed) = 1  BY <3>1, InsideOf DEF SpscInv
      <3>4. QED  BY <1>1, <3>2, <3>3 DEF Stored
    <2>2. CASE ~\E t \in Threads : pc[t] \in EnqClaimed
      <3>1. Inside(EnqClaimed) = 0  BY <2>2, InsideCounts DEF SpscInv
      <3>2. QED  BY <1>1, <3>1 DEF Stored
    <2>3. QED  BY <2>1, <2>2
  <1>4. Taken \in Nat /\ Taken <= dequeuePos /\ enqueuePos <= Taken + Capacity
    <2>1. CASE \E t \in Threads : pc[t] \in DeqClaimed
      <3>1. PICK t \in Threads : pc[t] \in DeqClaimed  BY <2>1
      <3>2. pos[t] \in Nat /\ enqueuePos <= pos[t] + Capacity /\ pos[t] + 1 = dequeuePos
        BY <1>2, <3>1 DEF SpscInv, IInv, RingInv, ClaimedPositions, SoleInv
      <3>3. Inside(DeqClaimed) = 1  BY <3>1, InsideOf DEF SpscInv
      <3>4. QED  BY <1>1, <3>2, <3>3 DEF Taken
    <2>2. CASE ~\E t \in Threads : pc[t] \in DeqClaimed
      <3>1. Inside(DeqClaimed) = 0  BY <2>2, InsideCounts DEF SpscInv
      <3>2. QED  BY <1>1, <3>1 DEF Taken
    <2>3. QED  BY <2>1, <2>2
  <1>5. Queued \in Seq(Values) /\ Len(Queued) = Stored - Taken
    <2>1. ASSUME NEW h \in Seq(Values), NEW a \in Nat, NEW b \in Nat, a <= b, b <= Len(h)
          PROVE  SubSeq(h, a + 1, b) \in Seq(Values) /\ Len(SubSeq(h, a + 1, b)) = b - a
      BY <2>1
    <2>2. QED  BY <1>1, <1>3, <1>4, <2>1 DEF Queued
  <1>6. QED  BY <1>1, <1>3, <1>4, <1>5

\* Enqueue returns false only when Capacity values are queued.
LEMMA PutFailsWhenFull ==
    ASSUME OneOfEach, SpscInv, NEW t \in Threads, pc[t] = "e_loadSeq", seq[Cell(pos[t])] < pos[t]
    PROVE  Len(Queued) = Capacity
  <1> USE CapacityAssumption
  <1> DEFINE e == enqueuePos
             d == dequeuePos
  <1>1. /\ e \in Nat /\ d \in Nat /\ Taken \in Nat /\ Taken <= d /\ d <= Stored /\ Stored <= e
        /\ e <= Taken + Capacity /\ Len(Queued) = Stored - Taken
    BY ExactShape
  <1>2. pos[t] = e  BY DEF SpscInv, SoleInv
  <1>3. Stored = e
    <2>1. Inside(EnqClaimed) = 0  BY InsideOf DEF SpscInv, EnqPcs, EnqClaimed
    <2>2. QED  BY <1>1, <2>1 DEF Stored
  <1>4. CASE e = d + Capacity  BY <1>1, <1>3, <1>4
  <1>5. CASE e # d + Capacity
    <2>1. e \in e..(d + Capacity - 1)  BY <1>1, <1>5
    <2>2. seq[Cell(e)] # e  BY <1>1, <1>2
    <2>3. seq[Cell(e)] = e - Capacity + 1  BY <2>1, <2>2 DEF SpscInv, IInv, RingInv, FreeCells
    <2>4. PICK u \in Threads : pc[u] \in DeqClaimed /\ pos[u] = e - Capacity
      BY <2>1, <2>3 DEF SpscInv, OwnerInv, Unreturned, HasConsumer
    <2>5. pos[u] + 1 = d  BY <2>4 DEF SpscInv, SoleInv
    <2>6. Inside(DeqClaimed) = 1  BY <2>4, InsideOf DEF SpscInv
    <2>7. QED  BY <1>1, <1>3, <2>4, <2>5, <2>6 DEF Taken
  <1>6. QED  BY <1>4, <1>5

\* Dequeue returns false only when nothing is queued.
LEMMA TakeFailsWhenEmpty ==
    ASSUME OneOfEach, SpscInv, NEW t \in Threads, pc[t] = "d_loadSeq", seq[Cell(pos[t])] < pos[t] + 1
    PROVE  Queued = <<>>
  <1> DEFINE e == enqueuePos
             d == dequeuePos
  <1>1. /\ e \in Nat /\ d \in Nat /\ Taken \in Nat /\ Stored \in Nat /\ d <= Stored /\ Stored <= e
        /\ Queued \in Seq(Values) /\ Len(Queued) = Stored - Taken
    BY ExactShape
  <1>2. pos[t] = d  BY DEF SpscInv, SoleInv
  <1>3. Taken = d
    <2>1. Inside(DeqClaimed) = 0  BY InsideOf DEF SpscInv, DeqPcs, DeqClaimed
    <2>2. QED  BY <1>1, <2>1 DEF Taken
  <1>4. CASE e = d
    <2>1. Len(Queued) = 0  BY <1>1, <1>3, <1>4
    <2>2. QED  BY <1>1, <2>1
  <1>5. CASE e # d
    <2>1. d \in d..(e - 1)  BY <1>1, <1>5
    <2>2. seq[Cell(d)] # d + 1  BY <1>1, <1>2
    <2>3. seq[Cell(d)] = d  BY <2>1, <2>2 DEF SpscInv, IInv, RingInv, StoredCells
    <2>4. PICK u \in Threads : pc[u] \in EnqClaimed /\ pos[u] = d
      BY <2>1, <2>3 DEF SpscInv, OwnerInv, Unpublished, HasProducer
    <2>5. d + 1 = e  BY <2>4 DEF SpscInv, SoleInv
    <2>6. Inside(EnqClaimed) = 1  BY <2>4, InsideOf DEF SpscInv
    <2>7. Len(Queued) = 0  BY <1>1, <1>3, <2>5, <2>6 DEF Stored
    <2>8. QED  BY <1>1, <2>7
  <1>6. QED  BY <1>4, <1>5

\* The goroutines inside, when one of them moves.
LEMMA InsideMoves ==
    ASSUME TypeOK, NEW A, NEW t \in Threads, NEW to, pc' = [pc EXCEPT ![t] = to]
    PROVE  /\ Inside(A) \in Nat
           /\ (pc[t] \in A <=> to \in A) => Inside(A)' = Inside(A)
           /\ pc[t] \notin A /\ to \in A => Inside(A)' = Inside(A) + 1
           /\ pc[t] \in A /\ to \notin A => Inside(A)' = Inside(A) - 1
  <1>1. Inside(A) = Cardinality(At(A)) /\ Inside(A)' = Cardinality(At(A)')  BY DEF Inside, At
  <1>2. QED  BY <1>1, Moves

\* Winning the CAS of Enqueue puts nothing into the queue yet.
LEMMA ExactCasPuts ==
    ASSUME OneOfEach, SpscInv, NEW t \in Threads, EnqCasWins(t)
    PROVE  Queued' = Queued /\ arg[t] \in Values
  <1>1. /\ enqueuePos' = enqueuePos + 1 /\ dequeuePos' = dequeuePos /\ hist' = Append(hist, arg[t])
        /\ pc[t] = "e_cas" /\ pc' = [pc EXCEPT ![t] = "e_write"]
    BY DEF EnqCasWins, Goto
  <1>2. arg[t] \in Values  BY <1>1 DEF SpscInv, IInv, TypeInv, HasArgument, EnqCalling
  <1>3. TypeOK  BY DEF SpscInv, IInv, TypeInv
  <1>4. /\ Inside(EnqClaimed)' = Inside(EnqClaimed) + 1 /\ Inside(EnqClaimed) \in Nat
        /\ Inside(DeqClaimed)' = Inside(DeqClaimed)
    <2>1. "e_cas" \notin EnqClaimed /\ "e_write" \in EnqClaimed /\ "e_cas" \notin DeqClaimed /\ "e_write" \notin DeqClaimed
      BY DEF EnqClaimed, DeqClaimed
    <2>2. QED  BY <1>1, <1>3, InsideMoves, <2>1
  <1>5. /\ hist \in Seq(Values) /\ enqueuePos \in Nat /\ Taken \in Nat /\ Stored \in Nat
        /\ Taken <= Stored /\ Stored <= Len(hist)
    BY ExactShape
  <1>6. Taken' = Taken /\ Stored' = Stored  BY <1>1, <1>4, <1>5 DEF Taken, Stored
  <1>7. Queued' = SubSeq(Append(hist, arg[t]), Taken + 1, Stored)  BY <1>1, <1>6 DEF Queued
  <1>8. SubSeq(Append(hist, arg[t]), Taken + 1, Stored) = SubSeq(hist, Taken + 1, Stored)
    BY <1>2, <1>5, StretchStays
  <1>9. QED  BY <1>2, <1>7, <1>8 DEF Queued

\* Storing the sequence number puts the value into the queue.
LEMMA PublishPuts ==
    ASSUME OneOfEach, SpscInv, NEW t \in Threads, EnqPublish(t)
    PROVE  Len(Queued) < Capacity /\ Queued' = Append(Queued, arg[t])
  <1>1. UNCHANGED <<enqueuePos, dequeuePos, hist>> /\ pc[t] = "e_pub" /\ pc' = [pc EXCEPT ![t] = "e_len"]
    BY DEF EnqPublish, Goto
  <1>2. TypeOK  BY DEF SpscInv, IInv, TypeInv
  <1>3. /\ Inside(EnqClaimed)' = Inside(EnqClaimed) - 1 /\ Inside(EnqClaimed) = 1
        /\ Inside(DeqClaimed)' = Inside(DeqClaimed)
    <2>1. "e_pub" \in EnqClaimed /\ "e_len" \notin EnqClaimed /\ "e_pub" \notin DeqClaimed /\ "e_len" \notin DeqClaimed
      BY DEF EnqClaimed, DeqClaimed
    <2>2. QED  BY <1>1, <1>2, InsideMoves, InsideOf, <2>1 DEF SpscInv
  <1>4. /\ hist \in Seq(Values) /\ enqueuePos \in Nat /\ Len(hist) = enqueuePos /\ Taken \in Nat /\ Stored \in Nat
        /\ Taken <= Stored /\ enqueuePos <= Taken + Capacity /\ Len(Queued) = Stored - Taken
    BY ExactShape
  <1>5. Taken' = Taken /\ Stored' = Stored + 1 /\ Stored + 1 = enqueuePos  BY <1>1, <1>3, <1>4 DEF Taken, Stored
  <1>6. pos[t] + 1 = enqueuePos /\ hist[pos[t] + 1] = arg[t]
    BY <1>1 DEF SpscInv, SoleInv, IInv, DataInv, EnqClaimed
  <1>7. Queued' = SubSeq(hist, Taken + 1, Stored + 1)  BY <1>1, <1>5 DEF Queued
  <1>8. SubSeq(hist, Taken + 1, Stored + 1) = Append(SubSeq(hist, Taken + 1, Stored), hist[Stored + 1])
    BY <1>4, <1>5, StretchGrows
  <1>9. Queued' = Append(Queued, arg[t])  BY <1>5, <1>6, <1>7, <1>8 DEF Queued
  <1>10. Len(Queued) < Capacity  BY <1>4, <1>5, CapacityAssumption
  <1>11. QED  BY <1>9, <1>10

\* Winning the CAS of Dequeue takes nothing out of the queue yet.
LEMMA ExactCasTakes ==
    ASSUME OneOfEach, SpscInv, NEW t \in Threads, DeqCasWins(t) PROVE Queued' = Queued
  <1>1. /\ enqueuePos' = enqueuePos /\ dequeuePos' = dequeuePos + 1 /\ hist' = hist
        /\ pc[t] = "d_cas" /\ pc' = [pc EXCEPT ![t] = "d_read"]
    BY DEF DeqCasWins, Goto
  <1>2. TypeOK /\ dequeuePos \in Nat  BY DEF SpscInv, IInv, TypeInv, TypeOK
  <1>3. /\ Inside(DeqClaimed)' = Inside(DeqClaimed) + 1 /\ Inside(DeqClaimed) \in Nat
        /\ Inside(EnqClaimed)' = Inside(EnqClaimed)
    <2>1. "d_cas" \notin EnqClaimed /\ "d_read" \notin EnqClaimed /\ "d_cas" \notin DeqClaimed /\ "d_read" \in DeqClaimed
      BY DEF EnqClaimed, DeqClaimed
    <2>2. QED  BY <1>1, <1>2, InsideMoves, <2>1
  <1>4. Taken' = Taken /\ Stored' = Stored  BY <1>1, <1>2, <1>3 DEF Taken, Stored
  <1>5. QED  BY <1>1, <1>4 DEF Queued

\* Handing the cell back takes the oldest value.
LEMMA ReleaseTakes ==
    ASSUME OneOfEach, SpscInv, NEW t \in Threads, DeqRelease(t)
    PROVE  Queued # <<>> /\ Queued' = Tail(Queued) /\ Head(Queued) = ret[t]
  <1>1. UNCHANGED <<enqueuePos, dequeuePos, hist>> /\ pc[t] = "d_pub" /\ pc' = [pc EXCEPT ![t] = "d_len"]
    BY DEF DeqRelease, Goto
  <1>2. TypeOK  BY DEF SpscInv, IInv, TypeInv
  <1>3. /\ Inside(DeqClaimed)' = Inside(DeqClaimed) - 1 /\ Inside(DeqClaimed) = 1
        /\ Inside(EnqClaimed)' = Inside(EnqClaimed)
    <2>1. "d_pub" \notin EnqClaimed /\ "d_len" \notin EnqClaimed /\ "d_pub" \in DeqClaimed /\ "d_len" \notin DeqClaimed
      BY DEF EnqClaimed, DeqClaimed
    <2>2. QED  BY <1>1, <1>2, InsideMoves, InsideOf, <2>1 DEF SpscInv
  <1>4. /\ hist \in Seq(Values) /\ dequeuePos \in Nat /\ Taken \in Nat /\ Stored \in Nat
        /\ dequeuePos <= Stored /\ Stored <= Len(hist)
    BY ExactShape
  <1>5. Taken' = Taken + 1 /\ Stored' = Stored /\ Taken + 1 = dequeuePos  BY <1>1, <1>3, <1>4 DEF Taken, Stored
  <1>6. pos[t] + 1 = dequeuePos /\ ret[t] = hist[pos[t] + 1]
    BY <1>1 DEF SpscInv, SoleInv, IInv, DataInv, ReadsWhatWasPut, DeqClaimed
  <1>7. Queued' = SubSeq(hist, Taken + 1 + 1, Stored)  BY <1>1, <1>5 DEF Queued
  <1>8. /\ SubSeq(hist, Taken + 1, Stored) # <<>> /\ Head(SubSeq(hist, Taken + 1, Stored)) = hist[Taken + 1]
        /\ SubSeq(hist, Taken + 1 + 1, Stored) = Tail(SubSeq(hist, Taken + 1, Stored))
    BY <1>4, <1>5, StretchDrops
  <1>9. QED  BY <1>5, <1>6, <1>7, <1>8 DEF Queued

\* Every step of the ring is one of the exact queue, or none.
LEMMA StepImplementsExact ==
    ASSUME OneOfEach, SpscInv, [Next]_vars
    PROVE  [AtPublish!Next]_(AtPublish!vars)
  <1> USE DEF Goto, ring
  <1>a. /\ TypeOK /\ pc \in [Threads -> Pcs] /\ pos \in [Threads -> Nat]
        /\ arg \in [Threads -> Values \cup {Zero}] /\ ret \in [Threads -> Values \cup {Zero}]
    BY DEF SpscInv, IInv, TypeInv, TypeOK
  <1>b. ASSUME NEW t \in Threads PROVE CallsShown(t) /\ CallsShown(t)'  BY CallsByPlace
  \* A goroutine moves without a CAS, and neither into nor out of a claimed cell.
  <1>c. ASSUME NEW t \in Threads, NEW from, NEW to, Goto(t, from, to),
               UNCHANGED <<hist, enqueuePos, dequeuePos>>,
               from \in EnqClaimed <=> to \in EnqClaimed, from \in DeqClaimed <=> to \in DeqClaimed
        PROVE  Queued' = Queued
    <2>1. pc[t] = from /\ pc' = [pc EXCEPT ![t] = to]  BY <1>c
    <2>2. Inside(EnqClaimed)' = Inside(EnqClaimed) /\ Inside(DeqClaimed)' = Inside(DeqClaimed)
      BY <1>a, <1>c, <2>1, InsideMoves
    <2>3. QED  BY <1>c, <2>2 DEF Queued, Taken, Stored
  <1>d. ASSUME NEW t \in Threads, NEW from, NEW to, Goto(t, from, to),
               arg' = arg \/ \E x : arg' = [arg EXCEPT ![t] = x],
               ret' = ret \/ \E x : ret' = [ret EXCEPT ![t] = x]
        PROVE  OnlyCallsOf(t)
    <2> SUFFICES ASSUME NEW u \in Threads \ {t} PROVE Calls(u)' = Calls(u)  BY DEF OnlyCallsOf
    <2>1. pc'[u] = pc[u] /\ arg'[u] = arg[u] /\ ret'[u] = ret[u]  BY <1>a, <1>d
    <2>2. QED  BY <2>1 DEF Calls, CallOf
  <1>1. ASSUME NEW t \in Producers, CallEnqueue(t) PROVE AtPublish!Next
    <2>1. t \in Threads  BY DEF Threads
    <2>2. OnlyCallsOf(t) /\ Queued' = Queued
      BY <1>1, <1>c, <1>d, <2>1 DEF CallEnqueue, EnqClaimed, DeqClaimed
    <2>3. PICK v \in Values : arg' = [arg EXCEPT ![t] = v]  BY <1>1 DEF CallEnqueue
    <2>4. pc[t] = "idle" /\ pc'[t] = "e_loadPos" /\ arg'[t] = v
      BY <1>a, <1>1, <2>1, <2>3 DEF CallEnqueue
    <2>5. Calls(t) = [op |-> "none"] /\ Calls(t)' = [op |-> "enq", v |-> v]
      BY <1>b, <2>1, <2>4 DEF CallsShown, EnqCalling
    <2>6. QED  BY <2>1, <2>2, <2>5, ExactInvokes
  <1>2. ASSUME NEW t \in Consumers, CallDequeue(t) PROVE AtPublish!Next
    <2>1. t \in Threads  BY DEF Threads
    <2>2. OnlyCallsOf(t) /\ Queued' = Queued
      BY <1>2, <1>c, <1>d, <2>1 DEF CallDequeue, EnqClaimed, DeqClaimed
    <2>3. pc[t] = "idle" /\ pc'[t] = "d_loadPos"  BY <1>a, <1>2, <2>1 DEF CallDequeue
    <2>4. Calls(t) = [op |-> "none"] /\ Calls(t)' = [op |-> "deq"]
      BY <1>b, <2>1, <2>3 DEF CallsShown, DeqCalling
    <2>5. QED  BY <2>1, <2>2, <2>4, ExactInvokes
  \* A goroutine goes on with a call that has not taken effect.
  <1>3. ASSUME NEW t \in Threads, NEW from, NEW to, Goto(t, from, to), UNCHANGED arg, Queued' = Queued,
               \/ from \in EnqCalling \cup EnqClaimed /\ to \in EnqCalling \cup EnqClaimed
               \/ from \in DeqCalling \cup DeqClaimed /\ to \in DeqCalling \cup DeqClaimed,
               ret' = ret \/ \E x : ret' = [ret EXCEPT ![t] = x]
        PROVE  UNCHANGED AtPublish!vars
    <2>1. pc'[t] = to /\ pc[t] = from  BY <1>a, <1>3
    <2>2. CallsShown(t) /\ CallsShown(t)' /\ arg'[t] = arg[t]  BY <1>b, <1>3
    <2>3. Calls(t)' = Calls(t)  BY <1>3, <2>1, <2>2 DEF CallsShown
    <2>4. OnlyCallsOf(t)  BY <1>d, <1>3
    <2>5. QED  BY <1>3, <2>3, <2>4, ExactStutters
  \* Not at a CAS and not at the store of a sequence number.
  <1>4. ASSUME NEW t \in Threads, NEW from, NEW to, Goto(t, from, to),
               UNCHANGED <<hist, enqueuePos, dequeuePos, arg>>,
               \/ from \in EnqCalling /\ to \in EnqCalling
               \/ from \in DeqCalling /\ to \in DeqCalling
               \/ from \in EnqClaimed /\ to \in EnqClaimed
               \/ from \in DeqClaimed /\ to \in DeqClaimed,
               ret' = ret \/ \E x : ret' = [ret EXCEPT ![t] = x]
        PROVE  UNCHANGED AtPublish!vars
    <2>1. (from \in EnqClaimed <=> to \in EnqClaimed) /\ (from \in DeqClaimed <=> to \in DeqClaimed)
      BY <1>4 DEF EnqCalling, DeqCalling, EnqClaimed, DeqClaimed
    <2>2. Queued' = Queued  BY <1>c, <1>4, <2>1
    <2>3. QED  BY <1>3, <1>4, <2>2
  \* A call returns.
  <1>5. ASSUME NEW t \in Threads, NEW from \in {"e_len", "e_full", "d_len", "d_empty"},
               Return(t, from)
        PROVE  AtPublish!Next
    <2>1. pc'[t] = "idle" /\ pc[t] = from  BY <1>a, <1>5 DEF Return
    <2>2. Calls(t)' = [op |-> "none"] /\ Calls(t).op \in {"enqDone", "deqDone", "deqEmpty"}
      BY <1>b, <2>1 DEF CallsShown
    <2>3. from \notin EnqClaimed /\ from \notin DeqClaimed /\ "idle" \notin EnqClaimed /\ "idle" \notin DeqClaimed
      BY DEF EnqClaimed, DeqClaimed
    <2>4. OnlyCallsOf(t) /\ Queued' = Queued  BY <1>c, <1>d, <1>5, <2>3 DEF Return
    <2>5. QED  BY <2>2, <2>4, ExactReturns
  <1>6. ASSUME NEW t \in Threads, EnqueueStep(t) PROVE AtPublish!Next \/ UNCHANGED AtPublish!vars
    <2>0. /\ {"e_loadPos", "e_loadSeq", "e_cas"} = EnqCalling /\ {"e_write", "e_pub"} = EnqClaimed
          /\ "e_loadSeq" \notin EnqClaimed \cup DeqClaimed /\ "e_full" \notin EnqClaimed \cup DeqClaimed
      BY DEF EnqCalling, EnqClaimed, DeqClaimed
    <2>1. CASE EnqLoadPos(t)  BY <1>4, <2>0, <2>1 DEF EnqLoadPos
    <2>2. CASE EnqLoadSeq(t)
      <3>1. CASE Goto(t, "e_loadSeq", "e_cas") /\ UNCHANGED <<ring, pos, arg, ret>>
        BY <1>4, <2>0, <3>1
      <3>2. CASE Retry(t, "e_loadSeq", "e_loadPos")  BY <1>4, <2>0, <3>2 DEF Retry
      <3>3. CASE /\ seq[Cell(pos[t])] - pos[t] < 0
                 /\ Goto(t, "e_loadSeq", "e_full") /\ UNCHANGED <<ring, pos, arg, ret>>
        <4>1. pc[t] = "e_loadSeq" /\ pc'[t] = "e_full"  BY <1>a, <3>3
        <4>2. Calls(t) = [op |-> "enq", v |-> arg[t]] /\ Calls(t)' = [op |-> "enqDone", ok |-> FALSE]
          BY <1>b, <2>0, <4>1 DEF CallsShown
        <4>3. OnlyCallsOf(t) /\ Queued' = Queued  BY <1>c, <1>d, <2>0, <3>3
        <4>4. seq[Cell(pos[t])] \in Nat /\ pos[t] \in Nat
          BY CellType DEF SpscInv, IInv, TypeInv, TypeOK
        <4>5. seq[Cell(pos[t])] < pos[t]  BY <3>3, <4>4
        <4>6. Len(Queued) = Capacity  BY <4>1, <4>5, PutFailsWhenFull
        <4>7. QED  BY <4>2, <4>3, <4>6, ExactPutsFail
      <3>4. QED  BY <2>2, <3>1, <3>2, <3>3 DEF EnqLoadSeq
    <2>3. CASE EnqCasWins(t)
      <3>1. Queued' = Queued  BY <2>3, ExactCasPuts
      <3>2. Goto(t, "e_cas", "e_write") /\ UNCHANGED <<arg, ret>>  BY <2>3 DEF EnqCasWins
      <3>3. QED  BY <1>3, <2>0, <3>1, <3>2
    <2>4. CASE EnqCasFails(t)  BY <1>4, <2>0, <2>4 DEF EnqCasFails, Retry
    <2>5. CASE EnqWrite(t)  BY <1>4, <2>0, <2>5 DEF EnqWrite
    <2>6. CASE EnqPublish(t)
      <3>1. Len(Queued) < Capacity /\ Queued' = Append(Queued, arg[t])  BY <2>6, PublishPuts
      <3>2. pc[t] = "e_pub" /\ pc'[t] = "e_len" /\ OnlyCallsOf(t)  BY <1>a, <1>d, <2>6 DEF EnqPublish
      <3>3. Calls(t) = [op |-> "enq", v |-> arg[t]] /\ Calls(t)' = [op |-> "enqDone", ok |-> TRUE]
        BY <1>b, <2>0, <3>2 DEF CallsShown
      <3>4. QED  BY <3>1, <3>2, <3>3, ExactPuts
    <2>7. CASE EnqCount(t)  BY <1>5, <2>7 DEF EnqCount
    <2>8. CASE EnqReturnsFalse(t)  BY <1>5, <2>8 DEF EnqReturnsFalse
    <2>9. QED  BY <1>6, <2>1, <2>2, <2>3, <2>4, <2>5, <2>6, <2>7, <2>8 DEF EnqueueStep
  <1>7. ASSUME NEW t \in Threads, DequeueStep(t) PROVE AtPublish!Next \/ UNCHANGED AtPublish!vars
    <2>0. /\ {"d_loadPos", "d_loadSeq", "d_cas"} = DeqCalling /\ {"d_read", "d_zero", "d_pub"} = DeqClaimed
          /\ "d_loadSeq" \notin EnqClaimed \cup DeqClaimed /\ "d_empty" \notin EnqClaimed \cup DeqClaimed
      BY DEF DeqCalling, EnqClaimed, DeqClaimed
    <2>1. CASE DeqLoadPos(t)  BY <1>4, <2>0, <2>1 DEF DeqLoadPos
    <2>2. CASE DeqLoadSeq(t)
      <3>1. CASE Goto(t, "d_loadSeq", "d_cas") /\ UNCHANGED <<ring, pos, arg, ret>>
        BY <1>4, <2>0, <3>1
      <3>2. CASE Retry(t, "d_loadSeq", "d_loadPos")  BY <1>4, <2>0, <3>2 DEF Retry
      <3>3. CASE /\ seq[Cell(pos[t])] - (pos[t] + 1) < 0
                 /\ Goto(t, "d_loadSeq", "d_empty") /\ UNCHANGED <<ring, pos, arg, ret>>
        <4>1. pc[t] = "d_loadSeq" /\ pc'[t] = "d_empty"  BY <1>a, <3>3
        <4>2. Calls(t) = [op |-> "deq"] /\ Calls(t)' = [op |-> "deqEmpty"]
          BY <1>b, <2>0, <4>1 DEF CallsShown
        <4>3. OnlyCallsOf(t) /\ Queued' = Queued  BY <1>c, <1>d, <2>0, <3>3
        <4>4. seq[Cell(pos[t])] \in Nat /\ pos[t] \in Nat
          BY CellType DEF SpscInv, IInv, TypeInv, TypeOK
        <4>5. seq[Cell(pos[t])] < pos[t] + 1  BY <3>3, <4>4
        <4>6. Queued = <<>>  BY <4>1, <4>5, TakeFailsWhenEmpty
        <4>7. QED  BY <4>2, <4>3, <4>6, ExactTakesFail
      <3>4. QED  BY <2>2, <3>1, <3>2, <3>3 DEF DeqLoadSeq
    <2>3. CASE DeqCasWins(t)
      <3>1. Queued' = Queued  BY <2>3, ExactCasTakes
      <3>2. Goto(t, "d_cas", "d_read") /\ UNCHANGED <<arg, ret>>  BY <2>3 DEF DeqCasWins
      <3>3. QED  BY <1>3, <2>0, <3>1, <3>2
    <2>4. CASE DeqCasFails(t)  BY <1>4, <2>0, <2>4 DEF DeqCasFails, Retry
    <2>5. CASE DeqRead(t)  BY <1>4, <2>0, <2>5 DEF DeqRead
    <2>6. CASE DeqZero(t)  BY <1>4, <2>0, <2>6 DEF DeqZero
    <2>7. CASE DeqRelease(t)
      <3>1. Queued # <<>> /\ Queued' = Tail(Queued) /\ Head(Queued) = ret[t]  BY <2>7, ReleaseTakes
      <3>2. pc[t] = "d_pub" /\ pc'[t] = "d_len" /\ OnlyCallsOf(t) /\ ret' = ret
        BY <1>a, <1>d, <2>7 DEF DeqRelease
      <3>3. Calls(t) = [op |-> "deq"] /\ Calls(t)' = [op |-> "deqDone", v |-> ret[t]]
        BY <1>b, <2>0, <3>2 DEF CallsShown
      <3>4. QED  BY <3>1, <3>2, <3>3, ExactTakes
    <2>8. CASE DeqCount(t)  BY <1>5, <2>8 DEF DeqCount
    <2>9. CASE DeqReturnsFalse(t)  BY <1>5, <2>9 DEF DeqReturnsFalse
    <2>10. QED  BY <1>7, <2>1, <2>2, <2>3, <2>4, <2>5, <2>6, <2>7, <2>8, <2>9 DEF DequeueStep
  <1>8. CASE UNCHANGED vars
    BY <1>8 DEF vars, AtPublish!vars, CallOf, Inside
  <1>9. QED  BY <1>1, <1>2, <1>6, <1>7, <1>8 DEF Next, AllReturned

(***************************************************************************)
(* Used by one producer and one consumer, as each ring of runner.go is,    *)
(* Enqueue fails only when Capacity values are queued and Dequeue only     *)
(* when none is: each call takes effect when it stores the sequence number *)
(* of its cell, and the ring is then an atomic bounded queue.              *)
(***************************************************************************)
THEOREM RingIsExactQueue == ASSUME OneOfEach PROVE Spec => ExactlyAQueue
  <1>1. Init => AtPublish!Init /\ RolesInv /\ SoleInv
    <2> SUFFICES ASSUME Init PROVE AtPublish!Init /\ RolesInv /\ SoleInv  OBVIOUS
    <2>1. \A t \in Threads : pc[t] = "idle"  BY DEF Init
    <2>2. RolesInv /\ SoleInv
      BY <2>1 DEF RolesInv, SoleInv, EnqPcs, DeqPcs, EnqClaimed, DeqClaimed
    <2>3. SpscInv  BY <2>2, InitTypeInv, InitRingInv, InitDataInv, InitOwnerInv DEF IInv, SpscInv
    <2>4. Queued = <<>>
      <3>1. /\ enqueuePos = 0 /\ dequeuePos = 0 /\ Taken \in Nat /\ Stored \in Nat /\ Taken <= dequeuePos
            /\ Stored <= enqueuePos /\ Queued \in Seq(Values) /\ Len(Queued) = Stored - Taken
        BY <2>3, ExactShape DEF Init
      <3>2. Len(Queued) = 0  BY <3>1
      <3>3. QED  BY <3>1, <3>2
    <2>5. \A t \in Threads : Calls(t) = [op |-> "none"]  BY <2>1, CallsByPlace DEF CallsShown
    <2>6. AtPublish!Init  BY <2>4, <2>5 DEF AtPublish!Init, AtPublish!Idle, Calls, Queued, Taken, Stored
    <2>7. QED  BY <2>2, <2>6
  <1>2. Spec => []OwnerInv
    BY InitOwnerInv, NextOwnerInv, InvariantHolds, PTL DEF Spec
  <1>3. IInv /\ RolesInv /\ SoleInv /\ [Next]_vars => RolesInv' /\ SoleInv'
    BY NextRoles, NextSole DEF IInv, TypeInv
  <1>4. Spec => [](RolesInv /\ SoleInv)  BY <1>1, <1>3, InvariantHolds, PTL DEF Spec
  <1>5. IInv /\ OwnerInv /\ RolesInv /\ SoleInv /\ [Next]_vars => [AtPublish!Next]_(AtPublish!vars)
    BY StepImplementsExact DEF SpscInv
  <1>6. QED  BY <1>1, <1>2, <1>4, <1>5, InvariantHolds, PTL DEF Spec, ExactlyAQueue, AtPublish!Spec
==============================================================================
