---------------------------- MODULE BoundedQueue ----------------------------
(***************************************************************************)
(* What internal/queue promises its callers: a first-in first-out queue of *)
(* at most Capacity values on which every call takes effect at one instant *)
(* between its invocation and its return.                                  *)
(*                                                                         *)
(* A call that fails normally means "full" or "empty" exactly.  The lock-  *)
(* free ring cannot always keep that promise: with several producers or    *)
(* several consumers a call may also fail because another thread is half   *)
(* way through an operation.  Exact selects which of the two promises is   *)
(* meant.                                                                  *)
(***************************************************************************)
EXTENDS Integers, Sequences

CONSTANTS Threads,    \* the goroutines that use the queue
          Values,     \* what may be enqueued
          Capacity,   \* number of cells
          Exact       \* TRUE: a failed call means full / empty and nothing else

VARIABLES queue,      \* the values in the queue, oldest first
          call        \* what each thread is doing with the queue

vars == <<queue, call>>

Idle            == [op |-> "none"]
EnqCalled(v)    == [op |-> "enq", v |-> v]
EnqAnswered(ok) == [op |-> "enqDone", ok |-> ok]
DeqCalled       == [op |-> "deq"]
DeqEmpty        == [op |-> "deqEmpty"]
DeqAnswered(v)  == [op |-> "deqDone", v |-> v]

Init == /\ queue = <<>>
        /\ call = [t \in Threads |-> Idle]

Invoke(t) == /\ call[t] = Idle
             /\ \/ \E v \in Values : call' = [call EXCEPT ![t] = EnqCalled(v)]
                \/ call' = [call EXCEPT ![t] = DeqCalled]
             /\ UNCHANGED queue

\* Another thread's call has had its effect on the queue and has not returned.
HalfWay(t, answers) == ~Exact /\ \E u \in Threads \ {t} : call[u] \in answers

Put(t) == /\ call[t].op = "enq"
          /\ Len(queue) < Capacity
          /\ queue' = Append(queue, call[t].v)
          /\ call' = [call EXCEPT ![t] = EnqAnswered(TRUE)]

PutFails(t) == /\ call[t].op = "enq"
               /\ Len(queue) = Capacity \/ HalfWay(t, {DeqAnswered(v) : v \in Values})
               /\ call' = [call EXCEPT ![t] = EnqAnswered(FALSE)]
               /\ UNCHANGED queue

Take(t) == /\ call[t].op = "deq"
           /\ queue # <<>>
           /\ queue' = Tail(queue)
           /\ call' = [call EXCEPT ![t] = DeqAnswered(Head(queue))]

TakeFails(t) == /\ call[t].op = "deq"
                /\ queue = <<>> \/ HalfWay(t, {EnqAnswered(TRUE)})
                /\ call' = [call EXCEPT ![t] = DeqEmpty]
                /\ UNCHANGED queue

Return(t) == /\ call[t].op \in {"enqDone", "deqDone", "deqEmpty"}
             /\ call' = [call EXCEPT ![t] = Idle]
             /\ UNCHANGED queue

Next == \E t \in Threads : \/ Invoke(t) \/ Return(t)
                           \/ Put(t)    \/ PutFails(t)
                           \/ Take(t)   \/ TakeFails(t)

Spec == Init /\ [][Next]_vars
=============================================================================
