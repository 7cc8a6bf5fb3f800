------------------------------ MODULE Daemons ------------------------------
(***************************************************************************)
(* cmd/l2-ingress, l2-sequencer, l2-aggregator, proof-replayer and         *)
(* l1-cert-node: the pipeline as five processes.  Transactions come over a *)
(* stream; from the sequencer on every hop is a JSON POST that the caller  *)
(* waits for without a timeout and never repeats.                          *)
(*                                                                         *)
(* Transactions travel as the frames of module Frames, which decode to     *)
(* what was encoded: the messages here hold what is decoded.               *)
(*                                                                         *)
(* A connection may break at every hop, before the request arrives or      *)
(* while it is handled: the caller then goes on, and so does the handler.  *)
(* Every daemon keeps its state in memory and may be restarted.            *)
(***************************************************************************)
EXTENDS Integers, Sequences, FiniteSets, SequencesExt

CONSTANTS Stream,       \* the transactions that ingress writes, a sequence for every block
          Lanes,        \* of the sequencer and the aggregator
          Capacity,     \* of txCh; 131072 in the code
          Setups,       \* how the daemons may be started: [startBlock, badProofAt, proofSeed,
                        \* dataset], the flags of ingress and the replayer; laneIds, how many ids
                        \* a request's uint16 tells apart (65536 in the code); and two bounds:
                        \* maxFaults, broken connections, and maxRestarts, of any daemon
          MaxBlocks     \* bound: blocks that are sealed, in all runs of the sequencer

ASSUME DaemonsAssumption == Lanes \in Nat \ {0} /\ Capacity \in Nat /\ MaxBlocks \in Nat
ASSUME DaemonSetupsAssumption ==
    \A s \in Setups : s.laneIds \in Nat \ {0} /\ s.maxFaults \in Nat /\ s.maxRestarts \in Nat

VARIABLES ingress,    \* l2-ingress: [block, next], the transaction that it writes next
          txCh,       \* sequencer: the channel from the stream's reader
          dropped,    \* sequencer: transactions the reader had no room for
          seq,        \* sequencer: [run, pc, buffer, rr, currentBlock, laned, lane, failed]
          batches,    \* requests at the aggregator: [run, block, lane, txs, pc, ok]
          states,     \* aggregator: unfinished blocks
          commits,    \* requests at the replayer: [run, block, lane, txs, pc, ok]
          replayer,   \* [up, book]: is it running, and the blocks its proof book holds
          faults, restarts,
          args,       \* the setup
          sealed,     \* history: the transactions of every block sealed, by run and block
          written     \* history: how often ingress has written a transaction
VARIABLES blocks, blockLog, state, stateVersion, verifiedTx, answer  \* the L1 node

Txs == UNION {Range(Stream[b]) : b \in DOMAIN Stream}

L1 == INSTANCE L1CertNode WITH
    Accounts   <- UNION {{tx.sender, tx.receiver} : tx \in Txs},
    ProofSeed  <- "seed",
    Requests   <- {},
    MaxSubmits <- 0

l1vars == <<blocks, blockLog, state, stateVersion, verifiedTx, answer>>
source == <<ingress, written>>
vars   == <<source, txCh, dropped, seq, batches, states, commits, replayer, faults, restarts,
            args, sealed, l1vars>>

NewSequencer(run) == [run |-> run, pc |-> "select", buffer |-> <<>>, rr |-> 0, currentBlock |-> 0,
                      laned |-> <<>>, lane |-> 0, failed |-> {}]

Init == /\ args \in Setups
        /\ ingress = [block |-> args.startBlock, next |-> 1] /\ written = [tx \in Txs |-> 0]
        /\ txCh = <<>> /\ dropped = 0
        /\ seq = NewSequencer(0)
        /\ batches = {} /\ states = <<>> /\ commits = {}
        /\ replayer = [up |-> TRUE, book |-> DOMAIN args.dataset]
        /\ faults = 0 /\ restarts = 0
        /\ sealed = <<>>
        /\ L1!Init

Put(f, x, v) == [y \in DOMAIN f \cup {x} |-> IF y = x THEN v ELSE f[y]]

\* A connection breaks; a daemon that keeps its state in memory is restarted.
Fault   == faults < args.maxFaults /\ faults' = faults + 1
Restart == restarts < args.maxRestarts /\ restarts' = restarts + 1

-----------------------------------------------------------------------------
(* l2-ingress and the sequencer's readTxStream *)

\* A transaction that finds the channel full is dropped.
Arrives(tx) == IF Len(txCh) < Capacity
               THEN txCh' = Append(txCh, tx) /\ UNCHANGED dropped
               ELSE dropped' = dropped + 1 /\ UNCHANGED txCh

WriteTx ==
    /\ ingress.block \in DOMAIN Stream
    /\ LET tx == Stream[ingress.block][ingress.next] IN
       /\ written' = [written EXCEPT ![tx] = @ + 1]
       /\ Arrives(tx)
    /\ ingress' = IF ingress.next < Len(Stream[ingress.block]) THEN [ingress EXCEPT !.next = @ + 1]
                  ELSE [block |-> ingress.block + 1, next |-> 1]
    /\ UNCHANGED <<seq, batches, states, commits, replayer, faults, restarts, args, sealed, l1vars>>

\* Ingress ends when it cannot write.  It is started again with -start-block at the
\* block that it was writing, which repeats transactions, or at the next.
StartAgain == \E b \in {ingress.block, ingress.block + 1} : ingress' = [block |-> b, next |-> 1]

\* The stream breaks in a transaction: the reader gives up what it has of it.
StreamBreaks ==
    /\ ingress.block \in DOMAIN Stream /\ Fault
    /\ StartAgain
    /\ UNCHANGED <<written, txCh, dropped, seq, batches, states, commits, replayer, restarts,
                   args, sealed, l1vars>>

-----------------------------------------------------------------------------
(* l2-sequencer *)

Receive == /\ seq.pc = "select" /\ txCh # <<>>
           /\ txCh' = Tail(txCh)
           /\ seq' = [seq EXCEPT !.buffer = Append(@, Head(txCh))]
           /\ UNCHANGED <<args, source, replayer, dropped, batches, states, commits, faults, restarts, sealed, l1vars>>

\* Mutant: the last transaction of the buffer is left out.
LanedDropsLast(buffer, rr) ==
    [l \in 0..(Lanes - 1) |->
        LET own == {i \in 1..(Len(buffer) - 1) : (rr + i - 1) % Lanes = l}
        IN  [k \in 1..Cardinality(own) |-> buffer[CHOOSE i \in own : Cardinality({j \in own : j <= i}) = k]]]

\* Round robin over the lanes, going on from where the last block ended.
Laned(buffer, rr) ==
    [l \in 0..(Lanes - 1) |->
        LET own == {i \in DOMAIN buffer : (rr + i - 1) % Lanes = l}
        IN  [k \in 1..Cardinality(own) |-> buffer[CHOOSE i \in own : Cardinality({j \in own : j <= i}) = k]]]

\* The ticker: the buffer becomes a block, empty or not.
Seal ==
    /\ seq.pc = "select" /\ Cardinality(DOMAIN sealed) < MaxBlocks
    /\ seq' = [seq EXCEPT !.pc = "post", !.lane = 0, !.laned = Laned(seq.buffer, seq.rr),
                          !.rr = @ + Len(seq.buffer)]
    /\ sealed' = Put(sealed, <<seq.run, seq.currentBlock>>, seq.buffer)
    /\ UNCHANGED <<args, source, replayer, txCh, dropped, batches, states, commits, faults, restarts, l1vars>>

\* Mutant: a block with a failed lane is sent again as part of the next one.
NextLaneKeepsFailed(failed) ==
    IF seq.lane + 1 < Lanes
    THEN [seq EXCEPT !.pc = "post", !.lane = @ + 1, !.failed = @ \cup failed]
    ELSE [seq EXCEPT !.pc = "select", !.currentBlock = @ + 1, !.laned = <<>>, !.lane = 0,
                     !.buffer = IF failed = {} THEN <<>> ELSE @, !.failed = @ \cup failed]

\* postJSON has returned for this lane.
NextLane(failed) ==
    IF seq.lane + 1 < Lanes
    THEN [seq EXCEPT !.pc = "post", !.lane = @ + 1, !.failed = @ \cup failed]
    ELSE [seq EXCEPT !.pc = "select", !.currentBlock = @ + 1, !.buffer = <<>>, !.laned = <<>>,
                     !.lane = 0, !.failed = @ \cup failed]

Post ==
    /\ seq.pc = "post"
    /\ batches' = batches \cup {[run |-> seq.run, block |-> seq.currentBlock, lane |-> seq.lane,
                                 txs |-> seq.laned[seq.lane], pc |-> "arrived", ok |-> FALSE]}
    /\ seq' = [seq EXCEPT !.pc = "await"]
    /\ UNCHANGED <<args, source, replayer, txCh, dropped, states, commits, faults, restarts, sealed, l1vars>>

Awaited == CHOOSE b \in batches : /\ b.run = seq.run /\ b.block = seq.currentBlock
                                  /\ b.lane = seq.lane

Answered ==
    /\ seq.pc = "await" /\ Awaited.pc = "done"
    /\ seq' = NextLane(IF Awaited.ok THEN {} ELSE {seq.currentBlock})
    /\ UNCHANGED <<args, source, replayer, txCh, dropped, batches, states, commits, faults, restarts, sealed, l1vars>>

\* The request does not arrive, or its answer does not; it is not sent again.
PostFails ==
    /\ seq.pc \in {"post", "await"} /\ Fault
    /\ seq' = NextLane({seq.currentBlock})
    /\ UNCHANGED <<args, source, replayer, txCh, dropped, batches, states, commits, restarts, sealed, l1vars>>

-----------------------------------------------------------------------------
(* l2-aggregator *)

NewState == [lanes |-> {}, txs |-> <<>>]

\* The sequencer cuts its lane's number to a uint16.
LaneId(lane) == lane % args.laneIds

\* Mutant: transactions without an amount are kept.
AddLaneKeepsAll(st, b) == [lanes |-> st.lanes \cup {LaneId(b.lane)}, txs |-> st.txs \o b.txs]

\* The transactions of a payload that are not passed over.
ValidTxs(payload) ==
    LET kept[i \in 0..Len(payload)] ==
            IF i = 0 THEN <<>>
            ELSE IF payload[i].amount = 0 THEN kept[i - 1] ELSE Append(kept[i - 1], payload[i])
    IN  kept[Len(payload)]

AddLane(st, b) == [lanes |-> st.lanes \cup {LaneId(b.lane)}, txs |-> st.txs \o ValidTxs(b.txs)]

Replace(set, old, new) == (set \ {old}) \cup {new}

\* The handler's critical section: the last lane takes the block out of the map.
HandleBatch(b) ==
    /\ b.pc = "arrived"
    /\ LET st == AddLane(IF b.block \in DOMAIN states THEN states[b.block] ELSE NewState, b)
       IN  IF Cardinality(st.lanes) = Lanes
           THEN /\ states' = [x \in DOMAIN states \ {b.block} |-> states[x]]
                /\ batches' = Replace(batches, b, [b EXCEPT !.pc = "forward", !.txs = st.txs])
           ELSE /\ states' = Put(states, b.block, st)
                /\ batches' = Replace(batches, b, [b EXCEPT !.pc = "done", !.ok = TRUE])
    /\ UNCHANGED <<args, source, replayer, txCh, dropped, seq, commits, faults, restarts, sealed, l1vars>>

Forward(b) ==
    /\ b.pc = "forward" /\ replayer.up
    /\ commits' = commits \cup {[b EXCEPT !.pc = "arrived"]}
    /\ batches' = Replace(batches, b, [b EXCEPT !.pc = "await"])
    /\ UNCHANGED <<args, source, replayer, txCh, dropped, seq, states, faults, restarts, sealed, l1vars>>

\* Mutant: the answer is ok whatever the replayer says.
ForwardedAlwaysOk(b) ==
    /\ b.pc = "await"
    /\ \E c \in commits : /\ c.run = b.run /\ c.block = b.block /\ c.lane = b.lane /\ c.pc = "done"
                          /\ batches' = Replace(batches, b, [b EXCEPT !.pc = "done", !.ok = TRUE])
    /\ UNCHANGED <<args, source, replayer, txCh, dropped, seq, states, commits, faults, restarts, sealed, l1vars>>

Forwarded(b) ==
    /\ b.pc = "await"
    /\ \E c \in commits : /\ c.run = b.run /\ c.block = b.block /\ c.lane = b.lane /\ c.pc = "done"
                          /\ batches' = Replace(batches, b, [b EXCEPT !.pc = "done", !.ok = c.ok])
    /\ UNCHANGED <<args, source, replayer, txCh, dropped, seq, states, commits, faults, restarts, sealed, l1vars>>

\* 502: the block is out of the map and is not forwarded again.
ForwardFails(b) ==
    /\ b.pc \in {"forward", "await"}
    /\ Fault \/ (b.pc = "forward" /\ ~replayer.up /\ UNCHANGED faults)
    /\ batches' = Replace(batches, b, [b EXCEPT !.pc = "done"])
    /\ UNCHANGED <<args, source, replayer, txCh, dropped, seq, states, commits, restarts, sealed, l1vars>>

-----------------------------------------------------------------------------
(* proof-replayer and l1-cert-node *)

\* Flipping a byte twice gives it back; an empty proof has none.
Flipped(proof) == IF proof = <<>> THEN proof
                  ELSE IF proof[1] = "flipped" THEN proof[2] ELSE <<"flipped", proof>>

BookProof(block) == IF block \in DOMAIN args.dataset THEN args.dataset[block]
                    ELSE L1!GenerateProofBytes(args.proofSeed, block)

\* The book's bytes for the block, with one byte flipped by fault injection.
ReplayedProof(block) ==
    IF args.badProofAt # 0 /\ args.badProofAt = block THEN Flipped(BookProof(block))
                                                     ELSE BookProof(block)

\* Not the proof that the L1 node expects.
Spoilt(block) == ReplayedProof(block) # L1!GenerateProofBytes("seed", block)

SubmitToL1(c) ==
    LET hash == L1!CommitmentFromTxs(c.block, c.txs) IN
    L1!SubmitCertifiedBlock(
        [phase |-> "certification", block |-> c.block, commitment |-> hash,
         proof |-> L1!BuildProofRecord(c.block, hash, ReplayedProof(c.block)),
         txCount |-> Len(c.txs), txs |-> c.txs])

\* EnsureBlock has put the proof into the book.
Booked(c) == replayer' = [replayer EXCEPT !.book = @ \cup {c.block}]

\* The L1 node answers 200 whether it accepts the block or not.
Submit(c) ==
    /\ c.pc = "arrived"
    /\ SubmitToL1(c)
    /\ Booked(c)
    /\ commits' = Replace(commits, c, [c EXCEPT !.pc = "done", !.ok = TRUE])
    /\ UNCHANGED <<args, source, txCh, dropped, seq, batches, states, faults, restarts, sealed>>

\* 502: the submission does not reach the L1 node, or its answer is lost.
SubmitFails(c) ==
    /\ c.pc = "arrived" /\ Fault
    /\ SubmitToL1(c) \/ UNCHANGED l1vars
    /\ Booked(c)
    /\ commits' = Replace(commits, c, [c EXCEPT !.pc = "done"])
    /\ UNCHANGED <<args, source, txCh, dropped, seq, batches, states, restarts, sealed>>

\* The requests that the replayer was handling fail, and what was theirs at the L1
\* node may have been done; the book is read again, and goes on as blocks arrive.
ReplayerEnds(up) ==
    /\ \/ UNCHANGED l1vars
       \/ \E c \in commits : c.pc = "arrived" /\ SubmitToL1(c)
    /\ commits' = {[c EXCEPT !.pc = "done"] : c \in commits}
    /\ replayer' = [up |-> up, book |-> DOMAIN args.dataset]

\* Two requests write to the proof book's map, which has no lock, at once: the Go
\* runtime may notice and end the process.  (If it does not, both are in the map.)
BookRace ==
    /\ \E c, d \in commits : /\ c # d /\ c.pc = "arrived" /\ d.pc = "arrived"
                             /\ ~({c.block, d.block} \subseteq replayer.book)
    /\ ReplayerEnds(FALSE)
    /\ UNCHANGED <<args, source, txCh, dropped, seq, batches, states, faults, restarts, sealed>>

ReplayerComesBack ==
    /\ ~replayer.up
    /\ replayer' = [replayer EXCEPT !.up = TRUE]
    /\ UNCHANGED <<args, source, txCh, dropped, seq, batches, states, commits, faults, restarts,
                   sealed, l1vars>>

-----------------------------------------------------------------------------
(* Restarts *)

\* A sequencer starts at the same block again; its requests are handled on.  Its
\* stream breaks, and ingress has to be started again.
RestartSequencer ==
    /\ Restart
    /\ seq' = NewSequencer(seq.run + 1)
    /\ txCh' = <<>>
    /\ StartAgain
    /\ UNCHANGED <<args, written, dropped, batches, states, commits, replayer, faults, sealed, l1vars>>

\* Requests that the aggregator was handling fail.
RestartAggregator ==
    /\ Restart
    /\ states' = <<>>
    /\ batches' = {[b EXCEPT !.pc = "done"] : b \in batches}
    /\ UNCHANGED <<args, source, replayer, txCh, dropped, seq, commits, faults, sealed, l1vars>>

RestartReplayer ==
    /\ Restart
    /\ ReplayerEnds(TRUE)
    /\ UNCHANGED <<args, source, txCh, dropped, seq, batches, states, faults, sealed>>

\* The L1 node has forgotten the blocks and the balances.  The submissions that it
\* was sent fail; those still to be sent do not.
RestartL1 ==
    /\ Restart
    /\ \E cut \in SUBSET {c \in commits : c.pc = "arrived"} :
           /\ commits' = (commits \ cut) \cup {[c EXCEPT !.pc = "done"] : c \in cut}
           /\ replayer' = [replayer EXCEPT !.book = @ \cup {c.block : c \in cut}]
    /\ blocks' = <<>> /\ blockLog' = <<>> /\ state' = [a \in DOMAIN state |-> 0]
    /\ stateVersion' = 0 /\ verifiedTx' = 0 /\ answer' = L1!NoAnswer
    /\ UNCHANGED <<args, source, txCh, dropped, seq, batches, states, faults, sealed>>

Sequencer == WriteTx \/ Receive \/ Post \/ Answered

Handlers == \/ \E b \in batches : HandleBatch(b) \/ Forward(b) \/ Forwarded(b)
            \/ \E c \in commits : Submit(c)

Next == \/ Sequencer \/ Seal \/ PostFails \/ Handlers
        \/ \E b \in batches : ForwardFails(b)
        \/ \E c \in commits : SubmitFails(c)
        \/ StreamBreaks \/ BookRace \/ ReplayerComesBack
        \/ RestartSequencer \/ RestartAggregator \/ RestartReplayer \/ RestartL1

Spec == Init /\ [][Next]_vars

\* The daemons run on; nothing makes a connection break.
FairSpec == Spec /\ WF_vars(Post) /\ WF_vars(Answered) /\ WF_vars(Handlers)

-----------------------------------------------------------------------------
(* Properties *)

\* The payload that the L1 node has accepted for block b.
Certified(b) == blocks[b].commitment[2]

Count(txs, tx) == Cardinality({i \in DOMAIN txs : txs[i] = tx})

(***************************************************************************)
(* A certified block is one that the sequencer sealed, whole: its valid    *)
(* transactions, each as often as it was sealed, in whatever order its     *)
(* lanes were handled, whichever requests and answers were lost, and       *)
(* whatever the aggregator, the replayer or the L1 node forgot.  (A second *)
(* run of the sequencer uses the same block numbers.)                      *)
(***************************************************************************)
CertifiedWhole == seq.run = 0 => \A b \in DOMAIN blocks :
    /\ <<0, b>> \in DOMAIN sealed
    /\ \A tx \in Txs : Count(Certified(b), tx) = IF tx.amount = 0 THEN 0 ELSE Count(sealed[<<0, b>>], tx)

\* The L1 node has logged block b, and accepted it unless its proof was spoilt.
Submitted(b) == \E i \in DOMAIN blockLog :
    blockLog[i].block = b /\ (blockLog[i].finalized \/ Spoilt(b))

\* Every lane is answered with ok, and the aggregator keeps every block that it was sent
\* until it is restarted.
NeverSubmitted ==
    /\ commits = {} /\ blockLog = <<>>
    /\ restarts = 0 => \A b \in batches : b.pc = "arrived" \/ (b.ok /\ b.block \in DOMAIN states)

(***************************************************************************)
(* If the aggregator has answered every lane of a block with ok and no     *)
(* daemon was restarted, the L1 node has logged the block, even if another *)
(* block's request has killed the replayer; there it is accepted unless    *)
(* its proof was spoilt.  But with more lanes than ids, two lanes of a     *)
(* block count as one: every lane is ok, and no block is ever submitted.   *)
(***************************************************************************)
OkMeansSubmitted ==
    IF Lanes <= args.laneIds
    THEN restarts = 0 => \A b \in 0..(seq.currentBlock - 1) : b \notin seq.failed => Submitted(b)
    ELSE NeverSubmitted

(***************************************************************************)
(* No transaction is applied more often than ingress has written it,       *)
(* whatever is lost, whichever daemon forgets its state or numbers its     *)
(* blocks from the start again, and wherever the stream has broken.        *)
(***************************************************************************)
EachTxOnce == \A tx \in Txs :
    SumFunctionOnSet([b \in DOMAIN blocks |-> Count(Certified(b), tx)], DOMAIN blocks) <= written[tx]

(***************************************************************************)
(* As long as nothing fails and the lanes have an id each, every sealed    *)
(* block is certified.                                                     *)
(***************************************************************************)
SealedIsCertified ==
    \A b \in 0..(MaxBlocks - 1) :
        (Lanes <= args.laneIds /\ <<0, b>> \in DOMAIN sealed)
            ~> (faults + restarts > 0 \/ b \in DOMAIN blocks \/ Spoilt(b))
=============================================================================
