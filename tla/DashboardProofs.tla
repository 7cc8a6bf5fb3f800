-------------------------- MODULE DashboardProofs --------------------------
(***************************************************************************)
(* Proofs about the dashboard, for any options: what the page shows of a   *)
(* submission is what was certified.                                       *)
(***************************************************************************)
EXTENDS Dashboard, SumTheorems, SequenceTheorems

-----------------------------------------------------------------------------
(* The inductive invariant *)

\* The fields of the snapshot.
Fields == {"phase", "done", "error", "setupDone", "total", "generated", "replayLoaded",
           "verifiedTxTotal", "bundlePath", "enabled", "totalCalls", "sentCalls", "confirmedCalls",
           "failedCalls", "verifiedTxPerCall", "verifiedTxConfirmed", "transactions"}

\* Where the workflow is before anything is submitted, while it submits, and after.
Before  == {"start", "export", "load", "ready", "submit"}
Sending == {"build", "send", "note"}
After   == {"finish", "error", "end"}

\* The transactions of the submission, one for each verifier address.
Calls == 1..Len(opts.addresses)

\* The types of the variables; the snapshot's lists and the file have invariants of their own.
TypeInv ==
    /\ opts \in Options
    /\ DOMAIN snapshot = Fields
    /\ snapshot.totalCalls \in Nat /\ snapshot.sentCalls \in Nat /\ snapshot.confirmedCalls \in Nat
    /\ snapshot.failedCalls \in Nat /\ snapshot.verifiedTxPerCall \in Int
    /\ file.verifiedTxTotal \in Int
    /\ DOMAIN wf = {"pc", "i", "confirmedVerified", "firstErr"}
    /\ wf.pc \in Before \cup Sending \cup {"collect"} \cup After
    /\ wf.i \in Nat \ {0} /\ wf.firstErr \in BOOLEAN /\ snapshot.enabled \in BOOLEAN
    /\ DOMAIN call = Calls /\ told \subseteq Calls
    /\ \A k \in Calls : call[k] \in {"none", "sent", "certified", "reverted"}

\* Before the last transaction is sent, nothing has come back.
Quiet == /\ told = {} /\ resultsCh = <<>> /\ wf.firstErr = FALSE
         /\ snapshot.confirmedCalls = 0 /\ snapshot.failedCalls = 0

\* Transactions up to number k have been sent, and m of them are shown.
SentUpTo(k, m) == (\A j \in Calls : call[j] = "none" <=> j > k) /\ snapshot.sentCalls = m

\* The submission is shown as what it is.
Configured == /\ snapshot.enabled /\ snapshot.totalCalls = Len(opts.addresses)
              /\ snapshot.verifiedTxPerCall = file.verifiedTxTotal

\* Which transactions are sent and shown at each place of the workflow.
PlaceInv ==
    /\ wf.pc \in Before \cup Sending => Quiet
    /\ wf.pc \in Before => /\ SentUpTo(0, 0) /\ ~snapshot.enabled
                           /\ snapshot.totalCalls = 0 /\ snapshot.verifiedTxPerCall = 0
    /\ wf.pc = "submit" => Len(opts.addresses) > 0
    /\ wf.pc \in Sending \cup {"collect"} => Configured
    /\ wf.pc \in Sending => wf.i \in Calls
    /\ wf.pc = "build" => SentUpTo(0, 0)
    /\ wf.pc = "send"  => SentUpTo(wf.i - 1, wf.i - 1)
    /\ wf.pc = "note"  => SentUpTo(wf.i, wf.i - 1)
    /\ wf.pc = "collect" =>
         /\ SentUpTo(Len(opts.addresses), Len(opts.addresses)) /\ wf.i <= Len(opts.addresses) + 1
         /\ snapshot.confirmedCalls + snapshot.failedCalls = wf.i - 1
         /\ snapshot.failedCalls > 0 => wf.firstErr

\* The results on their way, at most one of each job, and the good ones among them.
OkJobs == {resultsCh[i].job : i \in {j \in DOMAIN resultsCh : resultsCh[j].ok}}

\* The certified transactions whose receipt goroutine has put its result into the channel.
CertifiedTold == {k \in told : call[k] = "certified"}

\* A result in the channel is its job's only one, and good only if the transaction is certified.
ChannelInv ==
    /\ IsList(resultsCh)
    /\ \A i \in DOMAIN resultsCh : /\ resultsCh[i].job \in told /\ resultsCh[i].ok \in BOOLEAN
                                   /\ resultsCh[i].ok => call[resultsCh[i].job] = "certified"
    /\ \A i, j \in DOMAIN resultsCh : resultsCh[i].job = resultsCh[j].job => i = j
    /\ snapshot.confirmedCalls + Cardinality(OkJobs) <= Cardinality(CertifiedTold)

\* What the page counts as verified is what its confirmed calls stand for.
SumInv ==
    /\ wf.confirmedVerified = snapshot.confirmedCalls * snapshot.verifiedTxPerCall
    /\ snapshot.verifiedTxConfirmed = wf.confirmedVerified
    /\ snapshot.confirmedCalls + snapshot.failedCalls <= snapshot.sentCalls

\* All was submitted and confirmed, or nothing was to be submitted.
AllDone == IF snapshot.enabled
           THEN snapshot.totalCalls = Len(opts.addresses) /\ snapshot.confirmedCalls = Len(opts.addresses)
           ELSE SentUpTo(0, 0) /\ snapshot.totalCalls = 0 /\ snapshot.confirmedCalls = 0

\* At the end without an error everything is confirmed; a page that says done says it truly.
OutcomeInv ==
    /\ wf.pc = "finish" => AllDone
    /\ snapshot.phase = "completed" => wf.pc = "end" /\ snapshot.error = "" /\ snapshot.done /\ AllDone

\* The counters of the page follow from the place of the workflow and the results.
IInv == TypeInv /\ PlaceInv /\ ChannelInv /\ SumInv /\ OutcomeInv

-----------------------------------------------------------------------------
(* Lists *)

\* A sequence is a list.
LEMMA SeqIsList == ASSUME NEW S, NEW q \in Seq(S) PROVE IsList(q)
  <1>1. Len(q) \in Nat /\ DOMAIN q = 1..Len(q)  OBVIOUS
  <1> DEFINE T == {q[k] : k \in DOMAIN q}
  <1>2. q \in [1..Len(q) -> S]  OBVIOUS
  <1>3. q \in [1..Len(q) -> T]  BY <1>1, <1>2
  <1>4. q \in Seq(T)
    <2> HIDE DEF T
    <2>1. QED  BY <1>1, <1>3
  <1>5. QED  BY <1>4 DEF IsList

\* The indices of a list.
LEMMA ListFacts == ASSUME NEW q, IsList(q) PROVE Len(q) \in Nat /\ DOMAIN q = 1..Len(q)
  <1>1. PICK S : q \in Seq(S)  BY DEF IsList
  <1>2. QED  BY <1>1

\* What appending does.
LEMMA ListAppend ==
    ASSUME NEW q, IsList(q), NEW x
    PROVE  /\ IsList(Append(q, x)) /\ Len(Append(q, x)) = Len(q) + 1
           /\ DOMAIN Append(q, x) = 1..(Len(q) + 1)
           /\ \A i \in 1..Len(q) : Append(q, x)[i] = q[i]
           /\ Append(q, x)[Len(q) + 1] = x
  <1>1. PICK S : q \in Seq(S)  BY DEF IsList
  <1>2. q \in Seq(S \cup {x})  BY <1>1
  <1>3. PICK r : r = Append(q, x)  OBVIOUS
  <1>4. r \in Seq(S \cup {x})  BY <1>2, <1>3
  <1>5. IsList(r)  BY <1>4, SeqIsList
  <1>6. /\ Len(Append(q, x)) = Len(q) + 1 /\ DOMAIN Append(q, x) = 1..(Len(q) + 1)
        /\ \A i \in 1..Len(q) : Append(q, x)[i] = q[i]
        /\ Append(q, x)[Len(q) + 1] = x
    BY <1>2
  <1>7. QED  BY <1>3, <1>5, <1>6

\* What a receive leaves.
LEMMA ListTail ==
    ASSUME NEW q, IsList(q), q # <<>>
    PROVE  /\ IsList(Tail(q)) /\ Len(q) \in Nat \ {0} /\ Head(q) = q[1]
           /\ DOMAIN q = 1..Len(q) /\ DOMAIN Tail(q) = 1..(Len(q) - 1)
           /\ \A i \in 1..(Len(q) - 1) : Tail(q)[i] = q[i + 1]
  <1>1. PICK S : q \in Seq(S)  BY DEF IsList
  <1>2. PICK r : r = Tail(q)  OBVIOUS
  <1>3. r \in Seq(S)  BY <1>1, <1>2
  <1>4. IsList(r)  BY <1>3, SeqIsList
  <1>5. /\ Len(q) \in Nat \ {0} /\ Head(q) = q[1]
        /\ DOMAIN q = 1..Len(q) /\ DOMAIN Tail(q) = 1..(Len(q) - 1)
        /\ \A i \in 1..(Len(q) - 1) : Tail(q)[i] = q[i + 1]
    BY <1>1
  <1>6. QED  BY <1>2, <1>4, <1>5

\* r is one list after the other.
Joins(r, p, q) == r = p \o q

\* The elements of c are those of a, then those of b.
Parts(c, a, b) == /\ Len(c) = Len(a) + Len(b)
                  /\ \A k \in 1..Len(a) : c[k] = a[k]
                  /\ \A k \in 1..Len(b) : c[Len(a) + k] = b[k]

\* What concatenation does.
LEMMA ListConcat ==
    ASSUME NEW a, NEW b, NEW c, Joins(c, a, b), IsList(a), IsList(b)
    PROVE  IsList(c) /\ Parts(c, a, b)
  <1>1. c = a \o b  BY DEF Joins
  <1>2. PICK S : a \in Seq(S)  BY DEF IsList
  <1>3. PICK T : b \in Seq(T)  BY DEF IsList
  <1>4. a \in Seq(S \cup T) /\ b \in Seq(S \cup T)  BY <1>2, <1>3
  <1>5. c \in Seq(S \cup T)  BY <1>1, <1>4
  <1>6. Len(a \o b) = Len(a) + Len(b)  BY <1>4
  <1>7. \A k \in 1..Len(a) : (a \o b)[k] = a[k]  BY <1>4
  <1>8. \A k \in 1..Len(b) : (a \o b)[Len(a) + k] = b[k]  BY <1>4
  <1>9. IsList(c)  BY <1>5, SeqIsList, Zenon
  <1>10. QED  BY <1>1, <1>6, <1>7, <1>8, <1>9, Zenon DEF Parts

\* There are as many calls as addresses.
LEMMA CallsCounted == ASSUME TypeInv PROVE /\ Len(opts.addresses) \in Nat /\ IsFiniteSet(Calls)
                                           /\ Cardinality(Calls) = Len(opts.addresses)
                                           /\ DOMAIN opts.addresses = Calls
  <1>1. IsList(opts.addresses)  BY OptionsAssumption DEF TypeInv
  <1>2. Len(opts.addresses) \in Nat /\ DOMAIN opts.addresses = Calls  BY <1>1, ListFacts DEF Calls
  <1>3. QED  BY <1>2, FS_Interval DEF Calls

-----------------------------------------------------------------------------
(* Steps *)

\* What the page shows of the submission.
Shown == <<snapshot.enabled, snapshot.totalCalls, snapshot.sentCalls, snapshot.confirmedCalls,
           snapshot.failedCalls, snapshot.verifiedTxPerCall, snapshot.verifiedTxConfirmed,
           snapshot.transactions>>

\* The exporter's events.
EventNames == {"setup_started", "setup_completed", "proof_started", "proof_completed", "bundle_completed"}

\* The i-th event of an exporter that makes L proofs.
IsEvent(e, L, i, batchSize) ==
    /\ e.event \in EventNames
    /\ i = 1 <=> e.event = "setup_started"
    /\ i = 2 <=> e.event = "setup_completed"
    /\ i = 2 * L + 3 <=> e.event = "bundle_completed"
    /\ e.event = "bundle_completed" => e.verifiedTxTotal = batchSize * L

\* Two elements, n elements and one, in a row.
ThreePartsOf(all, p, q, r, n) ==
    /\ Len(all) = n + 3 /\ all[1] = p[1] /\ all[2] = p[2] /\ all[n + 3] = r[1]
    /\ \A k \in 3..(n + 2) : all[k] = q[k - 2]

\* They come from two concatenations.
LEMMA ThreeParts ==
    ASSUME NEW p, NEW q, NEW r, NEW s, NEW all, Joins(s, p, q), Joins(all, s, r),
           IsList(p), IsList(q), IsList(r), NEW n \in Nat, Len(p) = 2, Len(q) = n, Len(r) = 1
    PROVE  ThreePartsOf(all, p, q, r, n)
  <1>1. IsList(s) /\ Parts(s, p, q)  BY ListConcat, Zenon
  <1>2. Parts(all, s, r)  BY <1>1, ListConcat, Zenon
  <1>3. Len(s) = n + 2 /\ Len(all) = n + 3  BY <1>1, <1>2 DEF Parts
  <1>4. s[1] = p[1] /\ s[2] = p[2] /\ \A k \in 1..n : s[2 + k] = q[k]  BY <1>1 DEF Parts
  <1>5. all[(n + 2) + 1] = r[1] /\ \A k \in 1..(n + 2) : all[k] = s[k]  BY <1>2, <1>3 DEF Parts
  <1>6. ASSUME NEW k \in 3..(n + 2) PROVE all[k] = q[k - 2]
    <2>1. k - 2 \in 1..n /\ 2 + (k - 2) = k /\ k \in 1..(n + 2)  OBVIOUS
    <2>2. QED  BY <1>4, <1>5, <2>1
  <1>7. QED  BY <1>3, <1>4, <1>5, <1>6 DEF ThreePartsOf

\* They begin with the setup and end with the bundle.
LEMMA EventsAre ==
    ASSUME NEW L \in Nat, NEW batchSize \in Nat
    PROVE  /\ Len(ExportEvents(batchSize, L)) = 2 * L + 3
           /\ \A i \in 1..(2 * L + 3) : IsEvent(ExportEvents(batchSize, L)[i], L, i, batchSize)
  <1> DEFINE first  == [event |-> "setup_started"]
             second == [event |-> "setup_completed"]
             proof(k) == IF k % 2 = 1
                         THEN [event |-> "proof_started", total |-> L]
                         ELSE [event |-> "proof_completed", current |-> k \div 2, total |-> L,
                               generatedTxTotal |-> batchSize * (k \div 2)]
             last == [event |-> "bundle_completed", verifiedTxTotal |-> batchSize * L]
  <1>1. /\ first.event = "setup_started" /\ second.event = "setup_completed"
        /\ last.event = "bundle_completed" /\ last.verifiedTxTotal = batchSize * L
        /\ \A k \in 1..(2 * L) : proof(k).event \in {"proof_started", "proof_completed"}
    OBVIOUS
  <1>2. ExportEvents(batchSize, L) = (<<first, second>> \o [k \in 1..(2 * L) |-> proof(k)]) \o <<last>>
    BY DEF ExportEvents
  <1> HIDE DEF first, second, proof, last
  <1>3. PICK p : p = <<first, second>>  OBVIOUS
  <1>4. p[1] = first /\ p[2] = second /\ Len(p) = 2 /\ p \in Seq({first, second})  BY <1>3
  <1>5. PICK q : q = [k \in 1..(2 * L) |-> proof(k)]  OBVIOUS
  <1>6. q \in [1..(2 * L) -> {proof(k) : k \in 1..(2 * L)}] /\ \A k \in 1..(2 * L) : q[k] = proof(k)
    BY <1>5
  <1>7. PICK S : q \in [1..(2 * L) -> S]  BY <1>6
  <1>8. 2 * L \in Nat /\ q \in Seq(S) /\ Len(q) = 2 * L  BY <1>7
  <1>9. PICK r : r = <<last>>  OBVIOUS
  <1>10. r[1] = last /\ Len(r) = 1 /\ r \in Seq({last})  BY <1>9
  <1>11. IsList(p) /\ IsList(q) /\ IsList(r)  BY <1>4, <1>8, <1>10, SeqIsList, Zenon
  <1>12. PICK s : Joins(s, p, q)  BY DEF Joins
  <1>13. PICK all : Joins(all, s, r)  BY DEF Joins
  <1>14. ExportEvents(batchSize, L) = all  BY <1>2, <1>3, <1>5, <1>9, <1>12, <1>13, Zenon DEF Joins
  <1>15. /\ Len(all) = 2 * L + 3 /\ all[1] = p[1] /\ all[2] = p[2] /\ all[2 * L + 3] = r[1]
         /\ \A k \in 3..(2 * L + 2) : all[k] = q[k - 2]
    <2>1. ThreePartsOf(all, p, q, r, 2 * L)
      BY <1>4, <1>8, <1>10, <1>11, <1>12, <1>13, ThreeParts, Zenon
    <2>2. QED  BY <1>8, <2>1 DEF ThreePartsOf
  <1>16. ASSUME NEW i \in 1..(2 * L + 3) PROVE IsEvent(all[i], L, i, batchSize)
    <2>1. CASE i \in {1, 2}  BY <1>1, <1>4, <1>15, <2>1 DEF IsEvent, EventNames
    <2>2. CASE i = 2 * L + 3  BY <1>1, <1>10, <1>15, <2>2 DEF IsEvent, EventNames
    <2>3. CASE i \in 3..(2 * L + 2)
      <3>1. i - 2 \in 1..(2 * L) /\ all[i] = q[i - 2]  BY <1>15, <2>3
      <3>2. all[i].event \in {"proof_started", "proof_completed"}  BY <1>1, <1>6, <3>1
      <3>3. QED  BY <2>3, <3>2 DEF IsEvent, EventNames
    <2>4. QED  BY <2>1, <2>2, <2>3
  <1>17. QED  BY <1>14, <1>15, <1>16

\* They say nothing of the submission, and end nothing.
LEMMA EventKeepsShown ==
    ASSUME NEW L \in Nat, BatchSize \in Nat, NEW i \in 1..(2 * L + 3), DOMAIN snapshot = Fields,
           snapshot' = WithExporterEvent(snapshot, ExportEvents(BatchSize, L)[i])
    PROVE  UNCHANGED Shown /\ DOMAIN snapshot' = Fields /\ snapshot'.phase # "completed"
  <1> DEFINE e == ExportEvents(BatchSize, L)[i]
  <1>1. e.event \in EventNames  BY EventsAre DEF IsEvent, EventNames
  <1> HIDE DEF e
  <1>2. snapshot' = WithExporterEvent(snapshot, e)  BY DEF e
  <1>3. CASE e.event = "setup_started"  BY <1>2, <1>3 DEF WithExporterEvent, Shown, Fields
  <1>4. CASE e.event = "setup_completed"  BY <1>2, <1>4 DEF WithExporterEvent, Shown, Fields
  <1>5. CASE e.event = "proof_started"  BY <1>2, <1>5 DEF WithExporterEvent, Shown, Fields
  <1>6. CASE e.event = "proof_completed"  BY <1>2, <1>6 DEF WithExporterEvent, Shown, Fields
  <1>7. CASE e.event = "bundle_completed"  BY <1>2, <1>7 DEF WithExporterEvent, Shown, Fields
  <1>8. QED  BY <1>1, <1>3, <1>4, <1>5, <1>6, <1>7 DEF EventNames

\* No transaction was submitted: there is nothing to count.
LEMMA NothingCounted ==
    ASSUME TypeInv, Quiet PROVE OkJobs = {} /\ CertifiedTold = {} /\ Cardinality(OkJobs) = 0
  <1>1. told = {} /\ resultsCh = <<>>  BY DEF Quiet
  <1>2. DOMAIN resultsCh = {}  BY <1>1
  <1>3. OkJobs = {}  BY <1>2 DEF OkJobs
  <1>4. CertifiedTold = {}  BY <1>1 DEF CertifiedTold
  <1>5. QED  BY <1>3, <1>4, FS_EmptySet

\* The start.
LEMMA InvariantStarts == Init => IInv
  <1> SUFFICES ASSUME Init PROVE IInv  OBVIOUS
  <1>a. /\ opts \in Options /\ told = {} /\ resultsCh = <<>> /\ file = opts.stored
        /\ call = [k \in DOMAIN opts.addresses |-> "none"]
        /\ wf = [pc |-> "start", i |-> 1, confirmedVerified |-> 0, firstErr |-> FALSE]
    BY Zenon DEF Init
  <1>b. /\ DOMAIN snapshot = Fields
        /\ snapshot.phase = "starting" /\ snapshot.enabled = FALSE
        /\ snapshot.totalCalls = 0 /\ snapshot.sentCalls = 0 /\ snapshot.confirmedCalls = 0
        /\ snapshot.failedCalls = 0 /\ snapshot.verifiedTxPerCall = 0 /\ snapshot.verifiedTxConfirmed = 0
    BY Zenon DEF Init, Fields
  <1>c. /\ DOMAIN wf = {"pc", "i", "confirmedVerified", "firstErr"} /\ wf.pc = "start" /\ wf.i = 1
        /\ wf.confirmedVerified = 0 /\ wf.firstErr = FALSE
    BY <1>a
  <1>1. IsList(opts.addresses) /\ file.verifiedTxTotal \in Int  BY <1>a, OptionsAssumption
  <1>2. DOMAIN opts.addresses = Calls /\ Len(opts.addresses) \in Nat  BY <1>1, ListFacts DEF Calls
  <1>d. DOMAIN call = Calls /\ \A k \in Calls : call[k] = "none"  BY <1>a, <1>2
  <1>3. TypeInv
    <2>1. wf.i \in Nat \ {0} /\ wf.pc \in Before  BY <1>c DEF Before
    <2>2. wf.firstErr \in BOOLEAN /\ snapshot.enabled \in BOOLEAN  BY <1>b, <1>c
    <2>3. \A k \in Calls : call[k] \in {"none", "sent", "certified", "reverted"}  BY <1>d
    <2>4. /\ snapshot.totalCalls \in Nat /\ snapshot.sentCalls \in Nat /\ snapshot.confirmedCalls \in Nat
          /\ snapshot.failedCalls \in Nat /\ snapshot.verifiedTxPerCall \in Int
      BY <1>b
    <2>5. QED  BY <1>a, <1>b, <1>c, <1>d, <1>1, <2>1, <2>2, <2>3, <2>4, Zenon DEF TypeInv
  <1>4. Quiet /\ SentUpTo(0, 0)
    BY <1>a, <1>b, <1>c, <1>d, <1>2 DEF Quiet, SentUpTo, Calls
  <1>5. PlaceInv  BY <1>b, <1>c, <1>4 DEF PlaceInv, Before, Sending
  <1>6. ChannelInv
    <2>1. DOMAIN resultsCh = {}  BY <1>a
    <2>2. IsList(resultsCh)  BY <1>a DEF IsList
    <2>3. Cardinality(OkJobs) = 0 /\ CertifiedTold = {}  BY <1>3, <1>4, NothingCounted
    <2>4. QED  BY <1>4, <2>1, <2>2, <2>3, FS_EmptySet DEF ChannelInv, Quiet
  <1>7. SumInv  BY <1>b, <1>c DEF SumInv
  <1>8. OutcomeInv  BY <1>b, <1>c DEF OutcomeInv
  <1>9. QED  BY <1>3, <1>5, <1>6, <1>7, <1>8 DEF IInv

\* A step that leaves the submission and what is shown of it alone.
Kept == /\ UNCHANGED <<opts, call, told, resultsCh>> /\ UNCHANGED Shown
        /\ wf'.confirmedVerified = wf.confirmedVerified /\ wf'.firstErr = wf.firstErr
        /\ file'.verifiedTxTotal \in Int /\ DOMAIN snapshot' = Fields
        /\ DOMAIN wf' = {"pc", "i", "confirmedVerified", "firstErr"}
        /\ wf'.pc \in Before \cup Sending \cup {"collect"} \cup After /\ wf'.i \in Nat \ {0}

\* Such a step keeps all that does not depend on where the workflow is.
LEMMA KeptParts ==
    ASSUME TypeInv, ChannelInv, SumInv, Kept
    PROVE  /\ TypeInv' /\ ChannelInv' /\ SumInv'
           /\ Quiet' <=> Quiet
           /\ AllDone' <=> AllDone
           /\ Calls' = Calls
           /\ \A k, m : SentUpTo(k, m)' <=> SentUpTo(k, m)
  <1>1. opts' = opts /\ call' = call /\ told' = told /\ resultsCh' = resultsCh  BY DEF Kept
  <1>2. /\ snapshot'.enabled = snapshot.enabled /\ snapshot'.totalCalls = snapshot.totalCalls
        /\ snapshot'.sentCalls = snapshot.sentCalls /\ snapshot'.confirmedCalls = snapshot.confirmedCalls
        /\ snapshot'.failedCalls = snapshot.failedCalls
        /\ snapshot'.verifiedTxPerCall = snapshot.verifiedTxPerCall
        /\ snapshot'.verifiedTxConfirmed = snapshot.verifiedTxConfirmed
    BY DEF Kept, Shown
  <1>3. Calls' = Calls  BY <1>1 DEF Calls
  <1>4. TypeInv'  BY <1>1, <1>2, <1>3, Zenon DEF TypeInv, Kept
  <1>5. OkJobs' = OkJobs /\ CertifiedTold' = CertifiedTold  BY <1>1 DEF OkJobs, CertifiedTold
  <1>6. ChannelInv'  BY <1>1, <1>2, <1>5, Zenon DEF ChannelInv
  <1>7. SumInv'  BY <1>2, Zenon DEF SumInv, Kept
  <1>8. \A k, m : SentUpTo(k, m)' <=> SentUpTo(k, m)  BY <1>1, <1>2, <1>3, Zenon DEF SentUpTo
  <1>9. Quiet' <=> Quiet  BY <1>1, <1>2, Zenon DEF Quiet, Kept
  <1>10. AllDone' <=> AllDone  BY <1>1, <1>2, <1>8, Zenon DEF AllDone
  <1>11. QED  BY <1>3, <1>4, <1>6, <1>7, <1>8, <1>9, <1>10

\* The steps before anything is submitted.
Prepares == /\ Kept /\ wf.pc \in Before /\ wf'.pc \in Before \cup {"error", "finish"}
            /\ snapshot'.phase # "completed"
            /\ wf'.pc = "submit" => Len(opts.addresses) > 0

\* They keep the invariant.
LEMMA PreparesKeeps == ASSUME IInv, Prepares PROVE IInv'
  <1>1. TypeInv /\ PlaceInv /\ ChannelInv /\ SumInv /\ Kept  BY DEF IInv, Prepares
  <1>2. /\ TypeInv' /\ ChannelInv' /\ SumInv' /\ (Quiet' <=> Quiet) /\ (AllDone' <=> AllDone)
        /\ (\A k, m : SentUpTo(k, m)' <=> SentUpTo(k, m))
    BY <1>1, KeptParts
  <1>3. /\ snapshot'.enabled = snapshot.enabled /\ snapshot'.totalCalls = snapshot.totalCalls
        /\ snapshot'.verifiedTxPerCall = snapshot.verifiedTxPerCall /\ opts' = opts
        /\ snapshot'.confirmedCalls = snapshot.confirmedCalls
    BY DEF Prepares, Kept, Shown
  <1>4. Quiet /\ SentUpTo(0, 0) /\ ~snapshot.enabled /\ snapshot.totalCalls = 0 /\ snapshot.verifiedTxPerCall = 0
    BY <1>1 DEF PlaceInv, Prepares
  <1>5. Quiet' /\ SentUpTo(0, 0)' /\ ~snapshot'.enabled  BY <1>2, <1>3, <1>4
  <1>6. PlaceInv'  BY <1>3, <1>4, <1>5 DEF PlaceInv, Prepares, Before, Sending
  <1>7. AllDone'  BY <1>3, <1>4, <1>5 DEF AllDone, Quiet
  <1>8. OutcomeInv'  BY <1>7 DEF OutcomeInv, Prepares
  <1>9. QED  BY <1>2, <1>6, <1>8 DEF IInv

-----------------------------------------------------------------------------
(* Bundles *)

\* The lanes with a live proof; with fewer than all of them there is a merge.
LEMMA LiveLanesAre ==
    ASSUME TypeInv
    PROVE  /\ LiveLanes \in Nat /\ BatchSize \in Nat
           /\ LiveLanes < opts.laneCount => LiveLanes > 0 /\ opts.laneCount \in Nat
  <1>1. opts.laneCount \in Int /\ opts.batchSize \in Int  BY OptionsAssumption DEF TypeInv
  <1>2. DefaultBatchSize \in Nat /\ DefaultLaneCount \in Nat  BY DefaultsAssumption
  <1>3. BatchSize \in Nat  BY <1>1, <1>2 DEF BatchSize, parse_arg
  <1>4. CASE opts.liveLaneCount \in 1..opts.laneCount  BY <1>1, <1>3, <1>4 DEF LiveLanes
  <1>5. CASE opts.liveLaneCount \notin 1..opts.laneCount
    <2>1. LiveLanes = parse_arg(opts.laneCount, DefaultLaneCount)  BY <1>5 DEF LiveLanes
    <2>2. QED  BY <1>1, <1>2, <1>3, <2>1 DEF parse_arg
  <1>6. QED  BY <1>4, <1>5

\* The elements m to n of list a.
Cut(r, a, m, n) == IsList(r) /\ Len(r) = n - m + 1 /\ \A i \in 1..(n - m + 1) : r[i] = a[m + i - 1]

\* What SubSeq gives.
LEMMA SubSeqCuts ==
    ASSUME NEW a, IsList(a), NEW m \in Nat \ {0}, NEW n \in Nat, n <= Len(a), m <= n + 1
    PROVE  Cut(SubSeq(a, m, n), a, m, n)
  <1>1. PICK S : a \in Seq(S)  BY DEF IsList
  <1>2. \A i \in m..n : a[i] \in S  BY <1>1
  <1>3. m \in Int /\ n \in Int  OBVIOUS
  <1>4. PICK r : r = SubSeq(a, m, n)  OBVIOUS
  <1>5. /\ r \in Seq(S) /\ Len(r) = IF m <= n THEN n - m + 1 ELSE 0
        /\ \A i \in 1..(n - m + 1) : r[i] = a[m + i - 1]
    <2>1. SubSeq(a, m, n) \in Seq(S)  BY <1>2, <1>3, SubSeqProperties, Zenon
    <2>2. Len(SubSeq(a, m, n)) = IF m <= n THEN n - m + 1 ELSE 0  BY <1>2, <1>3, SubSeqProperties
    <2>3. \A i \in 1..(n - m + 1) : SubSeq(a, m, n)[i] = a[m + i - 1]  BY <1>2, <1>3, SubSeqProperties
    <2>4. QED  BY <1>4, <2>1, <2>2, <2>3
  <1>6. Len(r) = n - m + 1
    <2>1. ~(m <= n) => n - m + 1 = 0  OBVIOUS
    <2>2. QED  BY <1>5, <2>1
  <1>7. IsList(r)  BY <1>5, SeqIsList, Zenon
  <1>8. Cut(r, a, m, n)  BY <1>5, <1>6, <1>7 DEF Cut
  <1>9. QED  BY <1>4, <1>8

\* The artifacts of lists a up to L and b from there to N.
Spliced(c, a, b, L, N) ==
    IsList(c) /\ Len(c) = N /\ \A k \in 1..N : c[k] = IF k <= L THEN a[k] ELSE b[k]

\* What mergeBundles does with the artifacts.
LEMMA SubSeqsSplice ==
    ASSUME NEW a, IsList(a), NEW b, IsList(b), NEW L \in Nat, NEW N \in Nat,
           L <= Len(a), N <= Len(b), L <= N
    PROVE  Spliced(SubSeq(a, 1, L) \o SubSeq(b, L + 1, N), a, b, L, N)
  <1>1. PICK S : a \in Seq(S)  BY DEF IsList
  <1>2. PICK T : b \in Seq(T)  BY DEF IsList
  <1>3. Len(a) \in Nat /\ Len(b) \in Nat  BY <1>1, <1>2
  <1>4. PICK p : p = SubSeq(a, 1, L)  OBVIOUS
  <1>5. IsList(p) /\ Len(p) = L /\ \A k \in 1..L : p[k] = a[k]
    <2>1. Cut(p, a, 1, L)  BY <1>4, SubSeqCuts
    <2>2. QED  BY <2>1 DEF Cut
  <1>6. PICK q : q = SubSeq(b, L + 1, N)  OBVIOUS
  <1>7. IsList(q) /\ Len(q) = N - L /\ \A k \in 1..(N - L) : q[k] = b[L + k]
    <2>1. Cut(q, b, L + 1, N)  BY <1>6, SubSeqCuts
    <2>2. N - (L + 1) + 1 = N - L  OBVIOUS
    <2>3. ASSUME NEW k \in 1..(N - L) PROVE q[k] = b[L + k]
      <3>1. (L + 1) + k - 1 = L + k  OBVIOUS
      <3>2. q[k] = b[(L + 1) + k - 1]  BY <2>1, <2>2 DEF Cut
      <3>3. QED  BY <3>1, <3>2
    <2>4. QED  BY <2>1, <2>2, <2>3 DEF Cut
  <1>8. IsList(p) /\ IsList(q)  BY <1>5, <1>7
  <1>9. PICK c : Joins(c, p, q)  BY DEF Joins
  <1>10. IsList(c) /\ Parts(c, p, q)  BY <1>8, <1>9, ListConcat, Zenon
  <1>11. Len(c) = N  BY <1>5, <1>7, <1>10 DEF Parts
  <1>12. ASSUME NEW k \in 1..N PROVE c[k] = IF k <= L THEN a[k] ELSE b[k]
    <2>1. CASE k <= L  BY <1>5, <1>10, <2>1 DEF Parts
    <2>2. CASE ~(k <= L)
      <3>1. k - L \in 1..(N - L) /\ L + (k - L) = k  BY <2>2
      <3>2. c[L + (k - L)] = q[k - L]  BY <1>5, <1>7, <1>10, <3>1 DEF Parts
      <3>3. q[k - L] = b[L + (k - L)]  BY <1>7, <3>1
      <3>4. QED  BY <2>2, <3>1, <3>2, <3>3
    <2>3. QED  BY <2>1, <2>2
  <1>13. Spliced(c, a, b, L, N)  BY <1>10, <1>11, <1>12 DEF Spliced
  <1>14. c = SubSeq(a, 1, L) \o SubSeq(b, L + 1, N)  BY <1>4, <1>6, <1>9, Zenon DEF Joins
  <1>15. QED  BY <1>13, <1>14, Zenon

\* The exporter's artifacts all have the batch size.
LEMMA ExportedAre ==
    ASSUME NEW setup, NEW n, NEW L \in Nat, NEW base
    PROVE  LET b == ExportBundle(setup, n, L, base)
           IN  /\ b.verifiedTxTotal = n * L /\ IsList(b.artifacts) /\ Len(b.artifacts) = L
               /\ \A k \in 1..L : b.artifacts[k].txCount = n
  <1> DEFINE b == ExportBundle(setup, n, L, base)
             art(k) == Prove(setup.key, k - 1, base + k - 1, n, setup.prev, setup.next)
  <1>1. b.artifacts = [k \in 1..L |-> art(k)] /\ b.verifiedTxTotal = n * L  BY DEF ExportBundle
  <1>2. \A k \in 1..L : art(k).txCount = n  BY DEF Prove
  <1> HIDE DEF b, art
  <1>3. b.artifacts \in [1..L -> {art(k) : k \in 1..L}] /\ \A k \in 1..L : b.artifacts[k] = art(k)
    BY <1>1
  <1>4. PICK S : b.artifacts \in [1..L -> S]  BY <1>3
  <1>5. b.artifacts \in Seq(S) /\ Len(b.artifacts) = L  BY <1>4
  <1>6. IsList(b.artifacts)  BY <1>5, SeqIsList, Zenon
  <1>7. \A k \in 1..L : b.artifacts[k].txCount = n  BY <1>2, <1>3
  <1>8. QED  BY <1>1, <1>5, <1>6, <1>7 DEF b

\* The total of a list of artifacts, and of one whose counts are all n.
LEMMA TxCounts ==
    ASSUME NEW c, IsList(c), \A k \in 1..Len(c) : c[k].txCount \in Int
    PROVE  /\ SumTxCount(c) \in Int
           /\ \A n \in Int : (\A k \in 1..Len(c) : c[k].txCount = n) => SumTxCount(c) = n * Len(c)
  <1> DEFINE f == [k \in DOMAIN c |-> c[k].txCount]
  <1>1. Len(c) \in Nat /\ DOMAIN c = 1..Len(c)  BY ListFacts, Zenon
  <1>2. IsFiniteSet(DOMAIN c) /\ Cardinality(DOMAIN c) = Len(c)
    <2>1. ASSUME NEW n \in Nat PROVE IsFiniteSet(1..n) /\ Cardinality(1..n) = n  BY FS_Interval
    <2>2. QED  BY <1>1, <2>1, Zenon
  <1>3. \A k \in DOMAIN c : f[k] = c[k].txCount /\ f[k] \in Int  BY <1>1
  <1>4. SumTxCount(c) = SumFunctionOnSet(f, DOMAIN c)  BY DEF SumTxCount
  <1> HIDE DEF f
  <1>5. Summable(f, DOMAIN c)  BY <1>2, <1>3 DEF Summable
  <1>6. SumTxCount(c) \in Int  BY <1>4, <1>5, SumType
  <1>7. ASSUME NEW n \in Int, \A k \in 1..Len(c) : c[k].txCount = n PROVE SumTxCount(c) = n * Len(c)
    <2>1. \A k \in DOMAIN c : f[k] = n  BY <1>1, <1>3, <1>7
    <2>2. SumFunctionOnSet(f, DOMAIN c) = n * Cardinality(DOMAIN c)  BY <1>2, <2>1, SumConstant
    <2>3. QED  BY <1>2, <1>4, <2>2
  <1>8. QED  BY <1>6, <1>7

\* What an end of the exporter writes: its own bundle, or the merged one.
LEMMA MergedAre ==
    ASSUME TypeInv, NEW exported, exported = ExportBundle(opts.setup, BatchSize, LiveLanes, opts.batchIdBase),
           LiveLanes < opts.laneCount, MergeOK(exported, opts.replay, LiveLanes, opts.laneCount),
           NEW merged, merged = MergeBundles(exported, opts.replay, LiveLanes, opts.laneCount)
    PROVE  /\ Spliced(merged.artifacts, exported.artifacts, opts.replay.artifacts, LiveLanes, opts.laneCount)
           /\ merged.verifiedTxTotal = SumTxCount(merged.artifacts) /\ merged.verifiedTxTotal \in Int
  <1> DEFINE c == SubSeq(exported.artifacts, 1, LiveLanes)
                  \o SubSeq(opts.replay.artifacts, LiveLanes + 1, opts.laneCount)
  <1>1. LiveLanes \in Nat /\ LiveLanes <= opts.laneCount /\ opts.laneCount \in Nat /\ BatchSize \in Nat
    BY LiveLanesAre
  <1>2. /\ IsList(exported.artifacts) /\ Len(exported.artifacts) = LiveLanes
        /\ \A k \in 1..LiveLanes : exported.artifacts[k].txCount = BatchSize
    BY <1>1, ExportedAre
  <1>3. /\ IsList(opts.replay.artifacts)
        /\ \A k \in DOMAIN opts.replay.artifacts : opts.replay.artifacts[k].txCount \in Nat
    BY OptionsAssumption DEF TypeInv
  <1>4. Len(opts.replay.artifacts) >= opts.laneCount  BY DEF MergeOK
  <1>5. /\ DOMAIN opts.replay.artifacts = 1..Len(opts.replay.artifacts)
        /\ Len(opts.replay.artifacts) \in Nat
    BY <1>3, ListFacts, Zenon
  <1>6. Spliced(c, exported.artifacts, opts.replay.artifacts, LiveLanes, opts.laneCount)
    BY <1>1, <1>2, <1>3, <1>4, <1>5, SubSeqsSplice
  <1>7. merged.artifacts = c /\ merged.verifiedTxTotal = SumTxCount(c)  BY DEF MergeBundles
  <1> HIDE DEF c
  <1>8. ASSUME NEW k \in 1..Len(c) PROVE c[k].txCount \in Int
    <2>1. k \in 1..opts.laneCount /\ c[k] = IF k <= LiveLanes THEN exported.artifacts[k] ELSE opts.replay.artifacts[k]
      BY <1>6 DEF Spliced
    <2>2. CASE k <= LiveLanes  BY <1>1, <1>2, <2>1, <2>2
    <2>3. CASE ~(k <= LiveLanes)
      <3>1. k \in DOMAIN opts.replay.artifacts  BY <1>1, <1>4, <1>5, <2>1
      <3>2. QED  BY <1>3, <2>1, <2>3, <3>1
    <2>4. QED  BY <2>2, <2>3
  <1>9. SumTxCount(c) \in Int
    <2>1. IsList(c)  BY <1>6 DEF Spliced
    <2>2. QED  BY <1>8, <2>1, TxCounts
  <1>10. QED  BY <1>6, <1>7, <1>9

-----------------------------------------------------------------------------
(* Every action keeps the invariant *)

\* Where the workflow is and nothing is shown to be completed.
LEMMA NotCompleted == ASSUME IInv, wf.pc # "end" PROVE snapshot.phase # "completed"
  BY DEF IInv, OutcomeInv

\* The steps of the workflow before submitBundleWithProgress.
LEMMA PreparationSteps ==
    ASSUME IInv, Generate \/ SkipGenerate \/ LoadStored \/ ExporterEvent \/ SetupFails \/ ExporterEnds
           \/ BundleReady
    PROVE  Prepares
  <1>1. wf.pc # "end" => snapshot.phase # "completed"  BY NotCompleted DEF IInv
  <1>t. /\ DOMAIN snapshot = Fields /\ DOMAIN wf = {"pc", "i", "confirmedVerified", "firstErr"}
        /\ wf.i \in Nat \ {0} /\ file.verifiedTxTotal \in Int
    BY DEF IInv, TypeInv
  <1>2. CASE Generate
    <2>1. snapshot' = snapshot /\ UNCHANGED <<opts, call, told, resultsCh>> /\ file' = file
      BY <1>2 DEF Generate
    <2>2. /\ wf.pc = "start" /\ wf'.pc = "export" /\ wf'.i = wf.i /\ DOMAIN wf' = DOMAIN wf
          /\ wf'.confirmedVerified = wf.confirmedVerified /\ wf'.firstErr = wf.firstErr
      BY <1>t, <1>2 DEF Generate, At, Goto
    <2>3. UNCHANGED Shown  BY <2>1 DEF Shown
    <2>4. QED  BY <1>1, <1>t, <2>1, <2>2, <2>3 DEF Prepares, Kept, Before
  <1>3. CASE SkipGenerate
    BY <1>1, <1>t, <1>3 DEF SkipGenerate, At, Goto, Prepares, Kept, Before, Shown, Fields
  <1>4. CASE LoadStored
    <2>1. /\ UNCHANGED Shown /\ DOMAIN snapshot' = Fields /\ snapshot'.phase = snapshot.phase
          /\ UNCHANGED <<opts, call, told, resultsCh>> /\ file' = file
      <3>1. CASE snapshot' = snapshot  BY <1>t, <1>4, <3>1 DEF LoadStored, Shown
      <3>2. CASE snapshot' # snapshot  BY <1>t, <1>4, <3>2 DEF LoadStored, Shown, Fields
      <3>3. QED  BY <3>1, <3>2
    <2>2. /\ wf.pc = "load" /\ wf'.pc \in {"ready", "error"} /\ wf'.i = wf.i /\ DOMAIN wf' = DOMAIN wf
          /\ wf'.confirmedVerified = wf.confirmedVerified /\ wf'.firstErr = wf.firstErr
      BY <1>t, <1>4 DEF LoadStored, At, Goto, Return
    <2>3. QED  BY <1>1, <1>t, <2>1, <2>2 DEF Prepares, Kept, Before, After
  <1>5. CASE ExporterEvent
    <2>1. TypeInv  BY DEF IInv
    <2>2. LiveLanes \in Nat /\ BatchSize \in Nat  BY <2>1, LiveLanesAre
    <2>3. wf.i \in 1..(2 * LiveLanes + 3)
      BY <1>t, <1>5, <2>2, EventsAre DEF ExporterEvent
    <2>4. snapshot' = WithExporterEvent(snapshot, ExportEvents(BatchSize, LiveLanes)[wf.i])
      BY <1>5 DEF ExporterEvent
    <2>5. UNCHANGED Shown /\ DOMAIN snapshot' = Fields /\ snapshot'.phase # "completed"
      BY <1>t, <2>2, <2>3, <2>4, EventKeepsShown
    <2>6. QED  BY <1>t, <1>5, <2>5 DEF ExporterEvent, At, Prepares, Kept, Before
  <1>6. CASE ExporterEnds
    <2>1. TypeInv  BY DEF IInv
    <2>2. LiveLanes \in Nat /\ BatchSize \in Nat  BY <2>1, LiveLanesAre
    <2>3. PICK exported : exported = ExportBundle(opts.setup, BatchSize, LiveLanes, opts.batchIdBase)
      OBVIOUS
    <2>4. exported.verifiedTxTotal \in Int  BY <2>2, <2>3, ExportedAre
    <2>5. /\ UNCHANGED Shown /\ DOMAIN snapshot' = Fields /\ snapshot'.phase # "completed"
          /\ wf'.pc \in {"ready", "error"} /\ wf'.i \in Nat \ {0} /\ DOMAIN wf' = DOMAIN wf
          /\ wf'.confirmedVerified = wf.confirmedVerified /\ wf'.firstErr = wf.firstErr
          /\ wf.pc = "export" /\ UNCHANGED <<opts, call, told, resultsCh>>
      <3>1. /\ wf'.pc \in {"ready", "error"} /\ wf'.i \in Nat \ {0} /\ DOMAIN wf' = DOMAIN wf
            /\ wf'.confirmedVerified = wf.confirmedVerified /\ wf'.firstErr = wf.firstErr
            /\ wf.pc = "export" /\ UNCHANGED <<opts, call, told, resultsCh>>
        <4>1. wf' = [wf EXCEPT !.pc = "ready", !.i = 1] \/ wf' = [wf EXCEPT !.pc = "error"]
          BY <1>6, Zenon DEF ExporterEnds, Goto, Return
        <4>2. wf.pc = "export" /\ UNCHANGED <<opts, call, told, resultsCh>>
          BY <1>6, Zenon DEF ExporterEnds, At
        <4>3. /\ wf'.pc \in {"ready", "error"} /\ wf'.i \in Nat \ {0} /\ DOMAIN wf' = DOMAIN wf
              /\ wf'.confirmedVerified = wf.confirmedVerified /\ wf'.firstErr = wf.firstErr
          <5>1. CASE wf' = [wf EXCEPT !.pc = "ready", !.i = 1]  BY <1>t, <5>1
          <5>2. CASE wf' = [wf EXCEPT !.pc = "error"]  BY <1>t, <5>2
          <5>3. QED  BY <4>1, <5>1, <5>2
        <4>4. QED  BY <4>2, <4>3
      <3>2. CASE snapshot' = snapshot  BY <1>1, <1>t, <3>1, <3>2 DEF Shown
      <3>3. CASE snapshot' # snapshot  
        <4>1. \/ snapshot' = [snapshot EXCEPT !.bundlePath = TRUE]
              \/ snapshot' = [snapshot EXCEPT !.phase = "bundle_ready", !.total = opts.laneCount,
                                !.generated = opts.laneCount,
                                !.replayLoaded = opts.laneCount - LiveLanes,
                                !.verifiedTxTotal = uint64(opts.batchSize * opts.laneCount)]
          BY <1>6, <3>3, Zenon DEF ExporterEnds
        <4>2. CASE snapshot' = [snapshot EXCEPT !.bundlePath = TRUE]
          BY <1>1, <1>t, <3>1, <4>2 DEF Shown, Fields
        <4>3. CASE snapshot' # [snapshot EXCEPT !.bundlePath = TRUE]
          <5>1. snapshot'.phase = "bundle_ready" /\ DOMAIN snapshot' = Fields  BY <1>t, <4>1, <4>3 DEF Fields
          <5>2. UNCHANGED Shown  BY <1>t, <4>1, <4>3 DEF Shown, Fields
          <5>3. QED  BY <3>1, <5>1, <5>2
        <4>4. QED  BY <4>2, <4>3
      <3>4. QED  BY <3>1, <3>2, <3>3
    <2>6. file'.verifiedTxTotal \in Int
      <3>1. CASE file' = exported  BY <2>4, <3>1
      <3>2. CASE /\ LiveLanes < opts.laneCount /\ MergeOK(exported, opts.replay, LiveLanes, opts.laneCount)
                 /\ file' = MergeBundles(exported, opts.replay, LiveLanes, opts.laneCount)
        BY <2>1, <2>3, <3>2, MergedAre
      <3>3. CASE file' = file  BY <1>t, <3>3
      <3>4. QED  BY <1>6, <2>3, <3>1, <3>2, <3>3 DEF ExporterEnds
    <2>7. QED  BY <1>t, <2>5, <2>6 DEF Prepares, Kept, Before, After
  <1>7. CASE BundleReady
    <2>1. IsList(opts.addresses)  BY OptionsAssumption DEF IInv, TypeInv
    <2>2. opts.addresses # <<>> => Len(opts.addresses) > 0
      <3>1. PICK S : opts.addresses \in Seq(S)  BY <2>1 DEF IsList
      <3>2. QED  BY <3>1
    <2>3. QED
      <3>1. /\ UNCHANGED Shown /\ DOMAIN snapshot' = Fields /\ snapshot'.phase = snapshot.phase
            /\ UNCHANGED <<opts, call, told, resultsCh>> /\ file' = file
        BY <1>t, <1>7 DEF BundleReady, Shown, Fields
      <3>2. /\ wf.pc = "ready" /\ wf'.pc \in {"finish", "submit"} /\ wf'.i = wf.i /\ DOMAIN wf' = DOMAIN wf
            /\ wf'.confirmedVerified = wf.confirmedVerified /\ wf'.firstErr = wf.firstErr
            /\ wf'.pc = "submit" => opts.addresses # <<>>
        BY <1>t, <1>7 DEF BundleReady, At, Goto
      <3>3. QED  BY <1>1, <1>t, <2>2, <3>1, <3>2 DEF Prepares, Kept, Before, After
  <1>8. CASE SetupFails
    <2>1. wf.pc = "export" /\ UNCHANGED <<opts, snapshot, file, call, told, resultsCh>>
      BY <1>8 DEF SetupFails, At
    <2>2. /\ wf'.pc = "error" /\ wf'.i = wf.i /\ DOMAIN wf' = DOMAIN wf
          /\ wf'.confirmedVerified = wf.confirmedVerified /\ wf'.firstErr = wf.firstErr
      BY <1>t, <1>8 DEF SetupFails, Goto, Return
    <2>3. UNCHANGED Shown  BY <2>1 DEF Shown
    <2>4. QED  BY <1>1, <1>t, <2>1, <2>2, <2>3 DEF Prepares, Kept, Before, After
  <1>9. QED  BY <1>2, <1>3, <1>4, <1>5, <1>6, <1>7, <1>8

\* A step that keeps the submission keeps the invariant, if it keeps what is said of places.
LEMMA KeptKeeps == ASSUME IInv, Kept, PlaceInv', OutcomeInv' PROVE IInv'
  BY KeptParts DEF IInv

\* The workflow returns an error, at any place.
LEMMA ReturnKeeps ==
    ASSUME IInv, wf.pc # "end", Return, UNCHANGED <<opts, snapshot, file, call, told, resultsCh>>
    PROVE  IInv'
  <1>1. /\ DOMAIN snapshot = Fields /\ DOMAIN wf = {"pc", "i", "confirmedVerified", "firstErr"}
        /\ wf.i \in Nat \ {0} /\ file.verifiedTxTotal \in Int
    BY DEF IInv, TypeInv
  <1>2. /\ wf'.pc = "error" /\ wf'.i = wf.i /\ DOMAIN wf' = DOMAIN wf
        /\ wf'.confirmedVerified = wf.confirmedVerified /\ wf'.firstErr = wf.firstErr
    BY <1>1 DEF Return, Goto
  <1>3. UNCHANGED Shown  BY DEF Shown
  <1>4. Kept  BY <1>1, <1>2, <1>3 DEF Kept, After
  <1>5. snapshot'.phase # "completed"  BY NotCompleted
  <1>6. PlaceInv'  BY <1>2 DEF PlaceInv, Before, Sending
  <1>7. OutcomeInv'  BY <1>2, <1>5 DEF OutcomeInv
  <1>8. QED  BY <1>4, <1>6, <1>7, KeptKeeps

\* The first part of submitBundleWithProgress.
LEMMA ConfigureKeeps == ASSUME IInv, Configure PROVE IInv'
  <1>t. /\ TypeInv /\ DOMAIN snapshot = Fields /\ DOMAIN wf = {"pc", "i", "confirmedVerified", "firstErr"}
        /\ wf.i \in Nat \ {0} /\ file.verifiedTxTotal \in Int
    BY DEF IInv, TypeInv
  <1>0. wf.pc = "submit" /\ UNCHANGED <<opts, file, call, told, resultsCh>>  BY DEF Configure, At
  <1>1. CASE Return /\ UNCHANGED snapshot  BY <1>0, <1>1, ReturnKeeps
  <1>2. CASE /\ snapshot' = WithSubmission(snapshot, Len(opts.addresses), file.verifiedTxTotal)
             /\ wf' = [wf EXCEPT !.pc = "build", !.i = 1]
    <2>1. Len(opts.addresses) \in Nat /\ Len(opts.addresses) > 0
      BY <1>t, <1>0, CallsCounted DEF IInv, PlaceInv
    <2>2. /\ DOMAIN snapshot' = Fields /\ snapshot'.enabled = TRUE
          /\ snapshot'.totalCalls = Len(opts.addresses) /\ snapshot'.verifiedTxPerCall = file.verifiedTxTotal
          /\ snapshot'.sentCalls = snapshot.sentCalls /\ snapshot'.confirmedCalls = snapshot.confirmedCalls
          /\ snapshot'.failedCalls = snapshot.failedCalls /\ snapshot'.phase = "l1_submitting"
          /\ snapshot'.verifiedTxConfirmed = snapshot.verifiedTxConfirmed
      BY <1>t, <1>2 DEF WithSubmission, Fields
    <2>3. /\ wf'.pc = "build" /\ wf'.i = 1 /\ DOMAIN wf' = DOMAIN wf
          /\ wf'.confirmedVerified = wf.confirmedVerified /\ wf'.firstErr = wf.firstErr
      BY <1>t, <1>2
    <2>4. Calls' = Calls  BY <1>0 DEF Calls
    <2>5. Quiet /\ SentUpTo(0, 0)  BY <1>0 DEF IInv, PlaceInv, Before
    <2>6. Quiet'  BY <1>0, <2>2, <2>3, <2>5 DEF Quiet
    <2>7. SentUpTo(0, 0)'  BY <1>0, <2>2, <2>4, <2>5 DEF SentUpTo
    <2>8. TypeInv'
      <3>1. snapshot'.enabled \in BOOLEAN /\ wf'.pc \in Sending  BY <2>2, <2>3 DEF Sending
      <3>2. wf'.i \in Nat \ {0} /\ snapshot'.totalCalls \in Nat  BY <2>1, <2>2, <2>3
      <3>3. QED  BY <1>t, <1>0, <2>2, <2>3, <2>4, <3>1, <3>2, Zenon DEF TypeInv
    <2>9. PlaceInv'
      <3>1. Configured'  BY <1>0, <2>2 DEF Configured
      <3>2. (wf.i \in Calls)'  BY <1>0, <2>1, <2>3 DEF Calls
      <3>3. QED  BY <2>3, <2>6, <2>7, <3>1, <3>2 DEF PlaceInv, Before, Sending
    <2>10. ChannelInv'
      <3>1. OkJobs' = OkJobs /\ CertifiedTold' = CertifiedTold  BY <1>0 DEF OkJobs, CertifiedTold
      <3>2. QED  BY <1>0, <2>2, <3>1, Zenon DEF ChannelInv, IInv
    <2>11. SumInv'
      <3>1. snapshot.confirmedCalls = 0 /\ wf.confirmedVerified = 0
        BY <1>t, <2>5 DEF Quiet, IInv, SumInv, TypeInv
      <3>2. QED  BY <1>t, <2>2, <2>3, <3>1 DEF SumInv, IInv
    <2>12. OutcomeInv'  BY <2>2, <2>3 DEF OutcomeInv
    <2>13. QED  BY <2>8, <2>9, <2>10, <2>11, <2>12 DEF IInv
  <1>3. QED  BY <1>1, <1>2 DEF Configure

\* The jobs are built.
LEMMA BuildJobKeeps == ASSUME IInv, BuildJob PROVE IInv'
  <1>t. /\ TypeInv /\ DOMAIN snapshot = Fields /\ DOMAIN wf = {"pc", "i", "confirmedVerified", "firstErr"}
        /\ wf.i \in Nat \ {0} /\ file.verifiedTxTotal \in Int
    BY DEF IInv, TypeInv
  <1>0. wf.pc = "build" /\ UNCHANGED <<opts, snapshot, file, call, told, resultsCh>>  BY DEF BuildJob, At
  <1>1. CASE Return  BY <1>0, <1>1, ReturnKeeps
  <1>2. CASE wf' = IF wf.i < Len(opts.addresses) THEN [wf EXCEPT !.i = @ + 1]
                                                 ELSE [wf EXCEPT !.pc = "send", !.i = 1]
    <2>1. Len(opts.addresses) \in Nat  BY <1>t, CallsCounted
    <2>2. wf.i \in Calls /\ Configured /\ Quiet /\ SentUpTo(0, 0)
      BY <1>0 DEF IInv, PlaceInv, Sending
    <2>3. /\ wf'.pc \in {"build", "send"} /\ wf'.i \in Calls /\ DOMAIN wf' = DOMAIN wf
          /\ wf'.confirmedVerified = wf.confirmedVerified /\ wf'.firstErr = wf.firstErr
          /\ wf'.pc = "send" => wf'.i = 1
      <3>1. CASE wf.i < Len(opts.addresses)  BY <1>t, <1>0, <1>2, <2>1, <3>1 DEF Calls
      <3>2. CASE ~(wf.i < Len(opts.addresses))  BY <1>t, <1>0, <1>2, <2>1, <2>2, <3>2 DEF Calls
      <3>3. QED  BY <3>1, <3>2
    <2>4. Kept
      <3>1. wf'.i \in Nat \ {0}  BY <2>1, <2>3 DEF Calls
      <3>2. UNCHANGED Shown  BY <1>0 DEF Shown
      <3>3. QED  BY <1>t, <1>0, <2>3, <3>1, <3>2 DEF Kept, Sending
    <2>5. (Quiet' <=> Quiet) /\ (\A k, m : SentUpTo(k, m)' <=> SentUpTo(k, m)) /\ Calls' = Calls
      BY <2>4, KeptParts DEF IInv
    <2>6. Configured'  BY <1>0, <2>2 DEF Configured
    <2>7. (wf.pc = "send" => SentUpTo(wf.i - 1, wf.i - 1))'
      <3>1. wf'.pc = "send" => wf'.i - 1 = 0  BY <2>3
      <3>2. SentUpTo(0, 0)'  BY <2>2, <2>5
      <3>3. QED  BY <3>1, <3>2 DEF SentUpTo
    <2>8. PlaceInv'  BY <2>2, <2>3, <2>5, <2>6, <2>7 DEF PlaceInv, Before, Sending
    <2>9. OutcomeInv'
      <3>1. snapshot.phase # "completed"  BY <1>0, NotCompleted
      <3>2. QED  BY <1>0, <2>3, <3>1 DEF OutcomeInv
    <2>10. QED  BY <2>4, <2>8, <2>9, KeptKeeps
  <1>3. QED  BY <1>1, <1>2 DEF BuildJob

\* A transaction leaves, for a workflow that goes on or fails.
LEMMA SentKeeps ==
    ASSUME IInv, wf.pc = "send", call' = [call EXCEPT ![wf.i] = "sent"],
           Goto("note") \/ Return, UNCHANGED <<opts, snapshot, file, told, resultsCh>>
    PROVE  IInv'
  <1>t. /\ TypeInv /\ DOMAIN wf = {"pc", "i", "confirmedVerified", "firstErr"}
        /\ DOMAIN call = Calls /\ wf.i \in Nat \ {0}
    BY DEF IInv, TypeInv
  <1>1. wf.i \in Calls /\ Configured /\ Quiet /\ SentUpTo(wf.i - 1, wf.i - 1)
    BY DEF IInv, PlaceInv, Sending
  <1>2. /\ wf'.pc \in {"note", "error"} /\ wf'.i = wf.i /\ DOMAIN wf' = DOMAIN wf
        /\ wf'.confirmedVerified = wf.confirmedVerified /\ wf'.firstErr = wf.firstErr
    <2>1. CASE Goto("note")  BY <1>t, <2>1 DEF Goto
    <2>2. CASE Return  BY <1>t, <2>2 DEF Goto, Return
    <2>3. QED  BY <2>1, <2>2
  <1>3. Calls' = Calls  BY DEF Calls
  <1>4. DOMAIN call' = Calls /\ \A j \in Calls : call'[j] = IF j = wf.i THEN "sent" ELSE call[j]
    BY <1>t, <1>1
  <1>5. TypeInv'
    <2>1. \A j \in Calls : call'[j] \in {"none", "sent", "certified", "reverted"}
      BY <1>t, <1>4 DEF TypeInv
    <2>2. wf'.pc \in Sending \cup After  BY <1>2 DEF Sending, After
    <2>3. QED  BY <1>t, <1>2, <1>3, <1>4, <2>1, <2>2 DEF TypeInv
  <1>6. Quiet'  BY <1>1, <1>2 DEF Quiet
  <1>7. PlaceInv'
    <2>1. Configured'  BY <1>1 DEF Configured
    <2>2. (SentUpTo(wf.i, wf.i - 1))'
      <3>1. Len(opts.addresses) \in Nat  BY <1>t, CallsCounted
      <3>2. \A j \in Calls : call'[j] = "none" <=> j > wf.i  BY <1>1, <1>4, <3>1 DEF SentUpTo, Calls
      <3>3. QED  BY <1>1, <1>2, <1>3, <3>2 DEF SentUpTo
    <2>3. QED  BY <1>1, <1>2, <1>3, <1>6, <2>1, <2>2 DEF PlaceInv, Before, Sending
  <1>8. ChannelInv'
    <2>1. OkJobs' = {} /\ CertifiedTold' = {} /\ Cardinality(OkJobs') = 0
      <3>1. told' = {} /\ resultsCh' = <<>>  BY <1>6 DEF Quiet
      <3>2. DOMAIN resultsCh' = {}  BY <3>1
      <3>3. QED  BY <3>1, <3>2, FS_EmptySet DEF OkJobs, CertifiedTold
    <2>2. resultsCh' = <<>> /\ snapshot'.confirmedCalls = 0  BY <1>6 DEF Quiet
    <2>3. DOMAIN resultsCh' = {} /\ IsList(resultsCh)'
      BY <2>2 DEF IInv, ChannelInv
    <2>4. QED  BY <2>1, <2>2, <2>3, FS_EmptySet DEF ChannelInv
  <1>9. SumInv'  BY <1>2 DEF SumInv, IInv
  <1>10. OutcomeInv'
    <2>1. snapshot.phase # "completed"  BY NotCompleted
    <2>2. QED  BY <1>2, <2>1 DEF OutcomeInv
  <1>11. QED  BY <1>5, <1>7, <1>8, <1>9, <1>10 DEF IInv

\* It is shown.
LEMMA NoteTxSentKeeps == ASSUME IInv, NoteTxSent PROVE IInv'
  <1>t. /\ TypeInv /\ DOMAIN snapshot = Fields /\ DOMAIN wf = {"pc", "i", "confirmedVerified", "firstErr"}
        /\ wf.i \in Nat \ {0} /\ snapshot.sentCalls \in Nat
    BY DEF IInv, TypeInv
  <1>0. /\ wf.pc = "note" /\ UNCHANGED <<opts, file, call, told, resultsCh>>
        /\ snapshot' = WithTxSent(snapshot, wf.i)
        /\ wf' = IF wf.i < Len(opts.addresses) THEN [wf EXCEPT !.pc = "send", !.i = @ + 1]
                                               ELSE [wf EXCEPT !.pc = "collect", !.i = 1]
    BY DEF NoteTxSent, At
  <1>1. wf.i \in Calls /\ Configured /\ Quiet /\ SentUpTo(wf.i, wf.i - 1)
    BY <1>0 DEF IInv, PlaceInv, Sending
  <1>2. Len(opts.addresses) \in Nat /\ wf.i <= Len(opts.addresses)  BY <1>t, <1>1, CallsCounted DEF Calls
  <1>3. /\ wf'.pc \in {"send", "collect"} /\ wf'.i \in Nat \ {0} /\ DOMAIN wf' = DOMAIN wf
        /\ wf'.confirmedVerified = wf.confirmedVerified /\ wf'.firstErr = wf.firstErr
        /\ wf'.pc = "send" => wf'.i = wf.i + 1 /\ wf'.i <= Len(opts.addresses)
        /\ wf'.pc = "collect" => wf'.i = 1 /\ wf.i = Len(opts.addresses)
    <2>1. CASE wf.i < Len(opts.addresses)  BY <1>t, <1>0, <1>2, <2>1
    <2>2. CASE ~(wf.i < Len(opts.addresses))  BY <1>t, <1>0, <1>2, <2>2
    <2>3. QED  BY <2>1, <2>2
  <1>4. /\ DOMAIN snapshot' = Fields /\ snapshot'.enabled = snapshot.enabled
        /\ snapshot'.totalCalls = snapshot.totalCalls
        /\ snapshot'.verifiedTxPerCall = snapshot.verifiedTxPerCall
        /\ snapshot'.sentCalls = snapshot.sentCalls + 1 /\ snapshot'.confirmedCalls = snapshot.confirmedCalls
        /\ snapshot'.failedCalls = snapshot.failedCalls /\ snapshot'.phase = snapshot.phase
        /\ snapshot'.verifiedTxConfirmed = snapshot.verifiedTxConfirmed
    BY <1>t, <1>0 DEF WithTxSent, Fields
  <1>5. Calls' = Calls  BY <1>0 DEF Calls
  <1>6. Quiet'  BY <1>0, <1>1, <1>3, <1>4 DEF Quiet
  <1>7. snapshot'.sentCalls = wf.i /\ \A j \in Calls : call'[j] = "none" <=> j > wf.i
    BY <1>t, <1>0, <1>1, <1>4 DEF SentUpTo
  <1>8. TypeInv'
    <2>1. wf'.pc \in Sending \cup {"collect"} /\ snapshot'.sentCalls \in Nat  BY <1>t, <1>3, <1>4 DEF Sending
    <2>2. QED  BY <1>t, <1>0, <1>3, <1>4, <1>5, <2>1, Zenon DEF TypeInv
  <1>9. PlaceInv'
    <2>1. Configured'  BY <1>0, <1>1, <1>4 DEF Configured
    <2>2. CASE wf'.pc = "send"
      <3>1. wf'.i - 1 = wf.i /\ wf'.i \in Calls  BY <1>t, <1>2, <1>3, <2>2 DEF Calls
      <3>2. SentUpTo(wf.i - 1, wf.i - 1)'  BY <1>5, <1>7, <3>1 DEF SentUpTo
      <3>3. QED  BY <1>5, <1>6, <2>1, <2>2, <3>1, <3>2 DEF PlaceInv, Before, Sending
    <2>3. CASE wf'.pc = "collect"
      <3>1. wf'.i = 1 /\ wf.i = Len(opts.addresses)  BY <1>3, <2>3
      <3>2. SentUpTo(Len(opts.addresses), Len(opts.addresses))'
        BY <1>0, <1>5, <1>7, <3>1 DEF SentUpTo
      <3>3. snapshot'.confirmedCalls = 0 /\ snapshot'.failedCalls = 0  BY <1>6 DEF Quiet
      <3>4. QED  BY <1>0, <1>2, <2>1, <2>3, <3>1, <3>2, <3>3 DEF PlaceInv, Before, Sending
    <2>4. QED  BY <1>3, <2>2, <2>3
  <1>10. ChannelInv'
    <2>1. OkJobs' = OkJobs /\ CertifiedTold' = CertifiedTold  BY <1>0 DEF OkJobs, CertifiedTold
    <2>2. QED  BY <1>0, <1>4, <2>1, Zenon DEF ChannelInv, IInv
  <1>11. SumInv'
    <2>1. snapshot'.confirmedCalls + snapshot'.failedCalls <= snapshot'.sentCalls
      BY <1>t, <1>4, <1>6 DEF Quiet
    <2>2. QED  BY <1>3, <1>4, <2>1, Zenon DEF SumInv, IInv
  <1>12. OutcomeInv'
    <2>1. snapshot.phase # "completed"  BY <1>0, NotCompleted
    <2>2. QED  BY <1>3, <1>4, <2>1 DEF OutcomeInv
  <1>13. QED  BY <1>8, <1>9, <1>10, <1>11, <1>12 DEF IInv

\* All results are in.
LEMMA CollectEndsKeeps == ASSUME IInv, CollectEnds PROVE IInv'
  <1>t. /\ TypeInv /\ DOMAIN snapshot = Fields /\ DOMAIN wf = {"pc", "i", "confirmedVerified", "firstErr"}
        /\ wf.i \in Nat \ {0} /\ file.verifiedTxTotal \in Int
        /\ snapshot.confirmedCalls \in Nat /\ snapshot.failedCalls \in Nat
    BY DEF IInv, TypeInv
  <1>0. /\ wf.pc = "collect" /\ UNCHANGED <<opts, snapshot, file, call, told, resultsCh>>
        /\ wf.i > Len(opts.addresses) /\ Goto(IF wf.firstErr THEN "error" ELSE "finish")
    BY DEF CollectEnds, At
  <1>1. /\ wf'.pc = (IF wf.firstErr THEN "error" ELSE "finish") /\ wf'.i = wf.i /\ DOMAIN wf' = DOMAIN wf
        /\ wf'.confirmedVerified = wf.confirmedVerified /\ wf'.firstErr = wf.firstErr
    BY <1>t, <1>0 DEF Goto
  <1>2. wf'.pc \in {"error", "finish"} /\ (wf'.pc = "finish" => ~wf.firstErr)  BY <1>1
  <1>3. Kept
    <2>1. UNCHANGED Shown  BY <1>0 DEF Shown
    <2>2. QED  BY <1>t, <1>0, <1>1, <1>2, <2>1 DEF Kept, After
  <1>4. wf'.pc = "finish" => AllDone
    <2>1. /\ Configured /\ wf.i <= Len(opts.addresses) + 1
          /\ snapshot.confirmedCalls + snapshot.failedCalls = wf.i - 1
          /\ snapshot.failedCalls > 0 => wf.firstErr
      BY <1>0 DEF IInv, PlaceInv
    <2>2. Len(opts.addresses) \in Nat  BY <1>t, CallsCounted
    <2>3. ~wf.firstErr => snapshot.confirmedCalls = Len(opts.addresses)  BY <1>t, <1>0, <2>1, <2>2
    <2>4. QED  BY <1>2, <2>1, <2>3 DEF AllDone, Configured
  <1>5. AllDone' <=> AllDone  BY <1>3, KeptParts DEF IInv
  <1>6. PlaceInv'  BY <1>2 DEF PlaceInv, Before, Sending
  <1>7. OutcomeInv'
    <2>1. snapshot.phase # "completed"  BY <1>0, NotCompleted
    <2>2. QED  BY <1>0, <1>4, <1>5, <2>1 DEF OutcomeInv
  <1>8. QED  BY <1>3, <1>6, <1>7, KeptKeeps

\* The outcome of the workflow is shown.
LEMMA OutcomeKeeps == ASSUME IInv, ShowError \/ ShowDone PROVE IInv'
  <1>t. /\ TypeInv /\ DOMAIN snapshot = Fields /\ DOMAIN wf = {"pc", "i", "confirmedVerified", "firstErr"}
        /\ wf.i \in Nat \ {0} /\ file.verifiedTxTotal \in Int
    BY DEF IInv, TypeInv
  <1>0. /\ wf.pc \in {"error", "finish"} /\ UNCHANGED <<opts, file, call, told, resultsCh>>
        /\ wf' = [wf EXCEPT !.pc = "end"]
    BY DEF ShowError, ShowDone, At, Goto
  <1>1. /\ wf'.pc = "end" /\ wf'.i = wf.i /\ DOMAIN wf' = DOMAIN wf
        /\ wf'.confirmedVerified = wf.confirmedVerified /\ wf'.firstErr = wf.firstErr
    BY <1>t, <1>0
  <1>2. snapshot.phase # "completed"  BY <1>0, NotCompleted
  <1>3. /\ UNCHANGED Shown /\ DOMAIN snapshot' = Fields
        /\ snapshot'.phase = "completed" => wf.pc = "finish" /\ snapshot'.error = "" /\ snapshot'.done
    <2>1. CASE ShowError  BY <1>t, <2>1 DEF ShowError, WithError, Shown, Fields
    <2>2. CASE ShowDone
      <3>1. snapshot' = WithDone(snapshot) /\ wf.pc = "finish"  BY <2>2 DEF ShowDone, At
      <3>2. CASE snapshot.error = ""
        <4>1. snapshot' = [snapshot EXCEPT !.done = TRUE, !.phase = "completed"]  BY <3>1, <3>2 DEF WithDone
        <4>2. QED  BY <1>t, <3>1, <3>2, <4>1 DEF Shown, Fields
      <3>3. CASE snapshot.error # ""
        <4>1. snapshot' = [snapshot EXCEPT !.done = TRUE, !.phase = snapshot.phase]
          BY <3>1, <3>3 DEF WithDone
        <4>2. QED  BY <1>t, <1>2, <3>1, <4>1 DEF Shown, Fields
      <3>4. QED  BY <3>2, <3>3
    <2>3. QED  BY <2>1, <2>2
  <1>4. Kept  BY <1>t, <1>0, <1>1, <1>3 DEF Kept, After
  <1>5. wf.pc = "finish" => AllDone'
    <2>1. AllDone' <=> AllDone  BY <1>4, KeptParts DEF IInv
    <2>2. QED  BY <2>1 DEF IInv, OutcomeInv
  <1>6. PlaceInv'  BY <1>1 DEF PlaceInv, Before, Sending
  <1>7. OutcomeInv'  BY <1>1, <1>3, <1>5 DEF OutcomeInv
  <1>8. QED  BY <1>4, <1>6, <1>7, KeptKeeps

\* The server fails, at any time.
LEMMA ServerFailsKeeps == ASSUME IInv, ServerFails PROVE IInv'
  <1>t. /\ TypeInv /\ DOMAIN snapshot = Fields /\ DOMAIN wf = {"pc", "i", "confirmedVerified", "firstErr"}
        /\ wf.i \in Nat \ {0} /\ file.verifiedTxTotal \in Int
        /\ wf.pc \in Before \cup Sending \cup {"collect"} \cup After
    BY DEF IInv, TypeInv
  <1>0. UNCHANGED <<opts, wf, file, call, told, resultsCh>> /\ snapshot' = WithError(snapshot, "server")
    BY DEF ServerFails
  <1>1. UNCHANGED Shown /\ DOMAIN snapshot' = Fields /\ snapshot'.phase = "failed"
    BY <1>t, <1>0 DEF WithError, Shown, Fields
  <1>2. Kept  BY <1>t, <1>0, <1>1 DEF Kept
  <1>3. /\ (Quiet' <=> Quiet) /\ (AllDone' <=> AllDone) /\ Calls' = Calls
        /\ (\A k, m : SentUpTo(k, m)' <=> SentUpTo(k, m))
    BY <1>2, KeptParts DEF IInv
  <1>4. /\ snapshot'.enabled = snapshot.enabled /\ snapshot'.totalCalls = snapshot.totalCalls
        /\ snapshot'.verifiedTxPerCall = snapshot.verifiedTxPerCall
        /\ snapshot'.confirmedCalls = snapshot.confirmedCalls /\ snapshot'.failedCalls = snapshot.failedCalls
        /\ snapshot'.sentCalls = snapshot.sentCalls
    BY <1>1 DEF Shown
  <1>5. Configured' <=> Configured  BY <1>0, <1>4 DEF Configured
  <1>6. PlaceInv'
    <2>1. PlaceInv  BY DEF IInv
    <2>2. /\ SentUpTo(wf.i - 1, wf.i - 1)' <=> SentUpTo(wf.i - 1, wf.i - 1)
          /\ SentUpTo(wf.i, wf.i - 1)' <=> SentUpTo(wf.i, wf.i - 1)
          /\ SentUpTo(Len(opts.addresses), Len(opts.addresses))'
               <=> SentUpTo(Len(opts.addresses), Len(opts.addresses))
      BY <1>0, <1>3, <1>4 DEF SentUpTo
    <2>3. QED  BY <1>0, <1>3, <1>4, <1>5, <2>1, <2>2, Zenon DEF PlaceInv
  <1>7. OutcomeInv'  BY <1>0, <1>1, <1>3 DEF OutcomeInv, IInv
  <1>8. QED  BY <1>2, <1>6, <1>7, KeptKeeps

\* The workflow fails.
LEMMA WorkflowFailsKeeps == ASSUME IInv, WorkflowFails PROVE IInv'
  <1>1. /\ wf.pc # "end" /\ Return /\ UNCHANGED <<opts, snapshot, file, told, resultsCh>>
        /\ UNCHANGED call \/ (wf.pc = "send" /\ call' = [call EXCEPT ![wf.i] = "sent"])
    BY DEF WorkflowFails, At
  <1>2. CASE UNCHANGED call  BY <1>1, <1>2, ReturnKeeps
  <1>3. CASE wf.pc = "send" /\ call' = [call EXCEPT ![wf.i] = "sent"]  BY <1>1, <1>3, SentKeeps
  <1>4. QED  BY <1>1, <1>2, <1>3

\* The sets that are counted are finite.
LEMMA CountedFinite ==
    ASSUME TypeInv, ChannelInv
    PROVE  /\ IsFiniteSet(told) /\ IsFiniteSet(CertifiedTold) /\ IsFiniteSet(OkJobs)
           /\ Cardinality(CertifiedTold) \in Nat /\ Cardinality(OkJobs) \in Nat
  <1>1. IsFiniteSet(told)  BY CallsCounted, FS_Subset DEF TypeInv
  <1>2. CertifiedTold \subseteq told /\ OkJobs \subseteq told  BY DEF CertifiedTold, OkJobs, ChannelInv
  <1>3. IsFiniteSet(CertifiedTold) /\ IsFiniteSet(OkJobs)  BY <1>1, <1>2, FS_Subset
  <1>4. QED  BY <1>1, <1>3, FS_CardinalityType

\* The goroutine of job k sends a result, good only if its call is certified.
LEMMA ResultKeeps ==
    ASSUME IInv, NEW k \in DOMAIN call, NEW ok \in BOOLEAN, ok => call[k] = "certified",
           wf.pc = "collect", k \notin told, told' = told \cup {k},
           resultsCh' = Append(resultsCh, [job |-> k, ok |-> ok]),
           UNCHANGED <<opts, snapshot, wf, file, call>>
    PROVE  IInv'
  <1> DEFINE n == Len(resultsCh)
  <1>t. TypeInv /\ ChannelInv /\ DOMAIN call = Calls /\ IsList(resultsCh) /\ told \subseteq Calls
    BY DEF IInv, TypeInv, ChannelInv
  <1>1. n \in Nat /\ DOMAIN resultsCh = 1..n  BY <1>t, ListFacts, Zenon
  <1>2. PICK r : r = [job |-> k, ok |-> ok]  OBVIOUS
  <1>3. r.job = k /\ r.ok = ok  BY <1>2
  <1>4. /\ IsList(resultsCh') /\ DOMAIN resultsCh' = 1..(n + 1)
        /\ \A i \in 1..n : resultsCh'[i] = resultsCh[i]
        /\ resultsCh'[n + 1] = r
    BY <1>t, <1>2, ListAppend
  <1> HIDE DEF n
  <1>5. Calls' = Calls  BY DEF Calls
  <1>6. TypeInv'  BY <1>t, <1>5 DEF TypeInv
  <1>7. PlaceInv'
    <2>1. SentUpTo(Len(opts.addresses), Len(opts.addresses))' <=> SentUpTo(Len(opts.addresses), Len(opts.addresses))
      BY <1>5 DEF SentUpTo
    <2>2. Configured' <=> Configured  BY DEF Configured
    <2>3. QED  BY <2>1, <2>2 DEF PlaceInv, Before, Sending, IInv
  <1>8. ChannelInv'
    <2>1. IsFiniteSet(CertifiedTold) /\ IsFiniteSet(OkJobs)
          /\ Cardinality(CertifiedTold) \in Nat /\ Cardinality(OkJobs) \in Nat
      BY <1>t, CountedFinite
    <2>2. OkJobs' = IF ok THEN OkJobs \cup {k} ELSE OkJobs
      <3>1. ASSUME NEW j \in OkJobs' PROVE j \in OkJobs \/ (ok /\ j = k)
        BY <1>1, <1>3, <1>4, <3>1 DEF OkJobs
      <3>2. ASSUME NEW j \in OkJobs PROVE j \in OkJobs'
        <4>1. PICK i \in 1..n : resultsCh[i].ok /\ resultsCh[i].job = j  BY <1>1, <3>2 DEF OkJobs
        <4>2. i \in DOMAIN resultsCh' /\ resultsCh'[i] = resultsCh[i]  BY <1>1, <1>4, <4>1
        <4>3. QED  BY <4>1, <4>2 DEF OkJobs
      <3>3. ok => k \in OkJobs'
        <4>1. n + 1 \in DOMAIN resultsCh'  BY <1>1, <1>4
        <4>2. QED  BY <1>3, <1>4, <4>1 DEF OkJobs
      <3>4. QED  BY <3>1, <3>2, <3>3
    <2>3. CertifiedTold' = IF call[k] = "certified" THEN CertifiedTold \cup {k} ELSE CertifiedTold
      BY DEF CertifiedTold
    <2>4. k \notin CertifiedTold /\ k \notin OkJobs  BY <1>t DEF CertifiedTold, OkJobs, ChannelInv
    <2>5. /\ Cardinality(CertifiedTold \cup {k}) = Cardinality(CertifiedTold) + 1
          /\ Cardinality(OkJobs \cup {k}) = Cardinality(OkJobs) + 1
      BY <2>1, <2>4, FS_AddElement
    <2>6. snapshot'.confirmedCalls + Cardinality(OkJobs') <= Cardinality(CertifiedTold')
      <3>1. snapshot.confirmedCalls + Cardinality(OkJobs) <= Cardinality(CertifiedTold)
            /\ snapshot.confirmedCalls \in Nat
        BY <1>t DEF ChannelInv, TypeInv
      <3>2. CASE ok  BY <2>1, <2>2, <2>3, <2>5, <3>1, <3>2
      <3>3. CASE ~ok  BY <2>1, <2>2, <2>3, <2>5, <3>1, <3>3
      <3>4. QED  BY <3>2, <3>3
    <2>7. \A i \in DOMAIN resultsCh' : /\ resultsCh'[i].job \in told' /\ resultsCh'[i].ok \in BOOLEAN
                                       /\ resultsCh'[i].ok => call[resultsCh'[i].job] = "certified"
      <3>1. \A i \in 1..n : /\ resultsCh[i].job \in told /\ resultsCh[i].ok \in BOOLEAN
                            /\ resultsCh[i].ok => call[resultsCh[i].job] = "certified"
        BY <1>t, <1>1 DEF ChannelInv
      <3>2. QED  BY <1>1, <1>3, <1>4, <3>1
    <2>8. \A i, j \in DOMAIN resultsCh' : resultsCh'[i].job = resultsCh'[j].job => i = j
      <3>1. \A i \in 1..n : resultsCh[i].job # k  BY <1>t, <1>1 DEF ChannelInv
      <3>2. \A i, j \in 1..n : resultsCh[i].job = resultsCh[j].job => i = j  BY <1>t, <1>1 DEF ChannelInv
      <3>3. QED  BY <1>1, <1>3, <1>4, <3>1, <3>2
    <2>9. QED  BY <1>4, <2>6, <2>7, <2>8 DEF ChannelInv
  <1>9. SumInv'  BY DEF SumInv, IInv
  <1>10. OutcomeInv'
    <2>1. snapshot.phase # "completed"  BY NotCompleted
    <2>2. QED  BY <2>1 DEF OutcomeInv
  <1>11. QED  BY <1>6, <1>7, <1>8, <1>9, <1>10 DEF IInv

\* A block includes call k.
LEMMA IncludeKeeps == ASSUME IInv, NEW k \in DOMAIN call, IncludeTransaction(k) PROVE IInv'
  <1>t. TypeInv /\ ChannelInv /\ DOMAIN call = Calls  BY DEF IInv, TypeInv
  <1>0. /\ call[k] = "sent" /\ UNCHANGED <<opts, snapshot, wf, file, told, resultsCh>>
        /\ \E v \in {"certified", "reverted"} : call' = [call EXCEPT ![k] = v]
    BY DEF IncludeTransaction
  <1>1. PICK v \in {"certified", "reverted"} : call' = [call EXCEPT ![k] = v]  BY <1>0
  <1>2. DOMAIN call' = Calls /\ \A j \in Calls : call'[j] = IF j = k THEN v ELSE call[j]  BY <1>t, <1>1
  <1>3. Calls' = Calls  BY <1>0 DEF Calls
  <1>4. TypeInv'
    <2>1. \A j \in Calls : call'[j] \in {"none", "sent", "certified", "reverted"}
      BY <1>t, <1>2 DEF TypeInv
    <2>2. QED  BY <1>t, <1>0, <1>2, <1>3, <2>1, Zenon DEF TypeInv
  <1>5. \A j \in Calls : call'[j] = "none" <=> call[j] = "none"  BY <1>t, <1>0, <1>2
  <1>6. PlaceInv'
    <2>1. PlaceInv  BY DEF IInv
    <2>2. /\ SentUpTo(wf.i - 1, wf.i - 1)' <=> SentUpTo(wf.i - 1, wf.i - 1)
          /\ SentUpTo(wf.i, wf.i - 1)' <=> SentUpTo(wf.i, wf.i - 1)
          /\ SentUpTo(0, 0)' <=> SentUpTo(0, 0)
          /\ SentUpTo(Len(opts.addresses), Len(opts.addresses))'
               <=> SentUpTo(Len(opts.addresses), Len(opts.addresses))
      BY <1>0, <1>3, <1>5 DEF SentUpTo
    <2>3. (Configured' <=> Configured) /\ (Quiet' <=> Quiet)  BY <1>0 DEF Configured, Quiet
    <2>4. QED  BY <1>0, <1>3, <2>1, <2>2, <2>3, Zenon DEF PlaceInv
  <1>7. ChannelInv'
    <2>1. IsFiniteSet(CertifiedTold) /\ IsFiniteSet(told) /\ Cardinality(CertifiedTold) \in Nat
          /\ Cardinality(OkJobs) \in Nat
      BY <1>t, CountedFinite
    <2>2. OkJobs' = OkJobs  BY <1>0 DEF OkJobs
    <2>3. CertifiedTold \subseteq CertifiedTold' /\ CertifiedTold' \subseteq told
      BY <1>t, <1>0, <1>2 DEF CertifiedTold, TypeInv
    <2>4. IsFiniteSet(CertifiedTold') /\ Cardinality(CertifiedTold) <= Cardinality(CertifiedTold')
          /\ Cardinality(CertifiedTold') \in Nat
      BY <2>1, <2>3, FS_Subset, FS_CardinalityType
    <2>5. snapshot'.confirmedCalls + Cardinality(OkJobs') <= Cardinality(CertifiedTold')
      BY <1>t, <1>0, <2>1, <2>2, <2>4 DEF ChannelInv, TypeInv
    <2>6. \A i \in DOMAIN resultsCh : resultsCh[i].ok => call'[resultsCh[i].job] = "certified"
      BY <1>t, <1>0, <1>2 DEF ChannelInv, TypeInv
    <2>7. QED  BY <1>t, <1>0, <2>5, <2>6 DEF ChannelInv
  <1>8. SumInv'  BY <1>0 DEF SumInv, IInv
  <1>9. OutcomeInv'
    <2>1. AllDone' <=> AllDone
      <3>1. SentUpTo(0, 0)' <=> SentUpTo(0, 0)  BY <1>0, <1>3, <1>5 DEF SentUpTo
      <3>2. QED  BY <1>0, <3>1 DEF AllDone
    <2>2. QED  BY <1>0, <2>1 DEF OutcomeInv, IInv
  <1>10. QED  BY <1>4, <1>6, <1>7, <1>8, <1>9 DEF IInv

\* What a receipt does to the page.
ShowsReceipt(k, ok, v) ==
    /\ DOMAIN snapshot' = Fields /\ snapshot'.enabled = snapshot.enabled
    /\ snapshot'.totalCalls = snapshot.totalCalls /\ snapshot'.sentCalls = snapshot.sentCalls
    /\ snapshot'.verifiedTxPerCall = snapshot.verifiedTxPerCall /\ snapshot'.phase = snapshot.phase
    /\ snapshot'.confirmedCalls = snapshot.confirmedCalls + (IF ok THEN 1 ELSE 0)
    /\ snapshot'.failedCalls = snapshot.failedCalls + (IF ok THEN 0 ELSE 1)
    /\ snapshot'.verifiedTxConfirmed = (IF ok THEN v ELSE snapshot.verifiedTxConfirmed)
    /\ snapshot'.verifiedTxTotal = snapshot.verifiedTxTotal /\ snapshot'.replayLoaded = snapshot.replayLoaded
    /\ snapshot'.transactions = LastTransactions(Append(snapshot.transactions,
                                   [job |-> k, status |-> IF ok THEN "confirmed" ELSE "failed"]))

\* It is shown so.
LEMMA ReceiptShown ==
    ASSUME TypeInv, NEW k, NEW ok \in BOOLEAN, NEW v, snapshot' = WithReceipt(snapshot, k, ok, v)
    PROVE  ShowsReceipt(k, ok, v)
  <1>1. DOMAIN snapshot = Fields /\ snapshot.confirmedCalls \in Nat /\ snapshot.failedCalls \in Nat
    BY DEF TypeInv
  <1>2. CASE ok  BY <1>1, <1>2 DEF WithReceipt, Fields, ShowsReceipt
  <1>3. CASE ~ok  BY <1>1, <1>3 DEF WithReceipt, Fields, ShowsReceipt
  <1>4. QED  BY <1>2, <1>3

\* The workflow takes a result.
LEMMA CollectKeeps == ASSUME IInv, Collect PROVE IInv'
  <1> DEFINE n == Len(resultsCh)
  <1>t. /\ TypeInv /\ ChannelInv /\ IsList(resultsCh) /\ resultsCh # <<>>
        /\ DOMAIN wf = {"pc", "i", "confirmedVerified", "firstErr"} /\ wf.i \in Nat \ {0}
        /\ snapshot.confirmedCalls \in Nat /\ snapshot.failedCalls \in Nat
        /\ file.verifiedTxTotal \in Int /\ snapshot.verifiedTxPerCall \in Int /\ wf.firstErr \in BOOLEAN
    BY DEF IInv, TypeInv, ChannelInv, Collect
  <1>0. /\ wf.pc = "collect" /\ wf.i <= Len(opts.addresses) /\ resultsCh' = Tail(resultsCh)
        /\ UNCHANGED <<opts, file, call, told>>
    BY DEF Collect, At
  <1>1. /\ IsList(resultsCh') /\ n \in Nat \ {0} /\ Head(resultsCh) = resultsCh[1]
        /\ DOMAIN resultsCh = 1..n /\ DOMAIN resultsCh' = 1..(n - 1)
        /\ \A i \in 1..(n - 1) : resultsCh'[i] = resultsCh[i + 1]
    BY <1>t, <1>0, ListTail
  <1> HIDE DEF n
  <1>2. PICK k, ok : k = resultsCh[1].job /\ ok = resultsCh[1].ok  OBVIOUS
  <1>3. ok \in BOOLEAN /\ k \in told /\ (ok => call[k] = "certified")
    <2>1. 1 \in DOMAIN resultsCh  BY <1>1
    <2>2. QED  BY <1>t, <1>2, <2>1 DEF ChannelInv
  <1>4. PICK v : v = wf.confirmedVerified + IF ok THEN file.verifiedTxTotal ELSE 0  OBVIOUS
  <1>5. /\ wf' = [wf EXCEPT !.i = @ + 1, !.confirmedVerified = v, !.firstErr = @ \/ ~ok]
        /\ snapshot' = WithReceipt(snapshot, k, ok, v)
    BY <1>1, <1>2, <1>4 DEF Collect
  <1>6. /\ wf'.pc = "collect" /\ wf'.i = wf.i + 1 /\ wf'.confirmedVerified = v
        /\ wf'.firstErr = (wf.firstErr \/ ~ok) /\ DOMAIN wf' = DOMAIN wf
    BY <1>t, <1>0, <1>5
  <1>7. /\ DOMAIN snapshot' = Fields /\ snapshot'.enabled = snapshot.enabled
        /\ snapshot'.totalCalls = snapshot.totalCalls /\ snapshot'.sentCalls = snapshot.sentCalls
        /\ snapshot'.verifiedTxPerCall = snapshot.verifiedTxPerCall /\ snapshot'.phase = snapshot.phase
        /\ snapshot'.confirmedCalls = snapshot.confirmedCalls + (IF ok THEN 1 ELSE 0)
        /\ snapshot'.failedCalls = snapshot.failedCalls + (IF ok THEN 0 ELSE 1)
        /\ snapshot'.verifiedTxConfirmed = (IF ok THEN v ELSE snapshot.verifiedTxConfirmed)
    <2>1. ShowsReceipt(k, ok, v)  BY <1>t, <1>3, <1>5, ReceiptShown, Zenon
    <2>2. QED  BY <2>1 DEF ShowsReceipt
  <1>8. /\ Configured /\ SentUpTo(Len(opts.addresses), Len(opts.addresses))
        /\ snapshot.confirmedCalls + snapshot.failedCalls = wf.i - 1
        /\ snapshot.failedCalls > 0 => wf.firstErr
    BY <1>0 DEF IInv, PlaceInv
  <1>9. Calls' = Calls /\ Len(opts.addresses) \in Nat  BY <1>t, <1>0, CallsCounted DEF Calls
  <1>10. /\ snapshot'.confirmedCalls \in Nat /\ snapshot'.failedCalls \in Nat
         /\ snapshot'.confirmedCalls + snapshot'.failedCalls = wf'.i - 1
    BY <1>t, <1>3, <1>6, <1>7, <1>8
  <1>11. TypeInv'
    <2>1. wf'.i \in Nat \ {0} /\ wf'.firstErr \in BOOLEAN  BY <1>t, <1>6
    <2>2. QED  BY <1>t, <1>0, <1>6, <1>7, <1>9, <1>10, <2>1, Zenon DEF TypeInv
  <1>12. PlaceInv'
    <2>1. Configured'  BY <1>0, <1>7, <1>8 DEF Configured
    <2>2. SentUpTo(Len(opts.addresses), Len(opts.addresses))'  BY <1>0, <1>7, <1>8, <1>9 DEF SentUpTo
    <2>3. wf'.i <= Len(opts.addresses) + 1  BY <1>t, <1>0, <1>6, <1>9
    <2>4. snapshot'.failedCalls > 0 => wf'.firstErr
      <3>1. CASE ok  BY <1>t, <1>6, <1>7, <1>8, <3>1
      <3>2. CASE ~ok  BY <1>6, <3>2
      <3>3. QED  BY <1>3, <3>1, <3>2
    <2>5. QED  BY <1>0, <1>6, <1>10, <2>1, <2>2, <2>3, <2>4 DEF PlaceInv, Before, Sending
  <1>13. ChannelInv'
    <2>1. /\ IsFiniteSet(OkJobs) /\ Cardinality(CertifiedTold) \in Nat /\ Cardinality(OkJobs) \in Nat
          /\ snapshot.confirmedCalls + Cardinality(OkJobs) <= Cardinality(CertifiedTold)
      BY <1>t, CountedFinite DEF ChannelInv
    <2>2. CertifiedTold' = CertifiedTold  BY <1>0 DEF CertifiedTold
    <2>3. /\ \A i, j \in 1..n : resultsCh[i].job = resultsCh[j].job => i = j
          /\ \A i \in 1..n : /\ resultsCh[i].job \in told /\ resultsCh[i].ok \in BOOLEAN
                             /\ resultsCh[i].ok => call[resultsCh[i].job] = "certified"
      BY <1>t, <1>1 DEF ChannelInv
    <2>4. \A i \in 1..(n - 1) : i + 1 \in 1..n /\ i + 1 # 1  BY <1>1
    <2>5. OkJobs' = IF ok THEN OkJobs \ {k} ELSE OkJobs
      <3>1. ASSUME NEW j \in OkJobs' PROVE j \in OkJobs /\ j # k
        <4>1. PICK i \in 1..(n - 1) : resultsCh'[i].ok /\ resultsCh'[i].job = j  BY <1>1, <3>1 DEF OkJobs
        <4>2. resultsCh[i + 1].ok /\ resultsCh[i + 1].job = j /\ i + 1 \in DOMAIN resultsCh
          BY <1>1, <2>4, <4>1
        <4>3. 1 \in 1..n  BY <1>1
        <4>4. j # k  BY <1>2, <2>3, <2>4, <4>2, <4>3
        <4>5. QED  BY <4>2, <4>4 DEF OkJobs
      <3>2. ASSUME NEW j \in OkJobs, ~ok \/ j # k PROVE j \in OkJobs'
        <4>1. PICK i \in 1..n : resultsCh[i].ok /\ resultsCh[i].job = j  BY <1>1, <3>2 DEF OkJobs
        <4>2. i # 1  BY <1>2, <3>2, <4>1
        <4>3. i - 1 \in 1..(n - 1) /\ (i - 1) + 1 = i  BY <1>1, <4>2
        <4>4. i - 1 \in DOMAIN resultsCh' /\ resultsCh'[i - 1] = resultsCh[i]  BY <1>1, <4>3
        <4>5. QED  BY <4>1, <4>4 DEF OkJobs
      <3>3. QED  BY <1>3, <3>1, <3>2
    <2>6. ok => k \in OkJobs
      <3>1. 1 \in DOMAIN resultsCh  BY <1>1
      <3>2. QED  BY <1>2, <3>1 DEF OkJobs
    <2>7. k \in OkJobs => Cardinality(OkJobs \ {k}) = Cardinality(OkJobs) - 1  BY <2>1, FS_RemoveElement
    <2>8. snapshot'.confirmedCalls + Cardinality(OkJobs') <= Cardinality(CertifiedTold')
      <3>1. CASE ok  BY <1>t, <1>7, <2>1, <2>2, <2>5, <2>6, <2>7, <3>1
      <3>2. CASE ~ok  BY <1>t, <1>7, <2>1, <2>2, <2>5, <3>2
      <3>3. QED  BY <1>3, <3>1, <3>2
    <2>9. \A i \in DOMAIN resultsCh' : /\ resultsCh'[i].job \in told /\ resultsCh'[i].ok \in BOOLEAN
                                       /\ resultsCh'[i].ok => call[resultsCh'[i].job] = "certified"
      BY <1>1, <2>3, <2>4
    <2>10. \A i, j \in DOMAIN resultsCh' : resultsCh'[i].job = resultsCh'[j].job => i = j
      BY <1>1, <2>3, <2>4
    <2>11. QED  BY <1>0, <1>1, <2>8, <2>9, <2>10 DEF ChannelInv
  <1>14. SumInv'
    <2>1. /\ wf.confirmedVerified = snapshot.confirmedCalls * snapshot.verifiedTxPerCall
          /\ snapshot.verifiedTxConfirmed = wf.confirmedVerified
      BY DEF IInv, SumInv
    <2>2. snapshot.verifiedTxPerCall = file.verifiedTxTotal /\ snapshot.sentCalls = Len(opts.addresses)
      BY <1>8 DEF Configured, SentUpTo
    <2>3. \A c \in Nat, p \in Int : c * p \in Int /\ c * p + p = (c + 1) * p /\ c * p + 0 = c * p
      OBVIOUS
    <2>4. v = snapshot'.confirmedCalls * snapshot.verifiedTxPerCall
      <3>1. CASE ok
        <4>1. v = snapshot.confirmedCalls * snapshot.verifiedTxPerCall + snapshot.verifiedTxPerCall
          BY <1>4, <2>1, <2>2, <3>1
        <4>2. snapshot'.confirmedCalls = snapshot.confirmedCalls + 1  BY <1>7, <3>1
        <4>3. snapshot.confirmedCalls * snapshot.verifiedTxPerCall + snapshot.verifiedTxPerCall
                = (snapshot.confirmedCalls + 1) * snapshot.verifiedTxPerCall
          BY <1>t, <2>3, Zenon
        <4>4. QED  BY <4>1, <4>2, <4>3, Zenon
      <3>2. CASE ~ok
        <4>1. v = snapshot.confirmedCalls * snapshot.verifiedTxPerCall + 0  BY <1>4, <2>1, <3>2
        <4>2. snapshot'.confirmedCalls = snapshot.confirmedCalls  BY <1>t, <1>7, <3>2
        <4>3. PICK m \in Int : m = snapshot.confirmedCalls * snapshot.verifiedTxPerCall  BY <1>t, <2>3
        <4>4. v = m  BY <4>1, <4>3
        <4>5. QED  BY <4>2, <4>3, <4>4
      <3>3. QED  BY <1>3, <3>1, <3>2
    <2>5. snapshot'.verifiedTxConfirmed = v
      <3>1. CASE ok  BY <1>7, <3>1
      <3>2. CASE ~ok
        <4>1. v = wf.confirmedVerified + 0  BY <1>4, <3>2
        <4>2. wf.confirmedVerified \in Int  BY <1>t, <2>1
        <4>3. QED  BY <1>7, <2>1, <3>2, <4>1, <4>2
      <3>3. QED  BY <1>3, <3>1, <3>2
    <2>6. snapshot'.confirmedCalls + snapshot'.failedCalls <= snapshot'.sentCalls
      BY <1>t, <1>0, <1>6, <1>7, <1>9, <1>10, <2>2
    <2>7. QED  BY <1>6, <1>7, <2>4, <2>5, <2>6 DEF SumInv
  <1>15. OutcomeInv'
    <2>1. snapshot.phase # "completed"  BY <1>0, NotCompleted
    <2>2. QED  BY <1>6, <1>7, <2>1 DEF OutcomeInv
  <1>16. QED  BY <1>11, <1>12, <1>13, <1>14, <1>15 DEF IInv

\* Every step keeps the invariant.
LEMMA InvariantKept == IInv /\ [Next]_vars => IInv'
  <1> SUFFICES ASSUME IInv, [Next]_vars PROVE IInv'  OBVIOUS
  <1>1. CASE Generate \/ SkipGenerate \/ LoadStored \/ ExporterEvent \/ SetupFails \/ ExporterEnds
           \/ BundleReady
    BY <1>1, PreparationSteps, PreparesKeeps
  <1>2. CASE Configure  BY <1>2, ConfigureKeeps
  <1>3. CASE BuildJob  BY <1>3, BuildJobKeeps
  <1>4. CASE SendTransaction  BY <1>4, SentKeeps DEF SendTransaction, At
  <1>5. CASE NoteTxSent  BY <1>5, NoteTxSentKeeps
  <1>6. CASE Collect  BY <1>6, CollectKeeps
  <1>7. CASE CollectEnds  BY <1>7, CollectEndsKeeps
  <1>8. CASE ShowError \/ ShowDone  BY <1>8, OutcomeKeeps
  <1>9. CASE WorkflowFails  BY <1>9, WorkflowFailsKeeps
  <1>10. CASE ServerFails  BY <1>10, ServerFailsKeeps
  <1>11. ASSUME NEW k \in DOMAIN call, ReceiptSeen(k) PROVE IInv'
    <2>1. (call[k] = "certified") \in BOOLEAN  OBVIOUS
    <2>2. QED  BY <1>11, <2>1, ResultKeeps DEF ReceiptSeen, At
  <1>12. ASSUME NEW k \in DOMAIN call, ReceiptLost(k) PROVE IInv'
    BY <1>12, ResultKeeps DEF ReceiptLost, At
  <1>13. ASSUME NEW k \in DOMAIN call, IncludeTransaction(k) PROVE IInv'  BY <1>13, IncludeKeeps
  <1>14. CASE UNCHANGED vars
    <2>1. opts' = opts /\ snapshot' = snapshot /\ wf' = wf /\ file' = file /\ call' = call /\ told' = told
          /\ resultsCh' = resultsCh
      BY <1>14 DEF vars
    <2>2. TypeInv'  BY <2>1, Zenon DEF IInv, TypeInv, Calls
    <2>3. PlaceInv'  BY <2>1, Zenon DEF IInv, PlaceInv, Quiet, SentUpTo, Configured, Calls
    <2>4. ChannelInv'  BY <2>1, Zenon DEF IInv, ChannelInv, OkJobs, CertifiedTold
    <2>5. SumInv' /\ OutcomeInv'  BY <2>1, Zenon DEF IInv, SumInv, OutcomeInv, AllDone, SentUpTo, Calls
    <2>6. QED  BY <2>2, <2>3, <2>4, <2>5 DEF IInv
  <1>15. QED
    BY <1>1, <1>2, <1>3, <1>4, <1>5, <1>6, <1>7, <1>8, <1>9, <1>10, <1>11, <1>12, <1>13, <1>14, Zenon
    DEF Next, Workflow

\* The invariant holds.
LEMMA InvariantHolds == Spec => []IInv
  BY InvariantStarts, InvariantKept, PTL DEF Spec

(***************************************************************************)
(* However receipts come in, and whichever are lost, the page never shows  *)
(* more than was certified, and its counts agree with each other           *)
(* (withReceipt, submitBundleWithProgress).                                *)
(***************************************************************************)
THEOREM ReceiptsShownAreCertified == Spec => []ShownIsCertified
  <1>1. IInv => ShownIsCertified
    <2> SUFFICES ASSUME IInv PROVE ShownIsCertified  OBVIOUS
    <2> DEFINE certified == {k \in DOMAIN call : call[k] = "certified"}
    <2>1. TypeInv /\ ChannelInv /\ SumInv  BY DEF IInv
    <2>2. CertifiedTold \subseteq certified /\ certified \subseteq Calls
      BY <2>1 DEF CertifiedTold, TypeInv
    <2> HIDE DEF certified
    <2>3. IsFiniteSet(Calls) /\ Cardinality(CertifiedTold) \in Nat /\ Cardinality(OkJobs) \in Nat
      BY <2>1, CallsCounted, CountedFinite
    <2>4. Cardinality(CertifiedTold) <= Cardinality(certified) /\ Cardinality(certified) \in Nat
      BY <2>2, <2>3, FS_Subset, FS_CardinalityType
    <2>5. snapshot.confirmedCalls <= Cardinality(certified)
      BY <2>1, <2>3, <2>4 DEF ChannelInv, TypeInv
    <2>6. QED  BY <2>1, <2>5 DEF ShownIsCertified, SumInv, certified
  <1>2. QED  BY <1>1, InvariantHolds, PTL

(***************************************************************************)
(* The page says "completed" only after a run without an error in which    *)
(* every call was certified, and its total is then that of all calls       *)
(* (runDashboard, setDone, setError).                                      *)
(***************************************************************************)
THEOREM CompletedIsCertified == Spec => []CompletedMeansCertified
  <1>1. IInv => CompletedMeansCertified
    <2> SUFFICES ASSUME IInv, snapshot.phase = "completed" PROVE CompletedMeansCertified
      BY DEF CompletedMeansCertified
    <2>1. TypeInv /\ ChannelInv /\ SumInv /\ AllDone /\ snapshot.error = "" /\ snapshot.done
      BY DEF IInv, OutcomeInv
    <2>2. DOMAIN call = Calls /\ snapshot.enabled \in BOOLEAN /\ snapshot.confirmedCalls \in Nat
      BY <2>1 DEF TypeInv
    <2>3. snapshot.verifiedTxConfirmed = snapshot.totalCalls * snapshot.verifiedTxPerCall
      BY <2>1, <2>2 DEF SumInv, AllDone
    <2>4. CASE snapshot.enabled
      <3>1. IsFiniteSet(Calls) /\ Cardinality(Calls) = Len(opts.addresses) /\ Len(opts.addresses) \in Nat
        BY <2>1, CallsCounted
      <3>2. CertifiedTold \subseteq Calls  BY <2>1 DEF CertifiedTold, TypeInv
      <3>3. Len(opts.addresses) <= Cardinality(CertifiedTold)
        <4>1. snapshot.confirmedCalls = Len(opts.addresses)  BY <2>1, <2>4 DEF AllDone
        <4>2. snapshot.confirmedCalls + Cardinality(OkJobs) <= Cardinality(CertifiedTold)
          BY <2>1 DEF ChannelInv
        <4>3. Cardinality(OkJobs) \in Nat /\ Cardinality(CertifiedTold) \in Nat  BY <2>1, CountedFinite
        <4>4. QED  BY <2>2, <4>1, <4>2, <4>3
      <3>4. CertifiedTold = Calls
        <4>1. Cardinality(CertifiedTold) <= Cardinality(Calls) /\ Cardinality(CertifiedTold) \in Nat
          BY <2>1, <3>1, <3>2, FS_Subset, CountedFinite
        <4>2. Cardinality(CertifiedTold) = Cardinality(Calls)  BY <3>1, <3>3, <4>1
        <4>3. QED  BY <3>1, <3>2, <4>2, FS_Subset
      <3>5. \A k \in DOMAIN call : call[k] = "certified"  BY <2>2, <3>4 DEF CertifiedTold
      <3>6. QED  BY <2>1, <2>3, <2>4, <3>5 DEF CompletedMeansCertified
    <2>5. CASE ~snapshot.enabled
      <3>1. SentUpTo(0, 0)  BY <2>1, <2>5 DEF AllDone
      <3>2. \A k \in DOMAIN call : call[k] = "none"
        <4>1. Len(opts.addresses) \in Nat  BY <2>1, CallsCounted
        <4>2. QED  BY <2>2, <3>1, <4>1 DEF SentUpTo, Calls
      <3>3. QED  BY <2>1, <2>3, <2>5, <3>2 DEF CompletedMeansCertified
    <2>6. QED  BY <2>2, <2>4, <2>5
  <1>2. QED  BY <1>1, InvariantHolds, PTL

-----------------------------------------------------------------------------
(* The phase on the page *)

\* How far the phase may be, by where the workflow is.
Reached == CASE wf.pc = "start" -> 0
             [] wf.pc = "export" -> IF wf.i = 1 THEN 0 ELSE IF wf.i <= 2 * LiveLanes + 3 THEN 2 ELSE 3
             [] wf.pc \in {"load", "ready", "submit"} -> 3
             [] wf.pc \in {"build", "send", "note", "collect", "finish", "error"} -> 4
             [] OTHER -> 5

\* The phase shown is no further than the workflow's place allows.
PhaseInv == /\ server = "down" \/ Rank(snapshot.phase) <= Reached
            /\ wf.pc = "start" => wf.i = 1

\* What a step may do to the page.
PhaseMoves == /\ Rank(snapshot'.phase) >= Rank(snapshot.phase) \/ server = "down"
              /\ snapshot.done => snapshot'.done /\ (snapshot.error # "" => snapshot'.error # "")

\* The ranks.
LEMMA Ranks ==
    /\ \A p : Rank(p) \in 0..5
    /\ Rank("starting") = 0 /\ Rank("proof_setup") = 1 /\ Rank("proof_generation") = 2
    /\ Rank("bundle_ready") = 3 /\ Rank("l1_submitting") = 4 /\ Rank("failed") = 5 /\ Rank("completed") = 5
  <1>1. ASSUME NEW p PROVE Rank(p) \in 0..5  BY DEF Rank
  <1>2. QED  BY <1>1 DEF Rank

\* A step that leaves phase, done and error alone, and goes on.
LEMMA PhaseSame ==
    ASSUME PhaseInv, server' = server, snapshot'.phase = snapshot.phase, snapshot'.done = snapshot.done,
           snapshot'.error = snapshot.error, (wf'.pc = "start" => wf'.i = 1),
           Reached \in Int, Reached' \in Int, Reached <= Reached'
    PROVE  PhaseInv' /\ PhaseMoves
  <1>1. Rank(snapshot.phase) \in Int  BY Ranks
  <1>2. snapshot.done => snapshot'.done /\ (snapshot.error # "" => snapshot'.error # "")  BY Zenon
  <1>3. /\ Rank(snapshot'.phase) >= Rank(snapshot.phase) \/ server = "down"
        /\ server' = "down" \/ Rank(snapshot'.phase) <= Reached'
    BY <1>1 DEF PhaseInv
  <1>4. QED  BY <1>2, <1>3, Zenon DEF PhaseInv, PhaseMoves

\* One that shows a phase that is further, as far as the workflow then is.
LEMMA PhaseForward ==
    ASSUME PhaseInv, server' = server, snapshot'.done = snapshot.done, snapshot'.error = snapshot.error,
           (wf'.pc = "start" => wf'.i = 1), Reached \in Int, Reached' \in Int, NEW r \in Int, Rank(snapshot'.phase) = r,
           Reached <= r, r <= Reached'
    PROVE  PhaseInv' /\ PhaseMoves
  <1>1. Rank(snapshot.phase) \in Int  BY Ranks
  <1>2. snapshot.done => snapshot'.done /\ (snapshot.error # "" => snapshot'.error # "")  BY Zenon
  <1>3. /\ Rank(snapshot'.phase) >= Rank(snapshot.phase) \/ server = "down"
        /\ server' = "down" \/ Rank(snapshot'.phase) <= Reached'
    BY <1>1 DEF PhaseInv
  <1>4. QED  BY <1>2, <1>3, Zenon DEF PhaseInv, PhaseMoves

\* An event of the exporter.
LEMMA EventPhase == ASSUME IInv, PhaseInv, ExporterEvent PROVE PhaseInv' /\ PhaseMoves
  <1>1. TypeInv /\ DOMAIN snapshot = Fields /\ DOMAIN wf = {"pc", "i", "confirmedVerified", "firstErr"}
        /\ wf.i \in Nat \ {0}
    BY DEF IInv, TypeInv
  <1>2. LiveLanes \in Nat /\ BatchSize \in Nat  BY <1>1, LiveLanesAre
  <1>3. PICK e : e = ExportEvents(BatchSize, LiveLanes)[wf.i]  OBVIOUS
  <1>4. wf.i \in 1..(2 * LiveLanes + 3)  BY <1>1, <1>2, EventsAre DEF ExporterEvent
  <1>5. IsEvent(e, LiveLanes, wf.i, BatchSize)  BY <1>2, <1>3, <1>4, EventsAre
  <1>6. /\ snapshot' = WithExporterEvent(snapshot, e) /\ wf' = [wf EXCEPT !.i = @ + 1]
        /\ wf.pc = "export" /\ opts' = opts /\ server' = server
    BY <1>3 DEF ExporterEvent, At
  <1>7. wf'.pc = "export" /\ wf'.i = wf.i + 1 /\ LiveLanes' = LiveLanes  BY <1>1, <1>6 DEF LiveLanes
  <1>8. /\ Reached = IF wf.i = 1 THEN 0 ELSE IF wf.i <= 2 * LiveLanes + 3 THEN 2 ELSE 3
        /\ Reached' = IF wf'.i = 1 THEN 0 ELSE IF wf'.i <= 2 * LiveLanes' + 3 THEN 2 ELSE 3
    BY <1>6, <1>7 DEF Reached
  <1>9. /\ snapshot'.done = snapshot.done /\ snapshot'.error = snapshot.error
        /\ snapshot'.phase = IF e.event = "setup_started" THEN "proof_setup"
                             ELSE IF e.event = "bundle_completed" THEN "bundle_ready" ELSE "proof_generation"
    BY <1>1, <1>5, <1>6 DEF WithExporterEvent, Fields, IsEvent, EventNames
  <1>10. Rank(snapshot'.phase) = IF wf.i = 1 THEN 1 ELSE IF wf.i = 2 * LiveLanes + 3 THEN 3 ELSE 2
    BY <1>2, <1>4, <1>5, <1>9, Ranks DEF IsEvent
  <1>11. QED
    <2>1. Reached \in Int /\ Reached' \in Int  BY <1>8
    <2>2. Rank(snapshot'.phase) \in Int /\ Reached <= Rank(snapshot'.phase) /\ Rank(snapshot'.phase) <= Reached'
      BY <1>2, <1>4, <1>7, <1>8, <1>10
    <2>3. QED  BY <1>6, <1>7, <1>9, <2>1, <2>2, PhaseForward

\* The places from which and to which the workflow goes with the phase unchanged.
LEMMA PlacesOnward ==
    ASSUME TypeInv, PhaseInv, opts' = opts,
           \/ wf.pc = "start" /\ wf'.pc = "export" /\ wf'.i = wf.i
           \/ wf.pc \in {"export", "load"} /\ wf'.pc \in {"ready", "error"}
           \/ wf.pc = "ready" /\ wf'.pc \in {"finish", "submit"}
           \/ wf.pc = "submit" /\ wf'.pc = "error"
           \/ wf.pc \in {"build", "send", "note", "collect"}
              /\ wf'.pc \in {"build", "send", "note", "collect", "finish", "error"}
           \/ wf' = wf
    PROVE  Reached \in Int /\ Reached' \in Int /\ Reached <= Reached' /\ (wf'.pc = "start" => wf'.i = 1)
  <1>1. LiveLanes \in Nat /\ LiveLanes' = LiveLanes  BY LiveLanesAre DEF LiveLanes
  <1>2. Reached \in Int /\ (wf.pc # "end" => Reached <= 4) /\ (wf.pc = "export" => Reached <= 3)
    BY DEF Reached, TypeInv, Before, Sending, After
  <1>3. CASE wf' = wf  BY <1>1, <1>2, <1>3 DEF Reached, PhaseInv
  <1>4. CASE wf.pc = "start" /\ wf'.pc = "export" /\ wf'.i = wf.i  BY <1>1, <1>4 DEF Reached, PhaseInv
  <1>5. CASE wf.pc \in {"export", "load"} /\ wf'.pc \in {"ready", "error"}
    BY <1>2, <1>5 DEF Reached
  <1>6. CASE wf.pc = "ready" /\ wf'.pc \in {"finish", "submit"}  BY <1>6 DEF Reached
  <1>7. CASE wf.pc = "submit" /\ wf'.pc = "error"  BY <1>7 DEF Reached
  <1>8. CASE /\ wf.pc \in {"build", "send", "note", "collect"}
             /\ wf'.pc \in {"build", "send", "note", "collect", "finish", "error"}
    BY <1>8 DEF Reached
  <1>9. QED  BY <1>3, <1>4, <1>5, <1>6, <1>7, <1>8

\* Every step moves the phase as it may.
LEMMA PhaseStep == ASSUME IInv, PhaseInv, [Next]_vars PROVE PhaseInv' /\ PhaseMoves
  <1>t. /\ TypeInv /\ DOMAIN snapshot = Fields /\ DOMAIN wf = {"pc", "i", "confirmedVerified", "firstErr"}
        /\ wf.i \in Nat \ {0}
    BY DEF IInv, TypeInv
  <1>1. CASE Generate
    <2>1. snapshot' = snapshot /\ server' = server /\ opts' = opts  BY <1>1 DEF Generate
    <2>2. wf.pc = "start" /\ wf'.pc = "export" /\ wf'.i = wf.i  BY <1>t, <1>1 DEF Generate, At, Goto
    <2>3. QED  BY <1>t, <2>1, <2>2, PlacesOnward, PhaseSame
  <1>2. CASE SkipGenerate
    <2>1. /\ snapshot'.phase = "bundle_ready" /\ snapshot'.done = snapshot.done
          /\ snapshot'.error = snapshot.error /\ server' = server /\ opts' = opts
      BY <1>t, <1>2 DEF SkipGenerate, Fields
    <2>2. wf.pc = "start" /\ wf'.pc = "load"  BY <1>t, <1>2 DEF SkipGenerate, At, Goto
    <2>3. Reached = 0 /\ Reached' = 3  BY <2>2 DEF Reached
    <2>4. Rank(snapshot'.phase) = 3  BY <2>1, Ranks
    <2>5. QED  BY <2>1, <2>2, <2>3, <2>4, PhaseForward
  <1>3. CASE LoadStored
    <2>1. /\ snapshot'.phase = snapshot.phase /\ snapshot'.done = snapshot.done
          /\ snapshot'.error = snapshot.error
      <3>1. CASE snapshot' = snapshot  BY <3>1
      <3>2. CASE snapshot' # snapshot  BY <1>t, <1>3, <3>2 DEF LoadStored, Fields
      <3>3. QED  BY <3>1, <3>2
    <2>2. wf.pc = "load" /\ wf'.pc \in {"ready", "error"} /\ server' = server /\ opts' = opts
      BY <1>t, <1>3 DEF LoadStored, At, Goto, Return
    <2>3. QED  BY <1>t, <2>1, <2>2, PlacesOnward, PhaseSame
  <1>4. CASE ExporterEvent  BY <1>4, EventPhase
  <1>5. CASE ExporterEnds
    <2>1. wf.pc = "export" /\ server' = server /\ opts' = opts  BY <1>5, Zenon DEF ExporterEnds, At
    <2>2. wf' = [wf EXCEPT !.pc = "ready", !.i = 1] \/ wf' = [wf EXCEPT !.pc = "error"]
      BY <1>5, Zenon DEF ExporterEnds, Goto, Return
    <2>3. wf'.pc \in {"ready", "error"}  BY <1>t, <2>2
    <2>4. CASE snapshot' = snapshot \/ snapshot' = [snapshot EXCEPT !.bundlePath = TRUE]
      <3>1. /\ snapshot'.phase = snapshot.phase /\ snapshot'.done = snapshot.done
            /\ snapshot'.error = snapshot.error
        <4>1. CASE snapshot' = snapshot  BY <4>1
        <4>2. CASE snapshot' = [snapshot EXCEPT !.bundlePath = TRUE]  BY <1>t, <4>2 DEF Fields
        <4>3. QED  BY <2>4, <4>1, <4>2
      <3>2. QED  BY <1>t, <2>1, <2>3, <3>1, PlacesOnward, PhaseSame
    <2>5. CASE snapshot' = [snapshot EXCEPT !.phase = "bundle_ready", !.total = opts.laneCount,
                              !.generated = opts.laneCount,
                              !.replayLoaded = opts.laneCount - LiveLanes,
                              !.verifiedTxTotal = uint64(opts.batchSize * opts.laneCount)]
      <3>1. /\ snapshot'.phase = "bundle_ready" /\ snapshot'.done = snapshot.done
            /\ snapshot'.error = snapshot.error
        BY <1>t, <2>5 DEF Fields
      <3>2. Reached \in Int /\ Reached <= 3 /\ Reached' \in Int /\ Reached' >= 3
        BY <2>1, <2>3 DEF Reached
      <3>3. Rank(snapshot'.phase) = 3  BY <3>1, Ranks
      <3>4. QED  BY <2>1, <2>3, <3>1, <3>2, <3>3, PhaseForward
    <2>6. QED  BY <1>5, <2>4, <2>5, Zenon DEF ExporterEnds
  <1>6. CASE BundleReady
    <2>1. /\ snapshot'.phase = snapshot.phase /\ snapshot'.done = snapshot.done
          /\ snapshot'.error = snapshot.error /\ server' = server /\ opts' = opts
      BY <1>t, <1>6 DEF BundleReady, Fields
    <2>2. wf.pc = "ready" /\ wf'.pc \in {"finish", "submit"}  BY <1>t, <1>6 DEF BundleReady, At, Goto
    <2>3. QED  BY <1>t, <2>1, <2>2, PlacesOnward, PhaseSame
  <1>7. CASE Configure
    <2>1. wf.pc = "submit" /\ server' = server /\ opts' = opts  BY <1>7 DEF Configure, At
    <2>2. CASE Return /\ UNCHANGED snapshot
      <3>1. wf'.pc = "error" /\ snapshot' = snapshot  BY <1>t, <2>2 DEF Return, Goto
      <3>2. QED  BY <1>t, <2>1, <3>1, PlacesOnward, PhaseSame
    <2>3. CASE /\ snapshot' = WithSubmission(snapshot, Len(opts.addresses), file.verifiedTxTotal)
               /\ wf' = [wf EXCEPT !.pc = "build", !.i = 1]
      <3>1. /\ snapshot'.phase = "l1_submitting" /\ snapshot'.done = snapshot.done
            /\ snapshot'.error = snapshot.error /\ wf'.pc = "build"
        BY <1>t, <2>3 DEF WithSubmission, Fields
      <3>2. Reached = 3 /\ Reached' = 4  BY <2>1, <3>1 DEF Reached
      <3>3. Rank(snapshot'.phase) = 4  BY <3>1, Ranks
      <3>4. QED  BY <2>1, <3>1, <3>2, <3>3, PhaseForward
    <2>4. QED  BY <1>7, <2>2, <2>3 DEF Configure
  <1>8. CASE BuildJob
    <2>1. /\ wf.pc = "build" /\ server' = server /\ opts' = opts /\ snapshot' = snapshot
          /\ wf'.pc \in {"build", "send", "error"}
      BY <1>t, <1>8 DEF BuildJob, At, Goto, Return
    <2>2. QED  BY <1>t, <2>1, PlacesOnward, PhaseSame
  <1>9. CASE SendTransaction
    <2>1. /\ wf.pc = "send" /\ server' = server /\ opts' = opts /\ snapshot' = snapshot
          /\ wf'.pc = "note"
      BY <1>t, <1>9 DEF SendTransaction, At, Goto
    <2>2. QED  BY <1>t, <2>1, PlacesOnward, PhaseSame
  <1>10. CASE NoteTxSent
    <2>1. /\ wf.pc = "note" /\ server' = server /\ opts' = opts /\ wf'.pc \in {"send", "collect"}
      BY <1>t, <1>10 DEF NoteTxSent, At
    <2>2. /\ snapshot'.phase = snapshot.phase /\ snapshot'.done = snapshot.done
          /\ snapshot'.error = snapshot.error
      BY <1>t, <1>10 DEF NoteTxSent, WithTxSent, Fields
    <2>3. QED  BY <1>t, <2>1, <2>2, PlacesOnward, PhaseSame
  <1>11. CASE Collect
    <2>1. wf.pc = "collect" /\ server' = server /\ opts' = opts /\ wf'.pc = "collect"
      BY <1>t, <1>11 DEF Collect, At
    <2>2. PICK k, ok, v : snapshot' = WithReceipt(snapshot, k, ok, v)  BY <1>11, Zenon DEF Collect
    <2>3. /\ snapshot'.phase = snapshot.phase /\ snapshot'.done = snapshot.done
          /\ snapshot'.error = snapshot.error
      <3>1. CASE ok  BY <1>t, <2>2, <3>1 DEF WithReceipt, Fields
      <3>2. CASE ~ok  BY <1>t, <2>2, <3>2 DEF WithReceipt, Fields
      <3>3. QED  BY <3>1, <3>2
    <2>4. QED  BY <1>t, <2>1, <2>3, PlacesOnward, PhaseSame
  <1>12. CASE CollectEnds
    <2>1. /\ wf.pc = "collect" /\ server' = server /\ opts' = opts /\ snapshot' = snapshot
          /\ wf'.pc \in {"error", "finish"}
      BY <1>t, <1>12 DEF CollectEnds, At, Goto
    <2>2. QED  BY <1>t, <2>1, PlacesOnward, PhaseSame
  <1>13. CASE ShowError
    <2>1. /\ server' = server /\ snapshot'.phase = "failed" /\ snapshot'.done = TRUE
          /\ snapshot'.error = "workflow" /\ wf'.pc = "end"
      BY <1>t, <1>13 DEF ShowError, WithError, Goto, Fields
    <2>2. Reached' = 5 /\ Rank(snapshot'.phase) = 5 /\ Rank(snapshot.phase) \in 0..5
      BY <2>1, Ranks DEF Reached
    <2>3. QED  BY <2>1, <2>2 DEF PhaseInv, PhaseMoves
  <1>14. CASE ShowDone
    <2>1. server' = server /\ snapshot' = WithDone(snapshot) /\ wf'.pc = "end"
      BY <1>t, <1>14 DEF ShowDone, Goto
    <2>2. snapshot'.done = TRUE /\ snapshot'.error = snapshot.error
          /\ snapshot'.phase \in {snapshot.phase, "completed"}
      <3>1. CASE snapshot.error = ""  BY <1>t, <2>1, <3>1 DEF WithDone, Fields
      <3>2. CASE snapshot.error # ""  BY <1>t, <2>1, <3>2 DEF WithDone, Fields
      <3>3. QED  BY <3>1, <3>2
    <2>3. Reached' = 5 /\ Rank(snapshot'.phase) \in 0..5 /\ Rank(snapshot.phase) \in 0..5
          /\ Rank("completed") = 5
      BY <2>1, Ranks DEF Reached
    <2>4. Rank(snapshot'.phase) >= Rank(snapshot.phase)  BY <2>2, <2>3
    <2>5. PhaseInv'  BY <2>1, <2>3 DEF PhaseInv
    <2>6. snapshot.done => snapshot'.done /\ (snapshot.error # "" => snapshot'.error # "")  BY <2>2, Zenon
    <2>7. QED  BY <2>4, <2>5, <2>6, Zenon DEF PhaseMoves
  <1>15. CASE WorkflowFails
    <2>1. /\ wf.pc \in {"export", "load", "submit", "build", "send"} /\ wf'.pc = "error"
          /\ server' = server /\ opts' = opts /\ snapshot' = snapshot
      BY <1>t, <1>15 DEF WorkflowFails, Return, Goto
    <2>2. QED  BY <1>t, <2>1, PlacesOnward, PhaseSame
  <1>16. CASE ServerFails
    <2>1. /\ server' = "down" /\ snapshot'.phase = "failed" /\ snapshot'.done = TRUE
          /\ snapshot'.error = "server" /\ wf' = wf
      BY <1>t, <1>16 DEF ServerFails, WithError, Fields
    <2>2. Rank(snapshot'.phase) = 5 /\ Rank(snapshot.phase) \in 0..5  BY <2>1, Ranks
    <2>3. QED  BY <2>1, <2>2 DEF PhaseInv, PhaseMoves
  <1>17. CASE wf' = wf /\ server' = server /\ opts' = opts /\ snapshot' = snapshot
    BY <1>t, <1>17, PlacesOnward, PhaseSame
  <1>18. CASE \/ \E k \in DOMAIN call : ReceiptSeen(k) \/ ReceiptLost(k) \/ IncludeTransaction(k)
              \/ UNCHANGED vars
    BY <1>17, <1>18 DEF ReceiptSeen, ReceiptLost, IncludeTransaction, vars
  <1>19. CASE SetupFails
    <2>1. wf.pc = "export" /\ server' = server /\ opts' = opts /\ snapshot' = snapshot /\ wf'.pc = "error"
      BY <1>t, <1>19 DEF SetupFails, At, Goto, Return
    <2>2. QED  BY <1>t, <2>1, PlacesOnward, PhaseSame
  <1>20. QED
    BY <1>1, <1>2, <1>3, <1>4, <1>5, <1>6, <1>7, <1>8, <1>9, <1>10, <1>11, <1>12, <1>13, <1>14, <1>15,
       <1>16, <1>17, <1>18, <1>19, Zenon DEF Next, Workflow

(***************************************************************************)
(* The phase goes forward, unless the server has failed; done stays, and   *)
(* so does an error that is shown (mutate, setError, setDone).             *)
(***************************************************************************)
THEOREM PhaseGoesForward == Spec => PhaseAdvances
  <1>1. Init => PhaseInv
    <2> SUFFICES ASSUME Init PROVE PhaseInv  OBVIOUS
    <2>1. snapshot.phase = "starting" /\ wf.pc = "start" /\ wf.i = 1  BY DEF Init
    <2>2. QED  BY <2>1, Ranks DEF PhaseInv, Reached
  <1>2. IInv /\ PhaseInv /\ [Next]_vars => PhaseInv'  BY PhaseStep
  <1>3. IInv /\ PhaseInv /\ [Next]_vars =>
          [/\ Rank(snapshot'.phase) >= Rank(snapshot.phase) \/ server = "down"
           /\ snapshot.done => snapshot'.done /\ (snapshot.error # "" => snapshot'.error # "")]_vars
    BY PhaseStep DEF PhaseMoves
  <1>4. QED  BY <1>1, <1>2, <1>3, InvariantHolds, PTL DEF Spec, PhaseAdvances

-----------------------------------------------------------------------------
(* The page's list of transactions *)

\* How many receipts the page has counted.
Receipts == snapshot.confirmedCalls + snapshot.failedCalls

\* As many of them as the list keeps.
LastReceipts == IF Receipts < MaxTransactions THEN Receipts ELSE MaxTransactions

\* The last n entries of a list are of receipts.
Ends(txs, n) == /\ IsList(txs) /\ n \in Nat /\ n <= Len(txs)
                /\ \A k \in (Len(txs) - n + 1)..Len(txs) : txs[k].status # "sent"

\* The list of transactions ends with the receipts last seen.
ListInv == /\ Ends(snapshot.transactions, LastReceipts)
           /\ Receipts > 0 => Len(snapshot.transactions) <= MaxTransactions

\* What a receipt does to the list.
LEMMA ReceiptEnds ==
    ASSUME NEW txs, NEW n, Ends(txs, n), NEW e, e.status # "sent",
           NEW m \in Nat, m <= n + 1, m <= MaxTransactions
    PROVE  Ends(LastTransactions(Append(txs, e)), m) /\ Len(LastTransactions(Append(txs, e))) <= MaxTransactions
  <1> DEFINE l == Len(txs)
             M == MaxTransactions
  <1>t. /\ IsList(txs) /\ n \in Nat /\ n <= l /\ M \in Nat \ {0}
        /\ \A k \in (l - n + 1)..l : txs[k].status # "sent"
    BY MaxTransactionsAssumption DEF Ends
  <1>0. l \in Nat  BY <1>t, ListFacts
  <1>1. PICK a : a = Append(txs, e)  OBVIOUS
  <1>2. /\ IsList(a) /\ Len(a) = l + 1 /\ \A i \in 1..l : a[i] = txs[i]
        /\ a[l + 1] = e
    BY <1>t, <1>1, ListAppend
  <1> HIDE DEF l, M
  <1>3. \A k \in (l + 1 - m + 1)..(l + 1) : a[k].status # "sent"
    <2> TAKE k \in (l + 1 - m + 1)..(l + 1)
    <2>1. CASE k = l + 1  BY <1>2, <2>1
    <2>2. CASE k # l + 1
      <3>1. k \in (l - n + 1)..l /\ k \in 1..l  BY <1>t, <1>0, <2>2
      <3>2. QED  BY <1>t, <1>2, <3>1
    <2>3. QED  BY <2>1, <2>2
  <1>4. CASE ~(Len(a) > M)
    <2>1. LastTransactions(a) = a  BY <1>4 DEF LastTransactions, M
    <2>2. Ends(a, m)  BY <1>t, <1>0, <1>2, <1>3 DEF Ends
    <2>3. QED  BY <1>0, <1>1, <1>2, <1>4, <1>t, <2>1, <2>2 DEF M
  <1>5. CASE Len(a) > M
    <2>1. PICK r : r = SubSeq(a, Len(a) - M + 1, Len(a))  OBVIOUS
    <2>2. LastTransactions(a) = r  BY <1>5, <2>1 DEF LastTransactions, M
    <2>3. Len(a) - M + 1 \in Nat \ {0} /\ Len(a) \in Nat /\ Len(a) - M + 1 <= Len(a) + 1
      BY <1>t, <1>0, <1>2, <1>5
    <2>4. Cut(r, a, Len(a) - M + 1, Len(a))  BY <1>2, <2>1, <2>3, SubSeqCuts
    <2>5. Len(a) - (Len(a) - M + 1) + 1 = M  BY <1>t, <2>3
    <2>6. IsList(r) /\ Len(r) = M /\ \A i \in 1..M : r[i] = a[(Len(a) - M + 1) + i - 1]
      BY <2>4, <2>5 DEF Cut
    <2>7. ASSUME NEW k \in (M - m + 1)..M PROVE r[k].status # "sent"
      <3>1. k \in 1..M /\ (Len(a) - M + 1) + k - 1 \in (l + 1 - m + 1)..(l + 1)
        BY <1>t, <1>0, <1>2 DEF M
      <3>2. QED  BY <1>3, <2>6, <3>1
    <2>8. Ends(r, m)  BY <1>t, <2>6, <2>7 DEF Ends, M
    <2>9. QED  BY <1>1, <1>t, <2>2, <2>6, <2>8 DEF M
  <1>6. QED  BY <1>4, <1>5

\* Only a send and a receipt change the list or the number of receipts.
LEMMA ListSteps ==
    ASSUME IInv, [Next]_vars, ~NoteTxSent, ~Collect
    PROVE  /\ snapshot'.transactions = snapshot.transactions
           /\ snapshot'.confirmedCalls = snapshot.confirmedCalls
           /\ snapshot'.failedCalls = snapshot.failedCalls
  <1>t. DOMAIN snapshot = Fields  BY DEF IInv, TypeInv
  <1>1. CASE Generate \/ SkipGenerate \/ LoadStored \/ ExporterEvent \/ SetupFails \/ ExporterEnds
           \/ BundleReady
    <2>1. UNCHANGED Shown  BY <1>1, PreparationSteps DEF Prepares, Kept
    <2>2. QED  BY <2>1 DEF Shown
  <1>2. CASE snapshot' = snapshot  BY <1>2
  <1>3. CASE snapshot' = WithSubmission(snapshot, Len(opts.addresses), file.verifiedTxTotal)
    BY <1>t, <1>3 DEF WithSubmission, Fields
  <1>4. CASE \E who : snapshot' = WithError(snapshot, who)  BY <1>t, <1>4 DEF WithError, Fields
  <1>5. CASE snapshot' = WithDone(snapshot)
    <2>1. CASE snapshot.error = ""  BY <1>t, <1>5, <2>1 DEF WithDone, Fields
    <2>2. CASE snapshot.error # ""  BY <1>t, <1>5, <2>2 DEF WithDone, Fields
    <2>3. QED  BY <2>1, <2>2
  <1>6. CASE Configure  BY <1>2, <1>3, <1>6 DEF Configure
  <1>7. CASE ShowError  BY <1>4, <1>7 DEF ShowError
  <1>8. CASE ShowDone  BY <1>5, <1>8 DEF ShowDone
  <1>9. CASE ServerFails  BY <1>4, <1>9 DEF ServerFails
  <1>10. CASE \/ BuildJob \/ SendTransaction \/ CollectEnds \/ WorkflowFails \/ UNCHANGED vars
              \/ \E k \in DOMAIN call : ReceiptSeen(k) \/ ReceiptLost(k) \/ IncludeTransaction(k)
    BY <1>2, <1>10 DEF BuildJob, SendTransaction, CollectEnds, WorkflowFails, vars, ReceiptSeen, ReceiptLost,
       IncludeTransaction
  <1>11. QED  BY <1>1, <1>6, <1>7, <1>8, <1>9, <1>10, Zenon DEF Next, Workflow

\* The list keeps ending in the receipts.
LEMMA ListKept == ASSUME IInv, ListInv, [Next]_vars PROVE ListInv'
  <1>t. /\ TypeInv /\ DOMAIN snapshot = Fields
        /\ snapshot.confirmedCalls \in Nat /\ snapshot.failedCalls \in Nat /\ MaxTransactions \in Nat \ {0}
    BY MaxTransactionsAssumption DEF IInv, TypeInv
  <1>1. CASE NoteTxSent
    <2>1. Quiet  BY <1>1 DEF IInv, PlaceInv, NoteTxSent, At, Sending
    <2>2. /\ snapshot'.confirmedCalls = 0 /\ snapshot'.failedCalls = 0
          /\ snapshot'.transactions = Append(snapshot.transactions, [job |-> wf.i, status |-> "sent"])
      BY <1>t, <1>1, <2>1 DEF NoteTxSent, WithTxSent, Fields, Quiet
    <2>3. IsList(snapshot.transactions)  BY DEF ListInv, Ends
    <2>4. PICK e : e = [job |-> wf.i, status |-> "sent"]  OBVIOUS
    <2>5. snapshot'.transactions = Append(snapshot.transactions, e)  BY <2>2, <2>4
    <2>6. IsList(snapshot'.transactions) /\ Len(snapshot'.transactions) \in Nat
      BY <2>3, <2>5, ListAppend, ListFacts
    <2>7. Receipts' = 0 /\ LastReceipts' = 0  BY <1>t, <2>2 DEF Receipts, LastReceipts
    <2>8. Ends(snapshot'.transactions, 0)  BY <2>6 DEF Ends
    <2>9. QED  BY <2>7, <2>8 DEF ListInv
  <1>2. CASE Collect
    <2>1. PICK k, ok, v : snapshot' = WithReceipt(snapshot, k, ok, v) /\ ok \in BOOLEAN
      <3>1. resultsCh # <<>> /\ IsList(resultsCh)  BY <1>2 DEF Collect, IInv, ChannelInv
      <3>2. Head(resultsCh) = resultsCh[1] /\ 1 \in DOMAIN resultsCh  BY <3>1, ListTail
      <3>3. Head(resultsCh).ok \in BOOLEAN  BY <3>2 DEF IInv, ChannelInv
      <3>4. QED  BY <1>2, <3>3, Zenon DEF Collect
    <2>2. PICK e : e = [job |-> k, status |-> IF ok THEN "confirmed" ELSE "failed"]  OBVIOUS
    <2>3. /\ snapshot'.confirmedCalls = snapshot.confirmedCalls + (IF ok THEN 1 ELSE 0)
          /\ snapshot'.failedCalls = snapshot.failedCalls + (IF ok THEN 0 ELSE 1)
          /\ snapshot'.transactions = LastTransactions(Append(snapshot.transactions, e))
      <3>1. ShowsReceipt(k, ok, v)  BY <1>t, <2>1, ReceiptShown, Zenon
      <3>2. QED  BY <2>2, <3>1 DEF ShowsReceipt
    <2>4. Receipts \in Nat /\ Receipts' = Receipts + 1  BY <1>t, <2>1, <2>3 DEF Receipts
    <2>5. LastReceipts' \in Nat /\ LastReceipts' <= LastReceipts + 1 /\ LastReceipts' <= MaxTransactions
      BY <1>t, <2>4 DEF LastReceipts
    <2>6. e.status # "sent"  BY <2>2
    <2>7. Ends(snapshot.transactions, LastReceipts)  BY DEF ListInv
    <2>8. PICK m : m = LastReceipts'  OBVIOUS
    <2>9. Ends(LastTransactions(Append(snapshot.transactions, e)), m)
          /\ Len(LastTransactions(Append(snapshot.transactions, e))) <= MaxTransactions
      BY <2>5, <2>6, <2>7, <2>8, ReceiptEnds
    <2>10. Ends(snapshot'.transactions, m) /\ Len(snapshot'.transactions) <= MaxTransactions
      BY <2>3, <2>9, Zenon
    <2>11. QED  BY <2>8, <2>10, Zenon DEF ListInv
  <1>3. CASE ~NoteTxSent /\ ~Collect
    <2>1. /\ snapshot'.transactions = snapshot.transactions
          /\ snapshot'.confirmedCalls = snapshot.confirmedCalls
          /\ snapshot'.failedCalls = snapshot.failedCalls
      BY <1>3, ListSteps
    <2>2. QED  BY <2>1, Zenon DEF ListInv, LastReceipts, Receipts
  <1>4. QED  BY <1>1, <1>2, <1>3

(***************************************************************************)
(* The latest receipts, as many as the page keeps, are the last entries of *)
(* its list, though the list is not cut after a send (withTxSent,          *)
(* withReceipt).                                                           *)
(***************************************************************************)
THEOREM LatestReceiptsStay == Spec => []LatestReceiptsShown
  <1>1. Init => ListInv
    <2> SUFFICES ASSUME Init PROVE ListInv  OBVIOUS
    <2>1. snapshot.transactions = <<>> /\ snapshot.confirmedCalls = 0 /\ snapshot.failedCalls = 0
      BY DEF Init
    <2>2. Receipts = 0 /\ LastReceipts = 0
      BY <2>1, MaxTransactionsAssumption DEF Receipts, LastReceipts
    <2>3. IsList(<<>>) /\ Len(<<>>) = 0  BY DEF IsList
    <2>4. Ends(<<>>, 0)  BY <2>3 DEF Ends
    <2>5. QED  BY <2>1, <2>2, <2>4 DEF ListInv
  <1>2. IInv /\ ListInv /\ [Next]_vars => ListInv'  BY ListKept
  <1>3. ListInv => LatestReceiptsShown
    BY DEF ListInv, Ends, LatestReceiptsShown, LastReceipts, Receipts
  <1>4. QED  BY <1>1, <1>2, <1>3, InvariantHolds, PTL DEF Spec

-----------------------------------------------------------------------------
(* The total of the proofs *)

\* The bundle of live and replayed proofs.
Merged == /\ snapshot.replayLoaded > 0
          /\ snapshot.verifiedTxTotal = uint64(opts.batchSize * opts.laneCount)
          /\ file.verifiedTxTotal = SumTxCount(file.artifacts)
          /\ IsList(file.artifacts) /\ Len(file.artifacts) = opts.laneCount
          /\ opts.laneCount > 0 /\ file.artifacts[1].txCount = BatchSize

\* A contract has accepted a transaction of this submission.
SomeCertified == \E k \in Calls : call[k] = "certified"

\* A bundle whose calls are certified has the proof total that the page shows.
TotalInv ==
    /\ wf.pc = "export" /\ wf.i > 2 * LiveLanes + 3 =>
         snapshot.verifiedTxTotal = BatchSize * LiveLanes
    /\ wf.pc \in {"ready", "submit", "collect"} \cup Sending =>
         Merged \/ snapshot.verifiedTxTotal = file.verifiedTxTotal
    /\ SomeCertified => \A i \in DOMAIN file.artifacts : file.artifacts[i].txCount = BATCH_TX_COUNT
    /\ ProofTotalIsSubmitted

\* A merged bundle that a certifier has accepted has the total that is shown.
LEMMA MergedTotal ==
    ASSUME TypeInv, Merged, \A i \in DOMAIN file.artifacts : file.artifacts[i].txCount = BATCH_TX_COUNT,
           snapshot.replayLoaded > 0 => opts.batchSize \in Nat
    PROVE  snapshot.verifiedTxTotal = file.verifiedTxTotal
  <1>1. PICK c : c = file.artifacts  OBVIOUS
  <1>2. /\ IsList(c) /\ Len(c) = opts.laneCount /\ opts.laneCount > 0 /\ c[1].txCount = BatchSize
        /\ file.verifiedTxTotal = SumTxCount(c)
    BY <1>1 DEF Merged
  <1>3. Len(c) \in Nat /\ DOMAIN c = 1..Len(c)  BY <1>2, ListFacts, Zenon
  <1>4. BATCH_TX_COUNT \in Int  BY BatchAssumption
  <1>5. \A k \in 1..Len(c) : c[k].txCount = BATCH_TX_COUNT /\ c[k].txCount \in Int  BY <1>1, <1>3, <1>4
  <1>6. SumTxCount(c) = BATCH_TX_COUNT * Len(c)  BY <1>2, <1>4, <1>5, TxCounts
  <1>7. BatchSize = BATCH_TX_COUNT  BY <1>2, <1>3, <1>5
  <1>8. opts.batchSize \in Nat /\ opts.batchSize = BATCH_TX_COUNT  BY <1>7 DEF Merged, BatchSize, parse_arg
  <1>9. BATCH_TX_COUNT * Len(c) >= 0  BY <1>3, <1>8
  <1>10. snapshot.verifiedTxTotal = uint64(BATCH_TX_COUNT * Len(c))  BY <1>2, <1>8 DEF Merged
  <1>11. QED  BY <1>2, <1>6, <1>9, <1>10 DEF uint64

\* Before anything is submitted, nothing is certified or confirmed.
LEMMA NothingCertified ==
    ASSUME IInv, wf.pc \in Before \cup Sending PROVE snapshot.confirmedCalls = 0 /\ (wf.pc \in Before => ~SomeCertified)
  <1>1. Quiet /\ (wf.pc \in Before => SentUpTo(0, 0))  BY DEF IInv, PlaceInv
  <1>2. Len(opts.addresses) \in Nat  BY CallsCounted DEF IInv
  <1>3. QED  BY <1>1, <1>2 DEF Quiet, SentUpTo, SomeCertified, Calls

\* A step that leaves the bundle and the page's numbers alone.
LEMMA TotalSame ==
    ASSUME TotalInv, opts' = opts, file' = file, snapshot'.replayLoaded = snapshot.replayLoaded,
           snapshot'.verifiedTxTotal = snapshot.verifiedTxTotal,
           snapshot'.confirmedCalls = snapshot.confirmedCalls,
           snapshot'.verifiedTxPerCall = snapshot.verifiedTxPerCall,
           SomeCertified' => SomeCertified,
           \/ wf'.pc = wf.pc /\ wf'.i = wf.i
           \/ wf'.pc \in {"finish", "error", "end"}
           \/ wf.pc \in {"ready", "submit"} \cup Sending /\ wf'.pc \in {"submit", "collect"} \cup Sending
    PROVE  TotalInv'
  <1>0. LiveLanes' = LiveLanes /\ BatchSize' = BatchSize  BY DEF LiveLanes, BatchSize
  <1>1. Merged' <=> Merged  BY <1>0, Zenon DEF Merged
  <1>2. LiveLanes' = LiveLanes  BY <1>0
  <1>3. ProofTotalIsSubmitted'  BY Zenon DEF TotalInv, ProofTotalIsSubmitted
  <1>4. (SomeCertified => \A i \in DOMAIN file.artifacts : file.artifacts[i].txCount = BATCH_TX_COUNT)'
    BY Zenon DEF TotalInv
  <1>5. (wf.pc = "export" /\ wf.i > 2 * LiveLanes + 3 => snapshot.verifiedTxTotal = BatchSize * LiveLanes)'
    BY <1>0 DEF TotalInv, Sending
  <1>6. (wf.pc \in {"ready", "submit", "collect"} \cup Sending =>
           Merged \/ snapshot.verifiedTxTotal = file.verifiedTxTotal)'
    BY <1>1 DEF TotalInv, Sending
  <1>7. QED  BY <1>3, <1>4, <1>5, <1>6, Zenon DEF TotalInv

\* The steps before anything is submitted.
LEMMA TotalPrepared ==
    ASSUME IInv, Prepares,
           (wf.pc = "export" /\ wf.i > 2 * LiveLanes + 3 =>
              snapshot.verifiedTxTotal = BatchSize * LiveLanes)',
           (wf.pc \in {"ready", "submit"} => Merged \/ snapshot.verifiedTxTotal = file.verifiedTxTotal)'
    PROVE  TotalInv'
  <1>1. wf.pc \in Before /\ call' = call /\ opts' = opts /\ wf'.pc \in Before \cup {"error", "finish"}
    BY DEF Prepares, Kept
  <1>2. snapshot.confirmedCalls = 0 /\ ~SomeCertified  BY <1>1, NothingCertified
  <1>3. snapshot'.confirmedCalls = 0  BY <1>2 DEF Prepares, Kept, Shown
  <1>4. ~SomeCertified'  BY <1>1, <1>2 DEF SomeCertified, Calls
  <1>5. ProofTotalIsSubmitted'  BY <1>3 DEF ProofTotalIsSubmitted
  <1>6. wf'.pc \notin Sending \cup {"collect"}  BY <1>1 DEF Before, Sending
  <1>7. QED  BY <1>4, <1>5, <1>6 DEF TotalInv

\* Those that make or load the bundle.
LEMMA TotalBundle ==
    ASSUME IInv, PhaseInv, TotalInv,
           Generate \/ SkipGenerate \/ LoadStored \/ ExporterEvent \/ SetupFails \/ ExporterEnds
           \/ BundleReady
    PROVE  TotalInv'
  <1>t. /\ TypeInv /\ DOMAIN snapshot = Fields /\ DOMAIN wf = {"pc", "i", "confirmedVerified", "firstErr"}
        /\ wf.i \in Nat \ {0}
    BY DEF IInv, TypeInv
  <1>p. Prepares /\ opts' = opts /\ LiveLanes' = LiveLanes /\ BatchSize' = BatchSize
    BY PreparationSteps DEF Prepares, Kept, LiveLanes, BatchSize
  <1>l. /\ LiveLanes \in Nat /\ BatchSize \in Nat
        /\ LiveLanes < opts.laneCount => LiveLanes > 0 /\ opts.laneCount \in Nat
    BY <1>t, LiveLanesAre
  <1>1. CASE Generate
    <2>1. wf'.pc = "export" /\ wf'.i = 1  BY <1>t, <1>1 DEF Generate, At, Goto, PhaseInv
    <2>2. QED  BY <1>p, <1>l, <2>1, TotalPrepared
  <1>2. CASE SkipGenerate
    <2>1. wf'.pc = "load"  BY <1>t, <1>2 DEF SkipGenerate, Goto
    <2>2. QED  BY <1>p, <2>1, TotalPrepared
  <1>3. CASE LoadStored
    <2>1. CASE wf'.pc = "error"  BY <1>p, <2>1, TotalPrepared
    <2>2. CASE wf'.pc # "error"
      <3>1. wf'.pc = "ready" /\ file' = file /\ snapshot'.verifiedTxTotal = file.verifiedTxTotal
        BY <1>t, <1>3, <2>2 DEF LoadStored, Goto, Return, Fields
      <3>2. QED  BY <1>p, <3>1, TotalPrepared
    <2>3. QED  BY <2>1, <2>2
  <1>4. CASE ExporterEvent
    <2>1. PICK e : e = ExportEvents(BatchSize, LiveLanes)[wf.i]  OBVIOUS
    <2>2. wf.i \in 1..(2 * LiveLanes + 3)  BY <1>t, <1>l, <1>4, EventsAre DEF ExporterEvent
    <2>3. IsEvent(e, LiveLanes, wf.i, BatchSize)  BY <1>l, <2>1, <2>2, EventsAre
    <2>4. snapshot' = WithExporterEvent(snapshot, e) /\ wf'.pc = "export" /\ wf'.i = wf.i + 1
      BY <1>t, <1>4, <2>1 DEF ExporterEvent, At
    <2>5. wf.i = 2 * LiveLanes + 3 => snapshot'.verifiedTxTotal = BatchSize * LiveLanes
      <3>1. wf.i = 2 * LiveLanes + 3 =>
              e.event = "bundle_completed" /\ e.verifiedTxTotal = BatchSize * LiveLanes
        BY <2>3 DEF IsEvent
      <3>2. e.event = "bundle_completed" => snapshot'.verifiedTxTotal = e.verifiedTxTotal
        BY <1>t, <2>4 DEF WithExporterEvent, Fields
      <3>3. QED  BY <3>1, <3>2
    <2>6. wf'.i > 2 * LiveLanes + 3 => wf.i = 2 * LiveLanes + 3  BY <1>l, <2>2, <2>4
    <2>7. QED  BY <1>p, <2>4, <2>5, <2>6, TotalPrepared
  <1>5. CASE ExporterEnds
    <2>1. PICK exported : exported = ExportBundle(opts.setup, BatchSize, LiveLanes, opts.batchIdBase)
      OBVIOUS
    <2>2. /\ exported.verifiedTxTotal = BatchSize * LiveLanes
          /\ \A k \in 1..LiveLanes : exported.artifacts[k].txCount = BatchSize
      BY <1>l, <2>1, ExportedAre
    <2>3. snapshot.verifiedTxTotal = BatchSize * LiveLanes
      <3>1. wf.pc = "export" /\ wf.i > 2 * LiveLanes + 3  BY <1>t, <1>l, <1>5, EventsAre DEF ExporterEnds, At
      <3>2. QED  BY <3>1 DEF TotalInv
    <2>4. CASE Return
      <3>1. wf'.pc = "error"  BY <1>t, <2>4 DEF Return, Goto
      <3>2. QED  BY <1>p, <3>1, TotalPrepared
    <2>5. CASE /\ file' = exported /\ snapshot' = [snapshot EXCEPT !.bundlePath = TRUE]
               /\ wf' = [wf EXCEPT !.pc = "ready", !.i = 1]
      <3>1. wf'.pc = "ready" /\ snapshot'.verifiedTxTotal = file'.verifiedTxTotal
        BY <1>t, <2>2, <2>3, <2>5 DEF Fields
      <3>2. QED  BY <1>p, <3>1, TotalPrepared
    <2>6. CASE /\ LiveLanes < opts.laneCount /\ MergeOK(exported, opts.replay, LiveLanes, opts.laneCount)
               /\ file' = MergeBundles(exported, opts.replay, LiveLanes, opts.laneCount)
               /\ snapshot' = [snapshot EXCEPT !.phase = "bundle_ready", !.total = opts.laneCount,
                                 !.generated = opts.laneCount,
                                 !.replayLoaded = opts.laneCount - LiveLanes,
                                 !.verifiedTxTotal = uint64(opts.batchSize * opts.laneCount)]
               /\ wf' = [wf EXCEPT !.pc = "ready", !.i = 1]
      <3>1. /\ wf'.pc = "ready" /\ snapshot'.verifiedTxTotal = uint64(opts.batchSize * opts.laneCount)
            /\ snapshot'.replayLoaded = opts.laneCount - LiveLanes
        BY <1>t, <2>6 DEF Fields
      <3>2. /\ Spliced(file'.artifacts, exported.artifacts, opts.replay.artifacts, LiveLanes, opts.laneCount)
            /\ file'.verifiedTxTotal = SumTxCount(file'.artifacts)
        BY <1>t, <2>1, <2>6, MergedAre
      <3>3. LiveLanes >= 1 /\ opts.laneCount \in Nat \ {0} /\ opts.laneCount - LiveLanes > 0  BY <1>l, <2>6
      <3>4. file'.artifacts[1].txCount = BatchSize
        BY <1>l, <2>2, <3>2, <3>3 DEF Spliced
      <3>5. IsList(file'.artifacts) /\ Len(file'.artifacts) = opts.laneCount  BY <3>2 DEF Spliced
      <3>6. Merged'
        <4>1. snapshot'.replayLoaded > 0  BY <3>1, <3>3
        <4>2. opts.laneCount > 0  BY <3>3
        <4>3. QED  BY <1>p, <3>1, <3>2, <3>4, <3>5, <4>1, <4>2, Zenon DEF Merged
      <3>7. QED  BY <1>p, <3>1, <3>6, TotalPrepared
    <2>7. QED  BY <1>5, <2>1, <2>4, <2>5, <2>6, Zenon DEF ExporterEnds
  <1>6. CASE BundleReady
    <2>1. /\ wf.pc = "ready" /\ wf'.pc \in {"finish", "submit"} /\ file' = file
          /\ snapshot'.verifiedTxTotal = snapshot.verifiedTxTotal
          /\ snapshot'.replayLoaded = snapshot.replayLoaded
      BY <1>t, <1>6 DEF BundleReady, At, Goto, Fields
    <2>2. Merged' <=> Merged  BY <1>p, <2>1, Zenon DEF Merged
    <2>3. QED  BY <1>p, <2>1, <2>2, TotalPrepared DEF TotalInv
  <1>7. CASE SetupFails
    <2>1. wf'.pc = "error"  BY <1>t, <1>7 DEF SetupFails, Return, Goto
    <2>2. QED  BY <1>p, <2>1, TotalPrepared
  <1>8. QED  BY <1>1, <1>2, <1>3, <1>4, <1>5, <1>6, <1>7

\* A result is taken.
LEMMA TotalCollect == ASSUME IInv, TotalInv, Collect PROVE TotalInv'
  <1>t. /\ TypeInv /\ IsList(resultsCh) /\ resultsCh # <<>> /\ told \subseteq Calls
        /\ DOMAIN wf = {"pc", "i", "confirmedVerified", "firstErr"} /\ snapshot.confirmedCalls \in Nat
    BY DEF IInv, TypeInv, ChannelInv, Collect
  <1>0. wf.pc = "collect" /\ wf'.pc = "collect" /\ UNCHANGED <<opts, file, call>>
    BY <1>t DEF Collect, At
  <1>1. Head(resultsCh) = resultsCh[1] /\ 1 \in DOMAIN resultsCh  BY <1>t, ListTail
  <1>2. PICK r : r = Head(resultsCh)  OBVIOUS
  <1>3. r.ok \in BOOLEAN /\ r.job \in told /\ (r.ok => call[r.job] = "certified")
    BY <1>1, <1>2 DEF IInv, ChannelInv
  <1>4. PICK v : snapshot' = WithReceipt(snapshot, r.job, r.ok, v)  BY <1>2, Zenon DEF Collect
  <1>5. /\ snapshot'.verifiedTxTotal = snapshot.verifiedTxTotal
        /\ snapshot'.verifiedTxPerCall = snapshot.verifiedTxPerCall
        /\ snapshot'.confirmedCalls = snapshot.confirmedCalls + (IF r.ok THEN 1 ELSE 0)
        /\ snapshot'.replayLoaded = snapshot.replayLoaded
    <2>1. ShowsReceipt(r.job, r.ok, v)  BY <1>t, <1>3, <1>4, ReceiptShown, Zenon
    <2>2. QED  BY <2>1 DEF ShowsReceipt
  <1>6. Merged \/ snapshot.verifiedTxTotal = file.verifiedTxTotal  BY <1>0 DEF TotalInv
  <1>7. Merged' <=> Merged  BY <1>0, <1>5, Zenon DEF Merged, BatchSize, uint64
  <1>8. SomeCertified' <=> SomeCertified  BY <1>0 DEF SomeCertified, Calls
  <1>9. ProofTotalIsSubmitted'
    <2>1. CASE r.ok
      <3>1. SomeCertified  BY <1>t, <1>3, <2>1 DEF SomeCertified
      <3>2. \A i \in DOMAIN file.artifacts : file.artifacts[i].txCount = BATCH_TX_COUNT
        BY <3>1 DEF TotalInv
      <3>3. (snapshot.replayLoaded > 0 => opts.batchSize \in Nat) => snapshot.verifiedTxTotal = file.verifiedTxTotal
        BY <1>t, <1>6, <3>2, MergedTotal
      <3>4. snapshot.verifiedTxPerCall = file.verifiedTxTotal  BY <1>0 DEF IInv, PlaceInv, Configured
      <3>5. QED  BY <1>0, <1>5, <3>3, <3>4 DEF ProofTotalIsSubmitted
    <2>2. CASE ~r.ok  BY <1>0, <1>t, <1>5, <2>2 DEF ProofTotalIsSubmitted, TotalInv
    <2>3. QED  BY <1>3, <2>1, <2>2
  <1>10. (SomeCertified => \A i \in DOMAIN file.artifacts : file.artifacts[i].txCount = BATCH_TX_COUNT)'
    BY <1>0, <1>8, Zenon DEF TotalInv
  <1>11. QED  BY <1>0, <1>5, <1>6, <1>7, <1>9, <1>10 DEF TotalInv

\* A call is included.
LEMMA TotalInclude == ASSUME IInv, TotalInv, NEW k \in DOMAIN call, IncludeTransaction(k) PROVE TotalInv'
  <1>0. UNCHANGED <<opts, snapshot, wf, file>>  BY DEF IncludeTransaction
  <1>t. DOMAIN call = Calls /\ Calls' = Calls  BY <1>0 DEF IInv, TypeInv, Calls
  <1>1. CASE Succeeds(k)
    <2>1. \A i \in DOMAIN file.artifacts : file.artifacts[i].txCount = BATCH_TX_COUNT
      BY <1>1 DEF Succeeds, VerifyOK
    <2>2. (\A i \in DOMAIN file.artifacts : file.artifacts[i].txCount = BATCH_TX_COUNT)'
      BY <1>0, <2>1, Zenon
    <2>3. (Merged' <=> Merged) /\ LiveLanes' = LiveLanes /\ BatchSize' = BatchSize /\ (ProofTotalIsSubmitted' <=> ProofTotalIsSubmitted)
      BY <1>0, Zenon DEF Merged, LiveLanes, BatchSize, ProofTotalIsSubmitted
    <2>4. QED  BY <1>0, <2>2, <2>3, Zenon DEF TotalInv
  <1>2. CASE ~Succeeds(k)
    <2>1. call' = [call EXCEPT ![k] = "reverted"]  BY <1>2 DEF IncludeTransaction
    <2>2. SomeCertified' => SomeCertified  BY <1>t, <2>1 DEF SomeCertified
    <2>3. QED  BY <1>0, <2>2, TotalSame
  <1>3. QED  BY <1>1, <1>2

\* Every step keeps what is said of the totals.
LEMMA TotalKept == ASSUME IInv, PhaseInv, TotalInv, [Next]_vars PROVE TotalInv'
  <1>t. /\ TypeInv /\ DOMAIN snapshot = Fields /\ DOMAIN wf = {"pc", "i", "confirmedVerified", "firstErr"}
        /\ wf.i \in Nat \ {0} /\ DOMAIN call = Calls
    BY DEF IInv, TypeInv
  <1>c. opts' = opts /\ call' = call => (SomeCertified' => SomeCertified)  BY DEF SomeCertified, Calls
  <1>s. opts' = opts /\ call' = [call EXCEPT ![wf.i] = "sent"] => (SomeCertified' => SomeCertified)
    BY <1>t DEF SomeCertified, Calls
  <1>1. CASE Generate \/ SkipGenerate \/ LoadStored \/ ExporterEvent \/ SetupFails \/ ExporterEnds
           \/ BundleReady
    BY <1>1, TotalBundle
  <1>2. CASE Configure
    <2>1. wf.pc = "submit" /\ UNCHANGED <<opts, file, call>>  BY <1>2 DEF Configure, At
    <2>2. CASE Return /\ UNCHANGED snapshot
      <3>1. wf'.pc = "error"  BY <1>t, <2>2 DEF Return, Goto
      <3>2. QED  BY <1>c, <2>1, <2>2, <3>1, TotalSame
    <2>3. CASE /\ snapshot' = WithSubmission(snapshot, Len(opts.addresses), file.verifiedTxTotal)
               /\ wf' = [wf EXCEPT !.pc = "build", !.i = 1]
      <3>1. /\ wf'.pc = "build" /\ snapshot'.verifiedTxTotal = snapshot.verifiedTxTotal
            /\ snapshot'.confirmedCalls = snapshot.confirmedCalls
            /\ snapshot'.replayLoaded = snapshot.replayLoaded
        BY <1>t, <2>3 DEF WithSubmission, Fields
      <3>2. snapshot.confirmedCalls = 0 /\ ~SomeCertified  BY <2>1, NothingCertified DEF Before
      <3>3. ProofTotalIsSubmitted' /\ ~SomeCertified'
        BY <1>c, <2>1, <3>1, <3>2 DEF ProofTotalIsSubmitted
      <3>4. Merged' <=> Merged  BY <2>1, <3>1, Zenon DEF Merged, BatchSize
      <3>5. (Merged \/ snapshot.verifiedTxTotal = file.verifiedTxTotal)'
        BY <2>1, <3>1, <3>4 DEF TotalInv
      <3>6. QED  BY <3>1, <3>3, <3>5 DEF TotalInv
    <2>4. QED  BY <1>2, <2>2, <2>3 DEF Configure
  <1>3. CASE BuildJob
    <2>1. /\ wf.pc = "build" /\ UNCHANGED <<opts, file, call, snapshot>>
          /\ wf'.pc \in {"build", "send", "error"}
      BY <1>t, <1>3 DEF BuildJob, At, Goto, Return
    <2>2. QED  BY <1>c, <2>1, TotalSame DEF Sending
  <1>4. CASE SendTransaction
    <2>1. wf.pc = "send" /\ UNCHANGED <<opts, file, snapshot>> /\ wf'.pc = "note"
      BY <1>t, <1>4 DEF SendTransaction, At, Goto
    <2>2. SomeCertified' => SomeCertified  BY <1>s, <1>4, <2>1 DEF SendTransaction
    <2>3. QED  BY <2>1, <2>2, TotalSame DEF Sending
  <1>5. CASE NoteTxSent
    <2>1. wf.pc = "note" /\ UNCHANGED <<opts, file, call>> /\ wf'.pc \in {"send", "collect"}
      BY <1>t, <1>5 DEF NoteTxSent, At
    <2>2. /\ snapshot'.verifiedTxTotal = snapshot.verifiedTxTotal
          /\ snapshot'.confirmedCalls = snapshot.confirmedCalls
          /\ snapshot'.verifiedTxPerCall = snapshot.verifiedTxPerCall
          /\ snapshot'.replayLoaded = snapshot.replayLoaded
      BY <1>t, <1>5 DEF NoteTxSent, WithTxSent, Fields
    <2>3. QED  BY <1>c, <2>1, <2>2, TotalSame DEF Sending
  <1>6. CASE Collect  BY <1>6, TotalCollect
  <1>7. CASE CollectEnds
    <2>1. UNCHANGED <<opts, file, call, snapshot>> /\ wf'.pc \in {"finish", "error"}
      BY <1>t, <1>7 DEF CollectEnds, Goto
    <2>2. QED  BY <1>c, <2>1, TotalSame
  <1>8. CASE ShowError \/ ShowDone
    <2>1. UNCHANGED <<opts, file, call>> /\ wf'.pc = "end"  BY <1>t, <1>8 DEF ShowError, ShowDone, Goto
    <2>2. /\ snapshot'.verifiedTxTotal = snapshot.verifiedTxTotal
          /\ snapshot'.confirmedCalls = snapshot.confirmedCalls
          /\ snapshot'.verifiedTxPerCall = snapshot.verifiedTxPerCall
          /\ snapshot'.replayLoaded = snapshot.replayLoaded
      <3>1. CASE ShowError  BY <1>t, <3>1 DEF ShowError, WithError, Fields
      <3>2. CASE ShowDone
        <4>1. CASE snapshot.error = ""  BY <1>t, <3>2, <4>1 DEF ShowDone, WithDone, Fields
        <4>2. CASE snapshot.error # ""  BY <1>t, <3>2, <4>2 DEF ShowDone, WithDone, Fields
        <4>3. QED  BY <4>1, <4>2
      <3>3. QED  BY <1>8, <3>1, <3>2
    <2>3. QED  BY <1>c, <2>1, <2>2, TotalSame
  <1>9. CASE WorkflowFails
    <2>1. UNCHANGED <<opts, file, snapshot>> /\ wf'.pc = "error"
      BY <1>t, <1>9 DEF WorkflowFails, Return, Goto
    <2>2. SomeCertified' => SomeCertified  BY <1>c, <1>s, <1>9, <2>1 DEF WorkflowFails
    <2>3. QED  BY <2>1, <2>2, TotalSame
  <1>10. CASE ServerFails
    <2>1. UNCHANGED <<opts, file, call, wf>>  BY <1>10 DEF ServerFails
    <2>2. /\ snapshot'.verifiedTxTotal = snapshot.verifiedTxTotal
          /\ snapshot'.confirmedCalls = snapshot.confirmedCalls
          /\ snapshot'.verifiedTxPerCall = snapshot.verifiedTxPerCall
          /\ snapshot'.replayLoaded = snapshot.replayLoaded
      BY <1>t, <1>10 DEF ServerFails, WithError, Fields
    <2>3. QED  BY <1>c, <2>1, <2>2, TotalSame
  <1>11. CASE UNCHANGED vars \/ \E k \in DOMAIN call : ReceiptSeen(k) \/ ReceiptLost(k)
    <2>1. UNCHANGED <<opts, file, call, wf, snapshot>>  BY <1>11 DEF ReceiptSeen, ReceiptLost, vars
    <2>2. QED  BY <1>c, <2>1, TotalSame
  <1>12. ASSUME NEW k \in DOMAIN call, IncludeTransaction(k) PROVE TotalInv'  BY <1>12, TotalInclude
  <1>13. QED
    BY <1>1, <1>2, <1>3, <1>4, <1>5, <1>6, <1>7, <1>8, <1>9, <1>10, <1>11, <1>12, Zenon DEF Next, Workflow

(***************************************************************************)
(* The total that the page shows for the proofs, which a merge of live and *)
(* replayed proofs takes from the options, is that of the submitted bundle *)
(* whenever a call of it was certified (generateBundleWithProgress),       *)
(* unless -batch-size is negative in a merge.                              *)
(***************************************************************************)
THEOREM ProofTotalIsTheBundles == Spec => []ProofTotalIsSubmitted
  <1>1. Init => PhaseInv /\ TotalInv
    <2> SUFFICES ASSUME Init PROVE PhaseInv /\ TotalInv  OBVIOUS
    <2>1. /\ snapshot.phase = "starting" /\ wf.pc = "start" /\ wf.i = 1 /\ snapshot.confirmedCalls = 0
      BY DEF Init
    <2>2. PhaseInv  BY <2>1, Ranks DEF PhaseInv, Reached
    <2>3. ~SomeCertified  BY <2>1, InvariantStarts, NothingCertified DEF Before
    <2>4. QED  BY <2>1, <2>2, <2>3 DEF TotalInv, ProofTotalIsSubmitted, Sending
  <1>2. IInv /\ PhaseInv /\ TotalInv /\ [Next]_vars => PhaseInv' /\ TotalInv'  BY PhaseStep, TotalKept
  <1>3. TotalInv => ProofTotalIsSubmitted  BY DEF TotalInv
  <1>4. QED  BY <1>1, <1>2, <1>3, InvariantHolds, PTL DEF Spec

-----------------------------------------------------------------------------
(* The merged bundle *)

\* The artifacts that the exporter has made.
Exported == ExportBundle(opts.setup, BatchSize, LiveLanes, opts.batchIdBase).artifacts

\* Replayed proofs are shown only once the merged bundle is in the file, where it stays.
MergeInv ==
    /\ wf.pc \in {"start", "export"} => snapshot.replayLoaded = 0
    /\ snapshot.replayLoaded # 0 =>
         LiveLanes < opts.laneCount /\ Spliced(file.artifacts, Exported, opts.replay.artifacts, LiveLanes, opts.laneCount)
                                    /\ Len(opts.replay.artifacts) >= opts.laneCount

\* The start.
LEMMA MergeStarts == ASSUME Init PROVE MergeInv
  <1>1. snapshot.replayLoaded = 0  BY Zenon DEF Init
  <1>2. QED  BY <1>1, Zenon DEF MergeInv

\* A step that leaves the file alone.
LEMMA MergeSame ==
    ASSUME MergeInv, opts' = opts, file' = file, snapshot'.replayLoaded = snapshot.replayLoaded,
           wf'.pc \in {"start", "export"} => wf.pc \in {"start", "export"}
    PROVE  MergeInv'
  <1>1. LiveLanes' = LiveLanes /\ BatchSize' = BatchSize  BY DEF LiveLanes, BatchSize
  <1>2. Exported' = Exported  BY <1>1, Zenon DEF Exported
  <1>3. (wf.pc \in {"start", "export"} => snapshot.replayLoaded = 0)'  BY DEF MergeInv
  <1>4. (snapshot.replayLoaded # 0 =>
           LiveLanes < opts.laneCount /\ Spliced(file.artifacts, Exported, opts.replay.artifacts, LiveLanes, opts.laneCount)
                                      /\ Len(opts.replay.artifacts) >= opts.laneCount)'
    <2>1. SUFFICES ASSUME snapshot'.replayLoaded # 0
                   PROVE  /\ LiveLanes' < opts'.laneCount
                          /\ Spliced(file'.artifacts, Exported', opts'.replay.artifacts, LiveLanes', opts'.laneCount)
                          /\ Len(opts'.replay.artifacts) >= opts'.laneCount
      BY Zenon
    <2>2. snapshot.replayLoaded # 0  BY <2>1
    <2>3. /\ LiveLanes < opts.laneCount /\ Len(opts.replay.artifacts) >= opts.laneCount
          /\ Spliced(file.artifacts, Exported, opts.replay.artifacts, LiveLanes, opts.laneCount)
      BY <2>2, Zenon DEF MergeInv
    <2>4. QED  BY <1>1, <1>2, <2>3, Zenon
  <1>5. QED  BY <1>3, <1>4, Zenon DEF MergeInv

\* The end of the exporter, the only step that writes the file.
LEMMA MergeMade == ASSUME IInv, MergeInv, ExporterEnds PROVE MergeInv'
  <1>t. TypeInv /\ DOMAIN snapshot = Fields /\ DOMAIN wf = {"pc", "i", "confirmedVerified", "firstErr"}
    BY DEF IInv, TypeInv
  <1>1. opts' = opts /\ LiveLanes' = LiveLanes /\ BatchSize' = BatchSize
    BY DEF ExporterEnds, LiveLanes, BatchSize
  <1>2. PICK exported : exported = ExportBundle(opts.setup, BatchSize, LiveLanes, opts.batchIdBase)
    OBVIOUS
  <1>3. Exported' = exported.artifacts  BY <1>1, <1>2, Zenon DEF Exported
  <1>4. snapshot.replayLoaded = 0  BY DEF MergeInv, ExporterEnds, At
  <1>5. CASE Return /\ UNCHANGED <<file, snapshot>>
    <2>1. wf'.pc = "error"  BY <1>t, <1>5 DEF Return, Goto
    <2>2. QED  BY <1>1, <1>5, <2>1, MergeSame
  <1>6. CASE /\ snapshot' = [snapshot EXCEPT !.bundlePath = TRUE]
             /\ wf' = [wf EXCEPT !.pc = "ready", !.i = 1]
    <2>1. wf'.pc = "ready" /\ snapshot'.replayLoaded = 0  BY <1>t, <1>4, <1>6 DEF Fields
    <2>2. QED  BY <2>1 DEF MergeInv
  <1>7. CASE /\ LiveLanes < opts.laneCount /\ MergeOK(exported, opts.replay, LiveLanes, opts.laneCount)
             /\ file' = MergeBundles(exported, opts.replay, LiveLanes, opts.laneCount)
             /\ wf' = [wf EXCEPT !.pc = "ready", !.i = 1]
    <2>1. wf'.pc = "ready"  BY <1>t, <1>7
    <2>2. Spliced(file'.artifacts, exported.artifacts, opts.replay.artifacts, LiveLanes, opts.laneCount)
      BY <1>t, <1>2, <1>7, MergedAre
    <2>3. Len(opts.replay.artifacts) >= opts.laneCount  BY <1>7 DEF MergeOK
    <2>4. /\ LiveLanes' < opts'.laneCount /\ Len(opts'.replay.artifacts) >= opts'.laneCount
          /\ Spliced(file'.artifacts, Exported', opts'.replay.artifacts, LiveLanes', opts'.laneCount)
      BY <1>1, <1>3, <1>7, <2>2, <2>3, Zenon
    <2>5. wf'.pc \notin {"start", "export"}  BY <2>1
    <2>6. QED  BY <2>4, <2>5, Zenon DEF MergeInv
  <1>8. QED  BY <1>2, <1>5, <1>6, <1>7, Zenon DEF ExporterEnds

\* Every step keeps what is said of the merged bundle.
LEMMA MergeKept == ASSUME IInv, MergeInv, [Next]_vars PROVE MergeInv'
  <1>t. /\ TypeInv /\ DOMAIN snapshot = Fields /\ DOMAIN wf = {"pc", "i", "confirmedVerified", "firstErr"}
        /\ wf.i \in Nat \ {0}
    BY DEF IInv, TypeInv
  <1>1. CASE Generate \/ SetupFails \/ BuildJob \/ SendTransaction \/ CollectEnds
    BY <1>t, <1>1, MergeSame DEF Generate, SetupFails, BuildJob, SendTransaction, CollectEnds, At, Goto, Return
  <1>2. CASE SkipGenerate \/ LoadStored \/ BundleReady
    <2>1. CASE SkipGenerate  BY <1>t, <2>1, MergeSame DEF SkipGenerate, Goto, Fields
    <2>2. CASE LoadStored
      <3>1. opts' = opts /\ file' = file /\ wf'.pc \in {"error", "ready"}
        BY <1>t, <2>2 DEF LoadStored, Goto, Return
      <3>2. snapshot'.replayLoaded = snapshot.replayLoaded  BY <1>t, <2>2 DEF LoadStored, Fields
      <3>3. QED  BY <3>1, <3>2, MergeSame
    <2>3. CASE BundleReady  BY <1>t, <2>3, MergeSame DEF BundleReady, Goto, Fields
    <2>4. QED  BY <1>2, <2>1, <2>2, <2>3
  <1>3. CASE ExporterEvent
    <2>1. PICK e : e = ExportEvents(BatchSize, LiveLanes)[wf.i]  OBVIOUS
    <2>2. /\ opts' = opts /\ file' = file /\ wf'.pc = wf.pc
          /\ snapshot' = WithExporterEvent(snapshot, e)
      BY <1>t, <1>3, <2>1 DEF ExporterEvent
    <2>3. e.event \in EventNames
      <3>1. LiveLanes \in Nat /\ BatchSize \in Nat  BY <1>t, LiveLanesAre
      <3>2. wf.i \in 1..(2 * LiveLanes + 3)  BY <1>t, <1>3, <3>1, EventsAre DEF ExporterEvent
      <3>3. IsEvent(e, LiveLanes, wf.i, BatchSize)  BY <2>1, <3>1, <3>2, EventsAre
      <3>4. QED  BY <3>3 DEF IsEvent
    <2>4. snapshot'.replayLoaded = snapshot.replayLoaded
      BY <1>t, <2>2, <2>3 DEF WithExporterEvent, EventNames, Fields
    <2>5. QED  BY <2>2, <2>4, MergeSame
  <1>4. CASE ExporterEnds  BY <1>4, MergeMade
  <1>5. CASE Configure
    <2>1. opts' = opts /\ file' = file /\ wf'.pc \in {"error", "build"}
      BY <1>t, <1>5 DEF Configure, Return, Goto
    <2>2. snapshot'.replayLoaded = snapshot.replayLoaded
      BY <1>t, <1>5 DEF Configure, WithSubmission, Fields
    <2>3. QED  BY <2>1, <2>2, MergeSame
  <1>6. CASE NoteTxSent
    <2>1. opts' = opts /\ file' = file /\ wf'.pc \in {"send", "collect"}  BY <1>t, <1>6 DEF NoteTxSent
    <2>2. snapshot'.replayLoaded = snapshot.replayLoaded  BY <1>t, <1>6 DEF NoteTxSent, WithTxSent, Fields
    <2>3. QED  BY <2>1, <2>2, MergeSame
  <1>7. CASE Collect
    <2>1. opts' = opts /\ file' = file /\ wf'.pc = wf.pc  BY <1>t, <1>7 DEF Collect
    <2>2. PICK r, v : snapshot' = WithReceipt(snapshot, r.job, r.ok, v)  BY <1>7, Zenon DEF Collect
    <2>3. snapshot'.replayLoaded = snapshot.replayLoaded
      <3>1. CASE r.ok  BY <1>t, <2>2, <3>1 DEF WithReceipt, Fields
      <3>2. CASE ~r.ok  BY <1>t, <2>2, <3>2 DEF WithReceipt, Fields
      <3>3. QED  BY <3>1, <3>2
    <2>4. QED  BY <2>1, <2>3, MergeSame
  <1>8. CASE ShowError \/ ShowDone
    <2>1. opts' = opts /\ file' = file /\ wf'.pc = "end"  BY <1>t, <1>8 DEF ShowError, ShowDone, Goto
    <2>2. snapshot'.replayLoaded = snapshot.replayLoaded
      <3>1. CASE ShowError  BY <1>t, <3>1 DEF ShowError, WithError, Fields
      <3>2. CASE ShowDone  BY <1>t, <3>2 DEF ShowDone, WithDone, Fields
      <3>3. QED  BY <1>8, <3>1, <3>2
    <2>3. QED  BY <2>1, <2>2, MergeSame
  <1>9. CASE WorkflowFails  BY <1>t, <1>9, MergeSame DEF WorkflowFails, Return, Goto
  <1>10. CASE ServerFails
    <2>1. opts' = opts /\ file' = file /\ wf' = wf  BY <1>10 DEF ServerFails
    <2>2. snapshot'.replayLoaded = snapshot.replayLoaded  BY <1>t, <1>10 DEF ServerFails, WithError, Fields
    <2>3. QED  BY <2>1, <2>2, MergeSame
  <1>11. CASE \/ UNCHANGED vars
              \/ \E k \in DOMAIN call : ReceiptSeen(k) \/ ReceiptLost(k) \/ IncludeTransaction(k)
    <2>1. UNCHANGED <<opts, file, wf, snapshot>>
      BY <1>11 DEF ReceiptSeen, ReceiptLost, IncludeTransaction, vars
    <2>2. QED  BY <2>1, MergeSame
  <1>12. QED
    BY <1>1, <1>2, <1>3, <1>4, <1>5, <1>6, <1>7, <1>8, <1>9, <1>10, <1>11, Zenon DEF Next, Workflow

\* The artifact of lane k - 1, made for that lane and from the head it has.
Fitting(a, k) ==
    /\ a.laneId = k - 1 /\ a.txCount = BATCH_TX_COUNT
    /\ isSet(a.prev) /\ a.prev = DeployedHeads[k - 1]
    /\ verifyBatchTransition(DeployedKey, a)

\* What prove_batch makes for a lane, from the lane's head.
LEMMA ProvedFits ==
    ASSUME NEW k, NEW b, NEW next, NEW prev, isSet(prev), prev = DeployedHeads[k - 1]
    PROVE  Fitting(Prove(DeployedKey, k - 1, b, BATCH_TX_COUNT, prev, next), k)
  BY SetupsAssumption DEF Fitting, Prove, verifyBatchTransition, Statement

\* A list of fitting artifacts, one for each lane, is a bundle that a certifier accepts:
\* no artifact of the call moves the head of another.
LEMMA FittingVerifies ==
    ASSUME NEW c, IsList(c), Len(c) > 0, \A k \in 1..Len(c) : Fitting(c[k], k)
    PROVE  /\ VerifyOK(DeployedKey, DeployedHeads, c)
           /\ {c[k].laneId : k \in DOMAIN c} = 0..(Len(c) - 1)
  <1>1. Len(c) \in Nat /\ DOMAIN c = 1..Len(c)  BY ListFacts, Zenon
  <1>2. \A k \in 1..Len(c) : c[k].laneId = k - 1  BY DEF Fitting
  <1>3. c # <<>>  BY <1>1
  <1>4. ASSUME NEW i \in DOMAIN c
        PROVE  HeadAt(DeployedHeads, LanesOf(c), NextsOf(c), i, c[i].laneId) = c[i].prev
    <2>1. \A j \in 1..(i - 1) : LanesOf(c)[j] = j - 1  BY <1>1, <1>2 DEF LanesOf
    <2>2. {j \in 1..(i - 1) : LanesOf(c)[j] = c[i].laneId} = {}  BY <1>1, <1>2, <2>1
    <2>3. HeadAt(DeployedHeads, LanesOf(c), NextsOf(c), i, c[i].laneId) = DeployedHeads[c[i].laneId]
      BY <2>2, Zenon DEF HeadAt
    <2>4. QED  BY <1>1, <2>3 DEF Fitting
  <1>5. VerifyOK(DeployedKey, DeployedHeads, c)  BY <1>1, <1>3, <1>4 DEF VerifyOK, Fitting
  <1>6. ASSUME NEW l \in 0..(Len(c) - 1) PROVE l \in {c[k].laneId : k \in DOMAIN c}
    <2>1. l + 1 \in DOMAIN c /\ c[l + 1].laneId = l  BY <1>1, <1>2
    <2>2. QED  BY <2>1, Zenon
  <1>7. ASSUME NEW k \in DOMAIN c PROVE c[k].laneId \in 0..(Len(c) - 1)  BY <1>1, <1>2
  <1>8. {c[k].laneId : k \in DOMAIN c} = 0..(Len(c) - 1)
    <2>1. \A l : l \in {c[k].laneId : k \in DOMAIN c} <=> \E k \in DOMAIN c : l = c[k].laneId  OBVIOUS
    <2>2. \A l : l \in {c[k].laneId : k \in DOMAIN c} <=> l \in 0..(Len(c) - 1)
      BY <1>6, <1>7, <2>1, Zenon
    <2>3. QED  BY <2>2, Zenon
  <1>9. QED  BY <1>5, <1>8, Zenon

\* The exporter's artifacts are what prove_batch makes.
LEMMA ExportedProved ==
    ASSUME NEW k \in 1..LiveLanes
    PROVE  Exported[k] = Prove(opts.setup.key, k - 1, opts.batchIdBase + k - 1, BatchSize,
                               opts.setup.prev, opts.setup.next)
  BY DEF Exported, ExportBundle

\* A merged bundle of the deployed setup is accepted.
LEMMA MergedVerifies == ASSUME TypeInv, MergeInv PROVE MergedBundleVerifies
  <1>1. SUFFICES ASSUME snapshot.replayLoaded > 0, Fits
                 PROVE  /\ VerifyOK(DeployedKey, DeployedHeads, file.artifacts)
                        /\ {file.artifacts[k].laneId : k \in DOMAIN file.artifacts} = 0..(opts.laneCount - 1)
    BY DEF MergedBundleVerifies
  <1>2. snapshot.replayLoaded # 0  BY <1>1
  <1>3. /\ LiveLanes < opts.laneCount /\ Len(opts.replay.artifacts) >= opts.laneCount
        /\ Spliced(file.artifacts, Exported, opts.replay.artifacts, LiveLanes, opts.laneCount)
    BY <1>2, Zenon DEF MergeInv
  <1>4. /\ LiveLanes \in Nat /\ opts.laneCount \in Nat /\ opts \in Options  BY <1>3, LiveLanesAre DEF TypeInv
  <1>5. /\ opts.setup.key = DeployedKey
        /\ \A k \in (LiveLanes + 1)..opts.laneCount : opts.replay.artifacts[k].proof.key = DeployedKey
    BY <1>1 DEF Fits
  <1>6. PICK c : c = file.artifacts  OBVIOUS
  <1>7. IsList(c) /\ Len(c) = opts.laneCount /\ Len(c) > 0  BY <1>3, <1>4, <1>6 DEF Spliced
  <1>8. ASSUME NEW k \in 1..opts.laneCount PROVE Fitting(c[k], k)
    <2>1. CASE k <= LiveLanes
      <3>1. k \in 1..LiveLanes /\ c[k] = Exported[k]  BY <1>3, <1>4, <1>6, <2>1 DEF Spliced
      <3>2. /\ BatchSize = BATCH_TX_COUNT /\ isSet(opts.setup.prev)
            /\ opts.setup.prev = DeployedHeads[k - 1]
        BY <1>4, <1>5, SetupsAssumption DEF BatchSize
      <3>3. c[k] = Prove(DeployedKey, k - 1, opts.batchIdBase + k - 1, BATCH_TX_COUNT,
                         opts.setup.prev, opts.setup.next)
        BY <1>5, <3>1, <3>2, ExportedProved
      <3>4. QED  BY <3>2, <3>3, ProvedFits
    <2>2. CASE ~(k <= LiveLanes)
      <3>1. c[k] = opts.replay.artifacts[k]  BY <1>3, <1>6, <2>2 DEF Spliced
      <3>2. k \in DOMAIN opts.replay.artifacts
        <4>1. IsList(opts.replay.artifacts)  BY <1>4, OptionsAssumption
        <4>2. /\ Len(opts.replay.artifacts) \in Nat
              /\ DOMAIN opts.replay.artifacts = 1..Len(opts.replay.artifacts)
          BY <4>1, ListFacts, Zenon
        <4>3. QED  BY <1>3, <1>4, <4>2
      <3>3. /\ c[k] = Prove(DeployedKey, k - 1, c[k].batchId, BATCH_TX_COUNT, c[k].prev, c[k].next)
            /\ isSet(c[k].prev) /\ c[k].prev = DeployedHeads[k - 1]
        <4>1. c[k].proof.key = DeployedKey
          <5>1. k \in (LiveLanes + 1)..opts.laneCount  BY <1>4, <2>2
          <5>2. QED  BY <1>5, <3>1, <5>1
        <4>2. QED  BY <1>4, <3>1, <3>2, <4>1, SetupsAssumption
      <3>4. Fitting(Prove(DeployedKey, k - 1, c[k].batchId, BATCH_TX_COUNT, c[k].prev, c[k].next), k)
        BY <3>3, ProvedFits
      <3>5. QED  BY <3>3, <3>4
    <2>3. QED  BY <2>1, <2>2
  <1>9. /\ VerifyOK(DeployedKey, DeployedHeads, c)
        /\ {c[k].laneId : k \in DOMAIN c} = 0..(Len(c) - 1)
    BY <1>7, <1>8, FittingVerifies
  <1>10. QED  BY <1>6, <1>7, <1>9

(***************************************************************************)
(* A bundle of live and replayed proofs of the deployed setup has a proof  *)
(* of every lane and is accepted by a certifier with its lane heads        *)
(* (mergeBundles and CCGroth16BatchVerifier).                              *)
(***************************************************************************)
THEOREM MergedBundleIsAccepted == Spec => []MergedBundleVerifies
  <1>1. Init => MergeInv  BY MergeStarts
  <1>2. IInv /\ MergeInv /\ [Next]_vars => MergeInv'  BY MergeKept
  <1>3. IInv /\ MergeInv => MergedBundleVerifies  BY MergedVerifies DEF IInv
  <1>4. QED  BY <1>1, <1>2, <1>3, InvariantHolds, PTL DEF Spec
=============================================================================
