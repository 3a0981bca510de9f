------------------------- MODULE PrioritySemaphore -------------------------
(***************************************************************************)
(* semaphore.Prioritized (src/sync/semaphore/priority_semaphore_test.go,  *)
(* whose second half is priority_semaphore.go, lines 300-536).             *)
(*                                                                         *)
(* Each process in Procs is a goroutine calling Do / WaitAcquire up to     *)
(* MaxCalls times.  The state is the semaphore's fields (used, pq, the     *)
(* waits and reqs counters), each request's state and heap index, the      *)
(* mutex held by a releaser blocked on the unbuffered `ready` send, and    *)
(* each goroutine's program counter.                                       *)
(*                                                                         *)
(* The heap is container/heap over priorityQueue: Push/Pop/Remove with     *)
(* the up/down sifts, driven by the repository's Less and Swap.  The       *)
(* privateRelease pop loop runs under the mutex; a waiter's cancel CAS     *)
(* touches only its own request, so it commutes with the pops of other     *)
(* requests and the loop is one step.                                      *)
(***************************************************************************)
EXTENDS Integers, Sequences, FiniteSets

CONSTANTS
    Procs,      \* goroutines calling Do
    Capacity,   \* NewPrioritized(name, n): n
    Weights,    \* the weights callers pass
    MaxCalls,   \* bound: calls of Do per goroutine
    Cancelers,  \* bound: goroutines whose context may be canceled
    NoProc      \* model value: no goroutine

ASSUME /\ Capacity \in Nat \ {0}
       /\ MaxCalls \in Nat \ {0}
       /\ Cancelers \subseteq Procs
       /\ NoProc \notin Procs

\* request.state (lines 320-324)
stateWaiting == "Waiting"
stateAcquired == "Acquired"
stateCanceled == "Canceled"

VARIABLES
    pc,       \* where each goroutine is in Do/WaitAcquire/privateRelease
    calls,    \* calls of Do made so far (bounded by MaxCalls)
    weight,   \* request.weight of the goroutine's current call
    rstate,   \* request.state (atomic)
    index,    \* request.index
    pq,       \* Prioritized.pq, a sequence of requests (0-based in Go)
    used,     \* Prioritized.used
    mu,       \* holder of Prioritized.mu across the blocking ready send
    sendTo,   \* request a releaser is sending its tid to (req.ready <- tid)
    tid,      \* tid handed to the holder (-1: none)
    canceled, \* ctx.Done() of the current call is closed
    waits,    \* Prioritized.waits
    reqs,     \* Prioritized.reqs
    enqAt,    \* history: enqueue order of the current request
    ticks     \* history: number of heap.Push calls

vars == <<pc, calls, weight, rstate, index, pq, used, mu, sendTo, tid,
          canceled, waits, reqs, enqAt, ticks>>

PCs == {"idle", "lock", "select", "recv", "remove", "holding", "send"}

----------------------------------------------------------------------------
(* priorityQueue and container/heap.  A heap is [q |-> pq, idx |-> index]; *)
(* Go position i is sequence position i+1.                                 *)

Heap == [q |-> pq, idx |-> index]

\* Mutant: the comparison reversed (lower weight served first).
LessMin(h, i, j) == weight[h.q[i + 1]] < weight[h.q[j + 1]]

\* Higher weight has higher priority.
Less(h, i, j) == weight[h.q[i + 1]] > weight[h.q[j + 1]]

\* Mutant: Swap forgets pq[j].index = j.
SwapStaleIndex(h, i, j) ==
    LET a == h.q[i + 1]
        b == h.q[j + 1]
    IN  [q   |-> [h.q EXCEPT ![i + 1] = b, ![j + 1] = a],
         idx |-> [h.idx EXCEPT ![b] = i]]

\* pq[i], pq[j] = pq[j], pq[i]; pq[i].index = i; pq[j].index = j
Swap(h, i, j) ==
    LET a == h.q[i + 1]
        b == h.q[j + 1]
    IN  [q   |-> [h.q EXCEPT ![i + 1] = b, ![j + 1] = a],
         idx |-> [h.idx EXCEPT ![b] = i, ![a] = j]]

\* container/heap up: sift element j towards the root.  Go's (j-1)/2
\* truncates, so j = 0 is its own parent and stops the loop.
RECURSIVE Up(_, _)
Up(h, j) ==
    IF j = 0 THEN h
    ELSE LET i == (j - 1) \div 2
         IN  IF ~Less(h, j, i) THEN h ELSE Up(Swap(h, i, j), i)

\* Mutant: down only ever looks at the left child.
RECURSIVE DownLeftOnly(_, _, _)
DownLeftOnly(h, i, n) ==
    LET j == 2 * i + 1
    IN  IF j >= n \/ ~Less(h, j, i) THEN [h |-> h, at |-> i]
        ELSE DownLeftOnly(Swap(h, i, j), j, n)

\* container/heap down, from i within the first n elements; returns the
\* heap and the final position of the sifted element.
RECURSIVE DownTo(_, _, _)
DownTo(h, i, n) ==
    LET j1 == 2 * i + 1
        j  == IF j1 + 1 < n /\ Less(h, j1 + 1, j1) THEN j1 + 1 ELSE j1
    IN  IF j1 >= n \/ ~Less(h, j, i) THEN [h |-> h, at |-> i]
        ELSE DownTo(Swap(h, i, j), j, n)

\* priorityQueue.Push: req.index = n; append.  heap.Push adds up(n).
HeapPush(h, r) ==
    LET n == Len(h.q)
    IN  Up([q |-> Append(h.q, r), idx |-> [h.idx EXCEPT ![r] = n]], n)

\* priorityQueue.Pop: take the last element, set its index to -1.
PqPop(h) ==
    LET n == Len(h.q)
        r == h.q[n]
    IN  [h |-> [q |-> SubSeq(h.q, 1, n - 1), idx |-> [h.idx EXCEPT ![r] = -1]],
         x |-> r]

\* heap.Pop: swap root with last, down(0, n), Pop.
HeapPop(h) ==
    LET n == Len(h.q) - 1
    IN  PqPop(DownTo(Swap(h, 0, n), 0, n).h)

\* heap.Remove(h, i): swap i with last, down or else up, Pop.
HeapRemove(h, i) ==
    LET n == Len(h.q) - 1
        d == DownTo(Swap(h, i, n), i, n)
    IN  IF n = i THEN PqPop(h)
        ELSE PqPop(IF d.at > i THEN d.h ELSE Up(d.h, i))

\* Mutant: the loop body returns after the first pop even when its CAS
\* fails (a canceled request), so later waiting requests stay queued.
PopOnce(h) ==
    IF Len(h.q) = 0 THEN [h |-> h, got |-> NoProc]
    ELSE LET r == HeapPop(h)
         IN  [h |-> r.h, got |-> IF rstate[r.x] = stateWaiting THEN r.x ELSE NoProc]

\* The privateRelease loop: pop until a CAS Waiting -> Acquired succeeds
\* or the queue is empty (got = NoProc).
RECURSIVE PopWaiting(_)
PopWaiting(h) ==
    IF Len(h.q) = 0 THEN [h |-> h, got |-> NoProc]
    ELSE LET r == HeapPop(h)
         IN  IF rstate[r.x] = stateWaiting THEN [h |-> r.h, got |-> r.x]
             ELSE PopWaiting(r.h)

----------------------------------------------------------------------------
Init ==
    /\ pc = [p \in Procs |-> "idle"]
    /\ calls = [p \in Procs |-> 0]
    /\ weight = [p \in Procs |-> CHOOSE w \in Weights : TRUE]
    /\ rstate = [p \in Procs |-> stateWaiting]
    /\ index = [p \in Procs |-> -1]
    /\ pq = <<>>
    /\ used = 0
    /\ mu = NoProc
    /\ sendTo = [p \in Procs |-> NoProc]
    /\ tid = [p \in Procs |-> -1]
    /\ canceled = [p \in Procs |-> FALSE]
    /\ waits = 0
    /\ reqs = 0
    /\ enqAt = [p \in Procs |-> 0]
    /\ ticks = 0

----------------------------------------------------------------------------
(* WaitAcquire (lines 398-460).                                            *)

\* Do calls WaitAcquire(ctx, weight): s.waits.Add(1) before taking mu.
Start(p) ==
    /\ pc[p] = "idle"
    /\ calls[p] < MaxCalls
    /\ \E w \in Weights : weight' = [weight EXCEPT ![p] = w]
    /\ calls' = [calls EXCEPT ![p] = @ + 1]
    /\ canceled' = [canceled EXCEPT ![p] = FALSE]
    /\ waits' = waits + 1
    /\ pc' = [pc EXCEPT ![p] = "lock"]
    /\ UNCHANGED <<rstate, index, pq, used, mu, sendTo, tid, reqs, enqAt, ticks>>

\* Mutant: the capacity check is off by one (used <= capacity).
AcquireNowOffByOne(p) ==
    /\ pc[p] = "lock"
    /\ mu = NoProc
    /\ used <= Capacity
    /\ tid' = [tid EXCEPT ![p] = used]
    /\ used' = used + 1
    /\ reqs' = reqs + 1
    /\ waits' = waits - 1
    /\ pc' = [pc EXCEPT ![p] = "holding"]
    /\ UNCHANGED <<calls, weight, rstate, index, pq, mu, sendTo, canceled,
                   enqAt, ticks>>

\* Under mu with used < capacity: tid = used, used++, unlock, reqs.Add(1),
\* return (the deferred waits.Add(-1)).
AcquireNow(p) ==
    /\ pc[p] = "lock"
    /\ mu = NoProc
    /\ used < Capacity
    /\ tid' = [tid EXCEPT ![p] = used]
    /\ used' = used + 1
    /\ reqs' = reqs + 1
    /\ waits' = waits - 1
    /\ pc' = [pc EXCEPT ![p] = "holding"]
    /\ UNCHANGED <<calls, weight, rstate, index, pq, mu, sendTo, canceled,
                   enqAt, ticks>>

\* Under mu with no capacity: heap.Push a new request, unlock, select.
Enqueue(p) ==
    /\ pc[p] = "lock"
    /\ mu = NoProc
    /\ used >= Capacity
    /\ LET h == HeapPush(Heap, p)
       IN  /\ pq' = h.q
           /\ index' = h.idx
    /\ rstate' = [rstate EXCEPT ![p] = stateWaiting]
    /\ enqAt' = [enqAt EXCEPT ![p] = ticks]
    /\ ticks' = ticks + 1
    /\ pc' = [pc EXCEPT ![p] = "select"]
    /\ UNCHANGED <<calls, weight, used, mu, sendTo, tid, canceled, waits, reqs>>

\* The caller's context is canceled (ctx.Done() closes).
Cancel(p) ==
    /\ p \in Cancelers
    /\ pc[p] \in {"lock", "select"}
    /\ ~canceled[p]
    /\ canceled' = [canceled EXCEPT ![p] = TRUE]
    /\ UNCHANGED <<pc, calls, weight, rstate, index, pq, used, mu, sendTo, tid,
                   waits, reqs, enqAt, ticks>>

\* tid := <-req.ready, in the select or after losing the cancel race; the
\* releaser's send completes, it unlocks mu and returns.  reqs.Add(1),
\* return (waits.Add(-1)).
Receive(p) ==
    /\ pc[p] \in {"select", "recv"}
    /\ \E r \in Procs :
          /\ pc[r] = "send"
          /\ sendTo[r] = p
          /\ tid' = [tid EXCEPT ![p] = tid[r], ![r] = -1]
          /\ sendTo' = [sendTo EXCEPT ![r] = NoProc]
          /\ pc' = [pc EXCEPT ![p] = "holding", ![r] = "idle"]
    /\ mu' = NoProc
    /\ reqs' = reqs + 1
    /\ waits' = waits - 1
    /\ UNCHANGED <<calls, weight, rstate, index, pq, used, canceled, enqAt, ticks>>

\* case <-ctx.Done(): the CAS Waiting -> Canceled succeeds.
CancelWins(p) ==
    /\ pc[p] = "select"
    /\ canceled[p]
    /\ rstate[p] = stateWaiting
    /\ rstate' = [rstate EXCEPT ![p] = stateCanceled]
    /\ pc' = [pc EXCEPT ![p] = "remove"]
    /\ UNCHANGED <<calls, weight, index, pq, used, mu, sendTo, tid, canceled,
                   waits, reqs, enqAt, ticks>>

\* case <-ctx.Done(): the CAS fails, a releaser already acquired the
\* request for us; block on <-req.ready.
CancelLoses(p) ==
    /\ pc[p] = "select"
    /\ canceled[p]
    /\ rstate[p] # stateWaiting
    /\ pc' = [pc EXCEPT ![p] = "recv"]
    /\ UNCHANGED <<calls, weight, rstate, index, pq, used, mu, sendTo, tid,
                   canceled, waits, reqs, enqAt, ticks>>

\* Under mu: if req.index != -1, heap.Remove; unlock, return the error.
Remove(p) ==
    /\ pc[p] = "remove"
    /\ mu = NoProc
    /\ IF index[p] # -1
          THEN LET h == HeapRemove(Heap, index[p]).h
               IN  pq' = h.q /\ index' = h.idx
          ELSE UNCHANGED <<pq, index>>
    /\ waits' = waits - 1
    /\ pc' = [pc EXCEPT ![p] = "idle"]
    /\ UNCHANGED <<calls, weight, rstate, used, mu, sendTo, tid, canceled,
                   reqs, enqAt, ticks>>

----------------------------------------------------------------------------
(* Do (lines 521-536) then done(err) -> privateRelease (lines 462-491).    *)
(* Whether Do runs f or returns ctx.Err() first, done runs exactly once.   *)

\* Mutant: s.used-- runs before the loop instead of only when it empties.
ReleaseHandoffDecrements(p) ==
    /\ pc[p] = "holding"
    /\ mu = NoProc
    /\ LET r == PopWaiting(Heap)
       IN  /\ r.got # NoProc
           /\ pq' = r.h.q
           /\ index' = r.h.idx
           /\ rstate' = [rstate EXCEPT ![r.got] = stateAcquired]
           /\ sendTo' = [sendTo EXCEPT ![p] = r.got]
    /\ mu' = p
    /\ used' = used - 1
    /\ pc' = [pc EXCEPT ![p] = "send"]
    /\ UNCHANGED <<calls, weight, tid, canceled, waits, reqs, enqAt, ticks>>

\* privateRelease pops a waiting request, CASes it to Acquired and blocks
\* on req.ready <- tid while still holding mu.
ReleaseHandoff(p) ==
    /\ pc[p] = "holding"
    /\ mu = NoProc
    /\ LET r == PopWaiting(Heap)
       IN  /\ r.got # NoProc
           /\ pq' = r.h.q
           /\ index' = r.h.idx
           /\ rstate' = [rstate EXCEPT ![r.got] = stateAcquired]
           /\ sendTo' = [sendTo EXCEPT ![p] = r.got]
    /\ mu' = p
    /\ pc' = [pc EXCEPT ![p] = "send"]
    /\ UNCHANGED <<calls, weight, used, tid, canceled, waits, reqs, enqAt, ticks>>

\* Mutant: the empty-queue path forgets s.used--.
ReleaseFreeLeaks(p) ==
    /\ pc[p] = "holding"
    /\ mu = NoProc
    /\ LET r == PopWaiting(Heap)
       IN  /\ r.got = NoProc
           /\ pq' = r.h.q
           /\ index' = r.h.idx
    /\ tid' = [tid EXCEPT ![p] = -1]
    /\ pc' = [pc EXCEPT ![p] = "idle"]
    /\ UNCHANGED <<calls, weight, rstate, mu, sendTo, canceled, waits, reqs,
                   enqAt, ticks, used>>

\* privateRelease finds no waiting request (every popped one was
\* canceled): s.used--.
ReleaseFree(p) ==
    /\ pc[p] = "holding"
    /\ mu = NoProc
    /\ LET r == PopWaiting(Heap)
       IN  /\ r.got = NoProc
           /\ pq' = r.h.q
           /\ index' = r.h.idx
    /\ used' = used - 1
    /\ tid' = [tid EXCEPT ![p] = -1]
    /\ pc' = [pc EXCEPT ![p] = "idle"]
    /\ UNCHANGED <<calls, weight, rstate, mu, sendTo, canceled, waits, reqs,
                   enqAt, ticks>>

\* Every goroutine has made its calls and returned.
Finished ==
    /\ \A p \in Procs : pc[p] = "idle" /\ calls[p] = MaxCalls
    /\ UNCHANGED vars

\* The steps goroutine p takes by itself once Do has been called.
Step(p) ==
    \/ AcquireNow(p) \/ Enqueue(p) \/ Receive(p) \/ CancelWins(p)
    \/ CancelLoses(p) \/ Remove(p) \/ ReleaseHandoff(p) \/ ReleaseFree(p)

Next ==
    \/ \E p \in Procs : Start(p) \/ Cancel(p) \/ Step(p)
    \/ Finished

(* Fairness.  A goroutine inside Do keeps running; calling Do and canceling *)
(* are the caller's choice and are not fair.  Taking mu is only            *)
(* intermittently enabled, since a releaser holds mu across the ready      *)
(* send; sync.Mutex's starvation mode would justify strong fairness, but   *)
(* weak fairness is assumed, the weaker assumption: with at most MaxCalls  *)
(* calls per goroutine, mu is eventually free for good.  At each pc only   *)
(* one kind of p's steps is enabled, so one condition per goroutine        *)
(* suffices.                                                               *)
Fairness == \A p \in Procs : WF_vars(Step(p))

Spec == Init /\ [][Next]_vars

FairSpec == Spec /\ Fairness

----------------------------------------------------------------------------
(* Properties.                                                             *)

Holding == {p \in Procs : pc[p] = "holding"}
Senders == {p \in Procs : pc[p] = "send"}
Queued == {pq[i] : i \in 1..Len(pq)}

TypeOK ==
    /\ pc \in [Procs -> PCs]
    /\ calls \in [Procs -> 0..MaxCalls]
    /\ weight \in [Procs -> Weights]
    /\ rstate \in [Procs -> {stateWaiting, stateAcquired, stateCanceled}]
    /\ index \in [Procs -> -1..Cardinality(Procs)]
    /\ pq \in Seq(Procs)
    /\ used \in 0..Capacity
    /\ mu \in Procs \cup {NoProc}
    /\ sendTo \in [Procs -> Procs \cup {NoProc}]
    /\ tid \in [Procs -> -1..Capacity]
    /\ canceled \in [Procs -> BOOLEAN]
    /\ waits \in 0..Cardinality(Procs)
    /\ reqs \in Nat

\* Slot accounting across WaitAcquire and privateRelease: `used` equals the
\* goroutines serving plus the releasers handing their slot over on
\* req.ready, and never exceeds the capacity.
SlotAccounting ==
    /\ used = Cardinality(Holding) + Cardinality(Senders)
    /\ used <= Capacity

\* No lost wakeup: while a slot is free, every request still in pq has
\* been canceled; a waiting request is never left queued behind a free
\* slot (the used < capacity check in WaitAcquire vs. the pop loop of
\* privateRelease).
NoLostWakeup ==
    used < Capacity => \A r \in Queued : rstate[r] = stateCanceled

\* heap.Remove(&s.pq, req.index) on cancellation relies on the index that
\* Swap, Push and Pop maintain: every request in pq sits at the position its
\* index names, and a goroutine still parked in the select with a Waiting
\* request is in pq.
IndexConsistent ==
    /\ \A i \in 1..Len(pq) : index[pq[i]] = i - 1
    /\ \A p \in Procs :
          pc[p] = "select" /\ rstate[p] = stateWaiting => p \in Queued

\* A releaser blocked on req.ready <- tid has chosen a goroutine that is
\* still receiving (in the select or in <-req.ready after losing the cancel
\* CAS), never one whose cancel won, and no Waiting request left in pq
\* outweighs it (heap order of Less).
GrantToHighestWaiter ==
    \A r \in Senders :
        LET q == sendTo[r]
        IN  /\ pc[q] \in {"select", "recv"}
            /\ rstate[q] = stateAcquired
            /\ \A o \in Queued : rstate[o] = stateWaiting => weight[o] <= weight[q]

\* Spec 4.4 and 8: among equal weights the semaphore grants in FIFO order
\* of enqueue.
FifoAmongEqualWeights ==
    \A r \in Senders :
        \A o \in Queued :
            rstate[o] = stateWaiting /\ weight[o] = weight[sendTo[r]]
                => enqAt[o] > enqAt[sendTo[r]]

\* Every WaitAcquire returns: each call either gets a slot or, canceled,
\* returns its error.
WaitAcquireReturns ==
    \A p \in Procs : pc[p] = "lock" ~> pc[p] \in {"holding", "idle"}

\* Once the callers stop, every slot is given back and the queue drains:
\* used returns to 0 (no slot leaked by a cancel racing a release).
SlotsDrain ==
    <>[](used = 0 /\ pq = <<>>)

----------------------------------------------------------------------------
(* Refinement.  The abstract holders are the goroutines serving plus the   *)
(* request a releaser is handing its slot to (the slot moves at the pop,   *)
(* not at the receive); the abstract waiting requests are the Waiting      *)
(* requests in pq.                                                         *)

Abs == INSTANCE PrioritySemaphoreAbstract WITH
           holders <- Holding \cup {sendTo[r] : r \in Senders},
           waiting <- {<<q, weight[q]>> : q \in {x \in Queued : rstate[x] = stateWaiting}}

\* Prioritized implements the priority semaphore of spec 4.4: every step of
\* WaitAcquire, cancellation and privateRelease is a step of the abstract
\* semaphore or leaves it unchanged.
RefinesAbstract == Abs!ASpec

====
