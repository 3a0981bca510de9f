--------------------- MODULE PrioritySemaphoreAbstract ---------------------
(***************************************************************************)
(* What a priority semaphore promises (spec 4.4), with no heap, mutex or   *)
(* channel: a set of holders of at most Capacity slots and a set of        *)
(* waiting <<goroutine, weight>> requests.  A release passes its slot to a *)
(* waiting request of maximal weight, or frees it when nobody waits; a     *)
(* waiter may give up at any time.  Ties between equal weights are left    *)
(* open.                                                                   *)
(***************************************************************************)
EXTENDS Integers, FiniteSets

CONSTANTS Procs, Capacity, Weights

VARIABLES holders, waiting

avars == <<holders, waiting>>

Waiters == {e[1] : e \in waiting}

AInit ==
    /\ holders = {}
    /\ waiting = {}

\* A free slot is taken at once.
AAcquire(p) ==
    /\ p \notin holders \cup Waiters
    /\ Cardinality(holders) < Capacity
    /\ holders' = holders \cup {p}
    /\ UNCHANGED waiting

\* With every slot taken the caller waits with its weight.
AEnqueue(p, w) ==
    /\ p \notin holders \cup Waiters
    /\ Cardinality(holders) = Capacity
    /\ waiting' = waiting \cup {<<p, w>>}
    /\ UNCHANGED holders

\* A waiter gives up.
ACancel(e) ==
    /\ e \in waiting
    /\ waiting' = waiting \ {e}
    /\ UNCHANGED holders

\* A holder releases: the slot goes to a heaviest waiter, if any.
ARelease(p) ==
    /\ p \in holders
    /\ IF waiting = {}
          THEN /\ holders' = holders \ {p}
               /\ UNCHANGED waiting
          ELSE \E e \in waiting :
                  /\ \A o \in waiting : o[2] <= e[2]
                  /\ holders' = (holders \ {p}) \cup {e[1]}
                  /\ waiting' = waiting \ {e}

ANext ==
    \/ \E p \in Procs : AAcquire(p) \/ ARelease(p)
    \/ \E p \in Procs, w \in Weights : AEnqueue(p, w)
    \/ \E e \in waiting : ACancel(e)

ASpec == AInit /\ [][ANext]_avars

====
