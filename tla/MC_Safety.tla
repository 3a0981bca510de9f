----------------------------- MODULE MC_Safety --------------------------------
(***************************************************************************)
(* The safety-only parts in one TLC run, under symmetry: the priority      *)
(* semaphore of five goroutines (PrioritySemaphore, checked against its    *)
(* abstract specification), `siso query` (Query) and `siso metrics cmp`    *)
(* (MetricsCmp).  They share no state; `part`, chosen in Init, says which  *)
(* one a behaviour runs while the others stay in a fixed initial state.   *)
(* Query's and MetricsCmp's values hold no goroutine, so permuting the     *)
(* goroutines maps each of their states to itself and the symmetry stays   *)
(* sound for the union.                                                    *)
(***************************************************************************)
EXTENDS Naturals, Sequences, TLC

CONSTANTS p1, p2, p3, p4, p5, NoProc

VARIABLES
    part,
    \* PrioritySemaphore
    pc, calls, weight, rstate, index, pq, used, mu, sendTo, tid,
    canceled, waits, reqs, enqAt, ticks,
    \* Query
    lab, leafEdge, ruleOf, cmd, args, orderOnly, depth, all, rule, binding, rootOrder, out, done,
    \* MetricsCmp
    format, inA, inB, cpc, z, pj, lines, cexit

\* Five goroutines, two of whose contexts may be canceled; one slot, two
\* weights and one call each, so that every waiter queues behind a holder
\* and the queue orders by weight and by arrival.
MCProcs5 == {p1, p2, p3, p4, p5}
MCCancelers5 == {p1, p2}
Ps == INSTANCE PrioritySemaphore WITH
        Procs <- MCProcs5, Cancelers <- MCCancelers5, Capacity <- 1,
        Weights <- {1, 2}, MaxCalls <- 1

\* Build graphs of four nodes, every subcommand and flag; one target, or
\* two.
MCArgChoices == {<<1>>, <<2, 1>>}
Q == INSTANCE Query WITH
        N <- 4, Commands <- {"digraph", "commands", "targets", "rule"},
        ArgChoices <- MCArgChoices, Depths <- {0, 1, 2, 3}, Labels <- {"in", "oo"}

\* Metrics of two outputs with two durations; files of up to three
\* metrics, so that an output repeats within a file, or unreadable; both
\* formats and an unknown one.
CmpMetrics == {[output |-> o, action |-> "cc", dur |-> d] : o \in {"o1", "o2"}, d \in {1, 2}}
CmpFiles ==
    {[ok |-> FALSE, ms |-> <<>>]}
    \cup {[ok |-> TRUE, ms |-> s] : s \in UNION {[1 .. count -> CmpMetrics] : count \in 0 .. 3}}
Mc == INSTANCE MetricsCmp WITH
        OutOrder <- <<"o1", "o2">>, Files <- CmpFiles, Formats <- {"diff", "join", "csv"}

psVars == <<pc, calls, weight, rstate, index, pq, used, mu, sendTo, tid,
            canceled, waits, reqs, enqAt, ticks>>
qVars == <<lab, leafEdge, ruleOf, cmd, args, orderOnly, depth, all, rule, binding, rootOrder, out, done>>
mcVars == <<format, inA, inB, cpc, z, pj, lines, cexit>>
allVars == <<part, psVars, qVars, mcVars>>

\* The goroutines that may be canceled are interchangeable, and so are
\* the others.
MCSymmetry5 == Permutations(MCCancelers5) \cup Permutations(MCProcs5 \ MCCancelers5)

\* Each part's initial states; the parts a behaviour does not run are
\* fixed first, so that TLC does not enumerate their choices.
Parts == {"ps", "query", "cmp"}

Init ==
    /\ part \in Parts
    /\ IF part = "query" THEN TRUE
       ELSE /\ cmd = "commands" /\ args = <<1>> /\ leafEdge = {}
            /\ lab = [x \in Q!Pairs |-> "none"]
    /\ IF part = "cmp" THEN TRUE
       ELSE /\ format = "csv" /\ inA = [ok |-> FALSE, ms |-> <<>>] /\ inB = inA
    /\ Ps!Init /\ Q!Init /\ Mc!Init

Next ==
    \/ part = "ps" /\ Ps!Next /\ UNCHANGED <<part, qVars, mcVars>>
    \/ part = "query" /\ Q!Next /\ UNCHANGED <<part, psVars, mcVars>>
    \/ part = "cmp" /\ Mc!Next /\ UNCHANGED <<part, psVars, qVars>>

Spec == Init /\ [][Next]_allVars

----------------------------------------------------------------------------
TypeOK ==
    /\ part \in Parts
    /\ Ps!TypeOK /\ Q!TypeOK /\ Mc!TypeOK

\* PrioritySemaphore.tla: `used` counts the goroutines serving and the
\* releasers handing their slot over, never more than the capacity.
SlotAccounting == Ps!SlotAccounting

\* PrioritySemaphore.tla: while a slot is free, every request left in pq
\* has been canceled.
NoLostWakeup == Ps!NoLostWakeup

\* PrioritySemaphore.tla: every request in pq sits at the position its
\* index names, and a parked Waiting request is in pq.
IndexConsistent == Ps!IndexConsistent

\* PrioritySemaphore.tla: privateRelease hands its slot to a goroutine
\* still receiving, and no Waiting request in pq outweighs it.
GrantToHighestWaiter == Ps!GrantToHighestWaiter

\* PrioritySemaphore.tla: every step of WaitAcquire, cancellation and
\* privateRelease is a step of the abstract semaphore or a stutter.
RefinesAbstract == Ps!RefinesAbstract

\* Query.tla: digraph prints every reachable node once with its inputs.
DigraphComplete == Q!DigraphComplete

\* Query.tla: commands lists every needed command once, inputs first.
CommandsInBuildOrder == Q!CommandsInBuildOrder

\* Query.tla: targets -all, -depth 0 and -rule list exactly their targets.
TargetsListed == Q!TargetsListed

\* MetricsCmp.tla: `metrics cmp` pairs every output of either file once,
\* in sorted order, with its last metric in each file.
JoinPairsEveryOutput == Mc!JoinPairsEveryOutput

====
