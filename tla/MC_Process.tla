---------------------------- MODULE MC_Process -------------------------------
(***************************************************************************)
(* The process-level pieces in one TLC run: `siso flush` (Flush), `siso   *)
(* isolate` (Isolate, with its interrupt handler and spinner), the        *)
(* metrics export (Monitoring), the io/fs view of HashFS (HashFSView),    *)
(* the compile-argument parsers of scandeps (ScanDepsArgs), `siso query   *)
(* deps` (QueryDeps), `siso report` (Report), `siso version` (Version),   *)
(* the priority semaphore's goroutines under fairness                     *)
(* (PrioritySemaphore), and `siso ps` (PsCommand).  `siso query` and     *)
(* `siso metrics cmp` are checked with the semaphore's safety in         *)
(* MC_Safety.  The parts share no state; `part`, chosen in Init, says    *)
(* which one a behaviour runs while the others stay in a fixed initial   *)
(* state.  ScanDepsArgs, as S, and its inputs come from MC_ScanDepsArgs. *)
(***************************************************************************)
EXTENDS Naturals, Sequences, TLC, MC_ScanDepsArgs

CONSTANTS t1, t2, p1, p2, p3, NoProc

VARIABLES
    part,
    \* Flush
    stm, disk, force, recursive, args, i, inDir, queue, cur, pc,
    \* Isolate, Interrupt, Spinner
    ch, installed, closed, handled, hpc, pending, calls, sent, exited,
    spc, gpc, quitClosed, doneClosed, n, ticks, starts, last,
    mpc, err, credFailed, defers, upc, egErr, result, json,
    \* Monitoring
    numLabels, len, cap, setupPc, made, setups, epc, shared, slot, rec,
    \* HashFSView
    tree, dir, subs, res, handle,
    \* QueryDeps
    raw, depfile, dargs, logRec, edgeOf, dpc, targets, k, printed, dexit,
    \* Report
    rpc, matches, ri, report, fnames, pi, tar, shown, rerr, rexit,
    \* Version
    nargs, cipdFlag, vpc, repo, got, vout, vexit,
    \* PrioritySemaphore
    psPc, psCalls, weight, rstate, index, pq, used, mu, sendTo, tid,
    canceled, waits, reqs, enqAt, psTicks,
    \* PsCommand
    ppc, termui, interval, limit, ret, psCtxDone, psShown, total, pexit

\* A directory "d", a file "d/a" in it and a file "dx" beside it whose name
\* starts with "d": sort.Strings order is d < d/a < dx ('/' < 'x').  Disk
\* mtimes older than, equal to and newer than the recorded one.
PathD == <<"d">>
PathDA == <<"d", "/", "a">>
PathDX == <<"d", "x">>
MCPaths == {PathD, PathDA, PathDX}
F == INSTANCE Flush WITH
        Paths <- MCPaths, Order <- <<PathD, PathDA, PathDX>>,
        ArgChoices <- {<<PathD>>, <<PathDA, PathDX>>, <<PathDX, PathD>>},
        Times <- {1, 2, 3}

\* Two targets, so that one upload's error cancels the other's; three
\* interrupts, one more than the handler's channel holds; credentials,
\* cloud logging and -dump_json all on, so that every step is taken; four
\* spinner ticks, so that the index wraps past `|`.
I == INSTANCE Isolate WITH
        Targets <- {t1, t2}, NeedCred <- TRUE, CloudLogging <- TRUE,
        DumpJSON <- TRUE, MaxSignals <- 3, MaxTicks <- 4

\* Two steps and the build exporting; one or seven -metrics_labels pairs;
\* SetupViews called twice, so that a failed setup is retried.
M == INSTANCE Monitoring WITH
        Procs <- {p1, p2}, LabelCounts <- {1, 7}, MaxSetups <- 2

\* HashFS trees for the view rooted at /w/o: a directory d holding a file
\* f, a file g, a file x outside the root, and three symlink slots, each
\* absent or holding one target: relative, absolute, escaping the root,
\* dangling, or chaining to another slot.  Chains of one to three links,
\* cycles, and links inside a name all occur; maxSymlinks is 3, so that
\* the longest chains reach it.
R(s) == [abs |-> FALSE, el |-> s]
A(s) == [abs |-> TRUE, el |-> s]

Fixed ==
    [p \in {<<>>, <<"w">>, <<"w", "o">>, <<"w", "o", "d">>} |-> [kind |-> "dir"]]
    @@ [p \in {<<"w", "x">>, <<"w", "o", "g">>, <<"w", "o", "d", "f">>} |-> [kind |-> "file"]]

L1 == {R(<<"d">>), R(<<"l2">>), A(<<"w", "o", "d">>), R(<<"..", "x">>), R(<<"nope">>)}
L2 == {R(<<"d", "l3">>), R(<<"l1">>), R(<<"g">>)}
L3 == {R(<<"f">>), R(<<"..", "l1">>), A(<<"w", "o", "l2">>)}

Link(t) == [kind |-> "link", target |-> t]
Slot(p, ts) == {<<>>} \cup {<<p, t>> : t \in ts}
WithLinks(ls) ==
    LET Set == ls \ {<<>>}
    IN Fixed @@ [p \in {l[1] : l \in Set} |-> Link((CHOOSE l \in Set : l[1] = p)[2])]
MCTrees ==
    { WithLinks({a, b, c}) : a \in Slot(<<"w", "o", "l1">>, L1),
                             b \in Slot(<<"w", "o", "l2">>, L2),
                             c \in Slot(<<"w", "o", "d", "l3">>, L3) }

MCNames ==
    { R(<<"l1">>), R(<<"l2">>), R(<<"d", "l3">>), R(<<"l1", "f">>),
      R(<<"g">>), R(<<"d">>), R(<<"f">>), A(<<"w", "o", "l1">>), A(<<"w", "x">>) }

H == INSTANCE HashFSView WITH
        MaxSymlinks <- 3, RefBudget <- 6, Trees <- MCTrees,
        RootDir <- A(<<"w", "o">>), Names <- MCNames, PageSizes <- {0, 1, 2},
        MaxSubs <- 1

\* Two nodes and a name build.ninja lacks; every kind of edge and deps
\* log, named targets in reverse path order, the stale name, or none.
D == INSTANCE QueryDeps WITH
        GraphPaths <- {"a", "b"}, Names <- {"a", "b", "z"}, PathOrder <- <<"a", "b", "z">>,
        ArgChoices <- {<<>>, <<"b", "a">>, <<"z">>}

\* A log file, a .redirected file, a directory with one file and a dangling
\* symlink, in glob order, or only the dangling one (nothing collected).
RpEntry(nm, kd, key, fs) == [name |-> nm, kind |-> kd, key |-> key, files |-> fs]
RpMatches ==
    {<<RpEntry("siso.INFO", "file", "siso.INFO", {}),
       RpEntry("siso_metrics.json.redirected", "redirect", "siso_metrics.json", {}),
       RpEntry("siso_output", "dir", "", {"siso_output/a"}),
       RpEntry(".siso_x", "dangling", "", {})>>,
     <<RpEntry(".siso_x", "dangling", "", {})>>}
Rp == INSTANCE Report WITH
        MatchChoices <- RpMatches, ReproxyLogs <- {".reproxy_tmp/logs/r"},
        NameOrder <- <<".reproxy_tmp/logs/r", "siso.INFO", "siso_metrics.json", "siso_output/a">>

\* The three repositories Execute knows and one it does not.
Vn == INSTANCE Version WITH Repos <- {"infra_superproject", "infra", "build", "other"}

\* Three goroutines of weight 1 calling Do once on a semaphore of one
\* slot, each of which may be canceled: a grant, a cancel and a release
\* race for every request.
Ps == INSTANCE PrioritySemaphore WITH
        pc <- psPc, calls <- psCalls, ticks <- psTicks, Procs <- {p1, p2, p3},
        Cancelers <- {p1, p2, p3}, Capacity <- 1, Weights <- {1}, MaxCalls <- 1

\* -n unset, 1 (under the two headings) and 5; terminals of 3 and 6 rows;
\* up to three active steps, so that the limit cuts a list.
Pc == INSTANCE PsCommand WITH
        canceled <- psCtxDone, shown <- psShown,
        NFlags <- {0, 1, 5}, Heights <- {3, 6}, MaxSteps <- 3

fVars == <<stm, disk, force, recursive, args, i, inDir, queue, cur, pc>>
intVars == <<ch, installed, closed, handled, hpc, pending, calls, sent, exited>>
spinVars == <<spc, gpc, quitClosed, doneClosed, n, ticks, starts, last>>
runVars == <<mpc, err, credFailed, defers, upc, egErr, result, json>>
iVars == <<intVars, spinVars, runVars>>
mVars == <<numLabels, len, cap, setupPc, made, setups, epc, shared, slot, rec>>
hVars == <<tree, dir, subs, res, handle>>
sVars == <<argv, rsp, params>>
dVars == <<raw, depfile, dargs, logRec, edgeOf, dpc, targets, k, printed, dexit>>
rpVars == <<rpc, matches, ri, report, fnames, pi, tar, shown, rerr, rexit>>
vnVars == <<nargs, cipdFlag, vpc, repo, got, vout, vexit>>
psVars == <<psPc, psCalls, weight, rstate, index, pq, used, mu, sendTo, tid,
           canceled, waits, reqs, enqAt, psTicks>>
pcVars == <<ppc, termui, interval, limit, ret, psCtxDone, psShown, total, pexit>>
allVars == <<part, fVars, iVars, mVars, hVars, sVars, dVars, rpVars, vnVars, psVars, pcVars>>

\* Each part's initial states; the parts a behaviour does not run are
\* fixed first, so that TLC does not enumerate their choices.
Parts == {"flush", "isolate", "monitoring", "hashfs", "scandeps", "deps", "report", "version", "ps", "pscmd"}

Init ==
    /\ part \in Parts
    /\ IF part = "hashfs" THEN TRUE ELSE tree = Fixed
    /\ IF part = "scandeps" THEN TRUE
       ELSE argv = <<>> /\ rsp = [r1 |-> SDBad("unreadable"), r2 |-> SDBad("badsplit")]
    /\ IF part = "flush" THEN TRUE
       ELSE /\ stm = [q \in MCPaths |-> "none"] /\ disk = [q \in MCPaths |-> F!NoFile]
            /\ force = FALSE /\ recursive = FALSE /\ args = <<PathD>>
    /\ IF part = "monitoring" THEN TRUE ELSE numLabels = 1
    /\ IF part = "deps" THEN TRUE
       ELSE /\ raw = FALSE /\ depfile = FALSE /\ dargs = <<>>
            /\ logRec = [t \in {"a", "b", "z"} |-> FALSE]
            /\ edgeOf = [t \in {"a", "b"} |-> [deps |-> "none", depfile |-> "none"]]
    /\ IF part = "report" THEN TRUE ELSE matches = <<RpEntry(".siso_x", "dangling", "", {})>>
    /\ IF part = "version" THEN TRUE ELSE nargs = 1 /\ cipdFlag = FALSE
    /\ IF part = "pscmd" THEN TRUE ELSE termui = FALSE /\ interval = "neg" /\ limit = 0
    /\ F!Init /\ I!Init /\ M!Init /\ H!Init /\ S!Init /\ D!Init /\ Rp!Init /\ Vn!Init /\ Ps!Init
    /\ Pc!Init

Next ==
    \/ part = "flush" /\ F!Next /\ UNCHANGED <<part, iVars, mVars, hVars, sVars, dVars, rpVars, vnVars, psVars, pcVars>>
    \/ part = "isolate" /\ I!Next /\ UNCHANGED <<part, fVars, mVars, hVars, sVars, dVars, rpVars, vnVars, psVars, pcVars>>
    \/ part = "monitoring" /\ M!Next /\ UNCHANGED <<part, fVars, iVars, hVars, sVars, dVars, rpVars, vnVars, psVars, pcVars>>
    \/ part = "hashfs" /\ H!Next /\ UNCHANGED <<part, fVars, iVars, mVars, sVars, dVars, rpVars, vnVars, psVars, pcVars>>
    \/ part = "scandeps" /\ S!Next /\ UNCHANGED <<part, fVars, iVars, mVars, hVars, dVars, rpVars, vnVars, psVars, pcVars>>
    \/ part = "deps" /\ D!Next /\ UNCHANGED <<part, fVars, iVars, mVars, hVars, sVars, rpVars, vnVars, psVars, pcVars>>
    \/ part = "report" /\ Rp!Next /\ UNCHANGED <<part, fVars, iVars, mVars, hVars, sVars, dVars, vnVars, psVars, pcVars>>
    \/ part = "version" /\ Vn!Next /\ UNCHANGED <<part, fVars, iVars, mVars, hVars, sVars, dVars, rpVars, psVars, pcVars>>
    \/ part = "ps" /\ Ps!Next /\ UNCHANGED <<part, fVars, iVars, mVars, hVars, sVars, dVars, rpVars, vnVars, pcVars>>
    \/ part = "pscmd" /\ Pc!Next /\ UNCHANGED <<part, fVars, iVars, mVars, hVars, sVars, dVars, rpVars, vnVars, psVars>>

\* Isolate's goroutines are scheduled (Isolate's Fairness), and so is a
\* goroutine inside Do (PrioritySemaphore's Fairness),
\* and so is ps's main goroutine (PsCommand's Fairness).
Fairness ==
    /\ WF_iVars(part = "isolate" /\ I!Main)
    /\ \A t \in {t1, t2} : WF_iVars(part = "isolate" /\ I!Upload(t))
    /\ WF_iVars(part = "isolate" /\ I!Alive /\ (I!I!Receive \/ I!I!RangeEnds \/ I!I!RunFn)
                /\ UNCHANGED <<spinVars, runVars>>)
    /\ WF_iVars(part = "isolate" /\ I!Alive /\ I!S!Quit /\ UNCHANGED <<intVars, runVars>>)
    /\ \A q \in {p1, p2, p3} : WF_psVars(part = "ps" /\ Ps!Step(q))
    /\ WF_pcVars(part = "pscmd" /\ (Pc!PStart \/ Pc!PFetch \/ Pc!PWaitTimer \/ Pc!PWaitDone))

Spec == Init /\ [][Next]_allVars /\ Fairness

----------------------------------------------------------------------------
TypeOK ==
    /\ part \in Parts
    /\ F!TypeOK /\ I!TypeOK /\ M!TypeOK /\ H!TypeOK /\ S!TypeOK /\ D!TypeOK /\ Rp!TypeOK /\ Vn!TypeOK /\ Ps!TypeOK /\ Pc!TypeOK

\* Flush.tla: a successful flush leaves every requested remote file with
\* its recorded content and mtime.
FlushComplete == F!FlushComplete

\* Flush.tla: flush writes only the files it was asked for.
OnlyTargetsWritten == F!OnlyTargetsWritten

\* Isolate.tla: isolate succeeds only with every target's digest.
SucceedsOnlyWithEveryDigest == I!SucceedsOnlyWithEveryDigest

\* Isolate.tla: isolate's run always ends.
RunEnds == part = "isolate" => I!RunEnds

\* Spinner.tla: the spinner prints nothing after Stop's final line.
FinalLineLast == I!S!FinalLineLast


\* HashFSView.tla: Stat, ReadDir, ReadFile, Open and Sub resolve a name
\* as the kernel would, with ELOOP only at maxSymlinks links or more.
FollowsLikeReference == H!FollowsLikeReference

\* HashFSView.tla: VisitedPaths lists the symlinks Stat followed, under
\* the root, then the entry found.
VisitedPathsRecordChain == H!VisitedPathsRecordChain

\* HashFSView.tla: ExpandSymlinks ends with a link-free path to the same
\* entry.
ExpandSymlinksResolves == H!ExpandSymlinksResolves

\* HashFSView.tla: Dir.ReadDir(n) pages return each entry once, at most n
\* at a time.
DirPagesPartition == H!DirPagesPartition

ArchiveOkOnlyWhenComplete == Rp!ArchiveOkOnlyWhenComplete

\* PrioritySemaphore.tla: every WaitAcquire returns, with a slot or, its
\* context canceled, with the error.
WaitAcquireReturns == Ps!WaitAcquireReturns

\* PrioritySemaphore.tla: once the callers stop, used returns to 0 and pq
\* drains.
SlotsDrain == Ps!SlotsDrain

ReturnsOnInterrupt == Pc!ReturnsOnInterrupt

====
