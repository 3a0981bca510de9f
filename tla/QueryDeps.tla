------------------------------ MODULE QueryDeps ------------------------------
(***************************************************************************)
(* `siso query deps` (src/subcmd/query/deps.go): open the deps log; with  *)
(* -raw take the targets from the command line or the log's recorded     *)
(* targets; otherwise load the HashFS state and build.ninja and take the  *)
(* named nodes, or every node sorted by path.  Then, per target,          *)
(* lookupDeps: the deps log's record first, then (with -depfile) the     *)
(* target's edge and its depfile, printing a block, an error line, or     *)
(* nothing when no dependencies are recorded anywhere.                    *)
(*                                                                         *)
(* Targets are names; a name outside GraphPaths is one build.ninja does   *)
(* not have (a deps log may still hold a record for it).  A target's      *)
(* edge is abstracted to its deps binding and the state of its depfile.   *)
(***************************************************************************)
EXTENDS Naturals, Sequences, SequencesExt

CONSTANTS
    GraphPaths,   \* the nodes of build.ninja
    Names,        \* names a command line or the deps log may hold
    PathOrder,    \* Names in strings.Compare order
    ArgChoices    \* command-line targets

\* A node's in-edge: none, deps=gcc|msvc, an unknown deps value, or
\* deps="" with no depfile, a missing depfile, an unparsable one, or a
\* good one.
Edges ==
    {[deps |-> "none", depfile |-> "none"], [deps |-> "gcc", depfile |-> "none"],
     [deps |-> "bogus", depfile |-> "none"]}
    \cup {[deps |-> "", depfile |-> d] : d \in {"none", "missing", "bad", "ok"}}

VARIABLES
    raw,      \* -raw
    depfile,  \* -depfile
    dargs,    \* the positional arguments
    logRec,   \* name -> the deps log holds a record for it
    edgeOf,   \* node -> its in-edge
    dpc,      \* "start", "loop", "done"
    targets,  \* the targets to look up
    k,        \* the next target's index
    printed,  \* the blocks and error lines written: [t, kind]
    dexit     \* "none", "success", "failure"

depsVars == <<raw, depfile, dargs, logRec, edgeOf, dpc, targets, k, printed, dexit>>

\* depsLog.RecordedTargets(), taken in path order.
RecordedTargets == SelectSeq(PathOrder, LAMBDA t : logRec[t])

\* depsTargets (lines 230-250): state.Targets(args), where a name not in
\* the graph is an error, or all nodes sorted by path.
AllNodesSorted == SelectSeq(PathOrder, LAMBDA t : t \in GraphPaths)

Init ==
    /\ raw \in BOOLEAN
    /\ depfile \in BOOLEAN
    /\ dargs \in ArgChoices
    /\ logRec \in [Names -> BOOLEAN]
    /\ edgeOf \in [GraphPaths -> Edges]
    /\ dpc = "start"
    /\ targets = <<>>
    /\ k = 1
    /\ printed = <<>>
    /\ dexit = "none"

\* run (lines 101-160): getwd, EvalSymlinks, chdir, NewDepsLog, and, when
\* not -raw, hashfs.New, Load, SetState and the manifest may each fail.
Setup ==
    /\ dpc = "start"
    /\ \/ dexit' = "failure" /\ dpc' = "done" /\ UNCHANGED targets
       \/ /\ raw
          /\ targets' = IF dargs = <<>> THEN RecordedTargets ELSE dargs
          /\ dpc' = "loop" /\ UNCHANGED dexit
       \/ /\ ~raw
          /\ IF \E j \in DOMAIN dargs : dargs[j] \notin GraphPaths
             THEN dexit' = "failure" /\ dpc' = "done" /\ UNCHANGED targets
             ELSE /\ targets' = IF dargs = <<>> THEN AllNodesSorted ELSE dargs
                  /\ dpc' = "loop" /\ UNCHANGED dexit
    /\ UNCHANGED <<raw, depfile, dargs, logRec, edgeOf, k, printed>>

\* lookupDeps (lines 182-228) for target t, with the build state kept only
\* under -depfile (lines 157-159) and HashFS only without -raw: the
\* printed kind, or "skip" for ErrNoDepsLog.  A deps-log block checks the
\* record against HashFS when there is one.
LookupDeps(t) ==
    LET useState == ~raw /\ depfile
        e == edgeOf[t]
    IN CASE logRec[t] -> IF raw THEN "deps" ELSE "depsChecked"
         [] ~useState -> "skip"
         [] t \notin GraphPaths -> "error"
         [] e.deps = "none" -> "error"
         [] e.deps = "gcc" -> "skip"
         [] e.deps = "bogus" -> "error"
         [] e.depfile = "none" -> "skip"
         [] e.depfile \in {"missing", "bad"} -> "error"
         [] OTHER -> "depfile"

\* The loop (lines 162-178): ErrNoDepsLog prints nothing, any other error
\* a line, a result its block.
Lookup ==
    /\ dpc = "loop"
    /\ k <= Len(targets)
    /\ LET r == LookupDeps(targets[k])
       IN printed' = IF r = "skip" THEN printed
                     ELSE Append(printed, [t |-> targets[k], kind |-> r])
    /\ k' = k + 1
    /\ UNCHANGED <<raw, depfile, dargs, logRec, edgeOf, dpc, targets, dexit>>

\* Line 179: w.Flush.
FlushOut ==
    /\ dpc = "loop"
    /\ k > Len(targets)
    /\ dexit' \in {"success", "failure"}
    /\ dpc' = "done"
    /\ UNCHANGED <<raw, depfile, dargs, logRec, edgeOf, targets, k, printed>>

Finished ==
    /\ dpc = "done"
    /\ UNCHANGED depsVars

Next == Setup \/ Lookup \/ FlushOut \/ Finished

Spec == Init /\ [][Next]_depsVars

----------------------------------------------------------------------------
TypeOK ==
    /\ dpc \in {"start", "loop", "done"}
    /\ k \in 1 .. Len(targets) + 1
    /\ \A j \in DOMAIN printed :
          printed[j].kind \in {"deps", "depsChecked", "depfile", "error"}
    /\ dexit \in {"none", "success", "failure"}

====
