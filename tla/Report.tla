------------------------------- MODULE Report -------------------------------
(***************************************************************************)
(* `siso report` (package report, src/subcmd/webui/webui.go lines 86-327): *)
(* chdir to -C, collect the siso logs there (the glob matches of siso*,   *)
(* .siso*, args.gn and gn_logs.txt, walking directories, following        *)
(* .redirected files, then .reproxy_tmp/logs), and pack them, sorted by   *)
(* name, into a temporary .tgz whose tar, gzip and file writers are       *)
(* closed by deferred calls that keep the first error.                    *)
(*                                                                         *)
(* A glob match is a record: its name, its kind (a file, a dangling       *)
(* symlink, a directory, or a .redirected file), the name it is reported  *)
(* under and, for a directory, the files under it.  Digests, reads and    *)
(* writes may each fail.                                                   *)
(***************************************************************************)
EXTENDS Naturals, Sequences, SequencesExt

CONSTANTS
    MatchChoices,  \* the glob matches of a directory, in pattern order
    ReproxyLogs,   \* the files under .reproxy_tmp/logs
    NameOrder      \* every report name, in sort.Strings order

NoErr == "none"

VARIABLES
    rpc,      \* "start", "collect", "archive", "pack", "close", "done"
    matches,  \* the glob matches
    ri,       \* the next match
    report,   \* the names collected
    fnames,   \* the names to pack, sorted
    pi,       \* the next name to pack
    tar,      \* the names whose header and data were written
    shown,    \* the "report file" line was printed
    rerr,     \* the error archive returns
    rexit     \* "none", "success", "failure"

reportVars == <<rpc, matches, ri, report, fnames, pi, tar, shown, rerr, rexit>>

Init ==
    /\ rpc = "start"
    /\ matches \in MatchChoices
    /\ ri = 1
    /\ report = {}
    /\ fnames = <<>>
    /\ pi = 1
    /\ tar = <<>>
    /\ shown = FALSE
    /\ rerr = NoErr
    /\ rexit = "none"

\* run (lines 164-175) and the start of collect (177-183): chdir and
\* Getwd may fail.
RStart ==
    /\ rpc = "start"
    /\ \/ rexit' = "failure" /\ rpc' = "done"
       \/ rpc' = "collect" /\ UNCHANGED rexit
    /\ UNCHANGED <<matches, ri, report, fnames, pi, tar, shown, rerr>>

\* collectInDir (lines 247-267): every file under the directory whose
\* digest can be computed; errors are logged and skipped.
Walked(files) == SUBSET files

\* collect's loop (lines 186-228): a dangling match is skipped; a
\* directory is walked; a .redirected file is read for the local name
\* and reported under its name without the suffix; a file whose digest
\* fails is left out.
RCollect ==
    /\ rpc = "collect"
    /\ ri <= Len(matches)
    /\ LET e == matches[ri]
       IN CASE e.kind = "dangling" -> UNCHANGED report
            [] e.kind = "dir" -> \E got \in Walked(e.files) : report' = report \cup got
            [] OTHER -> report' \in {report, report \cup {e.key}}
    /\ ri' = ri + 1
    /\ UNCHANGED <<rpc, matches, fnames, pi, tar, shown, rerr, rexit>>

\* Lines 229-244: nothing collected is an error; .reproxy_tmp/logs is
\* walked when it exists.
RReproxy ==
    /\ rpc = "collect"
    /\ ri > Len(matches)
    /\ IF report = {}
       THEN rexit' = "failure" /\ rpc' = "done" /\ UNCHANGED report
       ELSE /\ \/ UNCHANGED report
               \/ \E got \in Walked(ReproxyLogs) : report' = report \cup got
            /\ rpc' = "archive" /\ UNCHANGED rexit
    /\ UNCHANGED <<matches, ri, fnames, pi, tar, shown, rerr>>

\* archive (lines 269-303): os.CreateTemp may fail; then the writers, their
\* deferred closes, and the names sorted.
RCreate ==
    /\ rpc = "archive"
    /\ \/ rexit' = "failure" /\ rpc' = "done" /\ UNCHANGED fnames
       \/ /\ fnames' = SelectSeq(NameOrder, LAMBDA x : x \in report)
          /\ rpc' = "pack" /\ UNCHANGED rexit
    /\ UNCHANGED <<matches, ri, report, pi, tar, shown, rerr>>

\* Lines 304-324: DataToBytes, WriteHeader or Write failing returns its
\* error through the deferred closes.
RPack ==
    /\ rpc = "pack"
    /\ pi <= Len(fnames)
    /\ \/ tar' = Append(tar, fnames[pi]) /\ pi' = pi + 1 /\ UNCHANGED <<rpc, rerr>>
       \/ rerr' = "pack" /\ rpc' = "close" /\ UNCHANGED <<tar, pi>>
    /\ UNCHANGED <<matches, ri, report, fnames, shown, rexit>>

\* Lines 325-326: the report file's name is printed, then tw.Flush.
RFlush ==
    /\ rpc = "pack"
    /\ pi > Len(fnames)
    /\ shown' = TRUE
    /\ rerr' \in {NoErr, "flush"}
    /\ rpc' = "close"
    /\ UNCHANGED <<matches, ri, report, fnames, pi, tar, rexit>>

\* Mutant of RClose: each deferred Close assigns its result to err
\* unconditionally, so the last one (f.Close) decides.
RCloseOverwrites ==
    /\ rpc = "close"
    /\ \E tw, gw, f \in BOOLEAN :
          LET e == IF f THEN NoErr ELSE "f.Close"
          IN /\ rerr' = e
             /\ rexit' = IF e = NoErr THEN "success" ELSE "failure"
    /\ rpc' = "done"
    /\ UNCHANGED <<matches, ri, report, fnames, pi, tar, shown>>

\* The deferred tw.Close, gw.Close and f.Close (lines 278-297), last
\* deferred first, each error kept only when none came before.
RClose ==
    /\ rpc = "close"
    /\ \E tw, gw, f \in BOOLEAN :
          LET e == CASE rerr # NoErr -> rerr
                     [] ~tw -> "tw.Close"
                     [] ~gw -> "gw.Close"
                     [] ~f -> "f.Close"
                     [] OTHER -> NoErr
          IN /\ rerr' = e
             /\ rexit' = IF e = NoErr THEN "success" ELSE "failure"
    /\ rpc' = "done"
    /\ UNCHANGED <<matches, ri, report, fnames, pi, tar, shown>>

Finished ==
    /\ rpc = "done"
    /\ UNCHANGED reportVars

Next == RStart \/ RCollect \/ RReproxy \/ RCreate \/ RPack \/ RFlush \/ RClose \/ Finished

Spec == Init /\ [][Next]_reportVars

----------------------------------------------------------------------------
TypeOK ==
    /\ rpc \in {"start", "collect", "archive", "pack", "close", "done"}
    /\ ri \in 1 .. Len(matches) + 1
    /\ pi \in 1 .. Len(fnames) + 1
    /\ rerr \in {NoErr, "pack", "flush", "tw.Close", "gw.Close", "f.Close"}
    /\ rexit \in {"none", "success", "failure"}

\* archive returns nil only when every collected name went into the tar,
\* in sorted order, and the report file was shown: a DataToBytes,
\* WriteHeader, Write or Flush error is not masked by the deferred tw, gw
\* and f Close calls that run after it (each keeps err when it is set).
ArchiveOkOnlyWhenComplete ==
    rexit = "success" =>
        /\ tar = SelectSeq(NameOrder, LAMBDA x : x \in report)
        /\ shown

====
