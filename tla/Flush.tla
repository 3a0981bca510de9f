------------------------------- MODULE Flush -------------------------------
(***************************************************************************)
(* siso fs flush (src/subcmd/fscmd/flush.go): for each name given, fetch  *)
(* the file recorded in .siso_fs_state to the disk, expanding a directory *)
(* to the recorded files under it.                                         *)
(*                                                                         *)
(* stm is the loaded state map and disk the local file system, both       *)
(* chosen in Init.  A path is a sequence of characters, so that           *)
(* filepath.Rel/IsLocal can be told apart from a string prefix.  A        *)
(* recorded entry is a directory, a symlink, a locally generated file (no *)
(* action digest) or a remotely generated one, recorded with mtime         *)
(* StateMtime.  A disk file holds the recorded data exactly when its mtime *)
(* is StateMtime.  flushFile runs with no concurrent actor, so each of its *)
(* outcomes is one step.                                                   *)
(***************************************************************************)
EXTENDS Integers, Sequences, SequencesExt

CONSTANTS
    Paths,        \* full paths (sequences of characters)
    Order,        \* Paths in sort.Strings order
    ArgChoices,   \* command lines: sequences of paths
    Times         \* mtimes a disk file may have

StateMtime == 2   \* ent.Id.ModTime of every recorded entry
Now == 9          \* the mtime os.Create gives a file

Kinds == {"none", "dir", "symlink", "local", "remote"}
NoFile == [kind |-> "none", data |-> "none", mtime |-> 0]
DirOnDisk == [kind |-> "dir", data |-> "none", mtime |-> 0]
FileAt(t) == [kind |-> "file", data |-> IF t = StateMtime THEN "state" ELSE "old", mtime |-> t]
Link == [kind |-> "link", data |-> "state", mtime |-> Now]
\* What os.Create left when a later step and os.Remove both failed.
Partial == [kind |-> "file", data |-> "partial", mtime |-> Now]
DiskStates == {NoFile, DirOnDisk, Link, Partial} \cup {FileAt(t) : t \in Times}

ASSUME StateMtime \in Times /\ Now \notin Times /\ Range(Order) = Paths

VARIABLES
    stm,       \* hashfs.StateMap(st): path -> entry kind
    disk,      \* path -> [kind, data, mtime]
    force,     \* -f
    recursive, \* -recursive
    args,      \* fnames
    i,         \* index in fnames of the name being processed
    inDir,     \* the loop is going through a directory's children
    queue,     \* children not yet flushed
    cur,       \* the entry flushEntry works on
    pc         \* "next", "child", "entry", "file", "done", "failed"

flushVars == <<stm, disk, force, recursive, args, i, inDir, queue, cur, pc>>

\* filepath.IsLocal(filepath.Rel(dir, q)): q is dir or a path below it.
Under(dir, q) == q = dir \/ IsPrefix(dir \o <<"/">>, q)

\* isDirEnt (lines 194-196).
IsDirEnt(q) == stm[q] = "dir"

\* Mutant: a child is any path that starts with the directory's name.
ChildEntriesByPrefix(dir) ==
    SelectSeq(Order, LAMBDA q : stm[q] \notin {"none", "dir"} /\ IsPrefix(dir, q))

\* childEntries (lines 203-225): the recorded non-directory entries under
\* dir, in sorted order.
ChildEntries(dir) ==
    SelectSeq(Order, LAMBDA q : stm[q] \notin {"none", "dir"} /\ Under(dir, q))

\* The loop's isDir (lines 151-158): the entry if recorded, os.Lstat if not.
IsDir(q) == IF stm[q] = "none" THEN disk[q].kind = "dir" ELSE IsDirEnt(q)

Init ==
    /\ stm \in [Paths -> Kinds]
    /\ disk \in [Paths -> DiskStates \ {Link, Partial}]
    /\ \A q \in Paths : stm[q] = "dir" => disk[q] = DirOnDisk
    /\ \A q \in Paths : disk[q] = DirOnDisk => stm[q] \in {"none", "dir"}
    /\ \A q, r \in Paths : q # r /\ Under(q, r) => disk[q] \in {NoFile, DirOnDisk}
    /\ force \in BOOLEAN
    /\ recursive \in BOOLEAN
    /\ args \in ArgChoices
    /\ i = 1
    /\ inDir = FALSE
    /\ queue = <<>>
    /\ cur = <<>>
    /\ pc = "next"

----------------------------------------------------------------------------
\* After an entry is flushed: the next child, or the next name.
Continue ==
    IF inDir THEN /\ pc' = "child" /\ UNCHANGED i
             ELSE /\ pc' = "next" /\ i' = i + 1

\* The loop over fnames is over: run returns nil.
AllDone ==
    /\ pc = "next" /\ i > Len(args)
    /\ pc' = "done"
    /\ UNCHANGED <<stm, disk, force, recursive, args, i, inDir, queue, cur>>

\* A directory with -recursive: flush each child entry (lines 159-180).
ExpandDir ==
    /\ pc = "next" /\ i <= Len(args)
    /\ IsDir(args[i]) /\ recursive
    /\ queue' = ChildEntries(args[i])
    /\ inDir' = TRUE
    /\ pc' = "child"
    /\ UNCHANGED <<stm, disk, force, recursive, args, i, cur>>

\* A directory without -recursive, or a name with no entry: skipped.
SkipName ==
    /\ pc = "next" /\ i <= Len(args)
    /\ \/ IsDir(args[i]) /\ ~recursive
       \/ ~IsDir(args[i]) /\ stm[args[i]] = "none"
    /\ i' = i + 1
    /\ UNCHANGED <<stm, disk, force, recursive, args, inDir, queue, cur, pc>>

\* A recorded file or symlink: flushEntry (line 186).
NameEntry ==
    /\ pc = "next" /\ i <= Len(args)
    /\ ~IsDir(args[i]) /\ stm[args[i]] # "none"
    /\ cur' = args[i]
    /\ pc' = "entry"
    /\ UNCHANGED <<stm, disk, force, recursive, args, i, inDir, queue>>

\* The next child: flushEntry, or back to the names when none is left.
NextChild ==
    /\ pc = "child"
    /\ IF queue = <<>>
          THEN /\ inDir' = FALSE /\ i' = i + 1 /\ pc' = "next"
               /\ UNCHANGED <<queue, cur>>
          ELSE /\ cur' = Head(queue) /\ queue' = Tail(queue) /\ pc' = "entry"
               /\ UNCHANGED <<inDir, i>>
    /\ UNCHANGED <<stm, disk, force, recursive, args>>

\* flushEntry's check of the disk against the state (lines 228-241): an
\* equal mtime means there is nothing to do, an earlier disk mtime is
\* refused; -f or a missing file skips the check.
DiskSame(q) == ~force /\ disk[q].kind # "none" /\ disk[q].mtime = StateMtime
DiskRefused(q) == ~force /\ disk[q].kind # "none" /\ disk[q].mtime < StateMtime
Proceeds(q) == ~DiskSame(q) /\ ~DiskRefused(q)

EntryExists ==
    /\ pc = "entry" /\ DiskSame(cur)
    /\ Continue
    /\ UNCHANGED <<stm, disk, force, recursive, args, inDir, queue, cur>>

\* "disk is newer than state": run returns the error.
EntryRefused ==
    /\ pc = "entry" /\ DiskRefused(cur)
    /\ pc' = "failed"
    /\ UNCHANGED <<stm, disk, force, recursive, args, i, inDir, queue, cur>>

\* os.Symlink (lines 243-250): it fails when the path exists, and the error
\* is only printed.
EntrySymlink ==
    /\ pc = "entry" /\ Proceeds(cur) /\ stm[cur] = "symlink"
    /\ disk' = IF disk[cur].kind = "none" THEN [disk EXCEPT ![cur] = Link] ELSE disk
    /\ Continue
    /\ UNCHANGED <<stm, force, recursive, args, inDir, queue, cur>>

\* No action digest: "local generated", nothing to fetch (lines 251-257).
EntryLocal ==
    /\ pc = "entry" /\ Proceeds(cur) /\ stm[cur] = "local"
    /\ Continue
    /\ UNCHANGED <<stm, disk, force, recursive, args, inDir, queue, cur>>

EntryRemote ==
    /\ pc = "entry" /\ Proceeds(cur) /\ stm[cur] = "remote"
    /\ pc' = "file"
    /\ UNCHANGED <<stm, disk, force, recursive, args, i, inDir, queue, cur>>

\* Mutant: Chtimes is not called, the file keeps the mtime of its creation.
FlushFileOkNoChtimes ==
    /\ pc = "file"
    /\ disk' = [disk EXCEPT ![cur] = [kind |-> "file", data |-> "state", mtime |-> Now]]
    /\ Continue
    /\ UNCHANGED <<stm, force, recursive, args, inDir, queue, cur>>

\* flushFile succeeds (lines 267-304): os.Create truncates, the content is
\* copied from the CAS, the file is closed, chmod'ed if executable and its
\* mtime set to the recorded one.
FlushFileOk ==
    /\ pc = "file"
    /\ disk' = [disk EXCEPT ![cur] = FileAt(StateMtime)]
    /\ Continue
    /\ UNCHANGED <<stm, force, recursive, args, inDir, queue, cur>>

\* os.Create fails: the disk is unchanged and run returns the error.
FlushFileCreateFails ==
    /\ pc = "file"
    /\ pc' = "failed"
    /\ UNCHANGED <<stm, disk, force, recursive, args, i, inDir, queue, cur>>

\* Open, Copy, Close, Chmod or Chtimes fails after os.Create: the file is
\* removed and run returns the error.  os.Remove's own error is ignored
\* (lines 276, 283, 288, 294 and 300): when it fails too, the truncated or
\* half-written file stays.
FlushFileFails ==
    /\ pc = "file"
    /\ disk' \in {[disk EXCEPT ![cur] = NoFile], [disk EXCEPT ![cur] = Partial]}
    /\ pc' = "failed"
    /\ UNCHANGED <<stm, force, recursive, args, i, inDir, queue, cur>>

Returned ==
    /\ pc \in {"done", "failed"}
    /\ UNCHANGED flushVars

Next ==
    \/ AllDone \/ ExpandDir \/ SkipName \/ NameEntry \/ NextChild
    \/ EntryExists \/ EntryRefused \/ EntrySymlink \/ EntryLocal \/ EntryRemote
    \/ FlushFileOk \/ FlushFileCreateFails \/ FlushFileFails
    \/ Returned

Spec == Init /\ [][Next]_flushVars

----------------------------------------------------------------------------
TypeOK ==
    /\ stm \in [Paths -> Kinds]
    /\ disk \in [Paths -> DiskStates]
    /\ force \in BOOLEAN /\ recursive \in BOOLEAN
    /\ i \in 1..Len(args) + 1
    /\ inDir \in BOOLEAN
    /\ queue \in Seq(Paths)
    /\ cur \in Paths \cup {<<>>}
    /\ pc \in {"next", "child", "entry", "file", "done", "failed"}

\* The recorded files a command line asks for: a named file, or a file
\* below a named directory when -recursive is set.
Targets ==
    {q \in Paths : /\ stm[q] \notin {"none", "dir"}
                   /\ \E k \in DOMAIN args :
                         /\ Under(args[k], q)
                         /\ q # args[k] => IsDir(args[k]) /\ recursive}

\* When flush returns success, every remotely generated file it was asked
\* for is on the disk with the recorded content and mtime, whether it was
\* missing, older, newer or the same before.
FlushComplete ==
    pc = "done" =>
        \A q \in Targets : stm[q] = "remote" => disk[q] = FileAt(StateMtime)

\* flush writes only the files it was asked for: a file next to a named
\* directory whose name merely starts with the directory's name is left
\* alone.
OnlyTargetsWritten ==
    [][\A q \in Paths \ Targets : disk'[q] = disk[q]]_flushVars

\* The comments of flushEntry (lines 237 and 242): without -f a disk file
\* newer than the state is kept ("disk is newer than state") and only an
\* older one is replaced.
NeverOverwritesNewerDisk ==
    [][~force => \A q \in Paths :
          disk[q].kind = "file" /\ disk[q].mtime > StateMtime => disk'[q] = disk[q]]_flushVars

\* Line 242: with -f, or with no or an older disk file, the recorded
\* symlink is created; a successful flush leaves every requested symlink
\* entry as a symlink on the disk.
SymlinkFlushed ==
    pc = "done" => \A q \in Targets : stm[q] = "symlink" => disk[q].kind = "link"

====
