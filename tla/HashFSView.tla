----------------------------- MODULE HashFSView -----------------------------
(***************************************************************************)
(* hashfs.FileSystem (src/hashfs/filesystem.go), the io/fs view of HashFS  *)
(* rooted at the absolute directory fsys.dir.  Stat, ReadDir and ReadFile *)
(* follow a symlink at the last element of a name, looping at most        *)
(* maxSymlinks times and re-resolving the name with resolveSymlinkPath;   *)
(* Lstat and ReadLink do not follow; ExpandSymlinks lists the symlinks    *)
(* met on the way to a name; Open returns a File or a Dir handle that     *)
(* ReadDir pages through; Sub re-roots the view.                          *)
(*                                                                         *)
(* HashFS itself is not in src: its Stat, ReadDir and ReadFile (Hfs) are  *)
(* modelled from spec 4.2 and the scandeps tests that use them.  A name   *)
(* is joined to the root unless it is absolute; symlinked directories    *)
(* inside it are resolved silently (at most MaxSymlinks of them, else      *)
(* ELOOP), as src/scandeps/scandeps_test.go expects of symlinked          *)
(* framework directories, where 4.2's wording has them signalled; and a   *)
(* symlink at its last element is                                          *)
(* returned as the entry (Stat) or as a SymlinkError (ReadDir, ReadFile). *)
(* The path it reports is the entry's absolute location.                  *)
(*                                                                         *)
(* A path is a record: abs (a leading "/") and el, its elements.  Go's    *)
(* lexical path functions are modelled on that record.  A tree maps the   *)
(* element sequence of an absolute path to its entry.                     *)
(***************************************************************************)
EXTENDS Naturals, Sequences, SequencesExt

CONSTANTS
    MaxSymlinks,  \* maxSymlinks
    RefBudget,    \* links the reference resolver follows before ELOOP
    Trees,        \* the HashFS contents a behaviour may see
    RootDir,      \* fsys.dir
    Names,        \* names passed to the methods
    PageSizes,    \* n passed to Dir.ReadDir
    MaxSubs       \* Sub calls

Path(a, e) == [abs |-> a, el |-> e]
Dot == Path(FALSE, <<>>)
NoEntry == [kind |-> "none"]
Entry(t, el) == IF el \in DOMAIN t THEN t[el] ELSE NoEntry

\* filepath.Clean: "." is dropped and ".." removes the element before it;
\* at the start of an absolute path ".." is dropped, of a relative one kept.
RECURSIVE CleanEl(_, _, _)
CleanEl(abs, acc, rest) ==
    IF rest = <<>> THEN acc
    ELSE LET x == Head(rest)
             next == CASE x = "." -> acc
                       [] x = ".." /\ acc # <<>> /\ Last(acc) # ".." -> Front(acc)
                       [] x = ".." /\ abs /\ acc = <<>> -> acc
                       [] OTHER -> Append(acc, x)
         IN CleanEl(abs, next, Tail(rest))
Clean(p) == Path(p.abs, CleanEl(p.abs, <<>>, p.el))

\* filepath.Join(p, q) for a relative q, and filepath.Dir.
Join(p, q) == Clean(Path(p.abs, p.el \o q.el))
DirOf(p) == Clean(Path(p.abs, IF p.el = <<>> THEN <<>> ELSE Front(p.el)))

\* filepath.IsLocal of a clean path: relative, not escaping with "..".
IsLocal(p) == ~p.abs /\ (p.el = <<>> \/ p.el[1] # "..")

\* filepath.Rel(base, targ) for clean paths: ok is FALSE when one is
\* absolute and the other is not.
RECURSIVE CommonLen(_, _)
CommonLen(a, b) ==
    IF a = <<>> \/ b = <<>> \/ Head(a) # Head(b) THEN 0
    ELSE 1 + CommonLen(Tail(a), Tail(b))

Rel(base, targ) ==
    LET k == CommonLen(base.el, targ.el)
    IN [ok |-> base.abs = targ.abs,
        p  |-> Path(FALSE, [j \in 1..Len(base.el) - k |-> ".."]
                           \o SubSeq(targ.el, k + 1, Len(targ.el)))]

\* The absolute path a name denotes under root: HashFS joins the two
\* unless the name is absolute, where FileSystem passes root "".
AbsName(root, name) == IF name.abs THEN Clean(name) ELSE Join(root, name)

\* Walks the elements of an absolute path from "/": dir is the resolved
\* directory so far.  A symlink inside the path, or at its end when follow
\* holds, is replaced by its target (relative to the link's directory),
\* counting hops; more than budget hops is ELOOP.
RECURSIVE Walk(_, _, _, _, _, _, _)
Walk(t, dir, rest, follow, hops, links, budget) ==
    LET Fail(e) == [err |-> e, at |-> dir, hops |-> hops, links |-> links]
    IN IF rest = <<>>
       THEN [err |-> "none", at |-> dir, hops |-> hops, links |-> links]
       ELSE LET p == Append(dir, Head(rest))
                e == Entry(t, p)
            IN CASE e.kind = "none" -> Fail("ENOENT")
                 [] e.kind = "file" /\ Tail(rest) # <<>> -> Fail("ENOTDIR")
                 [] e.kind = "link" /\ (Tail(rest) # <<>> \/ follow) ->
                       IF hops = budget THEN Fail("ELOOP")
                       ELSE LET base == IF e.target.abs THEN <<>> ELSE dir
                                np == Clean(Path(TRUE, base \o e.target.el \o Tail(rest)))
                            IN Walk(t, <<>>, np.el, follow, hops + 1,
                                    Append(links, p), budget)
                 [] OTHER -> Walk(t, p, Tail(rest), follow, hops, links, budget)

\* HashFS Stat/ReadDir/ReadFile (spec 4.2): the entry at the name, its
\* last element not followed.
Hfs(t, root, name) ==
    Walk(t, <<>>, AbsName(root, name).el, FALSE, 0, <<>>, MaxSymlinks)

\* The reference: the name resolved with every symlink followed.
Ref(t, root, name) ==
    Walk(t, <<>>, AbsName(root, name).el, TRUE, 0, <<>>, RefBudget)

\* The entries of a directory, in the order HashFS lists them.
RECURSIVE ListOf(_)
ListOf(S) == IF S = {} THEN <<>>
             ELSE LET x == CHOOSE x \in S : TRUE IN <<x>> \o ListOf(S \ {x})
Children(t, el) == ListOf({Last(c) : c \in {c \in DOMAIN t : c # <<>> /\ Front(c) = el}})

----------------------------------------------------------------------------
(* The FileSystem methods' algorithms.                                     *)

\* Mutant: the target is joined to the link's own path, not its directory.
ResolveSymlinkPathNoDir(root, path, target) ==
    LET j == Join(path, target)
        name == CASE target.abs -> target
                  [] ~j.abs /\ ~IsLocal(j) -> Join(root, j)
                  [] OTHER -> j
        rel == Rel(root, Clean(name))
    IN IF rel.ok /\ IsLocal(rel.p) THEN rel.p ELSE name

\* resolveSymlinkPath (lines 146-166): the link at path to target, as a
\* name relative to root when it lies under root, else absolute.
ResolveSymlinkPath(root, path, target) ==
    LET j == Join(DirOf(path), target)
        name == CASE target.abs -> target
                  [] ~j.abs /\ ~IsLocal(j) ->
                        IF path = Dot THEN Join(DirOf(root), j) ELSE Join(root, j)
                  [] OTHER -> j
        rel == Rel(root, Clean(name))
    IN IF rel.ok /\ IsLocal(rel.p) THEN rel.p ELSE name

\* The result of a call: its error, the entry's location, and the symlinks
\* Stat passed (fis).
Result(e, at, fis) == [err |-> e, at |-> at, fis |-> fis]

\* Stat's loop (lines 279-320): HashFS Stat; an error ends it; an entry
\* that is not a symlink is the result; a symlink is recorded in fis and
\* its target resolved; after maxSymlinks turns, ELOOP.
RECURSIVE StatLoop(_, _, _, _, _)
StatLoop(t, root, name, fis, i) ==
    IF i = MaxSymlinks THEN Result("ELOOP", <<>>, fis)
    ELSE LET r == Hfs(t, root, name)
         IN CASE r.err # "none" -> Result(r.err, <<>>, fis)
              [] t[r.at].kind # "link" -> Result("none", r.at, fis)
              [] OTHER -> StatLoop(t, root,
                              ResolveSymlinkPath(root, Path(TRUE, r.at), t[r.at].target),
                              Append(fis, r.at), i + 1)

\* ReadDir's and ReadFile's loop (lines 169-203, 206-236): a SymlinkError
\* from HashFS resolves the name and retries; any other error ends it; a
\* file read as a directory, or the converse, is HashFS's error.
RECURSIVE FollowLoop(_, _, _, _, _)
FollowLoop(t, root, name, want, i) ==
    IF i = MaxSymlinks THEN Result("ELOOP", <<>>, <<>>)
    ELSE LET r == Hfs(t, root, name)
         IN CASE r.err = "none" /\ t[r.at].kind = "link" ->
                    FollowLoop(t, root,
                               ResolveSymlinkPath(root, Path(TRUE, r.at), t[r.at].target),
                               want, i + 1)
              [] r.err # "none" -> Result(r.err, <<>>, <<>>)
              [] t[r.at].kind # want ->
                    Result(IF want = "dir" THEN "ENOTDIR" ELSE "EISDIR", <<>>, <<>>)
              [] OTHER -> Result("none", r.at, <<>>)

ReadDirLoop(t, root, name) == FollowLoop(t, root, name, "dir", 0)
ReadFileLoop(t, root, name) == FollowLoop(t, root, name, "file", 0)

\* Visited and VisitedPaths (lines 324-354): the symlinks Stat passed and
\* the entry it found, those under root, relative to it.
Visited(s) == IF s.err = "none" THEN Append(s.fis, s.at) ELSE s.fis

\* Mutant: paths outside the root are not skipped.
VisitedPathsUnfiltered(root, s) ==
    LET vs == Visited(s) IN [j \in 1..Len(vs) |-> Rel(root, Path(TRUE, vs[j])).p]

VisitedPaths(root, s) ==
    LET RelOf(el) == Rel(root, Path(TRUE, el))
        Under(el) == RelOf(el).ok /\ IsLocal(RelOf(el).p)
        vs == SelectSeq(Visited(s), Under)
    IN [j \in 1..Len(vs) |-> RelOf(vs[j]).p]

\* ExpandSymlinks (lines 358-389): each turn stats the prefixes of the
\* name in order and stops at the first that fails or is a symlink.  A
\* failing one ends the walk; a symlink is recorded and, if its target is
\* relative and stays under root, replaces the prefix; a pass with
\* neither starts the next turn on the same name.  The name is appended.
\* Mutant: the last element is not statted.
FirstStopSkipsLast(t, root, el) ==
    LET Stops == {j \in 1..Len(el) - 1 :
                    LET r == Hfs(t, root, Path(FALSE, SubSeq(el, 1, j)))
                    IN r.err # "none" \/ t[r.at].kind = "link"}
    IN IF Stops = {} THEN 0 ELSE Min(Stops)

FirstStop(t, root, el) ==
    LET Stops == {j \in 1..Len(el) :
                    LET r == Hfs(t, root, Path(FALSE, SubSeq(el, 1, j)))
                    IN r.err # "none" \/ t[r.at].kind = "link"}
    IN IF Stops = {} THEN 0 ELSE Min(Stops)

RECURSIVE ExpandLoop(_, _, _, _, _)
ExpandLoop(t, root, name, names, k) ==
    IF k = MaxSymlinks THEN Append(names, name)
    ELSE LET el == name.el
             j == FirstStop(t, root, el)
             pathname == Path(FALSE, SubSeq(el, 1, j))
             r == Hfs(t, root, pathname)
             target == t[r.at].target
             targetPath == Join(DirOf(pathname), target)
         IN CASE j = 0 -> ExpandLoop(t, root, name, names, k + 1)
              [] r.err # "none" -> Append(names, name)
              [] target.abs \/ ~IsLocal(targetPath) ->
                    Append(Append(names, pathname), name)
              [] OTHER ->
                    ExpandLoop(t, root,
                               Join(targetPath, Path(FALSE, SubSeq(el, j + 1, Len(el)))),
                               Append(names, pathname), k + 1)

----------------------------------------------------------------------------
(* A caller of the view.  The methods leave the view as it is, except Sub, *)
(* which makes a new one; so a behaviour is an optional Sub, then one     *)
(* call, then paging through a Dir that Open returned: every call is made *)
(* on every view a caller can reach.                                      *)

VARIABLES
    tree,    \* the HashFS contents
    dir,     \* fsys.dir of the view in use (Sub replaces it)
    subs,    \* Sub calls so far
    res,     \* the last call: op, root, name, err, at, visited, names
    handle   \* the Dir or File Open returned: kind, all, ents, n, got, listed

hfsVars == <<tree, dir, subs, res, handle>>

NoHandle == [kind |-> "none", all |-> <<>>, ents |-> <<>>, n |-> 0, got |-> 0,
             listed |-> <<>>]

\* No call yet, or only Sub.
Ready == res.op \in {"none", "Sub"}

Call(op, name, r, visited, names) ==
    res' = [op |-> op, root |-> dir, name |-> name, err |-> r.err, at |-> r.at,
            visited |-> visited, names |-> names]

Init ==
    /\ tree \in Trees
    /\ dir = RootDir
    /\ subs = 0
    /\ res = [op |-> "none", root |-> RootDir, name |-> Dot, err |-> "none",
              at |-> <<>>, visited |-> <<>>, names |-> <<>>]
    /\ handle = NoHandle

\* Stat, with the caller taking VisitedPaths of its FileInfo (lines 279-354).
Stat(name) ==
    LET s == StatLoop(tree, dir, name, <<>>, 0)
    IN /\ Ready
       /\ Call("Stat", name, s, VisitedPaths(dir, s), <<>>)
       /\ UNCHANGED <<tree, dir, subs>> /\ handle' = NoHandle

\* Lstat (lines 261-271): HashFS Stat, the last element not followed.
Lstat(name) ==
    /\ Ready
    /\ Call("Lstat", name, Hfs(tree, dir, name), <<>>, <<>>)
    /\ UNCHANGED <<tree, dir, subs>> /\ handle' = NoHandle

\* ReadLink (lines 239-257): the target, or EINVAL for a non-symlink.
ReadLink(name) ==
    LET r == Hfs(tree, dir, name)
        e == IF r.err = "none" /\ tree[r.at].kind # "link" THEN "EINVAL" ELSE r.err
    IN /\ Ready
       /\ Call("ReadLink", name, Result(e, r.at, <<>>), <<>>, <<>>)
       /\ UNCHANGED <<tree, dir, subs>> /\ handle' = NoHandle

ReadDir(name) ==
    /\ Ready
    /\ Call("ReadDir", name, ReadDirLoop(tree, dir, name), <<>>, <<>>)
    /\ UNCHANGED <<tree, dir, subs>> /\ handle' = NoHandle

ReadFile(name) ==
    /\ Ready
    /\ Call("ReadFile", name, ReadFileLoop(tree, dir, name), <<>>, <<>>)
    /\ UNCHANGED <<tree, dir, subs>> /\ handle' = NoHandle

\* Open (lines 104-142): Stat, then HashFS ReadDir or ReadFile of the
\* entry's path; a directory gives a Dir handle over its entries.
Open(name) ==
    LET s == StatLoop(tree, dir, name, <<>>, 0)
        ents == IF s.err = "none" /\ tree[s.at].kind = "dir"
                THEN Children(tree, s.at) ELSE <<>>
    IN /\ Ready
       /\ Call("Open", name, s, <<>>, <<>>)
       /\ handle' = IF s.err # "none" THEN NoHandle
                    ELSE [NoHandle EXCEPT !.kind = tree[s.at].kind,
                                          !.all = ents, !.ents = ents]
       /\ UNCHANGED <<tree, dir, subs>>

\* Mutant: the loop breaks at i == n + 1.
DirReadOneMore(n) ==
    /\ handle.kind = "dir"
    /\ LET k == IF n <= 0 THEN Len(handle.ents) ELSE Min({n + 1, Len(handle.ents)})
       IN handle' = [handle EXCEPT !.n = n, !.got = k,
                        !.listed = @ \o SubSeq(handle.ents, 1, k),
                        !.ents = SubSeq(@, k + 1, Len(@))]
    /\ UNCHANGED <<tree, dir, subs, res>>

\* Dir.ReadDir(n) (lines 71-94): n <= 0 takes every remaining entry; else
\* io.EOF when none remain, or the first n of them.
DirRead(n) ==
    /\ handle.kind = "dir"
    /\ LET k == IF n <= 0 THEN Len(handle.ents) ELSE Min({n, Len(handle.ents)})
       IN handle' = [handle EXCEPT !.n = n, !.got = k,
                        !.listed = @ \o SubSeq(handle.ents, 1, k),
                        !.ents = SubSeq(@, k + 1, Len(@))]
    /\ UNCHANGED <<tree, dir, subs, res>>

\* ExpandSymlinks (lines 358-389).
Expand(name) ==
    /\ Ready /\ ~name.abs
    /\ Call("Expand", name, Result("none", <<>>, <<>>), <<>>,
            ExpandLoop(tree, dir, name, <<>>, 0))
    /\ UNCHANGED <<tree, dir, subs>> /\ handle' = NoHandle

\* Sub (lines 392-419): Stat must find a directory; the new view's root is
\* the name as given joined to the old root, not the resolved path.
Sub(name) ==
    LET s == StatLoop(tree, dir, name, <<>>, 0)
        e == IF s.err = "none" /\ tree[s.at].kind # "dir" THEN "ENOTDIR" ELSE s.err
    IN /\ res.op = "none" /\ subs < MaxSubs
       /\ subs' = subs + 1
       /\ Call("Sub", name, Result(e, s.at, <<>>), <<>>, <<>>)
       /\ dir' = IF e # "none" THEN dir
                 ELSE IF name.abs THEN name ELSE Join(dir, name)
       /\ UNCHANGED tree /\ handle' = NoHandle

\* The call made; the caller is done.
Done ==
    /\ ~Ready
    /\ UNCHANGED hfsVars

Next ==
    \/ \E name \in Names :
          \/ Stat(name) \/ Lstat(name) \/ ReadLink(name) \/ ReadDir(name)
          \/ ReadFile(name) \/ Open(name) \/ Expand(name) \/ Sub(name)
    \/ \E n \in PageSizes : DirRead(n)
    \/ Done

Spec == Init /\ [][Next]_hfsVars

----------------------------------------------------------------------------
Errors == {"none", "ENOENT", "ENOTDIR", "EISDIR", "EINVAL", "ELOOP"}

TypeOK ==
    /\ tree \in Trees
    /\ dir.abs
    /\ subs \in 0..MaxSubs
    /\ res.op \in {"none", "Stat", "Lstat", "ReadLink", "ReadDir", "ReadFile",
                   "Open", "Expand", "Sub"}
    /\ res.err \in Errors
    /\ handle.kind \in {"none", "dir", "file"}
    /\ handle.got <= Len(handle.all)

\* The error a following call should return for a name the reference
\* resolves as ref: the resolution's own, or the wrong kind of entry.
Expected(op, ref) ==
    CASE ref.err # "none" -> ref.err
      [] op \in {"ReadDir", "Sub"} /\ tree[ref.at].kind # "dir" -> "ENOTDIR"
      [] op = "ReadFile" /\ tree[ref.at].kind = "dir" -> "EISDIR"
      [] OTHER -> "none"

\* Stat, ReadDir, ReadFile, Open and Sub follow symlinks like the kernel:
\* each returns the entry the name resolves to with every link followed,
\* or that resolution's error, and ELOOP only when the resolution needs
\* maxSymlinks links or more.  This holds across the two layers of
\* following (HashFS for directories inside the name, the FileSystem loop
\* for its last element) and resolveSymlinkPath's switch between
\* root-relative and absolute names.
FollowsLikeReference ==
    res.op \in {"Stat", "ReadDir", "ReadFile", "Open", "Sub"} =>
        LET ref == Ref(tree, res.root, res.name)
        IN /\ \/ res.err = Expected(res.op, ref)
              \/ res.err = "ELOOP" /\ ref.hops >= MaxSymlinks
           /\ res.err = "none" => res.at = ref.at

\* VisitedPaths of a Stat result (lines 322-354) records the symlinks
\* followed and then the entry found: every path is under the root, each
\* but a found entry is a symlink, and a found entry under the root is
\* last.
VisitedPathsRecordChain ==
    res.op = "Stat" =>
        LET v == res.visited
            rel == Rel(res.root, Path(TRUE, res.at))
            found == res.err = "none" /\ IsLocal(rel.p)
            IsLink(p) == LET r == Hfs(tree, res.root, p)
                         IN r.err = "none" /\ tree[r.at].kind = "link"
        IN /\ \A j \in 1..Len(v) : IsLocal(v[j])
           /\ \A j \in 1..Len(v) - (IF found THEN 1 ELSE 0) : IsLink(v[j])
           /\ found => v # <<>> /\ Last(v) = rel.p

\* ExpandSymlinks lists the symlinks on the way to the name and ends with
\* the name with them all replaced (spec 4.2: "returns every intermediate
\* symlink along the path"): when every link the name's resolution passes
\* has a relative target under the root, the last path reaches the same
\* entry without a single link.
StaysUnderRoot(ref, root) ==
    \A j \in 1..Len(ref.links) :
        LET l == ref.links[j]
            tg == tree[l].target
        IN ~tg.abs /\ IsLocal(Rel(root, Clean(Path(TRUE, Front(l) \o tg.el))).p)

ExpandSymlinksResolves ==
    res.op = "Expand" =>
        LET ref == Ref(tree, res.root, res.name)
            last == Ref(tree, res.root, Last(res.names))
        IN /\ \A j \in 1..Len(res.names) - 1 :
                 LET r == Hfs(tree, res.root, res.names[j])
                 IN r.err = "none" /\ tree[r.at].kind = "link"
           /\ (ref.err = "none" /\ ref.hops < MaxSymlinks /\ StaysUnderRoot(ref, res.root))
                 => last.err = "none" /\ last.hops = 0 /\ last.at = ref.at

\* Paging a Dir with ReadDir(n) returns each entry once, in order, and at
\* most n per call.
DirPagesPartition ==
    handle.kind = "dir" =>
        /\ handle.listed \o handle.ents = handle.all
        /\ handle.n > 0 => handle.got <= handle.n

====
