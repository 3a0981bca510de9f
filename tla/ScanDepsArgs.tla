---------------------------- MODULE ScanDepsArgs ----------------------------
(***************************************************************************)
(* The command-line parsers that turn a compile step's arguments into     *)
(* the scandeps request (spec 4.3: sources, dirs, frameworks, sysroots,   *)
(* forced includes, defines): gccutil.ExtractScanDepsParams with          *)
(* normalizeArgs and defineMacro (src/unnamed/part_014) and              *)
(* msvcutil.ExtractScanDepsParams with its defineMacro                    *)
(* (src/unnamed/part_016).                                                 *)
(*                                                                         *)
(* An argument is a record: the flag it starts with (f, "" for a plain    *)
(* word, "@" for a response file) and the rest (v).  An exact flag has   *)
(* v = "".  The words are a small alphabet; what the code computes of a  *)
(* word (its extension, base name, the directory two levels up, the cut *)
(* at "=") is given by tables over that alphabet.  The alphabet has no    *)
(* backslash, so msvcutil's ReplaceAll on non-Windows hosts and           *)
(* filepath.ToSlash leave every word as it is.                            *)
(***************************************************************************)
EXTENDS Naturals, Sequences, TLC

CONSTANTS
    Cmds,        \* the argument lists a step may have
    RspSets,     \* the response files: name -> [st, args], st one of "ok",
                 \* "unreadable" (fs.ReadFile fails), "badsplit" (shutil.Split
                 \* fails)
    Scripts,     \* "/bin/sh -c" scripts: name -> [pwd, split, words]
    MaxInserts   \* bound: response-file insertions of one parse, more than
                 \* any set of RspSets that does not include itself needs

Tok(f, v) == [f |-> f, v |-> v]

\* What the code computes of a word.
ExtOf == ("a.cc" :> ".cc") @@ ("a.m" :> ".m") @@ ("a.h" :> ".h")
         @@ ("x.pcm" :> ".pcm") @@ ("tc/bin/clang-cl.exe" :> ".exe")
Ext(v) == IF v \in DOMAIN ExtOf THEN ExtOf[v] ELSE ""
BaseOf == ("tc/bin/clang" :> "clang") @@ ("tc/bin/clang-cl.exe" :> "clang-cl.exe")
Base(v) == IF v \in DOMAIN BaseOf THEN BaseOf[v] ELSE v
\* filepath.Dir(filepath.Dir(arg)).
TopDir(v) == IF v \in DOMAIN BaseOf THEN "tc" ELSE "."
\* strings.Cut(v, "=").
CutOf == ("M=<a.h>" :> <<"M", "<a.h>">>) @@ ("M=1" :> <<"M", "1">>)
         @@ ("M=" :> <<"M", "">>) @@ ("m=x.pcm" :> <<"m", "x.pcm">>)
FirstChar(s) == IF s = "<a.h>" THEN "<" ELSE "1"

NoParams ==
    [Sources |-> <<>>, Includes |-> <<>>, Files |-> <<>>, Dirs |-> <<>>,
     Frameworks |-> <<>>, Sysroots |-> <<>>, Defines |-> <<>>]
Add(res, k, x) == [res EXCEPT ![k] = Append(@, x)]

\* defineMacro (part_014 lines 180-197, part_016 lines 147-164): only a
\* value in <> or "" is kept; a later one for a macro replaces an earlier.
\* An argument that starts with a flag has no such value in the alphabet.
DefineMacro(res, t) ==
    IF t.f # "" \/ t.v \notin DOMAIN CutOf THEN res
    ELSE LET c == CutOf[t.v]
         IN IF c[2] = "" \/ FirstChar(c[2]) \notin {"<", "\""} THEN res
            ELSE [res EXCEPT !.Defines = (c[1] :> c[2]) @@ @]

\* -fmodule-file=[name=]path records the path (lines 143-149; 114-120).
ModuleFile(res, v) ==
    Add(res, "Files", Tok("", IF v \in DOMAIN CutOf THEN CutOf[v][2] ELSE v))

RspInsert(s, i, r) == SubSeq(s, 1, i) \o r \o SubSeq(s, i + 1, Len(s))

\* The @rspfile case (lines 116-129; 84-102): recorded in Files, read,
\* split and inserted; a read or split failure returns the error.
\* The loop goes on with the returned args, res and n.  The insertions
\* have no limit: MaxInserts of them mean that the response files include
\* each other and the loop inserts for ever; the call never returns
\* ("hang").
Rsp(rsp, args, i, res, n) ==
    LET t == args[i]
        r == Add(res, "Files", Tok("", t.v))
        Stop(e) == [err |-> e, args |-> args, res |-> r, n |-> n]
    IN CASE rsp[t.v].st = "unreadable" -> Stop("read")
         [] rsp[t.v].st = "badsplit" -> Stop("split")
         [] n = MaxInserts -> Stop("hang")
         [] OTHER -> [err |-> "none", args |-> RspInsert(args, i, rsp[t.v].args),
                      res |-> r, n |-> n + 1]

----------------------------------------------------------------------------
(* gccutil                                                                 *)

\* Exact flags taking the next argument (lines 90-114), and their field.
GccSep == ("-I" :> "Dirs") @@ ("--include-directory" :> "Dirs")
          @@ ("-isystem" :> "Dirs") @@ ("-iquote" :> "Dirs")
          @@ ("-F" :> "Frameworks") @@ ("-iframework" :> "Frameworks")
          @@ ("-include" :> "Includes") @@ ("-isysroot" :> "Sysroots")
          @@ ("--sysroot" :> "Sysroots") @@ ("-D" :> "Defines")
\* Prefix flags whose rest is the value (lines 131-165).
GccJoined == ("-I" :> "Dirs") @@ ("--include=" :> "Includes")
          @@ ("--include-directory=" :> "Dirs") @@ ("-iquote" :> "Dirs")
          @@ ("-isystem" :> "Dirs") @@ ("-F" :> "Frameworks")
          @@ ("-fmodule-map-file=" :> "Files") @@ ("-fprofile-list=" :> "Files")
          @@ ("-fprofile-use=" :> "Files") @@ ("-fprofile-sample-use=" :> "Files")
          @@ ("-fsanitize-ignorelist=" :> "Files") @@ ("-iframework" :> "Frameworks")
          @@ ("--gcc-toolchain=" :> "Sysroots") @@ ("--sysroot=" :> "Sysroots")
GccDrivers == {"clang", "clang++", "gcc", "g++"}
GccSources == {".c", ".cc", ".cxx", ".cpp", ".m", ".mm", ".S"}
Dashed(t) == t.f \notin {"", "@", "/I", "/D", "/FI", "/winsysroot"}

\* normalizeArgs (lines 49-62): "/bin/sh -c 'PWD=/proc/self/cwd cmd'"
\* becomes cmd's words.
Normalize(args) ==
    IF Len(args) = 3 /\ args[1] = Tok("", "/bin/sh") /\ args[2] = Tok("-c", "")
       /\ args[3].f = "" /\ args[3].v \in DOMAIN Scripts
    THEN LET s == Scripts[args[3].v]
         IN CASE ~s.pwd -> [err |-> "normalize", args |-> <<>>]
              [] ~s.split -> [err |-> "normalize", args |-> <<>>]
              [] OTHER -> [err |-> "none", args |-> s.words]
    ELSE [err |-> "none", args |-> args]

\* One argument that is not an exact flag: the prefix switch.
GccOne(res, t) ==
    CASE t.f = "-D" -> DefineMacro(res, Tok("", t.v))
      [] t.f = "-fmodule-file=" -> ModuleFile(res, t.v)
      [] t.f \in DOMAIN GccJoined -> Add(res, GccJoined[t.f], Tok("", t.v))
      [] t.f = "" /\ Ext(t.v) \in GccSources -> Add(res, "Sources", t)
      [] OTHER -> res

\* The loop of ExtractScanDepsParams (lines 77-176): a driver's top
\* directory is a sysroot; an exact flag takes the next argument (past
\* the end: the index panics); an @file inserts its arguments.  Exact
\* --sysroot has no continue, but its argument matches no prefix case.
RECURSIVE GccLoop(_, _, _, _, _)
GccLoop(rsp, args, i, res, n) ==
    IF i > Len(args) THEN [err |-> "none", res |-> res]
    ELSE LET t == args[i]
             r == IF ~Dashed(t) /\ Base(t.v) \in GccDrivers
                  THEN Add(res, "Sysroots", Tok("", TopDir(t.v))) ELSE res
         IN CASE t.v = "" /\ t.f \in DOMAIN GccSep ->
                   IF i = Len(args) THEN [err |-> "panic", res |-> r]
                   ELSE GccLoop(rsp, args, i + 2,
                                IF t.f = "-D" THEN DefineMacro(r, args[i + 1])
                                ELSE Add(r, GccSep[t.f], args[i + 1]), n)
              [] t.f = "@" ->
                   LET x == Rsp(rsp, args, i, r, n)
                   IN IF x.err # "none" THEN [err |-> x.err, res |-> x.res]
                      ELSE GccLoop(rsp, x.args, i + 1, x.res, x.n)
              [] OTHER -> GccLoop(rsp, args, i + 1, GccOne(r, t), n)

GccExtract(rsp, args) ==
    LET a == Normalize(args)
    IN IF a.err # "none" THEN [err |-> a.err, res |-> NoParams]
       ELSE GccLoop(rsp, a.args, 1, NoParams, 0)

----------------------------------------------------------------------------
(* msvcutil                                                                *)

MsvcSep == ("-I" :> "Dirs") @@ ("/I" :> "Dirs") @@ ("-D" :> "Defines")
           @@ ("/D" :> "Defines") @@ ("-FI" :> "Includes") @@ ("/FI" :> "Includes")
MsvcJoined == ("-I" :> "Dirs") @@ ("/I" :> "Dirs")
           @@ ("-fmodule-map-file=" :> "Files") @@ ("-FI" :> "Includes")
           @@ ("/FI" :> "Includes") @@ ("-fprofile-use=" :> "Files")
           @@ ("-fsanitize-ignorelist=" :> "Files") @@ ("/winsysroot" :> "Sysroots")
MsvcSources == {".c", ".cc", ".cxx", ".cpp", ".S"}
\* The base name without its extension is clang-cl (lines 61-63).
MsvcDriver(v) == Base(v) \in {"clang-cl", "clang-cl.exe"}

\* The prefix switch (lines 104-141).
MsvcOne(res, t) ==
    CASE t.f \in {"-D", "/D"} -> DefineMacro(res, Tok("", t.v))
      [] t.f = "-fmodule-file=" -> ModuleFile(res, t.v)
      [] t.f \in DOMAIN MsvcJoined -> Add(res, MsvcJoined[t.f], Tok("", t.v))
      [] t.f = "" /\ Ext(t.v) \in MsvcSources -> Add(res, "Sources", t)
      [] OTHER -> res

\* The loop of ExtractScanDepsParams (lines 55-143), like gccutil's
\* without normalizeArgs.
RECURSIVE MsvcLoop(_, _, _, _, _)
MsvcLoop(rsp, args, i, res, n) ==
    IF i > Len(args) THEN [err |-> "none", res |-> res]
    ELSE LET t == args[i]
             r == IF t.f \in {"", "@", "/I", "/D", "/FI", "/winsysroot"} /\ MsvcDriver(t.v)
                  THEN Add(res, "Sysroots", Tok("", TopDir(t.v))) ELSE res
         IN CASE t.v = "" /\ t.f \in DOMAIN MsvcSep ->
                   IF i = Len(args) THEN [err |-> "panic", res |-> r]
                   ELSE MsvcLoop(rsp, args, i + 2,
                                 IF t.f \in {"-D", "/D"} THEN DefineMacro(r, args[i + 1])
                                 ELSE Add(r, MsvcSep[t.f], args[i + 1]), n)
              [] t.f = "@" ->
                   LET x == Rsp(rsp, args, i, r, n)
                   IN IF x.err # "none" THEN [err |-> x.err, res |-> x.res]
                      ELSE MsvcLoop(rsp, x.args, i + 1, x.res, x.n)
              [] OTHER -> MsvcLoop(rsp, args, i + 1, MsvcOne(r, t), n)

MsvcExtract(rsp, args) == MsvcLoop(rsp, args, 1, NoParams, 0)

----------------------------------------------------------------------------
(* A step's arguments parsed once by each parser.                          *)

VARIABLES argv, rsp, params
sdVars == <<argv, rsp, params>>

Parsers == {"gcc", "msvc"}
NoResult == [err |-> "unset", res |-> NoParams]

Init ==
    /\ argv \in Cmds
    /\ rsp \in RspSets
    /\ params = [p \in Parsers |-> NoResult]

ExtractGcc ==
    /\ params["gcc"] = NoResult
    /\ params' = [params EXCEPT !["gcc"] = GccExtract(rsp, argv)]
    /\ UNCHANGED <<argv, rsp>>

ExtractMsvc ==
    /\ params["msvc"] = NoResult
    /\ params' = [params EXCEPT !["msvc"] = MsvcExtract(rsp, argv)]
    /\ UNCHANGED <<argv, rsp>>

Parsed ==
    /\ \A p \in Parsers : params[p] # NoResult
    /\ UNCHANGED sdVars

Next == ExtractGcc \/ ExtractMsvc \/ Parsed

Spec == Init /\ [][Next]_sdVars

----------------------------------------------------------------------------
(* The reference: a compiler expands every @file in place, recursively,   *)
(* before it parses a flag; the leftmost failure is the error.            *)

\* s with its @files expanded, k expansions left: [err, args, k].  The
\* expansions are counted left to right, as the parsers count them.
RECURSIVE ExpandAll(_, _)
ExpandAll(s, k) ==
    IF s = <<>> THEN [err |-> "none", args |-> <<>>, k |-> k]
    ELSE LET t == Head(s)
             Fail(e) == [err |-> e, args |-> <<>>, k |-> k]
             here == CASE t.f # "@" -> [err |-> "none", args |-> <<t>>, k |-> k]
                       [] rsp[t.v].st = "unreadable" -> Fail("read")
                       [] rsp[t.v].st = "badsplit" -> Fail("split")
                       [] k = 0 -> Fail("loop")
                       [] OTHER -> ExpandAll(rsp[t.v].args, k - 1)
             rest == ExpandAll(Tail(s), here.k)
         IN CASE here.err # "none" -> here
              [] rest.err # "none" -> rest
              [] OTHER -> [err |-> "none", args |-> here.args \o rest.args, k |-> rest.k]

\* The arguments each parser reads, and the exact flags that take one.
ArgsOf(p) == IF p = "gcc" THEN Normalize(argv) ELSE [err |-> "none", args |-> argv]
SepOf(p) == IF p = "gcc" THEN DOMAIN GccSep ELSE DOMAIN MsvcSep
ParseOf(p, args) ==
    IF p = "gcc" THEN GccLoop(rsp, args, 1, NoParams, 0)
    ELSE MsvcLoop(rsp, args, 1, NoParams, 0)

\* Every exact flag is followed by a plain word.
WellFormed(p, s) ==
    \A i \in 1..Len(s) : s[i].v = "" /\ s[i].f \in SepOf(p) =>
        i < Len(s) /\ s[i + 1].f = ""

\* Every response file holds whole flag-argument pairs: none ends with an
\* exact flag.  (One that does, followed by another @file argument, has
\* the parser take "@file" itself as the flag's argument.)
WholePairs(p) ==
    \A r \in DOMAIN rsp :
        LET l == rsp[r].args[Len(rsp[r].args)]
        IN rsp[r].args # <<>> => ~(l.v = "" /\ l.f \in SepOf(p))

\* The response-file names are recorded in Files as well.
RspNames == {Tok("", r) : r \in DOMAIN rsp}
WithoutRsp(res) == [res EXCEPT !.Files = SelectSeq(@, LAMBDA t : t \notin RspNames)]

TypeOK ==
    /\ argv \in Cmds /\ rsp \in RspSets
    /\ \A p \in Parsers :
         params[p].err \in {"unset", "none", "normalize", "read", "split", "hang", "panic"}

ParseReturns ==
    \A p \in Parsers : params[p].err \notin {"hang", "panic"}

====
