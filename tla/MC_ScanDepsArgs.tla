--------------------------- MODULE MC_ScanDepsArgs ---------------------------
(***************************************************************************)
(* The commands and response files both compile-argument parsers are     *)
(* checked over, on their own and, extended by MC_Process, in the       *)
(* process union.                                                        *)
(***************************************************************************)
EXTENDS Naturals, Sequences, TLC

VARIABLES argv, rsp, params

\* Every command of at most three arguments over a driver of each kind,
\* a source, a directory, exact and joined flags and two response files;
\* and "/bin/sh -c" scripts with and without the PWD prefix or a split
\* error.  r1 may end with an exact flag, include r2 or be unreadable; r2
\* may include r1 (a cycle) or fail to split.
SDTok(f, v) == [f |-> f, v |-> v]
SDWord(v) == SDTok("", v)
SDAlphabet ==
    {SDWord("tc/bin/clang"), SDWord("tc/bin/clang-cl.exe"), SDWord("a.cc"),
     SDWord("inc"), SDTok("-I", ""), SDTok("/I", ""), SDTok("-D", "M=<a.h>"),
     SDTok("@", "r1"), SDTok("@", "r2")}
SDCmds ==
    {<<>>} \cup {<<a>> : a \in SDAlphabet} \cup {<<a, b>> : a, b \in SDAlphabet}
    \cup {<<a, b, c>> : a, b, c \in SDAlphabet}
    \cup {<<SDWord("/bin/sh"), SDTok("-c", ""), SDWord(x)>> : x \in {"s1", "s2", "s3"}}
SDOk(s) == [st |-> "ok", args |-> s]
SDBad(st) == [st |-> st, args |-> <<>>]
SDRsp ==
    [r1 : {SDOk(<<SDTok("-I", ""), SDWord("inc")>>), SDOk(<<SDWord("inc"), SDTok("@", "r2")>>),
           SDOk(<<SDTok("-I", "")>>), SDBad("unreadable")},
     r2 : {SDOk(<<SDTok("-fmodule-file=", "m=x.pcm"), SDWord("a.cc")>>),
           SDOk(<<SDTok("@", "r1")>>), SDBad("badsplit")}]
SDScripts ==
    ("s1" :> [pwd |-> TRUE, split |-> TRUE,
              words |-> <<SDWord("tc/bin/clang"), SDTok("@", "r1"), SDWord("inc")>>])
    @@ ("s2" :> [pwd |-> FALSE, split |-> TRUE, words |-> <<SDWord("a.cc")>>])
    @@ ("s3" :> [pwd |-> TRUE, split |-> FALSE, words |-> <<>>])

\* Any set of these files that does not include itself takes at most
\* two insertions per argument, six in all; a seventh means a cycle.
S == INSTANCE ScanDepsArgs WITH
        Cmds <- SDCmds, RspSets <- SDRsp, Scripts <- SDScripts, MaxInserts <- 7

SdSpec == S!Spec

\* ScanDepsArgs.tla: each parser returns a request or an error for every
\* command, without inserting for ever or panicking.
ParseReturns == S!ParseReturns

====
