------------------------------- MODULE Version -------------------------------
(***************************************************************************)
(* `siso version` (package version, Command.Execute and its helpers; the  *)
(* file src/subcmd/query/rule.go lines 162-379 holds them): print the     *)
(* version, then, only as information, the CIPD instance, the git        *)
(* repository and revision its tags name, the infra revision pinned in    *)
(* infra_superproject's DEPS, and the last siso commit there.  Every      *)
(* fetch after the instance is known may fail without failing the        *)
(* command.                                                               *)
(*                                                                         *)
(* A fetch is abstracted to its outcome; a commit to the length class of  *)
(* its revision, which commit.String slices to 10 bytes.                  *)
(***************************************************************************)
EXTENDS Naturals, Sequences

CONSTANTS
    Repos   \* git_repository values a CIPD instance may carry

Superproject == "infra_superproject"
Known == {Superproject, "infra", "build"}

\* getSisoCommit (lines 320-379): a request that cannot be built returns
\* an empty commit and no error; a failed fetch, status, read, decode,
\* empty log or date an error; otherwise the first log entry, whose
\* commit field may be missing.
CommitOutcomes ==
    {[ok |-> TRUE, rev |-> "empty"], [ok |-> FALSE, rev |-> "empty"],
     [ok |-> TRUE, rev |-> "full"]}

VARIABLES
    nargs,    \* positional arguments
    cipdFlag, \* -cipd_url was given
    vpc,      \* "start", "cipd", "deps", "commit", "print", "done"
    repo,     \* the git_repository found
    got,      \* getSisoCommit's result
    vout,     \* the kinds of the lines printed
    vexit     \* "none", "0", "1", "usage", "panic"

versionVars == <<nargs, cipdFlag, vpc, repo, got, vout, vexit>>

Init ==
    /\ nargs \in {0, 1}
    /\ cipdFlag \in BOOLEAN
    /\ vpc = "start"
    /\ repo = "none"
    /\ got = [ok |-> FALSE, rev |-> "empty"]
    /\ vout = <<>>
    /\ vexit = "none"

\* Lines 162-194: positional arguments are a usage error; without
\* -cipd_url, version.Current may fail (exit 1), describe a non-CIPD
\* build (its settings printed, exit 0) or a CIPD instance; an install
\* that is neither leaves the URL empty.
VStart ==
    /\ vpc = "start"
    /\ IF nargs > 0
       THEN vexit' = "usage" /\ vpc' = "done" /\ UNCHANGED vout
       ELSE \/ ~cipdFlag /\ vexit' = "1" /\ vpc' = "done" /\ vout' = <<"version">>
            \/ ~cipdFlag /\ vexit' = "0" /\ vpc' = "done" /\ vout' = <<"version", "build">>
            \/ /\ ~cipdFlag
               /\ vout' \in {<<"version", "cipd", "url">>, <<"version", "url">>}
               /\ vpc' = "cipd" /\ UNCHANGED vexit
            \/ cipdFlag /\ vout' = <<"version", "url">> /\ vpc' = "cipd" /\ UNCHANGED vexit
    /\ UNCHANGED <<nargs, cipdFlag, repo, got>>

\* No -cipd_url and an install that is neither a CIPD package nor a Go
\* build: the URL printed is empty.
UrlEmpty == ~cipdFlag /\ \A j \in DOMAIN vout : vout[j] # "cipd"

\* parseCIPDGitRepoRevision (lines 234-266) and lines 200-224: a failed
\* fetch or missing tags, or an unknown repository, ends with exit 0.  A
\* GET of the empty URL always fails (no scheme).
VCipd ==
    /\ vpc = "cipd"
    /\ \/ vexit' = "0" /\ vpc' = "done" /\ UNCHANGED <<repo, vout>>
       \/ ~UrlEmpty /\ \E r \in Repos :
            /\ repo' = r
            /\ vout' = Append(vout, "repo")
            /\ CASE r = Superproject -> vpc' = "deps" /\ UNCHANGED vexit
                 [] r \in Known -> vpc' = "commit" /\ UNCHANGED vexit
                 [] OTHER -> vexit' = "0" /\ vpc' = "done"
    /\ UNCHANGED <<nargs, cipdFlag, got>>

\* parseInfraSuperprojectDEPS (lines 268-307) and lines 209-216.
VDeps ==
    /\ vpc = "deps"
    /\ \/ vexit' = "0" /\ vpc' = "done" /\ UNCHANGED vout
       \/ vout' = Append(vout, "infra") /\ vpc' = "commit" /\ UNCHANGED vexit
    /\ UNCHANGED <<nargs, cipdFlag, repo, got>>

\* Lines 225-229.
VCommit ==
    /\ vpc = "commit"
    /\ \E c \in CommitOutcomes :
          /\ got' = c
          /\ IF c.ok THEN vpc' = "print" /\ UNCHANGED vexit
             ELSE vexit' = "0" /\ vpc' = "done"
    /\ UNCHANGED <<nargs, cipdFlag, repo, vout>>

VPrint ==
    /\ vpc = "print"
    /\ vout' = Append(vout, IF got.rev = "full" THEN "commit" ELSE "panicText")
    /\ vexit' = "0"
    /\ vpc' = "done"
    /\ UNCHANGED <<nargs, cipdFlag, repo, got>>

Finished ==
    /\ vpc = "done"
    /\ UNCHANGED versionVars

Next == VStart \/ VCipd \/ VDeps \/ VCommit \/ VPrint \/ Finished

Spec == Init /\ [][Next]_versionVars

----------------------------------------------------------------------------
TypeOK ==
    /\ vpc \in {"start", "cipd", "deps", "commit", "print", "done"}
    /\ got \in CommitOutcomes
    /\ vexit \in {"none", "0", "1", "usage", "panic"}

====
