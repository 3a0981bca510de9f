---------------------------- MODULE LuciAuthToken ----------------------------
(***************************************************************************)
(* luciAuthTokenSource.Token (src/unnamed/part_009): several goroutines   *)
(* ask for a token.  cred.New calls Token once, then wraps the source in  *)
(* oauth2.ReuseTokenSource (part_007 line 242), whose mutex is held       *)
(* across the inner Token: the calls run one at a time.  Each runs        *)
(* `luci-auth token` with the flags read under ts.mu; when it fails,      *)
(* fallback() switches ts.args once to --scopes-context and the caller    *)
(* retries, unless luci-auth runs under `luci-auth context` or ts.args    *)
(* was already set.                                                        *)
(*                                                                         *)
(* luci-auth's answer depends only on the flags: works[f] says whether a   *)
(* run with flags f succeeds on this machine, and is chosen in Init.       *)
(***************************************************************************)
EXTENDS Integers

CONSTANTS
    Procs,    \* goroutines calling Token
    Configs   \* the configured ts.args: "none" (siso's default scopes) or "custom"

Flags == {"default", "context", "custom"}

VARIABLES
    args,        \* ts.args: "none", "context" (--scopes-context) or "custom"
    contextArgs, \* len(ts.contextArgs) > 0
    works,       \* flags -> luci-auth succeeds with them
    pc,          \* goroutine -> "wait", "flags", "run", "fallback", "done"
    f,           \* goroutine -> the flags its current run uses
    res          \* goroutine -> "none", "ok", "err"

luciVars == <<args, contextArgs, works, pc, f, res>>

Init ==
    /\ args \in Configs
    /\ contextArgs \in BOOLEAN
    /\ works \in [Flags -> BOOLEAN]
    /\ pc = [g \in Procs |-> "wait"]
    /\ f = [g \in Procs |-> "default"]
    /\ res = [g \in Procs |-> "none"]

\* Mutant: an empty ts.args is used as is, without the default scopes.
FlagsOfNoDefault(a) == a

\* flags() (lines 51-64): ts.args, or the default scopes when empty.
FlagsOf(a) == IF a = "none" THEN "default" ELSE a

----------------------------------------------------------------------------
\* ReuseTokenSource's Token (part_007 line 242) takes its mutex, which no
\* other call holds, and calls the inner Token.
Lock(g) ==
    /\ pc[g] = "wait"
    /\ \A h \in Procs : pc[h] \in {"wait", "done"}
    /\ pc' = [pc EXCEPT ![g] = "flags"]
    /\ UNCHANGED <<args, contextArgs, works, f, res>>

\* The loop body builds the command line from ts.flags() (lines 89-99).
ReadFlags(g) ==
    /\ pc[g] = "flags"
    /\ f' = [f EXCEPT ![g] = FlagsOf(args)]
    /\ pc' = [pc EXCEPT ![g] = "run"]
    /\ UNCHANGED <<args, contextArgs, works, res>>

\* cmd.Run() succeeds: the token is returned (lines 114-127).
RunOk(g) ==
    /\ pc[g] = "run" /\ works[f[g]]
    /\ res' = [res EXCEPT ![g] = "ok"]
    /\ pc' = [pc EXCEPT ![g] = "done"]
    /\ UNCHANGED <<args, contextArgs, works, f>>

RunFails(g) ==
    /\ pc[g] = "run" /\ ~works[f[g]]
    /\ pc' = [pc EXCEPT ![g] = "fallback"]
    /\ UNCHANGED <<args, contextArgs, works, f, res>>

\* Mutant: fallback() does not check whether ts.args is already set.
FallbackAlways(g) ==
    /\ pc[g] = "fallback"
    /\ IF ~contextArgs
          THEN /\ args' = "context"
               /\ pc' = [pc EXCEPT ![g] = "flags"]
               /\ UNCHANGED res
          ELSE /\ res' = [res EXCEPT ![g] = "err"]
               /\ pc' = [pc EXCEPT ![g] = "done"]
               /\ UNCHANGED args
    /\ UNCHANGED <<contextArgs, works, f>>

\* fallback() (lines 66-77): true at most once, when there are no context
\* args and ts.args is empty; then the loop continues, else Token returns
\* the error (lines 105-112).
Fallback(g) ==
    /\ pc[g] = "fallback"
    /\ IF ~contextArgs /\ args = "none"
          THEN /\ args' = "context"
               /\ pc' = [pc EXCEPT ![g] = "flags"]
               /\ UNCHANGED res
          ELSE /\ res' = [res EXCEPT ![g] = "err"]
               /\ pc' = [pc EXCEPT ![g] = "done"]
               /\ UNCHANGED args
    /\ UNCHANGED <<contextArgs, works, f>>

Finished ==
    /\ \A g \in Procs : pc[g] = "done"
    /\ UNCHANGED luciVars

Step(g) == Lock(g) \/ ReadFlags(g) \/ RunOk(g) \/ RunFails(g) \/ Fallback(g)

Next == (\E g \in Procs : Step(g)) \/ Finished

\* Each goroutine's Token runs to completion: the Go scheduler runs it,
\* and the mutex, once free, stays free until a waiter takes it.
Spec == Init /\ [][Next]_luciVars /\ \A g \in Procs : WF_luciVars(Step(g))

----------------------------------------------------------------------------
TypeOK ==
    /\ args \in {"none", "context", "custom"}
    /\ contextArgs \in BOOLEAN
    /\ works \in [Flags -> BOOLEAN]
    /\ pc \in [Procs -> {"wait", "flags", "run", "fallback", "done"}]
    /\ f \in [Procs -> Flags]
    /\ res \in [Procs -> {"none", "ok", "err"}]

\* Every Token call returns: the retry loop takes the fallback at most once
\* even when luci-auth fails with every flag.
TokenReturns ==
    \A g \in Procs : <>(pc[g] = "done")

====
