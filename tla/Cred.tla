-------------------------------- MODULE Cred --------------------------------
(***************************************************************************)
(* Credentials, from the choice of a helper to a Cred an RPC client uses: *)
(* DefaultCredentialHelper (linux, src/unnamed/part_008) with the stat    *)
(* goroutines of checkIfGoogleCredHelperExists; main's SISO_CREDENTIAL_   *)
(* HELPER and -credential_helper override (main.go); AuthOpts, New and    *)
(* ClientOptions (src/unnamed/part_007); and the three auth subcommands   *)
(* that use them, `siso login`, `siso logout` and `siso auth-check`       *)
(* (src/subcmd/auth/logout.go).                                           *)
(*                                                                         *)
(* A path is a record of its directory, its stem and its extension, so    *)
(* that filepath.Base and TrimSuffix(base, Ext(base)) are field reads.    *)
(* Token sources and credential helpers are abstracted to their outcomes. *)
(***************************************************************************)
EXTENDS Naturals, Sequences

CONSTANTS
    HelperChoices,    \* values of SISO_CREDENTIAL_HELPER / -credential_helper
    LuciPath,         \* where exec.LookPath finds luci-auth
    GcloudPath,       \* where exec.LookPath finds gcloud
    GoogleCredHelper, \* googleCredHelper (part_006 line 37)
    Envs              \* the environment: see Env below

Literal(s) == [dir |-> "", stem |-> s, ext |-> ""]
Unset == [dir |-> "unset", stem |-> "", ext |-> ""]

\* The environment a run starts in: RBE mTLS variables, the helper
\* variable and flag (Unset when absent), whether a stat of the Google
\* helper finds it (executable, or ENOKEY), stubby, /etc/lsb-release,
\* luci-auth and gcloud on PATH.
Env ==
    [mtls: BOOLEAN, stat: BOOLEAN, var: HelperChoices \cup {Unset}, flag: HelperChoices \cup {Unset},
     stubby: BOOLEAN, lsb: {"laptop", "other", "unreadable"}, luci: BOOLEAN, gcloud: BOOLEAN]

NoOpts ==
    [type |-> "", perRPC |-> "none", ts |-> "none", login |-> "none", logout |-> "none"]

\* AuthOpts (part_007 lines 83-172): the literal names, then the stem of
\* the path: luci-auth, gcloud, or any other credential helper, whose
\* login runs gcert only for the Google helper.
AuthOpts(p) ==
    CASE p = Literal("mTLS") -> [NoOpts EXCEPT !.type = "mTLS"]
      [] p = Literal("google-application-default") ->
            [type |-> "google-application-default", perRPC |-> "none", ts |-> "none",
             login |-> "gcloud-adc-login", logout |-> "gcloud-adc-revoke"]
      [] p = Literal("") -> NoOpts
      [] p.stem = "luci-auth" ->
            [type |-> "luci-auth", perRPC |-> "none", ts |-> "luci",
             login |-> "luci-login", logout |-> "luci-logout"]
      [] p.stem = "gcloud" ->
            [type |-> "gcloud", perRPC |-> "none", ts |-> "gcloud",
             login |-> "gcloud-login", logout |-> "gcloud-revoke"]
      [] OTHER ->
            [type |-> p.stem, perRPC |-> "helper", ts |-> "helperGoogle",
             login |-> IF p = GoogleCredHelper THEN "gcert" ELSE "none",
             logout |-> IF p = GoogleCredHelper THEN "gcertdestroy" ELSE "none"]

\* Token's outcomes: only credHelper.token (part_006 lines 168-186)
\* returns errNoAuthorization, for a response without an authorization
\* header; any source may fail or see its context canceled.
\* Mutant: every source may report a missing authorization header.
TokenOutcomesAnyNoAuth(ts) == {"ok", "noauth", "err", "canceled"}

TokenOutcomes(ts) ==
    IF ts = "helperGoogle" THEN {"ok", "noauth", "err", "canceled"}
    ELSE {"ok", "err", "canceled"}

NoCred == [adc |-> FALSE, email |-> FALSE, perRPC |-> "none", ts |-> "none"]

\* ClientOptions (lines 271-294) with grpcDialOptions (259-269): what
\* authenticates the client's RPCs.  nil options leave it to Google
\* Application Default Credentials.
ClientOptions(c) ==
    CASE c.adc -> "adc"
      [] c.perRPC # "none" -> "perRPC"
      [] c.ts # "none" -> "tokenSource"
      [] OTHER -> "adc"

VARIABLES
    env,      \* the environment
    apc,      \* the program counter
    attempt,  \* checkIfGoogleCredHelperExists: the attempt being waited on
    chq,      \* its channel's buffered values (capacity 3)
    senders,  \* attempt -> values its goroutine has still to send
    helper,   \* the credential helper path, once decided
    aopts,    \* the Options AuthOpts made
    acmd,     \* the subcommand: "login", "logout" or "check"
    uri,      \* ServiceURI of the REAPI option, "" when no address
    cred,     \* the Cred New returned, NoCred before
    ran,      \* the external commands run
    exitc     \* the exit status, "none" while running

credVars == <<env, apc, attempt, chq, senders, helper, aopts, acmd, uri, cred, ran, exitc>>

NotStarted == <<"idle">>
ChanCap == 3
Attempts == 0 .. 2

Init ==
    /\ env \in Envs
    /\ apc = "mtls"
    /\ attempt = 0
    /\ chq = <<>>
    /\ senders = [a \in Attempts |-> NotStarted]
    /\ helper = Unset
    /\ aopts = NoOpts
    /\ acmd \in {"login", "logout", "check"}
    /\ uri \in {"", "u"}
    /\ cred = NoCred
    /\ ran = <<>>
    /\ exitc = "none"

\* DefaultCredentialHelper (part_008 lines 22-25): mTLS when both RBE
\* client-auth variables are set; otherwise checkIfGoogleCredHelperExists
\* starts its first attempt (lines 56-59).
Mtls ==
    /\ apc = "mtls"
    /\ IF env.mtls
       THEN helper' = Literal("mTLS") /\ apc' = "override" /\ UNCHANGED senders
       ELSE apc' = "check" /\ senders' = [senders EXCEPT ![0] = <<"stat">>] /\ UNCHANGED helper
    /\ UNCHANGED <<env, attempt, chq, aopts, acmd, uri, cred, ran, exitc>>

\* An attempt's goroutine (lines 58-63): its stat, then `true` when the
\* helper is found, and always `false` after it, each a send that blocks
\* while the channel holds three values.  Goroutines outlive the call.
GoStat(a) ==
    /\ senders[a] = <<"stat">>
    /\ senders' = [senders EXCEPT ![a] = IF env.stat THEN <<"true", "false">> ELSE <<"false">>]
    /\ UNCHANGED <<env, apc, attempt, chq, helper, aopts, acmd, uri, cred, ran, exitc>>

GoSend(a) ==
    /\ senders[a] \notin {NotStarted, <<"stat">>, <<>>}
    /\ Len(chq) < ChanCap
    /\ chq' = Append(chq, Head(senders[a]))
    /\ senders' = [senders EXCEPT ![a] = Tail(senders[a])]
    /\ UNCHANGED <<env, apc, attempt, helper, aopts, acmd, uri, cred, ran, exitc>>

\* The select (lines 64-71): a value any goroutine sent decides; after a
\* five-second timeout the next attempt starts, and after the third the
\* helper counts as absent.
Recv ==
    /\ apc = "check"
    /\ chq # <<>>
    /\ chq' = Tail(chq)
    /\ apc' = IF Head(chq) = "true" THEN "stubby" ELSE "lookpath"
    /\ UNCHANGED <<env, attempt, senders, helper, aopts, acmd, uri, cred, ran, exitc>>

Timeout ==
    /\ apc = "check"
    /\ IF attempt < 2
       THEN /\ attempt' = attempt + 1
            /\ senders' = [senders EXCEPT ![attempt + 1] = <<"stat">>]
            /\ UNCHANGED apc
       ELSE apc' = "lookpath" /\ UNCHANGED <<attempt, senders>>
    /\ UNCHANGED <<env, chq, helper, aopts, acmd, uri, cred, ran, exitc>>

\* Lines 26-39: the Google helper needs stubby and a machine that is not
\* a laptop; an unreadable /etc/lsb-release counts as not a laptop.
Stubby ==
    /\ apc = "stubby"
    /\ IF env.stubby /\ env.lsb # "laptop"
       THEN helper' = GoogleCredHelper /\ apc' = "override"
       ELSE apc' = "lookpath" /\ UNCHANGED helper
    /\ UNCHANGED <<env, attempt, chq, senders, aopts, acmd, uri, cred, ran, exitc>>

\* Lines 42-51: luci-auth, then gcloud, on PATH; else "".
LookPath ==
    /\ apc = "lookpath"
    /\ helper' = CASE env.luci -> LuciPath
                   [] env.gcloud -> GcloudPath
                   [] OTHER -> Literal("")
    /\ apc' = "override"
    /\ UNCHANGED <<env, attempt, chq, senders, aopts, acmd, uri, cred, ran, exitc>>

\* main.go lines 121-135 and 263: SISO_CREDENTIAL_HELPER, when set (even
\* to ""), replaces the default and -credential_helper replaces both;
\* then AuthOpts.
Override ==
    /\ apc = "override"
    /\ LET h == CASE env.flag # Unset -> env.flag
                  [] env.var # Unset -> env.var
                  [] OTHER -> helper
       IN helper' = h /\ aopts' = AuthOpts(h)
    /\ apc' = "cmd"
    /\ UNCHANGED <<env, attempt, chq, senders, acmd, uri, cred, ran, exitc>>

\* Options.Login (part_007 lines 174-179): the login command, or an
\* "unsupported auth type" error.
RunLogin ==
    IF aopts.login = "none"
    THEN exitc' = "failure" /\ UNCHANGED ran
    ELSE ran' = <<aopts.login>> /\ exitc' \in {"success", "failure"}

\* `siso login` (logout.go lines 181-190).
LoginCmd ==
    /\ apc = "cmd" /\ acmd = "login"
    /\ RunLogin
    /\ apc' = "done"
    /\ UNCHANGED <<env, attempt, chq, senders, helper, aopts, acmd, uri, cred>>

\* `siso logout` (logout.go lines 44-52) calls authOpts.Login, as the code
\* does; Options.Logout (part_007 lines 181-186) is never reached.
LogoutCmd ==
    /\ apc = "cmd" /\ acmd = "logout"
    /\ RunLogin
    /\ apc' = "done"
    /\ UNCHANGED <<env, attempt, chq, senders, helper, aopts, acmd, uri, cred>>

\* `siso auth-check` (logout.go lines 104-120): positional arguments are
\* a usage error; UpdateProjectID and CheckValid may reject the REAPI
\* option; New only when NeedCred.
CheckCmd ==
    /\ apc = "cmd" /\ acmd = "check"
    /\ \E nargs, valid, need \in BOOLEAN :
          CASE nargs -> exitc' = "usage" /\ apc' = "done"
            [] ~valid -> exitc' = "failure" /\ apc' = "done"
            [] need -> apc' = "new" /\ UNCHANGED exitc
            [] OTHER -> apc' = "dial" /\ UNCHANGED exitc
    /\ UNCHANGED <<env, attempt, chq, senders, helper, aopts, acmd, uri, cred, ran>>

\* New (part_007 lines 190-204): an empty type is an error; without a
\* token source the Cred only has the type; a per-RPC credential is tried
\* first when there is a URI.
NewStart ==
    /\ apc = "new"
    /\ CASE aopts.type = "" -> exitc' = "failure" /\ apc' = "done" /\ UNCHANGED cred
         [] aopts.ts = "none" ->
               /\ cred' = [NoCred EXCEPT !.adc = aopts.type = "google-application-default"]
               /\ apc' = "dial" /\ UNCHANGED exitc
         [] aopts.perRPC # "none" /\ uri # "" -> apc' = "meta" /\ UNCHANGED <<cred, exitc>>
         [] OTHER -> apc' = "token" /\ UNCHANGED <<cred, exitc>>
    /\ UNCHANGED <<env, attempt, chq, senders, helper, aopts, acmd, uri, ran>>

\* Lines 205-217: GetRequestMetadata succeeds and the helper's own
\* credentials are used, or it fails and New falls back to the token.
NewMeta ==
    /\ apc = "meta"
    /\ \/ cred' = [NoCred EXCEPT !.perRPC = aopts.perRPC, !.ts = "live"] /\ apc' = "dial"
       \/ apc' = "token" /\ UNCHANGED cred
    /\ UNCHANGED <<env, attempt, chq, senders, helper, aopts, acmd, uri, ran, exitc>>

\* Lines 248-253: the options' per-RPC credentials, or an oauth wrapper
\* around whatever token source New ended with.
PerRPCFor(o) == IF o.perRPC # "none" THEN o.perRPC ELSE "oauth"

\* Lines 218-257: Token.  A canceled context and any other error fail New
\* (for luci-auth and gcloud with "need to run `siso login`"); no
\* authorization header drops the token source; a token is reused, with
\* the email luci-auth reports.
NewToken ==
    /\ apc = "token"
    /\ \E r \in TokenOutcomes(aopts.ts) :
          CASE r \in {"canceled", "err"} ->
                  exitc' = "failure" /\ apc' = "done" /\ UNCHANGED cred
            [] r = "noauth" ->
                  /\ cred' = [NoCred EXCEPT !.perRPC = PerRPCFor(aopts)]
                  /\ apc' = "dial" /\ UNCHANGED exitc
            [] OTHER ->
                  /\ \E email \in IF aopts.ts = "luci" THEN BOOLEAN ELSE {FALSE} :
                        cred' = [NoCred EXCEPT !.email = email, !.perRPC = PerRPCFor(aopts),
                                               !.ts = "live"]
                  /\ apc' = "dial" /\ UNCHANGED exitc
    /\ UNCHANGED <<env, attempt, chq, senders, helper, aopts, acmd, uri, ran>>

\* logout.go lines 129-136: reapi.New with the Cred, then Close.
Dial ==
    /\ apc = "dial"
    /\ exitc' \in {"success", "failure"}
    /\ apc' = "done"
    /\ UNCHANGED <<env, attempt, chq, senders, helper, aopts, acmd, uri, cred, ran>>

Finished ==
    /\ apc = "done"
    /\ UNCHANGED credVars

Next ==
    \/ Mtls \/ Recv \/ Timeout \/ Stubby \/ LookPath \/ Override
    \/ \E a \in Attempts : GoStat(a) \/ GoSend(a)
    \/ LoginCmd \/ LogoutCmd \/ CheckCmd \/ NewStart \/ NewMeta \/ NewToken \/ Dial
    \/ Finished

Spec == Init /\ [][Next]_credVars

----------------------------------------------------------------------------
TypeOK ==
    /\ apc \in {"mtls", "check", "stubby", "lookpath", "override", "cmd", "new",
                "meta", "token", "dial", "done"}
    /\ attempt \in Attempts
    /\ Len(chq) <= ChanCap
    /\ cred \in [adc: BOOLEAN, email: BOOLEAN, perRPC: {"none", "helper", "oauth"},
                 ts: {"none", "live"}]
    /\ exitc \in {"none", "success", "failure", "usage"}

\* A Cred whose RPCs carry an oauth per-RPC credential (the wrapper New
\* builds when the options have none) always wraps a live token source:
\* oauth.TokenSource around the nil source New keeps after a missing
\* authorization header would fail every RPC.
OAuthWrapsLiveSource ==
    cred.perRPC = "oauth" => cred.ts = "live"

====
