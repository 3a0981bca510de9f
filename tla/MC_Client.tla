------------------------------ MODULE MC_Client ------------------------------
(***************************************************************************)
(* The REAPI client's pieces, checked in one TLC run: the retry loop      *)
(* (Retry), the ByteStream upload and download adapters                  *)
(* (ByteStreamWriter, ByteStreamReader) and the two credential sources    *)
(* (CredHelper, LuciAuthToken), `siso proxy`, which relays the REAPI     *)
(* streams (Proxy), the client's own setup (ReapiClient), and the choice  *)
(* of credentials with the auth subcommands (Cred), and sisoMain's setup *)
(* and deferred unwinding (SisoMain).  They share no                     *)
(* state, so instead of their product TLC explores their union: `part`,  *)
(* chosen in Init, says which one a behaviour runs while the others stay  *)
(* in their initial states.                                                *)
(* Each property is the component's own, read in every state.             *)
(***************************************************************************)
EXTENDS Integers, TLC

CONSTANTS w1, w2, cg1, cg2, lg1, lg2, lg3, apiA, apiB, other, wildcard, NoProc

VARIABLES
    part,
    \* Retry
    retryPc, retries, delay, authRetry, canceled, retryResult, retryCalls,
    \* ByteStreamWriter
    wpc, offset, ok, n, p, written, wResult, recv, sstate, stored,
    \* ByteStreamReader
    buf, size, sent, got, rpc,
    \* CredHelper
    cache, expires, holder, clock, credPc, key, ent, credCalls, calledAt, ret, retExp,
    \* LuciAuthToken
    args, contextArgs, works, luciPc, f, res,
    \* Proxy
    runPc, needCred, exec, read, write,
    \* ReapiClient
    step, opt, projOut, conns, server, client,
    \* Cred
    env, apc, attempt, chq, senders, helper, aopts, acmd, uri, cred, ran, exitc,
    \* SisoMain
    mpc, mflags, blockRate, mutexFrac, deferred, ranDefers, panicking, uiInited, mexit

\* Retry: one code of each class Next tells apart, rand.Float64() near 0,
\* at 1/2 and near 1.
R == INSTANCE Retry WITH
        pc <- retryPc, result <- retryResult, calls <- retryCalls,
        Codes <- {"OK", "Unavailable", "UnknownGrpc", "UnknownPlain",
                  "Unauthenticated", "PermissionDenied", "NotFound"},
        Jitters <- {0, 5, 9}, CallBound <- 13

\* Two uploads of a 3-byte blob in 2-byte chunks: a buffer of 3 bytes takes
\* two Sends, buffers of 1 byte take three Writes.
W == INSTANCE ByteStreamWriter WITH
        result <- wResult, Writers <- {w1, w2}, BlobSize <- 3, ChunkSize <- 2,
        BufSizes <- {1, 3}, Compressed <- TRUE

\* Chunks of 0, 1 and 4 bytes and Read buffers of 1 and 3 bytes over a
\* 24-byte blob: a chunk is larger than a buffer, smaller than it, empty.
Rd == INSTANCE ByteStreamReader WITH
        BlobSize <- 24, RecvSizes <- {0, 1, 4}, ReadSizes <- {1, 3}

\* Two goroutines; two googleapis.com endpoints sharing the wildcard entry
\* and one endpoint with an entry of its own.
C == INSTANCE CredHelper WITH
        pc <- credPc, calls <- credCalls, Procs <- {cg1, cg2},
        Endpoints <- {apiA, apiB, other}, Googleapis <- {apiA, apiB},
        Wildcard <- wildcard, MaxCalls <- 2, MaxTime <- 3

\* Three concurrent Token calls: two may both fail with the default scopes
\* before either takes the fallback.
L == INSTANCE LuciAuthToken WITH
        pc <- luciPc, Procs <- {lg1, lg2, lg3}, Configs <- {"none", "custom"}

\* An Execute stream with one not-done Operation before the done one, or
\* two; a Read of two chunks; a Write of two data requests and finish.
P == INSTANCE Proxy WITH MaxOps <- 2, Chunks <- 2

RInst(pr, nm) == [proj |-> pr, name |-> nm]

\* Every kind of address for the execution and the CAS service, a bare
\* instance, one under a project and none; a project ID or none.
Rc == INSTANCE ReapiClient WITH
        Addrs <- {"none", "rbe", "googleapis", "plain"},
        CasAddrs <- {"none", "googleapis", "plain"},
        Instances <- {RInst("none", ""), RInst("none", "i"), RInst("p", "i")},
        ProjIDs <- {"", "q"}, Versions <- {"", "bad", "v2.1"},
        ServerHigh <- {"v2.0"}

\* The default Option, for behaviours that do not run ReapiClient.
IdleOption ==
    [addr |-> "none", cas |-> "none", instance |-> RInst("none", ""),
     insecure |-> FALSE, cert |-> FALSE, key |-> FALSE, grpcComp |-> FALSE,
     compBlob |-> 1024, version |-> ""]

\* Helper choices of each kind: a literal mTLS, Application Default
\* Credentials, the empty name, and a credential helper script; luci-auth,
\* gcloud and the Google helper found by the default lookup.  When the
\* variable or the flag decides, or mTLS does, one default environment
\* stands for all.
CLit(s) == [dir |-> "", stem |-> s, ext |-> ""]
CHelpers == {CLit("mTLS"), CLit("google-application-default"), CLit(""),
             [dir |-> "/b", stem |-> "helper", ext |-> ".sh"]}
CLuci == [dir |-> "/b", stem |-> "luci-auth", ext |-> ""]
CGcloud == [dir |-> "/b", stem |-> "gcloud", ext |-> ""]
CGoogle == [dir |-> "/google", stem |-> "credhelper", ext |-> ""]
CUnset == [dir |-> "unset", stem |-> "", ext |-> ""]
CEnv ==
    [mtls: BOOLEAN, stat: BOOLEAN, var: CHelpers \cup {CUnset}, flag: CHelpers \cup {CUnset},
     stubby: BOOLEAN, lsb: {"laptop", "other", "unreadable"}, luci: BOOLEAN, gcloud: BOOLEAN]
CEnvs ==
    {e \in CEnv : /\ e.var = CUnset \/ e.flag = CUnset
                  /\ e.var # CUnset \/ e.flag # CUnset \/ e.mtls =>
                        e = [e EXCEPT !.stat = FALSE, !.stubby = FALSE, !.lsb = "other",
                                      !.luci = FALSE, !.gcloud = FALSE]}

Cr == INSTANCE Cred WITH
        HelperChoices <- CHelpers, LuciPath <- CLuci, GcloudPath <- CGcloud,
        GoogleCredHelper <- CGoogle, Envs <- CEnvs

\* A rate or fraction flag that is negative, unset, or set.
Sm == INSTANCE SisoMain WITH RateFlags <- {-1, 0, 2}

Parts == {"retry", "writer", "reader", "cred", "luci", "proxy", "reapi", "auth", "main"}

rVars == <<retryPc, retries, delay, authRetry, canceled, retryResult, retryCalls>>
wVars == <<wpc, offset, ok, n, p, written, wResult, recv, sstate, stored>>
rdVars == <<buf, size, sent, got, rpc>>
cVars == <<cache, expires, holder, clock, credPc, key, ent, credCalls, calledAt, ret, retExp>>
lVars == <<args, contextArgs, works, luciPc, f, res>>
pVars == <<runPc, needCred, exec, read, write>>
rcVars == <<step, opt, projOut, conns, server, client>>
crVars == <<env, apc, attempt, chq, senders, helper, aopts, acmd, uri, cred, ran, exitc>>
smVars == <<mpc, mflags, blockRate, mutexFrac, deferred, ranDefers, panicking, uiInited, mexit>>
allVars == <<part, rVars, wVars, rdVars, cVars, lVars, pVars, rcVars, crVars, smVars>>

Init ==
    /\ part \in Parts
    /\ R!Init /\ W!Init /\ Rd!Init /\ C!Init /\ L!Init /\ P!Init
    \* ReapiClient's Init, its Option and server fixed when it does not run
    /\ IF part = "reapi" THEN Rc!Init
       ELSE /\ step = "update" /\ opt = IdleOption /\ projOut = ""
            /\ conns = [c \in {"conn", "cas"} |-> "none"]
            /\ server = [compressors |-> {}, high |-> "v2.0"] /\ client = Rc!NoClient
    \* Cred's environment and command fixed when it does not run
    /\ IF part = "auth" THEN TRUE
       ELSE /\ env = [mtls |-> TRUE, stat |-> FALSE, var |-> CUnset, flag |-> CUnset,
                      stubby |-> FALSE, lsb |-> "other", luci |-> FALSE, gcloud |-> FALSE]
            /\ acmd = "login" /\ uri = ""
    \* what LuciAuthToken's Init leaves open is fixed when it does not run
    /\ part # "luci" => args = "none" /\ ~contextArgs /\ works = [x \in L!Flags |-> FALSE]
    \* and so is what Proxy's Init leaves open
    /\ part # "proxy" => ~needCred /\ exec.kind = "Execute" /\ exec.pc = "call"
                         /\ ~write.exists
    \* sisoMain's flags fixed when it does not run
    /\ part # "main" => mflags = {} /\ blockRate = 0 /\ mutexFrac = 0
    /\ Cr!Init /\ Sm!Init

Next ==
    \/ part = "retry" /\ R!Next /\ UNCHANGED <<part, wVars, rdVars, cVars, lVars, pVars, rcVars, crVars, smVars>>
    \/ part = "writer" /\ W!Next /\ UNCHANGED <<part, rVars, rdVars, cVars, lVars, pVars, rcVars, crVars, smVars>>
    \/ part = "reader" /\ Rd!Next /\ UNCHANGED <<part, rVars, wVars, cVars, lVars, pVars, rcVars, crVars, smVars>>
    \/ part = "cred" /\ C!Next /\ UNCHANGED <<part, rVars, wVars, rdVars, lVars, pVars, rcVars, crVars, smVars>>
    \/ part = "luci" /\ L!Next /\ UNCHANGED <<part, rVars, wVars, rdVars, cVars, pVars, rcVars, crVars, smVars>>
    \/ part = "proxy" /\ P!Next /\ UNCHANGED <<part, rVars, wVars, rdVars, cVars, lVars, rcVars, crVars, smVars>>
    \/ part = "reapi" /\ Rc!Next /\ UNCHANGED <<part, rVars, wVars, rdVars, cVars, lVars, pVars, crVars, smVars>>
    \/ part = "auth" /\ Cr!Next /\ UNCHANGED <<part, rVars, wVars, rdVars, cVars, lVars, pVars, rcVars, smVars>>
    \/ part = "main" /\ Sm!Next /\ UNCHANGED <<part, rVars, wVars, rdVars, cVars, lVars, pVars, rcVars, crVars>>

\* The components' own fairness (Retry's loop, each Token goroutine), for
\* the behaviours that run them.
Fairness ==
    /\ WF_rVars(part = "retry" /\ (R!CallSucceeds \/ R!CallFailsFinal \/
                                 R!CallExhausted \/ R!CallRetries))
    /\ WF_rVars(part = "retry" /\ (R!TimerFires \/ R!CtxDone))
    /\ \A g \in {lg1, lg2, lg3} : WF_lVars(part = "luci" /\ L!Step(g))

Spec == Init /\ [][Next]_allVars /\ Fairness

----------------------------------------------------------------------------
TypeOK ==
    /\ part \in Parts
    /\ R!TypeOK /\ W!TypeOK /\ Rd!TypeOK /\ C!TypeOK /\ L!TypeOK /\ P!TypeOK
    /\ Rc!TypeOK /\ Cr!TypeOK /\ Sm!TypeOK

\* Retry.tla: Do always returns.
DoTerminates == part = "retry" => R!DoTerminates

\* ByteStreamWriter.tla: Close succeeds only for a blob the CAS holds.
CloseOkMeansStored == W!CloseOkMeansStored

\* ByteStreamWriter.tla: the writer's offset and reported bytes agree with
\* what the server received.
WrittenMatchesServer == W!WrittenMatchesServer

\* ByteStreamReader.tla: Read hands out the blob in order, then io.EOF.
ReadsBlobInOrder == Rd!ReadsBlobInOrder

\* CredHelper.tla: one helper process at a time per endpoint key.
HelperRunsSerialized == C!HelperRunsSerialized

\* CredHelper.tla: a successful get returns an unexpired credential.
FreshCredential == C!FreshCredential

\* LuciAuthToken.tla: every Token call returns.
TokenReturns == part = "luci" => L!TokenReturns

\* Proxy.tla: Execute and WaitExecution relay upstream's Operations in
\* order and return OK exactly when the done one has been sent on.
ExecuteRelayed == P!ExecuteRelayed

\* Proxy.tla: a Read relayed OK ended with upstream's io.EOF, every chunk
\* handed on.
ReadRelayed == P!ReadRelayed

\* Proxy.tla: a Write relayed OK is stored upstream.
WriteOkMeansCommitted == P!WriteOkMeansCommitted

\* Cred.tla: the oauth per-RPC credential New builds always wraps a live
\* token source.
OAuthWrapsLiveSource == Cr!OAuthWrapsLiveSource

\* SisoMain.tla: however sisoMain ends, the terminal is restored once
\* ui.Init ran, and a go trace is stopped before its file is closed.
ExitUnwindsInOrder == Sm!ExitUnwindsInOrder

====
