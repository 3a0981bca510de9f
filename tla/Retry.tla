------------------------------- MODULE Retry -------------------------------
(***************************************************************************)
(* retry.Do and ExponentialBackoff (src/reapi/retry/retry.go).             *)
(*                                                                         *)
(* One Do call: f is called, Next classifies its error and either ends Do  *)
(* or picks a jittered delay; Do then sleeps unless its context is done.   *)
(* An error is abstracted to its gRPC code, as status.FromError or         *)
(* status.FromContextError sees it; "UnknownPlain" is a non-gRPC error     *)
(* that FromContextError maps to Unknown.  Durations are in milliseconds;  *)
(* rand.Float64() is k/10 for k in Jitters.                                *)
(***************************************************************************)
EXTENDS Integers

CONSTANTS
    Codes,      \* the codes f may fail with (and "OK")
    Jitters,    \* values k of rand.Float64() = k/10
    CallBound   \* bound on calls of f, above what Next allows

\* Next's constants (lines 81-85).
maxRetries == 10
multiplier == 2
baseDelay == 200
maxDelay == 10000

TransientCodes == {"ResourceExhausted", "Internal", "Unavailable", "Aborted"}
AuthCodes == {"Unauthenticated", "PermissionDenied"}
AllCodes == {"OK", "UnknownGrpc", "UnknownPlain", "Canceled", "DeadlineExceeded",
             "NotFound", "InvalidArgument"} \cup TransientCodes \cup AuthCodes

ASSUME Codes \subseteq AllCodes /\ Jitters \subseteq 0..9 /\ CallBound > maxRetries + 1

VARIABLES
    pc,          \* "call": about to call f; "sleep": in the select; "done"
    retries,     \* ExponentialBackoff.retries
    delay,       \* ExponentialBackoff.delay
    authRetry,   \* ExponentialBackoff.authRetry
    canceled,    \* ctx.Done() is closed
    result,      \* what Do returned ("OK", a code, "TooManyRetries")
    calls        \* history: calls of f

retryVars == <<pc, retries, delay, authRetry, canceled, result, calls>>

----------------------------------------------------------------------------
\* retriableError's update of b.authRetry (lines 61-70).
AuthRetryAfter(c, flag) == flag \/ c \in AuthCodes

\* retriableError (lines 32-73), with the authRetry flag before the call.
Retriable(c, flag) ==
    \/ c \in TransientCodes
    \/ c = "UnknownGrpc"
    \/ c \in AuthCodes /\ ~flag

\* Mutant: the retry limit is checked with > instead of >=.
ExhaustedLate(r) == r > maxRetries

\* if b.retries >= maxRetries (line 97).
Exhausted(r) == r >= maxRetries

\* Lines 101-109: double, cap, subtract up to 40% jitter, floor at base.
Backoff(d, k) ==
    LET b0 == d * multiplier
        b  == IF b0 > maxDelay THEN maxDelay ELSE b0
        j  == b - (b * 4 * k) \div 100
    IN  IF j < baseDelay THEN baseDelay ELSE j

----------------------------------------------------------------------------
Init ==
    /\ pc = "call"
    /\ retries = 0
    /\ delay = 0
    /\ authRetry = FALSE
    /\ canceled = FALSE
    /\ result = "none"
    /\ calls = 0

\* err := f(); Next(ctx, err) with err == nil: return 0, nil; Do returns nil.
CallSucceeds ==
    /\ pc = "call"
    /\ calls < CallBound
    /\ "OK" \in Codes
    /\ calls' = calls + 1
    /\ result' = "OK"
    /\ pc' = "done"
    /\ UNCHANGED <<retries, delay, authRetry, canceled>>

\* Next with a non-retriable error: return 0, err; Do returns err.
CallFailsFinal ==
    /\ pc = "call"
    /\ calls < CallBound
    /\ \E c \in Codes \ {"OK"} :
          /\ ~Retriable(c, authRetry)
          /\ authRetry' = AuthRetryAfter(c, authRetry)
          /\ result' = c
    /\ calls' = calls + 1
    /\ delay' = IF delay = 0 THEN baseDelay ELSE delay
    /\ pc' = "done"
    /\ UNCHANGED <<retries, canceled>>

\* Next with a retriable error after maxRetries retries: "too many retries".
CallExhausted ==
    /\ pc = "call"
    /\ calls < CallBound
    /\ \E c \in Codes \ {"OK"} :
          /\ Retriable(c, authRetry)
          /\ authRetry' = AuthRetryAfter(c, authRetry)
    /\ Exhausted(retries)
    /\ calls' = calls + 1
    /\ result' = "TooManyRetries"
    /\ pc' = "done"
    /\ UNCHANGED <<retries, delay, canceled>>

\* Mutant: b.retries++ is missing.
CallRetriesNoCount ==
    /\ pc = "call"
    /\ calls < CallBound
    /\ \E c \in Codes \ {"OK"} :
          /\ Retriable(c, authRetry)
          /\ authRetry' = AuthRetryAfter(c, authRetry)
    /\ ~Exhausted(retries)
    /\ \E k \in Jitters :
          delay' = Backoff(IF delay = 0 THEN baseDelay ELSE delay, k)
    /\ calls' = calls + 1
    /\ pc' = "sleep"
    /\ UNCHANGED <<retries, canceled, result>>

\* Next with a retriable error below the limit: retries++, return the new
\* delay; Do logs and enters the select.
CallRetries ==
    /\ pc = "call"
    /\ calls < CallBound
    /\ \E c \in Codes \ {"OK"} :
          /\ Retriable(c, authRetry)
          /\ authRetry' = AuthRetryAfter(c, authRetry)
    /\ ~Exhausted(retries)
    /\ retries' = retries + 1
    /\ \E k \in Jitters :
          delay' = Backoff(IF delay = 0 THEN baseDelay ELSE delay, k)
    /\ calls' = calls + 1
    /\ pc' = "sleep"
    /\ UNCHANGED <<canceled, result>>

\* case <-time.After(delay): loop and call f again.
TimerFires ==
    /\ pc = "sleep"
    /\ pc' = "call"
    /\ UNCHANGED <<retries, delay, authRetry, canceled, result, calls>>

\* case <-ctx.Done(): return context.Cause(ctx).
CtxDone ==
    /\ pc = "sleep"
    /\ canceled
    /\ result' = "Canceled"
    /\ pc' = "done"
    /\ UNCHANGED <<retries, delay, authRetry, canceled, calls>>

\* The caller's context is canceled or times out.
Cancel ==
    /\ pc # "done"
    /\ ~canceled
    /\ canceled' = TRUE
    /\ UNCHANGED <<pc, retries, delay, authRetry, result, calls>>

\* Do has returned.
Returned ==
    /\ pc = "done"
    /\ UNCHANGED retryVars

Next ==
    \/ CallSucceeds \/ CallFailsFinal \/ CallExhausted \/ CallRetries
    \/ TimerFires \/ CtxDone \/ Cancel \/ Returned

(* f returns and a running timer fires: the loop of Do is weakly fair.     *)
(* Cancellation is the caller's choice.                                    *)
Fairness ==
    /\ WF_retryVars(CallSucceeds \/ CallFailsFinal \/ CallExhausted \/ CallRetries)
    /\ WF_retryVars(TimerFires \/ CtxDone)

Spec == Init /\ [][Next]_retryVars

FairSpec == Spec /\ Fairness

----------------------------------------------------------------------------
TypeOK ==
    /\ pc \in {"call", "sleep", "done"}
    /\ retries \in 0..maxRetries
    /\ delay \in 0..maxDelay
    /\ authRetry \in BOOLEAN
    /\ canceled \in BOOLEAN
    /\ result \in AllCodes \cup {"none", "TooManyRetries"}
    /\ calls \in 0..CallBound

\* Do always returns: retries are bounded and the auth retry is spent once.
DoTerminates ==
    <>(pc = "done")

====
