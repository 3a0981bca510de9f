------------------------------ MODULE CredHelper ------------------------------
(***************************************************************************)
(* credHelper.get (src/unnamed/part_006): concurrent requests for         *)
(* credentials of an endpoint share one cache entry per endpoint; the     *)
(* entry's mutex is held while the helper runs, so that an expired or     *)
(* missing credential is fetched once and then reused until it expires.   *)
(*                                                                         *)
(* Entries are numbered in creation order; a credential is its expiry     *)
(* time (0 is the zero time.Time).  Time advances by Tick up to MaxTime.   *)
(* The helper's outcome (a response with or without "expires", a failure  *)
(* to run, an unparsable expiry) is chosen when it runs.                  *)
(***************************************************************************)
EXTENDS Integers, FiniteSets

CONSTANTS
    Procs,      \* goroutines calling get
    Endpoints,  \* endpoints as passed to get
    Googleapis, \* those that are https://...googleapis.com/ URLs
    Wildcard,   \* "https://*.googleapis.com/"
    MaxCalls,   \* get calls per goroutine
    MaxTime,    \* bound on the clock
    NoProc

ASSUME Googleapis \subseteq Endpoints /\ Wildcard \notin Endpoints /\ NoProc \notin Procs

Validity == 2   \* time.Now().Add(1 * time.Hour), in ticks

\* Lines 90-92: every googleapis.com endpoint shares the wildcard entry.
Key(e) == IF e \in Googleapis THEN Wildcard ELSE e

Keys == {Key(e) : e \in Endpoints}
EntryIds == 1..Cardinality(Keys)

VARIABLES
    cache,     \* h.cache: key -> entry id, 0 when absent
    expires,   \* entry id -> cce.cred.expires
    holder,    \* entry id -> goroutine holding cce.mu, or NoProc
    clock,     \* time.Now()
    pc,        \* goroutine -> "idle", "entry", "lock", "check", "run"
    key,       \* goroutine -> endpoint key of its call
    ent,       \* goroutine -> cce
    calls,     \* goroutine -> calls made
    calledAt,  \* goroutine -> clock when the call started
    ret,       \* goroutine -> "none", "ok", "err": the last call's result
    retExp     \* goroutine -> expiry of the credential the last call returned

credVars == <<cache, expires, holder, clock, pc, key, ent, calls, calledAt, ret, retExp>>

Init ==
    /\ cache = [k \in Keys |-> 0]
    /\ expires = [id \in EntryIds |-> 0]
    /\ holder = [id \in EntryIds |-> NoProc]
    /\ clock = 0
    /\ pc = [g \in Procs |-> "idle"]
    /\ key = [g \in Procs |-> Wildcard]
    /\ ent = [g \in Procs |-> 0]
    /\ calls = [g \in Procs |-> 0]
    /\ calledAt = [g \in Procs |-> 0]
    /\ ret = [g \in Procs |-> "none"]
    /\ retExp = [g \in Procs |-> 0]

----------------------------------------------------------------------------
\* get(ctx, endpoint) is called; the endpoint is normalised.
Call(g) ==
    /\ pc[g] = "idle" /\ calls[g] < MaxCalls
    /\ \E e \in Endpoints : key' = [key EXCEPT ![g] = Key(e)]
    /\ calls' = [calls EXCEPT ![g] = @ + 1]
    /\ calledAt' = [calledAt EXCEPT ![g] = clock]
    /\ pc' = [pc EXCEPT ![g] = "entry"]
    /\ UNCHANGED <<cache, expires, holder, clock, ent, ret, retExp>>

\* Mutant: the cached entry is not looked up, a new one replaces it.
GetEntryAlwaysNew(g) ==
    /\ pc[g] = "entry"
    /\ LET id == Cardinality({k \in Keys : cache[k] # 0}) + 1
       IN /\ cache' = [cache EXCEPT ![key[g]] = id]
          /\ ent' = [ent EXCEPT ![g] = id]
    /\ pc' = [pc EXCEPT ![g] = "lock"]
    /\ UNCHANGED <<expires, holder, clock, key, calls, calledAt, ret, retExp>>

\* Under h.mu: find the entry of the key, creating it if missing (93-102).
GetEntry(g) ==
    /\ pc[g] = "entry"
    /\ LET id == IF cache[key[g]] # 0
                    THEN cache[key[g]]
                    ELSE Cardinality({k \in Keys : cache[k] # 0}) + 1
       IN /\ cache' = [cache EXCEPT ![key[g]] = id]
          /\ ent' = [ent EXCEPT ![g] = id]
    /\ pc' = [pc EXCEPT ![g] = "lock"]
    /\ UNCHANGED <<expires, holder, clock, key, calls, calledAt, ret, retExp>>

\* Mutant: cce.mu.Lock() is missing.
LockEntryNoWait(g) ==
    /\ pc[g] = "lock"
    /\ holder' = [holder EXCEPT ![ent[g]] = g]
    /\ pc' = [pc EXCEPT ![g] = "check"]
    /\ UNCHANGED <<cache, expires, clock, key, ent, calls, calledAt, ret, retExp>>

\* cce.mu.Lock() (line 104).
LockEntry(g) ==
    /\ pc[g] = "lock" /\ holder[ent[g]] = NoProc
    /\ holder' = [holder EXCEPT ![ent[g]] = g]
    /\ pc' = [pc EXCEPT ![g] = "check"]
    /\ UNCHANGED <<cache, expires, clock, key, ent, calls, calledAt, ret, retExp>>

\* Mutant: only a zero expiry counts as needing the helper.
NeedsRefreshZeroOnly(x) == x = 0

\* cce.cred.expires.IsZero() || cce.cred.expires.Before(time.Now()).
NeedsRefresh(x) == x = 0 \/ x < clock

\* The cached credential is valid: return it, unlocking the entry.
CheckFresh(g) ==
    /\ pc[g] = "check" /\ ~NeedsRefresh(expires[ent[g]])
    /\ ret' = [ret EXCEPT ![g] = "ok"]
    /\ retExp' = [retExp EXCEPT ![g] = expires[ent[g]]]
    /\ holder' = [holder EXCEPT ![ent[g]] = NoProc]
    /\ pc' = [pc EXCEPT ![g] = "idle"]
    /\ UNCHANGED <<cache, expires, clock, key, ent, calls, calledAt>>

CheckExpired(g) ==
    /\ pc[g] = "check" /\ NeedsRefresh(expires[ent[g]])
    /\ pc' = [pc EXCEPT ![g] = "run"]
    /\ UNCHANGED <<cache, expires, holder, clock, key, ent, calls, calledAt, ret, retExp>>

\* The helper answers: expiry an hour from now, or the response's
\* "expires" (a later time); the entry is updated and returned (115-133).
HelperOk(g) ==
    /\ pc[g] = "run"
    /\ \E x \in {clock + Validity, clock + 1} :
          /\ expires' = [expires EXCEPT ![ent[g]] = x]
          /\ retExp' = [retExp EXCEPT ![g] = x]
    /\ ret' = [ret EXCEPT ![g] = "ok"]
    /\ holder' = [holder EXCEPT ![ent[g]] = NoProc]
    /\ pc' = [pc EXCEPT ![g] = "idle"]
    /\ UNCHANGED <<cache, clock, key, ent, calls, calledAt>>

\* The helper fails or its expiry does not parse: the cached credential,
\* unchanged, is returned with the error (lines 111-121).
HelperFails(g) ==
    /\ pc[g] = "run"
    /\ ret' = [ret EXCEPT ![g] = "err"]
    /\ retExp' = [retExp EXCEPT ![g] = expires[ent[g]]]
    /\ holder' = [holder EXCEPT ![ent[g]] = NoProc]
    /\ pc' = [pc EXCEPT ![g] = "idle"]
    /\ UNCHANGED <<cache, expires, clock, key, ent, calls, calledAt>>

Tick ==
    /\ clock < MaxTime
    /\ clock' = clock + 1
    /\ UNCHANGED <<cache, expires, holder, pc, key, ent, calls, calledAt, ret, retExp>>

Finished ==
    /\ \A g \in Procs : pc[g] = "idle" /\ calls[g] = MaxCalls
    /\ clock = MaxTime
    /\ UNCHANGED credVars

Step(g) ==
    \/ Call(g) \/ GetEntry(g) \/ LockEntry(g) \/ CheckFresh(g) \/ CheckExpired(g)
    \/ HelperOk(g) \/ HelperFails(g)

Next == (\E g \in Procs : Step(g)) \/ Tick \/ Finished

Spec == Init /\ [][Next]_credVars

----------------------------------------------------------------------------
TypeOK ==
    /\ cache \in [Keys -> 0..Cardinality(Keys)]
    /\ expires \in [EntryIds -> 0..MaxTime + Validity]
    /\ holder \in [EntryIds -> Procs \cup {NoProc}]
    /\ clock \in 0..MaxTime
    /\ pc \in [Procs -> {"idle", "entry", "lock", "check", "run"}]
    /\ key \in [Procs -> Keys]
    /\ ent \in [Procs -> 0..Cardinality(Keys)]
    /\ calls \in [Procs -> 0..MaxCalls]
    /\ ret \in [Procs -> {"none", "ok", "err"}]

\* One helper process at a time per endpoint: while one goroutine runs the
\* helper for a key, no other goroutine runs it for the same key, whatever
\* endpoints of that key the two were called with.
HelperRunsSerialized ==
    \A g, h \in Procs :
        g # h /\ pc[g] = "run" /\ pc[h] = "run" => key[g] # key[h]

\* A get that succeeds returns a credential that had not expired when the
\* call started: a cached credential is reused only while it is valid.
FreshCredential ==
    \A g \in Procs : ret[g] = "ok" /\ pc[g] = "idle" => retExp[g] >= calledAt[g]

====
