----------------------------- MODULE RateLimits -----------------------------
(***************************************************************************)
(* The three process-local rate limiters: the sliding-window counter of    *)
(* customer API keys and accounts (internal/inference/access/ratelimit.go, *)
(* used by httpapi/apikey_auth.go), the token bucket per address or user   *)
(* (internal/middleware/ratelimit.go) and the budget of failed relay       *)
(* handshakes (internal/relay/limiter.go).                                 *)
(*                                                                         *)
(* Time is counted in ticks, Second ticks to a second of a Retry-After     *)
(* header.  golang.org/x/time/rate refills one token in Refill ticks; a    *)
(* bucket holds its tokens in units of 1/Refill.                           *)
(***************************************************************************)
EXTENDS Naturals, FiniteSets, FiniteSetsExt

CONSTANTS
    KeyIds,        \* API keys of one account
    KeyLimit,      \* rpm_limit of each key, 0 for none
    AccountLimit,  \* accountRPM, 0 for none
    Account,       \* the account's scope
    Span, Second, Idle,   \* the counter's span, and when the janitor drops a scope
    Visitors, Callers,    \* addresses, and requests served at the same time
    Burst, Refill, Evict, \* bucket size, ticks to a token, cleanupEvictInterval
    Peers, PeerConns,     \* relay addresses, and handshakes at the same time
    NoLimiter, MaxNow, MaxAsk \* no bucket; bounds on the clock and the requests

VARIABLES
    now, asks,
    win,      \* RPMCounter.buckets: [start, prev, curr, seen], seen = 0 for none
    log,      \* the times of the requests each scope admitted, with their number
    promise,  \* when the last Retry-After of a scope said to come back, 0 for none
    bucket,   \* the rate.Limiter of each visitor and the time it was seen
    caller,   \* "idle" or the visitor a cold start is under way for
    stale,    \* what cleanup has collected
    granted,  \* tokens granted to each visitor so far
    fails,    \* HelloFailLimiter.visitors and lastSeen
    peer      \* handshakes under way

ratevars == <<now, asks, win, log, promise, bucket, caller, stale, granted, fails, peer>>

Scopes == KeyIds \cup {Account}
LimitOf(s) == IF s = Account THEN AccountLimit ELSE KeyLimit[s]
NoWindow == [start |-> 0, prev |-> 0, curr |-> 0, seen |-> 0]
FullBucket == [tokens |-> Burst * Refill, last |-> now, seen |-> now]
NoBucket == [tokens |-> 0, last |-> 0, seen |-> 0]

Init ==
    /\ now = 1 /\ asks = 0
    /\ win = [s \in Scopes |-> NoWindow]
    /\ log = [s \in Scopes |-> [t \in 1..MaxNow |-> 0]]
    /\ promise = [s \in Scopes |-> 0]
    /\ bucket = [v \in Visitors |-> NoBucket]
    /\ caller = [c \in Callers |-> NoLimiter]
    /\ stale = {}
    /\ granted = [v \in Visitors |-> 0]
    /\ fails = [a \in Peers |-> NoBucket]
    /\ peer = [c \in PeerConns |-> NoLimiter]

rpmvars == <<win, log, promise>>
tokenvars == <<bucket, caller, stale, granted>>
peervars == <<fails, peer>>

-----------------------------------------------------------------------------
(* The sliding-window counter *)

\* MUTANT: a new window starts from nothing.
StartAfresh(w) ==
    LET start == now - (now % Span) IN
    IF w.seen # 0 /\ w.start = start THEN [w EXCEPT !.seen = now]
    ELSE [start |-> start, prev |-> 0, curr |-> 0, seen |-> now]

\* The bucket of a scope, rolled to the current window.
bucketLocked(w) ==
    LET start == now - (now % Span) IN
    IF w.seen # 0 /\ w.start = start THEN [w EXCEPT !.seen = now]
    ELSE [start |-> start, prev |-> IF w.seen # 0 /\ start - w.start = Span THEN w.curr ELSE 0,
          curr |-> 0, seen |-> now]

\* curr + prev * (1 - elapsed / span), times the span.
estimate(w) ==
    LET elapsed == now - w.start
    IN  w.curr * Span + w.prev * (IF elapsed >= Span THEN 0 ELSE Span - elapsed)

\* What Allow leaves of the window, and whether it admits.
Allow(s) ==
    LET w == bucketLocked(win[s]) IN
    IF estimate(w) >= LimitOf(s) * Span THEN [ok |-> FALSE, win |-> w]
    ELSE [ok |-> TRUE, win |-> [w EXCEPT !.curr = @ + 1]]

\* What is left of the window, 0 when nothing counts.
RetryAfter(w) ==
    LET elapsed == now - w.start
    IN  IF estimate(w) = 0 \/ elapsed >= Span THEN 0 ELSE Span - elapsed

\* MUTANT: whole seconds, rounded down.
HeaderDown(w) == (RetryAfter(w) \div Second) * Second

\* The header, int(seconds) + 1, as a time.
RetryHeader(w) == (RetryAfter(w) \div Second + 1) * Second

\* APIKeyAuth after authentication: the key's own limit first, then the
\* account's; a request the account refuses has counted against its key.
APIKeyAuth(k) ==
    LET keyed == LimitOf(k) # 0
        byKey == Allow(k)
        billed == AccountLimit # 0 /\ (keyed => byKey.ok)
        byAcct == Allow(Account)
        asked == {s \in {k} : keyed} \cup {s \in {Account} : billed}
        answer(s) == IF s = k THEN byKey ELSE byAcct
    IN  /\ asks < MaxAsk
        /\ win' = [s \in Scopes |-> IF s \in asked THEN answer(s).win ELSE win[s]]
        /\ log' = [s \in Scopes |-> IF s \in asked /\ answer(s).ok
                                    THEN [log[s] EXCEPT ![now] = @ + 1] ELSE log[s]]
        /\ promise' = [s \in Scopes |-> IF s \notin asked THEN promise[s]
                                        ELSE IF answer(s).ok THEN 0
                                        ELSE now + RetryHeader(answer(s).win)]
        /\ asks' = asks + 1
        /\ UNCHANGED <<now, tokenvars, peervars>>

\* MUTANT: whatever was not used this instant is dropped.
SweepAll(w) == IF w.seen < now THEN NoWindow ELSE w

SweepOne(w) == IF w.seen + Idle < now THEN NoWindow ELSE w

Sweep ==
    /\ win' = [s \in Scopes |-> SweepOne(win[s])]
    /\ UNCHANGED <<now, asks, log, promise, tokenvars, peervars>>

-----------------------------------------------------------------------------
(* The token bucket *)

Refilled(b) == [b EXCEPT !.tokens = Min({Burst * Refill, @ + (now - b.last)}), !.last = now]
HasToken(b) == Refilled(b).tokens >= Refill
TakeToken(b) == IF HasToken(b) THEN [Refilled(b) EXCEPT !.tokens = @ - Refill] ELSE Refilled(b)

\* RateLimitWithKey and the warm path of allow; a first request goes on to
\* create a bucket.
allow(c) ==
    /\ caller[c] = NoLimiter /\ asks < MaxAsk
    /\ asks' = asks + 1
    /\ \E v \in Visitors :
        IF bucket[v].seen = 0
        THEN caller' = [caller EXCEPT ![c] = v] /\ UNCHANGED <<bucket, granted>>
        ELSE /\ bucket' = [bucket EXCEPT ![v] = [TakeToken(@) EXCEPT !.seen = now]]
             /\ granted' = [granted EXCEPT ![v] = @ + IF HasToken(bucket[v]) THEN 1 ELSE 0]
             /\ UNCHANGED caller
    /\ UNCHANGED <<now, stale, rpmvars, peervars>>

\* The cold path stores its own bucket over whatever is there by now.
ColdStart(c) ==
    LET v == caller[c] IN
    /\ v # NoLimiter
    /\ bucket' = [bucket EXCEPT ![v] = TakeToken(FullBucket)]
    /\ granted' = [granted EXCEPT ![v] = @ + 1]
    /\ caller' = [caller EXCEPT ![c] = NoLimiter]
    /\ UNCHANGED <<now, asks, stale, rpmvars, peervars>>

\* MUTANT: every visitor is evicted by the janitor's next tick.
EveryVisitor(v) == bucket[v].seen # 0

StaleVisitor(v) == bucket[v].seen # 0 /\ now - bucket[v].seen > Evict

\* cleanup collects first and deletes after, unconditionally.
CollectStale ==
    /\ stale = {}
    /\ stale' = {v \in Visitors : StaleVisitor(v)}
    /\ stale' # {}
    /\ UNCHANGED <<now, asks, bucket, caller, granted, rpmvars, peervars>>

DeleteStale ==
    /\ stale # {}
    /\ bucket' = [v \in Visitors |-> IF v \in stale THEN NoBucket ELSE bucket[v]]
    /\ stale' = {}
    /\ UNCHANGED <<now, asks, caller, granted, rpmvars, peervars>>

-----------------------------------------------------------------------------
(* The failed-handshake budget *)

AllowHello(a) == fails[a].seen = 0 \/ HasToken(fails[a])

\* An address with failures left upgrades; its hello is judged later.
Handshake(c) ==
    /\ peer[c] = NoLimiter /\ asks < MaxAsk
    /\ \E a \in Peers : AllowHello(a) /\ peer' = [peer EXCEPT ![c] = a]
    /\ asks' = asks + 1
    /\ UNCHANGED <<now, fails, rpmvars, tokenvars>>

\* RecordFailure: a token if there is one, and the time.
RecordFailure(b) == [TakeToken(IF b.seen = 0 THEN FullBucket ELSE b) EXCEPT !.seen = now]

HelloJudged(c) ==
    /\ peer[c] # NoLimiter
    /\ \/ fails' = [fails EXCEPT ![peer[c]] = RecordFailure(@)]
       \/ UNCHANGED fails
    /\ peer' = [peer EXCEPT ![c] = NoLimiter]
    /\ UNCHANGED <<now, asks, rpmvars, tokenvars>>

\* The janitor of the failure budget, under its mutex.
FailJanitor ==
    /\ \E a \in Peers : fails[a].seen # 0 /\ now - fails[a].seen > Evict
    /\ fails' = [a \in Peers |-> IF fails[a].seen # 0 /\ now - fails[a].seen > Evict THEN NoBucket ELSE fails[a]]
    /\ UNCHANGED <<now, asks, peer, rpmvars, tokenvars>>

-----------------------------------------------------------------------------
Tick ==
    /\ now < MaxNow
    /\ now' = now + 1
    /\ UNCHANGED <<asks, rpmvars, tokenvars, peervars>>

Next ==
    \/ Tick \/ Sweep \/ CollectStale \/ DeleteStale \/ FailJanitor
    \/ \E k \in KeyIds : APIKeyAuth(k)
    \/ \E c \in Callers : allow(c) \/ ColdStart(c)
    \/ \E c \in PeerConns : Handshake(c) \/ HelloJudged(c)

Spec == Init /\ [][Next]_ratevars

-----------------------------------------------------------------------------
\* A scope that was refused and told when to come back is admitted when it
\* does, unless it was used in between; the janitor does not change that.
KeepsPromise ==
    \A s \in Scopes :
        promise[s] # 0 /\ now >= promise[s] => promise'[s] \in {0, promise[s]}
RetryAfterHonest == [][KeepsPromise]_ratevars

\* Over the last span, at any time elapsed into the current window, a scope
\* is admitted fewer than limit * (1 + elapsed/span) + 1
\* times, whatever the janitor drops.
RollingBound ==
    \A s \in Scopes : LimitOf(s) # 0 =>
        LET first == IF now > Span THEN now - Span + 1 ELSE 1
            rolling == MapThenSumSet(LAMBDA t : log[s][t], first..now)
        IN  rolling # 0 => (rolling - 1) * Span < LimitOf(s) * (Span + (now % Span))

\* However the first requests of a visitor and the janitor interleave, a
\* visitor is granted no more than a bucket for each request served at the
\* same time, and the refill.
NoBypass ==
    \A v \in Visitors :
        granted[v] * Refill <= Cardinality(Callers) * Burst * Refill + (now - 1)

\* Two requests that start a visitor's bucket together cost one token
\* beyond the bucket and its refill.
OneExtraToken ==
    \A v \in Visitors : granted[v] * Refill <= (Burst + 1) * Refill + (now - 1)
=============================================================================
