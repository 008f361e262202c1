----------------------------- MODULE MCAdmission ----------------------------
(***************************************************************************)
(* What stands before a request: the quota windows and holds (Billing) and *)
(* the row locks of the transactions that move them (LockOrder),           *)
(* the request rates (RateLimits), the key and its grants (Access), the    *)
(* policies and entitlements (Policies), the price in force (PriceBook),   *)
(* and the models there are (Catalog).                                     *)
(* They share no row, so one run explores them side by side: a behaviour   *)
(* is a behaviour of the one component "part" names.                       *)
(***************************************************************************)
EXTENDS MCBilling, Sequences

VARIABLES part, lockAt,
          clock, asks, win, log, promise, bucket, caller, stale, granted, fails, peer,
          keyNow, accts, keys, grants, call, edit, touched, edits, calls,
          pol, ent, payg, rowLock, polOp, polCalls,
          prices, priceNow, priceOp, sent, sends, priced,
          prov, model, dep, route, catEdits, deleted, ed, imp, boots, rev, pub, current, probed, get

\* The locks of each transaction.
Locks == INSTANCE LockOrder WITH at <- 0, Txns <- {}, Program <- << >>

\* Requests r1 and r5 are settled while r6 is corrected, r2 released and r1
\* marked as well; request r3, paid from the wallet, gets an attempt and is
\* settled while r7 is released and payments go on.
MCProgram ==
    [settle |-> Locks!Settle("r1"), other |-> Locks!Settle("r5"), correct |-> Locks!Correct("r6"),
     mark |-> Locks!MarkReconciliation("r1"), release |-> Locks!Release("r2"), admit |-> Locks!Admit,
     settleWallet |-> Locks!SettleWallet("r3"), releaseWallet |-> Locks!ReleaseWallet("r7"),
     admitWallet |-> Locks!AdmitWallet, topup |-> Locks!MoveMoney, reverse |-> Locks!ReverseEntry,
     persist |-> Locks!PersistAttempt("r3")]

Order == INSTANCE LockOrder WITH at <- lockAt, Txns <- DOMAIN MCProgram, Program <- MCProgram

KeyRates == <<2, 0>>

\* The request windows of two keys and their account.
Rpm == INSTANCE RateLimits WITH now <- clock,
    KeyIds <- {1, 2}, KeyLimit <- KeyRates, AccountLimit <- 3, Account <- 9, Span <- 4, Second <- 2,
    Idle <- 8, Visitors <- {}, Callers <- {1, 2}, Burst <- 2, Refill <- 1, Evict <- 4,
    Peers <- {}, PeerConns <- {1, 2}, NoLimiter <- 0, MaxNow <- 9, MaxAsk <- 6

\* The token buckets of a visitor.
Buckets == INSTANCE RateLimits WITH now <- clock,
    KeyIds <- {}, KeyLimit <- KeyRates, AccountLimit <- 3, Account <- 9, Span <- 4, Second <- 2,
    Idle <- 8, Visitors <- {1}, Callers <- {1, 2}, Burst <- 2, Refill <- 1, Evict <- 4,
    Peers <- {}, PeerConns <- {1, 2}, NoLimiter <- 0, MaxNow <- 11, MaxAsk <- 9

\* The handshakes of a relay peer.
Handshakes == INSTANCE RateLimits WITH now <- clock,
    KeyIds <- {}, KeyLimit <- KeyRates, AccountLimit <- 3, Account <- 9, Span <- 4, Second <- 2,
    Idle <- 8, Visitors <- {}, Callers <- {1, 2}, Burst <- 2, Refill <- 1, Evict <- 4,
    Peers <- {1}, PeerConns <- {1, 2}, NoLimiter <- 0, MaxNow <- 8, MaxAsk <- 6

Grants == <<[user |-> 1, kind |-> "plan", models |-> {1}, from |-> 1, to |-> 0]>>

\* One key under an editor, a caller and a revocation.
KeyRows == INSTANCE Access WITH now <- keyNow,
    Users <- {1}, Prefixes <- {1}, Models <- {1}, Grants <- {1}, Grant <- Grants, Requests <- {1},
    Editors <- {1}, Scopes <- {{}, {1}}, Expiries <- {0, 2}, Limits <- {0}, TouchWindow <- 2,
    MaxNow <- 3, MaxEdits <- 2, MaxCalls <- 2

\* Two operators on two versions of a policy and two subjects.
Plans == INSTANCE Policies WITH held <- rowLock, op <- polOp, calls <- polCalls,
    Ops <- {1, 2}, Subjects <- {1, 2}, Models <- {1, 2}, Limits <- {1}, MaxVer <- 2, MaxCalls <- 5

\* Two operators that create versions, some of them sent again.
Versions == INSTANCE PriceBook WITH now <- priceNow, op <- priceOp, req <- priced,
    Ops <- {1, 2}, Rates <- {2, 5}, Mtok <- 3, MaxInt <- 20, Froms <- {0, 5, 6}, Tos <- {0, 7},
    NanosPerMicro <- 4, Tokens <- {}, Context <- 2, MaxOut <- 2, MaxNow <- 3, MaxRev <- 2, MaxSends <- 3

\* One operator next to a request that is priced, held and settled.
Charge == INSTANCE PriceBook WITH now <- priceNow, op <- priceOp, req <- priced,
    Ops <- {1}, Rates <- {2, 5}, Mtok <- 3, MaxInt <- 20, Froms <- {0}, Tos <- {0},
    NanosPerMicro <- 4, Tokens <- {0, 2}, Context <- 2, MaxOut <- 2, MaxNow <- 2, MaxRev <- 2, MaxSends <- 2

\* Two editors next to the import, and an editor next to a publisher.
Edits == INSTANCE Catalog WITH edits <- catEdits,
    Models <- {1, 2}, Aliases <- {2}, Deps <- {1}, Env <- {<<1, 1>>}, Editors <- {1, 2},
    Publishers <- {}, Readers <- {}, PageSize <- 1, PageMax <- 1, PageDefault <- 1,
    MaxEdits <- 2, MaxBoots <- 1, MaxRev <- 2
Publishing == INSTANCE Catalog WITH edits <- catEdits,
    Models <- {1, 2}, Aliases <- {2}, Deps <- {1}, Env <- {<<1, 1>>}, Editors <- {1},
    Publishers <- {1}, Readers <- {}, PageSize <- 1, PageMax <- 1, PageDefault <- 1,
    MaxEdits <- 1, MaxBoots <- 1, MaxRev <- 2
-----------------------------------------------------------------------------
ratevars == <<clock, asks, win, log, promise, bucket, caller, stale, granted, fails, peer>>
keyvars == <<keyNow, accts, keys, grants, call, edit, touched, edits, calls>>
planvars == <<pol, ent, payg, rowLock, polOp, polCalls>>
pricevars == <<prices, priceNow, priceOp, sent, sends, priced>>
catvars == <<prov, model, dep, route, catEdits, deleted, ed, imp, boots, rev, pub, current, probed, get>>
allvars == <<vars, lockAt, ratevars, keyvars, planvars, pricevars, catvars, part>>

AdmissionInit ==
    /\ Init /\ Order!Init /\ KeyRows!Init /\ Plans!Init
    /\ \/ part = "visitor" /\ Buckets!Init
       \/ part = "peer" /\ Handshakes!Init
       \/ part \in {"holds", "locks", "keys", "plans", "versions", "charge", "edits", "publishing", "rpm"} /\ Rpm!Init
    /\ IF part = "charge" THEN Charge!Init ELSE Versions!Init
    /\ IF part = "publishing" THEN Publishing!Init ELSE Edits!Init

HoldsStep ==
    part = "holds" /\ Next /\ UNCHANGED <<lockAt, ratevars, keyvars, planvars, pricevars, catvars, part>>
LockStep ==
    part = "locks" /\ Order!Next /\ UNCHANGED <<vars, ratevars, keyvars, planvars, pricevars, catvars, part>>
RateStep ==
    /\ \/ part = "rpm" /\ Rpm!Next
       \/ part = "visitor" /\ Buckets!Next
       \/ part = "peer" /\ Handshakes!Next
    /\ UNCHANGED <<vars, lockAt, keyvars, planvars, pricevars, catvars, part>>
KeyStep == part = "keys" /\ KeyRows!Next /\ UNCHANGED <<vars, lockAt, ratevars, planvars, pricevars, catvars, part>>
PlanStep == part = "plans" /\ Plans!Next /\ UNCHANGED <<vars, lockAt, ratevars, keyvars, pricevars, catvars, part>>
PriceStep ==
    /\ \/ part = "versions" /\ Versions!Next
       \/ part = "charge" /\ Charge!Next
    /\ UNCHANGED <<vars, lockAt, ratevars, keyvars, planvars, catvars, part>>

CatalogStep ==
    /\ \/ part = "edits" /\ Edits!Next
       \/ part = "publishing" /\ Publishing!Next
    /\ UNCHANGED <<vars, lockAt, ratevars, keyvars, planvars, pricevars, part>>

AdmissionNext == HoldsStep \/ LockStep \/ RateStep \/ KeyStep \/ PlanStep \/ PriceStep \/ CatalogStep

AdmissionSpec == AdmissionInit /\ [][AdmissionNext]_allvars
-----------------------------------------------------------------------------
\* No set of accounting transactions waits for each other in a circle
\* (LockOrder!NoDeadlock, the order quota_repo.go fixes).
NoDeadlock == part = "locks" => Order!NoDeadlock

\* Concurrent operators on policies and entitlements (Policies!PolicyRules).
PolicyRules == Plans!PolicyRules

\* Edits, calls and revocations of one key (Access!KeysKept).
KeysKept == KeyRows!KeysKept

\* The rolling request rate (slidingWindow.allow): any minute admits at most the limit
\* weighted over two windows, a refused caller that comes back when it was told to is
\* admitted, and a visitor never gets more than its bucket per concurrent request.
RatesHold ==
    /\ [](part = "rpm" => Rpm!RollingBound)
    /\ [](part = "visitor" => Buckets!NoBypass)
    /\ [][part = "rpm" => Rpm!KeepsPromise]_allvars

\* Prices are replayed and applied as stored (PriceBook!ReplayKnown, HoldCovers): a create
\* sent again is recognised, and a charge within its bounds never exceeds the hold taken
\* at the price of its admission.
PricesHold ==
    /\ part = "versions" => Versions!ReplayKnown
    /\ part = "charge" => Charge!HoldCovers

\* Imports end complete, revisions load whole, no stale edit moves a lifecycle back
\* (Catalog: ImportComplete, RevisionWhole, LifecycleLegal).
CatalogSound ==
    /\ [](part = "edits" => Edits!ImportComplete)
    /\ [](part = "publishing" => Publishing!RevisionWhole /\ Publishing!ImportComplete)
    /\ Edits!LifecycleLegal
=============================================================================
