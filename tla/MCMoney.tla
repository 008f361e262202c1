------------------------------- MODULE MCMoney ------------------------------
(***************************************************************************)
(* The wallet, and what is kept beside the money: staff-granted            *)
(* memberships, apps and their plans, usage counts, and the background     *)
(* jobs.  The components share no row, so one run explores them side by    *)
(* side: a behaviour is a behaviour of the one component "part" names.     *)
(***************************************************************************)
EXTENDS Wallet, TLC

CONSTANTS r1, r2, m1, m2, m3

VARIABLES part,
          member, stored, vip, applied, told, today,
          app, minted, known, last, plan, pinned, archived, removed, appReq, boot, ops,
          clock, ledger, schema, lock, run, row, arrived, claim, entry, flight, get, fetches,
          tokNow, tokRows, dev, cleared, tombs, tokLock, tokOp, tokOps, sweep, gone,
          events, secs, out, sends

\* Two equal holds.
MCAmount == (r1 :> 2) @@ (r2 :> 2)

\* A top-up, a gift and a refund.
MCCommand ==
       (m1 :> [type |-> "topup", dir |-> "credit", source |-> "cash", amount |-> 3])
    @@ (m2 :> [type |-> "adjustment", dir |-> "credit", source |-> "bonus", amount |-> 1])
    @@ (m3 :> [type |-> "refund", dir |-> "debit", source |-> "cash", amount |-> 1])

\* Two staff members, a key that is used twice.
Members == INSTANCE Membership WITH row <- member,
    Staff <- {1, 2}, Keys <- {"k"}, NoKey <- "none", Days <- {0, 1, 2}, MinDays <- 1, MaxDays <- 2,
    FreeDays <- 1, MaxExpiry <- 3, MaxTime <- 1

\* Two administrators and two booting instances on one app.
AppRows == INSTANCE Apps WITH used <- pinned, req <- appReq,
    Admins <- {1, 2}, Boots <- {1, 2}, Secrets <- {"s1"}, NoSecret <- "none", Mask <- "mask",
    MaxHash <- 3, MaxOps <- 4

\* Three instances that migrate, two that send events, three calls that need a token.
Migrations == INSTANCE Workers WITH now <- clock,
    Runners <- {1, 2, 3}, Files <- 3, Events <- {}, Senders <- {1, 2}, MaxAttempts <- 4, Base <- 1,
    MaxBackoff <- 4, Hold <- 3, Getters <- {}, Life <- 4, Margin <- 1, Short <- 1, MaxTTL <- 2,
    Never <- 99, MaxNow <- 0
Outbox == INSTANCE Workers WITH now <- clock,
    Runners <- {}, Files <- 3, Events <- {1}, Senders <- {1, 2}, MaxAttempts <- 4, Base <- 1,
    MaxBackoff <- 4, Hold <- 3, Getters <- {}, Life <- 4, Margin <- 1, Short <- 1, MaxTTL <- 2,
    Never <- 99, MaxNow <- 12
TokenCache == INSTANCE Workers WITH now <- clock,
    Runners <- {}, Files <- 3, Events <- {}, Senders <- {1, 2}, MaxAttempts <- 4, Base <- 1,
    MaxBackoff <- 4, Hold <- 3, Getters <- {1, 2, 3}, Life <- 4, Margin <- 1, Short <- 1, MaxTTL <- 2,
    Never <- 99, MaxNow <- 6

\* Two clients of one device against the retention, and the two views of two devices.
Uploads == INSTANCE UsageTokens WITH now <- tokNow, rows <- tokRows, lock <- tokLock, op <- tokOp, ops <- tokOps,
    Clients <- {1, 2}, Devices <- {1}, Tokens <- {1}, Labels <- {0}, MaxBatch <- 1, Hour <- 2, Day <- 4,
    Retention <- 4, Backfill <- 2, MaxWindow <- 2, MaxItems <- 1, MaxRows <- 2, Offsets <- {0, 2},
    BatchSize <- 1, MinNow <- 6, MaxNow <- 8, MaxOps <- 3
Views == INSTANCE UsageTokens WITH now <- tokNow, rows <- tokRows, lock <- tokLock, op <- tokOp, ops <- tokOps,
    Clients <- {1}, Devices <- {1, 2}, Tokens <- {1}, Labels <- {1}, MaxBatch <- 2, Hour <- 2, Day <- 4,
    Retention <- 4, Backfill <- 2, MaxWindow <- 2, MaxItems <- 1, MaxRows <- 2, Offsets <- {0, 2},
    BatchSize <- 2, MinNow <- 5, MaxNow <- 5, MaxOps <- 3

\* Batches of three events of two users, some of them sent again.
MCBeat ==
    [k \in {1, 2} \X {1, 2, 3} |->
        [at |-> 2 * k[2] + k[1] - 2, secs |-> k[2], plat |-> IF k[2] = 2 THEN "mac" ELSE "win"]]
Beats == INSTANCE UsageBeats WITH
    Users <- {1, 2}, Events <- {1, 2, 3}, Platforms <- {"mac", "win"}, Beat <- MCBeat, MaxSecs <- 3,
    MaxBeats <- 2, Day <- 2, Month <- 2, MaxDay <- 3, MaxRange <- 3, Offsets <- {0, 1}, MaxSends <- 3
-----------------------------------------------------------------------------
membervars == <<member, stored, vip, applied, told, today>>
appvars == <<app, minted, known, last, plan, pinned, archived, removed, appReq, boot, ops>>
jobvars == <<clock, ledger, schema, lock, run, row, arrived, claim, entry, flight, get, fetches>>
tokvars == <<tokNow, tokRows, dev, cleared, tombs, tokLock, tokOp, tokOps, sweep, gone>>
beatvars == <<events, secs, out, sends>>
allvars == <<vars, membervars, appvars, jobvars, tokvars, beatvars, part>>

MoneyInit ==
    /\ part \in {"wallet", "members", "apps", "migrations", "outbox", "tokens",
                 "uploads", "views", "beats"}
    /\ Init /\ Beats!Init
    /\ Members!Init /\ (part = "members" \/ member = Members!NoRow)
    /\ AppRows!Init /\ (part = "apps" \/ ~app.there)
    /\ CASE part = "migrations" -> Migrations!Init
         [] part = "tokens" -> TokenCache!Init
         [] OTHER -> Outbox!Init
    /\ IF part = "views" THEN Views!Init ELSE Uploads!Init

WalletStep ==
    part = "wallet" /\ Next /\ UNCHANGED <<membervars, appvars, jobvars, tokvars, beatvars, part>>
MemberStep ==
    part = "members" /\ Members!Next /\ UNCHANGED <<vars, appvars, jobvars, tokvars, beatvars, part>>
AppStep ==
    part = "apps" /\ AppRows!Next /\ UNCHANGED <<vars, membervars, jobvars, tokvars, beatvars, part>>
JobStep ==
    /\ \/ part = "migrations" /\ Migrations!Next
       \/ part = "outbox" /\ Outbox!Next
       \/ part = "tokens" /\ TokenCache!Next
    /\ UNCHANGED <<vars, membervars, appvars, tokvars, beatvars, part>>
UsageStep ==
    /\ \/ part = "uploads" /\ Uploads!Next /\ UNCHANGED beatvars
       \/ part = "views" /\ Views!Next /\ UNCHANGED beatvars
       \/ part = "beats" /\ Beats!Next /\ UNCHANGED tokvars
    /\ UNCHANGED <<vars, membervars, appvars, jobvars, part>>

MoneyNext == WalletStep \/ MemberStep \/ AppStep \/ JobStep \/ UsageStep

MoneySpec == MoneyInit /\ [][MoneyNext]_allvars
-----------------------------------------------------------------------------
\* A grant sent again under its idempotency key is applied once
\* (Membership!KeyedOnce, GrantMembership).
KeyedOnce == part = "members" => Members!KeyedOnce

\* Concurrent requests on an app and its plans (Apps!AppRowsHold).
AppRowsHold == AppRows!AppRowsHold

\* Several instances of each background job work as one (Workers): migrations apply
\* in order and once, an event is forgotten only after it arrived and stays parked once
\* it is, and one token is fetched at a time.
WorkersAgree ==
    /\ [](part = "migrations" => Migrations!MigrationsInOrder)
    /\ [](part = "outbox" => Outbox!SentHasArrived)
    /\ [](part = "tokens" => TokenCache!OneFetch)
    /\ [][part = "outbox" => Outbox!StaysParked]_jobvars

\* Usage counts each thing once (UsageTokens, UsageBeats): a cleared device does not
\* come back with a late upload, both views add up to the same, and a beat that is
\* sent again does not count again.
UsageCountsOnce ==
    /\ part = "uploads" => Uploads!NoResurrection
    /\ part = "views" => Views!ViewsAgree
    /\ part = "beats" => Beats!BeatsCountOnce
=============================================================================
