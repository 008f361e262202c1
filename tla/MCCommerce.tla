----------------------------- MODULE MCCommerce -----------------------------
(***************************************************************************)
(* What a customer buys and who the customer is: orders, payments and      *)
(* refunds (Payments), channel subscriptions (ChannelSubscription), the    *)
(* entitlements bought (EntitlementSync), settled charges corrected later  *)
(* (Corrections), logins and sessions (Accounts, Sessions).  They meet in  *)
(* committed rows only, so one run explores them side by side: a behaviour *)
(* is a behaviour of the one component "part" names.                       *)
(***************************************************************************)
EXTENDS Corrections, Sequences, TLC

CONSTANTS r1, r2, d1, d2, d3, d4, d5, o1, o2, o3, SyncOpen, SyncNone, p1, p2

VARIABLES part,
          sub, paid, ended, rows, sent, pending, worker, today, spent,
          case, orders, payments, refunds, subs, outbox, recorded, processed, paySent, taken, given,
          payer, payNow, aborts,
          chanSub, ch, inbox, chanReq, booked, rejected, chanNow, seq,
          users, idents, trials, login, app, seen, issued, logged, unbound, bound, loginNow, edits, started,
          sessions, call, active, logouts, punished, sessNow
-----------------------------------------------------------------------------
MCHold == [r \in Requests |-> 2]

\* Two deliveries of one command, a raise and a void of the same request, and
\* a void of a request in the same window.
MCCommand == (d1 :> [req |-> r1, to |-> 1, key |-> "a"])
          @@ (d2 :> [req |-> r1, to |-> 1, key |-> "a"])
          @@ (d3 :> [req |-> r1, to |-> 3, key |-> "b"])
          @@ (d4 :> [req |-> r1, to |-> 0, key |-> "c"])
          @@ (d5 :> [req |-> r2, to |-> 0, key |-> "d"])

\* A plan, the same plan renewed with another benefit, and an upgrade whose
\* benefit is a gift without an end.
MCOrder ==
    [o \in {o1, o2, o3} |->
        CASE o = o1 -> [plan |-> "A", kind |-> "new", days |-> 1, from |-> "-",
                        mode |-> "subscription", spec |-> "s1"]
          [] o = o2 -> [plan |-> "A", kind |-> "renewal", days |-> 1, from |-> "-",
                        mode |-> "subscription", spec |-> "s2"]
          [] o = o3 -> [plan |-> "B", kind |-> "upgrade", days |-> 0, from |-> "A",
                        mode |-> "grant", spec |-> "s3"]]

\* One worker, with failures, a restart, a sweeper and a cancellation.
Sync == INSTANCE EntitlementSync WITH now <- today, Open <- SyncOpen, None <- SyncNone,
    Orders <- {o1, o2, o3}, Order <- MCOrder, Workers <- {"w"}, Batch <- 1, GiftDays <- 1,
    MaxTime <- 1, MaxCancels <- 1, MaxFaults <- 1, MaxGifts <- 0

PlanRow(product, days, price, currency, grants) ==
  [product |-> product, days |-> days, price |-> price, currency |-> currency,
   active |-> TRUE, accepting |-> TRUE, grants |-> grants]

MCPlanOf(p) ==
  CASE p = "month" -> PlanRow("kaya", 2, 2, "CNY", "")
    [] p = "monthUSD" -> PlanRow("kaya", 2, 2, "USD", "gift")
    [] p \in {"code", "code2"} -> PlanRow("coding-plan", 2, 2, "CNY", "subscription")
    [] p = "topup" -> PlanRow("wallet-topup", 0, 3, "CNY", "")
    [] OTHER -> PlanRow("", 0, 0, "", "")

Ask(plan, channel) == [plan |-> plan, ch |-> channel]
Ref(txn, amt, api) == [txn |-> txn, amt |-> amt, api |-> api]

MCCases == {
  [asks |-> "o1" :> Ask("monthUSD", "paddle") @@ "o2" :> Ask("monthUSD", "paypal")
             @@ "o3" :> Ask("month", "paypal"),
   txns |-> "t1" :> "paddle", refs |-> <<>>, does |-> {}],
  [asks |-> "o1" :> Ask("month", "wechat_pay"),
   txns |-> "t1" :> "wechat_pay", refs |-> "k1" :> Ref("t1", 2, TRUE),
   does |-> {"reverse"}],
  [asks |-> "o1" :> Ask("topup", "alipay"),
   txns |-> "t1" :> "alipay",
   refs |-> "c1" :> Ref("t1", 2, FALSE) @@ "k1" :> Ref("t1", 1, TRUE) @@ "k2" :> Ref("t1", 1, TRUE),
   does |-> {}],
  [asks |-> "o1" :> Ask("topup", "wechat_pay"),
   txns |-> "t1" :> "wechat_pay" @@ "t2" :> "paypal",
   refs |-> <<>>, does |-> {"decline", "short"}],
  [asks |-> "o1" :> Ask("topup", "wechat_pay"),
   txns |-> "t1" :> "wechat_pay",
   refs |-> "k1" :> Ref("t1", 1, TRUE), does |-> {"reverse"}],
  [asks |-> "o1" :> Ask("code", "alipay") @@ "o2" :> Ask("code2", "alipay"),
   txns |-> "t1" :> "alipay" @@ "t2" :> "alipay", refs |-> <<>>, does |-> {}] }

MCUpgradeRule == {<<"code", "code2">>}

\* Two processes that handle the requests, webhooks and passes of each case: an
\* auto-renew race, a WeChat subscription, an Alipay top-up refunded in parts, an
\* order paid through two channels, a reversed top-up, and an upgrade.
Pay == INSTANCE Payments WITH sent <- paySent, worker <- payer, now <- payNow,
    Workers <- {p1, p2}, Cases <- MCCases, PlanOf <- MCPlanOf, UpgradeRule <- MCUpgradeRule,
    Hold <- 1, MaxNow <- 1, MaxAborts <- 1

MCInterval(p) == p
MCPrices(p) == {p}

\* Two requests of the subscriber against the channel's own events.
Channel == INSTANCE ChannelSubscription WITH sub <- chanSub, req <- chanReq, now <- chanNow,
    Calls <- {1, 2}, Plans <- {1, 2, 3}, Interval <- MCInterval, Prices <- MCPrices, First <- 1,
    MaxNow <- 2, MaxSeq <- 4

\* Two logins; one provider account has a verified address of another.
MCAnswers ==
  {[provider |-> "github", uid |-> -1, email |-> "e", primaryVerified |-> TRUE, verified |-> "e"],
   [provider |-> "github", uid |-> -2, email |-> "f", primaryVerified |-> FALSE, verified |-> "e"],
   [provider |-> "wechat", uid |-> -3, email |-> "", primaryVerified |-> FALSE, verified |-> ""]}
Logins == INSTANCE Accounts WITH req <- login, now <- loginNow,
    Logins <- {1, 2}, Answers <- MCAnswers, Users <- {1, 2}, Expiry <- 1, MaxNow <- 1,
    MaxStates <- 2, MaxLogins <- 2, MaxEdits <- 1

\* Two requests with tokens of one chain.
Chain == INSTANCE Sessions WITH sub <- active, now <- sessNow,
    Requests <- {1, 2}, MaxSessions <- 3, MaxHops <- 3, Grace <- 0, RefreshTTL <- 2, MaxNow <- 1
-----------------------------------------------------------------------------
syncvars == <<sub, paid, ended, rows, sent, pending, worker, today, spent>>
payvars == <<case, orders, payments, refunds, subs, outbox, recorded, processed, paySent, taken, given,
             payer, payNow, aborts>>
chanvars == <<chanSub, ch, inbox, chanReq, booked, rejected, chanNow, seq>>
loginvars == <<users, idents, trials, login, app, seen, issued, logged, unbound, bound, loginNow, edits, started>>
sessvars == <<sessions, call, active, logouts, punished, sessNow>>
allvars == <<vars, syncvars, payvars, chanvars, loginvars, sessvars, part>>

CommerceInit ==
    /\ part \in {"corrections", "sync", "payments", "channel", "logins", "sessions"}
    /\ Init /\ (part = "corrections" \/ job = [r \in Requests |-> NoJob])
    /\ Pay!Init /\ (part = "payments" \/ case = CHOOSE c \in MCCases : c.does = {})
    /\ Chain!Init /\ (part = "sessions" \/ active = 0)
    /\ Sync!Init /\ Channel!Init /\ Logins!Init

CorrectionStep ==
    part = "corrections" /\ Next /\ UNCHANGED <<syncvars, payvars, chanvars, loginvars, sessvars, part>>
SyncStep ==
    part = "sync" /\ Sync!Next /\ UNCHANGED <<vars, payvars, chanvars, loginvars, sessvars, part>>
PaymentStep ==
    part = "payments" /\ Pay!Next /\ UNCHANGED <<vars, syncvars, chanvars, loginvars, sessvars, part>>
ChannelStep ==
    part = "channel" /\ Channel!Next /\ UNCHANGED <<vars, syncvars, payvars, loginvars, sessvars, part>>
LoginStep ==
    part = "logins" /\ Logins!Next /\ UNCHANGED <<vars, syncvars, payvars, chanvars, sessvars, part>>
SessionStep ==
    part = "sessions" /\ Chain!Next /\ UNCHANGED <<vars, syncvars, payvars, chanvars, loginvars, part>>

CommerceNext == CorrectionStep \/ SyncStep \/ PaymentStep \/ ChannelStep \/ LoginStep \/ SessionStep

CommerceSpec == CommerceInit /\ [][CommerceNext]_allvars
PaymentsSpec == CommerceInit /\ part = "payments" /\ [][CommerceNext]_allvars
ChannelSpec == CommerceInit /\ part = "channel" /\ [][CommerceNext]_allvars
-----------------------------------------------------------------------------
\* Once the outbox is empty the customer has exactly what the subscription gives, on
\* one row per source (EntitlementSync!SettledOnce).
SettledOnce == part = "sync" => Sync!SettledOnce

\* Orders, payments, refunds and wallet messages agree (Payments!MoneyAgrees).
MoneyAgrees == part = "payments" => Pay!MoneyAgrees

\* The local subscription follows the channel (ChannelSubscription!RowFollows).
RowFollows == Channel!RowFollows

\* One user per provider account, no more trials than accounts (Accounts!IdentityHolds).
IdentityHolds == part = "logins" => Logins!IdentityHolds

\* One live session per login, honest retries unpunished (Sessions!ChainHolds).
ChainHolds == part = "sessions" => Chain!ChainHolds

\* Access goes with a payment that was not given back (Payments!AccessIsPaid).
AccessIsPaid == part = "payments" => Pay!AccessIsPaid

\* A subscription shown as ending is not billed again (ChannelSubscription!BillingShown).
BillingShown == part = "channel" => Channel!BillingShown
=============================================================================
