------------------------------ MODULE Payments ------------------------------
(***************************************************************************)
(* Orders, payments, refunds and the subscription they pay for, as         *)
(* PaymentService keeps them (internal/service/payment.go) while payment   *)
(* channels report through webhooks that arrive late, twice and out of     *)
(* order (internal/handler/webhook.go).                                    *)
(*                                                                         *)
(* One user.  A worker is a request being served; it takes one step per    *)
(* transaction, or per statement where a later statement relies on an      *)
(* earlier, unlocked read.  PostgreSQL runs at READ COMMITTED: a worker at *)
(* "settle" holds its uncommitted payment row, and an insert of the same   *)
(* transaction or of a second paid row of the order waits for it.          *)
(* The channels are external: they take money once per transaction, never  *)
(* give back more than they took, and redeliver every notice they sent.    *)
(***************************************************************************)
EXTENDS PaymentRules, FiniteSetsExt

CONSTANTS
  Workers,     \* requests served at the same time
  Cases,       \* what the user and the channels may do; one is chosen at the start
  PlanOf(_),   \* plan -> its row: product, days, price, currency, active, accepting, grants
  UpgradeRule, \* pairs of coding plans with an upgrade rule
  Hold,        \* days an unpaid order stays open
  MaxNow,      \* bound on the clock
  MaxAborts    \* bound on requests that die or fail half way

VARIABLES
  case,      \* [asks: order -> [plan, ch], txns: txn -> ch,
             \*  refs: ref -> [txn, amt, api], does: what the channels may report]
  orders,    \* order -> row; status "none" before the insert
  payments,  \* txn -> [status, order, amt]; status "none" before the insert
  refunds,   \* ref -> [status, amt]
  subs,      \* product -> [status, plan, expires]
  outbox,    \* messages [kind, key, amt] for the entitlement and wallet workers
  recorded,  \* notices with a webhook_events row
  processed, \* ... and a processed_at
  sent,      \* notices the channels have sent, redelivered for ever
  taken,     \* txn -> what the channel did with it: [st, order, amt]
  given,     \* ref -> what the channel did with it
  worker,    \* worker -> the request it serves
  now, aborts

vars == <<case, orders, payments, refunds, subs, outbox, recorded, processed, sent,
          taken, given, worker, now, aborts>>
rowVars == <<orders, payments, refunds, subs, outbox>>
eventVars == <<recorded, processed>>
channelVars == <<sent, taken, given>>
restVars == <<case, now, aborts>>

Idle == [pc |-> "idle"]
NoOrder == [status |-> "none", plan |-> "", kind |-> "", from |-> "", expires |-> None,
            intent |-> FALSE]
Products == {"kaya", "coding-plan", "wallet-topup"}
Unpaid == {"pending", "expired", "cancelled"}

Init ==
  /\ case \in Cases
  /\ orders = [o \in DOMAIN case.asks |-> NoOrder]
  /\ payments = [t \in DOMAIN case.txns |-> [status |-> "none", order |-> "", amt |-> 0]]
  /\ refunds = [r \in DOMAIN case.refs |-> [status |-> "none", amt |-> 0]]
  /\ subs = [p \in Products |-> [status |-> "none", plan |-> "", expires |-> None]]
  /\ outbox = {} /\ recorded = {} /\ processed = {} /\ sent = {}
  /\ taken = [t \in DOMAIN case.txns |-> [st |-> "none", order |-> "", amt |-> 0]]
  /\ given = [r \in DOMAIN case.refs |-> "none"]
  /\ worker = [w \in Workers |-> Idle]
  /\ now = 0 /\ aborts = 0

PlanOfOrder(o) == PlanOf(orders[o].plan)
Product(o) == PlanOfOrder(o).product
RefsOf(t) == {r \in DOMAIN refunds : case.refs[r].txn = t}
RefundSum(t, statuses) ==
  MapThenSumSet(LAMBDA r : refunds[r].amt, {r \in RefsOf(t) : refunds[r].status \in statuses})
GivenBack(t, states) ==
  MapThenSumSet(LAMBDA r : case.refs[r].amt, {r \in RefsOf(t) : given[r] \in states})
SetWorker(w, rec) == worker' = [worker EXCEPT ![w] = rec]

\* INSERT ... ON CONFLICT (dedup_key) DO NOTHING: the first message of a key stays.
enqueue(kind, key, amt) ==
  IF \E m \in outbox : m.kind = kind /\ m.key = key THEN outbox
  ELSE outbox \union {[kind |-> kind, key |-> key, amt |-> amt]}

-----------------------------------------------------------------------------
(* Orders *)

\* FindPendingByUserAndProduct.
HasPending(product) ==
  \E o \in DOMAIN orders : /\ orders[o].status = "pending"
                           /\ orders[o].expires > now
                           /\ Product(o) = product

\* CreateOrder up to its transaction: every check reads outside it.  A check
\* that fails refuses the request and leaves nothing behind.
CreateOrder(w, o) ==
  LET ask == case.asks[o]
      p == PlanOf(ask.plan)
      sub == subs[p.product]
      live == liveAt(sub, now)
      coding == p.product = "coding-plan"
      same == sub.plan = ask.plan
  IN /\ worker[w] = Idle /\ orders[o].status = "none"
     /\ \A v \in Workers : worker[v].pc = "insert" => worker[v].order # o
     /\ live => ~channelAutoRenews(ask.ch)
     /\ live /\ coding /\ ~same => <<sub.plan, ask.plan>> \in UpgradeRule
     /\ live /\ ~coding => repurchaseAllowed(p.days, PlanOf(sub.plan).days)
     /\ channelAutoRenews(ask.ch) => ~HasPending(p.product)
     /\ SetWorker(w, [pc |-> "insert", order |-> o,
                      kind |-> IF ~coding THEN "" ELSE IF ~live THEN "new"
                               ELSE IF same THEN "renewal" ELSE "upgrade",
                      from |-> IF live /\ coding /\ ~same THEN sub.plan ELSE ""])
     /\ UNCHANGED <<rowVars, eventVars, channelVars, restVars>>

\* MUTANT: the re-check under the advisory lock is dropped.
HasNone(ask) == FALSE

\* Auto-renewing channels look for a pending order again, under the advisory
\* lock of (user, product).
PendingConflict(ask) == channelAutoRenews(ask.ch) /\ HasPending(PlanOf(ask.plan).product)

\* eligibilityAndInsertOrderTx: the plan row, held FOR SHARE, the re-check, the
\* insert.
eligibilityAndInsertOrderTx(w) ==
  LET o == worker[w].order
      ask == case.asks[o]
      refused == ~purchasable(PlanOf(ask.plan), ask.ch) \/ PendingConflict(ask)
  IN /\ worker[w].pc = "insert"
     /\ orders' = IF refused THEN orders ELSE [orders EXCEPT ![o] =
             [status |-> "pending", plan |-> ask.plan, kind |-> worker[w].kind,
              from |-> worker[w].from, expires |-> now + Hold, intent |-> FALSE]]
     /\ SetWorker(w, IF ~refused /\ ask.ch \in {"wechat_pay", "paddle"}
                     THEN [pc |-> "preauth", order |-> o] ELSE Idle)
     /\ UNCHANGED <<payments, refunds, subs, outbox, eventVars, channelVars, restVars>>

\* The conditional updates of the order row: each acts on a pending order only.
UpdateProviderIntent(o) == IF orders[o].status # "pending" THEN orders ELSE [orders EXCEPT ![o].intent = TRUE]
FailPending(o) == IF orders[o].status # "pending" THEN orders ELSE [orders EXCEPT ![o].status = "failed"]
CancelPending(o) == IF orders[o].status # "pending" THEN orders ELSE [orders EXCEPT ![o].status = "cancelled"]

\* The channel's pre-authorisation after the insert: the intent is stored while
\* the order is still pending, and any failure fails the pending order.
preAuthorise(w) ==
  LET o == worker[w].order
  IN /\ worker[w].pc = "preauth"
     /\ \E ok \in BOOLEAN : orders' = IF ok THEN UpdateProviderIntent(o) ELSE FailPending(o)
     /\ SetWorker(w, Idle)
     /\ UNCHANGED <<payments, refunds, subs, outbox, eventVars, channelVars, restVars>>

CancelOrder(o) ==
  /\ orders' = CancelPending(o)
  /\ UNCHANGED <<payments, refunds, subs, outbox, eventVars, channelVars, worker, restVars>>

SweepExpired ==
  LET due == {o \in DOMAIN orders : orders[o].status = "pending" /\ orders[o].expires < now}
  IN /\ due # {}
     /\ orders' = [o \in DOMAIN orders |-> IF o \in due THEN [orders[o] EXCEPT !.status = "expired"]
                                           ELSE orders[o]]
     /\ UNCHANGED <<payments, refunds, subs, outbox, eventVars, channelVars, worker, restVars>>

-----------------------------------------------------------------------------
(* The channels (external) *)

Notice(kind, t, o, amt, refund, ref) ==
  LET ch == case.txns[t]
  IN [ch |-> ch, id |-> kind, txn |-> t, order |-> o, amt |-> amt, refund |-> refund, ref |-> ref,
      origin |-> IF kind = "refund" THEN "refund" ELSE "web",
      status |-> IF ch # "alipay" THEN ""
                 ELSE IF kind = "paid" \/ (kind = "refund" /\ refund < taken[t].amt)
                      THEN "TRADE_SUCCESS" ELSE "TRADE_CLOSED",
      type |-> CASE ch = "alipay" -> "trade_status_sync"
                 [] ch = "wechat_pay" /\ kind = "paid" -> "TRANSACTION.SUCCESS"
                 [] ch = "wechat_pay" /\ kind = "failed" -> "TRANSACTION.REVOKED"
                 [] ch = "wechat_pay" /\ kind = "refund" -> "REFUND.SUCCESS"
                 [] ch = "wechat_pay" /\ kind = "denied" -> "REFUND.ABNORMAL"
                 [] ch = "paypal" /\ kind = "paid" -> "PAYMENT.CAPTURE.COMPLETED"
                 [] ch = "paypal" /\ kind = "failed" -> "PAYMENT.CAPTURE.DENIED"
                 [] ch = "paypal" /\ kind = "refund" -> "PAYMENT.CAPTURE.REFUNDED"
                 [] ch = "paddle" /\ kind = "paid" -> "transaction.completed"
                 [] ch = "paddle" /\ kind = "refund" -> "adjustment.updated"
                 [] OTHER -> "other"]

\* The user pays, in full or short; WeChat and Paddle need the stored intent.
Pay(t, o) ==
  LET price == PlanOf(case.asks[o].plan).price
  IN /\ taken[t].st = "none" /\ orders[o].status # "none"
     /\ case.txns[t] \in {"wechat_pay", "paddle"} => orders[o].intent
     /\ \E amt \in {price} \union {a \in {price - 1} : "short" \in case.does} :
          /\ taken' = [taken EXCEPT ![t] = [st |-> "paid", order |-> o, amt |-> amt]]
          /\ sent' = sent \union {Notice("paid", t, o, amt, 0, NoRef)}
     /\ UNCHANGED <<rowVars, eventVars, given, worker, restVars>>

\* An attempt is declined, an Alipay trade is closed unpaid, or a settled
\* payment is reversed.
Decline(t, o) ==
  /\ \/ "decline" \in case.does /\ taken[t].st = "none" /\ orders[o].status # "none"
     \/ "reverse" \in case.does /\ taken[t].st = "paid" /\ taken[t].order = o
  /\ taken' = [taken EXCEPT ![t].st = "failed"]
  /\ sent' = sent \union {Notice("failed", t, o, PlanOf(case.asks[o].plan).price, 0, NoRef)}
  /\ UNCHANGED <<rowVars, eventVars, given, worker, restVars>>

\* A refund is executed: one asked for through the API, or one made in the
\* channel's console.  Alipay reports the total given back so far.
GiveBack(r) ==
  LET t == case.refs[r].txn
      amt == case.refs[r].amt
  IN /\ taken[t].st = "paid"
     /\ \/ given[r] = "asked"
        \/ /\ given[r] = "none" /\ ~case.refs[r].api
           /\ GivenBack(t, {"asked", "done"}) + amt <= taken[t].amt
     /\ given' = [given EXCEPT ![r] = "done"]
     /\ sent' = sent \union {Notice("refund", t, taken[t].order, taken[t].amt,
                  IF case.txns[t] = "alipay" THEN GivenBack(t, {"done"}) + amt ELSE amt, <<r>>)}
     /\ UNCHANGED <<rowVars, eventVars, taken, worker, restVars>>

Deny(r) ==
  /\ given[r] = "asked" /\ case.txns[case.refs[r].txn] = "wechat_pay"
  /\ given' = [given EXCEPT ![r] = "denied"]
  /\ sent' = sent \union {Notice("denied", case.refs[r].txn, taken[case.refs[r].txn].order,
                                 0, 0, <<r>>)}
  /\ UNCHANGED <<rowVars, eventVars, taken, worker, restVars>>

Tick ==
  /\ now < MaxNow /\ now' = now + 1
  /\ UNCHANGED <<case, rowVars, eventVars, channelVars, worker, aborts>>

-----------------------------------------------------------------------------
(* Webhooks *)

\* OnWebhook: the event row is written first, in a transaction of its own; a
\* redelivery of an event without processed_at runs the handler again.
OnWebhook(w, n) ==
  /\ worker[w] = Idle /\ n \notin processed
  /\ recorded' = recorded \union {n}
  /\ SetWorker(w, [pc |-> "run", from |-> n, ev |-> parseEvent(n)])
  /\ UNCHANGED <<rowVars, processed, channelVars, restVars>>

Deliver(w, n) == n \in sent /\ OnWebhook(w, n)

\* GetOrder asks WeChat about an order with an intent that is not settled, and feeds a
\* success the database has not seen through OnWebhook under an event id of its own.
shouldReconcile(o) == orders[o].status \in {"pending", "expired"} /\ orders[o].intent
reconcilePreCheck(t) == payments[t].status = "paid"
buildReconcileWebhookEvent(t) ==
  [Notice("paid", t, taken[t].order, taken[t].amt, 0, NoRef) EXCEPT !.id = "reconcile"]
reconcileFromChannel(w, t) ==
  /\ case.txns[t] = "wechat_pay" /\ taken[t].st = "paid"
  /\ ~reconcilePreCheck(t)
  /\ OnWebhook(w, buildReconcileWebhookEvent(t))
GetOrder(w, t) == taken[t].st = "paid" /\ shouldReconcile(taken[t].order) /\ reconcileFromChannel(w, t)

\* The event is done with: processed_at is written outside the handler's
\* transaction.  An error instead leaves it NULL, and the channel retries.
ToMark(w) == SetWorker(w, [pc |-> "mark", from |-> worker[w].from])
MarkProcessed(w) ==
  /\ worker[w].pc = "mark"
  /\ processed' = processed \union {worker[w].from}
  /\ SetWorker(w, Idle)
  /\ UNCHANGED <<rowVars, recorded, channelVars, restVars>>

Running(w, branch) == worker[w].pc = "run" /\ resolveBranch(worker[w].ev) = branch
ToPay(w, t, o, amt, from) ==
  SetWorker(w, [pc |-> "pay", txn |-> t, order |-> o, amt |-> amt, from |-> from])

\* onPaymentSucceeded, its unlocked checks: the order, another paid payment of
\* it, the amount.  What fails them is audited and acknowledged.
onPaymentSucceeded(w) ==
  LET e == worker[w].ev
      other == \E t \in DOMAIN payments \ {e.txn} :
                  payments[t].status = "paid" /\ payments[t].order = e.order
      short == e.amt < PlanOfOrder(e.order).price
  IN /\ Running(w, "paid")
     /\ IF other \/ short THEN ToMark(w) ELSE ToPay(w, e.txn, e.order, e.amt, worker[w].from)
     /\ UNCHANGED <<rowVars, eventVars, channelVars, restVars>>

\* WeChat, the only channel that can be asked, knows the transaction as a success
\* of this order for at least its amount.
verifyConfirmPayment(t, o) ==
  /\ case.txns[t] = "wechat_pay"
  /\ taken[t].st = "paid" /\ taken[t].order = o /\ taken[t].amt >= PlanOfOrder(o).price

\* Confirm, before its transaction: the order is read and WeChat is asked.
Confirm(w, t) ==
  LET o == taken[t].order
  IN /\ worker[w] = Idle
     /\ taken[t].st = "paid" /\ orders[o].status \notin {"failed", "refunded"}
     /\ verifyConfirmPayment(t, o)
     /\ ToPay(w, t, o, taken[t].amt, [id |-> "confirm"])
     /\ UNCHANGED <<rowVars, eventVars, channelVars, restVars>>

\* A payment row inserted and not yet committed, and a paid one that Confirm
\* read FOR UPDATE.
Claims(v, t, o) == worker[v].pc = "settle" /\ worker[v].new
                     /\ (worker[v].txn = t \/ worker[v].order = o)
Locked(w, t) == \E v \in Workers \ {w} : worker[v].pc = "settle" /\ t \in worker[v].locks

\* MUTANT: a payment recorded before is settled whatever became of it.
RefusesRetryNever(t, o, confirm) == FALSE

\* A payment recorded before is not settled again once it has failed; the
\* webhook also refuses one that was refunded or belongs to another order.
RefusesRetry(t, o, confirm) ==
  payments[t].status # "none" /\
    IF confirm THEN payments[t].status = "failed"
    ELSE payments[t].status # "paid" \/ payments[t].order # o

\* The expiry the order earns from the subscription row as it reads now.
resolveOrderActivation(o, preserved) ==
  LET sub == subs[Product(o)]
      plan == PlanOfOrder(o)
      subDays == IF sub.plan = "" THEN 0 ELSE PlanOf(sub.plan).days
  IN IF orders[o].kind = "" THEN resolveSubExpiry(plan.days, sub, subDays, None, preserved, now)
     ELSE IF preserved # None THEN preserved
     ELSE ResolveCodingPlanActivation(orders[o].kind, plan.days, orders[o].from, orders[o].plan,
                                      sub, None, now)

\* The payments that settle order o, and what a transaction that records t for it
\* carries on with.  The payment was recorded before: the expiry its activation set is
\* kept, unless the user has since moved to another plan.
PaidFor(o) == {u \in DOMAIN payments : payments[u].status = "paid" /\ payments[u].order = o}
ToSettle(w, locks) ==
  LET o == worker[w].order
      new == payments[worker[w].txn].status = "none"
      sub == subs[Product(o)]
      keep == ~new /\ liveAt(sub, now) /\ sub.expires # Never
      expires == IF keep /\ sub.plan # orders[o].plan THEN Blocked
                 ELSE resolveOrderActivation(o, IF keep THEN sub.expires ELSE None)
  IN SetWorker(w, [pc |-> "settle", txn |-> worker[w].txn, order |-> o, amt |-> worker[w].amt,
                   from |-> worker[w].from, new |-> new, expires |-> expires, locks |-> locks])

\* The webhook's INSERT INTO payments ... ON CONFLICT DO NOTHING and the reads behind
\* it; a second paid row of the order violates a unique index, and the request fails.
insertPayment(w) ==
  LET t == worker[w].txn
      o == worker[w].order
  IN /\ worker[w].pc = "pay" /\ worker[w].from.id # "confirm"
     /\ \A v \in Workers \ {w} : ~Claims(v, t, o)
     /\ IF payments[t].status = "none" /\ PaidFor(o) # {} THEN SetWorker(w, Idle)
        ELSE IF RefusesRetry(t, o, FALSE) THEN ToMark(w)
        ELSE ToSettle(w, {})
     /\ UNCHANGED <<rowVars, eventVars, channelVars, restVars>>

\* Confirm's insert: it first locks the order's paid payment and refuses another
\* channel's.
confirmInsert(w) ==
  LET t == worker[w].txn
      o == worker[w].order
      paid == PaidFor(o)
  IN /\ worker[w].pc = "pay" /\ worker[w].from.id = "confirm"
     /\ \A v \in Workers \ {w} : ~Claims(v, t, o)
     /\ \A u \in paid : ~Locked(w, u)
     /\ IF \/ \E u \in paid : case.txns[u] # case.txns[t]
           \/ payments[t].status = "none" /\ paid # {}
           \/ RefusesRetry(t, o, TRUE)
        THEN SetWorker(w, Idle)
        ELSE ToSettle(w, paid)
     /\ UNCHANGED <<rowVars, eventVars, channelVars, restVars>>

\* activateSubscriptionOnTx: the product's row is overwritten, or made.
activateSubscription(o, expires) ==
  [subs EXCEPT ![Product(o)] = [status |-> "active", plan |-> orders[o].plan,
                                expires |-> expires]]

\* The rows both transactions write: the payment, the top-up or the activation with
\* its message, and the order, which a payment wins back from expiry or cancellation.
SettleRows(w) ==
  LET t == worker[w].txn
      o == worker[w].order
      topup == Product(o) = "wallet-topup"
      activates == ~topup /\ worker[w].expires # Blocked
  IN /\ payments' = IF ~worker[w].new THEN payments
                    ELSE [payments EXCEPT ![t] = [status |-> "paid", order |-> o,
                                                  amt |-> worker[w].amt]]
     /\ subs' = IF activates THEN activateSubscription(o, worker[w].expires) ELSE subs
     /\ outbox' = IF topup THEN enqueue("wallet:paid", t, PlanOfOrder(o).price)
                  ELSE IF activates THEN enqueue("benefit:paid", t, 0) ELSE outbox
     /\ orders' = IF orders[o].status \notin Unpaid THEN orders
                  ELSE [orders EXCEPT ![o].status = "paid"]
     /\ UNCHANGED <<refunds, eventVars, channelVars, restVars>>

\* The webhook's transaction commits; the event is still to be marked.
settle(w) ==
  /\ worker[w].pc = "settle" /\ worker[w].from.id # "confirm"
  /\ SettleRows(w) /\ ToMark(w)

\* Confirm's transaction commits.
confirmSettle(w) ==
  /\ worker[w].pc = "settle" /\ worker[w].from.id = "confirm"
  /\ SettleRows(w) /\ SetWorker(w, Idle)

\* UPDATE subscriptions SET status = 'cancelled' WHERE plan_id = the order's.
cancelSub(o) ==
  LET p == Product(o)
  IN IF subs[p].status = "active" /\ subs[p].plan = orders[o].plan
     THEN [subs EXCEPT ![p].status = "cancelled"] ELSE subs

\* MUTANT: the failure of a settled payment leaves its order paid.
FlipsUnpaidOnly(old) == Unpaid

\* The order statuses a failure may overwrite.
Flips(old) == IF old = "paid" THEN Unpaid \union {"paid"} ELSE Unpaid

\* The status of the payment a failure is about: the row found, or one inserted as
\* pending, unless another payment has already paid the order.
findOrInsertPendingOnTx(t, o) ==
  IF payments[t].status # "none" THEN payments[t].status
  ELSE IF orders[o].status = "paid" THEN "none" ELSE "pending"

\* onPaymentFailed.  A failure of a payment nobody recorded fails an unpaid
\* order; the failure of a settled one takes back what it bought.
onPaymentFailed(w) ==
  LET e == worker[w].ev
      t == e.txn
      old == payments[t].status
      o == IF old = "none" THEN e.order ELSE payments[t].order
      acts == findOrInsertPendingOnTx(t, o) \in {"pending", "paid"}
      topup == Product(o) = "wallet-topup"
      debit == PlanOfOrder(o).price - RefundSum(t, {"paid"})
  IN /\ Running(w, "failed")
     /\ ~Locked(w, t)
     /\ \A v \in Workers \ {w} : worker[v].pc = "settle" /\ worker[v].new => worker[v].txn # t
     /\ payments' = IF ~acts THEN payments
                    ELSE [payments EXCEPT ![t] = [status |-> "failed", order |-> o, amt |-> e.amt]]
     /\ orders' = IF ~acts \/ orders[o].status \notin Flips(old) THEN orders
                  ELSE [orders EXCEPT ![o].status = "failed"]
     /\ subs' = IF acts /\ old = "paid" THEN cancelSub(o) ELSE subs
     /\ outbox' = IF ~acts \/ old # "paid" THEN outbox
                  ELSE IF ~topup THEN enqueue("benefit:failed", t, 0)
                  ELSE IF debit > 0 THEN enqueue("wallet:failed", t, debit) ELSE outbox
     /\ ToMark(w)
     /\ UNCHANGED <<refunds, eventVars, channelVars, restVars>>

-----------------------------------------------------------------------------
(* Refunds *)

\* MUTANT: the running total of an Alipay notice is booked as this refund.
ThisRefundGross(e, prior) == e.refund

\* Alipay reports the total given back; the part not yet booked is this refund's.
ThisRefund(e, prior) == IF e.ch = "alipay" THEN e.refund - prior ELSE e.refund

\* MUTANT: a refund of a payment already reversed still debits the wallet.
DebitsWalletAlways(t) == TRUE

DebitsWallet(t) == payments[t].status = "paid"

\* The refund row: inserted as pending or found by its number, then marked paid.
markRefundPaid(r, delta) ==
  [refunds EXCEPT ![r] = [status |-> IF @.status \in {"none", "pending"} THEN "paid" ELSE @.status,
                          amt |-> IF @.status = "none" THEN delta ELSE @.amt]]

\* A full refund takes back the payment, the order and the subscription it bought.
takeBack(t, o) ==
  /\ payments' = IF payments[t].status # "paid" THEN payments
                 ELSE [payments EXCEPT ![t].status = "refunded"]
  /\ orders' = IF orders[o].status # "paid" THEN orders
               ELSE [orders EXCEPT ![o].status = "refunded"]
  /\ subs' = IF Product(o) = "wallet-topup" THEN subs ELSE cancelSub(o)

\* onRefundSucceeded: find or insert the refund row, mark it paid, and take a
\* full refund back from the payment, the order and what it bought.
onRefundSucceeded(w) ==
  LET e == worker[w].ev
      t == e.txn
      r == e.ref[1]
      o == payments[t].order
      delta == ThisRefund(e, RefundSum(t, {"paid", "pending"}))
      skip == e.ch = "alipay" /\ delta <= 0
      row == ~skip \/ refunds[r].status # "none"
      full == e.refund >= payments[t].amt
      topup == Product(o) = "wallet-topup"
      amount == IF skip THEN refunds[r].amt ELSE delta
  IN /\ Running(w, "refund") /\ payments[t].status # "none" /\ ~Locked(w, t)
     /\ refunds' = IF row THEN markRefundPaid(r, delta) ELSE refunds
     /\ IF full THEN takeBack(t, o) ELSE UNCHANGED <<payments, orders, subs>>
     /\ outbox' = IF topup /\ row /\ DebitsWallet(t) THEN enqueue("wallet:refund", r, amount)
                  ELSE IF full /\ ~topup THEN enqueue("benefit:refund", IF row THEN r ELSE "", 0)
                  ELSE outbox
     /\ ToMark(w)
     /\ UNCHANGED <<eventVars, channelVars, restVars>>

\* A refund of a payment nobody recorded: the close of an unpaid Alipay trade
\* is acknowledged, anything else is answered with an error until it is.
onRefundUnknown(w) ==
  LET e == worker[w].ev
  IN /\ Running(w, "refund") /\ payments[e.txn].status = "none"
     /\ IF /\ e.type = "trade_closed" /\ e.refund <= 0
           /\ orders[e.order].status \in Unpaid \union {"failed"}
        THEN ToMark(w) ELSE SetWorker(w, Idle)
     /\ UNCHANGED <<rowVars, eventVars, channelVars, restVars>>

\* onRefundFailed: the pending row fails; without a row the channel must retry.
onRefundFailed(w) ==
  LET e == worker[w].ev
      r == e.ref[1]
  IN /\ Running(w, "refund_failed") /\ ~Locked(w, e.txn)
     /\ refunds' = IF refunds[r].status = "pending" /\ payments[e.txn].status # "none"
                   THEN [refunds EXCEPT ![r].status = "failed"] ELSE refunds
     /\ IF payments[e.txn].status = "none" \/ refunds[r].status = "none"
        THEN SetWorker(w, Idle) ELSE ToMark(w)
     /\ UNCHANGED <<orders, payments, subs, outbox, eventVars, channelVars, restVars>>

\* Refund: the payment is read, and must be paid, before its row is locked.
Refund(w, r) ==
  LET t == case.refs[r].txn
  IN /\ worker[w] = Idle
     /\ case.refs[r].api /\ refunds[r].status = "none"
     /\ payments[t].status = "paid" /\ case.refs[r].amt <= payments[t].amt
     /\ SetWorker(w, [pc |-> "refund", ref |-> r])
     /\ UNCHANGED <<rowVars, eventVars, channelVars, restVars>>

\* MUTANT: refunds still pending are not counted against the payment.
BookedOfPaid(t) == RefundSum(t, {"paid"})

Booked(t) == RefundSum(t, {"paid", "pending"})

\* Under the lock: the sum, the channel's refund call under the merchant number
\* derived from the key, and the pending row.  The call cannot be taken back,
\* so a request that dies before its commit leaves a refund without a row.
lockedRefund(w) ==
  LET r == worker[w].ref
      t == case.refs[r].txn
      amt == case.refs[r].amt
      fits == Booked(t) + amt <= payments[t].amt
      accepts == \/ given[r] \in {"asked", "done"}
                 \/ /\ given[r] = "none" /\ taken[t].st = "paid"
                    /\ GivenBack(t, {"asked", "done"}) + amt <= taken[t].amt
  IN /\ worker[w].pc = "refund" /\ ~Locked(w, t)
     /\ given' = IF fits /\ accepts /\ given[r] = "none"
                 THEN [given EXCEPT ![r] = "asked"] ELSE given
     /\ \E dies \in BOOLEAN :
          /\ dies => fits /\ accepts /\ aborts < MaxAborts
          /\ aborts' = IF dies THEN aborts + 1 ELSE aborts
          /\ refunds' = IF ~fits \/ ~accepts \/ dies \/ refunds[r].status # "none" THEN refunds
                        ELSE [refunds EXCEPT ![r] = [status |-> "pending", amt |-> amt]]
     /\ SetWorker(w, Idle)
     /\ UNCHANGED <<orders, payments, subs, outbox, eventVars, sent, taken, case, now>>

\* A request dies, or a statement fails, and its transaction rolls back.
Abort(w) ==
  /\ aborts < MaxAborts /\ worker[w].pc \in {"insert", "preauth", "run", "pay", "settle", "mark"}
  /\ aborts' = aborts + 1
  /\ SetWorker(w, Idle)
  /\ UNCHANGED <<case, rowVars, eventVars, channelVars, now>>

-----------------------------------------------------------------------------
Serve(w) ==
  \/ eligibilityAndInsertOrderTx(w) \/ preAuthorise(w)
  \/ onPaymentSucceeded(w) \/ insertPayment(w) \/ settle(w)
  \/ confirmInsert(w) \/ confirmSettle(w)
  \/ onPaymentFailed(w) \/ onRefundSucceeded(w) \/ onRefundUnknown(w) \/ onRefundFailed(w)
  \/ lockedRefund(w) \/ MarkProcessed(w)

Next ==
  \/ \E w \in Workers :
       \/ Serve(w) \/ Abort(w)
       \/ \E o \in DOMAIN orders : CreateOrder(w, o)
       \/ \E n \in sent : Deliver(w, n)
       \/ \E t \in DOMAIN taken : GetOrder(w, t) \/ Confirm(w, t)
       \/ \E r \in DOMAIN refunds : Refund(w, r)
  \/ \E o \in DOMAIN orders : CancelOrder(o)
  \/ \E t \in DOMAIN taken, o \in DOMAIN orders : Pay(t, o) \/ Decline(t, o)
  \/ \E r \in DOMAIN refunds : GiveBack(r) \/ Deny(r)
  \/ SweepExpired \/ Tick

Spec == Init /\ [][Next]_vars

-----------------------------------------------------------------------------
\* An order marked paid is backed by a payment that still stands, whatever the
\* order in which its success, failure and refund events were applied.
PaidOrderHasPayment ==
  \A o \in DOMAIN orders : orders[o].status = "paid" =>
    \E t \in DOMAIN payments : payments[t].status = "paid" /\ payments[t].order = o

\* The refunds booked as paid for a payment never exceed what its channel gave
\* back, although Alipay reports running totals, in any order, and the API's
\* own rows are counted before the channel has executed them.
RefundsCovered ==
  \A t \in DOMAIN payments : RefundSum(t, {"paid"}) <= GivenBack(t, {"done"})

\* A top-up is never taken back from the wallet more than once: what refunds
\* and a reversal debit never exceeds what the payment credited.
WalletDebitCovered ==
  \A t \in DOMAIN payments :
    MapThenSumSet(LAMBDA m : m.amt,
      {m \in outbox : \/ m.kind = "wallet:failed" /\ m.key = t
                      \/ m.kind = "wallet:refund" /\ m.key \in RefsOf(t)})
      <= MapThenSumSet(LAMBDA m : m.amt, {m \in outbox : m.kind = "wallet:paid" /\ m.key = t})

\* The user has at most one open unpaid order per product through channels that
\* renew by themselves, however the requests that create them interleave.
OneAutoRenewOrder ==
  \A o, q \in DOMAIN orders :
    /\ o # q
    /\ \A x \in {o, q} : /\ orders[x].status = "pending" /\ orders[x].expires > now
                         /\ channelAutoRenews(case.asks[x].ch)
    => Product(o) # Product(q)

\* Orders, payments, refunds and wallet messages agree under every order of success,
\* failure, refund and reversal events, and auto-renewing checkouts stay unique.
MoneyAgrees == PaidOrderHasPayment /\ RefundsCovered /\ WalletDebitCovered /\ OneAutoRenewOrder

\* A subscription that gives access was paid for by a payment that stands: one
\* that failed or was refunded is never activated again.
AccessIsPaid ==
  \A p \in Products : subs[p].status = "active" =>
    \E t \in DOMAIN payments : payments[t].status = "paid" /\ Product(payments[t].order) = p
=============================================================================
