---------------------------- MODULE PaymentRules ----------------------------
(***************************************************************************)
(* The rules of the payment service that touch no row: how a channel's     *)
(* notice is parsed and routed, which expiry a settled order earns, and    *)
(* when a plan may be bought again (internal/service/payment.go,           *)
(* internal/handler/webhook.go, internal/inference/access).                *)
(*                                                                         *)
(* Times are day numbers.  None is an absent time, Never the NULL          *)
(* expires_at of a lifetime subscription, and Blocked the refusal of an    *)
(* activation; a notice is the raw record a channel posts.                 *)
(***************************************************************************)
EXTENDS Integers, FiniteSets

None == -1
Never == 1000
Blocked == -2
NoRef == <<>>

LaterOf(a, b) == IF a > b THEN a ELSE b

\* Channels that renew a subscription by themselves.
channelAutoRenews(ch) == ch \in {"paypal", "paddle"}

-----------------------------------------------------------------------------
\* Parsing: what each channel's parser keeps of a notice n.  The merchant's refund
\* number identifies a refund; without it the notice's own id does.
refundRef(n) == IF n.ref = NoRef THEN <<"event", n.id>> ELSE n.ref

\* Stripe events carry no refund fields.
parseStripe(n) == [n EXCEPT !.refund = 0, !.ref = NoRef]

isWeChatRefundEvent(type) ==
  type \in {"REFUND.SUCCESS", "TRANSACTION.REFUND", "REFUND.ABNORMAL", "REFUND.CLOSED"}
parseWeChat(n) ==
  [n EXCEPT !.ref = IF isWeChatRefundEvent(n.type) THEN refundRef(n) ELSE NoRef]

\* Alipay reports the state of a trade, and refunds inside it.
alipayEventType(n) ==
  CASE n.status = "" -> n.type
    [] n.status = "TRADE_CLOSED" -> "trade_closed"
    [] n.status \in {"TRADE_SUCCESS", "TRADE_FINISHED"} ->
         IF n.refund > 0 THEN "trade_refund" ELSE "TRADE_SUCCESS"
    [] OTHER -> "trade_pending"
parseAlipay(n) ==
  LET type == alipayEventType(n)
  IN [n EXCEPT !.type = type,
               !.ref = IF type \in {"trade_closed", "trade_refund"} THEN refundRef(n) ELSE NoRef]

\* A PayPal refund's resource is the refund: its amount is the refunded amount.
parsePaypal(n) ==
  LET refund == n.type \in {"PAYMENT.CAPTURE.REFUNDED", "PAYMENT.SALE.REFUNDED"}
  IN [n EXCEPT !.amt = IF refund THEN n.refund ELSE n.amt,
               !.ref = IF refund THEN refundRef(n) ELSE NoRef]

\* A Paddle adjustment is a refund only when it is an approved refund.
parsePaddle(n) ==
  LET refund == n.type = "adjustment.updated" /\ n.origin = "refund"
  IN [n EXCEPT !.refund = IF refund THEN n.refund ELSE 0,
               !.ref = IF refund THEN refundRef(n) ELSE NoRef]

\* What OnWebhook is given.
parseEvent(n) ==
  CASE n.ch = "stripe" -> parseStripe(n)
    [] n.ch = "wechat_pay" -> parseWeChat(n)
    [] n.ch = "alipay" -> parseAlipay(n)
    [] n.ch = "paypal" -> parsePaypal(n)
    [] n.ch = "paddle" -> parsePaddle(n)

\* The branch an event takes; types outside the table are acknowledged only.
channelWebhookBranches(ch, type) ==
  CASE <<ch, type>> \in {<<"stripe", "payment_intent.succeeded">>,
         <<"wechat_pay", "TRANSACTION.SUCCESS">>, <<"alipay", "TRADE_SUCCESS">>,
         <<"alipay", "trade_status_sync">>, <<"paddle", "transaction.completed">>,
         <<"paypal", "PAYMENT.CAPTURE.COMPLETED">>} -> "paid"
    [] <<ch, type>> \in {<<"stripe", "payment_intent.payment_failed">>,
         <<"stripe", "payment_intent.canceled">>, <<"wechat_pay", "TRANSACTION.PAY_FAILED">>,
         <<"wechat_pay", "TRANSACTION.REVOKED">>, <<"paypal", "PAYMENT.CAPTURE.DENIED">>,
         <<"paypal", "PAYMENT.CAPTURE.FAILED">>} -> "failed"
    [] <<ch, type>> \in {<<"stripe", "charge.refunded">>, <<"wechat_pay", "TRANSACTION.REFUND">>,
         <<"wechat_pay", "REFUND.SUCCESS">>, <<"alipay", "TRADE_CLOSED">>,
         <<"alipay", "trade_closed">>, <<"alipay", "trade_refund">>,
         <<"paypal", "PAYMENT.CAPTURE.REFUNDED">>, <<"paypal", "PAYMENT.SALE.REFUNDED">>,
         <<"paddle", "adjustment.updated">>} -> "refund"
    [] <<ch, type>> \in {<<"wechat_pay", "REFUND.ABNORMAL">>,
         <<"wechat_pay", "REFUND.CLOSED">>} -> "refund_failed"
    [] <<ch, type>> = <<"stripe", "charge.dispute.created">> -> "dispute"
    [] <<ch, type>> = <<"paypal", "PAYMENT.SALE.COMPLETED">> -> "renewal"
    [] <<ch, type>> = <<"paddle", "subscription.canceled">> -> "sub_cancelled"
    [] <<ch, type>> = <<"paddle", "subscription.updated">> -> "sub_updated"
    [] OTHER -> "none"

\* Paddle reuses one type for first payments and renewals, and one for
\* refunds and chargebacks.
resolveBranch(e) ==
  CASE e.ch = "paddle" /\ e.type = "transaction.completed" /\ e.origin = "recurring" -> "renewal"
    [] e.ch = "paddle" /\ e.type = "transaction.completed" /\ e.origin # "recurring"
         /\ e.order = "" -> "none"
    [] e.ch = "paddle" /\ e.type = "adjustment.updated" /\ e.ref = NoRef -> "none"
    [] OTHER -> channelWebhookBranches(e.ch, e.type)

-----------------------------------------------------------------------------
\* A subscription row that still gives access.
liveAt(sub, now) == sub.status = "active" /\ sub.expires > now

\* resolveSubExpiry: the expiry a legacy plan's payment leaves behind.  A
\* payment seen before keeps the expiry it finds; a live row is rolled over,
\* never to a plan of a shorter interval.
resolveSubExpiry(days, sub, subDays, hint, preserved, now) ==
  LET live == liveAt(sub, now)
      clamped == IF days > 0 /\ hint > now + days THEN now + days ELSE hint
      rolled == IF live /\ days > 0 THEN LaterOf(clamped, sub.expires + days) ELSE clamped
  IN IF preserved # None THEN preserved
     ELSE IF live /\ subDays > days THEN Blocked
     ELSE IF live /\ sub.expires = Never THEN Never
     ELSE IF rolled # None THEN rolled
     ELSE IF days <= 0 THEN Never ELSE now + days

rollFrom(expires, days) == IF expires = Never \/ days <= 0 THEN Never ELSE expires + days

\* ResolveCodingPlanActivation: the same question for a coding plan, by the
\* kind frozen into the order.
ResolveCodingPlanActivation(kind, days, from, plan, sub, hint, now) ==
  LET live == liveAt(sub, now)
      fresh == IF days <= 0 THEN Never ELSE now + days
      base == IF ~live \/ (kind = "upgrade" /\ sub.plan = from) THEN fresh
              ELSE IF sub.plan = plan THEN rollFrom(sub.expires, days) ELSE Blocked
      clamped == IF hint < now THEN now
                 ELSE IF days > 0 /\ hint > now + days THEN now + days ELSE hint
  IN IF base \in {Blocked, Never} \/ hint = None THEN base ELSE LaterOf(base, clamped)

\* What a plan's row must say for an order of it to be inserted: on sale, in the
\* channel's currency, and with benefits granted the way its product grants them.
channelRequiredCurrency(ch) == 
  CASE ch = "wechat_pay" -> "CNY" [] ch \in {"paypal", "paddle"} -> "USD" [] OTHER -> ""
purchasable(p, ch) ==
  /\ p.active /\ p.accepting
  /\ channelRequiredCurrency(ch) \in {"", p.currency}
  /\ p.product = "coding-plan" => p.grants = "subscription"
  /\ p.product \notin {"coding-plan", "wallet-topup"} => p.grants \in {"", "gift"}

\* A legacy plan may be bought again at the same or a longer interval.
repurchaseAllowed(days, subDays) == days >= subDays
=============================================================================
