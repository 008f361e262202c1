------------------------ MODULE ChannelSubscription ------------------------
(***************************************************************************)
(* One auto-renewing subscription, held twice: the local subscriptions row  *)
(* and the payment channel's (Paddle's) own subscription, which does the    *)
(* billing.  Users cancel and change plan through four endpoints that check *)
(* the row unlocked, lock it, call the channel and then write the row; the  *)
(* channel renews, ends and reports by webhooks that may be late, repeated  *)
(* and out of order.                                                        *)
(*   internal/service/subscription_selfservice.go, paddle_subscription.go,  *)
(*   subscription.go, payment.go (onRenewalSucceeded)                       *)
(*   internal/handler/payment.go, webhook.go (parsePaddle)                  *)
(***************************************************************************)
EXTENDS Integers, FiniteSets

CONSTANTS
  Calls,        \* concurrent user requests
  Plans,        \* plan ids; all of one product
  Interval(_),  \* billing interval of a plan
  Prices(_),    \* PADDLE_PRICES: the price ids configured for a plan (a set of one)
  First,        \* the plan the subscription was bought on
  MaxNow,       \* bound on billing time
  MaxSeq        \* bound on the clock when the channel changes or sends an event again

VARIABLES
  sub,      \* local row: status, plan, expires, auto (auto_renew), updated; src is
            \* history: the channel change its plan came from
  ch,       \* channel side: status, plan, paidTo, ending (scheduled_change = cancel)
  inbox,    \* webhook events not yet processed
  req,      \* Calls -> the request's progress
  booked,   \* renewal charges recorded as payments
  rejected, \* renewal charges refused with an audit row: paid less than the plan asks
  now,      \* billing time
  seq       \* the shared fine clock of occurred_at and updated_at

chanvars == <<sub, ch, inbox, req, booked, rejected, now, seq>>

None == -1
Later(a, b) == IF a >= b THEN a ELSE b
Idle == [op |-> "none", pc |-> "idle", target |-> First, next |-> None]

Init ==
  /\ sub = [status |-> "active", plan |-> First, expires |-> Interval(First),
            auto |-> TRUE, updated |-> 0, src |-> 0]
  /\ ch = [status |-> "active", plan |-> First, paidTo |-> Interval(First), ending |-> FALSE]
  /\ inbox = {} /\ booked = {} /\ rejected = {}
  /\ req = [c \in Calls |-> Idle]
  /\ now = 0 /\ seq = 0

-----------------------------------------------------------------------------
(* The channel.                                                             *)

\* parsePaddle: what the parser keeps of a subscription.* event.  The end of the
\* billing period, else next_billed_at, is the expiry hint.
parsePaddle(kind, c, at) ==
  [kind |-> kind, occ |-> at, prices |-> Prices(c.plan), next |-> c.paidTo,
   ending |-> c.ending, paid |-> Interval(c.plan)]

\* The channel changes its subscription to c and reports it.
Change(c, kinds) ==
  /\ seq < MaxSeq /\ seq' = seq + 1
  /\ ch' = c
  /\ inbox' = inbox \cup {parsePaddle(k, c, seq + 1) : k \in kinds}

\* A billing period ends: charged again, or cancelled when a cancel was scheduled.
Bill ==
  /\ ch.status = "active" /\ now >= ch.paidTo
  /\ IF ch.ending
     THEN Change([ch EXCEPT !.status = "canceled", !.ending = FALSE], {"canceled"})
     ELSE Change([ch EXCEPT !.paidTo = @ + Interval(ch.plan)], {"renewal", "updated"})
  /\ UNCHANGED <<sub, req, booked, rejected, now>>

\* The operations staff cancel at once in the channel's dashboard.
Dashboard ==
  /\ ch.status = "active"
  /\ Change([ch EXCEPT !.status = "canceled", !.ending = FALSE], {"canceled"})
  /\ UNCHANGED <<sub, req, booked, rejected, now>>

\* CancelSubscription: effective from the next billing period.
CancelSubscription == [ch EXCEPT !.ending = TRUE]

\* UpdateSubscriptionPrice: the new price's cycle starts now; an items update drops
\* the scheduled change.
UpdateSubscriptionPrice(p) ==
  IF p = ch.plan THEN [ch EXCEPT !.ending = FALSE]
                 ELSE [ch EXCEPT !.plan = p, !.paidTo = now + Interval(p), !.ending = FALSE]

-----------------------------------------------------------------------------
(* The four user endpoints.                                                 *)

Set(c, r) == req' = [req EXCEPT ![c] = r]
Finish(c) == Set(c, [Idle EXCEPT !.pc = "done"])

\* The row is locked from the recheck to the end of the request's transaction.
Holds(c) == req[c].op # "cancel" /\ req[c].pc \in {"locked", "gone", "called"}
Free == \A c \in Calls : ~Holds(c)

\* activePaddleSub / channelSelfServiceGate: an active row the channel manages.
activePaddleSub == sub.status = "active"

\* Entry checks of CancelChannelSubscription: no lock is taken.
CancelChannelSubscription(c) ==
  /\ req[c].pc = "idle" /\ activePaddleSub
  /\ Set(c, [Idle EXCEPT !.op = "cancel", !.pc = "locked"])
  /\ UNCHANGED <<sub, ch, inbox, booked, rejected, now, seq>>

\* Entry checks of CancelSubscriptionByID; a row already set not to renew is success.
CancelSubscriptionByID(c) ==
  /\ req[c].pc = "idle" /\ sub.status = "active" /\ sub.auto
  /\ Set(c, [Idle EXCEPT !.op = "cancelByID", !.pc = "checked"])
  /\ UNCHANGED <<sub, ch, inbox, booked, rejected, now, seq>>

\* Entry checks of UpgradeChannelSubscription: a longer cycle than the row's plan.
UpgradeChannelSubscription(c, p) ==
  /\ req[c].pc = "idle" /\ activePaddleSub
  /\ Interval(p) > Interval(sub.plan)
  /\ Set(c, [Idle EXCEPT !.op = "upgrade", !.pc = "checked", !.target = p])
  /\ UNCHANGED <<sub, ch, inbox, booked, rejected, now, seq>>

\* Entry checks of ChangePlanByID: the row must also still renew.
ChangePlanByID(c, p) ==
  /\ req[c].pc = "idle" /\ sub.status = "active"
  /\ Interval(p) > Interval(sub.plan) /\ sub.auto
  /\ Set(c, [Idle EXCEPT !.op = "change", !.pc = "checked", !.target = p])
  /\ UNCHANGED <<sub, ch, inbox, booked, rejected, now, seq>>

\* What each endpoint checks again under the row lock.
RecheckCancelByID == sub.status = "active" /\ sub.auto
RecheckUpgrade == sub.status = "active"
RecheckChange(p) == sub.status = "active" /\ sub.auto /\ Interval(p) > Interval(sub.plan)

Recheck(c) ==
  CASE req[c].op = "cancelByID" -> RecheckCancelByID
    [] req[c].op = "upgrade" -> RecheckUpgrade
    [] req[c].op = "change" -> RecheckChange(req[c].target)

LockRow(c) ==
  /\ req[c].pc = "checked" /\ Free
  /\ IF Recheck(c) THEN Set(c, [req[c] EXCEPT !.pc = "locked"]) ELSE Finish(c)
  /\ UNCHANGED <<sub, ch, inbox, booked, rejected, now, seq>>

\* The channel call of either cancel.  It may be refused, be carried out without an
\* answer, or find the subscription gone (CancelSubscriptionByID then heals the row).
CallCancel(c) ==
  /\ req[c].op \in {"cancel", "cancelByID"} /\ req[c].pc = "locked"
  /\ \/ /\ ch.status = "active"
        /\ Change(CancelSubscription, {"updated"})
        /\ Set(c, [req[c] EXCEPT !.pc = "called"]) \/ Finish(c)
     \/ /\ IF ch.status = "canceled" /\ req[c].op = "cancelByID"
           THEN Set(c, [req[c] EXCEPT !.pc = "gone"]) ELSE Finish(c)
        /\ UNCHANGED <<ch, inbox, seq>>
  /\ UNCHANGED <<sub, booked, rejected, now>>

\* The price change of either plan change; the answer may carry no next_billed_at.
CallUpdate(c) ==
  /\ req[c].op \in {"upgrade", "change"} /\ req[c].pc = "locked"
  /\ \/ /\ ch.status = "active"
        /\ Change(UpdateSubscriptionPrice(req[c].target), {"updated"})
        /\ \/ \E next \in {ch'.paidTo, now + Interval(req[c].target)} :
                Set(c, [req[c] EXCEPT !.pc = "called", !.next = next])
           \/ Finish(c)
     \/ Finish(c) /\ UNCHANGED <<ch, inbox, seq>>
  /\ UNCHANGED <<sub, booked, rejected, now>>

Write(row) ==
  /\ seq' = seq + 1
  /\ sub' = [row EXCEPT !.updated = seq + 1]

\* After the channel's answer: auto_renew is switched off, or the write fails and the
\* divergence is only audited.  CancelChannelSubscription waits for the row's lock.
WriteCancel(c) ==
  /\ req[c].op \in {"cancel", "cancelByID"} /\ req[c].pc \in {"called", "gone"}
  /\ req[c].op = "cancel" => Free
  /\ Write([sub EXCEPT !.auto = FALSE]) \/ UNCHANGED <<sub, seq>>
  /\ Finish(c)
  /\ UNCHANGED <<ch, inbox, booked, rejected, now>>

\* The channel has changed and the row could not be: an audit row, no local change.
failSync == UNCHANGED <<sub, seq>>

\* After the channel's answer: plan and expiry follow the channel on an active row,
\* or the write fails.
WritePlan(c) ==
  /\ req[c].op \in {"upgrade", "change"} /\ req[c].pc = "called"
  /\ \/ /\ sub.status = "active"
        /\ Write([sub EXCEPT !.plan = req[c].target, !.expires = req[c].next, !.src = seq])
     \/ failSync
  /\ Finish(c)
  /\ UNCHANGED <<ch, inbox, booked, rejected, now>>

\* SubscriptionService.Cancel (both variants): refused while the channel would renew.
Cancel ==
  /\ Free /\ sub.status # "cancelled" /\ ~sub.auto
  /\ Write([sub EXCEPT !.status = "cancelled"])
  /\ UNCHANGED <<ch, inbox, req, booked, rejected, now>>

-----------------------------------------------------------------------------
(* The webhook handlers; each is one transaction that locks the row.        *)

Take(e) == inbox' = inbox \ {e}

\* The channel's cancellation has taken effect.
\* MUTANT: only an auto-renewing row is ended.
CancelledIfRenewing(e) ==
  IF sub.status = "active" /\ sub.auto
  THEN Write([sub EXCEPT !.status = "cancelled", !.auto = FALSE])
  ELSE UNCHANGED <<sub, seq>>

onPaddleSubscriptionCancelled(e) ==
  IF sub.status # "cancelled" \/ sub.auto
  THEN Write([sub EXCEPT !.status = "cancelled", !.auto = FALSE])
  ELSE UNCHANGED <<sub, seq>>

\* The one plan whose price is among ids, or None when there is none or several.
planIDForSubscriptionPrices(ids) ==
  LET match == {p \in Plans : Prices(p) \cap ids # {}}
  IN IF Cardinality(match) = 1 THEN CHOOSE p \in match : TRUE ELSE None

\* An event from before the row's last write is a delayed one.
\* MUTANT: deliveries are taken in any order.
StaleNever(e) == FALSE

Stale(e) == e.occ < sub.updated

\* A scheduled cancel switches auto_renew off; a new plan is taken over unless the
\* event is stale, and the expiry only ever grows.
\* MUTANT: a stale event is dropped whole.
UpdatedDroppingStale(e) ==
  LET off == IF e.ending THEN [sub EXCEPT !.auto = FALSE] ELSE sub
      p == planIDForSubscriptionPrices(e.prices)
      row == IF sub.status # "active" \/ p \in {None, sub.plan} \/ Stale(e) THEN off
             ELSE [off EXCEPT !.plan = p, !.expires = Later(@, e.next), !.src = e.occ]
  IN IF row = sub THEN UNCHANGED <<sub, seq>> ELSE Write(row)

onPaddleSubscriptionUpdated(e) ==
  LET off == IF e.ending THEN [sub EXCEPT !.auto = FALSE] ELSE sub
      p == planIDForSubscriptionPrices(e.prices)
      same == sub.status # "active" \/ p \in {None, sub.plan}
      grown == [off EXCEPT !.expires = Later(@, e.next)]
  IN IF same THEN IF off = sub THEN UNCHANGED <<sub, seq>> ELSE Write(off)
     ELSE Write(IF Stale(e) THEN grown ELSE [grown EXCEPT !.plan = p, !.src = e.occ])

\* A renewal charge is booked with a synthetic paid order, and an active row is
\* extended to the next billing date, read from the channel, if it tells one.
Renewed(e) ==
  /\ booked' = booked \cup {e.occ}
  /\ IF sub.status = "active" /\ ch.status = "active"
     THEN Write([sub EXCEPT !.expires = Later(@, ch.paidTo)])
     ELSE UNCHANGED <<sub, seq>>

\* A charge already booked is a duplicate; one below the row's plan is rejected.
onRenewalSucceeded(e) ==
  IF e.occ \in booked THEN UNCHANGED <<sub, booked, rejected, seq>>
  ELSE IF e.paid < Interval(sub.plan)
  THEN rejected' = rejected \cup {e.occ} /\ UNCHANGED <<sub, booked, seq>>
  ELSE Renewed(e) /\ UNCHANGED rejected

\* One delivery; when the event is not then marked processed, it is sent again.
Deliver(e) ==
  /\ Free
  /\ Take(e) \/ (seq < MaxSeq /\ UNCHANGED inbox)
  /\ CASE e.kind = "canceled" -> onPaddleSubscriptionCancelled(e) /\ UNCHANGED <<booked, rejected>>
       [] e.kind = "updated" -> onPaddleSubscriptionUpdated(e) /\ UNCHANGED <<booked, rejected>>
       [] e.kind = "renewal" -> onRenewalSucceeded(e)
  /\ UNCHANGED <<ch, req, now>>

Tick ==
  /\ now < MaxNow /\ now' = now + 1
  /\ UNCHANGED <<sub, ch, inbox, req, booked, rejected, seq>>

Step(c) == LockRow(c) \/ CallCancel(c) \/ CallUpdate(c) \/ WriteCancel(c) \/ WritePlan(c)

Next ==
  \/ Bill \/ Dashboard \/ Tick \/ Cancel
  \/ \E e \in inbox : Deliver(e)
  \/ \E c \in Calls :
       \/ CancelChannelSubscription(c) \/ CancelSubscriptionByID(c) \/ Step(c)
       \/ \E p \in Plans : UpgradeChannelSubscription(c, p) \/ ChangePlanByID(c, p)

Spec == Init /\ [][Next]_chanvars

-----------------------------------------------------------------------------
(* Properties.                                                              *)

\* No channel change waits to be written locally.
Quiet == inbox = {} /\ \A c \in Calls : req[c].pc \notin {"called", "gone"}

\* Once every event has been handled, an active row gives at least the period the
\* channel was paid for, lost local writes after a charge and late or stale updates
\* included, unless a renewal was rejected for paying less than the row's plan asks.
PaidThroughKept ==
  Quiet /\ sub.status = "active" /\ ch.status = "active" /\ rejected = {}
    => sub.expires >= ch.paidTo

\* "A stale event can never regress plan_id": the row's plan never goes back to an
\* earlier state of the channel's subscription, whatever the order of deliveries.
NeverRegresses == [][sub'.src >= sub.src]_chanvars

\* The local row follows the channel: it never goes back to an older state of the
\* channel's subscription, and never gives less than was paid for.
RowFollows == []PaidThroughKept /\ NeverRegresses

\* A local row that says it will not renew, or has ended, belongs to a channel
\* subscription that will not charge again: a scheduled-cancel-pending subscription
\* must not have its billing resurrected.
BillingShown ==
  Quiet /\ (sub.status = "cancelled" \/ ~sub.auto) => ch.ending \/ ch.status = "canceled"

\* A subscription the channel has ended ends locally.
EndReaches == ch.status = "canceled" ~> sub.status = "cancelled"
=============================================================================
