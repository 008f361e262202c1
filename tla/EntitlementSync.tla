--------------------------- MODULE EntitlementSync ---------------------------
(***************************************************************************)
(* How a payment becomes a model entitlement.  The payment service changes *)
(* the subscription and writes an outbox message in one transaction.  A    *)
(* worker of every server instance fetches messages, reads the current     *)
(* subscription, its paying order and the entitlement rows in separate     *)
(* statements, and applies the difference in a transaction that is guarded *)
(* by the revision of the rows and marks the message delivered.            *)
(*                                                                         *)
(* One user and one product.  The sweeper that expires entitlements and    *)
(* the migration gift write the same table.                                *)
(***************************************************************************)
EXTENDS Integers, Sequences, FiniteSets, SequencesExt

CONSTANTS
    Orders,      \* orders with a frozen benefit snapshot
    Order,       \* Order[o]: plan, kind, days, from (upgraded plan), mode, spec
    Workers,     \* one worker per server instance
    Batch,       \* messages per pass
    GiftDays,    \* days the migration gift lasts
    MaxTime,     \* bound on the clock
    MaxCancels,  \* bound on customer cancellations
    MaxFaults,   \* bound on failed or interrupted passes
    MaxGifts,    \* bound on calls that issue the gift
    Open,        \* no end
    None         \* no order, no target

Synced == {"subscription", "grant"}   \* the sources a worker converges
Sources == Synced \cup {"migration"}

VARIABLES
    sub,      \* the subscription row
    paid,     \* paid orders, in the order of their last update
    ended,    \* orders refunded or failed after they were paid
    rows,     \* rows[s]: the entitlement rows of a source
    sent,     \* messages written so far; their ids are 1..sent
    pending,  \* ids of the messages not yet delivered
    worker,   \* worker[w]: where its pass is, and what it has read
    now,      \* the clock, in days
    spent     \* cancellations, faults and gift calls so far

vars == <<sub, paid, ended, rows, sent, pending, worker, now, spent>>

Idle == [pc |-> "idle", batch |-> <<>>, seen |-> [status |-> "none", plan |-> None, to |-> 0],
         goal |-> [want |-> None, as |-> "revoked"],
         plan |-> [s \in Synced |-> [op |-> "noop"]]]

Init ==
    /\ sub = [status |-> "none", plan |-> None, to |-> 0]
    /\ paid = <<>> /\ ended = {}
    /\ rows = [s \in Sources |-> <<>>]
    /\ sent = 0 /\ pending = {}
    /\ worker = [w \in Workers |-> Idle]
    /\ now = 0
    /\ spent = [cancels |-> 0, faults |-> 0, gifts |-> 0]

Unread == <<worker, now, spent>>
Untouched == <<sub, paid, ended, sent>>

-----------------------------------------------------------------------------
\* The payment service.

Enqueue ==
    /\ sent' = sent + 1
    /\ pending' = pending \cup {sent + 1}

Live(s) == s.status = "active" /\ (s.to = Open \/ s.to > now)

\* ResolveCodingPlanActivation.  An upgrade replaces the plan it was bought
\* for, any order prolongs its own plan, and another live plan blocks it.
Replaces(o) == Order[o].kind = "upgrade" /\ sub.plan = Order[o].from
Blocked(o) == Live(sub) /\ ~Replaces(o) /\ sub.plan # Order[o].plan

\* The end it gives the subscription: from now, or rolled on from the old one.
NewEnd(o) ==
    IF Order[o].days = 0 THEN Open
    ELSE IF ~Live(sub) \/ Replaces(o) THEN now + Order[o].days
    ELSE IF sub.to = Open THEN Open
    ELSE sub.to + Order[o].days

\* A payment settles.  A blocked order stays paid, and neither the
\* subscription nor the outbox changes.
Pay(o) ==
    /\ o \notin ToSet(paid) \cup ended
    /\ paid' = Append(paid, o)
    /\ IF Blocked(o)
       THEN UNCHANGED <<sub, sent, pending>>
       ELSE /\ sub' = [status |-> "active", plan |-> Order[o].plan, to |-> NewEnd(o)]
            /\ Enqueue
    /\ UNCHANGED <<ended, rows, Unread>>

\* A full refund, or a failure reported after the payment: the order drops
\* out and the subscription on its plan is cancelled.
Withdraw(o) ==
    /\ o \in ToSet(paid)
    /\ paid' = SelectSeq(paid, LAMBDA p : p # o)
    /\ ended' = ended \cup {o}
    /\ sub' = IF sub.status = "active" /\ sub.plan = Order[o].plan
              THEN [sub EXCEPT !.status = "cancelled"] ELSE sub
    /\ Enqueue
    /\ UNCHANGED <<rows, Unread>>

\* The customer cancels; such messages have no dedup key.
Cancel ==
    /\ spent.cancels < MaxCancels
    /\ sub.status = "active"
    /\ sub' = [sub EXCEPT !.status = "cancelled"]
    /\ spent' = [spent EXCEPT !.cancels = @ + 1]
    /\ Enqueue
    /\ UNCHANGED <<paid, ended, rows, worker, now>>

-----------------------------------------------------------------------------
\* The entitlement table.

\* MUTANT: retired rows are not looked at.
LatestActive(s) ==
    LET active == {i \in DOMAIN rows[s] : rows[s][i].status = "active"}
    IN IF active = {} THEN 0 ELSE CHOOSE i \in active : \A j \in active : j <= i

\* GetLatestEntitlementBySource: the index of the row with the highest
\* revision, 0 if there is none.
Latest(s) ==
    IF rows[s] = <<>> THEN 0
    ELSE CHOOSE i \in DOMAIN rows[s] : \A j \in DOMAIN rows[s] : rows[s][j].rev <= rows[s][i].rev

\* The unique key: no two rows of a source with one revision.
Keyed(rs) == \A i, j \in DOMAIN rs : rs[i].rev = rs[j].rev => i = j

\* MUTANT: a new row does not start at revision one.
InsertedAtZero(rs, spec, to) ==
    Append(rs, [status |-> "active", rev |-> 0, spec |-> spec, to |-> to])

\* A first grant.
Inserted(rs, spec, to) ==
    Append(rs, [status |-> "active", rev |-> 1, spec |-> spec, to |-> to])

\* MarkExpiredEntitlements: one statement, which fails as a whole if a new
\* revision is taken.
Sweep ==
    LET Lapsed(r) == r.status = "active" /\ r.to # Open /\ r.to <= now
        swept == [s \in Sources |-> [i \in DOMAIN rows[s] |->
                    IF Lapsed(rows[s][i])
                    THEN [rows[s][i] EXCEPT !.status = "expired", !.rev = @ + 1]
                    ELSE rows[s][i]]]
    IN /\ swept # rows
       /\ \A s \in Sources : Keyed(swept[s])
       /\ rows' = swept
       /\ UNCHANGED <<Untouched, pending, Unread>>

\* IssueMigrationGift: a taken key means the gift was issued before.
IssueGift ==
    /\ spent.gifts < MaxGifts
    /\ spent' = [spent EXCEPT !.gifts = @ + 1]
    /\ LET new == Inserted(rows["migration"], "gift", now + GiftDays)
       IN rows' = IF Keyed(new) THEN [rows EXCEPT !["migration"] = new] ELSE rows
    /\ UNCHANGED <<Untouched, pending, worker, now>>

-----------------------------------------------------------------------------
\* A worker's pass.

\* The oldest pending messages.
Fetch(w) ==
    /\ worker[w].pc = "idle" /\ pending # {}
    /\ worker' = [worker EXCEPT ![w] =
          [Idle EXCEPT !.pc = "sub",
               !.batch = LET due == SetToSortSeq(pending, LAMBDA a, b : a < b)
                         IN SubSeq(due, 1, IF Len(due) < Batch THEN Len(due) ELSE Batch)]]
    /\ UNCHANGED <<Untouched, rows, pending, now, spent>>

\* DecideSync.
Decide(s, o) ==
    CASE s.status # "active" -> [want |-> None, as |-> "revoked"]
      [] s.status = "active" /\ s.to # Open /\ s.to <= now -> [want |-> None, as |-> "expired"]
      [] s.status = "active" /\ (s.to = Open \/ s.to > now) ->
             IF o = None THEN [want |-> None, as |-> "revoked"]
             ELSE [want |-> [source |-> Order[o].mode, spec |-> Order[o].spec, to |-> s.to],
                   as |-> "revoked"]

ReadSub(w) ==
    /\ worker[w].pc = "sub"
    /\ worker' = [worker EXCEPT ![w] =
          IF sub.status = "active"
          THEN [@ EXCEPT !.pc = "order", !.seen = sub]
          ELSE [@ EXCEPT !.pc = "subscription", !.goal = Decide(sub, None)]]
    /\ UNCHANGED <<Untouched, rows, pending, now, spent>>

\* GetLatestPaidBenefitOrder of the plan read before.
PaidOrder(plan) ==
    LET mine == SelectSeq(paid, LAMBDA o : Order[o].plan = plan)
    IN IF mine = <<>> THEN None ELSE Last(mine)

ReadOrder(w) ==
    /\ worker[w].pc = "order"
    /\ worker' = [worker EXCEPT ![w] =
          [@ EXCEPT !.pc = "subscription",
                    !.goal = Decide(worker[w].seen, PaidOrder(worker[w].seen.plan)),
                    !.seen = Idle.seen]]
    /\ UNCHANGED <<Untouched, rows, pending, now, spent>>

\* Converge: the step from the latest row of a source to the target.
Converge(s, goal) ==
    LET i == Latest(s)
        cur == rows[s][i]
        Step(op) == [op |-> op, row |-> i, rev |-> cur.rev, goal |-> goal]
    IN IF goal.want = None
       THEN IF i = 0 \/ cur.status # "active" THEN [op |-> "noop"] ELSE Step("retire")
       ELSE IF i = 0 THEN [op |-> "insert", row |-> 0, rev |-> 0, goal |-> goal]
       ELSE IF cur.status # "active" THEN Step("revive")
       ELSE IF cur.spec = goal.want.spec /\ cur.to = goal.want.to THEN [op |-> "noop"]
       ELSE Step("revise")

\* MUTANT: both sources converge to the target.
GoalForBoth(goal, s) == goal

\* The target applies to its own source; the other one goes.
GoalFor(goal, s) ==
    IF goal.want # None /\ goal.want.source # s THEN [goal EXCEPT !.want = None] ELSE goal

ReadRows(w) ==
    LET s == worker[w].pc
    IN /\ s \in Synced
       /\ worker' = [worker EXCEPT ![w] =
             [@ EXCEPT !.pc = IF s = "subscription" THEN "grant" ELSE "apply",
                       !.plan[s] = Converge(s, GoalFor(worker[w].goal, s))]]
       /\ UNCHANGED <<Untouched, rows, pending, now, spent>>

\* The pass moves to its next message.
NextMessage(w) ==
    LET rest == Tail(worker[w].batch)
    IN worker' = [worker EXCEPT ![w] =
          IF rest = <<>> THEN Idle ELSE [Idle EXCEPT !.pc = "sub", !.batch = rest]]

\* What a planned step makes of the rows of its source.
Stepped(rs, p) ==
    LET want == p.goal.want
    IN CASE p.op = "insert" -> Inserted(rs, want.spec, want.to)
         [] p.op \in {"revise", "revive"} ->
                [rs EXCEPT ![p.row] = [status |-> "active", rev |-> @.rev + 1,
                                       spec |-> want.spec, to |-> want.to]]
         [] p.op = "retire" ->
                [rs EXCEPT ![p.row].status = p.goal.as, ![p.row].rev = @ + 1]

\* MUTANT: the guard expects the revision after the one read.
AdmitsNextRevision(s, p) ==
    /\ p.op # "insert" => /\ rows[s][p.row].rev = p.rev + 1
                          /\ (rows[s][p.row].status = "active") <=> (p.op # "revive")
    /\ Keyed(Stepped(rows[s], p))

\* The optimistic guards: the revision read, the status the step starts
\* from, and the unique key.
Admits(s, p) ==
    /\ p.op # "insert" => /\ rows[s][p.row].rev = p.rev
                          /\ (rows[s][p.row].status = "active") <=> (p.op # "revive")
    /\ Keyed(Stepped(rows[s], p))

\* The sources a pass has something to write for.
Planned(w) == {s \in Synced : worker[w].plan[s].op # "noop"}

\* All steps and the delivery mark in one transaction.
Apply(w) ==
    LET plan == worker[w].plan
    IN /\ worker[w].pc = "apply"
       /\ \A s \in Planned(w) : Admits(s, plan[s])
       /\ rows' = [s \in Sources |->
                     IF s \in Planned(w) THEN Stepped(rows[s], plan[s]) ELSE rows[s]]
       /\ pending' = pending \ {Head(worker[w].batch)}
       /\ NextMessage(w)
       /\ UNCHANGED <<Untouched, now, spent>>

\* A guard failed: nothing is written and the message stays pending.
Race(w) ==
    /\ worker[w].pc = "apply"
    /\ \E s \in Planned(w) : ~Admits(s, worker[w].plan[s])
    /\ NextMessage(w)
    /\ UNCHANGED <<Untouched, rows, pending, now, spent>>

\* A statement fails: the message backs off, the pass goes on.
Fail(w) ==
    /\ worker[w].pc # "idle" /\ spent.faults < MaxFaults
    /\ spent' = [spent EXCEPT !.faults = @ + 1]
    /\ NextMessage(w)
    /\ UNCHANGED <<Untouched, rows, pending, now>>

\* The instance stops in the middle of a pass and starts again.
Crash(w) ==
    /\ worker[w].pc # "idle" /\ spent.faults < MaxFaults
    /\ spent' = [spent EXCEPT !.faults = @ + 1]
    /\ worker' = [worker EXCEPT ![w] = Idle]
    /\ UNCHANGED <<Untouched, rows, pending, now>>

Tick ==
    /\ now < MaxTime
    /\ now' = now + 1
    /\ UNCHANGED <<Untouched, rows, pending, worker, spent>>

Work(w) ==
    Fetch(w) \/ ReadSub(w) \/ ReadOrder(w) \/ ReadRows(w) \/ Apply(w) \/ Race(w)

Next ==
    \/ \E o \in Orders : Pay(o) \/ Withdraw(o)
    \/ Cancel \/ Sweep \/ IssueGift \/ Tick
    \/ \E w \in Workers : Work(w) \/ Fail(w) \/ Crash(w)

Spec == Init /\ [][Next]_vars

\* Start ticks for ever; a pass runs to its end.
FairSpec == Spec /\ \A w \in Workers : WF_vars(Work(w))

-----------------------------------------------------------------------------
\* Every row, message and worker has its type; in particular revisions start at
\* one and the open messages are among those written.
TypeOK ==
    /\ sub.status \in {"none", "active", "cancelled"} /\ sub.to \in Nat \cup {Open}
    /\ pending \subseteq 1..sent
    /\ \A s \in Sources : \A i \in DOMAIN rows[s] :
          /\ rows[s][i].status \in {"active", "revoked", "expired"}
          /\ rows[s][i].rev \in Nat \ {0}
          /\ rows[s][i].to \in Nat \cup {Open}
    /\ now \in 0..MaxTime

\* What the gateway authorizes from a source (ListActiveEntitlements).
Granted(s) ==
    {[spec |-> r.spec, to |-> r.to] :
        r \in {q \in ToSet(rows[s]) : q.status = "active" /\ (q.to = Open \/ q.to > now)}}

\* What the subscription and its paying order entitle to now.
Due(s) ==
    LET goal == Decide(sub, PaidOrder(sub.plan))
    IN IF goal.want # None /\ goal.want.source = s
       THEN {[spec |-> goal.want.spec, to |-> goal.want.to]} ELSE {}

Quiet == pending = {} /\ \A w \in Workers : worker[w].pc = "idle"

\* Once every message is delivered, the customer has exactly what the current
\* subscription and its paying order give: no more, and no less.
Settled ==
    Quiet => \A s \in Synced : Granted(s) = Due(s)

\* A source has one row for its whole life, however often it is granted,
\* retired and revived: the row is what the quota windows hang on.
OneSubject ==
    \A s \in Synced : Len(rows[s]) <= 1

\* Once the outbox is empty the customer has exactly what the subscription gives, on one
\* row per source for its whole life (EntitlementSyncWorker).
SettledOnce == Settled /\ OneSubject

\* Every message is delivered in the end, whatever races, failures and
\* restarts it meets on the way.
Delivered ==
    \A id \in 1..(2 * Cardinality(Orders) + MaxCancels) :
        id \in pending ~> id \notin pending

=============================================================================
