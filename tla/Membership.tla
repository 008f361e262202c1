----------------------------- MODULE Membership -----------------------------
(***************************************************************************)
(* The membership subscription of one user as support staff and sign-up     *)
(* change it: VIP days added under an idempotency key, a free plan or trial *)
(* inserted, a cancellation.  Every VIP request is one READ COMMITTED       *)
(* transaction that locks the active row, or inserts one under the partial  *)
(* unique index, and records its key last.                                  *)
(*   internal/service/admin_users.go, subscription.go, auth.go              *)
(*   internal/repo/admin_users_repo.go, repo.go                             *)
(*   internal/handler/admin_users.go                                        *)
(***************************************************************************)
EXTENDS Integers, FiniteSets

CONSTANTS
  Staff,       \* concurrent VIP requests
  Keys,        \* idempotency keys; NoKey is a request without one
  NoKey,
  Days,        \* day counts asked for
  MinDays, MaxDays,   \* AdminVipMinDays, AdminVipMaxDays
  FreeDays,    \* interval of the free plan
  MaxExpiry,   \* bound on the expiry
  MaxTime      \* bound on time

VARIABLES
  row,      \* the newest membership row: status, exp (-1 = lifetime), retired
  stored,   \* admin_idempotency_keys: key -> [days, exp] or None
  vip,      \* Staff -> the request's transaction
  applied,  \* history: key -> days added under it, committed
  told,     \* history: answers as <<key, days, exp>>
  today

membvars == <<row, stored, vip, applied, told, today>>

None == [days |-> 0, exp |-> 0]
NoRow == [status |-> "none", exp |-> 0, retired |-> FALSE]
Idle == [pc |-> "idle", key |-> NoKey, days |-> 0, new |-> NoRow]
Later(a, b) == IF a >= b THEN a ELSE b

Init ==
  /\ row \in {NoRow, [status |-> "active", exp |-> -1, retired |-> FALSE],
              [status |-> "active", exp |-> 1, retired |-> TRUE],
              [status |-> "active", exp |-> 1, retired |-> FALSE]}
  /\ stored = [k \in Keys |-> None]
  /\ vip = [s \in Staff |-> Idle]
  /\ applied = [k \in Keys |-> 0]
  /\ told = {} /\ today = 0

Put(s, v) == vip' = [vip EXCEPT ![s] = v]
Active == row.status = "active"

\* A transaction that holds the row, by its lock or by an uncommitted insert.
Holding(s) == vip[s].pc = "key"
Unlocked == \A s \in Staff : ~Holding(s)

\* The answer under a stored key: its response, or a payload mismatch.
Answer(k, days) ==
  told' = IF stored[k].days = days THEN told \cup {<<k, days, stored[k].exp>>} ELSE told

\* AddVip's checks, and the first read: a known key is answered from its record.
AddVip(s, k, days) ==
  /\ vip[s].pc = "idle" /\ MinDays <= days /\ days <= MaxDays
  /\ IF k # NoKey /\ stored[k] # None
     THEN Answer(k, days) /\ UNCHANGED vip
     ELSE Put(s, [Idle EXCEPT !.pc = "lock", !.key = k, !.days = days]) /\ UNCHANGED told
  /\ UNCHANGED <<row, stored, applied, today>>

\* ExtendMembershipSub: from the expiry, or from now when it has passed.
ExtendMembershipSub(days) == [row EXCEPT !.exp = Later(@, today) + days]

\* The active row is locked.  Lifetime and retired plans are rejected (an audit row,
\* no key); no row means an insert.
LockActive(s) ==
  LET v == vip[s]
  IN /\ v.pc = "lock"
     /\ Active => Unlocked
     /\ IF ~Active THEN Put(s, [v EXCEPT !.pc = "insert"])
        ELSE IF row.exp = -1 \/ row.retired THEN Put(s, Idle)
        ELSE Put(s, [v EXCEPT !.pc = "key", !.new = ExtendMembershipSub(v.days)])
     /\ UNCHANGED <<row, stored, applied, told, today>>

\* InsertMembershipSub: waits for an uncommitted insert; a second active row is refused
\* by the unique index, and a keyed request then replays what the key recorded.
InsertMembershipSub(s) ==
  LET v == vip[s]
  IN /\ v.pc = "insert" /\ Unlocked
     /\ IF Active
        THEN Put(s, IF v.key = NoKey THEN Idle ELSE [v EXCEPT !.pc = "replay"])
        ELSE Put(s, [v EXCEPT !.pc = "key",
               !.new = [status |-> "active", exp |-> today + v.days, retired |-> FALSE]])
     /\ UNCHANGED <<row, stored, applied, told, today>>

\* InsertIdempotencyKey and the commit.  A key that was recorded meanwhile rolls the
\* whole transaction back.
\* MUTANT: the conflict on the key is not noticed.
CommitAnyway(s) ==
  LET v == vip[s]
  IN /\ v.pc = "key"
     /\ row' = v.new
     /\ IF v.key = NoKey THEN UNCHANGED <<stored, applied, told>>
        ELSE /\ stored' = IF stored[v.key] = None
                          THEN [stored EXCEPT ![v.key] = [days |-> v.days, exp |-> v.new.exp]]
                          ELSE stored
             /\ applied' = [applied EXCEPT ![v.key] = @ + v.days]
             /\ told' = told \cup {<<v.key, v.days, v.new.exp>>}
     /\ Put(s, Idle)
     /\ UNCHANGED today

InsertIdempotencyKey(s) ==
  LET v == vip[s]
  IN /\ v.pc = "key"
     /\ IF v.key = NoKey
        THEN row' = v.new /\ Put(s, Idle) /\ UNCHANGED <<stored, applied, told>>
        ELSE IF stored[v.key] # None
        THEN Put(s, [v EXCEPT !.pc = "replay"]) /\ UNCHANGED <<row, stored, applied, told>>
        ELSE /\ row' = v.new
             /\ stored' = [stored EXCEPT ![v.key] = [days |-> v.days, exp |-> v.new.exp]]
             /\ applied' = [applied EXCEPT ![v.key] = @ + v.days]
             /\ told' = told \cup {<<v.key, v.days, v.new.exp>>}
             /\ Put(s, Idle)
     /\ UNCHANGED today

\* replayIdempotentResponse: after the rollback; no record is an error.
replayIdempotentResponse(s) ==
  /\ vip[s].pc = "replay"
  /\ IF stored[vip[s].key] # None THEN Answer(vip[s].key, vip[s].days) ELSE UNCHANGED told
  /\ Put(s, Idle)
  /\ UNCHANGED <<row, stored, applied, today>>

\* The request dies before its commit.
Abort(s) ==
  /\ vip[s].pc # "idle" /\ Put(s, Idle)
  /\ UNCHANGED <<row, stored, applied, told, today>>

\* SubscriptionService.Create on a free plan: an insert under the same index.
Create ==
  /\ Unlocked /\ ~Active
  /\ row' = [status |-> "active", exp |-> today + FreeDays, retired |-> FALSE]
  /\ UNCHANGED <<stored, vip, applied, told, today>>

\* The row is cancelled by its user or by the payment channel.
Cancel ==
  /\ Unlocked /\ Active
  /\ row' = [row EXCEPT !.status = "cancelled"]
  /\ UNCHANGED <<stored, vip, applied, told, today>>

Pass ==
  /\ today < MaxTime /\ today' = today + 1
  /\ UNCHANGED <<row, stored, vip, applied, told>>

Next ==
  \/ Create \/ Cancel \/ Pass
  \/ \E s \in Staff :
       \/ row.exp <= MaxExpiry /\ \E k \in Keys \cup {NoKey}, d \in Days : AddVip(s, k, d)
       \/ LockActive(s) \/ InsertMembershipSub(s) \/ InsertIdempotencyKey(s)
       \/ replayIdempotentResponse(s) \/ Abort(s)

Spec == Init /\ [][Next]_membvars

-----------------------------------------------------------------------------
(* Properties.                                                              *)

\* However requests with one key race, are cut off and are repeated, the days are added
\* once, and every answer under the key tells that one result.
KeyedOnce ==
  /\ \A k \in Keys : applied[k] = stored[k].days
  /\ \A a \in told : stored[a[1]] = [days |-> a[2], exp |-> a[3]]
=============================================================================
