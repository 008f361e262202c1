--------------------------- MODULE Conversations ---------------------------
(***************************************************************************)
(* The turns of one conversation and the upstream account they stick to    *)
(* (internal/inference/routing, pinSessionCandidates and the lease of      *)
(* gateway/service.go, httpapi/responses.go, postgres/oauth_repo.go).      *)
(*                                                                         *)
(* A turn picks candidates from a cached list of accounts, resolves the    *)
(* conversation's binding, binds or migrates it, and dispatches.  Accounts *)
(* change under it: operators and health probes flip their status, quota   *)
(* snapshots arrive late, bindings expire.                                 *)
(***************************************************************************)
EXTENDS Integers, Sequences, FiniteSets

CONSTANTS
  Accts,        \* accounts of the provider, numbers from 1
  Metered,      \* those of them whose vendor reports a quota
  Turns,        \* turns of the conversation under way at once
  MaxChanges,   \* bound: changes made to accounts from outside
  MaxObs        \* bound: quota snapshots taken

VARIABLES
  acc,          \* per account: st ("active" or "out"), obs and left of its last quota snapshot
  cache,        \* the instance's cached account rows: fresh, rows (account -> left, 0 if not listed)
  cooled,       \* accounts this instance skips after a failure
  rr,           \* the round-robin cursor
  chain,        \* TRUE once the first turn's chain row is stored
  bind,         \* the row the partial unique index allows: id (0: none), acct, expired
  turn,         \* per turn: pc, cands, tries, refreshed, id and acct of the binding read
  probing,      \* a quota answer on its way: acct, at, left
  taken,        \* quota snapshots taken, their time
  changes       \* changes made from outside

convvars == <<acc, cache, cooled, rr, chain, bind, turn, probing, taken, changes>>
world == <<acc, chain, bind, probing, taken, changes>>

NoTurn == [pc |-> "idle", cands |-> <<>>, tries |-> 0, refreshed |-> FALSE, id |-> 0, acct |-> 0]
NoBind == [id |-> 0, acct |-> 0, expired |-> FALSE]
NoProbe == [acct |-> 0, at |-> 0, left |-> 0]
Unknown == 2     \* left: 0 exhausted, 1 some, Unknown never observed

Init ==
  /\ acc = [a \in Accts |-> [st |-> "active", obs |-> 0, left |-> Unknown]]
  /\ cache = [fresh |-> FALSE, rows |-> {}] /\ cooled = {} /\ rr = 0
  /\ chain = FALSE /\ bind = NoBind
  /\ turn = [t \in Turns |-> NoTurn]
  /\ probing = NoProbe /\ taken = 0 /\ changes = 0

Set(t, r) == turn' = [turn EXCEPT ![t] = r]
Done(t) == Set(t, NoTurn)
DispatchTo(t, a) == Set(t, [NoTurn EXCEPT !.pc = "dispatch", !.acct = a])
-----------------------------------------------------------------------------
(* Candidates: routing/service.go and account_pool.go.                     *)

quotaExhausted(left) == left = 0

ListActiveUpstreamAccounts == {<<a, acc[a].left>> : a \in {x \in Accts : acc[x].st = "active"}}

\* The rows of the cache while it is fresh, else the table's, which it then holds.
activeAccounts(fresh) == IF cache.fresh /\ ~fresh THEN cache.rows ELSE ListActiveUpstreamAccounts

\* Listed, not exhausted in the row that was read, and not cooling in this process.
Live(fresh) == {r[1] : r \in {x \in activeAccounts(fresh) : ~quotaExhausted(x[2])}} \ cooled

Ascending(S) ==
  CHOOSE s \in [1..Cardinality(S) -> S] : \A i, j \in 1..Cardinality(S) : i < j => s[i] < s[j]

\* Round robin: the cursor moves only when there is a choice.
orderAccounts(S) ==
  LET s == Ascending(S) IN
  [i \in 1..Len(s) |-> s[((rr + i - 1) % Len(s)) + 1]]

\* One try over the cache and, when it yields nothing, one over the table.
Bypass == Live(FALSE) = {}
CandidateList ==
  LET S == Live(Bypass) IN IF S = {} THEN <<>> ELSE orderAccounts(S)

PickCandidates ==
  /\ cache' = [fresh |-> TRUE, rows |-> activeAccounts(Bypass)]
  /\ rr' = IF Cardinality(Live(Bypass)) > 1 THEN (rr % Cardinality(Live(Bypass))) + 1 ELSE rr

\* InvalidateAccounts and a second listing, for a turn whose migration target was stale.
refreshCandidates(t) ==
  /\ cache' = [fresh |-> TRUE, rows |-> ListActiveUpstreamAccounts]
  /\ UNCHANGED rr
  /\ IF Live(TRUE) = {} \/ turn[t].tries = 1 THEN Done(t)
     ELSE Set(t, [turn[t] EXCEPT !.pc = "resolve", !.tries = @ + 1, !.refreshed = TRUE, !.id = 0, !.acct = 0,
                                 !.cands = orderAccounts(Live(TRUE))])
-----------------------------------------------------------------------------
(* The binder: routing/session_binding.go over postgres/oauth_repo.go.     *)

GetActiveSessionBinding == IF bind.id # 0 /\ ~bind.expired THEN bind ELSE NoBind

Schedulable(a) == acc[a].st = "active" /\ ~quotaExhausted(acc[a].left)

\* Ids are told apart while anyone may still name them, and used again after.
FreshID ==
  LET Free == (1..(Cardinality(Turns) + 2)) \ ({bind.id} \cup {turn[t].id : t \in Turns}) IN
  CHOOSE i \in Free : \A j \in Free : i <= j

\* The partial unique index counts an expired row until it is ended.
insertSessionBinding(a) == bind' = [id |-> FreshID, acct |-> a, expired |-> FALSE]

\* Two tries are made before the call fails for the client to retry.
Again(t) ==
  IF turn[t].tries < 1
  THEN Set(t, [turn[t] EXCEPT !.pc = "resolve", !.tries = @ + 1, !.id = 0, !.acct = 0])
  ELSE Done(t)

StartTurn(t) ==
  /\ turn[t].pc = "idle"
  /\ PickCandidates
  /\ IF CandidateList = <<>> THEN UNCHANGED turn
     ELSE IF chain THEN Set(t, [NoTurn EXCEPT !.cands = CandidateList, !.pc = "resolve"])
     ELSE DispatchTo(t, Head(CandidateList))
  /\ UNCHANGED cooled /\ UNCHANGED world

\* The binding and then its account are read.
Resolve(t) ==
  /\ turn[t].pc = "resolve"
  /\ LET b == GetActiveSessionBinding IN
     Set(t, [turn[t] EXCEPT !.id = b.id, !.acct = b.acct,
                            !.pc = IF b.id = 0 THEN "bind" ELSE IF Schedulable(b.acct) THEN "touch" ELSE "migrate"])
  /\ UNCHANGED <<cache, cooled, rr>> /\ UNCHANGED world

Member(a, s) == \E i \in 1..Len(s) : s[i] = a

\* A binding ended since counts as an unusable one; the candidates are cut down to its account.
TouchSessionBinding(t) ==
  /\ turn[t].pc = "touch"
  /\ IF bind.id # turn[t].id THEN Set(t, [turn[t] EXCEPT !.pc = "migrate"])
     ELSE IF Member(turn[t].acct, turn[t].cands) THEN DispatchTo(t, turn[t].acct)
     ELSE Done(t)
  /\ UNCHANGED <<cache, cooled, rr>> /\ UNCHANGED world

\* Bind reads the account, then inserts.
Bind(t) ==
  /\ turn[t].pc = "bind"
  /\ IF acc[Head(turn[t].cands)].st = "active"
     THEN Set(t, [turn[t] EXCEPT !.pc = "insert", !.acct = Head(turn[t].cands)]) ELSE Again(t)
  /\ UNCHANGED <<cache, cooled, rr>> /\ UNCHANGED world

InsertBinding(t) ==
  /\ turn[t].pc = "insert"
  /\ IF bind.id # 0 THEN Again(t) /\ UNCHANGED bind
     ELSE insertSessionBinding(turn[t].acct) /\ DispatchTo(t, turn[t].acct)
  /\ UNCHANGED <<acc, cache, cooled, rr, chain, probing, taken, changes>>

\* Migrate reads the target account and, outside its transaction, the binding to end.
Migrate(t) ==
  /\ turn[t].pc = "migrate"
  /\ IF acc[Head(turn[t].cands)].st = "active"
     THEN /\ Set(t, [turn[t] EXCEPT !.pc = "move", !.id = GetActiveSessionBinding.id])
          /\ UNCHANGED <<cache, rr>>
     ELSE IF turn[t].refreshed THEN Again(t) /\ UNCHANGED <<cache, rr>>
     ELSE refreshCandidates(t)
  /\ UNCHANGED cooled /\ UNCHANGED world

\* MUTANT: the new binding is inserted without ending the old one.
InsertOnly(t) == bind.id = 0

\* EndSessionBindingTx ends the row read, if it is still live; then the pair must be free.
EndSessionBinding(t) == bind.id \in {0, turn[t].id}

MigrateTx(t) ==
  /\ turn[t].pc = "move"
  /\ IF EndSessionBinding(t)
     THEN /\ insertSessionBinding(Head(turn[t].cands))
          /\ DispatchTo(t, Head(turn[t].cands))
          /\ UNCHANGED <<cache, rr>>
     ELSE /\ IF turn[t].refreshed THEN Again(t) /\ UNCHANGED <<cache, rr>> ELSE refreshCandidates(t)
          /\ UNCHANGED bind
  /\ UNCHANGED <<acc, cooled, chain, probing, taken, changes>>

\* AcquireUpstreamLease reads the account's status again, under a share lock.
AcquireUpstreamLease(a) == acc[a].st = "active"

\* The lease and the call: it is served, fails and cools the account, or is refused.
Dispatch(t) ==
  /\ turn[t].pc = "dispatch"
  /\ \/ /\ AcquireUpstreamLease(turn[t].acct)
        /\ Set(t, [turn[t] EXCEPT !.pc = "persist"]) /\ UNCHANGED <<cooled, changes>>
     \/ /\ AcquireUpstreamLease(turn[t].acct) /\ changes < MaxChanges
        /\ changes' = changes + 1
        /\ cooled' = cooled \cup {turn[t].acct} /\ Done(t)
     \/ ~AcquireUpstreamLease(turn[t].acct) /\ Done(t) /\ UNCHANGED <<cooled, changes>>
  /\ UNCHANGED <<acc, cache, rr, chain, bind, probing, taken>>

\* persistChain: the first turn's chain row, then the binding; a failed bind is only logged.
persistChain(t) ==
  /\ turn[t].pc = "persist"
  /\ IF chain THEN Done(t) /\ UNCHANGED <<chain, bind>>
     ELSE /\ chain' = TRUE /\ Done(t)
          /\ IF bind.id = 0 /\ acc[turn[t].acct].st = "active"
             THEN insertSessionBinding(turn[t].acct) \/ UNCHANGED bind
             ELSE UNCHANGED bind
  /\ UNCHANGED <<acc, cache, cooled, rr, probing, taken, changes>>
-----------------------------------------------------------------------------
(* Around the turns.                                                       *)

\* EndExpiredSessionBindings, first thing in a health pass.
EndExpiredSessionBindings ==
  /\ bind.id # 0 /\ bind.expired /\ bind' = NoBind
  /\ UNCHANGED <<acc, cache, cooled, rr, chain, turn, probing, taken, changes>>

\* An account leaves or rejoins the pool; one that becomes invalid ends its bindings.
Flip(a) ==
  /\ changes < MaxChanges /\ changes' = changes + 1
  /\ acc' = [acc EXCEPT ![a].st = IF @ = "active" THEN "out" ELSE "active"]
  /\ bind' = IF acc[a].st = "active" /\ bind.acct = a THEN NoBind ELSE bind
  /\ UNCHANGED <<cache, cooled, rr, chain, turn, probing, taken>>

\* A quota call starts; what it answers belongs to the moment it was made.
observeQuota(a) ==
  /\ probing = NoProbe /\ taken < MaxObs /\ taken' = taken + 1
  /\ \E l \in {0, 1} : probing' = [acct |-> a, at |-> taken + 1, left |-> l]
  /\ UNCHANGED <<acc, cache, cooled, rr, chain, bind, turn, changes>>

\* MUTANT: the last answer to arrive is stored.
StoreAny(a, at, left) == acc' = [acc EXCEPT ![a].obs = at, ![a].left = left]

UpdateUpstreamAccountQuota(a, at, left) ==
  acc' = IF acc[a].obs <= at THEN [acc EXCEPT ![a].obs = at, ![a].left = left] ELSE acc

\* The answer arrives.  Another instance's probe, made later, may have been stored first.
QuotaArrives ==
  /\ probing # NoProbe /\ probing' = NoProbe
  /\ UpdateUpstreamAccountQuota(probing.acct, probing.at, probing.left)
  /\ UNCHANGED <<cache, cooled, rr, chain, bind, turn, taken, changes>>

RecordQuotaSnapshot(a) ==
  /\ taken < MaxObs /\ taken' = taken + 1
  /\ UpdateUpstreamAccountQuota(a, taken + 1, 1)
  /\ UNCHANGED <<cache, cooled, rr, chain, bind, turn, probing, changes>>

BindingExpires ==
  /\ changes < MaxChanges /\ bind.id # 0 /\ ~bind.expired
  /\ changes' = changes + 1 /\ bind' = [bind EXCEPT !.expired = TRUE]
  /\ UNCHANGED <<acc, cache, cooled, rr, chain, turn, probing, taken>>

CacheExpires ==
  /\ cache.fresh /\ cache' = [fresh |-> FALSE, rows |-> {}]
  /\ UNCHANGED <<acc, cooled, rr, chain, bind, turn, probing, taken, changes>>

CooldownEnds ==
  /\ cooled # {} /\ cooled' = {}
  /\ UNCHANGED <<acc, cache, rr, chain, bind, turn, probing, taken, changes>>

Step(t) ==
  \/ StartTurn(t) \/ Resolve(t) \/ TouchSessionBinding(t) \/ Bind(t) \/ InsertBinding(t)
  \/ Migrate(t) \/ MigrateTx(t) \/ Dispatch(t) \/ persistChain(t)

Next ==
  \/ \E t \in Turns : Step(t)
  \/ EndExpiredSessionBindings \/ QuotaArrives \/ BindingExpires \/ CacheExpires \/ CooldownEnds
  \/ \E a \in Accts : Flip(a)
  \/ \E a \in Metered : observeQuota(a) \/ RecordQuotaSnapshot(a)

Spec == Init /\ [][Next]_convvars

\* Clients retry, health passes run, caches and cooldowns end.
Fairness ==
  /\ \A t \in Turns : WF_convvars(Step(t))
  /\ WF_convvars(EndExpiredSessionBindings) /\ WF_convvars(CacheExpires) /\ WF_convvars(CooldownEnds)

FairSpec == Spec /\ Fairness
-----------------------------------------------------------------------------
(* A late quota answer never replaces a newer one (oauth_repo.go:293): what routing *)
(* holds an account to be worth only moves forward in time                          *)
QuotaForward == [][\A a \in Accts : acc'[a].obs >= acc[a].obs]_convvars

(* A conversation is never wedged: while an account stays schedulable its turns, retried, *)
(* keep being dispatched, whatever binding was left behind by an expiry, an account that  *)
(* dropped out or a migration that lost its race (session_binding.go:145, service.go:535) *)
NeverWedged ==
  (\E a \in Accts : <>[](Schedulable(a))) => []<>(\E t \in Turns : turn[t].pc = "persist")
=============================================================================
