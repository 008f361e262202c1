------------------------------ MODULE Dispatch ------------------------------
(***************************************************************************)
(* Concurrency leases and the requests that hold them.  An admitted        *)
(* request holds a lease of its billing account and, for each upstream     *)
(* call, a lease of the upstream account it calls.  A keeper renews both   *)
(* while the call or the stream runs.  A lease that is not renewed in time *)
(* is reclaimed by whoever next wants the slot, and the first owner learns *)
(* of it when it next renews or checks.                                    *)
(*                                                                         *)
(* Time advances in intervals of the keeper's ticker, a third of the       *)
(* leases' lifetime.  Quota, prices and settlement are in Billing.         *)
(***************************************************************************)
EXTENDS Integers, Sequences, FiniteSets

CONSTANTS
    Requests,
    Streams,      \* the requests that ask for a stream
    Customer,     \* the billing account of all of them
    Accounts,     \* upstream accounts
    Limit,        \* Limit[s]: slots of the billing account, of each upstream account
    Candidates,   \* Candidates[r]: the accounts of its candidates, in failover order
    MaxAttempts,
    TTL,          \* lifetime of a lease, in intervals
    MaxFaults,    \* bound on storage errors, lost commits and crashes
    MaxSwitches   \* bound on upstream accounts being disabled or enabled

Scopes == Accounts \cup {Customer}

ASSUME DispatchAssumption ==
    /\ IsFiniteSet(Requests) /\ Streams \subseteq Requests
    /\ Customer \notin Accounts
    /\ Limit \in [Scopes -> Nat \ {0}]
    /\ Candidates \in [Requests -> Seq(Accounts)]
    /\ MaxAttempts \in Nat /\ TTL \in Nat \ {0}
    /\ MaxFaults \in Nat /\ MaxSwitches \in Nat

VARIABLES
    row,      \* row[s][r]: the lease row of request r in scope s
    active,   \* upstream accounts in service
    req,      \* req[r]: where the request is, its attempt, its keeper
    due,      \* requests whose keeper has not yet renewed in this interval
    renewed,  \* requests whose keeper has renewed both leases in this interval
    faults, switches

vars == <<row, active, req, due, renewed, faults, switches>>

NoRow == [state |-> "none", left |-> 0]

Init ==
    /\ row = [s \in Scopes |-> [r \in Requests |-> NoRow]]
    /\ active = Accounts
    /\ req = [r \in Requests |-> [pc |-> "new", try |-> 0, keeper |-> "off"]]
    /\ due = {} /\ renewed = {}
    /\ faults = 0 /\ switches = 0

-----------------------------------------------------------------------------
(* The lease protocol of lease_repo.go. *)

\* MUTANT: the expiry is not looked at.
ReclaimAny(l) == IF l.state = "held" THEN [state |-> "expired", left |-> 0] ELSE l

\* Held and past its expiry.
Reclaim(l) == IF l.state = "held" /\ l.left = 0 THEN [state |-> "expired", left |-> 0] ELSE l

Reclaimed(s) == [q \in Requests |-> Reclaim(row[s][q])]

HeldIn(rows) == {q \in Requests : rows[q].state = "held"}

\* MUTANT: off by one.
FullPastLimit(s) == Cardinality(HeldIn(Reclaimed(s))) > Limit[s]

\* Under the scope's advisory lock.
Full(s) == Cardinality(HeldIn(Reclaimed(s))) >= Limit[s]

Granted(s, r) == [Reclaimed(s) EXCEPT ![r] = [state |-> "held", left |-> TTL]]

\* CheckLease.
Live(s, r) == row[s][r].state = "held" /\ row[s][r].left > 0

\* ReleaseLease of the leases S of r; of those in kept the statement fails.
Dropped(r, S, kept) ==
    [s \in Scopes |-> [q \in Requests |->
        IF q = r /\ s \in S \ kept /\ row[s][q].state = "held"
        THEN [state |-> "released", left |-> 0] ELSE row[s][q]]]

Drop(r, S, kept) ==
    /\ kept = {} \/ faults < MaxFaults
    /\ row' = Dropped(r, S, kept)
    /\ faults' = IF kept = {} THEN faults ELSE faults + 1

\* MUTANT: renewal does not look at the state.
OwnsByToken(s, r) == row[s][r].state # "none"

\* The condition of RenewLease: expired, but not yet reclaimed, still counts.
Owns(s, r) == row[s][r].state = "held"

-----------------------------------------------------------------------------
(* The request, in gateway/service.go. *)

Tries(r) == IF Len(Candidates[r]) < MaxAttempts THEN Len(Candidates[r]) ELSE MaxAttempts

\* The account of the attempt under way.
At(r) == Candidates[r][req[r].try]

Goto(r, pc) == req' = [req EXCEPT ![r].pc = pc]

\* MUTANT: the keeper runs on.
PausedNever(k) == k

\* Pause or Stop: what the keeper has reported stays readable.
Paused(k) == IF k = "on" THEN "off" ELSE k

\* The keeper stops and the request goes on to pc.
Leave(r, pc) ==
    /\ req' = [req EXCEPT ![r].pc = pc, ![r].keeper = Paused(@)]
    /\ due' = due \ {r} /\ renewed' = renewed \ {r}

Quiet == UNCHANGED <<due, renewed>>

\* Admission takes the lease of the billing account, or fails with the
\* transaction, reclamation included.
Admit(r) ==
    /\ req[r].pc = "new"
    /\ IF Full(Customer)
       THEN Goto(r, "rejected") /\ UNCHANGED row
       ELSE Goto(r, "routing") /\ row' = [row EXCEPT ![Customer] = Granted(Customer, r)]
    /\ Quiet /\ UNCHANGED <<active, faults, switches>>

\* AcquireUpstreamLease: the account is out of service or full.
Refused(a) == a \notin active \/ Full(a)

\* persistAttempt with the next candidate: it is refused, the request has a row
\* there already, or it gets the lease.
Persist(r, kept) ==
    LET a == Candidates[r][req[r].try + 1]
        taken == Reclaimed(a)[r].state # "none"
    IN /\ req[r].pc = "routing" /\ req[r].try < Tries(r)
       /\ \/ /\ Refused(a) /\ kept = {}
             /\ req' = [req EXCEPT ![r].try = @ + 1]
             /\ UNCHANGED <<row, faults>>
          \/ /\ ~Refused(a) /\ taken /\ kept \subseteq {Customer}
             /\ Goto(r, "failed")
             /\ Drop(r, {Customer}, kept)
          \/ /\ ~Refused(a) /\ ~taken /\ kept = {}
             /\ req' = [req EXCEPT ![r].pc = "leased", ![r].try = @ + 1]
             /\ row' = [row EXCEPT ![a] = Granted(a, r)]
             /\ UNCHANGED faults
       /\ Quiet /\ UNCHANGED <<active, switches>>

\* Its transaction fails, or commits unseen: the admission is released.
PersistFails(r) ==
    LET a == Candidates[r][req[r].try + 1]
        able == ~Refused(a) /\ Reclaimed(a)[r].state = "none"
        freed == Dropped(r, {Customer}, {})
    IN /\ req[r].pc = "routing" /\ req[r].try < Tries(r) /\ faults < MaxFaults
       /\ faults' = faults + 1
       /\ Goto(r, "failed")
       /\ \/ row' = freed
          \/ able /\ row' = [freed EXCEPT ![a] = Granted(a, r)]
       /\ Quiet /\ UNCHANGED <<active, switches>>

\* CheckLease just before the call; the keeper starts with the call.
Check(r, kept) ==
    /\ req[r].pc = "leased"
    /\ IF Live(At(r), r)
       THEN /\ req' = [req EXCEPT ![r].pc = "calling", ![r].keeper = "on"]
            /\ kept = {} /\ UNCHANGED <<row, faults>>
       ELSE /\ Goto(r, "routing")
            /\ kept \subseteq {At(r)} /\ Drop(r, {At(r)}, kept)
    /\ Quiet /\ UNCHANGED <<active, switches>>

\* The egress check or the credential refuses this candidate.
CandidateRefused(r, kept) ==
    /\ req[r].pc = "leased"
    /\ Goto(r, "routing")
    /\ kept \subseteq {At(r)} /\ Drop(r, {At(r)}, kept)
    /\ Quiet /\ UNCHANGED <<active, switches>>

\* 429, 5xx, connection refused: on to the next candidate.
CallFails(r, kept) ==
    /\ req[r].pc = "calling"
    /\ Leave(r, "routing")
    /\ kept \subseteq {At(r)} /\ Drop(r, {At(r)}, kept)
    /\ UNCHANGED <<active, switches>>

\* Rejected upstream, or the caller is gone: nothing was consumed.
CallRejected(r, kept) ==
    /\ req[r].pc \in {"calling", "leased"}
    /\ Leave(r, "rejected")
    /\ kept \subseteq {At(r), Customer} /\ Drop(r, {At(r), Customer}, kept)
    /\ UNCHANGED <<active, switches>>

\* The upstream may have executed: no retry, and the lease of the billing
\* account is left to expire.
CallUnknown(r, kept) ==
    /\ req[r].pc = "calling"
    /\ Leave(r, "parked")
    /\ kept \subseteq {At(r)} /\ Drop(r, {At(r)}, kept)
    /\ UNCHANGED <<active, switches>>

\* The whole answer is there, whatever the keeper has reported.
CallAnswers(r, kept) ==
    /\ req[r].pc = "calling" /\ r \notin Streams
    /\ Leave(r, "answered")
    /\ kept \subseteq {At(r), Customer} /\ Drop(r, {At(r), Customer}, kept)
    /\ UNCHANGED <<active, switches>>

\* The stream begins under a keeper of its own.
CallStreams(r) ==
    /\ req[r].pc = "calling" /\ r \in Streams
    /\ req' = [req EXCEPT ![r].pc = "streaming", ![r].keeper = "on"]
    /\ due' = due \ {r} /\ renewed' = renewed \ {r}
    /\ UNCHANGED <<row, active, faults, switches>>

\* The stream ends: completed unless the keeper lost a lease.
StreamEnds(r, kept) ==
    /\ req[r].pc = "streaming"
    /\ Leave(r, IF req[r].keeper = "fenced" THEN "broken" ELSE "answered")
    /\ kept \subseteq {At(r), Customer} /\ Drop(r, {At(r), Customer}, kept)
    /\ UNCHANGED <<active, switches>>

\* Every attempt failed.
Exhausted(r, kept) ==
    /\ req[r].pc = "routing" /\ req[r].try = Tries(r)
    /\ Goto(r, "failed")
    /\ kept \subseteq {Customer} /\ Drop(r, {Customer}, kept)
    /\ Quiet /\ UNCHANGED <<active, switches>>

\* The keeper's ticker: the upstream lease, then the customer's; a lost lease
\* ends the keeper.  Of those in missed the statement fails.
Renew(r, missed) ==
    LET lost(s) == s \notin missed /\ ~Owns(s, r)
        todo == IF lost(At(r)) THEN {} ELSE {At(r), Customer} \ missed
    IN /\ r \in due
       /\ missed \subseteq {At(r), Customer} /\ (missed = {} \/ faults < MaxFaults)
       /\ faults' = IF missed = {} THEN faults ELSE faults + 1
       /\ row' = [s \in Scopes |-> [q \in Requests |->
                   IF q = r /\ s \in todo /\ Owns(s, r)
                   THEN [state |-> "held", left |-> TTL] ELSE row[s][q]]]
       /\ req' = IF lost(At(r)) \/ lost(Customer)
                 THEN [req EXCEPT ![r].keeper = "fenced"] ELSE req
       /\ due' = due \ {r}
       /\ renewed' = IF missed = {} /\ ~lost(At(r)) /\ ~lost(Customer)
                     THEN renewed \cup {r} ELSE renewed
       /\ UNCHANGED <<active, switches>>

\* The process ends.
Crash(r) ==
    /\ req[r].pc \in {"routing", "leased", "calling", "streaming"} /\ faults < MaxFaults
    /\ faults' = faults + 1
    /\ Leave(r, "gone")
    /\ UNCHANGED <<row, active, switches>>

\* MUTANT: the time to the expiry runs on below zero.
AgedPastExpiry(l) == IF l.state = "held" THEN [l EXCEPT !.left = @ - 1] ELSE l

\* expires_at against the clock.
Aged(l) == IF l.state = "held" /\ l.left > 0 THEN [l EXCEPT !.left = @ - 1] ELSE l

\* An interval passes; a keeper's ticker does not fall behind.
Tick ==
    /\ due = {}
    /\ due' = {r \in Requests : req[r].keeper = "on"} /\ renewed' = {}
    /\ row' = [s \in Scopes |-> [r \in Requests |-> Aged(row[s][r])]]
    /\ UNCHANGED <<active, req, faults, switches>>

\* An operator, or the credential's failure, takes an account out of service
\* or back into it.
Switch(a) ==
    /\ switches < MaxSwitches
    /\ switches' = switches + 1
    /\ active' = IF a \in active THEN active \ {a} ELSE active \cup {a}
    /\ Quiet /\ UNCHANGED <<row, req, faults>>

\* DeleteTerminalLeases, long after the request is over.
Reap(s, r) ==
    /\ row[s][r].state \in {"released", "expired"}
    /\ req[r].pc \in {"rejected", "failed", "parked", "answered", "broken", "gone"}
    /\ row' = [row EXCEPT ![s][r] = NoRow]
    /\ Quiet /\ UNCHANGED <<active, req, faults, switches>>

Step(r) ==
    \/ Admit(r) \/ CallStreams(r)
    \/ \E kept \in SUBSET Scopes :
          \/ Persist(r, kept) \/ Check(r, kept) \/ CallFails(r, kept) \/ CallRejected(r, kept)
          \/ CallUnknown(r, kept) \/ CallAnswers(r, kept) \/ StreamEnds(r, kept)
          \/ CandidateRefused(r, kept) \/ Exhausted(r, kept) \/ Renew(r, kept)

Next ==
    \/ \E r \in Requests : Step(r) \/ PersistFails(r) \/ Crash(r)
    \/ \E a \in Accounts : Switch(a)
    \/ \E s \in Scopes, r \in Requests : Reap(s, r)
    \/ Tick

Spec == Init /\ [][Next]_vars

\* Tickers fire, and a call or stream ends in some way by its deadline.
FairSpec ==
    /\ Spec /\ WF_vars(Tick)
    /\ \A r \in Requests :
          /\ WF_vars(\E kept \in SUBSET Scopes : Renew(r, kept))
          /\ WF_vars(Admit(r) \/ \E kept \in SUBSET Scopes :
                        Persist(r, kept) \/ Check(r, kept) \/ Exhausted(r, kept))
          /\ WF_vars(CallStreams(r) \/ \E kept \in SUBSET Scopes :
                        \/ CallFails(r, kept) \/ CallRejected(r, kept) \/ CallUnknown(r, kept)
                        \/ CallAnswers(r, kept) \/ StreamEnds(r, kept))

-----------------------------------------------------------------------------
\* Every lease and request has its type; in particular an expired lease is not
\* aged any further.
TypeOK ==
    /\ row \in [Scopes -> [Requests -> [state : {"none", "held", "released", "expired"},
                                        left : 0..TTL]]]
    /\ active \subseteq Accounts
    /\ req \in [Requests -> [pc : {"new", "routing", "leased", "calling", "streaming", "rejected",
                                   "failed", "parked", "answered", "broken", "gone"},
                             try : 0..MaxAttempts,
                             keeper : {"off", "on", "fenced"}]]
    /\ due \subseteq Requests /\ renewed \subseteq Requests
    /\ faults \in 0..MaxFaults /\ switches \in 0..MaxSwitches

\* A scope never has more leases held than slots, through expiry, late
\* renewal, reclamation, lost commits and failed releases.
HeldWithinLimit ==
    \A s \in Scopes : Cardinality(HeldIn(row[s])) <= Limit[s]

\* A keeper that has renewed in this interval owns both its leases until the
\* next one: nobody reclaims a slot of a request that renews in time.
RenewedIsHeld ==
    \A r \in renewed : Live(At(r), r) /\ Live(Customer, r)

\* A request that lost a lease, or gave it back, never has it again: a late
\* renewal does not revive it.
LostStaysLost ==
    [][\A s \in Scopes, r \in Requests :
          row[s][r].state \in {"released", "expired"} => row'[s][r].state # "held"]_vars

\* A lease is kept as long as it is renewed in time and never comes back once it is lost
\* (RenewLease against AcquireLeaseTx and ReleaseLease).
SlotsKept == []RenewedIsHeld /\ LostStaysLost

\* Every slot comes back: the request gives it up or lets it expire, also
\* after a crash, a failed release or a call with unknown outcome.
SlotsComeBack ==
    \A s \in Scopes, r \in Requests :
        row[s][r].state = "held" ~> (row[s][r].state # "held" \/ row[s][r].left = 0)

\* A request that nothing but failed attempts stands against is given up only
\* after its last candidate: dispatchLoop says that a retryable failure makes
\* it "cool the account and fail over".
GivesUpLast ==
    \A r \in Requests : req[r].pc = "failed" /\ faults = 0 => req[r].try = Tries(r)

=============================================================================
