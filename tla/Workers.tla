------------------------------ MODULE Workers ------------------------------
(***************************************************************************)
(* Three small machines that several processes or goroutines drive.        *)
(*                                                                         *)
(* Migrations (internal/migrate, cmd/migrate): runners started together by *)
(* a deployment apply the files in order, under a session advisory lock.   *)
(* Each file and its ledger row are one transaction.                       *)
(*                                                                         *)
(* The analytics outbox (internal/analytics): an event whose first         *)
(* delivery failed is kept and sent again by the workers of two instances. *)
(* The rows are claimed without a lock, and a failure writes back the      *)
(* attempts the worker has read.  A worker holds a batch for at most Hold  *)
(* (each call is bounded by callTimeout).                                  *)
(*                                                                         *)
(* Remote credentials: the PayPal token cache (internal/billing/paypal)    *)
(* with one fetch at a time for all callers.                               *)
(***************************************************************************)
EXTENDS Naturals, Sequences, FiniteSets, FiniteSetsExt

CONSTANTS
    Runners, Files,              \* processes of cmd/migrate; migration files 1..Files
    Events, Senders,             \* analytics events; outbox workers
    MaxAttempts, Base, MaxBackoff, Hold,
    Getters, Life, Margin,       \* callers of GetOrFetch; expires_in, safetyMargin
    Short, MaxTTL,               \* the ttl of a token within the margin, and the longest
    Never,                       \* retryInfinity
    MaxNow

VARIABLES
    now,
    ledger, schema,  \* _migrations; the files whose SQL is committed, in order
    lock,            \* the session advisory lock: a runner, 0 for none
    run,             \* a runner: pc, ids read, next file
    row,             \* analytics_outbox: event -> status, attempts, next_attempt_at
    arrived,         \* events PostHog has
    claim,           \* a worker: the row it has read and when
    entry, flight,   \* the cached token (expiry of the token, of the entry); the inflight call
    get,             \* a caller of the cache
    fetches          \* fetches PayPal is serving

workvars == <<now, ledger, schema, lock, run, row, arrived, claim, entry, flight, get, fetches>>
migratevars == <<ledger, schema, lock, run>>
outboxvars == <<row, arrived, claim>>
tokenvars == <<entry, flight, get, fetches>>

Init ==
    /\ now = 0
    /\ ledger = {} /\ schema = <<>> /\ lock = 0
    /\ run = [r \in Runners |-> [pc |-> "start", read |-> {}, next |-> 1]]
    /\ row = [e \in Events |-> [status |-> "none", attempts |-> 0, due |-> 0]]
    /\ arrived = {}
    /\ claim = [w \in Senders |-> [e |-> 0, attempts |-> 0, since |-> 0, sent |-> FALSE]]
    /\ entry = [dies |-> 0, until |-> 0]
    /\ flight = 0
    /\ get = [g \in Getters |-> [pc |-> "idle", dies |-> 0]]
    /\ fetches = 0

-----------------------------------------------------------------------------
(* Migrations *)

\* MUTANT: no lock is taken.
ApplyUnlocked(r) ==
    /\ run[r].pc = "start"
    /\ run' = [run EXCEPT ![r].pc = "locked"]
    /\ UNCHANGED <<now, lock, ledger, schema, outboxvars, tokenvars>>

\* Apply begins with the ledger's table and pg_advisory_lock, a session
\* lock that is waited for.
Apply(r) ==
    /\ run[r].pc = "start" /\ lock = 0
    /\ lock' = r
    /\ run' = [run EXCEPT ![r].pc = "locked"]
    /\ UNCHANGED <<now, ledger, schema, outboxvars, tokenvars>>

ReadLedger(r) ==
    /\ run[r].pc = "locked"
    /\ run' = [run EXCEPT ![r].pc = "apply", ![r].read = ledger]
    /\ UNCHANGED <<now, ledger, schema, lock, outboxvars, tokenvars>>

\* A file's SQL and its ledger row in one transaction.  A duplicate row, or
\* SQL that fails, ends the run; nothing of the file stays.
applyOne(r) ==
    LET f == run[r].next IN
    /\ run[r].pc = "apply" /\ f <= Files
    /\ \/ /\ f \in run[r].read
          /\ run' = [run EXCEPT ![r].next = f + 1] /\ UNCHANGED <<ledger, schema>>
       \/ /\ f \notin run[r].read /\ f \notin ledger
          /\ ledger' = ledger \cup {f} /\ schema' = Append(schema, f)
          /\ run' = [run EXCEPT ![r].next = f + 1]
       \/ /\ f \notin run[r].read /\ f \in ledger
          /\ run' = [run EXCEPT ![r].pc = "duplicate"] /\ UNCHANGED <<ledger, schema>>
       \/ /\ f \notin run[r].read
          /\ run' = [run EXCEPT ![r].pc = "failed"] /\ UNCHANGED <<ledger, schema>>
    /\ UNCHANGED <<now, lock, outboxvars, tokenvars>>

\* The end of the run: COMMIT or ROLLBACK of the locking transaction keeps
\* the session's lock; the process's exit gives it up.
RunnerExits(r) ==
    /\ \/ run[r].pc = "apply" /\ run[r].next > Files
       \/ run[r].pc \in {"failed", "duplicate"}
    /\ lock' = IF lock = r THEN 0 ELSE lock
    /\ run' = [run EXCEPT ![r] = [pc |-> IF run[r].pc = "apply" THEN "done" ELSE "exited",
                                  read |-> {}, next |-> 1]]
    /\ UNCHANGED <<now, ledger, schema, outboxvars, tokenvars>>

-----------------------------------------------------------------------------
(* The analytics outbox *)

\* Capture's own attempt: delivered, or failed (perhaps after it arrived)
\* and saved once per event.
SaveFailed(e) ==
    /\ row[e].status = "none"
    /\ \E there \in BOOLEAN : arrived' = IF there THEN arrived \cup {e} ELSE arrived
    /\ row' = [row EXCEPT ![e] = [status |-> "pending", attempts |-> 0, due |-> now]]
    /\ UNCHANGED <<now, claim, migratevars, tokenvars>>

Due == {e \in Events : row[e].status = "pending" /\ row[e].due <= now}

\* The row locks end with the scan.
ListDue(w) ==
    /\ claim[w].e = 0
    /\ \E e \in Due : claim' = [claim EXCEPT ![w] = [e |-> e, attempts |-> row[e].attempts, since |-> now, sent |-> FALSE]]
    /\ UNCHANGED <<now, row, arrived, migratevars, tokenvars>>

\* MUTANT: the delay does not grow.
SameBackoff(attempts) == Base

retryBackoff(attempts) == Min({Base * 2^(attempts - 1), MaxBackoff})

Reschedule(e, attempts, at) ==
    row' = IF row[e].status = "pending" THEN [row EXCEPT ![e].attempts = attempts, ![e].due = at] ELSE row

\* The last failure parks the row for good.
handleFailure(w) ==
    LET n == claim[w].attempts + 1
    IN  Reschedule(claim[w].e, n, IF n >= MaxAttempts THEN Never ELSE now + retryBackoff(n))

NoClaim == [e |-> 0, attempts |-> 0, since |-> 0, sent |-> FALSE]

\* A redelivery: it arrives or not, and the worker learns so or takes it for
\* a failure.
Redeliver(w) ==
    /\ claim[w].e # 0 /\ ~claim[w].sent
    /\ \/ /\ arrived' = arrived \cup {claim[w].e}
          /\ claim' = [claim EXCEPT ![w].sent = TRUE] /\ UNCHANGED row
       \/ /\ \E there \in BOOLEAN : arrived' = IF there THEN arrived \cup {claim[w].e} ELSE arrived
          /\ handleFailure(w)
          /\ claim' = [claim EXCEPT ![w] = NoClaim]
    /\ UNCHANGED <<now, migratevars, tokenvars>>

\* MarkSent may fail too: the row is sent again.
MarkSent(w) ==
    /\ claim[w].sent
    /\ \/ row' = IF row[claim[w].e].status = "pending" THEN [row EXCEPT ![claim[w].e].status = "sent"] ELSE row
       \/ UNCHANGED row
    /\ claim' = [claim EXCEPT ![w] = NoClaim]
    /\ UNCHANGED <<now, arrived, migratevars, tokenvars>>

-----------------------------------------------------------------------------
(* The token cache *)

Hit == now < entry.until

\* A hit, a place among the waiters, or the lead.
GetOrFetch(g) ==
    /\ get[g].pc = "idle"
    /\ \/ /\ Hit /\ get' = [get EXCEPT ![g] = [pc |-> "idle", dies |-> entry.dies]] /\ UNCHANGED <<flight, fetches>>
       \/ /\ ~Hit /\ flight # 0 /\ get' = [get EXCEPT ![g].pc = "wait"] /\ UNCHANGED <<flight, fetches>>
       \/ /\ ~Hit /\ flight = 0 /\ flight' = g /\ fetches' = fetches + 1
          /\ get' = [get EXCEPT ![g] = [pc |-> "fetch", dies |-> 0]]
    /\ UNCHANGED <<now, entry, migratevars, outboxvars>>

Fetched(g) ==
    /\ get[g].pc = "fetch"
    /\ \E ok \in BOOLEAN : get' = [get EXCEPT ![g] = [pc |-> "store", dies |-> IF ok THEN now + Life ELSE 0]]
    /\ fetches' = fetches - 1
    /\ UNCHANGED <<now, entry, flight, migratevars, outboxvars>>

\* MUTANT: the inflight entry goes before the token is stored.
LeaveThenStore(g) ==
    /\ get[g].pc = "store"
    /\ flight' = IF flight = g THEN 0 ELSE flight
    /\ get' = [get EXCEPT ![g].pc = "leave"]
    /\ UNCHANGED <<now, entry, fetches, migratevars, outboxvars>>

\* The token is kept for its life less the margin, or a short while.
Store(g) ==
    /\ get[g].pc = "store"
    /\ entry' = IF get[g].dies = 0 THEN entry
                ELSE [dies |-> get[g].dies, until |-> now + Min({IF Life > Margin THEN Life - Margin ELSE Short, MaxTTL})]
    /\ get' = [get EXCEPT ![g].pc = "leave"]
    /\ UNCHANGED <<now, flight, fetches, migratevars, outboxvars>>

\* The inflight entry goes and the waiters are told, under one lock.
Leave(g) ==
    /\ get[g].pc = "leave"
    /\ flight' = 0
    /\ get' = [h \in Getters |-> IF h = g \/ get[h].pc = "wait" THEN [pc |-> "idle", dies |-> get[g].dies] ELSE get[h]]
    /\ UNCHANGED <<now, entry, fetches, migratevars, outboxvars>>

-----------------------------------------------------------------------------
\* A batch is worked off within Hold.
Tick ==
    /\ now < MaxNow
    /\ \A w \in Senders : claim[w].e # 0 => now - claim[w].since < Hold
    /\ now' = now + 1
    /\ UNCHANGED <<migratevars, outboxvars, tokenvars>>

Next ==
    \/ \E r \in Runners : Apply(r) \/ ReadLedger(r) \/ applyOne(r) \/ RunnerExits(r)
    \/ \E e \in Events : SaveFailed(e)
    \/ \E w \in Senders : ListDue(w) \/ Redeliver(w) \/ MarkSent(w)
    \/ \E g \in Getters : GetOrFetch(g) \/ Fetched(g) \/ Store(g) \/ Leave(g)
    \/ Tick

Spec == Init /\ [][Next]_workvars

-----------------------------------------------------------------------------
\* The files are applied in order and once each, the ledger names those
\* that are, and no runner falls over the row of another.
MigrationsInOrder ==
    /\ schema = [i \in 1..Len(schema) |-> i]
    /\ ledger = 1..Len(schema)
    /\ \A r \in Runners : run[r].pc # "duplicate"

\* A parked event is never due again, although a slow worker may still
\* write back the attempts it has read before: no batch lasts as long as
\* the delay before the last attempt.
StaysParked == \A e \in Events : row[e].due = Never => row'[e].due = Never
DeadStaysDead == [][StaysParked]_workvars

\* An event is forgotten only after it has arrived.
SentHasArrived == \A e \in Events : row[e].status = "sent" => e \in arrived

\* One fetch at a time, and none while a stored token is good.
OneFetch == fetches <= 1 /\ Cardinality({g \in Getters : get[g].pc \in {"fetch", "store", "leave"}}) <= 1
=============================================================================
