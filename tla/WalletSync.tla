----------------------------- MODULE WalletSync -----------------------------
(***************************************************************************)
(* How a settled top-up or refund reaches the wallet: the payment service  *)
(* writes an outbox message, and the workers of all server instances fetch *)
(* due messages without locking them, book the movement under its business *)
(* key and mark the message delivered in one transaction.  A message that  *)
(* fails waits for a time that doubles with each attempt.                  *)
(*                                                                         *)
(* Time advances in intervals of the worker's ticker.                      *)
(***************************************************************************)
EXTENDS Integers, Sequences, FiniteSets, SequencesExt

CONSTANTS
    Messages,    \* 1..N, the order in which the outbox numbers them
    TopupOf,     \* TopupOf[m]: the top-up a refund belongs to, 0 for a top-up
    Poison,      \* messages that no worker can ever book
    Workers,     \* one per server instance
    Batch,       \* messages per pass
    MaxBackoff,  \* the longest wait, in intervals
    MaxFaults    \* bound on failed transactions and restarts

VARIABLES
    status,    \* status[m]: none, pending or delivered
    attempts,  \* attempts[m]: failed attempts
    wait,      \* wait[m]: intervals until it is due again
    booked,    \* booked[m]: ledger entries with its business key
    worker,    \* worker[w]: the messages left in its pass, with the attempts read
    turn,      \* workers that have not yet run in this interval
    faults

vars == <<status, attempts, wait, booked, worker, turn, faults>>

Init ==
    /\ status = [m \in Messages |-> "none"]
    /\ attempts = [m \in Messages |-> 0]
    /\ wait = [m \in Messages |-> 0]
    /\ booked = [m \in Messages |-> 0]
    /\ worker = [w \in Workers |-> <<>>]
    /\ turn = Workers
    /\ faults = 0

-----------------------------------------------------------------------------
\* The payment service commits a payment, or a refund of it, with its message;
\* the dedup key makes further notices of it no-ops.
Announce(m) ==
    /\ status[m] = "none"
    /\ TopupOf[m] # 0 => status[TopupOf[m]] # "none"
    /\ status' = [status EXCEPT ![m] = "pending"]
    /\ UNCHANGED <<attempts, wait, booked, worker, turn, faults>>

\* A pass starts: the oldest messages that are due, without a lock.
Fetch(w) ==
    LET due == SetToSortSeq({m \in Messages : status[m] = "pending" /\ wait[m] = 0},
                            LAMBDA a, b : a < b)
        taken == SubSeq(due, 1, IF Len(due) < Batch THEN Len(due) ELSE Batch)
    IN /\ w \in turn /\ worker[w] = <<>>
       /\ worker' = [worker EXCEPT ![w] =
                       [i \in DOMAIN taken |-> [id |-> taken[i], attempts |-> attempts[taken[i]]]]]
       /\ turn' = turn \ {w}
       /\ UNCHANGED <<status, attempts, wait, booked, faults>>

\* MUTANT: a failed message is due again at once.
BackoffZero(n) == 0

\* MUTANT: no cap.
BackoffUncapped(n) == 2^(n + 1)

\* 5 s times 2^attempts, in intervals of 2 s, capped.
Backoff(n) == IF 2^(n + 1) < MaxBackoff THEN 2^(n + 1) ELSE MaxBackoff

\* reschedule; attempts are counted as far as they matter.
Reschedule(w) ==
    LET msg == Head(worker[w])
    IN /\ wait' = [wait EXCEPT ![msg.id] = Backoff(msg.attempts)]
       /\ attempts' = [attempts EXCEPT ![msg.id] = IF @ < MaxBackoff THEN @ + 1 ELSE @]

Done(w) == worker' = [worker EXCEPT ![w] = Tail(@)]

\* There is a wallet once a top-up was booked.
WalletExists == \E m \in Messages : TopupOf[m] = 0 /\ booked[m] > 0

\* MUTANT: every error counts as an earlier delivery.
TakesAnyErrorForReplay(m) == ~(m \notin Poison /\ (TopupOf[m] = 0 \/ WalletExists)) \/ booked[m] > 0

\* The business key is taken.
IsReplay(m) == m \notin Poison /\ (TopupOf[m] = 0 \/ WalletExists) /\ booked[m] > 0

\* MUTANT: the movement is booked under a new key each time.
BookableAgain(m) == m \notin Poison /\ (TopupOf[m] = 0 \/ WalletExists)

\* CreditTopupTx and RefundWalletTx: the payload is valid, a refund finds a
\* wallet, the business key is free.
Bookable(m) == m \notin Poison /\ (TopupOf[m] = 0 \/ WalletExists) /\ booked[m] = 0

\* Movement and delivery mark commit together.
Book(w) ==
    LET m == Head(worker[w]).id
    IN /\ worker[w] # <<>> /\ Bookable(m)
       /\ booked' = [booked EXCEPT ![m] = @ + 1]
       /\ status' = [status EXCEPT ![m] = "delivered"]
       /\ Done(w)
       /\ UNCHANGED <<attempts, wait, turn, faults>>

\* They commit, but the worker is told they did not.
BookUnseen(w) ==
    LET m == Head(worker[w]).id
    IN /\ worker[w] # <<>> /\ Bookable(m) /\ faults < MaxFaults
       /\ faults' = faults + 1
       /\ booked' = [booked EXCEPT ![m] = @ + 1]
       /\ status' = [status EXCEPT ![m] = "delivered"]
       /\ Reschedule(w)
       /\ Done(w)
       /\ UNCHANGED turn

\* markDeliveredAfterReplay.
MarkReplay(w) ==
    LET m == Head(worker[w]).id
    IN /\ worker[w] # <<>> /\ IsReplay(m)
       /\ status' = [status EXCEPT ![m] = "delivered"]
       /\ Done(w)
       /\ UNCHANGED <<attempts, wait, booked, turn, faults>>

\* An invalid payload, a refund without a wallet.
Refuse(w) ==
    LET m == Head(worker[w]).id
    IN /\ worker[w] # <<>> /\ ~Bookable(m) /\ ~IsReplay(m)
       /\ Reschedule(w)
       /\ Done(w)
       /\ UNCHANGED <<status, booked, turn, faults>>

\* The transaction fails and is rolled back.
Fail(w) ==
    /\ worker[w] # <<>> /\ faults < MaxFaults
    /\ faults' = faults + 1
    /\ Reschedule(w)
    /\ Done(w)
    /\ UNCHANGED <<status, booked, turn>>

\* The instance restarts; its first pass runs at once.
Crash(w) ==
    /\ worker[w] # <<>> /\ faults < MaxFaults
    /\ faults' = faults + 1
    /\ worker' = [worker EXCEPT ![w] = <<>>]
    /\ turn' = turn \cup {w}
    /\ UNCHANGED <<status, attempts, wait, booked>>

\* The next interval, once every pass of this one is over.
Tick ==
    /\ turn = {} /\ \A w \in Workers : worker[w] = <<>>
    /\ turn' = Workers
    /\ wait' = [m \in Messages |-> IF wait[m] > 0 THEN wait[m] - 1 ELSE 0]
    /\ UNCHANGED <<status, attempts, booked, worker, faults>>

Work(w) == Fetch(w) \/ Book(w) \/ MarkReplay(w) \/ Refuse(w)

Next ==
    \/ \E m \in Messages : Announce(m)
    \/ \E w \in Workers : Work(w) \/ BookUnseen(w) \/ Fail(w) \/ Crash(w)
    \/ Tick

Spec == Init /\ [][Next]_vars

\* The ticker fires for ever and a pass runs to its end.
FairSpec == Spec /\ WF_vars(Tick) /\ \A w \in Workers : WF_vars(Work(w))

-----------------------------------------------------------------------------
\* Every message has its type; in particular waits stay within the longest one
\* however often a message fails (outbox backoff).
TypeOK ==
    /\ status \in [Messages -> {"none", "pending", "delivered"}]
    /\ attempts \in [Messages -> 0..MaxBackoff]
    /\ wait \in [Messages -> 0..MaxBackoff]
    /\ booked \in [Messages -> Nat]
    /\ turn \subseteq Workers /\ faults \in 0..MaxFaults

\* Each payment moves the wallet at most once, however many workers deliver
\* its message and however their transactions end.
BookedOnce ==
    \A m \in Messages : booked[m] <= 1

\* A message that counts as delivered has moved the wallet: no error is
\* mistaken for an earlier delivery.
DeliveredIsBooked ==
    \A m \in Messages : status[m] = "delivered" <=> booked[m] > 0

\* Messages that can never be booked do not keep the others from being
\* booked, although they are older and a pass takes few messages.
BookedInTheEnd ==
    \A m \in Messages \ Poison :
        (status[m] = "pending" /\ (TopupOf[m] = 0 \/ TopupOf[m] \notin Poison)) ~> booked[m] = 1

\* Exactly once: a payment moves the wallet at most once, only what moved it counts as
\* delivered, and every message that can be booked is booked in the end.
BookedExactlyOnce == [](BookedOnce /\ DeliveredIsBooked) /\ BookedInTheEnd
=============================================================================
