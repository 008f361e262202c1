------------------------------- MODULE Wallet -------------------------------
(***************************************************************************)
(* The prepaid wallet of one account in one currency: an append-only       *)
(* ledger of entries, the holds of calls in flight, and the customer's     *)
(* monthly limit.  No balance is stored: every gate adds the ledger up.    *)
(*                                                                         *)
(* An admission reads the ledger, the holds and the month's spend in three *)
(* statements.  What keeps them consistent is the lock on the account row: *)
(* admissions, releases, top-ups, refunds, adjustments and reversals take  *)
(* it FOR UPDATE, and a settlement meets it through the foreign key of the *)
(* ledger row it inserts.                                                  *)
(***************************************************************************)
EXTENDS Integers, FiniteSets, Functions

CONSTANTS
    Requests,   \* wallet-funded calls
    Amount,     \* Amount[r]: the hold of a call
    Charges,    \* what a settlement can come to
    Movements,  \* top-ups, refunds and operator adjustments
    Command,    \* Command[m]: the entry a movement writes
    Limits,     \* monthly limits the customer chooses from
    MaxMonth,   \* bound on the months
    NoOne,      \* nobody holds the account row
    NoLimit     \* no monthly limit set

Sources == {"cash", "bonus"}

ASSUME WalletAssumption ==
    /\ IsFiniteSet(Requests) /\ Amount \in [Requests -> Nat]
    /\ Charges \subseteq Nat /\ Limits \subseteq Nat /\ MaxMonth \in Nat
    /\ Command \in [Movements -> [type : {"topup", "refund", "adjustment"},
                                  dir : {"credit", "debit"}, source : Sources, amount : Nat]]
    /\ NoOne \notin Requests /\ NoLimit \notin Nat

VARIABLES
    wallet,   \* the wallet row: it exists, overage_enabled, the monthly limit
    entries,  \* the ledger: business key |-> entry
    call,     \* call[r]: where the call is, or why it was refused
    split,    \* split[r]: the cash and bonus parts of its hold
    charge,   \* charge[r]: its settled amount
    at,       \* at[r]: the month its admission time lies in
    locker,   \* the admission that holds the account row
    seen,     \* what that admission has read so far
    month     \* the current UTC month

vars == <<wallet, entries, call, split, charge, at, locker, seen, month>>

Reading == {"entries", "holds", "spend"}
Refusals == {"disabled", "negative", "cap", "balance"}

\* Every row and every call has its type; in particular no part of a hold is
\* negative, however far a source is in debt (SplitFreeze).
TypeOK ==
    /\ wallet \in [exists : BOOLEAN, enabled : BOOLEAN, limit : Limits \cup {NoLimit}]
    /\ call \in [Requests -> {"new", "pinned", "held", "settled", "released"} \cup Reading \cup Refusals]
    /\ split \in [Requests -> [Sources -> Nat]]
    /\ charge \in [Requests -> Nat]
    /\ at \in [Requests -> Nat] /\ month \in Nat
    /\ locker \in Requests \cup {NoOne}

\* Nothing read yet.
Unread == [net |-> [s \in Sources |-> 0], held |-> [s \in Sources |-> 0], spent |-> 0]

Init ==
    /\ wallet = [exists |-> FALSE, enabled |-> FALSE, limit |-> NoLimit]
    /\ entries = [k \in {} |-> 0]
    /\ call = [r \in Requests |-> "new"]
    /\ split = [r \in Requests |-> [s \in Sources |-> 0]]
    /\ charge = [r \in Requests |-> 0]
    /\ at = [r \in Requests |-> 0]
    /\ locker = NoOne
    /\ seen = Unread
    /\ month = 1

-----------------------------------------------------------------------------
\* The sums a gate reads.

Signed(e) == IF e.dir = "credit" THEN e.amount ELSE -e.amount

\* Credits minus debits of one source.
NetOf(es, s) ==
    SumFunctionOnSet([k \in DOMAIN es |-> Signed(es[k])], {k \in DOMAIN es : es[k].source = s})

\* The part of one source in a set of holds.
HeldOf(hs, sp, s) == SumFunctionOnSet([r \in hs |-> sp[r][s]], hs)

\* Consumption of one month less the reversals written in that month.
SpentOf(es, mo) ==
    SumFunctionOnSet([k \in DOMAIN es |-> -Signed(es[k])],
                     {k \in DOMAIN es : es[k].month = mo /\ "consume" \in {es[k].type, es[k].of}})

Net == [s \in Sources |-> NetOf(entries, s)]
Holding == {r \in Requests : call[r] = "held"}
Held == [s \in Sources |-> HeldOf(Holding, split, s)]
Available(s) == Net[s] - Held[s]

-----------------------------------------------------------------------------
\* Admission.

\* The gateway fixes the admission time, and looks whether there is a wallet.
Pin(r) ==
    /\ call[r] = "new"
    /\ call' = [call EXCEPT ![r] = IF wallet.exists THEN "pinned" ELSE "balance"]
    /\ at' = [at EXCEPT ![r] = month]
    /\ UNCHANGED <<wallet, entries, split, charge, locker, seen, month>>

\* lockAccountTx, then the first sum.
ReadEntries(r) ==
    /\ call[r] = "pinned" /\ locker = NoOne
    /\ locker' = r
    /\ seen' = [Unread EXCEPT !.net = Net]
    /\ call' = [call EXCEPT ![r] = "entries"]
    /\ UNCHANGED <<wallet, entries, split, charge, at, month>>

ReadHolds(r) ==
    /\ call[r] = "entries"
    /\ seen' = [seen EXCEPT !.held = Held]
    /\ call' = [call EXCEPT ![r] = "holds"]
    /\ UNCHANGED <<wallet, entries, split, charge, at, locker, month>>

\* The spend of the month of the admission time.
ReadSpend(r) ==
    /\ call[r] = "holds"
    /\ seen' = [seen EXCEPT !.spent = SpentOf(entries, at[r])]
    /\ call' = [call EXCEPT ![r] = "spend"]
    /\ UNCHANGED <<wallet, entries, split, charge, at, locker, month>>

\* MUTANT: what is frozen of the bonus is not taken off.
DerivedWithoutHeldBonus(s) ==
    IF s = "bonus" THEN seen.net[s] ELSE seen.net[s] - seen.held[s]

\* DeriveWalletBalance from the sums read.
Derived(s) == seen.net[s] - seen.held[s]

\* MUTANT: a negative source is not clamped.
SplitUnclamped(amount) ==
    LET bonus == IF amount < Derived("bonus") THEN amount ELSE Derived("bonus")
    IN [s \in Sources |-> IF s = "bonus" THEN bonus ELSE amount - bonus]

\* SplitFreeze: the bonus first, a negative source gives nothing.
SplitFreeze(amount) ==
    LET free == IF Derived("bonus") < 0 THEN 0 ELSE Derived("bonus")
        bonus == IF amount < free THEN amount ELSE free
    IN [s \in Sources |-> IF s = "bonus" THEN bonus ELSE amount - bonus]

\* The monthly gate counts the settled spend and the holds in flight.
Counted == seen.spent + seen.held["cash"] + seen.held["bonus"]

\* MUTANT: only what is settled counts against the limit.
GateOnSettled(amount) ==
    IF ~wallet.enabled THEN "disabled"
    ELSE IF seen.spent < 0 THEN "negative"
    ELSE IF seen.spent + amount > wallet.limit THEN "cap"
    ELSE IF amount > 0 /\ Derived("cash") + Derived("bonus") < amount THEN "balance"
    ELSE "held"

\* MUTANT: a source in debt is left out of the balance.
GateClampedFirst(amount) ==
    LET Free(s) == IF Derived(s) < 0 THEN 0 ELSE Derived(s)
    IN IF ~wallet.enabled THEN "disabled"
       ELSE IF Counted < 0 THEN "negative"
       ELSE IF Counted + amount > wallet.limit THEN "cap"
       ELSE IF amount > 0 /\ Free("cash") + Free("bonus") < amount THEN "balance"
       ELSE "held"

\* CheckWalletSpend, then the balance check of SplitFreeze.
Gate(amount) ==
    IF ~wallet.enabled THEN "disabled"
    ELSE IF Counted < 0 THEN "negative"
    ELSE IF Counted + amount > wallet.limit THEN "cap"
    ELSE IF amount > 0 /\ Derived("cash") + Derived("bonus") < amount THEN "balance"
    ELSE "held"

\* The hold is written and the transaction commits; a hold of zero has an
\* empty split.
Freeze(r) ==
    /\ call[r] = "spend" /\ Gate(Amount[r]) = "held"
    /\ call' = [call EXCEPT ![r] = "held"]
    /\ split' = [split EXCEPT ![r] = IF Amount[r] > 0 THEN SplitFreeze(Amount[r]) ELSE @]
    /\ locker' = NoOne
    /\ seen' = Unread
    /\ UNCHANGED <<wallet, entries, charge, at, month>>

Refuse(r) ==
    /\ call[r] = "spend" /\ Gate(Amount[r]) # "held"
    /\ call' = [call EXCEPT ![r] = Gate(Amount[r])]
    /\ locker' = NoOne
    /\ seen' = Unread
    /\ UNCHANGED <<wallet, entries, split, charge, at, month>>

-----------------------------------------------------------------------------
\* The end of a call.

Entry(type, dir, source, amount, of) ==
    [type |-> type, dir |-> dir, source |-> source, amount |-> amount,
     of |-> of, month |-> month]

\* Appends entries with new keys.
WithEntries(new) == [k \in DOMAIN entries \cup DOMAIN new |->
                  IF k \in DOMAIN entries THEN entries[k] ELSE new[k]]

\* MUTANT: what exceeds the hold is dropped.
ConsumeWithinHold(r, c) ==
    LET bonus == IF c < split[r]["bonus"] THEN c ELSE split[r]["bonus"]
        cash == IF c - bonus < split[r]["cash"] THEN c - bonus ELSE split[r]["cash"]
    IN [s \in Sources |-> IF s = "bonus" THEN bonus ELSE cash]

\* SplitConsume: the frozen bonus first, the rest and any excess is cash.
SplitConsume(r, c) ==
    LET bonus == IF c < split[r]["bonus"] THEN c ELSE split[r]["bonus"]
    IN [s \in Sources |-> IF s = "bonus" THEN bonus ELSE c - bonus]

\* settleWallet writes one entry for each source with an amount.
Consumption(r, c) ==
    LET part == SplitConsume(r, c)
    IN [k \in {<<"consume", r, s>> : s \in {t \in Sources : part[t] > 0}} |->
           Entry("consume", "debit", k[3], part[k[3]], "none")]

\* MUTANT: the settlement does not wait for the account row.
SettleUnlocked(r) ==
    /\ call[r] = "held"
    /\ \E c \in Charges :
        /\ entries' = WithEntries(Consumption(r, c))
        /\ charge' = [charge EXCEPT ![r] = c]
    /\ call' = [call EXCEPT ![r] = "settled"]
    /\ UNCHANGED <<wallet, split, at, locker, seen, month>>

\* The ledger charge refers to the account: its row must be free.
Settle(r) ==
    /\ call[r] = "held" /\ locker = NoOne
    /\ \E c \in Charges :
        /\ entries' = WithEntries(Consumption(r, c))
        /\ charge' = [charge EXCEPT ![r] = c]
    /\ call' = [call EXCEPT ![r] = "settled"]
    /\ UNCHANGED <<wallet, split, at, locker, seen, month>>

Release(r) ==
    /\ call[r] = "held" /\ locker = NoOne
    /\ call' = [call EXCEPT ![r] = "released"]
    /\ UNCHANGED <<wallet, entries, split, charge, at, locker, seen, month>>

-----------------------------------------------------------------------------
\* Money in and out, and the customer's settings.

\* A top-up or an adjustment creates the wallet, a refund needs one; a
\* business key that is taken makes the transaction a conflict.
Move(m) ==
    LET c == Command[m]
    IN /\ locker = NoOne
       /\ c.type = "refund" => wallet.exists
       /\ <<"move", m>> \notin DOMAIN entries
       /\ entries' = WithEntries([k \in {<<"move", m>>} |->
                               Entry(c.type, c.dir, c.source, c.amount, "none")])
       /\ wallet' = [wallet EXCEPT !.exists = TRUE]
       /\ UNCHANGED <<call, split, charge, at, locker, seen, month>>

\* ReversalOf: the opposite direction, once, and never of a reversal.
Reverse(k) ==
    LET e == entries[k]
    IN /\ locker = NoOne
       /\ e.type # "reversal"
       /\ <<"reversal", k>> \notin DOMAIN entries
       /\ entries' = WithEntries([j \in {<<"reversal", k>>} |->
              Entry("reversal", IF e.dir = "debit" THEN "credit" ELSE "debit",
                    e.source, e.amount, e.type)])
       /\ UNCHANGED <<wallet, call, split, charge, at, locker, seen, month>>

\* Enabling the overage needs a limit.
SetOverage ==
    /\ locker = NoOne
    /\ \E on \in BOOLEAN, limit \in Limits \cup {NoLimit} :
        /\ on => limit # NoLimit
        /\ wallet' = [exists |-> TRUE, enabled |-> on, limit |-> limit]
    /\ UNCHANGED <<entries, call, split, charge, at, locker, seen, month>>

NextMonth ==
    /\ month < MaxMonth
    /\ month' = month + 1
    /\ UNCHANGED <<wallet, entries, call, split, charge, at, locker, seen>>

Next ==
    \/ \E r \in Requests :
        \/ Pin(r) \/ ReadEntries(r) \/ ReadHolds(r) \/ ReadSpend(r)
        \/ Freeze(r) \/ Refuse(r)
        \/ Settle(r) \/ Release(r)
    \/ \E m \in Movements : Move(m)
    \/ \E k \in DOMAIN entries : Reverse(k)
    \/ SetOverage \/ NextMonth

Spec == Init /\ [][Next]_vars

-----------------------------------------------------------------------------
\* No overdraft by admission (ReserveWallet): the balance the ledger and the
\* holds give at the moment of the freeze covers the hold, whatever settled,
\* was refunded or reversed while the admission added up.
FreezeCovered ==
    [][\A r \in Requests : Freeze(r) /\ Amount[r] > 0 =>
          ~(Available("cash") + Available("bonus") < Amount[r])]_vars

\* Each part of a hold comes out of money of that source (SplitFreeze): a
\* hold never takes a source into debt to spare the other.
SourceCovered ==
    [][\A r \in Requests, s \in Sources :
          Freeze(r) => split'[r][s] <= IF Available(s) > 0 THEN Available(s) ELSE 0]_vars

\* Concurrent admissions do not pass the monthly limit together
\* (CheckWalletSpend): spend, holds in flight and the new hold are within the
\* limit of the month the admission was made in.
CapRespected ==
    [][\A r \in Requests : Freeze(r) =>
          ~(SpentOf(entries, at[r]) + Held["cash"] + Held["bonus"] + Amount[r] > wallet.limit)]_vars

\* A settled call is debited exactly its charge, bonus only out of its own
\* hold; a call that is not settled is debited nothing (settleWalletLocked).
ConsumeIsCharge ==
    \A r \in Requests :
        LET Debit(s) == IF <<"consume", r, s>> \in DOMAIN entries
                        THEN entries[<<"consume", r, s>>].amount ELSE 0
        IN /\ Debit("cash") + Debit("bonus") = charge[r]
           /\ Debit("bonus") <= split[r]["bonus"]
           /\ call[r] # "settled" => charge[r] = 0

\* Debits no gate can refuse: refunds, operator debits and reversed credits,
\* and what charges exceed their holds by.
Withdrawn ==
    SumFunctionOnSet([k \in DOMAIN entries |-> entries[k].amount],
        {k \in DOMAIN entries : entries[k].dir = "debit" /\ entries[k].type # "consume"})
Excess ==
    SumFunctionOnSet([r \in Requests |-> charge[r] - Amount[r]], {r \in Requests : charge[r] > Amount[r]})

\* The balance is only ever negative by what no gate can refuse.
DebtIsUngated ==
    Available("cash") + Available("bonus") + Withdrawn + Excess >= 0

\* Whatever moves money while an admission adds up, the hold it writes is covered by the
\* balance, each part by its own source, and all holds together by the monthly limit.
HoldsCovered == FreezeCovered /\ SourceCovered /\ CapRespected

\* Charges are debited exactly, and the balance is negative only by what no gate can
\* refuse (settleWalletLocked).
DebitsExact == ConsumeIsCharge /\ DebtIsUngated
=============================================================================
