----------------------------- MODULE LockOrder -----------------------------
(***************************************************************************)
(* The row locks of the accounting transactions and the order in which     *)
(* they are taken.  quota_repo.go fixes that order so that no two          *)
(* transactions wait for each other.  A transaction is the sequence of     *)
(* locks its statements take; what it computes is in Billing, Wallet,      *)
(* Corrections and Dispatch.                                               *)
(*                                                                         *)
(* PostgreSQL takes the locks: SELECT ... FOR UPDATE ("fu"), an UPDATE     *)
(* that leaves the key alone ("nku"), FOR SHARE ("sh"), and the FOR KEY    *)
(* SHARE ("ks") that an INSERT takes on each row its foreign keys name.    *)
(* A row the transaction has just inserted is invisible to the others, so  *)
(* it is left out, as are the rows of a request that are only ever locked  *)
(* under the lock of the request itself (its reservations and attempts).   *)
(***************************************************************************)
EXTENDS Integers, Sequences, FiniteSets

CONSTANTS
    Txns,      \* transactions that may be under way together
    Program    \* Program[t]: the locks t takes, in order

VARIABLE at    \* at[t]: how many of its locks t holds

Modes == {"ks", "sh", "nku", "fu"}

Conflicts == {<<"ks", "fu">>, <<"sh", "nku">>, <<"sh", "fu">>,
              <<"nku", "nku">>, <<"nku", "fu">>, <<"fu", "fu">>}

Compatible(m, n) == <<m, n>> \notin Conflicts /\ <<n, m>> \notin Conflicts

-----------------------------------------------------------------------------
(* The transactions, for one billing account. *)

Lock(row, mode) == [row |-> row, mode |-> mode]

Account == <<"account", "">>
Wallet == <<"wallet", "">>
Request(r) == <<"request", r>>
HoldRow(r) == <<"hold", r>>
Job(r) == <<"job", r>>

\* Admission holds its targets in windowOrderKey order.
Admit ==
    <<Lock(Account, "fu"),
      Lock(<<"five_hour", "">>, "nku"), Lock(<<"weekly", "">>, "nku"),
      Lock(<<"monthly", "">>, "nku"), Lock(<<"key", "">>, "nku"),
      Lock(<<"scope", "customer">>, "fu")>>

AdmitWallet ==
    <<Lock(Account, "fu"), Lock(Wallet, "fu"), Lock(<<"scope", "customer">>, "fu")>>

\* MUTANT: the reservations in the order the rows come back.
SettleUnsorted(r) ==
    <<Lock(Request(r), "fu"), Lock(Account, "ks"),
      Lock(<<"key", "">>, "nku"), Lock(<<"monthly", "">>, "nku"),
      Lock(<<"weekly", "">>, "nku"), Lock(<<"five_hour", "">>, "nku"), Lock(Job(r), "nku")>>

\* The ledger entry names the account; then the reservations, in
\* windowOrderKey order.
Settle(r) ==
    <<Lock(Request(r), "fu"), Lock(Account, "ks"),
      Lock(<<"five_hour", "">>, "nku"), Lock(<<"weekly", "">>, "nku"),
      Lock(<<"monthly", "">>, "nku"), Lock(<<"key", "">>, "nku"), Lock(Job(r), "nku")>>

\* The ledger entry names the account, the entries of the wallet name it.
SettleWallet(r) ==
    <<Lock(Request(r), "fu"), Lock(Account, "ks"), Lock(HoldRow(r), "fu"),
      Lock(Wallet, "ks"), Lock(Job(r), "nku")>>

Release(r) ==
    <<Lock(Account, "fu"), Lock(Request(r), "fu"),
      Lock(<<"five_hour", "">>, "nku"), Lock(<<"weekly", "">>, "nku"),
      Lock(<<"monthly", "">>, "nku"), Lock(<<"key", "">>, "nku"), Lock(Job(r), "nku")>>

ReleaseWallet(r) ==
    <<Lock(Account, "fu"), Lock(Request(r), "fu"), Lock(HoldRow(r), "nku"), Lock(Job(r), "nku")>>

\* The adjustment and its ledger entry name the account; the windows are those
\* the request names.
Correct(r) ==
    <<Lock(Request(r), "fu"), Lock(Account, "ks"),
      Lock(<<"five_hour", "">>, "nku"), Lock(<<"weekly", "">>, "nku"),
      Lock(<<"monthly", "">>, "nku"), Lock(<<"key", "">>, "nku"), Lock(Job(r), "nku")>>

MarkReconciliation(r) == <<Lock(Request(r), "nku"), Lock(Job(r), "nku")>>

\* A top-up, a refund, an adjustment, a change of the overage settings.
MoveMoney == <<Lock(Account, "fu"), Lock(Wallet, "fu")>>

ReverseEntry == <<Lock(Account, "fu"), Lock(<<"entry", "">>, "fu"), Lock(Wallet, "fu")>>

\* The lease and the attempt name the request.
PersistAttempt(r) ==
    <<Lock(<<"upstream", "">>, "sh"), Lock(<<"scope", "upstream">>, "fu"), Lock(Request(r), "ks")>>

-----------------------------------------------------------------------------
Init == at = [t \in Txns |-> 0]

\* The lock t asks for next.
Wanted(t) == Program[t][at[t] + 1]

\* u holds a lock that t has to wait for.
Blocks(u, t) ==
    /\ u # t /\ at[t] < Len(Program[t])
    /\ \E i \in 1..at[u] :
          /\ Program[u][i].row = Wanted(t).row
          /\ ~Compatible(Program[u][i].mode, Wanted(t).mode)

Acquire(t) ==
    /\ at[t] < Len(Program[t])
    /\ \A u \in Txns : ~Blocks(u, t)
    /\ at' = [at EXCEPT ![t] = @ + 1]

\* Commit, or rollback after an error at any statement; the transaction may
\* then be run again.
End(t) ==
    /\ at[t] > 0
    /\ at' = [at EXCEPT ![t] = 0]

Next == \E t \in Txns : Acquire(t) \/ End(t)

Spec == Init /\ [][Next]_at

-----------------------------------------------------------------------------
TypeOK == at \in [Txns -> Nat] /\ \A t \in Txns : at[t] <= Len(Program[t])

\* The transactions under way.
Holders == {t \in Txns : at[t] > 0}

\* No transactions that hold locks all wait for one another, so that none would
\* go on until the database aborts one: "concurrent transactions can never
\* deadlock in a cycle" (windowOrderKey).
NoDeadlock ==
    ~ \E S \in SUBSET Holders : S # {} /\ \A t \in S : \E u \in S : Blocks(u, t)

=============================================================================
