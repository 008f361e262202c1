-------------------------- MODULE LockOrderProofs --------------------------
(***************************************************************************)
(* Why the accounting transactions cannot wait for each other in a cycle,  *)
(* however many of them run, as long as no request is settled and released *)
(* at the same time: all of them take their locks in one order.  A request *)
(* that is settled comes before the account in that order, one that is     *)
(* released after it.                                                      *)
(***************************************************************************)
EXTENDS LockOrder, WellFoundedInduction, TLAPS

\* The place of a row in the order, when the requests in S are those settled.
Rank(S, row) ==
    CASE row[1] = "upstream"  -> 0
      [] row[1] = "scope"     -> IF row[2] = "upstream" THEN 1 ELSE 11
      [] row[1] = "request"   -> IF row[2] \in S THEN 2 ELSE 4
      [] row[1] = "account"   -> 3
      [] row[1] \in {"hold", "entry"} -> 5
      [] row[1] = "wallet"    -> 6
      [] row[1] = "five_hour" -> 7
      [] row[1] = "weekly"    -> 8
      [] row[1] = "monthly"   -> 9
      [] row[1] = "key"       -> 10
      [] OTHER                -> 12

\* p takes its locks in that order.
InOrder(S, p) ==
    \A i, j \in 1..Len(p) : i < j => Rank(S, p[i].row) < Rank(S, p[j].row)

\* The transactions of the code, those that settle or correct a request on one
\* side and those that release one on the other.
Codes(S, p) ==
    \/ p \in {Admit, AdmitWallet, MoveMoney, ReverseEntry}
    \/ \E r : p = MarkReconciliation(r) \/ p = PersistAttempt(r)
    \/ \E r \in S : p = Settle(r) \/ p = SettleWallet(r) \/ p = Correct(r)
    \/ \E r : r \notin S /\ (p = Release(r) \/ p = ReleaseWallet(r))

Apart(S) == \A t \in Txns : Codes(S, Program[t])

-----------------------------------------------------------------------------
\* The order has thirteen places.
LEMMA RankType == \A S, row : Rank(S, row) \in 0..12
  BY DEF Rank

\* The places of the rows.
LEMMA Places ==
    ASSUME NEW S
    PROVE  /\ Rank(S, Account) = 3 /\ Rank(S, Wallet) = 6
           /\ Rank(S, <<"five_hour", "">>) = 7 /\ Rank(S, <<"weekly", "">>) = 8
           /\ Rank(S, <<"monthly", "">>) = 9 /\ Rank(S, <<"key", "">>) = 10
           /\ Rank(S, <<"scope", "customer">>) = 11 /\ Rank(S, <<"scope", "upstream">>) = 1
           /\ Rank(S, <<"upstream", "">>) = 0 /\ Rank(S, <<"entry", "">>) = 5
           /\ \A r : r \in S => Rank(S, Request(r)) = 2
           /\ \A r : r \notin S => Rank(S, Request(r)) = 4
           /\ \A r : Rank(S, HoldRow(r)) = 5
           /\ \A r : Rank(S, Job(r)) = 12
  BY DEF Rank, Account, Wallet, Request, HoldRow, Job

\* Every transaction of the code takes its locks in that order.
LEMMA CodeInOrder ==
    ASSUME NEW S, NEW p, Codes(S, p)
    PROVE  InOrder(S, p) /\ Len(p) \in Nat
  <1> DEFINE place(i) == Rank(S, p[i].row)
             goal == InOrder(S, p) /\ Len(p) \in Nat
  <1>1. CASE p = Admit
    <2>1. Len(p) = 6 /\ place(1) = 3 /\ place(2) = 7 /\ place(3) = 8 /\ place(4) = 9 /\ place(5) = 10 /\ place(6) = 11
      BY <1>1, Places DEF Admit, Lock
    <2> QED BY <2>1 DEF InOrder
  <1>2. CASE p = AdmitWallet
    <2>1. Len(p) = 3 /\ place(1) = 3 /\ place(2) = 6 /\ place(3) = 11
      BY <1>2, Places DEF AdmitWallet, Lock
    <2> QED BY <2>1 DEF InOrder
  <1>3. CASE p = MoveMoney
    <2>1. Len(p) = 2 /\ place(1) = 3 /\ place(2) = 6
      BY <1>3, Places DEF MoveMoney, Lock
    <2> QED BY <2>1 DEF InOrder
  <1>4. CASE p = ReverseEntry
    <2>1. Len(p) = 3 /\ place(1) = 3 /\ place(2) = 5 /\ place(3) = 6
      BY <1>4, Places DEF ReverseEntry, Lock
    <2> QED BY <2>1 DEF InOrder
  <1>5. ASSUME NEW r, p = PersistAttempt(r) PROVE goal
    <2>1. Len(p) = 3 /\ place(1) = 0 /\ place(2) = 1 /\ place(3) \in {2, 4}
      BY <1>5, Places DEF PersistAttempt, Lock
    <2> QED BY <2>1 DEF InOrder
  <1>6. ASSUME NEW r, p = MarkReconciliation(r) PROVE goal
    <2>1. Len(p) = 2 /\ place(1) \in {2, 4} /\ place(2) = 12
      BY ZenonT(60), <1>6, Places DEF MarkReconciliation, Lock
    <2> QED BY <2>1 DEF InOrder
  <1>7. ASSUME NEW r \in S, p = Settle(r) PROVE goal
    <2>1. Len(p) = 7 /\ place(1) = 2 /\ place(2) = 3 /\ place(3) = 7 /\ place(4) = 8 /\ place(5) = 9 /\ place(6) = 10 /\ place(7) = 12
      BY ZenonT(60), <1>7, Places DEF Settle, Lock
    <2> QED BY <2>1 DEF InOrder
  <1>8. ASSUME NEW r \in S, p = SettleWallet(r) PROVE goal
    <2>1. Len(p) = 5 /\ place(1) = 2 /\ place(2) = 3 /\ place(3) = 5 /\ place(4) = 6 /\ place(5) = 12
      BY ZenonT(60), <1>8, Places DEF SettleWallet, Lock
    <2> QED BY <2>1 DEF InOrder
  <1>9. ASSUME NEW r \in S, p = Correct(r) PROVE goal
    <2>1. Len(p) = 7 /\ place(1) = 2 /\ place(2) = 3 /\ place(3) = 7 /\ place(4) = 8 /\ place(5) = 9 /\ place(6) = 10 /\ place(7) = 12
      BY <1>9, Places DEF Correct, Lock
    <2> QED BY <2>1 DEF InOrder
  <1>10. ASSUME NEW r, r \notin S, p = Release(r) PROVE goal
    <2>1. Len(p) = 7 /\ place(1) = 3 /\ place(2) = 4 /\ place(3) = 7 /\ place(4) = 8 /\ place(5) = 9 /\ place(6) = 10 /\ place(7) = 12
      BY ZenonT(60), <1>10, Places DEF Release, Lock
    <2> QED BY <2>1 DEF InOrder
  <1>11. ASSUME NEW r, r \notin S, p = ReleaseWallet(r) PROVE goal
    <2>1. Len(p) = 4 /\ place(1) = 3 /\ place(2) = 4 /\ place(3) = 5 /\ place(4) = 12
      BY ZenonT(60), <1>11, Places DEF ReleaseWallet, Lock
    <2> QED BY <2>1 DEF InOrder
  <1> QED
    BY <1>1, <1>2, <1>3, <1>4, <1>5, <1>6, <1>7, <1>8, <1>9, <1>10, <1>11 DEF Codes

\* A nonempty set of places has a last one.
LEMMA LastPlace ==
    ASSUME NEW T, T \subseteq 0..12, T # {}
    PROVE  \E m \in T : \A n \in T : n <= m
  <1> DEFINE U == {12 - n : n \in T}
  <1>0. \A n \in T : n \in 0..12 /\ 12 - n \in Nat
    OBVIOUS
  <1>1. U \subseteq Nat /\ U # {}
    BY <1>0, Zenon
  <1>2. PICK x \in U : \A y \in U : ~ (<<y, x>> \in OpToRel(<, Nat))
    <2> HIDE DEF U
    <2> QED BY <1>1, WFMin, NatLessThanWellFounded
  <1>3. ASSUME NEW y \in U PROVE x <= y
    <2>1. x \in Nat /\ y \in Nat
      BY <1>1
    <2>2. ~ (<<y, x>> \in OpToRel(<, Nat))
      BY <1>2
    <2>3. y < x => <<y, x>> \in OpToRel(<, Nat)
      BY <2>1 DEF OpToRel
    <2>4. ~ (y < x)
      BY <2>2, <2>3, Zenon
    <2> QED BY <2>1, <2>4
  <1>4. PICK m \in T : x = 12 - m
    BY <1>2
  <1>5. \A n \in T : x <= 12 - n
    BY <1>3
  <1> QED BY <1>4, <1>5

\* Counting the locks held stays within the transaction.
LEMMA Counted ==
    ASSUME NEW S, Apart(S)
    PROVE  Spec => []TypeOK
  <1>1. \A t \in Txns : Len(Program[t]) \in Nat
    BY CodeInOrder DEF Apart
  <1>2. Init => TypeOK
    BY <1>1 DEF Init, TypeOK
  <1>3. TypeOK /\ [Next]_at => TypeOK'
    BY <1>1 DEF TypeOK, Next, Acquire, End
  <1> QED BY <1>2, <1>3, PTL DEF Spec

\* Transactions that wait in a cycle would want ever later rows.
LEMMA NoCycle ==
    ASSUME NEW S, Apart(S), TypeOK
    PROVE  NoDeadlock
  <1> SUFFICES ASSUME NEW C \in SUBSET Txns, C # {},
                      \A t \in C : \E u \in C : Blocks(u, t)
               PROVE  FALSE
    BY DEF NoDeadlock, Holders
  <1> DEFINE place(t) == Rank(S, Wanted(t).row)
  <1>1. ASSUME NEW t \in C, NEW u \in C, Blocks(u, t)
        PROVE  place(t) < place(u)
    <2>1. at[u] \in Nat /\ at[u] < Len(Program[u])
      BY DEF TypeOK, Blocks
    <2>2. PICK i \in 1..at[u] : Program[u][i].row = Wanted(t).row
      BY <1>1 DEF Blocks
    <2>3. InOrder(S, Program[u]) /\ Len(Program[u]) \in Nat
      BY ZenonT(60), CodeInOrder DEF Apart
    <2>4. i \in 1..Len(Program[u]) /\ at[u] + 1 \in 1..Len(Program[u]) /\ i < at[u] + 1
      BY <2>1, <2>3
    <2>5. Rank(S, Program[u][i].row) < Rank(S, Program[u][at[u] + 1].row)
      BY <2>3, <2>4 DEF InOrder
    <2> QED BY <2>2, <2>5 DEF Wanted
  <1>2. {place(t) : t \in C} \subseteq 0..12 /\ {place(t) : t \in C} # {}
    BY RankType, Zenon
  <1>3. PICK m \in {place(t) : t \in C} : \A n \in {place(t) : t \in C} : n <= m
    BY ZenonT(60), <1>2, LastPlace
  <1>4. PICK t \in C : m = place(t)
    BY <1>3
  <1>5. PICK u \in C : Blocks(u, t)
    OBVIOUS
  <1>6. place(u) <= place(t)
    BY <1>3, <1>4, Zenon
  <1>7. place(t) < place(u)
    BY <1>1, <1>5
  <1>8. place(t) \in 0..12 /\ place(u) \in 0..12
    BY RankType, Zenon
  <1> HIDE DEF place
  <1> QED BY <1>6, <1>7, <1>8

\* The lock order of quota_repo.go does what it is for: however many admissions,
\* settlements, releases, corrections, payments and dispatches are under way,
\* they never wait for each other in a cycle, if the requests being settled are
\* not the ones being released.
THEOREM NoDeadlockApart ==
    ASSUME NEW S, Apart(S)
    PROVE  Spec => []NoDeadlock
  <1>1. TypeOK => NoDeadlock
    BY NoCycle
  <1> QED BY <1>1, Counted, PTL

=============================================================================
