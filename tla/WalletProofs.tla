---------------------------- MODULE WalletProofs ----------------------------
(***************************************************************************)
(* The books of a wallet, for any number of calls and movements.           *)
(*                                                                         *)
(* First, an admission commits on sums that are current: nothing they are  *)
(* made of changes between the statement that reads them and the freeze.   *)
(* Then the sums themselves are followed through every step, which gives   *)
(* that each part of a hold is covered by its own source, and that a call  *)
(* is debited exactly what it is charged.                                  *)
(***************************************************************************)
EXTENDS Wallet, SumTheorems

\* The lock and the reads belong to one call, and what it has read is what
\* the tables still hold.
Locked == \A r \in Requests : call[r] \in Reading <=> locker = r

SumsCurrent ==
    \A r \in Requests :
        /\ call[r] \in Reading => seen.net = Net
        /\ call[r] \in {"holds", "spend"} => seen.held = Held
        /\ call[r] = "spend" => seen.spent = SpentOf(entries, at[r])

Shape ==
    /\ call \in [Requests -> {"new", "pinned", "held", "settled", "released"} \cup Reading \cup Refusals]
    /\ locker \in Requests \cup {NoOne}
    /\ at \in [Requests -> Nat] /\ month \in Nat
    /\ DOMAIN seen = {"net", "held", "spent"}

Inv == Shape /\ Locked /\ SumsCurrent

\* No call is reading when the first month begins.
LEMMA InitInv == Init => Inv
  BY WalletAssumption DEF Init, Inv, Shape, Locked, SumsCurrent, Reading, Refusals, Unread

\* Fixing the admission time does not disturb the call that is reading.
LEMMA PinKeeps ==
    ASSUME Inv, NEW r \in Requests, Pin(r)
    PROVE  Inv'
  <1>1. call' = [call EXCEPT ![r] = IF wallet.exists THEN "pinned" ELSE "balance"]
        /\ call[r] = "new" /\ at' = [at EXCEPT ![r] = month]
        /\ entries' = entries /\ split' = split /\ seen' = seen /\ locker' = locker /\ month' = month
    BY DEF Pin
  <1>2. Shape'
    BY <1>1 DEF Inv, Shape, Reading, Refusals
  <1>3. \A q \in Requests : call'[q] \in Reading \cup {"held"} => q # r /\ call'[q] = call[q] /\ at'[q] = at[q]
    BY <1>1 DEF Inv, Shape, Reading
  <1>4. Holding' = Holding
    BY <1>1 DEF Holding, Inv, Shape
  <1>5. Held' = Held /\ Net' = Net
    BY <1>1, <1>4 DEF Held, Net
  <1>6. Locked'
    BY <1>1 DEF Inv, Shape, Locked, Reading
  <1>7. SumsCurrent'
    BY <1>1, <1>3, <1>5 DEF Inv, SumsCurrent, Reading
  <1> QED BY <1>2, <1>6, <1>7 DEF Inv

\* The three reads: each sum is current when it is read, and the call that
\* reads is the one that holds the row (walletSumsLocked, monthSpendLocked).
LEMMA ReadsKeep ==
    ASSUME Inv, NEW r \in Requests, ReadEntries(r) \/ ReadHolds(r) \/ ReadSpend(r)
    PROVE  Inv'
  <1>1. /\ entries' = entries /\ split' = split /\ at' = at /\ month' = month
        /\ locker' = r
        /\ call[r] \in {"pinned", "entries", "holds"}
        /\ locker \in {r, NoOne}
        /\ call' = [call EXCEPT ![r] = call'[r]]
        /\ call'[r] \in Reading
    BY WalletAssumption DEF ReadEntries, ReadHolds, ReadSpend, Inv, Shape, Locked, Reading
  <1>2. DOMAIN seen' = {"net", "held", "spent"}
    BY DEF ReadEntries, ReadHolds, ReadSpend, Inv, Shape, Unread
  <1>3. Shape'
    BY <1>1, <1>2 DEF Inv, Shape, Reading
  <1>4. Locked'
    BY <1>1, WalletAssumption DEF Inv, Shape, Locked, Reading
  <1>5. Holding' = Holding
    BY <1>1 DEF Holding, Inv, Shape, Reading
  <1>6. Held' = Held /\ Net' = Net
    BY <1>1, <1>5 DEF Held, Net
  <1>7. \A q \in Requests : call'[q] \in Reading => q = r
    BY <1>1, <1>4 DEF Locked
  <1>8. /\ seen'.net = Net
        /\ call'[r] \in {"holds", "spend"} => seen'.held = Held
        /\ call'[r] = "spend" => seen'.spent = SpentOf(entries, at[r])
    <2>1. CASE ReadEntries(r)
      BY <2>1, <1>1 DEF ReadEntries, Unread, Inv, Shape
    <2>2. CASE ReadHolds(r)
      BY <2>2, <1>1 DEF ReadHolds, Inv, Shape, SumsCurrent, Reading
    <2>3. CASE ReadSpend(r)
      BY <2>3, <1>1 DEF ReadSpend, Inv, Shape, SumsCurrent, Reading
    <2> QED BY <2>1, <2>2, <2>3
  <1>9. SumsCurrent'
    BY <1>1, <1>6, <1>7, <1>8 DEF SumsCurrent, Reading
  <1> QED BY <1>3, <1>4, <1>9 DEF Inv

\* Every other step needs the account row or gives it back, so that nobody is
\* reading after it: the freeze and the refusal, the settlement through its
\* foreign key, the release, the movements and the settings.
LEMMA FreeRowKeeps ==
    ASSUME Inv, locker' = NoOne, seen' \in {seen, Unread}, at' = at, month' \in Nat,
           NEW r \in Requests,
           call' = call \/ (call' = [call EXCEPT ![r] = call'[r]] /\
               call'[r] \in {"held", "settled", "released"} \cup Refusals),
           locker \in {r, NoOne}, locker = r => call' # call
    PROVE  Inv'
  <1>1. Shape'
    BY DEF Inv, Shape, Unread, Reading, Refusals
  <1>2. \A q \in Requests : call'[q] \notin Reading
    BY WalletAssumption DEF Inv, Shape, Locked, Reading, Refusals
  <1>3. Locked'
    BY <1>2, WalletAssumption DEF Locked
  <1>4. SumsCurrent'
    BY <1>2 DEF SumsCurrent, Reading
  <1> QED BY <1>1, <1>3, <1>4 DEF Inv

\* Every step keeps the sums of the reading call current.
LEMMA NextKeeps == Inv /\ [Next]_vars => Inv'
  <1> SUFFICES ASSUME Inv, [Next]_vars PROVE Inv'
    OBVIOUS
  <1>1. ASSUME NEW r \in Requests, Pin(r) PROVE Inv'
    BY <1>1, PinKeeps
  <1>2. ASSUME NEW r \in Requests, ReadEntries(r) \/ ReadHolds(r) \/ ReadSpend(r) PROVE Inv'
    BY <1>2, ReadsKeep
  <1>3. ASSUME NEW r \in Requests, Freeze(r) \/ Refuse(r) PROVE Inv'
    <2>1. /\ locker' = NoOne /\ seen' = Unread /\ at' = at /\ month' = month
          /\ call[r] = "spend" /\ call' = [call EXCEPT ![r] = call'[r]]
          /\ call'[r] \in {"held"} \cup Refusals
      BY <1>3 DEF Freeze, Refuse, Gate, Refusals, Inv, Shape
    <2>2. locker = r /\ call' # call
      BY <2>1 DEF Inv, Shape, Locked, Reading, Refusals
    <2> QED BY <2>1, <2>2, FreeRowKeeps DEF Inv, Shape
  <1>4. ASSUME NEW r \in Requests, Settle(r) \/ Release(r) PROVE Inv'
    <2>1. /\ locker' = NoOne /\ locker = NoOne /\ seen' = seen /\ at' = at /\ month' = month
          /\ call' = [call EXCEPT ![r] = call'[r]]
          /\ call'[r] \in {"settled", "released"}
      BY <1>4 DEF Settle, Release, Inv, Shape
    <2> QED BY <2>1, FreeRowKeeps, WalletAssumption DEF Inv, Shape
  <1>5. ASSUME locker = NoOne, locker' = NoOne, seen' = seen, at' = at, month' = month, call' = call
        PROVE  Inv'
    <2>1. \A r \in Requests : call'[r] \notin Reading
      BY <1>5, WalletAssumption DEF Inv, Locked
    <2>2. Shape'
      BY <1>5 DEF Inv, Shape
    <2>3. Locked' /\ SumsCurrent'
      BY <1>5, <2>1, WalletAssumption DEF Locked, SumsCurrent, Reading
    <2> QED BY <2>2, <2>3 DEF Inv
  <1>6. ASSUME NEW m \in Movements, Move(m) PROVE Inv'
    BY <1>5, <1>6 DEF Move
  <1>7. ASSUME NEW k \in DOMAIN entries, Reverse(k) PROVE Inv'
    BY <1>5, <1>7 DEF Reverse
  <1>8. CASE SetOverage
    BY <1>5, <1>8 DEF SetOverage
  <1>9. CASE NextMonth \/ UNCHANGED vars
    <2>1. /\ call' = call /\ entries' = entries /\ split' = split /\ seen' = seen
          /\ at' = at /\ locker' = locker /\ month' \in Nat
      BY <1>9 DEF NextMonth, vars, Inv, Shape
    <2>2. Held' = Held /\ Net' = Net
      BY <2>1 DEF Held, Net, Holding
    <2>3. Shape' /\ Locked'
      BY <2>1 DEF Inv, Shape, Locked
    <2>4. SumsCurrent'
      BY <2>1, <2>2 DEF Inv, SumsCurrent
    <2> QED BY <2>3, <2>4 DEF Inv
  <1> QED
    BY <1>1, <1>2, <1>3, <1>4, <1>6, <1>7, <1>8, <1>9 DEF Next

\* The invariant holds in every reachable state.
THEOREM InvHolds == Spec => []Inv
  BY InitInv, NextKeeps, PTL DEF Spec

\* ReserveWallet admits on the balance of the moment it commits: a hold is
\* covered by the ledger and the other holds as they are then.
THEOREM FreezesAreCovered == Spec => FreezeCovered
  <1>1. ASSUME Inv, NEW r \in Requests, Freeze(r), Amount[r] > 0
        PROVE  ~(Available("cash") + Available("bonus") < Amount[r])
    <2>1. call[r] = "spend" /\ Gate(Amount[r]) = "held"
      BY <1>1 DEF Freeze
    <2>2. seen.net = Net /\ seen.held = Held
      BY <1>1, <2>1 DEF Inv, SumsCurrent, Reading
    <2>3. \A s \in Sources : Derived(s) = Available(s)
      BY <2>2 DEF Derived, Available
    <2>4. ~(Derived("cash") + Derived("bonus") < Amount[r])
      BY <1>1, <2>1 DEF Gate
    <2> QED BY <2>3, <2>4 DEF Sources
  <1>2. Inv => [\A r \in Requests : Freeze(r) /\ Amount[r] > 0 =>
                  ~(Available("cash") + Available("bonus") < Amount[r])]_vars
    BY <1>1
  <1> QED BY <1>2, InvHolds, PTL DEF FreezeCovered

\* Concurrent admissions do not pass the monthly limit together: the spend
\* and the holds CheckWalletSpend compares are those of the moment of the
\* freeze.
THEOREM CapIsRespected == Spec => CapRespected
  <1>1. ASSUME Inv, NEW r \in Requests, Freeze(r)
        PROVE  ~(SpentOf(entries, at[r]) + Held["cash"] + Held["bonus"] + Amount[r] > wallet.limit)
    <2>1. call[r] = "spend" /\ Gate(Amount[r]) = "held"
      BY <1>1 DEF Freeze
    <2>2. seen.held = Held /\ seen.spent = SpentOf(entries, at[r])
      BY <1>1, <2>1 DEF Inv, SumsCurrent
    <2>3. ~(Counted + Amount[r] > wallet.limit)
      BY <2>1 DEF Gate
    <2> QED BY <2>2, <2>3 DEF Counted
  <1>2. Inv => [\A r \in Requests : Freeze(r) =>
          ~(SpentOf(entries, at[r]) + Held["cash"] + Held["bonus"] + Amount[r] > wallet.limit)]_vars
    BY <1>1
  <1> QED BY <1>2, InvHolds, PTL DEF CapRespected

-----------------------------------------------------------------------------
\* The rows have their types; every entry of a ledger is signed and sourced.
LedgerOK(es) ==
    /\ IsFiniteSet(DOMAIN es)
    /\ \A k \in DOMAIN es :
        es[k].dir \in {"credit", "debit"} /\ es[k].source \in Sources /\ es[k].amount \in Nat

Funds ==
    /\ LedgerOK(entries)
    /\ split \in [Requests -> [Sources -> Nat]]
    /\ charge \in [Requests -> Nat]

\* A hold is split completely; a call without a hold has no parts yet.
HoldParts ==
    \A r \in Requests :
        IF call[r] \in {"held", "settled", "released"}
        THEN split[r]["cash"] + split[r]["bonus"] = Amount[r]
        ELSE split[r]["cash"] = 0 /\ split[r]["bonus"] = 0

\* The consume entries of a call are those its settlement wrote.
Consumed ==
    \A r \in Requests :
        /\ call[r] # "settled" => charge[r] = 0
        /\ \A s \in Sources :
            LET key == <<"consume", r, s>>
                part == SplitConsume(r, charge[r])[s]
            IN  /\ key \in DOMAIN entries <=> call[r] = "settled" /\ part > 0
                /\ key \in DOMAIN entries => entries[key].amount = part

Books == Funds /\ HoldParts /\ Consumed /\ DebtIsUngated

\* The ledger of one source, the holds and the ungated debits add up to
\* integers.
LEMMA SumsAreNumbers ==
    ASSUME Funds
    PROVE  /\ \A s \in Sources : Net[s] \in Int /\ Held[s] \in Nat
           /\ Withdrawn \in Nat /\ Excess \in Nat
  <1>1. ASSUME NEW s \in Sources PROVE Net[s] \in Int
    <2> DEFINE f == [k \in DOMAIN entries |-> Signed(entries[k])]
               S == {k \in DOMAIN entries : entries[k].source = s}
    <2>1. IsFiniteSet(S)
      BY FS_Subset DEF Funds, LedgerOK
    <2>2. \A k \in S : f[k] \in Int
      BY DEF Funds, LedgerOK, Signed
    <2> HIDE DEF f, S
    <2>3. SumFunctionOnSet(f, S) \in Int
      BY <2>1, <2>2, SumInt
    <2> QED BY <2>3 DEF f, S, Net, NetOf
  <1>2. ASSUME NEW s \in Sources PROVE Held[s] \in Nat
    <2> DEFINE f == [r \in Holding |-> split[r][s]]
    <2>1. IsFiniteSet(Holding)
      BY FS_Subset, WalletAssumption DEF Holding
    <2>2. \A r \in Holding : f[r] \in Nat
      BY DEF Funds, Holding
    <2> HIDE DEF f
    <2>3. SumFunctionOnSet(f, Holding) \in Nat
      BY <2>1, <2>2, SumNat
    <2> QED BY <2>3 DEF f, Held, HeldOf
  <1>3. Withdrawn \in Nat
    <2> DEFINE f == [k \in DOMAIN entries |-> entries[k].amount]
               S == {k \in DOMAIN entries : entries[k].dir = "debit" /\ entries[k].type # "consume"}
    <2>1. IsFiniteSet(S)
      BY FS_Subset DEF Funds, LedgerOK
    <2>2. \A k \in S : f[k] \in Nat
      BY DEF Funds, LedgerOK
    <2> HIDE DEF f, S
    <2>3. SumFunctionOnSet(f, S) \in Nat
      BY <2>1, <2>2, SumNat
    <2> QED BY <2>3 DEF f, S, Withdrawn
  <1>4. Excess \in Nat
    <2> DEFINE f == [r \in Requests |-> charge[r] - Amount[r]]
               S == {r \in Requests : charge[r] > Amount[r]}
    <2>1. IsFiniteSet(S)
      BY FS_Subset, WalletAssumption
    <2>2. \A r \in S : f[r] \in Nat
      BY WalletAssumption DEF Funds
    <2> HIDE DEF f, S
    <2>3. SumFunctionOnSet(f, S) \in Nat
      BY <2>1, <2>2, SumNat
    <2> QED BY <2>3 DEF f, S, Excess
  <1> QED BY <1>1, <1>2, <1>3, <1>4

\* Appending to the ledger changes the sum of a source by its new entry, if
\* there is one.
LEMMA NetGrows ==
    ASSUME NEW es, NEW fs, LedgerOK(es), LedgerOK(fs), DOMAIN es \subseteq DOMAIN fs,
           \A j \in DOMAIN es : fs[j] = es[j], NEW s
    PROVE  /\ (\A j \in DOMAIN fs \ DOMAIN es : fs[j].source # s) => NetOf(fs, s) = NetOf(es, s)
           /\ \A k \in DOMAIN fs \ DOMAIN es :
                 fs[k].source = s /\ (\A j \in DOMAIN fs \ DOMAIN es : fs[j].source = s => j = k)
                 => NetOf(fs, s) = NetOf(es, s) + Signed(fs[k])
  <1> DEFINE f == [k \in DOMAIN es |-> Signed(es[k])]
             g == [k \in DOMAIN fs |-> Signed(fs[k])]
             S == {k \in DOMAIN es : es[k].source = s}
             T == {k \in DOMAIN fs : fs[k].source = s}
  <1>1. IsFiniteSet(S)
    BY FS_Subset DEF LedgerOK
  <1>2. \A k \in S : f[k] \in Int /\ g[k] = f[k]
    BY DEF LedgerOK, Signed
  <1>3. NetOf(es, s) = SumFunctionOnSet(f, S) /\ NetOf(fs, s) = SumFunctionOnSet(g, T)
    BY DEF NetOf
  <1>4. ASSUME \A j \in DOMAIN fs \ DOMAIN es : fs[j].source # s
        PROVE  NetOf(fs, s) = NetOf(es, s)
    <2>1. S = T
      BY <1>4
    <2> HIDE DEF f, g, S, T
    <2> QED BY <1>1, <1>2, <1>3, <2>1, SumCong
  <1>5. ASSUME NEW k \in DOMAIN fs \ DOMAIN es, fs[k].source = s,
               \A j \in DOMAIN fs \ DOMAIN es : fs[j].source = s => j = k
        PROVE  NetOf(fs, s) = NetOf(es, s) + Signed(fs[k])
    <2>1. T = S \cup {k} /\ k \notin S
      BY <1>5
    <2>2. g[k] \in Int /\ g[k] = Signed(fs[k])
      BY DEF LedgerOK, Signed
    <2> HIDE DEF f, g, S, T
    <2>3. SumFunctionOnSet(g, S \cup {k}) = SumFunctionOnSet(f, S) + g[k]
      BY <1>1, <1>2, <2>1, <2>2, SumGrow
    <2> QED BY <1>3, <2>1, <2>2, <2>3
  <1> QED BY <1>4, <1>5

\* Ungated debits change only with debits that are no consumption.
LEMMA WithdrawnGrows ==
    ASSUME Funds, LedgerOK(entries'), DOMAIN entries \subseteq DOMAIN entries',
           \A j \in DOMAIN entries : entries'[j] = entries[j]
    PROVE  /\ (\A j \in DOMAIN entries' \ DOMAIN entries :
                  entries'[j].dir = "debit" => entries'[j].type = "consume")
              => Withdrawn' = Withdrawn
           /\ \A k : DOMAIN entries' = DOMAIN entries \cup {k} /\ k \notin DOMAIN entries
                     /\ entries'[k].dir = "debit" /\ entries'[k].type # "consume"
                  => Withdrawn' = Withdrawn + entries'[k].amount
  <1> DEFINE f == [k \in DOMAIN entries |-> entries[k].amount]
             g == [k \in DOMAIN entries' |-> entries'[k].amount]
             S == {k \in DOMAIN entries : entries[k].dir = "debit" /\ entries[k].type # "consume"}
             T == {k \in DOMAIN entries' : entries'[k].dir = "debit" /\ entries'[k].type # "consume"}
  <1>1. IsFiniteSet(S)
    BY FS_Subset DEF Funds, LedgerOK
  <1>2. \A k \in S : f[k] \in Int /\ g[k] = f[k]
    BY DEF Funds, LedgerOK
  <1>3. Withdrawn = SumFunctionOnSet(f, S) /\ Withdrawn' = SumFunctionOnSet(g, T)
    BY DEF Withdrawn
  <1>4. ASSUME \A j \in DOMAIN entries' \ DOMAIN entries :
                   entries'[j].dir = "debit" => entries'[j].type = "consume"
        PROVE  Withdrawn' = Withdrawn
    <2>1. S = T
      BY <1>4
    <2> HIDE DEF f, g, S, T
    <2> QED BY <1>1, <1>2, <1>3, <2>1, SumCong
  <1>5. ASSUME NEW k, DOMAIN entries' = DOMAIN entries \cup {k}, k \notin DOMAIN entries,
               entries'[k].dir = "debit", entries'[k].type # "consume"
        PROVE  Withdrawn' = Withdrawn + entries'[k].amount
    <2>1. T = S \cup {k} /\ k \notin S
      BY <1>5
    <2>2. g[k] \in Int /\ g[k] = entries'[k].amount
      BY <1>5 DEF LedgerOK
    <2> HIDE DEF f, g, S, T
    <2>3. SumFunctionOnSet(g, S \cup {k}) = SumFunctionOnSet(f, S) + g[k]
      BY <1>1, <1>2, <2>1, <2>2, SumGrow
    <2> QED BY <1>3, <2>1, <2>2, <2>3
  <1> QED BY <1>4, <1>5

\* A new hold adds its parts to what is held.
LEMMA HeldGrows ==
    ASSUME Funds, Funds', NEW r \in Requests, r \notin Holding, Holding' = Holding \cup {r},
           \A q \in Requests \ {r} : split'[q] = split[q], NEW s \in Sources
    PROVE  Held'[s] = Held[s] + split'[r][s]
  <1> DEFINE f == [q \in Holding |-> split[q][s]]
             g == [q \in Holding' |-> split'[q][s]]
  <1>1. IsFiniteSet(Holding)
    BY FS_Subset, WalletAssumption DEF Holding
  <1>2. \A q \in Holding : f[q] \in Int /\ g[q] = f[q]
    BY DEF Funds, Holding
  <1>3. g[r] \in Int /\ g[r] = split'[r][s]
    BY DEF Funds
  <1>4. Held[s] = SumFunctionOnSet(f, Holding) /\ Held'[s] = SumFunctionOnSet(g, Holding')
    BY DEF Held, HeldOf
  <1> HIDE DEF f, g
  <1>5. SumFunctionOnSet(g, Holding \cup {r}) = SumFunctionOnSet(f, Holding) + g[r]
    BY <1>1, <1>2, <1>3, SumGrow
  <1> QED BY <1>3, <1>4, <1>5

\* The end of a hold takes its parts off.
LEMMA HeldShrinks ==
    ASSUME Funds, NEW r \in Requests, r \in Holding, Holding' = Holding \ {r}, split' = split,
           NEW s \in Sources
    PROVE  Held'[s] = Held[s] - split[r][s]
  <1> DEFINE f == [q \in Holding |-> split[q][s]]
             g == [q \in Holding' |-> split[q][s]]
  <1>1. IsFiniteSet(Holding)
    BY FS_Subset, WalletAssumption DEF Holding
  <1>2. \A q \in Holding : f[q] \in Int
    BY DEF Funds, Holding
  <1>3. \A q \in Holding' : g[q] = f[q]
    OBVIOUS
  <1>4. f[r] = split[r][s]
    OBVIOUS
  <1>5. Held[s] = SumFunctionOnSet(f, Holding) /\ Held'[s] = SumFunctionOnSet(g, Holding')
    BY DEF Held, HeldOf
  <1> HIDE DEF f, g
  <1>6. SumFunctionOnSet(g, Holding') = SumFunctionOnSet(f, Holding) - f[r]
    BY <1>1, <1>2, <1>3, SumShrink
  <1> QED BY <1>4, <1>5, <1>6

\* The first charge of a call adds what it exceeds its hold by.
LEMMA ExcessGrows ==
    ASSUME Funds, NEW r \in Requests, charge[r] = 0, NEW c \in Nat,
           charge' = [charge EXCEPT ![r] = c]
    PROVE  Excess' = IF c > Amount[r] THEN Excess + (c - Amount[r]) ELSE Excess
  <1> DEFINE f == [q \in Requests |-> charge[q] - Amount[q]]
             g == [q \in Requests |-> charge'[q] - Amount[q]]
             S == {q \in Requests : charge[q] > Amount[q]}
             T == {q \in Requests : charge'[q] > Amount[q]}
  <1>1. IsFiniteSet(S)
    BY FS_Subset, WalletAssumption
  <1>1a. /\ charge' \in [Requests -> Nat] /\ charge'[r] = c
        /\ \A q \in Requests \ {r} : charge'[q] = charge[q]
    BY DEF Funds
  <1>2. \A q \in S : f[q] \in Int /\ g[q] = f[q]
    <2> SUFFICES ASSUME NEW q \in S PROVE f[q] \in Int /\ g[q] = f[q]
      OBVIOUS
    <2>1. charge[q] \in Nat /\ Amount[q] \in Nat /\ charge[q] > Amount[q]
      BY WalletAssumption DEF Funds
    <2>2. q # r
      BY <2>1
    <2> QED BY <1>1a, <2>1, <2>2
  <1>3. Excess = SumFunctionOnSet(f, S) /\ Excess' = SumFunctionOnSet(g, T)
    BY DEF Excess
  <1>4. r \notin S
    BY WalletAssumption
  <1>5. CASE c > Amount[r]
    <2>1. T = S \cup {r}
      BY <1>5 DEF Funds
    <2>2. g[r] = c - Amount[r] /\ g[r] \in Int
      BY <1>1a, WalletAssumption
    <2> HIDE DEF f, g, S, T
    <2>3. SumFunctionOnSet(g, S \cup {r}) = SumFunctionOnSet(f, S) + g[r]
      BY <1>1, <1>2, <1>4, <2>2, SumGrow
    <2> QED BY <1>3, <1>5, <2>1, <2>2, <2>3
  <1>6. CASE ~(c > Amount[r])
    <2>1. T = S
      BY <1>4, <1>6 DEF Funds
    <2> HIDE DEF f, g, S, T
    <2> QED BY <1>1, <1>2, <1>3, <1>6, <2>1, SumCong
  <1> QED BY <1>5, <1>6

\* Steps that touch neither the ledger nor a hold keep the books.
LEMMA BooksIdle ==
    ASSUME Books, entries' = entries, split' = split, charge' = charge,
           \A q \in Requests : call'[q] # call[q] =>
               /\ call[q] \notin {"held", "settled", "released"}
               /\ call'[q] \notin {"held", "settled", "released"}
    PROVE  Books'
  <1>1. Funds'
    BY DEF Books, Funds
  <1>2. HoldParts'
    BY DEF Books, HoldParts
  <1>3. Consumed'
    BY DEF Books, Consumed, SplitConsume
  <1>4. Holding' = Holding
    BY DEF Holding
  <1>5. Net' = Net /\ Held' = Held /\ Withdrawn' = Withdrawn /\ Excess' = Excess
    BY <1>4 DEF Net, Held, Withdrawn, Excess
  <1>6. DebtIsUngated'
    BY <1>5 DEF Books, DebtIsUngated, Available
  <1> QED BY <1>1, <1>2, <1>3, <1>6 DEF Books

\* What SplitFreeze makes of a hold the gate let through.
LEMMA FreezeParts ==
    ASSUME Inv, Funds, HoldParts, NEW r \in Requests, Freeze(r)
    PROVE  /\ split'[r] \in [Sources -> Nat]
           /\ split'[r]["cash"] + split'[r]["bonus"] = Amount[r]
           /\ \A s \in Sources : split'[r][s] <= IF Available(s) > 0 THEN Available(s) ELSE 0
           /\ Amount[r] > 0 => Available("cash") + Available("bonus") >= Amount[r]
  <1>1. call[r] = "spend" /\ Gate(Amount[r]) = "held"
    BY DEF Freeze
  <1>2. seen.net = Net /\ seen.held = Held
    BY <1>1 DEF Inv, SumsCurrent, Reading
  <1>3. \A s \in Sources : Derived(s) = Available(s) /\ Available(s) \in Int
    BY <1>2, SumsAreNumbers DEF Derived, Available
  <1>4. Amount[r] \in Nat
    BY WalletAssumption
  <1>5. split' = [split EXCEPT ![r] = IF Amount[r] > 0 THEN SplitFreeze(Amount[r]) ELSE split[r]]
    BY DEF Freeze, Funds
  <1>6. split'[r] = IF Amount[r] > 0 THEN SplitFreeze(Amount[r]) ELSE split[r]
    BY <1>5 DEF Funds
  <1> DEFINE a == Amount[r]
             ac == Available("cash")
             ab == Available("bonus")
  <1>7. ac \in Int /\ ab \in Int /\ Derived("cash") = ac /\ Derived("bonus") = ab
    BY <1>3 DEF Sources
  <1>8. CASE a > 0
    <2>1. ~(ac + ab < a)
      BY <1>1, <1>7, <1>8 DEF Gate
    <2>2. split'[r] = SplitFreeze(a)
      BY <1>6, <1>8
    <2> DEFINE free == IF ab < 0 THEN 0 ELSE ab
               bonus == IF a < free THEN a ELSE free
    <2>3. /\ SplitFreeze(a) = [s \in Sources |-> IF s = "bonus" THEN bonus ELSE a - bonus]
      BY <1>7 DEF SplitFreeze
    <2>4. split'[r]["bonus"] = bonus /\ split'[r]["cash"] = a - bonus
      BY <2>2, <2>3 DEF Sources
    <2> HIDE DEF a, ac, ab
    <2>5. /\ bonus \in Nat /\ a - bonus \in Nat
          /\ bonus <= IF ab > 0 THEN ab ELSE 0
          /\ a - bonus <= IF ac > 0 THEN ac ELSE 0
          /\ (a - bonus) + bonus = a
          /\ ac + ab >= a
      BY <1>4, <1>7, <1>8, <2>1 DEF a
    <2> HIDE DEF bonus
    <2>6. split'[r] \in [Sources -> Nat]
      BY <2>2, <2>3, <2>5
    <2> QED BY <2>4, <2>5, <2>6 DEF Sources, a, ac, ab
  <1>9. CASE ~(a > 0)
    <2>1. split'[r] = split[r]
      BY <1>6, <1>9
    <2>2. split[r]["cash"] = 0 /\ split[r]["bonus"] = 0
      BY <1>1 DEF HoldParts
    <2>3. split[r] \in [Sources -> Nat]
      BY DEF Funds
    <2> QED BY <1>3, <1>4, <1>9, <2>1, <2>2, <2>3 DEF Sources
  <1> QED BY <1>8, <1>9

\* A freeze takes no more than the balance has.
LEMMA BooksFreeze ==
    ASSUME Inv, Books, NEW r \in Requests, Freeze(r)
    PROVE  Books'
  <1>1. /\ call[r] = "spend" /\ call' = [call EXCEPT ![r] = "held"]
        /\ entries' = entries /\ charge' = charge
        /\ split' = [split EXCEPT ![r] = split'[r]]
    BY DEF Freeze, Books, Funds
  <1>2. /\ split'[r] \in [Sources -> Nat]
        /\ split'[r]["cash"] + split'[r]["bonus"] = Amount[r]
        /\ Amount[r] > 0 => Available("cash") + Available("bonus") >= Amount[r]
    BY FreezeParts DEF Books
  <1>3. Funds'
    BY <1>1, <1>2 DEF Books, Funds
  <1>4. \A q \in Requests \ {r} : split'[q] = split[q] /\ call'[q] = call[q]
    BY <1>1 DEF Books, Funds, Inv, Shape
  <1>5. call'[r] = "held"
    BY <1>1 DEF Inv, Shape
  <1>6. HoldParts'
    BY <1>2, <1>4, <1>5 DEF Books, HoldParts
  <1>7. Consumed'
    <2> SUFFICES ASSUME NEW q \in Requests
        PROVE  /\ call'[q] # "settled" => charge'[q] = 0
               /\ \A s \in Sources :
                     LET key == <<"consume", q, s>>
                         part == SplitConsume(q, charge[q])'[s]
                     IN  /\ key \in DOMAIN entries' <=> call'[q] = "settled" /\ part > 0
                         /\ key \in DOMAIN entries' => entries'[key].amount = part
      BY DEF Consumed, SplitConsume
    <2>1. CASE q = r
      BY <1>1, <1>5, <2>1 DEF Books, Consumed
    <2>2. CASE q # r
      BY <1>1, <1>4, <2>2 DEF Books, Consumed, SplitConsume
    <2> QED BY <2>1, <2>2
  <1>8. r \notin Holding /\ Holding' = Holding \cup {r}
    BY <1>1, <1>4, <1>5 DEF Holding
  <1>9. \A s \in Sources : Held'[s] = Held[s] + split'[r][s]
    BY <1>3, <1>4, <1>8, HeldGrows DEF Books
  <1>10. Net' = Net /\ Withdrawn' = Withdrawn /\ Excess' = Excess
    BY <1>1 DEF Net, Withdrawn, Excess
  <1>11. DebtIsUngated'
    <2>1. \A s \in Sources : Net[s] \in Int /\ Held[s] \in Nat
      BY SumsAreNumbers DEF Books
    <2>2. Withdrawn \in Nat /\ Excess \in Nat
      BY SumsAreNumbers DEF Books
    <2>3. \A s \in Sources : Available(s)' = Available(s) - split'[r][s] /\ Available(s) \in Int
      BY <1>2, <1>9, <1>10, <2>1 DEF Available
    <2>4. "cash" \in Sources /\ "bonus" \in Sources
      BY DEF Sources
    <2>5. Amount[r] \in Nat
      BY WalletAssumption
    <2>6. Available("cash") + Available("bonus") + Withdrawn + Excess >= 0
      BY DEF Books, DebtIsUngated
    <2> QED BY <1>2, <1>10, <2>2, <2>3, <2>4, <2>5, <2>6 DEF DebtIsUngated
  <1> QED BY <1>3, <1>6, <1>7, <1>11 DEF Books

\* A hold that is returned is money again.
LEMMA BooksRelease ==
    ASSUME Inv, Books, NEW r \in Requests, Release(r)
    PROVE  Books'
  <1>1. /\ call[r] = "held" /\ call' = [call EXCEPT ![r] = "released"]
        /\ entries' = entries /\ charge' = charge /\ split' = split
    BY DEF Release
  <1>2. Funds'
    BY <1>1 DEF Books, Funds
  <1>3. call'[r] = "released" /\ \A q \in Requests \ {r} : call'[q] = call[q]
    BY <1>1 DEF Inv, Shape
  <1>4. HoldParts'
    BY <1>1, <1>3 DEF Books, HoldParts
  <1>5. Consumed'
    BY <1>1, <1>3 DEF Books, Consumed, SplitConsume
  <1>6. r \in Holding /\ Holding' = Holding \ {r}
    BY <1>1, <1>3 DEF Holding
  <1>7. \A s \in Sources : Held'[s] = Held[s] - split[r][s]
    BY <1>1, <1>6, HeldShrinks DEF Books
  <1>8. Net' = Net /\ Withdrawn' = Withdrawn /\ Excess' = Excess
    BY <1>1 DEF Net, Withdrawn, Excess
  <1>9. DebtIsUngated'
    <2>1. /\ \A s \in Sources : Net[s] \in Int /\ Held[s] \in Nat
          /\ Withdrawn \in Nat /\ Excess \in Nat
      BY SumsAreNumbers DEF Books
    <2>2. \A s \in Sources : split[r][s] \in Nat
      BY DEF Books, Funds
    <2>3. \A s \in Sources : Available(s)' = Available(s) + split[r][s] /\ Available(s) \in Int
      BY <1>7, <1>8, <2>1, <2>2 DEF Available
    <2>4. "cash" \in Sources /\ "bonus" \in Sources
      BY DEF Sources
    <2>5. Available("cash") + Available("bonus") + Withdrawn + Excess >= 0
      BY DEF Books, DebtIsUngated
    <2> QED BY <1>8, <2>1, <2>2, <2>3, <2>4, <2>5 DEF DebtIsUngated
  <1> QED BY <1>2, <1>4, <1>5, <1>9 DEF Books

\* A top-up, a refund, an adjustment or a reversal: a credit adds to the
\* balance, a debit is one no gate refuses.
LEMMA BooksAppend ==
    ASSUME Inv, Books, NEW k, k \notin DOMAIN entries, NEW e,
           e.dir \in {"credit", "debit"}, e.source \in Sources, e.amount \in Nat,
           e.type # "consume", \A r \in Requests, s \in Sources : k # <<"consume", r, s>>,
           DOMAIN entries' = DOMAIN entries \cup {k}, entries'[k] = e,
           \A j \in DOMAIN entries : entries'[j] = entries[j],
           call' = call, split' = split, charge' = charge
    PROVE  Books'
  <1>1. /\ DOMAIN entries' = DOMAIN entries \cup {k} /\ entries'[k] = e
        /\ \A j \in DOMAIN entries : entries'[j] = entries[j]
    OBVIOUS
  <1>2. LedgerOK(entries')
    <2>1. IsFiniteSet(DOMAIN entries')
      BY <1>1, FS_AddElement DEF Books, Funds, LedgerOK
    <2> QED BY <1>1, <2>1 DEF Books, Funds, LedgerOK
  <1>3. Funds'
    BY <1>2 DEF Books, Funds, LedgerOK
  <1>4. HoldParts'
    BY DEF Books, HoldParts
  <1>5. \A r \in Requests, s \in Sources :
            /\ <<"consume", r, s>> \in DOMAIN entries' <=> <<"consume", r, s>> \in DOMAIN entries
            /\ <<"consume", r, s>> \in DOMAIN entries =>
                  entries'[<<"consume", r, s>>] = entries[<<"consume", r, s>>]
    BY <1>1
  <1>6. Consumed'
    BY <1>5 DEF Books, Consumed, SplitConsume
  <1>7. Held' = Held /\ Excess' = Excess
    BY DEF Held, Holding, Excess
  <1>8. \A s \in Sources : Net'[s] = IF s = e.source THEN Net[s] + Signed(e) ELSE Net[s]
    <2> SUFFICES ASSUME NEW s \in Sources
        PROVE  NetOf(entries', s) = IF s = e.source THEN NetOf(entries, s) + Signed(e) ELSE NetOf(entries, s)
      BY DEF Net
    <2>1. LedgerOK(entries)
      BY DEF Books, Funds
    <2>2. DOMAIN entries' \ DOMAIN entries = {k}
      BY <1>1
    <2>3. CASE s = e.source
      BY <1>1, <1>2, <2>1, <2>2, <2>3, NetGrows
    <2>4. CASE s # e.source
      BY <1>1, <1>2, <2>1, <2>2, <2>4, NetGrows
    <2> QED BY <2>3, <2>4
  <1>9. Withdrawn' = IF e.dir = "debit" THEN Withdrawn + e.amount ELSE Withdrawn
    <2>1. Funds /\ DOMAIN entries \subseteq DOMAIN entries'
      BY <1>1 DEF Books
    <2>2. CASE e.dir = "debit"
      BY <1>1, <1>2, <2>1, <2>2, WithdrawnGrows
    <2>3. CASE e.dir # "debit"
      BY <1>1, <1>2, <2>1, <2>3, WithdrawnGrows
    <2> QED BY <2>2, <2>3
  <1>10. DebtIsUngated'
    <2>1. /\ \A s \in Sources : Net[s] \in Int /\ Held[s] \in Nat
          /\ Withdrawn \in Nat /\ Excess \in Nat
      BY SumsAreNumbers DEF Books
    <2>2. "cash" \in Sources /\ "bonus" \in Sources /\ e.source \in {"cash", "bonus"}
      BY DEF Sources
    <2>3. Net["cash"] - Held["cash"] + (Net["bonus"] - Held["bonus"]) + Withdrawn + Excess >= 0
      BY DEF Books, DebtIsUngated, Available
    <2>4. /\ Signed(e) \in Int
          /\ e.dir = "debit" => Signed(e) = -e.amount
          /\ e.dir # "debit" => Signed(e) >= 0
      BY DEF Signed
    <2>5. Net'["cash"] + Net'["bonus"] = Net["cash"] + Net["bonus"] + Signed(e)
          /\ Net'["cash"] \in Int /\ Net'["bonus"] \in Int
      <3>1. CASE e.source = "cash"
        BY <1>8, <2>1, <2>2, <2>4, <3>1
      <3>2. CASE e.source = "bonus"
        BY <1>8, <2>1, <2>2, <2>4, <3>2
      <3> QED BY <2>2, <3>1, <3>2
    <2>6. Net'["cash"] - Held["cash"] + (Net'["bonus"] - Held["bonus"]) + Withdrawn' + Excess >= 0
      <3>1. Net'["cash"] + Net'["bonus"] + Withdrawn' >= Net["cash"] + Net["bonus"] + Withdrawn
            /\ Withdrawn' \in Int
        <4>1. CASE e.dir = "debit"
          BY <1>9, <2>1, <2>2, <2>4, <2>5, <4>1
        <4>2. CASE e.dir # "debit"
          BY <1>9, <2>1, <2>2, <2>4, <2>5, <4>2
        <4> QED BY <4>1, <4>2
      <3> QED BY <2>1, <2>2, <2>3, <2>5, <3>1
    <2> QED BY <1>7, <2>6 DEF DebtIsUngated, Available
  <1> QED BY <1>3, <1>4, <1>6, <1>10 DEF Books

\* A settlement debits its charge, bonus first, and ends the hold; only what
\* exceeds the hold lowers the balance.
LEMMA BooksSettle ==
    ASSUME Inv, Books, NEW r \in Requests, Settle(r)
    PROVE  Books'
  <1>1. PICK c \in Charges : /\ entries' = WithEntries(Consumption(r, c))
                             /\ charge' = [charge EXCEPT ![r] = c]
    BY DEF Settle
  <1>2. /\ call[r] = "held" /\ call' = [call EXCEPT ![r] = "settled"] /\ split' = split
    BY DEF Settle
  <1>3. c \in Nat /\ Amount[r] \in Nat
    BY WalletAssumption
  <1> DEFINE part == SplitConsume(r, c)
             Key(s) == <<"consume", r, s>>
             new == Consumption(r, c)
             Paid == {s \in Sources : part[s] > 0}
  <1>4. /\ split[r]["cash"] \in Nat /\ split[r]["bonus"] \in Nat
        /\ split[r]["cash"] + split[r]["bonus"] = Amount[r]
    BY <1>2 DEF Books, Funds, HoldParts, Sources
  <1>5. /\ part["cash"] \in Nat /\ part["bonus"] \in Nat /\ part["cash"] + part["bonus"] = c
        /\ part["bonus"] <= split[r]["bonus"]
    <2> DEFINE b == IF c < split[r]["bonus"] THEN c ELSE split[r]["bonus"]
    <2>1. part["bonus"] = b /\ part["cash"] = c - b
      BY DEF SplitConsume, Sources
    <2>2. b \in Nat /\ c - b \in Nat /\ (c - b) + b = c /\ b <= split[r]["bonus"]
      BY <1>3, <1>4
    <2> HIDE DEF b, part
    <2> QED BY <2>1, <2>2
  <1>6. \A s \in Sources : part[s] \in Nat
    BY <1>5 DEF Sources
  <1>7. /\ DOMAIN new = {Key(s) : s \in Paid}
        /\ \A s \in Paid : new[Key(s)] = Entry("consume", "debit", s, part[s], "none")
    BY DEF Consumption
  <1> HIDE DEF part, new
  <1>8. \A s \in Sources : Key(s) \notin DOMAIN entries
    BY <1>2 DEF Books, Consumed
  <1>9. /\ DOMAIN entries' = DOMAIN entries \cup {Key(s) : s \in Paid}
        /\ \A j \in DOMAIN entries : entries'[j] = entries[j]
        /\ \A s \in Paid : entries'[Key(s)] = Entry("consume", "debit", s, part[s], "none")
    BY <1>1, <1>7, <1>8 DEF WithEntries, new
  <1>9a. \A s \in Paid : LET e == entries'[Key(s)]
                        IN e.type = "consume" /\ e.dir = "debit" /\ e.source = s /\ e.amount = part[s]
    <2> SUFFICES ASSUME NEW s \in Paid
                 PROVE  LET e == entries'[Key(s)]
                        IN e.type = "consume" /\ e.dir = "debit" /\ e.source = s /\ e.amount = part[s]
      OBVIOUS
    <2>1. entries'[Key(s)] = Entry("consume", "debit", s, part[s], "none")
      BY <1>9
    <2> QED BY <2>1 DEF Entry
  <1>9b. \A j \in DOMAIN entries' \ DOMAIN entries : \E s \in Paid : j = Key(s)
    BY <1>9
  <1>10. LedgerOK(entries')
    <2>1. IsFiniteSet(DOMAIN entries \cup {Key("cash")})
      BY FS_AddElement DEF Books, Funds, LedgerOK
    <2>2. IsFiniteSet((DOMAIN entries \cup {Key("cash")}) \cup {Key("bonus")})
      BY <2>1, FS_AddElement
    <2>3. IsFiniteSet(DOMAIN entries')
      <3>1. DOMAIN entries' \subseteq (DOMAIN entries \cup {Key("cash")}) \cup {Key("bonus")}
        BY <1>9 DEF Sources
      <3> QED BY <2>2, <3>1, FS_Subset
    <2>4. \A k \in DOMAIN entries' :
            entries'[k].dir \in {"credit", "debit"} /\ entries'[k].source \in Sources /\ entries'[k].amount \in Nat
      <3> SUFFICES ASSUME NEW k \in DOMAIN entries'
          PROVE  entries'[k].dir \in {"credit", "debit"} /\ entries'[k].source \in Sources /\ entries'[k].amount \in Nat
        OBVIOUS
      <3>1. CASE k \in DOMAIN entries
        BY <1>9, <3>1 DEF Books, Funds, LedgerOK
      <3>2. CASE k \notin DOMAIN entries
        BY <1>6, <1>9a, <1>9b, <3>2
      <3> QED BY <3>1, <3>2
    <2> QED BY <2>3, <2>4 DEF LedgerOK
  <1>11. Funds'
    BY <1>1, <1>2, <1>3, <1>10 DEF Books, Funds, LedgerOK
  <1>12. /\ call'[r] = "settled" /\ charge'[r] = c
         /\ \A q \in Requests \ {r} : call'[q] = call[q] /\ charge'[q] = charge[q]
    BY <1>1, <1>2 DEF Inv, Shape, Books, Funds
  <1>13. HoldParts'
    BY <1>2, <1>12 DEF Books, HoldParts
  <1>14. Consumed'
    <2> SUFFICES ASSUME NEW q \in Requests
        PROVE  /\ call'[q] # "settled" => charge'[q] = 0
               /\ \A s \in Sources :
                     LET key == <<"consume", q, s>>
                         prt == SplitConsume(q, charge[q])'[s]
                     IN  /\ key \in DOMAIN entries' <=> call'[q] = "settled" /\ prt > 0
                         /\ key \in DOMAIN entries' => entries'[key].amount = prt
      BY DEF Consumed, SplitConsume
    <2>1. CASE q = r
      <3>1. SplitConsume(q, charge[q])' = part
        BY <1>2, <1>12, <2>1 DEF part, SplitConsume
      <3>2. \A s \in Sources : Key(s) \in DOMAIN entries' <=> part[s] > 0
        BY <1>8, <1>9
      <3>3. \A s \in Sources : Key(s) \in DOMAIN entries' => entries'[Key(s)].amount = part[s]
        BY <1>9a, <3>2
      <3> QED BY <1>12, <2>1, <3>1, <3>2, <3>3
    <2>2. CASE q # r
      <3>1. SplitConsume(q, charge[q])' = SplitConsume(q, charge[q])
        BY <1>2, <1>12, <2>2 DEF SplitConsume
      <3>2. \A s \in Sources :
                /\ <<"consume", q, s>> \in DOMAIN entries' <=> <<"consume", q, s>> \in DOMAIN entries
                /\ <<"consume", q, s>> \in DOMAIN entries =>
                      entries'[<<"consume", q, s>>] = entries[<<"consume", q, s>>]
        BY <1>9, <2>2
      <3>3. Consumed /\ call'[q] = call[q] /\ charge'[q] = charge[q]
        BY <1>12, <2>2 DEF Books
      <3>4. /\ call[q] # "settled" => charge[q] = 0
            /\ \A s \in Sources :
                /\ <<"consume", q, s>> \in DOMAIN entries <=> call[q] = "settled" /\ SplitConsume(q, charge[q])[s] > 0
                /\ <<"consume", q, s>> \in DOMAIN entries =>
                      entries[<<"consume", q, s>>].amount = SplitConsume(q, charge[q])[s]
        BY <3>3 DEF Consumed
      <3> QED BY <3>1, <3>2, <3>3, <3>4
    <2> QED BY <2>1, <2>2
  <1>15. \A s \in Sources : Net'[s] = Net[s] - part[s]
    <2> SUFFICES ASSUME NEW s \in Sources PROVE NetOf(entries', s) = NetOf(entries, s) - part[s]
      BY DEF Net
    <2>1. LedgerOK(entries) /\ DOMAIN entries \subseteq DOMAIN entries'
      BY <1>9 DEF Books, Funds
    <2>2. \A j \in DOMAIN entries' \ DOMAIN entries : \E t \in Paid : j = Key(t) /\ entries'[j].source = t
      BY <1>9a, <1>9b
    <2>3. NetOf(entries, s) \in Int
      BY SumsAreNumbers DEF Books, Net
    <2>4. CASE part[s] > 0
      <3>1. Key(s) \in DOMAIN entries' \ DOMAIN entries /\ entries'[Key(s)].source = s
        BY <1>8, <1>9, <1>9a, <2>4
      <3>2. \A j \in DOMAIN entries' \ DOMAIN entries : entries'[j].source = s => j = Key(s)
        BY <2>2
      <3>3. Signed(entries'[Key(s)]) = -part[s]
        BY <1>9a, <2>4 DEF Signed
      <3>4. NetOf(entries', s) = NetOf(entries, s) + Signed(entries'[Key(s)])
        BY <1>9, <1>10, <2>1, <3>1, <3>2, NetGrows
      <3> QED BY <1>6, <2>3, <3>3, <3>4
    <2>5. CASE ~(part[s] > 0)
      <3>1. \A j \in DOMAIN entries' \ DOMAIN entries : entries'[j].source # s
        BY <2>2, <2>5
      <3>2. NetOf(entries', s) = NetOf(entries, s)
        BY <1>9, <1>10, <2>1, <3>1, NetGrows
      <3>3. part[s] = 0
        BY <1>6, <2>5
      <3> QED BY <2>3, <3>2, <3>3
    <2> QED BY <2>4, <2>5
  <1>16. Withdrawn' = Withdrawn
    <2>1. \A j \in DOMAIN entries' \ DOMAIN entries : entries'[j].type = "consume"
      BY <1>9a, <1>9b
    <2> QED BY <1>9, <1>10, <2>1, WithdrawnGrows DEF Books
  <1>17. Excess' = IF c > Amount[r] THEN Excess + (c - Amount[r]) ELSE Excess
    <2>1. charge[r] = 0
      BY <1>2 DEF Books, Consumed
    <2> QED BY <1>1, <1>3, <2>1, ExcessGrows DEF Books
  <1>18. \A s \in Sources : Held'[s] = Held[s] - split[r][s]
    <2>1. r \in Holding /\ Holding' = Holding \ {r}
      BY <1>2, <1>12 DEF Holding
    <2> QED BY <1>2, <2>1, HeldShrinks DEF Books
  <1>19. DebtIsUngated'
    <2>1. /\ \A s \in Sources : Net[s] \in Int /\ Held[s] \in Nat
          /\ Withdrawn \in Nat /\ Excess \in Nat
      BY SumsAreNumbers DEF Books
    <2>2. "cash" \in Sources /\ "bonus" \in Sources
      BY DEF Sources
    <2>3. Net["cash"] - Held["cash"] + (Net["bonus"] - Held["bonus"]) + Withdrawn + Excess >= 0
      BY DEF Books, DebtIsUngated, Available
    <2>4. /\ Net'["cash"] = Net["cash"] - part["cash"] /\ Net'["bonus"] = Net["bonus"] - part["bonus"]
          /\ Held'["cash"] = Held["cash"] - split[r]["cash"]
          /\ Held'["bonus"] = Held["bonus"] - split[r]["bonus"]
      BY <1>15, <1>18, <2>2
    <2>5. Excess' >= Excess + (c - Amount[r]) /\ Excess' >= Excess /\ Excess' \in Int
      BY <1>3, <1>17, <2>1
    <2>6. Net'["cash"] - Held'["cash"] + (Net'["bonus"] - Held'["bonus"]) + Withdrawn + Excess' >= 0
      BY <1>3, <1>4, <1>5, <2>1, <2>2, <2>3, <2>4, <2>5
    <2> QED BY <1>16, <2>6 DEF DebtIsUngated, Available
  <1> QED BY <1>11, <1>13, <1>14, <1>19 DEF Books

\* An empty ledger owes nothing.
LEMMA BooksInit == Init => Books
  <1> SUFFICES ASSUME Init PROVE Books
    OBVIOUS
  <1>1. /\ entries = [k \in {} |-> 0] /\ call = [r \in Requests |-> "new"]
        /\ split = [r \in Requests |-> [s \in Sources |-> 0]]
        /\ charge = [r \in Requests |-> 0]
    BY DEF Init
  <1>2. Funds
    BY <1>1, FS_EmptySet DEF Funds, LedgerOK
  <1>3. HoldParts
    BY <1>1 DEF HoldParts, Sources
  <1>4. Consumed
    BY <1>1 DEF Consumed
  <1>5. Holding = {}
    BY <1>1 DEF Holding
  <1>6. \A s \in Sources : Net[s] = 0
    <2> SUFFICES ASSUME NEW s \in Sources PROVE NetOf(entries, s) = 0
      BY DEF Net
    <2>1. {k \in DOMAIN entries : entries[k].source = s} = {}
      BY <1>1
    <2> QED BY <2>1, SumEmpty DEF NetOf
  <1>7. \A s \in Sources : Held[s] = 0
    BY <1>5, SumEmpty DEF Held, HeldOf
  <1>8. DebtIsUngated
    <2>1. Withdrawn \in Nat /\ Excess \in Nat
      BY <1>2, SumsAreNumbers
    <2>2. Available("cash") = 0 /\ Available("bonus") = 0
      BY <1>6, <1>7 DEF Available, Sources
    <2> QED BY <2>1, <2>2 DEF DebtIsUngated
  <1> QED BY <1>2, <1>3, <1>4, <1>8 DEF Books

\* Every step keeps the books.
LEMMA BooksKept == Inv /\ Books /\ [Next]_vars => Books'
  <1> SUFFICES ASSUME Inv, Books, [Next]_vars PROVE Books'
    OBVIOUS
  <1>1. ASSUME NEW r \in Requests,
               Pin(r) \/ ReadEntries(r) \/ ReadHolds(r) \/ ReadSpend(r) \/ Refuse(r)
        PROVE  Books'
    <2>1. entries' = entries /\ split' = split /\ charge' = charge
      BY <1>1 DEF Pin, ReadEntries, ReadHolds, ReadSpend, Refuse
    <2>2. /\ call[r] \in {"new", "pinned"} \cup Reading
          /\ call' = [call EXCEPT ![r] = call'[r]]
          /\ call'[r] \in {"pinned"} \cup Reading \cup Refusals
      BY <1>1 DEF Pin, ReadEntries, ReadHolds, ReadSpend, Refuse, Gate, Inv, Shape, Reading, Refusals
    <2>3. \A q \in Requests : call'[q] # call[q] =>
               /\ call[q] \notin {"held", "settled", "released"}
               /\ call'[q] \notin {"held", "settled", "released"}
      BY <2>2 DEF Inv, Shape, Reading, Refusals
    <2> QED BY <2>1, <2>3, BooksIdle
  <1>2. ASSUME NEW r \in Requests, Freeze(r) PROVE Books'
    BY <1>2, BooksFreeze
  <1>3. ASSUME NEW r \in Requests, Settle(r) PROVE Books'
    BY <1>3, BooksSettle
  <1>4. ASSUME NEW r \in Requests, Release(r) PROVE Books'
    BY <1>4, BooksRelease
  <1>5. ASSUME NEW m \in Movements, Move(m) PROVE Books'
    <2> DEFINE c == Command[m]
               e == Entry(c.type, c.dir, c.source, c.amount, "none")
    <2>1. /\ <<"move", m>> \notin DOMAIN entries
          /\ entries' = WithEntries([k \in {<<"move", m>>} |-> e])
          /\ call' = call /\ split' = split /\ charge' = charge
      BY <1>5 DEF Move
    <2>2. /\ e.dir \in {"credit", "debit"} /\ e.source \in Sources /\ e.amount \in Nat
          /\ e.type # "consume"
      BY WalletAssumption DEF Entry
    <2>3. \A r \in Requests, s \in Sources : <<"move", m>> # <<"consume", r, s>>
      OBVIOUS
    <2>4. /\ DOMAIN entries' = DOMAIN entries \cup {<<"move", m>>} /\ entries'[<<"move", m>>] = e
          /\ \A j \in DOMAIN entries : entries'[j] = entries[j]
      BY <2>1 DEF WithEntries
    <2> HIDE DEF e
    <2> QED BY <2>1, <2>2, <2>3, <2>4, BooksAppend
  <1>6. ASSUME NEW k \in DOMAIN entries, Reverse(k) PROVE Books'
    <2> DEFINE d == entries[k]
               e == Entry("reversal", IF d.dir = "debit" THEN "credit" ELSE "debit",
                          d.source, d.amount, d.type)
    <2>1. /\ <<"reversal", k>> \notin DOMAIN entries
          /\ entries' = WithEntries([j \in {<<"reversal", k>>} |-> e])
          /\ call' = call /\ split' = split /\ charge' = charge
      BY <1>6 DEF Reverse
    <2>2. /\ e.dir \in {"credit", "debit"} /\ e.source \in Sources /\ e.amount \in Nat
          /\ e.type # "consume"
      BY <1>6 DEF Entry, Books, Funds, LedgerOK
    <2>3. \A r \in Requests, s \in Sources : <<"reversal", k>> # <<"consume", r, s>>
      OBVIOUS
    <2>4. /\ DOMAIN entries' = DOMAIN entries \cup {<<"reversal", k>>} /\ entries'[<<"reversal", k>>] = e
          /\ \A j \in DOMAIN entries : entries'[j] = entries[j]
      BY <2>1 DEF WithEntries
    <2> HIDE DEF e
    <2> QED BY <2>1, <2>2, <2>3, <2>4, BooksAppend
  <1>7. CASE SetOverage \/ NextMonth \/ UNCHANGED vars
    <2>1. entries' = entries /\ split' = split /\ charge' = charge /\ call' = call
      BY <1>7 DEF SetOverage, NextMonth, vars
    <2> QED BY <2>1, BooksIdle
  <1> QED BY <1>1, <1>2, <1>3, <1>4, <1>5, <1>6, <1>7 DEF Next

\* The books are kept in every reachable state.
THEOREM BooksHold == Spec => []Books
  BY InvHolds, BooksInit, BooksKept, PTL DEF Spec

\* Each part of a hold comes out of money of its own source: SplitFreeze
\* never takes one source into debt to spare the other.
THEOREM SourcesAreCovered == Spec => SourceCovered
  <1>1. Inv /\ Books => [\A r \in Requests, s \in Sources :
            Freeze(r) => split'[r][s] <= IF Available(s) > 0 THEN Available(s) ELSE 0]_vars
    BY FreezeParts DEF Books
  <1> QED BY <1>1, InvHolds, BooksHold, PTL DEF SourceCovered

\* ReserveWallet never overdraws: whatever moves money while an admission
\* adds up, its hold is covered by the balance, each part by its source, and
\* all holds together by the monthly limit.
THEOREM HoldsAreCovered == Spec => HoldsCovered
  BY FreezesAreCovered, SourcesAreCovered, CapIsRespected, PTL DEF HoldsCovered

\* settleWalletLocked debits exactly the charge, and the balance is negative
\* only by debits no gate can refuse.
THEOREM DebitsAreExact == Spec => []DebitsExact
  <1>1. ASSUME Books PROVE DebitsExact
    <2>1. ASSUME NEW r \in Requests
          PROVE  LET Debit(s) == IF <<"consume", r, s>> \in DOMAIN entries
                                 THEN entries[<<"consume", r, s>>].amount ELSE 0
                 IN /\ Debit("cash") + Debit("bonus") = charge[r]
                    /\ Debit("bonus") <= split[r]["bonus"]
                    /\ call[r] # "settled" => charge[r] = 0
      <3> DEFINE Debit(s) == IF <<"consume", r, s>> \in DOMAIN entries
                             THEN entries[<<"consume", r, s>>].amount ELSE 0
                 part == SplitConsume(r, charge[r])
                 b == IF charge[r] < split[r]["bonus"] THEN charge[r] ELSE split[r]["bonus"]
      <3>1. /\ charge[r] \in Nat /\ split[r]["bonus"] \in Nat
        BY <1>1 DEF Books, Funds, Sources
      <3>2. part["bonus"] = b /\ part["cash"] = charge[r] - b
        BY DEF SplitConsume, Sources
      <3>3. b \in Nat /\ charge[r] - b \in Nat /\ b + (charge[r] - b) = charge[r] /\ b <= split[r]["bonus"]
        BY <3>1
      <3>4. call[r] # "settled" => charge[r] = 0
        BY <1>1 DEF Books, Consumed
      <3>5. \A s \in Sources : Debit(s) = IF call[r] = "settled" /\ part[s] > 0 THEN part[s] ELSE 0
        BY <1>1 DEF Books, Consumed
      <3> HIDE DEF part, b, Debit
      <3>6. /\ Debit("bonus") = IF call[r] = "settled" /\ part["bonus"] > 0 THEN part["bonus"] ELSE 0
            /\ Debit("cash") = IF call[r] = "settled" /\ part["cash"] > 0 THEN part["cash"] ELSE 0
        BY <3>5 DEF Sources
      <3>7. /\ Debit("cash") + Debit("bonus") = charge[r]
            /\ Debit("bonus") <= split[r]["bonus"]
        <4>1. CASE call[r] = "settled"
          BY <3>1, <3>2, <3>3, <3>6, <4>1
        <4>2. CASE call[r] # "settled"
          BY <3>1, <3>4, <3>6, <4>2
        <4> QED BY <4>1, <4>2
      <3> QED BY <3>4, <3>7 DEF Debit
    <2>2. ConsumeIsCharge
      BY <2>1 DEF ConsumeIsCharge
    <2> QED BY <1>1, <2>2 DEF DebitsExact, Books
  <1> QED BY <1>1, BooksHold, PTL

=============================================================================
