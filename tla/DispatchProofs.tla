--------------------------- MODULE DispatchProofs ---------------------------
(***************************************************************************)
(* The lease protocol, for any number of requests, accounts and slots: the *)
(* limits hold, a lost lease stays lost, and a keeper that renews in time  *)
(* owns its slots.                                                         *)
(***************************************************************************)
EXTENDS Dispatch, FiniteSetTheorems, TLAPS

Lease == [state : {"none", "held", "released", "expired"}, left : 0..TTL]

Rows == [Scopes -> [Requests -> Lease]]

Calling(r) == req[r].pc \in {"calling", "streaming"}

\* A request has no lease before admission, an attempt has a candidate, and
\* only a running call has a keeper.
Phases ==
    \A r \in Requests :
        /\ req[r].pc = "new" => \A s \in Scopes : row[s][r].state = "none"
        /\ req[r].try <= Tries(r)
        /\ req[r].pc = "leased" \/ Calling(r) => req[r].try > 0
        /\ req[r].keeper = "on" => Calling(r)
        /\ r \in due \cup renewed => Calling(r)

Inv == TypeOK /\ HeldWithinLimit /\ Phases /\ RenewedIsHeld

\* Leases that end, or stay, leave a scope within its slots.
LEMMA FewerHeld ==
    ASSUME NEW f, NEW g, HeldIn(g) \subseteq HeldIn(f), NEW n \in Nat, Cardinality(HeldIn(f)) <= n
    PROVE  Cardinality(HeldIn(g)) <= n
  <1>1. IsFiniteSet(HeldIn(f))
    BY FS_Subset, DispatchAssumption DEF HeldIn
  <1>2. Cardinality(HeldIn(g)) <= Cardinality(HeldIn(f)) /\ IsFiniteSet(HeldIn(g))
    BY <1>1, FS_Subset
  <1>3. Cardinality(HeldIn(f)) \in Nat /\ Cardinality(HeldIn(g)) \in Nat
    BY <1>1, <1>2, FS_CardinalityType
  <1> QED BY <1>2, <1>3

\* What AcquireLeaseTx inserts after its count fits (AcquireLeaseTx).
LEMMA GrantFits ==
    ASSUME NEW s \in Scopes, NEW r \in Requests, ~Full(s)
    PROVE  Cardinality(HeldIn(Granted(s, r))) <= Limit[s]
  <1> DEFINE H == HeldIn(Reclaimed(s))
  <1>1. IsFiniteSet(H)
    BY FS_Subset, DispatchAssumption DEF HeldIn
  <1>2. Cardinality(H) \in Nat /\ Limit[s] \in Nat
    BY <1>1, FS_CardinalityType, DispatchAssumption
  <1>3. Cardinality(H) + 1 <= Limit[s]
    BY <1>2 DEF Full
  <1>a. \A q \in Requests \ {r} : Granted(s, r)[q] = Reclaimed(s)[q]
    BY DEF Granted, Reclaimed
  <1>4. HeldIn(Granted(s, r)) \subseteq H \cup {r}
    BY <1>a DEF HeldIn
  <1> HIDE DEF H
  <1>5. IsFiniteSet(H \cup {r}) /\ Cardinality(H \cup {r}) <= Cardinality(H) + 1
    <2>1. IsFiniteSet(H \cup {r})
          /\ Cardinality(H \cup {r}) = IF r \in H THEN Cardinality(H) ELSE Cardinality(H) + 1
      BY <1>1, FS_AddElement, Zenon
    <2> QED BY <1>2, <2>1
  <1>6. Cardinality(HeldIn(Granted(s, r))) <= Cardinality(H \cup {r})
        /\ IsFiniteSet(HeldIn(Granted(s, r)))
    BY <1>4, <1>5, FS_Subset
  <1>7. Cardinality(H \cup {r}) \in Nat /\ Cardinality(HeldIn(Granted(s, r))) \in Nat
    BY <1>5, <1>6, FS_CardinalityType
  <1> QED BY <1>2, <1>3, <1>5, <1>6, <1>7

\* Of a granted scope, what changes for the others (AcquireLeaseTx).
LEMMA GrantedRows ==
    ASSUME row \in Rows, NEW s \in Scopes, NEW r \in Requests
    PROVE  /\ Granted(s, r) \in [Requests -> Lease]
           /\ Granted(s, r)[r] = [state |-> "held", left |-> TTL]
           /\ \A q \in Requests \ {r} : Granted(s, r)[q] = Reclaim(row[s][q])
           /\ Reclaimed(s)[r] = Reclaim(row[s][r])
  <1>1. [state |-> "held", left |-> TTL] \in Lease
    BY DispatchAssumption DEF Lease
  <1>2. \A q \in Requests : Reclaim(row[s][q]) \in Lease
    BY DispatchAssumption DEF Reclaim, Lease, Rows
  <1> QED BY <1>1, <1>2 DEF Granted, Reclaimed

\* Reclamation ends expired leases and nothing else.
LEMMA ReclaimEffect ==
    ASSUME NEW l \in Lease
    PROVE  /\ Reclaim(l).state = l.state \/ (l.state = "held" /\ Reclaim(l).state = "expired")
           /\ l.left > 0 => Reclaim(l) = l
           /\ Reclaim(l).state = "none" => l.state = "none"
  BY DEF Reclaim, Lease

\* Releasing touches only held leases of the request, in the scopes named.
LEMMA DropEffect ==
    ASSUME row \in Rows, NEW r \in Requests, NEW S, NEW kept
    PROVE  /\ Dropped(r, S, kept) \in Rows
           /\ \A s \in Scopes, q \in Requests :
                /\ q # r \/ s \notin S => Dropped(r, S, kept)[s][q] = row[s][q]
                /\ Dropped(r, S, kept)[s][q].state = row[s][q].state
                   \/ (row[s][q].state = "held" /\ Dropped(r, S, kept)[s][q].state = "released")
           /\ \A s \in Scopes : HeldIn(Dropped(r, S, kept)[s]) \subseteq HeldIn(row[s])
  <1>1. [state |-> "released", left |-> 0] \in Lease
    BY DispatchAssumption DEF Lease
  <1>2. Dropped(r, S, kept) \in Rows
    BY <1>1 DEF Dropped, Rows
  <1>3. \A s \in Scopes, q \in Requests :
           Dropped(r, S, kept)[s][q] = IF q = r /\ s \in S \ kept /\ row[s][q].state = "held"
             THEN [state |-> "released", left |-> 0] ELSE row[s][q]
    BY DEF Dropped
  <1>4. \A s \in Scopes : HeldIn(Dropped(r, S, kept)[s]) \subseteq HeldIn(row[s])
    BY <1>3 DEF HeldIn
  <1> QED BY <1>2, <1>3, <1>4


-----------------------------------------------------------------------------
Phase == {"new", "routing", "leased", "calling", "streaming", "rejected",
          "failed", "parked", "answered", "broken", "gone"}

Req == [pc : Phase, try : 0..MaxAttempts, keeper : {"off", "on", "fenced"}]

LostStep ==
    \A s \in Scopes, r \in Requests :
        row[s][r].state \in {"released", "expired"} => row'[s][r].state # "held"

\* A step of one request that only reclaims leases of others keeps the
\* invariant, if it is sound for the request itself.
LEMMA OwnStep ==
    ASSUME Inv, NEW r \in Requests,
           req' \in [Requests -> Req], \A q \in Requests \ {r} : req'[q] = req[q],
           req'[r].pc # "new", req'[r].try <= Tries(r),
           req'[r].pc \in {"leased", "calling", "streaming"} => req'[r].try > 0,
           req'[r].keeper = "on" => req'[r].pc \in {"calling", "streaming"},
           row' \in Rows,
           \A s \in Scopes, q \in Requests \ {r} :
              row'[s][q] = row[s][q] \/ row'[s][q] = Reclaim(row[s][q]),
           \A s \in Scopes : Cardinality(HeldIn(row'[s])) <= Limit[s],
           \A s \in Scopes : row[s][r].state \in {"released", "expired"} => row'[s][r].state # "held",
           due' = due \ {r}, renewed' = renewed \ {r},
           active' \subseteq Accounts, faults' \in 0..MaxFaults, switches' \in 0..MaxSwitches
    PROVE  Inv' /\ LostStep
  <1>1. TypeOK'
    BY DEF TypeOK, Inv, Rows, Lease, Req, Phase
  <1>2. HeldWithinLimit'
    BY DEF HeldWithinLimit
  <1>3. row \in Rows
    BY DEF Inv, TypeOK, Rows, Lease
  <1>4. \A s \in Scopes, q \in Requests \ {r} :
           /\ row[s][q].state = "none" => row'[s][q].state = "none"
           /\ row[s][q].state \in {"released", "expired"} => row'[s][q].state # "held"
           /\ row[s][q].left > 0 => row'[s][q] = row[s][q]
    <2> SUFFICES ASSUME NEW s \in Scopes, NEW q \in Requests \ {r}
                 PROVE  /\ row[s][q].state = "none" => row'[s][q].state = "none"
                        /\ row[s][q].state \in {"released", "expired"} => row'[s][q].state # "held"
                        /\ row[s][q].left > 0 => row'[s][q] = row[s][q]
      OBVIOUS
    <2>1. row[s][q] \in Lease
      BY <1>3 DEF Rows
    <2>2. row'[s][q] = row[s][q] \/ row'[s][q] = Reclaim(row[s][q])
      OBVIOUS
    <2> QED BY <2>1, <2>2 DEF Reclaim, Lease
  <1>5. LostStep
    BY <1>4 DEF LostStep
  <1>6. Phases'
    BY <1>4 DEF Phases, Inv, Calling, Tries
  <1>7. RenewedIsHeld'
    <2> SUFFICES ASSUME NEW q \in renewed \ {r}
                 PROVE  (Live(At(q), q) /\ Live(Customer, q))'
      BY DEF RenewedIsHeld
    <2>1. q \in Requests \ {r} /\ req'[q] = req[q]
      BY DEF Inv, TypeOK
    <2>2. Live(At(q), q) /\ Live(Customer, q)
      BY DEF Inv, RenewedIsHeld
    <2>3. At(q) \in Scopes /\ Customer \in Scopes /\ At(q)' = At(q)
      <3>1. req[q].try \in 1..Len(Candidates[q])
        <4>1. req[q].try > 0 /\ req[q].try <= Tries(q) /\ req[q].try \in 0..MaxAttempts
          BY <2>1 DEF Inv, Phases, Calling, TypeOK
        <4>2. Len(Candidates[q]) \in Nat /\ MaxAttempts \in Nat
          BY <2>1, DispatchAssumption
        <4> QED BY <4>1, <4>2 DEF Tries
      <3>2. Candidates[q] \in Seq(Accounts)
        BY <2>1, DispatchAssumption
      <3>3. Candidates[q][req[q].try] \in Accounts
        BY SMTT(30), Z3T(30), <3>1, <3>2
      <3> QED BY <2>1, <3>3 DEF At, Scopes
    <2>4. row'[At(q)][q] = row[At(q)][q] /\ row'[Customer][q] = row[Customer][q]
      BY <1>4, <2>1, <2>2, <2>3 DEF Live
    <2> QED BY <2>2, <2>3, <2>4 DEF Live
  <1> QED BY <1>1, <1>2, <1>5, <1>6, <1>7 DEF Inv


\* The common typing facts of a step.
LEMMA Typing ==
    ASSUME Inv
    PROVE  /\ row \in Rows /\ req \in [Requests -> Req]
           /\ active \subseteq Accounts /\ faults \in 0..MaxFaults /\ switches \in 0..MaxSwitches
           /\ MaxFaults \in Nat /\ MaxAttempts \in Nat
           /\ \A s \in Scopes : Cardinality(HeldIn(row[s])) <= Limit[s] /\ Limit[s] \in Nat
  BY SMTT(30), Z3T(30), DispatchAssumption DEF Inv, TypeOK, HeldWithinLimit, Rows, Lease, Req, Phase

\* Giving leases back is such a step, whichever statements fail (ReleaseLease,
\* and with no scope named a step that leaves the leases alone).
LEMMA DropStep ==
    ASSUME Inv, NEW r \in Requests, NEW S, NEW kept, row' = Dropped(r, S, kept),
           req' \in [Requests -> Req], \A q \in Requests \ {r} : req'[q] = req[q],
           req'[r].pc # "new", req'[r].try <= Tries(r),
           req'[r].pc \in {"leased", "calling", "streaming"} => req'[r].try > 0,
           req'[r].keeper = "on" => req'[r].pc \in {"calling", "streaming"},
           due' = due \ {r}, renewed' = renewed \ {r},
           active' = active, faults' \in 0..MaxFaults, switches' = switches
    PROVE  Inv' /\ LostStep
  <1>1. row \in Rows
    BY Typing
  <1>2. row' \in Rows
    BY <1>1, DropEffect
  <1>3. \A s \in Scopes, q \in Requests \ {r} : row'[s][q] = row[s][q]
    BY <1>1, DropEffect
  <1>4. \A s \in Scopes : HeldIn(row'[s]) \subseteq HeldIn(row[s])
    BY <1>1, DropEffect, ZenonT(60)
  <1>5. \A s \in Scopes : Cardinality(HeldIn(row'[s])) <= Limit[s]
    <2> SUFFICES ASSUME NEW s \in Scopes
                 PROVE  Cardinality(HeldIn(row'[s])) <= Limit[s]
      OBVIOUS
    <2> QED BY <1>4, Typing, FewerHeld
  <1>6. \A s \in Scopes : row[s][r].state \in {"released", "expired"} => row'[s][r].state # "held"
    BY <1>1, DropEffect
  <1>7. active' \subseteq Accounts /\ switches' \in 0..MaxSwitches
    BY Typing
  <1> QED BY SMTT(30), Z3T(30), <1>2, <1>3, <1>5, <1>6, <1>7, OwnStep

\* Dropping nothing.
LEMMA DropNothing ==
    ASSUME Inv, NEW r \in Requests
    PROVE  row = Dropped(r, {}, {})
  BY Typing DEF Dropped, Rows

\* A request that is not calling has no keeper to stop.
LEMMA NotDue ==
    ASSUME Inv, NEW r \in Requests, ~Calling(r)
    PROVE  due = due \ {r} /\ renewed = renewed \ {r}
  BY DEF Inv, Phases

\* The fault count of a release stays in its bound.
LEMMA DropFaults ==
    ASSUME Inv, NEW r, NEW S, NEW kept, Drop(r, S, kept)
    PROVE  row' = Dropped(r, S, kept) /\ faults' \in 0..MaxFaults
  BY Typing DEF Drop

\* What a request's record is before a step.
LEMMA Before ==
    ASSUME Inv, NEW r \in Requests
    PROVE  /\ req[r] \in Req /\ req[r].try <= Tries(r) /\ Tries(r) \in 0..MaxAttempts
           /\ req[r].pc \in {"leased", "calling", "streaming"} => req[r].try > 0
           /\ req[r].keeper = "on" => Calling(r)
  <1>1. Len(Candidates[r]) \in Nat /\ MaxAttempts \in Nat
    BY DispatchAssumption
  <1>2. Tries(r) \in 0..MaxAttempts
    BY <1>1 DEF Tries
  <1> QED BY <1>2, Typing DEF Inv, Phases, Calling

\* The steps that leave a call for good or for the next candidate.
LEMMA LeaveStep ==
    ASSUME Inv, NEW r \in Requests, NEW pc \in Phase \ {"new", "leased", "calling", "streaming"},
           NEW S, NEW kept, Leave(r, pc), row' = Dropped(r, S, kept),
           faults' \in 0..MaxFaults, active' = active, switches' = switches
    PROVE  Inv' /\ LostStep
  <1>1. req' = [req EXCEPT ![r].pc = pc, ![r].keeper = Paused(@)]
        /\ due' = due \ {r} /\ renewed' = renewed \ {r}
    BY DEF Leave
  <1>2. req \in [Requests -> Req] /\ req[r] \in Req
    BY Typing
  <1>3. Paused(req[r].keeper) \in {"off", "fenced"}
    BY <1>2 DEF Paused, Req
  <1>4. /\ req' \in [Requests -> Req] /\ \A q \in Requests \ {r} : req'[q] = req[q]
        /\ req'[r].pc = pc /\ req'[r].try = req[r].try /\ req'[r].keeper = Paused(req[r].keeper)
    BY Zenon, <1>1, <1>2, <1>3 DEF Req
  <1>5. req'[r].try <= Tries(r)
    BY <1>4, Before
  <1>6. req'[r].pc # "new" /\ req'[r].pc \notin {"leased", "calling", "streaming"} /\ req'[r].keeper # "on"
    BY SMTT(30), Z3T(30), <1>3, <1>4
  <1> QED BY <1>1, <1>4, <1>5, <1>6, DropStep

\* The steps that go on without touching the keeper.
LEMMA GotoStep ==
    ASSUME Inv, NEW r \in Requests, NEW pc \in Phase \ {"new", "leased", "calling", "streaming"},
           NEW S, NEW kept, ~Calling(r), Goto(r, pc), row' = Dropped(r, S, kept), Quiet,
           faults' \in 0..MaxFaults, active' = active, switches' = switches
    PROVE  Inv' /\ LostStep
  <1>1. req' = [req EXCEPT ![r].pc = pc]
    BY DEF Goto
  <1>2. req \in [Requests -> Req] /\ req[r] \in Req /\ req[r].keeper # "on"
    BY Typing, Before
  <1>3. /\ req' \in [Requests -> Req] /\ \A q \in Requests \ {r} : req'[q] = req[q]
        /\ req'[r].pc = pc /\ req'[r].try = req[r].try /\ req'[r].keeper = req[r].keeper
    BY SMTT(30), Z3T(30), <1>1, <1>2 DEF Req
  <1>4. req'[r].try <= Tries(r)
    BY <1>3, Before
  <1>5. due' = due \ {r} /\ renewed' = renewed \ {r}
    BY NotDue DEF Quiet
  <1>6. req'[r].pc # "new" /\ req'[r].pc \notin {"leased", "calling", "streaming"} /\ req'[r].keeper # "on"
    BY SMTT(30), Z3T(30), <1>2, <1>3
  <1> QED BY <1>3, <1>4, <1>5, <1>6, DropStep


-----------------------------------------------------------------------------
\* Granting a lease in one scope, after releases that free nothing there.
LEMMA GrantStep ==
    ASSUME Inv, NEW r \in Requests, NEW s \in Scopes, NEW S, s \notin S, ~Full(s),
           row[s][r].state = "none", ~Calling(r),
           row' = [Dropped(r, S, {}) EXCEPT ![s] = Granted(s, r)],
           req' \in [Requests -> Req], \A q \in Requests \ {r} : req'[q] = req[q],
           req'[r].pc # "new", req'[r].try <= Tries(r),
           req'[r].pc \in {"leased", "calling", "streaming"} => req'[r].try > 0,
           req'[r].keeper # "on", Quiet,
           active' = active, faults' \in 0..MaxFaults, switches' = switches
    PROVE  Inv' /\ LostStep
  <1>1. row \in Rows
    BY SMTT(30), Z3T(30), Typing
  <1>2. Dropped(r, S, {}) \in Rows /\ Granted(s, r) \in [Requests -> Lease]
    BY SMTT(30), Z3T(30), <1>1, DropEffect, GrantedRows
  <1>3. row' \in Rows /\ row'[s] = Granted(s, r)
        /\ \A t \in Scopes \ {s} : row'[t] = Dropped(r, S, {})[t]
    BY SMTT(30), Z3T(30), <1>2 DEF Rows
  <1>4. \A t \in Scopes, q \in Requests \ {r} :
           row'[t][q] = row[t][q] \/ row'[t][q] = Reclaim(row[t][q])
    <2> SUFFICES ASSUME NEW t \in Scopes, NEW q \in Requests \ {r}
                 PROVE  row'[t][q] = row[t][q] \/ row'[t][q] = Reclaim(row[t][q])
      OBVIOUS
    <2>1. CASE t = s
      BY SMTT(30), Z3T(30), <1>1, <1>3, <2>1, GrantedRows
    <2>2. CASE t # s
      BY SMTT(30), Z3T(30), <1>1, <1>3, <2>2, DropEffect
    <2> QED BY SMTT(30), Z3T(30), <2>1, <2>2
  <1>5. \A t \in Scopes : Cardinality(HeldIn(row'[t])) <= Limit[t]
    <2> SUFFICES ASSUME NEW t \in Scopes
                 PROVE  Cardinality(HeldIn(row'[t])) <= Limit[t]
      OBVIOUS
    <2>1. CASE t = s
      BY SMTT(30), Z3T(30), <1>3, <2>1, GrantFits
    <2>2. CASE t # s
      <3>1. HeldIn(Dropped(r, S, {})[t]) \subseteq HeldIn(row[t])
        BY ZenonT(60), <1>1, DropEffect
      <3>2. row'[t] = Dropped(r, S, {})[t]
        BY SMTT(30), Z3T(30), <1>3, <2>2
      <3> QED BY <3>1, <3>2, Typing, FewerHeld
    <2> QED BY SMTT(30), Z3T(30), <2>1, <2>2
  <1>6. \A t \in Scopes : row[t][r].state \in {"released", "expired"} => row'[t][r].state # "held"
    <2> SUFFICES ASSUME NEW t \in Scopes, row[t][r].state \in {"released", "expired"}
                 PROVE  row'[t][r].state # "held"
      OBVIOUS
    <2>1. t # s
      OBVIOUS
    <2> QED BY SMTT(30), Z3T(30), <1>1, <1>3, <2>1, DropEffect
  <1>7. due' = due \ {r} /\ renewed' = renewed \ {r}
    BY NotDue DEF Quiet
  <1>8. active' \subseteq Accounts /\ switches' \in 0..MaxSwitches
    BY Typing
  <1> QED BY SMTT(30), Z3T(30), <1>3, <1>4, <1>5, <1>6, <1>7, <1>8, OwnStep

\* Admission (admitOnce, AdmitWallet).
LEMMA AdmitKeeps ==
    ASSUME Inv, NEW r \in Requests, Admit(r)
    PROVE  Inv' /\ LostStep
  <1>1. req[r].pc = "new" /\ ~Calling(r)
    BY DEF Admit, Calling
  <1>2. Quiet /\ active' = active /\ faults' = faults /\ switches' = switches
    BY DEF Admit
  <1>3. CASE Full(Customer)
    <2>1. Goto(r, "rejected") /\ row' = Dropped(r, {}, {})
      BY SMTT(30), Z3T(30), <1>3, DropNothing DEF Admit
    <2> QED BY SMTT(30), Z3T(30), <1>1, <1>2, <2>1, GotoStep, Typing DEF Phase
  <1>4. CASE ~Full(Customer)
    <2>1. Goto(r, "routing") /\ row' = [Dropped(r, {}, {}) EXCEPT ![Customer] = Granted(Customer, r)]
      BY <1>4, DropNothing DEF Admit
    <2>2. Customer \in Scopes /\ row[Customer][r].state = "none"
      BY <1>1 DEF Scopes, Inv, Phases
    <2>3. req \in [Requests -> Req] /\ req[r] \in Req /\ req[r].keeper # "on"
      BY <1>1, Typing, Before
    <2>4. /\ req' \in [Requests -> Req] /\ \A q \in Requests \ {r} : req'[q] = req[q]
          /\ req'[r].pc = "routing" /\ req'[r].try = req[r].try /\ req'[r].keeper = req[r].keeper
      BY <2>1, <2>3 DEF Goto, Req, Phase
    <2>5. req'[r].try <= Tries(r)
      BY <2>4, Before
    <2>6. faults' \in 0..MaxFaults
      BY <1>2, Typing
    <2> QED BY SMTT(30), Z3T(30), <1>1, <1>2, <1>4, <2>1, <2>2, <2>3, <2>4, <2>5, <2>6, GrantStep
  <1> QED BY <1>3, <1>4

\* The next candidate of a request that has attempts left.
LEMMA NextCandidate ==
    ASSUME Inv, NEW r \in Requests, req[r].try < Tries(r)
    PROVE  /\ Candidates[r][req[r].try + 1] \in Accounts
           /\ req[r].try + 1 \in 0..MaxAttempts /\ req[r].try + 1 <= Tries(r) /\ req[r].try + 1 > 0
  <1>1. req[r].try \in 0..MaxAttempts /\ Tries(r) \in 0..MaxAttempts
    BY Before DEF Req
  <1>2. Len(Candidates[r]) \in Nat /\ MaxAttempts \in Nat /\ Candidates[r] \in Seq(Accounts)
    BY DispatchAssumption
  <1>3. req[r].try + 1 \in 1..Len(Candidates[r])
    BY <1>1, <1>2 DEF Tries
  <1> QED BY SMTT(30), Z3T(30), <1>1, <1>2, <1>3

\* The attempt's own transaction (persistAttempt, AcquireUpstreamLease).
LEMMA PersistKeeps ==
    ASSUME Inv, NEW r \in Requests, NEW kept, Persist(r, kept)
    PROVE  Inv' /\ LostStep
  <1> DEFINE a == Candidates[r][req[r].try + 1]
  <1>1. /\ req[r].pc = "routing" /\ req[r].try < Tries(r) /\ ~Calling(r)
        /\ Quiet /\ active' = active /\ switches' = switches
    BY DEF Persist, Calling
  <1>2. a \in Accounts /\ a \in Scopes /\ a # Customer
    BY <1>1, NextCandidate, DispatchAssumption DEF Scopes
  <1>3. req \in [Requests -> Req] /\ req[r] \in Req /\ req[r].keeper # "on" /\ row \in Rows
    BY SMTT(30), Z3T(30), <1>1, Typing, Before
  <1>4. \/ /\ req' = [req EXCEPT ![r].try = @ + 1]
           /\ row' = row /\ faults' = faults
        \/ /\ Goto(r, "failed") /\ Drop(r, {Customer}, kept)
        \/ /\ ~Full(a) /\ Reclaimed(a)[r].state = "none"
           /\ req' = [req EXCEPT ![r].pc = "leased", ![r].try = @ + 1]
           /\ row' = [row EXCEPT ![a] = Granted(a, r)]
           /\ faults' = faults
    BY Zenon DEF Persist, Refused
  <1> HIDE DEF a
  <1>5. CASE req' = [req EXCEPT ![r].try = @ + 1] /\ row' = row /\ faults' = faults
    <2>1. /\ req' \in [Requests -> Req] /\ \A q \in Requests \ {r} : req'[q] = req[q]
          /\ req'[r].pc = req[r].pc /\ req'[r].try = req[r].try + 1 /\ req'[r].keeper = req[r].keeper
      BY <1>1, <1>3, <1>5, NextCandidate DEF Req
    <2>2. row' = Dropped(r, {}, {}) /\ due' = due \ {r} /\ renewed' = renewed \ {r}
      BY <1>1, <1>5, DropNothing, NotDue DEF Quiet
    <2>3. req'[r].try <= Tries(r) /\ faults' \in 0..MaxFaults
      BY SMTT(30), Z3T(30), <1>1, <1>5, <2>1, NextCandidate, Typing
    <2> QED BY SMTT(30), Z3T(30), <1>1, <1>3, <2>1, <2>2, <2>3, DropStep
  <1>6. CASE Goto(r, "failed") /\ Drop(r, {Customer}, kept)
    BY <1>1, <1>6, DropFaults, GotoStep DEF Phase
  <1>7. CASE /\ ~Full(a) /\ Reclaimed(a)[r].state = "none"
             /\ req' = [req EXCEPT ![r].pc = "leased", ![r].try = @ + 1]
             /\ row' = [row EXCEPT ![a] = Granted(a, r)]
             /\ faults' = faults
    <2>1. /\ req' \in [Requests -> Req] /\ \A q \in Requests \ {r} : req'[q] = req[q]
          /\ req'[r].pc = "leased" /\ req'[r].try = req[r].try + 1 /\ req'[r].keeper = req[r].keeper
      BY <1>1, <1>3, <1>7, NextCandidate DEF Req, Phase
    <2>2. row[a][r].state = "none"
      <3>1. row[a][r] \in Lease
        BY <1>2, <1>3 DEF Rows
      <3>2. Reclaimed(a)[r] = Reclaim(row[a][r])
        BY <1>2, <1>3, GrantedRows
      <3> QED BY <1>7, <3>1, <3>2, ReclaimEffect
    <2>3. row' = [Dropped(r, {}, {}) EXCEPT ![a] = Granted(a, r)]
      BY Zenon, <1>7, DropNothing
    <2>4. req'[r].try <= Tries(r) /\ faults' \in 0..MaxFaults /\ req'[r].try > 0
      BY SMTT(30), Z3T(30), <1>1, <1>7, <2>1, NextCandidate, Typing
    <2> QED BY ZenonT(60), <1>1, <1>2, <1>3, <1>7, <2>1, <2>2, <2>3, <2>4, GrantStep
  <1> QED BY SMTT(30), Z3T(30), <1>4, <1>5, <1>6, <1>7

\* That transaction lost or failed.
LEMMA PersistFailsKeeps ==
    ASSUME Inv, NEW r \in Requests, PersistFails(r)
    PROVE  Inv' /\ LostStep
  <1> DEFINE a == Candidates[r][req[r].try + 1]
  <1>1. /\ req[r].pc = "routing" /\ req[r].try < Tries(r) /\ ~Calling(r)
        /\ Quiet /\ active' = active /\ switches' = switches /\ Goto(r, "failed")
        /\ faults' = faults + 1 /\ faults < MaxFaults
    BY SMTT(30), Z3T(30) DEF PersistFails, Calling
  <1>2. faults' \in 0..MaxFaults
    BY SMTT(30), Z3T(30), <1>1, Typing
  <1>3. a \in Accounts /\ a \in Scopes /\ a # Customer
    BY SMTT(30), Z3T(30), <1>1, NextCandidate, DispatchAssumption DEF Scopes
  <1>4. \/ row' = Dropped(r, {Customer}, {})
        \/ /\ ~Full(a) /\ Reclaimed(a)[r].state = "none"
           /\ row' = [Dropped(r, {Customer}, {}) EXCEPT ![a] = Granted(a, r)]
    <2>1. \/ row' = Dropped(r, {Customer}, {})
          \/ /\ ~Refused(a) /\ Reclaimed(a)[r].state = "none"
             /\ row' = [Dropped(r, {Customer}, {}) EXCEPT ![a] = Granted(a, r)]
      BY Zenon DEF PersistFails
    <2>2. ~Refused(a) => ~Full(a)
      BY Zenon DEF Refused
    <2> QED BY Zenon, <2>1, <2>2
  <1> HIDE DEF a
  <1>5. CASE row' = Dropped(r, {Customer}, {})
    BY <1>1, <1>2, <1>5, GotoStep DEF Phase
  <1>6. CASE /\ ~Full(a) /\ Reclaimed(a)[r].state = "none"
             /\ row' = [Dropped(r, {Customer}, {}) EXCEPT ![a] = Granted(a, r)]
    <2>1. req \in [Requests -> Req] /\ req[r] \in Req /\ req[r].keeper # "on" /\ row \in Rows
      BY <1>1, Typing, Before
    <2>2. /\ req' \in [Requests -> Req] /\ \A q \in Requests \ {r} : req'[q] = req[q]
          /\ req'[r].pc = "failed" /\ req'[r].try = req[r].try /\ req'[r].keeper = req[r].keeper
      BY SMTT(30), Z3T(30), <1>1, <2>1 DEF Goto, Req, Phase
    <2>3. row[a][r].state = "none"
      <3>1. row[a][r] \in Lease
        BY SMTT(30), Z3T(30), <1>3, <2>1 DEF Rows
      <3>2. Reclaimed(a)[r] = Reclaim(row[a][r])
        BY SMTT(30), Z3T(30), <1>3, <2>1, GrantedRows
      <3> QED BY <1>6, <3>1, <3>2, ReclaimEffect
    <2>4. req'[r].try <= Tries(r) /\ a \notin {Customer}
      BY <1>3, <2>2, Before
    <2> QED BY ZenonT(60), <1>1, <1>2, <1>3, <1>6, <2>1, <2>2, <2>3, <2>4, GrantStep
  <1> QED BY SMTT(30), Z3T(30), <1>4, <1>5, <1>6


-----------------------------------------------------------------------------
\* A call, or its stream, begins under a new keeper (attempt, onStreamDispatch).
LEMMA CallBegins ==
    ASSUME Inv, NEW r \in Requests, NEW pc \in {"calling", "streaming"}, req[r].try > 0,
           req' = [req EXCEPT ![r].pc = pc, ![r].keeper = "on"], row' = row,
           due' = due \ {r}, renewed' = renewed \ {r},
           active' = active, faults' = faults, switches' = switches
    PROVE  Inv' /\ LostStep
  <1>1. req \in [Requests -> Req] /\ req[r] \in Req
    BY Typing
  <1>2. /\ req' \in [Requests -> Req] /\ \A q \in Requests \ {r} : req'[q] = req[q]
        /\ req'[r].pc = pc /\ req'[r].try = req[r].try /\ req'[r].keeper = "on"
    BY Zenon, <1>1 DEF Req, Phase
  <1>3. req'[r].try <= Tries(r) /\ faults' \in 0..MaxFaults /\ row' = Dropped(r, {}, {})
    BY <1>2, Before, Typing, DropNothing
  <1>4. req'[r].pc # "new" /\ req'[r].try > 0 /\ req'[r].pc \in {"calling", "streaming"}
    BY <1>2
  <1> QED BY <1>2, <1>3, <1>4, DropStep

\* Every step of a request but its admission, its attempt and its renewals.
LEMMA CallKeeps ==
    ASSUME Inv, NEW r \in Requests, NEW kept,
           \/ Check(r, kept) \/ CandidateRefused(r, kept) \/ CallFails(r, kept)
           \/ CallRejected(r, kept) \/ CallUnknown(r, kept) \/ CallAnswers(r, kept)
           \/ StreamEnds(r, kept) \/ Exhausted(r, kept) \/ CallStreams(r) \/ Crash(r)
    PROVE  Inv' /\ LostStep
  <1>1. CASE Check(r, kept)
    <2>1. req[r].pc = "leased" /\ ~Calling(r) /\ Quiet /\ active' = active /\ switches' = switches
      BY <1>1 DEF Check, Calling
    <2>2. CASE Live(At(r), r)
      <3>1. req' = [req EXCEPT ![r].pc = "calling", ![r].keeper = "on"] /\ row' = row /\ faults' = faults
        BY SMTT(30), Z3T(30), <1>1, <2>2 DEF Check
      <3>2. req[r].try > 0 /\ due' = due \ {r} /\ renewed' = renewed \ {r}
        BY SMTT(30), Z3T(30), <2>1, Before, NotDue DEF Quiet
      <3> QED BY Zenon, <2>1, <3>1, <3>2, CallBegins
    <2>3. CASE ~Live(At(r), r)
      <3>1. Goto(r, "routing") /\ Drop(r, {At(r)}, kept)
        BY SMTT(30), Z3T(30), <1>1, <2>3 DEF Check
      <3> QED BY <2>1, <3>1, DropFaults, GotoStep DEF Phase
    <2> QED BY <2>2, <2>3
  <1>2. CASE CandidateRefused(r, kept)
    BY SMTT(30), Z3T(30), <1>2, DropFaults, GotoStep DEF CandidateRefused, Phase, Calling
  <1>3. CASE CallFails(r, kept)
    BY SMTT(30), Z3T(30), <1>3, DropFaults, LeaveStep DEF CallFails, Phase
  <1>4. CASE CallRejected(r, kept)
    BY SMTT(30), Z3T(30), <1>4, DropFaults, LeaveStep DEF CallRejected, Phase
  <1>5. CASE CallUnknown(r, kept)
    BY SMTT(30), Z3T(30), <1>5, DropFaults, LeaveStep DEF CallUnknown, Phase
  <1>6. CASE CallAnswers(r, kept)
    BY SMTT(30), Z3T(30), <1>6, DropFaults, LeaveStep DEF CallAnswers, Phase
  <1>7. CASE StreamEnds(r, kept)
    BY SMTT(30), Z3T(30), <1>7, DropFaults, LeaveStep DEF StreamEnds, Phase
  <1>8. CASE Exhausted(r, kept)
    BY <1>8, DropFaults, GotoStep DEF Exhausted, Phase, Calling
  <1>9. CASE CallStreams(r)
    <2>1. req[r].try > 0
      BY SMTT(30), Z3T(30), <1>9, Before DEF CallStreams
    <2> QED BY Zenon, <1>9, <2>1, CallBegins DEF CallStreams
  <1>10. CASE Crash(r)
    <2>1. faults' \in 0..MaxFaults /\ row' = Dropped(r, {}, {})
      BY SMTT(30), Z3T(30), <1>10, Typing, DropNothing DEF Crash
    <2> QED BY SMTT(30), Z3T(30), <1>10, <2>1, LeaveStep DEF Crash, Phase
  <1> QED BY SMTT(30), Z3T(30), <1>1, <1>2, <1>3, <1>4, <1>5, <1>6, <1>7, <1>8, <1>9, <1>10

\* The account of a call under way is one of the candidates.
LEMMA AtScope ==
    ASSUME Inv, NEW r \in Requests, Calling(r)
    PROVE  At(r) \in Scopes /\ Customer \in Scopes
  <1>1. req[r].try \in 0..MaxAttempts /\ req[r].try > 0 /\ req[r].try <= Tries(r)
    BY Before DEF Req, Calling
  <1>2. Len(Candidates[r]) \in Nat /\ MaxAttempts \in Nat /\ Candidates[r] \in Seq(Accounts)
    BY DispatchAssumption
  <1>3. req[r].try \in 1..Len(Candidates[r])
    BY <1>1, <1>2 DEF Tries
  <1> QED BY SMTT(30), Z3T(30), <1>2, <1>3 DEF At, Scopes

\* A renewal extends what is held and nothing else (RenewLease, loop).
LEMMA RenewKeeps ==
    ASSUME Inv, NEW r \in Requests, NEW missed, Renew(r, missed)
    PROVE  Inv' /\ LostStep
  <1>1. r \in due /\ Calling(r) /\ At(r) \in Scopes /\ Customer \in Scopes
    <2>1. r \in due
      BY DEF Renew
    <2>2. Calling(r)
      BY <2>1 DEF Inv, Phases
    <2> QED BY <2>1, <2>2, AtScope
  <1>2. row \in Rows /\ req \in [Requests -> Req] /\ req[r] \in Req
    BY Typing
  <1>3. [state |-> "held", left |-> TTL] \in Lease /\ TTL > 0
    BY DispatchAssumption DEF Lease
  <1>4. PICK todo \in SUBSET {At(r), Customer} :
           row' = [s \in Scopes |-> [q \in Requests |->
                     IF q = r /\ s \in todo /\ Owns(s, r)
                     THEN [state |-> "held", left |-> TTL] ELSE row[s][q]]]
    BY Zenon DEF Renew
  <1>5. row' \in Rows
    BY SMTT(30), Z3T(30), <1>2, <1>3, <1>4 DEF Rows
  <1>6. \A s \in Scopes, q \in Requests :
           row'[s][q] = IF q = r /\ s \in todo /\ Owns(s, r)
                        THEN [state |-> "held", left |-> TTL] ELSE row[s][q]
    BY SMTT(30), Z3T(30), <1>4
  <1>7. \A s \in Scopes, q \in Requests : row'[s][q].state = row[s][q].state
    BY <1>6 DEF Owns
  <1>8. \A s \in Scopes : HeldIn(row'[s]) = HeldIn(row[s])
    BY <1>7 DEF HeldIn
  <1>9. req' = req \/ req' = [req EXCEPT ![r].keeper = "fenced"]
    BY DEF Renew
  <1>10. /\ req' \in [Requests -> Req]
         /\ \A q \in Requests : /\ req'[q].pc = req[q].pc /\ req'[q].try = req[q].try
                                /\ req'[q].keeper = "on" => req[q].keeper = "on"
    BY <1>2, <1>9 DEF Req
  <1>11. /\ active' = active /\ switches' = switches /\ faults' \in 0..MaxFaults
         /\ due' = due \ {r} /\ renewed' \subseteq renewed \cup {r}
    BY SMTT(30), Z3T(30), Typing DEF Renew
  <1>12. TypeOK'
    BY SMTT(30), Z3T(30), <1>5, <1>10, <1>11, Typing DEF TypeOK, Inv, Rows, Lease, Req, Phase
  <1>13. HeldWithinLimit'
    BY SMTT(30), Z3T(30), <1>8 DEF HeldWithinLimit, Inv
  <1>14. Phases'
    BY SMTT(30), Z3T(30), <1>1, <1>7, <1>10, <1>11 DEF Phases, Inv, Calling, Tries
  <1>15. LostStep
    BY SMTT(30), Z3T(30), <1>7 DEF LostStep
  <1>16. \A q \in Requests : At(q)' = At(q)
    BY <1>10 DEF At
  <1>17. RenewedIsHeld'
    <2> SUFFICES ASSUME NEW q \in renewed'
                 PROVE  (Live(At(q), q) /\ Live(Customer, q))'
      BY SMTT(30), Z3T(30) DEF RenewedIsHeld
    <2>1. CASE q \in renewed
      <3>1. q \in Requests /\ Calling(q) /\ Live(At(q), q) /\ Live(Customer, q)
        BY <2>1 DEF Inv, TypeOK, Phases, RenewedIsHeld
      <3>2. At(q) \in Scopes
        BY SMTT(30), Z3T(30), <3>1, AtScope
      <3>3. \A s \in {At(q), Customer} :
               row'[s][q].state = "held" /\ row'[s][q].left > 0
        BY SMTT(30), Z3T(30), <1>1, <1>3, <1>6, <3>1, <3>2 DEF Live
      <3> QED BY SMTT(30), Z3T(30), <1>16, <3>1, <3>3 DEF Live
    <2>2. CASE q \notin renewed
      <3>1. q = r /\ missed = {} /\ Owns(At(r), r) /\ Owns(Customer, r)
        BY <2>2 DEF Renew
      <3>2. row' = [s \in Scopes |-> [p \in Requests |->
                     IF p = r /\ s \in {At(r), Customer} /\ Owns(s, r)
                     THEN [state |-> "held", left |-> TTL] ELSE row[s][p]]]
        BY SMTT(30), Z3T(30), <3>1 DEF Renew
      <3>3. row'[At(r)][r] = [state |-> "held", left |-> TTL]
            /\ row'[Customer][r] = [state |-> "held", left |-> TTL]
        BY SMTT(30), Z3T(30), <1>1, <3>1, <3>2
      <3> QED BY SMTT(30), Z3T(30), <1>3, <1>16, <3>1, <3>3 DEF Live
    <2> QED BY <2>1, <2>2
  <1> QED BY SMTT(30), Z3T(30), <1>12, <1>13, <1>14, <1>15, <1>17 DEF Inv

\* Time only shortens leases.
LEMMA TickKeeps ==
    ASSUME Inv, Tick
    PROVE  Inv' /\ LostStep
  <1>1. row \in Rows
    BY SMTT(30), Z3T(30), Typing
  <1>2. row' = [s \in Scopes |-> [r \in Requests |-> Aged(row[s][r])]]
        /\ due' = {r \in Requests : req[r].keeper = "on"} /\ renewed' = {}
        /\ active' = active /\ req' = req /\ faults' = faults /\ switches' = switches
    BY DEF Tick
  <1>3. \A l \in Lease : Aged(l) \in Lease /\ Aged(l).state = l.state
    BY SMTT(30), Z3T(30), DispatchAssumption DEF Aged, Lease
  <1>4. row' \in Rows /\ \A s \in Scopes, r \in Requests : row'[s][r].state = row[s][r].state
    BY SMTT(30), Z3T(30), <1>1, <1>2, <1>3 DEF Rows
  <1>5. \A s \in Scopes : HeldIn(row'[s]) = HeldIn(row[s])
    BY SMTT(30), Z3T(30), <1>4 DEF HeldIn
  <1>6. TypeOK'
    BY SMTT(30), Z3T(30), <1>2, <1>4 DEF TypeOK, Inv, Rows, Lease
  <1>7. HeldWithinLimit'
    BY SMTT(30), Z3T(30), <1>5 DEF HeldWithinLimit, Inv
  <1>8. Phases'
    BY SMTT(30), Z3T(30), <1>2, <1>4 DEF Phases, Inv, Calling, Tries
  <1>9. RenewedIsHeld' /\ LostStep
    BY <1>2, <1>4 DEF RenewedIsHeld, LostStep
  <1> QED BY SMTT(30), Z3T(30), <1>6, <1>7, <1>8, <1>9 DEF Inv

\* The reaper deletes only ended leases of ended requests.
LEMMA ReapKeeps ==
    ASSUME Inv, NEW s \in Scopes, NEW r \in Requests, Reap(s, r)
    PROVE  Inv' /\ LostStep
  <1>1. row \in Rows /\ NoRow \in Lease
    BY Typing, DispatchAssumption DEF NoRow, Lease
  <1>2. /\ row' = [row EXCEPT ![s][r] = NoRow] /\ row[s][r].state \in {"released", "expired"}
        /\ req' = req /\ due' = due /\ renewed' = renewed
        /\ active' = active /\ faults' = faults /\ switches' = switches
    BY DEF Reap, Quiet
  <1>3. row' \in Rows /\ \A t \in Scopes, q \in Requests :
           row'[t][q] = IF t = s /\ q = r THEN NoRow ELSE row[t][q]
    BY SMTT(30), Z3T(30), <1>1, <1>2 DEF Rows
  <1>4. \A t \in Scopes : HeldIn(row'[t]) \subseteq HeldIn(row[t])
    BY SMTT(30), Z3T(30), <1>3 DEF HeldIn, NoRow
  <1>5. TypeOK'
    BY SMTT(30), Z3T(30), <1>2, <1>3 DEF TypeOK, Inv, Rows, Lease
  <1>6. HeldWithinLimit'
    <2> SUFFICES ASSUME NEW t \in Scopes
                 PROVE  Cardinality(HeldIn(row'[t])) <= Limit[t]
      BY SMTT(30), Z3T(30) DEF HeldWithinLimit
    <2> QED BY SMTT(30), Z3T(30), <1>4, Typing, FewerHeld
  <1>7. Phases'
    BY SMTT(30), Z3T(30), <1>2, <1>3 DEF Phases, Inv, Calling, Tries, NoRow
  <1>8. LostStep
    BY SMTT(30), Z3T(30), <1>3 DEF LostStep, NoRow
  <1>9. RenewedIsHeld'
    <2> SUFFICES ASSUME NEW q \in renewed
                 PROVE  (Live(At(q), q) /\ Live(Customer, q))'
      BY SMTT(30), Z3T(30), <1>2 DEF RenewedIsHeld
    <2>1. q \in Requests /\ Calling(q) /\ Live(At(q), q) /\ Live(Customer, q)
      BY DEF Inv, TypeOK, Phases, RenewedIsHeld
    <2>2. At(q) \in Scopes /\ Customer \in Scopes /\ At(q)' = At(q)
      BY <1>2, <2>1, AtScope DEF At
    <2>3. q # r
      BY <1>2, <2>1 DEF Reap, Calling
    <2> QED BY SMTT(30), Z3T(30), <1>3, <2>1, <2>2, <2>3 DEF Live
  <1> QED BY SMTT(30), Z3T(30), <1>5, <1>6, <1>7, <1>8, <1>9 DEF Inv

\* A step that leaves leases and requests alone.
LEMMA SameKeeps ==
    ASSUME Inv, row' = row, req' = req, due' = due, renewed' = renewed,
           active' \subseteq Accounts, faults' = faults, switches' \in 0..MaxSwitches
    PROVE  Inv' /\ LostStep
  <1>1. TypeOK'
    BY SMTT(30), Z3T(30) DEF TypeOK, Inv
  <1>2. HeldWithinLimit' /\ Phases' /\ RenewedIsHeld'
    BY DEF HeldWithinLimit, Phases, RenewedIsHeld, Inv, Calling, Live, At
  <1>3. LostStep
    BY DEF LostStep
  <1> QED BY SMTT(30), Z3T(30), <1>1, <1>2, <1>3 DEF Inv

\* Every step keeps the invariant and revives no lease.
LEMMA NextKeeps ==
    ASSUME Inv, [Next]_vars
    PROVE  Inv' /\ LostStep
  <1>1. ASSUME NEW r \in Requests, Step(r)
        PROVE  Inv' /\ LostStep
    BY SMTT(30), Z3T(30), <1>1, AdmitKeeps, PersistKeeps, CallKeeps, RenewKeeps DEF Step
  <1>2. ASSUME NEW r \in Requests, PersistFails(r) \/ Crash(r)
        PROVE  Inv' /\ LostStep
    BY SMTT(30), Z3T(30), <1>2, PersistFailsKeeps, CallKeeps
  <1>3. ASSUME NEW a \in Accounts, Switch(a)
        PROVE  Inv' /\ LostStep
    <2>1. row' = row /\ req' = req /\ due' = due /\ renewed' = renewed /\ faults' = faults
      BY SMTT(30), Z3T(30), <1>3 DEF Switch, Quiet
    <2>2. active' \subseteq Accounts /\ switches' \in 0..MaxSwitches
      BY SMTT(30), Z3T(30), <1>3, Typing, DispatchAssumption DEF Switch
    <2> QED BY SMTT(30), Z3T(30), <2>1, <2>2, SameKeeps
  <1>4. CASE UNCHANGED vars
    BY <1>4, SameKeeps, Typing DEF vars
  <1> QED BY SMTT(30), Z3T(30), <1>1, <1>2, <1>3, <1>4, ReapKeeps, TickKeeps DEF Next

\* Nothing is held at the start.
LEMMA InitInv == Init => Inv
  <1> SUFFICES ASSUME Init PROVE Inv
    OBVIOUS
  <1>1. TypeOK
    BY SMTT(30), Z3T(30), DispatchAssumption DEF Init, TypeOK, NoRow
  <1>2. \A s \in Scopes : HeldIn(row[s]) = {}
    BY SMTT(30), Z3T(30) DEF Init, HeldIn, NoRow
  <1>3. HeldWithinLimit
    <2>1. Cardinality({}) = 0
      BY FS_EmptySet
    <2>2. \A s \in Scopes : Limit[s] \in Nat
      BY DispatchAssumption
    <2> QED BY <1>2, <2>1, <2>2 DEF HeldWithinLimit
  <1>4. \A r \in Requests : Tries(r) \in Nat
    BY SMTT(30), Z3T(30), DispatchAssumption DEF Tries
  <1>5. Phases /\ RenewedIsHeld
    BY <1>4 DEF Init, Phases, RenewedIsHeld, Calling, NoRow
  <1> QED BY <1>1, <1>3, <1>5 DEF Inv

\* The invariant holds throughout.
THEOREM InvHolds == Spec => []Inv
  <1>1. Inv /\ [Next]_vars => Inv'
    BY NextKeeps
  <1> QED BY InitInv, <1>1, PTL DEF Spec

\* The concurrency limit of a billing account or an upstream account is never
\* exceeded by held leases, for any limits and any number of requests
\* (AcquireLeaseTx, RenewLease, ReleaseLease, DeleteTerminalLeases).
THEOREM LimitsHold == Spec => []HeldWithinLimit
  BY InvHolds, PTL DEF Inv

\* A keeper that renewed in this interval owns both its leases, so nobody else
\* has been granted their slots (LeaseKeeper.loop against AcquireLeaseTx).
THEOREM RenewedKeepTheirSlots == Spec => []RenewedIsHeld
  BY InvHolds, PTL DEF Inv

\* No step makes a released or expired lease held again (RenewLease).
THEOREM NoRevival == Spec => LostStaysLost
  <1>1. Inv /\ [Next]_vars =>
          [\A s \in Scopes, r \in Requests :
             row[s][r].state \in {"released", "expired"} => row'[s][r].state # "held"]_vars
    BY NextKeeps DEF LostStep
  <1> QED BY InvHolds, <1>1, PTL DEF Spec, LostStaysLost

\* A lease is kept while it is renewed in time and never comes back once it is
\* lost, for any limits and any number of requests and accounts.
THEOREM SlotsAreKept == Spec => SlotsKept
  BY RenewedKeepTheirSlots, NoRevival, PTL DEF SlotsKept

=============================================================================
