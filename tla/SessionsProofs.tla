--------------------------- MODULE SessionsProofs ---------------------------
(***************************************************************************)
(* Proofs about refresh sessions, for any number of requests and sessions, *)
(* any bound on the walk and any grace window.                             *)
(*                                                                         *)
(* The rows of a user only move forward: a free row becomes live, a live   *)
(* one revoked, and a revoked one never changes again.  A walking request  *)
(* may hold a live row that is out of date, but a revoked one it holds is  *)
(* the row as it is; each of its hops is paid for by a rotation it has     *)
(* passed, or by the race it has just lost.                                *)
(***************************************************************************)
EXTENDS Sessions, FiniteSetTheorems, TLAPS

\* The bounds are numbers.
Sized == MaxSessions \in Nat /\ MaxHops \in Nat /\ Grace \in Nat /\ RefreshTTL \in Nat

Row == [state : {"none", "live", "revoked"}, at : Nat, to : 0..MaxSessions, exp : Nat,
        fam : 0..MaxSessions, scope : BOOLEAN]

\* The sessions below n that were rotated.
RotatedBelow(n) == {i \in Ids : i < n /\ sessions[i].to # 0}

Types ==
    /\ sessions \in [Ids -> Row]
    /\ sub \in Int /\ logouts \in BOOLEAN /\ punished \in BOOLEAN /\ now \in Nat

\* Rows are used in order and a login is known by a row that exists; what was
\* rotated is revoked and points at a later row, and a row that was revoked
\* otherwise was logged out of or punished.
Chains ==
    /\ \A i, j \in Ids : i < j /\ sessions[j].state # "none" => sessions[i].state # "none"
    /\ \A i \in Ids : sessions[i].state # "none" =>
          sessions[i].fam \in Ids /\ sessions[sessions[i].fam].state # "none"
    /\ \A i \in Ids : sessions[i].to # 0 =>
          /\ sessions[i].state = "revoked"
          /\ sessions[i].to \in Ids /\ i < sessions[i].to
          /\ sessions[sessions[i].to].state # "none"
    /\ \A i \in Ids : sessions[i].state = "revoked" /\ sessions[i].to = 0 => logouts \/ punished

\* A request on its way along the chain.
Walking(c) ==
    /\ c.cur \in Ids /\ sessions[c.cur].state # "none"
    /\ c.t \in Nat /\ c.t <= now /\ c.hops \in Nat
    /\ c.target \in Row /\ c.target.state \in {"live", "revoked"}
    /\ c.target.state = "revoked" => c.target = sessions[c.cur]
    /\ c.hops <= 2 * Cardinality(RotatedBelow(c.cur)) + (IF c.target.state = "revoked" THEN 1 ELSE 0)

\* The progress of a request is a record of these fields.
Fields == {"pc", "id", "target", "cur", "hops", "t", "chain"}
IsCall(c) == c = [f \in Fields |-> c[f]]

CallOK(c) ==
    /\ IsCall(c)
    /\ c.pc = "walk" => Walking(c)
    /\ c.pc \in {"reuse", "revoke"} => logouts \/ now > Grace
    /\ c.pc = "logout" => c.id \in Ids /\ sessions[c.id].state # "none"

Inv ==
    /\ Types /\ Chains
    /\ call = [r \in Requests |-> call[r]]
    /\ \A r \in Requests : CallOK(call[r])
    /\ ChainHolds

-----------------------------------------------------------------------------
(* Rows *)

\* Rows move forward, and so do the clock and the history.
Later ==
    /\ \A i \in Ids : /\ sessions[i].state = "revoked" => sessions'[i] = sessions[i]
                      /\ sessions[i].state # "none" => sessions'[i].state # "none"
    /\ now <= now' /\ (logouts => logouts') /\ (punished => punished')

\* What a step leaves of the table.
RowsOK == Types' /\ Chains' /\ OneLive' /\ Later

\* A step that writes no row.
LEMMA NoRowStep ==
    ASSUME Sized, Inv, UNCHANGED <<sessions, sub, logouts, punished>>, now' = now \/ now' = now + 1
    PROVE  RowsOK
<1>1. Types'
  BY DEF Inv, Types
<1>2. Chains'
  BY DEF Inv, Chains
<1>3. OneLive'
  BY DEF Inv, ChainHolds, OneLive, Rows
<1>4. Later
  BY DEF Inv, Types, Later
<1>. QED BY <1>1, <1>2, <1>3, <1>4 DEF RowsOK

\* A new row is typed and live.
LEMMA NewRowType ==
    ASSUME Sized, Types, NEW t \in Nat, NEW fam \in Ids
    PROVE  /\ NewRow(t, fam) \in Row
           /\ NewRow(t, fam).state = "live" /\ NewRow(t, fam).to = 0 /\ NewRow(t, fam).fam = fam
  BY DEF Sized, Types, NewRow, Row, Ids, scopeForTokenIssuance, peekSubscription

\* A login: the free row starts a chain of its own.
LEMMA LoginRows ==
    ASSUME Sized, Inv, Login
    PROVE  RowsOK
<1>0. sessions \in [Ids -> Row] /\ now \in Nat /\ Types /\ Chains /\ OneLive
  BY DEF Inv, Types, ChainHolds
<1>1. PICK i \in Free : sessions' = [sessions EXCEPT ![i] = NewRow(now, i)]
  BY DEF Login
<1>2. UNCHANGED <<sub, logouts, punished, now>>
  BY DEF Login
<1>3. /\ i \in Ids /\ sessions[i].state = "none"
      /\ \A j \in Ids : sessions[j].state = "none" => i <= j
  BY DEF Free, Rows
<1>. DEFINE new == NewRow(now, i)
<1>4. new \in Row /\ new.state = "live" /\ new.to = 0 /\ new.fam = i
  BY <1>0, <1>3, NewRowType
<1>. HIDE DEF new
<1>5. sessions'[i] = new /\ \A j \in Ids \ {i} : sessions'[j] = sessions[j]
  BY <1>0, <1>1, <1>3 DEF new
<1>6. Types'
  BY <1>0, <1>1, <1>2, <1>4 DEF Types, new
<1>7. Chains'
  <2>1. \A j, k \in Ids : j < k /\ sessions'[k].state # "none" => sessions'[j].state # "none"
    BY <1>0, <1>3, <1>4, <1>5 DEF Chains, Ids
  <2>2. \A j \in Ids : sessions'[j].state # "none" =>
            sessions'[j].fam \in Ids /\ sessions'[sessions'[j].fam].state # "none"
    BY <1>0, <1>3, <1>4, <1>5 DEF Chains
  <2>3. \A j \in Ids : sessions'[j].to # 0 =>
            /\ sessions'[j].state = "revoked"
            /\ sessions'[j].to \in Ids /\ j < sessions'[j].to
            /\ sessions'[sessions'[j].to].state # "none"
    BY <1>0, <1>3, <1>4, <1>5 DEF Chains
  <2>4. \A j \in Ids : sessions'[j].state = "revoked" /\ sessions'[j].to = 0 => logouts' \/ punished'
    BY <1>0, <1>2, <1>4, <1>5 DEF Chains
  <2>. QED BY <2>1, <2>2, <2>3, <2>4 DEF Chains
<1>8. OneLive'
  <2>1. \A j \in Ids \ {i} : sessions[j].state = "live" => sessions[j].fam # i
    BY <1>0, <1>3 DEF Chains
  <2>. QED BY <1>0, <1>4, <1>5, <2>1 DEF OneLive, Rows
<1>9. Later
  BY <1>0, <1>2, <1>3, <1>4, <1>5 DEF Later
<1>. QED BY <1>6, <1>7, <1>8, <1>9 DEF RowsOK

\* A rotation: the live row is revoked and points at the free one, which
\* takes its place in the chain.
LEMMA RotateRows ==
    ASSUME Sized, Inv, NEW c, c.cur \in Ids, c.t \in Nat, NEW i \in Free, RotateRefresh(c, i),
           UNCHANGED <<sub, logouts, punished, now>>
    PROVE  RowsOK
<1>0. sessions \in [Ids -> Row] /\ now \in Nat /\ Types /\ Chains /\ OneLive
  BY DEF Inv, Types, ChainHolds
<1>. DEFINE k == c.cur
            new == NewRow(c.t, sessions[k].fam)
            old == [sessions[k] EXCEPT !.state = "revoked", !.at = now, !.to = i]
<1>1. sessions[k].state = "live" /\ sessions' = [sessions EXCEPT ![k] = old, ![i] = new] /\ k \in Ids
  BY DEF RotateRefresh
<1>2. /\ i \in Ids /\ sessions[i].state = "none"
      /\ \A j \in Ids : sessions[j].state = "none" => i <= j
  BY DEF Free, Rows
<1>3. sessions[k].fam \in Ids /\ sessions[sessions[k].fam].state # "none"
  BY <1>0, <1>1 DEF Chains
<1>4. new \in Row /\ new.state = "live" /\ new.to = 0 /\ new.fam = sessions[k].fam
  BY <1>0, <1>3, NewRowType
<1>5. old \in Row /\ old.state = "revoked" /\ old.to = i /\ old.fam = sessions[k].fam
  <2>1. sessions[k] \in Row
    BY <1>0, <1>1
  <2>2. i \in 0..MaxSessions
    BY <1>2 DEF Ids, Sized
  <2>. QED BY <1>0, <2>1, <2>2 DEF Row
<1>. HIDE DEF new, old, k
<1>6. k # i /\ k < i
  BY <1>0, <1>1, <1>2 DEF Chains, Ids
<1>7. sessions'[i] = new /\ sessions'[k] = old /\ \A j \in Ids \ {i, k} : sessions'[j] = sessions[j]
  BY <1>0, <1>1, <1>2, <1>6
<1>8. Types'
  BY <1>0, <1>1, <1>4, <1>5 DEF Types
<1>9. Chains'
  <2>1. \A j, n \in Ids : j < n /\ sessions'[n].state # "none" => sessions'[j].state # "none"
    <3>1. \A j \in Ids : sessions'[j].state # "none" <=> sessions[j].state # "none" \/ j = i
      BY <1>1, <1>4, <1>5, <1>7
    <3>2. \A j \in Ids : j < i => sessions[j].state # "none"
      BY <1>2 DEF Ids
    <3>. QED BY <1>0, <1>2, <3>1, <3>2 DEF Chains
  <2>2. \A j \in Ids : sessions'[j].state # "none" =>
            sessions'[j].fam \in Ids /\ sessions'[sessions'[j].fam].state # "none"
    <3>1. \A n \in Ids : sessions[n].state # "none" => sessions'[n].state # "none"
      BY <1>4, <1>5, <1>7
    <3>. QED BY <1>0, <1>3, <1>4, <1>5, <1>7, <3>1 DEF Chains
  <2>3. \A j \in Ids : sessions'[j].to # 0 =>
            /\ sessions'[j].state = "revoked"
            /\ sessions'[j].to \in Ids /\ j < sessions'[j].to
            /\ sessions'[sessions'[j].to].state # "none"
    <3>1. \A n \in Ids : sessions[n].state # "none" => sessions'[n].state # "none"
      BY <1>4, <1>5, <1>7
    <3>. QED BY <1>0, <1>1, <1>2, <1>4, <1>5, <1>6, <1>7, <3>1 DEF Chains
  <2>4. \A j \in Ids : sessions'[j].state = "revoked" /\ sessions'[j].to = 0 => logouts' \/ punished'
    <3>1. i # 0
      BY <1>2 DEF Ids, Sized
    <3>. QED BY <1>0, <1>4, <1>5, <1>7, <3>1 DEF Chains
  <2>. QED BY <2>1, <2>2, <2>3, <2>4 DEF Chains
<1>10. OneLive'
  BY <1>0, <1>1, <1>4, <1>5, <1>7 DEF OneLive, Rows
<1>11. Later
  BY <1>0, <1>1, <1>2, <1>4, <1>5, <1>7 DEF Later
<1>. QED BY <1>8, <1>9, <1>10, <1>11 DEF RowsOK

\* The table after the live rows of S are revoked.
RevokedIn(S) == [i \in Ids |-> IF i \in S /\ sessions[i].state = "live"
                               THEN [sessions[i] EXCEPT !.state = "revoked", !.at = now] ELSE sessions[i]]

\* Revoking live rows, in a logout or for reuse.
LEMMA RevokeRows ==
    ASSUME Sized, Inv, NEW S,
           sessions' = RevokedIn(S),
           UNCHANGED <<sub, now>>, logouts' \in BOOLEAN, punished' \in BOOLEAN,
           logouts => logouts', punished => punished', logouts' \/ punished'
    PROVE  RowsOK
<1>0. sessions \in [Ids -> Row] /\ now \in Nat /\ Types /\ Chains /\ OneLive
  BY DEF Inv, Types, ChainHolds
<1>1. ASSUME NEW i \in Ids
      PROVE  /\ sessions'[i] \in Row
             /\ sessions'[i].to = sessions[i].to /\ sessions'[i].fam = sessions[i].fam
             /\ sessions[i].state = "none" <=> sessions'[i].state = "none"
             /\ sessions[i].state = "revoked" => sessions'[i] = sessions[i]
             /\ sessions'[i].state = "live" => sessions[i].state = "live"
  <2>1. sessions[i] \in Row
    BY <1>0
  <2>2. CASE i \in S /\ sessions[i].state = "live"
    <3>1. sessions'[i] = [sessions[i] EXCEPT !.state = "revoked", !.at = now]
      BY <2>2 DEF RevokedIn
    <3>. QED BY <1>0, <2>1, <2>2, <3>1 DEF Row
  <2>3. CASE ~(i \in S /\ sessions[i].state = "live")
    <3>1. sessions'[i] = sessions[i]
      BY <2>3 DEF RevokedIn
    <3>. QED BY <2>1, <3>1
  <2>. QED BY <2>2, <2>3
<1>2. Types'
  <2>1. sessions' \in [Ids -> Row]
    <3>1. sessions' = [i \in Ids |-> sessions'[i]]
      BY DEF RevokedIn
    <3>. QED BY <1>1, <3>1
  <2>. QED BY <1>0, <2>1 DEF Types
<1>3. Chains'
  <2>1. \A j, k \in Ids : j < k /\ sessions'[k].state # "none" => sessions'[j].state # "none"
    BY <1>0, <1>1 DEF Chains
  <2>2. \A j \in Ids : sessions'[j].state # "none" =>
            sessions'[j].fam \in Ids /\ sessions'[sessions'[j].fam].state # "none"
    BY <1>0, <1>1 DEF Chains
  <2>3. \A j \in Ids : sessions'[j].to # 0 =>
            /\ sessions'[j].state = "revoked"
            /\ sessions'[j].to \in Ids /\ j < sessions'[j].to
            /\ sessions'[sessions'[j].to].state # "none"
    BY <1>0, <1>1 DEF Chains
  <2>. QED BY <2>1, <2>2, <2>3 DEF Chains
<1>4. OneLive'
  BY <1>0, <1>1 DEF OneLive, Rows
<1>5. Later
  BY <1>0, <1>1 DEF Later
<1>. QED BY <1>2, <1>3, <1>4, <1>5 DEF RowsOK

-----------------------------------------------------------------------------
(* Rotations passed *)

Rotated == {i \in Ids : sessions[i].to # 0}
RotatedNext(n) == {i \in Ids : i < n /\ sessions'[i].to # 0}

\* The rotations can be counted.
LEMMA Countable ==
    ASSUME Sized
    PROVE  /\ IsFiniteSet(Rotated) /\ Cardinality(Rotated) \in Nat
           /\ \A n : IsFiniteSet(RotatedBelow(n)) /\ Cardinality(RotatedBelow(n)) \in Nat
<1>1. IsFiniteSet(Ids)
  BY FS_Interval DEF Ids, Sized
<1>2. IsFiniteSet(Rotated) /\ Cardinality(Rotated) \in Nat
  BY <1>1, FS_Subset, FS_CardinalityType DEF Rotated
<1>3. ASSUME NEW n
      PROVE  IsFiniteSet(RotatedBelow(n)) /\ Cardinality(RotatedBelow(n)) \in Nat
  BY <1>1, FS_Subset, FS_CardinalityType DEF RotatedBelow
<1>. QED BY <1>2, <1>3

\* A step along the chain passes one rotation more.
LEMMA HopPasses ==
    ASSUME Sized, NEW n \in Ids, sessions[n].to # 0, NEW k \in Ids, n < k
    PROVE  Cardinality(RotatedBelow(n)) + 1 <= Cardinality(RotatedBelow(k))
<1>. DEFINE S == RotatedBelow(n)
<1>1. n \notin S /\ S \cup {n} \subseteq RotatedBelow(k)
  BY DEF RotatedBelow, Ids, Sized
<1>2. IsFiniteSet(S) /\ IsFiniteSet(RotatedBelow(k))
  BY Countable
<1>3. Cardinality(S \cup {n}) = Cardinality(S) + 1
  BY <1>1, <1>2, FS_AddElement
<1>4. Cardinality(S \cup {n}) <= Cardinality(RotatedBelow(k))
  BY <1>1, <1>2, FS_Subset
<1>. QED BY <1>3, <1>4

\* The rotations passed are rotations, and a row that was rotated is one more.
LEMMA PassedAreRotated ==
    ASSUME Sized, NEW n \in Ids
    PROVE  /\ Cardinality(RotatedBelow(n)) <= Cardinality(Rotated)
           /\ sessions[n].to # 0 => Cardinality(RotatedBelow(n)) + 1 <= Cardinality(Rotated)
<1>. DEFINE S == RotatedBelow(n)
<1>1. IsFiniteSet(S) /\ IsFiniteSet(Rotated)
  BY Countable
<1>2. S \subseteq Rotated /\ n \notin S
  BY DEF RotatedBelow, Rotated, Ids, Sized
<1>3. Cardinality(S) <= Cardinality(Rotated)
  BY <1>1, <1>2, FS_Subset
<1>4. ASSUME sessions[n].to # 0
      PROVE  Cardinality(S) + 1 <= Cardinality(Rotated)
  <2>1. S \cup {n} \subseteq Rotated
    BY <1>2, <1>4 DEF Rotated
  <2>2. Cardinality(S \cup {n}) = Cardinality(S) + 1
    BY <1>1, <1>2, FS_AddElement
  <2>3. Cardinality(S \cup {n}) <= Cardinality(Rotated)
    BY <1>1, <2>1, FS_Subset
  <2>. QED BY <2>2, <2>3
<1>. QED BY <1>3, <1>4

\* Rotations are never undone.
LEMMA RotationsStay ==
    ASSUME Sized, Inv, RowsOK
    PROVE  /\ Cardinality(Rotated) <= Cardinality(Rotated')
           /\ \A n : Cardinality(RotatedBelow(n)) <= Cardinality(RotatedNext(n))
           /\ Cardinality(Rotated') \in Nat
           /\ \A n : Cardinality(RotatedNext(n)) \in Nat
<1>1. \A i \in Ids : sessions[i].to # 0 => sessions'[i].to # 0
  BY DEF Inv, Chains, RowsOK, Later
<1>2. IsFiniteSet(Ids)
  BY FS_Interval DEF Ids, Sized
<1>3. IsFiniteSet(Rotated')
  BY <1>2, FS_Subset DEF Rotated
<1>4. Cardinality(Rotated) <= Cardinality(Rotated')
  <2>1. Rotated \subseteq Rotated'
    BY <1>1 DEF Rotated
  <2>. QED BY <1>3, <2>1, FS_Subset
<1>5. ASSUME NEW n
      PROVE  /\ Cardinality(RotatedBelow(n)) <= Cardinality(RotatedNext(n))
             /\ Cardinality(RotatedNext(n)) \in Nat
  <2>1. RotatedBelow(n) \subseteq RotatedNext(n)
    BY <1>1 DEF RotatedBelow, RotatedNext
  <2>2. IsFiniteSet(RotatedNext(n))
    BY <1>2, FS_Subset DEF RotatedNext
  <2>. QED BY <2>1, <2>2, FS_Subset, FS_CardinalityType
<1>. QED BY <1>3, <1>4, <1>5, FS_CardinalityType

-----------------------------------------------------------------------------
(* Requests *)

\* A request that takes no part in a step stays sound.
LEMMA OthersStay ==
    ASSUME Sized, Inv, RowsOK, NEW q \in Requests, call'[q] = call[q]
    PROVE  CallOK(call[q])'
<1>. DEFINE c == call[q]
<1>1. CallOK(c) /\ Types /\ Types' /\ Later
  BY DEF Inv, RowsOK
<1>2. c.pc = "walk" => Walking(c)'
  <2>. SUFFICES ASSUME c.pc = "walk" PROVE Walking(c)'
    OBVIOUS
  <2>1. Walking(c)
    BY <1>1 DEF CallOK
  <2>2. Cardinality(RotatedBelow(c.cur)) <= Cardinality(RotatedNext(c.cur))
    BY RotationsStay
  <2>3. Cardinality(RotatedBelow(c.cur)) \in Nat /\ Cardinality(RotatedNext(c.cur)) \in Nat
    BY RotationsStay, Countable
  <2>4. now \in Nat /\ now' \in Nat /\ now <= now'
    BY <1>1 DEF Types, Later
  <2>5. /\ sessions'[c.cur].state # "none"
        /\ c.target.state = "revoked" => c.target = sessions'[c.cur]
    BY <1>1, <2>1 DEF Walking, Later
  <2>. DEFINE a == Cardinality(RotatedBelow(c.cur))
              b == Cardinality(RotatedNext(c.cur))
  <2>6. c.hops <= 2 * a + (IF c.target.state = "revoked" THEN 1 ELSE 0) /\ c.hops \in Nat
    BY <2>1 DEF Walking
  <2>. HIDE DEF a, b
  <2>7. c.hops <= 2 * b + (IF c.target.state = "revoked" THEN 1 ELSE 0)
    <3>1. a \in Nat /\ b \in Nat /\ a <= b
      BY <2>2, <2>3 DEF a, b
    <3>. QED BY <2>6, <3>1
  <2>8. RotatedBelow(c.cur)' = RotatedNext(c.cur)
    BY DEF RotatedBelow, RotatedNext
  <2>. QED BY <2>1, <2>4, <2>5, <2>7, <2>8 DEF Walking, b
<1>3. c.pc \in {"reuse", "revoke"} => logouts' \/ now' > Grace
  BY <1>1 DEF CallOK, Later, Types, Sized
<1>4. c.pc = "logout" => c.id \in Ids /\ sessions'[c.id].state # "none"
  BY <1>1 DEF CallOK, Later
<1>. QED BY <1>1, <1>2, <1>3, <1>4 DEF CallOK

\* What was said of the requests that gave up stays true.
LEMMA GaveUpStays ==
    ASSUME Sized, Inv, RowsOK, \A q \in Requests : call'[q].pc = "gaveup" => call[q].pc = "gaveup"
    PROVE  WalkConverges'
<1>. DEFINE a == Cardinality(Rotated)
            b == Cardinality(Rotated')
<1>1. a \in Nat /\ b \in Nat /\ a <= b
  BY RotationsStay, Countable
<1>2. (\E q \in Requests : call[q].pc = "gaveup") => MaxHops <= 2 * a + (IF logouts \/ punished THEN 1 ELSE 0)
  BY DEF Inv, ChainHolds, WalkConverges, Rotated
<1>3. (logouts => logouts') /\ (punished => punished')
  BY DEF RowsOK, Later
<1>. HIDE DEF a, b
<1>4. (\E q \in Requests : call'[q].pc = "gaveup") =>
          MaxHops <= 2 * b + (IF logouts' \/ punished' THEN 1 ELSE 0)
  BY <1>1, <1>2, <1>3 DEF Sized
<1>. QED BY <1>4 DEF WalkConverges, Rotated, b

\* What is left to show of a step: the table, the request that takes it, and
\* the punished.
LEMMA StepIsSound ==
    ASSUME Sized, Inv, RowsOK, NEW r \in Requests, NEW c, Put(r, c),
           c.pc # "gaveup" \/ WalkConverges', CallOK(call[r])', RetryIsSafe'
    PROVE  Inv'
<1>1. call = [q \in Requests |-> call[q]]
  BY DEF Inv
<1>2. call' = [q \in Requests |-> call'[q]] /\ call'[r] = c
  BY <1>1 DEF Put
<1>3. \A q \in Requests : q # r => call'[q] = call[q]
  BY <1>1 DEF Put
<1>4. \A q \in Requests : CallOK(call[q])'
  <2>. TAKE q \in Requests
  <2>1. CASE q = r
    BY <2>1
  <2>2. CASE q # r
    BY <1>3, <2>2, OthersStay
  <2>. QED BY <2>1, <2>2
<1>5. WalkConverges'
  <2>1. CASE c.pc # "gaveup"
    <3>1. \A q \in Requests : call'[q].pc = "gaveup" => call[q].pc = "gaveup"
      BY <1>2, <1>3, <2>1
    <3>. QED BY <3>1, GaveUpStays
  <2>. QED BY <2>1
<1>. QED BY <1>2, <1>4, <1>5 DEF Inv, RowsOK, ChainHolds

\* An idle request is a record of these fields.
LEMMA IdleIsCall == IsCall(Idle)
<1>1. DOMAIN Idle = Fields
  BY DEF Idle, Fields
<1>2. Idle = [f \in DOMAIN Idle |-> Idle[f]]
  BY DEF Idle
<1>. QED BY <1>1, <1>2 DEF IsCall

\* A request that ends is sound.
LEMMA EndIsSound ==
    ASSUME NEW r \in Requests, NEW pc \in {"idle", "gaveup"}, call = [q \in Requests |-> call[q]], End(r, pc)
    PROVE  /\ CallOK(call[r])'
           /\ call'[r].pc = pc
           /\ Put(r, [Idle EXCEPT !.pc = pc])
<1>1. call'[r] = [Idle EXCEPT !.pc = pc]
  BY DEF End, Put
<1>2. IsCall([Idle EXCEPT !.pc = pc]) /\ [Idle EXCEPT !.pc = pc].pc = pc
  BY IdleIsCall DEF IsCall, Fields
<1>. QED BY <1>1, <1>2 DEF End, CallOK

-----------------------------------------------------------------------------
(* Steps *)

\* Punishment follows a request that is in the grace walk's reuse branch.
LEMMA SafetyStays ==
    ASSUME Sized, Inv, RowsOK, punished' = punished
    PROVE  RetryIsSafe'
  BY DEF Inv, ChainHolds, RetryIsSafe, RowsOK, Later, Types, Sized

\* A refresh starts at the presented row.
LEMMA RefreshKeeps ==
    ASSUME Sized, Inv, NEW r \in Requests, NEW i \in Ids, RefreshToken(r, i)
    PROVE  Inv'
<1>. DEFINE c == [Idle EXCEPT !.pc = "walk", !.id = i, !.cur = i, !.target = sessions[i], !.t = now]
<1>0. Put(r, c) /\ UNCHANGED <<sessions, sub, logouts, punished, now>> /\ sessions[i].state # "none"
  BY DEF RefreshToken
<1>1. RowsOK /\ RetryIsSafe'
  BY <1>0, NoRowStep, SafetyStays
<1>2. call'[r] = c
  BY <1>0 DEF Inv, Put
<1>3. /\ c.pc = "walk" /\ c.cur = i /\ c.target = sessions[i] /\ c.t = now /\ c.hops = 0
      /\ IsCall(c)
  <2>1. c.pc = "walk" /\ c.cur = i /\ c.target = sessions[i] /\ c.t = now /\ IsCall(c) /\ c.hops = Idle.hops
    BY IdleIsCall DEF IsCall, Fields
  <2>. QED BY <2>1 DEF Idle
<1>. HIDE DEF c
<1>4. Walking(c)
  <2>1. sessions[i] \in Row /\ now \in Nat
    BY DEF Inv, Types
  <2>2. Cardinality(RotatedBelow(i)) \in Nat
    BY Countable
  <2>3. sessions[i].state \in {"live", "revoked"}
    BY <1>0, <2>1 DEF Row
  <2>. QED BY <1>0, <1>3, <2>1, <2>2, <2>3 DEF Walking
<1>5. CallOK(call[r])'
  <2>1. Walking(call'[r]) /\ RotatedBelow(call[r].cur)' = RotatedBelow(call'[r].cur)
    BY <1>0, <1>2, <1>4 DEF RotatedBelow
  <2>2. Walking(call[r])'
    BY <1>0, <2>1 DEF Walking
  <2>. QED BY <1>2, <1>3, <2>2 DEF CallOK
<1>. QED BY <1>0, <1>1, <1>3, <1>5, StepIsSound

\* A walking request that keeps walking without writing a row.
LEMMA WalkOn ==
    ASSUME Sized, Inv, NEW r \in Requests, NEW c, Put(r, c), Walking(c), c.pc = "walk",
           UNCHANGED <<sessions, sub, logouts, punished, now>>,
           IsCall(c)
    PROVE  Inv'
<1>1. RowsOK /\ RetryIsSafe'
  BY NoRowStep, SafetyStays
<1>2. call'[r] = c
  BY DEF Inv, Put
<1>3. CallOK(call[r])'
  <2>1. Walking(call'[r]) /\ RotatedBelow(call[r].cur)' = RotatedBelow(call'[r].cur)
    BY <1>2 DEF RotatedBelow
  <2>2. Walking(call[r])'
    BY <2>1 DEF Walking
  <2>. QED BY <1>2, <2>2 DEF CallOK
<1>. QED BY <1>1, <1>3, StepIsSound

\* The walk gives up: its hops are covered by the rotations it passed, the one
\* of the row it stands on, or the row was revoked for good.
LEMMA GivingUp ==
    ASSUME Sized, Inv, NEW r \in Requests, call[r].pc = "walk", call[r].hops >= MaxHops, End(r, "gaveup"),
           UNCHANGED <<sessions, sub, logouts, punished, now>>
    PROVE  Inv'
<1>1. RowsOK /\ RetryIsSafe'
  BY NoRowStep, SafetyStays
<1>2. CallOK(call[r])' /\ Put(r, [Idle EXCEPT !.pc = "gaveup"])
  BY EndIsSound DEF Inv
<1>. DEFINE c == call[r]
            a == Cardinality(RotatedBelow(c.cur))
            b == Cardinality(Rotated)
<1>3. Walking(c)
  BY DEF Inv, CallOK
<1>4. a \in Nat /\ b \in Nat /\ a <= b /\ (sessions[c.cur].to # 0 => a + 1 <= b)
  BY <1>3, Countable, PassedAreRotated DEF Walking
<1>5. c.hops \in Nat /\ c.hops <= 2 * a + (IF c.target.state = "revoked" THEN 1 ELSE 0)
  BY <1>3 DEF Walking
<1>6. c.target.state = "revoked" => sessions[c.cur].to # 0 \/ logouts \/ punished
  BY <1>3 DEF Walking, Inv, Chains
<1>. HIDE DEF a, b
<1>7. MaxHops <= 2 * b + (IF logouts \/ punished THEN 1 ELSE 0)
  BY <1>4, <1>5, <1>6 DEF Sized
<1>8. WalkConverges'
  BY <1>7 DEF WalkConverges, Rotated, b
<1>. QED BY <1>1, <1>2, <1>8, StepIsSound

\* One round of the loop.
LEMMA WalkKeeps ==
    ASSUME Sized, Inv, NEW r \in Requests, Walk(r)
    PROVE  Inv'
<1>. DEFINE c == call[r]
<1>0. c.pc = "walk" /\ UNCHANGED <<sub, logouts, punished, now>>
  BY DEF Walk
<1>1. CallOK(c) /\ Walking(c) /\ Types /\ Chains /\ call = [q \in Requests |-> call[q]]
  BY <1>0 DEF Inv, CallOK
<1>2. /\ c.cur \in Ids /\ c.t \in Nat /\ c.hops \in Nat /\ c.target \in Row
      /\ IsCall(c)
  BY <1>1 DEF CallOK, Walking
<1>3. CASE c.hops >= MaxHops
  BY <1>0, <1>3, GivingUp DEF Walk
<1>4. CASE ~(c.hops >= MaxHops) /\ c.target.state = "revoked" /\ graceSuccessor(c)
  <2>. DEFINE d == [c EXCEPT !.hops = @ + 1, !.cur = c.target.to, !.target = sessions[c.target.to]]
  <2>1. Put(r, d) /\ UNCHANGED sessions
    BY <1>4 DEF Walk
  <2>2. /\ d.pc = "walk" /\ d.cur = c.target.to /\ d.target = sessions[c.target.to]
        /\ d.hops = c.hops + 1 /\ d.t = c.t
        /\ IsCall(d)
    BY <1>0, <1>2 DEF IsCall, Fields
  <2>. HIDE DEF d
  <2>3. c.target = sessions[c.cur] /\ sessions[c.cur].to # 0
    BY <1>1, <1>4 DEF Walking, graceSuccessor
  <2>4. d.cur \in Ids /\ c.cur < d.cur /\ sessions[d.cur].state # "none"
    BY <1>1, <1>2, <2>2, <2>3 DEF Chains
  <2>5. sessions[d.cur] \in Row /\ sessions[d.cur].state \in {"live", "revoked"}
    BY <1>1, <2>4 DEF Types, Row
  <2>6. Walking(d)
    <3>. DEFINE a == Cardinality(RotatedBelow(c.cur))
                b == Cardinality(RotatedBelow(d.cur))
    <3>1. a \in Nat /\ b \in Nat
      BY Countable
    <3>2. a + 1 <= b
      BY <1>2, <2>3, <2>4, HopPasses
    <3>3. c.hops <= 2 * a + 1
      BY <1>1, <1>4 DEF Walking
    <3>. HIDE DEF a, b
    <3>4. d.hops \in Nat /\ d.hops <= 2 * b
      BY <1>2, <2>2, <3>1, <3>2, <3>3
    <3>5. d.hops <= 2 * b + (IF d.target.state = "revoked" THEN 1 ELSE 0)
      BY <3>1, <3>4
    <3>6. d.t \in Nat /\ d.t <= now
      BY <1>1, <2>2 DEF Walking
    <3>. QED BY <2>2, <2>4, <2>5, <3>4, <3>5, <3>6 DEF Walking, b
  <2>. QED BY <1>0, <2>1, <2>2, <2>6, WalkOn
<1>5. CASE ~(c.hops >= MaxHops) /\ c.target.state = "revoked" /\ ~graceSuccessor(c)
  <2>. DEFINE d == [c EXCEPT !.pc = "reuse"]
  <2>1. Put(r, d) /\ UNCHANGED sessions
    BY <1>5 DEF Walk
  <2>2. /\ d.pc = "reuse"
        /\ IsCall(d)
    BY <1>2 DEF IsCall, Fields
  <2>. HIDE DEF d
  <2>3. logouts \/ now > Grace
    <3>1. c.target = sessions[c.cur] /\ c.t <= now /\ now \in Nat /\ sessions[c.cur].at \in Nat
      BY <1>1, <1>2, <1>5 DEF Walking, Types, Row
    <3>2. CASE sessions[c.cur].to = 0
      <4>1. logouts \/ punished
        BY <1>1, <1>2, <1>5, <3>1, <3>2 DEF Chains
      <4>. QED BY <4>1 DEF Inv, ChainHolds, RetryIsSafe
    <3>3. CASE sessions[c.cur].to # 0
      <4>1. c.t - sessions[c.cur].at > Grace
        BY <1>2, <1>5, <3>1, <3>3 DEF graceSuccessor, Sized
      <4>. QED BY <1>2, <3>1, <4>1 DEF Sized
    <3>. QED BY <3>2, <3>3
  <2>4. RowsOK /\ RetryIsSafe'
    BY <1>0, <2>1, NoRowStep, SafetyStays
  <2>5. CallOK(call[r])'
    <3>1. call'[r] = d
      BY <1>1, <2>1 DEF Put
    <3>. QED BY <1>0, <2>2, <2>3, <3>1 DEF CallOK
  <2>. QED BY <2>1, <2>2, <2>4, <2>5, StepIsSound
<1>6. CASE ~(c.hops >= MaxHops) /\ c.target.state # "revoked" /\ c.target.exp < c.t
  <2>1. End(r, "idle") /\ UNCHANGED sessions
    BY <1>6 DEF Walk
  <2>2. RowsOK /\ RetryIsSafe'
    BY <1>0, <2>1, NoRowStep, SafetyStays
  <2>3. CallOK(call[r])' /\ Put(r, [Idle EXCEPT !.pc = "idle"])
    BY <1>1, <2>1, EndIsSound
  <2>4. [Idle EXCEPT !.pc = "idle"].pc = "idle"
    BY DEF Idle
  <2>. QED BY <2>2, <2>3, <2>4, StepIsSound
<1>7. CASE ~(c.hops >= MaxHops) /\ c.target.state # "revoked" /\ ~(c.target.exp < c.t)
  <2>0. \/ \E i \in Free : RotateRefresh(c, i) /\ End(r, "idle")
        \/ sessions[c.cur].state # "live" /\ Put(r, Reread(c)) /\ UNCHANGED sessions
    BY <1>7 DEF Walk
  <2>1. CASE \E i \in Free : RotateRefresh(c, i) /\ End(r, "idle")
    <3>1. PICK i \in Free : RotateRefresh(c, i) /\ End(r, "idle")
      BY <2>1
    <3>2. RowsOK
      BY <1>0, <1>2, <3>1, RotateRows
    <3>3. RetryIsSafe'
      BY <1>0, <3>2, SafetyStays
    <3>4. CallOK(call[r])' /\ Put(r, [Idle EXCEPT !.pc = "idle"])
      BY <1>1, <3>1, EndIsSound
    <3>5. [Idle EXCEPT !.pc = "idle"].pc = "idle"
      BY DEF Idle
    <3>. QED BY <3>2, <3>3, <3>4, <3>5, StepIsSound
  <2>2. CASE sessions[c.cur].state # "live" /\ Put(r, Reread(c)) /\ UNCHANGED sessions
    <3>. DEFINE d == Reread(c)
    <3>1. /\ d.pc = "walk" /\ d.cur = c.cur /\ d.target = sessions[c.cur]
          /\ d.hops = c.hops + 1 /\ d.t = c.t
          /\ IsCall(d)
      BY <1>0, <1>2 DEF Reread, IsCall, Fields
    <3>. HIDE DEF d
    <3>2. sessions[c.cur] \in Row /\ sessions[c.cur].state = "revoked"
      BY <1>1, <2>2 DEF Types, Row, Walking
    <3>3. Walking(d)
      <4>. DEFINE a == Cardinality(RotatedBelow(c.cur))
      <4>1. a \in Nat
        BY Countable
      <4>2. c.hops <= 2 * a
        BY <1>1, <1>7, <4>1 DEF Walking
      <4>. HIDE DEF a
      <4>3. d.hops \in Nat /\ d.hops <= 2 * a + 1
        BY <1>2, <3>1, <4>1, <4>2
      <4>. QED BY <1>1, <1>2, <3>1, <3>2, <4>3 DEF Walking, a
    <3>4. Put(r, d)
      BY <2>2 DEF d
    <3>. QED BY <1>0, <2>2, <3>1, <3>3, <3>4, WalkOn
  <2>. QED BY <2>0, <2>1, <2>2
<1>. QED BY <1>3, <1>4, <1>5, <1>6, <1>7

\* The chain is read.
LEMMA ReuseKeeps ==
    ASSUME Sized, Inv, NEW r \in Requests, revokeChainForReuse(r)
    PROVE  Inv'
<1>. DEFINE c == call[r]
            d == [c EXCEPT !.pc = "revoke", !.chain = ChainFrom(c.id)]
<1>0. c.pc = "reuse" /\ Put(r, d) /\ UNCHANGED <<sessions, sub, logouts, punished, now>>
  BY DEF revokeChainForReuse
<1>1. RowsOK /\ RetryIsSafe'
  BY <1>0, NoRowStep, SafetyStays
<1>2. CallOK(c)
  BY DEF Inv
<1>3. d.pc = "revoke" /\ IsCall(d)
  BY <1>2 DEF CallOK, IsCall, Fields
<1>4. call'[r] = d
  BY <1>0 DEF Inv, Put
<1>. HIDE DEF d
<1>5. logouts \/ now > Grace
  BY <1>0, <1>2 DEF CallOK
<1>6. CallOK(call[r])'
  BY <1>0, <1>3, <1>4, <1>5 DEF CallOK
<1>. QED BY <1>0, <1>1, <1>3, <1>6, StepIsSound

\* The chain is revoked.
LEMMA PunishKeeps ==
    ASSUME Sized, Inv, NEW r \in Requests, RevokeChainFrom(r)
    PROVE  Inv'
<1>1. /\ sessions' = RevokedIn(call[r].chain) /\ UNCHANGED <<sub, logouts, now>> /\ punished' = TRUE
      /\ call[r].pc = "revoke" /\ End(r, "idle")
  BY DEF RevokeChainFrom, RevokedIn
<1>2. RowsOK
  BY <1>1, RevokeRows DEF Inv, Types
<1>3. RetryIsSafe'
  BY <1>1 DEF Inv, CallOK, RetryIsSafe
<1>4. CallOK(call[r])' /\ Put(r, [Idle EXCEPT !.pc = "idle"])
  BY <1>1, EndIsSound DEF Inv
<1>5. [Idle EXCEPT !.pc = "idle"].pc = "idle"
  BY DEF Idle
<1>. QED BY <1>2, <1>3, <1>4, <1>5, StepIsSound

\* A logout finds its session.
LEMMA LogoutKeeps ==
    ASSUME Sized, Inv, NEW r \in Requests, NEW i \in Ids, Logout(r, i)
    PROVE  Inv'
<1>. DEFINE c == [Idle EXCEPT !.pc = "logout", !.id = i]
<1>0. Put(r, c) /\ UNCHANGED <<sessions, sub, logouts, punished, now>> /\ sessions[i].state = "live"
  BY DEF Logout
<1>1. RowsOK /\ RetryIsSafe'
  BY <1>0, NoRowStep, SafetyStays
<1>2. call'[r] = c
  BY <1>0 DEF Inv, Put
<1>3. c.pc = "logout" /\ c.id = i /\ IsCall(c)
  BY IdleIsCall DEF IsCall, Fields
<1>. HIDE DEF c
<1>4. CallOK(call[r])'
  BY <1>0, <1>2, <1>3 DEF CallOK
<1>. QED BY <1>0, <1>1, <1>3, <1>4, StepIsSound

\* A logout revokes its session.
LEMMA RevokeKeeps ==
    ASSUME Sized, Inv, NEW r \in Requests, Revoke(r)
    PROVE  Inv'
<1>. DEFINE i == call[r].id
            x == [sessions[i] EXCEPT !.state = "revoked",
                                     !.at = IF sessions[i].state = "live" THEN now ELSE sessions[i].at]
<1>0. /\ sessions' = [sessions EXCEPT ![i] = x]
      /\ call[r].pc = "logout" /\ logouts' = TRUE /\ End(r, "idle") /\ UNCHANGED <<sub, punished, now>>
  BY DEF Revoke
<1>1. i \in Ids /\ sessions[i].state # "none" /\ sessions \in [Ids -> Row]
  BY <1>0 DEF Inv, CallOK, Types
<1>2. sessions' = RevokedIn({i})
  <2>1. sessions[i] \in Row /\ sessions[i].state \in {"live", "revoked"}
    BY <1>1 DEF Row
  <2>2. CASE sessions[i].state = "live"
    <3>. DEFINE y == [sessions[i] EXCEPT !.state = "revoked", !.at = now]
    <3>1. x = y
      BY <2>1, <2>2 DEF Row
    <3>. HIDE DEF x, y
    <3>2. sessions' = [j \in Ids |-> IF j = i THEN y ELSE sessions[j]]
      BY <1>0, <1>1, <3>1
    <3>. QED BY <2>2, <3>2 DEF RevokedIn, y
  <2>3. CASE sessions[i].state = "revoked"
    <3>1. x = sessions[i]
      BY <2>1, <2>3 DEF Row
    <3>. HIDE DEF x
    <3>2. sessions' = sessions
      BY <1>0, <1>1, <3>1
    <3>3. RevokedIn({i}) = [j \in Ids |-> sessions[j]]
      BY <2>3 DEF RevokedIn
    <3>. QED BY <1>1, <3>2, <3>3
  <2>. QED BY <2>1, <2>2, <2>3
<1>3. RowsOK
  BY <1>0, <1>2, RevokeRows DEF Inv, Types
<1>4. RetryIsSafe'
  BY <1>0 DEF RetryIsSafe
<1>5. CallOK(call[r])' /\ Put(r, [Idle EXCEPT !.pc = "idle"])
  BY <1>0, EndIsSound DEF Inv
<1>6. [Idle EXCEPT !.pc = "idle"].pc = "idle"
  BY DEF Idle
<1>. QED BY <1>3, <1>4, <1>5, <1>6, StepIsSound

\* A step that no request takes.
LEMMA AloneKeeps ==
    ASSUME Sized, Inv, RowsOK, UNCHANGED <<call, punished>>
    PROVE  Inv'
<1>1. RetryIsSafe'
  BY SafetyStays
<1>2. WalkConverges'
  BY GaveUpStays
<1>3. \A q \in Requests : CallOK(call[q])'
  BY OthersStay
<1>4. (call = [q \in Requests |-> call[q]])'
  BY DEF Inv
<1>. QED BY <1>1, <1>2, <1>3, <1>4 DEF Inv, RowsOK, ChainHolds

\* Every step keeps the invariant.
LEMMA SessionsInductive ==
    ASSUME Sized, Inv, [Next]_sessvars
    PROVE  Inv'
<1>1. CASE Login
  <2>1. RowsOK
    BY <1>1, LoginRows
  <2>. QED BY <1>1, <2>1, AloneKeeps DEF Login
<1>2. CASE Tick
  <2>1. RowsOK
    BY <1>2, NoRowStep DEF Tick
  <2>. QED BY <1>2, <2>1, AloneKeeps DEF Tick
<1>3. ASSUME NEW r \in Requests,
             \/ Walk(r) \/ revokeChainForReuse(r) \/ RevokeChainFrom(r) \/ Revoke(r)
             \/ \E i \in Ids : RefreshToken(r, i) \/ Logout(r, i)
      PROVE  Inv'
  BY <1>3, WalkKeeps, ReuseKeeps, PunishKeeps, RevokeKeeps, RefreshKeeps, LogoutKeeps
<1>4. CASE UNCHANGED sessvars
  <2>1. RowsOK
    BY <1>4, NoRowStep DEF sessvars
  <2>. QED BY <1>4, <2>1, AloneKeeps DEF sessvars
<1>. QED BY <1>1, <1>2, <1>3, <1>4 DEF Next

\* No session, no request.
LEMMA SessionsInit ==
    ASSUME Sized, Init
    PROVE  Inv
<1>1. Types
  <2>1. NoRow \in Row
    BY DEF NoRow, Row, Sized
  <2>2. sessions \in [Ids -> Row]
    BY <2>1 DEF Init
  <2>3. sub \in Int /\ now \in Nat
    BY DEF Init
  <2>4. logouts \in BOOLEAN /\ punished \in BOOLEAN
    BY DEF Init
  <2>. QED BY <2>2, <2>3, <2>4 DEF Types
<1>2. Chains
  BY DEF Init, Chains, NoRow
<1>3. call = [r \in Requests |-> call[r]]
  BY DEF Init
<1>4. \A r \in Requests : CallOK(call[r])
  BY IdleIsCall DEF Init, CallOK, Idle
<1>5. ChainHolds
  BY DEF Init, ChainHolds, OneLive, RetryIsSafe, WalkConverges, Rows, NoRow, Idle
<1>. QED BY <1>1, <1>2, <1>3, <1>4, <1>5 DEF Inv

\* RefreshToken, Logout, RotateRefresh and RevokeChainFrom: however refreshes,
\* retries, reuse and logouts interleave, a login has one live session at most,
\* a client that only retries in time is not punished, and the walk along
\* rotated_to gives up only after half as many rotations as it has hops.
THEOREM ChainsHold ==
    ASSUME Sized
    PROVE  Spec => []ChainHolds
<1>1. Init => Inv
  BY SessionsInit
<1>2. Inv /\ [Next]_sessvars => Inv'
  BY SessionsInductive
<1>3. Inv => ChainHolds
  BY DEF Inv
<1>. QED BY <1>1, <1>2, <1>3, PTL DEF Spec
=============================================================================
