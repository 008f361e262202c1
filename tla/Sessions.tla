------------------------------ MODULE Sessions ------------------------------
(***************************************************************************)
(* Refresh sessions of one user: each refresh rotates the presented token   *)
(* into a new one.  A client that lost the answer retries with the old      *)
(* token; a retry inside the grace window is walked along rotated_to to the *)
(* live successor, anything else is taken for reuse and revokes the chain.  *)
(*   internal/service/auth.go (RefreshToken, Logout, issueTokens...)        *)
(*   internal/service/token.go, internal/repo/repo.go (sessionRepo)         *)
(*   internal/handler/auth.go                                               *)
(***************************************************************************)
EXTENDS Integers, FiniteSets

CONSTANTS
  Requests,     \* concurrent refresh and logout requests
  MaxSessions,  \* bound on session rows
  MaxHops,      \* maxRotationChainHops
  Grace,        \* refreshRotationGraceWindow
  RefreshTTL,
  MaxNow        \* bound on time

VARIABLES
  sessions,   \* id -> row: state (none, live, revoked), at, to, exp, fam, scope
  call,       \* Requests -> progress
  sub,        \* the user's membership row: none, or the time it expires
  logouts,    \* history: some session was revoked by a logout
  punished,   \* history: some chain was revoked for reuse
  now

sessvars == <<sessions, call, sub, logouts, punished, now>>

Ids == 1 .. MaxSessions
NoRow == [state |-> "none", at |-> 0, to |-> 0, exp |-> 0, fam |-> 0, scope |-> FALSE]
Idle == [pc |-> "idle", id |-> 0, target |-> NoRow, cur |-> 0, hops |-> 0, t |-> 0, chain |-> {}]
Rows(state) == {i \in Ids : sessions[i].state = state}
Free == {i \in Rows("none") : \A j \in Rows("none") : i <= j}
Put(r, c) == call' = [call EXCEPT ![r] = c]
End(r, pc) == Put(r, [Idle EXCEPT !.pc = pc])

Init ==
  /\ sessions = [i \in Ids |-> NoRow]
  /\ call = [r \in Requests |-> Idle]
  /\ sub \in {-1, 0}
  /\ logouts = FALSE /\ punished = FALSE /\ now = 0

\* peekSubscription and resolvePlanForTokenIssuance: a missing or lapsed subscription
\* never refuses the tokens, ...
peekSubscription(t) == sub # -1 /\ sub >= t

\* scopeForTokenIssuance: ... it only empties their scope.
scopeForTokenIssuance(t) == peekSubscription(t)

NewRow(t, fam) ==
  [state |-> "live", at |-> 0, to |-> 0, exp |-> t + RefreshTTL, fam |-> fam,
   scope |-> scopeForTokenIssuance(t)]

\* issueTokensForUserWithPlan: a login opens a chain of its own.
Login ==
  /\ \E i \in Free : sessions' = [sessions EXCEPT ![i] = NewRow(now, i)]
  /\ UNCHANGED <<call, sub, logouts, punished, now>>

\* RefreshToken up to the rotation: the row is read whether revoked or not and time
\* is read once.  A request of a disabled user or app ends here and changes nothing.
RefreshToken(r, i) ==
  /\ call[r].pc = "idle" /\ sessions[i].state # "none" /\ sessions[i].exp > now
  /\ Put(r, [Idle EXCEPT !.pc = "walk", !.id = i, !.cur = i, !.target = sessions[i], !.t = now])
  /\ UNCHANGED <<sessions, sub, logouts, punished, now>>

\* graceSuccessor: revoked by a rotation, and no longer ago than the window.
\* MUTANT: the window is not considered.
NoGrace(c) == FALSE

graceSuccessor(c) == c.target.to # 0 /\ c.t - c.target.at <= Grace

\* RotateRefresh inserts the new row and revokes the old one if it is still live.
\* MUTANT: the old row is revoked without asking whether it still is live.
RotateBlindly(c, i) ==
  /\ sessions[c.cur].state # "none"
  /\ sessions' = [sessions EXCEPT
       ![c.cur] = [@ EXCEPT !.state = "revoked", !.at = now, !.to = i],
       ![i] = NewRow(c.t, sessions[c.cur].fam)]

RotateRefresh(c, i) ==
  /\ sessions[c.cur].state = "live"
  /\ sessions' = [sessions EXCEPT
       ![c.cur] = [@ EXCEPT !.state = "revoked", !.at = now, !.to = i],
       ![i] = NewRow(c.t, sessions[c.cur].fam)]

\* A lost rotation race: the row is read again and the loop goes on.
\* MUTANT: the loop goes on with the row it had.
NoReread(c) == [c EXCEPT !.hops = @ + 1]

Reread(c) == [c EXCEPT !.hops = @ + 1, !.target = sessions[c.cur]]

\* One round of the rotation loop.
Walk(r) ==
  LET c == call[r]
  IN /\ c.pc = "walk"
     /\ IF c.hops >= MaxHops THEN End(r, "gaveup") /\ UNCHANGED sessions
        ELSE IF c.target.state = "revoked"
        THEN /\ IF graceSuccessor(c)
                THEN Put(r, [c EXCEPT !.hops = @ + 1, !.cur = c.target.to,
                                      !.target = sessions[c.target.to]])
                ELSE Put(r, [c EXCEPT !.pc = "reuse"])
             /\ UNCHANGED sessions
        ELSE IF c.target.exp < c.t THEN End(r, "idle") /\ UNCHANGED sessions
        ELSE \/ \E i \in Free : RotateRefresh(c, i) /\ End(r, "idle")
             \/ /\ sessions[c.cur].state # "live"
                /\ Put(r, Reread(c)) /\ UNCHANGED sessions
     /\ UNCHANGED <<sub, logouts, punished, now>>

\* revokeChainForReuse / RevokeChainFrom: one statement, which reads the chain of the
\* presented session, and then revokes those of its rows that still are live.
ChainFrom(i) ==
  LET R[n \in 0 .. MaxSessions] ==
        IF n = 0 THEN {i} ELSE R[n - 1] \cup ({sessions[j].to : j \in R[n - 1]} \ {0})
  IN R[MaxSessions]

revokeChainForReuse(r) ==
  /\ call[r].pc = "reuse"
  /\ Put(r, [call[r] EXCEPT !.pc = "revoke", !.chain = ChainFrom(call[r].id)])
  /\ UNCHANGED <<sessions, sub, logouts, punished, now>>

RevokeChainFrom(r) ==
  /\ call[r].pc = "revoke"
  /\ sessions' = [i \in Ids |->
       IF i \in call[r].chain /\ sessions[i].state = "live"
       THEN [sessions[i] EXCEPT !.state = "revoked", !.at = now] ELSE sessions[i]]
  /\ punished' = TRUE
  /\ End(r, "idle")
  /\ UNCHANGED <<sub, logouts, now>>

\* Logout: the session is looked up live and unexpired, ...
Logout(r, i) ==
  /\ call[r].pc = "idle" /\ sessions[i].state = "live" /\ sessions[i].exp > now
  /\ Put(r, [Idle EXCEPT !.pc = "logout", !.id = i])
  /\ UNCHANGED <<sessions, sub, logouts, punished, now>>

\* ... and revoked by id; an earlier revoked_at is kept.
Revoke(r) ==
  LET i == call[r].id
  IN /\ call[r].pc = "logout"
     /\ sessions' = [sessions EXCEPT ![i] =
          [@ EXCEPT !.state = "revoked", !.at = IF sessions[i].state = "live" THEN now ELSE sessions[i].at]]
     /\ logouts' = TRUE
     /\ End(r, "idle")
     /\ UNCHANGED <<sub, punished, now>>

Tick == now < MaxNow /\ now' = now + 1 /\ UNCHANGED <<sessions, call, sub, logouts, punished>>

Next ==
  \/ Login \/ Tick
  \/ \E r \in Requests :
       \/ Walk(r) \/ revokeChainForReuse(r) \/ RevokeChainFrom(r) \/ Revoke(r)
       \/ \E i \in Ids : RefreshToken(r, i) \/ Logout(r, i)

Spec == Init /\ [][Next]_sessvars

-----------------------------------------------------------------------------
(* Properties.                                                              *)

\* However refreshes, retries and logouts interleave, a login has at most one live
\* session at a time.
OneLive ==
  \A i, j \in Rows("live") : sessions[i].fam = sessions[j].fam => i = j

\* A client that only retries within the grace window is never taken for a thief:
\* without a logout, no chain is revoked before the window has passed.
RetryIsSafe == punished => logouts \/ now > Grace

\* The bounded walk gives up only after half as many rotations as it has hops: each
\* rotation costs a request at most one lost race and one step along the chain, and
\* the end of the chain one more race.
WalkConverges ==
  (\E r \in Requests : call[r].pc = "gaveup")
    => MaxHops <= 2 * Cardinality({i \in Ids : sessions[i].to # 0})
                    + (IF logouts \/ punished THEN 1 ELSE 0)

\* Rotation under retries, logouts and races: one live session per login, honest retries
\* are never punished, and the walk along the chain gives up only under many rotations.
ChainHolds == OneLive /\ RetryIsSafe /\ WalkConverges
=============================================================================
