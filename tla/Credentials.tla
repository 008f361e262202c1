---------------------------- MODULE Credentials ----------------------------
(***************************************************************************)
(* An upstream credential and the account that serves with it              *)
(* (internal/inference/credentials, postgres/oauth_repo.go and             *)
(* accounts_repo.go, workers/credential_refresh.go and upstream_health.go).*)
(*                                                                         *)
(* Refresh tokens are numbers: 0 is none, Broken is a stored secret that   *)
(* is no OAuth bundle.  vtok is the token the vendor accepts; a refresh    *)
(* replaces it, which is why two refreshers of one credential must agree   *)
(* on whose answer is stored.  Time is left out: a grant's access token    *)
(* expires, and a cooldown ends, at any moment.                            *)
(***************************************************************************)
EXTENDS Integers, FiniteSets

CONSTANTS
  Jobs,       \* refresh and health passes under way, of any instance
  Broken,     \* the refresh token of a secret UnmarshalBundle refuses
  MaxTok,     \* bound: tokens the vendor mints
  MaxGen      \* bound: generations of the credential

VARIABLES
  cred,       \* the credential row: kind, st, gen, rt, expired
  acct,       \* the account's status, "none" before it is created
  grant,      \* the authorization under way: "none", "open" or "consumed"
  vtok,       \* the refresh token the vendor accepts, 0 when the grant is withdrawn
  minted,     \* the last token the vendor issued
  job,        \* per job: pc, from ("worker" or "health"), seen, g0, rt, new
  lock,       \* the job that holds the credential's advisory lock, 0 when none does
  op          \* the operator's request between its check and its transaction

credvars == <<cred, acct, grant, vtok, minted, job, lock, op>>
vendor == <<vtok, minted>>

NoJob == [pc |-> "idle", from |-> "worker", seen |-> "none", g0 |-> 0, rt |-> 0, new |-> 0]
NoCred == [kind |-> "oauth", st |-> "none", gen |-> 0, rt |-> 0, expired |-> FALSE]

Usable == cred.st \in {"active", "rotating"}
Running == {"active", "refreshing", "cooldown"}

Init ==
  /\ cred = NoCred /\ acct = "none" /\ grant = "none"
  /\ vtok = 0 /\ minted = 0
  /\ job = [j \in Jobs |-> NoJob] /\ lock = 0 /\ op = "idle"

Goto(j, pc) == job' = [job EXCEPT ![j].pc = pc]
Leave(j) == job' = [job EXCEPT ![j] = NoJob]
-----------------------------------------------------------------------------
(* Authorization: BeginAuthorization, HandleCallback.                      *)

InsertOAuthGrant == grant' = "open"

BeginAuthorization ==
  /\ grant = "none" /\ cred.st = "none"
  /\ InsertOAuthGrant
  /\ UNCHANGED <<cred, acct, vtok, minted, job, lock, op>>

\* The state is consumed by one conditional update, before the code is exchanged.
ConsumeOAuthGrant ==
  /\ grant = "open" /\ grant' = "consumed"

HandleCallback ==
  /\ ConsumeOAuthGrant /\ op = "idle" /\ op' = "exchange"
  /\ UNCHANGED <<cred, acct, vtok, minted, job, lock>>

\* The exchange fails, or the credential and its account are inserted in one
\* transaction.  A vendor may grant an access token without a refresh token.
StoreGrant(refreshable) ==
  /\ op = "exchange" /\ op' = "idle"
  /\ \/ UNCHANGED <<cred, acct, vtok, minted>>
     \/ /\ cred' = [NoCred EXCEPT !.st = "active", !.gen = 1, !.rt = IF refreshable THEN minted + 1 ELSE 0]
        /\ acct' = "active"
        /\ minted' = minted + 1 /\ vtok' = minted + 1
  /\ UNCHANGED <<grant, job, lock>>

\* Service.Create: a static secret, without an account.
Create ==
  /\ cred.st = "none" /\ grant = "none"
  /\ cred' = [NoCred EXCEPT !.kind = "static", !.st = "active", !.gen = 1, !.rt = Broken]
  /\ UNCHANGED <<acct, grant, vtok, minted, job, lock, op>>
-----------------------------------------------------------------------------
(* The account's status: one conditional UPDATE per change.                *)

SetUpstreamAccountStatusConditional(from, to) ==
  acct' = IF acct \in from THEN to ELSE acct

\* AccountService.Create checks the credential, then inserts in a transaction that
\* has locked the credential's row and read it again.
CheckCreateAccount ==
  /\ op = "idle" /\ cred.kind = "static" /\ cred.st = "active"
  /\ op' = "create"
  /\ UNCHANGED <<cred, acct, grant, vtok, minted, job, lock>>

InsertUpstreamAccount == acct' = IF acct = "none" THEN "active" ELSE acct

CreateAccount ==
  /\ op = "create" /\ op' = "idle"
  /\ IF cred.st = "active" THEN InsertUpstreamAccount ELSE UNCHANGED acct
  /\ UNCHANGED <<cred, grant, vtok, minted, job, lock>>

\* AccountService.SetStatus(active): only from disabled, and not on a revoked credential.
CheckActivate ==
  /\ op = "idle" /\ acct = "disabled" /\ cred.st # "revoked"
  /\ op' = "activate"
  /\ UNCHANGED <<cred, acct, grant, vtok, minted, job, lock>>

\* MUTANT: the transaction trusts the check made before it.
AssertNothing == TRUE

\* The credential's row is locked and read again in the transaction.
assertCredentialActiveTx == cred.st # "revoked"

Activate ==
  /\ op = "activate" /\ op' = "idle"
  /\ IF assertCredentialActiveTx
     THEN SetUpstreamAccountStatusConditional({"disabled"}, "active")
     ELSE UNCHANGED acct
  /\ UNCHANGED <<cred, grant, vtok, minted, job, lock>>

\* AccountService.SetStatus(disabled).
Disable ==
  /\ acct \notin {"none", "disabled"}
  /\ SetUpstreamAccountStatusConditional(Running \cup {"reauth_required"}, "disabled")
  /\ UNCHANGED <<cred, grant, vtok, minted, job, lock, op>>
-----------------------------------------------------------------------------
(* The credential's status and secret, changed by operators.               *)

disableUpstreamAccountsByCredential == acct' = IF acct = "none" THEN "none" ELSE "disabled"

\* Service.SetStatus: the status, and on a revocation the accounts, in one transaction.
SetStatus(s) ==
  /\ cred.st # "none" /\ s \in {"active", "rotating", "revoked"} /\ s # cred.st
  /\ cred' = [cred EXCEPT !.st = s]
  /\ IF s = "revoked" THEN disableUpstreamAccountsByCredential ELSE UNCHANGED acct
  /\ UNCHANGED <<grant, vtok, minted, job, lock, op>>

\* OAuthService.Revoke asks the vendor first, whose answer decides nothing, and then
\* revokes locally.
Revoke ==
  /\ op = "idle" /\ cred.kind = "oauth" /\ cred.st # "none"
  /\ op' = "revoke" /\ vtok' \in {vtok, 0}
  /\ UNCHANGED <<cred, acct, grant, minted, job, lock>>

RevokeLocally ==
  /\ op = "revoke" /\ op' = "idle"
  /\ cred' = [cred EXCEPT !.st = "revoked"]
  /\ disableUpstreamAccountsByCredential
  /\ UNCHANGED <<grant, vtok, minted, job, lock>>

\* Service.Rotate: whatever the operator typed, whatever the kind, and no comparison
\* of the generation.
Rotate ==
  /\ op = "idle" /\ cred.st \notin {"none", "revoked"} /\ cred.gen < MaxGen
  /\ op' = "rotate"
  /\ UNCHANGED <<cred, acct, grant, vtok, minted, job, lock>>

rotateCredentialSecret ==
  /\ op = "rotate" /\ op' = "idle"
  /\ cred' = [cred EXCEPT !.gen = @ + 1, !.rt = Broken]
  /\ UNCHANGED <<acct, grant, vtok, minted, job, lock>>
-----------------------------------------------------------------------------
(* RefreshCredential, called by the refresh worker, an operator, or a probe.*)

ListOAuthCredentialsExpiring ==
  cred.kind = "oauth" /\ cred.st = "active" /\ cred.expired /\ acct \in Running

\* The row is read outside any transaction: generation g0 and its refresh token.
Load(j, from) ==
  IF ~Usable \/ cred.kind # "oauth" \/ cred.rt = Broken
  THEN job' = [job EXCEPT ![j] = [NoJob EXCEPT !.pc = IF from = "health" THEN "failed" ELSE "idle",
                                              !.from = from, !.seen = job[j].seen]]
  ELSE job' = [job EXCEPT ![j] =
                 [pc   |-> IF cred.rt # 0 THEN "vendor"
                           ELSE IF cred.expired \/ from = "health" THEN "mark" ELSE "idle",
                  from |-> from, seen |-> job[j].seen, g0 |-> cred.gen, rt |-> cred.rt, new |-> 0]]

RefreshDue(j) ==
  /\ job[j].pc = "idle" /\ ListOAuthCredentialsExpiring
  /\ Load(j, "worker")
  /\ UNCHANGED <<cred, acct, grant, vtok, minted, lock, op>>

\* AdminOAuthHandler.Refresh: no condition but that the credential exists.
Refresh(j) ==
  /\ job[j].pc = "idle" /\ cred.st # "none"
  /\ Load(j, "worker")
  /\ UNCHANGED <<cred, acct, grant, vtok, minted, lock, op>>

Failed(j) ==
  IF job[j].from = "health" THEN Goto(j, "failed") ELSE Leave(j)

\* The vendor replaces the token it accepts and refuses any other.  Its answer may be
\* lost on the way, whatever it did.
RefreshToken(j) ==
  /\ job[j].pc = "vendor"
  /\ \/ /\ job[j].rt = vtok /\ minted < MaxTok
        /\ minted' = minted + 1 /\ vtok' = minted + 1
        /\ job' = [job EXCEPT ![j].pc = "lock", ![j].new = minted + 1] \/ Failed(j)
     \/ job[j].rt # vtok /\ Goto(j, "mark") /\ UNCHANGED vendor
     \/ Failed(j) /\ UNCHANGED vendor
  /\ UNCHANGED <<cred, acct, grant, lock, op>>

Converged(j) == IF job[j].from = "health" THEN Goto(j, "healthy") ELSE Leave(j)

\* The answer is stored under the credential's advisory lock, if the generation read
\* before the call is still the current one and nobody revoked the credential.
Recheck(j) ==
  /\ job[j].pc = "lock" /\ lock = 0
  /\ \/ cred.gen # job[j].g0 /\ Converged(j) /\ UNCHANGED lock
     \/ cred.gen = job[j].g0 /\ ~Usable /\ Failed(j) /\ UNCHANGED lock
     \/ cred.gen = job[j].g0 /\ Usable /\ Goto(j, "cas") /\ lock' = j
  /\ UNCHANGED <<cred, acct, grant, vtok, minted, op>>

\* MUTANT: the update does not compare the generation it read.
RotateAnyway(j) == cred' = [cred EXCEPT !.gen = @ + 1, !.rt = job[j].new, !.expired = FALSE]

\* Rotate and SetStatus take no advisory lock, so the update compares once more.
RotateCredentialSecretCAS(j) ==
  cred' = IF cred.gen = job[j].g0
          THEN [cred EXCEPT !.gen = @ + 1, !.rt = job[j].new, !.expired = FALSE]
          ELSE cred

RefreshCredential(j) ==
  /\ job[j].pc = "cas" /\ lock' = 0
  /\ RotateCredentialSecretCAS(j)
  /\ Converged(j)
  /\ UNCHANGED <<acct, grant, vtok, minted, op>>

\* MUTANT: the refused token is taken for the stored one without reading it again.
MarkUnread(j) == TRUE

\* The rejection is about the token of generation g0: it is acted on only if that is
\* still the stored one.
StillRefused(j) == cred.gen = job[j].g0 /\ cred.st # "revoked"

MarkRecheck(j) ==
  /\ job[j].pc = "mark" /\ lock = 0
  /\ IF StillRefused(j)
     THEN Goto(j, "flip") /\ lock' = j
     ELSE Converged(j) /\ UNCHANGED lock
  /\ UNCHANGED <<cred, acct, grant, vtok, minted, op>>

SetUpstreamAccountsStatusByCredential ==
  SetUpstreamAccountStatusConditional(Running, "reauth_required")

markReauthRequired(j) ==
  /\ job[j].pc = "flip" /\ lock' = 0
  /\ SetUpstreamAccountsStatusByCredential
  /\ Leave(j)
  /\ UNCHANGED <<cred, grant, vtok, minted, op>>
-----------------------------------------------------------------------------
(* UpstreamHealth.RunPass: probe one account with what was listed.         *)

ListUpstreamAccountsForHealth == acct \in Running

\* MUTANT: the probe writes the status it decided over whatever is stored.
ProbeWrites(from, to) == acct' = to

\* A probe writes a status only over the ones it may have seen.
ProbeSets(from, to) == SetUpstreamAccountStatusConditional(from, to)

\* The account and the credential are read; a revoked credential disables the account.
probe(j) ==
  /\ job[j].pc = "idle" /\ ListUpstreamAccountsForHealth
  /\ job' = [job EXCEPT ![j] = [NoJob EXCEPT !.pc = IF cred.st = "revoked" THEN "revoked" ELSE "probe",
                                             !.from = "health", !.seen = acct]]
  /\ UNCHANGED <<cred, acct, grant, vtok, minted, lock, op>>

probeRevoked(j) ==
  /\ job[j].pc = "revoked"
  /\ ProbeSets(Running, "disabled")
  /\ Leave(j)
  /\ UNCHANGED <<cred, grant, vtok, minted, lock, op>>

\* The vendor finds the access token good, refuses it, or does not answer.  A refused
\* one is refreshed at once.
probeOAuth(j) ==
  /\ job[j].pc = "probe" /\ cred.kind = "oauth"
  /\ \/ Goto(j, "healthy")
     \/ Goto(j, "failed")
     \/ (cred.expired \/ vtok = 0) /\ Load(j, "health")
  /\ UNCHANGED <<cred, acct, grant, vtok, minted, lock, op>>

\* A static secret the service refuses marks its own account.
probeStatic(j) ==
  /\ job[j].pc = "probe" /\ cred.kind = "static"
  /\ Goto(j, "healthy") \/ Goto(j, "failed") \/ Goto(j, "reject")
  /\ UNCHANGED <<cred, acct, grant, vtok, minted, lock, op>>

markAccountReauth(j) ==
  /\ job[j].pc = "reject"
  /\ ProbeSets(Running, "reauth_required")
  /\ Leave(j)
  /\ UNCHANGED <<cred, grant, vtok, minted, lock, op>>

onHealthy(j) ==
  /\ job[j].pc = "healthy"
  /\ IF job[j].seen = "active" THEN UNCHANGED acct ELSE ProbeSets({"cooldown", "refreshing"}, "active")
  /\ Leave(j)
  /\ UNCHANGED <<cred, grant, vtok, minted, lock, op>>

onRetryableFailure(j) ==
  /\ job[j].pc = "failed"
  /\ IF job[j].seen = "active" THEN ProbeSets({"active"}, "cooldown") ELSE UNCHANGED acct
  /\ Leave(j)
  /\ UNCHANGED <<cred, grant, vtok, minted, lock, op>>

\* A process dies: the transaction it had open is rolled back and its lock released.
Crash(j) ==
  /\ job[j].pc # "idle"
  /\ lock' = IF lock = j THEN 0 ELSE lock
  /\ Leave(j)
  /\ UNCHANGED <<cred, acct, grant, vtok, minted, op>>

Expire ==
  /\ cred.st # "none" /\ ~cred.expired /\ cred' = [cred EXCEPT !.expired = TRUE]
  /\ UNCHANGED <<acct, grant, vtok, minted, job, lock, op>>

\* The user withdraws the grant at the vendor.
Withdraw ==
  /\ vtok # 0 /\ vtok' = 0
  /\ UNCHANGED <<cred, acct, grant, minted, job, lock, op>>

Operate ==
  \/ BeginAuthorization \/ HandleCallback \/ (\E b \in BOOLEAN : StoreGrant(b)) \/ Create
  \/ CheckCreateAccount \/ CreateAccount \/ CheckActivate \/ Activate \/ Disable
  \/ (\E s \in {"active", "rotating", "revoked"} : SetStatus(s))
  \/ Revoke \/ RevokeLocally \/ Rotate \/ rotateCredentialSecret

Work(j) ==
  \/ RefreshDue(j) \/ Refresh(j) \/ RefreshToken(j) \/ Recheck(j) \/ RefreshCredential(j)
  \/ MarkRecheck(j) \/ markReauthRequired(j)
  \/ probe(j) \/ probeRevoked(j) \/ probeOAuth(j) \/ probeStatic(j) \/ markAccountReauth(j)
  \/ onHealthy(j) \/ onRetryableFailure(j) \/ Crash(j)

Next == Operate \/ Expire \/ Withdraw \/ \E j \in Jobs : Work(j)

Spec == Init /\ [][Next]_credvars
-----------------------------------------------------------------------------
(* A revoked credential serves nobody: whatever activation, creation, probe or      *)
(* refresh was under way when the operator revoked it (accounts.go:158,            *)
(* upstream_health.go:370), its account is neither active nor on the way back to it *)
RevokedServesNobody == cred.st = "revoked" => acct \notin Running

(* A refresh never writes over a secret it did not read: what an operator stored    *)
(* while the vendor was being asked stays (refresh.go:213, oauth_repo.go:82)        *)
OperatorSecretKept == [][cred.rt = Broken => cred'.rt = Broken]_credvars

(* A vendor's refusal stops the account only when it is about the stored token: one *)
(* that answers a token another instance has meanwhile replaced in the database is  *)
(* ignored (refresh.go:293)                                                         *)
RefusedIsStored ==
  [][(acct # "reauth_required" /\ acct' = "reauth_required" /\ cred.kind = "oauth" /\ cred.rt # 0)
       => cred.rt # vtok]_credvars

\* Refresh jobs of several instances against an operator: a revoked credential serves
\* nobody, an operator's secret is never written over, and a refusal counts only against
\* the stored token.
SecretsKept == []RevokedServesNobody /\ OperatorSecretKept /\ RefusedIsStored

(* An account asks for a new authorization only when the old one no longer works:   *)
(* the stored refresh token is not the one the vendor accepts (refresh.go:262)      *)
ReauthIsNeeded ==
  (acct = "reauth_required" /\ cred.kind = "oauth" /\ cred.rt # 0) => cred.rt # vtok
=============================================================================
