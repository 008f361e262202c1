-------------------------------- MODULE Apps --------------------------------
(***************************************************************************)
(* The rows an internal service owns: its app row (shared secret, provider *)
(* secrets, active flag) and the plans it sells.  Requests of              *)
(* handler/app.go run concurrently, each first admitted by the middleware  *)
(* InternalAppAuth; the boot-time backfill of service/                     *)
(* app_secret_backfill.go runs once per starting instance.                 *)
(*                                                                         *)
(* One app and one plan are followed.  A hash is the number of the secret  *)
(* it was made from, 0 for the empty hash of a row older than migration    *)
(* 007.  A provider secret is a model value, NoSecret when the provider    *)
(* block is absent, Mask for the "***" that reads show in its place.       *)
(***************************************************************************)
EXTENDS Naturals, FiniteSets

CONSTANTS Admins,    \* requests in flight on the admin routes
          Boots,     \* instances that start
          Secrets,   \* provider secrets an operator may type
          NoSecret, Mask,
          MaxHash,   \* bound on the secrets generated
          MaxOps     \* bound on the requests admitted

VARIABLES app,       \* the apps row
          minted,    \* secrets generated so far
          known,     \* the secrets a response has handed out
          last,      \* the one handed out by the latest create or rotate, 0 when none
          plan,      \* the plans row
          used,      \* a subscription references the plan
          archived,  \* committed plan_archive rows of plan_change_log
          removed,   \* times the plan row was deleted
          req,       \* the requests
          boot,      \* where each instance stands in the backfill
          ops        \* requests admitted

appvars == <<app, minted, known, last, plan, used, archived, removed, req, boot, ops>>

NoApp == [there |-> FALSE, active |-> FALSE, hash |-> 0, secret |-> NoSecret]

NoPlan == [there |-> FALSE, apps |-> FALSE, active |-> FALSE]

Idle == [op |-> "none", pc |-> "idle", app |-> NoApp, plan |-> NoPlan, lock |-> FALSE]

Init ==
    /\ app \in {NoApp, [NoApp EXCEPT !.there = TRUE, !.active = TRUE]}
    /\ minted = 0 /\ known = {} /\ last = 0
    /\ plan = NoPlan /\ used = FALSE /\ archived = 0 /\ removed = 0
    /\ req = [a \in Admins |-> Idle]
    /\ boot = [b \in Boots |-> "off"]
    /\ ops = 0

Finish(a) == req' = [req EXCEPT ![a] = Idle]

Goto(a, r) == req' = [req EXCEPT ![a] = r]

-----------------------------------------------------------------------------
(* Admission *)

\* The caller presents a secret it holds for an active, hashed row.
InternalAppAuth == app.there /\ app.active /\ app.hash # 0 /\ app.hash \in known

\* A request passes the middleware; the row it was admitted on may change after.
Admit(a, op) ==
    /\ req[a].pc = "idle" /\ ops < MaxOps
    /\ InternalAppAuth
    /\ Goto(a, [Idle EXCEPT !.op = op, !.pc = "in"])
    /\ ops' = ops + 1
    /\ UNCHANGED <<app, minted, known, last, plan, used, archived, removed, boot>>

-----------------------------------------------------------------------------
(* The app row *)

\* A fresh secret whose plaintext goes out once in the response.
GenerateSecret ==
    /\ minted < MaxHash
    /\ minted' = minted + 1
    /\ known' = known \union {minted + 1}
    /\ last' = minted + 1

\* Another service creates the app; the sentinel is refused, there is nothing it stands for.
CreateApp(s) ==
    /\ ~app.there
    /\ s # Mask
    /\ GenerateSecret
    /\ app' = [there |-> TRUE, active |-> TRUE, hash |-> minted + 1, secret |-> s]
    /\ UNCHANGED <<plan, used, archived, removed, req, boot, ops>>

RotateSecret(a) ==
    /\ req[a].op = "rotate"
    /\ GenerateSecret
    /\ app' = [app EXCEPT !.hash = minted + 1]
    /\ Finish(a)
    /\ UNCHANGED <<plan, used, archived, removed, boot, ops>>

\* MUTANT: the sentinel of a masked read is stored as if it were a secret.
KeepIncoming(incoming, stored) == incoming

\* The sentinel keeps the secret of the row as it was read.
unmaskSecret(incoming, stored) == IF incoming = Mask THEN stored ELSE incoming

\* A sentinel where the row has no secret is refused.
restoreMaskedAppConfigSecrets(s, r) ==
    [ok |-> s = Mask => r.secret # NoSecret, secret |-> unmaskSecret(s, r.secret)]

ReadApp(a) ==
    /\ req[a].op = "update" /\ req[a].pc = "in"
    /\ Goto(a, [req[a] EXCEPT !.pc = "read", !.app = app])
    /\ UNCHANGED <<app, minted, known, last, plan, used, archived, removed, boot, ops>>

\* The row lock of a plan transaction's SELECT ... FOR SHARE.
SharedBy(a) == req[a].lock

\* MUTANT: the update writes the hash it read along with the other columns.
UpdateWholeRow(r, active, s) == [r EXCEPT !.active = active, !.secret = s]

\* The columns an update writes: never secret_hash.
UpdateColumns(r, active, s) == [app EXCEPT !.active = active, !.secret = s]

\* PATCH: the fields given replace those of the row read, and the row is written back
\* once no plan transaction holds it; a refused config leaves it alone.
UpdateApp(a, active, s) ==
    /\ req[a].op = "update" /\ req[a].pc = "read"
    /\ \A o \in Admins : ~SharedBy(o)
    /\ LET config == restoreMaskedAppConfigSecrets(s, req[a].app)
       IN  app' = IF config.ok THEN UpdateColumns(req[a].app, active, config.secret) ELSE app
    /\ Finish(a)
    /\ UNCHANGED <<minted, known, last, plan, used, archived, removed, boot, ops>>

\* An instance starts and lists the rows without a hash.
ListUnhashed(b) ==
    /\ boot[b] = "off"
    /\ boot' = [boot EXCEPT ![b] = IF app.there /\ app.hash = 0 THEN "listed" ELSE "done"]
    /\ UNCHANGED <<app, minted, known, last, plan, used, archived, removed, req, ops>>

\* It hashes a secret nobody is shown, and writes it only where the hash is still empty.
BackfillSecretHash(b) ==
    /\ boot[b] = "listed" /\ minted < MaxHash
    /\ minted' = minted + 1
    /\ app' = IF app.hash = 0 THEN [app EXCEPT !.hash = minted + 1] ELSE app
    /\ boot' = [boot EXCEPT ![b] = "done"]
    /\ UNCHANGED <<known, last, plan, used, archived, removed, req, ops>>

-----------------------------------------------------------------------------
(* Plans *)

\* The handler's lookup before an update or a delete; a missing plan is a 404.
GetPlan(a) ==
    /\ req[a].op \in {"planUpdate", "planDelete"} /\ req[a].pc = "in"
    /\ IF plan.there
       THEN Goto(a, [req[a] EXCEPT !.pc = "read", !.plan = plan])
       ELSE Finish(a)
    /\ UNCHANGED <<app, minted, known, last, plan, used, archived, removed, boot, ops>>

\* MUTANT: the in-transaction check reads the app without locking its row.
ReadWithoutLock(apps) == [ok |-> apps => app.there /\ app.active, lock |-> FALSE]

\* Every app the plan names exists and is active, and stays so until the commit.
validateAppsForShareTx(apps) == [ok |-> apps => app.there /\ app.active, lock |-> apps]

OpenTx(a, p, apps) ==
    LET check == validateAppsForShareTx(apps)
    IN  IF check.ok
        THEN Goto(a, [req[a] EXCEPT !.pc = "open", !.plan = p, !.lock = check.lock])
        ELSE Finish(a)

\* CreatePlan up to the lock.
CreatePlan(a, p) ==
    /\ req[a].op = "planCreate" /\ req[a].pc = "in"
    /\ OpenTx(a, p, p.apps)
    /\ UNCHANGED <<app, minted, known, last, plan, used, archived, removed, boot, ops>>

\* UpdatePlan up to the lock: the row is looked up again, and an update that names no app
\* checks the apps of that row.
UpdatePlan(a, p) ==
    /\ req[a].op = "planUpdate" /\ req[a].pc = "read"
    /\ IF plan.there THEN OpenTx(a, p, p.apps \/ plan.apps) ELSE Finish(a)
    /\ UNCHANGED <<app, minted, known, last, plan, used, archived, removed, boot, ops>>

\* The plan and its change-log row commit together: a taken id fails the insert, and a plan
\* deleted meanwhile fails the log row's foreign key.
CommitPlan(a) ==
    /\ req[a].pc = "open"
    /\ plan' = IF plan.there = (req[a].op = "planUpdate") THEN req[a].plan ELSE plan
    /\ Finish(a)
    /\ UNCHANGED <<app, minted, known, last, used, archived, removed, boot, ops>>

\* DeletePlan inserts the plan_archive row first: its foreign key needs the plan and holds
\* the row's key.
ArchivePlan(a) ==
    /\ req[a].op = "planDelete" /\ req[a].pc = "read"
    /\ IF plan.there THEN Goto(a, [req[a] EXCEPT !.pc = "archived"]) ELSE Finish(a)
    /\ UNCHANGED <<app, minted, known, last, plan, used, archived, removed, boot, ops>>

Archiving == {a \in Admins : req[a].pc = "archived"}

\* MUTANT: the archive row commits on its own, whether or not the delete succeeds.
DeleteKeepingArchive(a) ==
    /\ Archiving = {a}
    /\ archived' = archived + 1
    /\ IF plan.there /\ ~used
       THEN plan' = NoPlan /\ removed' = removed + 1
       ELSE UNCHANGED <<plan, removed>>
    /\ Finish(a)
    /\ UNCHANGED <<app, minted, known, last, used, boot, ops>>

\* The hard delete waits for every other holder of the key; a subscription fails it, and the
\* archive row rolls back with it.
DeletePlan(a) ==
    /\ Archiving = {a}
    /\ IF plan.there /\ ~used
       THEN /\ plan' = NoPlan
            /\ archived' = archived + 1
            /\ removed' = removed + 1
       ELSE UNCHANGED <<plan, archived, removed>>
    /\ Finish(a)
    /\ UNCHANGED <<app, minted, known, last, used, boot, ops>>

\* Two deletes each hold the key the other waits for: PostgreSQL aborts one.
AbortDelete(a) ==
    /\ a \in Archiving /\ Archiving # {a}
    /\ Finish(a)
    /\ UNCHANGED <<app, minted, known, last, plan, used, archived, removed, boot, ops>>

\* A subscription is created on the plan; from here on its foreign key keeps the plan.
CreateSubscription ==
    /\ plan.there /\ plan.active /\ ~used
    /\ used' = TRUE
    /\ UNCHANGED <<app, minted, known, last, plan, archived, removed, req, boot, ops>>

-----------------------------------------------------------------------------
Ops == {"rotate", "update", "planCreate", "planUpdate", "planDelete"}

\* The rows a valid POST can ask for, its defaults filled in.
PlanRows == [there : {TRUE}, apps : BOOLEAN, active : BOOLEAN]

\* The rows a valid PATCH can ask for: an absent field keeps the value of the row read.
Patches(r) == {[r EXCEPT !.apps = x, !.active = y] : x \in BOOLEAN, y \in BOOLEAN}

Request(a) ==
    \/ \E op \in Ops : Admit(a, op)
    \/ RotateSecret(a)
    \/ ReadApp(a)
    \/ \E active \in BOOLEAN, s \in Secrets \union {NoSecret, Mask} : UpdateApp(a, active, s)
    \/ GetPlan(a)
    \/ \E p \in PlanRows : CreatePlan(a, p)
    \/ \E p \in Patches(req[a].plan) : UpdatePlan(a, p)
    \/ CommitPlan(a)
    \/ ArchivePlan(a)
    \/ DeletePlan(a)
    \/ AbortDelete(a)

Next ==
    \/ \E s \in Secrets \union {NoSecret} : CreateApp(s)
    \/ \E a \in Admins : Request(a)
    \/ \E b \in Boots : ListUnhashed(b) \/ BackfillSecretHash(b)
    \/ CreateSubscription

Spec == Init /\ [][Next]_appvars

-----------------------------------------------------------------------------
\* Concurrent updates, rotations and starting instances never undo what a client relies on:
\* the secret the latest create or rotate handed out still authenticates, and the "***" of a
\* masked read never becomes a provider's secret.
EditsKeepSecrets ==
    /\ last # 0 => app.hash = last
    /\ app.secret # Mask

\* A plan is only ever written naming an app that is active at that moment (the FOR SHARE
\* lock of CreatePlan and UpdatePlan against a concurrent deactivation).
PlansPointAtActiveApps == [][plan' # plan /\ plan'.apps => app.active]_appvars

\* plan_change_log holds a plan_archive row for a plan exactly when that plan was deleted: a
\* delete refused by a subscription or aborted by a rival leaves no phantom archive row.
NoPhantomArchive == archived = removed

\* Concurrent requests on an app and its plans: secrets handed out keep working, archive
\* rows tell the truth, and plans are written for active apps only.
AppRowsHold == [](EditsKeepSecrets /\ NoPhantomArchive) /\ PlansPointAtActiveApps

\* A hash written by the backfill can be replaced through rotate-secret, "the only path that
\* surfaces a plaintext": some caller can be admitted on an active, hashed row.
BackfilledCanRotate == app.active /\ app.hash # 0 => InternalAppAuth
=============================================================================
