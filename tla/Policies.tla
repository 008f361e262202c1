------------------------------ MODULE Policies ------------------------------
(***************************************************************************)
(* The versions of one quota policy and the entitlements that are pinned   *)
(* to them.  Operators append drafts, edit, publish and retire them; the   *)
(* grant paths insert entitlements that reference a version, and operators *)
(* revise the model sets of entitlements that already exist, one by one or *)
(* in a batch.  Every transaction runs at READ COMMITTED: a statement sees *)
(* what is committed when it starts, and row locks make it wait.           *)
(*                                                                         *)
(* A row lock has one of three strengths here: FOR UPDATE (retire), the    *)
(* lock an UPDATE of a non-key column takes (edit, supersede, publish),    *)
(* and FOR KEY SHARE (grant).  FOR UPDATE excludes all three, the UPDATE   *)
(* lock excludes the first two, and KEY SHARE only the first.              *)
(***************************************************************************)
EXTENDS Integers, FiniteSets

CONSTANTS Ops,        \* operators and grant workers (positive integers)
          Subjects,   \* entitlement sources
          Models,     \* models a policy or an entitlement may name
          Limits,     \* values of a policy's limit; 0 is null
          MaxVer,     \* bound: revisions of the policy
          MaxCalls    \* bound: calls begun

VARIABLES pol,    \* revision -> its row; "none" where there is none
          ent,    \* source -> its entitlement row
          payg,   \* revision the PAYG config points at; 0 when unset
          held,   \* revision -> who holds which row lock
          op,     \* actor -> the call it is in
          calls   \* calls begun so far

polvars == <<pol, ent, payg, held, op, calls>>

Vers == 1 .. MaxVer
NoRow == [st |-> "none", lim |-> 0, mods |-> {}]
NoEnt == [st |-> "none", pol |-> 0, rev |-> 0, mods |-> {}]
Free == [ex |-> 0, nk |-> 0, key |-> {}]
Idle == [pc |-> "idle", v |-> 0, lim |-> 0, mods |-> {}, force |-> FALSE, sub |-> 0,
         rows |-> << >>, todo |-> {}, add |-> {}, rem |-> {}, old |-> {}]

Status(v) == pol[v].st
Exists(v) == Status(v) # "none"
PublishedSet == {v \in Vers : Status(v) = "published"}

Init ==
    /\ pol = [v \in Vers |-> NoRow]
    /\ ent = [s \in Subjects |-> NoEnt]
    /\ payg = 0
    /\ held = [v \in Vers |-> Free]
    /\ op = [o \in Ops |-> Idle]
    /\ calls = 0

At(o, pc) == op[o].pc = pc
Begin(o) == At(o, "idle") /\ calls < MaxCalls /\ calls' = calls + 1
Goto(o, r) == op' = [op EXCEPT ![o] = r]
Finish(o) == Goto(o, Idle)

\* COMMIT and ROLLBACK give back every row lock of the transaction.
Released(o) == [v \in Vers |-> [ex |-> IF held[v].ex = o THEN 0 ELSE held[v].ex,
                                nk |-> IF held[v].nk = o THEN 0 ELSE held[v].nk,
                                key |-> held[v].key \ {o}]]

CanUpdate(o, v) == held[v].ex \in {0, o} /\ held[v].nk \in {0, o}
CanForUpdate(o, v) == CanUpdate(o, v) /\ held[v].key \subseteq {o}
CanKeyShare(o, v) == held[v].ex \in {0, o}
-----------------------------------------------------------------------------
(* Drafts: create and edit.                                                *)

\* At least one limit, and a non-empty set of known models.
validatePolicyContent(lim, mods) == lim # 0 /\ mods # {}

\* The body of a create request, and the fields a PATCH carries: unknown
\* fields and an empty PATCH are refused, an absent field is kept.
CreateBodies == [lim : Limits, mods : SUBSET Models]
PatchFields == (SUBSET {"lim", "mods"}) \ {{}}

MaxPolicyRevision == IF \E v \in Vers : Exists(v)
                       THEN CHOOSE v \in Vers : Exists(v) /\ \A w \in Vers : Exists(w) => w <= v
                       ELSE 0

\* The handler binds the body, the service checks it and reads MAX(revision).
Create(o) ==
    /\ Begin(o)
    /\ MaxPolicyRevision + 1 <= MaxVer
    /\ \E b \in CreateBodies :
         /\ validatePolicyContent(b.lim, b.mods)
         /\ Goto(o, [Idle EXCEPT !.pc = "insert", !.v = MaxPolicyRevision + 1, !.lim = b.lim, !.mods = b.mods])
    /\ UNCHANGED <<pol, ent, payg, held>>

\* UNIQUE(name, revision): the loser of two creates gets a conflict.
InsertQuotaPolicyTx(o) ==
    /\ At(o, "insert")
    /\ pol' = IF Exists(op[o].v) THEN pol
              ELSE [pol EXCEPT ![op[o].v] = [st |-> "draft", lim |-> op[o].lim, mods |-> op[o].mods]]
    /\ Finish(o)
    /\ UNCHANGED <<ent, payg, held, calls>>

\* Update merges the fields that are present into an unlocked read.
Update(o) ==
    /\ Begin(o)
    /\ \E v \in Vers, b \in CreateBodies, present \in PatchFields :
         LET newLim == IF "lim" \in present THEN b.lim ELSE pol[v].lim
             newMods == IF "mods" \in present THEN b.mods ELSE pol[v].mods
         IN /\ Status(v) = "draft"
            /\ validatePolicyContent(newLim, newMods)
            /\ Goto(o, [Idle EXCEPT !.pc = "update", !.v = v, !.lim = newLim, !.mods = newMods])
    /\ UNCHANGED <<pol, ent, payg, held>>

\* MUTANT: the UPDATE finds its row by id alone.
UpdateAnyStatus(o) ==
    LET v == op[o].v IN
    /\ At(o, "update") /\ CanUpdate(o, v)
    /\ pol' = [pol EXCEPT ![v].lim = op[o].lim, ![v].mods = op[o].mods]
    /\ Finish(o)
    /\ UNCHANGED <<ent, payg, held, calls>>

\* UPDATE ... WHERE id = $1 AND status = 'draft', its audit row and COMMIT.
UpdateDraftQuotaPolicyTx(o) ==
    LET v == op[o].v IN
    /\ At(o, "update") /\ CanUpdate(o, v)
    /\ pol' = IF Status(v) # "draft" THEN pol
              ELSE [pol EXCEPT ![v].lim = op[o].lim, ![v].mods = op[o].mods]
    /\ Finish(o)
    /\ UNCHANGED <<ent, payg, held, calls>>
-----------------------------------------------------------------------------
(* Publish: supersede the published version of the name, then flip the     *)
(* draft; a partial unique index allows one published row per name.        *)

\* A published version is returned as it is, anything else but a draft refused.
Publish(o) ==
    /\ Begin(o)
    /\ \E v \in Vers :
         /\ Status(v) = "draft"
         /\ Goto(o, [Idle EXCEPT !.pc = "supersede", !.v = v])
    /\ UNCHANGED <<pol, ent, payg, held>>

\* The first UPDATE starts: its snapshot fixes the rows it looks at.
SupersedeStart(o) ==
    /\ At(o, "supersede")
    /\ Goto(o, [op[o] EXCEPT !.pc = "locking", !.old = PublishedSet])
    /\ UNCHANGED <<pol, ent, payg, held, calls>>

\* It waits for their locks and evaluates its WHERE again on each.
SupersedePublished(o) ==
    LET rows == op[o].old IN
    /\ At(o, "locking")
    /\ \A w \in rows : CanUpdate(o, w)
    /\ Goto(o, [op[o] EXCEPT !.pc = "publish", !.old = rows \cap PublishedSet])
    /\ held' = [w \in Vers |-> IF w \in rows \cap PublishedSet THEN [held[w] EXCEPT !.nk = o] ELSE held[w]]
    /\ UNCHANGED <<pol, ent, payg, calls>>

\* An entry of the index that is not committed yet makes the second one wait.
IndexFree(o) == \A p \in Ops \ {o} : ~At(p, "commit")

\* MUTANT: no partial unique index on (name) WHERE status = 'published'.
NoIndex(o) == FALSE

\* Another published row of the name that this transaction did not supersede.
DuplicatePublished(o) == PublishedSet \ op[o].old # {}

\* The second UPDATE.  No draft, or a duplicate: rollback and a conflict.
PublishQuotaPolicyTx(o) ==
    LET v == op[o].v IN
    /\ At(o, "publish") /\ CanUpdate(o, v) /\ IndexFree(o)
    /\ IF Status(v) # "draft" \/ DuplicatePublished(o)
         THEN Finish(o) /\ held' = Released(o)
         ELSE /\ Goto(o, [op[o] EXCEPT !.pc = "commit"])
              /\ held' = [held EXCEPT ![v].nk = o]
    /\ UNCHANGED <<pol, ent, payg, calls>>

CommitPublish(o) ==
    /\ At(o, "commit")
    /\ pol' = [w \in Vers |-> IF w = op[o].v THEN [pol[w] EXCEPT !.st = "published"]
                              ELSE IF w \in op[o].old THEN [pol[w] EXCEPT !.st = "superseded"]
                              ELSE pol[w]]
    /\ held' = Released(o)
    /\ Finish(o)
    /\ UNCHANGED <<ent, payg, calls>>
-----------------------------------------------------------------------------
(* Retire: count the references under the row lock.                        *)

\* The query parameter ?force=true.
ForceFlags == BOOLEAN

\* A retired version is returned as it is.
Retire(o) ==
    /\ Begin(o)
    /\ \E v \in Vers, force \in ForceFlags :
         /\ Exists(v) /\ Status(v) # "retired"
         /\ Goto(o, [Idle EXCEPT !.pc = "rlock", !.v = v, !.force = force])
    /\ UNCHANGED <<pol, ent, payg, held>>

\* SELECT ... FOR UPDATE: only the status read under the lock decides.
GetQuotaPolicyForUpdateTx(o) ==
    LET v == op[o].v IN
    /\ At(o, "rlock") /\ CanForUpdate(o, v)
    /\ IF Status(v) = "retired"
         THEN Finish(o) /\ UNCHANGED held
         ELSE Goto(o, [op[o] EXCEPT !.pc = "retire"]) /\ held' = [held EXCEPT ![v].ex = o]
    /\ UNCHANGED <<pol, ent, payg, calls>>

CountActiveEntitlementsByPolicyTx(v) == Cardinality({s \in Subjects : ent[s].st = "active" /\ ent[s].pol = v})
CountConfigReferencesByPolicyTx(v) == IF payg = v THEN 1 ELSE 0

\* A referenced version is kept unless the operator forces it; a draft never blocks.
RetireQuotaPolicyTx(o) ==
    LET v == op[o].v
        refs == CountActiveEntitlementsByPolicyTx(v) + CountConfigReferencesByPolicyTx(v)
    IN /\ At(o, "retire")
       /\ pol' = IF Status(v) # "draft" /\ refs > 0 /\ ~op[o].force THEN pol
                 ELSE [pol EXCEPT ![v].st = "retired"]
       /\ held' = Released(o)
       /\ Finish(o)
       /\ UNCHANGED <<ent, payg, calls>>
-----------------------------------------------------------------------------
(* Grants.                                                                 *)

\* MUTANT: the status is read without a lock on the row.
ReadPolicyForGrant(o, s, v) ==
    /\ CanKeyShare(o, v)
    /\ IF Status(v) = "retired" THEN Finish(o) /\ UNCHANGED held
       ELSE /\ Goto(o, [Idle EXCEPT !.pc = "grant", !.v = v, !.sub = s, !.mods = pol[v].mods])
            /\ UNCHANGED held

\* SELECT status ... FOR KEY SHARE; a retired version takes no new grant.
lockPolicyForGrantTx(o, s, v) ==
    /\ CanKeyShare(o, v)
    /\ IF Status(v) = "retired" THEN Finish(o) /\ UNCHANGED held
       ELSE /\ Goto(o, [Idle EXCEPT !.pc = "grant", !.v = v, !.sub = s, !.mods = pol[v].mods])
            /\ held' = [held EXCEPT ![v].key = @ \cup {o}]

\* A grant from a paid order: the order's benefit snapshot names any version
\* that was published at some time.
Grant(o) ==
    /\ Begin(o)
    /\ \E s \in Subjects, v \in Vers :
         Status(v) \in {"published", "superseded", "retired"} /\ lockPolicyForGrantTx(o, s, v)
    /\ UNCHANGED <<pol, ent, payg>>

\* The INSERT (its foreign key is already share-locked), and COMMIT.  UNIQUE
\* (source, revision): a source that already has its row keeps it.
InsertEntitlementTx(o) ==
    LET s == op[o].sub IN
    /\ At(o, "grant")
    /\ ent' = IF ent[s].st # "none" THEN ent
              ELSE [ent EXCEPT ![s] = [st |-> "active", pol |-> op[o].v, rev |-> 1, mods |-> op[o].mods]]
    /\ held' = Released(o)
    /\ Finish(o)
    /\ UNCHANGED <<pol, payg, calls>>

\* The customer turns pay-as-you-go on: an active entitlement is returned, a
\* revoked one revived in place, and a missing one granted from the config.
EnsurePAYGEntitlementTx(o) ==
    /\ Begin(o)
    /\ payg # 0
    /\ \E s \in Subjects :
         \/ /\ ent[s].st = "revoked"
            /\ ent' = [ent EXCEPT ![s].st = "active", ![s].rev = @ + 1]
            /\ UNCHANGED <<op, held>>
         \/ ent[s].st = "none" /\ lockPolicyForGrantTx(o, s, payg) /\ UNCHANGED ent
    /\ UNCHANGED <<pol, payg>>

\* Cancellation or refund: the sync worker revokes under its revision guard.
RetireEntitlementTx(s) ==
    /\ ent[s].st = "active" /\ calls < MaxCalls
    /\ calls' = calls + 1
    /\ ent' = [ent EXCEPT ![s].st = "revoked", ![s].rev = @ + 1]
    /\ UNCHANGED <<pol, payg, held, op>>

\* The PAYG default: the published check is a read of its own.
GetPolicyVersion(o) ==
    /\ Begin(o)
    /\ \E v \in PublishedSet : Goto(o, [Idle EXCEPT !.pc = "payg", !.v = v])
    /\ UNCHANGED <<pol, ent, payg, held>>

\* The upsert takes the foreign key's share lock on the policy row.
PutPAYGConfig(o) ==
    /\ At(o, "payg") /\ CanKeyShare(o, op[o].v)
    /\ payg' = op[o].v
    /\ Finish(o)
    /\ UNCHANGED <<pol, ent, held, calls>>
-----------------------------------------------------------------------------
(* Model sets of existing entitlements.                                    *)

reviseModelSet(cur, add, rem) == (cur \ rem) \cup add

\* What access.Upgrade refuses: a row that is not active, and a no-op.
Upgrade(row, add, rem) == row.st = "active" /\ reviseModelSet(row.mods, add, rem) # row.mods

\* One entitlement: disjoint non-empty change, read in the transaction.
Revise(o) ==
    /\ Begin(o)
    /\ \E s \in Subjects, add, rem \in SUBSET Models :
         /\ add \cup rem # {} /\ add \cap rem = {}
         /\ Upgrade(ent[s], add, rem)
         /\ Goto(o, [Idle EXCEPT !.pc = "revise", !.rows = ent, !.todo = {s}, !.add = add, !.rem = rem])
    /\ UNCHANGED <<pol, ent, payg, held>>

\* The rows of a batch are listed once, up front; the ones that are not active
\* or already as wanted are skipped.
ListEntitlementsForAmend(add, rem) == {s \in Subjects : Upgrade(ent[s], add, rem)}

\* A request that does not say otherwise is a dry run.
DryRunFlags == BOOLEAN

\* A batch: one model added or removed; a dry run writes nothing.
AmendModels(o) ==
    /\ Begin(o)
    /\ \E m \in Models, dry \in DryRunFlags : \E add \in {{}, {m}} :
         LET rem == {m} \ add
             rows == ListEntitlementsForAmend(add, rem)
         IN IF dry \/ rows = {} THEN UNCHANGED op
            ELSE Goto(o, [Idle EXCEPT !.pc = "revise", !.rows = ent, !.todo = rows, !.add = add, !.rem = rem])
    /\ UNCHANGED <<pol, ent, payg, held>>

\* MUTANT: the UPDATE does not compare the revision it read.
ReviseBlindly(s, row, new) ==
    ent' = IF ent[s].st = "active" THEN [ent EXCEPT ![s].mods = new, ![s].rev = @ + 1] ELSE ent

\* UPDATE ... WHERE revision = $5 AND status = 'active'; else a conflict.
ReviseEntitlementTx(s, row, new) ==
    ent' = IF ent[s].st = "active" /\ ent[s].rev = row.rev
             THEN [ent EXCEPT ![s].mods = new, ![s].rev = @ + 1] ELSE ent

\* One row of the call: the new set is computed from the row as it was read.
reviseOneTx(o) ==
    /\ At(o, "revise")
    /\ \E s \in op[o].todo :
         LET row == op[o].rows[s] IN
         /\ ReviseEntitlementTx(s, row, reviseModelSet(row.mods, op[o].add, op[o].rem))
         /\ IF op[o].todo = {s} THEN Finish(o) ELSE Goto(o, [op[o] EXCEPT !.todo = @ \ {s}])
    /\ UNCHANGED <<pol, payg, held, calls>>
-----------------------------------------------------------------------------
Next ==
    \/ \E o \in Ops :
         \/ Create(o) \/ InsertQuotaPolicyTx(o)
         \/ Update(o) \/ UpdateDraftQuotaPolicyTx(o)
         \/ Publish(o) \/ SupersedeStart(o) \/ SupersedePublished(o) \/ PublishQuotaPolicyTx(o) \/ CommitPublish(o)
         \/ Retire(o) \/ GetQuotaPolicyForUpdateTx(o) \/ RetireQuotaPolicyTx(o)
         \/ Grant(o) \/ InsertEntitlementTx(o) \/ EnsurePAYGEntitlementTx(o)
         \/ GetPolicyVersion(o) \/ PutPAYGConfig(o)
         \/ Revise(o) \/ AmendModels(o) \/ reviseOneTx(o)
    \/ \E s \in Subjects : RetireEntitlementTx(s)

Spec == Init /\ [][Next]_polvars
-----------------------------------------------------------------------------
\* Publish: two operators publishing different drafts of one policy at the
\* same time never leave two published versions behind.
OnePublished == Cardinality(PublishedSet) <= 1

\* Update: what a version limits is fixed once it has left draft, however an
\* edit that began while it was a draft is delayed; the status only advances.
Rank == [none |-> 0, draft |-> 1, published |-> 2, superseded |-> 3, retired |-> 4]
PublishedFrozen ==
    [][\A v \in Vers :
         /\ Status(v) \notin {"none", "draft"} => pol'[v].lim = pol[v].lim /\ pol'[v].mods = pol[v].mods
         /\ Rank[pol[v].st] <= Rank[pol'[v].st]]_polvars

\* Retire against the grant paths: no entitlement is inserted on a version
\* that is retired by then, whichever of the two began first.
RetiredGetsNoGrant ==
    [][\A s \in Subjects :
         ent[s].st = "none" /\ ent'[s].st = "active" => pol[ent'[s].pol].st # "retired"]_polvars

\* Revise and AmendModels: a change of an entitlement's models is made to the
\* set that is stored, so no operator's change is undone by another's.
RevisionsCompose ==
    [][\A s \in Subjects :
         ent[s].st # "none" /\ ent'[s].mods # ent[s].mods =>
           \E o \in Ops : At(o, "revise") /\ ent'[s].mods = reviseModelSet(ent[s].mods, op[o].add, op[o].rem)]_polvars

\* Concurrent operators on policies and entitlements: one published version, frozen once
\* published, no grant on a retired one, and model changes that compose.
PolicyRules == []OnePublished /\ PublishedFrozen /\ RetiredGetsNoGrant /\ RevisionsCompose
=============================================================================
