------------------------------- MODULE Access -------------------------------
(***************************************************************************)
(* Customer API keys and what they may call: key management                *)
(* (internal/inference/access/apikey.go, httpapi/user_api_keys.go,         *)
(* postgres/apikey_repo.go), authentication of a presented key             *)
(* (access/principal.go, httpapi/apikey_auth.go) and the choice of the one *)
(* entitlement that governs a call (access/entitlement.go,                 *)
(* gateway/service.go).                                                    *)
(*                                                                         *)
(* A user's billing account has the user's name.  A key is its lookup      *)
(* prefix; the digest of a presented key is taken to match only its own.   *)
(***************************************************************************)
EXTENDS Naturals, FiniteSets

CONSTANTS
    Users, Prefixes, Models,
    Grants,        \* entitlement ids, in order of creation
    Grant,         \* what each grants: [user, kind, models, from, to], to = 0 for no end
    Requests,      \* API calls
    Editors,       \* management requests
    Scopes,        \* model lists a key is narrowed to, {} for no narrowing
    Expiries,      \* expiry times asked for, 0 for none
    Limits,        \* rpm limits asked for, 0 for none
    TouchWindow,   \* how often last_used_at is written
    MaxNow, MaxEdits, MaxCalls \* bounds on the clock, edits and calls

VARIABLES
    now,
    accts,    \* inference_billing_accounts: "none", "active" or "suspended"
    keys,     \* inference_api_keys
    grants,   \* inference_entitlements: the status of each grant
    call,     \* calls under way
    edit,     \* management requests under way
    touched,  \* Resolver.lastTouched
    edits, calls

accvars == <<now, accts, keys, grants, call, edit, touched, edits, calls>>

NoKey == [owner |-> 0, status |-> "none", allow |-> {}, exp |-> 0, rpm |-> 0, used |-> 0]
NoCall == [pc |-> "idle", key |-> 0, row |-> NoKey, model |-> 0, at |-> 0, grant |-> 0]
NoEdit == [pc |-> "idle", key |-> 0, row |-> NoKey, set |-> {}]

Init ==
    /\ now = 1
    /\ accts = [u \in Users |-> "none"]
    /\ keys = [p \in Prefixes |-> NoKey]
    /\ grants = [g \in Grants |-> "none"]
    /\ call = [r \in Requests |-> NoCall]
    /\ edit = [e \in Editors |-> NoEdit]
    /\ touched = [p \in Prefixes |-> 0]
    /\ edits = 0 /\ calls = 0

-----------------------------------------------------------------------------
(* Entitlements *)

Effective(g, at) ==
    /\ grants[g] = "active"
    /\ at >= Grant[g].from
    /\ Grant[g].to # 0 => at < Grant[g].to

ListActiveEntitlements(u, at) == {g \in Grants : Grant[g].user = u /\ Effective(g, at)}

OfKind(G, kinds) == {g \in G : Grant[g].kind \in kinds}

\* The grant of a pool created first that has the model, 0 for none.
grantsModel(pool, m) ==
    LET having == {g \in pool : m \in Grant[g].models} IN
    IF having = {} THEN 0 ELSE CHOOSE g \in having : \A h \in having : g <= h

\* Plans first; gifts only for an account without a plan; pay-as-you-go
\* when neither has the model.
SelectEntitlement(G, m) ==
    LET plans == OfKind(G, {"plan"})
        pool == IF plans # {} THEN plans ELSE OfKind(G, {"gift"})
        winner == grantsModel(pool, m)
    IN  IF winner # 0 THEN winner ELSE grantsModel(OfKind(G, {"payg"}), m)

Resolve(u, m, at) == SelectEntitlement(ListActiveEntitlements(u, at), m)

Granted(u, at) == UNION {Grant[g].models : g \in ListActiveEntitlements(u, at)}

\* Another part of the system grants and withdraws, in order of creation.
GrantEntitlement ==
    /\ \E g \in Grants :
        /\ grants[g] = "none" /\ \A h \in Grants : h < g => grants[h] # "none"
        /\ grants' = [grants EXCEPT ![g] = "active"]
        /\ accts' = [accts EXCEPT ![Grant[g].user] = IF @ = "none" THEN "active" ELSE @]
    /\ UNCHANGED <<now, keys, call, edit, touched, edits, calls>>

WithdrawEntitlement ==
    /\ \E g \in Grants : grants[g] = "active" /\ grants' = [grants EXCEPT ![g] = "revoked"]
    /\ UNCHANGED <<now, accts, keys, call, edit, touched, edits, calls>>

-----------------------------------------------------------------------------
(* Key management *)

\* What a creation and a patch may carry.
toParams == [allow : Scopes, exp : Expiries, rpm : Limits]
toPatch == [set : SUBSET {"allow", "exp", "rpm"}, allow : Scopes, exp : Expiries, rpm : Limits]

ValidateModelScope(allow, u) == allow \subseteq Granted(u, now)

\* InsertAPIKey, tried with up to three fresh keys: a prefix in use conflicts.
InsertAPIKey(row) ==
    \E tries \in [1..3 -> Prefixes] :
        IF \A i \in 1..3 : keys[tries[i]].status # "none"
        THEN UNCHANGED keys
        ELSE LET i == CHOOSE j \in 1..3 : /\ keys[tries[j]].status = "none"
                                          /\ \A k \in 1..(j - 1) : keys[tries[k]].status # "none"
             IN  keys' = [keys EXCEPT ![tries[i]] = row]

\* The account is established even if the scope is then refused.
EnsureBillingAccount(u) == accts' = [accts EXCEPT ![u] = IF @ = "none" THEN "active" ELSE @]

CreateKey(u) ==
    /\ edits < MaxEdits
    /\ \E q \in toParams :
        /\ q.exp # 0 => q.exp > now
        /\ EnsureBillingAccount(u)
        /\ IF ValidateModelScope(q.allow, u)
           THEN InsertAPIKey([NoKey EXCEPT !.owner = u, !.status = "active", !.allow = q.allow,
                                           !.exp = q.exp, !.rpm = q.rpm])
           ELSE UNCHANGED keys
    /\ edits' = edits + 1
    /\ UNCHANGED <<now, grants, call, edit, touched, calls>>

\* A key of somebody else is as good as missing.
ownedKey(u, p) == keys[p].status # "none" /\ accts[u] # "none" /\ keys[p].owner = u

\* UpdateKey up to the write: the row is read, and the fields of the patch
\* are checked and set in it.
UpdateKey(e) ==
    /\ edit[e].pc = "idle" /\ edits < MaxEdits
    /\ \E u \in Users, p \in Prefixes, q \in toPatch :
        /\ ownedKey(u, p)
        /\ "allow" \in q.set => ValidateModelScope(q.allow, u)
        /\ "exp" \in q.set /\ q.exp # 0 => q.exp > now
        /\ LET row == [keys[p] EXCEPT !.allow = IF "allow" \in q.set THEN q.allow ELSE @,
                                      !.exp = IF "exp" \in q.set THEN q.exp ELSE @,
                                      !.rpm = IF "rpm" \in q.set THEN q.rpm ELSE @]
           IN  edit' = [edit EXCEPT ![e] = [pc |-> "write", key |-> p, row |-> row, set |-> q.set]]
    /\ edits' = edits + 1
    /\ UNCHANGED <<now, accts, keys, grants, call, touched, calls>>

\* MUTANT: the row is written back as it was read, status and all.
WriteWholeRow(old, row) == row

\* The editable columns are written, whatever they hold by now; the status
\* is not among them.
UpdateAPIKey(old, row) == [old EXCEPT !.allow = row.allow, !.exp = row.exp, !.rpm = row.rpm]

UpdateWrite(e) ==
    /\ edit[e].pc = "write"
    /\ keys' = [keys EXCEPT ![edit[e].key] = UpdateAPIKey(@, edit[e].row)]
    /\ edit' = [edit EXCEPT ![e] = NoEdit]
    /\ UNCHANGED <<now, accts, grants, call, touched, edits, calls>>

\* Only an active key is revoked; again is no error.
RevokeAPIKey(row) == IF row.status = "active" THEN [row EXCEPT !.status = "revoked"] ELSE row

RevokeKey(u) ==
    /\ edits < MaxEdits
    /\ \E p \in Prefixes : ownedKey(u, p) /\ keys' = [keys EXCEPT ![p] = RevokeAPIKey(@)]
    /\ edits' = edits + 1
    /\ UNCHANGED <<now, accts, grants, call, edit, touched, calls>>

-----------------------------------------------------------------------------
(* Calls *)

\* Authenticate: the row is read once; revoked and expired keys end here.
Authenticate(r) ==
    /\ call[r].pc = "idle" /\ calls < MaxCalls
    /\ \E p \in Prefixes, m \in Models :
        /\ keys[p].status = "active"
        /\ call' = [call EXCEPT ![r] =
            [NoCall EXCEPT !.pc = IF keys[p].exp # 0 /\ now >= keys[p].exp THEN "mark" ELSE "account",
                           !.key = p, !.row = keys[p], !.model = m]]
    /\ calls' = calls + 1
    /\ UNCHANGED <<now, accts, keys, grants, edit, touched, edits>>

\* MUTANT: the mark goes by what was read before.
MarkAsRead(row) == IF row.status = "active" THEN [row EXCEPT !.status = "expired"] ELSE row

\* The mark goes by the stored row, which may have been extended since.
MarkAPIKeyExpired(row) ==
    IF row.status = "active" /\ row.exp # 0 /\ row.exp <= now THEN [row EXCEPT !.status = "expired"] ELSE row

\* The call is refused whether or not the mark is written.
MarkExpired(r) ==
    /\ call[r].pc = "mark"
    /\ \/ keys' = [keys EXCEPT ![call[r].key] = MarkAPIKeyExpired(@)]
       \/ UNCHANGED keys
    /\ call' = [call EXCEPT ![r] = NoCall]
    /\ UNCHANGED <<now, accts, grants, edit, touched, edits, calls>>

\* last_used_at is written at most once a window, and may fail.
touchLastUsed(p) ==
    IF touched[p] # 0 /\ now - touched[p] < TouchWindow
    THEN UNCHANGED <<touched, keys>>
    ELSE /\ touched' = [touched EXCEPT ![p] = now]
         /\ keys' = [keys EXCEPT ![p].used = now] \/ UNCHANGED keys

\* The owning account must be active.
AccountCheck(r) ==
    /\ call[r].pc = "account"
    /\ IF accts[call[r].row.owner] = "active"
       THEN /\ touchLastUsed(call[r].key)
            /\ call' = [call EXCEPT ![r].pc = "gate"]
       ELSE call' = [call EXCEPT ![r] = NoCall] /\ UNCHANGED <<keys, touched>>
    /\ UNCHANGED <<now, accts, grants, edit, edits, calls>>

\* A call of a signed-in user: no key narrows it.
ResolveUserSession(r) ==
    /\ call[r].pc = "idle" /\ calls < MaxCalls
    /\ \E u \in Users, m \in Models :
        /\ accts[u] = "active"
        /\ call' = [call EXCEPT ![r] = [NoCall EXCEPT !.pc = "gate", !.row.owner = u, !.model = m]]
    /\ calls' = calls + 1
    /\ UNCHANGED <<now, accts, keys, grants, edit, touched, edits>>

\* The gateway: the key's narrowing as read, then the one entitlement.
Gate(r) ==
    LET c == call[r]
        g == Resolve(c.row.owner, c.model, now)
    IN  /\ c.pc = "gate"
        /\ call' = [call EXCEPT ![r] =
            IF (c.row.allow # {} /\ c.model \notin c.row.allow) \/ g = 0 THEN NoCall
            ELSE [c EXCEPT !.pc = "served", !.at = now, !.grant = g]]
        /\ UNCHANGED <<now, accts, keys, grants, edit, touched, edits, calls>>

Answered(r) ==
    /\ call[r].pc = "served"
    /\ call' = [call EXCEPT ![r] = NoCall]
    /\ UNCHANGED <<now, accts, keys, grants, edit, touched, edits, calls>>

\* The models an unnarrowed caller, or a key, is authorized for.
AuthorizedModelIDs(row) ==
    LET union == Granted(row.owner, now) IN IF row.allow = {} THEN union ELSE row.allow \cap union

\* GET /v1/models for a key, GET /chat/models for a signed-in user, over the
\* published models.
ListModels(p) == Models \cap AuthorizedModelIDs(keys[p])
ListForSession(u) == Models \cap AuthorizedModelIDs([NoKey EXCEPT !.owner = u])

\* An operator suspends an account in the database.
Suspend ==
    /\ \E u \in Users : accts[u] = "active" /\ accts' = [accts EXCEPT ![u] = "suspended"]
    /\ UNCHANGED <<now, keys, grants, call, edit, touched, edits, calls>>

Tick ==
    /\ now < MaxNow
    /\ now' = now + 1
    /\ UNCHANGED <<accts, keys, grants, call, edit, touched, edits, calls>>

Next ==
    \/ Tick \/ Suspend \/ GrantEntitlement \/ WithdrawEntitlement
    \/ \E u \in Users : CreateKey(u) \/ RevokeKey(u)
    \/ \E e \in Editors : UpdateKey(e) \/ UpdateWrite(e)
    \/ \E r \in Requests : \/ Authenticate(r) \/ MarkExpired(r) \/ AccountCheck(r) \/ ResolveUserSession(r)
                           \/ Gate(r) \/ Answered(r)

Spec == Init /\ [][Next]_accvars

-----------------------------------------------------------------------------
\* A revoked or expired key never becomes usable again, although an edit
\* read before the revocation may be written after it.
DeadKeysStayDead ==
    [][\A p \in Prefixes : keys[p].status \in {"revoked", "expired"} => keys'[p].status = keys[p].status]_accvars

\* A key is marked expired only while the expiry stored for it has passed:
\* an extension saved between the check of a call and its mark is honoured.
ExtensionHonoured ==
    [][\A p \in Prefixes : keys[p].status = "active" /\ keys'[p].status = "expired" =>
            keys[p].exp # 0 /\ keys[p].exp <= now]_accvars

\* Edits, calls and revocations of one key interleave without reviving a dead key or
\* expiring an extended one (UpdateAPIKey, MarkAPIKeyExpired).
KeysKept == DeadKeysStayDead /\ ExtensionHonoured

\* Whatever model a key, or a signed-in user, is shown, a call for it finds
\* an entitlement.
ListedIsCallable ==
    /\ \A p \in Prefixes : keys[p].status = "active" =>
        \A m \in ListModels(p) : Resolve(keys[p].owner, m, now) # 0
    /\ \A u \in Users : accts[u] = "active" =>
        \A m \in ListForSession(u) : Resolve(u, m, now) # 0

\* A field a patch does not name keeps its value when the patch is written.
PatchKeepsTheRest ==
    [][\A e \in Editors : edit[e].pc = "write" /\ edit'[e].pc = "idle" =>
        LET p == edit[e].key IN
        /\ keys'[p].allow # keys[p].allow => "allow" \in edit[e].set
        /\ keys'[p].exp # keys[p].exp => "exp" \in edit[e].set
        /\ keys'[p].rpm # keys[p].rpm => "rpm" \in edit[e].set]_accvars
=============================================================================
