------------------------------ MODULE Catalog ------------------------------
(***************************************************************************)
(* The model catalogue (internal/inference/catalog, postgres/catalog_repo, *)
(* management/catalog.go, httpapi/admin_models.go): editable tables, the   *)
(* immutable revisions published from them, and the snapshot every gateway *)
(* process serves from.                                                    *)
(*                                                                         *)
(* Operators edit rows under a version token; ver is the token, the number *)
(* of the edit that wrote the row (the code uses updated_at, and           *)
(* config_version for a deployment).  There is one provider; of a model    *)
(* the lifecycle and the aliases are kept, of a deployment its status, of  *)
(* a route whether it is enabled.                                          *)
(***************************************************************************)
EXTENDS Integers, Sequences, FiniteSets, FiniteSetsExt
LOCAL INSTANCE SequencesExt

CONSTANTS
  Models,      \* public model ids, numbers
  Aliases,     \* the names a model may carry besides its id
  Deps,        \* deployments
  Env,         \* the catalogue of the environment: a set of <<model, deployment>>
  Editors,     \* operators' requests under way
  Publishers,  \* publish and rollback requests under way
  Readers,     \* gateway requests of one process
  PageSize,    \* publishPageSize
  PageMax,     \* the largest page a list query grants
  PageDefault, \* the page it grants instead of a larger one
  MaxEdits,    \* bound: edits of operators
  MaxBoots,    \* bound: restarts of the process
  MaxRev       \* bound: revisions

VARIABLES
  prov,        \* the provider row exists
  model, dep, route,   \* the rows
  edits,       \* edits so far
  deleted,     \* an operator deleted a row
  ed,          \* per editor: pc, the row id and the row it read
  imp,         \* the import of a booting process: "off", the items done, or "done"
  boots,       \* restarts so far
  rev,         \* the revisions: payload and is_active
  pub,         \* per publisher: pc, the transaction's snapshot, what it listed
  current,     \* the verified snapshot of the process: a revision, 0 when none
  probed,      \* a probe hit within headProbeTTL
  get          \* per reader: pc, the revision it has loaded, and what it was served

tables == <<prov, model, dep, route>>
catvars == <<prov, model, dep, route, edits, deleted, ed, imp, boots, rev, pub, current, probed, get>>

NoModel == [lc |-> "absent", aliases |-> {}, ver |-> 0, ok |-> TRUE]
NoDep == [st |-> "absent", ver |-> 0, ok |-> TRUE]
NoRoute == [on |-> "absent", ver |-> 0]
Pairs == Models \X Deps

lifecycleTransitions ==
  {<<"draft", "active">>, <<"draft", "deprecated">>, <<"draft", "retired">>,
   <<"active", "deprecated">>, <<"active", "retired">>,
   <<"deprecated", "active">>, <<"deprecated", "retired">>}

EmptyCatalog == [prov |-> FALSE, model |-> [m \in Models |-> NoModel],
                 dep |-> [d \in Deps |-> NoDep], route |-> [r \in Pairs |-> NoRoute]]
Idle == [pc |-> "idle", view |-> EmptyCatalog, latest |-> 0, models |-> {}, deps |-> {}, prov |-> FALSE, to |-> 0]
NoEdit == [pc |-> "idle", id |-> 0, lc |-> "absent", aliases |-> {}, ver |-> 0]

Init ==
  /\ prov = FALSE /\ model = EmptyCatalog.model /\ dep = EmptyCatalog.dep /\ route = EmptyCatalog.route
  /\ edits = 0 /\ deleted = FALSE
  /\ ed = [e \in Editors |-> NoEdit] /\ imp = 0 /\ boots = 0
  /\ rev = <<>> /\ pub = [p \in Publishers |-> Idle]
  /\ current = 0 /\ probed = FALSE
  /\ get = [r \in Readers |-> [pc |-> "idle", loaded |-> 0]]
-----------------------------------------------------------------------------
(* Rows edited by operators.  ok says that the fields the model leaves out *)
(* pass validation; a request may bring fields that do not.                *)

ValidateModel(row) == row.ok
ValidateDeployment(row) == row.ok

Edit == edits < MaxEdits /\ edits' = edits + 1
Others == UNCHANGED <<imp, boots, rev, pub, current, probed, get>>
Tok == edits + 1

NewModel(v, ok) == [lc |-> "draft", aliases |-> {}, ver |-> v, ok |-> ok]
NewDep(v, ok) == [st |-> "draft", ver |-> v, ok |-> ok]
InsertModel(m, row) == model[m].lc = "absent" /\ model' = [model EXCEPT ![m] = row]
InsertDeployment(d, row) == prov /\ dep[d].st = "absent" /\ dep' = [dep EXCEPT ![d] = row]

\* The unique key and the foreign keys of a route.
InsertRoute(r, v) ==
  /\ route[r].on = "absent" /\ model[r[1]].lc /= "absent" /\ dep[r[2]].st /= "absent"
  /\ route' = [route EXCEPT ![r] = [on |-> "on", ver |-> v]]

CreateProvider == Edit /\ ~prov /\ prov' = TRUE /\ UNCHANGED <<model, dep, route, deleted, ed>> /\ Others
CreateModel(m, row) ==
  Edit /\ ValidateModel(row) /\ InsertModel(m, row) /\ UNCHANGED <<prov, dep, route, deleted, ed>> /\ Others
CreateDeployment(d, row) ==
  Edit /\ ValidateDeployment(row) /\ InsertDeployment(d, row) /\ UNCHANGED <<prov, model, route, deleted, ed>> /\ Others
CreateRoute(r) == Edit /\ InsertRoute(r, Tok) /\ UNCHANGED <<prov, model, dep, deleted, ed>> /\ Others

\* A client reads a model and edits it later under the token it saw.
GetModel(e, m) ==
  /\ ed[e].pc = "idle" /\ model[m].lc /= "absent" /\ edits < MaxEdits
  /\ ed' = [ed EXCEPT ![e] = [NoEdit EXCEPT !.pc = "seen", !.id = m, !.ver = model[m].ver]]
  /\ UNCHANGED <<prov, model, dep, route, edits, deleted>> /\ Others

\* The PATCH handler reads the row again, keeps its lifecycle, and puts the
\* client's fields and token over it.
PatchModel(e, aliases) ==
  /\ ed[e].pc = "seen" /\ model[ed[e].id].lc /= "absent" /\ edits < MaxEdits
  /\ ed' = [ed EXCEPT ![e].pc = "write", ![e].lc = model[ed[e].id].lc, ![e].aliases = aliases]
  /\ UNCHANGED <<prov, model, dep, route, edits, deleted>> /\ Others

\* SetModelLifecycle reads the row and checks the transition; the token is its own.
SetModelLifecycle(e, m, to) ==
  /\ ed[e].pc = "idle" /\ <<model[m].lc, to>> \in lifecycleTransitions /\ edits < MaxEdits
  /\ ed' = [ed EXCEPT ![e] = [pc |-> "write", id |-> m, lc |-> to,
                              aliases |-> model[m].aliases, ver |-> model[m].ver]]
  /\ UNCHANGED <<prov, model, dep, route, edits, deleted>> /\ Others

\* MUTANT: the row is found by its id alone.
TokenIgnored(e) == model[ed[e].id].lc /= "absent"

\* WHERE id=$1 AND updated_at=$13: no row matches a stale token.
TokenHolds(e) == model[ed[e].id].lc /= "absent" /\ model[ed[e].id].ver = ed[e].ver

UpdateModel(e) ==
  /\ ed[e].pc = "write" /\ ed' = [ed EXCEPT ![e] = NoEdit]
  /\ \/ /\ TokenHolds(e) /\ Edit
        /\ model' = [model EXCEPT ![ed[e].id] = [lc |-> ed[e].lc, aliases |-> ed[e].aliases, ver |-> Tok, ok |-> TRUE]]
     \/ ~TokenHolds(e) /\ UNCHANGED <<edits, model>>
  /\ UNCHANGED <<prov, dep, route, deleted>> /\ Others

\* The whole row comes from the client, with the config_version it read; the
\* write is one statement.
UpdateDeployment(d, row) ==
  /\ Edit /\ dep[d].st \notin {"absent", row.st} /\ ValidateDeployment(row)
  /\ dep' = [dep EXCEPT ![d] = row]
  /\ UNCHANGED <<prov, model, route, deleted, ed>> /\ Others

UpdateRoute(r) ==
  /\ Edit /\ route[r].on /= "absent"
  /\ route' = [route EXCEPT ![r] = [on |-> IF @.on = "on" THEN "off" ELSE "on", ver |-> Tok]]
  /\ UNCHANGED <<prov, model, dep, deleted, ed>> /\ Others

\* Routes go with their model; a deployment with a route, and a provider with a
\* deployment, are kept by their foreign keys.
DeleteModel(m) ==
  /\ Edit /\ model[m].lc /= "absent" /\ deleted' = TRUE
  /\ route' = [r \in Pairs |-> IF r[1] = m THEN NoRoute ELSE route[r]]
  /\ model' = [model EXCEPT ![m] = NoModel]
  /\ UNCHANGED <<prov, dep, ed>> /\ Others

DeleteRoute(r) ==
  /\ Edit /\ route[r].on /= "absent" /\ deleted' = TRUE
  /\ route' = [route EXCEPT ![r] = NoRoute]
  /\ UNCHANGED <<prov, model, dep, ed>> /\ Others

mapDeleteFK(d) == \A m \in Models : route[<<m, d>>].on = "absent"

DeleteDeployment(d) ==
  /\ Edit /\ dep[d].st /= "absent" /\ mapDeleteFK(d) /\ deleted' = TRUE
  /\ dep' = [dep EXCEPT ![d] = NoDep]
  /\ UNCHANGED <<prov, model, route, ed>> /\ Others

DeleteProvider ==
  /\ Edit /\ prov /\ (\A d \in Deps : dep[d].st = "absent") /\ prov' = FALSE /\ deleted' = TRUE
  /\ UNCHANGED <<model, dep, route, ed>> /\ Others
-----------------------------------------------------------------------------
(* Import of the environment's catalogue at boot: every row that exists is *)
(* skipped, and the statements commit one by one.                          *)

Row(k, m, d) == [k |-> k, m |-> m, d |-> d]

\* The order of the statements: the provider, then each model, its deployments
\* and its routes.
EnvOf(m) ==
  LET mine == SetToSeq({r[2] : r \in {q \in Env : q[1] = m}})
  IN  <<Row("model", m, 0)>> \o [i \in DOMAIN mine |-> Row("deployment", m, mine[i])]
                              \o [i \in DOMAIN mine |-> Row("route", m, mine[i])]
Items == <<Row("provider", 0, 0)>> \o FlattenSeq([i \in 1..Cardinality(Models) |->
            LET m == SetToSortSeq(Models, <)[i] IN IF m \in {r[1] : r \in Env} THEN EnvOf(m) ELSE <<>>])

Exists(it) == CASE it.k = "provider" -> prov
                [] it.k = "model" -> model[it.m].lc /= "absent"
                [] it.k = "deployment" -> dep[it.d].st /= "absent"
                [] it.k = "route" -> route[<<it.m, it.d>>].on /= "absent"

\* A row that misses its provider, model or deployment is refused by a foreign
\* key, and the process exits: see Reboot.
Insert(it) ==
  CASE it.k = "provider" -> prov' = TRUE /\ UNCHANGED <<model, dep, route>>
    [] it.k = "model" -> InsertModel(it.m, NewModel(edits, TRUE)) /\ UNCHANGED <<prov, dep, route>>
    [] it.k = "deployment" -> InsertDeployment(it.d, NewDep(edits, TRUE)) /\ UNCHANGED <<prov, model, route>>
    [] it.k = "route" -> InsertRoute(<<it.m, it.d>>, edits) /\ UNCHANGED <<prov, model, dep>>

\* MUTANT: an existing model is taken to have its deployments and routes.
SkipWholeModel(it) ==
  IF it.k = "model" THEN CHOOSE n \in 1..Len(Items) : Items[n].m = it.m /\ \A j \in n+1..Len(Items) : Items[j].m /= it.m
  ELSE imp + 1

\* An existing row is skipped, and only that row.
Skip(it) == imp + 1

ImportEnvCatalog ==
  /\ imp < Len(Items)
  /\ LET it == Items[imp + 1]
     IN  IF Exists(it) THEN imp' = Skip(it) /\ UNCHANGED tables
         ELSE Insert(it) /\ imp' = imp + 1
  /\ UNCHANGED <<edits, deleted, ed, boots, rev, pub, current, probed, get>>

\* The import failed or the process was stopped; the next boot starts over.
Reboot ==
  /\ imp > 0 /\ boots < MaxBoots /\ imp' = 0 /\ boots' = boots + 1
  /\ current' = 0 /\ probed' = FALSE
  /\ get' = [r \in Readers |-> [pc |-> "idle", loaded |-> 0]]
  /\ UNCHANGED <<prov, model, dep, route, edits, deleted, ed, rev, pub>>
-----------------------------------------------------------------------------
(* Publish and rollback: one REPEATABLE READ transaction each.             *)

Catalogue == [prov |-> prov, model |-> model, dep |-> dep, route |-> route]

\* MUTANT: READ COMMITTED, every query sees what is committed when it runs.
Committed(p) == Catalogue

\* Every query of the transaction reads the snapshot of the first.
Visible(p) == pub[p].view

\* MUTANT: a page as long as the limit is taken for the last.
ShortPage(page) == Cardinality(page) <= PageSize

LastPage(page) == Cardinality(page) < PageSize

\* The list queries replace a limit above their maximum by the default.
Page(S, after) ==
  LET limit == IF PageSize > PageMax THEN PageDefault ELSE PageSize
      rest == {x \in S : x > after}
  IN  {x \in rest : Cardinality({y \in rest : y < x}) < limit}

\* Keyset pagination until a short page.
drainPages(S) ==
  LET drain[after \in S \cup {0}] ==
        LET page == Page(S, after)
        IN  IF LastPage(page) THEN page ELSE page \cup drain[Max(page)]
  IN  drain[0]

Listed(table, ids, none) == [x \in DOMAIN table |-> IF x \in ids THEN table[x] ELSE none]

\* No alias is a model's id, and none is carried by two models.
validateModelAliasUniqueness(ms) ==
  LET there == {m \in Models : ms[m].lc /= "absent"}
  IN  \A m \in there : \A a \in ms[m].aliases :
        a \notin there /\ \A n \in there \ {m} : a \notin ms[n].aliases

validateCatalogForPublish(p, view) ==
  /\ \A m \in p.models : ValidateModel(view.model[m])
  /\ \A d \in p.deps : ValidateDeployment(view.dep[d])
  /\ validateModelAliasUniqueness(Listed(view.model, p.models, NoModel))
  /\ p.deps /= {} => p.prov

\* A snapshot is built whole or refused: aliases, and the references of routes.
ParseSnapshot(pl) ==
  /\ \A m \in Models : ValidateModel(pl.model[m])
  /\ \A d \in Deps : ValidateDeployment(pl.dep[d])
  /\ validateModelAliasUniqueness(pl.model)
  /\ \A r \in Pairs : pl.route[r].on /= "absent" =>
       pl.model[r[1]].lc /= "absent" /\ pl.dep[r[2]].st /= "absent"

activateRevision(pl) == Append([i \in DOMAIN rev |-> [rev[i] EXCEPT !.active = FALSE]], [pl |-> pl, active |-> TRUE])

BeginPublish(p) ==
  /\ pub[p].pc = "idle" /\ Len(rev) < MaxRev
  /\ pub' = [pub EXCEPT ![p] = [Idle EXCEPT !.pc = "drain", !.view = Catalogue, !.latest = Len(rev)]]
  /\ UNCHANGED <<prov, model, dep, route, edits, deleted, ed, imp, boots, rev, current, probed, get>>

\* The models, the provider and the deployments, validated together.
drainCatalogForPublish(p) ==
  LET view == Visible(p)
      got == [pub[p] EXCEPT !.pc = "insert", !.prov = view.prov,
                !.models = drainPages({m \in Models : view.model[m].lc /= "absent"}),
                !.deps = {d \in Deps : view.dep[d].st /= "absent"}]
  IN  /\ pub[p].pc = "drain"
      /\ pub' = [pub EXCEPT ![p] = IF validateCatalogForPublish(got, view) THEN got ELSE Idle]
      /\ UNCHANGED <<prov, model, dep, route, edits, deleted, ed, imp, boots, rev, current, probed, get>>

\* The routes of the listed models complete the payload.  UNIQUE(scope, revision)
\* lets one of two publishers that saw the same latest revision commit.
Payload(p) ==
  [model |-> Listed(pub[p].view.model, pub[p].models, NoModel), dep |-> Listed(pub[p].view.dep, pub[p].deps, NoDep),
   route |-> [r \in Pairs |-> IF r[1] \in pub[p].models THEN Visible(p).route[r] ELSE NoRoute]]

InsertAndActivateRevision(p, pl) ==
  /\ pub' = [pub EXCEPT ![p] = Idle]
  /\ rev' = IF pub[p].latest = Len(rev) THEN activateRevision(pl) ELSE rev
  /\ UNCHANGED <<prov, model, dep, route, edits, deleted, ed, imp, boots, current, probed, get>>

Publish(p) == pub[p].pc = "insert" /\ InsertAndActivateRevision(p, Payload(p))

\* A dry run ends the transaction before the insert.
PublishPreview(p) ==
  /\ pub[p].pc = "insert" /\ pub' = [pub EXCEPT ![p] = Idle]
  /\ UNCHANGED <<prov, model, dep, route, edits, deleted, ed, imp, boots, rev, current, probed, get>>

\* A rollback publishes the content of an older revision again.
BeginRollback(p, to) ==
  /\ pub[p].pc = "idle" /\ Len(rev) < MaxRev /\ to \in DOMAIN rev
  /\ ParseSnapshot(rev[to].pl)
  /\ pub' = [pub EXCEPT ![p] = [Idle EXCEPT !.pc = "rollback", !.latest = Len(rev), !.to = to]]
  /\ UNCHANGED <<prov, model, dep, route, edits, deleted, ed, imp, boots, rev, current, probed, get>>

Rollback(p) == pub[p].pc = "rollback" /\ InsertAndActivateRevision(p, rev[pub[p].to].pl)
-----------------------------------------------------------------------------
(* SnapshotCache.Current, called by every gateway request.  With a snapshot *)
(* in hand and a recent hit it answers at once and changes nothing; a       *)
(* failed query is absorbed the same way.                                   *)

ActiveRevision == IF \E i \in DOMAIN rev : rev[i].active THEN CHOOSE i \in DOMAIN rev : rev[i].active ELSE 0

\* MUTANT: any snapshot in hand counts as the head.
AnyInHand(head) == current /= 0

MatchesHead(head) == current /= 0 /\ current = head

CacheOnly == UNCHANGED <<prov, model, dep, route, edits, deleted, ed, imp, boots, rev, pub>>

ActiveRevisionHead(r) ==
  /\ get[r].pc = "idle" /\ ~(current /= 0 /\ probed) /\ ActiveRevision /= 0
  /\ get' = [get EXCEPT ![r].pc = IF MatchesHead(ActiveRevision) THEN "hit" ELSE "load"]
  /\ UNCHANGED <<current, probed>> /\ CacheOnly

\* The time of the probe is recorded after it.
RecordProbe(r) ==
  /\ get[r].pc = "hit" /\ get' = [get EXCEPT ![r].pc = "idle"]
  /\ probed' = TRUE /\ UNCHANGED current /\ CacheOnly

Load(r) ==
  /\ get[r].pc = "load"
  /\ get' = [get EXCEPT ![r] = IF ParseSnapshot(rev[ActiveRevision].pl)
                               THEN [pc |-> "store", loaded |-> ActiveRevision] ELSE [@ EXCEPT !.pc = "idle"]]
  /\ UNCHANGED <<current, probed>> /\ CacheOnly

\* Two requests may have loaded different revisions: the last store wins.
Store(r) ==
  /\ get[r].pc = "store" /\ current' = get[r].loaded
  /\ get' = [get EXCEPT ![r] = [pc |-> "idle", loaded |-> 0]]
  /\ UNCHANGED probed /\ CacheOnly

ProbeExpires == probed /\ probed' = FALSE /\ UNCHANGED <<current, get>> /\ CacheOnly

Current(r) == ActiveRevisionHead(r) \/ RecordProbe(r) \/ Load(r) \/ Store(r)

\* Snapshot.Model: the id, else any model that carries the name.
Resolved(pl, name) ==
  IF name \in Models /\ pl.model[name].lc /= "absent" THEN {name}
  ELSE {m \in Models : pl.model[m].lc /= "absent" /\ name \in pl.model[m].aliases}
-----------------------------------------------------------------------------
Next ==
  \/ CreateProvider \/ DeleteProvider
  \/ \E m \in Models : DeleteModel(m) \/ \E ok \in BOOLEAN : CreateModel(m, NewModel(Tok, ok))
  \/ \E d \in Deps : DeleteDeployment(d)
       \/ \E ok \in BOOLEAN : \/ CreateDeployment(d, NewDep(Tok, ok))
                            \/ \E st \in {"active", "disabled"} : UpdateDeployment(d, [st |-> st, ver |-> Tok, ok |-> ok])
  \/ \E r \in Pairs : CreateRoute(r) \/ UpdateRoute(r) \/ DeleteRoute(r)
  \/ \E e \in Editors : \/ \E m \in Models : GetModel(e, m)
                        \/ \E as \in SUBSET Aliases : PatchModel(e, as)
                        \/ \E m \in Models : \E t \in lifecycleTransitions : SetModelLifecycle(e, m, t[2])
                        \/ UpdateModel(e)
  \/ ImportEnvCatalog \/ Reboot
  \/ \E p \in Publishers : BeginPublish(p) \/ drainCatalogForPublish(p) \/ Publish(p) \/ PublishPreview(p) \/ Rollback(p)
       \/ \E to \in DOMAIN rev : BeginRollback(p, to)
  \/ \E r \in Readers : Current(r)
  \/ ProbeExpires

Spec == Init /\ [][Next]_catvars
\* Requests keep coming, and the queries they need succeed in the end.
FairSpec == Spec /\ WF_catvars(ProbeExpires) /\ \A r \in Readers : WF_catvars(Current(r))
-----------------------------------------------------------------------------
\* A published revision loads: a snapshot can be built from it, it holds every
\* model its transaction saw, and no name of it resolves to two models.  A publish
\* that listed the tables at different moments, stopped at a full page, or let
\* an ambiguous alias through would leave every gateway on its old snapshot or
\* make resolution depend on map order.
RevisionWhole ==
  /\ \A i \in DOMAIN rev : ParseSnapshot(rev[i].pl)
  /\ \A p \in Publishers : pub[p].pc = "insert" =>
       pub[p].models = {m \in Models : pub[p].view.model[m].lc /= "absent"}
  /\ \A i \in DOMAIN rev, name \in Models \cup Aliases : Cardinality(Resolved(rev[i].pl, name)) <= 1

\* A model's lifecycle moves only along lifecycleTransitions: an edit that read the
\* row before a transition never writes the old lifecycle back.
LifecycleLegal ==
  [][\A m \in Models : \/ model'[m].lc = model[m].lc
                       \/ model[m].lc = "absent" \/ model'[m].lc = "absent"
                       \/ <<model[m].lc, model'[m].lc>> \in lifecycleTransitions]_catvars

\* An import that ends has every row of the environment in the tables, also when an
\* earlier boot stopped half way, unless an operator deleted one.
ImportComplete ==
  imp = Len(Items) /\ ~deleted => \A i \in DOMAIN Items : Exists(Items[i])

\* The process serves the active revision once publishing has stopped, whatever
\* older revision a slow request stores after a newer one.
CatchesUp == <>[](current = ActiveRevision)
=============================================================================
