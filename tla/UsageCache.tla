----------------------------- MODULE UsageCache -----------------------------
(***************************************************************************)
(* The response cache in front of the usage queries                        *)
(* (internal/middleware/usage_query_cache.go): equal queries of a user     *)
(* share an answer for one time bucket, concurrent misses share one run of *)
(* the handler, and a successful write moves the user's generation on, so  *)
(* that older answers are no longer found.                                 *)
(*                                                                         *)
(* One user is modelled.  The data is the number of writes committed; an   *)
(* answer is the data read and the question it was read for.               *)
(***************************************************************************)
EXTENDS Naturals, Sequences, FiniteSets, TLC

CONSTANTS
    Readers, Writers, \* query requests and write requests
    Queries,          \* query strings: values of a set-valued and of a plain parameter
    MaxBucket         \* bound on the clock, in buckets of the cache's ttl

VARIABLES
    clock,      \* the current bucket
    db,         \* writes committed
    done,       \* writes whose middleware has finished
    gen,        \* generations[user]
    entries,    \* stored answers, by key
    inflight,   \* leaders now running, by key
    lastSweep,  \* the bucket of the last sweep
    req         \* requests under way

cachevars == <<clock, db, done, gen, entries, inflight, lastSweep, req>>

\* What the handler makes of a query: the set, and the first plain value.
Meaning(q) == [agents |-> {q.agent[i] : i \in DOMAIN q.agent}, source |-> Head(q.source)]

Answer(status, data, q) == [status |-> status, data |-> data, about |-> Meaning(q)]
NoQuery == CHOOSE q \in Queries : TRUE
Idle == [pc |-> "idle", bucket |-> 0, gen |-> 0, q |-> NoQuery, floor |-> 0,
         leader |-> 0, out |-> Answer("none", 0, NoQuery)]

Init ==
    /\ clock = 1 /\ db = 0 /\ done = 0 /\ gen = 0 /\ lastSweep = 0
    /\ entries = {} /\ inflight = {}
    /\ req = [r \in Readers \cup Writers |-> Idle]

\* MUTANT: the values of every parameter are sorted.
SortEverything(q) ==
    [agent |-> SortSeq(q.agent, LAMBDA a, b : a < b), source |-> SortSeq(q.source, LAMBDA a, b : a < b)]

\* Only set-valued parameters lose the order of their values.
canonicalQuery(q) ==
    [agent |-> SortSeq(q.agent, LAMBDA a, b : a < b), source |-> q.source]

Key(b, g, q) == [bucket |-> b, gen |-> g, params |-> canonicalQuery(q)]

\* The first operation of a bucket drops older answers, and the generation
\* of a user none of whose answers is left.
Swept(b) == IF lastSweep = b THEN entries ELSE {e \in entries : e.key.bucket >= b}
SweptGen(b) == IF lastSweep # b /\ Swept(b) = {} THEN 0 ELSE gen
sweepLocked(b) == lastSweep' = b

-----------------------------------------------------------------------------
(* Queries *)

\* Handle: the bucket is taken from the clock before the lock.
Arrive(r) ==
    /\ req[r].pc = "idle"
    /\ \E q \in Queries :
        req' = [req EXCEPT ![r] = [Idle EXCEPT !.pc = "lookup", !.bucket = clock, !.q = q,
                                               !.floor = done]]
    /\ UNCHANGED <<clock, db, done, gen, entries, inflight, lastSweep>>

\* Under the lock: a stored answer, a leader to wait for, or the lead.
Handle(r) ==
    LET b == req[r].bucket
        key == Key(b, SweptGen(b), req[r].q)
        hit == {e \in Swept(b) : e.key = key}
        flight == {f \in inflight : f.key = key}
        step(pc, leader, out) ==
            req' = [req EXCEPT ![r].pc = pc, ![r].gen = SweptGen(b), ![r].leader = leader, ![r].out = out]
    IN  /\ req[r].pc = "lookup"
        /\ sweepLocked(b)
        /\ entries' = Swept(b)
        /\ gen' = SweptGen(b)
        /\ \/ \E e \in hit : step("done", 0, e.answer) /\ UNCHANGED inflight
           \/ /\ hit = {}
              /\ \E f \in flight : step("wait", f.leader, req[r].out) /\ UNCHANGED inflight
           \/ /\ hit = {} /\ flight = {}
              /\ step("run", r, req[r].out)
              /\ inflight' = inflight \cup {[key |-> key, leader |-> r]}
        /\ UNCHANGED <<clock, db, done>>

\* runChain: the handler reads the data, answers an error, or panics.
runChain(r) ==
    /\ req[r].pc = "run"
    /\ \E s \in {"ok", "error", "panic"} :
        req' = [req EXCEPT ![r].pc = "store", ![r].out = Answer(s, db, req[r].q)]
    /\ UNCHANGED <<clock, db, done, gen, entries, inflight, lastSweep>>

\* The answer is stored only if it is a success and no write has moved the
\* generation on.
Stored(r) ==
    LET key == Key(req[r].bucket, req[r].gen, req[r].q) IN
    IF req[r].out.status = "ok" /\ req[r].gen = gen
    THEN {e \in entries : e.key # key} \cup {[key |-> key, answer |-> req[r].out]}
    ELSE entries

\* MUTANT: a panic unwinds past the clean-up, and the flight never ends.
LeaveOnPanic(r) ==
    /\ req[r].pc = "store"
    /\ req[r].out.status # "panic"
    /\ entries' = Stored(r)
    /\ inflight' = {f \in inflight : f.leader # r}
    /\ req' = [req EXCEPT ![r].pc = "done"]
    /\ UNCHANGED <<clock, db, done, gen, lastSweep>>

\* executeLeader: whatever the handler did, the flight ends and its waiters
\* are woken.
executeLeader(r) ==
    /\ req[r].pc = "store"
    /\ entries' = Stored(r)
    /\ inflight' = {f \in inflight : f.leader # r}
    /\ req' = [req EXCEPT ![r].pc = "done"]
    /\ UNCHANGED <<clock, db, done, gen, lastSweep>>

\* A waiter shares its leader's answer or failure; a client that went away
\* stops waiting, a server deadline does not.
awaitLeader(r) ==
    /\ req[r].pc = "wait"
    /\ \/ /\ req[req[r].leader].pc = "done"
          /\ req' = [req EXCEPT ![r].pc = "done", ![r].out = req[req[r].leader].out]
       \/ req' = [req EXCEPT ![r].pc = "cancelled"]
    /\ UNCHANGED <<clock, db, done, gen, entries, inflight, lastSweep>>

-----------------------------------------------------------------------------
(* Writes *)

\* The write handler commits and answers 2xx.
WriteCommits(w) ==
    /\ req[w].pc = "idle"
    /\ db' = db + 1
    /\ req' = [req EXCEPT ![w].pc = "written"]
    /\ UNCHANGED <<clock, done, gen, entries, inflight, lastSweep>>

\* After it, the bucket is read from the clock ...
WriteBucket(w) ==
    /\ req[w].pc = "written"
    /\ req' = [req EXCEPT ![w].pc = "invalidate", ![w].bucket = clock]
    /\ UNCHANGED <<clock, db, done, gen, entries, inflight, lastSweep>>

\* ... and under the lock the generation moves on.
InvalidateOnSuccess(w) ==
    LET b == req[w].bucket IN
    /\ req[w].pc = "invalidate"
    /\ sweepLocked(b)
    /\ entries' = Swept(b)
    /\ gen' = SweptGen(b) + 1
    /\ req' = [req EXCEPT ![w].pc = "done"]
    /\ done' = db
    /\ UNCHANGED <<clock, db, inflight>>

Tick ==
    /\ clock < MaxBucket
    /\ clock' = clock + 1
    /\ UNCHANGED <<db, done, gen, entries, inflight, lastSweep, req>>

-----------------------------------------------------------------------------
Serve(r) == Handle(r) \/ runChain(r) \/ executeLeader(r)
            \/ (req[r].pc = "wait" /\ req[req[r].leader].pc = "done" /\ awaitLeader(r))

Next ==
    \/ Tick
    \/ \E r \in Readers : Arrive(r) \/ Handle(r) \/ runChain(r) \/ executeLeader(r) \/ awaitLeader(r)
    \/ \E w \in Writers : WriteCommits(w) \/ WriteBucket(w) \/ InvalidateOnSuccess(w)

Spec == Init /\ [][Next]_cachevars

\* The goroutine of a request goes on.
FairSpec == Spec /\ \A r \in Readers : WF_cachevars(Serve(r))

-----------------------------------------------------------------------------
\* Whoever is answered is answered for the query it asked: two query
\* strings share an answer only if the handler reads them the same way.
AnswersItsQuery ==
    \A r \in Readers : (req[r].pc = "done" /\ req[r].out.status = "ok") => req[r].out.about = Meaning(req[r].q)

\* Nobody waits for ever on a leader, not even on one that panicked.
WaitersAnswered == \A r \in Readers : (req[r].pc = "wait") ~> (req[r].pc \in {"done", "cancelled"})

\* Every query is answered, from a run of the handler for the question it asked, even when
\* the run it waited for panicked.
QueriesAnswered == []AnswersItsQuery /\ WaitersAnswered

\* A query that arrives after a write has been answered sees that write: an
\* answer read before it is not found again.
WritesAreSeen ==
    \A r \in Readers : (req[r].pc = "done" /\ req[r].out.status = "ok") => req[r].out.data >= req[r].floor
=============================================================================
