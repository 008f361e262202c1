----------------------------- MODULE UsageTokens ----------------------------
(***************************************************************************)
(* The token statistics devices upload (internal/repo/usage_token_repo.go, *)
(* internal/service/usage_token_service.go, usage_token_retention.go,      *)
(* internal/handler/usage_tokens.go): batches of buckets are upserted per  *)
(* device, a user may delete everything, a device's share or a window of   *)
(* days, a deletion leaves a watermark or a tombstone so that a device     *)
(* that uploads again does not bring the data back, and a sweeper drops    *)
(* what is past the retention.                                             *)
(*                                                                         *)
(* One user is modelled.  A bucket is a device and an aligned start; the   *)
(* remaining key columns only multiply buckets and are left out.  Time is  *)
(* counted in ticks, Hour of them to a bucket and Day of them to a day.    *)
(***************************************************************************)
EXTENDS Integers, FiniteSets, FiniteSetsExt

CONSTANTS
    Clients,       \* concurrent requests
    Devices,       \* device ids
    Tokens,        \* token counts a bucket may hold
    Labels,        \* device labels, 0 for none
    MaxBatch,      \* buckets of an upload, at most
    Hour, Day,     \* ticks per bucket and per day
    Retention,     \* ticks a bucket is kept
    Backfill,      \* ticks a backfill reaches back
    MaxWindow,     \* days in a window, at most
    MaxItems,      \* items of a breakdown, at most
    MaxRows,       \* rows of an export, at most
    Offsets,       \* offsets of the users' time zones, in ticks
    BatchSize,     \* rows one sweep statement deletes
    MinNow, MaxNow, MaxOps \* bounds on the clock and on requests

VARIABLES
    now,
    rows,     \* usage_token_buckets: tokens by device and start, 0 for no row
    dev,      \* usage_devices
    cleared,  \* usage_token_watermarks.cleared_before
    tombs,    \* usage_token_tombstones, for one device or (0) for all
    lock,     \* the request whose transaction holds the advisory lock, 0 for none
    op,       \* requests under way
    ops,      \* requests made
    sweep,    \* the retention sweeper
    gone      \* buckets answered deletions declared deleted

tokvars == <<now, rows, dev, cleared, tombs, lock, op, ops, sweep, gone>>

Starts == {t \in 0..MaxNow + Hour : t % Hour = 0}
Days == 0..(MaxNow \div Day)
NoOp == [pc |-> "idle", dev |-> 0, start |-> {}, tok |-> 0, from |-> 0, to |-> 0]

Init ==
    /\ now = MinNow
    /\ rows = [d \in Devices |-> [s \in Starts |-> 0]]
    /\ dev = [d \in Devices |-> [exists |-> FALSE, revoked |-> FALSE, cleared |-> 0, label |-> 0]]
    /\ cleared = 0 /\ tombs = {} /\ lock = 0 /\ ops = 0 /\ gone = {}
    /\ op = [c \in Clients |-> NoOp]
    /\ sweep = [pc |-> "idle", cutoff |-> 0]

-----------------------------------------------------------------------------
(* Uploads *)

\* Not more than a bucket ahead of the server, and not before the limit.
validateBucket(s, oldest) == s <= now + Hour /\ s >= now - oldest

\* ingest: a batch is refused as a whole, so what goes on is valid.
ingest(c) ==
    /\ op[c].pc = "idle" /\ ops < MaxOps
    /\ \E d \in Devices, S \in SUBSET Starts, t \in Tokens, oldest \in {Retention, Backfill} :
        /\ S # {} /\ Cardinality(S) <= MaxBatch
        /\ \A s \in S : validateBucket(s, IF oldest < Retention THEN oldest ELSE Retention)
        /\ op' = [op EXCEPT ![c] = [NoOp EXCEPT !.pc = "ingest", !.dev = d, !.start = S, !.tok = t]]
    /\ ops' = ops + 1
    /\ UNCHANGED <<now, rows, dev, cleared, tombs, lock, sweep, gone>>

\* MUTANT: transactions of one user are not serialised.
NoSerialisation == TRUE

\* pg_advisory_xact_lock on the user: held to the end of the transaction.
usageTokenAdvisoryLock == lock = 0

usageBucketCleared(d, s) ==
    \/ s < cleared
    \/ s < dev[d].cleared
    \/ \E t \in tombs : t.dev \in {0, d} /\ s >= t.from /\ s <= t.to

\* IngestBuckets up to the filter: a revoked device is refused, buckets
\* below a watermark or within a tombstone are discarded.
IngestRead(c) ==
    /\ op[c].pc = "ingest"
    /\ usageTokenAdvisoryLock
    /\ IF dev[op[c].dev].revoked
       THEN op' = [op EXCEPT ![c] = NoOp] /\ UNCHANGED lock
       ELSE /\ lock' = c
            /\ op' = [op EXCEPT ![c].pc = "write",
                                ![c].start = {s \in @ : ~usageBucketCleared(op[c].dev, s)}]
    /\ UNCHANGED <<now, rows, dev, cleared, tombs, ops, sweep, gone>>

\* The upsert replaces the counts of a bucket already stored.
usageTokenUpsertTx(d, S, t) ==
    rows' = [rows EXCEPT ![d] = [s \in Starts |-> IF s \in S THEN t ELSE @[s]]]

\* IngestBuckets from there: the upsert and the commit.
IngestWrite(c) ==
    LET d == op[c].dev IN
    /\ op[c].pc = "write"
    /\ usageTokenUpsertTx(d, op[c].start, op[c].tok)
    /\ dev' = [dev EXCEPT ![d].exists = TRUE]
    /\ lock' = 0
    /\ op' = [op EXCEPT ![c] = NoOp]
    /\ UNCHANGED <<now, cleared, tombs, ops, sweep, gone>>

\* A statement fails, or the client goes away: nothing was stored.
IngestFails(c) ==
    /\ op[c].pc = "write"
    /\ lock' = 0
    /\ op' = [op EXCEPT ![c] = NoOp]
    /\ UNCHANGED <<now, rows, dev, cleared, tombs, ops, sweep, gone>>

-----------------------------------------------------------------------------
(* Deletions *)

CeilToBucket(t) == IF t % Hour = 0 THEN t ELSE (t \div Hour) * Hour + Hour

Request(c, r) ==
    /\ op[c].pc = "idle" /\ ops < MaxOps
    /\ op' = [op EXCEPT ![c] = r]
    /\ ops' = ops + 1
    /\ UNCHANGED <<now, rows, dev, cleared, tombs, lock, sweep, gone>>

\* Delete, of everything or of a device: up to the end of the current bucket.
\* (The time of the request is kept to say what was deleted.)
Delete(c) ==
    \E d \in Devices \cup {0} :
        Request(c, [NoOp EXCEPT !.pc = IF d = 0 THEN "all" ELSE "device", !.dev = d,
                               !.from = now, !.to = CeilToBucket(now)])

\* Delete, of a window of days: not beyond the current bucket.
DeleteDays(c) ==
    \E d \in Devices \cup {0}, f, t \in Days :
        /\ f <= t /\ t - f < MaxWindow
        /\ f * Day <= now
        /\ Request(c, [NoOp EXCEPT !.pc = "window", !.dev = d, !.from = f * Day,
                                   !.to = Min({t * Day + Day - Hour, (now \div Hour) * Hour})])

\* The rows of devices D that start within S go.
Without(D, S) == [d \in Devices |-> [s \in Starts |-> IF d \in D /\ s \in S THEN 0 ELSE rows[d][s]]]

Finish(c) ==
    /\ op' = [op EXCEPT ![c] = NoOp]
    /\ UNCHANGED <<now, lock, ops, sweep>>

DeleteAll(c) ==
    /\ op[c].pc = "all"
    /\ usageTokenAdvisoryLock
    /\ rows' = Without(Devices, Starts)
    /\ cleared' = Max({cleared, op[c].to})
    /\ gone' = gone \cup {<<d, s>> : d \in Devices, s \in {t \in Starts : t < op[c].from}}
    /\ Finish(c)
    /\ UNCHANGED <<dev, tombs>>

\* An unknown device is an error that changes nothing.
DeleteByDevice(c) ==
    LET d == op[c].dev IN
    /\ op[c].pc = "device"
    /\ usageTokenAdvisoryLock
    /\ IF dev[d].exists
       THEN /\ dev' = [dev EXCEPT ![d].cleared = Max({@, op[c].to})]
            /\ rows' = Without({d}, Starts)
            /\ gone' = gone \cup {<<d, s>> : s \in {t \in Starts : t < op[c].from}}
       ELSE UNCHANGED <<dev, rows, gone>>
    /\ Finish(c)
    /\ UNCHANGED <<cleared, tombs>>

\* The closed interval is deleted, and its tombstone takes in those of the
\* same scope that it meets.
DeleteWindow(c) ==
    LET d == op[c].dev
        D == IF d = 0 THEN Devices ELSE {d}
        overlaps == {t \in tombs : t.dev = d /\ t.from <= op[c].to /\ t.to >= op[c].from}
        from == Min({op[c].from} \cup {t.from : t \in overlaps})
        to == Max({op[c].to} \cup {t.to : t \in overlaps})
        S == {s \in Starts : s >= op[c].from /\ s <= op[c].to}
    IN  /\ op[c].pc = "window"
        /\ usageTokenAdvisoryLock
        /\ rows' = Without(D, S)
        /\ tombs' = (tombs \ overlaps) \cup {[dev |-> d, from |-> from, to |-> to]}
        /\ gone' = gone \cup (D \X S)
        /\ Finish(c)
        /\ UNCHANGED <<dev, cleared>>

-----------------------------------------------------------------------------
(* Devices *)

\* UpsertDevice: a field not given keeps its value; a revoked device is
\* refused.  It takes no advisory lock.
UpsertDevice ==
    /\ ops < MaxOps
    /\ \E d \in Devices, l \in Labels :
        /\ ~dev[d].revoked
        /\ dev' = [dev EXCEPT ![d].exists = TRUE, ![d].label = IF l = 0 THEN @ ELSE l]
    /\ ops' = ops + 1
    /\ UNCHANGED <<now, rows, cleared, tombs, lock, op, sweep, gone>>

UpdateDeviceLabel ==
    /\ ops < MaxOps
    /\ \E d \in Devices, l \in Labels :
        /\ dev[d].exists
        /\ dev' = [dev EXCEPT ![d].label = l]
    /\ ops' = ops + 1
    /\ UNCHANGED <<now, rows, cleared, tombs, lock, op, sweep, gone>>

\* RevokeDevice: for good, with or without the device's buckets.
RevokeRequest(c) ==
    \E d \in Devices, purge \in BOOLEAN :
        Request(c, [NoOp EXCEPT !.pc = IF purge THEN "purge" ELSE "revoke", !.dev = d])

RevokeDevice(c) ==
    LET d == op[c].dev IN
    /\ op[c].pc \in {"purge", "revoke"}
    /\ usageTokenAdvisoryLock
    /\ IF dev[d].exists
       THEN /\ dev' = [dev EXCEPT ![d].revoked = TRUE]
            /\ rows' = IF op[c].pc = "purge" THEN Without({d}, Starts) ELSE rows
            /\ gone' = IF op[c].pc = "purge" THEN gone \cup ({d} \X Starts) ELSE gone
       ELSE UNCHANGED <<dev, rows, gone>>
    /\ Finish(c)
    /\ UNCHANGED <<cleared, tombs>>

-----------------------------------------------------------------------------
(* Retention *)

\* tick: the limit is fixed when a round starts.
SweepStart ==
    /\ sweep.pc = "idle"
    /\ now > Retention
    /\ sweep' = [pc |-> "buckets", cutoff |-> now - Retention]
    /\ UNCHANGED <<now, rows, dev, cleared, tombs, lock, op, ops, gone>>

\* One statement of sweepBatched deletes a batch of what is too old; fewer
\* than a batch and it was the last.
sweepBatched(old, B) == B \subseteq old /\ Cardinality(B) = Min({BatchSize, Cardinality(old)})
LastBatch(B) == Cardinality(B) < BatchSize

SweepBuckets ==
    LET old == {<<d, s>> \in Devices \X Starts : rows[d][s] > 0 /\ s < sweep.cutoff} IN
    /\ sweep.pc = "buckets"
    /\ \E B \in SUBSET old :
        /\ sweepBatched(old, B)
        /\ rows' = [d \in Devices |-> [s \in Starts |-> IF <<d, s>> \in B THEN 0 ELSE rows[d][s]]]
        /\ sweep' = IF LastBatch(B) THEN [sweep EXCEPT !.pc = "tombstones"] ELSE sweep
    /\ UNCHANGED <<now, dev, cleared, tombs, lock, op, ops, gone>>

TombExpired(t, cutoff) == t.to < cutoff

SweepTombstones ==
    LET old == {t \in tombs : TombExpired(t, sweep.cutoff)} IN
    /\ sweep.pc = "tombstones"
    /\ \E B \in SUBSET old :
        /\ sweepBatched(old, B)
        /\ tombs' = tombs \ B
        /\ sweep' = IF LastBatch(B) THEN [pc |-> "idle", cutoff |-> 0] ELSE sweep
    /\ UNCHANGED <<now, rows, dev, cleared, lock, op, ops, gone>>

\* A round ends early: an error, its deadline, or the server stopping.
SweepStops ==
    /\ sweep.pc # "idle"
    /\ sweep' = [pc |-> "idle", cutoff |-> 0]
    /\ UNCHANGED <<now, rows, dev, cleared, tombs, lock, op, ops, gone>>

Tick ==
    /\ now < MaxNow
    /\ now' = now + 1
    /\ UNCHANGED <<rows, dev, cleared, tombs, lock, op, ops, sweep, gone>>

-----------------------------------------------------------------------------
Next ==
    \/ Tick \/ UpsertDevice \/ UpdateDeviceLabel
    \/ SweepStart \/ SweepBuckets \/ SweepTombstones \/ SweepStops
    \/ \E c \in Clients :
        \/ ingest(c) \/ IngestRead(c) \/ IngestWrite(c) \/ IngestFails(c)
        \/ Delete(c) \/ DeleteDays(c) \/ DeleteAll(c) \/ DeleteByDevice(c) \/ DeleteWindow(c)
        \/ RevokeRequest(c) \/ RevokeDevice(c)

Spec == Init /\ [][Next]_tokvars

-----------------------------------------------------------------------------
(* Queries *)

\* The rows of a half-open interval of ticks; a revoked device has none.
usageTokenBaseWhere(from, to) ==
    {<<d, s>> \in Devices \X Starts : rows[d][s] > 0 /\ ~dev[d].revoked /\ s >= from /\ s < to}

TokensOf(R) == MapThenSumSet(LAMBDA r : rows[r[1]][r[2]], R)

\* Windows the server accepts, both ends included.
ParseUsageTokenWindow == {w \in Days \X Days : w[1] <= w[2] /\ w[2] - w[1] < MaxWindow}
InWindow(w) == usageTokenBaseWhere(w[1] * Day, (w[2] + 1) * Day)

Summary(w) ==
    LET R == InWindow(w) IN
    [tokens |-> TokensOf(R), devices |-> Cardinality({r[1] : r \in R}),
     days |-> Cardinality({r[2] \div Day : r \in R}),
     first |-> IF R = {} THEN 0 ELSE Min({r[2] : r \in R}),
     last |-> IF R = {} THEN 0 ELSE Max({r[2] : r \in R})]

\* One item per device, the largest first; one more than asked for is
\* fetched to tell whether some are left out.
BreakdownItems(w) ==
    LET R == InWindow(w) IN {[key |-> d, tokens |-> TokensOf({r \in R : r[1] = d})] : d \in {r[1] : r \in R}}
Before(a, b) == a.tokens > b.tokens \/ (a.tokens = b.tokens /\ a.key < b.key)
FirstOf(I, n) == {i \in I : Cardinality({j \in I : Before(j, i)}) < n}
Breakdown(w, limit) ==
    LET fetched == FirstOf(BreakdownItems(w), limit + 1) IN
    [items |-> FirstOf(fetched, limit), truncated |-> Cardinality(fetched) > limit]

\* MUTANT: the days of the window are taken as UTC days.
UTCDays(w, tz) == <<w[1] * Day, (w[2] + 1) * Day>>

\* Days of the window in the user's time zone, as ticks.
LocalDays(w, tz) == <<w[1] * Day - tz, (w[2] + 1) * Day - tz>>

\* One item per local day.
Timeseries(w, tz) ==
    LET i == LocalDays(w, tz)
        R == usageTokenBaseWhere(i[1], i[2])
        day(r) == (r[2] + tz) \div Day
    IN  {[day |-> n, tokens |-> TokensOf({r \in R : day(r) = n})] : n \in {day(r) : r \in R}}

\* The first rows in order, as many as the cap lets through.
ExportRows(R) ==
    LET earlier(a, b) == a[2] < b[2] \/ (a[2] = b[2] /\ a[1] < b[1])
    IN  {r \in R : Cardinality({q \in R : earlier(q, r)}) < MaxRows}

\* Too many rows are an error unless the caller allowed a part of them.
Export(w, allow) ==
    LET R == InWindow(w) IN
    IF Cardinality(R) > MaxRows /\ ~allow
    THEN [ok |-> FALSE, rows |-> {}, truncated |-> FALSE]
    ELSE [ok |-> TRUE, rows |-> ExportRows(R), truncated |-> Cardinality(R) > Cardinality(ExportRows(R))]

\* Devices with the first and last bucket of each, and over those not revoked.
CoverageDevices ==
    [d \in {e \in Devices : dev[e].exists} |->
        LET S == {s \in Starts : rows[d][s] > 0} IN
        [revoked |-> dev[d].revoked, has |-> S # {},
         first |-> IF S = {} THEN 0 ELSE Min(S), last |-> IF S = {} THEN 0 ELSE Max(S)]]
Coverage ==
    LET live == {d \in DOMAIN CoverageDevices : ~CoverageDevices[d].revoked /\ CoverageDevices[d].has} IN
    [first |-> IF live = {} THEN 0 ELSE Min({CoverageDevices[d].first : d \in live}),
     last |-> IF live = {} THEN 0 ELSE Max({CoverageDevices[d].last : d \in live})]

-----------------------------------------------------------------------------
\* What an answered deletion declared deleted is not stored again, however
\* uploads, deletions, a revocation and the sweeper interleave; only a
\* bucket already past the retention may slip in behind its tombstone.
NoResurrection ==
    \A b \in gone : rows[b[1]][b[2]] > 0 => b[2] < now - Retention

\* The views agree on every accepted window: a complete breakdown and a
\* complete export add up to the summary, a series adds up to the rows of
\* the user's own days, nothing is left out silently, and the coverage
\* spans what the summary of everything spans.
ViewsAgree ==
    LET all == <<0, MaxNow \div Day>> IN
    /\ \A w \in ParseUsageTokenWindow :
        LET b == Breakdown(w, MaxItems)
            e == Export(w, TRUE)
            total == Summary(w).tokens
        IN  /\ MapThenSumSet(LAMBDA i : i.tokens, b.items) <= total
            /\ ~b.truncated <=> MapThenSumSet(LAMBDA i : i.tokens, b.items) = total
            /\ ~e.truncated <=> TokensOf(e.rows) = total
            /\ Export(w, FALSE).ok => ~Export(w, FALSE).truncated
            /\ \A tz \in Offsets :
                /\ \A i \in Timeseries(w, tz) : i.day \in w[1]..w[2]
                /\ MapThenSumSet(LAMBDA i : i.tokens, Timeseries(w, tz))
                    = TokensOf({r \in usageTokenBaseWhere(0, MaxNow + 2 * Hour) : (r[2] + tz) \div Day \in w[1]..w[2]})
    /\ usageTokenBaseWhere(0, (all[2] + 1) * Day) = usageTokenBaseWhere(0, MaxNow + 2 * Hour)
        => Coverage.first = Summary(all).first /\ Coverage.last = Summary(all).last
=============================================================================
