----------------------------- MODULE UsageBeats -----------------------------
(***************************************************************************)
(* Heartbeats and the activity statistics (internal/handler/usage.go,      *)
(* internal/service/usage.go, internal/repo/usage_repo.go).  A client sends *)
(* batches of beats, each with an event id of its own, and sends a batch   *)
(* again when it saw no answer; a beat is stored once per user and event.  *)
(*                                                                         *)
(* A beat is an event id with its time, seconds and platform; the user's   *)
(* event table says what each id stands for.                               *)
(***************************************************************************)
EXTENDS Integers, FiniteSets, FiniteSetsExt

CONSTANTS
    Users, Events,   \* users and client event ids
    Platforms,
    Beat,            \* the beat of a user's event: [at, secs, plat]
    MaxSecs,         \* the longest a beat may claim
    MaxBeats,        \* beats in a request, at most
    Day, Month,      \* ticks in a day, days in a month
    MaxDay,          \* last day
    MaxRange,        \* days in a range, at most
    Offsets,         \* time zone offsets, in ticks
    MaxSends         \* bound on requests

VARIABLES
    events,   \* usage_events: pairs of a user and an event
    secs,     \* active_seconds of each
    out,      \* batches sent whose answer the client has not seen
    sends

beatvars == <<events, secs, out, sends>>

Init == events = {} /\ secs = [k \in Users \X Events |-> 0] /\ out = {} /\ sends = 0

\* A whole request is refused for one bad beat.
validateUsageBeats(u, B) ==
    /\ B # {} /\ Cardinality(B) <= MaxBeats
    /\ \A e \in B : Beat[u, e].secs \in 0..MaxSecs /\ Beat[u, e].plat \in Platforms

\* MUTANT: a beat sent again adds to the stored one.
Accumulate(u, B) ==
    /\ events' = events \cup ({u} \X B)
    /\ secs' = [k \in Users \X Events |->
                    IF k \in {u} \X B THEN secs[k] + Beat[k].secs ELSE secs[k]]

\* ON CONFLICT (user_id, client_event_id) DO NOTHING
InsertBeats(u, B) ==
    /\ events' = events \cup ({u} \X B)
    /\ secs' = [k \in Users \X Events |->
                    IF k \in ({u} \X B) \ events THEN Beat[k].secs ELSE secs[k]]

\* PostHeartbeat: the batch is stored; the client may not see the answer.
PostHeartbeat(u) ==
    /\ sends < MaxSends
    /\ \E B \in SUBSET Events :
        /\ validateUsageBeats(u, B)
        /\ InsertBeats(u, B)
        /\ \E lost \in BOOLEAN : out' = IF lost THEN out \cup {<<u, B>>} ELSE out
    /\ sends' = sends + 1

\* The client sends a batch again, perhaps with beats since.
Resend ==
    /\ sends < MaxSends
    /\ \E p \in out, more \in SUBSET Events :
        LET B == p[2] \cup more IN
        /\ validateUsageBeats(p[1], B)
        /\ InsertBeats(p[1], B)
        /\ out' = out \ {p}
    /\ sends' = sends + 1

Next == Resend \/ \E u \in Users : PostHeartbeat(u)

Spec == Init /\ [][Next]_beatvars

-----------------------------------------------------------------------------
(* Statistics *)

\* Events of the days from..to of a time zone.
Within(from, to, tz) == {k \in events : Beat[k].at + tz >= from * Day /\ Beat[k].at + tz < (to + 1) * Day}

UsersOf(K) == {k[1] : k \in K}
Seconds(K) == MapThenSumSet(LAMBDA k : secs[k], K)

validateUsageRange(from, to) == from <= to /\ to - from <= MaxRange

\* The window that ends on a day.
usageWindow(day, granularity) ==
    [from |-> CASE granularity = "day" -> day [] granularity = "week" -> day - 6 [] granularity = "month" -> day - 29,
     to |-> day]

CountActiveUsers(from, to, tz) == Cardinality(UsersOf(Within(from, to, tz)))

CountActiveUsersGrouped(from, to, tz) ==
    LET K == Within(from, to, tz) IN
    {[group |-> p, users |-> Cardinality(UsersOf({k \in K : Beat[k].plat = p}))] : p \in {Beat[k].plat : k \in K}}

\* ActiveStats: grouped, the total is the sum of the groups.
ActiveStats(day, granularity, grouped, tz) ==
    LET w == usageWindow(day, granularity) IN
    IF grouped THEN MapThenSumSet(LAMBDA g : g.users, CountActiveUsersGrouped(w.from, w.to, tz))
    ELSE CountActiveUsers(w.from, w.to, tz)

\* One row per period that has events; DurationStats adds the mean.
UsageDurationStats(from, to, granularity, tz) ==
    LET K == Within(from, to, tz)
        period(k) == LET d == (Beat[k].at + tz) \div Day IN IF granularity = "day" THEN d ELSE d \div Month
        of(p) == {k \in K : period(k) = p}
    IN  {[period |-> p, secs |-> Seconds(of(p)), users |-> Cardinality(UsersOf(of(p)))] : p \in {period(k) : k \in K}}
DurationStats(from, to, granularity, tz) ==
    {[row |-> r, mean |-> r.secs \div r.users] : r \in UsageDurationStats(from, to, granularity, tz)}

-----------------------------------------------------------------------------
\* However often a client sends its beats, a range's seconds are those its
\* users really spent, once each, whatever the granularity; a mean never
\* exceeds what one user's beats allow; and a grouped total counts a user
\* once per group, so it never falls below the plain one.
BeatsCountOnce ==
    \A tz \in Offsets, from, to \in 0..MaxDay :
        validateUsageRange(from, to) =>
            LET K == Within(from, to, tz)
                spent == MapThenSumSet(LAMBDA k : Beat[k].secs, K)
                total(g) == MapThenSumSet(LAMBDA r : r.row.secs, DurationStats(from, to, g, tz))
            IN  /\ total("day") = spent /\ total("month") = spent
                /\ \A r \in DurationStats(from, to, "month", tz) : r.mean <= MaxSecs * Cardinality(Events)
                /\ ActiveStats(to, "week", TRUE, tz) >= ActiveStats(to, "week", FALSE, tz)
=============================================================================
