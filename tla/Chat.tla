------------------------------- MODULE Chat -------------------------------
(***************************************************************************)
(* The built-in chat of the apps, POST /chat (internal/handler/chat.go).   *)
(*                                                                         *)
(* With the migration switch off, ChatService (internal/service/chat.go)   *)
(* takes one of the user's stream slots, checks the plan, and opens an     *)
(* upstream stream with a key of the provider's pool                       *)
(* (internal/llm/keypool.go), trying a second key once.  The slot is given *)
(* back by whoever comes first: the body's Close or a goroutine that       *)
(* watches the request's context.  With the switch on, the facade          *)
(* (internal/service/chat_facade.go) reads the stream from the inference   *)
(* gateway, which meters it; the handler is the same.                      *)
(*                                                                         *)
(* A request's context is done when the client leaves, after the upstream  *)
(* timeout, or when the body is closed.                                    *)
(***************************************************************************)
EXTENDS Naturals, FiniteSets, FiniteSetsExt

CONSTANTS
    Calls,       \* requests
    Users,
    Owner,       \* the user of a call
    Keys,        \* size of the provider's key pool
    Limit,       \* streams of a user at once (maxStreamsPerUser)
    Cooldown,    \* KeyCooldown
    Allowed,     \* what checkAccess and the image check may answer
    MaxNow, MaxPieces

VARIABLES
    facade,   \* INFERENCE_KAYA_CHAT_GATEWAY
    now,
    slots,    \* user -> streams counted
    pool,     \* next: where the round robin continues; cooled: key -> until
    call,     \* a request
    rows      \* llm_usage_events: <<call, status, usage>>

chatvars == <<facade, now, slots, pool, call, rows>>

\* pc; tries left; the key in use; whether the slot's release has run, the
\* context is done and the client is there; upstream: pieces read, the last
\* usage sent and metered, [DONE] sent, how the body ended; what the client saw last.
NoCall == [pc |-> "idle", tries |-> 0, key |-> 0, held |-> FALSE, done |-> FALSE, there |-> TRUE,
           n |-> 0, spent |-> 0, metered |-> 0, marker |-> FALSE, end |-> "no", shown |-> "no"]

Init ==
    /\ facade \in BOOLEAN
    /\ now = 0
    /\ slots = [u \in Users |-> 0]
    /\ pool = [next |-> 0, cooled |-> [k \in 0..(Keys - 1) |-> 0]]
    /\ call = [c \in Calls |-> NoCall]
    /\ rows = {}

Set(c, r) == call' = [call EXCEPT ![c] = r]

-----------------------------------------------------------------------------
(* Stream slots *)

\* A request over the limit is refused without waiting.
acquireStreamSlot(c) ==
    /\ slots[Owner[c]] < Limit
    /\ slots' = [slots EXCEPT ![Owner[c]] = @ + 1]

\* MUTANT: release without the sync.Once.
ReleaseEachTime(c) ==
    slots' = [slots EXCEPT ![Owner[c]] = IF @ > 1 THEN @ - 1 ELSE 0]

\* The release of a slot runs once.
Release(c) ==
    slots' = [slots EXCEPT ![Owner[c]] = IF ~call[c].held THEN @ ELSE IF @ > 1 THEN @ - 1 ELSE 0]

\* The handler has checked the request; the facade has no slots of its own.
StreamChat(c) ==
    /\ call[c].pc = "idle"
    /\ \/ /\ ~facade /\ acquireStreamSlot(c)
          /\ Set(c, [NoCall EXCEPT !.pc = "access", !.held = TRUE, !.tries = IF Keys > 1 THEN 2 ELSE 1])
       \/ /\ ~facade /\ slots[Owner[c]] >= Limit
          /\ Set(c, [NoCall EXCEPT !.pc = "over", !.shown = "limited"]) /\ UNCHANGED slots
       \/ /\ facade /\ Set(c, [NoCall EXCEPT !.pc = "access"]) /\ UNCHANGED slots
    /\ UNCHANGED <<facade, now, pool, rows>>

\* An error before the stream gives the slot back (the deferred release).
Refuse(c, why) == Release(c) /\ Set(c, [call[c] EXCEPT !.pc = "over", !.held = FALSE, !.shown = why])

\* The plan's models, the images, and in the facade the gate and the gateway.
checkAccess(c) ==
    /\ call[c].pc = "access"
    /\ \E a \in Allowed :
        IF a = "yes" THEN Set(c, [call[c] EXCEPT !.pc = IF facade THEN "relay" ELSE "dial"]) /\ UNCHANGED slots
        ELSE Refuse(c, a)
    /\ UNCHANGED <<facade, now, pool, rows>>

-----------------------------------------------------------------------------
(* Keys *)

\* The first key in turn that is not cooling, else the one that is soonest.
Acquire ==
    LET turn == [i \in 0..(Keys - 1) |-> (pool.next + i) % Keys]
        free == {i \in DOMAIN turn : pool.cooled[turn[i]] <= now}
        soonest == {i \in DOMAIN turn : \A j \in DOMAIN turn : pool.cooled[turn[i]] <= pool.cooled[turn[j]]}
    IN  turn[IF free # {} THEN Min(free) ELSE Min(soonest)]

\* A 429 or 5xx cools the key and leaves the one retry; any other answer is
\* final.
DoUpstream(c) ==
    /\ call[c].pc = "dial"
    /\ LET k == Acquire IN
       \/ /\ Set(c, [call[c] EXCEPT !.pc = "relay", !.key = k])
          /\ pool' = [pool EXCEPT !.next = k + 1] /\ UNCHANGED slots
       \/ /\ pool' = [next |-> k + 1, cooled |-> [pool.cooled EXCEPT ![k] = now + Cooldown]]
          /\ \/ /\ call[c].tries > 1
                /\ Set(c, [call[c] EXCEPT !.tries = @ - 1]) /\ UNCHANGED slots
             \/ /\ call[c].tries = 1 /\ Refuse(c, "busy")
       \/ /\ Refuse(c, "rejected")
          /\ pool' = [pool EXCEPT !.next = k + 1]
    /\ UNCHANGED <<facade, now, rows>>

-----------------------------------------------------------------------------
(* The relay *)

\* The goroutine that waits for the context gives the slot back.
Watcher(c) ==
    /\ ~facade /\ call[c].pc \in {"relay", "close", "over"} /\ call[c].done
    /\ Release(c)
    /\ Set(c, [call[c] EXCEPT !.held = FALSE])
    /\ UNCHANGED <<facade, now, pool, rows>>

\* The client leaves, or the upstream timeout passes.
ContextDone(c) ==
    /\ call[c].pc = "relay" /\ ~call[c].done
    /\ \E there \in BOOLEAN : Set(c, [call[c] EXCEPT !.done = TRUE, !.there = there])
    /\ UNCHANGED <<facade, now, slots, pool, rows>>

\* MUTANT: the tracker is fed after the write.
FeedWritten(c, piece) == IF piece = "usage" /\ call[c].there THEN call[c].n + 1 ELSE call[c].metered

\* The tracker keeps the last usage, and is fed before the client is written to.
Feed(c, piece) == IF piece = "usage" THEN call[c].n + 1 ELSE call[c].metered

\* A piece of the stream: content, a usage count or [DONE].  When the client
\* is gone the relay stops after metering it.
Relay(c) ==
    /\ call[c].pc = "relay" /\ call[c].n < MaxPieces /\ ~call[c].marker
    /\ \E piece \in {"text", "usage", "done"} :
        LET n == call[c].n + 1
            r == [call[c] EXCEPT !.n = n,
                    !.spent = IF piece = "usage" THEN n ELSE @, !.metered = Feed(c, piece),
                    !.marker = piece = "done",
                    !.shown = IF call[c].there /\ piece = "done" THEN "done" ELSE @,
                    !.pc = IF call[c].there THEN "relay" ELSE "close",
                    !.end = IF call[c].there THEN @ ELSE "disconnected"]
        IN  Set(c, r)
    /\ UNCHANGED <<facade, now, slots, pool, rows>>

\* MUTANT: the end of the bytes is the end of the answer.
AnyEnd(c, how) == how = "error"

\* The facade's body turns an end without [DONE] into a break.
kayaFacadeBody(c, how) == how = "error" \/ (facade /\ ~call[c].marker)

\* The upstream body ends, or its read fails (always once the context is
\* done); a break is told to the client in the stream.
RelayEnds(c) ==
    /\ call[c].pc = "relay"
    /\ \E how \in {"eof", "error"} :
        /\ call[c].done => how = "error"
        /\ LET broke == kayaFacadeBody(c, how) IN
           Set(c, [call[c] EXCEPT !.pc = "close", !.end = IF broke THEN "upstream_error" ELSE "ok",
                                  !.shown = IF broke /\ call[c].there THEN "broke" ELSE @])
    /\ UNCHANGED <<facade, now, slots, pool, rows>>

\* RecordUsage, on a context of its own; the facade's is empty because the
\* gateway has settled.  Then the body is closed.
StreamOver(c) ==
    /\ call[c].pc = "close"
    /\ rows' = IF facade THEN rows ELSE rows \cup {<<c, call[c].end, call[c].metered>>}
    /\ IF facade THEN UNCHANGED slots ELSE Release(c)
    /\ Set(c, [call[c] EXCEPT !.pc = "over", !.held = FALSE, !.done = TRUE])
    /\ UNCHANGED <<facade, now, pool>>

Tick ==
    /\ now < MaxNow
    /\ now' = now + 1
    /\ UNCHANGED <<facade, slots, pool, call, rows>>

Next ==
    \/ \E c \in Calls :
        \/ StreamChat(c) \/ checkAccess(c) \/ DoUpstream(c) \/ Watcher(c) \/ ContextDone(c)
        \/ Relay(c) \/ RelayEnds(c) \/ StreamOver(c)
    \/ Tick

Spec == Init /\ [][Next]_chatvars

-----------------------------------------------------------------------------
\* The count of a user's streams is the number of streams that run, within
\* the limit, although a slot may be given back by the body's Close, by the
\* watcher and by a failed start.
SlotsAreStreams ==
    \A u \in Users :
        /\ slots[u] <= Limit
        /\ slots[u] = Cardinality({c \in Calls : Owner[c] = u /\ call[c].held})

\* What the provider reported is recorded for every stream that was opened,
\* once, however it ended and although the client may be gone.
SpendIsRecorded ==
    \A c \in Calls :
        call[c].pc = "over" /\ call[c].end # "no" /\ ~facade =>
            {w \in rows : w[1] = c} = {<<c, call[c].end, call[c].spent>>}

\* Through the gateway, a client that stays is told of every answer that
\* broke off: one without [DONE] never looks complete.
BreakIsShown ==
    \A c \in Calls :
        facade /\ call[c].pc = "over" /\ call[c].end # "no" /\ call[c].there => call[c].shown \in {"done", "broke"}

\* Every stream is accounted for: its slot, the spend the provider reported, and the end
\* its client is shown.
StreamsAccounted == SlotsAreStreams /\ SpendIsRecorded /\ BreakIsShown
=============================================================================
