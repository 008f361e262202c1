------------------------------ MODULE MCServing -----------------------------
(***************************************************************************)
(* The serving side: concurrency slots (Dispatch), upstream credentials    *)
(* (Credentials), the account pool (Conversations), translated streams     *)
(* (Streams), the chat surface (Chat) and the device relay (Relay).  They  *)
(* meet in committed rows only, so one run explores them side by side: a   *)
(* behaviour is a behaviour of the one component "part" names.             *)
(***************************************************************************)
EXTENDS Dispatch

CONSTANTS r1, r2, a1, a2, cust

VARIABLES part,
          cred, acct, grant, vtok, minted, job, credLock, credOp,
          dialect, surface, up, tap, chunks, rd, frames, client, seen, fenced, final,
          acc, cache, cooled, rr, chain, bind, turn, probing, taken, changes,
          facade, chatNow, slots, pool, call, rows,
          relayNow, devices, clients, shut, toClose, conn

MCLimit == [s \in Scopes |-> IF s = cust THEN 2 ELSE 1]

\* Two accounts, in the opposite order for every other request.
MCCandidates == [r \in Requests |-> IF r = r2 THEN <<a2, a1>> ELSE <<a1, a2>>]

\* Two deployments of one provider share an account, a third has its own.
MCSharedAccount == [r \in Requests |-> <<a1, a1, a2>>]
-----------------------------------------------------------------------------
\* The slots again with one attempt, a fault, and an account that is switched off.
Switched == INSTANCE Dispatch WITH MaxAttempts <- 1, MaxFaults <- 1, MaxSwitches <- 1

\* Two refresh jobs and an operator.
Secrets == INSTANCE Credentials WITH lock <- credLock, op <- credOp,
    Jobs <- {1, 2}, Broken <- 99, MaxTok <- 2, MaxGen <- 3

\* Quota answers that arrive out of order, next to a turn.
Quotas == INSTANCE Conversations WITH
    Accts <- {1, 2}, Metered <- {1}, Turns <- {1}, MaxChanges <- 1, MaxObs <- 2

\* Every dialect of a provider on every surface, with two tool calls.
Answers == INSTANCE Streams WITH
    Dialects <- {"anthropic", "responses", "openai"}, Surfaces <- {"chat", "messages", "responses"},
    Calls <- {1, 2}, MaxEvents <- 6

\* Two streams of one user who may have one at a time.
Chats == INSTANCE Chat WITH now <- chatNow,
    Calls <- {1, 2}, Users <- {1}, Owner <- <<1, 1>>, Keys <- 2, Limit <- 1, Cooldown <- 1,
    Allowed <- {"yes", "no"}, MaxNow <- 1, MaxPieces <- 1

\* A device that reconnects while a client looks on, and a client that renews its ticket.
Rooms == INSTANCE Relay WITH now <- relayNow,
    Conns <- {1, 2, 3}, DeviceIds <- {1}, ClientIds <- {1}, NoConn <- 0, Buffer <- 1, MaxDevices <- 1,
    MaxClients <- 1, Lead <- 0, Grace <- 0, TTL <- 1, Payloads <- {}, Renewals <- {}, MaxNow <- 0
Tickets == INSTANCE Relay WITH now <- relayNow,
    Conns <- {1}, DeviceIds <- {1}, ClientIds <- {1}, NoConn <- 0, Buffer <- 2, MaxDevices <- 1,
    MaxClients <- 1, Lead <- 0, Grace <- 0, TTL <- 1, Payloads <- {1}, Renewals <- {0, 1, 2}, MaxNow <- 3
-----------------------------------------------------------------------------
credvars == <<cred, acct, grant, vtok, minted, job, credLock, credOp>>
convvars == <<acc, cache, cooled, rr, chain, bind, turn, probing, taken, changes>>
streamvars == <<dialect, surface, up, tap, chunks, rd, frames, client, seen, fenced, final>>
chatvars == <<facade, chatNow, slots, pool, call, rows>>
relayvars == <<relayNow, devices, clients, shut, toClose, conn>>
allvars == <<vars, credvars, convvars, streamvars, chatvars, relayvars, part>>

ServingInit ==
    /\ part \in {"slots", "switched", "secrets", "quotas", "answers", "chats", "rooms", "tickets"}
    /\ Init /\ Secrets!Init /\ Quotas!Init
    /\ Answers!Init /\ (part = "answers" \/ (dialect = "openai" /\ surface = "chat"))
    /\ Chats!Init /\ (part = "chats" \/ ~facade)
    /\ IF part = "rooms" THEN Rooms!Init ELSE Tickets!Init

SlotStep ==
    /\ \/ part = "slots" /\ Next
       \/ part = "switched" /\ Switched!Next
    /\ UNCHANGED <<credvars, convvars, streamvars, chatvars, relayvars, part>>
SecretStep ==
    part = "secrets" /\ Secrets!Next /\ UNCHANGED <<vars, convvars, streamvars, chatvars, relayvars, part>>
QuotaStep ==
    part = "quotas" /\ Quotas!Next /\ UNCHANGED <<vars, credvars, streamvars, chatvars, relayvars, part>>
AnswerStep ==
    part = "answers" /\ Answers!Next /\ UNCHANGED <<vars, credvars, convvars, chatvars, relayvars, part>>
ChatStep ==
    part = "chats" /\ Chats!Next /\ UNCHANGED <<vars, credvars, convvars, streamvars, relayvars, part>>
\* Shutting down is left to the smaller instance: presence is promised only before it.
RelayStep ==
    /\ \/ part = "rooms" /\ Rooms!Next /\ shut' = "no"
       \/ part = "tickets" /\ Tickets!Next
    /\ UNCHANGED <<vars, credvars, convvars, streamvars, chatvars, part>>

ServingNext == SlotStep \/ SecretStep \/ QuotaStep \/ AnswerStep \/ ChatStep \/ RelayStep

ServingSpec == ServingInit /\ [][ServingNext]_allvars
SlotsSpec == ServingInit /\ part = "slots" /\ [][ServingNext]_allvars
-----------------------------------------------------------------------------
\* What the upstream told last is what is stored: refresh jobs of several instances
\* against an operator (Credentials!SecretsKept), and quota answers that arrive late
\* (Conversations!QuotaForward).
UpstreamKept == Secrets!SecretsKept /\ Quotas!QuotaForward

\* A translated answer keeps the protocol of its surface and is whole
\* (Streams!AnswerIsWhole).
AnswerIsWhole == part = "answers" => Answers!AnswerIsWhole

\* Slots, spend and the shown end of every chat stream (Chat!StreamsAccounted).
StreamsAccounted == part = "chats" => Chats!StreamsAccounted

\* What relay peers were told is who is there, and their deadlines are those of their
\* tickets (Relay: PresenceAgrees, DeadlineIsTickets).
RoomsAgree ==
    /\ part = "rooms" => Rooms!PresenceAgrees
    /\ part = "tickets" => Tickets!DeadlineIsTickets
=============================================================================
