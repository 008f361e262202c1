------------------------------ MODULE MCProgress ----------------------------
(***************************************************************************)
(* What must eventually happen: open holds resolve (Billing), outbox       *)
(* messages are booked (EntitlementSync, WalletSync), slots come back      *)
(* (Dispatch), a channel's end reaches the local row (ChannelSubscription),*)
(* conversations go on (Conversations), processes serve the active         *)
(* revision (Catalog), a shut hub drains (Relay) and waiting queries are   *)
(* answered (UsageCache).  A behaviour is a behaviour of the one component *)
(* "part" names, under the fairness of that component.                     *)
(***************************************************************************)
EXTENDS MCBilling, Sequences

CONSTANTS SyncOpen, SyncNone  \* no end and no order, of EntitlementSync

VARIABLES part,
          sub, paid, ended, rows, sent, pending, syncer, today, spent,
          mstatus, attempts, wait, booked, booker, due, bookFaults,
          row, inService, req, renewing, renewed, slotFaults, switches,
          chanSub, ch, inbox, chanReq, charged, rejected, chanNow, seq,
          acc, cache, cooled, rr, chain, pinned, turn, probing, taken, changes,
          prov, model, dep, route, edits, deleted, ed, imp, boots, rev, pub, current, probed, get,
          relayNow, devices, clients, shut, toClose, conn,
          clock, db, done, gen, entries, inflight, lastSweep, asked
-----------------------------------------------------------------------------
\* One order, two workers, the migration gift.
MCOrder ==
    [o \in {"o1"} |-> [plan |-> "A", kind |-> "new", days |-> 1, from |-> "-",
                       mode |-> "subscription", spec |-> "s1"]]
Sync == INSTANCE EntitlementSync WITH worker <- syncer, now <- today, Open <- SyncOpen, None <- SyncNone,
    Orders <- {"o1"}, Order <- MCOrder, Workers <- {1, 2}, Batch <- 2, GiftDays <- 1, MaxTime <- 1,
    MaxCancels <- 0, MaxFaults <- 1, MaxGifts <- 1

\* A top-up and its refund behind a message that can never be booked.
Books == INSTANCE WalletSync WITH status <- mstatus, worker <- booker, turn <- due, faults <- bookFaults,
    Messages <- {1, 2, 3}, TopupOf <- <<0, 0, 2>>, Poison <- {1}, Workers <- {1, 2}, Batch <- 1,
    MaxBackoff <- 3, MaxFaults <- 1

\* A stream that fails over between two accounts, with two faults.
Slots == INSTANCE Dispatch WITH active <- inService, due <- renewing, faults <- slotFaults,
    Requests <- {"r"}, Streams <- {"r"}, Customer <- "c", Accounts <- {"a", "b"},
    Limit <- [s \in {"c", "a", "b"} |-> 1], Candidates <- [r \in {"r"} |-> <<"a", "b">>],
    MaxAttempts <- 2, TTL <- 3, MaxFaults <- 2, MaxSwitches <- 1

\* A customer's request against the channel, over one renewal.
MCInterval(p) == p
MCPrices(p) == {p}
Channel == INSTANCE ChannelSubscription WITH sub <- chanSub, req <- chanReq, booked <- charged, now <- chanNow,
    Calls <- {1}, Plans <- {1, 2, 3}, Interval <- MCInterval, Prices <- MCPrices, First <- 1,
    MaxNow <- 2, MaxSeq <- 4

\* Two turns of a conversation, an account that drops out.
Conv == INSTANCE Conversations WITH bind <- pinned,
    Accts <- {1, 2}, Metered <- {1}, Turns <- {1, 2}, MaxChanges <- 1, MaxObs <- 0

\* Two requests of a process while revisions are published and rolled back.
Heads == INSTANCE Catalog WITH
    Models <- {1}, Aliases <- {2}, Deps <- {1}, Env <- {<<1, 1>>}, Editors <- {}, Publishers <- {1},
    Readers <- {1, 2}, PageSize <- 1, PageMax <- 1, PageDefault <- 1, MaxEdits <- 0, MaxBoots <- 0, MaxRev <- 3

\* Two connections and a shutdown.
Hub == INSTANCE Relay WITH now <- relayNow,
    Conns <- {1, 2}, DeviceIds <- {1}, ClientIds <- {1}, NoConn <- 0, Buffer <- 2, MaxDevices <- 1,
    MaxClients <- 1, Lead <- 0, Grace <- 0, TTL <- 1, Payloads <- {}, Renewals <- {}, MaxNow <- 0

\* Two queries at once, two of which mean the same; and one query asked four times.
Ask(agent, source) == [agent |-> agent, source |-> source]
Asked == INSTANCE UsageCache WITH req <- asked,
    Readers <- {1, 2}, Writers <- {5}, MaxBucket <- 1,
    Queries <- {Ask(<<1, 2>>, <<1, 2>>), Ask(<<2, 1>>, <<1, 2>>), Ask(<<1, 2>>, <<2, 1>>)}
Repeated == INSTANCE UsageCache WITH req <- asked,
    Readers <- {1, 2, 3, 4}, Writers <- {5}, MaxBucket <- 3, Queries <- {Ask(<<1>>, <<1>>)}
-----------------------------------------------------------------------------
syncvars == <<sub, paid, ended, rows, sent, pending, syncer, today, spent>>
bookvars == <<mstatus, attempts, wait, booked, booker, due, bookFaults>>
slotvars == <<row, inService, req, renewing, renewed, slotFaults, switches>>
chanvars == <<chanSub, ch, inbox, chanReq, charged, rejected, chanNow, seq>>
convvars == <<acc, cache, cooled, rr, chain, pinned, turn, probing, taken, changes>>
catvars == <<prov, model, dep, route, edits, deleted, ed, imp, boots, rev, pub, current, probed, get>>
relayvars == <<relayNow, devices, clients, shut, toClose, conn>>
cachevars == <<clock, db, done, gen, entries, inflight, lastSweep, asked>>
allvars == <<vars, syncvars, bookvars, slotvars, chanvars, convvars, catvars, relayvars, cachevars, part>>

ProgressInit ==
    /\ Init /\ Sync!Init /\ Books!Init /\ Slots!Init /\ Channel!Init /\ Conv!Init /\ Heads!Init /\ Hub!Init
    /\ IF part = "repeated" THEN Repeated!Init ELSE Asked!Init

InHolds == part = "holds" /\ UNCHANGED
    <<syncvars, bookvars, slotvars, chanvars, convvars, catvars, relayvars, cachevars, part>>
InSync == part = "sync" /\ UNCHANGED
    <<vars, bookvars, slotvars, chanvars, convvars, catvars, relayvars, cachevars, part>>
InBooks == part = "books" /\ UNCHANGED
    <<vars, syncvars, slotvars, chanvars, convvars, catvars, relayvars, cachevars, part>>
InSlots == part = "slots" /\ UNCHANGED
    <<vars, syncvars, bookvars, chanvars, convvars, catvars, relayvars, cachevars, part>>
InChannel == part = "channel" /\ UNCHANGED
    <<vars, syncvars, bookvars, slotvars, convvars, catvars, relayvars, cachevars, part>>
InConv == part = "conv" /\ UNCHANGED
    <<vars, syncvars, bookvars, slotvars, chanvars, catvars, relayvars, cachevars, part>>
InHeads == part = "heads" /\ UNCHANGED
    <<vars, syncvars, bookvars, slotvars, chanvars, convvars, relayvars, cachevars, part>>
InHub == part = "hub" /\ UNCHANGED
    <<vars, syncvars, bookvars, slotvars, chanvars, convvars, catvars, cachevars, part>>
InCache == part = "asked" /\ UNCHANGED
    <<vars, syncvars, bookvars, slotvars, chanvars, convvars, catvars, relayvars, part>>

ProgressNext ==
    \/ InHolds /\ Next
    \/ InSync /\ Sync!Next
    \/ InBooks /\ Books!Next
    \/ InSlots /\ Slots!Next
    \/ InChannel /\ Channel!Next
    \/ InConv /\ Conv!Next
    \/ InHeads /\ Heads!Next
    \/ InHub /\ Hub!Next
    \/ InCache /\ Asked!Next
-----------------------------------------------------------------------------
(* The fairness of each component (its Fairness or FairSpec).  A behaviour *)
(* stays in its part, so the i-th fair actions of all components share one *)
(* condition.                                                              *)

FairHold(i) ==
    \/ i = 1 /\ \E r \in Requests : GatewayStep(r)
    \/ i = 2 /\ \E r \in Requests : GraceElapses(r)
    \/ i = 3 /\ \E r \in Requests : LeaseExpires(r)
    \/ i = 4 /\ LoadEvidence(w1)
    \/ i = 5 /\ LoadEvidence(w2)

FairSlot(i) ==
    \/ i = 1 /\ Slots!Tick
    \/ i = 2 /\ \E kept \in SUBSET Slots!Scopes : Slots!Renew("r", kept)
    \/ i = 3 /\ Slots!Admit("r")
    \/ i = 3 /\ \E kept \in SUBSET Slots!Scopes :
          Slots!Persist("r", kept) \/ Slots!Check("r", kept) \/ Slots!Exhausted("r", kept)
    \/ i = 4 /\ Slots!CallStreams("r")
    \/ i = 4 /\ \E kept \in SUBSET Slots!Scopes :
          \/ Slots!CallFails("r", kept) \/ Slots!CallRejected("r", kept) \/ Slots!CallUnknown("r", kept)
          \/ Slots!CallAnswers("r", kept) \/ Slots!StreamEnds("r", kept)

FairConv(i) ==
    \/ i \in {1, 2} /\ Conv!Step(i)
    \/ i = 3 /\ Conv!EndExpiredSessionBindings
    \/ i = 4 /\ Conv!CacheExpires
    \/ i = 5 /\ Conv!CooldownEnds

FairHub(i) ==
    \/ i \in {1, 2} /\ Hub!Run(i)
    \/ i \in {3, 4} /\ Hub!finalize(i - 2)
    \/ i \in {5, 6} /\ Hub!ShutdownClose(i - 4)
    \/ i \in {7, 8} /\ conn[i - 6].cancelled /\ Hub!ReadFails(i - 6)
    \/ i = 9 /\ Hub!ShutdownSnapshot

\* The channel delivers a webhook again until it is taken, and a request runs on.
FairChannel(i) ==
    \/ i = 1 /\ \E e \in inbox : Channel!Deliver(e)
    \/ i = 2 /\ Channel!Step(1)

\* The variables of the part.
live ==
    CASE part = "holds" -> vars
      [] part = "sync" -> syncvars
      [] part = "books" -> bookvars
      [] part = "slots" -> slotvars
      [] part = "channel" -> chanvars
      [] part = "conv" -> convvars
      [] part = "heads" -> catvars
      [] part = "hub" -> relayvars
      [] OTHER -> cachevars

Fair(i) ==
    /\ part' = part
    /\ \/ part = "holds" /\ FairHold(i)
       \/ part = "sync" /\ i \in {1, 2} /\ Sync!Work(i)
       \/ part = "books" /\ i \in {1, 2} /\ Books!Work(i)
       \/ part = "books" /\ i = 3 /\ Books!Tick
       \/ part = "slots" /\ FairSlot(i)
       \/ part = "channel" /\ FairChannel(i)
       \/ part = "conv" /\ FairConv(i)
       \/ part = "heads" /\ i \in {1, 2} /\ Heads!Current(i)
       \/ part = "heads" /\ i = 3 /\ Heads!ProbeExpires
       \/ part = "hub" /\ FairHub(i)
       \/ part = "asked" /\ i \in {1, 2} /\ Asked!Serve(i)

\* The recovery workers get to every listed request again and again.
WorkerFairness ==
    \A w \in Workers :
        /\ \A r \in Requests :
            /\ SF_vars(part = "holds" /\ Sweep(w, r))
            /\ SF_vars(part = "holds" /\ TakeJob(w, r))
        /\ SF_vars(part = "holds" /\ (ReleaseProvenZero(w) \/ SettleUnknownCharge(w)))

ProgressFairness ==
    /\ \A i \in 1..9 : WF_live(Fair(i))
    /\ WorkerFairness

\* Money and messages in one run, the serving side in another.
LedgerInit == part \in {"holds", "sync", "books", "slots", "channel"} /\ ProgressInit
LedgerSpec == LedgerInit /\ [][ProgressNext]_allvars /\ ProgressFairness

ServiceInit == part \in {"conv", "heads", "hub", "asked"} /\ ProgressInit
ServiceSpec == ServiceInit /\ [][ProgressNext]_allvars /\ ProgressFairness

\* Queries that are asked again after a write.
RepeatedNext ==
    /\ Repeated!Next
    /\ UNCHANGED <<vars, syncvars, bookvars, slotvars, chanvars, convvars, catvars, relayvars, part>>
RepeatedInit == part = "repeated" /\ ProgressInit
RepeatedSpec == RepeatedInit /\ [][RepeatedNext]_allvars
-----------------------------------------------------------------------------
\* Every entitlement message is delivered (EntitlementSync!Delivered).
Delivered == part = "sync" => Sync!Delivered

\* Payments move the wallet exactly once, past a message that never can
\* (WalletSync!BookedExactlyOnce).
BookedExactlyOnce ==
    /\ []Books!BookedOnce /\ []Books!DeliveredIsBooked
    /\ part = "books" => Books!BookedInTheEnd

\* Every concurrency slot comes back (Dispatch!SlotsComeBack).
SlotsComeBack == part = "slots" => Slots!SlotsComeBack

\* A subscription the channel has ended ends locally (ChannelSubscription!EndReaches).
EndReaches == part = "channel" => Channel!EndReaches

\* A conversation is never wedged (Conversations!NeverWedged).
NeverWedged == part = "conv" => Conv!NeverWedged

\* The process ends up serving the active revision (Catalog!CatchesUp).
CatchesUp == part = "heads" => Heads!CatchesUp

\* A hub that is shut empties for good (Relay!Drains).
Drains == part = "hub" => Hub!Drains

\* Every usage query is answered, for the question it asked (UsageCache!QueriesAnswered).
QueriesAnswered ==
    /\ [](part = "asked" => Asked!AnswersItsQuery)
    /\ part = "asked" => Asked!WaitersAnswered

\* A usage query that arrives after a write sees it (UsageCache!WritesAreSeen).
WritesAreSeen == Repeated!WritesAreSeen
=============================================================================
