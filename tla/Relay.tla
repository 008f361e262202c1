------------------------------- MODULE Relay -------------------------------
(***************************************************************************)
(* The device relay: websocket connections of one user's devices and       *)
(* clients meet in a room of the hub (internal/relay/hub.go), which        *)
(* replaces a reconnecting peer, broadcasts presence, routes app frames    *)
(* and drains on shutdown.  Each connection (internal/relay/conn.go) is a  *)
(* reader, a writer behind a bounded queue, a ticket timer and a           *)
(* finalizer, all of which may close it once.                              *)
(*                                                                         *)
(* The hub keeps rooms of different users apart, so one room is modelled.  *)
(* A frame is its type and the device it speaks of, or an opaque payload.  *)
(* `view` is what the peer at the other end has been told: the hello_ok    *)
(* table, then the presence frames written to it, in order.                *)
(***************************************************************************)
EXTENDS Naturals, Sequences, FiniteSets

CONSTANTS
    Conns,       \* connections that may be opened
    DeviceIds,   \* device_id values a hello may carry
    ClientIds,   \* client_id values
    NoConn,      \* an empty place of the room
    Buffer,      \* Options.OutboundBuffer
    MaxDevices,  \* Options.MaxDevicesPerUser
    MaxClients,  \* Options.MaxClientsPerUser
    Lead, Grace, \* Options.TicketExpiringLead and RenewGrace
    TTL,         \* life of a ticket
    Payloads,    \* app payloads peers send
    Renewals,    \* instants at which tickets for a renewal may be issued
    MaxNow       \* bound on the clock

VARIABLES
    now,      \* wall clock
    devices,  \* room.devices: the connection registered under each device_id
    clients,  \* room.clients
    shut,     \* progress of Hub.Shutdown
    toClose,  \* connections Shutdown's snapshot has still to close
    conn      \* the wsConn records

relayvars == <<now, devices, clients, shut, toClose, conn>>

Roles == {"device", "client"}

Frame(type, id) == [type |-> type, id |-> id]
PresenceFrame(id, online) == Frame(IF online THEN "online" ELSE "offline", id)
ClosedFrame == Frame("closed", 0)

\* A wsConn as HandleWS builds it, before its hello.
NewConn ==
    [pc |-> "new", role |-> "client", id |-> 0, send |-> <<>>, closing |-> FALSE,
     fin |-> "none", flushed |-> FALSE, cancelled |-> FALSE, writing |-> FALSE,
     exp |-> 0, armed |-> 0, timing |-> FALSE, warned |-> FALSE,
     renewed |-> FALSE, to |-> {}, frame |-> ClosedFrame, view |-> {}]

Init ==
    /\ now = 0
    /\ devices = [d \in DeviceIds |-> NoConn]
    /\ clients = [k \in ClientIds |-> NoConn]
    /\ shut = "no"
    /\ toClose = {}
    /\ conn = [c \in Conns |-> NewConn]

Members(table) == {table[i] : i \in DOMAIN table} \ {NoConn}
Registered == Members(devices) \cup Members(clients)
OnlineDevices == {d \in DeviceIds : devices[d] # NoConn}

-----------------------------------------------------------------------------
(* Closing a connection and queueing to it *)

\* The single way out: the closed frame joins the queue, dropping the oldest
\* frame if there is no room, and finalize starts.  Only the first caller acts.
initiateClose(r) ==
    IF r.closing THEN r
    ELSE [r EXCEPT !.closing = TRUE, !.fin = "waiting",
                   !.send = IF Len(@) < Buffer THEN Append(@, ClosedFrame)
                            ELSE Append(Tail(@), ClosedFrame)]

\* A failed write: closed without a closed frame, finalize does not wait.
abort(r) ==
    IF r.closing THEN r
    ELSE [r EXCEPT !.closing = TRUE, !.fin = "waiting", !.flushed = TRUE]

\* Non-blocking.  A full queue closes its own connection and nobody else's.
Enqueue(r, f) ==
    CASE r.closing -> r
      [] ~r.closing /\ f.type = "closed" -> initiateClose(r)
      [] ~r.closing /\ f.type # "closed" /\ Len(r.send) < Buffer ->
            [r EXCEPT !.send = Append(@, f)]
      [] OTHER -> initiateClose(r)

\* f is queued to every connection of the set.
EnqueueAll(cs, f) == [c \in Conns |-> IF c \in cs THEN Enqueue(conn[c], f) ELSE conn[c]]

\* finalize: once the closed frame is out, or two seconds passed, the
\* context is cancelled, which ends writer and timers, and the socket closed.
finalize(c) ==
    /\ conn[c].fin = "waiting"
    /\ conn' = [conn EXCEPT ![c].fin = "done", ![c].cancelled = TRUE,
                            ![c].writing = FALSE, ![c].timing = FALSE]
    /\ UNCHANGED <<now, devices, clients, shut, toClose>>

-----------------------------------------------------------------------------
(* Phases 1 to 4 of run: hello, registration, hello_ok *)

\* The connection is upgraded and waits for its hello.
HandleWS(c) == conn' = [conn EXCEPT ![c] = [NewConn EXCEPT !.pc = "hello"]]

\* Refused while shutting down, for a foreign origin or an address with too
\* many failed hellos.  Connections are numbered as they arrive.
ServeWS(c) ==
    /\ conn[c].pc = "new"
    /\ \A b \in Conns : b < c => conn[b].pc # "new"
    /\ \/ shut = "no" /\ HandleWS(c)
       \/ conn' = [conn EXCEPT ![c].pc = "gone"]
    /\ UNCHANGED <<now, devices, clients, shut, toClose>>

\* Tickets are signed with their expiry, and good until then (the leeway of
\* the check is part of TTL).
Issue == {t + TTL : t \in 0 .. now}
Verify(exp) == exp >= now

\* The frames that pass as a hello, whatever identity they give.
readHello == [role : Roles, id : DeviceIds \cup ClientIds \cup {0}, exp : Issue]
helloID(h) == IF h.role = "device" THEN DeviceIds ELSE ClientIds
validHelloShape(h) == h.id \in helloID(h)

\* Phases 1 and 2 of run: silence, a malformed frame, a bad ticket and a bad
\* shape all end here; a good hello fixes who the connection is.
AcceptHello(c) ==
    /\ conn[c].pc = "hello"
    /\ \/ conn' = [conn EXCEPT ![c].pc = "gone"]
       \/ \E h \in readHello :
            /\ Verify(h.exp) /\ validHelloShape(h)
            /\ conn' = [conn EXCEPT ![c].pc = "register", ![c].role = h.role,
                                    ![c].id = h.id, ![c].exp = h.exp]
    /\ UNCHANGED <<now, devices, clients, shut, toClose>>

\* The first look at the shutdown flag, before the hub's lock.
RegisterEnter(c) ==
    /\ conn[c].pc = "register"
    /\ conn' = [conn EXCEPT ![c].pc = IF shut # "no" THEN "gone" ELSE "registering"]
    /\ UNCHANGED <<now, devices, clients, shut, toClose>>

\* MUTANT: the shutdown flag is not looked at again under the lock.
RefusesUnlessFull(table, id, max) ==
    table[id] = NoConn /\ Cardinality(Members(table)) >= max

\* Under the lock: shutdown is looked at again; a new id is refused when the
\* room is full, a known one replaces its predecessor.
Refuses(table, id, max) ==
    \/ shut # "no"
    \/ table[id] = NoConn /\ Cardinality(Members(table)) >= max

\* The presence of a new device goes to all others, their presence to it.
AnnounceDevice(c, d, table) ==
    LET others == {e \in DeviceIds : e # d /\ table[e] # NoConn}
        told == Members(clients) \cup {table[e] : e \in others}
        snapshot[S \in SUBSET others] ==
            IF S = {} THEN conn[c]
            ELSE LET e == CHOOSE x \in S : \A y \in S : y <= x
                 IN  Enqueue(snapshot[S \ {e}], PresenceFrame(e, TRUE))
    IN  [EnqueueAll(told, PresenceFrame(d, TRUE)) EXCEPT ![c] = snapshot[others]]

\* Hub.Register.  The replaced connection is told after the lock is gone.
Register(c) ==
    LET r == conn[c]
        dev == r.role = "device"
        table == IF dev THEN devices ELSE clients
        kicked == table[r.id]
        next(rs) == [rs EXCEPT ![c].pc = IF kicked = NoConn THEN "greet" ELSE "kick",
                               ![c].to = {kicked} \ {NoConn}]
    IN  /\ r.pc = "registering"
        /\ \/ /\ Refuses(table, r.id, IF dev THEN MaxDevices ELSE MaxClients)
              /\ conn' = [conn EXCEPT ![c].pc = "gone"]
              /\ UNCHANGED <<devices, clients>>
           \/ /\ ~Refuses(table, r.id, IF dev THEN MaxDevices ELSE MaxClients)
              /\ IF dev
                 THEN /\ devices' = [devices EXCEPT ![r.id] = c]
                      /\ conn' = next(AnnounceDevice(c, r.id, devices'))
                      /\ UNCHANGED clients
                 ELSE /\ clients' = [clients EXCEPT ![r.id] = c]
                      /\ conn' = next(conn)
                      /\ UNCHANGED devices
        /\ UNCHANGED <<now, shut, toClose>>

\* closed "replaced" to the connection that was in its place.
KickReplaced(c) ==
    /\ conn[c].pc = "kick"
    /\ conn' = [EnqueueAll(conn[c].to, ClosedFrame) EXCEPT ![c].pc = "greet", ![c].to = {}]
    /\ UNCHANGED <<now, devices, clients, shut, toClose>>

\* hello_ok carries the online table; then writer, timers and reader start.
SendHelloOK(c) ==
    /\ conn[c].pc = "greet"
    /\ conn' = [conn EXCEPT ![c].pc = "reading", ![c].view = OnlineDevices,
                            ![c].writing = TRUE, ![c].timing = TRUE,
                            ![c].armed = conn[c].exp]
    /\ UNCHANGED <<now, devices, clients, shut, toClose>>

-----------------------------------------------------------------------------
(* Phase 5: the read loop *)

\* The peer left, the socket failed, or finalize cancelled the context.
ReadFails(c) ==
    /\ conn[c].pc = "reading"
    /\ conn' = [conn EXCEPT ![c].pc = "ended"]
    /\ UNCHANGED <<now, devices, clients, shut, toClose>>

\* Too fast, too large, unknown type or version, a second hello, an app
\* frame of a client without target, a renewal that does not verify.
ReadBadFrame(c) ==
    /\ conn[c].pc = "reading" /\ ~conn[c].cancelled
    /\ conn' = [conn EXCEPT ![c] = [initiateClose(@) EXCEPT !.pc = "ended"]]
    /\ UNCHANGED <<now, devices, clients, shut, toClose>>

\* RouteApp picks its receivers under the read lock.  A client names a
\* device; a device names another device or, naming none, reaches all clients.
RouteApp(c) ==
    LET r == conn[c]
        send(cs, f) == conn' = [conn EXCEPT ![c].pc = "routing", ![c].to = cs, ![c].frame = f]
    IN  /\ r.pc = "reading" /\ ~r.cancelled
        /\ \E p \in Payloads :
            \/ \E d \in DeviceIds :
                IF devices[d] = NoConn \/ devices[d] = c
                THEN send({c}, Frame("undeliverable", d))
                ELSE send({devices[d]}, Frame("app", p))
            \/ r.role = "device" /\ send(Members(clients), Frame("app", p))
        /\ UNCHANGED <<now, devices, clients, shut, toClose>>

\* The frame is queued after the lock is gone.
Route(c) ==
    /\ conn[c].pc = "routing"
    /\ conn' = [EnqueueAll(conn[c].to, conn[c].frame) EXCEPT
                    ![c].pc = "reading", ![c].to = {}, ![c].frame = ClosedFrame]
    /\ UNCHANGED <<now, devices, clients, shut, toClose>>

\* A renewal that verifies, for the same user: the new expiry is stored ...
Renew(c) ==
    /\ conn[c].pc = "reading" /\ ~conn[c].cancelled
    /\ \E t \in Renewals \cap 0 .. now :
        /\ Verify(t + TTL)
        /\ conn' = [conn EXCEPT ![c].pc = "renewing", ![c].exp = t + TTL]
    /\ UNCHANGED <<now, devices, clients, shut, toClose>>

\* MUTANT: the notice channel has no buffer, so a busy timer misses it.
NotifyUnbuffered(c) ==
    /\ conn[c].pc = "renewing"
    /\ \E heard \in BOOLEAN :
        conn' = [conn EXCEPT ![c].pc = "reading", ![c].renewed = heard]
    /\ UNCHANGED <<now, devices, clients, shut, toClose>>

\* ... and the timers are told, unless a notice is already waiting.
NotifyRenewed(c) ==
    /\ conn[c].pc = "renewing"
    /\ conn' = [conn EXCEPT ![c].pc = "reading", ![c].renewed = TRUE]
    /\ UNCHANGED <<now, devices, clients, shut, toClose>>

\* MUTANT: any connection leaving takes the entry of its id with it.
UnregisterById(c, table) ==
    [i \in DOMAIN table |-> IF i = conn[c].id THEN NoConn ELSE table[i]]

\* Only the entry that still is this connection is removed.
RemoveOwn(c, table) == [i \in DOMAIN table |-> IF table[i] = c THEN NoConn ELSE table[i]]

\* End of run: a connection being closed waits for its finalizer, then
\* leaves the room; a device's offline is queued under the same lock.
Unregister(c) ==
    LET r == conn[c]
        offline == r.role = "device" /\ devices[r.id] = c
    IN  /\ r.pc = "ended"
        /\ r.closing => r.fin = "done"
        /\ IF r.role = "device"
           THEN devices' = RemoveOwn(c, devices) /\ UNCHANGED clients
           ELSE clients' = RemoveOwn(c, clients) /\ UNCHANGED devices
        /\ conn' = [EnqueueAll(IF offline THEN Members(devices') \cup Members(clients) ELSE {},
                               PresenceFrame(r.id, FALSE))
                    EXCEPT ![c] = [NewConn EXCEPT !.pc = "gone"]]
        /\ UNCHANGED <<now, shut, toClose>>

-----------------------------------------------------------------------------
(* Writer and timers *)

\* What the peer knows once f has reached it.
Told(view, f) ==
    CASE f.type = "online" -> view \cup {f.id}
      [] f.type = "offline" -> view \ {f.id}
      [] OTHER -> view

\* One frame goes out; the closed frame is the last.
Write(c) ==
    LET r == conn[c] IN
    /\ r.writing /\ r.send # <<>>
    /\ conn' = [conn EXCEPT ![c] =
            [r EXCEPT !.send = Tail(@), !.view = Told(@, Head(r.send)),
                      !.flushed = @ \/ Head(r.send) = ClosedFrame,
                      !.writing = Head(r.send) # ClosedFrame]]
    /\ UNCHANGED <<now, devices, clients, shut, toClose>>

\* The write of a frame fails; or a ping goes unanswered, which closes with
\* idle_timeout.
WriterFails(c) ==
    LET r == conn[c] IN
    /\ r.writing
    /\ \/ r.send # <<>> /\ conn' = [conn EXCEPT ![c] = [abort(r) EXCEPT !.writing = FALSE]]
       \/ ~r.closing /\ conn' = [conn EXCEPT ![c] = initiateClose(r)]
    /\ UNCHANGED <<now, devices, clients, shut, toClose>>

\* One warning when the ticket is about to expire, the end once it has and
\* the grace is over.
TimerFires(c) ==
    LET r == conn[c] IN
    /\ r.timing
    /\ \/ /\ ~r.warned /\ now + Lead >= r.armed
          /\ conn' = [conn EXCEPT ![c] = [Enqueue(r, Frame("expiring", 0)) EXCEPT !.warned = TRUE]]
       \/ /\ now >= r.armed + Grace
          /\ conn' = [conn EXCEPT ![c] = [initiateClose(r) EXCEPT !.timing = FALSE]]
    /\ UNCHANGED <<now, devices, clients, shut, toClose>>

\* A renewal notice: both timers are set again from the stored expiry.
TimerRenewed(c) ==
    LET r == conn[c] IN
    /\ r.timing /\ r.renewed
    /\ conn' = [conn EXCEPT ![c].renewed = FALSE, ![c].armed = r.exp, ![c].warned = FALSE]
    /\ UNCHANGED <<now, devices, clients, shut, toClose>>

-----------------------------------------------------------------------------
(* Shutdown *)

\* The flag first ...
ShutdownFlag ==
    /\ shut = "no"
    /\ shut' = "flag"
    /\ UNCHANGED <<now, devices, clients, toClose, conn>>

\* ... then a snapshot of the room under the lock ...
ShutdownSnapshot ==
    /\ shut = "flag"
    /\ shut' = "closing"
    /\ toClose' = Registered
    /\ UNCHANGED <<now, devices, clients, conn>>

\* ... then, without the lock, offline and closed to everyone in it.  The
\* offline frames are always ahead of the closed frame of their receiver.
ShutdownClose(c) ==
    LET r == conn[c]
        others == IF r.role = "device" THEN DeviceIds \ {r.id} ELSE DeviceIds
        left[S \in SUBSET others] ==
            IF S = {} THEN r
            ELSE LET e == CHOOSE x \in S : TRUE
                 IN  Enqueue(left[S \ {e}], PresenceFrame(e, FALSE))
        gone == {e \in others : devices[e] # NoConn}
    IN  /\ shut = "closing" /\ c \in toClose
        /\ conn' = [conn EXCEPT ![c] = Enqueue(left[gone], ClosedFrame)]
        /\ toClose' = toClose \ {c}
        /\ UNCHANGED <<now, devices, clients, shut>>

Tick ==
    /\ now < MaxNow
    /\ now' = now + 1
    /\ UNCHANGED <<devices, clients, shut, toClose, conn>>

-----------------------------------------------------------------------------
Run(c) ==
    \/ RegisterEnter(c) \/ Register(c) \/ KickReplaced(c) \/ SendHelloOK(c)
    \/ Route(c) \/ NotifyRenewed(c) \/ Unregister(c)

Peer(c) ==
    \/ ServeWS(c) \/ AcceptHello(c) \/ ReadBadFrame(c) \/ RouteApp(c) \/ Renew(c)

Next ==
    \/ Tick \/ ShutdownFlag \/ ShutdownSnapshot
    \/ \E c \in Conns :
        \/ Run(c) \/ Peer(c) \/ ReadFails(c) \/ Write(c) \/ WriterFails(c)
        \/ TimerFires(c) \/ TimerRenewed(c) \/ finalize(c) \/ ShutdownClose(c)

Spec == Init /\ [][Next]_relayvars

\* The code's own goroutines go on; a cancelled read returns.
Fairness ==
    /\ WF_relayvars(ShutdownSnapshot)
    /\ \A c \in Conns :
        /\ WF_relayvars(Run(c))
        /\ WF_relayvars(finalize(c))
        /\ WF_relayvars(ShutdownClose(c))
        /\ WF_relayvars(conn[c].cancelled /\ ReadFails(c))

FairSpec == Spec /\ Fairness

-----------------------------------------------------------------------------
\* What the peer will know once the queue has been written.
Foretold(r) ==
    LET v[n \in 0 .. Len(r.send)] == IF n = 0 THEN r.view ELSE Told(v[n - 1], r.send[n])
    IN  v[Len(r.send)]

Greeted(r) == r.pc \in {"reading", "routing", "renewing"} /\ ~r.closing

\* While the hub is up, what a registered peer has been told, with what is
\* queued to it, is exactly the devices in the room: no reconnect freezes an
\* online device as offline for it (hub.go Register and Unregister, which
\* broadcast under the lock for this reason).
PresenceAgrees ==
    shut = "no" => \A c \in Registered : Greeted(conn[c]) => Foretold(conn[c]) = OnlineDevices

\* Unless a renewal notice is under way, the timers run on the expiry of the
\* ticket last accepted, although notices are dropped when one is waiting
\* (conn.go readLoop and runTimers).
DeadlineIsTickets ==
    \A c \in Conns :
        (conn[c].timing /\ ~conn[c].renewed /\ conn[c].pc # "renewing") => conn[c].armed = conn[c].exp

\* Once shutdown has begun the room empties for good: no registration slips in
\* behind the snapshot, and no connection waits for ever on its finalizer.
Drains == (shut # "no") ~> [](Registered = {})
=============================================================================
