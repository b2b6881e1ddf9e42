----------------------------- MODULE LiveAlerts -----------------------------
(***************************************************************************)
(* The push of one channel to the dashboard: the client of                 *)
(* frontend/src/lib/ws.ts in each open page, and the server of             *)
(* backend/app/ws/alerts.py with its Redis subscription.                   *)
(*                                                                         *)
(* A client action is one JavaScript task, a server action one stretch of  *)
(* a coroutine between awaits.  A socket's name is used again once both    *)
(* ends are done with it.  reconnect() has no caller and is left out, and  *)
(* so are pings, delays and the payload of messages.                       *)
(***************************************************************************)
EXTENDS Naturals

CONSTANTS Pages,        \* pages that have loaded the client
          Sockets,      \* names for a page's sockets
          NoSocket,     \* this.ws is null
          MaxHandlers,  \* bound: handlers subscribed at once
          MaxDrops,     \* bound: connections lost on the way
          MaxOutages,   \* bound: server restarts
          MaxErrors     \* bound: Redis errors

ASSUME LiveAlertsAssumption ==
    /\ NoSocket \notin Sockets
    /\ MaxHandlers \in Nat /\ MaxDrops \in Nat
    /\ MaxOutages \in Nat /\ MaxErrors \in Nat

VARIABLES
    handlers,   \* number of subscribed handlers of each page
    destroyed, status, ws,
    timer,      \* is the reconnect timer armed?
    tickets,    \* connect() calls that await buildAuthedUrl()
    ready,      \* readyState of each socket; "closed" before it is created
    lost,       \* connections that have ended without the client's close event
    up,         \* is the server running?
    endpoint,   \* the ws_alerts coroutine of each socket
    connections, \* ConnectionManager._connections of the channel
    task,       \* _pubsub_tasks of the channel
    deaf,       \* sockets that were there when the task last ended (history)
    refused,    \* pages whose ticket request failed (history)
    drops, outages, errors

pageVars == <<handlers, destroyed, status, ws, timer, tickets, refused>>
serverVars == <<up, endpoint, connections, task, deaf>>
boundVars == <<drops, outages, errors>>
vars == <<pageVars, ready, lost, serverVars, boundVars>>

Links == Pages \X Sockets

Init ==
    /\ handlers = [p \in Pages |-> 0]
    /\ destroyed = [p \in Pages |-> FALSE]
    /\ status = [p \in Pages |-> "disconnected"]
    /\ ws = [p \in Pages |-> NoSocket]
    /\ timer = [p \in Pages |-> FALSE]
    /\ tickets = [p \in Pages |-> 0]
    /\ refused = {}
    /\ ready = [l \in Links |-> "closed"] /\ lost = {}
    /\ up = TRUE
    /\ endpoint = [l \in Links |-> "none"]
    /\ connections = {} /\ task = "none" /\ deaf = {}
    /\ drops = 0 /\ outages = 0 /\ errors = 0

-----------------------------------------------------------------------------
(***************************************************************************)
(* The client.                                                             *)
(***************************************************************************)
IsOpen(p) == ws[p] # NoSocket /\ ready[<<p, ws[p]>>] = "open"

\* connect() up to its await.
Connect(p) ==
    IF destroyed[p] \/ IsOpen(p)
    THEN UNCHANGED <<status, tickets>>
    ELSE /\ status' = [status EXCEPT ![p] = "connecting"]
         /\ tickets' = [tickets EXCEPT ![p] = @ + 1]

\* Variant: every handler connects, not only the first.
Subscribe_EachConnects(p) ==
    /\ handlers[p] < MaxHandlers
    /\ handlers' = [handlers EXCEPT ![p] = @ + 1]
    /\ Connect(p)
    /\ UNCHANGED <<destroyed, ws, timer, refused, ready, lost, serverVars, boundVars>>

Subscribe(p) ==
    /\ handlers[p] < MaxHandlers
    /\ handlers' = [handlers EXCEPT ![p] = @ + 1]
    /\ IF handlers[p] = 0 THEN Connect(p) ELSE UNCHANGED <<status, tickets>>
    /\ UNCHANGED <<destroyed, ws, timer, refused, ready, lost, serverVars, boundVars>>

\* disconnect(), when the last handler leaves.
Disconnect(p) ==
    /\ destroyed' = [destroyed EXCEPT ![p] = TRUE]
    /\ timer' = [timer EXCEPT ![p] = FALSE]
    /\ ready' = [l \in Links |-> IF l = <<p, ws[p]>> /\ ready[l] # "closed"
                                 THEN "closing" ELSE ready[l]]
    /\ ws' = [ws EXCEPT ![p] = NoSocket]
    /\ status' = [status EXCEPT ![p] = "disconnected"]

Unsubscribe(p) ==
    /\ handlers[p] > 0
    /\ handlers' = [handlers EXCEPT ![p] = @ - 1]
    /\ IF handlers[p] = 1 THEN Disconnect(p)
                          ELSE UNCHANGED <<destroyed, timer, ready, ws, status>>
    /\ UNCHANGED <<tickets, refused, lost, serverVars, boundVars>>

Unused(l) == ready[l] = "closed" /\ endpoint[l] = "none" /\ l \notin connections

\* this.ws = new WebSocket(url)
Open(p) ==
    \E s \in Sockets :
        /\ Unused(<<p, s>>)
        /\ ready' = [ready EXCEPT ![<<p, s>>] = "connecting"]
        /\ ws' = [ws EXCEPT ![p] = s]

\* The ticket request fails, which ends connect() as a missing session does.
TicketRefused(p) ==
    /\ tickets[p] > 0 /\ ~up
    /\ tickets' = [tickets EXCEPT ![p] = @ - 1]
    /\ status' = [status EXCEPT ![p] = "disconnected"]
    /\ refused' = refused \cup {p}
    /\ UNCHANGED <<handlers, destroyed, ws, timer, ready, lost, serverVars, boundVars>>

\* Variant: connect() does not look at destroyed again after its await.
TicketArrives_AfterDestroy(p) ==
    /\ tickets[p] > 0 /\ up
    /\ tickets' = [tickets EXCEPT ![p] = @ - 1]
    /\ Open(p)
    /\ UNCHANGED <<handlers, destroyed, status, timer, refused, lost, serverVars, boundVars>>

TicketArrives(p) ==
    /\ tickets[p] > 0 /\ up
    /\ tickets' = [tickets EXCEPT ![p] = @ - 1]
    /\ IF destroyed[p] THEN UNCHANGED <<ready, ws>> ELSE Open(p)
    /\ UNCHANGED <<handlers, destroyed, status, timer, refused, lost, serverVars, boundVars>>

\* The handshake may reach the page before accept() returns.
OnOpen(p, s) ==
    /\ ready[<<p, s>>] = "connecting" /\ endpoint[<<p, s>>] # "none"
    /\ <<p, s>> \notin lost
    /\ ready' = [ready EXCEPT ![<<p, s>>] = "open"]
    /\ status' = [status EXCEPT ![p] = "connected"]
    /\ UNCHANGED <<handlers, destroyed, ws, timer, tickets, refused, lost,
                   serverVars, boundVars>>

\* Variant: a connection that never opened is not tried again.
OnClose_OnlyAfterOpen(p, s) ==
    /\ ready[<<p, s>>] = "closing" \/ <<p, s>> \in lost
    /\ ready' = [ready EXCEPT ![<<p, s>>] = "closed"]
    /\ lost' = lost \ {<<p, s>>}
    /\ timer' = [timer EXCEPT ![p] = ~destroyed[p] /\ ready[<<p, s>>] = "open"]
    /\ status' = [status EXCEPT ![p] = IF destroyed[p] THEN "disconnected"
                                       ELSE "reconnecting"]
    /\ UNCHANGED <<handlers, destroyed, ws, tickets, refused, serverVars, boundVars>>

\* Variant: the status is left to the next connect().
OnClose_KeepsStatus(p, s) ==
    /\ ready[<<p, s>>] = "closing" \/ <<p, s>> \in lost
    /\ ready' = [ready EXCEPT ![<<p, s>>] = "closed"]
    /\ lost' = lost \ {<<p, s>>}
    /\ timer' = [timer EXCEPT ![p] = ~destroyed[p]]
    /\ UNCHANGED <<handlers, destroyed, ws, tickets, status, refused, serverVars, boundVars>>

\* The socket's error event, if any, only closes it again.
OnClose(p, s) ==
    /\ ready[<<p, s>>] = "closing" \/ <<p, s>> \in lost
    /\ ready' = [ready EXCEPT ![<<p, s>>] = "closed"]
    /\ lost' = lost \ {<<p, s>>}
    /\ timer' = [timer EXCEPT ![p] = ~destroyed[p]]
    /\ status' = [status EXCEPT ![p] = IF destroyed[p] THEN "disconnected"
                                       ELSE "reconnecting"]
    /\ UNCHANGED <<handlers, destroyed, ws, tickets, refused, serverVars, boundVars>>

TimerFires(p) ==
    /\ timer[p]
    /\ timer' = [timer EXCEPT ![p] = FALSE]
    /\ Connect(p)
    /\ UNCHANGED <<handlers, destroyed, ws, refused, ready, lost, serverVars, boundVars>>

-----------------------------------------------------------------------------
(***************************************************************************)
(* The server.                                                             *)
(***************************************************************************)

\* Variant: a task that has ended still counts as there.
Arrive_KeepsDone(l) ==
    /\ up /\ ready[l] = "connecting" /\ l \notin lost /\ endpoint[l] = "none"
    /\ endpoint' = [endpoint EXCEPT ![l] = "accepting"]
    /\ task' = IF task = "none" THEN "running" ELSE task
    /\ UNCHANGED <<pageVars, ready, lost, up, connections, deaf, boundVars>>

\* The endpoint verifies the ticket and ensures the subscription.
Arrive(l) ==
    /\ up /\ ready[l] = "connecting" /\ l \notin lost /\ endpoint[l] = "none"
    /\ endpoint' = [endpoint EXCEPT ![l] = "accepting"]
    /\ task' = "running"
    /\ UNCHANGED <<pageVars, ready, lost, up, connections, deaf, boundVars>>

\* manager.connect, then the endpoint waits for what the client sends.
Accept(l) ==
    /\ endpoint[l] = "accepting"
    /\ endpoint' = [endpoint EXCEPT ![l] = "receiving"]
    /\ connections' = connections \cup {l}
    /\ UNCHANGED <<pageVars, ready, lost, up, task, deaf, boundVars>>

Gone(l) == ready[l] \in {"closing", "closed"} \/ l \in lost

\* WebSocketDisconnect
Receive(l) ==
    /\ endpoint[l] = "receiving" /\ Gone(l)
    /\ endpoint' = [endpoint EXCEPT ![l] = "none"]
    /\ connections' = connections \ {l}
    /\ UNCHANGED <<pageVars, ready, lost, up, task, deaf, boundVars>>

\* broadcast() meets a connection that is gone before its endpoint does.
SendFails(l) ==
    /\ task = "running" /\ l \in connections /\ Gone(l)
    /\ connections' = connections \ {l}
    /\ UNCHANGED <<pageVars, ready, lost, up, endpoint, task, deaf, boundVars>>

\* An exception ends _subscribe_redis.
RedisError ==
    /\ task = "running" /\ errors < MaxErrors
    /\ task' = "done"
    /\ deaf' = {l \in Links : endpoint[l] # "none"}
    /\ errors' = errors + 1
    /\ UNCHANGED <<pageVars, ready, lost, up, endpoint, connections, drops, outages>>

-----------------------------------------------------------------------------
(***************************************************************************)
(* The network and the host.                                               *)
(***************************************************************************)
Live(l) == ready[l] \in {"connecting", "open"}

\* The connection breaks, or its ticket has expired on arrival.
Drop(l) ==
    /\ Live(l) /\ l \notin lost /\ drops < MaxDrops
    /\ lost' = lost \cup {l}
    /\ drops' = drops + 1
    /\ UNCHANGED <<pageVars, ready, serverVars, outages, errors>>

Outage ==
    /\ up /\ outages < MaxOutages
    /\ up' = FALSE
    /\ lost' = lost \cup {l \in Links : Live(l)}
    /\ endpoint' = [l \in Links |-> "none"]
    /\ connections' = {} /\ task' = "none" /\ deaf' = {}
    /\ outages' = outages + 1
    /\ UNCHANGED <<pageVars, ready, drops, errors>>

Restart ==
    /\ ~up
    /\ up' = TRUE
    /\ UNCHANGED <<pageVars, ready, lost, endpoint, connections, task, deaf, boundVars>>

-----------------------------------------------------------------------------
PageStep(p) ==
    \/ TicketRefused(p) \/ TicketArrives(p) \/ TimerFires(p)
    \/ \E s \in Sockets : OnOpen(p, s) \/ OnClose(p, s)

ServerStep(l) == Arrive(l) \/ Accept(l) \/ Receive(l)

Next ==
    \/ \E p \in Pages : Subscribe(p) \/ Unsubscribe(p) \/ PageStep(p)
    \/ \E l \in Links : ServerStep(l) \/ SendFails(l) \/ Drop(l)
    \/ RedisError \/ Outage \/ Restart

Spec == Init /\ [][Next]_vars

\* Events are delivered, coroutines run on, and the host restarts the server.
FairSpec ==
    /\ Spec
    /\ \A p \in Pages : WF_vars(PageStep(p))
    /\ \A l \in Links : WF_vars(ServerStep(l))
    /\ WF_vars(Restart)

-----------------------------------------------------------------------------
(***************************************************************************)
(* Properties                                                              *)
(***************************************************************************)

\* Every variable has the shape its declaration describes.
TypeOK ==
    /\ handlers \in [Pages -> 0..MaxHandlers]
    /\ destroyed \in [Pages -> BOOLEAN]
    /\ status \in [Pages -> {"connecting", "connected", "disconnected", "reconnecting"}]
    /\ ws \in [Pages -> Sockets \cup {NoSocket}]
    /\ timer \in [Pages -> BOOLEAN]
    /\ tickets \in [Pages -> 0..1]
    /\ refused \subseteq Pages
    /\ ready \in [Links -> {"connecting", "open", "closing", "closed"}]
    /\ lost \subseteq Links
    /\ up \in BOOLEAN
    /\ endpoint \in [Links -> {"none", "accepting", "receiving"}]
    /\ connections \subseteq Links /\ deaf \subseteq Links
    /\ task \in {"none", "running", "done"}
    /\ drops \in 0..MaxDrops /\ outages \in 0..MaxOutages /\ errors \in 0..MaxErrors

\* A page has one connection attempt at a time: one ticket request, or one
\* armed timer, or one live socket.  Two would deliver every alert twice, and
\* disconnect() would close only one of them.
OneConnection ==
    \A p \in Pages :
        /\ timer[p] => tickets[p] = 0
        /\ \A s \in Sockets : Live(<<p, s>>) =>
              /\ tickets[p] = 0 /\ ~timer[p]
              /\ ws[p] = s

\* The badge says connected exactly while the current socket is open.
StatusIsHonest == \A p \in Pages : status[p] = "connected" <=> IsOpen(p)

\* A socket that was accepted after the Redis subscription last ended has a
\* running one; only those that were there before may have become deaf.
NewcomersAreBridged == connections \subseteq deaf \/ task = "running"

\* A page that nobody listens on any more ends without a socket or a timer, and
\* the server forgets it, whatever it was doing when the last handler left.
UnsubscribedIsReleased ==
    \A p \in Pages :
        destroyed[p] ~> [](/\ ~timer[p]
                           /\ \A s \in Sockets : /\ ready[<<p, s>>] = "closed"
                                                 /\ <<p, s>> \notin connections)

Connected(p) ==
    IsOpen(p) /\ <<p, ws[p]>> \in connections /\ status[p] = "connected"

\* However often its connection drops and the server restarts, a page on which
\* somebody listens ends up connected, if no ticket request of it ever failed
\* and it was never without a handler before.
LiveUnlessRefused ==
    \A p \in Pages :
        <>[](handlers[p] > 0 /\ ~destroyed[p] /\ p \notin refused) => <>[]Connected(p)

\* A page on which somebody listens ends up connected.
SubscribedIsLive ==
    \A p \in Pages : <>[](handlers[p] > 0) => <>[]Connected(p)
=============================================================================
