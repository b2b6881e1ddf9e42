-------------------------- MODULE LiveAlertsProofs --------------------------
(***************************************************************************)
(* Proofs about LiveAlerts, for any number of pages and sockets: a page    *)
(* has one connection at a time, its status is honest, and newcomers are   *)
(* bridged to Redis.                                                       *)
(***************************************************************************)
EXTENDS LiveAlerts, TLAPS

NoneLive(p) == \A s \in Sockets : ~Live(<<p, s>>)

\* A page that has no handler yet has not begun to connect.
IdleUntilSubscribed ==
    \A p \in Pages : handlers[p] = 0 /\ ~destroyed[p] =>
                        tickets[p] = 0 /\ ~timer[p] /\ NoneLive(p)

\* A destroyed page has let go of its socket, and only such a page closes one.
DestroyedIsReleased ==
    \A p \in Pages :
        /\ destroyed[p] => ~timer[p] /\ ws[p] = NoSocket /\ NoneLive(p)
        /\ \A s \in Sockets : ready[<<p, s>>] = "closing" => destroyed[p]

\* A connection that ended awaits its close event.
LostIsNotClosed == \A l \in lost : ready[l] # "closed"

\* Whoever registers has an endpoint, and endpoints see to the subscription.
EndpointsAreBridged ==
    /\ \A l \in connections : endpoint[l] # "none"
    /\ (\A l \in Links : endpoint[l] # "none" => l \in deaf) \/ task = "running"

ClientInv ==
    /\ TypeOK
    /\ IdleUntilSubscribed /\ DestroyedIsReleased /\ LostIsNotClosed
    /\ OneConnection /\ StatusIsHonest

IInv == ClientInv /\ EndpointsAreBridged

\* The steps of the server leave the client's part alone.
LEMMA ServerLeavesClient ==
    ASSUME ClientInv, TypeOK', UNCHANGED <<pageVars, ready, lost>>
    PROVE  ClientInv'
<1>1. UNCHANGED <<handlers, destroyed, status, ws, timer, tickets, ready, lost>>
  BY DEF pageVars
<1>2. QED
  BY <1>1 DEF ClientInv, IdleUntilSubscribed, DestroyedIsReleased, LostIsNotClosed,
     OneConnection, StatusIsHonest, NoneLive, Live, IsOpen

\* The client's steps leave the server's part alone.
LEMMA ClientLeavesServer ==
    ASSUME EndpointsAreBridged, UNCHANGED serverVars
    PROVE  EndpointsAreBridged'
BY DEF EndpointsAreBridged, serverVars

\* connect() begins an attempt only when none is under way.
LEMMA ConnectStep ==
    ASSUME ClientInv, NEW p \in Pages, Connect(p), timer' \in [Pages -> BOOLEAN],
           UNCHANGED <<destroyed, ws, ready, lost>>,
           tickets[p] = 0, NoneLive(p), ~timer'[p],
           \A q \in Pages : q # p => timer'[q] = timer[q]
    PROVE  /\ tickets' \in [Pages -> 0..1]
           /\ status' \in [Pages -> {"connecting", "connected", "disconnected", "reconnecting"}]
           /\ DestroyedIsReleased' /\ LostIsNotClosed' /\ OneConnection'
           /\ StatusIsHonest'
           /\ \A q \in Pages : q # p => tickets'[q] = tickets[q]
<1>1. ~IsOpen(p)
  BY DEF NoneLive, Live, IsOpen, ClientInv, TypeOK
<1>2. CASE destroyed[p]
  <2>1. UNCHANGED <<status, tickets>>
    BY <1>2 DEF Connect
  <2>2. QED
    BY <2>1 DEF ClientInv, TypeOK, DestroyedIsReleased, LostIsNotClosed, OneConnection,
       StatusIsHonest, NoneLive, Live, IsOpen
<1>3. CASE ~destroyed[p]
  <2>1. /\ status' = [status EXCEPT ![p] = "connecting"]
        /\ tickets' = [tickets EXCEPT ![p] = @ + 1]
    BY <1>1, <1>3 DEF Connect
  <2>2. tickets' \in [Pages -> 0..1] /\ tickets'[p] = 1
    BY <2>1 DEF ClientInv, TypeOK
  <2>3. DestroyedIsReleased'
    BY <1>3 DEF ClientInv, TypeOK, DestroyedIsReleased, NoneLive, Live
  <2>4. OneConnection'
    BY <2>1, <2>2 DEF ClientInv, TypeOK, OneConnection, NoneLive, Live
  <2>5. StatusIsHonest'
    BY <1>1, <2>1 DEF ClientInv, TypeOK, StatusIsHonest, IsOpen
  <2>6. QED
    BY <2>1, <2>2, <2>3, <2>4, <2>5 DEF ClientInv, TypeOK, LostIsNotClosed
<1>4. QED
  BY <1>2, <1>3

LEMMA SubscribeStep ==
    ASSUME ClientInv, NEW p \in Pages, Subscribe(p)
    PROVE  ClientInv'
<1>1. /\ handlers' \in [Pages -> 0..MaxHandlers] /\ handlers'[p] # 0
      /\ \A q \in Pages : q # p => handlers'[q] = handlers[q]
  BY LiveAlertsAssumption DEF Subscribe, ClientInv, TypeOK
<1>2. UNCHANGED <<destroyed, ws, timer, refused, ready, lost, up, endpoint, connections,
                  task, deaf, drops, outages, errors>>
  BY DEF Subscribe, serverVars, boundVars
<1>3. CASE Connect(p) /\ ~destroyed[p] /\ handlers[p] = 0
  <2>1. tickets[p] = 0 /\ ~timer[p] /\ NoneLive(p)
    BY <1>3 DEF ClientInv, IdleUntilSubscribed
  <2>2. timer' \in [Pages -> BOOLEAN] /\ ~timer'[p]
        /\ \A q \in Pages : q # p => timer'[q] = timer[q]
    BY <1>2, <2>1 DEF ClientInv, TypeOK
  <2>3. /\ tickets' \in [Pages -> 0..1]
        /\ status' \in [Pages -> {"connecting", "connected", "disconnected", "reconnecting"}]
        /\ DestroyedIsReleased' /\ LostIsNotClosed' /\ OneConnection' /\ StatusIsHonest'
        /\ \A q \in Pages : q # p => tickets'[q] = tickets[q]
    BY <1>2, <1>3, <2>1, <2>2, ConnectStep
  <2>4. TypeOK'
    BY <1>1, <1>2, <2>3 DEF ClientInv, TypeOK
  <2>5. IdleUntilSubscribed'
    BY <1>1, <1>2, <2>3 DEF ClientInv, TypeOK, IdleUntilSubscribed, NoneLive, Live
  <2>6. QED
    BY <2>3, <2>4, <2>5 DEF ClientInv
<1>4. CASE UNCHANGED <<status, tickets>>
  <2>1. TypeOK'
    BY <1>1, <1>2, <1>4 DEF ClientInv, TypeOK
  <2>2. QED
    BY <1>1, <1>2, <1>4, <2>1
    DEF ClientInv, IdleUntilSubscribed, DestroyedIsReleased, LostIsNotClosed,
        OneConnection, StatusIsHonest, NoneLive, Live, IsOpen
<1>5. QED
  BY <1>3, <1>4 DEF Subscribe, Connect

LEMMA UnsubscribeStep ==
    ASSUME ClientInv, NEW p \in Pages, Unsubscribe(p)
    PROVE  ClientInv'
<1>1. /\ handlers' \in [Pages -> 0..MaxHandlers] /\ handlers[p] \in Nat /\ handlers[p] > 0
      /\ handlers'[p] = handlers[p] - 1
      /\ \A q \in Pages : q # p => handlers'[q] = handlers[q]
  BY LiveAlertsAssumption DEF Unsubscribe, ClientInv, TypeOK
<1>2. UNCHANGED <<tickets, refused, lost, up, endpoint, connections,
                  task, deaf, drops, outages, errors>>
  BY DEF Unsubscribe, serverVars, boundVars
<1>3. CASE handlers[p] = 1
  <2>1. Disconnect(p)
    BY <1>3 DEF Unsubscribe
  <2>2. /\ destroyed' = [destroyed EXCEPT ![p] = TRUE]
        /\ timer' = [timer EXCEPT ![p] = FALSE]
        /\ ws' = [ws EXCEPT ![p] = NoSocket]
        /\ status' = [status EXCEPT ![p] = "disconnected"]
        /\ ready' \in [Links -> {"connecting", "open", "closing", "closed"}]
        /\ \A l \in Links : ready'[l] = IF l = <<p, ws[p]>> /\ ready[l] # "closed"
                                        THEN "closing" ELSE ready[l]
    BY <2>1 DEF Disconnect, ClientInv, TypeOK
  <2>3. TypeOK'
    BY <1>1, <1>2, <2>2 DEF ClientInv, TypeOK
  <2>4. \A s \in Sockets : <<p, s>> \in Links /\ ready'[<<p, s>>] \notin {"connecting", "open"}
    <3>1. SUFFICES ASSUME NEW s \in Sockets
                   PROVE  <<p, s>> \in Links /\ ready'[<<p, s>>] \notin {"connecting", "open"}
      OBVIOUS
    <3>2. <<p, s>> \in Links
      BY DEF Links
    <3>3. CASE ws[p] = s
      BY <2>2, <3>2, <3>3
    <3>4. CASE ws[p] # s
      <4>1. ~Live(<<p, s>>)
        BY <3>4 DEF ClientInv, OneConnection
      <4>2. QED
        BY <2>2, <3>2, <3>4, <4>1 DEF Live
    <3>5. QED
      BY <3>3, <3>4
  <2>5. \A q \in Pages, s \in Sockets : q # p => ready'[<<q, s>>] = ready[<<q, s>>]
    BY <2>2 DEF Links
  <2>6. IdleUntilSubscribed'
    BY <1>1, <1>2, <2>2, <2>5 DEF ClientInv, TypeOK, IdleUntilSubscribed, NoneLive, Live
  <2>7. DestroyedIsReleased'
    BY <2>2, <2>4, <2>5 DEF ClientInv, TypeOK, DestroyedIsReleased, NoneLive, Live
  <2>8. LostIsNotClosed'
    BY <1>2, <2>2 DEF ClientInv, TypeOK, LostIsNotClosed
  <2>9. OneConnection'
    BY <1>2, <2>2, <2>4, <2>5 DEF ClientInv, TypeOK, OneConnection, Live
  <2>10. StatusIsHonest'
    BY <2>2, <2>5 DEF ClientInv, TypeOK, StatusIsHonest, IsOpen
  <2>11. QED
    BY <2>3, <2>6, <2>7, <2>8, <2>9, <2>10 DEF ClientInv
<1>4. CASE handlers[p] # 1
  <2>1. UNCHANGED <<destroyed, timer, ready, ws, status>>
    BY <1>4 DEF Unsubscribe
  <2>2. TypeOK'
    BY <1>1, <1>2, <2>1 DEF ClientInv, TypeOK
  <2>3. handlers'[p] # 0
    BY <1>1, <1>4
  <2>4. QED
    BY <1>1, <1>2, <2>1, <2>2, <2>3
    DEF ClientInv, IdleUntilSubscribed, DestroyedIsReleased, LostIsNotClosed,
        OneConnection, StatusIsHonest, NoneLive, Live, IsOpen
<1>5. QED
  BY <1>3, <1>4

LEMMA TicketRefusedStep ==
    ASSUME ClientInv, NEW p \in Pages, TicketRefused(p)
    PROVE  ClientInv'
<1>1. /\ tickets' = [tickets EXCEPT ![p] = @ - 1]
      /\ status' = [status EXCEPT ![p] = "disconnected"]
      /\ refused' = refused \cup {p}
      /\ UNCHANGED <<handlers, destroyed, ws, timer, ready, lost, up, endpoint, connections,
                     task, deaf, drops, outages, errors>>
  BY DEF TicketRefused, serverVars, boundVars
<1>2. tickets[p] = 1 /\ tickets' \in [Pages -> 0..1]
  BY <1>1 DEF TicketRefused, ClientInv, TypeOK
<1>3. TypeOK'
  BY <1>1, <1>2 DEF ClientInv, TypeOK
<1>4. ~IsOpen(p)
  BY <1>2 DEF ClientInv, TypeOK, OneConnection, Live, IsOpen
<1>5. StatusIsHonest'
  BY <1>1, <1>4 DEF ClientInv, TypeOK, StatusIsHonest, IsOpen
<1>6. QED
  BY <1>1, <1>2, <1>3, <1>5
  DEF ClientInv, TypeOK, IdleUntilSubscribed, DestroyedIsReleased, LostIsNotClosed,
      OneConnection, NoneLive, Live

LEMMA TicketArrivesStep ==
    ASSUME ClientInv, NEW p \in Pages, TicketArrives(p)
    PROVE  ClientInv'
<1>1. /\ tickets' = [tickets EXCEPT ![p] = @ - 1]
      /\ UNCHANGED <<handlers, destroyed, status, timer, refused, lost, up, endpoint,
                     connections, task, deaf, drops, outages, errors>>
  BY DEF TicketArrives, serverVars, boundVars
<1>2. tickets[p] = 1 /\ tickets'[p] = 0 /\ tickets' \in [Pages -> 0..1]
      /\ \A q \in Pages : q # p => tickets'[q] = tickets[q]
  BY <1>1 DEF TicketArrives, ClientInv, TypeOK
<1>3. NoneLive(p) /\ ~timer[p] /\ ~IsOpen(p)
  BY <1>2 DEF ClientInv, TypeOK, OneConnection, NoneLive, Live, IsOpen
<1>4. CASE UNCHANGED <<ready, ws>>
  <2>1. TypeOK'
    BY <1>1, <1>2, <1>4 DEF ClientInv, TypeOK
  <2>2. QED
    BY <1>1, <1>2, <1>3, <1>4, <2>1
    DEF ClientInv, TypeOK, IdleUntilSubscribed, DestroyedIsReleased, LostIsNotClosed,
        OneConnection, StatusIsHonest, NoneLive, Live, IsOpen
<1>5. CASE ~destroyed[p] /\ Open(p)
  <2>1. PICK s \in Sockets : /\ Unused(<<p, s>>)
                             /\ ready' = [ready EXCEPT ![<<p, s>>] = "connecting"]
                             /\ ws' = [ws EXCEPT ![p] = s]
    BY <1>5 DEF Open
  <2>2. <<p, s>> \in Links /\ s # NoSocket /\ ready[<<p, s>>] = "closed"
    BY <2>1, LiveAlertsAssumption DEF Links, Unused
  <2>3. \A q \in Pages, t \in Sockets :
            /\ <<q, t>> \in Links
            /\ <<q, t>> # <<p, s>> => ready'[<<q, t>>] = ready[<<q, t>>]
    BY <2>1 DEF ClientInv, TypeOK, Links
  <2>4. ready'[<<p, s>>] = "connecting" /\ ws'[p] = s
        /\ \A q \in Pages : q # p => ws'[q] = ws[q]
    BY <2>1, <2>2 DEF ClientInv, TypeOK
  <2>5. TypeOK'
    BY <1>1, <1>2, <2>1, <2>2 DEF ClientInv, TypeOK
  <2>6. IdleUntilSubscribed'
    <3>1. handlers[p] # 0
      BY <1>2, <1>5 DEF ClientInv, IdleUntilSubscribed
    <3>2. \A q \in Pages : q # p => (NoneLive(q) => NoneLive(q)')
      BY <2>3 DEF NoneLive, Live
    <3>3. QED
      BY <1>1, <1>2, <3>1, <3>2 DEF ClientInv, IdleUntilSubscribed
  <2>7. DestroyedIsReleased'
    BY <1>1, <1>5, <2>3, <2>4 DEF ClientInv, DestroyedIsReleased, NoneLive, Live
  <2>8. LostIsNotClosed'
    BY <1>1, <2>1, <2>2 DEF ClientInv, TypeOK, LostIsNotClosed
  <2>9. OneConnection'
    BY <1>1, <1>2, <1>3, <2>3, <2>4 DEF ClientInv, OneConnection, NoneLive, Live
  <2>10. StatusIsHonest'
    <3>1. ~IsOpen(p)'
      BY <2>4 DEF IsOpen
    <3>2. status[p] # "connected"
      BY <1>3 DEF ClientInv, StatusIsHonest
    <3>3. ASSUME NEW q \in Pages, q # p
          PROVE  IsOpen(q)' <=> IsOpen(q)
      <4>1. ws'[q] = ws[q] /\ (ws[q] # NoSocket => ws[q] \in Sockets)
        BY <2>4, <3>3 DEF ClientInv, TypeOK
      <4>2. QED
        BY <2>3, <3>3, <4>1 DEF IsOpen
    <3>4. QED
      BY <1>1, <3>1, <3>2, <3>3 DEF ClientInv, StatusIsHonest
  <2>11. QED
    BY <2>5, <2>6, <2>7, <2>8, <2>9, <2>10 DEF ClientInv
<1>6. QED
  BY <1>4, <1>5 DEF TicketArrives

LEMMA OnOpenStep ==
    ASSUME ClientInv, NEW p \in Pages, NEW s \in Sockets, OnOpen(p, s)
    PROVE  ClientInv'
<1>1. /\ ready[<<p, s>>] = "connecting"
      /\ ready' = [ready EXCEPT ![<<p, s>>] = "open"]
      /\ status' = [status EXCEPT ![p] = "connected"]
      /\ UNCHANGED <<handlers, destroyed, ws, timer, tickets, refused, lost, up, endpoint,
                     connections, task, deaf, drops, outages, errors>>
  BY DEF OnOpen, serverVars, boundVars
<1>2. <<p, s>> \in Links /\ Live(<<p, s>>) /\ ws[p] = s /\ s # NoSocket
  BY <1>1, LiveAlertsAssumption DEF Links, Live, ClientInv, OneConnection
<1>3. TypeOK'
  BY <1>1, <1>2 DEF ClientInv, TypeOK
<1>4. \A q \in Pages, t \in Sockets : Live(<<q, t>>)' <=> Live(<<q, t>>)
  BY <1>1, <1>2 DEF ClientInv, TypeOK, Live, Links
<1>5. \A q \in Pages, t \in Sockets : ready'[<<q, t>>] = "closing" => ready[<<q, t>>] = "closing"
  BY <1>1, <1>2 DEF ClientInv, TypeOK, Links
<1>6. StatusIsHonest'
  <2>1. IsOpen(p)'
    BY <1>1, <1>2 DEF ClientInv, TypeOK, IsOpen
  <2>2. \A q \in Pages : q # p => (IsOpen(q)' <=> IsOpen(q))
    BY <1>1 DEF ClientInv, TypeOK, IsOpen
  <2>3. QED
    BY <1>1, <2>1, <2>2 DEF ClientInv, TypeOK, StatusIsHonest
<1>7. LostIsNotClosed'
  BY <1>1 DEF ClientInv, TypeOK, LostIsNotClosed
<1>8. IdleUntilSubscribed' /\ DestroyedIsReleased' /\ OneConnection'
  BY <1>1, <1>4, <1>5
  DEF ClientInv, IdleUntilSubscribed, DestroyedIsReleased, OneConnection, NoneLive
<1>9. QED
  BY <1>3, <1>6, <1>7, <1>8 DEF ClientInv

LEMMA OnCloseStep ==
    ASSUME ClientInv, NEW p \in Pages, NEW s \in Sockets, OnClose(p, s)
    PROVE  ClientInv'
<1>1. /\ ready[<<p, s>>] = "closing" \/ <<p, s>> \in lost
      /\ ready' = [ready EXCEPT ![<<p, s>>] = "closed"]
      /\ lost' = lost \ {<<p, s>>}
      /\ timer' = [timer EXCEPT ![p] = ~destroyed[p]]
      /\ status' = [status EXCEPT ![p] = IF destroyed[p] THEN "disconnected"
                                         ELSE "reconnecting"]
      /\ UNCHANGED <<handlers, destroyed, ws, tickets, refused, up, endpoint,
                     connections, task, deaf, drops, outages, errors>>
  BY DEF OnClose, serverVars, boundVars
<1>2. <<p, s>> \in Links
  BY DEF Links
<1>3. TypeOK'
  BY <1>1, <1>2 DEF ClientInv, TypeOK
<1>4. \A q \in Pages, t \in Sockets :
          ready'[<<q, t>>] = IF q = p /\ t = s THEN "closed" ELSE ready[<<q, t>>]
  BY <1>1, <1>2 DEF ClientInv, TypeOK, Links
<1>5. \A q \in Pages : q # p => timer'[q] = timer[q] /\ status'[q] = status[q]
  BY <1>1 DEF ClientInv, TypeOK
<1>6. timer'[p] = ~destroyed[p] /\ status'[p] # "connected"
  BY <1>1 DEF ClientInv, TypeOK
<1>7. ASSUME ~destroyed[p]
      PROVE  Live(<<p, s>>) /\ ws[p] = s /\ tickets[p] = 0 /\ handlers[p] # 0
  <2>1. ready[<<p, s>>] # "closing"
    BY <1>7 DEF ClientInv, DestroyedIsReleased
  <2>2. ready[<<p, s>>] # "closed"
    BY <1>1, <2>1 DEF ClientInv, LostIsNotClosed
  <2>3. Live(<<p, s>>)
    BY <1>2, <2>1, <2>2 DEF ClientInv, TypeOK, Live
  <2>4. QED
    BY <1>7, <2>3 DEF ClientInv, OneConnection, IdleUntilSubscribed, NoneLive
<1>8. NoneLive(p)'
  <2>1. CASE destroyed[p]
    BY <1>4, <2>1 DEF ClientInv, DestroyedIsReleased, NoneLive, Live
  <2>2. CASE ~destroyed[p]
    <3>1. \A t \in Sockets : Live(<<p, t>>) => t = s
      BY <1>7, <2>2 DEF ClientInv, OneConnection
    <3>2. QED
      BY <1>4, <3>1 DEF NoneLive, Live
  <2>3. QED
    BY <2>1, <2>2
<1>9. \A q \in Pages : q # p => (NoneLive(q)' <=> NoneLive(q))
  BY <1>4 DEF NoneLive, Live
<1>10. IdleUntilSubscribed'
  BY <1>1, <1>5, <1>7, <1>8, <1>9 DEF ClientInv, IdleUntilSubscribed
<1>11. DestroyedIsReleased'
  <2>1. ASSUME NEW q \in Pages, destroyed'[q]
        PROVE  ~timer'[q] /\ ws'[q] = NoSocket /\ NoneLive(q)'
    <3>1. destroyed[q] /\ ~timer[q] /\ ws'[q] = NoSocket /\ NoneLive(q)
      BY <1>1, <2>1 DEF ClientInv, DestroyedIsReleased
    <3>2. ~timer'[q]
      BY <1>5, <1>6, <3>1
    <3>3. NoneLive(q)'
      BY <1>8, <1>9, <3>1
    <3>4. QED
      BY <3>1, <3>2, <3>3
  <2>2. ASSUME NEW q \in Pages, NEW t \in Sockets, ready'[<<q, t>>] = "closing"
        PROVE  destroyed'[q]
    <3>1. ready[<<q, t>>] = "closing"
      BY <1>4, <2>2
    <3>2. QED
      BY <1>1, <3>1 DEF ClientInv, DestroyedIsReleased
  <2>3. QED
    BY <2>1, <2>2 DEF DestroyedIsReleased
<1>12. LostIsNotClosed'
  BY <1>1 DEF ClientInv, TypeOK, LostIsNotClosed
<1>13. OneConnection'
  <2>1. ASSUME NEW q \in Pages, q # p
        PROVE  \A t \in Sockets : Live(<<q, t>>)' <=> Live(<<q, t>>)
    BY <1>4, <2>1 DEF Live
  <2>2. QED
    BY <1>1, <1>5, <1>6, <1>7, <1>8, <2>1 DEF ClientInv, OneConnection, NoneLive
<1>14. StatusIsHonest'
  <2>1. ~IsOpen(p)'
    <3>1. ws[p] # NoSocket => ws[p] \in Sockets
      BY DEF ClientInv, TypeOK
    <3>2. QED
      BY <1>1, <1>8, <3>1 DEF IsOpen, NoneLive, Live
  <2>2. ASSUME NEW q \in Pages, q # p
        PROVE  IsOpen(q)' <=> IsOpen(q)
    <3>1. ws[q] # NoSocket => ws[q] \in Sockets
      BY DEF ClientInv, TypeOK
    <3>2. QED
      BY <1>1, <1>4, <2>2, <3>1 DEF IsOpen
  <2>3. QED
    BY <1>5, <1>6, <2>1, <2>2 DEF ClientInv, StatusIsHonest
<1>15. QED
  BY <1>3, <1>10, <1>11, <1>12, <1>13, <1>14 DEF ClientInv

LEMMA TimerFiresStep ==
    ASSUME ClientInv, NEW p \in Pages, TimerFires(p)
    PROVE  ClientInv'
<1>1. /\ timer[p] /\ timer' = [timer EXCEPT ![p] = FALSE] /\ Connect(p)
      /\ UNCHANGED <<handlers, destroyed, ws, refused, ready, lost, up, endpoint,
                     connections, task, deaf, drops, outages, errors>>
  BY DEF TimerFires, serverVars, boundVars
<1>2. tickets[p] = 0 /\ NoneLive(p) /\ handlers[p] # 0 /\ ~destroyed[p]
  BY <1>1 DEF ClientInv, OneConnection, NoneLive, IdleUntilSubscribed, DestroyedIsReleased
<1>3. timer' \in [Pages -> BOOLEAN] /\ ~timer'[p]
      /\ \A q \in Pages : q # p => timer'[q] = timer[q]
  BY <1>1 DEF ClientInv, TypeOK
<1>4. /\ tickets' \in [Pages -> 0..1]
      /\ status' \in [Pages -> {"connecting", "connected", "disconnected", "reconnecting"}]
      /\ DestroyedIsReleased' /\ LostIsNotClosed' /\ OneConnection' /\ StatusIsHonest'
      /\ \A q \in Pages : q # p => tickets'[q] = tickets[q]
  BY <1>1, <1>2, <1>3, ConnectStep
<1>5. TypeOK'
  BY <1>1, <1>3, <1>4 DEF ClientInv, TypeOK
<1>6. IdleUntilSubscribed'
  BY <1>1, <1>2, <1>3, <1>4 DEF ClientInv, IdleUntilSubscribed, NoneLive, Live
<1>7. QED
  BY <1>4, <1>5, <1>6 DEF ClientInv

\* Breaking connections changes nothing that the page can see yet.
LEMMA LoseStep ==
    ASSUME ClientInv, TypeOK', UNCHANGED <<pageVars, ready>>,
           \A l \in lost' : l \in lost \/ Live(l)
    PROVE  ClientInv'
<1>1. UNCHANGED <<handlers, destroyed, status, ws, timer, tickets>>
  BY DEF pageVars
<1>2. LostIsNotClosed'
  BY DEF ClientInv, LostIsNotClosed, Live
<1>3. QED
  BY <1>1, <1>2 DEF ClientInv, IdleUntilSubscribed, DestroyedIsReleased, OneConnection,
     StatusIsHonest, NoneLive, Live, IsOpen

\* Every step keeps the client's invariant.
LEMMA ClientStep == ClientInv /\ [Next]_vars => ClientInv'
<1> SUFFICES ASSUME ClientInv, [Next]_vars
             PROVE  ClientInv'
  OBVIOUS
<1>1. ASSUME NEW p \in Pages, PageStep(p)
      PROVE  ClientInv'
  BY <1>1, TicketRefusedStep, TicketArrivesStep, TimerFiresStep, OnOpenStep, OnCloseStep
  DEF PageStep
<1>2. ASSUME NEW l \in Links, ServerStep(l) \/ SendFails(l)
      PROVE  ClientInv'
  <2>1. UNCHANGED <<pageVars, ready, lost, up, boundVars>>
    BY <1>2 DEF ServerStep, Arrive, Accept, Receive, SendFails
  <2>2. TypeOK'
    BY <1>2, <2>1
    DEF ClientInv, TypeOK, pageVars, boundVars, ServerStep, Arrive, Accept, Receive, SendFails
  <2>3. QED
    BY <2>1, <2>2, ServerLeavesClient
<1>3. ASSUME NEW l \in Links, Drop(l)
      PROVE  ClientInv'
  <2>1. TypeOK'
    BY <1>3, LiveAlertsAssumption
    DEF ClientInv, TypeOK, Drop, pageVars, serverVars, boundVars
  <2>2. QED
    BY <1>3, <2>1, LoseStep DEF Drop
<1>4. CASE RedisError
  <2>1. TypeOK'
    BY <1>4, LiveAlertsAssumption DEF ClientInv, TypeOK, RedisError, pageVars
  <2>2. QED
    BY <1>4, <2>1, ServerLeavesClient DEF RedisError
<1>5. CASE Outage
  <2>1. lost' \subseteq Links
    BY <1>5 DEF ClientInv, TypeOK, Outage
  <2>2. up' \in BOOLEAN /\ endpoint' \in [Links -> {"none", "accepting", "receiving"}]
    BY <1>5 DEF Outage
  <2>3. outages' \in 0..MaxOutages
    BY <1>5, LiveAlertsAssumption DEF ClientInv, TypeOK, Outage
  <2>4. TypeOK'
    BY <1>5, <2>1, <2>2, <2>3 DEF ClientInv, TypeOK, Outage, pageVars
  <2>5. QED
    BY <1>5, <2>4, LoseStep DEF Outage
<1>6. CASE Restart
  <2>1. TypeOK'
    BY <1>6 DEF ClientInv, TypeOK, Restart, pageVars, boundVars
  <2>2. QED
    BY <1>6, <2>1, ServerLeavesClient DEF Restart
<1>7. CASE UNCHANGED vars
  <2>1. TypeOK'
    BY <1>7 DEF ClientInv, TypeOK, vars, pageVars, serverVars, boundVars
  <2>2. QED
    BY <1>7, <2>1, ServerLeavesClient DEF vars
<1>8. QED
  BY <1>1, <1>2, <1>3, <1>4, <1>5, <1>6, <1>7, SubscribeStep, UnsubscribeStep DEF Next

\* Every step keeps the server's invariant.
LEMMA BridgeStep == EndpointsAreBridged /\ TypeOK /\ [Next]_vars => EndpointsAreBridged'
<1> SUFFICES ASSUME EndpointsAreBridged, TypeOK, [Next]_vars
             PROVE  EndpointsAreBridged'
  OBVIOUS
<1>1. ASSUME NEW p \in Pages, Subscribe(p) \/ Unsubscribe(p) \/ PageStep(p)
      PROVE  EndpointsAreBridged'
  <2>1. UNCHANGED serverVars
    BY <1>1 DEF Subscribe, Unsubscribe, PageStep, TicketRefused, TicketArrives, TimerFires,
       OnOpen, OnClose
  <2>2. QED
    BY <2>1, ClientLeavesServer
<1>2. ASSUME NEW l \in Links, ServerStep(l) \/ SendFails(l)
      PROVE  EndpointsAreBridged'
  BY <1>2 DEF ServerStep, Arrive, Accept, Receive, SendFails, EndpointsAreBridged, TypeOK
<1>3. ASSUME NEW l \in Links, Drop(l)
      PROVE  EndpointsAreBridged'
  BY <1>3, ClientLeavesServer DEF Drop
<1>4. CASE RedisError
  BY <1>4 DEF RedisError, EndpointsAreBridged, TypeOK
<1>5. CASE Outage
  BY <1>5 DEF Outage, EndpointsAreBridged, TypeOK
<1>6. CASE Restart
  BY <1>6 DEF Restart, EndpointsAreBridged
<1>7. CASE UNCHANGED vars
  BY <1>7, ClientLeavesServer DEF vars
<1>8. QED
  BY <1>1, <1>2, <1>3, <1>4, <1>5, <1>6, <1>7 DEF Next

LEMMA InitInv == Init => IInv
<1> SUFFICES ASSUME Init
             PROVE  IInv
  OBVIOUS
<1> USE LiveAlertsAssumption
<1>1. TypeOK
  BY DEF Init, TypeOK
<1>2. IdleUntilSubscribed /\ DestroyedIsReleased /\ LostIsNotClosed /\ OneConnection
  BY DEF Init, IdleUntilSubscribed, DestroyedIsReleased, LostIsNotClosed, OneConnection,
     NoneLive, Live, Links
<1>3. StatusIsHonest
  BY DEF Init, StatusIsHonest, IsOpen
<1>4. EndpointsAreBridged
  BY DEF Init, EndpointsAreBridged
<1>5. QED
  BY <1>1, <1>2, <1>3, <1>4 DEF IInv, ClientInv

LEMMA Inductive == Spec => []IInv
<1>1. IInv /\ [Next]_vars => IInv'
  BY ClientStep, BridgeStep DEF IInv, ClientInv
<1>2. QED
  BY <1>1, InitInv, PTL DEF Spec

\* Every variable of LiveAlerts keeps the shape its declaration describes; in
\* particular connect() never awaits two tickets of one page.
THEOREM TypeCorrect == Spec => []TypeOK
<1>1. IInv => TypeOK
  BY DEF IInv, ClientInv
<1>2. QED
  BY <1>1, Inductive, PTL

\* However handlers, timers, tickets and close events interleave, a page has one
\* connection attempt at a time.
THEOREM OneConnectionPerPage == Spec => []OneConnection
<1>1. IInv => OneConnection
  BY DEF IInv, ClientInv
<1>2. QED
  BY <1>1, Inductive, PTL

\* The status shown is "connected" exactly while the page's socket is open.
THEOREM StatusNeverLies == Spec => []StatusIsHonest
<1>1. IInv => StatusIsHonest
  BY DEF IInv, ClientInv
<1>2. QED
  BY <1>1, Inductive, PTL

\* A socket registered since the Redis subscription last ended has a running one.
THEOREM NewcomersHaveABridge == Spec => []NewcomersAreBridged
<1>1. IInv => NewcomersAreBridged
  BY DEF IInv, ClientInv, TypeOK, EndpointsAreBridged, NewcomersAreBridged
<1>2. QED
  BY <1>1, Inductive, PTL
=============================================================================
