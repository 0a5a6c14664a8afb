----------------------- MODULE WhatsAppSessionsProofs -----------------------
(***************************************************************************)
(* Proofs about the WhatsApp sessions for every set of sessions and phones *)
(* and every number of restarts: the objects keep their types, the status  *)
(* that consumeQR leaves behind tells whether a phone paired, and it is    *)
(* not taken back while the session is in the map.                         *)
(***************************************************************************)
EXTENDS WhatsAppSessions, TLAPS

Events == {"code"} \cup LastEvents
SessionObjects == [status : Statuses, id : Devices \cup {NoDevice}]
Channels == [items : Seq(Events), open : BOOLEAN, live : BOOLEAN]

Typed == TypeOK /\ channel \in [SessionIds -> Channels]

\* An open QR channel has its consumeQR.
Listened == \A s \in SessionIds : channel[s].open => consumer[s] = "on"

\* While consumeQR reads: the phones that paired are the ones counted as in
\* time, and success, reported or still waiting in the channel, means a phone.
Followed ==
    \A s \in SessionIds \ unlinked :
        consumer[s] = "on" =>
            /\ s \in intime <=> session[s].id # NoDevice
            /\ session[s].status = "connected" => session[s].id # NoDevice
            /\ \A i \in 1 .. Len(channel[s].items) :
                  channel[s].items[i] = "success" => session[s].id # NoDevice

\* What consumeQR has still to read: codes and at most one last event, which the
\* channel ends with.  The session is pending until it has read that event.
InOrder ==
    \A s \in SessionIds :
        consumer[s] = "on" =>
            /\ channel[s].open \/ channel[s].items # <<>> => session[s].status = "pending"
            /\ \A i \in 1 .. Len(channel[s].items) :
                  channel[s].items[i] # "code" => i = Len(channel[s].items) /\ ~channel[s].open

IInv == Typed /\ Listened /\ Followed /\ InOrder /\ StatusSettled
----------------------------------------------------------------------------
\* The actions on one session leave the channels of the others alone and keep
\* the type.
LEMMA ChannelsTyped ==
    ASSUME Typed, [Next]_vars
    PROVE  channel' \in [SessionIds -> Channels]
<1> USE DEF Typed, TypeOK
<1>1. ASSUME NEW s \in SessionIds, NEW c \in Channels, channel' = [channel EXCEPT ![s] = c]
      PROVE  channel' \in [SessionIds -> Channels]
  BY <1>1
<1>2. ASSUME NEW s \in SessionIds, QREvent(s) PROVE channel' \in [SessionIds -> Channels]
  <2>1. /\ channel' = [channel EXCEPT ![s].items = Tail(@)]
        /\ channel[s].items # <<>>
        /\ channel[s] \in Channels
    BY <1>2 DEF QREvent
  <2>2. Tail(channel[s].items) \in Seq(Events)
    BY <2>1 DEF Channels
  <2>3. [channel[s] EXCEPT !.items = Tail(@)] \in Channels
    BY <2>1, <2>2 DEF Channels
  <2> QED BY <1>1, <2>1, <2>3
<1>3. ASSUME NEW s \in SessionIds, SendCode(s) PROVE channel' \in [SessionIds -> Channels]
  <2>1. channel' = [channel EXCEPT ![s].items = Append(@, "code")] /\ channel[s] \in Channels
    BY <1>3 DEF SendCode
  <2>2. Append(channel[s].items, "code") \in Seq(Events)
    BY <2>1 DEF Channels, Events
  <2>3. [channel[s] EXCEPT !.items = Append(@, "code")] \in Channels
    BY <2>1, <2>2 DEF Channels
  <2> QED BY <1>1, <2>1, <2>3
<1>4. ASSUME NEW s \in SessionIds, NEW e \in LastEvents, CloseChannel(s, e)
      PROVE  channel' \in [SessionIds -> Channels]
  <2>1. /\ channel' = [channel EXCEPT ![s] = [items |-> Append(channel[s].items, e), open |-> FALSE,
                                              live |-> channel[s].live]]
        /\ channel[s] \in Channels
    BY <1>4 DEF CloseChannel
  <2>2. [items |-> Append(channel[s].items, e), open |-> FALSE, live |-> channel[s].live] \in Channels
    BY <2>1 DEF Channels, Events
  <2> QED BY <1>1, <2>1, <2>2
<1>5. ASSUME NEW s \in SessionIds, EndChannel(s) PROVE channel' \in [SessionIds -> Channels]
  BY <1>5 DEF EndChannel, Channels
<1>6. ASSUME NEW s \in SessionIds, EndClient(s) \/ DisconnectSession(s)
      PROVE  channel' \in [SessionIds -> Channels]
  BY <1>6, ZenonT(40) DEF EndClient, DisconnectSession, Channels
<1>7. ASSUME NEW s \in SessionIds, StartPairing(s) PROVE channel' \in [SessionIds -> Channels]
  BY <1>1, <1>7 DEF StartPairing, Channels
<1>8. CASE Restart
  BY <1>8 DEF Restart, Gone, Channels
<1> QED
  BY <1>2, <1>3, <1>4, <1>5, <1>6, <1>7, <1>8
     DEF Next, vars, StartSession, StartStored, AutoReconnect, ReconnectFails, Consume, QRClosed,
         Pair, Unlink

LEMMA SessionsTyped ==
    ASSUME Typed, [Next]_vars
    PROVE  session' \in [SessionIds -> SessionObjects]
<1> USE DEF Typed, TypeOK
<1>0. session \in [SessionIds -> SessionObjects]
  BY DEF SessionObjects
<1>1. ASSUME NEW s \in SessionIds, NEW x \in Statuses, NEW d \in Devices \cup {NoDevice},
             session' = [session EXCEPT ![s] = [status |-> x, id |-> d]]
      PROVE  session' \in [SessionIds -> SessionObjects]
  BY <1>0, <1>1 DEF SessionObjects
<1>2. ASSUME NEW s \in SessionIds, NEW x \in Statuses, session' = [session EXCEPT ![s].status = x]
      PROVE  session' \in [SessionIds -> SessionObjects]
  BY <1>0, <1>2 DEF SessionObjects
<1>3. ASSUME NEW s \in SessionIds, QREvent(s) PROVE session' \in [SessionIds -> SessionObjects]
  <2> DEFINE event == Head(channel[s].items)
             x == CASE event = "code" -> "pending" [] event = "success" -> "connected" [] OTHER -> event
  <2>1. channel[s].items \in Seq(Events) /\ channel[s].items # <<>>
    BY <1>3 DEF QREvent, Channels
  <2>2. event \in Events
    BY <2>1
  <2>3. x \in Statuses
    BY <2>2 DEF Events, LastEvents, Statuses
  <2>4. session' = [session EXCEPT ![s].status = x]
    BY <1>3 DEF QREvent
  <2> QED BY <1>2, <2>3, <2>4
<1>4. ASSUME NEW s \in SessionIds, QRClosed(s) PROVE session' \in [SessionIds -> SessionObjects]
  <2>1. session[s].status \in Statuses
    BY <1>0 DEF SessionObjects
  <2>2. PICK x \in Statuses : session' = [session EXCEPT ![s].status = x]
    BY <1>4, <2>1 DEF QRClosed, Statuses, LastEvents
  <2> QED BY <1>2, <2>2
<1>5. ASSUME NEW s \in SessionIds, NEW d \in Devices, Pair(s, d)
      PROVE  session' \in [SessionIds -> SessionObjects]
  BY <1>0, <1>5 DEF Pair, SessionObjects
<1>6. ASSUME NEW d \in Devices, Unlink(d) PROVE session' \in [SessionIds -> SessionObjects]
  BY <1>0, <1>6 DEF Unlink, SessionObjects
<1>7. ASSUME NEW s \in SessionIds, StartSession(s) \/ \E d \in Devices : AutoReconnect(d, s)
      PROVE  session' \in [SessionIds -> SessionObjects]
  BY <1>1, <1>7 DEF StartSession, StartStored, StartPairing, AutoReconnect, AddSession, Statuses
<1>8. CASE Restart
  BY <1>8 DEF Restart, Fresh, SessionObjects, Statuses
<1> QED
  BY <1>0, <1>3, <1>4, <1>5, <1>6, <1>7, <1>8
     DEF Next, vars, ReconnectFails, Consume, DisconnectSession, SendCode, EndChannel, EndClient,
         CloseChannel

LEMMA TypedStep == Typed /\ [Next]_vars => Typed'
<1> SUFFICES ASSUME Typed, [Next]_vars PROVE Typed'
  OBVIOUS
<1>1. channel' \in [SessionIds -> Channels]
  BY ChannelsTyped
<1>2. session' \in [SessionIds -> [status : Statuses, id : Devices \cup {NoDevice}]]
  BY SessionsTyped DEF SessionObjects
<1>3. \A s \in SessionIds : channel'[s].items \in Seq({"code"} \cup LastEvents)
                            /\ channel'[s].open \in BOOLEAN /\ channel'[s].live \in BOOLEAN
  BY <1>1 DEF Channels, Events
<1>4. /\ sessions' \subseteq SessionIds
      /\ stored' \subseteq Devices /\ reconnect' \subseteq Devices
      /\ intime' \subseteq SessionIds /\ unlinked' \subseteq SessionIds
  BY DEF Typed, TypeOK, Next, vars, StartSession, StartStored, StartPairing, AddSession, AutoReconnect,
         ReconnectFails, Consume, QREvent, QRClosed, DisconnectSession, SendCode, EndChannel,
         EndClient, CloseChannel, Pair, Unlink, Restart
<1>5. consumer' \in [SessionIds -> {"none", "on", "done"}]
  BY DEF Typed, TypeOK, Next, vars, StartSession, StartStored, StartPairing, AutoReconnect,
         ReconnectFails, Consume, QREvent, QRClosed, DisconnectSession, SendCode, EndChannel,
         EndClient, CloseChannel, Pair, Unlink, Restart
<1>6. restarts' \in 0 .. MaxRestarts
  BY DeviceAssumption
     DEF Typed, TypeOK, Next, vars, StartSession, StartStored, StartPairing, AutoReconnect,
         ReconnectFails, Consume, QREvent, QRClosed, DisconnectSession, SendCode, EndChannel,
         EndClient, CloseChannel, Pair, Unlink, Restart
<1> QED
  BY <1>1, <1>2, <1>3, <1>4, <1>5, <1>6 DEF Typed, TypeOK
----------------------------------------------------------------------------
LEMMA InitHolds == Init => IInv
<1> SUFFICES ASSUME Init PROVE IInv
  OBVIOUS
<1>1. channel \in [SessionIds -> Channels] /\ \A s \in SessionIds : channel[s] = Gone
  BY DEF Init, Gone, Channels
<1>2. Typed
  <2>1. session \in [SessionIds -> [status : Statuses, id : Devices \cup {NoDevice}]]
    BY DEF Init, Fresh, Statuses
  <2>2. \A s \in SessionIds : channel[s].items \in Seq({"code"} \cup LastEvents)
                              /\ channel[s].open \in BOOLEAN /\ channel[s].live \in BOOLEAN
    BY <1>1 DEF Channels, Events
  <2> QED BY <1>1, <2>1, <2>2, DeviceAssumption DEF Init, Typed, TypeOK
<1>3. Listened /\ Followed /\ InOrder /\ StatusSettled
  BY <1>1 DEF Init, Listened, Followed, InOrder, StatusSettled, Gone
<1> QED BY <1>2, <1>3 DEF IInv

\* What the invariant says of one session, so that a step need only be followed
\* where it acts.
Kept(s) ==
    /\ channel[s].open => consumer[s] = "on"
    /\ s \notin unlinked /\ consumer[s] = "on" =>
          /\ s \in intime <=> session[s].id # NoDevice
          /\ session[s].status = "connected" => session[s].id # NoDevice
          /\ \A i \in 1 .. Len(channel[s].items) :
                channel[s].items[i] = "success" => session[s].id # NoDevice
    /\ consumer[s] = "on" =>
          /\ channel[s].open \/ channel[s].items # <<>> => session[s].status = "pending"
          /\ \A i \in 1 .. Len(channel[s].items) :
                channel[s].items[i] # "code" => i = Len(channel[s].items) /\ ~channel[s].open
    /\ s \notin unlinked /\ consumer[s] = "done" => (session[s].status = "connected" <=> s \in intime)

LEMMA KeptIs == (Listened /\ Followed /\ InOrder /\ StatusSettled) <=> \A s \in SessionIds : Kept(s)
  BY DEF Listened, Followed, InOrder, StatusSettled, Kept

\* A step that leaves a session as it was, or only unlinks it, keeps it.
LEMMA Untouched ==
    ASSUME NEW q \in SessionIds, Kept(q), channel'[q] = channel[q], consumer'[q] = consumer[q],
           session'[q] = session[q], q \in intime' <=> q \in intime, q \in unlinked' <=> q \in unlinked
    PROVE  Kept(q)'
  BY DEF Kept

LEMMA KeptStep ==
    ASSUME Typed, Typed', \A s \in SessionIds : Kept(s), [Next]_vars
    PROVE  \A s \in SessionIds : Kept(s)'
<1> USE DEF Typed, TypeOK
<1>1. ASSUME NEW s \in SessionIds, StartSession(s) \/ \E d \in Devices : AutoReconnect(d, s)
      PROVE  \A q \in SessionIds : Kept(q)'
  <2>0. PICK status, device : AddSession(s, status, device)
    BY <1>1 DEF StartSession, StartStored, StartPairing, AutoReconnect
  <2>1. ASSUME NEW q \in SessionIds, q # s PROVE Kept(q)'
    <3>1. session'[q] = session[q] /\ (q \in intime' <=> q \in intime) /\ (q \in unlinked' <=> q \in unlinked)
      BY <2>0, <2>1 DEF AddSession
    <3>2. channel'[q] = channel[q] /\ consumer'[q] = consumer[q]
      BY <1>1, <2>1 DEF StartSession, StartStored, StartPairing, AutoReconnect
    <3> QED BY <3>1, <3>2, Untouched
  <2>2. Kept(s)'
    <3>1. s \in Unused
      BY <1>1 DEF StartSession, StartStored, StartPairing, AutoReconnect
    <3>2. ~channel[s].open
      BY <3>1 DEF Unused, Kept
    <3>3. CASE StartPairing(s)
      <4>1. /\ channel'[s] = [items |-> <<>>, open |-> TRUE, live |-> TRUE]
            /\ consumer'[s] = "on" /\ s \notin intime'
            /\ session'[s] = [status |-> "pending", id |-> NoDevice]
        BY <3>3 DEF StartPairing, AddSession
      <4> QED BY <4>1 DEF Kept
    <3>4. CASE StartStored(s) \/ \E d \in Devices : AutoReconnect(d, s)
      <4>1. channel' = channel /\ consumer'[s] = "none"
        BY <3>4 DEF StartStored, AutoReconnect
      <4> QED BY <3>2, <4>1 DEF Kept
    <3> QED BY <1>1, <3>3, <3>4 DEF StartSession
  <2> QED BY <2>1, <2>2
<1>2. ASSUME NEW s \in SessionIds, QREvent(s) PROVE \A q \in SessionIds : Kept(q)'
  <2>1. \A q \in SessionIds \ {s} : Kept(q)'
    BY <1>2, Untouched DEF QREvent
  <2>2. /\ channel[s].items \in Seq(Events) /\ channel[s].items # <<>>
        /\ channel'[s].items = Tail(channel[s].items) /\ channel'[s].open = channel[s].open
        /\ consumer[s] = "on" /\ consumer' = consumer /\ intime' = intime /\ unlinked' = unlinked
    BY <1>2 DEF QREvent, Channels
  <2>0. channel[s].items[1] \in Events /\ Head(channel[s].items) = channel[s].items[1]
    BY <2>2
  <2>3. session'[s].id = session[s].id
        /\ (session'[s].status = "connected" => channel[s].items[1] = "success")
    BY <1>2, <2>0 DEF QREvent, Events, LastEvents
  <2>4. \A i \in 1 .. Len(channel'[s].items) :
           i + 1 \in 1 .. Len(channel[s].items) /\ channel'[s].items[i] = channel[s].items[i + 1]
    BY <2>2
  <2>5. 1 \in 1 .. Len(channel[s].items)
    BY <2>2
  <2>6. /\ Len(channel'[s].items) = Len(channel[s].items) - 1
        /\ channel'[s].items # <<>> => 1 # Len(channel[s].items)
    <3>1. Len(channel'[s].items) = Len(channel[s].items) - 1 /\ channel'[s].items \in Seq(Events)
      BY <2>2
    <3>2. \A x \in Seq(Events) : x # <<>> => Len(x) # 0
      OBVIOUS
    <3>3. channel'[s].items # <<>> => Len(channel'[s].items) # 0
      BY <3>1, <3>2, Zenon
    <3> QED BY <3>1, <3>3
  <2>7. channel'[s].open \/ channel'[s].items # <<>> => channel[s].items[1] = "code"
    BY <2>2, <2>5, <2>6 DEF Kept
  <2>8. channel[s].items[1] = "code" => session'[s].status = "pending"
    BY <1>2, <2>0 DEF QREvent
  <2>9. \A i \in 1 .. Len(channel'[s].items) :
           channel'[s].items[i] # "code" => i = Len(channel'[s].items) /\ ~channel'[s].open
    BY <2>2, <2>4, <2>6 DEF Kept
  <2>10. Kept(s)'
    BY <2>2, <2>3, <2>4, <2>5, <2>7, <2>8, <2>9 DEF Kept
  <2> QED BY <2>1, <2>10
<1>3. ASSUME NEW s \in SessionIds, QRClosed(s) PROVE \A q \in SessionIds : Kept(q)'
  <2>1. \A q \in SessionIds \ {s} : Kept(q)'
    BY <1>3, Untouched DEF QRClosed
  <2>2. /\ ~channel[s].open /\ channel' = channel
        /\ consumer[s] = "on" /\ consumer'[s] = "done" /\ intime' = intime /\ unlinked' = unlinked
        /\ session'[s].status = "connected" <=> (session[s].id # NoDevice \/ session[s].status = "connected")
    BY <1>3 DEF QRClosed
  <2>3. Kept(s)'
    BY <2>2 DEF Kept
  <2> QED BY <2>1, <2>3
<1>4. ASSUME NEW s \in SessionIds, DisconnectSession(s) \/ EndChannel(s) \/ EndClient(s)
      PROVE  \A q \in SessionIds : Kept(q)'
  <2>1. \A q \in SessionIds \ {s} : Kept(q)'
    BY <1>4, Untouched DEF DisconnectSession, EndChannel, EndClient
  <2>2. /\ channel'[s].items = channel[s].items /\ (channel'[s].open => channel[s].open)
        /\ consumer' = consumer /\ intime' = intime /\ unlinked' = unlinked /\ session' = session
    BY <1>4 DEF DisconnectSession, EndChannel, EndClient, Channels
  <2>3. Kept(s)'
    BY <2>2 DEF Kept
  <2> QED BY <2>1, <2>3
<1>5. ASSUME NEW s \in SessionIds, NEW e \in Events, e = "success" => session[s].id # NoDevice,
             channel'[s].items = Append(channel[s].items, e), channel[s].open,
             channel'[s].open => e = "code", e # "code" => ~channel'[s].open,
             \A q \in SessionIds \ {s} : channel'[q] = channel[q],
             consumer' = consumer /\ intime' = intime /\ unlinked' = unlinked /\ session' = session
      PROVE  \A q \in SessionIds : Kept(q)'
  <2>1. \A q \in SessionIds \ {s} : Kept(q)'
    BY <1>5, Untouched
  <2>2. channel[s].items \in Seq(Events)
    BY DEF Channels
  <2>3. \A i \in 1 .. Len(channel'[s].items) :
           \/ i \in 1 .. Len(channel[s].items) /\ channel'[s].items[i] = channel[s].items[i]
           \/ channel'[s].items[i] = e /\ i = Len(channel'[s].items)
    BY <1>5, <2>2
  <2>4. /\ consumer[s] = "on" /\ session[s].status = "pending"
        /\ \A i \in 1 .. Len(channel[s].items) : channel[s].items[i] = "code"
    BY <1>5 DEF Kept
  <2>5. \A i \in 1 .. Len(channel'[s].items) :
           channel'[s].items[i] # "code" => i = Len(channel'[s].items) /\ ~channel'[s].open
    BY <1>5, <2>3, <2>4
  <2>6. \A i \in 1 .. Len(channel'[s].items) :
           s \notin unlinked /\ channel'[s].items[i] = "success" => session[s].id # NoDevice
    BY <1>5, <2>3, <2>4 DEF Kept
  <2>7. Kept(s)'
    BY <1>5, <2>4, <2>5, <2>6 DEF Kept
  <2> QED BY <2>1, <2>7
<1>6. ASSUME NEW s \in SessionIds, SendCode(s) PROVE \A q \in SessionIds : Kept(q)'
  <2>1. "code" \in Events /\ channel[s].open
    BY <1>6 DEF Events, SendCode
  <2>2. channel'[s].items = Append(channel[s].items, "code")
        /\ \A q \in SessionIds \ {s} : channel'[q] = channel[q]
    BY <1>6 DEF SendCode, Channels
  <2>3. consumer' = consumer /\ intime' = intime /\ unlinked' = unlinked /\ session' = session
    BY <1>6 DEF SendCode
  <2> QED BY <1>5, <2>1, <2>2, <2>3
<1>7. ASSUME NEW s \in SessionIds, NEW e \in LastEvents, CloseChannel(s, e)
      PROVE  \A q \in SessionIds : Kept(q)'
  <2>1. e \in Events /\ channel[s].open
    BY <1>7 DEF Events, CloseChannel
  <2>2. channel'[s].items = Append(channel[s].items, e) /\ ~channel'[s].open
        /\ \A q \in SessionIds \ {s} : channel'[q] = channel[q]
    BY <1>7 DEF CloseChannel
  <2> QED BY <1>5, <1>7, <2>1, <2>2 DEF CloseChannel
<1>8. ASSUME NEW s \in SessionIds, NEW d \in Devices, Pair(s, d)
      PROVE  \A q \in SessionIds : Kept(q)'
  <2>1. \A q \in SessionIds \ {s} : Kept(q)'
    BY <1>8, Untouched DEF Pair
  <2>2. /\ channel' = channel /\ consumer' = consumer /\ unlinked' = unlinked
        /\ session'[s].status = session[s].status /\ session'[s].id = d
        /\ d # NoDevice
        /\ intime' = IF consumer[s] = "on" THEN intime \cup {s} ELSE intime
    BY <1>8, DeviceAssumption DEF Pair
  <2>3. Kept(s)'
    BY <2>2 DEF Kept
  <2> QED BY <2>1, <2>3
<1>9. ASSUME NEW d \in Devices, Unlink(d) PROVE \A q \in SessionIds : Kept(q)'
  <2> SUFFICES ASSUME NEW q \in SessionIds PROVE Kept(q)'
    OBVIOUS
  <2>1. CASE session[q].id = d
    BY <1>9, <2>1 DEF Unlink, Kept
  <2>2. CASE session[q].id # d
    BY <1>9, <2>2, Untouched DEF Unlink
  <2> QED BY <2>1, <2>2
<1>10. CASE Restart
  BY <1>10 DEF Restart, Gone, Kept
<1>11. CASE UNCHANGED vars \/ \E d \in Devices : ReconnectFails(d)
  BY <1>11, Untouched DEF vars, ReconnectFails
<1> QED
  BY <1>1, <1>2, <1>3, <1>4, <1>6, <1>7, <1>8, <1>9, <1>10, <1>11 DEF Next, Consume

LEMMA Holds == Spec => []IInv
<1>1. IInv /\ [Next]_vars => IInv'
  <2> SUFFICES ASSUME IInv, [Next]_vars PROVE IInv'
    OBVIOUS
  <2>1. Typed'
    BY TypedStep DEF IInv
  <2>2. \A s \in SessionIds : Kept(s)
    BY KeptIs DEF IInv
  <2>3. \A s \in SessionIds : Kept(s)'
    BY <2>1, <2>2, KeptStep DEF IInv
  <2>4. Listened' /\ Followed' /\ InOrder' /\ StatusSettled'
    BY <2>3 DEF Listened, Followed, InOrder, StatusSettled, Kept
  <2> QED BY <2>1, <2>4 DEF IInv
<1> QED BY <1>1, InitHolds, PTL DEF Spec
----------------------------------------------------------------------------
\* The map of sessions, the session objects, the QR channels and the device
\* store of manager.go keep their types.
THEOREM TypeCorrect == Spec => []TypeOK
<1>1. IInv => TypeOK
  BY DEF IInv, Typed
<1> QED BY <1>1, Holds, PTL

\* When consumeQR has ended, the session is connected exactly if its phone paired
\* in time, whatever the last event of the channel was: pairing, events, an end
\* of the channel without one, DisconnectSession and restarts in any order.
THEOREM StatusIsSettled == Spec => []StatusSettled
<1>1. IInv => StatusSettled
  BY DEF IInv
<1> QED BY <1>1, Holds, PTL

\* consumeQR: a session of the map only moves on from pending, or turns out
\* connected; codes and last events that come late never take that back.
THEOREM StatusMovesForward == Spec => StatusForward
<1>1. IInv /\ [Next]_vars =>
        [\A s \in sessions \cap sessions' :
            session'[s].status # session[s].status =>
                session[s].status = "pending" \/ session'[s].status = "connected"]_vars
  <2> SUFFICES ASSUME IInv, [Next]_vars, NEW s \in sessions \cap sessions', session[s].status # "pending",
                      session'[s].status # session[s].status
               PROVE  session'[s].status = "connected"
    OBVIOUS
  <2>0. s \in SessionIds /\ session \in [SessionIds -> [status : Statuses, id : Devices \cup {NoDevice}]]
        /\ Kept(s)
    BY KeptIs DEF IInv, Typed, TypeOK
  <2>1. ASSUME NEW q \in SessionIds, StartSession(q) \/ \E d \in Devices : AutoReconnect(d, q) PROVE FALSE
    <3>1. q \in Unused
      BY <2>1 DEF StartSession, StartStored, StartPairing, AutoReconnect
    <3>2. q # s /\ \E status, device : AddSession(q, status, device)
      BY <2>1, <3>1 DEF StartSession, StartStored, StartPairing, AutoReconnect, Unused
    <3> QED BY <2>0, <3>2 DEF AddSession
  <2>2. ASSUME NEW q \in SessionIds, QREvent(q) PROVE FALSE
    BY <2>0, <2>2 DEF QREvent, Kept
  <2>3. ASSUME NEW q \in SessionIds, QRClosed(q) PROVE session'[s].status = "connected"
    BY <2>0, <2>3 DEF QRClosed
  <2>4. ASSUME NEW d \in Devices, (\E q \in SessionIds : Pair(q, d)) \/ Unlink(d) PROVE FALSE
    BY <2>0, <2>4 DEF Pair, Unlink
  <2>5. CASE UNCHANGED session
    BY <2>5
  <2> QED
    BY <2>1, <2>2, <2>3, <2>4, <2>5
       DEF Next, vars, Consume, ReconnectFails, DisconnectSession, SendCode, EndChannel, EndClient,
           CloseChannel, Restart
<1> QED BY <1>1, Holds, PTL DEF Spec, StatusForward
=============================================================================
