-------------------------- MODULE WhatsAppSessions --------------------------
(***************************************************************************)
(* The sessions of backend/internal/whatsapp/manager.go.  StartSession     *)
(* makes a client for a stored device or for a new one; a new one is       *)
(* paired by QR code, and the goroutine consumeQR turns the events of the  *)
(* channel into the session's status.  consumeQR holds the session itself: *)
(* it goes on when the session has left the manager's map.                 *)
(*                                                                         *)
(* External: whatsmeow's client, which sends codes, pairs a phone (sets    *)
(* Store.ID and stores the device), closes the channel, as a rule after    *)
(* one last event, and then disconnects, and the phone's owner, who may    *)
(* unlink it.                                                              *)
(***************************************************************************)
EXTENDS Integers, Sequences

CONSTANTS SessionIds,  \* uuid.NewString(); an id is free again when its session is gone
          Devices,     \* phones that may pair
          NoDevice,
          MaxRestarts  \* bound: ends of the server

ASSUME DeviceAssumption == NoDevice \notin Devices /\ MaxRestarts \in Nat

VARIABLES sessions,   \* Manager.sessions: the ids in the map
          session,    \* the Session objects
          channel,    \* the QR channel of each session
          consumer,   \* consumeQR of each session: "none", "on" or "done"
          stored,     \* devices in whatsmeow's store, with an ID
          reconnect,  \* devices that AutoReconnect has still to connect
          intime,     \* history: sessions whose phone paired before consumeQR had ended
          unlinked,   \* history: sessions whose phone was unlinked
          restarts

vars == <<sessions, session, channel, consumer, stored, reconnect, intime, unlinked, restarts>>

\* "refused" stands for the events that consumeQR has no case for.
LastEvents == {"success", "timeout", "error", "refused"}
Statuses == {"none", "pending", "connected"} \cup (LastEvents \ {"success"})

Fresh == [status |-> "none", id |-> NoDevice]
Gone == [items |-> <<>>, open |-> FALSE, live |-> FALSE]
Unused == {s \in SessionIds \ sessions : consumer[s] # "on" /\ ~channel[s].live}

Init ==
    /\ sessions = {}
    /\ session = [s \in SessionIds |-> Fresh]
    /\ channel = [s \in SessionIds |-> Gone]
    /\ consumer = [s \in SessionIds |-> "none"]
    /\ stored = {}
    /\ reconnect = {}
    /\ intime = {}
    /\ unlinked = {}
    /\ restarts = 0

AddSession(s, status, d) ==
    /\ sessions' = sessions \cup {s}
    /\ session' = [session EXCEPT ![s] = [status |-> status, id |-> d]]
    /\ intime' = intime \ {s}
    /\ unlinked' = unlinked \ {s}
----------------------------------------------------------------------------
\* The store has a device: the client is logged in and only connects.
StartStored(s) ==
    /\ s \in Unused
    /\ \E d \in stored : AddSession(s, "connected", d)
    /\ consumer' = [consumer EXCEPT ![s] = "none"]
    /\ UNCHANGED <<channel, stored, reconnect, restarts>>

\* It has none: a new device, to be paired over the QR channel.
StartPairing(s) ==
    /\ s \in Unused
    /\ stored = {}
    /\ AddSession(s, "pending", NoDevice)
    /\ channel' = [channel EXCEPT ![s] = [items |-> <<>>, open |-> TRUE, live |-> TRUE]]
    /\ consumer' = [consumer EXCEPT ![s] = "on"]
    /\ UNCHANGED <<stored, reconnect, restarts>>

\* StartSession; a failing Connect or GetQRChannel leaves no session behind.
StartSession(s) == StartStored(s) \/ StartPairing(s)

\* AutoReconnect, the next device: connected for a new session, or passed over.
AutoReconnect(d, s) ==
    /\ d \in reconnect
    /\ s \in Unused
    /\ reconnect' = reconnect \ {d}
    /\ AddSession(s, "connected", d)
    /\ consumer' = [consumer EXCEPT ![s] = "none"]
    /\ UNCHANGED <<channel, stored, restarts>>

ReconnectFails(d) ==
    /\ d \in reconnect
    /\ reconnect' = reconnect \ {d}
    /\ UNCHANGED <<sessions, session, channel, consumer, stored, intime, unlinked, restarts>>

\* consumeQR, one event of the channel.
QREvent(s) ==
    /\ consumer[s] = "on"
    /\ channel[s].items # <<>>
    /\ LET event == Head(channel[s].items) IN
          session' = [session EXCEPT ![s].status = CASE event = "code" -> "pending"
                                                     [] event = "success" -> "connected"
                                                     [] OTHER -> event]
    /\ channel' = [channel EXCEPT ![s].items = Tail(@)]
    /\ UNCHANGED <<sessions, consumer, stored, reconnect, intime, unlinked, restarts>>

\* Mutant: the final status is not looked up, the last event stands.
QRClosedAsIs(s) ==
    /\ consumer[s] = "on"
    /\ channel[s].items = <<>> /\ ~channel[s].open
    /\ session' = [session EXCEPT ![s].status = IF @ = "pending" THEN "timeout" ELSE @]
    /\ consumer' = [consumer EXCEPT ![s] = "done"]
    /\ UNCHANGED <<sessions, channel, stored, reconnect, intime, unlinked, restarts>>

\* Mutant: a session without a device keeps the status it has.
QRClosedPending(s) ==
    /\ consumer[s] = "on"
    /\ channel[s].items = <<>> /\ ~channel[s].open
    /\ session' = [session EXCEPT ![s].status = IF session[s].id # NoDevice THEN "connected" ELSE @]
    /\ consumer' = [consumer EXCEPT ![s] = "done"]
    /\ UNCHANGED <<sessions, channel, stored, reconnect, intime, unlinked, restarts>>

\* Mutant: without a device the session has timed out, whatever it was.
QRClosedTimeout(s) ==
    /\ consumer[s] = "on"
    /\ channel[s].items = <<>> /\ ~channel[s].open
    /\ session' = [session EXCEPT ![s].status = IF session[s].id # NoDevice THEN "connected" ELSE "timeout"]
    /\ consumer' = [consumer EXCEPT ![s] = "done"]
    /\ UNCHANGED <<sessions, channel, stored, reconnect, intime, unlinked, restarts>>

\* consumeQR after the channel is closed.
QRClosed(s) ==
    /\ consumer[s] = "on"
    /\ channel[s].items = <<>> /\ ~channel[s].open
    /\ session' = [session EXCEPT ![s].status = IF session[s].id # NoDevice THEN "connected"
                                                ELSE IF @ = "pending" THEN "timeout" ELSE @]
    /\ consumer' = [consumer EXCEPT ![s] = "done"]
    /\ UNCHANGED <<sessions, channel, stored, reconnect, intime, unlinked, restarts>>

\* DisconnectSession removes one session of the tenant, whichever comes first
\* in the map, and disconnects its client.
DisconnectSession(s) ==
    /\ s \in sessions
    /\ sessions' = sessions \ {s}
    /\ channel' = [channel EXCEPT ![s].live = FALSE]
    /\ UNCHANGED <<session, consumer, stored, reconnect, intime, unlinked, restarts>>
----------------------------------------------------------------------------
\* External: a code while the channel is open; one waits at a time.
SendCode(s) ==
    /\ channel[s].open
    /\ channel[s].items = <<>>
    /\ channel' = [channel EXCEPT ![s].items = Append(@, "code")]
    /\ UNCHANGED <<sessions, session, consumer, stored, reconnect, intime, unlinked, restarts>>

\* External: the phone pairs; the client may still be doing so when the channel
\* is closed for another reason.
Pair(s, d) ==
    /\ channel[s].live
    /\ session[s].id = NoDevice
    /\ session' = [session EXCEPT ![s].id = d]
    /\ stored' = stored \cup {d}
    /\ intime' = IF consumer[s] = "on" THEN intime \cup {s} ELSE intime
    /\ UNCHANGED <<sessions, channel, consumer, reconnect, unlinked, restarts>>

\* External: the last event and the end of the channel.  Only a client that has
\* paired reports success.
CloseChannel(s, event) ==
    /\ channel[s].open
    /\ event = "success" => session[s].id # NoDevice
    /\ channel' = [channel EXCEPT ![s] = [items |-> Append(@.items, event), open |-> FALSE,
                                          live |-> @.live]]
    /\ UNCHANGED <<sessions, session, consumer, stored, reconnect, intime, unlinked, restarts>>

\* External: the channel ends without a last event, as consumeQR expects it may.
EndChannel(s) ==
    /\ channel[s].open
    /\ channel' = [channel EXCEPT ![s].open = FALSE]
    /\ UNCHANGED <<sessions, session, consumer, stored, reconnect, intime, unlinked, restarts>>

\* External: a client that did not pair disconnects after its channel ended.
EndClient(s) ==
    /\ channel[s].live /\ ~channel[s].open
    /\ channel' = [channel EXCEPT ![s].live = FALSE]
    /\ UNCHANGED <<sessions, session, consumer, stored, reconnect, intime, unlinked, restarts>>

\* External: the phone's owner unlinks it; whatsmeow deletes the device.  No
\* handler of the program takes notice.
Unlink(d) ==
    /\ d \in stored
    /\ stored' = stored \ {d}
    /\ reconnect' = reconnect \ {d}
    /\ unlinked' = unlinked \cup {s \in SessionIds : session[s].id = d}
    /\ session' = [s \in SessionIds |-> IF session[s].id = d
                                        THEN [session[s] EXCEPT !.id = NoDevice] ELSE session[s]]
    /\ UNCHANGED <<sessions, channel, consumer, intime, restarts>>

\* The server ends and is started: AutoReconnect sets out with what is stored.
Restart ==
    /\ restarts < MaxRestarts
    /\ restarts' = restarts + 1
    /\ sessions' = {}
    /\ consumer' = [s \in SessionIds |-> "none"]
    /\ channel' = [s \in SessionIds |-> Gone]
    /\ reconnect' = stored
    /\ session' = [s \in SessionIds |-> Fresh]
    /\ intime' = {}
    /\ unlinked' = {}
    /\ UNCHANGED stored

Consume(s) == QREvent(s) \/ QRClosed(s)

Next ==
    \/ Restart
    \/ \E s \in SessionIds :
          \/ StartSession(s) \/ Consume(s) \/ DisconnectSession(s)
          \/ SendCode(s) \/ EndChannel(s) \/ EndClient(s)
          \/ \E d \in Devices : Pair(s, d) \/ AutoReconnect(d, s)
          \/ \E event \in LastEvents : CloseChannel(s, event)
    \/ \E d \in Devices : ReconnectFails(d) \/ Unlink(d)

Spec == Init /\ [][Next]_vars

\* consumeQR goes on reading, and whatsmeow ends a QR channel when its codes
\* have run out.
FairSpec ==
    /\ Spec
    /\ \A s \in SessionIds : WF_vars(Consume(s))
    /\ \A s \in SessionIds : WF_vars(EndChannel(s) \/ \E event \in LastEvents : CloseChannel(s, event))
----------------------------------------------------------------------------
\* The objects of the manager have their types.
TypeOK ==
    /\ sessions \subseteq SessionIds
    /\ session \in [SessionIds -> [status : Statuses, id : Devices \cup {NoDevice}]]
    /\ \A s \in SessionIds :
          /\ channel[s].items \in Seq({"code"} \cup LastEvents)
          /\ channel[s].open \in BOOLEAN /\ channel[s].live \in BOOLEAN
    /\ consumer \in [SessionIds -> {"none", "on", "done"}]
    /\ stored \subseteq Devices /\ reconnect \subseteq Devices
    /\ intime \subseteq SessionIds /\ unlinked \subseteq SessionIds
    /\ restarts \in 0 .. MaxRestarts

\* When consumeQR has ended, the status tells what became of the phone: a phone
\* that paired in time is connected, even if the last event was
\* a timeout or an error, and without one the session is not connected.
StatusSettled ==
    \A s \in SessionIds \ unlinked :
        consumer[s] = "done" => (session[s].status = "connected" <=> s \in intime)

\* A session of the map is pending until consumeQR has news of it and then keeps
\* what was reported, or turns out connected after all: a later code never takes
\* a connected session back to pending, and a phone that is unlinked while the
\* channel ends does not make a timeout of it.
StatusForward ==
    [][\A s \in sessions \cap sessions' :
          session'[s].status # session[s].status =>
              session[s].status = "pending" \/ session'[s].status = "connected"]_vars

\* A pending session of the dashboard does not stay pending: consumeQR settles it
\* once the channel has ended, unless it leaves the map or the server restarts.
PendingSettles ==
    \A s \in SessionIds :
        (s \in sessions /\ session[s].status = "pending") ~>
            (s \notin sessions \/ session[s].status # "pending")
============================================================================
