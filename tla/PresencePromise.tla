-------------------------- MODULE PresencePromise --------------------------
(***************************************************************************)
(* What the hub promises about presence, whatever pumps, broadcasts and    *)
(* buffers do: a connection joins its tenant once and leaves it once, and  *)
(* at each of these moments all who are present are told exactly who is    *)
(* online, save those whose update is lost and known to be.  Nothing else  *)
(* changes what they were told.  RealtimeHub implements it.                *)
(***************************************************************************)
CONSTANTS Clients, TenantOf, UserOf

VARIABLES present,  \* the connections that have joined and not left
          left,
          told,     \* the users each connection was last told
          missed    \* the connections that have lost their last update

promiseVars == <<present, left, told, missed>>

Init == present = {} /\ left = {} /\ told = [c \in Clients |-> {}] /\ missed = {}

Fellows(S, c) == {d \in S : TenantOf[d] = TenantOf[c]}

\* Each fellow of c in S hears who is online, or misses it.
Tell(S, c) ==
    \E lost \in SUBSET Fellows(S, c) :
        LET hear == Fellows(S, c) \ lost
        IN  /\ told' = [d \in Clients |-> IF d \in hear THEN {UserOf[e] : e \in Fellows(S, c)} ELSE told[d]]
            /\ missed' = (missed \ hear) \cup lost

Join(c) ==
    /\ c \notin present \cup left
    /\ present' = present \cup {c}
    /\ UNCHANGED left
    /\ Tell(present', c)

Leave(c) ==
    /\ c \in present
    /\ present' = present \ {c}
    /\ left' = left \cup {c}
    /\ Tell(present', c)

\* The server ends: nobody is connected any more.
Restart == present' = {} /\ left' = {} /\ told' = [c \in Clients |-> {}] /\ missed' = {}

Next == Restart \/ \E c \in Clients : Join(c) \/ Leave(c)

Spec == Init /\ [][Next]_promiseVars
=============================================================================
