--------------------------- MODULE MCRealtimeHub ---------------------------
(***************************************************************************)
(* Two tabs of one user and, where c3 is a client, one tab of a second     *)
(* user of the same tenant; an API handler and an LLM worker broadcast.    *)
(***************************************************************************)
EXTENDS RealtimeHub

CONSTANTS c1, c2, c3, u1, u2, t1, api, worker

MCTenantOf == [c \in Clients |-> t1]
MCUserOf == [c \in Clients |-> IF c = c3 THEN u2 ELSE u1]
============================================================================
