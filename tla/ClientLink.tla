------------------------------ MODULE ClientLink ------------------------------
(***************************************************************************)
(* What module CacheSession takes from client_connect, client_disconnect   *)
(* and client_destroy: a client is down or up, a connect brings it up or   *)
(* is counted as failed in one step, and an established connection goes    *)
(* down only by a disconnect or with its client.  (A connect of a client   *)
(* that is up changes nothing.)                                            *)
(***************************************************************************)
EXTENDS Naturals

CONSTANT Clients

VARIABLES
    link,   \* per client: "none" (no instance), "down" or "up"
    failed, \* per client: stats.operations_failed
    ended   \* history: the connects that came to their end

vars == <<link, failed, ended>>

Init ==
    /\ link = [c \in Clients |-> "none"]
    /\ failed = [c \in Clients |-> 0]
    /\ ended = 0

Move(c, from, to) == link[c] = from /\ link' = [link EXCEPT ![c] = to]

Create(c) == Move(c, "none", "down") /\ UNCHANGED <<failed, ended>>

Connect(c) ==
    /\ Move(c, "down", "up")
    /\ ended' = ended + 1
    /\ UNCHANGED failed

ConnectFails(c) ==
    /\ Move(c, "down", "down")
    /\ ended' = ended + 1
    /\ failed' = [failed EXCEPT ![c] = @ + 1]

Disconnect(c) == Move(c, "up", "down") /\ UNCHANGED <<failed, ended>>

Destroy(c) ==
    /\ Move(c, "up", "none") \/ Move(c, "down", "none")
    /\ failed' = [failed EXCEPT ![c] = 0]
    /\ UNCHANGED ended

Next == \E c \in Clients :
    Create(c) \/ Connect(c) \/ ConnectFails(c) \/ Disconnect(c) \/ Destroy(c)

Spec == Init /\ [][Next]_vars

=============================================================================
