------------------------- MODULE MCClientConnection -------------------------
(* Two clients on two descriptors for TLC. *)
EXTENDS ClientConnection

MCNames == {"SET", "set", "incr"}
MCUpper == [name \in MCNames |-> IF name = "incr" THEN "INCR" ELSE "SET"]

Finite == [usable |-> TRUE, endless |-> FALSE]
Endless == [usable |-> TRUE, endless |-> TRUE]
Unusable == [usable |-> FALSE, endless |-> FALSE]

\* Beside a usual client one with a timeout of 2^31, or with a host that is no
\* address.
MCConfigs == {<<Finite, Endless>>, <<Finite, Unusable>>}
=============================================================================
