-------------------------- MODULE MCServerLifecycle --------------------------
(* The threads that a signal may be delivered to, for TLC. *)
EXTENDS ServerLifecycle

OnMain == {"main"}
OnAny == {"main", "acceptor"}
=============================================================================
