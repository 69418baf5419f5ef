--------------------------- MODULE ServerLifecycle ---------------------------
(***************************************************************************)
(* The life of the server process (kryocache/src/core/server): main of     *)
(* main.c starts the server, waits and destroys it; server_acceptor_thread *)
(* loops while the status is RUNNING; signal_handler calls server_stop,    *)
(* on the thread that the kernel gives the signal to, which waits for it.  *)
(*                                                                         *)
(* server_get_status and the handler read and write status without a lock. *)
(* client_count is never incremented, so server_stop has no client to wait *)
(* for and never forces the shutdown.  The listening socket is no part of  *)
(* the state: whether a shutdown() makes an accept fail depends on the     *)
(* system, and so accept may return a connection, fail or wait at any time.*)
(***************************************************************************)
EXTENDS Naturals, Sequences

CONSTANTS
    SignalThreads,  \* the threads that may run signal_handler
    MaxSignals      \* bound on the signals raised

Threads == {"main", "acceptor"}
Signals == {"SIGINT", "SIGTERM"}

ASSUME ThreadsAssumption == SignalThreads \subseteq Threads
ASSUME SignalsAssumption == MaxSignals \in Nat

VARIABLES
    mpc,       \* main: where it is
    apc,       \* the acceptor: where it is, "none" before pthread_create
    server,    \* what g_server points to: "none" (NULL), "live", "freed"
    status,    \* server->status
    handlers,  \* per thread: the handlers running on it, innermost last
    raised,    \* history: signals raised
    dangling,  \* history: the server was used after it was freed
    late       \* history: connections taken by the acceptor after a stop

vars == <<mpc, apc, server, status, handlers, raised, dangling, late>>

\* A thread runs its own code when no handler runs on it; nothing runs after
\* main has returned.
Free(t) == handlers[t] = <<>> /\ mpc # "exited"

\* Any use of *server; afterwards the behaviour is that of the dangling memory.
Touch == dangling' = (dangling \/ server = "freed")

Init ==
    /\ mpc = "init"
    /\ apc = "none"
    /\ server = "none"
    /\ status = "STOPPED"
    /\ handlers = [t \in Threads |-> <<>>]
    /\ raised = 0
    /\ dangling = FALSE
    /\ late = 0

---------------------------------------------------------------------------
(* main *)

\* server_init_default, or return 1.
Create ==
    /\ mpc = "init" /\ Free("main")
    /\ \/ server' = "live" /\ mpc' = "start"
       \/ server' = "none" /\ mpc' = "exited"
    /\ UNCHANGED <<apc, status, handlers, raised, dangling, late>>

\* server_start: STARTING; the socket, its option, bind and listen may fail.
StartBegin ==
    /\ mpc = "start" /\ Free("main")
    /\ status' = "STARTING"
    /\ mpc' = "listen"
    /\ UNCHANGED <<apc, server, handlers, raised, dangling, late>>

Listen ==
    /\ mpc = "listen" /\ Free("main")
    /\ mpc' = "run"
    /\ UNCHANGED <<apc, server, status, handlers, raised, dangling, late>>

ListenFails ==
    /\ mpc = "listen" /\ Free("main")
    /\ status' = "ERROR"
    /\ mpc' = "destroy"
    /\ UNCHANGED <<apc, server, handlers, raised, dangling, late>>

Run ==
    /\ mpc = "run" /\ Free("main")
    /\ status' = "RUNNING"
    /\ mpc' = "spawn"
    /\ UNCHANGED <<apc, server, handlers, raised, dangling, late>>

Spawn ==
    /\ mpc = "spawn" /\ Free("main")
    /\ apc' = "test"
    /\ mpc' = "loop"
    /\ UNCHANGED <<server, status, handlers, raised, dangling, late>>

SpawnFails ==
    /\ mpc = "spawn" /\ Free("main")
    /\ status' = "ERROR"
    /\ mpc' = "destroy"
    /\ UNCHANGED <<apc, server, handlers, raised, dangling, late>>

\* The operators named Bug... are never used by the specification: each is a
\* mistake that a change to the code could make, kept as a test of a property.

\* main joins the acceptor thread before it goes on.
BugJoins ==
    /\ mpc = "loop" /\ Free("main")
    /\ status # "RUNNING"
    /\ apc = "ended"
    /\ mpc' = "destroy"
    /\ UNCHANGED <<apc, server, status, handlers, raised, dangling, late>>

\* The main loop ends; as long as the status is RUNNING it sleeps.
Leave ==
    /\ mpc = "loop" /\ Free("main")
    /\ status # "RUNNING"
    /\ mpc' = "destroy"
    /\ UNCHANGED <<apc, server, status, handlers, raised, dangling, late>>

\* server_destroy, whose own shutdown of a RUNNING server is never taken (the
\* status was read by Leave, or is ERROR).  g_server keeps pointing to what it was.
Destroy ==
    /\ mpc = "destroy" /\ Free("main")
    /\ server' = "freed"
    /\ mpc' = "return"
    /\ UNCHANGED <<apc, status, handlers, raised, dangling, late>>

\* main returns: the process ends, and its other threads with it.
Return ==
    /\ mpc = "return" /\ Free("main")
    /\ mpc' = "exited"
    /\ UNCHANGED <<apc, server, status, handlers, raised, dangling, late>>

Main ==
    \/ Create
    \/ StartBegin
    \/ Listen \/ ListenFails
    \/ Run
    \/ Spawn \/ SpawnFails
    \/ Leave
    \/ Destroy
    \/ Return

---------------------------------------------------------------------------
(* server_acceptor_thread *)

\* The status is not tested again.
BugAcceptsAlways ==
    /\ apc = "test" /\ Free("acceptor")
    /\ Touch
    /\ apc' = "accept"
    /\ UNCHANGED <<mpc, server, status, handlers, raised, late>>

\* The test of the loop; what it reads of a server that was freed is not known.
LoopTest ==
    /\ apc = "test" /\ Free("acceptor")
    /\ Touch
    /\ apc' \in IF server = "freed" THEN {"accept", "ended"}
                ELSE IF status = "RUNNING" THEN {"accept"} ELSE {"ended"}
    /\ UNCHANGED <<mpc, server, status, handlers, raised, late>>

\* accept returns a connection, also one that came after the stop.  It is late
\* if the server has left RUNNING, unless the test before it read freed memory.
Accept ==
    /\ apc = "accept" /\ Free("acceptor")
    /\ apc' = "serve"
    /\ late' = IF status # "RUNNING" /\ ~dangling THEN late + 1 ELSE late
    /\ UNCHANGED <<mpc, server, status, handlers, raised, dangling>>

\* accept fails, because the socket was shut down or for reasons of its own.
AcceptFails ==
    /\ apc = "accept" /\ Free("acceptor")
    /\ apc' = "ended"
    /\ UNCHANGED <<mpc, server, status, handlers, raised, dangling, late>>

\* handle_client_connection is done; it may wait for a command for ever.
Served ==
    /\ apc = "serve" /\ Free("acceptor")
    /\ apc' = "test"
    /\ UNCHANGED <<mpc, server, status, handlers, raised, dangling, late>>

Acceptor == LoopTest \/ Accept \/ AcceptFails \/ Served

---------------------------------------------------------------------------
(* signal_handler: server_stop, if g_server is not NULL. *)

Exists(t) == t = "main" \/ apc \notin {"none", "ended"}
Running(sig) == \E t \in Threads : \E i \in DOMAIN handlers[t] : handlers[t][i].sig = sig

\* A signal is blocked on the thread that handles it; a second one of its kind
\* may still go to another thread.
Raise(sig, t) ==
    /\ mpc # "exited"
    /\ raised < MaxSignals
    /\ t \in SignalThreads /\ Exists(t)
    /\ \A i \in DOMAIN handlers[t] : handlers[t][i].sig # sig
    /\ raised' = raised + 1
    /\ handlers' = [handlers EXCEPT ![t] = Append(@, [sig |-> sig, at |-> "test"])]
    /\ UNCHANGED <<mpc, apc, server, status, dangling, late>>

\* The innermost handler of t is at this place.
At(t, place) ==
    /\ mpc # "exited"
    /\ handlers[t] # <<>>
    /\ handlers[t][Len(handlers[t])].at = place
GoOn(t, place) == handlers' = [handlers EXCEPT ![t][Len(handlers[t])].at = place]
Resume(t) == handlers' = [handlers EXCEPT ![t] = SubSeq(@, 1, Len(@) - 1)]

\* The test for RUNNING is left out.
BugStopsAnyway(t) ==
    /\ At(t, "test")
    /\ Touch
    /\ IF server = "none" THEN Resume(t) ELSE GoOn(t, "mark")
    /\ UNCHANGED <<mpc, apc, server, status, raised, late>>

StopTest(t) ==
    /\ At(t, "test")
    /\ Touch
    /\ IF server # "none" /\ status = "RUNNING" THEN GoOn(t, "mark") ELSE Resume(t)
    /\ UNCHANGED <<mpc, apc, server, status, raised, late>>

StopMark(t) ==
    /\ At(t, "mark")
    /\ Touch
    /\ status' = "SHUTTING_DOWN"
    /\ GoOn(t, "shut")
    /\ UNCHANGED <<mpc, apc, server, raised, late>>

\* The socket is shut down, its number read from the server.
StopShut(t) ==
    /\ At(t, "shut")
    /\ Touch
    /\ GoOn(t, "finish")
    /\ UNCHANGED <<mpc, apc, server, status, raised, late>>

StopFinish(t) ==
    /\ At(t, "finish")
    /\ Touch
    /\ status' = "STOPPED"
    /\ Resume(t)
    /\ UNCHANGED <<mpc, apc, server, raised, late>>

Stop(t) == StopTest(t) \/ StopMark(t) \/ StopShut(t) \/ StopFinish(t)

Next ==
    \/ Main
    \/ Acceptor
    \/ \E sig \in Signals, t \in Threads : Raise(sig, t)
    \/ \E t \in Threads : Stop(t)

\* main and the handlers go on; the acceptor may wait for a client for ever.
Spec ==
    /\ Init /\ [][Next]_vars
    /\ WF_vars(Main)
    /\ \A t \in Threads : WF_vars(Stop(t))

---------------------------------------------------------------------------
(* Properties *)

Places == {"test", "mark", "shut", "finish"}

TypeOK ==
    /\ mpc \in {"init", "start", "listen", "run", "spawn", "loop", "destroy", "return", "exited"}
    /\ apc \in {"none", "test", "accept", "serve", "ended"}
    /\ server \in {"none", "live", "freed"}
    /\ status \in {"STOPPED", "STARTING", "RUNNING", "SHUTTING_DOWN", "ERROR"}
    /\ handlers \in [Threads -> Seq([sig : Signals, at : Places])]
    /\ raised \in Nat
    /\ dangling \in BOOLEAN
    /\ late \in Nat

\* A stop is final: once some handler has marked the server, no step of main,
\* which writes the same field without a lock, makes it RUNNING again.
StopIsFinal ==
    [][(status = "SHUTTING_DOWN" \/ status = "STOPPED") => status' # "RUNNING"]_vars

\* After a stop the acceptor takes one more connection at most, the one that it
\* was about to accept, whatever the handlers and main do meanwhile: main sees
\* the stop before the shutdown and may already have destroyed the server.  The
\* one exception is an acceptor that reads the freed server (NoUseAfterDestroy).
OneLateConnection == late <= 1

\* Once stopped, the process ends, whatever the acceptor waits for.
StopEndsProcess ==
    mpc = "loop" /\ status # "RUNNING" ~> mpc = "exited"

\* NOT an invariant.  Nobody uses the server after server_destroy.
NoUseAfterDestroy == ~dangling

=============================================================================
