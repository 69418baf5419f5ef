-------------------------- MODULE ClientConnection --------------------------
(***************************************************************************)
(* client_init, client_connect with its retries, client_disconnect and     *)
(* client_destroy of core/client/client.c, over the sockets of the kernel, *)
(* with the command system that each client allocates (module WhiteList).  *)
(*                                                                         *)
(* client_connect holds the client's lock from its first to its last step, *)
(* so another call on the same client waits for it: a client is in at most *)
(* one call.  Clients run concurrently and share the table of descriptors, *)
(* in which a number is used again once it was closed.                     *)
(***************************************************************************)
EXTENDS WhiteList

CONSTANTS
    Clients,
    Descriptors,  \* the file descriptors that socket() can return
    NoSocket,     \* sockfd = -1
    Configs,      \* what the clients may be configured with
    MaxRetries,   \* config.max_retries
    MaxConnects   \* bound on the connects begun

\* usable: inet_pton takes the host.  endless: timeout_ms is 2^31 or more, a
\* negative timeout for poll.
Config == [usable : BOOLEAN, endless : BOOLEAN]

ASSUME DescriptorsAssumption == IsFiniteSet(Descriptors) /\ NoSocket \notin Descriptors
ASSUME ClientsAssumption == IsFiniteSet(Clients)
ASSUME ConfigsAssumption == Configs \subseteq [Clients -> Config]
ASSUME RetriesAssumption == MaxRetries \in Nat /\ MaxConnects \in Nat

VARIABLES
    alive,     \* per client: the instance exists
    config, status, sock, failed,  \* its fields
    pc,        \* where client_connect is, "idle" outside of it
    attempt,   \* the attempts of the loop that are over
    tcp,       \* per descriptor: the kernel's socket, "free" for none
    blocking,  \* per descriptor: O_NONBLOCK is not set
    connects,  \* the connects begun
    denied,    \* history: fcntl refused after a poll that succeeded
    refused,   \* history: the open sockets whose mode could not be set back
    orphans    \* history: systems that no pointer leads to

clientVars == <<alive, config, status, sock, failed>>
kernelVars == <<tcp, blocking, refused>>
vars == <<listVars, clientVars, pc, attempt, kernelVars, connects, denied, orphans>>

Init ==
    /\ ListInit
    /\ alive = [c \in Clients |-> FALSE]
    /\ config \in Configs
    /\ status = [c \in Clients |-> "DISCONNECTED"]
    /\ sock = [c \in Clients |-> NoSocket]
    /\ failed = [c \in Clients |-> 0]
    /\ pc = [c \in Clients |-> "idle"]
    /\ attempt = [c \in Clients |-> 0]
    /\ tcp = [d \in Descriptors |-> "free"]
    /\ blocking = [d \in Descriptors |-> TRUE]
    /\ connects = 0
    /\ denied = 0
    /\ refused = {}
    /\ orphans = 0

Goto(c, label) == pc' = [pc EXCEPT ![c] = label]
Free == {d \in Descriptors : tcp[d] = "free"}

Close(d) ==
    /\ tcp' = [tcp EXCEPT ![d] = "free"]
    /\ blocking' = [blocking EXCEPT ![d] = TRUE]
    /\ refused' = refused \ {d}

---------------------------------------------------------------------------
(* The lifecycle of an instance. *)

\* client_init, client_init_default: the fields are zero, or set to what Init
\* and Destroy leave in them.  A calloc that fails changes nothing; a mutex that
\* fails frees the client and not its command system.
Create(c) ==
    /\ ~alive[c]
    /\ Allocate
    /\ \/ alive' = [alive EXCEPT ![c] = TRUE] /\ UNCHANGED orphans
       \/ orphans' = orphans + 1 /\ UNCHANGED alive
    /\ UNCHANGED <<globalSystem, listed, initialized, config, status, sock, failed,
                   pc, attempt, kernelVars, connects, denied>>

Closes(c) == status[c] = "CONNECTED"

\* client_disconnect; on a client that is not connected it changes nothing.
Disconnect(c) ==
    /\ alive[c] /\ pc[c] = "idle"
    /\ Closes(c)
    /\ Close(sock[c])
    /\ sock' = [sock EXCEPT ![c] = NoSocket]
    /\ status' = [status EXCEPT ![c] = "DISCONNECTED"]
    /\ UNCHANGED <<listVars, alive, config, failed, pc, attempt, connects, denied, orphans>>

\* client_destroy: disconnects if connected, and frees the instance with all
\* that it holds, but not what it points to.
Destroy(c) ==
    /\ alive[c] /\ pc[c] = "idle"
    /\ alive' = [alive EXCEPT ![c] = FALSE]
    /\ IF Closes(c) THEN Close(sock[c]) ELSE UNCHANGED kernelVars
    /\ status' = [status EXCEPT ![c] = "DISCONNECTED"]
    /\ sock' = [sock EXCEPT ![c] = NoSocket]
    /\ failed' = [failed EXCEPT ![c] = 0]
    /\ orphans' = orphans + 1
    /\ UNCHANGED <<listVars, config, pc, attempt, connects, denied>>

---------------------------------------------------------------------------
(* client_connect and client_establish_connection. *)

\* client_set looks its command up before it connects, the other operations do
\* not; a client that is connected already is left as it is.
Begin(c, cmd) ==
    /\ alive[c] /\ pc[c] = "idle"
    /\ status[c] # "CONNECTED"
    /\ connects < MaxConnects
    /\ cmd = "SET" => Found(cmd)
    /\ connects' = connects + 1
    /\ status' = [status EXCEPT ![c] = "CONNECTING"]
    /\ Goto(c, "socket")
    /\ UNCHANGED <<listVars, alive, config, sock, failed, attempt, kernelVars, denied, orphans>>

\* client_connect returns, an error or success.
Leave(c) == Goto(c, "idle") /\ attempt' = [attempt EXCEPT ![c] = 0]
Fail(c) ==
    /\ status' = [status EXCEPT ![c] = "ERROR"]
    /\ failed' = [failed EXCEPT ![c] = @ + 1]
    /\ Leave(c)
    /\ UNCHANGED <<alive, config>>
Succeed(c) ==
    /\ status' = [status EXCEPT ![c] = "CONNECTED"]
    /\ Leave(c)
    /\ UNCHANGED <<alive, config, failed>>

\* The operators named Bug... are never used by the specification: each is a
\* mistake that a change to the code could make.  Here an early return passes by
\* the count.
BugNotCounted(c) ==
    /\ pc[c] = "socket"
    /\ \/ ~config[c].usable /\ UNCHANGED sock
       \/ config[c].usable /\ sock' = [sock EXCEPT ![c] = NoSocket]
    /\ status' = [status EXCEPT ![c] = "ERROR"]
    /\ Leave(c)
    /\ UNCHANGED <<listVars, alive, config, failed, kernelVars, connects, denied, orphans>>

\* No host, a host that is no IPv6 address, or socket() failed, which writes
\* over the descriptor of a socket that was left open.
NoConnection(c) ==
    /\ pc[c] = "socket"
    /\ \/ ~config[c].usable /\ UNCHANGED sock
       \/ config[c].usable /\ sock' = [sock EXCEPT ![c] = NoSocket]
    /\ Fail(c)
    /\ UNCHANGED <<listVars, kernelVars, connects, denied, orphans>>

\* socket(), the timeouts, and O_NONBLOCK, whose failure is only printed.
OpenSocket(c) ==
    /\ pc[c] = "socket" /\ config[c].usable
    /\ \E d \in Free, mode \in BOOLEAN :
          /\ sock' = [sock EXCEPT ![c] = d]
          /\ tcp' = [tcp EXCEPT ![d] = "idle"]
          /\ blocking' = [blocking EXCEPT ![d] = mode]
    /\ Goto(c, "connect")
    /\ UNCHANGED <<listVars, alive, config, status, failed, attempt, connects, denied,
                   refused, orphans>>

\* fcntl gives the socket its mode back, or fails.
Restore(d) ==
    \/ blocking' = [blocking EXCEPT ![d] = TRUE] /\ UNCHANGED refused
    \/ refused' = refused \cup {d} /\ UNCHANGED blocking

Trying(c) == pc[c] = "connect" /\ attempt[c] < MaxRetries

\* EISCONN without setting the mode back.
BugModeKept(c) ==
    LET d == sock[c] IN
    /\ Trying(c)
    /\ tcp[d] \in {"idle", "established"}
    /\ tcp' = [tcp EXCEPT ![d] = "established"]
    /\ IF tcp[d] = "idle" THEN Restore(d) ELSE UNCHANGED <<blocking, refused>>
    /\ Succeed(c)
    /\ UNCHANGED <<listVars, sock, connects, denied, orphans>>

\* connect returns 0 (at once, or for a connection that was completed between
\* two attempts), or EISCONN: connected, whatever fcntl says.
ConnectDone(c) ==
    LET d == sock[c] IN
    /\ Trying(c)
    /\ tcp[d] \in {"idle", "established"}
    /\ tcp' = [tcp EXCEPT ![d] = "established"]
    /\ Restore(d)
    /\ Succeed(c)
    /\ UNCHANGED <<listVars, sock, connects, denied, orphans>>

\* EINPROGRESS, or EALREADY for the attempt before.
ConnectPending(c) ==
    LET d == sock[c] IN
    /\ Trying(c)
    /\ tcp[d] \in {"idle", "connecting"}
    /\ tcp' = [tcp EXCEPT ![d] = "connecting"]
    /\ Goto(c, "poll")
    /\ UNCHANGED <<listVars, clientVars, attempt, blocking, refused, connects, denied, orphans>>

\* ECONNREFUSED, ETIMEDOUT, ENETUNREACH, EHOSTUNREACH: of this connect, or of
\* the one before, whose error this attempt only collects.
ConnectRefused(c) ==
    LET d == sock[c] IN
    /\ Trying(c)
    /\ tcp[d] \in {"idle", "failed"}
    /\ tcp' = [tcp EXCEPT ![d] = "idle"]
    /\ Goto(c, "retry")
    /\ UNCHANGED <<listVars, clientVars, attempt, blocking, refused, connects, denied, orphans>>

\* Any other error ends the loop.
ConnectCritical(c) ==
    /\ Trying(c)
    /\ tcp[sock[c]] \in {"idle", "failed", "reset"}
    /\ Goto(c, "close")
    /\ UNCHANGED <<listVars, clientVars, attempt, kernelVars, connects, denied, orphans>>

\* check_connection_complete_poll returns false: an error is pending, the timeout
\* has passed, or a signal interrupts poll.
PollFails(c) ==
    /\ pc[c] = "poll"
    /\ tcp[sock[c]] \in {"connecting", "failed", "reset"}
    /\ Goto(c, "retry")
    /\ UNCHANGED <<listVars, clientVars, attempt, kernelVars, connects, denied, orphans>>

\* Whatever poll returns is taken for a connection.
BugPollTimedOut(c) ==
    LET d == sock[c] IN
    /\ pc[c] = "poll"
    /\ Restore(d)
    /\ Succeed(c)
    /\ UNCHANGED <<listVars, sock, tcp, connects, denied, orphans>>

\* It returns true, and fcntl succeeds or fails with an error that is not
\* looked at: errno is still the EINPROGRESS or EALREADY of connect.
PollDone(c) ==
    LET d == sock[c] IN
    /\ pc[c] = "poll"
    /\ tcp[d] = "established"
    /\ Restore(d)
    /\ Succeed(c)
    /\ UNCHANGED <<listVars, sock, tcp, connects, denied, orphans>>

\* It returns true, and fcntl fails with EACCES or EAGAIN: the call returns
\* with the socket open.
PollDenied(c) ==
    LET d == sock[c] IN
    /\ pc[c] = "poll"
    /\ tcp[d] = "established"
    /\ refused' = refused \cup {d}
    /\ denied' = denied + 1
    /\ Fail(c)
    /\ UNCHANGED <<listVars, sock, tcp, blocking, connects, orphans>>

\* The attempt is not counted.
BugSameAttempt(c) ==
    /\ pc[c] = "retry"
    /\ Goto(c, "connect")
    /\ UNCHANGED <<listVars, clientVars, attempt, kernelVars, connects, denied, orphans>>

\* The next attempt, after the pause (no state changes in it).
Retry(c) ==
    /\ pc[c] = "retry"
    /\ attempt' = [attempt EXCEPT ![c] = @ + 1]
    /\ Goto(c, "connect")
    /\ UNCHANGED <<listVars, clientVars, kernelVars, connects, denied, orphans>>

\* sockfd is not reset.
BugSocketKept(c) ==
    /\ \/ pc[c] = "close"
       \/ pc[c] = "connect" /\ attempt[c] >= MaxRetries
    /\ Close(sock[c])
    /\ Fail(c)
    /\ UNCHANGED <<listVars, sock, connects, denied, orphans>>

\* The socket is not closed.
BugLeftOpen(c) ==
    /\ \/ pc[c] = "close"
       \/ pc[c] = "connect" /\ attempt[c] >= MaxRetries
    /\ sock' = [sock EXCEPT ![c] = NoSocket]
    /\ Fail(c)
    /\ UNCHANGED <<listVars, kernelVars, connects, denied, orphans>>

\* The end of client_establish_connection: no attempt is left, or a critical
\* error was met.
GiveUp(c) ==
    /\ \/ pc[c] = "close"
       \/ pc[c] = "connect" /\ attempt[c] >= MaxRetries
    /\ Close(sock[c])
    /\ sock' = [sock EXCEPT ![c] = NoSocket]
    /\ Fail(c)
    /\ UNCHANGED <<listVars, connects, denied, orphans>>

\* What a call that has begun does next.
Step(c) ==
    \/ NoConnection(c) \/ OpenSocket(c)
    \/ ConnectDone(c) \/ ConnectPending(c) \/ ConnectRefused(c) \/ ConnectCritical(c)
    \/ PollFails(c) \/ PollDone(c) \/ PollDenied(c)
    \/ Retry(c) \/ GiveUp(c)

---------------------------------------------------------------------------
(* The kernel and the peer, which may never answer. *)

Turns(d, from, to) ==
    /\ tcp[d] = from
    /\ tcp' = [tcp EXCEPT ![d] = to]
    /\ UNCHANGED <<listVars, clientVars, pc, attempt, blocking, refused, connects, denied, orphans>>

Network(d) ==
    \/ Turns(d, "connecting", "established")
    \/ Turns(d, "connecting", "failed")
    \/ Turns(d, "established", "reset")

ListNext ==
    /\ GlobalInit \/ GlobalCleanup
    /\ UNCHANGED <<clientVars, pc, attempt, kernelVars, connects, denied, orphans>>

Next ==
    \/ \E c \in Clients :
          \/ Create(c) \/ Disconnect(c) \/ Destroy(c)
          \/ \E cmd \in {"SET", "OTHER"} : Begin(c, cmd)
          \/ Step(c)
    \/ \E d \in Descriptors : Network(d)
    \/ ListNext

\* A poll that has no timeout: nothing but the network or a signal need end it.
PollsForEver(c) == pc[c] = "poll" /\ tcp[sock[c]] = "connecting" /\ config[c].endless

\* A call that has begun goes on.  Nothing is assumed of the network.
Spec ==
    /\ Init /\ [][Next]_vars
    /\ \A c \in Clients : WF_vars(Step(c) /\ ~PollsForEver(c))

---------------------------------------------------------------------------
(* Properties *)

ClientTypeOK ==
    /\ alive \in [Clients -> BOOLEAN]
    /\ config \in Configs
    /\ status \in [Clients -> {"DISCONNECTED", "CONNECTING", "CONNECTED", "ERROR"}]
    /\ sock \in [Clients -> Descriptors \cup {NoSocket}]
    /\ failed \in [Clients -> Nat]

CallTypeOK ==
    /\ pc \in [Clients -> {"idle", "socket", "connect", "poll", "retry", "close"}]
    /\ attempt \in [Clients -> 0..MaxRetries]
    /\ connects \in 0..MaxConnects
    /\ denied \in Nat /\ orphans \in Nat

KernelTypeOK ==
    /\ tcp \in [Descriptors -> {"free", "idle", "connecting", "established",
                                "failed", "reset"}]
    /\ blocking \in [Descriptors -> BOOLEAN]
    /\ refused \subseteq Descriptors

TypeOK == ListTypeOK /\ ClientTypeOK /\ CallTypeOK /\ KernelTypeOK

\* The clients that have a descriptor.
Holders == {c \in Clients : alive[c] /\ sock[c] # NoSocket}

\* A descriptor belongs to one client and is open as long as the client keeps
\* its number: no client reads, writes or closes the socket of another one that
\* got the number after it.
DescriptorsOwned ==
    /\ \A c \in Holders : tcp[sock[c]] # "free"
    /\ \A c, e \in Holders : sock[c] = sock[e] => c = e

\* Sockets are lost by nothing but a refused fcntl after a poll that succeeded:
\* every other way out of a connect, and every disconnect, closes what it opened.
OnlyDenialsLeak ==
    LET using == {c \in Holders : status[c] # "ERROR" /\ pc[c] # "socket"} IN
    Cardinality(Descriptors \ Free) = Cardinality(using) + denied

\* Between calls the status tells the truth about the socket: CONNECTED for a
\* connection that was completed (it may have been reset since), DISCONNECTED
\* for none; CONNECTING is never left behind.
StatusTellsSocket ==
    \A c \in Clients : alive[c] /\ pc[c] = "idle" =>
        \/ status[c] = "CONNECTED" /\ c \in Holders
                                   /\ tcp[sock[c]] \in {"established", "reset"}
        \/ status[c] = "DISCONNECTED" /\ c \notin Holders
        \/ status[c] = "ERROR" /\ (c \in Holders => sock[c] \in refused)

\* The socket of a connected client is blocking again, on each of the ways that
\* a connect succeeds, unless fcntl failed: only then does SO_RCVTIMEO, and not
\* an EAGAIN at once, end a recv.
BlockingUnlessRefused ==
    \A c \in Clients : alive[c] /\ pc[c] = "idle" /\ status[c] = "CONNECTED" =>
        blocking[sock[c]] \/ sock[c] \in refused

\* Command systems are lost by nothing but client_destroy and a mutex that
\* client_init could not make: one for each, and none by the list of commands.
OnlyDestroyLeaks ==
    Cardinality(heap) = Cardinality({c \in Clients : alive[c]}) + orphans
                        + Cardinality({globalSystem} \ {NoSystem})

\* A look-up finds every command of the list from its initialisation on, and
\* none after its cleanup, with which the system of the ids is freed; and an
\* initialisation that finds the flag set can rely on both.  An operation of a
\* client that looks its command up is not refused because of a list that was
\* dropped and made again.
ListIsWhole ==
    IF initialized THEN globalSystem \in heap /\ listed = Templates
                   ELSE globalSystem = NoSystem /\ listed = {}

\* A connect returns although the network never answers, unless the timeout
\* turned negative.
ConnectReturns ==
    \A c \in Clients :
        pc[c] # "idle" /\ ~config[c].endless ~> pc[c] = "idle"

\* What the caller sees of a client, and the clients that are in a call.
LinkOf(c) ==
    IF ~alive[c] THEN "none"
    ELSE IF pc[c] = "idle" /\ status[c] = "CONNECTED" THEN "up" ELSE "down"
Calls == {c \in Clients : pc[c] # "idle"}

\* To its caller a connect is one step, as module CacheSession has it.
Link == INSTANCE ClientLink WITH
    link <- [c \in Clients |-> LinkOf(c)],
    ended <- connects - Cardinality(Calls)

ImplementsClientLink == Link!Spec

---------------------------------------------------------------------------
(* What the proofs need beside the properties. *)

\* A client in a call exists and is CONNECTING; from the socket's creation on it
\* holds one, and before that at most one that a refused fcntl left behind.
InCall ==
    \A c \in Clients : pc[c] # "idle" =>
        /\ alive[c] /\ status[c] = "CONNECTING"
        /\ pc[c] # "socket" => c \in Holders
        /\ pc[c] = "socket" /\ c \in Holders => sock[c] \in refused
        /\ pc[c] \in {"poll", "retry"} => attempt[c] < MaxRetries

\* A client that does not exist is in no call and has no socket.
Absent ==
    \A c \in Clients : ~alive[c] =>
        /\ pc[c] = "idle"
        /\ status[c] = "DISCONNECTED"
        /\ sock[c] = NoSocket

IInv ==
    /\ TypeOK /\ ListIsWhole /\ Absent /\ InCall
    /\ DescriptorsOwned /\ StatusTellsSocket /\ BlockingUnlessRefused

=============================================================================
