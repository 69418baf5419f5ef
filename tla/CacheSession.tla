---------------------------- MODULE CacheSession ----------------------------
(***************************************************************************)
(* Clients (core/client/client.c) and the server's acceptor thread         *)
(* (server_acceptor_thread of core/server/server.c) over TCP connections.  *)
(*                                                                         *)
(* An operation of a client takes its lock three times: to connect, to     *)
(* send a command and wait for the answer, and to count the call.  The     *)
(* acceptor serves one connection at a time, takes one buffer of bytes     *)
(* from it, handles it as one command (module CommandStore), and closes    *)
(* the connection; the client's status does not change by that.            *)
(***************************************************************************)
EXTENDS CacheProtocol, Sequences, FiniteSets, FiniteSetsExt, Functions

CONSTANTS
    NoValue, Buckets, Home, Stored, Kept, MaxNodes,  \* of CommandStore
    Clients,               \* client instances, each a process of its own
    Threads, Owner,        \* threads, and the client instance each one uses
    Calls,                 \* the requests that threads make, CONNECT included
    Unsent,                \* values too long for a command, not for client_set
    MixedKey, MixedValue,  \* a last argument with the next command stuck to it
    MaxCalls,              \* bound on the calls made
    MaxAtExit,             \* bound on the calls made before the server ends
    MaxConns               \* bound on the connections established

CONSTANT None

Connecting == [cmd |-> "CONNECT"]   \* client_connect called on its own

\* What CommandStore assumes of its constants.
ASSUME StoreAssumption ==
    /\ Home \in [Keys -> Buckets]
    /\ Stored \in [Keys -> Keys] /\ \A k \in Keys : Stored[Stored[k]] = Stored[k]
    /\ Kept \in [Vals -> Vals]
    /\ NoValue \notin Vals
    /\ MaxNodes \in Nat

ASSUME OwnerAssumption == Owner \in [Threads -> Clients]
ASSUME CallsAssumption == Calls \subseteq Request \cup {Connecting}
ASSUME SetAssumption == [cmd |-> "SET_NO_VALUE"] \notin Calls  \* client_set sends a value
ASSUME MixedAssumption == MixedKey \in Keys /\ MixedValue \in Vals
ASSUME UnsentAssumption == Unsent \subseteq Vals
ASSUME NoneAssumption == None \notin Threads
ASSUME BoundsAssumption == MaxCalls \in Nat /\ MaxAtExit \in Nat /\ MaxConns \in Nat

VARIABLES
    buckets, size, request, reply, last,  \* the server's table: CommandStore
    up,        \* the server's process runs
    serving,   \* the connection in handle_client_connection, 0 for none
    conns,     \* the connections, in the order they were established
    status, sock, lock, total, failed,    \* per client: its fields, its mutex
    pc, call,  \* per thread: where it is in its operation, the call's number
    calls,     \* the calls made: who, which request, what was returned
    ran        \* history: the numbers of the calls the server handled

storeVars == <<buckets, size, request, reply, last>>
clientVars == <<status, sock, lock, total, failed>>
vars == <<storeVars, up, serving, conns, clientVars, pc, call, calls, ran>>

Store == INSTANCE CommandStore

\* What a call has come to: result "NONE" until that is known, "KILLED" when
\* its process died of SIGPIPE; from is the call that the answer is for, 0 for
\* the empty answer of an end of file.
Pending(c, req, done) ==
    [client |-> c, req |-> req, result |-> "NONE", from |-> 0,
     answer |-> Say("NONE"), done |-> done]

NewConn == [state |-> "waiting", open |-> TRUE, requests |-> <<>>, answers |-> <<>>]

\* The calls that have their result.
Returned == {i \in DOMAIN calls : calls[i].result # "NONE"}

Init ==
    /\ Store!Init
    /\ up = TRUE
    /\ serving = 0
    /\ conns = <<>>
    /\ status = [c \in Clients |-> "DISCONNECTED"]
    /\ sock = [c \in Clients |-> 0]
    /\ lock = [c \in Clients |-> None]
    /\ total = [c \in Clients |-> 0]
    /\ failed = [c \in Clients |-> 0]
    /\ pc = [t \in Threads |-> "idle"]
    /\ call = [t \in Threads |-> 0]
    /\ calls = <<>>
    /\ ran = <<>>

Goto(t, label) == pc' = [pc EXCEPT ![t] = label]

\* The call of t has its result.
Return(t, result, from, answer) ==
    calls' = [calls EXCEPT ![call[t]].result = result,
                           ![call[t]].from = from,
                           ![call[t]].answer = answer]
ReturnError(t) == Return(t, "CONNECTION", 0, Say("NONE"))

Unlocked(t) == lock[Owner[t]] = None

---------------------------------------------------------------------------
(* An operation of a client. *)

Begin(t, req) ==
    /\ pc[t] = "idle"
    /\ status[Owner[t]] # "KILLED"
    /\ Len(calls) < MaxCalls
    /\ calls' = Append(calls, Pending(Owner[t], req, Returned))
    /\ call' = [call EXCEPT ![t] = Len(calls) + 1]
    /\ Goto(t, "connect")
    /\ UNCHANGED <<storeVars, up, serving, conns, clientVars, ran>>

\* client_connect returned CLIENT_SUCCESS: the operation goes on, but for a SET
\* whose command would not fit, which returns here.
Connected(t) ==
    LET req == calls[call[t]].req
        unsent == req.cmd = "SET" /\ req.value \in Unsent
    IN
    \/ req = Connecting /\ Goto(t, "idle") /\ Return(t, "SUCCESS", 0, Say("NONE"))
    \/ unsent /\ Goto(t, "idle") /\ Return(t, "PROTOCOL", 0, Say("NONE"))
    \/ req # Connecting /\ ~unsent /\ Goto(t, "send") /\ UNCHANGED calls

ConnectAlready(t) ==
    /\ pc[t] = "connect" /\ Unlocked(t)
    /\ status[Owner[t]] = "CONNECTED"
    /\ Connected(t)
    /\ UNCHANGED <<storeVars, up, serving, conns, clientVars, call, ran>>

ConnectOk(t) ==
    /\ pc[t] = "connect" /\ Unlocked(t)
    /\ status[Owner[t]] # "CONNECTED"
    /\ up
    /\ Len(conns) < MaxConns
    /\ conns' = Append(conns, NewConn)
    /\ sock' = [sock EXCEPT ![Owner[t]] = Len(conns) + 1]
    /\ status' = [status EXCEPT ![Owner[t]] = "CONNECTED"]
    /\ Connected(t)
    /\ UNCHANGED <<storeVars, up, serving, lock, total, failed, call, ran>>

\* The operators named Bug... are never used by the specification: each is a
\* mistake that a change to the code could make, kept as a test of a property.

\* The operation goes on to its end and counts the failure again.
BugCountedTwice(t) ==
    /\ pc[t] = "connect" /\ Unlocked(t)
    /\ status[Owner[t]] # "CONNECTED"
    /\ status' = [status EXCEPT ![Owner[t]] = "ERROR"]
    /\ sock' = [sock EXCEPT ![Owner[t]] = 0]
    /\ failed' = [failed EXCEPT ![Owner[t]] = @ + 1]
    /\ Return(t, "NOT_CONNECTED", 0, Say("NONE"))
    /\ Goto(t, "stats")
    /\ UNCHANGED <<storeVars, up, serving, conns, lock, total, call, ran>>

\* client_establish_connection gives up; the call ends here, and is counted as
\* failed only.  (The caller sees the same code for both kinds of failure.)
ConnectFail(t) ==
    /\ pc[t] = "connect" /\ Unlocked(t)
    /\ status[Owner[t]] # "CONNECTED"
    /\ status' = [status EXCEPT ![Owner[t]] = "ERROR"]
    /\ sock' = [sock EXCEPT ![Owner[t]] = 0]
    /\ failed' = [failed EXCEPT ![Owner[t]] = @ + 1]
    /\ Return(t, "NOT_CONNECTED", 0, Say("NONE"))
    /\ Goto(t, "idle")
    /\ UNCHANGED <<storeVars, up, serving, conns, lock, total, call, ran>>

\* client_send_command: another thread has disconnected meanwhile.
SendUnconnected(t) ==
    /\ pc[t] = "send" /\ Unlocked(t)
    /\ status[Owner[t]] # "CONNECTED"
    /\ ReturnError(t)
    /\ Goto(t, "stats")
    /\ UNCHANGED <<storeVars, up, serving, conns, clientVars, call, ran>>

\* The server's end is open: the command waits there to be received.
SendOpen(t) ==
    LET n == sock[Owner[t]] IN
    /\ pc[t] = "send" /\ Unlocked(t)
    /\ status[Owner[t]] = "CONNECTED"
    /\ conns[n].state \in {"waiting", "serving"}
    /\ conns' = [conns EXCEPT ![n].requests = Append(@, call[t])]
    /\ lock' = [lock EXCEPT ![Owner[t]] = t]
    /\ Goto(t, "recv")
    /\ UNCHANGED <<storeVars, up, serving, status, sock, total, failed, call, calls, ran>>

\* The server has closed its end: send succeeds, and a reset comes back, soon
\* or after the recv.
SendClosed(t) ==
    LET n == sock[Owner[t]] IN
    /\ pc[t] = "send" /\ Unlocked(t)
    /\ status[Owner[t]] = "CONNECTED"
    /\ conns[n].state = "closed"
    /\ \E state \in {"closed", "reset"} : conns' = [conns EXCEPT ![n].state = state]
    /\ lock' = [lock EXCEPT ![Owner[t]] = t]
    /\ Goto(t, "recv")
    /\ UNCHANGED <<storeVars, up, serving, status, sock, total, failed, call, calls, ran>>

\* The connection was reset, and send says so.
SendFails(t) ==
    /\ pc[t] = "send" /\ Unlocked(t)
    /\ status[Owner[t]] = "CONNECTED"
    /\ conns[sock[Owner[t]]].state = "reset"
    /\ ReturnError(t)
    /\ Goto(t, "stats")
    /\ UNCHANGED <<storeVars, up, serving, conns, clientVars, call, ran>>

\* The connection was reset, and send raises SIGPIPE, which nobody handles.
SendKills(t) ==
    LET c == Owner[t]
        dying == {u \in Threads : Owner[u] = c}
    IN
    /\ pc[t] = "send" /\ Unlocked(t)
    /\ status[c] = "CONNECTED"
    /\ conns[sock[c]].state = "reset"
    /\ status' = [status EXCEPT ![c] = "KILLED"]
    /\ conns' = [conns EXCEPT ![sock[c]].open = FALSE]
    /\ pc' = [u \in Threads |-> IF u \in dying THEN "idle" ELSE pc[u]]
    /\ calls' = [i \in DOMAIN calls |->
                   IF calls[i].client = c /\ calls[i].result = "NONE"
                   THEN [calls[i] EXCEPT !.result = "KILLED"] ELSE calls[i]]
    /\ UNCHANGED <<storeVars, up, serving, sock, lock, total, failed, call, ran>>

\* The end of client_send_command after recv, with the lock given back.
Received(t) ==
    /\ Goto(t, "stats")
    /\ lock' = [lock EXCEPT ![Owner[t]] = None]
    /\ UNCHANGED <<storeVars, up, serving, status, sock, total, failed, call, ran>>

RecvAnswer(t) ==
    LET n == sock[Owner[t]] IN
    /\ pc[t] = "recv"
    /\ conns[n].answers # <<>>
    /\ LET got == Head(conns[n].answers) IN Return(t, "SUCCESS", got.from, got.reply)
    /\ conns' = [conns EXCEPT ![n].answers = Tail(@)]
    /\ Received(t)

\* recv returns 0, which is not an error here.
RecvEof(t) ==
    LET n == sock[Owner[t]] IN
    /\ pc[t] = "recv"
    /\ conns[n].answers = <<>>
    /\ conns[n].state \in {"closed", "reset"}
    /\ Return(t, "SUCCESS", 0, Say("NONE"))
    /\ UNCHANGED conns
    /\ Received(t)

\* SO_RCVTIMEO is not set.
BugNoTimeout(t) ==
    LET n == sock[Owner[t]] IN
    /\ pc[t] = "recv"
    /\ conns[n].answers = <<>>
    /\ conns[n].state = "reset"
    /\ ReturnError(t)
    /\ UNCHANGED conns
    /\ Received(t)

\* A recv that fails is taken for an empty answer.
BugErrorIsSuccess(t) ==
    LET n == sock[Owner[t]] IN
    /\ pc[t] = "recv"
    /\ conns[n].answers = <<>>
    /\ conns[n].state # "closed"
    /\ Return(t, "SUCCESS", 0, Say("NONE"))
    /\ UNCHANGED conns
    /\ Received(t)

\* recv returns -1: a reset, or SO_RCVTIMEO has passed.
RecvFails(t) ==
    LET n == sock[Owner[t]] IN
    /\ pc[t] = "recv"
    /\ conns[n].answers = <<>>
    /\ conns[n].state # "closed"
    /\ ReturnError(t)
    /\ UNCHANGED conns
    /\ Received(t)

\* The end of client_set, client_get, ...: the call is counted.
Stats(t) ==
    LET c == Owner[t] IN
    /\ pc[t] = "stats" /\ Unlocked(t)
    /\ total' = [total EXCEPT ![c] = @ + 1]
    /\ failed' = [failed EXCEPT ![c] =
                    IF calls[call[t]].result # "SUCCESS" THEN @ + 1 ELSE @]
    /\ Goto(t, "idle")
    /\ UNCHANGED <<storeVars, up, serving, conns, status, sock, lock, call, calls, ran>>

Step(t) ==
    \/ ConnectAlready(t) \/ ConnectOk(t) \/ ConnectFail(t)
    \/ SendUnconnected(t) \/ SendOpen(t) \/ SendClosed(t) \/ SendFails(t) \/ SendKills(t)
    \/ RecvAnswer(t) \/ RecvEof(t) \/ RecvFails(t)
    \/ Stats(t)

\* client_disconnect, by a thread that is in no operation.
Disconnect(t) ==
    LET c == Owner[t] IN
    /\ pc[t] = "idle" /\ Unlocked(t)
    /\ status[c] = "CONNECTED"
    /\ conns' = [conns EXCEPT ![sock[c]].open = FALSE]
    /\ sock' = [sock EXCEPT ![c] = 0]
    /\ status' = [status EXCEPT ![c] = "DISCONNECTED"]
    /\ UNCHANGED <<storeVars, up, serving, lock, total, failed, pc, call, calls, ran>>

---------------------------------------------------------------------------
(* The acceptor thread. *)

\* What handle_client_connection makes of commands received in one buffer: the
\* first one, its last argument running to the end of the buffer.
Mixed(req) ==
    CASE req.cmd = "SET" -> [req EXCEPT !.value = MixedValue]
      [] req.cmd \in KeyCommand -> [req EXCEPT !.key = MixedKey]
      [] req.cmd = "FLUSH" -> req
      [] OTHER -> [cmd |-> "UNKNOWN"]

\* accept: the connections wait in the order they were established.
Accept ==
    LET waiting == {n \in DOMAIN conns : conns[n].state = "waiting"} IN
    /\ up
    /\ serving = 0
    /\ waiting # {}
    /\ serving' = Min(waiting)
    /\ conns' = [conns EXCEPT ![Min(waiting)].state = "serving"]
    /\ UNCHANGED <<storeVars, up, clientVars, pc, call, calls, ran>>

\* The first m commands that are there are received, and handled as one.
HandleFirst(m) ==
    LET first == Head(conns[serving].requests)
        req == calls[first].req
    IN
    /\ Store!Handle(IF m = 1 THEN req ELSE Mixed(req))
    /\ ran' = Append(ran, first)

\* The connection is kept, and the command stays in its buffer.
BugCommandKept ==
    LET first == Head(conns[serving].requests) IN
    /\ serving # 0
    /\ conns[serving].requests # <<>>
    /\ HandleFirst(1)
    /\ conns' = [conns EXCEPT ![serving].requests = Append(Tail(@), first),
                              ![serving].answers = <<[from |-> first, reply |-> reply']>>]
    /\ UNCHANGED <<up, serving, clientVars, pc, call, calls>>

\* recv, the answer and the close.  A close with bytes left unread resets the
\* connection.  The commands are those that the 1023 bytes of the buffer hold; one
\* that is longer is left out (its value is cut, as a node cuts it anyway, and its
\* rest resets the connection, as a second command does here).
Serve ==
    LET conn == conns[serving]
        first == Head(conn.requests)
    IN
    /\ serving # 0
    /\ conn.requests # <<>>
    /\ \E m \in 1..Len(conn.requests) :
          /\ HandleFirst(m)
          /\ conns' = [conns EXCEPT ![serving] =
                         [state |-> IF m < Len(conn.requests) THEN "reset" ELSE "closed",
                          open |-> conn.open,
                          requests |-> <<>>,
                          answers |-> IF conn.open THEN <<[from |-> first, reply |-> reply']>>
                                                   ELSE <<>>]]
    /\ serving' = 0
    /\ UNCHANGED <<up, clientVars, pc, call, calls>>

\* recv returns 0: the client has closed without a command.
ServeEof ==
    /\ serving # 0
    /\ conns[serving].requests = <<>>
    /\ ~conns[serving].open
    /\ conns' = [conns EXCEPT ![serving].state = "closed"]
    /\ serving' = 0
    /\ UNCHANGED <<storeVars, up, clientVars, pc, call, calls, ran>>

\* What the end of the process does to a connection: those not accepted are reset,
\* and so is the one in service if there is more than the m commands received.
Cut(n, m) ==
    [conns[n] EXCEPT !.state = IF n = serving /\ m = Len(conns[n].requests)
                               THEN "closed" ELSE "reset",
                     !.requests = <<>>]

\* main returns, or the process is killed, wherever the acceptor is: what it has
\* received may have been handled, and is not answered.  The server stays away.
Exit ==
    LET held == IF serving = 0 THEN 0 ELSE Len(conns[serving].requests) IN
    /\ up /\ Len(calls) <= MaxAtExit
    /\ up' = FALSE
    /\ serving' = 0
    /\ \E m \in 0..held :
          /\ conns' = [n \in DOMAIN conns |->
                         IF conns[n].state \in {"waiting", "serving"} THEN Cut(n, m)
                         ELSE conns[n]]
          /\ \/ m > 0 /\ HandleFirst(m)
             \/ UNCHANGED <<storeVars, ran>>
    /\ UNCHANGED <<clientVars, pc, call, calls>>

Next ==
    \/ \E t \in Threads :
          \/ \E req \in Calls : Begin(t, req)
          \/ Step(t)
          \/ Disconnect(t)
    \/ Accept
    \/ Serve
    \/ ServeEof
    \/ Exit

\* Threads that are in an operation go on; recv ends by its timeout at last.
Spec == Init /\ [][Next]_vars /\ \A t \in Threads : WF_vars(Step(t))

---------------------------------------------------------------------------
(* Properties *)

Conn == [state : {"waiting", "serving", "closed", "reset"}, open : BOOLEAN,
         requests : Seq(1..MaxCalls),
         answers : Seq([from : 1..MaxCalls, reply : Reply])]
Call == [client : Clients, req : Calls,
         result : {"NONE", "SUCCESS", "CONNECTION", "NOT_CONNECTED", "PROTOCOL", "KILLED"},
         from : 0..MaxCalls, answer : Reply, done : SUBSET (1..MaxCalls)]

TypeOK ==
    /\ Store!TypeOK
    /\ up \in BOOLEAN
    /\ serving \in 0..Len(conns)
    /\ conns \in Seq(Conn) /\ Len(conns) <= MaxConns
    /\ status \in [Clients -> {"DISCONNECTED", "CONNECTED", "ERROR", "KILLED"}]
    /\ sock \in [Clients -> 0..Len(conns)]
    /\ lock \in [Clients -> Threads \cup {None}]
    /\ total \in [Clients -> Nat] /\ failed \in [Clients -> Nat]
    /\ pc \in [Threads -> {"idle", "connect", "send", "recv", "stats"}]
    /\ call \in [Threads -> 0..Len(calls)]
    /\ calls \in Seq(Call) /\ Len(calls) <= MaxCalls
    /\ ran \in Seq(1..MaxCalls)

\* No command is handled twice, whatever timed out, was merged or was sent on a
\* connection that was closed.
AtMostOnce == IsInjective(ran)

\* A call gets the answer to an earlier call only when that call, on the same
\* client, was told of an error: until a recv has failed, requests and answers
\* of one connection do not come apart.
StaleOnlyAfterError ==
    \A i \in DOMAIN calls :
        calls[i].from \notin {0, i} =>
            /\ calls[calls[i].from].result = "CONNECTION"
            /\ calls[calls[i].from].client = calls[i].client

\* A call that got its own answer was handled before every call that began
\* after it returned: only calls without an answer can take effect late.
AnsweredInOrder ==
    \A p, q \in DOMAIN ran :
        p < q /\ ran[q] \in calls[ran[p]].done => calls[ran[q]].from # ran[q]

\* Every call that returned is counted once: in operations_failed if it failed,
\* and in operations_total if it came to sending.  (A SET that was not sent fails
\* and is counted nowhere.)
StatsAccount ==
    \A c \in Clients : status[c] # "KILLED" =>
        LET ended(results) == {i \in Returned : /\ calls[i].client = c
                                                /\ calls[i].result \in results}
            counting == {t \in Threads : Owner[t] = c /\ pc[t] = "stats"}
            bad == {t \in counting : calls[call[t]].result # "SUCCESS"}
            commands == {i \in DOMAIN calls : calls[i].req # Connecting}
        IN  /\ failed[c] + Cardinality(bad)
                 = Cardinality(ended({"CONNECTION", "NOT_CONNECTED"}))
            /\ total[c] + Cardinality(counting)
                 = Cardinality(ended({"SUCCESS", "CONNECTION"}) \cap commands)

\* A SET that was answered OK is seen by every GET of that key that begins after
\* it returned and gets its own answer (if nobody calls FLUSH, and the key is not
\* cut down when it is stored): neither commands received as one nor late ones
\* come between the two.
AcknowledgedIsRead ==
    (\A req \in Calls : req.cmd # "FLUSH") =>
        \A i \in DOMAIN calls : \A j \in calls[i].done :
            /\ calls[j].req.cmd = "SET" /\ calls[j].answer = Say("OK") /\ calls[j].from = j
            /\ calls[i].req.cmd = "GET" /\ calls[i].req.key = calls[j].req.key
            /\ calls[i].from = i /\ calls[i].req.key \in Store!Short
            => calls[i].answer # Say("NOT_FOUND")

\* Every operation returns: no thread waits for ever for an answer or for the
\* lock of its client.
OperationsReturn == \A t \in Threads : pc[t] # "idle" ~> pc[t] = "idle"

---------------------------------------------------------------------------
(* What documents and tests say, and the code does not do. *)

\* NOT an invariant.  As long as the server runs and no call failed, a call that
\* returned CLIENT_SUCCESS was carried out.
SuccessMeansRan ==
    up /\ (\A i \in DOMAIN calls : calls[i].result \in {"NONE", "SUCCESS"}) =>
        \A i \in DOMAIN calls :
            calls[i].result = "SUCCESS" /\ calls[i].req # Connecting => i \in Range(ran)

=============================================================================
