-------------------------- MODULE CacheSessionProofs --------------------------
(***************************************************************************)
(* Clients and server together, for any number of clients, threads, calls  *)
(* and connections.  The number of a call is in one place at most: with    *)
(* its thread, in the requests of one connection, or handled.  An answer   *)
(* that a connection holds is either awaited by the thread that made the   *)
(* call, or that call has failed.                                          *)
(*                                                                         *)
(* The server's table in the midst of it is the one of CommandStoreProofs: *)
(* Table is that module, and each command handled is a step of it.         *)
(***************************************************************************)
EXTENDS CacheSession, FiniteSetTheorems, TLAPS

Table == INSTANCE CommandStoreProofs

---------------------------------------------------------------------------
(* The invariant. *)

\* The calls whose command or answer a connection holds.
InFlight(n) == Range(conns[n].requests) \cup {a.from : a \in Range(conns[n].answers)}

\* A thread in an operation has a call of its own, which has its result when
\* only the counting is left.
CallsOwned ==
    \A t \in Threads : pc[t] # "idle" =>
        /\ call[t] \in DOMAIN calls
        /\ calls[call[t]].client = Owner[t]
        /\ calls[call[t]].result = "NONE" <=> pc[t] # "stats"
        /\ \A u \in Threads : pc[u] # "idle" /\ call[u] = call[t] => u = t

\* A lock that is held between steps is held by a thread that waits in recv.
LocksHeld ==
    /\ \A c \in Clients : lock[c] # None => Owner[lock[c]] = c /\ pc[lock[c]] = "recv"
    /\ \A t \in Threads : pc[t] = "recv" =>
          lock[Owner[t]] = t /\ status[Owner[t]] = "CONNECTED"

\* A connected client has a connection of its own.
SocketsOwned ==
    /\ \A c \in Clients : status[c] = "CONNECTED" => sock[c] \in DOMAIN conns
    /\ \A c, d \in Clients :
          status[c] = "CONNECTED" /\ status[d] = "CONNECTED" /\ sock[c] = sock[d] => c = d

\* A process that was killed does nothing more, and only its calls are lost.
KilledIsOver ==
    /\ \A t \in Threads : status[Owner[t]] = "KILLED" => pc[t] = "idle"
    /\ \A i \in DOMAIN calls :
          calls[i].result = "KILLED" => status[calls[i].client] = "KILLED"

\* Requests are there before the server's close, an answer after it.
OneSide ==
    \A n \in DOMAIN conns :
        /\ conns[n].state \in {"waiting", "serving"} => conns[n].answers = <<>>
        /\ conns[n].state \in {"closed", "reset"} => conns[n].requests = <<>>
        /\ Len(conns[n].answers) <= 1

\* A request that waits has not been handled and waits nowhere else; an answer
\* is of a call that was; a call that was not sent is in neither place.
Unhandled ==
    /\ \A n \in DOMAIN conns :
          /\ IsInjective(conns[n].requests)
          /\ \A i \in Range(conns[n].requests) :
                /\ i \in DOMAIN calls /\ i \notin Range(ran)
                /\ \A m \in DOMAIN conns : i \in Range(conns[m].requests) => m = n
          /\ \A a \in Range(conns[n].answers) : a.from \in Range(ran)
    /\ \A t \in Threads : pc[t] \in {"connect", "send"} =>
          /\ call[t] \notin Range(ran)
          /\ \A n \in DOMAIN conns : call[t] \notin Range(conns[n].requests)
    /\ Range(ran) \subseteq DOMAIN calls

\* What a connection holds is waited for on it, or was given up.
Awaited ==
    \A n \in DOMAIN conns : \A i \in InFlight(n) :
        \/ calls[i].result \in {"CONNECTION", "KILLED"}
        \/ \E t \in Threads : pc[t] = "recv" /\ call[t] = i /\ sock[Owner[t]] = n

\* A connection holds calls of its client only.
OwnFlight ==
    \A c \in Clients : status[c] = "CONNECTED" =>
        \A i \in InFlight(sock[c]) : calls[i].client = c

\* Calls that a call comes after have their result, and an answer is of a call
\* that was handled.
Answered ==
    \A i \in DOMAIN calls :
        /\ calls[i].done \subseteq Returned
        /\ calls[i].from # 0 => calls[i].from \in Range(ran)

SessionTypeOK ==
    /\ up \in BOOLEAN
    /\ serving \in 0..Len(conns)
    /\ conns \in Seq(Conn) /\ Len(conns) <= MaxConns
    /\ status \in [Clients -> {"DISCONNECTED", "CONNECTED", "ERROR", "KILLED"}]
    /\ sock \in [Clients -> 0..Len(conns)]
    /\ lock \in [Clients -> Threads \cup {None}]
    /\ total \in [Clients -> Nat] /\ failed \in [Clients -> Nat]
    /\ pc \in [Threads -> {"idle", "connect", "send", "recv", "stats"}]
    /\ call \in [Threads -> 0..Len(calls)]
    /\ calls \in Seq(Call) /\ Len(calls) <= MaxCalls
    /\ ran \in Seq(1..MaxCalls)

IInv ==
    /\ Table!IInv /\ SessionTypeOK
    /\ CallsOwned /\ LocksHeld /\ SocketsOwned /\ KilledIsOver
    /\ OneSide /\ Unhandled /\ Awaited /\ OwnFlight /\ Answered
    /\ AtMostOnce /\ StaleOnlyAfterError /\ AnsweredInOrder

---------------------------------------------------------------------------
(* The server's table. *)

\* A command that the session hands to the table is a step of the table.
LEMMA SameHandle ==
    ASSUME NEW req \in Request, Store!Handle(req)
    PROVE  req \in Table!Request /\ Table!Handle(req)
<1>1. Table!Handle(req)
  BY DEF Store!Handle, Table!Handle, Store!Ping, Table!Ping, Store!Flush, Table!Flush,
         Store!Set, Table!Set, Store!Overwrite, Table!Overwrite, Store!Prepend,
         Table!Prepend, Store!BadSet, Table!BadSet, Store!Get, Table!Get, Store!Delete,
         Table!Delete, Store!Exists, Table!Exists, Store!Stats, Table!Stats,
         Store!Unknown, Table!Unknown, Store!Hits, Table!Hits, Store!Find, Table!Find,
         Store!storeVars, Table!storeVars, Store!Say, Table!Say, Store!SayValue,
         Table!SayValue, Store!SayKeys, Table!SayKeys, Store!Min, Table!Min
<1>2. req \in Table!Request
  BY DEF Request, Table!Request, PlainCommand, Table!PlainCommand, KeyCommand,
         Table!KeyCommand
<1> QED
  BY <1>1, <1>2

LEMMA HandleIsStep ==
    ASSUME NEW req \in Request, Store!Handle(req)
    PROVE  Table!Next
BY SameHandle DEF Table!Next

\* The table's invariant is kept by its steps.
LEMMA TableKeeps ==
    ASSUME Table!IInv, \/ Table!Next
                       \/ UNCHANGED storeVars
    PROVE  Table!IInv'
<1>1. [Table!Next]_(Table!vars)
  BY DEF Table!vars, storeVars
<1> QED
  BY <1>1, Table!NextIInv, StoreAssumption
     DEF Table!HomeAssumption, Table!StoredAssumption, Table!KeptAssumption,
         Table!NoValueAssumption, Table!MaxNodesAssumption

\* The server starts with the table empty.
LEMMA TableStarts == Store!Init => Table!IInv
<1>1. Store!Init => Table!Init
  BY DEF Store!Init, Table!Init, Store!Say, Table!Say
<1> QED
  BY <1>1, Table!InitIInv, StoreAssumption
     DEF Table!HomeAssumption, Table!StoredAssumption, Table!KeptAssumption,
         Table!NoValueAssumption, Table!MaxNodesAssumption

---------------------------------------------------------------------------
(* What the steps do to calls and connections. *)

\* An element of a sequence is replaced.
LEMMA Replaced ==
    ASSUME NEW S, NEW s \in Seq(S), NEW n \in DOMAIN s, NEW e \in S
    PROVE  LET new == [s EXCEPT ![n] = e] IN
           /\ new \in Seq(S) /\ Len(new) = Len(s) /\ DOMAIN new = DOMAIN s
           /\ new[n] = e
           /\ \A m \in DOMAIN s : m # n => new[m] = s[m]
OBVIOUS

\* An element is added at the end.
LEMMA Appended ==
    ASSUME NEW S, NEW s \in Seq(S), NEW e \in S
    PROVE  LET new == Append(s, e) IN
           /\ new \in Seq(S) /\ Len(new) = Len(s) + 1
           /\ DOMAIN new = DOMAIN s \cup {Len(s) + 1} /\ Len(s) + 1 \notin DOMAIN s
           /\ new[Len(s) + 1] = e
           /\ \A m \in DOMAIN s : new[m] = s[m]
           /\ Range(new) = Range(s) \cup {e}
           /\ IsInjective(s) /\ e \notin Range(s) => IsInjective(new)
<1> DEFINE new == Append(s, e)
           n == Len(s)
<1>1. /\ new \in Seq(S) /\ Len(new) = n + 1 /\ DOMAIN new = 1..(n + 1)
      /\ n \in Nat /\ DOMAIN s = 1..n
      /\ new[n + 1] = e /\ \A m \in DOMAIN s : new[m] = s[m]
  OBVIOUS
<1> HIDE DEF new, n
<1>2. 1..(n + 1) = 1..n \cup {n + 1} /\ n + 1 \notin 1..n
  BY <1>1
<1>3. Range(new) = Range(s) \cup {e}
  <2>1. Range(new) \subseteq Range(s) \cup {e}
    BY <1>1, <1>2 DEF Range
  <2>2. Range(s) \cup {e} \subseteq Range(new)
    BY <1>1, <1>2 DEF Range
  <2> QED
    BY <2>1, <2>2
<1>4. IsInjective(s) /\ e \notin Range(s) => IsInjective(new)
  BY <1>1, <1>2 DEF Range, IsInjective
<1> QED
  BY <1>1, <1>2, <1>3, <1>4 DEF new, n

\* The only element is taken.
LEMMA OnlyOne ==
    ASSUME NEW S, NEW s \in Seq(S), s # <<>>, Len(s) <= 1
    PROVE  Head(s) \in S /\ Head(s) \in Range(s) /\ Tail(s) \in Seq(S) /\ Tail(s) = <<>>
<1>1. Len(s) = 1
  <2>1. Len(s) \in Nat
    OBVIOUS
  <2>2. Len(s) = 0 => s = <<>>
    OBVIOUS
  <2> QED
    BY <2>1, <2>2
<1>2. 1 \in DOMAIN s /\ Head(s) = s[1] /\ s[1] \in S
  BY <1>1
<1>3. Tail(s) \in Seq(S) /\ Len(Tail(s)) = 0
  BY <1>1
<1> QED
  BY <1>2, <1>3 DEF Range

Answer == [from : 1..MaxCalls, reply : Reply]

\* The fields of a connection.
LEMMA ConnFields ==
    ASSUME conns \in Seq(Conn), NEW n \in DOMAIN conns
    PROVE  /\ conns[n] \in Conn
           /\ conns[n].requests \in Seq(1..MaxCalls)
           /\ conns[n].answers \in Seq(Answer)
           /\ conns[n].state \in {"waiting", "serving", "closed", "reset"}
           /\ conns[n].open \in BOOLEAN
<1>1. conns[n] \in Conn
  OBVIOUS
<1> DEFINE requests == Seq(1..MaxCalls)
           answers == Seq(Answer)
<1>2. Conn = [state : {"waiting", "serving", "closed", "reset"}, open : BOOLEAN,
              requests : requests, answers : answers]
  BY DEF Conn, Answer
<1> HIDE DEF requests, answers
<1>3. conns[n].requests \in requests /\ conns[n].answers \in answers
      /\ conns[n].state \in {"waiting", "serving", "closed", "reset"}
      /\ conns[n].open \in BOOLEAN
  BY <1>1, <1>2
<1> QED
  BY <1>1, <1>3 DEF requests, answers

\* A connection with other fields is one.
LEMMA ConnOf ==
    ASSUME NEW conn \in Conn
    PROVE  /\ \A r \in Seq(1..MaxCalls) :
                 LET new == [conn EXCEPT !.requests = r] IN
                 /\ new \in Conn /\ new.requests = r
                 /\ new.answers = conn.answers /\ new.state = conn.state
           /\ \A a \in Seq(Answer) :
                 LET new == [conn EXCEPT !.answers = a] IN
                 /\ new \in Conn /\ new.answers = a
                 /\ new.requests = conn.requests /\ new.state = conn.state
<1> DEFINE requests == Seq(1..MaxCalls)
           answers == Seq(Answer)
<1>1. Conn = [state : {"waiting", "serving", "closed", "reset"}, open : BOOLEAN,
              requests : requests, answers : answers]
  BY DEF Conn, Answer
<1> HIDE DEF requests, answers
<1>2. ASSUME NEW x \in requests
      PROVE  LET new == [conn EXCEPT !.requests = x] IN
             /\ new \in Conn /\ new.requests = x
             /\ new.answers = conn.answers /\ new.state = conn.state
  BY <1>1
<1>3. ASSUME NEW x \in answers
      PROVE  LET new == [conn EXCEPT !.answers = x] IN
             /\ new \in Conn /\ new.answers = x
             /\ new.requests = conn.requests /\ new.state = conn.state
  BY <1>1
<1> QED
  BY <1>2, <1>3 DEF requests, answers

\* A call returns: it alone gets a result.
LEMMA ReturnEffect ==
    ASSUME calls \in Seq(Call), NEW t, call[t] \in DOMAIN calls,
           NEW result \in {"SUCCESS", "CONNECTION", "NOT_CONNECTED", "PROTOCOL"},
           NEW from \in 0..MaxCalls, NEW answer \in Reply, Return(t, result, from, answer)
    PROVE  /\ calls' \in Seq(Call) /\ Len(calls') = Len(calls)
           /\ DOMAIN calls' = DOMAIN calls
           /\ \A i \in DOMAIN calls :
                 /\ calls'[i].client = calls[i].client /\ calls'[i].done = calls[i].done
                 /\ calls'[i].req = calls[i].req
                 /\ i # call[t] => calls'[i] = calls[i]
           /\ calls'[call[t]].result = result /\ calls'[call[t]].from = from
           /\ calls'[call[t]].answer = answer
<1> DEFINE c == call[t]
           new == [calls[c] EXCEPT !.result = result, !.from = from, !.answer = answer]
<1>1. calls[c] \in Call
  OBVIOUS
<1>2. /\ new \in Call
      /\ new.client = calls[c].client /\ new.done = calls[c].done /\ new.req = calls[c].req
      /\ new.result = result /\ new.from = from /\ new.answer = answer
  BY <1>1 DEF Call
<1>3. calls' = [calls EXCEPT ![c] = new]
  BY <1>1 DEF Return
<1> HIDE DEF new
<1> QED
  BY <1>2, <1>3

\* Nothing is put into a connection, taken from it, or added to the connections.
Quiet ==
    /\ DOMAIN conns' = DOMAIN conns
    /\ \A n \in DOMAIN conns : /\ conns'[n].requests = conns[n].requests
                               /\ conns'[n].answers = conns[n].answers

\* A field of one connection changes.
LEMMA QuietMoves ==
    ASSUME conns \in Seq(Conn), NEW n \in DOMAIN conns,
           \/ \E state \in {"waiting", "serving", "closed", "reset"} :
                 conns' = [conns EXCEPT ![n].state = state]
           \/ conns' = [conns EXCEPT ![n].open = FALSE]
    PROVE  conns' \in Seq(Conn) /\ Len(conns') = Len(conns) /\ Quiet
<1>1. conns[n] \in Conn
  OBVIOUS
<1>2. CASE conns' = [conns EXCEPT ![n].open = FALSE]
  <2>1. [conns[n] EXCEPT !.open = FALSE] \in Conn
    BY <1>1 DEF Conn
  <2> QED
    BY <1>1, <1>2, <2>1 DEF Quiet, Conn
<1>3. ASSUME NEW state \in {"waiting", "serving", "closed", "reset"},
             conns' = [conns EXCEPT ![n].state = state]
      PROVE  conns' \in Seq(Conn) /\ Len(conns') = Len(conns) /\ Quiet
  <2>1. [conns[n] EXCEPT !.state = state] \in Conn
    BY <1>1 DEF Conn
  <2> QED
    BY <1>1, <1>3, <2>1 DEF Quiet, Conn
<1> QED
  BY <1>2, <1>3

\* One connection changes.
LEMMA OneChanges ==
    ASSUME conns \in Seq(Conn), NEW n \in DOMAIN conns, NEW new \in Conn,
           conns' = [conns EXCEPT ![n] = new]
    PROVE  /\ conns' \in Seq(Conn) /\ Len(conns') = Len(conns)
           /\ DOMAIN conns' = DOMAIN conns
           /\ conns'[n] = new
           /\ \A m \in DOMAIN conns : m # n => conns'[m] = conns[m]
BY Replaced

\* A connection is established.
LEMMA ConnectEffect ==
    ASSUME conns \in Seq(Conn), conns' = Append(conns, NewConn)
    PROVE  /\ conns' \in Seq(Conn) /\ Len(conns') = Len(conns) + 1
           /\ DOMAIN conns' = DOMAIN conns \cup {Len(conns) + 1}
           /\ Len(conns) + 1 \notin DOMAIN conns
           /\ \A n \in DOMAIN conns : conns'[n] = conns[n]
           /\ conns'[Len(conns) + 1].state = "waiting"
           /\ conns'[Len(conns) + 1].requests = <<>>
           /\ conns'[Len(conns) + 1].answers = <<>>
<1>1. NewConn \in Conn
  BY DEF NewConn, Conn
<1>2. NewConn.state = "waiting" /\ NewConn.requests = <<>> /\ NewConn.answers = <<>>
  BY DEF NewConn
<1> HIDE DEF NewConn
<1> QED
  BY <1>1, <1>2

\* A request is put into a connection.
LEMMA SendEffect ==
    ASSUME conns \in Seq(Conn), NEW n \in DOMAIN conns, NEW i \in 1..MaxCalls,
           conns' = [conns EXCEPT ![n].requests = Append(@, i)]
    PROVE  /\ conns' \in Seq(Conn) /\ Len(conns') = Len(conns)
           /\ DOMAIN conns' = DOMAIN conns
           /\ \A m \in DOMAIN conns : m # n => conns'[m] = conns[m]
           /\ conns'[n].state = conns[n].state
           /\ conns'[n].answers = conns[n].answers
           /\ Range(conns'[n].requests) = Range(conns[n].requests) \cup {i}
           /\ IsInjective(conns[n].requests) /\ i \notin Range(conns[n].requests)
                 => IsInjective(conns'[n].requests)
<1> DEFINE r == conns[n].requests
           new == [conns[n] EXCEPT !.requests = Append(r, i)]
<1>1. conns[n] \in Conn /\ r \in Seq(1..MaxCalls)
  BY ConnFields
<1>2. /\ Append(r, i) \in Seq(1..MaxCalls)
      /\ Range(Append(r, i)) = Range(r) \cup {i}
      /\ IsInjective(r) /\ i \notin Range(r) => IsInjective(Append(r, i))
  <2> DEFINE S == 1..MaxCalls
  <2>1. r \in Seq(S) /\ i \in S
    BY <1>1
  <2> HIDE DEF S, r
  <2>2. /\ Append(r, i) \in Seq(S)
        /\ Range(Append(r, i)) = Range(r) \cup {i}
        /\ IsInjective(r) /\ i \notin Range(r) => IsInjective(Append(r, i))
    BY <2>1, Appended
  <2> QED
    BY <2>2 DEF S
<1>3. /\ new \in Conn /\ new.requests = Append(r, i)
      /\ new.state = conns[n].state /\ new.answers = conns[n].answers
  BY <1>1, <1>2, ConnOf
<1>4. conns' = [conns EXCEPT ![n] = new]
  OBVIOUS
<1> HIDE DEF new, r
<1>5. conns'[n] = new /\ DOMAIN conns' = DOMAIN conns /\ Len(conns') = Len(conns)
      /\ conns' \in Seq(Conn) /\ \A m \in DOMAIN conns : m # n => conns'[m] = conns[m]
  BY <1>3, <1>4, OneChanges
<1> QED
  BY <1>2, <1>3, <1>5 DEF r

\* The answer of a connection is taken from it.
LEMMA AnswerEffect ==
    ASSUME conns \in Seq(Conn), NEW n \in DOMAIN conns,
           conns[n].answers # <<>>, Len(conns[n].answers) <= 1,
           conns' = [conns EXCEPT ![n].answers = Tail(@)]
    PROVE  /\ conns' \in Seq(Conn) /\ Len(conns') = Len(conns)
           /\ DOMAIN conns' = DOMAIN conns
           /\ \A m \in DOMAIN conns : m # n => conns'[m] = conns[m]
           /\ conns'[n].state = conns[n].state
           /\ conns'[n].requests = conns[n].requests
           /\ conns'[n].answers = <<>>
           /\ Head(conns[n].answers) \in Range(conns[n].answers)
           /\ Head(conns[n].answers).from \in 1..MaxCalls
           /\ Head(conns[n].answers).reply \in Reply
<1> DEFINE a == conns[n].answers
           new == [conns[n] EXCEPT !.answers = Tail(a)]
<1>1. conns[n] \in Conn /\ a \in Seq(Answer)
  BY ConnFields
<1>2. /\ Head(a) \in Answer /\ Head(a) \in Range(a)
      /\ Tail(a) \in Seq(Answer) /\ Tail(a) = <<>>
  BY <1>1, OnlyOne
<1>3. /\ new \in Conn /\ new.answers = Tail(a)
      /\ new.requests = conns[n].requests /\ new.state = conns[n].state
  BY <1>1, <1>2, ConnOf
<1>4. conns' = [conns EXCEPT ![n] = new]
  OBVIOUS
<1> HIDE DEF new, a
<1>5. conns'[n] = new /\ DOMAIN conns' = DOMAIN conns /\ Len(conns') = Len(conns)
      /\ conns' \in Seq(Conn) /\ \A m \in DOMAIN conns : m # n => conns'[m] = conns[m]
  BY <1>3, <1>4, OneChanges
<1>6. Head(a).from \in 1..MaxCalls /\ Head(a).reply \in Reply
  BY <1>2 DEF Answer
<1> QED
  BY <1>2, <1>3, <1>5, <1>6 DEF a

\* What connections hold only becomes less.
Drains ==
    /\ DOMAIN conns \subseteq DOMAIN conns'
    /\ \A n \in DOMAIN conns :
          /\ conns'[n].requests \in {conns[n].requests, <<>>}
          /\ Range(conns'[n].answers) \subseteq Range(conns[n].answers)
    /\ \A n \in DOMAIN conns' \ DOMAIN conns :
          conns'[n].requests = <<>> /\ conns'[n].answers = <<>>

\* Nothing that waits for the server appears by that.
LEMMA DrainKeeps ==
    ASSUME Unhandled, Drains, UNCHANGED <<call, ran>>, DOMAIN calls' = DOMAIN calls,
           \A u \in Threads : pc'[u] \in {"connect", "send"} => pc[u] \in {"connect", "send"}
    PROVE  /\ Unhandled'
           /\ \A n \in DOMAIN conns : InFlight(n)' \subseteq InFlight(n)
           /\ \A n \in DOMAIN conns' \ DOMAIN conns : InFlight(n)' = {}
<1>1. \A n \in DOMAIN conns' \ DOMAIN conns :
         /\ Range(conns'[n].requests) = {} /\ Range(conns'[n].answers) = {}
         /\ IsInjective(conns'[n].requests)
  BY DEF Drains, Range, IsInjective
<1>0. Range(<<>>) = {} /\ IsInjective(<<>>)
  BY DEF Range, IsInjective
<1>2. \A n \in DOMAIN conns' : \A i \in Range(conns'[n].requests) :
         n \in DOMAIN conns /\ i \in Range(conns[n].requests)
  BY <1>0, <1>1 DEF Drains
<1>3. \A n \in DOMAIN conns' : \A a \in Range(conns'[n].answers) :
         n \in DOMAIN conns /\ a \in Range(conns[n].answers)
  BY <1>1 DEF Drains
<1>4. \A n \in DOMAIN conns' : IsInjective(conns'[n].requests)
  BY <1>0, <1>1 DEF Drains, Unhandled
<1>5. ASSUME NEW n \in DOMAIN conns', NEW i \in Range(conns'[n].requests)
      PROVE  /\ i \in DOMAIN calls' /\ i \notin Range(ran')
             /\ \A m \in DOMAIN conns' : i \in Range(conns'[m].requests) => m = n
  BY <1>2, <1>5 DEF Unhandled
<1>6. ASSUME NEW n \in DOMAIN conns', NEW a \in Range(conns'[n].answers)
      PROVE  a.from \in Range(ran')
  BY <1>3, <1>6 DEF Unhandled
<1>7. ASSUME NEW u \in Threads, pc'[u] \in {"connect", "send"}
      PROVE  /\ call'[u] \notin Range(ran')
             /\ \A n \in DOMAIN conns' : call'[u] \notin Range(conns'[n].requests)
  BY <1>2, <1>7 DEF Unhandled
<1>8. Range(ran') \subseteq DOMAIN calls'
  BY DEF Unhandled
<1>9. Unhandled'
  BY <1>4, <1>5, <1>6, <1>7, <1>8 DEF Unhandled
<1>10. /\ \A n \in DOMAIN conns : InFlight(n)' \subseteq InFlight(n)
       /\ \A n \in DOMAIN conns' \ DOMAIN conns : InFlight(n)' = {}
  BY <1>0, <1>1 DEF InFlight, Drains
<1> QED
  BY <1>9, <1>10

---------------------------------------------------------------------------
(* The steps, one lemma for each kind. *)

\* The sequences, as functions.
LEMMA Sizes ==
    ASSUME SessionTypeOK
    PROVE  /\ Len(calls) \in Nat /\ DOMAIN calls = 1..Len(calls) /\ Len(calls) <= MaxCalls
           /\ Len(conns) \in Nat /\ DOMAIN conns = 1..Len(conns) /\ Len(conns) <= MaxConns
           /\ Len(ran) \in Nat /\ DOMAIN ran = 1..Len(ran)
           /\ calls \in Seq(Call) /\ conns \in Seq(Conn) /\ ran \in Seq(1..MaxCalls)
           /\ MaxCalls \in Nat /\ MaxConns \in Nat
           /\ \A i \in DOMAIN calls : calls[i] \in Call
           /\ \A t \in Threads : Owner[t] \in Clients
<1>1. calls \in Seq(Call) /\ conns \in Seq(Conn) /\ ran \in Seq(1..MaxCalls)
  BY DEF SessionTypeOK
<1>2. Len(calls) <= MaxCalls /\ Len(conns) <= MaxConns
  BY DEF SessionTypeOK
<1> QED
  BY <1>1, <1>2, OwnerAssumption, BoundsAssumption

\* A thread begins an operation.
LEMMA BeginKeeps ==
    ASSUME IInv, NEW t \in Threads, NEW req \in Calls, Begin(t, req)
    PROVE  IInv'
<1> USE DEF IInv
<1> DEFINE i == Len(calls) + 1
           new == Pending(Owner[t], req, Returned)
<1>0. /\ Len(calls) \in Nat /\ DOMAIN calls = 1..Len(calls) /\ calls \in Seq(Call)
      /\ MaxCalls \in Nat /\ \A u \in Threads : Owner[u] \in Clients
  BY Sizes
<1>1. /\ pc[t] = "idle" /\ status[Owner[t]] # "KILLED" /\ Len(calls) < MaxCalls
      /\ calls' = Append(calls, new)
      /\ call' = [call EXCEPT ![t] = i]
      /\ pc' = [pc EXCEPT ![t] = "connect"]
      /\ UNCHANGED <<storeVars, up, serving, conns, status, sock, lock, total, failed, ran>>
  BY DEF Begin, Goto, clientVars
<1>2. new \in Call
  <2>1. Returned \subseteq 1..MaxCalls
    BY <1>0, <1>1 DEF Returned
  <2>2. Say("NONE") \in Reply
    BY DEF Say, Reply
  <2> QED
    BY <1>0, <2>1, <2>2 DEF Pending, Call
<1>3. new.client = Owner[t] /\ new.result = "NONE" /\ new.from = 0 /\ new.done = Returned
  BY DEF Pending
<1> HIDE DEF new, i
<1>4. /\ calls' \in Seq(Call) /\ Len(calls') = Len(calls) + 1
      /\ DOMAIN calls' = DOMAIN calls \cup {i} /\ i \notin DOMAIN calls
      /\ calls'[i] = new
      /\ \A j \in DOMAIN calls : calls'[j] = calls[j]
  BY <1>0, <1>1, <1>2, Appended DEF i
<1>5. Returned' = Returned
  BY <1>3, <1>4 DEF Returned
<1>6. /\ pc \in [Threads -> {"idle", "connect", "send", "recv", "stats"}]
      /\ call \in [Threads -> 0..Len(calls)]
  BY DEF SessionTypeOK
<1>7. /\ pc'[t] = "connect" /\ call'[t] = i
      /\ \A u \in Threads \ {t} : pc'[u] = pc[u] /\ call'[u] = call[u]
  BY <1>1, <1>6
<1>8. Table!IInv'
  BY <1>1, TableKeeps
<1>9. SessionTypeOK'
  <2>1. call' \in [Threads -> 0..Len(calls')]
    BY <1>0, <1>1, <1>4, <1>6 DEF i
  <2>2. pc' \in [Threads -> {"idle", "connect", "send", "recv", "stats"}]
    BY <1>1, <1>6
  <2>3. Len(calls') <= MaxCalls
    BY <1>0, <1>1, <1>4
  <2> QED
    BY <1>1, <1>4, <2>1, <2>2, <2>3 DEF SessionTypeOK
<1>10. CallsOwned'
  BY <1>3, <1>4, <1>7 DEF CallsOwned
<1>11. LocksHeld'
  BY <1>1, <1>7 DEF LocksHeld, SessionTypeOK
<1>12. SocketsOwned' /\ OneSide'
  BY <1>1 DEF SocketsOwned, OneSide
<1>13. KilledIsOver'
  BY <1>1, <1>3, <1>4, <1>7 DEF KilledIsOver
<1>14. Unhandled'
  BY <1>1, <1>4, <1>7 DEF Unhandled
<1>15. \A n \in DOMAIN conns : InFlight(n)' = InFlight(n) /\ InFlight(n) \subseteq DOMAIN calls
  BY <1>1 DEF InFlight, Unhandled
<1>16. Awaited'
  BY <1>1, <1>4, <1>7, <1>15 DEF Awaited
<1>17. OwnFlight'
  BY <1>1, <1>4, <1>15 DEF OwnFlight, SocketsOwned
<1>18. Answered'
  BY <1>1, <1>3, <1>4, <1>5 DEF Answered
<1>19. AtMostOnce'
  BY <1>1 DEF AtMostOnce
<1>20. StaleOnlyAfterError'
  BY <1>3, <1>4 DEF StaleOnlyAfterError, Answered, Unhandled
<1>21. AnsweredInOrder'
  <2>1. \A p \in DOMAIN ran : ran[p] \in DOMAIN calls
    BY DEF Unhandled, Range
  <2> QED
    BY <1>1, <1>4, <2>1 DEF AnsweredInOrder
<1> QED
  BY <1>8, <1>9, <1>10, <1>11, <1>12, <1>13, <1>14, <1>16, <1>17, <1>18, <1>19, <1>20,
     <1>21

\* A connection is accepted or found closed, or nothing happens.
LEMMA WaitingEffect ==
    ASSUME IInv, Accept \/ ServeEof \/ UNCHANGED vars
    PROVE  /\ conns' \in Seq(Conn) /\ Len(conns') = Len(conns) /\ Quiet
           /\ serving' \in 0..Len(conns) /\ OneSide'
<1> USE DEF IInv
<1>1. conns \in Seq(Conn) /\ serving \in 0..Len(conns) /\ Len(conns) \in Nat
      /\ DOMAIN conns = 1..Len(conns)
  BY Sizes DEF SessionTypeOK
<1>2. CASE Accept
  <2> DEFINE waiting == {n \in DOMAIN conns : conns[n].state = "waiting"}
             n == Min(waiting)
  <2>1. waiting # {} /\ serving' = n /\ conns' = [conns EXCEPT ![n].state = "serving"]
    BY <1>2 DEF Accept
  <2>2. waiting \subseteq Nat
    BY <1>1
  <2> HIDE DEF waiting
  <2>3. n \in waiting
    <3>1. Table!Min(waiting) \in waiting
      BY <2>1, <2>2, Table!MinIsLeast, StoreAssumption
         DEF Table!HomeAssumption, Table!StoredAssumption, Table!KeptAssumption,
             Table!NoValueAssumption, Table!MaxNodesAssumption
    <3> QED
      BY <3>1 DEF Min, Table!Min
  <2> HIDE DEF n
  <2>4. n \in DOMAIN conns /\ conns[n].state = "waiting"
    BY <2>3 DEF waiting
  <2>5. conns' \in Seq(Conn) /\ Len(conns') = Len(conns) /\ Quiet
    BY <1>1, <2>1, <2>4, QuietMoves
  <2>6. conns'[n].state = "serving" /\ \A m \in DOMAIN conns \ {n} : conns'[m] = conns[m]
    BY <1>1, <2>1, <2>4, ConnFields DEF Conn
  <2> QED
    BY <1>1, <2>1, <2>4, <2>5, <2>6 DEF OneSide, Quiet
<1>3. CASE ServeEof
  <2>1. /\ serving # 0 /\ conns[serving].requests = <<>> /\ serving' = 0
        /\ conns' = [conns EXCEPT ![serving].state = "closed"]
    BY <1>3 DEF ServeEof
  <2>2. serving \in DOMAIN conns
    BY <1>1, <2>1
  <2>3. conns' \in Seq(Conn) /\ Len(conns') = Len(conns) /\ Quiet
    BY <1>1, <2>1, <2>2, QuietMoves
  <2>4. /\ conns'[serving].state = "closed"
        /\ \A m \in DOMAIN conns \ {serving} : conns'[m] = conns[m]
    BY <1>1, <2>1, <2>2, ConnFields DEF Conn
  <2> QED
    BY <1>1, <2>1, <2>2, <2>3, <2>4 DEF OneSide, Quiet
<1>4. CASE UNCHANGED vars
  BY <1>1, <1>4 DEF vars, Quiet, OneSide
<1> QED
  BY <1>2, <1>3, <1>4

LEMMA WaitingKeeps ==
    ASSUME IInv, Accept \/ ServeEof \/ UNCHANGED vars
    PROVE  IInv'
<1> USE DEF IInv
<1>1. UNCHANGED <<storeVars, up, status, sock, lock, total, failed, pc, call, calls, ran>>
  BY DEF Accept, ServeEof, vars, clientVars
<1>2. /\ conns' \in Seq(Conn) /\ Len(conns') = Len(conns) /\ Quiet
      /\ serving' \in 0..Len(conns) /\ OneSide'
  BY WaitingEffect
<1>3. Table!IInv'
  BY <1>1, TableKeeps
<1>4. SessionTypeOK'
  BY <1>1, <1>2 DEF SessionTypeOK
<1>5. CallsOwned' /\ LocksHeld' /\ SocketsOwned' /\ KilledIsOver'
  BY <1>1, <1>2 DEF CallsOwned, LocksHeld, SocketsOwned, KilledIsOver, Quiet
<1>6. Unhandled'
  BY <1>1, <1>2 DEF Unhandled, Quiet
<1>7. \A n \in DOMAIN conns : InFlight(n)' = InFlight(n)
  BY <1>2 DEF InFlight, Quiet
<1>8. Awaited' /\ OwnFlight'
  BY <1>1, <1>2, <1>7 DEF Awaited, OwnFlight, SocketsOwned, Quiet
<1>9. Answered' /\ AtMostOnce' /\ StaleOnlyAfterError' /\ AnsweredInOrder'
  BY <1>1 DEF Answered, Returned, AtMostOnce, StaleOnlyAfterError, AnsweredInOrder
<1> QED
  BY <1>2, <1>3, <1>4, <1>5, <1>6, <1>8, <1>9

\* A client disconnects.
LEMMA DisconnectKeeps ==
    ASSUME IInv, NEW t \in Threads, Disconnect(t)
    PROVE  IInv'
<1> USE DEF IInv
<1> DEFINE c == Owner[t]
<1>1. /\ lock[c] = None /\ status[c] = "CONNECTED" /\ c \in Clients
      /\ conns' = [conns EXCEPT ![sock[c]].open = FALSE]
      /\ sock' = [sock EXCEPT ![c] = 0]
      /\ status' = [status EXCEPT ![c] = "DISCONNECTED"]
      /\ UNCHANGED <<storeVars, up, serving, lock, total, failed, pc, call, calls, ran>>
  BY Sizes DEF Disconnect, Unlocked
<1> HIDE DEF c
<1>2. sock[c] \in DOMAIN conns
  BY <1>1 DEF SocketsOwned
<1>3. /\ conns' \in Seq(Conn) /\ Len(conns') = Len(conns) /\ Quiet
  BY <1>1, <1>2, QuietMoves, Sizes
<1>4. OneSide'
  <2>1. conns'[sock[c]].state = conns[sock[c]].state
        /\ \A m \in DOMAIN conns \ {sock[c]} : conns'[m] = conns[m]
    BY <1>1, <1>2, Sizes, ConnFields DEF Conn
  <2>2. \A n \in DOMAIN conns : conns'[n].state = conns[n].state
    BY <2>1
  <2> QED
    BY <1>3, <2>2 DEF OneSide, Quiet
<1>5. /\ sock \in [Clients -> 0..Len(conns)]
      /\ status \in [Clients -> {"DISCONNECTED", "CONNECTED", "ERROR", "KILLED"}]
  BY DEF SessionTypeOK
<1>6. /\ status'[c] = "DISCONNECTED"
      /\ \A d \in Clients \ {c} : status'[d] = status[d] /\ sock'[d] = sock[d]
  BY <1>1, <1>5
<1>7. Table!IInv'
  BY <1>1, TableKeeps
<1>8. SessionTypeOK'
  <2>1. sock' \in [Clients -> 0..Len(conns')]
        /\ status' \in [Clients -> {"DISCONNECTED", "CONNECTED", "ERROR", "KILLED"}]
    BY <1>1, <1>3, <1>5, Sizes
  <2> QED
    BY <1>1, <1>3, <2>1 DEF SessionTypeOK
<1>9. \A u \in Threads : pc[u] = "recv" => Owner[u] # c /\ Owner[u] \in Clients
  BY <1>1, NoneAssumption, Sizes DEF LocksHeld
<1>10. CallsOwned'
  BY <1>1 DEF CallsOwned
<1>11. LocksHeld'
  BY <1>1, <1>6, <1>9 DEF LocksHeld
<1>12. SocketsOwned'
  BY <1>3, <1>6 DEF SocketsOwned, Quiet
<1>13. KilledIsOver'
  <2>1. \A i \in DOMAIN calls : calls[i].client \in Clients
    BY Sizes DEF Call
  <2> QED
    BY <1>1, <1>6, <2>1, Sizes DEF KilledIsOver
<1>14. Unhandled'
  <2>1. Drains
    BY <1>3 DEF Drains, Quiet
  <2> QED
    BY <1>1, <2>1, DrainKeeps
<1>15. \A n \in DOMAIN conns : InFlight(n)' = InFlight(n)
  BY <1>3 DEF InFlight, Quiet
<1>16. Awaited'
  BY <1>1, <1>3, <1>6, <1>9, <1>15 DEF Awaited, Quiet
<1>17. OwnFlight'
  BY <1>1, <1>6, <1>15 DEF OwnFlight, SocketsOwned
<1>18. Answered' /\ AtMostOnce' /\ StaleOnlyAfterError' /\ AnsweredInOrder'
  BY <1>1 DEF Answered, Returned, AtMostOnce, StaleOnlyAfterError, AnsweredInOrder
<1> QED
  BY <1>4, <1>7, <1>8, <1>10, <1>11, <1>12, <1>13, <1>14, <1>16, <1>17, <1>18

\* A call that has its result is counted.
LEMMA StatsKeeps ==
    ASSUME IInv, NEW t \in Threads, Stats(t)
    PROVE  IInv'
<1> USE DEF IInv
<1>1. /\ pc[t] = "stats" /\ pc' = [pc EXCEPT ![t] = "idle"]
      /\ UNCHANGED <<storeVars, up, serving, conns, status, sock, lock, call, calls, ran>>
  BY DEF Stats, Goto
<1>2. pc \in [Threads -> {"idle", "connect", "send", "recv", "stats"}]
  BY DEF SessionTypeOK
<1>3. pc'[t] = "idle" /\ \A u \in Threads \ {t} : pc'[u] = pc[u]
  BY <1>1, <1>2
<1>4. Table!IInv'
  BY <1>1, TableKeeps
<1>5. SessionTypeOK'
  <2>1. total' \in [Clients -> Nat] /\ failed' \in [Clients -> Nat]
    <3> DEFINE c == Owner[t]
    <3>1. c \in Clients /\ total \in [Clients -> Nat] /\ failed \in [Clients -> Nat]
      BY Sizes DEF SessionTypeOK
    <3>2. /\ total' = [total EXCEPT ![c] = @ + 1]
          /\ \/ failed' = [failed EXCEPT ![c] = @ + 1]
             \/ failed' = [failed EXCEPT ![c] = @]
      BY DEF Stats
    <3> HIDE DEF c
    <3>3. total[c] + 1 \in Nat /\ failed[c] + 1 \in Nat
      BY <3>1
    <3> QED
      BY <3>1, <3>2, <3>3
  <2>2. pc' \in [Threads -> {"idle", "connect", "send", "recv", "stats"}]
    BY <1>1, <1>2
  <2> QED
    BY <1>1, <2>1, <2>2 DEF SessionTypeOK
<1>6. CallsOwned'
  BY <1>1, <1>3 DEF CallsOwned
<1>7. LocksHeld'
  BY <1>1, <1>3, NoneAssumption DEF LocksHeld, SessionTypeOK
<1>8. SocketsOwned' /\ OneSide' /\ OwnFlight'
  BY <1>1 DEF SocketsOwned, OneSide, OwnFlight, InFlight
<1>9. KilledIsOver'
  BY <1>1, <1>3 DEF KilledIsOver
<1>10. Unhandled'
  BY <1>1, <1>3 DEF Unhandled
<1>11. \A n \in DOMAIN conns : InFlight(n)' = InFlight(n)
  BY <1>1 DEF InFlight
<1>12. Awaited'
  BY <1>1, <1>3, <1>11 DEF Awaited
<1>13. Answered' /\ AtMostOnce' /\ StaleOnlyAfterError' /\ AnsweredInOrder'
  BY <1>1 DEF Answered, Returned, AtMostOnce, StaleOnlyAfterError, AnsweredInOrder
<1> QED
  BY <1>4, <1>5, <1>6, <1>7, <1>8, <1>9, <1>10, <1>12, <1>13

\* What all these steps do: the call of t goes on to send, or ends with a result, an
\* answer and what that is from, an old call only if it failed.
Ends(t, result, from, answer, to) ==
    /\ pc[t] \in {"connect", "send", "recv"} /\ pc' = [pc EXCEPT ![t] = to]
    /\ \/ result # "NONE" /\ to # "send" /\ Return(t, result, from, answer)
       \/ /\ result = "NONE" /\ to = "send" /\ pc[t] = "connect"
          /\ from = calls[call[t]].from /\ UNCHANGED calls
    /\ from # 0 => from \in Range(ran)
    /\ from \notin {0, call[t]} =>
          calls[from].result = "CONNECTION" /\ calls[from].client = Owner[t]
    /\ pc[t] = "recv" /\ result # "CONNECTION" => InFlight(sock[Owner[t]])' = {}
    /\ UNCHANGED <<storeVars, up, serving, total, call, ran>>

\* What they leave of the connections.
ConnsKept ==
    Drains /\ conns' \in Seq(Conn) /\ Len(conns') \in Len(conns)..MaxConns /\ OneSide'

\* What they do to the clients: c may have connected or failed to.
ClientsKept(t, c) ==
    /\ status' \in [Clients -> {"DISCONNECTED", "CONNECTED", "ERROR", "KILLED"}]
    /\ sock' \in [Clients -> 0..Len(conns')]
    /\ lock' \in [Clients -> Threads \cup {None}]
    /\ failed' \in [Clients -> Nat]
    /\ \A d \in Clients \ {c} :
          status'[d] = status[d] /\ sock'[d] = sock[d] /\ lock'[d] = lock[d]
    /\ lock[c] \in {None, t} /\ lock'[c] = None
    /\ \/ status'[c] = status[c] /\ sock'[c] = sock[c]
       \/ /\ pc[t] = "connect" /\ status[c] # "CONNECTED"
          /\ \/ status'[c] = "ERROR"
             \/ status'[c] = "CONNECTED" /\ sock'[c] \in DOMAIN conns' \ DOMAIN conns

\* A call returns, from wherever its thread was, or goes on to send.  Its client
\* may have connected or failed to; what its connection held for it has been taken
\* or was given up.
LEMMA OperationKeeps ==
    ASSUME IInv, NEW t \in Threads,
           NEW result \in {"NONE", "SUCCESS", "CONNECTION", "NOT_CONNECTED", "PROTOCOL"},
           NEW from \in 0..MaxCalls, NEW answer \in Reply, NEW to \in {"idle", "send", "stats"},
           Ends(t, result, from, answer, to), ConnsKept, ClientsKept(t, Owner[t])
    PROVE  IInv'
<1> USE DEF Ends, ConnsKept, ClientsKept
<1> USE DEF IInv
<1> DEFINE c == Owner[t]
           i == call[t]
<1>1. /\ c \in Clients /\ i \in DOMAIN calls /\ calls[i].client = c
      /\ calls[i].result = "NONE" /\ status[c] # "KILLED"
  BY Sizes DEF CallsOwned, KilledIsOver
<1>2. /\ calls' \in Seq(Call) /\ Len(calls') = Len(calls) /\ DOMAIN calls' = DOMAIN calls
      /\ \A j \in DOMAIN calls :
            /\ calls'[j].client = calls[j].client /\ calls'[j].done = calls[j].done
            /\ j # i => calls'[j] = calls[j]
      /\ calls'[i].result = result /\ calls'[i].from = from
  <2>1. CASE result = "NONE"
    BY <1>1, <2>1, Sizes
  <2>2. CASE result # "NONE"
    <3> HIDE DEF i
    <3>1. Return(t, result, from, answer) /\ i = call[t]
      BY <2>2 DEF i
    <3>2. result \in {"SUCCESS", "CONNECTION", "NOT_CONNECTED", "PROTOCOL"}
      BY <2>2
    <3>3. calls \in Seq(Call)
      BY Sizes
    <3> HIDE DEF IInv, Ends, ConnsKept, ClientsKept
    <3> QED
      BY <1>1, <3>1, <3>2, <3>3, ReturnEffect
  <2> QED
    BY <2>1, <2>2
<1>3. /\ pc \in [Threads -> {"idle", "connect", "send", "recv", "stats"}]
      /\ status \in [Clients -> {"DISCONNECTED", "CONNECTED", "ERROR", "KILLED"}]
      /\ pc'[t] = to /\ \A u \in Threads \ {t} : pc'[u] = pc[u]
  BY DEF SessionTypeOK
<1>4. \A d \in Clients : status'[d] = "KILLED" <=> status[d] = "KILLED"
  BY <1>1
<1>5. \A u \in Threads \ {t} : pc[u] = "recv" => Owner[u] \in Clients \ {c}
  BY <1>1, NoneAssumption, Sizes DEF LocksHeld
<1>6. t # None
  BY NoneAssumption
<1>7. Len(conns) \in Nat /\ DOMAIN conns \subseteq DOMAIN conns'
  BY Sizes DEF Drains
<1> HIDE DEF c, i
<1>8. Table!IInv'
  BY TableKeeps
<1>9. SessionTypeOK'
  <2>1. serving' \in 0..Len(conns')
    BY <1>7, Sizes DEF SessionTypeOK
  <2>2. pc' \in [Threads -> {"idle", "connect", "send", "recv", "stats"}]
    BY <1>3
  <2>3. /\ call' \in [Threads -> 0..Len(calls')] /\ Len(calls') <= MaxCalls
        /\ total' \in [Clients -> Nat] /\ ran' \in Seq(1..MaxCalls)
    BY <1>2 DEF SessionTypeOK
  <2>4. Len(conns') <= MaxConns
    BY <1>7, Sizes
  <2> QED
    BY <1>2, <2>1, <2>2, <2>3, <2>4 DEF SessionTypeOK
<1>10. CallsOwned'
  BY <1>1, <1>2, <1>3 DEF CallsOwned, c, i
<1>11. LocksHeld'
  <2>1. ASSUME NEW d \in Clients, lock'[d] # None
        PROVE  Owner[lock'[d]] = d /\ pc'[lock'[d]] = "recv"
    <3>1. d # c /\ lock'[d] = lock[d]
      BY <2>1 DEF c
    <3>4. lock[d] \in Threads
      BY <2>1, <3>1 DEF SessionTypeOK
    <3>2. Owner[lock[d]] = d /\ pc[lock[d]] = "recv" /\ lock[d] # t
      BY <2>1, <3>1 DEF LocksHeld, c
    <3> QED
      BY <1>3, <3>1, <3>2
  <2>2. ASSUME NEW u \in Threads, pc'[u] = "recv"
        PROVE  lock'[Owner[u]] = u /\ status'[Owner[u]] = "CONNECTED"
    <3>1. u # t /\ pc[u] = "recv"
      BY <1>3, <2>2
    <3>2. lock[Owner[u]] = u /\ status[Owner[u]] = "CONNECTED"
      BY <3>1 DEF LocksHeld
    <3>3. Owner[u] \in Clients \ {c}
      BY <1>5, <3>1
    <3> QED
      BY <3>2, <3>3 DEF c
  <2> HIDE DEF IInv, Ends, ConnsKept, ClientsKept
  <2> QED
    BY <2>1, <2>2 DEF LocksHeld
<1>12. \A d \in Clients : status'[d] = "CONNECTED" =>
          \/ status[d] = "CONNECTED" /\ sock'[d] = sock[d]
          \/ d = c /\ sock'[d] \in DOMAIN conns' \ DOMAIN conns
  BY DEF c
<1>13. SocketsOwned'
  <2>1. \A d \in Clients : status'[d] = "CONNECTED" =>
           \/ sock'[d] = sock[d] /\ status[d] = "CONNECTED" /\ sock[d] \in DOMAIN conns
           \/ d = c /\ sock'[d] \in DOMAIN conns' \ DOMAIN conns
    BY <1>12 DEF SocketsOwned
  <2>2. \A d \in Clients : status'[d] = "CONNECTED" => sock'[d] \in DOMAIN conns'
    BY <1>7, <2>1
  <2>3. ASSUME NEW d \in Clients, NEW e \in Clients, sock'[d] = sock'[e],
               status'[d] = "CONNECTED", status'[e] = "CONNECTED"
        PROVE  d = e
    <3>1. CASE sock'[d] \in DOMAIN conns
      <4>1. /\ status[d] = "CONNECTED" /\ status[e] = "CONNECTED"
            /\ sock[d] = sock[e]
        BY <2>1, <2>3, <3>1
      <4> QED
        BY <4>1 DEF SocketsOwned
    <3>2. CASE sock'[d] \notin DOMAIN conns
      BY <2>1, <2>3, <3>2
    <3> QED
      BY <3>1, <3>2
  <2> QED
    BY <2>2, <2>3 DEF SocketsOwned
<1>14. KilledIsOver'
  <2>1. \A u \in Threads : status'[Owner[u]] = "KILLED" => pc'[u] = "idle"
    BY <1>1, <1>3, <1>4, Sizes DEF KilledIsOver, c
  <2>2. \A j \in DOMAIN calls : calls[j].client \in Clients
    BY Sizes DEF Call
  <2>3. ASSUME NEW j \in DOMAIN calls, calls'[j].result = "KILLED"
        PROVE  status'[calls'[j].client] = "KILLED"
    <3>1. j # i /\ calls'[j] = calls[j]
      BY <1>2, <2>3
    <3>2. status[calls[j].client] = "KILLED"
      BY <2>3, <3>1 DEF KilledIsOver
    <3> HIDE DEF IInv, Ends, ConnsKept, ClientsKept
    <3> QED
      BY <1>4, <2>2, <3>1, <3>2
  <2> QED
    BY <1>2, <2>1, <2>3 DEF KilledIsOver
<1>15. /\ Unhandled'
       /\ \A n \in DOMAIN conns : InFlight(n)' \subseteq InFlight(n)
       /\ \A n \in DOMAIN conns' \ DOMAIN conns : InFlight(n)' = {}
  BY <1>2, <1>3, DrainKeeps
<1>16. Awaited'
  <2> SUFFICES ASSUME NEW n \in DOMAIN conns', NEW j \in InFlight(n)'
               PROVE  \/ calls'[j].result \in {"CONNECTION", "KILLED"}
                      \/ \E u \in Threads :
                            pc'[u] = "recv" /\ call'[u] = j /\ sock'[Owner[u]] = n
    BY DEF Awaited, InFlight
  <2>1. n \in DOMAIN conns /\ j \in InFlight(n)
    BY <1>15
  <2>2. CASE calls[j].result \in {"CONNECTION", "KILLED"}
    <3>1. j \in DOMAIN calls /\ j # i
      BY <1>1, <2>1, <2>2 DEF Unhandled, InFlight
    <3> QED
      BY <1>2, <2>2, <3>1
  <2>3. ASSUME NEW u \in Threads, pc[u] = "recv", call[u] = j, sock[Owner[u]] = n
        PROVE  \/ calls'[j].result = "CONNECTION"
               \/ pc'[u] = "recv" /\ call'[u] = j /\ sock'[Owner[u]] = n
    <3>1. CASE u = t
      BY <1>2, <2>3, <3>1 DEF i
    <3>2. CASE u # t
      BY <1>3, <1>5, <2>3, <3>2 DEF c
    <3> QED
      BY <3>1, <3>2
  <2> QED
    BY <2>1, <2>2, <2>3 DEF Awaited
<1>17. OwnFlight'
  <2> SUFFICES ASSUME NEW d \in Clients, status'[d] = "CONNECTED",
                      NEW j \in InFlight(sock[d])'
               PROVE  calls'[j].client = d
    BY DEF OwnFlight, InFlight
  <2>1. status[d] = "CONNECTED" /\ sock'[d] = sock[d] /\ sock[d] \in DOMAIN conns
    BY <1>12, <1>15 DEF SocketsOwned, InFlight
  <2>2. j \in InFlight(sock[d])
    BY <1>15, <2>1 DEF InFlight
  <2>3. j \in DOMAIN calls
    BY <2>1, <2>2 DEF Unhandled, InFlight
  <2> QED
    BY <1>2, <2>1, <2>2, <2>3 DEF OwnFlight
<1>18. Answered'
  <2>1. Returned \subseteq Returned'
    BY <1>2, <1>1 DEF Returned
  <2> QED
    BY <1>2, <2>1 DEF Answered
<1>19. AtMostOnce'
  BY DEF AtMostOnce
<1>20. StaleOnlyAfterError'
  <2> SUFFICES ASSUME NEW j \in DOMAIN calls, calls'[j].from \notin {0, j}
               PROVE  /\ calls'[calls'[j].from].result = "CONNECTION"
                      /\ calls'[calls'[j].from].client = calls'[j].client
    BY <1>2 DEF StaleOnlyAfterError
  <2>1. CASE j = i
    <3>1. /\ from \notin {0, i} /\ calls[from].result = "CONNECTION"
          /\ calls[from].client = c /\ from \in DOMAIN calls
      BY <1>2, <2>1 DEF Unhandled, i, c
    <3> QED
      BY <1>1, <1>2, <2>1, <3>1
  <2>2. CASE j # i
    <3>1. calls'[j] = calls[j]
      BY <1>2, <2>2
    <3>2. calls[j].from \in DOMAIN calls
      BY <3>1 DEF Answered, Unhandled
    <3>3. /\ calls[calls[j].from].result = "CONNECTION"
          /\ calls[calls[j].from].client = calls[j].client
      BY <3>1 DEF StaleOnlyAfterError
    <3>4. calls'[calls[j].from] = calls[calls[j].from]
      BY <1>1, <1>2, <3>2, <3>3
    <3> QED
      BY <3>1, <3>3, <3>4
  <2> QED
    BY <2>1, <2>2
<1>21. AnsweredInOrder'
  <2> SUFFICES ASSUME NEW p \in DOMAIN ran, NEW q \in DOMAIN ran,
                      p < q, ran[q] \in calls'[ran[p]].done
               PROVE  calls'[ran[q]].from # ran[q]
    BY DEF AnsweredInOrder
  <2>1. ran[p] \in DOMAIN calls /\ ran[q] \in DOMAIN calls
    BY DEF Unhandled, Range
  <2>2. ran[q] \in calls[ran[p]].done
    BY <1>2, <2>1
  <2>3. ran[q] # i
    BY <1>1, <2>1, <2>2 DEF Answered, Returned
  <2> QED
    BY <1>2, <2>1, <2>2, <2>3 DEF AnsweredInOrder
<1> QED
  BY <1>8, <1>9, <1>10, <1>11, <1>13, <1>14, <1>15, <1>16, <1>17, <1>18, <1>19, <1>20,
     <1>21

\* What holds of a thread that is to return or to go on.
LEMMA InOperation ==
    ASSUME IInv, NEW t \in Threads, pc[t] \in {"connect", "send", "recv"}
    PROVE  /\ Owner[t] \in Clients /\ status[Owner[t]] # "KILLED"
           /\ call[t] \in DOMAIN calls /\ call[t] \in 1..MaxCalls
           /\ calls[call[t]].client = Owner[t] /\ calls[call[t]].result = "NONE"
           /\ calls[call[t]].from \in 0..MaxCalls
           /\ calls[call[t]].from # 0 => calls[call[t]].from \in Range(ran)
           /\ calls[call[t]].from \notin {0, call[t]} =>
                 /\ calls[calls[call[t]].from].result = "CONNECTION"
                 /\ calls[calls[call[t]].from].client = Owner[t]
           /\ pc[t] = "recv" => /\ lock[Owner[t]] = t /\ status[Owner[t]] = "CONNECTED"
                                /\ sock[Owner[t]] \in DOMAIN conns
           /\ Say("NONE") \in Reply
<1> USE DEF IInv
<1>1. SessionTypeOK /\ Owner[t] \in Clients
  BY Sizes
<1>2. call[t] \in DOMAIN calls /\ calls[call[t]].client = Owner[t]
      /\ calls[call[t]].result = "NONE"
  BY DEF CallsOwned
<1>3. call[t] \in 1..MaxCalls /\ calls[call[t]] \in Call
  BY <1>1, <1>2, Sizes
<1>4. calls[call[t]].from \in 0..MaxCalls
  BY <1>3 DEF Call
<1>5. /\ calls[call[t]].from # 0 => calls[call[t]].from \in Range(ran)
      /\ calls[call[t]].from \notin {0, call[t]} =>
            /\ calls[calls[call[t]].from].result = "CONNECTION"
            /\ calls[calls[call[t]].from].client = Owner[t]
  BY <1>2 DEF Answered, StaleOnlyAfterError
<1>6. status[Owner[t]] # "KILLED"
  BY DEF KilledIsOver
<1>7. pc[t] = "recv" => /\ lock[Owner[t]] = t /\ status[Owner[t]] = "CONNECTED"
                        /\ sock[Owner[t]] \in DOMAIN conns
  BY <1>1 DEF LocksHeld, SocketsOwned
<1>8. Say("NONE") \in Reply
  BY DEF Say, Reply
<1> QED
  BY <1>1, <1>2, <1>3, <1>4, <1>5, <1>6, <1>7, <1>8

\* A thread finds its client connected, or connects it.
LEMMA ConnectKeeps ==
    ASSUME IInv, NEW t \in Threads, ConnectAlready(t) \/ ConnectOk(t)
    PROVE  IInv'
<1> DEFINE c == Owner[t]
<1>1. /\ pc[t] = "connect" /\ lock[c] = None /\ Connected(t)
      /\ UNCHANGED <<storeVars, up, serving, lock, total, failed, call, ran>>
  BY DEF ConnectAlready, ConnectOk, Unlocked, clientVars
<1>2. SessionTypeOK /\ OneSide
  BY DEF IInv
<1>3. c \in Clients /\ Len(conns) \in Nat /\ conns \in Seq(Conn) /\ MaxConns \in Nat
      /\ DOMAIN conns = 1..Len(conns) /\ Len(conns) <= MaxConns
  BY <1>2, Sizes
<1>4. /\ sock \in [Clients -> 0..Len(conns)]
      /\ status \in [Clients -> {"DISCONNECTED", "CONNECTED", "ERROR", "KILLED"}]
      /\ lock \in [Clients -> Threads \cup {None}] /\ failed \in [Clients -> Nat]
  BY <1>2 DEF SessionTypeOK
<1>5. /\ Drains /\ conns' \in Seq(Conn) /\ Len(conns') \in Len(conns)..MaxConns /\ OneSide'
      /\ status' \in [Clients -> {"DISCONNECTED", "CONNECTED", "ERROR", "KILLED"}]
      /\ sock' \in [Clients -> 0..Len(conns')]
      /\ \A d \in Clients \ {c} : status'[d] = status[d] /\ sock'[d] = sock[d]
      /\ \/ status'[c] = status[c] /\ sock'[c] = sock[c]
         \/ /\ status[c] # "CONNECTED" /\ status'[c] = "CONNECTED"
            /\ sock'[c] \in DOMAIN conns' \ DOMAIN conns
  <2>1. CASE ConnectAlready(t)
    <3>1. UNCHANGED <<conns, status, sock>>
      BY <2>1 DEF ConnectAlready, clientVars
    <3> QED
      BY <1>2, <1>3, <1>4, <3>1 DEF Drains, OneSide
  <2>2. CASE ConnectOk(t)
    <3> DEFINE n == Len(conns) + 1
    <3>1. /\ status[c] # "CONNECTED" /\ Len(conns) < MaxConns
          /\ conns' = Append(conns, NewConn)
          /\ sock' = [sock EXCEPT ![c] = n]
          /\ status' = [status EXCEPT ![c] = "CONNECTED"]
      BY <2>2 DEF ConnectOk
    <3>2. n \in Nat /\ n # 0 /\ n <= MaxConns /\ Len(conns) < n
      BY <1>3, <3>1
    <3>3. /\ conns' \in Seq(Conn) /\ Len(conns') = n
          /\ DOMAIN conns' = DOMAIN conns \cup {n} /\ n \notin DOMAIN conns
          /\ \A m \in DOMAIN conns : conns'[m] = conns[m]
          /\ conns'[n].state = "waiting"
          /\ conns'[n].requests = <<>> /\ conns'[n].answers = <<>>
      BY <1>3, <3>1, ConnectEffect
    <3> HIDE DEF n, c
    <3>4. Drains
      BY <3>3 DEF Drains
    <3>5. OneSide'
      <4>1. Len(<<>>) <= 1
        OBVIOUS
      <4> QED
        BY <1>2, <3>3, <4>1 DEF OneSide
    <3>6. sock' \in [Clients -> 0..Len(conns')] /\ sock'[c] = n
          /\ \A d \in Clients \ {c} : sock'[d] = sock[d]
      BY <1>3, <1>4, <3>1, <3>2, <3>3
    <3>7. /\ status' \in [Clients -> {"DISCONNECTED", "CONNECTED", "ERROR", "KILLED"}]
          /\ status'[c] = "CONNECTED" /\ \A d \in Clients \ {c} : status'[d] = status[d]
      BY <1>3, <1>4, <3>1
    <3> QED
      BY <1>3, <3>1, <3>2, <3>3, <3>4, <3>5, <3>6, <3>7
  <2> QED
    BY <2>1, <2>2
<1> DEFINE from == calls[call[t]].from
<1>6. /\ Say("NONE") \in Reply /\ from \in 0..MaxCalls
      /\ from # 0 => from \in Range(ran)
      /\ from \notin {0, call[t]} =>
            calls[from].result = "CONNECTION" /\ calls[from].client = c
  BY <1>1, InOperation
<1>7. lock' \in [Clients -> Threads \cup {None}] /\ failed' \in [Clients -> Nat]
      /\ lock'[c] = None /\ \A d \in Clients \ {c} : lock'[d] = lock[d]
  BY <1>1, <1>4
<1>8. ConnsKept /\ ClientsKept(t, c)
  BY <1>1, <1>4, <1>5, <1>7 DEF ConnsKept, ClientsKept
<1>9. CASE pc' = [pc EXCEPT ![t] = "send"] /\ UNCHANGED calls
  <2>1. Ends(t, "NONE", from, Say("NONE"), "send")
    BY <1>1, <1>6, <1>9 DEF Ends
  <2> QED
    BY <1>6, <1>8, <2>1, OperationKeeps
<1>10. ASSUME NEW result \in {"SUCCESS", "PROTOCOL"},
              pc' = [pc EXCEPT ![t] = "idle"], Return(t, result, 0, Say("NONE"))
       PROVE  IInv'
  <2>1. 0 \in 0..MaxCalls
    BY BoundsAssumption
  <2>2. Ends(t, result, 0, Say("NONE"), "idle")
    BY <1>1, <1>10 DEF Ends
  <2> QED
    BY <1>6, <1>8, <2>1, <2>2, OperationKeeps
<1> QED
  BY <1>1, <1>9, <1>10 DEF Connected, Goto

\* A call fails before a command is sent.
LEMMA FailKeeps ==
    ASSUME IInv, NEW t \in Threads, ConnectFail(t) \/ SendUnconnected(t) \/ SendFails(t)
    PROVE  IInv'
<1> DEFINE c == Owner[t]
<1>1. /\ pc[t] \in {"connect", "send"} /\ lock[c] = None
      /\ UNCHANGED <<storeVars, up, serving, conns, lock, total, call, ran>>
  BY DEF ConnectFail, SendUnconnected, SendFails, Unlocked, clientVars
<1>2. SessionTypeOK /\ OneSide
  BY DEF IInv
<1>3. c \in Clients /\ Len(conns) \in Nat /\ conns \in Seq(Conn) /\ MaxConns \in Nat
      /\ DOMAIN conns = 1..Len(conns) /\ Len(conns) <= MaxConns
  BY <1>2, Sizes
<1>4. /\ sock \in [Clients -> 0..Len(conns)]
      /\ status \in [Clients -> {"DISCONNECTED", "CONNECTED", "ERROR", "KILLED"}]
      /\ lock \in [Clients -> Threads \cup {None}] /\ failed \in [Clients -> Nat]
  BY <1>2 DEF SessionTypeOK
<1>5. /\ Drains /\ conns' \in Seq(Conn) /\ Len(conns') \in Len(conns)..MaxConns /\ OneSide'
      /\ lock' \in [Clients -> Threads \cup {None}]
      /\ lock'[c] = None /\ \A d \in Clients \ {c} : lock'[d] = lock[d]
  BY <1>1, <1>2, <1>3, <1>4 DEF Drains, OneSide
<1>6. Say("NONE") \in Reply /\ 0 \in 0..MaxCalls
  BY <1>1, InOperation, BoundsAssumption
<1>7. CASE ConnectFail(t)
  <2>1. /\ pc[t] = "connect" /\ status[c] # "CONNECTED"
        /\ status' = [status EXCEPT ![c] = "ERROR"] /\ sock' = [sock EXCEPT ![c] = 0]
        /\ failed' = [failed EXCEPT ![c] = @ + 1]
        /\ Return(t, "NOT_CONNECTED", 0, Say("NONE")) /\ pc' = [pc EXCEPT ![t] = "idle"]
    BY <1>7 DEF ConnectFail, Goto
  <2> HIDE DEF c
  <2>2. /\ status' \in [Clients -> {"DISCONNECTED", "CONNECTED", "ERROR", "KILLED"}]
        /\ status'[c] = "ERROR" /\ \A d \in Clients \ {c} : status'[d] = status[d]
    BY <1>3, <1>4, <2>1
  <2>3. /\ sock' \in [Clients -> 0..Len(conns')]
        /\ \A d \in Clients \ {c} : sock'[d] = sock[d]
    BY <1>1, <1>3, <1>4, <2>1
  <2>4. failed' \in [Clients -> Nat]
    <3>1. failed[c] + 1 \in Nat
      BY <1>3, <1>4
    <3> QED
      BY <1>3, <1>4, <2>1, <3>1
  <2> USE DEF c
  <2>5. Ends(t, "NOT_CONNECTED", 0, Say("NONE"), "idle")
    BY <1>1, <2>1 DEF Ends
  <2>6. ConnsKept /\ ClientsKept(t, c)
    BY <1>1, <1>5, <2>1, <2>2, <2>3, <2>4 DEF ConnsKept, ClientsKept
  <2> QED
    BY <1>6, <2>5, <2>6, OperationKeeps
<1>8. CASE SendUnconnected(t) \/ SendFails(t)
  <2>1. /\ UNCHANGED <<status, sock, failed>> /\ pc[t] = "send"
        /\ Return(t, "CONNECTION", 0, Say("NONE")) /\ pc' = [pc EXCEPT ![t] = "stats"]
    BY <1>8 DEF SendUnconnected, SendFails, ReturnError, Goto, clientVars
  <2>2. Ends(t, "CONNECTION", 0, Say("NONE"), "stats")
    BY <1>1, <2>1 DEF Ends
  <2>3. ConnsKept /\ ClientsKept(t, c)
    BY <1>1, <1>4, <1>5, <2>1 DEF ConnsKept, ClientsKept
  <2> QED
    BY <1>6, <2>2, <2>3, OperationKeeps
<1> QED
  BY <1>7, <1>8

\* What an answer is for, on the connection of the thread that reads it: that
\* thread's call, or one that has failed.
LEMMA AnswerIsFor ==
    ASSUME IInv, NEW t \in Threads, pc[t] = "recv",
           NEW i \in InFlight(sock[Owner[t]]), i # call[t]
    PROVE  calls[i].result = "CONNECTION" /\ calls[i].client = Owner[t]
<1> USE DEF IInv
<1> DEFINE c == Owner[t]
           n == sock[c]
<1>1. c \in Clients /\ status[c] = "CONNECTED" /\ lock[c] = t /\ n \in DOMAIN conns
  BY InOperation
<1>2. calls[i].client = c /\ i \in DOMAIN calls
  <2>1. calls[i].client = c
    BY <1>1 DEF OwnFlight
  <2>2. i \in DOMAIN calls
    BY <1>1 DEF Unhandled, InFlight
  <2> QED
    BY <2>1, <2>2
<1>3. calls[i].result # "KILLED"
  BY <1>1, <1>2 DEF KilledIsOver
<1>4. ASSUME NEW u \in Threads, pc[u] = "recv", call[u] = i, sock[Owner[u]] = n
      PROVE  FALSE
  <2>1. Owner[u] \in Clients /\ status[Owner[u]] = "CONNECTED" /\ lock[Owner[u]] = u
    BY <1>4, InOperation
  <2>2. Owner[u] = c
    BY <1>1, <1>4, <2>1 DEF SocketsOwned
  <2> QED
    BY <1>1, <1>4, <2>1, <2>2
<1>5. calls[i].result \in {"CONNECTION", "KILLED"}
  BY <1>1, <1>4 DEF Awaited
<1> QED
  BY <1>2, <1>3, <1>5

\* A recv returns: with an answer, at the end of file, or with an error.
LEMMA RecvKeeps ==
    ASSUME IInv, NEW t \in Threads, RecvAnswer(t) \/ RecvEof(t) \/ RecvFails(t)
    PROVE  IInv'
<1> DEFINE c == Owner[t]
           n == sock[c]
<1>1. /\ pc[t] = "recv" /\ pc' = [pc EXCEPT ![t] = "stats"]
      /\ lock' = [lock EXCEPT ![c] = None]
      /\ UNCHANGED <<storeVars, up, serving, status, sock, total, failed, call, ran>>
  BY DEF RecvAnswer, RecvEof, RecvFails, Received, Goto
<1>2. SessionTypeOK /\ OneSide /\ Unhandled
  BY DEF IInv
<1>3. /\ c \in Clients /\ lock[c] = t /\ n \in DOMAIN conns /\ Say("NONE") \in Reply
      /\ call[t] \in 1..MaxCalls
  BY <1>1, InOperation
<1>4. /\ Len(conns) \in Nat /\ conns \in Seq(Conn) /\ MaxConns \in Nat
      /\ DOMAIN conns = 1..Len(conns) /\ Len(conns) <= MaxConns /\ MaxCalls \in Nat
  BY <1>2, Sizes
<1>5. /\ sock \in [Clients -> 0..Len(conns)]
      /\ status \in [Clients -> {"DISCONNECTED", "CONNECTED", "ERROR", "KILLED"}]
      /\ lock \in [Clients -> Threads \cup {None}] /\ failed \in [Clients -> Nat]
  BY <1>2 DEF SessionTypeOK
<1>6. /\ lock' \in [Clients -> Threads \cup {None}]
      /\ lock'[c] = None /\ \A d \in Clients \ {c} : lock'[d] = lock[d]
  BY <1>1, <1>3, <1>5
<1>7. CASE RecvAnswer(t)
  <2> DEFINE got == Head(conns[n].answers)
  <2>1. /\ conns[n].answers # <<>> /\ conns' = [conns EXCEPT ![n].answers = Tail(@)]
        /\ Return(t, "SUCCESS", got.from, got.reply)
    BY <1>7 DEF RecvAnswer
  <2>2. Len(conns[n].answers) <= 1
    BY <1>2, <1>3 DEF OneSide
  <2> HIDE DEF n
  <2>3. /\ conns' \in Seq(Conn) /\ Len(conns') = Len(conns) /\ DOMAIN conns' = DOMAIN conns
        /\ \A m \in DOMAIN conns : m # n => conns'[m] = conns[m]
        /\ conns'[n].state = conns[n].state
        /\ conns'[n].requests = conns[n].requests
        /\ conns'[n].answers = <<>>
        /\ got \in Range(conns[n].answers)
        /\ got.from \in 1..MaxCalls /\ got.reply \in Reply
    BY <1>3, <1>4, <2>1, <2>2, AnswerEffect
  <2>4. Drains
    BY <2>3 DEF Drains, Range
  <2>5. OneSide'
    <3>1. Len(<<>>) <= 1
      OBVIOUS
    <3> QED
      BY <1>2, <2>3, <3>1 DEF OneSide
  <2>6. InFlight(n)' = {}
    <3>1. conns[n].state \in {"closed", "reset"}
      BY <1>2, <1>3, <1>4, <2>1, ConnFields DEF OneSide
    <3>2. conns'[n].requests = <<>> /\ conns'[n].answers = <<>>
      BY <1>2, <1>3, <2>3, <3>1 DEF OneSide
    <3>3. n' = n
      BY <1>1 DEF n
    <3> QED
      BY <3>2, <3>3 DEF InFlight, Range
  <2>7. got.from \in InFlight(n) /\ got.from \in Range(ran)
    BY <1>2, <1>3, <2>3 DEF Unhandled, InFlight
  <2> HIDE DEF got
  <2>8. got.from \notin {0, call[t]} =>
           calls[got.from].result = "CONNECTION" /\ calls[got.from].client = c
    BY <1>1, <2>7, AnswerIsFor DEF n
  <2>9. /\ got.from \in 0..MaxCalls /\ Len(conns') \in Len(conns)..MaxConns
        /\ sock' \in [Clients -> 0..Len(conns')]
    BY <1>1, <1>4, <1>5, <2>3
  <2>10. Ends(t, "SUCCESS", got.from, got.reply, "stats")
    BY <1>1, <2>1, <2>6, <2>7, <2>8 DEF Ends, n
  <2>11. ConnsKept /\ ClientsKept(t, c)
    BY <1>1, <1>3, <1>5, <1>6, <2>3, <2>4, <2>5, <2>9 DEF ConnsKept, ClientsKept
  <2> QED
    BY <2>3, <2>9, <2>10, <2>11, OperationKeeps
<1>8. CASE RecvEof(t) \/ RecvFails(t)
  <2>1. UNCHANGED conns /\ conns[n].answers = <<>>
    BY <1>8 DEF RecvEof, RecvFails
  <2>2. /\ Drains /\ OneSide' /\ Len(conns') \in Len(conns)..MaxConns
        /\ conns' \in Seq(Conn) /\ sock' \in [Clients -> 0..Len(conns')]
    BY <1>1, <1>2, <1>4, <1>5, <2>1 DEF Drains, OneSide
  <2>3. 0 \in 0..MaxCalls
    BY <1>4
  <2>6. ConnsKept /\ ClientsKept(t, c)
    BY <1>1, <1>3, <1>5, <1>6, <2>2 DEF ConnsKept, ClientsKept
  <2>4. CASE RecvFails(t)
    <3>1. Return(t, "CONNECTION", 0, Say("NONE"))
      BY <2>4 DEF RecvFails, ReturnError
    <3>2. Ends(t, "CONNECTION", 0, Say("NONE"), "stats")
      BY <1>1, <3>1 DEF Ends
    <3> QED
      BY <1>3, <2>3, <2>6, <3>2, OperationKeeps
  <2>5. CASE RecvEof(t)
    <3>1. Return(t, "SUCCESS", 0, Say("NONE")) /\ conns[n].state \in {"closed", "reset"}
      BY <2>5 DEF RecvEof
    <3>2. InFlight(n)' = {}
      <4>1. conns[n].requests = <<>>
        BY <1>2, <1>3, <3>1 DEF OneSide
      <4>2. conns'[n'].requests = <<>> /\ conns'[n'].answers = <<>>
        BY <1>1, <2>1, <4>1
      <4> QED
        BY <4>2 DEF InFlight, Range
    <3>3. Ends(t, "SUCCESS", 0, Say("NONE"), "stats")
      BY <1>1, <3>1, <3>2 DEF Ends
    <3> QED
      BY <1>3, <2>3, <2>6, <3>3, OperationKeeps
  <2> QED
    BY <1>8, <2>4, <2>5
<1> QED
  BY <1>7, <1>8

\* A command is sent, to a server that reads it or one that has closed.
LEMMA SendKeeps ==
    ASSUME IInv, NEW t \in Threads, SendOpen(t) \/ SendClosed(t)
    PROVE  IInv'
<1> USE DEF IInv
<1> DEFINE c == Owner[t]
           n == sock[c]
           i == call[t]
<1>1. /\ pc[t] = "send" /\ pc' = [pc EXCEPT ![t] = "recv"]
      /\ lock[c] = None /\ lock' = [lock EXCEPT ![c] = t] /\ status[c] = "CONNECTED"
      /\ UNCHANGED <<storeVars, up, serving, status, sock, total, failed, call, calls, ran>>
  BY DEF SendOpen, SendClosed, Unlocked, Goto
<1>2. /\ c \in Clients /\ i \in DOMAIN calls /\ i \in 1..MaxCalls
      /\ calls[i].client = c /\ calls[i].result = "NONE"
  BY <1>1, InOperation
<1>3. n \in DOMAIN conns
  BY <1>1, <1>2 DEF SocketsOwned
<1>4. /\ i \notin Range(ran)
      /\ \A m \in DOMAIN conns : i \notin Range(conns[m].requests)
      /\ \A u \in Threads \ {t} : pc[u] # "idle" => call[u] # i
  BY <1>1 DEF Unhandled, CallsOwned
<1>5. /\ Len(conns) \in Nat /\ conns \in Seq(Conn) /\ MaxConns \in Nat
      /\ DOMAIN conns = 1..Len(conns) /\ Len(conns) <= MaxConns
  BY Sizes
<1> HIDE DEF c, n, i
<1>6. /\ conns' \in Seq(Conn) /\ Len(conns') = Len(conns) /\ DOMAIN conns' = DOMAIN conns
      /\ OneSide'
      /\ \A m \in DOMAIN conns : conns'[m].answers = conns[m].answers
      /\ \A m \in DOMAIN conns : m # n => conns'[m].requests = conns[m].requests
      /\ Range(conns'[n].requests) \subseteq Range(conns[n].requests) \cup {i}
      /\ IsInjective(conns'[n].requests)
  <2>1. CASE SendOpen(t)
    <3>1. /\ conns[n].state \in {"waiting", "serving"}
          /\ conns' = [conns EXCEPT ![n].requests = Append(@, i)]
      BY <2>1 DEF SendOpen, n, i, c
    <3>2. /\ conns' \in Seq(Conn) /\ Len(conns') = Len(conns) /\ DOMAIN conns' = DOMAIN conns
          /\ \A m \in DOMAIN conns : m # n => conns'[m] = conns[m]
          /\ conns'[n].state = conns[n].state
          /\ conns'[n].answers = conns[n].answers
          /\ Range(conns'[n].requests) = Range(conns[n].requests) \cup {i}
          /\ IsInjective(conns[n].requests) /\ i \notin Range(conns[n].requests)
                => IsInjective(conns'[n].requests)
      BY <1>2, <1>3, <1>5, <3>1, SendEffect
    <3>3. IsInjective(conns'[n].requests)
      BY <1>3, <1>4, <3>2 DEF Unhandled
    <3>4. OneSide'
      BY <1>3, <3>1, <3>2 DEF OneSide
    <3> QED
      BY <3>2, <3>3, <3>4
  <2>2. CASE SendClosed(t)
    <3>1. conns[n].state = "closed"
      BY <2>2 DEF SendClosed, n, c
    <3>2. PICK state \in {"closed", "reset"} : conns' = [conns EXCEPT ![n].state = state]
      BY <2>2 DEF SendClosed, n, c
    <3>3. conns' \in Seq(Conn) /\ Len(conns') = Len(conns) /\ Quiet
      BY <1>3, <1>5, <3>2, QuietMoves
    <3>4. conns'[n].state = state /\ \A m \in DOMAIN conns \ {n} : conns'[m] = conns[m]
      BY <1>3, <1>5, <3>2, ConnFields DEF Conn
    <3>5. OneSide'
      BY <1>3, <3>1, <3>3, <3>4 DEF OneSide, Quiet
    <3>6. IsInjective(conns'[n].requests)
      BY <1>3, <3>3 DEF Unhandled, Quiet
    <3> QED
      BY <1>3, <3>3, <3>5, <3>6 DEF Quiet
  <2> QED
    BY <2>1, <2>2
<1>7. /\ pc \in [Threads -> {"idle", "connect", "send", "recv", "stats"}]
      /\ lock \in [Clients -> Threads \cup {None}]
  BY DEF SessionTypeOK
<1>8. /\ pc'[t] = "recv" /\ \A u \in Threads \ {t} : pc'[u] = pc[u]
      /\ lock'[c] = t /\ \A d \in Clients \ {c} : lock'[d] = lock[d]
  BY <1>1, <1>2, <1>7
<1>9. Table!IInv'
  BY <1>1, TableKeeps
<1>10. SessionTypeOK'
  <2>1. /\ pc' \in [Threads -> {"idle", "connect", "send", "recv", "stats"}]
        /\ lock' \in [Clients -> Threads \cup {None}]
    BY <1>1, <1>7
  <2>2. serving' \in 0..Len(conns') /\ sock' \in [Clients -> 0..Len(conns')]
    BY <1>1, <1>6 DEF SessionTypeOK
  <2> QED
    BY <1>1, <1>6, <2>1, <2>2 DEF SessionTypeOK
<1>11. CallsOwned'
  BY <1>1, <1>8 DEF CallsOwned
<1>12. LocksHeld'
  <2>1. ASSUME NEW u \in Threads \ {t}, pc[u] = "recv"
        PROVE  /\ lock[Owner[u]] = u /\ status[Owner[u]] = "CONNECTED"
               /\ Owner[u] \in Clients \ {c}
    BY <1>1, <2>1, NoneAssumption, Sizes DEF LocksHeld
  <2>2. ASSUME NEW u \in Threads, pc'[u] = "recv"
        PROVE  lock'[Owner[u]] = u /\ status'[Owner[u]] = "CONNECTED"
    <3>1. CASE u = t
      BY <1>1, <1>8, <3>1 DEF c
    <3>2. CASE u # t
      BY <1>1, <1>8, <2>1, <2>2, <3>2
    <3> QED
      BY <3>1, <3>2
  <2>3. ASSUME NEW d \in Clients, lock'[d] # None
        PROVE  Owner[lock'[d]] = d /\ pc'[lock'[d]] = "recv"
    <3>1. CASE d = c
      BY <1>8, <3>1 DEF c
    <3>2. CASE d # c
      <4>1. lock'[d] = lock[d] /\ lock[d] \in Threads
        BY <1>7, <1>8, <2>3, <3>2
      <4>2. Owner[lock[d]] = d /\ pc[lock[d]] = "recv" /\ lock[d] # t
        BY <1>1, <2>3, <4>1 DEF LocksHeld
      <4> QED
        BY <1>8, <4>1, <4>2
    <3> QED
      BY <3>1, <3>2
  <2> QED
    BY <2>2, <2>3 DEF LocksHeld
<1>13. SocketsOwned'
  BY <1>1, <1>6 DEF SocketsOwned
<1>14. KilledIsOver'
  BY <1>1, <1>8 DEF KilledIsOver, c
<1>15. Unhandled'
  <2>1. \A m \in DOMAIN conns : \A j \in Range(conns'[m].requests) :
           j \in Range(conns[m].requests) \/ (j = i /\ m = n)
    BY <1>6
  <2>2. \A m \in DOMAIN conns : IsInjective(conns'[m].requests)
    BY <1>6 DEF Unhandled
  <2>3. ASSUME NEW m \in DOMAIN conns, NEW j \in Range(conns'[m].requests)
        PROVE  /\ j \in DOMAIN calls /\ j \notin Range(ran)
               /\ \A k \in DOMAIN conns : j \in Range(conns'[k].requests) => k = m
    BY <1>2, <1>4, <2>1, <2>3 DEF Unhandled
  <2>4. \A m \in DOMAIN conns : \A a \in Range(conns'[m].answers) : a.from \in Range(ran)
    BY <1>6 DEF Unhandled
  <2>5. ASSUME NEW u \in Threads, pc'[u] \in {"connect", "send"}
        PROVE  /\ call[u] \notin Range(ran)
               /\ \A m \in DOMAIN conns : call[u] \notin Range(conns'[m].requests)
    <3>1. u # t /\ pc[u] \in {"connect", "send"} /\ call[u] # i
      BY <1>4, <1>8, <2>5
    <3> QED
      BY <2>1, <3>1 DEF Unhandled
  <2>6. Range(ran) \subseteq DOMAIN calls
    BY DEF Unhandled
  <2> QED
    BY <1>1, <1>6, <2>2, <2>3, <2>4, <2>5, <2>6 DEF Unhandled
<1>16. \A m \in DOMAIN conns : \A j \in InFlight(m)' :
          j \in InFlight(m) \/ (j = i /\ m = n)
  BY <1>6 DEF InFlight
<1>17. Awaited'
  <2> SUFFICES ASSUME NEW m \in DOMAIN conns, NEW j \in InFlight(m)'
               PROVE  \/ calls[j].result \in {"CONNECTION", "KILLED"}
                      \/ \E u \in Threads :
                            pc'[u] = "recv" /\ call[u] = j /\ sock[Owner[u]] = m
    BY <1>1, <1>6 DEF Awaited, InFlight
  <2>1. CASE j = i /\ m = n
    BY <1>8, <2>1 DEF i, n, c
  <2>2. CASE j \in InFlight(m)
    BY <1>1, <1>8, <2>2 DEF Awaited
  <2> QED
    BY <1>16, <2>1, <2>2
<1>18. OwnFlight'
  <2> SUFFICES ASSUME NEW d \in Clients, status[d] = "CONNECTED",
                      NEW j \in InFlight(sock[d])'
               PROVE  calls[j].client = d
    BY <1>1 DEF OwnFlight, InFlight
  <2>1. sock'[d] = sock[d] /\ sock[d] \in DOMAIN conns
    BY <1>1 DEF SocketsOwned
  <2>2. j \in InFlight(sock[d]) \/ (j = i /\ sock[d] = n)
    BY <1>16, <2>1 DEF InFlight
  <2>3. CASE j = i /\ sock[d] = n
    BY <1>1, <1>2, <2>3 DEF SocketsOwned, n
  <2> QED
    BY <2>2, <2>3 DEF OwnFlight
<1>19. Answered' /\ AtMostOnce' /\ StaleOnlyAfterError' /\ AnsweredInOrder'
  BY <1>1 DEF Answered, Returned, AtMostOnce, StaleOnlyAfterError, AnsweredInOrder
<1> QED
  BY <1>6, <1>9, <1>10, <1>11, <1>12, <1>13, <1>14, <1>15, <1>17, <1>18, <1>19

\* A process is killed in send, and all its threads with it.
LEMMA KillKeeps ==
    ASSUME IInv, NEW t \in Threads, SendKills(t)
    PROVE  IInv'
<1> USE DEF IInv
<1> DEFINE c == Owner[t]
           died(j) == calls[j].client = c /\ calls[j].result = "NONE"
<1>1. /\ c \in Clients /\ lock[c] = None /\ status[c] = "CONNECTED"
      /\ status' = [status EXCEPT ![c] = "KILLED"]
      /\ conns' = [conns EXCEPT ![sock[c]].open = FALSE]
      /\ pc' = [u \in Threads |-> IF Owner[u] = c THEN "idle" ELSE pc[u]]
      /\ calls' = [j \in DOMAIN calls |->
                     IF died(j) THEN [calls[j] EXCEPT !.result = "KILLED"] ELSE calls[j]]
      /\ UNCHANGED <<storeVars, up, serving, sock, lock, total, failed, call, ran>>
  BY Sizes DEF SendKills, Unlocked
<1> HIDE DEF c
<1>2. sock[c] \in DOMAIN conns
  BY <1>1 DEF SocketsOwned
<1>3. conns' \in Seq(Conn) /\ Len(conns') = Len(conns) /\ Quiet
  BY <1>1, <1>2, QuietMoves, Sizes
<1>4. OneSide'
  <2>1. conns'[sock[c]].state = conns[sock[c]].state
        /\ \A m \in DOMAIN conns \ {sock[c]} : conns'[m] = conns[m]
    BY <1>1, <1>2, Sizes, ConnFields DEF Conn
  <2>2. \A n \in DOMAIN conns : conns'[n].state = conns[n].state
    BY <2>1
  <2> QED
    BY <1>3, <2>2 DEF OneSide, Quiet
<1>5. /\ calls' \in Seq(Call) /\ Len(calls') = Len(calls) /\ DOMAIN calls' = DOMAIN calls
      /\ \A j \in DOMAIN calls :
            /\ calls'[j].client = calls[j].client /\ calls'[j].done = calls[j].done
            /\ calls'[j].from = calls[j].from
            /\ calls'[j].result = IF died(j) THEN "KILLED" ELSE calls[j].result
  <2>1. ASSUME NEW x \in Call
        PROVE  LET new == [x EXCEPT !.result = "KILLED"] IN
               /\ new \in Call /\ new.client = x.client /\ new.done = x.done
               /\ new.from = x.from /\ new.result = "KILLED"
    BY <2>1 DEF Call
  <2>2. \A j \in DOMAIN calls : calls[j] \in Call
    BY Sizes
  <2>3. \A j \in DOMAIN calls :
           /\ calls'[j] \in Call
           /\ calls'[j].client = calls[j].client /\ calls'[j].done = calls[j].done
           /\ calls'[j].from = calls[j].from
           /\ calls'[j].result = IF died(j) THEN "KILLED" ELSE calls[j].result
    BY <1>1, <2>1, <2>2
  <2>4. DOMAIN calls' = 1..Len(calls) /\ Len(calls) \in Nat
        /\ DOMAIN calls = 1..Len(calls)
    BY <1>1, Sizes
  <2>5. calls' = [j \in 1..Len(calls) |-> calls'[j]]
    BY <1>1, <2>4
  <2>6. calls' \in [1..Len(calls) -> Call]
    BY <2>3, <2>4, <2>5
  <2> QED
    BY <2>3, <2>4, <2>6
<1> HIDE DEF died
<1>6. \A j \in DOMAIN calls :
         /\ calls[j].result # "NONE" => calls'[j].result = calls[j].result
         /\ calls'[j].result # calls[j].result =>
               calls'[j].result = "KILLED" /\ calls[j].client = c
         /\ calls[j].client = c /\ calls[j].result = "NONE" => calls'[j].result = "KILLED"
  BY <1>5 DEF died
<1>7. \A u \in Threads : pc'[u] = IF Owner[u] = c THEN "idle" ELSE pc[u]
  BY <1>1
<1>8. \A u \in Threads : pc[u] = "recv" => Owner[u] # c
  BY <1>1, NoneAssumption DEF LocksHeld
<1>9. /\ status'[c] = "KILLED" /\ \A d \in Clients \ {c} : status'[d] = status[d]
      /\ status' \in [Clients -> {"DISCONNECTED", "CONNECTED", "ERROR", "KILLED"}]
  BY <1>1 DEF SessionTypeOK
<1>10. Table!IInv'
  BY <1>1, TableKeeps
<1>11. SessionTypeOK'
  <2>1. pc' \in [Threads -> {"idle", "connect", "send", "recv", "stats"}]
    BY <1>1 DEF SessionTypeOK
  <2> QED
    BY <1>1, <1>3, <1>5, <1>9, <2>1 DEF SessionTypeOK
<1>12. CallsOwned'
  <2> SUFFICES ASSUME NEW u \in Threads, pc'[u] # "idle"
               PROVE  /\ call[u] \in DOMAIN calls
                      /\ calls'[call[u]].client = Owner[u]
                      /\ calls'[call[u]].result = "NONE" <=> pc'[u] # "stats"
                      /\ \A v \in Threads : pc'[v] # "idle" /\ call[v] = call[u] => v = u
    <3>1. UNCHANGED call /\ DOMAIN calls' = DOMAIN calls
      BY <1>1, <1>5
    <3> QED
      BY <3>1 DEF CallsOwned
  <2>1. pc'[u] = pc[u] /\ Owner[u] # c
    BY <1>7
  <2>2. /\ call[u] \in DOMAIN calls /\ calls[call[u]].client = Owner[u]
        /\ calls[call[u]].result = "NONE" <=> pc[u] # "stats"
        /\ \A v \in Threads : pc[v] # "idle" /\ call[v] = call[u] => v = u
    BY <2>1 DEF CallsOwned
  <2>3. calls'[call[u]].result = calls[call[u]].result
    BY <1>6, <2>1, <2>2
  <2> QED
    BY <1>5, <1>7, <2>1, <2>2, <2>3
<1>13. LocksHeld'
  <2>1. \A d \in Clients : lock[d] # None => d # c /\ lock[d] \in Threads
    BY <1>1 DEF SessionTypeOK
  <2>2. \A u \in Threads : pc'[u] = "recv" => pc[u] = "recv" /\ Owner[u] \in Clients \ {c}
    BY <1>7, <1>8, Sizes
  <2> QED
    BY <1>1, <1>7, <1>9, <2>1, <2>2 DEF LocksHeld
<1>14. SocketsOwned'
  BY <1>1, <1>3, <1>9 DEF SocketsOwned, Quiet
<1>15. KilledIsOver'
  <2>1. ASSUME NEW u \in Threads, status'[Owner[u]] = "KILLED"
        PROVE  pc'[u] = "idle"
    BY <1>7, <1>9, <2>1, Sizes DEF KilledIsOver
  <2>2. ASSUME NEW j \in DOMAIN calls, calls'[j].result = "KILLED"
        PROVE  status'[calls'[j].client] = "KILLED"
    <3>1. calls[j].client \in Clients /\ calls'[j].client = calls[j].client
      BY <1>5, Sizes DEF Call
    <3>2. calls[j].client = c \/ calls[j].result = "KILLED"
      BY <1>6, <2>2
    <3> QED
      BY <1>1, <1>9, <3>1, <3>2 DEF KilledIsOver
  <2> QED
    BY <1>5, <2>1, <2>2 DEF KilledIsOver
<1>16. Unhandled'
  <2>1. Drains
    BY <1>3 DEF Drains, Quiet
  <2> QED
    BY <1>1, <1>5, <1>7, <2>1, DrainKeeps
<1>17. \A n \in DOMAIN conns : InFlight(n)' = InFlight(n) /\ InFlight(n) \subseteq DOMAIN calls
  BY <1>3 DEF InFlight, Quiet, Unhandled
<1>18. Awaited'
  <2> SUFFICES ASSUME NEW n \in DOMAIN conns, NEW j \in InFlight(n)
               PROVE  \/ calls'[j].result \in {"CONNECTION", "KILLED"}
                      \/ \E u \in Threads :
                            pc'[u] = "recv" /\ call[u] = j /\ sock[Owner[u]] = n
    <3>1. UNCHANGED <<call, sock>> /\ DOMAIN conns' = DOMAIN conns
      BY <1>1, <1>3 DEF Quiet
    <3> QED
      BY <1>17, <3>1 DEF Awaited
  <2>1. j \in DOMAIN calls
    BY <1>17
  <2> QED
    BY <1>6, <1>7, <1>8, <2>1 DEF Awaited
<1>19. OwnFlight'
  BY <1>1, <1>5, <1>9, <1>17 DEF OwnFlight, SocketsOwned
<1>20. Answered'
  <2>1. Returned \subseteq Returned'
    BY <1>5, <1>6 DEF Returned
  <2> QED
    BY <1>1, <1>5, <2>1 DEF Answered
<1>21. AtMostOnce'
  BY <1>1 DEF AtMostOnce
<1>22. StaleOnlyAfterError'
  <2> SUFFICES ASSUME NEW j \in DOMAIN calls, calls[j].from \notin {0, j}
               PROVE  /\ calls'[calls[j].from].result = "CONNECTION"
                      /\ calls'[calls[j].from].client = calls'[j].client
    BY <1>5 DEF StaleOnlyAfterError
  <2>1. calls[j].from \in DOMAIN calls
    BY DEF Answered, Unhandled
  <2> QED
    BY <1>5, <1>6, <2>1 DEF StaleOnlyAfterError
<1>23. AnsweredInOrder'
  <2>1. \A p \in DOMAIN ran : ran[p] \in DOMAIN calls
    BY DEF Unhandled, Range
  <2> QED
    BY <1>1, <1>5, <2>1 DEF AnsweredInOrder
<1> QED
  BY <1>4, <1>10, <1>11, <1>12, <1>13, <1>14, <1>15, <1>16, <1>18, <1>19, <1>20, <1>21,
     <1>22, <1>23

\* A command that runs on to the end of the buffer is a command.
LEMMA MixedIsRequest ==
    ASSUME NEW req \in Calls
    PROVE  /\ Mixed(req) \in Request
           /\ Store!Handle(req) => req \in Request
<1>1. req \in Request \/ req = Connecting
  BY CallsAssumption
<1>2. CASE req = Connecting
  <2>1. Mixed(req) = [cmd |-> "UNKNOWN"]
    BY <1>2 DEF Mixed, Connecting, KeyCommand
  <2>2. ~Store!Handle(req)
    BY <1>2 DEF Store!Handle, Connecting
  <2> QED
    BY <2>1, <2>2 DEF Request, PlainCommand
<1>3. CASE req \in [cmd : PlainCommand]
  <2>1. req.cmd \in PlainCommand /\ req \in Request
    BY <1>3 DEF Request
  <2>2. CASE req.cmd = "FLUSH"
    BY <2>1, <2>2 DEF Mixed, KeyCommand
  <2>3. CASE req.cmd # "FLUSH"
    <3>1. Mixed(req) = [cmd |-> "UNKNOWN"]
      BY <2>1, <2>3 DEF Mixed, KeyCommand, PlainCommand
    <3> QED
      BY <2>1, <3>1 DEF Request, PlainCommand
  <2> QED
    BY <2>2, <2>3
<1>4. CASE req \in [cmd : KeyCommand, key : Keys]
  <2>1. req.cmd \in KeyCommand /\ req.cmd # "SET" /\ req \in Request
    BY <1>4 DEF Request, KeyCommand
  <2>2. Mixed(req) = [req EXCEPT !.key = MixedKey]
    BY <2>1 DEF Mixed, KeyCommand
  <2>3. [req EXCEPT !.key = MixedKey] \in [cmd : KeyCommand, key : Keys]
    BY <1>4, MixedAssumption
  <2> QED
    BY <2>1, <2>2, <2>3 DEF Request
<1>5. CASE req \in [cmd : {"SET"}, key : Keys, value : Vals]
  <2>1. req.cmd = "SET" /\ req \in Request
    BY <1>5 DEF Request
  <2>2. Mixed(req) = [req EXCEPT !.value = MixedValue]
    BY <2>1 DEF Mixed, KeyCommand
  <2>3. [req EXCEPT !.value = MixedValue] \in [cmd : {"SET"}, key : Keys, value : Vals]
    BY <1>5, MixedAssumption
  <2> QED
    BY <2>1, <2>2, <2>3 DEF Request
<1> QED
  BY <1>1, <1>2, <1>3, <1>4, <1>5 DEF Request

\* What the request of a call has become when it is handled: itself, or the mixture
\* with those that were received after it.
Heard(first, req) ==
    \/ req = calls[first].req
    \/ /\ Len(conns[serving].requests) > 1 /\ first = Head(conns[serving].requests)
       /\ req = Mixed(calls[first].req)

\* The first request of the connection in service is handled, it waits no more,
\* and if there is an answer on that connection it is the one to this request.
Handles(first) ==
    /\ serving \in DOMAIN conns /\ first \in Range(conns[serving].requests)
    /\ \E req \in Request : Store!Handle(req) /\ Heard(first, req)
    /\ ran' = Append(ran, first)
    /\ DOMAIN conns' = DOMAIN conns
    /\ \A n \in DOMAIN conns \ {serving} :
          /\ conns'[n].requests \in {conns[n].requests, <<>>}
          /\ conns'[n].answers = conns[n].answers
    /\ conns'[serving].requests = <<>>
    /\ \A a \in Range(conns'[serving].answers) : a.from = first /\ a.reply = reply'

\* What handling the first m commands in service does to the table.
LEMMA HandleFirstEffect ==
    ASSUME IInv, serving # 0, conns[serving].requests # <<>>,
           NEW m \in Nat, HandleFirst(m)
    PROVE  LET first == Head(conns[serving].requests) IN
           /\ serving \in DOMAIN conns /\ first \in Range(conns[serving].requests)
           /\ first \in 1..MaxCalls
           /\ \E req \in Request :
                 /\ Store!Handle(req)
                 /\ req = IF m = 1 THEN calls[first].req ELSE Mixed(calls[first].req)
           /\ ran' = Append(ran, first) /\ reply' \in Reply
<1> USE DEF IInv
<1> DEFINE n == serving
           r == conns[n].requests
           first == Head(r)
<1>1. n \in DOMAIN conns /\ conns \in Seq(Conn)
  BY Sizes DEF SessionTypeOK
<1>2. r \in Seq(1..MaxCalls)
  BY <1>1, ConnFields
<1>3. first \in 1..MaxCalls /\ first \in Range(r)
  <2> DEFINE S == 1..MaxCalls
  <2>1. r \in Seq(S) /\ r # <<>>
    BY <1>2
  <2> HIDE DEF S, r
  <2>2. Head(r) \in S /\ 1 \in DOMAIN r /\ Head(r) = r[1]
    BY <2>1
  <2> QED
    BY <2>2 DEF Range, S
<1>4. calls[first].req \in Calls
  <2>1. first \in DOMAIN calls
    BY <1>1, <1>3 DEF Unhandled
  <2> QED
    BY <2>1, Sizes DEF Call
<1>5. /\ Store!Handle(IF m = 1 THEN calls[first].req ELSE Mixed(calls[first].req))
      /\ ran' = Append(ran, first)
  BY DEF HandleFirst
<1> HIDE DEF n, r, first
<1>6. \E req \in Request :
         /\ Store!Handle(req)
         /\ req = IF m = 1 THEN calls[first].req ELSE Mixed(calls[first].req)
  BY <1>4, <1>5, MixedIsRequest
<1>7. reply' \in Reply
  <2>1. Table!IInv'
    BY <1>6, HandleIsStep, TableKeeps
  <2> QED
    BY <2>1 DEF Table!IInv, Table!TypeOK, Table!Reply, Reply
<1> QED
  BY <1>1, <1>3, <1>5, <1>6, <1>7 DEF n, r, first

\* A connection is served.
LEMMA ServeEffect ==
    ASSUME IInv, Serve
    PROVE  /\ \E first \in 1..MaxCalls : Handles(first)
           /\ serving' = 0 /\ UNCHANGED <<up, clientVars, pc, call, calls>>
           /\ conns' \in Seq(Conn) /\ Len(conns') = Len(conns) /\ OneSide'
<1> DEFINE n == serving
           r == conns[n].requests
           first == Head(r)
<1>1. /\ serving # 0 /\ r # <<>> /\ serving' = 0
      /\ UNCHANGED <<up, clientVars, pc, call, calls>>
  BY DEF Serve
<1>2. PICK m \in 1..Len(r) :
         /\ HandleFirst(m)
         /\ conns' = [conns EXCEPT ![n] =
                        [state |-> IF m < Len(r) THEN "reset" ELSE "closed",
                         open |-> conns[n].open, requests |-> <<>>,
                         answers |-> IF conns[n].open
                                     THEN <<[from |-> first, reply |-> reply']>> ELSE <<>>]]
  BY DEF Serve
<1>3. /\ n \in DOMAIN conns /\ first \in Range(r) /\ first \in 1..MaxCalls
      /\ \E req \in Request :
            /\ Store!Handle(req)
            /\ req = IF m = 1 THEN calls[first].req ELSE Mixed(calls[first].req)
      /\ ran' = Append(ran, first) /\ reply' \in Reply
  BY <1>1, <1>2, HandleFirstEffect
<1>12. \E req \in Request : Store!Handle(req) /\ Heard(first, req)
  <2>1. m = 1 \/ Len(r) > 1
    <3>1. Len(r) \in Nat
      BY <1>3, Sizes, ConnFields DEF IInv
    <3> HIDE DEF r
    <3> QED
      BY <3>1
  <2> QED
    BY <1>3, <2>1 DEF Heard
<1>4. conns \in Seq(Conn) /\ conns[n].open \in BOOLEAN /\ OneSide
  BY <1>3, Sizes, ConnFields DEF IInv
<1> HIDE DEF n, r, first
<1> DEFINE state == IF m < Len(r) THEN "reset" ELSE "closed"
           one == <<[from |-> first, reply |-> reply']>>
           answers == IF conns[n].open THEN one ELSE <<>>
           new == [state |-> state, open |-> conns[n].open, requests |-> <<>>,
                   answers |-> answers]
<1>5. /\ answers \in Seq(Answer) /\ Len(answers) <= 1
      /\ \A a \in Range(answers) : a.from = first /\ a.reply = reply'
  <2>1. [from |-> first, reply |-> reply'] \in Answer
    BY <1>3 DEF Answer
  <2>2. one \in Seq(Answer) /\ Len(one) = 1 /\ DOMAIN one = 1..1
        /\ one[1] = [from |-> first, reply |-> reply']
    BY <2>1
  <2>3. <<>> \in Seq(Answer) /\ Len(<<>>) = 0 /\ Range(<<>>) = {}
    BY DEF Range
  <2>4. \A a \in Range(one) : a.from = first /\ a.reply = reply'
    BY <2>2 DEF Range
  <2> HIDE DEF one
  <2>5. answers = one \/ answers = <<>>
    OBVIOUS
  <2> HIDE DEF answers
  <2>6. CASE answers = one
    <3>1. one \in Seq(Answer) /\ Len(one) <= 1
      BY <2>2
    <3> HIDE DEF Answer
    <3> QED
      BY <2>4, <2>6, <3>1, Zenon
  <2>7. CASE answers = <<>>
    BY <2>3, <2>7
  <2> QED
    BY <2>5, <2>6, <2>7
<1>6. conns' = [conns EXCEPT ![n] = new]
  BY <1>2
<1>7. state \in {"closed", "reset"}
  OBVIOUS
<1> HIDE DEF answers, state
<1>8. /\ new \in Conn /\ new.state = state /\ new.requests = <<>>
      /\ new.answers = answers
  <2> DEFINE requests == Seq(1..MaxCalls)
             seqs == Seq(Answer)
  <2>1. Conn = [state : {"waiting", "serving", "closed", "reset"}, open : BOOLEAN,
                requests : requests, answers : seqs]
    BY DEF Conn, Answer
  <2>2. <<>> \in requests /\ answers \in seqs
    BY <1>5
  <2> HIDE DEF requests, seqs
  <2> QED
    BY <1>4, <1>7, <2>1, <2>2
<1> HIDE DEF new
<1>9. /\ conns' \in Seq(Conn) /\ Len(conns') = Len(conns) /\ DOMAIN conns' = DOMAIN conns
      /\ conns'[n] = new /\ \A k \in DOMAIN conns : k # n => conns'[k] = conns[k]
  BY <1>3, <1>4, <1>6, <1>8, OneChanges
<1>10. OneSide'
  BY <1>4, <1>5, <1>7, <1>8, <1>9 DEF OneSide
<1>11. Handles(first)
  BY <1>3, <1>5, <1>8, <1>9, <1>12 DEF Handles, n, r
<1> QED
  BY <1>1, <1>3, <1>9, <1>10, <1>11

\* What the end of the server does to the connections.
LEMMA CutEffect ==
    ASSUME conns \in Seq(Conn), OneSide, NEW m,
           conns' = [n \in DOMAIN conns |->
                       IF conns[n].state \in {"waiting", "serving"} THEN Cut(n, m)
                       ELSE conns[n]]
    PROVE  /\ conns' \in Seq(Conn) /\ Len(conns') = Len(conns)
           /\ DOMAIN conns' = DOMAIN conns /\ OneSide'
           /\ \A n \in DOMAIN conns : /\ conns'[n].answers = conns[n].answers
                                      /\ conns'[n].requests \in {conns[n].requests, <<>>}
                                      /\ conns'[n].requests = <<>>
<1>1. ASSUME NEW n \in DOMAIN conns
      PROVE  /\ conns'[n] \in Conn
             /\ conns'[n].state \in {"closed", "reset"}
             /\ conns'[n].answers = conns[n].answers /\ conns'[n].requests = <<>>
  <2>1. /\ conns[n] \in Conn
        /\ conns[n].state \in {"waiting", "serving", "closed", "reset"}
    BY ConnFields
  <2>2. CASE conns[n].state \in {"waiting", "serving"}
    <3> DEFINE state == IF n = serving /\ m = Len(conns[n].requests) THEN "closed" ELSE "reset"
               new == [conns[n] EXCEPT !.state = state, !.requests = <<>>]
               requests == Seq(1..MaxCalls)
               answers == Seq(Answer)
    <3>1. conns'[n] = new
      BY <2>2 DEF Cut
    <3>2. state \in {"closed", "reset"}
      OBVIOUS
    <3>3. Conn = [state : {"waiting", "serving", "closed", "reset"}, open : BOOLEAN,
                  requests : requests, answers : answers] /\ <<>> \in requests
      BY DEF Conn, Answer
    <3> HIDE DEF state, requests, answers
    <3>4. /\ new \in Conn /\ new.state = state
          /\ new.answers = conns[n].answers /\ new.requests = <<>>
      BY <2>1, <3>2, <3>3
    <3> HIDE DEF new
    <3> QED
      BY <3>1, <3>2, <3>4
  <2>3. CASE conns[n].state \in {"closed", "reset"}
    BY <2>1, <2>3 DEF OneSide
  <2> QED
    BY <2>1, <2>2, <2>3
<1>2. DOMAIN conns' = 1..Len(conns) /\ Len(conns) \in Nat /\ DOMAIN conns = 1..Len(conns)
  OBVIOUS
<1>3. conns' = [n \in 1..Len(conns) |-> conns'[n]]
  BY <1>2
<1>4. conns' \in [1..Len(conns) -> Conn]
  BY <1>1, <1>2, <1>3
<1>5. conns' \in Seq(Conn) /\ Len(conns') = Len(conns)
  BY <1>2, <1>4
<1>6. OneSide'
  BY <1>1, <1>2 DEF OneSide
<1> QED
  BY <1>1, <1>2, <1>5, <1>6

\* The server ends, having handled the command in service or not.
LEMMA ExitEffect ==
    ASSUME IInv, Exit
    PROVE  /\ \/ \E first \in 1..MaxCalls : Handles(first)
              \/ Drains /\ DOMAIN conns' = DOMAIN conns /\ UNCHANGED <<storeVars, ran>>
           /\ serving' = 0 /\ UNCHANGED <<clientVars, pc, call, calls>> /\ up' = FALSE
           /\ conns' \in Seq(Conn) /\ Len(conns') = Len(conns) /\ OneSide'
<1> DEFINE held == IF serving = 0 THEN 0 ELSE Len(conns[serving].requests)
<1>1. serving' = 0 /\ UNCHANGED <<clientVars, pc, call, calls>> /\ up' = FALSE
  BY DEF Exit
<1>2. PICK m \in 0..held :
         /\ conns' = [n \in DOMAIN conns |->
                        IF conns[n].state \in {"waiting", "serving"} THEN Cut(n, m)
                        ELSE conns[n]]
         /\ \/ m > 0 /\ HandleFirst(m)
            \/ UNCHANGED <<storeVars, ran>>
  BY DEF Exit
<1>3. conns \in Seq(Conn) /\ OneSide /\ serving \in 0..Len(conns)
      /\ DOMAIN conns = 1..Len(conns) /\ Len(conns) \in Nat
  BY Sizes DEF IInv, SessionTypeOK
<1>4. /\ conns' \in Seq(Conn) /\ Len(conns') = Len(conns)
      /\ DOMAIN conns' = DOMAIN conns /\ OneSide'
      /\ \A n \in DOMAIN conns : /\ conns'[n].answers = conns[n].answers
                                 /\ conns'[n].requests \in {conns[n].requests, <<>>}
                                 /\ conns'[n].requests = <<>>
  BY <1>2, <1>3, CutEffect
<1>5. CASE UNCHANGED <<storeVars, ran>>
  <2>1. Drains
    BY <1>4 DEF Drains
  <2> QED
    BY <1>1, <1>4, <1>5, <2>1
<1>6. CASE m > 0 /\ HandleFirst(m)
  <2>1. serving # 0 /\ serving \in DOMAIN conns /\ m <= Len(conns[serving].requests)
    BY <1>3, <1>6
  <2>2. conns[serving].requests \in Seq(1..MaxCalls)
    BY <1>3, <2>1, ConnFields
  <2>3. m \in Nat /\ conns[serving].requests # <<>>
    BY <1>6, <2>1, <2>2
  <2> DEFINE first == Head(conns[serving].requests)
  <2>4. /\ first \in Range(conns[serving].requests) /\ first \in 1..MaxCalls
        /\ \E req \in Request :
              /\ Store!Handle(req)
              /\ req = IF m = 1 THEN calls[first].req ELSE Mixed(calls[first].req)
        /\ ran' = Append(ran, first)
    BY <1>6, <2>1, <2>3, HandleFirstEffect
  <2>7. \E req \in Request : Store!Handle(req) /\ Heard(first, req)
    <3>1. m = 1 \/ Len(conns[serving].requests) > 1
      BY <1>6, <2>1, <2>2, <2>3
    <3> QED
      BY <2>4, <3>1 DEF Heard
  <2>5. conns'[serving].answers = <<>>
    BY <1>4, <2>1, <2>3, <1>3, ConnFields DEF OneSide
  <2> HIDE DEF first
  <2>6. Handles(first)
    BY <1>4, <2>1, <2>4, <2>5, <2>7 DEF Handles, Range
  <2> QED
    BY <1>1, <1>4, <2>4, <2>6
<1> QED
  BY <1>2, <1>5, <1>6

\* A command is handled, by a server that goes on or by one that ends.
LEMMA HandledKeeps ==
    ASSUME IInv, NEW first \in 1..MaxCalls, Handles(first),
           serving' = 0, UNCHANGED <<clientVars, pc, call, calls>>, up' \in BOOLEAN,
           conns' \in Seq(Conn), Len(conns') = Len(conns), OneSide'
    PROVE  IInv'
<1> USE DEF IInv
<1> DEFINE n == serving
<1>1. /\ n \in DOMAIN conns /\ first \in Range(conns[n].requests)
      /\ \E req \in Request : Store!Handle(req)
      /\ ran' = Append(ran, first)
      /\ DOMAIN conns' = DOMAIN conns
      /\ \A m \in DOMAIN conns \ {n} :
            /\ conns'[m].requests \in {conns[m].requests, <<>>}
            /\ conns'[m].answers = conns[m].answers
      /\ conns'[n].requests = <<>>
      /\ \A a \in Range(conns'[n].answers) : a.from = first
  BY DEF Handles
<1>2. UNCHANGED <<status, sock, lock, total, failed, pc, call, calls>>
  BY DEF clientVars
<1> HIDE DEF n
<1>3. /\ ran' \in Seq(1..MaxCalls) /\ Len(ran) \in Nat /\ DOMAIN ran = 1..Len(ran)
      /\ DOMAIN ran' = DOMAIN ran \cup {Len(ran) + 1} /\ ran'[Len(ran) + 1] = first
      /\ \A p \in DOMAIN ran : ran'[p] = ran[p]
      /\ Range(ran') = Range(ran) \cup {first}
      /\ IsInjective(ran) /\ first \notin Range(ran) => IsInjective(ran')
  <2> DEFINE S == 1..MaxCalls
  <2>1. ran \in Seq(S) /\ first \in S /\ ran' = Append(ran, first)
    BY <1>1, Sizes
  <2> HIDE DEF S
  <2>2. /\ ran' \in Seq(S)
        /\ DOMAIN ran' = DOMAIN ran \cup {Len(ran) + 1} /\ ran'[Len(ran) + 1] = first
        /\ \A p \in DOMAIN ran : ran'[p] = ran[p]
        /\ Range(ran') = Range(ran) \cup {first}
        /\ IsInjective(ran) /\ first \notin Range(ran) => IsInjective(ran')
    BY <2>1, Appended
  <2> QED
    BY <2>2, Sizes DEF S
<1>4. /\ first \in DOMAIN calls /\ first \notin Range(ran)
      /\ \A m \in DOMAIN conns \ {n} : first \notin Range(conns[m].requests)
      /\ \A u \in Threads : pc[u] \in {"connect", "send"} => call[u] # first
  BY <1>1 DEF Unhandled
<1>5. Table!IInv'
  BY <1>1, HandleIsStep, TableKeeps
<1>6. SessionTypeOK'
  <2>1. serving' \in 0..Len(conns')
    BY Sizes
  <2> QED
    BY <1>2, <1>3, <2>1 DEF SessionTypeOK
<1>7. CallsOwned' /\ LocksHeld' /\ KilledIsOver'
  BY <1>2 DEF CallsOwned, LocksHeld, KilledIsOver
<1>8. SocketsOwned'
  BY <1>1, <1>2 DEF SocketsOwned
<1>9. Range(<<>>) = {} /\ IsInjective(<<>>)
  BY DEF Range, IsInjective
<1>10. \A m \in DOMAIN conns : conns'[m].requests \in {conns[m].requests, <<>>}
  BY <1>1
<1>11. Unhandled'
  <2>1. \A m \in DOMAIN conns : \A j \in Range(conns'[m].requests) :
           m # n /\ j \in Range(conns[m].requests) /\ j # first
    BY <1>1, <1>4, <1>9
  <2>2. \A m \in DOMAIN conns : IsInjective(conns'[m].requests)
    BY <1>9, <1>10 DEF Unhandled
  <2>3. ASSUME NEW m \in DOMAIN conns, NEW j \in Range(conns'[m].requests)
        PROVE  /\ j \in DOMAIN calls /\ j \notin Range(ran')
               /\ \A k \in DOMAIN conns : j \in Range(conns'[k].requests) => k = m
    BY <1>3, <2>1, <2>3 DEF Unhandled
  <2>4. ASSUME NEW m \in DOMAIN conns, NEW a \in Range(conns'[m].answers)
        PROVE  a.from \in Range(ran')
    BY <1>1, <1>3, <2>4 DEF Unhandled
  <2>5. ASSUME NEW u \in Threads, pc[u] \in {"connect", "send"}
        PROVE  /\ call[u] \notin Range(ran')
               /\ \A m \in DOMAIN conns : call[u] \notin Range(conns'[m].requests)
    BY <1>3, <1>4, <2>1, <2>5 DEF Unhandled
  <2>6. Range(ran') \subseteq DOMAIN calls
    BY <1>3, <1>4 DEF Unhandled
  <2> QED
    BY <1>1, <1>2, <2>2, <2>3, <2>4, <2>5, <2>6 DEF Unhandled
<1>12. \A m \in DOMAIN conns : InFlight(m)' \subseteq InFlight(m)
  BY <1>1, <1>9 DEF InFlight
<1>13. Awaited'
  BY <1>1, <1>2, <1>12 DEF Awaited
<1>14. OwnFlight'
  BY <1>2, <1>12 DEF OwnFlight, SocketsOwned
<1>15. Answered'
  BY <1>2, <1>3 DEF Answered, Returned
<1>16. AtMostOnce'
  BY <1>3, <1>4 DEF AtMostOnce
<1>17. StaleOnlyAfterError'
  BY <1>2 DEF StaleOnlyAfterError
<1>18. AnsweredInOrder'
  <2> SUFFICES ASSUME NEW p \in DOMAIN ran', NEW q \in DOMAIN ran',
                      p < q, ran'[q] \in calls[ran'[p]].done
               PROVE  calls[ran'[q]].from # ran'[q]
    BY <1>2 DEF AnsweredInOrder
  <2>1. CASE q \in DOMAIN ran
    <3>1. p \in DOMAIN ran
      BY <1>3, <2>1
    <3> QED
      BY <1>3, <2>1, <3>1 DEF AnsweredInOrder
  <2>2. CASE q = Len(ran) + 1
    <3>1. calls[first].from # first
      BY <1>4 DEF Answered
    <3> QED
      BY <1>3, <2>2, <3>1
  <2> QED
    BY <1>3, <2>1, <2>2
<1> QED
  BY <1>5, <1>6, <1>7, <1>8, <1>11, <1>13, <1>14, <1>15, <1>16, <1>17, <1>18

\* The server ends with nothing more handled.
LEMMA GoneKeeps ==
    ASSUME IInv, Drains, DOMAIN conns' = DOMAIN conns, UNCHANGED <<storeVars, ran>>,
           serving' = 0, UNCHANGED <<clientVars, pc, call, calls>>, up' \in BOOLEAN,
           conns' \in Seq(Conn), Len(conns') = Len(conns), OneSide'
    PROVE  IInv'
<1> USE DEF IInv
<1>1. UNCHANGED <<status, sock, lock, total, failed, pc, call, calls, ran>>
  BY DEF clientVars
<1>2. Table!IInv'
  BY TableKeeps
<1>3. SessionTypeOK'
  <2>1. serving' \in 0..Len(conns')
    BY Sizes
  <2> QED
    BY <1>1, <2>1 DEF SessionTypeOK
<1>4. CallsOwned' /\ LocksHeld' /\ KilledIsOver' /\ SocketsOwned'
  BY <1>1 DEF CallsOwned, LocksHeld, KilledIsOver, SocketsOwned
<1>5. Unhandled' /\ \A n \in DOMAIN conns : InFlight(n)' \subseteq InFlight(n)
  BY <1>1, DrainKeeps
<1>6. Awaited'
  BY <1>1, <1>5 DEF Awaited
<1>7. OwnFlight'
  BY <1>1, <1>5 DEF OwnFlight, SocketsOwned
<1>8. Answered' /\ AtMostOnce' /\ StaleOnlyAfterError' /\ AnsweredInOrder'
  BY <1>1 DEF Answered, Returned, AtMostOnce, StaleOnlyAfterError, AnsweredInOrder
<1> QED
  BY <1>2, <1>3, <1>4, <1>5, <1>6, <1>7, <1>8

\* The server's steps that handle commands, or end it.
LEMMA ServerKeeps ==
    ASSUME IInv, Serve \/ Exit
    PROVE  IInv'
<1>1. CASE Serve
  <2>1. up' \in BOOLEAN
    BY <1>1, ServeEffect DEF IInv, SessionTypeOK
  <2> QED
    BY <1>1, <2>1, ServeEffect, HandledKeeps
<1>2. CASE Exit
  <2>1. up' \in BOOLEAN
    BY <1>2, ExitEffect
  <2> QED
    BY <1>2, <2>1, ExitEffect, HandledKeeps, GoneKeeps
<1> QED
  BY <1>1, <1>2

---------------------------------------------------------------------------
(* The theorems. *)

\* No call has been made and nothing is connected.
LEMMA InitIInv == Init => IInv
<1> SUFFICES ASSUME Init PROVE IInv
  OBVIOUS
<1>1. /\ Store!Init /\ up = TRUE /\ serving = 0 /\ conns = <<>> /\ calls = <<>> /\ ran = <<>>
      /\ status = [c \in Clients |-> "DISCONNECTED"] /\ sock = [c \in Clients |-> 0]
      /\ lock = [c \in Clients |-> None] /\ total = [c \in Clients |-> 0]
      /\ failed = [c \in Clients |-> 0]
      /\ pc = [t \in Threads |-> "idle"] /\ call = [t \in Threads |-> 0]
  BY DEF Init
<1>2. Table!IInv
  BY <1>1, TableStarts
<1>3. SessionTypeOK
  <2>1. /\ conns \in Seq(Conn) /\ calls \in Seq(Call) /\ ran \in Seq(1..MaxCalls)
        /\ Len(conns) = 0 /\ Len(calls) = 0
    BY <1>1
  <2>2. 0 \in 0..0 /\ 0 \in Nat /\ 0 <= MaxCalls /\ 0 <= MaxConns
    BY BoundsAssumption
  <2>3. /\ status \in [Clients -> {"DISCONNECTED", "CONNECTED", "ERROR", "KILLED"}]
        /\ lock \in [Clients -> Threads \cup {None}]
        /\ pc \in [Threads -> {"idle", "connect", "send", "recv", "stats"}]
    BY <1>1
  <2>4. /\ sock \in [Clients -> 0..0] /\ call \in [Threads -> 0..0]
        /\ total \in [Clients -> Nat] /\ failed \in [Clients -> Nat]
    BY <1>1, <2>2
  <2> QED
    BY <1>1, <2>1, <2>2, <2>3, <2>4 DEF SessionTypeOK
<1>4. DOMAIN conns = {} /\ DOMAIN calls = {} /\ DOMAIN ran = {}
  BY <1>1
<1>5. Range(ran) = {}
  BY <1>4 DEF Range
<1>6. CallsOwned /\ LocksHeld /\ SocketsOwned /\ KilledIsOver
  BY <1>1, <1>4, OwnerAssumption DEF CallsOwned, LocksHeld, SocketsOwned, KilledIsOver
<1>7. OneSide /\ Unhandled /\ Awaited /\ Answered
  BY <1>1, <1>4, <1>5 DEF OneSide, Unhandled, Awaited, Answered
<1>8. OwnFlight
  BY <1>1 DEF OwnFlight
<1>9. AtMostOnce /\ StaleOnlyAfterError /\ AnsweredInOrder
  BY <1>4 DEF AtMostOnce, StaleOnlyAfterError, AnsweredInOrder, IsInjective
<1> QED
  BY <1>2, <1>3, <1>6, <1>7, <1>8, <1>9 DEF IInv

\* Every step keeps the invariant.
LEMMA NextIInv == IInv /\ [Next]_vars => IInv'
<1> SUFFICES ASSUME IInv, [Next]_vars PROVE IInv'
  OBVIOUS
<1>1. ASSUME NEW t \in Threads, Step(t) PROVE IInv'
  BY <1>1, ConnectKeeps, FailKeeps, SendKeeps, KillKeeps, RecvKeeps, StatsKeeps DEF Step
<1>2. ASSUME NEW t \in Threads, NEW req \in Calls, Begin(t, req) PROVE IInv'
  BY <1>2, BeginKeeps
<1>3. ASSUME NEW t \in Threads, Disconnect(t) PROVE IInv'
  BY <1>3, DisconnectKeeps
<1>4. CASE Accept \/ ServeEof \/ UNCHANGED vars
  BY <1>4, WaitingKeeps
<1>5. CASE Serve \/ Exit
  BY <1>5, ServerKeeps
<1> QED
  BY <1>1, <1>2, <1>3, <1>4, <1>5 DEF Next

\* The invariant holds in every state of every behaviour.
LEMMA Invariance == Spec => []IInv
  BY InitIInv, NextIInv, PTL DEF Spec

\* The state has its type, the server's table and what it answers included.
THEOREM TypeCorrect == Spec => []TypeOK
<1>1. IInv => TypeOK
  <2>1. Table!TypeOK => Store!TypeOK
    BY DEF Table!TypeOK, Store!TypeOK, Table!Node, Store!Node, Table!Request, Store!Request,
           Table!PlainCommand, Store!PlainCommand, Table!KeyCommand, Store!KeyCommand,
           Table!Reply, Store!Reply
  <2> QED
    BY <2>1 DEF IInv, Table!IInv, SessionTypeOK, TypeOK
<1> QED
  BY <1>1, Invariance, PTL

\* No command is handled twice, for any number of clients, threads and
\* connections: what send, recv and the server's close do to a call never makes
\* the server see it again.
THEOREM HandledAtMostOnce == Spec => []AtMostOnce
<1>1. IInv => AtMostOnce
  BY DEF IInv
<1> QED
  BY <1>1, Invariance, PTL

\* A thread reads the answer to another call only after a recv of its client has
\* failed.
THEOREM AnswersStayTogether == Spec => []StaleOnlyAfterError
<1>1. IInv => StaleOnlyAfterError
  BY DEF IInv
<1> QED
  BY <1>1, Invariance, PTL

\* A call that got its own answer took effect before any call that began later.
THEOREM AnswersAreInOrder == Spec => []AnsweredInOrder
<1>1. IInv => AnsweredInOrder
  BY DEF IInv
<1> QED
  BY <1>1, Invariance, PTL

\* All that clients and connections do to the server's table is what CommandStore
\* does: one command at a time, each of them one of the protocol.
THEOREM TableIsCommandStore == Spec => Store!Spec
<1>1. Init => Store!Init
  BY DEF Init
<1>2. IInv /\ [Next]_vars => [Store!Next]_(Store!vars)
  <2> SUFFICES ASSUME IInv, [Next]_vars PROVE [Store!Next]_(Store!vars)
    OBVIOUS
  <2>1. ASSUME \E req \in Request : Store!Handle(req)
        PROVE  Store!Next
    BY <2>1 DEF Store!Next, Store!Request, Request, Store!PlainCommand, PlainCommand,
       Store!KeyCommand, KeyCommand
  <2>2. ASSUME UNCHANGED storeVars
        PROVE  UNCHANGED Store!vars
    BY <2>2 DEF storeVars, Store!vars
  <2>3. CASE Serve \/ Exit
    BY <2>1, <2>2, <2>3, ServeEffect, ExitEffect DEF Handles
  <2>4. CASE ~(Serve \/ Exit)
    <3>1. UNCHANGED storeVars
      BY <2>4 DEF Next, Step, Begin, ConnectAlready, ConnectOk, ConnectFail,
         SendUnconnected, SendOpen, SendClosed, SendFails, SendKills, RecvAnswer,
         RecvEof, RecvFails, Received, Stats, Disconnect, Accept, ServeEof, vars
    <3> QED
      BY <2>2, <3>1
  <2> QED
    BY <2>3, <2>4
<1> QED
  BY <1>1, <1>2, Invariance, PTL DEF Spec, Store!Spec

---------------------------------------------------------------------------
(* What the clients count. *)

\* The calls of a client that have one of these results; those that failed; the
\* commands that came to sending.
Ended(c, results) ==
    {i \in Returned : calls[i].client = c /\ calls[i].result \in results}
Failures(c) == Ended(c, {"CONNECTION", "NOT_CONNECTED"})
Attempts(c) ==
    Ended(c, {"SUCCESS", "CONNECTION"}) \cap {i \in DOMAIN calls : calls[i].req # Connecting}

\* The threads that are about to count, and those that will count a failure.
Counting(c) == {t \in Threads : Owner[t] = c /\ pc[t] = "stats"}
Bad(c) == {t \in Counting(c) : calls[call[t]].result # "SUCCESS"}

\* The two counters of a client, and StatsAccount in these terms.
Balanced(c) ==
    /\ failed[c] + Cardinality(Bad(c)) = Cardinality(Failures(c))
    /\ total[c] + Cardinality(Counting(c)) = Cardinality(Attempts(c))
Accounts == \A c \in Clients : status[c] # "KILLED" => Balanced(c)

\* Only commands come to sending.
CommandsOnly ==
    \A t \in Threads :
        pc[t] \in {"send", "recv", "stats"} => calls[call[t]].req # Connecting

AInv == Accounts /\ CommandsOnly

\* It is the property.
LEMMA AccountsIsStats == Accounts => StatsAccount
  BY DEF Accounts, Balanced, StatsAccount, Failures, Attempts, Counting, Bad, Ended

\* What is counted is finite: a thread that counts has a call of its own.
LEMMA CountedIsFinite ==
    ASSUME IInv, NEW c \in Clients
    PROVE  /\ IsFiniteSet(Failures(c)) /\ Cardinality(Failures(c)) \in Nat
           /\ IsFiniteSet(Attempts(c)) /\ Cardinality(Attempts(c)) \in Nat
           /\ IsFiniteSet(Counting(c)) /\ Cardinality(Counting(c)) \in Nat
           /\ IsFiniteSet(Bad(c)) /\ Cardinality(Bad(c)) \in Nat
<1>1. IsFiniteSet(DOMAIN calls)
  <2>1. DOMAIN calls = 1..Len(calls) /\ Len(calls) \in Nat
    BY Sizes DEF IInv
  <2> QED
    BY <2>1, FS_Interval
<1>2. IsFiniteSet(Failures(c)) /\ IsFiniteSet(Attempts(c))
  <2>1. Failures(c) \in SUBSET DOMAIN calls /\ Attempts(c) \in SUBSET DOMAIN calls
    BY DEF Failures, Attempts, Ended, Returned
  <2> QED
    BY <1>1, <2>1, FS_Subset
<1>3. IsFiniteSet(Counting(c))
  <2> DEFINE number == [t \in Counting(c) |-> call[t]]
  <2>1. number \in [Counting(c) -> DOMAIN calls]
    BY DEF IInv, CallsOwned, Counting
  <2>2. \A t, u \in Counting(c) : number[t] = number[u] => t = u
    BY DEF IInv, CallsOwned, Counting
  <2> HIDE DEF number
  <2>3. number \in Injection(Counting(c), DOMAIN calls)
    BY <2>1, <2>2 DEF Injection, IsInjective
  <2> QED
    BY <1>1, <2>3, FS_Injection
<1>4. IsFiniteSet(Bad(c))
  <2>1. Bad(c) \in SUBSET Counting(c)
    BY DEF Bad
  <2> QED
    BY <1>3, <2>1, FS_Subset
<1> QED
  BY <1>2, <1>3, <1>4, FS_CardinalityType

\* A step in which no thread of the client comes to counting or leaves it, and
\* none of its calls returns.
Untouched(c) ==
    /\ \A t \in Threads : Owner[t] = c =>
          /\ pc'[t] = "stats" <=> pc[t] = "stats"
          /\ pc[t] = "stats" => call'[t] = call[t]
    /\ DOMAIN calls \subseteq DOMAIN calls'
    /\ \A i \in DOMAIN calls' \ DOMAIN calls : calls'[i].result = "NONE"
    /\ \A i \in DOMAIN calls : /\ calls'[i].client = calls[i].client
                               /\ calls[i].client = c => calls'[i] = calls[i]
    /\ failed'[c] = failed[c] /\ total'[c] = total[c]

LEMMA UntouchedBalances ==
    ASSUME IInv, NEW c \in Clients, Balanced(c), Untouched(c)
    PROVE  Balanced(c)'
<1>1. Failures(c)' = Failures(c)
  BY DEF Untouched, Failures, Ended, Returned
<1>2. Attempts(c)' = Attempts(c)
  BY DEF Untouched, Attempts, Ended, Returned
<1>3. Counting(c)' = Counting(c)
  BY DEF Untouched, Counting
<1>4. \A t \in Counting(c) : call'[t] = call[t] /\ calls'[call[t]] = calls[call[t]]
  BY DEF Untouched, Counting, IInv, CallsOwned
<1>5. Bad(c)' = Bad(c)
  BY <1>3, <1>4 DEF Bad
<1> QED
  BY <1>1, <1>2, <1>3, <1>5 DEF Balanced, Untouched

\* The call of t gets this result, if it is one, and t goes on to this place.
Moves(t, result, to) ==
    /\ pc' = [pc EXCEPT ![t] = to]
    /\ call' = call /\ DOMAIN calls' = DOMAIN calls
    /\ \A i \in DOMAIN calls :
          /\ calls'[i].client = calls[i].client /\ calls'[i].req = calls[i].req
          /\ i # call[t] => calls'[i] = calls[i]
    /\ calls'[call[t]].result = result

\* For the other clients that is nothing.
LEMMA OthersUntouched ==
    ASSUME IInv, NEW t \in Threads, pc[t] # "idle", NEW result, NEW to, Moves(t, result, to),
           NEW c \in Clients \ {Owner[t]}, failed'[c] = failed[c], total'[c] = total[c]
    PROVE  Untouched(c)
<1>1. calls[call[t]].client # c
  BY DEF IInv, CallsOwned
<1>2. pc \in [Threads -> {"idle", "connect", "send", "recv", "stats"}]
  BY DEF IInv, SessionTypeOK
<1>3. \A u \in Threads : Owner[u] = c => pc'[u] = pc[u]
  BY <1>2 DEF Moves
<1> QED
  BY <1>1, <1>3 DEF Moves, Untouched

\* An operation that ends is an attempt if its thread goes on to counting, and a
\* failure if it says so; one that does not go on is counted at once.
LEMMA EndBalances ==
    ASSUME IInv, NEW t \in Threads, pc[t] \in {"connect", "send", "recv"},
           NEW result \in {"SUCCESS", "CONNECTION", "NOT_CONNECTED", "PROTOCOL"},
           NEW to \in {"idle", "stats"}, Moves(t, result, to),
           to = "stats" <=> /\ result \in {"SUCCESS", "CONNECTION"}
                            /\ calls[call[t]].req # Connecting,
           total' = total,
           failed'[Owner[t]] = IF result = "NOT_CONNECTED" THEN failed[Owner[t]] + 1
                               ELSE failed[Owner[t]],
           result = "CONNECTION" => to = "stats",
           Balanced(Owner[t])
    PROVE  Balanced(Owner[t])'
<1> DEFINE c == Owner[t]
           i == call[t]
<1>1. /\ c \in Clients /\ i \in DOMAIN calls /\ calls[i].client = c
      /\ calls[i].result = "NONE"
  BY InOperation
<1>2. /\ pc \in [Threads -> {"idle", "connect", "send", "recv", "stats"}]
      /\ failed[c] \in Nat /\ total[c] \in Nat
  BY <1>1 DEF IInv, SessionTypeOK
<1>3. /\ IsFiniteSet(Failures(c)) /\ Cardinality(Failures(c)) \in Nat
      /\ IsFiniteSet(Attempts(c)) /\ Cardinality(Attempts(c)) \in Nat
      /\ IsFiniteSet(Counting(c)) /\ Cardinality(Counting(c)) \in Nat
      /\ IsFiniteSet(Bad(c)) /\ Cardinality(Bad(c)) \in Nat
  BY <1>1, CountedIsFinite
<1>4. /\ i \notin Failures(c) /\ i \notin Attempts(c)
      /\ t \notin Counting(c) /\ t \notin Bad(c)
  BY <1>1 DEF Failures, Attempts, Ended, Returned, Counting, Bad
<1>5. /\ calls'[i].client = c /\ calls'[i].req = calls[i].req /\ calls'[i].result = result
      /\ DOMAIN calls' = DOMAIN calls /\ call' = call
      /\ \A j \in DOMAIN calls : j # i => calls'[j] = calls[j]
      /\ pc'[t] = to /\ \A u \in Threads : u # t => pc'[u] = pc[u]
  BY <1>1, <1>2 DEF Moves
<1>6. \A u \in Threads : u # t /\ pc[u] = "stats" => call[u] # i
  BY <1>1 DEF IInv, CallsOwned
<1> HIDE DEF c, i
<1>7. Failures(c)' = IF result \in {"CONNECTION", "NOT_CONNECTED"} THEN Failures(c) \cup {i}
                     ELSE Failures(c)
  BY <1>1, <1>4, <1>5 DEF Failures, Ended, Returned
<1>8. Attempts(c)' = IF to = "stats" THEN Attempts(c) \cup {i} ELSE Attempts(c)
  BY <1>1, <1>4, <1>5 DEF Attempts, Ended, Returned, i
<1>9. Counting(c)' = IF to = "stats" THEN Counting(c) \cup {t} ELSE Counting(c)
  BY <1>4, <1>5 DEF Counting, c
<1>10. Bad(c)' = IF to = "stats" /\ result # "SUCCESS" THEN Bad(c) \cup {t} ELSE Bad(c)
  <2>1. \A u \in Threads : u # t => (u \in Bad(c)' <=> u \in Bad(c))
    <3>1. \A u \in Counting(c) : calls'[call'[u]] = calls[call[u]]
      BY <1>1, <1>4, <1>5, <1>6 DEF Counting, IInv, CallsOwned
    <3> QED
      BY <1>5, <3>1 DEF Bad, Counting
  <2>2. t \in Bad(c)' <=> to = "stats" /\ result # "SUCCESS"
    BY <1>5 DEF Bad, Counting, c, i
  <2>3. Bad(c) \subseteq Threads /\ Bad(c)' \subseteq Threads
    BY DEF Bad, Counting
  <2> QED
    BY <1>4, <2>1, <2>2, <2>3
<1>11. total'[c] = total[c] /\ failed'[c] = IF result = "NOT_CONNECTED" THEN failed[c] + 1
                                            ELSE failed[c]
  BY DEF c
<1>12. /\ Cardinality(Failures(c) \cup {i}) = Cardinality(Failures(c)) + 1
       /\ Cardinality(Attempts(c) \cup {i}) = Cardinality(Attempts(c)) + 1
       /\ Cardinality(Counting(c) \cup {t}) = Cardinality(Counting(c)) + 1
       /\ Cardinality(Bad(c) \cup {t}) = Cardinality(Bad(c)) + 1
  BY <1>3, <1>4, FS_AddElement
<1>13. failed'[c] + Cardinality(Bad(c)') = Cardinality(Failures(c)')
  BY <1>2, <1>3, <1>7, <1>10, <1>11, <1>12 DEF Balanced, c
<1>14. total'[c] + Cardinality(Counting(c)') = Cardinality(Attempts(c)')
  BY <1>2, <1>3, <1>8, <1>9, <1>11, <1>12 DEF Balanced, c
<1> QED
  BY <1>13, <1>14 DEF Balanced, c

\* A thread counts, and is no longer about to.
LEMMA StatsBalances ==
    ASSUME IInv, NEW t \in Threads, Stats(t), Balanced(Owner[t])
    PROVE  Balanced(Owner[t])'
<1> DEFINE c == Owner[t]
           bad == calls[call[t]].result # "SUCCESS"
<1>1. /\ pc[t] = "stats" /\ pc' = [pc EXCEPT ![t] = "idle"]
      /\ total' = [total EXCEPT ![c] = @ + 1]
      /\ failed' = [failed EXCEPT ![c] = IF bad THEN @ + 1 ELSE @]
      /\ UNCHANGED <<call, calls>>
  BY DEF Stats, Goto
<1>2. c \in Clients /\ SessionTypeOK
  BY OwnerAssumption DEF IInv
<1>3. /\ pc \in [Threads -> {"idle", "connect", "send", "recv", "stats"}]
      /\ failed \in [Clients -> Nat] /\ failed[c] \in Nat
      /\ total \in [Clients -> Nat] /\ total[c] \in Nat
  BY <1>2 DEF SessionTypeOK
<1>4. /\ IsFiniteSet(Failures(c)) /\ Cardinality(Failures(c)) \in Nat
      /\ IsFiniteSet(Attempts(c)) /\ Cardinality(Attempts(c)) \in Nat
      /\ IsFiniteSet(Counting(c)) /\ Cardinality(Counting(c)) \in Nat
      /\ IsFiniteSet(Bad(c)) /\ Cardinality(Bad(c)) \in Nat
  BY <1>2, CountedIsFinite
<1>5. t \in Counting(c) /\ (t \in Bad(c) <=> bad)
  BY <1>1 DEF Counting, Bad
<1>6. pc'[t] = "idle" /\ \A u \in Threads : u # t => pc'[u] = pc[u]
  BY <1>1, <1>3
<1>7. total'[c] = total[c] + 1 /\ failed'[c] = IF bad THEN failed[c] + 1 ELSE failed[c]
  BY <1>1, <1>2, <1>3
<1>8. Failures(c)' = Failures(c) /\ Attempts(c)' = Attempts(c)
  BY <1>1 DEF Failures, Attempts, Ended, Returned
<1> HIDE DEF c, bad
<1>9. Counting(c)' = Counting(c) \ {t}
  BY <1>6 DEF Counting
<1>10. Bad(c)' = IF bad THEN Bad(c) \ {t} ELSE Bad(c)
  BY <1>1, <1>5, <1>9 DEF Bad
<1>11. /\ Cardinality(Counting(c) \ {t}) = Cardinality(Counting(c)) - 1
       /\ bad => Cardinality(Bad(c) \ {t}) = Cardinality(Bad(c)) - 1
  BY <1>4, <1>5, FS_RemoveElement
<1>12. failed'[c] + Cardinality(Bad(c)') = Cardinality(Failures(c)')
  BY <1>3, <1>4, <1>7, <1>8, <1>10, <1>11 DEF Balanced, c
<1>13. total'[c] + Cardinality(Counting(c)') = Cardinality(Attempts(c)')
  BY <1>3, <1>4, <1>7, <1>8, <1>9, <1>11 DEF Balanced, c
<1> QED
  BY <1>12, <1>13 DEF Balanced, c

\* A step that ends an operation, and the one that counts it.
LEMMA EndKeepsAccounts ==
    ASSUME IInv, Accounts, NEW t \in Threads, pc[t] \in {"connect", "send", "recv"},
           NEW result \in {"SUCCESS", "CONNECTION", "NOT_CONNECTED", "PROTOCOL"},
           NEW to \in {"idle", "stats"}, Moves(t, result, to),
           to = "stats" <=> /\ result \in {"SUCCESS", "CONNECTION"}
                            /\ calls[call[t]].req # Connecting,
           result = "CONNECTION" => to = "stats",
           total' = total,
           failed' = IF result = "NOT_CONNECTED"
                     THEN [failed EXCEPT ![Owner[t]] = @ + 1] ELSE failed,
           \A c \in Clients \ {Owner[t]} : status'[c] = status[c]
    PROVE  Accounts'
<1>1. Owner[t] \in Clients /\ status[Owner[t]] # "KILLED" /\ failed \in [Clients -> Nat]
  BY InOperation DEF IInv, SessionTypeOK
<1>2. /\ \A c \in Clients \ {Owner[t]} : failed'[c] = failed[c] /\ total'[c] = total[c]
      /\ failed'[Owner[t]] = IF result = "NOT_CONNECTED" THEN failed[Owner[t]] + 1
                             ELSE failed[Owner[t]]
  BY <1>1
<1>3. Balanced(Owner[t])'
  BY <1>1, <1>2, EndBalances DEF Accounts
<1>4. ASSUME NEW c \in Clients \ {Owner[t]}, status'[c] # "KILLED" PROVE Balanced(c)'
  <2>1. Untouched(c)
    BY <1>2, OthersUntouched
  <2> QED
    BY <1>2, <1>4, <2>1, UntouchedBalances DEF Accounts
<1> QED
  BY <1>3, <1>4 DEF Accounts

LEMMA StatsKeepsAccounts ==
    ASSUME IInv, Accounts, NEW t \in Threads, Stats(t)
    PROVE  Accounts'
<1>1. /\ pc[t] = "stats" /\ pc' = [pc EXCEPT ![t] = "idle"]
      /\ UNCHANGED <<call, calls, status>>
      /\ \A c \in Clients \ {Owner[t]} : failed'[c] = failed[c] /\ total'[c] = total[c]
  BY DEF Stats, Goto, IInv, SessionTypeOK
<1>2. Owner[t] \in Clients /\ status[Owner[t]] # "KILLED"
  BY <1>1, OwnerAssumption DEF IInv, KilledIsOver
<1>3. Balanced(Owner[t])'
  BY <1>2, StatsBalances DEF Accounts
<1>4. ASSUME NEW c \in Clients \ {Owner[t]}, status'[c] # "KILLED" PROVE Balanced(c)'
  <2>1. Moves(t, calls[call[t]].result, "idle")
    BY <1>1 DEF Moves
  <2>2. Untouched(c)
    BY <1>1, <2>1, OthersUntouched
  <2> QED
    BY <1>1, <1>4, <2>2, UntouchedBalances DEF Accounts
<1> QED
  BY <1>3, <1>4 DEF Accounts

\* A step that is nothing to all clients but those it leaves killed.
LEMMA RestKeepsAccounts ==
    ASSUME IInv, Accounts,
           \A c \in Clients : status'[c] # "KILLED" => status[c] # "KILLED" /\ Untouched(c)
    PROVE  Accounts'
BY UntouchedBalances DEF Accounts

\* A call that returns has a result, and its thread goes on.
LEMMA ReturnMoves ==
    ASSUME IInv, NEW t \in Threads, pc[t] \in {"connect", "send", "recv"},
           NEW result \in {"SUCCESS", "CONNECTION", "NOT_CONNECTED", "PROTOCOL"},
           NEW from \in 0..MaxCalls, NEW answer \in Reply, Return(t, result, from, answer),
           NEW to, pc' = [pc EXCEPT ![t] = to], call' = call
    PROVE  Moves(t, result, to)
<1>1. call[t] \in DOMAIN calls /\ calls \in Seq(Call)
  BY InOperation DEF IInv, SessionTypeOK
<1> QED
  BY <1>1, ReturnEffect DEF Moves

\* What a recv makes of its call: it returns with the one answer of its connection,
\* or with the empty one.
LEMMA RecvReturns ==
    ASSUME IInv, NEW t \in Threads, RecvAnswer(t) \/ RecvEof(t) \/ RecvFails(t)
    PROVE  /\ pc[t] = "recv" /\ pc' = [pc EXCEPT ![t] = "stats"]
           /\ UNCHANGED <<storeVars, status, sock, total, failed, call, ran>>
           /\ sock[Owner[t]] \in DOMAIN conns /\ DOMAIN conns' = DOMAIN conns
           /\ \A n \in DOMAIN conns : /\ conns'[n].requests = conns[n].requests
                                      /\ Range(conns'[n].answers) \subseteq Range(conns[n].answers)
           /\ \/ \E got \in Range(conns[sock[Owner[t]]].answers) :
                    /\ got.from \in 0..MaxCalls /\ got.reply \in Reply
                    /\ Return(t, "SUCCESS", got.from, got.reply)
              \/ \E result \in {"SUCCESS", "CONNECTION"} :
                    /\ 0 \in 0..MaxCalls /\ Say("NONE") \in Reply
                    /\ Return(t, result, 0, Say("NONE"))
<1> DEFINE n == sock[Owner[t]]
<1>1. /\ pc[t] = "recv" /\ pc' = [pc EXCEPT ![t] = "stats"]
      /\ UNCHANGED <<storeVars, status, sock, total, failed, call, ran>>
  BY DEF RecvAnswer, RecvEof, RecvFails, Received, Goto
<1>2. n \in DOMAIN conns /\ Say("NONE") \in Reply /\ conns \in Seq(Conn)
  BY <1>1, InOperation DEF IInv, SessionTypeOK
<1>3. CASE RecvAnswer(t)
  <2> DEFINE got == Head(conns[n].answers)
  <2>1. /\ conns[n].answers # <<>> /\ conns' = [conns EXCEPT ![n].answers = Tail(@)]
        /\ Return(t, "SUCCESS", got.from, got.reply)
    BY <1>3 DEF RecvAnswer
  <2>2. Len(conns[n].answers) <= 1
    BY <1>2 DEF IInv, OneSide
  <2> HIDE DEF n
  <2>3. /\ DOMAIN conns' = DOMAIN conns
        /\ \A m \in DOMAIN conns : m # n => conns'[m] = conns[m]
        /\ conns'[n].requests = conns[n].requests
        /\ conns'[n].answers = <<>>
        /\ got \in Range(conns[n].answers)
        /\ got.from \in 1..MaxCalls /\ got.reply \in Reply
    BY <1>2, <2>1, <2>2, AnswerEffect
  <2>4. \A m \in DOMAIN conns : /\ conns'[m].requests = conns[m].requests
                                /\ Range(conns'[m].answers) \subseteq Range(conns[m].answers)
    BY <2>3 DEF Range
  <2>5. got.from \in 0..MaxCalls
    BY <2>3, BoundsAssumption
  <2> HIDE DEF got
  <2> QED
    BY <1>1, <1>2, <2>1, <2>3, <2>4, <2>5 DEF n
<1>4. CASE RecvEof(t) \/ RecvFails(t)
  <2>1. UNCHANGED conns /\ \E result \in {"SUCCESS", "CONNECTION"} :
                              Return(t, result, 0, Say("NONE"))
    BY <1>4 DEF RecvEof, RecvFails, ReturnError
  <2>2. 0 \in 0..MaxCalls
    BY BoundsAssumption
  <2> QED
    BY <1>1, <1>2, <2>1, <2>2
<1> QED
  BY <1>3, <1>4

\* A call that does not come to recv ends with an error, or with nothing to send.
LEMMA NothingSent ==
    ASSUME IInv, NEW t \in Threads,
           \/ ConnectAlready(t) \/ ConnectOk(t) \/ ConnectFail(t)
           \/ SendUnconnected(t) \/ SendFails(t)
    PROVE  /\ pc[t] \in {"connect", "send"} /\ total' = total /\ call' = call
           /\ UNCHANGED <<storeVars, ran>>
           /\ \A c \in Clients \ {Owner[t]} : status'[c] = status[c]
           /\ DOMAIN conns \subseteq DOMAIN conns'
           /\ \A n \in DOMAIN conns : conns'[n] = conns[n]
           /\ \A n \in DOMAIN conns' \ DOMAIN conns :
                 conns'[n].requests = <<>> /\ conns'[n].answers = <<>>
           /\ failed' = IF ConnectFail(t) THEN [failed EXCEPT ![Owner[t]] = @ + 1] ELSE failed
           /\ \/ /\ pc[t] = "connect" /\ calls[call[t]].req # Connecting
                 /\ pc' = [pc EXCEPT ![t] = "send"] /\ UNCHANGED calls /\ ~ConnectFail(t)
                 /\ status'[Owner[t]] # "KILLED"
              \/ \E result \in {"SUCCESS", "CONNECTION", "NOT_CONNECTED", "PROTOCOL"} :
                    /\ Return(t, result, 0, Say("NONE"))
                    /\ result = "NOT_CONNECTED" <=> ConnectFail(t)
                    /\ \/ /\ result = "CONNECTION" /\ pc[t] = "send"
                          /\ pc' = [pc EXCEPT ![t] = "stats"]
                       \/ /\ result # "CONNECTION" /\ pc' = [pc EXCEPT ![t] = "idle"]
                          /\ result = "SUCCESS" => calls[call[t]].req = Connecting
<1>1. CASE ConnectAlready(t) \/ ConnectOk(t)
  <2>1. /\ pc[t] = "connect" /\ Connected(t)
        /\ UNCHANGED <<storeVars, total, failed, call, ran>>
    BY <1>1 DEF ConnectAlready, ConnectOk, clientVars
  <2>2. status \in [Clients -> {"DISCONNECTED", "CONNECTED", "ERROR", "KILLED"}]
        /\ Owner[t] \in Clients /\ conns \in Seq(Conn) /\ status[Owner[t]] # "KILLED"
    BY <2>1, InOperation DEF IInv, SessionTypeOK
  <2>3. /\ \A c \in Clients \ {Owner[t]} : status'[c] = status[c]
        /\ status'[Owner[t]] = "CONNECTED"
    BY <1>1, <2>2 DEF ConnectAlready, ConnectOk, clientVars
  <2>4. /\ DOMAIN conns \subseteq DOMAIN conns'
        /\ \A n \in DOMAIN conns : conns'[n] = conns[n]
        /\ \A n \in DOMAIN conns' \ DOMAIN conns :
              conns'[n].requests = <<>> /\ conns'[n].answers = <<>>
    <3>1. CASE ConnectAlready(t)
      BY <3>1 DEF ConnectAlready
    <3>2. CASE ConnectOk(t)
      BY <2>2, <3>2, ConnectEffect DEF ConnectOk
    <3> QED
      BY <1>1, <3>1, <3>2
  <2>5. ~ConnectFail(t)
    <3>1. status'[Owner[t]] # "ERROR"
      BY <2>3
    <3> QED
      BY <2>2, <3>1 DEF ConnectFail
  <2>6. CASE pc' = [pc EXCEPT ![t] = "send"] /\ UNCHANGED calls
             /\ calls[call[t]].req # Connecting
    BY <2>1, <2>3, <2>4, <2>5, <2>6
  <2>7. CASE pc' = [pc EXCEPT ![t] = "idle"] /\ Return(t, "PROTOCOL", 0, Say("NONE"))
    BY <2>1, <2>3, <2>4, <2>5, <2>7
  <2>8. CASE pc' = [pc EXCEPT ![t] = "idle"] /\ Return(t, "SUCCESS", 0, Say("NONE"))
             /\ calls[call[t]].req = Connecting
    BY <2>1, <2>3, <2>4, <2>5, <2>8
  <2> QED
    BY <2>1, <2>6, <2>7, <2>8 DEF Connected, Goto
<1>2. CASE ConnectFail(t)
  <2>1. status \in [Clients -> {"DISCONNECTED", "CONNECTED", "ERROR", "KILLED"}]
    BY DEF IInv, SessionTypeOK
  <2> QED
    BY <1>2, <2>1 DEF ConnectFail, Goto
<1>3. CASE SendUnconnected(t) \/ SendFails(t)
  <2>1. /\ pc[t] = "send" /\ pc' = [pc EXCEPT ![t] = "stats"]
        /\ UNCHANGED <<storeVars, conns, status, total, failed, call, ran>>
        /\ Return(t, "CONNECTION", 0, Say("NONE"))
    BY <1>3 DEF SendUnconnected, SendFails, ReturnError, Goto, clientVars
  <2>2. ~ConnectFail(t)
    BY <2>1 DEF ConnectFail
  <2> QED
    BY <2>1, <2>2
<1> QED
  BY <1>1, <1>2, <1>3

\* Every step keeps the accounts.
LEMMA NextAccounts == IInv /\ AInv /\ [Next]_vars => Accounts'
<1> SUFFICES ASSUME IInv, AInv, [Next]_vars PROVE Accounts'
  OBVIOUS
<1> USE DEF AInv
<1>1. SessionTypeOK /\ calls \in Seq(Call)
      /\ pc \in [Threads -> {"idle", "connect", "send", "recv", "stats"}]
      /\ status \in [Clients -> {"DISCONNECTED", "CONNECTED", "ERROR", "KILLED"}]
      /\ call \in [Threads -> 0..Len(calls)]
  BY DEF IInv, SessionTypeOK
<1>2. ASSUME NEW t \in Threads, NEW req \in Calls, Begin(t, req) PROVE Accounts'
  <2>1. /\ pc[t] = "idle" /\ pc' = [pc EXCEPT ![t] = "connect"]
        /\ calls' = Append(calls, Pending(Owner[t], req, Returned))
        /\ call' = [call EXCEPT ![t] = Len(calls) + 1]
        /\ UNCHANGED <<status, total, failed>>
    BY <1>2 DEF Begin, Goto, clientVars
  <2>2. Pending(Owner[t], req, Returned).result = "NONE"
    BY DEF Pending
  <2> HIDE DEF Pending
  <2>3. /\ DOMAIN calls \subseteq DOMAIN calls'
        /\ \A i \in DOMAIN calls : calls'[i] = calls[i]
        /\ \A i \in DOMAIN calls' \ DOMAIN calls : calls'[i].result = "NONE"
    BY <1>1, <2>1, <2>2
  <2>4. \A u \in Threads : /\ pc'[u] = "stats" <=> pc[u] = "stats"
                           /\ pc[u] = "stats" => call'[u] = call[u]
    BY <1>1, <2>1
  <2>5. \A c \in Clients : Untouched(c)
    BY <2>1, <2>3, <2>4 DEF Untouched
  <2> QED
    BY <2>1, <2>5, RestKeepsAccounts
<1>3. ASSUME NEW t \in Threads,
             \/ ConnectAlready(t) \/ ConnectOk(t) \/ ConnectFail(t)
             \/ SendUnconnected(t) \/ SendFails(t)
      PROVE  Accounts'
  <2>1. /\ pc[t] \in {"connect", "send", "recv"} /\ total' = total /\ call' = call
        /\ \A c \in Clients \ {Owner[t]} : status'[c] = status[c]
        /\ status[Owner[t]] # "KILLED"
    <3>1. pc[t] \in {"connect", "send"}
      BY <1>3, NothingSent
    <3> QED
      BY <1>3, <3>1, NothingSent, InOperation
  <2>2. CASE /\ pc[t] = "connect" /\ pc' = [pc EXCEPT ![t] = "send"] /\ UNCHANGED calls
             /\ ~ConnectFail(t)
    <3>1. failed' = failed
      BY <1>3, <2>2, NothingSent
    <3>2. \A u \in Threads : pc'[u] = "stats" <=> pc[u] = "stats"
      BY <1>1, <2>2
    <3>3. \A c \in Clients : Untouched(c)
      BY <2>1, <2>2, <3>1, <3>2 DEF Untouched
    <3> QED
      BY <2>1, <3>3, RestKeepsAccounts
  <2>3. ASSUME NEW result \in {"SUCCESS", "CONNECTION", "NOT_CONNECTED", "PROTOCOL"},
               Return(t, result, 0, Say("NONE")), result = "NOT_CONNECTED" <=> ConnectFail(t),
               \/ /\ result = "CONNECTION" /\ pc[t] = "send"
                  /\ pc' = [pc EXCEPT ![t] = "stats"]
               \/ /\ result # "CONNECTION" /\ pc' = [pc EXCEPT ![t] = "idle"]
                  /\ result = "SUCCESS" => calls[call[t]].req = Connecting
        PROVE  Accounts'
    <3>1. /\ 0 \in 0..MaxCalls /\ Say("NONE") \in Reply
      BY <2>1, InOperation, BoundsAssumption
    <3>2. failed' = IF result = "NOT_CONNECTED"
                    THEN [failed EXCEPT ![Owner[t]] = @ + 1] ELSE failed
      BY <1>3, <2>3, NothingSent
    <3>3. pc[t] = "send" => calls[call[t]].req # Connecting
      BY DEF CommandsOnly
    <3>4. CASE result = "CONNECTION"
      <4>1. Moves(t, result, "stats")
        BY <2>1, <2>3, <3>1, <3>4, ReturnMoves
      <4> QED
        BY <2>1, <2>3, <3>2, <3>3, <3>4, <4>1, EndKeepsAccounts
    <3>5. CASE result # "CONNECTION"
      <4>1. Moves(t, result, "idle")
        BY <2>1, <2>3, <3>1, <3>5, ReturnMoves
      <4> QED
        BY <2>1, <2>3, <3>2, <3>5, <4>1, EndKeepsAccounts
    <3> QED
      BY <3>4, <3>5
  <2> QED
    BY <1>3, <2>2, <2>3, NothingSent
<1>4. ASSUME NEW t \in Threads, SendOpen(t) \/ SendClosed(t) PROVE Accounts'
  <2>1. /\ pc[t] = "send" /\ pc' = [pc EXCEPT ![t] = "recv"]
        /\ UNCHANGED <<status, total, failed, call, calls>>
    BY <1>4 DEF SendOpen, SendClosed, Goto
  <2>2. \A u \in Threads : pc'[u] = "stats" <=> pc[u] = "stats"
    BY <1>1, <2>1
  <2>3. \A c \in Clients : Untouched(c)
    BY <2>1, <2>2 DEF Untouched
  <2> QED
    BY <2>1, <2>3, RestKeepsAccounts
<1>5. ASSUME NEW t \in Threads, SendKills(t) PROVE Accounts'
  <2> DEFINE c == Owner[t]
  <2>1. /\ status' = [status EXCEPT ![c] = "KILLED"]
        /\ pc' = [u \in Threads |-> IF u \in {v \in Threads : Owner[v] = c} THEN "idle"
                                    ELSE pc[u]]
        /\ calls' = [i \in DOMAIN calls |->
                       IF calls[i].client = c /\ calls[i].result = "NONE"
                       THEN [calls[i] EXCEPT !.result = "KILLED"] ELSE calls[i]]
        /\ UNCHANGED <<total, failed, call>>
    BY <1>5 DEF SendKills
  <2>2. c \in Clients
    BY OwnerAssumption
  <2>3. \A i \in DOMAIN calls : [calls[i] EXCEPT !.result = "KILLED"].client = calls[i].client
    BY <1>1 DEF Call
  <2>4. /\ DOMAIN calls' = DOMAIN calls
        /\ \A i \in DOMAIN calls : /\ calls'[i].client = calls[i].client
                                   /\ calls[i].client # c => calls'[i] = calls[i]
    BY <2>1, <2>3
  <2>5. \A d \in Clients \ {c} : Untouched(d)
    BY <2>1, <2>4 DEF Untouched
  <2>6. status'[c] = "KILLED" /\ \A d \in Clients \ {c} : status'[d] = status[d]
    BY <1>1, <2>1, <2>2
  <2> QED
    BY <2>5, <2>6, RestKeepsAccounts
<1>6. ASSUME NEW t \in Threads, RecvAnswer(t) \/ RecvEof(t) \/ RecvFails(t) PROVE Accounts'
  <2>1. /\ pc[t] = "recv" /\ pc' = [pc EXCEPT ![t] = "stats"]
        /\ UNCHANGED <<status, total, failed, call>>
    BY <1>6, RecvReturns
  <2>2. PICK result \in {"SUCCESS", "CONNECTION"}, from \in 0..MaxCalls, answer \in Reply :
           Return(t, result, from, answer)
    BY <1>6, RecvReturns
  <2>3. Moves(t, result, "stats")
    BY <2>1, <2>2, ReturnMoves
  <2>4. calls[call[t]].req # Connecting
    BY <2>1 DEF CommandsOnly
  <2> QED
    BY <2>1, <2>3, <2>4, EndKeepsAccounts
<1>7. ASSUME NEW t \in Threads, Stats(t) PROVE Accounts'
  BY <1>7, StatsKeepsAccounts
<1>8. ASSUME NEW t \in Threads, Disconnect(t) PROVE Accounts'
  <2>1. /\ status[Owner[t]] = "CONNECTED"
        /\ status' = [status EXCEPT ![Owner[t]] = "DISCONNECTED"]
        /\ UNCHANGED <<total, failed, pc, call, calls>>
    BY <1>8 DEF Disconnect
  <2>2. \A c \in Clients : status[c] = "KILLED" => status'[c] = "KILLED"
    BY <1>1, <2>1, OwnerAssumption
  <2>3. \A c \in Clients : Untouched(c)
    BY <2>1 DEF Untouched
  <2> QED
    BY <2>2, <2>3, RestKeepsAccounts
<1>9. CASE Accept \/ Serve \/ ServeEof \/ Exit \/ UNCHANGED vars
  <2>1. UNCHANGED <<status, total, failed, pc, call, calls>>
    BY <1>9 DEF Accept, Serve, ServeEof, Exit, clientVars, vars
  <2>2. \A c \in Clients : Untouched(c)
    BY <2>1 DEF Untouched
  <2> QED
    BY <2>1, <2>2, RestKeepsAccounts
<1> QED
  BY <1>2, <1>3, <1>4, <1>5, <1>6, <1>7, <1>8, <1>9 DEF Next, Step

\* What no step changes of a call: who made it, with which request and after which
\* others; and all of it once it has its result.
LEMMA CallsKept ==
    ASSUME IInv, [Next]_vars
    PROVE  /\ DOMAIN calls \subseteq DOMAIN calls'
           /\ \A i \in DOMAIN calls :
                 /\ calls'[i].client = calls[i].client /\ calls'[i].req = calls[i].req
                 /\ calls'[i].done = calls[i].done
                 /\ calls[i].result # "NONE" => calls'[i] = calls[i]
<1> DEFINE Kept0 == /\ DOMAIN calls \subseteq DOMAIN calls'
                    /\ \A i \in DOMAIN calls :
                          /\ calls'[i].client = calls[i].client /\ calls'[i].req = calls[i].req
                          /\ calls'[i].done = calls[i].done
                          /\ calls[i].result # "NONE" => calls'[i] = calls[i]
<1>1. calls \in Seq(Call)
  BY DEF IInv, SessionTypeOK
<1>2. UNCHANGED calls => Kept0
  OBVIOUS
<1>3. ASSUME NEW t \in Threads, NEW req \in Calls, Begin(t, req) PROVE Kept0
  <2>1. calls' = Append(calls, Pending(Owner[t], req, Returned))
    BY <1>3 DEF Begin
  <2> QED
    BY <1>1, <2>1
<1>4. ASSUME NEW t \in Threads, pc[t] \in {"connect", "send", "recv"},
             NEW result \in {"SUCCESS", "CONNECTION", "NOT_CONNECTED", "PROTOCOL"},
             NEW from \in 0..MaxCalls, NEW answer \in Reply, Return(t, result, from, answer)
      PROVE  Kept0
  <2>1. call[t] \in DOMAIN calls /\ calls[call[t]].result = "NONE"
    BY <1>4, InOperation
  <2> QED
    BY <1>1, <1>4, <2>1, ReturnEffect
<1>5. ASSUME NEW t \in Threads,
             \/ ConnectAlready(t) \/ ConnectOk(t) \/ ConnectFail(t)
             \/ SendUnconnected(t) \/ SendFails(t)
      PROVE  Kept0
  <2>1. \/ UNCHANGED calls
        \/ /\ pc[t] \in {"connect", "send"}
           /\ \E result \in {"SUCCESS", "CONNECTION", "NOT_CONNECTED", "PROTOCOL"} :
                 Return(t, result, 0, Say("NONE"))
    BY <1>5, NothingSent
  <2>2. 0 \in 0..MaxCalls /\ Say("NONE") \in Reply
    BY BoundsAssumption DEF Say, Reply
  <2> HIDE DEF Kept0
  <2> QED
    BY <1>2, <1>4, <2>1, <2>2
<1>6. ASSUME NEW t \in Threads, RecvAnswer(t) \/ RecvEof(t) \/ RecvFails(t) PROVE Kept0
  <2>1. PICK result \in {"SUCCESS", "CONNECTION"}, from \in 0..MaxCalls, answer \in Reply :
           Return(t, result, from, answer)
    BY <1>6, RecvReturns
  <2>2. pc[t] = "recv"
    BY <1>6, RecvReturns
  <2> HIDE DEF Kept0
  <2> QED
    BY <1>4, <2>1, <2>2
<1>7. ASSUME NEW t \in Threads, SendKills(t) PROVE Kept0
  <2>1. calls' = [i \in DOMAIN calls |->
                    IF calls[i].client = Owner[t] /\ calls[i].result = "NONE"
                    THEN [calls[i] EXCEPT !.result = "KILLED"] ELSE calls[i]]
    BY <1>7 DEF SendKills
  <2>2. \A i \in DOMAIN calls :
           LET new == [calls[i] EXCEPT !.result = "KILLED"]
           IN  new.client = calls[i].client /\ new.req = calls[i].req
               /\ new.done = calls[i].done
    BY <1>1 DEF Call
  <2> QED
    BY <2>1, <2>2
<1>8. CASE ~\E t \in Threads :
              \/ \E req \in Calls : Begin(t, req)
              \/ ConnectAlready(t) \/ ConnectOk(t) \/ ConnectFail(t)
              \/ SendUnconnected(t) \/ SendFails(t) \/ SendKills(t)
              \/ RecvAnswer(t) \/ RecvEof(t) \/ RecvFails(t)
  <2>1. UNCHANGED calls
    BY <1>8 DEF Next, Step, SendOpen, SendClosed, Stats, Disconnect, Accept, Serve,
       ServeEof, Exit, vars
  <2> QED
    BY <1>2, <2>1
<1> QED
  BY <1>3, <1>5, <1>6, <1>7, <1>8

\* A thread whose call is not a command ends it where it connects.
LEMMA NextCommandsOnly == IInv /\ CommandsOnly /\ [Next]_vars => CommandsOnly'
<1> SUFFICES ASSUME IInv, CommandsOnly, [Next]_vars,
                    NEW u \in Threads, pc'[u] \in {"send", "recv", "stats"}
             PROVE  calls'[call'[u]].req # Connecting
  BY DEF CommandsOnly
<1>1. pc \in [Threads -> {"idle", "connect", "send", "recv", "stats"}]
      /\ call \in [Threads -> 0..Len(calls)]
  BY DEF IInv, SessionTypeOK
<1>2. ASSUME pc[u] \in {"send", "recv", "stats"}, call'[u] = call[u]
      PROVE  calls'[call'[u]].req # Connecting
  <2>1. call[u] \in DOMAIN calls /\ calls[call[u]].req # Connecting
    BY <1>2 DEF IInv, CallsOwned, CommandsOnly
  <2> QED
    BY <1>2, <2>1, CallsKept
<1>3. ASSUME NEW t \in Threads, NEW req \in Calls, Begin(t, req)
      PROVE  pc[u] \in {"send", "recv", "stats"} /\ call'[u] = call[u]
  <2>1. /\ pc[t] = "idle" /\ pc' = [pc EXCEPT ![t] = "connect"]
        /\ call' = [call EXCEPT ![t] = Len(calls) + 1]
    BY <1>3 DEF Begin, Goto
  <2> QED
    BY <1>1, <2>1
<1>4. ASSUME NEW t \in Threads,
             \/ ConnectAlready(t) \/ ConnectOk(t) \/ ConnectFail(t)
             \/ SendUnconnected(t) \/ SendFails(t)
      PROVE  calls'[call'[u]].req # Connecting
  <2>1. call' = call
    BY <1>4, NothingSent
  <2>2. CASE /\ pc[t] = "connect" /\ calls[call[t]].req # Connecting
             /\ pc' = [pc EXCEPT ![t] = "send"] /\ UNCHANGED calls
    BY <1>1, <1>2, <2>1, <2>2
  <2>3. CASE \/ pc[t] = "send" /\ pc' = [pc EXCEPT ![t] = "stats"]
             \/ pc' = [pc EXCEPT ![t] = "idle"]
    BY <1>1, <1>2, <2>1, <2>3
  <2> QED
    BY <1>4, <2>2, <2>3, NothingSent
<1>5. ASSUME NEW t \in Threads,
             \/ SendOpen(t) \/ SendClosed(t) \/ SendKills(t)
             \/ RecvAnswer(t) \/ RecvEof(t) \/ RecvFails(t) \/ Stats(t)
      PROVE  pc[u] \in {"send", "recv", "stats"} /\ call'[u] = call[u]
  <2>1. CASE SendKills(t)
    BY <1>1, <2>1 DEF SendKills
  <2>2. CASE SendOpen(t) \/ SendClosed(t) \/ Stats(t)
    BY <1>1, <2>2 DEF SendOpen, SendClosed, Stats, Goto
  <2>3. CASE RecvAnswer(t) \/ RecvEof(t) \/ RecvFails(t)
    BY <1>1, <2>3 DEF RecvAnswer, RecvEof, RecvFails, Received, Goto
  <2> QED
    BY <1>5, <2>1, <2>2, <2>3
<1>6. CASE \/ \E t \in Threads : Disconnect(t)
           \/ Accept \/ Serve \/ ServeEof \/ Exit \/ UNCHANGED vars
  <2>1. UNCHANGED <<pc, call>>
    BY <1>6 DEF Disconnect, Accept, Serve, ServeEof, Exit, vars
  <2> QED
    BY <1>2, <2>1
<1> QED
  BY <1>2, <1>3, <1>4, <1>5, <1>6 DEF Next, Step

\* Every call that returned is counted once, however the calls of the threads of a
\* client interleave: the counters are out by the threads that are about to count,
\* and by nothing else.
THEOREM CallsAreCounted == Spec => []StatsAccount
<1>1. Init => AInv
  <2> SUFFICES ASSUME Init PROVE AInv
    OBVIOUS
  <2>1. /\ calls = <<>> /\ pc = [t \in Threads |-> "idle"]
        /\ total = [c \in Clients |-> 0] /\ failed = [c \in Clients |-> 0]
    BY DEF Init
  <2>2. ASSUME NEW c \in Clients PROVE Balanced(c)
    <3>1. DOMAIN calls = {}
      BY <2>1
    <3>2. Failures(c) = {} /\ Attempts(c) = {}
      BY <3>1 DEF Failures, Attempts, Ended, Returned
    <3>3. Counting(c) = {} /\ Bad(c) = {}
      BY <2>1 DEF Counting, Bad
    <3> QED
      BY <2>1, <3>2, <3>3, FS_EmptySet DEF Balanced
  <2> QED
    BY <2>1, <2>2 DEF AInv, Accounts, CommandsOnly
<1>2. IInv /\ AInv /\ [Next]_vars => AInv'
  BY NextAccounts, NextCommandsOnly DEF AInv
<1>3. AInv => StatsAccount
  BY AccountsIsStats DEF AInv
<1> QED
  BY <1>1, <1>2, <1>3, Invariance, PTL DEF Spec

---------------------------------------------------------------------------
(* What an acknowledged SET is good for. *)

\* Of the requests that wait in a connection together the first one has failed:
\* the thread that sent the next one had the lock.
FirstFailed ==
    \A n \in DOMAIN conns : Len(conns[n].requests) > 1 =>
        calls[Head(conns[n].requests)].result # "NONE"

\* A call was given this answer to its own request, or will be unless its recv fails.
Gets(i, answer) ==
    \/ calls[i].from = i /\ calls[i].answer = answer
    \/ /\ calls[i].result = "NONE"
       /\ \E n \in DOMAIN conns : \E a \in Range(conns[n].answers) :
             a.from = i /\ a.reply = answer

\* A SET of k that is, or will be, acknowledged, and a GET that finds nothing.
Acknowledged(j, k) == calls[j].req.cmd = "SET" /\ calls[j].req.key = k /\ Gets(j, Say("OK"))
Missed(i, k) == calls[i].req.cmd = "GET" /\ calls[i].req.key = k /\ Gets(i, Say("NOT_FOUND"))

\* What was acknowledged is in the table; what was acknowledged before is not missed.
Confirmed ==
    \A k \in Store!Short : \A j \in DOMAIN calls : Acknowledged(j, k) => Table!Find(k) # NoValue
NotMissed ==
    \A k \in Store!Short : \A i \in DOMAIN calls : Missed(i, k) =>
        \A j \in calls[i].done : ~Acknowledged(j, k)

NoFlush == \A req \in Calls : req.cmd # "FLUSH"

RInv == FirstFailed /\ (NoFlush => Confirmed /\ NotMissed)

\* It implies the property.
LEMMA NotMissedIsRead == RInv => AcknowledgedIsRead
<1> SUFFICES ASSUME RInv, NoFlush, NEW i \in DOMAIN calls, NEW j \in calls[i].done,
                    calls[j].req.cmd = "SET", calls[j].answer = Say("OK"), calls[j].from = j,
                    calls[i].req.cmd = "GET", calls[i].req.key = calls[j].req.key,
                    calls[i].from = i, calls[i].req.key \in Store!Short,
                    calls[i].answer = Say("NOT_FOUND")
             PROVE  FALSE
  BY DEF AcknowledgedIsRead, NoFlush
<1>1. Missed(i, calls[i].req.key) /\ Acknowledged(j, calls[i].req.key)
  BY DEF Missed, Acknowledged, Gets
<1> QED
  BY <1>1 DEF RInv, NotMissed

\* A call that has its result: what it was given is final.
LEMMA GivenIsFinal ==
    ASSUME IInv, [Next]_vars, NEW i \in Returned, NEW answer
    PROVE  /\ i \in DOMAIN calls /\ i \in DOMAIN calls' /\ calls'[i] = calls[i]
           /\ Gets(i, answer)' <=> Gets(i, answer)
<1>1. i \in DOMAIN calls /\ i \in DOMAIN calls' /\ calls'[i] = calls[i]
      /\ calls[i].result # "NONE"
  BY CallsKept DEF Returned
<1> QED
  BY <1>1 DEF Gets

\* What a step that handles no command leaves of the connections: answers only go,
\* and a request is only added behind the others, by a send.
Holds ==
    /\ DOMAIN conns \subseteq DOMAIN conns'
    /\ \A n \in DOMAIN conns' : \A a \in Range(conns'[n].answers) :
          n \in DOMAIN conns /\ a \in Range(conns[n].answers)
    /\ \A n \in DOMAIN conns' :
          \/ conns'[n].requests = <<>>
          \/ n \in DOMAIN conns /\ conns'[n].requests = conns[n].requests
          \/ /\ n \in DOMAIN conns
             /\ \E t \in Threads : SendOpen(t) /\ n = sock[Owner[t]]
             /\ \E i \in 1..MaxCalls : conns'[n].requests = Append(conns[n].requests, i)

LEMMA ConnsHold ==
    ASSUME IInv, [Next]_vars, ~Serve, ~Exit
    PROVE  Holds /\ UNCHANGED storeVars
<1>1. SessionTypeOK /\ conns \in Seq(Conn)
  BY DEF IInv, SessionTypeOK
<1>2. UNCHANGED storeVars
  BY DEF Next, Step, Begin, ConnectAlready, ConnectOk, ConnectFail, SendUnconnected,
     SendOpen, SendClosed, SendFails, SendKills, RecvAnswer, RecvEof, RecvFails, Received,
     Stats, Disconnect, Accept, ServeEof, vars
<1>3. Quiet => Holds
  BY DEF Quiet, Holds
<1>4. UNCHANGED conns => Holds
  BY DEF Holds
<1>5. ASSUME NEW t \in Threads,
             \/ ConnectAlready(t) \/ ConnectOk(t) \/ ConnectFail(t)
             \/ SendUnconnected(t) \/ SendFails(t)
      PROVE  Holds
  <2>1. \A n \in DOMAIN conns' \ DOMAIN conns : Range(conns'[n].answers) = {}
    BY <1>5, NothingSent DEF Range
  <2> QED
    BY <1>5, <2>1, NothingSent DEF Holds
<1>6. ASSUME NEW t \in Threads, SendOpen(t) PROVE Holds
  <2> DEFINE n == sock[Owner[t]]
             i == call[t]
  <2>1. /\ pc[t] = "send" /\ status[Owner[t]] = "CONNECTED"
        /\ conns' = [conns EXCEPT ![n].requests = Append(@, i)]
    BY <1>6 DEF SendOpen
  <2>2. n \in DOMAIN conns /\ i \in 1..MaxCalls
    BY <2>1, InOperation DEF IInv, SocketsOwned
  <2>3. \A m \in DOMAIN conns : m # n => conns'[m] = conns[m]
    BY <2>1
  <2>4. conns[n] \in Conn
    BY <1>1, <2>2
  <2>5. conns'[n] = [conns[n] EXCEPT !.requests = Append(@, i)]
    BY <2>1, <2>2
  <2> HIDE DEF n, i
  <2>6. conns'[n].requests = Append(conns[n].requests, i) /\ conns'[n].answers = conns[n].answers
    BY <2>4, <2>5 DEF Conn
  <2>7. DOMAIN conns' = DOMAIN conns
    BY <2>1
  <2> QED
    BY <1>6, <2>2, <2>3, <2>6, <2>7 DEF Holds, n
<1>7. ASSUME NEW t \in Threads, SendClosed(t) PROVE Holds
  <2> DEFINE n == sock[Owner[t]]
  <2>1. pc[t] = "send" /\ status[Owner[t]] = "CONNECTED"
    BY <1>7 DEF SendClosed
  <2>2. n \in DOMAIN conns
    BY <2>1, InOperation DEF IInv, SocketsOwned
  <2>3. \E state \in {"closed", "reset"} : conns' = [conns EXCEPT ![n].state = state]
    BY <1>7 DEF SendClosed
  <2> HIDE DEF n
  <2> QED
    BY <1>1, <1>3, <2>2, <2>3, QuietMoves
<1>8. ASSUME NEW t \in Threads, SendKills(t) \/ Disconnect(t) PROVE Holds
  <2> DEFINE n == sock[Owner[t]]
  <2>1. status[Owner[t]] = "CONNECTED" /\ conns' = [conns EXCEPT ![n].open = FALSE]
    BY <1>8 DEF SendKills, Disconnect
  <2>2. n \in DOMAIN conns
    BY <2>1, OwnerAssumption DEF IInv, SocketsOwned
  <2> HIDE DEF n
  <2> QED
    BY <1>1, <1>3, <2>1, <2>2, QuietMoves
<1>9. ASSUME NEW t \in Threads, RecvAnswer(t) \/ RecvEof(t) \/ RecvFails(t) PROVE Holds
  BY <1>9, RecvReturns DEF Holds
<1>10. CASE Accept \/ ServeEof \/ UNCHANGED vars
  BY <1>2, <1>3, <1>10, WaitingEffect
<1>11. ASSUME NEW t \in Threads, Stats(t) \/ \E req \in Calls : Begin(t, req) PROVE Holds
  BY <1>4, <1>11 DEF Stats, Begin
<1> QED
  BY <1>2, <1>5, <1>6, <1>7, <1>8, <1>9, <1>10, <1>11 DEF Next, Step

\* A step that handles a command: the first one that waits, and the answer that
\* appears is the one to it.
HandlesOne(first, req) ==
    /\ first \in DOMAIN calls /\ Store!Handle(req) /\ Heard(first, req)
    /\ serving \in DOMAIN conns
    /\ DOMAIN conns' = DOMAIN conns
    /\ \A n \in DOMAIN conns : \A a \in Range(conns'[n].answers) :
          a \in Range(conns[n].answers) \/ (a.from = first /\ a.reply = reply')
    /\ \A n \in DOMAIN conns : conns'[n].requests \in {conns[n].requests, <<>>}
    /\ UNCHANGED calls

LEMMA HandlesOrHolds ==
    ASSUME IInv, [Next]_vars
    PROVE  \/ Holds /\ UNCHANGED storeVars
           \/ \E first : \E req \in Request : HandlesOne(first, req)
<1>1. ASSUME NEW first \in 1..MaxCalls, Handles(first), UNCHANGED calls
      PROVE  \E req \in Request : HandlesOne(first, req)
  <2>1. PICK req \in Request : Store!Handle(req) /\ Heard(first, req)
    BY <1>1 DEF Handles
  <2>2. first \in DOMAIN calls
    BY <1>1 DEF Handles, IInv, Unhandled
  <2> QED
    BY <1>1, <2>1, <2>2 DEF Handles, HandlesOne
<1>2. CASE ~Serve /\ ~Exit
  BY <1>2, ConnsHold
<1>3. CASE Serve
  BY <1>1, <1>3, ServeEffect
<1>4. CASE Exit
  <2>1. CASE Drains /\ DOMAIN conns' = DOMAIN conns /\ UNCHANGED <<storeVars, ran>>
    BY <2>1 DEF Drains, Holds
  <2> QED
    BY <1>1, <1>4, <2>1, ExitEffect
<1> QED
  BY <1>2, <1>3, <1>4

\* A command is sent to a connection only when what waits there has failed.
LEMMA NextFirstFailed ==
    ASSUME IInv, FirstFailed, [Next]_vars
    PROVE  FirstFailed'
<1>1. conns \in Seq(Conn)
  BY DEF IInv, SessionTypeOK
<1>2. ASSUME NEW n \in DOMAIN conns, conns[n].requests # <<>>
      PROVE  LET first == Head(conns[n].requests)
             IN  first \in Range(conns[n].requests) /\ first \in DOMAIN calls
  <2> DEFINE S == 1..MaxCalls
             r == conns[n].requests
  <2>1. r \in Seq(S) /\ r # <<>>
    BY <1>1, <1>2, ConnFields
  <2> HIDE DEF S, r
  <2>2. 1 \in DOMAIN r /\ Head(r) = r[1]
    BY <2>1
  <2> USE DEF r
  <2>3. Head(r) \in Range(conns[n].requests)
    BY <2>2 DEF Range
  <2>4. Head(r) \in DOMAIN calls
    BY <2>3 DEF IInv, Unhandled
  <2> QED
    BY <2>3, <2>4
<1>3. ASSUME NEW n \in DOMAIN conns, Len(conns[n].requests) > 1
      PROVE  calls'[Head(conns[n].requests)].result # "NONE"
  <2>1. conns[n].requests # <<>>
    BY <1>3
  <2>2. Head(conns[n].requests) \in DOMAIN calls
    BY <1>2, <2>1
  <2>3. calls[Head(conns[n].requests)].result # "NONE"
    BY <1>3 DEF FirstFailed
  <2> QED
    BY <2>2, <2>3, CallsKept
<1>4. ASSUME NEW t \in Threads, SendOpen(t), NEW i \in 1..MaxCalls,
             sock[Owner[t]] \in DOMAIN conns,
             Len(Append(conns[sock[Owner[t]]].requests, i)) > 1
      PROVE  calls'[Head(Append(conns[sock[Owner[t]]].requests, i))].result # "NONE"
  <2> DEFINE c == Owner[t]
             n == sock[c]
             r == conns[n].requests
  <2>1. /\ lock[c] = None /\ status[c] = "CONNECTED" /\ c \in Clients
    BY <1>4, OwnerAssumption DEF SendOpen, Unlocked
  <2>2. r # <<>> /\ Head(Append(r, i)) = Head(r)
    <3> DEFINE S == 1..MaxCalls
    <3>1. r \in Seq(S) /\ i \in S
      BY <1>1, <1>4, ConnFields
    <3>2. Len(Append(r, i)) > 1
      BY <1>4
    <3> HIDE DEF S, r
    <3> QED
      BY <3>1, <3>2
  <2>3. Head(r) \in Range(r) /\ Head(r) \in DOMAIN calls
    BY <1>2, <1>4, <2>2
  <2>4. \/ calls[Head(r)].result \in {"CONNECTION", "KILLED"}
        \/ \E u \in Threads : pc[u] = "recv" /\ sock[Owner[u]] = n
    BY <1>4, <2>3 DEF IInv, Awaited, InFlight
  <2>5. ASSUME NEW u \in Threads, pc[u] = "recv", sock[Owner[u]] = n PROVE FALSE
    <3>1. Owner[u] \in Clients /\ status[Owner[u]] = "CONNECTED" /\ lock[Owner[u]] = u
      BY <2>5, InOperation
    <3>2. Owner[u] = c
      BY <2>1, <2>5, <3>1 DEF IInv, SocketsOwned
    <3> QED
      BY <2>1, <3>1, <3>2, NoneAssumption
  <2>6. calls[Head(r)].result # "NONE"
    BY <2>4, <2>5
  <2> QED
    BY <2>2, <2>3, <2>6, CallsKept
<1>5. Len(<<>>) = 0
  OBVIOUS
<1>6. ASSUME NEW n \in DOMAIN conns', Len(conns'[n].requests) > 1
      PROVE  calls'[Head(conns'[n].requests)].result # "NONE"
  <2>1. CASE n \in DOMAIN conns /\ conns'[n].requests \in {conns[n].requests, <<>>}
    BY <1>3, <1>5, <1>6, <2>1
  <2>2. CASE Holds
    <3>1. CASE conns'[n].requests = <<>>
      BY <1>5, <1>6, <3>1
    <3>2. CASE /\ n \in DOMAIN conns
               /\ \E t \in Threads : SendOpen(t) /\ n = sock[Owner[t]]
               /\ \E i \in 1..MaxCalls : conns'[n].requests = Append(conns[n].requests, i)
      BY <1>4, <1>6, <3>2
    <3> QED
      BY <2>1, <2>2, <3>1, <3>2 DEF Holds
  <2> QED
    BY <1>6, <2>1, <2>2, HandlesOrHolds DEF HandlesOne
<1> QED
  BY <1>6 DEF FirstFailed

\* A call is given an answer from its connection.
LEMMA GivenFrom ==
    ASSUME IInv, [Next]_vars, NEW i \in DOMAIN calls', calls'[i].from = i
    PROVE  /\ i \in DOMAIN calls
           /\ \/ calls[i].from = i /\ calls'[i].answer = calls[i].answer
              \/ /\ calls[i].result = "NONE"
                 /\ \E n \in DOMAIN conns : \E a \in Range(conns[n].answers) :
                       a.from = i /\ a.reply = calls'[i].answer
<1> DEFINE Given == /\ i \in DOMAIN calls
                    /\ \/ calls[i].from = i /\ calls'[i].answer = calls[i].answer
                       \/ /\ calls[i].result = "NONE"
                          /\ \E n \in DOMAIN conns : \E a \in Range(conns[n].answers) :
                                a.from = i /\ a.reply = calls'[i].answer
<1> SUFFICES Given
  OBVIOUS
<1>1. calls \in Seq(Call) /\ DOMAIN calls = 1..Len(calls) /\ Len(calls) \in Nat
  BY Sizes DEF IInv
<1>2. UNCHANGED calls => Given
  OBVIOUS
<1>3. ASSUME NEW t \in Threads, NEW req \in Calls, Begin(t, req) PROVE Given
  <2>1. calls' = Append(calls, Pending(Owner[t], req, Returned))
    BY <1>3 DEF Begin
  <2>2. Pending(Owner[t], req, Returned).from = 0
    BY DEF Pending
  <2> HIDE DEF Pending
  <2>3. i \in 1..(Len(calls) + 1) /\ (i # Len(calls) + 1 => calls'[i] = calls[i])
        /\ calls'[Len(calls) + 1].from = 0
    BY <1>1, <2>1, <2>2
  <2>4. i # 0 /\ i \in DOMAIN calls /\ calls'[i] = calls[i]
    BY <1>1, <2>3
  <2> QED
    BY <2>4
<1>4. ASSUME NEW t \in Threads, pc[t] \in {"connect", "send", "recv"},
             NEW result \in {"SUCCESS", "CONNECTION", "NOT_CONNECTED", "PROTOCOL"},
             NEW from \in 0..MaxCalls, NEW answer \in Reply, Return(t, result, from, answer)
      PROVE  /\ i \in DOMAIN calls
             /\ \/ calls'[i] = calls[i]
                \/ /\ i = call[t] /\ calls[i].result = "NONE"
                   /\ calls'[i].from = from /\ calls'[i].answer = answer
  <2>1. call[t] \in DOMAIN calls /\ calls[call[t]].result = "NONE"
    BY <1>4, InOperation
  <2> QED
    BY <1>1, <1>4, <2>1, ReturnEffect
<1>5. ASSUME NEW t \in Threads,
             \/ ConnectAlready(t) \/ ConnectOk(t) \/ ConnectFail(t)
             \/ SendUnconnected(t) \/ SendFails(t)
      PROVE  Given
  <2>1. \/ UNCHANGED calls
        \/ /\ pc[t] \in {"connect", "send"}
           /\ \E result \in {"SUCCESS", "CONNECTION", "NOT_CONNECTED", "PROTOCOL"} :
                 Return(t, result, 0, Say("NONE"))
    BY <1>5, NothingSent
  <2>2. 0 \in 0..MaxCalls /\ Say("NONE") \in Reply
    BY BoundsAssumption DEF Say, Reply
  <2>3. CASE UNCHANGED calls
    BY <1>2, <2>3
  <2>4. CASE \E result \in {"SUCCESS", "CONNECTION", "NOT_CONNECTED", "PROTOCOL"} :
                Return(t, result, 0, Say("NONE")) /\ pc[t] \in {"connect", "send"}
    <3>1. i \in DOMAIN calls /\ (calls'[i] = calls[i] \/ calls'[i].from = 0)
      BY <1>4, <2>2, <2>4
    <3>2. i # 0
      BY <1>1, <3>1
    <3> QED
      BY <3>1, <3>2
  <2> QED
    BY <2>1, <2>3, <2>4
<1>6. ASSUME NEW t \in Threads, RecvAnswer(t) \/ RecvEof(t) \/ RecvFails(t) PROVE Given
  <2> DEFINE n == sock[Owner[t]]
  <2>1. pc[t] \in {"connect", "send", "recv"} /\ n \in DOMAIN conns
    BY <1>6, RecvReturns
  <2>2. ASSUME NEW got \in Range(conns[n].answers), got.from \in 0..MaxCalls,
               got.reply \in Reply, Return(t, "SUCCESS", got.from, got.reply)
        PROVE  Given
    <3>1. /\ i \in DOMAIN calls
          /\ \/ calls'[i] = calls[i]
             \/ /\ calls[i].result = "NONE"
                /\ calls'[i].from = got.from /\ calls'[i].answer = got.reply
      BY <1>4, <2>1, <2>2
    <3> QED
      BY <2>1, <3>1
  <2>3. ASSUME NEW result \in {"SUCCESS", "CONNECTION"}, 0 \in 0..MaxCalls,
               Say("NONE") \in Reply, Return(t, result, 0, Say("NONE"))
        PROVE  Given
    <3>1. i \in DOMAIN calls /\ (calls'[i] = calls[i] \/ calls'[i].from = 0)
      BY <1>4, <2>1, <2>3
    <3>2. i # 0
      BY <1>1, <3>1
    <3> QED
      BY <3>1, <3>2
  <2> HIDE DEF Given, n
  <2> QED
    BY <1>6, <2>2, <2>3, RecvReturns DEF n
<1>7. ASSUME NEW t \in Threads, SendKills(t) PROVE Given
  <2>1. calls' = [j \in DOMAIN calls |->
                    IF calls[j].client = Owner[t] /\ calls[j].result = "NONE"
                    THEN [calls[j] EXCEPT !.result = "KILLED"] ELSE calls[j]]
    BY <1>7 DEF SendKills
  <2>2. i \in DOMAIN calls /\ calls[i] \in Call
    BY <1>1, <2>1
  <2>3. LET new == [calls[i] EXCEPT !.result = "KILLED"]
        IN  new.from = calls[i].from /\ new.answer = calls[i].answer
    BY <2>2 DEF Call
  <2>4. calls'[i].from = calls[i].from /\ calls'[i].answer = calls[i].answer
    BY <2>1, <2>2, <2>3
  <2> QED
    BY <2>2, <2>4
<1>8. CASE ~\E t \in Threads :
              \/ \E req \in Calls : Begin(t, req)
              \/ ConnectAlready(t) \/ ConnectOk(t) \/ ConnectFail(t)
              \/ SendUnconnected(t) \/ SendFails(t) \/ SendKills(t)
              \/ RecvAnswer(t) \/ RecvEof(t) \/ RecvFails(t)
  <2>1. UNCHANGED calls
    BY <1>8 DEF Next, Step, SendOpen, SendClosed, Stats, Disconnect, Accept, Serve,
       ServeEof, Exit, vars
  <2> QED
    BY <1>2, <2>1
<1> HIDE DEF Given
<1> QED
  BY <1>3, <1>5, <1>6, <1>7, <1>8

\* A step that handles no command gives no call an answer that was not on its way.
LEMMA GetsBefore ==
    ASSUME IInv, [Next]_vars, Holds, NEW i \in DOMAIN calls', NEW answer, Gets(i, answer)'
    PROVE  i \in DOMAIN calls /\ Gets(i, answer)
<1>1. CASE calls'[i].from = i /\ calls'[i].answer = answer
  BY <1>1, GivenFrom DEF Gets
<1>2. CASE /\ calls'[i].result = "NONE"
           /\ \E n \in DOMAIN conns' : \E a \in Range(conns'[n].answers) :
                 a.from = i /\ a.reply = answer
  <2>1. PICK n \in DOMAIN conns' : \E a \in Range(conns'[n].answers) :
           a.from = i /\ a.reply = answer
    BY <1>2
  <2>2. PICK a \in Range(conns'[n].answers) : a.from = i /\ a.reply = answer
    BY <2>1
  <2>3. n \in DOMAIN conns /\ a \in Range(conns[n].answers)
    BY <2>1, <2>2 DEF Holds
  <2>4. i \in DOMAIN calls
    BY <2>2, <2>3 DEF IInv, Unhandled
  <2>5. calls[i].result = "NONE"
    BY <1>2, <2>4, CallsKept
  <2> QED
    BY <2>2, <2>3, <2>4, <2>5 DEF Gets
<1> QED
  BY <1>1, <1>2 DEF Gets

\* A command that is handled gives its call the answer to its own request.
LEMMA GetsHandled ==
    ASSUME IInv, FirstFailed, [Next]_vars, NEW first, NEW req \in Request,
           HandlesOne(first, req), NEW i \in DOMAIN calls', NEW answer, Gets(i, answer)'
    PROVE  /\ i \in DOMAIN calls
           /\ \/ Gets(i, answer)
              \/ /\ i = first /\ answer = reply' /\ req = calls[i].req
                 /\ calls[i].result = "NONE"
<1>1. UNCHANGED calls /\ DOMAIN conns' = DOMAIN conns
  BY DEF HandlesOne
<1>2. CASE calls'[i].from = i /\ calls'[i].answer = answer
  BY <1>1, <1>2 DEF Gets
<1>3. CASE /\ calls'[i].result = "NONE"
           /\ \E n \in DOMAIN conns' : \E a \in Range(conns'[n].answers) :
                 a.from = i /\ a.reply = answer
  <2>1. PICK n \in DOMAIN conns : \E a \in Range(conns'[n].answers) :
           a.from = i /\ a.reply = answer
    BY <1>1, <1>3
  <2>2. PICK a \in Range(conns'[n].answers) : a.from = i /\ a.reply = answer
    BY <2>1
  <2>3. CASE a \in Range(conns[n].answers)
    BY <1>1, <1>3, <2>2, <2>3 DEF Gets
  <2>4. CASE a.from = first /\ a.reply = reply'
    <3>1. i = first /\ answer = reply' /\ calls[i].result = "NONE"
      BY <1>1, <1>3, <2>2, <2>4
    <3>2. req = calls[i].req
      BY <3>1 DEF HandlesOne, Heard, FirstFailed
    <3> QED
      BY <1>1, <3>1, <3>2
  <2> QED
    BY <2>2, <2>3, <2>4 DEF HandlesOne
<1> QED
  BY <1>2, <1>3 DEF Gets

\* What a command does to the table, as the session sees it.
LEMMA HandledFinds ==
    ASSUME IInv, NEW req \in Request, Store!Handle(req), req.cmd # "FLUSH"
    PROVE  /\ \A k \in Store!Short : Table!Find(k) # NoValue => Table!Find(k)' # NoValue
           /\ req.cmd = "SET" /\ reply' = Say("OK") /\ req.key \in Store!Short =>
                 Table!Find(req.key)' # NoValue
           /\ req.cmd = "GET" /\ reply' = Say("NOT_FOUND") => Table!Find(req.key) = NoValue
<1>1. req \in Table!Request /\ Table!Handle(req) /\ Table!IInv
  BY SameHandle DEF IInv
<1>2. /\ \A k \in Keys : Table!Find(k) # NoValue => Table!Find(k)' # NoValue
      /\ req.cmd = "SET" /\ reply' = Table!Say("OK") /\ req.key \in Table!Short =>
            Table!Find(req.key)' # NoValue
      /\ req.cmd = "GET" /\ reply' = Table!Say("NOT_FOUND") =>
            Table!Find(req.key) = NoValue
  BY <1>1, Table!FoundStaysFound, StoreAssumption
     DEF Table!HomeAssumption, Table!StoredAssumption, Table!KeptAssumption,
         Table!NoValueAssumption, Table!MaxNodesAssumption
<1>3. Store!Short = Table!Short /\ Store!Short \subseteq Keys
  BY DEF Store!Short, Table!Short
<1>4. \A tag : Table!Say(tag) = Say(tag)
  BY DEF Table!Say, Say
<1> QED
  BY <1>2, <1>3, <1>4

\* A mixture begins with the command of its first part.
LEMMA MixedIsNoFlush ==
    ASSUME NEW req \in Calls, req.cmd # "FLUSH"
    PROVE  Mixed(req).cmd # "FLUSH"
<1>1. req \in Request \/ req = Connecting
  BY CallsAssumption
<1>2. CASE req.cmd = "SET"
  <2>1. req \in [cmd : {"SET"}, key : Keys, value : Vals]
    BY <1>1, <1>2 DEF Request, PlainCommand, KeyCommand, Connecting
  <2>2. Mixed(req) = [req EXCEPT !.value = MixedValue]
    BY <1>2 DEF Mixed, KeyCommand
  <2> QED
    BY <1>2, <2>1, <2>2
<1>3. CASE req.cmd \in KeyCommand
  <2>1. req \in [cmd : KeyCommand, key : Keys]
    BY <1>1, <1>3 DEF Request, PlainCommand, KeyCommand, Connecting
  <2>2. Mixed(req) = [req EXCEPT !.key = MixedKey]
    BY <1>3 DEF Mixed, KeyCommand
  <2>3. Mixed(req).cmd = req.cmd
    BY <2>1, <2>2
  <2> QED
    BY <2>3
<1>4. CASE req.cmd # "SET" /\ req.cmd \notin KeyCommand
  <2>1. Mixed(req) = [cmd |-> "UNKNOWN"]
    BY <1>4 DEF Mixed
  <2> QED
    BY <2>1
<1> QED
  BY <1>2, <1>3, <1>4

\* Without FLUSH among the calls the table is not handed one.
LEMMA NoFlushHandled ==
    ASSUME IInv, NoFlush, NEW first, NEW req \in Request, HandlesOne(first, req)
    PROVE  req.cmd # "FLUSH"
<1>1. calls[first].req \in Calls
  <2>1. first \in DOMAIN calls
    BY DEF HandlesOne
  <2> QED
    BY <2>1, Sizes DEF IInv, Call
<1>2. calls[first].req.cmd # "FLUSH"
  BY <1>1 DEF NoFlush
<1>3. Mixed(calls[first].req).cmd # "FLUSH"
  BY <1>1, <1>2, MixedIsNoFlush
<1> QED
  BY <1>2, <1>3 DEF HandlesOne, Heard

\* What was acknowledged stays in the table.
LEMMA NextConfirmed ==
    ASSUME IInv, FirstFailed, NoFlush, Confirmed, [Next]_vars
    PROVE  Confirmed'
<1> SUFFICES ASSUME NEW k \in Store!Short, NEW j \in DOMAIN calls', Acknowledged(j, k)'
             PROVE  Table!Find(k)' # NoValue
  BY DEF Confirmed, Store!Short
<1>1. /\ calls'[j].req.cmd = "SET" /\ calls'[j].req.key = k /\ Gets(j, Say("OK"))'
  BY DEF Acknowledged, Say
<1>2. CASE Holds /\ UNCHANGED storeVars
  <2>1. j \in DOMAIN calls /\ Gets(j, Say("OK"))
    BY <1>1, <1>2, GetsBefore
  <2>2. Acknowledged(j, k)
    BY <1>1, <2>1, CallsKept DEF Acknowledged
  <2>3. Table!Find(k) # NoValue
    BY <2>1, <2>2 DEF Confirmed
  <2>4. buckets' = buckets
    BY <1>2 DEF storeVars
  <2> QED
    BY <2>3, <2>4 DEF Table!Find, Table!Hits
<1>3. ASSUME NEW first, NEW req \in Request, HandlesOne(first, req)
      PROVE  Table!Find(k)' # NoValue
  <2>1. req.cmd # "FLUSH" /\ Store!Handle(req) /\ UNCHANGED calls
    BY <1>3, NoFlushHandled DEF HandlesOne
  <2>2. CASE Gets(j, Say("OK"))
    <3>1. Acknowledged(j, k) /\ j \in DOMAIN calls
      BY <1>1, <2>1, <2>2 DEF Acknowledged
    <3>2. Table!Find(k) # NoValue
      BY <3>1 DEF Confirmed
    <3> QED
      BY <2>1, <3>2, HandledFinds
  <2>3. CASE Say("OK") = reply' /\ req = calls[j].req
    BY <1>1, <2>1, <2>3, HandledFinds
  <2> QED
    BY <1>1, <1>3, <2>2, <2>3, GetsHandled
<1> QED
  BY <1>2, <1>3, HandlesOrHolds

\* A GET that finds nothing does so before a SET of its key is acknowledged.
LEMMA NextNotMissed ==
    ASSUME IInv, FirstFailed, NoFlush, Confirmed, NotMissed, [Next]_vars
    PROVE  NotMissed'
<1> SUFFICES ASSUME NEW k \in Store!Short, NEW i \in DOMAIN calls', Missed(i, k)',
                    NEW j \in calls'[i].done, Acknowledged(j, k)'
             PROVE  FALSE
  BY DEF NotMissed, Store!Short
<1>1. /\ calls'[i].req.cmd = "GET" /\ calls'[i].req.key = k /\ Gets(i, Say("NOT_FOUND"))'
      /\ calls'[j].req.cmd = "SET" /\ calls'[j].req.key = k /\ Gets(j, Say("OK"))'
  BY DEF Missed, Acknowledged, Say
<1>2. ASSUME i \in DOMAIN calls
      PROVE  /\ j \in calls[i].done /\ calls[i].req.cmd = "GET" /\ calls[i].req.key = k
             /\ j \in DOMAIN calls /\ calls[j].result # "NONE" /\ Acknowledged(j, k)
  <2>1. /\ j \in calls[i].done /\ calls[i].req.cmd = "GET" /\ calls[i].req.key = k
    BY <1>1, <1>2, CallsKept
  <2>2. j \in Returned
    BY <1>2, <2>1 DEF IInv, Answered
  <2>3. j \in DOMAIN calls /\ calls'[j] = calls[j] /\ Gets(j, Say("OK"))
    BY <1>1, <2>2, GivenIsFinal
  <2> QED
    BY <1>1, <2>1, <2>2, <2>3 DEF Acknowledged, Returned
<1>3. ASSUME i \in DOMAIN calls, Gets(i, Say("NOT_FOUND")) PROVE FALSE
  <2>1. Missed(i, k) /\ Acknowledged(j, k) /\ j \in calls[i].done
    BY <1>2, <1>3 DEF Missed
  <2> QED
    BY <1>3, <2>1 DEF NotMissed
<1>4. CASE Holds
  <2>1. i \in DOMAIN calls /\ Gets(i, Say("NOT_FOUND"))
    BY <1>1, <1>4, GetsBefore
  <2> QED
    BY <1>3, <2>1
<1>5. ASSUME NEW first, NEW req \in Request, HandlesOne(first, req) PROVE FALSE
  <2>1. req.cmd # "FLUSH" /\ Store!Handle(req) /\ i \in DOMAIN calls
    BY <1>5, NoFlushHandled DEF HandlesOne
  <2>2. ASSUME Say("NOT_FOUND") = reply', req = calls[i].req PROVE FALSE
    <3>1. Table!Find(k) = NoValue
      BY <1>2, <2>1, <2>2, HandledFinds
    <3>2. j \in DOMAIN calls /\ Acknowledged(j, k)
      BY <1>2, <2>1
    <3> QED
      BY <3>1, <3>2 DEF Confirmed
  <2> QED
    BY <1>1, <1>3, <1>5, <2>1, <2>2, GetsHandled
<1> QED
  BY <1>4, <1>5, HandlesOrHolds

\* A SET that was answered OK is read by every GET that begins later and gets its own
\* answer, whatever the clients, their threads, the merging of commands and the end
\* of the server do in between.
THEOREM AcknowledgedSetsAreRead == Spec => []AcknowledgedIsRead
<1>1. Init => RInv
  <2> SUFFICES ASSUME Init PROVE RInv
    OBVIOUS
  <2>1. calls = <<>> /\ conns = <<>>
    BY DEF Init
  <2>2. DOMAIN calls = {} /\ DOMAIN conns = {}
    BY <2>1
  <2> QED
    BY <2>2 DEF RInv, FirstFailed, Confirmed, NotMissed
<1>2. IInv /\ RInv /\ [Next]_vars => RInv'
  BY NextFirstFailed, NextConfirmed, NextNotMissed DEF RInv, NoFlush
<1> QED
  BY <1>1, <1>2, Invariance, NotMissedIsRead, PTL DEF Spec

=============================================================================
