------------------------ MODULE ServerLifecycleProofs ------------------------
(***************************************************************************)
(* Safety of the server's life for any number of signals, on any threads:  *)
(* the types, that a stop is final, and that the acceptor takes one more   *)
(* connection at most after it.                                            *)
(***************************************************************************)
EXTENDS ServerLifecycle, SequenceTheorems, TLAPS

Handler == [sig : Signals, at : Places]

\* Up to the step that makes the server RUNNING no handler gets past its test.
EarlyHandlersTest ==
    mpc \in {"init", "start", "listen", "run"} =>
        \A t \in Threads : \A i \in DOMAIN handlers[t] : handlers[t][i].at = "test"

EarlyStatus ==
    /\ mpc \in {"init", "start"} => status # "RUNNING"
    /\ mpc \in {"listen", "run"} => status = "STARTING"

ServerExists ==
    /\ mpc \notin {"init", "exited"} => server # "none"
    /\ server = "freed" => mpc \in {"return", "exited"}

\* The acceptor starts after the server was made RUNNING.
SpawnedLate ==
    mpc \in {"init", "start", "listen", "run", "spawn"} => apc = "none" /\ late = 0

\* A late connection is the last one: the acceptor is not before an accept
\* again, as long as it reads the server's own status.
LateIsLast ==
    late # 0 => /\ late = 1 /\ status # "RUNNING"
                /\ dangling \/ apc # "accept"

IInv == /\ TypeOK /\ EarlyHandlersTest /\ EarlyStatus
        /\ ServerExists /\ SpawnedLate /\ LateIsLast

---------------------------------------------------------------------------
(* The stacks of handlers. *)

\* A handler that goes on changes its own place and nothing else.
LEMMA GoOnMovesOne ==
    ASSUME handlers \in [Threads -> Seq(Handler)], NEW t \in Threads,
           handlers[t] # <<>>, NEW place \in Places, GoOn(t, place)
    PROVE  /\ handlers' \in [Threads -> Seq(Handler)]
           /\ \A u \in Threads : \A i \in DOMAIN handlers'[u] :
                /\ i \in DOMAIN handlers[u]
                /\ handlers'[u][i].at \in {handlers[u][i].at, place}
<1> DEFINE top == Len(handlers[t])
           moved == [handlers[t][top] EXCEPT !.at = place]
           stack == [handlers[t] EXCEPT ![top] = moved]
<1>1. handlers[t] \in Seq(Handler) /\ top \in 1..Len(handlers[t])
  BY EmptySeq, LenProperties
<1>2. moved \in Handler /\ moved.at = place
  <2>1. handlers[t][top] \in Handler
    BY <1>1, ElementOfSeq
  <2> QED
    BY <2>1 DEF Handler
<1>3. stack \in Seq(Handler) /\ DOMAIN stack = DOMAIN handlers[t]
  BY <1>1, <1>2, ExceptSeq
<1>4. handlers' = [handlers EXCEPT ![t] = stack]
  BY DEF GoOn
<1>5. \A i \in DOMAIN stack : stack[i].at \in {handlers[t][i].at, place}
  BY <1>1, <1>2
<1> HIDE DEF moved, stack, top
<1> QED
  BY <1>3, <1>4, <1>5

\* When the innermost handler returns, the others stay as they are.
LEMMA ResumeDropsOne ==
    ASSUME handlers \in [Threads -> Seq(Handler)], NEW t \in Threads,
           handlers[t] # <<>>, Resume(t)
    PROVE  /\ handlers' \in [Threads -> Seq(Handler)]
           /\ \A u \in Threads : \A i \in DOMAIN handlers'[u] :
                /\ i \in DOMAIN handlers[u]
                /\ handlers'[u][i] = handlers[u][i]
<1> DEFINE stack == SubSeq(handlers[t], 1, Len(handlers[t]) - 1)
<1>1. handlers[t] \in Seq(Handler) /\ Len(handlers[t]) \in Nat \ {0}
  BY EmptySeq, LenProperties
<1>2. /\ stack \in Seq(Handler)
      /\ \A i \in DOMAIN stack : i \in DOMAIN handlers[t] /\ stack[i] = handlers[t][i]
  BY <1>1, SMTT(30)
<1>3. handlers' = [handlers EXCEPT ![t] = stack]
  BY DEF Resume
<1> HIDE DEF stack
<1> QED
  BY <1>2, <1>3

\* A signal adds one handler, which is before its test of the status.
LEMMA RaiseAddsOne ==
    ASSUME handlers \in [Threads -> Seq(Handler)], NEW t \in Threads,
           NEW sig \in Signals, Raise(sig, t)
    PROVE  /\ handlers' \in [Threads -> Seq(Handler)]
           /\ \A u \in Threads : \A i \in DOMAIN handlers'[u] :
                \/ handlers'[u][i].at = "test"
                \/ i \in DOMAIN handlers[u] /\ handlers'[u][i] = handlers[u][i]
<1> DEFINE new == [sig |-> sig, at |-> "test"]
           stack == Append(handlers[t], new)
<1>1. handlers[t] \in Seq(Handler) /\ new \in Handler /\ new.at = "test"
  BY DEF Handler, Places
<1>2. /\ stack \in Seq(Handler)
      /\ \A i \in DOMAIN stack : \/ stack[i].at = "test"
                                 \/ i \in DOMAIN handlers[t] /\ stack[i] = handlers[t][i]
  BY <1>1, AppendProperties
<1>3. handlers' = [handlers EXCEPT ![t] = stack]
  BY DEF Raise
<1> HIDE DEF stack, new
<1> QED
  BY <1>2, <1>3

---------------------------------------------------------------------------
(* The invariant. *)

\* At the start no handler runs and no resource is acquired.
LEMMA InitInv == Init => IInv
<1> SUFFICES ASSUME Init PROVE IInv
  OBVIOUS
<1>1. handlers \in [Threads -> Seq(Handler)] /\ \A t \in Threads : handlers[t] = <<>>
  BY EmptySeq DEF Init
<1>2. \A t \in Threads : DOMAIN handlers[t] = {}
  BY <1>1
<1> QED
  BY <1>1, <1>2 DEF Init, IInv, TypeOK, Handler, EarlyHandlersTest, EarlyStatus,
     ServerExists, SpawnedLate, LateIsLast

\* Steps of main and of the acceptor leave the handlers alone.
LEMMA MainKeepsInv ==
    ASSUME IInv, Main
    PROVE  IInv'
<1> USE DEF IInv, TypeOK, EarlyHandlersTest, EarlyStatus, ServerExists,
        SpawnedLate, LateIsLast
<1>1. CASE Create
  BY <1>1 DEF Create
<1>2. CASE StartBegin
  BY <1>2 DEF StartBegin
<1>3. CASE Listen
  BY <1>3 DEF Listen
<1>4. CASE ListenFails
  BY <1>4 DEF ListenFails
<1>5. CASE Run
  BY <1>5 DEF Run
<1>6. CASE Spawn
  BY <1>6 DEF Spawn
<1>7. CASE SpawnFails
  BY <1>7 DEF SpawnFails
<1>8. CASE Leave
  BY <1>8 DEF Leave
<1>9. CASE Destroy
  BY <1>9 DEF Destroy
<1>10. CASE Return
  BY <1>10 DEF Return
<1> HIDE DEF IInv
<1> QED
  BY <1>1, <1>2, <1>3, <1>4, <1>5, <1>6, <1>7, <1>8, <1>9, <1>10 DEF Main

\* The acceptor thread leaves the handlers and the socket alone.
LEMMA AcceptorKeepsInv ==
    ASSUME IInv, Acceptor
    PROVE  IInv'
<1> USE DEF Acceptor
<1>1. /\ UNCHANGED <<mpc, server, status, handlers, raised>>
      /\ apc # "none" /\ apc' \in {"test", "accept", "serve", "ended"}
      /\ dangling' \in BOOLEAN /\ (dangling => dangling')
  BY DEF LoopTest, Accept, AcceptFails, Served, Touch, IInv, TypeOK
<1>2. late' \in Nat /\ LateIsLast'
  <2>1. late \in Nat /\ dangling \in BOOLEAN /\ LateIsLast
    BY DEF IInv, TypeOK
  <2>2. CASE LoopTest
    <3>1. late' = late /\ (dangling' \/ apc' = "accept" => dangling' \/ status = "RUNNING")
      BY <2>2 DEF LoopTest, Touch
    <3> QED
      BY <1>1, <2>1, <3>1 DEF LateIsLast
  <2>3. CASE Accept
    BY <1>1, <2>1, <2>3 DEF Accept, LateIsLast
  <2>4. CASE AcceptFails \/ Served
    BY <1>1, <2>1, <2>4 DEF AcceptFails, Served, LateIsLast
  <2> QED
    BY <2>2, <2>3, <2>4
<1>3. SpawnedLate'
  BY <1>1 DEF IInv, SpawnedLate
<1>4. TypeOK'
  BY <1>1, <1>2 DEF IInv, TypeOK
<1>5. EarlyHandlersTest'
  BY <1>1 DEF IInv, EarlyHandlersTest
<1>6. EarlyStatus' /\ ServerExists'
  BY <1>1 DEF IInv, EarlyStatus, ServerExists
<1> QED
  BY <1>2, <1>3, <1>4, <1>5, <1>6 DEF IInv

\* A signal adds a handler that has not read the status yet.
LEMMA RaiseKeepsInv ==
    ASSUME IInv, NEW sig \in Signals, NEW t \in Threads, Raise(sig, t)
    PROVE  IInv'
<1>1. /\ handlers' \in [Threads -> Seq(Handler)]
      /\ \A u \in Threads : \A i \in DOMAIN handlers'[u] :
           \/ handlers'[u][i].at = "test"
           \/ i \in DOMAIN handlers[u] /\ handlers'[u][i] = handlers[u][i]
  BY RaiseAddsOne DEF IInv, TypeOK, Handler
<1>2. UNCHANGED <<mpc, apc, server, status, dangling, late>> /\ raised' = raised + 1
  BY DEF Raise
<1>3. TypeOK'
  <2>1. raised' \in Nat
    BY <1>2 DEF IInv, TypeOK
  <2>2. dangling' \in BOOLEAN
    BY <1>2 DEF IInv, TypeOK
  <2> QED
    BY <1>1, <1>2, <2>1, <2>2 DEF IInv, TypeOK, Handler
<1>5. EarlyStatus' /\ ServerExists' /\ SpawnedLate' /\ LateIsLast'
  BY <1>2 DEF IInv, EarlyStatus, ServerExists, SpawnedLate, LateIsLast
<1>4. EarlyHandlersTest'
  BY <1>1, <1>2 DEF IInv, EarlyHandlersTest
<1> QED
  BY <1>3, <1>4, <1>5 DEF IInv

---------------------------------------------------------------------------
(* A step of a handler. *)

\* A handler past its test runs only when main is past Run.
LEMMA LateHandler ==
    ASSUME IInv, NEW t \in Threads, NEW place \in Places \ {"test"}, At(t, place)
    PROVE  mpc \notin {"init", "start", "listen", "run", "exited"}
<1>1. handlers[t] \in Seq(Handler) /\ handlers[t] # <<>>
  BY DEF IInv, TypeOK, Handler, At
<1>2. Len(handlers[t]) \in DOMAIN handlers[t]
  BY <1>1, EmptySeq, LenProperties
<1> QED
  BY <1>2 DEF IInv, EarlyHandlersTest, At

\* A handler's test of the status keeps the invariant.
LEMMA StopTestKeepsInv ==
    ASSUME IInv, NEW t \in Threads, StopTest(t)
    PROVE  IInv'
<1> USE DEF Places
<1>1. handlers \in [Threads -> Seq(Handler)] /\ handlers[t] # <<>>
  BY DEF IInv, TypeOK, Handler, StopTest, At
<1>2. /\ UNCHANGED <<mpc, apc, server, status, raised, late>>
      /\ dangling' \in BOOLEAN /\ (dangling => dangling')
  BY DEF StopTest, Touch, IInv, TypeOK
<1>3. CASE server # "none" /\ status = "RUNNING" /\ GoOn(t, "mark")
  <2>1. mpc \notin {"init", "start", "listen", "run"}
    BY <1>3 DEF IInv, EarlyStatus
  <2>2. /\ handlers' \in [Threads -> Seq(Handler)]
        /\ \A u \in Threads : \A i \in DOMAIN handlers'[u] :
             /\ i \in DOMAIN handlers[u]
             /\ handlers'[u][i].at \in {handlers[u][i].at, "mark"}
    BY <1>1, <1>3, GoOnMovesOne
  <2>3. TypeOK'
    BY <1>2, <2>2 DEF IInv, TypeOK, Handler
  <2>4. EarlyHandlersTest'
    BY <1>2, <2>1, <2>2 DEF IInv, EarlyHandlersTest
  <2>5. EarlyStatus' /\ ServerExists' /\ SpawnedLate' /\ LateIsLast'
    BY <1>2 DEF IInv, EarlyStatus, ServerExists, SpawnedLate, LateIsLast
  <2> QED
    BY <2>3, <2>4, <2>5 DEF IInv
<1>4. CASE Resume(t)
  <2>1. /\ handlers' \in [Threads -> Seq(Handler)]
        /\ \A u \in Threads : \A i \in DOMAIN handlers'[u] :
             /\ i \in DOMAIN handlers[u]
             /\ handlers'[u][i] = handlers[u][i]
    BY <1>1, <1>4, ResumeDropsOne
  <2>2. TypeOK'
    BY <1>2, <2>1 DEF IInv, TypeOK, Handler
  <2>3. EarlyHandlersTest'
    BY <1>2, <2>1 DEF IInv, EarlyHandlersTest
  <2>4. EarlyStatus' /\ ServerExists' /\ SpawnedLate' /\ LateIsLast'
    BY <1>2 DEF IInv, EarlyStatus, ServerExists, SpawnedLate, LateIsLast
  <2> QED
    BY <2>2, <2>3, <2>4 DEF IInv
<1> QED
  BY <1>3, <1>4 DEF StopTest

\* Marking the server stopping keeps the invariant.
LEMMA StopMarkKeepsInv ==
    ASSUME IInv, NEW t \in Threads, StopMark(t)
    PROVE  IInv'
<1> USE DEF Places
<1>1. handlers \in [Threads -> Seq(Handler)] /\ handlers[t] # <<>>
  BY DEF IInv, TypeOK, Handler, StopMark, At
<1>2. /\ UNCHANGED <<mpc, apc, server, raised, late>>
      /\ status' = "SHUTTING_DOWN" /\ dangling' \in BOOLEAN /\ (dangling => dangling')
  BY DEF StopMark, Touch, IInv, TypeOK
<1>3. mpc \notin {"init", "start", "listen", "run", "exited"}
  BY LateHandler DEF StopMark
<1>4. /\ handlers' \in [Threads -> Seq(Handler)]
      /\ \A u \in Threads : \A i \in DOMAIN handlers'[u] :
           /\ i \in DOMAIN handlers[u]
           /\ handlers'[u][i].at \in {handlers[u][i].at, "shut"}
  BY <1>1, GoOnMovesOne DEF StopMark
<1>5. TypeOK'
  BY <1>2, <1>4 DEF IInv, TypeOK, Handler
<1>6. EarlyHandlersTest'
  BY <1>2, <1>3, <1>4 DEF IInv, EarlyHandlersTest
<1>7. EarlyStatus' /\ ServerExists' /\ SpawnedLate' /\ LateIsLast'
  BY <1>2, <1>3 DEF IInv, EarlyStatus, ServerExists, SpawnedLate, LateIsLast
<1> QED
  BY <1>5, <1>6, <1>7 DEF IInv

\* Shutting the listening socket down keeps the invariant.
LEMMA StopShutKeepsInv ==
    ASSUME IInv, NEW t \in Threads, StopShut(t)
    PROVE  IInv'
<1> USE DEF Places
<1>1. handlers \in [Threads -> Seq(Handler)] /\ handlers[t] # <<>>
  BY DEF IInv, TypeOK, Handler, StopShut, At
<1>2. /\ UNCHANGED <<mpc, apc, server, status, raised, late>>
      /\ dangling' \in BOOLEAN /\ (dangling => dangling')
  BY DEF StopShut, Touch, IInv, TypeOK
<1>3. mpc \notin {"init", "start", "listen", "run", "exited"}
  BY LateHandler DEF StopShut
<1>4. handlers' \in [Threads -> Seq(Handler)]
  BY <1>1, GoOnMovesOne DEF StopShut
<1>5. TypeOK'
  BY <1>2, <1>4 DEF IInv, TypeOK, Handler
<1>6. EarlyHandlersTest'
  BY <1>2, <1>3, <1>4 DEF IInv, EarlyHandlersTest
<1>7. EarlyStatus' /\ ServerExists' /\ SpawnedLate' /\ LateIsLast'
  BY <1>2, <1>3 DEF IInv, EarlyStatus, ServerExists, SpawnedLate, LateIsLast
<1> QED
  BY <1>5, <1>6, <1>7 DEF IInv

\* The end of a handler resumes what it interrupted.
LEMMA StopFinishKeepsInv ==
    ASSUME IInv, NEW t \in Threads, StopFinish(t)
    PROVE  IInv'
<1> USE DEF Places
<1>1. handlers \in [Threads -> Seq(Handler)] /\ handlers[t] # <<>>
  BY DEF IInv, TypeOK, Handler, StopFinish, At
<1>2. /\ UNCHANGED <<mpc, apc, server, raised, late>>
      /\ status' = "STOPPED" /\ dangling' \in BOOLEAN /\ (dangling => dangling')
  BY DEF StopFinish, Touch, IInv, TypeOK
<1>3. mpc \notin {"init", "start", "listen", "run", "exited"}
  BY LateHandler DEF StopFinish
<1>4. /\ handlers' \in [Threads -> Seq(Handler)]
      /\ \A u \in Threads : \A i \in DOMAIN handlers'[u] :
           /\ i \in DOMAIN handlers[u]
           /\ handlers'[u][i] = handlers[u][i]
  BY <1>1, ResumeDropsOne DEF StopFinish
<1>5. TypeOK'
  BY <1>2, <1>4 DEF IInv, TypeOK, Handler
<1>6. EarlyHandlersTest'
  BY <1>2, <1>3, <1>4 DEF IInv, EarlyHandlersTest
<1>7. EarlyStatus' /\ ServerExists' /\ SpawnedLate' /\ LateIsLast'
  BY <1>2, <1>3 DEF IInv, EarlyStatus, ServerExists, SpawnedLate, LateIsLast
<1> QED
  BY <1>5, <1>6, <1>7 DEF IInv

---------------------------------------------------------------------------
\* Every step of main, the acceptor and the handlers keeps the invariant.
LEMMA NextKeepsInv == IInv /\ [Next]_vars => IInv'
<1> SUFFICES ASSUME IInv, [Next]_vars PROVE IInv'
  OBVIOUS
<1>1. CASE Main
  BY <1>1, MainKeepsInv
<1>2. CASE Acceptor
  BY <1>2, AcceptorKeepsInv
<1>3. ASSUME NEW sig \in Signals, NEW t \in Threads, Raise(sig, t) PROVE IInv'
  BY <1>3, RaiseKeepsInv
<1>4. ASSUME NEW t \in Threads, Stop(t) PROVE IInv'
  BY <1>4, StopTestKeepsInv, StopMarkKeepsInv, StopShutKeepsInv, StopFinishKeepsInv DEF Stop
<1>5. CASE UNCHANGED vars
  <2>1. TypeOK'
    <3>1. handlers' = handlers /\ UNCHANGED <<mpc, apc, server, status, raised, dangling, late>>
      BY <1>5 DEF vars
    <3> QED
      BY <3>1 DEF IInv, TypeOK
  <2>2. EarlyHandlersTest'
    BY <1>5 DEF vars, IInv, EarlyHandlersTest
  <2>3. EarlyStatus' /\ ServerExists' /\ SpawnedLate' /\ LateIsLast'
    BY <1>5 DEF vars, IInv, EarlyStatus, ServerExists, SpawnedLate, LateIsLast
  <2> QED
    BY <2>1, <2>2, <2>3 DEF IInv
<1> QED
  BY <1>1, <1>2, <1>3, <1>4, <1>5 DEF Next

\* The strengthened invariant holds in every state.
THEOREM Invariance == Spec => []IInv
BY InitInv, NextKeepsInv, PTL DEF Spec

\* The variables of the server's life keep their types.
THEOREM TypeCorrect == Spec => []TypeOK
<1>1. IInv => TypeOK
  BY DEF IInv
<1> QED
  BY <1>1, Invariance, PTL

\* After a stop the acceptor (server.c:32-77) takes one more connection at
\* most, for any number of handlers on any threads.
THEOREM OneMoreConnection == Spec => []OneLateConnection
<1>1. IInv => OneLateConnection
  BY DEF IInv, LateIsLast, OneLateConnection
<1> QED
  BY <1>1, Invariance, PTL

\* No step of server_start (server.c:377) makes a server RUNNING again that a
\* handler has marked, though both write status without a lock.
THEOREM StopsAreFinal == Spec => StopIsFinal
<1>1. IInv /\ [Next]_vars =>
        [(status = "SHUTTING_DOWN" \/ status = "STOPPED") => status' # "RUNNING"]_vars
  <2> SUFFICES ASSUME IInv, Next, status \in {"SHUTTING_DOWN", "STOPPED"}
               PROVE  status' # "RUNNING"
    OBVIOUS
  <2>1. CASE Main
    BY <2>1 DEF Main, Create, StartBegin, Listen, ListenFails, Run, Spawn, SpawnFails,
       Leave, Destroy, Return, IInv, EarlyStatus
  <2>2. CASE Acceptor
    BY <2>2 DEF Acceptor, LoopTest, Accept, AcceptFails, Served
  <2>3. ASSUME NEW sig \in Signals, NEW t \in Threads, Raise(sig, t)
        PROVE  status' # "RUNNING"
    BY <2>3 DEF Raise
  <2>4. ASSUME NEW t \in Threads, Stop(t) PROVE status' # "RUNNING"
    BY <2>4 DEF Stop, StopTest, StopMark, StopShut, StopFinish
  <2> QED
    BY <2>1, <2>2, <2>3, <2>4 DEF Next
<1> QED
  BY <1>1, Invariance, PTL DEF Spec, StopIsFinal
=============================================================================
