----------------------- MODULE ClientConnectionProofs -----------------------
(***************************************************************************)
(* What holds of the client's connections for every number of clients,     *)
(* descriptors and retries.  The argument is the invariant IInv of module  *)
(* ClientConnection: a step changes one client and the one descriptor that *)
(* it holds, and DescriptorsOwned keeps the others' descriptors apart.     *)
(***************************************************************************)
EXTENDS ClientConnection, FiniteSetTheorems, TLAPS

\* Without clients and sockets everything holds.
LEMMA InitIInv == Init => IInv
<1> SUFFICES ASSUME Init PROVE IInv
  OBVIOUS
<1>1. ListTypeOK
  BY DEF Init, ListInit, ListTypeOK
<1>2. ClientTypeOK
  BY DEF Init, ClientTypeOK
<1>3. CallTypeOK
  BY RetriesAssumption DEF Init, CallTypeOK
<1>4. KernelTypeOK
  BY DEF Init, KernelTypeOK
<1>5. ListIsWhole /\ Absent /\ InCall /\ DescriptorsOwned
  BY DEF Init, ListInit, ListIsWhole, Absent, InCall, DescriptorsOwned, Holders
<1>6. StatusTellsSocket /\ BlockingUnlessRefused
  BY DEF Init, StatusTellsSocket, BlockingUnlessRefused, Holders
<1> QED
  BY <1>1, <1>2, <1>3, <1>4, <1>5, <1>6 DEF IInv, TypeOK

\* calloc returns a block that was not in use.
LEMMA FreshIsNew ==
    ASSUME ListTypeOK, heap # Systems
    PROVE  Fresh \in Systems /\ Fresh \notin heap
<1>1. \E s \in Systems : s \notin heap
  BY DEF ListTypeOK
<1> QED
  BY <1>1 DEF Fresh

\* The steps keep the types: of the list of commands,
LEMMA NextListTypeOK == IInv /\ [Next]_vars => ListTypeOK'
<1> SUFFICES ASSUME IInv, [Next]_vars PROVE ListTypeOK'
  OBVIOUS
<1> USE FreshIsNew DEF IInv, TypeOK, ListTypeOK
<1>1. ASSUME NEW c \in Clients, Create(c) PROVE ListTypeOK'
  BY <1>1 DEF Create, Allocate, clientVars, kernelVars
<1>2. ASSUME NEW c \in Clients, Disconnect(c) PROVE ListTypeOK'
  BY <1>2 DEF Disconnect, Close, Closes, listVars
<1>3. ASSUME NEW c \in Clients, Destroy(c) PROVE ListTypeOK'
  BY <1>3 DEF Destroy, Close, Closes, listVars, kernelVars
<1>4. ASSUME NEW c \in Clients, NEW cmd, Begin(c, cmd) PROVE ListTypeOK'
  BY <1>4 DEF Begin, Goto, listVars, kernelVars
<1>5. ASSUME NEW c \in Clients, NoConnection(c) PROVE ListTypeOK'
  BY <1>5 DEF NoConnection, Fail, Leave, Goto, listVars, kernelVars
<1>6. ASSUME NEW c \in Clients, OpenSocket(c) PROVE ListTypeOK'
  BY <1>6 DEF OpenSocket, Free, Goto, listVars
<1>7. ASSUME NEW c \in Clients, ConnectDone(c) PROVE ListTypeOK'
  BY <1>7 DEF ConnectDone, Trying, Restore, Succeed, Leave, Goto, listVars
<1>8. ASSUME NEW c \in Clients, ConnectPending(c) PROVE ListTypeOK'
  BY <1>8 DEF ConnectPending, Trying, Goto, listVars, clientVars
<1>9. ASSUME NEW c \in Clients, ConnectRefused(c) PROVE ListTypeOK'
  BY <1>9 DEF ConnectRefused, Trying, Goto, listVars, clientVars
<1>10. ASSUME NEW c \in Clients, ConnectCritical(c) PROVE ListTypeOK'
  BY <1>10 DEF ConnectCritical, Trying, Goto, listVars, clientVars, kernelVars
<1>11. ASSUME NEW c \in Clients, PollFails(c) PROVE ListTypeOK'
  BY <1>11 DEF PollFails, Goto, listVars, clientVars, kernelVars
<1>12. ASSUME NEW c \in Clients, PollDone(c) PROVE ListTypeOK'
  BY <1>12 DEF PollDone, Restore, Succeed, Leave, Goto, listVars
<1>13. ASSUME NEW c \in Clients, PollDenied(c) PROVE ListTypeOK'
  BY <1>13 DEF PollDenied, Fail, Leave, Goto, listVars
<1>14. ASSUME NEW c \in Clients, Retry(c) PROVE ListTypeOK'
  BY <1>14 DEF Retry, Goto, listVars, clientVars, kernelVars
<1>15. ASSUME NEW c \in Clients, GiveUp(c) PROVE ListTypeOK'
  BY <1>15 DEF GiveUp, Close, Fail, Leave, Goto, listVars
<1>16. ASSUME NEW d \in Descriptors, Network(d) PROVE ListTypeOK'
  BY <1>16 DEF Network, Turns, listVars, clientVars
<1>17. CASE ListNext
  BY <1>17
  DEF ListNext, GlobalInit, GlobalCleanup, Allocate, clientVars, kernelVars
<1>18. CASE UNCHANGED vars
  BY <1>18 DEF vars, listVars, clientVars, kernelVars
<1> QED
  BY <1>1, <1>2, <1>3, <1>4, <1>5, <1>6, <1>7, <1>8, <1>9, <1>10, <1>11, <1>12,
     <1>13, <1>14, <1>15, <1>16, <1>17, <1>18 DEF Next, Step

\* of the clients,
LEMMA NextClientTypeOK == IInv /\ [Next]_vars => ClientTypeOK'
<1> SUFFICES ASSUME IInv, [Next]_vars PROVE ClientTypeOK'
  OBVIOUS
<1> USE DEF IInv, TypeOK, ClientTypeOK
<1>1. ASSUME NEW c \in Clients, Create(c) PROVE ClientTypeOK'
  BY <1>1 DEF Create, Allocate, clientVars, kernelVars
<1>2. ASSUME NEW c \in Clients, Disconnect(c) PROVE ClientTypeOK'
  BY <1>2 DEF Disconnect, Close, Closes, listVars
<1>3. ASSUME NEW c \in Clients, Destroy(c) PROVE ClientTypeOK'
  BY <1>3 DEF Destroy, Close, Closes, listVars, kernelVars
<1>4. ASSUME NEW c \in Clients, NEW cmd, Begin(c, cmd) PROVE ClientTypeOK'
  BY <1>4 DEF Begin, Goto, listVars, kernelVars
<1>5. ASSUME NEW c \in Clients, NoConnection(c) PROVE ClientTypeOK'
  BY <1>5 DEF NoConnection, Fail, Leave, Goto, listVars, kernelVars
<1>6. ASSUME NEW c \in Clients, OpenSocket(c) PROVE ClientTypeOK'
  BY <1>6 DEF OpenSocket, Free, Goto, listVars
<1>7. ASSUME NEW c \in Clients, ConnectDone(c) PROVE ClientTypeOK'
  BY <1>7 DEF ConnectDone, Trying, Restore, Succeed, Leave, Goto, listVars
<1>8. ASSUME NEW c \in Clients, ConnectPending(c) PROVE ClientTypeOK'
  BY <1>8 DEF ConnectPending, Trying, Goto, listVars, clientVars
<1>9. ASSUME NEW c \in Clients, ConnectRefused(c) PROVE ClientTypeOK'
  BY <1>9 DEF ConnectRefused, Trying, Goto, listVars, clientVars
<1>10. ASSUME NEW c \in Clients, ConnectCritical(c) PROVE ClientTypeOK'
  BY <1>10 DEF ConnectCritical, Trying, Goto, listVars, clientVars, kernelVars
<1>11. ASSUME NEW c \in Clients, PollFails(c) PROVE ClientTypeOK'
  BY <1>11 DEF PollFails, Goto, listVars, clientVars, kernelVars
<1>12. ASSUME NEW c \in Clients, PollDone(c) PROVE ClientTypeOK'
  BY <1>12 DEF PollDone, Restore, Succeed, Leave, Goto, listVars
<1>13. ASSUME NEW c \in Clients, PollDenied(c) PROVE ClientTypeOK'
  BY <1>13 DEF PollDenied, Fail, Leave, Goto, listVars
<1>14. ASSUME NEW c \in Clients, Retry(c) PROVE ClientTypeOK'
  BY <1>14 DEF Retry, Goto, listVars, clientVars, kernelVars
<1>15. ASSUME NEW c \in Clients, GiveUp(c) PROVE ClientTypeOK'
  BY <1>15 DEF GiveUp, Close, Fail, Leave, Goto, listVars
<1>16. ASSUME NEW d \in Descriptors, Network(d) PROVE ClientTypeOK'
  BY <1>16 DEF Network, Turns, listVars, clientVars
<1>17. CASE ListNext
  BY <1>17
  DEF ListNext, GlobalInit, GlobalCleanup, Allocate, clientVars, kernelVars
<1>18. CASE UNCHANGED vars
  BY <1>18 DEF vars, listVars, clientVars, kernelVars
<1> QED
  BY <1>1, <1>2, <1>3, <1>4, <1>5, <1>6, <1>7, <1>8, <1>9, <1>10, <1>11, <1>12,
     <1>13, <1>14, <1>15, <1>16, <1>17, <1>18 DEF Next, Step

\* of the calls,
LEMMA NextCallTypeOK == IInv /\ [Next]_vars => CallTypeOK'
<1> SUFFICES ASSUME IInv, [Next]_vars PROVE CallTypeOK'
  OBVIOUS
<1> USE RetriesAssumption DEF IInv, TypeOK, CallTypeOK, InCall
<1>1. ASSUME NEW c \in Clients, Create(c) PROVE CallTypeOK'
  BY <1>1 DEF Create, Allocate, clientVars, kernelVars
<1>2. ASSUME NEW c \in Clients, Disconnect(c) PROVE CallTypeOK'
  BY <1>2 DEF Disconnect, Close, Closes, listVars
<1>3. ASSUME NEW c \in Clients, Destroy(c) PROVE CallTypeOK'
  BY <1>3 DEF Destroy, Close, Closes, listVars, kernelVars
<1>4. ASSUME NEW c \in Clients, NEW cmd, Begin(c, cmd) PROVE CallTypeOK'
  BY <1>4 DEF Begin, Goto, listVars, kernelVars
<1>5. ASSUME NEW c \in Clients, NoConnection(c) PROVE CallTypeOK'
  BY <1>5 DEF NoConnection, Fail, Leave, Goto, listVars, kernelVars
<1>6. ASSUME NEW c \in Clients, OpenSocket(c) PROVE CallTypeOK'
  BY <1>6 DEF OpenSocket, Free, Goto, listVars
<1>7. ASSUME NEW c \in Clients, ConnectDone(c) PROVE CallTypeOK'
  BY <1>7 DEF ConnectDone, Trying, Restore, Succeed, Leave, Goto, listVars
<1>8. ASSUME NEW c \in Clients, ConnectPending(c) PROVE CallTypeOK'
  BY <1>8 DEF ConnectPending, Trying, Goto, listVars, clientVars
<1>9. ASSUME NEW c \in Clients, ConnectRefused(c) PROVE CallTypeOK'
  BY <1>9 DEF ConnectRefused, Trying, Goto, listVars, clientVars
<1>10. ASSUME NEW c \in Clients, ConnectCritical(c) PROVE CallTypeOK'
  BY <1>10 DEF ConnectCritical, Trying, Goto, listVars, clientVars, kernelVars
<1>11. ASSUME NEW c \in Clients, PollFails(c) PROVE CallTypeOK'
  BY <1>11 DEF PollFails, Goto, listVars, clientVars, kernelVars
<1>12. ASSUME NEW c \in Clients, PollDone(c) PROVE CallTypeOK'
  BY <1>12 DEF PollDone, Restore, Succeed, Leave, Goto, listVars
<1>13. ASSUME NEW c \in Clients, PollDenied(c) PROVE CallTypeOK'
  BY <1>13 DEF PollDenied, Fail, Leave, Goto, listVars
<1>14. ASSUME NEW c \in Clients, Retry(c) PROVE CallTypeOK'
  BY <1>14 DEF Retry, Goto, listVars, clientVars, kernelVars
<1>15. ASSUME NEW c \in Clients, GiveUp(c) PROVE CallTypeOK'
  BY <1>15 DEF GiveUp, Close, Fail, Leave, Goto, listVars
<1>16. ASSUME NEW d \in Descriptors, Network(d) PROVE CallTypeOK'
  BY <1>16 DEF Network, Turns, listVars, clientVars
<1>17. CASE ListNext
  BY <1>17
  DEF ListNext, GlobalInit, GlobalCleanup, Allocate, clientVars, kernelVars
<1>18. CASE UNCHANGED vars
  BY <1>18 DEF vars, listVars, clientVars, kernelVars
<1> QED
  BY <1>1, <1>2, <1>3, <1>4, <1>5, <1>6, <1>7, <1>8, <1>9, <1>10, <1>11, <1>12,
     <1>13, <1>14, <1>15, <1>16, <1>17, <1>18 DEF Next, Step

\* and of the sockets.
LEMMA NextKernelTypeOK == IInv /\ [Next]_vars => KernelTypeOK'
<1> SUFFICES ASSUME IInv, [Next]_vars PROVE KernelTypeOK'
  OBVIOUS
<1> USE DEF IInv, TypeOK, KernelTypeOK, ClientTypeOK, InCall, Holders
<1>1. ASSUME NEW c \in Clients, Create(c) PROVE KernelTypeOK'
  BY <1>1 DEF Create, Allocate, clientVars, kernelVars
<1>2. ASSUME NEW c \in Clients, Disconnect(c) PROVE KernelTypeOK'
  BY <1>2 DEF Disconnect, Close, Closes, listVars
<1>3. ASSUME NEW c \in Clients, Destroy(c) PROVE KernelTypeOK'
  BY <1>3 DEF Destroy, Close, Closes, listVars, kernelVars
<1>4. ASSUME NEW c \in Clients, NEW cmd, Begin(c, cmd) PROVE KernelTypeOK'
  BY <1>4 DEF Begin, Goto, listVars, kernelVars
<1>5. ASSUME NEW c \in Clients, NoConnection(c) PROVE KernelTypeOK'
  BY <1>5 DEF NoConnection, Fail, Leave, Goto, listVars, kernelVars
<1>6. ASSUME NEW c \in Clients, OpenSocket(c) PROVE KernelTypeOK'
  BY <1>6 DEF OpenSocket, Free, Goto, listVars
<1>7. ASSUME NEW c \in Clients, ConnectDone(c) PROVE KernelTypeOK'
  BY <1>7 DEF ConnectDone, Trying, Restore, Succeed, Leave, Goto, listVars
<1>8. ASSUME NEW c \in Clients, ConnectPending(c) PROVE KernelTypeOK'
  BY <1>8 DEF ConnectPending, Trying, Goto, listVars, clientVars
<1>9. ASSUME NEW c \in Clients, ConnectRefused(c) PROVE KernelTypeOK'
  BY <1>9 DEF ConnectRefused, Trying, Goto, listVars, clientVars
<1>10. ASSUME NEW c \in Clients, ConnectCritical(c) PROVE KernelTypeOK'
  BY <1>10 DEF ConnectCritical, Trying, Goto, listVars, clientVars, kernelVars
<1>11. ASSUME NEW c \in Clients, PollFails(c) PROVE KernelTypeOK'
  BY <1>11 DEF PollFails, Goto, listVars, clientVars, kernelVars
<1>12. ASSUME NEW c \in Clients, PollDone(c) PROVE KernelTypeOK'
  BY <1>12 DEF PollDone, Restore, Succeed, Leave, Goto, listVars
<1>13. ASSUME NEW c \in Clients, PollDenied(c) PROVE KernelTypeOK'
  BY <1>13 DEF PollDenied, Fail, Leave, Goto, listVars
<1>14. ASSUME NEW c \in Clients, Retry(c) PROVE KernelTypeOK'
  BY <1>14 DEF Retry, Goto, listVars, clientVars, kernelVars
<1>15. ASSUME NEW c \in Clients, GiveUp(c) PROVE KernelTypeOK'
  BY <1>15 DEF GiveUp, Close, Fail, Leave, Goto, listVars
<1>16. ASSUME NEW d \in Descriptors, Network(d) PROVE KernelTypeOK'
  BY <1>16 DEF Network, Turns, listVars, clientVars
<1>17. CASE ListNext
  BY <1>17
  DEF ListNext, GlobalInit, GlobalCleanup, Allocate, clientVars, kernelVars
<1>18. CASE UNCHANGED vars
  BY <1>18 DEF vars, listVars, clientVars, kernelVars
<1> QED
  BY <1>1, <1>2, <1>3, <1>4, <1>5, <1>6, <1>7, <1>8, <1>9, <1>10, <1>11, <1>12,
     <1>13, <1>14, <1>15, <1>16, <1>17, <1>18 DEF Next, Step

\* The list is whole or empty after every step.
LEMMA NextListIsWhole == IInv /\ [Next]_vars => ListIsWhole'
<1> SUFFICES ASSUME IInv, [Next]_vars PROVE ListIsWhole'
  OBVIOUS
<1> USE FreshIsNew, SystemsAssumption DEF IInv, TypeOK, ListTypeOK, ListIsWhole
<1>1. ASSUME NEW c \in Clients, Create(c) PROVE ListIsWhole'
  BY <1>1 DEF Create, Allocate, clientVars, kernelVars
<1>2. ASSUME NEW c \in Clients, Disconnect(c) PROVE ListIsWhole'
  BY <1>2 DEF Disconnect, Close, Closes, listVars
<1>3. ASSUME NEW c \in Clients, Destroy(c) PROVE ListIsWhole'
  BY <1>3 DEF Destroy, Close, Closes, listVars, kernelVars
<1>4. ASSUME NEW c \in Clients, NEW cmd, Begin(c, cmd) PROVE ListIsWhole'
  BY <1>4 DEF Begin, Goto, listVars, kernelVars
<1>5. ASSUME NEW c \in Clients, NoConnection(c) PROVE ListIsWhole'
  BY <1>5 DEF NoConnection, Fail, Leave, Goto, listVars, kernelVars
<1>6. ASSUME NEW c \in Clients, OpenSocket(c) PROVE ListIsWhole'
  BY <1>6 DEF OpenSocket, Free, Goto, listVars
<1>7. ASSUME NEW c \in Clients, ConnectDone(c) PROVE ListIsWhole'
  BY <1>7 DEF ConnectDone, Trying, Restore, Succeed, Leave, Goto, listVars
<1>8. ASSUME NEW c \in Clients, ConnectPending(c) PROVE ListIsWhole'
  BY <1>8 DEF ConnectPending, Trying, Goto, listVars, clientVars
<1>9. ASSUME NEW c \in Clients, ConnectRefused(c) PROVE ListIsWhole'
  BY <1>9 DEF ConnectRefused, Trying, Goto, listVars, clientVars
<1>10. ASSUME NEW c \in Clients, ConnectCritical(c) PROVE ListIsWhole'
  BY <1>10 DEF ConnectCritical, Trying, Goto, listVars, clientVars, kernelVars
<1>11. ASSUME NEW c \in Clients, PollFails(c) PROVE ListIsWhole'
  BY <1>11 DEF PollFails, Goto, listVars, clientVars, kernelVars
<1>12. ASSUME NEW c \in Clients, PollDone(c) PROVE ListIsWhole'
  BY <1>12 DEF PollDone, Restore, Succeed, Leave, Goto, listVars
<1>13. ASSUME NEW c \in Clients, PollDenied(c) PROVE ListIsWhole'
  BY <1>13 DEF PollDenied, Fail, Leave, Goto, listVars
<1>14. ASSUME NEW c \in Clients, Retry(c) PROVE ListIsWhole'
  BY <1>14 DEF Retry, Goto, listVars, clientVars, kernelVars
<1>15. ASSUME NEW c \in Clients, GiveUp(c) PROVE ListIsWhole'
  BY <1>15 DEF GiveUp, Close, Fail, Leave, Goto, listVars
<1>16. ASSUME NEW d \in Descriptors, Network(d) PROVE ListIsWhole'
  BY <1>16 DEF Network, Turns, listVars, clientVars
<1>17. CASE ListNext
  BY <1>17
  DEF ListNext, GlobalInit, GlobalCleanup, Allocate, clientVars, kernelVars
<1>18. CASE UNCHANGED vars
  BY <1>18 DEF vars, listVars, clientVars, kernelVars
<1> QED
  BY <1>1, <1>2, <1>3, <1>4, <1>5, <1>6, <1>7, <1>8, <1>9, <1>10, <1>11, <1>12,
     <1>13, <1>14, <1>15, <1>16, <1>17, <1>18 DEF Next, Step

\* A client that does not exist takes part in nothing.
LEMMA NextAbsent == IInv /\ [Next]_vars => Absent'
<1> SUFFICES ASSUME IInv, [Next]_vars PROVE Absent'
  OBVIOUS
<1> USE DEF IInv, TypeOK, ClientTypeOK, CallTypeOK, Absent, InCall
<1>1. ASSUME NEW c \in Clients, Create(c) PROVE Absent'
  BY <1>1 DEF Create, Allocate, clientVars, kernelVars
<1>2. ASSUME NEW c \in Clients, Disconnect(c) PROVE Absent'
  BY <1>2 DEF Disconnect, Close, Closes, listVars
<1>3. ASSUME NEW c \in Clients, Destroy(c) PROVE Absent'
  BY <1>3 DEF Destroy, Close, Closes, listVars, kernelVars
<1>4. ASSUME NEW c \in Clients, NEW cmd, Begin(c, cmd) PROVE Absent'
  BY <1>4 DEF Begin, Goto, listVars, kernelVars
<1>5. ASSUME NEW c \in Clients, NoConnection(c) PROVE Absent'
  BY <1>5 DEF NoConnection, Fail, Leave, Goto, listVars, kernelVars
<1>6. ASSUME NEW c \in Clients, OpenSocket(c) PROVE Absent'
  BY <1>6 DEF OpenSocket, Free, Goto, listVars
<1>7. ASSUME NEW c \in Clients, ConnectDone(c) PROVE Absent'
  BY <1>7 DEF ConnectDone, Trying, Restore, Succeed, Leave, Goto, listVars
<1>8. ASSUME NEW c \in Clients, ConnectPending(c) PROVE Absent'
  BY <1>8 DEF ConnectPending, Trying, Goto, listVars, clientVars
<1>9. ASSUME NEW c \in Clients, ConnectRefused(c) PROVE Absent'
  BY <1>9 DEF ConnectRefused, Trying, Goto, listVars, clientVars
<1>10. ASSUME NEW c \in Clients, ConnectCritical(c) PROVE Absent'
  BY <1>10 DEF ConnectCritical, Trying, Goto, listVars, clientVars, kernelVars
<1>11. ASSUME NEW c \in Clients, PollFails(c) PROVE Absent'
  BY <1>11 DEF PollFails, Goto, listVars, clientVars, kernelVars
<1>12. ASSUME NEW c \in Clients, PollDone(c) PROVE Absent'
  BY <1>12 DEF PollDone, Restore, Succeed, Leave, Goto, listVars
<1>13. ASSUME NEW c \in Clients, PollDenied(c) PROVE Absent'
  BY <1>13 DEF PollDenied, Fail, Leave, Goto, listVars
<1>14. ASSUME NEW c \in Clients, Retry(c) PROVE Absent'
  BY <1>14 DEF Retry, Goto, listVars, clientVars, kernelVars
<1>15. ASSUME NEW c \in Clients, GiveUp(c) PROVE Absent'
  BY <1>15 DEF GiveUp, Close, Fail, Leave, Goto, listVars
<1>16. ASSUME NEW d \in Descriptors, Network(d) PROVE Absent'
  BY <1>16 DEF Network, Turns, listVars, clientVars
<1>17. CASE ListNext
  BY <1>17
  DEF ListNext, GlobalInit, GlobalCleanup, Allocate, clientVars, kernelVars
<1>18. CASE UNCHANGED vars
  BY <1>18 DEF vars, listVars, clientVars, kernelVars
<1> QED
  BY <1>1, <1>2, <1>3, <1>4, <1>5, <1>6, <1>7, <1>8, <1>9, <1>10, <1>11, <1>12,
     <1>13, <1>14, <1>15, <1>16, <1>17, <1>18 DEF Next, Step

\* A client in a call has what its place in the call needs.
LEMMA NextInCall == IInv /\ [Next]_vars => InCall'
<1> SUFFICES ASSUME IInv, [Next]_vars PROVE InCall'
  OBVIOUS
<1> USE RetriesAssumption, DescriptorsAssumption
  DEF IInv, StatusTellsSocket, TypeOK, ClientTypeOK, CallTypeOK, KernelTypeOK,
      Absent, InCall, Holders, DescriptorsOwned
<1>1. ASSUME NEW c \in Clients, Create(c) PROVE InCall'
  BY <1>1 DEF Create, Allocate, clientVars, kernelVars
<1>2. ASSUME NEW c \in Clients, Disconnect(c) PROVE InCall'
  BY <1>2 DEF Disconnect, Close, Closes, listVars
<1>3. ASSUME NEW c \in Clients, Destroy(c) PROVE InCall'
  BY <1>3 DEF Destroy, Close, Closes, listVars, kernelVars
<1>4. ASSUME NEW c \in Clients, NEW cmd, Begin(c, cmd) PROVE InCall'
  BY <1>4 DEF Begin, Goto, listVars, kernelVars
<1>5. ASSUME NEW c \in Clients, NoConnection(c) PROVE InCall'
  BY <1>5 DEF NoConnection, Fail, Leave, Goto, listVars, kernelVars
<1>6. ASSUME NEW c \in Clients, OpenSocket(c) PROVE InCall'
  BY <1>6 DEF OpenSocket, Free, Goto, listVars
<1>7. ASSUME NEW c \in Clients, ConnectDone(c) PROVE InCall'
  BY <1>7 DEF ConnectDone, Trying, Restore, Succeed, Leave, Goto, listVars
<1>8. ASSUME NEW c \in Clients, ConnectPending(c) PROVE InCall'
  BY <1>8 DEF ConnectPending, Trying, Goto, listVars, clientVars
<1>9. ASSUME NEW c \in Clients, ConnectRefused(c) PROVE InCall'
  BY <1>9 DEF ConnectRefused, Trying, Goto, listVars, clientVars
<1>10. ASSUME NEW c \in Clients, ConnectCritical(c) PROVE InCall'
  BY <1>10 DEF ConnectCritical, Trying, Goto, listVars, clientVars, kernelVars
<1>11. ASSUME NEW c \in Clients, PollFails(c) PROVE InCall'
  BY <1>11 DEF PollFails, Goto, listVars, clientVars, kernelVars
<1>12. ASSUME NEW c \in Clients, PollDone(c) PROVE InCall'
  BY <1>12 DEF PollDone, Restore, Succeed, Leave, Goto, listVars
<1>13. ASSUME NEW c \in Clients, PollDenied(c) PROVE InCall'
  BY <1>13 DEF PollDenied, Fail, Leave, Goto, listVars
<1>14. ASSUME NEW c \in Clients, Retry(c) PROVE InCall'
  BY <1>14 DEF Retry, Goto, listVars, clientVars, kernelVars
<1>15. ASSUME NEW c \in Clients, GiveUp(c) PROVE InCall'
  BY <1>15 DEF GiveUp, Close, Fail, Leave, Goto, listVars
<1>16. ASSUME NEW d \in Descriptors, Network(d) PROVE InCall'
  BY <1>16 DEF Network, Turns, listVars, clientVars
<1>17. CASE ListNext
  BY <1>17
  DEF ListNext, GlobalInit, GlobalCleanup, Allocate, clientVars, kernelVars
<1>18. CASE UNCHANGED vars
  BY <1>18 DEF vars, listVars, clientVars, kernelVars
<1> QED
  BY <1>1, <1>2, <1>3, <1>4, <1>5, <1>6, <1>7, <1>8, <1>9, <1>10, <1>11, <1>12,
     <1>13, <1>14, <1>15, <1>16, <1>17, <1>18 DEF Next, Step

\* A new socket is nobody else's, and a socket is closed by its only holder.
LEMMA NextDescriptorsOwned == IInv /\ [Next]_vars => DescriptorsOwned'
<1> SUFFICES ASSUME IInv, [Next]_vars PROVE DescriptorsOwned'
  OBVIOUS
<1> USE DescriptorsAssumption
  DEF IInv, StatusTellsSocket, TypeOK, ClientTypeOK, CallTypeOK, KernelTypeOK,
      Absent, InCall, Holders, DescriptorsOwned
<1>1. ASSUME NEW c \in Clients, Create(c) PROVE DescriptorsOwned'
  BY <1>1 DEF Create, Allocate, clientVars, kernelVars
<1>2. ASSUME NEW c \in Clients, Disconnect(c) PROVE DescriptorsOwned'
  BY <1>2 DEF Disconnect, Close, Closes, listVars
<1>3. ASSUME NEW c \in Clients, Destroy(c) PROVE DescriptorsOwned'
  BY <1>3 DEF Destroy, Close, Closes, listVars, kernelVars
<1>4. ASSUME NEW c \in Clients, NEW cmd, Begin(c, cmd) PROVE DescriptorsOwned'
  BY <1>4 DEF Begin, Goto, listVars, kernelVars
<1>5. ASSUME NEW c \in Clients, NoConnection(c) PROVE DescriptorsOwned'
  BY <1>5 DEF NoConnection, Fail, Leave, Goto, listVars, kernelVars
<1>6. ASSUME NEW c \in Clients, OpenSocket(c) PROVE DescriptorsOwned'
  BY <1>6 DEF OpenSocket, Free, Goto, listVars
<1>7. ASSUME NEW c \in Clients, ConnectDone(c) PROVE DescriptorsOwned'
  BY <1>7 DEF ConnectDone, Trying, Restore, Succeed, Leave, Goto, listVars
<1>8. ASSUME NEW c \in Clients, ConnectPending(c) PROVE DescriptorsOwned'
  BY <1>8 DEF ConnectPending, Trying, Goto, listVars, clientVars
<1>9. ASSUME NEW c \in Clients, ConnectRefused(c) PROVE DescriptorsOwned'
  BY <1>9 DEF ConnectRefused, Trying, Goto, listVars, clientVars
<1>10. ASSUME NEW c \in Clients, ConnectCritical(c) PROVE DescriptorsOwned'
  BY <1>10 DEF ConnectCritical, Trying, Goto, listVars, clientVars, kernelVars
<1>11. ASSUME NEW c \in Clients, PollFails(c) PROVE DescriptorsOwned'
  BY <1>11 DEF PollFails, Goto, listVars, clientVars, kernelVars
<1>12. ASSUME NEW c \in Clients, PollDone(c) PROVE DescriptorsOwned'
  BY <1>12 DEF PollDone, Restore, Succeed, Leave, Goto, listVars
<1>13. ASSUME NEW c \in Clients, PollDenied(c) PROVE DescriptorsOwned'
  BY <1>13 DEF PollDenied, Fail, Leave, Goto, listVars
<1>14. ASSUME NEW c \in Clients, Retry(c) PROVE DescriptorsOwned'
  BY <1>14 DEF Retry, Goto, listVars, clientVars, kernelVars
<1>15. ASSUME NEW c \in Clients, GiveUp(c) PROVE DescriptorsOwned'
  BY <1>15 DEF GiveUp, Close, Fail, Leave, Goto, listVars
<1>16. ASSUME NEW d \in Descriptors, Network(d) PROVE DescriptorsOwned'
  BY <1>16 DEF Network, Turns, listVars, clientVars
<1>17. CASE ListNext
  BY <1>17
  DEF ListNext, GlobalInit, GlobalCleanup, Allocate, clientVars, kernelVars
<1>18. CASE UNCHANGED vars
  BY <1>18 DEF vars, listVars, clientVars, kernelVars
<1> QED
  BY <1>1, <1>2, <1>3, <1>4, <1>5, <1>6, <1>7, <1>8, <1>9, <1>10, <1>11, <1>12,
     <1>13, <1>14, <1>15, <1>16, <1>17, <1>18 DEF Next, Step

\* A step that ends a call leaves a status that fits the socket, and the sockets of
\* other clients are left alone.
LEMMA NextStatusTellsSocket == IInv /\ [Next]_vars => StatusTellsSocket'
<1> SUFFICES ASSUME IInv, [Next]_vars PROVE StatusTellsSocket'
  OBVIOUS
<1> USE DescriptorsAssumption
  DEF IInv, StatusTellsSocket, TypeOK, ClientTypeOK, CallTypeOK, KernelTypeOK,
      Absent, InCall, Holders, DescriptorsOwned
<1>1. ASSUME NEW c \in Clients, Create(c) PROVE StatusTellsSocket'
  BY <1>1 DEF Create, Allocate, clientVars, kernelVars
<1>2. ASSUME NEW c \in Clients, Disconnect(c) PROVE StatusTellsSocket'
  BY <1>2 DEF Disconnect, Close, Closes, listVars
<1>3. ASSUME NEW c \in Clients, Destroy(c) PROVE StatusTellsSocket'
  BY <1>3 DEF Destroy, Close, Closes, listVars, kernelVars
<1>4. ASSUME NEW c \in Clients, NEW cmd, Begin(c, cmd) PROVE StatusTellsSocket'
  BY <1>4 DEF Begin, Goto, listVars, kernelVars
<1>5. ASSUME NEW c \in Clients, NoConnection(c) PROVE StatusTellsSocket'
  BY <1>5 DEF NoConnection, Fail, Leave, Goto, listVars, kernelVars
<1>6. ASSUME NEW c \in Clients, OpenSocket(c) PROVE StatusTellsSocket'
  BY <1>6 DEF OpenSocket, Free, Goto, listVars
<1>7. ASSUME NEW c \in Clients, ConnectDone(c) PROVE StatusTellsSocket'
  BY <1>7 DEF ConnectDone, Trying, Restore, Succeed, Leave, Goto, listVars
<1>8. ASSUME NEW c \in Clients, ConnectPending(c) PROVE StatusTellsSocket'
  BY <1>8 DEF ConnectPending, Trying, Goto, listVars, clientVars
<1>9. ASSUME NEW c \in Clients, ConnectRefused(c) PROVE StatusTellsSocket'
  BY <1>9 DEF ConnectRefused, Trying, Goto, listVars, clientVars
<1>10. ASSUME NEW c \in Clients, ConnectCritical(c) PROVE StatusTellsSocket'
  BY <1>10 DEF ConnectCritical, Trying, Goto, listVars, clientVars, kernelVars
<1>11. ASSUME NEW c \in Clients, PollFails(c) PROVE StatusTellsSocket'
  BY <1>11 DEF PollFails, Goto, listVars, clientVars, kernelVars
<1>12. ASSUME NEW c \in Clients, PollDone(c) PROVE StatusTellsSocket'
  BY <1>12 DEF PollDone, Restore, Succeed, Leave, Goto, listVars
<1>13. ASSUME NEW c \in Clients, PollDenied(c) PROVE StatusTellsSocket'
  BY <1>13 DEF PollDenied, Fail, Leave, Goto, listVars
<1>14. ASSUME NEW c \in Clients, Retry(c) PROVE StatusTellsSocket'
  BY <1>14 DEF Retry, Goto, listVars, clientVars, kernelVars
<1>15. ASSUME NEW c \in Clients, GiveUp(c) PROVE StatusTellsSocket'
  BY <1>15 DEF GiveUp, Close, Fail, Leave, Goto, listVars
<1>16. ASSUME NEW d \in Descriptors, Network(d) PROVE StatusTellsSocket'
  BY <1>16 DEF Network, Turns, listVars, clientVars
<1>17. CASE ListNext
  BY <1>17
  DEF ListNext, GlobalInit, GlobalCleanup, Allocate, clientVars, kernelVars
<1>18. CASE UNCHANGED vars
  BY <1>18 DEF vars, listVars, clientVars, kernelVars
<1> QED
  BY <1>1, <1>2, <1>3, <1>4, <1>5, <1>6, <1>7, <1>8, <1>9, <1>10, <1>11, <1>12,
     <1>13, <1>14, <1>15, <1>16, <1>17, <1>18 DEF Next, Step

\* Each way a connect succeeds goes through fcntl.
LEMMA NextBlockingUnlessRefused == IInv /\ [Next]_vars => BlockingUnlessRefused'
<1> SUFFICES ASSUME IInv, [Next]_vars PROVE BlockingUnlessRefused'
  OBVIOUS
<1> USE DescriptorsAssumption
  DEF IInv, StatusTellsSocket, BlockingUnlessRefused, TypeOK, ClientTypeOK,
      CallTypeOK, KernelTypeOK, Absent, InCall, Holders, DescriptorsOwned
<1>1. ASSUME NEW c \in Clients, Create(c) PROVE BlockingUnlessRefused'
  BY <1>1 DEF Create, Allocate, clientVars, kernelVars
<1>2. ASSUME NEW c \in Clients, Disconnect(c) PROVE BlockingUnlessRefused'
  BY <1>2 DEF Disconnect, Close, Closes, listVars
<1>3. ASSUME NEW c \in Clients, Destroy(c) PROVE BlockingUnlessRefused'
  BY <1>3 DEF Destroy, Close, Closes, listVars, kernelVars
<1>4. ASSUME NEW c \in Clients, NEW cmd, Begin(c, cmd) PROVE BlockingUnlessRefused'
  BY <1>4 DEF Begin, Goto, listVars, kernelVars
<1>5. ASSUME NEW c \in Clients, NoConnection(c) PROVE BlockingUnlessRefused'
  BY <1>5 DEF NoConnection, Fail, Leave, Goto, listVars, kernelVars
<1>6. ASSUME NEW c \in Clients, OpenSocket(c) PROVE BlockingUnlessRefused'
  BY <1>6 DEF OpenSocket, Free, Goto, listVars
<1>7. ASSUME NEW c \in Clients, ConnectDone(c) PROVE BlockingUnlessRefused'
  BY <1>7 DEF ConnectDone, Trying, Restore, Succeed, Leave, Goto, listVars
<1>8. ASSUME NEW c \in Clients, ConnectPending(c) PROVE BlockingUnlessRefused'
  BY <1>8 DEF ConnectPending, Trying, Goto, listVars, clientVars
<1>9. ASSUME NEW c \in Clients, ConnectRefused(c) PROVE BlockingUnlessRefused'
  BY <1>9 DEF ConnectRefused, Trying, Goto, listVars, clientVars
<1>10. ASSUME NEW c \in Clients, ConnectCritical(c) PROVE BlockingUnlessRefused'
  BY <1>10 DEF ConnectCritical, Trying, Goto, listVars, clientVars, kernelVars
<1>11. ASSUME NEW c \in Clients, PollFails(c) PROVE BlockingUnlessRefused'
  BY <1>11 DEF PollFails, Goto, listVars, clientVars, kernelVars
<1>12. ASSUME NEW c \in Clients, PollDone(c) PROVE BlockingUnlessRefused'
  BY <1>12 DEF PollDone, Restore, Succeed, Leave, Goto, listVars
<1>13. ASSUME NEW c \in Clients, PollDenied(c) PROVE BlockingUnlessRefused'
  BY <1>13 DEF PollDenied, Fail, Leave, Goto, listVars
<1>14. ASSUME NEW c \in Clients, Retry(c) PROVE BlockingUnlessRefused'
  BY <1>14 DEF Retry, Goto, listVars, clientVars, kernelVars
<1>15. ASSUME NEW c \in Clients, GiveUp(c) PROVE BlockingUnlessRefused'
  BY <1>15 DEF GiveUp, Close, Fail, Leave, Goto, listVars
<1>16. ASSUME NEW d \in Descriptors, Network(d) PROVE BlockingUnlessRefused'
  BY <1>16 DEF Network, Turns, listVars, clientVars
<1>17. CASE ListNext
  BY <1>17
  DEF ListNext, GlobalInit, GlobalCleanup, Allocate, clientVars, kernelVars
<1>18. CASE UNCHANGED vars
  BY <1>18 DEF vars, listVars, clientVars, kernelVars
<1> QED
  BY <1>1, <1>2, <1>3, <1>4, <1>5, <1>6, <1>7, <1>8, <1>9, <1>10, <1>11, <1>12,
     <1>13, <1>14, <1>15, <1>16, <1>17, <1>18 DEF Next, Step

\* So the invariant is inductive,
LEMMA NextIInv == IInv /\ [Next]_vars => IInv'
<1> SUFFICES ASSUME IInv, [Next]_vars PROVE IInv'
  OBVIOUS
<1>1. ListTypeOK' /\ ClientTypeOK' /\ CallTypeOK' /\ KernelTypeOK'
  BY NextListTypeOK, NextClientTypeOK, NextCallTypeOK, NextKernelTypeOK
<1>2. ListIsWhole' /\ Absent' /\ InCall'
  BY NextListIsWhole, NextAbsent, NextInCall
<1>3. DescriptorsOwned' /\ StatusTellsSocket' /\ BlockingUnlessRefused'
  BY NextDescriptorsOwned, NextStatusTellsSocket, NextBlockingUnlessRefused
<1> QED
  BY <1>1, <1>2, <1>3 DEF IInv, TypeOK

\* and it holds throughout.
THEOREM Invariance == Spec => []IInv
<1>1. Init => IInv
  BY InitIInv
<1>2. IInv /\ [Next]_vars => IInv'
  BY NextIInv
<1> QED
  BY <1>1, <1>2, PTL DEF Spec

\* The variables keep their types: no connect makes more than max_retries
\* attempts.
THEOREM TypeCorrect == Spec => []TypeOK
<1>1. IInv => TypeOK
  BY DEF IInv
<1> QED
  BY <1>1, Invariance, PTL

\* No client ever holds the socket of another or one that was closed, for any
\* number of clients that connect and disconnect at the same time.
THEOREM SocketsAreOwned == Spec => []DescriptorsOwned
<1>1. IInv => DescriptorsOwned
  BY DEF IInv
<1> QED
  BY <1>1, Invariance, PTL

\* Between calls the status fits the socket.
THEOREM StatusIsTrue == Spec => []StatusTellsSocket
<1>1. IInv => StatusTellsSocket
  BY DEF IInv
<1> QED
  BY <1>1, Invariance, PTL

\* Connected sockets block again unless fcntl refused.
THEOREM ConnectedSocketsBlock == Spec => []BlockingUnlessRefused
<1>1. IInv => BlockingUnlessRefused
  BY DEF IInv
<1> QED
  BY <1>1, Invariance, PTL

\* Through any order of initialisations and cleanups the list of commands is
\* whole or empty.
THEOREM ListStaysWhole == Spec => []ListIsWhole
<1>1. IInv => ListIsWhole
  BY DEF IInv
<1> QED
  BY <1>1, Invariance, PTL

---------------------------------------------------------------------------
(* What is lost, counted. *)

\* The open sockets, and the clients whose socket they are.
Open == Descriptors \ Free
Using == {c \in Holders : status[c] # "ERROR" /\ pc[c] # "socket"}

\* Both are finite.
LEMMA CountedAreFinite ==
    /\ IsFiniteSet(Open) /\ Cardinality(Open) \in Nat
    /\ IsFiniteSet(Using) /\ Cardinality(Using) \in Nat
<1>1. Open \in SUBSET Descriptors /\ Using \in SUBSET Clients
  BY DEF Open, Using, Holders
<1>2. IsFiniteSet(Open) /\ IsFiniteSet(Using)
  BY <1>1, DescriptorsAssumption, ClientsAssumption, FS_Subset
<1> QED
  BY <1>2, FS_CardinalityType

\* A step opens a socket for a client that had none, closes the one of a client,
\* is a denial, which parts a client from its socket, or changes neither set.
Opens(c) == \E d \in Descriptors : /\ d \notin Open /\ Open' = Open \cup {d}
                                   /\ c \notin Using /\ Using' = Using \cup {c}
Shuts(c) == \E d \in Open : /\ Open' = Open \ {d}
                            /\ c \in Using /\ Using' = Using \ {c}
Parts(c) == Open' = Open /\ c \in Using /\ Using' = Using \ {c}

\* Whatever is closed with its client's number forgotten.
LEMMA ClosingShuts ==
    ASSUME TypeOK, DescriptorsOwned, NEW c \in Using, Close(sock[c]), c \notin Using',
           \A e \in Clients \ {c} : /\ alive'[e] = alive[e] /\ sock'[e] = sock[e]
                                    /\ status'[e] = status[e] /\ pc'[e] = pc[e]
    PROVE  Shuts(c)
<1>1. c \in Holders /\ sock[c] \in Descriptors
  BY DEF Using, Holders, TypeOK, ClientTypeOK
<1>2. sock[c] \in Open
  BY <1>1 DEF Open, Free, DescriptorsOwned
<1>3. Open' = Open \ {sock[c]}
  BY <1>1 DEF Close, Open, Free, TypeOK, KernelTypeOK
<1>4. \A e \in Clients \ {c} : e \in Using' <=> e \in Using
  BY DEF Using, Holders
<1>5. Using' = Using \ {c}
  BY <1>4 DEF Using, Holders
<1> QED
  BY <1>2, <1>3, <1>5 DEF Shuts

\* The kinds of steps there are.
LEMMA StepsOfSockets ==
    ASSUME IInv, [Next]_vars
    PROVE  \/ Open' = Open /\ Using' = Using /\ denied' = denied
           \/ \E c \in Clients : denied' = denied /\ (Opens(c) \/ Shuts(c))
           \/ \E c \in Clients : denied' = denied + 1 /\ Parts(c)
<1> DEFINE Same == Open' = Open /\ Using' = Using /\ denied' = denied
<1>1. TypeOK /\ DescriptorsOwned /\ StatusTellsSocket /\ InCall /\ Absent
  BY DEF IInv
<1>2. ASSUME NEW c \in Clients, Create(c) PROVE Same
  <2>1. Open' = Open /\ denied' = denied
    BY <1>2 DEF Create, kernelVars, Open, Free
  <2>2. Using' = Using
    BY <1>1, <1>2 DEF Create, Using, Holders, Absent, TypeOK, ClientTypeOK
  <2> QED
    BY <2>1, <2>2
<1>3. ASSUME NEW c \in Clients, Disconnect(c) PROVE denied' = denied /\ Shuts(c)
  <2>1. c \in Using /\ Close(sock[c]) /\ denied' = denied
    BY <1>1, <1>3 DEF Disconnect, Closes, Using, StatusTellsSocket
  <2>2. c \notin Using'
    BY <1>1, <1>3 DEF Disconnect, Using, Holders, TypeOK, ClientTypeOK
  <2>3. \A e \in Clients \ {c} : /\ alive'[e] = alive[e] /\ sock'[e] = sock[e]
                                 /\ status'[e] = status[e] /\ pc'[e] = pc[e]
    BY <1>1, <1>3 DEF Disconnect, TypeOK, ClientTypeOK
  <2> QED
    BY <1>1, <2>1, <2>2, <2>3, ClosingShuts
<1>4. ASSUME NEW c \in Clients, Destroy(c) PROVE Same \/ (denied' = denied /\ Shuts(c))
  <2>1. /\ alive[c] /\ pc[c] = "idle" /\ denied' = denied /\ pc' = pc
        /\ alive' = [alive EXCEPT ![c] = FALSE]
        /\ status' = [status EXCEPT ![c] = "DISCONNECTED"]
        /\ sock' = [sock EXCEPT ![c] = NoSocket]
    BY <1>4 DEF Destroy
  <2>2. /\ c \notin Using'
        /\ \A e \in Clients \ {c} : /\ alive'[e] = alive[e] /\ sock'[e] = sock[e]
                                    /\ status'[e] = status[e] /\ pc'[e] = pc[e]
    BY <1>1, <2>1 DEF Using, Holders, TypeOK, ClientTypeOK
  <2>3. CASE Closes(c)
    <3>1. c \in Using /\ Close(sock[c])
      BY <1>1, <1>4, <2>1, <2>3 DEF Destroy, Closes, Using, StatusTellsSocket
    <3> QED
      BY <1>1, <2>1, <2>2, <3>1, ClosingShuts
  <2>4. CASE ~Closes(c)
    <3>1. c \notin Using
      BY <1>1, <2>1, <2>4 DEF Closes, Using, StatusTellsSocket, Holders
    <3>2. Open' = Open
      BY <1>4, <2>4 DEF Destroy, kernelVars, Open, Free
    <3>3. Using' = Using
      BY <2>2, <3>1 DEF Using, Holders
    <3> QED
      BY <2>1, <3>2, <3>3
  <2> QED
    BY <2>3, <2>4
<1>5. ASSUME NEW c \in Clients, NEW cmd \in {"SET", "OTHER"}, Begin(c, cmd) PROVE Same
  <2>1. Open' = Open /\ denied' = denied
    BY <1>5 DEF Begin, kernelVars, Open, Free
  <2>2. c \notin Using /\ c \notin Using'
    BY <1>1, <1>5 DEF Begin, Goto, Using, Holders, StatusTellsSocket, TypeOK, CallTypeOK
  <2>3. \A e \in Clients \ {c} : e \in Using' <=> e \in Using
    BY <1>1, <1>5 DEF Begin, Goto, Using, Holders, TypeOK, ClientTypeOK, CallTypeOK
  <2> QED
    BY <2>1, <2>2, <2>3 DEF Using, Holders
<1>6. ASSUME NEW c \in Clients, NoConnection(c) PROVE Same
  <2>1. Open' = Open /\ denied' = denied
    BY <1>6 DEF NoConnection, kernelVars, Open, Free
  <2>2. c \notin Using /\ c \notin Using'
    BY <1>1, <1>6 DEF NoConnection, Fail, Using, Holders, TypeOK, ClientTypeOK
  <2>3. \A e \in Clients \ {c} : e \in Using' <=> e \in Using
    BY <1>1, <1>6 DEF NoConnection, Fail, Leave, Goto, Using, Holders, TypeOK,
       ClientTypeOK, CallTypeOK
  <2> QED
    BY <2>1, <2>2, <2>3 DEF Using, Holders
<1>7. ASSUME NEW c \in Clients, OpenSocket(c) PROVE denied' = denied /\ Opens(c)
  <2>1. PICK d \in Free : sock' = [sock EXCEPT ![c] = d] /\ tcp' = [tcp EXCEPT ![d] = "idle"]
    BY <1>7 DEF OpenSocket
  <2>2. d \in Descriptors /\ d \notin Open /\ Open' = Open \cup {d}
    BY <1>1, <2>1 DEF Open, Free, TypeOK, KernelTypeOK
  <2>3. pc[c] = "socket" /\ pc' = [pc EXCEPT ![c] = "connect"]
        /\ UNCHANGED <<alive, status, denied>>
    BY <1>7 DEF OpenSocket, Goto
  <2>4. c \notin Using /\ alive[c] /\ status[c] = "CONNECTING"
    BY <1>1, <2>3 DEF Using, InCall
  <2>5. sock'[c] = d /\ d # NoSocket /\ pc'[c] = "connect"
    BY <1>1, <2>1, <2>2, <2>3, DescriptorsAssumption DEF TypeOK, ClientTypeOK, CallTypeOK
  <2>6. c \in Using'
    BY <2>3, <2>4, <2>5 DEF Using, Holders
  <2>7. \A e \in Clients \ {c} : e \in Using' <=> e \in Using
    BY <1>1, <2>1, <2>3 DEF Using, Holders, TypeOK, ClientTypeOK, CallTypeOK
  <2>8. Using' = Using \cup {c}
    BY <2>6, <2>7 DEF Using, Holders
  <2> QED
    BY <2>2, <2>3, <2>4, <2>8 DEF Opens
<1>8. ASSUME NEW c \in Clients, ConnectDone(c) \/ PollDone(c) PROVE Same
  <2>1. /\ pc[c] \in {"connect", "poll"} /\ tcp[sock[c]] # "free"
        /\ tcp' = [tcp EXCEPT ![sock[c]] = "established"] \/ UNCHANGED tcp
        /\ status' = [status EXCEPT ![c] = "CONNECTED"] /\ pc' = [pc EXCEPT ![c] = "idle"]
        /\ UNCHANGED <<alive, sock, denied>>
    BY <1>1, <1>8 DEF ConnectDone, PollDone, Trying, Succeed, Leave, Goto
  <2>2. c \in Holders /\ sock[c] \in Descriptors /\ status[c] = "CONNECTING"
    BY <1>1, <2>1 DEF InCall, Holders, TypeOK, ClientTypeOK
  <2>3. Open' = Open
    BY <1>1, <2>1, <2>2 DEF Open, Free, TypeOK, KernelTypeOK
  <2>4. c \in Using /\ c \in Using'
    BY <1>1, <2>1, <2>2 DEF Using, Holders, TypeOK, ClientTypeOK, CallTypeOK
  <2>5. \A e \in Clients \ {c} : e \in Using' <=> e \in Using
    BY <1>1, <2>1 DEF Using, Holders, TypeOK, ClientTypeOK, CallTypeOK
  <2> QED
    BY <2>1, <2>3, <2>4, <2>5 DEF Using, Holders
<1>9. ASSUME NEW c \in Clients,
             \/ ConnectPending(c) \/ ConnectRefused(c) \/ ConnectCritical(c)
             \/ PollFails(c) \/ Retry(c)
      PROVE  Same
  <2>1. /\ pc[c] \in {"connect", "poll", "retry"}
        /\ \E label \in {"poll", "retry", "close", "connect"} :
              pc' = [pc EXCEPT ![c] = label]
        /\ UNCHANGED <<alive, sock, status, denied>>
    BY <1>9 DEF ConnectPending, ConnectRefused, ConnectCritical, PollFails, Retry,
       Trying, Goto, clientVars
  <2>2. \/ UNCHANGED tcp
        \/ /\ tcp[sock[c]] # "free"
           /\ \E to \in {"connecting", "idle"} : tcp' = [tcp EXCEPT ![sock[c]] = to]
    BY <1>9 DEF ConnectPending, ConnectRefused, ConnectCritical, PollFails, Retry,
       kernelVars
  <2>3. Open' = Open
    BY <1>1, <2>2 DEF Open, Free, TypeOK, KernelTypeOK
  <2>4. \A e \in Clients : pc'[e] = "socket" <=> pc[e] = "socket"
    BY <1>1, <2>1 DEF TypeOK, CallTypeOK
  <2> QED
    BY <2>1, <2>3, <2>4 DEF Using, Holders
<1>10. ASSUME NEW c \in Clients, PollDenied(c) PROVE denied' = denied + 1 /\ Parts(c)
  <2>1. /\ pc[c] = "poll" /\ denied' = denied + 1
        /\ status' = [status EXCEPT ![c] = "ERROR"] /\ pc' = [pc EXCEPT ![c] = "idle"]
        /\ UNCHANGED <<alive, sock, tcp>>
    BY <1>10 DEF PollDenied, Fail, Leave, Goto
  <2>2. c \in Using
    BY <1>1, <2>1 DEF InCall, Using
  <2>3. c \notin Using' /\ Open' = Open
    BY <1>1, <2>1 DEF Using, Open, Free, TypeOK, ClientTypeOK
  <2>4. \A e \in Clients \ {c} : e \in Using' <=> e \in Using
    BY <1>1, <2>1 DEF Using, Holders, TypeOK, ClientTypeOK, CallTypeOK
  <2>5. Using' = Using \ {c}
    BY <2>3, <2>4 DEF Using, Holders
  <2> QED
    BY <2>1, <2>2, <2>3, <2>5 DEF Parts
<1>11. ASSUME NEW c \in Clients, GiveUp(c) PROVE denied' = denied /\ Shuts(c)
  <2>1. /\ pc[c] \in {"close", "connect"} /\ Close(sock[c])
        /\ sock' = [sock EXCEPT ![c] = NoSocket]
        /\ status' = [status EXCEPT ![c] = "ERROR"] /\ pc' = [pc EXCEPT ![c] = "idle"]
        /\ UNCHANGED <<alive, denied>>
    BY <1>11 DEF GiveUp, Fail, Leave, Goto
  <2>2. c \in Using
    BY <1>1, <2>1 DEF InCall, Using
  <2>3. /\ c \notin Using'
        /\ \A e \in Clients \ {c} : /\ alive'[e] = alive[e] /\ sock'[e] = sock[e]
                                    /\ status'[e] = status[e] /\ pc'[e] = pc[e]
    BY <1>1, <2>1 DEF Using, Holders, TypeOK, ClientTypeOK, CallTypeOK
  <2> QED
    BY <1>1, <2>1, <2>2, <2>3, ClosingShuts
<1>12. ASSUME NEW d \in Descriptors, Network(d) PROVE Same
  <2>1. /\ tcp[d] # "free"
        /\ \E to \in {"established", "failed", "reset"} : tcp' = [tcp EXCEPT ![d] = to]
        /\ UNCHANGED <<alive, sock, status, pc, denied>>
    BY <1>12 DEF Network, Turns, clientVars
  <2>2. Open' = Open
    BY <1>1, <2>1 DEF Open, Free, TypeOK, KernelTypeOK
  <2> QED
    BY <2>1, <2>2 DEF Using, Holders
<1>13. ASSUME ListNext \/ UNCHANGED vars PROVE Same
  <2>1. UNCHANGED <<alive, sock, status, pc, tcp, denied>>
    BY <1>13 DEF ListNext, vars, clientVars, kernelVars
  <2> QED
    BY <2>1 DEF Open, Free, Using, Holders
<1> HIDE DEF Same
<1>14. CASE \E c \in Clients : Step(c)
  <2>1. PICK c \in Clients : Step(c)
    BY <1>14
  <2>2. \/ Same
        \/ denied' = denied /\ (Opens(c) \/ Shuts(c))
        \/ denied' = denied + 1 /\ Parts(c)
    BY <2>1, <1>6, <1>7, <1>8, <1>9, <1>10, <1>11 DEF Step
  <2> QED
    BY <2>2 DEF Same
<1>15. CASE ~\E c \in Clients : Step(c)
  <2>1. \/ Same
        \/ \E c \in Clients : Create(c) \/ Disconnect(c) \/ Destroy(c)
    BY <1>5, <1>12, <1>13, <1>15 DEF Next
  <2>2. Same \/ (\E c \in Clients : denied' = denied /\ Shuts(c))
    BY <2>1, <1>2, <1>3, <1>4
  <2> QED
    BY <2>2 DEF Same
<1> QED
  BY <1>14, <1>15

\* As many sockets are open as are in use, and one for each denial.
LEMMA NextOnlyDenialsLeak == IInv /\ OnlyDenialsLeak /\ [Next]_vars => OnlyDenialsLeak'
<1> SUFFICES ASSUME IInv, OnlyDenialsLeak, [Next]_vars PROVE OnlyDenialsLeak'
  OBVIOUS
<1>1. Cardinality(Open) = Cardinality(Using) + denied /\ denied \in Nat
  BY DEF OnlyDenialsLeak, Open, Using, IInv, TypeOK, CallTypeOK
<1>2. Cardinality(Open') = Cardinality(Using') + denied'
  <2>1. CASE Open' = Open /\ Using' = Using /\ denied' = denied
    BY <1>1, <2>1
  <2>2. ASSUME NEW c \in Clients, denied' = denied, Opens(c)
        PROVE  Cardinality(Open') = Cardinality(Using') + denied'
    <3>1. /\ Cardinality(Open') = Cardinality(Open) + 1
          /\ Cardinality(Using') = Cardinality(Using) + 1
      BY <2>2, CountedAreFinite, FS_AddElement DEF Opens
    <3> QED
      BY <1>1, <2>2, <3>1, CountedAreFinite
  <2>3. ASSUME NEW c \in Clients, denied' = denied, Shuts(c)
        PROVE  Cardinality(Open') = Cardinality(Using') + denied'
    <3>1. /\ Cardinality(Open') = Cardinality(Open) - 1
          /\ Cardinality(Using') = Cardinality(Using) - 1
      BY <2>3, CountedAreFinite, FS_RemoveElement DEF Shuts
    <3> QED
      BY <1>1, <2>3, <3>1, CountedAreFinite
  <2>4. ASSUME NEW c \in Clients, denied' = denied + 1, Parts(c)
        PROVE  Cardinality(Open') = Cardinality(Using') + denied'
    <3>1. Open' = Open /\ Cardinality(Using') = Cardinality(Using) - 1
      BY <2>4, CountedAreFinite, FS_RemoveElement DEF Parts
    <3> QED
      BY <1>1, <2>4, <3>1, CountedAreFinite
  <2> QED
    BY <2>1, <2>2, <2>3, <2>4, StepsOfSockets
<1> QED
  BY <1>2 DEF OnlyDenialsLeak, Open, Using

\* Sockets are lost by nothing but a refused fcntl after a poll that succeeded.
THEOREM SocketsLeakByDenialOnly == Spec => []OnlyDenialsLeak
<1>1. Init => OnlyDenialsLeak
  <2> SUFFICES ASSUME Init PROVE OnlyDenialsLeak
    OBVIOUS
  <2>1. Open = {} /\ Using = {} /\ denied = 0
    BY DEF Init, Open, Free, Using, Holders
  <2> QED
    BY <2>1, FS_EmptySet DEF OnlyDenialsLeak, Open, Using
<1> QED
  BY <1>1, NextOnlyDenialsLeak, Invariance, PTL DEF Spec

\* The systems of commands in use and lost.
LEMMA NextOnlyDestroyLeaks == IInv /\ OnlyDestroyLeaks /\ [Next]_vars => OnlyDestroyLeaks'
<1> SUFFICES ASSUME IInv, OnlyDestroyLeaks, [Next]_vars PROVE OnlyDestroyLeaks'
  OBVIOUS
<1> DEFINE Living == {c \in Clients : alive[c]}
           own == {globalSystem} \ {NoSystem}
<1>1. ListTypeOK /\ ListIsWhole /\ alive \in [Clients -> BOOLEAN] /\ orphans \in Nat
  BY DEF IInv, TypeOK, ClientTypeOK, CallTypeOK
<1>2. /\ IsFiniteSet(heap) /\ Cardinality(heap) \in Nat
      /\ IsFiniteSet(Living) /\ Cardinality(Living) \in Nat
  <2>1. heap \in SUBSET Systems /\ Living \in SUBSET Clients
    BY <1>1 DEF ListTypeOK
  <2>2. IsFiniteSet(heap) /\ IsFiniteSet(Living)
    BY <2>1, SystemsAssumption, ClientsAssumption, FS_Subset
  <2> QED
    BY <2>2, FS_CardinalityType
<1>3. /\ Cardinality(own) \in Nat
      /\ globalSystem = NoSystem => Cardinality(own) = 0
      /\ globalSystem # NoSystem => Cardinality(own) = 1
  <2>1. CASE globalSystem = NoSystem
    <3>1. own = {}
      BY <2>1
    <3> QED
      BY <2>1, <3>1, FS_EmptySet
  <2>2. CASE globalSystem # NoSystem
    <3>1. own = {globalSystem}
      BY <2>2
    <3> QED
      BY <2>2, <3>1, FS_Singleton
  <2> QED
    BY <2>1, <2>2
<1>4. /\ Cardinality(own') \in Nat
      /\ globalSystem' = NoSystem => Cardinality(own') = 0
      /\ globalSystem' # NoSystem => Cardinality(own') = 1
  <2>1. CASE globalSystem' = NoSystem
    <3>1. own' = {}
      BY <2>1
    <3> QED
      BY <2>1, <3>1, FS_EmptySet
  <2>2. CASE globalSystem' # NoSystem
    <3>1. own' = {globalSystem'}
      BY <2>2
    <3> QED
      BY <2>2, <3>1, FS_Singleton
  <2> QED
    BY <2>1, <2>2
<1> DEFINE Counts == Cardinality(heap) = Cardinality(Living) + orphans + Cardinality(own)
<1>5. Counts
  BY DEF OnlyDestroyLeaks
<1>6. ASSUME Allocate PROVE Cardinality(heap') = Cardinality(heap) + 1
  BY <1>1, <1>2, <1>6, FreshIsNew, FS_AddElement DEF Allocate
<1> HIDE DEF own
<1>7. ASSUME NEW c \in Clients, Create(c) PROVE Counts'
  <2>1. /\ Cardinality(heap') = Cardinality(heap) + 1 /\ ~alive[c] /\ own' = own
        /\ \/ alive' = [alive EXCEPT ![c] = TRUE] /\ orphans' = orphans
           \/ orphans' = orphans + 1 /\ alive' = alive
    BY <1>6, <1>7 DEF Create, own
  <2>2. CASE alive' = [alive EXCEPT ![c] = TRUE] /\ orphans' = orphans
    <3>1. Living' = Living \cup {c} /\ c \notin Living
      BY <1>1, <2>1, <2>2
    <3>2. Cardinality(Living') = Cardinality(Living) + 1
      BY <1>2, <3>1, FS_AddElement
    <3> HIDE DEF Living
    <3> QED
      BY <1>1, <1>2, <1>3, <1>5, <2>1, <2>2, <3>2
  <2>3. CASE orphans' = orphans + 1 /\ alive' = alive
    <3>1. Living' = Living
      BY <2>3
    <3> HIDE DEF Living
    <3> QED
      BY <1>1, <1>2, <1>3, <1>5, <2>1, <2>3, <3>1
  <2> QED
    BY <2>1, <2>2, <2>3
<1>8. ASSUME NEW c \in Clients, Destroy(c) PROVE Counts'
  <2>1. /\ alive[c] /\ alive' = [alive EXCEPT ![c] = FALSE] /\ orphans' = orphans + 1
        /\ heap' = heap /\ own' = own
    BY <1>8 DEF Destroy, listVars, own
  <2>2. Living' = Living \ {c} /\ c \in Living
    BY <1>1, <2>1
  <2>3. Cardinality(Living') = Cardinality(Living) - 1
    BY <1>2, <2>2, FS_RemoveElement
  <2> HIDE DEF Living
  <2> QED
    BY <1>1, <1>2, <1>3, <1>5, <2>1, <2>3
<1>9. ASSUME ListNext PROVE Counts'
  <2>1. Living' = Living /\ orphans' = orphans
    BY <1>9 DEF ListNext, clientVars
  <2>2. CASE GlobalInit
    <3>1. Cardinality(heap') = Cardinality(heap) + 1
      BY <1>6, <2>2 DEF GlobalInit
    <3>2. globalSystem = NoSystem /\ globalSystem' # NoSystem
      BY <1>1, <2>2, FreshIsNew, SystemsAssumption DEF GlobalInit, Allocate, ListIsWhole
    <3> HIDE DEF Living
    <3> QED
      BY <1>1, <1>2, <1>3, <1>4, <1>5, <2>1, <3>1, <3>2
  <2>3. CASE GlobalCleanup
    <3>1. globalSystem \in heap /\ globalSystem # NoSystem
      BY <1>1, <2>3 DEF GlobalCleanup, ListIsWhole
    <3>2. Cardinality(heap') = Cardinality(heap) - 1 /\ globalSystem' = NoSystem
      BY <1>2, <2>3, <3>1, FS_RemoveElement DEF GlobalCleanup
    <3> HIDE DEF Living
    <3> QED
      BY <1>1, <1>2, <1>3, <1>4, <1>5, <2>1, <3>1, <3>2
  <2> QED
    BY <1>9, <2>2, <2>3 DEF ListNext
<1>10. ASSUME UNCHANGED <<alive, heap, globalSystem, orphans>> PROVE Counts'
  BY <1>5, <1>10 DEF own
<1>11. ASSUME \/ UNCHANGED vars
              \/ \E c \in Clients : \/ Disconnect(c) \/ Step(c)
                                    \/ \E cmd \in {"SET", "OTHER"} : Begin(c, cmd)
              \/ \E d \in Descriptors : Network(d)
       PROVE  UNCHANGED <<alive, heap, globalSystem, orphans>>
  <2>1. ASSUME NEW c \in Clients, Step(c)
        PROVE  UNCHANGED <<alive, heap, globalSystem, orphans>>
    BY <2>1 DEF Step, NoConnection, OpenSocket, ConnectDone, ConnectPending,
       ConnectRefused, ConnectCritical, PollFails, PollDone, PollDenied, Retry, GiveUp,
       Fail, Succeed, clientVars, listVars
  <2>2. ASSUME NEW c \in Clients, Disconnect(c) \/ \E cmd \in {"SET", "OTHER"} : Begin(c, cmd)
        PROVE  UNCHANGED <<alive, heap, globalSystem, orphans>>
    BY <2>2 DEF Disconnect, Begin, listVars
  <2>3. ASSUME NEW d \in Descriptors, Network(d)
        PROVE  UNCHANGED <<alive, heap, globalSystem, orphans>>
    BY <2>3 DEF Network, Turns, clientVars, listVars
  <2>4. CASE UNCHANGED vars
    BY <2>4 DEF vars, clientVars, listVars
  <2> QED
    BY <1>11, <2>1, <2>2, <2>3, <2>4
<1>12. Counts'
  <2> HIDE DEF Counts
  <2> QED
    BY <1>7, <1>8, <1>9, <1>10, <1>11 DEF Next
<1> QED
  BY <1>12 DEF OnlyDestroyLeaks, own

\* Command systems are lost by client_destroy and a failing mutex only.
THEOREM SystemsLeakByDestroyOnly == Spec => []OnlyDestroyLeaks
<1>1. Init => OnlyDestroyLeaks
  <2> SUFFICES ASSUME Init PROVE OnlyDestroyLeaks
    OBVIOUS
  <2>1. heap = {} /\ {c \in Clients : alive[c]} = {} /\ {globalSystem} \ {NoSystem} = {}
        /\ orphans = 0
    BY DEF Init, ListInit
  <2> QED
    BY <2>1, FS_EmptySet DEF OnlyDestroyLeaks
<1> QED
  BY <1>1, NextOnlyDestroyLeaks, Invariance, PTL DEF Spec

---------------------------------------------------------------------------
(* To its caller a connect is one step. *)

\* The calls are counted by a natural number, of a finite set.
LEMMA CallsFinite ==
    IsFiniteSet(Calls) /\ Cardinality(Calls) \in Nat
<1>1. Calls \subseteq Clients
  BY DEF Calls
<1>2. IsFiniteSet(Calls)
  BY <1>1, ClientsAssumption, FS_Subset
<1> QED
  BY <1>2, FS_CardinalityType

\* A call that begins is one more, a call that returns is one less.
LEMMA CallsChange ==
    ASSUME CallTypeOK, NEW c \in Clients, NEW label, Goto(c, label)
    PROVE  /\ pc[c] = "idle" /\ label # "idle" =>
                 Cardinality(Calls') = Cardinality(Calls) + 1
           /\ pc[c] # "idle" /\ label = "idle" =>
                 Cardinality(Calls') = Cardinality(Calls) - 1
           /\ pc[c] # "idle" /\ label # "idle" => Calls' = Calls
<1>1. ASSUME pc[c] = "idle", label # "idle"
      PROVE  Cardinality(Calls') = Cardinality(Calls) + 1
  <2>1. Calls' = Calls \cup {c} /\ c \notin Calls
    BY <1>1 DEF Calls, Goto, CallTypeOK
  <2> QED
    BY <2>1, CallsFinite, FS_AddElement
<1>2. ASSUME pc[c] # "idle", label = "idle"
      PROVE  Cardinality(Calls') = Cardinality(Calls) - 1
  <2>1. Calls' = Calls \ {c} /\ c \in Calls
    BY <1>2 DEF Calls, Goto, CallTypeOK
  <2> QED
    BY <2>1, CallsFinite, FS_RemoveElement
<1>3. ASSUME pc[c] # "idle", label # "idle"
      PROVE  Calls' = Calls
  BY <1>3 DEF Calls, Goto, CallTypeOK
<1> QED
  BY <1>1, <1>2, <1>3

\* Without clients there is no link and no call.
LEMMA InitLink == Init => Link!Init
<1> SUFFICES ASSUME Init PROVE Link!Init
  OBVIOUS
<1>1. Calls = {}
  BY DEF Init, Calls
<1>2. Cardinality(Calls) = 0
  BY <1>1, FS_EmptySet
<1>3. [c \in Clients |-> LinkOf(c)] = [c \in Clients |-> "none"]
  BY DEF Init, LinkOf
<1>4. connects - Cardinality(Calls) = 0
  BY <1>2 DEF Init
<1> QED
  BY <1>3, <1>4 DEF Init, Link!Init

\* A step that changes one client changes one link.
LEMMA LinkMoves ==
    ASSUME NEW c \in Clients,
           \A e \in Clients \ {c} : LinkOf(e)' = LinkOf(e)
    PROVE  [e \in Clients |-> LinkOf(e)]'
               = [[e \in Clients |-> LinkOf(e)] EXCEPT ![c] = LinkOf(c)']
  OBVIOUS

\* Every step of the client is one of the link, or changes nothing of it.
LEMMA NextLink == IInv /\ [Next]_vars => [Link!Next]_(Link!vars)
<1> SUFFICES ASSUME IInv, [Next]_vars PROVE [Link!Next]_(Link!vars)
  OBVIOUS
<1> DEFINE link == [e \in Clients |-> LinkOf(e)]
           ended == connects - Cardinality(Calls)
<1> USE DEF IInv, TypeOK, ClientTypeOK, CallTypeOK, Absent, InCall
<1>0. /\ connects \in Nat /\ Cardinality(Calls) \in Nat
      /\ MaxRetries \in Nat /\ MaxConnects \in Nat
  BY CallsFinite, RetriesAssumption
<1>1. ASSUME NEW c \in Clients, Create(c) PROVE [Link!Next]_(Link!vars)
  <2>1. Calls' = Calls /\ ended' = ended /\ failed' = failed
    BY <1>1 DEF Create, Calls
  <2>2. CASE alive' = [alive EXCEPT ![c] = TRUE]
    <3>1. LinkOf(c) = "none" /\ LinkOf(c)' = "down"
      BY <1>1, <2>2 DEF Create, LinkOf
    <3>2. \A e \in Clients \ {c} : LinkOf(e)' = LinkOf(e)
      BY <1>1, <2>2 DEF Create, LinkOf
    <3>3. link' = [link EXCEPT ![c] = "down"] /\ link[c] = "none"
      BY <3>1, <3>2, LinkMoves
    <3>4. Link!Create(c)
      BY <2>1, <3>3 DEF Link!Create, Link!Move
    <3> QED
      BY <3>4 DEF Link!Next
  <2>3. CASE UNCHANGED alive
    <3>1. link' = link
      BY <1>1, <2>3 DEF Create, LinkOf
    <3> QED
      BY <2>1, <3>1 DEF Link!vars
  <2> QED
    BY <1>1, <2>2, <2>3 DEF Create
<1>2. ASSUME NEW c \in Clients, Disconnect(c) PROVE [Link!Next]_(Link!vars)
  <2>1. Calls' = Calls /\ ended' = ended
    BY <1>2 DEF Disconnect, Closes, Calls
  <2>2. LinkOf(c) = "up" /\ LinkOf(c)' = "down"
    BY <1>2 DEF Disconnect, Closes, LinkOf
  <2>3. \A e \in Clients \ {c} : LinkOf(e)' = LinkOf(e)
    BY <1>2 DEF Disconnect, Closes, LinkOf
  <2>4. link' = [link EXCEPT ![c] = "down"] /\ link[c] = "up"
    BY <2>2, <2>3, LinkMoves
  <2>5. UNCHANGED failed
    BY <1>2 DEF Disconnect, Closes
  <2>6. Link!Disconnect(c)
    BY <2>1, <2>4, <2>5 DEF Link!Disconnect, Link!Move
  <2> QED
    BY <2>6 DEF Link!Next
<1>3. ASSUME NEW c \in Clients, Destroy(c) PROVE [Link!Next]_(Link!vars)
  <2>1. Calls' = Calls /\ ended' = ended
    BY <1>3 DEF Destroy, Calls
  <2>2. LinkOf(c) \in {"up", "down"} /\ LinkOf(c)' = "none"
    BY <1>3 DEF Destroy, LinkOf
  <2>3. \A e \in Clients \ {c} : LinkOf(e)' = LinkOf(e)
    BY <1>3 DEF Destroy, LinkOf
  <2>4. link' = [link EXCEPT ![c] = "none"] /\ link[c] \in {"up", "down"}
    BY <2>2, <2>3, LinkMoves
  <2>5. failed' = [failed EXCEPT ![c] = 0]
    BY <1>3 DEF Destroy
  <2>6. Link!Destroy(c)
    BY <2>1, <2>4, <2>5 DEF Link!Destroy, Link!Move
  <2> QED
    BY <2>6 DEF Link!Next
<1>4. ASSUME NEW c \in Clients, NoConnection(c) PROVE [Link!Next]_(Link!vars)
  <2>1. ended' = ended + 1
    <3>1. pc[c] # "idle" /\ Goto(c, "idle") /\ connects' = connects
      BY <1>4 DEF NoConnection, Fail, Leave, Goto
    <3>2. Cardinality(Calls') = Cardinality(Calls) - 1
      BY <3>1, CallsChange
    <3> QED
      BY <1>0, <3>1, <3>2
  <2>2. LinkOf(c) = "down" /\ LinkOf(c)' = "down"
    BY <1>4 DEF NoConnection, Fail, Leave, Goto, LinkOf
  <2>3. \A e \in Clients \ {c} : LinkOf(e)' = LinkOf(e)
    BY <1>4 DEF NoConnection, Fail, Leave, Goto, LinkOf
  <2>4. link' = [link EXCEPT ![c] = "down"] /\ link[c] = "down"
    BY <2>2, <2>3, LinkMoves
  <2>5. failed' = [failed EXCEPT ![c] = @ + 1]
    BY <1>4 DEF NoConnection, Fail, Leave, Goto
  <2>6. Link!ConnectFails(c)
    BY <2>1, <2>4, <2>5 DEF Link!ConnectFails, Link!Move
  <2> QED
    BY <2>6 DEF Link!Next
<1>5. ASSUME NEW c \in Clients, PollDenied(c) PROVE [Link!Next]_(Link!vars)
  <2>1. ended' = ended + 1
    <3>1. pc[c] # "idle" /\ Goto(c, "idle") /\ connects' = connects
      BY <1>5 DEF PollDenied, Fail, Leave, Goto
    <3>2. Cardinality(Calls') = Cardinality(Calls) - 1
      BY <3>1, CallsChange
    <3> QED
      BY <1>0, <3>1, <3>2
  <2>2. LinkOf(c) = "down" /\ LinkOf(c)' = "down"
    BY <1>5 DEF PollDenied, Fail, Leave, Goto, LinkOf
  <2>3. \A e \in Clients \ {c} : LinkOf(e)' = LinkOf(e)
    BY <1>5 DEF PollDenied, Fail, Leave, Goto, LinkOf
  <2>4. link' = [link EXCEPT ![c] = "down"] /\ link[c] = "down"
    BY <2>2, <2>3, LinkMoves
  <2>5. failed' = [failed EXCEPT ![c] = @ + 1]
    BY <1>5 DEF PollDenied, Fail, Leave, Goto
  <2>6. Link!ConnectFails(c)
    BY <2>1, <2>4, <2>5 DEF Link!ConnectFails, Link!Move
  <2> QED
    BY <2>6 DEF Link!Next
<1>6. ASSUME NEW c \in Clients, GiveUp(c) PROVE [Link!Next]_(Link!vars)
  <2>1. ended' = ended + 1
    <3>1. pc[c] # "idle" /\ Goto(c, "idle") /\ connects' = connects
      BY <1>6 DEF GiveUp, Fail, Leave, Goto
    <3>2. Cardinality(Calls') = Cardinality(Calls) - 1
      BY <3>1, CallsChange
    <3> QED
      BY <1>0, <3>1, <3>2
  <2>2. LinkOf(c) = "down" /\ LinkOf(c)' = "down"
    BY <1>6 DEF GiveUp, Fail, Leave, Goto, LinkOf
  <2>3. \A e \in Clients \ {c} : LinkOf(e)' = LinkOf(e)
    BY <1>6 DEF GiveUp, Fail, Leave, Goto, LinkOf
  <2>4. link' = [link EXCEPT ![c] = "down"] /\ link[c] = "down"
    BY <2>2, <2>3, LinkMoves
  <2>5. failed' = [failed EXCEPT ![c] = @ + 1]
    BY <1>6 DEF GiveUp, Fail, Leave, Goto
  <2>6. Link!ConnectFails(c)
    BY <2>1, <2>4, <2>5 DEF Link!ConnectFails, Link!Move
  <2> QED
    BY <2>6 DEF Link!Next
<1>7. ASSUME NEW c \in Clients, ConnectDone(c) PROVE [Link!Next]_(Link!vars)
  <2>1. ended' = ended + 1
    <3>1. pc[c] # "idle" /\ Goto(c, "idle") /\ connects' = connects
      BY <1>7 DEF ConnectDone, Trying, Succeed, Leave, Goto
    <3>2. Cardinality(Calls') = Cardinality(Calls) - 1
      BY <3>1, CallsChange
    <3> QED
      BY <1>0, <3>1, <3>2
  <2>2. LinkOf(c) = "down" /\ LinkOf(c)' = "up"
    BY <1>7 DEF ConnectDone, Trying, Succeed, Leave, Goto, LinkOf
  <2>3. \A e \in Clients \ {c} : LinkOf(e)' = LinkOf(e)
    BY <1>7 DEF ConnectDone, Trying, Succeed, Leave, Goto, LinkOf
  <2>4. link' = [link EXCEPT ![c] = "up"] /\ link[c] = "down"
    BY <2>2, <2>3, LinkMoves
  <2>5. UNCHANGED failed
    BY <1>7 DEF ConnectDone, Trying, Succeed, Leave, Goto
  <2>6. Link!Connect(c)
    BY <2>1, <2>4, <2>5 DEF Link!Connect, Link!Move
  <2> QED
    BY <2>6 DEF Link!Next
<1>8. ASSUME NEW c \in Clients, PollDone(c) PROVE [Link!Next]_(Link!vars)
  <2>1. ended' = ended + 1
    <3>1. pc[c] # "idle" /\ Goto(c, "idle") /\ connects' = connects
      BY <1>8 DEF PollDone, Succeed, Leave, Goto
    <3>2. Cardinality(Calls') = Cardinality(Calls) - 1
      BY <3>1, CallsChange
    <3> QED
      BY <1>0, <3>1, <3>2
  <2>2. LinkOf(c) = "down" /\ LinkOf(c)' = "up"
    BY <1>8 DEF PollDone, Succeed, Leave, Goto, LinkOf
  <2>3. \A e \in Clients \ {c} : LinkOf(e)' = LinkOf(e)
    BY <1>8 DEF PollDone, Succeed, Leave, Goto, LinkOf
  <2>4. link' = [link EXCEPT ![c] = "up"] /\ link[c] = "down"
    BY <2>2, <2>3, LinkMoves
  <2>5. UNCHANGED failed
    BY <1>8 DEF PollDone, Succeed, Leave, Goto
  <2>6. Link!Connect(c)
    BY <2>1, <2>4, <2>5 DEF Link!Connect, Link!Move
  <2> QED
    BY <2>6 DEF Link!Next
<1>9. ASSUME NEW c \in Clients, NEW cmd, Begin(c, cmd) PROVE [Link!Next]_(Link!vars)
  <2>1. link' = link
    BY <1>9 DEF Begin, Goto, LinkOf
  <2>2. ended' = ended
    <3>1. pc[c] = "idle" /\ Goto(c, "socket") /\ connects' = connects + 1
      BY <1>9 DEF Begin
    <3>2. Cardinality(Calls') = Cardinality(Calls) + 1
      BY <3>1, CallsChange
    <3> QED
      BY <1>0, <3>1, <3>2
  <2> QED
    BY <1>9, <2>1, <2>2 DEF Link!vars, Begin, Goto
<1>10. ASSUME NEW c \in Clients, OpenSocket(c) PROVE [Link!Next]_(Link!vars)
  <2>1. link' = link
    BY <1>10 DEF OpenSocket, Goto, LinkOf
  <2>2. ended' = ended
    BY <1>10 DEF OpenSocket, Goto, Calls
  <2> QED
    BY <1>10, <2>1, <2>2 DEF Link!vars, OpenSocket, Goto
<1>11. ASSUME NEW c \in Clients, ConnectPending(c) PROVE [Link!Next]_(Link!vars)
  <2>1. link' = link
    BY <1>11 DEF ConnectPending, Trying, Goto, clientVars, LinkOf
  <2>2. ended' = ended
    BY <1>11 DEF ConnectPending, Trying, Goto, clientVars, Calls
  <2> QED
    BY <1>11, <2>1, <2>2 DEF Link!vars, ConnectPending, Trying, Goto, clientVars
<1>12. ASSUME NEW c \in Clients, ConnectRefused(c) PROVE [Link!Next]_(Link!vars)
  <2>1. link' = link
    BY <1>12 DEF ConnectRefused, Trying, Goto, clientVars, LinkOf
  <2>2. ended' = ended
    BY <1>12 DEF ConnectRefused, Trying, Goto, clientVars, Calls
  <2> QED
    BY <1>12, <2>1, <2>2 DEF Link!vars, ConnectRefused, Trying, Goto, clientVars
<1>13. ASSUME NEW c \in Clients, ConnectCritical(c) PROVE [Link!Next]_(Link!vars)
  <2>1. link' = link
    BY <1>13 DEF ConnectCritical, Trying, Goto, clientVars, LinkOf
  <2>2. ended' = ended
    BY <1>13 DEF ConnectCritical, Trying, Goto, clientVars, Calls
  <2> QED
    BY <1>13, <2>1, <2>2 DEF Link!vars, ConnectCritical, Trying, Goto, clientVars
<1>14. ASSUME NEW c \in Clients, PollFails(c) PROVE [Link!Next]_(Link!vars)
  <2>1. link' = link
    BY <1>14 DEF PollFails, Goto, clientVars, LinkOf
  <2>2. ended' = ended
    BY <1>14 DEF PollFails, Goto, clientVars, Calls
  <2> QED
    BY <1>14, <2>1, <2>2 DEF Link!vars, PollFails, Goto, clientVars
<1>15. ASSUME NEW c \in Clients, Retry(c) PROVE [Link!Next]_(Link!vars)
  <2>1. link' = link
    BY <1>15 DEF Retry, Goto, clientVars, LinkOf
  <2>2. ended' = ended
    BY <1>15 DEF Retry, Goto, clientVars, Calls
  <2> QED
    BY <1>15, <2>1, <2>2 DEF Link!vars, Retry, Goto, clientVars
<1>16. ASSUME NEW d \in Descriptors, Network(d) PROVE [Link!Next]_(Link!vars)
  <2>0. UNCHANGED <<clientVars, pc, connects>>
    BY <1>16 DEF Network, Turns
  <2>1. link' = link
    BY <2>0 DEF clientVars, LinkOf
  <2>2. ended' = ended
    BY <2>0 DEF Calls
  <2> QED
    BY <2>0, <2>1, <2>2 DEF Link!vars, clientVars
<1>17. CASE ListNext
  <2>1. link' = link
    BY <1>17 DEF ListNext, clientVars, LinkOf
  <2>2. ended' = ended
    BY <1>17 DEF ListNext, clientVars, Calls
  <2> QED
    BY <1>17, <2>1, <2>2 DEF Link!vars, ListNext, clientVars
<1>18. CASE UNCHANGED vars
  <2>1. link' = link
    BY <1>18 DEF vars, clientVars, LinkOf
  <2>2. ended' = ended
    BY <1>18 DEF vars, clientVars, Calls
  <2> QED
    BY <1>18, <2>1, <2>2 DEF Link!vars, vars, clientVars
<1> QED
  BY <1>1, <1>2, <1>3, <1>4, <1>5, <1>6, <1>7, <1>8, <1>9,
     <1>10, <1>11, <1>12, <1>13, <1>14, <1>15, <1>16, <1>17, <1>18 DEF Next, Step

\* The client's connections implement the one-step connections that module
\* CacheSession is built on.
THEOREM ConnectIsOneStep == Spec => ImplementsClientLink
<1>1. Init => Link!Init
  BY InitLink
<1>2. IInv /\ [Next]_vars => [Link!Next]_(Link!vars)
  BY NextLink
<1> QED
  BY <1>1, <1>2, Invariance, PTL DEF Spec, ImplementsClientLink, Link!Spec

=============================================================================
