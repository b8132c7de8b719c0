----------------------- MODULE HttpServerLifecycleProofs -----------------------
(***************************************************************************)
(* Proofs about HttpServerLifecycle, for any number of calls.              *)
(*                                                                         *)
(* The inductive invariant says where the listen thread can be for every   *)
(* place of its owner (ThreadInv), what holds at the places of the owner   *)
(* (PhaseInv), what the state of the listening socket tells about both     *)
(* (SockInv), and what an exception means (ReportInv).                     *)
(***************************************************************************)
EXTENDS HttpServerLifecycle, TLAPS

\* A thread that runs is joinable, and its object is bound.
ThreadInv ==
    /\ joinable => mBoundPort = "bound" /\ mServer = "server" /\ lpc # "none"
    /\ ListenerRuns => joinable
    /\ is_running <=> lpc \in {"accept", "leave", "fail"}
    /\ busy => is_running
    /\ lpc = "begin" => InStart

\* A bound object has a thread, but for the moments before it is created and
\* after it is joined.
PhaseInv ==
    /\ pc \notin {"idle", "dead"} => mServer = "server"
    /\ mServer = "null" => mBoundPort = "none"
    /\ pc = "bind" => mBoundPort = "none"
    /\ pc = "thread" => mBoundPort = "bound"
    /\ pc \in {"thread", "reset", "dead"} => ~joinable
    /\ InStart => joinable
    /\ mBoundPort = "bound" => joinable \/ pc \in {"thread", "reset"}

\* Only a thread that has yet to accept, or is accepting, has an open socket,
\* and until stop() closes it only accept() does.
SockInv ==
    /\ sock = "open" => lpc \in {"begin", "accept"} \/ pc = "thread"
    /\ pc = "thread" => sock = "open"
    /\ pc \in {"join", "reset", "dead"} => sock # "open"
    /\ joinable /\ pc # "join" =>
          /\ lpc \in {"begin", "accept"} => sock = "open"
          /\ lpc \in {"fail", "caught", "ended"} => sock = "closed"
          /\ lpc # "leave"

\* The exception comes from a thread that has ended, and only a start() that
\* has bound the object, or finds it bound, returns.
ReportInv ==
    /\ InStart /\ ep => lpc = "ended"
    /\ mServer = "server" /\ outcome = "returned" => mBoundPort # "none"
    /\ pc = "idle" /\ outcome = "threw" /\ mBoundPort = "bound" => lpc = "ended"

IInv == TypeOK /\ ThreadInv /\ PhaseInv /\ SockInv /\ ReportInv

-----------------------------------------------------------------------------
\* The invariant holds in the initial states.
LEMMA InitIInv == Init => IInv
<1> SUFFICES ASSUME Init PROVE IInv
  OBVIOUS
<1> USE DEF Init
<1>1. TypeOK
  <2>1. {alive, dying, mStopSignal, joinable, is_running, busy, ep} \subseteq BOOLEAN
    OBVIOUS
  <2>2. calls \in 0..MaxCalls
    BY CallsAssumption
  <2>3. QED
    BY <2>1, <2>2 DEF TypeOK
<1>2. ThreadInv /\ PhaseInv /\ SockInv /\ ReportInv
  BY DEF ThreadInv, PhaseInv, SockInv, ReportInv, ListenerRuns, InStart
<1>3. QED
  BY <1>1, <1>2 DEF IInv

\* Every step of the owner or of the listen thread preserves the invariant.
LEMMA StepIInv == IInv /\ [Next]_vars => IInv'
<1> SUFFICES ASSUME IInv, [Next]_vars PROVE IInv'
  OBVIOUS
<1> USE CallsAssumption DEF IInv, TypeOK, ThreadInv, PhaseInv, SockInv, ReportInv,
        ListenerRuns, InStart, objectVars, serverVars
<1>1. CASE Start
  <2>1. TypeOK'
    <3>1. calls' \in 0..MaxCalls
      BY <1>1 DEF Start, CanCall
    <3>2. QED
      BY <1>1, <3>1 DEF Start, CanCall
  <2>2. ThreadInv'
    BY <1>1 DEF Start, CanCall
  <2>3. PhaseInv'
    BY <1>1 DEF Start, CanCall
  <2>4. SockInv'
    BY <1>1 DEF Start, CanCall
  <2>5. ReportInv'
    BY <1>1 DEF Start, CanCall
  <2>6. QED
    BY <2>1, <2>2, <2>3, <2>4, <2>5
<1>2. CASE Stop
  <2>1. TypeOK'
    <3>1. calls' \in 0..MaxCalls
      BY <1>2 DEF Stop, CanCall, StopBody
    <3>2. QED
      BY <1>2, <3>1 DEF Stop, CanCall, StopBody
  <2>2. ThreadInv'
    BY <1>2 DEF Stop, CanCall, StopBody
  <2>3. PhaseInv'
    BY <1>2 DEF Stop, CanCall, StopBody
  <2>4. SockInv'
    BY <1>2 DEF Stop, CanCall, StopBody
  <2>5. ReportInv'
    BY <1>2 DEF Stop, CanCall, StopBody
  <2>6. QED
    BY <2>1, <2>2, <2>3, <2>4, <2>5
<1>3. CASE SetPort
  <2>1. TypeOK'
    BY <1>3 DEF SetPort, CanCall
  <2>2. ThreadInv'
    BY <1>3 DEF SetPort, CanCall
  <2>3. PhaseInv'
    BY <1>3 DEF SetPort, CanCall
  <2>4. SockInv'
    BY <1>3 DEF SetPort, CanCall
  <2>5. ReportInv'
    BY <1>3 DEF SetPort, CanCall
  <2>6. QED
    BY <2>1, <2>2, <2>3, <2>4, <2>5
<1>4. CASE Destroy
  <2>1. TypeOK'
    BY <1>4 DEF Destroy, StopBody
  <2>2. ThreadInv'
    BY <1>4 DEF Destroy, StopBody
  <2>3. PhaseInv'
    BY <1>4 DEF Destroy, StopBody
  <2>4. SockInv'
    BY <1>4 DEF Destroy, StopBody
  <2>5. ReportInv'
    BY <1>4 DEF Destroy, StopBody
  <2>6. QED
    BY <2>1, <2>2, <2>3, <2>4, <2>5
<1>5. CASE Bind
  <2>1. TypeOK'
    BY <1>5 DEF Bind
  <2>2. ThreadInv'
    BY <1>5 DEF Bind
  <2>3. PhaseInv'
    BY <1>5 DEF Bind
  <2>4. SockInv'
    BY <1>5 DEF Bind
  <2>5. ReportInv'
    BY <1>5 DEF Bind
  <2>6. QED
    BY <2>1, <2>2, <2>3, <2>4, <2>5
<1>6. CASE BindFails
  <2>1. TypeOK'
    BY <1>6 DEF BindFails
  <2>2. ThreadInv'
    BY <1>6 DEF BindFails
  <2>3. PhaseInv'
    BY <1>6 DEF BindFails
  <2>4. SockInv'
    BY <1>6 DEF BindFails
  <2>5. ReportInv'
    BY <1>6 DEF BindFails
  <2>6. QED
    BY <2>1, <2>2, <2>3, <2>4, <2>5
<1>7. CASE StartThread
  <2>1. TypeOK'
    BY <1>7 DEF StartThread
  <2>2. ThreadInv'
    BY <1>7 DEF StartThread
  <2>3. PhaseInv'
    BY <1>7 DEF StartThread
  <2>4. SockInv'
    BY <1>7 DEF StartThread
  <2>5. ReportInv'
    BY <1>7 DEF StartThread
  <2>6. QED
    BY <2>1, <2>2, <2>3, <2>4, <2>5
<1>8. CASE Poll
  <2>1. TypeOK'
    BY <1>8 DEF Poll
  <2>2. ThreadInv'
    BY <1>8 DEF Poll
  <2>3. PhaseInv'
    BY <1>8 DEF Poll
  <2>4. SockInv'
    BY <1>8 DEF Poll
  <2>5. ReportInv'
    BY <1>8 DEF Poll
  <2>6. QED
    BY <2>1, <2>2, <2>3, <2>4, <2>5
<1>9. CASE CheckException
  <2>1. TypeOK'
    BY <1>9 DEF CheckException
  <2>2. ThreadInv'
    BY <1>9 DEF CheckException
  <2>3. PhaseInv'
    BY <1>9 DEF CheckException
  <2>4. SockInv'
    BY <1>9 DEF CheckException
  <2>5. ReportInv'
    BY <1>9 DEF CheckException
  <2>6. QED
    BY <2>1, <2>2, <2>3, <2>4, <2>5
<1>10. CASE CloseSocket
  <2>1. TypeOK'
    BY <1>10 DEF CloseSocket
  <2>2. ThreadInv'
    BY <1>10 DEF CloseSocket
  <2>3. PhaseInv'
    BY <1>10 DEF CloseSocket
  <2>4. SockInv'
    BY <1>10 DEF CloseSocket
  <2>5. ReportInv'
    BY <1>10 DEF CloseSocket
  <2>6. QED
    BY <2>1, <2>2, <2>3, <2>4, <2>5
<1>11. CASE JoinThread
  <2>1. TypeOK'
    BY <1>11 DEF JoinThread
  <2>2. ThreadInv'
    BY <1>11 DEF JoinThread
  <2>3. PhaseInv'
    BY <1>11 DEF JoinThread
  <2>4. SockInv'
    BY <1>11 DEF JoinThread
  <2>5. ReportInv'
    BY <1>11 DEF JoinThread
  <2>6. QED
    BY <2>1, <2>2, <2>3, <2>4, <2>5
<1>12. CASE Reset
  <2>1. TypeOK'
    BY <1>12 DEF Reset
  <2>2. ThreadInv'
    BY <1>12 DEF Reset
  <2>3. PhaseInv'
    BY <1>12 DEF Reset
  <2>4. SockInv'
    BY <1>12 DEF Reset
  <2>5. ReportInv'
    BY <1>12 DEF Reset
  <2>6. QED
    BY <2>1, <2>2, <2>3, <2>4, <2>5
<1>13. CASE ListenBegins
  <2>1. TypeOK'
    BY <1>13 DEF ListenBegins
  <2>2. ThreadInv'
    BY <1>13 DEF ListenBegins
  <2>3. PhaseInv'
    BY <1>13 DEF ListenBegins
  <2>4. SockInv'
    BY <1>13 DEF ListenBegins
  <2>5. ReportInv'
    BY <1>13 DEF ListenBegins
  <2>6. QED
    BY <2>1, <2>2, <2>3, <2>4, <2>5
<1>14. CASE AcceptEnds
  <2>1. TypeOK'
    BY <1>14 DEF AcceptEnds
  <2>2. ThreadInv'
    BY <1>14 DEF AcceptEnds
  <2>3. PhaseInv'
    BY <1>14 DEF AcceptEnds
  <2>4. SockInv'
    BY <1>14 DEF AcceptEnds
  <2>5. ReportInv'
    BY <1>14 DEF AcceptEnds
  <2>6. QED
    BY <2>1, <2>2, <2>3, <2>4, <2>5
<1>15. CASE ListenReturns
  <2>1. TypeOK'
    BY <1>15 DEF ListenReturns
  <2>2. ThreadInv'
    BY <1>15 DEF ListenReturns
  <2>3. PhaseInv'
    BY <1>15 DEF ListenReturns
  <2>4. SockInv'
    BY <1>15 DEF ListenReturns
  <2>5. ReportInv'
    BY <1>15 DEF ListenReturns
  <2>6. QED
    BY <2>1, <2>2, <2>3, <2>4, <2>5
<1>16. CASE Caught
  <2>1. TypeOK'
    BY <1>16 DEF Caught
  <2>2. ThreadInv'
    BY <1>16 DEF Caught
  <2>3. PhaseInv'
    BY <1>16 DEF Caught
  <2>4. SockInv'
    BY <1>16 DEF Caught
  <2>5. ReportInv'
    BY <1>16 DEF Caught
  <2>6. QED
    BY <2>1, <2>2, <2>3, <2>4, <2>5
<1>17. CASE AcceptFails
  <2>1. TypeOK'
    BY <1>17 DEF AcceptFails
  <2>2. ThreadInv'
    BY <1>17 DEF AcceptFails
  <2>3. PhaseInv'
    BY <1>17 DEF AcceptFails
  <2>4. SockInv'
    BY <1>17 DEF AcceptFails
  <2>5. ReportInv'
    BY <1>17 DEF AcceptFails
  <2>6. QED
    BY <2>1, <2>2, <2>3, <2>4, <2>5
<1>18. CASE WorkersBegin
  <2>1. TypeOK'
    BY <1>18 DEF WorkersBegin
  <2>2. ThreadInv'
    BY <1>18 DEF WorkersBegin
  <2>3. PhaseInv'
    BY <1>18 DEF WorkersBegin
  <2>4. SockInv'
    BY <1>18 DEF WorkersBegin
  <2>5. ReportInv'
    BY <1>18 DEF WorkersBegin
  <2>6. QED
    BY <2>1, <2>2, <2>3, <2>4, <2>5
<1>19. CASE WorkersEnd
  <2>1. TypeOK'
    BY <1>19 DEF WorkersEnd
  <2>2. ThreadInv'
    BY <1>19 DEF WorkersEnd
  <2>3. PhaseInv'
    BY <1>19 DEF WorkersEnd
  <2>4. SockInv'
    BY <1>19 DEF WorkersEnd
  <2>5. ReportInv'
    BY <1>19 DEF WorkersEnd
  <2>6. QED
    BY <2>1, <2>2, <2>3, <2>4, <2>5
<1>20. CASE UNCHANGED vars
  BY <1>20 DEF vars
<1>21. QED
  BY <1>1, <1>2, <1>3, <1>4, <1>5, <1>6, <1>7, <1>8, <1>9, <1>10, <1>11, <1>12, <1>13, <1>14, <1>15, <1>16, <1>17, <1>18, <1>19, <1>20 DEF Next, OwnerStep, ListenStep

\* The invariant holds for ever.
LEMMA AlwaysIInv == Spec => []IInv
  BY InitIInv, StepIInv, PTL DEF Spec

-----------------------------------------------------------------------------
(***************************************************************************)
(* What follows from it.                                                   *)
(***************************************************************************)
\* HttpServer and its listen thread are well typed after any calls.
THEOREM TypeCorrect == Spec => []TypeOK
<1>1. IInv => TypeOK
  BY DEF IInv
<1>2. QED
  BY <1>1, AlwaysIInv, PTL

\* stop() and the destructor keep mServer and the object while the listen thread
\* runs: a thread that runs is joinable, and both join it first.
THEOREM ServerOutlivesListener == Spec => []ListenerHasServer
<1>1. IInv => ListenerHasServer
  BY DEF IInv, ThreadInv, PhaseInv, ListenerHasServer
<1>2. QED
  BY <1>1, AlwaysIInv, PTL

\* start() never overwrites a joinable thread and the destructor never destroys
\* one, whatever sequence of calls leads there and however start() ended.
THEOREM ThreadIsJoined == Spec => []ThreadNeverAbandoned
<1>1. IInv => ThreadNeverAbandoned
  BY DEF IInv, ThreadInv, PhaseInv, ThreadNeverAbandoned
<1>2. QED
  BY <1>1, AlwaysIInv, PTL

\* After stop() the port is free and nothing runs.
THEOREM StopCleansUp == Spec => []StoppedIsClean
<1>1. IInv => StoppedIsClean
  BY DEF IInv, TypeOK, ThreadInv, PhaseInv, SockInv, StoppedIsClean, ListenerRuns
<1>2. QED
  BY <1>1, AlwaysIInv, PTL

\* What start() reports, for any sequence of calls: of a server that has not been
\* stopped, an exception means that nothing runs, and a normal return that it runs,
\* or that accept() has failed, or that an earlier bind to any port has failed, in
\* which case nothing runs although start() returned.
THEOREM StartIsTruthful == Spec => []StartReports
<1>1. IInv => StartReports
  <2> SUFFICES ASSUME IInv, pc = "idle", mServer = "server" PROVE StartReports
    BY DEF StartReports
  <2>1. ASSUME ~ListenerRuns PROVE NothingRuns
    BY <2>1 DEF IInv, ThreadInv, SockInv, NothingRuns, ListenerRuns
  <2>2. mBoundPort = "bound" => joinable
    BY DEF IInv, PhaseInv
  <2>3. mBoundPort # "bound" => ~ListenerRuns
    BY DEF IInv, ThreadInv
  <2>4. ASSUME outcome = "threw" PROVE NothingRuns
    <3>1. ~ListenerRuns
      BY <2>3, <2>4 DEF IInv, ReportInv, ListenerRuns
    <3>2. QED
      BY <2>1, <3>1
  <2>5. ASSUME outcome = "returned", mBoundPort = "bound" PROVE is_running \/ sock = "closed"
    <3>1. joinable /\ lpc # "none" /\ lpc # "begin" /\ lpc # "leave"
      BY <2>2, <2>5 DEF IInv, ThreadInv, SockInv, InStart
    <3>2. lpc \in {"accept", "fail"} \/ lpc \in {"caught", "ended"}
      BY <3>1 DEF IInv, TypeOK
    <3>3. QED
      BY <3>1, <3>2 DEF IInv, ThreadInv, SockInv
  <2>6. ASSUME outcome = "returned", mBoundPort # "bound"
        PROVE  mBoundPort = "invalid" /\ NothingRuns
    <3>1. mBoundPort = "invalid"
      BY <2>6 DEF IInv, TypeOK, ReportInv
    <3>2. QED
      BY <2>1, <2>3, <3>1
  <2>7. QED
    BY <2>4, <2>5, <2>6 DEF StartReports
<1>2. QED
  BY <1>1, AlwaysIInv, PTL

=============================================================================
