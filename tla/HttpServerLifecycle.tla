------------------------- MODULE HttpServerLifecycle -------------------------
(***************************************************************************)
(* The life of one HttpServer object: start(), stop() and the destructor,  *)
(* called in any order by the thread that owns the object, and the listen  *)
(* thread that start() creates.  The thread shares with its owner the      *)
(* httplib server (svr_sock_, is_running_), mStopSignal, and `ep`, a local *)
(* variable of start() that it captures by reference.  Before the listen   *)
(* thread ends it waits for the workers that serve connections (`busy`).   *)
(***************************************************************************)
EXTENDS Naturals

CONSTANTS MaxCalls \* bound: calls of start(), stop() and setPort()

ASSUME CallsAssumption == MaxCalls \in Nat

VARIABLES
    alive,       \* FALSE once the process has crashed or terminated
    pc,          \* where the owner is
    calls,
    dying,       \* the destructor is running
    mPort,       \* "any" for port 0, or "fixed"
    mBoundPort,  \* "none" for 0, "bound", or "invalid" for a negative value
    mServer,     \* the httplib server: "server", or "null" after stop()
    mStopSignal,
    joinable,    \* mListenThread represents a thread
    sock,        \* svr_sock_: "invalid", "open", "closed" (closed by accept's error path)
    is_running,
    busy,        \* accepted connections wait for a worker or are served
    ep,          \* the exception_ptr of start(), when the owner is in its loop
    lpc,         \* the listen thread: none, begin, accept, leave, fail, caught, ended
    outcome      \* how the last start() ended: none, returned, threw

serverVars == <<sock, is_running, busy>>
objectVars == <<mPort, mBoundPort, mServer, mStopSignal, joinable>>
vars == <<alive, pc, calls, dying, objectVars, serverVars, ep, lpc, outcome>>

Init ==
    /\ alive = TRUE /\ pc = "idle" /\ calls = 0 /\ dying = FALSE
    /\ mPort \in {"any", "fixed"} /\ mBoundPort = "none" /\ mServer = "server"
    /\ mStopSignal = FALSE /\ joinable = FALSE
    /\ sock = "invalid" /\ is_running = FALSE /\ busy = FALSE
    /\ ep = FALSE /\ lpc = "none" /\ outcome = "none"

CanCall == pc = "idle" /\ calls < MaxCalls

-----------------------------------------------------------------------------
(***************************************************************************)
(* start()                                                                 *)
(***************************************************************************)
\* Mutant: a server that is already bound is started again.
StartAgain ==
    /\ CanCall
    /\ calls' = calls + 1
    /\ IF mServer = "null"
       THEN alive' = FALSE /\ UNCHANGED <<pc, mStopSignal, outcome>>
       ELSE /\ pc' = "bind" /\ mStopSignal' = FALSE
            /\ UNCHANGED <<alive, outcome>>
    /\ UNCHANGED <<dying, mPort, mBoundPort, mServer, joinable, serverVars, ep, lpc>>

\* start() sets the handlers of mServer before it looks whether there is one.
Start ==
    /\ CanCall
    /\ calls' = calls + 1
    /\ IF mServer = "null"
       THEN alive' = FALSE /\ UNCHANGED <<pc, mStopSignal, outcome>>
       ELSE IF mBoundPort # "none"
       THEN outcome' = "returned" /\ UNCHANGED <<alive, pc, mStopSignal>>
       ELSE /\ pc' = "bind" /\ mStopSignal' = FALSE
            /\ UNCHANGED <<alive, outcome>>
    /\ UNCHANGED <<dying, mPort, mBoundPort, mServer, joinable, serverVars, ep, lpc>>

\* Mutant: the port that was asked for is stored, 0 for any.
BindAsked ==
    /\ pc = "bind"
    /\ sock' = "open"
    /\ mBoundPort' = mPort
    /\ pc' = "thread"
    /\ UNCHANGED <<alive, calls, dying, mPort, mServer, mStopSignal, joinable,
                   is_running, busy, ep, lpc, outcome>>

Bind ==
    /\ pc = "bind"
    /\ sock' = "open"
    /\ mBoundPort' = "bound"
    /\ pc' = "thread"
    /\ UNCHANGED <<alive, calls, dying, mPort, mServer, mStopSignal, joinable,
                   is_running, busy, ep, lpc, outcome>>

\* A failed bind_to_any_port() is stored in mBoundPort before it is checked.
BindFails ==
    /\ pc = "bind"
    /\ mBoundPort' = IF mPort = "any" THEN "invalid" ELSE mBoundPort
    /\ pc' = "idle" /\ outcome' = "threw"
    /\ UNCHANGED <<alive, calls, dying, mPort, mServer, mStopSignal, joinable,
                   serverVars, ep, lpc>>

\* Assigning to a std::thread that is joinable terminates the program.
StartThread ==
    /\ pc = "thread"
    /\ IF joinable
       THEN alive' = FALSE /\ UNCHANGED <<pc, joinable, ep, lpc>>
       ELSE /\ joinable' = TRUE /\ lpc' = "begin"
            /\ ep' = FALSE /\ pc' = "poll"
            /\ UNCHANGED alive
    /\ UNCHANGED <<calls, dying, mPort, mBoundPort, mServer, mStopSignal,
                   serverVars, outcome>>

\* Mutant: the loop only waits for is_valid(), which is true from the start.
PollValidOnly ==
    /\ pc = "poll"
    /\ pc' = "idle" /\ outcome' = "returned"
    /\ UNCHANGED <<alive, calls, dying, objectVars, serverVars, ep, lpc>>

Poll ==
    /\ pc = "poll"
    /\ IF is_running
       THEN pc' = "idle" /\ outcome' = "returned"
       ELSE pc' = "check" /\ UNCHANGED outcome
    /\ UNCHANGED <<alive, calls, dying, objectVars, serverVars, ep, lpc>>

\* Mutant: the exception is not rethrown.
CheckIgnored ==
    /\ pc = "check"
    /\ pc' = "poll"
    /\ UNCHANGED <<alive, calls, dying, objectVars, serverVars, ep, lpc, outcome>>

CheckException ==
    /\ pc = "check"
    /\ IF ep THEN pc' = "idle" /\ outcome' = "threw"
             ELSE pc' = "poll" /\ UNCHANGED outcome
    /\ UNCHANGED <<alive, calls, dying, objectVars, serverVars, ep, lpc>>

SetPort ==
    /\ CanCall
    /\ calls' = calls + 1
    /\ mPort' \in {"any", "fixed"}
    /\ UNCHANGED <<alive, pc, dying, mBoundPort, mServer, mStopSignal, joinable,
                   serverVars, ep, lpc, outcome>>

-----------------------------------------------------------------------------
(***************************************************************************)
(* stop() and the destructor, which calls it                               *)
(***************************************************************************)
StopBody(finished) ==
    IF mServer = "null"
    THEN pc' = finished /\ UNCHANGED mStopSignal
    ELSE pc' = "close" /\ mStopSignal' = TRUE

Stop ==
    /\ CanCall
    /\ calls' = calls + 1
    /\ StopBody("idle")
    /\ UNCHANGED <<alive, dying, mPort, mBoundPort, mServer, joinable, serverVars,
                   ep, lpc, outcome>>

Destroy ==
    /\ pc = "idle" /\ ~dying
    /\ dying' = TRUE
    /\ StopBody("dead")
    /\ UNCHANGED <<alive, calls, mPort, mBoundPort, mServer, joinable, serverVars,
                   ep, lpc, outcome>>

\* mServer->stop() closes the listening socket, if the server is running.
CloseSocket ==
    /\ pc = "close"
    /\ sock' = IF is_running THEN "invalid" ELSE sock
    /\ pc' = "join"
    /\ UNCHANGED <<alive, calls, dying, objectVars, is_running, busy, ep, lpc, outcome>>

\* Mutant: the listen thread is detached.
DetachThread ==
    /\ pc = "join"
    /\ joinable' = FALSE
    /\ pc' = "reset"
    /\ UNCHANGED <<alive, calls, dying, mPort, mBoundPort, mServer, mStopSignal,
                   serverVars, ep, lpc, outcome>>

JoinThread ==
    /\ pc = "join"
    /\ joinable => lpc = "ended"
    /\ joinable' = FALSE
    /\ pc' = "reset"
    /\ UNCHANGED <<alive, calls, dying, mPort, mBoundPort, mServer, mStopSignal,
                   serverVars, ep, lpc, outcome>>

Reset ==
    /\ pc = "reset"
    /\ mBoundPort' = "none" /\ mServer' = "null"
    /\ pc' = IF dying THEN "dead" ELSE "idle"
    /\ UNCHANGED <<alive, calls, dying, mPort, mStopSignal, joinable, serverVars,
                   ep, lpc, outcome>>

-----------------------------------------------------------------------------
(***************************************************************************)
(* The listen thread: listen_after_bind() and the lambda around it.        *)
(***************************************************************************)
ListenBegins ==
    /\ lpc = "begin"
    /\ is_running' = TRUE
    /\ lpc' = "accept"
    /\ UNCHANGED <<alive, pc, calls, dying, objectVars, sock, busy, ep, outcome>>

\* A connection is accepted, and queued for a worker.
WorkersBegin ==
    /\ lpc = "accept" /\ ~busy
    /\ busy' = TRUE
    /\ UNCHANGED <<alive, pc, calls, dying, objectVars, sock, is_running, ep, lpc, outcome>>

\* No connection is left with a worker; those that wait in the queue are purged
\* by shutdown().  Nothing says that the workers ever come to an end.
WorkersEnd ==
    /\ busy
    /\ busy' = FALSE
    /\ UNCHANGED <<alive, pc, calls, dying, objectVars, sock, is_running, ep, lpc, outcome>>

\* The socket was closed by stop().
AcceptEnds ==
    /\ lpc = "accept" /\ sock # "open"
    /\ lpc' = "leave"
    /\ UNCHANGED <<alive, pc, calls, dying, objectVars, serverVars, ep, outcome>>

\* accept() fails with an error that httplib does not retry.
AcceptFails ==
    /\ lpc = "accept" /\ sock = "open"
    /\ sock' = "closed"
    /\ lpc' = "fail"
    /\ UNCHANGED <<alive, pc, calls, dying, objectVars, is_running, busy, ep, outcome>>

\* Mutant: the task queue is destroyed without waiting for its workers.
ListenReturnsAtOnce ==
    /\ lpc \in {"leave", "fail"}
    /\ is_running' = FALSE
    /\ lpc' = IF lpc = "leave" THEN "ended" ELSE "caught"
    /\ UNCHANGED <<alive, pc, calls, dying, objectVars, sock, busy, ep, outcome>>

\* The task queue is destroyed, with a pool that waits for its workers, before
\* is_running is reset.
ListenReturns ==
    /\ lpc \in {"leave", "fail"} /\ ~busy
    /\ is_running' = FALSE
    /\ lpc' = IF lpc = "leave" THEN "ended" ELSE "caught"
    /\ UNCHANGED <<alive, pc, calls, dying, objectVars, sock, busy, ep, outcome>>

InStart == pc \in {"poll", "check"}

\* The handler reads mStopSignal without synchronisation.  When start() has
\* returned, `ep` no longer exists, and what the assignment to it does to the
\* owner's stack is undefined: nothing, or a crash.
Caught ==
    /\ lpc = "caught"
    /\ lpc' = "ended"
    /\ IF mStopSignal THEN UNCHANGED <<alive, ep>>
       ELSE IF InStart THEN ep' = TRUE /\ UNCHANGED alive
       ELSE alive' \in BOOLEAN /\ UNCHANGED ep
    /\ UNCHANGED <<pc, calls, dying, objectVars, serverVars, outcome>>

-----------------------------------------------------------------------------
OwnerStep ==
    \/ Bind \/ BindFails \/ StartThread \/ Poll \/ CheckException
    \/ CloseSocket \/ JoinThread \/ Reset

ListenStep == ListenBegins \/ AcceptEnds \/ ListenReturns \/ Caught

Next ==
    /\ alive
    /\ \/ Start \/ Stop \/ SetPort \/ Destroy
       \/ OwnerStep \/ ListenStep \/ AcceptFails
       \/ WorkersBegin \/ WorkersEnd

Spec == Init /\ [][Next]_vars

\* Both threads are scheduled; nobody has to call, accept() need not fail, and
\* the workers need not come to an end.
FairSpec ==
    /\ Spec
    /\ WF_vars(alive /\ OwnerStep)
    /\ WF_vars(alive /\ ListenStep)

-----------------------------------------------------------------------------
(***************************************************************************)
(* Properties.                                                             *)
(***************************************************************************)
\* Type invariant of the server object.
TypeOK ==
    /\ {alive, dying, mStopSignal, joinable, is_running, busy, ep} \subseteq BOOLEAN
    /\ pc \in {"idle", "bind", "thread", "poll", "check", "close", "join", "reset", "dead"}
    /\ calls \in 0..MaxCalls
    /\ mPort \in {"any", "fixed"}
    /\ mBoundPort \in {"none", "bound", "invalid"}
    /\ mServer \in {"server", "null"}
    /\ sock \in {"invalid", "open", "closed"}
    /\ lpc \in {"none", "begin", "accept", "leave", "fail", "caught", "ended"}
    /\ outcome \in {"none", "returned", "threw"}

ListenerRuns == lpc \notin {"none", "ended"}

\* The listen thread works on mServer and on the object: stop() and the
\* destructor give neither up while it runs.
ListenerHasServer == alive /\ ListenerRuns => mServer = "server" /\ pc # "dead"

\* The program is never terminated by std::thread: start() does not assign to a
\* joinable thread, and the destructor does not destroy one.
ThreadNeverAbandoned ==
    alive => /\ pc = "thread" => ~joinable
             /\ pc = "dead" => ~joinable
             /\ ListenerRuns => joinable

\* What stop() leaves behind can be told from outside: the port is free, and
\* neither the listen thread nor a worker runs.
StoppedIsClean ==
    alive /\ mServer = "null" =>
        sock # "open" /\ ~is_running /\ ~busy /\ mBoundPort = "none"

NothingRuns == ~ListenerRuns /\ ~is_running /\ ~busy /\ sock # "open"

\* What a caller may conclude from start().  An exception means that nothing
\* runs and no port is taken.  A normal return means that the server runs, or that
\* accept() has failed, or, as nothing resets the negative mBoundPort of a failed
\* bind_to_any_port(), that an earlier bind has failed: every start() after that
\* one returns normally with nothing running.
StartReports ==
    alive /\ pc = "idle" /\ mServer = "server" =>
        /\ outcome = "threw" => NothingRuns
        /\ outcome = "returned" =>
              \/ is_running
              \/ sock = "closed"
              \/ mBoundPort = "invalid" /\ NothingRuns

\* start() and stop() come back, whenever they are called: start() with a running
\* server or with an exception, and stop() never waits for a listen thread that it
\* has not told to stop.  stop() waits for the workers too, and so comes back only
\* if they do: a worker that waits for ever, as in the run webhook_stop, keeps it.
CallsReturn ==
    LET Returned == pc \in {"idle", "dead"} \/ ~alive
    IN  /\ pc = "bind" ~> Returned
        /\ (busy ~> ~busy) => (pc = "close" ~> Returned)

=============================================================================
