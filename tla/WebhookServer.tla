----------------------------- MODULE WebhookServer -----------------------------
(***************************************************************************)
(* The running server of core/http_server: the listen thread of            *)
(* HttpServer, the TaskQueue and its workers, the /webhook and /dump       *)
(* handlers of HttpJsonHandler with its thread pool, WebHook::call, and    *)
(* HttpServer::stop().                                                     *)
(*                                                                         *)
(* The two pools wait for each other.  A worker in /webhook waits for a    *)
(* job of the hook pool; the job makes an HTTP request (a "forward") and   *)
(* waits for the answer.  With SelfHook the forward goes to this server's  *)
(* own /dump, as application.yml and the tests configure it, and so waits  *)
(* for a worker.                                                           *)
(*                                                                         *)
(* A job captures the handler's request and its worker's stack frame by    *)
(* reference, so it is identified with the worker that submitted it.       *)
(***************************************************************************)
EXTENDS Naturals, Sequences, FiniteSets, SequencesExt

CONSTANTS
    Clients,        \* external clients, one connection each
    Forwards,       \* connections the hook pool may open to this server
    Workers,        \* threads of TaskQueue's pool
    HookThreads,    \* threads of HttpJsonHandler's pool
    ClientRequests, \* the requests clients send
    AuthEnabled,    \* auth.enabled: requests need the API key
    HookKey,        \* webhook.api_key is the key this server asks for
    SelfHook,       \* TRUE: the webhook URL is this server's own /dump
    MaxRequests,    \* bound: requests a client sends on its connection
    KeepAliveMax,   \* requests served on one connection
    Backlog,        \* connections the kernel holds for accept()
    NoConn, NoWorker, NoRequest

Conns == Clients \cup Forwards

\* A request: its route, and whether it carries the right API key.
Requests == [route : {"webhook", "dump"}, key : BOOLEAN]

ASSUME ServerAssumption ==
    /\ Clients \cap Forwards = {}
    /\ ClientRequests \subseteq Requests
    /\ {AuthEnabled, HookKey, SelfHook} \subseteq BOOLEAN
    /\ MaxRequests \in Nat /\ KeepAliveMax \in Nat /\ Backlog \in Nat
    /\ NoConn \notin Conns
    /\ NoWorker \notin Workers
    /\ NoRequest \notin Requests

VARIABLES
    alive,    \* FALSE once the process has crashed
    mainPc,   \* the thread in config_handle(): serving, joining, stopped, exited
    sockOpen, \* svr_sock_ is valid
    listenPc, \* mListenThread: accept, drain (queue being destroyed), returned
    backlog,  \* connections the kernel has completed and nobody has accepted
    tasks,    \* the queue of TaskQueue's pool
    wpc,      \* each worker: idle, loop, poll, routing, waiting
    wconn,    \* the connection each worker serves
    wreq,     \* the request each worker is handling
    served,   \* requests each worker has served on its connection
    jobs,     \* the queue of HttpJsonHandler's pool: the submitting workers
    ready,    \* my_future of each worker's web_hook() call
    hpc,      \* each hook thread: idle, push, copy, connect, recv
    hjob,     \* the job it runs
    hconn,    \* the connection its http::Request has open to this server
    net,      \* each connection at the server: none, backlog, accepted, closed, reset
    request,  \* the requests on each connection that the server has not read
    response, \* the answers on each connection that the client has not read
    left,     \* TRUE: in front of them lie lines that begin no request
    stray,    \* history: the answers given to such lines
    cpc,      \* each client: idle, waiting (for an answer), gone
    sent      \* the requests each client has sent

mainVars == <<mainPc, sockOpen, listenPc>>
workerVars == <<wpc, wconn, wreq, served>>
hookVars == <<hpc, hjob, hconn>>
netVars == <<net, request, response, left, stray>>
leftVars == <<left, stray>>
clientVars == <<cpc, sent>>
vars == <<alive, mainVars, backlog, tasks, workerVars, jobs, ready, hookVars,
          netVars, clientVars>>

Init ==
    /\ alive = TRUE
    /\ mainPc = "serving" /\ sockOpen = TRUE /\ listenPc = "accept"
    /\ backlog = <<>> /\ tasks = <<>> /\ jobs = <<>>
    /\ wpc = [w \in Workers |-> "idle"]
    /\ wconn = [w \in Workers |-> NoConn]
    /\ wreq = [w \in Workers |-> NoRequest]
    /\ served = [w \in Workers |-> 0]
    /\ ready = [w \in Workers |-> FALSE]
    /\ hpc = [h \in HookThreads |-> "idle"]
    /\ hjob = [h \in HookThreads |-> NoWorker]
    /\ hconn = [h \in HookThreads |-> NoConn]
    /\ net = [c \in Conns |-> "none"]
    /\ request = [c \in Conns |-> <<>>]
    /\ response = [c \in Conns |-> <<>>]
    /\ left = [c \in Conns |-> FALSE]
    /\ stray = [c \in Conns |-> 0]
    /\ cpc = [c \in Clients |-> "idle"]
    /\ sent = [c \in Clients |-> 0]

-----------------------------------------------------------------------------
(***************************************************************************)
(* Clients.  A client opens its connection with its first request, waits   *)
(* for the answer before it sends the next, and may leave at any time.     *)
(***************************************************************************)
Connect(c, r) ==
    /\ net[c] = "none"
    /\ sockOpen /\ Len(backlog) < Backlog
    /\ backlog' = Append(backlog, c)
    /\ net' = [net EXCEPT ![c] = "backlog"]
    /\ request' = [request EXCEPT ![c] = Append(@, r)]

ClientConnect(c) ==
    /\ alive
    /\ cpc[c] = "idle"
    /\ \E r \in ClientRequests : Connect(c, r)
    /\ cpc' = [cpc EXCEPT ![c] = "waiting"]
    /\ sent' = [sent EXCEPT ![c] = 1]
    /\ UNCHANGED <<alive, mainVars, tasks, workerVars, jobs, ready, hookVars, response,
                   leftVars>>

ClientRequest(c) ==
    /\ cpc[c] = "idle" /\ net[c] = "accepted"
    /\ sent[c] < MaxRequests
    /\ \E r \in ClientRequests : request' = [request EXCEPT ![c] = Append(@, r)]
    /\ cpc' = [cpc EXCEPT ![c] = "waiting"]
    /\ sent' = [sent EXCEPT ![c] = @ + 1]
    /\ UNCHANGED <<alive, mainVars, backlog, tasks, workerVars, jobs, ready,
                   hookVars, net, response, leftVars>>

\* The client takes the first answer that comes for the answer to its request.
ClientReceive(c) ==
    /\ cpc[c] = "waiting" /\ response[c] # <<>>
    /\ response' = [response EXCEPT ![c] = Tail(@)]
    /\ cpc' = [cpc EXCEPT ![c] = "idle"]
    /\ UNCHANGED <<alive, mainVars, backlog, tasks, workerVars, jobs, ready,
                   hookVars, net, request, leftVars, sent>>

\* The connection ended before the answer came.
ClientFails(c) ==
    /\ cpc[c] = "waiting" /\ response[c] = <<>>
    /\ net[c] \in {"closed", "reset"}
    /\ cpc' = [cpc EXCEPT ![c] = "gone"]
    /\ UNCHANGED <<alive, mainVars, backlog, tasks, workerVars, jobs, ready,
                   hookVars, netVars, sent>>

ClientLeaves(c) ==
    /\ cpc[c] # "gone"
    /\ cpc' = [cpc EXCEPT ![c] = "gone"]
    /\ response' = [response EXCEPT ![c] = <<>>]
    /\ UNCHANGED <<alive, mainVars, backlog, tasks, workerVars, jobs, ready,
                   hookVars, net, request, leftVars, sent>>

\* The other end of the connection is still open.
PeerOpen(c) ==
    \/ c \in Clients /\ cpc[c] # "gone"
    \/ \E h \in HookThreads : hconn[h] = c

-----------------------------------------------------------------------------
(***************************************************************************)
(* The listen thread: httplib's accept loop on TaskQueue.  When the socket *)
(* is closed it calls shutdown(), which purges the queue, and destroys the *)
(* queue, whose pool waits for the tasks that are running.                 *)
(***************************************************************************)
Enqueue(c) == tasks' = Append(tasks, c)

Shutdown == tasks' = <<>>

Accept ==
    /\ listenPc = "accept" /\ sockOpen
    /\ backlog # <<>>
    /\ Enqueue(Head(backlog))
    /\ net' = [net EXCEPT ![Head(backlog)] = "accepted"]
    /\ backlog' = Tail(backlog)
    /\ UNCHANGED <<alive, mainVars, workerVars, jobs, ready, hookVars, request,
                   response, leftVars, clientVars>>

LeaveAccept ==
    /\ listenPc = "accept" /\ ~sockOpen
    /\ Shutdown
    /\ listenPc' = "drain"
    /\ UNCHANGED <<alive, mainPc, sockOpen, backlog, workerVars, jobs, ready,
                   hookVars, netVars, clientVars>>

\* Mutant: the queue is destroyed without waiting for the tasks that run.
ListenReturnsAtOnce ==
    /\ listenPc = "drain"
    /\ listenPc' = "returned"
    /\ UNCHANGED <<alive, mainPc, sockOpen, backlog, tasks, workerVars, jobs,
                   ready, hookVars, netVars, clientVars>>

ListenReturns ==
    /\ listenPc = "drain"
    /\ tasks = <<>>
    /\ \A w \in Workers : wpc[w] = "idle"
    /\ listenPc' = "returned"
    /\ UNCHANGED <<alive, mainPc, sockOpen, backlog, tasks, workerVars, jobs,
                   ready, hookVars, netVars, clientVars>>

-----------------------------------------------------------------------------
(***************************************************************************)
(* Workers.  A worker keeps a connection until its peer closes it, the     *)
(* keep-alive time or count runs out, or the server's socket is closed.    *)
(***************************************************************************)
\* Mutant: the task stays in the queue.
TakeTaskPeek(w) ==
    /\ wpc[w] = "idle" /\ tasks # <<>>
    /\ wconn' = [wconn EXCEPT ![w] = Head(tasks)]
    /\ wpc' = [wpc EXCEPT ![w] = "loop"]
    /\ served' = [served EXCEPT ![w] = 0]
    /\ UNCHANGED <<alive, mainVars, backlog, tasks, wreq, jobs, ready, hookVars,
                   netVars, clientVars>>

TakeTask(w) ==
    /\ wpc[w] = "idle" /\ tasks # <<>>
    /\ wconn' = [wconn EXCEPT ![w] = Head(tasks)]
    /\ tasks' = Tail(tasks)
    /\ wpc' = [wpc EXCEPT ![w] = "loop"]
    /\ served' = [served EXCEPT ![w] = 0]
    /\ UNCHANGED <<alive, mainVars, backlog, wreq, jobs, ready, hookVars,
                   netVars, clientVars>>

\* Mutant: the worker goes on to other work without closing the socket.
DropConnection(w) ==
    /\ wconn' = [wconn EXCEPT ![w] = NoConn]
    /\ wpc' = [wpc EXCEPT ![w] = "idle"]
    /\ UNCHANGED net

CloseConnection(w) ==
    /\ net' = [net EXCEPT ![wconn[w]] = "closed"]
    /\ wconn' = [wconn EXCEPT ![w] = NoConn]
    /\ wpc' = [wpc EXCEPT ![w] = "idle"]

\* The loop's condition, checked before each wait for a request.
KeepAlive(w) ==
    /\ wpc[w] = "loop"
    /\ IF sockOpen /\ served[w] < KeepAliveMax
       THEN wpc' = [wpc EXCEPT ![w] = "poll"] /\ UNCHANGED <<wconn, net>>
       ELSE CloseConnection(w)
    /\ UNCHANGED <<alive, mainVars, backlog, tasks, wreq, served, jobs, ready,
                   hookVars, request, response, leftVars, clientVars>>

\* No request came in 15 s, or what has come is not a whole line in 5 s, or the
\* peer has closed.
PollEnds(w) ==
    /\ wpc[w] = "poll" /\ request[wconn[w]] = <<>>
    /\ CloseConnection(w)
    /\ UNCHANGED <<alive, mainVars, backlog, tasks, wreq, served, jobs, ready,
                   hookVars, request, response, leftVars, clientVars>>

\* Mutant: a request that has been read stays on the connection.
ReadRequestPeek(w) ==
    /\ wpc[w] = "poll" /\ request[wconn[w]] # <<>>
    /\ ~left[wconn[w]]
    /\ wreq' = [wreq EXCEPT ![w] = Head(request[wconn[w]])]
    /\ wpc' = [wpc EXCEPT ![w] = "routing"]
    /\ UNCHANGED <<alive, mainVars, backlog, tasks, wconn, served, jobs, ready,
                   hookVars, netVars, clientVars>>

\* The request line and the headers are read; the handlers of the routes find
\* the body read as well, AuthHandler::auth_handler runs before it is.
ReadRequest(w) ==
    /\ wpc[w] = "poll" /\ request[wconn[w]] # <<>>
    /\ ~left[wconn[w]]
    /\ wreq' = [wreq EXCEPT ![w] = Head(request[wconn[w]])]
    /\ request' = [request EXCEPT ![wconn[w]] = Tail(@)]
    /\ wpc' = [wpc EXCEPT ![w] = "routing"]
    /\ UNCHANGED <<alive, mainVars, backlog, tasks, wconn, served, jobs, ready,
                   hookVars, net, response, leftVars, clientVars>>

Reply(w, status) ==
    /\ response' = IF PeerOpen(wconn[w])
                   THEN [response EXCEPT ![wconn[w]] = Append(@, status)]
                   ELSE response
    /\ wpc' = [wpc EXCEPT ![w] = "loop"]
    /\ wreq' = [wreq EXCEPT ![w] = NoRequest]
    /\ served' = [served EXCEPT ![w] = @ + 1]

\* A line that was left is read as a request line, which it is not.
ReadLeftLine(w) ==
    /\ wpc[w] = "poll" /\ left[wconn[w]]
    /\ \E more \in BOOLEAN : left' = [left EXCEPT ![wconn[w]] = more]
    /\ stray' = [stray EXCEPT ![wconn[w]] = @ + 1]
    /\ Reply(w, "400")
    /\ UNCHANGED <<alive, mainVars, backlog, tasks, wconn, jobs, ready, hookVars,
                   net, request, clientVars>>

\* The last of them has no end: it runs into the request line of the next
\* request, whose headers and body are then lines that are left.
ReadSplicedLine(w) ==
    /\ wpc[w] = "poll" /\ left[wconn[w]]
    /\ request[wconn[w]] # <<>>
    /\ request' = [request EXCEPT ![wconn[w]] = Tail(@)]
    /\ Reply(w, "400")
    /\ UNCHANGED <<alive, mainVars, backlog, tasks, wconn, jobs, ready, hookVars,
                   net, leftVars, clientVars>>

\* AuthHandler::auth_handler, run before routing when auth is enabled.
Authorized(r) == AuthEnabled => r.key

\* A request that it refuses is over: if it has a body, that stays unread on a
\* connection which goes on.
auth_handler(w) ==
    /\ wpc[w] = "routing" /\ ~Authorized(wreq[w])
    /\ \E body \in BOOLEAN : left' = [left EXCEPT ![wconn[w]] = body]
    /\ Reply(w, "401")
    /\ UNCHANGED <<alive, mainVars, backlog, tasks, wconn, jobs, ready,
                   hookVars, net, request, stray, clientVars>>

\* Mutant: the handler runs in the hook pool and needs a free thread of it.
dump_in_pool(w) ==
    /\ wpc[w] = "routing" /\ Authorized(wreq[w])
    /\ wreq[w].route = "dump"
    /\ \E h \in HookThreads : hpc[h] = "idle"
    /\ Reply(w, "200")
    /\ UNCHANGED <<alive, mainVars, backlog, tasks, wconn, jobs, ready,
                   hookVars, net, request, leftVars, clientVars>>

dump(w) ==
    /\ wpc[w] = "routing" /\ Authorized(wreq[w])
    /\ wreq[w].route = "dump"
    /\ Reply(w, "200")
    /\ UNCHANGED <<alive, mainVars, backlog, tasks, wconn, jobs, ready,
                   hookVars, net, request, leftVars, clientVars>>

\* Mutant: the route is not behind the API key.
web_hook_submit_unchecked(w) ==
    /\ wpc[w] = "routing"
    /\ wreq[w].route = "webhook"
    /\ jobs' = Append(jobs, w)
    /\ ready' = [ready EXCEPT ![w] = FALSE]
    /\ wpc' = [wpc EXCEPT ![w] = "waiting"]
    /\ UNCHANGED <<alive, mainVars, backlog, tasks, wconn, wreq, served,
                   hookVars, netVars, clientVars>>

\* Mutant: the job captures the connection in place of the handler's frame.
web_hook_submit_conn(w) ==
    /\ wpc[w] = "routing" /\ Authorized(wreq[w])
    /\ wreq[w].route = "webhook"
    /\ jobs' = Append(jobs, wconn[w])
    /\ ready' = [ready EXCEPT ![w] = FALSE]
    /\ wpc' = [wpc EXCEPT ![w] = "waiting"]
    /\ UNCHANGED <<alive, mainVars, backlog, tasks, wconn, wreq, served,
                   hookVars, netVars, clientVars>>

\* web_hook submits the job and then looks at the future every two seconds.
web_hook_submit(w) ==
    /\ wpc[w] = "routing" /\ Authorized(wreq[w])
    /\ wreq[w].route = "webhook"
    /\ jobs' = Append(jobs, w)
    /\ ready' = [ready EXCEPT ![w] = FALSE]
    /\ wpc' = [wpc EXCEPT ![w] = "waiting"]
    /\ UNCHANGED <<alive, mainVars, backlog, tasks, wconn, wreq, served,
                   hookVars, netVars, clientVars>>

\* Mutant: one wait of two seconds instead of the loop.
web_hook_reply_timeout(w) ==
    /\ wpc[w] = "waiting"
    /\ Reply(w, "200")
    /\ UNCHANGED <<alive, mainVars, backlog, tasks, wconn, jobs, ready,
                   hookVars, net, request, leftVars, clientVars>>

\* It never calls get(): an exception of the job is dropped, the reply is 200.
web_hook_reply(w) ==
    /\ wpc[w] = "waiting" /\ ready[w]
    /\ Reply(w, "200")
    /\ UNCHANGED <<alive, mainVars, backlog, tasks, wconn, jobs, ready,
                   hookVars, net, request, leftVars, clientVars>>

-----------------------------------------------------------------------------
(***************************************************************************)
(* The hook pool: WebHook::call and http::Request::send.  "push" and       *)
(* "copy" are the windows in which call() appends to, and send() reads,    *)
(* the shared, unlocked vector of headers.                                 *)
(***************************************************************************)
TakeJob(h) ==
    /\ hpc[h] = "idle" /\ jobs # <<>>
    /\ hjob' = [hjob EXCEPT ![h] = Head(jobs)]
    /\ jobs' = Tail(jobs)
    /\ hpc' = [hpc EXCEPT ![h] = "push"]
    /\ UNCHANGED <<alive, mainVars, backlog, tasks, workerVars, ready, hconn,
                   netVars, clientVars>>

PushHeaders(h) ==
    /\ hpc[h] = "push"
    /\ hpc' = [hpc EXCEPT ![h] = "copy"]
    /\ UNCHANGED <<alive, mainVars, backlog, tasks, workerVars, jobs, ready,
                   hjob, hconn, netVars, clientVars>>

CopyHeaders(h) ==
    /\ hpc[h] = "copy"
    /\ hpc' = [hpc EXCEPT ![h] = "connect"]
    /\ UNCHANGED <<alive, mainVars, backlog, tasks, workerVars, jobs, ready,
                   hjob, hconn, netVars, clientVars>>

\* A push_back that overlaps another push_back or a copy is a data race: the
\* vector may survive (the other actions) or the process may crash.
HeadersRace(h, g) ==
    /\ h # g
    /\ hpc[h] = "push" /\ hpc[g] \in {"push", "copy"}

Crash ==
    /\ \E h, g \in HookThreads : HeadersRace(h, g)
    /\ alive' = FALSE
    /\ net' = [c \in Conns |-> IF net[c] = "none" THEN "none" ELSE "reset"]
    /\ UNCHANGED <<mainVars, backlog, tasks, workerVars, jobs, ready, hookVars,
                   request, response, leftVars, clientVars>>

\* Mutant: a job that ends leaves its future as it was.
JobEndsUnready(h) ==
    /\ hjob' = [hjob EXCEPT ![h] = NoWorker]
    /\ hpc' = [hpc EXCEPT ![h] = "idle"]
    /\ hconn' = [hconn EXCEPT ![h] = NoConn]
    /\ UNCHANGED ready

\* The job's packaged task ends, normally or with an exception: the future is
\* ready and the Socket's destructor has closed the connection.
JobEnds(h) ==
    /\ ready' = [ready EXCEPT ![hjob[h]] = TRUE]
    /\ hjob' = [hjob EXCEPT ![h] = NoWorker]
    /\ hpc' = [hpc EXCEPT ![h] = "idle"]
    /\ hconn' = [hconn EXCEPT ![h] = NoConn]

ForwardConnect(h) ==
    /\ hpc[h] = "connect"
    /\ IF SelfHook
       THEN \E f \in Forwards :
               /\ Connect(f, [route |-> "dump", key |-> HookKey])
               /\ hconn' = [hconn EXCEPT ![h] = f]
       ELSE UNCHANGED <<hconn, backlog, net, request>>
    /\ hpc' = [hpc EXCEPT ![h] = "recv"]
    /\ UNCHANGED <<alive, mainVars, tasks, workerVars, jobs, ready, hjob,
                   response, leftVars, clientVars>>

ForwardRefused(h) ==
    /\ hpc[h] = "connect"
    /\ SelfHook => ~sockOpen
    /\ JobEnds(h)
    /\ UNCHANGED <<alive, mainVars, backlog, tasks, workerVars, jobs, netVars,
                   clientVars>>

\* send() has no timeout: it returns with the answer, or with an empty
\* response when the peer closes, or throws when the connection is reset.
ForwardReturns(h) ==
    /\ hpc[h] = "recv"
    /\ SelfHook => \/ response[hconn[h]] # <<>>
                   \/ net[hconn[h]] \in {"closed", "reset"}
    /\ JobEnds(h)
    /\ response' = IF SelfHook
                   THEN [response EXCEPT ![hconn[h]] = <<>>]
                   ELSE response
    /\ UNCHANGED <<alive, mainVars, backlog, tasks, workerVars, jobs, net,
                   request, leftVars, clientVars>>

-----------------------------------------------------------------------------
(***************************************************************************)
(* HttpServer::stop(), called by config_handle() after a key was pressed,  *)
(* and the end of main().                                                  *)
(***************************************************************************)
\* Mutant: the socket is left open.
StopServerUnclosed ==
    /\ mainPc = "serving"
    /\ mainPc' = "joining"
    /\ UNCHANGED <<alive, sockOpen, listenPc, backlog, tasks, workerVars, jobs,
                   ready, hookVars, netVars, clientVars>>

\* mServer->stop() closes the socket; the kernel resets its backlog.
StopServer ==
    /\ mainPc = "serving"
    /\ mainPc' = "joining"
    /\ sockOpen' = FALSE
    /\ net' = [c \in Conns |-> IF net[c] = "backlog" THEN "reset" ELSE net[c]]
    /\ backlog' = <<>>
    /\ UNCHANGED <<alive, listenPc, tasks, workerVars, jobs, ready, hookVars,
                   request, response, leftVars, clientVars>>

\* mListenThread.join()
Joined ==
    /\ mainPc = "joining" /\ listenPc = "returned"
    /\ mainPc' = "stopped"
    /\ UNCHANGED <<alive, sockOpen, listenPc, backlog, tasks, workerVars, jobs,
                   ready, hookVars, netVars, clientVars>>

\* The handlers are destroyed, and with them the hook pool, which waits for
\* its jobs; then main() returns and the system closes what is still open.
Exit ==
    /\ mainPc = "stopped"
    /\ jobs = <<>> /\ \A h \in HookThreads : hpc[h] = "idle"
    /\ mainPc' = "exited"
    /\ net' = [c \in Conns |-> IF net[c] = "accepted" THEN "reset" ELSE net[c]]
    /\ UNCHANGED <<alive, sockOpen, listenPc, backlog, tasks, workerVars, jobs,
                   ready, hookVars, request, response, leftVars, clientVars>>

-----------------------------------------------------------------------------
ClientStep(c) == ClientReceive(c) \/ ClientFails(c)

ListenStep == Accept \/ LeaveAccept \/ ListenReturns

WorkerStep(w) ==
    \/ TakeTask(w) \/ KeepAlive(w) \/ PollEnds(w) \/ ReadRequest(w)
    \/ ReadLeftLine(w) \/ ReadSplicedLine(w)
    \/ auth_handler(w) \/ dump(w) \/ web_hook_submit(w) \/ web_hook_reply(w)

HookStep(h) ==
    \/ TakeJob(h) \/ PushHeaders(h) \/ CopyHeaders(h)
    \/ ForwardConnect(h) \/ ForwardRefused(h) \/ ForwardReturns(h)

MainStep == Joined \/ Exit

ServerStep ==
    \/ ListenStep
    \/ \E w \in Workers : WorkerStep(w)
    \/ \E h \in HookThreads : HookStep(h)
    \/ MainStep
    \/ StopServer
    \/ Crash

Next ==
    \/ \E c \in Clients : \/ ClientConnect(c) \/ ClientRequest(c)
                          \/ ClientStep(c) \/ ClientLeaves(c)
    \/ alive /\ ServerStep

Spec == Init /\ [][Next]_vars

(***************************************************************************)
(* Every thread of the process is scheduled, the keep-alive time runs out, *)
(* an external webhook answers or fails, and a client reads what arrives.  *)
(* Nobody has to send a request, to leave, or to stop the server.          *)
(***************************************************************************)
Fairness ==
    /\ WF_vars(alive /\ ListenStep)
    /\ WF_vars(alive /\ MainStep)
    /\ \A w \in Workers : WF_vars(alive /\ WorkerStep(w))
    /\ \A h \in HookThreads : WF_vars(alive /\ HookStep(h))
    /\ \A c \in Clients : WF_vars(ClientStep(c))

FairSpec == Spec /\ Fairness

-----------------------------------------------------------------------------
(***************************************************************************)
(* Properties.                                                             *)
(***************************************************************************)
\* Type invariant of the running server.
TypeOK ==
    /\ alive \in BOOLEAN
    /\ mainPc \in {"serving", "joining", "stopped", "exited"}
    /\ sockOpen \in BOOLEAN
    /\ listenPc \in {"accept", "drain", "returned"}
    /\ backlog \in Seq(Conns) /\ tasks \in Seq(Conns) /\ jobs \in Seq(Workers)
    /\ wpc \in [Workers -> {"idle", "loop", "poll", "routing", "waiting"}]
    /\ wconn \in [Workers -> Conns \cup {NoConn}]
    /\ wreq \in [Workers -> Requests \cup {NoRequest}]
    /\ served \in [Workers -> Nat]
    /\ ready \in [Workers -> BOOLEAN]
    /\ hpc \in [HookThreads -> {"idle", "push", "copy", "connect", "recv"}]
    /\ hjob \in [HookThreads -> Workers \cup {NoWorker}]
    /\ hconn \in [HookThreads -> Forwards \cup {NoConn}]
    /\ net \in [Conns -> {"none", "backlog", "accepted", "closed", "reset"}]
    /\ request \in [Conns -> Seq(Requests)]
    /\ response \in [Conns -> Seq({"200", "400", "401"})]
    /\ left \in [Conns -> BOOLEAN]
    /\ stray \in [Conns -> Nat]
    /\ cpc \in [Clients -> {"idle", "waiting", "gone"}]
    /\ sent \in [Clients -> Nat]

\* The handler's request outlives the job that captured it by reference: the
\* worker of every job that is queued or running is still inside web_hook,
\* waiting for this very future.
RequestOutlivesJob ==
    \A w \in Workers :
        (w \in ToSet(jobs) \/ \E h \in HookThreads : hjob[h] = w)
            => wpc[w] = "waiting" /\ ~ready[w]

\* A worker that waits for its future has exactly one job, queued or running:
\* none is lost between the pools and none runs twice.
OneJobPerWait ==
    /\ IsInjective(jobs)
    /\ \A h \in HookThreads : hjob[h] \notin ToSet(jobs)
    /\ \A h, g \in HookThreads : hjob[h] = hjob[g] /\ hjob[h] # NoWorker => h = g
    /\ \A w \in Workers :
          wpc[w] = "waiting" /\ ~ready[w] =>
              w \in ToSet(jobs) \/ \E h \in HookThreads : hjob[h] = w

\* A connection has one owner at a time on its way from the kernel's backlog
\* through the task queue to a worker, and only live ones have an owner.
OneOwnerPerConnection ==
    /\ IsInjective(backlog) /\ IsInjective(tasks)
    /\ \A w, v \in Workers : wconn[w] = wconn[v] /\ wconn[w] # NoConn => w = v
    /\ \A w \in Workers : wconn[w] \notin ToSet(tasks)
    /\ alive => \A c \in Conns :
          /\ c \in ToSet(backlog) => net[c] = "backlog"
          /\ (c \in ToSet(tasks) \/ \E w \in Workers : wconn[w] = c)
                => net[c] = "accepted"

\* The connections that were accepted and that nobody owns any more: what
\* Shutdown() purged.
Stranded == {c \in Conns : /\ net[c] = "accepted"
                           /\ c \notin ToSet(tasks)
                           /\ \A w \in Workers : wconn[w] # c}

\* A connection is only stranded by stop(), and then before a worker has read
\* anything from it: no request is abandoned once its handling has begun.
OnlyUnreadStranded ==
    \A c \in Stranded :
        /\ mainPc # "serving"
        /\ request[c] # <<>>
        /\ response[c] = <<>>

\* When stop() has joined the listen thread nothing of the server runs: no
\* worker, and no job of the hook pool although stop() does not wait for it.
StopQuiesces ==
    mainPc \in {"stopped", "exited"} =>
        /\ tasks = <<>> /\ backlog = <<>> /\ jobs = <<>>
        /\ \A w \in Workers : wpc[w] = "idle"
        /\ \A h \in HookThreads : hpc[h] = "idle"

\* A worker handles a request of the connection.
Handled(c) == \E w \in Workers : wconn[w] = c /\ wpc[w] \in {"routing", "waiting"}

\* What a client waits for is on its connection once: as a request that is unread,
\* or being handled, or answered.  The answers beyond that are those to the lines
\* of bodies that auth_handler left unread when it refused their requests: each
\* such line is answered 400, and shifts the answers of the connection by one, so
\* that the client takes them for answers to other requests.  On a connection
\* without such a line keep-alive never pairs an answer with another request.
RepliesSolicited ==
    \A c \in Clients :
        cpc[c] # "gone" =>
            Len(request[c]) + (IF Handled(c) THEN 1 ELSE 0) + Len(response[c])
                = (IF cpc[c] = "waiting" THEN 1 ELSE 0) + stray[c]

\* No forward is made for a request without the API key.
OnlyAuthorizedForwards ==
    \A h \in HookThreads :
        hjob[h] # NoWorker => Authorized(wreq[hjob[h]])

\* A client that is patient gets its answer or sees its connection end, stop()
\* or not.
PatientClientAnswered ==
    \A c \in Clients : cpc[c] = "waiting" ~> cpc[c] # "waiting"

\* While nobody stops the server, a patient client gets its answer.
AnsweredWhileServing ==
    \A c \in Clients :
        cpc[c] = "waiting" ~> cpc[c] # "waiting" \/ mainPc # "serving"

\* Pressing a key stops the server: stop() returns and the process ends.
StopTerminates == mainPc = "joining" ~> (mainPc = "exited" \/ ~alive)

=============================================================================
