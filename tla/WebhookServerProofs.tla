-------------------------- MODULE WebhookServerProofs --------------------------
(***************************************************************************)
(* Proofs about WebhookServer, for any numbers of clients, workers and     *)
(* hook threads, any backlog, and either target of the webhook.            *)
(*                                                                         *)
(* The inductive invariant has four parts: the types; JobInv, which ties   *)
(* a worker in web_hook() to the one job that captured its stack frame;    *)
(* OwnerInv, which gives every connection one owner; and StopInv, which    *)
(* follows stop() through the listen thread to the end of the process.     *)
(***************************************************************************)
EXTENDS MCWebhookServer, TLAPS

\* Jobs and waiting workers correspond one to one.
JobInv ==
    /\ \A h \in HookThreads : hjob[h] # NoWorker <=> hpc[h] # "idle"
    /\ RequestOutlivesJob
    /\ OneJobPerWait

\* A worker has a connection exactly while it is not idle; owners are unique.
OwnerInv ==
    /\ \A w \in Workers : wpc[w] = "idle" <=> wconn[w] = NoConn
    /\ OneOwnerPerConnection

\* How far the shutdown has come, as seen by each thread it passes through.
StopInv ==
    /\ mainPc = "serving" <=> sockOpen
    /\ listenPc # "accept" => ~sockOpen
    /\ ~sockOpen => backlog = <<>>
    /\ mainPc \in {"stopped", "exited"} => listenPc = "returned"
    /\ listenPc = "returned" => /\ tasks = <<>>
                                /\ \A w \in Workers : wpc[w] = "idle"

IInv == TypeOK /\ JobInv /\ OwnerInv /\ StopInv

-----------------------------------------------------------------------------
(***************************************************************************)
(* Sequences used as queues.                                               *)
(***************************************************************************)
\* Appending a new element keeps a queue free of repetitions.
LEMMA AppendQueue ==
    ASSUME NEW S, NEW q \in Seq(S), NEW e \in S
    PROVE  /\ Append(q, e) \in Seq(S)
           /\ ToSet(Append(q, e)) = ToSet(q) \cup {e}
           /\ IsInjective(q) /\ e \notin ToSet(q) => IsInjective(Append(q, e))
<1>1. /\ Append(q, e) \in Seq(S)
      /\ Len(Append(q, e)) = Len(q) + 1
      /\ \A i \in 1..Len(q) : Append(q, e)[i] = q[i]
      /\ Append(q, e)[Len(q) + 1] = e
      /\ DOMAIN Append(q, e) = 1..(Len(q) + 1)
      /\ DOMAIN q = 1..Len(q)
      /\ Len(q) \in Nat
  OBVIOUS
<1>2. ToSet(Append(q, e)) = ToSet(q) \cup {e}
  BY <1>1 DEF ToSet
<1>3. ASSUME IsInjective(q), e \notin ToSet(q) PROVE IsInjective(Append(q, e))
  BY <1>1, <1>3 DEF ToSet, IsInjective
<1>4. QED
  BY <1>1, <1>2, <1>3

\* Taking the head leaves the rest, and the head is not in it.
LEMMA TakeHead ==
    ASSUME NEW S, NEW q \in Seq(S), q # <<>>
    PROVE  /\ Head(q) \in S
           /\ Tail(q) \in Seq(S)
           /\ ToSet(q) = ToSet(Tail(q)) \cup {Head(q)}
           /\ IsInjective(q) => /\ IsInjective(Tail(q))
                                /\ Head(q) \notin ToSet(Tail(q))
<1>1. /\ Head(q) \in S
      /\ Tail(q) \in Seq(S)
      /\ Len(q) \in Nat \ {0}
      /\ DOMAIN q = 1..Len(q)
      /\ DOMAIN Tail(q) = 1..(Len(q) - 1)
      /\ \A i \in 1..(Len(q) - 1) : Tail(q)[i] = q[i + 1]
      /\ Head(q) = q[1]
  OBVIOUS
<1>2. ToSet(q) = ToSet(Tail(q)) \cup {Head(q)}
  <2>1. \A x \in ToSet(q) : x \in ToSet(Tail(q)) \/ x = Head(q)
    <3> SUFFICES ASSUME NEW i \in 1..Len(q), q[i] # Head(q)
                 PROVE  q[i] \in ToSet(Tail(q))
      BY <1>1 DEF ToSet
    <3>1. i - 1 \in 1..(Len(q) - 1) /\ Tail(q)[i - 1] = q[i]
      BY <1>1
    <3>2. QED
      BY <1>1, <3>1 DEF ToSet
  <2>2. \A x \in ToSet(Tail(q)) : x \in ToSet(q)
    BY <1>1 DEF ToSet
  <2>3. Head(q) \in ToSet(q)
    BY <1>1 DEF ToSet
  <2>4. QED
    BY <2>1, <2>2, <2>3
<1>3. ASSUME IsInjective(q) PROVE IsInjective(Tail(q)) /\ Head(q) \notin ToSet(Tail(q))
  BY <1>1, <1>3 DEF ToSet, IsInjective
<1>4. QED
  BY <1>1, <1>2, <1>3

\* What a sequence of a connection loses and gains.
LEMMA SeqLengths ==
    ASSUME NEW S, NEW q \in Seq(S)
    PROVE  /\ Len(q) \in Nat
           /\ \A e \in S : /\ Append(q, e) \in Seq(S) /\ Append(q, e) # <<>>
                          /\ Len(Append(q, e)) = Len(q) + 1
           /\ q # <<>> => /\ Head(q) \in S /\ Tail(q) \in Seq(S)
                          /\ Len(Tail(q)) = Len(q) - 1
           /\ <<>> \in Seq(S)
  OBVIOUS

\* The empty queue.
LEMMA EmptyQueue == ToSet(<<>>) = {} /\ IsInjective(<<>>)
  BY DEF ToSet, IsInjective

\* The members of a queue come from the set its elements are taken from.
LEMMA QueueMembers ==
    ASSUME NEW S, NEW q \in Seq(S)
    PROVE  ToSet(q) \subseteq S /\ (ToSet(q) = {} => q = <<>>)
<1>1. ToSet(q) \subseteq S
  BY DEF ToSet
<1>2. ASSUME q # <<>> PROVE ToSet(q) # {}
  <2>1. ToSet(q) = ToSet(Tail(q)) \cup {Head(q)}
    BY <1>2, TakeHead
  <2>2. QED
    BY <2>1
<1>3. QED
  BY <1>1, <1>2

-----------------------------------------------------------------------------
(***************************************************************************)
(* Types.                                                                  *)
(***************************************************************************)
\* The initial state satisfies the inductive invariant.
LEMMA InitIInv == Init => IInv
<1> SUFFICES ASSUME Init PROVE IInv
  OBVIOUS
<1> USE ServerAssumption DEF Init
<1>1. TypeOK
  BY DEF TypeOK
<1>2. JobInv
  BY EmptyQueue DEF JobInv, RequestOutlivesJob, OneJobPerWait
<1>3. OwnerInv
  BY EmptyQueue DEF OwnerInv, OneOwnerPerConnection
<1>4. StopInv
  BY DEF StopInv
<1>5. QED
  BY <1>1, <1>2, <1>3, <1>4 DEF IInv

\* What clients do keeps the types.
LEMMA ClientTypeOK ==
    ASSUME TypeOK, NEW c \in Clients,
           ClientConnect(c) \/ ClientRequest(c) \/ ClientStep(c) \/ ClientLeaves(c)
    PROVE  TypeOK'
<1> USE DEF TypeOK, mainVars, workerVars, hookVars, netVars, leftVars, clientVars
<1>1. CASE ClientConnect(c)
  <2>1. c \in Conns
    BY DEF Conns
  <2>2. backlog' \in Seq(Conns)
    BY <1>1, <2>1, AppendQueue DEF ClientConnect, Connect
  <2>3. PICK r \in ClientRequests : Connect(c, r)
    BY <1>1 DEF ClientConnect
  <2>4. Append(request[c], r) \in Seq(Requests)
    BY <2>1, SeqLengths, ServerAssumption
  <2>5. QED
    BY <1>1, <2>1, <2>2, <2>3, <2>4 DEF ClientConnect, Connect
<1>2. CASE ClientRequest(c)
  <2>1. PICK r \in ClientRequests : request' = [request EXCEPT ![c] = Append(@, r)]
    BY <1>2 DEF ClientRequest
  <2>2. Append(request[c], r) \in Seq(Requests)
    BY SeqLengths, ServerAssumption DEF Conns
  <2>3. QED
    BY <1>2, <2>1, <2>2 DEF ClientRequest, Conns
<1>3. CASE ClientReceive(c)
  <2>1. Tail(response[c]) \in Seq({"200", "400", "401"})
    BY <1>3, SeqLengths DEF ClientReceive, Conns
  <2>2. QED
    BY <1>3, <2>1 DEF ClientReceive
<1>4. CASE ClientFails(c)
  BY <1>4 DEF ClientFails
<1>5. CASE ClientLeaves(c)
  BY <1>5, SeqLengths DEF ClientLeaves, Conns
<1>6. QED
  BY <1>1, <1>2, <1>3, <1>4, <1>5 DEF ClientStep

\* What the listen thread and the main thread do keeps the types.
LEMMA ListenTypeOK ==
    ASSUME TypeOK, ListenStep \/ MainStep \/ StopServer \/ Crash
    PROVE  TypeOK'
<1> USE DEF TypeOK, mainVars, workerVars, hookVars, netVars, leftVars, clientVars
<1>1. CASE Accept
  <2>1. Head(backlog) \in Conns /\ tasks' \in Seq(Conns) /\ backlog' \in Seq(Conns)
    BY <1>1, TakeHead, AppendQueue DEF Accept, Enqueue
  <2>2. QED
    BY <1>1, <2>1 DEF Accept
<1>2. CASE LeaveAccept
  BY <1>2 DEF LeaveAccept, Shutdown
<1>3. CASE ListenReturns
  BY <1>3 DEF ListenReturns
<1>4. CASE Joined
  BY <1>4 DEF Joined
<1>5. CASE Exit
  BY <1>5 DEF Exit
<1>6. CASE StopServer
  <2>1. net' \in [Conns -> {"none", "backlog", "accepted", "closed", "reset"}]
    BY <1>6 DEF StopServer
  <2>2. backlog' \in Seq(Conns)
    BY <1>6 DEF StopServer
  <2>3. QED
    BY <1>6, <2>1, <2>2 DEF StopServer
<1>7. CASE Crash
  BY <1>7 DEF Crash
<1>8. QED
  BY <1>1, <1>2, <1>3, <1>4, <1>5, <1>6, <1>7 DEF ListenStep, MainStep

\* What a worker does keeps the types (it has a connection when it is not idle).
LEMMA WorkerTypeOK ==
    ASSUME TypeOK, OwnerInv, NEW w \in Workers, WorkerStep(w)
    PROVE  TypeOK'
<1> USE DEF TypeOK, mainVars, workerVars, hookVars, netVars, leftVars, clientVars
<1>c. wpc[w] # "idle" => wconn[w] \in Conns
  BY DEF OwnerInv
<1>1. CASE TakeTask(w)
  <2>1. Head(tasks) \in Conns /\ tasks' \in Seq(Conns)
    BY <1>1, TakeHead DEF TakeTask
  <2>2. QED
    BY <1>1, <2>1 DEF TakeTask
<1>2. CASE KeepAlive(w)
  BY <1>2, <1>c DEF KeepAlive, CloseConnection
<1>3. CASE PollEnds(w)
  BY <1>3, <1>c DEF PollEnds, CloseConnection
<1>r. ASSUME NEW status \in {"200", "400", "401"}, Reply(w, status), wpc[w] # "idle"
      PROVE  /\ response' \in [Conns -> Seq({"200", "400", "401"})]
             /\ wpc' \in [Workers -> {"idle", "loop", "poll", "routing", "waiting"}]
             /\ wreq' \in [Workers -> Requests \cup {NoRequest}]
             /\ served' \in [Workers -> Nat]
  <2>1. Append(response[wconn[w]], status) \in Seq({"200", "400", "401"})
    BY <1>r, <1>c, SeqLengths
  <2>2. response' \in [Conns -> Seq({"200", "400", "401"})]
    BY <1>r, <1>c, <2>1 DEF Reply
  <2>3. /\ wpc' \in [Workers -> {"idle", "loop", "poll", "routing", "waiting"}]
        /\ wreq' \in [Workers -> Requests \cup {NoRequest}]
        /\ served' \in [Workers -> Nat]
    BY <1>r DEF Reply
  <2>4. QED
    BY <2>2, <2>3
<1>t. ASSUME wpc[w] # "idle", request[wconn[w]] # <<>>
      PROVE  /\ Head(request[wconn[w]]) \in Requests
             /\ [request EXCEPT ![wconn[w]] = Tail(@)] \in [Conns -> Seq(Requests)]
  BY <1>t, <1>c, SeqLengths
<1>4. CASE ReadRequest(w)
  BY <1>4, <1>t DEF ReadRequest
<1>5. CASE auth_handler(w)
  BY <1>5, <1>r DEF auth_handler
<1>6. CASE dump(w)
  BY <1>6, <1>r DEF dump
<1>10. CASE ReadLeftLine(w)
  <2>1. wpc[w] = "poll" /\ Reply(w, "400") /\ stray' = [stray EXCEPT ![wconn[w]] = @ + 1]
    BY <1>10 DEF ReadLeftLine
  <2>2. PICK more \in BOOLEAN : left' = [left EXCEPT ![wconn[w]] = more]
    BY <1>10 DEF ReadLeftLine
  <2>3. stray' \in [Conns -> Nat] /\ left' \in [Conns -> BOOLEAN]
    BY <2>1, <2>2, <1>c
  <2>4. /\ response' \in [Conns -> Seq({"200", "400", "401"})]
        /\ wpc' \in [Workers -> {"idle", "loop", "poll", "routing", "waiting"}]
        /\ wreq' \in [Workers -> Requests \cup {NoRequest}]
        /\ served' \in [Workers -> Nat]
    BY <2>1, <1>r
  <2>5. QED
    BY <1>10, <2>3, <2>4 DEF ReadLeftLine
<1>11. CASE ReadSplicedLine(w)
  BY <1>11, <1>r, <1>t DEF ReadSplicedLine
<1>7. CASE web_hook_submit(w)
  <2>1. jobs' \in Seq(Workers)
    BY <1>7, AppendQueue DEF web_hook_submit
  <2>2. QED
    BY <1>7, <2>1 DEF web_hook_submit
<1>8. CASE web_hook_reply(w)
  BY <1>8, <1>r DEF web_hook_reply
<1>9. QED
  BY <1>1, <1>2, <1>3, <1>4, <1>5, <1>6, <1>7, <1>8, <1>10, <1>11 DEF WorkerStep

\* What a hook thread does keeps the types.
LEMMA HookTypeOK ==
    ASSUME TypeOK, NEW h \in HookThreads, HookStep(h)
    PROVE  TypeOK'
<1> USE DEF TypeOK, mainVars, workerVars, hookVars, netVars, leftVars, clientVars
<1>1. CASE TakeJob(h)
  <2>1. Head(jobs) \in Workers /\ jobs' \in Seq(Workers)
    BY <1>1, TakeHead DEF TakeJob
  <2>2. QED
    BY <1>1, <2>1 DEF TakeJob
<1>2. CASE PushHeaders(h)
  BY <1>2 DEF PushHeaders
<1>3. CASE CopyHeaders(h)
  BY <1>3 DEF CopyHeaders
<1>4. CASE ForwardConnect(h) /\ SelfHook
  <2>1. PICK f \in Forwards : Connect(f, [route |-> "dump", key |-> HookKey]) /\ hconn' = [hconn EXCEPT ![h] = f]
    BY <1>4 DEF ForwardConnect
  <2>2. f \in Conns
    BY DEF Conns
  <2>3. backlog' \in Seq(Conns)
    BY <2>1, <2>2, AppendQueue DEF Connect
  <2>4. Append(request[f], [route |-> "dump", key |-> HookKey]) \in Seq(Requests)
    <3>1. [route |-> "dump", key |-> HookKey] \in Requests
      BY ServerAssumption DEF Requests
    <3>2. QED
      BY <2>2, <3>1, SeqLengths
  <2>5. QED
    BY <1>4, <2>1, <2>2, <2>3, <2>4 DEF ForwardConnect, Connect
<1>5. CASE ForwardConnect(h) /\ ~SelfHook
  BY <1>5 DEF ForwardConnect
<1>6. CASE ForwardRefused(h)
  BY <1>6 DEF ForwardRefused, JobEnds
<1>7. CASE ForwardReturns(h)
  BY <1>7, SeqLengths DEF ForwardReturns, JobEnds
<1>8. QED
  BY <1>1, <1>2, <1>3, <1>4, <1>5, <1>6, <1>7 DEF HookStep

\* Every step keeps the types.
LEMMA StepTypeOK == TypeOK /\ OwnerInv /\ [Next]_vars => TypeOK'
<1> SUFFICES ASSUME TypeOK, OwnerInv, [Next]_vars PROVE TypeOK'
  OBVIOUS
<1>1. CASE UNCHANGED vars
  BY <1>1 DEF vars, mainVars, workerVars, hookVars, netVars, leftVars, clientVars, TypeOK
<1>2. QED
  BY <1>1, ClientTypeOK, ListenTypeOK, WorkerTypeOK, HookTypeOK
  DEF Next, ServerStep

-----------------------------------------------------------------------------
(***************************************************************************)
(* Jobs.                                                                   *)
(***************************************************************************)
\* A step that leaves the jobs and their futures alone, and that no worker
\* uses to enter or to leave web_hook(), keeps JobInv.
LEMMA QuietJobInv ==
    ASSUME JobInv, UNCHANGED <<jobs, ready, hjob>>,
           \A h \in HookThreads : hpc'[h] = "idle" <=> hpc[h] = "idle",
           \A w \in Workers : wpc'[w] = "waiting" <=> wpc[w] = "waiting"
    PROVE  JobInv'
<1>1. jobs' = jobs /\ ready' = ready /\ hjob' = hjob
  OBVIOUS
<1>2. ToSet(jobs)' = ToSet(jobs) /\ (IsInjective(jobs)' <=> IsInjective(jobs))
  BY <1>1
<1>3. QED
  BY <1>1, <1>2 DEF JobInv, RequestOutlivesJob, OneJobPerWait

\* The end of a job frees its hook thread and makes its worker's future ready.
LEMMA JobEndsJobInv ==
    ASSUME TypeOK, JobInv, NEW h \in HookThreads, hpc[h] # "idle", JobEnds(h),
           UNCHANGED <<jobs, wpc>>
    PROVE  JobInv'
<1>1. jobs' = jobs /\ wpc' = wpc /\ ToSet(jobs)' = ToSet(jobs)
      /\ (IsInjective(jobs)' <=> IsInjective(jobs))
  OBVIOUS
<1>2. hjob[h] \in Workers /\ hjob[h] \notin ToSet(jobs)
  BY DEF JobInv, OneJobPerWait, TypeOK
<1>3. /\ \A w \in Workers : ready'[w] <=> (ready[w] \/ w = hjob[h])
      /\ \A g \in HookThreads : hjob'[g] = IF g = h THEN NoWorker ELSE hjob[g]
      /\ \A g \in HookThreads : hpc'[g] = IF g = h THEN "idle" ELSE hpc[g]
  BY <1>2 DEF JobEnds, TypeOK
<1>4. \A g \in HookThreads : g # h => hjob[g] # hjob[h]
  BY <1>2, ServerAssumption DEF JobInv, OneJobPerWait
<1>5. \A g \in HookThreads : hjob'[g] # NoWorker <=> hpc'[g] # "idle"
  BY <1>3 DEF JobInv
<1>6. RequestOutlivesJob'
  BY <1>1, <1>2, <1>3, <1>4, ServerAssumption DEF JobInv, RequestOutlivesJob
<1>7. OneJobPerWait'
  <2>1. ToSet(jobs) \subseteq Workers
    BY QueueMembers DEF TypeOK
  <2>2. \A g \in HookThreads : hjob'[g] \notin ToSet(jobs)
    BY <2>1, <1>3, ServerAssumption DEF JobInv, OneJobPerWait
  <2>3. \A g, k \in HookThreads :
            hjob'[g] = hjob'[k] /\ hjob'[g] # NoWorker => g = k
    BY <1>3 DEF JobInv, OneJobPerWait
  <2>4. ASSUME NEW w \in Workers, wpc[w] = "waiting", ~ready'[w]
        PROVE  w \in ToSet(jobs) \/ \E g \in HookThreads : hjob'[g] = w
    BY <2>4, <1>3 DEF JobInv, OneJobPerWait
  <2>5. QED
    BY <1>1, <2>2, <2>3, <2>4 DEF JobInv, OneJobPerWait
<1>8. QED
  BY <1>5, <1>6, <1>7 DEF JobInv

\* What a worker does keeps JobInv.
LEMMA WorkerJobInv ==
    ASSUME TypeOK, JobInv, NEW w \in Workers, WorkerStep(w)
    PROVE  JobInv'
<1> USE DEF TypeOK, hookVars
<1>1. CASE TakeTask(w) \/ KeepAlive(w) \/ PollEnds(w) \/ ReadRequest(w)
           \/ ReadLeftLine(w) \/ ReadSplicedLine(w) \/ auth_handler(w) \/ dump(w)
  BY <1>1, QuietJobInv
  DEF TakeTask, KeepAlive, PollEnds, ReadRequest, ReadLeftLine, ReadSplicedLine,
      auth_handler, dump, Reply, CloseConnection
<1>2. CASE web_hook_submit(w)
  <2>1. wpc[w] = "routing" /\ jobs' = Append(jobs, w) /\ hpc' = hpc /\ hjob' = hjob
    BY <1>2 DEF web_hook_submit
  <2>2. /\ \A v \in Workers : wpc'[v] = IF v = w THEN "waiting" ELSE wpc[v]
        /\ \A v \in Workers : ready'[v] <=> (v # w /\ ready[v])
    BY <1>2 DEF web_hook_submit
  <2>3. w \notin ToSet(jobs) /\ \A h \in HookThreads : hjob[h] # w
    BY <2>1 DEF JobInv, RequestOutlivesJob
  <2>4. /\ ToSet(jobs)' = ToSet(jobs) \cup {w}
        /\ IsInjective(jobs)'
    BY <2>1, <2>3, AppendQueue DEF JobInv, OneJobPerWait
  <2>5. RequestOutlivesJob'
    BY <2>1, <2>2, <2>3, <2>4 DEF JobInv, RequestOutlivesJob
  <2>6. OneJobPerWait'
    BY <2>1, <2>2, <2>3, <2>4 DEF JobInv, OneJobPerWait
  <2>7. QED
    BY <2>1, <2>5, <2>6 DEF JobInv
<1>3. CASE web_hook_reply(w)
  <2>1. wpc[w] = "waiting" /\ ready[w] /\ jobs' = jobs /\ hpc' = hpc
        /\ hjob' = hjob /\ ready' = ready
    BY <1>3 DEF web_hook_reply
  <2>2. \A v \in Workers : wpc'[v] = IF v = w THEN "loop" ELSE wpc[v]
    BY <1>3 DEF web_hook_reply, Reply
  <2>3. ToSet(jobs)' = ToSet(jobs) /\ (IsInjective(jobs)' <=> IsInjective(jobs))
    BY <2>1
  <2>4. RequestOutlivesJob'
    BY <2>1, <2>2, <2>3 DEF JobInv, RequestOutlivesJob
  <2>5. OneJobPerWait'
    BY <2>1, <2>2, <2>3 DEF JobInv, OneJobPerWait
  <2>6. QED
    BY <2>1, <2>4, <2>5 DEF JobInv
<1>4. QED
  BY <1>1, <1>2, <1>3 DEF WorkerStep

\* What a hook thread does keeps JobInv.
LEMMA HookJobInv ==
    ASSUME TypeOK, JobInv, NEW h \in HookThreads, HookStep(h)
    PROVE  JobInv'
<1> USE DEF TypeOK, workerVars
<1>1. CASE TakeJob(h)
  <2>1. hpc[h] = "idle" /\ hjob[h] = NoWorker /\ jobs # <<>> /\ jobs' = Tail(jobs)
        /\ wpc' = wpc /\ ready' = ready
    BY <1>1 DEF TakeJob, JobInv
  <2>2. /\ \A g \in HookThreads : hjob'[g] = IF g = h THEN Head(jobs) ELSE hjob[g]
        /\ \A g \in HookThreads : hpc'[g] = IF g = h THEN "push" ELSE hpc[g]
    BY <1>1 DEF TakeJob
  <2>3. /\ Head(jobs) \in Workers
        /\ ToSet(jobs) = ToSet(jobs)' \cup {Head(jobs)}
        /\ IsInjective(jobs)'
        /\ Head(jobs) \notin ToSet(jobs)'
    BY <2>1, TakeHead DEF JobInv, OneJobPerWait
  <2>4. \A g \in HookThreads : hjob'[g] # NoWorker <=> hpc'[g] # "idle"
    BY <2>2, <2>3, ServerAssumption DEF JobInv
  <2>5. RequestOutlivesJob'
    BY <2>1, <2>2, <2>3 DEF JobInv, RequestOutlivesJob
  <2>6. OneJobPerWait'
    <3>0. \A g \in HookThreads : hjob[g] \notin ToSet(jobs)
      BY DEF JobInv, OneJobPerWait
    <3>1. \A g \in HookThreads : hjob'[g] \notin ToSet(jobs)'
      BY <3>0, <2>2, <2>3
    <3>2. \A g, k \in HookThreads :
              hjob'[g] = hjob'[k] /\ hjob'[g] # NoWorker => g = k
      BY <2>2, <2>3 DEF JobInv, OneJobPerWait
    <3>3. ASSUME NEW w \in Workers, wpc[w] = "waiting", ~ready[w]
          PROVE  w \in ToSet(jobs)' \/ \E g \in HookThreads : hjob'[g] = w
      <4>1. w \in ToSet(jobs) \/ \E g \in HookThreads : hjob[g] = w
        BY <3>3 DEF JobInv, OneJobPerWait
      <4>2. ASSUME w \in ToSet(jobs), w \notin ToSet(jobs)' PROVE hjob'[h] = w
        BY <4>2, <2>2, <2>3
      <4>3. ASSUME NEW g \in HookThreads, hjob[g] = w PROVE hjob'[g] = w
        BY <4>3, <2>1, <2>2, ServerAssumption
      <4>4. QED
        BY <4>1, <4>2, <4>3
    <3>4. QED
      BY <2>1, <2>3, <3>1, <3>2, <3>3 DEF OneJobPerWait
  <2>7. QED
    BY <2>4, <2>5, <2>6 DEF JobInv
<1>2. CASE PushHeaders(h) \/ CopyHeaders(h) \/ ForwardConnect(h)
  BY <1>2, QuietJobInv DEF PushHeaders, CopyHeaders, ForwardConnect
<1>3. CASE ForwardRefused(h)
  BY <1>3, JobEndsJobInv DEF ForwardRefused
<1>4. CASE ForwardReturns(h)
  BY <1>4, JobEndsJobInv DEF ForwardReturns
<1>5. QED
  BY <1>1, <1>2, <1>3, <1>4 DEF HookStep

\* Every step keeps JobInv.
LEMMA StepJobInv == TypeOK /\ JobInv /\ [Next]_vars => JobInv'
<1> SUFFICES ASSUME TypeOK, JobInv, [Next]_vars PROVE JobInv'
  OBVIOUS
<1> USE DEF hookVars, workerVars
<1>1. CASE UNCHANGED vars
  BY <1>1, QuietJobInv DEF vars
<1>2. ASSUME NEW c \in Clients,
             ClientConnect(c) \/ ClientRequest(c) \/ ClientStep(c) \/ ClientLeaves(c)
      PROVE  JobInv'
  BY <1>2, QuietJobInv
  DEF ClientConnect, ClientRequest, ClientStep, ClientReceive, ClientFails,
      ClientLeaves
<1>3. CASE ListenStep \/ MainStep \/ StopServer \/ Crash
  BY <1>3, QuietJobInv
  DEF ListenStep, MainStep, StopServer, Crash, Accept, LeaveAccept,
      ListenReturns, Joined, Exit
<1>4. QED
  BY <1>1, <1>2, <1>3, WorkerJobInv, HookJobInv DEF Next, ServerStep

-----------------------------------------------------------------------------
(***************************************************************************)
(* Owners of connections.                                                  *)
(***************************************************************************)
\* A step that moves no connection keeps OwnerInv.
LEMMA QuietOwnerInv ==
    ASSUME OwnerInv, UNCHANGED <<backlog, tasks, wconn>>,
           \A w \in Workers : wpc'[w] = "idle" <=> wpc[w] = "idle",
           alive' => /\ alive
                     /\ \A c \in Conns :
                           net[c] \in {"backlog", "accepted"} => net'[c] = net[c]
    PROVE  OwnerInv'
<1>1. backlog' = backlog /\ tasks' = tasks /\ wconn' = wconn
  OBVIOUS
<1>2. /\ ToSet(backlog)' = ToSet(backlog)
      /\ ToSet(tasks)' = ToSet(tasks)
      /\ IsInjective(backlog)' <=> IsInjective(backlog)
      /\ IsInjective(tasks)' <=> IsInjective(tasks)
  BY <1>1
<1>3. OneOwnerPerConnection'
  BY <1>1, <1>2 DEF OwnerInv, OneOwnerPerConnection
<1>4. QED
  BY <1>1, <1>3 DEF OwnerInv

\* A new connection is in nobody's hands but the backlog's.
LEMMA ConnectOwnerInv ==
    ASSUME TypeOK, OwnerInv, alive, NEW c \in Conns, NEW r, Connect(c, r),
           UNCHANGED <<tasks, wconn, wpc>>
    PROVE  OwnerInv'
<1>1. tasks' = tasks /\ wconn' = wconn /\ wpc' = wpc
  OBVIOUS
<1>2. /\ net[c] = "none"
      /\ \A d \in Conns : net'[d] = IF d = c THEN "backlog" ELSE net[d]
  BY DEF Connect, TypeOK
<1>3. c \notin ToSet(backlog) /\ c \notin ToSet(tasks)
      /\ \A w \in Workers : wconn[w] # c
  BY <1>2 DEF OwnerInv, OneOwnerPerConnection
<1>4. /\ ToSet(backlog)' = ToSet(backlog) \cup {c}
      /\ IsInjective(backlog)'
  BY <1>3, AppendQueue DEF Connect, OwnerInv, OneOwnerPerConnection, TypeOK
<1>5. /\ ToSet(tasks)' = ToSet(tasks)
      /\ IsInjective(tasks)' <=> IsInjective(tasks)
  BY <1>1
<1>6. OneOwnerPerConnection'
  BY <1>1, <1>2, <1>3, <1>4, <1>5 DEF OwnerInv, OneOwnerPerConnection
<1>7. QED
  BY <1>1, <1>6 DEF OwnerInv

\* A worker that closes its connection gives it up for good.
LEMMA CloseOwnerInv ==
    ASSUME TypeOK, OwnerInv, NEW w \in Workers, wpc[w] # "idle",
           CloseConnection(w), UNCHANGED <<alive, backlog, tasks>>
    PROVE  OwnerInv'
<1>1. alive' = alive /\ backlog' = backlog /\ tasks' = tasks
  OBVIOUS
<1>2. /\ ToSet(backlog)' = ToSet(backlog)
      /\ ToSet(tasks)' = ToSet(tasks)
      /\ IsInjective(backlog)' <=> IsInjective(backlog)
      /\ IsInjective(tasks)' <=> IsInjective(tasks)
  BY <1>1
<1>3. wconn[w] \in Conns
  BY DEF OwnerInv, TypeOK
<1>4. /\ \A v \in Workers : wconn'[v] = IF v = w THEN NoConn ELSE wconn[v]
      /\ \A v \in Workers : wpc'[v] = IF v = w THEN "idle" ELSE wpc[v]
      /\ \A c \in Conns : net'[c] = IF c = wconn[w] THEN "closed" ELSE net[c]
  BY <1>3 DEF CloseConnection, TypeOK
<1>5. \A v \in Workers : v # w => wconn[v] # wconn[w]
  BY <1>3, ServerAssumption DEF OwnerInv, OneOwnerPerConnection
<1>6. NoConn \notin ToSet(tasks)
  BY QueueMembers, ServerAssumption DEF TypeOK
<1>7. alive => wconn[w] \notin ToSet(backlog) /\ wconn[w] \notin ToSet(tasks)
  <2>1. alive => net[wconn[w]] = "accepted"
    BY <1>3 DEF OwnerInv, OneOwnerPerConnection
  <2>2. QED
    BY <2>1, <1>3 DEF OwnerInv, OneOwnerPerConnection
<1>8. \A v \in Workers : wconn'[v] \notin ToSet(tasks)
  BY <1>4, <1>6 DEF OwnerInv, OneOwnerPerConnection
<1>9. \A u, v \in Workers : wconn'[u] = wconn'[v] /\ wconn'[u] # NoConn => u = v
  BY <1>4 DEF OwnerInv, OneOwnerPerConnection
<1>10. ASSUME alive, NEW c \in Conns
       PROVE  /\ c \in ToSet(backlog) => net'[c] = "backlog"
              /\ (c \in ToSet(tasks) \/ \E v \in Workers : wconn'[v] = c)
                    => net'[c] = "accepted"
  <2>1. c \in ToSet(backlog) => net'[c] = "backlog"
    BY <1>10, <1>4, <1>7 DEF OwnerInv, OneOwnerPerConnection
  <2>2. c \in ToSet(tasks) => net'[c] = "accepted"
    BY <1>10, <1>4, <1>7 DEF OwnerInv, OneOwnerPerConnection
  <2>3. ASSUME NEW v \in Workers, wconn'[v] = c PROVE net'[c] = "accepted"
    <3>1. v # w /\ wconn[v] = c /\ c # wconn[w]
      BY <2>3, <1>4, <1>5, ServerAssumption
    <3>2. QED
      BY <3>1, <1>10, <1>4 DEF OwnerInv, OneOwnerPerConnection
  <2>4. QED
    BY <2>1, <2>2, <2>3
<1>11. OneOwnerPerConnection'
  BY <1>1, <1>2, <1>8, <1>9, <1>10 DEF OwnerInv, OneOwnerPerConnection
<1>12. \A v \in Workers : wpc'[v] = "idle" <=> wconn'[v] = NoConn
  BY <1>3, <1>4, ServerAssumption DEF OwnerInv
<1>13. QED
  BY <1>11, <1>12 DEF OwnerInv

\* accept() moves the head of the backlog to the end of the task queue.
LEMMA AcceptOwnerInv ==
    ASSUME TypeOK, OwnerInv, alive, Accept
    PROVE  OwnerInv'
<1>1. /\ alive' = alive /\ wconn' = wconn /\ wpc' = wpc
      /\ backlog # <<>> /\ backlog' = Tail(backlog)
      /\ tasks' = Append(tasks, Head(backlog))
      /\ net' = [net EXCEPT ![Head(backlog)] = "accepted"]
  BY DEF Accept, Enqueue, workerVars
<1>2. /\ Head(backlog) \in Conns
      /\ ToSet(backlog) = ToSet(backlog)' \cup {Head(backlog)}
      /\ IsInjective(backlog)'
      /\ Head(backlog) \notin ToSet(backlog)'
  BY <1>1, TakeHead DEF TypeOK, OwnerInv, OneOwnerPerConnection
<1>3. net[Head(backlog)] = "backlog"
  BY <1>2 DEF OwnerInv, OneOwnerPerConnection
<1>4. Head(backlog) \notin ToSet(tasks) /\ \A w \in Workers : wconn[w] # Head(backlog)
  BY <1>2, <1>3 DEF OwnerInv, OneOwnerPerConnection
<1>5. /\ ToSet(tasks)' = ToSet(tasks) \cup {Head(backlog)}
      /\ IsInjective(tasks)'
  BY <1>1, <1>2, <1>4, AppendQueue DEF TypeOK, OwnerInv, OneOwnerPerConnection
<1>6. \A c \in Conns : net'[c] = IF c = Head(backlog) THEN "accepted" ELSE net[c]
  BY <1>1, <1>2 DEF TypeOK
<1>7. \A w \in Workers : wconn[w] \notin ToSet(tasks)'
  BY <1>4, <1>5 DEF OwnerInv, OneOwnerPerConnection
<1>8. ASSUME NEW c \in Conns
      PROVE  /\ c \in ToSet(backlog)' => net'[c] = "backlog"
             /\ (c \in ToSet(tasks)' \/ \E w \in Workers : wconn[w] = c)
                   => net'[c] = "accepted"
  BY <1>2, <1>4, <1>5, <1>6 DEF OwnerInv, OneOwnerPerConnection
<1>9. OneOwnerPerConnection'
  BY <1>1, <1>2, <1>5, <1>7, <1>8 DEF OwnerInv, OneOwnerPerConnection
<1>10. QED
  BY <1>1, <1>9 DEF OwnerInv

\* A worker takes the head of the task queue.
LEMMA TakeTaskOwnerInv ==
    ASSUME TypeOK, OwnerInv, NEW w \in Workers, TakeTask(w)
    PROVE  OwnerInv'
<1>1. /\ alive' = alive /\ backlog' = backlog /\ net' = net
      /\ wpc[w] = "idle" /\ tasks # <<>> /\ tasks' = Tail(tasks)
  BY DEF TakeTask, netVars
<1>2. /\ \A v \in Workers : wconn'[v] = IF v = w THEN Head(tasks) ELSE wconn[v]
      /\ \A v \in Workers : wpc'[v] = IF v = w THEN "loop" ELSE wpc[v]
  BY DEF TakeTask, TypeOK
<1>3. /\ Head(tasks) \in Conns
      /\ ToSet(tasks) = ToSet(tasks)' \cup {Head(tasks)}
      /\ IsInjective(tasks)'
      /\ Head(tasks) \notin ToSet(tasks)'
  BY <1>1, TakeHead DEF TypeOK, OwnerInv, OneOwnerPerConnection
<1>4. \A v \in Workers : wconn[v] \notin ToSet(tasks)
  BY DEF OwnerInv, OneOwnerPerConnection
<1>5. /\ ToSet(backlog)' = ToSet(backlog)
      /\ IsInjective(backlog)' <=> IsInjective(backlog)
  BY <1>1
<1>6. \A v \in Workers : wconn'[v] \notin ToSet(tasks)'
  BY <1>2, <1>3, <1>4
<1>7. \A u, v \in Workers : wconn'[u] = wconn'[v] /\ wconn'[u] # NoConn => u = v
  BY <1>2, <1>3, <1>4 DEF OwnerInv, OneOwnerPerConnection
<1>8. ASSUME alive, NEW c \in Conns
      PROVE  /\ c \in ToSet(backlog) => net[c] = "backlog"
             /\ (c \in ToSet(tasks)' \/ \E v \in Workers : wconn'[v] = c)
                   => net[c] = "accepted"
  <2>1. c \in ToSet(tasks) => net[c] = "accepted"
    BY <1>8 DEF OwnerInv, OneOwnerPerConnection
  <2>2. \A v \in Workers : wconn[v] = c => net[c] = "accepted"
    BY <1>8 DEF OwnerInv, OneOwnerPerConnection
  <2>3. c \in ToSet(backlog) => net[c] = "backlog"
    BY <1>8 DEF OwnerInv, OneOwnerPerConnection
  <2>4. QED
    BY <2>1, <2>2, <2>3, <1>2, <1>3
<1>9. OneOwnerPerConnection'
  BY <1>1, <1>3, <1>5, <1>6, <1>7, <1>8 DEF OwnerInv, OneOwnerPerConnection
<1>10. \A v \in Workers : wpc'[v] = "idle" <=> wconn'[v] = NoConn
  BY <1>2, <1>3, ServerAssumption DEF OwnerInv
<1>11. QED
  BY <1>9, <1>10 DEF OwnerInv

\* What the listen thread and the main thread do keeps OwnerInv.
LEMMA ListenOwnerInv ==
    ASSUME TypeOK, OwnerInv, StopInv, alive,
           ListenStep \/ MainStep \/ StopServer \/ Crash
    PROVE  OwnerInv'
<1> USE DEF workerVars, netVars
<1>1. CASE Accept
  BY <1>1, AcceptOwnerInv
<1>2. CASE LeaveAccept
  <2>1. tasks' = <<>> /\ backlog' = backlog /\ wconn' = wconn /\ wpc' = wpc
        /\ net' = net /\ alive' = alive
    BY <1>2 DEF LeaveAccept, Shutdown
  <2>2. /\ ToSet(tasks)' = {} /\ IsInjective(tasks)'
        /\ ToSet(backlog)' = ToSet(backlog)
        /\ IsInjective(backlog)' <=> IsInjective(backlog)
    BY <2>1, EmptyQueue
  <2>3. OneOwnerPerConnection'
    BY <2>1, <2>2 DEF OwnerInv, OneOwnerPerConnection
  <2>4. QED
    BY <2>1, <2>3 DEF OwnerInv
<1>3. CASE ListenReturns \/ Joined \/ Crash
  BY <1>3, QuietOwnerInv DEF ListenReturns, Joined, Crash
<1>4. CASE StopServer
  <2>1. backlog' = <<>> /\ tasks' = tasks /\ wconn' = wconn /\ wpc' = wpc
        /\ \A c \in Conns : net[c] = "accepted" => net'[c] = "accepted"
    BY <1>4 DEF StopServer
  <2>2. /\ ToSet(backlog)' = {} /\ IsInjective(backlog)'
        /\ ToSet(tasks)' = ToSet(tasks)
        /\ IsInjective(tasks)' <=> IsInjective(tasks)
    BY <2>1, EmptyQueue
  <2>3. OneOwnerPerConnection'
    BY <2>1, <2>2 DEF OwnerInv, OneOwnerPerConnection
  <2>4. QED
    BY <2>1, <2>3 DEF OwnerInv
<1>5. CASE Exit
  <2>1. /\ backlog' = backlog /\ tasks' = tasks /\ wconn' = wconn /\ wpc' = wpc
        /\ tasks = <<>> /\ backlog = <<>>
        /\ \A w \in Workers : wconn[w] = NoConn
    BY <1>5 DEF Exit, StopInv, OwnerInv, TypeOK
  <2>2. /\ ToSet(backlog)' = {} /\ IsInjective(backlog)'
        /\ ToSet(tasks)' = {} /\ IsInjective(tasks)'
    BY <2>1, EmptyQueue
  <2>3. OneOwnerPerConnection'
    BY <2>1, <2>2, ServerAssumption DEF OneOwnerPerConnection
  <2>4. QED
    BY <2>1, <2>3 DEF OwnerInv
<1>6. QED
  BY <1>1, <1>2, <1>3, <1>4, <1>5 DEF ListenStep, MainStep

\* What a worker does keeps OwnerInv.
LEMMA WorkerOwnerInv ==
    ASSUME TypeOK, OwnerInv, NEW w \in Workers, WorkerStep(w)
    PROVE  OwnerInv'
<1> USE DEF TypeOK, netVars
<1>1. CASE TakeTask(w)
  BY <1>1, TakeTaskOwnerInv
<1>2. CASE PollEnds(w) \/ (KeepAlive(w) /\ CloseConnection(w))
  BY <1>2, CloseOwnerInv DEF PollEnds, KeepAlive
<1>3. CASE KeepAlive(w) /\ UNCHANGED <<wconn, net>> /\ wpc' = [wpc EXCEPT ![w] = "poll"]
  BY <1>3, QuietOwnerInv DEF KeepAlive
<1>4. CASE ReadRequest(w) \/ ReadLeftLine(w) \/ ReadSplicedLine(w) \/ auth_handler(w)
           \/ dump(w) \/ web_hook_submit(w) \/ web_hook_reply(w)
  BY <1>4, QuietOwnerInv
  DEF ReadRequest, ReadLeftLine, ReadSplicedLine, auth_handler, dump, web_hook_submit, web_hook_reply, Reply
<1>5. QED
  BY <1>1, <1>2, <1>3, <1>4 DEF WorkerStep, KeepAlive

\* What a hook thread does keeps OwnerInv.
LEMMA HookOwnerInv ==
    ASSUME TypeOK, OwnerInv, alive, NEW h \in HookThreads, HookStep(h)
    PROVE  OwnerInv'
<1> USE DEF workerVars, netVars
<1>1. CASE ForwardConnect(h) /\ SelfHook
  <2>1. PICK f \in Forwards : Connect(f, [route |-> "dump", key |-> HookKey])
    BY <1>1 DEF ForwardConnect
  <2>2. f \in Conns /\ UNCHANGED <<tasks, wconn, wpc>>
    BY <1>1 DEF ForwardConnect, Conns
  <2>3. QED
    BY <2>1, <2>2, ConnectOwnerInv
<1>2. CASE ForwardConnect(h) /\ ~SelfHook
  BY <1>2, QuietOwnerInv DEF ForwardConnect
<1>3. CASE TakeJob(h) \/ PushHeaders(h) \/ CopyHeaders(h) \/ ForwardRefused(h)
           \/ ForwardReturns(h)
  BY <1>3, QuietOwnerInv
  DEF TakeJob, PushHeaders, CopyHeaders, ForwardRefused, ForwardReturns
<1>4. QED
  BY <1>1, <1>2, <1>3 DEF HookStep

\* Every step keeps OwnerInv.
LEMMA StepOwnerInv == TypeOK /\ OwnerInv /\ StopInv /\ [Next]_vars => OwnerInv'
<1> SUFFICES ASSUME TypeOK, OwnerInv, StopInv, [Next]_vars PROVE OwnerInv'
  OBVIOUS
<1> USE DEF workerVars, netVars
<1>1. CASE UNCHANGED vars
  BY <1>1, QuietOwnerInv DEF vars
<1>2. ASSUME NEW c \in Clients, ClientConnect(c) PROVE OwnerInv'
  BY <1>2, ConnectOwnerInv DEF ClientConnect, Conns
<1>3. ASSUME NEW c \in Clients, ClientRequest(c) \/ ClientStep(c) \/ ClientLeaves(c)
      PROVE  OwnerInv'
  BY <1>3, QuietOwnerInv
  DEF ClientRequest, ClientStep, ClientReceive, ClientFails, ClientLeaves
<1>4. QED
  BY <1>1, <1>2, <1>3, ListenOwnerInv, WorkerOwnerInv, HookOwnerInv
  DEF Next, ServerStep

-----------------------------------------------------------------------------
(***************************************************************************)
(* The shutdown.                                                           *)
(***************************************************************************)
\* Once the listen thread has returned no worker leaves its idle state.
LEMMA WorkerStopInv ==
    ASSUME TypeOK, StopInv, NEW w \in Workers, WorkerStep(w)
    PROVE  StopInv'
<1> USE DEF StopInv, mainVars
<1>1. listenPc # "returned" /\ UNCHANGED <<mainPc, sockOpen, listenPc, backlog>>
  BY DEF WorkerStep, TakeTask, KeepAlive, PollEnds, ReadRequest, ReadLeftLine,
     ReadSplicedLine, auth_handler, dump, web_hook_submit, web_hook_reply
<1>2. QED
  BY <1>1

\* Every step keeps StopInv.
LEMMA StepStopInv == TypeOK /\ StopInv /\ [Next]_vars => StopInv'
<1> SUFFICES ASSUME TypeOK, StopInv, [Next]_vars PROVE StopInv'
  OBVIOUS
<1> USE DEF StopInv, mainVars, workerVars
<1>1. CASE UNCHANGED vars
  BY <1>1 DEF vars
<1>2. ASSUME NEW c \in Clients,
             ClientConnect(c) \/ ClientRequest(c) \/ ClientStep(c) \/ ClientLeaves(c)
      PROVE  StopInv'
  BY <1>2 DEF ClientConnect, Connect, ClientRequest, ClientStep, ClientReceive,
     ClientFails, ClientLeaves
<1>3. CASE Accept
  BY <1>3 DEF Accept
<1>4. CASE LeaveAccept
  BY <1>4 DEF LeaveAccept
<1>5. CASE ListenReturns
  BY <1>5 DEF ListenReturns
<1>6. CASE Joined \/ Exit \/ Crash
  BY <1>6 DEF Joined, Exit, Crash
<1>7. CASE StopServer
  BY <1>7 DEF StopServer, TypeOK
<1>8. ASSUME NEW h \in HookThreads, HookStep(h) PROVE StopInv'
  BY <1>8 DEF HookStep, TakeJob, PushHeaders, CopyHeaders, ForwardConnect,
     Connect, ForwardRefused, ForwardReturns
<1>9. QED
  BY <1>1, <1>2, <1>3, <1>4, <1>5, <1>6, <1>7, <1>8, WorkerStopInv
  DEF Next, ServerStep, ListenStep, MainStep

-----------------------------------------------------------------------------
(***************************************************************************)
(* Theorems.                                                               *)
(***************************************************************************)
\* IInv is an invariant.
LEMMA Inductive == Spec => []IInv
<1>1. IInv /\ [Next]_vars => IInv'
  BY StepTypeOK, StepJobInv, StepOwnerInv, StepStopInv DEF IInv
<1>2. QED
  BY InitIInv, <1>1, PTL DEF Spec

\* The server's variables always have their types.
THEOREM TypeCorrect == Spec => []TypeOK
<1>1. IInv => TypeOK
  BY DEF IInv
<1>2. QED
  BY Inductive, <1>1, PTL

\* A job never outlives the request and the stack frame it captured by
\* reference, whatever its forward does and whatever stop() purges.
THEOREM CapturedRequestIsAlive == Spec => []RequestOutlivesJob
<1>1. IInv => RequestOutlivesJob
  BY DEF IInv, JobInv
<1>2. QED
  BY Inductive, <1>1, PTL

\* No connection is ever in the hands of two threads or queues.
THEOREM UniqueOwners == Spec => []OneOwnerPerConnection
<1>1. IInv => OneOwnerPerConnection
  BY DEF IInv, OwnerInv
<1>2. QED
  BY Inductive, <1>1, PTL

\* When stop() has returned, every worker and every hook thread is idle and
\* all queues are empty: joining the listen thread is enough.
THEOREM StopIsComplete == Spec => []StopQuiesces
<1>1. ASSUME IInv PROVE StopQuiesces
  <2> SUFFICES ASSUME mainPc \in {"stopped", "exited"}
               PROVE  /\ tasks = <<>> /\ backlog = <<>> /\ jobs = <<>>
                      /\ \A w \in Workers : wpc[w] = "idle"
                      /\ \A h \in HookThreads : hpc[h] = "idle"
    BY DEF StopQuiesces
  <2>1. tasks = <<>> /\ backlog = <<>> /\ \A w \in Workers : wpc[w] = "idle"
    BY <1>1 DEF IInv, StopInv
  <2>2. ToSet(jobs) = {}
    <3>1. ToSet(jobs) \subseteq Workers
      BY <1>1, QueueMembers DEF IInv, TypeOK
    <3>2. QED
      BY <1>1, <2>1, <3>1 DEF IInv, JobInv, RequestOutlivesJob
  <2>3. jobs = <<>>
    BY <1>1, <2>2, QueueMembers DEF IInv, TypeOK
  <2>4. ASSUME NEW h \in HookThreads, hpc[h] # "idle" PROVE FALSE
    <3>1. hjob[h] # NoWorker
      BY <1>1, <2>4 DEF IInv, JobInv
    <3>2. hjob[h] \in Workers
      BY <1>1, <3>1 DEF IInv, TypeOK
    <3>3. wpc[hjob[h]] = "waiting"
      BY <1>1, <3>2 DEF IInv, JobInv, RequestOutlivesJob
    <3>4. QED
      BY <2>1, <3>2, <3>3
  <2>5. QED
    BY <2>1, <2>3, <2>4
<1>2. QED
  BY Inductive, <1>1, PTL

-----------------------------------------------------------------------------
(***************************************************************************)
(* The key, the answers, and what stop() strands.                          *)
(***************************************************************************)
\* A worker that waits for its future handles a request that passed auth_handler.
KeyInv == \A w \in Workers : wpc[w] = "waiting" => Authorized(wreq[w])

\* Every step keeps KeyInv.
LEMMA StepKeyInv == TypeOK /\ KeyInv /\ [Next]_vars => KeyInv'
<1> SUFFICES ASSUME TypeOK, KeyInv, [Next]_vars PROVE KeyInv'
  OBVIOUS
<1> USE DEF KeyInv
<1>1. ASSUME UNCHANGED <<wpc, wreq>> PROVE KeyInv'
  BY <1>1 DEF Authorized
<1>2. ASSUME NEW w \in Workers, WorkerStep(w) PROVE KeyInv'
  <2> USE DEF TypeOK, Authorized
  <2>1. CASE TakeTask(w) BY <2>1 DEF TakeTask
  <2>2. CASE KeepAlive(w) BY <2>2 DEF KeepAlive, CloseConnection
  <2>3. CASE PollEnds(w) BY <2>3 DEF PollEnds, CloseConnection
  <2>4. CASE ReadRequest(w) BY <2>4 DEF ReadRequest
  <2>5. CASE auth_handler(w) BY <2>5 DEF auth_handler, Reply
  <2>6. CASE dump(w) BY <2>6 DEF dump, Reply
  <2>7. CASE web_hook_submit(w) BY <2>7 DEF web_hook_submit
  <2>8. CASE web_hook_reply(w) BY <2>8 DEF web_hook_reply, Reply
  <2>9. CASE ReadLeftLine(w) BY <2>9 DEF ReadLeftLine, Reply
  <2>10. CASE ReadSplicedLine(w) BY <2>10 DEF ReadSplicedLine, Reply
  <2>11. QED
    BY <1>2, <2>1, <2>2, <2>3, <2>4, <2>5, <2>6, <2>7, <2>8, <2>9, <2>10
    DEF WorkerStep
<1>3. ASSUME NEW c \in Clients,
             ClientConnect(c) \/ ClientRequest(c) \/ ClientStep(c) \/ ClientLeaves(c)
      PROVE  UNCHANGED <<wpc, wreq>>
  BY <1>3 DEF ClientConnect, ClientRequest, ClientStep, ClientReceive, ClientFails,
     ClientLeaves, workerVars
<1>4. ASSUME ListenStep \/ MainStep \/ StopServer \/ Crash PROVE UNCHANGED <<wpc, wreq>>
  BY <1>4 DEF ListenStep, MainStep, StopServer, Crash, Accept, LeaveAccept,
     ListenReturns, Joined, Exit, workerVars
<1>5. ASSUME NEW h \in HookThreads, HookStep(h) PROVE UNCHANGED <<wpc, wreq>>
  BY <1>5 DEF HookStep, TakeJob, PushHeaders, CopyHeaders, ForwardConnect,
     ForwardRefused, ForwardReturns, workerVars
<1>6. CASE UNCHANGED vars
  BY <1>6 DEF vars, workerVars, Authorized
<1>7. QED
  BY <1>1, <1>2, <1>3, <1>4, <1>5, <1>6 DEF Next, ServerStep

\* No forward leaves for a request without the key, although the check is made
\* by a worker and the forward by a hook thread.
THEOREM ForwardsAreAuthorized == Spec => []OnlyAuthorizedForwards
<1>1. Init => KeyInv
  BY DEF Init, KeyInv
<1>2. IInv /\ KeyInv => OnlyAuthorizedForwards
  BY DEF IInv, TypeOK, JobInv, RequestOutlivesJob, KeyInv, OnlyAuthorizedForwards
<1>3. IInv /\ KeyInv /\ [Next]_vars => KeyInv'
  BY StepKeyInv DEF IInv
<1>4. QED
  BY Inductive, <1>1, <1>2, <1>3, PTL DEF Spec

\* What a client waits for on a connection, and what it did not ask for.
Due(c) == (IF cpc[c] = "waiting" THEN 1 ELSE 0) + stray[c]

\* What is on the way for it.
BeingHandled(c) == IF Handled(c) THEN 1 ELSE 0
OnTheWay(c) == Len(request[c]) + BeingHandled(c) + Len(response[c])

\* The balance of one connection.
Balanced(c) == cpc[c] # "gone" => OnTheWay(c) = Due(c)

\* The terms of the balance are numbers.
LEMMA BalanceTypes ==
    ASSUME TypeOK, NEW c \in Clients
    PROVE  /\ c \in Conns
           /\ Len(request[c]) \in Nat /\ Len(response[c]) \in Nat /\ stray[c] \in Nat
           /\ request[c] \in Seq(Requests)
           /\ response[c] \in Seq({"200", "400", "401"})
  BY SeqLengths DEF TypeOK, Conns

\* A step that changes nothing of a connection keeps its balance.
LEMMA QuietBalance ==
    ASSUME NEW c, Balanced(c),
           request'[c] = request[c], response'[c] = response[c], stray'[c] = stray[c],
           cpc'[c] = cpc[c], Handled(c)' <=> Handled(c)
    PROVE  Balanced(c)'
  BY DEF Balanced, OnTheWay, BeingHandled, Due

\* The parts of the balance are numbers, also after a step with these parts.
LEMMA MovedBalance ==
    ASSUME NEW d, Balanced(d),
           cpc'[d] # "gone" =>
               cpc[d] # "gone" /\ \E k \in {0, 1, -1} : /\ OnTheWay(d)' = OnTheWay(d) + k
                                                      /\ Due(d)' = Due(d) + k
    PROVE  Balanced(d)'
  BY DEF Balanced

\* A step adds these numbers to what is unread, handled and answered.
Moves(d, q, h, a) == /\ Len(request'[d]) = Len(request[d]) + q
                     /\ BeingHandled(d)' = BeingHandled(d) + h
                     /\ Len(response'[d]) = Len(response[d]) + a

\* What is on the way changes by their sum.
LEMMA MovedOnTheWay ==
    ASSUME TypeOK, NEW d \in Clients, NEW q \in Int, NEW h \in Int, NEW a \in Int,
           Moves(d, q, h, a)
    PROVE  OnTheWay(d)' = OnTheWay(d) + (q + h + a)
<1> DEFINE x == Len(request[d])
           y == BeingHandled(d)
           z == Len(response[d])
<1>1. x \in Int /\ y \in Int /\ z \in Int
  BY BalanceTypes DEF BeingHandled
<1>2. OnTheWay(d) = x + y + z
  BY DEF OnTheWay
<1>3. OnTheWay(d)' = (x + q) + (y + h) + (z + a)
  BY DEF OnTheWay, Moves
<1> HIDE DEF x, y, z
<1>4. QED
  BY <1>1, <1>2, <1>3

\* Steps that move no worker leave what is handled.
LEMMA SameHandled ==
    ASSUME UNCHANGED <<wpc, wconn>>, NEW c
    PROVE  Handled(c)' <=> Handled(c)
  BY DEF Handled

\* What a client does keeps the balance of every connection.
LEMMA ClientBalance ==
    ASSUME TypeOK, NEW c \in Clients, NEW d \in Clients, Balanced(d),
           ClientConnect(c) \/ ClientRequest(c) \/ ClientStep(c) \/ ClientLeaves(c)
    PROVE  Balanced(d)'
<1>1. wpc' = wpc /\ wconn' = wconn /\ stray' = stray
  BY DEF ClientConnect, ClientRequest, ClientStep, ClientReceive, ClientFails,
     ClientLeaves, workerVars, leftVars, netVars
<1>2. Handled(d)' <=> Handled(d)
  BY <1>1, SameHandled
<1>3. CASE d # c
  <2>1. cpc'[d] = cpc[d] /\ request'[d] = request[d] /\ response'[d] = response[d]
    <3> USE <1>3 DEF TypeOK, Conns
    <3>1. CASE ClientConnect(c)
      BY <3>1 DEF ClientConnect, Connect
    <3>2. CASE ClientRequest(c)
      BY <3>2 DEF ClientRequest
    <3>3. CASE ClientReceive(c)
      BY <3>3 DEF ClientReceive
    <3>4. CASE ClientFails(c)
      BY <3>4 DEF ClientFails, netVars
    <3>5. CASE ClientLeaves(c)
      BY <3>5 DEF ClientLeaves
    <3>6. QED
      BY <3>1, <3>2, <3>3, <3>4, <3>5 DEF ClientStep
  <2>2. QED
    BY <1>1, <1>2, <2>1, QuietBalance
<1>4. CASE d = c
  <2>1. CASE ClientConnect(c) \/ ClientRequest(c)
    <3>1. PICK r \in ClientRequests : request' = [request EXCEPT ![c] = Append(@, r)]
      BY <2>1 DEF ClientConnect, Connect, ClientRequest
    <3>2. Len(request'[c]) = Len(request[c]) + 1
      <4>1. r \in Requests /\ request'[c] = Append(request[c], r)
        BY <3>1, ServerAssumption, BalanceTypes DEF TypeOK
      <4>2. QED
        BY <4>1, SeqLengths, BalanceTypes
    <3>3. cpc[c] = "idle" /\ cpc'[c] = "waiting" /\ response' = response
      BY <2>1 DEF ClientConnect, ClientRequest, TypeOK
    <3>4. BeingHandled(c)' = BeingHandled(c) + 0
      BY <1>2, <1>4 DEF BeingHandled
    <3>5. Len(response'[c]) = Len(response[c]) + 0
      BY <3>3, BalanceTypes
    <3>6. Moves(c, 1, 0, 0)
      BY <3>2, <3>4, <3>5 DEF Moves
    <3>6m. OnTheWay(c)' = OnTheWay(c) + (1 + 0 + 0)
      BY <3>6, MovedOnTheWay
    <3>7. Due(c)' = Due(c) + 1
      BY <1>1, <3>3, BalanceTypes DEF Due
    <3>8. QED
      BY <1>4, <3>3, <3>6m, <3>7, MovedBalance
  <2>2. CASE ClientReceive(c)
    <3>1. /\ response[c] # <<>> /\ response'[c] = Tail(response[c])
          /\ cpc[c] = "waiting" /\ cpc'[c] = "idle" /\ request' = request
      BY <2>2, BalanceTypes DEF ClientReceive, TypeOK
    <3>2. Len(response'[c]) = Len(response[c]) - 1
      BY <3>1, SeqLengths, BalanceTypes
    <3>3. BeingHandled(c)' = BeingHandled(c) + 0
      BY <1>2, <1>4 DEF BeingHandled
    <3>4. Len(request'[c]) = Len(request[c]) + 0 /\ Len(response'[c]) = Len(response[c]) + (-1)
      BY <3>1, <3>2, BalanceTypes
    <3>5. Moves(c, 0, 0, -1)
      BY <3>3, <3>4 DEF Moves
    <3>5m. OnTheWay(c)' = OnTheWay(c) + (0 + 0 + (-1))
      BY <3>5, MovedOnTheWay
    <3>6. Due(c)' = Due(c) + (-1)
      BY <1>1, <3>1, BalanceTypes DEF Due
    <3>7. QED
      BY <1>4, <3>1, <3>5m, <3>6, MovedBalance
  <2>3. CASE ClientFails(c) \/ ClientLeaves(c)
    <3>1. cpc'[c] = "gone"
      BY <2>3 DEF ClientFails, ClientLeaves, TypeOK
    <3>2. QED
      BY <1>4, <3>1 DEF Balanced
  <2>4. QED
    BY <2>1, <2>2, <2>3 DEF ClientStep
<1>5. QED
  BY <1>3, <1>4

\* A worker has one connection, and no other worker has it.
LEMMA WorkerHasConnection ==
    ASSUME TypeOK, OwnerInv, NEW w \in Workers, wpc[w] # "idle"
    PROVE  /\ wconn[w] \in Conns
           /\ \A v \in Workers : wconn[v] = wconn[w] => v = w
  BY ServerAssumption DEF TypeOK, OwnerInv, OneOwnerPerConnection

\* An answer reaches the client of the connection, unless it has gone, and nobody else.
LEMMA ReplyReaches ==
    ASSUME TypeOK, NEW w \in Workers, wconn[w] \in Conns,
           NEW status \in {"200", "400", "401"}, Reply(w, status), NEW d \in Clients
    PROVE  /\ d # wconn[w] => response'[d] = response[d]
           /\ d = wconn[w] /\ cpc[d] # "gone" => Len(response'[d]) = Len(response[d]) + 1
<1>1. d # wconn[w] => response'[d] = response[d]
  BY BalanceTypes DEF Reply, TypeOK
<1>2. ASSUME d = wconn[w], cpc[d] # "gone" PROVE Len(response'[d]) = Len(response[d]) + 1
  <2>1. PeerOpen(wconn[w])
    BY <1>2 DEF PeerOpen
  <2>2. response'[d] = Append(response[d], status)
    BY <1>2, <2>1, BalanceTypes DEF Reply, TypeOK
  <2>3. QED
    BY <2>2, SeqLengths, BalanceTypes
<1>3. QED
  BY <1>1, <1>2

\* A step of a worker leaves what is handled on the other connections.
LEMMA OthersHandled ==
    ASSUME NEW w \in Workers, UNCHANGED wconn,
           \A v \in Workers : v # w => wpc'[v] = wpc[v], NEW d, d # wconn[w]
    PROVE  Handled(d)' <=> Handled(d)
<1>1. \A v \in Workers : wconn[v] = d => v # w /\ wconn'[v] = d /\ wpc'[v] = wpc[v]
  OBVIOUS
<1>2. \A v \in Workers : wconn'[v] = d => v # w /\ wconn[v] = d /\ wpc'[v] = wpc[v]
  OBVIOUS
<1>3. QED
  BY <1>1, <1>2 DEF Handled

\* What a worker does keeps the balance of every connection.
LEMMA WorkerBalance ==
    ASSUME TypeOK, OwnerInv, NEW w \in Workers, WorkerStep(w),
           NEW d \in Clients, Balanced(d)
    PROVE  Balanced(d)'
<1>1. cpc' = cpc
  BY DEF WorkerStep, TakeTask, KeepAlive, PollEnds, ReadRequest, ReadLeftLine,
     ReadSplicedLine, auth_handler, dump, web_hook_submit, web_hook_reply, clientVars
<1>2. ASSUME UNCHANGED <<request, response, stray>>,
             wpc[w] \notin {"routing", "waiting"}, wpc'[w] \notin {"routing", "waiting"},
             \A v \in Workers : v # w => wpc'[v] = wpc[v] /\ wconn'[v] = wconn[v]
      PROVE  Balanced(d)'
  <2>1. Handled(d)' <=> Handled(d)
    BY <1>2 DEF Handled
  <2>2. QED
    BY <1>1, <1>2, <2>1, QuietBalance
<1>3. CASE TakeTask(w)
  <2>1. UNCHANGED <<request, response, stray>>
    BY <1>3 DEF TakeTask, netVars
  <2>2. QED
    BY <1>2, <1>3, <2>1 DEF TakeTask, TypeOK
<1>4. CASE KeepAlive(w) \/ PollEnds(w)
  <2>1. UNCHANGED <<request, response, stray>>
    BY <1>4 DEF KeepAlive, PollEnds, leftVars
  <2>2. QED
    BY <1>2, <1>4, <2>1 DEF KeepAlive, PollEnds, CloseConnection, TypeOK
<1>5. CASE web_hook_submit(w)
  <2>1. UNCHANGED <<request, response, stray>>
    BY <1>5 DEF web_hook_submit, netVars
  <2>2. Handled(d)' <=> Handled(d)
    BY <1>5 DEF web_hook_submit, Handled, TypeOK
  <2>3. QED
    BY <1>1, <2>1, <2>2, QuietBalance
<1>6. ASSUME wpc[w] # "idle", UNCHANGED wconn,
             \A v \in Workers : v # w => wpc'[v] = wpc[v],
             d # wconn[w] => /\ request'[d] = request[d] /\ response'[d] = response[d]
                             /\ stray'[d] = stray[d],
             d = wconn[w] => Balanced(d)'
      PROVE  Balanced(d)'
  <2>1. CASE d # wconn[w]
    <3>1. Handled(d)' <=> Handled(d)
      BY <1>6, <2>1, OthersHandled
    <3>2. QED
      BY <1>1, <1>6, <2>1, <3>1, QuietBalance
  <2>2. QED
    BY <1>6, <2>1
<1>7. CASE ReadRequest(w)
  <2>1. /\ wpc[w] = "poll" /\ request[wconn[w]] # <<>> /\ wconn' = wconn
        /\ response' = response /\ stray' = stray
        /\ wpc' = [wpc EXCEPT ![w] = "routing"]
        /\ request' = [request EXCEPT ![wconn[w]] = Tail(@)]
    BY <1>7 DEF ReadRequest, leftVars
  <2>2. wpc'[w] = "routing" /\ \A v \in Workers : v # w => wpc'[v] = wpc[v]
    BY <2>1 DEF TypeOK
  <2>3. d # wconn[w] => request'[d] = request[d]
    BY <2>1, BalanceTypes DEF TypeOK
  <2>4. ASSUME d = wconn[w] PROVE Balanced(d)'
    <3>1. ~Handled(d) /\ Handled(d)'
      BY <2>1, <2>2, <2>4, WorkerHasConnection DEF Handled
    <3>2. request'[d] = Tail(request[d])
      BY <2>1, <2>4, BalanceTypes DEF TypeOK
    <3>3. Len(request'[d]) = Len(request[d]) - 1
      BY <2>1, <2>4, <3>2, BalanceTypes, SeqLengths
    <3>4. BeingHandled(d)' = BeingHandled(d) + 1
      BY <3>1 DEF BeingHandled
    <3>5. Len(request'[d]) = Len(request[d]) + (-1) /\ Len(response'[d]) = Len(response[d]) + 0
      BY <2>1, <3>3, BalanceTypes
    <3>6. Moves(d, -1, 1, 0)
      BY <3>4, <3>5 DEF Moves
    <3>6m. OnTheWay(d)' = OnTheWay(d) + ((-1) + 1 + 0)
      BY <3>6, MovedOnTheWay
    <3>7. Due(d)' = Due(d) + 0
      BY <1>1, <2>1, BalanceTypes DEF Due
    <3>8. QED
      BY <1>1, <3>6m, <3>7, MovedBalance
  <2>5. QED
    BY <1>6, <2>1, <2>2, <2>3, <2>4
<1>8. ASSUME NEW status \in {"200", "400", "401"}, Reply(w, status),
             wpc[w] \in {"routing", "waiting"}, UNCHANGED <<wconn, request, stray>>
      PROVE  Balanced(d)'
  <2>1. wconn[w] \in Conns /\ \A v \in Workers : wconn[v] = wconn[w] => v = w
    BY <1>8, WorkerHasConnection
  <2>2. wpc'[w] = "loop" /\ \A v \in Workers : v # w => wpc'[v] = wpc[v]
    BY <1>8 DEF Reply, TypeOK
  <2>3. ASSUME d = wconn[w] PROVE Balanced(d)'
    <3>1. Handled(d) /\ ~Handled(d)'
      BY <1>8, <2>1, <2>2, <2>3 DEF Handled
    <3>2. cpc[d] # "gone" => Len(response'[d]) = Len(response[d]) + 1
      BY <1>8, <2>1, <2>3, ReplyReaches
    <3>3. BeingHandled(d)' = BeingHandled(d) + (-1)
      BY <3>1 DEF BeingHandled
    <3>4. Len(request'[d]) = Len(request[d]) + 0
      BY <1>8, BalanceTypes
    <3>5. cpc[d] # "gone" => Moves(d, 0, -1, 1)
      BY <3>2, <3>3, <3>4 DEF Moves
    <3>5m. cpc[d] # "gone" => OnTheWay(d)' = OnTheWay(d) + (0 + (-1) + 1)
      BY <3>5, MovedOnTheWay
    <3>6. Due(d)' = Due(d) + 0
      BY <1>1, <1>8, BalanceTypes DEF Due
    <3>7. QED
      BY <1>1, <3>5m, <3>6, MovedBalance
  <2>4. d # wconn[w] => response'[d] = response[d]
    BY <1>8, <2>1, ReplyReaches
  <2>5. QED
    BY <1>6, <1>8, <2>2, <2>3, <2>4
<1>9. CASE auth_handler(w) \/ dump(w) \/ web_hook_reply(w)
  BY <1>8, <1>9 DEF auth_handler, dump, web_hook_reply, leftVars
<1>10. ASSUME Reply(w, "400"), wpc[w] = "poll", UNCHANGED wconn,
              wconn[w] \in Conns,
              d # wconn[w] => request'[d] = request[d] /\ stray'[d] = stray[d],
              NEW q \in {0, -1}, NEW s \in {0, 1}, q + 1 = s,
              d = wconn[w] => /\ Len(request'[d]) = Len(request[d]) + q
                              /\ stray'[d] = stray[d] + s
       PROVE  Balanced(d)'
  <2>1. \A v \in Workers : wconn[v] = wconn[w] => v = w
    BY <1>10, WorkerHasConnection
  <2>2. wpc'[w] = "loop" /\ \A v \in Workers : v # w => wpc'[v] = wpc[v]
    BY <1>10 DEF Reply, TypeOK
  <2>3. ASSUME d = wconn[w] PROVE Balanced(d)'
    <3>1. ~Handled(d) /\ ~Handled(d)'
      BY <1>10, <2>1, <2>2, <2>3 DEF Handled
    <3>2. cpc[d] # "gone" => Len(response'[d]) = Len(response[d]) + 1
      BY <1>10, <2>3, ReplyReaches
    <3>3. BeingHandled(d)' = BeingHandled(d) + 0
      BY <3>1 DEF BeingHandled
    <3>4. cpc[d] # "gone" => Moves(d, q, 0, 1)
      BY <1>10, <2>3, <3>2, <3>3 DEF Moves
    <3>4m. cpc[d] # "gone" => OnTheWay(d)' = OnTheWay(d) + (q + 0 + 1)
      BY <3>4, MovedOnTheWay
    <3>5. Due(d)' = Due(d) + s
      BY <1>1, <1>10, <2>3, BalanceTypes DEF Due
    <3>6. QED
      BY <1>1, <1>10, <3>4m, <3>5, MovedBalance
  <2>4. d # wconn[w] => response'[d] = response[d]
    BY <1>10, ReplyReaches
  <2>5. QED
    BY <1>6, <1>10, <2>2, <2>3, <2>4
<1>11. CASE ReadLeftLine(w)
  <2>1. /\ wpc[w] = "poll" /\ Reply(w, "400") /\ wconn' = wconn /\ request' = request
        /\ stray' = [stray EXCEPT ![wconn[w]] = @ + 1]
    BY <1>11 DEF ReadLeftLine
  <2>2. wconn[w] \in Conns
    BY <2>1, WorkerHasConnection
  <2>3. stray'[d] = IF d = wconn[w] THEN stray[d] + 1 ELSE stray[d]
    BY <2>1, BalanceTypes DEF TypeOK
  <2>4. Len(request'[d]) = Len(request[d]) + 0
    BY <2>1, BalanceTypes
  <2>5. QED
    BY <1>10, <2>1, <2>2, <2>3, <2>4
<1>12. CASE ReadSplicedLine(w)
  <2>1. /\ wpc[w] = "poll" /\ Reply(w, "400") /\ wconn' = wconn /\ stray' = stray
        /\ request[wconn[w]] # <<>>
        /\ request' = [request EXCEPT ![wconn[w]] = Tail(@)]
    BY <1>12 DEF ReadSplicedLine, leftVars
  <2>2. wconn[w] \in Conns
    BY <2>1, WorkerHasConnection
  <2>3. request'[d] = IF d = wconn[w] THEN Tail(request[d]) ELSE request[d]
    BY <2>1, BalanceTypes DEF TypeOK
  <2>4. d = wconn[w] => Len(request'[d]) = Len(request[d]) + (-1)
    BY <2>1, <2>3, BalanceTypes, SeqLengths
  <2>5. stray'[d] = stray[d] + 0
    BY <2>1, BalanceTypes
  <2>6. QED
    BY <1>10, <2>1, <2>2, <2>3, <2>4, <2>5
<1>13. QED
  BY <1>3, <1>4, <1>5, <1>7, <1>9, <1>11, <1>12 DEF WorkerStep

\* Every step keeps the balance of every connection.
LEMMA StepBalance ==
    ASSUME TypeOK, OwnerInv, [Next]_vars, NEW d \in Clients, Balanced(d)
    PROVE  Balanced(d)'
<1>1. ASSUME UNCHANGED <<wpc, wconn, cpc, stray>>,
             response'[d] = response[d] /\ request'[d] = request[d]
      PROVE  Balanced(d)'
  <2>1. Handled(d)' <=> Handled(d)
    BY <1>1, SameHandled
  <2>2. QED
    BY <1>1, <2>1, QuietBalance
<1>2. CASE ListenStep \/ MainStep \/ StopServer \/ Crash
  BY <1>1, <1>2 DEF ListenStep, MainStep, StopServer, Crash, Accept, LeaveAccept,
     ListenReturns, Joined, Exit, workerVars, netVars, leftVars, clientVars
<1>3. ASSUME NEW h \in HookThreads, HookStep(h) PROVE Balanced(d)'
  <2>1. UNCHANGED <<wpc, wconn, cpc, stray>>
    BY <1>3 DEF HookStep, TakeJob, PushHeaders, CopyHeaders, ForwardConnect,
       ForwardRefused, ForwardReturns, workerVars, netVars, leftVars, clientVars
  <2>2. hconn[h] \notin Clients
    BY ServerAssumption DEF TypeOK, Conns
  <2>3. response'[d] = response[d]
    BY <1>3, <2>2 DEF HookStep, TakeJob, PushHeaders, CopyHeaders, ForwardConnect,
       ForwardRefused, ForwardReturns, netVars, TypeOK, Conns
  <2>4. request'[d] = request[d]
    <3>1. CASE ForwardConnect(h) /\ SelfHook
      <4>1. PICK f \in Forwards : Connect(f, [route |-> "dump", key |-> HookKey])
        BY <3>1 DEF ForwardConnect
      <4>2. \E q : request' = [request EXCEPT ![f] = q]
        BY <4>1 DEF Connect
      <4>3. d \in Conns /\ d # f
        BY ServerAssumption DEF Conns
      <4>4. QED
        BY <4>2, <4>3 DEF TypeOK
    <3>2. CASE ~(ForwardConnect(h) /\ SelfHook)
      BY <1>3, <3>2 DEF HookStep, TakeJob, PushHeaders, CopyHeaders, ForwardConnect,
         ForwardRefused, ForwardReturns, netVars
    <3>3. QED
      BY <3>1, <3>2
  <2>5. QED
    BY <1>1, <2>1, <2>3, <2>4
<1>4. CASE UNCHANGED vars
  BY <1>1, <1>4 DEF vars, workerVars, netVars, clientVars
<1>5. QED
  BY <1>2, <1>3, <1>4, ClientBalance, WorkerBalance DEF Next, ServerStep

\* All connections of clients are balanced.
ReplyInv == \A c \in Clients : Balanced(c)

\* What a client has asked for comes once, however its requests, the workers that
\* take them and its leaving interleave; beyond that come only the answers to the
\* lines of bodies that were refused unread.
THEOREM AnswersAreSolicited == Spec => []RepliesSolicited
<1>1. Init => ReplyInv
  <2> SUFFICES ASSUME Init, NEW c \in Clients PROVE Balanced(c)
    BY DEF ReplyInv
  <2>1. c \in Conns /\ ~Handled(c)
    BY DEF Init, Handled, Conns
  <2>2. request[c] = <<>> /\ response[c] = <<>> /\ stray[c] = 0 /\ cpc[c] = "idle"
    BY <2>1 DEF Init
  <2>3. QED
    BY <2>1, <2>2 DEF Balanced, OnTheWay, BeingHandled, Due
<1>2. IInv /\ ReplyInv /\ [Next]_vars => ReplyInv'
  BY StepBalance DEF IInv, ReplyInv
<1>3. ReplyInv => RepliesSolicited
  BY DEF ReplyInv, Balanced, OnTheWay, BeingHandled, Due, RepliesSolicited
<1>4. QED
  BY Inductive, <1>1, <1>2, <1>3, PTL DEF Spec

\* A connection that waits for a worker has a request that nobody has read, and no
\* answer; so have the ones that stop() has purged.
StrandInv ==
    /\ \A c \in Conns : c \in ToSet(backlog) \/ c \in ToSet(tasks) =>
          request[c] # <<>> /\ response[c] = <<>>
    /\ \A c \in Conns : net[c] = "none" => response[c] = <<>>
    /\ OnlyUnreadStranded

\* A step that moves no connection, takes a request from none and writes an answer
\* only behind another one keeps StrandInv.
LEMMA QuietStrandInv ==
    ASSUME StrandInv, UNCHANGED <<backlog, tasks, wconn, net>>,
           mainPc' = mainPc \/ mainPc' # "serving",
           \A c \in Conns : /\ request'[c] = request[c] \/ request'[c] # <<>>
                            /\ \/ response'[c] = response[c] \/ response'[c] = <<>>
                               \/ response[c] # <<>>
    PROVE  StrandInv'
<1>1. ToSet(backlog)' = ToSet(backlog) /\ ToSet(tasks)' = ToSet(tasks) /\ Stranded' = Stranded
  BY DEF Stranded
<1>2. \A c \in Stranded : c \in Conns
  BY DEF Stranded
<1>3. OnlyUnreadStranded'
  BY <1>1, <1>2 DEF StrandInv, OnlyUnreadStranded
<1>4. QED
  BY <1>1, <1>3 DEF StrandInv

\* A step on a connection that a worker owns keeps StrandInv.
LEMMA OwnedStrandInv ==
    ASSUME TypeOK, OwnerInv, StrandInv, alive, NEW w \in Workers, wpc[w] # "idle",
           UNCHANGED <<backlog, tasks, wconn, net, mainPc>>,
           \A c \in Conns : c # wconn[w] => request'[c] = request[c] /\ response'[c] = response[c]
    PROVE  StrandInv'
<1>1. ToSet(backlog)' = ToSet(backlog) /\ ToSet(tasks)' = ToSet(tasks) /\ Stranded' = Stranded
  BY DEF Stranded
<1>2. wconn[w] \in Conns /\ net[wconn[w]] = "accepted"
  BY DEF TypeOK, OwnerInv, OneOwnerPerConnection
<1>3. wconn[w] \notin ToSet(backlog) /\ wconn[w] \notin ToSet(tasks) /\ wconn[w] \notin Stranded
  BY <1>2 DEF OwnerInv, OneOwnerPerConnection, Stranded
<1>4. \A c \in Stranded : c \in Conns
  BY DEF Stranded
<1>5. OnlyUnreadStranded'
  BY <1>1, <1>3, <1>4 DEF StrandInv, OnlyUnreadStranded
<1>6. QED
  BY <1>1, <1>2, <1>3, <1>5 DEF StrandInv

\* A new connection brings its first request along.
LEMMA ConnectStrandInv ==
    ASSUME TypeOK, StrandInv, NEW c \in Conns, NEW r \in Requests, Connect(c, r),
           UNCHANGED <<tasks, wconn, mainPc, response>>
    PROVE  StrandInv'
<1>1. /\ net[c] = "none" /\ response[c] = <<>>
      /\ \A d \in Conns : net'[d] = IF d = c THEN "backlog" ELSE net[d]
      /\ \A d \in Conns : request'[d] = IF d = c THEN Append(request[c], r) ELSE request[d]
  BY DEF Connect, TypeOK, StrandInv
<1>2. ToSet(backlog)' = ToSet(backlog) \cup {c} /\ ToSet(tasks)' = ToSet(tasks)
  BY AppendQueue DEF Connect, TypeOK
<1>3. Stranded' = Stranded /\ c \notin Stranded
  BY <1>1, <1>2 DEF Stranded
<1>4. \A d \in Stranded : d \in Conns
  BY DEF Stranded
<1>5. OnlyUnreadStranded'
  BY <1>1, <1>3, <1>4 DEF StrandInv, OnlyUnreadStranded
<1>6. Append(request[c], r) # <<>>
  BY SeqLengths DEF TypeOK
<1>7. QED
  BY <1>1, <1>2, <1>5, <1>6 DEF StrandInv

\* What a worker does strands nothing.
LEMMA WorkerStrandInv ==
    ASSUME TypeOK, OwnerInv, StrandInv, alive, NEW w \in Workers, WorkerStep(w)
    PROVE  StrandInv'
<1> USE DEF TypeOK, mainVars, netVars
<1>1. CASE TakeTask(w)
  <2>1. /\ wconn[w] = NoConn /\ wconn'[w] = Head(tasks)
        /\ \A v \in Workers : v # w => wconn'[v] = wconn[v]
        /\ UNCHANGED <<net, backlog, request, response, mainPc>>
    BY <1>1 DEF TakeTask, OwnerInv
  <2>2. ToSet(tasks) = ToSet(tasks') \cup {Head(tasks)}
    BY <1>1, TakeHead DEF TakeTask
  <2>3. Stranded' \subseteq Stranded
    <3> SUFFICES ASSUME NEW c \in Conns, net'[c] = "accepted", c \notin ToSet(tasks'),
                        \A v \in Workers : wconn'[v] # c
                 PROVE  c \in Stranded
      BY DEF Stranded
    <3>1. c # Head(tasks) /\ \A v \in Workers : v # w => wconn[v] # c
      BY <2>1
    <3>2. c # NoConn
      BY ServerAssumption
    <3>3. QED
      BY <2>1, <2>2, <3>1, <3>2 DEF Stranded
  <2>4. ToSet(tasks)' \subseteq ToSet(tasks) /\ ToSet(backlog)' = ToSet(backlog)
    BY <2>1, <2>2
  <2>5. OnlyUnreadStranded'
    BY <2>1, <2>3 DEF StrandInv, OnlyUnreadStranded
  <2>6. QED
    BY <2>1, <2>4, <2>5 DEF StrandInv
<1>2. ASSUME wpc[w] # "idle", CloseConnection(w),
             UNCHANGED <<backlog, tasks, request, response, mainPc>>
      PROVE  StrandInv'
  <2>1. /\ \A c \in Conns : net'[c] = IF c = wconn[w] THEN "closed" ELSE net[c]
        /\ \A v \in Workers : v # w => wconn'[v] = wconn[v]
    BY <1>2 DEF CloseConnection
  <2>2. ToSet(tasks)' = ToSet(tasks) /\ ToSet(backlog)' = ToSet(backlog)
    BY <1>2
  <2>3. Stranded' \subseteq Stranded
    BY <2>1, <2>2 DEF Stranded
  <2>4. OnlyUnreadStranded'
    BY <1>2, <2>3 DEF StrandInv, OnlyUnreadStranded
  <2>5. QED
    BY <1>2, <2>1, <2>2, <2>4 DEF StrandInv
<1>3. CASE PollEnds(w) \/ (KeepAlive(w) /\ CloseConnection(w))
  BY <1>2, <1>3 DEF PollEnds, KeepAlive
<1>4. CASE KeepAlive(w) /\ UNCHANGED <<wconn, net>>
  BY <1>4, QuietStrandInv DEF KeepAlive
<1>5. CASE ReadRequest(w)
  BY <1>5, OwnedStrandInv DEF ReadRequest
<1>6. CASE ReadLeftLine(w) \/ ReadSplicedLine(w) \/ auth_handler(w) \/ dump(w)
           \/ web_hook_reply(w)
  BY <1>6, OwnedStrandInv
  DEF ReadLeftLine, ReadSplicedLine, auth_handler, dump, web_hook_reply, Reply
<1>7. CASE web_hook_submit(w)
  BY <1>7, QuietStrandInv DEF web_hook_submit
<1>8. QED
  BY <1>1, <1>3, <1>4, <1>5, <1>6, <1>7 DEF WorkerStep, KeepAlive

\* What the listen thread and main() do strands only what nobody has read.
LEMMA ListenStrandInv ==
    ASSUME TypeOK, StopInv, StrandInv, ListenStep \/ MainStep \/ StopServer \/ Crash
    PROVE  StrandInv'
<1> USE DEF TypeOK, mainVars, netVars, workerVars
<1>0. wconn' = wconn /\ request' = request /\ response' = response
  BY DEF ListenStep, MainStep, StopServer, Crash, Accept, LeaveAccept, ListenReturns,
     Joined, Exit
<1>1. CASE Accept
  <2> DEFINE c == Head(backlog)
  <2>1. /\ c \in Conns /\ ToSet(backlog) = ToSet(backlog') \cup {c}
        /\ ToSet(tasks') = ToSet(tasks) \cup {c}
    BY <1>1, TakeHead, AppendQueue DEF Accept, Enqueue
  <2>2. /\ \A d \in Conns : net'[d] = IF d = c THEN "accepted" ELSE net[d]
        /\ mainPc' = mainPc
    BY <1>1 DEF Accept
  <2> HIDE DEF c
  <2>3. Stranded' \subseteq Stranded
    BY <1>0, <2>1, <2>2 DEF Stranded
  <2>4. OnlyUnreadStranded'
    BY <1>0, <2>2, <2>3 DEF StrandInv, OnlyUnreadStranded
  <2>5. QED
    BY <1>0, <2>1, <2>2, <2>4 DEF StrandInv
<1>2. CASE LeaveAccept
  <2>1. /\ tasks' = <<>> /\ backlog' = backlog /\ net' = net /\ mainPc' = mainPc
        /\ mainPc # "serving"
    BY <1>2 DEF LeaveAccept, Shutdown, StopInv
  <2>2. ToSet(tasks') = {} /\ ToSet(backlog') = ToSet(backlog)
    BY <2>1, EmptyQueue
  <2>3. \A c \in Stranded' : c \in Conns /\ (c \in Stranded \/ c \in ToSet(tasks))
    BY <1>0, <2>1, <2>2 DEF Stranded
  <2>4. OnlyUnreadStranded'
    BY <1>0, <2>1, <2>3 DEF StrandInv, OnlyUnreadStranded
  <2>5. QED
    BY <1>0, <2>1, <2>2, <2>4 DEF StrandInv
<1>3. CASE ListenReturns \/ Joined
  BY <1>3, QuietStrandInv DEF ListenReturns, Joined
<1>4. ASSUME tasks' = tasks, backlog' = backlog \/ backlog' = <<>>,
             mainPc' = mainPc \/ mainPc' # "serving",
             \A c \in Conns : net'[c] = net[c] \/ (net[c] # "none" /\ net'[c] = "reset")
      PROVE  StrandInv'
  <2>1. ToSet(tasks') = ToSet(tasks) /\ ToSet(backlog') \subseteq ToSet(backlog)
    BY <1>4, EmptyQueue
  <2>2. Stranded' \subseteq Stranded
    BY <1>0, <1>4, <2>1 DEF Stranded
  <2>3. OnlyUnreadStranded'
    BY <1>0, <1>4, <2>2 DEF StrandInv, OnlyUnreadStranded
  <2>4. QED
    BY <1>0, <1>4, <2>1, <2>3 DEF StrandInv
<1>5. CASE Exit
  BY <1>4, <1>5 DEF Exit
<1>6. CASE StopServer
  BY <1>4, <1>6 DEF StopServer
<1>7. CASE Crash
  BY <1>4, <1>7 DEF Crash
<1>8. QED
  BY <1>1, <1>2, <1>3, <1>5, <1>6, <1>7 DEF ListenStep, MainStep

\* What a hook thread does strands nothing.
LEMMA HookStrandInv ==
    ASSUME TypeOK, StrandInv, NEW h \in HookThreads, HookStep(h)
    PROVE  StrandInv'
<1> USE DEF mainVars, netVars, workerVars
<1>1. CASE ForwardConnect(h) /\ SelfHook
  <2>1. PICK f \in Forwards : Connect(f, [route |-> "dump", key |-> HookKey])
    BY <1>1 DEF ForwardConnect
  <2>2. f \in Conns /\ [route |-> "dump", key |-> HookKey] \in Requests
    BY ServerAssumption DEF Conns, Requests
  <2>3. UNCHANGED <<tasks, wconn, mainPc, response>>
    BY <1>1 DEF ForwardConnect
  <2>4. QED
    BY <2>1, <2>2, <2>3, ConnectStrandInv
<1>2. CASE ForwardConnect(h) /\ ~SelfHook
  BY <1>2, QuietStrandInv DEF ForwardConnect
<1>3. CASE TakeJob(h) \/ PushHeaders(h) \/ CopyHeaders(h) \/ ForwardRefused(h)
  BY <1>3, QuietStrandInv DEF TakeJob, PushHeaders, CopyHeaders, ForwardRefused
<1>4. CASE ForwardReturns(h)
  BY <1>4, QuietStrandInv DEF ForwardReturns, TypeOK
<1>5. QED
  BY <1>1, <1>2, <1>3, <1>4 DEF HookStep

\* Every step keeps StrandInv.
LEMMA StepStrandInv == TypeOK /\ OwnerInv /\ StopInv /\ StrandInv /\ [Next]_vars => StrandInv'
<1> SUFFICES ASSUME TypeOK, OwnerInv, StopInv, StrandInv, [Next]_vars PROVE StrandInv'
  OBVIOUS
<1> USE DEF mainVars, netVars, workerVars
<1>1. ASSUME NEW c \in Clients, ClientConnect(c) PROVE StrandInv'
  BY <1>1, ConnectStrandInv, ServerAssumption DEF ClientConnect, Conns
<1>2. ASSUME NEW c \in Clients, ClientRequest(c) PROVE StrandInv'
  <2>1. PICK r \in ClientRequests : request' = [request EXCEPT ![c] = Append(@, r)]
    BY <1>2 DEF ClientRequest
  <2>2. Append(request[c], r) # <<>>
    BY SeqLengths, ServerAssumption DEF TypeOK, Conns
  <2>3. \A d \in Conns : request'[d] = request[d] \/ request'[d] # <<>>
    BY <2>1, <2>2 DEF TypeOK
  <2>4. QED
    BY <1>2, <2>3, QuietStrandInv DEF ClientRequest
<1>3. ASSUME NEW c \in Clients, ClientStep(c) \/ ClientLeaves(c) PROVE StrandInv'
  BY <1>3, QuietStrandInv DEF ClientStep, ClientReceive, ClientFails, ClientLeaves, TypeOK
<1>4. CASE UNCHANGED vars
  BY <1>4, QuietStrandInv DEF vars
<1>5. QED
  BY <1>1, <1>2, <1>3, <1>4, WorkerStrandInv, ListenStrandInv, HookStrandInv
  DEF Next, ServerStep

\* Only stop() leaves a connection without an owner, and then before a worker has
\* read anything from it.
THEOREM StrandedAreUnread == Spec => []OnlyUnreadStranded
<1>1. Init => StrandInv
  BY EmptyQueue DEF Init, StrandInv, OnlyUnreadStranded, Stranded
<1>2. StrandInv => OnlyUnreadStranded
  BY DEF StrandInv
<1>3. IInv /\ StrandInv /\ [Next]_vars => StrandInv'
  BY StepStrandInv DEF IInv
<1>4. QED
  BY Inductive, <1>1, <1>2, <1>3, PTL DEF Spec

-----------------------------------------------------------------------------
(***************************************************************************)
(* Refinement of WebhookJobs.                                              *)
(***************************************************************************)
\* A step that neither touches a job nor moves a worker into or out of
\* web_hook() is a stuttering step of the abstract jobs.
LEMMA QuietJobs ==
    ASSUME UNCHANGED <<ready, hjob>>,
           \A h \in HookThreads : hpc'[h] = "idle" <=> hpc[h] = "idle",
           \A w \in Workers : wpc'[w] = "waiting" <=> wpc[w] = "waiting"
    PROVE  UNCHANGED <<JobPhase, JobCallers>>
<1>1. ready' = ready /\ hjob' = hjob
  OBVIOUS
<1>2. JobCallers' = JobCallers
  BY DEF JobCallers
<1>3. JobPhase' = JobPhase
  BY <1>1 DEF JobPhase
<1>4. QED
  BY <1>2, <1>3

\* The end of a job is the end of its call.
LEMMA JobEndsJobs ==
    ASSUME TypeOK, JobInv, NEW h \in HookThreads, hpc[h] # "idle", JobEnds(h),
           UNCHANGED wpc
    PROVE  Jobs!JobsNext
<1>1. wpc' = wpc /\ hjob[h] \in Workers /\ hjob[h] # NoWorker
  BY ServerAssumption DEF JobInv, TypeOK
<1>2. wpc[hjob[h]] = "waiting" /\ ~ready[hjob[h]]
  BY <1>1 DEF JobInv, RequestOutlivesJob
<1>3. /\ \A w \in Workers : ready'[w] <=> (ready[w] \/ w = hjob[h])
      /\ \A g \in HookThreads : hjob'[g] = IF g = h THEN NoWorker ELSE hjob[g]
      /\ \A g \in HookThreads : hpc'[g] = IF g = h THEN "idle" ELSE hpc[g]
  BY <1>1 DEF JobEnds, TypeOK
<1>4. JobPhase[hjob[h]] = "calling"
  BY <1>1, <1>2 DEF JobPhase
<1>5. JobPhase' = [JobPhase EXCEPT ![hjob[h]] = "called"]
  <2>1. ASSUME NEW w \in Workers
        PROVE  JobPhase'[w] = IF w = hjob[h] THEN "called" ELSE JobPhase[w]
    <3>1. CASE w = hjob[h]
      BY <3>1, <1>1, <1>2, <1>3 DEF JobPhase
    <3>2. CASE w # hjob[h]
      <4>1. (\E g \in HookThreads : hjob'[g] = w) <=> (\E g \in HookThreads : hjob[g] = w)
        BY <3>2, <1>3, ServerAssumption
      <4>2. QED
        BY <3>2, <4>1, <1>1, <1>3 DEF JobPhase
    <3>3. QED
      BY <3>1, <3>2
  <2>2. /\ JobPhase = [w \in Workers |-> JobPhase[w]]
        /\ JobPhase' = [w \in Workers |-> JobPhase'[w]]
    BY DEF JobPhase
  <2>3. QED
    BY <2>1, <2>2, <1>1
<1>6. h \in JobCallers /\ JobCallers' = JobCallers \ {h}
  BY <1>3 DEF JobCallers
<1>7. Jobs!End(hjob[h], h)
  BY <1>4, <1>5, <1>6 DEF Jobs!End, Jobs!Move
<1>8. QED
  BY <1>1, <1>7 DEF Jobs!JobsNext

\* Submitting the job is asking.
LEMMA SubmitJobs ==
    ASSUME TypeOK, JobInv, NEW w \in Workers, web_hook_submit(w)
    PROVE  Jobs!JobsNext
<1>1. wpc[w] = "routing" /\ hpc' = hpc /\ hjob' = hjob
  BY DEF web_hook_submit, hookVars
<1>2. /\ \A v \in Workers : wpc'[v] = IF v = w THEN "waiting" ELSE wpc[v]
      /\ \A v \in Workers : ready'[v] <=> (v # w /\ ready[v])
  BY DEF web_hook_submit, TypeOK
<1>3. \A h \in HookThreads : hjob[h] # w
  BY <1>1 DEF JobInv, RequestOutlivesJob
<1>4. JobPhase[w] = "none"
  BY <1>1 DEF JobPhase
<1>5. JobPhase' = [JobPhase EXCEPT ![w] = "asked"]
  BY <1>1, <1>2, <1>3 DEF JobPhase
<1>6. JobCallers' = JobCallers
  BY <1>1 DEF JobCallers
<1>7. Jobs!Ask(w)
  BY <1>4, <1>5, <1>6 DEF Jobs!Ask, Jobs!Move
<1>8. QED
  BY <1>7 DEF Jobs!JobsNext

\* The reply is the answer.
LEMMA ReplyJobs ==
    ASSUME TypeOK, JobInv, NEW w \in Workers, web_hook_reply(w)
    PROVE  Jobs!JobsNext
<1>1. wpc[w] = "waiting" /\ ready[w] /\ ready' = ready /\ hpc' = hpc /\ hjob' = hjob
  BY DEF web_hook_reply, hookVars
<1>2. \A v \in Workers : wpc'[v] = IF v = w THEN "loop" ELSE wpc[v]
  BY DEF web_hook_reply, Reply, TypeOK
<1>3. JobPhase[w] = "called"
  BY <1>1 DEF JobPhase
<1>4. JobPhase' = [JobPhase EXCEPT ![w] = "none"]
  BY <1>1, <1>2 DEF JobPhase
<1>5. JobCallers' = JobCallers
  BY <1>1 DEF JobCallers
<1>6. Jobs!Answer(w)
  BY <1>3, <1>4, <1>5 DEF Jobs!Answer, Jobs!Move
<1>7. QED
  BY <1>6 DEF Jobs!JobsNext

\* Taking a job is beginning its call.
LEMMA TakeJobJobs ==
    ASSUME TypeOK, JobInv, NEW h \in HookThreads, TakeJob(h)
    PROVE  Jobs!JobsNext
<1>1. hpc[h] = "idle" /\ hjob[h] = NoWorker /\ jobs # <<>>
      /\ wpc' = wpc /\ ready' = ready
  BY DEF TakeJob, JobInv, workerVars
<1>2. /\ \A g \in HookThreads : hjob'[g] = IF g = h THEN Head(jobs) ELSE hjob[g]
      /\ \A g \in HookThreads : hpc'[g] = IF g = h THEN "push" ELSE hpc[g]
  BY DEF TakeJob, TypeOK
<1>3. Head(jobs) \in Workers /\ Head(jobs) \in ToSet(jobs)
  BY <1>1, TakeHead DEF TypeOK
<1>4. /\ wpc[Head(jobs)] = "waiting" /\ ~ready[Head(jobs)]
      /\ \A g \in HookThreads : hjob[g] # Head(jobs)
  BY <1>3 DEF JobInv, RequestOutlivesJob, OneJobPerWait
<1>5. JobPhase[Head(jobs)] = "asked"
  BY <1>3, <1>4 DEF JobPhase
<1>6. JobPhase' = [JobPhase EXCEPT ![Head(jobs)] = "calling"]
  <2>1. ASSUME NEW w \in Workers
        PROVE  JobPhase'[w] = IF w = Head(jobs) THEN "calling" ELSE JobPhase[w]
    <3>1. CASE w = Head(jobs)
      BY <3>1, <1>1, <1>2, <1>3, <1>4 DEF JobPhase
    <3>2. CASE w # Head(jobs)
      <4>1. (\E g \in HookThreads : hjob'[g] = w) <=> (\E g \in HookThreads : hjob[g] = w)
        BY <3>2, <1>1, <1>2, ServerAssumption
      <4>2. QED
        BY <3>2, <4>1, <1>1 DEF JobPhase
    <3>3. QED
      BY <3>1, <3>2
  <2>2. /\ JobPhase = [w \in Workers |-> JobPhase[w]]
        /\ JobPhase' = [w \in Workers |-> JobPhase'[w]]
    BY DEF JobPhase
  <2>3. QED
    BY <2>1, <2>2, <1>3
<1>7. h \notin JobCallers /\ JobCallers' = JobCallers \cup {h}
  BY <1>1, <1>2 DEF JobCallers
<1>8. Jobs!Begin(Head(jobs), h)
  BY <1>5, <1>6, <1>7 DEF Jobs!Begin, Jobs!Move
<1>9. QED
  BY <1>3, <1>8 DEF Jobs!JobsNext

\* The pools implement the abstract jobs: every /webhook request gets exactly
\* one forward attempt and its answer only after that attempt has ended.
THEOREM JobsRefinement == Spec => ImplementsJobs
<1>1. Init => Jobs!JobsInit
  BY DEF Init, Jobs!JobsInit, JobPhase, JobCallers
<1>2. IInv /\ [Next]_vars => [Jobs!JobsNext]_Jobs!jobVars
  <2> SUFFICES ASSUME TypeOK, JobInv, [Next]_vars
               PROVE  Jobs!JobsNext \/ UNCHANGED <<JobPhase, JobCallers>>
    BY DEF IInv, Jobs!jobVars
  <2> USE DEF workerVars, hookVars, TypeOK
  <2>1. CASE UNCHANGED vars
    BY <2>1, QuietJobs DEF vars
  <2>2. ASSUME NEW c \in Clients,
               ClientConnect(c) \/ ClientRequest(c) \/ ClientStep(c) \/ ClientLeaves(c)
        PROVE  UNCHANGED <<JobPhase, JobCallers>>
    BY <2>2, QuietJobs
    DEF ClientConnect, ClientRequest, ClientStep, ClientReceive, ClientFails,
        ClientLeaves
  <2>3. CASE ListenStep \/ MainStep \/ StopServer \/ Crash
    BY <2>3, QuietJobs
    DEF ListenStep, MainStep, StopServer, Crash, Accept, LeaveAccept,
        ListenReturns, Joined, Exit
  <2>4. ASSUME NEW w \in Workers, WorkerStep(w)
        PROVE  Jobs!JobsNext \/ UNCHANGED <<JobPhase, JobCallers>>
    <3>1. CASE TakeTask(w) \/ KeepAlive(w) \/ PollEnds(w) \/ ReadRequest(w)
               \/ ReadLeftLine(w) \/ ReadSplicedLine(w) \/ auth_handler(w) \/ dump(w)
      BY <3>1, QuietJobs
      DEF TakeTask, KeepAlive, PollEnds, ReadRequest, ReadLeftLine, ReadSplicedLine,
          auth_handler, dump, Reply, CloseConnection
    <3>2. QED
      BY <2>4, <3>1, SubmitJobs, ReplyJobs DEF WorkerStep
  <2>5. ASSUME NEW h \in HookThreads, HookStep(h)
        PROVE  Jobs!JobsNext \/ UNCHANGED <<JobPhase, JobCallers>>
    <3>1. CASE PushHeaders(h) \/ CopyHeaders(h) \/ ForwardConnect(h)
      BY <3>1, QuietJobs DEF PushHeaders, CopyHeaders, ForwardConnect
    <3>2. CASE ForwardRefused(h) \/ ForwardReturns(h)
      BY <3>2, JobEndsJobs DEF ForwardRefused, ForwardReturns
    <3>3. QED
      BY <2>5, <3>1, <3>2, TakeJobJobs DEF HookStep
  <2>6. QED
    BY <2>1, <2>2, <2>3, <2>4, <2>5 DEF Next, ServerStep
<1>3. QED
  BY Inductive, <1>1, <1>2, PTL DEF Spec, ImplementsJobs, Jobs!JobsSpec

=============================================================================
