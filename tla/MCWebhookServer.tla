---------------------------- MODULE MCWebhookServer ----------------------------
EXTENDS WebhookServer

\* The state of each worker's request as WebhookJobs sees it: a worker that
\* waits has asked; its call is under way while a hook thread holds its job,
\* and over when its future is ready.
JobPhase ==
    [w \in Workers |->
        IF wpc[w] # "waiting" THEN "none"
        ELSE IF ready[w] THEN "called"
        ELSE IF \E h \in HookThreads : hjob[h] = w THEN "calling"
        ELSE "asked"]

JobCallers == {h \in HookThreads : hpc[h] # "idle"}

Jobs == INSTANCE WebhookJobs WITH phase <- JobPhase, caller <- JobCallers

\* The two pools, with their queues and futures, make exactly one forward
\* attempt per /webhook request and answer only after it has ended.
ImplementsJobs == Jobs!JobsSpec

KeyedRequests == {[route |-> "webhook", key |-> TRUE], [route |-> "dump", key |-> TRUE]}

HookRequests == {[route |-> "webhook", key |-> TRUE], [route |-> "webhook", key |-> FALSE]}

AnyRequests == KeyedRequests \cup HookRequests

MCSymmetry == Permutations(Workers) \cup Permutations(HookThreads)
              \cup Permutations(Forwards) \cup Permutations(Clients)
=============================================================================
