----------------------------- MODULE HttpClientLib -----------------------------
(***************************************************************************)
(* The client library of core/http_client: the handle, its headers, and    *)
(* the calls that threads of the application make with it.                 *)
(*                                                                         *)
(* The two calls for JSON submit a task to the handle's pool and wait for  *)
(* its future; the others use the client in the calling thread.  The       *)
(* client sends one request at a time.  A response is a status, or none.   *)
(***************************************************************************)
EXTENDS Integers, Sequences, FiniteSets, SequencesExt

CONSTANTS
    Callers,      \* threads of the application
    PoolThreads,  \* the threads of the pool, two in the code
    ConfigFiles,  \* what new_http_client may read, see ConfigAssumption
    HeaderNames,  \* bound: what setup_http_header is called with
    MaxHeaders,   \* bound: how often
    Statuses,     \* what a server answers
    Valid,        \* is_valid() of the client
    NoCaller

ConfigKeys == {"auth-token", "port", "host", "debug"}
NoResponse == -2
ASSUME ConfigAssumption ==
    /\ \A f \in ConfigFiles : f.exists \in BOOLEAN /\ f.keys \subseteq ConfigKeys
    /\ MaxHeaders \in Nat /\ Valid \in BOOLEAN /\ NoCaller \notin Callers
    /\ Statuses \subseteq Nat \ {0}

JsonOps == {"post_json_request", "post_json_with_resp"}
DirectOps == {"file_download", "post_file_request", "post_file_stream"}

VARIABLES
    cl_handle,   \* none, open, freed, null (invalid), threw (the configuration)
    cl_config,   \* the keys of the configuration that the handle holds
    cl_headers,  \* mHeaders, a multimap: the order of the names says nothing
    cl_defaults, \* the default headers of the client
    cl_call,     \* per caller: the call it is in
    cl_queue,    \* the tasks of the pool, by the caller that waits for them
    cl_pool,     \* per thread of the pool: the caller whose task it runs
    cl_lock,     \* whose request the client is sending
    cl_file,     \* the local file of file_download: per caller, what it holds
    cl_crashed,  \* a null response was followed
    cl_wire      \* (ghost) per caller: the request it last sent, and the answer

clientVars == <<cl_handle, cl_config, cl_headers, cl_defaults, cl_call, cl_queue, cl_pool,
                cl_lock, cl_file, cl_crashed, cl_wire>>
settings == <<cl_handle, cl_config, cl_headers, cl_defaults>>

NotSent == [headers |-> <<>>, answer |-> NoResponse]
NoCall == [op |-> "none", pc |-> "idle", result |-> 0]

ClientInit ==
    /\ cl_handle = "none" /\ cl_config = {} /\ cl_headers = <<>> /\ cl_defaults = <<>>
    /\ cl_call = [t \in Callers |-> NoCall]
    /\ cl_queue = <<>> /\ cl_pool = [p \in PoolThreads |-> NoCaller]
    /\ cl_lock = NoCaller
    /\ cl_file = [t \in Callers |-> "absent"]
    /\ cl_crashed = FALSE
    /\ cl_wire = [t \in Callers |-> NotSent]

Running == ~cl_crashed /\ cl_handle = "open"
Quiet == \A t \in Callers : cl_call[t].pc = "idle"

-----------------------------------------------------------------------------
(***************************************************************************)
(* The handle.                                                             *)
(***************************************************************************)
\* decode: the three keys that have to be there; debug is TRUE without one.
Decodes(keys) == {"auth-token", "port", "host"} \subseteq keys

\* parse() throws when there is no file, getConfig() when it does not decode.
Configures(f) == f.exists /\ Decodes(f.keys)

new_http_client ==
    /\ cl_handle = "none"
    /\ \E f \in ConfigFiles :
          /\ cl_handle' = IF ~Configures(f) THEN "threw"
                          ELSE IF Valid THEN "open" ELSE "null"
          /\ cl_config' = IF cl_handle' = "open" THEN f.keys ELSE {}
    /\ UNCHANGED <<cl_headers, cl_defaults, cl_call, cl_queue, cl_pool, cl_lock, cl_file,
                   cl_crashed, cl_wire>>

setup_http_header ==
    /\ Running /\ Quiet /\ Len(cl_headers) < MaxHeaders
    /\ \E name \in HeaderNames : cl_headers' = Append(cl_headers, name)
    /\ UNCHANGED <<cl_handle, cl_config, cl_defaults, cl_call, cl_queue, cl_pool, cl_lock,
                   cl_file, cl_crashed, cl_wire>>

http_request_initialize ==
    /\ Running /\ Quiet
    /\ cl_defaults' = <<"User-Agent", "API-KEY">> \o cl_headers
    /\ UNCHANGED <<cl_handle, cl_config, cl_headers, cl_call, cl_queue, cl_pool, cl_lock,
                   cl_file, cl_crashed, cl_wire>>

\* free(): the memory of the handle, and no destructor; the pool's threads stay.
free_client_handle ==
    /\ Running /\ Quiet
    /\ cl_handle' = "freed" /\ cl_headers' = <<>>
    /\ UNCHANGED <<cl_config, cl_defaults, cl_call, cl_queue, cl_pool, cl_lock, cl_file,
                   cl_crashed, cl_wire>>

-----------------------------------------------------------------------------
(***************************************************************************)
(* The calls.                                                              *)
(***************************************************************************)
At(t, op, pc) == cl_call[t].op = op /\ cl_call[t].pc = pc
Move(t, pc) == cl_call' = [cl_call EXCEPT ![t].pc = pc]
ReturnStatus(t, status) ==
    cl_call' = [cl_call EXCEPT ![t].pc = "returned", ![t].result = status]

post_json(t) ==
    /\ Running /\ cl_call[t].pc = "idle"
    /\ \E op \in JsonOps : cl_call' = [cl_call EXCEPT ![t] = [op |-> op, pc |-> "future", result |-> 0]]
    /\ cl_queue' = Append(cl_queue, t)
    /\ cl_wire' = [cl_wire EXCEPT ![t] = NotSent]
    /\ UNCHANGED <<settings, cl_pool, cl_lock, cl_file, cl_crashed>>

\* file_download opens its file, or goes on without one; post_file_request
\* returns without a file.
call_directly(t) ==
    /\ Running /\ cl_call[t].pc = "idle"
    /\ \E op \in DirectOps, opens \in BOOLEAN :
          /\ cl_call' = [cl_call EXCEPT ![t] =
               [op |-> op, result |-> 0,
                pc |-> IF op = "post_file_request" /\ ~opens THEN "returned" ELSE "request"]]
          /\ cl_file' = [cl_file EXCEPT ![t] = IF op = "file_download" /\ opens THEN "empty"
                                               ELSE "absent"]
    /\ cl_wire' = [cl_wire EXCEPT ![t] = NotSent]
    /\ UNCHANGED <<settings, cl_queue, cl_pool, cl_lock, cl_crashed>>

\* Mutant: a thread of the pool takes the task that came last.
take_last(p) ==
    /\ ~cl_crashed /\ cl_pool[p] = NoCaller /\ cl_queue # <<>>
    /\ cl_pool' = [cl_pool EXCEPT ![p] = Last(cl_queue)]
    /\ cl_queue' = Tail(cl_queue)
    /\ UNCHANGED <<settings, cl_call, cl_lock, cl_file, cl_crashed, cl_wire>>

take_task(p) ==
    /\ ~cl_crashed /\ cl_pool[p] = NoCaller /\ cl_queue # <<>>
    /\ cl_pool' = [cl_pool EXCEPT ![p] = Head(cl_queue)]
    /\ cl_queue' = Tail(cl_queue)
    /\ UNCHANGED <<settings, cl_call, cl_lock, cl_file, cl_crashed, cl_wire>>

\* The client sends a request for t with the default headers of that moment.
Send(t) ==
    /\ ~cl_crashed /\ cl_lock = NoCaller
    /\ cl_lock' = t
    /\ cl_wire' = [cl_wire EXCEPT ![t] = [headers |-> cl_defaults, answer |-> NoResponse]]
    /\ UNCHANGED <<settings, cl_queue, cl_pool, cl_file, cl_crashed>>

send_task(p) ==
    /\ cl_pool[p] # NoCaller /\ cl_call[cl_pool[p]].pc = "future"
    /\ Send(cl_pool[p]) /\ Move(cl_pool[p], "sending")

send_directly(t) ==
    /\ cl_call[t].pc = "request" /\ Send(t) /\ Move(t, "sending")

\* The server answers, or the connection fails.  A download writes what comes to
\* its stream, whether the stream has a file or not.
response(t) ==
    /\ ~cl_crashed /\ cl_lock = t /\ cl_call[t].pc = "sending"
    /\ \E answer \in Statuses \cup {NoResponse} :
          /\ cl_wire' = [cl_wire EXCEPT ![t].answer = answer]
          /\ cl_file' = IF At(t, "file_download", "sending") /\ cl_file[t] = "empty" /\ answer # NoResponse
                        THEN [cl_file EXCEPT ![t] = "written"] ELSE cl_file
    /\ cl_lock' = NoCaller
    /\ cl_pool' = [p \in PoolThreads |-> IF cl_pool[p] = t THEN NoCaller ELSE cl_pool[p]]
    /\ Move(t, "answered")
    /\ UNCHANGED <<settings, cl_queue, cl_crashed>>

\* Every call ends with resp->status, the two for JSON after they have found
\* that there is no response.
take_status(t) ==
    /\ ~cl_crashed /\ cl_call[t].pc = "answered"
    /\ IF cl_wire[t].answer = NoResponse
       THEN cl_crashed' = TRUE /\ UNCHANGED cl_call
       ELSE ReturnStatus(t, cl_wire[t].answer) /\ UNCHANGED cl_crashed
    /\ UNCHANGED <<settings, cl_queue, cl_pool, cl_lock, cl_file, cl_wire>>

\* The application looks at the result.
call_again(t) ==
    /\ ~cl_crashed /\ cl_call[t].pc = "returned"
    /\ cl_call' = [cl_call EXCEPT ![t] = NoCall]
    /\ cl_wire' = [cl_wire EXCEPT ![t] = NotSent]
    /\ cl_file' = [cl_file EXCEPT ![t] = "absent"]
    /\ UNCHANGED <<settings, cl_queue, cl_pool, cl_lock, cl_crashed>>

ClientStep(t) == \/ post_json(t) \/ call_directly(t) \/ send_directly(t) \/ response(t)
                 \/ take_status(t) \/ call_again(t)
PoolStep(p) == take_task(p) \/ send_task(p)

ClientNext ==
    \/ new_http_client \/ setup_http_header \/ http_request_initialize \/ free_client_handle
    \/ \E t \in Callers : ClientStep(t)
    \/ \E p \in PoolThreads : PoolStep(p)

ClientSpec == ClientInit /\ [][ClientNext]_clientVars

-----------------------------------------------------------------------------
(***************************************************************************)
(* Properties.                                                             *)
(***************************************************************************)
\* Type invariant of the client library.
ClientTypeOK ==
    /\ cl_handle \in {"none", "open", "freed", "null", "threw"}
    /\ cl_config \subseteq ConfigKeys
    /\ cl_headers \in Seq(HeaderNames)
    /\ cl_defaults \in Seq(HeaderNames \cup {"User-Agent", "API-KEY"})
    /\ cl_call \in [Callers -> [op : JsonOps \cup DirectOps \cup {"none"}, result : Nat,
                               pc : {"idle", "future", "request", "sending", "answered", "returned"}]]
    /\ cl_queue \in Seq(Callers)
    /\ cl_pool \in [PoolThreads -> Callers \cup {NoCaller}]
    /\ cl_lock \in Callers \cup {NoCaller}
    /\ cl_file \in [Callers -> {"absent", "empty", "written"}]
    /\ cl_wire \in [Callers -> [headers : Seq(HeaderNames \cup {"User-Agent", "API-KEY"}),
                               answer : Statuses \cup {NoResponse}]]
    /\ cl_crashed \in BOOLEAN

\* A caller that waits for a future has exactly one task that will complete it:
\* in the queue, or run by one thread of the pool.  A task refers to the waiting
\* caller's locals, so nobody else may have one.
FutureHasItsTask ==
    \A t \in Callers :
        LET waits == cl_call[t].op \in JsonOps /\ cl_call[t].pc \in {"future", "sending"}
            queued == {i \in DOMAIN cl_queue : cl_queue[i] = t}
            run == {p \in PoolThreads : cl_pool[p] = t} IN
        Cardinality(queued) + Cardinality(run) = IF waits THEN 1 ELSE 0

\* Each request that is sent carries the key once, and no header that was not
\* set up, each as often as it was.
RequestsCarryHeaders ==
    \A t \in Callers :
        LET sent == cl_wire[t].headers IN
        sent # <<>> => /\ Cardinality({i \in DOMAIN sent : sent[i] = "API-KEY"}) = 1
                       /\ cl_handle = "open" => IsPrefix(SubSeq(sent, 3, Len(sent)), cl_headers)

\* The process is lost only to a request that got no response; what a call
\* returns is what the server answered to that call's own request, except for the
\* 0 of a file that cannot be read.
CallsTellOutcome ==
    /\ cl_crashed => \E t \in Callers : cl_call[t].pc = "answered" /\ cl_wire[t].answer = NoResponse
    /\ \A t \in Callers : cl_call[t].pc = "returned" =>
          \/ cl_call[t].result = cl_wire[t].answer
          \/ cl_call[t].result = 0 /\ cl_call[t].op = "post_file_request" /\ cl_wire[t] = NotSent

\* What the library promises its callers.
ClientPromises == FutureHasItsTask /\ RequestsCarryHeaders /\ CallsTellOutcome

=============================================================================
