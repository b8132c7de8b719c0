------------------------------ MODULE WebhookJobs ------------------------------
(***************************************************************************)
(* What /webhook promises, without connections, queues or the network: a   *)
(* request that asks for a forward gets exactly one attempt, made while    *)
(* the request waits, and its answer only after the attempt has ended; at  *)
(* most one attempt per hook thread is under way.                          *)
(***************************************************************************)
EXTENDS Naturals, FiniteSets

CONSTANTS Workers, HookThreads

VARIABLES
    phase,  \* of each worker's request: none, asked, calling, called
    caller  \* the hook threads that are making a call

jobVars == <<phase, caller>>

JobsInit ==
    /\ phase = [w \in Workers |-> "none"]
    /\ caller = {}

Move(w, from, to) ==
    /\ phase[w] = from
    /\ phase' = [phase EXCEPT ![w] = to]

Ask(w) == Move(w, "none", "asked") /\ UNCHANGED caller

Begin(w, h) ==
    /\ Move(w, "asked", "calling")
    /\ h \notin caller
    /\ caller' = caller \cup {h}

End(w, h) ==
    /\ Move(w, "calling", "called")
    /\ h \in caller
    /\ caller' = caller \ {h}

Answer(w) == Move(w, "called", "none") /\ UNCHANGED caller

JobsNext ==
    \E w \in Workers :
        \/ Ask(w) \/ Answer(w)
        \/ \E h \in HookThreads : Begin(w, h) \/ End(w, h)

JobsSpec == JobsInit /\ [][JobsNext]_jobVars
=============================================================================
