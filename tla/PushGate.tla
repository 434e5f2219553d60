------------------------------ MODULE PushGate ------------------------------
(***************************************************************************)
(* Offline wake-ups (relay/src/main.rs): maybe_send_push, the PushGate     *)
(* that coalesces and bounds them, and the spawned task that sleeps out    *)
(* its jitter and posts to APNs.  Handlers are SEND arms that have just    *)
(* queued a frame for an offline recipient; they run concurrently.         *)
(***************************************************************************)
EXTENDS Integers, FiniteSets

CONSTANTS
    Handlers,     \* connections with a SEND in hand
    Recipients,
    MaxInflight,  \* MAX_INFLIGHT_PUSH
    MaxQueued,     \* bound: SENDs per handler
    Nobody

ASSUME PushAssumption ==
    /\ IsFiniteSet(Handlers) /\ IsFiniteSet(Recipients)
    /\ MaxInflight \in Nat \ {0}
    /\ MaxQueued \in Nat
    /\ Nobody \notin Recipients

VARIABLES
    tokens,     \* recipients with a push token
    permits,    \* free permits of the semaphore
    inFlight,   \* the in_flight set
    stage,      \* handler -> "read", "lookup", "acquire" or "insert"
    target,     \* handler -> recipient of its frame
    task,       \* recipient -> "none", "jitter" or "posting"
    leaving,    \* finished tasks that still hold their permit
    queued,     \* handler -> SENDs so far
    unwoken,    \* history: recipients with a frame queued after the last POST
    excused     \* history: of those, the ones whose wake-up was skipped: no
                \* token, no permit, or coalesced with a wake-up already posted

gateVars == <<tokens, permits, inFlight, stage, target, task, leaving, queued, unwoken,
          excused>>

GateInit ==
    /\ tokens \in SUBSET Recipients
    /\ permits = MaxInflight
    /\ inFlight = {}
    /\ stage = [h \in Handlers |-> "read"]
    /\ target = [h \in Handlers |-> Nobody]
    /\ task = [r \in Recipients |-> "none"]
    /\ leaving = 0
    /\ queued = [h \in Handlers |-> 0]
    /\ unwoken = {}
    /\ excused = {}

Advance(h, label) == stage' = [stage EXCEPT ![h] = label]

\* The SEND arm has queued a frame for r and found no live route.
Queued(h, r) ==
    /\ stage[h] = "read"
    /\ queued[h] < MaxQueued
    /\ queued' = [queued EXCEPT ![h] = @ + 1]
    /\ target' = [target EXCEPT ![h] = r]
    /\ unwoken' = unwoken \cup {r}
    /\ Advance(h, "lookup")
    /\ UNCHANGED <<tokens, permits, inFlight, task, leaving, excused>>

\* REGISTER_PUSH and DEREGISTER_PUSH from the recipient, token GC.
ChangeToken(r) ==
    /\ tokens' = IF r \in tokens THEN tokens \ {r} ELSE tokens \cup {r}
    /\ UNCHANGED <<permits, inFlight, stage, target, task, leaving, queued, unwoken,
                   excused>>

\* get_cloned: without a token there is nothing to send.
LookupToken(h) ==
    /\ stage[h] = "lookup"
    /\ IF target[h] \in tokens
       THEN Advance(h, "acquire") /\ UNCHANGED excused
       ELSE Advance(h, "read") /\ excused' = excused \cup {target[h]}
    /\ UNCHANGED <<tokens, permits, inFlight, target, task, leaving, queued, unwoken>>

\* Mutant: the recipient is marked before the permit is there.
MutAcquirePermit(h) ==
    /\ stage[h] = "acquire"
    /\ IF permits > 0
       THEN /\ permits' = permits - 1
            /\ Advance(h, "insert")
            /\ UNCHANGED <<inFlight, excused>>
       ELSE /\ inFlight' = inFlight \cup {target[h]}
            /\ Advance(h, "read")
            /\ excused' = excused \cup {target[h]}
            /\ UNCHANGED permits
    /\ UNCHANGED <<tokens, target, task, leaving, queued, unwoken>>

\* try_admit, first half: try_acquire_owned never blocks.
AcquirePermit(h) ==
    /\ stage[h] = "acquire"
    /\ IF permits > 0
       THEN /\ permits' = permits - 1
            /\ Advance(h, "insert")
            /\ UNCHANGED excused
       ELSE /\ Advance(h, "read")
            /\ excused' = excused \cup {target[h]}
            /\ UNCHANGED permits
    /\ UNCHANGED <<tokens, inFlight, target, task, leaving, queued, unwoken>>

\* try_admit, second half, under the set's mutex: coalesce and give the
\* permit back, or mark the recipient and spawn the task.
MarkInFlight(h) ==
    /\ stage[h] = "insert"
    /\ \/ /\ target[h] \in inFlight
          /\ permits' = permits + 1
          /\ excused' = IF task[target[h]] = "posting"
                        THEN excused \cup {target[h]} ELSE excused
          /\ UNCHANGED <<inFlight, task>>
       \/ /\ target[h] \notin inFlight
          /\ inFlight' = inFlight \cup {target[h]}
          /\ task' = [task EXCEPT ![target[h]] = "jitter"]
          /\ UNCHANGED <<permits, excused>>
    /\ Advance(h, "read")
    /\ UNCHANGED <<tokens, target, leaving, queued, unwoken>>

\* The jitter is over and the POST reaches APNs: the device wakes and
\* fetches what is queued at this time.
Post(r) ==
    /\ task[r] = "jitter"
    /\ task' = [task EXCEPT ![r] = "posting"]
    /\ unwoken' = unwoken \ {r}
    /\ excused' = excused \ {r}
    /\ UNCHANGED <<tokens, permits, inFlight, stage, target, leaving, queued>>

\* Mutant: the task may end in its jitter, before the POST.
MutEndsEarly(r) ==
    /\ task[r] # "none"
    /\ inFlight' = inFlight \ {r}
    /\ task' = [task EXCEPT ![r] = "none"]
    /\ leaving' = leaving + 1
    /\ UNCHANGED <<tokens, permits, stage, target, queued, unwoken, excused>>

\* Mutant: the guard clears the mark and its permit is forgotten.
MutKeepsPermit(r) ==
    /\ task[r] = "posting"
    /\ inFlight' = inFlight \ {r}
    /\ task' = [task EXCEPT ![r] = "none"]
    /\ UNCHANGED <<tokens, permits, stage, target, leaving, queued, unwoken, excused>>

\* send_wakeup returns (answer or timeout): PushAdmit::drop clears the mark,
\* then its permit field is dropped.
ClearMark(r) ==
    /\ task[r] = "posting"
    /\ inFlight' = inFlight \ {r}
    /\ task' = [task EXCEPT ![r] = "none"]
    /\ leaving' = leaving + 1
    /\ UNCHANGED <<tokens, permits, stage, target, queued, unwoken, excused>>

ReleasePermit ==
    /\ leaving > 0
    /\ leaving' = leaving - 1
    /\ permits' = permits + 1
    /\ UNCHANGED <<tokens, inFlight, stage, target, task, queued, unwoken, excused>>

GateNext ==
    \/ \E h \in Handlers :
          \/ \E r \in Recipients : Queued(h, r)
          \/ LookupToken(h)
          \/ AcquirePermit(h)
          \/ MarkInFlight(h)
    \/ \E r \in Recipients :
          ChangeToken(r) \/ Post(r) \/ ClearMark(r)
    \/ ReleasePermit

GateSpec == GateInit /\ [][GateNext]_gateVars

\* tokio runs a task once its jitter is over, and HTTP_TIMEOUT ends the POST.
GateFairness ==
    /\ \A r \in Recipients : WF_gateVars(Post(r)) /\ WF_gateVars(ClearMark(r))
    /\ WF_gateVars(ReleasePermit)
    /\ \A h \in Handlers :
          WF_gateVars(LookupToken(h) \/ AcquirePermit(h) \/ MarkInFlight(h))

GateFairSpec == GateSpec /\ GateFairness

---------------------------------------------------------------------------
(* Properties *)

\* Type invariant; the semaphore never holds more permits than it was made
\* with.
GateTypeOK ==
    /\ tokens \subseteq Recipients
    /\ permits \in 0..MaxInflight
    /\ inFlight \subseteq Recipients
    /\ stage \in [Handlers -> {"read", "lookup", "acquire", "insert"}]
    /\ target \in [Handlers -> Recipients \cup {Nobody}]
    /\ \A h \in Handlers : stage[h] # "read" => target[h] \in Recipients
    /\ task \in [Recipients -> {"none", "jitter", "posting"}]
    /\ leaving \in Nat
    /\ unwoken \subseteq Recipients
    /\ excused \subseteq Recipients

\* PushGate's ordering rule: a recipient is marked exactly while a task is
\* there to clear the mark, whichever handlers lost the race for a permit.
NoOrphanMark == inFlight = {r \in Recipients : task[r] # "none"}

\* Every permit is free, in a handler between the halves of try_admit, or
\* with a task: coalescing and dropping leak none.
Admitting == {h \in Handlers : stage[h] = "insert"}
PermitsAccounted ==
    permits + leaving + Cardinality(Admitting) + Cardinality(inFlight)
        = MaxInflight

\* Neither coalescing nor the bound shuts a recipient out for good: PushAdmit's
\* drop always clears the mark, and a relay out of permits gets one back,
\* however handlers coalesce and tasks finish.
GateGivesBack ==
    /\ \A r \in Recipients : r \in inFlight ~> r \notin inFlight
    /\ permits = 0 ~> permits > 0

\* Coalescing loses no wake-up that PushGate's doc does not give up: a frame
\* that was queued after the last POST has a task that has yet to post or a
\* handler on its way to the gate, or its wake-up was skipped for want of a
\* token or a permit, or it met a task that had posted and not yet left.
WokenOrExcused ==
    \A r \in unwoken \ excused :
        \/ task[r] = "jitter"
        \/ \E h \in Handlers : stage[h] # "read" /\ target[h] = r
=============================================================================
