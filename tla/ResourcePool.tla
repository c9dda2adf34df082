---------------------------- MODULE ResourcePool ----------------------------
(***************************************************************************)
(* skillrace/resource_pool.py: counting semaphores for API, Docker and     *)
(* agent slots, shared by the worker threads of a campaign. A thread takes *)
(* a set of slots with "with pool.slots(...)", which may be nested, always *)
(* in one global order; every call on a semaphore and every update of the  *)
(* statistics under their lock is a step of its own.                       *)
(***************************************************************************)
EXTENDS Integers, SequencesExt

CONSTANTS
  Threads,
  Resource,    \* indices into _ORDER: 0 api, 1 docker, 2 agent
  Limit,       \* resource -> its capacity
  Requests,    \* the sets of resources that callers ask for
  Impatient,   \* threads that pass a timeout or a cancel event
  MaxDepth     \* bound: how deep requests are nested

ASSUME ResourceAssumption == Resource \subseteq Nat /\ Limit \in [Resource -> Nat \ {0}]
ASSUME RequestsAssumption ==
  \A request \in Requests : request # {} /\ request \subseteq Resource /\ IsFiniteSet(request)
ASSUME ThreadsAssumption == IsFiniteSet(Threads) /\ Impatient \subseteq Threads
ASSUME DepthAssumption == MaxDepth \in Nat

VARIABLES
  free,     \* the semaphores' counters
  active,   \* _active: the statistics
  held,     \* thread -> _local.held, the orders it holds
  frames,   \* thread -> its open calls of slots: what was requested, what is acquired
  mode      \* thread -> what it does in the innermost of them

vars == <<free, active, held, frames, mode>>

Top(t) == Last(frames[t])
WithTop(t, frame) == [frames EXCEPT ![t] = Append(Front(@), frame)]

\* The resource of the innermost request that is to be acquired next.
Missing(t) == Top(t).requested \ ToSet(Top(t).acquired)
NextOf(t) == CHOOSE r \in Missing(t) : \A s \in Missing(t) : r <= s

Init ==
  /\ free = Limit
  /\ active = [r \in Resource |-> 0]
  /\ held = [t \in Threads |-> <<>>]
  /\ frames = [t \in Threads |-> <<>>]
  /\ mode = [t \in Threads |-> "body"]

\* Faulty variant of Allowed: a nested request may go back in the order.
AllowedAnyOrder(t, request) == ToSet(held[t]) \cap request = {}

\* slots raises ResourceOrderError for any other request, and changes nothing.
Allowed(t, request) ==
  /\ ToSet(held[t]) \cap request = {}
  /\ \A h \in ToSet(held[t]), r \in request : h < r

Enter(t, request) ==
  /\ mode[t] = "body" /\ Len(frames[t]) < MaxDepth
  /\ Allowed(t, request)
  /\ frames' = [frames EXCEPT ![t] = Append(@, [requested |-> request, acquired |-> <<>>])]
  /\ mode' = [mode EXCEPT ![t] = "acquire"]
  /\ UNCHANGED <<free, active, held>>

\* semaphore.acquire() returns.
Take(t) ==
  /\ mode[t] = "acquire" /\ free[NextOf(t)] > 0
  /\ free' = [free EXCEPT ![NextOf(t)] = @ - 1]
  /\ mode' = [mode EXCEPT ![t] = "mark"]
  /\ UNCHANGED <<active, held, frames>>

\* _mark_acquired, and the bookkeeping of the call and of the thread.
MarkAcquired(t) ==
  LET r == NextOf(t) IN
  /\ mode[t] = "mark"
  /\ active' = [active EXCEPT ![r] = @ + 1]
  /\ held' = [held EXCEPT ![t] = Append(@, r)]
  /\ frames' = WithTop(t, [Top(t) EXCEPT !.acquired = Append(@, r)])
  /\ mode' = [mode EXCEPT ![t] = IF Missing(t) = {r} THEN "body" ELSE "acquire"]
  /\ UNCHANGED free

\* Faulty variant of AfterLeaving: a request given up half way keeps what it has.
KeepPartial(t) ==
  IF Missing(t) # {} THEN "body" ELSE "release"

\* What a call does when it is left: nothing acquired, nothing to release.
AfterLeaving(t) == IF Top(t).acquired = <<>> THEN "body" ELSE "release"

\* The body ends, or raises; or the wait is cancelled or times out.
Leave(t) ==
  /\ \/ mode[t] = "body" /\ frames[t] # <<>>
     \/ mode[t] = "acquire" /\ t \in Impatient
  /\ mode' = [mode EXCEPT ![t] = AfterLeaving(t)]
  /\ frames' = IF AfterLeaving(t) = "body" THEN [frames EXCEPT ![t] = Front(@)] ELSE frames
  /\ UNCHANGED <<free, active, held>>

\* Faulty variant of Released: in the order of acquisition.
ReleasedFirst(t) == Head(Top(t).acquired)

\* The slot to give back first is the one acquired last.
Released(t) == Last(Top(t).acquired)

\* The finally clause, first half: the accounting, which raises on a mismatch.
MarkReleased(t) ==
  /\ mode[t] = "release"
  /\ IF held[t] = <<>> \/ Last(held[t]) # Released(t)
     THEN /\ mode' = [mode EXCEPT ![t] = "failed"]
          /\ UNCHANGED <<active, held>>
     ELSE /\ mode' = [mode EXCEPT ![t] = IF active[Released(t)] > 0 THEN "marked" ELSE "failed"]
          /\ active' = [active EXCEPT ![Released(t)] = @ - 1]
          /\ held' = [held EXCEPT ![t] = Front(@)]
  /\ UNCHANGED <<free, frames>>

\* The second half: the semaphore is released, after the statistics.
Release(t) ==
  /\ mode[t] = "marked"
  /\ free' = [free EXCEPT ![Released(t)] = @ + 1]
  /\ IF Len(Top(t).acquired) = 1
     THEN /\ frames' = [frames EXCEPT ![t] = Front(@)]
          /\ mode' = [mode EXCEPT ![t] = "body"]
     ELSE /\ frames' = WithTop(t, [Top(t) EXCEPT !.acquired = Front(@)])
          /\ mode' = [mode EXCEPT ![t] = "release"]
  /\ UNCHANGED <<active, held>>

Step(t) ==
  \/ \E request \in Requests : Enter(t, request)
  \/ Take(t) \/ MarkAcquired(t) \/ Leave(t) \/ MarkReleased(t) \/ Release(t)

Next == \E t \in Threads : Step(t)

Spec == Init /\ [][Next]_vars

\* Threads keep running, every body ends, also one that nests requests, and a waiting
\* thread is not overtaken at its semaphore forever.
FairSpec ==
  /\ Spec
  /\ \A t \in Threads :
       /\ WF_vars(MarkAcquired(t)) /\ WF_vars(MarkReleased(t)) /\ WF_vars(Release(t))
       /\ \A d \in 1 .. MaxDepth :
            SF_vars(mode[t] = "body" /\ Len(frames[t]) = d /\ Leave(t))
       /\ SF_vars(Take(t))

-----------------------------------------------------------------------------
Frame == [requested : SUBSET Resource, acquired : Seq(Resource)]

\* The type invariant; no semaphore is released above its bound.
TypeOK ==
  /\ free \in [Resource -> Nat] /\ active \in [Resource -> Nat]
  /\ \A r \in Resource : free[r] <= Limit[r] /\ active[r] <= Limit[r]
  /\ held \in [Threads -> Seq(Resource)]
  /\ frames \in [Threads -> Seq(Frame)]
  /\ mode \in [Threads -> {"body", "acquire", "mark", "release", "marked", "failed"}]

Acquired(t) == UNION {ToSet(frames[t][i].acquired) : i \in 1 .. Len(frames[t])}

\* The threads that use a slot of resource r, from the semaphore's point of view.
UsersOf(r) ==
  {t \in Threads : r \in Acquired(t) \/ (mode[t] = "mark" /\ NextOf(t) = r)}

\* Slots are conserved: those in use and those free make up the limit, whatever
\* requests were cancelled, nested or refused. With nobody inside, all are free. The
\* RuntimeErrors of the finally clause are unreachable, for the thread's list of held
\* slots always ends with what the innermost call releases; and the statistics never
\* report more in use than there really is.
SlotsConserved ==
  /\ TypeOK
  /\ \A r \in Resource : free[r] + Cardinality(UsersOf(r)) = Limit[r]
  /\ \A t \in Threads : mode[t] # "failed"
  /\ \A r \in Resource : active[r] <= Cardinality(UsersOf(r))

\* What each thread holds is in the global order, across all its nested requests, and
\* below what it waits for: no set of threads can wait for each other in a circle.
NoCircularWait ==
  \A t \in Threads :
    /\ \A i, j \in 1 .. Len(held[t]) : i < j => held[t][i] < held[t][j]
    /\ mode[t] = "acquire" => \A h \in ToSet(held[t]) : h < NextOf(t)

\* A thread that waits for slots gets them all, or gives up, in the end.
EventuallyServed == \A t \in Threads : mode[t] = "acquire" ~> mode[t] = "body"
=============================================================================
