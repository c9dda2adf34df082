-------------------------- MODULE SharedHostProofs --------------------------
(***************************************************************************)
(* Theorems about what the campaigns of one host share: the slots of the   *)
(* resource pool, for any threads, limits, requests and depth of nesting,  *)
(* and the images of Docker, for any images and any number of crashes and  *)
(* failed removals. The two do not interact: ResourcePool and ImageCleanup *)
(* have no variable in common.                                             *)
(***************************************************************************)
EXTENDS ResourcePool, ImageCleanup, SequenceTheorems, FiniteSetTheorems, WellFoundedInduction, TLAPS

-----------------------------------------------------------------------------
(* The resource pool. What a thread holds, has open and does next concern that thread
   alone, so the invariant is stated of one thread at a time. *)

Mode == {"body", "acquire", "mark", "release", "marked", "failed"}

\* One thread: its held list h, its open frames fs, its mode m. The list is in the
\* global order; a thread that acquires still misses a resource, and everything it
\* misses is above everything it holds; one that releases has something to release.
ThreadOK(h, fs, m) ==
  /\ h \in Seq(Resource) /\ fs \in Seq(Frame) /\ m \in Mode
  /\ \A i, j \in 1 .. Len(h) : i < j => h[i] < h[j]
  /\ m \notin {"body", "failed"} => fs # <<>>
  /\ m \in {"release", "marked"} => Last(fs).acquired # <<>>
  /\ m \in {"acquire", "mark"} =>
       LET left == Last(fs).requested \ ToSet(Last(fs).acquired)
       IN left # {} /\ \A k \in ToSet(h), r \in left : k < r

OrderInv ==
  /\ held \in [Threads -> Seq(Resource)]
  /\ frames \in [Threads -> Seq(Frame)]
  /\ mode \in [Threads -> Mode]
  /\ \A t \in Threads : ThreadOK(held[t], frames[t], mode[t])

-----------------------------------------------------------------------------
(* Sequences and minima *)

\* What the last element of a sequence is, and what is in front of it.
LEMMA LastAndFront ==
  ASSUME NEW S, NEW s \in Seq(S), s # <<>>
  PROVE  /\ Last(s) \in S
         /\ Front(s) \in Seq(S) /\ Len(Front(s)) = Len(s) - 1
         /\ \A i \in 1 .. Len(s) - 1 : Front(s)[i] = s[i]
         /\ Len(s) # 1 => Front(s) # <<>>
<1>1. Len(s) \in Nat \ {0}
  OBVIOUS
<1>2. Last(s) \in S
  BY <1>1 DEF Last
<1>3. \A i \in 1 .. Len(s) - 1 : s[i] \in S
  BY <1>1
<1>4. Front(s) = [i \in 1 .. Len(s) - 1 |-> s[i]]
  BY <1>1 DEF Front
<1>5. Front(s) \in [1 .. Len(s) - 1 -> S]
  BY <1>3, <1>4
<1>6. Front(s) \in Seq(S) /\ Len(Front(s)) = Len(s) - 1
  BY <1>1, <1>5
<1>7. Len(s) # 1 => Front(s) # <<>>
  <2> SUFFICES ASSUME Len(s) # 1, Front(s) = <<>> PROVE FALSE
    OBVIOUS
  <2>1. Len(Front(s)) = 0
    OBVIOUS
  <2> QED
    BY <1>1, <1>6, <2>1
<1> QED
  BY <1>2, <1>4, <1>6, <1>7

\* What appending an element does to a sequence.
LEMMA AppendFacts ==
  ASSUME NEW S, NEW s \in Seq(S), NEW e \in S
  PROVE  /\ Append(s, e) \in Seq(S) /\ Append(s, e) # <<>>
         /\ Len(Append(s, e)) = Len(s) + 1
         /\ Last(Append(s, e)) = e
         /\ \A i \in 1 .. Len(s) : Append(s, e)[i] = s[i]
         /\ ToSet(Append(s, e)) = ToSet(s) \cup {e}
<1>1. /\ Append(s, e) \in Seq(S)
      /\ Len(Append(s, e)) = Len(s) + 1
      /\ \A i \in 1 .. Len(s) : Append(s, e)[i] = s[i]
      /\ Append(s, e)[Len(s) + 1] = e
  OBVIOUS
<1>2. Append(s, e) # <<>> /\ Last(Append(s, e)) = e
  BY <1>1 DEF Last
<1>3. Len(s) \in Nat /\ DOMAIN s = 1 .. Len(s) /\ DOMAIN Append(s, e) = 1 .. Len(s) + 1
  BY <1>1
<1>4. ToSet(Append(s, e)) = ToSet(s) \cup {e}
  BY <1>1, <1>3 DEF ToSet
<1> QED
  BY <1>1, <1>2, <1>4

\* The members of a sequence are the values at its indices.
LEMMA Members ==
  ASSUME NEW S, NEW s \in Seq(S)
  PROVE  /\ ToSet(s) \subseteq S
         /\ \A i \in 1 .. Len(s) : s[i] \in ToSet(s)
         /\ \A x \in ToSet(s) : \E i \in 1 .. Len(s) : x = s[i]
BY DEF ToSet

\* A set of naturals that is not empty has a least element.
LEMMA LeastNatural ==
  ASSUME NEW S \in SUBSET Nat, S # {}
  PROVE  \E m \in S : \A s \in S : m <= s
<1>1. \E m \in S : \A s \in S : ~ (<<s, m>> \in OpToRel(<, Nat))
  BY NatLessThanWellFounded, WFMin, Zenon
<1>2. \A s, m \in Nat : s < m => <<s, m>> \in OpToRel(<, Nat)
  BY DEF OpToRel
<1>3. \E m \in S : \A s \in S : ~ (s < m)
  BY <1>1, <1>2, Zenon
<1> QED
  BY <1>3

\* The resource acquired next is the least of those missing.
LEMMA NextIsLeast ==
  ASSUME NEW t, Missing(t) # {}, Missing(t) \subseteq Resource
  PROVE  NextOf(t) \in Missing(t) /\ \A s \in Missing(t) : NextOf(t) <= s
<1>1. Missing(t) \in SUBSET Nat
  BY ResourceAssumption
<1>2. \E m \in Missing(t) : \A s \in Missing(t) : m <= s
  BY <1>1, LeastNatural, Zenon
<1> QED
  BY <1>2, Zenon DEF NextOf

\* Replacing what a frame has acquired.
LEMMA FrameUpdate ==
  ASSUME NEW f \in Frame, NEW s \in Seq(Resource)
  PROVE  /\ [f EXCEPT !.acquired = s] \in Frame
         /\ [f EXCEPT !.acquired = s].requested = f.requested
         /\ [f EXCEPT !.acquired = s].acquired = s
BY DEF Frame

-----------------------------------------------------------------------------
LEMMA OrderInvInit == Init => OrderInv
<1> SUFFICES ASSUME Init PROVE OrderInv
  OBVIOUS
<1>1. ASSUME NEW t \in Threads PROVE ThreadOK(<<>>, <<>>, "body")
  BY DEF ThreadOK, Mode
<1> QED
  BY <1>1 DEF Init, OrderInv, Mode

\* A step of one thread that leaves it in order leaves all of them in order.
LEMMA OthersUndisturbed ==
  ASSUME OrderInv, NEW t \in Threads,
         NEW h, NEW fs, NEW m, ThreadOK(h, fs, m),
         held' = [held EXCEPT ![t] = h],
         frames' = [frames EXCEPT ![t] = fs],
         mode' = [mode EXCEPT ![t] = m]
  PROVE  OrderInv'
<1>1. h \in Seq(Resource) /\ fs \in Seq(Frame) /\ m \in Mode
  BY DEF ThreadOK
<1>2. /\ held' \in [Threads -> Seq(Resource)]
      /\ frames' \in [Threads -> Seq(Frame)]
      /\ mode' \in [Threads -> Mode]
  BY <1>1 DEF OrderInv
<1>3. ASSUME NEW u \in Threads PROVE ThreadOK(held'[u], frames'[u], mode'[u])
  BY DEF OrderInv
<1> QED
  BY <1>2, <1>3 DEF OrderInv

LEMMA EnterStep ==
  ASSUME OrderInv, NEW t \in Threads, NEW request \in Requests, Enter(t, request)
  PROVE  OrderInv'
<1> DEFINE frame == [requested |-> request, acquired |-> <<>>]
           fs == Append(frames[t], frame)
<1>1. frame \in Frame /\ request # {}
  BY RequestsAssumption DEF Frame
<1>2. ThreadOK(held[t], frames[t], mode[t]) /\ frames[t] \in Seq(Frame)
  BY DEF OrderInv
<1>3. fs \in Seq(Frame) /\ fs # <<>> /\ Last(fs) = frame
  BY <1>1, <1>2, AppendFacts
<1>4. \A k \in ToSet(held[t]), r \in request : k < r
  BY DEF Enter, Allowed
<1>5. Last(fs).requested \ ToSet(Last(fs).acquired) = request
  BY <1>3 DEF ToSet
<1> HIDE DEF fs
<1>6. ThreadOK(held[t], fs, "acquire")
  BY <1>1, <1>2, <1>3, <1>4, <1>5 DEF ThreadOK, Mode
<1>7. held' = [held EXCEPT ![t] = held[t]]
  BY DEF Enter, OrderInv
<1> QED
  BY <1>6, <1>7, OthersUndisturbed DEF Enter, fs

LEMMA TakeStep == ASSUME OrderInv, NEW t \in Threads, Take(t) PROVE OrderInv'
<1>1. ThreadOK(held[t], frames[t], "mark")
  BY DEF OrderInv, ThreadOK, Mode, Take
<1>2. held' = [held EXCEPT ![t] = held[t]] /\ frames' = [frames EXCEPT ![t] = frames[t]]
  BY DEF Take, OrderInv
<1> QED
  BY <1>1, <1>2, OthersUndisturbed DEF Take

LEMMA MarkAcquiredStep == ASSUME OrderInv, NEW t \in Threads, MarkAcquired(t) PROVE OrderInv'
<1> DEFINE r == NextOf(t)
           top == Top(t)
           frame == [top EXCEPT !.acquired = Append(@, r)]
           h == Append(held[t], r)
           fs == Append(Front(frames[t]), frame)
           m == IF Missing(t) = {r} THEN "body" ELSE "acquire"
<1>1. /\ held[t] \in Seq(Resource) /\ frames[t] \in Seq(Frame) /\ frames[t] # <<>>
      /\ Missing(t) # {} /\ \A k \in ToSet(held[t]), x \in Missing(t) : k < x
      /\ \A i, j \in 1 .. Len(held[t]) : i < j => held[t][i] < held[t][j]
  BY DEF OrderInv, ThreadOK, MarkAcquired, Missing, Top
<1>2. top \in Frame /\ Front(frames[t]) \in Seq(Frame)
  BY <1>1, LastAndFront DEF Top
<1>3. top.requested \in SUBSET Resource /\ top.acquired \in Seq(Resource)
  BY <1>2 DEF Frame
<1>4. Missing(t) \subseteq Resource /\ Missing(t) = top.requested \ ToSet(top.acquired)
  BY <1>3 DEF Missing
<1>5. r \in Missing(t) /\ r \in Resource /\ \A x \in Missing(t) : r <= x
  BY <1>1, <1>4, NextIsLeast
<1>6. /\ frame \in Frame /\ frame.requested = top.requested
      /\ ToSet(frame.acquired) = ToSet(top.acquired) \cup {r}
  <2>1. Append(top.acquired, r) \in Seq(Resource)
    BY <1>3, <1>5, AppendFacts
  <2>2. ToSet(Append(top.acquired, r)) = ToSet(top.acquired) \cup {r}
    BY <1>3, <1>5, AppendFacts
  <2>3. /\ frame \in Frame /\ frame.requested = top.requested
        /\ frame.acquired = Append(top.acquired, r)
    BY <1>2, <2>1, FrameUpdate
  <2> QED
    BY <2>2, <2>3
<1>7. frame.requested \ ToSet(frame.acquired) = Missing(t) \ {r}
  BY <1>4, <1>6
<1>8. fs \in Seq(Frame) /\ fs # <<>> /\ Last(fs) = frame
  BY <1>2, <1>6, AppendFacts
<1>9. /\ h \in Seq(Resource) /\ Len(h) = Len(held[t]) + 1
      /\ ToSet(h) = ToSet(held[t]) \cup {r}
      /\ \A i \in 1 .. Len(held[t]) : h[i] = held[t][i]
      /\ h[Len(held[t]) + 1] = r
  BY <1>1, <1>5, AppendFacts
<1> HIDE DEF r, top, frame, h, fs
<1>10. \A i, j \in 1 .. Len(h) : i < j => h[i] < h[j]
  <2> SUFFICES ASSUME NEW i \in 1 .. Len(h), NEW j \in 1 .. Len(h), i < j
               PROVE  h[i] < h[j]
    OBVIOUS
  <2>1. i \in 1 .. Len(held[t]) /\ h[i] = held[t][i]
    BY <1>1, <1>9
  <2>2. CASE j \in 1 .. Len(held[t])
    BY <1>1, <1>9, <2>1, <2>2
  <2>3. CASE j = Len(held[t]) + 1
    <3>1. held[t][i] \in ToSet(held[t])
      BY <1>1, <2>1, Members
    <3> QED
      BY <1>1, <1>5, <1>9, <2>1, <2>3, <3>1
  <2> QED
    BY <1>1, <1>9, <2>2, <2>3
<1>11. \A k \in ToSet(h), x \in Missing(t) \ {r} : k < x
  <2> SUFFICES ASSUME NEW k \in ToSet(h), NEW x \in Missing(t) \ {r} PROVE k < x
    OBVIOUS
  <2>1. x \in Nat /\ r \in Nat
    BY <1>4, <1>5, ResourceAssumption
  <2> QED
    BY <1>1, <1>5, <1>9, <2>1
<1>12. ThreadOK(h, fs, m)
  <2>1. m # "body" => Missing(t) \ {r} # {}
    BY <1>1, <1>5
  <2>2. m \in {"body", "acquire"}
    OBVIOUS
  <2> HIDE DEF m
  <2> QED
    BY <1>7, <1>8, <1>9, <1>10, <1>11, <2>1, <2>2 DEF ThreadOK, Mode
<1> QED
  BY <1>12, OthersUndisturbed DEF MarkAcquired, WithTop, r, top, frame, h, fs

LEMMA LeaveStep == ASSUME OrderInv, NEW t \in Threads, Leave(t) PROVE OrderInv'
<1>1. /\ ThreadOK(held[t], frames[t], mode[t]) /\ frames[t] \in Seq(Frame)
      /\ frames[t] # <<>>
  BY DEF OrderInv, ThreadOK, Leave
<1>2. held' = [held EXCEPT ![t] = held[t]]
  BY DEF Leave, OrderInv
<1>3. CASE AfterLeaving(t) = "body"
  <2>1. Front(frames[t]) \in Seq(Frame)
    BY <1>1, LastAndFront
  <2>2. ThreadOK(held[t], Front(frames[t]), "body")
    BY <1>1, <2>1 DEF ThreadOK, Mode
  <2> QED
    BY <1>2, <1>3, <2>2, OthersUndisturbed DEF Leave
<1>4. CASE AfterLeaving(t) = "release"
  <2>1. Last(frames[t]).acquired # <<>>
    BY <1>4 DEF AfterLeaving, Top
  <2>2. ThreadOK(held[t], frames[t], "release")
    BY <1>1, <2>1 DEF ThreadOK, Mode
  <2>3. frames' = [frames EXCEPT ![t] = frames[t]]
    BY <1>4 DEF Leave, OrderInv
  <2> QED
    BY <1>2, <1>4, <2>2, <2>3, OthersUndisturbed DEF Leave
<1> QED
  BY <1>3, <1>4 DEF AfterLeaving

LEMMA MarkReleasedStep == ASSUME OrderInv, NEW t \in Threads, MarkReleased(t) PROVE OrderInv'
<1>1. ThreadOK(held[t], frames[t], "release") /\ held[t] \in Seq(Resource)
  BY DEF OrderInv, MarkReleased
<1>2. frames' = [frames EXCEPT ![t] = frames[t]]
  BY DEF MarkReleased, OrderInv
<1>3. CASE held[t] = <<>> \/ Last(held[t]) # Released(t)
  <2>1. ThreadOK(held[t], frames[t], "failed")
    BY <1>1 DEF ThreadOK, Mode
  <2>2. held' = [held EXCEPT ![t] = held[t]]
    BY <1>3 DEF MarkReleased, OrderInv
  <2> QED
    BY <1>2, <1>3, <2>1, <2>2, OthersUndisturbed DEF MarkReleased
<1>4. CASE ~(held[t] = <<>> \/ Last(held[t]) # Released(t))
  <2> DEFINE m == IF active[Released(t)] > 0 THEN "marked" ELSE "failed"
  <2>1. /\ Front(held[t]) \in Seq(Resource)
        /\ Len(Front(held[t])) = Len(held[t]) - 1
        /\ \A i \in 1 .. Len(held[t]) - 1 : Front(held[t])[i] = held[t][i]
    BY <1>1, <1>4, LastAndFront
  <2>2. \A i, j \in 1 .. Len(Front(held[t])) : i < j => Front(held[t])[i] < Front(held[t])[j]
    BY <1>1, <2>1 DEF ThreadOK
  <2>3. m \in {"marked", "failed"}
    OBVIOUS
  <2>4. /\ mode' = [mode EXCEPT ![t] = m]
        /\ held' = [held EXCEPT ![t] = Front(held[t])]
    BY <1>4 DEF MarkReleased
  <2> HIDE DEF m
  <2>5. ThreadOK(Front(held[t]), frames[t], m)
    BY <1>1, <2>1, <2>2, <2>3 DEF ThreadOK, Mode
  <2> QED
    BY <1>2, <2>4, <2>5, OthersUndisturbed
<1> QED
  BY <1>3, <1>4

LEMMA ReleaseStep == ASSUME OrderInv, NEW t \in Threads, Release(t) PROVE OrderInv'
<1>1. /\ ThreadOK(held[t], frames[t], "marked") /\ frames[t] \in Seq(Frame)
      /\ frames[t] # <<>> /\ Top(t).acquired # <<>>
  BY DEF OrderInv, ThreadOK, Release, Top
<1>2. held' = [held EXCEPT ![t] = held[t]]
  BY DEF Release, OrderInv
<1>3. Top(t) \in Frame /\ Front(frames[t]) \in Seq(Frame)
  BY <1>1, LastAndFront DEF Top
<1>4. CASE Len(Top(t).acquired) = 1
  <2>1. ThreadOK(held[t], Front(frames[t]), "body")
    BY <1>1, <1>3 DEF ThreadOK, Mode
  <2> QED
    BY <1>2, <1>4, <2>1, OthersUndisturbed DEF Release
<1>5. CASE Len(Top(t).acquired) # 1
  <2> DEFINE frame == [Top(t) EXCEPT !.acquired = Front(@)]
             fs == Append(Front(frames[t]), frame)
  <2>1. Top(t).acquired \in Seq(Resource)
    BY <1>3 DEF Frame
  <2>2. Front(Top(t).acquired) \in Seq(Resource) /\ Front(Top(t).acquired) # <<>>
    BY <1>1, <1>5, <2>1, LastAndFront, Zenon
  <2>3. frame \in Frame /\ frame.acquired = Front(Top(t).acquired)
    BY <1>3, <2>2, FrameUpdate
  <2>4. fs \in Seq(Frame) /\ fs # <<>> /\ Last(fs) = frame
    BY <1>3, <2>3, AppendFacts
  <2>5. frames' = [frames EXCEPT ![t] = fs] /\ mode' = [mode EXCEPT ![t] = "release"]
    BY <1>5 DEF Release, WithTop
  <2> HIDE DEF frame, fs
  <2>6. ThreadOK(held[t], fs, "release")
    BY <1>1, <2>2, <2>3, <2>4 DEF ThreadOK, Mode
  <2> QED
    BY <1>2, <2>5, <2>6, OthersUndisturbed
<1> QED
  BY <1>4, <1>5

LEMMA OrderInvStep == OrderInv /\ [Next]_vars => OrderInv'
<1> SUFFICES ASSUME OrderInv, [Next]_vars PROVE OrderInv'
  OBVIOUS
<1>1. CASE UNCHANGED vars
  BY <1>1 DEF vars, OrderInv
<1>2. ASSUME NEW t \in Threads, Step(t) PROVE OrderInv'
  BY <1>2, EnterStep, TakeStep, MarkAcquiredStep, LeaveStep, MarkReleasedStep, ReleaseStep
     DEF Step
<1> QED
  BY <1>1, <1>2 DEF Next

\* What a thread holds follows the global order through all its nested requests, and
\* lies below what it waits for, whatever the threads, limits and requests: no circle
\* of threads waiting for each other can form.
THEOREM HeldInOrder == Spec => []NoCircularWait
<1>1. OrderInv => NoCircularWait
  <2> SUFFICES ASSUME OrderInv, NEW t \in Threads
               PROVE  /\ \A i, j \in 1 .. Len(held[t]) : i < j => held[t][i] < held[t][j]
                      /\ mode[t] = "acquire" => \A h \in ToSet(held[t]) : h < NextOf(t)
    BY DEF NoCircularWait
  <2>1. ThreadOK(held[t], frames[t], mode[t])
    BY DEF OrderInv
  <2>2. \A i, j \in 1 .. Len(held[t]) : i < j => held[t][i] < held[t][j]
    BY <2>1 DEF ThreadOK
  <2>3. ASSUME mode[t] = "acquire" PROVE \A h \in ToSet(held[t]) : h < NextOf(t)
    <3>1. Missing(t) # {} /\ \A k \in ToSet(held[t]), r \in Missing(t) : k < r
      BY <2>1, <2>3 DEF ThreadOK, Missing, Top
    <3>2. Missing(t) \subseteq Resource
      <4>1. Top(t) \in Frame
        BY <2>1, <2>3, LastAndFront DEF ThreadOK, Top
      <4> QED
        BY <4>1 DEF Frame, Missing
    <3>3. NextOf(t) \in Missing(t)
      BY <3>1, <3>2, NextIsLeast
    <3> QED
      BY <3>1, <3>3
  <2> QED
    BY <2>2, <2>3
<1>2. Init => OrderInv
  BY OrderInvInit
<1>3. OrderInv /\ [Next]_vars => OrderInv'
  BY OrderInvStep
<1> QED
  BY <1>1, <1>2, <1>3, PTL DEF Spec

-----------------------------------------------------------------------------
(* Slots are conserved. A semaphore counts the threads that use its resource, the   *)
(* statistics those that list it as held. For a step to change both by one, the list *)
(* must end with what the innermost call gives back, through all nested calls.       *)

Increasing(s) == \A i, j \in 1 .. Len(s) : i < j => s[i] < s[j]

\* What the frames fs have acquired, and the resource frame f acquires next.
OwnedBy(fs) == UNION {ToSet(fs[i].acquired) : i \in 1 .. Len(fs)}
NextIn(f) ==
  LET left == f.requested \ ToSet(f.acquired)
  IN CHOOSE r \in left : \A s \in left : r <= s

\* What a thread with frames fs in mode m uses, and what of it is no longer listed.
Uses(fs, m) == OwnedBy(fs) \cup (IF m = "mark" THEN {NextIn(Last(fs))} ELSE {})
Returned(fs, m) == IF m = "marked" THEN {Last(Last(fs).acquired)} ELSE {}

\* Each frame is acquired in the global order, and above all frames it is nested in.
Nested(fs) ==
  /\ \A i \in 1 .. Len(fs) : Increasing(fs[i].acquired)
  /\ \A i, j \in 1 .. Len(fs) : i < j =>
       \A x \in ToSet(fs[i].acquired), y \in ToSet(fs[j].acquired) : x < y

\* One thread: it lists what its frames own, but for the slot it is giving back.
SlotsOK(h, fs, m) ==
  /\ Nested(fs)
  /\ ToSet(h) = OwnedBy(fs) \ Returned(fs, m)
  /\ m # "failed"

InUse == [t \in Threads |-> Uses(frames[t], mode[t])]
Listed == [t \in Threads |-> ToSet(held[t])]
Sharing(use, r) == Cardinality({t \in Threads : r \in use[t]})

SlotInv ==
  /\ free \in [Resource -> Nat] /\ active \in [Resource -> Nat]
  /\ \A t \in Threads : SlotsOK(held[t], frames[t], mode[t])
  /\ \A r \in Resource : free[r] + Sharing(InUse, r) = Limit[r]
  /\ \A r \in Resource : active[r] = Sharing(Listed, r)

\* A sequence that is not empty is its front followed by its last element.
LEMMA FrontAndLast ==
  ASSUME NEW S, NEW s \in Seq(S), s # <<>>
  PROVE  s = Append(Front(s), Last(s))
<1>1. Len(s) \in Nat \ {0} /\ s = [i \in 1 .. Len(s) |-> s[i]]
  OBVIOUS
<1>2. /\ Front(s) \in Seq(S) /\ Len(Front(s)) = Len(s) - 1 /\ Last(s) \in S
      /\ \A i \in 1 .. Len(s) - 1 : Front(s)[i] = s[i]
  BY LastAndFront
<1>3. Last(s) = s[Len(s)]
  BY DEF Last
<1> DEFINE a == Append(Front(s), Last(s))
<1>4. /\ a \in Seq(S) /\ Len(a) = Len(Front(s)) + 1 /\ Last(a) = Last(s)
      /\ \A i \in 1 .. Len(Front(s)) : a[i] = Front(s)[i]
  BY <1>2, AppendFacts
<1> HIDE DEF a
<1>5. ASSUME NEW i \in 1 .. Len(s) PROVE a[i] = s[i]
  <2>1. CASE i = Len(s)
    <3>1. Len(a) = Len(s)
      BY <1>1, <1>2, <1>4
    <3>2. Last(a) = a[Len(a)]
      BY DEF Last
    <3> QED
      BY <1>3, <1>4, <2>1, <3>1, <3>2
  <2>2. CASE i \in 1 .. Len(s) - 1
    BY <1>1, <1>2, <1>4, <2>2
  <2> QED
    BY <1>1, <2>1, <2>2
<1>6. a = [i \in 1 .. Len(a) |-> a[i]] /\ Len(a) = Len(s)
  BY <1>1, <1>2, <1>4
<1>7. a = s
  BY <1>1, <1>5, <1>6
<1> QED
  BY <1>7 DEF a

\* Of an increasing sequence, the last element is above all in front of it.
LEMMA LastOfIncreasing ==
  ASSUME NEW s \in Seq(Resource), s # <<>>, Increasing(s)
  PROVE  /\ Increasing(Front(s))
         /\ ToSet(s) = ToSet(Front(s)) \cup {Last(s)}
         /\ \A x \in ToSet(Front(s)) : x < Last(s)
<1>1. /\ Front(s) \in Seq(Resource) /\ Len(Front(s)) = Len(s) - 1 /\ Last(s) \in Resource
      /\ \A i \in 1 .. Len(s) - 1 : Front(s)[i] = s[i]
  BY LastAndFront
<1>2. Len(s) \in Nat \ {0} /\ Last(s) = s[Len(s)]
  BY DEF Last
<1>3. Increasing(Front(s))
  BY <1>1, <1>2 DEF Increasing
<1>4. ToSet(s) = ToSet(Front(s)) \cup {Last(s)}
  <2>1. ToSet(Append(Front(s), Last(s))) = ToSet(Front(s)) \cup {Last(s)}
    BY <1>1, AppendFacts
  <2>2. s = Append(Front(s), Last(s))
    BY FrontAndLast
  <2> QED
    BY <2>1, <2>2, Zenon
<1>5. ASSUME NEW x \in ToSet(Front(s)) PROVE x < Last(s)
  <2>1. PICK i \in 1 .. Len(s) - 1 : x = s[i]
    BY <1>1, Members
  <2> QED
    BY <1>2, <2>1 DEF Increasing
<1> QED
  BY <1>3, <1>4, <1>5

\* Appending what is above all members keeps a sequence increasing.
LEMMA AppendAbove ==
  ASSUME NEW s \in Seq(Resource), Increasing(s), NEW e \in Resource,
         \A x \in ToSet(s) : x < e
  PROVE  Increasing(Append(s, e))
<1> DEFINE a == Append(s, e)
<1>1. Len(s) \in Nat /\ Len(a) = Len(s) + 1 /\ a[Len(s) + 1] = e
  OBVIOUS
<1>2. \A i \in 1 .. Len(s) : a[i] = s[i] /\ a[i] \in ToSet(s)
  BY AppendFacts, Members
<1> HIDE DEF a
<1>3. ASSUME NEW i \in 1 .. Len(a), NEW j \in 1 .. Len(a), i < j PROVE a[i] < a[j]
  <2>1. i \in 1 .. Len(s)
    BY <1>1, <1>3
  <2>2. CASE j \in 1 .. Len(s)
    BY <1>2, <1>3, <2>1, <2>2 DEF Increasing
  <2>3. CASE j = Len(s) + 1
    BY <1>1, <1>2, <2>1, <2>3
  <2> QED
    BY <1>1, <2>2, <2>3
<1>4. Increasing(a)
  BY <1>3 DEF Increasing
<1> QED
  BY <1>4 DEF a

\* What nested frames own: what is owned before, and what the last of them acquired.
LEMMA OwnedAppend ==
  ASSUME NEW fs \in Seq(Frame), NEW f \in Frame
  PROVE  OwnedBy(Append(fs, f)) = OwnedBy(fs) \cup ToSet(f.acquired)
<1> DEFINE a == Append(fs, f)
<1>1. /\ Len(fs) \in Nat /\ Len(a) = Len(fs) + 1 /\ a[Len(fs) + 1] = f
      /\ \A i \in 1 .. Len(fs) : a[i] = fs[i]
  BY AppendFacts
<1> HIDE DEF a
<1>2. \A i : i \in 1 .. Len(a) <=> i \in 1 .. Len(fs) \/ i = Len(fs) + 1
  BY <1>1
<1>3. OwnedBy(a) = OwnedBy(fs) \cup ToSet(f.acquired)
  BY <1>1, <1>2, Zenon DEF OwnedBy
<1> QED
  BY <1>3 DEF a

LEMMA NestedAppend ==
  ASSUME NEW fs \in Seq(Frame), NEW f \in Frame
  PROVE  Nested(Append(fs, f)) <=>
           /\ Nested(fs) /\ Increasing(f.acquired)
           /\ \A x \in OwnedBy(fs), y \in ToSet(f.acquired) : x < y
<1> DEFINE a == Append(fs, f)
<1>1. /\ Len(fs) \in Nat /\ Len(a) = Len(fs) + 1 /\ a[Len(fs) + 1] = f
      /\ \A i \in 1 .. Len(fs) : a[i] = fs[i]
  BY AppendFacts
<1> HIDE DEF a
<1>2. ASSUME Nested(a)
      PROVE  /\ Nested(fs) /\ Increasing(f.acquired)
             /\ \A x \in OwnedBy(fs), y \in ToSet(f.acquired) : x < y
  <2>1. Nested(fs)
    BY <1>1, <1>2 DEF Nested
  <2>2. Len(fs) + 1 \in 1 .. Len(a) /\ \A i \in 1 .. Len(fs) : i \in 1 .. Len(a) /\ i < Len(fs) + 1
    BY <1>1
  <2>3. Increasing(f.acquired)
    BY <1>1, <1>2, <2>2 DEF Nested
  <2>4. ASSUME NEW x \in OwnedBy(fs), NEW y \in ToSet(f.acquired) PROVE x < y
    <3>1. PICK i \in 1 .. Len(fs) : x \in ToSet(fs[i].acquired)
      BY DEF OwnedBy
    <3> QED
      BY <1>1, <1>2, <2>2, <3>1 DEF Nested
  <2> QED
    BY <2>1, <2>3, <2>4
<1>3. ASSUME Nested(fs), Increasing(f.acquired),
             \A x \in OwnedBy(fs), y \in ToSet(f.acquired) : x < y
      PROVE  Nested(a)
  <2>1. ASSUME NEW i \in 1 .. Len(a) PROVE Increasing(a[i].acquired)
    <3>1. CASE i \in 1 .. Len(fs)
      BY <1>1, <1>3, <3>1 DEF Nested
    <3>2. CASE i = Len(fs) + 1
      BY <1>1, <1>3, <3>2
    <3> QED
      BY <1>1, <3>1, <3>2
  <2>2. ASSUME NEW i \in 1 .. Len(a), NEW j \in 1 .. Len(a), i < j,
               NEW x \in ToSet(a[i].acquired), NEW y \in ToSet(a[j].acquired)
        PROVE  x < y
    <3>1. i \in 1 .. Len(fs) /\ x \in ToSet(fs[i].acquired)
      BY <1>1, <2>2
    <3>2. CASE j \in 1 .. Len(fs)
      BY <1>1, <1>3, <2>2, <3>1, <3>2 DEF Nested
    <3>3. CASE j = Len(fs) + 1
      <4>1. x \in OwnedBy(fs)
        BY <3>1 DEF OwnedBy
      <4> QED
        BY <1>1, <1>3, <3>3, <4>1
    <3> QED
      BY <1>1, <3>2, <3>3
  <2> QED
    BY <2>1, <2>2 DEF Nested
<1> QED
  BY <1>2, <1>3 DEF a

\* The same of the innermost frame and those it is nested in.
LEMMA InnermostFrame ==
  ASSUME NEW fs \in Seq(Frame), fs # <<>>
  PROVE  /\ Front(fs) \in Seq(Frame) /\ Last(fs) \in Frame
         /\ Last(fs).acquired \in Seq(Resource)
         /\ OwnedBy(fs) = OwnedBy(Front(fs)) \cup ToSet(Last(fs).acquired)
         /\ Nested(fs) <=>
              /\ Nested(Front(fs)) /\ Increasing(Last(fs).acquired)
              /\ \A x \in OwnedBy(Front(fs)), y \in ToSet(Last(fs).acquired) : x < y
<1>1. Front(fs) \in Seq(Frame) /\ Last(fs) \in Frame
  BY LastAndFront
<1>2. fs = Append(Front(fs), Last(fs))
  BY FrontAndLast
<1>3. Last(fs).acquired \in Seq(Resource)
  BY <1>1 DEF Frame
<1>4. OwnedBy(fs) = OwnedBy(Front(fs)) \cup ToSet(Last(fs).acquired)
  BY <1>1, <1>2, OwnedAppend
<1>5. Nested(fs) <=>
        /\ Nested(Front(fs)) /\ Increasing(Last(fs).acquired)
        /\ \A x \in OwnedBy(Front(fs)), y \in ToSet(Last(fs).acquired) : x < y
  BY <1>1, <1>2, NestedAppend
<1> QED
  BY <1>1, <1>3, <1>4, <1>5

\* What frames own are resources.
LEMMA OwnedResources ==
  ASSUME NEW fs \in Seq(Frame)
  PROVE  OwnedBy(fs) \subseteq Resource
<1>1. ASSUME NEW i \in 1 .. Len(fs) PROVE ToSet(fs[i].acquired) \subseteq Resource
  <2>1. fs[i] \in Frame
    OBVIOUS
  <2>2. fs[i].acquired \in Seq(Resource)
    BY <2>1 DEF Frame
  <2> QED
    BY <2>2, Members
<1> QED
  BY <1>1 DEF OwnedBy

-----------------------------------------------------------------------------
(* Counting the threads that share a resource *)

LEMMA SharingGrows ==
  ASSUME NEW use \in [Threads -> SUBSET Resource], NEW t \in Threads,
         NEW r \in Resource, r \notin use[t], NEW x \in Resource
  PROVE  Sharing([use EXCEPT ![t] = use[t] \cup {r}], x)
           = Sharing(use, x) + (IF x = r THEN 1 ELSE 0)
<1> DEFINE old == {u \in Threads : x \in use[u]}
           new == {u \in Threads : x \in [use EXCEPT ![t] = use[t] \cup {r}][u]}
<1>1. IsFiniteSet(old)
  BY ThreadsAssumption, FS_Subset
<1>2. CASE x = r
  <2>1. new = old \cup {t} /\ t \notin old
    BY <1>2
  <2> HIDE DEF old, new
  <2>2. Cardinality(new) = Cardinality(old) + 1
    BY <1>1, <2>1, FS_AddElement
  <2> QED
    BY <1>2, <2>2 DEF Sharing, old, new
<1>3. CASE x # r
  <2>1. new = old
    BY <1>3
  <2>2. Cardinality(old) \in Nat
    BY <1>1, FS_CardinalityType
  <2> HIDE DEF old, new
  <2>3. Cardinality(new) = Cardinality(old) + 0
    BY <2>1, <2>2
  <2> QED
    BY <1>3, <2>3 DEF Sharing, old, new
<1> QED
  BY <1>2, <1>3

LEMMA SharingShrinks ==
  ASSUME NEW use \in [Threads -> SUBSET Resource], NEW t \in Threads,
         NEW r \in Resource, r \in use[t], NEW x \in Resource
  PROVE  Sharing([use EXCEPT ![t] = use[t] \ {r}], x)
           = Sharing(use, x) - (IF x = r THEN 1 ELSE 0)
<1> DEFINE less == [use EXCEPT ![t] = use[t] \ {r}]
<1>1. less \in [Threads -> SUBSET Resource] /\ r \notin less[t]
  OBVIOUS
<1>2. use = [less EXCEPT ![t] = less[t] \cup {r}]
  OBVIOUS
<1> HIDE DEF less
<1>3. Sharing(use, x) = Sharing(less, x) + (IF x = r THEN 1 ELSE 0)
  <2> DEFINE more == [less EXCEPT ![t] = less[t] \cup {r}]
  <2>1. Sharing(more, x) = Sharing(less, x) + (IF x = r THEN 1 ELSE 0)
    BY <1>1, SharingGrows, Zenon
  <2>2. use = more
    BY <1>2, Zenon
  <2> QED
    BY <2>1, <2>2, Zenon
<1>4. Sharing(less, x) \in Nat
  BY ThreadsAssumption, FS_Subset, FS_CardinalityType DEF Sharing
<1> QED
  BY <1>3, <1>4 DEF less

\* A resource that a thread uses is shared by one thread at least.
LEMMA SharingPositive ==
  ASSUME NEW use \in [Threads -> SUBSET Resource], NEW r \in Resource
  PROVE  /\ Sharing(use, r) \in Nat
         /\ \A t \in Threads : r \in use[t] => Sharing(use, r) > 0
<1> DEFINE sharers == {u \in Threads : r \in use[u]}
<1>1. IsFiniteSet(sharers)
  BY ThreadsAssumption, FS_Subset
<1>2. Cardinality(sharers) \in Nat /\ (Cardinality(sharers) = 0 <=> sharers = {})
  BY <1>1, FS_CardinalityType, FS_EmptySet
<1>3. \A t \in Threads : r \in use[t] => sharers # {}
  OBVIOUS
<1> HIDE DEF sharers
<1>4. /\ Cardinality(sharers) \in Nat
      /\ \A t \in Threads : r \in use[t] => Cardinality(sharers) > 0
  BY <1>2, <1>3
<1> QED
  BY <1>4 DEF Sharing, sharers

-----------------------------------------------------------------------------
LEMMA SlotInvInit == Init => SlotInv
<1> SUFFICES ASSUME Init PROVE SlotInv
  OBVIOUS
<1>1. /\ free = Limit /\ active = [r \in Resource |-> 0]
      /\ \A t \in Threads : held[t] = <<>> /\ frames[t] = <<>> /\ mode[t] = "body"
  BY DEF Init
<1>2. OwnedBy(<<>>) = {} /\ ToSet(<<>>) = {} /\ Nested(<<>>)
  BY DEF OwnedBy, ToSet, Nested
<1>3. \A t \in Threads : SlotsOK(held[t], frames[t], mode[t])
  BY <1>1, <1>2 DEF SlotsOK, Returned
<1>4. ASSUME NEW r \in Resource
      PROVE  Sharing(InUse, r) = 0 /\ Sharing(Listed, r) = 0
  <2>1. {t \in Threads : r \in InUse[t]} = {}
    BY <1>1, <1>2 DEF InUse, Uses
  <2>2. {t \in Threads : r \in Listed[t]} = {}
    BY <1>1, <1>2 DEF Listed
  <2>3. Cardinality({}) = 0
    BY FS_EmptySet
  <2> QED
    BY <2>1, <2>2, <2>3, Zenon DEF Sharing
<1>5. free \in [Resource -> Nat] /\ active \in [Resource -> Nat]
  BY <1>1, ResourceAssumption
<1>6. /\ \A r \in Resource : free[r] + Sharing(InUse, r) = Limit[r]
      /\ \A r \in Resource : active[r] = Sharing(Listed, r)
  BY <1>1, <1>4, <1>5
<1> QED
  BY <1>3, <1>5, <1>6 DEF SlotInv

\* The resource a thread is about to take is one it does not have yet.
LEMMA NextIsNew ==
  ASSUME OrderInv, SlotInv, NEW t \in Threads, mode[t] \in {"acquire", "mark"}
  PROVE  /\ frames[t] \in Seq(Frame) /\ frames[t] # <<>>
         /\ NextOf(t) \in Resource /\ NextOf(t) = NextIn(Last(frames[t]))
         /\ ToSet(held[t]) = OwnedBy(frames[t])
         /\ \A x \in OwnedBy(frames[t]) : x < NextOf(t)
         /\ NextOf(t) \notin OwnedBy(frames[t])
<1>1. /\ frames[t] \in Seq(Frame) /\ frames[t] # <<>>
      /\ Missing(t) # {} /\ \A k \in ToSet(held[t]), r \in Missing(t) : k < r
  BY DEF OrderInv, ThreadOK, Missing, Top
<1>2. Missing(t) \subseteq Resource
  <2>1. Top(t) \in Frame
    BY <1>1, LastAndFront DEF Top
  <2> QED
    BY <2>1 DEF Frame, Missing
<1>3. NextOf(t) \in Missing(t)
  BY <1>1, <1>2, NextIsLeast
<1>4. NextOf(t) = NextIn(Last(frames[t]))
  BY DEF NextOf, NextIn, Missing, Top
<1>5. ToSet(held[t]) = OwnedBy(frames[t])
  BY DEF SlotInv, SlotsOK, Returned
<1>6. \A x \in OwnedBy(frames[t]) : x < NextOf(t)
  BY <1>1, <1>3, <1>5
<1>7. NextOf(t) \in Nat
  BY <1>2, <1>3, ResourceAssumption
<1>8. NextOf(t) \notin OwnedBy(frames[t])
  <2> SUFFICES ASSUME NextOf(t) \in OwnedBy(frames[t]) PROVE FALSE
    OBVIOUS
  <2>1. NextOf(t) < NextOf(t)
    BY <1>6
  <2> QED
    BY <1>7, <2>1
<1> QED
  BY <1>1, <1>2, <1>3, <1>4, <1>5, <1>6, <1>8

LEMMA UsesResources ==
  ASSUME OrderInv, SlotInv
  PROVE  /\ InUse \in [Threads -> SUBSET Resource]
         /\ Listed \in [Threads -> SUBSET Resource]
<1>1. ASSUME NEW t \in Threads PROVE Uses(frames[t], mode[t]) \subseteq Resource
  <2>1. OwnedBy(frames[t]) \subseteq Resource
    BY OwnedResources DEF OrderInv
  <2>2. mode[t] = "mark" => NextIn(Last(frames[t])) \in Resource
    BY NextIsNew
  <2> QED
    BY <2>1, <2>2 DEF Uses
<1>2. ASSUME NEW t \in Threads PROVE ToSet(held[t]) \subseteq Resource
  BY Members DEF OrderInv
<1> QED
  BY <1>1, <1>2 DEF InUse, Listed

\* A step of one thread, for the others.
LEMMA OthersKeepSlots ==
  ASSUME OrderInv, SlotInv, NEW t \in Threads,
         NEW h, NEW fs, NEW m, SlotsOK(h, fs, m),
         held' = [held EXCEPT ![t] = h],
         frames' = [frames EXCEPT ![t] = fs],
         mode' = [mode EXCEPT ![t] = m]
  PROVE  /\ \A u \in Threads : SlotsOK(held'[u], frames'[u], mode'[u])
         /\ InUse' = [InUse EXCEPT ![t] = Uses(fs, m)]
         /\ Listed' = [Listed EXCEPT ![t] = ToSet(h)]
<1>1. \A u \in Threads : /\ u # t => /\ held'[u] = held[u] /\ frames'[u] = frames[u]
                                     /\ mode'[u] = mode[u]
                         /\ u = t => held'[u] = h /\ frames'[u] = fs /\ mode'[u] = m
  BY DEF OrderInv
<1>2. \A u \in Threads : SlotsOK(held'[u], frames'[u], mode'[u])
  BY <1>1 DEF SlotInv
<1>3. InUse' = [u \in Threads |-> Uses(frames'[u], mode'[u])]
  BY DEF InUse
<1>4. Listed' = [u \in Threads |-> ToSet(held'[u])]
  BY DEF Listed
<1>5. InUse' = [InUse EXCEPT ![t] = Uses(fs, m)]
  <2>1. InUse = [u \in Threads |-> InUse[u]]
    BY DEF InUse
  <2>2. \A u \in Threads :
          Uses(frames'[u], mode'[u]) = IF u = t THEN Uses(fs, m) ELSE InUse[u]
    BY <1>1 DEF InUse
  <2>3. InUse' = [u \in Threads |-> IF u = t THEN Uses(fs, m) ELSE InUse[u]]
    BY <1>3, <2>2
  <2> QED
    BY <2>1, <2>3
<1>6. Listed' = [Listed EXCEPT ![t] = ToSet(h)]
  <2>1. Listed = [u \in Threads |-> Listed[u]]
    BY DEF Listed
  <2>2. \A u \in Threads : ToSet(held'[u]) = IF u = t THEN ToSet(h) ELSE Listed[u]
    BY <1>1 DEF Listed
  <2>3. Listed' = [u \in Threads |-> IF u = t THEN ToSet(h) ELSE Listed[u]]
    BY <1>4, <2>2
  <2> QED
    BY <2>1, <2>3
<1> QED
  BY <1>2, <1>5, <1>6

\* A step after which the thread uses and lists what it did before.
LEMMA SameSlots ==
  ASSUME OrderInv, SlotInv, NEW t \in Threads, NEW fs, NEW m,
         SlotsOK(held[t], fs, m), Uses(fs, m) = Uses(frames[t], mode[t]),
         held' = held, frames' = [frames EXCEPT ![t] = fs],
         mode' = [mode EXCEPT ![t] = m], UNCHANGED <<free, active>>
  PROVE  SlotInv'
<1> DEFINE h == held[t]
<1>1. held' = [held EXCEPT ![t] = h] /\ SlotsOK(h, fs, m)
  BY DEF OrderInv
<1> HIDE DEF h
<1>2. /\ \A u \in Threads : SlotsOK(held'[u], frames'[u], mode'[u])
      /\ InUse' = [InUse EXCEPT ![t] = Uses(fs, m)]
      /\ Listed' = [Listed EXCEPT ![t] = ToSet(h)]
  BY <1>1, OthersKeepSlots
<1>3. InUse' = InUse
  BY <1>2 DEF InUse
<1>4. Listed' = Listed
  BY DEF Listed
<1> QED
  BY <1>2, <1>3, <1>4 DEF SlotInv

LEMMA EnterKeepsSlots ==
  ASSUME OrderInv, SlotInv, NEW t \in Threads, NEW request \in Requests, Enter(t, request)
  PROVE  SlotInv'
<1> DEFINE frame == [requested |-> request, acquired |-> <<>>]
           fs == Append(frames[t], frame)
<1>1. frame \in Frame /\ frame.acquired = <<>> /\ frames[t] \in Seq(Frame)
  <2>1. frame \in Frame
    BY RequestsAssumption DEF Frame
  <2>2. frames[t] \in Seq(Frame)
    BY DEF OrderInv
  <2> QED
    BY <2>1, <2>2
<1>2. ToSet(<<>>) = {} /\ Increasing(<<>>)
  BY DEF ToSet, Increasing
<1>3. SlotsOK(held[t], frames[t], "body") /\ mode[t] = "body"
  BY DEF SlotInv, Enter
<1>4. OwnedBy(fs) = OwnedBy(frames[t])
  <2>1. OwnedBy(fs) = OwnedBy(frames[t]) \cup ToSet(frame.acquired)
    BY <1>1, OwnedAppend
  <2> QED
    BY <1>1, <1>2, <2>1
<1>5. Nested(fs)
  <2>1. /\ Nested(frames[t]) /\ Increasing(frame.acquired)
        /\ \A x \in OwnedBy(frames[t]), y \in ToSet(frame.acquired) : x < y
    BY <1>1, <1>2, <1>3 DEF SlotsOK
  <2> QED
    BY <1>1, <2>1, NestedAppend
<1> HIDE DEF frame, fs
<1>6. SlotsOK(held[t], fs, "acquire")
  BY <1>3, <1>4, <1>5 DEF SlotsOK, Returned
<1>7. Uses(fs, "acquire") = Uses(frames[t], mode[t])
  BY <1>3, <1>4 DEF Uses
<1> QED
  BY <1>6, <1>7, SameSlots DEF Enter, fs, frame

LEMMA TakeKeepsSlots ==
  ASSUME OrderInv, SlotInv, NEW t \in Threads, Take(t) PROVE SlotInv'
<1>1. mode[t] = "acquire"
  BY DEF Take
<1>2. PICK r \in Resource : r = NextOf(t)
  BY <1>1, NextIsNew
<1>3. /\ r = NextIn(Last(frames[t])) /\ r \notin OwnedBy(frames[t])
      /\ ToSet(held[t]) = OwnedBy(frames[t])
  BY <1>1, <1>2, NextIsNew
<1> DEFINE h == held[t]
           fs == frames[t]
<1>4. SlotsOK(h, fs, "mark")
  BY <1>1 DEF SlotInv, SlotsOK, Returned
<1>5. /\ held' = [held EXCEPT ![t] = h]
      /\ frames' = [frames EXCEPT ![t] = fs]
      /\ mode' = [mode EXCEPT ![t] = "mark"]
  BY DEF Take, OrderInv
<1> HIDE DEF h, fs
<1>6. /\ \A u \in Threads : SlotsOK(held'[u], frames'[u], mode'[u])
      /\ InUse' = [InUse EXCEPT ![t] = Uses(fs, "mark")]
      /\ Listed' = [Listed EXCEPT ![t] = ToSet(h)]
  BY <1>4, <1>5, OthersKeepSlots
<1>7. InUse[t] = OwnedBy(fs) /\ Uses(fs, "mark") = OwnedBy(fs) \cup {r}
  BY <1>1, <1>3 DEF InUse, Uses, fs
<1>8. InUse' = [InUse EXCEPT ![t] = InUse[t] \cup {r}] /\ r \notin InUse[t]
  BY <1>3, <1>6, <1>7 DEF fs
<1>9. free' = [free EXCEPT ![r] = @ - 1] /\ free[r] > 0
  BY <1>2 DEF Take
<1>10. free' \in [Resource -> Nat]
  BY <1>9 DEF SlotInv
<1>11. ASSUME NEW x \in Resource PROVE free'[x] + Sharing(InUse', x) = Limit[x]
  <2>1. Sharing([InUse EXCEPT ![t] = InUse[t] \cup {r}], x)
          = Sharing(InUse, x) + (IF x = r THEN 1 ELSE 0)
    BY <1>8, UsesResources, SharingGrows
  <2>2. Sharing(InUse, x) \in Nat
    BY UsesResources, SharingPositive
  <2>3. free'[x] = free[x] - (IF x = r THEN 1 ELSE 0)
    BY <1>9 DEF SlotInv
  <2>4. free[x] \in Nat /\ free[x] + Sharing(InUse, x) = Limit[x]
    BY DEF SlotInv
  <2> QED
    BY <1>8, <2>1, <2>2, <2>3, <2>4
<1>12. active' = active /\ Listed' = Listed
  BY DEF Take, Listed
<1> QED
  BY <1>6, <1>10, <1>11, <1>12 DEF SlotInv

LEMMA MarkAcquiredKeepsSlots ==
  ASSUME OrderInv, SlotInv, NEW t \in Threads, MarkAcquired(t) PROVE SlotInv'
<1> DEFINE top == Last(frames[t])
           base == Front(frames[t])
           s == top.acquired
           m == IF Missing(t) = {NextOf(t)} THEN "body" ELSE "acquire"
<1>1. mode[t] = "mark"
  BY DEF MarkAcquired
<1>2. PICK r \in Resource : r = NextOf(t)
  BY <1>1, NextIsNew
<1> DEFINE frame == [top EXCEPT !.acquired = Append(s, r)]
           h == Append(held[t], r)
           fs == Append(base, frame)
<1>3. /\ frames[t] \in Seq(Frame) /\ frames[t] # <<>> /\ held[t] \in Seq(Resource)
      /\ ToSet(held[t]) = OwnedBy(frames[t]) /\ r = NextIn(top) /\ r \notin OwnedBy(frames[t])
      /\ \A x \in OwnedBy(frames[t]) : x < r
  BY <1>1, <1>2, NextIsNew DEF OrderInv
<1>4. /\ base \in Seq(Frame) /\ top \in Frame /\ s \in Seq(Resource)
      /\ OwnedBy(frames[t]) = OwnedBy(base) \cup ToSet(s)
      /\ Nested(base) /\ Increasing(s)
      /\ \A x \in OwnedBy(base), y \in ToSet(s) : x < y
  BY <1>3, InnermostFrame DEF SlotInv, SlotsOK
<1>5. /\ Append(s, r) \in Seq(Resource) /\ ToSet(Append(s, r)) = ToSet(s) \cup {r}
      /\ ToSet(h) = ToSet(held[t]) \cup {r}
  BY <1>3, <1>4, AppendFacts
<1>6. frame \in Frame /\ frame.acquired = Append(s, r)
  BY <1>4, <1>5, FrameUpdate
<1>7. Increasing(Append(s, r))
  BY <1>3, <1>4, AppendAbove
<1>8. held' = [held EXCEPT ![t] = h] /\ mode' = [mode EXCEPT ![t] = m]
  BY <1>2 DEF MarkAcquired
<1>9. frames' = [frames EXCEPT ![t] = fs]
  BY <1>2 DEF MarkAcquired, WithTop, Top
<1>10. m \in {"body", "acquire"}
  OBVIOUS
<1> HIDE DEF top, base, s, frame, h, m
<1>11. OwnedBy(fs) = OwnedBy(frames[t]) \cup {r}
  <2>1. OwnedBy(fs) = OwnedBy(base) \cup ToSet(frame.acquired)
    BY <1>4, <1>6, OwnedAppend
  <2> QED
    BY <1>4, <1>5, <1>6, <2>1
<1>12. Nested(fs)
  <2>1. \A x \in OwnedBy(base), y \in ToSet(frame.acquired) : x < y
    BY <1>3, <1>4, <1>5, <1>6
  <2>2. Increasing(frame.acquired)
    BY <1>6, <1>7
  <2> QED
    BY <1>4, <1>6, <2>1, <2>2, NestedAppend, Zenon
<1> HIDE DEF fs
<1>13. SlotsOK(h, fs, m)
  BY <1>3, <1>5, <1>10, <1>11, <1>12 DEF SlotsOK, Returned
<1>14. /\ \A u \in Threads : SlotsOK(held'[u], frames'[u], mode'[u])
       /\ InUse' = [InUse EXCEPT ![t] = Uses(fs, m)]
       /\ Listed' = [Listed EXCEPT ![t] = ToSet(h)]
  BY <1>8, <1>9, <1>13, OthersKeepSlots
<1>15. InUse' = InUse
  <2>1. Uses(fs, m) = OwnedBy(fs)
    BY <1>10 DEF Uses
  <2>2. InUse[t] = OwnedBy(frames[t]) \cup {r}
    BY <1>1, <1>3 DEF InUse, Uses, top
  <2>3. InUse' = [InUse EXCEPT ![t] = InUse[t]]
    BY <1>11, <1>14, <2>1, <2>2
  <2> QED
    BY <2>3 DEF InUse
<1>16. /\ Listed[t] = ToSet(held[t]) /\ r \notin Listed[t]
       /\ Listed' = [Listed EXCEPT ![t] = Listed[t] \cup {r}]
  BY <1>3, <1>5, <1>14 DEF Listed
<1>17. active' = [active EXCEPT ![r] = @ + 1] /\ free' = free
  BY <1>2 DEF MarkAcquired
<1>18. active' \in [Resource -> Nat]
  BY <1>17 DEF SlotInv
<1>19. ASSUME NEW x \in Resource PROVE active'[x] = Sharing(Listed', x)
  <2>1. Sharing([Listed EXCEPT ![t] = Listed[t] \cup {r}], x)
          = Sharing(Listed, x) + (IF x = r THEN 1 ELSE 0)
    BY <1>16, UsesResources, SharingGrows
  <2>2. active'[x] = active[x] + (IF x = r THEN 1 ELSE 0)
    BY <1>17 DEF SlotInv
  <2> QED
    BY <1>16, <2>1, <2>2 DEF SlotInv
<1> QED
  BY <1>14, <1>15, <1>17, <1>18, <1>19 DEF SlotInv

LEMMA LeaveKeepsSlots ==
  ASSUME OrderInv, SlotInv, NEW t \in Threads, Leave(t) PROVE SlotInv'
<1>1. /\ frames[t] \in Seq(Frame) /\ frames[t] # <<>> /\ mode[t] \in {"body", "acquire"}
  BY DEF OrderInv, ThreadOK, Leave
<1>2. /\ Front(frames[t]) \in Seq(Frame)
      /\ OwnedBy(frames[t]) = OwnedBy(Front(frames[t])) \cup ToSet(Last(frames[t]).acquired)
      /\ Nested(frames[t]) => Nested(Front(frames[t]))
  BY <1>1, InnermostFrame
<1>3. /\ SlotsOK(held[t], frames[t], "body")
      /\ Uses(frames[t], mode[t]) = OwnedBy(frames[t])
  BY <1>1 DEF SlotInv, SlotsOK, Returned, Uses
<1>4. CASE AfterLeaving(t) = "body"
  <2> DEFINE fs == Front(frames[t])
  <2>1. Last(frames[t]).acquired = <<>>
    BY <1>4 DEF AfterLeaving, Top
  <2>2. OwnedBy(fs) = OwnedBy(frames[t])
    BY <1>2, <2>1 DEF ToSet
  <2>3. SlotsOK(held[t], fs, "body")
    BY <1>2, <1>3, <2>2 DEF SlotsOK, Returned
  <2>4. Uses(fs, "body") = Uses(frames[t], mode[t])
    BY <1>3, <2>2 DEF Uses
  <2>5. frames' = [frames EXCEPT ![t] = fs] /\ mode' = [mode EXCEPT ![t] = "body"]
    BY <1>4 DEF Leave
  <2> HIDE DEF fs
  <2> QED
    BY <2>3, <2>4, <2>5, SameSlots DEF Leave
<1>5. CASE AfterLeaving(t) = "release"
  <2> DEFINE fs == frames[t]
  <2>1. SlotsOK(held[t], fs, "release")
    BY <1>3 DEF SlotsOK, Returned
  <2>2. Uses(fs, "release") = Uses(frames[t], mode[t])
    BY <1>3 DEF Uses
  <2>3. frames' = [frames EXCEPT ![t] = fs] /\ mode' = [mode EXCEPT ![t] = "release"]
    BY <1>5 DEF Leave, OrderInv
  <2> HIDE DEF fs
  <2> QED
    BY <2>1, <2>2, <2>3, SameSlots DEF Leave
<1> QED
  BY <1>4, <1>5 DEF AfterLeaving

\* The slot to give back is the greatest of all the thread owns.
LEMMA ReleasedIsGreatest ==
  ASSUME OrderInv, SlotInv, NEW t \in Threads, mode[t] \in {"release", "marked"}
  PROVE  /\ frames[t] \in Seq(Frame) /\ frames[t] # <<>> /\ Top(t).acquired # <<>>
         /\ Released(t) \in Resource /\ Released(t) \in OwnedBy(frames[t])
         /\ Increasing(Top(t).acquired)
         /\ \A x \in OwnedBy(Front(frames[t])) \cup ToSet(Front(Top(t).acquired)) :
              x < Released(t)
         /\ OwnedBy(frames[t]) = OwnedBy(Front(frames[t]))
                                 \cup ToSet(Front(Top(t).acquired)) \cup {Released(t)}
<1> DEFINE s == Top(t).acquired
<1>1. frames[t] \in Seq(Frame) /\ frames[t] # <<>> /\ s # <<>>
  BY DEF OrderInv, ThreadOK, Top
<1>2. /\ s \in Seq(Resource)
      /\ OwnedBy(frames[t]) = OwnedBy(Front(frames[t])) \cup ToSet(s)
      /\ Increasing(s)
      /\ \A x \in OwnedBy(Front(frames[t])), y \in ToSet(s) : x < y
  BY <1>1, InnermostFrame DEF SlotInv, SlotsOK, Top
<1>3. Released(t) = Last(s)
  BY DEF Released
<1> HIDE DEF s
<1>4. Last(s) \in Resource
  BY <1>1, <1>2, LastAndFront
<1>5. /\ ToSet(s) = ToSet(Front(s)) \cup {Last(s)}
      /\ \A x \in ToSet(Front(s)) : x < Last(s)
  BY <1>1, <1>2, LastOfIncreasing
<1>6. \A x \in OwnedBy(Front(frames[t])) \cup ToSet(Front(s)) : x < Last(s)
  BY <1>2, <1>5
<1>7. /\ OwnedBy(frames[t]) = OwnedBy(Front(frames[t])) \cup ToSet(Front(s)) \cup {Last(s)}
      /\ Last(s) \in OwnedBy(frames[t])
  BY <1>2, <1>5
<1> QED
  BY <1>1, <1>2, <1>3, <1>4, <1>6, <1>7 DEF s

\* The thread's list ends with what is given back: the first check of _mark_released
\* passes.
LEMMA ListEndsWithReleased ==
  ASSUME OrderInv, SlotInv, NEW t \in Threads, mode[t] = "release"
  PROVE  /\ held[t] \in Seq(Resource) /\ held[t] # <<>> /\ Last(held[t]) = Released(t)
         /\ ToSet(Front(held[t])) = ToSet(held[t]) \ {Released(t)}
         /\ Released(t) \in ToSet(held[t])
<1>1. /\ held[t] \in Seq(Resource) /\ Increasing(held[t])
      /\ ToSet(held[t]) = OwnedBy(frames[t])
  BY DEF OrderInv, ThreadOK, SlotInv, SlotsOK, Returned, Increasing
<1>2. /\ Released(t) \in OwnedBy(frames[t]) /\ Released(t) \in Nat
      /\ \A x \in OwnedBy(frames[t]) : x = Released(t) \/ x < Released(t)
  BY ReleasedIsGreatest, ResourceAssumption
<1>3. held[t] # <<>>
  BY <1>1, <1>2 DEF ToSet
<1>4. /\ Last(held[t]) \in Resource
      /\ ToSet(held[t]) = ToSet(Front(held[t])) \cup {Last(held[t])}
      /\ \A x \in ToSet(Front(held[t])) : x < Last(held[t])
  BY <1>1, <1>3, LastAndFront, LastOfIncreasing
<1>5. Last(held[t]) \in Nat /\ Last(held[t]) \in OwnedBy(frames[t])
  BY <1>1, <1>4, ResourceAssumption
<1>6. Last(held[t]) = Released(t)
  <2>1. Last(held[t]) = Released(t) \/ Last(held[t]) < Released(t)
    BY <1>2, <1>5
  <2>2. Released(t) = Last(held[t]) \/ Released(t) < Last(held[t])
    BY <1>1, <1>2, <1>4
  <2> QED
    BY <1>2, <1>5, <2>1, <2>2
<1>7. Released(t) \notin ToSet(Front(held[t]))
  <2> SUFFICES ASSUME Released(t) \in ToSet(Front(held[t])) PROVE FALSE
    OBVIOUS
  <2>1. Released(t) < Released(t)
    BY <1>4, <1>6
  <2> QED
    BY <1>2, <2>1
<1>8. ToSet(Front(held[t])) = ToSet(held[t]) \ {Released(t)}
  BY <1>4, <1>6, <1>7
<1> QED
  BY <1>1, <1>2, <1>3, <1>6, <1>8

LEMMA MarkReleasedKeepsSlots ==
  ASSUME OrderInv, SlotInv, NEW t \in Threads, MarkReleased(t) PROVE SlotInv'
<1>1. mode[t] = "release"
  BY DEF MarkReleased
<1>2. PICK r \in Resource : r = Released(t)
  BY <1>1, ReleasedIsGreatest
<1> DEFINE h == Front(held[t])
           fs == frames[t]
<1>3. /\ held[t] # <<>> /\ Last(held[t]) = r /\ r \in ToSet(held[t])
      /\ ToSet(h) = ToSet(held[t]) \ {r}
  BY <1>1, <1>2, ListEndsWithReleased
<1>4. r = Last(Last(fs).acquired)
  BY <1>2 DEF Released, Top
<1>5. Listed[t] = ToSet(held[t]) /\ r \in Listed[t]
  BY <1>3 DEF Listed
<1>6. active[r] = Sharing(Listed, r) /\ active[r] \in Nat
  BY DEF SlotInv
<1>7. active[r] > 0
  BY <1>5, <1>6, UsesResources, SharingPositive
<1>8. /\ mode' = [mode EXCEPT ![t] = "marked"]
      /\ active' = [active EXCEPT ![r] = @ - 1]
      /\ held' = [held EXCEPT ![t] = h]
  BY <1>2, <1>3, <1>7 DEF MarkReleased
<1>9. frames' = [frames EXCEPT ![t] = fs] /\ free' = free
  BY DEF MarkReleased, OrderInv
<1>10. SlotsOK(h, fs, "marked")
  BY <1>1, <1>3, <1>4 DEF SlotInv, SlotsOK, Returned
<1>11. Uses(fs, "marked") = InUse[t]
  BY <1>1 DEF Uses, InUse
<1> HIDE DEF h, fs
<1>12. /\ \A u \in Threads : SlotsOK(held'[u], frames'[u], mode'[u])
       /\ InUse' = [InUse EXCEPT ![t] = Uses(fs, "marked")]
       /\ Listed' = [Listed EXCEPT ![t] = ToSet(h)]
  BY <1>8, <1>9, <1>10, OthersKeepSlots
<1>13. InUse' = InUse
  BY <1>11, <1>12 DEF InUse
<1>14. Listed' = [Listed EXCEPT ![t] = Listed[t] \ {r}]
  BY <1>3, <1>5, <1>12
<1>15. active' \in [Resource -> Nat]
  BY <1>6, <1>7, <1>8 DEF SlotInv
<1>16. ASSUME NEW x \in Resource PROVE active'[x] = Sharing(Listed', x)
  <2>1. Sharing([Listed EXCEPT ![t] = Listed[t] \ {r}], x)
          = Sharing(Listed, x) - (IF x = r THEN 1 ELSE 0)
    BY <1>5, UsesResources, SharingShrinks
  <2>2. active'[x] = active[x] - (IF x = r THEN 1 ELSE 0)
    BY <1>8 DEF SlotInv
  <2> QED
    BY <1>14, <2>1, <2>2 DEF SlotInv
<1> QED
  BY <1>9, <1>12, <1>13, <1>15, <1>16 DEF SlotInv

LEMMA ReleaseKeepsSlots ==
  ASSUME OrderInv, SlotInv, NEW t \in Threads, Release(t) PROVE SlotInv'
<1> DEFINE top == Last(frames[t])
           base == Front(frames[t])
           s == top.acquired
<1>1. mode[t] = "marked"
  BY DEF Release
<1>2. PICK r \in Resource : r = Released(t)
  BY <1>1, ReleasedIsGreatest
<1>3. /\ frames[t] \in Seq(Frame) /\ frames[t] # <<>> /\ s # <<>>
      /\ r \in OwnedBy(frames[t]) /\ Increasing(s) /\ r = Last(s)
      /\ \A x \in OwnedBy(base) \cup ToSet(Front(s)) : x < r
      /\ OwnedBy(frames[t]) = OwnedBy(base) \cup ToSet(Front(s)) \cup {r}
  BY <1>1, <1>2, ReleasedIsGreatest DEF Released, Top
<1>4. /\ base \in Seq(Frame) /\ top \in Frame /\ s \in Seq(Resource)
      /\ Nested(base) /\ \A x \in OwnedBy(base), y \in ToSet(s) : x < y
  BY <1>3, InnermostFrame DEF SlotInv, SlotsOK
<1>5. ToSet(held[t]) = OwnedBy(frames[t]) \ {r}
  BY <1>1, <1>3 DEF SlotInv, SlotsOK, Returned
<1>6. OwnedBy(base) \cup ToSet(Front(s)) = OwnedBy(frames[t]) \ {r}
  <2>1. r \notin OwnedBy(base) \cup ToSet(Front(s))
    <3> SUFFICES ASSUME r \in OwnedBy(base) \cup ToSet(Front(s)) PROVE FALSE
      OBVIOUS
    <3>1. r < r /\ r \in Nat
      BY <1>3, ResourceAssumption
    <3> QED
      BY <3>1
  <2> QED
    BY <1>3, <2>1
<1>7. InUse[t] = OwnedBy(frames[t]) /\ r \in InUse[t]
  BY <1>1, <1>3 DEF InUse, Uses
<1>8. \E fs, m :
        /\ frames' = [frames EXCEPT ![t] = fs] /\ mode' = [mode EXCEPT ![t] = m]
        /\ m \in {"body", "release"}
        /\ Nested(fs) /\ OwnedBy(fs) = OwnedBy(frames[t]) \ {r}
  <2>1. CASE Len(s) = 1
    <3>1. ToSet(Front(s)) = {}
      <4>1. Len(Front(s)) = 0 /\ Front(s) \in Seq(Resource)
        BY <1>3, <1>4, <2>1, LastAndFront
      <4> QED
        BY <4>1 DEF ToSet
    <3>2. OwnedBy(base) = OwnedBy(frames[t]) \ {r}
      BY <1>6, <3>1
    <3>3. frames' = [frames EXCEPT ![t] = base] /\ mode' = [mode EXCEPT ![t] = "body"]
      BY <2>1 DEF Release, Top
    <3> QED
      BY <1>4, <3>2, <3>3
  <2>2. CASE Len(s) # 1
    <3> DEFINE frame == [top EXCEPT !.acquired = Front(s)]
               fs == Append(base, frame)
    <3>1. frames' = [frames EXCEPT ![t] = fs] /\ mode' = [mode EXCEPT ![t] = "release"]
      BY <2>2 DEF Release, WithTop, Top
    <3>2. Front(s) \in Seq(Resource)
      BY <1>3, <1>4, LastAndFront
    <3>3. frame \in Frame /\ frame.acquired = Front(s)
      BY <1>4, <3>2, FrameUpdate
    <3>4. Increasing(Front(s)) /\ ToSet(Front(s)) \subseteq ToSet(s)
      BY <1>3, <1>4, LastOfIncreasing
    <3> HIDE DEF frame, base, s, top
    <3>5. OwnedBy(fs) = OwnedBy(base) \cup ToSet(Front(s))
      BY <1>4, <3>3, OwnedAppend
    <3>6. Nested(fs)
      <4>1. Increasing(frame.acquired)
        BY <3>3, <3>4
      <4>2. \A x \in OwnedBy(base), y \in ToSet(frame.acquired) : x < y
        BY <1>4, <3>3, <3>4
      <4> QED
        BY <1>4, <3>3, <4>1, <4>2, NestedAppend, Zenon
    <3> HIDE DEF fs
    <3> QED
      BY <1>6, <3>1, <3>5, <3>6
  <2> QED
    BY <2>1, <2>2
<1>9. PICK fs, m :
        /\ frames' = [frames EXCEPT ![t] = fs] /\ mode' = [mode EXCEPT ![t] = m]
        /\ m \in {"body", "release"}
        /\ Nested(fs) /\ OwnedBy(fs) = OwnedBy(frames[t]) \ {r}
  BY <1>8
<1> HIDE DEF top, base, s
<1> DEFINE h == held[t]
<1>10. SlotsOK(h, fs, m) /\ Uses(fs, m) = InUse[t] \ {r}
  BY <1>5, <1>7, <1>9 DEF SlotsOK, Returned, Uses
<1>11. held' = [held EXCEPT ![t] = h] /\ active' = active /\ held' = held
  BY DEF Release, OrderInv
<1> HIDE DEF h
<1>12. /\ \A u \in Threads : SlotsOK(held'[u], frames'[u], mode'[u])
       /\ InUse' = [InUse EXCEPT ![t] = Uses(fs, m)]
       /\ Listed' = [Listed EXCEPT ![t] = ToSet(h)]
  BY <1>9, <1>10, <1>11, OthersKeepSlots
<1>13. Listed' = Listed
  BY <1>11 DEF Listed
<1>14. free' = [free EXCEPT ![r] = @ + 1]
  BY <1>2 DEF Release
<1>15. free' \in [Resource -> Nat]
  BY <1>14 DEF SlotInv
<1>16. ASSUME NEW x \in Resource PROVE free'[x] + Sharing(InUse', x) = Limit[x]
  <2>1. Sharing([InUse EXCEPT ![t] = InUse[t] \ {r}], x)
          = Sharing(InUse, x) - (IF x = r THEN 1 ELSE 0)
    BY <1>7, UsesResources, SharingShrinks
  <2>2. Sharing(InUse, x) \in Nat
    BY UsesResources, SharingPositive
  <2>3. free'[x] = free[x] + (IF x = r THEN 1 ELSE 0)
    BY <1>14 DEF SlotInv
  <2>4. free[x] \in Nat /\ free[x] + Sharing(InUse, x) = Limit[x]
    BY DEF SlotInv
  <2>5. InUse' = [InUse EXCEPT ![t] = InUse[t] \ {r}]
    BY <1>10, <1>12
  <2> QED
    BY <2>1, <2>2, <2>3, <2>4, <2>5
<1> QED
  BY <1>11, <1>12, <1>13, <1>15, <1>16 DEF SlotInv

LEMMA SlotInvStep == OrderInv /\ SlotInv /\ [Next]_vars => SlotInv'
<1> SUFFICES ASSUME OrderInv, SlotInv, [Next]_vars PROVE SlotInv'
  OBVIOUS
<1>1. CASE UNCHANGED vars
  BY <1>1 DEF vars, SlotInv, InUse, Listed
<1>2. ASSUME NEW t \in Threads, Step(t) PROVE SlotInv'
  BY <1>2, EnterKeepsSlots, TakeKeepsSlots, MarkAcquiredKeepsSlots, LeaveKeepsSlots,
     MarkReleasedKeepsSlots, ReleaseKeepsSlots DEF Step
<1> QED
  BY <1>1, <1>2 DEF Next

\* The invariant gives conservation: UsersOf are the threads that share a resource in
\* InUse, and what is listed as held is in use.
LEMMA InvariantsConserve == OrderInv /\ SlotInv => SlotsConserved
<1> SUFFICES ASSUME OrderInv, SlotInv PROVE SlotsConserved
  OBVIOUS
<1>1. ASSUME NEW r \in Resource
      PROVE  UsersOf(r) = {t \in Threads : r \in InUse[t]}
  <2>1. \A t \in Threads : Acquired(t) = OwnedBy(frames[t])
    BY DEF Acquired, OwnedBy
  <2>2. \A t \in Threads : mode[t] = "mark" => NextOf(t) = NextIn(Last(frames[t]))
    BY NextIsNew
  <2> QED
    BY <2>1, <2>2 DEF UsersOf, InUse, Uses
<1>2. ASSUME NEW r \in Resource
      PROVE  /\ free[r] + Cardinality(UsersOf(r)) = Limit[r]
             /\ active[r] <= Cardinality(UsersOf(r))
             /\ free[r] <= Limit[r] /\ active[r] <= Limit[r]
  <2>1. free[r] + Cardinality(UsersOf(r)) = Limit[r]
    BY <1>1 DEF SlotInv, Sharing
  <2>2. active[r] <= Cardinality(UsersOf(r))
    <3> DEFINE listed == {t \in Threads : r \in Listed[t]}
    <3>1. IsFiniteSet(UsersOf(r))
      BY ThreadsAssumption, FS_Subset DEF UsersOf
    <3>2. listed \subseteq UsersOf(r)
      BY <1>1 DEF Listed, InUse, Uses, SlotInv, SlotsOK
    <3> HIDE DEF listed
    <3>3. Cardinality(listed) <= Cardinality(UsersOf(r))
      BY <3>1, <3>2, FS_Subset
    <3> QED
      BY <3>3 DEF SlotInv, Sharing, listed
  <2>3. Cardinality(UsersOf(r)) \in Nat /\ free[r] \in Nat /\ active[r] \in Nat
    <3>1. IsFiniteSet(UsersOf(r))
      BY ThreadsAssumption, FS_Subset DEF UsersOf
    <3> QED
      BY <3>1, FS_CardinalityType DEF SlotInv
  <2> QED
    BY <2>1, <2>2, <2>3
<1>3. \A t \in Threads : mode[t] # "failed"
  BY DEF SlotInv, SlotsOK
<1>4. TypeOK
  BY <1>2 DEF TypeOK, OrderInv, SlotInv, Mode
<1> QED
  BY <1>2, <1>3, <1>4 DEF SlotsConserved

\* Whatever is cancelled, nested or refused, of every resource the slots in use and those
\* free make up the limit, the statistics never overstate the use, and the RuntimeErrors
\* of _mark_released and of the finally clause are never raised.
THEOREM SlotsAreConserved == Spec => []SlotsConserved
<1>1. Init => OrderInv /\ SlotInv
  BY OrderInvInit, SlotInvInit
<1>2. OrderInv /\ SlotInv /\ [Next]_vars => OrderInv' /\ SlotInv'
  BY OrderInvStep, SlotInvStep
<1>3. OrderInv /\ SlotInv => SlotsConserved
  BY InvariantsConserve
<1> QED
  BY <1>1, <1>2, <1>3, PTL DEF Spec

-----------------------------------------------------------------------------
(* Image cleanup. An image that is no longer there has an intent, and with an intent on
   disk Docker is asked first; a removal that was recorded as clean is of an image that is
   gone, so that none is ever recorded behind it that failed. *)

\* Docker and the files, whatever the process is doing.
FilesInv ==
  /\ Image \ exists \subseteq intent \cap Owned
  /\ \A i \in committed : receipt[i] # None
  /\ \A i \in Image :
       /\ receipt[i] # None => (i \in Owned => i \notin exists) /\ receipt[i] = Len(history[i])
       /\ \A k \in 1 .. Len(history[i]) : history[i][k] = "clean" => i \notin exists
       /\ \A j, k \in 1 .. Len(history[i]) :
            j < k /\ history[i][j] = "clean" => history[i][k] = "clean"

\* Between inspection and record the cleanup of an owned image is open.
Open == cur \in Image /\ cur \in Owned /\ cur \in intent /\ receipt[cur] = None

NeverClean(i) == \A k \in 1 .. Len(history[i]) : history[i][k] # "clean"

ControlInv ==
  /\ pc \in {"inspect", "remove", "record"} => Open
  /\ pc = "remove" => cur \in exists
  /\ pc = "record" => \/ status = "clean" /\ cur \notin exists
                      \/ status = "error" /\ NeverClean(cur)
  /\ pc = "publish" => /\ cur \in Image /\ status = "clean" /\ receipt[cur] = None
                       /\ cur \in Owned => cur \notin exists
  /\ pc = "return" => /\ cur \in Image /\ status \in {"clean", "error"}
                      /\ status = "clean" => receipt[cur] # None

CleanupInv == CleanupTypeOK /\ FilesInv /\ ControlInv

LEMMA CleanupInvInit == CleanupInit => CleanupInv
<1> SUFFICES ASSUME CleanupInit PROVE CleanupInv
  OBVIOUS
<1>1. \A i \in Image : history[i] = <<>> /\ receipt[i] = None
  BY DEF CleanupInit
<1>2. history \in [Image -> Seq({"clean", "error"})] /\ receipt \in [Image -> Nat \cup {None}]
  BY DEF CleanupInit
<1>3. CleanupTypeOK
  <2>1. exists \subseteq Image /\ intent \subseteq Image /\ committed \subseteq Attempts
    BY DEF CleanupInit
  <2>2. complete \in BOOLEAN /\ drained \subseteq Unused
    BY DEF CleanupInit
  <2>4. faults \in 0 .. MaxFaults
    BY FaultAssumption DEF CleanupInit
  <2>3. /\ pc \in {"idle", "inspect", "remove", "record", "publish", "return", "down"}
        /\ cur \in Image \cup {None} /\ status \in {None, "clean", "error"}
    BY DEF CleanupInit
  <2> QED BY <1>2, <2>1, <2>2, <2>3, <2>4 DEF CleanupTypeOK
<1>4. FilesInv
  <2>1. \A i \in Image : Len(history[i]) = 0
    BY <1>1
  <2>2. exists = Image /\ committed = {}
    BY DEF CleanupInit
  <2> QED BY <1>1, <2>1, <2>2 DEF FilesInv
<1>5. ControlInv
  BY DEF CleanupInit, ControlInv
<1> QED BY <1>3, <1>4, <1>5 DEF CleanupInv

LEMMA BeginKeeps == ASSUME CleanupInv, NEW i \in Image, Begin(i) PROVE CleanupInv'
<1> USE DEF CleanupInv
<1>1. CleanupTypeOK'
  BY DEF CleanupTypeOK, Begin, PointAfterIntent
<1>2. FilesInv'
  BY DEF FilesInv, Begin
<1>3. ControlInv'
  <2>1. CASE receipt[i] # None
    BY <2>1 DEF Begin, ControlInv, Open
  <2>2. CASE receipt[i] = None
    BY <2>2 DEF Begin, ControlInv, Open, PointAfterIntent, FilesInv
  <2> QED BY <2>1, <2>2
<1> QED BY <1>1, <1>2, <1>3

LEMMA InspectKeeps == ASSUME CleanupInv, Inspect PROVE CleanupInv'
<1> USE DEF CleanupInv, Inspect, files
<1>1. CleanupTypeOK'
  BY DEF CleanupTypeOK
<1>2. FilesInv' /\ ControlInv'
  BY DEF FilesInv, ControlInv, Open
<1> QED BY <1>1, <1>2

\* With effect or without: what is removed has an intent and no receipt.
LEMMA RemoveKeeps ==
  ASSUME CleanupInv, RemoveImage \/ \E effect \in BOOLEAN : RemoveError(effect)
  PROVE  CleanupInv'
<1> USE DEF CleanupInv
<1>1. /\ pc = "remove" /\ pc' = "record" /\ UNCHANGED <<intent, history, receipt, committed, cur>>
      /\ exists' \in {exists, exists \ {cur}}
      /\ \/ status' = "clean" /\ exists' = exists \ {cur}
         \/ status' = "error"
  BY DEF RemoveImage, RemoveError, files
<1>2. Open /\ cur \in exists
  BY <1>1 DEF ControlInv
<1>3. NeverClean(cur)
  BY <1>2 DEF FilesInv, NeverClean, Open
<1>4. CleanupTypeOK'
  BY <1>1, FaultAssumption DEF CleanupTypeOK, RemoveImage, RemoveError, files
<1>5. FilesInv'
  BY <1>1, <1>2 DEF FilesInv, Open
<1>6. ControlInv'
  BY <1>1, <1>2, <1>3 DEF ControlInv, Open, NeverClean
<1> QED BY <1>4, <1>5, <1>6

LEMMA RecordKeeps == ASSUME CleanupInv, RecordAttempt PROVE CleanupInv'
<1> USE DEF CleanupInv
<1>1. /\ Open /\ status \in {"clean", "error"} /\ history[cur] \in Seq({"clean", "error"})
      /\ status = "clean" => cur \notin exists
      /\ status = "error" => NeverClean(cur)
  BY DEF RecordAttempt, ControlInv, CleanupTypeOK, Open
<1> DEFINE longer == Append(history[cur], status)
<1>2. /\ history' = [history EXCEPT ![cur] = longer]
      /\ UNCHANGED <<exists, intent, receipt, committed, cur, status>>
      /\ pc' = IF status = "clean" THEN "publish" ELSE "return"
  BY DEF RecordAttempt
<1>3. /\ longer \in Seq({"clean", "error"}) /\ Len(longer) = Len(history[cur]) + 1
      /\ \A k \in 1 .. Len(history[cur]) : longer[k] = history[cur][k]
      /\ longer[Len(longer)] = status
  BY <1>1
<1>4. CleanupTypeOK'
  BY <1>1, <1>2, <1>3 DEF CleanupTypeOK, RecordAttempt
<1>5. /\ history'[cur] = longer
      /\ \A i \in Image : i # cur => history'[i] = history[i]
  BY <1>1, <1>2 DEF CleanupTypeOK, Open
<1>6. \A k \in 1 .. Len(longer) : longer[k] = "clean" => cur \notin exists
  BY <1>1, <1>3 DEF FilesInv, Open
<1>7. \A j, k \in 1 .. Len(longer) : j < k /\ longer[j] = "clean" => longer[k] = "clean"
  <2> TAKE j, k \in 1 .. Len(longer)
  <2> HAVE j < k /\ longer[j] = "clean"
  <2>1. j \in 1 .. Len(history[cur]) /\ history[cur][j] = "clean"
    BY <1>1, <1>3
  <2>2. CASE k \in 1 .. Len(history[cur])
    BY <1>1, <1>3, <2>1, <2>2 DEF FilesInv, Open
  <2>3. CASE k = Len(longer)
    BY <1>1, <1>3, <2>1, <2>3 DEF NeverClean
  <2> QED BY <1>1, <1>3, <2>2, <2>3
<1>8. FilesInv'
  <2> HIDE DEF longer
  <2> SUFFICES ASSUME NEW i \in Image
               PROVE  /\ receipt[i] # None => /\ i \in Owned => i \notin exists
                                              /\ receipt[i] = Len(history'[i])
                      /\ \A k \in 1 .. Len(history'[i]) :
                            history'[i][k] = "clean" => i \notin exists
                      /\ \A j, k \in 1 .. Len(history'[i]) :
                           j < k /\ history'[i][j] = "clean" => history'[i][k] = "clean"
    BY <1>2 DEF FilesInv
  <2>1. CASE i = cur
    BY <2>1, <1>1, <1>5, <1>6, <1>7 DEF Open
  <2>2. CASE i # cur
    BY <2>2, <1>5 DEF FilesInv
  <2> QED BY <2>1, <2>2
<1>9. ControlInv'
  BY <1>1, <1>2 DEF ControlInv, Open
<1> QED BY <1>4, <1>8, <1>9

LEMMA PublishKeeps == ASSUME CleanupInv, PublishReceipt PROVE CleanupInv'
<1> USE DEF CleanupInv
<1>1. /\ cur \in Image /\ status = "clean" /\ receipt[cur] = None
      /\ cur \in Owned => cur \notin exists
  BY DEF PublishReceipt, ControlInv
<1>2. Len(history[cur]) \in Nat /\ Len(history[cur]) # None
  BY <1>1, NoneAssumption DEF CleanupTypeOK
<1>3. CleanupTypeOK'
  BY <1>1, <1>2 DEF CleanupTypeOK, PublishReceipt
<1>4. FilesInv'
  BY <1>1, <1>2 DEF FilesInv, PublishReceipt, CleanupTypeOK
<1>5. ControlInv'
  BY <1>1, <1>2 DEF ControlInv, Open, PublishReceipt, CleanupTypeOK
<1> QED BY <1>3, <1>4, <1>5

LEMMA ReturnKeeps == ASSUME CleanupInv, ReturnToAttempt \/ ReturnToDrain PROVE CleanupInv'
<1> USE DEF CleanupInv
<1>1. cur \in Image /\ (status # "error" => receipt[cur] # None)
  BY DEF ReturnToAttempt, ReturnToDrain, ControlInv
<1>2. CleanupTypeOK'
  BY <1>1 DEF CleanupTypeOK, ReturnToAttempt, ReturnToDrain, DrainedAfter, files
<1>3. FilesInv'
  BY <1>1 DEF FilesInv, ReturnToAttempt, ReturnToDrain, files
<1>4. ControlInv'
  BY DEF ControlInv, Open, ReturnToAttempt, ReturnToDrain
<1> QED BY <1>2, <1>3, <1>4

\* The process ends, or starts again, or has nothing to do: the files stay.
LEMMA OthersKeep ==
  ASSUME CleanupInv, InspectError \/ Save \/ Crash \/ Restart \/ UNCHANGED cleanupVars
  PROVE  CleanupInv'
<1> USE DEF CleanupInv, files
<1>1. CASE InspectError \/ Crash
  <2>1. CleanupTypeOK'
    BY <1>1, FaultAssumption DEF CleanupTypeOK, InspectError, Crash
  <2>2. FilesInv' /\ ControlInv'
    BY <1>1 DEF FilesInv, ControlInv, Open, InspectError, Crash
  <2> QED BY <2>1, <2>2
<1>2. CASE Save \/ Restart
  <2>1. CleanupTypeOK'
    BY <1>2 DEF CleanupTypeOK, Save, Restart
  <2>2. FilesInv' /\ ControlInv'
    BY <1>2 DEF FilesInv, ControlInv, Open, Save, Restart
  <2> QED BY <2>1, <2>2
<1>3. CASE UNCHANGED cleanupVars
  BY <1>3 DEF cleanupVars, CleanupTypeOK, FilesInv, ControlInv, Open, NeverClean
<1> QED BY <1>1, <1>2, <1>3

LEMMA CleanupInvStep == CleanupInv /\ [CleanupNext]_cleanupVars => CleanupInv'
  BY BeginKeeps, InspectKeeps, RemoveKeeps, RecordKeeps, PublishKeeps, ReturnKeeps, OthersKeep
  DEF CleanupNext, CleanupStep, Terminated

\* The remover is never invoked on an image that is gone, receipts and histories say what
\* Docker shows, and a commit stands on a receipt (cleanup_candidate_image, _ensure_cleanup).
THEOREM CleanupTellsTruth == CleanupSpec => []RecordsTellTruth
<1>1. CleanupInv => RecordsTellTruth
  BY DEF CleanupInv, FilesInv, ControlInv, RecordsTellTruth
<1> QED BY CleanupInvInit, CleanupInvStep, <1>1, PTL DEF CleanupSpec

-----------------------------------------------------------------------------
(* That the cleanup comes to an end is a liveness property, which needs fairness; that it can
   be put off by faults alone is a fact about its steps. *)

\* The steps to the next image: a removal that failed still ends the process and is resumed.
StepsFrom(point, st) ==
  IF st = "error" THEN IF point = "record" THEN 10 ELSE 9
  ELSE CASE point = "down" -> 8 [] point = "idle" -> 7 [] point = "inspect" -> 6
         [] point = "remove" -> 5 [] point = "record" -> 4 [] point = "publish" -> 3
         [] OTHER -> 2

Pending == Cardinality(Attempts \ committed) + Cardinality(Unused \ drained)
Work == 11 * Pending + StepsFrom(pc, status) + (IF complete THEN 0 ELSE 1)

\* Every step does some of the work left or is one of MaxFaults faults.
Advances ==
  /\ ~complete /\ Work \in Nat /\ Work' \in Nat
  /\ \/ faults' = faults + 1 /\ faults' <= MaxFaults
     \/ faults' = faults /\ Work' < Work

ProgressInv ==
  /\ complete => pc = "idle" /\ Attempts \subseteq committed
  /\ pc \in {"inspect", "remove", "record", "publish", "return"} =>
       ~complete /\ cur \in (Attempts \ committed) \cup (Unused \ drained)
  /\ status = "error" => pc \in {"record", "return"}
  /\ pc \in {"idle", "down"} => status = None

LEMMA ProgressInvInit == CleanupInit => ProgressInv
  BY NoneAssumption DEF CleanupInit, ProgressInv

LEMMA ProgressInvStep == CleanupInv /\ ProgressInv /\ [CleanupNext]_cleanupVars => ProgressInv'
<1> SUFFICES ASSUME CleanupInv, ProgressInv, [CleanupNext]_cleanupVars PROVE ProgressInv'
  OBVIOUS
<1> USE NoneAssumption DEF ProgressInv, files
<1>1. CleanupTypeOK
  BY DEF CleanupInv
<1>2. ASSUME NEW i \in Image, Begin(i) PROVE ProgressInv'
  BY <1>2 DEF Begin, Due, PointAfterIntent, Image
<1>3. CASE Inspect \/ InspectError
  BY <1>3 DEF Inspect, InspectError
<1>4. CASE RemoveImage \/ \E effect \in BOOLEAN : RemoveError(effect)
  BY <1>4 DEF RemoveImage, RemoveError
<1>5. CASE RecordAttempt \/ PublishReceipt
  BY <1>5 DEF RecordAttempt, PublishReceipt
<1>6. CASE ReturnToAttempt \/ ReturnToDrain
  BY <1>6 DEF ReturnToAttempt, ReturnToDrain
<1>7. CASE Save \/ Crash \/ Restart
  BY <1>7 DEF Save, Crash, Restart
<1>8. CASE UNCHANGED cleanupVars
  BY <1>8 DEF cleanupVars
<1> QED BY <1>2, <1>3, <1>4, <1>5, <1>6, <1>7, <1>8 DEF CleanupNext, CleanupStep, Terminated

\* An image that is done leaves one less.
LEMMA OneLess ==
  ASSUME NEW S, IsFiniteSet(S), NEW T, NEW x \in S \ T
  PROVE  /\ Cardinality(S \ (T \cup {x})) = Cardinality(S \ T) - 1
         /\ Cardinality(S \ T) \in Nat /\ Cardinality(S \ (T \cup {x})) \in Nat
<1>1. IsFiniteSet(S \ T)
  BY FS_Difference
<1>2. S \ (T \cup {x}) = (S \ T) \ {x}
  OBVIOUS
<1>3. IsFiniteSet((S \ T) \ {x}) /\ Cardinality((S \ T) \ {x}) = Cardinality(S \ T) - 1
  BY <1>1, FS_RemoveElement
<1> QED BY <1>1, <1>2, <1>3, FS_CardinalityType

LEMMA WorkIsNatural ==
  ASSUME NEW done, NEW used
  PROVE  /\ IsFiniteSet(Attempts) /\ IsFiniteSet(Unused)
         /\ Cardinality(Attempts \ done) \in Nat /\ Cardinality(Unused \ used) \in Nat
<1>1. IsFiniteSet(Attempts) /\ IsFiniteSet(Unused)
  <2>1. Attempts \in SUBSET Image /\ Unused \in SUBSET Image
    BY DEF Image
  <2> QED BY <2>1, ImageAssumption, FS_Subset
<1>2. IsFiniteSet(Attempts \ done) /\ IsFiniteSet(Unused \ used)
  BY <1>1, FS_Difference
<1> QED BY <1>1, <1>2, FS_CardinalityType

LEMMA StepAdvances ==
  ASSUME CleanupInv, ProgressInv, CleanupNext, cleanupVars' # cleanupVars
  PROVE  Advances
<1>1. CleanupTypeOK /\ faults \in 0 .. MaxFaults /\ MaxFaults \in Nat
  BY FaultAssumption DEF CleanupInv, CleanupTypeOK
<1>2. Pending \in Nat /\ Pending' \in Nat
  <2>1. Cardinality(Attempts \ committed) \in Nat /\ Cardinality(Unused \ drained) \in Nat
    BY WorkIsNatural
  <2>2. Cardinality(Attempts \ committed') \in Nat /\ Cardinality(Unused \ drained') \in Nat
    BY WorkIsNatural
  <2> QED BY <2>1, <2>2 DEF Pending
<1>3. StepsFrom(pc, status) \in Nat /\ StepsFrom(pc, status)' \in Nat
  BY DEF StepsFrom
<1>4. Work \in Nat /\ Work' \in Nat
  BY <1>2, <1>3 DEF Work
<1>5. CASE InspectError \/ Crash \/ \E effect \in BOOLEAN : RemoveError(effect)
  <2>1. ~complete /\ faults' = faults + 1 /\ faults < MaxFaults
    BY <1>5 DEF InspectError, Crash, RemoveError, ProgressInv
  <2> QED BY <1>1, <1>4, <2>1 DEF Advances
<1>6. ASSUME ~complete, faults' = faults, Work' < Work PROVE Advances
  BY <1>4, <1>6 DEF Advances
<1>7. ASSUME ~complete, ~complete', faults' = faults, Pending' = Pending,
             StepsFrom(pc, status)' < StepsFrom(pc, status)
      PROVE  Advances
  BY <1>2, <1>3, <1>6, <1>7 DEF Work
<1>8. ASSUME UNCHANGED <<committed, drained>> PROVE Pending' = Pending
  BY <1>8 DEF Pending
<1> USE NoneAssumption DEF ProgressInv, StepsFrom, files
<1>9. ASSUME NEW i \in Image, Begin(i) PROVE Advances
  <2>1. ~complete
    BY <1>9 DEF Begin, Due
  <2>2. pc = "idle" /\ status = None /\ status' \in {None, "clean"} /\ ~complete'
        /\ pc' \in {"inspect", "remove", "publish", "return"} /\ faults' = faults
        /\ UNCHANGED <<committed, drained>>
    BY <1>9, <2>1 DEF Begin, PointAfterIntent
  <2>3. StepsFrom(pc, status)' < StepsFrom(pc, status)
    BY <2>2
  <2> QED BY <1>7, <1>8, <2>1, <2>2, <2>3
<1>10. CASE Inspect \/ RemoveImage \/ RecordAttempt \/ PublishReceipt
  <2>1. ~complete /\ ~complete' /\ faults' = faults /\ UNCHANGED <<committed, drained>>
    BY <1>10 DEF Inspect, RemoveImage, RecordAttempt, PublishReceipt
  <2>2. CASE Inspect
    BY <1>7, <1>8, <2>1, <2>2 DEF Inspect
  <2>3. CASE RemoveImage
    BY <1>7, <1>8, <2>1, <2>3 DEF RemoveImage
  <2>4. CASE RecordAttempt
    <3>1. status \in {"clean", "error"}
      BY <2>4 DEF RecordAttempt, CleanupInv, ControlInv
    <3> QED BY <1>7, <1>8, <2>1, <2>4, <3>1 DEF RecordAttempt
  <2>5. CASE PublishReceipt
    <3>1. status = "clean"
      BY <2>5 DEF PublishReceipt, CleanupInv, ControlInv
    <3> QED BY <1>7, <1>8, <2>1, <2>5, <3>1 DEF PublishReceipt
  <2> QED BY <1>10, <2>2, <2>3, <2>4, <2>5
<1>11. CASE ReturnToAttempt
  <2>1. /\ ~complete /\ ~complete' /\ faults' = faults /\ drained' = drained
        /\ pc = "return" /\ cur \in Attempts \ committed /\ status' = None
        /\ status \in {"clean", "error"}
    BY <1>11, ImageAssumption DEF ReturnToAttempt, CleanupInv, ControlInv
  <2>2. CASE status = "error"
    <3>1. pc' = "down" /\ committed' = committed
      BY <1>11, <2>2 DEF ReturnToAttempt
    <3> QED BY <1>7, <1>8, <2>1, <2>2, <3>1
  <2>3. CASE status # "error"
    <3>1. pc' = "idle" /\ committed' = committed \cup {cur}
      BY <1>11, <2>3 DEF ReturnToAttempt
    <3>2. Pending' = Pending - 1
      <4>1. IsFiniteSet(Attempts) /\ Cardinality(Unused \ drained) \in Nat
        BY WorkIsNatural
      <4>2. /\ Cardinality(Attempts \ (committed \cup {cur}))
                 = Cardinality(Attempts \ committed) - 1
            /\ Cardinality(Attempts \ committed) \in Nat
        BY <2>1, <4>1, OneLess
      <4> QED BY <2>1, <3>1, <4>1, <4>2 DEF Pending
    <3>3. Work' < Work
      BY <1>2, <2>1, <2>3, <3>1, <3>2 DEF Work
    <3> QED BY <1>6, <2>1, <3>3
  <2> QED BY <2>2, <2>3
<1>12. CASE ReturnToDrain
  <2>1. /\ ~complete /\ ~complete' /\ faults' = faults /\ committed' = committed
        /\ pc = "return" /\ cur \in Unused \ drained /\ status' = None
        /\ pc' = "idle" /\ drained' = drained \cup {cur}
    BY <1>12, ImageAssumption DEF ReturnToDrain, DrainedAfter
  <2>2. Pending' = Pending - 1
    <3>1. IsFiniteSet(Unused) /\ Cardinality(Attempts \ committed) \in Nat
      BY WorkIsNatural
    <3>2. /\ Cardinality(Unused \ (drained \cup {cur})) = Cardinality(Unused \ drained) - 1
          /\ Cardinality(Unused \ drained) \in Nat
      BY <2>1, <3>1, OneLess
    <3> QED BY <2>1, <3>1, <3>2 DEF Pending
  <2>3. StepsFrom(pc, status)' = 7 /\ StepsFrom(pc, status) \in {2, 9}
    BY <2>1
  <2>4. Work' < Work
    BY <1>2, <2>1, <2>2, <2>3 DEF Work
  <2> QED BY <1>6, <2>1, <2>4
<1>13. CASE Save \/ Restart
  <2>1. CASE Save
    <3>1. /\ ~complete /\ complete' /\ faults' = faults /\ UNCHANGED <<pc, status>>
          /\ UNCHANGED <<committed, drained>>
      BY <2>1 DEF Save
    <3>2. Work' < Work
      BY <1>2, <1>3, <1>8, <3>1 DEF Work
    <3> QED BY <1>6, <3>1, <3>2
  <2>2. CASE Restart
    <3>1. ~complete /\ ~complete' /\ faults' = faults /\ UNCHANGED <<committed, drained>>
      BY <2>2 DEF Restart
    <3>2. StepsFrom(pc, status)' < StepsFrom(pc, status)
      BY <2>2 DEF Restart
    <3> QED BY <1>7, <1>8, <3>1, <3>2
  <2> QED BY <1>13, <2>1, <2>2
<1> QED BY <1>5, <1>9, <1>10, <1>11, <1>12, <1>13 DEF CleanupNext, CleanupStep, Terminated

\* Nothing but a fault puts the end of the cleanup off: every step, of whatever image and in
\* whatever process, reduces what is left to do or is one of the MaxFaults faults, and a
\* completed campaign takes none (cleanup_candidate_image, _drain_unused_images).
THEOREM CleanupAdvances == CleanupSpec => [][Advances]_cleanupVars
<1>1. CleanupInv /\ ProgressInv /\ [CleanupNext]_cleanupVars => [Advances]_cleanupVars
  BY StepAdvances
<1> QED BY CleanupInvInit, CleanupInvStep, ProgressInvInit, ProgressInvStep, <1>1, PTL
        DEF CleanupSpec
=============================================================================
