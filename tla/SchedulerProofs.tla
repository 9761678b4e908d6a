--------------------------- MODULE SchedulerProofs ---------------------------
(* Proofs about Scheduler, for any set of jobs, any number of waits and runs. *)
(* The inductive invariant is TypeOK, NoStrandedJob, StackIsActive,           *)
(* NoSchedulerOutsideJobs, RunIsKnown, and, when wakeups are never spurious,  *)
(* OnePlace with NoUseAfterFree, ErrorsAreDeliverable and WorkIsAccounted.    *)
EXTENDS Scheduler, SequenceTheorems, TLAPS

-----------------------------------------------------------------------------
(* Sequences as FIFO and as stack.                                         *)

\* Appending an element that is not in a sequence keeps its elements distinct.
LEMMA AppendFact ==
    ASSUME NEW S, NEW q \in Seq(S), NEW j \in S
    PROVE  /\ Append(q, j) \in Seq(S)
           /\ Append(q, j) # <<>>
           /\ ToSet(Append(q, j)) = ToSet(q) \cup {j}
           /\ Once(q) /\ j \notin ToSet(q) => Once(Append(q, j))
<1>1. /\ Append(q, j) \in Seq(S)
      /\ Len(Append(q, j)) = Len(q) + 1
      /\ \A i \in 1..Len(q) : Append(q, j)[i] = q[i]
      /\ Append(q, j)[Len(q) + 1] = j
    OBVIOUS
<1>2. ToSet(Append(q, j)) = ToSet(q) \cup {j}
    BY <1>1 DEF ToSet
<1>3. Append(q, j) # <<>>
    BY <1>1
<1>4. ASSUME Once(q), j \notin ToSet(q)
      PROVE  Once(Append(q, j))
    BY <1>1, <1>4 DEF Once, ToSet
<1> QED
    BY <1>1, <1>2, <1>3, <1>4

\* Taking the head of a sequence of distinct elements removes it for good.
LEMMA TailFact ==
    ASSUME NEW S, NEW q \in Seq(S), q # <<>>
    PROVE  /\ Head(q) \in S
           /\ Tail(q) \in Seq(S)
           /\ ToSet(q) = ToSet(Tail(q)) \cup {Head(q)}
           /\ Once(q) => Once(Tail(q)) /\ Head(q) \notin ToSet(Tail(q))
<1>1. /\ Head(q) = q[1] /\ Len(q) \in Nat \ {0}
      /\ Tail(q) \in Seq(S) /\ Len(Tail(q)) = Len(q) - 1
      /\ \A i \in 1..Len(q) - 1 : Tail(q)[i] = q[i + 1]
    BY HeadTailProperties, EmptySeq
<1>2. \A i \in 1..Len(q) : i = 1 \/ i - 1 \in 1..Len(q) - 1
    BY <1>1
<1>3. ToSet(q) = ToSet(Tail(q)) \cup {Head(q)}
  <2>1. ASSUME NEW i \in 1..Len(q)
        PROVE  q[i] \in ToSet(Tail(q)) \cup {Head(q)}
    <3>1. CASE i = 1
        BY <3>1, <1>1
    <3>2. CASE i - 1 \in 1..Len(q) - 1
      <4>1. Tail(q)[i - 1] = q[i] /\ i - 1 \in DOMAIN Tail(q)
          BY <3>2, <1>1
      <4> QED
          BY <4>1 DEF ToSet
    <3> QED
        BY <3>1, <3>2, <1>2
  <2>2. ASSUME NEW i \in 1..Len(Tail(q))
        PROVE  Tail(q)[i] \in ToSet(q)
      BY <1>1 DEF ToSet
  <2>3. Head(q) \in ToSet(q)
      BY <1>1 DEF ToSet
  <2> QED
      BY <2>1, <2>2, <2>3, <1>1 DEF ToSet
<1>4. ASSUME Once(q)
      PROVE  Once(Tail(q)) /\ Head(q) \notin ToSet(Tail(q))
    BY <1>1, <1>4 DEF Once, ToSet
<1> QED
    BY <1>1, <1>3, <1>4

\* The jobs of a stack of frames, pushed and popped.
LEMMA PushFact ==
    ASSUME NEW s \in Seq(Frames), NEW f \in Frames
    PROVE  /\ JobsOf(s) \in Seq(Jobs)
           /\ Append(s, f) \in Seq(Frames)
           /\ JobsOf(Append(s, f)) = Append(JobsOf(s), f.job)
<1>1. /\ Append(s, f) \in Seq(Frames)
      /\ Len(Append(s, f)) = Len(s) + 1
      /\ \A i \in 1..Len(s) : Append(s, f)[i] = s[i]
      /\ Append(s, f)[Len(s) + 1] = f
    OBVIOUS
<1>2. ASSUME NEW t \in Seq(Frames)
      PROVE  JobsOf(t) \in Seq(Jobs) /\ Len(JobsOf(t)) = Len(t)
  <2>1. Len(t) \in Nat /\ \A i \in 1..Len(t) : t[i] \in Frames
      OBVIOUS
  <2>2. JobsOf(t) \in [1..Len(t) -> Jobs]
      BY <2>1 DEF JobsOf, Frames
  <2> QED
      BY <2>1, <2>2
<1>3. JobsOf(Append(s, f)) = Append(JobsOf(s), f.job)
    BY <1>1, <1>2 DEF JobsOf, Frames
<1> QED
    BY <1>1, <1>2, <1>3

LEMMA PopFact ==
    ASSUME NEW s \in Seq(Frames), s # <<>>
    PROVE  LET rest == SubSeq(s, 1, Len(s) - 1)
               top  == s[Len(s)]
           IN  /\ rest \in Seq(Frames) /\ top \in Frames
               /\ s = Append(rest, top)
<1> DEFINE rest == SubSeq(s, 1, Len(s) - 1)
           top  == s[Len(s)]
<1>1. Len(s) \in Nat /\ Len(s) >= 1
  <2>1. Len(s) \in Nat /\ Len(s) # 0
      BY EmptySeq
  <2> QED
      BY <2>1
<1>2. /\ rest \in Seq(Frames) /\ Len(rest) = Len(s) - 1
      /\ \A i \in 1..Len(s) - 1 : rest[i] = s[i]
  <2>1. 1 \in Int /\ Len(s) - 1 \in Int /\ \A i \in 1..Len(s) - 1 : s[i] \in Frames
      BY <1>1
  <2>2. /\ rest \in Seq(Frames)
        /\ Len(rest) = IF 1 <= Len(s) - 1 THEN Len(s) - 1 - 1 + 1 ELSE 0
        /\ \A i \in 1..(Len(s) - 1 - 1 + 1) : rest[i] = s[1 + i - 1]
      BY ONLY <2>1, SubSeqProperties
  <2>3. Len(rest) = Len(s) - 1
    <3>1. \A n \in Nat : n >= 1 => (IF 1 <= n - 1 THEN n - 1 - 1 + 1 ELSE 0) = n - 1
        OBVIOUS
    <3> QED
        BY ONLY <1>1, <2>2, <3>1
  <2>4. ASSUME NEW i \in 1..Len(s) - 1
        PROVE  rest[i] = s[i]
    <3>1. i \in 1..(Len(s) - 1 - 1 + 1) /\ 1 + i - 1 = i
        BY <1>1
    <3> QED
        BY <2>2, <3>1
  <2> QED
      BY <2>2, <2>3, <2>4
<1>3. top \in Frames
    BY <1>1
<1>4. s = Append(rest, top)
    BY <1>1, <1>2, <1>3
<1> QED
    BY <1>2, <1>3, <1>4

-----------------------------------------------------------------------------
(* Type correctness.                                                       *)

\* The states in which the code calls _poll.
Calls ==
    [queue : Seq(Jobs), frozen : SUBSET Jobs, exc : SUBSET Jobs,
     polls : Nat, wake : BOOLEAN]

\* _poll keeps every variable it changes in its type.
LEMMA PollType ==
    ASSUME TypeOK, NEW at \in Calls, Poll(at)
    PROVE  /\ queue' \in Seq(Jobs) /\ stack' \in Seq(Frames)
           /\ pc' \in [Jobs -> {"unborn", "created", "ready", "active", "parked", "deleted"}]
           /\ exc' \in SUBSET Jobs /\ polls' \in Nat
           /\ work' \in BOOLEAN /\ sched' \in BOOLEAN /\ corrupt' \in BOOLEAN
<1> USE DEF TypeOK, Calls
<1>a. WorkAfterPoll(at) \in BOOLEAN
    BY DEF WorkAfterPoll
<1>b. Repost(Tail(at.queue)) \in Nat
    BY DEF Repost
<1>1. CASE PollNothing(at)
    BY <1>1, <1>a DEF PollNothing
<1>2. CASE PollSkipsFrozen(at)
  <2>1. Tail(at.queue) \in Seq(Jobs)
      BY <1>2, TailFact DEF PollSkipsFrozen
  <2> QED
      BY <1>2, <2>1, <1>a, <1>b DEF PollSkipsFrozen
<1>3. CASE PollFirstSwitch(at)
  <2>1. /\ NextJob(at) \in Jobs /\ Tail(at.queue) \in Seq(Jobs)
        /\ Append(Tail(at.queue), NextJob(at)) \in Seq(Jobs)
      BY <1>3, TailFact DEF PollFirstSwitch, NextJob
  <2>2. queue' \in Seq(Jobs) /\ polls' \in Nat
      BY <1>3, <2>1 DEF PollFirstSwitch
  <2>3. pc' \in [Jobs -> {"unborn", "created", "ready", "active", "parked", "deleted"}]
      BY <1>3, <2>1 DEF PollFirstSwitch
  <2> QED
      BY <1>3, <2>2, <2>3, <1>a DEF PollFirstSwitch
<1>4. CASE PollResumes(at)
  <2>1. NextJob(at) \in Jobs /\ Tail(at.queue) \in Seq(Jobs)
      BY <1>4, TailFact DEF PollResumes, NextJob
  <2>2. [job |-> NextJob(at), wake |-> at.wake] \in Frames
      BY <2>1 DEF Frames
  <2>3. stack' \in Seq(Frames)
      BY <1>4, <2>2 DEF PollResumes
  <2> QED
      BY <1>4, <2>1, <2>3 DEF PollResumes, ExcAfterResume
<1>5. CASE PollCorrupts(at)
    BY <1>5 DEF PollCorrupts
<1> QED
    BY <1>1, <1>2, <1>3, <1>4, <1>5 DEF Poll

\* The call of _poll made by wakeup() is one of Calls.
LEMMA WakeupCall ==
    ASSUME TypeOK, NEW k \in Jobs, NEW e \in SUBSET Jobs
    PROVE  At(Append(queue, k), frozen \ {k}, e, polls, TRUE) \in Calls
BY AppendFact DEF TypeOK, At, Calls

\* A switch back keeps every variable it changes in its type.
LEMMA SwitchBackType ==
    ASSUME TypeOK, NEW j \in Jobs, NEW f \in SUBSET Jobs, NEW w \in BOOLEAN,
           NEW alive \in BOOLEAN, Current(j), SwitchBack(j, f, w, alive)
    PROVE  /\ queue' \in Seq(Jobs) /\ frozen' \in SUBSET Jobs
           /\ stack' \in Seq(Frames) /\ sched' \in BOOLEAN
           /\ polls' \in Nat /\ work' \in BOOLEAN
<1>1. stack' \in Seq(Frames)
    BY PopFact DEF TypeOK, Current, SwitchBack, PopFrame
<1>2. queue' \in Seq(Jobs)
    BY AppendFact DEF TypeOK, SwitchBack, QueueAfter
<1>3. work' \in BOOLEAN
    BY DEF TypeOK, SwitchBack
<1>4. polls' \in Nat
  <2>1. Repost(queue') \in Nat
      BY DEF Repost
  <2> QED
      BY <2>1 DEF TypeOK, SwitchBack
<1>5. frozen' \in SUBSET Jobs /\ sched' \in BOOLEAN
    BY DEF SwitchBack, PopFrame
<1> QED
    BY <1>1, <1>2, <1>3, <1>4, <1>5

LEMMA InitType == Init => TypeOK
<1> SUFFICES ASSUME Init
             PROVE  TypeOK
    OBVIOUS
<1>1. queue \in Seq(Jobs) /\ stack \in Seq(Frames)
    BY EmptySeq DEF Init
<1>2. waits \in [Jobs -> Nat] /\ runs \in Nat
    BY SchedulerAssumption DEF Init
<1> QED
    BY <1>1, <1>2 DEF Init, TypeOK

LEMMA NextType == TypeOK /\ [Next]_vars => TypeOK'
<1> SUFFICES ASSUME TypeOK, [Next]_vars
             PROVE  TypeOK'
    OBVIOUS
<1>1. ASSUME NEW j \in Jobs, Spawn(j)
      PROVE  TypeOK'
    BY <1>1, AppendFact DEF TypeOK, Spawn
<1>2. CASE RunBegin
    BY <1>2 DEF TypeOK, RunBegin
<1>3. CASE RunReturn
    BY <1>3 DEF TypeOK, RunReturn
<1>4. CASE Stop
    BY <1>4 DEF TypeOK, Stop
<1>5. CASE ServicePoll
  <2>1. At(queue, frozen, exc, polls - 1, FALSE) \in Calls
      BY <1>5 DEF TypeOK, ServicePoll, At, Calls
  <2> QED
      BY <1>5, <2>1, PollType DEF TypeOK, ServicePoll
<1>6. ASSUME NEW j \in Jobs, NEW error \in BOOLEAN, Complete(j, error)
      PROVE  TypeOK'
  <2> DEFINE e == IF error THEN exc \cup {j} ELSE exc
  <2>1. e \in SUBSET Jobs
      BY DEF TypeOK
  <2>2. Poll(At(Append(queue, j), frozen \ {j}, e, polls, TRUE))
      BY <1>6 DEF Complete, Wakeup
  <2> HIDE DEF e
  <2> QED
      BY <1>6, <2>1, <2>2, WakeupCall, PollType DEF TypeOK, Complete, Wakeup
<1>7. ASSUME NEW j \in Jobs, NEW k \in Jobs, WakesUp(j, k)
      PROVE  TypeOK'
  <2>1. exc \in SUBSET Jobs /\ waits' \in [Jobs -> Nat]
      BY <1>7 DEF TypeOK, WakesUp
  <2>2. Poll(At(Append(queue, k), frozen \ {k}, exc, polls, TRUE))
      BY <1>7 DEF WakesUp, Wakeup
  <2> QED
      BY <1>7, <2>1, <2>2, WakeupCall, PollType DEF TypeOK, WakesUp, Wakeup
<1>8. ASSUME NEW j \in Jobs, Yields(j)
      PROVE  TypeOK'
    BY <1>8, SwitchBackType DEF TypeOK, Yields
<1>9. ASSUME NEW j \in Jobs, NEW own \in BOOLEAN, Waits(j, own)
      PROVE  TypeOK'
  <2>1. SwitchBack(j, frozen \cup {j}, TRUE, TRUE) /\ Current(j)
      BY <1>9 DEF Waits, WorkAfterFreeze
  <2>2. /\ queue' \in Seq(Jobs) /\ frozen' \in SUBSET Jobs
        /\ stack' \in Seq(Frames) /\ sched' \in BOOLEAN
        /\ polls' \in Nat /\ work' \in BOOLEAN
    <3>1. frozen \cup {j} \in SUBSET Jobs
        BY DEF TypeOK
    <3> QED
        BY <2>1, <3>1, SwitchBackType
  <2>3. waits' \in [Jobs -> Nat] /\ pending' \in SUBSET Jobs
      BY <1>9 DEF TypeOK, Waits
  <2> QED
      BY <1>9, <2>2, <2>3 DEF TypeOK, Waits
<1>10. ASSUME NEW j \in Jobs, Returns(j)
       PROVE  TypeOK'
    BY <1>10, SwitchBackType DEF TypeOK, Returns
<1>11. ASSUME NEW j \in Jobs, Throws(j)
       PROVE  TypeOK'
  <2>1. stack' \in Seq(Frames)
      BY <1>11, PopFact DEF TypeOK, Throws, Current, PopFrame
  <2>2. polls' \in Nat
    <3>1. Repost(queue) \in Nat
        BY DEF Repost
    <3> QED
        BY <1>11, <3>1 DEF TypeOK, Throws
  <2>3. work' \in BOOLEAN /\ stopped' \in BOOLEAN /\ failed' \in BOOLEAN
      BY <1>11 DEF TypeOK, Throws, RunnerCatches
  <2> QED
      BY <1>11, <2>1, <2>2, <2>3 DEF TypeOK, Throws, PopFrame
<1>12. CASE UNCHANGED vars
    BY <1>12 DEF TypeOK, vars
<1> QED
    BY <1>1, <1>2, <1>3, <1>4, <1>5, <1>6, <1>7, <1>8, <1>9, <1>10, <1>11, <1>12
    DEF Next, Owner, Handler, JobStep, Leaves

\* Every variable of the scheduler keeps its type: in particular the count of
\* posted polls, decremented by each execution, is never negative.
THEOREM TypeCorrect == Spec => []TypeOK
BY InitType, NextType, PTL DEF Spec

-----------------------------------------------------------------------------
(* No job is stranded in the queue.                                        *)

LEMMA PollLeavesAPoll ==
    ASSUME TypeOK, NoStrandedJob, NEW at \in Calls, Poll(at)
    PROVE  NoStrandedJob'
<1>1. CASE PollNothing(at)
    BY <1>1 DEF PollNothing, NoStrandedJob
<1>2. CASE PollSkipsFrozen(at)
  <2>1. CASE Tail(at.queue) = <<>>
      BY <1>2, <2>1 DEF PollSkipsFrozen, NoStrandedJob
  <2>2. CASE Tail(at.queue) # <<>>
    <3>1. polls' = at.polls + 1 /\ at.polls \in Nat
        BY <1>2, <2>2 DEF PollSkipsFrozen, Repost, Calls
    <3> QED
        BY <3>1 DEF NoStrandedJob
  <2> QED
      BY <2>1, <2>2
<1>3. CASE PollFirstSwitch(at)
  <2>1. polls' = at.polls + 1 /\ at.polls \in Nat
      BY <1>3 DEF PollFirstSwitch, Calls
  <2> QED
      BY <2>1 DEF NoStrandedJob
<1>4. CASE PollResumes(at)
  <2>1. /\ stack' = Append(stack, [job |-> NextJob(at), wake |-> at.wake])
        /\ [job |-> NextJob(at), wake |-> at.wake] \in Frames
      BY <1>4, TailFact DEF PollResumes, NextJob, Calls, Frames
  <2>2. stack' # <<>>
      BY <2>1, AppendFact DEF TypeOK
  <2> QED
      BY <2>2 DEF NoStrandedJob
<1>5. CASE PollCorrupts(at)
    BY <1>5 DEF PollCorrupts, NoStrandedJob
<1> QED
    BY <1>1, <1>2, <1>3, <1>4, <1>5 DEF Poll

LEMMA NextLeavesAPoll == TypeOK /\ NoStrandedJob /\ [Next]_vars => NoStrandedJob'
<1> SUFFICES ASSUME TypeOK, NoStrandedJob, [Next]_vars
             PROVE  NoStrandedJob'
    OBVIOUS
<1>1. ASSUME NEW j \in Jobs, Spawn(j)
      PROVE  NoStrandedJob'
    BY <1>1 DEF TypeOK, NoStrandedJob, Spawn
<1>2. CASE RunBegin
    BY <1>2 DEF TypeOK, NoStrandedJob, RunBegin
<1>3. CASE RunReturn
    BY <1>3 DEF NoStrandedJob, RunReturn
<1>4. CASE Stop
    BY <1>4 DEF NoStrandedJob, Stop
<1>5. CASE ServicePoll
  <2>1. At(queue, frozen, exc, polls - 1, FALSE) \in Calls
      BY <1>5 DEF TypeOK, ServicePoll, At, Calls
  <2> QED
      BY <1>5, <2>1, PollLeavesAPoll DEF ServicePoll
<1>6. ASSUME NEW j \in Jobs, NEW error \in BOOLEAN, Complete(j, error)
      PROVE  NoStrandedJob'
  <2> DEFINE e == IF error THEN exc \cup {j} ELSE exc
  <2>1. e \in SUBSET Jobs
      BY DEF TypeOK
  <2>2. Poll(At(Append(queue, j), frozen \ {j}, e, polls, TRUE))
      BY <1>6 DEF Complete, Wakeup
  <2> HIDE DEF e
  <2> QED
      BY <2>1, <2>2, WakeupCall, PollLeavesAPoll
<1>7. ASSUME NEW j \in Jobs, NEW k \in Jobs, WakesUp(j, k)
      PROVE  NoStrandedJob'
  <2>1. exc \in SUBSET Jobs
      BY DEF TypeOK
  <2>2. Poll(At(Append(queue, k), frozen \ {k}, exc, polls, TRUE))
      BY <1>7 DEF WakesUp, Wakeup
  <2> QED
      BY <2>1, <2>2, WakeupCall, PollLeavesAPoll
<1>8. ASSUME NEW j \in Jobs, polls' = polls + Repost(queue')
      PROVE  NoStrandedJob'
    BY <1>8 DEF TypeOK, NoStrandedJob, Repost
<1>9. ASSUME NEW j \in Jobs, Leaves(j)
      PROVE  polls' = polls + Repost(queue')
    BY <1>9 DEF Leaves, Yields, Waits, Returns, Throws, SwitchBack
<1>10. CASE UNCHANGED vars
    BY <1>10 DEF NoStrandedJob, vars
<1> QED
    BY <1>1, <1>2, <1>3, <1>4, <1>5, <1>6, <1>7, <1>8, <1>9, <1>10
    DEF Next, Owner, Handler, JobStep

\* Whatever the jobs do, including spurious wakeups, a job in the queue has a
\* posted _poll that will serve it whenever the io_service is idle: although
\* push() posts a _poll only when the queue is empty and skipped, thrown out of
\* and nested polls return early, no path forgets to post the next one.
THEOREM NoJobIsStranded == Spec => []NoStrandedJob
<1>1. Init => NoStrandedJob
    BY DEF Init, NoStrandedJob
<1> QED
    BY <1>1, TypeCorrect, NextLeavesAPoll, PTL DEF Spec

-----------------------------------------------------------------------------
(* A context is in one place, and is never used once it is deleted. The    *)
(* two facts are inductive together: _poll touches what the queue holds.   *)

Waiting == {"created", "ready", "parked"}

\* OnePlace, for the queue and the frozen contexts of a call of _poll.
PlaceAt(at, j) ==
    /\ j \in ToSet(at.queue) => pc[j] \in Waiting /\ j \notin at.frozen
    /\ j \in at.frozen => pc[j] = "parked"
    /\ pc[j] \in Waiting => j \in ToSet(at.queue) \cup at.frozen
    /\ j \in ToSet(JobsOf(stack)) <=> pc[j] = "active"

OnePlaceAt(at) ==
    /\ Once(at.queue) /\ Once(JobsOf(stack))
    /\ \A j \in Jobs : PlaceAt(at, j)

\* _poll takes a job from the queue and leaves it in one other place.
LEMMA PollPlaces ==
    ASSUME TypeOK, NEW at \in Calls, OnePlaceAt(at), Poll(at), frozen' = at.frozen
    PROVE  /\ Once(queue') /\ Once(JobsOf(stack'))
           /\ \A j \in Jobs : Place(j)'
           /\ corrupt' = corrupt
<1> DEFINE k == NextJob(at)
<1>1. at.queue \in Seq(Jobs)
    BY DEF Calls
<1>2. ASSUME at.queue # <<>>
      PROVE  /\ k \in Jobs /\ k \in ToSet(at.queue)
             /\ Tail(at.queue) \in Seq(Jobs)
             /\ ToSet(at.queue) = ToSet(Tail(at.queue)) \cup {k}
             /\ Once(Tail(at.queue)) /\ k \notin ToSet(Tail(at.queue))
             /\ pc[k] \in Waiting /\ k \notin at.frozen
  <2>1. /\ k \in Jobs /\ Tail(at.queue) \in Seq(Jobs)
        /\ ToSet(at.queue) = ToSet(Tail(at.queue)) \cup {k}
        /\ Once(Tail(at.queue)) /\ k \notin ToSet(Tail(at.queue))
      BY <1>1, <1>2, TailFact DEF OnePlaceAt, NextJob
  <2> QED
      BY <2>1 DEF OnePlaceAt, PlaceAt
<1>3. CASE PollNothing(at)
  <2>1. queue' = at.queue /\ UNCHANGED <<stack, pc, corrupt>>
      BY <1>3 DEF PollNothing
  <2> QED
      BY <2>1 DEF OnePlaceAt, PlaceAt, Place, Waiting
<1>4. CASE PollSkipsFrozen(at)
    BY <1>2, <1>4 DEF PollSkipsFrozen
<1>5. CASE PollFirstSwitch(at)
  <2>1. /\ at.queue # <<>> /\ pc' = [pc EXCEPT ![k] = "ready"]
        /\ queue' = Append(Tail(at.queue), k) /\ UNCHANGED <<stack, corrupt>>
        /\ pc[k] = "created"
      BY <1>5 DEF PollFirstSwitch
  <2>2. Once(queue') /\ ToSet(queue') = ToSet(at.queue)
    <3> HIDE DEF k
    <3> DEFINE t == Tail(at.queue)
    <3>1. k \in Jobs /\ t \in Seq(Jobs)
        BY <1>2, <2>1
    <3>2. Once(t) /\ k \notin ToSet(t)
        BY <1>2, <2>1
    <3>3. queue' = Append(t, k) /\ ToSet(at.queue) = ToSet(t) \cup {k}
        BY <1>2, <2>1
    <3> HIDE DEF t
    <3>4. Once(Append(t, k)) /\ ToSet(Append(t, k)) = ToSet(t) \cup {k}
        BY <3>1, <3>2, AppendFact
    <3> QED
        BY <3>3, <3>4
  <2>3. ASSUME NEW j \in Jobs
        PROVE  Place(j)'
    <3>1. PlaceAt(at, j)
        BY DEF OnePlaceAt
    <3>2. pc'[j] = IF j = k THEN "ready" ELSE pc[j]
        BY <2>1 DEF TypeOK
    <3> HIDE DEF k
    <3> QED
        BY <1>2, <2>1, <2>2, <3>1, <3>2 DEF PlaceAt, Place, Waiting
  <2> QED
      BY <2>1, <2>2, <2>3 DEF OnePlaceAt
<1>6. CASE PollResumes(at)
  <2> DEFINE frame == [job |-> k, wake |-> at.wake]
  <2>1. /\ at.queue # <<>> /\ pc' = [pc EXCEPT ![k] = "active"]
        /\ queue' = Tail(at.queue) /\ stack' = Append(stack, frame)
        /\ pc[k] \in {"ready", "parked"} /\ UNCHANGED corrupt
      BY <1>6 DEF PollResumes
  <2>2. frame \in Frames /\ frame.job = k
      BY <1>2, <2>1 DEF Frames, Calls
  <2>3. k \notin ToSet(JobsOf(stack))
      BY <1>2, <2>1 DEF OnePlaceAt, PlaceAt
  <2>4. /\ JobsOf(stack) \in Seq(Jobs)
        /\ JobsOf(stack') = Append(JobsOf(stack), k)
      BY <2>1, <2>2, PushFact DEF TypeOK
  <2>5. /\ Once(JobsOf(stack'))
        /\ ToSet(JobsOf(stack')) = ToSet(JobsOf(stack)) \cup {k}
    <3>1. k \in Jobs /\ Once(JobsOf(stack))
        BY <1>2, <2>1 DEF OnePlaceAt
    <3> HIDE DEF k
    <3>2. /\ Once(Append(JobsOf(stack), k))
          /\ ToSet(Append(JobsOf(stack), k)) = ToSet(JobsOf(stack)) \cup {k}
        BY <2>3, <2>4, <3>1, AppendFact
    <3> QED
        BY <2>4, <3>2
  <2>6. ASSUME NEW j \in Jobs
        PROVE  Place(j)'
    <3>1. PlaceAt(at, j)
        BY DEF OnePlaceAt
    <3>2. pc'[j] = IF j = k THEN "active" ELSE pc[j]
        BY <2>1 DEF TypeOK
    <3>3. ToSet(at.queue) = ToSet(queue') \cup {k} /\ k \notin ToSet(queue') /\ k \notin at.frozen
        BY <1>2, <2>1
    <3> HIDE DEF k
    <3> QED
        BY <2>5, <3>1, <3>2, <3>3 DEF PlaceAt, Place, Waiting
  <2> QED
      BY <1>2, <2>1, <2>5, <2>6
<1>7. CASE PollCorrupts(at)
    BY <1>2, <1>7 DEF PollCorrupts, Waiting
<1> QED
    BY <1>3, <1>4, <1>5, <1>6, <1>7 DEF Poll

\* wakeup() of a frozen context moves it to the queue.
LEMMA WakeupPlaces ==
    ASSUME TypeOK, OnePlace, ~spurious, NEW k \in frozen,
           NEW e \in SUBSET Jobs, Wakeup(k, e)
    PROVE  /\ Once(queue') /\ Once(JobsOf(stack'))
           /\ \A j \in Jobs : Place(j)'
           /\ corrupt' = corrupt
<1> DEFINE at == At(Append(queue, k), frozen \ {k}, e, polls, TRUE)
<1>1. k \in Jobs /\ at \in Calls
    BY WakeupCall DEF TypeOK
<1>2. k \notin ToSet(queue)
    BY <1>1 DEF OnePlace, Place
<1>3. Once(Append(queue, k)) /\ ToSet(Append(queue, k)) = ToSet(queue) \cup {k}
    BY <1>1, <1>2, AppendFact DEF TypeOK, OnePlace
<1>4. ASSUME NEW j \in Jobs
      PROVE  PlaceAt(at, j)
    BY <1>1, <1>2, <1>3 DEF OnePlace, Place, PlaceAt, At, Waiting
<1>5. OnePlaceAt(at)
    BY <1>3, <1>4 DEF OnePlaceAt, OnePlace, At
<1>6. Poll(at) /\ frozen' = at.frozen
    BY DEF Wakeup, At
<1> HIDE DEF at
<1> QED
    BY <1>1, <1>5, <1>6, PollPlaces

\* The current job leaves the stack, to the queue, to _frozen or to be deleted.
LEMMA LeavePlaces ==
    ASSUME TypeOK, OnePlace, ~spurious, NEW j \in Jobs, Current(j), PopFrame,
           NEW state \in {"parked", "deleted"}, pc' = [pc EXCEPT ![j] = state],
           \/ queue' = Append(queue, j) /\ frozen' = frozen /\ state = "parked"
           \/ queue' = queue /\ frozen' = frozen \cup {j} /\ state = "parked"
           \/ queue' = queue /\ frozen' = frozen /\ state = "deleted"
    PROVE  Once(queue') /\ Once(JobsOf(stack')) /\ \A i \in Jobs : Place(i)'
<1>1. /\ stack' \in Seq(Frames) /\ Top \in Frames /\ Top.job = j
      /\ stack = Append(stack', Top)
    BY PopFact DEF TypeOK, Current, PopFrame, Top
<1>2. /\ JobsOf(stack') \in Seq(Jobs)
      /\ JobsOf(stack) = Append(JobsOf(stack'), j)
    BY <1>1, PushFact
<1>3. /\ Once(JobsOf(stack')) /\ j \notin ToSet(JobsOf(stack'))
      /\ ToSet(JobsOf(stack)) = ToSet(JobsOf(stack')) \cup {j}
  <2>1. ToSet(JobsOf(stack)) = ToSet(JobsOf(stack')) \cup {j}
      BY <1>2, AppendFact
  <2> DEFINE s == JobsOf(stack')
  <2>2. /\ Len(JobsOf(stack)) = Len(s) + 1 /\ Len(s) \in Nat
        /\ \A i \in 1..Len(s) : JobsOf(stack)[i] = s[i]
        /\ JobsOf(stack)[Len(s) + 1] = j
        /\ DOMAIN s = 1..Len(s)
      BY <1>2
  <2>3. Once(JobsOf(stack))
      BY DEF OnePlace
  <2> HIDE DEF s
  <2>4. Once(s)
      BY <2>2, <2>3 DEF Once
  <2>5. j \notin ToSet(s)
      BY <2>2, <2>3 DEF Once, ToSet
  <2> QED
      BY <2>1, <2>4, <2>5 DEF s
<1>4. pc[j] = "active" /\ j \notin ToSet(queue) /\ j \notin frozen
    BY <1>3 DEF OnePlace, Place
<1>6. Once(queue')
    BY <1>4, AppendFact DEF TypeOK, OnePlace
<1>7. ASSUME NEW i \in Jobs
      PROVE  Place(i)'
  <2>1. pc'[i] = IF i = j THEN state ELSE pc[i]
      BY DEF TypeOK
  <2>2. Place(i)
      BY DEF OnePlace
  <2>3. CASE queue' = Append(queue, j) /\ frozen' = frozen /\ state = "parked"
    <3>1. ToSet(queue') = ToSet(queue) \cup {j}
        BY <2>3, AppendFact DEF TypeOK
    <3> QED
        BY <1>3, <1>4, <2>1, <2>2, <2>3, <3>1 DEF Place
  <2>4. CASE queue' = queue /\ frozen' = frozen \cup {j} /\ state = "parked"
      BY <1>3, <1>4, <2>1, <2>2, <2>4 DEF Place
  <2>5. CASE queue' = queue /\ frozen' = frozen /\ state = "deleted"
      BY <1>3, <1>4, <2>1, <2>2, <2>5 DEF Place
  <2> QED
      BY <2>3, <2>4, <2>5
<1> QED
    BY <1>3, <1>6, <1>7

LEMMA NextPlaces ==
    ASSUME TypeOK, OnePlace, NoUseAfterFree, [Next]_vars
    PROVE  OnePlace' /\ NoUseAfterFree'
<1> SUFFICES ASSUME ~spurious'
             PROVE  /\ Once(queue') /\ Once(JobsOf(stack'))
                    /\ pending' \subseteq frozen'
                    /\ \A j \in Jobs : Place(j)'
                    /\ ~corrupt'
    BY DEF OnePlace, NoUseAfterFree
<1>0. ~spurious
    BY DEF Next, Owner, Handler, JobStep, Leaves, Spawn, RunBegin, RunReturn, Stop,
           ServicePoll, Complete, WakesUp, Yields, Waits, Returns, Throws, vars, TypeOK
<1>1. /\ Once(queue) /\ Once(JobsOf(stack)) /\ pending \subseteq frozen
      /\ \A j \in Jobs : Place(j)
      /\ ~corrupt
    BY <1>0 DEF OnePlace, NoUseAfterFree
<1>2. ASSUME NEW j \in Jobs, Spawn(j)
      PROVE  /\ Once(queue') /\ Once(JobsOf(stack'))
             /\ pending' \subseteq frozen'
             /\ \A i \in Jobs : Place(i)'
             /\ ~corrupt'
  <2>1. /\ pc[j] = "unborn" /\ queue' = Append(queue, j)
        /\ pc' = [pc EXCEPT ![j] = "created"]
        /\ UNCHANGED <<frozen, stack, pending, corrupt>>
      BY <1>2 DEF Spawn
  <2>2. j \notin ToSet(queue)
      BY <1>1, <2>1 DEF Place
  <2>3. /\ Once(Append(queue, j))
        /\ ToSet(Append(queue, j)) = ToSet(queue) \cup {j}
      BY <1>1, <2>2, AppendFact DEF TypeOK
  <2>4. ASSUME NEW i \in Jobs
        PROVE  Place(i)'
    <3>1. pc'[i] = IF i = j THEN "created" ELSE pc[i]
        BY <2>1 DEF TypeOK
    <3>2. Place(i)
        BY <1>1
    <3> QED
        BY <2>1, <2>3, <3>1, <3>2 DEF Place
  <2> QED
      BY <1>1, <2>1, <2>3, <2>4
<1>3. ASSUME UNCHANGED <<queue, frozen, stack, pc, pending, corrupt>>
      PROVE  /\ Once(queue') /\ Once(JobsOf(stack'))
             /\ pending' \subseteq frozen'
             /\ \A j \in Jobs : Place(j)'
             /\ ~corrupt'
    BY <1>1, <1>3 DEF Place
<1>4. CASE ServicePoll
  <2> DEFINE at == At(queue, frozen, exc, polls - 1, FALSE)
  <2>1. at \in Calls
      BY <1>4 DEF TypeOK, ServicePoll, At, Calls
  <2>2. OnePlaceAt(at)
      BY <1>1 DEF OnePlaceAt, PlaceAt, Place, At, Waiting
  <2>3. Poll(at) /\ frozen' = at.frozen /\ UNCHANGED <<frozen, pending>>
      BY <1>4 DEF ServicePoll, At
  <2> HIDE DEF at
  <2>4. /\ Once(queue') /\ Once(JobsOf(stack'))
        /\ \A j \in Jobs : Place(j)'
        /\ corrupt' = corrupt
      BY <2>1, <2>2, <2>3, PollPlaces
  <2> QED
      BY <1>1, <2>3, <2>4
<1>5. ASSUME NEW j \in Jobs, NEW error \in BOOLEAN, Complete(j, error)
      PROVE  /\ Once(queue') /\ Once(JobsOf(stack'))
             /\ pending' \subseteq frozen'
             /\ \A i \in Jobs : Place(i)'
             /\ ~corrupt'
  <2> DEFINE e == IF error THEN exc \cup {j} ELSE exc
  <2>1. e \in SUBSET Jobs /\ j \in frozen
      BY <1>1, <1>5 DEF TypeOK, Complete
  <2>2. Wakeup(j, e) /\ pending' = pending \ {j} /\ frozen' = frozen \ {j}
      BY <1>5 DEF Complete, Wakeup
  <2> HIDE DEF e
  <2>3. /\ Once(queue') /\ Once(JobsOf(stack'))
        /\ \A i \in Jobs : Place(i)'
        /\ corrupt' = corrupt
      BY <1>0, <2>1, <2>2, WakeupPlaces
  <2> QED
      BY <1>1, <2>2, <2>3
<1>6. ASSUME NEW j \in Jobs, NEW k \in Jobs, WakesUp(j, k)
      PROVE  /\ Once(queue') /\ Once(JobsOf(stack'))
             /\ pending' \subseteq frozen'
             /\ \A i \in Jobs : Place(i)'
             /\ ~corrupt'
  <2>1. /\ k \in frozen /\ k \notin pending /\ Wakeup(k, exc)
        /\ pending' = pending /\ frozen' = frozen \ {k}
      BY <1>6 DEF WakesUp, Wakeup
  <2>2. exc \in SUBSET Jobs
      BY DEF TypeOK
  <2>3. /\ Once(queue') /\ Once(JobsOf(stack'))
        /\ \A i \in Jobs : Place(i)'
        /\ corrupt' = corrupt
      BY <1>0, <2>1, <2>2, WakeupPlaces
  <2> QED
      BY <1>1, <2>1, <2>3
<1>7. ASSUME NEW j \in Jobs, Leaves(j)
      PROVE  /\ Once(queue') /\ Once(JobsOf(stack'))
             /\ pending' \subseteq frozen'
             /\ \A i \in Jobs : Place(i)'
             /\ ~corrupt'
  <2>1. /\ Current(j) /\ PopFrame /\ corrupt' = corrupt
        /\ frozen \subseteq frozen'
        /\ pending' \subseteq pending \cup (frozen' \cap {j})
      BY <1>7 DEF Leaves, Yields, Waits, Returns, Throws, SwitchBack
  <2>2. j \notin frozen
    <3>1. stack # <<>> /\ Top.job = j
        BY <2>1 DEF Current
    <3>2. JobsOf(stack)[Len(stack)] = j /\ Len(stack) \in DOMAIN JobsOf(stack)
        BY <3>1, EmptySeq DEF TypeOK, JobsOf, Top
    <3>3. pc[j] = "active"
        BY <1>1, <3>2 DEF Place, ToSet
    <3> QED
        BY <1>1, <3>3 DEF Place
  <2>3. CASE Yields(j)
    <3>1. /\ queue' = Append(queue, j) /\ frozen' = frozen
          /\ pc' = [pc EXCEPT ![j] = "parked"]
        BY <2>2, <2>3 DEF Yields, SwitchBack, QueueAfter
    <3> QED
        BY <1>0, <1>1, <2>1, <3>1, LeavePlaces
  <2>4. ASSUME NEW own \in BOOLEAN, Waits(j, own)
        PROVE  /\ Once(queue') /\ Once(JobsOf(stack'))
               /\ \A i \in Jobs : Place(i)'
    <3>1. /\ queue' = queue /\ frozen' = frozen \cup {j}
          /\ pc' = [pc EXCEPT ![j] = "parked"]
        BY <2>4 DEF Waits, SwitchBack, QueueAfter
    <3> QED
        BY <1>0, <2>1, <3>1, LeavePlaces
  <2>5. CASE Returns(j)
    <3>1. /\ queue' = queue /\ frozen' = frozen
          /\ pc' = [pc EXCEPT ![j] = "deleted"]
        BY <2>5 DEF Returns, SwitchBack, QueueAfter
    <3> QED
        BY <1>0, <1>1, <2>1, <3>1, LeavePlaces
  <2>6. CASE Throws(j)
    <3>1. /\ queue' = queue /\ frozen' = frozen
          /\ pc' = [pc EXCEPT ![j] = "deleted"]
        BY <2>6 DEF Throws
    <3> QED
        BY <1>0, <1>1, <2>1, <3>1, LeavePlaces
  <2>7. pending' \subseteq frozen' /\ ~corrupt'
      BY <1>1, <2>1
  <2> QED
      BY <1>7, <2>3, <2>4, <2>5, <2>6, <2>7 DEF Leaves
<1>8. CASE RunBegin \/ RunReturn \/ Stop \/ UNCHANGED vars
    BY <1>3, <1>8 DEF RunBegin, RunReturn, Stop, vars
<1> QED
    BY <1>2, <1>4, <1>5, <1>6, <1>7, <1>8 DEF Next, Owner, Handler, JobStep

LEMMA OnePlaceInductive == Spec => [](OnePlace /\ NoUseAfterFree)
<1>1. Init => OnePlace /\ NoUseAfterFree
  <2> SUFFICES ASSUME Init
               PROVE  OnePlace /\ NoUseAfterFree
      OBVIOUS
  <2>1. /\ queue = <<>> /\ stack = <<>> /\ frozen = {} /\ pending = {} /\ ~corrupt
        /\ pc = [j \in Jobs |-> "unborn"]
      BY DEF Init
  <2>2. JobsOf(stack) = <<>>
      BY <2>1 DEF JobsOf
  <2>3. Once(queue) /\ Once(JobsOf(stack))
      BY <2>1, <2>2 DEF Once
  <2>4. ToSet(queue) = {} /\ ToSet(JobsOf(stack)) = {}
      BY <2>1, <2>2 DEF ToSet
  <2>5. ASSUME NEW j \in Jobs
        PROVE  Place(j)
      BY <2>1, <2>4 DEF Place
  <2> QED
      BY <2>1, <2>3, <2>5 DEF OnePlace, NoUseAfterFree
<1>2. TypeOK /\ (OnePlace /\ NoUseAfterFree) /\ [Next]_vars
        => (OnePlace /\ NoUseAfterFree)'
    BY NextPlaces
<1> QED
    BY <1>1, <1>2, TypeCorrect, PTL DEF Spec

\* When wakeup() is only called for frozen contexts, every context is in one
\* place, through nested polls, exceptions and stopped runs.
THEOREM EveryJobInOnePlace == Spec => []OnePlace
BY OnePlaceInductive, PTL

\* Under the same condition _poll never runs a context that was deleted or that
\* is already running.
THEOREM NoContextUsedAfterFree == Spec => []NoUseAfterFree
BY OnePlaceInductive, PTL

-----------------------------------------------------------------------------
(* What holds even when wakeup() is called for jobs that do not sleep: the  *)
(* stack holds the active jobs, sleepers are parked, a failed run ends.     *)

StackIsActive ==
    /\ Once(JobsOf(stack))
    /\ \A j \in Jobs : j \in ToSet(JobsOf(stack)) <=> pc[j] = "active"
    /\ \A j \in frozen : pc[j] = "parked"

RunIsKnown ==
    /\ stack # <<>> => running /\ ~failed
    /\ failed => running /\ stopped

\* The work object is held while somebody is frozen, and otherwise only until a
\* poll that wakeup() called is over.
WorkIsAccounted ==
    ~interrupted /\ ~spurious =>
        /\ frozen # {} => work
        /\ work /\ frozen = {} => \E i \in 1..Len(stack) : stack[i].wake

\* A call of _poll, by the io_service or by wakeup(k).
Called(at) ==
    \/ Idle /\ at = At(queue, frozen, exc, polls - 1, FALSE) /\ UNCHANGED spurious
    \/ \E k \in Jobs : \E e \in SUBSET (exc \cup {k}) :
          /\ at = At(Append(queue, k), frozen \ {k}, e, polls, TRUE)
          /\ k \in frozen \/ k \in pending \/ spurious'
          /\ (spurious => spurious')
          /\ Idle \/ stack # <<>>

PollStep(at) ==
    /\ Called(at)
    /\ Poll(at)
    /\ frozen' = at.frozen
    /\ UNCHANGED <<running, stopped, failed, runs, interrupted>>

\* Every step of the scheduler is one of the owner's, a call of _poll, or the
\* current job's leaving.
LEMMA StepForms ==
    ASSUME TypeOK, Next
    PROVE  \/ \E j \in Jobs : Spawn(j) \/ Leaves(j)
           \/ RunBegin \/ RunReturn \/ Stop
           \/ \E at \in Calls : PollStep(at)
<1>1. CASE ServicePoll
  <2> DEFINE at == At(queue, frozen, exc, polls - 1, FALSE)
  <2>1. at \in Calls
      BY <1>1 DEF TypeOK, ServicePoll, At, Calls
  <2>2. PollStep(at)
      BY <1>1 DEF PollStep, Called, ServicePoll, At
  <2> QED
      BY <2>1, <2>2
<1>2. ASSUME NEW j \in Jobs, NEW error \in BOOLEAN, Complete(j, error)
      PROVE  \E at \in Calls : PollStep(at)
  <2> DEFINE e  == IF error THEN exc \cup {j} ELSE exc
             at == At(Append(queue, j), frozen \ {j}, e, polls, TRUE)
  <2>1. e \in SUBSET Jobs /\ e \in SUBSET (exc \cup {j})
      BY DEF TypeOK
  <2>2. /\ Idle /\ j \in pending /\ frozen' = frozen \ {j}
        /\ Poll(At(Append(queue, j), frozen \ {j}, e, polls, TRUE))
        /\ UNCHANGED <<running, stopped, failed, runs, interrupted, spurious>>
      BY <1>2 DEF Complete, Wakeup
  <2> HIDE DEF e
  <2>3. at \in Calls
      BY <2>1, WakeupCall
  <2>4. Called(at)
      BY <2>1, <2>2 DEF Called
  <2>5. at.frozen = frozen \ {j}
      BY DEF At
  <2>6. PollStep(at)
      BY <2>2, <2>4, <2>5 DEF PollStep
  <2> QED
      BY <2>3, <2>6
<1>3. ASSUME NEW j \in Jobs, NEW k \in Jobs, WakesUp(j, k)
      PROVE  \E at \in Calls : PollStep(at)
  <2> DEFINE at == At(Append(queue, k), frozen \ {k}, exc, polls, TRUE)
  <2>1. /\ stack # <<>> /\ spurious' = (spurious \/ k \notin frozen)
        /\ frozen' = frozen \ {k}
        /\ Poll(At(Append(queue, k), frozen \ {k}, exc, polls, TRUE))
        /\ UNCHANGED <<running, stopped, failed, runs, interrupted>>
      BY <1>3 DEF WakesUp, Wakeup, Current
  <2>2. exc \in SUBSET Jobs /\ exc \in SUBSET (exc \cup {k})
      BY DEF TypeOK
  <2>3. at \in Calls
      BY <2>2, WakeupCall
  <2>4. Called(at)
      BY <2>1, <2>2 DEF Called
  <2>5. at.frozen = frozen \ {k}
      BY DEF At
  <2>6. PollStep(at)
      BY <2>1, <2>4, <2>5 DEF PollStep
  <2> QED
      BY <2>3, <2>6
<1> QED
    BY <1>1, <1>2, <1>3 DEF Next, Owner, Handler, JobStep

\* What a call of _poll does to the contexts and the stack.
LEMMA PollForms ==
    ASSUME TypeOK, NEW at \in Calls, PollStep(at)
    PROVE  \/ UNCHANGED <<pc, stack>>
           \/ \E k \in Jobs : /\ pc[k] = "created" /\ pc' = [pc EXCEPT ![k] = "ready"]
                              /\ k \notin frozen' /\ UNCHANGED stack
           \/ \E k \in Jobs : /\ pc[k] \in {"ready", "parked"} /\ k \notin frozen'
                              /\ pc' = [pc EXCEPT ![k] = "active"]
                              /\ stack' = Append(stack, [job |-> k, wake |-> at.wake])
<1>1. Poll(at) /\ frozen' = at.frozen
    BY DEF PollStep
<1>2. at.queue # <<>> => NextJob(at) \in Jobs
    BY TailFact DEF Calls, NextJob
<1> QED
    BY <1>1, <1>2 DEF Poll, PollNothing, PollSkipsFrozen, PollFirstSwitch, PollResumes, PollCorrupts

\* What the current job's leaving does to the contexts and the stack.
LEMMA LeaveForms ==
    ASSUME TypeOK, NEW j \in Jobs, Leaves(j)
    PROVE  /\ stack # <<>> /\ stack' \in Seq(Frames)
           /\ Top \in Frames /\ Top.job = j /\ stack = Append(stack', Top)
           /\ UNCHANGED <<running, corrupt, spurious, exc>> /\ sched' = FALSE
           /\ \/ /\ pc' = [pc EXCEPT ![j] = "parked"]
                 /\ \/ frozen' = frozen /\ queue' = QueueAfter(j, frozen, TRUE)
                    \/ frozen' = frozen \cup {j} /\ queue' = queue
              \/ /\ pc' = [pc EXCEPT ![j] = "deleted"]
                 /\ frozen' = frozen /\ queue' = queue
<1>1. Current(j) /\ PopFrame
    BY DEF Leaves, Yields, Waits, Returns, Throws, SwitchBack
<1>2. /\ stack # <<>> /\ stack' \in Seq(Frames)
      /\ Top \in Frames /\ Top.job = j /\ stack = Append(stack', Top)
    BY <1>1, PopFact DEF TypeOK, Current, PopFrame, Top
<1>3. UNCHANGED <<running, corrupt, spurious, exc>> /\ sched' = FALSE
    BY <1>1 DEF Leaves, Yields, Waits, Returns, Throws, PopFrame
<1>4. CASE Yields(j)
    BY <1>2, <1>3, <1>4 DEF Yields, SwitchBack
<1>5. ASSUME NEW own \in BOOLEAN, Waits(j, own)
      PROVE  /\ pc' = [pc EXCEPT ![j] = "parked"]
             /\ frozen' = frozen \cup {j} /\ queue' = queue
    BY <1>5 DEF Waits, SwitchBack, QueueAfter
<1>6. CASE Returns(j)
    BY <1>2, <1>3, <1>6 DEF Returns, SwitchBack, QueueAfter
<1>7. CASE Throws(j)
    BY <1>2, <1>3, <1>7 DEF Throws
<1> QED
    BY <1>2, <1>3, <1>4, <1>5, <1>6, <1>7 DEF Leaves

LEMMA StackStep == TypeOK /\ StackIsActive /\ [Next]_vars => StackIsActive'
<1> SUFFICES ASSUME TypeOK, StackIsActive, [Next]_vars
             PROVE  StackIsActive'
    OBVIOUS
<1>0. JobsOf(stack) \in Seq(Jobs)
  <2>1. \A i \in 1..Len(stack) : stack[i] \in Frames
      BY DEF TypeOK
  <2> QED
      BY <2>1 DEF TypeOK, JobsOf, Frames
<1>1. ASSUME NEW j \in Jobs, Spawn(j)
      PROVE  StackIsActive'
    BY <1>1 DEF Spawn, StackIsActive, TypeOK
<1>2. CASE RunBegin \/ RunReturn \/ Stop \/ UNCHANGED vars
    BY <1>2 DEF RunBegin, RunReturn, Stop, vars, StackIsActive
<1>3. ASSUME NEW at \in Calls, PollStep(at)
      PROVE  StackIsActive'
  <2>1. frozen' \subseteq frozen
      BY <1>3 DEF PollStep, Called, At
  <2>2. CASE UNCHANGED <<pc, stack>>
      BY <2>1, <2>2 DEF StackIsActive
  <2>3. ASSUME NEW k \in Jobs, pc[k] = "created", pc' = [pc EXCEPT ![k] = "ready"], UNCHANGED stack
        PROVE  StackIsActive'
      BY <2>1, <2>3 DEF StackIsActive, TypeOK
  <2>4. ASSUME NEW k \in Jobs, pc[k] \in {"ready", "parked"}, k \notin frozen',
               pc' = [pc EXCEPT ![k] = "active"],
               stack' = Append(stack, [job |-> k, wake |-> at.wake])
        PROVE  StackIsActive'
    <3>1. JobsOf(stack') = Append(JobsOf(stack), k)
        BY <2>4, PushFact DEF TypeOK, Frames, Calls
    <3>2. k \notin ToSet(JobsOf(stack)) /\ Once(JobsOf(stack))
        BY <2>4 DEF StackIsActive
    <3>3. /\ Once(JobsOf(stack'))
          /\ ToSet(JobsOf(stack')) = ToSet(JobsOf(stack)) \cup {k}
        BY <1>0, <3>1, <3>2, AppendFact
    <3> QED
        BY <2>1, <2>4, <3>3 DEF StackIsActive, TypeOK
  <2> QED
      BY <1>3, <2>2, <2>3, <2>4, PollForms
<1>4. ASSUME NEW j \in Jobs, Leaves(j)
      PROVE  StackIsActive'
  <2>1. /\ stack' \in Seq(Frames) /\ Top \in Frames /\ Top.job = j /\ stack = Append(stack', Top)
        /\ \/ pc' = [pc EXCEPT ![j] = "parked"] /\ frozen' \subseteq frozen \cup {j}
           \/ pc' = [pc EXCEPT ![j] = "deleted"] /\ frozen' = frozen
      BY <1>4, LeaveForms
  <2>2. /\ JobsOf(stack') \in Seq(Jobs)
        /\ JobsOf(stack) = Append(JobsOf(stack'), j)
      BY <2>1, PushFact
  <2> DEFINE s == JobsOf(stack')
             t == JobsOf(stack)
  <2>3. /\ Len(t) = Len(s) + 1 /\ Len(s) \in Nat /\ t[Len(s) + 1] = j
        /\ \A i \in 1..Len(s) : t[i] = s[i]
        /\ DOMAIN s = 1..Len(s)
      BY <2>2
  <2>4. ToSet(t) = ToSet(s) \cup {j}
      BY <2>2, AppendFact
  <2>5. Once(t) /\ (\A i \in Jobs : i \in ToSet(t) <=> pc[i] = "active") /\ \A i \in frozen : pc[i] = "parked"
      BY DEF StackIsActive
  <2> HIDE DEF s, t
  <2>6. Once(s) /\ j \notin ToSet(s)
      BY <2>3, <2>5 DEF Once, ToSet
  <2>7. pc[j] = "active" /\ j \notin frozen
      BY <2>4, <2>5
  <2>8. \A i \in Jobs : i \in ToSet(s) <=> pc'[i] = "active"
      BY <2>1, <2>4, <2>5, <2>6 DEF TypeOK
  <2>9. \A i \in frozen' : pc'[i] = "parked"
      BY <2>1, <2>5, <2>7 DEF TypeOK
  <2> QED
      BY <2>6, <2>8, <2>9 DEF StackIsActive, s
<1> QED
    BY <1>1, <1>2, <1>3, <1>4, StepForms

LEMMA StackInvariant == Spec => [](TypeOK /\ StackIsActive)
<1>1. Init => StackIsActive
  <2> SUFFICES ASSUME Init
               PROVE  StackIsActive
      OBVIOUS
  <2>1. JobsOf(stack) = <<>>
      BY DEF Init, JobsOf
  <2> QED
      BY <2>1 DEF Init, StackIsActive, Once, ToSet
<1> QED
    BY <1>1, TypeCorrect, StackStep, PTL DEF Spec

-----------------------------------------------------------------------------
(* Refinement.                                                              *)

\* Nested polls, first switches and handlers show as at most one step of the
\* lifecycle of the jobs (Scheduler.cpp:60-230): status by status, for any jobs.
THEOREM LifecycleIsImplemented == Spec => ImplementsLifecycle
<1>1. Init => Lifecycle!Init
    BY DEF Init, Lifecycle!Init, Status
<1>2. ASSUME TypeOK, StackIsActive, [Next]_vars
      PROVE  [Lifecycle!Next]_Status
  <2> DEFINE st(i) == CASE pc[i] = "unborn" -> "unborn"
                        [] pc[i] = "deleted" -> "gone"
                        [] pc[i] = "active" -> "active"
                        [] OTHER -> IF i \in frozen THEN "asleep" ELSE "runnable"
  <2>1. /\ Status = [i \in Jobs |-> st(i)] /\ Status' = [i \in Jobs |-> st(i)']
        /\ pc \in [Jobs -> {"unborn", "created", "ready", "active", "parked", "deleted"}]
        /\ \A i \in frozen : pc[i] = "parked"
      BY <1>2 DEF Status, TypeOK, StackIsActive
  <2>2. ASSUME NEW j \in Jobs, Spawn(j)
        PROVE  Lifecycle!Submit(j)
    <3>1. pc[j] = "unborn" /\ pc' = [pc EXCEPT ![j] = "created"] /\ frozen' = frozen
        BY <2>2 DEF Spawn
    <3>2. Status' = [Status EXCEPT ![j] = "runnable"]
        BY <2>1, <3>1
    <3> QED
        BY <2>1, <3>1, <3>2 DEF Lifecycle!Submit
  <2>3. CASE RunBegin \/ RunReturn \/ Stop \/ UNCHANGED vars
      BY <2>3 DEF RunBegin, RunReturn, Stop, vars, Status
  <2>4. ASSUME NEW j \in Jobs, Leaves(j)
        PROVE  \E to \in {"runnable", "asleep", "gone"} : Lifecycle!Leave(j, to)
    <3>1. pc[j] = "active" /\ j \notin frozen
      <4>1. stack # <<>> /\ Top.job = j
          BY <1>2, <2>4, LeaveForms
      <4>2. JobsOf(stack)[Len(stack)] = j /\ Len(stack) \in DOMAIN JobsOf(stack)
          BY <1>2, <4>1, EmptySeq DEF TypeOK, JobsOf, Top
      <4> QED
          BY <1>2, <4>2 DEF StackIsActive, ToSet
    <3>2. CASE pc' = [pc EXCEPT ![j] = "parked"] /\ frozen' = frozen
      <4>1. Status' = [Status EXCEPT ![j] = "runnable"]
          BY <2>1, <3>1, <3>2
      <4> QED
          BY <2>1, <3>1, <4>1 DEF Lifecycle!Leave
    <3>3. CASE pc' = [pc EXCEPT ![j] = "parked"] /\ frozen' = frozen \cup {j}
      <4>1. Status' = [Status EXCEPT ![j] = "asleep"]
          BY <2>1, <3>1, <3>3
      <4> QED
          BY <2>1, <3>1, <4>1 DEF Lifecycle!Leave
    <3>4. CASE pc' = [pc EXCEPT ![j] = "deleted"] /\ frozen' = frozen
      <4>1. Status' = [Status EXCEPT ![j] = "gone"]
          BY <2>1, <3>1, <3>4
      <4> QED
          BY <2>1, <3>1, <4>1 DEF Lifecycle!Leave
    <3> QED
        BY <1>2, <2>4, <3>2, <3>3, <3>4, LeaveForms
  <2>5. ASSUME NEW at \in Calls, PollStep(at)
        PROVE  \/ UNCHANGED Status
               \/ \E j \in Jobs : \/ Lifecycle!Awaken(j) \/ Lifecycle!Dispatch(j)
                                  \/ \E k \in Jobs : Lifecycle!AwakenAndDispatch(j, k)
    <3>1. frozen' = frozen \/ \E j \in frozen \cap Jobs : frozen' = frozen \ {j}
      <4>1. frozen' = frozen \/ \E k \in Jobs : frozen' = frozen \ {k}
          BY <2>5 DEF PollStep, Called, At
      <4>2. ASSUME NEW k \in Jobs, k \notin frozen
            PROVE  frozen \ {k} = frozen
          BY <4>2
      <4> QED
          BY <4>1, <4>2
    <3>2. CASE UNCHANGED <<pc, stack>> \/ \E k \in Jobs : pc[k] = "created" /\ pc' = [pc EXCEPT ![k] = "ready"]
      <4>1. \A i \in Jobs : st(i)' = IF i \in frozen \ frozen' THEN "runnable" ELSE st(i)
          BY <2>1, <3>1, <3>2
      <4>2. CASE frozen' = frozen
          BY <2>1, <4>1, <4>2
      <4>3. ASSUME NEW j \in frozen \cap Jobs, frozen' = frozen \ {j}
            PROVE  Lifecycle!Awaken(j)
        <5>1. Status' = [Status EXCEPT ![j] = "runnable"]
            BY <2>1, <4>1, <4>3
        <5> QED
            BY <2>1, <4>3, <5>1 DEF Lifecycle!Awaken
      <4> QED
          BY <3>1, <4>2, <4>3
    <3>3. ASSUME NEW k \in Jobs, pc[k] \in {"ready", "parked"}, k \notin frozen',
                 pc' = [pc EXCEPT ![k] = "active"]
          PROVE  \E j \in Jobs : Lifecycle!Dispatch(j)
                                  \/ Lifecycle!AwakenAndDispatch(j, k)
      <4>1. \A i \in Jobs : st(i)' = IF i = k THEN "active"
                                     ELSE IF i \in frozen \ frozen' THEN "runnable" ELSE st(i)
          BY <2>1, <3>1, <3>3
      <4>2. CASE frozen' = frozen
        <5>1. Status' = [Status EXCEPT ![k] = "active"]
            BY <2>1, <4>1, <4>2
        <5>2. Status[k] = "runnable"
            BY <2>1, <3>3, <4>2
        <5> QED
            BY <5>1, <5>2 DEF Lifecycle!Dispatch
      <4>3. ASSUME NEW j \in frozen \cap Jobs, frozen' = frozen \ {j}
            PROVE  Lifecycle!AwakenAndDispatch(j, k)
        <5>1. Status' = [Status EXCEPT ![j] = "runnable", ![k] = "active"]
            BY <2>1, <4>1, <4>3
        <5>2. k = j \/ Status[k] = "runnable"
            BY <2>1, <3>3, <4>3
        <5>3. Status[j] = "asleep"
            BY <2>1, <4>3
        <5> QED
            BY <5>1, <5>2, <5>3 DEF Lifecycle!AwakenAndDispatch
      <4> QED
          BY <3>1, <4>2, <4>3
    <3> QED
        BY <1>2, <2>5, <3>2, <3>3, PollForms
  <2> QED
      BY <1>2, <2>2, <2>3, <2>4, <2>5, StepForms DEF Lifecycle!Next
<1>3. TypeOK /\ StackIsActive /\ [Next]_vars => [Lifecycle!Next]_Status
    BY <1>2
<1> QED
    BY <1>1, <1>3, StackInvariant, PTL DEF Spec, ImplementsLifecycle, Lifecycle!Spec

-----------------------------------------------------------------------------
(* What a handler leaves behind.                                            *)

\* The frames of a stack that loses or gains its top.
LEMMA WakeFrames ==
    ASSUME NEW s \in Seq(Frames), NEW f \in Frames
    PROVE  (\E i \in 1..Len(Append(s, f)) : Append(s, f)[i].wake)
              <=> f.wake \/ \E i \in 1..Len(s) : s[i].wake
<1>1. /\ Len(Append(s, f)) = Len(s) + 1 /\ Append(s, f)[Len(s) + 1] = f
      /\ \A i \in 1..Len(s) : Append(s, f)[i] = s[i]
      /\ Len(s) \in Nat
    OBVIOUS
<1> QED
    BY <1>1

\* What a call of _poll does to the work object.
LEMMA PollWork ==
    ASSUME TypeOK, NEW at \in Calls, PollStep(at), ~corrupt, ~corrupt'
    PROVE  \/ /\ UNCHANGED stack
              /\ work' = WorkAfterPoll(at) /\ sched' \in {sched, FALSE}
           \/ /\ \E k \in Jobs : stack' = Append(stack, [job |-> k, wake |-> at.wake])
              /\ UNCHANGED work
<1>1. Poll(at)
    BY DEF PollStep
<1>2. at.queue # <<>> => NextJob(at) \in Jobs
    BY TailFact DEF Calls, NextJob
<1> QED
    BY <1>1, <1>2 DEF Poll, PollNothing, PollSkipsFrozen, PollFirstSwitch, PollResumes, PollCorrupts

LEMMA SchedStep == TypeOK /\ NoSchedulerOutsideJobs /\ [Next]_vars => NoSchedulerOutsideJobs'
<1> SUFFICES ASSUME TypeOK, NoSchedulerOutsideJobs, [Next]_vars, stack' = <<>>
             PROVE  ~ sched'
    BY DEF NoSchedulerOutsideJobs
<1>1. ASSUME NEW at \in Calls, PollStep(at)
      PROVE  ~ sched'
  <2>1. Poll(at)
      BY <1>1 DEF PollStep
  <2>2. ASSUME PollResumes(at)
        PROVE  FALSE
    <3>1. at.queue # <<>> /\ stack' = Append(stack, [job |-> NextJob(at), wake |-> at.wake])
        BY <2>2 DEF PollResumes
    <3>2. [job |-> NextJob(at), wake |-> at.wake] \in Frames
        BY <3>1, TailFact DEF Calls, NextJob, Frames
    <3>3. stack' # <<>>
        BY <3>1, <3>2, AppendFact DEF TypeOK
    <3> QED
        BY <3>3
  <2> QED
      BY <2>1, <2>2 DEF Poll, PollNothing, PollSkipsFrozen, PollFirstSwitch, PollCorrupts,
                        NoSchedulerOutsideJobs, TypeOK
<1>2. ASSUME NEW j \in Jobs, Leaves(j)
      PROVE  ~ sched'
    BY <1>2, LeaveForms
<1>3. CASE RunBegin \/ RunReturn \/ Stop \/ UNCHANGED vars \/ \E j \in Jobs : Spawn(j)
    BY <1>3 DEF RunBegin, RunReturn, Stop, vars, Spawn, NoSchedulerOutsideJobs
<1> QED
    BY <1>1, <1>2, <1>3, StepForms

LEMMA ErrorsStep ==
    ASSUME TypeOK, OnePlace, ErrorsAreDeliverable, OnePlace', TypeOK', [Next]_vars
    PROVE  ErrorsAreDeliverable'
<1> SUFFICES ASSUME ~ spurious', NEW j \in exc'
             PROVE  pc'[j] = "parked" /\ j \in ToSet(queue')
    BY DEF ErrorsAreDeliverable
<1>0. j \in Jobs
    BY DEF TypeOK
<1>1. ASSUME NEW i \in Jobs, Spawn(i)
      PROVE  pc'[j] = "parked" /\ j \in ToSet(queue')
  <2>1. /\ ~ spurious /\ j \in exc /\ pc[i] = "unborn" /\ pc' = [pc EXCEPT ![i] = "created"]
        /\ queue' = Append(queue, i)
      BY <1>1 DEF Spawn
  <2>2. pc[j] = "parked" /\ j \in ToSet(queue)
      BY <2>1 DEF ErrorsAreDeliverable
  <2> QED
      BY <1>0, <2>1, <2>2, AppendFact DEF TypeOK
<1>2. CASE RunBegin \/ RunReturn \/ Stop \/ UNCHANGED vars
    BY <1>2 DEF RunBegin, RunReturn, Stop, vars, ErrorsAreDeliverable
<1>3. ASSUME NEW i \in Jobs, Leaves(i)
      PROVE  pc'[j] = "parked" /\ j \in ToSet(queue')
  <2>1. ~ spurious /\ j \in exc
      BY <1>3, LeaveForms
  <2>2. pc[j] = "parked" /\ j \in ToSet(queue)
      BY <2>1 DEF ErrorsAreDeliverable
  <2>3. i # j
    <3>1. stack # <<>> /\ Top.job = i
        BY <1>3, LeaveForms
    <3>2. JobsOf(stack)[Len(stack)] = i /\ Len(stack) \in DOMAIN JobsOf(stack)
        BY <3>1, EmptySeq DEF TypeOK, JobsOf, Top
    <3>3. pc[i] = "active"
        BY <2>1, <3>2 DEF OnePlace, Place, ToSet
    <3> QED
        BY <2>2, <3>3
  <2>4. pc'[j] = pc[j]
      BY <1>0, <1>3, <2>3, LeaveForms DEF TypeOK
  <2>5. queue' = queue \/ queue' = Append(queue, i)
      BY <1>3, LeaveForms DEF QueueAfter
  <2>6. ToSet(Append(queue, i)) = ToSet(queue) \cup {i}
      BY AppendFact DEF TypeOK
  <2> QED
      BY <2>2, <2>4, <2>5, <2>6
<1>4. ASSUME NEW at \in Calls, PollStep(at)
      PROVE  pc'[j] = "parked" /\ j \in ToSet(queue')
  <2>1. Poll(at) /\ ~ spurious
    <3>1. spurious => spurious'
        BY <1>4 DEF PollStep, Called
    <3> QED
        BY <1>4, <3>1 DEF PollStep, TypeOK
  <2>2. j \in exc => pc[j] = "parked" /\ j \in ToSet(queue)
      BY <2>1 DEF ErrorsAreDeliverable
  <2>3. ASSUME j \in at.exc
        PROVE  pc[j] = "parked" /\ j \in ToSet(at.queue) /\ j \notin at.frozen
    <3>1. CASE at = At(queue, frozen, exc, polls - 1, FALSE)
        BY <1>0, <2>1, <2>2, <2>3, <3>1 DEF At, OnePlace, Place
    <3>2. ASSUME NEW k \in Jobs, NEW e \in SUBSET (exc \cup {k}), k \in frozen \/ k \in pending,
                 at = At(Append(queue, k), frozen \ {k}, e, polls, TRUE)
          PROVE  pc[j] = "parked" /\ j \in ToSet(at.queue) /\ j \notin at.frozen
      <4>1. k \in frozen /\ pc[k] = "parked"
          BY <2>1, <3>2 DEF OnePlace, Place
      <4>2. at.queue = Append(queue, k) /\ at.frozen = frozen \ {k} /\ (j \in exc \/ j = k)
          BY <2>3, <3>2 DEF At
      <4>3. ToSet(at.queue) = ToSet(queue) \cup {k}
          BY <4>2, AppendFact DEF TypeOK
      <4> QED
          BY <1>0, <2>1, <2>2, <4>1, <4>2, <4>3 DEF OnePlace, Place
    <3> QED
        BY <1>4, <3>1, <3>2 DEF PollStep, Called, TypeOK
  <2> DEFINE k == NextJob(at)
  <2>4. at.queue \in Seq(Jobs) /\ (at.queue = <<>> => ToSet(at.queue) = {})
      BY DEF Calls, ToSet
  <2>5. ASSUME at.queue # <<>>
        PROVE  k \in Jobs /\ Tail(at.queue) \in Seq(Jobs) /\ ToSet(at.queue) = ToSet(Tail(at.queue)) \cup {k}
      BY <2>4, <2>5, TailFact DEF NextJob
  <2>6. CASE PollNothing(at)
      BY <2>3, <2>4, <2>6 DEF PollNothing
  <2>7. CASE PollSkipsFrozen(at)
      BY <2>3, <2>5, <2>7 DEF PollSkipsFrozen
  <2>8. CASE PollFirstSwitch(at)
    <3>1. /\ at.queue # <<>> /\ pc[k] = "created" /\ pc' = [pc EXCEPT ![k] = "ready"]
          /\ queue' = Append(Tail(at.queue), k) /\ exc' = at.exc
        BY <2>8 DEF PollFirstSwitch
    <3>2. j # k /\ pc'[j] = "parked" /\ j \in ToSet(Tail(at.queue))
        BY <1>0, <2>3, <2>5, <3>1 DEF TypeOK
    <3>3. ToSet(queue') = ToSet(Tail(at.queue)) \cup {k}
      <4>1. k \in Jobs /\ Tail(at.queue) \in Seq(Jobs)
          BY <2>5, <3>1
      <4>2. queue' = Append(Tail(at.queue), k)
          BY <3>1
      <4> DEFINE t == Tail(at.queue)
      <4>3. t \in Seq(Jobs) /\ k \in Jobs
          BY <4>1
      <4> HIDE DEF k, t
      <4>4. ToSet(Append(t, k)) = ToSet(t) \cup {k}
          BY <4>3, AppendFact
      <4> USE DEF t
      <4> QED
          BY <4>2, <4>4
    <3> QED
        BY <3>2, <3>3
  <2>9. CASE PollResumes(at)
    <3>1. /\ at.queue # <<>> /\ pc' = [pc EXCEPT ![k] = "active"]
          /\ queue' = Tail(at.queue) /\ exc' = at.exc \ {k}
        BY <2>9 DEF PollResumes, ExcAfterResume
    <3> QED
        BY <1>0, <2>3, <2>5, <3>1 DEF TypeOK
  <2>10. CASE PollCorrupts(at)
      BY <2>2, <2>10 DEF PollCorrupts
  <2> QED
      BY <2>1, <2>6, <2>7, <2>8, <2>9, <2>10 DEF Poll
<1> QED
    BY <1>1, <1>2, <1>3, <1>4, StepForms

LEMMA WorkStep ==
    ASSUME TypeOK, OnePlace, NoUseAfterFree, NoUseAfterFree', WorkIsAccounted, [Next]_vars
    PROVE  WorkIsAccounted'
<1> SUFFICES ASSUME ~ interrupted', ~ spurious'
             PROVE  /\ frozen' # {} => work'
                    /\ work' /\ frozen' = {} => \E i \in 1..Len(stack') : stack'[i].wake
    BY DEF WorkIsAccounted
<1> DEFINE Wakes(s) == \E i \in 1..Len(s) : s[i].wake
<1>1. ASSUME ~ interrupted, ~ spurious
      PROVE  (frozen # {} => work) /\ (work /\ frozen = {} => Wakes(stack))
    BY <1>1 DEF WorkIsAccounted
<1>2. CASE RunBegin \/ RunReturn \/ UNCHANGED vars \/ \E j \in Jobs : Spawn(j)
  <2>1. UNCHANGED <<interrupted, spurious, frozen, work, stack>>
      BY <1>2 DEF RunBegin, RunReturn, vars, Spawn
  <2> QED
      BY <1>1, <2>1
<1>3. ~ Stop
    BY DEF Stop
<1>4. ASSUME NEW j \in Jobs, Leaves(j)
      PROVE  (frozen' # {} => work') /\ (work' /\ frozen' = {} => Wakes(stack'))
  <2>1. /\ stack' \in Seq(Frames) /\ Top \in Frames /\ stack = Append(stack', Top)
        /\ UNCHANGED spurious
      BY <1>4, LeaveForms
  <2>2. PICK w \in BOOLEAN : /\ work' = IF Top.wake THEN w /\ frozen' # {} ELSE w
                             /\ UNCHANGED interrupted
                             /\ (w = work /\ frozen' = frozen) \/ (w /\ frozen' # {})
    <3>1. CASE Yields(j) \/ Returns(j)
      <4>1. /\ work' = IF Top.wake THEN work /\ frozen' # {} ELSE work
            /\ frozen' = frozen /\ UNCHANGED interrupted
          BY <3>1 DEF Yields, Returns, SwitchBack
      <4> QED
          BY <4>1 DEF TypeOK
    <3>2. ASSUME NEW own \in BOOLEAN, Waits(j, own)
          PROVE  /\ work' = IF Top.wake THEN TRUE /\ frozen' # {} ELSE TRUE
                 /\ frozen' # {} /\ UNCHANGED interrupted
      <4>1. /\ work' = IF Top.wake THEN TRUE /\ frozen \cup {j} # {} ELSE TRUE
            /\ frozen' = frozen \cup {j} /\ UNCHANGED interrupted
          BY <3>2 DEF Waits, SwitchBack, WorkAfterFreeze
      <4> QED
          BY <4>1
    <3>3. ~ Throws(j)
        BY DEF Throws
    <3> QED
        BY <1>4, <3>1, <3>2, <3>3 DEF Leaves
  <2>3. Wakes(stack) <=> Top.wake \/ Wakes(stack')
      BY <2>1, WakeFrames
  <2> HIDE DEF Wakes
  <2> QED
      BY <1>1, <2>1, <2>2, <2>3 DEF Frames, TypeOK
<1>5. ASSUME NEW at \in Calls, PollStep(at)
      PROVE  (frozen' # {} => work') /\ (work' /\ frozen' = {} => Wakes(stack'))
  <2>1. /\ ~ spurious /\ ~ interrupted /\ frozen' = at.frozen
        /\ Called(at)
    <3>1. spurious => spurious'
        BY <1>5 DEF PollStep, Called
    <3> QED
        BY <1>5, <3>1 DEF PollStep, TypeOK
  <2>2. ~ corrupt /\ ~ corrupt'
      BY <2>1 DEF NoUseAfterFree
  <2>3. (frozen # {} => work) /\ (work /\ frozen = {} => Wakes(stack))
      BY <1>1, <2>1
  <2>4. \/ ~ at.wake /\ frozen' = frozen /\ stack = <<>>
        \/ at.wake /\ \E k \in frozen : frozen' = frozen \ {k}
    <3>1. CASE Idle /\ at = At(queue, frozen, exc, polls - 1, FALSE)
        BY <2>1, <3>1 DEF At, Idle
    <3>2. ASSUME NEW k \in Jobs, NEW e, k \in frozen \/ k \in pending,
                 at = At(Append(queue, k), frozen \ {k}, e, polls, TRUE)
          PROVE  at.wake /\ \E i \in frozen : frozen' = frozen \ {i}
      <4>1. k \in frozen
          BY <2>1, <3>2 DEF OnePlace
      <4> QED
          BY <2>1, <3>2, <4>1 DEF At
    <3> QED
        BY <2>1, <3>1, <3>2 DEF Called
  <2>5. CASE UNCHANGED stack /\ work' = WorkAfterPoll(at)
    <3>1. work' = IF at.wake THEN work /\ frozen' # {} ELSE work
        BY <2>1, <2>5 DEF WorkAfterPoll
    <3> HIDE DEF Wakes
    <3> QED
        BY <2>3, <2>4, <2>5, <3>1
  <2>6. ASSUME NEW k \in Jobs, stack' = Append(stack, [job |-> k, wake |-> at.wake]), UNCHANGED work
        PROVE  (frozen' # {} => work') /\ (work' /\ frozen' = {} => Wakes(stack'))
    <3> DEFINE f == [job |-> k, wake |-> at.wake]
    <3>1. f \in Frames /\ f.wake = at.wake /\ stack' = Append(stack, f)
        BY <2>6 DEF Frames, Calls
    <3> HIDE DEF f
    <3>2. Wakes(stack') <=> f.wake \/ Wakes(stack)
        BY <3>1, WakeFrames DEF TypeOK
    <3> HIDE DEF Wakes
    <3> QED
        BY <2>3, <2>4, <2>6, <3>1, <3>2
  <2> QED
      BY <1>5, <2>2, <2>5, <2>6, PollWork
<1> QED
    BY <1>2, <1>3, <1>4, <1>5, StepForms

LEMMA BetweenInvariant == Spec => [](NoSchedulerOutsideJobs /\ ErrorsAreDeliverable /\ WorkIsAccounted)
<1>1. Init => NoSchedulerOutsideJobs /\ ErrorsAreDeliverable /\ WorkIsAccounted
    BY DEF Init, NoSchedulerOutsideJobs, ErrorsAreDeliverable, WorkIsAccounted
<1> QED
    BY <1>1, SchedStep, ErrorsStep, WorkStep, TypeCorrect, OnePlaceInductive, PTL DEF Spec

\* What the io_service and the next handler find, and the job an error is for:
\* _work is held exactly for sleepers, no error is left for a job that cannot
\* throw it, current_scheduler() is unset (Scheduler.cpp:60-230).
THEOREM HandlersLeaveOrder == Spec => []BetweenHandlers
<1>1. TypeOK /\ NoSchedulerOutsideJobs /\ ErrorsAreDeliverable /\ WorkIsAccounted => BetweenHandlers
  <2> SUFFICES ASSUME TypeOK, WorkIsAccounted
               PROVE  WorkHeldForSleepers
      BY DEF BetweenHandlers
  <2>1. stack = <<>> => ~ \E i \in 1..Len(stack) : stack[i].wake
      OBVIOUS
  <2> QED
      BY <2>1 DEF TypeOK, WorkIsAccounted, WorkHeldForSleepers
<1> QED
    BY <1>1, BetweenInvariant, TypeCorrect, PTL

-----------------------------------------------------------------------------
(* The order of jobs and the end of a run.                                  *)

LEMMA RunStep == TypeOK /\ RunIsKnown /\ [Next]_vars => RunIsKnown'
<1> SUFFICES ASSUME TypeOK, RunIsKnown, [Next]_vars
             PROVE  RunIsKnown'
    OBVIOUS
<1> USE DEF RunIsKnown
<1>1. CASE RunBegin \/ RunReturn \/ Stop \/ UNCHANGED vars \/ \E j \in Jobs : Spawn(j)
    BY <1>1 DEF RunBegin, RunReturn, Stop, vars, Spawn
<1>2. ASSUME NEW at \in Calls, PollStep(at)
      PROVE  RunIsKnown'
    BY <1>2 DEF PollStep, Called, Idle
<1>3. ASSUME NEW j \in Jobs, Leaves(j)
      PROVE  RunIsKnown'
  <2>1. /\ stack # <<>> /\ stack' \in Seq(Frames) /\ Top \in Frames /\ stack = Append(stack', Top)
        /\ UNCHANGED running
      BY <1>3, LeaveForms
  <2>2. CASE Throws(j) /\ Len(stack) = 1
    <3>1. Len(stack) = Len(stack') + 1
        BY <2>1
    <3>2. stack' = <<>>
        BY <2>1, <2>2, <3>1, EmptySeq
    <3> QED
        BY <2>1, <2>2, <3>2 DEF Throws, RunnerCatches
  <2>3. CASE ~ (Throws(j) /\ Len(stack) = 1)
    <3>1. failed' = failed /\ stopped' = stopped
        BY <1>3, <2>3 DEF Leaves, Yields, Waits, Returns, Throws
    <3> QED
        BY <2>1, <3>1
  <2> QED
      BY <2>2, <2>3
<1> QED
    BY <1>1, <1>2, <1>3, StepForms

LEMMA RunInvariant == Spec => []RunIsKnown
<1>1. Init => RunIsKnown
    BY DEF Init, RunIsKnown
<1> QED
    BY <1>1, RunStep, TypeCorrect, PTL DEF Spec

\* What a queue may become in one step: fed at its back, served at its front.
Follows(q, r) == IsPrefix(q, r) \/ (q # <<>> /\ IsPrefix(Tail(q), r))

LEMMA PrefixFact ==
    ASSUME NEW S, NEW q \in Seq(S), NEW x \in S
    PROVE  IsPrefix(q, q) /\ IsPrefix(q, Append(q, x))
<1>1. Len(q) \in Nat /\ Append(q, x) \in Seq(S) /\ Len(Append(q, x)) = Len(q) + 1
    OBVIOUS
<1>2. SubSeq(q, 1, Len(q)) = q
    BY <1>1
<1>3. SubSeq(Append(q, x), 1, Len(q)) = q
    BY <1>1
<1> QED
    BY <1>1, <1>2, <1>3 DEF IsPrefix

LEMMA FollowsFact ==
    ASSUME NEW S, NEW q \in Seq(S), NEW x \in S
    PROVE  /\ Follows(q, q) /\ Follows(q, Append(q, x))
           /\ q # <<>> => Follows(q, Tail(q)) /\ Follows(q, Append(Tail(q), x))
<1>1. q # <<>> => Tail(q) \in Seq(S)
    BY TailFact
<1> QED
    BY <1>1, PrefixFact DEF Follows

\* The same of a queue that wakeup() has just fed with k.
LEMMA FollowsPush ==
    ASSUME NEW S, NEW q \in Seq(S), NEW k \in S, NEW x \in S
    PROVE  /\ Follows(q, Tail(Append(q, k)))
           /\ Follows(q, Append(Tail(Append(q, k)), x))
<1>1. CASE q = <<>>
  <2>1. Append(q, k) = <<k>> /\ Tail(<<k>>) = <<>> /\ Append(<<>>, x) = <<x>>
      BY <1>1
  <2>2. <<>> \in Seq(S)
      OBVIOUS
  <2>3. Follows(<<>>, <<>>) /\ Follows(<<>>, Append(<<>>, x))
      BY <2>2, FollowsFact
  <2> QED
      BY <1>1, <2>1, <2>3
<1>2. CASE q # <<>>
  <2>1. Tail(q) \in Seq(S) /\ Len(q) > 0
      BY <1>2, TailFact, EmptySeq
  <2>2. Tail(Append(q, k)) = Append(Tail(q), k)
      BY <2>1
  <2>3. IsPrefix(Tail(q), Append(Tail(q), k))
      BY <2>1, PrefixFact
  <2>4. IsPrefix(Tail(q), Append(Append(Tail(q), k), x))
    <3> DEFINE t == Tail(q)
               r == Append(Append(t, k), x)
    <3>1. t \in Seq(S)
        BY <2>1
    <3> HIDE DEF t
    <3>2. r \in Seq(S) /\ Len(r) = Len(t) + 2 /\ Len(t) \in Nat
          /\ \A i \in 1..Len(t) : r[i] = t[i]
        BY <3>1
    <3>3. SubSeq(r, 1, Len(t)) = t /\ SubSeq(t, 1, Len(t)) = t
        BY <3>1, <3>2
    <3>4. IsPrefix(t, r)
        BY <3>2, <3>3 DEF IsPrefix
    <3> QED
        BY <3>4 DEF t
  <2> QED
      BY <1>2, <2>2, <2>3, <2>4 DEF Follows
<1> QED
    BY <1>1, <1>2

LEMMA QueueStep ==
    ASSUME TypeOK, [Next]_vars
    PROVE  Follows(queue, queue')
<1>0. queue \in Seq(Jobs)
    BY DEF TypeOK
<1>1. ASSUME NEW j \in Jobs, Spawn(j)
      PROVE  Follows(queue, queue')
    BY <1>0, <1>1, FollowsFact DEF Spawn
<1>2. CASE UNCHANGED queue
  <2>1. queue = <<>> \/ \E x \in Jobs : TRUE
      BY <1>0, TailFact
  <2>2. IsPrefix(<<>>, <<>>)
      BY DEF IsPrefix
  <2> QED
      BY <1>0, <1>2, <2>1, <2>2, FollowsFact DEF Follows
<1>3. ASSUME NEW j \in Jobs, Leaves(j)
      PROVE  Follows(queue, queue')
  <2>1. queue' = queue \/ queue' = Append(queue, j)
      BY <1>3, LeaveForms DEF QueueAfter
  <2> QED
      BY <1>0, <1>2, <2>1, FollowsFact
<1>4. ASSUME NEW at \in Calls, PollStep(at)
      PROVE  Follows(queue, queue')
  <2>1. at.queue \in Seq(Jobs) /\ (at.queue = queue \/ \E k \in Jobs : at.queue = Append(queue, k))
      BY <1>4 DEF PollStep, Called, At, Calls
  <2>2. \/ queue' = at.queue \/ queue' = queue
        \/ /\ at.queue # <<>>
           /\ \/ queue' = Tail(at.queue)
              \/ \E x \in Jobs : queue' = Append(Tail(at.queue), x)
    <3>1. at.queue # <<>> => NextJob(at) \in Jobs
        BY <2>1, TailFact DEF NextJob
    <3> QED
        BY <1>4, <3>1 DEF PollStep, Poll, PollNothing, PollSkipsFrozen, PollFirstSwitch,
                          PollResumes, PollCorrupts
  <2>3. CASE at.queue = queue
    <3>1. CASE queue = <<>>
        BY <1>2, <2>2, <2>3, <3>1
    <3>2. CASE queue # <<>>
      <4>1. \A x \in Jobs : Follows(queue, Append(Tail(queue), x))
          BY <1>0, <3>2, FollowsFact
      <4>2. Follows(queue, Tail(queue))
          BY <1>0, <3>2, TailFact, FollowsFact
      <4> QED
          BY <1>2, <2>2, <2>3, <4>1, <4>2
    <3> QED
        BY <3>1, <3>2
  <2>4. ASSUME NEW k \in Jobs, at.queue = Append(queue, k)
        PROVE  Follows(queue, queue')
    <3>1. Follows(queue, Append(queue, k)) /\ Follows(queue, Tail(Append(queue, k)))
          /\ \A x \in Jobs : Follows(queue, Append(Tail(Append(queue, k)), x))
        BY <1>0, FollowsFact, FollowsPush
    <3> QED
        BY <1>2, <2>2, <2>4, <3>1
  <2> QED
      BY <2>1, <2>3, <2>4
<1> QED
    BY <1>1, <1>2, <1>3, <1>4, StepForms DEF RunBegin, RunReturn, Stop, vars

\* run() returns over no job, unless it was stopped (Scheduler.cpp:175-230).
LEMMA ReturnStep ==
    ASSUME TypeOK, NoStrandedJob, OnePlace, WorkIsAccounted, StackIsActive,
           RunReturn, ~ stopped, ~ interrupted, ~ spurious, NEW j \in Jobs
    PROVE  pc[j] \in {"unborn", "deleted"}
<1>1. stack = <<>> /\ polls = 0 /\ ~ work /\ pc' = pc
    BY DEF RunReturn
<1>2. queue = <<>> /\ frozen = {}
    BY <1>1 DEF NoStrandedJob, WorkIsAccounted
<1>3. ToSet(queue) = {} /\ ToSet(JobsOf(stack)) = {}
    BY <1>1, <1>2 DEF ToSet, JobsOf
<1>4. Place(j)
    BY DEF OnePlace
<1> QED
    BY <1>1, <1>2, <1>3, <1>4 DEF Place, TypeOK

\* Nothing runs between the exception of a job and the end of the run.
LEMMA FailedStep ==
    ASSUME TypeOK, RunIsKnown, failed, Next
    PROVE  RunReturn \/ UNCHANGED <<queue, stack, pc>>
<1>1. stack = <<>> /\ running /\ stopped
    BY DEF RunIsKnown
<1>2. ASSUME NEW at \in Calls, PollStep(at)
      PROVE  FALSE
    BY <1>1, <1>2 DEF PollStep, Called, Idle
<1>3. ASSUME NEW j \in Jobs, Leaves(j)
      PROVE  FALSE
    BY <1>1, <1>3, LeaveForms
<1>4. ASSUME NEW j \in Jobs, Spawn(j)
      PROVE  FALSE
    BY <1>1, <1>4 DEF Spawn
<1> QED
    BY <1>2, <1>3, <1>4, StepForms DEF RunBegin, Stop

\* The order of jobs and the end of a run: the queue is served at its front and
\* fed at its back whatever the nesting of polls, a run that ends by itself leaves
\* no job behind, and one a job has thrown in runs nothing more
\* (push(), wakeup(), _poll() and run(), Scheduler.cpp:60-230).
THEOREM RunsKeepOrder == Spec => RunsAreOrderly
<1>1. TypeOK /\ [Next]_vars
      => [\/ IsPrefix(queue, queue')
          \/ queue # <<>> /\ IsPrefix(Tail(queue), queue')]_vars
    BY QueueStep DEF Follows
<1>2. TypeOK /\ NoStrandedJob /\ OnePlace /\ WorkIsAccounted /\ StackIsActive /\ [Next]_vars
      => [RunReturn /\ ~stopped /\ ~interrupted /\ ~spurious
            => \A j \in Jobs : pc[j] \in {"unborn", "deleted"}]_vars
    BY ReturnStep
<1>3. TypeOK /\ RunIsKnown /\ [Next]_vars
      => [failed => RunReturn \/ UNCHANGED <<queue, stack, pc>>]_vars
    BY FailedStep
<1> QED
    BY <1>1, <1>2, <1>3, TypeCorrect, NoJobIsStranded, EveryJobInOnePlace, BetweenInvariant,
       StackInvariant, RunInvariant, PTL
       DEF Spec, RunsAreOrderly, Fifo, ReturnMeansDone, ErrorEndsRun
=============================================================================
