----------------------------- MODULE ThreadProofs -----------------------------
(* Proofs about LogRunner, for any set of threads, any capacity of the queue   *)
(* and any number of messages and changes of the mode; about AudioStation, for *)
(* any sounds, blocks, sizes of a header and of a ring buffer; and about       *)
(* GuiWindow, for any documents, fields and texts, where the documents are, and *)
(* any number of handles and textures.                                         *)
EXTENDS LogRunner, AudioStation, GuiWindow, SequenceLemmas, FiniteSetTheorems

\* Who holds backend_lock: a flushing thread, or the worker in its loop.
LockIsHeld ==
    /\ \A t \in Threads : lock = t <=> pc[t] = "flush"
    /\ lock = Worker <=> worker \in {"looping", "popped", "draining"}

\* A message is in flight only with who holds the lock.
SenderHoldsLock == \A s \in Senders : inflight[s] # None => lock = s

\* The thread is there while it should run, or main is joining it.
WorkerIsKnown ==
    /\ worker = "popped" <=> inflight[Worker] # None
    /\ running => worker # "none" /\ mode = "asynchroneous" /\ ~ exiting
    /\ worker # "none" => running \/ pc[Main] = "join"
    /\ \A t \in Threads : pc[t] = "join" => t = Main /\ ~ running

\* What the holder of the lock has popped.
InFlight == IF lock # NoThread /\ inflight[lock] # None THEN <<inflight[lock]>> ELSE <<>>

SentInOrder == accepted = (delivered \o InFlight) \o queue

\* Without a worker some thread is on its way to flush what is queued.
SomeoneFlushes ==
    worker = "none" /\ queue # <<>>
        => \E t \in Threads : pc[t] \in {"pushed", "lock", "flush"}

\* Nothing is queued or sent while there is no Console.
NothingUnsent == object # "Console" => queue = <<>> /\ Sending = {}

IInv ==
    /\ TypeOK /\ LockIsHeld /\ SenderHoldsLock /\ WorkerIsKnown
    /\ SentInOrder /\ SomeoneFlushes /\ NothingUnsent

-----------------------------------------------------------------------------
(* Sequences in two parts with an element in between.                       *)

LEMMA ConcatAppend ==
    ASSUME NEW S, NEW s \in Seq(S), NEW t \in Seq(S), NEW x \in S
    PROVE  s \o Append(t, x) = Append(s \o t, x)
<1>1. /\ s \o t \in Seq(S) /\ Append(t, x) \in Seq(S)
      /\ Append(s \o t, x) \in Seq(S) /\ s \o Append(t, x) \in Seq(S)
    BY ConcatProperties, AppendProperties
<1>2. s \o Append(t, x) = s \o (t \o <<x>>)
    BY AppendIsConcat
<1>3. Append(s \o t, x) = (s \o t) \o <<x>>
    BY <1>1, AppendIsConcat
<1>4. <<x>> \in Seq(S)
    OBVIOUS
<1> QED
    BY <1>2, <1>3, <1>4, ConcatAssociative

LEMMA ConcatHead ==
    ASSUME NEW S, NEW s \in Seq(S), NEW t \in Seq(S), t # <<>>
    PROVE  s \o t = (s \o <<Head(t)>>) \o Tail(t)
<1>1. /\ Head(t) \in S /\ Tail(t) \in Seq(S) /\ <<Head(t)>> \in Seq(S)
    BY HeadTailProperties
<1>2. t = <<Head(t)>> \o Tail(t)
  <2>1. /\ Len(Tail(t)) = Len(t) - 1 /\ Head(t) = t[1] /\ Len(t) \in Nat \ {0}
        /\ \A i \in 1..Len(Tail(t)) : Tail(t)[i] = t[i + 1]
      BY HeadTailProperties, EmptySeq
  <2> DEFINE u == <<Head(t)>> \o Tail(t)
  <2>2. /\ u \in Seq(S) /\ Len(u) = 1 + Len(Tail(t))
        /\ \A i \in 1..1 + Len(Tail(t)) :
              u[i] = IF i <= 1 THEN <<Head(t)>>[i] ELSE Tail(t)[i - 1]
    <3>1. Len(<<Head(t)>>) = 1
        OBVIOUS
    <3> QED
        BY <1>1, <3>1, ConcatProperties
  <2> HIDE DEF u
  <2>3. ASSUME NEW i \in 1..Len(t)
        PROVE  t[i] = u[i]
    <3>1. CASE i = 1
        BY <2>1, <2>2, <3>1
    <3>2. CASE i # 1
      <4>1. i - 1 \in 1..Len(Tail(t)) /\ Tail(t)[i - 1] = t[(i - 1) + 1]
          BY <2>1, <3>2
      <4>2. u[i] = Tail(t)[i - 1]
          BY <2>1, <2>2, <3>2
      <4> QED
          BY <4>1, <4>2
    <3> QED
        BY <3>1, <3>2
  <2>4. t = u
      BY <2>1, <2>2, <2>3, SeqEqual
  <2> QED
      BY <2>4 DEF u
<1> QED
    BY <1>1, <1>2, ConcatAssociative
-----------------------------------------------------------------------------
(* The parts of the invariant.                                              *)

LEMMA TypeStep == TypeOK /\ [Next]_vars => TypeOK'
<1> SUFFICES ASSUME TypeOK, [Next]_vars
             PROVE  TypeOK'
    OBVIOUS
<1> USE BoundsAssumption, ThreadsAssumption DEF TypeOK, Modes, Senders, None
<1>1. CASE Constructed
    BY <1>1 DEF Constructed
<1>2. ASSUME NEW t \in Threads, Push(t)
      PROVE  TypeOK'
  <2>1. /\ posts' = posts + 1 /\ posts' \in 1..MaxPosts
        /\ pc' \in [Threads -> {"idle", "pushed", "lock", "flush", "join"}]
      BY <1>2 DEF Push
  <2>2. CASE ~ HasRoom
      BY <1>2, <2>1, <2>2 DEF Push
  <2>3. CASE HasRoom
    <3>1. /\ queue' = Append(queue, posts') /\ accepted' = Append(accepted, posts')
          /\ Len(queue) < Capacity
        BY <1>2, <2>3 DEF Push, HasRoom
    <3>2. /\ queue' \in Seq(1..MaxPosts) /\ accepted' \in Seq(1..MaxPosts)
          /\ Len(queue') = Len(queue) + 1
        BY <2>1, <3>1, AppendProperties
    <3>3. Len(queue') <= Capacity
        BY <3>1, <3>2
    <3>4. UNCHANGED <<mode, running, worker, lock, inflight, object, exiting,
                      delivered, changes>>
        BY <1>2 DEF Push
    <3> QED
        BY <2>1, <3>2, <3>3, <3>4
  <2> QED
      BY <2>2, <2>3
<1>3. ASSUME NEW s \in Senders, Pop(s)
      PROVE  /\ queue' \in Seq(1..MaxPosts) /\ Len(queue') <= Capacity
             /\ inflight' \in [Senders -> 0..MaxPosts]
  <2>1. /\ Head(queue) \in 1..MaxPosts /\ queue' = Tail(queue) /\ Tail(queue) \in Seq(1..MaxPosts)
        /\ Len(Tail(queue)) = Len(queue) - 1
        /\ inflight' = [inflight EXCEPT ![s] = Head(queue)]
      BY <1>3, HeadTailProperties DEF Pop
  <2> QED
      BY <2>1
<1>4. ASSUME NEW s \in Senders, Send(s)
      PROVE  /\ delivered' \in Seq(1..MaxPosts)
             /\ inflight' \in [Senders -> 0..MaxPosts]
  <2>1. inflight[s] \in 1..MaxPosts
      BY <1>4 DEF Send
  <2> QED
      BY <1>4, <2>1, AppendProperties DEF Send
<1>5. ASSUME NEW t \in Threads, PosterStep(t)
      PROVE  TypeOK'
  <2>1. CASE CheckRunning(t)
      BY <2>1 DEF CheckRunning
  <2>2. CASE FlushLock(t)
      BY <2>2 DEF FlushLock, Locks
  <2>3. CASE FlushPop(t)
      BY <2>3, <1>3 DEF FlushPop
  <2>4. CASE FlushSend(t)
      BY <2>4, <1>4 DEF FlushSend
  <2>5. CASE FlushEnd(t)
      BY <2>5 DEF FlushEnd
  <2> QED
      BY <1>5, <2>1, <2>2, <2>3, <2>4, <2>5 DEF PosterStep
<1>6. CASE WorkerStep
  <2>1. CASE WorkerBegin
      BY <2>1 DEF WorkerBegin, WorkerLocks, Locks
  <2>2. CASE WorkerPop
      BY <2>2, <1>3 DEF WorkerPop
  <2>3. CASE WorkerSend
      BY <2>3, <1>4 DEF WorkerSend
  <2>4. CASE WorkerSleeps
      BY <2>4 DEF WorkerSleeps, vars
  <2>5. CASE WorkerSeesStop
      BY <2>5 DEF WorkerSeesStop
  <2>6. CASE WorkerEnd
      BY <2>6 DEF WorkerEnd
  <2> QED
      BY <1>6, <2>1, <2>2, <2>3, <2>4, <2>5, <2>6 DEF WorkerStep
<1>7. ASSUME Stop
      PROVE  /\ running' \in BOOLEAN /\ worker' = worker
             /\ pc' \in [Threads -> {"idle", "pushed", "lock", "flush", "join"}]
    BY <1>7 DEF Stop
<1>8. ASSUME NEW m \in Modes, SetMode(m)
      PROVE  TypeOK'
  <2>1. CASE m = "asynchroneous"
      BY <1>8, <2>1 DEF SetMode, Start
  <2>2. CASE m # "asynchroneous"
      BY <1>8, <1>7, <2>2 DEF SetMode
  <2> QED
      BY <2>1, <2>2
<1>9. CASE Joined
    BY <1>9 DEF Joined
<1>10. CASE EndOfMain
    BY <1>10, <1>7 DEF EndOfMain, ShutdownAtExit
<1>11. CASE Destroy
    BY <1>11, <1>7 DEF Destroy
<1>12. CASE UNCHANGED vars
    BY <1>12 DEF vars
<1> QED
    BY <1>1, <1>2, <1>5, <1>6, <1>8, <1>9, <1>10, <1>11, <1>12 DEF Next, Done

\* The lock, the worker and the main thread, through every step.
LEMMA ControlStep ==
    ASSUME TypeOK, LockIsHeld, SenderHoldsLock, WorkerIsKnown, [Next]_vars
    PROVE  LockIsHeld' /\ SenderHoldsLock' /\ WorkerIsKnown'
<1> USE ThreadsAssumption DEF TypeOK, Modes, Senders, None, LockIsHeld, SenderHoldsLock, WorkerIsKnown
<1>1. CASE Constructed
    BY <1>1 DEF Constructed
<1>2. ASSUME NEW t \in Threads, Push(t)
      PROVE  LockIsHeld' /\ SenderHoldsLock' /\ WorkerIsKnown'
    BY <1>2 DEF Push
<1>3. ASSUME NEW t \in Threads, CheckRunning(t)
      PROVE  LockIsHeld' /\ SenderHoldsLock' /\ WorkerIsKnown'
    BY <1>3 DEF CheckRunning
<1>4. ASSUME NEW t \in Threads, FlushLock(t)
      PROVE  LockIsHeld' /\ SenderHoldsLock' /\ WorkerIsKnown'
    BY <1>4 DEF FlushLock, Locks
<1>5. ASSUME NEW t \in Threads, FlushPop(t)
      PROVE  LockIsHeld' /\ SenderHoldsLock' /\ WorkerIsKnown'
    BY <1>5 DEF FlushPop, Pop
<1>6. ASSUME NEW t \in Threads, FlushSend(t)
      PROVE  LockIsHeld' /\ SenderHoldsLock' /\ WorkerIsKnown'
    BY <1>6 DEF FlushSend, Send
<1>7. ASSUME NEW t \in Threads, FlushEnd(t)
      PROVE  LockIsHeld' /\ SenderHoldsLock' /\ WorkerIsKnown'
    BY <1>7 DEF FlushEnd
<1>8. CASE WorkerBegin
    BY <1>8 DEF WorkerBegin, WorkerLocks, Locks
<1>9. CASE WorkerPop
  <2>1. Head(queue) \in 1..MaxPosts
      BY <1>9, HeadTailProperties DEF WorkerPop, Pop
  <2> QED
      BY <1>9, <2>1 DEF WorkerPop, Pop
<1>10. CASE WorkerSend
    BY <1>10 DEF WorkerSend, Send
<1>11. CASE WorkerSeesStop
    BY <1>11 DEF WorkerSeesStop, WorkerStays
<1>12. CASE WorkerEnd
    BY <1>12 DEF WorkerEnd
<1>13. ASSUME NEW m \in Modes, SetMode(m)
       PROVE  LockIsHeld' /\ SenderHoldsLock' /\ WorkerIsKnown'
  <2>1. CASE m = "asynchroneous"
      BY <1>13, <2>1 DEF SetMode, Start, ChangesMode
  <2>2. CASE m # "asynchroneous"
      BY <1>13, <2>2 DEF SetMode, Stop
  <2> QED
      BY <2>1, <2>2
<1>14. CASE Joined
    BY <1>14 DEF Joined
<1>15. CASE EndOfMain
    BY <1>15 DEF EndOfMain, ShutdownAtExit, Stop
<1>16. CASE Destroy
    BY <1>16 DEF Destroy, Stop
<1>17. CASE UNCHANGED vars
    BY <1>17 DEF vars
<1> QED
    BY <1>1, <1>2, <1>3, <1>4, <1>5, <1>6, <1>7, <1>8, <1>9, <1>10, <1>11, <1>12, <1>13,
       <1>14, <1>15, <1>16, <1>17 DEF Next, PosterStep, WorkerStep, WorkerSleeps, Done

\* What a step does to the messages: nothing, push one, pop one into the hands of
\* the holder of the lock, or send the one he has.
LEMMA MessageSteps ==
    ASSUME TypeOK, LockIsHeld, SenderHoldsLock, WorkerIsKnown, [Next]_vars
    PROVE  \/ /\ UNCHANGED <<queue, accepted, delivered, inflight>>
              /\ lock' # lock => \A s \in Senders : inflight[s] = None
           \/ /\ \E x \in 1..MaxPosts : /\ queue' = Append(queue, x)
                                        /\ accepted' = Append(accepted, x)
              /\ UNCHANGED <<delivered, inflight, lock>>
           \/ /\ lock \in Senders /\ Pop(lock)
              /\ UNCHANGED <<accepted, delivered, lock>>
           \/ /\ lock \in Senders /\ Send(lock)
              /\ UNCHANGED <<queue, accepted, lock>>
<1> DEFINE Quiet == /\ UNCHANGED <<queue, accepted, delivered, inflight>>
                    /\ lock' # lock => \A s \in Senders : inflight[s] = None
           Pushes == /\ \E x \in 1..MaxPosts : /\ queue' = Append(queue, x)
                                               /\ accepted' = Append(accepted, x)
                     /\ UNCHANGED <<delivered, inflight, lock>>
           Pops == lock \in Senders /\ Pop(lock) /\ UNCHANGED <<accepted, delivered, lock>>
           Sends == lock \in Senders /\ Send(lock) /\ UNCHANGED <<queue, accepted, lock>>
<1>1. ASSUME NEW t \in Threads, Push(t)
      PROVE  Quiet \/ Pushes
  <2>1. posts' \in 1..MaxPosts
      BY <1>1, BoundsAssumption DEF Push, TypeOK
  <2> QED
      BY <1>1, <2>1 DEF Push
<1>2. ASSUME NEW t \in Threads, FlushLock(t) \/ CheckRunning(t) \/ FlushEnd(t)
      PROVE  Quiet
  <2>1. CASE FlushLock(t)
      BY <2>1, ThreadsAssumption DEF FlushLock, Locks, SenderHoldsLock, Senders, None
  <2>2. CASE CheckRunning(t)
      BY <2>2 DEF CheckRunning
  <2>3. CASE FlushEnd(t)
      BY <2>3, ThreadsAssumption DEF FlushEnd, LockIsHeld, SenderHoldsLock, Senders
  <2> QED
      BY <1>2, <2>1, <2>2, <2>3
<1>3. ASSUME NEW t \in Threads, FlushPop(t)
      PROVE  Pops
    BY <1>3 DEF FlushPop, LockIsHeld, Senders
<1>4. ASSUME NEW t \in Threads, FlushSend(t)
      PROVE  Sends
    BY <1>4 DEF FlushSend, LockIsHeld, Senders
<1>5. CASE WorkerBegin \/ WorkerSeesStop \/ WorkerEnd
  <2>1. CASE WorkerBegin
      BY <2>1, ThreadsAssumption DEF WorkerBegin, WorkerLocks, Locks, SenderHoldsLock, Senders
  <2>2. CASE WorkerSeesStop
      BY <2>2 DEF WorkerSeesStop
  <2>3. CASE WorkerEnd
      BY <2>3, ThreadsAssumption DEF WorkerEnd, LockIsHeld, SenderHoldsLock, WorkerIsKnown, Senders
  <2> QED
      BY <1>5, <2>1, <2>2, <2>3
<1>6. CASE WorkerPop
    BY <1>6 DEF WorkerPop, LockIsHeld, Senders
<1>7. CASE WorkerSend
    BY <1>7 DEF WorkerSend, LockIsHeld, Senders
<1>8. CASE Constructed \/ Joined \/ EndOfMain \/ Destroy \/ (\E m \in Modes : SetMode(m)) \/ UNCHANGED vars
    BY <1>8 DEF Constructed, Joined, EndOfMain, Destroy, SetMode, vars
<1> QED
    BY <1>1, <1>2, <1>3, <1>4, <1>5, <1>6, <1>7, <1>8
       DEF Next, PosterStep, WorkerStep, WorkerSleeps, Done

LEMMA OrderStep ==
    ASSUME TypeOK, LockIsHeld, SenderHoldsLock, WorkerIsKnown, SentInOrder, [Next]_vars
    PROVE  SentInOrder'
<1> DEFINE M == 1..MaxPosts
<1>1. /\ queue \in Seq(M) /\ delivered \in Seq(M) /\ accepted \in Seq(M)
      /\ accepted = (delivered \o InFlight) \o queue
    BY DEF TypeOK, SentInOrder
<1>2. InFlight \in Seq(M) /\ delivered \o InFlight \in Seq(M)
  <2>1. InFlight \in Seq(M)
    <3>1. CASE lock # NoThread /\ inflight[lock] # None
      <4>1. inflight[lock] \in M
          BY <3>1 DEF TypeOK, None
      <4>2. <<inflight[lock]>> \in Seq(M)
          BY <4>1
      <4>3. InFlight = <<inflight[lock]>>
          BY <3>1 DEF InFlight
      <4> QED
          BY <4>2, <4>3
    <3>2. CASE ~ (lock # NoThread /\ inflight[lock] # None)
      <4>1. InFlight = <<>>
          BY <3>2 DEF InFlight
      <4> QED
          BY <4>1, EmptySeq
    <3> QED
        BY <3>1, <3>2
  <2> QED
      BY <1>1, <2>1, ConcatProperties
<1>3. ASSUME UNCHANGED <<queue, accepted, delivered, inflight>>,
             lock' # lock => \A s \in Senders : inflight[s] = None
      PROVE  SentInOrder'
  <2>1. lock \in Senders \cup {NoThread} /\ lock' \in Senders \cup {NoThread}
      BY TypeStep DEF TypeOK
  <2>2. InFlight' = InFlight
      BY <1>3, <2>1 DEF InFlight
  <2> QED
      BY <1>1, <1>3, <2>2 DEF SentInOrder
<1>4. ASSUME NEW x \in M, queue' = Append(queue, x), accepted' = Append(accepted, x),
             UNCHANGED <<delivered, inflight, lock>>
      PROVE  SentInOrder'
  <2>1. InFlight' = InFlight
      BY <1>4 DEF InFlight
  <2>2. (delivered \o InFlight) \o Append(queue, x) = Append((delivered \o InFlight) \o queue, x)
      BY <1>1, <1>2, ConcatAppend
  <2> QED
      BY <1>1, <1>4, <2>1, <2>2 DEF SentInOrder
<1>5. ASSUME lock \in Senders, Pop(lock), UNCHANGED <<accepted, delivered, lock>>
      PROVE  SentInOrder'
  <2>1. /\ queue # <<>> /\ inflight[lock] = None
        /\ inflight' = [inflight EXCEPT ![lock] = Head(queue)] /\ queue' = Tail(queue)
        /\ Head(queue) # None /\ lock # NoThread /\ inflight \in [Senders -> 0..MaxPosts]
    <3>1. queue # <<>> /\ inflight[lock] = None /\ queue' = Tail(queue)
            /\ inflight' = [inflight EXCEPT ![lock] = Head(queue)]
        BY <1>5 DEF Pop
    <3>2. Head(queue) \in M
        BY <1>1, <3>1, HeadTailProperties
    <3>3. lock # NoThread /\ inflight \in [Senders -> 0..MaxPosts]
        BY <1>5, ThreadsAssumption DEF Senders, TypeOK
    <3> QED
        BY <3>1, <3>2, <3>3 DEF None
  <2>2. InFlight = <<>>
      BY <2>1 DEF InFlight
  <2>3. InFlight' = <<Head(queue)>>
      BY <1>5, <2>1 DEF InFlight
  <2>4. delivered \o <<>> = delivered
      BY <1>1, ConcatEmptySeq
  <2>5. delivered \o queue = (delivered \o <<Head(queue)>>) \o Tail(queue)
      BY <1>1, <2>1, ConcatHead
  <2> QED
      BY <1>1, <1>5, <2>1, <2>2, <2>3, <2>4, <2>5 DEF SentInOrder
<1>6. ASSUME lock \in Senders, Send(lock), UNCHANGED <<queue, accepted, lock>>
      PROVE  SentInOrder'
  <2>1. /\ inflight[lock] # None /\ inflight[lock] \in M
        /\ delivered' = Append(delivered, inflight[lock])
        /\ inflight' = [inflight EXCEPT ![lock] = None]
        /\ lock # NoThread /\ inflight \in [Senders -> 0..MaxPosts]
      BY <1>6, ThreadsAssumption DEF Send, Senders, TypeOK, None
  <2>2. InFlight = <<inflight[lock]>>
      BY <2>1 DEF InFlight
  <2>3. InFlight' = <<>>
      BY <1>6, <2>1 DEF InFlight
  <2>4. delivered' \in Seq(M) /\ delivered' = delivered \o <<inflight[lock]>>
      BY <1>1, <2>1, AppendProperties, AppendIsConcat
  <2>5. delivered' \o <<>> = delivered'
      BY <2>4, ConcatEmptySeq
  <2> QED
      BY <1>1, <1>6, <2>2, <2>3, <2>4, <2>5 DEF SentInOrder
<1> QED
    BY <1>3, <1>4, <1>5, <1>6, MessageSteps

LEMMA FlushStep ==
    ASSUME TypeOK, LockIsHeld, SenderHoldsLock, WorkerIsKnown, SomeoneFlushes, NothingUnsent,
           [Next]_vars
    PROVE  SomeoneFlushes' /\ NothingUnsent'
<1> DEFINE Busy == \E t \in Threads : pc[t] \in {"pushed", "lock", "flush"}
<1> USE ThreadsAssumption DEF TypeOK, Modes, Senders, None
<1>1. SomeoneFlushes'
  <2> SUFFICES ASSUME worker' = "none", queue' # <<>>
               PROVE  Busy'
      BY DEF SomeoneFlushes
  <2> USE DEF SomeoneFlushes
  <2>1. CASE Constructed
      BY <2>1 DEF Constructed
  <2>2. ASSUME NEW t \in Threads, Push(t)
        PROVE  Busy'
      BY <2>2 DEF Push
  <2>3. ASSUME NEW t \in Threads, CheckRunning(t)
        PROVE  Busy'
      BY <2>3 DEF CheckRunning, MustFlush, WorkerIsKnown
  <2>4. ASSUME NEW t \in Threads, FlushLock(t)
        PROVE  Busy'
      BY <2>4 DEF FlushLock
  <2>5. ASSUME NEW t \in Threads, FlushPop(t) \/ FlushSend(t)
        PROVE  Busy'
      BY <2>5 DEF FlushPop, FlushSend
  <2>6. ASSUME NEW t \in Threads, FlushEnd(t)
        PROVE  Busy'
      BY <2>6 DEF FlushEnd
  <2>7. CASE WorkerStep
      BY <2>7 DEF WorkerStep, WorkerBegin, WorkerPop, WorkerSend, WorkerSleeps, WorkerSeesStop,
                  WorkerEnd, vars
  <2>8. ASSUME Stop
        PROVE  Busy'
      BY <2>8 DEF Stop
  <2>9. ASSUME NEW m \in Modes, SetMode(m)
        PROVE  Busy'
      BY <2>8, <2>9 DEF SetMode, Start
  <2>10. CASE Joined
      BY <2>10 DEF Joined
  <2>11. CASE EndOfMain \/ Destroy
      BY <2>8, <2>11 DEF EndOfMain, ShutdownAtExit, Destroy
  <2>12. CASE UNCHANGED vars
      BY <2>12 DEF vars
  <2> QED
      BY <2>1, <2>2, <2>3, <2>4, <2>5, <2>6, <2>7, <2>9, <2>10, <2>11, <2>12
         DEF Next, PosterStep, Done
<1>2. NothingUnsent'
  <2> SUFFICES ASSUME object' # "Console"
               PROVE  queue' = <<>> /\ \A s \in Senders : inflight'[s] = None
      BY DEF NothingUnsent, Sending
  <2>1. CASE object # "Console"
    <3>1. queue = <<>> /\ \A s \in Senders : inflight[s] = None
        BY <2>1 DEF NothingUnsent, Sending
    <3>2. UNCHANGED <<queue, inflight>>
        BY <2>1, <3>1 DEF Next, Constructed, Push, PosterStep, CheckRunning, FlushLock, FlushPop,
           FlushSend, FlushEnd, Pop, Send, WorkerStep, WorkerBegin, WorkerPop, WorkerSend,
           WorkerSleeps, WorkerSeesStop, WorkerEnd, SetMode, Joined, EndOfMain, Destroy, Done, vars
    <3> QED
        BY <3>1, <3>2
  <2>2. CASE object = "Console"
    <3>1. Destroy
        BY <2>2 DEF Next, Constructed, Push, PosterStep, CheckRunning, FlushLock, FlushPop,
           FlushSend, FlushEnd, WorkerStep, WorkerBegin, WorkerPop, WorkerSend,
           WorkerSleeps, WorkerSeesStop, WorkerEnd, SetMode, Joined, EndOfMain, Done, vars
    <3>2. exiting /\ (\A t \in Threads : pc[t] = "idle") /\ UNCHANGED <<queue, inflight>>
        BY <3>1 DEF Destroy
    <3>3. worker = "none"
        BY <3>2 DEF WorkerIsKnown
    <3>4. queue = <<>>
        BY <3>2, <3>3 DEF SomeoneFlushes
    <3>5. \A s \in Senders : inflight[s] = None
        BY <3>2, <3>3 DEF WorkerIsKnown, LockIsHeld, SenderHoldsLock
    <3> QED
        BY <3>2, <3>4, <3>5
  <2> QED
      BY <2>1, <2>2
<1> QED
    BY <1>1, <1>2

LEMMA LogInvariant == Spec => []IInv
<1>1. Init => IInv
  <2> SUFFICES ASSUME Init
               PROVE  IInv
      OBVIOUS
  <2> USE ThreadsAssumption, BoundsAssumption DEF Init, Modes, Senders, None
  <2>1. TypeOK
    <3>1. /\ <<>> \in Seq(1..MaxPosts) /\ Len(<<>>) <= Capacity
          /\ 0 \in 0..MaxPosts /\ 0 \in 0..MaxChanges
        OBVIOUS
    <3>2. /\ pc \in [Threads -> {"idle", "pushed", "lock", "flush", "join"}]
          /\ inflight \in [Senders -> 0..MaxPosts]
        BY <3>1
    <3>3. running \in BOOLEAN /\ worker \in {"none", "starting"}
        OBVIOUS
    <3> QED
        BY <3>1, <3>2, <3>3 DEF TypeOK
  <2>2. LockIsHeld /\ SenderHoldsLock /\ WorkerIsKnown
      BY DEF LockIsHeld, SenderHoldsLock, WorkerIsKnown
  <2>3. SomeoneFlushes /\ NothingUnsent
      BY DEF SomeoneFlushes, NothingUnsent, Sending
  <2>4. SentInOrder
      BY DEF SentInOrder, InFlight
  <2> QED
      BY <2>1, <2>2, <2>3, <2>4 DEF IInv
<1>2. IInv /\ [Next]_vars => IInv'
    BY TypeStep, ControlStep, OrderStep, FlushStep DEF IInv
<1> QED
    BY <1>1, <1>2, PTL DEF Spec

\* One thread at a time is in Console::_send_line, messages are sent once and in
\* the order of the queue, none stays behind, and the backend is there
\* (Runner.cpp:41-121, Console.cpp:46-117, Interface.cpp:5-60).
THEOREM SendsStayOrdered == Spec => []SendsAreOrdered
<1>1. ASSUME IInv
      PROVE  SendsAreOrdered
  <2> USE <1>1, ThreadsAssumption
  <2>1. TypeOK /\ LockIsHeld /\ SenderHoldsLock /\ SentInOrder
      BY DEF IInv
  <2>2. \/ Sending = {} /\ InFlight = <<>>
        \/ \E x \in Senders : Sending = {x} /\ InFlight = <<inflight[x]>>
    <3>1. CASE lock # NoThread /\ inflight[lock] # None
      <4>1. lock \in Senders
          BY <2>1, <3>1 DEF TypeOK
      <4>2. Sending = {lock}
          BY <2>1, <3>1, <4>1 DEF Sending, SenderHoldsLock
      <4> QED
          BY <3>1, <4>1, <4>2 DEF InFlight
    <3>2. CASE ~ (lock # NoThread /\ inflight[lock] # None)
      <4>1. Sending = {}
          BY <2>1, <3>2 DEF Sending, SenderHoldsLock, Senders
      <4> QED
          BY <3>2, <4>1 DEF InFlight
    <3> QED
        BY <3>1, <3>2
  <2>3. OneSender /\ InFlight = [i \in 1..Cardinality(Sending) |-> inflight[CHOOSE s \in Sending : TRUE]]
    <3>1. CASE Sending = {} /\ InFlight = <<>>
      <4>1. Cardinality(Sending) = 0
          BY <3>1, FS_EmptySet
      <4>2. <<>> = [i \in 1..0 |-> inflight[CHOOSE s \in Sending : TRUE]]
          OBVIOUS
      <4> QED
          BY <3>1, <4>1, <4>2 DEF OneSender
    <3>2. ASSUME NEW x \in Senders, Sending = {x}, InFlight = <<inflight[x]>>
          PROVE  OneSender /\ InFlight =
                    [i \in 1..Cardinality(Sending) |-> inflight[CHOOSE s \in Sending : TRUE]]
      <4>1. Cardinality(Sending) = 1
          BY <3>2, FS_Singleton
      <4>2. (CHOOSE s \in Sending : TRUE) = x
          BY <3>2
      <4>3. <<inflight[x]>> = [i \in 1..1 |-> inflight[x]]
          OBVIOUS
      <4> QED
          BY <3>2, <4>1, <4>2, <4>3 DEF OneSender
    <3> QED
        BY <2>2, <3>1, <3>2
  <2>4. InOrder
      BY <2>1, <2>3 DEF InOrder, SentInOrder
  <2>5. NoneLeftBehind /\ BackendIsThere
      BY DEF IInv, SomeoneFlushes, NothingUnsent, NoneLeftBehind, BackendIsThere
  <2> QED
      BY <2>1, <2>3, <2>4, <2>5 DEF SendsAreOrdered
<1> QED
    BY <1>1, LogInvariant, PTL

\* start() never finds a thread: its assertion holds (Runner.cpp:46).
THEOREM StartIsAsserted == Spec => StartFindsNoThread
<1>1. IInv /\ [Next]_vars => [worker' = "starting" /\ worker # "starting" => worker = "none"]_vars
  <2> SUFFICES ASSUME IInv, Next, worker' = "starting", worker # "starting"
               PROVE  worker = "none"
      OBVIOUS
  <2>1. PICK m \in Modes : SetMode(m) /\ Start
      BY DEF Next, Constructed, Push, PosterStep, CheckRunning, FlushLock, FlushPop, FlushSend,
         FlushEnd, WorkerStep, WorkerBegin, WorkerPop, WorkerSend, WorkerSleeps, WorkerSeesStop,
         WorkerEnd, SetMode, Joined, EndOfMain, ShutdownAtExit, Stop, Destroy, Done, vars
  <2>2. pc[Main] = "idle" /\ mode # "asynchroneous"
    <3>1. m = "asynchroneous"
      <4>1. CASE m # "asynchroneous"
          BY <2>1, <4>1 DEF SetMode, Stop
      <4> QED
          BY <4>1
    <3> QED
        BY <2>1, <3>1 DEF SetMode, ChangesMode
  <2> QED
      BY <2>2 DEF IInv, TypeOK, WorkerIsKnown
<1> QED
    BY <1>1, LogInvariant, PTL DEF Spec, StartFindsNoThread

-----------------------------------------------------------------------------
(* The audio station: what the sounds count *)

\* The frames of the first blocks of a sound: the function that the code's codec
\* counts with exists, whatever the blocks.
CountsFrames(f, s, n) ==
    f = [b \in 0..n |-> IF b = 0 THEN 0 ELSE f[b - 1] + Blocks[s][b]]

LEMMA CountExists ==
    ASSUME NEW s, NEW n \in Nat
    PROVE  \E f : CountsFrames(f, s, n)
<1> DEFINE T == {k \in Nat : ~ \E f : CountsFrames(f, s, k)}
<1>1. SUFFICES ASSUME T # {} PROVE FALSE
  OBVIOUS
<1>2. PICK k \in T : \A l \in T : k <= l
  BY <1>1, LeastFact
<1>3. k # 0
  <2>1. CountsFrames([b \in 0..0 |-> 0], s, 0)
    BY DEF CountsFrames
  <2> QED BY <2>1, <1>2
<1>4. k - 1 \in Nat /\ k - 1 \notin T
  BY <1>2, <1>3
<1>5. PICK f : CountsFrames(f, s, k - 1)
  BY <1>4
<1> DEFINE g == [b \in 0..k |-> IF b = 0 THEN 0 ELSE f[b - 1] + Blocks[s][b]]
<1>6. \A b \in 0..k : b # 0 => g[b - 1] = f[b - 1]
  <2> SUFFICES ASSUME NEW b \in 0..k, b # 0
               PROVE  g[b - 1] = f[b - 1]
    OBVIOUS
  <2>1. b - 1 \in 0..(k - 1) /\ b - 1 \in 0..k
    BY <1>2
  <2>2. f[b - 1] = IF b - 1 = 0 THEN 0 ELSE f[b - 1 - 1] + Blocks[s][b - 1]
    BY <1>5, <2>1 DEF CountsFrames
  <2>3. g[b - 1] = IF b - 1 = 0 THEN 0 ELSE f[b - 1 - 1] + Blocks[s][b - 1]
    BY <2>1
  <2> QED BY <2>2, <2>3
<1>7. g = [b \in 0..k |-> IF b = 0 THEN 0 ELSE g[b - 1] + Blocks[s][b]]
  <2> DEFINE h == [b \in 0..k |-> IF b = 0 THEN 0 ELSE g[b - 1] + Blocks[s][b]]
  <2>1. \A b \in 0..k : g[b] = h[b]
    BY <1>6
  <2> QED BY <2>1
<1>8. CountsFrames(g, s, k)
  BY <1>7 DEF CountsFrames
<1> QED BY <1>2, <1>8

LEMMA FramesAre ==
    ASSUME NEW s \in Sounds
    PROVE  /\ Frames(s, 0) = 0
           /\ \A b \in 1..Len(Blocks[s]) : Frames(s, b) = Frames(s, b - 1) + Blocks[s][b]
<1> DEFINE n == Len(Blocks[s])
<1>1. n \in Nat
  BY AudioAssumption
<1>2. FramesUpTo(s) = CHOOSE f : CountsFrames(f, s, n)
  BY DEF FramesUpTo, CountsFrames
<1>3. CountsFrames(FramesUpTo(s), s, n)
  BY <1>1, <1>2, CountExists
<1> DEFINE f == FramesUpTo(s)
<1>4. f = [b \in 0..n |-> IF b = 0 THEN 0 ELSE f[b - 1] + Blocks[s][b]]
  BY <1>3 DEF CountsFrames
<1> HIDE DEF f, n
<1>5. \A b \in 0..n : f[b] = IF b = 0 THEN 0 ELSE f[b - 1] + Blocks[s][b]
  BY <1>4
<1>6. 0 \in 0..n /\ \A b \in 1..n : b \in 0..n /\ b # 0
  BY <1>1
<1>7. f[0] = 0 /\ \A b \in 1..n : f[b] = f[b - 1] + Blocks[s][b]
  BY <1>5, <1>6
<1> QED BY <1>7 DEF f, n, Frames

LEMMA FramesType ==
    ASSUME NEW s \in Sounds
    PROVE  \A b \in 0..Len(Blocks[s]) : Frames(s, b) \in Nat
<1> DEFINE n == Len(Blocks[s])
           T == {b \in Nat : b <= n /\ Frames(s, b) \notin Nat}
<1>1. n \in Nat /\ \A b \in 1..n : Blocks[s][b] \in Nat
  BY AudioAssumption
<1>2. Frames(s, 0) = 0 /\ \A b \in 1..n : Frames(s, b) = Frames(s, b - 1) + Blocks[s][b]
  BY FramesAre
<1> HIDE DEF n
<1>3. SUFFICES ASSUME T # {} PROVE FALSE
  BY <1>1 DEF n
<1>4. PICK k \in T : \A l \in T : k <= l
  BY <1>3, LeastFact
<1>5. k \in 1..n /\ k - 1 \in Nat /\ k - 1 <= n
  BY <1>1, <1>2, <1>4
<1>6. Frames(s, k - 1) \in Nat
  BY <1>4, <1>5
<1> QED BY <1>1, <1>2, <1>4, <1>5, <1>6

LEMMA FramesGrow ==
    ASSUME NEW s \in Sounds, NEW b \in Nat, b < Len(Blocks[s])
    PROVE  /\ Frames(s, b) \in Nat /\ Blocks[s][b + 1] \in 1..MaxFrames
           /\ Frames(s, b + 1) = Frames(s, b) + Blocks[s][b + 1]
<1> DEFINE n == Len(Blocks[s])
<1>1. n \in Nat /\ \A i \in 1..n : Blocks[s][i] \in 1..MaxFrames
  BY AudioAssumption
<1>2. b + 1 \in 1..n /\ b \in 0..n /\ b + 1 - 1 = b
  BY <1>1
<1>3. Frames(s, b + 1) = Frames(s, b + 1 - 1) + Blocks[s][b + 1]
  BY <1>2, FramesAre
<1> QED BY <1>1, <1>2, <1>3, FramesType

\* A sequence of frames that only grows: in order, and made of those in a set.
Ascending(h) == \A i, j \in DOMAIN h : i < j => h[i] < h[j]

\* A block that comes after what was heard.
FramesAfter(m, len) == [i \in 1..len |-> m + i]

LEMMA AscendingFact ==
    ASSUME NEW h \in Seq(Nat), NEW m \in Nat, NEW len \in Nat,
           Ascending(h), Range(h) \subseteq 1..m
    PROVE  /\ Ascending(h \o FramesAfter(m, len))
           /\ Range(h \o FramesAfter(m, len)) = Range(h) \cup ((m + 1)..(m + len))
<1> DEFINE x == FramesAfter(m, len)
           r == h \o x
           n == Len(h)
<1>1. x \in Seq(Nat) /\ Len(x) = len /\ \A i \in 1..len : x[i] = m + i
  BY DEF FramesAfter
<1>2. n \in Nat /\ DOMAIN h = 1..n
  OBVIOUS
<1> HIDE DEF x
<1>a. /\ r \in Seq(Nat) /\ Len(r) = n + len
      /\ \A i \in 1..(n + len) : r[i] = IF i <= n THEN h[i] ELSE x[i - n]
  BY <1>1, <1>2, ConcatProperties
<1> HIDE DEF r, n
<1>3. /\ r \in Seq(Nat) /\ DOMAIN r = 1..(n + len)
      /\ \A i \in 1..(n + len) : i <= n => r[i] = h[i]
  BY <1>2, <1>a
<1>b. \A i \in 1..(n + len) : i > n => i - n \in 1..len /\ r[i] = m + (i - n)
  <2> SUFFICES ASSUME NEW i \in 1..(n + len), i > n
               PROVE  i - n \in 1..len /\ r[i] = m + (i - n)
    OBVIOUS
  <2>1. i - n \in 1..len /\ ~(i <= n)
    BY <1>2
  <2>2. r[i] = x[i - n]
    BY <1>a, <2>1
  <2> QED BY <1>1, <2>1, <2>2
<1>4. \A i \in 1..n : h[i] \in 1..m
  BY <1>2 DEF Range
<1>5. Ascending(r)
  <2> SUFFICES ASSUME NEW i \in 1..(n + len), NEW j \in 1..(n + len), i < j
               PROVE  r[i] < r[j]
    BY <1>3 DEF Ascending
  <2>1. CASE j <= n
    <3>1. i \in 1..n /\ j \in 1..n
      BY <1>2, <2>1
    <3>2. r[i] = h[i] /\ r[j] = h[j]
      BY <1>2, <1>3, <2>1, <3>1
    <3>3. h[i] < h[j]
      BY <1>2, <3>1 DEF Ascending
    <3> QED BY <3>2, <3>3
  <2>2. CASE i <= n /\ j > n
    <3>1. i \in 1..n /\ j - n \in 1..len /\ r[i] = h[i] /\ r[j] = m + (j - n)
      BY <1>2, <1>3, <1>b, <2>2
    <3>2. h[i] \in 1..m
      BY <1>4, <3>1
    <3>3. PICK k \in 1..len : k = j - n
      BY <3>1
    <3>4. r[j] = m + k
      BY <3>1, <3>3
    <3>5. h[i] < m + k
      BY <3>2
    <3> HIDE DEF r
    <3>6. r[i] = h[i]
      BY <3>1
    <3> QED BY <3>4, <3>5, <3>6
  <2>3. CASE i > n
    <3>1. j > n
      BY <1>2, <2>3
    <3>2. r[i] = m + (i - n) /\ r[j] = m + (j - n)
      BY <1>b, <2>3, <3>1
    <3> QED BY <1>2, <3>2
  <2> QED BY <1>2, <2>1, <2>2, <2>3
<1>6. Range(r) = Range(h) \cup ((m + 1)..(m + len))
  <2>1. ASSUME NEW i \in 1..(n + len)
        PROVE  r[i] \in Range(h) \cup ((m + 1)..(m + len))
    <3>1. CASE i <= n
      <4>1. i \in 1..n
        BY <1>2, <3>1
      <4>2. r[i] = h[i]
        BY <1>3, <3>1
      <4>3. h[i] \in Range(h)
        BY <1>2, <4>1 DEF Range
      <4> QED BY <4>2, <4>3
    <3>2. CASE i > n
      <4>1. i - n \in 1..len /\ r[i] = m + (i - n)
        BY <1>b, <3>2
      <4>2. PICK k \in 1..len : k = i - n
        BY <4>1
      <4>3. m + k \in (m + 1)..(m + len)
        OBVIOUS
      <4>4. r[i] = m + k
        BY <4>1, <4>2
      <4> QED BY <4>3, <4>4
    <3> QED BY <1>2, <3>1, <3>2
  <2>2. ASSUME NEW i \in 1..n
        PROVE  h[i] \in Range(r)
    <3>1. i \in 1..(n + len) /\ r[i] = h[i]
      BY <1>2, <1>3
    <3> QED BY <1>3, <3>1 DEF Range
  <2>3. ASSUME NEW y \in (m + 1)..(m + len)
        PROVE  y \in Range(r)
    <3>1. PICK i \in 1..(n + len) : i = n + (y - m) /\ i > n
      BY <1>2
    <3>2. r[i] = y
      BY <1>2, <1>b, <3>1
    <3> QED BY <1>3, <3>2 DEF Range
  <2> QED BY <1>2, <1>3, <2>1, <2>2, <2>3 DEF Range
<1> QED BY <1>5, <1>6 DEF r, x

-----------------------------------------------------------------------------
(* Streams *)

Frame == Nat
Streams == [sound : Sounds, buffer : Seq(Seq(Frame)), fill : Nat, started : BOOLEAN,
            played : Seq(Frame)]

\* What the fill of a buffer should be, and what is heard of a stream in the end.
Headers(n) == HeaderSize * n
Exact(q) == q.fill = Len(FlattenSeq(q.buffer)) + Headers(Len(q.buffer))
HeardOf(q) == q.played \o FlattenSeq(q.buffer)

LEMMA HeaderTypes == HeaderSize \in Nat /\ HeaderSize <= MaxFrames /\ MaxFrames \in Nat
BY AudioAssumption

LEMMA HeadersFact ==
    ASSUME NEW n \in Nat
    PROVE  Headers(n) \in Nat /\ Headers(n + 1) = Headers(n) + HeaderSize
<1>1. HeaderSize \in Nat
  BY HeaderTypes
<1> QED BY <1>1 DEF Headers

\* One more block in a buffer.
Filled(q, block) ==
    [q EXCEPT !.buffer = Append(@, block), !.fill = @ + TotalSize(Len(block))]

LEMMA CommitFact ==
    ASSUME NEW q \in Streams, NEW block \in Seq(Frame), Exact(q)
    PROVE  /\ Filled(q, block) \in Streams /\ Exact(Filled(q, block))
           /\ Filled(q, block).fill = q.fill + TotalSize(Len(block))
           /\ HeardOf(Filled(q, block)) = HeardOf(q) \o block
           /\ Filled(q, block).sound = q.sound
<1> DEFINE b == Append(q.buffer, block)
           total == TotalSize(Len(block))
           r == Filled(q, block)
<1>1. /\ q.buffer \in Seq(Seq(Frame)) /\ q.played \in Seq(Frame) /\ q.fill \in Nat
      /\ q.sound \in Sounds
  BY DEF Streams
<1>2. b \in Seq(Seq(Frame)) /\ Len(b) = Len(q.buffer) + 1 /\ Len(q.buffer) \in Nat
  BY <1>1
<1>3. FlattenSeq(b) = FlattenSeq(q.buffer) \o block /\ FlattenSeq(q.buffer) \in Seq(Frame)
  BY <1>1, FlattenAppend, FlattenType
<1>4. Len(FlattenSeq(b)) = Len(FlattenSeq(q.buffer)) + Len(block) /\ Len(block) \in Nat
      /\ Len(FlattenSeq(q.buffer)) \in Nat
  BY <1>3
<1>5. total = Len(block) + HeaderSize /\ total \in Nat
  BY <1>4, HeaderTypes DEF TotalSize
<1>6. r = [q EXCEPT !.buffer = b, !.fill = q.fill + total] /\ q.fill + total \in Nat
  BY <1>1, <1>5 DEF Filled
<1> HIDE DEF b, total, r
<1>7. r \in Streams /\ r.buffer = b /\ r.fill = q.fill + total /\ r.played = q.played
      /\ r.sound = q.sound
  BY <1>1, <1>2, <1>5, <1>6 DEF Streams
<1>8. Exact(r)
  <2>1. q.fill = Len(FlattenSeq(q.buffer)) + Headers(Len(q.buffer))
    BY DEF Exact
  <2>2. Headers(Len(b)) = Headers(Len(q.buffer)) + HeaderSize /\ Headers(Len(q.buffer)) \in Nat
    BY <1>2, HeadersFact
  <2>3. HeaderSize \in Nat
    BY HeaderTypes
  <2>4. q.fill + total = Len(FlattenSeq(b)) + Headers(Len(b))
    BY <1>4, <1>5, <2>1, <2>2, <2>3
  <2> QED BY <1>7, <2>4 DEF Exact
<1>9. HeardOf(r) = HeardOf(q) \o block
  <2>1. Concat(q.played, Concat(FlattenSeq(q.buffer), block)) =
            Concat(Concat(q.played, FlattenSeq(q.buffer)), block)
    <3>1. \A x, y, z \in Seq(Frame) : Concat(x, Concat(y, z)) = Concat(Concat(x, y), z)
      BY ConcatFact
    <3> QED BY <1>1, <1>3, <3>1
  <2> QED BY <1>3, <1>7, <2>1 DEF HeardOf, Concat
<1> QED BY <1>7, <1>8, <1>9 DEF total, r

\* A sequence is its two halves.
LEMMA HalvesFact ==
    ASSUME NEW S, NEW s \in Seq(S), NEW n \in 1..Len(s)
    PROVE  /\ SubSeq(s, 1, n) \in Seq(S) /\ Len(SubSeq(s, 1, n)) = n
           /\ SubSeq(s, n + 1, Len(s)) \in Seq(S) /\ Len(SubSeq(s, n + 1, Len(s))) = Len(s) - n
           /\ s = SubSeq(s, 1, n) \o SubSeq(s, n + 1, Len(s))
<1> DEFINE t == SubSeq(s, 1, n)
           u == SubSeq(s, n + 1, Len(s))
<1>1. Len(s) \in Nat /\ n \in Nat /\ n <= Len(s)
  OBVIOUS
<1>2. t \in Seq(S) /\ Len(t) = n /\ \A i \in 1..n : t[i] = s[i]
  BY <1>1
<1>3. u \in Seq(S) /\ Len(u) = Len(s) - n /\ \A i \in 1..(Len(s) - n) : u[i] = s[n + i]
  BY <1>1
<1> HIDE DEF t, u
<1>a. /\ t \o u \in Seq(S) /\ Len(t \o u) = Len(t) + Len(u)
      /\ \A i \in 1..(Len(t) + Len(u)) : (t \o u)[i] = IF i <= Len(t) THEN t[i] ELSE u[i - Len(t)]
  BY <1>2, <1>3, ConcatProperties
<1>b. Len(t) + Len(u) = Len(s)
  BY <1>1, <1>2, <1>3
<1>4. /\ t \o u \in Seq(S) /\ Len(t \o u) = Len(s)
      /\ \A i \in 1..Len(s) : (t \o u)[i] = IF i <= n THEN t[i] ELSE u[i - n]
  BY <1>2, <1>a, <1>b
<1>5. ASSUME NEW i \in 1..Len(s)
      PROVE  (t \o u)[i] = s[i]
  <2>1. i \in 1..Len(s)
    OBVIOUS
  <2>2. CASE i <= n
    <3>1. i \in 1..n
      BY <1>1, <2>2
    <3> QED BY <1>2, <1>4, <2>2, <3>1
  <2>3. CASE i > n
    <3>1. i - n \in 1..(Len(s) - n) /\ n + (i - n) = i /\ ~(i <= n)
      BY <1>1, <2>3
    <3>2. u[i - n] = s[n + (i - n)]
      BY <1>3, <3>1
    <3>3. (t \o u)[i] = u[i - n]
      BY <1>4, <2>3, <3>1
    <3>4. s[n + (i - n)] = s[i]
      BY <3>1
    <3> QED BY <3>2, <3>3, <3>4
  <2>4. i <= n \/ i > n
    BY <1>1
  <2> QED BY <2>2, <2>3, <2>4
<1>6. s = t \o u
  BY <1>1, <1>4, <1>5, SeqEqual
<1> QED BY <1>2, <1>3, <1>6 DEF t, u

\* A sequence with another element.
Replaced(s, i, x) == [s EXCEPT ![i] = x]

LEMMA ReplaceFact ==
    ASSUME NEW S, NEW s \in Seq(S), NEW x \in S, NEW i \in DOMAIN s
    PROVE  /\ Replaced(s, i, x) \in Seq(S) /\ Len(Replaced(s, i, x)) = Len(s)
           /\ DOMAIN Replaced(s, i, x) = DOMAIN s
           /\ Replaced(s, i, x)[i] = x
           /\ \A j \in DOMAIN s : j # i => Replaced(s, i, x)[j] = s[j]
<1> DEFINE n == Len(s)
           t == [s EXCEPT ![i] = x]
<1>1. n \in Nat /\ s \in [1..n -> S] /\ DOMAIN s = 1..n
  OBVIOUS
<1>2. t \in [1..n -> S]
  BY <1>1
<1>3. t \in Seq(S) /\ Len(t) = n /\ DOMAIN t = DOMAIN s
  BY <1>1, <1>2
<1>4. t[i] = x /\ \A j \in 1..n : j # i => t[j] = s[j]
  BY <1>1
<1> QED BY <1>1, <1>3, <1>4 DEF Replaced

\* The device takes frames of the oldest block.
Emptied(q, n) ==
    [q EXCEPT
        !.buffer = IF n < Len(q.buffer[1])
                   THEN [@ EXCEPT ![1] = SubSeq(q.buffer[1], n + 1, Len(q.buffer[1]))]
                   ELSE Tail(@),
        !.fill   = @ - IF n < Len(q.buffer[1]) THEN n ELSE TotalSize(n),
        !.played = @ \o SubSeq(q.buffer[1], 1, n)]

LEMMA ConsumeFact ==
    ASSUME NEW q \in Streams, Exact(q), q.buffer # <<>>, NEW n \in 1..Len(q.buffer[1]), NEW r,
           r = Emptied(q, n)
    PROVE  /\ r \in Streams /\ Exact(r) /\ r.fill <= q.fill
           /\ HeardOf(r) = HeardOf(q) /\ r.sound = q.sound
<1> DEFINE block == q.buffer[1]
           taken == SubSeq(block, 1, n)
           left == SubSeq(block, n + 1, Len(block))
           rest == Tail(q.buffer)
           b == IF n < Len(block) THEN [q.buffer EXCEPT ![1] = left] ELSE rest
           size == IF n < Len(block) THEN n ELSE TotalSize(n)
<1>1. /\ q.buffer \in Seq(Seq(Frame)) /\ q.played \in Seq(Frame) /\ q.fill \in Nat
      /\ q.sound \in Sounds
  BY DEF Streams
<1>2. /\ block \in Seq(Frame) /\ rest \in Seq(Seq(Frame)) /\ block = Head(q.buffer)
      /\ Len(q.buffer) = Len(rest) + 1 /\ Len(rest) \in Nat /\ Len(block) \in Nat
  BY <1>1
<1>3. /\ taken \in Seq(Frame) /\ Len(taken) = n
      /\ left \in Seq(Frame) /\ Len(left) = Len(block) - n /\ block = taken \o left
  <2>1. n \in 1..Len(block)
    OBVIOUS
  <2> HIDE DEF block
  <2> QED BY <1>2, <2>1, HalvesFact
<1>4. /\ FlattenSeq(q.buffer) = block \o FlattenSeq(rest) /\ FlattenSeq(rest) \in Seq(Frame)
  BY <1>1, <1>2, FlattenTail, FlattenType
<1>5. r = [q EXCEPT !.buffer = b, !.fill = q.fill - size, !.played = q.played \o taken]
  BY DEF Emptied
<1>6. /\ b \in Seq(Seq(Frame)) /\ FlattenSeq(b) = left \o FlattenSeq(rest)
      /\ Len(b) = Len(rest) + IF n < Len(block) THEN 1 ELSE 0
  <2>1. CASE n < Len(block)
    <3> DEFINE c == Replaced(q.buffer, 1, left)
    <3>0. b = c
      BY <2>1 DEF Replaced
    <3> HIDE DEF b, left, block, rest, c
    <3>a. q.buffer \in Seq(Seq(Frame)) /\ left \in Seq(Frame) /\ 1 \in DOMAIN q.buffer
      BY <1>1, <1>2, <1>3
    <3>1. c \in Seq(Seq(Frame)) /\ Len(c) = Len(q.buffer) /\ c[1] = left
          /\ \A i \in DOMAIN q.buffer : i # 1 => c[i] = q.buffer[i]
      <4> DEFINE S == Seq(Frame)
      <4>1. q.buffer \in Seq(S) /\ left \in S /\ 1 \in DOMAIN q.buffer
        BY <3>a
      <4> HIDE DEF S
      <4>2. /\ Replaced(q.buffer, 1, left) \in Seq(S)
            /\ Len(Replaced(q.buffer, 1, left)) = Len(q.buffer)
            /\ Replaced(q.buffer, 1, left)[1] = left
            /\ \A i \in DOMAIN q.buffer : i # 1 => Replaced(q.buffer, 1, left)[i] = q.buffer[i]
        BY <4>1, ReplaceFact
      <4> QED BY <4>2 DEF c, S
    <3>2. c # <<>> /\ Head(c) = left
      BY <1>2, <3>1
    <3>3. Tail(c) \in Seq(Seq(Frame)) /\ Len(Tail(c)) = Len(rest)
      BY <1>2, <3>1, <3>2
    <3>4. \A i \in 1..Len(rest) : Tail(c)[i] = rest[i]
      <4> TAKE i \in 1..Len(rest)
      <4>1. i + 1 \in DOMAIN q.buffer /\ i + 1 # 1
        BY <1>1, <1>2
      <4>2. Tail(c)[i] = c[i + 1]
        BY <1>2, <3>1, <3>2
      <4>3. rest[i] = q.buffer[i + 1]
        BY <1>1, <1>2 DEF rest
      <4> QED BY <3>1, <4>1, <4>2, <4>3
    <3>5. Tail(c) = rest
      BY <1>2, <3>3, <3>4, SeqEqual
    <3>6. FlattenSeq(c) = left \o FlattenSeq(rest)
      BY <3>1, <3>2, <3>5, FlattenTail
    <3> QED BY <1>2, <2>1, <3>0, <3>1, <3>6
  <2>2. CASE ~(n < Len(block))
    <3>1. left = <<>>
      BY <1>2, <1>3, <2>2
    <3> HIDE DEF left, rest, block
    <3>2. left \o FlattenSeq(rest) = FlattenSeq(rest) /\ b = rest
      <4> DEFINE f == FlattenSeq(rest)
      <4>1. f \in Seq(Frame)
        BY <1>4
      <4> HIDE DEF f
      <4>2. <<>> \o f = f
        BY <4>1
      <4> QED BY <2>2, <3>1, <4>2 DEF f, b, rest
    <3> QED BY <1>2, <2>2, <3>2
  <2> QED BY <2>1, <2>2
<1>7. n \in Nat /\ n <= Len(block)
  BY <1>2
<1>8. size \in Nat /\ size = n + IF n < Len(block) THEN 0 ELSE HeaderSize
  BY <1>7, HeaderTypes DEF TotalSize
<1> HIDE DEF b, size, left, taken, rest, block
<1>9. Len(FlattenSeq(q.buffer)) = Len(block) + Len(FlattenSeq(rest))
      /\ Len(FlattenSeq(b)) = Len(block) - n + Len(FlattenSeq(rest))
      /\ Len(FlattenSeq(rest)) \in Nat
  <2> DEFINE f == FlattenSeq(rest)
  <2>1. f \in Seq(Frame) /\ FlattenSeq(q.buffer) = block \o f /\ FlattenSeq(b) = left \o f
    BY <1>4, <1>6
  <2> HIDE DEF f
  <2>2. Len(block \o f) = Len(block) + Len(f) /\ Len(left \o f) = Len(left) + Len(f)
        /\ Len(f) \in Nat
    BY <1>2, <1>3, <2>1, ConcatProperties, LenProperties
  <2> QED BY <1>3, <2>1, <2>2 DEF f
<1>10. q.fill = Len(block) + Len(FlattenSeq(rest)) + Headers(Len(rest)) + HeaderSize
       /\ Headers(Len(rest)) \in Nat
  <2>1. q.fill = Len(FlattenSeq(q.buffer)) + Headers(Len(q.buffer))
    BY DEF Exact
  <2>2. Headers(Len(q.buffer)) = Headers(Len(rest)) + HeaderSize /\ Headers(Len(rest)) \in Nat
    BY <1>2, HeadersFact
  <2> DEFINE x == Len(block)
             f == Len(FlattenSeq(rest))
             h == Headers(Len(rest))
  <2>3. /\ x \in Nat /\ f \in Nat /\ h \in Nat /\ HeaderSize \in Nat
        /\ q.fill = x + f + (h + HeaderSize)
    BY <1>2, <1>9, <2>1, <2>2, HeaderTypes
  <2> HIDE DEF x, f, h
  <2>4. q.fill = x + f + h + HeaderSize
    BY <2>3
  <2> QED BY <2>3, <2>4 DEF x, f, h
<1>11. q.fill - size \in Nat /\ q.fill - size <= q.fill
  <2>1. HeaderSize \in Nat
    BY HeaderTypes
  <2>2. q.fill \in Nat /\ size \in Nat
    BY <1>1, <1>8
  <2>3. size <= q.fill
    <3> DEFINE l == Len(block)
               f == Len(FlattenSeq(rest))
               h == Headers(Len(rest))
    <3>1. l \in Nat /\ f \in Nat /\ h \in Nat /\ n \in Nat /\ n <= l
      BY <1>2, <1>7, <1>9, <1>10
    <3>2. q.fill = l + f + h + HeaderSize
      BY <1>10
    <3>3. size <= n + HeaderSize
      BY <1>8, <2>1, <3>1
    <3> HIDE DEF l, f, h
    <3> QED BY <2>1, <2>2, <3>1, <3>2, <3>3
  <2> QED BY <2>2, <2>3
<1>12. q.played \o taken \in Seq(Frame)
  BY <1>1, <1>3
<1>13. r \in Streams /\ r.buffer = b /\ r.fill = q.fill - size /\ r.played = q.played \o taken
       /\ r.sound = q.sound
  BY <1>1, <1>5, <1>6, <1>11, <1>12 DEF Streams
<1>14. Exact(r)
  <2>1. Headers(Len(b)) = Headers(Len(rest)) + IF n < Len(block) THEN HeaderSize ELSE 0
    <3>1. CASE n < Len(block)
      BY <1>2, <1>6, <3>1, HeadersFact
    <3>2. CASE ~(n < Len(block))
      BY <1>2, <1>6, <1>10, <3>2
    <3> QED BY <3>1, <3>2
  <2>2. HeaderSize \in Nat
    BY HeaderTypes
  <2>3. q.fill - size = Len(FlattenSeq(b)) + Headers(Len(b))
    <3> DEFINE x == Len(block)
               f == Len(FlattenSeq(rest))
               h == Headers(Len(rest))
               ff == Len(FlattenSeq(b))
               hh == Headers(Len(b))
    <3>1. /\ x \in Nat /\ f \in Nat /\ h \in Nat /\ n \in Nat
          /\ ff = x - n + f /\ q.fill = x + f + h + HeaderSize
          /\ hh = h + IF n < x THEN HeaderSize ELSE 0
          /\ size = n + IF n < x THEN 0 ELSE HeaderSize
      BY <1>2, <1>7, <1>8, <1>9, <1>10, <2>1
    <3> HIDE DEF x, f, h, ff, hh
    <3>2. q.fill - size = ff + hh
      <4>1. CASE n < x
        BY <2>2, <3>1, <4>1
      <4>2. CASE ~(n < x)
        BY <2>2, <3>1, <4>2
      <4> QED BY <4>1, <4>2
    <3> QED BY <3>2 DEF ff, hh
  <2> QED BY <1>13, <2>3 DEF Exact
<1>15. HeardOf(r) = HeardOf(q)
  <2> DEFINE f == FlattenSeq(rest)
  <2>1. f \in Seq(Frame)
    BY <1>4
  <2>2. HeardOf(r) = Concat(Concat(q.played, taken), Concat(left, f))
    BY <1>6, <1>13 DEF HeardOf, Concat
  <2>3. HeardOf(q) = Concat(q.played, Concat(Concat(taken, left), f))
    BY <1>3, <1>4 DEF HeardOf, Concat
  <2> HIDE DEF f
  <2>4. Concat(taken, left) \in Seq(Frame) /\ Concat(left, f) \in Seq(Frame)
    BY <1>3, <2>1, ConcatFact
  <2>5. Concat(Concat(taken, left), f) = Concat(taken, Concat(left, f))
    BY <1>3, <2>1, ConcatFact
  <2>6. Concat(q.played, Concat(taken, Concat(left, f))) =
            Concat(Concat(q.played, taken), Concat(left, f))
    <3>1. \A x, y, z \in Seq(Frame) : Concat(x, Concat(y, z)) = Concat(Concat(x, y), z)
      BY ConcatFact
    <3> QED BY <1>1, <1>3, <2>4, <3>1
  <2> QED BY <2>2, <2>3, <2>5, <2>6
<1> QED BY <1>11, <1>13, <1>14, <1>15

-----------------------------------------------------------------------------
(* The streams and the codecs they share *)

\* What is heard of a stream is in order, and of its sound.
StreamKept(q, dd) ==
    /\ Exact(q) /\ q.fill <= BufferSize
    /\ Ascending(HeardOf(q)) /\ Range(HeardOf(q)) \subseteq 1..Frames(q.sound, dd[q.sound])

\* Every decoded frame is heard of one stream.
AllHeard(ss, dd) ==
    \A s \in Sounds : \A f \in 1..Frames(s, dd[s]) :
        \E k \in DOMAIN ss : ss[k].sound = s /\ f \in Range(HeardOf(ss[k]))

\* And of no other.
HeardOnce(ss) ==
    \A k, l \in DOMAIN ss : (k # l /\ ss[k].sound = ss[l].sound) =>
        Range(HeardOf(ss[k])) \cap Range(HeardOf(ss[l])) = {}

StreamsKept(ss, dd) ==
    /\ ss \in Seq(Streams) /\ dd \in [Sounds -> Nat]
    /\ \A s \in Sounds : dd[s] <= Len(Blocks[s])
    /\ \A k \in DOMAIN ss : StreamKept(ss[k], dd)
    /\ AllHeard(ss, dd) /\ HeardOnce(ss)

\* A stream changes and is heard as before.
LEMMA SameKept ==
    ASSUME NEW ss, NEW dd, StreamsKept(ss, dd), NEW k \in DOMAIN ss, NEW r \in Streams, NEW tt,
           tt = Replaced(ss, k, r), Exact(r), r.fill <= BufferSize,
           HeardOf(r) = HeardOf(ss[k]), r.sound = ss[k].sound
    PROVE  StreamsKept(tt, dd)
<1>1. ss \in Seq(Streams) /\ dd \in [Sounds -> Nat] /\ \A s \in Sounds : dd[s] <= Len(Blocks[s])
  BY DEF StreamsKept
<1>2. /\ tt \in Seq(Streams) /\ DOMAIN tt = DOMAIN ss /\ tt[k] = r
      /\ \A j \in DOMAIN ss : j # k => tt[j] = ss[j]
  BY <1>1, ReplaceFact
<1>3. \A j \in DOMAIN ss : HeardOf(tt[j]) = HeardOf(ss[j]) /\ tt[j].sound = ss[j].sound
  BY <1>2
<1>4. \A j \in DOMAIN tt : StreamKept(tt[j], dd)
  <2> TAKE j \in DOMAIN tt
  <2>1. j \in DOMAIN ss /\ StreamKept(ss[j], dd)
    BY <1>2 DEF StreamsKept
  <2>2. Exact(tt[j]) /\ tt[j].fill <= BufferSize
    BY <1>2, <2>1 DEF StreamKept
  <2> QED BY <1>3, <2>1, <2>2 DEF StreamKept
<1>5. AllHeard(tt, dd) /\ HeardOnce(tt)
  <2>1. AllHeard(ss, dd) /\ HeardOnce(ss)
    BY DEF StreamsKept
  <2>2. ASSUME NEW s \in Sounds, NEW f \in 1..Frames(s, dd[s])
        PROVE  \E j \in DOMAIN tt : tt[j].sound = s /\ f \in Range(HeardOf(tt[j]))
    <3>1. PICK j \in DOMAIN ss : ss[j].sound = s /\ f \in Range(HeardOf(ss[j]))
      BY <2>1 DEF AllHeard, HeardOnce
    <3> QED BY <1>2, <1>3, <3>1
  <2>3. ASSUME NEW j \in DOMAIN tt, NEW l \in DOMAIN tt, j # l, tt[j].sound = tt[l].sound
        PROVE  Range(HeardOf(tt[j])) \cap Range(HeardOf(tt[l])) = {}
    <3>1. j \in DOMAIN ss /\ l \in DOMAIN ss /\ ss[j].sound = ss[l].sound
      BY <1>2, <1>3, <2>3
    <3>2. Range(HeardOf(ss[j])) \cap Range(HeardOf(ss[l])) = {}
      BY <2>1, <2>3, <3>1 DEF AllHeard, HeardOnce
    <3> QED BY <1>3, <3>1, <3>2
  <2> QED BY <2>2, <2>3 DEF AllHeard, HeardOnce
<1> QED BY <1>1, <1>2, <1>4, <1>5 DEF StreamsKept

\* A stream that was heard of nothing joins.
LEMMA NewKept ==
    ASSUME NEW ss, NEW dd, StreamsKept(ss, dd), NEW r \in Streams,
           Exact(r), r.fill <= BufferSize, HeardOf(r) = <<>>
    PROVE  StreamsKept(Append(ss, r), dd)
<1> DEFINE tt == Append(ss, r)
           n == Len(ss) + 1
<1>1. ss \in Seq(Streams) /\ dd \in [Sounds -> Nat] /\ \A s \in Sounds : dd[s] <= Len(Blocks[s])
  BY DEF StreamsKept
<1>2. /\ tt \in Seq(Streams) /\ DOMAIN tt = DOMAIN ss \cup {n} /\ n \notin DOMAIN ss
      /\ tt[n] = r /\ \A j \in DOMAIN ss : tt[j] = ss[j]
  BY <1>1
<1>3. Range(HeardOf(r)) = {} /\ Ascending(HeardOf(r))
  BY DEF Range, Ascending
<1> HIDE DEF tt, n
<1>4. \A j \in DOMAIN tt : StreamKept(tt[j], dd)
  BY <1>2, <1>3 DEF StreamsKept, StreamKept
<1>5. AllHeard(tt, dd) /\ HeardOnce(tt)
  <2>1. AllHeard(ss, dd) /\ HeardOnce(ss)
    BY DEF StreamsKept
  <2>2. AllHeard(tt, dd)
    <3> SUFFICES ASSUME NEW s \in Sounds, NEW f \in 1..Frames(s, dd[s])
                 PROVE  \E j \in DOMAIN tt : tt[j].sound = s /\ f \in Range(HeardOf(tt[j]))
      BY DEF AllHeard
    <3>1. PICK j \in DOMAIN ss : ss[j].sound = s /\ f \in Range(HeardOf(ss[j]))
      BY <2>1 DEF AllHeard
    <3> QED BY <1>2, <3>1
  <2>3. HeardOnce(tt)
    BY <1>2, <1>3, <2>1 DEF HeardOnce
  <2> QED BY <2>2, <2>3
<1>6. StreamsKept(tt, dd)
  BY <1>1, <1>2, <1>4, <1>5 DEF StreamsKept
<1> QED BY <1>6 DEF tt

\* The next block of a sound goes to one of its streams.
CanTake(q, dd) == dd[q.sound] < Len(Blocks[q.sound]) /\ BufferSize - q.fill > 2 * MaxFrames
NextBlock(s, dd) == FramesAfter(Frames(s, dd[s]), Blocks[s][dd[s] + 1])
Counted(dd, s) == [dd EXCEPT ![s] = @ + 1]

LEMMA BlockKept ==
    ASSUME NEW ss, NEW dd, StreamsKept(ss, dd), NEW k \in DOMAIN ss, CanTake(ss[k], dd)
    PROVE  StreamsKept(Replaced(ss, k, Filled(ss[k], NextBlock(ss[k].sound, dd))),
                       Counted(dd, ss[k].sound))
<1> DEFINE q == ss[k]
           s == q.sound
           d == dd[s]
           m == Frames(s, d)
           len == Blocks[s][d + 1]
           block == NextBlock(s, dd)
           r == Filled(q, block)
           tt == Replaced(ss, k, r)
           ee == Counted(dd, s)
           h == HeardOf(q)
           old == 1..m
           new == (m + 1)..(m + len)
<1>1. ss \in Seq(Streams) /\ dd \in [Sounds -> Nat] /\ \A y \in Sounds : dd[y] <= Len(Blocks[y])
  BY DEF StreamsKept
<1> HIDE DEF q, s, d, m, len, block, r, tt, ee, h, old, new
<1>2. q \in Streams /\ s \in Sounds /\ d \in Nat
  <2>1. q \in Streams
    BY <1>1 DEF q
  <2>2. s \in Sounds
    BY <2>1 DEF Streams, s
  <2> QED BY <1>1, <2>1, <2>2 DEF d
<1>3. d < Len(Blocks[s]) /\ BufferSize - q.fill > 2 * MaxFrames
  BY DEF CanTake, q, s, d
<1>4. m \in Nat /\ len \in 1..MaxFrames /\ Frames(s, d + 1) = m + len
  BY <1>2, <1>3, FramesGrow DEF m, len
<1>5. len \in Nat /\ len <= MaxFrames /\ MaxFrames \in Nat
  BY <1>4, HeaderTypes
<1>6. block \in Seq(Frame) /\ Len(block) = len /\ block = FramesAfter(m, len)
  <2>1. block = FramesAfter(m, len)
    BY DEF block, NextBlock, m, len, d
  <2> QED BY <1>4, <1>5, <2>1 DEF Frame, FramesAfter
<1>7. StreamKept(q, dd) /\ Exact(q)
  BY DEF StreamsKept, StreamKept, q
<1>8. /\ r \in Streams /\ Exact(r) /\ r.fill = q.fill + TotalSize(len)
      /\ HeardOf(r) = h \o block /\ r.sound = s
  <2>1. /\ r \in Streams /\ Exact(r) /\ r.fill = q.fill + TotalSize(Len(block))
        /\ HeardOf(r) = HeardOf(q) \o block /\ r.sound = q.sound
    BY <1>2, <1>6, <1>7, CommitFact DEF r
  <2> QED BY <1>6, <2>1 DEF h, s
<1>9. r.fill <= BufferSize
  <2>1. q.fill \in Nat /\ BufferSize \in Nat /\ HeaderSize \in Nat /\ HeaderSize <= MaxFrames
    BY <1>2, HeaderTypes, AudioAssumption DEF Streams
  <2>2. r.fill = q.fill + (len + HeaderSize)
    BY <1>8 DEF TotalSize
  <2>3. len + HeaderSize <= 2 * MaxFrames
    BY <1>5, <2>1
  <2> QED BY <1>3, <1>5, <2>1, <2>2, <2>3
<1>10. h \in Seq(Nat) /\ Ascending(h) /\ Range(h) \subseteq old
  <2>1. q.played \in Seq(Nat) /\ q.buffer \in Seq(Seq(Nat))
    BY <1>2 DEF Streams, Frame
  <2>2. FlattenSeq(q.buffer) \in Seq(Nat)
    BY <2>1, FlattenType
  <2>3. h \in Seq(Nat)
    BY <2>1, <2>2 DEF HeardOf, h
  <2> QED BY <1>7, <2>3 DEF StreamKept, h, old, m, d, s
<1>11. Ascending(HeardOf(r)) /\ Range(HeardOf(r)) = Range(h) \cup new
  <2>1. /\ Ascending(h \o FramesAfter(m, len))
        /\ Range(h \o FramesAfter(m, len)) = Range(h) \cup new
    BY <1>4, <1>5, <1>10, AscendingFact DEF old, new
  <2> QED BY <1>6, <1>8, <2>1
<1>12. /\ tt \in Seq(Streams) /\ DOMAIN tt = DOMAIN ss /\ tt[k] = r
       /\ \A j \in DOMAIN ss : j # k => tt[j] = ss[j]
  BY <1>1, <1>8, ReplaceFact DEF tt
<1>13. /\ ee \in [Sounds -> Nat] /\ ee[s] = d + 1 /\ \A y \in Sounds : y # s => ee[y] = dd[y]
  BY <1>1, <1>2 DEF Counted, ee, d
<1>14. \A y \in Sounds : ee[y] <= Len(Blocks[y])
  <2>1. Len(Blocks[s]) \in Nat
    BY <1>2, AudioAssumption
  <2>2. d + 1 <= Len(Blocks[s])
    BY <1>2, <1>3, <2>1
  <2>3. ee[s] <= Len(Blocks[s])
    BY <1>13, <2>2
  <2> QED BY <1>1, <1>13, <2>3
<1>15. Frames(s, ee[s]) = m + len /\ \A y \in Sounds : y # s => Frames(y, ee[y]) = Frames(y, dd[y])
  BY <1>4, <1>13
<1>16. 1..Frames(s, ee[s]) = old \cup new /\ old \cap new = {} /\ old = 1..Frames(s, dd[s])
  <2>1. 1..(m + len) = (1..m) \cup ((m + 1)..(m + len))
    BY <1>4, <1>5
  <2>2. (1..m) \cap ((m + 1)..(m + len)) = {}
    BY <1>4, <1>5
  <2> QED BY <1>15, <2>1, <2>2 DEF old, new, m, d
<1>17. \A j \in DOMAIN ss : ss[j].sound \in Sounds /\ StreamKept(ss[j], dd)
  <2> TAKE j \in DOMAIN ss
  <2>1. ss[j] \in Streams
    BY <1>1
  <2>2. ss[j].sound \in Sounds
    BY <2>1 DEF Streams
  <2> QED BY <2>2 DEF StreamsKept
<1>18. \A j \in DOMAIN tt : StreamKept(tt[j], ee)
  <2> TAKE j \in DOMAIN tt
  <2>1. CASE j = k
    <3>1. Range(HeardOf(r)) \subseteq 1..Frames(s, ee[s])
      BY <1>10, <1>11, <1>16
    <3> QED BY <1>8, <1>9, <1>11, <1>12, <2>1, <3>1 DEF StreamKept
  <2>2. CASE j # k
    <3> DEFINE p == ss[j]
               y == p.sound
    <3>1. j \in DOMAIN ss /\ tt[j] = p /\ y \in Sounds /\ StreamKept(p, dd)
      BY <1>12, <1>17, <2>2
    <3> HIDE DEF p
    <3>2. 1..Frames(y, dd[y]) \subseteq 1..Frames(y, ee[y])
      <4>1. CASE y = s
        BY <1>16, <4>1
      <4>2. CASE y # s
        BY <1>15, <3>1, <4>2
      <4> QED BY <4>1, <4>2
    <3> QED BY <3>1, <3>2 DEF StreamKept
  <2> QED BY <2>1, <2>2
<1>19. AllHeard(tt, ee) /\ HeardOnce(tt)
  <2>1. AllHeard(ss, dd) /\ HeardOnce(ss)
    BY DEF StreamsKept
  <2>2. \A j \in DOMAIN ss : ss[j].sound = s => Range(HeardOf(ss[j])) \subseteq old
    BY <1>16, <1>17 DEF StreamKept
  <2>3. ss[k].sound = s /\ r.sound = s /\ Range(HeardOf(r)) = Range(HeardOf(ss[k])) \cup new
    BY <1>8, <1>11 DEF h, q, s
  <2>4. 1..Frames(s, ee[s]) = (1..Frames(s, dd[s])) \cup new /\ old \cap new = {}
    BY <1>16
  <2>5. /\ DOMAIN tt = DOMAIN ss /\ tt[k] = r /\ \A j \in DOMAIN ss : j # k => tt[j] = ss[j]
        /\ \A y \in Sounds : y # s => Frames(y, ee[y]) = Frames(y, dd[y])
    BY <1>12, <1>15
  <2>6. ASSUME NEW y \in Sounds, NEW f \in 1..Frames(y, ee[y])
        PROVE  \E j \in DOMAIN tt : tt[j].sound = y /\ f \in Range(HeardOf(tt[j]))
    <3>1. CASE y = s /\ f \in new
      BY <2>3, <2>5, <3>1
    <3>2. CASE ~(y = s /\ f \in new)
      <4>1. f \in 1..Frames(y, dd[y])
        BY <2>4, <2>5, <3>2
      <4>2. PICK j \in DOMAIN ss : ss[j].sound = y /\ f \in Range(HeardOf(ss[j]))
        BY <2>1, <4>1 DEF AllHeard
      <4> QED BY <2>3, <2>5, <4>2
    <3> QED BY <3>1, <3>2
  <2>7. ASSUME NEW j \in DOMAIN ss, j # k, ss[j].sound = s
        PROVE  Range(HeardOf(r)) \cap Range(HeardOf(ss[j])) = {}
    <3>1. Range(HeardOf(ss[k])) \cap Range(HeardOf(ss[j])) = {}
      <4>1. k \in DOMAIN ss /\ k # j /\ ss[k].sound = ss[j].sound
        BY <2>3, <2>7
      <4> QED BY <2>1, <4>1 DEF HeardOnce
    <3>2. Range(HeardOf(ss[j])) \subseteq old
      BY <2>2, <2>7
    <3> QED BY <2>3, <2>4, <3>1, <3>2
  <2>8. ASSUME NEW j \in DOMAIN tt, NEW l \in DOMAIN tt, j # l, tt[j].sound = tt[l].sound
        PROVE  Range(HeardOf(tt[j])) \cap Range(HeardOf(tt[l])) = {}
    <3>1. CASE j = k
      BY <2>3, <2>5, <2>7, <2>8, <3>1
    <3>2. CASE l = k
      BY <2>3, <2>5, <2>7, <2>8, <3>2
    <3>3. CASE j # k /\ l # k
      BY <2>1, <2>5, <2>8, <3>3 DEF HeardOnce
    <3> QED BY <3>1, <3>2, <3>3
  <2>9. AllHeard(tt, ee)
    BY <2>6 DEF AllHeard
  <2>10. HeardOnce(tt)
    BY <2>8 DEF HeardOnce
  <2> QED BY <2>9, <2>10
<1>20. StreamsKept(tt, ee)
  BY <1>12, <1>13, <1>14, <1>18, <1>19 DEF StreamsKept
<1> QED BY <1>20 DEF tt, ee, r, block, s, q

-----------------------------------------------------------------------------
(* The station *)

AudioTyped ==
    /\ playing \in BOOLEAN /\ toPlay \in Seq(Sounds)
    /\ at \in [step : {"out", "loop", "take", "first", "refill"}, index : Nat]
    /\ at.index <= Len(streams)
    /\ at.step \in {"first", "refill"} => at.index \in DOMAIN streams

AudioKept == AudioTyped /\ StreamsKept(streams, decoded)

\* What a run of the station or a device does to the streams leaves the rest.
LEMMA FlushKeeps ==
    ASSUME AudioKept, NEW k \in DOMAIN streams, Flush(k)
    PROVE  AudioKept'
<1> DEFINE q == streams[k]
<1>1. StreamsKept(streams, decoded) /\ CanTake(q, decoded)
  BY DEF AudioKept, Flush, Flushes, HasFree, CanTake
<1>2. streams \in Seq(Streams) /\ decoded \in [Sounds -> Nat]
  BY <1>1 DEF StreamsKept
<1>3. decoded' = Counted(decoded, q.sound)
  BY DEF Flush, Counted
<1>4. Block(q.sound) = NextBlock(q.sound, decoded)
  BY DEF Block, NextBlock, FramesAfter
<1>5. streams' = Replaced(streams, k, Filled(q, NextBlock(q.sound, decoded)))
  <2>1. streams' = Committed(k, Block(q.sound))
    BY DEF Flush
  <2> DEFINE b == Block(q.sound)
  <2> HIDE DEF b
  <2>2. Committed(k, b) = Replaced(streams, k, Filled(q, b))
    BY <1>2 DEF Committed, Replaced, Filled
  <2> QED BY <1>4, <2>1, <2>2 DEF b
<1>6. StreamsKept(streams', decoded')
  BY <1>1, <1>3, <1>5, BlockKept
<1>7. Len(streams') = Len(streams) /\ DOMAIN streams' = DOMAIN streams
  <2>1. streams' \in Seq(Streams)
    BY <1>6 DEF StreamsKept
  <2>2. DOMAIN streams' = DOMAIN streams
    BY <1>5 DEF Replaced
  <2> QED BY <1>2, <2>1, <2>2
<1>8. AudioTyped'
  BY <1>7 DEF AudioKept, AudioTyped, Flush
<1> QED BY <1>6, <1>8 DEF AudioKept

LEMMA OnCanWriteKeeps ==
    ASSUME AudioKept, NEW k \in DOMAIN streams, NEW n \in 1..MaxFrames, OnCanWrite(k, n)
    PROVE  AudioKept'
<1> DEFINE q == streams[k]
           r == Emptied(q, n)
<1>1. StreamsKept(streams, decoded)
  BY DEF AudioKept
<1>2. streams \in Seq(Streams) /\ q \in Streams /\ StreamKept(q, decoded)
  BY <1>1 DEF StreamsKept
<1>3. Exact(q) /\ q.fill <= BufferSize /\ q.fill > 0 /\ n <= Len(q.buffer[1])
  BY <1>2 DEF StreamKept, OnCanWrite
<1>4. q.buffer # <<>>
  <2>1. SUFFICES ASSUME q.buffer = <<>> PROVE FALSE
    OBVIOUS
  <2>2. FlattenSeq(q.buffer) = <<>> /\ Len(q.buffer) = 0
    BY <2>1, FlattenEmpty
  <2>3. q.fill = 0
    <3>1. Headers(0) = 0
      BY HeaderTypes DEF Headers
    <3> QED BY <1>3, <2>2, <3>1 DEF Exact
  <2> QED BY <1>3, <2>3
<1>5. n \in 1..Len(q.buffer[1])
  <2>1. q.buffer \in Seq(Seq(Frame))
    BY <1>2 DEF Streams
  <2>2. Len(q.buffer[1]) \in Nat
    BY <1>4, <2>1
  <2> QED BY <1>3, <2>2, HeaderTypes
<1>6. streams' = Replaced(streams, k, r)
  BY <1>2 DEF OnCanWrite, Consumed, Replaced, Emptied
<1> HIDE DEF r, q
<1>7. r \in Streams /\ Exact(r) /\ r.fill <= q.fill /\ HeardOf(r) = HeardOf(q) /\ r.sound = q.sound
  BY <1>2, <1>3, <1>4, <1>5, ConsumeFact DEF r
<1>8. r.fill <= BufferSize
  <2>1. r.fill \in Nat /\ q.fill \in Nat /\ BufferSize \in Nat
    BY <1>2, <1>7, AudioAssumption DEF Streams
  <2> QED BY <1>3, <1>7, <2>1
<1>9. decoded' = decoded
  BY DEF OnCanWrite
<1>10. StreamsKept(streams', decoded')
  <2>1. StreamsKept(streams', decoded)
    BY <1>1, <1>6, <1>7, <1>8, SameKept DEF q
  <2> QED BY <1>9, <2>1
<1>11. Len(streams') = Len(streams) /\ DOMAIN streams' = DOMAIN streams
  BY <1>2, <1>6, <1>7, ReplaceFact
<1>12. AudioTyped'
  BY <1>11 DEF AudioKept, AudioTyped, OnCanWrite
<1> QED BY <1>10, <1>12 DEF AudioKept

LEMMA FirstKeeps ==
    ASSUME AudioKept, First
    PROVE  AudioKept'
<1> DEFINE k == at.index
<1>1. k \in DOMAIN streams /\ StreamsKept(streams, decoded)
  BY DEF AudioKept, AudioTyped, First
<1>2. CASE Flushes(k)
  BY <1>1, <1>2, FlushKeeps DEF First
<1>3. CASE ~Flushes(k)
  <2> DEFINE q == streams[k]
             r == [q EXCEPT !.started = TRUE]
  <2>1. streams \in Seq(Streams) /\ q \in Streams /\ StreamKept(q, decoded)
    BY <1>1 DEF StreamsKept
  <2>2. r \in Streams /\ r.fill = q.fill /\ r.buffer = q.buffer /\ r.played = q.played
        /\ r.sound = q.sound
    BY <2>1 DEF Streams
  <2>3. streams' = Replaced(streams, k, r) /\ decoded' = decoded /\ toPlay' = toPlay
        /\ playing' = playing /\ at' = [step |-> "take", index |-> 0]
    BY <1>3, <2>1 DEF First, StartedAt, Goes, Replaced
  <2> HIDE DEF r, q
  <2>4. Exact(r) /\ r.fill <= BufferSize /\ HeardOf(r) = HeardOf(q)
    BY <2>1, <2>2 DEF StreamKept, Exact, HeardOf
  <2>5. StreamsKept(streams', decoded)
    BY <1>1, <2>2, <2>3, <2>4, SameKept DEF q
  <2>6. AudioTyped'
    <3>1. Len(streams') \in Nat
      BY <2>5 DEF StreamsKept
    <3> QED BY <2>3, <3>1 DEF AudioKept, AudioTyped
  <2> QED BY <2>3, <2>5, <2>6 DEF AudioKept
<1> QED BY <1>2, <1>3

LEMMA RefillKeeps ==
    ASSUME AudioKept, Refill
    PROVE  AudioKept'
<1> DEFINE k == at.index
<1>1. k \in DOMAIN streams /\ StreamsKept(streams, decoded) /\ streams \in Seq(Streams)
  BY DEF AudioKept, AudioTyped, Refill, StreamsKept
<1>2. CASE Flushes(k)
  BY <1>1, <1>2, FlushKeeps DEF Refill
<1>3. CASE ~Flushes(k)
  <2>1. /\ UNCHANGED <<playing, toPlay, decoded, streams>>
        /\ \/ k < Len(streams) /\ at' = [step |-> "refill", index |-> k + 1]
           \/ at' = [step |-> "loop", index |-> 0]
    BY <1>3 DEF Refill, Goes
  <2>2. AudioTyped'
    BY <1>1, <2>1 DEF AudioKept, AudioTyped
  <2> QED BY <1>1, <2>1, <2>2 DEF AudioKept
<1> QED BY <1>2, <1>3

LEMMA TakeKeeps ==
    ASSUME AudioKept, Take
    PROVE  AudioKept'
<1> DEFINE r == [sound |-> Last(toPlay), buffer |-> <<>>, fill |-> 0,
                 started |-> FALSE, played |-> <<>>]
<1>1. StreamsKept(streams, decoded) /\ toPlay \in Seq(Sounds) /\ toPlay # <<>>
      /\ streams \in Seq(Streams)
  BY DEF AudioKept, AudioTyped, Take, StreamsKept
<1>2. Last(toPlay) \in Sounds /\ Tail(toPlay) \in Seq(Sounds)
  BY <1>1 DEF Last
<1>3. r \in Streams /\ r.fill = 0 /\ r.buffer = <<>> /\ r.played = <<>>
  BY <1>2 DEF Streams
<1>4. streams' = Append(streams, r) /\ toPlay' = Tail(toPlay) /\ UNCHANGED <<playing, decoded>>
      /\ at' = [step |-> "first", index |-> Len(streams) + 1]
  BY DEF Take, Popped, Goes
<1> HIDE DEF r
<1>5. Exact(r) /\ r.fill <= BufferSize /\ HeardOf(r) = <<>>
  <2>1. FlattenSeq(<<>>) = <<>> /\ Headers(0) = 0 /\ BufferSize \in Nat
    BY FlattenEmpty, HeaderTypes, AudioAssumption DEF Headers
  <2> QED BY <1>3, <2>1 DEF Exact, HeardOf
<1>6. StreamsKept(streams', decoded)
  BY <1>1, <1>3, <1>4, <1>5, NewKept
<1>7. AudioTyped'
  BY <1>1, <1>2, <1>3, <1>4 DEF AudioKept, AudioTyped
<1> QED BY <1>4, <1>6, <1>7 DEF AudioKept

LEMMA AudioKeptFact == AudioSpec => []AudioKept
<1>1. AudioInit => AudioKept
  <2> SUFFICES ASSUME AudioInit PROVE AudioKept
    OBVIOUS
  <2>1. streams = <<>> /\ decoded = [s \in Sounds |-> 0]
    BY DEF AudioInit
  <2>2. AudioTyped
    <3>1. toPlay \in Seq(Sounds) /\ Len(streams) = 0
      BY <2>1 DEF AudioInit
    <3>2. at = [step |-> "out", index |-> 0] /\ playing = FALSE
      BY DEF AudioInit, NotRunning
    <3>3. at \in [step : {"out", "loop", "take", "first", "refill"}, index : Nat]
      BY <3>2
    <3>4. at.index <= Len(streams) /\ at.step \notin {"first", "refill"}
      BY <3>1, <3>2
    <3> QED BY <3>1, <3>2, <3>3, <3>4 DEF AudioTyped
  <2>3. \A s \in Sounds : decoded[s] <= Len(Blocks[s]) /\ Frames(s, decoded[s]) = 0
    <3>1. \A s \in Sounds : Len(Blocks[s]) \in Nat
      BY AudioAssumption
    <3> QED BY <2>1, <3>1, FramesAre
  <2>4. AllHeard(streams, decoded) /\ HeardOnce(streams)
    BY <2>1, <2>3 DEF AllHeard, HeardOnce
  <2>5. streams \in Seq(Streams) /\ DOMAIN streams = {} /\ decoded \in [Sounds -> Nat]
    BY <2>1
  <2> QED BY <2>2, <2>3, <2>4, <2>5 DEF AudioKept, StreamsKept
<1>2. AudioKept /\ [AudioNext]_audioVars => AudioKept'
  <2> SUFFICES ASSUME AudioKept, [AudioNext]_audioVars PROVE AudioKept'
    OBVIOUS
  <2>1. CASE \E s \in Sounds : Play(s)
    BY <2>1 DEF AudioKept, AudioTyped, Play
  <2>2. CASE StopPlaying
    BY <2>2 DEF AudioKept, AudioTyped, StopPlaying
  <2>3. CASE RunStation
    <3>1. Len(streams) \in Nat
      BY DEF AudioKept, StreamsKept
    <3> QED BY <2>3, <3>1 DEF AudioKept, AudioTyped, RunStation
  <2>4. CASE Loop
    <3>1. Len(streams) \in Nat
      BY DEF AudioKept, StreamsKept
    <3> QED BY <2>4, <3>1 DEF AudioKept, AudioTyped, Loop, Goes, NotRunning
  <2>5. CASE Take
    BY <2>5, TakeKeeps
  <2>6. CASE TakeFails
    <3>1. Len(streams) \in Nat /\ Tail(toPlay) \in Seq(Sounds)
      BY <2>6 DEF AudioKept, AudioTyped, StreamsKept, TakeFails
    <3> QED BY <2>6, <3>1 DEF AudioKept, AudioTyped, TakeFails, Popped, NotRunning
  <2>7. CASE First
    BY <2>7, FirstKeeps
  <2>8. CASE NothingToTake
    <3>1. streams \in Seq(Streams)
      BY DEF AudioKept, StreamsKept
    <3> QED BY <2>8, <3>1 DEF AudioKept, AudioTyped, NothingToTake, Goes
  <2>9. CASE Refill
    BY <2>9, RefillKeeps
  <2>10. CASE \E k \in DOMAIN streams : Device(k)
    BY <2>10, OnCanWriteKeeps DEF Device
  <2>11. CASE UNCHANGED audioVars
    BY <2>11 DEF AudioKept, AudioTyped, audioVars
  <2> QED BY <2>1, <2>2, <2>3, <2>4, <2>5, <2>6, <2>7, <2>8, <2>9, <2>10, <2>11
          DEF AudioNext, Runs
<1> QED BY <1>1, <1>2, PTL DEF AudioSpec

\* Nothing is lost or overrun between the codecs and the devices, whatever the
\* sounds, the sizes of the blocks, the header and the buffers.
THEOREM AudioStaysWhole == AudioSpec => []AudioIsWhole
<1>1. AudioKept => AudioIsWhole
  <2> SUFFICES ASSUME AudioKept PROVE AudioIsWhole
    OBVIOUS
  <2>1. /\ streams \in Seq(Streams) /\ decoded \in [Sounds -> Nat]
        /\ \A s \in Sounds : decoded[s] <= Len(Blocks[s])
        /\ \A k \in DOMAIN streams : StreamKept(streams[k], decoded)
        /\ AllHeard(streams, decoded) /\ HeardOnce(streams)
    BY DEF AudioKept, StreamsKept
  <2>2. AudioTypeOK
    <3>1. \A s \in Sounds : decoded[s] \in 0..Len(Blocks[s])
      BY <2>1, AudioAssumption
    <3>2. at.index \in 0..Len(streams)
      BY <2>1 DEF AudioKept, AudioTyped
    <3> QED BY <3>1, <3>2 DEF AudioKept, AudioTyped, AudioTypeOK
  <2>3. BuffersAreExact
    BY <2>1 DEF BuffersAreExact, StreamKept, Exact, Headers
  <2>4. \A k \in DOMAIN streams : Heard(k) = HeardOf(streams[k])
    BY DEF Heard, HeardOf
  <2>5. \A k \in DOMAIN streams : \A i, j \in DOMAIN Heard(k) : i < j => Heard(k)[i] < Heard(k)[j]
    BY <2>1, <2>4 DEF StreamKept, Ascending
  <2>6. ASSUME NEW s \in Sounds
        PROVE  LET on == {k \in DOMAIN streams : streams[k].sound = s} IN
               /\ UNION {Range(Heard(k)) : k \in on} = 1..Frames(s, decoded[s])
               /\ \A k, l \in on : k # l => Range(Heard(k)) \cap Range(Heard(l)) = {}
    <3> DEFINE on == {k \in DOMAIN streams : streams[k].sound = s}
    <3>1. \A k \in on : Range(Heard(k)) \subseteq 1..Frames(s, decoded[s])
      BY <2>1, <2>4 DEF StreamKept
    <3>2. \A f \in 1..Frames(s, decoded[s]) : \E k \in on : f \in Range(Heard(k))
      BY <2>1, <2>4 DEF AllHeard
    <3>3. \A k, l \in on : k # l => Range(Heard(k)) \cap Range(Heard(l)) = {}
      BY <2>1, <2>4 DEF HeardOnce
    <3> HIDE DEF on
    <3>4. UNION {Range(Heard(k)) : k \in on} = 1..Frames(s, decoded[s])
      BY <3>1, <3>2
    <3> QED BY <3>3, <3>4 DEF on
  <2>7. FramesAreKept
    BY <2>5, <2>6 DEF FramesAreKept
  <2> QED BY <2>2, <2>3, <2>7 DEF AudioIsWhole
<1> QED BY <1>1, AudioKeptFact, PTL

-----------------------------------------------------------------------------
(* The gui: its tree and who holds what of it *)

One(p) == IF p THEN 1 ELSE 0

\* Where an element hangs, and what its references are: of the context or of its
\* parent, of the handles, and of a text node one that nobody drops.
HangsIn(k, n) == \E p \in Elements : k[p] = <<n>>
RefsKnown(r, k, docs, i) ==
    /\ \A d \in Docs : r[d] = One(d \in docs) + i[d]
    /\ \A f \in Fields : r[f] = One(HangsIn(k, f)) + i[f]
    /\ \A x \in TextNodes : \/ r[x] = One(HangsIn(k, x)) + i[x] + 1
                            \/ r[x] = 0 /\ i[x] = 0 /\ ~ HangsIn(k, x)

\* A document has its field, a field has one text; who has children is there.
KidsKnown(r, k) ==
    /\ \A n \in Elements : k[n] = <<>> \/
          /\ r[n] > 0
          /\ \/ n \in DOMAIN FieldOf /\ k[n] = <<FieldOf[n]>>
             \/ n \in Fields /\ \E x \in TextNodes : k[n] = <<x>>
    /\ \A p, q \in Elements : k[p] # <<>> /\ k[p] = k[q] => p = q

\* The tree, with what is held of it.
TreeKnown(r, k, docs, i) ==
    /\ r \in [Elements -> Nat] /\ i \in [Elements -> Nat] /\ k \in [Elements -> Seq(Elements)]
    /\ docs \subseteq Docs
    /\ KidsKnown(r, k) /\ RefsKnown(r, k, docs, i)

LEMMA ElementsFact ==
    /\ Docs \subseteq Elements /\ Fields \subseteq Elements /\ TextNodes \subseteq Elements
    /\ \A n \in Elements : n \in Docs \/ n \in Fields \/ n \in TextNodes
    /\ \A d \in Docs : d \notin Fields /\ d \notin TextNodes
    /\ \A f \in Fields : f \notin Docs /\ f \notin TextNodes
    /\ \A x \in TextNodes : x \notin Docs /\ x \notin Fields
    /\ NoElement \notin Elements
    /\ \A d \in DOMAIN FieldOf : d \in Docs /\ FieldOf[d] \in Fields
    /\ \A c, d \in DOMAIN FieldOf : FieldOf[c] = FieldOf[d] => c = d
  BY DocsAssumption DEF Elements, Fields

\* Who hangs in whom.
LEMMA KidFact ==
    ASSUME NEW r, NEW k, KidsKnown(r, k)
    PROVE  /\ \A p, n \in Elements : k[p] = <<n>> =>
                 \/ p \in Docs /\ n \in Fields
                 \/ p \in Fields /\ n \in TextNodes
           /\ \A p \in Elements : k[p] # <<>> => r[p] > 0 /\ \E n \in Elements : k[p] = <<n>>
           /\ \A p, q, n \in Elements : k[p] = <<n>> /\ k[q] = <<n>> => p = q
<1>1. ASSUME NEW p \in Elements, NEW n \in Elements, k[p] = <<n>>
      PROVE  (p \in Docs /\ n \in Fields) \/ (p \in Fields /\ n \in TextNodes)
  <2>1. k[p] # <<>>
    BY <1>1
  <2>2. CASE p \in DOMAIN FieldOf /\ k[p] = <<FieldOf[p]>>
    BY <1>1, <2>2, ElementsFact
  <2>3. CASE p \in Fields /\ \E x \in TextNodes : k[p] = <<x>>
    BY <1>1, <2>3
  <2> QED BY <2>1, <2>2, <2>3 DEF KidsKnown
<1>2. ASSUME NEW p \in Elements, k[p] # <<>> PROVE r[p] > 0 /\ \E n \in Elements : k[p] = <<n>>
  BY <1>2, ElementsFact DEF KidsKnown
<1>3. ASSUME NEW p \in Elements, NEW q \in Elements, NEW n \in Elements, k[p] = <<n>>, k[q] = <<n>> PROVE p = q
  <2>1. k[p] # <<>> /\ k[p] = k[q]
    BY <1>3
  <2> QED BY <2>1 DEF KidsKnown
<1> QED BY <1>1, <1>2, <1>3

-----------------------------------------------------------------------------
(* The gui: letting go *)

\* T is who loses a reference when ns do: they, and below whoever goes.
Falls(r, k, ns, T) ==
    /\ ns \subseteq T /\ T \subseteq Elements
    /\ \A n \in T : n \in ns \/ \E p \in T : r[p] = 1 /\ k[p] = <<n>>
    /\ \A p \in T, n \in Elements : r[p] = 1 /\ k[p] = <<n>> => n \in T
    /\ \A p \in T, n \in ns : k[p] # <<n>>

\* The references when T lose one each.
Lowered(r, T) == [n \in Elements |-> IF n \in T THEN r[n] - 1 ELSE r[n]]

OneLevel(ns) == ns \subseteq Docs \/ ns \subseteq Fields \/ ns \subseteq TextNodes

LEMMA OrphansIs ==
    ASSUME kids \in [Elements -> Seq(Elements)], KidsKnown(refs, kids)
    PROVE  \A S \in SUBSET Elements : \A r :
              Orphans(r, S) = {n \in Elements : \E p \in S : r[p] = 0 /\ kids[p] = <<n>>}
<1>1. ASSUME NEW p \in Elements PROVE \A n : n \in ToSet(kids[p]) <=> n \in Elements /\ kids[p] = <<n>>
  <2>1. CASE kids[p] = <<>>
    BY <2>1 DEF ToSet
  <2>2. CASE kids[p] # <<>>
    <3>1. PICK c \in Elements : kids[p] = <<c>>
      BY <2>2, KidFact
    <3>2. ToSet(kids[p]) = {c}
      BY <3>1 DEF ToSet
    <3> QED BY <3>1, <3>2
  <2> QED BY <2>1, <2>2
<1> QED BY <1>1 DEF Orphans

LEMMA ReleasedIs ==
    ASSUME NEW r \in [Elements -> Nat], NEW ns \in SUBSET Elements, OneLevel(ns),
           \A n \in ns : r[n] > 0,
           kids \in [Elements -> Seq(Elements)], KidsKnown(refs, kids)
    PROVE  \E T : /\ Falls(r, kids, ns, T)
                  /\ Released(r, ns) = Lowered(r, T)
<1>0. \A S \in SUBSET Elements : \A s :
         Orphans(s, S) = {n \in Elements : \E p \in S : s[p] = 0 /\ kids[p] = <<n>>}
  BY OrphansIs
<1> DEFINE K(p, n) == kids[p] = <<n>>
           A == {n \in Elements : \E p \in ns : r[p] = 1 /\ K(p, n)}
           B == {n \in Elements : \E p \in A : r[p] = 1 /\ K(p, n)}
           T == ns \cup A \cup B
           first == Dropped(r, ns)
           below == Orphans(first, ns)
           second == Dropped(first, below)
           last == Orphans(second, below)
<1>1. \A p, n \in Elements : K(p, n) => (p \in Docs /\ n \in Fields) \/ (p \in Fields /\ n \in TextNodes)
  BY KidFact
<1> HIDE DEF K
<1>2. /\ A \cap ns = {} /\ B \cap ns = {} /\ A \cap B = {}
      /\ \A n \in B : n \in TextNodes
  BY <1>1, ElementsFact DEF OneLevel
<1>3. \A n \in Elements : first[n] = IF n \in ns THEN r[n] - 1 ELSE r[n]
  BY DEF Dropped
<1>4. below = A
  <2>1. below = {n \in Elements : \E p \in ns : first[p] = 0 /\ kids[p] = <<n>>}
    BY <1>0
  <2>2. \A p \in ns : first[p] = 0 <=> r[p] = 1
    BY <1>3
  <2> HIDE DEF below, first
  <2> QED BY <2>1, <2>2 DEF K
<1>5. \A n \in Elements : second[n] = IF n \in A THEN first[n] - 1 ELSE first[n]
  BY <1>4 DEF Dropped
<1>6. last = B
  <2>1. A \in SUBSET Elements
    OBVIOUS
  <2> HIDE DEF A
  <2>2. Orphans(second, A) = {n \in Elements : \E p \in A : second[p] = 0 /\ kids[p] = <<n>>}
    BY <1>0, <2>1
  <2>3. \A p \in A : second[p] = 0 <=> r[p] = 1
    <3> HIDE DEF second, first, B
    <3> TAKE p \in A
    <3>1. p \in Elements /\ p \notin ns /\ r[p] \in Nat
      BY <1>2, <2>1
    <3>2. first[p] = r[p] /\ second[p] = first[p] - 1
      BY <1>3, <1>5, <3>1
    <3> QED BY <3>1, <3>2
  <2> HIDE DEF below, second
  <2> QED BY <1>4, <2>2, <2>3 DEF K
<1>7. Released(r, ns) = Dropped(second, last)
  BY DEF Released
<1>8. Released(r, ns) = [n \in Elements |-> IF n \in B THEN second[n] - 1 ELSE second[n]]
  BY <1>6, <1>7 DEF Dropped
<1>9. Released(r, ns) = [n \in Elements |-> IF n \in T THEN r[n] - 1 ELSE r[n]]
  <2>1. ASSUME NEW n \in Elements
        PROVE  (IF n \in B THEN second[n] - 1 ELSE second[n]) = (IF n \in T THEN r[n] - 1 ELSE r[n])
    <3> HIDE DEF A, B, second, first
    <3> QED BY <1>2, <1>3, <1>5
  <2> HIDE DEF A, B, T, second
  <2> QED BY <1>8, <2>1
<1>10. Falls(r, kids, ns, T)
  <2>1. ns \subseteq T /\ T \subseteq Elements
    OBVIOUS
  <2>2. \A n \in T : n \in ns \/ \E p \in T : r[p] = 1 /\ K(p, n)
    OBVIOUS
  <2>3. \A p \in T, n \in Elements : r[p] = 1 /\ K(p, n) => n \in T
    BY <1>1, <1>2, ElementsFact
  <2>4. \A p \in T, n \in ns : ~ K(p, n)
    BY <1>1, <1>2, ElementsFact DEF OneLevel
  <2> HIDE DEF T
  <2> QED BY <2>1, <2>2, <2>3, <2>4 DEF Falls, K
<1> HIDE DEF T
<1> QED BY <1>9, <1>10 DEF Lowered
LEMMA OneFact == One(TRUE) = 1 /\ One(FALSE) = 0 /\ \A p \in BOOLEAN : One(p) \in {0, 1} /\ (One(p) = 1 <=> p)
  BY DEF One

\* Who has references.
LEMMA RefsFact ==
    ASSUME NEW r, NEW k, NEW docs, NEW i, TreeKnown(r, k, docs, i)
    PROVE  /\ \A n \in Elements : n \in docs \/ i[n] > 0 \/ HangsIn(k, n) => r[n] > 0
           /\ \A n \in Elements : r[n] > 0 => n \in docs \/ i[n] > 0 \/ HangsIn(k, n) \/ n \in TextNodes
<1>1. r \in [Elements -> Nat] /\ i \in [Elements -> Nat] /\ docs \subseteq Docs
  BY DEF TreeKnown
<1>2. \A d \in Docs : ~ HangsIn(k, d)
  <2>1. KidsKnown(r, k)
    BY DEF TreeKnown
  <2> QED BY <2>1, KidFact, ElementsFact DEF HangsIn
<1>3. ASSUME NEW n \in Elements
      PROVE  /\ n \in docs \/ i[n] > 0 \/ HangsIn(k, n) => r[n] > 0
             /\ r[n] > 0 => n \in docs \/ i[n] > 0 \/ HangsIn(k, n) \/ n \in TextNodes
  <2>0. r[n] \in Nat /\ i[n] \in Nat
    BY <1>1
  <2>1. CASE n \in Docs
    BY <1>2, <2>0, <2>1 DEF TreeKnown, RefsKnown, One
  <2>2. CASE n \in Fields
    <3>1. n \notin docs
      BY <1>1, <2>2, ElementsFact
    <3> QED BY <2>0, <2>2, <3>1 DEF TreeKnown, RefsKnown, One
  <2>3. CASE n \in TextNodes
    <3>1. n \notin docs
      BY <1>1, <2>3, ElementsFact
    <3> QED BY <2>0, <2>3, <3>1 DEF TreeKnown, RefsKnown, One
  <2> QED BY <2>1, <2>2, <2>3, ElementsFact
<1> QED BY <1>3

\* What is left of the tree when ns lose a reference of the context or of a
\* handle, as Paid says.
Paid(docs, i, docs2, i2, ns) ==
    /\ docs2 \subseteq Docs /\ i2 \in [Elements -> Nat]
    /\ \A n \in Elements : One(n \in docs) + i[n] = (One(n \in docs2) + i2[n]) + One(n \in ns)
Kept(s, k) == [n \in Elements |-> IF s[n] = 0 THEN <<>> ELSE k[n]]

LEMMA DropKeeps ==
    ASSUME NEW r, NEW k, NEW docs, NEW i, TreeKnown(r, k, docs, i), NEW ns, NEW T, Falls(r, k, ns, T),
           NEW docs2, NEW i2, Paid(docs, i, docs2, i2, ns)
    PROVE  TreeKnown(Lowered(r, T), Kept(Lowered(r, T), k), docs2, i2)
<1> DEFINE s == Lowered(r, T)
           K == Kept(s, k)
<1>0. /\ docs2 \subseteq Docs /\ i2 \in [Elements -> Nat]
      /\ \A n \in Elements : One(n \in docs) + i[n] = (One(n \in docs2) + i2[n]) + One(n \in ns)
      /\ s = [n \in Elements |-> IF n \in T THEN r[n] - 1 ELSE r[n]]
  BY DEF Paid, Lowered
<1> HIDE DEF s
<1>1. /\ r \in [Elements -> Nat] /\ i \in [Elements -> Nat] /\ k \in [Elements -> Seq(Elements)] /\ docs \subseteq Docs
      /\ KidsKnown(r, k) /\ RefsKnown(r, k, docs, i)
  BY DEF TreeKnown
<1>2. ns \subseteq T /\ T \subseteq Elements
  BY DEF Falls
<1>3. \A n \in T : n \notin ns => HangsIn(k, n)
  BY <1>2 DEF Falls, HangsIn
<1>4. ASSUME NEW n \in ns PROVE n \in docs \/ i[n] > 0
  <2>1. n \in Elements
    BY <1>2
  <2>2. i[n] \in Nat /\ i2[n] \in Nat
    BY <1>0, <1>1, <2>1
  <2>3. One(n \in docs) + i[n] = (One(n \in docs2) + i2[n]) + One(n \in ns)
    BY <1>0, <2>1
  <2> QED BY <2>2, <2>3 DEF One
<1>5. \A n \in T : r[n] > 0
  BY <1>2, <1>3, <1>4, RefsFact
<1>6. s \in [Elements -> Nat] /\ \A n \in Elements : s[n] = IF n \in T THEN r[n] - 1 ELSE r[n]
  <2>1. \A n \in Elements : (IF n \in T THEN r[n] - 1 ELSE r[n]) \in Nat
    BY <1>1, <1>5
  <2> QED BY <1>0, <2>1
<1>7. K \in [Elements -> Seq(Elements)] /\ \A n \in Elements : K[n] = IF s[n] = 0 THEN <<>> ELSE k[n]
  <2>1. \A n \in Elements : (IF s[n] = 0 THEN <<>> ELSE k[n]) \in Seq(Elements)
    BY <1>1
  <2> QED BY <2>1 DEF Kept
<1>a. \A n : <<n>> # <<>>
  OBVIOUS
<1> HIDE DEF K
<1>8. KidsKnown(s, K)
  <2>1. ASSUME NEW n \in Elements, K[n] # <<>>
        PROVE  /\ s[n] > 0 /\ K[n] = k[n]
               /\ \/ n \in DOMAIN FieldOf /\ K[n] = <<FieldOf[n]>>
                  \/ n \in Fields /\ \E x \in TextNodes : K[n] = <<x>>
    <3>1. s[n] # 0 /\ K[n] = k[n] /\ s[n] \in Nat
      BY <1>6, <1>7, <2>1
    <3> QED BY <1>1, <2>1, <3>1 DEF KidsKnown
  <2>2. ASSUME NEW p \in Elements, NEW q \in Elements, K[p] # <<>>, K[p] = K[q] PROVE p = q
    <3>1. k[p] # <<>> /\ k[p] = k[q]
      BY <2>1, <2>2
    <3>2. \A a, b \in Elements : k[a] # <<>> /\ k[a] = k[b] => a = b
      BY <1>1 DEF KidsKnown
    <3> QED BY <2>2, <3>1, <3>2
  <2> QED BY <2>1, <2>2 DEF KidsKnown
<1>9. ASSUME NEW n \in Elements, n \in T, n \notin ns PROVE ~ HangsIn(K, n)
  <2> SUFFICES ASSUME NEW q \in Elements, K[q] = <<n>> PROVE FALSE
    BY DEF HangsIn
  <2>1. PICK p \in T : r[p] = 1 /\ k[p] = <<n>>
    BY <1>9 DEF Falls
  <2>2. s[q] # 0 /\ k[q] = <<n>>
    BY <1>a, <1>7
  <2>3. p = q
    <3>1. p \in Elements
      BY <1>2
    <3>2. \A a, b, c \in Elements : k[a] = <<c>> /\ k[b] = <<c>> => a = b
      BY ONLY <1>1, KidFact
    <3> QED BY ONLY <1>9, <2>1, <2>2, <3>1, <3>2, q \in Elements
  <2> QED BY <1>2, <1>6, <2>1, <2>2, <2>3
<1>10. ASSUME NEW n \in Elements, n \notin T \/ n \in ns PROVE HangsIn(K, n) <=> HangsIn(k, n)
  <2>1. ASSUME NEW p \in Elements, k[p] = <<n>> PROVE K[p] = <<n>>
    <3>1. r[p] > 0
      <4>1. k[p] # <<>>
        BY <2>1
      <4> QED BY <1>1, <4>1, KidFact
    <3>2. s[p] # 0
      <4> SUFFICES ASSUME s[p] = 0 PROVE FALSE
        OBVIOUS
      <4>1. p \in T /\ r[p] = 1
        BY <1>1, <1>6, <3>1
      <4> QED BY <1>10, <2>1, <4>1 DEF Falls
    <3> QED BY <1>7, <2>1, <3>2
  <2>2. ASSUME NEW p \in Elements, K[p] = <<n>> PROVE k[p] = <<n>>
    BY <1>a, <1>7, <2>2
  <2> QED BY <2>1, <2>2 DEF HangsIn
<1>11. ASSUME NEW n \in Elements
       PROVE  /\ n \in T /\ n \notin ns => r[n] = s[n] + 1 /\ HangsIn(k, n) /\ ~ HangsIn(K, n) /\ One(n \in docs) + i[n] = One(n \in docs2) + i2[n]
              /\ n \in ns => r[n] = s[n] + 1 /\ (HangsIn(K, n) <=> HangsIn(k, n)) /\ One(n \in docs) + i[n] = One(n \in docs2) + i2[n] + 1
              /\ n \notin T => r[n] = s[n] /\ (HangsIn(K, n) <=> HangsIn(k, n)) /\ One(n \in docs) + i[n] = One(n \in docs2) + i2[n]
  <2>1. r[n] \in Nat /\ i[n] \in Nat /\ i2[n] \in Nat
    BY <1>0, <1>1
  <2>2. One(n \in docs) + i[n] = (One(n \in docs2) + i2[n]) + One(n \in ns)
    BY <1>0
  <2>3. CASE n \in ns
    <3>1. n \in T
      BY <1>2, <2>3
    <3>2. One(n \in ns) = 1
      BY <2>3 DEF One
    <3>3. HangsIn(K, n) <=> HangsIn(k, n)
      BY <1>10, <2>3
    <3> QED BY <1>6, <2>1, <2>2, <2>3, <3>1, <3>2, <3>3
  <2>4. CASE n \notin ns
    <3>1. One(n \in ns) = 0 /\ One(n \in docs2) \in Nat
      BY <2>4 DEF One
    <3>2. One(n \in docs) + i[n] = One(n \in docs2) + i2[n]
      BY <2>1, <2>2, <3>1
    <3>3. CASE n \in T
      BY <1>3, <1>6, <1>9, <2>1, <2>4, <3>2, <3>3
    <3>4. CASE n \notin T
      BY <1>6, <1>10, <2>4, <3>2, <3>4
    <3> QED BY <3>3, <3>4
  <2> QED BY <2>3, <2>4
<1>12. RefsKnown(s, K, docs2, i2)
  <2>1. ASSUME NEW d \in Docs PROVE s[d] = One(d \in docs2) + i2[d]
    <3>1. d \in Elements /\ ~ HangsIn(k, d) /\ r[d] \in Nat /\ s[d] \in Nat /\ i2[d] \in Nat /\ One(d \in docs2) \in Nat
      BY <1>0, <1>1, <1>6, KidFact, ElementsFact DEF HangsIn, One
    <3>2. r[d] = One(d \in docs) + i[d]
      BY <1>1 DEF RefsKnown
    <3>3. ~ (d \in T /\ d \notin ns)
      BY <1>3, <3>1
    <3>4. CASE d \in ns
      BY <1>11, <3>1, <3>2, <3>4
    <3>5. CASE d \notin T
      BY <1>11, <3>1, <3>2, <3>5
    <3> QED BY <3>3, <3>4, <3>5
  <2>2. ASSUME NEW n \in Elements, n \notin Docs PROVE One(n \in docs) = 0 /\ One(n \in docs2) = 0
    BY <1>0, <1>1, <2>2 DEF One
  <2>3. ASSUME NEW f \in Fields PROVE s[f] = One(HangsIn(K, f)) + i2[f]
    <3>1. f \in Elements /\ One(f \in docs) = 0 /\ One(f \in docs2) = 0
      BY <2>2, ElementsFact
    <3>2. r[f] = One(HangsIn(k, f)) + i[f] /\ r[f] \in Nat /\ s[f] \in Nat /\ i[f] \in Nat /\ i2[f] \in Nat
      BY <1>0, <1>1, <1>6, <3>1 DEF RefsKnown
    <3>3. CASE f \in ns
      BY <1>11, <3>1, <3>2, <3>3 DEF One
    <3>4. CASE f \notin ns /\ f \in T
      BY <1>11, <3>1, <3>2, <3>4 DEF One
    <3>5. CASE f \notin T
      BY <1>11, <3>1, <3>2, <3>5 DEF One
    <3> QED BY <3>3, <3>4, <3>5
  <2>4. ASSUME NEW x \in TextNodes
        PROVE  \/ s[x] = One(HangsIn(K, x)) + i2[x] + 1
               \/ s[x] = 0 /\ i2[x] = 0 /\ ~ HangsIn(K, x)
    <3>1. x \in Elements /\ One(x \in docs) = 0 /\ One(x \in docs2) = 0
      BY <2>2, ElementsFact
    <3>2. /\ \/ r[x] = One(HangsIn(k, x)) + i[x] + 1
             \/ r[x] = 0 /\ i[x] = 0 /\ ~ HangsIn(k, x)
          /\ r[x] \in Nat /\ s[x] \in Nat /\ i[x] \in Nat /\ i2[x] \in Nat
      BY <1>0, <1>1, <1>6, <3>1 DEF RefsKnown
    <3>3. CASE x \in ns
      BY <1>2, <1>5, <1>11, <3>1, <3>2, <3>3 DEF One
    <3>4. CASE x \notin ns /\ x \in T
      BY <1>5, <1>11, <3>1, <3>2, <3>4 DEF One
    <3>5. CASE x \notin T
      BY <1>11, <3>1, <3>2, <3>5 DEF One
    <3> QED BY <3>3, <3>4, <3>5
  <2> QED BY <2>1, <2>3, <2>4 DEF RefsKnown
<1> QED BY <1>0, <1>6, <1>7, <1>8, <1>12 DEF TreeKnown, K, s

\* Text has no children: it goes alone.
LEMMA TextFalls ==
    ASSUME NEW r, NEW s, NEW k, KidsKnown(s, k), NEW ns \in SUBSET TextNodes, NEW T, Falls(r, k, ns, T)
    PROVE  T = ns
<1>1. \A p, n \in Elements : k[p] = <<n>> => (p \in Docs /\ n \in Fields) \/ (p \in Fields /\ n \in TextNodes)
  BY KidFact
<1>2. ns \subseteq T /\ T \subseteq Elements /\ \A n \in T : n \in ns \/ \E p \in T : k[p] = <<n>>
  BY DEF Falls
<1>3. \A n \in T : n \notin Docs
  BY <1>1, <1>2, ElementsFact
<1>4. \A n \in T : n \notin Fields
  BY <1>1, <1>2, <1>3, ElementsFact
<1>5. \A n \in T : n \in ns
  BY <1>1, <1>2, <1>3, <1>4, ElementsFact
<1> QED BY <1>2, <1>5

\* Who is not there has no children.
LEMMA KeptIs ==
    ASSUME NEW r, NEW k \in [Elements -> Seq(Elements)], KidsKnown(r, k)
    PROVE  Kept(r, k) = k
<1>1. \A n \in Elements : r[n] = 0 => k[n] = <<>>
  BY DEF KidsKnown
<1>2. \A n \in Elements : (IF r[n] = 0 THEN <<>> ELSE k[n]) = k[n]
  BY <1>1
<1> QED BY <1>2 DEF Kept

\* A document enters the context, with a handle.
Put(f, e, v) == [n \in Elements |-> IF n = e THEN v ELSE f[n]]

LEMMA EntersKeeps ==
    ASSUME NEW r, NEW k, NEW docs, NEW i, TreeKnown(r, k, docs, i), NEW d \in Docs, r[d] = 0,
           NEW s, s = Put(r, d, 2), NEW i2, i2 = Put(i, d, 1)
    PROVE  TreeKnown(s, k, docs \cup {d}, i2) /\ k[d] = <<>>
<1>0. /\ s = [n \in Elements |-> IF n = d THEN 2 ELSE r[n]]
      /\ i2 = [n \in Elements |-> IF n = d THEN 1 ELSE i[n]]
  BY DEF Put
<1>1. /\ r \in [Elements -> Nat] /\ i \in [Elements -> Nat] /\ k \in [Elements -> Seq(Elements)] /\ docs \subseteq Docs
      /\ KidsKnown(r, k) /\ RefsKnown(r, k, docs, i)
  BY DEF TreeKnown
<1>2. d \in Elements /\ d \notin Fields /\ d \notin TextNodes
  BY ElementsFact
<1>3. s \in [Elements -> Nat] /\ i2 \in [Elements -> Nat]
  BY ONLY <1>0, <1>1
<1>4. \A n \in Elements : /\ n = d => s[n] = 2 /\ i2[n] = 1
                          /\ n # d => s[n] = r[n] /\ i2[n] = i[n]
  BY <1>0
<1>5. k[d] = <<>>
  BY <1>1, <1>2 DEF KidsKnown
<1>6. KidsKnown(s, k)
  <2>1. \A a, b \in Elements : k[a] # <<>> /\ k[a] = k[b] => a = b
    BY <1>1 DEF KidsKnown
  <2>2. ASSUME NEW n \in Elements, k[n] # <<>>
        PROVE  /\ s[n] > 0
               /\ \/ n \in DOMAIN FieldOf /\ k[n] = <<FieldOf[n]>>
                  \/ n \in Fields /\ \E x \in TextNodes : k[n] = <<x>>
    <3>1. n # d
      BY <1>5, <2>2
    <3>2. s[n] = r[n]
      BY <1>4, <2>2, <3>1
    <3> QED BY <1>1, <2>2, <3>2 DEF KidsKnown
  <2> QED BY <2>1, <2>2 DEF KidsKnown
<1>7. RefsKnown(s, k, docs \cup {d}, i2)
  <2>1. ASSUME NEW e \in Docs PROVE s[e] = One(e \in docs \cup {d}) + i2[e]
    <3>1. e \in Elements /\ r[e] = One(e \in docs) + i[e]
      BY <1>1, ElementsFact DEF RefsKnown
    <3>2. CASE e = d
      BY <1>4, <3>1, <3>2 DEF One
    <3>3. CASE e # d
      BY <1>4, <3>1, <3>3 DEF One
    <3> QED BY <3>2, <3>3
  <2>2. ASSUME NEW f \in Fields PROVE s[f] = One(HangsIn(k, f)) + i2[f]
    <3>1. s[f] = r[f] /\ i2[f] = i[f]
      BY <1>2, <1>4, ElementsFact
    <3> QED BY <1>1, <3>1 DEF RefsKnown
  <2>3. ASSUME NEW x \in TextNodes
        PROVE  s[x] = One(HangsIn(k, x)) + i2[x] + 1 \/ (s[x] = 0 /\ i2[x] = 0 /\ ~ HangsIn(k, x))
    <3>1. s[x] = r[x] /\ i2[x] = i[x]
      BY <1>2, <1>4, ElementsFact
    <3> QED BY <1>1, <3>1 DEF RefsKnown
  <2> QED BY <2>1, <2>2, <2>3 DEF RefsKnown
<1> QED BY <1>1, <1>3, <1>5, <1>6, <1>7 DEF TreeKnown

\* Handles are made of elements that are there.
LEMMA HandlesKeep ==
    ASSUME NEW r, NEW k, NEW docs, NEW i, TreeKnown(r, k, docs, i),
           NEW ns, \A n \in ns : n \in Elements /\ r[n] > 0,
           NEW s, s = [n \in Elements |-> IF n \in ns THEN r[n] + 1 ELSE r[n]],
           NEW i2, i2 = [n \in Elements |-> IF n \in ns THEN i[n] + 1 ELSE i[n]]
    PROVE  TreeKnown(s, k, docs, i2)
<1>1. /\ r \in [Elements -> Nat] /\ i \in [Elements -> Nat] /\ k \in [Elements -> Seq(Elements)] /\ docs \subseteq Docs
      /\ KidsKnown(r, k) /\ RefsKnown(r, k, docs, i)
  BY DEF TreeKnown
<1>2. s \in [Elements -> Nat] /\ i2 \in [Elements -> Nat]
  BY <1>1
<1>3. ASSUME NEW n \in Elements
      PROVE  \/ n \in ns /\ s[n] = r[n] + 1 /\ i2[n] = i[n] + 1
             \/ n \notin ns /\ s[n] = r[n] /\ i2[n] = i[n]
  OBVIOUS
<1>4. KidsKnown(s, k)
  <2>1. \A a, b \in Elements : k[a] # <<>> /\ k[a] = k[b] => a = b
    BY <1>1 DEF KidsKnown
  <2>2. \A n \in Elements : r[n] > 0 => s[n] > 0
    BY <1>1, <1>3
  <2> QED BY <1>1, <2>1, <2>2 DEF KidsKnown
<1>5. RefsKnown(s, k, docs, i2)
  <2>0. \A n \in Elements : r[n] \in Nat /\ i[n] \in Nat
    BY <1>1
  <2>1. ASSUME NEW d \in Docs PROVE s[d] = One(d \in docs) + i2[d]
    <3>1. d \in Elements /\ r[d] = One(d \in docs) + i[d] /\ r[d] \in Nat /\ i[d] \in Nat
      BY <1>1, <2>0, ElementsFact DEF RefsKnown
    <3> QED BY <1>3, <3>1 DEF One
  <2>2. ASSUME NEW f \in Fields PROVE s[f] = One(HangsIn(k, f)) + i2[f]
    <3>1. f \in Elements /\ r[f] = One(HangsIn(k, f)) + i[f] /\ r[f] \in Nat /\ i[f] \in Nat
      BY <1>1, <2>0, ElementsFact DEF RefsKnown
    <3> QED BY <1>3, <3>1 DEF One
  <2>3. ASSUME NEW x \in TextNodes
        PROVE  s[x] = One(HangsIn(k, x)) + i2[x] + 1 \/ (s[x] = 0 /\ i2[x] = 0 /\ ~ HangsIn(k, x))
    <3>1. /\ x \in Elements /\ r[x] \in Nat /\ i[x] \in Nat
          /\ r[x] = One(HangsIn(k, x)) + i[x] + 1 \/ (r[x] = 0 /\ i[x] = 0 /\ ~ HangsIn(k, x))
      BY <1>1, <2>0, ElementsFact DEF RefsKnown
    <3> QED BY <1>3, <3>1 DEF One
  <2> QED BY <2>1, <2>2, <2>3 DEF RefsKnown
<1> QED BY <1>1, <1>2, <1>4, <1>5 DEF TreeKnown

\* A child is hung in an element that is there.
LEMMA HungKeeps ==
    ASSUME NEW r, NEW k, NEW docs, NEW i, TreeKnown(r, k, docs, i),
           NEW p \in Elements, r[p] > 0, k[p] = <<>>, NEW c \in Elements, r[c] = 0,
           (p \in DOMAIN FieldOf /\ c = FieldOf[p]) \/ (p \in Fields /\ c \in TextNodes),
           NEW s, s = [n \in Elements |-> IF n = c THEN IF c \in Fields THEN 1 ELSE 2 ELSE r[n]],
           NEW k2, k2 = [n \in Elements |-> IF n = p THEN <<c>> ELSE k[n]]
    PROVE  TreeKnown(s, k2, docs, i)
<1>1. /\ r \in [Elements -> Nat] /\ i \in [Elements -> Nat] /\ k \in [Elements -> Seq(Elements)] /\ docs \subseteq Docs
      /\ KidsKnown(r, k) /\ RefsKnown(r, k, docs, i)
  BY DEF TreeKnown
<1>2. s \in [Elements -> Nat] /\ k2 \in [Elements -> Seq(Elements)]
  <2>1. <<c>> \in Seq(Elements)
    OBVIOUS
  <2> QED BY <1>1, <2>1
<1>3. /\ \A n \in Elements : n # c => s[n] = r[n]
      /\ s[c] = IF c \in Fields THEN 1 ELSE 2
      /\ \A n \in Elements : n # p => k2[n] = k[n]
      /\ k2[p] = <<c>>
  OBVIOUS
<1>4. c \notin Docs /\ c # p
  BY ElementsFact
<1>a. \A n : <<n>> # <<>>
  OBVIOUS
<1>b. \A m, n : <<m>> = <<n>> => m = n
  OBVIOUS
<1>5. ~ HangsIn(k, c) /\ i[c] = 0
  <2>1. i[c] \in Nat
    BY <1>1
  <2> QED BY <2>1, RefsFact
<1>6. k[c] = <<>>
  BY <1>1 DEF KidsKnown
<1>7. KidsKnown(s, k2)
  <2>1. ASSUME NEW n \in Elements, k2[n] # <<>>
        PROVE  /\ s[n] > 0
               /\ \/ n \in DOMAIN FieldOf /\ k2[n] = <<FieldOf[n]>>
                  \/ n \in Fields /\ \E x \in TextNodes : k2[n] = <<x>>
    <3>1. CASE n = p
      BY <1>3, <1>4, <3>1
    <3>2. CASE n # p
      <4>1. k[n] # <<>> /\ k2[n] = k[n]
        BY <1>3, <2>1, <3>2
      <4>2. n # c /\ s[n] = r[n]
        BY <1>3, <1>6, <2>1, <4>1
      <4> QED BY <1>1, <2>1, <4>1, <4>2 DEF KidsKnown
    <3> QED BY <3>1, <3>2
  <2>2. \A a, b \in Elements : k[a] # <<>> /\ k[a] = k[b] => a = b
    BY <1>1 DEF KidsKnown
  <2>3. \A a \in Elements : k[a] # <<c>>
    BY <1>5 DEF HangsIn
  <2>4. \A a, b \in Elements : k2[a] # <<>> /\ k2[a] = k2[b] => a = b
    <3> TAKE a, b \in Elements
    <3> QED BY ONLY <1>3, <2>2, <2>3, a \in Elements, b \in Elements
  <2> QED BY <2>1, <2>4 DEF KidsKnown
<1>8. \A n \in Elements : HangsIn(k2, n) <=> HangsIn(k, n) \/ n = c
  <2> TAKE n \in Elements
  <2>1. ASSUME NEW q \in Elements, k2[q] = <<n>> PROVE HangsIn(k, n) \/ n = c
    <3>1. CASE q = p
      BY <1>3, <1>b, <2>1, <3>1
    <3>2. CASE q # p
      BY <1>3, <2>1, <3>2 DEF HangsIn
    <3> QED BY <3>1, <3>2
  <2>2. ASSUME NEW q \in Elements, k[q] = <<n>> PROVE HangsIn(k2, n)
    <3>1. q # p
      BY <1>a, <2>2
    <3> QED BY <1>3, <2>2, <3>1 DEF HangsIn
  <2>3. HangsIn(k2, c)
    BY <1>3 DEF HangsIn
  <2> QED BY <2>1, <2>2, <2>3 DEF HangsIn
<1>9. RefsKnown(s, k2, docs, i)
  <2>1. ASSUME NEW d \in Docs PROVE s[d] = One(d \in docs) + i[d]
    <3>1. s[d] = r[d]
      BY <1>3, <1>4, ElementsFact
    <3> QED BY <1>1, <3>1 DEF RefsKnown
  <2>2. ASSUME NEW f \in Fields PROVE s[f] = One(HangsIn(k2, f)) + i[f]
    <3>0. f \in Elements /\ r[f] = One(HangsIn(k, f)) + i[f]
      BY <1>1, ElementsFact DEF RefsKnown
    <3>1. CASE f = c
      <4>1. s[f] = 1 /\ HangsIn(k2, f)
        BY <1>3, <1>8, <3>1
      <4> QED BY <1>5, <3>1, <4>1 DEF One
    <3>2. CASE f # c
      <4>1. s[f] = r[f] /\ (HangsIn(k2, f) <=> HangsIn(k, f))
        BY <1>3, <1>8, <3>0, <3>2
      <4> QED BY <3>0, <4>1 DEF One
    <3> QED BY <3>1, <3>2
  <2>3. ASSUME NEW x \in TextNodes
        PROVE  s[x] = One(HangsIn(k2, x)) + i[x] + 1 \/ (s[x] = 0 /\ i[x] = 0 /\ ~ HangsIn(k2, x))
    <3>0. /\ x \in Elements /\ x \notin Fields
          /\ r[x] = One(HangsIn(k, x)) + i[x] + 1 \/ (r[x] = 0 /\ i[x] = 0 /\ ~ HangsIn(k, x))
      BY <1>1, ElementsFact DEF RefsKnown
    <3>1. CASE x = c
      <4>1. s[x] = 2 /\ HangsIn(k2, x)
        BY <1>3, <1>8, <3>0, <3>1
      <4> QED BY <1>5, <3>1, <4>1 DEF One
    <3>2. CASE x # c
      <4>1. s[x] = r[x] /\ (HangsIn(k2, x) <=> HangsIn(k, x))
        BY <1>3, <1>8, <3>0, <3>2
      <4> QED BY <3>0, <4>1 DEF One
    <3> QED BY <3>1, <3>2
  <2> QED BY <2>1, <2>2, <2>3 DEF RefsKnown
<1> QED BY <1>1, <1>2, <1>7, <1>9 DEF TreeKnown

\* The text of a field is taken out.
LEMMA UnhungKeeps ==
    ASSUME NEW r, NEW k, NEW docs, NEW i, TreeKnown(r, k, docs, i),
           NEW p \in Fields, NEW c \in TextNodes, k[p] = <<c>>,
           NEW s, s = [n \in Elements |-> IF n = c THEN r[n] - 1 ELSE r[n]],
           NEW k2, k2 = [n \in Elements |-> IF n = p THEN <<>> ELSE k[n]]
    PROVE  TreeKnown(s, k2, docs, i) /\ s[c] > 0 /\ r[p] > 0
<1>1. /\ r \in [Elements -> Nat] /\ i \in [Elements -> Nat] /\ k \in [Elements -> Seq(Elements)] /\ docs \subseteq Docs
      /\ KidsKnown(r, k) /\ RefsKnown(r, k, docs, i)
  BY DEF TreeKnown
<1>2. p \in Elements /\ c \in Elements /\ c # p /\ c \notin Docs /\ c \notin Fields
  BY ElementsFact
<1>a. \A n : <<n>> # <<>>
  OBVIOUS
<1>b. \A m, n : <<m>> = <<n>> => m = n
  OBVIOUS
<1>3. /\ \A n \in Elements : n # c => s[n] = r[n]
      /\ s[c] = r[c] - 1
      /\ \A n \in Elements : n # p => k2[n] = k[n]
      /\ k2[p] = <<>>
  BY <1>2
<1>4. HangsIn(k, c)
  BY <1>2 DEF HangsIn
<1>5. r[c] = i[c] + 2 /\ i[c] \in Nat
  BY <1>1, <1>2, <1>4 DEF RefsKnown, One
<1>6. r[p] > 0
  BY <1>1, <1>2, <1>a DEF KidsKnown
<1>7. s \in [Elements -> Nat] /\ k2 \in [Elements -> Seq(Elements)]
  <2>1. ASSUME NEW n \in Elements PROVE (IF n = c THEN r[n] - 1 ELSE r[n]) \in Nat
    BY <1>1, <1>5
  <2>2. <<>> \in Seq(Elements)
    OBVIOUS
  <2> QED BY <1>1, <2>1, <2>2
<1>8. KidsKnown(s, k2)
  <2>1. \A a, b \in Elements : k[a] # <<>> /\ k[a] = k[b] => a = b
    BY <1>1 DEF KidsKnown
  <2>2. \A a, b \in Elements : k2[a] # <<>> /\ k2[a] = k2[b] => a = b
    <3> TAKE a, b \in Elements
    <3> QED BY ONLY <1>3, <2>1, a \in Elements, b \in Elements
  <2>3. \A n \in Elements : r[n] > 0 => s[n] > 0
    BY <1>1, <1>3, <1>5
  <2>4. \A n \in Elements : k2[n] # <<>> => k2[n] = k[n]
    BY <1>3
  <2> QED BY <1>1, <2>2, <2>3, <2>4 DEF KidsKnown
<1>9. ~ HangsIn(k2, c)
  <2> SUFFICES ASSUME NEW q \in Elements, k2[q] = <<c>> PROVE FALSE
    BY DEF HangsIn
  <2>1. q # p
    BY <1>3, <1>a
  <2>2. k[q] = k[p] /\ k[p] # <<>>
    BY <1>3, <1>a, <2>1
  <2>3. \A a, b \in Elements : k[a] # <<>> /\ k[a] = k[b] => a = b
    BY <1>1 DEF KidsKnown
  <2> QED BY <1>2, <2>1, <2>2, <2>3
<1>10. \A n \in Elements : n # c => (HangsIn(k2, n) <=> HangsIn(k, n))
  <2> TAKE n \in Elements
  <2> HAVE n # c
  <2>1. ASSUME NEW q \in Elements, k2[q] = <<n>> PROVE k[q] = <<n>>
    BY <1>3, <1>a, <2>1
  <2>2. ASSUME NEW q \in Elements, k[q] = <<n>> PROVE k2[q] = <<n>>
    <3>1. q # p
      BY <1>b, <2>2
    <3> QED BY <1>3, <2>2, <3>1
  <2> QED BY <2>1, <2>2 DEF HangsIn
<1>11. RefsKnown(s, k2, docs, i)
  <2>1. ASSUME NEW d \in Docs PROVE s[d] = One(d \in docs) + i[d]
    <3>1. s[d] = r[d]
      BY <1>2, <1>3, ElementsFact
    <3> QED BY <1>1, <3>1 DEF RefsKnown
  <2>2. ASSUME NEW f \in Fields PROVE s[f] = One(HangsIn(k2, f)) + i[f]
    <3>1. f \in Elements /\ f # c /\ r[f] = One(HangsIn(k, f)) + i[f]
      BY <1>1, <1>2, ElementsFact DEF RefsKnown
    <3>2. s[f] = r[f] /\ (HangsIn(k2, f) <=> HangsIn(k, f))
      BY <1>3, <1>10, <3>1
    <3> QED BY <3>1, <3>2 DEF One
  <2>3. ASSUME NEW x \in TextNodes
        PROVE  s[x] = One(HangsIn(k2, x)) + i[x] + 1 \/ (s[x] = 0 /\ i[x] = 0 /\ ~ HangsIn(k2, x))
    <3>0. /\ x \in Elements
          /\ r[x] = One(HangsIn(k, x)) + i[x] + 1 \/ (r[x] = 0 /\ i[x] = 0 /\ ~ HangsIn(k, x))
      BY <1>1, ElementsFact DEF RefsKnown
    <3>1. CASE x = c
      BY <1>3, <1>5, <1>9, <3>1 DEF One
    <3>2. CASE x # c
      <4>1. s[x] = r[x] /\ (HangsIn(k2, x) <=> HangsIn(k, x))
        BY <1>3, <1>10, <3>0, <3>2
      <4> QED BY <3>0, <4>1 DEF One
    <3> QED BY <3>1, <3>2
  <2> QED BY <2>1, <2>2, <2>3 DEF RefsKnown
<1> QED BY <1>1, <1>3, <1>5, <1>6, <1>7, <1>8, <1>11 DEF TreeKnown
-----------------------------------------------------------------------------
(* The gui: the geometries *)

\* CompileGeometry finds a handle that nobody has.
LEMMA FreshFact ==
    ASSUME NEW used \in SUBSET Nat, IsFiniteSet(used)
    PROVE  FreshHandle(used) \in Nat \ {0} /\ FreshHandle(used) \notin used
<1> DEFINE c == Cardinality(used)
           free == {g \in (c + 1)..(2 * c + 1) : g \notin used}
<1>1. c \in Nat
  BY FS_CardinalityType
<1> HIDE DEF c
<1>2. free # {}
  <2> SUFFICES ASSUME free = {} PROVE FALSE
    OBVIOUS
  <2>1. (c + 1)..(2 * c + 1) \subseteq used
    OBVIOUS
  <2>2. c + 1 \in Int /\ 2 * c + 1 \in Int
    BY <1>1
  <2>3. Cardinality((c + 1)..(2 * c + 1)) = c + 1
    <3> DEFINE low == c + 1
               high == 2 * c + 1
    <3>1. low \in Int /\ high \in Int
      BY <2>2
    <3>2. low <= high /\ high - low + 1 = c + 1
      BY <1>1
    <3> HIDE DEF low, high
    <3>3. Cardinality(low..high) = IF low > high THEN 0 ELSE high - low + 1
      BY <3>1, FS_Interval
    <3>4. Cardinality(low..high) = c + 1
      BY <3>1, <3>2, <3>3
    <3> QED BY <3>4 DEF low, high
  <2>4. Cardinality((c + 1)..(2 * c + 1)) <= c
    BY <2>1, FS_Subset DEF c
  <2> QED BY <1>1, <2>3, <2>4
<1>3. free \in SUBSET Nat
  BY <1>1
<1>4. PICK h \in free : \A g \in free : h <= g
  <2> HIDE DEF free
  <2> QED BY <1>2, <1>3, LeastFact
<1>5. \A g \in (c + 1)..(h - 1) : g \in used
  <2> TAKE g \in (c + 1)..(h - 1)
  <2>1. h \in Nat /\ h <= 2 * c + 1
    BY <1>1, <1>4
  <2>2. g \in (c + 1)..(2 * c + 1) /\ ~ (h <= g)
    BY <1>1, <2>1
  <2> QED BY <1>4, <2>2
<1>6. h \in (c + 1)..(2 * c + 1) /\ h \notin used
  BY <1>4
<1> HIDE DEF free
<1>7. FreshHandle(used) \in (c + 1)..(2 * c + 1) /\ FreshHandle(used) \notin used
  BY <1>5, <1>6 DEF FreshHandle, c
<1> QED BY <1>1, <1>7

-----------------------------------------------------------------------------
(* The gui: the invariant *)

\* A frame's first state is of no size; documents are drawn, and anything is
\* seen, through the second, of the viewport's.
FrameKnown ==
    /\ Len(pushed) < 2 => seen = NoneSeen
    /\ Len(pushed) = 1 => pushed[1] = [size |-> 0, at |-> 0]
    /\ todo # {} => Len(pushed) = 2 /\ pushed[2] = [size |-> viewport, at |-> 0]

GuiInv ==
    /\ GuiTypeOK
    /\ TreeKnown(refs, kids, loaded, impls)
    /\ HandlesAreTheirs /\ FrameKnown /\ DrawsAreTheirOwn /\ TypingFollowsFocus

LEMMA GuiBegins == GuiInit => GuiInv
<1> SUFFICES ASSUME GuiInit PROVE GuiInv
  OBVIOUS
<1>1. refs = [n \in Elements |-> 0] /\ kids = [n \in Elements |-> <<>>] /\ loaded = {} /\ impls = [n \in Elements |-> 0]
  BY DEF GuiInit
<1>2. <<>> \in Seq(Elements) /\ <<>> \in Seq([size : 0..2, at : Nat]) /\ \A n : <<n>> # <<>>
  OBVIOUS
<1>3. TreeKnown(refs, kids, loaded, impls)
  <2>1. refs \in [Elements -> Nat] /\ impls \in [Elements -> Nat] /\ kids \in [Elements -> Seq(Elements)] /\ loaded \subseteq Docs
    BY <1>1, <1>2
  <2>2. KidsKnown(refs, kids)
    BY <1>1 DEF KidsKnown
  <2>3. \A n \in Elements : ~ HangsIn(kids, n)
    BY <1>1, <1>2 DEF HangsIn
  <2>4. RefsKnown(refs, kids, loaded, impls)
    BY <1>1, <2>3, ElementsFact DEF RefsKnown, One
  <2> QED BY <2>1, <2>2, <2>4 DEF TreeKnown
<1>4. DOMAIN geometries = {} /\ IsFiniteSet(DOMAIN geometries)
  <2>1. DOMAIN geometries = {}
    BY DEF GuiInit
  <2> QED BY <2>1, FS_EmptySet
<1>5. GuiTypeOK
  <2>1. refs \in [Elements -> Nat] /\ impls \in [Elements -> Nat] /\ kids \in [Elements -> Seq(Elements)] /\ loaded \subseteq Docs
    BY <1>3 DEF TreeKnown
  <2>2. {opened, failed, typing} \subseteq BOOLEAN
    BY DEF GuiInit
  <2>3. owned \in [Docs -> Nat] /\ textures \in Nat /\ newSize \in 0..2 /\ viewport \in 1..2 /\ focus = NoElement
    BY DEF GuiInit
  <2>4. pushed \in Seq([size : 0..2, at : Nat]) /\ todo = {} /\ seen = NoneSeen
    BY <1>2 DEF GuiInit
  <2> QED BY <1>4, <2>1, <2>2, <2>3, <2>4 DEF GuiTypeOK
<1>6. HandlesAreTheirs /\ FrameKnown /\ DrawsAreTheirOwn
  BY DEF GuiInit, HandlesAreTheirs, FrameKnown, DrawsAreTheirOwn
<1>7. TypingFollowsFocus
  BY ElementsFact DEF GuiInit, TypingFollowsFocus
<1> QED BY <1>3, <1>5, <1>6, <1>7 DEF GuiInv

\* What the rest of the window makes of a tree that is known.
LEMMA BecomesKeeps ==
    ASSUME GuiInv, NEW r, NEW children, NEW docs, NEW i, TreeBecomes(r, children, docs, i),
           TreeKnown(r, Kept(r, children), docs, i), UNCHANGED <<opened, textures, frameVars>>
    PROVE  GuiInv'
<1> DEFINE gone == {d \in Docs : r[d] = 0}
           lost == \/ \E n \in Elements : focus = n /\ (r[n] = 0 \/ n \in loaded \ docs)
                   \/ \E d \in loaded \ docs : <<focus>> = kids[d]
<1>1. /\ refs' = r /\ impls' = i /\ loaded' = docs
      /\ kids' = Kept(r, children)
      /\ geometries' = Without(gone)
      /\ owned' = [d \in Docs |-> IF d \in gone THEN 0 ELSE owned[d]]
      /\ focus' = (IF lost THEN NoElement ELSE focus)
      /\ typing' = (typing /\ ~ (lost /\ focus \in Fields))
  BY DEF TreeBecomes, Kept
<1> HIDE DEF lost
<1>2. GuiTypeOK /\ HandlesAreTheirs /\ TypingFollowsFocus
  BY DEF GuiInv
<1>3. TreeKnown(refs, kids, loaded, impls)'
  BY <1>1
<1>4. /\ DOMAIN geometries' = DOMAIN geometries \ GeometriesOf(gone)
      /\ \A h \in DOMAIN geometries' : geometries'[h] = geometries[h]
  BY <1>1 DEF Without
<1>5. \A d \in Docs : owned'[d] = IF d \in gone THEN 0 ELSE owned[d]
  BY <1>1
<1>6. HandlesAreTheirs'
  <2> SUFFICES ASSUME NEW d \in Docs, owned'[d] # 0
               PROVE  owned'[d] \in DOMAIN geometries' /\ geometries'[owned'[d]].doc = d
    BY DEF HandlesAreTheirs
  <2>1. d \notin gone /\ owned'[d] = owned[d] /\ owned[d] # 0
    BY <1>5
  <2>2. owned[d] \in DOMAIN geometries /\ geometries[owned[d]].doc = d
    BY <1>2, <2>1 DEF HandlesAreTheirs
  <2>3. owned[d] \notin GeometriesOf(gone)
    <3> SUFFICES ASSUME NEW e \in gone, owned[e] = owned[d] PROVE FALSE
      BY DEF GeometriesOf
    <3>1. geometries[owned[e]].doc = e
      BY <1>2, <2>1 DEF HandlesAreTheirs
    <3> QED BY <2>1, <2>2, <3>1
  <2> QED BY <1>4, <2>1, <2>2, <2>3
<1>7. typing \in BOOLEAN /\ typing' \in BOOLEAN /\ (typing <=> focus \in Fields)
  BY <1>1, <1>2 DEF GuiTypeOK, TypingFollowsFocus
<1>8. TypingFollowsFocus'
  <2>1. NoElement \notin Fields
    BY ElementsFact
  <2>2. CASE lost
    BY <1>1, <1>7, <2>1, <2>2 DEF TypingFollowsFocus
  <2>3. CASE ~ lost
    BY <1>1, <1>7, <2>3 DEF TypingFollowsFocus
  <2> QED BY <2>2, <2>3
<1>9. GuiTypeOK'
  <2>1. refs' \in [Elements -> Nat] /\ impls' \in [Elements -> Nat] /\ kids' \in [Elements -> Seq(Elements)] /\ loaded' \subseteq Docs
    BY <1>3 DEF TreeKnown
  <2>2. owned' \in [Docs -> Nat] /\ focus' \in Elements \cup {NoElement}
    BY <1>1, <1>2 DEF GuiTypeOK
  <2>3. /\ DOMAIN geometries' \subseteq Nat \ {0}
        /\ \A h \in DOMAIN geometries' : geometries'[h] \in [doc : Docs, texture : Nat]
    BY <1>2, <1>4 DEF GuiTypeOK
  <2>4. IsFiniteSet(DOMAIN geometries')
    <3>1. IsFiniteSet(DOMAIN geometries) /\ DOMAIN geometries' \in SUBSET DOMAIN geometries
      BY <1>2, <1>4 DEF GuiTypeOK
    <3> QED BY <3>1, FS_Subset
  <2>5. {opened', failed', typing'} \subseteq BOOLEAN
    BY <1>2, <1>7 DEF GuiTypeOK, frameVars
  <2>6. /\ textures' \in Nat /\ newSize' \in 0..2 /\ viewport' \in 1..2
        /\ pushed' \in Seq([size : 0..2, at : Nat]) /\ todo' \subseteq Docs
        /\ seen' \in [doc : Docs, of : Docs, at : Nat, size : 0..2, textured : BOOLEAN] \cup {NoneSeen'}
    BY <1>2 DEF GuiTypeOK, frameVars, NoneSeen
  <2> QED BY <2>1, <2>2, <2>3, <2>4, <2>5, <2>6 DEF GuiTypeOK
<1>10. FrameKnown' /\ DrawsAreTheirOwn'
  BY DEF GuiInv, FrameKnown, DrawsAreTheirOwn, frameVars, NoneSeen
<1> QED BY <1>3, <1>6, <1>8, <1>9, <1>10 DEF GuiInv
-----------------------------------------------------------------------------
(* The gui: the steps of the tree *)

\* The parts of the invariant that a step of the tree reads.
LEMMA TreeFact ==
    ASSUME GuiInv
    PROVE  /\ TreeKnown(refs, kids, loaded, impls) /\ KidsKnown(refs, kids)
           /\ refs \in [Elements -> Nat] /\ impls \in [Elements -> Nat]
           /\ kids \in [Elements -> Seq(Elements)] /\ loaded \subseteq Docs
  BY DEF GuiInv, TreeKnown

LEMMA LoadKeeps ==
    ASSUME GuiInv, NEW d \in Docs, Load(d)
    PROVE  GuiInv'
<1> DEFINE field == IF d \in DOMAIN FieldOf THEN <<FieldOf[d]>> ELSE <<>>
           returned == [n \in Elements |-> IF n = d THEN 2 ELSE IF <<n>> = field THEN 1 ELSE refs[n]]
           kept == [returned EXCEPT ![d] = @ + 1]
           r == [kept EXCEPT ![d] = @ - 1]
           children == [kids EXCEPT ![d] = field]
           i == [impls EXCEPT ![d] = 1]
<1>1. /\ refs[d] = 0 /\ \A n \in ToSet(field) : refs[n] = 0
      /\ TreeBecomes(r, children, loaded \cup {d}, i)
      /\ UNCHANGED <<opened, textures, frameVars>>
  BY DEF Load
<1>2. d \in Elements
  BY ElementsFact
<1>3. r = [n \in Elements |-> IF n = d THEN 2 ELSE IF <<n>> = field THEN 1 ELSE refs[n]]
  <2> DEFINE R(n) == IF n = d THEN 2 ELSE IF <<n>> = field THEN 1 ELSE refs[n]
  <2>1. R(d) = 2 /\ returned = [n \in Elements |-> R(n)]
    OBVIOUS
  <2> HIDE DEF R, returned
  <2>2. \A n \in Elements : r[n] = R(n)
    BY <1>2, <2>1
  <2>3. r = [n \in Elements |-> r[n]]
    BY <2>1
  <2> HIDE DEF r
  <2>4. r = [n \in Elements |-> R(n)]
    BY <2>2, <2>3
  <2> QED BY <2>4 DEF R
<1>4. TreeKnown(refs, kids, loaded, impls) /\ impls \in [Elements -> Nat] /\ kids \in [Elements -> Seq(Elements)]
  BY TreeFact
<1>5. i = [n \in Elements |-> IF n = d THEN 1 ELSE impls[n]]
  BY <1>2, <1>4
<1>6. children = [n \in Elements |-> IF n = d THEN field ELSE kids[n]]
  BY <1>2, <1>4
<1> DEFINE r1 == [n \in Elements |-> IF n = d THEN 2 ELSE refs[n]]
<1>7. TreeKnown(r1, kids, loaded \cup {d}, i) /\ kids[d] = <<>>
  <2>1. r1 = [n \in Elements |-> IF n = d THEN 2 ELSE refs[n]]
    OBVIOUS
  <2> HIDE DEF i, r1, r, children, field
  <2>2. r1 = Put(refs, d, 2) /\ i = Put(impls, d, 1)
    BY <1>5, <2>1 DEF Put
  <2> QED BY <1>1, <1>4, <2>2, EntersKeeps
<1> HIDE DEF returned, kept, r, children, i
<1>8. TreeKnown(r, children, loaded \cup {d}, i)
  <2>1. CASE d \notin DOMAIN FieldOf
    <3>1. field = <<>> /\ \A n : <<n>> # field
      BY <2>1
    <3> HIDE DEF field
    <3>2. r = r1
      BY <1>3, <3>1
    <3>3. children = kids
      <4>1. \A n \in Elements : (IF n = d THEN field ELSE kids[n]) = kids[n]
        BY <1>7, <3>1
      <4> QED BY <1>4, <1>6, <4>1
    <3> QED BY <1>7, <3>2, <3>3
  <2>2. CASE d \in DOMAIN FieldOf
    <3> DEFINE f == FieldOf[d]
    <3>1. f \in Fields /\ f \in Elements /\ f # d
      BY <2>2, ElementsFact
    <3>2. field = <<f>>
      BY <2>2
    <3>3. ToSet(field) = {f}
      BY <3>2 DEF ToSet
    <3>4. refs[f] = 0
      BY <1>1, <3>3
    <3>5. \A n : <<n>> = field <=> n = f
      BY <3>2
    <3>6. r = [n \in Elements |-> IF n = f THEN IF f \in Fields THEN 1 ELSE 2 ELSE r1[n]]
      <4>1. \A n \in Elements : (IF n = d THEN 2 ELSE IF <<n>> = field THEN 1 ELSE refs[n])
                               = (IF n = f THEN IF f \in Fields THEN 1 ELSE 2 ELSE r1[n])
        <5> HIDE DEF f, field
        <5> QED BY <3>1, <3>5
      <4> HIDE DEF f, field, r1
      <4> QED BY <1>3, <4>1
    <3>7. children = [n \in Elements |-> IF n = d THEN <<f>> ELSE kids[n]]
      BY <1>6, <3>2
    <3>8. r1[d] > 0 /\ r1[f] = 0
      BY <1>2, <3>1, <3>4
    <3>9. d \in DOMAIN FieldOf /\ f = FieldOf[d]
      BY <2>2
    <3> HIDE DEF f, r1, field
    <3> QED BY <1>2, <1>7, <3>1, <3>6, <3>7, <3>8, <3>9, HungKeeps
  <2> QED BY <2>1, <2>2
<1>9. Kept(r, children) = children
  BY <1>8, KeptIs DEF TreeKnown
<1> HIDE DEF field, r1
<1> QED BY <1>1, <1>8, <1>9, BecomesKeeps

LEMMA HandleKeeps ==
    ASSUME GuiInv, NEW ns, \A n \in ns : n \in Elements /\ refs[n] > 0, Handles(ns)
    PROVE  GuiInv'
<1> DEFINE r == [n \in Elements |-> IF n \in ns THEN refs[n] + 1 ELSE refs[n]]
           i == [n \in Elements |-> IF n \in ns THEN impls[n] + 1 ELSE impls[n]]
<1>1. TreeBecomes(r, kids, loaded, i) /\ UNCHANGED <<opened, textures, frameVars>>
  BY DEF Handles
<1>2. TreeKnown(refs, kids, loaded, impls)
  BY TreeFact
<1>3. TreeKnown(r, kids, loaded, i)
  BY <1>2, HandlesKeep
<1> HIDE DEF r, i
<1>4. Kept(r, kids) = kids
  BY <1>3, KeptIs DEF TreeKnown
<1> QED BY <1>1, <1>3, <1>4, BecomesKeeps

LEMMA DocumentsKeeps ==
    ASSUME GuiInv, Documents
    PROVE  GuiInv'
<1>1. \A n \in loaded : n \in Elements /\ refs[n] > 0
  BY TreeFact, RefsFact, ElementsFact
<1> QED BY <1>1, HandleKeeps DEF Documents

LEMMA FirstChildKeeps ==
    ASSUME GuiInv, NEW n \in Elements, FirstChild(n)
    PROVE  GuiInv'
<1>1. TreeKnown(refs, kids, loaded, impls) /\ KidsKnown(refs, kids)
  BY TreeFact
<1>2. kids[n] # <<>> /\ Handles({kids[n][1]})
  BY DEF FirstChild
<1>3. PICK c \in Elements : kids[n] = <<c>>
  BY <1>1, <1>2, KidFact
<1>4. kids[n][1] = c
  BY <1>3
<1>5. refs[c] > 0
  <2>1. HangsIn(kids, c)
    BY <1>3 DEF HangsIn
  <2> QED BY <1>1, <2>1, RefsFact
<1>6. \A e \in {c} : e \in Elements /\ refs[e] > 0
  BY <1>5
<1> QED BY <1>2, <1>4, <1>6, HandleKeeps

LEMMA ForgetKeeps ==
    ASSUME GuiInv, NEW n \in Elements, Forget(n)
    PROVE  GuiInv'
<1> DEFINE r == Released(refs, {n})
           i == [impls EXCEPT ![n] = @ - 1]
<1>1. impls[n] > 0 /\ TreeBecomes(r, kids, loaded, i) /\ UNCHANGED <<opened, textures, frameVars>>
  BY DEF Forget
<1>2. /\ TreeKnown(refs, kids, loaded, impls) /\ KidsKnown(refs, kids)
      /\ refs \in [Elements -> Nat] /\ impls \in [Elements -> Nat]
      /\ kids \in [Elements -> Seq(Elements)] /\ loaded \subseteq Docs
  BY TreeFact
<1>3. refs[n] > 0
  BY <1>1, <1>2, RefsFact
<1>4. OneLevel({n})
  BY ElementsFact DEF OneLevel
<1>5. \E T : /\ Falls(refs, kids, {n}, T)
             /\ r = Lowered(refs, T)
  <2>1. {n} \in SUBSET Elements /\ \A m \in {n} : refs[m] > 0
    BY <1>3
  <2> QED BY <1>2, <1>4, <2>1, ReleasedIs
<1>6. PICK T : /\ Falls(refs, kids, {n}, T)
               /\ r = Lowered(refs, T)
  BY <1>5
<1>7. i \in [Elements -> Nat] /\ i[n] = impls[n] - 1 /\ \A m \in Elements : m # n => i[m] = impls[m]
  BY <1>1, <1>2
<1> HIDE DEF r, i
<1>8. \A m \in Elements : One(m \in loaded) + impls[m] = (One(m \in loaded) + i[m]) + One(m \in {n})
  <2> TAKE m \in Elements
  <2>1. impls[m] \in Nat /\ i[m] \in Nat /\ One(m \in loaded) \in Nat
    BY <1>2, <1>7 DEF One
  <2>2. One(m \in {n}) = IF m = n THEN 1 ELSE 0
    BY DEF One
  <2> QED BY <1>7, <2>1, <2>2
<1>9. TreeKnown(r, Kept(r, kids), loaded, i)
  <2>1. Paid(loaded, impls, loaded, i, {n})
    BY <1>2, <1>7, <1>8 DEF Paid
  <2> QED BY <1>2, <1>6, <2>1, DropKeeps
<1> QED BY <1>1, <1>9, BecomesKeeps

\* The context lets documents go.
LEMMA UnloadFact ==
    ASSUME GuiInv, NEW ns \in SUBSET loaded, NEW r, r = Released(refs, ns)
    PROVE  TreeKnown(r, Kept(r, kids), loaded \ ns, impls)
<1>2. /\ TreeKnown(refs, kids, loaded, impls) /\ KidsKnown(refs, kids)
      /\ refs \in [Elements -> Nat] /\ impls \in [Elements -> Nat]
      /\ kids \in [Elements -> Seq(Elements)] /\ loaded \subseteq Docs
  BY TreeFact
<1>3. \A m \in ns : m \in Docs /\ m \in Elements /\ refs[m] > 0
  BY <1>2, RefsFact, ElementsFact
<1>4. OneLevel(ns) /\ ns \in SUBSET Elements
  BY <1>3 DEF OneLevel
<1>5. PICK T : /\ Falls(refs, kids, ns, T)
               /\ r = Lowered(refs, T)
  BY <1>2, <1>3, <1>4, ReleasedIs
<1>6. \A m \in Elements : One(m \in loaded) + impls[m] = (One(m \in loaded \ ns) + impls[m]) + One(m \in ns)
  <2> TAKE m \in Elements
  <2>1. impls[m] \in Nat
    BY <1>2
  <2>2. One(m \in loaded) = One(m \in loaded \ ns) + One(m \in ns)
    BY DEF One
  <2>3. One(m \in loaded \ ns) \in Nat /\ One(m \in ns) \in Nat
    BY DEF One
  <2> QED BY <2>1, <2>2, <2>3
<1>7. Paid(loaded, impls, loaded \ ns, impls, ns)
  BY <1>2, <1>6 DEF Paid
<1> QED BY <1>2, <1>5, <1>7, DropKeeps

LEMMA UnloadKeeps ==
    ASSUME GuiInv, NEW docs \in SUBSET Docs, Unload(docs)
    PROVE  GuiInv'
<1> DEFINE r == Released(refs, docs)
<1>1. docs \in SUBSET loaded /\ TreeBecomes(r, kids, loaded \ docs, impls) /\ UNCHANGED <<opened, textures, frameVars>>
  BY DEF Unload
<1>2. TreeKnown(r, Kept(r, kids), loaded \ docs, impls)
  BY <1>1, UnloadFact
<1> HIDE DEF r
<1> QED BY <1>1, <1>2, BecomesKeeps

LEMMA CloseKeeps ==
    ASSUME GuiInv, Close
    PROVE  GuiInv'
<1> DEFINE r == Released(refs, loaded)
<1>1. /\ refs' = r /\ kids' = Kept(r, kids) /\ loaded' = {} /\ impls' = impls
      /\ geometries' = <<>> /\ owned' = [d \in Docs |-> 0]
      /\ focus' = NoElement /\ typing' = (typing /\ focus \notin Fields)
      /\ opened' = FALSE /\ UNCHANGED <<textures, frameVars>>
  BY DEF Close, Kept
<1>2. TreeKnown(r, Kept(r, kids), {}, impls)
  <2>1. loaded \in SUBSET loaded /\ loaded \ loaded = {}
    OBVIOUS
  <2>2. TreeKnown(r, Kept(r, kids), loaded \ loaded, impls)
    BY <2>1, UnloadFact
  <2> QED BY <2>1, <2>2
<1> HIDE DEF r
<1>3. TreeKnown(refs, kids, loaded, impls)'
  BY <1>1, <1>2
<1>4. GuiTypeOK /\ TypingFollowsFocus
  BY DEF GuiInv
<1>5. typing \in BOOLEAN /\ typing' \in BOOLEAN /\ ~ typing'
  BY <1>1, <1>4 DEF GuiTypeOK, TypingFollowsFocus
<1>6. TypingFollowsFocus'
  BY <1>1, <1>5, ElementsFact DEF TypingFollowsFocus
<1>7. HandlesAreTheirs' /\ FrameKnown' /\ DrawsAreTheirOwn'
  <2>1. HandlesAreTheirs'
    BY <1>1 DEF HandlesAreTheirs
  <2> QED BY <1>1, <2>1 DEF GuiInv, FrameKnown, DrawsAreTheirOwn, frameVars, NoneSeen
<1>8. GuiTypeOK'
  <2>1. refs' \in [Elements -> Nat] /\ impls' \in [Elements -> Nat] /\ kids' \in [Elements -> Seq(Elements)] /\ loaded' \subseteq Docs
    BY <1>3 DEF TreeKnown
  <2>2. DOMAIN geometries' = {} /\ IsFiniteSet(DOMAIN geometries')
    <3>1. DOMAIN geometries' = {}
      BY <1>1
    <3> QED BY <3>1, FS_EmptySet
  <2>3. {opened', failed', typing'} \subseteq BOOLEAN
    BY <1>1, <1>4, <1>5 DEF GuiTypeOK, frameVars
  <2>4. /\ textures' \in Nat /\ newSize' \in 0..2 /\ viewport' \in 1..2
        /\ pushed' \in Seq([size : 0..2, at : Nat]) /\ todo' \subseteq Docs
        /\ seen' \in [doc : Docs, of : Docs, at : Nat, size : 0..2, textured : BOOLEAN] \cup {NoneSeen'}
    BY <1>1, <1>4 DEF GuiTypeOK, frameVars, NoneSeen
  <2>5. owned' \in [Docs -> Nat] /\ focus' \in Elements \cup {NoElement}
    BY <1>1
  <2> QED BY <2>1, <2>2, <2>3, <2>4, <2>5 DEF GuiTypeOK
<1> QED BY <1>3, <1>6, <1>7, <1>8 DEF GuiInv

LEMMA RemoveChildrenKeeps ==
    ASSUME GuiInv, NEW n \in Elements, RemoveChildren(n)
    PROVE  GuiInv'
<1> DEFINE r == Released(refs, ToSet(kids[n]))
           children == [kids EXCEPT ![n] = <<>>]
<1>1. /\ kids[n] # <<>> /\ n \in Fields
      /\ TreeBecomes(r, children, loaded, impls) /\ UNCHANGED <<opened, textures, frameVars>>
  BY DEF RemoveChildren
<1>2. /\ TreeKnown(refs, kids, loaded, impls) /\ KidsKnown(refs, kids)
      /\ refs \in [Elements -> Nat] /\ kids \in [Elements -> Seq(Elements)]
  BY TreeFact
<1>3. PICK c \in Elements : kids[n] = <<c>>
  BY <1>1, <1>2, KidFact
<1>4. c \in TextNodes
  BY <1>1, <1>2, <1>3, KidFact, ElementsFact
<1>5. ToSet(kids[n]) = {c}
  BY <1>3 DEF ToSet
<1>6. refs[c] > 0
  <2>1. HangsIn(kids, c)
    BY <1>3 DEF HangsIn
  <2> QED BY <1>2, <2>1, RefsFact
<1>7. r = [m \in Elements |-> IF m = c THEN refs[m] - 1 ELSE refs[m]]
  <2>1. {c} \in SUBSET Elements /\ {c} \in SUBSET TextNodes /\ OneLevel({c}) /\ \A m \in {c} : refs[m] > 0
    BY <1>4, <1>6 DEF OneLevel
  <2>2. PICK T : /\ Falls(refs, kids, {c}, T)
                 /\ Released(refs, {c}) = Lowered(refs, T)
    BY <1>2, <2>1, ReleasedIs
  <2>3. T = {c}
    BY <1>2, <2>1, <2>2, TextFalls
  <2>4. \A m \in Elements : (IF m \in T THEN refs[m] - 1 ELSE refs[m]) = (IF m = c THEN refs[m] - 1 ELSE refs[m])
    BY <2>3
  <2> QED BY <1>5, <2>2, <2>4 DEF Lowered
<1>8. children = [m \in Elements |-> IF m = n THEN <<>> ELSE kids[m]]
  BY <1>2
<1> HIDE DEF r, children
<1>9. TreeKnown(r, children, loaded, impls)
  BY <1>1, <1>2, <1>3, <1>4, <1>7, <1>8, UnhungKeeps
<1>10. Kept(r, children) = children
  BY <1>9, KeptIs DEF TreeKnown
<1> QED BY <1>1, <1>9, <1>10, BecomesKeeps

LEMMA SetTextKeeps ==
    ASSUME GuiInv, NEW n \in Fields, SetText(n)
    PROVE  GuiInv'
<1> DEFINE x == CHOOSE y \in TextNodes : refs[y] = 0
           created == [refs EXCEPT ![x] = 1]
           empty == Released(created, ToSet(kids[n]))
           r == [empty EXCEPT ![x] = @ + 1]
           children == [kids EXCEPT ![n] = <<x>>]
<1>1. /\ impls[n] > 0 /\ \E y \in TextNodes : refs[y] = 0
      /\ TreeBecomes(r, children, loaded, impls) /\ UNCHANGED <<opened, textures, frameVars>>
  BY DEF SetText
<1>2. /\ TreeKnown(refs, kids, loaded, impls) /\ KidsKnown(refs, kids)
      /\ refs \in [Elements -> Nat] /\ kids \in [Elements -> Seq(Elements)]
  BY TreeFact
<1>3. x \in TextNodes /\ refs[x] = 0
  BY <1>1
<1> HIDE DEF x
<1>4. n \in Elements /\ x \in Elements /\ x # n /\ x \notin Fields
  BY <1>3, ElementsFact
<1>5. refs[n] > 0
  BY <1>1, <1>2, <1>4, RefsFact
<1>6. children = [m \in Elements |-> IF m = n THEN <<x>> ELSE kids[m]]
  BY <1>2, <1>4
<1>7. created \in [Elements -> Nat] /\ created = [m \in Elements |-> IF m = x THEN 1 ELSE refs[m]]
  BY <1>2, <1>4
\* The references, and the children, once the text that was there is out.
<1>8. \E r1, k1 : /\ TreeKnown(r1, k1, loaded, impls)
                  /\ r1[n] > 0 /\ k1[n] = <<>> /\ r1[x] = 0
                  /\ \A m \in Elements : m # x => empty[m] = r1[m]
                  /\ \A m \in Elements : m # n => k1[m] = kids[m]
                  /\ empty[x] = 1 /\ empty \in [Elements -> Nat]
  <2>1. CASE kids[n] = <<>>
    <3>1. ToSet(kids[n]) = {}
      BY <2>1 DEF ToSet
    <3>2. empty = created
      <4> DEFINE T == {}
      <4>1. {} \in SUBSET Elements /\ {} \in SUBSET TextNodes /\ OneLevel({}) /\ \A m \in {} : created[m] > 0
        BY DEF OneLevel
      <4> HIDE DEF created
      <4>2. PICK U : Falls(created, kids, {}, U) /\ Released(created, {}) = Lowered(created, U)
        BY ONLY <1>2, <1>7, <4>1, ReleasedIs
      <4>3. U = {}
        BY <1>2, <4>1, <4>2, TextFalls
      <4>4. Lowered(created, {}) = created
        BY <1>7 DEF Lowered
      <4> QED BY <3>1, <4>2, <4>3, <4>4
    <3>3. \A m \in Elements : m # x => created[m] = refs[m]
      BY <1>7
    <3>4. created[x] = 1
      BY <1>4, <1>7
    <3> HIDE DEF created, empty
    <3> QED BY <1>2, <1>3, <1>5, <1>7, <2>1, <3>2, <3>3, <3>4
  <2>2. CASE kids[n] # <<>>
    <3>1. PICK c \in Elements : kids[n] = <<c>>
      BY <1>2, <1>4, <2>2, KidFact
    <3>2. c \in TextNodes
      BY <1>2, <1>4, <3>1, KidFact, ElementsFact
    <3>3. ToSet(kids[n]) = {c}
      BY <3>1 DEF ToSet
    <3>4. refs[c] > 0 /\ c # x
      <4>1. HangsIn(kids, c)
        BY <1>4, <3>1 DEF HangsIn
      <4>2. refs[c] > 0
        BY <1>2, <4>1, RefsFact
      <4> QED BY <1>3, <4>2
    <3>5. created[c] = refs[c]
      BY <1>7, <3>4
    <3>6. empty = [m \in Elements |-> IF m = c THEN created[m] - 1 ELSE created[m]]
      <4>1. {c} \in SUBSET Elements /\ {c} \in SUBSET TextNodes /\ OneLevel({c}) /\ \A m \in {c} : created[m] > 0
        BY <3>2, <3>4, <3>5 DEF OneLevel
      <4> HIDE DEF created
      <4>2. PICK U : Falls(created, kids, {c}, U) /\ Released(created, {c}) = Lowered(created, U)
        BY ONLY <1>2, <1>7, <4>1, ReleasedIs
      <4>3. U = {c}
        BY <1>2, <4>1, <4>2, TextFalls
      <4>4. \A m \in Elements : (IF m \in U THEN created[m] - 1 ELSE created[m]) = (IF m = c THEN created[m] - 1 ELSE created[m])
        BY <4>3
      <4> QED BY <3>3, <4>2, <4>4 DEF Lowered
    <3> DEFINE r1 == [m \in Elements |-> IF m = c THEN refs[m] - 1 ELSE refs[m]]
               k1 == [m \in Elements |-> IF m = n THEN <<>> ELSE kids[m]]
    <3>7. TreeKnown(r1, k1, loaded, impls) /\ r1[c] > 0
      <4>1. /\ r1 = [m \in Elements |-> IF m = c THEN refs[m] - 1 ELSE refs[m]]
            /\ k1 = [m \in Elements |-> IF m = n THEN <<>> ELSE kids[m]]
        OBVIOUS
      <4> HIDE DEF r1, k1, r, children, created, empty
      <4> QED BY <1>2, <3>1, <3>2, <4>1, UnhungKeeps
    <3>8. /\ r1[x] = 0 /\ \A m \in Elements : m # n => k1[m] = kids[m]
          /\ k1[n] = <<>>
      BY <1>3, <1>4, <3>4
    <3>9. r1[n] > 0 /\ r1 \in [Elements -> Nat]
      <4>1. n # c
        BY <3>2, ElementsFact
      <4>2. r1[n] = refs[n]
        BY <1>4, <4>1
      <4> QED BY <1>5, <3>7, <4>2 DEF TreeKnown
    <3>10. \A m \in Elements : m # x => empty[m] = r1[m]
      <4> HIDE DEF created, empty
      <4> QED BY <1>7, <3>6
    <3>11. empty[x] = 1
      <4>1. created[x] = 1
        BY <1>4, <1>7
      <4> HIDE DEF created, empty
      <4> QED BY <1>4, <3>4, <3>6, <4>1
    <3>12. empty \in [Elements -> Nat]
      <4>1. \A m \in Elements : empty[m] \in Nat
        <5> HIDE DEF empty, r1, created
        <5> QED BY <3>9, <3>10, <3>11
      <4>2. empty = [m \in Elements |-> empty[m]]
        <5> HIDE DEF created, empty
        <5> QED BY <3>6
      <4> HIDE DEF empty
      <4> QED BY <4>1, <4>2
    <3> HIDE DEF r1, k1, empty
    <3> QED BY <3>7, <3>8, <3>9, <3>10, <3>11, <3>12
  <2> QED BY <2>1, <2>2
<1> HIDE DEF created, empty, children
<1>9. PICK r1, k1 : /\ TreeKnown(r1, k1, loaded, impls)
                    /\ r1[n] > 0 /\ k1[n] = <<>> /\ r1[x] = 0
                    /\ \A m \in Elements : m # x => empty[m] = r1[m]
                    /\ \A m \in Elements : m # n => k1[m] = kids[m]
                    /\ empty[x] = 1 /\ empty \in [Elements -> Nat]
  BY <1>8
<1>10. r = [m \in Elements |-> IF m = x THEN IF x \in Fields THEN 1 ELSE 2 ELSE r1[m]]
  <2>1. r = [m \in Elements |-> IF m = x THEN empty[x] + 1 ELSE empty[m]]
    BY <1>4, <1>9
  <2>2. \A m \in Elements : (IF m = x THEN empty[x] + 1 ELSE empty[m]) = (IF m = x THEN IF x \in Fields THEN 1 ELSE 2 ELSE r1[m])
    BY <1>4, <1>9
  <2> QED BY <2>1, <2>2
<1>11. children = [m \in Elements |-> IF m = n THEN <<x>> ELSE k1[m]]
  <2>1. \A m \in Elements : (IF m = n THEN <<x>> ELSE kids[m]) = (IF m = n THEN <<x>> ELSE k1[m])
    BY <1>9
  <2> QED BY <1>6, <2>1
<1> HIDE DEF r
<1>12. TreeKnown(r, children, loaded, impls)
  <2>1. (n \in DOMAIN FieldOf /\ x = FieldOf[n]) \/ (n \in Fields /\ x \in TextNodes)
    BY <1>3
  <2>2. TreeKnown(r1, k1, loaded, impls) /\ r1[n] > 0 /\ k1[n] = <<>> /\ r1[x] = 0
    BY <1>9
  <2> QED BY ONLY <1>4, <1>10, <1>11, <2>1, <2>2, HungKeeps
<1>13. Kept(r, children) = children
  BY <1>12, KeptIs DEF TreeKnown
<1> QED BY <1>1, <1>12, <1>13, BecomesKeeps
-----------------------------------------------------------------------------
(* The gui: the inputs and the frame *)

\* A step that leaves the tree alone keeps what is known of it.
LEMMA TreeAlone ==
    ASSUME GuiInv, UNCHANGED <<refs, kids, loaded, impls>>
    PROVE  TreeKnown(refs, kids, loaded, impls)' /\ refs' \in [Elements -> Nat] /\ impls' \in [Elements -> Nat]
           /\ kids' \in [Elements -> Seq(Elements)] /\ loaded' \subseteq Docs
<1>1. TreeKnown(refs, kids, loaded, impls)
  BY DEF GuiInv
<1>2. TreeKnown(refs, kids, loaded, impls)'
  BY <1>1
<1> QED BY <1>2 DEF TreeKnown

LEMMA FocusKeeps ==
    ASSUME GuiInv, NEW n \in Elements, Focus(n)
    PROVE  GuiInv'
<1>1. /\ focus' = n /\ typing' = ModeAfter(ModeAfter(typing, "blur", focus), "focus", n)
      /\ UNCHANGED <<opened, refs, kids, loaded, impls, owned, geometries, textures, frameVars>>
  BY DEF Focus
<1>2. GuiTypeOK /\ HandlesAreTheirs /\ FrameKnown /\ DrawsAreTheirOwn /\ TypingFollowsFocus
  BY DEF GuiInv
<1>3. typing \in BOOLEAN /\ (typing <=> focus \in Fields)
  BY <1>2 DEF GuiTypeOK, TypingFollowsFocus
<1>4. typing' \in BOOLEAN /\ (typing' <=> n \in Fields)
  <2>1. CASE n \in Fields
    <3>1. typing' = TRUE
      BY <1>1, <2>1 DEF ModeAfter
    <3> QED BY <2>1, <3>1
  <2>2. CASE n \notin Fields /\ focus \in Fields
    <3>1. typing' = FALSE
      BY <1>1, <2>2 DEF ModeAfter
    <3> QED BY <2>2, <3>1
  <2>3. CASE n \notin Fields /\ focus \notin Fields
    <3>1. typing' = typing
      BY <1>1, <2>3 DEF ModeAfter
    <3> QED BY <1>3, <2>3, <3>1
  <2> QED BY <2>1, <2>2, <2>3
<1>5. TreeKnown(refs, kids, loaded, impls)'
  BY <1>1, TreeAlone
<1>6. GuiTypeOK'
  BY <1>1, <1>2, <1>4 DEF GuiTypeOK, frameVars, NoneSeen
<1>7. HandlesAreTheirs' /\ FrameKnown' /\ DrawsAreTheirOwn'
  BY <1>1, <1>2 DEF HandlesAreTheirs, FrameKnown, DrawsAreTheirOwn, frameVars, NoneSeen
<1>8. TypingFollowsFocus'
  BY <1>1, <1>4 DEF TypingFollowsFocus
<1> QED BY <1>5, <1>6, <1>7, <1>8 DEF GuiInv

\* What a step says of the frame is all that has to be looked at when it leaves
\* the tree and the geometries alone.
LEMMA FrameStep ==
    ASSUME GuiInv, UNCHANGED <<refs, kids, loaded, impls, owned, geometries, focus, typing, opened>>,
           textures' \in Nat, newSize' \in 0..2, viewport' \in 1..2, failed' \in BOOLEAN,
           pushed' \in Seq([size : 0..2, at : Nat]), todo' \subseteq Docs,
           seen' = NoneSeen \/ (seen' = seen /\ viewport' = viewport),
           FrameKnown'
    PROVE  GuiInv'
<1>1. GuiTypeOK /\ HandlesAreTheirs /\ DrawsAreTheirOwn /\ TypingFollowsFocus
  BY DEF GuiInv
<1>2. TreeKnown(refs, kids, loaded, impls)'
  BY TreeAlone
<1>3. NoneSeen' = NoneSeen
  BY DEF NoneSeen
<1>4. GuiTypeOK'
  BY <1>1, <1>3 DEF GuiTypeOK
<1>5. HandlesAreTheirs' /\ TypingFollowsFocus'
  BY <1>1 DEF HandlesAreTheirs, TypingFollowsFocus
<1>6. DrawsAreTheirOwn'
  BY <1>1, <1>3 DEF DrawsAreTheirOwn
<1> QED BY <1>2, <1>4, <1>5, <1>6 DEF GuiInv

LEMMA ResizedKeeps ==
    ASSUME GuiInv, Resized
    PROVE  GuiInv'
<1>1. /\ newSize' = 3 - viewport
      /\ UNCHANGED <<refs, kids, loaded, impls, owned, geometries, focus, typing, opened>>
      /\ UNCHANGED <<textures, pushed, todo, failed, seen, viewport>>
  BY DEF Resized, treeVars
<1>2. GuiTypeOK /\ FrameKnown
  BY DEF GuiInv
<1>3. /\ textures' \in Nat /\ newSize' \in 0..2 /\ viewport' \in 1..2 /\ failed' \in BOOLEAN
      /\ pushed' \in Seq([size : 0..2, at : Nat]) /\ todo' \subseteq Docs
  BY <1>1, <1>2 DEF GuiTypeOK
<1>4. FrameKnown'
  BY <1>1, <1>2 DEF FrameKnown, NoneSeen
<1> QED BY <1>1, <1>3, <1>4, FrameStep

LEMMA GenerateTextureKeeps ==
    ASSUME GuiInv, GenerateTexture
    PROVE  GuiInv'
<1>1. /\ textures' = textures + 1
      /\ UNCHANGED <<refs, kids, loaded, impls, owned, geometries, focus, typing, opened>>
      /\ UNCHANGED <<newSize, pushed, todo, failed, seen, viewport>>
  BY DEF GenerateTexture, treeVars, frameVars
<1>2. GuiTypeOK /\ FrameKnown
  BY DEF GuiInv
<1>3. /\ textures' \in Nat /\ newSize' \in 0..2 /\ viewport' \in 1..2 /\ failed' \in BOOLEAN
      /\ pushed' \in Seq([size : 0..2, at : Nat]) /\ todo' \subseteq Docs
  BY <1>1, <1>2 DEF GuiTypeOK
<1>4. FrameKnown'
  BY <1>1, <1>2 DEF FrameKnown, NoneSeen
<1> QED BY <1>1, <1>3, <1>4, FrameStep

LEMMA BeginFrameKeeps ==
    ASSUME GuiInv, BeginFrame
    PROVE  GuiInv'
<1>1. /\ pushed = <<>> /\ pushed' = <<[size |-> 0, at |-> 0]>>
      /\ UNCHANGED <<refs, kids, loaded, impls, owned, geometries, focus, typing, opened>>
      /\ UNCHANGED <<textures, newSize, todo, failed, seen, viewport>>
  BY DEF BeginFrame, treeVars
<1>2. GuiTypeOK /\ FrameKnown
  BY DEF GuiInv
<1>3. todo = {} /\ seen = NoneSeen
  BY <1>1, <1>2 DEF FrameKnown
<1>4. pushed' \in Seq([size : 0..2, at : Nat]) /\ Len(pushed') = 1 /\ pushed'[1] = [size |-> 0, at |-> 0]
  <2>1. [size |-> 0, at |-> 0] \in [size : 0..2, at : Nat]
    OBVIOUS
  <2> QED BY <1>1, <2>1
<1>5. /\ textures' \in Nat /\ newSize' \in 0..2 /\ viewport' \in 1..2 /\ failed' \in BOOLEAN
      /\ todo' \subseteq Docs
  BY <1>1, <1>2 DEF GuiTypeOK
<1>6. FrameKnown'
  BY <1>1, <1>3, <1>4 DEF FrameKnown, NoneSeen
<1> QED BY <1>1, <1>4, <1>5, <1>6, FrameStep

LEMMA PushedFact ==
    ASSUME NEW S, NEW ss \in Seq(S), NEW e \in S
    PROVE  /\ Append(ss, e) \in Seq(S) /\ Len(Append(ss, e)) = Len(ss) + 1
           /\ Append(ss, e)[Len(ss) + 1] = e
  OBVIOUS

LEMMA RenderKeeps ==
    ASSUME GuiInv, Render
    PROVE  GuiInv'
<1>1. /\ Len(pushed) = 1
      /\ viewport' = (IF newSize # 0 THEN newSize ELSE viewport) /\ newSize' = 0
      /\ pushed' = Append(pushed, [Last(pushed) EXCEPT !.size = viewport'])
      /\ todo' = loaded
      /\ UNCHANGED <<refs, kids, loaded, impls, owned, geometries, focus, typing, opened>>
      /\ UNCHANGED <<textures, failed, seen>>
  BY DEF Render, treeVars
<1>2. GuiTypeOK /\ FrameKnown
  BY DEF GuiInv
<1>3. seen = NoneSeen /\ pushed[1] = [size |-> 0, at |-> 0] /\ pushed \in Seq([size : 0..2, at : Nat])
  BY <1>1, <1>2 DEF FrameKnown, GuiTypeOK
<1>4. viewport' \in 1..2 /\ newSize' \in 0..2
  BY <1>1, <1>2 DEF GuiTypeOK
<1>5. [Last(pushed) EXCEPT !.size = viewport'] = [size |-> viewport', at |-> 0]
  BY <1>1, <1>3 DEF Last
<1>6. [size |-> viewport', at |-> 0] \in [size : 0..2, at : Nat]
  BY <1>4
<1>7. /\ pushed' \in Seq([size : 0..2, at : Nat]) /\ Len(pushed') = 2
      /\ pushed'[2] = [size |-> viewport', at |-> 0]
  <2> DEFINE S == [size : 0..2, at : Nat]
             e == [size |-> viewport', at |-> 0]
  <2>1. pushed' = Append(pushed, e) /\ pushed \in Seq(S) /\ e \in S /\ Len(pushed) = 1
    BY <1>1, <1>3, <1>5, <1>6
  <2> HIDE DEF S, e
  <2>2. pushed' \in Seq(S) /\ Len(pushed') = 1 + 1 /\ pushed'[1 + 1] = e
    BY <2>1, PushedFact
  <2> QED BY <2>2 DEF S, e
<1>8. textures' \in Nat /\ failed' \in BOOLEAN /\ todo' \subseteq Docs
  BY <1>1, <1>2 DEF GuiTypeOK
<1>9. FrameKnown'
  BY <1>7 DEF FrameKnown
<1> QED BY <1>1, <1>3, <1>4, <1>7, <1>8, <1>9, FrameStep

LEMMA EndFrameKeeps ==
    ASSUME GuiInv, EndFrame
    PROVE  GuiInv'
<1>1. /\ todo = {} /\ pushed' = <<>> /\ failed' = FALSE /\ seen' = NoneSeen
      /\ UNCHANGED <<refs, kids, loaded, impls, owned, geometries, focus, typing, opened>>
      /\ UNCHANGED <<textures, todo, newSize, viewport>>
  BY DEF EndFrame, treeVars
<1>2. /\ textures' \in Nat /\ newSize' \in 0..2 /\ viewport' \in 1..2 /\ failed' \in BOOLEAN
      /\ pushed' \in Seq([size : 0..2, at : Nat]) /\ todo' \subseteq Docs
  <2>1. <<>> \in Seq([size : 0..2, at : Nat])
    OBVIOUS
  <2> QED BY <1>1, <2>1 DEF GuiInv, GuiTypeOK
<1>3. FrameKnown'
  <2>1. Len(pushed') = 0
    BY <1>1
  <2> QED BY <1>1, <2>1 DEF FrameKnown, NoneSeen
<1> QED BY <1>1, <1>2, <1>3, FrameStep

\* What a document is drawn through.
LEMMA MovedFact ==
    ASSUME GuiInv, NEW d \in todo
    PROVE  /\ d \in Docs /\ Len(pushed) = 2
           /\ Moved(d) = [size |-> viewport, at |-> Position[d]] /\ Position[d] \in Nat
<1>1. GuiTypeOK /\ FrameKnown
  BY DEF GuiInv
<1>2. d \in Docs /\ pushed \in Seq([size : 0..2, at : Nat])
  BY <1>1 DEF GuiTypeOK
<1>3. Len(pushed) = 2 /\ pushed[2] = [size |-> viewport, at |-> 0]
  BY <1>1 DEF FrameKnown
<1>4. Position[d] \in Nat
  BY <1>2, DocsAssumption
<1>5. Moved(d) = [size |-> viewport, at |-> 0 + Position[d]]
  BY <1>3 DEF Moved, Last
<1> QED BY <1>2, <1>3, <1>4, <1>5

LEMMA DrawFailsKeeps ==
    ASSUME GuiInv, NEW d \in Docs, DrawFails(d)
    PROVE  GuiInv'
<1>1. /\ d \in todo /\ pushed' = Append(pushed, Moved(d)) /\ todo' = {} /\ failed' = TRUE
      /\ UNCHANGED <<refs, kids, loaded, impls, owned, geometries, focus, typing, opened>>
      /\ UNCHANGED <<textures, seen, newSize, viewport>>
  BY DEF DrawFails, treeVars
<1>2. GuiTypeOK
  BY DEF GuiInv
<1>3. Len(pushed) = 2 /\ Moved(d) = [size |-> viewport, at |-> Position[d]] /\ Position[d] \in Nat
  BY <1>1, MovedFact
<1>4. Moved(d) \in [size : 0..2, at : Nat] /\ pushed \in Seq([size : 0..2, at : Nat])
  BY <1>2, <1>3 DEF GuiTypeOK
<1>5. pushed' \in Seq([size : 0..2, at : Nat]) /\ Len(pushed') = 3
  <2> DEFINE S == [size : 0..2, at : Nat]
  <2>1. pushed' = Append(pushed, Moved(d)) /\ pushed \in Seq(S) /\ Moved(d) \in S /\ Len(pushed) = 2
    BY <1>1, <1>3, <1>4
  <2> HIDE DEF S
  <2>2. Append(pushed, Moved(d)) \in Seq(S) /\ Len(Append(pushed, Moved(d))) = Len(pushed) + 1
    BY ONLY <2>1, PushedFact
  <2>3. pushed' \in Seq(S) /\ Len(pushed') = 3
    BY ONLY <2>1, <2>2
  <2> QED BY <2>3 DEF S
<1>6. /\ textures' \in Nat /\ newSize' \in 0..2 /\ viewport' \in 1..2 /\ failed' \in BOOLEAN
      /\ todo' \subseteq Docs
  BY <1>1, <1>2 DEF GuiTypeOK
<1>7. FrameKnown'
  BY <1>1, <1>5 DEF FrameKnown
<1> QED BY <1>1, <1>5, <1>6, <1>7, FrameStep

\* The document's geometry is there when it is drawn.
LEMMA CompiledFact ==
    ASSUME GuiInv, NEW d \in Docs,
           IF owned[d] = 0 THEN \E t \in 0..textures : Compile(d, t) ELSE UNCHANGED <<geometries, owned>>
    PROVE  /\ HandlesAreTheirs' /\ owned' \in [Docs -> Nat] /\ owned'[d] # 0
           /\ DOMAIN geometries' \subseteq Nat \ {0} /\ IsFiniteSet(DOMAIN geometries')
           /\ \A h \in DOMAIN geometries' : geometries'[h] \in [doc : Docs, texture : Nat]
<1>1. GuiTypeOK /\ HandlesAreTheirs
  BY DEF GuiInv
<1>2. /\ owned \in [Docs -> Nat] /\ textures \in Nat
      /\ DOMAIN geometries \subseteq Nat \ {0} /\ IsFiniteSet(DOMAIN geometries)
      /\ \A h \in DOMAIN geometries : geometries[h] \in [doc : Docs, texture : Nat]
  BY <1>1 DEF GuiTypeOK
<1>3. CASE owned[d] # 0
  <2>1. geometries' = geometries /\ owned' = owned
    BY <1>3
  <2> QED BY <1>1, <1>2, <1>3, <2>1 DEF HandlesAreTheirs
<1>4. CASE owned[d] = 0
  <2> DEFINE h == FreshHandle(DOMAIN geometries)
  <2>1. PICK t \in 0..textures :
           /\ geometries' = [i \in DOMAIN geometries \cup {h} |->
                                IF i = h THEN [doc |-> d, texture |-> t] ELSE geometries[i]]
           /\ owned' = [owned EXCEPT ![d] = h]
    BY <1>4 DEF Compile
  <2>2. h \in Nat \ {0} /\ h \notin DOMAIN geometries
    <3>1. DOMAIN geometries \in SUBSET Nat
      BY <1>2
    <3> QED BY <1>2, <3>1, FreshFact
  <2> HIDE DEF h
  <2>3. /\ DOMAIN geometries' = DOMAIN geometries \cup {h}
        /\ geometries'[h] = [doc |-> d, texture |-> t]
        /\ \A i \in DOMAIN geometries : geometries'[i] = geometries[i]
    BY <2>1, <2>2
  <2>4. owned' \in [Docs -> Nat] /\ owned'[d] = h /\ \A e \in Docs : e # d => owned'[e] = owned[e]
    BY <1>2, <2>1, <2>2
  <2>5. HandlesAreTheirs'
    <3> SUFFICES ASSUME NEW e \in Docs, owned'[e] # 0
                 PROVE  owned'[e] \in DOMAIN geometries' /\ geometries'[owned'[e]].doc = e
      BY DEF HandlesAreTheirs
    <3>1. CASE e = d
      BY <2>3, <2>4, <3>1
    <3>2. CASE e # d
      <4>1. owned'[e] = owned[e] /\ owned[e] # 0
        BY <2>4, <3>2
      <4>2. owned[e] \in DOMAIN geometries /\ geometries[owned[e]].doc = e
        BY <1>1, <4>1 DEF HandlesAreTheirs
      <4> QED BY <2>3, <4>1, <4>2
    <3> QED BY <3>1, <3>2
  <2>6. IsFiniteSet(DOMAIN geometries')
    BY <1>2, <2>3, FS_AddElement
  <2>7. \A i \in DOMAIN geometries' : geometries'[i] \in [doc : Docs, texture : Nat]
    <3>1. [doc |-> d, texture |-> t] \in [doc : Docs, texture : Nat]
      BY <1>2
    <3> QED BY <1>2, <2>3, <3>1
  <2>8. DOMAIN geometries' \subseteq Nat \ {0}
    BY <1>2, <2>2, <2>3
  <2> QED BY <2>2, <2>4, <2>5, <2>6, <2>7, <2>8
<1> QED BY <1>3, <1>4

LEMMA DrawDocKeeps ==
    ASSUME GuiInv, NEW d \in Docs, DrawDoc(d)
    PROVE  GuiInv'
<1>1. /\ d \in todo /\ todo' = todo \ {d}
      /\ IF owned[d] = 0 THEN \E t \in 0..textures : Compile(d, t) ELSE UNCHANGED <<geometries, owned>>
      /\ UNCHANGED <<refs, kids, loaded, impls>>
      /\ UNCHANGED <<opened, focus, typing, textures, pushed, failed, newSize, viewport>>
  BY DEF DrawDoc
<1> DEFINE g == geometries'[owned'[d]]
<1>2. seen' = [doc |-> d, of |-> g.doc, at |-> Moved(d).at, size |-> Moved(d).size, textured |-> g.texture # 0]
  BY DEF DrawDoc
<1>3. Len(pushed) = 2 /\ Moved(d) = [size |-> viewport, at |-> Position[d]] /\ Position[d] \in Nat
  BY <1>1, MovedFact
<1>4. /\ HandlesAreTheirs' /\ owned' \in [Docs -> Nat] /\ owned'[d] # 0
      /\ DOMAIN geometries' \subseteq Nat \ {0} /\ IsFiniteSet(DOMAIN geometries')
      /\ \A h \in DOMAIN geometries' : geometries'[h] \in [doc : Docs, texture : Nat]
  BY <1>1, CompiledFact
<1>5. g.doc = d
  BY <1>4 DEF HandlesAreTheirs
<1> HIDE DEF g
<1>6. seen' = [doc |-> d, of |-> d, at |-> Position[d], size |-> viewport, textured |-> g.texture # 0]
  BY <1>2, <1>3, <1>5
<1>7. GuiTypeOK /\ FrameKnown /\ TypingFollowsFocus
  BY DEF GuiInv
<1>8. seen' \in [doc : Docs, of : Docs, at : Nat, size : 0..2, textured : BOOLEAN]
  BY <1>3, <1>6, <1>7 DEF GuiTypeOK
<1>9. DrawsAreTheirOwn'
  <2>1. seen'.of = seen'.doc /\ seen'.at = Position[seen'.doc] /\ seen'.size = viewport'
    BY <1>1, <1>6
  <2> QED BY <2>1 DEF DrawsAreTheirOwn
<1>10. FrameKnown'
  BY <1>1, <1>3, <1>7 DEF FrameKnown
<1>11. TypingFollowsFocus'
  BY <1>1, <1>7 DEF TypingFollowsFocus
<1>12. /\ TreeKnown(refs, kids, loaded, impls)' /\ refs' \in [Elements -> Nat] /\ impls' \in [Elements -> Nat]
       /\ kids' \in [Elements -> Seq(Elements)] /\ loaded' \subseteq Docs
  BY <1>1, TreeAlone
<1>13. GuiTypeOK'
  <2>1. {opened', failed', typing'} \subseteq BOOLEAN /\ focus' \in Elements \cup {NoElement}
    BY <1>1, <1>7 DEF GuiTypeOK
  <2>2. /\ textures' \in Nat /\ newSize' \in 0..2 /\ viewport' \in 1..2
        /\ pushed' \in Seq([size : 0..2, at : Nat]) /\ todo' \subseteq Docs
    BY <1>1, <1>7 DEF GuiTypeOK
  <2> QED BY <1>4, <1>8, <1>12, <2>1, <2>2 DEF GuiTypeOK
<1> QED BY <1>4, <1>9, <1>10, <1>11, <1>12, <1>13 DEF GuiInv

-----------------------------------------------------------------------------
LEMMA GuiStutter ==
    ASSUME GuiInv, UNCHANGED guiVars
    PROVE  GuiInv'
<1>1. /\ UNCHANGED <<refs, kids, loaded, impls, owned, geometries, focus, typing, opened>>
      /\ UNCHANGED <<textures, newSize, pushed, todo, failed, seen, viewport>>
  BY DEF guiVars, treeVars, frameVars
<1>2. GuiTypeOK /\ FrameKnown
  BY DEF GuiInv
<1>3. /\ textures' \in Nat /\ newSize' \in 0..2 /\ viewport' \in 1..2 /\ failed' \in BOOLEAN
      /\ pushed' \in Seq([size : 0..2, at : Nat]) /\ todo' \subseteq Docs
  BY <1>1, <1>2 DEF GuiTypeOK
<1>4. FrameKnown'
  BY <1>1, <1>2 DEF FrameKnown, NoneSeen
<1> QED BY <1>1, <1>3, <1>4, FrameStep

LEMMA GuiKeeps == GuiInv /\ [GuiNext]_guiVars => GuiInv'
<1> SUFFICES ASSUME GuiInv, [GuiNext]_guiVars PROVE GuiInv'
  OBVIOUS
<1>1. ASSUME NEW d \in Docs, Load(d) PROVE GuiInv'
  BY <1>1, LoadKeeps
<1>2. ASSUME NEW d \in Docs, DrawDoc(d) PROVE GuiInv'
  BY <1>2, DrawDocKeeps
<1>3. ASSUME NEW d \in Docs, DrawFails(d) PROVE GuiInv'
  BY <1>3, DrawFailsKeeps
<1>4. CASE Documents
  BY <1>4, DocumentsKeeps
<1>5. ASSUME NEW n \in Elements, Forget(n) PROVE GuiInv'
  BY <1>5, ForgetKeeps
<1>6. ASSUME NEW n \in Elements, RemoveChildren(n) PROVE GuiInv'
  BY <1>6, RemoveChildrenKeeps
<1>7. ASSUME NEW n \in Elements, FirstChild(n) PROVE GuiInv'
  BY <1>7, FirstChildKeeps
<1>8. ASSUME NEW n \in Elements, Focus(n) PROVE GuiInv'
  BY <1>8, FocusKeeps
<1>9. ASSUME NEW docs \in SUBSET Docs, Unload(docs) PROVE GuiInv'
  BY <1>9, UnloadKeeps
<1>10. ASSUME NEW n \in Fields, SetText(n) PROVE GuiInv'
  BY <1>10, SetTextKeeps
<1>11. CASE Resized
  BY <1>11, ResizedKeeps
<1>12. CASE Close
  BY <1>12, CloseKeeps
<1>13. CASE GenerateTexture
  BY <1>13, GenerateTextureKeeps
<1>14. CASE BeginFrame
  BY <1>14, BeginFrameKeeps
<1>15. CASE Render
  BY <1>15, RenderKeeps
<1>16. CASE EndFrame
  BY <1>16, EndFrameKeeps
<1>17. CASE UNCHANGED guiVars
  BY <1>17, GuiStutter
<1> QED BY <1>1, <1>2, <1>3, <1>4, <1>5, <1>6, <1>7, <1>8, <1>9, <1>10, <1>11, <1>12, <1>13, <1>14,
           <1>15, <1>16, <1>17 DEF GuiNext

\* Who holds an element is what its references count.
LEMMA GuiIsKnown == GuiInv => GuiIsFaithful
<1> SUFFICES ASSUME GuiInv PROVE GuiIsFaithful
  OBVIOUS
<1>1. TreeKnown(refs, kids, loaded, impls) /\ KidsKnown(refs, kids)
  BY TreeFact
<1>2. \A n \in Elements : HangsIn(kids, n) <=> HeldInTree(n)
  <2> TAKE n \in Elements
  <2>1. ASSUME NEW p \in Elements, kids[p] = <<n>> PROVE HeldInTree(n)
    <3>1. kids[p] # <<>> /\ ToSet(kids[p]) = {n}
      BY <2>1 DEF ToSet
    <3>2. refs[p] > 0
      BY <1>1, <3>1, KidFact
    <3> QED BY <3>1, <3>2 DEF HeldInTree
  <2>2. ASSUME NEW p \in Elements, n \in ToSet(kids[p]) PROVE HangsIn(kids, n)
    <3>1. kids[p] # <<>>
      BY <2>2 DEF ToSet
    <3>2. PICK c \in Elements : kids[p] = <<c>>
      BY <1>1, <3>1, KidFact
    <3>3. ToSet(kids[p]) = {c}
      BY <3>2 DEF ToSet
    <3> QED BY <2>2, <3>2, <3>3 DEF HangsIn
  <2> QED BY <2>1, <2>2 DEF HangsIn, HeldInTree
<1>3. ElementsAreHeld
  BY <1>1, <1>2, RefsFact DEF ElementsAreHeld
<1> QED BY <1>3 DEF GuiInv, GuiIsFaithful

\* The gui of any documents stays faithful: what is in a tree, in the context or
\* in a client's hands is there and the rest goes, a handle is of the geometry it
\* was given for, a geometry is drawn where it is through the window's size, and
\* SDL makes text of keys just while a field has the focus.
THEOREM GuiStaysFaithful == GuiSpec => []GuiIsFaithful
<1>1. GuiInit => GuiInv
  BY GuiBegins
<1>2. GuiInv /\ [GuiNext]_guiVars => GuiInv'
  BY GuiKeeps
<1>3. GuiInv => GuiIsFaithful
  BY GuiIsKnown
<1> QED BY <1>1, <1>2, <1>3, PTL DEF GuiSpec
=============================================================================
