------------------------------ MODULE LogRunner ------------------------------
(***************************************************************************)
(* etc::log: the backend of the loggers, from its construction to the end  *)
(* of the process.  Any thread posts messages into a bounded lock-free     *)
(* queue; in asynchronous mode one worker thread sends them to the         *)
(* console, in synchronous mode the poster itself does.  The main thread   *)
(* switches the mode, and shuts the backend down when the process ends.    *)
(*                                                                         *)
(* The queue is linearizable and the two atomic flags sequentially         *)
(* consistent, so each of their operations is a step of its own.           *)
(***************************************************************************)
EXTENDS Integers, Sequences, SequencesExt, FiniteSets

CONSTANTS Threads,     \* threads that log
          Main,        \* the one that changes the mode and ends the process
          Worker,      \* Runner::Impl::thread
          NoThread,
          Capacity,    \* boost::lockfree::capacity<2000>
          MaxPosts,    \* bound: messages posted
          MaxChanges   \* bound: calls of set_mode

ASSUME ThreadsAssumption ==
    /\ Main \in Threads
    /\ Worker \notin Threads
    /\ NoThread \notin Threads \cup {Worker}
ASSUME BoundsAssumption ==
    Capacity \in Nat \ {0} /\ MaxPosts \in Nat /\ MaxChanges \in Nat

VARIABLES
    queue,      \* Impl::queue
    mode,       \* Interface::_mode
    running,    \* Impl::running
    worker,     \* where Impl::thread is
    lock,       \* who holds Impl::backend_lock
    pc,         \* where each thread is in post(), stop() or flush()
    inflight,   \* the message each holder has popped and not sent yet
    object,     \* what the backend is: its dynamic type decides _send_line
    exiting,    \* etc::log::Init has been destroyed
    accepted,   \* messages the queue took, in order
    delivered,  \* messages _send_line got, in order
    posts, changes

vars == <<queue, mode, running, worker, lock, pc, inflight, object, exiting,
          accepted, delivered, posts, changes>>

Modes == {"synchroneous", "asynchroneous"}
Senders == Threads \cup {Worker}
None == 0

\* Interface::Interface(): the worker may start before the Console exists.
Init ==
    /\ queue = <<>>
    /\ mode \in Modes
    /\ running = (mode = "asynchroneous")
    /\ worker = IF running THEN "starting" ELSE "none"
    /\ lock = NoThread
    /\ pc = [t \in Threads |-> "idle"]
    /\ inflight = [s \in Senders |-> None]
    /\ object = "Interface"
    /\ exiting = FALSE
    /\ accepted = <<>>
    /\ delivered = <<>>
    /\ posts = 0
    /\ changes = 0

\* Console::Console() returns; only now can a thread get the backend.
Constructed ==
    /\ object = "Interface"
    /\ ~ exiting
    /\ object' = "Console"
    /\ UNCHANGED <<queue, mode, running, worker, lock, pc, inflight, exiting,
                   accepted, delivered, posts, changes>>
-----------------------------------------------------------------------------
(* post *)

HasRoom == Len(queue) < Capacity

\* queue.push: its result is ignored, a message for a full queue is gone.
Push(t) ==
    /\ object = "Console"
    /\ pc[t] = "idle"
    /\ posts < MaxPosts
    /\ posts' = posts + 1
    /\ IF HasRoom
       THEN /\ queue' = Append(queue, posts')
            /\ accepted' = Append(accepted, posts')
       ELSE UNCHANGED <<queue, accepted>>
    /\ pc' = [pc EXCEPT ![t] = "pushed"]
    /\ UNCHANGED <<mode, running, worker, lock, inflight, object, exiting,
                   delivered, changes>>

\* Fault: the poster counts on stop() to flush.
MustFlush_Never == FALSE
MustFlush == ~ running

CheckRunning(t) ==
    /\ pc[t] = "pushed"
    /\ pc' = [pc EXCEPT ![t] = IF MustFlush THEN "lock" ELSE "idle"]
    /\ UNCHANGED <<queue, mode, running, worker, lock, inflight, object, exiting,
                   accepted, delivered, posts, changes>>
-----------------------------------------------------------------------------
(* Taking the lock, popping and sending *)

Locks(s) == lock = NoThread /\ lock' = s

Pop(s) ==
    /\ queue # <<>>
    /\ inflight[s] = None
    /\ inflight' = [inflight EXCEPT ![s] = Head(queue)]
    /\ queue' = Tail(queue)

\* backend._send_line
Send(s) ==
    /\ inflight[s] # None
    /\ delivered' = Append(delivered, inflight[s])
    /\ inflight' = [inflight EXCEPT ![s] = None]

FlushLock(t) ==
    /\ pc[t] = "lock"
    /\ Locks(t)
    /\ pc' = [pc EXCEPT ![t] = "flush"]
    /\ UNCHANGED <<queue, mode, running, worker, inflight, object, exiting,
                   accepted, delivered, posts, changes>>

FlushPop(t) ==
    /\ pc[t] = "flush"
    /\ Pop(t)
    /\ UNCHANGED <<mode, running, worker, lock, pc, object, exiting, accepted,
                   delivered, posts, changes>>

FlushSend(t) ==
    /\ pc[t] = "flush"
    /\ Send(t)
    /\ UNCHANGED <<queue, mode, running, worker, lock, pc, object, exiting,
                   accepted, posts, changes>>

\* The end of ~Interface; the flush of ~Runner finds the queue empty.
FlushEnd(t) ==
    /\ pc[t] = "flush"
    /\ inflight[t] = None
    /\ queue = <<>>
    /\ lock' = NoThread
    /\ pc' = [pc EXCEPT ![t] = "idle"]
    /\ object' = IF object = "Interface" THEN "gone" ELSE object
    /\ UNCHANGED <<queue, mode, running, worker, inflight, exiting, accepted,
                   delivered, posts, changes>>
-----------------------------------------------------------------------------
(* The worker thread *)

\* Fault: the worker does not take backend_lock.
WorkerLocks_Not == UNCHANGED lock
WorkerLocks == Locks(Worker)

WorkerBegin ==
    /\ worker = "starting"
    /\ WorkerLocks
    /\ worker' = "looping"
    /\ UNCHANGED <<queue, mode, running, pc, inflight, object, exiting, accepted,
                   delivered, posts, changes>>

\* The test of the loop: `running' is read before `queue.empty()'.
WorkerStays == running

WorkerPop ==
    /\ worker \in {"looping", "draining"}
    /\ Pop(Worker)
    /\ worker' = "popped"
    /\ UNCHANGED <<mode, running, lock, pc, object, exiting, accepted, delivered,
                   posts, changes>>

WorkerSend ==
    /\ worker = "popped"
    /\ Send(Worker)
    /\ worker' = "looping"
    /\ UNCHANGED <<queue, mode, running, lock, pc, object, exiting, accepted,
                   posts, changes>>

\* Nothing to pop: the worker sleeps and looks again.
WorkerSleeps ==
    /\ worker = "looping"
    /\ WorkerStays
    /\ queue = <<>>
    /\ UNCHANGED vars

WorkerSeesStop ==
    /\ worker = "looping"
    /\ ~ WorkerStays
    /\ worker' = "draining"
    /\ UNCHANGED <<queue, mode, running, lock, pc, inflight, object, exiting,
                   accepted, delivered, posts, changes>>

WorkerEnd ==
    /\ worker = "draining"
    /\ queue = <<>>
    /\ worker' = "ended"
    /\ lock' = IF lock = Worker THEN NoThread ELSE lock
    /\ UNCHANGED <<queue, mode, running, pc, inflight, object, exiting, accepted,
                   delivered, posts, changes>>
-----------------------------------------------------------------------------
(* The main thread: set_mode, shutdown, destruction *)

Start ==
    /\ running' = TRUE
    /\ worker' = "starting"
    /\ UNCHANGED pc

\* Runner::stop(): join the worker if there is one, then flush.
Stop ==
    IF worker = "none"
    THEN /\ pc' = [pc EXCEPT ![Main] = "lock"]
         /\ UNCHANGED <<running, worker>>
    ELSE /\ running' = FALSE
         /\ pc' = [pc EXCEPT ![Main] = "join"]
         /\ UNCHANGED worker

Joined ==
    /\ pc[Main] = "join"
    /\ worker = "ended"
    /\ worker' = "none"
    /\ pc' = [pc EXCEPT ![Main] = "lock"]
    /\ UNCHANGED <<queue, mode, running, lock, inflight, object, exiting,
                   accepted, delivered, posts, changes>>

ChangesMode(m) == mode # m

SetMode(m) ==
    /\ object = "Console"
    /\ ~ exiting
    /\ pc[Main] = "idle"
    /\ changes < MaxChanges
    /\ ChangesMode(m)
    /\ changes' = changes + 1
    /\ mode' = m
    /\ IF m = "asynchroneous" THEN Start ELSE Stop
    /\ UNCHANGED <<queue, lock, inflight, object, exiting, accepted, delivered,
                   posts>>

\* What etc::log::Init::~Init does at the end of main().
ShutdownAtExit == Stop

EndOfMain ==
    /\ object = "Console"
    /\ ~ exiting
    /\ pc[Main] = "idle"
    /\ exiting' = TRUE
    /\ ShutdownAtExit
    /\ UNCHANGED <<queue, mode, lock, inflight, object, accepted, delivered,
                   posts, changes>>

\* The static destructors: ~Console is over, ~Interface shuts down again.  The
\* other threads are done by then; main's own posts may have come in between.
Destroy ==
    /\ object = "Console"
    /\ exiting
    /\ \A t \in Threads : pc[t] = "idle"
    /\ object' = "Interface"
    /\ Stop
    /\ UNCHANGED <<queue, mode, lock, inflight, exiting, accepted, delivered,
                   posts, changes>>

\* The process is over.
Done == object = "gone" /\ UNCHANGED vars

PosterStep(t) ==
    CheckRunning(t) \/ FlushLock(t) \/ FlushPop(t) \/ FlushSend(t) \/ FlushEnd(t)
WorkerStep ==
    \/ WorkerBegin \/ WorkerPop \/ WorkerSend
    \/ WorkerSleeps \/ WorkerSeesStop \/ WorkerEnd

Next ==
    \/ Constructed
    \/ \E t \in Threads : Push(t) \/ PosterStep(t)
    \/ WorkerStep
    \/ \E m \in Modes : SetMode(m)
    \/ Joined \/ EndOfMain \/ Destroy
    \/ Done

Spec == Init /\ [][Next]_vars

\* The operating system runs every thread that can run, main once it has
\* called stop() included; std::mutex promises no more than that.  Nobody has to
\* post or to change the mode.
FairSpec ==
    /\ Spec
    /\ WF_vars(Constructed) /\ WF_vars(Joined)
    /\ \A t \in Threads : WF_vars(PosterStep(t))
    /\ WF_vars(WorkerStep)
-----------------------------------------------------------------------------
(* Correctness *)

TypeOK ==
    /\ queue \in Seq(1..MaxPosts) /\ Len(queue) <= Capacity
    /\ mode \in Modes
    /\ running \in BOOLEAN
    /\ worker \in {"none", "starting", "looping", "draining", "popped", "ended"}
    /\ lock \in Senders \cup {NoThread}
    /\ pc \in [Threads -> {"idle", "pushed", "lock", "flush", "join"}]
    /\ inflight \in [Senders -> 0..MaxPosts]
    /\ object \in {"Interface", "Console", "gone"}
    /\ exiting \in BOOLEAN
    /\ accepted \in Seq(1..MaxPosts)
    /\ delivered \in Seq(1..MaxPosts)
    /\ posts \in 0..MaxPosts
    /\ changes \in 0..MaxChanges

Sending == {s \in Senders : inflight[s] # None}

\* One thread at a time is in Console::_send_line, whose static buffers are not
\* protected otherwise (Runner.cpp:49, 82; Console.cpp:46, 117).
OneSender == Cardinality(Sending) <= 1

\* What the queue took is sent in that order, once, and nothing else is: across
\* flushing posters, the worker, and every change of the mode.
InOrder ==
    accepted = delivered \o [i \in 1..Cardinality(Sending) |->
                               inflight[CHOOSE s \in Sending : TRUE]] \o queue

\* No message stays behind: with no worker and nobody inside post, stop or
\* flush, the queue is empty (Runner.cpp:102-121).
NoneLeftBehind ==
    (worker = "none" /\ \A t \in Threads : pc[t] = "idle") => queue = <<>>

\* _send_line is pure virtual before the Console is constructed and after it is
\* destroyed (Interface.cpp:5-13).
BackendIsThere == Sending # {} => object = "Console"

\* One thread at a time sends, in the order of the queue, to a backend that is there.
SendsAreOrdered == TypeOK /\ OneSender /\ InOrder /\ NoneLeftBehind /\ BackendIsThere

\* start() never finds a thread ("ETC_ASSERT_EQ(this->thread, nullptr)",
\* Runner.cpp:46), however the mode is set and the backend shut down.
StartFindsNoThread ==
    [][worker' = "starting" /\ worker # "starting" => worker = "none"]_vars

\* Every message the queue took is sent in the end, in whatever mode the backend
\* then is.
EveryMessageSent ==
    \A i \in 1..MaxPosts : (\E k \in DOMAIN accepted : accepted[k] = i)
        ~> (\E k \in DOMAIN delivered : delivered[k] = i)

\* set_mode and shutdown return: the worker drains the queue and ends.
StopReturns == pc[Main] = "join" ~> pc[Main] = "idle"

\* Messages are sent, by one worker, and main is not left waiting for it.
LogIsLive == EveryMessageSent /\ StopReturns /\ StartFindsNoThread
=============================================================================
