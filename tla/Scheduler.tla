----------------------------- MODULE Scheduler -----------------------------
(***************************************************************************)
(* etc::scheduler: a cooperative scheduler of coroutines (Context) on top  *)
(* of one boost::asio io_service, run by one thread                        *)
(* (src/src/etc/scheduler).                                                *)
(*                                                                         *)
(* Scheduler::Impl keeps a FIFO of jobs (_jobs), the set of jobs that wait *)
(* for an event (_frozen), the stack of jobs being executed (_jobs_stack)  *)
(* and a work object that keeps io_service::run() from returning (_work).  *)
(* Each execution of _poll() runs the first job of the FIFO until it gives *)
(* the control back, and posts a new _poll while the FIFO is not empty.    *)
(*                                                                         *)
(* Of the io_service, external to the repository, the model keeps what the *)
(* scheduler sees: the number of posted _poll handlers, the asynchronous   *)
(* operations under way, the stopped flag, and that dispatch() runs its    *)
(* handler at once when it is called on the thread that is inside run().   *)
(***************************************************************************)
EXTENDS Naturals, Sequences, SequencesExt

CONSTANTS
    Jobs,             \* the contexts a program may spawn
    MaxWaits,         \* bound: suspensions and wakeups a job makes in its life
    MaxRuns           \* bound: how many times the program calls run()

ASSUME SchedulerAssumption ==
    /\ MaxWaits \in Nat
    /\ MaxRuns \in Nat

VARIABLES
    queue,        \* _jobs
    frozen,       \* _frozen
    stack,        \* _jobs_stack, and whether wakeup() called the _poll of the frame
    pc,           \* where the coroutine of each context stands
    exc,          \* contexts whose `exception` an event handler has set
    work,         \* _work holds an io_service::work
    running,      \* _running
    sched,        \* current_scheduler() of the thread is set
    polls,        \* _poll handlers posted on the io_service
    pending,      \* contexts whose asynchronous operation is under way
    stopped,      \* io_service::stopped()
    failed,       \* thread_errors of run() is not empty
    waits, runs,  \* what is left of MaxWaits for each job, and of MaxRuns
    interrupted,  \* history: stop() was called or a job has thrown
    spurious,     \* history: wakeup() was called for a job that is not frozen
    corrupt       \* history: _poll has used a context it may not use

vars == <<queue, frozen, stack, pc, exc, work, running, sched, polls, pending,
          stopped, failed, waits, runs, interrupted, spurious, corrupt>>

Frames == [job : Jobs, wake : BOOLEAN]

TypeOK ==
    /\ queue \in Seq(Jobs)
    /\ frozen \in SUBSET Jobs
    /\ stack \in Seq(Frames)
    /\ pc \in [Jobs -> {"unborn", "created", "ready", "active", "parked", "deleted"}]
    /\ exc \in SUBSET Jobs
    /\ work \in BOOLEAN /\ running \in BOOLEAN /\ sched \in BOOLEAN
    /\ polls \in Nat
    /\ pending \in SUBSET Jobs
    /\ stopped \in BOOLEAN /\ failed \in BOOLEAN
    /\ waits \in [Jobs -> Nat]
    /\ runs \in Nat
    /\ interrupted \in BOOLEAN /\ spurious \in BOOLEAN /\ corrupt \in BOOLEAN

Init ==
    /\ queue = <<>> /\ frozen = {} /\ stack = <<>>
    /\ pc = [j \in Jobs |-> "unborn"] /\ exc = {}
    /\ work = FALSE /\ running = FALSE /\ sched = FALSE
    /\ polls = 0 /\ pending = {} /\ stopped = FALSE /\ failed = FALSE
    /\ waits = [j \in Jobs |-> MaxWaits] /\ runs = MaxRuns
    /\ interrupted = FALSE /\ spurious = FALSE /\ corrupt = FALSE

-----------------------------------------------------------------------------
(* Helpers.                                                                *)

Top == stack[Len(stack)]
Idle == running /\ stack = <<>> /\ ~stopped   \* run() may take its next handler

\* Fault: the successor is posted for two jobs or more only.
Repost_OffByOne(q) == IF Len(q) > 1 THEN 1 ELSE 0

\* _poll posts its successor when it leaves jobs behind (lines 143-151).
Repost(q) == IF q # <<>> THEN 1 ELSE 0

-----------------------------------------------------------------------------
(* _poll(), up to the moment user code runs or the poll has returned. "at" *)
(* is the state it is called in: _jobs, _frozen, the exceptions left for   *)
(* contexts, the posted polls, and whether wakeup() called it.             *)

At(q, f, e, n, w) ==
    [queue |-> q, frozen |-> f, exc |-> e, polls |-> n, wake |-> w]

NextJob(at) == Head(at.queue)

\* Fault: wakeup() never drops the work object.
WorkAfterPoll_KeepsWork(at) == work

\* After an inline poll, wakeup() drops the work object if nobody is frozen.
WorkAfterPoll(at) == IF at.wake THEN work /\ at.frozen # {} ELSE work

PollNothing(at) ==
    /\ at.queue = <<>>
    /\ queue' = <<>> /\ polls' = at.polls
    /\ exc' = at.exc /\ work' = WorkAfterPoll(at)
    /\ UNCHANGED <<stack, pc, sched, corrupt>>

PollSkipsFrozen(at) ==
    /\ at.queue # <<>> /\ NextJob(at) \in at.frozen
    /\ queue' = Tail(at.queue) /\ polls' = at.polls + Repost(Tail(at.queue))
    /\ exc' = at.exc /\ work' = WorkAfterPoll(at)
    /\ UNCHANGED <<stack, pc, sched, corrupt>>

\* The first activation of a coroutine only switches to it and back.
PollFirstSwitch(at) ==
    /\ at.queue # <<>> /\ NextJob(at) \notin at.frozen
    /\ pc[NextJob(at)] = "created"
    /\ pc' = [pc EXCEPT ![NextJob(at)] = "ready"]
    /\ queue' = Append(Tail(at.queue), NextJob(at)) /\ polls' = at.polls + 1
    /\ sched' = FALSE
    /\ exc' = at.exc /\ work' = WorkAfterPoll(at)
    /\ UNCHANGED <<stack, corrupt>>

\* yield() rethrows the exception left for the job, and clears it.
ExcAfterResume(at) == at.exc \ {NextJob(at)}

\* The job runs.
PollResumes(at) ==
    /\ at.queue # <<>> /\ NextJob(at) \notin at.frozen
    /\ pc[NextJob(at)] \in {"ready", "parked"}
    /\ pc' = [pc EXCEPT ![NextJob(at)] = "active"]
    /\ exc' = ExcAfterResume(at)
    /\ queue' = Tail(at.queue) /\ polls' = at.polls
    /\ stack' = Append(stack, [job |-> NextJob(at), wake |-> at.wake])
    /\ sched' = TRUE
    /\ UNCHANGED <<work, corrupt>>

\* The context was freed, or its coroutine is already running: undefined.
PollCorrupts(at) ==
    /\ at.queue # <<>> /\ NextJob(at) \notin at.frozen
    /\ pc[NextJob(at)] \in {"deleted", "active"}
    /\ corrupt' = TRUE
    /\ UNCHANGED <<queue, stack, pc, exc, polls, sched, work>>

Poll(at) ==
    \/ PollNothing(at) \/ PollSkipsFrozen(at) \/ PollFirstSwitch(at)
    \/ PollResumes(at) \/ PollCorrupts(at)

\* Fault: the context stays in _frozen.
Wakeup_StillFrozen(k, e) ==
    /\ UNCHANGED frozen
    /\ Poll(At(Append(queue, k), frozen, e, polls, TRUE))

\* Fault: every context is thawed, and only k is queued.
Wakeup_ThawsAll(k, e) ==
    /\ frozen' = {}
    /\ Poll(At(Append(queue, k), {}, e, polls, TRUE))

\* wakeup(k), called with e the exceptions left for contexts: thaw, enqueue
\* and, dispatch() being called on the io_service's thread, poll at once.
Wakeup(k, e) ==
    /\ frozen' = frozen \ {k}
    /\ Poll(At(Append(queue, k), frozen \ {k}, e, polls, TRUE))

-----------------------------------------------------------------------------
(* The program that owns the scheduler.                                    *)

\* spawn(): from the owner while nothing runs, or from the current job.
Spawn(j) ==
    /\ running => stack # <<>>
    /\ pc[j] = "unborn"
    /\ pc' = [pc EXCEPT ![j] = "created"]
    /\ queue' = Append(queue, j)
    /\ polls' = IF queue = <<>> THEN polls + 1 ELSE polls
    /\ UNCHANGED <<frozen, stack, exc, work, running, sched, pending, stopped,
                   failed, waits, runs, interrupted, spurious, corrupt>>

\* run(), up to io_service::run(); a call made while it runs only throws.
RunBegin ==
    /\ ~running /\ runs > 0
    /\ running' = TRUE
    /\ polls' = polls + 1
    /\ runs' = runs - 1
    /\ UNCHANGED <<queue, frozen, stack, pc, exc, work, sched, pending, stopped,
                   failed, waits, interrupted, spurious, corrupt>>

\* io_service::run() returned: it was stopped, or has nothing to wait for.
\* run() resets the service and throws what the jobs have thrown.
RunReturn ==
    /\ running /\ stack = <<>>
    /\ stopped \/ (polls = 0 /\ pending = {} /\ ~work)
    /\ running' = FALSE
    /\ stopped' = FALSE
    /\ failed' = FALSE
    /\ UNCHANGED <<queue, frozen, stack, pc, exc, work, sched, polls, pending,
                   waits, runs, interrupted, spurious, corrupt>>

\* stop(): queued handlers and jobs stay for the next run().
Stop ==
    /\ running => stack # <<>>
    /\ work' = FALSE
    /\ stopped' = TRUE
    /\ interrupted' = TRUE
    /\ UNCHANGED <<queue, frozen, stack, pc, exc, running, sched, polls, pending,
                   failed, waits, runs, spurious, corrupt>>

-----------------------------------------------------------------------------
(* Handlers run by the io_service.                                         *)

\* Fault: a handler that nobody posted.
ServicePoll_Unposted ==
    /\ Idle
    /\ Poll(At(queue, frozen, exc, polls - 1, FALSE))
    /\ UNCHANGED <<frozen, running, pending, stopped, failed, waits, runs,
                   interrupted, spurious>>

ServicePoll ==
    /\ Idle /\ polls > 0
    /\ Poll(At(queue, frozen, exc, polls - 1, FALSE))
    /\ UNCHANGED <<frozen, running, pending, stopped, failed, waits, runs,
                   interrupted, spurious>>

\* The operation j waits for ends: its handler leaves the error, if there is
\* one, for yield() to throw, and wakes j up.
Complete(j, error) ==
    /\ Idle /\ j \in pending
    /\ pending' = pending \ {j}
    /\ Wakeup(j, IF error THEN exc \cup {j} ELSE exc)
    /\ UNCHANGED <<running, stopped, failed, waits, runs, interrupted, spurious>>

-----------------------------------------------------------------------------
(* The current job, at the top of _jobs_stack.                             *)

Current(j) == stack # <<>> /\ Top.job = j

\* It wakes up another job and, nested, runs the front of the queue. A job that
\* waits for an operation of its own is left to the operation.
WakesUp(j, k) ==
    /\ Current(j) /\ waits[j] > 0
    /\ k \notin pending
    /\ k \in frozen \cup ToSet(queue)
    /\ spurious' = (spurious \/ k \notin frozen)
    /\ waits' = [waits EXCEPT ![j] = @ - 1]
    /\ Wakeup(k, exc)
    /\ UNCHANGED <<running, pending, stopped, failed, runs, interrupted>>

\* The coroutine has switched back: leave _jobs_stack.
PopFrame ==
    /\ stack' = SubSeq(stack, 1, Len(stack) - 1)
    /\ sched' = FALSE

\* Fault: the job goes back to the front of the queue.
QueueAfter_AtFront(j, f, alive) ==
    IF alive /\ j \notin f THEN <<j>> \o queue ELSE queue

\* Fault: a job that has frozen itself is queued again as well.
QueueAfter_Frozen(j, f, alive) == IF alive THEN Append(queue, j) ELSE queue

\* The cleanup guard: frozen jobs and completed ones are not queued again.
QueueAfter(j, f, alive) ==
    IF alive /\ j \notin f THEN Append(queue, j) ELSE queue

\* What remains of _poll once the job has yielded or returned: f is _frozen,
\* w whether _work is held and alive whether the coroutine is not completed.
SwitchBack(j, f, w, alive) ==
    /\ PopFrame
    /\ queue' = QueueAfter(j, f, alive)
    /\ polls' = polls + Repost(queue')
    /\ frozen' = f
    /\ work' = IF Top.wake THEN w /\ f # {} ELSE w

Yields(j) ==
    /\ Current(j)
    /\ pc' = [pc EXCEPT ![j] = "parked"]
    /\ SwitchBack(j, frozen, work, TRUE)
    /\ UNCHANGED <<exc, running, pending, stopped, failed, waits, runs,
                   interrupted, spurious, corrupt>>

\* Fault: freeze() does not hold the io_service.
WorkAfterFreeze_NotHeld == work

\* freeze() creates the work object unless there is one.
WorkAfterFreeze == TRUE

\* It freezes itself, after starting an operation of its own (sleep(), the
\* sockets) or to wait for another job, and yields.
Waits(j, own) ==
    /\ Current(j) /\ waits[j] > 0
    /\ waits' = [waits EXCEPT ![j] = @ - 1]
    /\ pending' = IF own THEN pending \cup {j} ELSE pending
    /\ pc' = [pc EXCEPT ![j] = "parked"]
    /\ SwitchBack(j, frozen \cup {j}, WorkAfterFreeze, TRUE)
    /\ UNCHANGED <<exc, running, stopped, failed, runs, interrupted, spurious, corrupt>>

Returns(j) ==
    /\ Current(j)
    /\ pc' = [pc EXCEPT ![j] = "deleted"]
    /\ SwitchBack(j, frozen, work, FALSE)
    /\ UNCHANGED <<exc, running, pending, stopped, failed, waits, runs,
                   interrupted, spurious, corrupt>>

\* The runner of run() stores the exception and calls stop().
RunnerCatches == failed' = TRUE /\ work' = FALSE /\ stopped' = TRUE

\* An exception leaves the handler, then _poll, skipping what wakeup() does
\* after its poll. It reaches the job below, if there is one, or the runner.
Throws(j) ==
    /\ Current(j)
    /\ pc' = [pc EXCEPT ![j] = "deleted"]
    /\ PopFrame
    /\ polls' = polls + Repost(queue)
    /\ IF Len(stack) = 1 THEN RunnerCatches ELSE UNCHANGED <<work, stopped, failed>>
    /\ interrupted' = TRUE
    /\ UNCHANGED <<queue, frozen, exc, running, pending, waits, runs, spurious,
                   corrupt>>

-----------------------------------------------------------------------------
Owner   == (\E j \in Jobs : Spawn(j)) \/ RunBegin \/ RunReturn \/ Stop
Handler == ServicePoll \/ \E j \in Jobs, error \in BOOLEAN : Complete(j, error)
Leaves(j) == Yields(j) \/ Waits(j, TRUE) \/ Waits(j, FALSE) \/ Returns(j) \/ Throws(j)
JobStep == \E j \in Jobs : Leaves(j) \/ \E k \in Jobs : WakesUp(j, k)

\* Nothing is known of the program after undefined behaviour: it stops here.
Next == ~corrupt /\ (Owner \/ Handler \/ JobStep)

Spec == Init /\ [][Next]_vars

\* Jobs are cooperative: each gives the control back. The io_service serves
\* its handlers in the order they become ready, so none is passed over for ever.
Fairness ==
    /\ WF_vars(~corrupt /\ \E j \in Jobs : Leaves(j))
    /\ WF_vars(~corrupt /\ ServicePoll)
    /\ \A j \in Jobs : SF_vars(~corrupt /\ \E error \in BOOLEAN : Complete(j, error))
    /\ WF_vars(~corrupt /\ RunReturn)

FairSpec == Spec /\ Fairness

-----------------------------------------------------------------------------
(* Safety.                                                                 *)

\* A queued job is never stranded: a _poll that will reach it is posted, or is
\* being executed. push() posts one only for an empty queue and relies on this.
NoStrandedJob == queue # <<>> /\ stack = <<>> => polls > 0

\* Until wakeup() is called for a job that does not sleep, a context is in _jobs (once), in _frozen, or on
\* _jobs_stack (once), or is not spawned yet, or is deleted, and in one of these
\* places only, whatever the nesting of polls: the scheduler neither loses a job
\* nor holds two ways to run it. Operations are under way for frozen jobs only.
Once(s) == \A i, k \in 1..Len(s) : s[i] = s[k] => i = k
JobsOf(s) == [i \in 1..Len(s) |-> s[i].job]

Place(j) ==
    /\ j \in ToSet(queue) => pc[j] \in {"created", "ready", "parked"} /\ j \notin frozen
    /\ j \in frozen => pc[j] = "parked"
    /\ pc[j] \in {"created", "ready", "parked"} => j \in ToSet(queue) \cup frozen
    /\ j \in ToSet(JobsOf(stack)) <=> pc[j] = "active"

OnePlace ==
    ~spurious =>
        /\ Once(queue) /\ Once(JobsOf(stack))
        /\ pending \subseteq frozen
        /\ \A j \in Jobs : Place(j)

\* _poll never touches a context that was freed or that is already running,
\* as long as wakeup() is only called for frozen contexts.
NoUseAfterFree == ~spurious => ~corrupt

\* The work object is held exactly while somebody is frozen, as seen between
\* two handlers, until a stop() or an exception: run() neither returns over
\* sleeping jobs nor waits when there are none.
WorkHeldForSleepers ==
    ~interrupted /\ ~spurious /\ stack = <<>> => (work <=> frozen # {})

\* An error left for a context by an event handler is one its next activation
\* throws: the context is parked in yield() and queued, not frozen or finished.
ErrorsAreDeliverable ==
    ~spurious => \A j \in exc : pc[j] = "parked" /\ j \in ToSet(queue)

\* current_scheduler() answers inside jobs only: it is unset when a handler
\* has returned, however the job ended.
NoSchedulerOutsideJobs == stack = <<>> => ~sched

\* What the io_service and the next handler find when a handler has returned,
\* and an error finds in the job it is for.
BetweenHandlers == WorkHeldForSleepers /\ ErrorsAreDeliverable /\ NoSchedulerOutsideJobs

-----------------------------------------------------------------------------
(* Action properties.                                                      *)

\* The queue is served at its front only, one job at a time, and fed at its
\* back only: whatever the nesting of polls, no queued job is overtaken or lost.
Fifo ==
    [][\/ IsPrefix(queue, queue')
       \/ queue # <<>> /\ IsPrefix(Tail(queue), queue')]_vars

\* run() that returns by itself, on a scheduler never interrupted, leaves no
\* job behind.
ReturnMeansDone ==
    [][RunReturn /\ ~stopped /\ ~interrupted /\ ~spurious
         => \A j \in Jobs : pc[j] \in {"unborn", "deleted"}]_vars

\* After an exception has escaped a job, nothing runs before run() has
\* reported it.
ErrorEndsRun == [][failed => RunReturn \/ UNCHANGED <<queue, stack, pc>>]_vars

\* Jobs run in the order they were queued in, and a run ends for one of the
\* reasons run() has to: nothing left, an exception, stop().
RunsAreOrderly == Fifo /\ ReturnMeansDone /\ ErrorEndsRun

-----------------------------------------------------------------------------
(* Liveness, under FairSpec.                                               *)

\* A queued job gets to run, unless the run is stopped first.
QueuedJobsRun ==
    \A j \in Jobs :
        (running /\ j \in ToSet(queue)) ~> (pc[j] = "active" \/ ~running \/ spurious)

\* A job whose operation is under way is resumed, unless the run is stopped.
SleepersRun ==
    \A j \in Jobs :
        (running /\ j \in pending) ~> (pc[j] = "active" \/ ~running \/ spurious)

\* Whoever is queued or woken up gets to run (push(), wakeup(), _poll()).
JobsRun == QueuedJobsRun /\ SleepersRun

-----------------------------------------------------------------------------
(* Refinement: what a job sees of the scheduler.                           *)

Status == [j \in Jobs |->
    CASE pc[j] = "unborn"  -> "unborn"
      [] pc[j] = "deleted" -> "gone"
      [] pc[j] = "active"  -> "active"
      [] OTHER             -> IF j \in frozen THEN "asleep" ELSE "runnable"]

Lifecycle == INSTANCE JobLifecycle WITH status <- Status

\* The scheduler implements the lifecycle: nested polls, the first switch to a
\* coroutine and the handlers of the io_service never show in the job's code.
ImplementsLifecycle == Lifecycle!Spec
=============================================================================
