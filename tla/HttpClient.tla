------------------------------ MODULE HttpClient ------------------------------
(***************************************************************************)
(* etc::http: responses fed by libcurl through the scheduler's io_service  *)
(* and read by jobs.  curl (external) asks for sockets to be watched and   *)
(* for a timer, and is told when they are ready; it then delivers chunks   *)
(* (_write_callback) and says when a transfer is over.  Waking up a reader *)
(* runs the first job of the queue at once, inside the callback.           *)
(*                                                                         *)
(* The scheduler is what Scheduler.tla shows it to be: a queue and a set   *)
(* of frozen jobs, with a poll posted whenever the queue is not empty.     *)
(* Each response is fired and read by one job, which bears its name.       *)
(***************************************************************************)
EXTENDS Integers, Sequences, FiniteSets, SequencesExt

CONSTANTS Responses, None,
          MaxChunks,           \* bound: chunks of a response
          MaxReads,            \* bound: calls of read() on a response
          Polite               \* the readers that read to the end, once, as
                               \* soon as they have fired their request

ASSUME HttpAssumption ==
    /\ IsFiniteSet(Responses) /\ None \notin Responses /\ Polite \subseteq Responses
    /\ MaxChunks \in Nat /\ MaxReads \in Nat \ {0}

VARIABLES queue, frozen,  \* Scheduler::Impl::_jobs, _frozen
          current,        \* the job that runs, None
          freed,          \* a deleted context was resumed
          at,             \* reader r: idle, reading, asleep, woken, ended
          left,           \* what read() still wants: how many chunks
          reads, context, in_data, got, running,
          transfer,       \* curl: none, pending, active, over, gone
          sent, dropped,
          responses, sockets,   \* Client::Impl's maps
          checks,         \* async_read's on null_buffers under way
          runningHandles, timer,
          handler         \* what the io_service runs: [step, on, dead]
jobVars  == <<at, left, reads, context, in_data, got>>
curlVars == <<transfer, sent, dropped, running, responses, sockets, checks,
              runningHandles, timer>>
vars == <<queue, frozen, current, freed, handler, jobVars, curlVars>>

Idle == [step |-> "none", on |-> None, dead |-> None]

Init ==
    /\ queue \in SetToSeqs(Responses) /\ frozen = {} /\ current = None /\ freed = FALSE
    /\ at = [r \in Responses |-> "idle"] /\ left = [r \in Responses |-> 0]
    /\ reads = [r \in Responses |-> 0] /\ context = [r \in Responses |-> FALSE]
    /\ in_data = [r \in Responses |-> <<>>] /\ got = [r \in Responses |-> <<>>]
    /\ running = [r \in Responses |-> TRUE]
    /\ transfer = [r \in Responses |-> "none"]
    /\ sent = [r \in Responses |-> 0] /\ dropped = [r \in Responses |-> {}]
    /\ responses = {} /\ sockets = {}
    /\ checks = [r \in Responses |-> 0]
    /\ runningHandles = 0 /\ timer = FALSE
    /\ handler = Idle
-----------------------------------------------------------------------------
(* The scheduler *)

Ended(j) == at[j] = "ended"

\* _poll takes the first job of q: a frozen one is skipped.
RunFirst(q) ==
    LET j == Head(q) IN
    /\ queue' = Tail(q)
    /\ current' = IF j \in frozen' \/ Ended(j) THEN None ELSE j
    /\ freed' = Ended(j)
    /\ at' = IF j \notin frozen' /\ at[j] = "asleep"
                THEN [at EXCEPT ![j] = "woken"] ELSE at

Poll ==
    /\ ~freed /\ current = None /\ handler = Idle /\ queue # <<>>
    /\ frozen' = frozen
    /\ RunFirst(queue)
    /\ UNCHANGED <<handler, left, reads, context, in_data, got, curlVars>>

\* wakeup(): dispatch() runs the poll before it returns.
Thawed(r) == frozen \ {r}
Wakeup(r) ==
    /\ frozen' = Thawed(r)
    /\ RunFirst(Append(queue, r))
-----------------------------------------------------------------------------
(* Responses; each runs until it yields, freezes or ends *)

Runs(r) == ~freed /\ current = r

\* Active transfers are what curl counts in running_handles.
Active(t) == {r \in Responses : t[r] = "active"}

\* curl_multi_socket_action(CURL_SOCKET_TIMEOUT): pending transfers start,
\* their sockets are set up and checked, and curl asks for a timer as long
\* as a transfer may time out (CURLOPT_TIMEOUT).
Kickstart(t) ==
    LET started == {r \in Responses : t[r] = "pending"}
        now == [r \in Responses |-> IF r \in started THEN "active" ELSE t[r]]
    IN /\ transfer' = now
       /\ sockets' = sockets \cup started
       /\ checks' = [r \in Responses |-> checks[r] + IF r \in started THEN 1 ELSE 0]
       /\ runningHandles' = Cardinality(Active(now))
       /\ timer' = (Active(now) # {})

\* Client::fire; curl refuses it inside one of its own callbacks.
Fire(r) ==
    /\ Runs(r) /\ at[r] = "idle" /\ transfer[r] = "none" /\ handler.step # "curl"
    /\ responses' = responses \cup {r}
    /\ LET t == [transfer EXCEPT ![r] = "pending"] IN
       IF runningHandles = 0 THEN Kickstart(t)
       ELSE transfer' = t /\ UNCHANGED <<sockets, checks, runningHandles, timer>>
    /\ UNCHANGED <<queue, frozen, current, freed, handler, jobVars, sent, dropped, running>>

Everything == MaxChunks + 1

\* Response::read(size), size = 0 being Everything: more than there is.
StartRead(r, size) ==
    /\ Runs(r) /\ at[r] = "idle" /\ transfer[r] # "none"
    /\ reads[r] < IF r \in Polite THEN 1 ELSE MaxReads
    /\ r \in Polite => size = Everything
    /\ at' = [at EXCEPT ![r] = "reading"]
    /\ left' = [left EXCEPT ![r] = size]
    /\ reads' = [reads EXCEPT ![r] = @ + 1]
    /\ context' = [context EXCEPT ![r] = TRUE]
    /\ UNCHANGED <<queue, frozen, current, freed, handler, in_data, got, curlVars>>

\* Nothing to read, going to sleep.
Freeze(r) ==
    /\ Runs(r) /\ at[r] = "reading" /\ in_data[r] = <<>>
    /\ at' = [at EXCEPT ![r] = "asleep"]
    /\ frozen' = frozen \cup {r}
    /\ current' = None
    /\ UNCHANGED <<queue, freed, handler, left, reads, context, in_data, got, curlVars>>

\* How many chunks one turn of the loop copies.
\* Fault: what is not copied is dropped.
Rest_None(r, n) == <<>>
Rest(r, n) == SubSeq(in_data[r], n + 1, Len(in_data[r]))
ToCopy(r) == LET n == Len(in_data[r]) IN IF left[r] < n THEN left[r] ELSE n

\* `running == false || (size != 0 && res.size() == size)'
Terminates(r, wanted) == ~running[r] \/ wanted = 0

\* The guard that forgets the reader when read() returns.
StillReads(returns) == ~returns

Copy(r) ==
    /\ Runs(r)
    /\ at[r] = "woken" \/ (at[r] = "reading" /\ in_data[r] # <<>>)
    /\ LET n == ToCopy(r)
           wanted == left[r] - n
           returns == Terminates(r, wanted)
       IN /\ got' = [got EXCEPT ![r] = @ \o SubSeq(in_data[r], 1, n)]
          /\ in_data' = [in_data EXCEPT ![r] = Rest(r, n)]
          /\ left' = [left EXCEPT ![r] = wanted]
          /\ at' = [at EXCEPT ![r] = IF returns THEN "idle" ELSE "reading"]
          /\ context' = [context EXCEPT ![r] = StillReads(returns)]
    /\ UNCHANGED <<queue, frozen, current, freed, handler, reads, curlVars>>

\* yield(), also that of Response::code() until curl knows the code.
Yield(j) ==
    /\ Runs(j)
    /\ at[j] = "idle"
    /\ j \in Polite => transfer[j] = "none" \/ reads[j] > 0
    /\ queue' = Append(queue, j)
    /\ current' = None
    /\ UNCHANGED <<frozen, freed, handler, jobVars, curlVars>>

\* The job ends and is deleted.
End(r) ==
    /\ Runs(r) /\ at[r] = "idle" /\ transfer[r] # "none"
    /\ r \in Polite => reads[r] > 0
    /\ at' = [at EXCEPT ![r] = "ended"]
    /\ current' = None
    /\ UNCHANGED <<queue, frozen, freed, handler, left, reads, context, in_data, got, curlVars>>

Job ==
    \E r \in Responses :
        \/ Fire(r) \/ Freeze(r) \/ Copy(r) \/ Yield(r) \/ End(r)
        \/ \E size \in 1 .. Everything : StartRead(r, size)
-----------------------------------------------------------------------------
(* Handlers of the io_service *)

\* A handler goes on when the job it woke up has given control back.
Handles(step) == ~freed /\ current = None /\ handler.step = step

\* on_event: a check that comes back late is dropped.
SocketReady(r) ==
    /\ Handles("none") /\ checks[r] > 0
    /\ checks' = [checks EXCEPT ![r] = @ - 1]
    /\ handler' = IF r \in sockets /\ running[r]
                  THEN [step |-> "curl", on |-> r, dead |-> None] ELSE handler
    /\ UNCHANGED <<queue, frozen, current, freed, jobVars, transfer, sent, dropped,
                   running, responses, sockets, runningHandles, timer>>

\* _write_callback
Received(r) == [in_data EXCEPT ![r] = Append(@, sent[r] + 1)]

Chunk ==
    /\ Handles("curl") /\ transfer[handler.on] = "active"
    /\ LET r == handler.on IN
       /\ sent[r] < MaxChunks
       /\ sent' = [sent EXCEPT ![r] = @ + 1]
       /\ IF context[r]
          THEN /\ in_data' = Received(r)
               /\ Wakeup(r)
               /\ UNCHANGED dropped
          ELSE /\ dropped' = [dropped EXCEPT ![r] = @ \cup {sent[r] + 1}]
               /\ UNCHANGED <<in_data, queue, frozen, current, freed, at>>
    /\ UNCHANGED <<handler, left, reads, context, got, transfer, running, responses,
                   sockets, checks, runningHandles, timer>>

\* The transfer is over: CURL_POLL_REMOVE cancels the checks and erases the
\* socket.
Complete ==
    /\ Handles("curl") /\ transfer[handler.on] = "active"
    /\ transfer' = [transfer EXCEPT ![handler.on] = "over"]
    /\ sockets' = sockets \ {handler.on}
    /\ handler' = [handler EXCEPT !.step = "info"]
    /\ UNCHANGED <<queue, frozen, current, freed, jobVars, sent, dropped, running,
                   responses, checks, runningHandles, timer>>

\* Nothing more for now.
WouldBlock ==
    /\ Handles("curl")
    /\ handler' = [handler EXCEPT !.step = "info"]
    /\ UNCHANGED <<queue, frozen, current, freed, jobVars, curlVars>>

\* _check_multi_info: remove_handle of every transfer that is over ...
CheckInfo ==
    /\ Handles("info")
    /\ \E r \in Responses :
        /\ transfer[r] = "over"
        /\ transfer' = [transfer EXCEPT ![r] = "gone"]
        /\ responses' = responses \ {r}
        /\ running' = [running EXCEPT ![r] = FALSE]
        /\ handler' = [handler EXCEPT !.step = "remove", !.dead = r]
    /\ UNCHANGED <<queue, frozen, current, freed, jobVars, sent, dropped, sockets,
                   checks, runningHandles, timer>>

\* ... which wakes the reader up as long as it reads ...
Awaited(r) == context[r]
WakeReader ==
    /\ Handles("remove") /\ Awaited(handler.dead)
    /\ Wakeup(handler.dead)
    /\ UNCHANGED <<handler, left, reads, context, in_data, got, curlVars>>

RemoveSocket ==
    /\ Handles("remove") /\ ~Awaited(handler.dead)
    /\ sockets' = sockets \ {handler.dead}
    /\ handler' = [handler EXCEPT !.step = "info", !.dead = None]
    /\ UNCHANGED <<queue, frozen, current, freed, jobVars, transfer, sent, dropped,
                   running, responses, checks, runningHandles, timer>>

\* ... and the socket that was ready is checked again.
\* Fault: it is not.
Rearmed_Not(r) == checks
Rearmed(r) == IF r \in sockets THEN [checks EXCEPT ![r] = @ + 1] ELSE checks

EndEvent ==
    /\ Handles("info") /\ \A r \in Responses : transfer[r] # "over"
    /\ checks' = IF handler.on = None THEN checks ELSE Rearmed(handler.on)
    /\ handler' = Idle
    /\ UNCHANGED <<queue, frozen, current, freed, jobVars, transfer, sent, dropped,
                   running, responses, sockets, runningHandles, timer>>

\* The timer of _timer_callback fires; the transfers in late have timed out.
\* Fault: the timer does not start what is pending.
Started_None == {}
Started == {r \in Responses : transfer[r] = "pending"}
TimerFires(late) ==
    /\ Handles("none") /\ timer /\ late \subseteq Active(transfer)
    /\ LET now == [r \in Responses |-> CASE r \in late    -> "over"
                                        [] r \in Started -> "active"
                                        [] OTHER         -> transfer[r]]
       IN /\ transfer' = now
          /\ sockets' = (sockets \ late) \cup Started
          /\ checks' = [r \in Responses |-> checks[r] + IF r \in Started THEN 1 ELSE 0]
          /\ runningHandles' = Cardinality(Active(now))
          /\ timer' = (Active(now) # {})
    /\ handler' = [step |-> "info", on |-> None, dead |-> None]
    /\ UNCHANGED <<queue, frozen, current, freed, jobVars, sent, dropped, running, responses>>

Handler ==
    \/ \E r \in Responses : SocketReady(r)
    \/ Chunk \/ Complete \/ WouldBlock
    \/ CheckInfo \/ WakeReader \/ RemoveSocket \/ EndEvent
    \/ \E late \in SUBSET Responses : TimerFires(late)

Next == Poll \/ Job \/ Handler
Spec == Init /\ [][Next]_vars

\* The io_service runs what is ready in the order it became ready, jobs are
\* cooperative, and curl ends a transfer after CURLOPT_TIMEOUT at the latest.
FairSpec ==
    /\ Spec
    /\ SF_vars(Poll) /\ WF_vars(Job)
    /\ WF_vars(Handler /\ handler # Idle)
    /\ \A r \in Responses : SF_vars(\E late \in SUBSET Responses : r \in late /\ TimerFires(late))
    /\ SF_vars(\E late \in SUBSET Responses : TimerFires(late))
-----------------------------------------------------------------------------
TypeOK ==
    /\ queue \in Seq(Responses) /\ frozen \subseteq Responses
    /\ current \in Responses \cup {None} /\ freed \in BOOLEAN
    /\ at \in [Responses -> {"idle", "reading", "asleep", "woken", "ended"}]
    /\ left \in [Responses -> 0 .. Everything]
    /\ \A r \in Responses :
        /\ sent[r] \in 0 .. MaxChunks /\ reads[r] \in 0 .. MaxReads
        /\ context[r] = (at[r] \in {"reading", "asleep", "woken"})
        /\ in_data[r] \in Seq(1 .. MaxChunks) /\ checks[r] \in Nat
    /\ responses \subseteq Responses /\ sockets \subseteq Responses
    /\ runningHandles \in 0 .. Cardinality(Responses) /\ timer \in BOOLEAN

\* Every chunk curl delivered is read, waits to be read, or was dropped
\* because nobody was reading, in the order of its arrival and once.
ChunksAccountedFor ==
    \A r \in Responses :
        LET kept == got[r] \o in_data[r] IN
        /\ \A i, j \in DOMAIN kept : i < j => kept[i] < kept[j]
        /\ ToSet(kept) \cap dropped[r] = {}
        /\ ToSet(kept) \cup dropped[r] = 1 .. sent[r]

\* A transfer that goes on is watched: curl hears of its socket, or is
\* dealing with it (setup_read_check at the end of on_event).
ActiveIsWatched ==
    \A r \in Active(transfer) :
        r \in sockets /\ (checks[r] > 0 \/ handler.on = r)

\* A socket to watch belongs to a response: responses.at() in
\* setup_read_check does not throw.
SocketsHaveResponses == sockets \subseteq responses

\* No transfer is lost between curl, the sockets and the responses
\* (setup_read_check, on_event, remove_handle).
TransfersAreWatched == TypeOK /\ ActiveIsWatched /\ SocketsHaveResponses

\* Nobody of R sleeps on a response that has ended without being woken up.
NobodyIsForgotten(R) ==
    handler = Idle => \A r \in R : at[r] = "asleep" => running[r] \/ r \notin frozen

\* A reader that begins to read with its request is woken up when the response
\* ends, and does not go to sleep after that (remove_handle, read()).
SleepersAreRunning == NobodyIsForgotten(Polite)

\* Response.cpp:60 `until the end': whoever reads to the end, and whenever, has
\* the end of the response to wake him up.
EveryReadEnds == NobodyIsForgotten(Responses)

\* A read to the end that began with the request returns everything.
ReadIsComplete ==
    \A r \in Polite :
        at[r] \in {"idle", "ended"} /\ reads[r] > 0 =>
            /\ transfer[r] = "gone"
            /\ got[r] = [i \in 1 .. sent[r] |-> i]

\* Chunks reach those who read: in order, once, whole for a read to the end
\* that began with the request (_write_callback, read()).
ChunksReachReaders == ChunksAccountedFor /\ SleepersAreRunning /\ ReadIsComplete

\* What is sent to a client in use reaches whoever reads it.
TransfersAreServed == TransfersAreWatched /\ ChunksReachReaders

\* A request that is fired while running_handles is stale still starts
\* (add_handle, _timer_callback).
EveryRequestStarts ==
    \A r \in Responses : transfer[r] = "pending" ~> (transfer[r] # "pending" \/ freed)

\* A read to the end returns (read(), remove_handle).
ReadReturns == \A r \in Polite : context[r] ~> (~context[r] \/ freed)

\* Requests start, and the reads that wait for them return, until the client is
\* freed.
RequestsEnd == EveryRequestStarts /\ ReadReturns
=============================================================================
