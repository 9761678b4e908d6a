----------------------------- MODULE EventManager -----------------------------
(***************************************************************************)
(* cubeapp.game.event.Manager: controllers registered on channels, a queue *)
(* of events, a queue of delayed callbacks, and poll(), which dispatches   *)
(* them once per frame.  A controller may call the manager back while it   *)
(* handles an event, and poll() iterates over the very list the controller *)
(* may then change.                                                        *)
(***************************************************************************)
EXTENDS Integers, Sequences, SequencesExt, FiniteSets

CONSTANTS Subscribers,
          Caller,       \* the function clear() registers to run callbacks
          Channels,     \* the channels of the game
          Tick, Later,  \* the manager's own channels
          Idle,         \* no controller is running
          Delays, Steps,   \* what call_later and poll are given
          MaxEvents, MaxClock,  \* bounds: events made, total time polled
          Unregisters   \* TRUE: controllers may unregister while called

AllChannels == Channels \cup {Tick, Later}
Callables == Subscribers \cup {Caller}

ASSUME NamesAssumption ==
    /\ Tick \notin Channels /\ Later \notin Channels /\ Tick # Later
    /\ Caller \notin Subscribers /\ Idle \notin Callables
ASSUME TimesAssumption ==
    /\ Delays \subseteq Nat /\ Steps \subseteq Nat
    /\ MaxEvents \in Nat /\ MaxClock \in Nat /\ Unregisters \in BOOLEAN

VARIABLES
    controllers,  \* __controllers: the list of each channel
    queue,        \* __queue
    delayed,      \* __delayed_queue: [left, event]
    cleared,      \* __cleared
    poll,         \* [phase, rest, next, old, detached]: poll()'s locals
    callee,       \* the controller being called
    clock,        \* the time polled so far
    made, done,   \* number of events made; ids of those dispatched
    dropped,      \* ids of those lost to clear() or to an exception
    present,      \* controllers registered since the dispatch began
    heard         \* controllers called with the event so far
manager == <<controllers, queue, delayed, cleared>>
ghosts == <<clock, done, dropped>>
eventVars == <<controllers, queue, delayed, cleared, poll, callee, clock, made,
              done, dropped, present, heard>>

NoPoll == [phase |-> "idle", rest |-> <<>>, next |-> 1, old |-> <<>>,
           detached |-> FALSE]
Registered == [c \in AllChannels |-> IF c = Later THEN <<Caller>> ELSE <<>>]

EventsInit ==
    /\ controllers = Registered /\ queue = <<>> /\ delayed = <<>>
    /\ cleared = TRUE
    /\ poll = NoPoll /\ callee = Idle
    /\ clock = 0 /\ made = 0 /\ done = {} /\ dropped = {}
    /\ present = {} /\ heard = <<>>
-----------------------------------------------------------------------------
(* Calls of the game, between two polls or from a running controller. *)

MayCall == poll.phase = "idle" \/ callee # Idle
InController == callee # Idle

Ids(events) == {e.id : e \in Range(events)}
Waiting(entries) == {d.event.id : d \in Range(entries)}

MayRegister(c, ch) == MayCall /\ c \notin Range(controllers[ch])

Register(c, ch) ==
    /\ MayRegister(c, ch)
    /\ controllers' = [controllers EXCEPT ![ch] = Append(@, c)]
    /\ UNCHANGED <<queue, delayed, cleared, poll, callee, made, ghosts,
                   present, heard>>

MayUnregister == MayCall /\ (InController => Unregisters)

Unregister(c, ch) ==
    /\ MayUnregister
    /\ \E i \in DOMAIN controllers[ch] :
           /\ controllers[ch][i] = c
           /\ controllers' = [controllers EXCEPT ![ch] = RemoveAt(@, i)]
    /\ present' = present \ {c}
    /\ UNCHANGED <<queue, delayed, cleared, poll, callee, made, ghosts, heard>>

NewEvent(ch, due) == [id |-> made + 1, channel |-> ch, due |-> due]

Push(ch) ==
    /\ MayCall /\ made < MaxEvents
    /\ queue' = Append(queue, NewEvent(ch, -1))
    /\ made' = made + 1
    /\ UNCHANGED <<controllers, delayed, cleared, poll, callee, ghosts,
                   present, heard>>

CallLater(delay) ==
    /\ MayCall /\ made < MaxEvents
    /\ delayed' = Append(delayed, [left  |-> delay,
                                   event |-> NewEvent(Later, clock + delay)])
    /\ made' = made + 1
    /\ UNCHANGED <<controllers, queue, cleared, poll, callee, ghosts,
                   present, heard>>

\* The list poll() iterates over: the manager's own, or the one clear() let go.
Listened ==
    IF poll.phase = "tick" THEN Tick ELSE Head(poll.rest).channel
Listeners == IF poll.detached THEN poll.old ELSE controllers[Listened]

Clear ==
    /\ MayCall
    /\ cleared' = TRUE
    /\ queue' = <<>> /\ delayed' = <<>>
    /\ controllers' = Registered
    /\ poll' = IF InController
               THEN [poll EXCEPT !.detached = TRUE, !.old = Listeners]
               ELSE poll
    /\ dropped' = dropped \cup Ids(queue) \cup Waiting(delayed)
    /\ present' = {}
    /\ UNCHANGED <<callee, clock, made, done, heard>>
-----------------------------------------------------------------------------
(* poll(elapsed) *)

Older(entries, elapsed) ==
    [i \in DOMAIN entries |-> [entries[i] EXCEPT !.left = @ - elapsed]]
\* Fault: a delay that has just run out is lost: neither due nor kept.
IsKept_Positive(d) == d.left > 0
IsKept(d) == d.left >= 0
IsDue(d) == d.left < 0

\* What the entries give one after the other: an event, or an entry kept.
Due(entries, elapsed) ==
    LET older == Older(entries, elapsed) IN
    FlattenSeq([i \in DOMAIN older |-> IF IsDue(older[i]) THEN <<older[i].event>> ELSE <<>>])
Kept(entries, elapsed) ==
    LET older == Older(entries, elapsed) IN
    FlattenSeq([i \in DOMAIN older |-> IF IsKept(older[i]) THEN <<older[i]>> ELSE <<>>])

\* What dispatching begins with: the first event left, or the tick.
Dispatching(rest) == [NoPoll EXCEPT !.phase = IF rest = <<>> THEN "tick" ELSE "event",
                                    !.rest = rest]
PresentFor(rest) == Range(controllers[IF rest = <<>> THEN Tick ELSE Head(rest).channel])

StartPoll(elapsed) ==
    /\ poll.phase = "idle" /\ clock + elapsed <= MaxClock
    /\ cleared' = FALSE
    /\ queue' = <<>>
    /\ delayed' = Kept(delayed, elapsed)
    /\ LET all == queue \o Due(delayed, elapsed) IN
       /\ poll' = Dispatching(all)
       /\ present' = PresentFor(all)
    /\ heard' = <<>>
    /\ clock' = clock + elapsed
    /\ UNCHANGED <<controllers, callee, made, done, dropped>>

\* Python's iterator: an index into whatever the list is now.
Exhausted == poll.next > Len(Listeners)

Call ==
    /\ poll.phase # "idle" /\ callee = Idle /\ ~Exhausted
    /\ callee' = Listeners[poll.next]
    /\ heard' = Append(heard, Listeners[poll.next])
    /\ poll' = [poll EXCEPT !.next = @ + 1]
    /\ UNCHANGED <<manager, made, ghosts, present>>

\* A controller returns; poll() returns too if it cleared the manager.
\* Fault: poll() goes on with the events it took.
StopsPoll_Never == FALSE
StopsPoll == poll.phase = "event" /\ cleared

Return ==
    /\ InController
    /\ callee' = Idle
    /\ poll' = IF StopsPoll THEN NoPoll ELSE poll
    /\ dropped' = IF StopsPoll THEN dropped \cup Ids(poll.rest) ELSE dropped
    /\ UNCHANGED <<manager, clock, made, done, present, heard>>

\* A controller raises: the exception leaves poll() with what it held.
Raise ==
    /\ InController
    /\ callee' = Idle
    /\ poll' = NoPoll
    /\ dropped' = dropped \cup Ids(poll.rest)
    /\ UNCHANGED <<manager, clock, made, done, present, heard>>

LeftAfter(rest) == Tail(rest)

NextEvent ==
    /\ poll.phase = "event" /\ callee = Idle /\ Exhausted
    /\ done' = done \cup {Head(poll.rest).id}
    /\ poll' = Dispatching(LeftAfter(poll.rest))
    /\ present' = PresentFor(LeftAfter(poll.rest))
    /\ heard' = <<>>
    /\ UNCHANGED <<manager, callee, clock, made, dropped>>

EndEventPoll ==
    /\ poll.phase = "tick" /\ callee = Idle /\ Exhausted
    /\ poll' = NoPoll
    /\ UNCHANGED <<manager, callee, made, ghosts, present, heard>>

EventsNext ==
    \/ \E c \in Subscribers, ch \in Channels \cup {Tick} :
           Register(c, ch) \/ Unregister(c, ch)
    \/ \E ch \in Channels : Push(ch)
    \/ \E delay \in Delays : CallLater(delay)
    \/ Clear
    \/ \E elapsed \in Steps : StartPoll(elapsed)
    \/ Call \/ Return \/ Raise \/ NextEvent \/ EndEventPoll

EventsSpec == EventsInit /\ [][EventsNext]_eventVars

\* The application polls once per frame and the controllers return.
EventsFairness ==
    /\ WF_eventVars(\E elapsed \in Steps : StartPoll(elapsed))
    /\ WF_eventVars(Call) /\ WF_eventVars(Return) /\ WF_eventVars(NextEvent) /\ WF_eventVars(EndEventPoll)
FairEventsSpec == EventsSpec /\ EventsFairness
-----------------------------------------------------------------------------
Events == [id : 1..MaxEvents, channel : AllChannels, due : -1..MaxClock + MaxEvents]

\* The lists hold each controller once, and a controller only runs in a poll.
EventsTypeOK ==
    /\ controllers \in [AllChannels -> Seq(Callables)]
    /\ \A ch \in AllChannels : IsInjective(controllers[ch])
    /\ Caller \in Range(controllers[Later])
    /\ queue \in Seq(Events) /\ cleared \in BOOLEAN
    /\ poll.phase \in {"idle", "event", "tick"} /\ poll.rest \in Seq(Events)
    /\ callee \in Callables \cup {Idle}
    /\ poll.phase = "idle" => callee = Idle
    /\ poll.phase = "event" <=> poll.rest # <<>>

\* No event is lost and none is dispatched twice: it is in one queue, or with
\* the poll in progress, or dispatched, or dropped by a clear() or an
\* exception (which lose every event that poll() has taken).
EveryEventAccountedFor ==
    LET places == <<Ids(queue), Waiting(delayed), Ids(poll.rest), done, dropped>> IN
    /\ UNION Range(places) = 1..made
    /\ \A i, j \in DOMAIN places : i # j => places[i] \cap places[j] = {}

\* A callback is dispatched when more than its delay has been polled since
\* call_later, at the first poll where that is so.
DelaysAreKept ==
    /\ \A d \in Range(delayed) : d.left = d.event.due - clock /\ d.left >= 0
    /\ \A e \in Range(poll.rest) : e.due < clock \/ e.due = -1

\* event.py:6-7 `will be distributed to every subscriber of that channel':
\* a controller registered from before the dispatch of an event to its end has
\* been called with it.
EverySubscriberHears ==
    [][done' # done => present \subseteq Range(heard)]_eventVars

\* No controller is called twice with one event, however the list grows while
\* poll() iterates over it.
HeardOnce == IsInjective(heard)

\* Events are neither lost, nor doubled, nor early (push, call_later, poll).
EventsAreKept == EventsTypeOK /\ EveryEventAccountedFor /\ DelaysAreKept /\ HeardOnce

\* Once a controller clears the manager, no controller it unregistered is
\* called with an event of that poll (manager.py:82-83).
CalledAreRegistered ==
    [][callee = Idle /\ callee' # Idle /\ poll.phase = "event"
            => callee' \in Range(controllers[Listened])]_eventVars

\* An event pushed is dispatched, or dropped, by a later poll.
EventsLeaveTheQueue ==
    \A id \in 1..MaxEvents : (id \in Ids(queue)) ~> (id \in done \cup dropped)

\* poll() comes to every event, and calls all those that are registered, and only
\* those, when nobody unregisters while it does.
EventsAreServed == EverySubscriberHears /\ CalledAreRegistered /\ EventsLeaveTheQueue
=============================================================================
