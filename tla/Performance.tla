----------------------------- MODULE Performance -----------------------------
(***************************************************************************)
(* cube::debug::Performance: threads open and close sections, which post to *)
(* the io_service of one worker thread; the worker alone keeps the         *)
(* stacks, the tree of calls and the counts.  A section is told from       *)
(* others by its place in the source and by the section it is in, so a     *)
(* node of the tree is the path of places that leads to it.                *)
(*                                                                         *)
(* Times are left out: they are sums over what is counted here.            *)
(***************************************************************************)
EXTENDS Integers, Sequences, SequencesExt, FiniteSets, Functions, TLC

CONSTANTS Clients,      \* threads with sections
          Places,       \* file, line, function and name of a section
          MaxSections,  \* bound: sections opened
          MaxOpen       \* bound: sections open at once in a thread

ASSUME PerformanceAssumption == MaxSections \in Nat /\ MaxOpen \in Nat

VARIABLES
    open,     \* ids of the sections each thread has open, in the order of opening
    nextId,   \* Impl::next_id
    handlers, \* what the io_service has yet to run
    workerIs, \* the worker thread: running, told to end (work.reset()), ended
    stacks,   \* Impl::stacks
    timers,   \* Impl::timers: id -> node
    counts,   \* Impl::stats: node -> CallStat::count
    roots,    \* Impl::roots
    children, \* node -> Info::_children
    within,   \* what the program knows: id -> the sections its section is in
    swapped   \* threads that closed a section in which another one was open

perfVars == <<open, nextId, handlers, workerIs, stacks, timers, counts, roots,
              children, within, swapped>>

Empty == <<>>  \* the function with no arguments

PerfInit ==
    /\ open = [c \in Clients |-> <<>>]
    /\ nextId = 1
    /\ handlers = <<>>
    /\ workerIs = "running"
    /\ stacks = [c \in Clients |-> <<>>]
    /\ timers = Empty /\ counts = Empty /\ children = Empty /\ within = Empty
    /\ roots = {}
    /\ swapped = {}
-----------------------------------------------------------------------------
(* Threads *)

BeginPost(c, p) == [op |-> "begin", id |-> nextId, client |-> c, place |-> p]
EndPost(c, i) == [op |-> "end", id |-> i, client |-> c]

\* Performance::begin: the section gets an id and is handed to the worker.
Begin(c, p) ==
    /\ Len(open[c]) < MaxOpen /\ nextId <= MaxSections
    /\ nextId' = nextId + 1
    /\ open' = [open EXCEPT ![c] = Append(@, nextId)]
    /\ handlers' = Append(handlers, BeginPost(c, p))
    /\ within' = within @@ (nextId :> [client |-> c, place |-> p, outer |-> open[c]])
    /\ UNCHANGED <<workerIs, stacks, timers, counts, roots, children, swapped>>

\* ~Section: the innermost scope ends.
End(c) ==
    /\ open[c] # <<>>
    /\ open' = [open EXCEPT ![c] = Front(@)]
    /\ handlers' = Append(handlers, EndPost(c, Last(open[c])))
    /\ UNCHANGED <<nextId, workerIs, stacks, timers, counts, roots, children, within, swapped>>

\* A section object of Python entered again while it is entered (a recursive
\* function): the new section begins, then reset() ends the old one.
Reenter(c) ==
    /\ open[c] # <<>> /\ nextId <= MaxSections
    /\ LET old == Last(open[c]) p == within[old].place IN
       /\ nextId' = nextId + 1
       /\ open' = [open EXCEPT ![c] = Append(Front(@), nextId)]
       /\ handlers' = handlers \o <<BeginPost(c, p), EndPost(c, old)>>
       /\ within' = within @@ (nextId :> [client |-> c, place |-> p, outer |-> open[c]])
    /\ swapped' = swapped \cup {c}
    /\ UNCHANGED <<workerIs, stacks, timers, counts, roots, children>>
-----------------------------------------------------------------------------
(* The worker *)

Handles(op) == workerIs # "ended" /\ handlers # <<>> /\ Head(handlers).op = op
Increased(f, n) == IF n \in DOMAIN f THEN f ELSE f @@ (n :> 0)

\* Fault: the parent is not recorded.
Node_Root(stack, p) == <<p>>
Node(stack, p) == IF stack = <<>> THEN <<p>> ELSE Append(Last(stack), p)

HandleBegin ==
    /\ Handles("begin")
    /\ LET b     == Head(handlers)
           stack == stacks[b.client]
           node  == Node(stack, b.place)
           known == IF node \in DOMAIN children THEN children ELSE children @@ (node :> {})
       IN /\ counts' = Increased(counts, node)
          /\ timers' = timers @@ (b.id :> node)
          /\ IF stack = <<>>
             THEN roots' = roots \cup {node} /\ children' = known
             ELSE roots' = roots /\ children' = [known EXCEPT ![Last(stack)] = @ \cup {node}]
          /\ stacks' = [stacks EXCEPT ![b.client] = Append(@, node)]
    /\ handlers' = Tail(handlers)
    /\ UNCHANGED <<open, nextId, workerIs, within, swapped>>

HandleEnd ==
    /\ Handles("end")
    /\ LET e == Head(handlers) IN
       /\ counts' = [counts EXCEPT ![timers[e.id]] = @ + 1]
       /\ timers' = Restrict(timers, DOMAIN timers \ {e.id})
       /\ stacks' = [stacks EXCEPT ![e.client] = Front(@)]
    /\ handlers' = Tail(handlers)
    /\ UNCHANGED <<open, nextId, workerIs, roots, children, within, swapped>>

\* shutdown(): work.reset(), and join() until run() has nothing left to do.
ShutdownBegins ==
    /\ workerIs = "running"
    /\ workerIs' = "ending"
    /\ UNCHANGED <<open, nextId, handlers, stacks, timers, counts, roots, children, within, swapped>>

RunsOut == handlers = <<>>
WorkerEnds ==
    /\ workerIs = "ending" /\ RunsOut
    /\ workerIs' = "ended"
    /\ UNCHANGED <<open, nextId, handlers, stacks, timers, counts, roots, children, within, swapped>>

Works == HandleBegin \/ HandleEnd \/ WorkerEnds

\* Every section is closed and the process may end.
AllClosed ==
    /\ workerIs = "ended" /\ nextId > MaxSections /\ \A c \in Clients : open[c] = <<>>
    /\ UNCHANGED perfVars

PerfNext ==
    \/ \E c \in Clients : End(c) \/ Reenter(c) \/ \E p \in Places : Begin(c, p)
    \/ ShutdownBegins \/ Works \/ AllClosed

\* The system runs the worker.
PerfSpec == PerfInit /\ [][PerfNext]_perfVars /\ WF_perfVars(Works)
-----------------------------------------------------------------------------
Pending(op) == {i \in DOMAIN handlers : handlers[i].op = op}
IdsOf(op) == {handlers[i].id : i \in Pending(op)}

PerfTypeOK ==
    /\ open \in [Clients -> Seq(1..MaxSections)]
    /\ workerIs \in {"running", "ending", "ended"}
    /\ stacks \in [Clients -> Seq(DOMAIN counts)]
    /\ Range(timers) \subseteq DOMAIN counts /\ DOMAIN counts = DOMAIN children

\* The assertions of end(): the section that ends has a timer and its thread a
\* stack to pop, also when sections are closed out of order
\* (Performance.cpp:165, 195, 199, 207).
EndsFindTheirs ==
    Handles("end") =>
        /\ Head(handlers).id \in DOMAIN timers
        /\ stacks[Head(handlers).client] # <<>>

\* A thread's stack is as deep as the sections of it that the worker believes
\* open, and each section is counted, open, or still queued.
SectionsAddUp ==
    /\ \A c \in Clients :
          Len(stacks[c]) = Cardinality({i \in DOMAIN timers : within[i].client = c})
    /\ FoldFunction(+, 0, counts) + Cardinality(DOMAIN timers) + Cardinality(IdsOf("begin"))
          = nextId - 1

\* The node of a section is the path of the sections it is in, as long as its
\* thread closes them in order; the tree has every node, under its parent.
PathOf(i) == [k \in DOMAIN within[i].outer |-> within[within[i].outer[k]].place]
                \o <<within[i].place>>
TreeIsTheProgram ==
    /\ \A i \in DOMAIN timers : within[i].client \notin swapped => timers[i] = PathOf(i)
    /\ \A n \in DOMAIN counts :
          IF Len(n) = 1 THEN n \in roots
          ELSE Front(n) \in DOMAIN children /\ n \in children[Front(n)]

\* Once shutdown() has returned, every section closed before it is counted.
ShutdownCounts ==
    [][workerIs' = "ended" /\ workerIs # "ended" =>
         \A i \in 1..(nextId - 1) :
            i \in DOMAIN timers => \E c \in Clients : i \in Range(open[c])]_perfVars

\* shutdown() returns once the threads open no more sections.
ShutdownReturns == workerIs = "ending" ~> workerIs = "ended"

\* No section is lost, doubled or given another's time, and the process ends
\* (Performance.cpp:153-233).
SectionsAreCounted ==
    /\ [](PerfTypeOK /\ EndsFindTheirs /\ SectionsAddUp /\ TreeIsTheProgram)
    /\ ShutdownCounts /\ ShutdownReturns
=============================================================================
