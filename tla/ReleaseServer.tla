---------------------------- MODULE ReleaseServer ----------------------------
(***************************************************************************)
(* cubeserv: tells launchers which release of the framework is the newest  *)
(* for their platform.  One thread serves requests, another reads the      *)
(* directory of releases over and over, stop() comes from a third, and     *)
(* whoever publishes releases copies them into the directory or takes them *)
(* away meanwhile.                                                         *)
(*                                                                         *)
(* The name of a release is its platform and its rank, which is its place  *)
(* in the order of (version, build) as the code compares them: versions as *)
(* strings.  Clients send their request, http.server is Python's.          *)
(***************************************************************************)
EXTENDS Integers, FiniteSets

CONSTANTS Releases,
          PlatformOf, RankOf,
          MaxUploads,      \* of the directory
          MaxStops,
          NoRelease, NoneFound  \* what a platform was answered: nothing yet, or status 500

Platforms == {PlatformOf[r] : r \in Releases}

ASSUME RanksAssumption ==
    \A r, s \in Releases : PlatformOf[r] = PlatformOf[s] /\ RankOf[r] = RankOf[s] => r = s

VARIABLES files,       \* release -> "absent", "partial" while it is copied, "whole"
          serving,     \* what run() does next
          alive,       \* Application.__running
          bound,       \* Application.server is there
          request,     \* the platforms asked for in requests not yet handled
          toShutDown,  \* BaseServer.__shutdown_request
          isDown,      \* BaseServer.__is_shut_down
          updater,     \* what __update_list does next
          listed, gathered,  \* files to open, releases found in this round
          frameworks,  \* Server.frameworks
          stopper,     \* what stop() does next
          stops,       \* how often it was called
          answers,     \* history: the last answer for each platform
          uploads, withdrawn \* history: of the directory; whether a release went away
serverVars == <<files, serving, alive, bound, request, toShutDown, isDown, updater, listed,
                gathered, frameworks, stopper, stops, answers, uploads, withdrawn>>

directoryVars == <<files, uploads, withdrawn>>
httpVars == <<request, answers>>
updaterVars == <<updater, listed, gathered, frameworks>>
stopVars == <<stopper, stops>>
downVars == <<toShutDown, isDown>>

ServerInit ==
    /\ files \in [Releases -> {"absent", "whole"}]
    /\ serving = "idle" /\ alive = FALSE /\ bound = FALSE
    /\ request = {} /\ toShutDown = FALSE /\ isDown = FALSE
    /\ updater = "none" /\ listed = {} /\ gathered = {} /\ frameworks = {}
    /\ stopper = "idle" /\ stops = 0
    /\ answers = [p \in Platforms |-> NoRelease] /\ uploads = 0 /\ withdrawn = FALSE
-----------------------------------------------------------------------------
(* The directory and the clients *)

Change(r, from, to) ==
    /\ uploads < MaxUploads /\ files[r] = from
    /\ files' = [files EXCEPT ![r] = to] /\ uploads' = uploads + 1
    /\ withdrawn' = (withdrawn \/ to = "absent")
    /\ UNCHANGED <<serving, alive, bound, httpVars, downVars, updaterVars, stopVars>>

Publish(r) == Change(r, "absent", "partial") \/ Change(r, "partial", "whole")
Withdraw(r) == Change(r, "whole", "absent")

Ask(p) ==
    /\ p \notin request /\ request' = request \cup {p}
    /\ UNCHANGED <<directoryVars, serving, alive, bound, downVars, updaterVars, stopVars,
                   answers>>
-----------------------------------------------------------------------------
(* Application.run and the server *)

Run ==
    /\ serving = "idle" /\ serving' = "bind" /\ alive' = TRUE
    /\ UNCHANGED <<directoryVars, bound, httpVars, downVars, updaterVars, stopVars>>

Bind ==
    /\ serving = "bind" /\ serving' = "start" /\ bound' = TRUE
    /\ UNCHANGED <<directoryVars, alive, httpVars, downVars, updaterVars, stopVars>>

\* The address is taken: the thread that is joined then was never started.
BindFails ==
    /\ serving = "bind" /\ serving' = "failed" /\ alive' = FALSE
    /\ UNCHANGED <<directoryVars, bound, httpVars, downVars, updaterVars, stopVars>>

StartUpdater ==
    /\ serving = "start" /\ serving' = "begin" /\ updater' = "check"
    /\ UNCHANGED <<directoryVars, alive, bound, httpVars, downVars, listed, gathered, frameworks,
                   stopVars>>

\* serve_forever, in its own words.
ServeBegins ==
    /\ serving = "begin" /\ serving' = "serve" /\ isDown' = FALSE
    /\ UNCHANGED <<directoryVars, alive, bound, httpVars, toShutDown, updaterVars, stopVars>>

\* __manifest: the last of the sorted releases; there is none in an empty list.
Newest(p) ==
    LET all == {r \in frameworks : PlatformOf[r] = p}
    IN IF all = {} THEN NoneFound ELSE CHOOSE r \in all : \A s \in all : RankOf[s] <= RankOf[r]

DoGet(p) ==
    /\ serving = "serve" /\ ~toShutDown
    /\ p \in request /\ request' = request \ {p}
    /\ answers' = [answers EXCEPT ![p] = Newest(p)]
    /\ UNCHANGED <<directoryVars, serving, alive, bound, downVars, updaterVars, stopVars>>

\* It was told to shut down, or the user pressed ^C.
ServeEnds(interrupted) ==
    /\ serving = "serve" /\ (toShutDown \/ interrupted)
    /\ serving' = "join" /\ toShutDown' = FALSE /\ isDown' = TRUE /\ alive' = FALSE
    /\ UNCHANGED <<directoryVars, bound, httpVars, updaterVars, stopVars>>

Join ==
    /\ serving = "join" /\ updater = "over" /\ serving' = "over"
    /\ UNCHANGED <<directoryVars, alive, bound, httpVars, downVars, updaterVars, stopVars>>
-----------------------------------------------------------------------------
(* Application.__update_list *)

\* The loop looks at `running' before each round.
\* Fault: the thread reads the directory once.
NextRound_Once == IF alive /\ frameworks = {} THEN "list" ELSE "over"
NextRound == IF alive THEN "list" ELSE "over"

Check ==
    /\ updater = "check" /\ updater' = NextRound
    /\ UNCHANGED <<directoryVars, serving, alive, bound, httpVars, downVars, listed, gathered,
                   frameworks, stopVars>>

ListDirectory ==
    /\ updater = "list" /\ updater' = "open"
    /\ listed' = {r \in Releases : files[r] # "absent"} /\ gathered' = {}
    /\ UNCHANGED <<directoryVars, serving, alive, bound, httpVars, downVars, frameworks,
                   stopVars>>

\* __get_framework: what is gone or not a whole archive by now is ignored.
OpenFile(r) ==
    /\ updater = "open" /\ r \in listed /\ listed' = listed \ {r}
    /\ gathered' = IF files[r] = "whole" THEN gathered \cup {r} ELSE gathered
    /\ UNCHANGED <<directoryVars, serving, alive, bound, httpVars, downVars, updater, frameworks,
                   stopVars>>

\* The setter of Server.frameworks, under its lock.
SetFrameworks ==
    /\ updater = "open" /\ listed = {} /\ frameworks' = gathered /\ updater' = "sleep"
    /\ UNCHANGED <<directoryVars, serving, alive, bound, httpVars, downVars, listed, gathered,
                   stopVars>>

\* The period is over, or the server no longer runs.
Sleep ==
    /\ updater = "sleep" /\ updater' = "check"
    /\ UNCHANGED <<directoryVars, serving, alive, bound, httpVars, downVars, listed, gathered,
                   frameworks, stopVars>>
-----------------------------------------------------------------------------
(* Application.stop *)

StopServer ==
    /\ stopper = "idle" /\ stops < MaxStops /\ stops' = stops + 1
    /\ alive' = FALSE
    /\ stopper' = IF alive THEN "shutdown" ELSE "idle"
    /\ UNCHANGED <<directoryVars, serving, bound, httpVars, downVars, updaterVars>>

\* Without a server yet there is an exception, and `running' stays as it is.
CallShutdown ==
    /\ stopper = "shutdown"
    /\ IF bound THEN stopper' = "wait" /\ toShutDown' = TRUE
       ELSE stopper' = "idle" /\ UNCHANGED toShutDown
    /\ UNCHANGED <<directoryVars, serving, alive, bound, httpVars, isDown, updaterVars, stops>>

StopIsDone ==
    /\ stopper = "wait" /\ isDown /\ stopper' = "idle"
    /\ UNCHANGED <<directoryVars, serving, alive, bound, httpVars, downVars, updaterVars, stops>>

Serves ==
    \/ Bind \/ StartUpdater \/ ServeBegins \/ (\E p \in Platforms : DoGet(p))
    \/ ServeEnds(FALSE) \/ Join
Updates ==
    Check \/ ListDirectory \/ (\E r \in Releases : OpenFile(r)) \/ SetFrameworks \/ Sleep
Stops == CallShutdown \/ StopIsDone

ServerNext ==
    \/ \E r \in Releases : Publish(r) \/ Withdraw(r)
    \/ \E p \in Platforms : Ask(p)
    \/ Run \/ BindFails \/ ServeEnds(TRUE) \/ StopServer
    \/ Serves \/ Updates \/ Stops

\* The threads are scheduled; nobody has to call, ask or publish.
ServerFairness == WF_serverVars(Serves) /\ WF_serverVars(Updates) /\ WF_serverVars(Stops)

ServerSpec == ServerInit /\ [][ServerNext]_serverVars /\ ServerFairness
-----------------------------------------------------------------------------
(* Properties *)

Rank(a) == IF a \in Releases THEN RankOf[a] ELSE -1

\* As long as no release is taken away, no client is answered with an older one
\* than a client before it (__manifest over lists published round by round).
AnswersGoForward ==
    [][~withdrawn' => \A p \in Platforms : Rank(answers'[p]) >= Rank(answers[p])]_serverVars

\* A release that stays in the directory is in the list from some time on, while
\* the server runs (__update_list).
ReleasesArrive ==
    \A r \in Releases :
        <>[](files[r] = "whole" /\ serving = "serve" /\ alive) => <>[](r \in frameworks)

\* A stop() that found the server ends run(), whatever it interrupts
\* (Application.stop, run).
StopEndsServer == stopper = "wait" ~> serving = "over"

\* cubeserv tells of every release, tells the newest, and can be stopped.
ReleasesAreServed == AnswersGoForward /\ ReleasesArrive /\ StopEndsServer
=============================================================================
