------------------------------ MODULE MCThreads ------------------------------
(* The three places of the program where operating system threads meet: the *)
(* log's worker, the station's and its devices', and the worker of the      *)
(* performance sections.  They share no state, so a behaviour is about one. *)
EXTENDS LogRunner, AudioStation, Performance

CONSTANTS t1, t2, s1, s2, place

MCThreads == {Main, t1, t2}
MCBlocks == (s1 :> <<2, 1, 2>>) @@ (s2 :> <<1, 2>>)

VARIABLE part  \* the part this behaviour is about

AllVars == <<vars, audioVars, perfVars, part>>

AllInit == Init /\ AudioInit /\ PerfInit /\ part \in {"log", "audio", "performance"}

Logs     == part = "log" /\ UNCHANGED <<audioVars, perfVars, part>>
Sounding == part = "audio" /\ UNCHANGED <<vars, perfVars, part>>
Measures == part = "performance" /\ UNCHANGED <<vars, audioVars, part>>

AllNext == (Logs /\ Next) \/ (Sounding /\ AudioNext) \/ (Measures /\ PerfNext)

\* The fairness of the three specifications, for the part that runs.
AllFairness ==
    /\ WF_AllVars(Logs /\ Constructed) /\ WF_AllVars(Logs /\ Joined)
    /\ WF_AllVars(Logs /\ WorkerStep)
    /\ \A t \in Threads : WF_AllVars(Logs /\ PosterStep(t))
    /\ WF_AllVars(Sounding /\ Runs)
    /\ \A k \in 1..MaxPlays : WF_AllVars(Sounding /\ k <= Len(streams) /\ Device(k))
    /\ WF_AllVars(Measures /\ Works)

AllSpec == AllInit /\ [][AllNext]_AllVars /\ AllFairness
=============================================================================
