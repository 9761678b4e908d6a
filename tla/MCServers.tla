------------------------------- MODULE MCServers ------------------------------
(* Two ends of a connection of etc::network, one of which a helper shares,   *)
(* and the server of releases.  They share no state, so a behaviour is about *)
(* one of them.                                                              *)
EXTENDS Socket, ReleaseServer, TLC

CONSTANTS s, c, h,  \* the jobs that use sockets
          ra, rb    \* releases

MCMaxWritten == s :> 1 @@ c :> 2 @@ h :> 1

\* Two releases for one platform.
MCPlatforms == [r \in Releases |-> "linux"]
MCRanks == ra :> 1 @@ rb :> 2

VARIABLE part  \* the part this behaviour is about

AllVars == <<socketVars, serverVars, part>>

\* What has been released matters to the server of releases only.
AllInit ==
    /\ SocketInit /\ ServerInit /\ part \in {"sockets", "releases"}
    /\ part # "releases" => files = [r \in Releases |-> "absent"]

Connects == part = "sockets" /\ UNCHANGED <<serverVars, part>>
Releasing == part = "releases" /\ UNCHANGED <<socketVars, part>>

AllNext == (Connects /\ SocketNext) \/ (Releasing /\ ServerNext)

\* The fairness of the two specifications, for the part that runs.
AllFairness ==
    /\ WF_AllVars(Connects /\ (Connected \/ Refused)) /\ WF_AllVars(Connects /\ Accepted)
    /\ \A j \in Jobs :
          WF_AllVars(Connects /\ Transfers(j)) /\ WF_AllVars(Connects /\ Resume(j))
    /\ WF_AllVars(Releasing /\ Serves) /\ WF_AllVars(Releasing /\ Updates)
    /\ WF_AllVars(Releasing /\ Stops)

AllSpec == AllInit /\ [][AllNext]_AllVars /\ AllFairness
=============================================================================
