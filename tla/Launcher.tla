------------------------------- MODULE Launcher -------------------------------
(***************************************************************************)
(* launch: the program given with a game.  It copies itself to a temporary *)
(* file and runs the copy (the bouncer, so that it may be replaced while   *)
(* the game runs); the copy looks for a framework and for the game, and    *)
(* runs the one with the path of the other.  Each waits for what it runs.  *)
(*                                                                         *)
(* Where the names of temporary files are random the model takes them from *)
(* a small set: two launches may draw one name.  Processes are POSIX: exec *)
(* returns when it fails, a file open for writing cannot be executed, one  *)
(* that is executed or made read-only cannot be opened for writing.        *)
(***************************************************************************)
EXTENDS Integers, Sequences, FiniteSets

CONSTANTS Launches,
          TempNames,
          Versions,   \* of frameworks
          Installs,   \* what may be installed: [root, near, asked, rootGame, nearGame]
          NoName, NoVersion

ASSUME InstallsAssumption ==
    \A i \in Installs :
        /\ i.root \subseteq Versions /\ i.near \subseteq Versions
        /\ i.asked \in Versions \cup {NoVersion}
        /\ i.rootGame \in BOOLEAN /\ i.nearGame \in BOOLEAN

\* No name is not what a launch starts.
ASSUME NoNameAssumption ==
    NoName \notin [framework : [dir : {"root", "near"}, version : Versions \cup {NoVersion}],
                 game : {"near", "root", ""}]

VARIABLES install,  \* the frameworks and games there are, and CUBE_VERSION
          disk,     \* temporary files: name -> [whole, closed]
          bouncer,  \* what the bouncer of a launch does next
          temp,     \* the name it drew
          copy,     \* the process of its copy
          play,     \* the process of the framework
          status,   \* what the bouncer returned, or -1
          started   \* history: [framework, game] of the game that ran, or NoName
launchVars == <<install, disk, bouncer, temp, copy, play, status, started>>

LaunchInit ==
    /\ install \in Installs /\ disk = <<>>
    /\ bouncer = [l \in Launches |-> "begin"] /\ temp = [l \in Launches |-> NoName]
    /\ copy = [l \in Launches |-> "none"] /\ play = [l \in Launches |-> "none"]
    /\ status = [l \in Launches |-> -1] /\ started = [l \in Launches |-> NoName]
-----------------------------------------------------------------------------
(* The bouncer *)

Removed(n) == [m \in DOMAIN disk \ {n} |-> disk[m]]
Put(n, file) == [m \in DOMAIN disk \cup {n} |-> IF m = n THEN file ELSE disk[m]]

\* The return of main destroys `out', which removes the file.
Returns(l, code) ==
    /\ bouncer' = [bouncer EXCEPT ![l] = "over"] /\ status' = [status EXCEPT ![l] = code]
    /\ disk' = Removed(temp[l])

\* _gen_unique_path: names are drawn until one is not there.
DrawName(l) ==
    /\ bouncer[l] = "begin"
    /\ \E n \in TempNames \ DOMAIN disk : temp' = [temp EXCEPT ![l] = n]
    /\ bouncer' = [bouncer EXCEPT ![l] = "open"]
    /\ UNCHANGED <<install, disk, copy, play, status, started>>

\* The file is opened and truncated, if it may be written.
OpenTemp(l) ==
    /\ bouncer[l] = "open"
    /\ IF temp[l] \in DOMAIN disk /\ disk[temp[l]].closed
       THEN Returns(l, 1)
       ELSE /\ disk' = Put(temp[l], [whole |-> FALSE, closed |-> FALSE])
            /\ bouncer' = [bouncer EXCEPT ![l] = "copy"] /\ UNCHANGED status
    /\ UNCHANGED <<install, temp, copy, play, started>>

\* Who else has the file open.
Writers(l) == {k \in Launches \ {l} : temp[k] = temp[l] /\ bouncer[k] = "copy"}

\* The program is copied to its end or until a write fails; then the file is
\* closed and made executable.  A name may lead to another file by now, or none.
CopySelf(l, all) ==
    /\ bouncer[l] = "copy"
    /\ disk' = IF temp[l] \in DOMAIN disk
               THEN Put(temp[l], [whole |-> all, closed |-> Writers(l) = {}]) ELSE disk
    /\ bouncer' = [bouncer EXCEPT ![l] = "wait"] /\ copy' = [copy EXCEPT ![l] = "exec"]
    /\ UNCHANGED <<install, temp, play, status, started>>

\* The child becomes the copy.
ExecCopy(l) ==
    /\ copy[l] = "exec"
    /\ temp[l] \in DOMAIN disk /\ disk[temp[l]].whole /\ disk[temp[l]].closed
    /\ copy' = [copy EXCEPT ![l] = "search"]
    /\ UNCHANGED <<install, disk, bouncer, temp, play, status, started>>

\* Or exec fails, and the child returns from main as its parent would.
ExecCopyFails(l) ==
    /\ copy[l] = "exec"
    /\ ~ (temp[l] \in DOMAIN disk /\ disk[temp[l]].whole /\ disk[temp[l]].closed)
    /\ copy' = [copy EXCEPT ![l] = "over"] /\ disk' = Removed(temp[l])
    /\ UNCHANGED <<install, bouncer, temp, play, status, started>>

\* Fault: the parent does not wait.
Awaited_Not(process) == TRUE

\* spawn_process: waitpid.
Awaited(process) == process = "over"

\* The bouncer waits, whatever the status, and returns 0.
BouncerEnds(l) ==
    /\ bouncer[l] = "wait" /\ Awaited(copy[l]) /\ Returns(l, 0)
    /\ UNCHANGED <<install, temp, copy, play, started>>
-----------------------------------------------------------------------------
(* The copy *)

Framework(dir, version) == [dir |-> dir, version |-> version]
Installed == {Framework("root", v) : v \in install.root} \cup {Framework("near", v) : v \in install.near}

\* find_cube_frameworks: the version asked for, whether it is there or not; else
\* those of the root; else those near the program.
Frameworks ==
    IF install.asked # NoVersion THEN {Framework("root", install.asked)}
    ELSE IF install.root # {} THEN {Framework("root", v) : v \in install.root}
    ELSE {Framework("near", v) : v \in install.near}

\* find_game: near the program, then in the root of games; else an empty path.
GamePath ==
    IF install.nearGame THEN "near" ELSE IF install.rootGame THEN "root" ELSE ""

\* without_internet: no framework is an error.  Frameworks are sorted by versions
\* that nobody sets: the first may be any of them.
Search(l) ==
    /\ copy[l] = "search"
    /\ IF Frameworks = {}
       THEN copy' = [copy EXCEPT ![l] = "over"] /\ UNCHANGED <<play, started>>
       ELSE \E f \in Frameworks :
              /\ copy' = [copy EXCEPT ![l] = "wait"]
              /\ IF f \in Installed
                 THEN /\ play' = [play EXCEPT ![l] = "runs"]
                      /\ started' = [started EXCEPT ![l] = [framework |-> f, game |-> GamePath]]
                 ELSE play' = [play EXCEPT ![l] = "fails"] /\ UNCHANGED started
    /\ UNCHANGED <<install, disk, bouncer, temp, status>>

\* The game ends; or the child that could not exec returns from main.
PlayEnds(l) ==
    /\ play[l] \in {"runs", "fails"} /\ play' = [play EXCEPT ![l] = "over"]
    /\ UNCHANGED <<install, disk, bouncer, temp, copy, status, started>>

CopyEnds(l) ==
    /\ copy[l] = "wait" /\ Awaited(play[l]) /\ copy' = [copy EXCEPT ![l] = "over"]
    /\ UNCHANGED <<install, disk, bouncer, temp, play, status, started>>

LaunchNext ==
    \E l \in Launches :
        \/ DrawName(l) \/ OpenTemp(l) \/ (\E all \in BOOLEAN : CopySelf(l, all))
        \/ ExecCopy(l) \/ ExecCopyFails(l) \/ BouncerEnds(l)
        \/ Search(l) \/ PlayEnds(l) \/ CopyEnds(l)

LaunchSpec == LaunchInit /\ [][LaunchNext]_launchVars
-----------------------------------------------------------------------------
(* Correctness *)

\* When everything has ended no temporary file is left, whatever failed.
NothingIsLeft == (\A l \in Launches : bouncer[l] = "over") => disk = <<>>

\* A process outlives what it runs: nobody returns to the user before the game
\* ends, and the file of a copy is not removed under it by its own bouncer.
ParentsOutlive ==
    \A l \in Launches :
        /\ bouncer[l] = "over" => copy[l] \in {"none", "over"}
        /\ copy[l] = "over" => play[l] \in {"none", "over"}

\* The framework that runs is there and was asked for if one was; frameworks near
\* the program serve only when the root has none; the game near the program
\* comes first.
WhatRunsWasFound ==
    \A l \in Launches : started[l] # NoName =>
        LET s == started[l] IN
        /\ s.framework \in Installed
        /\ install.asked # NoVersion => s.framework = Framework("root", install.asked)
        /\ s.framework.dir = "near" => install.root = {}
        /\ s.game = "" <=> ~ install.nearGame /\ ~ install.rootGame
        /\ install.nearGame => s.game = "near"

\* When the copy got to run and a framework that it chooses is there, a game is
\* started: only a bouncer that could not open its file says it failed.
FailuresAreTold ==
    \A l \in Launches :
        /\ status[l] = 1 => copy[l] = "none" /\ started[l] = NoName
        /\ copy[l] = "over" /\ play[l] = "over" /\ Frameworks \subseteq Installed => started[l] # NoName

\* What launch leaves behind, runs and returns (launch/main.cpp:108-160, 203-375,
\* etc/temp/File.hpp:45-75).
LaunchesAreClean ==
    NothingIsLeft /\ ParentsOutlive /\ WhatRunsWasFound /\ FailuresAreTold
=============================================================================
