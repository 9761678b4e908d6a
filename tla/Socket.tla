-------------------------------- MODULE Socket --------------------------------
(***************************************************************************)
(* etc::network::Socket: TCP sockets whose blocking calls freeze the       *)
(* calling job until the io_service completes one asynchronous operation;  *)
(* read() and write() do so in a loop.  Several jobs may use one end of    *)
(* the connection.  The network (external) moves bytes between two bounded *)
(* buffers, and completes an operation with some bytes or with an error,   *)
(* which is thrown when the job is resumed (Context::yield).               *)
(* Jobs are cooperative (Scheduler.tla): any of those that are not asleep  *)
(* may be the next to run.                                                 *)
(***************************************************************************)
EXTENDS Integers, Sequences, FiniteSets, SequencesExt

CONSTANTS Server, Client,   \* the job that accepts, the job that connects
          Helpers,          \* more jobs, and the end each of them uses:
          HelpsServer,      \* those that use the server's
          Capacity,         \* bytes in flight in one direction
          ReadSize,            \* what read(0) asks for at once (4096)
          MaxSize,          \* bound: bytes of one call
          MaxWritten        \* bound: bytes each job writes

Jobs == {Server, Client} \cup Helpers

ASSUME SocketAssumption ==
    /\ Server # Client /\ {Server, Client} \cap Helpers = {}
    /\ HelpsServer \subseteq Helpers
    /\ {Capacity, ReadSize, MaxSize} \subseteq Nat \ {0}
    /\ MaxWritten \in [Jobs -> Nat]

Ends == {"server", "client"}
EndOf(j) == IF j \in {Server} \cup HelpsServer THEN "server" ELSE "client"
Peer(e) == IF e = "server" THEN "client" ELSE "server"

VARIABLES listening,    \* the acceptor listens
          knocking,     \* a connection waits to be accepted
          link,         \* of an end: none, open, closed
          wire,         \* the bytes on their way to an end: <<writer, n>>
          op,           \* what a job is doing: [call, size, done, buf]
          asleep,       \* the jobs that wait for a completion
          exception,    \* Context::exception
          written, returned, discarded   \* history: bytes, per job
socketVars == <<listening, knocking, link, wire, op, asleep, exception, written,
          returned, discarded>>

NoOp == [call |-> "none", size |-> 0, done |-> 0, buf |-> <<>>]

SocketInit ==
    /\ listening = FALSE /\ knocking = FALSE
    /\ link = [e \in Ends |-> "none"] /\ wire = [e \in Ends |-> <<>>]
    /\ op = [j \in Jobs |-> NoOp]
    /\ asleep = {} /\ exception = {}
    /\ written = [j \in Jobs |-> 0]
    /\ returned = [j \in Jobs |-> <<>>] /\ discarded = [j \in Jobs |-> <<>>]
-----------------------------------------------------------------------------
(* Calls: the first operation is started, then freeze and yield *)

Calls(j) == op[j].call = "none"
Start(j, call, size) ==
    /\ op' = [op EXCEPT ![j] = [NoOp EXCEPT !.call = call, !.size = size]]
    /\ asleep' = asleep \cup {j}

Listen ==
    /\ Calls(Server) /\ ~listening /\ listening' = TRUE
    /\ UNCHANGED <<knocking, link, wire, op, asleep, exception, written, returned, discarded>>

Accept ==
    /\ Calls(Server) /\ listening /\ link["server"] = "none"
    /\ Start(Server, "accept", 0)
    /\ UNCHANGED <<listening, knocking, link, wire, exception, written, returned, discarded>>

Connect ==
    /\ Calls(Client) /\ link["client"] = "none"
    /\ Start(Client, "connect", 0)
    /\ UNCHANGED <<listening, knocking, link, wire, exception, written, returned, discarded>>

\* size = 0: until the connection is closed.
Read(j, size) ==
    /\ Calls(j) /\ link[EndOf(j)] = "open"
    /\ Start(j, "read", size)
    /\ UNCHANGED <<listening, knocking, link, wire, exception, written, returned, discarded>>

Write(j, size) ==
    /\ Calls(j) /\ link[EndOf(j)] = "open" /\ written[j] + size <= MaxWritten[j]
    /\ Start(j, "write", size)
    /\ UNCHANGED <<listening, knocking, link, wire, exception, written, returned, discarded>>

\* The socket is destroyed by the job that opened it, and the bytes that came
\* for it are lost.  Nobody may be waiting on it: handlers refer to it.
Close(j) ==
    /\ j \in {Server, Client} /\ link[EndOf(j)] = "open"
    /\ \A k \in Jobs : EndOf(k) = EndOf(j) => Calls(k)
    /\ link' = [link EXCEPT ![EndOf(j)] = "closed"]
    /\ wire' = [wire EXCEPT ![EndOf(j)] = <<>>]
    /\ UNCHANGED <<listening, knocking, op, asleep, exception, written, returned, discarded>>

Call ==
    \/ Listen \/ Accept \/ Connect
    \/ \E j \in Jobs :
        \/ Close(j)
        \/ \E size \in 0 .. MaxSize : Read(j, size)
        \/ \E size \in 1 .. MaxSize : Write(j, size)
-----------------------------------------------------------------------------
(* Completions: the handler notes the outcome and wakes the job up *)

Waits(j, call) == j \in asleep /\ op[j].call = call
WakesUp(j) == asleep' = asleep \ {j}

Fails(j) == exception \cup {j}

\* The kernel shakes hands before accept() is called.
Connected ==
    /\ Waits(Client, "connect") /\ listening /\ ~knocking
    /\ knocking' = TRUE
    /\ link' = [link EXCEPT !["client"] = "open"]
    /\ WakesUp(Client)
    /\ UNCHANGED <<listening, wire, op, exception, written, returned, discarded>>

Refused ==
    /\ Waits(Client, "connect") /\ ~listening
    /\ exception' = Fails(Client)
    /\ WakesUp(Client)
    /\ UNCHANGED <<listening, knocking, link, wire, op, written, returned, discarded>>

Accepted ==
    /\ Waits(Server, "accept") /\ knocking /\ link["server"] = "none"
    /\ link' = [link EXCEPT !["server"] = "open"]
    /\ WakesUp(Server)
    /\ UNCHANGED <<listening, knocking, wire, op, exception, written, returned, discarded>>

\* What one operation of the loop still asks for.
ToRead(j) == IF op[j].size = 0 THEN ReadSize ELSE op[j].size - op[j].done

\* The buffer is filled from &res[read_bytes] on.
Filled(j, bytes) == op[j].buf \o bytes

Arrived(j, n) ==
    /\ Waits(j, "read")
    /\ n <= Len(wire[EndOf(j)]) /\ n <= ToRead(j)
    /\ LET bytes == SubSeq(wire[EndOf(j)], 1, n) IN
       /\ wire' = [wire EXCEPT ![EndOf(j)] = SubSeq(@, n + 1, Len(@))]
       /\ op' = [op EXCEPT ![j].done = @ + n, ![j].buf = Filled(j, bytes)]
    /\ WakesUp(j)
    /\ UNCHANGED <<listening, knocking, link, exception, written, returned, discarded>>

ToWrite(j) == op[j].size - op[j].done

\* The bytes from &data[sent] on.
\* Fault: always from its beginning.
NextByte_First(j) == written[j] + 1 - op[j].done
NextByte(j) == written[j] + 1

\* The bytes sent to an end that is closed are lost.
Sent(j, n) ==
    /\ Waits(j, "write")
    /\ n <= ToWrite(j)
    /\ LET to == Peer(EndOf(j)) IN
       /\ Len(wire[to]) + n <= Capacity
       /\ wire' = [wire EXCEPT ![to] = IF link[to] = "closed" THEN <<>>
                     ELSE @ \o [i \in 1 .. n |-> <<j, NextByte(j) + i - 1>>]]
    /\ op' = [op EXCEPT ![j].done = @ + n]
    /\ written' = [written EXCEPT ![j] = @ + n]
    /\ WakesUp(j)
    /\ UNCHANGED <<listening, knocking, link, exception, returned, discarded>>

\* End of file or a reset for a reader, a broken pipe for a writer.
Error(j) ==
    /\ j \in asleep /\ op[j].call \in {"read", "write"}
    /\ link[Peer(EndOf(j))] = "closed"
    /\ exception' = Fails(j)
    /\ WakesUp(j)
    /\ UNCHANGED <<listening, knocking, link, wire, op, written, returned, discarded>>

Transfers(j) == Error(j) \/ \E n \in 1 .. MaxSize : Arrived(j, n) \/ Sent(j, n)

Completion ==
    \/ Connected \/ Refused \/ Accepted
    \/ \E j \in Jobs : Transfers(j)
-----------------------------------------------------------------------------
(* The job runs again *)

Resumes(j) == j \notin asleep /\ op[j].call # "none"

\* yield() throws: the call ends, and its buffer with it.
Throws(j) == j \in exception
Throw(j) ==
    /\ Resumes(j) /\ Throws(j)
    /\ exception' = exception \ {j}
    /\ op' = [op EXCEPT ![j] = NoOp]
    /\ discarded' = [discarded EXCEPT ![j] = @ \o op[j].buf]
    /\ UNCHANGED <<listening, knocking, link, wire, asleep, written, returned>>

\* `while (size == 0 || read_bytes < size)', `while (sent < data.size())'
\* Fault: one operation is enough.
GoesOn_Never(j) == FALSE
GoesOn(j) ==
    \/ op[j].call = "read" /\ (op[j].size = 0 \/ op[j].done < op[j].size)
    \/ op[j].call = "write" /\ op[j].done < op[j].size

Again(j) ==
    /\ Resumes(j) /\ ~Throws(j) /\ GoesOn(j)
    /\ asleep' = asleep \cup {j}
    /\ UNCHANGED <<listening, knocking, link, wire, op, exception, written, returned, discarded>>

Return(j) ==
    /\ Resumes(j) /\ ~Throws(j) /\ ~GoesOn(j)
    /\ op' = [op EXCEPT ![j] = NoOp]
    /\ returned' = [returned EXCEPT ![j] = @ \o op[j].buf]
    /\ UNCHANGED <<listening, knocking, link, wire, asleep, exception, written, discarded>>

Resume(j) == Throw(j) \/ Again(j) \/ Return(j)

SocketNext == Call \/ Completion \/ (\E j \in Jobs : Resume(j))
SocketSpec == SocketInit /\ [][SocketNext]_socketVars

\* The network delivers, the io_service reports it in turn and the scheduler
\* runs every job that is not asleep; nobody has to call anything.
FairSocketSpec ==
    /\ SocketSpec
    /\ WF_socketVars(Connected \/ Refused) /\ WF_socketVars(Accepted)
    /\ \A j \in Jobs : WF_socketVars(Transfers(j)) /\ WF_socketVars(Resume(j))
-----------------------------------------------------------------------------
SocketTypeOK ==
    /\ listening \in BOOLEAN /\ knocking \in BOOLEAN
    /\ link \in [Ends -> {"none", "open", "closed"}]
    /\ asleep \subseteq Jobs /\ exception \subseteq Jobs
    /\ \A j \in Jobs :
        /\ op[j].call \in {"none", "accept", "connect", "read", "write"}
        /\ op[j].size \in 0 .. MaxSize /\ op[j].done \in Nat
        /\ op[j].size > 0 => op[j].done <= op[j].size
        /\ written[j] <= MaxWritten[j]
    /\ \A e \in Ends : Len(wire[e]) <= Capacity

\* What came out of the wire at end e, call by call.
Taken(j) == returned[j] \o op[j].buf

\* No byte is duplicated, nor lost while its end is open: it is on the wire,
\* was given to one of the readers, or was thrown away with the buffer of one
\* (read_bytes, sent and the buffer's addresses, Socket.cpp:112-141, 153-180).
EachByteOnce ==
    \A e \in Ends :
        LET readers == {j \in Jobs : EndOf(j) = e}
            places  == {<<"wire", "wire">>} \cup (readers \X {"taken", "lost"})
            at(p) == IF p = <<"wire", "wire">> THEN wire[e]
                     ELSE IF p[2] = "taken" THEN Taken(p[1]) ELSE discarded[p[1]]
        IN /\ \A p \in places : IsInjective(at(p))
           /\ \A p, q \in places : p # q => ToSet(at(p)) \cap ToSet(at(q)) = {}
           /\ link[e] # "closed" =>
                UNION {ToSet(at(p)) : p \in places} =
                UNION {{w} \X (1 .. written[w]) : w \in {j \in Jobs : EndOf(j) # e}}

InWriteOrder(s) == \A i, k \in DOMAIN s : i < k /\ s[i][1] = s[k][1] => s[i][2] < s[k][2]

\* Bytes of one writer reach a reader in the order they were written in,
\* whoever else writes to or reads from the same ends.
StreamInOrder == \A r \in Jobs : InWriteOrder(Taken(r))

\* A read(size) that returns has read size bytes, and one of size 0 never
\* returns; a write() that returns has written everything.
CallsAreWhole ==
    [][\A j \in Jobs :
        op[j].call \in {"read", "write"} /\ op'[j].call = "none" =>
            \/ j \in exception
            \/ op[j].size > 0 /\ op[j].done = op[j].size
               /\ Len(returned'[j]) - Len(returned[j]) =
                    (IF op[j].call = "read" THEN op[j].size ELSE 0)]_socketVars

\* The error of an operation is thrown in the job that waits for it, and in
\* that call.
ErrorsReachTheirCall ==
    \A j \in Jobs : j \in exception => j \notin asleep /\ op[j].call # "none"

\* The two streams of a connection are whole, and errors come where they are
\* waited for (Socket.cpp:85-95, 112-138, 160-177, 216-222).
StreamsAreWhole ==
    SocketTypeOK /\ EachByteOnce /\ StreamInOrder /\ ErrorsReachTheirCall

\* A reader whose peer is gone is told, and is never left asleep.
NobodyWaitsForTheDead ==
    \A j \in Jobs :
        (op[j].call = "read" /\ link[Peer(EndOf(j))] = "closed") ~> (op[j].call = "none")

\* connect() and accept() come back once the other side has done its part.
PeersMeet ==
    /\ (op[Client].call = "connect") ~> (op[Client].call # "connect")
    /\ (op[Server].call = "accept" /\ knocking) ~> (op[Server].call # "accept")

\* Calls come back, whole: those whose peer is gone, and those whose peer is there.
CallsReturn == CallsAreWhole /\ NobodyWaitsForTheDead /\ PeersMeet
=============================================================================
