----------------------------- MODULE AudioStation -----------------------------
(***************************************************************************)
(* cube::audio::Station and cube::system::audio::OutputStream: any thread  *)
(* schedules sounds, one thread runs the station, which decodes them block *)
(* by block into the ring buffer of a stream each, and the thread of the   *)
(* audio library takes frames out of every buffer when its device asks for *)
(* some.  A buffer holds samples: a header and the frames of one block.    *)
(*                                                                         *)
(* The queue is behind a Monitor and `running' is atomic.  A sample shows  *)
(* in the buffer when it is committed, and the callback only makes room,   *)
(* so one turn of either loop is one step.                                 *)
(***************************************************************************)
EXTENDS Integers, Sequences, SequencesExt, FiniteSets, Functions

CONSTANTS Sounds,
          Blocks,       \* [Sounds -> sizes, in frames, of what the codec returns]
          MaxFrames,    \* Codec::max_frames()
          HeaderSize,   \* sizeof(OutputStream::Sample), in frames
          BufferSize,   \* what soundio_ring_buffer_create gave, in frames
          MaxPlays,     \* bound: calls of play()
          MaxFailures   \* bound: streams that cannot be opened

ASSUME AudioAssumption ==
    /\ MaxFrames \in Nat \ {0} /\ HeaderSize \in 0..MaxFrames /\ BufferSize \in Nat
    /\ Blocks \in [Sounds -> Seq(1..MaxFrames)]
    /\ MaxPlays \in Nat /\ MaxFailures \in Nat

VARIABLES
    playing,    \* Impl::running
    toPlay,     \* Impl::to_play
    decoded,    \* blocks read from the codec of each sound
    streams,    \* Impl::sounds, with the ring buffer of each stream
    at,         \* where run() is
    plays, failures

audioVars == <<playing, toPlay, decoded, streams, at, plays, failures>>

NotRunning == [step |-> "out", index |-> 0]

AudioInit ==
    /\ playing = FALSE
    /\ toPlay = <<>>
    /\ decoded = [s \in Sounds |-> 0]
    /\ streams = <<>>
    /\ at = NotRunning
    /\ plays = 0 /\ failures = 0
-----------------------------------------------------------------------------
(* Callers *)

Play(s) ==
    /\ plays < MaxPlays
    /\ plays' = plays + 1
    /\ toPlay' = Append(toPlay, s)
    /\ UNCHANGED <<playing, decoded, streams, at, failures>>

StopPlaying ==
    /\ playing
    /\ playing' = FALSE
    /\ UNCHANGED <<toPlay, decoded, streams, at, plays, failures>>

\* run() refuses to start when the station is running already.
RunStation ==
    /\ at = NotRunning /\ ~playing
    /\ playing' = TRUE
    /\ at' = [step |-> "loop", index |-> 0]
    /\ UNCHANGED <<toPlay, decoded, streams, plays, failures>>
-----------------------------------------------------------------------------
(* The ring buffer of a stream *)

\* Sample::total_size
TotalSize(frames) == frames + HeaderSize

\* The device took n frames of the oldest sample; the header of what is left
\* is written over the last frames taken.
Consumed(k, n) ==
    LET block == streams[k].buffer[1] IN
    [streams EXCEPT
        ![k].buffer = IF n < Len(block) THEN [@ EXCEPT ![1] = SubSeq(block, n + 1, Len(block))]
                      ELSE Tail(@),
        ![k].fill   = @ - IF n < Len(block) THEN n ELSE TotalSize(n),
        ![k].played = @ \o SubSeq(block, 1, n)]

\* One turn of on_can_write's loop: the device decides how many frames it takes.
OnCanWrite(k, n) ==
    /\ streams[k].started /\ streams[k].fill > 0
    /\ n <= Len(streams[k].buffer[1])
    /\ streams' = Consumed(k, n)
    /\ UNCHANGED <<playing, toPlay, decoded, at, plays, failures>>

\* How many frames the first blocks of a sound are.
FramesUpTo(s) ==
    LET upTo[b \in 0..Len(Blocks[s])] == IF b = 0 THEN 0 ELSE upTo[b - 1] + Blocks[s][b]
    IN upTo
Frames(s, b) == FramesUpTo(s)[b]

\* The next block of a sound, with the frames numbered from its beginning.
Block(s) == [i \in 1..Blocks[s][decoded[s] + 1] |-> Frames(s, decoded[s]) + i]

Committed(k, block) ==
    [streams EXCEPT ![k].buffer = Append(@, block),
                    ![k].fill   = @ + TotalSize(Len(block))]

\* Fault: room for anything is room enough.
HasFree_Any(k) == BufferSize - streams[k].fill > 0
HasFree(k) == BufferSize - streams[k].fill > 2 * MaxFrames

\* flush_sound goes on as long as there is room for two blocks and the codec
\* has more: next_write_sample and commit_sample.
Flushes(k) == HasFree(k) /\ decoded[streams[k].sound] < Len(Blocks[streams[k].sound])
Flush(k) ==
    LET s == streams[k].sound IN
    /\ Flushes(k)
    /\ decoded' = [decoded EXCEPT ![s] = @ + 1]
    /\ streams' = Committed(k, Block(s))
    /\ UNCHANGED <<playing, toPlay, at, plays, failures>>
-----------------------------------------------------------------------------
(* run() *)

Goes(step, index) == at' = [step |-> step, index |-> index]

\* while (running)
Loop ==
    /\ at.step = "loop"
    /\ IF playing THEN Goes("take", 0) ELSE at' = NotRunning
    /\ UNCHANGED <<playing, toPlay, decoded, streams, plays, failures>>

\* The newest sound gets a stream, and the oldest leaves the queue.
Popped == Tail(toPlay)
Take ==
    /\ at.step = "take" /\ toPlay # <<>>
    /\ toPlay' = Popped
    /\ streams' = Append(streams, [sound |-> Last(toPlay), buffer |-> <<>>, fill |-> 0,
                                   started |-> FALSE, played |-> <<>>])
    /\ Goes("first", Len(streams) + 1)
    /\ UNCHANGED <<playing, decoded, plays, failures>>

\* The stream cannot be opened: the exception leaves run(), and `running' as
\* it is.
TakeFails ==
    /\ at.step = "take" /\ toPlay # <<>>
    /\ failures < MaxFailures
    /\ failures' = failures + 1
    /\ toPlay' = Popped
    /\ at' = NotRunning
    /\ UNCHANGED <<playing, decoded, streams, plays>>

\* The first flush of a stream, then its start.
\* Fault: it is not started.
StartedAt_Not(k) == streams
StartedAt(k) == [streams EXCEPT ![k].started = TRUE]
First ==
    /\ at.step = "first"
    /\ IF Flushes(at.index)
       THEN Flush(at.index)
       ELSE /\ streams' = StartedAt(at.index)
            /\ Goes("take", 0)
            /\ UNCHANGED <<playing, toPlay, decoded, plays, failures>>

\* No more to take: every stream is flushed in turn.
NothingToTake ==
    /\ at.step = "take" /\ toPlay = <<>>
    /\ IF streams = <<>> THEN Goes("loop", 0) ELSE Goes("refill", 1)
    /\ UNCHANGED <<playing, toPlay, decoded, streams, plays, failures>>

Refill ==
    /\ at.step = "refill"
    /\ IF Flushes(at.index)
       THEN Flush(at.index)
       ELSE /\ IF at.index < Len(streams) THEN Goes("refill", at.index + 1) ELSE Goes("loop", 0)
            /\ UNCHANGED <<playing, toPlay, decoded, streams, plays, failures>>

Runs == Loop \/ Take \/ TakeFails \/ First \/ NothingToTake \/ Refill
Device(k) == \E n \in 1..MaxFrames : OnCanWrite(k, n)

AudioNext ==
    \/ \E s \in Sounds : Play(s)
    \/ StopPlaying \/ RunStation
    \/ Runs
    \/ \E k \in DOMAIN streams : Device(k)

\* The system runs the thread of the station, and devices that play ask for
\* more; nobody has to call anything.
AudioFairness ==
    /\ WF_audioVars(Runs)
    /\ \A k \in 1..MaxPlays : WF_audioVars(k <= Len(streams) /\ Device(k))
AudioSpec == AudioInit /\ [][AudioNext]_audioVars /\ AudioFairness
-----------------------------------------------------------------------------
AudioTypeOK ==
    /\ playing \in BOOLEAN /\ toPlay \in Seq(Sounds)
    /\ \A s \in Sounds : decoded[s] \in 0..Len(Blocks[s])
    /\ at.step \in {"out", "loop", "take", "first", "refill"}
    /\ at.index \in 0..Len(streams)

\* What the ring buffer counts is what its samples take, to the header, however
\* the device cuts them; and there was room for all of it
\* (Station.cpp:58, OutputStream.cpp:111-124, 157-164).
BuffersAreExact ==
    \A k \in DOMAIN streams :
        /\ streams[k].fill = Len(FlattenSeq(streams[k].buffer)) + HeaderSize * Len(streams[k].buffer)
        /\ streams[k].fill <= BufferSize

\* Every decoded frame of a sound is played once, or waits in one buffer, in
\* the order of the sound on its stream, also when a sound has several streams,
\* which share its codec.
Heard(k) == streams[k].played \o FlattenSeq(streams[k].buffer)
FramesAreKept ==
    /\ \A k \in DOMAIN streams : \A i, j \in DOMAIN Heard(k) :
          i < j => Heard(k)[i] < Heard(k)[j]
    /\ \A s \in Sounds :
          LET on == {k \in DOMAIN streams : streams[k].sound = s} IN
          /\ UNION {Range(Heard(k)) : k \in on} = 1..Frames(s, decoded[s])
          /\ \A k, l \in on : k # l => Range(Heard(k)) \cap Range(Heard(l)) = {}

\* Nothing is lost or overrun between the codecs and the devices.
AudioIsWhole == AudioTypeOK /\ BuffersAreExact /\ FramesAreKept

\* A stream that was opened plays its sound to the end, unless the station
\* leaves its loop first (run(), flush_sound, on_can_write).
PlayedOut(k) ==
    /\ k \in DOMAIN streams
    /\ decoded[streams[k].sound] = Len(Blocks[streams[k].sound])
    /\ streams[k].buffer = <<>>
SoundsPlayOn ==
    \A k \in 1..MaxPlays : k \in DOMAIN streams ~> (PlayedOut(k) \/ at = NotRunning)

\* stop() ends a run().
StopEndsRun == (~playing /\ at # NotRunning) ~> (at = NotRunning)

StationIsLive == SoundsPlayOn /\ StopEndsRun
=============================================================================
