----------------------------- MODULE GameInputs -----------------------------
(***************************************************************************)
(* From the keyboard to the game: SDL queues what the devices do,          *)
(* Window::_poll hands at most `max' of it to the signals of Inputs,       *)
(* cubeapp.game.input.Translator turns keys into the bindings of the game  *)
(* and fires them once per frame; quitting goes round by the event manager *)
(* to Application.shutdown.  All of it but SDL is one thread, the frames   *)
(* of Application._run.                                                    *)
(*                                                                         *)
(* A modifier mask (KeyMod) is the set of its bits.  No binding is for     *)
(* KeySym.unknown: keys without a KeySym and the key code, which           *)
(* Window::_poll always gives as 0, then match nothing.                    *)
(***************************************************************************)
EXTENDS Integers, Sequences, FiniteSets, SequencesExt

CONSTANTS Keys,         \* the keys that have a KeySym
          KeyMods,      \* the modifiers of the keyboard, "num" is one
          Names,        \* names of bindings
          BoundTo,      \* the configuration: name -> <<KeyMod, KeySym>>
          PollMax,      \* `max' of Window::poll, 100 in the code
          MaxArrivals   \* bound: events of devices

NoSize == -1
Ctrl == {"lctrl", "rctrl"}  \* KeyMod.ctrl

\* __init__: a binding with ctrl is entered once for each control key.
Masks(n) == IF BoundTo[n][1] = Ctrl THEN {{k} : k \in Ctrl} ELSE {BoundTo[n][1]}

\* __init__ asserts that no two bindings are for the same key.
ASSUME InputAssumption ==
    /\ BoundTo \in [Names -> (SUBSET KeyMods) \X Keys]
    /\ \A n, o \in Names :
         BoundTo[n][2] = BoundTo[o][2] /\ Masks(n) \cap Masks(o) # {} => n = o
    /\ PollMax \in Nat \ {0}

VARIABLES osQueue,    \* SDL's queue of events
          arrived,    \* how many events there have been
          down, mods, \* what the user holds
          typed,      \* history: the bound key events that happened
          phase,      \* where Application._run is
          count,      \* Window::_poll's count
          redraw,     \* Window::_poll's has_resize or has_expose
          size,       \* size of the window's context
          newSize,    \* gui Window's new_size, NoSize when empty
          viewport,   \* size of the renderer's viewport
          toFire,     \* Translator.__events
          heldKeys,   \* Translator.__held
          firing,     \* Translator.poll's to_fire, the rest of it
          told,       \* history: calls of key_pressed and key_released
          motion,     \* MouseInput.__xrel
          moved,      \* history: mouse motion since the game read it
          pushed,     \* the event manager's queue
          taken,      \* its copy of it during a poll, the rest of it
          running     \* Application._running

osVars == <<osQueue, arrived, down, mods, typed>>
windowVars == <<count, redraw, size, newSize, viewport>>
keyVars == <<toFire, heldKeys, firing, told>>
mouseVars == <<motion, moved>>
appVars == <<pushed, taken, running>>
inputVars == <<osVars, windowVars, keyVars, mouseVars, appVars, phase>>
-----------------------------------------------------------------------------

\* __get_keyboard_input: num lock does not count, any other modifier does.
KeyboardInput(mask, key) ==
    {n \in Names : mask \ {"num"} \in Masks(n) /\ key = BoundTo[n][2]}

KeyEvent(type, k) == [type |-> type, mask |-> mods, key |-> k]
Plain(type) == [type |-> type]

\* What __on_keydown and __on_keyup append for an event of the window.
Translation(e) ==
    IF e.type \in {"pressed", "released"}
    THEN SetToSeq({<<e.type, n>> : n \in KeyboardInput(e.mask, e.key)})
    ELSE <<>>

InputInit ==
    /\ osQueue = <<>> /\ arrived = 0 /\ down = {} /\ mods = {} /\ typed = <<>>
    /\ phase = "update" /\ count = 0 /\ redraw = FALSE
    /\ size = 0 /\ newSize = NoSize /\ viewport = 0
    /\ toFire = <<>> /\ heldKeys = {} /\ firing = <<>> /\ told = <<>>
    /\ motion = 0 /\ moved = 0
    /\ pushed = <<>> /\ taken = <<>> /\ running = TRUE
-----------------------------------------------------------------------------
(* The devices (SDL) *)

Arrives(e) ==
    /\ phase # "over" /\ arrived < MaxArrivals /\ arrived' = arrived + 1
    /\ osQueue' = Append(osQueue, e)
    /\ UNCHANGED <<windowVars, keyVars, mouseVars, appVars, phase>>

\* What the player means by a key: the binding whose modifiers are the ones
\* held, num lock aside; either control key (one of them) is `ctrl'.
Meant(type, k) ==
    LET held == mods \ {"num"}
        fits(m) == IF m = Ctrl THEN held \subseteq Ctrl /\ Cardinality(held) = 1 ELSE held = m
    IN  SetToSeq({<<type, n>> : n \in {n \in Names : BoundTo[n][2] = k /\ fits(BoundTo[n][1])}})

\* A key goes down, or repeats while it is down.
Press(k) ==
    /\ Arrives(KeyEvent("pressed", k)) /\ down' = down \cup {k}
    /\ typed' = typed \o Meant("pressed", k) /\ UNCHANGED mods

Release(k) ==
    /\ k \in down /\ Arrives(KeyEvent("released", k)) /\ down' = down \ {k}
    /\ typed' = typed \o Meant("released", k) /\ UNCHANGED mods

\* Modifiers have no KeySym of their own: their events match nothing.
Modify(m) ==
    /\ Arrives(Plain("other"))
    /\ mods' = IF m \in mods THEN mods \ {m} ELSE mods \cup {m}
    /\ UNCHANGED <<down, typed>>

\* Motion, resizes and exposures, escape and the close button.
Happens(type) ==
    /\ type \in {"motion", "resize", "expose", "escape", "close"}
    /\ Arrives(Plain(type)) /\ UNCHANGED <<down, mods, typed>>
-----------------------------------------------------------------------------
(* Application._run *)

ReadsMouse(reads) ==
    IF reads THEN motion' = 0 /\ moved' = 0 ELSE UNCHANGED mouseVars

\* window.shutdown() drops every slot, event_manager.clear() the queue and
\* the controllers, which ends its poll.
Shutdown ==
    /\ running' = FALSE /\ pushed' = <<>> /\ taken' = <<>> /\ phase' = "over"

\* Game code raises: Application.run shuts down and raises on.
Raises ==
    /\ phase \in {"update", "fire", "held"} /\ Shutdown
    /\ UNCHANGED <<osVars, windowVars, keyVars, mouseVars>>

\* Game.update and render, which may look at the mouse, then the render of the
\* window, which gives the renderer the new size.
Update(reads) ==
    /\ phase = "update" /\ phase' = "window" /\ count' = 0 /\ redraw' = FALSE
    /\ viewport' = (IF newSize # NoSize THEN newSize ELSE viewport) /\ newSize' = NoSize
    /\ ReadsMouse(reads)
    /\ UNCHANGED <<osVars, size, keyVars, appVars>>

\* on_quit: Application._on_quit pushes to the escape channel, Game._on_quit to
\* that of the shutdown.
OnQuit == pushed' = pushed \o <<"escape", "shutdown">>

\* Fault: a key released stays held.
HeldAfter_Forever(type, names) ==
    IF type = "pressed" \/ names \subseteq heldKeys THEN heldKeys \cup names ELSE {}

\* __on_keydown, __on_keyup: a release of what is not held forgets everything
\* that is.
HeldAfter(type, names) ==
    IF type = "pressed" THEN heldKeys \cup names
    ELSE IF names \subseteq heldKeys THEN heldKeys \ names ELSE {}

Translate(e) ==
    IF e.type \in {"pressed", "released"}
    THEN /\ toFire' = toFire \o Translation(e)
         /\ heldKeys' = HeldAfter(e.type, KeyboardInput(e.mask, e.key))
         /\ UNCHANGED <<firing, told>>
    ELSE UNCHANGED keyVars

\* Fault: escape leaves the loop before the signal is called.
Quits_CloseOnly(e) == e.type = "close"

\* Escape, pressed or released, and the close button.
Quits(e) == e.type \in {"escape", "close"}

\* One event of Window::_poll.  Escape leaves the loop before it is counted.
PollEvent ==
    /\ phase = "window" /\ osQueue # <<>> /\ count < PollMax
    /\ LET e == Head(osQueue) IN
       /\ Translate(e)
       /\ motion' = IF e.type = "motion" THEN motion + 1 ELSE motion
       /\ moved' = IF e.type = "motion" THEN moved + 1 ELSE moved
       /\ IF Quits(e) THEN OnQuit ELSE UNCHANGED pushed
       /\ size' = IF e.type = "resize" THEN 1 - size ELSE size
       /\ redraw' = (redraw \/ e.type \in {"resize", "expose"})
       /\ count' = IF e.type = "escape" THEN PollMax ELSE count + 1
    /\ osQueue' = Tail(osQueue)
    /\ UNCHANGED <<arrived, down, mods, typed, newSize, viewport, firing, told, taken, running, phase>>
\* The end of Window::_poll tells the last size (on_resize and on_expose both
\* set new_size).
\* Translator.poll takes the events.
EndPoll ==
    /\ phase = "window" /\ (osQueue = <<>> \/ count = PollMax)
    /\ newSize' = IF redraw THEN size ELSE newSize
    /\ firing' = toFire /\ toFire' = <<>> /\ phase' = "fire"
    /\ UNCHANGED <<osVars, count, redraw, size, viewport, heldKeys, told, mouseVars, appVars>>

\* Translator.poll calls key_pressed or key_released of the next event.
Fire(reads) ==
    /\ phase = "fire" /\ firing # <<>>
    /\ told' = Append(told, Head(firing)) /\ firing' = Tail(firing)
    /\ ReadsMouse(reads)
    /\ UNCHANGED <<osVars, windowVars, toFire, heldKeys, appVars, phase>>

\* Then key_held of every binding held.
Fired ==
    /\ phase = "fire" /\ firing = <<>> /\ phase' = "held"
    /\ UNCHANGED <<osVars, windowVars, keyVars, mouseVars, appVars>>

\* event_manager.poll takes the queue.
Held(reads) ==
    /\ phase = "held" /\ phase' = "events"
    /\ taken' = pushed /\ pushed' = <<>>
    /\ ReadsMouse(reads)
    /\ UNCHANGED <<osVars, windowVars, keyVars, running>>

\* Game registered _on_quit to the escape channel, Application its shutdown to
\* the shutdown channel.
HandleEscape ==
    /\ phase = "events" /\ taken # <<>> /\ Head(taken) = "escape"
    /\ pushed' = Append(pushed, "shutdown") /\ taken' = Tail(taken)
    /\ UNCHANGED <<osVars, windowVars, keyVars, mouseVars, running, phase>>

HandleShutdown ==
    /\ phase = "events" /\ taken # <<>> /\ Head(taken) = "shutdown"
    /\ Shutdown /\ UNCHANGED <<osVars, windowVars, keyVars, mouseVars>>

EndFrame ==
    /\ phase = "events" /\ taken = <<>> /\ phase' = "update"
    /\ UNCHANGED <<osVars, windowVars, keyVars, mouseVars, appVars>>

Frame ==
    \/ \E reads \in BOOLEAN : Update(reads) \/ Fire(reads) \/ Held(reads)
    \/ PollEvent \/ EndPoll \/ Fired \/ HandleEscape \/ HandleShutdown \/ EndFrame

Devices ==
    \/ \E k \in Keys : Press(k) \/ Release(k)
    \/ \E m \in KeyMods : Modify(m)
    \/ \E type \in {"motion", "resize", "expose", "escape", "close"} : Happens(type)

InputNext == Frame \/ Raises \/ Devices

\* The loop goes on; nobody has to press a key.
InputSpec == InputInit /\ [][InputNext]_inputVars /\ WF_inputVars(Frame)
-----------------------------------------------------------------------------
(* Properties *)

\* What the window and the translator still have of the keys typed.
Untold == firing \o toFire \o FlattenSeq([i \in DOMAIN osQueue |-> Translation(osQueue[i])])

\* While the game runs, its bindings are told every key that was meant for
\* them, each once and in the order typed, whatever else is in SDL's queue,
\* where _poll stops (input/__init__.py:107, :139; window.cpp:613).
KeysAreTold == phase # "over" => told \o Untold = typed

\* key_held is only called for a binding whose last event, told or about to be,
\* is a press; after a press and a release within a frame it is not
\* (input/__init__.py:111, :118-123).
HeldIsPressed ==
    LET known == told \o firing \o toFire
    IN  \A n \in heldKeys : \E i \in DOMAIN known :
            /\ known[i] = <<"pressed", n>>
            /\ \A j \in DOMAIN known : j > i => known[j][2] # n

\* No mouse motion is lost between two reads of the game, though `+=' reads, and
\* so resets, what it adds to (mouse.py:8, input/__init__.py:128).
MotionIsKept == motion = moved

\* Outside Window::_poll what gui Window says of its size, new or drawn, is the
\* size the window has (sdl/window.cpp:713, gui/window/Window.cpp:35, :64).
SizeIsTold == phase # "window" => size = IF newSize # NoSize THEN newSize ELSE viewport

InputsAreFaithful == KeysAreTold /\ HeldIsPressed /\ MotionIsKept /\ SizeIsTold

\* Escape or the close button ends the game, however much is queued before it
\* and whatever else is in the frame (window.cpp:631, :641, application.py:77,
\* game/__init__.py:109).
QuitEnds ==
    (\E i \in DOMAIN osQueue : osQueue[i].type \in {"escape", "close"}) ~> ~running

\* A frame comes to its end: keys typed are told, unless the game ends.
KeysAreServed == (Untold # <<>>) ~> (Untold = <<>> \/ ~running)

InputsAreServed == QuitEnds /\ KeysAreServed
=============================================================================
