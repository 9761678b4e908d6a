------------------------------- MODULE Windows -------------------------------
(***************************************************************************)
(* cube::system::window: the windows of SDL, which is started with the     *)
(* first renderer context and quit with the last one, and the targets that *)
(* their renderers draw into.  A target remembers what was drawn into      *)
(* before it was bound, and puts that back.                                *)
(***************************************************************************)
EXTENDS Integers, Sequences, FiniteSets, SequencesExt

CONSTANTS Wins, Targets,
          MaxProxies,  \* bound: proxies alive at once
          MaxArguments, \* bound: targets of one proxy
          MaxFailures, \* bound: contexts that failed half-way
          NoTarget     \* SDL's default target: the window itself

ASSUME WindowsAssumption ==
    /\ IsFiniteSet(Wins) /\ MaxArguments \in Nat
    /\ NoTarget \notin Targets
    /\ NoTarget \notin [window : Wins, bound : Nat, previous : Targets \cup {NoTarget}]

VARIABLES counter,   \* SDLRendererContext::counter
          sdlUp,     \* between SDL_Init and SDL_Quit
          open,      \* open[w]: "no", "renderer", or "bare" (no SDL_Renderer)
          current,   \* what the renderer of a window draws into
          target,    \* target[t]: [window, bound, previous], or NoTarget
          proxies,   \* the targets of each proxy alive, innermost last
          crossed,   \* a proxy of two targets was unbound
          saved      \* the last save: [wanted, found, bound], or NoTarget
windowVars == <<counter, sdlUp, open, current, target, proxies, crossed, saved>>

WindowsInit ==
    /\ counter = 0 /\ sdlUp = FALSE
    /\ open = [w \in Wins |-> "no"]
    /\ current = [w \in Wins |-> NoTarget]
    /\ target = [t \in Targets |-> NoTarget]
    /\ proxies = <<>> /\ crossed = FALSE
    /\ saved = NoTarget

Open == {w \in Wins : open[w] # "no"}
-----------------------------------------------------------------------------
(* SDLRendererContext and Window *)

\* Any step after SDL_Init went well; the window is made with its renderer, or
\* without one (CUBE_SYSTEM_WINDOW_NO_RENDERER, or no software renderer).
CreateWindow(w) ==
    /\ open[w] = "no"
    /\ counter' = counter + 1 /\ sdlUp' = TRUE
    /\ \E how \in {"renderer", "bare"} : open' = [open EXCEPT ![w] = how]
    /\ UNCHANGED <<current, target, proxies, crossed, saved>>

\* SDL_Init fails.
InitFails ==
    /\ counter = 0
    /\ counter' = 0 /\ sdlUp' = FALSE
    /\ UNCHANGED <<open, current, target, proxies, crossed, saved>>

\* CreateWindow, GL_CreateContext, the surface, the driver, the renderer or its
\* description fails: the constructor throws, so no destructor counts down.
CreateFails ==
    /\ counter - Cardinality(Open) < MaxFailures
    /\ counter' = counter + 1 /\ sdlUp' = TRUE
    /\ UNCHANGED <<open, current, target, proxies, crossed, saved>>

\* create_renderer fails (no OpenGL, an extension is missing): the context, that was
\* complete, is destroyed.
RendererFails ==
    /\ Open # Wins
    /\ sdlUp' = (counter > 0)
    /\ UNCHANGED <<counter, open, current, target, proxies, crossed, saved>>

CountDown == counter' = counter - 1 /\ sdlUp' = (counter > 1)

\* A client drops the targets of a window before the window.
DestroyWindow(w) ==
    /\ open[w] # "no"
    /\ \A t \in Targets : target[t] # NoTarget => target[t].window # w
    /\ open' = [open EXCEPT ![w] = "no"]
    /\ current' = [current EXCEPT ![w] = NoTarget]
    /\ CountDown
    /\ UNCHANGED <<target, proxies, crossed, saved>>
-----------------------------------------------------------------------------
(* SDLRenderTarget *)

\* Refused without a renderer.
NewTarget(t, w) ==
    /\ target[t] = NoTarget /\ open[w] = "renderer"
    /\ target' = [target EXCEPT ![t] = [window |-> w, bound |-> 0, previous |-> NoTarget]]
    /\ UNCHANGED <<counter, sdlUp, open, current, proxies, crossed, saved>>

DropTarget(t) ==
    /\ target[t] # NoTarget /\ target[t].bound = 0
    /\ target' = [target EXCEPT ![t] = NoTarget]
    /\ UNCHANGED <<counter, sdlUp, open, current, proxies, crossed, saved>>

\* A context of these operators is [target, current].  Only the first guard binds.
Guarded(c, t) ==
    LET w == c.target[t].window
        counted == [c EXCEPT !.target[t].bound = @ + 1]
    IN IF c.target[t].bound > 0 THEN counted
       ELSE [counted EXCEPT !.target[t].previous = c.current[w], !.current[w] = t]

\* Fault: unbinding goes back to the window.
Restored_Window(tgt) == NoTarget
Restored(tgt) == tgt.previous

Unguarded(c, t) ==
    LET w == c.target[t].window
        counted == [c EXCEPT !.target[t].bound = @ - 1]
    IN IF c.target[t].bound > 1 THEN counted
       ELSE [counted EXCEPT !.current[w] = Restored(c.target[t])]

\* The context after the first i guards of a list, and after as many ended.
GuardedUpTo(c, list) ==
    LET on[i \in 0..Len(list)] == IF i = 0 THEN c ELSE Guarded(on[i - 1], list[i]) IN on
AllGuarded(c, list) == GuardedUpTo(c, list)[Len(list)]

UnguardedUpTo(c, list) ==
    LET off[i \in 0..Len(list)] == IF i = 0 THEN c ELSE Unguarded(off[i - 1], list[i]) IN off
AllUnguarded(c, list) == UnguardedUpTo(c, list)[Len(list)]

Now == [target |-> target, current |-> current]
TargetsBecome(c) == target' = c.target /\ current' = c.current

\* Painter::with: guards in the order of the arguments.
BindTargets(list) ==
    /\ Len(proxies) < MaxProxies
    /\ \A t \in ToSet(list) : target[t] # NoTarget
    /\ proxies' = Append(proxies, list)
    /\ TargetsBecome(AllGuarded(Now, list))
    /\ UNCHANGED <<counter, sdlUp, open, crossed, saved>>

\* SDL_SetRenderTarget fails: the guards before it are undone, the last one first.
\* The target that failed already remembers what it would have to put back.
BindFails(list) ==
    /\ Len(proxies) < MaxProxies
    /\ \A t \in ToSet(list) : target[t] # NoTarget
    /\ LET c == AllGuarded(Now, Front(list))
           w == c.target[Last(list)].window
       IN /\ c.target[Last(list)].bound = 0
          /\ TargetsBecome(AllUnguarded(
                              [c EXCEPT !.target[Last(list)].previous = c.current[w]],
                              Reverse(Front(list))))
    /\ UNCHANGED <<counter, sdlUp, open, proxies, crossed, saved>>

\* ~Proxy: guards end in the order of the arguments too.
EndProxy ==
    /\ proxies # <<>>
    /\ proxies' = Front(proxies)
    /\ TargetsBecome(AllUnguarded(Now, Last(proxies)))
    /\ crossed' = (crossed \/ Len(Last(proxies)) > 1)
    /\ UNCHANGED <<counter, sdlUp, open, saved>>

\* save(): bound for the time of the call if it was not, also when reading fails;
\* what is read is what the renderer draws into.
Save(t) ==
    /\ target[t] # NoTarget
    /\ LET w == target[t].window
           c == IF target[t].bound > 0 THEN Now ELSE Guarded(Now, t)
       IN /\ saved' = [wanted |-> t, found |-> c.current[w], bound |-> target[t].bound > 0]
          /\ TargetsBecome(IF target[t].bound > 0 THEN Now ELSE Unguarded(c, t))
    /\ UNCHANGED <<counter, sdlUp, open, proxies, crossed>>

WindowsNext ==
    \/ \E w \in Wins : CreateWindow(w) \/ DestroyWindow(w)
    \/ InitFails \/ CreateFails \/ RendererFails
    \/ \E t \in Targets, w \in Wins : NewTarget(t, w)
    \/ \E t \in Targets : DropTarget(t) \/ Save(t)
    \/ \E n \in 1..MaxArguments : \E list \in [1..n -> Targets] : BindTargets(list) \/ BindFails(list)
    \/ EndProxy

WindowsSpec == WindowsInit /\ [][WindowsNext]_windowVars
-----------------------------------------------------------------------------
(* Correctness *)

WindowsTypeOK ==
    /\ counter \in Nat /\ sdlUp \in BOOLEAN /\ crossed \in BOOLEAN
    /\ open \in [Wins -> {"no", "renderer", "bare"}]
    /\ current \in [Wins -> Targets \cup {NoTarget}]

\* SDL is there as long as a window is; and is quit with the last one, unless a
\* context failed half-way.
SDLIsUp ==
    /\ counter >= Cardinality(Open)
    /\ sdlUp <=> counter > 0

\* Where the targets of a window were bound, in the sequence of all guards alive:
\* the first guard of a target binds it.
IsFirst(guards, i) == \A j \in 1..(i - 1) : guards[j] # guards[i]
BoundAt(w) ==
    LET guards == FlattenSeq(proxies)
    IN {i \in DOMAIN guards : IsFirst(guards, i) /\ target[guards[i]].window = w}

\* A renderer draws into the target bound last, and into its window when none is;
\* saving a target, or failing to bind one, changes nothing of that.  As long as no
\* proxy of two targets has ended: those end in the wrong order.
DrawsGoToTheTarget ==
    ~ crossed =>
        \A w \in Wins :
            \/ BoundAt(w) = {} /\ current[w] = NoTarget
            \/ \E i \in BoundAt(w) :
                  current[w] = FlattenSeq(proxies)[i] /\ \A j \in BoundAt(w) : j <= i

\* A target that was bound before another saves the picture of that other; else a
\* target saves its own.
SavesAreTheirOwn == saved # NoTarget /\ ~ saved.bound => saved.found = saved.wanted

\* SDL lives as long as its windows, and drawing goes where the guards say
\* (sdl/window.cpp:88-104, 164-206, 302-484, Painter.hpp:182-221).
WindowsAreServed == WindowsTypeOK /\ SDLIsUp /\ DrawsGoToTheTarget /\ SavesAreTheirOwn
=============================================================================
