---------------------------------- MODULE Clock ----------------------------------
(***********************************************************************************)
(* core/clock.h: a clock that runs a loop in a thread of its own, calls the         *)
(* registered observers with each new phase, and can be stopped and started again.  *)
(* main.cpp does without it and calls the CPU's handler itself.                     *)
(*                                                                                  *)
(* One thread controls the clock: it starts, stops and destroys it and moves the    *)
(* observers. The loops are numbered in the order they are started. A callback      *)
(* returns, and may stop the clock, but does not call it otherwise: moving an       *)
(* observer there would wait for the lock the loop itself holds, and start() would  *)
(* join the thread it runs in.                                                      *)
(*                                                                                  *)
(* Assigning a jthread (libstdc++) swaps the new thread in and then asks the old    *)
(* one to stop and joins it, while the new one runs already. The exclusive lock is  *)
(* held for one change of the vector, which is one step here; waiting for it is     *)
(* waiting for that step. Time is left out: sleep_until takes a while or none. The   *)
(* condition variable that stop() notifies has nobody waiting on it.                *)
(***********************************************************************************)
EXTENDS Naturals, Sequences

CONSTANTS
    Observer,       \* the observers
    MaxStarts,      \* bound: how often a loop is started
    MaxMoves        \* bound: how often an observer is registered or unregistered

ASSUME ClockAssumption == MaxStarts \in Nat /\ MaxMoves \in Nat

VARIABLES
    running,        \* _running
    state,          \* _state
    observers,      \* _observers; the same one may be in it more than once
    handle,         \* the loop _clockThread stands for, 0 for none
    loops,          \* the loops started: where each is, the phase it works with, the
                    \* index and the observer it calls, and whether its stop token
                    \* has been asked to stop
    control,        \* the controlling thread: where it is, and the loop it joins
    moves,          \* how often an observer has been moved
    announced,      \* history: the phase of the last notifyObservers
    overlapped,     \* history: a loop was started beside another that lived, and no loop
                    \* has since announced, alone, the phase that is the state
    raced           \* history: a callback's stop() and a start() ran at the same time

clockVars == <<running, state, observers, handle, loops, control, moves, announced,
               overlapped, raced>>

Phase == {"LOW", "HIGH"}
Flip(phase) == IF phase = "LOW" THEN "HIGH" ELSE "LOW"

LoopId == 1 .. Len(loops)
NoObserver == "none"

LoopRecord ==
    [at : {"top", "load", "store", "notify", "callback", "stopping", "after", "sleep", "exited"},
     phase : Phase, index : Nat, calling : Observer \cup {NoObserver}, asked : BOOLEAN]

ClockTypeOK ==
    /\ running \in BOOLEAN
    /\ state \in Phase
    /\ observers \in Seq(Observer) /\ Len(observers) <= MaxMoves
    /\ loops \in Seq(LoopRecord) /\ Len(loops) <= MaxStarts
    /\ handle \in 0 .. Len(loops)
    /\ control \in [at : {"idle", "spawn", "assign", "join", "request", "destroy", "gone"},
                    old : 0 .. Len(loops)]
    /\ moves \in 0 .. MaxMoves
    /\ announced \in Phase
    /\ overlapped \in BOOLEAN
    /\ raced \in BOOLEAN

(* A slip the runs must notice: _state has no initial value.                           *)
StateUnset == state \in Phase \cup {"neither"}

StateAtFirst == state = "LOW"

Init ==
    /\ running = FALSE
    /\ StateAtFirst
    /\ observers = <<>>
    /\ handle = 0
    /\ loops = <<>>
    /\ control = [at |-> "idle", old |-> 0]
    /\ moves = 0
    /\ announced = "LOW"
    /\ overlapped = FALSE
    /\ raced = FALSE

Live(l)    == loops[l].at # "exited"
OthersLive(l) == \E m \in LoopId \ {l} : Live(m)

(* Where a loop holds the observer lock, shared. *)
Holding(l) == loops[l].at \in {"callback", "stopping"}

Idle       == control.at = "idle"
Starting   == control.at \in {"spawn", "assign", "join"}
CallbackStopping == \E l \in LoopId : loops[l].at = "stopping"

(* request_stop() of the thread l; there is nothing to ask where there is none. *)
Asked(l) == [m \in LoopId |-> IF m = l THEN [loops[m] EXCEPT !.asked = TRUE] ELSE loops[m]]

-----------------------------------------------------------------------------------
(* start(): the exchange, and only if the clock was not running the new thread and the *)
(* assignment.                                                                         *)
Start ==
    /\ Idle
    /\ Len(loops) < MaxStarts
    /\ running' = TRUE
    /\ control' = IF running THEN control ELSE [control EXCEPT !.at = "spawn"]
    /\ raced' = (raced \/ (~running /\ CallbackStopping))
    /\ UNCHANGED <<state, observers, handle, loops, moves, announced, overlapped>>

NewLoop == [at |-> "top", phase |-> "LOW", index |-> 1, calling |-> NoObserver, asked |-> FALSE]

(* A slip the runs must notice: a new loop begins with the phase LOW again.            *)
SpawnFromLow ==
    /\ control.at = "spawn"
    /\ loops' = Append(loops, NewLoop)
    /\ state' = "LOW"
    /\ overlapped' = (overlapped \/ \E l \in LoopId : Live(l))
    /\ control' = [control EXCEPT !.at = "assign"]
    /\ UNCHANGED <<running, observers, handle, moves, announced, raced>>

Spawn ==
    /\ control.at = "spawn"
    /\ loops' = Append(loops, NewLoop)
    /\ overlapped' = (overlapped \/ \E l \in LoopId : Live(l))
    /\ control' = [control EXCEPT !.at = "assign"]
    /\ UNCHANGED <<running, state, observers, handle, moves, announced, raced>>

(* Slips the runs must notice: the old thread is let go and not waited for, the handle  *)
(* keeps standing for the old one, and the new one is asked to stop.                   *)
AssignDetaches ==
    /\ control.at = "assign"
    /\ handle' = Len(loops)
    /\ loops' = Asked(handle)
    /\ control' = [at |-> "idle", old |-> 0]
    /\ UNCHANGED <<running, state, observers, moves, announced, overlapped, raced>>

AssignForgets ==
    /\ control.at = "assign"
    /\ control' = [at |-> "idle", old |-> 0]
    /\ UNCHANGED <<running, state, observers, handle, loops, moves, announced, overlapped, raced>>

AssignAsksNew ==
    /\ control.at = "assign"
    /\ handle' = Len(loops)
    /\ loops' = Asked(Len(loops))
    /\ control' = IF handle = 0 THEN [control EXCEPT !.at = "idle"]
                  ELSE [at |-> "join", old |-> handle]
    /\ UNCHANGED <<running, state, observers, moves, announced, overlapped, raced>>

Assign ==
    /\ control.at = "assign"
    /\ handle' = Len(loops)
    /\ loops' = Asked(handle)
    /\ control' = IF handle = 0 THEN [control EXCEPT !.at = "idle"]
                  ELSE [at |-> "join", old |-> handle]
    /\ UNCHANGED <<running, state, observers, moves, announced, overlapped, raced>>

Join ==
    /\ control.at = "join"
    /\ ~Live(control.old)
    /\ control' = [at |-> "idle", old |-> 0]
    /\ UNCHANGED <<running, state, observers, handle, loops, moves, announced, overlapped, raced>>

(* stop(): the exchange, and only if the clock was running the request.                *)
Stop ==
    /\ Idle
    /\ running' = FALSE
    /\ control' = IF running THEN [control EXCEPT !.at = "request"] ELSE control
    /\ UNCHANGED <<state, observers, handle, loops, moves, announced, overlapped, raced>>

Request ==
    /\ control.at = "request"
    /\ loops' = Asked(handle)
    /\ control' = [control EXCEPT !.at = "idle"]
    /\ UNCHANGED <<running, state, observers, handle, moves, announced, overlapped, raced>>

(* ~Clock: the thread's destructor requests the stop and joins.                        *)
Destroy ==
    /\ Idle
    /\ loops' = Asked(handle)
    /\ control' = [at |-> "destroy", old |-> handle]
    /\ UNCHANGED <<running, state, observers, handle, moves, announced, overlapped, raced>>

Destroyed ==
    /\ control.at = "destroy"
    /\ handle # 0 => ~Live(handle)
    /\ control' = [at |-> "gone", old |-> 0]
    /\ UNCHANGED <<running, state, observers, handle, loops, moves, announced, overlapped, raced>>

-----------------------------------------------------------------------------------
(* registerObserver and unregisterObserver, under the exclusive lock. Of an observer   *)
(* that is registered twice only the first entry is erased.                            *)
Move == Idle /\ moves < MaxMoves /\ moves' = moves + 1

Register ==
    /\ Move
    /\ \A l \in LoopId : ~Holding(l)
    /\ \E o \in Observer : observers' = Append(observers, o)
    /\ UNCHANGED <<running, state, handle, loops, control, announced, overlapped, raced>>

Erased(s, i) == SubSeq(s, 1, i - 1) \o SubSeq(s, i + 1, Len(s))

(* The first entry of an observer, which is the one std::ranges::find returns. *)
First(i) == i \in DOMAIN observers /\ \A j \in 1 .. i - 1 : observers[j] # observers[i]

(* A slip the runs must notice: the lock is not taken.                                 *)
UnregisterUnlocked ==
    /\ Move
    /\ \E i \in DOMAIN observers : First(i) /\ observers' = Erased(observers, i)
    /\ UNCHANGED <<running, state, handle, loops, control, announced, overlapped, raced>>

Unregister ==
    /\ Move
    /\ \A l \in LoopId : ~Holding(l)
    /\ \E i \in DOMAIN observers : First(i) /\ observers' = Erased(observers, i)
    /\ UNCHANGED <<running, state, handle, loops, control, announced, overlapped, raced>>

-----------------------------------------------------------------------------------
(* clockLoop, in thread l.                                                             *)
At(l, place) == l \in LoopId /\ loops[l].at = place

Goes(l, r) == loops' = [loops EXCEPT ![l] = r]

ControlUnchanged == UNCHANGED <<observers, handle, control, moves>>

(* A slip the runs must notice: the loop does not look at its token.                   *)
TestNothing(l) ==
    /\ \/ At(l, "top") /\ Goes(l, [loops[l] EXCEPT !.at = "load"])
       \/ At(l, "after") /\ Goes(l, [loops[l] EXCEPT !.at = "sleep"])
    /\ ControlUnchanged
    /\ UNCHANGED <<running, state, announced, overlapped, raced>>

(* stop_token.stop_requested(), at the head of the loop and before the sleep.          *)
Test(l) ==
    /\ \/ /\ At(l, "top")
          /\ Goes(l, [loops[l] EXCEPT !.at = IF loops[l].asked THEN "exited" ELSE "load"])
       \/ /\ At(l, "after")
          /\ Goes(l, [loops[l] EXCEPT !.at = IF loops[l].asked THEN "exited" ELSE "sleep"])
    /\ ControlUnchanged
    /\ UNCHANGED <<running, state, announced, overlapped, raced>>

Load(l) ==
    /\ At(l, "load")
    /\ Goes(l, [loops[l] EXCEPT !.at = "store", !.phase = Flip(state)])
    /\ ControlUnchanged
    /\ UNCHANGED <<running, state, announced, overlapped, raced>>

Store(l) ==
    /\ At(l, "store")
    /\ state' = loops[l].phase
    /\ Goes(l, [loops[l] EXCEPT !.at = "notify"])
    /\ ControlUnchanged
    /\ UNCHANGED <<running, announced, overlapped, raced>>

(* notifyObservers takes the lock and calls the observers in turn. *)
Calls(r, i) ==
    IF i \in DOMAIN observers
    THEN [r EXCEPT !.at = "callback", !.index = i, !.calling = observers[i]]
    ELSE [NewLoop EXCEPT !.at = "after", !.asked = r.asked]

Announce(l) ==
    /\ At(l, "notify")
    /\ announced' = loops[l].phase
    /\ overlapped' = (OthersLive(l) \/ loops[l].phase # state)
    /\ Goes(l, Calls(loops[l], 1))
    /\ ControlUnchanged
    /\ UNCHANGED <<running, state, raced>>

(* onClockStateChange returns. *)
Return(l) ==
    /\ At(l, "callback")
    /\ Goes(l, Calls(loops[l], loops[l].index + 1))
    /\ ControlUnchanged
    /\ UNCHANGED <<running, state, announced, overlapped, raced>>

(* onClockStateChange calls stop(): the exchange, and the request if it has to make it. *)
CallbackStop(l) ==
    /\ At(l, "callback")
    /\ running
    /\ running' = FALSE
    /\ raced' = (raced \/ Starting)
    /\ Goes(l, [loops[l] EXCEPT !.at = "stopping"])
    /\ ControlUnchanged
    /\ UNCHANGED <<state, announced, overlapped>>

CallbackRequest(l) ==
    /\ At(l, "stopping")
    /\ loops' = [Asked(handle) EXCEPT ![l].at = "callback"]
    /\ ControlUnchanged
    /\ UNCHANGED <<running, state, announced, overlapped, raced>>

Sleep(l) ==
    /\ At(l, "sleep")
    /\ Goes(l, [loops[l] EXCEPT !.at = "top"])
    /\ ControlUnchanged
    /\ UNCHANGED <<running, state, announced, overlapped, raced>>

Loop(l) == Test(l) \/ Load(l) \/ Store(l) \/ Announce(l) \/ Return(l) \/ CallbackRequest(l) \/ Sleep(l)

-----------------------------------------------------------------------------------
(* What the controlling thread has begun it goes on with.                              *)
Continue == Spawn \/ Assign \/ Join \/ Request \/ Destroyed

Next ==
    \/ Start \/ Stop \/ Destroy \/ Register \/ Unregister
    \/ Spawn \/ Assign \/ Join \/ Request \/ Destroyed
    \/ \E l \in LoopId : Test(l) \/ Load(l) \/ Store(l) \/ Announce(l) \/ Return(l)
                           \/ CallbackStop(l) \/ CallbackRequest(l) \/ Sleep(l)

(* Every thread is scheduled, and every sleep ends.                                    *)
Spec ==
    /\ Init
    /\ [][Next]_clockVars
    /\ WF_clockVars(Continue)
    /\ \A l \in 1 .. MaxStarts : WF_clockVars(Loop(l))

-----------------------------------------------------------------------------------
(* The loops call the observers as they are registered at that moment: nothing moves    *)
(* under the iteration, and an observer that is no longer in the vector is not being   *)
(* called, which is what the destructor of an observer has to rely on.                 *)
QuietAfterUnregister ==
    \A l \in LoopId :
        Holding(l) => /\ loops[l].index \in DOMAIN observers
                      /\ loops[l].calling = observers[loops[l].index]

(* However often the clock is stopped and started, two loops only ever live while       *)
(* start() waits for the older one; outside of it no observer is called by two threads. *)
OneLoop == \A l, m \in LoopId : Live(l) /\ Live(m) /\ l # m => Starting

(* Once stop() has returned every loop has been told, unless an observer stopped the    *)
(* clock just while it was being started: that request may go to the thread before.    *)
StopReaches ==
    Idle /\ ~running /\ ~raced /\ ~CallbackStopping => \A l \in LoopId : Live(l) => loops[l].asked

(* Phases alternate, over any number of stops and starts, except around a restart that  *)
(* did not wait for the old loop: there the two loops toggle one state between them,    *)
(* and an observer may see a phase twice.                                              *)
Alternates ==
    [][\A l \in LoopId : Announce(l) /\ ~overlapped => announced' # announced]_clockVars

(* A clock that is left running keeps announcing both phases.                          *)
Ticks ==
    <>[](running /\ ~raced /\ control.at \notin {"destroy", "gone"})
        => []<>(announced = "LOW") /\ []<>(announced = "HIGH")

(* A loop that is told to stop exits, so that start() and the destructor return.       *)
StopHonoured == \A l \in 1 .. MaxStarts : (l \in LoopId /\ loops[l].asked) ~> (l \in LoopId /\ ~Live(l))
==================================================================================
