------------------------------- MODULE Clock_proofs -------------------------------
(***********************************************************************************)
(* Theorems about the clock for any set of observers and any number of starts and   *)
(* moves: what the four parts of the invariant say is what makes each property of    *)
(* Clock inductive.                                                                 *)
(***********************************************************************************)
EXTENDS Clock, SequenceTheorems, TLAPS

-----------------------------------------------------------------------------------
(* What the bounds rest on: a loop is only created where start() found one to be left,  *)
(* and no observer is in the vector that was not registered.                           *)
TypeInv ==
    /\ ClockTypeOK
    /\ Len(observers) <= moves
    /\ control.at = "spawn" => Len(loops) < MaxStarts

(* Which loops can live, by what the controlling thread is doing.                      *)
HandleInv ==
    \A l \in LoopId : Live(l) =>
        /\ control.at = "assign" => l \in {handle, Len(loops)}
        /\ control.at = "join" => l \in {handle, control.old}
        /\ control.at \notin {"assign", "join"} => l = handle

HandleBefore == control.at = "assign" => handle < Len(loops)

(* How a stop from a callback and the controlling thread keep out of each other's way.  *)
StopInv ==
    ~raced =>
        /\ Starting => running
        /\ CallbackStopping => ~running
        /\ ~running /\ control.at # "request" /\ ~CallbackStopping =>
              \A l \in LoopId : Live(l) => loops[l].asked

(* The phase a loop works with, while there is only one.                               *)
AltInv ==
    ~overlapped =>
        /\ \A l, m \in LoopId : Live(l) /\ Live(m) => l = m
        /\ \A l \in LoopId : loops[l].at = "store" => loops[l].phase = Flip(state)
        /\ \A l \in LoopId : loops[l].at = "notify" =>
               loops[l].phase = state /\ state = Flip(announced)
        /\ (\A l \in LoopId : loops[l].at # "notify") => state = announced

ClockInv == TypeInv /\ HandleInv /\ HandleBefore /\ StopInv /\ QuietAfterUnregister /\ AltInv

-----------------------------------------------------------------------------------
(* The sequence of loops is what its type says.                                        *)
LEMMA LoopsTyped ==
    ASSUME TypeInv
    PROVE  /\ loops \in Seq(LoopRecord)
           /\ Len(loops) \in Nat
           /\ \A l \in LoopId : loops[l] \in LoopRecord
BY ElementOfSeq, LenProperties DEF TypeInv, ClockTypeOK, LoopId

(* One loop goes on, the others stay where they are.                                   *)
LEMMA LoopGoes ==
    ASSUME TypeInv, NEW l \in LoopId, NEW r \in LoopRecord, Goes(l, r)
    PROVE  /\ loops' \in Seq(LoopRecord)
           /\ Len(loops') = Len(loops)
           /\ LoopId' = LoopId
           /\ loops'[l] = r
           /\ \A m \in LoopId \ {l} : loops'[m] = loops[m]
<1>1. loops \in Seq(LoopRecord)
    BY LoopsTyped
<1>2. /\ loops' \in Seq(LoopRecord)
      /\ Len(loops') = Len(loops)
      /\ \A m \in 1 .. Len(loops) : loops'[m] = IF m = l THEN r ELSE loops[m]
    BY <1>1, ExceptSeq DEF Goes, LoopId
<1> QED
    BY <1>2 DEF LoopId

(* A request leaves every loop where it is (request_stop).                             *)
LEMMA LoopAsked ==
    ASSUME TypeInv, NEW k
    PROVE  /\ Asked(k) \in Seq(LoopRecord)
           /\ Len(Asked(k)) = Len(loops)
           /\ \A m \in LoopId \ {k} : Asked(k)[m] = loops[m]
           /\ k \in LoopId => Asked(k)[k] = [loops[k] EXCEPT !.asked = TRUE]
           /\ \A m \in LoopId : /\ Asked(k)[m].at = loops[m].at
                                /\ Asked(k)[m].phase = loops[m].phase
                                /\ Asked(k)[m].index = loops[m].index
                                /\ Asked(k)[m].calling = loops[m].calling
                                /\ m = k \/ loops[m].asked => Asked(k)[m].asked
<1>1. /\ Len(loops) \in Nat
      /\ \A m \in LoopId : loops[m] \in LoopRecord
    BY LoopsTyped
<1>2. \A m \in LoopId : [loops[m] EXCEPT !.asked = TRUE] \in LoopRecord
    BY <1>1 DEF LoopRecord
<1>3. Asked(k) \in [1 .. Len(loops) -> LoopRecord]
    BY <1>1, <1>2 DEF Asked, LoopId
<1>4. Asked(k) \in Seq(LoopRecord) /\ Len(Asked(k)) = Len(loops)
    BY <1>1, <1>3, SeqDef, LenProperties
<1>5. /\ \A m \in LoopId \ {k} : Asked(k)[m] = loops[m]
      /\ k \in LoopId => Asked(k)[k] = [loops[k] EXCEPT !.asked = TRUE]
    BY DEF Asked
<1>6. ASSUME NEW m \in LoopId
      PROVE  /\ Asked(k)[m].at = loops[m].at
             /\ Asked(k)[m].phase = loops[m].phase
             /\ Asked(k)[m].index = loops[m].index
             /\ Asked(k)[m].calling = loops[m].calling
             /\ m = k \/ loops[m].asked => Asked(k)[m].asked
    <2>1. CASE m = k
        BY <1>1, <1>5, <2>1 DEF LoopRecord
    <2>2. CASE m # k
        <3>1. Asked(k)[m] = loops[m]
            BY <1>5, <2>2
        <3> QED
            BY <2>2, <3>1, Zenon
    <2> QED
        BY <2>1, <2>2
<1> QED
    BY <1>4, <1>5, <1>6

(* A new loop is appended; those there are stay where they are.                        *)
LEMMA LoopAppended ==
    ASSUME TypeInv, loops' = Append(loops, NewLoop)
    PROVE  /\ loops' \in Seq(LoopRecord)
           /\ Len(loops') = Len(loops) + 1
           /\ LoopId' = LoopId \cup {Len(loops) + 1}
           /\ Len(loops) + 1 \notin LoopId
           /\ \A m \in LoopId : loops'[m] = loops[m]
           /\ loops'[Len(loops) + 1] = NewLoop
<1>1. NewLoop \in LoopRecord
    BY DEF NewLoop, LoopRecord, Phase
<1>2. loops \in Seq(LoopRecord) /\ Len(loops) \in Nat
    BY LoopsTyped
<1>3. /\ loops' \in Seq(LoopRecord)
      /\ Len(loops') = Len(loops) + 1
      /\ \A m \in 1 .. Len(loops) : loops'[m] = loops[m]
      /\ loops'[Len(loops) + 1] = NewLoop
    BY <1>1, <1>2, AppendProperties
<1> QED
    BY <1>2, <1>3 DEF LoopId

-----------------------------------------------------------------------------------
(* Loop l makes a step of its own and nobody else moves.                               *)
OneMoves(l) ==
    /\ l \in LoopId /\ Live(l) /\ ControlUnchanged
    /\ loops' \in Seq(LoopRecord) /\ Len(loops') = Len(loops) /\ LoopId' = LoopId
    /\ loops'[l] \in LoopRecord /\ loops'[l].asked = loops[l].asked
    /\ \A m \in LoopId \ {l} : loops'[m] = loops[m]

(* A loop that only goes to another place keeps what it works with.                    *)
LEMMA PlaceMoves ==
    ASSUME TypeInv, NEW l \in LoopId, Live(l), ControlUnchanged,
           NEW p \in {"top", "load", "notify", "stopping", "sleep", "exited"},
           Goes(l, [loops[l] EXCEPT !.at = p])
    PROVE  /\ OneMoves(l)
           /\ loops'[l].at = p
           /\ loops'[l].phase = loops[l].phase
           /\ loops'[l].index = loops[l].index
           /\ loops'[l].calling = loops[l].calling
<1> DEFINE r == [loops[l] EXCEPT !.at = p]
<1>1. loops[l] \in LoopRecord
    BY LoopsTyped
<1>2. /\ r \in LoopRecord /\ r.at = p /\ r.phase = loops[l].phase
      /\ r.index = loops[l].index /\ r.calling = loops[l].calling
      /\ r.asked = loops[l].asked
    BY <1>1 DEF LoopRecord
<1> HIDE DEF r
<1>3. Goes(l, r)
    BY DEF r
<1> QED
    BY <1>2, <1>3, LoopGoes DEF OneMoves

(* What notifyObservers calls next is registered at the index it has come to.          *)
LEMMA CallsMoves ==
    ASSUME TypeInv, NEW l \in LoopId, Live(l), ControlUnchanged, NEW i \in Nat,
           Goes(l, Calls(loops[l], i))
    PROVE  /\ OneMoves(l)
           /\ loops'[l].at \in {"callback", "after"}
           /\ loops'[l].at = "callback" =>
                  /\ loops'[l].index \in DOMAIN observers
                  /\ loops'[l].calling = observers[loops'[l].index]
<1> DEFINE r == Calls(loops[l], i)
<1>1. loops[l] \in LoopRecord /\ observers \in Seq(Observer)
    BY LoopsTyped DEF TypeInv, ClockTypeOK
<1>2. /\ r \in LoopRecord /\ r.asked = loops[l].asked
      /\ r.at \in {"callback", "after"}
      /\ r.at = "callback" => r.index \in DOMAIN observers /\ r.calling = observers[r.index]
    <2>1. CASE i \in DOMAIN observers
        <3>1. r = [loops[l] EXCEPT !.at = "callback", !.index = i, !.calling = observers[i]]
            BY <2>1 DEF Calls
        <3>2. observers[i] \in Observer
            BY <1>1, <2>1, ElementOfSeq, LenProperties
        <3> QED
            BY <1>1, <2>1, <3>1, <3>2 DEF LoopRecord
    <2>2. CASE i \notin DOMAIN observers
        <3>1. r = [NewLoop EXCEPT !.at = "after", !.asked = loops[l].asked]
            BY <2>2 DEF Calls
        <3>2. NewLoop \in LoopRecord
            BY DEF NewLoop, LoopRecord, Phase
        <3> HIDE DEF r
        <3> QED
            BY <1>1, <3>1, <3>2 DEF LoopRecord
    <2> QED
        BY <2>1, <2>2
<1> HIDE DEF r
<1>3. Goes(l, r)
    BY DEF r
<1> QED
    BY <1>2, <1>3, LoopGoes DEF OneMoves

-----------------------------------------------------------------------------------
(* clockLoop, place by place.                                                          *)
LEMMA TestMoves ==
    ASSUME TypeInv, NEW l, Test(l)
    PROVE  /\ OneMoves(l)
           /\ loops[l].at \in {"top", "after"}
           /\ loops'[l].at \in {"load", "sleep", "exited"}
           /\ UNCHANGED <<running, state, announced, overlapped, raced>>
<1>1. /\ l \in LoopId /\ loops[l].at \in {"top", "after"} /\ Live(l) /\ ControlUnchanged
      /\ UNCHANGED <<running, state, announced, overlapped, raced>>
    BY DEF Test, At, Live
<1>2. PICK p \in {"load", "sleep", "exited"} : Goes(l, [loops[l] EXCEPT !.at = p])
    BY DEF Test
<1> QED
    BY <1>1, <1>2, PlaceMoves

(* The loop takes the phase it will announce.                                          *)
LEMMA LoadMoves ==
    ASSUME TypeInv, NEW l, Load(l)
    PROVE  /\ OneMoves(l)
           /\ loops[l].at = "load"
           /\ loops'[l].at = "store" /\ loops'[l].phase = Flip(state)
           /\ UNCHANGED <<running, state, announced, overlapped, raced>>
<1> DEFINE r == [loops[l] EXCEPT !.at = "store", !.phase = Flip(state)]
<1>1. /\ l \in LoopId /\ loops[l].at = "load" /\ Live(l) /\ ControlUnchanged
      /\ Goes(l, r) /\ UNCHANGED <<running, state, announced, overlapped, raced>>
    BY DEF Load, At, Live
<1>2. loops[l] \in LoopRecord
    BY <1>1, LoopsTyped
<1>3. Flip(state) \in Phase
    BY DEF Flip, Phase
<1>4. /\ r \in LoopRecord /\ r.at = "store" /\ r.phase = Flip(state)
      /\ r.asked = loops[l].asked
    BY <1>2, <1>3 DEF LoopRecord
<1> HIDE DEF r
<1> QED
    BY <1>1, <1>4, LoopGoes DEF OneMoves

(* It makes that phase the state.                                                      *)
LEMMA StoreMoves ==
    ASSUME TypeInv, NEW l, Store(l)
    PROVE  /\ OneMoves(l)
           /\ loops[l].at = "store"
           /\ loops'[l].at = "notify" /\ loops'[l].phase = loops[l].phase
           /\ state' = loops[l].phase /\ state' \in Phase
           /\ UNCHANGED <<running, announced, overlapped, raced>>
<1>1. /\ l \in LoopId /\ loops[l].at = "store" /\ Live(l) /\ ControlUnchanged
      /\ Goes(l, [loops[l] EXCEPT !.at = "notify"]) /\ state' = loops[l].phase
      /\ UNCHANGED <<running, announced, overlapped, raced>>
    BY DEF Store, At, Live
<1>2. loops[l] \in LoopRecord
    BY <1>1, LoopsTyped
<1>3. state' \in Phase
    BY <1>1, <1>2 DEF LoopRecord
<1> QED
    BY <1>1, <1>3, PlaceMoves

(* It announces the phase and calls the first observer.                                *)
LEMMA AnnounceMoves ==
    ASSUME TypeInv, NEW l, Announce(l)
    PROVE  /\ OneMoves(l)
           /\ loops[l].at = "notify"
           /\ loops'[l].at \in {"callback", "after"}
           /\ loops'[l].at = "callback" =>
                  /\ loops'[l].index \in DOMAIN observers
                  /\ loops'[l].calling = observers[loops'[l].index]
           /\ announced' = loops[l].phase /\ announced' \in Phase
           /\ overlapped' = (OthersLive(l) \/ loops[l].phase # state)
           /\ UNCHANGED <<running, state, raced>>
<1>1. /\ l \in LoopId /\ loops[l].at = "notify" /\ Live(l) /\ ControlUnchanged
      /\ Goes(l, Calls(loops[l], 1)) /\ announced' = loops[l].phase
      /\ overlapped' = (OthersLive(l) \/ loops[l].phase # state)
      /\ UNCHANGED <<running, state, raced>>
    BY Zenon DEF Announce, At, Live
<1>2. loops[l] \in LoopRecord
    BY <1>1, LoopsTyped
<1>3. announced' \in Phase
    BY <1>1, <1>2 DEF LoopRecord
<1>4. 1 \in Nat
    OBVIOUS
<1> QED
    BY <1>1, <1>3, <1>4, CallsMoves, Zenon

(* It calls the next one.                                                              *)
LEMMA ReturnMoves ==
    ASSUME TypeInv, NEW l, Return(l)
    PROVE  /\ OneMoves(l)
           /\ loops[l].at = "callback"
           /\ loops'[l].at \in {"callback", "after"}
           /\ loops'[l].at = "callback" =>
                  /\ loops'[l].index \in DOMAIN observers
                  /\ loops'[l].calling = observers[loops'[l].index]
           /\ UNCHANGED <<running, state, announced, overlapped, raced>>
<1>1. /\ l \in LoopId /\ loops[l].at = "callback" /\ Live(l) /\ ControlUnchanged
      /\ Goes(l, Calls(loops[l], loops[l].index + 1))
      /\ UNCHANGED <<running, state, announced, overlapped, raced>>
    BY DEF Return, At, Live
<1>2. loops[l] \in LoopRecord
    BY <1>1, LoopsTyped
<1>3. loops[l].index + 1 \in Nat
    BY <1>2 DEF LoopRecord
<1> QED
    BY <1>1, <1>3, CallsMoves

(* An observer stops the clock from inside its callback.                               *)
LEMMA CallbackStopMoves ==
    ASSUME TypeInv, NEW l, CallbackStop(l)
    PROVE  /\ OneMoves(l)
           /\ loops[l].at = "callback"
           /\ loops'[l].at = "stopping"
           /\ loops'[l].index = loops[l].index /\ loops'[l].calling = loops[l].calling
           /\ running /\ ~running' /\ running' \in BOOLEAN
           /\ raced' = (raced \/ Starting)
           /\ UNCHANGED <<state, announced, overlapped>>
<1>1. /\ l \in LoopId /\ loops[l].at = "callback" /\ Live(l) /\ ControlUnchanged
      /\ Goes(l, [loops[l] EXCEPT !.at = "stopping"])
      /\ running /\ ~running' /\ running' \in BOOLEAN
      /\ raced' = (raced \/ Starting)
      /\ UNCHANGED <<state, announced, overlapped>>
    BY Zenon DEF CallbackStop, At, Live
<1> QED
    BY <1>1, PlaceMoves, Zenon

(* The loop goes on after its sleep.                                                   *)
LEMMA SleepMoves ==
    ASSUME TypeInv, NEW l, Sleep(l)
    PROVE  /\ OneMoves(l)
           /\ loops[l].at = "sleep" /\ loops'[l].at = "top"
           /\ UNCHANGED <<running, state, announced, overlapped, raced>>
BY PlaceMoves DEF Sleep, At, Live

(* The callback's stop() asks the thread _clockThread stands for at that moment.        *)
LEMMA CallbackRequestMoves ==
    ASSUME TypeInv, NEW l, CallbackRequest(l)
    PROVE  /\ l \in LoopId /\ loops[l].at = "stopping" /\ ControlUnchanged
           /\ loops' \in Seq(LoopRecord) /\ Len(loops') = Len(loops) /\ LoopId' = LoopId
           /\ loops'[l].at = "callback"
           /\ \A m \in LoopId \ {l} : loops'[m].at = loops[m].at
           /\ \A m \in LoopId : /\ loops'[m].phase = loops[m].phase
                                /\ loops'[m].index = loops[m].index
                                /\ loops'[m].calling = loops[m].calling
                                /\ m = handle \/ loops[m].asked => loops'[m].asked
           /\ UNCHANGED <<running, state, announced, overlapped, raced>>
<1> DEFINE asked == Asked(handle)
           r == [asked[l] EXCEPT !.at = "callback"]
<1>1. /\ l \in LoopId /\ loops[l].at = "stopping" /\ ControlUnchanged
      /\ UNCHANGED <<running, state, announced, overlapped, raced>>
      /\ loops' = [asked EXCEPT ![l] = r]
    BY DEF CallbackRequest, At
<1>2. /\ asked \in Seq(LoopRecord) /\ Len(asked) = Len(loops)
      /\ \A m \in LoopId : /\ asked[m].at = loops[m].at
                           /\ asked[m].phase = loops[m].phase
                           /\ asked[m].index = loops[m].index
                           /\ asked[m].calling = loops[m].calling
                           /\ m = handle \/ loops[m].asked => asked[m].asked
    BY LoopAsked
<1> HIDE DEF asked
<1>3. asked[l] \in LoopRecord
    BY <1>1, <1>2, ElementOfSeq DEF LoopId
<1>4. /\ r \in LoopRecord /\ r.at = "callback" /\ r.phase = asked[l].phase
      /\ r.index = asked[l].index /\ r.calling = asked[l].calling
      /\ r.asked = asked[l].asked
    BY <1>3 DEF LoopRecord
<1> HIDE DEF r
<1>5. /\ loops' \in Seq(LoopRecord)
      /\ Len(loops') = Len(asked)
      /\ \A m \in 1 .. Len(asked) : loops'[m] = IF m = l THEN r ELSE asked[m]
    BY <1>1, <1>2, <1>4, ExceptSeq DEF LoopId
<1>6. LoopId' = LoopId /\ loops'[l] = r /\ \A m \in LoopId \ {l} : loops'[m] = asked[m]
    BY <1>1, <1>2, <1>5 DEF LoopId
<1>7. ASSUME NEW m \in LoopId
      PROVE  /\ loops'[m].phase = loops[m].phase
             /\ loops'[m].index = loops[m].index
             /\ loops'[m].calling = loops[m].calling
             /\ m = handle \/ loops[m].asked => loops'[m].asked
    <2>1. CASE m = l
        BY <1>2, <1>4, <1>6, <2>1, Zenon
    <2>2. CASE m # l
        BY <1>2, <1>6, <2>2, Zenon
    <2> QED
        BY <2>1, <2>2
<1>8. \A m \in LoopId \ {l} : loops'[m].at = loops[m].at
    BY <1>2, <1>6
<1> QED
    BY <1>1, <1>2, <1>4, <1>5, <1>6, <1>7, <1>8, Zenon

-----------------------------------------------------------------------------------
(* An observer that leaves the vector leaves one entry fewer (vector::erase).           *)
LEMMA ErasedTyped ==
    ASSUME TypeInv, NEW i \in DOMAIN observers
    PROVE  /\ Erased(observers, i) \in Seq(Observer)
           /\ Len(Erased(observers, i)) = Len(observers) - 1
<1>1. /\ observers \in Seq(Observer) /\ Len(observers) \in Nat
      /\ i \in 1 .. Len(observers)
      /\ \A j \in 1 .. Len(observers) : observers[j] \in Observer
    BY LenProperties, ElementOfSeq DEF TypeInv, ClockTypeOK
<1>2. /\ i - 1 \in Int /\ i + 1 \in Int /\ 1 \in Int /\ Len(observers) \in Int
      /\ \A j \in 1 .. i - 1 : observers[j] \in Observer
      /\ \A j \in i + 1 .. Len(observers) : observers[j] \in Observer
    BY <1>1
<1>3. /\ SubSeq(observers, 1, i - 1) \in Seq(Observer)
      /\ Len(SubSeq(observers, 1, i - 1)) = IF 1 <= i - 1 THEN (i - 1) - 1 + 1 ELSE 0
    BY <1>2, SubSeqProperties
<1>4. /\ SubSeq(observers, i + 1, Len(observers)) \in Seq(Observer)
      /\ Len(SubSeq(observers, i + 1, Len(observers))) =
            IF i + 1 <= Len(observers) THEN Len(observers) - (i + 1) + 1 ELSE 0
    BY <1>2, SubSeqProperties
<1> DEFINE s == SubSeq(observers, 1, i - 1)
           t == SubSeq(observers, i + 1, Len(observers))
<1>5. s \o t \in Seq(Observer) /\ Len(s \o t) = Len(s) + Len(t)
    BY <1>3, <1>4, ConcatProperties
<1>6. Len(s) = i - 1 /\ Len(t) = Len(observers) - i
    BY <1>1, <1>3, <1>4
<1> QED
    <2>1. Erased(observers, i) = s \o t
        BY DEF Erased
    <2>2. Len(s \o t) = Len(observers) - 1
        <3> HIDE DEF s, t
        <3> QED
            BY <1>1, <1>5, <1>6
    <2> HIDE DEF s, t
    <2> QED
        BY <1>5, <2>1, <2>2

(* Types survive a step of one loop.                                                   *)
LEMMA MoveKeepsTypes ==
    ASSUME TypeInv, NEW l, OneMoves(l), running' \in BOOLEAN, state' \in Phase,
           announced' \in Phase, overlapped' \in BOOLEAN, raced' \in BOOLEAN
    PROVE  TypeInv'
BY DEF OneMoves, TypeInv, ClockTypeOK, ControlUnchanged

(* Every action keeps the types.                                                       *)
LEMMA TypesKept ==
    ASSUME TypeInv, Next
    PROVE  TypeInv'
<1>0. /\ running \in BOOLEAN /\ state \in Phase /\ announced \in Phase
      /\ overlapped \in BOOLEAN /\ raced \in BOOLEAN
    BY DEF TypeInv, ClockTypeOK
<1>1. CASE Start
    BY <1>1 DEF Start, TypeInv, ClockTypeOK, Idle
<1>2. CASE Stop
    BY <1>2 DEF Stop, TypeInv, ClockTypeOK, Idle
<1>3. CASE Destroy
    BY <1>3, LoopAsked DEF Destroy, TypeInv, ClockTypeOK, Idle
<1>4. CASE Register
    <2>1. PICK o \in Observer : observers' = Append(observers, o)
        BY <1>4 DEF Register
    <2>2. observers' \in Seq(Observer) /\ Len(observers') = Len(observers) + 1
        BY <2>1, AppendProperties DEF TypeInv, ClockTypeOK
    <2> QED
        BY <1>4, <2>2, LenProperties, ClockAssumption
           DEF Register, Move, Idle, TypeInv, ClockTypeOK
<1>5. CASE Unregister
    <2>1. PICK i \in DOMAIN observers : observers' = Erased(observers, i)
        BY <1>5 DEF Unregister
    <2>2. observers' \in Seq(Observer) /\ Len(observers') = Len(observers) - 1
        BY <2>1, ErasedTyped
    <2> QED
        BY <1>5, <2>2, LenProperties, ClockAssumption
           DEF Unregister, Move, Idle, TypeInv, ClockTypeOK
<1>6. CASE Spawn
    <2>1. loops' \in Seq(LoopRecord) /\ Len(loops') = Len(loops) + 1
        BY <1>6, LoopAppended DEF Spawn
    <2>2. Len(loops) \in Nat /\ Len(loops) < MaxStarts
        BY <1>6, LoopsTyped DEF Spawn, TypeInv
    <2>3. overlapped' \in BOOLEAN
        BY <1>6 DEF Spawn
    <2>4. handle' \in 0 .. Len(loops') /\ Len(loops') <= MaxStarts
        BY <1>6, <2>1, <2>2, ClockAssumption DEF Spawn, TypeInv, ClockTypeOK
    <2>5. /\ control' \in [at : {"idle", "spawn", "assign", "join", "request", "destroy", "gone"},
                           old : 0 .. Len(loops')]
          /\ control'.at = "assign"
        BY <1>6, <2>1, <2>2 DEF Spawn, TypeInv, ClockTypeOK
    <2> QED
        BY <1>6, <2>1, <2>3, <2>4, <2>5 DEF Spawn, TypeInv, ClockTypeOK
<1>7. CASE Assign
    <2>1. loops' \in Seq(LoopRecord) /\ Len(loops') = Len(loops) /\ Len(loops) \in Nat
        BY <1>7, LoopAsked, LoopsTyped DEF Assign
    <2>2. handle' \in 0 .. Len(loops')
        BY <1>7, <2>1 DEF Assign
    <2>3. /\ control' \in [at : {"idle", "spawn", "assign", "join", "request", "destroy", "gone"},
                           old : 0 .. Len(loops')]
          /\ control'.at # "spawn"
        BY <1>7, <2>1 DEF Assign, TypeInv, ClockTypeOK
    <2> QED
        BY <1>7, <2>1, <2>2, <2>3 DEF Assign, TypeInv, ClockTypeOK
<1>8. CASE Join
    BY <1>8, LoopsTyped DEF Join, TypeInv, ClockTypeOK
<1>9. CASE Request
    BY <1>9, LoopAsked DEF Request, TypeInv, ClockTypeOK
<1>10. CASE Destroyed
    BY <1>10, LoopsTyped DEF Destroyed, TypeInv, ClockTypeOK
<1>11. ASSUME NEW l \in LoopId, Test(l) \/ Load(l) \/ Store(l) \/ Return(l) \/ Sleep(l)
       PROVE  TypeInv'
    BY <1>0, <1>11, TestMoves, LoadMoves, StoreMoves, ReturnMoves, SleepMoves, MoveKeepsTypes
<1>12. ASSUME NEW l \in LoopId, Announce(l)
       PROVE  TypeInv'
    <2>1. overlapped' \in BOOLEAN
        BY <1>12 DEF Announce
    <2> QED
        BY <1>0, <1>12, <2>1, AnnounceMoves, MoveKeepsTypes
<1>13. ASSUME NEW l \in LoopId, CallbackStop(l)
       PROVE  TypeInv'
    <2>1. raced' \in BOOLEAN
        BY <1>13 DEF CallbackStop
    <2> QED
        BY <1>0, <1>13, <2>1, CallbackStopMoves, MoveKeepsTypes
<1>14. ASSUME NEW l \in LoopId, CallbackRequest(l)
       PROVE  TypeInv'
    BY <1>14, CallbackRequestMoves DEF TypeInv, ClockTypeOK, ControlUnchanged
<1> QED
    BY <1>1, <1>2, <1>3, <1>4, <1>5, <1>6, <1>7, <1>8, <1>9, <1>10, <1>11, <1>12, <1>13,
       <1>14 DEF Next

-----------------------------------------------------------------------------------
(* What holds of the live loops holds of those that are left after a step of one.      *)
LEMMA MoveKeepsLive ==
    ASSUME NEW l, OneMoves(l)
    PROVE  /\ LoopId' = LoopId /\ Len(loops') = Len(loops)
           /\ UNCHANGED <<handle, control, observers>>
           /\ \A m \in LoopId : Live(m)' => Live(m)
BY DEF OneMoves, Live, ControlUnchanged

(* A request changes no place.                                                         *)
LEMMA RequestKeepsPlaces ==
    ASSUME TypeInv, NEW k, loops' = Asked(k)
    PROVE  /\ LoopId' = LoopId /\ Len(loops') = Len(loops)
           /\ \A m \in LoopId : /\ loops'[m].at = loops[m].at
                                /\ Live(m)' <=> Live(m)
                                /\ Holding(m)' <=> Holding(m)
BY LoopAsked DEF LoopId, Live, Holding

(* The loops that live are those the handle and a join stand for. start() appends one,  *)
(* assigns it to the handle and waits for the one the handle stood for.                *)
LEMMA HandleKept ==
    ASSUME TypeInv, HandleInv, HandleBefore, Next
    PROVE  HandleInv' /\ HandleBefore'
<1>0. /\ handle \in 0 .. Len(loops) /\ Len(loops) \in Nat
    BY LoopsTyped DEF TypeInv, ClockTypeOK
<1>c. control = [at |-> control.at, old |-> control.old]
    BY DEF TypeInv, ClockTypeOK
<1>1. CASE Start
    BY <1>1, <1>c DEF Start, Idle, HandleInv, HandleBefore, Live, LoopId
<1>2. CASE Stop
    BY <1>2, <1>c DEF Stop, Idle, HandleInv, HandleBefore, Live, LoopId
<1>3. CASE Destroy
    BY <1>3, RequestKeepsPlaces DEF Destroy, Idle, HandleInv, HandleBefore
<1>4. CASE Register \/ Unregister
    BY <1>4 DEF Register, Unregister, Move, Idle, HandleInv, HandleBefore, Live, LoopId
<1>5. CASE Spawn
    <2>1. /\ LoopId' = LoopId \cup {Len(loops')} /\ Len(loops') = Len(loops) + 1
          /\ \A m \in LoopId : Live(m)' <=> Live(m)
        BY <1>5, LoopAppended DEF Spawn, Live
    <2>2. control'.at = "assign" /\ handle' = handle /\ control.at = "spawn"
        BY <1>5, <1>c DEF Spawn
    <2>3. HandleBefore'
        BY <1>0, <2>1, <2>2 DEF HandleBefore
    <2>4. HandleInv'
        BY <2>1, <2>2 DEF HandleInv
    <2> QED
        BY <2>3, <2>4
<1>6. CASE Assign
    <2>1. /\ LoopId' = LoopId /\ Len(loops') = Len(loops)
          /\ \A m \in LoopId : Live(m)' <=> Live(m)
        BY <1>6, RequestKeepsPlaces DEF Assign
    <2>2. control.at = "assign" /\ handle' = Len(loops)
        BY <1>6 DEF Assign
    <2>3. \A m \in LoopId : Live(m)' => m \in {handle, Len(loops)}
        BY <2>1, <2>2 DEF HandleInv
    <2>4. CASE handle = 0
        <3>1. control'.at = "idle"
            BY <1>6, <1>c, <2>4 DEF Assign
        <3>2. \A m \in LoopId : m # 0
            BY <1>0 DEF LoopId
        <3>3. \A m \in LoopId : Live(m)' => m = handle'
            BY <2>2, <2>3, <2>4, <3>2
        <3> QED
            BY <2>1, <3>1, <3>3 DEF HandleInv, HandleBefore
    <2>5. CASE handle # 0
        <3>1. control' = [at |-> "join", old |-> handle]
            BY <1>6, <2>5 DEF Assign
        <3> QED
            BY <2>1, <2>2, <2>3, <3>1 DEF HandleInv, HandleBefore
    <2> QED
        BY <2>4, <2>5
<1>7. CASE Join
    BY <1>7 DEF Join, HandleInv, HandleBefore, Live, LoopId
<1>8. CASE Request
    BY <1>8, <1>c, RequestKeepsPlaces DEF Request, HandleInv, HandleBefore
<1>9. CASE Destroyed
    BY <1>9 DEF Destroyed, HandleInv, HandleBefore, Live, LoopId
<1>10. ASSUME NEW l \in LoopId, OneMoves(l)
       PROVE  HandleInv' /\ HandleBefore'
    BY <1>10, MoveKeepsLive DEF HandleInv, HandleBefore
<1>11. ASSUME NEW l \in LoopId, CallbackRequest(l)
       PROVE  HandleInv' /\ HandleBefore'
    <2>1. /\ LoopId' = LoopId /\ Len(loops') = Len(loops) /\ UNCHANGED <<handle, control>>
          /\ \A m \in LoopId : Live(m)' => Live(m)
        BY <1>11, CallbackRequestMoves DEF ControlUnchanged, Live
    <2> QED
        BY <2>1 DEF HandleInv, HandleBefore
<1> QED
    BY <1>1, <1>2, <1>3, <1>4, <1>5, <1>6, <1>7, <1>8, <1>9, <1>10, <1>11,
       TestMoves, LoadMoves, StoreMoves, AnnounceMoves, ReturnMoves, CallbackStopMoves,
       SleepMoves DEF Next

-----------------------------------------------------------------------------------
(* While a loop holds the lock the vector under its iteration stays as it is.          *)
LEMMA QuietKept ==
    ASSUME TypeInv, QuietAfterUnregister, Next
    PROVE  QuietAfterUnregister'
<1>1. CASE Start \/ Stop \/ Join \/ Destroyed
    BY <1>1 DEF Start, Stop, Join, Destroyed, QuietAfterUnregister, Holding, LoopId
<1>2. CASE Destroy \/ Assign \/ Request
    <2>1. UNCHANGED observers /\ loops' = Asked(handle)
        BY <1>2 DEF Destroy, Assign, Request
    <2>2. LoopId' = LoopId /\ \A m \in LoopId : Holding(m)' <=> Holding(m)
        BY <2>1, RequestKeepsPlaces
    <2>3. \A m \in LoopId : /\ loops'[m].index = loops[m].index
                           /\ loops'[m].calling = loops[m].calling
        BY <2>1, LoopAsked
    <2> QED
        BY <2>1, <2>2, <2>3 DEF QuietAfterUnregister
<1>3. CASE Register \/ Unregister
    BY <1>3 DEF Register, Unregister, QuietAfterUnregister, Holding, LoopId
<1>4. CASE Spawn
    <2>1. /\ LoopId' = LoopId \cup {Len(loops) + 1}
          /\ \A m \in LoopId : loops'[m] = loops[m]
          /\ loops'[Len(loops) + 1] = NewLoop /\ UNCHANGED observers
        BY <1>4, LoopAppended DEF Spawn
    <2>2. NewLoop.at = "top"
        BY DEF NewLoop
    <2> QED
        BY <2>1, <2>2 DEF QuietAfterUnregister, Holding
<1>5. ASSUME NEW l \in LoopId, OneMoves(l),
             Holding(l)' => /\ loops'[l].index \in DOMAIN observers
                            /\ loops'[l].calling = observers[loops'[l].index]
      PROVE  QuietAfterUnregister'
    BY <1>5 DEF OneMoves, ControlUnchanged, QuietAfterUnregister, Holding
<1>6. ASSUME NEW l \in LoopId, Test(l) \/ Load(l) \/ Store(l) \/ Sleep(l)
      PROVE  QuietAfterUnregister'
    BY <1>5, <1>6, TestMoves, LoadMoves, StoreMoves, SleepMoves DEF Holding
<1>7. ASSUME NEW l \in LoopId, Announce(l) \/ Return(l)
      PROVE  QuietAfterUnregister'
    BY <1>5, <1>7, AnnounceMoves, ReturnMoves DEF Holding
<1>8. ASSUME NEW l \in LoopId, CallbackStop(l)
      PROVE  QuietAfterUnregister'
    BY <1>5, <1>8, CallbackStopMoves DEF Holding, QuietAfterUnregister
<1>9. ASSUME NEW l \in LoopId, CallbackRequest(l)
      PROVE  QuietAfterUnregister'
    BY <1>9, CallbackRequestMoves DEF ControlUnchanged, QuietAfterUnregister, Holding
<1> QED
    BY <1>1, <1>2, <1>3, <1>4, <1>6, <1>7, <1>8, <1>9 DEF Next

-----------------------------------------------------------------------------------
(* The stop of a callback and the controlling thread. A request of either reaches the   *)
(* only live loop; that an observer does not stop the clock while it is started is     *)
(* what raced records.                                                                 *)
LEMMA StopKept ==
    ASSUME TypeInv, HandleInv, StopInv, Next
    PROVE  StopInv'
<1>0. /\ control = [at |-> control.at, old |-> control.old]
      /\ raced \in BOOLEAN /\ running \in BOOLEAN
    BY DEF TypeInv, ClockTypeOK
<1>1. CASE Start
    <2>1. running' /\ LoopId' = LoopId /\ UNCHANGED loops /\ Starting' = (Starting \/ ~running)
        BY <1>0, <1>1 DEF Start, Idle, Starting, LoopId
    <2>2. CallbackStopping' <=> CallbackStopping
        BY <2>1 DEF CallbackStopping
    <2>3. ~raced' => ~raced /\ ~CallbackStopping
        BY <1>1 DEF Start, StopInv
    <2> QED
        BY <2>1, <2>2, <2>3 DEF StopInv
<1>2. CASE Stop
    BY <1>0, <1>2 DEF Stop, Idle, Starting, CallbackStopping, LoopId, Live, StopInv
<1>3. CASE Destroy \/ Request \/ Assign
    <2>1. /\ loops' = Asked(handle) /\ UNCHANGED <<running, raced>>
          /\ Starting' => Starting
        BY <1>0, <1>3 DEF Destroy, Request, Assign, Idle, Starting
    <2>2. /\ LoopId' = LoopId
          /\ \A m \in LoopId : loops'[m].at = loops[m].at /\ (Live(m)' <=> Live(m))
          /\ \A m \in LoopId : m = handle \/ loops[m].asked => loops'[m].asked
        BY <2>1, RequestKeepsPlaces, LoopAsked
    <2>3. CallbackStopping' <=> CallbackStopping
        BY <2>2 DEF CallbackStopping
    <2>4. ~Starting => \A m \in LoopId : Live(m)' => loops'[m].asked
        BY <2>2 DEF HandleInv, Starting
    <2>5. CASE Starting
        BY <2>1, <2>3, <2>5 DEF StopInv
    <2>6. CASE ~Starting
        BY <2>1, <2>2, <2>3, <2>4, <2>6 DEF StopInv
    <2> QED
        BY <2>5, <2>6
<1>4. CASE Register \/ Unregister
    BY <1>4 DEF Register, Unregister, Move, Idle, StopInv, Starting, CallbackStopping, Live, LoopId
<1>5. CASE Spawn
    <2>1. /\ LoopId' = LoopId \cup {Len(loops) + 1}
          /\ \A m \in LoopId : loops'[m] = loops[m]
          /\ loops'[Len(loops) + 1] = NewLoop
          /\ UNCHANGED <<running, raced>> /\ Starting
        BY <1>5, LoopAppended DEF Spawn, Starting
    <2>2. NewLoop.at = "top"
        BY DEF NewLoop
    <2>3. CallbackStopping' => CallbackStopping
        BY <2>1, <2>2 DEF CallbackStopping
    <2> QED
        BY <2>1, <2>3 DEF StopInv
<1>6. CASE Join \/ Destroyed
    BY <1>6 DEF Join, Destroyed, StopInv, Starting, CallbackStopping, Live, LoopId
<1>7. ASSUME NEW l \in LoopId, OneMoves(l), UNCHANGED <<running, raced>>,
             loops'[l].at = "stopping" => loops[l].at = "stopping",
             loops[l].at # "stopping"
      PROVE  StopInv'
    <2>1. /\ LoopId' = LoopId /\ (Starting' <=> Starting) /\ UNCHANGED control
          /\ \A m \in LoopId : Live(m)' => Live(m)
          /\ \A m \in LoopId : loops'[m].asked = loops[m].asked
        BY <1>7 DEF OneMoves, Live, ControlUnchanged, Starting
    <2>2. CallbackStopping' <=> CallbackStopping
        BY <1>7 DEF OneMoves, CallbackStopping
    <2> QED
        BY <1>7, <2>1, <2>2 DEF StopInv
<1>8. ASSUME NEW l \in LoopId,
             Test(l) \/ Load(l) \/ Store(l) \/ Announce(l) \/ Return(l) \/ Sleep(l)
      PROVE  StopInv'
    BY <1>7, <1>8, TestMoves, LoadMoves, StoreMoves, AnnounceMoves, ReturnMoves, SleepMoves
<1>9. ASSUME NEW l \in LoopId, CallbackStop(l)
      PROVE  StopInv'
    <2>1. ~running' /\ raced' = (raced \/ Starting) /\ UNCHANGED control /\ CallbackStopping'
        BY <1>9, CallbackStopMoves DEF OneMoves, ControlUnchanged, CallbackStopping
    <2>2. Starting' <=> Starting
        BY <2>1 DEF Starting
    <2> QED
        BY <2>1, <2>2 DEF StopInv
<1>10. ASSUME NEW l \in LoopId, CallbackRequest(l)
       PROVE  StopInv'
    <2>1. /\ LoopId' = LoopId /\ UNCHANGED <<running, raced, control>>
          /\ \A m \in LoopId : Live(m)' => Live(m)
          /\ \A m \in LoopId : m = handle => loops'[m].asked
          /\ CallbackStopping /\ (CallbackStopping' => CallbackStopping)
        BY <1>10, CallbackRequestMoves DEF ControlUnchanged, Live, CallbackStopping
    <2>2. Starting' <=> Starting
        BY <2>1 DEF Starting
    <2>3. ~raced => ~Starting /\ ~running
        BY <2>1 DEF StopInv
    <2>4. ~Starting => \A m \in LoopId : Live(m)' => loops'[m].asked
        BY <2>1 DEF HandleInv, Starting
    <2> QED
        BY <2>1, <2>2, <2>3, <2>4 DEF StopInv
<1> QED
    BY <1>1, <1>2, <1>3, <1>4, <1>5, <1>6, <1>8, <1>9, <1>10 DEF Next

-----------------------------------------------------------------------------------
(* A step that moves no loop's place and no phase disturbs nothing.                    *)
LEMMA AltUndisturbed ==
    ASSUME AltInv, LoopId' = LoopId, UNCHANGED <<state, announced, overlapped>>,
           \A m \in LoopId : loops'[m].at = loops[m].at /\ loops'[m].phase = loops[m].phase
    PROVE  AltInv'
BY DEF AltInv, Live

(* Nor does one that takes a loop neither to nor from the places that matter.          *)
LEMMA AltAside ==
    ASSUME AltInv, NEW l, OneMoves(l), UNCHANGED <<state, announced, overlapped>>,
           loops[l].at # "notify", loops'[l].at \notin {"store", "notify"}
    PROVE  AltInv'
BY DEF AltInv, Live, OneMoves

(* A loop that is alone loads the phase that comes next, stores it and announces it.    *)
LEMMA AltKept ==
    ASSUME TypeInv, AltInv, Next
    PROVE  AltInv'
<1>0. state \in Phase /\ announced \in Phase /\ overlapped \in BOOLEAN
    BY DEF TypeInv, ClockTypeOK
<1>1. CASE Start \/ Stop \/ Join \/ Destroyed \/ Register \/ Unregister
    BY <1>1, AltUndisturbed DEF Start, Stop, Join, Destroyed, Register, Unregister, LoopId
<1>2. CASE Destroy \/ Request \/ Assign
    <2>1. loops' = Asked(handle) /\ UNCHANGED <<state, announced, overlapped>>
        BY <1>2 DEF Destroy, Request, Assign
    <2>2. /\ LoopId' = LoopId
          /\ \A m \in LoopId : loops'[m].at = loops[m].at /\ loops'[m].phase = loops[m].phase
        BY <2>1, RequestKeepsPlaces, LoopAsked
    <2> QED
        BY <2>1, <2>2, AltUndisturbed
<1>3. CASE Spawn
    <2>1. /\ LoopId' = LoopId \cup {Len(loops) + 1}
          /\ \A m \in LoopId : loops'[m] = loops[m]
          /\ loops'[Len(loops) + 1] = NewLoop
          /\ UNCHANGED <<state, announced>>
        BY <1>3, LoopAppended DEF Spawn
    <2>2. ~overlapped' => ~overlapped /\ \A m \in LoopId : ~Live(m)
        BY <1>3 DEF Spawn
    <2>3. NewLoop.at = "top"
        BY DEF NewLoop
    <2> QED
        BY <2>1, <2>2, <2>3 DEF AltInv, Live
<1>4. ASSUME NEW l \in LoopId, Test(l) \/ Return(l) \/ CallbackStop(l) \/ Sleep(l)
      PROVE  AltInv'
    BY <1>4, TestMoves, ReturnMoves, CallbackStopMoves, SleepMoves, AltAside
<1>5. ASSUME NEW l \in LoopId, Load(l)
      PROVE  AltInv'
    BY <1>5, LoadMoves DEF OneMoves, AltInv, Live
<1>6. ASSUME NEW l \in LoopId, Store(l)
      PROVE  AltInv'
    <2>1. /\ OneMoves(l) /\ loops[l].at = "store" /\ loops'[l].at = "notify"
          /\ loops'[l].phase = loops[l].phase /\ state' = loops[l].phase
          /\ UNCHANGED <<announced, overlapped>>
        BY <1>6, StoreMoves
    <2>2. SUFFICES ASSUME ~overlapped
                   PROVE  AltInv'
        BY <2>1 DEF AltInv
    <2>3. \A m \in LoopId \ {l} : ~Live(m)
        BY <2>1, <2>2 DEF AltInv, Live
    <2>4. state = announced /\ loops[l].phase = Flip(state)
        BY <2>1, <2>2, <2>3 DEF AltInv, Live
    <2>5. state' = Flip(announced')
        BY <2>1, <2>4
    <2> QED
        BY <2>1, <2>3, <2>5 DEF OneMoves, AltInv, Live
<1>7. ASSUME NEW l \in LoopId, Announce(l)
      PROVE  AltInv'
    <2>1. /\ OneMoves(l) /\ loops'[l].at \in {"callback", "after"}
          /\ announced' = loops[l].phase /\ UNCHANGED state
          /\ overlapped' = (OthersLive(l) \/ loops[l].phase # state)
        BY <1>7, AnnounceMoves
    <2>2. SUFFICES ASSUME ~overlapped'
                   PROVE  AltInv'
        BY DEF AltInv
    <2>3. state' = announced' /\ \A m \in LoopId \ {l} : ~Live(m)
        BY <2>1, <2>2 DEF OthersLive
    <2> QED
        BY <2>1, <2>3 DEF OneMoves, AltInv, Live
<1>8. ASSUME NEW l \in LoopId, CallbackRequest(l)
      PROVE  AltInv'
    <2>1. /\ LoopId' = LoopId /\ UNCHANGED <<state, announced, overlapped>>
          /\ loops[l].at = "stopping" /\ loops'[l].at = "callback"
          /\ \A m \in LoopId \ {l} : loops'[m].at = loops[m].at
          /\ \A m \in LoopId : loops'[m].phase = loops[m].phase
        BY <1>8, CallbackRequestMoves
    <2> QED
        BY <2>1 DEF AltInv, Live
<1> QED
    BY <1>1, <1>2, <1>3, <1>4, <1>5, <1>6, <1>7, <1>8 DEF Next

-----------------------------------------------------------------------------------
(* The invariant holds at first: there is no loop yet.                                 *)
LEMMA ClockInvAtFirst ==
    ASSUME Init
    PROVE  ClockInv
<1>1. LoopId = {} /\ Len(loops) = 0 /\ loops \in Seq(LoopRecord)
    BY DEF Init, LoopId
<1>2. observers \in Seq(Observer) /\ Len(observers) = 0
    BY DEF Init
<1>3. TypeInv
    <2>1. running \in BOOLEAN /\ overlapped \in BOOLEAN /\ raced \in BOOLEAN
        BY DEF Init
    <2>2. state \in Phase /\ announced \in Phase
        BY DEF Init, Phase, StateAtFirst
    <2>3. /\ control \in [at : {"idle", "spawn", "assign", "join", "request", "destroy", "gone"},
                          old : 0 .. Len(loops)]
          /\ control.at # "spawn" /\ handle \in 0 .. Len(loops)
        BY <1>1 DEF Init
    <2>4. moves \in 0 .. MaxMoves /\ Len(observers) <= MaxMoves /\ Len(observers) <= moves
        BY <1>2, ClockAssumption DEF Init
    <2>5. Len(loops) <= MaxStarts
        BY <1>1, ClockAssumption
    <2> QED
        BY <1>1, <1>2, <2>1, <2>2, <2>3, <2>4, <2>5, Zenon DEF TypeInv, ClockTypeOK
<1>4. HandleInv /\ HandleBefore /\ QuietAfterUnregister
    BY <1>1 DEF Init, HandleInv, HandleBefore, QuietAfterUnregister
<1>5. StopInv /\ AltInv
    BY <1>1 DEF Init, StopInv, Starting, CallbackStopping, AltInv, StateAtFirst
<1> QED
    BY <1>3, <1>4, <1>5 DEF ClockInv

(* Every step keeps it.                                                                *)
LEMMA ClockInvKept ==
    ASSUME ClockInv, [Next]_clockVars
    PROVE  ClockInv'
<1>1. CASE UNCHANGED clockVars
    BY <1>1 DEF clockVars, ClockInv, TypeInv, ClockTypeOK, HandleInv, HandleBefore, StopInv,
                QuietAfterUnregister, AltInv, LoopId, Live, Holding, Starting,
                CallbackStopping
<1>2. CASE Next
    BY <1>2, TypesKept, HandleKept, StopKept, QuietKept, AltKept DEF ClockInv
<1> QED
    BY <1>1, <1>2

(* Every reachable state satisfies the invariant.                                      *)
THEOREM ClockInvariant == Spec => []ClockInv
BY ClockInvAtFirst, ClockInvKept, PTL DEF Spec

(* The types of the clock, for any number of observers, starts and moves.              *)
THEOREM ClockTypes == Spec => []ClockTypeOK
<1>1. ClockInv => ClockTypeOK
    BY DEF ClockInv, TypeInv
<1> QED
    BY <1>1, ClockInvariant, PTL

(* An observer that has been unregistered is not being called, nor does the vector      *)
(* change under notifyObservers, however the threads interleave.                       *)
THEOREM UnregisteredIsQuiet == Spec => []QuietAfterUnregister
<1>1. ClockInv => QuietAfterUnregister
    BY DEF ClockInv
<1> QED
    BY <1>1, ClockInvariant, PTL

(* Outside of start() at most one loop lives, however often the clock is restarted.     *)
THEOREM AtMostOneLoop == Spec => []OneLoop
<1>1. ClockInv => OneLoop
    BY DEF ClockInv, HandleInv, OneLoop, Starting
<1> QED
    BY <1>1, ClockInvariant, PTL

(* A stop() that has returned has told every loop, unless raced.                       *)
THEOREM StopIsHeard == Spec => []StopReaches
<1>1. ClockInv => StopReaches
    BY DEF ClockInv, StopInv, StopReaches, Idle
<1> QED
    BY <1>1, ClockInvariant, PTL

(* The observers are told LOW and HIGH in turn, over any number of stops and starts,    *)
(* unless a restart overlapped the old loop.                                           *)
THEOREM PhasesAlternate == Spec => Alternates
<1>1. ASSUME ClockInv, NEW l \in LoopId, Announce(l), ~overlapped
      PROVE  announced' # announced
    <2>1. /\ loops[l].at = "notify" /\ announced' = loops[l].phase
        BY <1>1, AnnounceMoves DEF ClockInv
    <2>2. announced' = Flip(announced)
        BY <1>1, <2>1 DEF ClockInv, AltInv
    <2>3. announced \in Phase
        BY <1>1 DEF ClockInv, TypeInv, ClockTypeOK
    <2> QED
        BY <2>2, <2>3 DEF Flip, Phase
<1>2. ClockInv /\ [Next]_clockVars =>
          [\A l \in LoopId : Announce(l) /\ ~overlapped => announced' # announced]_clockVars
    BY <1>1
<1> QED
    BY <1>2, ClockInvariant, PTL DEF Spec, Alternates
==================================================================================
