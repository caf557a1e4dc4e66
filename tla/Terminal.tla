--------------------------------- MODULE Terminal ---------------------------------
(***********************************************************************************)
(* What the user of a terminal with an echo sees: keys are hit, and characters that *)
(* have been hit appear, in that order. The machine is slow, so one may be skipped  *)
(* for a later one; it may also be printed again, which shows in no variable here.  *)
(* None appears that has not been hit, and none after a later one, with one         *)
(* exception: a terminal that has announced a character where there was none may    *)
(* show whatever it found in its place, before it shows anything else.              *)
(*                                                                                  *)
(* Characters are their numbers in the order they are hit, from 1.                  *)
(***********************************************************************************)
EXTENDS Integers

VARIABLES
    hit,        \* how many keys have been hit
    stray,      \* a character has been announced where there was none
    printed     \* the last character printed: -1 before the first, 0 for a stray one

terminalVars == <<hit, stray, printed>>

Init ==
    /\ hit = 0
    /\ stray \in BOOLEAN
    /\ printed = -1

Hit ==
    /\ hit' = hit + 1
    /\ UNCHANGED <<stray, printed>>

Announce ==
    /\ stray' = TRUE
    /\ UNCHANGED <<hit, printed>>

Appear ==
    /\ \E n \in 1 .. hit : n > printed /\ printed' = n
    /\ UNCHANGED <<hit, stray>>

AppearStray ==
    /\ stray
    /\ printed = -1
    /\ printed' = 0
    /\ UNCHANGED <<hit, stray>>

Next == Hit \/ Announce \/ Appear \/ AppearStray

Spec == Init /\ [][Next]_terminalVars
===================================================================================
