--------------------------------- MODULE W65C51N ---------------------------------
(***********************************************************************************)
(* The receiver of devices/W65C51N: a thread blocked in getchar() and the thread    *)
(* that runs main's loop share _status and _receiveData without a lock.             *)
(*                                                                                  *)
(* Every access to one of the two members is a step of its own; _status |= bit is a *)
(* load and a store. A build may keep a value it has just loaded instead of loading *)
(* it again: those outcomes are among the interleavings of the separate steps. Nor  *)
(* does the code order an access to one member and an access to the other: inside a *)
(* run of readRegister, and inside a round of the receiver's loop, either may take  *)
(* effect first. AsWritten is the order the code has them in.                       *)
(*                                                                                  *)
(* Of _status only the two bits of the receiver are told apart from the rest. The   *)
(* characters are their numbers in the order they are typed: what a character is    *)
(* plays no part. Number 0 is the byte the data register powers up with, which      *)
(* nobody typed. The transmit, command and control registers are latches of the     *)
(* CPU's thread alone and are left out.                                             *)
(***********************************************************************************)
EXTENDS Integers

CONSTANTS
    MaxTyped,       \* bound: how many characters are typed
    PowerUpStatus   \* what the uninitialised _status may hold

RDRF == "RDRF"      \* 1 << 3, Receiver Data Register Full
OVRN == "OVRN"      \* 1 << 2, overrun
Flags == {RDRF, OVRN}

Leftover == 0       \* the number of the byte in the uninitialised _receiveData
None == -1          \* no character, not even that one

ASSUME MaxTypedAssumption == MaxTyped \in Nat
ASSUME PowerUpStatusAssumption == PowerUpStatus \subseteq SUBSET Flags

VARIABLES
    status,         \* _status, as the set of its receiver bits
    receiveData,    \* _receiveData: the number of a character
    typed,          \* characters the user has typed
    closed,         \* standard input is at its end
    received,       \* characters getchar() has returned
    rx,             \* the receiver thread: where it is, the status it loaded, and
                    \* whether its character is still to be stored
    stop,           \* request_stop() has been called: the ACIA is being destroyed
    host,           \* the CPU's thread: where it is in readRegister(DATA), the status
                    \* it loaded, and whether it has loaded the character
    taken,          \* history: the last character the program has read or discarded
    overwrote,      \* history: the receiver's last character replaced an unread one
    flagged,        \* history: and it stored a status with the overrun bit
    slipped,        \* history: the character stored last was stored too late to be
                    \* seen, behind the full bit or behind the load it is meant for
    stray           \* history: the full bit has been set with only Leftover behind it

aciaVars == <<status, receiveData, typed, closed, received, rx, stop, host, taken,
          overwrote, flagged, slipped, stray>>

Number == 0 .. MaxTyped

ACIATypeOK ==
    /\ status \in SUBSET Flags
    /\ receiveData \in Number
    /\ typed \in Number
    /\ closed \in BOOLEAN
    /\ received \in Number
    /\ rx \in [at : {"loop", "getchar", "test", "overrun", "overrun_store", "full", "full_store",
                     "exited"},
               seen : SUBSET Flags, unstored : BOOLEAN]
    /\ stop \in BOOLEAN
    /\ host \in [at : {"idle", "polled", "clear", "cleared"},
                 seen : SUBSET Flags, unread : BOOLEAN]
    /\ taken \in Number \cup {None}
    /\ overwrote \in BOOLEAN
    /\ flagged \in BOOLEAN
    /\ slipped \in BOOLEAN
    /\ stray \in BOOLEAN

(* The constructor starts the thread and leaves the registers as it finds them.        *)
ACIAInit ==
    /\ status \in PowerUpStatus
    /\ receiveData = Leftover
    /\ typed = 0
    /\ closed = FALSE
    /\ received = 0
    /\ rx = [at |-> "loop", seen |-> {}, unstored |-> FALSE]
    /\ stop = FALSE
    /\ host = [at |-> "idle", seen |-> {}, unread |-> FALSE]
    /\ taken = None
    /\ overwrote = FALSE
    /\ flagged = FALSE
    /\ slipped = FALSE
    /\ stray \in BOOLEAN /\ (stray <=> RDRF \in status)

-----------------------------------------------------------------------------------
(* The terminal.                                                                       *)
Type ==
    /\ ~closed
    /\ typed < MaxTyped
    /\ typed' = typed + 1
    /\ UNCHANGED <<status, receiveData, closed, received, rx, stop, host, taken,
                   overwrote, flagged, slipped, stray>>

Close ==
    /\ ~closed
    /\ closed' = TRUE
    /\ UNCHANGED <<status, receiveData, typed, received, rx, stop, host, taken,
                   overwrote, flagged, slipped, stray>>

-----------------------------------------------------------------------------------
(* A slip the runs must notice: the loop does not look at the stop token.              *)
TestNothing ==
    /\ rx.at = "loop"
    /\ rx' = [rx EXCEPT !.at = "getchar"]
    /\ UNCHANGED <<status, receiveData, typed, closed, received, stop, host, taken,
                   overwrote, flagged, slipped, stray>>

(* The receiver thread: while (!st.stop_requested()). No access is put off any longer.  *)
TestStop ==
    /\ rx.at = "loop"
    /\ ~rx.unstored
    /\ rx' = [rx EXCEPT !.at = IF stop THEN "exited" ELSE "getchar"]
    /\ UNCHANGED <<status, receiveData, typed, closed, received, stop, host, taken,
                   overwrote, flagged, slipped, stray>>

(* getchar() blocks until a character is there.                                        *)
(* A slip the runs must notice: a getchar() that does not wait.                        *)
GetCharAtOnce ==
    /\ rx.at = "getchar"
    /\ received' = received + 1
    /\ rx' = [rx EXCEPT !.at = "test", !.unstored = TRUE]
    /\ overwrote' = FALSE
    /\ flagged' = FALSE
    /\ UNCHANGED <<status, receiveData, typed, closed, stop, host, taken, slipped, stray>>

GetChar ==
    /\ rx.at = "getchar"
    /\ received < typed
    /\ received' = received + 1
    /\ rx' = [rx EXCEPT !.at = "test", !.unstored = TRUE]
    /\ overwrote' = FALSE
    /\ flagged' = FALSE
    /\ UNCHANGED <<status, receiveData, typed, closed, stop, host, taken, slipped, stray>>

(* At the end of the input getchar() returns EOF at once, and continue leads back to   *)
(* it, over and over.                                                                  *)
GetEOF ==
    /\ rx.at = "getchar"
    /\ closed
    /\ received = typed
    /\ rx' = [rx EXCEPT !.at = "loop"]
    /\ UNCHANGED <<status, receiveData, typed, closed, received, stop, host, taken,
                   overwrote, flagged, slipped, stray>>

(* _receiveData = c. The character slips by the program if it comes when the program    *)
(* has loaded the one before and is yet to clear the bit; or when the bit that stands  *)
(* for it has been set and cleared already, and no load is under way.                   *)
TooLate ==
    \/ host.at = "clear" /\ ~host.unread
    \/ rx.at = "loop" /\ RDRF \notin status /\ ~host.unread

StoreCharacter ==
    /\ rx.unstored
    /\ receiveData' = received
    /\ overwrote' = (Leftover < receiveData /\ taken < receiveData)
    /\ slipped' = TooLate
    /\ rx' = [rx EXCEPT !.unstored = FALSE]
    /\ UNCHANGED <<status, typed, closed, received, stop, host, taken, flagged, stray>>

(* The receiver's accesses to _status, at the place at.                                *)
StatusAccess(at) ==
    /\ rx.at = at
    /\ UNCHANGED <<receiveData, typed, closed, received, stop, host, taken, overwrote, slipped>>

TestFull ==
    /\ StatusAccess("test")
    /\ rx' = [rx EXCEPT !.at = IF RDRF \in status THEN "overrun" ELSE "full"]
    /\ UNCHANGED <<status, flagged, stray>>

LoadStatus ==
    /\ \/ StatusAccess("overrun") /\ rx' = [rx EXCEPT !.at = "overrun_store", !.seen = status]
       \/ StatusAccess("full") /\ rx' = [rx EXCEPT !.at = "full_store", !.seen = status]
    /\ UNCHANGED <<status, flagged, stray>>

(* A slip the runs must notice: the full bit is set in an else branch only, for it is   *)
(* set already if the overrun bit is.                                                  *)
SetOverrunElse ==
    /\ StatusAccess("overrun_store")
    /\ status' = rx.seen \cup {OVRN}
    /\ flagged' = TRUE
    /\ rx' = [rx EXCEPT !.at = "loop"]
    /\ UNCHANGED stray

SetOverrun ==
    /\ StatusAccess("overrun_store")
    /\ status' = rx.seen \cup {OVRN}
    /\ flagged' = TRUE
    /\ rx' = [rx EXCEPT !.at = "full"]
    /\ UNCHANGED stray

(* _status |= 1 << 3, the end of the loop's body.                                      *)
SetFull ==
    /\ StatusAccess("full_store")
    /\ status' = rx.seen \cup {RDRF}
    /\ stray' = (stray \/ receiveData = Leftover)
    /\ flagged' = (flagged \/ OVRN \in rx.seen)
    /\ rx' = [rx EXCEPT !.at = "loop", !.seen = {}]

Receiver == TestStop \/ GetChar \/ GetEOF \/ StoreCharacter \/ TestFull \/ LoadStatus
              \/ SetOverrun \/ SetFull

-----------------------------------------------------------------------------------
(* The CPU's thread. A read of the STATUS register that finds a character is what a    *)
(* program acts on; one that finds none, and what other bits it finds, leaves no trace. *)
PollStatus ==
    /\ ~stop
    /\ host.at = "idle"
    /\ RDRF \in status
    /\ host' = [host EXCEPT !.at = "polled"]
    /\ UNCHANGED <<status, receiveData, typed, closed, received, rx, stop, taken,
                   overwrote, flagged, slipped, stray>>

(* readRegister(DATA): _status = _status & mask, then return _receiveData.             *)
ReadDataAfter(places) ==
    /\ ~stop
    /\ host.at \in places
    /\ host' = [at |-> "clear", seen |-> status, unread |-> TRUE]
    /\ UNCHANGED <<status, receiveData, typed, closed, received, rx, stop, taken,
                   overwrote, flagged, slipped, stray>>

ReadData == ReadDataAfter({"idle", "polled"})

ClearStatus ==
    /\ host.at = "clear"
    /\ status' = host.seen \ {RDRF, OVRN}
    /\ host' = [host EXCEPT !.at = "cleared"]
    /\ UNCHANGED <<receiveData, typed, closed, received, rx, stop, taken,
                   overwrote, flagged, slipped, stray>>

TakeCharacter ==
    /\ host.unread
    /\ host.at \in {"clear", "cleared"}
    /\ taken' = receiveData
    /\ host' = [host EXCEPT !.unread = FALSE]
    /\ UNCHANGED <<status, receiveData, typed, closed, received, rx, stop,
                   overwrote, flagged, slipped, stray>>

ReturnData ==
    /\ host.at = "cleared"
    /\ ~host.unread
    /\ host' = [host EXCEPT !.at = "idle", !.seen = {}]
    /\ UNCHANGED <<status, receiveData, typed, closed, received, rx, stop, taken,
                   overwrote, flagged, slipped, stray>>

(* A write to the STATUS register stores the byte. A program that clears the full bit  *)
(* this way discards the character.                                                    *)
WriteStatus ==
    /\ ~stop
    /\ host.at \in {"idle", "polled"}
    /\ \E new \in SUBSET Flags :
          /\ status' = new
          /\ taken' = IF RDRF \in new THEN taken ELSE receiveData
          /\ stray' = (stray \/ (RDRF \in new /\ receiveData = Leftover))
    /\ host' = [host EXCEPT !.at = "idle"]
    /\ UNCHANGED <<receiveData, typed, closed, received, rx, stop, overwrote, flagged, slipped>>

(* ~W65C51N: the jthread's destructor requests the stop and then waits for the thread. *)
Destroy ==
    /\ ~stop
    /\ host.at \in {"idle", "polled"}
    /\ stop' = TRUE
    /\ UNCHANGED <<status, receiveData, typed, closed, received, rx, host, taken,
                   overwrote, flagged, slipped, stray>>

FinishRead == ClearStatus \/ TakeCharacter \/ ReturnData

ACIANext ==
    \/ Type \/ Close
    \/ TestStop \/ GetChar \/ GetEOF \/ StoreCharacter \/ TestFull \/ LoadStatus \/ SetOverrun \/ SetFull
    \/ PollStatus \/ ReadData \/ ClearStatus \/ TakeCharacter \/ ReturnData
    \/ WriteStatus \/ Destroy

(* Both threads are scheduled; nobody has to type.                                     *)
ACIASpec == ACIAInit /\ [][ACIANext]_aciaVars /\ WF_aciaVars(Receiver) /\ WF_aciaVars(FinishRead)

(* The program of wozmon.s: it polls STATUS until the full bit is set, and only then   *)
(* reads DATA.                                                                         *)
Monitor == PollStatus \/ ReadDataAfter({"polled"}) \/ FinishRead

MonitorNext == Type \/ Close \/ Receiver \/ Monitor \/ Destroy

MonitorSpec == ACIAInit /\ [][MonitorNext]_aciaVars /\ WF_aciaVars(Receiver) /\ WF_aciaVars(Monitor)

(* The same, with the accesses of the receiver, or of both threads, taking effect in    *)
(* the order they are written.                                                         *)
ReceiverAsWritten == rx.unstored => rx.at = "test"

AsWritten == ReceiverAsWritten /\ (host.at = "clear" => host.unread)

HalfWrittenSpec == ACIAInit /\ [][MonitorNext /\ ReceiverAsWritten']_aciaVars

WrittenSpec == ACIAInit /\ [][MonitorNext /\ AsWritten']_aciaVars

-----------------------------------------------------------------------------------
Quiet == /\ rx.at \in {"loop", "getchar", "exited"} /\ ~rx.unstored
         /\ host.at \in {"idle", "polled"}

(* The program has read the last character that came in, or there was none.            *)
CaughtUp == taken = received \/ received = 0

(* No character is forgotten, unless it slipped by: with both threads at rest and the   *)
(* full bit clear, the last character that came in has been read. The                   *)
(* read-modify-writes of the two threads overwrite one another's bits; what saves the  *)
(* character is that the receiver stores it before it is done setting the bit, and the *)
(* program clears the bit before it loads it, or with no new character in between.     *)
NothingForgotten == Quiet /\ RDRF \notin status /\ ~slipped => CaughtUp

(* What wozmon.s takes the full bit to say ("Key ready?"): clear, there is no key      *)
(* waiting, so that no character is forgotten at all. It fails even with a receiver     *)
(* that goes in order: nothing keeps the program's load of _receiveData behind its     *)
(* store to _status.                                                                   *)
KeyReady == Quiet /\ RDRF \notin status => CaughtUp

(* The destructor returns once a key is hit or the input ends. Until then join() waits *)
(* for a thread that sits in getchar().                                                *)
DestructorReturns == stop /\ (closed \/ typed > received) ~> rx.at = "exited"

(* When a character replaces one the program has not read, the receiver has set the    *)
(* overrun bit by the end of the loop's body.                                          *)
LossIsFlagged == rx.at = "loop" /\ ~rx.unstored /\ overwrote => flagged
==================================================================================
