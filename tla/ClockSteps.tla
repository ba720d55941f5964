----------------------------- MODULE ClockSteps ------------------------------
(***************************************************************************)
(* The daemon under a system clock that may be set back.  The handlers ask *)
(* std::chrono::system_clock for the instant of a change (Daemon.cpp:397,  *)
(* 491,604), so later changes can have earlier instants.                   *)
(*                                                                         *)
(* What is left out: an alarm that changes at an instant that its history  *)
(* has already, to the nanosecond.  The path of the new status-change then *)
(* names the old one: newPath2() creates no node (Daemon.cpp:357), and     *)
(* from there on the behaviour of the code is undefined.                   *)
(***************************************************************************)
EXTENDS Daemon

CONSTANT MaxClockSteps   \* bound: how often the clock is set

VARIABLE clockSteps      \* how often it has been

SetClock ==
    /\ clockSteps < MaxClockSteps
    /\ clockSteps' = clockSteps + 1
    /\ clock' \in (0..MaxTime) \ {clock}
    /\ reply' = None
    /\ notification' = None
    /\ UNCHANGED <<control, cache, validator, datastore, oper>>

RepeatsInstant(key) ==
    /\ key \in DOMAIN m_alarms
    /\ \E i \in DOMAIN m_alarms[key].statusChanges : m_alarms[key].statusChanges[i].time = Now

NextWithNewInstant ==
    /\ Next
    /\ \A input \in Submissions, fails \in BOOLEAN :
           RepeatsInstant(input.key) => ~SubmitChanged(input, fails)
    /\ UNCHANGED clockSteps

SteppedSpec ==
    /\ Init /\ clockSteps = 0
    /\ [][NextWithNewInstant \/ SetClock]_<<vars, clockSteps>>
-----------------------------------------------------------------------------
(* What the histories tell whatever the clock does: the first item of a    *)
(* list is the change that made the row what it is, and last-raised is the *)
(* instant of the raise after the last clear, if the list still shows it,  *)
(* although neither need be the latest instant (Daemon.cpp:287-290,334).   *)
HistoryTellsState ==
    \A leaves \in PublishedLeaves :
        LET list == leaves.statusChange IN
        /\ list # <<>> => list[1] = Newest(leaves)
        /\ Clears(list) # {} => leaves.lastRaised = RaiseTime(list)

(* "This list is ordered according to the timestamps of alarm state        *)
(* changes. The first item corresponds to the latest state change."        *)
(* (updateStatusChangeList(), Daemon.cpp:334)                              *)
OrderedByTimestamps ==
    \A leaves \in PublishedLeaves : \A i, j \in DOMAIN leaves.statusChange :
        i < j => leaves.statusChange[i].time > leaves.statusChange[j].time
=============================================================================
