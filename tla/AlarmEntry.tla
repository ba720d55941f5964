----------------------------- MODULE AlarmEntry -----------------------------
(***************************************************************************)
(* The daemon's record of one alarm and how a submitted update changes it  *)
(* (src/src/alarms/AlarmEntry.h; AlarmEntry::updateByRpc and               *)
(* AlarmEntry::shrinkStatusChanges in src/src/alarms/Daemon.cpp).          *)
(*                                                                         *)
(* Instants are natural numbers: only their order matters to the daemon.   *)
(***************************************************************************)
EXTENDS Integers, Sequences, ShelfMatch

CONSTANTS Text           \* alarm texts, the empty one included
CONSTANT EmptyText       \* the text of a default-constructed entry

ASSUME TextAssumption == EmptyText \in Text

ASSUME NoneAssumption == None \notin Int

Time == Nat

(* Severities[]: 0 is a dummy, 1 is "cleared", 2..6 are indeterminate,     *)
(* warning, minor, major and critical.                                     *)
ClearedSeverity == 1
Severities == 2..6

NotifyStatusChanges == {"All", "RaiseAndClear", "BySeverity"}

StatusChange == [time : Time, perceivedSeverity : Severities, text : Text]

AlarmEntryType ==
    [created : Time, lastRaised : Time, lastChanged : Time, text : Text,
     shelf : ShelfName \cup {None}, lastSeverity : Severities,
     isCleared : BOOLEAN, statusChanges : Seq(StatusChange)]

(* What try_emplace() puts into the map before updateByRpc() runs.         *)
DefaultEntry ==
    [created |-> 0, lastRaised |-> 0, lastChanged |-> 0, text |-> EmptyText,
     shelf |-> None, lastSeverity |-> 0, isCleared |-> FALSE,
     statusChanges |-> <<>>]

(* AlarmEntry::shrinkStatusChanges(): the oldest changes go first.  How    *)
(* many are over the limit, what is left, and the instants of the others.  *)
toErase(statusChanges, max) ==
    IF max # None /\ Len(statusChanges) > max THEN Len(statusChanges) - max ELSE 0

Shrunk(statusChanges, max) ==
    SubSeq(statusChanges, toErase(statusChanges, max) + 1, Len(statusChanges))

(* Faulty variants: the last of the instants is forgotten; those that stay *)
(* are reported.                                                           *)
DiscardedOneShort(statusChanges, max) ==
    {statusChanges[i].time : i \in 1..(toErase(statusChanges, max) - 1)}

DiscardedFromEnd(statusChanges, max) ==
    {statusChanges[i].time : i \in (toErase(statusChanges, max) + 1)..Len(statusChanges)}

Discarded(statusChanges, max) ==
    {statusChanges[i].time : i \in 1..toErase(statusChanges, max)}

(* A raise of a new alarm or a re-raise of a cleared one: the update that  *)
(* last-raised stands for.  Faulty variants: every update that is no       *)
(* clear; every one that raises or clears.                                 *)
IsAnyRaise(entry, wasPresent, isClearedNow) == ~isClearedNow

RaisesOrClears(entry, wasPresent, isClearedNow) ==
    ~wasPresent \/ entry.isCleared # isClearedNow

IsRaise(entry, wasPresent, isClearedNow) ==
    ~isClearedNow /\ (~wasPresent \/ entry.isCleared)

(* The BySeverity rule looks at both ends of a change.  Faulty variant:    *)
(* only at the new severity.                                               *)
IsSevereNow(severity, lastSeverity, threshold) == severity >= threshold

TouchesThreshold(severity, lastSeverity, threshold) ==
    severity >= threshold \/ lastSeverity >= threshold

(* A clear keeps the last severity.  Faulty variant: it does not.          *)
SeverityOfUpdate(severity, lastSeverity) == severity

StoredSeverity(severity, lastSeverity) ==
    IF severity > ClearedSeverity THEN severity ELSE lastSeverity

(* AlarmEntry::updateByRpc(): the entry afterwards and its WhatChanged.    *)
(* An alarm that was not present has lastSeverity -1, which differs from   *)
(* every submitted severity and is below every threshold.                  *)
updateByRpc(entry, wasPresent, now, input, shelf, notify, threshold, max) ==
    LET severity     == input.severity
        isClearedNow == severity = ClearedSeverity
        lastSeverity == IF wasPresent THEN entry.lastSeverity ELSE -1
        changed      == \/ wasPresent /\ entry.isCleared # isClearedNow
                        \/ input.text # entry.text
                        \/ severity # lastSeverity
        raised       == IsRaise(entry, wasPresent, isClearedNow)
        shouldNotify ==
            \/ isClearedNow
            \/ notify = "All"
            \/ notify = "RaiseAndClear" /\ raised
            \/ notify = "BySeverity" /\ TouchesThreshold(severity, lastSeverity, threshold)
        newSeverity  == StoredSeverity(severity, lastSeverity)
        history      == Append(entry.statusChanges,
                               [time |-> now, perceivedSeverity |-> newSeverity,
                                text |-> input.text])
    IN  [changed      |-> changed,
         shouldNotify |-> shouldNotify,
         removed      |-> IF changed THEN Discarded(history, max) ELSE {},
         entry        |->
           [created       |-> IF wasPresent THEN entry.created ELSE now,
            lastRaised    |-> IF raised THEN now ELSE entry.lastRaised,
            lastChanged   |-> IF changed THEN now ELSE entry.lastChanged,
            text          |-> input.text,
            shelf         |-> IF wasPresent THEN entry.shelf ELSE shelf,
            lastSeverity  |-> newSeverity,
            isCleared     |-> isClearedNow,
            statusChanges |-> IF changed THEN Shrunk(history, max)
                                         ELSE entry.statusChanges]]
=============================================================================
