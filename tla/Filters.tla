------------------------------ MODULE Filters -------------------------------
(***************************************************************************)
(* The filters of the purge and compress RPCs (src/src/alarms/Filters.cpp).*)
(* Every criterion that the input gives must match; an absent criterion,   *)
(* None here, matches everything.                                          *)
(***************************************************************************)
EXTENDS AlarmEntry

(* Input of purge-alarms and purge-shelved-alarms.  The clearance status   *)
(* is mandatory; severity is a choice of above, is and below; older-than   *)
(* is a duration, whatever unit it was given in.                           *)
PurgeInput ==
    [clearance : {"any", "cleared", "not-cleared"},
     severity  : [cmp : {"above", "is", "below"}, level : Severities] \cup {None},
     olderThan : Nat \cup {None}]

MatchesClearance(filter, entry) ==
    CASE filter.clearance = "any"         -> TRUE
      [] filter.clearance = "cleared"     -> entry.isCleared
      [] filter.clearance = "not-cleared" -> ~entry.isCleared

MatchesSeverity(filter, entry) ==
    LET level == filter.severity.level IN
    CASE filter.severity.cmp = "above" -> level < entry.lastSeverity
      [] filter.severity.cmp = "is"    -> level = entry.lastSeverity
      [] filter.severity.cmp = "below" -> level > entry.lastSeverity

PurgeFilter(filter, entry, now) ==
    /\ MatchesClearance(filter, entry)
    /\ filter.severity # None => MatchesSeverity(filter, entry)
    /\ filter.olderThan # None => entry.lastChanged < now - filter.olderThan

(* Input of compress-alarms and compress-shelved-alarms: plain equality.   *)
CompressInput ==
    [resource  : Resource \cup {None},
     id        : TypeId \cup {None},
     qualifier : Qualifier \cup {None}]

CompressFilter(filter, key) ==
    /\ filter.resource # None => key.resource = filter.resource
    /\ filter.id # None => key.type.id = filter.id
    /\ filter.qualifier # None => key.type.qualifier = filter.qualifier
=============================================================================
