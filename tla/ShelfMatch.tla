----------------------------- MODULE ShelfMatch -----------------------------
(***************************************************************************)
(* Which shelf an alarm belongs to (src/src/alarms/ShelfMatch.cpp).  The   *)
(* shelf list is ordered by the user and the first matching shelf wins.    *)
(***************************************************************************)
EXTENDS Naturals, Sequences, AlarmKey

CONSTANTS
    ShelfName,           \* the names a shelf may have
    derivedRecursive     \* identity -> itself and everything derived from it

ASSUME ShelfNameAssumption == None \notin ShelfName

ASSUME IdentityAssumption ==
    /\ derivedRecursive \in [TypeId -> SUBSET TypeId]
    /\ \A id \in TypeId : id \in derivedRecursive[id]

Shelf == [name       : ShelfName,
          resources  : SUBSET Resource,
          alarmTypes : SUBSET [id : TypeId, qualifierMatch : Qualifier]]

matchesIdentity(identity, type) == type.id \in derivedRecursive[identity]

matchesType(alarmTypes, type) ==
    \E t \in alarmTypes : /\ type.qualifier = t.qualifierMatch
                          /\ matchesIdentity(t.id, type)

matchesShelf(shelf, key) ==
    /\ shelf.resources = {} \/ key.resource \in shelf.resources
    /\ shelf.alarmTypes = {} \/ matchesType(shelf.alarmTypes, key.type)

(* Position i is where std::find_if() stops.                               *)
IsFirstMatch(key, shelves, i) ==
    /\ matchesShelf(shelves[i], key)
    /\ \A j \in DOMAIN shelves : j < i => ~ matchesShelf(shelves[j], key)

findMatchingShelf(key, shelves) ==
    IF \E i \in DOMAIN shelves : IsFirstMatch(key, shelves, i)
      THEN shelves[CHOOSE i \in DOMAIN shelves :
                        IsFirstMatch(key, shelves, i)].name
      ELSE None
=============================================================================
