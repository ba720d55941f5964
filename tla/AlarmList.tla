------------------------------ MODULE AlarmList ------------------------------
(***************************************************************************)
(* What the daemon promises to a management client that reads the two      *)
(* alarm lists and counts what its RPCs report (/ietf-alarms:alarms in     *)
(* src/yang, and the handlers in src/src/alarms/Daemon.cpp): which alarms  *)
(* there are, on which shelf, in which state, and how that may change.     *)
(* Histories, statistics and configuration are not seen at this level.     *)
(***************************************************************************)
EXTENDS Naturals, FiniteSets

CONSTANTS None, ShelfName, Severities, Text

VARIABLES
    list,    \* the alarms of both lists, each with its shelf and state
    answer   \* how many alarms the last step reported to have dealt with

State == [severity : Severities, cleared : BOOLEAN, text : Text, raised : Nat, changed : Nat]
Row   == [shelf : ShelfName \cup {None}, state : State]

Init == list = [k \in {} |-> None] /\ answer = 0

(* The next list has one more row, or another row, for k.                  *)
OnlyRowOf(k) ==
    /\ k \in DOMAIN list'
    /\ list'[k] \in Row
    /\ list' = [x \in DOMAIN list \cup {k} |-> IF x = k THEN list'[k] ELSE list[x]]
    /\ \A x \in DOMAIN list : list'[k].state.changed > list[x].state.changed
    /\ answer' = 0

(* An alarm appears because it became active.                              *)
Appear(k) ==
    /\ k \notin DOMAIN list
    /\ OnlyRowOf(k)
    /\ ~list'[k].state.cleared
    /\ list'[k].state.raised = list'[k].state.changed

(* A clear keeps the severity and is no update of a cleared alarm; the     *)
(* alarm is raised again when it was cleared, and only then.               *)
Change(k) ==
    /\ k \in DOMAIN list
    /\ OnlyRowOf(k)
    /\ list'[k].shelf = list[k].shelf
    /\ LET old == list[k].state
           new == list'[k].state
       IN  /\ new.cleared => ~old.cleared /\ new.severity = old.severity
           /\ <<new.cleared, new.severity, new.text>> # <<old.cleared, old.severity, old.text>>
           /\ new.raised = IF old.cleared THEN new.changed ELSE old.raised

(* A purge works on one of the lists and tells how many alarms it removed. *)
Purge ==
    LET gone == DOMAIN list \ DOMAIN list'
    IN  /\ gone # {}
        /\ (\A k \in gone : list[k].shelf = None) \/ (\A k \in gone : list[k].shelf # None)
        /\ list' = [k \in DOMAIN list \ gone |-> list[k]]
        /\ answer' = Cardinality(gone)

(* Alarms move between the lists and shelves, all of them at once; nothing *)
(* else about them changes.                                                *)
Reshelve ==
    /\ DOMAIN list' = DOMAIN list
    /\ \A k \in DOMAIN list :
          \E shelf \in ShelfName \cup {None} : list'[k] = [list[k] EXCEPT !.shelf = shelf]
    /\ answer' = 0

(* Everything else: refusals, compressing.                                 *)
Answer == UNCHANGED list /\ answer' \in 0..Cardinality(DOMAIN list)

Next == (\E k \in DOMAIN list' : Appear(k) \/ Change(k)) \/ Purge \/ Reshelve \/ Answer

Spec == Init /\ [][Next]_<<list, answer>>
-----------------------------------------------------------------------------
(* The instants that the rows show tell in which order they changed: no    *)
(* two share the instant of the last change, none was raised after it, and *)
(* one that is cleared was raised before.                                  *)
TimesTell ==
    /\ \A j, k \in DOMAIN list : j # k => list[j].state.changed # list[k].state.changed
    /\ \A k \in DOMAIN list :
          LET state == list[k].state IN
          IF state.cleared THEN state.raised < state.changed ELSE state.raised <= state.changed
=============================================================================
