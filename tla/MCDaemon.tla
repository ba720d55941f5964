------------------------------ MODULE MCDaemon ------------------------------
(***************************************************************************)
(* Small instances of Daemon for TLC.  Each .cfg picks from the sets below *)
(* the inputs that its question is about.                                  *)
(***************************************************************************)
EXTENDS Daemon

CONSTANTS tid, sub,     \* an alarm type and one derived from it
          q,            \* a qualifier
          r1, r2, rbad, \* resources; rbad cannot be quoted
          s1, s2,       \* shelf names
          t0, t1        \* texts; t0 is the empty one

MCTypeId     == {tid, sub}
MCQualifier  == {q}
MCResource   == {r1, r2, rbad}
MCUnquotable == {rbad}
MCShelfName  == {s1, s2}
MCText       == {t0, t1}
MCDerived    == [i \in MCTypeId |-> IF i = tid THEN {tid, sub} ELSE {sub}]

Key(id, r) == [type |-> [id |-> id, qualifier |-> q], resource |-> r]
K1 == Key(sub, r1)
K2 == Key(tid, r2)

Submit(keys, severities, texts) ==
    {[key |-> k, severity |-> s, text |-> t] : k \in keys, s \in severities, t \in texts}

Purging(clearance, severity, age) ==
    [clearance |-> clearance, severity |-> severity, olderThan |-> age]
PurgeAny == Purging("any", None, None)
NoCriteria == [resource |-> None, id |-> None, qualifier |-> None]

MCConfig(max, notify, level, shelves) ==
    [maxAlarmStatusChanges |-> max, notifyStatusChanges |-> notify,
     notifySeverityLevel |-> level, shelves |-> shelves]

Permissive == [resources |-> {}, severities |-> {}]
OpenInventory == {[t \in Type |-> Permissive]}
NoInputs == {}
OnlyAny == {PurgeAny}
OnlyNoCriteria == {NoCriteria}

-----------------------------------------------------------------------------
(* Shelving: two alarms; shelves that take one by its resource, the other  *)
(* by its type, everything, and two that overlap.                          *)
ShelfByResource(name) == [name |-> name, resources |-> {r1}, alarmTypes |-> {}]
ShelfByType(name) ==
    [name |-> name, resources |-> {}, alarmTypes |-> {[id |-> tid, qualifierMatch |-> q]}]
ShelvingSubmissions == Submit({K1, K2}, {ClearedSeverity, 5}, {t1})
ShelvingConfigs ==
    {MCConfig(2, "All", None, <<>>),
     MCConfig(2, "All", None, <<ShelfByResource(s1)>>),
     MCConfig(1, "All", None, <<ShelfByResource(s1), ShelfByType(s2)>>),
     MCConfig(2, "All", None, <<ShelfByType(s2), ShelfByResource(s1)>>)}

-----------------------------------------------------------------------------
(* History: one alarm, many state changes, limits that shrink and grow;    *)
(* a change of the limit can come in one event with a change of shelves.   *)
HistorySubmissions == Submit({K1}, {ClearedSeverity, 3, 5}, {t0, t1})
HistoryConfigs ==
    {MCConfig(None, "All", None, <<>>),
     MCConfig(3, "All", None, <<>>),
     MCConfig(2, "All", None, <<ShelfByResource(s1)>>)}
HistoryPurges == {Purging("cleared", None, None), Purging("any", None, 2),
                  Purging("not-cleared", [cmp |-> "above", level |-> 3], None)}
HistoryCompresses == {NoCriteria, [NoCriteria EXCEPT !.resource = r2]}

-----------------------------------------------------------------------------
(* Notifications: every mode, severities on both sides of the thresholds.  *)
NotifySubmissions == Submit({K1}, {ClearedSeverity, 3, 4, 5}, {t0, t1})
NotifyConfigs ==
    {MCConfig(1, "All", None, <<>>),
     MCConfig(1, "RaiseAndClear", None, <<>>),
     MCConfig(2, "BySeverity", 4, <<>>),
     MCConfig(1, "BySeverity", 5, <<ShelfByResource(s1)>>)}

-----------------------------------------------------------------------------
(* Inventory: entries that are missing, or limited in resource or severity *)
InventorySubmissions ==
    Submit({K1, K2}, {ClearedSeverity, 3, 5}, {t1}) \cup Submit({Key(tid, rbad)}, {5}, {t1})
PlainConfig == {MCConfig(1, "RaiseAndClear", None, <<>>)}
InventoryPurges == {Purging("any", [cmp |-> "below", level |-> 5], None),
                    Purging("cleared", [cmp |-> "is", level |-> 5], None)}
MCInventories ==
    {[t \in {} |-> Permissive],
     [t \in {K1.type} |-> [resources |-> {r1}, severities |-> {3}]],
     [t \in {K1.type, K2.type} |-> [resources |-> {r1}, severities |-> {}]],
     [t \in {K2.type} |-> Permissive]}

-----------------------------------------------------------------------------
(* Failures: publications that throw, retried by the clients.              *)
FailureSubmissions == Submit({K1, K2}, {ClearedSeverity, 5}, {t1})
FailureConfigs ==
    {MCConfig(2, "All", None, <<>>), MCConfig(1, "All", None, <<ShelfByResource(s1)>>)}

-----------------------------------------------------------------------------
(* A limit of zero status changes.                                         *)
ZeroConfigs == {MCConfig(0, "All", None, <<>>), MCConfig(1, "All", None, <<>>)}
=============================================================================
