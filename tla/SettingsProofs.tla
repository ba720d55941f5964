--------------------------- MODULE SettingsProofs ----------------------------
(***************************************************************************)
(* The settings of Daemon follow the running configuration, for every      *)
(* value of the constants.  The undelivered events lead from the           *)
(* configuration that the cached settings stem from to the running one.    *)
(***************************************************************************)
EXTENDS DaemonProofs

(* The settings that a configuration stands for.                           *)
Cached(node) ==
    CASE node = "max-alarm-status-changes" -> m_maxAlarmStatusChanges
      [] node = "notify-status-changes"    -> m_notifyStatusChanges
      [] node = "notify-severity-level"    -> m_notifySeverityThreshold

Settings == {"max-alarm-status-changes", "notify-status-changes", "notify-severity-level"}

Holds(c) == \A node \in Settings : Cached(node) = ConfigValue(c, node)

(* The configurations between the cached settings and the running one.     *)
IsPath(path) ==
    /\ path \in [0..Len(controlEvents) -> Configs]
    /\ Holds(path[0])
    /\ path[Len(controlEvents)] = running
    /\ \A i \in 1..Len(controlEvents) : controlEvents[i] = ChangesBetween(path[i - 1], path[i])

(* The last event about a node has the value that is in force.             *)
IsLast(node, i) ==
    /\ i \in DOMAIN controlEvents /\ node \in DOMAIN controlEvents[i]
    /\ \A j \in DOMAIN controlEvents : j > i => node \notin DOMAIN controlEvents[j]

LastWins(node) ==
    /\ ~PendingChange(node) => Cached(node) = ConfigValue(running, node)
    /\ \A i : IsLast(node, i) => controlEvents[i][node] = ConfigValue(running, node)

RulesFollow == ~PendingChange("alarm-shelving") => m_shelvingRules = running.shelves

Followed ==
    /\ \E path : IsPath(path)
    /\ \A node \in Settings : LastWins(node)
    /\ RulesFollow

LEMMA Nodes ==
    /\ DOMAIN DocumentOrder = 1..4
    /\ ControlNodes = Settings \cup {"alarm-shelving"}
    /\ Position("max-alarm-status-changes") = 1 /\ Position("notify-status-changes") = 2
    /\ Position("notify-severity-level") = 3 /\ Position("alarm-shelving") = 4
  <1>1. /\ DOMAIN DocumentOrder = 1..4
        /\ DocumentOrder[1] = "max-alarm-status-changes"
        /\ DocumentOrder[2] = "notify-status-changes"
        /\ DocumentOrder[3] = "notify-severity-level"
        /\ DocumentOrder[4] = "alarm-shelving"
    BY DEF DocumentOrder
  <1> HIDE DEF DocumentOrder
  <1>2. \A i \in 1..4 : i = 1 \/ i = 2 \/ i = 3 \/ i = 4
    OBVIOUS
  <1> QED
    BY <1>1, <1>2 DEF ControlNodes, Position, Settings

(* Of an event of the control subscription no setting is passed over.      *)
LEMMA NothingSkipped ==
    ASSUME NEW old, NEW new, NEW node \in Settings, NEW cached
    PROVE  LET changes == ChangesBetween(old, new) IN
           /\ node \in DOMAIN changes <=> ConfigValue(old, node) # ConfigValue(new, node)
           /\ NewValue(changes, node, cached) =
                 IF node \in DOMAIN changes THEN ConfigValue(new, node) ELSE cached
  <1> DEFINE changes == ChangesBetween(old, new)
  <1>1. /\ DOMAIN changes = {n \in ControlNodes : ConfigValue(old, n) # ConfigValue(new, n)}
        /\ \A n \in DOMAIN changes : changes[n] = ConfigValue(new, n)
    BY DEF ChangesBetween
  <1>2. node \in ControlNodes /\ Position(node) <= Position("alarm-shelving")
    BY Nodes DEF Settings
  <1> HIDE DEF changes
  <1>3. node \in Visited(changes) <=> node \in DOMAIN changes
    BY <1>2 DEF Visited
  <1> QED
    BY <1>1, <1>2, <1>3 DEF NewValue, changes

(* Steps that touch neither the settings nor control.                      *)
LEMMA SameFollowed ==
    ASSUME Followed, UNCHANGED control, UNCHANGED <<running, controlEvents>> PROVE Followed'
  <1>1. /\ \A node : Cached(node)' = Cached(node)
        /\ \A c : Holds(c)' <=> Holds(c)
    BY DEF Cached, Holds, control
  <1>2. ASSUME NEW path, IsPath(path) PROVE IsPath(path)'
    BY <1>1, <1>2 DEF IsPath
  <1>3. ASSUME NEW node \in Settings PROVE LastWins(node)'
    BY <1>1, <1>3 DEF Followed, LastWins, PendingChange, IsLast
  <1>4. RulesFollow'
    BY DEF Followed, RulesFollow, PendingChange, control
  <1> QED
    BY <1>2, <1>3, <1>4 DEF Followed

LEMMA EditFollowed ==
    ASSUME TypeOK, Followed, NEW c \in Configs, EditControl(c) PROVE Followed'
  <1> DEFINE n == Len(controlEvents)
             change == ChangesBetween(running, c)
  <1>1. /\ controlEvents \in Seq(EventType) /\ n \in Nat
        /\ controlEvents' = Append(controlEvents, change)
        /\ running' = c /\ UNCHANGED control /\ running \in Configs
    BY DEF EditControl, TypeOK, DatastoreType
  <1> HIDE DEF change
  <1>2. /\ Len(controlEvents') = n + 1 /\ DOMAIN controlEvents' = 1..(n + 1)
        /\ DOMAIN controlEvents = 1..n
        /\ \A i \in 1..n : controlEvents'[i] = controlEvents[i]
        /\ controlEvents'[n + 1] = change
    BY <1>1
  <1>3. \A node : Cached(node)' = Cached(node)
    BY <1>1 DEF Cached, control
  <1>4. \E path : IsPath(path)'
    <2>1. PICK path : IsPath(path)
      BY DEF Followed
    <2> DEFINE extended == [i \in 0..(n + 1) |-> IF i = n + 1 THEN c ELSE path[i]]
    <2>2. PICK longer : /\ longer \in [0..(n + 1) -> Configs]
                        /\ longer[n + 1] = c /\ longer[n] = running
                        /\ \A i \in 0..n : longer[i] = path[i]
      <3>1. /\ extended \in [0..(n + 1) -> Configs]
            /\ extended[n + 1] = c /\ extended[n] = running
            /\ \A i \in 0..n : extended[i] = path[i]
        BY <1>1, <2>1 DEF IsPath
      <3> QED
        BY <3>1
    <2>3. Holds(longer[0])'
      BY <1>1, <1>3, <2>1, <2>2 DEF IsPath, Holds
    <2>4. ASSUME NEW i \in 1..(n + 1)
          PROVE  controlEvents'[i] = ChangesBetween(longer[i - 1], longer[i])
      <3>1. CASE i = n + 1
        BY <1>1, <1>2, <2>2, <3>1 DEF change
      <3>2. CASE i # n + 1
        <4>1. i \in 1..n /\ i - 1 \in 0..n /\ i \in 0..n
          BY <1>1, <3>2
        <4> QED
          BY <1>2, <2>1, <2>2, <4>1 DEF IsPath
      <3> QED
        BY <3>1, <3>2
    <2>5. IsPath(longer)'
      BY <1>1, <1>2, <2>2, <2>3, <2>4 DEF IsPath
    <2> QED
      BY <2>5
  <1>5. \A node \in ControlNodes :
           /\ node \in DOMAIN change <=> ConfigValue(running, node) # ConfigValue(c, node)
           /\ node \in DOMAIN change => change[node] = ConfigValue(c, node)
    BY DEF change, ChangesBetween
  <1>6. \A node : PendingChange(node)' <=> PendingChange(node) \/ node \in DOMAIN change
    BY <1>1, <1>2 DEF PendingChange
  <1>7. ASSUME NEW node \in Settings PROVE LastWins(node)'
    <2>1. node \in ControlNodes /\ LastWins(node)
      BY Nodes DEF Followed
    <2>2. ASSUME NEW i, IsLast(node, i)' PROVE controlEvents'[i][node] = ConfigValue(c, node)
      <3>1. CASE node \in DOMAIN change
        <4>1. i = n + 1
          BY <1>1, <1>2, <2>2, <3>1 DEF IsLast
        <4> QED
          BY <1>2, <1>5, <2>1, <3>1, <4>1
      <3>2. CASE node \notin DOMAIN change
        <4>1. i \in 1..n /\ IsLast(node, i)
          BY <1>1, <1>2, <2>2, <3>2 DEF IsLast
        <4> QED
          BY <1>2, <1>5, <2>1, <3>2, <4>1 DEF LastWins
      <3> QED
        BY <3>1, <3>2
    <2>3. ~PendingChange(node)' => Cached(node)' = ConfigValue(c, node)
      BY <1>3, <1>5, <1>6, <2>1 DEF LastWins
    <2> QED
      BY <1>1, <2>2, <2>3 DEF LastWins
  <1>8. RulesFollow'
    <2>1. /\ "alarm-shelving" \in ControlNodes
          /\ \A d : ConfigValue(d, "alarm-shelving") = d.shelves
      BY Nodes DEF ConfigValue
    <2> QED
      BY <1>1, <1>5, <1>6, <2>1 DEF Followed, RulesFollow, control
  <1> QED
    BY <1>4, <1>7, <1>8 DEF Followed

LEMMA DeliveryFollowed ==
    ASSUME TypeOK, Followed, NEW fails \in BOOLEAN, ControlChanged(fails) PROVE Followed'
  <1> DEFINE n == Len(controlEvents)
             changes == Head(controlEvents)
             rules == IF "alarm-shelving" \in DOMAIN changes THEN running.shelves
                                                             ELSE m_shelvingRules
  <1>1. /\ controlEvents # <<>> /\ controlEvents \in Seq(EventType) /\ n \in Nat \ {0}
        /\ controlEvents' = Tail(controlEvents) /\ UNCHANGED running
        /\ ControlSettings(changes, rules)
    BY DEF ControlChanged, DeliverControl, TypeOK, DatastoreType
  <1>2. /\ Len(controlEvents') = n - 1 /\ DOMAIN controlEvents' = 1..(n - 1)
        /\ DOMAIN controlEvents = 1..n /\ changes = controlEvents[1]
        /\ \A i \in 1..(n - 1) : controlEvents'[i] = controlEvents[i + 1]
    BY <1>1
  <1>3. PICK path : IsPath(path)
    BY DEF Followed
  <1>4. /\ path[0] \in Configs /\ path[1] \in Configs /\ Holds(path[0])
        /\ changes = ChangesBetween(path[0], path[1])
    BY <1>1, <1>2, <1>3 DEF IsPath
  <1>5. ASSUME NEW node \in Settings
        PROVE  /\ Cached(node)' = NewValue(changes, node, Cached(node))
               /\ Cached(node)' = ConfigValue(path[1], node)
               /\ node \in DOMAIN changes => changes[node] = Cached(node)'
               /\ node \notin DOMAIN changes => Cached(node)' = Cached(node)
    <2>1. Cached(node)' = NewValue(changes, node, Cached(node))
      BY <1>1 DEF Cached, ControlSettings, Settings
    <2>2. Cached(node) = ConfigValue(path[0], node)
      BY <1>4 DEF Holds
    <2>3. node \in DOMAIN changes => changes[node] = ConfigValue(path[1], node)
      BY <1>4 DEF ChangesBetween
    <2> QED
      BY <1>4, <2>1, <2>2, <2>3, NothingSkipped
  <1> HIDE DEF changes
  <1>6. \E shorter : IsPath(shorter)'
    <2> DEFINE rest == [i \in 0..(n - 1) |-> path[i + 1]]
    <2>1. PICK shorter : /\ shorter \in [0..(n - 1) -> Configs]
                         /\ shorter[0] = path[1] /\ shorter[n - 1] = running
                         /\ \A i \in 0..(n - 1) : shorter[i] = path[i + 1]
      <3>1. /\ rest \in [0..(n - 1) -> Configs]
            /\ rest[0] = path[1] /\ rest[n - 1] = running
            /\ \A i \in 0..(n - 1) : rest[i] = path[i + 1]
        BY <1>1, <1>3 DEF IsPath
      <3> QED
        BY <3>1
    <2>2. Holds(shorter[0])'
      BY <1>5, <2>1 DEF Holds
    <2>3. ASSUME NEW i \in 1..(n - 1)
          PROVE  controlEvents'[i] = ChangesBetween(shorter[i - 1], shorter[i])
      <3>1. /\ i + 1 \in 1..n /\ i - 1 \in 0..(n - 1) /\ i \in 0..(n - 1)
            /\ (i - 1) + 1 = i /\ (i + 1) - 1 = i
        BY <1>1
      <3>2. controlEvents[i + 1] = ChangesBetween(path[i], path[i + 1])
        BY <1>3, <3>1 DEF IsPath
      <3> QED
        BY <1>2, <2>1, <3>1, <3>2
    <2>4. IsPath(shorter)'
      BY <1>1, <1>2, <2>1, <2>2, <2>3 DEF IsPath
    <2> QED
      BY <2>4
  <1>7. \A node : PendingChange(node) <=> PendingChange(node)' \/ node \in DOMAIN changes
    <2> SUFFICES ASSUME NEW node
                 PROVE  PendingChange(node) <=> PendingChange(node)' \/ node \in DOMAIN changes
      OBVIOUS
    <2>1. ASSUME NEW i \in 1..n, node \in DOMAIN controlEvents[i], i # 1 PROVE PendingChange(node)'
      <3>1. i - 1 \in 1..(n - 1) /\ (i - 1) + 1 = i
        BY <1>1, <2>1
      <3> QED
        BY <1>2, <2>1, <3>1 DEF PendingChange
    <2>2. ASSUME NEW i \in 1..(n - 1), node \in DOMAIN controlEvents'[i] PROVE PendingChange(node)
      <3>1. i + 1 \in 1..n
        BY <1>1
      <3> QED
        BY <1>2, <2>2, <3>1 DEF PendingChange
    <2> QED
      BY <1>1, <1>2, <2>1, <2>2 DEF PendingChange
  <1>8. ASSUME NEW node \in Settings PROVE LastWins(node)'
    <2>1. LastWins(node)
      BY DEF Followed
    <2>2. ASSUME NEW i, IsLast(node, i)' PROVE controlEvents'[i][node] = ConfigValue(running, node)
      <3>1. i \in 1..(n - 1) /\ i + 1 \in 1..n /\ controlEvents'[i] = controlEvents[i + 1]
        BY <1>1, <1>2, <2>2 DEF IsLast
      <3>2. ASSUME NEW j \in 1..n, j > i + 1 PROVE node \notin DOMAIN controlEvents[j]
        <4>1. j - 1 \in 1..(n - 1) /\ j - 1 > i /\ (j - 1) + 1 = j
          BY <1>1, <3>1, <3>2
        <4> QED
          BY <1>2, <2>2, <4>1 DEF IsLast
      <3>3. IsLast(node, i + 1)
        BY <1>2, <2>2, <3>1, <3>2 DEF IsLast
      <3> QED
        BY <2>1, <3>1, <3>3 DEF LastWins
    <2>3. ASSUME ~PendingChange(node)' PROVE Cached(node)' = ConfigValue(running, node)
      <3>1. CASE node \in DOMAIN changes
        <4>1. ASSUME NEW j \in 1..n, j > 1 PROVE node \notin DOMAIN controlEvents[j]
          <5>1. j - 1 \in 1..(n - 1) /\ (j - 1) + 1 = j
            BY <1>1, <4>1
          <5> QED
            BY <1>2, <2>3, <5>1 DEF PendingChange
        <4>2. IsLast(node, 1)
          BY <1>1, <1>2, <3>1, <4>1 DEF IsLast
        <4> QED
          BY <1>2, <1>5, <2>1, <3>1, <4>2 DEF LastWins
      <3>2. CASE node \notin DOMAIN changes
        BY <1>5, <1>7, <2>1, <2>3, <3>2 DEF LastWins
      <3> QED
        BY <3>1, <3>2
    <2> QED
      BY <1>1, <2>2, <2>3 DEF LastWins
  <1>9. RulesFollow'
    BY <1>1, <1>7 DEF Followed, RulesFollow, ControlSettings
  <1> QED
    BY <1>6, <1>8, <1>9 DEF Followed

LEMMA FollowedStep == TypeOK /\ Followed /\ [Next]_vars => Followed'
  <1> SUFFICES ASSUME TypeOK, Followed, [Next]_vars PROVE Followed'
    OBVIOUS
  <1> USE SameFollowed DEF datastore
  <1>1. CASE submitAlarm
    BY <1>1 DEF submitAlarm, RefuseClient, SubmitBadKey, SubmitReadFails, SubmitNotInInventory,
                SubmitRedundantClear, SubmitUnchanged, SubmitChanged
  <1>2. CASE purgeAlarms
    BY <1>2 DEF purgeAlarms, PurgeNothing, Purge
  <1>3. CASE compressAlarms
    BY <1>3 DEF compressAlarms, CompressNothing, Compress
  <1>4. CASE controlCallback
    BY <1>4, DeliveryFollowed DEF controlCallback
  <1>5. CASE InventoryChanged
    BY <1>5 DEF InventoryChanged
  <1>6. CASE Environment
    BY <1>6, EditFollowed DEF Environment, EditInventory
  <1>7. CASE UNCHANGED vars
    BY <1>7 DEF vars
  <1> QED
    BY <1>1, <1>2, <1>3, <1>4, <1>5, <1>6, <1>7 DEF Next

LEMMA InitFollowed == Init => Followed
  <1> SUFFICES ASSUME Init PROVE Followed
    OBVIOUS
  <1>1. /\ controlEvents = <<>> /\ Len(controlEvents) = 0 /\ DOMAIN controlEvents = {}
        /\ running \in Configs /\ Holds(running) /\ m_shelvingRules = running.shelves
    BY DEF Init, Holds, Cached, ConfigValue, Settings
  <1>2. IsPath([i \in 0..0 |-> running])
    BY <1>1 DEF IsPath
  <1>3. \A node \in Settings : LastWins(node)
    BY <1>1 DEF LastWins, IsLast, Holds
  <1> QED
    BY <1>1, <1>2, <1>3 DEF Followed, RulesFollow

LEMMA AlwaysFollowed == Spec => []Followed
  BY InitFollowed, FollowedStep, TypeCorrect, PTL DEF Spec

LEMMA FollowedSettings == Followed => SettingsFollowRunning
  BY DEF Followed, LastWins, SettingsFollowRunning, Cached, ConfigValue, Settings

LEMMA FollowedThreshold == TypeOK /\ Followed => ThresholdPresent
  <1> SUFFICES ASSUME TypeOK, Followed PROVE ThresholdPresent
    OBVIOUS
  <1>1. PICK path : IsPath(path)
    BY DEF Followed
  <1>2. path[0] \in Configs
    <2>1. 0 \in 0..Len(controlEvents)
      BY DEF TypeOK, DatastoreType
    <2> QED
      BY <1>1, <2>1 DEF IsPath
  <1>3. path[0] \in Config /\ Holds(path[0])
    BY <1>1, <1>2, InputAssumption DEF IsPath
  <1> QED
    BY <1>3 DEF ThresholdPresent, Holds, Cached, ConfigValue, Settings, Config

(* Each cached setting is the running one unless an event that changes it  *)
(* is on its way, although events come late and the callback's loop stops  *)
(* early.                                                                  *)
THEOREM SettingsAreFollowed == Spec => []SettingsFollowRunning
  BY FollowedSettings, AlwaysFollowed, PTL

(* The threshold that updateByRpc() dereferences without a check is there. *)
THEOREM ThresholdIsPresent == Spec => []ThresholdPresent
  BY FollowedThreshold, AlwaysFollowed, TypeCorrect, PTL
=============================================================================
