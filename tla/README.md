# The alarm daemon in TLA+

A model of `sysrepo-ietf-alarmsd`, the daemon that keeps the RFC 8632 alarm lists of a device in
sysrepo, with model-checked properties and machine-checked proofs. Paths are relative to the
repository unless they end in `.tla` or `.cfg`.

## 1. Inventory of the system

The daemon sits between programs that raise alarms and management clients that look at them.

| Part | Source | State | Operations |
| --- | --- | --- | --- |
| Alarm identification | `src/alarms/Key.*` | none | keys of alarms; refusal of a resource that mixes both kinds of quotes |
| Shelf matching | `src/alarms/ShelfMatch.*` | none | first shelf that matches by resource, identity and qualifier |
| Alarm entry | `src/alarms/AlarmEntry.h`, `Daemon.cpp:232-326` | one alarm: instants, text, shelf, last severity, cleared or not, history | update by RPC, shrinking of the history |
| RPC filters | `src/alarms/Filters.*` | none | purge: clearance, severity, age; compress: equality of the parts of the key |
| Daemon: submit | `Daemon.cpp:394-486` | `m_alarms`, `m_edit`, the stamps | create-or-update-alarm, status notifications |
| Daemon: purge, compress | `Daemon.cpp:488-563` | the same | four RPCs |
| Daemon: control | `Daemon.cpp:109-183`, `598-646`, `371-392` | notification mode and threshold, limit of the history, shelving rules | "done" events of the running datastore; reshelving; shrinking |
| Daemon: inventory | `Daemon.cpp:185-225`, `648-675` | `m_inventory`, `m_inventoryDirty` | events of the inventory, lazy rebuild, validation |
| Statistics, publication | `Daemon.cpp:677-725` | counters and stamps in `m_edit` | recount; `editBatch(Replace)` and `applyChanges()` |
| Construction, destruction | `Daemon.cpp:64-198`, `Daemon.h` | the subscriptions, `m_edit`, `m_shelvingRules`, `m_mtx` | subscribe, first publication; give up `m_edit`, wait for the handlers |
| Datastore switch | `src/utils/sysrepo.*` | the active datastore of `m_session` | switch and restore by scope |
| Program | `src/main.cpp`, `src/utils/waitUntilSignalled.cpp` | signal handlers | options, construct, pause, destroy |
| Utilities, logging | the rest of `src/utils/` | none | |

How they interact. `m_alarms` is the truth about alarms; `m_edit` is a data tree with the rows of
both lists and the statistics; every handler that changes either brings the other along and
publishes the tree as a whole. The RPCs and the control callback belong to one subscription and
run one at a time; the inventory callback belongs to another and runs on its own thread; all of
them hold `m_mtx`. Configuration and inventory are edited by other processes, and their events
reach the daemon some time after the edit: an RPC handled in between works with old settings, and
a "done" event describes an edit that further edits may have overtaken. The main thread constructs
the daemon without the mutex while the first handlers run already, switches the session that they
use to another datastore and back, and takes the daemon apart while requests may be waiting.

What is hard here: data kept three times (cache, edit, published) and derived data kept next to
it; settings that lag behind the datastore and arrive in parts; one loop over the changes of an
event that stops early; rows that move between lists with their histories; limits that change
under existing histories; publications that fail in the middle of a handler; a validator that is
rebuilt lazily; a clock that may be set back; three threads, a mutex that only two of them take,
and optionals that are dereferenced without a check. What makes each part correct:

- shelf matching, entry, filters: the first match wins; a history is bounded and ordered, its
  newest item is the state of the row, last-raised follows it;
- submit, purge, compress, control: cache and edit mirror each other; each alarm is on the list
  its shelf names, which is the one the rules give; what is published is what the edit says;
  rows vanish only when purged; notifications follow the configured mode;
- control: each setting is the running one unless an event is on its way;
- inventory: never stale once the events are handled; nothing against it is accepted;
- statistics: counters equal the rows, stamps cover every visible change;
- the process: no empty optional is dereferenced while the daemon is up, the dirty flag survives
  every interleaving, requests are answered, a signal ends it.

## 2. Modules

| Module | Models | Lines of the source |
| --- | --- | --- |
| `AlarmKey.tla` | keys and unquotable resources | `Key.h`, `Key.cpp` |
| `ShelfMatch.tla` | `findMatchingShelf()` and its helpers | `ShelfMatch.cpp` |
| `AlarmEntry.tla` | `updateByRpc()`, `shrinkStatusChanges()` as pure operators | `AlarmEntry.h`, `Daemon.cpp` |
| `Filters.tla` | purge and compress filters | `Filters.cpp` |
| `Daemon.tla` | all handlers, the datastores and their edits, the events | `Daemon.cpp`, `Daemon.h` |
| `AlarmList.tla` | abstract: what a client sees of both lists and of the answers | |
| `ClockSteps.tla` | `Daemon` under a system clock that is set now and then | `Daemon.cpp:397,491,604` |
| `Lifecycle.tla` | the process and its threads | `main.cpp`, `waitUntilSignalled.cpp`, `sysrepo.*`, `Daemon.cpp:64-198`, locking in all handlers |
| `MCDaemon.tla`, `MCClockSteps.tla`, `MCLifecycle.tla` | the sets of inputs of the runs | |
| `*Proofs.tla` | lemmas and theorems, see section 6 | |

`AlarmKey` to `Daemon` extend each other in this order. `Daemon.tla` has the members of `class
Daemon` under their own names as variables, and eight more: `running`, `inventory`, `oper` (what is
published), `controlEvents`, `inventoryEvents` (undelivered events) and the pair `reply`,
`notification` (what the last step sent); `clock` counts the instants that were recorded. Each
handler is one action per outcome: `submitAlarm()` splits into `RefuseClient`, `SubmitBadKey`,
`SubmitReadFails`, `SubmitNotInInventory`, `SubmitRedundantClear`, `SubmitUnchanged` and
`SubmitChanged`; a purge or compress RPC that finds nothing to do is an action of its own;
`ControlChanged` is the whole control callback with reshelving, shrinking and publication. A handler
runs under the mutex from its first
access to the state, so one step is faithful once the constructor is done and until the destructor
starts.

Abstractions. Texts, resources, identities, qualifiers and shelf names are members of constant
sets. Instants are natural numbers that grow with every recorded instant. A row is a record of
its leaves; the path that addresses it is its key. An event of the control subscription is the
function from the nodes an edit changed to their new values; the loop of the callback visits them
in the order of the schema, which puts `alarm-shelving` last. The daemon's publication replaces
`oper` by `m_edit` or, where `ApplyMayFail` allows it, throws and changes nothing. Under the same
constant the read of the inventory may throw, which leaves everything as it was, and so may
`sendNotification()`: the client is then told of a failure although its alarm is published.

`Daemon.tla` instantiates `AlarmList` with a refinement mapping: the abstract list is `Seen(oper)`,
for each alarm on either published list its shelf and the leaves of its row, and the abstract answer
is `AnswerSeen`, the count in the last reply. `AlarmList` knows five steps: an alarm appears, an
alarm changes, a purge, a move of alarms between shelves, and an answer that changes nothing.

`Lifecycle.tla` looks at the same handlers from the other side. It keeps of the alarms only whether
there are any and of each optional only whether it has a value, and follows three threads: `main`
(one action per step of `main()`, the constructor, `waitUntilSignaled()` and the destructors),
`alarm` (the thread of `m_alarmSub`) and `inventory` (that of `m_inventorySub`). The handlers are
cut where another thread can interfere: at the mutex, at the read of the inventory, which depends
on the datastore `m_session` has active, at each `ScopedDatastoreSwitch`, and at `applyChanges()`,
which may throw, as the read may. The main thread's steps need the mutex only where the code takes
it: in the callbacks that sysrepo runs at once, and in the destructor. A constructor that fails takes
none and gives `m_edit` up under the hands of a handler that may be running.

After an empty optional was dereferenced (`fault`) nothing more is said about the process. Three can
be empty: `m_shelvingRules`, `m_edit`, and `data`, the inventory that `rebuildInventory()` looks for
in what `getData()` returned. The inventory is state data, so a tree read while `m_session` is on
running has none, and `Daemon.cpp:652` dereferences what `findPath()` did not find. An RPC that comes
while the constructor has the session switched meets this fault (`InventoryFaults`): it is not
recovered from, and `FaultsOnlyAtTheEnds` lists it.

`ClockSteps.tla` adds one action, `SetClock`, to those of `Daemon`, and leaves out the submissions
that would record an instant that the history of their alarm already has (`RepeatsInstant`). The
clock may stand on instants that other alarms have.

Operators called "Faulty variant" in a comment are not part of the model: each is a plausible
mistake in the operator that follows it, kept to show that the properties notice it.

## 3. Properties

Of `Daemon`, state invariants: `TypeOK`; `ShelfMatchesRules`; `ShelvingPublished`;
`SettingsFollowRunning`; `ThresholdPresent` (the unchecked dereference in line 292 is safe);
`InventoryFresh`; `EditMirrorsCache` (every unchecked lookup in `m_edit` finds its node);
`HistoryBounded`; `LatestChangeFirst`; `LastRaisedFollowsHistory`; `StatisticsMatchRows`;
`EditPublished`; `SettledIsInEffect` (with no event of control pending, the running configuration is
in effect in every respect); `PublishedTimesTell` (the instants that the rows of both lists show fit
together); `HistoryNeverEmpty`, for limits above 0. Of `ClockSteps`: `HistoryTellsState`, what of
the two properties of histories is left when instants are out of order.

Of `Daemon`, about steps: `InventoryRespected`; `StampsCoverChanges`; `NotificationPolicy`;
`NotifiedIsPublished`; `PublicationCatchesUp` (a publication brings all that failed ones did not, and
a call that changed an alarm is answered Ok only once it is published). Refinement:
`PublishedListSpec`, that is `Published!Spec`. Liveness: `EditsTakeEffect`.

Of `Lifecycle`: `TypeOK`; `FaultsOnlyAtTheEnds` (the windows in which a handler can meet one of the
three empty optionals); `HolderRuns` (no thread waits for another with the mutex in hand);
`InventoryFollowsEdits` (of what was read on the operational datastore: a read elsewhere is a fault);
`SessionSwitchesBack`; liveness: `RequestsAnswered`;
`SignalStops`.

The comment above each definition says what it means and which code it is about.
`ShelvingPublished`, `EditPublished`, `NotificationPolicy`, `SettledIsInEffect`,
`PublishedTimesTell`, `EditsTakeEffect` and `PublishedListSpec` hold as long as no publication
fails; the runs `failures` and `inventory` and the theorems show what remains true when some do.
`StampsCoverChanges`, `PublishedTimesTell`, the order in `LatestChangeFirst` and "not later" in
`LastRaisedFollowsHistory` hold for a clock that moves forward; `v_clock_order` shows what becomes
of the order under one that does not.

## 4. Runs

| Run | Module | Bounds | Distinct states | Question |
| --- | --- | --- | --- | --- |
| `shelving` | `MCDaemon` | 2 alarms, 4 shelf configurations, 4 instants, 2 pending events | 52 000 | right list, right counts, visible moves; edits take effect; the instants of all rows fit; the refinement |
| `history` | `MCDaemon` | 1 alarm, 2 severities and a clear, 2 texts, limits infinite, 3 and 2, 5 instants, 1 pending event | 114 000 | bounded, ordered, mirrored histories, never empty |
| `notifications` | `MCDaemon` | 1 alarm, 3 severities and a clear, 2 texts, all modes, two thresholds, 4 instants, 2 pending events | 82 000 | settings and notifications |
| `inventory` | `MCDaemon` | 2 alarms and an unquotable one, 4 inventories, any read of the inventory, publication or notification may fail, 3 instants, 2 pending events | 131 000 | validation, also when calls into sysrepo fail |
| `failures` | `MCClockSteps` | 2 alarms, 2 configurations, any publication or notification may fail, the clock set once, 3 instants | 191 000 | partial failure and retry; histories out of order |
| `lifecycle` | `MCLifecycle` | 4 requests, 2 edits of the inventory, log levels inside and outside the range | 58 000 | the threads from start to end; who holds the mutex; the datastore of the session |

Why these bounds: a misplaced row needs two alarms, two shelves that overlap and two events in
flight; a history goes wrong when it is longer than a limit that just shrank, which takes a limit
of 2 and three or more changes; a threshold needs a severity below, on and above it. In
`lifecycle`, a request can be waiting while another runs only after it returned, so four requests
put a submission before, between and after the steps of another handler, and two edits of the
inventory put one event on its way while the other is being marked.

`MaxTime` bounds the instants after which no RPC or edit of control happens any more, and with them
the number of state changes, purges and moves in one execution; the control callback may record
instants beyond it, at most one per pending event, so that no event is stuck at the bound.
`MaxPending` bounds undelivered events, `MaxClockSteps` settings of the clock, `MaxRequests` the
requests and `MaxEdits` the edits of the inventory in `Lifecycle`. Between them the runs take every
action. Neither the daemon in the model nor the process before its end ever stops, and deadlock is
checked in every run.

In `history` no limit is 0; `v_empty_history` shows why. `lifecycle` assumes that control is not
edited while the constructor runs (`EditsWhileStarting`); `v_session_datastore` shows why.

Six runs are expected to fail. Each shows a place where the code does not do what a comment in it or
the YANG model the repository ships says. For five of them a theorem gives a condition under which
the code does conform:

| Run | What the code does | Conforms if | Theorem |
| --- | --- | --- | --- |
| `v_shelved_notification` | a status change of a shelved alarm is notified like any other | | |
| `v_time_created` | `time-created`, reset when an alarm leaves its shelf, jumps back at the next status change | no shelves are configured and publications succeed | `TimeCreatedStable` |
| `v_empty_history` | with `max-alarm-status-changes` 0, rows are published without a status change | no configuration has the limit 0 | `HistoryNeverEmptied` |
| `v_acknowledged` | after a failed publication the retry of the same raise is answered Ok, with nothing published | publications succeed | `AcknowledgedIfPublished` |
| `v_session_datastore` | an edit of control during construction leaves `m_session` on the running datastore, where there is no inventory to read | control is not edited during construction | `SessionIsSwitchedBack` |
| `v_clock_order` | after the system clock was set back, status changes are not in the order of their timestamps | the clock is never set back | `OrderedUnlessSetBack` |

## 5. Fairness

`FairSpec` of `Daemon` adds weak fairness of `DeliverControl`, the delivery of the oldest event of
an edit of control: the thread of the subscription takes one event after another, and the callback
has no way to refuse one. Nothing is assumed about RPCs, edits or the inventory. `EditsTakeEffect`
says that then either control is edited forever or the last edit takes effect for good.

`FairSpec` of `Lifecycle` has weak fairness of each of the three threads: the operating system runs
a thread that can go on. The mutex needs no more than that: a `std::mutex` may be handed to the same
thread again and again, but here a thread that could be overtaken waits for requests that are
finite in number (`MaxRequests`, `MaxEdits`). Nobody has to call, to edit or to send a signal.
`SignalStops` therefore says that a signal, if it comes, ends the process, and leaves out the signal
that comes between the installation of the handlers and `pause()`: that one is lost, in the model as
in the code, and no property here objects to it.

## 6. Proofs

The theorems hold for every value of the constants that satisfies the assumptions in the modules
(`NoneAssumption`, `TextAssumption`, `ShelfNameAssumption`, `IdentityAssumption`,
`ResourceAssumption`, `InputAssumption`, `ReplyAssumption`, `LifecycleAssumption`; what they say is
that "no value" is not a value, and that inputs conform to the YANG types).

| Theorem | Module | Statement |
| --- | --- | --- |
| `TypeCorrect` | `DaemonProofs` | `Spec => []TypeOK` |
| `EditMirrors` | `DaemonProofs` | `Spec => []EditMirrorsCache` |
| `HistoryStaysBounded` | `DaemonProofs` | `Spec => []HistoryBounded` |
| `ShelvesMatch` | `DaemonProofs` | `Spec => []ShelfMatchesRules` |
| `InventoryStaysFresh` | `DaemonProofs` | `Spec => []InventoryFresh` |
| `PublicationsCatchUp` | `DaemonProofs` | `Spec => PublicationCatchesUp` |
| `EditIsPublished` | `ListProofs` | `~ApplyMayFail => (Spec => []EditPublished)` |
| `ListImplemented` | `ListProofs` | `~ApplyMayFail => (Spec => PublishedListSpec)` |
| `TimesAreTold` | `ListProofs` | `~ApplyMayFail => (Spec => []PublishedTimesTell)` |
| `SettingsAreFollowed` | `SettingsProofs` | `Spec => []SettingsFollowRunning` |
| `ThresholdIsPresent` | `SettingsProofs` | `Spec => []ThresholdPresent` |
| `ShelvingIsPublished` | `PublicationProofs` | `~ApplyMayFail => (Spec => []ShelvingPublished)` |
| `SettledTakesEffect` | `PublicationProofs` | `~ApplyMayFail => (Spec => []SettledIsInEffect)` |
| `AcknowledgedIfPublished` | `PublicationProofs` | `~ApplyMayFail => (Spec => AcknowledgedIsPublished)` |
| `NotificationsArePublished` | `PublicationProofs` | `Spec => NotifiedIsPublished` |
| `StatisticsAreRight` | `PublicationProofs` | `Spec => []StatisticsMatchRows` |
| `LatestChangeIsFirst` | `HistoryProofs` | `Spec => []LatestChangeFirst` |
| `LastRaisedIsRight` | `HistoryProofs` | `Spec => []LastRaisedFollowsHistory` |
| `HistoryNeverEmptied` | `HistoryProofs` | `LimitsPositive => (Spec => []HistoryNeverEmpty)` |
| `InventoryIsRespected` | `ChangeProofs` | `Spec => InventoryRespected` |
| `NotificationsFollowPolicy` | `ChangeProofs` | `~ApplyMayFail => (Spec => NotificationPolicy)` |
| `StampsAreMoved` | `ChangeProofs` | `Spec => StampsCoverChanges` |
| `TimeCreatedStable` | `ChangeProofs` | `NoShelves /\ ~ApplyMayFail => (Spec => TimeCreatedIsStable)` |
| `CoherentAtAnyClock` | `ClockProofs` | `SteppedSpec => [](TypeOK /\ EditMirrorsCache /\ HistoryBounded /\ ShelfMatchesRules)` |
| `SettingsAtAnyClock` | `ClockProofs` | `SteppedSpec => [](InventoryFresh /\ SettingsFollowRunning /\ ThresholdPresent)` |
| `StatisticsAtAnyClock` | `ClockProofs` | `SteppedSpec => []StatisticsMatchRows` |
| `HistoriesTellAtAnyClock` | `ClockProofs` | `SteppedSpec => []HistoryTellsState` |
| `OrderedUnlessSetBack` | `ClockProofs` | `SteppedSpec /\ NeverSetBack => [](OrderedByTimestamps /\ LatestChangeFirst /\ LastRaisedFollowsHistory)` |
| `PublicationsCatchUpAtAnyClock` | `ClockProofs` | `SteppedSpec => PublicationCatchesUp` |
| `NotifiedIsPublishedAtAnyClock` | `ClockProofs` | `SteppedSpec => NotifiedIsPublished` |
| `PublishedAtAnyClock` | `ClockProofs` | `~ApplyMayFail => (SteppedSpec => [](EditPublished /\ ShelvingPublished /\ SettledIsInEffect))` |
| `LifecycleTypes` | `LifecycleProofs` | `Spec => []TypeOK` |
| `MemberFaultsConfined` | `LifecycleProofs` | `Spec => []MembersFaultAtTheEnds` |
| `FaultsConfined` | `LifecycleProofs` | `~EditsWhileStarting => (Spec => []FaultsOnlyAtTheEnds)` |
| `HolderAlwaysRuns` | `LifecycleProofs` | `Spec => []HolderRuns` |
| `SessionIsSwitchedBack` | `LifecycleProofs` | `~EditsWhileStarting => (Spec => []SessionSwitchesBack)` |
| `InventoryIsFollowed` | `LifecycleProofs` | `~EditsWhileStarting => (Spec => []InventoryFollowsEdits)` |

`~ApplyMayFail` says that publications, and the other calls into sysrepo, succeed; a theorem without
it holds whatever fails.

`DaemonProofs`. The first four share the inductive invariant `IInv`. Why it is more than their
conjunction: when a history shrinks, the cache drops its oldest items and reports their instants,
and the edit unlinks the rows with those instants. The two stay mirror images only if the instants
in a history differ (`Distinct`) and the dropped ones are the tail of the listed history. A
submission appends the present instant, so a step preserves the invariant if that instant is new to
the alarm (`NewInstant`): `IInvStep` is about any such step, wherever the clock stands. Under `Spec`
a second invariant, `Ordered`, provides it: cached histories are strictly ordered, and nothing in
them is later than the entry's last change, nor that later than the clock (`OrderedStep`,
`OrderedIsNew`). `Coherent` joins this with the types and the mirror; it is a predicate on
cache and rows, so that each data operation has a lemma of its own: `PutCoherent` (submit),
`WithoutCoherent` (purge), `ShrinkCoherent` (compress and shrink) and `ReshelveCoherent`.
`UpdateMirrored` says what `updateByRpc()` does to one entry and its row. `HistoryBounded` needs
care in `ControlChangedStep`: the callback shrinks only if the limit got lower, so the step where it
did not rests on the bound before. `ShelfMatchesRules` is used by submit, which takes the list
from the rules and the leaf from the entry. The finiteness of `DOMAIN m_alarms` is in the invariant
because purge and compress answer with a number of alarms. `InventoryStaysFresh` is inductive given
the types. `PublicationsCatchUp` takes three facts: what is published stays or becomes the edit
(`KeptOrReplaced`); a handler that changed the cache and answers Ok has published, where the one that
answers Ok without publishing is shown to leave every entry as it was (`OkIsPublished`, from
`WhatChangedFacts`); and the edit, whatever handlers failed to publish it before, mirrors the cache.

`ListProofs`. As long as publications succeed, the published tree is the edit, and the edit is whole
(`InStep`: a record of functions, so that an unlinking of nothing leaves it as it is). With the
mirror of `IInv` this makes the list that a client sees a function of the cache,
`Seen(oper) = ListOf(m_alarms)`, and each step of `m_alarms` is shown to be a step of `AlarmList`
or to leave the list alone. `TimesAreTold` is then proved about `AlarmList` alone: `TellsTimes` is
inductive for the steps of the abstract list, and the daemon inherits what it says.

`SettingsProofs`. Events describe edits relative to each other, so the invariant is a path: there is
a sequence of configurations from the one the cached settings stem from to the running one, and each
pending event is the difference of two neighbours. From it `LastWins`: the last pending event that
mentions a node carries its running value. The callback loses nothing by stopping at
`alarm-shelving`, since that is the last node in the order of the schema (`NothingSkipped`). Mode
and threshold are those of one valid configuration, so the threshold is there when the mode needs
it.

`PublicationProofs`. `Counted` ties the statistics in the edit to the cache and says that the
stamps are not older than any change of an alarm on their list. It uses that the set of instants of
a finite list has a latest, which a step records itself (`Coverable`). `SettledTakesEffect` is the
part of `EditsTakeEffect` that needs no fairness: when no event is pending, `Followed` says that the
settings are the running ones, `ShelfMatchesRules` and `EditPublished` that the lists are. An alarm
that a repeated raise finds unchanged is in the cache, hence in the edit, hence published
(`AcknowledgedIfPublished`).

`HistoryProofs`. A row tells the truth (`Told`) if the first item of its history is the state its
leaves show and last-raised follows the clears listed. A submission puts the new state in front of
a row that tells the truth; shrinking takes items off its end; moves copy it. Publications copy the
rows of the edit, so what was published told the truth when it was, also if later ones fail. `Told`
has a parameter, `ordered`: what it says of an order of instants is dropped where the clock may go
back. `HistoryNeverEmptied` needs that the limit in force is one of a configuration, which is in the
path of `SettingsProofs`; that is why an event still on its way cannot bring a limit of 0.

`ChangeProofs`. A row whose state is later than the clock before the step was put there by a
submission of that alarm (`ChangedBySubmit`, `NewsBySubmit`), which passed the inventory and decided
on the notification by the settings of that moment. For the stamps, `Forward` is the relation "the
stamp did not go back, and went forward if anything visible of the rows changed". It is
transitive; every step takes the edit forward; hence the edit is forward of what is published, by
however many failed publications, and publishing it is a step forward. Without shelves nothing moves
between the lists, rows show when their entries were created, and entries keep that
(`TimeCreatedStable`).

`ClockProofs`. A step of `SteppedSpec` sets the clock, which touches nothing else, or is one of
`Daemon` that records a new instant (`StepOrSet`). So `IInv` is an invariant there too, and with it
all that does not compare instants. Statistics are among it because `updateStatistics()` takes the
latest of the instants shown and the old stamp, not the present one. `OrderedUnlessSetBack` puts the
order back under the assumption that no step makes the clock smaller.

`LifecycleProofs`. `MemberFaultsConfined` rests on `HandlersLock` (the alarm thread holds the mutex
exactly inside its handlers) and `Progress` (what exists at which point of the main thread). For the
others the invariant adds `SessionKnown` (where the session can be away from operational, which is
false without the assumption, as `v_session_datastore` shows), `InventoryKnown` (while nothing about
the inventory is in flight, what was read or is being read is current) and `EmptyRead`: a handler
that holds a tree without an inventory keeps the constructor, which needs the mutex for its last
subscription, from getting through. So the third fault of `FaultsConfined` needs the assumption: with
edits of control during construction it can come at any later time.

Only model-checked: liveness (`EditsTakeEffect`, `RequestsAnswered`, `SignalStops`), which is out of
the prover's reach. Every safety property that a run checks is also a theorem.

Not claimed under a clock that is set back, because it is not true there or not expressible by
instants: the order part of `LatestChangeFirst` and "not later" in `LastRaisedFollowsHistory` (both
are false), `PublishedTimesTell` and the refinement of `AlarmList` (which lets instants grow),
`StampsCoverChanges` (a stamp need not move when a later change has an earlier instant),
`InventoryRespected` and `NotificationPolicy` (which recognise a new change by an instant later than
the clock before the step).

## 7. Not modelled

- A change of an alarm at an instant that its own history already has, to the nanosecond.
  `newPath2()` then finds the old status change, creates no node, and the code goes on with an empty
  optional (`Daemon.cpp:357`): its behaviour is undefined from there on.
- Changes of the time zone, in which the keys of `status-change` are written: a path built after
  a change no longer finds the nodes written before.
- What happens after an empty optional is dereferenced: the process ends in the model (`fault`).
- sysrepo itself beyond what the daemon sees of it: no second daemon, no other writer of the
  operational datastore, no loss of the connection.
- The operator actions of the YANG model (`set-operator-state`), which the daemon does not implement.
- The choice of the log sink, logging, the journal, timing, and the helpers for strings and
  libyang nodes: they keep no state, and what they return is part of the operators that use them.

## 8. Plan

Done: every component that keeps state is modelled, at two grains (`Daemon` for the data,
`Lifecycle` for the threads), with an abstract specification, liveness and theorems about all
safety properties. What could be added:

1. The properties that recognise a new change by its instant (`InventoryRespected`,
   `NotificationPolicy`) stated by the action that made it, so that they can be proved under
   `SteppedSpec`.
2. One model of both grains: `Lifecycle` with the data of `Daemon`, to follow an early RPC's effect
   on the lists. The state space of the product is the obstacle.
