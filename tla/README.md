# SMART Sniffer in TLA+

SMART Sniffer is two programs. A Go **agent** runs on the machine that has the
disks: it scans for devices, reads each of them with `smartctl`, reads ZFS pools
with `zpool`, and serves what it read as JSON over HTTP. A Home Assistant (HA)
**integration** in Python polls the agent, keeps one snapshot per poll, derives
from it whether a drive or pool needs attention, and raises and dismisses
persistent notifications; it also takes over what an App of an earlier release
kept. A page of its own in HA, the Control Center, shows the cards of all machines
and changes names, limits and what is shown. There are a dashboard card, an
installer and a mock agent beside them.

This directory models the parts that keep state across polls and share it
between goroutines, requests, polls, flows or jobs: what the agent publishes and
when, what the integration makes of a drive's readings and tells the user because
of it, which agent an entry is for, how the App's machines are handed over, what the
page is told, and the Replica's cards and files. TLC checks each module on small instances; the
theorems are proved with TLAPS for every value of the constants.

1. [Inventory](#inventory)
2. [Modules and the code they stand for](#modules)
3. [Runs: bounds and what they show](#runs)
4. [Fairness](#fairness)
5. [Proofs](#proofs)
6. [Where the code and its text disagree](#disagreements)
7. [Not modelled](#not-modelled)
8. [Plan](#plan)

## Inventory

### The agent (`src/agent`)

| part | state | operations | interacts with |
|---|---|---|---|
| **Drive cache** (`main.go` `DriveCache`, `smart_available.go`) | published `drives` and `driveOrder`, `firstPoll`, `protocolCache` and `satLearned` by path, SMART memory by drive id | `Refresh` (scan, one read per device, publish), `HandleDrives`, `HandleDrive`, `RunBackground` | `smartctl` (scan, `-a`, SAT retry), device statistics, filesystem and pool caches (refreshed at the end of a poll), HTTP handlers under an RWMutex |
| **Device statistics** (`devstat.go`) | memory by path and serial: absent, strikes | `devstatStatus` during the read of a device | `smartctl -l devstat`, drive cache |
| **ZFS pool cache** (`zpool_status.go` `PoolCache`) | `mode`, `running`, `ok`, `done`, `pools` | `Refresh` (starts a goroutine), `refreshNow`/`read`, `Status`, `Count`, `Pools`, `HandlePools` | `zpool` (with or without `-j`), `/api/health`, `/api/pools` |
| Filesystems (`filesystem*.go`) | the last list | `Refresh`, `HandleFilesystems` | the OS |
| Configuration, discovery, identity, mDNS, services (`config.go`, `discover.go`, `agent_id.go`, `advertise.go`, `service.go`, `main_windows.go`, ...) | files, sockets | start-up | the OS |

### The integration (`src/custom_components/smart_sniffer`)

| part | state | operations | interacts with |
|---|---|---|---|
| **Drive notifications** (`coordinator.py` `_handle_attention_notifications`, `smart_presence.py`, `devstat.py` D11) | `_prev_state`, `_prev_reasons`, `SmartPresence` (`seen`, `lost`), announced records in memory and in the entry's Store | one poll; `forget_device`; reload, stop, crash | HA's notifications and Store, `attention.py` |
| **Pool notifications** (`coordinator.py`, `pool_health.py`) | `_prev_pool_reasons`, the snapshot's `_pools` and `_pools_missing` | one poll, `forget_pool` | HA's notifications and device registry |
| **App handover** (`panel_import.py`) | ledger, waiting settings, skipped machines (one Store), jobs, one asyncio lock | import jobs, filling on a read, discard, `async_forget_entry` | the App, the config flow, HA's entries and devices, the panel's Store |
| **Drive readings** (`attention.py`, `extract.py`, `devstat.py`, `agent/devstat.go` `deriveVolumes`) | Device Statistics held by drive, in memory and in the Store; the user's limits in the entry | one poll's merge, `evaluate_attention`, the threshold form, `forget_device` | sensors, notifications |
| **Drive sensors** (`entity_plan.py`, `sensor.py`, `binary_sensor.py`) | created entities by unique id, the class of a drive's first plan | after each poll | HA's registries |
| Other entities and devices (`device_*.py`, `pool_entity.py`) | created devices | after each poll | HA's registries |
| **Config flow and agent identity** (`config_flow.py`, `agent_identity.py`, `host_name.py`) | entries (unique id, address, password, what is known of the agent), open flows | added by hand, by a card, by the Supervisor, by the panel; rediscovery; reauth, settings; after each poll | mDNS, the Supervisor, the user, the agents |
| **Replica** (`replica.py`, `replica_engine.py`, `replica_file.py`, `panel_replica.py`) | picks in memory and in a Store, the user's files, cards shown, devices | add, remove, edit, delete, save and upload; polls; removal of the Replica | the panel, HA's registries, the disk |
| **Control Center page** (`panel_ws.py`, `panel_data.py`, `panel_state.py`, `panel_net.py`) | the panel's Store (names, labels, hidden, order, removed), a last view of each machine in a Store of its own, the last build, what each subscription still has to push | the answer with everything, pushes, the calls on cards, a machine's deletion | the coordinators, HA's entries, the page |
| **Cards of drives** (`panel_view.py`, `panel_ws.py` limits) | none: computed from the last poll and the limits | rows and their marks; `thresholds/get`, `set`, `accept` | attention, the entry's limits |
| Network scan (`panel_net.py` 400-639) | a scan under way, its results | start, progress, cancel | the network, the page |

### What makes each part correct

* **Drive cache.** What is published was read: no drive is invented, an old
  reading is marked as one, a drive whose path is still scanned does not drop
  out, no two entries claim one path, and the order lists exactly the drives.
  SAT is learned only where the code may learn it and is used once per poll.
* **Device statistics.** A drive that cannot give them is left alone after the
  first "absent" or timeout and after the strikes are used up.
* **Pool cache.** One `zpool` at a time however long the kernel holds it; a
  failed read is never served as "no pools"; when `zpool` works again its pools
  are published again.
* **Notifications.** What is on the screen is what the last judgement says, a
  problem is on the screen unless it was a silent baseline or dismissed, a pool
  that was removed on purpose is not reported missing, a reason of Device
  Statistics is told once and not lost.
* **Drive readings and sensors.** What a drive says of itself is always shown;
  every limit that the form offers can be given a value that accepts the reading
  beside it; the form, the sensors, the Health sensor and attention read one
  table alike though each has name tables of its own; a failed read of Device
  Statistics changes nothing and a new drive in a slot inherits nothing; a drive
  has the sensors of one protocol, and every row of its table is shown.
* **Entries.** One unique id each; no agent is added twice; an entry does not
  take over another agent's identity and moves only to its own agent.
* **Replica.** Two calls never give one name or identity; what was answered as
  added stays until someone asks it to go; a file that a card uses is not
  deleted; what is shown catches up with what is picked.
* **Control Center.** Once nothing is on its way the page shows each machine as
  its last poll left it and the marks of the Store; a card that was answered as
  removed does not come back; of a deleted machine nothing is left. A drive's card
  shows every reason of its verdict, and Accept leaves none that a limit could
  take away.
* **App handover.** A machine is made once however often it is sent; what the
  App clears is kept; the user's settings win; a deleted machine is forgotten;
  what waits is filled in the end.

### What makes it hard

* **Interleaving.** HTTP handlers read the caches between a poll's steps, in
  more than one critical section. A `zpool` in an uninterruptible sleep outlives
  its deadline, so readers could overlap. On the Python side everything between
  two awaits is atomic, but a poll's requests, a config flow, the reading of a
  view and the writing of a Store are all awaits: the user removes a device or a
  machine, another job starts, an entry is reloaded in between. A view that was
  never read in this run suspends a push in the middle, and the next one overtakes.
* **Stale state.** Drives move between paths; the agent recovers an unread
  device from its last entry by path, remembers SAT by path, Device Statistics
  by path and serial, SMART presence by an id that is a slug of a serial or of a
  path.
* **Failure.** Every `smartctl` call fails, hangs, sleeps or answers for another
  drive; a scan fails; polls fail; a flow fails; an item fails a whole job.
* **Restart.** Coordinators forget on a reload. A Store writes a second or more
  after it was asked to: a stop writes it, a crash does not, a reload reads the
  file before the old Store has written it.

## Modules

`X_Y`, an operator with the name of another one and a suffix, is that
operator with a mistake that a change of the code could make. No behaviour uses
it; the properties are tried on it (`PROJECT.json`, "mutants").

### PoolFeed, PoolCache (`zpool_status.go`)

`PoolFeed` is what the pool cache promises: reads do not overlap, and what is
published when a read ends was true at some moment of that read, or says that it
failed, or that none has ended yet.

`PoolCache` is the code: `Refresh(r)` sets `running` and starts goroutine `r`
unless one runs (then it is a stutter); `ReadMode`, `RunJSON`, `RunText`,
`Store`, `ClearRunning` are the steps of `refreshNow`, split where the lock is
taken and released and where `zpool` runs. `PoolsCheck`/`PoolsList` and
`HealthStatus`/`HealthCount` are the two critical sections each of `HandlePools`
and `handleHealth`. `ZpoolChanges` lets `zpool` know `-j` or not, fail, or be
held by the kernel. `PoolCache` implements `PoolFeed` with `running` as
"reading" and `Status()` and the list as the feed.

### DriveCache (`main.go`, `smart_available.go`, `devstat.go`)

One `Refresh` is `StartPoll` (the first poll's flag), `ScanFails` or `ScanOK`
(scan, exclusions, overrides), one `ReadDevice` per device (protocol cache,
`-a`, SAT retry, standby, identity, SMART memory, device statistics, recovery by
path), and `Publish` (one critical section). `Attach` and `Detach` move disks
between any two of these; a disk does not change within one device's read. A
poll that is still running makes the ticker's call a stutter. The scan lists a
path once. Identities are slugs: `Slug` is a constant function of a serial or
path, as `makeDriveSlug` is. A restarted agent remembers nothing and is a new
behaviour.

### PoolNotices, DriveNotices (`coordinator.py`, `pool_health.py`, `smart_presence.py`, `devstat.py`)

A poll is two actions: the agent answers (`Fetch...`), and the answer is handled
(`Handle...`). Everything after the last request runs without giving way, so
handling is one action with all its calls: the presence of SMART data, the
transitions, the notifications, the snapshot, the announcements. Between them
the user may remove a device (`RemoveDevice`, `Forget`: HA's callback and the
removal from the registry) or dismiss a notification, and the entry may be
reloaded, which drops the poll in flight. Reloads keep HA's notifications,
restarts clear them. `DriveNotices` has the Store: a save that was asked for
(`pending`), the file, and the saves that the Stores of earlier loads still owe
(`leftovers`).

A drive's verdict and a pool's condition stand for the data: the state and the
set of reasons, without wording.

### AppHandover (`panel_import.py`)

`at` is where the holder of the asyncio lock is: `free`; `next`, `create`,
`made`, `fill` in a job (`async_run`); `app`, `held` in the filling after a read
(`_async_apply_waiting`). Each action runs from one await to the next that
matters: asking the flow to make the machine, the machine's view being read.
`TakeField` .. `FillItem` are `_field` and `async_fill`, `TakeSelf` and
`SelfWaits` are `_self`, `Record` is `_record`. `StartApply`, `ApplyApp`,
`ApplyHeld` fill what waited. `ForgetEntry` takes no lock, as in the code.
`FillGone`, `FieldRefused`, `SelfRefused` and `ApplyGone` are what happens when
the machine was deleted meanwhile: HA refuses a change of the deleted entry's
data, or there was nothing to change. `Load` is a new `AppImport` after a
restart; `Stop` writes a save that is due and waits for the filling but not for
jobs; `Crash` writes nothing.

The App (`AppSends`, `AppClears`, `ReportLost`) sends what it has not cleared
whenever it likes and clears what a report calls done. The user adds, deletes
and sets up machines at any time.

A setting is a name that is set, by the App or by the user, or not. `Immediate`
are those that need neither a device nor a read of the machine; the others can
be filled once `ready`.

The history variable `orderly` says that no job or filling was cut off and that
no machine was deleted while it was being filled; what is promised across those
is weaker, see [below](#disagreements).

### Volumes, Attention, Sensors, DriveView, DriveReadings

`Volumes` (`agent/devstat.go` `deriveVolumes`) is the agent's choice of one
figure for what was written: Device Statistics, else a vendor's row in a known
unit, each behind a plausibility test, at 48 or 64 bits.

`Attention` (`attention.py`) has the readings of one payload, each with its label
and value, how a limit is tried on it, and the verdict; with the rows of one label
read in the drive's order, dead wear rows skipped, packed timeouts decoded,
wear that counts up, and gaps filled from Device Statistics. `CurrentReadings`,
`Prefill` and `OverridesFromForm` are the threshold form. `Sensors`
(`extract.py`, `entity_plan.py`, `devstat.py`) has what each sensor shows, which
sensors a payload calls for, and `Merge`, what a poll makes of the statistics held.

`DriveView` (`panel_view.py`, `panel_ws.py`) is the card of one drive: its rows,
read from the payload by tables of their own (`DataRows`), the marks that the
verdict's reasons put on them (`MarkedRows`), and the page's limits: what
`thresholds/get` calls flagged, `SetLimits`, `AcceptAll`. The code matches a
reason to its row by the reason's text; here a reason has its label. A row is
known by its key and whether it stands for Device Statistics.

`DriveReadings` is one drive over time: `Poll`, `PollWithout`, `PollFails`, the
delayed `Save` of what is held, `Restart` (with the file or, after a stop, with
with what was held), `RemoveDevice`, `OpenForm`, `SubmitForm`, `PanelSets`,
`PanelAccepts`. `data` is `coordinator.data` of that drive; attention, the sensors
and the card are operators of `data` and `limits`, as the code computes them anew
at each update. The form overwrites the limits with its fields as they were when it
was opened; the page changes those that it was asked to.

### Entries (`config_flow.py`, `agent_identity.py`, `coordinator.py`)

An agent is a machine with a name, an `agent_id` (or none, before releases that
have one), its drives and the password it asks for; `at` says which agent answers
at which address, and `Change` lets an address go to another agent, an agent to
another address, or a host be renamed. A flow goes from one network read to the
next: `SubmitUser`, `Import`, `Announce` (the choice of an address, the migration
of early unique ids, `_may_move`) and `Hassio`/`Greet` begin it; `Connect`,
`Claim`, `CheckElsewhere`, `Create` are `_test_connection`, the unique id's
checks, the comparison with other entries and the entry; `ProbeOwn`, `ProbeThere`,
`Move` are steps a to d of a rediscovered entry's move. `PollDrives` and
`PollHealth` are what an entry learns of its agent; `PollRefused`, `GivePassword`,
`Reauth`, `Settings` its password. Everything else may happen between any two.

`earlier`, `steady`, `doubled` are history: what a flow could have found, whether
the network stayed as it was, and whether it made an entry beside one with its
agent.

### Replica (`replica.py`, `replica_engine.py`, `panel_replica.py`)

The panel's calls are jobs that run from one await to the next: `AddFind`,
`AddCheck`, `AddMake`, `AddMade`, `Save`, `RefreshStart`, `AddDone`; `RemoveLook`,
`RemovePolled`, `ForgetPickDevice`, `RemoveLast`; `DeleteLook`, `DeleteFile`;
`EditLook`, `EditWrite`, `EditDone`; and the writing of a saved card or an upload,
which takes no lock. `lock` is `ReplicaRuntime.lock`. The coordinator's own poll
copies the picks and publishes later, so polls overtake each other; the removal
of the entry has its steps (`ForgetEntry`, `EntryLeaves`); files may vanish by
hand, and Home Assistant restarts. A file is its kind and the name it asks for.

### Panel (`panel_ws.py`, `panel_data.py`, `panel_state.py`, `panel_net.py`)

One page. `OpenPage` and `Refresh` ask for everything: `StartAnswer` and
`AnswerRead` are `async_cards`, which goes from machine to machine and waits where
a last view must be read from its file. `Flush` and `PushRead` are the push of
`ws_subscribe` with the same waits; several can be on their way at once. `Begin`,
`StoreRead`, `ViewRead` are a call (hide, show, place, name, label, remove to the
trash or delete), which may wait for the Store and for a view. `LoadStore` reads
the Store once in a run, or finds one of a newer release, after which it is read
only. `SetUp`, `Poll`, `PollFails`, `HealthPolled`, `Unload` are what the
coordinators do and tell of; `Delete`, `LeaveUnload`, `LeaveDrop`, `LeaveForget`,
`Leave` the steps of a deletion; `Save` and `SaveView` the delayed saves; `Stop` and
`Crash` a restart with them or without.

`built` and `fits` are `fresh_response`: a poll's build is used again while its key
is the same, and the key is the `id()` of objects, which new objects may have by
chance once the old ones are gone (`chance`). `trashed`, `outdated` and `touched`
are history: what was answered as removed, whose last message was old when it was
sent, and which deleted entries a call or a crash interfered with.

A page's call for everything and its subscription are one step, as the page makes
them together; a push that waits for the Store is one that begins later; the read
of a view and what follows up to the next wait are one step. The device names that
a rename also gives to HA's registry are left out.

### MC modules

`MCPoolCache`, `MCPoolNotices`, `MCDriveNotices`, `MCDriveCache`,
`MCAppHandover`, `MCDriveReadings`, `MCEntries`, `MCReplica` and `MCPanel` extend the module
they check, define the functions a `.cfg` cannot write (slugs, overrides,
payloads, which item is which machine), and the symmetry of the two disks, of
flows, and of the page's cards, pushes and calls.

## Runs

| run | instance | checks | shows |
|---|---|---|---|
| `pool_cache` | 2 readers, 1 request, 1 pool | `ImplementsPoolFeed`, `RecoversWithZpool` | readers never overlap, the cache implements `PoolFeed`, and it recovers with `zpool`, with or without `-j` |
| `pool_answers` | 1 reader, 1 request, 1 pool | `AnswersMeanRead` **violated** | an empty list nobody read is served between two critical sections |
| `drive_cache` | 2 disks, a SCSI path and a path with an override, 2 polls | `OneDrivePerPath`, `StaleIsMarked`, `NeverFabricated`, `LostSerialGaveSmart`, `KeepsScannedDrive` | the published list stays true while disks move, sleep and fail |
| `drive_unreadable` | 1 disk, 2 paths, 2 polls | `UnreadableWasNotRead` **violated** | a drive read at its new path is replaced by its stale entry |
| `pool_notices` | 1 pool, 2 reasons, 2 reloads or restarts | `ShownIsCurrent`, `ProblemIsShown`, `MissingIsRegistered`, `MissingIsTold` | notifications follow the memory; a pool that stays away is told |
| `drive_notices` | 1 drive, 2 reasons of which one is Device Statistics', 2 interruptions | `ShownIsCurrent`, `ProblemIsShown`, `GapIsTold`, `AnnouncedOnce` | the same for drives, and what is told across stops |
| `app_handover` | a field item and the App's own, of two machines; 2 entries, 1 setting, 1 job at a time | `MadeOnce`, `NothingLost`, `GoneIsForgotten`, `UserWins` | retries, lost reports, deletions, stops and crashes at every step |
| `app_handover_filled` | two items of one machine; 1 entry, an immediate setting and one that waits | `WaitingIsFilled` | what waits is filled in the end |
| `replica` | 2 calls at a time, 2 shipped and 2 user files, 3 calls or hands laid on things | `CardsKeptApart`, `FileInUseStays`, `AddedIsKept`, `CardsCatchUp` | one lock is enough for names, files and answers, though polls and the Replica's removal take none |
| `drive_readings` | a disk, a WD SSD, an NVMe drive, a slot of drives without a serial; 3 to 5 payloads each; a limit of a count or of wear, or all accepted | `FailureIsShown`, `ReadingCanBeAccepted`, `SensorsAgree`, `UnhealthyNeedsAttention`, `NothingInherited`, `ReasonsAreOnTheCard`, `EveryRowIsShown`, `FailedReadsChangeNothing`, `AcceptSettles` | five readers of one table agree; held statistics are shown when and only when they should be; Accept leaves nothing that a limit could take away |
| `entries` | 2 agents with the same drives, 2 addresses, 2 entries, 2 flows, 1 change of the network, 3 starts | `UidsDiffer`, `NoTwin`, `IdentityStays`, `MovedToItsAgent` | two flows and two entries' polls in every order |
| `panel` | 1 machine of up to 2 cards, 1 page, 2 pushes and 1 call at once, 4 operations | `PageIsCurrent`, `TrashedStaysAway`, `GoneLeavesNothing` | no order of polls, pushes, calls, deletions and restarts leaves a change untold, a removed card back, or a trace of what is gone |

**Bounds.** `MaxPolls` (2) and `MaxLoads` (2) are the counters of the caches and
the notifications; each is large enough for the case that matters: a poll that
publishes and one that recovers what it published, a reload after an announcement
and one after that. Device Statistics are off in `drive_cache` (`MaxStrikes` is not
reached): with them two disks are too many states, and what concerns them is proved.
One drive, pool or machine is enough where each has a memory and a
notification of its own and no step relates two of them; two disks and two paths
are what it takes to swap, duplicate and recover drives; two items and two
entries what it takes to make a machine again after it was deleted and to fill
one machine twice.

In `drive_readings` 16-bit words are 8 bits wide and hours are packed above 2000,
so that packed values fit small numbers; `MaxLimits` is 1 where limits are set by
hand, for limits of two labels do not meet in any operator but Accept, which is not
bound by it; `Edited` has a count and wear, the two ways a limit is compared, and
`Values` a limit below and one above the readings; Accept sets those of all labels. In `entries` `MaxBegun` flows begin (2) and
both may be open at once, `MaxChanges` (1) is one move, renaming or swap of an
address, and the three starts are: both agents there, an entry of an early release
with its agent, and an agent without an id. The agents have different names: one
that has the name of another is [taken for it](#disagreements). In `replica`
`MaxOps` (3) counts calls, deletions by the user and restarts: an add, a removal
and what comes between; `MaxFolderFiles`, `MaxPools` and `MaxDrives` are at most
2, so that each is reached. In `panel` `MaxOps` (4) counts what comes from outside:
polls, calls, pages, deletions, restarts; the steps that follow from them are not
counted. Four are a page, a change before or after its answer, a second change while
the first is on its way, and a deletion or restart. Machines do not meet except in
one push or answer, whose order over several machines is any (`Runs`), so one
machine is checked; its two cards tell a part of a machine from the whole.

What the proofs cover does not depend on these bounds.

`replica`, `entries` and `panel` do not check for deadlock: calls, flows, polls and
changes of the network end at their bound, and a Replica, a network or a page with
nothing left to do may stop. The other runs do check: polls end at their bound only in
`DriveCache`, where disks can still be moved.

## Fairness

* `PoolCache`: the ticker calls `Refresh` again and again (weak), and a reader
  goes on unless the kernel holds its `zpool` (weak): `exec`'s deadline and
  `WaitDelay` end every other run.
* `PoolNotices`: an answer is handled (weak), and a poll that could be answered
  with a list again and again is (strong). The second is an assumption on the
  network and the agent, not on this code; without it nothing could be told.
* `AppHandover`: a job's and a filling's steps are weakly fair (each await has a
  time limit), and the lock is given to whoever waits (strong), as asyncio's lock
  wakes its waiters in order and machines are polled again and again. That the
  machine stays and becomes ready, and that HA stays up, are premises of the
  property.
* `Replica`: polls are weakly fair (the coordinator's interval goes on) and so
  are the two steps of a removal that Home Assistant carries through. A call's
  steps are strongly fair: whoever waits for the lock gets it, for asyncio wakes
  waiters in their order, and what a call awaits (a file written by the executor,
  a poll without a network) ends. `CardsCatchUp` says what follows once calls end.
* `DriveCache`, `DriveNotices`, `DriveReadings`, `Entries` and `Panel` state no
  fairness, and no liveness is claimed of them: that a poll succeeds, an agent
  announces itself again, a page is opened or the user answers a form is nothing
  that this code brings about. `PageIsCurrent` and `TrashedStaysAway` speak of a page
  to which nothing is on its way.

## Proofs

Each `...Proofs` module proves the types first (`Spec => []TypeOK`; in
`DriveReadingsProofs` they are `Records` and what follows it). The other theorems and
the inductive invariants they need:

* `PoolProofs`, of the cache (as `Cache!`). `OneZpool` is inductive only together
  with `RunningMeansAlive`: the flag is up exactly while a reader is alive. For
  `CacheImplementsPoolFeed` it is also needed that what a reader is about to
  store was imported at some moment of its read (`WindowCoversRead`) and that a
  failed read publishes an empty list; then every step maps to a step of
  `PoolFeed` or a stutter. `WrongAnswersAreEmpty` says how far the finding of
  `pool_answers` reaches: what is answered though nobody read it is the empty list,
  or a count of none, and never the pools of another read. The theorems of the cache
  have as a hypothesis that the pools are finitely many.
* `DriveCacheProofs`. A poll builds its list and exchanges it with the published
  one at the end, so the list being built must have the properties of the
  published one (`Building`: `OrderAgrees`, `StaleDataMarked`,
  `NothingFabricated`). For `OnePerPath` and `ScannedDrivesStay` the poll so far
  is described device by device (`ReadSoFar`): its entries are of devices it has
  been through, one per path, and of those devices it dropped no drive unless it
  read another one there. `OnePerPath` assumes that slugs keep serials and paths
  apart. `UnreadableAtItsPath`, from the same description of the poll, says how far
  the finding of `drive_unreadable` reaches: a drive published as asleep or
  unreadable was not read at the path it is listed at, only perhaps at another.
  `LearnedStaysSAT` needs that overrides name a path once.
* `PoolProofs`, of the notifications. `ShownCurrent`, `ProblemShown` and `MissingRegistered`
  are inductive together with the types; each needs that handling an answer
  writes the memory and the notification in one step.
* `DriveNoticesProofs`. `ShownCurrent`, `ProblemShown` and `UnsupportedUnraised`
  need that a drive judged by its SMART data was seen (`SeenJudged`) and is in the
  snapshot (`PrevListed`). `GapTold` and `AnnouncedOnceOnStops` need `OneRecord`:
  while only stops interrupt, what was told is what is announced, and that is in
  the file or due to be saved.
* `AppHandoverProofs`. `IInv` says what the lock's holder has in hand (`InHand`),
  that what it still has to do is not in the ledger (`TodoOpen`), that deleted
  entries were entries (`Known`), and, while orderly: that the machine in hand is
  here, that what is not in the file is due to be saved (`Saved`, without which a
  stop would lose the ledger), that an item a machine was made for is in the
  ledger or in hand (`MadeOk`), and that a row's machine is its item's. From it
  `EachIsMadeOnce` and `TheGoneAreForgotten`. `NothingClearedIsLost` adds that
  every recorded item is kept (not only a cleared one, for clearing is not a step
  of this code) and assumes that no two items are of one machine: a second item
  [replaces what waits](#disagreements) of the first.
  `SettingsOfTheUserStay` needs the types only.
* `DriveCacheProofs`, further: `OneSATCallAPoll` needs that a scan names SAT for
  no device unless an override does (`DevicesScanned`), so that the retry and the
  learned SAT exclude each other. `LostMeansGave` relates the SMART memory to the
  disks: what is in it was given by a disk whose id that is (`SeenGave`), and no
  other disk has it (`SlugKeepsApart`, `SerialsApart`). `DevstatEnds` relates the
  device statistics' memory to the answers since the last reading (`Covers`,
  `GaveUp`).
* `EntriesProofs`. `IInv` is `TypeOK`, `FlowsOK` (what a flow carries at each of
  its phases), `UidsDiffer` and `NamedById`: an entry that has an agent's id has
  the name of a host with it, so that an agent of another name is adopted only
  where the id is the same. From it `UniqueIds` and `IdentityKept`.
  `NoneIsDoubled` needs `Beside`, what every open flow has asked of the entries that
  were there before its last button: from the claim on, none of them is at its
  address; from the comparison on, each was told not to be its agent (`RuledOut`);
  and while the network is steady what it read still holds. `MovedAsFound` needs
  `Moving`, what a moving flow has found at each step (`MovingOK`), and that no two
  moving flows have one unique id (`MoversDiffer`): otherwise the second would move
  an entry that is no longer where the first found it. That is what HA promises
  to a flow that sets its unique id (`InProgress`).
* `DriveReadingsProofs`. `IInv` is `Records`, `RowsOK`, `NumbersOK`, `LimitsOK`,
  `ClassOK` (a drive's class is that of the payload its first plan saw),
  `PlanCreated` (what the data call for is created), `HeldIsShown` and
  `NothingInherited`. `FailureShown` and `UnhealthyIsSeen` are about operators
  with every case of a payload; `FailedReadsAreSilent` compares two verdicts, one
  with the rows of Device Statistics and one without; `OneClassOnly` and
  `NumbersAreItsOwn` need the history. `SensorsAgreeAlways`, `ReadingsCanBeAccepted`
  and `EveryRowShown` compare two readers of any table: each goes from a label or a
  row to the row that the other would take, by the name tables, and treats the
  special rules (wear, packed values, dead rows) one by one. `AcceptanceSettles` goes
  from a remaining reason to the form's reading of the same label and value, which
  was flagged and whose new limit accepts it; that reading is unique unless the label
  is told twice. `ReasonsReachTheCard` goes from a reason to the row its text names
  and shows that the card has the same value there (`CardAgreesWithTable`).
* `ReplicaProofs`. `CardsStayApart` needs `Locked`, that a call between its look
  at the cards and their save has the lock, and `AllApart`: the cards held, those
  of every Store and those about to be saved keep apart, and their ids are below
  the next one. Names are free against the whole batch (`ApartBatch`). `StoreInv`
  says that what is held is what is saved, except under a save, and that a call
  saves what it put in the picks, to the entry that is there. With it `AddedStays`
  follows from `OwedKept`: what is answered as added, or is saved and will be, is
  held, in the Store and in what any call is about to save. `UsedFilesStay` needs
  `FilesInv`: the files of all three are there, those found for an add as well,
  and a deletion that has looked has a file that none of them has. Every step of
  a call is one of four kinds (`StepKinds`), so each invariant is argued four times
  and not for every action.
* `PanelProofs`. The page is current only at rest, so the invariant has to say what
  keeps it from being at rest: a machine is `Owed` to the page while a flush is due
  for it or a push has it in hand or still to do, and one that is not owed is shown
  as it is (`ShownOK`). Every step that changes what a machine's message would say
  owes the machine to an open page, so only the sending has to be looked at: a
  message that was computed before a wait and is old when it is sent makes its machine
  `outdated`, a build whose key fits by chance (`fits`) is that of the poll before, and
  both are excepted until the next change. `TheTrashedStayAway`
  needs that the mark is in memory, or in the file while the memory is unread
  (`Kept`), which a stop preserves because what is not in the file is due to be saved
  (`StoreOK`). `TheGoneLeaveNothing` needs the steps of a deletion in their order
  (`EntryOK`): no view of a dropped entry is saved afterwards, and a machine that
  was forgotten gets no mark again (`ForgottenOK`) unless a call or a crash
  interferes. The page's settings are those of the Store unless a message about
  them is due (`SettingsOK`).

Assumptions are the named `ASSUME`s of the modules: the special values are not
members of the sets, functions have their types, overrides name a path once.
They hold in every instance that is checked.

**Only model-checked**: the liveness properties (`RecoversWithZpool`,
`MissingIsTold`, `WaitingIsFilled`, `CardsCatchUp`), which are out of the prover's
reach, and the two violated properties, which are false. Every invariant and
every action property of a passing run is a theorem.

**Only proved**: `OneZpool` (which `ImplementsPoolFeed` contains), `OneSATCall`,
`DevstatGivesUp`, `OneClass`, `OrderAgrees`, `LearnedMeansSAT`,
`UnsupportedNeverRaised`, `AnswersReadOrEmpty` and `UnreadAtItsPath` are theorems that
no run repeats.

## Disagreements

Shown by a run (`PROJECT.json`, "findings"):

* `/api/pools` can answer an empty list that no read gave (`pool_answers`);
  `/api/health` has the same gap between `Status()` and `Count()`.
* A drive that moved away from an override path is published as unreadable though
  this poll read it (`drive_unreadable`).

Met while modelling, without a run. Of the agent:

* `firstPoll` is cleared before the scan, so a first poll whose scan fails takes
  no baseline (`main.go:754`; `main.go:651` and `src/README.md:110` say the first
  poll always wakes everything once).
* Drives without a serial share their path's SMART memory, so a second such drive
  at a path can be called `smart_lost`. `LostSerialGaveSmart` is stated for
  drives with a serial.

Of notifications:

* The record of an announcement is not written straight away, so a crash or a
  quick reload repeats the announcement; a reload within the save's delay can
  also bring back a record that `forget_device` had removed.
* A drive or pool that clears around a reload keeps its notification.

Of the handover:

* Two items of one machine: the later one's waiting settings replace the earlier
  one's; so do those of the App's own machine when it came as a field machine too
  (`panel_import.py:641`).
* `async_forget_entry` takes no lock: a machine deleted while it is filled can be
  recorded after it was forgotten, its row never marked removed, its waiting
  settings left behind. `GoneIsForgotten` is stated for runs without that.
* The App clears its copy when a job is done, the record is written a second
  later: a crash in between loses it.
* When the panel's Store is of a newer release (`PanelStateNewer`), names and
  hidden marks are dropped though the item's outcome is final.

Of entries:

* Two flows under different unique ids whose checks overlap can each make an
  entry for one agent: `NoTwin` is about the entries that were there before a flow's
  last button (`earlier`). A waiting card ends the other flows of its unique id.
* An entry that is given the unique id of one deleted meanwhile is moved in its
  place, and ids are not compared at a move: name and drives are
  (`config_flow.py:596-629`). A poll whose two requests were answered by two agents
  gives an entry without an id the name of one and the id of the other.
* An entry adopts the id and drives of any agent that answers under its host
  name, and one without an id those of an agent with the same drives, a cloned
  machine for example (`agent_identity.py:178-211`).
* An import without a number of drives and without a password cannot recognise
  that it is of an agent already there.
* A token given while a move is being decided goes with the entry to the
  advertised address (`config_flow.py:596-629`).
* An early entry that migrates to a unique id while a card with that id is past
  its check would be replaced when the card's entry is made.
* The form is checked against the labels of the moment
  (`config_flow.py:1176-1188`), not those the form had when it was opened.

Of readings and sensors:

* Attention judges packed raw values undecoded except `Command_Timeout`'s, though
  `CHANGELOG.md:529` says they are decoded everywhere.
* `forget_device` says a drive "starts afresh", but its limits stay in the entry.
* The form's current reading is the first row of a label even when that is 0 and
  another row is judged; the Health sensor has a name table of its own, without
  `Retired_Block_Count`, and no regard for limits.
* A row with a label's name but another id than the standard's, reading 0, while
  Device Statistics report: the form shows the 0 and attention judges the statistic
  (`attention.py:406-407`, `devstat.py:289-329`). `ReadingCanBeAccepted` and
  `AcceptSettles` except it.
* The form that is open while the page sets a limit overwrites it with what its
  field had.
* The card's wear row takes every table's wear to count down
  (`panel_view.py:541-544`), where attention knows WD's that counts up
  (`attention.py:176-182`).
* Where a log has spare but no threshold of the drive's own, the page's limits call
  it flagged though attention gives no reason (`attention.py:813`).
* Two labels of one row of the card show the first row's value, marked for the
  other (`Offline_Uncorrectable` 0 marked for `Total_Offl_Uncorrectabl`).
* A SCSI drive first planned without a table never gets ATA sensors before a
  reload, as intended.

Of the Control Center:

* The key of a build is the `id()` of objects that are gone when it is compared
  (`panel_data.py:224`): a new object can have it by chance, and a build that is
  made "once per poll" then shows the poll before. `PageIsCurrent` excepts it.
* A push or an answer that waited for a view's file is sent as it was computed, after
  newer ones, also for a machine that was removed meanwhile (`panel_ws.py:662-676`);
  the next change of the machine mends it.
* `_every_card_removed` asks whether some card of the agent was removed, not every
  one (`panel_net.py:151`); an agent added before the Store was read does not see
  that its cards were removed.
* A machine whose agent is added again while its deletion is under way is deleted
  all the same.
* A call that waits while its machine is deleted leaves its marks behind:
  `GoneLeavesNothing` is about the others.

Of the Replica:

* A refused add that finds a newer Store is refused after the cards in memory were
  replaced, though a comment says a refused add changes nothing.
* Polls take no lock: one that began before a removal and ends after the removal's
  own creates the removed device again; a crash between the save and the removal
  of the device leaves it there.
* Whether a removed card is the last is decided under the lock and acted on
  after it was given back (`replica.py:319`, `replica.py:333`): a card added in
  between goes with the Replica. `AddedIsKept` ends where a removal of the Replica
  begins.
* Two uploads, which take no lock, can exceed the folder's limit together; a save
  after `async_forget_entry` makes a Store file nobody has; forgetting a pool by
  its name can take the device of one that was picked again.

## Not modelled

* Parsing (`smartctl`, `zpool`, devstat pages, Replica documents and their
  validation), the wording and layout of anything, logging.
* HTTP itself, authentication, mDNS, services, files of the OS.
* In the modelled files: log throttling; the announcement on the first sight of a
  Replica's drive (`_notifies_first_poll`); the App's card order, its Replicas and
  passwords, the report line and the limit of kept jobs of the handover; the drift
  of a replayed drive's readings; stored limits that are not numbers; filesystem
  and agent entities; the scan of the network, `agentic_export` and the page
  information of the Control Center, its cards of pools and filesystems; of a drive's
  card the grown defects of SCSI drives, notes, statistics, volumes and the mark that a
  row was accepted; agents of before v0.8.3, which have no host name; what was
  read, of the two volumes.
* The parts `PROJECT.json` lists as `not_modelled`, with their reasons.

## Plan

Built so far, in the order of what matters most: the agent's caches, the
notifications, the handover, the readings with their sensors and cards, the
entries, the Replica, the Control Center's page, each with the proofs of what its
runs check. Next, in this order:

1. **Compositions**: the pool cache with the pool notifications (what the user is
   told was true of the pool), the drive cache with the coordinator's poll (a
   drive that goes between the list and its request, `coordinator.py:330`), the
   readings with the drive notifications, whose verdict is still a constant set.
2. **Scans** (`panel_net.py` 400-639): a scan's start, progress and cancellation.
3. The drift of replayed readings, and the second volume.
