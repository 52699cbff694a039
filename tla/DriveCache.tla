------------------------------ MODULE DriveCache ------------------------------
(***************************************************************************)
(* The agent's drive cache (agent/main.go, type DriveCache): one goroutine *)
(* calls Refresh on a ticker, which scans for devices, reads each of them  *)
(* with smartctl and publishes the new list under the lock.                *)
(*                                                                         *)
(* A poll is StartPoll, then ScanFails or ScanOK, then one ReadDevice per  *)
(* device, then Publish; the host's disks may be moved, added or removed   *)
(* between any two of these steps.  What smartctl answers is chosen from   *)
(* everything its exit bits can say.  Only Refresh touches the variables   *)
(* below except drives and driveOrder, which the HTTP handlers read        *)
(* under the lock, each in one critical section.                           *)
(*                                                                         *)
(* Nothing is persisted: a restart of the agent is a new behaviour.        *)
(***************************************************************************)
EXTENDS Naturals, Sequences, FiniteSets, Functions

CONSTANTS
  Disks, NoDisk,     \* the physical drives, and an empty slot
  SerialOf,          \* SerialOf[d]: the serial smartctl reads, or NoSerial
  Serials, NoSerial,
  Paths,             \* device paths (/dev/sda, ...)
  Ids, Slug,         \* Slug: makeDriveSlug of a serial or of a path
  ScanProtocol,      \* ScanProtocol[p]: what a scan may call the device at p
  DeviceOverrides,   \* device_overrides of the configuration, in its order
  Excluded,          \* exclude_devices
  UsesStandby,       \* standby_mode is not "never"
  DevstatEnabled,    \* device statistics are on, and this is not macOS
  MaxStrikes,        \* devstatMaxStrikes
  MaxPolls           \* bound: polls in one run of the agent

ScanProtocols == {"none", "scsi", "ata"}                \* "none": no protocol key
Protocols     == ScanProtocols \cup {"sat"}
SerialOrNone  == Serials \cup {NoSerial}

ASSUME DisksAssumption == NoDisk \notin Disks /\ NoSerial \notin Serials
ASSUME SerialAssumption == SerialOf \in [Disks -> SerialOrNone]
ASSUME SlugAssumption == Slug \in [Serials \cup Paths -> Ids]
ASSUME ScanAssumption == ScanProtocol \in [Paths -> SUBSET ScanProtocols]
Device   == [name : Paths, protocol : Protocols]        \* scanDevice
Override == [name : Paths, protocol : Protocols \ {"none"}]
ASSUME OverrideAssumption ==
  /\ DeviceOverrides \in Seq(Override)
  /\ \A i, j \in DOMAIN DeviceOverrides :
       DeviceOverrides[i].name = DeviceOverrides[j].name => i = j
ASSUME ConfigAssumption ==
  /\ Excluded \subseteq Paths
  /\ UsesStandby \in BOOLEAN /\ DevstatEnabled \in BOOLEAN
  /\ MaxStrikes \in Nat \ {0} /\ MaxPolls \in Nat

VARIABLES
  drives, driveOrder,          \* what /api/drives serves
  firstPoll, protocolCache, satLearned,
  devstatMemory,               \* by path and serial
  smartSeen,                   \* ids that gave SMART data (smartMem.seen)
  pc, isFirst, devices, next, newDrives, order,   \* Refresh's own
  disk,                        \* host: the drive at each path
  poll, published,             \* history: this poll, and the last to publish
  readNow, readLast,           \* history: path and id of what this / that poll read
  answered,                    \* history: path and serial of readable answers
  gaveSmart,                   \* history: disks that gave SMART data
  calls,                       \* history: the -d of the last device's -a calls
  asked                        \* history: devstat answers, by path and serial

cache   == <<drives, driveOrder>>
learned == <<protocolCache, satLearned>>
memory  == <<devstatMemory, smartSeen>>
local   == <<isFirst, devices, next, newDrives, order>>
hist    == <<published, readNow, readLast, answered, gaveSmart, calls, asked>>
vars    == <<cache, firstPoll, learned, memory, pc, local, disk, poll, hist>>

Keys == Paths \X SerialOrNone
DevstatMem == [absent : BOOLEAN, strikes : 0..MaxStrikes]
DevstatStatuses == {"off", "not_applicable", "present", "absent", "failed",
                    "timeout", "standby", "mismatch", "stopped"}
Drive == [path : Paths, serial : SerialOrNone, disk : Disks, standby : BOOLEAN,
          readable : BOOLEAN, lost : BOOLEAN, devstat : DevstatStatuses,
          updated : Nat]

(* A Go map write.                                                         *)
Put(f, k, v) == [x \in DOMAIN f \cup {k} |-> IF x = k THEN v ELSE f[x]]

IsOverride(p) == \E i \in DOMAIN DeviceOverrides : DeviceOverrides[i].name = p
OverrideOf(p) ==
  DeviceOverrides[CHOOSE i \in DOMAIN DeviceOverrides : DeviceOverrides[i].name = p].protocol

Init ==
  /\ drives = << >> /\ driveOrder = << >>
  /\ firstPoll = TRUE
  /\ protocolCache = << >> /\ satLearned = {}
  /\ devstatMemory = [k \in Keys |-> [absent |-> FALSE, strikes |-> 0]]
  /\ smartSeen = {}
  /\ pc = "idle" /\ isFirst = FALSE
  /\ devices = << >> /\ next = 1 /\ newDrives = << >> /\ order = << >>
  /\ disk \in [Paths -> Disks \cup {NoDisk}]
  /\ \A p, q \in Paths : disk[p] = disk[q] => p = q \/ disk[p] = NoDisk
  /\ poll = 0 /\ published = 0
  /\ readNow = {} /\ readLast = {} /\ answered = {} /\ gaveSmart = {}
  /\ calls = << >>
  /\ asked = [k \in Keys |-> << >>]

-----------------------------------------------------------------------------
(* Refresh, up to the scan: the first-poll flag is taken and cleared.      *)
StartPoll ==
  /\ pc = "idle"
  /\ poll < MaxPolls
  /\ poll' = poll + 1
  /\ isFirst' = firstPoll
  /\ firstPoll' = FALSE
  /\ pc' = "scan"
  /\ UNCHANGED <<cache, learned, memory, devices, next, newDrives, order, disk, hist>>

(* The scan (on the first poll --scan-open and then --scan) fails, times   *)
(* out or prints no JSON: Refresh returns and the old list stays.          *)
ScanFails ==
  /\ pc = "scan"
  /\ pc' = "idle"
  /\ UNCHANGED <<cache, firstPoll, learned, memory, local, disk, poll, hist>>

(* The entries of a scan: some of the paths that hold a drive, each with   *)
(* the protocol reported for it.                                           *)
Present == {p \in Paths : disk[p] # NoDisk}
Scans ==
  {found \in UNION {[L -> ScanProtocols] : L \in SUBSET Present} :
     \A p \in DOMAIN found : found[p] \in ScanProtocol[p]}

(* Which protocol is cached for a path after a scan: overrides win, and a  *)
(* learned "sat" is not overwritten.                                       *)
CachedAfter(found) ==
  LET forced   == {p \in Paths : IsOverride(p)}
      detected == {p \in DOMAIN found : found[p] # "none" /\ p \notin satLearned}
  IN  [p \in DOMAIN protocolCache \cup detected \cup forced |->
         IF p \in forced THEN OverrideOf(p)
         ELSE IF p \in detected THEN found[p]
         ELSE protocolCache[p]]

(* The devices to read, each once: the scan's in its order, then the       *)
(* overrides it did not list in theirs, and no excluded path.              *)
DeviceLists(found) ==
  LET listed == {[name |-> p, protocol |-> found[p]] : p \in DOMAIN found \ Excluded}
      added  == {i \in DOMAIN DeviceOverrides :
                   DeviceOverrides[i].name \notin DOMAIN found \cup Excluded}
      all    == listed \cup {DeviceOverrides[i] : i \in added}
  IN  {t \in UNION {[1..n -> all] : n \in 0..Cardinality(Paths)} :
         /\ Range(t) = all
         /\ \A m, n \in DOMAIN t : t[m].name = t[n].name => m = n
         /\ \A m, n \in DOMAIN t : \A i \in added : m < n /\ t[m] = DeviceOverrides[i] =>
              \E j \in added : i < j /\ t[n] = DeviceOverrides[j]}

ScanOK ==
  /\ pc = "scan"
  /\ \E found \in Scans :
       /\ protocolCache' = CachedAfter(found)
       /\ devices' \in DeviceLists(found)
  /\ next' = 1
  /\ newDrives' = << >> /\ order' = << >>
  /\ readNow' = {}
  /\ pc' = "read"
  /\ UNCHANGED <<cache, firstPoll, satLearned, memory, isFirst, disk, poll, published,
                 readLast, answered, gaveSmart, calls, asked>>

-----------------------------------------------------------------------------
(* What one smartctl -a call on path p may answer.  exec: it never ran to  *)
(* completion (timeout, no binary).  lowpower: bit 1, and it says the      *)
(* drive sleeps; only a call with -n is told so.  open: bit 0 or 1         *)
(* otherwise.  command: bit 2, without 0 and 1; the output may lack the    *)
(* serial.  clean: none of bits 0-2.                                       *)
PassesN == UsesStandby /\ ~isFirst                       \* standbyInUse
Silent(k, p) == [kind |-> k, serial |-> NoSerial, smart |-> FALSE, disk |-> disk[p]]
Answers(p) ==
  {Silent(k, p) : k \in {"exec", "open"}}
  \cup IF disk[p] = NoDisk THEN {} ELSE
    {Silent(k, p) : k \in IF PassesN THEN {"lowpower"} ELSE {}}
    \cup [kind : {"clean"}, serial : {SerialOf[disk[p]]}, smart : BOOLEAN, disk : {disk[p]}]
    \cup [kind : {"command"}, serial : {SerialOf[disk[p]], NoSerial}, smart : BOOLEAN, disk : {disk[p]}]

Readable(a)      == a.kind \in {"clean", "command"}      \* smartctlReadable
WantsSATRetry(a) == a.kind \in {"open", "command"}       \* bits 0-2, and it ran
Clean(a)         == a.kind = "clean"

Outcome(a) == IF a.kind = "lowpower" THEN "standby"
              ELSE IF Readable(a) THEN "ok" ELSE "unreadable"

(* -d is left off for what a scan detects by itself, unless the user asked *)
(* for it.                                                                 *)
DashD(p, protocol) ==
  IF protocol # "none" /\ (IsOverride(p) \/ protocol = "sat") THEN protocol ELSE "none"

(* fetchDriveInfo on a path that has learned SAT: a clean or sleeping      *)
(* drive keeps it; anything else forgets it and reads the drive once with  *)
(* the scan's protocol, without another SAT call.                          *)
LearnedFetch(p, reported) ==
  {[ans |-> a, calls |-> <<"sat">>, sat |-> TRUE, cached |-> "sat"] :
     a \in {b \in Answers(p) : Clean(b) \/ b.kind = "lowpower"}}
  \cup
  {[ans |-> a, calls |-> <<"sat", DashD(p, reported)>>, sat |-> FALSE, cached |-> reported] :
     a \in Answers(p)}

(* fetchDriveInfo otherwise: one call, and a SAT retry for a SCSI device   *)
(* whose answer has any of bits 0-2 set.  A clean retry is used and, on a  *)
(* path without an override, learned.                                      *)
PlainFetch(p, protocol) ==
  LET first == DashD(p, protocol)
      retries(a) == protocol = "scsi" /\ WantsSATRetry(a)
  IN  {[ans |-> a, calls |-> <<first>>, sat |-> FALSE, cached |-> protocol] :
         a \in {b \in Answers(p) : ~retries(b)}}
      \cup
      UNION {{IF Clean(b)
              THEN [ans |-> b, calls |-> <<first, "sat">>, sat |-> ~IsOverride(p), cached |-> "sat"]
              ELSE [ans |-> a, calls |-> <<first, "sat">>, sat |-> FALSE, cached |-> protocol] :
                b \in Answers(p)} : a \in {c \in Answers(p) : retries(c)}}

Fetches(dev) ==
  IF dev.name \in satLearned /\ ~IsOverride(dev.name)
  THEN LearnedFetch(dev.name, dev.protocol)
  ELSE PlainFetch(dev.name, IF dev.name \in DOMAIN protocolCache
                            THEN protocolCache[dev.name] ELSE dev.protocol)

(* What a fetch leaves in protocolCache and satLearned ("none" is a        *)
(* missing key).                                                           *)
Learn(p, f) ==
  /\ satLearned' = IF f.sat THEN satLearned \cup {p} ELSE satLearned \ {p}
  /\ protocolCache' = IF f.cached = "none"
                      THEN Restrict(protocolCache, DOMAIN protocolCache \ {p})
                      ELSE Put(protocolCache, p, f.cached)

-----------------------------------------------------------------------------
(* The devstat call of a drive that was read: the skip table, then what    *)
(* the call can be classified as and what is remembered of it.  Whether    *)
(* the accepted output says ATA is left open.                              *)
Remember(m, result) ==
  CASE result = "present" -> [m EXCEPT !.strikes = 0]
    [] result = "absent"  -> [m EXCEPT !.absent = TRUE]
    [] result = "timeout" -> [m EXCEPT !.strikes = MaxStrikes]
    [] result = "failed"  -> [m EXCEPT !.strikes = @ + 1]
    [] OTHER -> m                                       \* standby, mismatch

DevstatResults == {"present", "absent", "failed", "timeout", "mismatch"}
                  \cup (IF UsesStandby THEN {"standby"} ELSE {})

Skipped(m) ==
  IF ~DevstatEnabled THEN {"off"}
  ELSE {"not_applicable"} \cup (IF m.absent THEN {"absent"}
                                ELSE IF m.strikes >= MaxStrikes THEN {"stopped"} ELSE {})

DevstatReads(m) ==
  {[status |-> s, mem |-> m, asks |-> FALSE] : s \in Skipped(m)}
  \cup
  {[status |-> s, mem |-> Remember(m, s), asks |-> TRUE] :
     s \in {r \in DevstatResults : DevstatEnabled /\ ~m.absent /\ m.strikes < MaxStrikes}}

SlugOf(p, serial) == IF serial = NoSerial THEN Slug[p] ELSE Slug[serial]

(* A definition X_Y is X with a mistake that a change of the code could *)
(* make, the one its comment names.  No behaviour uses them: they are what *)
(* the properties are tried on.                                            *)
SeenAfter_Always(id, a) == smartSeen \cup {id}    \* remembered without SMART data

(* noteSmartAvailability's memory: the drives that gave SMART data.        *)
SeenAfter(id, a) == IF a.smart THEN smartSeen \cup {id} ELSE smartSeen

(* One more drive in the new list, and in its order.                       *)
Add(id, e) ==
  /\ newDrives' = Put(newDrives, id, e)
  /\ order' = Append(order, id)

(* A device that was read: SMART availability, devstat, and a fresh entry. *)
Accept(p, a) ==
  LET id == SlugOf(p, a.serial)
      k  == <<p, a.serial>>
  IN  \E d \in DevstatReads(devstatMemory[k]) :
        /\ smartSeen' = SeenAfter(id, a)
        /\ gaveSmart' = IF a.smart THEN gaveSmart \cup {a.disk} ELSE gaveSmart
        /\ devstatMemory' = [devstatMemory EXCEPT ![k] = d.mem]
        /\ asked' = IF d.asks THEN [asked EXCEPT ![k] = Append(@, d.status)] ELSE asked
        /\ Add(id, [path |-> p, serial |-> a.serial, disk |-> a.disk, standby |-> FALSE,
                    readable |-> TRUE, lost |-> ~a.smart /\ id \in smartSeen,
                    devstat |-> d.status, updated |-> poll])
        /\ readNow' = readNow \cup {<<p, id>>}

CachedIds_SlugOnly(p) == {Slug[p]} \cap DOMAIN drives     \* never by path
CachedIds_AnyDrive(p) ==                                  \* some drive, if not this one
  IF Slug[p] \in DOMAIN drives THEN {Slug[p]} ELSE DOMAIN drives

(* A device that was not read: the cached entry of that path, if any, is   *)
(* carried over, under the path's own id first.                            *)
CachedIds(p) ==
  IF Slug[p] \in DOMAIN drives THEN {Slug[p]}
  ELSE {id \in DOMAIN drives : drives[id].path = p}

Marked_SleepOnly(d, asleep) == [d EXCEPT !.standby = asleep]   \* still "readable"

Marked(d, asleep) == [d EXCEPT !.standby = asleep, !.readable = asleep]

Recover_Fabricates(p, asleep) ==           \* a drive nobody has read is listed
  /\ IF disk[p] = NoDisk THEN UNCHANGED <<newDrives, order>>
     ELSE Add(Slug[p], [path |-> p, serial |-> NoSerial, disk |-> disk[p], standby |-> asleep,
                        readable |-> asleep, lost |-> FALSE, devstat |-> "off", updated |-> poll])
  /\ UNCHANGED <<memory, readNow, gaveSmart, asked>>

Recover(p, asleep) ==
  /\ IF CachedIds(p) = {} THEN UNCHANGED <<newDrives, order>>
     ELSE \E id \in CachedIds(p) : Add(id, Marked(drives[id], asleep))
  /\ UNCHANGED <<memory, readNow, gaveSmart, asked>>

ReadDevice ==
  /\ pc = "read"
  /\ next <= Len(devices)
  /\ next' = next + 1
  /\ LET p == devices[next].name IN
     \E f \in Fetches(devices[next]) :
       /\ Learn(p, f)
       /\ calls' = f.calls
       /\ answered' = IF Readable(f.ans) THEN answered \cup {<<p, f.ans.serial>>} ELSE answered
       /\ IF Outcome(f.ans) = "ok" THEN Accept(p, f.ans)
          ELSE Recover(p, Outcome(f.ans) = "standby")
  /\ UNCHANGED <<cache, firstPoll, pc, isFirst, devices, disk, poll, published, readLast>>

(* The new list replaces the old one under the lock.                       *)
Publish ==
  /\ pc = "read"
  /\ next > Len(devices)
  /\ drives' = newDrives
  /\ driveOrder' = order
  /\ published' = poll
  /\ readLast' = readNow
  /\ pc' = "idle"
  /\ UNCHANGED <<firstPoll, learned, memory, local, disk, poll, readNow, answered,
                 gaveSmart, calls, asked>>

(* The host: a drive is added, removed or comes back under another path.   *)
Attach(d, p) ==
  /\ disk[p] = NoDisk
  /\ \A q \in Paths : disk[q] # d
  /\ disk' = [disk EXCEPT ![p] = d]
  /\ UNCHANGED <<cache, firstPoll, learned, memory, pc, local, poll, hist>>

Detach(p) ==
  /\ disk[p] # NoDisk
  /\ disk' = [disk EXCEPT ![p] = NoDisk]
  /\ UNCHANGED <<cache, firstPoll, learned, memory, pc, local, poll, hist>>

Refresh == StartPoll \/ ScanFails \/ ScanOK \/ ReadDevice \/ Publish

Next ==
  \/ StartPoll
  \/ ScanFails
  \/ ScanOK
  \/ ReadDevice
  \/ Publish
  \/ \E d \in Disks, p \in Paths : Attach(d, p)
  \/ \E p \in Paths : Detach(p)

Spec == Init /\ [][Next]_vars

-----------------------------------------------------------------------------
IsMap(f, D, R) == DOMAIN f \subseteq D /\ \A x \in DOMAIN f : f[x] \in R

TypeOK ==
  /\ IsMap(drives, Ids, Drive) /\ driveOrder \in Seq(Ids)
  /\ firstPoll \in BOOLEAN
  /\ IsMap(protocolCache, Paths, Protocols \ {"none"}) /\ satLearned \subseteq Paths
  /\ devstatMemory \in [Keys -> DevstatMem]
  /\ smartSeen \subseteq Ids
  /\ pc \in {"idle", "scan", "read"} /\ isFirst \in BOOLEAN
  /\ devices \in Seq(Device) /\ next \in Nat \ {0}
  /\ IsMap(newDrives, Ids, Drive) /\ order \in Seq(Ids)
  /\ disk \in [Paths -> Disks \cup {NoDisk}]
  /\ poll \in Nat /\ published \in Nat
  /\ readNow \subseteq Paths \X Ids /\ readLast \subseteq Paths \X Ids
  /\ answered \subseteq Keys /\ gaveSmart \subseteq Disks
  /\ calls \in Seq(Protocols)
  /\ asked \in [Keys -> Seq(DevstatStatuses)]

(* HandleDrives looks every id of driveOrder up in drives, and every drive *)
(* is listed: the two change together, also for a drive carried over.      *)
OrderListsDrives == Range(driveOrder) = DOMAIN drives

(* Two published drives never claim the same device path, whatever was     *)
(* moved or failed between polls: recovery by path finds one entry.        *)
OneDrivePerPath ==
  \A i, j \in DOMAIN drives : drives[i].path = drives[j].path => i = j

(* "false when smartctl could not read the drive this cycle; data is       *)
(* stale" (DriveInfo.Readable), one way round: data of an older poll is    *)
(* published as unreadable or as standby, never as a fresh reading.        *)
StaleIsMarked ==
  \A id \in DOMAIN drives :
    drives[id].readable /\ ~drives[id].standby => drives[id].updated = published

(* "Never publish a drive we could not read" (smart-sniffer-app#7): every  *)
(* identity in the list was once answered by smartctl, at that path.       *)
NeverFabricated ==
  \A id \in DOMAIN drives : <<drives[id].path, drives[id].serial>> \in answered

(* A drive whose path was scanned stays in the list when it sleeps or      *)
(* cannot be read: its id goes only when its path was read in this poll    *)
(* under another identity.  Otherwise "the drive drops out of /api/drives  *)
(* entirely and its entities go unavailable" (Refresh).                    *)
KeepsScannedDrive ==
  [][published' # published =>
       \A id \in DOMAIN drives :
         (\E i \in DOMAIN devices : devices[i].name = drives[id].path) =>
           \/ id \in DOMAIN drives'
           \/ \E j \in Ids : <<drives[id].path, j>> \in readLast']_vars

(* A path that has learned SAT is still read with it after the next scan,  *)
(* and a path the user configured never learns it (D9, issue #43).         *)
LearnedMeansSAT ==
  \A p \in satLearned : ~IsOverride(p) /\ p \in DOMAIN protocolCache /\ protocolCache[p] = "sat"

(* A poll makes at most two -a calls on a device and never a second SAT    *)
(* call (fetchDriveInfo).                                                  *)
OneSATCall ==
  /\ Len(calls) <= 2
  /\ Cardinality({i \in DOMAIN calls : calls[i] = "sat"}) <= 1

(* A drive that cannot give device statistics is left alone for the run:   *)
(* after "absent", after one timeout, and after MaxStrikes failures with   *)
(* no reading in between, no further call is made.                         *)
Failures(l, i) == {j \in 1..i : l[j] = "failed" /\ \A n \in j..i : l[n] # "present"}
DevstatGivesUp ==
  \A k \in Keys : \A i \in DOMAIN asked[k] : i < Len(asked[k]) =>
    /\ asked[k][i] \notin {"absent", "timeout"}
    /\ Cardinality(Failures(asked[k], i)) < MaxStrikes

(* "smart_lost marks a drive that gave SMART data earlier in this agent    *)
(* run" (DriveInfo), for drives that have a serial: without one, the       *)
(* memory is the path's and the next such drive there inherits it.         *)
LostSerialGaveSmart ==
  \A id \in DOMAIN drives :
    drives[id].lost /\ drives[id].serial # NoSerial => drives[id].disk \in gaveSmart

(* DriveInfo.Readable the other way round: a drive published as unreadable *)
(* was not read in the poll that published it.                             *)
UnreadableWasNotRead ==
  \A id \in DOMAIN drives : ~drives[id].readable => \A p \in Paths : <<p, id>> \notin readLast
=============================================================================
