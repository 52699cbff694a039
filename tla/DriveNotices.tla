----------------------------- MODULE DriveNotices -----------------------------
(***************************************************************************)
(* What the integration tells the user about drives (coordinator.py,       *)
(* smart_presence.py and the announcements of devstat.py): the             *)
(* coordinator's memory of each drive, Home Assistant's notifications, and *)
(* the record of announced readings in the entry's Store.                  *)
(*                                                                         *)
(* A poll asks the agent and later handles the answer; everything after    *)
(* the last request runs without giving way, so that is one action.        *)
(* A Store writes its file some time after it was asked to, with what the  *)
(* coordinator remembers at that time.                                     *)
(*                                                                         *)
(* A reload makes a new coordinator and a new Store; a save the old Store  *)
(* was asked for still happens.  A stop of Home Assistant writes every     *)
(* pending save, a crash none; both clear the notifications.               *)
(***************************************************************************)
EXTENDS Naturals

CONSTANTS
  Drives,          \* drive ids
  HasSerial,       \* the drives with a serial
  Reasons,         \* what evaluate_attention may say of a drive
  GapReasons,      \* those only Device Statistics could give
  MaxLoads         \* bound: reloads, stops and crashes

ASSUME DrivesAssumption  == HasSerial \subseteq Drives
ASSUME ReasonsAssumption == GapReasons \subseteq Reasons
ASSUME LoadsAssumption   == MaxLoads \in Nat

VARIABLES
  prev,         \* _prev_state and _prev_reasons of each drive seen
  seen, lost,   \* SmartPresence: gave SMART data this run; does not now
  names,        \* the ids of the last good poll's snapshot
  lastOk,       \* the entry is set up and its last poll succeeded
  reply,        \* the answer of the poll in flight
  note,         \* the notification shown under each drive's id
  announced,    \* readings announced, by drive, as the coordinator knows them
  pending,      \* its Store was asked to save and has not yet
  file,         \* the announced readings in the Store's file
  leftovers,    \* what the Stores of earlier loads are still going to write
  loads,        \* reloads, stops and crashes so far
  mine,         \* history: notifications this coordinator raised
  quiet,        \* history: problems not shown: seen first like that, or dismissed by the user
  told,         \* history: readings announced since the drive's device was last removed
  repeated,     \* history: drives announced at first sight with nothing new to tell
  orderly       \* history: only stops have interrupted the coordinators

store   == <<announced, pending, file, leftovers>>
history == <<mine, quiet, told, repeated, orderly>>
vars    == <<prev, seen, lost, names, lastOk, reply, note, store, loads, history>>

(* What evaluate_attention says of a drive.                                *)
Verdict ==
  {[state |-> "NO", reasons |-> {}], [state |-> "UNSUPPORTED", reasons |-> {}]}
  \cup [state : {"MAYBE", "YES"}, reasons : (SUBSET Reasons) \ {{}}]
Unsupported == [state |-> "UNSUPPORTED", reasons |-> {}]
NoNote      == [state |-> "none", reasons |-> {}]
Problem(v)  == v.state \in {"MAYBE", "YES"}

(* A drive in an answer; agentLost is the agent's smart_lost field, which  *)
(* it sets on drives without SMART data.                                   *)
Usable(r) == r.verdict.state # "UNSUPPORTED"            \* has_usable_smart_data
Report == {r \in [verdict : Verdict, agentLost : BOOLEAN] : r.agentLost => ~Usable(r)}

Lists == UNION {[S -> Report] : S \in SUBSET Drives}
Answer(k, L) == [kind |-> k, list |-> L]
NoAnswer == Answer("none", << >>)
Answers  == {NoAnswer, Answer("failed", << >>)} \cup {Answer("listed", L) : L \in Lists}

Records == [Drives -> SUBSET GapReasons]
NoRecords == [d \in Drives |-> {}]

Init ==
  /\ prev = << >> /\ seen = {} /\ lost = {}
  /\ names = {} /\ lastOk = FALSE
  /\ reply = NoAnswer
  /\ note = [d \in Drives |-> NoNote]
  /\ announced = NoRecords /\ pending = FALSE /\ file = NoRecords /\ leftovers = {}
  /\ loads = 0
  /\ mine = {} /\ quiet = {} /\ told = NoRecords /\ repeated = {} /\ orderly = TRUE

-----------------------------------------------------------------------------
(* The drive requests of a poll: one that fails fails the poll.            *)
Fetch ==
  /\ reply = NoAnswer
  /\ reply' \in Answers \ {NoAnswer}
  /\ UNCHANGED <<prev, seen, lost, names, lastOk, note, store, loads, history>>

(* SmartPresence.update: no usable SMART data, but the tracker or the      *)
(* agent remembers some.                                                   *)
LostNow ==
  {d \in DOMAIN reply.list :
     ~Usable(reply.list[d]) /\ (d \in seen \/ reply.list[d].agentLost)}

(* The drives that are judged, and of those the ones seen first or changed.*)
Judged  == DOMAIN reply.list \ LostNow
Now(d)  == reply.list[d].verdict
First   == Judged \ DOMAIN prev
Changed == {d \in Judged \cap DOMAIN prev : Now(d) # prev[d]}
Gone    == DOMAIN prev \ DOMAIN reply.list

(* announcement_records: the device statistics reasons of a drive that has *)
(* a serial.                                                               *)
Readings(d) == IF d \in HasSerial THEN Now(d).reasons \cap GapReasons ELSE {}

(* A definition X_Slip is X with a mistake that a change of the code could *)
(* make, the one its comment names.  No behaviour uses them: they are what *)
(* the properties are tried on.                                            *)
Announced_Silent == {}                     \* the first poll is always a silent baseline

(* baseline_announcement: news even on the first poll.                     *)
Announced == {d \in First : ~(Readings(d) \subseteq announced[d])}

Raised_Always == Changed                   \* recovery is told instead of dismissed

Raised == {d \in Changed : Now(d).state # "NO"}

Dismissed_Lost ==                          \* a lost drive's is taken down
  {d \in Changed : Now(d).state = "NO"} \cup Gone \cup LostNow

Dismissed_Resolved == {d \in Changed : Now(d).state = "NO"}    \* gone drives keep theirs

Dismissed == {d \in Changed : Now(d).state = "NO"} \cup Gone

Recorded_BaselineOnly(d) ==                \* only a first sighting is recorded
  announced[d] \cup IF d \in Announced THEN Readings(d) ELSE {}

(* _record_announced, for a drive announced or told of in a transition.    *)
Recorded(d) ==
  announced[d] \cup
  IF d \in Announced \/ (d \in Raised /\ Problem(Now(d))) THEN Readings(d) ELSE {}

(* A lost drive keeps the state from before, if there was one.             *)
Remembered ==
  [d \in Judged \cup (DOMAIN prev \cap DOMAIN reply.list) |->
     IF d \in Judged THEN Now(d) ELSE prev[d]]

Unsaid(d) == d \in First \ Announced

(* The end of a good poll: readings held, SMART presence, notifications,   *)
(* announcements, the new memory and the new snapshot.  Held readings      *)
(* that changed (of drives with a serial) ask for a save too.              *)
Handle ==
  /\ reply.kind = "listed"
  /\ seen' = seen \cup {d \in DOMAIN reply.list : Usable(reply.list[d])}
  /\ lost' = (lost \ DOMAIN reply.list) \cup LostNow
  /\ note' = [d \in Drives |-> IF d \in Announced \cup Raised THEN Now(d)
                               ELSE IF d \in Dismissed THEN NoNote ELSE note[d]]
  /\ announced' = [d \in Drives |-> IF d \in Judged THEN Recorded(d) ELSE announced[d]]
  /\ \E held \in SUBSET (HasSerial \cap DOMAIN reply.list) :
       pending' = (pending \/ held # {} \/ announced' # announced)
  /\ prev' = Remembered
  /\ names' = DOMAIN reply.list
  /\ lastOk' = TRUE
  /\ reply' = NoAnswer
  /\ mine' = (mine \cup Announced \cup Raised) \ Dismissed
  /\ quiet' = {d \in DOMAIN Remembered :
                 /\ Problem(Remembered[d])
                 /\ Unsaid(d) \/ (d \in quiet /\ d \notin Raised)}
  /\ told' = [d \in Drives |-> IF d \in Announced \cup Raised THEN told[d] \cup Readings(d)
                               ELSE told[d]]
  /\ repeated' = repeated \cup {d \in Announced : Readings(d) \subseteq told[d]}
  /\ UNCHANGED <<file, leftovers, loads, orderly>>

(* UpdateFailed: the old snapshot and the whole memory stay.               *)
HandleFailed ==
  /\ reply.kind = "failed"
  /\ lastOk' = FALSE
  /\ reply' = NoAnswer
  /\ UNCHANGED <<prev, seen, lost, names, note, store, loads, history>>

-----------------------------------------------------------------------------
(* The user deletes the device of a drive the agent no longer reports      *)
(* (async_remove_config_entry_device, forget_device): it starts afresh.    *)
Forget(d) ==
  /\ lastOk /\ d \notin names
  /\ seen' = seen \ {d} /\ lost' = lost \ {d}
  /\ announced' = IF d \in HasSerial THEN [announced EXCEPT ![d] = {}] ELSE announced
  /\ \E held \in SUBSET (HasSerial \cap {d}) :
       pending' = (pending \/ held # {} \/ announced' # announced)
  /\ told' = [told EXCEPT ![d] = {}]
  /\ UNCHANGED <<prev, names, lastOk, reply, note, file, leftovers, loads, mine, quiet,
                 repeated, orderly>>

UserDismisses(d) ==
  /\ note[d] # NoNote
  /\ note' = [note EXCEPT ![d] = NoNote]
  /\ mine' = mine \ {d}
  /\ quiet' = IF d \in DOMAIN prev /\ Problem(prev[d]) THEN quiet \cup {d} ELSE quiet
  /\ UNCHANGED <<prev, seen, lost, names, lastOk, reply, store, loads, told, repeated, orderly>>

(* A Store's delayed save: this coordinator's, or one of an earlier load.  *)
Save ==
  /\ pending
  /\ file' = announced
  /\ pending' = FALSE
  /\ UNCHANGED <<prev, seen, lost, names, lastOk, reply, note, announced, leftovers, loads, history>>

SaveLeftover ==
  /\ \E left \in leftovers :
       /\ file' = left
       /\ leftovers' = leftovers \ {left}
  /\ UNCHANGED <<prev, seen, lost, names, lastOk, reply, note, announced, pending, loads, history>>

-----------------------------------------------------------------------------
(* A new coordinator: nothing remembered but what its Store loads.         *)
NewCoordinator ==
  /\ loads < MaxLoads
  /\ loads' = loads + 1
  /\ prev' = << >> /\ seen' = {} /\ lost' = {}
  /\ names' = {} /\ lastOk' = FALSE
  /\ reply' = NoAnswer
  /\ announced' = file' /\ pending' = FALSE
  /\ mine' = {} /\ quiet' = {}
  /\ UNCHANGED <<told, repeated>>

Reload ==
  /\ UNCHANGED <<file, note>>
  /\ NewCoordinator
  /\ leftovers' = IF pending THEN leftovers \cup {announced} ELSE leftovers
  /\ orderly' = FALSE

Clears == leftovers' = {} /\ note' = [d \in Drives |-> NoNote]

(* The pending saves of a stop, in any order.                              *)
StopSaves ==
  LET due == leftovers \cup IF pending THEN {announced} ELSE {} IN
  IF due = {} THEN UNCHANGED file ELSE file' \in due

Stop  == StopSaves /\ NewCoordinator /\ Clears /\ UNCHANGED orderly
Crash == UNCHANGED file /\ NewCoordinator /\ Clears /\ orderly' = FALSE

Next ==
  \/ Fetch
  \/ Handle
  \/ HandleFailed
  \/ \E d \in Drives : Forget(d)
  \/ \E d \in Drives : UserDismisses(d)
  \/ Save
  \/ SaveLeftover
  \/ Reload
  \/ Stop
  \/ Crash

Spec == Init /\ [][Next]_vars

-----------------------------------------------------------------------------
Notes == (Verdict \cup {NoNote}) \ {[state |-> "NO", reasons |-> {}]}

TypeOK ==
  /\ DOMAIN prev \subseteq Drives /\ \A d \in DOMAIN prev : prev[d] \in Verdict
  /\ seen \subseteq Drives /\ lost \subseteq Drives
  /\ names \subseteq Drives /\ lastOk \in BOOLEAN
  /\ reply \in Answers
  /\ note \in [Drives -> Notes]
  /\ announced \in Records /\ file \in Records /\ leftovers \subseteq Records
  /\ pending \in BOOLEAN
  /\ loads \in Nat
  /\ mine \subseteq Drives /\ quiet \subseteq Drives
  /\ told \in Records /\ repeated \subseteq Drives /\ orderly \in BOOLEAN

(* A notification this coordinator raised says what it last judged of the  *)
(* drive, also while the drive's SMART data is lost: it is updated, or     *)
(* dismissed when the drive recovers or leaves the list.                   *)
ShownIsCurrent == \A d \in mine : d \in DOMAIN prev /\ note[d] = prev[d]

(* The other way round: a drive last judged MAYBE or YES has its           *)
(* notification, unless it was so when first seen or the user dismissed    *)
(* it, and the loss of its SMART data does not take it down.               *)
ProblemIsShown ==
  \A d \in DOMAIN prev : Problem(prev[d]) /\ d \notin quiet => note[d] = prev[d]

(* "The informational notification is no longer raised at all" (module     *)
(* docstring): a drive that was ever judged by its SMART data is lost when *)
(* it stops giving it, and one that was not starts as UNSUPPORTED.         *)
UnsupportedNeverRaised == \A d \in Drives : note[d] # Unsupported

(* "Otherwise a combined agent and integration upgrade would turn a drive  *)
(* YES with nobody told" (D11): while only stops interrupt the             *)
(* coordinators, a reason only Device Statistics could give is never in    *)
(* the memory of a drive with a serial without having been told, since the *)
(* drive's device was last removed.                                        *)
GapIsTold ==
  orderly =>
    \A d \in DOMAIN prev \cap HasSerial : prev[d].reasons \cap GapReasons \subseteq told[d]

(* "Announced once per drive and reading, across restarts" (D11), while    *)
(* the restarts are stops.                                                 *)
AnnouncedOnce == orderly => repeated = {}

===============================================================================
