----------------------------- MODULE PoolNotices -----------------------------
(***************************************************************************)
(* What the integration tells the user about ZFS pools (coordinator.py and *)
(* pool_health.py): the coordinator's memory of each pool, Home            *)
(* Assistant's notifications and its device registry.                      *)
(*                                                                         *)
(* A poll asks the agent and later handles the answer; everything after    *)
(* the last request runs without giving way, so that is one action.        *)
(* Between the two the user may remove a pool's device or dismiss a        *)
(* notification, and the entry may be reloaded.  Polls do not overlap.     *)
(*                                                                         *)
(* A reload makes a new coordinator, which remembers nothing; a restart of *)
(* Home Assistant also clears the notifications.  Devices outlive both.    *)
(***************************************************************************)
EXTENDS Naturals

CONSTANTS Pools,      \* names of the pools this agent may list
          Reasons,    \* what pool_problems may say of an unhealthy pool
          MaxLoads    \* bound: reloads and restarts

ASSUME LoadsAssumption == MaxLoads \in Nat
ASSUME ReasonsAssumption == Reasons \cap {"healthy", "missing", "gone", "none"} = {}

VARIABLES
  prev,         \* _prev_pool_reasons: what is remembered of each pool seen
  data,         \* the last good poll's pool list, as entities and removal see it
  lastOk,       \* last_update_success
  reply,        \* the answer of the poll in flight
  registered,   \* the pools with a device
  note,         \* the notification shown under each pool's id
  pool,         \* environment: each pool, on the agent's machine
  loads,        \* reloads and restarts so far
  mine,         \* history: notifications this coordinator raised
  quiet         \* history: problems not shown: seen first like that, or dismissed by the user

vars == <<prev, data, lastOk, reply, registered, note, pool, loads, mine, quiet>>

Health    == {"healthy"} \cup Reasons
Condition == Health \cup {"missing"}
Lists     == UNION {[S -> Health] : S \in SUBSET Pools}

(* An answer: the poll fails, or its pools are unknown (health or the pool *)
(* request failed), or the agent does not advertise pools, or it lists     *)
(* them.                                                                   *)
Answer(k, L) == [kind |-> k, list |-> L]
NoAnswer     == Answer("none", << >>)
Answers      == {Answer(k, << >>) : k \in {"none", "failed", "unknown", "off"}}
                \cup {Answer("listed", L) : L \in Lists}

UnknownPools  == [known |-> FALSE, names |-> {}]
KnownPools(S) == [known |-> TRUE, names |-> S]

Init ==
  /\ prev = << >> /\ data = UnknownPools /\ lastOk = TRUE
  /\ reply = NoAnswer
  /\ registered = {}
  /\ note = [p \in Pools |-> "none"]
  /\ pool \in [Pools -> Health \cup {"gone"}]
  /\ loads = 0 /\ mine = {} /\ quiet = {}

-----------------------------------------------------------------------------
Imported == {p \in Pools : pool[p] # "gone"}

(* The poll's requests: some of them may fail, and pool status may be off. *)
FetchFails ==
  /\ reply = NoAnswer
  /\ reply' \in {Answer(k, << >>) : k \in {"failed", "unknown", "off"}}
  /\ UNCHANGED <<prev, data, lastOk, registered, note, pool, loads, mine, quiet>>

FetchLists ==
  /\ reply = NoAnswer
  /\ reply' = Answer("listed", [p \in Imported |-> pool[p]])
  /\ UNCHANGED <<prev, data, lastOk, registered, note, pool, loads, mine, quiet>>

(* A definition X_Slip is X with a mistake that a change of the code could *)
(* make, the one its comment names.  No behaviour uses them: they are what *)
(* the properties are tried on.                                            *)
Missing_Seen ==                            \* whatever was seen, not what has a device
  IF reply.kind = "listed" THEN (registered \cup DOMAIN prev) \ DOMAIN reply.list ELSE {}

(* missing_pools: registered, and left out of a list that was read.        *)
Missing == IF reply.kind = "listed" THEN registered \ DOMAIN reply.list ELSE {}

Current ==
  [p \in DOMAIN reply.list \cup Missing |->
     IF p \in DOMAIN reply.list THEN reply.list[p] ELSE "missing"]

Raised_Baseline ==                         \* a first sighting is silent for a missing pool too
  {p \in DOMAIN Current \cap DOMAIN prev : Current[p] \notin {"healthy", prev[p]}}

Raised_Always ==                           \* recovery is told instead of dismissed
  {p \in DOMAIN Current \cap DOMAIN prev : Current[p] # prev[p]} \cup (Missing \ DOMAIN prev)

(* notification_actions: what is raised or updated (a missing pool also    *)
(* when it was never seen), and what is dismissed.                         *)
Raised ==
  {p \in DOMAIN Current \cap DOMAIN prev : Current[p] \notin {"healthy", prev[p]}}
  \cup (Missing \ DOMAIN prev)

Dismissed_Listed ==                        \* a pool that is gone keeps its notification
  {p \in DOMAIN prev \cap DOMAIN Current : Current[p] = "healthy" /\ prev[p] # "healthy"}

Dismissed ==
  {p \in DOMAIN prev : prev[p] # "healthy" /\ p \notin DOMAIN Current}
  \cup {p \in DOMAIN prev \cap DOMAIN Current : Current[p] = "healthy" /\ prev[p] # "healthy"}

Unsaid(p) == p \in DOMAIN reply.list \ DOMAIN prev          \* a silent baseline

(* The end of a poll whose pools are known: notifications, the new memory  *)
(* and the new snapshot, all from what is registered now.                  *)
HandleKnown ==
  /\ reply.kind \in {"off", "listed"}
  /\ note' = [p \in Pools |-> IF p \in Raised THEN Current[p]
                              ELSE IF p \in Dismissed THEN "none" ELSE note[p]]
  /\ prev' = Current
  /\ data' = KnownPools(DOMAIN reply.list)
  /\ lastOk' = TRUE
  /\ reply' = NoAnswer
  /\ mine' = (mine \cup Raised) \ Dismissed
  /\ quiet' = {p \in DOMAIN Current :
                 /\ Current[p] # "healthy"
                 /\ Unsaid(p) \/ (p \in quiet /\ p \notin Raised)}
  /\ UNCHANGED <<registered, pool, loads>>

(* Pools unknown: "could not tell", so nothing is said or forgotten.       *)
HandleUnknown ==
  /\ reply.kind = "unknown"
  /\ data' = UnknownPools
  /\ lastOk' = TRUE
  /\ reply' = NoAnswer
  /\ UNCHANGED <<prev, registered, note, pool, loads, mine, quiet>>

(* UpdateFailed: the old snapshot stays.                                   *)
HandleFailed ==
  /\ reply.kind = "failed"
  /\ lastOk' = FALSE
  /\ reply' = NoAnswer
  /\ UNCHANGED <<prev, data, registered, note, pool, loads, mine, quiet>>

-----------------------------------------------------------------------------
(* The platforms create the entities, and with them the device, of a pool  *)
(* the snapshot lists; they run in tasks of their own.                     *)
Register(p) ==
  /\ data.known /\ p \in data.names /\ p \notin registered
  /\ registered' = registered \cup {p}
  /\ UNCHANGED <<prev, data, lastOk, reply, note, pool, loads, mine, quiet>>

(* The user may delete a device of a pool the agent no longer lists.       *)
Removable(p) == lastOk /\ data.known /\ p \notin data.names /\ p \in registered

RemoveDevice_KeepsMemory(p) ==             \* forget_pool leaves the pool in the memory
  /\ Removable(p)
  /\ registered' = registered \ {p}
  /\ note' = [note EXCEPT ![p] = "none"]
  /\ mine' = mine \ {p}
  /\ UNCHANGED <<prev, data, lastOk, reply, pool, loads, quiet>>

(* async_remove_config_entry_device and forget_pool: the notification goes *)
(* and the pool is forgotten.                                              *)
RemoveDevice(p) ==
  /\ Removable(p)
  /\ registered' = registered \ {p}
  /\ note' = [note EXCEPT ![p] = "none"]
  /\ prev' = [q \in DOMAIN prev \ {p} |-> prev[q]]
  /\ mine' = mine \ {p}
  /\ quiet' = quiet \ {p}
  /\ UNCHANGED <<data, lastOk, reply, pool, loads>>

UserDismisses(p) ==
  /\ note[p] # "none"
  /\ note' = [note EXCEPT ![p] = "none"]
  /\ mine' = mine \ {p}
  /\ quiet' = IF p \in DOMAIN prev /\ prev[p] # "healthy" THEN quiet \cup {p} ELSE quiet
  /\ UNCHANGED <<prev, data, lastOk, reply, registered, pool, loads>>

(* async_unload_entry dismisses nothing, and the next setup starts with    *)
(* nothing remembered.                                                     *)
NewCoordinator ==
  /\ loads < MaxLoads
  /\ loads' = loads + 1
  /\ prev' = << >> /\ data' = UnknownPools /\ lastOk' = TRUE
  /\ reply' = NoAnswer
  /\ mine' = {} /\ quiet' = {}
  /\ UNCHANGED <<registered, pool>>

Reload  == NewCoordinator /\ UNCHANGED note
Restart == NewCoordinator /\ note' = [p \in Pools |-> "none"]

PoolChanges(p) ==
  /\ pool' \in {[pool EXCEPT ![p] = c] : c \in (Health \cup {"gone"}) \ {pool[p]}}
  /\ UNCHANGED <<prev, data, lastOk, reply, registered, note, loads, mine, quiet>>

Handle == HandleKnown \/ HandleUnknown \/ HandleFailed

Next ==
  \/ FetchFails
  \/ FetchLists
  \/ HandleKnown
  \/ HandleUnknown
  \/ HandleFailed
  \/ \E p \in Pools : Register(p)
  \/ \E p \in Pools : RemoveDevice(p)
  \/ \E p \in Pools : UserDismisses(p)
  \/ Reload
  \/ Restart
  \/ \E p \in Pools : PoolChanges(p)

Spec == Init /\ [][Next]_vars

(* The update interval keeps polls coming and each of them ends, at its    *)
(* time limit if not before; the environment is assumed to let polls       *)
(* succeed again and again.                                                *)
FairSpec == Spec /\ WF_vars(Handle) /\ SF_vars(FetchLists)

-----------------------------------------------------------------------------
TypeOK ==
  /\ DOMAIN prev \subseteq Pools /\ \A p \in DOMAIN prev : prev[p] \in Condition
  /\ data \in [known : BOOLEAN, names : SUBSET Pools]
  /\ lastOk \in BOOLEAN
  /\ reply \in Answers
  /\ registered \subseteq Pools
  /\ note \in [Pools -> Reasons \cup {"missing", "none"}]
  /\ pool \in [Pools -> Health \cup {"gone"}]
  /\ loads \in Nat
  /\ mine \subseteq Pools /\ quiet \subseteq Pools

(* A notification this coordinator raised says what the last poll that     *)
(* could read the pools said: it is updated, turned into "missing", or     *)
(* dismissed with the pool, in every order of polls, failures and removed  *)
(* devices.                                                                *)
ShownIsCurrent ==
  \A p \in mine : p \in DOMAIN prev /\ note[p] = prev[p]

(* The other way round: a problem in the memory is on the screen, unless   *)
(* it was there when the coordinator first saw the pool, or the user       *)
(* dismissed it.                                                           *)
ProblemIsShown ==
  \A p \in DOMAIN prev : prev[p] # "healthy" /\ p \notin quiet => note[p] = prev[p]

(* "Removing the device is how a user tells the integration a pool is gone *)
(* on purpose" (registered_pool_names), "so it is never reported missing   *)
(* again" (forget_pool): whatever poll is in flight when the device goes,  *)
(* a pool without a device is not on the screen as missing.                *)
MissingIsRegistered == \A p \in Pools : note[p] = "missing" => p \in registered

(* A pool with a device that stays away is reported missing in the end and *)
(* stays so, "even on the first poll" (module docstring), over failed      *)
(* polls, reloads and restarts, while the agent has pool status on and the *)
(* user does not dismiss it.                                               *)
Away(p) == pool[p] = "gone" /\ p \in registered
MissingIsTold ==
  \A p \in Pools :
    <>[](Away(p) /\ p \notin quiet /\ reply.kind # "off") => <>[](note[p] = "missing")
=============================================================================
