------------------------------ MODULE AppHandover ------------------------------
(***************************************************************************)
(* The App hands its machines over (panel_import.py): what the App of an   *)
(* earlier release kept of each machine is sent here, a job makes or finds *)
(* the machine and fills the settings the integration does not have, and   *)
(* the App clears what the job confirms.                                   *)
(*                                                                         *)
(* Jobs, the filling of settings that waited for their machine, and the    *)
(* user's answer to a skipped machine take one asyncio lock in turn; a     *)
(* machine that is deleted does not take it.  Between two actions of the   *)
(* lock's holder the code gives way: while a machine is asked or made, and *)
(* while its last view is read.                                            *)
(*                                                                         *)
(* The record of the handover is a Store: its file is written some time    *)
(* after a save was asked for, with what the record is then.  A stop of    *)
(* Home Assistant writes it if a save is due, a crash does not; both end   *)
(* the jobs.  The App's order of cards and its Replicas are not modelled.  *)
(***************************************************************************)
EXTENDS Naturals

CONSTANTS
  Fields,       \* items of the App: one machine each
  Self,         \* the item of the App's own machine
  Machines, MachineOf,   \* the machine of each item
  Entries,      \* bound: config entries that may ever be made
  Settings,     \* what can be set of a machine
  Immediate,    \* those that need neither a device nor a read of the machine
  Wants,        \* the settings each item brings
  Jobs,         \* bound: jobs at a time
  None

Items == Fields \cup {Self}

ASSUME ItemsAssumption ==
  /\ Self \notin Fields /\ None \notin Items \cup Entries \cup Machines \cup Jobs
  /\ MachineOf \in [Items -> Machines]
  /\ Immediate \subseteq Settings /\ Wants \in [Items -> SUBSET Settings]

VARIABLES
  live, of,     \* Home Assistant's entries, and the machine each one is for
  leaving,      \* deleted entries this integration has not been told of yet
  have,         \* who set each setting of an entry
  ready,        \* what an entry's device and last read allow to be filled
  ledger, waiting, waitingApp, skipped,    \* AppImport.data
  file, pending,             \* the Store: its file, and a save is due
  job,          \* the jobs: state, items and report
  at, holder,   \* where the holder of the lock is, and which job it is
  todo, item, entry, outcome,              \* what it works on
  holds,        \* the items the App has not cleared
  made,         \* history: entries made for each item
  orderly       \* history: no job or filling was cut off, and no machine
                \* deleted while it was being filled

ha      == <<live, of, leaving, have, ready>>
data    == <<ledger, waiting, waitingApp, skipped>>
store   == <<file, pending>>
work    == <<at, holder, todo, item, entry, outcome>>
history == <<made, orderly>>
vars    == <<ha, data, store, job, work, holds, history>>

Setters  == {"none", "app", "user"}
Outcomes == {"created", "matched", "applied", "pending", "replicas_dropped", "discarded"}
Row    == [outcome : Outcomes, entry : Entries \cup {None}, removed : BOOLEAN]
NoRow  == [outcome |-> "none", entry |-> None, removed |-> FALSE]
NewRow(o, e) == [outcome |-> o, entry |-> e, removed |-> FALSE]
Wait   == [item : Items, left : SUBSET Settings]
NoWait == [item |-> None, left |-> {}]
IdleJob == [state |-> "idle", items |-> {}, report |-> {}]

Contents == [ledger : [Items -> Row \cup {NoRow}], waiting : [Entries -> Wait \cup {NoWait}],
             waitingApp : BOOLEAN, skipped : SUBSET Fields]
Content == [ledger |-> ledger, waiting |-> waiting, waitingApp |-> waitingApp,
            skipped |-> skipped]
EmptyStore == [ledger |-> [i \in Items |-> NoRow], waiting |-> [e \in Entries |-> NoWait],
               waitingApp |-> FALSE, skipped |-> {}]

(* Nothing in hand: the lock's holder goes on, or gives the lock back.     *)
Free     == at = "free"
PutDown  == item' = None /\ entry' = None /\ outcome' = "none"
GoOn     == at' = "next" /\ PutDown /\ UNCHANGED <<holder, todo>>
GiveBack == at' = "free" /\ holder' = None /\ PutDown /\ UNCHANGED todo

Init ==
  /\ live = {} /\ of = [e \in Entries |-> None] /\ leaving = {}
  /\ have = [e \in Entries |-> [s \in Settings |-> "none"]]
  /\ ready = [e \in Entries |-> {}]
  /\ ledger = EmptyStore.ledger /\ waiting = EmptyStore.waiting
  /\ waitingApp = FALSE /\ skipped = {}
  /\ file = EmptyStore /\ pending = FALSE
  /\ job = [j \in Jobs |-> IdleJob]
  /\ at = "free" /\ holder = None
  /\ todo = {} /\ item = None /\ entry = None /\ outcome = "none"
  /\ holds = Items
  /\ made = [i \in Items |-> 0] /\ orderly = TRUE

-----------------------------------------------------------------------------
Of(m)  == {e \in live : of[e] = m}
Unused == {e \in Entries : of[e] = None}
Final(i) == ledger[i].outcome # "none"

(* ws_app_import: the App sends what it has not cleared, also when an      *)
(* earlier job's answer was lost or is still to come.                      *)
AppSends(j) ==
  /\ job[j].state = "idle" /\ holds # {}
  /\ job' = [job EXCEPT ![j] = [state |-> "queued", items |-> holds, report |-> {}]]
  /\ UNCHANGED <<ha, data, store, work, holds, history>>

(* A definition X_Slip is X with a mistake that a change of the code could *)
(* make, the one its comment names.  No behaviour uses them: they are what *)
(* the properties are tried on.                                            *)
Already_Redone(items) == {}                \* the ledger is not asked

(* What the ledger has is answered from it and never done again.           *)
Already(items) == {i \in items : Final(i)}

StartJob(j) ==
  /\ job[j].state = "queued" /\ Free
  /\ job' = [job EXCEPT ![j] = [state |-> "running", items |-> {},
                                   report |-> Already(job[j].items)]]
  /\ todo' = job[j].items \ Already(job[j].items)
  /\ at' = "next" /\ holder' = j
  /\ UNCHANGED <<ha, data, store, item, entry, outcome, holds, history>>

-----------------------------------------------------------------------------
(* The next machine: _match finds it by its agent_id or address, or does   *)
(* not know it (it is not here, or here under another name).               *)
TakeField(i) ==
  /\ at = "next" /\ i \in todo \cap Fields
  /\ todo' = todo \ {i}
  /\ item' = i
  /\ \/ \E e \in Of(MachineOf[i]) : at' = "fill" /\ entry' = e /\ outcome' = "matched"
     \/ at' = "create" /\ UNCHANGED <<entry, outcome>>
  /\ UNCHANGED <<ha, data, store, job, holder, holds, history>>

(* _record: a final outcome goes into the ledger and the report.           *)
Record(o, e) ==
  /\ ledger' = [ledger EXCEPT ![item] = NewRow(o, e)]
  /\ skipped' = skipped \ {item}
  /\ job' = [job EXCEPT ![holder].report = @ \cup {item}]
  /\ GoOn

Skip == skipped' = skipped \cup {item} /\ GoOn

NewEntry(e, m) ==
  /\ live' = live \cup {e}
  /\ of' = [of EXCEPT ![e] = m]
  /\ UNCHANGED <<leaving, have, ready>>

(* async_create, the config flow's import step: the machine is made,       *)
(* whether it answers or not, unless the flow knows it.                    *)
CreateNew ==
  /\ at = "create"
  /\ Of(MachineOf[item]) = {}
  /\ \E e \in Unused : NewEntry(e, MachineOf[item]) /\ entry' = e
  /\ outcome' = "created" /\ at' = "made"
  /\ made' = [made EXCEPT ![item] = @ + 1]
  /\ UNCHANGED <<data, store, job, holder, todo, item, holds, orderly>>

(* already_configured: it is looked for again, by address and host name.   *)
CreateKnown ==
  /\ at = "create"
  /\ \E e \in Of(MachineOf[item]) : entry' = e
  /\ outcome' = "matched" /\ at' = "fill"
  /\ UNCHANGED <<ha, data, store, job, holder, todo, item, holds, history>>

(* The flow fails, the address is not one, or the machine it found is not  *)
(* to be found here: skipped, and asked for again.                         *)
CreateFails ==
  /\ at = "create"
  /\ Skip
  /\ UNCHANGED <<ha, ledger, waiting, waitingApp, store, job, holds, history>>

(* replicas_moved: what answers is the App's Replica.                      *)
CreateReplica ==
  /\ at = "create"
  /\ Record("replicas_dropped", None)
  /\ UNCHANGED <<ha, waiting, waitingApp, store, holds, history>>

(* The flow is over: the machine may have been deleted meanwhile.          *)
Made ==
  /\ at = "made"
  /\ \/ entry \in live /\ at' = "fill" /\ UNCHANGED <<holder, todo, item, entry, outcome, skipped>>
     \/ entry \notin live /\ Skip
  /\ UNCHANGED <<ha, ledger, waiting, waitingApp, store, job, holds, history>>

-----------------------------------------------------------------------------
Fillable(e, S) == S \cap (Immediate \cup ready[e])

Fill_Overwrites(e, S) ==                   \* the App's settings win
  have' = [have EXCEPT ![e] =
             [s \in Settings |-> IF s \in Fillable(e, S) THEN "app" ELSE have[e][s]]]

(* async_fill: gaps only, of what can be filled.                           *)
Fill(e, S) ==
  have' = [have EXCEPT ![e] =
             [s \in Settings |-> IF s \in Fillable(e, S) /\ have[e][s] = "none" THEN "app"
                                 ELSE have[e][s]]]

Left(e, S) == S \ (Immediate \cup ready[e])

Waits_Dropped(e, i, S) == UNCHANGED waiting     \* what cannot be filled is let go

(* What could not be filled waits for the machine to be read, in place of  *)
(* what waited for it before.                                              *)
Waits(e, i, S) ==
  waiting' = IF S = {} THEN waiting ELSE [waiting EXCEPT ![e] = [item |-> i, left |-> S]]

(* The end of _field and _self, when the machine is still here.            *)
FillItem ==
  /\ at = "fill" /\ entry \in live
  /\ Fill(entry, Wants[item])
  /\ Waits(entry, item, Left(entry, Wants[item]))
  /\ Record(outcome, entry)
  /\ UNCHANGED <<live, of, leaving, ready, waitingApp, store, holds, history>>

(* It was deleted while its view was read: its entry refuses a change of   *)
(* its thresholds, which skips a field item and ends the job of a self     *)
(* item; with none to write, the machine is recorded all the same.         *)
FillGone ==
  /\ at = "fill" /\ entry \notin live
  /\ Waits(entry, item, Wants[item] \ Immediate)
  /\ Record(outcome, entry)
  /\ UNCHANGED <<ha, waitingApp, store, holds, history>>

FieldRefused ==
  /\ at = "fill" /\ entry \notin live /\ item \in Fields
  /\ Skip
  /\ UNCHANGED <<ha, ledger, waiting, waitingApp, store, job, holds, history>>

SelfRefused ==
  /\ at = "fill" /\ entry \notin live /\ item = Self
  /\ job' = [job EXCEPT ![holder] = [IdleJob EXCEPT !.state = "failed"]]
  /\ GiveBack
  /\ UNCHANGED <<ha, data, store, holds, history>>

(* _self: the App's own machine, filled or waited for.                     *)
TakeSelf ==
  /\ at = "next" /\ todo = {Self}
  /\ todo' = {}
  /\ item' = Self
  /\ \E e \in Of(MachineOf[Self]) : entry' = e
  /\ at' = "fill" /\ outcome' = "applied"
  /\ UNCHANGED <<ha, data, store, job, holder, holds, history>>

SelfWaits ==
  /\ at = "next" /\ todo = {Self}
  /\ Of(MachineOf[Self]) = {}
  /\ todo' = {}
  /\ waitingApp' = TRUE
  /\ ledger' = [ledger EXCEPT ![Self] = NewRow("pending", None)]
  /\ job' = [job EXCEPT ![holder].report = @ \cup {Self}]
  /\ UNCHANGED <<ha, waiting, skipped, store, at, holder, item, entry, outcome, holds, history>>

FinishJob ==
  /\ at = "next" /\ todo = {}
  /\ job' = [job EXCEPT ![holder].state = "done"]
  /\ pending' = TRUE
  /\ GiveBack
  /\ UNCHANGED <<ha, data, file, holds, history>>

-----------------------------------------------------------------------------
(* ws_app_import_result: the App clears what the report says is done, or   *)
(* never gets to see it.                                                   *)
AppClears(j) ==
  /\ job[j].state = "done"
  /\ holds' = holds \ job[j].report
  /\ job' = [job EXCEPT ![j] = IdleJob]
  /\ UNCHANGED <<ha, data, store, work, history>>

ReportLost(j) ==
  /\ job[j].state \in {"done", "failed"}
  /\ job' = [job EXCEPT ![j] = IdleJob]
  /\ UNCHANGED <<ha, data, store, work, holds, history>>

(* ws_import_discard: the user lets a skipped machine go.                  *)
Discard(i) ==
  /\ Free /\ i \in skipped
  /\ skipped' = skipped \ {i}
  /\ ledger' = [ledger EXCEPT ![i] = NewRow("discarded", None)]
  /\ pending' = TRUE
  /\ UNCHANGED <<ha, waiting, waitingApp, file, job, work, holds, history>>

-----------------------------------------------------------------------------
(* _async_apply_waiting, after a machine was read: first what waited for   *)
(* the App's own machine to be here, then what waited for this one.        *)
StartApply(e) ==
  /\ Free /\ e \in live
  /\ entry' = e
  /\ \/ /\ waitingApp /\ of[e] = MachineOf[Self]
        /\ waitingApp' = FALSE
        /\ at' = "app"
     \/ /\ ~(waitingApp /\ of[e] = MachineOf[Self])
        /\ waiting[e] # NoWait
        /\ at' = "held"
        /\ UNCHANGED waitingApp
  /\ UNCHANGED <<ha, ledger, waiting, skipped, store, job, holder, todo, item, outcome, holds,
                 history>>

Applied ==
  ledger' = IF Final(Self) THEN [ledger EXCEPT ![Self].outcome = "applied", ![Self].entry = entry]
            ELSE ledger

ApplyApp ==
  /\ at = "app"
  /\ IF entry \in live
     THEN Fill(entry, Wants[Self]) /\ Waits(entry, Self, Left(entry, Wants[Self]))
     ELSE Waits(entry, Self, Wants[Self] \ Immediate) /\ UNCHANGED have
  /\ Applied
  /\ pending' = TRUE
  /\ IF waiting'[entry] = NoWait THEN GiveBack
     ELSE at' = "held" /\ UNCHANGED <<holder, todo, item, entry, outcome>>
  /\ UNCHANGED <<live, of, leaving, ready, waitingApp, skipped, file, job, holds, history>>

ApplyHeld_KeepsWaiting ==                  \* what was filled is filled again on every read
  /\ at = "held" /\ entry \in live
  /\ Fill(entry, waiting[entry].left)
  /\ GiveBack
  /\ UNCHANGED <<live, of, leaving, ready, data, store, job, holds, history>>

(* What is filled no longer waits; a setting whose drive or device is not  *)
(* there yet stays for a later read.                                       *)
ApplyHeld ==
  /\ at = "held" /\ entry \in live
  /\ LET held == waiting[entry]
         left == Left(entry, held.left)
     IN  /\ Fill(entry, held.left)
         /\ waiting' = [waiting EXCEPT ![entry] =
                          IF left = {} THEN NoWait ELSE [held EXCEPT !.left = left]]
         /\ pending' = (pending \/ left # held.left)
  /\ GiveBack
  /\ UNCHANGED <<live, of, leaving, ready, ledger, waitingApp, skipped, file, job, holds, history>>

(* The machine was deleted meanwhile: its entry refuses the change, or     *)
(* nothing is known of its drives any more.                                *)
ApplyGone ==
  /\ at \in {"app", "held"} /\ entry \notin live
  /\ GiveBack
  /\ UNCHANGED <<ha, data, store, job, holds, history>>

-----------------------------------------------------------------------------
(* Home Assistant: the user deletes a machine, and async_remove_entry      *)
(* tells this integration a little later; async_forget_entry does not wait *)
(* for the lock.                                                           *)
UserDeletes(e) ==
  /\ e \in live
  /\ live' = live \ {e}
  /\ leaving' = leaving \cup {e}
  /\ have' = [have EXCEPT ![e] = [s \in Settings |-> "none"]]
  /\ ready' = [ready EXCEPT ![e] = {}]
  /\ orderly' = (orderly /\ (at \in {"made", "fill", "app", "held"} => entry # e))
  /\ UNCHANGED <<of, data, store, job, work, holds, made>>

ForgetEntry_KeepsWaiting(e) ==             \* only the ledger is told
  /\ e \in leaving
  /\ leaving' = leaving \ {e}
  /\ ledger' = [i \in Items |-> IF ledger[i].entry = e THEN [ledger[i] EXCEPT !.removed = TRUE]
                                ELSE ledger[i]]
  /\ pending' = (pending \/ ledger' # ledger)
  /\ UNCHANGED <<live, of, have, ready, waiting, waitingApp, skipped, file, job, work, holds,
                 history>>

ForgetEntry(e) ==
  /\ e \in leaving
  /\ leaving' = leaving \ {e}
  /\ waiting' = [waiting EXCEPT ![e] = NoWait]
  /\ ledger' = [i \in Items |-> IF ledger[i].entry = e THEN [ledger[i] EXCEPT !.removed = TRUE]
                                ELSE ledger[i]]
  /\ pending' = (pending \/ waiting' # waiting \/ ledger' # ledger)
  /\ UNCHANGED <<live, of, have, ready, waitingApp, skipped, file, job, work, holds, history>>

UserAdds(m) ==
  /\ Of(m) = {}
  /\ \E e \in Unused : NewEntry(e, m)
  /\ UNCHANGED <<data, store, job, work, holds, history>>

UserSets(e, s) ==
  /\ e \in live
  /\ have' = [have EXCEPT ![e][s] = "user"]
  /\ UNCHANGED <<live, of, leaving, ready, data, store, job, work, holds, history>>

(* A drive is read, a device is made.                                      *)
BecomesReady(e, s) ==
  /\ e \in live
  /\ ready' = [ready EXCEPT ![e] = @ \cup {s}]
  /\ UNCHANGED <<live, of, leaving, have, data, store, job, work, holds, history>>

-----------------------------------------------------------------------------
Save ==
  /\ pending
  /\ file' = Content
  /\ pending' = FALSE
  /\ UNCHANGED <<ha, data, job, work, holds, history>>

Load(f) ==
  /\ ledger' = f.ledger /\ waiting' = f.waiting
  /\ waitingApp' = f.waitingApp /\ skipped' = f.skipped
  /\ file' = f /\ pending' = FALSE
  /\ job' = [j \in Jobs |-> IdleJob]
  /\ at' = "free" /\ holder' = None /\ todo' = {} /\ PutDown

(* Deleting an entry and filling what waited are waited for by a stop, a   *)
(* job is not.                                                             *)
Stop ==
  /\ leaving = {} /\ at \notin {"app", "held"}
  /\ Load(IF pending THEN Content ELSE file)
  /\ orderly' = (orderly /\ Free)
  /\ UNCHANGED <<ha, holds, made>>

Crash ==
  /\ Load(file)
  /\ leaving' = {}
  /\ orderly' = FALSE
  /\ UNCHANGED <<live, of, have, ready, holds, made>>

JobStep ==
  \/ \E i \in Fields : TakeField(i)
  \/ CreateNew \/ CreateKnown \/ CreateFails \/ CreateReplica \/ Made
  \/ FillItem \/ FillGone \/ FieldRefused \/ SelfRefused
  \/ TakeSelf \/ SelfWaits \/ FinishJob

ApplyStep == ApplyApp \/ ApplyHeld \/ ApplyGone

Next ==
  \/ \E j \in Jobs : AppSends(j)
  \/ \E j \in Jobs : StartJob(j)
  \/ JobStep
  \/ \E j \in Jobs : AppClears(j)
  \/ \E j \in Jobs : ReportLost(j)
  \/ \E i \in Fields : Discard(i)
  \/ \E e \in Entries : StartApply(e)
  \/ ApplyStep
  \/ \E e \in Entries : UserDeletes(e)
  \/ \E e \in Entries : ForgetEntry(e)
  \/ \E m \in Machines : UserAdds(m)
  \/ \E e \in Entries, s \in Settings : UserSets(e, s)
  \/ \E e \in Entries, s \in Settings : BecomesReady(e, s)
  \/ Save
  \/ Stop
  \/ Crash

Spec == Init /\ [][Next]_vars

(* Every wait of a job has a time limit; a machine is polled again and     *)
(* again, and asyncio's lock is given to whoever asked first.              *)
Fairness ==
  /\ WF_vars(JobStep) /\ WF_vars(ApplyStep)
  /\ \A j \in Jobs : SF_vars(StartJob(j))
  /\ \A e \in Entries : SF_vars(StartApply(e))

FairSpec == Spec /\ Fairness

-----------------------------------------------------------------------------
TypeOK ==
  /\ live \subseteq Entries /\ of \in [Entries -> Machines \cup {None}] /\ leaving \subseteq Entries
  /\ have \in [Entries -> [Settings -> Setters]] /\ ready \in [Entries -> SUBSET Settings]
  /\ Content \in Contents /\ file \in Contents /\ pending \in BOOLEAN
  /\ job \in [Jobs -> [state : {"idle", "queued", "running", "done", "failed"},
                       items : SUBSET Items, report : SUBSET Items]]
  /\ at \in {"free", "next", "create", "made", "fill", "app", "held"}
  /\ holder \in Jobs \cup {None} /\ todo \subseteq Items /\ item \in Items \cup {None}
  /\ entry \in Entries \cup {None} /\ outcome \in Outcomes \cup {"none"}
  /\ holds \subseteq Items /\ made \in [Items -> Nat] /\ orderly \in BOOLEAN

(* "Integration state wins" (module docstring): no setting the user made   *)
(* is ever replaced, by a job or by what waited for a read.                *)
UserWins ==
  [][\A e \in Entries, s \in Settings :
       have[e][s] = "user" /\ e \in live' => have'[e][s] = "user"]_vars

(* "A lost reply, a retry or a second App start changes nothing, and a     *)
(* machine the user deleted after the handover stays deleted": however     *)
(* often an item is sent, its machine is made once, unless a job was cut   *)
(* off.                                                                    *)
MadeOnce == orderly => \A i \in Items : made[i] <= 1

(* What the App has cleared is not lost: each setting of the item is set   *)
(* on its machine, by someone, or waits for the machine.                   *)
Kept(i, e) ==
  \A s \in Wants[i] : have[e][s] # "none" \/ s \in waiting[e].left
NothingLost ==
  orderly =>
    \A i \in Items \ holds :
      /\ ledger[i].entry \in live => Kept(i, ledger[i].entry)
      /\ ledger[i].outcome = "pending" => waitingApp \/ at = "app"

(* async_forget_entry: "A machine is deleted: its ledger row says so, and  *)
(* what waited for it goes."                                               *)
GoneIsForgotten ==
  orderly =>
    /\ \A e \in Entries : waiting[e] # NoWait => e \in live \cup leaving
    /\ \A i \in Items : ledger[i].entry \in Entries \ (live \cup leaving) => ledger[i].removed

(* Settings that wait for a machine that stays, and is read with all its   *)
(* drives, are filled in the end, and so are those of the App's own, once  *)
(* Home Assistant stays up.                                                *)
Settled(e) == e \in live /\ ready[e] = Settings
Restarts == Stop \/ Crash
WaitingIsFilled ==
  \A e \in Entries :
    <>[]Settled(e) /\ <>[][~Restarts]_vars =>
      <>[](waiting[e] = NoWait /\ ~(waitingApp /\ of[e] = MachineOf[Self]))
================================================================================
