------------------------------ MODULE Replica ------------------------------
(* The Replica machine (replica.py, replica_engine.py): one config entry     *)
(* whose drives and pools are files the user picked from a library.          *)
(*                                                                           *)
(* Jobs are the panel's calls: add, remove, delete, edit and write (a saved  *)
(* card or an upload). All but write hold one asyncio lock from their first  *)
(* look to their last save; the poll that shows the result, the removal of a *)
(* device and the removal of the whole entry come after it is given back.    *)
(* An action is what runs from one await to the next. The coordinator's own  *)
(* polls, the user's deleting of the entry, files removed by hand and        *)
(* restarts come in between.                                                 *)
EXTENDS Naturals, Sequences, FiniteSets, SequencesExt

CONSTANTS
    Seeds,          \* numbers of the files that are shipped or dropped
    UserSlots,      \* numbers of the user's own files, in the order of names
    SeedDoc,        \* [Seeds -> Doc], what the shipped files hold
    UserDoc,        \* [UserSlots -> Doc or Absent], the user's at the start
    Batches,        \* the sequences of files one add can name
    Written,        \* the documents that are saved or uploaded
    Jobs,           \* calls that can be under way at once
    NoJob, NotHeld, \* no job; no Picks object, Store file or poll
    MaxDrives, MaxPools,    \* caps of the Replica
    MaxFolderFiles,         \* files of the user's folder that are listed
    MaxOps                  \* bound: calls, hands laid on things, restarts

\* A file: its kind, the number of its device path or pool name, and where the
\* search for another number starts when that one is taken.
Doc == [kind: {"drive", "pool"}, base: Nat, from: Nat]
Absent == [kind |-> "absent", base |-> 0, from |-> 0]
Broken == [kind |-> "broken", base |-> 0, from |-> 0]
Entries == 1 .. MaxOps + 1
Files == ({"seed"} \X Seeds) \cup ({"user"} \X UserSlots)
Pick == [id: Nat, file: Files, kind: {"drive", "pool"}, name: Nat]
Numbers == 1 .. 2 * MaxOps + 2       \* enough for every path and name
NoPicks == <<>>

ASSUME SeedsAreDocs == SeedDoc \in [Seeds -> Doc \cup {Broken}]
ASSUME UserFilesAreDocs == UserDoc \in [UserSlots -> Doc \cup {Broken, Absent}]
ASSUME BoundsAreNumbers == /\ MaxDrives \in Nat /\ MaxPools \in Nat
                           /\ MaxFolderFiles \in Nat /\ MaxOps \in Nat
ASSUME WrittenAreDocs == Written \subseteq Doc
ASSUME BatchesNameFiles == Batches \subseteq Seq(Files)
ASSUME NoJobIsNone == NoJob \notin Jobs
ASSUME NotHeldIsNone == NotHeld \notin Seq(Pick) /\ NotHeld \notin (0 .. MaxOps + 1) \X Seq(Pick)

VARIABLES
    files,      \* [Files -> Doc, Broken or Absent], the folders
    entry,      \* the Replica entry's number, 0 when there was none yet
    phase,      \* where that entry is: none, here, unloading, forgetting
    newer,      \* its Store was written by a newer release
    items,      \* its Picks object's items, or NotHeld
    store,      \* [entry numbers -> picks in the Store's file, or NotHeld]
    lock,       \* the job that has ReplicaRuntime.lock, or NoJob
    job,        \* [Jobs -> where each call is]
    poll,       \* the picks the coordinator's own poll renders, or NotHeld
    shown,      \* coordinator.data: the identities of the drives and pools
    created,    \* coordinator.created, device by device
    devices,    \* the entry's drives and pools in the device registry
    nextPick, ops,
    acked, dropped, byHand      \* history: added and said so, asked to go

cards == << shown, created, devices >>
count == << nextPick, ops >>
past  == << acked, dropped, byHand >>
vars == << files, entry, phase, newer, items, store, lock, job, poll, cards, count, past >>

Idle == [op |-> "idle", at |-> "idle", arg |-> <<>>, g |-> 0, out |-> NoPicks, mine |-> NoPicks]

-----------------------------------------------------------------------------
(* The library                                                               *)

\* A file is listed unless the user's folder has too many before it.
Listed(f) ==
    /\ files[f] # Absent
    /\ f[1] = "user" =>
         Cardinality({n \in UserSlots : n < f[2] /\ files[<< "user", n >>] # Absent})
            < MaxFolderFiles

Readable(f) == Listed(f) /\ files[f] # Broken

InFolder == Cardinality({n \in UserSlots : files[<< "user", n >>] # Absent})

FolderFull == InFolder >= MaxFolderFiles

-----------------------------------------------------------------------------
(* Picks                                                                     *)

NamesOf(ps, k) == {ps[n].name : n \in {n \in DOMAIN ps : ps[n].kind = k}}

\* The file's own path or pool name when it is free, else the next that is.
IsFreeName(n, doc, taken) ==
    IF doc.base \notin taken THEN n = doc.base
    ELSE /\ n >= doc.from /\ n \notin taken
         /\ \A m \in doc.from .. n - 1 : m \in taken

CapOf(k) == IF k = "pool" THEN MaxPools ELSE MaxDrives

\* The picks a batch of files and their documents is added as, after ps, each
\* named against the picks before it; numbers from id on.
EarlierOf(recs, i, k) == {m \in 1 .. i - 1 : recs[m][2].kind = k}

FitsCaps(recs, ps) ==
    \A i \in DOMAIN recs :
        LET k == recs[i][2].kind
        IN Cardinality({n \in DOMAIN ps : ps[n].kind = k})
             + Cardinality(EarlierOf(recs, i, k)) < CapOf(k)

FreeNames_Slip(recs, ps, names) ==
    \A i \in DOMAIN recs :
        IsFreeName(names[i], recs[i][2], NamesOf(ps, recs[i][2].kind))

FreeNames(recs, ps, names) ==
    \A i \in DOMAIN recs :
        LET k == recs[i][2].kind
        IN IsFreeName(names[i], recs[i][2],
                      NamesOf(ps, k) \cup {names[m] : m \in EarlierOf(recs, i, k)})

NewPicks(recs, names, id) ==
    [i \in DOMAIN recs |->
        [id |-> id + i - 1, file |-> recs[i][1], kind |-> recs[i][2].kind, name |-> names[i]]]

\* What a card and a device are known by: a drive by its pick, a pool by name.
Identity(p) == IF p.kind = "pool" THEN << "pool", p.name >> ELSE << "drive", p.id >>
Identities == {"drive", "pool"} \X Nat

\* replica_entry and the picks a call finds: loaded from the Store at first use.
EntryFound == phase # "none"
Held == IF items # NotHeld THEN items
        ELSE IF newer \/ entry = 0 \/ store[entry] = NotHeld THEN NoPicks
        ELSE store[entry]

\* What a poll makes of the picks it has copied.
Render(ps) ==
    {Identity(p) : p \in {q \in ToSet(ps) : Readable(q.file) /\ files[q.file].kind = q.kind}}

\* A poll's answer becomes the data; what it shows and was not created yet is
\* created, and its device registered. A Replica that is gone takes nothing.
Publish(g, ps) ==
    IF phase = "here" /\ entry = g /\ ~newer
    THEN /\ shown' = Render(ps)
         /\ created' = created \cup Render(ps)
         /\ devices' = devices \cup (Render(ps) \ created)
    ELSE UNCHANGED cards

-----------------------------------------------------------------------------
Init ==
    /\ files = [f \in Files |-> IF f[1] = "seed" THEN SeedDoc[f[2]] ELSE UserDoc[f[2]]]
    /\ newer \in BOOLEAN
    /\ entry = (IF newer THEN 1 ELSE 0)
    /\ phase = (IF newer THEN "here" ELSE "none")
    /\ items = (IF newer THEN NoPicks ELSE NotHeld)
    /\ store = [g \in Entries |-> NotHeld]
    /\ lock = NoJob /\ job = [j \in Jobs |-> Idle] /\ poll = NotHeld
    /\ shown = {} /\ created = {} /\ devices = {}
    /\ nextPick = 1 /\ ops = 0
    /\ acked = {} /\ dropped = {} /\ byHand = {}

At(j, op, at) == job[j].op = op /\ job[j].at = at
Go(j, changes) == job' = [job EXCEPT ![j] = changes]
Free == lock' = NoJob

\* A call is made.
Call(j, op, arg) ==
    /\ job[j].at = "idle" /\ ops < MaxOps
    /\ job' = [job EXCEPT ![j] = [Idle EXCEPT !.op = op, !.at = "start", !.arg = arg,
                                                    !.g = entry]]
    /\ ops' = ops + 1
    /\ UNCHANGED << files, entry, phase, newer, items, store, lock, poll, cards,
                    nextPick, past >>

\* The page names files, and cards of the view it has.
Calls(j) ==
    \/ \E b \in Batches : Call(j, "add", b)
    \/ \E k \in shown : Call(j, "remove", k)
    \/ \E k \in {k \in shown : k[1] = "drive"} : Call(j, "edit", k)
    \/ \E f \in Files : Call(j, "delete", f)
    \/ \E d \in Written : Call(j, "write", d)

\* A call that waits for the lock takes it as it begins to look.
Takes(j, op) == At(j, op, "start") /\ lock = NoJob

\* A call refuses and gives the lock back.
Refuse(j) ==
    /\ Free /\ Go(j, Idle)
    /\ UNCHANGED << files, entry, phase, newer, items, store, poll, cards, count, past >>

-----------------------------------------------------------------------------
(* async_add                                                                 *)

\* Every file is found first, in the executor; one that is gone or not a
\* replica refuses them all.
AddFind(j) ==
    /\ Takes(j, "add")
    /\ IF \A i \in DOMAIN job[j].arg : Readable(job[j].arg[i])
       THEN /\ Go(j, [job[j] EXCEPT !.at = "found",
                        !.arg = [i \in DOMAIN job[j].arg |->
                                    << job[j].arg[i], files[job[j].arg[i]] >>]])
            /\ lock' = j
            /\ UNCHANGED << files, entry, phase, newer, items, store, poll, cards,
                            count, past >>
       ELSE Refuse(j)

\* The picks take the batch and their save begins.
TakeBatch(j) ==
    LET recs == job[j].arg
    IN \/ ~FitsCaps(recs, Held) /\ Refuse(j)
       \/ /\ FitsCaps(recs, Held)
          /\ \E names \in [DOMAIN recs -> Numbers] :
               /\ FreeNames(recs, Held, names)
               /\ LET mine == NewPicks(recs, names, nextPick)
                  IN /\ items' = Held \o mine
                     /\ Go(j, [job[j] EXCEPT !.at = "save", !.g = entry,
                                  !.out = Held \o mine, !.mine = mine])
          /\ nextPick' = nextPick + Len(recs)
          /\ UNCHANGED << files, entry, phase, newer, store, lock, poll, cards,
                          ops, past >>

\* The caps are tried before a missing entry is made.
AddCheck(j) ==
    /\ At(j, "add", "found")
    /\ IF EntryFound
       THEN TakeBatch(j)
       ELSE IF ~FitsCaps(job[j].arg, NoPicks)
       THEN Refuse(j)
       ELSE /\ Go(j, [job[j] EXCEPT !.at = "make"])
            /\ UNCHANGED << files, entry, phase, newer, items, store, lock, poll,
                            cards, count, past >>

\* async_ensure_entry: the flow makes the entry and Home Assistant sets it up.
AddMake(j) ==
    /\ At(j, "add", "make") /\ entry + 1 \in Entries
    /\ entry' = entry + 1 /\ phase' = "here"
    /\ items' = NoPicks
    /\ shown' = {} /\ created' = {} /\ devices' = {}
    /\ Go(j, [job[j] EXCEPT !.at = "made"])
    /\ UNCHANGED << files, newer, store, lock, poll, count, past >>

AddMade(j) ==
    /\ At(j, "add", "made")
    /\ IF EntryFound THEN TakeBatch(j) ELSE Refuse(j)

Save_Slip(j, next) ==
    /\ job[j].at = "save"
    /\ Free
    /\ Go(j, [job[j] EXCEPT !.at = next])
    /\ UNCHANGED << files, entry, phase, newer, items, store, poll, cards, count, past >>

\* The save: refused when the Store is of a newer release, after the items
\* were replaced.
Save(j, next) ==
    /\ job[j].at = "save"
    /\ IF newer /\ entry = job[j].g
       THEN Refuse(j)
       ELSE /\ store' = [store EXCEPT ![job[j].g] = job[j].out]
            /\ Free
            /\ Go(j, [job[j] EXCEPT !.at = next])
            /\ UNCHANGED << files, entry, phase, newer, items, poll, cards, count, past >>

\* Every change ends with a poll of the coordinator, when there is one.
RefreshStart(j) ==
    /\ job[j].at = "refresh"
    /\ Go(j, [job[j] EXCEPT !.at = "polling",
                !.out = IF phase = "here" /\ entry = job[j].g THEN Held ELSE NoPicks])
    /\ UNCHANGED << files, entry, phase, newer, items, store, lock, poll, cards, count, past >>

AddDone(j) ==
    /\ At(j, "add", "polling")
    /\ Publish(job[j].g, job[j].out)
    /\ acked' = acked \cup {<< job[j].g, p >> : p \in ToSet(job[j].mine)}
    /\ Go(j, Idle)
    /\ UNCHANGED << files, entry, phase, newer, items, store, lock, poll, count,
                    dropped, byHand >>

-----------------------------------------------------------------------------
(* async_remove_pick                                                         *)

Behind(j) == {n \in DOMAIN Held : Identity(Held[n]) = job[j].arg}
Addressed(j) == EntryFound /\ entry = job[j].g /\ Behind(j) # {}
\* The filter by id takes one pick: ids differ (CardsKeptApart).
Without(ps, n) == RemoveAt(ps, n)

RemoveLook(j) ==
    /\ Takes(j, "remove")
    /\ \/ ~Addressed(j) /\ Refuse(j)
       \/ /\ Addressed(j)
          /\ \E n \in Behind(j) :
               /\ dropped' = dropped \cup {<< "pick", Held[n].id >>}
               /\ \/ /\ Len(Held) = 1
                     /\ Free
                     /\ Go(j, [job[j] EXCEPT !.at = "last", !.mine = << Held[n] >>])
                     /\ UNCHANGED items
                  \/ /\ Len(Held) # 1
                     /\ items' = Without(Held, n)
                     /\ Go(j, [job[j] EXCEPT !.at = "save", !.mine = << Held[n] >>,
                                  !.out = Without(Held, n)])
                     /\ lock' = j
          /\ UNCHANGED << files, entry, phase, newer, store, poll, cards, count, acked,
                          byHand >>

\* The poll that no longer shows the drive, then the device goes with what was
\* created for it.
RemovePolled(j) ==
    /\ At(j, "remove", "polling")
    /\ Publish(job[j].g, job[j].out)
    /\ Go(j, [job[j] EXCEPT !.at = "forget"])
    /\ UNCHANGED << files, entry, phase, newer, items, store, lock, poll, count, past >>

ForgetPickDevice_Slip(j) ==
    /\ At(j, "remove", "forget")
    /\ devices' = IF entry = job[j].g THEN devices \ {Identity(job[j].mine[1])} ELSE devices
    /\ Go(j, Idle)
    /\ UNCHANGED << files, entry, phase, newer, items, store, lock, poll, shown, created,
                    count, past >>

ForgetPickDevice(j) ==
    /\ At(j, "remove", "forget")
    /\ IF entry = job[j].g
       THEN /\ created' = created \ {Identity(job[j].mine[1])}
            /\ devices' = devices \ {Identity(job[j].mine[1])}
       ELSE UNCHANGED << created, devices >>
    /\ Go(j, Idle)
    /\ UNCHANGED << files, entry, phase, newer, items, store, lock, poll, shown, count, past >>

\* The last card: its entry is removed, with no lock.
RemoveLast(j) ==
    /\ At(j, "remove", "last")
    /\ phase' = IF phase = "here" /\ entry = job[j].g THEN "unloading" ELSE phase
    /\ Go(j, Idle)
    /\ UNCHANGED << files, entry, newer, items, store, lock, poll, cards, count, past >>

-----------------------------------------------------------------------------
(* The entry is removed: unloaded, forgotten, taken from the list            *)

UserDeletesEntry ==
    /\ phase = "here" /\ ops < MaxOps
    /\ phase' = "unloading" /\ ops' = ops + 1
    /\ dropped' = dropped \cup {<< "entry", entry >>}
    /\ UNCHANGED << files, entry, newer, items, store, lock, job, poll, cards, nextPick, acked, byHand >>

\* The coordinator is gone and async_forget_entry takes the Picks object away.
ForgetEntry ==
    /\ phase = "unloading"
    /\ phase' = "forgetting" /\ items' = NotHeld
    /\ shown' = {} /\ created' = {}
    /\ UNCHANGED << files, entry, newer, store, lock, job, poll, devices, count, past >>

\* The Store's file is removed; Home Assistant drops the entry and its devices.
EntryLeaves ==
    /\ phase = "forgetting"
    /\ phase' = "none" /\ items' = NotHeld /\ newer' = FALSE
    /\ store' = [store EXCEPT ![entry] = NotHeld]
    /\ devices' = {}
    /\ UNCHANGED << files, entry, lock, job, poll, shown, created, count, past >>

-----------------------------------------------------------------------------
(* async_delete_file, async_edit, async_save_card and async_upload           *)

DeleteLook_Slip(j) ==
    /\ Takes(j, "delete")
    /\ IF EntryFound /\ \E n \in DOMAIN Held :
                Held[n].file = job[j].arg /\ Identity(Held[n]) \in shown
       THEN Refuse(j)
       ELSE /\ lock' = j
            /\ Go(j, [job[j] EXCEPT !.at = "unlink"])
            /\ UNCHANGED << files, entry, phase, newer, items, store, poll, cards,
                            count, past >>

DeleteLook(j) ==
    /\ Takes(j, "delete")
    /\ IF EntryFound /\ \E n \in DOMAIN Held : Held[n].file = job[j].arg
       THEN Refuse(j)
       ELSE /\ lock' = j
            /\ Go(j, [job[j] EXCEPT !.at = "unlink"])
            /\ UNCHANGED << files, entry, phase, newer, items, store, poll, cards,
                            count, past >>

\* In the executor: only the user's own files can be deleted.
DeleteFile(j) ==
    /\ At(j, "delete", "unlink")
    /\ files' = IF Listed(job[j].arg) /\ job[j].arg[1] = "user"
                THEN [files EXCEPT ![job[j].arg] = Absent] ELSE files
    /\ Free /\ Go(j, Idle)
    /\ UNCHANGED << entry, phase, newer, items, store, poll, cards, count, past >>

EditLook(j) ==
    /\ Takes(j, "edit")
    /\ \/ /\ Addressed(j) => \A n \in Behind(j) : ~Readable(Held[n].file)
          /\ Refuse(j)
       \/ /\ Addressed(j)
          /\ \E n \in Behind(j) :
               /\ Readable(Held[n].file)
               /\ Go(j, [job[j] EXCEPT !.at = "write", !.mine = << Held[n] >>])
          /\ lock' = j
          /\ UNCHANGED << files, entry, phase, newer, items, store, poll, cards,
                          count, past >>

\* A user file is changed in place; any other is copied into the user's folder
\* and the card switched to the copy.
EditWrite(j) ==
    /\ At(j, "edit", "write")
    /\ LET p == job[j].mine[1]
       IN \/ /\ p.file[1] = "user" /\ Listed(p.file)
             /\ Free /\ Go(j, [job[j] EXCEPT !.at = "refresh"])
             /\ UNCHANGED << files, entry, phase, newer, items, store, poll, cards,
                             count, past >>
          \/ /\ IF p.file[1] = "user" THEN ~Listed(p.file) ELSE FolderFull
             /\ Refuse(j)
          \/ /\ p.file[1] # "user" /\ ~FolderFull
             /\ \E n \in {n \in UserSlots : files[<< "user", n >>] = Absent} :
                  LET work == [i \in DOMAIN Held |->
                                 IF Held[i].id = p.id
                                 THEN [Held[i] EXCEPT !.file = << "user", n >>]
                                 ELSE Held[i]]
                  IN /\ files' = [files EXCEPT ![<< "user", n >>] = SeedDoc[p.file[2]]]
                     /\ items' = work
                     /\ Go(j, [job[j] EXCEPT !.at = "save", !.out = work])
             /\ UNCHANGED << entry, phase, newer, store, lock, poll, cards, count, past >>

EditDone(j) ==
    /\ At(j, "edit", "polling")
    /\ Publish(job[j].g, job[j].out)
    /\ Go(j, Idle)
    /\ UNCHANGED << files, entry, phase, newer, items, store, lock, poll, count, past >>

\* A saved card or an upload: the folder is looked at, then the file written
\* under a free name, with nothing to keep another write from coming between.
WriteLook(j) ==
    /\ At(j, "write", "start")
    /\ IF FolderFull
       THEN Go(j, Idle)
       ELSE Go(j, [job[j] EXCEPT !.at = "writing"])
    /\ UNCHANGED << files, entry, phase, newer, items, store, lock, poll, cards, count, past >>

WriteFile(j) ==
    /\ At(j, "write", "writing")
    /\ \E n \in {n \in UserSlots : files[<< "user", n >>] = Absent} :
         files' = [files EXCEPT ![<< "user", n >>] = job[j].arg]
    /\ Go(j, Idle)
    /\ UNCHANGED << entry, phase, newer, items, store, lock, poll, cards, count, past >>

-----------------------------------------------------------------------------
(* The coordinator's own polls, the user's hands                   *)

PollStart ==
    /\ poll = NotHeld /\ phase = "here"
    /\ poll' = << entry, Held >>
    /\ UNCHANGED << files, entry, phase, newer, items, store, lock, job, cards, count, past >>

PollEnd ==
    /\ poll # NotHeld
    /\ Publish(poll[1], poll[2])
    /\ poll' = NotHeld
    /\ UNCHANGED << files, entry, phase, newer, items, store, lock, job, count, past >>

\* A file is taken out of the user's folder by hand.
RemoveByHand(f) ==
    /\ f[1] = "user" /\ files[f] # Absent /\ ops < MaxOps
    /\ files' = [files EXCEPT ![f] = Absent]
    /\ ops' = ops + 1
    /\ byHand' = byHand \cup {f}
    /\ UNCHANGED << entry, phase, newer, items, store, lock, job, poll, cards, nextPick, acked, dropped >>

\* Home Assistant restarts: the picks are read from the Store, pools with a
\* registered device are created at once (pool_names_for_setup).
Restart ==
    /\ ops < MaxOps /\ ops' = ops + 1
    /\ phase' = IF phase = "none" THEN "none" ELSE "here"
    /\ items' = IF phase = "none" \/ newer \/ store[entry] = NotHeld THEN NoPicks
                ELSE store[entry]
    /\ shown' = {}
    /\ created' = {d \in devices : d[1] = "pool"}
    /\ lock' = NoJob /\ job' = [j \in Jobs |-> Idle] /\ poll' = NotHeld
    /\ UNCHANGED << files, entry, newer, store, devices, nextPick, past >>

Step(j) ==
    \/ AddFind(j) \/ AddCheck(j) \/ AddMake(j) \/ AddMade(j) \/ AddDone(j)
    \/ RemoveLook(j) \/ RemovePolled(j) \/ ForgetPickDevice(j) \/ RemoveLast(j)
    \/ DeleteLook(j) \/ DeleteFile(j)
    \/ EditLook(j) \/ EditWrite(j) \/ EditDone(j)
    \/ WriteLook(j) \/ WriteFile(j)
    \/ Save(j, "refresh") \/ RefreshStart(j)

Next ==
    \/ \E j \in Jobs : Calls(j) \/ Step(j)
    \/ UserDeletesEntry \/ ForgetEntry \/ EntryLeaves
    \/ PollStart \/ PollEnd
    \/ \E f \in Files : RemoveByHand(f)
    \/ Restart

Fairness ==
    /\ \A j \in Jobs : SF_vars(Step(j))
    /\ WF_vars(ForgetEntry) /\ WF_vars(EntryLeaves)
    /\ WF_vars(PollStart) /\ WF_vars(PollEnd)

Spec == Init /\ [][Next]_vars /\ Fairness

-----------------------------------------------------------------------------
(* Properties                                                                *)

\* What a call is: its argument is whatever it was made with.
IsJob(r) ==
    r \in [op: {"idle", "add", "remove", "edit", "delete", "write"},
           at: {"idle", "start", "found", "make", "made", "save", "refresh", "polling",
                "forget", "last", "unlink", "write", "writing"},
           arg: {r.arg}, g: 0 .. MaxOps + 1, out: Seq(Pick), mine: Seq(Pick)]

\* Every variable has its type; the lock's holder is a job.
TypeOK ==
    /\ files \in [Files -> Doc \cup {Broken, Absent}]
    /\ entry \in 0 .. MaxOps + 1
    /\ phase \in {"none", "here", "unloading", "forgetting"}
    /\ newer \in BOOLEAN
    /\ items \in Seq(Pick) \cup {NotHeld}
    /\ store \in [Entries -> Seq(Pick) \cup {NotHeld}]
    /\ lock \in Jobs \cup {NoJob}
    /\ DOMAIN job = Jobs /\ \A j \in Jobs : IsJob(job[j])
    /\ poll \in ((0 .. MaxOps + 1) \X Seq(Pick)) \cup {NotHeld}
    /\ shown \subseteq Identities /\ created \subseteq Identities /\ devices \subseteq Identities
    /\ nextPick \in Nat /\ ops \in 0 .. MaxOps
    /\ acked \subseteq (0 .. MaxOps + 1) \X Pick

\* Whatever calls, removals and restarts come between, the Replica's cards
\* keep apart and within the caps: no two picks have one id, no two drives one
\* device path, no two pools one name (new_pick, "its identity chosen against
\* the other picks").
CardsKeptApart ==
    /\ \A m, n \in DOMAIN Held :
         m # n => /\ Held[m].id # Held[n].id
                  /\ << Held[m].kind, Held[m].name >> # << Held[n].kind, Held[n].name >>
    /\ \A k \in {"drive", "pool"} :
         Cardinality({n \in DOMAIN Held : Held[n].kind = k}) <= CapOf(k)

\* No call deletes a file that a card of the Replica shows, though it is found,
\* looked up and deleted in steps that other calls come between
\* (async_delete_file, "a file a Replica card still shows is refused").
FileInUseStays ==
    EntryFound => \A n \in DOMAIN Held :
        files[Held[n].file] # Absent \/ Held[n].file \in byHand

\* A card that was answered as added is there, and a crash would not lose it,
\* until a call takes it away or its Replica is being removed.
AddedIsKept ==
    \A a \in acked :
        phase = "here" /\ a[1] = entry /\ << "pick", a[2].id >> \notin dropped =>
            /\ \E n \in DOMAIN Held : Held[n].id = a[2].id
            /\ store[entry] # NotHeld
            /\ \E n \in DOMAIN store[entry] : store[entry][n].id = a[2].id

\* The page catches up with the picks: once no call is made any more, it shows
\* what the picks' files hold, each with its device, whatever order the polls
\* ended in.
CardsCatchUp ==
    <>[](phase = "here" /\ ~newer => shown = Render(Held) /\ shown \subseteq devices)

=============================================================================
