-------------------------- MODULE AppHandoverProofs --------------------------
(***************************************************************************)
(* AppHandover for any items, machines, entries, settings and jobs.        *)
(***************************************************************************)
EXTENDS AppHandover, TLAPS

(* What the holder of the lock has in hand.                                *)
InHand ==
  /\ at \in {"next", "create", "made", "fill"} => holder \in Jobs /\ job[holder].state = "running"
  /\ at \in {"create", "made"} => item \in Fields
  /\ at = "fill" => item \in Items /\ outcome \in {"matched", "created", "applied"}
  /\ at \in {"made", "fill", "app", "held"} => entry \in Entries
  /\ at = "made" => outcome = "created"

Typed == TypeOK /\ InHand

Rows   == [Items -> Row \cup {NoRow}]
Waiter == [Entries -> Wait \cup {NoWait}]
Job    == [state : {"idle", "queued", "running", "done", "failed"},
           items : SUBSET Items, report : SUBSET Items]

LEMMA NoneApart == None \notin Items /\ None \notin Entries /\ None \notin Machines /\ None \notin Jobs
  BY ItemsAssumption

LEMMA ContentType ==
  Content \in Contents <=>
    /\ ledger \in Rows /\ waiting \in Waiter /\ waitingApp \in BOOLEAN /\ skipped \subseteq Fields
  BY DEF Content, Contents, Rows, Waiter

LEMMA ContentTypePrime ==
  Content' \in Contents <=>
    /\ ledger' \in Rows /\ waiting' \in Waiter /\ waitingApp' \in BOOLEAN /\ skipped' \subseteq Fields
  BY DEF Content, Contents, Rows, Waiter

LEMMA TypeParts ==
  TypeOK <=>
    /\ live \subseteq Entries /\ of \in [Entries -> Machines \cup {None}] /\ leaving \subseteq Entries
    /\ have \in [Entries -> [Settings -> Setters]] /\ ready \in [Entries -> SUBSET Settings]
    /\ ledger \in Rows /\ waiting \in Waiter /\ waitingApp \in BOOLEAN /\ skipped \subseteq Fields
    /\ file \in Contents /\ pending \in BOOLEAN
    /\ job \in [Jobs -> Job]
    /\ at \in {"free", "next", "create", "made", "fill", "app", "held"}
    /\ holder \in Jobs \cup {None} /\ todo \subseteq Items /\ item \in Items \cup {None}
    /\ entry \in Entries \cup {None} /\ outcome \in Outcomes \cup {"none"}
    /\ holds \subseteq Items /\ made \in [Items -> Nat] /\ orderly \in BOOLEAN
  BY ContentType DEF TypeOK, Job

LEMMA TypePartsPrime ==
  TypeOK' <=>
    /\ live' \subseteq Entries /\ of' \in [Entries -> Machines \cup {None}] /\ leaving' \subseteq Entries
    /\ have' \in [Entries -> [Settings -> Setters]] /\ ready' \in [Entries -> SUBSET Settings]
    /\ ledger' \in Rows /\ waiting' \in Waiter /\ waitingApp' \in BOOLEAN /\ skipped' \subseteq Fields
    /\ file' \in Contents /\ pending' \in BOOLEAN
    /\ job' \in [Jobs -> Job]
    /\ at' \in {"free", "next", "create", "made", "fill", "app", "held"}
    /\ holder' \in Jobs \cup {None} /\ todo' \subseteq Items /\ item' \in Items \cup {None}
    /\ entry' \in Entries \cup {None} /\ outcome' \in Outcomes \cup {"none"}
    /\ holds' \subseteq Items /\ made' \in [Items -> Nat] /\ orderly' \in BOOLEAN
  BY ContentTypePrime DEF TypeOK, Job

LEMMA RowType ==
  ASSUME NEW o \in Outcomes, NEW e \in Entries \cup {None}
  PROVE  NewRow(o, e) \in Row
  BY DEF NewRow, Row

LEMMA WaitType ==
  ASSUME NEW i \in Items, NEW S \in SUBSET Settings
  PROVE  [item |-> i, left |-> S] \in Wait
  BY DEF Wait

LEMMA EmptyType == EmptyStore \in Contents
<1>1. EmptyStore.ledger \in Rows
  BY DEF EmptyStore, Rows
<1>2. EmptyStore.waiting \in Waiter
  BY DEF EmptyStore, Waiter
<1>3. EmptyStore.waitingApp \in BOOLEAN /\ EmptyStore.skipped \in SUBSET Fields
  BY DEF EmptyStore
<1> QED
  BY <1>1, <1>2, <1>3 DEF EmptyStore, Contents, Rows, Waiter

(* A job stays one when a part of it is replaced.                          *)
LEMMA JobType ==
  ASSUME job \in [Jobs -> Job], NEW j \in Jobs, NEW r \in Job
  PROVE  [job EXCEPT ![j] = r] \in [Jobs -> Job]
  OBVIOUS

LEMMA IdleType == IdleJob \in Job
  BY DEF IdleJob, Job

(* What a recorded item, a skipped one and a filled one leave.             *)
LEMMA RecordType ==
  ASSUME Typed, holder \in Jobs, item \in Items,
         NEW o \in Outcomes, NEW e \in Entries \cup {None}, Record(o, e)
  PROVE  /\ ledger' \in Rows /\ skipped' \subseteq Fields /\ job' \in [Jobs -> Job]
         /\ job'[holder].state = job[holder].state
<1>1. ledger' \in Rows
  BY RowType, TypeParts DEF Typed, Record, Rows
<1>2. skipped' \subseteq Fields
  BY TypeParts DEF Typed, Record
<1>3. job \in [Jobs -> Job] /\ job[holder] \in Job
  BY TypeParts DEF Typed
<1>4. [job[holder] EXCEPT !.report = job[holder].report \cup {item}] \in Job
  BY <1>3 DEF Job
<1>5. job' = [job EXCEPT ![holder] = [job[holder] EXCEPT !.report = job[holder].report \cup {item}]]
  BY DEF Record
<1>6. job' \in [Jobs -> Job]
  BY <1>3, <1>4, <1>5, JobType
<1>7. job'[holder].state = job[holder].state
  BY <1>3, <1>5 DEF Job
<1> QED
  BY <1>1, <1>2, <1>6, <1>7

LEMMA FillType ==
  ASSUME Typed, NEW e \in Entries, NEW S, Fill(e, S)
  PROVE  have' \in [Entries -> [Settings -> Setters]]
<1>1. have \in [Entries -> [Settings -> Setters]]
  BY TypeParts DEF Typed
<1>2. [s \in Settings |-> IF s \in Fillable(e, S) /\ have[e][s] = "none" THEN "app"
                         ELSE have[e][s]] \in [Settings -> Setters]
  BY <1>1 DEF Setters
<1> QED
  BY <1>1, <1>2 DEF Fill

LEMMA WaitsType ==
  ASSUME Typed, NEW e \in Entries, NEW i \in Items, NEW S \in SUBSET Settings, Waits(e, i, S)
  PROVE  waiting' \in Waiter
<1>1. waiting \in Waiter
  BY TypeParts DEF Typed
<1> QED
  BY <1>1, WaitType DEF Waits, Waiter

LEMMA WantsType ==
  ASSUME NEW i \in Items
  PROVE  Wants[i] \in SUBSET Settings
  BY ItemsAssumption

-----------------------------------------------------------------------------
(* The type, with what is in hand: one step per action.                    *)
LEMMA TypedInit == Init => Typed
<1> SUFFICES ASSUME Init PROVE Typed
  OBVIOUS
<1> USE DEF Init
<1>1. ledger \in Rows /\ waiting \in Waiter /\ waitingApp \in BOOLEAN /\ skipped \subseteq Fields
  BY EmptyType DEF EmptyStore, Contents, Rows, Waiter
<1>2. file \in Contents
  BY EmptyType
<1>3. job \in [Jobs -> Job]
  BY IdleType
<1>4. have \in [Entries -> [Settings -> Setters]] /\ of \in [Entries -> Machines \cup {None}]
      /\ ready \in [Entries -> SUBSET Settings] /\ made \in [Items -> Nat]
  BY DEF Setters
<1>5. TypeOK
  BY <1>1, <1>2, <1>3, <1>4, TypeParts
<1>6. InHand
  BY DEF InHand
<1> QED
  BY <1>5, <1>6 DEF Typed

LEMMA LoadType ==
  ASSUME Typed, NEW f \in Contents, Load(f), live' \in SUBSET live, leaving' \in SUBSET leaving,
         UNCHANGED <<of, have, ready, holds, made>>, orderly' \in BOOLEAN
  PROVE  Typed'
<1>1. ledger' \in Rows /\ waiting' \in Waiter /\ waitingApp' \in BOOLEAN /\ skipped' \subseteq Fields
  BY DEF Load, Contents, Rows, Waiter
<1>2. job' \in [Jobs -> Job]
  BY IdleType DEF Load
<1>3. TypeOK'
  BY <1>1, <1>2, TypeParts, TypePartsPrime DEF Typed, Load, PutDown
<1>4. InHand'
  BY DEF Load, InHand
<1> QED
  BY <1>3, <1>4 DEF Typed

LEMMA TypedStep == Typed /\ [Next]_vars => Typed'
<1> SUFFICES ASSUME Typed, [Next]_vars PROVE Typed'
  OBVIOUS
<1>1. ASSUME NEW j \in Jobs, AppSends(j) PROVE Typed'
  <2>1. [state |-> "queued", items |-> holds, report |-> {}] \in Job
    BY <1>1, TypeParts DEF Typed, AppSends, Job
  <2>2. job' \in [Jobs -> Job]
    BY <1>1, <2>1, JobType, TypeParts DEF Typed, AppSends
  <2>3. TypeOK'
    BY <1>1, <2>2, TypeParts, TypePartsPrime DEF Typed, AppSends, ha, data, store, work, history
  <2>4. InHand'
    BY <1>1, <2>2, TypeParts DEF Typed, InHand, AppSends, Job, ha, data, store, work, history
  <2> QED
    BY <2>3, <2>4 DEF Typed
<1>2. ASSUME NEW j \in Jobs, StartJob(j) PROVE Typed'
  <2>1. [state |-> "running", items |-> {}, report |-> Already(job[j].items)] \in Job
    BY <1>2, TypeParts DEF Typed, StartJob, Job, Already, Free
  <2>2. job' \in [Jobs -> Job]
    BY <1>2, <2>1, JobType, TypeParts DEF Typed, StartJob, Already, Free
  <2>3. todo' \subseteq Items
    BY <1>2, TypeParts DEF Typed, StartJob, Job
  <2>4. TypeOK'
    BY <1>2, <2>2, <2>3, TypeParts, TypePartsPrime DEF Typed, StartJob, ha, data, store, work, history, Already, Free
  <2>5. InHand'
    BY <1>2, <2>2, TypeParts DEF Typed, InHand, StartJob, Job
  <2> QED
    BY <2>4, <2>5 DEF Typed
<1>3. ASSUME NEW i \in Fields, TakeField(i) PROVE Typed'
  <2>1. TypeOK'
    BY <1>3, TypeParts, TypePartsPrime DEF Typed, TakeField, ha, data, store, work, history, Items, Outcomes, Of
  <2>2. InHand'
    BY <1>3, TypeParts, TypePartsPrime DEF Typed, InHand, TakeField, ha, data, store, work, history, Items, Outcomes, Of
  <2> QED
    BY <2>1, <2>2 DEF Typed
<1>4. ASSUME CreateNew PROVE Typed'
  <2>1. item \in Fields /\ item \in Items /\ MachineOf[item] \in Machines
    BY <1>4, ItemsAssumption DEF Typed, InHand, CreateNew, Items
  <2>2. PICK e \in Unused : NewEntry(e, MachineOf[item]) /\ entry' = e
    BY <1>4 DEF CreateNew
  <2>3. made' \in [Items -> Nat]
    BY <1>4, <2>1, TypeParts DEF Typed, CreateNew
  <2>4. live' \subseteq Entries /\ of' \in [Entries -> Machines \cup {None}] /\ entry' \in Entries
    BY <2>1, <2>2, TypeParts DEF Typed, NewEntry, Unused
  <2>5. TypeOK'
    BY <1>4, <2>2, <2>3, <2>4, TypeParts, TypePartsPrime DEF Typed, CreateNew, NewEntry, data, store, Outcomes
  <2>6. InHand'
    BY <1>4, <2>1, <2>4 DEF Typed, InHand, CreateNew
  <2> QED
    BY <2>5, <2>6 DEF Typed
<1>5. ASSUME CreateKnown PROVE Typed'
  <2>1. TypeOK'
    BY <1>5, TypeParts, TypePartsPrime DEF Typed, CreateKnown, ha, data, store, work, history, Of, Items, Outcomes
  <2>2. InHand'
    BY <1>5, TypeParts, TypePartsPrime DEF Typed, InHand, CreateKnown, ha, data, store, work, history, Of, Items, Outcomes
  <2> QED
    BY <2>1, <2>2 DEF Typed
<1>6. ASSUME CreateFails PROVE Typed'
  <2>1. TypeOK'
    BY <1>6, TypeParts, TypePartsPrime DEF Typed, InHand, CreateFails, ha, data, store, work, history, Skip, GoOn, PutDown, Items, Outcomes
  <2>2. InHand'
    BY <1>6, TypeParts, TypePartsPrime DEF Typed, InHand, CreateFails, ha, data, store, work, history, Skip, GoOn, PutDown, Items, Outcomes
  <2> QED
    BY <2>1, <2>2 DEF Typed
<1>7. ASSUME CreateReplica PROVE Typed'
  <2>1. holder \in Jobs /\ job[holder].state = "running" /\ item \in Items
        /\ "replicas_dropped" \in Outcomes /\ None \in Entries \cup {None} /\ Record("replicas_dropped", None)
    BY <1>7 DEF Typed, InHand, CreateReplica, Items, Outcomes
  <2>2. /\ ledger' \in Rows /\ skipped' \subseteq Fields /\ job' \in [Jobs -> Job]
        /\ job'[holder].state = "running"
    BY <2>1, RecordType
  <2>8. TypeOK'
    BY <1>7, <2>1, <2>2, TypeParts, TypePartsPrime DEF Typed, CreateReplica, Record, GoOn, PutDown, ha, data, store, work, history
  <2>9. InHand'
    BY <1>7, <2>1, <2>2 DEF InHand, CreateReplica, Record, GoOn, PutDown, ha, data, store, work, history
  <2> QED
    BY <2>8, <2>9 DEF Typed
<1>8. ASSUME Made PROVE Typed'
  <2>1. TypeOK'
    BY <1>8, TypeParts, TypePartsPrime DEF Typed, InHand, Made, ha, data, store, work, history, Skip, GoOn, PutDown, Items, Outcomes
  <2>2. InHand'
    BY <1>8, TypeParts, TypePartsPrime DEF Typed, InHand, Made, ha, data, store, work, history, Skip, GoOn, PutDown, Items, Outcomes
  <2> QED
    BY <2>1, <2>2 DEF Typed
<1>9. ASSUME FillItem PROVE Typed'
  <2>1. holder \in Jobs /\ job[holder].state = "running" /\ item \in Items
        /\ outcome \in Outcomes /\ entry \in Entries \cup {None} /\ Record(outcome, entry)
    BY <1>9 DEF Typed, InHand, FillItem, Items, Outcomes
  <2>2. /\ ledger' \in Rows /\ skipped' \subseteq Fields /\ job' \in [Jobs -> Job]
        /\ job'[holder].state = "running"
    BY <2>1, RecordType
  <2>3. have' \in [Entries -> [Settings -> Setters]]
    BY <1>9, FillType DEF Typed, InHand, FillItem
  <2>4. waiting' \in Waiter
    BY <1>9, <2>1, WaitsType, WantsType DEF Typed, InHand, FillItem, Left
  <2>8. TypeOK'
    BY <1>9, <2>1, <2>2, <2>3, <2>4, TypeParts, TypePartsPrime DEF Typed, FillItem, Record, GoOn, PutDown, ha, data, store, work, history
  <2>9. InHand'
    BY <1>9, <2>1, <2>2 DEF InHand, FillItem, Record, GoOn, PutDown, ha, data, store, work, history
  <2> QED
    BY <2>8, <2>9 DEF Typed
<1>10. ASSUME FillGone PROVE Typed'
  <2>1. holder \in Jobs /\ job[holder].state = "running" /\ item \in Items
        /\ outcome \in Outcomes /\ entry \in Entries \cup {None} /\ Record(outcome, entry)
    BY <1>10 DEF Typed, InHand, FillGone, Items, Outcomes
  <2>2. /\ ledger' \in Rows /\ skipped' \subseteq Fields /\ job' \in [Jobs -> Job]
        /\ job'[holder].state = "running"
    BY <2>1, RecordType
  <2>3. have' \in [Entries -> [Settings -> Setters]]
    BY <1>10, TypeParts DEF Typed, FillGone, ha
  <2>4. waiting' \in Waiter
    BY <1>10, <2>1, WaitsType, WantsType DEF Typed, InHand, FillGone
  <2>8. TypeOK'
    BY <1>10, <2>1, <2>2, <2>3, <2>4, TypeParts, TypePartsPrime DEF Typed, FillGone, Record, GoOn, PutDown, ha, data, store, work, history
  <2>9. InHand'
    BY <1>10, <2>1, <2>2 DEF InHand, FillGone, Record, GoOn, PutDown, ha, data, store, work, history
  <2> QED
    BY <2>8, <2>9 DEF Typed
<1>11. ASSUME FieldRefused PROVE Typed'
  <2>1. TypeOK'
    BY <1>11, TypeParts, TypePartsPrime DEF Typed, FieldRefused, ha, data, store, work, history, Skip, GoOn, PutDown, Items
  <2>2. InHand'
    BY <1>11, TypeParts, TypePartsPrime DEF Typed, InHand, FieldRefused, ha, data, store, work, history, Skip, GoOn, PutDown, Items
  <2> QED
    BY <2>1, <2>2 DEF Typed
<1>12. ASSUME SelfRefused PROVE Typed'
  <2>1. [IdleJob EXCEPT !.state = "failed"] \in Job
    BY <1>12, TypeParts DEF Typed, SelfRefused, Job, IdleJob, GiveBack, PutDown, InHand
  <2>2. job' \in [Jobs -> Job]
    BY <1>12, <2>1, JobType, TypeParts DEF Typed, SelfRefused, IdleJob, GiveBack, PutDown, InHand
  <2>3. TypeOK'
    BY <1>12, <2>2, TypeParts, TypePartsPrime DEF Typed, SelfRefused, ha, data, store, work, history, IdleJob, GiveBack, PutDown, InHand
  <2>4. InHand'
    BY <1>12, <2>2, TypeParts DEF Typed, InHand, SelfRefused, Job, ha, data, store, work, history, IdleJob, GiveBack, PutDown, InHand
  <2> QED
    BY <2>3, <2>4 DEF Typed
<1>13. ASSUME TakeSelf PROVE Typed'
  <2>1. TypeOK'
    BY <1>13, TypeParts, TypePartsPrime DEF Typed, TakeSelf, ha, data, store, work, history, Of, Items, Outcomes
  <2>2. InHand'
    BY <1>13, TypeParts, TypePartsPrime DEF Typed, InHand, TakeSelf, ha, data, store, work, history, Of, Items, Outcomes
  <2> QED
    BY <2>1, <2>2 DEF Typed
<1>14. ASSUME SelfWaits PROVE Typed'
  <2>1. ledger' \in Rows
    BY <1>14, RowType, TypeParts DEF Typed, SelfWaits, Rows, Outcomes, Items
  <2>2. holder \in Jobs /\ job \in [Jobs -> Job] /\ job[holder].state = "running"
    BY <1>14, TypeParts DEF Typed, InHand, SelfWaits
  <2>3. [job[holder] EXCEPT !.report = job[holder].report \cup {Self}] \in Job
    BY <2>2 DEF Job, Items
  <2>4. job' = [job EXCEPT ![holder] = [job[holder] EXCEPT !.report = job[holder].report \cup {Self}]]
    BY <1>14 DEF SelfWaits
  <2>5. job' \in [Jobs -> Job] /\ job'[holder].state = "running"
    BY <2>2, <2>3, <2>4, JobType DEF Job
  <2>6. TypeOK'
    BY <1>14, <2>1, <2>5, TypeParts, TypePartsPrime DEF Typed, SelfWaits, ha, store, history
  <2>7. InHand'
    BY <1>14, <2>2, <2>5 DEF InHand, SelfWaits
  <2> QED
    BY <2>6, <2>7 DEF Typed
<1>15. ASSUME FinishJob PROVE Typed'
  <2>1. [job[holder] EXCEPT !.state = "done"] \in Job
    BY <1>15, TypeParts DEF Typed, FinishJob, Job, GiveBack, PutDown, InHand
  <2>2. job' \in [Jobs -> Job]
    BY <1>15, <2>1, JobType, TypeParts DEF Typed, FinishJob, GiveBack, PutDown, InHand
  <2>3. TypeOK'
    BY <1>15, <2>2, TypeParts, TypePartsPrime DEF Typed, FinishJob, ha, data, store, work, history, GiveBack, PutDown, InHand
  <2>4. InHand'
    BY <1>15, <2>2, TypeParts DEF Typed, InHand, FinishJob, Job, ha, data, store, work, history, GiveBack, PutDown, InHand
  <2> QED
    BY <2>3, <2>4 DEF Typed
<1>16. ASSUME NEW j \in Jobs, AppClears(j) PROVE Typed'
  <2>1. IdleJob \in Job
    BY <1>16, TypeParts DEF Typed, AppClears, Job, IdleJob
  <2>2. job' \in [Jobs -> Job]
    BY <1>16, <2>1, JobType, TypeParts DEF Typed, AppClears, IdleJob
  <2>3. TypeOK'
    BY <1>16, <2>2, TypeParts, TypePartsPrime DEF Typed, AppClears, ha, data, store, work, history, IdleJob
  <2>4. InHand'
    BY <1>16, <2>2, TypeParts DEF Typed, InHand, AppClears, Job, ha, data, store, work, history, IdleJob
  <2> QED
    BY <2>3, <2>4 DEF Typed
<1>17. ASSUME NEW j \in Jobs, ReportLost(j) PROVE Typed'
  <2>1. IdleJob \in Job
    BY <1>17, TypeParts DEF Typed, ReportLost, Job, IdleJob
  <2>2. job' \in [Jobs -> Job]
    BY <1>17, <2>1, JobType, TypeParts DEF Typed, ReportLost, IdleJob
  <2>3. TypeOK'
    BY <1>17, <2>2, TypeParts, TypePartsPrime DEF Typed, ReportLost, ha, data, store, work, history, IdleJob
  <2>4. InHand'
    BY <1>17, <2>2, TypeParts DEF Typed, InHand, ReportLost, Job, ha, data, store, work, history, IdleJob
  <2> QED
    BY <2>3, <2>4 DEF Typed
<1>18. ASSUME NEW i \in Fields, Discard(i) PROVE Typed'
  <2>1. ledger' \in Rows
    BY <1>18, RowType, TypeParts DEF Typed, Discard, Rows, Outcomes, Items
  <2>2. TypeOK'
    BY <1>18, <2>1, TypeParts, TypePartsPrime DEF Typed, Discard, ha, work, history
  <2>3. InHand'
    BY <1>18 DEF Typed, InHand, Discard, Free, work
  <2> QED
    BY <2>2, <2>3 DEF Typed
<1>19. ASSUME NEW e \in Entries, StartApply(e) PROVE Typed'
  <2>1. TypeOK'
    BY <1>19, TypeParts, TypePartsPrime DEF Typed, StartApply, ha, data, store, work, history, Free
  <2>2. InHand'
    BY <1>19, TypeParts, TypePartsPrime DEF Typed, InHand, StartApply, ha, data, store, work, history, Free
  <2> QED
    BY <2>1, <2>2 DEF Typed
<1>20. ASSUME ApplyApp PROVE Typed'
  <2>1. entry \in Entries /\ Self \in Items
    BY <1>20 DEF Typed, InHand, ApplyApp, Items
  <2>2. have' \in [Entries -> [Settings -> Setters]]
    BY <1>20, <2>1, FillType, TypeParts DEF Typed, ApplyApp
  <2>3. waiting' \in Waiter
    BY <1>20, <2>1, WaitsType, WantsType DEF ApplyApp, Left
  <2>4. ledger' \in Rows
    <3>1. ledger \in Rows
      BY TypeParts DEF Typed
    <3>2. CASE ~Final(Self)
      BY <1>20, <3>1, <3>2 DEF ApplyApp, Applied
    <3>3. CASE Final(Self)
      <4>1. ledger[Self] \in Row
        BY <2>1, <3>1, <3>3 DEF Rows, Final, NoRow
      <4>2. [ledger[Self] EXCEPT !.outcome = "applied", !.entry = entry] \in Row
        BY <2>1, <4>1 DEF Row, Outcomes
      <4>3. ledger' = [ledger EXCEPT ![Self] = [ledger[Self] EXCEPT !.outcome = "applied", !.entry = entry]]
        BY <1>20, <2>1, <3>1, <3>3 DEF ApplyApp, Applied, Rows
      <4> QED
        BY <3>1, <4>2, <4>3 DEF Rows
    <3> QED
      BY <3>2, <3>3
  <2>5. TypeOK'
    BY <1>20, <2>2, <2>3, <2>4, TypeParts, TypePartsPrime DEF Typed, ApplyApp, GiveBack, PutDown, history
  <2>6. InHand'
    BY <1>20, <2>1 DEF InHand, ApplyApp, GiveBack
  <2> QED
    BY <2>5, <2>6 DEF Typed
<1>21. ASSUME ApplyHeld PROVE Typed'
  <2>1. entry \in Entries /\ waiting \in Waiter /\ pending \in BOOLEAN
    BY <1>21, TypeParts DEF Typed, InHand, ApplyHeld
  <2>2. have' \in [Entries -> [Settings -> Setters]]
    BY <1>21, <2>1, FillType DEF ApplyHeld
  <2>3. waiting' \in Waiter
    <3> DEFINE held == waiting[entry]
               left == Left(entry, held.left)
    <3>1. held \in Wait \cup {NoWait}
      BY <2>1 DEF Waiter
    <3>2. CASE left = {}
      BY <1>21, <2>1, <3>2 DEF ApplyHeld, Waiter
    <3>3. CASE left # {}
      <4>1. held \in Wait
        BY <3>1, <3>3 DEF Left, NoWait
      <4>2. [held EXCEPT !.left = left] \in Wait
        BY <4>1 DEF Wait, Left
      <4>3. waiting' = [waiting EXCEPT ![entry] = [held EXCEPT !.left = left]]
        BY <1>21, <3>3 DEF ApplyHeld
      <4> QED
        BY <2>1, <4>2, <4>3 DEF Waiter
    <3> QED
      BY <3>2, <3>3
  <2>4. pending' \in BOOLEAN
    BY <1>21 DEF ApplyHeld
  <2>5. TypeOK'
    BY <1>21, <2>2, <2>3, <2>4, TypeParts, TypePartsPrime DEF Typed, ApplyHeld, GiveBack, PutDown, history
  <2>6. InHand'
    BY <1>21 DEF InHand, ApplyHeld, GiveBack
  <2> QED
    BY <2>5, <2>6 DEF Typed
<1>22. ASSUME ApplyGone PROVE Typed'
  <2>1. TypeOK'
    BY <1>22, TypeParts, TypePartsPrime DEF Typed, ApplyGone, ha, data, store, work, history, GiveBack, PutDown
  <2>2. InHand'
    BY <1>22, TypeParts, TypePartsPrime DEF Typed, InHand, ApplyGone, ha, data, store, work, history, GiveBack, PutDown
  <2> QED
    BY <2>1, <2>2 DEF Typed
<1>23. ASSUME NEW e \in Entries, UserDeletes(e) PROVE Typed'
  <2>1. have' \in [Entries -> [Settings -> Setters]] /\ ready' \in [Entries -> SUBSET Settings]
    BY <1>23, TypeParts DEF Typed, UserDeletes, Setters
  <2>2. orderly' \in BOOLEAN
    BY <1>23 DEF UserDeletes
  <2>3. TypeOK'
    BY <1>23, <2>1, <2>2, TypeParts, TypePartsPrime DEF Typed, UserDeletes, data, store, work
  <2>4. InHand'
    BY <1>23 DEF Typed, InHand, UserDeletes, work
  <2> QED
    BY <2>3, <2>4 DEF Typed
<1>24. ASSUME NEW e \in Entries, ForgetEntry(e) PROVE Typed'
  <2>1. waiting' \in Waiter
    BY <1>24, TypeParts DEF Typed, ForgetEntry, Waiter
  <2>2. ASSUME NEW i \in Items, ledger[i].entry = e PROVE [ledger[i] EXCEPT !.removed = TRUE] \in Row
    <3>1. ledger[i] \in Row \cup {NoRow} /\ ledger[i] # NoRow
      BY <2>2, NoneApart, TypeParts DEF Typed, Rows, NoRow
    <3> QED
      BY <3>1 DEF Row
  <2>3. ledger' \in Rows
    BY <1>24, <2>2, TypeParts DEF Typed, ForgetEntry, Rows
  <2>4. pending' \in BOOLEAN
    BY <1>24 DEF ForgetEntry
  <2>5. TypeOK'
    BY <1>24, <2>1, <2>3, <2>4, TypeParts, TypePartsPrime DEF Typed, ForgetEntry, work, history
  <2>6. InHand'
    BY <1>24 DEF Typed, InHand, ForgetEntry, work
  <2> QED
    BY <2>5, <2>6 DEF Typed
<1>25. ASSUME NEW m \in Machines, UserAdds(m) PROVE Typed'
  <2>1. TypeOK'
    BY <1>25, TypeParts, TypePartsPrime DEF Typed, UserAdds, ha, data, store, work, history, NewEntry, Unused, Of
  <2>2. InHand'
    BY <1>25, TypeParts, TypePartsPrime DEF Typed, InHand, UserAdds, ha, data, store, work, history, NewEntry, Unused, Of
  <2> QED
    BY <2>1, <2>2 DEF Typed
<1>26. ASSUME NEW e \in Entries, NEW s \in Settings, UserSets(e, s) PROVE Typed'
  <2>1. have' \in [Entries -> [Settings -> Setters]]
    BY <1>26, TypeParts DEF Typed, UserSets, Setters
  <2>2. TypeOK'
    BY <1>26, <2>1, TypeParts, TypePartsPrime DEF Typed, UserSets, data, store, work, history
  <2>3. InHand'
    BY <1>26 DEF Typed, InHand, UserSets, work
  <2> QED
    BY <2>2, <2>3 DEF Typed
<1>27. ASSUME NEW e \in Entries, NEW s \in Settings, BecomesReady(e, s) PROVE Typed'
  <2>1. ready' \in [Entries -> SUBSET Settings]
    BY <1>27, TypeParts DEF Typed, BecomesReady
  <2>2. TypeOK'
    BY <1>27, <2>1, TypeParts, TypePartsPrime DEF Typed, BecomesReady, data, store, work, history
  <2>3. InHand'
    BY <1>27 DEF Typed, InHand, BecomesReady, work
  <2> QED
    BY <2>2, <2>3 DEF Typed
<1>28. ASSUME Save PROVE Typed'
  <2>1. Content \in Contents
    BY DEF Typed, TypeOK
  <2>2. TypeOK'
    BY <1>28, <2>1, TypeParts, TypePartsPrime DEF Typed, Save, ha, data, work, history
  <2>3. InHand'
    BY <1>28 DEF Typed, InHand, Save, work
  <2> QED
    BY <2>2, <2>3 DEF Typed
<1>29. ASSUME Stop PROVE Typed'
  <2> DEFINE f == IF pending THEN Content ELSE file
  <2>1. f \in Contents
    BY DEF Typed, TypeOK
  <2>2. orderly' \in BOOLEAN
    BY <1>29 DEF Stop
  <2> HIDE DEF f
  <2>3. Load(f)
    BY <1>29 DEF Stop, f
  <2> QED
    BY <1>29, <2>1, <2>2, <2>3, LoadType DEF Stop, ha
<1>30. ASSUME Crash PROVE Typed'
  <2>1. file \in Contents /\ Load(file) /\ orderly' \in BOOLEAN /\ leaving' = {}
    BY <1>30 DEF Typed, TypeOK, Crash
  <2> QED
    BY <1>30, <2>1, LoadType DEF Crash
<1>31. ASSUME UNCHANGED vars PROVE Typed'
  <2>1. TypeOK'
    BY <1>31, TypeParts, TypePartsPrime DEF Typed, vars, ha, data, store, work, history
  <2>2. InHand'
    BY <1>31 DEF Typed, InHand, vars, work
  <2> QED
    BY <2>1, <2>2 DEF Typed
<1> QED
  BY <1>1, <1>2, <1>3, <1>4, <1>5, <1>6, <1>7, <1>8, <1>9, <1>10, <1>11, <1>12, <1>13, <1>14, <1>15, <1>16, <1>17, <1>18, <1>19, <1>20, <1>21, <1>22, <1>23, <1>24, <1>25, <1>26, <1>27, <1>28, <1>29, <1>30, <1>31 DEF Next, JobStep, ApplyStep

(* The record, the jobs and what the lock's holder works on have their     *)
(* types in every state: a row has one of the outcomes the App knows, what *)
(* waits is of a machine's settings.                                       *)
THEOREM TypeCorrect == Spec => []TypeOK
<1>1. Init => Typed
  BY TypedInit
<1>2. Typed /\ [Next]_vars => Typed'
  BY TypedStep
<1>3. Typed => TypeOK
  BY DEF Typed
<1> QED
  BY <1>1, <1>2, <1>3, PTL DEF Spec

-----------------------------------------------------------------------------
LEMMA FillKeeps ==
  ASSUME Typed, NEW e \in Entries, NEW S, Fill(e, S),
         NEW d \in Entries, NEW s \in Settings, have[d][s] = "user"
  PROVE  have'[d][s] = "user"
<1>1. have \in [Entries -> [Settings -> Setters]]
  BY TypeParts DEF Typed
<1> QED
  BY <1>1 DEF Fill

(* Integration state wins: whatever the App sends, and however late it is  *)
(* filled, what the user set stays.                                        *)
THEOREM SettingsOfTheUserStay == Spec => UserWins
<1>1. Init => Typed
  BY TypedInit
<1>2. Typed /\ [Next]_vars => Typed'
  BY TypedStep
<1> DEFINE Stays == \A e \in Entries, s \in Settings :
                      have[e][s] = "user" /\ e \in live' => have'[e][s] = "user"
<1>3. Typed /\ [Next]_vars => Stays
  <2> SUFFICES ASSUME Typed, [Next]_vars, NEW d \in Entries, NEW t \in Settings,
                      have[d][t] = "user", d \in live'
               PROVE  have'[d][t] = "user"
    OBVIOUS
  <2>1. CASE FillItem
    BY <2>1, FillKeeps DEF FillItem, Typed, InHand
  <2>2. CASE ApplyApp
    BY <2>2, FillKeeps DEF ApplyApp, Typed, InHand
  <2>3. CASE ApplyHeld
    BY <2>3, FillKeeps DEF ApplyHeld, Typed, InHand
  <2>4. ASSUME NEW e \in Entries, UserDeletes(e) PROVE have'[d][t] = "user"
    BY <2>4, TypeParts DEF UserDeletes, Typed
  <2>5. ASSUME NEW e \in Entries, NEW s \in Settings, UserSets(e, s) PROVE have'[d][t] = "user"
    BY <2>5, TypeParts DEF UserSets, Typed
  <2>6. ASSUME UNCHANGED have PROVE have'[d][t] = "user"
    BY <2>6
  <2>7. \/ UNCHANGED have \/ FillItem \/ ApplyApp \/ ApplyHeld
        \/ \E e \in Entries : UserDeletes(e)
        \/ \E e \in Entries, s \in Settings : UserSets(e, s)
    BY DEF Next, JobStep, ApplyStep, AppSends, StartJob, TakeField, CreateNew, NewEntry,
           CreateKnown, CreateFails, CreateReplica, Made, FillGone, FieldRefused, SelfRefused,
           TakeSelf, SelfWaits, FinishJob, AppClears, ReportLost, Discard, StartApply, ApplyGone,
           ForgetEntry, UserAdds, BecomesReady, Save, Stop, Crash, vars, ha
  <2> QED
    BY <2>1, <2>2, <2>3, <2>4, <2>5, <2>6, <2>7
<1> QED
  BY <1>1, <1>2, <1>3, PTL DEF Spec, UserWins

-----------------------------------------------------------------------------
(* Beyond the types: a deleted machine is one that was made, and what the  *)
(* job still has to do is not in the ledger.                               *)
Known == live \cap leaving = {} /\ \A e \in live \cup leaving : of[e] # None

TodoOpen ==
  /\ at \in {"next", "create", "made", "fill"} => \A i \in todo : ~Final(i)
  /\ at \in {"create", "made", "fill"} => ~Final(item) /\ item \notin todo

(* While no job was cut off and no machine deleted while it was filled:    *)
(* the machine in hand is here; what is not saved is due to be saved; an   *)
(* item a machine was made for is in the ledger or in hand; a row's        *)
(* machine is its item's.                                                  *)
HandLive == at \in {"made", "fill", "app", "held"} => entry \in live

Saved == at \in {"free", "held"} /\ ~pending => file = Content

MadeOk ==
  \A i \in Items :
    made[i] <= 1 /\ (made[i] = 1 => Final(i) \/ (item = i /\ at \in {"made", "fill"}))

WaitLeft == \A e \in Entries : waiting[e] = NoWait \/ waiting[e].left # {}

RowMachine ==
  /\ \A i \in Items : ledger[i].entry \in Entries => of[ledger[i].entry] = MachineOf[i]
  /\ at \in {"made", "fill"} => of[entry] = MachineOf[item]
  /\ at = "app" => of[entry] = MachineOf[Self]

Gone ==
  /\ \A e \in Entries : waiting[e] # NoWait => e \in live \cup leaving
  /\ \A i \in Items : ledger[i].entry \in Entries \ (live \cup leaving) => ledger[i].removed

Ordered == HandLive /\ Saved /\ MadeOk /\ WaitLeft /\ RowMachine /\ Gone

IInv == Typed /\ Known /\ TodoOpen /\ (orderly => Ordered)

(* What an orderly step is not.                                            *)
LEMMA OrderlyStep ==
  ASSUME IInv, Next, orderly'
  PROVE  /\ orderly /\ Ordered
         /\ ~Crash /\ ~FillGone /\ ~FieldRefused /\ ~SelfRefused /\ ~ApplyGone
<1>1. orderly \in BOOLEAN
  BY TypeParts DEF IInv, Typed
<1>2. ASSUME UNCHANGED orderly PROVE orderly
  BY <1>2
<1>3. ASSUME NEW e \in Entries, UserDeletes(e) PROVE orderly
  BY <1>1, <1>3 DEF UserDeletes
<1>4. ASSUME Stop PROVE orderly
  BY <1>1, <1>4 DEF Stop
<1>5. ~Crash
  BY DEF Crash
<1>6. \/ UNCHANGED orderly \/ Stop \/ Crash \/ \E e \in Entries : UserDeletes(e)
  BY DEF Next, JobStep, ApplyStep, AppSends, StartJob, TakeField, CreateNew,
         CreateKnown, CreateFails, CreateReplica, Made, FillItem, FillGone, FieldRefused,
         SelfRefused, TakeSelf, SelfWaits, FinishJob, AppClears, ReportLost, Discard, StartApply,
         ApplyApp, ApplyHeld, ApplyGone, ForgetEntry, UserAdds, UserSets, BecomesReady, Save,
         history
<1>7. orderly
  BY <1>2, <1>3, <1>4, <1>5, <1>6
<1>8. Ordered
  BY <1>7 DEF IInv
<1>9. HandLive
  BY <1>8 DEF Ordered
<1>10. ~FillGone /\ ~FieldRefused /\ ~SelfRefused /\ ~ApplyGone
  BY <1>9 DEF HandLive, FillGone, FieldRefused, SelfRefused, ApplyGone
<1> QED
  BY <1>5, <1>7, <1>8, <1>10

(* A stop that cuts nothing off writes what the record is, and reads it.   *)
LEMMA StopKeeps ==
  ASSUME IInv, Stop, orderly'
  PROVE  /\ orderly /\ Ordered /\ Free
         /\ UNCHANGED data /\ file' = Content
<1>1. orderly /\ Ordered
  BY OrderlyStep DEF Next
<1>2. Free
  BY DEF Stop
<1>3. (IF pending THEN Content ELSE file) = Content
  BY <1>1, <1>2 DEF Ordered, Saved, Free
<1>4. Load(Content)
  BY <1>3 DEF Stop
<1> QED
  BY <1>1, <1>2, <1>4 DEF Load, Content, data

LEMMA KnownStep ==
  ASSUME IInv, Next
  PROVE  Known'
<1> USE DEF IInv, Typed
<1>1. ASSUME NEW e \in Unused, NEW m \in Machines, NewEntry(e, m) PROVE Known'
  <2>1. e \notin live /\ e \notin leaving
    BY <1>1, TypeParts DEF Known, Unused
  <2>2. m # None /\ of'[e] = m
    BY <1>1, NoneApart, TypeParts DEF NewEntry, Unused
  <2>3. \A d \in live \cup leaving : of'[d] = of[d]
    BY <1>1, <2>1, TypeParts DEF NewEntry
  <2> QED
    BY <1>1, <2>1, <2>2, <2>3 DEF Known, NewEntry
<1>2. CASE CreateNew
  <2>1. MachineOf[item] \in Machines
    BY <1>2, ItemsAssumption DEF InHand, CreateNew, Items
  <2> QED
    BY <1>1, <1>2, <2>1 DEF CreateNew
<1>3. ASSUME NEW m \in Machines, UserAdds(m) PROVE Known'
  BY <1>1, <1>3 DEF UserAdds
<1>4. ASSUME NEW e \in Entries, UserDeletes(e) PROVE Known'
  BY <1>4 DEF UserDeletes, Known
<1>5. ASSUME NEW e \in Entries, ForgetEntry(e) PROVE Known'
  BY <1>5 DEF ForgetEntry, Known
<1>6. CASE Crash
  BY <1>6 DEF Crash, Known
<1>7. CASE UNCHANGED <<live, of, leaving>>
  BY <1>7 DEF Known
<1>8. \/ UNCHANGED <<live, of, leaving>> \/ CreateNew \/ Crash
      \/ \E m \in Machines : UserAdds(m)
      \/ \E e \in Entries : UserDeletes(e) \/ ForgetEntry(e)
  BY DEF Next, JobStep, ApplyStep, AppSends, StartJob, TakeField,
         CreateKnown, CreateFails, CreateReplica, Made, FillItem, FillGone, FieldRefused,
         SelfRefused, TakeSelf, SelfWaits, FinishJob, AppClears, ReportLost, Discard, StartApply,
         ApplyApp, ApplyHeld, ApplyGone, UserSets, BecomesReady, Save, Stop, ha
<1> QED
  BY <1>2, <1>3, <1>4, <1>5, <1>6, <1>7, <1>8

LEMMA TodoStep ==
  ASSUME IInv, Next
  PROVE  TodoOpen'
<1> USE DEF IInv, Typed
<1>1. ASSUME UNCHANGED <<ledger, todo>>, at' = "next", at \in {"next", "create", "made", "fill"}
      PROVE  TodoOpen'
  BY <1>1 DEF TodoOpen, Final
<1>2. ASSUME UNCHANGED <<ledger, todo, item>>, at' \in {"made", "fill"}, at \in {"create", "made"}
      PROVE  TodoOpen'
  BY <1>2 DEF TodoOpen, Final
<1>3. ASSUME at' \in {"free", "app", "held"} PROVE TodoOpen'
  BY <1>3 DEF TodoOpen
<1>4. ASSUME NEW o, NEW e, Record(o, e), at = "create" \/ at = "fill", item \in Items
      PROVE  TodoOpen'
  <2>1. \A i \in todo : ledger'[i] = ledger[i]
    BY <1>4, TypeParts DEF TodoOpen, Record, Rows
  <2>2. at' = "next" /\ todo' = todo
    BY <1>4 DEF Record, GoOn
  <2> QED
    BY <1>4, <2>1, <2>2 DEF TodoOpen, Final
<1>5. ASSUME NEW j \in Jobs, StartJob(j) PROVE TodoOpen'
  <2>1. job[j].items \subseteq Items
    BY TypeParts DEF Job
  <2> QED
    BY <1>5, <2>1 DEF StartJob, TodoOpen, Already, Final, data
<1>6. ASSUME NEW i \in Fields, TakeField(i) PROVE TodoOpen'
  BY <1>6 DEF TakeField, TodoOpen, Final, data
<1>7. CASE TakeSelf
  BY <1>7 DEF TakeSelf, TodoOpen, Final, data
<1>8. CASE SelfWaits
  BY <1>8 DEF SelfWaits, TodoOpen
<1>9. CASE CreateNew \/ CreateKnown
  BY <1>2, <1>9 DEF CreateNew, CreateKnown, data
<1>10. CASE CreateFails \/ FieldRefused
  BY <1>1, <1>10 DEF CreateFails, FieldRefused, Skip, GoOn
<1>11. CASE Made
  BY <1>1, <1>2, <1>11 DEF Made, Skip, GoOn
<1>12. CASE CreateReplica
  BY <1>4, <1>12 DEF CreateReplica, InHand, Items
<1>13. CASE FillItem \/ FillGone
  BY <1>4, <1>13 DEF FillItem, FillGone, InHand
<1>14. CASE SelfRefused \/ FinishJob \/ ApplyGone \/ ApplyApp \/ ApplyHeld \/ Stop \/ Crash
  BY <1>3, <1>14 DEF SelfRefused, FinishJob, ApplyGone, ApplyApp, ApplyHeld, Stop, Crash, Load,
                    GiveBack
<1>15. ASSUME NEW e \in Entries, StartApply(e) PROVE TodoOpen'
  BY <1>3, <1>15 DEF StartApply
<1>16. ASSUME NEW i \in Fields, Discard(i) PROVE TodoOpen'
  BY <1>3, <1>16 DEF Discard, Free, work
<1>17. ASSUME NEW e \in Entries, ForgetEntry(e) PROVE TodoOpen'
  <2>1. \A i \in Items : ledger'[i].outcome = ledger[i].outcome
    <3> SUFFICES ASSUME NEW i \in Items PROVE ledger'[i].outcome = ledger[i].outcome
      OBVIOUS
    <3>1. ledger[i] \in Row \cup {NoRow}
      BY TypeParts DEF Rows
    <3> QED
      BY <1>17, <3>1 DEF ForgetEntry, Row, NoRow
  <2>2. todo \subseteq Items /\ (at \in {"create", "made", "fill"} => item \in Items)
    BY TypeParts DEF InHand, Items
  <2>3. UNCHANGED <<at, todo, item>>
    BY <1>17 DEF ForgetEntry, work
  <2> QED
    BY <2>1, <2>2, <2>3 DEF TodoOpen, Final
<1>18. CASE UNCHANGED <<ledger, at, todo, item>>
  BY <1>18 DEF TodoOpen, Final
<1>19. \/ UNCHANGED <<ledger, at, todo, item>>
       \/ CreateNew \/ CreateKnown \/ CreateFails \/ FieldRefused \/ Made \/ CreateReplica
       \/ FillItem \/ FillGone \/ SelfRefused \/ FinishJob \/ ApplyGone \/ ApplyApp \/ ApplyHeld
       \/ Stop \/ Crash \/ TakeSelf \/ SelfWaits
       \/ \E j \in Jobs : StartJob(j)
       \/ \E i \in Fields : TakeField(i) \/ Discard(i)
       \/ \E e \in Entries : StartApply(e) \/ ForgetEntry(e)
  BY DEF Next, JobStep, ApplyStep, AppSends, AppClears, ReportLost,
         UserDeletes, UserAdds, UserSets, BecomesReady, Save, data, work
<1> QED
  BY <1>5, <1>6, <1>7, <1>8, <1>9, <1>10, <1>11, <1>12, <1>13, <1>14, <1>15, <1>16, <1>17, <1>18, <1>19

-----------------------------------------------------------------------------
LEMMA HandStep ==
  ASSUME IInv, Next, orderly'
  PROVE  HandLive'
<1> USE DEF IInv, Typed
<1>1. orderly /\ HandLive
  BY OrderlyStep DEF Ordered
<1>2. ASSUME at' \in {"free", "next", "create"} PROVE HandLive'
  BY <1>2 DEF HandLive
<1>3. ASSUME live \subseteq live', entry' = entry, at \in {"made", "fill", "app", "held"}
      PROVE  HandLive'
  BY <1>1, <1>3 DEF HandLive
<1>4. ASSUME entry' \in live' PROVE HandLive'
  BY <1>4 DEF HandLive
<1>5. ASSUME NEW i \in Fields, TakeField(i) PROVE HandLive'
  BY <1>2, <1>4, <1>5 DEF TakeField, Of, ha
<1>6. CASE CreateNew
  BY <1>4, <1>6 DEF CreateNew, NewEntry
<1>7. CASE CreateKnown
  BY <1>4, <1>7 DEF CreateKnown, Of, ha
<1>8. CASE TakeSelf
  BY <1>4, <1>8 DEF TakeSelf, Of, ha
<1>9. CASE Made
  BY <1>2, <1>3, <1>9 DEF Made, Skip, GoOn, ha
<1>10. CASE ApplyApp
  BY <1>2, <1>3, <1>10 DEF ApplyApp, GiveBack
<1>11. ASSUME NEW e \in Entries, StartApply(e) PROVE HandLive'
  BY <1>4, <1>11 DEF StartApply, ha
<1>12. ASSUME NEW e \in Entries, UserDeletes(e) PROVE HandLive'
  BY <1>1, <1>12 DEF UserDeletes, HandLive, work
<1>13. ASSUME NEW m \in Machines, UserAdds(m) PROVE HandLive'
  BY <1>1, <1>13 DEF UserAdds, NewEntry, HandLive, work
<1>14. CASE FillItem \/ CreateFails \/ CreateReplica \/ FinishJob \/ ApplyHeld \/ Stop
  BY <1>2, <1>14 DEF FillItem, Record, CreateFails, CreateReplica, Skip, GoOn, FinishJob, ApplyHeld,
                    GiveBack, Stop, Load
<1>15. CASE SelfWaits
  BY <1>2, <1>15 DEF SelfWaits
<1>16. ASSUME NEW j \in Jobs, StartJob(j) PROVE HandLive'
  BY <1>2, <1>16 DEF StartJob
<1>17. CASE UNCHANGED <<live, work>>
  BY <1>1, <1>17 DEF HandLive, work
<1>18. \/ UNCHANGED <<live, work>> \/ CreateNew \/ CreateKnown \/ TakeSelf \/ Made \/ ApplyApp
       \/ FillItem \/ CreateFails \/ CreateReplica \/ FinishJob \/ ApplyHeld \/ Stop \/ SelfWaits
       \/ \E i \in Fields : TakeField(i)
       \/ \E e \in Entries : StartApply(e) \/ UserDeletes(e)
       \/ \E m \in Machines : UserAdds(m)
       \/ \E j \in Jobs : StartJob(j)
  BY OrderlyStep DEF Next, JobStep, ApplyStep, AppSends, AppClears, ReportLost, Discard, ForgetEntry,
         UserSets, BecomesReady, Save, ha
<1> QED
  BY <1>5, <1>6, <1>7, <1>8, <1>9, <1>10, <1>11, <1>12, <1>13, <1>14, <1>15, <1>16, <1>17, <1>18

LEMMA SavedStep ==
  ASSUME IInv, Next, orderly'
  PROVE  Saved'
<1> USE DEF IInv, Typed
<1>1. orderly /\ Saved /\ WaitLeft
  BY OrderlyStep DEF Ordered
<1>2. ASSUME pending' = TRUE \/ at' \in {"next", "create", "made", "fill", "app"} PROVE Saved'
  BY <1>2 DEF Saved
<1>3. ASSUME UNCHANGED <<data, store>>, at \in {"free", "held"} PROVE Saved'
  BY <1>1, <1>3 DEF Saved, Content, data, store
<1>4. CASE Save
  BY <1>4 DEF Save, Saved, Content, data
<1>5. CASE Stop
  <2>1. UNCHANGED data /\ file' = Content
    BY <1>5, StopKeeps
  <2> QED
    BY <2>1 DEF Saved, Content, data
<1>6. CASE ApplyHeld
  <2> DEFINE held == waiting[entry]
             left == Left(entry, held.left)
  <2> SUFFICES ASSUME ~pending' PROVE file' = Content'
    BY DEF Saved
  <2>1. ~pending /\ left = held.left /\ entry \in Entries
    BY <1>6, TypeParts DEF ApplyHeld, InHand
  <2>2. file = Content
    BY <1>1, <1>6, <2>1 DEF Saved, ApplyHeld
  <2>3. held \in Wait \cup {NoWait} /\ waiting \in Waiter
    BY <2>1, TypeParts DEF Waiter
  <2>4. CASE left = {}
    <3>1. held = NoWait
      BY <1>1, <2>1, <2>4 DEF WaitLeft
    <3> QED
      BY <1>6, <2>2, <2>3, <2>4, <3>1 DEF ApplyHeld, Content, Waiter
  <2>5. CASE left # {}
    <3>1. [held EXCEPT !.left = left] = held
      BY <2>1, <2>3 DEF Wait, NoWait
    <3>2. waiting' = [waiting EXCEPT ![entry] = [held EXCEPT !.left = left]]
      BY <1>6, <2>5 DEF ApplyHeld
    <3>3. waiting' = waiting
      BY <2>3, <3>1, <3>2 DEF Waiter
    <3> QED
      BY <1>6, <2>2, <3>3 DEF ApplyHeld, Content
  <2> QED
    BY <2>4, <2>5
<1>7. ASSUME NEW e \in Entries, ForgetEntry(e) PROVE Saved'
  BY <1>1, <1>7 DEF ForgetEntry, Saved, Content, work
<1>8. ASSUME NEW e \in Entries, StartApply(e) PROVE Saved'
  BY <1>2, <1>3, <1>8 DEF StartApply, Free, data
<1>9. ASSUME UNCHANGED <<data, store, at>> PROVE Saved'
  BY <1>2, <1>3, <1>9, TypeParts
<1>10. ASSUME NEW i \in Fields, Discard(i) PROVE Saved'
  BY <1>2, <1>10 DEF Discard
<1>11. CASE FinishJob \/ ApplyApp
  BY <1>2, <1>11 DEF FinishJob, ApplyApp
<1>12. ASSUME NEW i \in Fields, TakeField(i) PROVE Saved'
  BY <1>2, <1>12 DEF TakeField
<1>13. ASSUME NEW j \in Jobs, StartJob(j) PROVE Saved'
  BY <1>2, <1>13 DEF StartJob
<1>14. CASE CreateNew \/ CreateKnown \/ CreateFails \/ CreateReplica \/ Made \/ FillItem \/ TakeSelf
            \/ SelfWaits
  BY <1>2, <1>14 DEF CreateNew, CreateKnown, CreateFails, CreateReplica, Made, FillItem, TakeSelf,
                    SelfWaits, Record, Skip, GoOn
<1>15. \/ UNCHANGED <<data, store, at>> \/ Save \/ Stop \/ ApplyHeld \/ FinishJob \/ ApplyApp
       \/ CreateNew \/ CreateKnown \/ CreateFails \/ CreateReplica \/ Made \/ FillItem \/ TakeSelf
       \/ SelfWaits
       \/ \E e \in Entries : ForgetEntry(e) \/ StartApply(e)
       \/ \E i \in Fields : Discard(i) \/ TakeField(i)
       \/ \E j \in Jobs : StartJob(j)
  BY OrderlyStep DEF Next, JobStep, ApplyStep, AppSends, AppClears, ReportLost, UserDeletes, UserAdds,
         UserSets, BecomesReady, work
<1> QED
  BY <1>4, <1>5, <1>6, <1>7, <1>8, <1>9, <1>10, <1>11, <1>12, <1>13, <1>14, <1>15

LEMMA WaitLeftStep ==
  ASSUME IInv, Next, orderly'
  PROVE  WaitLeft'
<1> USE DEF IInv, Typed
<1>1. orderly /\ WaitLeft /\ waiting \in Waiter
  BY OrderlyStep, TypeParts DEF Ordered
<1>2. ASSUME NEW e \in Entries, NEW i, NEW S, Waits(e, i, S) PROVE WaitLeft'
  BY <1>1, <1>2 DEF WaitLeft, Waits, Waiter
<1>3. CASE FillItem
  BY <1>2, <1>3 DEF FillItem, InHand
<1>4. CASE ApplyApp
  BY <1>2, <1>4 DEF ApplyApp, InHand
<1>5. CASE ApplyHeld
  <2> DEFINE held == waiting[entry]
             left == Left(entry, held.left)
  <2>1. entry \in Entries /\ held \in Wait \cup {NoWait}
    BY <1>1, <1>5 DEF ApplyHeld, InHand, Waiter
  <2>2. CASE left = {}
    BY <1>1, <1>5, <2>1, <2>2 DEF ApplyHeld, WaitLeft, Waiter
  <2>3. CASE left # {}
    <3>1. [held EXCEPT !.left = left].left = left
      BY <2>1 DEF Wait, NoWait
    <3>2. waiting' = [waiting EXCEPT ![entry] = [held EXCEPT !.left = left]]
      BY <1>5, <2>3 DEF ApplyHeld
    <3> QED
      BY <1>1, <2>1, <2>3, <3>1, <3>2 DEF WaitLeft, Waiter
  <2> QED
    BY <2>2, <2>3
<1>6. ASSUME NEW e \in Entries, ForgetEntry(e) PROVE WaitLeft'
  BY <1>1, <1>6 DEF ForgetEntry, WaitLeft, Waiter
<1>7. CASE UNCHANGED waiting
  BY <1>1, <1>7 DEF WaitLeft
<1>8. CASE Stop
  BY <1>7, <1>8, StopKeeps DEF data
<1>9. \/ UNCHANGED waiting \/ FillItem \/ ApplyApp \/ ApplyHeld \/ Stop
      \/ \E e \in Entries : ForgetEntry(e)
  BY OrderlyStep DEF Next, JobStep, ApplyStep, AppSends, StartJob, TakeField, CreateNew, CreateKnown,
         CreateFails, CreateReplica, Made, TakeSelf, SelfWaits, FinishJob, AppClears, ReportLost,
         Discard, StartApply, UserDeletes, UserAdds, UserSets, BecomesReady, Save, data
<1> QED
  BY <1>3, <1>4, <1>5, <1>6, <1>7, <1>8, <1>9

(* What the ledger has stays in it.                                        *)
LEMMA FinalStays ==
  ASSUME IInv, Next, orderly', NEW i \in Items, Final(i)
  PROVE  ledger'[i].outcome # "none"
<1> USE DEF IInv, Typed
<1>1. ledger \in Rows
  BY TypeParts
<1>2. ASSUME NEW o \in Outcomes, NEW e, NEW k \in Items,
             ledger' = [ledger EXCEPT ![k] = NewRow(o, e)]
      PROVE  ledger'[i].outcome # "none"
  BY <1>1, <1>2 DEF Final, Rows, NewRow, Outcomes
<1>3. CASE FillItem
  <2>1. outcome \in Outcomes /\ item \in Items
    BY <1>3 DEF FillItem, InHand, Outcomes
  <2> QED
    BY <1>2, <1>3, <2>1 DEF FillItem, Record
<1>4. CASE CreateReplica
  BY <1>2, <1>4 DEF CreateReplica, Record, InHand, Items, Outcomes
<1>5. CASE SelfWaits
  BY <1>2, <1>5 DEF SelfWaits, Items, Outcomes
<1>6. ASSUME NEW k \in Fields, Discard(k) PROVE ledger'[i].outcome # "none"
  BY <1>2, <1>6 DEF Discard, Items, Outcomes
<1>7. CASE ApplyApp
  BY <1>1, <1>7 DEF ApplyApp, Applied, Final, Rows, Row, NoRow
<1>8. ASSUME NEW e \in Entries, ForgetEntry(e) PROVE ledger'[i].outcome # "none"
  <2>1. ledger[i] \in Row \cup {NoRow}
    BY <1>1 DEF Rows
  <2> QED
    BY <1>8, <2>1 DEF ForgetEntry, Final, Row, NoRow
<1>9. CASE UNCHANGED ledger
  BY <1>9 DEF Final
<1>10. CASE Stop
  BY <1>9, <1>10, StopKeeps DEF data
<1>11. \/ UNCHANGED ledger \/ FillItem \/ CreateReplica \/ SelfWaits \/ ApplyApp \/ Stop
       \/ \E k \in Fields : Discard(k)
       \/ \E e \in Entries : ForgetEntry(e)
  BY OrderlyStep DEF Next, JobStep, ApplyStep, AppSends, StartJob, TakeField, CreateNew, CreateKnown,
         CreateFails, Made, TakeSelf, FinishJob, AppClears, ReportLost,
         StartApply, ApplyHeld, UserDeletes, UserAdds, UserSets, BecomesReady, Save, data
<1> QED
  BY <1>3, <1>4, <1>5, <1>6, <1>7, <1>8, <1>9, <1>10, <1>11

LEMMA MadeStep ==
  ASSUME IInv, Next, orderly'
  PROVE  MadeOk'
<1> USE DEF IInv, Typed
<1>1. orderly /\ MadeOk /\ made \in [Items -> Nat] /\ HandLive
  BY OrderlyStep, TypeParts DEF Ordered
<1>2. ASSUME made' = made, at \in {"made", "fill"} => at' \in {"made", "fill"} /\ item' = item
      PROVE  MadeOk'
  BY <1>1, <1>2, FinalStays DEF MadeOk, Final
<1>3. CASE CreateNew
  <2>1. item \in Items /\ made[item] = 0
    BY <1>1, <1>3 DEF CreateNew, InHand, Items, MadeOk, TodoOpen
  <2>2. made' = [made EXCEPT ![item] = 1] /\ item' = item /\ at' = "made" /\ at = "create"
    BY <1>1, <1>3, <2>1 DEF CreateNew
  <2> QED
    BY <1>1, <2>1, <2>2, FinalStays DEF MadeOk, Final
<1>4. CASE FillItem
  <2>1. item \in Items /\ outcome \in Outcomes /\ ledger \in Rows
    BY <1>4, TypeParts DEF FillItem, InHand, Outcomes
  <2>2. ledger'[item].outcome # "none" /\ made' = made
    BY <1>4, <2>1 DEF FillItem, Record, Rows, NewRow, Outcomes, history
  <2> QED
    BY <1>1, <2>2, FinalStays DEF MadeOk, Final
<1>5. CASE Made
  BY <1>1, <1>2, <1>5 DEF Made, HandLive, history
<1>6. CASE CreateKnown \/ CreateFails \/ CreateReplica \/ TakeSelf \/ SelfWaits \/ FinishJob
           \/ ApplyApp \/ ApplyHeld \/ Stop
  BY <1>2, <1>6 DEF CreateKnown, CreateFails, CreateReplica, TakeSelf, SelfWaits, FinishJob, ApplyApp,
                    ApplyHeld, Stop, Free, history
<1>7. ASSUME NEW i \in Fields, TakeField(i) PROVE MadeOk'
  BY <1>2, <1>7 DEF TakeField, history
<1>8. ASSUME NEW j \in Jobs, StartJob(j) PROVE MadeOk'
  BY <1>2, <1>8 DEF StartJob, Free, history
<1>9. ASSUME NEW e \in Entries, StartApply(e) PROVE MadeOk'
  BY <1>2, <1>9 DEF StartApply, Free, history
<1>10. CASE UNCHANGED <<made, work>>
  BY <1>2, <1>10 DEF work
<1>11. \/ UNCHANGED <<made, work>> \/ CreateNew \/ FillItem \/ Made \/ CreateKnown \/ CreateFails
       \/ CreateReplica \/ TakeSelf \/ SelfWaits \/ FinishJob \/ ApplyApp \/ ApplyHeld \/ Stop
       \/ \E i \in Fields : TakeField(i)
       \/ \E j \in Jobs : StartJob(j)
       \/ \E e \in Entries : StartApply(e)
  BY OrderlyStep DEF Next, JobStep, ApplyStep, AppSends, AppClears, ReportLost, Discard,
         ForgetEntry, UserDeletes, UserAdds, UserSets, BecomesReady, Save, history
<1> QED
  BY <1>3, <1>4, <1>5, <1>6, <1>7, <1>8, <1>9, <1>10, <1>11

LEMMA MachineStep ==
  ASSUME IInv, Next, orderly'
  PROVE  RowMachine'
<1> USE DEF IInv, Typed
<1> DEFINE Rowed  == \A i \in Items : ledger[i].entry \in Entries => of[ledger[i].entry] = MachineOf[i]
           Handed == /\ at \in {"made", "fill"} => of[entry] = MachineOf[item]
                     /\ at = "app" => of[entry] = MachineOf[Self]
<1>1. orderly /\ Rowed /\ Handed /\ ledger \in Rows /\ of \in [Entries -> Machines \cup {None}]
  BY OrderlyStep, TypeParts DEF Ordered, RowMachine
<1>2. \A i \in Items : MachineOf[i] # None
  BY ItemsAssumption, NoneApart
(* The machines of the entries do not change.                              *)
<1>3. ASSUME UNCHANGED ledger, \A e \in Entries : of[e] # None => of'[e] = of[e]
      PROVE  Rowed'
  BY <1>1, <1>2, <1>3
<1>4. ASSUME UNCHANGED <<at, entry, item>>, \A e \in Entries : of[e] # None => of'[e] = of[e]
      PROVE  Handed'
  BY <1>1, <1>2, <1>4 DEF InHand, Items
<1>5. ASSUME NEW e \in Unused, NEW m, NewEntry(e, m)
      PROVE  \A d \in Entries : of[d] # None => of'[d] = of[d]
  BY <1>1, <1>5 DEF NewEntry, Unused
<1>6. ASSUME UNCHANGED of, NEW k \in Items, NEW o, NEW e \in Entries \cup {None},
             e \in Entries => of[e] = MachineOf[k], ledger' = [ledger EXCEPT ![k] = NewRow(o, e)]
      PROVE  Rowed'
  BY <1>1, <1>6 DEF Rows, NewRow
<1>7. ASSUME at' \in {"free", "next", "create", "held"} PROVE Handed'
  BY <1>7
<1>8. CASE CreateNew
  <2>1. PICK e \in Unused : NewEntry(e, MachineOf[item]) /\ entry' = e
    BY <1>8 DEF CreateNew
  <2>2. Rowed'
    BY <1>3, <1>5, <1>8, <2>1 DEF CreateNew, data
  <2>3. Handed'
    BY <1>1, <1>8, <2>1 DEF CreateNew, NewEntry, Unused
  <2> QED
    BY <2>2, <2>3 DEF RowMachine
<1>9. ASSUME NEW m \in Machines, UserAdds(m) PROVE RowMachine'
  <2>1. PICK e \in Unused : NewEntry(e, m)
    BY <1>9 DEF UserAdds
  <2>2. Rowed' /\ Handed'
    BY <1>3, <1>4, <1>5, <1>9, <2>1 DEF UserAdds, data, work
  <2> QED
    BY <2>2 DEF RowMachine
<1>10. ASSUME NEW i \in Fields, TakeField(i) PROVE RowMachine'
  <2>1. Rowed'
    BY <1>3, <1>10 DEF TakeField, ha, data
  <2>2. Handed'
    BY <1>10 DEF TakeField, ha, Of
  <2> QED
    BY <2>1, <2>2 DEF RowMachine
<1>11. CASE CreateKnown \/ TakeSelf
  <2>1. Rowed'
    BY <1>3, <1>11 DEF CreateKnown, TakeSelf, ha, data
  <2>2. Handed'
    BY <1>11 DEF CreateKnown, TakeSelf, ha, Of
  <2> QED
    BY <2>1, <2>2 DEF RowMachine
<1>12. CASE Made
  <2>1. Rowed'
    BY <1>3, <1>12 DEF Made, ha
  <2>2. Handed'
    BY <1>1, <1>12 DEF Made, Skip, GoOn, ha
  <2> QED
    BY <2>1, <2>2 DEF RowMachine
<1>13. CASE FillItem
  <2>1. item \in Items /\ entry \in Entries /\ of[entry] = MachineOf[item]
    BY <1>1, <1>13 DEF FillItem, InHand
  <2>2. Rowed'
    BY <1>6, <1>13, <2>1 DEF FillItem, Record
  <2>3. Handed'
    BY <1>7, <1>13 DEF FillItem, Record, GoOn
  <2> QED
    BY <2>2, <2>3 DEF RowMachine
<1>14. CASE CreateReplica
  <2>1. item \in Items /\ None \notin Entries
    BY <1>14, NoneApart DEF CreateReplica, InHand, Items
  <2>2. Rowed'
    BY <1>6, <1>14, <2>1 DEF CreateReplica, Record, ha
  <2>3. Handed'
    BY <1>7, <1>14 DEF CreateReplica, Record, GoOn
  <2> QED
    BY <2>2, <2>3 DEF RowMachine
<1>15. CASE SelfWaits
  <2>1. Rowed'
    BY <1>6, <1>15, NoneApart DEF SelfWaits, Items, ha
  <2>2. Handed'
    BY <1>7, <1>15 DEF SelfWaits
  <2> QED
    BY <2>1, <2>2 DEF RowMachine
<1>16. ASSUME NEW i \in Fields, Discard(i) PROVE RowMachine'
  <2>1. Rowed'
    BY <1>6, <1>16, NoneApart DEF Discard, Items, ha
  <2>2. Handed'
    BY <1>7, <1>16 DEF Discard, Free, work
  <2> QED
    BY <2>1, <2>2 DEF RowMachine
<1>17. CASE ApplyApp
  <2>1. Self \in Items /\ entry \in Entries /\ of[entry] = MachineOf[Self] /\ of' = of
    BY <1>1, <1>17 DEF ApplyApp, InHand, Items
  <2>2. \A i \in Items : ledger'[i].entry = ledger[i].entry
                           \/ (i = Self /\ ledger'[i].entry = entry)
    BY <1>1, <1>17, <2>1 DEF ApplyApp, Applied, Rows, Row, NoRow
  <2>3. Rowed'
    BY <1>1, <2>1, <2>2
  <2>4. Handed'
    BY <1>7, <1>17 DEF ApplyApp, GiveBack
  <2> QED
    BY <2>3, <2>4 DEF RowMachine
<1>18. ASSUME NEW e \in Entries, StartApply(e) PROVE RowMachine'
  <2>1. Rowed'
    BY <1>3, <1>18 DEF StartApply, ha
  <2>2. Handed'
    BY <1>18 DEF StartApply, ha
  <2> QED
    BY <2>1, <2>2 DEF RowMachine
<1>19. ASSUME NEW e \in Entries, ForgetEntry(e) PROVE RowMachine'
  <2>1. \A i \in Items : ledger'[i].entry = ledger[i].entry
    <3> SUFFICES ASSUME NEW i \in Items PROVE ledger'[i].entry = ledger[i].entry
      OBVIOUS
    <3>1. ledger[i] \in Row \cup {NoRow}
      BY <1>1 DEF Rows
    <3> QED
      BY <1>19, <3>1 DEF ForgetEntry, Row, NoRow
  <2>2. Rowed'
    BY <1>1, <1>19, <2>1 DEF ForgetEntry
  <2>3. Handed'
    BY <1>4, <1>19 DEF ForgetEntry, work
  <2> QED
    BY <2>2, <2>3 DEF RowMachine
<1>20. ASSUME UNCHANGED <<of, ledger>>,
              UNCHANGED <<at, entry, item>> \/ at' \in {"free", "next", "create", "held"}
       PROVE  RowMachine'
  <2>1. Rowed' /\ Handed'
    BY <1>3, <1>4, <1>7, <1>20
  <2> QED
    BY <2>1 DEF RowMachine
<1>21. CASE Stop
  BY <1>20, <1>21, StopKeeps DEF Stop, Load, ha, data
<1>22. CASE CreateFails \/ FinishJob \/ ApplyHeld
  BY <1>20, <1>22 DEF CreateFails, FinishJob, ApplyHeld, Skip, GoOn, GiveBack, ha, data
<1>23. ASSUME NEW j \in Jobs, StartJob(j) PROVE RowMachine'
  BY <1>20, <1>23 DEF StartJob, ha, data
<1>24. CASE UNCHANGED <<of, ledger, work>>
  BY <1>20, <1>24 DEF work
<1>25. \/ UNCHANGED <<of, ledger, work>> \/ CreateNew \/ CreateKnown \/ TakeSelf \/ Made \/ FillItem
       \/ CreateReplica \/ SelfWaits \/ ApplyApp \/ Stop \/ CreateFails \/ FinishJob \/ ApplyHeld
       \/ \E m \in Machines : UserAdds(m)
       \/ \E i \in Fields : TakeField(i) \/ Discard(i)
       \/ \E e \in Entries : StartApply(e) \/ ForgetEntry(e)
       \/ \E j \in Jobs : StartJob(j)
  BY OrderlyStep DEF Next, JobStep, ApplyStep, AppSends, AppClears, ReportLost, UserDeletes, UserSets,
         BecomesReady, Save, ha, data
<1> QED
  BY <1>8, <1>9, <1>10, <1>11, <1>12, <1>13, <1>14, <1>15, <1>16, <1>17, <1>18, <1>19, <1>21, <1>22,
     <1>23, <1>24, <1>25

LEMMA GoneStep ==
  ASSUME IInv, Next, orderly'
  PROVE  Gone'
<1> USE DEF IInv, Typed
<1> DEFINE Here == live \cup leaving
<1>1. orderly /\ Gone /\ HandLive /\ ledger \in Rows /\ waiting \in Waiter
  BY OrderlyStep, TypeParts DEF Ordered
<1>2. ASSUME Here \subseteq Here',
             \A e \in Entries : waiting'[e] = waiting[e] \/ waiting'[e] = NoWait \/ e \in live,
             \A i \in Items : ledger'[i] = ledger[i] \/ ledger'[i].entry \in live \cup {None}
      PROVE  Gone'
  BY <1>1, <1>2, NoneApart DEF Gone
<1>3. ASSUME NEW i, NEW S, Waits(entry, i, S), entry \in Entries
      PROVE  \A e \in Entries : waiting'[e] = waiting[e] \/ e = entry
  BY <1>1, <1>3 DEF Waits, Waiter
<1>4. CASE FillItem
  <2>1. entry \in live /\ entry \in Entries /\ item \in Items
    BY <1>4 DEF FillItem, InHand
  <2>2. \A i \in Items : ledger'[i] = ledger[i] \/ ledger'[i].entry = entry
    BY <1>1, <1>4, <2>1 DEF FillItem, Record, NewRow, Rows
  <2>3. \A e \in Entries : waiting'[e] = waiting[e] \/ e = entry
    BY <1>3, <1>4, <2>1 DEF FillItem
  <2> QED
    BY <1>2, <1>4, <2>1, <2>2, <2>3 DEF FillItem
<1>5. CASE CreateReplica
  <2>1. \A i \in Items : ledger'[i] = ledger[i] \/ ledger'[i].entry = None
    BY <1>1, <1>5 DEF CreateReplica, Record, NewRow, Rows, InHand, Items
  <2> QED
    BY <1>2, <1>5, <2>1 DEF CreateReplica, ha
<1>6. CASE SelfWaits
  <2>1. \A i \in Items : ledger'[i] = ledger[i] \/ ledger'[i].entry = None
    BY <1>1, <1>6 DEF SelfWaits, NewRow, Rows, Items
  <2> QED
    BY <1>2, <1>6, <2>1 DEF SelfWaits, ha
<1>7. ASSUME NEW k \in Fields, Discard(k) PROVE Gone'
  <2>1. \A i \in Items : ledger'[i] = ledger[i] \/ ledger'[i].entry = None
    BY <1>1, <1>7 DEF Discard, NewRow, Rows, Items
  <2> QED
    BY <1>2, <1>7, <2>1 DEF Discard, ha
<1>8. CASE ApplyApp
  <2>1. entry \in live /\ entry \in Entries /\ Self \in Items
    BY <1>1, <1>8 DEF ApplyApp, InHand, HandLive, Items
  <2>2. \A i \in Items : ledger'[i] = ledger[i] \/ ledger'[i].entry = entry
    BY <1>1, <1>8, <2>1 DEF ApplyApp, Applied, Rows, Row, NoRow
  <2>3. \A e \in Entries : waiting'[e] = waiting[e] \/ e = entry
    BY <1>3, <1>8, <2>1 DEF ApplyApp
  <2> QED
    BY <1>2, <1>8, <2>1, <2>2, <2>3 DEF ApplyApp
<1>9. CASE ApplyHeld
  <2>1. entry \in live /\ entry \in Entries
    BY <1>9 DEF ApplyHeld, InHand
  <2>2. \A e \in Entries : waiting'[e] = waiting[e] \/ e = entry
    BY <1>1, <1>9, <2>1 DEF ApplyHeld, Waiter
  <2> QED
    BY <1>2, <1>9, <2>1, <2>2 DEF ApplyHeld
<1>10. ASSUME NEW e \in Entries, UserDeletes(e) PROVE Gone'
  BY <1>2, <1>10 DEF UserDeletes, data
<1>11. ASSUME NEW e \in Entries, ForgetEntry(e) PROVE Gone'
  <2>1. Here' = Here \ {e} /\ e \notin live
    BY <1>11 DEF ForgetEntry, Known
  <2>2. \A d \in Entries : waiting'[d] # NoWait => d \in Here'
    BY <1>1, <1>11, <2>1 DEF ForgetEntry, Gone, Waiter
  <2>3. ASSUME NEW i \in Items, ledger'[i].entry \in Entries \ Here' PROVE ledger'[i].removed
    <3>1. CASE ledger[i].entry = e
      <4>1. ledger[i] \in Row
        BY <1>1, <3>1, NoneApart DEF Rows, NoRow
      <4> QED
        BY <1>11, <3>1, <4>1 DEF ForgetEntry, Row
    <3>2. CASE ledger[i].entry # e
      BY <1>1, <1>11, <2>1, <2>3, <3>2 DEF ForgetEntry, Gone
    <3> QED
      BY <3>1, <3>2
  <2> QED
    BY <2>2, <2>3 DEF Gone
<1>12. CASE CreateNew
  BY <1>2, <1>12 DEF CreateNew, NewEntry, data
<1>13. ASSUME NEW m \in Machines, UserAdds(m) PROVE Gone'
  BY <1>2, <1>13 DEF UserAdds, NewEntry, data
<1>14. CASE UNCHANGED <<live, leaving, ledger, waiting>>
  BY <1>1, <1>14 DEF Gone
<1>15. CASE Stop
  BY <1>14, <1>15, StopKeeps DEF Stop, ha, data
<1>16. \/ UNCHANGED <<live, leaving, ledger, waiting>> \/ FillItem \/ CreateReplica \/ SelfWaits
       \/ ApplyApp \/ ApplyHeld \/ CreateNew \/ Stop
       \/ \E k \in Fields : Discard(k)
       \/ \E e \in Entries : UserDeletes(e) \/ ForgetEntry(e)
       \/ \E m \in Machines : UserAdds(m)
  BY OrderlyStep DEF Next, JobStep, ApplyStep, AppSends, StartJob, TakeField, CreateKnown, CreateFails,
         Made, TakeSelf, FinishJob, AppClears, ReportLost, StartApply, UserSets, BecomesReady, Save,
         ha, data
<1> QED
  BY <1>4, <1>5, <1>6, <1>7, <1>8, <1>9, <1>10, <1>11, <1>12, <1>13, <1>14, <1>15, <1>16

-----------------------------------------------------------------------------
LEMMA IInvInit == Init => IInv
<1> SUFFICES ASSUME Init PROVE IInv
  OBVIOUS
<1>1. Typed
  BY TypedInit
<1>2. Known /\ TodoOpen
  BY DEF Init, Known, TodoOpen
<1>3. file = Content
  BY DEF Init, Content, EmptyStore
<1>4. HandLive /\ Saved /\ WaitLeft
  BY <1>3 DEF Init, HandLive, Saved, WaitLeft, EmptyStore
<1>5. MadeOk /\ RowMachine /\ Gone
  BY NoneApart DEF Init, MadeOk, RowMachine, Gone, EmptyStore, NoRow
<1> QED
  BY <1>1, <1>2, <1>4, <1>5 DEF IInv, Ordered

LEMMA IInvStep == IInv /\ [Next]_vars => IInv'
<1>1. ASSUME IInv, Next PROVE IInv'
  <2>1. Typed' /\ Known' /\ TodoOpen'
    BY <1>1, TypedStep, KnownStep, TodoStep DEF IInv
  <2>2. ASSUME orderly' PROVE Ordered'
    BY <1>1, <2>2, HandStep, SavedStep, MadeStep, WaitLeftStep, MachineStep, GoneStep DEF Ordered
  <2> QED
    BY <2>1, <2>2 DEF IInv
<1>2. ASSUME IInv, UNCHANGED vars PROVE IInv'
  <2>1. Typed'
    BY <1>2, TypedStep DEF IInv
  <2>2. Known' /\ TodoOpen'
    BY <1>2 DEF IInv, Known, TodoOpen, Final, vars, ha, data, work
  <2>3. ASSUME orderly' PROVE Ordered'
    <3>1. Ordered
      BY <1>2, <2>3 DEF IInv, vars, history
    <3>2. HandLive' /\ MadeOk' /\ WaitLeft'
      BY <1>2, <3>1 DEF Ordered, HandLive, MadeOk, WaitLeft, Final, vars, ha, data, work, history
    <3>3. Saved'
      BY <1>2, <3>1 DEF Ordered, Saved, Content, vars, data, store, work
    <3>4. RowMachine' /\ Gone'
      BY <1>2, <3>1 DEF Ordered, RowMachine, Gone, vars, ha, data, work
    <3> QED
      BY <3>2, <3>3, <3>4 DEF Ordered
  <2> QED
    BY <2>1, <2>2, <2>3 DEF IInv
<1> QED
  BY <1>1, <1>2

(* A retry, a lost answer, two jobs at once, a deleted machine or a proper *)
(* restart never makes a second machine for an item.                       *)
THEOREM EachIsMadeOnce == Spec => []MadeOnce
<1>1. IInv => MadeOnce
  BY DEF IInv, Ordered, MadeOk, MadeOnce
<1> QED
  BY <1>1, IInvInit, IInvStep, PTL DEF Spec

(* Of a deleted machine nothing waits, and its row says that it is gone,   *)
(* from when the integration is told.                                      *)
THEOREM TheGoneAreForgotten == Spec => []GoneIsForgotten
<1>1. IInv => GoneIsForgotten
  BY DEF IInv, Ordered, Gone, GoneIsForgotten
<1> QED
  BY <1>1, IInvInit, IInvStep, PTL DEF Spec

-----------------------------------------------------------------------------
(* Nothing is lost, when the App does not know a machine twice: two items  *)
(* of one machine would take the place of each other's waiting settings.   *)
OneEach == \A i, k \in Items : MachineOf[i] = MachineOf[k] => i = k

KeptAll == \A i \in Items : ledger[i].entry \in live => Kept(i, ledger[i].entry)

PendingWaits ==
  \A i \in Items : ledger[i].outcome = "pending" => i = Self /\ (waitingApp \/ at = "app")

KInv == IInv /\ (orderly => KeptAll /\ PendingWaits)

(* A setting is filled or left, and no other entry is touched.             *)
LEMMA FillSets ==
  ASSUME Typed, NEW e \in Entries, NEW S \in SUBSET Settings, Fill(e, S)
  PROVE  /\ \A s \in S : have'[e][s] # "none" \/ s \in Left(e, S)
         /\ \A s \in Settings : have[e][s] # "none" => have'[e][s] # "none"
         /\ \A d \in Entries : d # e => have'[d] = have[d]
<1>1. have \in [Entries -> [Settings -> Setters]]
  BY TypeParts DEF Typed
<1>2. have' = [have EXCEPT ![e] = [s \in Settings |-> IF s \in Fillable(e, S) /\ have[e][s] = "none"
                                                    THEN "app" ELSE have[e][s]]]
  BY DEF Fill
<1>3. \A s \in Settings : have'[e][s] = IF s \in Fillable(e, S) /\ have[e][s] = "none"
                                       THEN "app" ELSE have[e][s]
  BY <1>1, <1>2
<1>4. \A d \in Entries : d # e => have'[d] = have[d]
  BY <1>1, <1>2
<1> QED
  BY <1>3, <1>4 DEF Fillable, Left

LEMMA FilledIsKept ==
  ASSUME Typed, NEW e \in Entries, NEW i \in Items, NEW k, Fill(e, Wants[i]),
         Waits(e, k, Left(e, Wants[i]))
  PROVE  /\ \A s \in Wants[i] : have'[e][s] # "none" \/ s \in waiting'[e].left
         /\ \A d \in Entries : d # e => have'[d] = have[d] /\ waiting'[d] = waiting[d]
<1>1. Wants[i] \in SUBSET Settings /\ waiting \in Waiter
  BY WantsType, TypeParts DEF Typed
<1>2. /\ \A s \in Wants[i] : have'[e][s] # "none" \/ s \in Left(e, Wants[i])
      /\ \A d \in Entries : d # e => have'[d] = have[d]
  BY <1>1, FillSets
<1>3. Left(e, Wants[i]) # {} => waiting'[e].left = Left(e, Wants[i])
  BY <1>1 DEF Waits, Waiter
<1>4. \A d \in Entries : d # e => waiting'[d] = waiting[d]
  BY <1>1 DEF Waits, Waiter
<1> QED
  BY <1>2, <1>3, <1>4

LEMMA KeptStep ==
  ASSUME OneEach, KInv, Next, orderly'
  PROVE  KeptAll'
<1> USE DEF KInv, IInv, Typed
<1>1. /\ KeptAll /\ RowMachine /\ HandLive /\ ledger \in Rows /\ waiting \in Waiter
      /\ have \in [Entries -> [Settings -> Setters]] /\ live \subseteq Entries
  BY OrderlyStep, TypeParts DEF Ordered
<1>2. None \notin live /\ None \notin live'
  BY NoneApart, TypeParts, TypePartsPrime, TypedStep
<1>3. ASSUME NEW i \in Items, NEW e \in live, ledger[i].entry = e,
             have'[e] = have[e], waiting'[e] = waiting[e]
      PROVE  Kept(i, e)'
  BY <1>1, <1>3 DEF KeptAll, Kept
(* An item is recorded: it is kept, and no other row has its machine.      *)
<1>4. ASSUME NEW k \in Items, entry \in live, of[entry] = MachineOf[k], live' = live,
             Fill(entry, Wants[k]), Waits(entry, k, Left(entry, Wants[k])),
             \A i \in Items : i # k => ledger'[i].entry = ledger[i].entry,
             ledger'[k].entry \in {entry, None}
      PROVE  KeptAll'
  <2> SUFFICES ASSUME NEW i \in Items, NEW e \in live, ledger'[i].entry = e PROVE Kept(i, e)'
    BY <1>4 DEF KeptAll, Kept
  <2>1. /\ \A s \in Wants[k] : have'[entry][s] # "none" \/ s \in waiting'[entry].left
        /\ \A d \in Entries : d # entry => have'[d] = have[d] /\ waiting'[d] = waiting[d]
    BY <1>1, <1>4, FilledIsKept
  <2>2. CASE i = k
    BY <1>2, <1>4, <2>1, <2>2 DEF Kept
  <2>3. CASE i # k
    <3>1. ledger[i].entry = e
      BY <1>4, <2>3
    <3>2. of[e] = MachineOf[i] /\ MachineOf[i] # MachineOf[k]
      BY <1>1, <2>3, <3>1 DEF RowMachine, OneEach
    <3>3. e # entry /\ e \in Entries
      BY <1>1, <1>4, <3>2
    <3> QED
      BY <1>1, <1>3, <2>1, <3>1, <3>3
  <2> QED
    BY <2>2, <2>3
(* A row without a machine is written.                                     *)
<1>5. ASSUME live' \subseteq live, UNCHANGED waiting, \A e \in live' : have'[e] = have[e],
             \A i \in Items : ledger'[i].entry = ledger[i].entry \/ ledger'[i].entry = None
      PROVE  KeptAll'
  BY <1>1, <1>2, <1>5 DEF KeptAll, Kept
<1>6. CASE FillItem
  <2>1. item \in Items /\ entry \in live /\ of[entry] = MachineOf[item]
    BY <1>1, <1>6 DEF FillItem, InHand, RowMachine
  <2>2. \A i \in Items : i # item => ledger'[i].entry = ledger[i].entry
    BY <1>1, <1>6, <2>1 DEF FillItem, Record, Rows
  <2>3. ledger'[item].entry \in {entry, None}
    BY <1>1, <1>6, <2>1 DEF FillItem, Record, Rows, NewRow
  <2> QED
    BY <1>4, <1>6, <2>1, <2>2, <2>3 DEF FillItem
<1>7. CASE ApplyApp
  <2>1. Self \in Items /\ entry \in live /\ of[entry] = MachineOf[Self]
    BY <1>1, <1>7 DEF ApplyApp, HandLive, RowMachine, Items
  <2>2. \A i \in Items : i # Self => ledger'[i].entry = ledger[i].entry
    BY <1>1, <1>7, <2>1 DEF ApplyApp, Applied, Rows
  <2>3. ledger[Self] \in Row \cup {NoRow}
    BY <1>1, <2>1 DEF Rows
  <2>4. ledger'[Self].entry \in {entry, None}
    BY <1>1, <1>7, <2>1, <2>3 DEF ApplyApp, Applied, Final, Rows, Row, NoRow, Outcomes
  <2>5. Fill(entry, Wants[Self]) /\ Waits(entry, Self, Left(entry, Wants[Self]))
    BY <1>7, <2>1 DEF ApplyApp
  <2> QED
    BY <1>4, <1>7, <2>1, <2>2, <2>4, <2>5 DEF ApplyApp
<1>8. CASE ApplyHeld
  <2> DEFINE held == waiting[entry]
             left == Left(entry, held.left)
  <2>1. entry \in Entries /\ held \in Wait \cup {NoWait} /\ held.left \in SUBSET Settings
    BY <1>1, <1>8 DEF ApplyHeld, InHand, Waiter, Wait, NoWait
  <2>2. Fill(entry, held.left)
    BY <1>8 DEF ApplyHeld
  <2>3. /\ \A s \in held.left : have'[entry][s] # "none" \/ s \in left
        /\ \A s \in Settings : have[entry][s] # "none" => have'[entry][s] # "none"
        /\ \A d \in Entries : d # entry => have'[d] = have[d]
    BY <2>1, <2>2, FillSets
  <2>4. \A d \in Entries : d # entry => waiting'[d] = waiting[d]
    BY <1>1, <1>8, <2>1 DEF ApplyHeld, Waiter
  <2>5. left # {} => waiting'[entry].left = left
    <3> SUFFICES ASSUME left # {} PROVE waiting'[entry].left = left
      OBVIOUS
    <3>1. [held EXCEPT !.left = left].left = left
      BY <2>1 DEF Wait, NoWait
    <3>2. waiting' = [waiting EXCEPT ![entry] = [held EXCEPT !.left = left]]
      BY <1>8 DEF ApplyHeld
    <3> QED
      BY <1>1, <2>1, <3>1, <3>2 DEF Waiter
  <2> SUFFICES ASSUME NEW i \in Items, ledger[i].entry \in live PROVE Kept(i, ledger[i].entry)'
    BY <1>8 DEF ApplyHeld, KeptAll
  <2>6. CASE ledger[i].entry = entry
    <3>1. \A s \in Wants[i] : have[entry][s] # "none" \/ s \in held.left
      BY <1>1, <2>6 DEF KeptAll, Kept
    <3>2. \A s \in Wants[i] : have'[entry][s] # "none" \/ s \in waiting'[entry].left
      <4> SUFFICES ASSUME NEW s \in Wants[i]
                   PROVE  have'[entry][s] # "none" \/ s \in waiting'[entry].left
        OBVIOUS
      <4>1. s \in Settings
        BY WantsType
      <4> QED
        BY <2>3, <2>5, <3>1, <4>1
    <3> QED
      BY <1>8, <2>6, <3>2 DEF Kept, ApplyHeld
  <2>7. CASE ledger[i].entry # entry
    BY <1>1, <1>3, <1>8, <2>3, <2>4, <2>7 DEF Kept, ApplyHeld
  <2> QED
    BY <2>6, <2>7
<1>9. ASSUME NEW e \in Entries, UserDeletes(e) PROVE KeptAll'
  BY <1>1, <1>5, <1>9 DEF UserDeletes, data
<1>10. ASSUME NEW e \in Entries, ForgetEntry(e) PROVE KeptAll'
  <2>1. e \notin live
    BY <1>10 DEF ForgetEntry, Known
  <2>2. \A i \in Items : ledger'[i].entry = ledger[i].entry
    <3> SUFFICES ASSUME NEW i \in Items PROVE ledger'[i].entry = ledger[i].entry
      OBVIOUS
    <3>1. ledger[i] \in Row \cup {NoRow}
      BY <1>1 DEF Rows
    <3> QED
      BY <1>10, <3>1 DEF ForgetEntry, Row, NoRow
  <2>3. \A d \in live : have'[d] = have[d] /\ waiting'[d] = waiting[d]
    BY <1>1, <1>10, <2>1 DEF ForgetEntry, Waiter
  <2>4. live' = live
    BY <1>10 DEF ForgetEntry
  <2> QED
    BY <1>3, <2>2, <2>3, <2>4 DEF KeptAll, Kept
<1>11. ASSUME NEW e \in Unused, NEW m, NewEntry(e, m), UNCHANGED data PROVE KeptAll'
  <2>1. \A i \in Items : ledger[i].entry # e
    BY <1>1, <1>11, ItemsAssumption, NoneApart DEF Unused, RowMachine
  <2> QED
    BY <1>1, <1>11, <2>1 DEF NewEntry, KeptAll, Kept, data
<1>12. CASE CreateNew
  BY <1>11, <1>12 DEF CreateNew
<1>13. ASSUME NEW m \in Machines, UserAdds(m) PROVE KeptAll'
  BY <1>11, <1>13 DEF UserAdds
<1>14. ASSUME NEW e \in Entries, NEW s \in Settings, UserSets(e, s) PROVE KeptAll'
  <2>1. \A d \in Entries, t \in Settings : have[d][t] # "none" => have'[d][t] # "none"
    BY <1>1, <1>14 DEF UserSets
  <2>2. UNCHANGED <<live, ledger, waiting>>
    BY <1>14 DEF UserSets, data
  <2>3. \A i \in Items : Wants[i] \in SUBSET Settings
    BY WantsType
  <2> QED
    BY <1>1, <2>1, <2>2, <2>3 DEF KeptAll, Kept
<1>15. CASE CreateReplica
  BY <1>1, <1>5, <1>15 DEF CreateReplica, Record, NewRow, Rows, ha
<1>16. CASE SelfWaits
  BY <1>1, <1>5, <1>16 DEF SelfWaits, NewRow, Rows, ha
<1>17. ASSUME NEW k \in Fields, Discard(k) PROVE KeptAll'
  BY <1>1, <1>5, <1>17 DEF Discard, NewRow, Rows, ha
<1>18. CASE UNCHANGED <<live, have, ledger, waiting>>
  BY <1>1, <1>18 DEF KeptAll, Kept
<1>19. CASE Stop
  BY <1>18, <1>19, StopKeeps DEF Stop, ha, data
<1>20. \/ UNCHANGED <<live, have, ledger, waiting>> \/ FillItem \/ ApplyApp \/ ApplyHeld \/ CreateNew
       \/ CreateReplica \/ SelfWaits \/ Stop
       \/ \E k \in Fields : Discard(k)
       \/ \E e \in Entries : UserDeletes(e) \/ ForgetEntry(e)
       \/ \E m \in Machines : UserAdds(m)
       \/ \E e \in Entries, s \in Settings : UserSets(e, s)
  BY OrderlyStep DEF Next, JobStep, ApplyStep, AppSends, StartJob, TakeField, CreateKnown, CreateFails,
         Made, TakeSelf, FinishJob, AppClears, ReportLost, StartApply, BecomesReady, Save, ha, data
<1> QED
  BY <1>6, <1>7, <1>8, <1>9, <1>10, <1>12, <1>13, <1>14, <1>15, <1>16, <1>17, <1>18, <1>19, <1>20

LEMMA PendingStep ==
  ASSUME KInv, Next, orderly'
  PROVE  PendingWaits'
<1> USE DEF KInv, IInv, Typed
<1>1. orderly /\ PendingWaits /\ ledger \in Rows /\ waitingApp \in BOOLEAN
  BY OrderlyStep, TypeParts
<1>2. ASSUME NEW k \in Items, NEW o, NEW e, o # "pending", UNCHANGED waitingApp,
             ledger' = [ledger EXCEPT ![k] = NewRow(o, e)], at # "app"
      PROVE  PendingWaits'
  BY <1>1, <1>2 DEF PendingWaits, NewRow, Rows
<1>3. ASSUME \A i \in Items : ledger'[i].outcome = ledger[i].outcome, UNCHANGED waitingApp,
             at # "app" \/ at' = at
      PROVE  PendingWaits'
  BY <1>1, <1>3 DEF PendingWaits
<1>4. CASE FillItem
  BY <1>2, <1>4 DEF FillItem, Record, InHand
<1>5. CASE CreateReplica
  BY <1>2, <1>5 DEF CreateReplica, Record, InHand, Items
<1>6. CASE SelfWaits
  BY <1>1, <1>6 DEF SelfWaits, PendingWaits, NewRow, Rows
<1>7. ASSUME NEW k \in Fields, Discard(k) PROVE PendingWaits'
  BY <1>2, <1>7 DEF Discard, Free, Items
<1>8. CASE ApplyApp
  <2>1. Self \in Items /\ ledger[Self] \in Row \cup {NoRow}
    BY <1>1 DEF Items, Rows
  <2>2. ledger'[Self].outcome # "pending"
    BY <1>1, <1>8, <2>1 DEF ApplyApp, Applied, Final, Rows, Row, NoRow
  <2>3. \A i \in Items : i # Self => ledger'[i].outcome = ledger[i].outcome
    BY <1>1, <1>8, <2>1 DEF ApplyApp, Applied, Rows
  <2> QED
    BY <1>1, <2>2, <2>3 DEF PendingWaits
<1>9. ASSUME NEW e \in Entries, StartApply(e) PROVE PendingWaits'
  BY <1>1, <1>9 DEF StartApply, PendingWaits, Free
<1>10. ASSUME NEW e \in Entries, ForgetEntry(e) PROVE PendingWaits'
  <2>1. \A i \in Items : ledger'[i].outcome = ledger[i].outcome
    <3> SUFFICES ASSUME NEW i \in Items PROVE ledger'[i].outcome = ledger[i].outcome
      OBVIOUS
    <3>1. ledger[i] \in Row \cup {NoRow}
      BY <1>1 DEF Rows
    <3> QED
      BY <1>10, <3>1 DEF ForgetEntry, Row, NoRow
  <2> QED
    BY <1>3, <1>10, <2>1 DEF ForgetEntry, work
<1>11. CASE Stop
  BY <1>3, <1>11, StopKeeps DEF data, Free
<1>12. CASE UNCHANGED <<ledger, waitingApp>> /\ (at # "app" \/ at' = at)
  BY <1>3, <1>12
<1>13. \/ UNCHANGED <<ledger, waitingApp>> /\ (at # "app" \/ at' = at)
       \/ FillItem \/ CreateReplica \/ SelfWaits \/ ApplyApp \/ Stop
       \/ \E k \in Fields : Discard(k)
       \/ \E e \in Entries : StartApply(e) \/ ForgetEntry(e)
  BY OrderlyStep DEF Next, JobStep, ApplyStep, AppSends, StartJob, TakeField, CreateNew, CreateKnown,
         CreateFails, Made, TakeSelf, FinishJob, AppClears, ReportLost, ApplyHeld, UserDeletes,
         UserAdds, UserSets, BecomesReady, Save, Free, data, work
<1> QED
  BY <1>4, <1>5, <1>6, <1>7, <1>8, <1>9, <1>10, <1>11, <1>12, <1>13

LEMMA KInvStep ==
  ASSUME OneEach
  PROVE  KInv /\ [Next]_vars => KInv'
<1>1. ASSUME KInv, Next PROVE KInv'
  BY <1>1, IInvStep, KeptStep, PendingStep DEF KInv
<1>2. ASSUME KInv, UNCHANGED vars PROVE KInv'
  <2>1. IInv'
    BY <1>2, IInvStep DEF KInv
  <2>2. KeptAll => KeptAll'
    BY <1>2 DEF KeptAll, Kept, vars, ha, data
  <2>3. PendingWaits => PendingWaits'
    BY <1>2 DEF PendingWaits, vars, data, work
  <2>4. orderly' = orderly
    BY <1>2 DEF vars, history
  <2> QED
    BY <1>2, <2>1, <2>2, <2>3, <2>4 DEF KInv
<1> QED
  BY <1>1, <1>2

(* What the App has cleared is kept: set on the machine or waiting for it. *)
THEOREM NothingClearedIsLost ==
  ASSUME OneEach
  PROVE  Spec => []NothingLost
<1>1. Init => KInv
  <2> SUFFICES ASSUME Init PROVE KInv
    OBVIOUS
  <2>1. KeptAll /\ PendingWaits
    BY DEF Init, KeptAll, PendingWaits, EmptyStore, NoRow
  <2> QED
    BY <2>1, IInvInit DEF KInv
<1>2. KInv /\ [Next]_vars => KInv'
  BY KInvStep
<1>3. KInv => NothingLost
  BY DEF KInv, KeptAll, PendingWaits, NothingLost
<1> QED
  BY <1>1, <1>2, <1>3, PTL DEF Spec
==============================================================================
