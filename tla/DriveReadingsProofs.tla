------------------------- MODULE DriveReadingsProofs -------------------------
(***************************************************************************)
(* DriveReadings for any drives, answers and limits.                       *)
(*                                                                         *)
(* What a drive shows of its statistics is what is held of them while it   *)
(* has a serial and its statistics are there or only could not be read     *)
(* (HeldIsShown): that makes a failed read change nothing. A drive's       *)
(* sensors are of the class of its first plan (ClassOK), and those that    *)
(* its data call for are there (PlanCreated).                              *)
(*                                                                         *)
(* The rest compares operators: the form's readings are those judged, by   *)
(* the same values (AcceptanceSettles), and the card's rows hold them      *)
(* (ReasonsReachTheCard), for every table, log and limit.                  *)
(***************************************************************************)
EXTENDS DriveReadings, NaturalsInduction, WellFoundedInduction, TLAPS

\* What is shown as written does not come from the statistics of an NVMe drive.
Written(d) ==
    IF d.protocol = "NVME" /\ NvmeVolume(d) # None THEN NvmeVolume(d).bytes ELSE held.written

HeldIsShown ==
    /\ Seen /\ data.serial /\ data.ds # None
    /\ data.ds.status \in {"present", "unavailable"}
    => data.eff = [unc |-> held.unc, realloc |-> held.realloc, wear |-> held.wear,
                   written |-> Written(data)]

ClassOK ==
    /\ class # None => ~(class.ata /\ class.nvme)
    /\ created # {} => class # None
    /\ \A key \in AtaOnly : <<"attribute", key>> \in created => class.ata
    /\ \A key \in NvmeOnly : <<"attribute", key>> \in created => class.nvme

LimitsOK == DOMAIN limits \subseteq AtaLabels \cup NvmeLabels

Records ==
    /\ drive \in Drives
    /\ DOMAIN held = DOMAIN HeldNothing /\ DOMAIN file = DOMAIN HeldNothing

RowsOK ==
    Seen => /\ DOMAIN data.rows \subseteq Nat
            /\ \A r \in Range(data.rows) : r # None /\ r.raw \in Nat /\ r.value \in Nat
            /\ data.nvme # None => /\ data.rows = <<>> /\ data.nvme.used \in Nat
                                   /\ {data.nvme.media, data.nvme.spare} \subseteq Nat \cup {None}

\* The statistics of f.
Numbers(f) == {f.unc, f.realloc, f.wear} \subseteq Nat \cup {None}

NumbersOK ==
    /\ Numbers(held) /\ Numbers(file)
    /\ Seen /\ data.eff # None => Numbers(data.eff)

\* What the drive's data call for is there.
PlanCreated == Seen => DriveSpecs(data, class) \subseteq created

IInv ==
    /\ Records /\ RowsOK /\ NumbersOK /\ LimitsOK
    /\ ClassOK /\ PlanCreated
    /\ HeldIsShown /\ NothingInherited

USE AnswersAreOfDrives, AnswersArePayloads

-------------------------------------------------------------------------------
(* Attention. *)

LEMMA Tables ==
  /\ Range(WarningAta) = {"Reallocated Event Count", "Spin Retry Count", "Command Timeout"}
  /\ Range(CriticalAta) \subseteq
        { "Reallocated Sector Count", "Current Pending Sector Count",
          "Offline Uncorrectable Errors", "Reported Uncorrectable Errors",
          "Uncorrectable Error Count", "Total Offline Uncorrectable" }
  <1>1. Range(WarningAta) = {"Reallocated Event Count", "Spin Retry Count", "Command Timeout"}
    <2>1. DOMAIN WarningAta = {"Reallocated_Event_Count", "Spin_Retry_Count", "Command_Timeout"}
      BY DEF WarningAta
    <2>2. /\ WarningAta["Reallocated_Event_Count"] = "Reallocated Event Count"
          /\ WarningAta["Spin_Retry_Count"] = "Spin Retry Count"
          /\ WarningAta["Command_Timeout"] = "Command Timeout"
      BY DEF WarningAta
    <2>3. QED
      BY <2>1, <2>2 DEF Range
  <1>2. \A n \in DOMAIN CriticalAta : CriticalAta[n] \in
           { "Reallocated Sector Count", "Current Pending Sector Count",
             "Offline Uncorrectable Errors", "Reported Uncorrectable Errors",
             "Uncorrectable Error Count", "Total Offline Uncorrectable" }
    <2>1. DOMAIN CriticalAta =
             { "Reallocated_Sector_Ct", "Retired_Block_Count", "Current_Pending_Sector",
               "Current_Pending_Sector_Ct", "Total_Pending_Sectors", "Offline_Uncorrectable",
               "Reported_Uncorrect", "Uncorrectable_Error_Cnt", "Total_Offl_Uncorrectabl" }
      BY DEF CriticalAta
    <2>2. /\ CriticalAta["Reallocated_Sector_Ct"] = "Reallocated Sector Count"
          /\ CriticalAta["Retired_Block_Count"] = "Reallocated Sector Count"
          /\ CriticalAta["Current_Pending_Sector"] = "Current Pending Sector Count"
          /\ CriticalAta["Current_Pending_Sector_Ct"] = "Current Pending Sector Count"
          /\ CriticalAta["Total_Pending_Sectors"] = "Current Pending Sector Count"
          /\ CriticalAta["Offline_Uncorrectable"] = "Offline Uncorrectable Errors"
          /\ CriticalAta["Reported_Uncorrect"] = "Reported Uncorrectable Errors"
          /\ CriticalAta["Uncorrectable_Error_Cnt"] = "Uncorrectable Error Count"
          /\ CriticalAta["Total_Offl_Uncorrectabl"] = "Total Offline Uncorrectable"
      BY DEF CriticalAta
    <2>3. QED
      BY <2>1, <2>2
  <1>3. QED
    BY <1>1, <1>2 DEF Range

LEMMA OwnIsYes ==
  ASSUME NEW d, NEW ls, OwnReasons(d) # {}
  PROVE  State(d, ls) = "YES"
  <1>1. \A j \in OwnReasons(d) : j.label \in NeverConfigurable
    BY DEF OwnReasons, Reading, NeverConfigurable
  <1>2. NeverConfigurable \cap Warnings = {}
    BY Tables DEF NeverConfigurable, Warnings, Failed, CriticalWarning, OwnSpare, Wear, SpareWarn
  <1>3. Usable(d)
    BY NoneIsApart DEF OwnReasons, Usable
  <1>4. OwnReasons(d) \subseteq Evaluate(d, ls).reasons
    BY <1>3 DEF Evaluate
  <1>5. QED
    BY <1>1, <1>2, <1>3, <1>4 DEF State

LEMMA LabelsConfigurable == (AtaLabels \cup NvmeLabels) \cap NeverConfigurable = {}
  BY Tables DEF AtaLabels, NvmeLabels, NeverConfigurable, Failed, CriticalWarning, OwnSpare,
                Wear, MediaErrors, SpareWarn

\* The statistics as the agent sent them are not asked again: what is judged and
\* shown is in the other fields.
LEMMA OnlyEffIsRead ==
  ASSUME NEW d, NEW e, NEW ls,
         e.rows = d.rows, e.nvme = d.nvme, e.passed = d.passed, e.wd = d.wd, e.eff = d.eff
  PROVE  /\ Evaluate(e, ls) = Evaluate(d, ls)
         /\ CurrentReadings(e) = CurrentReadings(d)
         /\ DataVolume(e) = DataVolume(d)
  <1>1. WearRow(e) = WearRow(d) /\ AveragePE(e) = AveragePE(d)
    BY DEF WearRow, AveragePE
  <1>2. \A r : AtaWearUsed(e, r) = AtaWearUsed(d, r)
    BY <1>1 DEF AtaWearUsed, CountsUp, Implausible
  <1>3. WearReading(e) = WearReading(d)
    BY <1>1, <1>2 DEF WearReading
  <1>4. GapReadings(e) = GapReadings(d)
    BY <1>1 DEF GapReadings
  <1>5. RowReadings(e, ls) = RowReadings(d, ls)
    BY DEF RowReadings, Judged
  <1>6. AtaReadings(e, ls) = AtaReadings(d, ls)
    BY <1>3, <1>4, <1>5 DEF AtaReadings
  <1>7. OwnReasons(e) = OwnReasons(d)
    BY DEF OwnReasons
  <1>8. NvmeReadings(e) = NvmeReadings(d)
    BY <1>7 DEF NvmeReadings
  <1>9. Evaluate(e, ls) = Evaluate(d, ls)
    BY <1>6, <1>7, <1>8 DEF Evaluate, Readings, Usable
  <1>10. CurrentReadings(e) = CurrentReadings(d)
    BY <1>3, <1>4 DEF CurrentReadings
  <1>11. QED
    BY <1>9, <1>10 DEF DataVolume

-------------------------------------------------------------------------------
(* The merge. *)

LEMMA MergedFields ==
  ASSUME Records, NEW p \in Answers[drive]
  PROVE  LET d == Merged(p)
         IN  /\ d.eff = Merge(p, held).eff
             /\ \A f \in DOMAIN p \ {"eff"} : d[f] = p[f]
             /\ d.serial = p.serial /\ d.protocol = p.protocol /\ d.readable = p.readable
             /\ d.rows = p.rows /\ d.nvme = p.nvme /\ d.wd = p.wd /\ d.ds = p.ds
             /\ d.passed = p.passed
  BY DEF Merged, Records

LEMMA VolumeOf ==
  ASSUME NEW p, p.block \in Nat, p.ds.lbs \in Nat, p.ds.written \in Nat \cup {None},
         p.ds.status \in {"present", "unavailable"}
  PROVE  LET v == Volume(p, p.ds)
         IN  /\ p.protocol = "NVME" => v = NvmeVolume(p)
             /\ p.protocol # "NVME" => v = None \/ (v.source = "devstat" /\ v.bytes # None)
  <1>1. CASE p.protocol = "NVME"
    BY <1>1 DEF Volume
  <1>2. CASE p.protocol = "ATA"
    <2>1. Volume(p, p.ds) = AtaVolume(p, p.ds)
      BY <1>2 DEF Volume
    <2>2. CASE p.ds.status = "present"
      <3> DEFINE v == DevstatVolume(p, p.ds)
                 lbs == IF p.ds.lbs = 0 THEN p.block ELSE p.ds.lbs
      <3>1. AtaVolume(p, p.ds) = v
        BY <2>2 DEF AtaVolume
      <3>2. v = None \/ (p.ds.written # None /\ v = [bytes |-> p.ds.written * lbs, source |-> "devstat"])
        BY DEF DevstatVolume, Bytes
      <3>3. p.ds.written # None => p.ds.written * lbs \in Nat
        BY NoneIsApart
      <3> HIDE DEF lbs
      <3>4. v = None \/ (v.source = "devstat" /\ v.bytes \in Nat)
        <4> HIDE DEF v
        <4> QED
          BY <3>2, <3>3
      <3>5. QED
        BY <1>2, <2>1, <3>1, <3>4, NoneIsApart
    <2>3. CASE p.ds.status = "unavailable"
      <3>1. AtaVolume(p, p.ds) = None
        BY <2>3 DEF AtaVolume
      <3>2. QED
        BY <1>2, <2>1, <3>1
    <2>4. QED
      BY <2>2, <2>3
  <1>3. CASE p.protocol \notin {"NVME", "ATA"}
    BY <1>3 DEF Volume
  <1>4. QED
    BY <1>1, <1>2, <1>3

LEMMA NvmeIsNotHeld ==
  ASSUME NEW p, NvmeVolume(p) # None
  PROVE  NvmeVolume(p).source = "nvme"
  BY DEF NvmeVolume, Bytes

\* What a poll leaves shown is what it leaves held.
LEMMA MergeShowsHeld ==
  ASSUME NEW p, NEW old, p.serial, p.ds # None,
         p.block \in Nat, p.ds.lbs \in Nat, p.ds.written \in Nat \cup {None},
         p.ds.status \in {"present", "unavailable"}
  PROVE  LET m == Merge(p, old)
         IN  m.eff = [ unc |-> m.held.unc, realloc |-> m.held.realloc, wear |-> m.held.wear,
                       written |-> IF p.protocol = "NVME" /\ NvmeVolume(p) # None
                                   THEN NvmeVolume(p).bytes ELSE m.held.written ]
  <1> DEFINE v == Volume(p, p.ds)
             m == Merge(p, old)
             writes == IF v # None THEN IF v.source = "devstat" THEN v.bytes ELSE None ELSE None
             shown == IF p.protocol = "NVME" /\ NvmeVolume(p) # None
                      THEN NvmeVolume(p).bytes ELSE m.held.written
  <1>1. m.eff = [unc |-> m.held.unc, realloc |-> m.held.realloc, wear |-> m.held.wear,
                 written |-> m.eff.written]
    BY DEF Merge
  <1>2. /\ m.eff.written = IF v # None THEN v.bytes ELSE old.written
        /\ m.held.written = IF writes # None THEN writes ELSE old.written
    BY DEF Merge
  <1>3. m.eff.written = shown
    <2> HIDE DEF m
    <2>1. CASE p.protocol = "NVME"
      <3>1. v = NvmeVolume(p) /\ (v # None => v.source = "nvme")
        BY <2>1, VolumeOf, NvmeIsNotHeld
      <3> HIDE DEF v
      <3>2. QED
        BY <1>2, <2>1, <3>1
    <2>2. CASE p.protocol # "NVME"
      <3>1. v = None \/ (v.source = "devstat" /\ v.bytes # None)
        BY <2>2, VolumeOf
      <3> HIDE DEF v
      <3>2. QED
        BY <1>2, <2>2, <3>1
    <2>3. QED
      BY <2>1, <2>2
  <1> HIDE DEF m
  <1>4. m.eff = [unc |-> m.held.unc, realloc |-> m.held.realloc, wear |-> m.held.wear,
                 written |-> shown]
    BY <1>1, <1>3
  <1>5. QED
    BY <1>4 DEF m

\* An answer without the statistics leaves what is held alone.
LEMMA UnreadChangesNothing ==
  ASSUME NEW p, NEW old, p.serial, p.ds # None,
         p.block \in Nat, p.ds.lbs \in Nat, p.ds.written \in Nat \cup {None},
         p.ds.status = "unavailable"
  PROVE  Merge(p, old).held = [unc |-> old.unc, realloc |-> old.realloc, wear |-> old.wear,
                               written |-> old.written]
  <1> DEFINE v == Volume(p, p.ds)
  <1>1. v = None \/ v.source # "devstat"
    <2>1. CASE p.protocol = "NVME"
      BY <2>1, VolumeOf, NvmeIsNotHeld
    <2>2. CASE p.protocol = "ATA"
      BY <2>2 DEF Volume, AtaVolume
    <2>3. CASE p.protocol \notin {"ATA", "NVME"}
      BY <2>3 DEF Volume
    <2>4. QED
      BY <2>1, <2>2, <2>3
  <1> HIDE DEF v
  <1>2. Merge(p, old).held =
          [unc |-> old.unc, realloc |-> old.realloc, wear |-> old.wear, written |-> old.written]
    BY <1>1 DEF Merge, v
  <1>3. QED
    BY <1>2

\* What is held after a poll was held before or is of its payload.
LEMMA HeldIsGiven ==
  ASSUME Records, NEW p
  PROVE  LET h == Merge(p, held).held
         IN  /\ DOMAIN h = DOMAIN HeldNothing
             /\ Range(h) \subseteq Range(held) \cup Given(p) \cup {None}
  <1> DEFINE v == Volume(p, p.ds)
             h == Merge(p, held).held
             writes == IF v # None /\ v.source = "devstat" THEN v.bytes ELSE None
  <1>0. {held.unc, held.realloc, held.wear, held.written} \subseteq Range(held)
    BY DEF Records, HeldNothing, Range
  <1>1. CASE p.ds = None \/ ~p.serial
    BY <1>1 DEF Merge, Records
  <1>2. CASE ~(p.ds = None \/ ~p.serial)
    <2>1. {p.ds.unc, p.ds.realloc, p.ds.wear, writes} \subseteq Given(p) \cup {None}
      BY <1>2 DEF Given
    <2>2. h = [unc |-> h.unc, realloc |-> h.realloc, wear |-> h.wear, written |-> h.written]
      BY <1>2 DEF Merge
    <2>3. /\ h.unc \in {p.ds.unc, held.unc} /\ h.realloc \in {p.ds.realloc, held.realloc}
          /\ h.wear \in {p.ds.wear, held.wear} /\ h.written \in {writes, held.written}
      BY <1>2 DEF Merge
    <2> HIDE DEF h, writes
    <2>4. DOMAIN h = {"unc", "realloc", "wear", "written"}
      BY <2>2
    <2>5. Range(h) = {h.unc, h.realloc, h.wear, h.written}
      BY <2>4 DEF Range
    <2>6. QED
      BY <1>0, <2>1, <2>3, <2>4, <2>5 DEF HeldNothing, h
  <1>3. QED
    BY <1>1, <1>2

LEMMA VolumeIsOfThePayload ==
  ASSUME Records, NEW p \in Answers[drive]
  PROVE  NvmeVolume(Merged(p)) = NvmeVolume(p)
  BY MergedFields DEF NvmeVolume

-------------------------------------------------------------------------------
(* The drive. *)

LEMMA DataActions ==
  ASSUME Next
  PROVE  Poll \/ data' = None \/ data' = data
  BY DEF Next, Poll, PollWithout, PollFails, Save, Restart, RemoveDevice, OpenForm, SubmitForm, Submit,
         PanelSets, PanelAccepts

LEMMA HeldActions ==
  ASSUME Next
  PROVE  \/ Poll
         \/ held' = held /\ file' \in {held, file}
         \/ held' \in {held, file} /\ file' = held'
         \/ held' = HeldNothing /\ file' = file
  BY DEF Next, Poll, PollWithout, PollFails, Save, Restart, RemoveDevice, OpenForm, SubmitForm, Submit,
         PanelSets, PanelAccepts

LEMMA KeptActions ==
  ASSUME Next
  PROVE  /\ drive' = drive
         /\ gave \subseteq gave'
         /\ Poll \/ created' \in {created, {}}
         /\ Poll \/ class' = class \/ (class' = None /\ created' = {})
         /\ data' = data \/ data' = None \/ Poll
         /\ data' = data => held' = held \/ Poll \/ ~Seen
  BY DEF Next, Poll, PollWithout, PollFails, Save, Restart, RemoveDevice, OpenForm, SubmitForm,
         Submit, PanelSets, PanelAccepts, Seen

LEMMA RecordsKept ==
  ASSUME Records, [Next]_vars
  PROVE  Records'
  <1>1. CASE Poll
    <2>1. PICK p \in Answers[drive] : held' = Merge(p, held).held
      BY <1>1 DEF Poll
    <2>2. QED
      BY <1>1, <2>1, HeldIsGiven DEF Poll, Records
  <1>2. CASE Next /\ ~Poll
    BY <1>2, HeldActions, KeptActions DEF Records
  <1>3. CASE UNCHANGED vars
    BY <1>3 DEF vars, Records
  <1>4. QED
    BY <1>1, <1>2, <1>3

LEMMA RowsKept ==
  ASSUME Records, RowsOK, [Next]_vars
  PROVE  RowsOK'
  <1>1. CASE Poll
    <2>1. PICK p \in Answers[drive] : data' = Merged(p)
      BY <1>1 DEF Poll
    <2>2. data'.rows = p.rows /\ data'.nvme = p.nvme
      BY <2>1, MergedFields
    <2>3. QED
      BY <2>2 DEF RowsOK, Records
  <1>2. CASE Next /\ ~Poll
    BY <1>2, DataActions DEF RowsOK, Seen
  <1>3. CASE UNCHANGED vars
    BY <1>3 DEF vars, RowsOK, Seen
  <1>4. QED
    BY <1>1, <1>2, <1>3

LEMMA MergedNumbers ==
  ASSUME Records, Numbers(held), NEW p \in Answers[drive]
  PROVE  /\ Numbers(Merge(p, held).held)
         /\ Merge(p, held).eff # None => Numbers(Merge(p, held).eff)
  <1>1. CASE p.ds = None
    BY <1>1 DEF Merge
  <1>2. CASE p.ds # None
    <2>1. Numbers(p.ds)
      BY <1>2 DEF Records, Numbers
    <2>2. \A f \in {"unc", "realloc", "wear"} :
             /\ Merge(p, held).eff[f] \in {p.ds[f], held[f], None}
             /\ Merge(p, held).held[f] \in {p.ds[f], held[f]}
      BY <1>2 DEF Merge
    <2>3. QED
      BY <2>1, <2>2 DEF Numbers
  <1>3. QED
    BY <1>1, <1>2

LEMMA NumbersKept ==
  ASSUME Records, NumbersOK, [Next]_vars
  PROVE  NumbersOK'
  <1>1. CASE Poll
    <2>1. PICK p \in Answers[drive] :
             data' = Merged(p) /\ held' = Merge(p, held).held /\ file' = file
      BY <1>1 DEF Poll
    <2>2. data'.eff = Merge(p, held).eff
      BY <2>1, MergedFields
    <2>3. QED
      BY <2>1, <2>2, MergedNumbers DEF NumbersOK, Numbers
  <1>2. CASE Next /\ ~Poll
    <2>1. Numbers(HeldNothing)
      BY DEF Numbers, HeldNothing
    <2>2. Numbers(held') /\ Numbers(file')
      BY <1>2, <2>1, HeldActions DEF NumbersOK, Numbers
    <2>3. QED
      BY <1>2, <2>2, DataActions DEF NumbersOK, Seen, Numbers
  <1>3. CASE UNCHANGED vars
    BY <1>3 DEF vars, NumbersOK, Seen, Numbers
  <1>4. QED
    BY <1>1, <1>2, <1>3

LEMMA PlanKept ==
  ASSUME PlanCreated, [Next]_vars
  PROVE  PlanCreated'
  <1>1. CASE Poll
    BY <1>1 DEF Poll, TakeNew, PlanCreated
  <1>2. CASE Next /\ ~Poll
    <2>1. data' = None \/ (data' = data /\ class' = class /\ created' = created)
      BY <1>2 DEF Next, Poll, PollWithout, PollFails, Save, Restart, RemoveDevice, OpenForm,
                  SubmitForm, Submit, PanelSets, PanelAccepts
    <2>2. QED
      BY <2>1 DEF PlanCreated, Seen
  <1>3. CASE UNCHANGED vars
    BY <1>3 DEF vars, PlanCreated, Seen
  <1>4. QED
    BY <1>1, <1>2, <1>3

LEMMA LimitsKept ==
  ASSUME LimitsOK, [Next]_vars
  PROVE  LimitsOK'
  <1>1. CASE SubmitForm
    <2>1. PICK input : limits' = OverridesFromForm(SubmittedLabels, input)
      BY <1>1 DEF SubmitForm, Submit
    <2>2. DOMAIN limits' \subseteq SubmittedLabels
      BY <2>1 DEF OverridesFromForm
    <2>3. QED
      BY <2>2 DEF LimitsOK, SubmittedLabels, LabelsFor
  <1>2. CASE PanelSets \/ PanelAccepts
    <2>1. \A d, ls, values : DOMAIN SetLimits(d, ls, values) \subseteq LabelsFor(d)
      BY DEF SetLimits, OverridesFromForm
    <2>2. DOMAIN limits' \subseteq LabelsFor(data)
      BY <1>2, <2>1 DEF PanelSets, PanelAccepts, AcceptAll
    <2>3. QED
      BY <2>2 DEF LimitsOK, LabelsFor
  <1>3. CASE UNCHANGED limits
    BY <1>3 DEF LimitsOK
  <1>4. QED
    BY <1>1, <1>2, <1>3 DEF Next, Poll, PollWithout, PollFails, Save, Restart, RemoveDevice,
                            OpenForm, vars

LEMMA PlanOK ==
  ASSUME NEW d, NEW c
  PROVE  /\ \A key \in AtaOnly : <<"attribute", key>> \in DriveSpecs(d, c) => c.ata
         /\ \A key \in NvmeOnly : <<"attribute", key>> \in DriveSpecs(d, c) => c.nvme
         /\ ~d.readable => DriveSpecs(d, c) = {}
  <1>1. \A key : <<"attribute", key>> \in DriveSpecs(d, c) => key \in Curated(d, c)
    BY DEF DriveSpecs
  <1>2. ~d.readable => DriveSpecs(d, c) = {}
    BY DEF DriveSpecs
  <1>3. QED
    BY <1>1, <1>2 DEF Curated

LEMMA ClassKept ==
  ASSUME Records, ClassOK, [Next]_vars
  PROVE  ClassOK'
  <1>1. CASE Poll
    <2>1. PICK p \in Answers[drive] :
             /\ data' = Merged(p)
             /\ class' = ClassFor(p)
             /\ created' = created \cup DriveSpecs(data', class')
      BY <1>1 DEF Poll, TakeNew
    <2>2. data'.readable = p.readable
      BY <2>1, MergedFields
    <2>3. DriveClass(p) # None /\ ~(DriveClass(p).ata /\ DriveClass(p).nvme)
      <3>1. /\ (p.protocol \in {"ATA", "SATA", ""} \/ p.rows # <<>>) \in BOOLEAN
            /\ (p.protocol = "NVME" /\ p.rows = <<>>) \in BOOLEAN
        OBVIOUS
      <3>2. DriveClass(p) \in [ata : BOOLEAN, nvme : BOOLEAN]
        BY <3>1, Zenon DEF DriveClass
      <3>3. ~(DriveClass(p).ata /\ DriveClass(p).nvme)
        <4>1. DriveClass(p).ata <=> p.protocol \in {"ATA", "SATA", ""} \/ p.rows # <<>>
          BY DEF DriveClass
        <4>2. DriveClass(p).nvme <=> p.protocol = "NVME" /\ p.rows = <<>>
          BY DEF DriveClass
        <4>3. QED
          BY <4>1, <4>2
      <3>4. QED
        BY <3>2, <3>3, NoneIsNoClass
    <2>4. class' # None => ~(class'.ata /\ class'.nvme)
      BY <2>1, <2>3 DEF ClassFor, ClassOK
    <2>5. created # {} => class # None /\ class' = class
      BY <2>1 DEF ClassFor, ClassOK
    <2>6. DriveSpecs(data', class') # {} => class' # None
      BY <2>1, <2>2, <2>3, PlanOK DEF ClassFor
    <2>7. /\ \A key \in AtaOnly : <<"attribute", key>> \in created' => class'.ata
          /\ \A key \in NvmeOnly : <<"attribute", key>> \in created' => class'.nvme
      BY <2>1, <2>5, PlanOK DEF ClassOK
    <2>8. created' # {} => class' # None
      BY <2>1, <2>5, <2>6
    <2>9. QED
      BY <2>4, <2>7, <2>8 DEF ClassOK
  <1>2. CASE Next /\ ~Poll
    BY <1>2, KeptActions DEF ClassOK
  <1>3. CASE UNCHANGED vars
    BY <1>3 DEF vars, ClassOK
  <1>4. QED
    BY <1>1, <1>2, <1>3

LEMMA ShownKept ==
  ASSUME Records, HeldIsShown, [Next]_vars
  PROVE  HeldIsShown'
  <1>1. CASE Poll
    <2>1. PICK p \in Answers[drive] : data' = Merged(p) /\ held' = Merge(p, held).held
      BY <1>1 DEF Poll
    <2> SUFFICES ASSUME p.serial, p.ds # None, p.ds.status \in {"present", "unavailable"}
                 PROVE  data'.eff = [unc |-> held'.unc, realloc |-> held'.realloc,
                                     wear |-> held'.wear, written |-> Written(data)']
      BY <2>1, MergedFields DEF HeldIsShown
    <2>2. p.block \in Nat /\ p.ds.lbs \in Nat /\ p.ds.written \in Nat \cup {None}
      BY DEF Records
    <2>3. data'.eff = Merge(p, held).eff /\ data'.protocol = p.protocol
      BY <2>1, MergedFields
    <2>4. NvmeVolume(data') = NvmeVolume(p)
      BY <2>1, VolumeIsOfThePayload
    <2>5. Written(data)' = IF p.protocol = "NVME" /\ NvmeVolume(p) # None
                           THEN NvmeVolume(p).bytes ELSE held'.written
      BY <2>3, <2>4 DEF Written
    <2>6. QED
      BY <2>1, <2>2, <2>3, <2>5, MergeShowsHeld
  <1>2. CASE Next /\ ~Poll
    <2>1. data' = None \/ ~Seen \/ (data' = data /\ held' = held)
      BY <1>2, KeptActions
    <2>2. QED
      BY <1>2, <2>1, KeptActions DEF HeldIsShown, Seen, Written
  <1>3. CASE UNCHANGED vars
    BY <1>3 DEF vars, HeldIsShown, Seen, Written
  <1>4. QED
    BY <1>1, <1>2, <1>3

LEMMA NothingKept ==
  ASSUME Records, NothingInherited, [Next]_vars
  PROVE  NothingInherited'
  <1> DEFINE of(d) == IF d.ds.status = "present" THEN d.ds ELSE HeldNothing
             Shown(d) == d # None /\ d.eff # None /\ ~d.serial =>
                 <<d.eff.unc, d.eff.realloc, d.eff.wear>> = <<of(d).unc, of(d).realloc, of(d).wear>>
  <1>0. Range(HeldNothing) \subseteq {None}
    BY DEF HeldNothing, Range
  <1>1. CASE Poll
    <2>1. PICK p \in Answers[drive] :
             /\ data' = Merged(p) /\ held' = Merge(p, held).held
             /\ gave' = gave \cup Given(p) /\ file' = file
      BY <1>1 DEF Poll
    <2>2. Range(held') \subseteq gave' \cup {None} /\ Range(file') \subseteq gave' \cup {None}
      BY <2>1, HeldIsGiven DEF NothingInherited
    <2>3. data'.eff = Merge(p, held).eff /\ data'.serial = p.serial /\ data'.ds = p.ds
      BY <2>1, MergedFields
    <2>4. CASE p.ds = None
      BY <2>2, <2>3, <2>4 DEF Merge, NothingInherited
    <2>5. CASE p.ds # None /\ p.serial
      BY <2>2, <2>3, <2>5 DEF NothingInherited
    <2>6. CASE p.ds # None /\ ~p.serial
      <3>1. /\ data'.eff.unc = of(p).unc /\ data'.eff.realloc = of(p).realloc
            /\ data'.eff.wear = of(p).wear
        BY <2>3, <2>6 DEF Merge, HeldNothing
      <3>2. QED
        BY <2>2, <2>3, <3>1 DEF NothingInherited
    <2>7. QED
      BY <2>4, <2>5, <2>6
  <1>2. CASE Next /\ ~Poll
    <2>1. Range(held') \subseteq gave' \cup {None} /\ Range(file') \subseteq gave' \cup {None}
      BY <1>0, <1>2, HeldActions, KeptActions DEF NothingInherited
    <2>2. data' = None \/ data' = data
      BY <1>2, DataActions
    <2>3. QED
      BY <2>1, <2>2 DEF NothingInherited, Seen
  <1>3. CASE UNCHANGED vars
    BY <1>3 DEF vars, NothingInherited, Seen
  <1>4. QED
    BY <1>1, <1>2, <1>3

LEMMA Invariant == Spec => []IInv
  <1>1. Init => IInv
    <2> SUFFICES ASSUME Init PROVE IInv
      OBVIOUS
    <2>1. Range(HeldNothing) \subseteq {None}
      BY DEF HeldNothing, Range
    <2>2. Records /\ LimitsOK /\ ClassOK
      BY DEF Init, Records, LimitsOK, ClassOK, NoLimits
    <2>3. RowsOK /\ HeldIsShown /\ NothingInherited /\ NumbersOK /\ PlanCreated
      BY <2>1 DEF Init, RowsOK, HeldIsShown, NothingInherited, NumbersOK, Numbers, HeldNothing,
                  PlanCreated, Seen
    <2>4. QED
      BY <2>2, <2>3 DEF IInv
  <1>2. IInv /\ [Next]_vars => IInv'
    BY RecordsKept, RowsKept, NumbersKept, LimitsKept, ClassKept, PlanKept, ShownKept, NothingKept
       DEF IInv
  <1>3. QED
    BY <1>1, <1>2, PTL DEF Spec

-------------------------------------------------------------------------------
(* The theorems. *)

\* No limit the form can set silences what the drive says of itself, whatever it
\* sends (evaluate_attention, overrides_from_form).
THEOREM FailureShown == Spec => []FailureIsShown
  <1>1. IInv => FailureIsShown
    BY OwnIsYes, LabelsConfigurable DEF IInv, LimitsOK, FailureIsShown
  <1>2. QED
    BY <1>1, Invariant, PTL

\* A drive has the sensors of its first plan's protocol only (drive_class_for).
THEOREM OneClassOnly == Spec => []OneClass
  <1>1. IInv => OneClass
    BY DEF IInv, ClassOK, OneClass
  <1>2. QED
    BY <1>1, Invariant, PTL

\* What is held, saved or shown of the statistics is of this drive
\* (merge_with_held).
THEOREM NumbersAreItsOwn == Spec => []NothingInherited
  <1>1. IInv => NothingInherited
    BY DEF IInv
  <1>2. QED
    BY <1>1, Invariant, PTL

\* A poll that could not read the statistics changes no reason, no reading and no
\* volume (merge_with_held, evaluate_attention).
THEOREM FailedReadsAreSilent == Spec => FailedReadsChangeNothing
  <1> DEFINE same == [data' EXCEPT !.ds = data.ds, !.eff = data.eff] = data
             ReadFails ==
               /\ Seen /\ Seen' /\ same
               /\ data.serial /\ data.ds # None /\ data'.ds # None
               /\ data.ds.status \in {"present", "unavailable"}
               /\ data'.ds.status = "unavailable"
             Unchanged ==
               /\ Evaluate(data', limits) = Evaluate(data, limits)
               /\ CurrentReadings(data') = CurrentReadings(data)
               /\ DataVolume(data') = DataVolume(data)
  <1>1. IInv /\ [Next]_vars /\ ReadFails => Unchanged
    <2> SUFFICES ASSUME IInv, [Next]_vars, ReadFails PROVE Unchanged
      OBVIOUS
    <2>1. CASE Poll
      <3>1. PICK p \in Answers[drive] : data' = Merged(p) /\ held' = Merge(p, held).held
        BY <2>1 DEF Poll
      <3>2. p.block \in Nat /\ p.ds.lbs \in Nat /\ p.ds.written \in Nat \cup {None} /\ p.ds # None
            /\ p.ds.status = "unavailable"
        BY <3>1, MergedFields DEF IInv, Records
      <3>3. /\ data'.rows = data.rows /\ data'.nvme = data.nvme /\ data'.passed = data.passed
            /\ data'.wd = data.wd /\ data'.serial = data.serial /\ data'.protocol = data.protocol
        <4>1. {"rows", "nvme", "passed", "wd", "serial", "protocol"} \subseteq DOMAIN data'
          BY <3>1 DEF Merged, IInv, Records
        <4>2. QED
          BY <4>1
      <3>4. p.serial
        <4>1. data'.serial = p.serial
          BY <3>1, MergedFields DEF IInv
        <4>2. QED
          BY <3>3, <4>1, Zenon
      <3>5. /\ held'.unc = held.unc /\ held'.realloc = held.realloc
            /\ held'.wear = held.wear /\ held'.written = held.written
        <4>1. DOMAIN held = DOMAIN HeldNothing
          BY DEF IInv, Records
        <4>2. Merge(p, held).held = [unc |-> held.unc, realloc |-> held.realloc,
                                     wear |-> held.wear, written |-> held.written]
          BY <3>2, <3>4, <4>1, UnreadChangesNothing
        <4>3. QED
          BY <3>1, <4>2
      <3>6. Written(data)' = Written(data)
        BY <3>3, <3>5 DEF Written, NvmeVolume
      <3>7. HeldIsShown'
        BY ShownKept DEF IInv
      <3>8. data'.eff = data.eff
        BY <3>3, <3>5, <3>6, <3>7 DEF IInv, HeldIsShown
      <3>9. QED
        BY <3>3, <3>8, OnlyEffIsRead
    <2>2. CASE Next /\ ~Poll
      BY <2>2, DataActions DEF Seen
    <2>3. CASE UNCHANGED vars
      BY <2>3 DEF vars
    <2>4. QED
      BY <2>1, <2>2, <2>3
  <1>2. IInv /\ [Next]_vars => [ReadFails => Unchanged]_<<data, reporting>>
    BY <1>1
  <1>3. QED
    BY <1>2, Invariant, PTL DEF Spec, FailedReadsChangeNothing

LEMMA LeastExists ==
  ASSUME NEW S, S \subseteq Nat, S # {}
  PROVE  \E k \in S : \A n \in S : k <= n
  <1> DEFINE R == OpToRel(<, Nat)
  <1>1. IsWellFoundedOn(R, Nat)
    BY NatLessThanWellFounded
  <1>2. \A n, k \in Nat : n < k => <<n, k>> \in R
    BY DEF OpToRel
  <1> HIDE DEF R
  <1>3. PICK k \in S : \A n \in S : ~(<<n, k>> \in R)
    BY <1>1, WFMin
  <1>4. \A n \in S : ~(n < k)
    BY <1>2, <1>3
  <1>5. QED
    BY <1>4

LEMMA HealthLabels ==
  ASSUME NEW r, r.name \in HealthNames
  PROVE  /\ LabelOf(r) \in AtaLabels
         /\ LabelOf(r) \notin {"Command Timeout", Wear, SpareWarn}
         /\ r.name # "Command_Timeout"
  <1>1. CASE r.name = "Reallocated_Event_Count"
    <2>1. /\ r.name \notin DOMAIN CriticalAta /\ r.name \in DOMAIN WarningAta
          /\ WarningAta[r.name] = "Reallocated Event Count"
      BY <1>1 DEF CriticalAta, WarningAta
    <2>2. LabelOf(r) = "Reallocated Event Count"
      BY <2>1 DEF LabelOf
    <2>3. QED
      BY <1>1, <2>2, Tables DEF AtaLabels, Wear, SpareWarn
  <1>2. CASE r.name # "Reallocated_Event_Count"
    <2>1. r.name \in DOMAIN CriticalAta
      BY <1>2 DEF HealthNames, CriticalAta
    <2>2. LabelOf(r) = CriticalAta[r.name]
      BY <2>1 DEF LabelOf
    <2>3. LabelOf(r) \in Range(CriticalAta)
      BY <2>1, <2>2 DEF Range
    <2>4. QED
      BY <1>2, <2>3, Tables DEF AtaLabels, Wear, SpareWarn, HealthNames
  <1>3. QED
    BY <1>1, <1>2

\* With the default limits, a row the Health sensor minds is a reason.
LEMMA HealthRowIsReason ==
  ASSUME NEW d, Usable(d), d.nvme = None, DOMAIN d.rows \subseteq Nat,
         \A x \in Range(d.rows) : x # None /\ x.raw \in Nat,
         NEW r \in Range(d.rows), r.name \in HealthNames, r.raw >= 1
  PROVE  Evaluate(d, NoLimits).reasons # {}
  <1> DEFINE label == LabelOf(r)
             P(x) == /\ LabelOf(x) = label /\ x.raw > 0
                     /\ Noted(NoLimits, Reading(label, Decoded(x), FALSE))
             Speaker == Judged(d, NoLimits, label)
             j == Reading(label, Decoded(Speaker), FALSE)
             those == {i \in DOMAIN d.rows : P(d.rows[i])}
  <1>1. PICK i \in DOMAIN d.rows : r = d.rows[i]
    BY DEF Range
  <1>2. label \in AtaLabels
    BY HealthLabels
  <1>3. \A value : ~Accepted(NoLimits, Reading(label, value, FALSE))
    BY DEF Accepted, NoLimits, Reading
  <1>4. P(r)
    <2>1. Decoded(r) = r.raw
      BY HealthLabels DEF Decoded
    <2>2. Limit(NoLimits, label) = 0
      BY HealthLabels DEF Limit, NoLimits, Default
    <2>3. Trips(label, r.raw, 0)
      <3>1. label # Wear /\ label # SpareWarn
        BY HealthLabels
      <3>2. r.raw \in Nat /\ r.raw > 0
        OBVIOUS
      <3> HIDE DEF label
      <3>3. QED
        BY <3>1, <3>2 DEF Trips
    <2>4. Breached(NoLimits, Reading(label, r.raw, FALSE))
      BY <2>2, <2>3 DEF Breached, Reading
    <2>5. r.raw > 0
      OBVIOUS
    <2>6. QED
      BY <2>1, <2>4, <2>5 DEF Noted
  <1>5. \E k \in those : \A n \in those : k <= n
    <2>1. those \subseteq Nat /\ those # {}
      BY <1>1, <1>4
    <2> HIDE DEF those
    <2>2. QED
      BY <2>1, LeastExists
  <1>6. \E k \in DOMAIN d.rows : P(d.rows[k]) /\ Speaker = d.rows[k]
    BY <1>5 DEF Judged, FirstRow
  <1>7. P(Speaker) /\ Speaker # None
    BY <1>6 DEF Range
  <1>8. j \in RowReadings(d, NoLimits)
    BY <1>2, <1>7 DEF RowReadings
  <1>9. Breached(NoLimits, j)
    BY <1>3, <1>7 DEF Noted
  <1> HIDE DEF j, Speaker
  <1>10. j \in Readings(d, NoLimits)
    BY <1>8 DEF Readings, AtaReadings
  <1>11. j \in Evaluate(d, NoLimits).reasons
    BY <1>9, <1>10 DEF Evaluate
  <1>12. QED
    BY <1>11

\* The Health sensor and attention have tables of their own: what the first minds,
\* the second does too, whatever the drive sends (binary_sensor.py, attention.py).
THEOREM UnhealthyIsSeen == Spec => []UnhealthyNeedsAttention
  <1>1. IInv => UnhealthyNeedsAttention
    <2> SUFFICES ASSUME IInv, Seen, Unhealthy(data)
                 PROVE  State(data, NoLimits) \in {"YES", "MAYBE"}
      BY DEF UnhealthyNeedsAttention
    <2>1. CASE OwnReasons(data) # {}
      BY <2>1, OwnIsYes
    <2>2. CASE OwnReasons(data) = {}
      <3>1. /\ Usable(data) /\ data.nvme = None
            /\ \E r \in Range(data.rows) : r.name \in HealthNames /\ r.raw >= 1
        BY <2>2 DEF Unhealthy, OwnReasons
      <3>2. Evaluate(data, NoLimits).reasons # {}
        BY <3>1, HealthRowIsReason DEF IInv, RowsOK
      <3>3. QED
        BY <3>1, <3>2 DEF State
    <2>3. QED
      BY <2>1, <2>2
  <1>2. QED
    BY <1>1, Invariant, PTL

-------------------------------------------------------------------------------
(* The name tables: those of the form and of the sensors say the same. *)

RowKeys ==
    { "reallocated_sector_count", "current_pending_sector_count", "reallocated_event_count",
      "spin_retry_count", "command_timeout" }

LabelOfKey(key) ==
    CASE key = "reallocated_sector_count" -> "Reallocated Sector Count"
      [] key = "current_pending_sector_count" -> "Current Pending Sector Count"
      [] key = "reallocated_event_count" -> "Reallocated Event Count"
      [] key = "spin_retry_count" -> "Spin Retry Count"
      [] OTHER -> "Command Timeout"

LEMMA CriticalNames ==
  ASSUME NEW n
  PROVE  /\ n \in DOMAIN CriticalAta /\ CriticalAta[n] = "Reallocated Sector Count"
              <=> n \in { "Reallocated_Sector_Ct", "Retired_Block_Count" }
         /\ n \in DOMAIN CriticalAta /\ CriticalAta[n] = "Current Pending Sector Count"
              <=> n \in { "Current_Pending_Sector", "Current_Pending_Sector_Ct",
                          "Total_Pending_Sectors" }
  <1>1. DOMAIN CriticalAta =
           { "Reallocated_Sector_Ct", "Retired_Block_Count", "Current_Pending_Sector",
             "Current_Pending_Sector_Ct", "Total_Pending_Sectors", "Offline_Uncorrectable",
             "Reported_Uncorrect", "Uncorrectable_Error_Cnt", "Total_Offl_Uncorrectabl" }
    BY DEF CriticalAta
  <1>2. /\ CriticalAta["Reallocated_Sector_Ct"] = "Reallocated Sector Count"
        /\ CriticalAta["Retired_Block_Count"] = "Reallocated Sector Count"
        /\ CriticalAta["Current_Pending_Sector"] = "Current Pending Sector Count"
        /\ CriticalAta["Current_Pending_Sector_Ct"] = "Current Pending Sector Count"
        /\ CriticalAta["Total_Pending_Sectors"] = "Current Pending Sector Count"
        /\ CriticalAta["Offline_Uncorrectable"] = "Offline Uncorrectable Errors"
        /\ CriticalAta["Reported_Uncorrect"] = "Reported Uncorrectable Errors"
        /\ CriticalAta["Uncorrectable_Error_Cnt"] = "Uncorrectable Error Count"
        /\ CriticalAta["Total_Offl_Uncorrectabl"] = "Total Offline Uncorrectable"
    BY DEF CriticalAta
  <1>3. QED
    BY <1>1, <1>2

LEMMA WarningNames ==
  ASSUME NEW n
  PROVE  /\ n \in DOMAIN WarningAta /\ WarningAta[n] = "Reallocated Event Count"
              <=> n = "Reallocated_Event_Count"
         /\ n \in DOMAIN WarningAta /\ WarningAta[n] = "Spin Retry Count"
              <=> n = "Spin_Retry_Count"
         /\ n \in DOMAIN WarningAta /\ WarningAta[n] = "Command Timeout"
              <=> n = "Command_Timeout"
         /\ n \in DOMAIN WarningAta => n \notin DOMAIN CriticalAta
  <1>1. DOMAIN WarningAta = {"Reallocated_Event_Count", "Spin_Retry_Count", "Command_Timeout"}
    BY DEF WarningAta
  <1>2. /\ WarningAta["Reallocated_Event_Count"] = "Reallocated Event Count"
        /\ WarningAta["Spin_Retry_Count"] = "Spin Retry Count"
        /\ WarningAta["Command_Timeout"] = "Command Timeout"
    BY DEF WarningAta
  <1>3. DOMAIN WarningAta \cap DOMAIN CriticalAta = {}
    BY <1>1 DEF CriticalAta
  <1>4. QED
    BY <1>1, <1>2, <1>3

LEMMA SensorNames ==
  /\ AtaNames["reallocated_sector_count"] = { "Reallocated_Sector_Ct", "Retired_Block_Count" }
  /\ AtaNames["current_pending_sector_count"] =
        { "Current_Pending_Sector", "Current_Pending_Sector_Ct", "Total_Pending_Sectors" }
  /\ AtaNames["reallocated_event_count"] = {"Reallocated_Event_Count"}
  /\ AtaNames["spin_retry_count"] = {"Spin_Retry_Count"}
  /\ AtaNames["command_timeout"] = {"Command_Timeout"}
  /\ AtaNames["wear_leveling_count"] = WearNames
  /\ RowKeys \cup {"wear_leveling_count"} \subseteq DOMAIN AtaNames
  BY DEF AtaNames, RowKeys

\* A label is a value of one of the two tables or None, which is no label.
LEMMA LabelFrom ==
  ASSUME NEW r
  PROVE  /\ LabelOf(r) # None => LabelOf(r) \in Range(CriticalAta) \cup Range(WarningAta)
         /\ LabelOf(r) \in Range(CriticalAta) \cup Range(WarningAta) \cup {None}
  BY DEF LabelOf, Range

LEMMA RowLabels ==
  ASSUME NEW r, NEW key \in RowKeys
  PROVE  LabelOf(r) = LabelOfKey(key) <=> r.name \in AtaNames[key]
  <1>1. Range(WarningAta) = {"Reallocated Event Count", "Spin Retry Count", "Command Timeout"}
    BY Tables
  <1>2. \A n \in DOMAIN WarningAta : WarningAta[n] \in Range(WarningAta)
    BY DEF Range
  <1>3. \A n \in DOMAIN CriticalAta : CriticalAta[n] \in Range(CriticalAta)
    BY DEF Range
  <1>4. None \notin { "Reallocated Sector Count", "Current Pending Sector Count",
                      "Reallocated Event Count", "Spin Retry Count", "Command Timeout" }
    <2>1. /\ CriticalAta["Reallocated_Sector_Ct"] = "Reallocated Sector Count"
          /\ CriticalAta["Current_Pending_Sector"] = "Current Pending Sector Count"
          /\ {"Reallocated_Sector_Ct", "Current_Pending_Sector"} \subseteq DOMAIN CriticalAta
      BY DEF CriticalAta
    <2>2. {"Reallocated Sector Count", "Current Pending Sector Count"} \subseteq Range(CriticalAta)
      BY <2>1 DEF Range
    <2>3. QED
      BY <1>1, <2>2, NoneIsNoLabel DEF AtaLabels
  <1>5. CASE key \in {"reallocated_sector_count", "current_pending_sector_count"}
    <2>1. LabelOfKey(key) \notin Range(WarningAta) \cup {None}
      BY <1>1, <1>4, <1>5 DEF LabelOfKey
    <2>2. LabelOf(r) = LabelOfKey(key)
            <=> r.name \in DOMAIN CriticalAta /\ CriticalAta[r.name] = LabelOfKey(key)
      BY <1>2, <2>1 DEF LabelOf
    <2>3. QED
      BY <1>5, <2>2, CriticalNames, SensorNames DEF LabelOfKey
  <1>6. CASE key \in {"reallocated_event_count", "spin_retry_count", "command_timeout"}
    <2>1. LabelOfKey(key) \notin Range(CriticalAta) \cup {None}
      BY <1>4, <1>6, Tables DEF LabelOfKey
    <2>2. LabelOf(r) = LabelOfKey(key)
            <=> r.name \in DOMAIN WarningAta /\ WarningAta[r.name] = LabelOfKey(key)
      <3>1. CASE r.name \in DOMAIN CriticalAta
        <4>1. LabelOf(r) = CriticalAta[r.name] /\ r.name \notin DOMAIN WarningAta
          BY <3>1, WarningNames DEF LabelOf
        <4>2. QED
          BY <1>3, <2>1, <3>1, <4>1
      <3>2. CASE r.name \notin DOMAIN CriticalAta
        <4>1. LabelOf(r) = IF r.name \in DOMAIN WarningAta THEN WarningAta[r.name] ELSE None
          BY <3>2 DEF LabelOf
        <4>2. QED
          BY <2>1, <4>1
      <3>3. QED
        BY <3>1, <3>2
    <2>3. CASE key = "reallocated_event_count"
      <3>1. LabelOfKey(key) = "Reallocated Event Count"
        BY <2>3 DEF LabelOfKey
      <3>2. QED
        BY <2>2, <2>3, <3>1, WarningNames, SensorNames
    <2>4. CASE key = "spin_retry_count"
      <3>1. LabelOfKey(key) = "Spin Retry Count"
        BY <2>4 DEF LabelOfKey
      <3>2. QED
        BY <2>2, <2>4, <3>1, WarningNames, SensorNames
    <2>5. CASE key = "command_timeout"
      <3>1. LabelOfKey(key) = "Command Timeout"
        BY <2>5 DEF LabelOfKey
      <3>2. QED
        BY <2>2, <2>5, <3>1, WarningNames, SensorNames
    <2>6. QED
      BY <1>6, <2>3, <2>4, <2>5
  <1>7. QED
    BY <1>5, <1>6 DEF RowKeys

LabelRow(d, label) == FirstRow(d.rows, LAMBDA r : LabelOf(r) = label)

\* The form and the sensor read the same row.
LEMMA SameRow ==
  ASSUME NEW d, NEW key \in RowKeys
  PROVE  RowOf(d, key) = LabelRow(d, LabelOfKey(key))
  <1> DEFINE mine == {i \in DOMAIN d.rows : LabelOf(d.rows[i]) = LabelOfKey(key)}
             theirs == {i \in DOMAIN d.rows :
                           /\ key \in DOMAIN AtaNames /\ d.rows[i].name \in AtaNames[key]
                           /\ ~(key = "wear_leveling_count" /\ d.rows[i].dead)}
  <1>1. key \in DOMAIN AtaNames /\ key # "wear_leveling_count"
    BY SensorNames DEF RowKeys
  <1>2. \A i : LabelOf(d.rows[i]) = LabelOfKey(key) <=> d.rows[i].name \in AtaNames[key]
    BY RowLabels
  <1>3. mine = theirs
    BY <1>1, <1>2
  <1>4. RowOf(d, key) =
          IF theirs = {} THEN None ELSE d.rows[CHOOSE i \in theirs : \A k \in theirs : i <= k]
    BY DEF RowOf, FirstRow
  <1>5. LabelRow(d, LabelOfKey(key)) =
          IF mine = {} THEN None ELSE d.rows[CHOOSE i \in mine : \A k \in mine : i <= k]
    BY DEF LabelRow, FirstRow
  <1> HIDE DEF mine, theirs
  <1>6. QED
    BY <1>3, <1>4, <1>5

LEMMA SameWearRow ==
  ASSUME NEW d
  PROVE  RowOf(d, "wear_leveling_count") = WearRow(d)
  <1> DEFINE mine == {i \in DOMAIN d.rows : d.rows[i].name \in WearNames /\ ~d.rows[i].dead}
             theirs == {i \in DOMAIN d.rows :
                           /\ "wear_leveling_count" \in DOMAIN AtaNames
                           /\ d.rows[i].name \in AtaNames["wear_leveling_count"]
                           /\ ~("wear_leveling_count" = "wear_leveling_count" /\ d.rows[i].dead)}
  <1>1. mine = theirs
    BY SensorNames
  <1>2. RowOf(d, "wear_leveling_count") =
          IF theirs = {} THEN None ELSE d.rows[CHOOSE i \in theirs : \A k \in theirs : i <= k]
    BY DEF RowOf, FirstRow
  <1>3. WearRow(d) =
          IF mine = {} THEN None ELSE d.rows[CHOOSE i \in mine : \A k \in mine : i <= k]
    BY DEF WearRow, FirstRow
  <1> HIDE DEF mine, theirs
  <1>4. QED
    BY <1>1, <1>2, <1>3

LEMMA LabelRowIs ==
  ASSUME NEW d, NEW label, DOMAIN d.rows \subseteq Nat, LabelRow(d, label) # None
  PROVE  LabelRow(d, label) \in Range(d.rows) /\ LabelOf(LabelRow(d, label)) = label
  <1> DEFINE those == {i \in DOMAIN d.rows : LabelOf(d.rows[i]) = label}
  <1>1. LabelRow(d, label) =
          IF those = {} THEN None ELSE d.rows[CHOOSE i \in those : \A k \in those : i <= k]
    BY DEF LabelRow, FirstRow
  <1>2. \E k \in those : \A n \in those : k <= n
    <2>1. those # {} /\ those \subseteq Nat
      BY <1>1
    <2> HIDE DEF those
    <2>2. QED
      BY <2>1, LeastExists
  <1>3. PICK k \in those : LabelRow(d, label) = d.rows[k]
    BY <1>1, <1>2
  <1>4. QED
    BY <1>3 DEF Range

\* A row of a label is there when its first row is.
LEMMA LabelRowThere ==
  ASSUME NEW d, DOMAIN d.rows \subseteq Nat, NEW r \in Range(d.rows),
         \A x \in Range(d.rows) : x # None
  PROVE  LabelRow(d, LabelOf(r)) # None
  <1> DEFINE those == {i \in DOMAIN d.rows : LabelOf(d.rows[i]) = LabelOf(r)}
  <1>1. LabelRow(d, LabelOf(r)) =
          IF those = {} THEN None ELSE d.rows[CHOOSE i \in those : \A k \in those : i <= k]
    BY DEF LabelRow, FirstRow
  <1>2. those # {} /\ those \subseteq Nat
    BY DEF Range
  <1> HIDE DEF those
  <1>3. \E k \in those : \A n \in those : k <= n
    BY <1>2, LeastExists
  <1>4. PICK k \in those : LabelRow(d, LabelOf(r)) = d.rows[k]
    BY <1>1, <1>2, <1>3
  <1>5. QED
    BY <1>4 DEF those, Range

\* What the form shows of a table is a row of the label or the wear.
LEMMA TableReadings ==
  ASSUME NEW d, d.nvme = None, NEW j \in CurrentReadings(d), ~j.gap
  PROVE  \/ j \in WearReading(d)
         \/ /\ j.label \in AtaLabels /\ LabelRow(d, j.label) # None
            /\ j.value = Decoded(LabelRow(d, j.label))
  <1>1. \A g \in GapReadings(d) : g.gap = TRUE
    BY DEF GapReadings, Reading
  <1>2. j \in GapReadings(d) \/ j \in WearReading(d)
        \/ \E label \in AtaLabels : LabelRow(d, label) # None
              /\ j = Reading(label, Decoded(LabelRow(d, label)), FALSE)
    BY DEF CurrentReadings, LabelRow
  <1>3. QED
    BY <1>1, <1>2 DEF Reading

LEMMA AgreeOnRows ==
  ASSUME NEW d, d.nvme = None, DOMAIN d.rows \subseteq Nat,
         NEW key \in RowKeys, LabelRow(d, LabelOfKey(key)) # None
  PROVE  \/ Extract(d, key) = Decoded(LabelRow(d, LabelOfKey(key)))
         \/ RowOf(d, key) # None /\ RowOf(d, key).raw >= Word /\ RowOf(d, key).str # None
  <1> DEFINE row == RowOf(d, key)
  <1>1. row = LabelRow(d, LabelOfKey(key)) /\ row # None
    BY SameRow
  <1>2. LabelOf(row) = LabelOfKey(key)
    BY <1>1, LabelRowIs
  <1>3. row.name \in AtaNames[key]
    BY <1>2, RowLabels
  <1>4. key # "smart_status"
    BY DEF RowKeys
  <1>5. Extract(d, key) = RowValue(d, key, row)
    BY <1>1, <1>4 DEF Extract
  <1> HIDE DEF row
  <1>6. CASE key = "command_timeout"
    BY <1>1, <1>5, <1>6 DEF RowValue
  <1>7. CASE key # "command_timeout"
    <2>1. RowValue(d, key, row) = DecodedRaw(row)
      BY <1>7 DEF RowValue, RowKeys
    <2>2. row.name # "Command_Timeout"
      BY <1>3, <1>7, SensorNames DEF RowKeys
    <2>3. Decoded(row) = row.raw
      BY <2>2 DEF Decoded
    <2>4. QED
      BY <1>1, <1>5, <2>1, <2>3 DEF DecodedRaw, row
  <1>8. QED
    BY <1>6, <1>7

LEMMA LabelsOfRows ==
  ASSUME NEW d, NEW label, DOMAIN d.rows \subseteq Nat, LabelRow(d, label) # None, label # None
  PROVE  label \notin {Wear, MediaErrors, SpareWarn}
  <1>1. label \in Range(CriticalAta) \cup Range(WarningAta)
    BY LabelRowIs, LabelFrom
  <1>2. QED
    BY <1>1, Tables DEF Wear, MediaErrors, SpareWarn

\* The sensor shows what the form shows, whatever the drive sends
\* (current_readings, extract_attribute).
THEOREM SensorsAgreeAlways == Spec => []SensorsAgree
  <1>1. IInv => SensorsAgree
    <2> SUFFICES ASSUME IInv, Seen, NEW j \in CurrentReadings(data),
                        j.label \in DOMAIN KeyOf, ~j.gap
                 PROVE  \/ Extract(data, KeyOf[j.label]) = j.value
                        \/ /\ RowOf(data, KeyOf[j.label]) # None
                           /\ RowOf(data, KeyOf[j.label]).raw >= Word
                           /\ RowOf(data, KeyOf[j.label]).str # None
      BY DEF SensorsAgree
    <2>0. /\ KeyOf[Wear] = "wear_leveling_count" /\ KeyOf[MediaErrors] = "media_errors"
          /\ KeyOf[SpareWarn] = "available_spare"
          /\ {Wear, MediaErrors, SpareWarn} \subseteq DOMAIN KeyOf
      BY DEF KeyOf, Wear, MediaErrors, SpareWarn
    <2>1. CASE data.nvme # None
      <3>1. \/ j.label = MediaErrors /\ j.value = data.nvme.media
            \/ j.label = SpareWarn /\ j.value = data.nvme.spare
            \/ j.label = Wear /\ j.value = data.nvme.used
        BY <2>1 DEF CurrentReadings, Reading
      <3>2. \A key \in {"media_errors", "available_spare", "wear_leveling_count"} :
               key \in DOMAIN NvmeValue(data) /\ Extract(data, key) = NvmeValue(data)[key]
        BY <2>1 DEF NvmeValue, Extract
      <3>3. /\ NvmeValue(data)["media_errors"] = data.nvme.media
            /\ NvmeValue(data)["available_spare"] = data.nvme.spare
            /\ NvmeValue(data)["wear_leveling_count"] = data.nvme.used
        BY DEF NvmeValue
      <3>4. QED
        BY <2>0, <3>1, <3>2, <3>3
    <2>2. CASE data.nvme = None
      <3>1. CASE j \in WearReading(data)
        <4>1. /\ j = Reading(Wear, AtaWearUsed(data, WearRow(data)), FALSE)
              /\ WearRow(data) # None
          BY <3>1 DEF WearReading
        <4>2. j.label = Wear /\ j.value = AtaWearUsed(data, WearRow(data))
          BY <4>1 DEF Reading
        <4>3. Extract(data, "wear_leveling_count") =
                RowValue(data, "wear_leveling_count", WearRow(data))
          BY <2>2, <4>1, SameWearRow DEF Extract
        <4>4. RowValue(data, "wear_leveling_count", WearRow(data)) =
                AtaWearUsed(data, WearRow(data))
          BY DEF RowValue
        <4>5. QED
          BY <2>0, <4>2, <4>3, <4>4
      <3>2. CASE j \notin WearReading(data)
        <4>1. /\ j.label \in AtaLabels /\ LabelRow(data, j.label) # None
              /\ j.value = Decoded(LabelRow(data, j.label))
          BY <2>2, <3>2, TableReadings
        <4>2. DOMAIN data.rows \subseteq Nat
          BY DEF IInv, RowsOK
        <4>3. j.label \notin {Wear, MediaErrors, SpareWarn}
          BY <4>1, <4>2, LabelsOfRows, NoneIsNoLabel
        <4>4. KeyOf[j.label] \in RowKeys /\ LabelOfKey(KeyOf[j.label]) = j.label
          BY <4>3 DEF KeyOf, RowKeys, LabelOfKey
        <4>5. QED
          BY <2>2, <4>1, <4>2, <4>4, AgreeOnRows
      <3>3. QED
        BY <3>1, <3>2
    <2>3. QED
      BY <2>1, <2>2
  <1>2. QED
    BY <1>1, Invariant, PTL

-------------------------------------------------------------------------------
(* A limit set to the reading. *)

\* What is judged of a label: the form's reading and its limit.
AcceptedLimit(j) == IF j.label = Wear THEN j.value + 1 ELSE j.value

Accepting(ls, j) ==
    [l \in DOMAIN ls \cup {j.label} |-> IF l # j.label THEN ls[l] ELSE AcceptedLimit(j)]

LEMMA EqualDoesNotTrip ==
  ASSUME NEW ls, NEW j, j.value \in Int, NEW k, k.label = j.label, k.value = j.value
  PROVE  ~Breached(Accepting(ls, j), k)
  <1>1. Limit(Accepting(ls, j), k.label) = AcceptedLimit(j)
    BY DEF Limit, Accepting
  <1>2. Wear # SpareWarn
    BY DEF Wear, SpareWarn
  <1>3. ~Trips(j.label, j.value, AcceptedLimit(j))
    BY <1>2 DEF Trips, AcceptedLimit
  <1>4. QED
    BY <1>1, <1>3 DEF Breached

LEMMA GapLabels ==
  ASSUME NEW d, NEW g \in GapReadings(d)
  PROVE  /\ d.eff # None /\ g.gap = TRUE
         /\ \/ /\ g.label = "Reported Uncorrectable Errors" /\ g.value = d.eff.unc
            \/ /\ g.label = "Reallocated Sector Count" /\ g.value = d.eff.realloc
            \/ /\ g.label = Wear /\ g.value = d.eff.wear /\ WearRow(d) = None
         /\ g.value # None
  <1>1. /\ CriticalAta["Reported_Uncorrect"] = "Reported Uncorrectable Errors"
        /\ CriticalAta["Reallocated_Sector_Ct"] = "Reallocated Sector Count"
    BY DEF CriticalAta
  <1>2. d.eff # None
    BY DEF GapReadings
  <1>3. \/ g = Reading("Reported Uncorrectable Errors", d.eff.unc, TRUE) /\ d.eff.unc # None
        \/ g = Reading("Reallocated Sector Count", d.eff.realloc, TRUE) /\ d.eff.realloc # None
        \/ g = Reading(Wear, d.eff.wear, TRUE) /\ d.eff.wear # None /\ WearRow(d) = None
    <2> DEFINE ids == {r.id : r \in Range(d.rows)}
               found ==
                 {<<CriticalAta["Reported_Uncorrect"], d.eff.unc>> : x \in {187} \ ids}
                 \cup {<<CriticalAta["Reallocated_Sector_Ct"], d.eff.realloc>> : x \in {5} \ ids}
                 \cup (IF WearRow(d) = None THEN {<<Wear, d.eff.wear>>} ELSE {})
    <2>1. g \in {Reading(f[1], f[2], TRUE) : f \in {h \in found : h[2] # None}}
      BY <1>2 DEF GapReadings
    <2>2. PICK f \in found : f[2] # None /\ g = Reading(f[1], f[2], TRUE)
      BY <2>1
    <2>3. \/ f = <<"Reported Uncorrectable Errors", d.eff.unc>>
          \/ f = <<"Reallocated Sector Count", d.eff.realloc>>
          \/ f = <<Wear, d.eff.wear>> /\ WearRow(d) = None
      BY <1>1, <2>2
    <2>4. \/ f[1] = "Reported Uncorrectable Errors" /\ f[2] = d.eff.unc
          \/ f[1] = "Reallocated Sector Count" /\ f[2] = d.eff.realloc
          \/ f[1] = Wear /\ f[2] = d.eff.wear /\ WearRow(d) = None
      <3>1. \A a, b : f = <<a, b>> => f[1] = a /\ f[2] = b
        OBVIOUS
      <3> HIDE DEF found
      <3>2. QED
        BY <2>3, <3>1, Zenon
    <2> HIDE DEF found
    <2>5. QED
      BY <2>2, <2>4
  <1>4. CASE g = Reading("Reported Uncorrectable Errors", d.eff.unc, TRUE) /\ d.eff.unc # None
    BY <1>2, <1>4 DEF Reading
  <1>5. CASE g = Reading("Reallocated Sector Count", d.eff.realloc, TRUE) /\ d.eff.realloc # None
    BY <1>2, <1>5 DEF Reading
  <1>6. CASE g = Reading(Wear, d.eff.wear, TRUE) /\ d.eff.wear # None /\ WearRow(d) = None
    BY <1>2, <1>6 DEF Reading
  <1>7. QED
    BY <1>3, <1>4, <1>5, <1>6

GapValue(d, label) ==
    CASE label = Wear -> d.eff.wear
      [] label = "Reallocated Sector Count" -> d.eff.realloc
      [] OTHER -> d.eff.unc

LEMMA GapValues ==
  ASSUME NEW d, NEW g \in GapReadings(d)
  PROVE  g.value = GapValue(d, g.label)
  <1>1. CASE g.label = "Reported Uncorrectable Errors" /\ g.value = d.eff.unc
    BY <1>1 DEF GapValue, Wear
  <1>2. CASE g.label = "Reallocated Sector Count" /\ g.value = d.eff.realloc
    BY <1>2 DEF GapValue, Wear
  <1>3. CASE g.label = Wear /\ g.value = d.eff.wear
    BY <1>3 DEF GapValue, Wear
  <1>4. QED
    BY <1>1, <1>2, <1>3, GapLabels

LEMMA FirstRowsAreRows ==
  ASSUME NEW d, DOMAIN d.rows \subseteq Nat
  PROVE  /\ WearRow(d) # None => WearRow(d) \in Range(d.rows)
         /\ \A ls, label : Judged(d, ls, label) # None =>
               Judged(d, ls, label) \in Range(d.rows) /\ LabelOf(Judged(d, ls, label)) = label
  <1>1. WearRow(d) # None => WearRow(d) \in Range(d.rows)
    <2> DEFINE those == {i \in DOMAIN d.rows : d.rows[i].name \in WearNames /\ ~d.rows[i].dead}
    <2>1. WearRow(d) =
            IF those = {} THEN None ELSE d.rows[CHOOSE i \in those : \A k \in those : i <= k]
      BY DEF WearRow, FirstRow
    <2>2. those # {} => \E k \in those : \A n \in those : k <= n
      <3>1. those \subseteq Nat
        OBVIOUS
      <3> HIDE DEF those
      <3>2. QED
        BY <3>1, LeastExists
    <2>3. those # {} => \E k \in those : WearRow(d) = d.rows[k]
      BY <2>1, <2>2
    <2>4. QED
      BY <2>1, <2>3 DEF Range
  <1>2. ASSUME NEW ls, NEW label, Judged(d, ls, label) # None
        PROVE  Judged(d, ls, label) \in Range(d.rows) /\ LabelOf(Judged(d, ls, label)) = label
    <2> DEFINE those ==
                 {i \in DOMAIN d.rows :
                     /\ LabelOf(d.rows[i]) = label /\ d.rows[i].raw > 0
                     /\ Noted(ls, Reading(label, Decoded(d.rows[i]), FALSE))}
    <2>1. Judged(d, ls, label) =
            IF those = {} THEN None ELSE d.rows[CHOOSE i \in those : \A k \in those : i <= k]
      BY DEF Judged, FirstRow
    <2>2. \E k \in those : \A n \in those : k <= n
      <3>1. those \subseteq Nat /\ those # {}
        BY <1>2, <2>1
      <3> HIDE DEF those
      <3>2. QED
        BY <3>1, LeastExists
    <2>3. PICK k \in those : Judged(d, ls, label) = d.rows[k]
      BY <2>1, <2>2
    <2>4. QED
      BY <2>3 DEF Range
  <1>3. QED
    BY <1>1, <1>2

LEMMA DecodedIsNat ==
  ASSUME NEW r, r.raw \in Nat
  PROVE  Decoded(r) \in Nat
  BY WordsAreNat DEF Decoded

LEMMA WearIsInt ==
  ASSUME NEW d, NEW j \in WearReading(d), \A r \in Range(d.rows) : r.value \in Nat,
         DOMAIN d.rows \subseteq Nat, d.eff # None => Numbers(d.eff)
  PROVE  /\ j = Reading(Wear, AtaWearUsed(d, WearRow(d)), FALSE)
         /\ WearRow(d) # None /\ j.value \in Int
  <1>1. /\ j = Reading(Wear, AtaWearUsed(d, WearRow(d)), FALSE)
        /\ WearRow(d) # None /\ AtaWearUsed(d, WearRow(d)) # None
    BY DEF WearReading
  <1>2. WearRow(d).value \in Nat
    BY <1>1, FirstRowsAreRows
  <1>3. AtaWearUsed(d, WearRow(d)) \in Int
    <2> DEFINE r == WearRow(d)
    <2> HIDE DEF r
    <2>1. CASE ~CountsUp(d, r)
      BY <1>2, <2>1 DEF AtaWearUsed, r
    <2>2. CASE CountsUp(d, r) /\ d.eff # None /\ d.eff.wear # None
      BY <2>2 DEF AtaWearUsed, Numbers, r
    <2>3. CASE CountsUp(d, r) /\ ~(d.eff # None /\ d.eff.wear # None)
      <3>1. AtaWearUsed(d, r) = IF Implausible(d, r.value) THEN None ELSE r.value
        BY <2>3 DEF AtaWearUsed
      <3>2. QED
        BY <1>1, <1>2, <3>1 DEF r
    <2>4. QED
      BY <2>1, <2>2, <2>3 DEF r
  <1>4. QED
    BY <1>1, <1>3 DEF Reading

\* What is judged of a table is a row of the label, the wear or a gap.
LEMMA JudgedReadings ==
  ASSUME NEW d, NEW ls, DOMAIN d.rows \subseteq Nat, NEW k \in AtaReadings(d, ls)
  PROVE  \/ \E r \in Range(d.rows) : LabelOf(r) = k.label /\ k.value = Decoded(r)
                                     /\ k.label \in AtaLabels
         \/ k \in WearReading(d)
         \/ k \in GapReadings(d)
  <1>1. \/ \E l \in AtaLabels : /\ Judged(d, ls, l) # None
                                /\ k = Reading(l, Decoded(Judged(d, ls, l)), FALSE)
        \/ k \in WearReading(d)
        \/ k \in GapReadings(d)
    BY DEF AtaReadings, RowReadings
  <1>2. ASSUME NEW l \in AtaLabels, Judged(d, ls, l) # None,
               k = Reading(l, Decoded(Judged(d, ls, l)), FALSE)
        PROVE  \E r \in Range(d.rows) : LabelOf(r) = k.label /\ k.value = Decoded(r)
                                        /\ k.label \in AtaLabels
    <2>1. k.label = l /\ k.value = Decoded(Judged(d, ls, l))
      BY <1>2 DEF Reading
    <2>2. Judged(d, ls, l) \in Range(d.rows) /\ LabelOf(Judged(d, ls, l)) = l
      BY <1>2, FirstRowsAreRows
    <2>3. QED
      BY <2>1, <2>2
  <1>3. QED
    BY <1>1, <1>2

\* No row has the label of the wear.
LEMMA RowsAreNotWear ==
  ASSUME NEW r
  PROVE  LabelOf(r) # Wear
  <1>1. Wear \notin Range(CriticalAta) \cup Range(WarningAta)
    BY Tables DEF Wear
  <1>2. Wear # None
    BY NoneIsNoLabel DEF AtaLabels
  <1>3. QED
    BY <1>1, <1>2, LabelFrom

\* The form shows one value of a label, and it is the one that is judged.
LEMMA SameIsJudged ==
  ASSUME NEW d, d.nvme = None, NEW ls, DOMAIN d.rows \subseteq Nat,
         \A r \in Range(d.rows) : r.raw \in Nat /\ r.value \in Nat,
         d.eff # None => Numbers(d.eff),
         NEW j \in CurrentReadings(d),
         \A r, s \in Range(d.rows) : LabelOf(r) = j.label /\ LabelOf(s) = j.label => r = s,
         (\E r \in Range(d.rows) : LabelOf(r) = j.label) =>
            \A g \in GapReadings(d) : g.label # j.label
  PROVE  /\ j.value \in Int /\ j.label \in AtaLabels
         /\ \A k \in AtaReadings(d, ls) : k.label = j.label => k.value = j.value
  <1>0. /\ Wear # "Reported Uncorrectable Errors" /\ Wear # "Reallocated Sector Count"
        /\ Wear \in AtaLabels
        /\ "Reported Uncorrectable Errors" \in AtaLabels
        /\ "Reallocated Sector Count" \in AtaLabels
    <2>1. /\ CriticalAta["Reallocated_Sector_Ct"] = "Reallocated Sector Count"
          /\ CriticalAta["Reported_Uncorrect"] = "Reported Uncorrectable Errors"
          /\ {"Reallocated_Sector_Ct", "Reported_Uncorrect"} \subseteq DOMAIN CriticalAta
      BY DEF CriticalAta
    <2>2. QED
      BY <2>1 DEF AtaLabels, Range, Wear
  <1>1. CASE j \in WearReading(d)
    <2>1. /\ j = Reading(Wear, AtaWearUsed(d, WearRow(d)), FALSE)
          /\ WearRow(d) # None /\ j.value \in Int
      BY <1>1, WearIsInt
    <2>2. j.label = Wear
      BY <2>1 DEF Reading
    <2>3. ASSUME NEW k \in AtaReadings(d, ls), k.label = j.label
          PROVE  k.value = j.value
      <3>1. CASE k \in WearReading(d)
        BY <2>1, <3>1, WearIsInt
      <3>2. CASE k \in GapReadings(d)
        BY <1>0, <2>1, <2>2, <2>3, <3>2, GapLabels
      <3>3. QED
        BY <2>2, <2>3, <3>1, <3>2, JudgedReadings, RowsAreNotWear
    <2>4. QED
      BY <1>0, <2>1, <2>2, <2>3
  <1>2. CASE j \in GapReadings(d)
    <2>1. \A r \in Range(d.rows) : LabelOf(r) # j.label
      BY <1>2
    <2>2. j.label \in AtaLabels /\ j.value \in Int
      <3>1. /\ \/ j.label = "Reported Uncorrectable Errors" /\ j.value = d.eff.unc
               \/ j.label = "Reallocated Sector Count" /\ j.value = d.eff.realloc
               \/ j.label = Wear /\ j.value = d.eff.wear
            /\ j.value # None /\ d.eff # None
        BY <1>2, GapLabels
      <3>2. {d.eff.unc, d.eff.realloc, d.eff.wear} \subseteq Int \cup {None}
        <4>1. Numbers(d.eff)
          BY <3>1
        <4>2. {d.eff.unc, d.eff.realloc, d.eff.wear} \subseteq Nat \cup {None}
          BY <4>1, Zenon DEF Numbers
        <4>3. QED
          BY <4>2
      <3>3. QED
        BY <1>0, <3>1, <3>2
    <2>3. ASSUME NEW k \in AtaReadings(d, ls), k.label = j.label
          PROVE  k.value = j.value
      <3>1. CASE k \in WearReading(d)
        <4>1. k.label = Wear /\ WearRow(d) # None
          BY <3>1, WearIsInt DEF Reading
        <4>2. QED
          BY <1>0, <1>2, <2>3, <4>1, GapLabels
      <3>2. CASE k \in GapReadings(d)
        <4>1. k.value = GapValue(d, k.label) /\ j.value = GapValue(d, j.label)
          BY <1>2, <3>2, GapValues
        <4>2. QED
          BY <2>3, <4>1
      <3>3. QED
        BY <2>1, <2>3, <3>1, <3>2, JudgedReadings
    <2>4. QED
      BY <2>2, <2>3
  <1>3. CASE j \notin WearReading(d) /\ j \notin GapReadings(d)
    <2>1. /\ j.label \in AtaLabels /\ LabelRow(d, j.label) # None
          /\ j.value = Decoded(LabelRow(d, j.label))
      <3>1. \E label \in AtaLabels : LabelRow(d, label) # None
              /\ j = Reading(label, Decoded(LabelRow(d, label)), FALSE)
        BY <1>3 DEF CurrentReadings, LabelRow
      <3>2. QED
        BY <3>1 DEF Reading
    <2>2. LabelRow(d, j.label) \in Range(d.rows) /\ LabelOf(LabelRow(d, j.label)) = j.label
      BY <2>1, LabelRowIs
    <2>3. ASSUME NEW k \in AtaReadings(d, ls), k.label = j.label
          PROVE  k.value = j.value
      <3>1. CASE k \in WearReading(d)
        <4>1. k.label = Wear
          BY <3>1, WearIsInt DEF Reading
        <4>2. QED
          BY <2>2, <2>3, <4>1, RowsAreNotWear
      <3>2. CASE k \in GapReadings(d)
        BY <2>2, <2>3, <3>2
      <3>3. CASE \E r \in Range(d.rows) : LabelOf(r) = k.label /\ k.value = Decoded(r)
        BY <2>1, <2>2, <2>3, <3>3
      <3>4. QED
        BY <3>1, <3>2, <3>3, JudgedReadings
    <2>4. QED
      BY <2>1, <2>2, <2>3, DecodedIsNat
  <1>4. QED
    BY <1>1, <1>2, <1>3

\* The same of an NVMe log.
LEMMA SameIsLogged ==
  ASSUME NEW d, d.nvme # None, NEW j \in CurrentReadings(d),
         d.nvme.used \in Nat, {d.nvme.media, d.nvme.spare} \subseteq Nat \cup {None}
  PROVE  /\ j.value \in Int /\ j.label \in NvmeLabels
         /\ \A k \in NvmeReadings(d) : k.label = j.label => k.value = j.value
  <1>1. /\ Wear # MediaErrors /\ Wear # SpareWarn /\ MediaErrors # SpareWarn
        /\ NvmeLabels = {Wear, MediaErrors, SpareWarn}
    BY DEF Wear, MediaErrors, SpareWarn, NvmeLabels
  <1>2. \/ j.label = MediaErrors /\ j.value = d.nvme.media /\ j.value # None
        \/ j.label = SpareWarn /\ j.value = d.nvme.spare /\ j.value # None
        \/ j.label = Wear /\ j.value = d.nvme.used
    BY DEF CurrentReadings, Reading
  <1>3. \A k \in NvmeReadings(d) :
           \/ k.label = MediaErrors /\ k.value = d.nvme.media
           \/ k.label = SpareWarn /\ k.value = d.nvme.spare
           \/ k.label = Wear /\ k.value = d.nvme.used
    BY DEF NvmeReadings, Reading
  <1>4. j.value \in Int /\ j.label \in NvmeLabels
    BY <1>1, <1>2
  <1>5. QED
    BY <1>1, <1>2, <1>3, <1>4

\* Whatever the form shows can be accepted: evaluate_attention judges the very
\* value that current_readings shows (attention.py).
THEOREM ReadingsCanBeAccepted == Spec => []ReadingCanBeAccepted
  <1>1. IInv => ReadingCanBeAccepted
    <2> SUFFICES ASSUME IInv, Seen, NEW j \in CurrentReadings(data),
                        \A r, s \in Range(data.rows) :
                           LabelOf(r) = j.label /\ LabelOf(s) = j.label => r = s,
                        (\E r \in Range(data.rows) : LabelOf(r) = j.label) =>
                           \A g \in GapReadings(data) : g.label # j.label,
                        NEW k \in Evaluate(data, Accepting(limits, j)).reasons
                 PROVE  k.label # j.label
      BY DEF ReadingCanBeAccepted, Accepting, AcceptedLimit
    <2> DEFINE ls == Accepting(limits, j)
    <2>0. /\ DOMAIN data.rows \subseteq Nat
          /\ \A r \in Range(data.rows) : r.raw \in Nat /\ r.value \in Nat
          /\ data.nvme # None => /\ data.nvme.used \in Nat
                                 /\ {data.nvme.media, data.nvme.spare} \subseteq Nat \cup {None}
          /\ data.eff # None => Numbers(data.eff)
      BY DEF IInv, RowsOK, NumbersOK
    <2>1. /\ j.value \in Int /\ j.label \in AtaLabels \cup NvmeLabels
          /\ \A i \in Readings(data, ls) : i.label = j.label => i.value = j.value
      <3> HIDE DEF ls
      <3>1. CASE data.nvme = None
        BY <2>0, <3>1, SameIsJudged DEF Readings
      <3>2. CASE data.nvme # None
        BY <2>0, <3>2, SameIsLogged DEF Readings
      <3>3. QED
        BY <3>1, <3>2
    <2>2. CASE k \in OwnReasons(data)
      <3>1. k.label \in NeverConfigurable
        BY <2>2 DEF OwnReasons, Reading, NeverConfigurable
      <3>2. QED
        BY <2>1, <3>1, LabelsConfigurable
    <2>3. CASE k \in Readings(data, ls) /\ Breached(ls, k)
      BY <2>1, <2>3, EqualDoesNotTrip
    <2>4. QED
      BY <2>2, <2>3 DEF Evaluate
  <1>2. QED
    BY <1>1, Invariant, PTL

-------------------------------------------------------------------------------
(* All that is flagged is accepted. *)

LEMMA SetLimitsTo ==
  ASSUME NEW d, NEW ls, NEW values, NEW l \in LabelsFor(d)
  PROVE  Limit(SetLimits(d, ls, values), l) =
            IF l \in DOMAIN values THEN values[l] ELSE Limit(ls, l)
  <1> DEFINE input == [x \in DOMAIN values \cup DOMAIN ls |->
                          IF x \in DOMAIN values THEN values[x] ELSE ls[x]]
             chosen == {x \in LabelsFor(d) \cap DOMAIN input : input[x] # Default(x)}
  <1>1. SetLimits(d, ls, values) = [x \in chosen |-> input[x]]
    BY DEF SetLimits, OverridesFromForm
  <1>2. l \in DOMAIN input <=> l \in DOMAIN values \/ l \in DOMAIN ls
    OBVIOUS
  <1>3. l \in DOMAIN input => input[l] = IF l \in DOMAIN values THEN values[l] ELSE ls[l]
    OBVIOUS
  <1>4. l \in chosen <=> l \in DOMAIN input /\ input[l] # Default(l)
    OBVIOUS
  <1> HIDE DEF chosen, input
  <1>5. Limit(SetLimits(d, ls, values), l) = IF l \in chosen THEN input[l] ELSE Default(l)
    BY <1>1 DEF Limit
  <1>6. QED
    BY <1>2, <1>3, <1>4, <1>5 DEF Limit

\* What is judged is shown by the form.
LEMMA JudgedIsShown ==
  ASSUME NEW d, NEW ls, DOMAIN d.rows \subseteq Nat, \A r \in Range(d.rows) : r # None,
         NEW k \in Readings(d, ls)
  PROVE  \E j \in CurrentReadings(d) : j.label = k.label
  <1>1. CASE d.nvme # None
    BY <1>1 DEF Readings, NvmeReadings, CurrentReadings, Reading
  <1>2. CASE d.nvme = None
    <2>1. k \in AtaReadings(d, ls)
      BY <1>2 DEF Readings
    <2>2. CASE k \in WearReading(d)
      BY <1>2, <2>2 DEF CurrentReadings
    <2>3. CASE k \in GapReadings(d)
      BY <1>2, <2>3 DEF CurrentReadings
    <2>4. ASSUME NEW r \in Range(d.rows), LabelOf(r) = k.label, k.label \in AtaLabels
          PROVE  \E j \in CurrentReadings(d) : j.label = k.label
      <3>1. LabelRow(d, k.label) # None
        BY <2>4, LabelRowThere
      <3>2. Reading(k.label, Decoded(LabelRow(d, k.label)), FALSE) \in CurrentReadings(d)
        <4> DEFINE Row(label) == FirstRow(d.rows, LAMBDA r1 : LabelOf(r1) = label)
                   table == {Reading(label, Decoded(Row(label)), FALSE) :
                                label \in {x \in AtaLabels : Row(x) # None}}
        <4>1. Row(k.label) = LabelRow(d, k.label)
          BY DEF LabelRow
        <4>2. table \subseteq CurrentReadings(d)
          BY <1>2 DEF CurrentReadings
        <4> HIDE DEF Row
        <4>3. Reading(k.label, Decoded(Row(k.label)), FALSE) \in table
          BY <2>4, <3>1, <4>1
        <4>4. QED
          BY <4>1, <4>2, <4>3
      <3>3. QED
        BY <3>2 DEF Reading
    <2>5. QED
      BY <2>1, <2>2, <2>3, <2>4, JudgedReadings
  <1>3. QED
    BY <1>1, <1>2

\* After Accept nothing the limits are asked about is left as a reason
\* (ws_thresholds_accept, threshold_limits, evaluate_attention).
THEOREM AcceptanceSettles == Spec => AcceptSettles
  <1> DEFINE Settled ==
               \A k \in Evaluate(data, limits').reasons :
                  k.label \in NeverConfigurable \/ Twice(data, k.label)
  <1>1. IInv /\ PanelAccepts => Settled
    <2> SUFFICES ASSUME IInv, PanelAccepts, NEW k \in Evaluate(data, limits').reasons,
                        k.label \notin NeverConfigurable, ~Twice(data, k.label)
                 PROVE  FALSE
      OBVIOUS
    <2> DEFINE l == k.label
               flagged == Flagged(data, limits)
               Of(label) == CHOOSE j \in flagged : j.label = label
               values == [x \in {j.label : j \in flagged} |-> AcceptValue(Of(x))]
    <2>0. /\ DOMAIN data.rows \subseteq Nat
          /\ \A r \in Range(data.rows) : r # None /\ r.raw \in Nat /\ r.value \in Nat
          /\ data.nvme # None => /\ data.nvme.used \in Nat
                                 /\ {data.nvme.media, data.nvme.spare} \subseteq Nat \cup {None}
          /\ data.eff # None => Numbers(data.eff)
      BY DEF IInv, RowsOK, NumbersOK, PanelAccepts, Seen
    <2>1. k \in Readings(data, limits') /\ Breached(limits', k)
      BY DEF Evaluate, OwnReasons, Reading, NeverConfigurable
    <2>2. \A j \in CurrentReadings(data) :
             j.label = l => j.value = k.value /\ j.value \in Int /\ l \in LabelsFor(data)
      <3>1. CASE data.nvme = None
        <4>1. /\ \A r, s \in Range(data.rows) : LabelOf(r) = l /\ LabelOf(s) = l => r = s
              /\ (\E r \in Range(data.rows) : LabelOf(r) = l) =>
                    \A g \in GapReadings(data) : g.label # l
          BY DEF Twice
        <4>2. k \in AtaReadings(data, limits')
          BY <2>1, <3>1 DEF Readings
        <4>3. QED
          BY <2>0, <3>1, <4>1, <4>2, SameIsJudged DEF LabelsFor
      <3>2. CASE data.nvme # None
        BY <2>0, <2>1, <3>2, SameIsLogged DEF Readings, LabelsFor
      <3>3. QED
        BY <3>1, <3>2
    <2>3. PICK j \in CurrentReadings(data) : j.label = l
      BY <2>0, <2>1, JudgedIsShown
    <2>4. Limit(limits', l) = IF l \in DOMAIN values THEN values[l] ELSE Limit(limits, l)
      <3>1. limits' = SetLimits(data, limits, values)
        BY DEF PanelAccepts, AcceptAll
      <3>2. l \in LabelsFor(data)
        BY <2>2, <2>3
      <3> HIDE DEF values, l
      <3>3. QED
        BY <3>1, <3>2, SetLimitsTo
    <2>5. Trips(l, k.value, Limit(limits', l))
      BY <2>1 DEF Breached
    <2>6. CASE \E i \in flagged : i.label = l
      <3>1. Of(l) \in flagged /\ Of(l).label = l
        BY <2>6
      <3>2. Of(l) \in CurrentReadings(data)
        BY <3>1 DEF Flagged
      <3>3. Of(l).value = k.value /\ k.value \in Int
        BY <2>2, <3>1, <3>2
      <3>4. Limit(limits', l) = AcceptValue(Of(l))
        BY <2>4, <2>6
      <3> HIDE DEF Of
      <3>5. Limit(limits', l) = IF l = Wear THEN k.value + 1 ELSE k.value
        BY <3>1, <3>3, <3>4 DEF AcceptValue
      <3>6. Wear # SpareWarn
        BY DEF Wear, SpareWarn
      <3>7. QED
        BY <2>5, <3>3, <3>5, <3>6 DEF Trips
    <2>7. CASE \A i \in flagged : i.label # l
      <3>1. Limit(limits', l) = Limit(limits, l)
        BY <2>4, <2>7
      <3>2. /\ l = SpareWarn /\ data.nvme # None /\ data.nvme.limit # None
            /\ k.value <= data.nvme.limit
        BY <2>2, <2>3, <2>5, <2>7, <3>1 DEF Flagged
      <3>3. k \in NvmeReadings(data)
        BY <2>1, <3>2 DEF Readings
      <3>4. /\ k.value = data.nvme.spare /\ data.nvme.spare # None
            /\ OwnReasons(data) \cap {Reading(OwnSpare, data.nvme.spare, FALSE)} = {}
        <4>1. \/ k.label = MediaErrors
              \/ k.label = Wear
              \/ /\ k.value = data.nvme.spare /\ data.nvme.spare # None
                 /\ OwnReasons(data) \cap {Reading(OwnSpare, data.nvme.spare, FALSE)} = {}
          <5> DEFINE own == OwnReasons(data) \cap {Reading(OwnSpare, data.nvme.spare, FALSE)}
          <5>1. \/ \E m : k = Reading(MediaErrors, m, FALSE)
                \/ k = Reading(Wear, data.nvme.used, FALSE)
                \/ /\ own = {} /\ data.nvme.spare # None
                   /\ k = Reading(SpareWarn, data.nvme.spare, FALSE)
            BY <3>3 DEF NvmeReadings
          <5> HIDE DEF own
          <5>2. QED
            BY <5>1 DEF Reading, own
        <4>2. QED
          BY <3>2, <4>1 DEF MediaErrors, SpareWarn, Wear
      <3>5. Reading(OwnSpare, data.nvme.spare, FALSE) \in OwnReasons(data)
        BY <3>2, <3>4 DEF OwnReasons
      <3>6. QED
        BY <3>4, <3>5
    <2>8. QED
      BY <2>6, <2>7
  <1>2. IInv /\ [Next]_vars => [PanelAccepts => Settled]_vars
    BY <1>1
  <1>3. QED
    BY <1>2, Invariant, PTL DEF Spec, AcceptSettles

-------------------------------------------------------------------------------
(* The card. *)

TableLabels == Range(CriticalAta) \cup Range(WarningAta)

\* The row of each of a table's labels.
KeyOfLabel(l) ==
    CASE l = "Reallocated Sector Count" -> "reallocated"
      [] l = "Current Pending Sector Count" -> "pending"
      [] l \in {"Offline Uncorrectable Errors", "Total Offline Uncorrectable"} -> "offline_unc"
      [] l \in {"Reported Uncorrectable Errors", "Uncorrectable Error Count"} -> "reported_unc"
      [] l = "Command Timeout" -> "cmd_timeout"
      [] l = "Reallocated Event Count" -> "realloc_events"
      [] l = "Spin Retry Count" -> "spin_retries"

NameKeys ==
    [ Reallocated_Sector_Ct     |-> "reallocated",
      Retired_Block_Count       |-> "reallocated",
      Current_Pending_Sector    |-> "pending",
      Current_Pending_Sector_Ct |-> "pending",
      Total_Pending_Sectors     |-> "pending",
      Offline_Uncorrectable     |-> "offline_unc",
      Total_Offl_Uncorrectabl   |-> "offline_unc",
      Reported_Uncorrect        |-> "reported_unc",
      Uncorrectable_Error_Cnt   |-> "reported_unc",
      Command_Timeout           |-> "cmd_timeout",
      Reallocated_Event_Count   |-> "realloc_events",
      Spin_Retry_Count          |-> "spin_retries" ]

LEMMA NamesOfRows ==
  ASSUME NEW n, NEW key \in DOMAIN RowNames
  PROVE  n \in RowNames[key] <=> n \in DOMAIN NameKeys /\ NameKeys[n] = key
  <1>1. DOMAIN RowNames = { "reallocated", "pending", "offline_unc", "reported_unc",
                            "cmd_timeout", "realloc_events", "spin_retries" }
    BY DEF RowNames
  <1>2. /\ RowNames["reallocated"] = { "Reallocated_Sector_Ct", "Retired_Block_Count" }
        /\ RowNames["pending"] = { "Current_Pending_Sector", "Current_Pending_Sector_Ct",
                                   "Total_Pending_Sectors" }
        /\ RowNames["offline_unc"] = { "Offline_Uncorrectable", "Total_Offl_Uncorrectabl" }
        /\ RowNames["reported_unc"] = { "Reported_Uncorrect", "Uncorrectable_Error_Cnt" }
        /\ RowNames["cmd_timeout"] = { "Command_Timeout" }
        /\ RowNames["realloc_events"] = { "Reallocated_Event_Count" }
        /\ RowNames["spin_retries"] = { "Spin_Retry_Count" }
    BY DEF RowNames
  <1>3. DOMAIN NameKeys =
           { "Reallocated_Sector_Ct", "Retired_Block_Count", "Current_Pending_Sector",
             "Current_Pending_Sector_Ct", "Total_Pending_Sectors", "Offline_Uncorrectable",
             "Total_Offl_Uncorrectabl", "Reported_Uncorrect", "Uncorrectable_Error_Cnt",
             "Command_Timeout", "Reallocated_Event_Count", "Spin_Retry_Count" }
    BY DEF NameKeys
  <1>4. /\ NameKeys["Reallocated_Sector_Ct"] = "reallocated"
        /\ NameKeys["Retired_Block_Count"] = "reallocated"
        /\ NameKeys["Current_Pending_Sector"] = "pending"
        /\ NameKeys["Current_Pending_Sector_Ct"] = "pending"
        /\ NameKeys["Total_Pending_Sectors"] = "pending"
        /\ NameKeys["Offline_Uncorrectable"] = "offline_unc"
        /\ NameKeys["Total_Offl_Uncorrectabl"] = "offline_unc"
        /\ NameKeys["Reported_Uncorrect"] = "reported_unc"
        /\ NameKeys["Uncorrectable_Error_Cnt"] = "reported_unc"
        /\ NameKeys["Command_Timeout"] = "cmd_timeout"
        /\ NameKeys["Reallocated_Event_Count"] = "realloc_events"
        /\ NameKeys["Spin_Retry_Count"] = "spin_retries"
    BY DEF NameKeys
  <1>5. QED
    BY <1>1, <1>2, <1>3, <1>4

LEMMA LabelsOfNames ==
  ASSUME NEW r
  PROVE  /\ LabelOf(r) # None <=> r.name \in DOMAIN NameKeys
         /\ LabelOf(r) # None => KeyOfLabel(LabelOf(r)) = NameKeys[r.name]
  <1>1. DOMAIN NameKeys =
           { "Reallocated_Sector_Ct", "Retired_Block_Count", "Current_Pending_Sector",
             "Current_Pending_Sector_Ct", "Total_Pending_Sectors", "Offline_Uncorrectable",
             "Total_Offl_Uncorrectabl", "Reported_Uncorrect", "Uncorrectable_Error_Cnt",
             "Command_Timeout", "Reallocated_Event_Count", "Spin_Retry_Count" }
    BY DEF NameKeys
  <1>2. DOMAIN CriticalAta \cup DOMAIN WarningAta = DOMAIN NameKeys
    BY <1>1 DEF CriticalAta, WarningAta
  <1>3. \A n \in DOMAIN CriticalAta : CriticalAta[n] \in AtaLabels
    BY DEF AtaLabels, Range
  <1>4. \A n \in DOMAIN WarningAta : WarningAta[n] \in AtaLabels
    BY DEF AtaLabels, Range
  <1>5. LabelOf(r) # None <=> r.name \in DOMAIN NameKeys
    BY <1>2, <1>3, <1>4, NoneIsNoLabel DEF LabelOf
  <1>6. \A n \in DOMAIN CriticalAta : KeyOfLabel(CriticalAta[n]) = NameKeys[n]
    <2>1. DOMAIN CriticalAta =
             { "Reallocated_Sector_Ct", "Retired_Block_Count", "Current_Pending_Sector",
               "Current_Pending_Sector_Ct", "Total_Pending_Sectors", "Offline_Uncorrectable",
               "Reported_Uncorrect", "Uncorrectable_Error_Cnt", "Total_Offl_Uncorrectabl" }
      BY DEF CriticalAta
    <2>2. /\ CriticalAta["Reallocated_Sector_Ct"] = "Reallocated Sector Count"
          /\ CriticalAta["Retired_Block_Count"] = "Reallocated Sector Count"
          /\ CriticalAta["Current_Pending_Sector"] = "Current Pending Sector Count"
          /\ CriticalAta["Current_Pending_Sector_Ct"] = "Current Pending Sector Count"
          /\ CriticalAta["Total_Pending_Sectors"] = "Current Pending Sector Count"
          /\ CriticalAta["Offline_Uncorrectable"] = "Offline Uncorrectable Errors"
          /\ CriticalAta["Reported_Uncorrect"] = "Reported Uncorrectable Errors"
          /\ CriticalAta["Uncorrectable_Error_Cnt"] = "Uncorrectable Error Count"
          /\ CriticalAta["Total_Offl_Uncorrectabl"] = "Total Offline Uncorrectable"
      BY DEF CriticalAta
    <2>3. /\ KeyOfLabel("Reallocated Sector Count") = "reallocated"
          /\ KeyOfLabel("Current Pending Sector Count") = "pending"
          /\ KeyOfLabel("Offline Uncorrectable Errors") = "offline_unc"
          /\ KeyOfLabel("Reported Uncorrectable Errors") = "reported_unc"
          /\ KeyOfLabel("Uncorrectable Error Count") = "reported_unc"
          /\ KeyOfLabel("Total Offline Uncorrectable") = "offline_unc"
      BY DEF KeyOfLabel
    <2>4. /\ NameKeys["Reallocated_Sector_Ct"] = "reallocated"
          /\ NameKeys["Retired_Block_Count"] = "reallocated"
          /\ NameKeys["Current_Pending_Sector"] = "pending"
          /\ NameKeys["Current_Pending_Sector_Ct"] = "pending"
          /\ NameKeys["Total_Pending_Sectors"] = "pending"
          /\ NameKeys["Offline_Uncorrectable"] = "offline_unc"
          /\ NameKeys["Reported_Uncorrect"] = "reported_unc"
          /\ NameKeys["Uncorrectable_Error_Cnt"] = "reported_unc"
          /\ NameKeys["Total_Offl_Uncorrectabl"] = "offline_unc"
      BY DEF NameKeys
    <2> DEFINE Same(n) == KeyOfLabel(CriticalAta[n]) = NameKeys[n]
    <2>5. /\ Same("Reallocated_Sector_Ct")
          /\ Same("Retired_Block_Count")
          /\ Same("Current_Pending_Sector")
          /\ Same("Current_Pending_Sector_Ct")
          /\ Same("Total_Pending_Sectors")
          /\ Same("Offline_Uncorrectable")
          /\ Same("Reported_Uncorrect")
          /\ Same("Uncorrectable_Error_Cnt")
          /\ Same("Total_Offl_Uncorrectabl")
      BY <2>2, <2>3, <2>4
    <2> HIDE DEF Same
    <2>6. \A n \in DOMAIN CriticalAta : Same(n)
      BY <2>1, <2>5
    <2>7. QED
      BY <2>6 DEF Same
  <1>7. \A n \in DOMAIN WarningAta : KeyOfLabel(WarningAta[n]) = NameKeys[n]
    <2>1. DOMAIN WarningAta = {"Reallocated_Event_Count", "Spin_Retry_Count", "Command_Timeout"}
      BY DEF WarningAta
    <2>2. /\ WarningAta["Reallocated_Event_Count"] = "Reallocated Event Count"
          /\ WarningAta["Spin_Retry_Count"] = "Spin Retry Count"
          /\ WarningAta["Command_Timeout"] = "Command Timeout"
      BY DEF WarningAta
    <2>3. /\ KeyOfLabel("Reallocated Event Count") = "realloc_events"
          /\ KeyOfLabel("Spin Retry Count") = "spin_retries"
          /\ KeyOfLabel("Command Timeout") = "cmd_timeout"
      BY DEF KeyOfLabel
    <2>4. /\ NameKeys["Reallocated_Event_Count"] = "realloc_events"
          /\ NameKeys["Spin_Retry_Count"] = "spin_retries"
          /\ NameKeys["Command_Timeout"] = "cmd_timeout"
      BY DEF NameKeys
    <2>5. QED
      BY <2>1, <2>2, <2>3, <2>4
  <1>8. QED
    BY <1>5, <1>6, <1>7 DEF LabelOf

\* A row of the table is on the card's row of its label, and only there.
LEMMA KeysOfRows ==
  ASSUME NEW r, LabelOf(r) # None
  PROVE  /\ RowKey(LabelOf(r)) \in DOMAIN RowNames
         /\ RowKey(LabelOf(r)) # "wear"
         /\ r.name \in RowNames[RowKey(LabelOf(r))]
         /\ \A key \in DOMAIN RowNames : r.name \in RowNames[key] => key = RowKey(LabelOf(r))
  <1> DEFINE l == LabelOf(r)
             Has(key) == \E n \in RowNames[key] : LabelOf([name |-> n]) = l
             those == {key \in DOMAIN RowNames : Has(key)}
  <1>1. l \in TableLabels
    BY LabelFrom DEF TableLabels
  <1>2. l \notin {Wear, MediaErrors, SpareWarn, OwnSpare, CriticalWarning}
    BY <1>1, Tables DEF TableLabels, Wear, MediaErrors, SpareWarn, OwnSpare, CriticalWarning
  <1>3. RowKey(l) = CHOOSE key \in DOMAIN RowNames : Has(key)
    BY <1>2 DEF RowKey
  <1>4. \A key \in DOMAIN RowNames : Has(key) => key = KeyOfLabel(l)
    <2> SUFFICES ASSUME NEW key \in DOMAIN RowNames, NEW n \in RowNames[key],
                        LabelOf([name |-> n]) = l
                 PROVE  key = KeyOfLabel(l)
      OBVIOUS
    <2>1. n \in DOMAIN NameKeys /\ NameKeys[n] = key
      BY NamesOfRows
    <2>2. KeyOfLabel(l) = NameKeys[n]
      BY <2>1, LabelsOfNames
    <2>3. QED
      BY <2>1, <2>2
  <1>5. r.name \in DOMAIN NameKeys /\ NameKeys[r.name] = KeyOfLabel(l)
    BY LabelsOfNames
  <1>6. KeyOfLabel(l) \in DOMAIN RowNames /\ KeyOfLabel(l) # "wear"
    <2>1. \A n \in DOMAIN NameKeys : NameKeys[n] \in
             { "reallocated", "pending", "offline_unc", "reported_unc", "cmd_timeout",
               "realloc_events", "spin_retries" }
      BY DEF NameKeys
    <2>2. QED
      BY <1>5, <2>1 DEF RowNames
  <1>7. r.name \in RowNames[KeyOfLabel(l)]
    BY <1>5, <1>6, NamesOfRows
  <1>8. Has(KeyOfLabel(l))
    <2>1. LabelOf([name |-> r.name]) = l
      BY DEF LabelOf
    <2>2. QED
      BY <1>7, <2>1
  <1> HIDE DEF Has
  <1>9. RowKey(l) = KeyOfLabel(l)
    BY <1>3, <1>4, <1>6, <1>8
  <1>10. QED
    BY <1>5, <1>6, <1>7, <1>9, NamesOfRows

LEMMA AtaRowsShow ==
  ASSUME NEW d
  PROVE  /\ \A key \in DOMAIN RowNames \cup {"wear"} :
              TableRow(d, key) # None =>
                 /\ <<key, FALSE>> \in DOMAIN AtaRows(d)
                 /\ AtaRows(d)[<<key, FALSE>>] = Shows(TableValue(TableRow(d, key), key))
         /\ \A g \in GapReadings(d) :
               /\ <<RowKey(g.label), TRUE>> \in DOMAIN AtaRows(d)
               /\ \E h \in GapReadings(d) :
                     /\ RowKey(h.label) = RowKey(g.label)
                     /\ AtaRows(d)[<<RowKey(g.label), TRUE>>] = Shows(h.value)
         /\ \A at \in DOMAIN AtaRows(d) :
               AtaRows(d)[at] = NotKnown \/ \E v : AtaRows(d)[at] = Shows(v)
  <1> DEFINE named == {key \in DOMAIN RowNames \cup {"wear"} : TableRow(d, key) # None}
             gaps == {RowKey(g.label) : g \in GapReadings(d)}
             Gap(key) == CHOOSE g \in GapReadings(d) : RowKey(g.label) = key
             dom == ((named \cup gaps) \X {FALSE}) \cup (gaps \X {TRUE})
             Row(at) == IF at[2] THEN Shows(Gap(at[1]).value)
                        ELSE IF at[1] \in named THEN Shows(TableValue(TableRow(d, at[1]), at[1]))
                        ELSE NotKnown
  <1>1. AtaRows(d) = [at \in dom |-> Row(at)]
    BY DEF AtaRows
  <1>2. ASSUME NEW key \in named
        PROVE  <<key, FALSE>> \in dom /\ Row(<<key, FALSE>>) = Shows(TableValue(TableRow(d, key), key))
    OBVIOUS
  <1>3. ASSUME NEW g \in GapReadings(d)
        PROVE  /\ <<RowKey(g.label), TRUE>> \in dom
               /\ Gap(RowKey(g.label)) \in GapReadings(d)
               /\ RowKey(Gap(RowKey(g.label)).label) = RowKey(g.label)
               /\ Row(<<RowKey(g.label), TRUE>>) = Shows(Gap(RowKey(g.label)).value)
    <2>1. RowKey(g.label) \in gaps
      OBVIOUS
    <2>2. \A key : Row(<<key, TRUE>>) = Shows(Gap(key).value)
      OBVIOUS
    <2>3. QED
      BY <2>1, <2>2
  <1>4. \A at : Row(at) = NotKnown \/ \E v : Row(at) = Shows(v)
    OBVIOUS
  <1> HIDE DEF dom, Row, Gap
  <1>5. \A at \in dom : AtaRows(d)[at] = Row(at)
    BY <1>1
  <1>6. DOMAIN AtaRows(d) = dom
    BY <1>1
  <1>7. QED
    BY <1>2, <1>3, <1>4, <1>5, <1>6

LEMMA TableRowsShow ==
  ASSUME NEW d, NEW key \in DOMAIN RowNames \cup {"wear"}, TableRow(d, key) # None
  PROVE  /\ <<key, FALSE>> \in DOMAIN AtaRows(d)
         /\ AtaRows(d)[<<key, FALSE>>].value = TableValue(TableRow(d, key), key)
  <1>1. /\ <<key, FALSE>> \in DOMAIN AtaRows(d)
        /\ AtaRows(d)[<<key, FALSE>>] = Shows(TableValue(TableRow(d, key), key))
    BY AtaRowsShow
  <1>2. QED
    BY <1>1 DEF Shows

LEMMA NvmeRowsShow ==
  ASSUME NEW d
  PROVE  LET at(key) == <<key, FALSE>>
         IN  /\ {at("critical_warning"), at("media_errors"), at("wear")} \subseteq DOMAIN NvmeRows(d)
             /\ NvmeRows(d)[at("critical_warning")] = Shows(d.nvme.cw)
             /\ d.nvme.media # None => NvmeRows(d)[at("media_errors")] = Shows(d.nvme.media)
             /\ NvmeRows(d)[at("wear")] = Shows(d.nvme.used)
             /\ d.nvme.spare # None => /\ at("available_spare") \in DOMAIN NvmeRows(d)
                                       /\ NvmeRows(d)[at("available_spare")] = Shows(d.nvme.spare)
             /\ \A x \in DOMAIN NvmeRows(d) :
                   NvmeRows(d)[x] = NotKnown \/ \E v : NvmeRows(d)[x] = Shows(v)
  <1> DEFINE has == {"critical_warning", "media_errors", "wear"}
                    \cup {"available_spare" : x \in {d.nvme.spare} \ {None}}
             Row(at) ==
               CASE at[1] = "critical_warning" -> Shows(d.nvme.cw)
                 [] at[1] = "media_errors" ->
                       IF d.nvme.media = None THEN NotKnown ELSE Shows(d.nvme.media)
                 [] at[1] = "available_spare" -> Shows(d.nvme.spare)
                 [] at[1] = "wear" -> Shows(d.nvme.used)
  <1>1. NvmeRows(d) = [at \in has \X {FALSE} |-> Row(at)]
    BY DEF NvmeRows
  <1>2. \A key \in has : <<key, FALSE>> \in has \X {FALSE}
    OBVIOUS
  <1>3. /\ {"critical_warning", "media_errors", "wear"} \subseteq has
        /\ d.nvme.spare # None => "available_spare" \in has
        /\ has \subseteq {"critical_warning", "media_errors", "wear", "available_spare"}
    OBVIOUS
  <1>4. \A key : <<key, FALSE>>[1] = key
    OBVIOUS
  <1>5. /\ Row(<<"critical_warning", FALSE>>) = Shows(d.nvme.cw)
        /\ d.nvme.media # None => Row(<<"media_errors", FALSE>>) = Shows(d.nvme.media)
        /\ Row(<<"wear", FALSE>>) = Shows(d.nvme.used)
        /\ Row(<<"available_spare", FALSE>>) = Shows(d.nvme.spare)
    BY <1>4
  <1>6. \A x \in has \X {FALSE} : Row(x) = NotKnown \/ \E v : Row(x) = Shows(v)
    <2>1. \A x \in has \X {FALSE} :
             x[1] \in {"critical_warning", "media_errors", "wear", "available_spare"}
      BY <1>3
    <2> HIDE DEF has
    <2>2. QED
      BY <2>1
  <1> HIDE DEF has, Row
  <1>7. DOMAIN NvmeRows(d) = has \X {FALSE} /\ \A x \in has \X {FALSE} : NvmeRows(d)[x] = Row(x)
    BY <1>1
  <1>8. \A key \in has : /\ <<key, FALSE>> \in DOMAIN NvmeRows(d)
                         /\ NvmeRows(d)[<<key, FALSE>>] = Row(<<key, FALSE>>)
    BY <1>2, <1>7
  <1>9. \A x \in DOMAIN NvmeRows(d) : NvmeRows(d)[x] = NotKnown \/ \E v : NvmeRows(d)[x] = Shows(v)
    BY <1>6, <1>7
  <1>10. QED
    BY <1>3, <1>5, <1>8, <1>9

\* Every row of the table that has a label is found again by the card, unless
\* another comes first.
LEMMA CardFindsRow ==
  ASSUME NEW d, DOMAIN d.rows \subseteq Nat, \A x \in Range(d.rows) : x # None,
         NEW r \in Range(d.rows), LabelOf(r) # None
  PROVE  LET row == TableRow(d, RowKey(LabelOf(r)))
         IN  /\ row # None /\ row \in Range(d.rows)
             /\ row = r \/ SharesRow(d, LabelOf(r))
  <1> DEFINE key == RowKey(LabelOf(r))
             those == {i \in DOMAIN d.rows : d.rows[i].name \in RowNames[key]}
             row == TableRow(d, key)
  <1>1. key \in DOMAIN RowNames /\ key # "wear" /\ r.name \in RowNames[key]
    BY KeysOfRows
  <1>2. row = IF those = {} THEN None
              ELSE d.rows[CHOOSE i \in those : \A k \in those : i <= k]
    BY <1>1 DEF TableRow, FirstRow
  <1>3. those # {} /\ those \subseteq Nat
    BY <1>1 DEF Range
  <1>4. \E k \in those : row = d.rows[k]
    <2> HIDE DEF those, row
    <2>1. \E k \in those : \A n \in those : k <= n
      BY <1>3, LeastExists
    <2>2. QED
      BY <1>2, <1>3, <2>1
  <1>5. row \in Range(d.rows) /\ row.name \in RowNames[key]
    <2> HIDE DEF row, key
    <2>1. QED
      BY <1>4 DEF Range
  <1>6. LabelOf(row) # None
    BY <1>1, <1>5, NamesOfRows, LabelsOfNames
  <1>7. RowKey(LabelOf(row)) = key
    BY <1>1, <1>5, <1>6, KeysOfRows
  <1>8. row = r \/ SharesRow(d, LabelOf(r))
    BY <1>5, <1>6, <1>7 DEF SharesRow
  <1> HIDE DEF row, key
  <1>9. QED
    BY <1>5, <1>8 DEF row, key

\* and shown with the value that is judged, unless that is packed.
LEMMA CardReadsRow ==
  ASSUME NEW r, LabelOf(r) # None
  PROVE  \/ TableValue(r, RowKey(LabelOf(r))) = Decoded(r)
         \/ r.raw >= Word /\ r.str # None
  <1> DEFINE key == RowKey(LabelOf(r))
  <1>1. key \in DOMAIN RowNames /\ key # "wear" /\ r.name \in RowNames[key]
        /\ \A k \in DOMAIN RowNames : r.name \in RowNames[k] => k = key
    BY KeysOfRows
  <1>2. key = "cmd_timeout" <=> r.name = "Command_Timeout"
    <2>1. "cmd_timeout" \in DOMAIN RowNames /\ RowNames["cmd_timeout"] = {"Command_Timeout"}
      BY DEF RowNames
    <2>2. QED
      BY <1>1, <2>1
  <1> HIDE DEF key
  <1>3. CASE key = "cmd_timeout" /\ r.raw >= Word
    <2>1. TableValue(r, key) = r.raw % Word
      BY <1>3 DEF TableValue
    <2>2. QED
      BY <1>2, <1>3, <2>1 DEF Decoded, key
  <1>4. CASE ~(key = "cmd_timeout" /\ r.raw >= Word)
    <2>1. TableValue(r, key) = DecodedRaw(r)
      BY <1>1, <1>4 DEF TableValue
    <2>2. Decoded(r) = r.raw
      BY <1>2, <1>4 DEF Decoded
    <2>3. QED
      BY <2>1, <2>2 DEF DecodedRaw, key
  <1>5. QED
    BY <1>3, <1>4

\* What a reason is a reading of.
LEMMA ReasonsAreReadings ==
  ASSUME NEW d, NEW ls, DOMAIN d.rows \subseteq Nat, NEW j \in Evaluate(d, ls).reasons
  PROVE  \/ j.label = Failed /\ d.passed = FALSE
         \/ /\ d.nvme # None /\ j.gap = FALSE
            /\ \/ j.label = CriticalWarning /\ j.value = d.nvme.cw
               \/ j.label = MediaErrors /\ j.value = d.nvme.media /\ d.nvme.media # None
               \/ /\ j.label \in {SpareWarn, OwnSpare} /\ j.value = d.nvme.spare
                  /\ d.nvme.spare # None
               \/ j.label = Wear /\ j.value = d.nvme.used
         \/ /\ d.nvme = None /\ j.gap = FALSE
            /\ \E r \in Range(d.rows) : LabelOf(r) = j.label /\ j.value = Decoded(r)
            /\ j.label \in AtaLabels
         \/ d.nvme = None /\ j \in WearReading(d)
         \/ d.nvme = None /\ j \in GapReadings(d)
  <1>1. j \in OwnReasons(d) \/ j \in Readings(d, ls)
    BY DEF Evaluate
  <1>2. CASE j \in OwnReasons(d)
    BY <1>2 DEF OwnReasons, Reading
  <1>3. CASE j \in Readings(d, ls) /\ d.nvme # None
    <2>1. \/ \E m \in {d.nvme.media} \ {None} : j = Reading(MediaErrors, m, FALSE)
          \/ j = Reading(Wear, d.nvme.used, FALSE)
          \/ d.nvme.spare # None /\ j = Reading(SpareWarn, d.nvme.spare, FALSE)
      BY <1>3 DEF Readings, NvmeReadings
    <2>2. QED
      BY <1>3, <2>1 DEF Reading
  <1>4. CASE j \in Readings(d, ls) /\ d.nvme = None
    <2>1. \/ \E l \in AtaLabels : /\ Judged(d, ls, l) # None
                                  /\ j = Reading(l, Decoded(Judged(d, ls, l)), FALSE)
          \/ j \in WearReading(d)
          \/ j \in GapReadings(d)
      BY <1>4 DEF Readings, AtaReadings, RowReadings
    <2>2. ASSUME NEW l \in AtaLabels, Judged(d, ls, l) # None,
                 j = Reading(l, Decoded(Judged(d, ls, l)), FALSE)
          PROVE  /\ j.gap = FALSE /\ j.label \in AtaLabels
                 /\ \E r \in Range(d.rows) : LabelOf(r) = j.label /\ j.value = Decoded(r)
      <3>1. j.label = l /\ j.value = Decoded(Judged(d, ls, l)) /\ j.gap = FALSE
        BY <2>2 DEF Reading
      <3>2. Judged(d, ls, l) \in Range(d.rows) /\ LabelOf(Judged(d, ls, l)) = l
        BY <2>2, FirstRowsAreRows
      <3>3. QED
        BY <3>1, <3>2
    <2>3. QED
      BY <1>4, <2>1, <2>2
  <1>5. QED
    BY <1>1, <1>2, <1>3, <1>4

LEMMA GapLabelsAreAta ==
  ASSUME NEW d, NEW g \in GapReadings(d)
  PROVE  g.label \in AtaLabels
  <1>1. /\ CriticalAta["Reported_Uncorrect"] = "Reported Uncorrectable Errors"
        /\ CriticalAta["Reallocated_Sector_Ct"] = "Reallocated Sector Count"
        /\ {"Reported_Uncorrect", "Reallocated_Sector_Ct"} \subseteq DOMAIN CriticalAta
    BY DEF CriticalAta
  <1>2. QED
    BY <1>1, GapLabels DEF AtaLabels, Range

LEMMA GapKeys ==
  ASSUME NEW d, NEW g \in GapReadings(d), NEW h \in GapReadings(d),
         RowKey(g.label) = RowKey(h.label)
  PROVE  g.value = h.value
  <1>1. /\ LabelOf([name |-> "Reported_Uncorrect"]) = "Reported Uncorrectable Errors"
        /\ LabelOf([name |-> "Reallocated_Sector_Ct"]) = "Reallocated Sector Count"
    BY DEF LabelOf, CriticalAta
  <1>2. None \notin {"Reported Uncorrectable Errors", "Reallocated Sector Count"}
    <2>1. /\ CriticalAta["Reported_Uncorrect"] = "Reported Uncorrectable Errors"
          /\ CriticalAta["Reallocated_Sector_Ct"] = "Reallocated Sector Count"
          /\ {"Reported_Uncorrect", "Reallocated_Sector_Ct"} \subseteq DOMAIN CriticalAta
      BY DEF CriticalAta
    <2>2. QED
      BY <2>1, NoneIsNoLabel DEF AtaLabels, Range
  <1>3. /\ {"reported_unc", "reallocated"} \subseteq DOMAIN RowNames
        /\ "Reported_Uncorrect" \in RowNames["reported_unc"]
        /\ "Reallocated_Sector_Ct" \in RowNames["reallocated"]
    BY DEF RowNames
  <1>4. RowKey("Reported Uncorrectable Errors") = "reported_unc"
    <2> DEFINE r == [name |-> "Reported_Uncorrect"]
    <2>1. r.name = "Reported_Uncorrect" /\ LabelOf(r) = "Reported Uncorrectable Errors"
      BY <1>1
    <2> HIDE DEF r
    <2>2. \A key \in DOMAIN RowNames : r.name \in RowNames[key] => key = RowKey(LabelOf(r))
      BY <1>2, <2>1, KeysOfRows
    <2>3. QED
      BY <1>3, <2>1, <2>2
  <1>5. RowKey("Reallocated Sector Count") = "reallocated"
    <2> DEFINE r == [name |-> "Reallocated_Sector_Ct"]
    <2>1. r.name = "Reallocated_Sector_Ct" /\ LabelOf(r) = "Reallocated Sector Count"
      BY <1>1
    <2> HIDE DEF r
    <2>2. \A key \in DOMAIN RowNames : r.name \in RowNames[key] => key = RowKey(LabelOf(r))
      BY <1>2, <2>1, KeysOfRows
    <2>3. QED
      BY <1>3, <2>1, <2>2
  <1>6. RowKey(Wear) = "wear"
    BY DEF RowKey, Wear, MediaErrors, SpareWarn, OwnSpare, CriticalWarning
  <1>7. g.label = h.label
    BY <1>4, <1>5, <1>6, GapLabels
  <1>8. QED
    BY <1>7, GapValues

LEMMA MarkedRow ==
  ASSUME NEW d, NEW ls, NEW j \in Marking(d, ls)
  PROVE  LET rows == DataRows(d)
             at == RowAt(j)
             m == MarkedRows(d, ls)[at]
         IN  /\ at \in DOMAIN MarkedRows(d, ls)
             /\ m.mark \in {"crit", Mark(j.label)}
             /\ at \in DOMAIN rows => m.value = rows[at].value
             /\ at \notin DOMAIN rows =>
                   \E i \in Marking(d, ls) : RowAt(i) = at /\ m.value = i.value
  <1> DEFINE rows == DataRows(d)
             at == RowAt(j)
             Why(x) == {i \in Marking(d, ls) : RowAt(i) = x}
             one == CHOOSE i \in Why(at) : TRUE
             row == IF at \in DOMAIN rows THEN rows[at] ELSE Shows(one.value)
  <1>1. /\ at \in DOMAIN MarkedRows(d, ls)
        /\ MarkedRows(d, ls)[at] = Marked(row, Why(at))
    <2> DEFINE R(x) == Marked(IF x \in DOMAIN rows THEN rows[x]
                              ELSE Shows((CHOOSE i \in Why(x) : TRUE).value), Why(x))
               dom == DOMAIN rows \cup {RowAt(i) : i \in Marking(d, ls)}
    <2>1. MarkedRows(d, ls) = [x \in dom |-> R(x)]
      BY DEF MarkedRows
    <2>2. at \in dom
      OBVIOUS
    <2>3. R(at) = Marked(row, Why(at))
      OBVIOUS
    <2> HIDE DEF R, dom
    <2>4. QED
      BY <2>1, <2>2, <2>3
  <1>2. j \in Why(at) /\ one \in Why(at)
    OBVIOUS
  <1>3. row = NotKnown \/ \E v : row = Shows(v)
    <2>1. \A x \in DOMAIN rows : rows[x] = NotKnown \/ \E v : rows[x] = Shows(v)
      <3>1. rows = NvmeRows(d) \/ rows = AtaRows(d) \/ rows = NoRows
        BY DEF DataRows
      <3> HIDE DEF rows
      <3>2. CASE rows = NvmeRows(d)
        <4>1. \A x \in DOMAIN NvmeRows(d) :
                 NvmeRows(d)[x] = NotKnown \/ \E v : NvmeRows(d)[x] = Shows(v)
          BY NvmeRowsShow
        <4>2. QED
          BY <3>2, <4>1
      <3>3. CASE rows = AtaRows(d)
        <4>1. \A x \in DOMAIN AtaRows(d) :
                 AtaRows(d)[x] = NotKnown \/ \E v : AtaRows(d)[x] = Shows(v)
          BY AtaRowsShow
        <4>2. QED
          BY <3>3, <4>1
      <3>4. CASE rows = NoRows
        BY <3>4 DEF NoRows
      <3>5. QED
        BY <3>1, <3>2, <3>3, <3>4
    <2>2. QED
      BY <2>1
  <1> HIDE DEF row, one, Why, at
  <1>4. Marked(row, Why(at)).value = row.value
    BY <1>2, <1>3 DEF Marked, Shows, NotKnown
  <1>5. Marked(row, Why(at)).mark \in {"crit", Mark(j.label)}
    <2>1. Marked(row, Why(at)).mark =
            IF \E i \in Why(at) : Mark(i.label) = "crit" THEN "crit" ELSE "warn"
      BY <1>2, <1>3 DEF Marked, Shows, NotKnown
    <2>2. Mark(j.label) \in {"crit", "warn"}
      BY DEF Mark
    <2>3. QED
      BY <1>2, <2>1, <2>2
  <1>6. at \notin DOMAIN rows => row.value = one.value
    BY DEF row, Shows
  <1>7. one \in Marking(d, ls) /\ RowAt(one) = at
    BY <1>2 DEF Why
  <1>8. QED
    BY <1>1, <1>4, <1>5, <1>6, <1>7 DEF row, at

\* The card's value of a reading of the table is the reason's.
LEMMA CardAgreesWithTable ==
  ASSUME NEW d, d.nvme = None, DOMAIN d.rows \subseteq Nat, \A x \in Range(d.rows) : x # None,
         NEW j, j.gap = FALSE, j.label \in AtaLabels,
         \/ \E r \in Range(d.rows) : LabelOf(r) = j.label /\ j.value = Decoded(r)
         \/ j \in WearReading(d)
  PROVE  /\ RowAt(j) \in DOMAIN DataRows(d)
         /\ \/ DataRows(d)[RowAt(j)].value = j.value
            \/ ReadOtherwise(d, j)
            \/ SharesRow(d, j.label)
  <1> DEFINE key == RowKey(j.label)
             row == TableRow(d, key)
  <1>1. Range(d.rows) # {} => DataRows(d) = AtaRows(d)
    <2>1. Range(<<>>) = {}
      BY DEF Range
    <2>2. QED
      BY <2>1 DEF DataRows, CardProtocol
  <1>2. RowAt(j) = <<key, FALSE>>
    BY DEF RowAt
  <1>3. ASSUME NEW r \in Range(d.rows), LabelOf(r) = j.label, j.value = Decoded(r)
        PROVE  /\ RowAt(j) \in DOMAIN DataRows(d)
               /\ \/ DataRows(d)[RowAt(j)].value = j.value
                  \/ ReadOtherwise(d, j)
                  \/ SharesRow(d, j.label)
    <2>1. LabelOf(r) # None
      BY <1>3, NoneIsNoLabel
    <2>2. key \in DOMAIN RowNames /\ row # None /\ (row = r \/ SharesRow(d, j.label))
      BY <1>3, <2>1, CardFindsRow, KeysOfRows
    <2>3. /\ <<key, FALSE>> \in DOMAIN AtaRows(d)
          /\ AtaRows(d)[<<key, FALSE>>].value = TableValue(row, key)
      <3> HIDE DEF key
      <3>1. QED
        BY <2>2, TableRowsShow
    <2>4. TableValue(r, key) = Decoded(r) \/ (r.raw >= Word /\ r.str # None)
      BY <1>3, <2>1, CardReadsRow
    <2> HIDE DEF key, row
    <2>5. QED
      BY <1>1, <1>2, <1>3, <2>2, <2>3, <2>4 DEF ReadOtherwise
  <1>4. ASSUME j \in WearReading(d)
        PROVE  /\ RowAt(j) \in DOMAIN DataRows(d)
               /\ DataRows(d)[RowAt(j)].value = j.value \/ ReadOtherwise(d, j)
    <2>1. /\ j.label = Wear /\ WearRow(d) # None
          /\ j.value = AtaWearUsed(d, WearRow(d))
      BY <1>4 DEF WearReading, Reading
    <2>2. key = "wear"
      BY <2>1 DEF RowKey, Wear, MediaErrors, SpareWarn, OwnSpare, CriticalWarning
    <2>3. row = WearRow(d)
      BY <2>2 DEF TableRow
    <2>4. /\ <<key, FALSE>> \in DOMAIN AtaRows(d)
          /\ AtaRows(d)[<<key, FALSE>>].value = TableValue(row, key)
      <3> HIDE DEF key
      <3>1. QED
        BY <2>1, <2>2, <2>3, TableRowsShow
    <2>5. TableValue(row, key) = j.value \/ CountsUp(d, WearRow(d))
      BY <2>1, <2>2, <2>3 DEF TableValue, AtaWearUsed
    <2>6. WearRow(d) \in Range(d.rows)
      BY <2>1, FirstRowsAreRows
    <2> HIDE DEF key, row
    <2>7. QED
      BY <1>1, <1>2, <2>1, <2>4, <2>5, <2>6 DEF ReadOtherwise
  <1>5. QED
    BY <1>3, <1>4

LEMMA CardAgreesWithLog ==
  ASSUME NEW d, d.nvme # None, NEW j, j.gap = FALSE,
         \/ j.label = CriticalWarning /\ j.value = d.nvme.cw
         \/ j.label = MediaErrors /\ j.value = d.nvme.media /\ d.nvme.media # None
         \/ j.label \in {SpareWarn, OwnSpare} /\ j.value = d.nvme.spare /\ d.nvme.spare # None
         \/ j.label = Wear /\ j.value = d.nvme.used
  PROVE  RowAt(j) \in DOMAIN DataRows(d) /\ DataRows(d)[RowAt(j)].value = j.value
  <1>1. DataRows(d) = NvmeRows(d)
    <2>1. CardProtocol(d) # "ata"
      BY DEF CardProtocol
    <2>2. QED
      BY <2>1 DEF DataRows
  <1>2. /\ RowKey(CriticalWarning) = "critical_warning" /\ RowKey(MediaErrors) = "media_errors"
        /\ RowKey(SpareWarn) = "available_spare" /\ RowKey(OwnSpare) = "available_spare"
        /\ RowKey(Wear) = "wear"
    BY DEF RowKey, Wear, MediaErrors, SpareWarn, OwnSpare, CriticalWarning
  <1>3. /\ {<<"critical_warning", FALSE>>, <<"media_errors", FALSE>>, <<"wear", FALSE>>}
              \subseteq DOMAIN NvmeRows(d)
        /\ NvmeRows(d)[<<"critical_warning", FALSE>>] = Shows(d.nvme.cw)
        /\ d.nvme.media # None => NvmeRows(d)[<<"media_errors", FALSE>>] = Shows(d.nvme.media)
        /\ NvmeRows(d)[<<"wear", FALSE>>] = Shows(d.nvme.used)
        /\ d.nvme.spare # None =>
              /\ <<"available_spare", FALSE>> \in DOMAIN NvmeRows(d)
              /\ NvmeRows(d)[<<"available_spare", FALSE>>] = Shows(d.nvme.spare)
    BY NvmeRowsShow
  <1>4. \A v : Shows(v).value = v
    BY DEF Shows
  <1>5. RowAt(j) = <<RowKey(j.label), FALSE>>
    BY DEF RowAt
  <1>6. CASE j.label = CriticalWarning /\ j.value = d.nvme.cw
    <2>1. RowAt(j) = <<"critical_warning", FALSE>>
      BY <1>2, <1>5, <1>6
    <2>2. QED
      BY <1>1, <1>3, <1>4, <1>6, <2>1
  <1>7. CASE j.label = MediaErrors /\ j.value = d.nvme.media /\ d.nvme.media # None
    <2>1. RowAt(j) = <<"media_errors", FALSE>>
      BY <1>2, <1>5, <1>7
    <2>2. QED
      BY <1>1, <1>3, <1>4, <1>7, <2>1
  <1>8. CASE /\ j.label \in {SpareWarn, OwnSpare}
             /\ j.value = d.nvme.spare /\ d.nvme.spare # None
    <2>1. RowAt(j) = <<"available_spare", FALSE>>
      BY <1>2, <1>5, <1>8
    <2>2. QED
      BY <1>1, <1>3, <1>4, <1>8, <2>1
  <1>9. CASE j.label = Wear /\ j.value = d.nvme.used
    <2>1. RowAt(j) = <<"wear", FALSE>>
      BY <1>2, <1>5, <1>9
    <2>2. QED
      BY <1>1, <1>3, <1>4, <1>9, <2>1
  <1>10. QED
    BY <1>6, <1>7, <1>8, <1>9

LEMMA CardAgreesWithGap ==
  ASSUME NEW d, NEW j \in GapReadings(d), RowAt(j) \in DOMAIN DataRows(d)
  PROVE  DataRows(d)[RowAt(j)].value = j.value
  <1>1. j.gap = TRUE
    BY GapLabels
  <1>2. RowAt(j) = <<RowKey(j.label), TRUE>>
    BY <1>1 DEF RowAt
  <1>3. CASE DataRows(d) = AtaRows(d)
    <2>1. PICK h \in GapReadings(d) : /\ RowKey(h.label) = RowKey(j.label)
                                      /\ AtaRows(d)[<<RowKey(j.label), TRUE>>] = Shows(h.value)
      BY AtaRowsShow
    <2>2. h.value = j.value
      BY <2>1, GapKeys
    <2>3. QED
      BY <1>2, <1>3, <2>1, <2>2 DEF Shows
  <1>4. CASE DataRows(d) = NvmeRows(d)
    <2>1. \A x \in DOMAIN NvmeRows(d) : x[2] = FALSE
      BY DEF NvmeRows
    <2>2. RowAt(j)[2] = TRUE
      BY <1>2
    <2>3. QED
      BY <1>4, <2>1, <2>2
  <1>5. CASE DataRows(d) = NoRows
    BY <1>5 DEF NoRows
  <1>6. QED
    BY <1>3, <1>4, <1>5 DEF DataRows

\* Only what the statistics say is marked as theirs.
LEMMA MarkingGaps ==
  ASSUME NEW d, NEW ls, DOMAIN d.rows \subseteq Nat, NEW j \in Evaluate(d, ls).reasons,
         j.label # Failed, j.gap # FALSE
  PROVE  j \in GapReadings(d)
  <1>1. \A x \in WearReading(d) : x.gap = FALSE
    BY DEF WearReading, Reading
  <1>2. QED
    BY <1>1, ReasonsAreReadings

LEMMA CardAgrees ==
  ASSUME NEW d, NEW ls, DOMAIN d.rows \subseteq Nat, \A x \in Range(d.rows) : x # None,
         NEW j \in Evaluate(d, ls).reasons, j.label # Failed, j.gap = FALSE
  PROVE  /\ RowAt(j) \in DOMAIN DataRows(d)
         /\ \/ DataRows(d)[RowAt(j)].value = j.value
            \/ ReadOtherwise(d, j)
            \/ SharesRow(d, j.label)
  <1>1. j \notin GapReadings(d)
    BY GapLabels
  <1>2. CASE d.nvme # None
    BY <1>2, ReasonsAreReadings, CardAgreesWithLog
  <1>3. CASE d.nvme = None
    <2>1. \A x \in WearReading(d) : x.label \in AtaLabels
      BY DEF WearReading, Reading, AtaLabels
    <2>2. /\ j.label \in AtaLabels
          /\ \/ \E r \in Range(d.rows) : LabelOf(r) = j.label /\ j.value = Decoded(r)
             \/ j \in WearReading(d)
      BY <1>1, <1>3, <2>1, ReasonsAreReadings
    <2>3. QED
      BY <1>3, <2>2, CardAgreesWithTable
  <1>4. QED
    BY <1>2, <1>3

\* Whatever a drive sends and whatever its limits are, its card shows every reason
\* (drive_view, classify_reason).
THEOREM ReasonsReachTheCard == Spec => []ReasonsAreOnTheCard
  <1>1. IInv => ReasonsAreOnTheCard
    <2> SUFFICES ASSUME IInv, Seen, data.readable, NEW j \in Evaluate(data, limits).reasons
                 PROVE  OnCard(Card(data, limits), data, j)
      BY DEF ReasonsAreOnTheCard
    <2> DEFINE card == Card(data, limits)
               rows == DataRows(data)
               at == RowAt(j)
               m == MarkedRows(data, limits)[at]
               Agrees(v) == \/ v = j.value
                            \/ ReadOtherwise(data, j)
                            \/ ~j.gap /\ SharesRow(data, j.label)
    <2>0. /\ DOMAIN data.rows \subseteq Nat
          /\ \A r \in Range(data.rows) : r # None
      BY DEF IInv, RowsOK
    <2>1. Usable(data)
      BY DEF Evaluate
    <2>2. /\ card.failed = (data.passed = FALSE)
          /\ card.rows = MarkedRows(data, limits)
      BY <2>1 DEF Card
    <2>3. CASE j.label = Failed
      <3>1. Failed \notin AtaLabels \cup NvmeLabels \cup {CriticalWarning, OwnSpare, Wear}
        BY Tables DEF AtaLabels, NvmeLabels, Failed, CriticalWarning, OwnSpare, Wear, MediaErrors,
                      SpareWarn
      <3>2. data.passed = FALSE
        <4>1. \A x \in WearReading(data) : x.label = Wear
          BY DEF WearReading, Reading
        <4>2. \A x \in GapReadings(data) : x.label \in AtaLabels
          BY GapLabelsAreAta
        <4>3. {MediaErrors, SpareWarn} \subseteq NvmeLabels
          BY DEF NvmeLabels
        <4>4. QED
          BY <2>0, <2>3, <3>1, <4>1, <4>2, <4>3, ReasonsAreReadings
      <3>3. QED
        BY <2>2, <2>3, <3>2 DEF OnCard
    <2>4. CASE j.label # Failed
      <3>1. j \in Marking(data, limits)
        BY <2>4 DEF Marking
      <3>2. /\ at \in DOMAIN card.rows /\ card.rows[at] = m
            /\ m.mark \in {"crit", Mark(j.label)}
            /\ at \in DOMAIN rows => m.value = rows[at].value
            /\ at \notin DOMAIN rows =>
                  \E i \in Marking(data, limits) : RowAt(i) = at /\ m.value = i.value
        BY <2>2, <3>1, MarkedRow
      <3>3. Agrees(m.value)
        <4>1. CASE j.gap = FALSE
          <5>1. at \in DOMAIN rows /\ Agrees(rows[at].value)
            BY <2>0, <2>4, <4>1, CardAgrees
          <5>2. QED
            BY <3>2, <5>1
        <4>2. CASE j.gap # FALSE
          <5>1. j \in GapReadings(data)
            BY <2>0, <2>4, <4>2, MarkingGaps
          <5>2. CASE at \in DOMAIN rows
            BY <2>0, <3>2, <5>1, <5>2, CardAgreesWithGap
          <5>3. CASE at \notin DOMAIN rows
            <6>1. PICK i \in Marking(data, limits) : RowAt(i) = at /\ m.value = i.value
              BY <3>2, <5>3
            <6>2. RowKey(i.label) = RowKey(j.label) /\ i.gap = j.gap
              BY <6>1 DEF RowAt
            <6>3. i \in GapReadings(data)
              BY <2>0, <4>2, <6>2, MarkingGaps DEF Marking
            <6>4. i.value = j.value
              BY <5>1, <6>2, <6>3, GapKeys
            <6>5. QED
              BY <6>1, <6>4
          <5>4. QED
            BY <5>2, <5>3
        <4>3. QED
          BY <4>1, <4>2
      <3> HIDE DEF m, at, rows
      <3>4. QED
        BY <2>4, <3>2, <3>3 DEF at, OnCard
    <2>5. QED
      BY <2>3, <2>4
  <1>2. QED
    BY <1>1, Invariant, PTL

-------------------------------------------------------------------------------
(* Every row of the table. *)

\* A row that a curated sensor reads has a value there, or the reason why not.
LEMMA ReadRowHasValue ==
  ASSUME NEW d, d.nvme = None, NEW key \in DOMAIN AtaNames, RowOf(d, key) # None,
         RowOf(d, key).raw \in Nat, RowOf(d, key).value \in Nat
  PROVE  Extract(d, key) = None => key = "wear_leveling_count" /\ WearNote(d)
  <1> DEFINE r == RowOf(d, key)
  <1>1. key # "smart_status"
    BY DEF AtaNames
  <1>2. Extract(d, key) = RowValue(d, key, r)
    BY <1>1 DEF Extract
  <1> HIDE DEF r
  <1>3. CASE key = "wear_leveling_count"
    <2>1. RowValue(d, key, r) = AtaWearUsed(d, r)
      BY <1>3 DEF RowValue
    <2>2. r = WearRow(d) /\ r # None
      BY <1>3, SameWearRow DEF r
    <2> SUFFICES ASSUME AtaWearUsed(d, r) = None PROVE WearNote(d)
      BY <1>2, <1>3, <2>1
    <2>3. r.value \in Nat
      BY DEF r
    <2>4. CountsUp(d, r)
      <3> SUFFICES ASSUME ~CountsUp(d, r) PROVE FALSE
        OBVIOUS
      <3>1. AtaWearUsed(d, r) = IF r.value <= 100 THEN 100 - r.value ELSE 0
        BY DEF AtaWearUsed
      <3>2. AtaWearUsed(d, r) \in Nat
        BY <2>3, <3>1
      <3>3. QED
        BY <3>2, NoneIsApart
    <2>5. (d.eff # None /\ d.eff.wear # None) \/ Implausible(d, r.value)
      <3> SUFFICES ASSUME ~(d.eff # None /\ d.eff.wear # None), ~Implausible(d, r.value)
                   PROVE  FALSE
        OBVIOUS
      <3>1. AtaWearUsed(d, r) = r.value
        BY <2>4 DEF AtaWearUsed
      <3>2. QED
        BY <2>3, <3>1, NoneIsApart
    <2>6. QED
      BY <2>2, <2>4, <2>5 DEF WearNote
  <1>4. CASE key # "wear_leveling_count"
    <2>1. \/ RowValue(d, key, r) = Unpacked(r, Word)
          \/ RowValue(d, key, r) = Unpacked(r, HoursWord)
          \/ RowValue(d, key, r) = Decoded(r)
          \/ RowValue(d, key, r) = DecodedRaw(r)
      BY <1>4 DEF RowValue
    <2>2. r.raw \in Nat /\ r.raw % Word \in Nat /\ r.raw % HoursWord \in Nat
      BY WordsAreNat DEF r
    <2>3. RowValue(d, key, r) # None
      BY <2>1, <2>2, NoneIsApart DEF Unpacked, Decoded, DecodedRaw
    <2>4. QED
      BY <1>2, <2>3
  <1>5. QED
    BY <1>3, <1>4

LEMMA ReadRowHasSensor ==
  ASSUME NEW d, d.nvme = None, d.readable, NEW c, c.ata, NEW key \in DOMAIN AtaNames,
         RowOf(d, key) # None, RowOf(d, key).raw \in Nat, RowOf(d, key).value \in Nat
  PROVE  <<"attribute", key>> \in DriveSpecs(d, c)
  <1>1. key \in SensorKeys /\ key \notin NvmeOnly
    BY DEF SensorKeys, NvmeOnly, AtaNames
  <1>2. key \in Curated(d, c)
    BY <1>1, ReadRowHasValue DEF Curated
  <1>3. QED
    BY <1>2 DEF DriveSpecs

\* The sensor of an id shows the row, when it is the only one of its id.
LEMMA DiagnosticShows ==
  ASSUME NEW d, DOMAIN d.rows \subseteq Nat, NEW r \in Range(d.rows), r # None,
         \A x \in Range(d.rows) : x.id = r.id => x = r
  PROVE  DiagnosticValue(d, r.id) = DecodedRaw(r)
  <1> DEFINE those == {i \in DOMAIN d.rows : d.rows[i].id = r.id}
             row == FirstRow(d.rows, LAMBDA x : x.id = r.id)
  <1>1. row = IF those = {} THEN None ELSE d.rows[CHOOSE i \in those : \A k \in those : i <= k]
    BY DEF FirstRow
  <1>2. \E k \in those : \A n \in those : k <= n
    <2>1. those # {} /\ those \subseteq Nat
      BY DEF Range
    <2> HIDE DEF those
    <2>2. QED
      BY <2>1, LeastExists
  <1>3. PICK k \in those : row = d.rows[k]
    <2> HIDE DEF row
    <2>1. QED
      BY <1>1, <1>2
  <1>4. row = r
    <2>1. d.rows[k] \in Range(d.rows) /\ d.rows[k].id = r.id
      BY DEF Range
    <2> HIDE DEF row, those
    <2>2. QED
      BY <1>3, <2>1
  <1>5. DiagnosticValue(d, r.id) = IF row = None THEN None ELSE DecodedRaw(row)
    BY DEF DiagnosticValue
  <1> HIDE DEF row
  <1>6. QED
    BY <1>4, <1>5

\* No named row of an ATA drive's table falls between the curated sensors and the
\* others (_covered_rows, drive_entity_specs), whatever the drive sends.
THEOREM EveryRowShown == Spec => []EveryRowIsShown
  <1>1. IInv => EveryRowIsShown
    <2> SUFFICES ASSUME IInv, Seen, data.readable, class.ata,
                        NEW r \in Range(data.rows), r.name # None,
                        \A x \in Range(data.rows) : x.id = r.id => x = r
                 PROVE  \/ /\ <<"diagnostic", r.id>> \in created
                           /\ DiagnosticValue(data, r.id) = DecodedRaw(r)
                        \/ \E key \in DOMAIN AtaNames :
                              <<"attribute", key>> \in created /\ RowOf(data, key) = r
      BY DEF EveryRowIsShown
    <2>0. /\ DOMAIN data.rows \subseteq Nat /\ data.rows # <<>>
          /\ r # None /\ r.raw \in Nat /\ r.value \in Nat
          /\ data.nvme = None
      BY DEF IInv, RowsOK, Range
    <2>1. DriveSpecs(data, class) \subseteq created
      BY DEF IInv, PlanCreated
    <2>2. CASE r \in Covered(data)
      <3>1. PICK key \in DOMAIN AtaNames : RowOf(data, key) = r
        BY <2>2 DEF Covered
      <3>2. <<"attribute", key>> \in created
        BY <2>0, <2>1, <3>1, ReadRowHasSensor
      <3>3. QED
        BY <3>1, <3>2
    <2>3. CASE r \notin Covered(data)
      <3>1. r.id \in Diagnostics(data, class)
        BY <2>3 DEF Diagnostics
      <3>2. <<"diagnostic", r.id>> \in created
        BY <2>1, <3>1 DEF DriveSpecs
      <3>3. QED
        BY <2>0, <3>2, DiagnosticShows
    <2>4. QED
      BY <2>2, <2>3
  <1>2. QED
    BY <1>1, Invariant, PTL
=============================================================================
