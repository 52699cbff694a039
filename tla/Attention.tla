------------------------------ MODULE Attention ------------------------------
(* What Home Assistant makes of one drive's payload: its readings, which of  *)
(* them need attention under the user's limits, what each sensor shows and   *)
(* which sensors there are (attention.py, extract.py, devstat.py,            *)
(* entity_plan.py, binary_sensor.py). A judgement keeps the label, the value *)
(* and whether Device Statistics gave it; its wording is left out.           *)
EXTENDS Volumes

CONSTANTS
    Word,           \* a 16-bit word holds 0 .. Word - 1
    HoursWord,      \* the 32 bits of a packed Power_On_Hours
    MaxHours,       \* above it, hours are packed
    MaxTemperature, \* above it, a temperature is packed
    PECycles        \* the program/erase cycles a WD drive is assumed to have

ASSUME NoneIsApart == None \notin BOOLEAN /\ None \notin Nat
ASSUME WordsAreNat == {Word, HoursWord, MaxHours, MaxTemperature, PECycles} \subseteq Nat \ {0}

(***************************************************************************)
(* A payload. Its table `rows` is a sequence of [id, name, value, dead,    *)
(* raw, str]: the normalized value, whether value, worst, threshold and    *)
(* flags are all zero, the raw value and the number its decoded text       *)
(* starts with. `nvme` is the NVMe health log [cw, media, spare, limit,    *)
(* used, units] (media is None when it is unreadable), `passed` the        *)
(* drive's verdict, `wd` its family, `ds` the agent's Device Statistics    *)
(* [status, unc, realloc, wear, lbs, written] and `eff` those merged with  *)
(* what was held. Unusable SMART data is the payload that has none.        *)
(***************************************************************************)

CriticalAta_NoPending ==
    [ Reallocated_Sector_Ct   |-> "Reallocated Sector Count",
      Retired_Block_Count     |-> "Reallocated Sector Count",
      Offline_Uncorrectable   |-> "Offline Uncorrectable Errors",
      Reported_Uncorrect      |-> "Reported Uncorrectable Errors",
      Uncorrectable_Error_Cnt |-> "Uncorrectable Error Count",
      Total_Offl_Uncorrectabl |-> "Total Offline Uncorrectable" ]
CriticalAta ==
    [ Reallocated_Sector_Ct     |-> "Reallocated Sector Count",
      Retired_Block_Count       |-> "Reallocated Sector Count",
      Current_Pending_Sector    |-> "Current Pending Sector Count",
      Current_Pending_Sector_Ct |-> "Current Pending Sector Count",
      Total_Pending_Sectors     |-> "Current Pending Sector Count",
      Offline_Uncorrectable     |-> "Offline Uncorrectable Errors",
      Reported_Uncorrect        |-> "Reported Uncorrectable Errors",
      Uncorrectable_Error_Cnt   |-> "Uncorrectable Error Count",
      Total_Offl_Uncorrectabl   |-> "Total Offline Uncorrectable" ]

WarningAta ==
    [ Reallocated_Event_Count |-> "Reallocated Event Count",
      Spin_Retry_Count        |-> "Spin Retry Count",
      Command_Timeout         |-> "Command Timeout" ]

WearNames ==
    { "Wear_Leveling_Count", "Media_Wearout_Indicator", "SSD_Life_Left",
      "Remaining_Lifetime_Perc", "Percent_Lifetime_Remain",
      "Perc_Rated_Life_Remain", "Percent_Life_Remaining" }

Wear == "SSD Wear Percent Used"
MediaErrors == "NVMe Media Errors"
SpareWarn == "NVMe Spare Warn Below"
Failed == "SMART overall status"
CriticalWarning == "NVMe critical warning"
OwnSpare == "NVMe available spare below drive threshold"
NeverConfigurable == {Failed, CriticalWarning, OwnSpare}

AtaLabels == Range(CriticalAta) \cup Range(WarningAta) \cup {Wear}
NvmeLabels == {MediaErrors, SpareWarn, Wear}
Warnings == Range(WarningAta) \cup {Wear, SpareWarn}

ASSUME NoneIsNoLabel == None \notin AtaLabels \cup NvmeLabels

LabelsFor(d) == IF d.nvme # None THEN NvmeLabels ELSE AtaLabels

LabelOf(r) ==
    IF r.name \in DOMAIN CriticalAta THEN CriticalAta[r.name]
    ELSE IF r.name \in DOMAIN WarningAta THEN WarningAta[r.name]
    ELSE None

(***************************************************************************)
(* Limits: the user's, where there is one, in place of the default.        *)
(***************************************************************************)

Default(label) ==
    CASE label = "Command Timeout" -> 100
      [] label = Wear -> 90
      [] label = SpareWarn -> 20
      [] OTHER -> 0

Trips_SpareToo(label, value, limit) ==
    IF label \in {Wear, SpareWarn} THEN value >= limit ELSE value > limit
Trips(label, value, limit) ==
    CASE label = Wear -> value >= limit
      [] label = SpareWarn -> value < limit
      [] OTHER -> value > limit

Limit(limits, label) ==
    IF label \in DOMAIN limits THEN limits[label] ELSE Default(label)

Breached(limits, j) == Trips(j.label, j.value, Limit(limits, j.label))

\* What only the user's limit keeps from being a reason.
Accepted(limits, j) ==
    /\ j.label \in DOMAIN limits
    /\ ~Breached(limits, j)
    /\ Trips(j.label, j.value, Default(j.label))

Noted(limits, j) == Breached(limits, j) \/ Accepted(limits, j)

Reading(label, value, gap) == [label |-> label, value |-> value, gap |-> gap]

(***************************************************************************)
(* Readings of the attribute table.                                        *)
(***************************************************************************)

\* The first row, in the drive's order, of those for which P holds, or None.
FirstRow(rows, P(_)) ==
    LET those == {i \in DOMAIN rows : P(rows[i])}
    IN IF those = {} THEN None ELSE rows[CHOOSE i \in those : \A k \in those : i <= k]

\* Command_Timeout is packed by some vendors, its count in the low word.
Decoded(r) ==
    IF r.name = "Command_Timeout" /\ r.raw >= Word THEN r.raw % Word ELSE r.raw

WearRow(d) == FirstRow(d.rows, LAMBDA r : r.name \in WearNames /\ ~r.dead)

AveragePE(d) ==
    LET row == FirstRow(d.rows, LAMBDA r : r.name = "Average_PE_Cycles_TLC")
    IN IF row = None THEN None ELSE row.raw

CountsUp(d, r) == d.wd /\ r.id = 230

\* The used life the program/erase cycles speak against.
Implausible(d, used) ==
    LET pe == AveragePE(d)
        implied == (pe * 100) \div PECycles
    IN /\ pe # None
       /\ \/ used < 10 /\ implied >= 50
          \/ used > 90 /\ implied < 10

AtaWearUsed(d, r) ==
    CASE ~CountsUp(d, r) -> IF r.value <= 100 THEN 100 - r.value ELSE 0
      [] CountsUp(d, r) /\ d.eff # None /\ d.eff.wear # None -> d.eff.wear
      [] OTHER -> IF Implausible(d, r.value) THEN None ELSE r.value

\* The note beside the wear reading: where it is from, or why it is unknown.
WearNote(d) ==
    LET r == WearRow(d)
    IN /\ r # None /\ CountsUp(d, r)
       /\ (d.eff # None /\ d.eff.wear # None) \/ Implausible(d, r.value)

\* The wear reading of the attribute table.
WearReading(d) ==
    IF WearRow(d) # None /\ AtaWearUsed(d, WearRow(d)) # None
    THEN {Reading(Wear, AtaWearUsed(d, WearRow(d)), FALSE)}
    ELSE {}

\* Device Statistics fill the gaps of the table: by the id of the row that
\* would say the same, not by its name.
GapReadings(d) ==
    LET ids == {r.id : r \in Range(d.rows)}
        found ==
            {<<CriticalAta["Reported_Uncorrect"], d.eff.unc>> : x \in {187} \ ids}
            \cup {<<CriticalAta["Reallocated_Sector_Ct"], d.eff.realloc>> : x \in {5} \ ids}
            \cup (IF WearRow(d) = None THEN {<<Wear, d.eff.wear>>} ELSE {})
    IN IF d.eff = None THEN {}
       ELSE {Reading(f[1], f[2], TRUE) : f \in {g \in found : g[2] # None}}

(***************************************************************************)
(* Attention.                                                              *)
(***************************************************************************)

Usable(d) == d.passed # None \/ d.rows # <<>> \/ d.nvme # None

\* What the drive says of itself: no limit is asked.
OwnReasons(d) ==
    (IF d.passed = FALSE THEN {Reading(Failed, 0, FALSE)} ELSE {})
    \cup (IF d.nvme # None /\ d.nvme.cw # 0
          THEN {Reading(CriticalWarning, d.nvme.cw, FALSE)} ELSE {})
    \cup (IF d.nvme # None /\ d.nvme.spare # None /\ d.nvme.limit # None
             /\ d.nvme.spare <= d.nvme.limit
          THEN {Reading(OwnSpare, d.nvme.spare, FALSE)} ELSE {})

\* The early warning about spare is for a drive that is above its own limit.
NvmeReadings(d) ==
    {Reading(MediaErrors, m, FALSE) : m \in {d.nvme.media} \ {None}}
    \cup {Reading(SpareWarn, s, FALSE) :
             s \in IF d.nvme.limit = None \/ OwnReasons(d) \cap {Reading(OwnSpare, d.nvme.spare, FALSE)} # {}
                   THEN {} ELSE {d.nvme.spare} \ {None}}
    \cup {Reading(Wear, d.nvme.used, FALSE)}

\* Of the rows of one label the first that is worth a note speaks for it.
Judged(d, limits, label) ==
    FirstRow(d.rows, LAMBDA r :
        /\ LabelOf(r) = label /\ r.raw > 0
        /\ Noted(limits, Reading(label, Decoded(r), FALSE)))

RowReadings(d, limits) ==
    {Reading(label, Decoded(Judged(d, limits, label)), FALSE) :
        label \in {l \in AtaLabels : Judged(d, limits, l) # None}}

\* A label the table had something to say on is not asked of the statistics.
AtaReadings(d, limits) ==
    LET table == RowReadings(d, limits) \cup {j \in WearReading(d) : Noted(limits, j)}
    IN table \cup {g \in GapReadings(d) : \A j \in table : j.label # g.label}

Readings(d, limits) ==
    IF d.nvme # None THEN NvmeReadings(d) ELSE AtaReadings(d, limits)

Evaluate_AllByLimit(d, limits) ==
    LET all == OwnReasons(d) \cup Readings(d, limits)
    IN IF ~Usable(d) THEN [reasons |-> {}, accepted |-> {}]
       ELSE [ reasons  |-> {j \in all : Breached(limits, j)},
              accepted |-> {j \in all : Accepted(limits, j)} ]
Evaluate(d, limits) ==
    IF ~Usable(d) THEN [reasons |-> {}, accepted |-> {}]
    ELSE [ reasons  |-> OwnReasons(d) \cup {j \in Readings(d, limits) : Breached(limits, j)},
           accepted |-> {j \in Readings(d, limits) : Accepted(limits, j)} ]

State(d, limits) ==
    LET reasons == Evaluate(d, limits).reasons
    IN CASE ~Usable(d) -> "UNSUPPORTED"
         [] Usable(d) /\ \E j \in reasons : j.label \notin Warnings -> "YES"
         [] Usable(d) /\ reasons # {} /\ \A j \in reasons : j.label \in Warnings -> "MAYBE"
         [] OTHER -> "NO"

\* The Health sensor has a table of its own and knows no limits.
HealthNames ==
    { "Reallocated_Sector_Ct", "Current_Pending_Sector", "Current_Pending_Sector_Ct",
      "Total_Pending_Sectors", "Reported_Uncorrect", "Offline_Uncorrectable",
      "Total_Offl_Uncorrectabl", "Uncorrectable_Error_Cnt", "Reallocated_Event_Count" }

Unhealthy(d) ==
    /\ Usable(d)
    /\ \/ d.passed = FALSE
       \/ d.nvme # None /\ d.nvme.cw # 0
       \/ d.nvme = None /\ \E r \in Range(d.rows) : r.name \in HealthNames /\ r.raw >= 1

(***************************************************************************)
(* The threshold form.                                                     *)
(***************************************************************************)

\* A row that reads zero counts here: the form shows it.
CurrentReadings(d) ==
    LET Row(label) == FirstRow(d.rows, LAMBDA r : LabelOf(r) = label)
        table == {Reading(label, Decoded(Row(label)), FALSE) :
                     label \in {l \in AtaLabels : Row(l) # None}} \cup WearReading(d)
        gaps == {g \in GapReadings(d) : \A j \in table : j.label # g.label}
        log == {Reading(MediaErrors, m, FALSE) : m \in {d.nvme.media} \ {None}}
               \cup {Reading(SpareWarn, s, FALSE) : s \in {d.nvme.spare} \ {None}}
               \cup {Reading(Wear, d.nvme.used, FALSE)}
    IN IF d.nvme # None THEN log ELSE table \cup gaps

Prefill(d, limits) == [label \in LabelsFor(d) |-> Limit(limits, label)]

\* What differs from the default is kept.
OverridesFromForm(labels, input) ==
    LET chosen == {l \in labels \cap DOMAIN input : input[l] # Default(l)}
    IN [label \in chosen |-> input[label]]
=============================================================================
