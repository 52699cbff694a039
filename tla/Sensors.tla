------------------------------- MODULE Sensors -------------------------------
(* Which sensors a drive has and what each of them shows (extract.py,        *)
(* entity_plan.py, sensor.py), and how a poll's Device Statistics are merged *)
(* with those held (devstat.py). A payload also has its protocol, `readable` *)
(* and the top-level temperature, hours and cycles `top`, which serve drives *)
(* without a table or a log.                                                 *)
EXTENDS Attention

AtaOnly ==
    { "reallocated_sector_count", "current_pending_sector_count",
      "reallocated_event_count", "spin_retry_count", "command_timeout" }

NvmeOnly == { "critical_warning", "media_errors", "available_spare", "available_spare_threshold" }

SkipIfNotPresent ==
    { "current_pending_sector_count", "spin_retry_count", "command_timeout",
      "wear_leveling_count", "available_spare", "available_spare_threshold",
      "power_cycle_count", "reallocated_event_count" }

\* The rows each curated sensor reads, under any of their vendors' names.
AtaNames ==
    [ temperature |->
        { "Temperature_Celsius", "Temperature_Internal", "Airflow_Temperature_Cel",
          "HDA_Temperature", "Drive_Temperature" },
      power_on_hours |-> { "Power_On_Hours", "Power_On_Hours_and_Msec", "Power_On_Time" },
      power_cycle_count |-> { "Power_Cycle_Count", "Power_Cycles" },
      reallocated_sector_count |-> { "Reallocated_Sector_Ct", "Retired_Block_Count" },
      current_pending_sector_count |->
        { "Current_Pending_Sector", "Current_Pending_Sector_Ct", "Total_Pending_Sectors" },
      reallocated_event_count |-> { "Reallocated_Event_Count" },
      spin_retry_count |-> { "Spin_Retry_Count" },
      command_timeout |-> { "Command_Timeout" },
      reported_uncorrectable_errors |->
        { "Offline_Uncorrectable", "Reported_Uncorrect", "Uncorrectable_Error_Cnt",
          "Total_Offl_Uncorrectabl" },
      wear_leveling_count |-> WearNames ]

SensorKeys == DOMAIN AtaNames \cup NvmeOnly \cup { "smart_status" }

(***************************************************************************)
(* What a sensor shows.                                                    *)
(***************************************************************************)

\* A packed raw value is shown by its decoded text, when there is one.
DecodedRaw(r) == IF r.raw >= Word /\ r.str # None THEN r.str ELSE r.raw

Unpacked(r, word) == IF r.str # None THEN r.str ELSE r.raw % word

RowValue(d, key, r) ==
    CASE key = "temperature" /\ r.raw > MaxTemperature -> Unpacked(r, Word)
      [] key = "power_on_hours" /\ r.raw > MaxHours -> Unpacked(r, HoursWord)
      [] key = "command_timeout" -> Decoded(r)
      [] key = "wear_leveling_count" -> AtaWearUsed(d, r)
      [] OTHER -> DecodedRaw(r)

RowOf_DeadToo(d, key) ==
    FirstRow(d.rows, LAMBDA r : key \in DOMAIN AtaNames /\ r.name \in AtaNames[key])
\* The row a curated sensor reads: a dead wear row is not a gauge.
RowOf(d, key) ==
    FirstRow(d.rows, LAMBDA r :
        /\ key \in DOMAIN AtaNames /\ r.name \in AtaNames[key]
        /\ ~(key = "wear_leveling_count" /\ r.dead))

\* A sensor of an id shows its first row, whatever that is called.
DiagnosticValue(d, id) ==
    LET row == FirstRow(d.rows, LAMBDA r : r.id = id)
    IN IF row = None THEN None ELSE DecodedRaw(row)

\* Data Written: the agent's figure or the one held.
DataVolume(d) == IF d.eff = None THEN None ELSE d.eff.written

NvmeValue(d) ==
    [ wear_leveling_count           |-> d.nvme.used,
      reported_uncorrectable_errors |-> d.nvme.media,
      media_errors                  |-> d.nvme.media,
      critical_warning              |-> d.nvme.cw,
      available_spare               |-> d.nvme.spare,
      available_spare_threshold     |-> d.nvme.limit,
      temperature                   |-> d.top.temperature,
      power_on_hours                |-> d.top.power_on_hours,
      power_cycle_count             |-> d.top.power_cycle_count ]

Extract(d, key) ==
    LET inLog == d.nvme # None /\ key \in DOMAIN NvmeValue(d)
        row == RowOf(d, key)
    IN CASE key = "smart_status" /\ d.passed # None -> IF d.passed THEN "PASSED" ELSE "FAILED"
         [] inLog -> NvmeValue(d)[key]
         [] ~inLog /\ row # None -> RowValue(d, key, row)
         [] ~inLog /\ row = None /\ key \in DOMAIN d.top -> d.top[key]
         [] OTHER -> None

(***************************************************************************)
(* Which sensors a drive has: <<kind, key>>.                               *)
(***************************************************************************)

DriveClass(d) ==
    [ ata  |-> d.protocol \in {"ATA", "SATA", ""} \/ d.rows # <<>>,
      nvme |-> d.protocol = "NVME" /\ d.rows = <<>> ]

Curated(d, class) ==
    {key \in SensorKeys :
        /\ key \in AtaOnly => class.ata
        /\ key \in NvmeOnly => class.nvme
        /\ key \in SkipIfNotPresent /\ Extract(d, key) = None =>
             key = "wear_leveling_count" /\ WearNote(d)}

Covered_ByName(d) ==
    {r \in Range(d.rows) : \E key \in DOMAIN AtaNames : r.name \in AtaNames[key]}
Covered(d) == {RowOf(d, key) : key \in DOMAIN AtaNames} \ {None}

\* A sensor of its own for every other named row, one for each id.
Diagnostics(d, class) ==
    IF class.ata THEN {r.id : r \in {x \in Range(d.rows) \ Covered(d) : x.name # None}}
    ELSE {}

DriveSpecs(d, class) ==
    IF ~d.readable THEN {}
    ELSE {<<"attribute", key>> : key \in Curated(d, class)}
         \cup {<<"diagnostic", id>> : id \in Diagnostics(d, class)}
         \cup {<<"volume", "written">> :
                  x \in {DataVolume(d)} \ {None}}
         \cup {<<"always", key>> :
                  key \in {"attention", "attention_reasons", "health", "standby"}}

(***************************************************************************)
(* The merge of what a poll's statistics say with what is held.            *)
(***************************************************************************)

HeldNothing == [unc |-> None, realloc |-> None, wear |-> None, written |-> None]

Merge_AnySerial(d, old) ==
    LET fresh == IF d.ds.status = "present" THEN d.ds ELSE HeldNothing
        Or(f) == IF fresh[f] # None THEN fresh[f] ELSE old[f]
        merged == [f \in DOMAIN HeldNothing |-> Or(f)]
    IN IF d.ds = None THEN [eff |-> None, held |-> old]
       ELSE [eff |-> merged, held |-> merged]
Merge_PresentOnly(d, old) ==
    LET volume == Volume(d, d.ds)
        eff == [f \in DOMAIN HeldNothing |->
                   IF f = "written" THEN IF volume = None THEN None ELSE volume.bytes
                   ELSE IF d.ds.status # "present" THEN None
                   ELSE IF d.ds[f] = None THEN old[f] ELSE d.ds[f]]
    IN IF d.ds = None THEN [eff |-> None, held |-> old]
       ELSE [eff |-> eff, held |-> IF d.ds.status = "present" /\ d.serial THEN eff ELSE old]
Merge(d, old) ==
    LET present == d.ds # None /\ d.ds.status = "present"
        usable == d.serial /\ d.ds.status \in {"present", "unavailable"}
        Fresh(f) == IF present THEN d.ds[f] ELSE None
        Or(fresh, kept) == IF fresh # None THEN fresh ELSE IF usable THEN kept ELSE None
        volume == Volume(d, d.ds)
        writes == IF volume # None /\ volume.source = "devstat" THEN volume.bytes ELSE None
        Kept(fresh, kept) == IF fresh # None THEN fresh ELSE kept
    IN IF d.ds = None THEN [eff |-> None, held |-> old]
       ELSE [ eff |-> [ unc     |-> Or(Fresh("unc"), old.unc),
                        realloc |-> Or(Fresh("realloc"), old.realloc),
                        wear    |-> Or(Fresh("wear"), old.wear),
                        written |-> IF volume # None THEN volume.bytes
                                    ELSE IF usable THEN old.written ELSE None ],
              held |-> IF ~d.serial THEN old
                       ELSE [ unc     |-> Kept(Fresh("unc"), old.unc),
                              realloc |-> Kept(Fresh("realloc"), old.realloc),
                              wear    |-> Kept(Fresh("wear"), old.wear),
                              written |-> Kept(writes, old.written) ] ]
=============================================================================
