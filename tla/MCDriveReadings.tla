--------------------------- MODULE MCDriveReadings ---------------------------
(* Four drives: a disk, a WD SSD, an NVMe drive and a slot of drives without  *)
(* a serial. 16 bits are 8 here; 100 hours are many. Limits are set by hand   *)
(* for a count and for wear; Accept sets those of the other labels too.       *)
EXTENDS DriveReadings

UnitDef == [Host_Writes_32MiB |-> 3, Host_Writes_GiB |-> 96]

Row(id, name, raw) ==
    [id |-> id, name |-> name, value |-> 100, dead |-> FALSE, raw |-> raw, str |-> None]

Read(status, unc, realloc, wear, written) ==
    [ status |-> status, unc |-> unc, realloc |-> realloc, wear |-> wear,
      written |-> written, lbs |-> 0 ]
Unavailable == Read("unavailable", None, None, None, None)
Absent == Read("absent", None, None, None, None)
NotApplicable == Read("not_applicable", None, None, None, None)

EditedDef == {"Current Pending Sector Count", Wear}

NoTop == [temperature |-> None, power_on_hours |-> None, power_cycle_count |-> None]

Blank ==
    [ serial |-> TRUE, protocol |-> "", readable |-> TRUE, passed |-> None, rows |-> << >>,
      nvme |-> None, wd |-> FALSE, ds |-> None, eff |-> None, top |-> NoTop,
      block |-> 512, inDatabase |-> TRUE, kioxia |-> FALSE, hours |-> 50 ]

\* A disk with packed timeouts and temperature, and a row named twice.
Disk ==
    [Blank EXCEPT !.protocol = "ATA", !.passed = TRUE,
       !.rows = << Row(5, "Reallocated_Sector_Ct", 0), Row(9, "Power_On_Hours", 50),
                   Row(175, "Program_Fail_Count", 1), Row(181, "Program_Fail_Count", 2),
                   Row(188, "Command_Timeout", 2 * 256 + 60),
                   [Row(194, "Temperature_Celsius", 5 * 256 + 30) EXCEPT !.str = 30],
                   Row(197, "Current_Pending_Sector", 3),
                   Row(241, "Host_Writes_32MiB", 32) >>]

DiskAnswers ==
    {[Disk EXCEPT !.ds = r] : r \in {Read("present", 2, 1, None, 1), Unavailable, Absent}}
    \cup {[Disk EXCEPT !.readable = FALSE, !.rows = << >>, !.passed = None, !.ds = Unavailable]}

\* Its wear row counts up and disagrees with its cycles; the first is dead.
Ssd ==
    [Blank EXCEPT !.protocol = "ATA", !.passed = TRUE, !.wd = TRUE,
       !.rows = << Row(5, "Retired_Block_Count", 1),
                   Row(173, "Average_PE_Cycles_TLC", 2),
                   [Row(177, "Wear_Leveling_Count", 0) EXCEPT !.dead = TRUE, !.value = 0],
                   [Row(230, "Media_Wearout_Indicator", 7) EXCEPT !.value = 95],
                   Row(233, "SSD_Life_Left", 4) >>]

SsdAnswers ==
    {[Ssd EXCEPT !.ds = r] :
        r \in {None, Read("present", 1, None, 91, None), Read("present", None, None, None, 1),
               Unavailable}}

Log == [cw |-> 0, media |-> 2, spare |-> 15, limit |-> 10, used |-> 95, units |-> 1]
Nvme == [Blank EXCEPT !.protocol = "NVME", !.passed = TRUE, !.nvme = Log, !.ds = NotApplicable]

NvmeAnswers ==
    { Nvme, [Nvme EXCEPT !.nvme.media = None, !.nvme.spare = 0, !.passed = FALSE],
      [Nvme EXCEPT !.nvme = None, !.passed = None],
      \* before its protocol is known
      [Blank EXCEPT !.ds = NotApplicable] }

\* Two drives without a serial, one after the other in a slot.
SlotAnswers ==
    {[Disk EXCEPT !.serial = FALSE, !.ds = r] : r \in {Read("present", 7, 8, None, 1), Unavailable}}
    \cup {[Ssd EXCEPT !.serial = FALSE, !.ds = r] :
             r \in {Read("present", 5, None, 9, None), Unavailable, None}}

AnswersDef ==
    [disk |-> DiskAnswers, ssd |-> SsdAnswers, nvme |-> NvmeAnswers, slot |-> SlotAnswers]
=============================================================================
