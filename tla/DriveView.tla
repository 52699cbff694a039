------------------------------ MODULE DriveView ------------------------------
(* The Control Center's card of one drive (panel_view.py): its rows, the     *)
(* marks that the verdict's reasons put on them, and what the page says of   *)
(* and does to the drive's limits (panel_ws.py). The rows are read from the  *)
(* payload again, by tables of their own, and each reason is matched to its  *)
(* row by its text, which is left out here: a reason has its label. A row is *)
(* known by its key and whether it stands for Device Statistics; its name,   *)
(* its notes and the order of the rows are left out.                         *)
EXTENDS Sensors

\* The names each row of an ATA drive is read under.
RowNames ==
    [ reallocated    |-> { "Reallocated_Sector_Ct", "Retired_Block_Count" },
      pending        |-> { "Current_Pending_Sector", "Current_Pending_Sector_Ct",
                           "Total_Pending_Sectors" },
      offline_unc    |-> { "Offline_Uncorrectable", "Total_Offl_Uncorrectabl" },
      reported_unc   |-> { "Reported_Uncorrect", "Uncorrectable_Error_Cnt" },
      cmd_timeout    |-> { "Command_Timeout" },
      realloc_events |-> { "Reallocated_Event_Count" },
      spin_retries   |-> { "Spin_Retry_Count" } ]

\* The row of a label: that of the names which attention gives the label.
RowKey(label) ==
    CASE label = Wear -> "wear"
      [] label = MediaErrors -> "media_errors"
      [] label \in {SpareWarn, OwnSpare} -> "available_spare"
      [] label = CriticalWarning -> "critical_warning"
      [] OTHER -> CHOOSE key \in DOMAIN RowNames :
                      \E n \in RowNames[key] : LabelOf([name |-> n]) = label

Mark(label) == IF label \in Warnings THEN "warn" ELSE "crit"

(***************************************************************************)
(* The rows before they are marked: [<<key, gap>> -> [value, mark]].       *)
(***************************************************************************)

Shows(v) == [value |-> v, mark |-> None]
NotKnown == [value |-> None, mark |-> "unk"]

TableRow(d, key) ==
    IF key = "wear" THEN WearRow(d)
    ELSE FirstRow(d.rows, LAMBDA r : r.name \in RowNames[key])

\* A table's wear row is taken to count down.
TableValue(r, key) ==
    CASE key = "wear" -> IF r.value <= 100 THEN 100 - r.value ELSE 0
      [] key = "cmd_timeout" /\ r.raw >= Word -> r.raw % Word
      [] OTHER -> DecodedRaw(r)

\* A reading of the statistics has a row of its own, below the one that it
\* stands in for, which is not known unless the table has it after all.
AtaRows(d) ==
    LET named == {key \in DOMAIN RowNames \cup {"wear"} : TableRow(d, key) # None}
        gaps == {RowKey(g.label) : g \in GapReadings(d)}
        Gap(key) == CHOOSE g \in GapReadings(d) : RowKey(g.label) = key
    IN [ at \in ((named \cup gaps) \X {FALSE}) \cup (gaps \X {TRUE}) |->
            IF at[2] THEN Shows(Gap(at[1]).value)
            ELSE IF at[1] \in named THEN Shows(TableValue(TableRow(d, at[1]), at[1]))
            ELSE NotKnown ]

NvmeRows(d) ==
    LET has == {"critical_warning", "media_errors", "wear"}
               \cup {"available_spare" : x \in {d.nvme.spare} \ {None}}
    IN [ at \in has \X {FALSE} |->
            CASE at[1] = "critical_warning" -> Shows(d.nvme.cw)
              [] at[1] = "media_errors" ->
                    IF d.nvme.media = None THEN NotKnown ELSE Shows(d.nvme.media)
              [] at[1] = "available_spare" -> Shows(d.nvme.spare)
              [] at[1] = "wear" -> Shows(d.nvme.used) ]

\* The log or the table says what a drive is, before its protocol does.
CardProtocol(d) ==
    IF d.nvme # None THEN "nvme"
    ELSE IF d.rows # <<>> \/ d.protocol \in {"ATA", "SATA"} THEN "ata"
    ELSE IF d.protocol = "NVME" THEN "nvme"
    ELSE "other"

NoRows == [at \in {} |-> NotKnown]

DataRows(d) ==
    CASE d.nvme # None -> NvmeRows(d)
      [] CardProtocol(d) = "ata" -> AtaRows(d)
      [] OTHER -> NoRows

(***************************************************************************)
(* The card.                                                               *)
(***************************************************************************)

\* What a drive that cannot be judged does not say.
MainRows(d) ==
    (IF CardProtocol(d) = "nvme" THEN {"critical_warning", "media_errors"}
     ELSE {"reallocated", "pending"}) \X {FALSE}

RowAt_TableOnly(j) == <<RowKey(j.label), FALSE>>
RowAt(j) == <<RowKey(j.label), j.gap>>

\* Reasons that mark a row; the header says that the drive failed.
Marking(d, limits) == {j \in Evaluate(d, limits).reasons : j.label # Failed}

\* A reason without a row gets one, with the value it states. A critical mark is
\* never weakened.
Marked(row, why) ==
    IF why = {} THEN row
    ELSE [row EXCEPT !.mark = IF \E j \in why : Mark(j.label) = "crit" THEN "crit" ELSE "warn"]

MarkedRows(d, limits) ==
    LET rows == DataRows(d)
        reasons == Marking(d, limits)
        Why(at) == {j \in reasons : RowAt(j) = at}
    IN [ at \in DOMAIN rows \cup {RowAt(j) : j \in reasons} |->
            Marked(IF at \in DOMAIN rows THEN rows[at]
                   ELSE Shows((CHOOSE j \in Why(at) : TRUE).value), Why(at)) ]

Header(state) ==
    CASE state = "YES" -> "attention"
      [] state = "MAYBE" -> "maybe"
      [] state = "NO" -> "ok"
      [] OTHER -> "unknown"

\* What the page draws. A drive whose read failed is shown unjudged.
Card(d, limits) ==
    IF ~d.readable THEN [header |-> "unknown", failed |-> FALSE, rows |-> NoRows]
    ELSE [ header |-> Header(State(d, limits)),
           failed |-> d.passed = FALSE,
           rows   |-> IF Usable(d) THEN MarkedRows(d, limits)
                      ELSE [at \in MainRows(d) |-> NotKnown] ]

(***************************************************************************)
(* Limits on the page.                                                     *)
(***************************************************************************)

\* Readings the card's menu calls flagged: the drive's own limit is no threshold.
Flagged(d, limits) ==
    {j \in CurrentReadings(d) :
        /\ Trips(j.label, j.value, Limit(limits, j.label))
        /\ ~( /\ j.label = SpareWarn /\ d.nvme # None /\ d.nvme.limit # None
              /\ j.value <= d.nvme.limit )}

AcceptValue_Same(j) == j.value
\* The limit that accepts a reading.
AcceptValue(j) == IF j.label = Wear THEN j.value + 1 ELSE j.value

\* thresholds/set: what the page sends over what there is.
SetLimits(d, limits, values) ==
    OverridesFromForm(LabelsFor(d),
        [l \in DOMAIN values \cup DOMAIN limits |->
            IF l \in DOMAIN values THEN values[l] ELSE limits[l]])

\* thresholds/accept: a limit for every reading that is flagged.
AcceptAll(d, limits) ==
    LET flagged == Flagged(d, limits)
        Of(label) == CHOOSE j \in flagged : j.label = label
    IN SetLimits(d, limits, [l \in {j.label : j \in flagged} |-> AcceptValue(Of(l))])
=============================================================================
