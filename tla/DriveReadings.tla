---------------------------- MODULE DriveReadings ----------------------------
(* One drive of an agent in Home Assistant, over polls, restarts, a removed  *)
(* device and the threshold form: what the poll coordinator keeps of it      *)
(* (coordinator.py), what it holds of its Device Statistics, which sensors   *)
(* were created, and the user's limits (config_flow.py). Drives are apart:   *)
(* all of this is kept by the drive's id. Attention and the sensors are      *)
(* operators of `data` and `limits`: the code evaluates them again whenever  *)
(* either changes.                                                           *)
EXTENDS DriveView

CONSTANTS
    Drives,     \* any drive will do
    Answers,    \* [Drives -> what an agent may send of it]
    Edited,     \* bound: the labels whose limit is set by hand,
    Values,     \* and to what
    MaxLimits   \* bound: how many limits there are after one is set

ASSUME AnswersAreOfDrives == DOMAIN Answers = Drives
ASSUME AnswersArePayloads ==
    \A d \in Drives : \A p \in Answers[d] :
        /\ DOMAIN p = { "serial", "protocol", "readable", "passed", "rows", "nvme", "wd", "ds", "eff",
                        "top", "block", "inDatabase", "kioxia", "hours" }
        /\ p.block \in Nat
        /\ p.ds # None => /\ p.ds.lbs \in Nat
                          /\ {p.ds.unc, p.ds.realloc, p.ds.wear, p.ds.written} \subseteq Nat \cup {None}
        /\ DOMAIN p.rows \subseteq Nat
        /\ \A r \in Range(p.rows) : r # None /\ r.raw \in Nat /\ r.value \in Nat
        \* smartctl prints a table or a log
        /\ p.nvme # None => /\ p.rows = << >> /\ p.nvme.used \in Nat
                            /\ {p.nvme.media, p.nvme.spare} \subseteq Nat \cup {None}
ASSUME NoneIsNoClass == None \notin [ata : BOOLEAN, nvme : BOOLEAN]
ASSUME ValuesAreNat == Values \subseteq Nat

VARIABLES
    drive,      \* which one this is
    data,       \* None or the payload of the last poll that answered
    reporting,  \* whether the last poll answered
    held,       \* the statistics held
    file,       \* the same, in the Store
    limits,     \* the user's limits, by label
    class,      \* None or the class of the drive's first plan
    created,    \* its sensors created in this run
    form,       \* None or what the fields of the open form were filled with
    gave        \* history: the statistics that payloads of this drive gave

vars == <<drive, data, reporting, held, file, limits, class, created, form, gave>>

NoLimits == [l \in {} |-> 0]

Init ==
    /\ drive \in Drives
    /\ data = None /\ reporting = FALSE
    /\ held = HeldNothing /\ file = HeldNothing
    /\ limits = NoLimits
    /\ class = None /\ created = {}
    /\ form = None
    /\ gave = {}

(***************************************************************************)
(* A poll: the statistics are merged, and sensors the payload calls for    *)
(* are created, once.                                                      *)
(***************************************************************************)

Merged(p) == [p EXCEPT !.eff = Merge(p, held).eff]

\* The class is that of the first plan. An unreadable drive is not planned.
ClassFor(p) == IF p.readable /\ class = None THEN DriveClass(p) ELSE class

\* Each sensor is created once.
TakeNew(plan) == created \cup plan

\* A drive without a serial shares its id with what else is in its slot.
Given(p) ==
    IF p.ds = None \/ ~p.serial THEN {}
    ELSE ({p.ds.unc, p.ds.realloc, p.ds.wear} \cup {v.bytes : v \in {Volume(p, p.ds)} \ {None}})
         \ {None}

Poll ==
    /\ \E p \in Answers[drive] :
        /\ data' = Merged(p)
        /\ held' = Merge(p, held).held
        /\ class' = ClassFor(p)
        /\ created' = TakeNew(DriveSpecs(data', class'))
        /\ gave' = gave \cup Given(p)
    /\ reporting' = TRUE
    /\ UNCHANGED <<drive, file, limits, form>>

\* A poll that does not list the drive.
PollWithout ==
    /\ data' = None
    /\ reporting' = TRUE
    /\ UNCHANGED <<drive, held, file, limits, class, created, form, gave>>

\* The list of drives or one drive's details could not be had: all is kept.
PollFails ==
    /\ reporting' = FALSE
    /\ UNCHANGED <<drive, data, held, file, limits, class, created, form, gave>>

\* The delayed save of what is held.
Save ==
    /\ file' = held
    /\ UNCHANGED <<drive, data, reporting, held, limits, class, created, form, gave>>

\* Home Assistant stops, after its pending saves, or crashes; or the entry is
\* reloaded. Nothing is set up before a first poll has answered.
Restart ==
    /\ \E stored \in {held, file} : held' = stored /\ file' = stored
    /\ data' = None /\ reporting' = FALSE
    /\ class' = None /\ created' = {}
    /\ form' = None
    /\ UNCHANGED <<drive, limits, gave>>

(***************************************************************************)
(* The user.                                                               *)
(***************************************************************************)

\* A device may be removed once the agent does not report its drive. The limits
\* stay.
RemoveDevice ==
    /\ created # {}
    /\ reporting /\ data = None
    /\ created' = {} /\ class' = None /\ held' = HeldNothing
    /\ UNCHANGED <<drive, data, reporting, file, limits, form, gave>>

OpenForm ==
    /\ data # None /\ data.readable
    /\ form' = Prefill(data, limits)
    /\ UNCHANGED <<drive, data, reporting, held, file, limits, class, created, gave>>

\* The labels are those of the drive's data as they are by now: a drive that
\* is gone has those of an ATA drive.
SubmittedLabels == IF data = None THEN AtaLabels ELSE LabelsFor(data)

Submit(input) ==
    /\ limits' = OverridesFromForm(SubmittedLabels, input)
    /\ form' = None
    /\ UNCHANGED <<drive, data, reporting, held, file, class, created, gave>>

SubmitForm ==
    /\ form # None
    /\ \E label \in DOMAIN form \cap Edited, v \in Values : Submit([form EXCEPT ![label] = v])
    /\ Cardinality(DOMAIN limits') <= MaxLimits

\* The Control Center's page sets one limit of a drive that it shows,
PanelSets ==
    /\ data # None /\ data.readable
    /\ \E label \in LabelsFor(data) \cap Edited, v \in Values :
          limits' = SetLimits(data, limits, [l \in {label} |-> v])
    /\ Cardinality(DOMAIN limits') <= MaxLimits
    /\ UNCHANGED <<drive, data, reporting, held, file, class, created, form, gave>>

\* or accepts all that is flagged. Both know the drive as of the last poll.
PanelAccepts ==
    /\ data # None /\ data.readable
    /\ Flagged(data, limits) # {}
    /\ limits' = AcceptAll(data, limits)
    /\ UNCHANGED <<drive, data, reporting, held, file, class, created, form, gave>>

Next ==
    \/ Poll
    \/ PollWithout
    \/ PollFails
    \/ Save
    \/ Restart
    \/ RemoveDevice
    \/ OpenForm
    \/ SubmitForm
    \/ PanelSets
    \/ PanelAccepts

Spec == Init /\ [][Next]_vars

-------------------------------------------------------------------------------
Seen == data # None

\* What a drive says of itself - a failed verdict, a critical warning, spare
\* below its own threshold - is a reason for YES under every limit: "No threshold
\* may silence" it (NEVER_CONFIGURABLE, attention.py).
FailureIsShown ==
    /\ Seen /\ OwnReasons(data) # {} => State(data, limits) = "YES"
    /\ DOMAIN limits \cap NeverConfigurable = {}

\* Set to what the form shows as its current reading (for wear, to the next
\* percent: its limit counts), a label's limit keeps that label from being a
\* reason. The form and the evaluation read the table with code of their own
\* (current_readings and evaluate_attention). Not so when two rows share a label
\* and the first reads zero, nor when the statistics, which go by a row's id, have
\* a reading for a label that a row of another id has by its name.
ReadingCanBeAccepted ==
    Seen =>
        \A j \in CurrentReadings(data) :
            LET speak == {r \in Range(data.rows) : LabelOf(r) = j.label}
                accepting == [l \in DOMAIN limits \cup {j.label} |->
                                 IF l # j.label THEN limits[l]
                                 ELSE IF l = Wear THEN j.value + 1 ELSE j.value]
            IN /\ \A r, s \in speak : r = s
               /\ speak # {} => \A g \in GapReadings(data) : g.label # j.label
               => \A k \in Evaluate(data, accepting).reasons : k.label # j.label

\* The sensors whose reading the form shows too.
KeyOf ==
    [ l \in {"Reallocated Sector Count", "Current Pending Sector Count",
             "Reallocated Event Count", "Spin Retry Count", "Command Timeout",
             Wear, MediaErrors, SpareWarn} |->
        CASE l = "Reallocated Sector Count" -> "reallocated_sector_count"
          [] l = "Current Pending Sector Count" -> "current_pending_sector_count"
          [] l = "Reallocated Event Count" -> "reallocated_event_count"
          [] l = "Spin Retry Count" -> "spin_retry_count"
          [] l = "Command Timeout" -> "command_timeout"
          [] l = Wear -> "wear_leveling_count"
          [] l = MediaErrors -> "media_errors"
          [] OTHER -> "available_spare" ]

\* The form and the sensor show the same value: each name table is to be kept "in
\* step" with the others (attention.py:102, extract.py), and so are their rules
\* for wear and for packed timeouts. Not so for other packed values, which only
\* the sensor decodes.
SensorsAgree ==
    Seen =>
        \A j \in CurrentReadings(data) :
            j.label \in DOMAIN KeyOf /\ ~j.gap =>
                LET key == KeyOf[j.label]
                    row == RowOf(data, key)
                IN \/ Extract(data, key) = j.value
                   \/ row # None /\ row.raw >= Word /\ row.str # None

\* The Health sensor, with a name table of its own, reports no problem that
\* attention with the default limits does not see.
UnhealthyNeedsAttention ==
    Seen /\ Unhealthy(data) => State(data, NoLimits) \in {"YES", "MAYBE"}

\* What is held or shown from the statistics was given by this drive: "a different
\* drive in that slot must not inherit its numbers" (devstat.py).
NothingInherited ==
    /\ Range(held) \subseteq gave \cup {None}
    /\ Range(file) \subseteq gave \cup {None}
    /\ Seen /\ data.eff # None /\ ~data.serial =>
         LET of == IF data.ds.status = "present" THEN data.ds ELSE HeldNothing
         IN <<data.eff.unc, data.eff.realloc, data.eff.wear>> = <<of.unc, of.realloc, of.wear>>

\* A poll that could not read the statistics changes no reason, no reading and no
\* volume: "a fresh valid value replaces the held one, and nothing else ever
\* clears it", and a vendor's count does not stand in (devstat.go).
FailedReadsChangeNothing ==
    [][LET same == [data' EXCEPT !.ds = data.ds, !.eff = data.eff] = data
           ReadFails ==
               /\ Seen /\ Seen' /\ same
               /\ data.serial /\ data.ds # None /\ data'.ds # None
               /\ data.ds.status \in {"present", "unavailable"}
               /\ data'.ds.status = "unavailable"
       IN ReadFails =>
            /\ Evaluate(data', limits) = Evaluate(data, limits)
            /\ CurrentReadings(data') = CurrentReadings(data)
            /\ DataVolume(data') = DataVolume(data)]_<<data, reporting>>

\* Two rows say what one label says, or the statistics say what the table has a
\* row for under another id.
Twice(d, label) ==
    LET speak == {r \in Range(d.rows) : LabelOf(r) = label}
    IN \/ \E r, s \in speak : r # s
       \/ speak # {} /\ \E g \in GapReadings(d) : g.label = label

\* After the page's Accept no limit makes a reading a reason: what is left is what
\* the drive says of itself. The readings are the form's (current_readings), the
\* reasons the evaluation's, and one acceptance may not bring out another.
\* Excepted is a label that is told twice, of which the form sees the first.
AcceptSettles ==
    [][PanelAccepts =>
        \A k \in Evaluate(data, limits').reasons :
            k.label \in NeverConfigurable \/ Twice(data, k.label)]_vars

\* A packed value, of which only the card shows the decoded text; a wear row that
\* counts up, which the card takes to count down.
ReadOtherwise(d, j) ==
    \/ \E r \in Range(d.rows) : LabelOf(r) = j.label /\ r.raw >= Word /\ r.str # None
    \/ j.label = Wear /\ ~j.gap /\ WearRow(d) # None /\ CountsUp(d, WearRow(d))

\* Two rows of the table that the card shows as one.
SharesRow(d, label) ==
    \E r, s \in Range(d.rows) :
        /\ r # s /\ LabelOf(r) = label
        /\ LabelOf(s) # None /\ RowKey(LabelOf(s)) = RowKey(label)

\* A failed verdict is in the header, any other reason on the row of its reading, at
\* least as severe as the reason and with its value.
OnCard(card, d, j) ==
    IF j.label = Failed THEN card.failed
    ELSE /\ RowAt(j) \in DOMAIN card.rows
         /\ LET row == card.rows[RowAt(j)]
            IN /\ row.mark \in {"crit", Mark(j.label)}
               /\ \/ row.value = j.value
                  \/ ReadOtherwise(d, j)
                  \/ ~j.gap /\ SharesRow(d, j.label)

\* Every reason is on the card. The rows are read by tables of their own (_ATA_ROWS,
\* _DEVSTAT_ROWS) and matched by _REASON_LABELS.
ReasonsAreOnTheCard ==
    Seen /\ data.readable =>
        \A j \in Evaluate(data, limits).reasons : OnCard(Card(data, limits), data, j)

\* A drive has the sensors of one protocol: "a payload that later reads differently
\* cannot sprout the other protocol's sensors" (entity_plan.py).
OneClass ==
    \A a \in AtaOnly, n \in NvmeOnly :
        ~({<<"attribute", a>>, <<"attribute", n>>} \subseteq created)

\* Every named row of an ATA drive's table is shown by a sensor: its own, or the
\* curated one that reads it. Suppressing by name once made rows "vanish from both
\* paths" (_covered_rows). Of rows with one id the first is shown.
EveryRowIsShown ==
    Seen /\ data.readable /\ class.ata =>
        \A r \in {x \in Range(data.rows) : x.name # None} :
            \/ \E x \in Range(data.rows) \ {r} : x.id = r.id
            \/ <<"diagnostic", r.id>> \in created /\ DiagnosticValue(data, r.id) = DecodedRaw(r)
            \/ \E key \in DOMAIN AtaNames :
                 <<"attribute", key>> \in created /\ RowOf(data, key) = r

=============================================================================
