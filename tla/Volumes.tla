------------------------------- MODULE Volumes -------------------------------
(* Data written and read over a drive's life, as the agent derives them from *)
(* its main output and its Device Statistics (devstat.go, deriveVolumes; the *)
(* Replica's replica_engine.py holds a copy). One direction: the other is    *)
(* the same with other names. Why a volume was left out is not kept.         *)
EXTENDS Integers, Sequences, FiniteSetsExt, Functions

CONSTANTS
    None,           \* nothing there: a missing field, no value
    Unit,           \* [names that state their unit -> bytes]
    Sectors,        \* the name of the sector count
    NotHostBytes,   \* those of Unit that one model family counts otherwise
    PreferredId,    \* the id that wins among several
    Max48, Max64,   \* 2^48 and 2^64
    NvmeUnit,       \* bytes of an NVMe data unit, 512000
    MinHours, BytesPerHour  \* the rate bound

ASSUME NamesAreApart == Sectors \notin DOMAIN Unit /\ NotHostBytes \subseteq DOMAIN Unit
ASSUME BoundsAreNat == {Max48, Max64, NvmeUnit, MinHours, BytesPerHour} \subseteq Nat

\* A drive's output, as far as this reads it: protocol, rows of attributes,
\* block (the logical block size, 0 when missing), inDatabase, kioxia, hours and
\* nvme (None or the log, with its units); and its statistics: status, lbs, written.

ValidBlockSize(n) == n \in {2 ^ k : k \in 9 .. 16}

Bytes(n, unit, source) ==
    IF n = None \/ n * unit >= Max64 THEN None ELSE [bytes |-> n * unit, source |-> source]

NvmeVolume(d) ==
    IF d.nvme = None THEN None ELSE Bytes(d.nvme.units, NvmeUnit, "nvme")

\* Logical sectors, in blocks of the size the log gives or else the drive.
DevstatVolume(d, ds) ==
    LET lbs == IF ds.lbs = 0 THEN d.block ELSE ds.lbs
    IN IF ValidBlockSize(lbs) THEN Bytes(ds.written, lbs, "devstat") ELSE None

UnitOf(r) == IF r.name = Sectors THEN 512 ELSE Unit[r.name]

Candidates(d) ==
    {r \in Range(d.rows) :
        /\ r.name \in DOMAIN Unit \cup {Sectors}
        /\ ~(d.kioxia /\ r.name \in NotHostBytes)
        /\ r.name = Sectors => d.block = 512 /\ d.inDatabase
        /\ r.raw < Max48}

\* Those that name their unit, when there is one; of these one at most counts.
Class(d) ==
    LET named == {r \in Candidates(d) : r.name # Sectors}
    IN IF named # {} THEN named ELSE Candidates(d)

Chosen(d) ==
    IF \E r \in Class(d) : r.id = PreferredId
    THEN CHOOSE r \in Class(d) : r.id = PreferredId
    ELSE CHOOSE r \in Class(d) : r.id = Min({s.id : s \in Class(d)})

Within1Percent(a, b) ==
    LET hi == Max({a, b}) IN 100 * (hi - Min({a, b})) <= hi

VendorVolume(d) ==
    LET c == Chosen(d)
        bytes == c.raw * UnitOf(c)
    IN IF /\ Class(d) # {}
          /\ bytes < Max64
          /\ \A r \in Class(d) :
               r.id # c.id => /\ r.raw * UnitOf(r) < Max64
                              /\ Within1Percent(r.raw * UnitOf(r), bytes)
          /\ d.hours # None /\ d.hours >= MinHours
          /\ bytes <= d.hours * BytesPerHour
       THEN [bytes |-> bytes, source |-> "attribute"]
       ELSE None

AtaVolume(d, ds) ==
    CASE ds.status = "present" -> DevstatVolume(d, ds)
      [] ds.status \in {"absent", "off"} -> VendorVolume(d)
      [] OTHER -> None

\* What stands for a drive whose statistics were not read this time is
\* nothing: a vendor's count is asked only where there are none to read.
Volume(d, ds) ==
    CASE d.protocol = "NVME" -> NvmeVolume(d)
      [] d.protocol = "ATA" -> AtaVolume(d, ds)
      [] OTHER -> None
=============================================================================
