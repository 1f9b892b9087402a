------------------------------ MODULE IsoDirectory ------------------------------
(***************************************************************************)
(* The first sector of a disc's root directory and how filesystem.c looks  *)
(* a file up in it.  A sector is a function from the offsets at which      *)
(* records start; everything else in it is zero.                           *)
(***************************************************************************)
EXTENDS Naturals, Sequences

CONSTANT SectorSize     \* 2048 bytes

ASSUME SectorAssumption == SectorSize \in Nat

\* The directory as the disc holds it: records, some of which may lie in the
\* next sector, since none crosses a sector's end.  (external)
Sector(records) ==
    LET Start[k \in 1..Len(records)] ==
            IF k = 1 THEN 0 ELSE Start[k - 1] + records[k - 1].len
        First == {k \in 1..Len(records) : Start[k] + records[k].len <= SectorSize}
    IN  [o \in {Start[k] : k \in First} |->
            records[CHOOSE k \in First : Start[k] = o]]

EmptySector == Sector(<< >>)
NoRecord == [len |-> 0, id |-> "", lba |-> 0]

\* parseDirRecord: the identifiers 0 and 1 are the directory and its parent.
RecordAt(sector, o) == IF o \in DOMAIN sector THEN sector[o] ELSE NoRecord
NameOf(record) == CASE record.id = "0" -> "."
                    [] record.id = "1" -> ".."
                    [] OTHER -> record.id

\* The search of getLbaToFile and of getFileInfo: the record of that name,
\* or NoRecord at the end of the list or of the sector.
FindRecord(sector, name) ==
    LET Scan[o \in Nat] ==
            LET r == RecordAt(sector, o)
            IN  IF o >= SectorSize \/ r.len < 1 THEN NoRecord
                ELSE IF NameOf(r) = name THEN r ELSE Scan[o + r.len]
    IN  Scan[0]

LbaToFile(sector, name) == FindRecord(sector, name).lba
===============================================================================
