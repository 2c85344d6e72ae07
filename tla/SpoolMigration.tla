--------------------------- MODULE SpoolMigration ---------------------------
(***************************************************************************)
(* The start of a collector whose spool directory still holds a v1 log     *)
(* (backend/internal/collector/spool/spool.go: recoverInterruptedMigration,*)
(* openOrMigrate, migrateV1), with a crash or a failing file operation     *)
(* between any two steps, and the use of the migrated log afterwards.      *)
(*                                                                         *)
(* A file is the number of records that a v2 log holds, or V1, or NoFile.  *)
(* The records are numbered from the first one that the v1 cursor had not  *)
(* passed; a number above Unread is a record stored after the migration.   *)
(* Positions are in cells, so that a v1 cursor can be a v2 boundary by     *)
(* accident.                                                               *)
(*                                                                         *)
(* dir is the directory as the process sees it.  maybe holds the directory *)
(* states since the last sync: a crash leaves any one of them, which is    *)
(* what a file system that keeps the order of its operations guarantees.   *)
(***************************************************************************)
EXTENDS Integers, FiniteSets

CONSTANTS
  Legacy,       \* number of records of the v1 log
  PayloadLen,   \* cells of a payload
  MaxBytes,     \* maxBytes, in cells
  MaxStored,    \* bound: records stored after the migration
  MaxCrashes,   \* bound: ends of the process
  MaxErrors     \* bound: failing file operations

ASSUME MigrationAssumption ==
  /\ Legacy \in Nat \ {0} /\ PayloadLen \in Nat \ {0} /\ MaxBytes \in Nat
  /\ MaxStored \in Nat /\ MaxCrashes \in Nat /\ MaxErrors \in Nat

VARIABLES
  dir,          \* spool.log, its v1 backup, migration temporary and marker, and
                \* spool.offset
  maybe,        \* what a crash may leave of dir
  pc,           \* where New stands; "down": no process, "opened": New returned
  offset,       \* s.offset
  crashes, errors

\* History.
VARIABLES
  unread,       \* number of v1 records that the v1 cursor had not passed
  stored,       \* number of records stored since
  settled       \* number of records the cursor was moved over since

vars == <<dir, maybe, pc, offset, crashes, errors, unread, stored, settled>>

-----------------------------------------------------------------------------
NoFile == -2
V1 == -1
NoCursor == -1

V1Size == 1 + PayloadLen    \* a v1 record: length, payload
V2Size == 4 + PayloadLen    \* a v2 record: the header has four times the size
V1At(k) == k * V1Size
V2At(k) == k * V2Size

IsV2(f) == f > 0            \* fileStartsWithV2: an empty file does not
Exists(f) == f # NoFile
Artifacts(d) == Exists(d.backup) \/ Exists(d.tmp) \/ d.marker

\* The v1 records that migrateV1 reads with the cursor of d.
UnreadOf(d) ==
  IF d.cursor \in 0 .. V1At(Legacy)
    THEN Cardinality({k \in 1 .. Legacy : V1At(k) > d.cursor}) ELSE Legacy

Op(l, d, m) ==
  /\ pc = l
  /\ dir' = d /\ maybe' = maybe \cup {d}
  /\ pc' = m
  /\ UNCHANGED <<offset, crashes, errors, unread, stored, settled>>

\* The directory is durable now, not the records of a temporary that was not
\* synchronized itself.
SyncDir(l, m) ==
  /\ pc = l
  /\ maybe' = {dir} \cup {[dir EXCEPT !.tmp = d.tmp] :
                            d \in {e \in maybe : Exists(e.tmp) /\ Exists(dir.tmp)}}
  /\ pc' = m
  /\ UNCHANGED <<dir, offset, crashes, errors, unread, stored, settled>>

-----------------------------------------------------------------------------
(* recoverInterruptedMigration. *)

\* Mutation: a log that is v2 already keeps its cursor.
BranchNoReset(d) ==
  IF ~Artifacts(d) THEN "open"
  ELSE IF ~Exists(d.spool)
    THEN IF Exists(d.tmp) /\ Exists(d.backup) THEN "swap" ELSE "down"
  ELSE IF IsV2(d.spool) /\ (Exists(d.backup) \/ d.marker) THEN "rmBackup"
  ELSE "discard"

\* Mutation: a missing log is an error.
BranchNoSwap(d) ==
  IF ~Artifacts(d) THEN "open"
  ELSE IF ~Exists(d.spool) THEN "down"
  ELSE IF IsV2(d.spool) /\ (Exists(d.backup) \/ d.marker) THEN "reset"
  ELSE "discard"

\* Without spool.log there are a backup and a complete temporary, NothingDropped
\* says, so the branches for one of the two alone are never taken.
Branch(d) ==
  IF ~Artifacts(d) THEN "open"
  ELSE IF ~Exists(d.spool)
    THEN IF Exists(d.tmp) /\ Exists(d.backup) THEN "swap" ELSE "down"
  ELSE IF IsV2(d.spool) /\ (Exists(d.backup) \/ d.marker) THEN "reset"
  ELSE "discard"

Boot == Op("down", dir, Branch(dir))

\* The v1 log is authoritative, or the v2 log is empty: only derived files go.
\* Failures to remove one are ignored.
Discard ==
  /\ pc = "discard"
  /\ \E tmp \in {dir.tmp, NoFile}, marker \in {dir.marker, FALSE},
        backup \in {dir.backup, NoFile} :
       LET d == [dir EXCEPT !.tmp = tmp, !.marker = marker, !.backup = backup]
       IN /\ dir' = d /\ maybe' = maybe \cup {d}
          /\ errors' = IF Artifacts(d) THEN errors + 1 ELSE errors
  /\ errors' <= MaxErrors
  /\ pc' = "syncDiscard"
  /\ UNCHANGED <<offset, crashes, unread, stored, settled>>

SyncDiscard == SyncDir("syncDiscard", "open")

-----------------------------------------------------------------------------
(* openOrMigrate and migrateV1. *)

Fits(d) ==
  /\ V1At(Legacy) - (IF d.cursor \in 0 .. V1At(Legacy) THEN d.cursor ELSE 0) <= MaxBytes
  /\ V2At(UnreadOf(d)) <= MaxBytes

\* The old temporary is removed and a new one created.
Begin ==
  /\ dir.spool = V1 /\ Fits(dir)
  /\ Op("open", [dir EXCEPT !.tmp = 0], "write")

\* ErrMigrationCapacity.
Refuse ==
  /\ pc = "open" /\ dir.spool = V1 /\ ~Fits(dir)
  /\ UNCHANGED vars

WriteTmp ==
  /\ dir.tmp < UnreadOf(dir)
  /\ Op("write", [dir EXCEPT !.tmp = dir.tmp + 1], "write")

\* The synchronized temporary cannot lose records any more.
SyncTmp ==
  /\ pc = "write" /\ dir.tmp = UnreadOf(dir)
  /\ maybe' = {d \in maybe : d.tmp \in {NoFile, dir.tmp}} \cup {dir}
  /\ pc' = "mark"
  /\ UNCHANGED <<dir, offset, crashes, errors, unread, stored, settled>>

Mark == Op("mark", [dir EXCEPT !.marker = TRUE], "syncMark")
SyncMark == SyncDir("syncMark", "backup")

\* A backup of an earlier attempt is removed first.
Backup == Op("backup", [dir EXCEPT !.backup = dir.spool, !.spool = NoFile], "syncBackup")

\* Mutation: the backup goes before the new log and its cursor are durable.
SyncBackupRemoves ==
  /\ pc = "syncBackup"
  /\ dir' = [dir EXCEPT !.backup = NoFile] /\ maybe' = {dir'}
  /\ pc' = "swap"
  /\ UNCHANGED <<offset, crashes, errors, unread, stored, settled>>

SyncBackup == SyncDir("syncBackup", "swap")

Swap == Op("swap", [dir EXCEPT !.spool = dir.tmp, !.tmp = NoFile], "syncSwap")
SyncSwap == SyncDir("syncSwap", "reset")

Reset == Op("reset", [dir EXCEPT !.cursor = 0], "syncReset")
SyncReset == SyncDir("syncReset", "rmBackup")

\* removeMigrationArtifacts.
RemoveBackup == Op("rmBackup", [dir EXCEPT !.backup = NoFile], "rmTmp")
RemoveTmp == Op("rmTmp", [dir EXCEPT !.tmp = NoFile], "rmMarker")
RemoveMarker == Op("rmMarker", [dir EXCEPT !.marker = FALSE], "syncClean")
SyncClean == SyncDir("syncClean", "open")

\* The cursor must be a boundary of the log; otherwise it is set to zero, and
\* New returns.
Opened ==
  /\ pc = "open" /\ dir.spool # V1
  /\ LET ok == \E k \in 0 .. dir.spool : dir.cursor = V2At(k)
     IN /\ offset' = IF ok THEN dir.cursor ELSE 0
        /\ dir' = [dir EXCEPT !.cursor = offset']
        /\ maybe' = IF ok THEN maybe ELSE {dir'}
  /\ pc' = "opened"
  /\ UNCHANGED <<crashes, errors, unread, stored, settled>>

-----------------------------------------------------------------------------
(* The migrated log in use; Spool has the details. *)

Store ==
  /\ pc = "opened" /\ stored < MaxStored /\ V2At(dir.spool + 1) <= MaxBytes
  /\ dir' = [dir EXCEPT !.spool = dir.spool + 1]
  /\ maybe' = {[d EXCEPT !.spool = dir'.spool] : d \in maybe}
  /\ stored' = stored + 1
  /\ UNCHANGED <<pc, offset, crashes, errors, unread, settled>>

\* Mutation: the length of the header is forgotten.
CommitShort ==
  /\ pc = "opened" /\ offset < V2At(dir.spool)
  /\ offset' = offset + PayloadLen
  /\ dir' = [dir EXCEPT !.cursor = offset'] /\ maybe' = {dir'}
  /\ settled' = settled + 1
  /\ UNCHANGED <<pc, crashes, errors, unread, stored>>

Commit ==
  /\ pc = "opened" /\ offset < V2At(dir.spool)
  /\ offset' = offset + V2Size
  /\ dir' = [dir EXCEPT !.cursor = offset'] /\ maybe' = {dir'}
  /\ settled' = IF offset = V2At(settled) THEN settled + 1 ELSE settled
  /\ UNCHANGED <<pc, crashes, errors, unread, stored>>

\* The collector is stopped in good order.
Close ==
  /\ pc = "opened"
  /\ pc' = "down"
  /\ UNCHANGED <<dir, maybe, offset, crashes, errors, unread, stored, settled>>

-----------------------------------------------------------------------------
\* A file operation of New fails, and New returns its error.
Fail ==
  /\ pc \notin {"down", "opened", "discard"}
  /\ errors < MaxErrors /\ errors' = errors + 1
  /\ pc' = "down"
  /\ UNCHANGED <<dir, maybe, offset, crashes, unread, stored, settled>>

\* The process ends, and the machine may go down with it.
Crash ==
  /\ pc # "down"
  /\ crashes < MaxCrashes /\ crashes' = crashes + 1
  /\ dir' \in maybe /\ maybe' = {dir'}
  /\ pc' = "down"
  /\ UNCHANGED <<offset, errors, unread, stored, settled>>

Init ==
  /\ \E c \in {NoCursor} \cup {V1At(k) : k \in 0 .. Legacy} :
       dir = [spool |-> V1, backup |-> NoFile, tmp |-> NoFile, marker |-> FALSE,
              cursor |-> c]
  /\ maybe = {dir} /\ pc = "down" /\ offset = 0 /\ crashes = 0 /\ errors = 0
  /\ unread = UnreadOf(dir) /\ stored = 0 /\ settled = 0

StartStep ==
  \/ Boot \/ Discard \/ SyncDiscard
  \/ Begin \/ Refuse \/ WriteTmp \/ SyncTmp \/ Mark \/ SyncMark
  \/ Backup \/ SyncBackup \/ Swap \/ SyncSwap \/ Reset \/ SyncReset
  \/ RemoveBackup \/ RemoveTmp \/ RemoveMarker \/ SyncClean \/ Opened

Next == StartStep \/ Store \/ Commit \/ Close \/ Fail \/ Crash

Spec == Init /\ [][Next]_vars

\* A supervisor restarts the collector, and New runs to its end.
LiveSpec == Spec /\ WF_vars(StartStep)

-----------------------------------------------------------------------------
(* Properties. *)

File == NoFile .. Legacy + MaxStored

\* Types: the directory is one that a crash may leave, and the cursor, of whatever
\* format, is a record boundary of the log that it was written for.
TypeOK ==
  /\ {dir} \cup maybe \subseteq
       [spool : File, backup : File, tmp : File, marker : BOOLEAN,
        cursor : {NoCursor} \cup {V1At(k) : k \in 0 .. Legacy}
                   \cup {V2At(k) : k \in 0 .. Legacy + MaxStored}]
  /\ dir \in maybe
  /\ pc \in {"down", "discard", "syncDiscard", "open", "write", "mark", "syncMark",
             "backup", "syncBackup", "swap", "syncSwap", "reset", "syncReset",
             "rmBackup", "rmTmp", "rmMarker", "syncClean", "opened"}
  /\ offset \in {V2At(k) : k \in 0 .. Legacy + MaxStored}
  /\ crashes \in 0 .. MaxCrashes /\ errors \in 0 .. MaxErrors
  /\ unread \in 0 .. Legacy /\ stored \in 0 .. MaxStored
  /\ settled \in 0 .. unread + stored

\* Whatever a crash leaves, spool.log is the v1 log, or the v2 log with every
\* record, or it is missing and both the v1 backup and a complete temporary are
\* there: migrateV1 moves the log away only behind a durable marker and a
\* synchronized temporary, and recovery never promotes a partial one.
NothingDropped ==
  \A d \in maybe :
    \/ d.spool \in {V1, unread + stored}
    \/ ~Exists(d.spool) /\ d.backup = V1 /\ d.tmp = unread

\* The collector that opens the log reads from a place that skips no record: the
\* v1 cursor is never taken for a position in the v2 log, though it can be one.
NoneSkipped ==
  /\ pc = "opened" => offset <= V2At(settled) /\ dir.spool = unread + stored
  /\ \A d \in maybe : d.spool > 0 /\ ~Artifacts(d) => d.cursor <= V2At(settled)

\* Crashes and errors delay the start, and a restart between any two steps
\* converges: the log is opened in the end, unless what is unread of it does not fit.
Opens == []<>(pc = "opened" \/ (dir.spool = V1 /\ ~Fits(dir)))
=============================================================================
