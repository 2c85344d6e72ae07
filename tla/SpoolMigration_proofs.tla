------------------------ MODULE SpoolMigration_proofs ------------------------
(***************************************************************************)
(* NothingDropped and NoneSkipped for v1 logs of any length, records of    *)
(* any size, and any number of crashes, failing operations and records     *)
(* stored afterwards.                                                      *)
(*                                                                         *)
(* A directory that a crash may leave is in one of three stages: the v1    *)
(* log is in its place, or moved away, or migrated.  The invariant says    *)
(* how the stages of what a crash may leave can differ from the stage of   *)
(* the directory that the process sees, and what each place in New knows.  *)
(***************************************************************************)
EXTENDS SpoolMigration, FiniteSetTheorems, TLAPS

Cursor == {NoCursor} \cup {V1At(k) : k \in 0 .. Legacy}
            \cup {V2At(k) : k \in 0 .. Legacy + MaxStored}
Offsets == {V2At(k) : k \in 0 .. Legacy + MaxStored}
Dir == [spool : File, backup : File, tmp : File, marker : BOOLEAN, cursor : Cursor]

Records == unread + stored

\* recoverInterruptedMigration resets the cursor of such a log, unless it is empty.
Marked(d) == Exists(d.backup) \/ d.marker
Safe(d) == d.cursor <= V2At(settled) \/ Marked(d)

InPlace(d) ==
  /\ d.spool = V1 /\ d.backup = NoFile /\ d.tmp \in {NoFile} \cup 0 .. unread
  /\ UnreadOf(d) = unread /\ stored = 0 /\ settled = 0

MovedAway(d) ==
  /\ d.spool = NoFile /\ d.backup = V1 /\ d.tmp = unread /\ d.marker
  /\ UnreadOf(d) = unread /\ stored = 0 /\ settled = 0

Migrated(d) ==
  /\ d.spool = Records /\ d.tmp = NoFile
  /\ Records > 0 => Safe(d)

Staged(d) == InPlace(d) \/ MovedAway(d) \/ Migrated(d)

\* What a crash may leave is no further than dir.  While the swap is not durable,
\* recovery would go through the reset of the cursor once more, or the log is empty
\* and its cursor is the v1 cursor, which is no boundary of it.
Behind ==
  /\ InPlace(dir) => \A d \in maybe : InPlace(d)
  /\ MovedAway(dir) => \A d \in maybe : ~Migrated(d)
  /\ Migrated(dir) =>
       \/ \A d \in maybe : Migrated(d)
       \/ unread > 0 /\ Marked(dir)
       \/ unread = 0 /\ dir.cursor # 0
  /\ Migrated(dir) /\ dir.cursor = 0 => \A d \in maybe : Migrated(d) => Safe(d)

\* What New knows where it stands.
Place ==
  /\ pc \in {"discard", "syncDiscard"} => InPlace(dir) \/ (Migrated(dir) /\ Records = 0)
  /\ pc = "open" =>
       \/ InPlace(dir)
       \/ Migrated(dir) /\ (Records > 0 => dir.cursor <= V2At(settled) /\ ~Marked(dir))
  /\ pc = "write" => InPlace(dir) /\ Exists(dir.tmp)
  /\ pc \in {"mark", "syncMark"} =>
       /\ InPlace(dir) /\ dir.tmp = unread
       /\ \A d \in maybe : d.tmp \in {NoFile, unread}
  /\ pc = "syncMark" => dir.marker
  /\ pc = "backup" => InPlace(dir) /\ dir.tmp = unread /\ dir.marker /\ maybe = {dir}
  /\ pc \in {"syncBackup", "swap"} => MovedAway(dir)
  /\ pc = "syncBackup" => \A d \in maybe : d.tmp = unread
  /\ pc \in {"syncSwap", "reset", "syncReset"} => Migrated(dir) /\ Marked(dir)
  /\ pc \in {"reset", "syncReset"} => Records > 0 \/ \A d \in maybe : Migrated(d) /\ Safe(d)
  /\ pc = "syncReset" => dir.cursor = 0
  /\ pc \in {"rmBackup", "rmTmp", "rmMarker", "syncClean"} =>
       \A d \in maybe : Migrated(d) /\ d.cursor = 0
  /\ pc \in {"rmTmp", "rmMarker", "syncClean"} => dir.backup = NoFile
  /\ pc = "syncClean" => ~dir.marker
  /\ pc = "opened" =>
       /\ \A d \in maybe : Migrated(d) /\ Safe(d)
       /\ dir.cursor = offset /\ offset <= V2At(settled)
       /\ \E k \in 0 .. Records : offset = V2At(k)

Places == {"down", "discard", "syncDiscard", "open", "write", "mark", "syncMark",
           "backup", "syncBackup", "swap", "syncSwap", "reset", "syncReset",
           "rmBackup", "rmTmp", "rmMarker", "syncClean", "opened"}

Shape ==
  /\ dir \in maybe /\ maybe \subseteq Dir /\ pc \in Places /\ offset \in Offsets
  /\ crashes \in 0 .. MaxCrashes /\ errors \in 0 .. MaxErrors
  /\ unread \in 0 .. Legacy /\ stored \in 0 .. MaxStored /\ settled \in 0 .. Records

IndInv == Shape /\ (\A d \in maybe : Staged(d)) /\ Behind /\ Place

-----------------------------------------------------------------------------
(* Positions, and what the v1 cursor leaves unread. *)

\* Positions of the two formats grow with the number of records.
LEMMA Positions ==
  /\ V2At(0) = 0 /\ V1At(0) = 0 /\ V1At(Legacy) \in Nat \ {0}
  /\ \A k \in Nat : V2At(k) \in Nat /\ V1At(k) \in Nat /\ V2At(k + 1) = V2At(k) + V2Size
  /\ \A j, k \in Nat : j < k => V2At(j) < V2At(k)
<1>1. V2Size \in Nat \ {0} /\ V1Size \in Nat \ {0} /\ Legacy \in Nat \ {0}
  BY MigrationAssumption DEF V2Size, V1Size
<1>2. ASSUME NEW j \in Nat, NEW k \in Nat, j < k PROVE V2At(j) < V2At(k)
  <2>1. (k - j) * V2Size > 0
    BY <1>1, <1>2
  <2>2. QED
    BY <1>1, <1>2, <2>1 DEF V2At
<1>3. QED
  BY <1>1, <1>2 DEF V2At, V1At

\* Records compare as their positions do.
LEMMA Growing ==
  ASSUME NEW j \in Nat, NEW k \in Nat
  PROVE  /\ V2At(j) \in Int /\ V2At(k) \in Int
         /\ (V2At(j) <= V2At(k) <=> j <= k)
         /\ (V2At(j) = V2At(k) <=> j = k)
<1>0. V2At(j) \in Int /\ V2At(k) \in Int
  BY MigrationAssumption DEF V2At, V2Size
<1>1. (j < k => V2At(j) < V2At(k)) /\ (k < j => V2At(k) < V2At(j))
  BY Positions, Zenon
<1>2. j < k \/ j = k \/ k < j
  OBVIOUS
<1>3. CASE j < k
  BY <1>0, <1>1, <1>3
<1>4. CASE j = k
  BY <1>0, <1>1, <1>4
<1>5. CASE k < j
  BY <1>0, <1>1, <1>5
<1>6. QED
  BY <1>0, <1>2, <1>3, <1>4, <1>5, Zenon

\* The unread records are a number of records of the v1 log, the cursor decides how
\* many, and a v1 cursor that leaves none unread is not the start of the log.
LEMMA Unread ==
  ASSUME NEW d
  PROVE  /\ UnreadOf(d) \in 0 .. Legacy
         /\ \A e : e.cursor = d.cursor => UnreadOf(e) = UnreadOf(d)
         /\ UnreadOf(d) = 0 => d.cursor # 0
<1> DEFINE S == {k \in 1 .. Legacy : V1At(k) > d.cursor}
<1>1. IsFiniteSet(1 .. Legacy) /\ Cardinality(1 .. Legacy) = Legacy
  BY FS_Interval, MigrationAssumption
<1>2. IsFiniteSet(S) /\ Cardinality(S) <= Legacy /\ Cardinality(S) \in Nat
  BY <1>1, FS_Subset, FS_CardinalityType
<1>3. ASSUME UnreadOf(d) = 0, d.cursor = 0 PROVE FALSE
  <2>1. Cardinality(S) = 0
    BY <1>3, Positions, MigrationAssumption, Zenon DEF UnreadOf
  <2>2. S = {}
    BY <1>2, <2>1, FS_EmptySet, Zenon
  <2>3. Legacy \in S
    BY <1>3, Positions, MigrationAssumption
  <2>4. QED
    BY <2>2, <2>3, Zenon
<1>4. QED
  BY <1>2, <1>3, MigrationAssumption DEF UnreadOf

\* Positions that a cursor may have.
LEMMA Cursors ==
  /\ Cursor \subseteq Int /\ 0 \in Cursor
  /\ Offsets \subseteq Cursor /\ 0 \in Offsets
  /\ \A k \in 0 .. Legacy + MaxStored : V2At(k) \in Offsets
  BY Positions, MigrationAssumption DEF Cursor, Offsets, NoCursor

-----------------------------------------------------------------------------
(* The steps. *)

\* The log is in place before the first start.
LEMMA InitInv == Init => IndInv
<1> SUFFICES ASSUME Init PROVE IndInv
  BY Zenon
<1>1. UnreadOf(dir) \in 0 .. Legacy
  BY Unread, Zenon
<1>2. Shape
  <2>1. dir.cursor \in Cursor
    BY DEF Init, Cursor
  <2>2. QED
    BY <1>1, <2>1, Cursors, MigrationAssumption
    DEF Init, Shape, Dir, Places, File, NoFile, V1, NoCursor, Records
<1>3. InPlace(dir) /\ maybe = {dir} /\ pc = "down"
  BY DEF Init, InPlace
<1>4. ~MovedAway(dir) /\ ~Migrated(dir)
  BY <1>2, <1>3 DEF Shape, InPlace, MovedAway, Migrated, V1, NoFile, Records
<1>5. QED
  BY <1>2, <1>3, <1>4, Zenon DEF IndInv, Staged, Behind, Place

\* A step that touches neither the directory nor the records keeps the stages.
LEMMA Kept ==
  ASSUME IndInv, UNCHANGED <<dir, maybe, unread, stored, settled>>
  PROVE  (\A d \in maybe : Staged(d))' /\ Behind'
  BY DEF IndInv, Staged, InPlace, MovedAway, Migrated, Safe, Marked, Records, Behind

\* The stages exclude each other.
LEMMA Apart ==
  ASSUME Shape'
  PROVE  /\ InPlace(dir)' => ~MovedAway(dir)' /\ ~Migrated(dir)'
         /\ MovedAway(dir)' => ~Migrated(dir)'
<1>1. Records' \in Nat /\ V1 # NoFile /\ V1 \notin Nat /\ NoFile \notin Nat
  <2>1. unread' \in Nat /\ stored' \in Nat
    BY MigrationAssumption DEF Shape
  <2>2. \A a, b \in Nat : a + b \in Nat
    OBVIOUS
  <2>3. Records' \in Nat
    BY <2>1, <2>2, Zenon DEF Records
  <2>4. QED
    BY <2>3 DEF V1, NoFile
<1>2. /\ InPlace(dir)' => dir'.spool = V1
      /\ MovedAway(dir)' => dir'.spool = NoFile
      /\ Migrated(dir)' => dir'.spool = Records'
  BY Zenon DEF InPlace, MovedAway, Migrated, V1, NoFile
<1>3. QED
  BY <1>1, <1>2, Zenon

\* A directory of its own, after a sync or a crash, is in a stage if it was in one.
LEMMA Alone ==
  ASSUME Shape', Staged(dir)', maybe' = {dir'}
  PROVE  (\A d \in maybe : Staged(d))' /\ Behind'
<1>1. dir'.cursor = 0 => Safe(dir)'
  BY Positions DEF Safe, Shape, Records
<1>2. QED
  BY <1>1, Apart, Zenon DEF Staged, Behind

\* A sync of a directory that a crash can leave.
LEMMA Synced ==
  ASSUME IndInv, Shape', UNCHANGED <<dir, unread, stored, settled>>, maybe' = {dir}
  PROVE  (\A d \in maybe : Staged(d))' /\ Behind'
<1>1. Staged(dir)'
  BY Zenon DEF IndInv, Shape, Staged, InPlace, MovedAway, Migrated, Safe, Marked, Records
<1>2. QED
  BY <1>1, Alone, Zenon

\* A step that leaves the v1 log in its place.
LEMMA StaysInPlace ==
  ASSUME IndInv, Shape', UNCHANGED <<unread, stored, settled>>,
         maybe' \subseteq maybe \cup {dir'}, InPlace(dir), InPlace(dir)'
  PROVE  (\A d \in maybe : Staged(d))' /\ Behind'
<1>1. \A d \in maybe : InPlace(d)
  BY Zenon DEF IndInv, Behind
<1>2. (\A d \in maybe : InPlace(d))'
  BY <1>1, Zenon DEF InPlace
<1>3. ~MovedAway(dir)' /\ ~Migrated(dir)'
  BY Apart, Zenon
<1>4. QED
  BY <1>2, <1>3, Zenon DEF Staged, Behind

\* A step on a migrated log: what a crash may leave still is not ahead of it.
LEMMA StaysMigrated ==
  ASSUME IndInv, Shape', UNCHANGED <<unread, stored, settled>>,
         maybe' = maybe \cup {dir'}, Migrated(dir)',
         \/ \A d \in maybe : Migrated(d)
         \/ unread > 0 /\ Marked(dir)'
         \/ unread = 0 /\ dir'.cursor # 0,
         dir'.cursor = 0 => \A d \in maybe : Migrated(d) => Safe(d)
  PROVE  (\A d \in maybe : Staged(d))' /\ Behind'
<1>1. (\A d \in maybe : Staged(d))'
  BY DEF IndInv, Staged, InPlace, MovedAway, Migrated, Safe, Marked, Records
<1>2. ~InPlace(dir)' /\ ~MovedAway(dir)'
  BY Apart, Zenon
<1>3. dir'.cursor = 0 => Safe(dir)'
  BY Positions DEF Safe, Shape, Records
<1>4. dir'.cursor = 0 => (\A d \in maybe : Migrated(d) => Safe(d))'
  BY <1>3, Zenon DEF Migrated, Safe, Marked, Records
<1>5. \/ (\A d \in maybe : Migrated(d))'
      \/ unread' > 0 /\ Marked(dir)'
      \/ unread' = 0 /\ dir'.cursor # 0
  BY Zenon DEF Migrated, Safe, Marked, Records
<1>6. QED
  BY <1>1, <1>2, <1>4, <1>5, Zenon DEF Behind

\* spool.log tells the stage.
LEMMA Stages ==
  ASSUME IndInv
  PROVE  /\ dir.spool = V1 => InPlace(dir)
         /\ dir.spool = NoFile => MovedAway(dir)
         /\ dir.spool \notin {V1, NoFile} => Migrated(dir) /\ dir.spool = Records
         /\ InPlace(dir) => dir.spool = V1
         /\ MovedAway(dir) => dir.spool = NoFile
         /\ Migrated(dir) => dir.spool \in Nat
  BY DEF IndInv, Shape, Staged, InPlace, MovedAway, Migrated, V1, NoFile, Records

\* recoverInterruptedMigration decides where to go on.
LEMMA BootInv == ASSUME IndInv, Boot PROVE IndInv'
<1>1. UNCHANGED <<dir, maybe, offset, crashes, errors, unread, stored, settled>>
  BY Zenon DEF Boot, Op, IndInv, Shape
<1>2. pc' = Branch(dir)
  BY Zenon DEF Boot, Op
<1>3. Shape'
  BY <1>1, <1>2, Zenon DEF IndInv, Shape, Places, Branch, Records
<1>4. Place'
  <2>1. CASE dir.spool = V1
    <3>1. InPlace(dir)'
      BY <1>1, <2>1, Stages, Zenon DEF InPlace
    <3>2. pc' \in {"open", "discard"}
      BY <1>2, <2>1 DEF Branch, Exists, V1, NoFile, IsV2
    <3>3. QED
      BY <3>1, <3>2, Zenon DEF Place
  <2>2. CASE dir.spool = NoFile
    <3>1. MovedAway(dir)'
      BY <1>1, <2>2, Stages, Zenon DEF MovedAway
    <3>2. pc' = "swap"
      BY <1>2, <2>2, Stages
      DEF Branch, Exists, Artifacts, MovedAway, V1, NoFile, IndInv, Shape
    <3>3. QED
      BY <3>1, <3>2, Zenon DEF Place
  <2>3. CASE dir.spool \notin {V1, NoFile}
    <3>1. Migrated(dir) /\ dir.spool = Records /\ Records \in Nat
      BY <2>3, Stages, Zenon DEF IndInv, Shape, Records
    <3>2. Migrated(dir)' /\ Records' = Records /\ (Marked(dir)' <=> Marked(dir))
      BY <1>1, <3>1, Zenon DEF Migrated, Safe, Marked, Records
    <3>3. CASE pc' = "open"
      <4>1. ~Marked(dir)
        BY <1>2, <3>1, <3>3, Zenon DEF Branch, Artifacts, Marked, Exists, NoFile
      <4>2. Records > 0 => dir.cursor <= V2At(settled)
        BY <3>1, <4>1, Zenon DEF Migrated, Safe
      <4>3. QED
        BY <1>1, <3>2, <3>3, <4>1, <4>2, Zenon DEF Place
    <3>4. CASE pc' = "reset"
      BY <1>2, <3>1, <3>2, <3>4, Zenon DEF Branch, Place, IsV2, Marked, Exists, NoFile
    <3>5. CASE pc' = "discard"
      BY <1>2, <3>1, <3>2, <3>5
      DEF Branch, Place, IsV2, Marked, Exists, NoFile, Artifacts, Migrated
    <3>6. QED
      BY <1>2, <2>3, <3>3, <3>4, <3>5, Zenon DEF Branch, Exists
  <2>4. QED
    BY <2>1, <2>2, <2>3, Zenon
<1>5. QED
  BY <1>1, <1>3, <1>4, Kept, Zenon DEF IndInv

\* Discarding what a migration derived from the v1 log, or from an empty one.
LEMMA DiscardInv == ASSUME IndInv, Discard \/ SyncDiscard PROVE IndInv'
<1>0. UNCHANGED <<offset, crashes, unread, stored, settled>> /\ Records' = Records
  BY SMTT(30) DEF Discard, SyncDiscard, SyncDir, Records
<1>1. CASE Discard
  <2>1. PICK tmp \in {dir.tmp, NoFile}, marker \in {dir.marker, FALSE},
             backup \in {dir.backup, NoFile} :
          dir' = [dir EXCEPT !.tmp = tmp, !.marker = marker, !.backup = backup]
    BY <1>1, Zenon DEF Discard
  <2>2. dir' \in Dir /\ dir'.cursor = dir.cursor /\ dir'.spool = dir.spool
        /\ dir'.tmp = tmp /\ dir'.backup = backup /\ dir'.marker = marker
    <3>1. dir \in Dir /\ NoFile \in File
      BY MigrationAssumption DEF IndInv, Shape, File, NoFile
    <3>2. QED
      BY <2>1, <3>1, Zenon DEF Dir
  <2>3. maybe' = maybe \cup {dir'} /\ errors' \in 0 .. MaxErrors /\ pc' = "syncDiscard"
    BY <1>1, MigrationAssumption DEF Discard, IndInv, Shape
  <2>4. Shape'
    BY <1>0, <2>2, <2>3, SMTT(30) DEF IndInv, Shape, Places
  <2>5. CASE InPlace(dir)
    <3>1. InPlace(dir)'
      BY <1>0, <2>2, <2>5, Unread, SMTT(30) DEF InPlace
    <3>2. QED
      BY <1>0, <2>3, <2>4, <2>5, <3>1, StaysInPlace, Zenon DEF IndInv, Place
  <2>6. CASE Migrated(dir) /\ Records = 0
    <3>1. Migrated(dir)'
      BY <1>0, <2>2, <2>6, SMTT(30) DEF Migrated
    <3>2. \/ \A d \in maybe : Migrated(d)
          \/ unread = 0 /\ dir'.cursor # 0
      BY <2>2, <2>6, MigrationAssumption DEF IndInv, Behind, Records, Shape
    <3>3. dir'.cursor = 0 => \A d \in maybe : Migrated(d) => Safe(d)
      BY <2>2, <2>6, SMTT(30) DEF IndInv, Behind
    <3>4. QED
      BY <1>0, <2>3, <2>4, <2>6, <3>1, <3>2, <3>3, StaysMigrated, SMTT(60) DEF IndInv, Place
  <2>7. QED
    BY <1>1, <2>5, <2>6, Zenon DEF Discard, IndInv, Place
<1>2. CASE SyncDiscard
  <2>1. dir' = dir /\ errors' = errors /\ pc' = "open" /\ pc = "syncDiscard"
    BY <1>2, Zenon DEF SyncDiscard, SyncDir
  <2>2. CASE InPlace(dir)
    <3>1. \A d \in maybe' : d = dir \/ \E e \in maybe : d = [dir EXCEPT !.tmp = e.tmp]
      BY <1>2, Zenon DEF SyncDiscard, SyncDir
    <3>2. dir \in maybe'
      BY <1>2, Zenon DEF SyncDiscard, SyncDir
    <3>3. \A d \in maybe : InPlace(d)
      BY <2>2, Zenon DEF IndInv, Behind
    <3>4. ASSUME NEW e \in maybe PROVE [dir EXCEPT !.tmp = e.tmp] \in Dir
      BY Zenon DEF IndInv, Shape, Dir
    <3>5. Shape'
      BY <1>0, <2>1, <3>1, <3>2, <3>4, Zenon DEF IndInv, Shape, Places
    <3>6. ASSUME NEW e \in maybe PROVE InPlace([dir EXCEPT !.tmp = e.tmp])
      <4>1. UnreadOf([dir EXCEPT !.tmp = e.tmp]) = UnreadOf(dir)
        BY Unread DEF IndInv, Shape, Dir
      <4>2. QED
        BY <2>2, <3>3, <4>1, Zenon DEF InPlace, IndInv, Shape, Dir
    <3>7. \A d \in maybe' : InPlace(d)
      BY <2>2, <3>1, <3>6
    <3>8. (\A d \in maybe : InPlace(d))' /\ InPlace(dir)'
      BY <1>0, <2>1, <2>2, <3>7, Zenon DEF InPlace
    <3>9. ~MovedAway(dir)' /\ ~Migrated(dir)'
      BY <3>5, <3>8, Apart, Zenon
    <3>10. QED
      BY <2>1, <3>5, <3>8, <3>9, Zenon DEF IndInv, Staged, Behind, Place
  <2>3. CASE Migrated(dir) /\ Records = 0
    <3>1. maybe' = {dir}
      BY <1>2, <2>3, Zenon DEF SyncDiscard, SyncDir, Migrated, Exists
    <3>2. Shape'
      BY <1>0, <2>1, <3>1, Zenon DEF IndInv, Shape, Places
    <3>3. Place'
      BY <1>0, <2>1, <2>3 DEF Migrated, Place
    <3>4. QED
      BY <1>0, <2>1, <3>1, <3>2, <3>3, Synced, Zenon DEF IndInv
  <2>4. QED
    BY <2>1, <2>2, <2>3, Zenon DEF IndInv, Place
<1>3. QED
  BY <1>1, <1>2, Zenon

\* migrateV1 up to the durable marker.
LEMMA CopyInv ==
  ASSUME IndInv, Begin \/ Refuse \/ WriteTmp \/ SyncTmp \/ Mark \/ SyncMark
  PROVE  IndInv'
<1>0. UNCHANGED <<offset, crashes, errors, unread, stored, settled>> /\ Records' = Records
  BY SMTT(30)
  DEF Begin, Refuse, WriteTmp, SyncTmp, Mark, SyncMark, Op, SyncDir, vars, Records
<1>1. InPlace(dir) /\ UnreadOf(dir) = unread /\ unread \in 0 .. Legacy
  BY Stages, Zenon
  DEF Begin, Refuse, WriteTmp, SyncTmp, Mark, SyncMark, Op, SyncDir, IndInv, Place, InPlace,
      Shape
<1>2. CASE Begin \/ WriteTmp
  <2>1. /\ maybe' = maybe \cup {dir'} /\ pc' = "write"
        /\ dir' = [dir EXCEPT !.tmp = dir'.tmp] /\ dir'.tmp \in 0 .. unread
    BY <1>1, <1>2, MigrationAssumption, SMTT(40)
    DEF Begin, WriteTmp, Op, IndInv, Shape, Dir, Place, InPlace, Exists
  <2>2. dir' \in Dir /\ dir'.cursor = dir.cursor /\ dir'.spool = dir.spool
        /\ dir'.backup = dir.backup
    BY <1>1, <2>1, MigrationAssumption DEF IndInv, Shape, Dir, File, NoFile
  <2>3. Shape'
    BY <1>0, <2>1, <2>2, Zenon DEF IndInv, Shape, Places
  <2>4. InPlace(dir)'
    BY <1>0, <1>1, <2>1, <2>2, Unread, Zenon DEF InPlace
  <2>5. Place'
    BY <1>1, <2>1, <2>4 DEF Place, Exists, NoFile
  <2>6. QED
    BY <1>0, <1>1, <2>1, <2>3, <2>4, <2>5, StaysInPlace, SMTT(30) DEF IndInv
<1>3. CASE Refuse
  <2>1. UNCHANGED vars /\ pc' = "open"
    BY <1>3, Zenon DEF Refuse, vars
  <2>2. Shape'
    BY <2>1, Zenon DEF vars, IndInv, Shape, Records
  <2>3. Place'
    BY <1>1, <2>1, Zenon DEF vars, Place, InPlace
  <2>4. QED
    BY <2>1, <2>2, <2>3, Kept, Zenon DEF IndInv, vars
<1>4. CASE SyncTmp
  <2>1. /\ dir' = dir /\ pc' = "mark" /\ dir.tmp = unread
        /\ maybe' \subseteq maybe /\ dir \in maybe'
        /\ \A d \in maybe' : d.tmp \in {NoFile, unread}
    BY <1>1, <1>4, Zenon DEF SyncTmp, IndInv, Shape
  <2>2. Shape' /\ InPlace(dir)'
    BY <1>0, <1>1, <2>1, Zenon DEF IndInv, Shape, Places, InPlace
  <2>3. Place'
    BY <1>0, <2>1, <2>2, Zenon DEF Place
  <2>4. QED
    BY <1>0, <1>1, <2>1, <2>2, <2>3, StaysInPlace, Zenon DEF IndInv
<1>5. CASE Mark
  <2>1. /\ maybe' = maybe \cup {dir'} /\ pc' = "syncMark"
        /\ dir' = [dir EXCEPT !.marker = TRUE] /\ dir.tmp = unread
        /\ \A d \in maybe : d.tmp \in {NoFile, unread}
    BY <1>5, Zenon DEF Mark, Op, IndInv, Place
  <2>2. dir' \in Dir /\ dir'.cursor = dir.cursor /\ dir'.spool = dir.spool
        /\ dir'.backup = dir.backup /\ dir'.tmp = dir.tmp /\ dir'.marker
    BY <2>1, Zenon DEF IndInv, Shape, Dir
  <2>3. Shape'
    BY <1>0, <2>1, <2>2, Zenon DEF IndInv, Shape, Places
  <2>4. InPlace(dir)'
    BY <1>0, <1>1, <2>1, <2>2, Unread, Zenon DEF InPlace
  <2>5. Place'
    BY <1>0, <2>1, <2>2, <2>4, Zenon DEF Place
  <2>6. QED
    BY <1>0, <1>1, <2>1, <2>3, <2>4, <2>5, StaysInPlace DEF IndInv
<1>6. CASE SyncMark
  <2>1. dir' = dir /\ pc' = "backup" /\ dir.tmp = unread /\ dir.marker
    BY <1>6, Zenon DEF SyncMark, SyncDir, IndInv, Place
  <2>2. \A e \in maybe : Exists(e.tmp) => [dir EXCEPT !.tmp = e.tmp] = dir
    BY <1>6, <2>1, Zenon DEF SyncMark, SyncDir, IndInv, Place, Exists, Shape, Dir
  <2>3. maybe' = {dir}
    BY <1>6, <2>2, Zenon DEF SyncMark, SyncDir
  <2>4. Shape' /\ InPlace(dir)'
    BY <1>0, <1>1, <2>1, <2>3, Zenon DEF IndInv, Shape, Places, InPlace
  <2>5. Place'
    BY <1>0, <2>1, <2>3, <2>4, Zenon DEF Place
  <2>6. QED
    BY <1>0, <2>1, <2>3, <2>4, <2>5, Synced, Zenon DEF IndInv
<1>7. QED
  BY <1>2, <1>3, <1>4, <1>5, <1>6, Zenon

\* migrateV1 puts the new log in the place of the old one.
LEMMA SwapInv ==
  ASSUME IndInv, Backup \/ SyncBackup \/ Swap \/ SyncSwap
  PROVE  IndInv'
<1>0. UNCHANGED <<offset, crashes, errors, unread, stored, settled>> /\ Records' = Records
  BY Zenon DEF Backup, SyncBackup, Swap, SyncSwap, Op, SyncDir, Records
<1>1. CASE Backup
  <2>1. /\ InPlace(dir) /\ dir.tmp = unread /\ dir.marker /\ maybe = {dir}
        /\ dir' = [dir EXCEPT !.backup = dir.spool, !.spool = NoFile]
        /\ maybe' = {dir, dir'} /\ pc' = "syncBackup" /\ dir \in Dir
    BY <1>1, Zenon DEF Backup, Op, IndInv, Place, Shape
  <2>2. /\ dir' \in Dir /\ dir'.cursor = dir.cursor /\ dir'.spool = NoFile
        /\ dir'.backup = V1 /\ dir'.tmp = unread /\ dir'.marker
    BY <2>1, MigrationAssumption, Zenon DEF InPlace, Dir, File, NoFile
  <2>3. Shape'
    BY <1>0, <2>1, <2>2, Zenon DEF IndInv, Shape, Places
  <2>4. MovedAway(dir)'
    BY <1>0, <2>1, <2>2, Unread, Zenon DEF InPlace, MovedAway
  <2>5. \A d \in maybe' : d = dir' \/ InPlace(d)
    BY <2>1, Zenon
  <2>6. \A d \in maybe' : d = dir' \/ (d.spool = V1 /\ V1 # Records)
    BY <2>5, MigrationAssumption DEF InPlace, IndInv, Shape, V1, Records
  <2>7. (\A d \in maybe : InPlace(d) \/ MovedAway(d))'
    BY <1>0, <2>4, <2>5, Zenon DEF InPlace, MovedAway
  <2>8. (\A d \in maybe : ~Migrated(d))'
    BY <1>0, <2>3, <2>4, <2>6, Apart, Zenon DEF Migrated
  <2>9. Place'
    BY <1>0, <2>1, <2>2, <2>4, Zenon DEF Place
  <2>10. QED
    BY <2>3, <2>4, <2>7, <2>8, <2>9, Apart, Zenon DEF IndInv, Staged, Behind, Shape
<1>2. CASE SyncBackup
  <2>1. /\ MovedAway(dir) /\ dir' = dir /\ pc' = "swap" /\ dir \in Dir
        /\ \A d \in maybe : d.tmp = unread
    BY <1>2, Zenon DEF SyncBackup, SyncDir, IndInv, Place, Shape
  <2>2. \A e \in maybe : [dir EXCEPT !.tmp = e.tmp] = dir
    BY <2>1, Zenon DEF MovedAway, Dir
  <2>3. maybe' = {dir}
    BY <1>2, <2>2, Zenon DEF SyncBackup, SyncDir
  <2>4. Shape' /\ MovedAway(dir)'
    BY <1>0, <2>1, <2>3, Zenon DEF IndInv, Shape, Places, MovedAway
  <2>5. Place'
    BY <2>1, <2>4, Zenon DEF Place
  <2>6. QED
    BY <1>0, <2>1, <2>3, <2>4, <2>5, Synced, Zenon DEF IndInv
<1>3. CASE Swap
  <2>1. /\ MovedAway(dir) /\ dir' = [dir EXCEPT !.spool = dir.tmp, !.tmp = NoFile]
        /\ maybe' = maybe \cup {dir'} /\ pc' = "syncSwap" /\ dir \in Dir
        /\ \A d \in maybe : ~Migrated(d)
    BY <1>3, Zenon DEF Swap, Op, IndInv, Place, Behind, Shape
  <2>2. /\ dir' \in Dir /\ dir'.cursor = dir.cursor /\ dir'.spool = unread
        /\ dir'.backup = V1 /\ dir'.tmp = NoFile /\ dir'.marker
    BY <2>1, MigrationAssumption, Zenon DEF MovedAway, Dir, File, NoFile
  <2>3. Shape'
    BY <1>0, <2>1, <2>2, Zenon DEF IndInv, Shape, Places
  <2>4. Marked(dir)'
    BY <2>2, Zenon DEF Marked
  <2>5. Migrated(dir)'
    BY <1>0, <2>1, <2>2, <2>4, MigrationAssumption
    DEF Migrated, MovedAway, Records, Safe, IndInv, Shape
  <2>6. (unread = 0 => dir.cursor # 0) /\ (unread = 0 \/ unread > 0)
    <3>1. UnreadOf(dir) = unread /\ unread \in Nat
      BY <2>1, MigrationAssumption DEF MovedAway, IndInv, Shape
    <3>2. UnreadOf(dir) = 0 => dir.cursor # 0
      BY Unread, Zenon
    <3>3. unread = 0 \/ unread > 0
      BY <3>1
    <3>4. QED
      BY <3>1, <3>2, <3>3, Zenon
  <2>7. Place'
    BY <2>1, <2>4, <2>5, Zenon DEF Place
  <2>8. \/ unread > 0 /\ Marked(dir)'
        \/ unread = 0 /\ dir'.cursor # 0
    BY <2>2, <2>4, <2>6, Zenon
  <2>9. (\A d \in maybe : Staged(d))' /\ Behind'
    BY <1>0, <2>1, <2>3, <2>5, <2>8, StaysMigrated, Zenon
  <2>10. QED
    BY <2>3, <2>7, <2>9, Zenon DEF IndInv
<1>4. CASE SyncSwap
  <2>1. Migrated(dir) /\ Marked(dir) /\ dir' = dir /\ pc' = "reset" /\ maybe' = {dir}
    BY <1>4, Zenon DEF SyncSwap, SyncDir, IndInv, Place, Migrated, Exists
  <2>2. Shape' /\ Migrated(dir)' /\ Marked(dir)' /\ Safe(dir)'
    BY <1>0, <2>1, SMTT(30) DEF IndInv, Shape, Places, Migrated, Marked, Safe
  <2>3. Place'
    BY <2>1, <2>2, Zenon DEF Place
  <2>4. QED
    BY <1>0, <2>1, <2>2, <2>3, Synced, Zenon DEF IndInv
<1>5. QED
  BY <1>1, <1>2, <1>3, <1>4, Zenon

\* The cursor of the migrated log is reset, and what the migration left is removed.
LEMMA CleanInv ==
  ASSUME IndInv,
         Reset \/ SyncReset \/ RemoveBackup \/ RemoveTmp \/ RemoveMarker \/ SyncClean
  PROVE  IndInv'
<1>0. UNCHANGED <<offset, crashes, errors, unread, stored, settled>> /\ Records' = Records
  BY Zenon DEF Reset, SyncReset, RemoveBackup, RemoveTmp, RemoveMarker, SyncClean, Op, SyncDir,
         Records
<1>1. dir \in maybe /\ dir \in Dir /\ Migrated(dir)
  BY Zenon DEF Reset, SyncReset, RemoveBackup, RemoveTmp, RemoveMarker, SyncClean, Op, SyncDir,
         IndInv, Place, Shape
<1>2. CASE Reset
  <2>1. /\ dir' = [dir EXCEPT !.cursor = 0] /\ maybe' = maybe \cup {dir'}
        /\ pc' = "syncReset" /\ Marked(dir)
        /\ Records > 0 \/ \A d \in maybe : Migrated(d) /\ Safe(d)
    BY <1>2, Zenon DEF Reset, Op, IndInv, Place
  <2>2. /\ dir' \in Dir /\ dir'.cursor = 0 /\ dir'.spool = dir.spool
        /\ dir'.backup = dir.backup /\ dir'.tmp = dir.tmp /\ dir'.marker = dir.marker
    BY <1>1, <2>1, Cursors, Zenon DEF Dir
  <2>3. Shape'
    BY <1>0, <2>1, <2>2, Zenon DEF IndInv, Shape, Places
  <2>4. Marked(dir)' /\ Safe(dir)'
    BY <2>1, <2>2, Zenon DEF Marked, Safe
  <2>5. Migrated(dir)'
    BY <1>0, <1>1, <2>2, <2>4, Zenon DEF Migrated
  <2>6. (unread > 0 /\ Marked(dir)') \/ \A d \in maybe : Migrated(d)
    <3>1. CASE stored = 0
      BY <2>1, <2>4, <3>1, MigrationAssumption DEF Records, IndInv, Shape
    <3>2. CASE stored # 0
      BY <3>2, Zenon DEF IndInv, Staged, InPlace, MovedAway
    <3>3. QED
      BY <3>1, <3>2, Zenon
  <2>7. \A d \in maybe : Migrated(d) => Safe(d)
    BY <2>1, Zenon DEF Migrated
  <2>8. (\A d \in maybe : Migrated(d) /\ Safe(d))' \/ Records' > 0
    BY <1>0, <2>1, <2>4, <2>5, Zenon DEF Migrated, Safe, Marked
  <2>9. Place'
    BY <2>1, <2>2, <2>4, <2>5, <2>8, Zenon DEF Place
  <2>10. QED
    BY <1>0, <2>1, <2>3, <2>5, <2>6, <2>7, <2>9, StaysMigrated, Zenon DEF IndInv
<1>3. CASE SyncReset \/ SyncClean
  <2>1. /\ dir' = dir /\ maybe' = {dir} /\ dir.cursor = 0
        /\ pc' \in {"rmBackup", "open"} /\ (pc' = "open" => ~Marked(dir))
    BY <1>1, <1>3, Zenon DEF SyncReset, SyncClean, SyncDir, IndInv, Place, Migrated, Exists, Marked
  <2>2. Shape' /\ Migrated(dir)' /\ (pc' = "open" => ~Marked(dir)')
    BY <1>0, <1>1, <2>1, Zenon DEF IndInv, Shape, Places, Migrated, Marked, Safe
  <2>3. V2At(settled)' >= 0
    BY <1>0, Positions, MigrationAssumption DEF IndInv, Shape, Records
  <2>4. Place'
    BY <2>1, <2>2, <2>3, Zenon DEF Place
  <2>5. QED
    BY <1>0, <2>1, <2>2, <2>4, Synced, Zenon DEF IndInv
<1>4. CASE RemoveBackup \/ RemoveTmp \/ RemoveMarker
  <2>1. /\ dir' \in {[dir EXCEPT !.backup = NoFile], [dir EXCEPT !.tmp = NoFile],
                     [dir EXCEPT !.marker = FALSE]}
        /\ maybe' = maybe \cup {dir'} /\ \A d \in maybe : Migrated(d) /\ d.cursor = 0
        /\ pc' \in {"rmTmp", "rmMarker", "syncClean"}
    BY <1>4, Zenon DEF RemoveBackup, RemoveTmp, RemoveMarker, Op, IndInv, Place
  <2>2. /\ dir' \in Dir /\ dir'.cursor = 0 /\ dir'.spool = dir.spool /\ dir'.tmp = NoFile
    BY <1>1, <2>1, MigrationAssumption, Zenon DEF Dir, Migrated, File, NoFile
  <2>3. dir'.backup = NoFile /\ (pc' = "syncClean" => ~dir'.marker)
    BY <1>1, <1>4, Zenon DEF RemoveBackup, RemoveTmp, RemoveMarker, Op, IndInv, Place, Dir
  <2>4. Shape'
    BY <1>0, <2>1, <2>2, Zenon DEF IndInv, Shape, Places
  <2>5. V2At(settled) >= 0
    BY Positions, MigrationAssumption DEF IndInv, Shape, Records
  <2>6. Migrated(dir)'
    BY <1>0, <1>1, <2>2, <2>5, Zenon DEF Migrated, Safe
  <2>7. (\A d \in maybe : Migrated(d) /\ d.cursor = 0)'
    BY <1>0, <2>1, <2>2, <2>6, Zenon DEF Migrated, Safe, Marked
  <2>8. Place'
    BY <2>1, <2>3, <2>7, Zenon DEF Place
  <2>9. \A d \in maybe : Safe(d)
    BY <2>1, <2>5, Zenon DEF Safe
  <2>10. QED
    BY <1>0, <2>1, <2>4, <2>6, <2>8, <2>9, StaysMigrated, Zenon DEF IndInv
<1>5. QED
  BY <1>2, <1>3, <1>4, Zenon

\* New returns: the cursor is a boundary of the log, and skips nothing.
LEMMA OpenedInv == ASSUME IndInv, Opened PROVE IndInv'
<1>0. /\ UNCHANGED <<crashes, errors, unread, stored, settled>> /\ Records' = Records
      /\ pc = "open" /\ pc' = "opened" /\ dir' = [dir EXCEPT !.cursor = offset']
  BY Zenon DEF Opened, Records
<1>1. /\ Migrated(dir) /\ dir.spool = Records /\ Records \in 0 .. Legacy + MaxStored
      /\ (Records > 0 => dir.cursor <= V2At(settled) /\ ~Marked(dir))
      /\ dir \in Dir /\ settled \in Nat
  <2>1. /\ ~InPlace(dir) /\ Records \in 0 .. Legacy + MaxStored
        /\ dir \in Dir /\ settled \in Nat
    BY Stages, MigrationAssumption DEF Opened, IndInv, Shape, Records
  <2>2. QED
    BY <1>0, <2>1, Zenon DEF IndInv, Place, Migrated
<1>2. CASE \E k \in 0 .. dir.spool : dir.cursor = V2At(k)
  <2>1. offset' = dir.cursor /\ maybe' = maybe /\ dir' = dir
    BY <1>0, <1>1, <1>2, Zenon DEF Opened, Dir
  <2>2. Shape'
    BY <1>0, <1>1, <1>2, <2>1, Cursors, MigrationAssumption DEF IndInv, Shape, Places
  <2>3. Records = 0 => dir.cursor = 0
    BY <1>1, <1>2, Positions
  <2>4. \A d \in maybe : Migrated(d)
    <3>1. CASE stored = 0
      BY <1>1, <2>3, <3>1, MigrationAssumption DEF IndInv, Behind, Records, Shape
    <3>2. CASE stored # 0
      BY <3>2, Zenon DEF IndInv, Staged, InPlace, MovedAway
    <3>3. QED
      BY <3>1, <3>2, Zenon
  <2>5. \A d \in maybe : Safe(d)
    <3>1. CASE Records = 0
      BY <1>1, <2>3, <2>4, <3>1, Zenon DEF IndInv, Behind
    <3>2. CASE Records > 0
      BY <2>4, <3>2, Zenon DEF Migrated
    <3>3. QED
      BY <1>1, <3>1, <3>2
  <2>6. (\A d \in maybe : Migrated(d) /\ Safe(d))'
    BY <1>0, <2>1, <2>4, <2>5, Zenon DEF Migrated, Safe, Marked
  <2>7. dir'.cursor = offset' /\ offset' <= V2At(settled)'
    <3>1. 0 <= V2At(settled)
      BY <1>1, Positions
    <3>2. QED
      BY <1>0, <1>1, <2>1, <2>3, <3>1
  <2>8. \E k \in 0 .. Records' : offset' = V2At(k)
    BY <1>0, <1>1, <1>2, <2>1, Zenon
  <2>9. Place'
    BY <1>0, <2>6, <2>7, <2>8, Zenon DEF Place
  <2>10. QED
    BY <1>0, <2>1, <2>2, <2>9, Kept, Zenon DEF IndInv
<1>3. CASE ~\E k \in 0 .. dir.spool : dir.cursor = V2At(k)
  <2>1. offset' = 0 /\ maybe' = {dir'}
    BY <1>3, Zenon DEF Opened
  <2>2. /\ dir' \in Dir /\ dir'.cursor = 0 /\ dir'.spool = dir.spool /\ dir'.tmp = dir.tmp
    BY <1>0, <1>1, <2>1, Cursors, Zenon DEF Dir
  <2>3. Shape'
    BY <1>0, <2>1, <2>2, Cursors, Zenon DEF IndInv, Shape, Places
  <2>4. V2At(settled)' >= 0 /\ V2At(0) = 0
    BY <1>0, <1>1, Positions
  <2>5. Safe(dir)'
    BY <2>2, <2>4, Zenon DEF Safe
  <2>6. Migrated(dir)'
    BY <1>0, <1>1, <2>2, <2>5, Zenon DEF Migrated
  <2>7. Place'
    BY <1>0, <1>1, <2>1, <2>2, <2>4, <2>5, <2>6, MigrationAssumption DEF Place
  <2>8. QED
    BY <2>1, <2>3, <2>6, <2>7, Alone, Zenon DEF IndInv, Staged
<1>4. QED
  BY <1>2, <1>3, Zenon

\* A record is stored: every directory that a crash may leave has the log with it.
LEMMA StoreInv == ASSUME IndInv, Store PROVE IndInv'
<1>1. /\ UNCHANGED <<offset, crashes, errors, unread, settled, pc>> /\ pc = "opened"
      /\ stored' = stored + 1 /\ stored < MaxStored /\ Records' = Records + 1
      /\ dir' = [dir EXCEPT !.spool = dir.spool + 1]
      /\ maybe' = {[d EXCEPT !.spool = dir'.spool] : d \in maybe}
  BY DEF Store, Records, IndInv, Shape
<1>2. /\ dir \in maybe /\ maybe \subseteq Dir /\ \A d \in maybe : Migrated(d) /\ Safe(d)
      /\ dir.cursor = offset /\ offset <= V2At(settled)
      /\ \E k \in 0 .. Records : offset = V2At(k)
  BY <1>1, Zenon DEF IndInv, Place, Shape
<1>3. Records \in Nat /\ Records + 1 \in File
  BY <1>1, MigrationAssumption DEF IndInv, Shape, Records, File, NoFile
<1>4. dir'.spool = Records + 1
  BY <1>1, <1>2, Zenon DEF Migrated, Dir
<1>5. ASSUME NEW d \in maybe
      PROVE  LET e == [d EXCEPT !.spool = Records + 1]
             IN /\ e \in Dir /\ e.spool = Records + 1 /\ e.tmp = d.tmp
                /\ e.backup = d.backup /\ e.marker = d.marker /\ e.cursor = d.cursor
  BY <1>2, <1>3, Zenon DEF Dir
<1>6. ASSUME NEW e \in maybe'
      PROVE  \E d \in maybe :
               /\ e \in Dir /\ e.spool = Records + 1 /\ e.tmp = d.tmp
               /\ e.backup = d.backup /\ e.marker = d.marker /\ e.cursor = d.cursor
  <2>1. PICK d \in maybe : e = [d EXCEPT !.spool = Records + 1]
    BY <1>1, <1>4, Zenon
  <2>2. QED
    BY <1>5, <2>1, Zenon
<1>7. dir' \in maybe' /\ dir'.cursor = offset
  BY <1>1, <1>2, <1>4, <1>5
<1>8. Shape'
  <2>1. stored' \in 0 .. MaxStored /\ settled' \in 0 .. Records'
    BY <1>1, <1>3, MigrationAssumption DEF IndInv, Shape
  <2>2. maybe' \subseteq Dir
    BY <1>6, Zenon
  <2>3. QED
    BY <1>1, <1>7, <2>1, <2>2, Zenon DEF IndInv, Shape
<1>9. (\A d \in maybe : Migrated(d) /\ Safe(d))'
  BY <1>1, <1>2, <1>6 DEF Migrated, Safe, Marked
<1>10. Place'
  BY <1>1, <1>2, <1>3, <1>7, <1>9 DEF Place
<1>11. QED
  BY <1>7, <1>8, <1>9, <1>10, Apart, Zenon DEF IndInv, Staged, Behind

\* The cursor moves over a record.
LEMMA CommitInv == ASSUME IndInv, Commit PROVE IndInv'
<1>1. /\ UNCHANGED <<crashes, errors, unread, stored, pc>> /\ pc = "opened"
      /\ Records' = Records /\ offset < V2At(dir.spool) /\ offset' = offset + V2Size
      /\ dir' = [dir EXCEPT !.cursor = offset'] /\ maybe' = {dir'}
      /\ settled' = IF offset = V2At(settled) THEN settled + 1 ELSE settled
  BY Zenon DEF Commit, Records
<1>2. /\ dir \in Dir /\ Migrated(dir) /\ dir.spool = Records
      /\ offset <= V2At(settled) /\ \E k \in 0 .. Records : offset = V2At(k)
  BY <1>1, Zenon DEF IndInv, Place, Shape, Migrated
<1>3. /\ Records \in 0 .. Legacy + MaxStored /\ settled \in 0 .. Records
      /\ Records \in Nat /\ settled \in Nat
  BY MigrationAssumption DEF IndInv, Shape, Records
<1>4. PICK k \in 0 .. Records : offset = V2At(k)
  BY <1>2, Zenon
<1>5. k \in Nat /\ k <= Records
  BY <1>3
<1>6. k < Records
  BY <1>1, <1>2, <1>3, <1>4, <1>5, Growing
<1>7. k <= settled /\ (offset = V2At(settled) <=> k = settled)
  BY <1>2, <1>3, <1>4, <1>5, Growing, Zenon
<1>8. offset' = V2At(k + 1) /\ offset' \in Offsets /\ offset' \in Cursor
  BY <1>1, <1>3, <1>4, <1>6, Positions, Cursors, MigrationAssumption, SMTT(30)
<1>9. settled' \in 0 .. Records /\ k + 1 <= settled'
  BY <1>1, <1>3, <1>6, <1>7
<1>10. offset' <= V2At(settled')
  <2>1. settled' \in Nat /\ k + 1 \in Nat
    BY <1>3, <1>5, <1>9
  <2>2. QED
    BY <1>8, <1>9, <2>1, Growing, Zenon
<1>11. /\ dir' \in Dir /\ dir'.cursor = offset'
       /\ dir'.spool = dir.spool /\ dir'.tmp = dir.tmp
  BY <1>1, <1>2, <1>8, Zenon DEF Dir
<1>12. Shape'
  BY <1>1, <1>8, <1>9, <1>11, Zenon DEF IndInv, Shape
<1>13. Migrated(dir)' /\ Safe(dir)'
  BY <1>1, <1>2, <1>10, <1>11, Zenon DEF Migrated, Safe
<1>14. \E j \in 0 .. Records' : offset' = V2At(j)
  BY <1>1, <1>3, <1>6, <1>8
<1>15. Place'
  BY <1>1, <1>10, <1>11, <1>13, <1>14, Zenon DEF Place
<1>16. QED
  BY <1>1, <1>12, <1>13, <1>15, Alone, Zenon DEF IndInv, Staged

\* The ends of a process: the next one starts from what a crash may leave.
LEMMA EndInv == ASSUME IndInv, Close \/ Fail \/ Crash PROVE IndInv'
<1>0. UNCHANGED <<offset, unread, stored, settled>> /\ pc' = "down" /\ Records' = Records
  BY Zenon DEF Close, Fail, Crash, Records
<1>1. Place'
  BY <1>0, Zenon DEF Place
<1>2. CASE Close \/ Fail
  <2>1. UNCHANGED <<dir, maybe, crashes>> /\ errors' \in 0 .. MaxErrors
    BY <1>2, MigrationAssumption DEF Close, Fail, IndInv, Shape
  <2>2. Shape'
    BY <1>0, <2>1, Zenon DEF IndInv, Shape, Places
  <2>3. QED
    BY <1>0, <1>1, <2>1, <2>2, Kept, Zenon DEF IndInv
<1>3. CASE Crash
  <2>1. /\ dir' \in maybe /\ maybe' = {dir'} /\ crashes' \in 0 .. MaxCrashes
        /\ errors' = errors
    BY <1>3, MigrationAssumption DEF Crash, IndInv, Shape
  <2>2. Shape'
    BY <1>0, <2>1, Zenon DEF IndInv, Shape, Places
  <2>3. Staged(dir)'
    BY <1>0, <2>1, Zenon DEF IndInv, Staged, InPlace, MovedAway, Migrated, Safe, Marked
  <2>4. QED
    BY <1>1, <2>1, <2>2, <2>3, Alone, Zenon DEF IndInv
<1>4. QED
  BY <1>2, <1>3, Zenon

\* A step that changes nothing.
LEMMA StutterInv == ASSUME IndInv, UNCHANGED vars PROVE IndInv'
<1>1. UNCHANGED <<dir, maybe, pc, offset, crashes, errors, unread, stored, settled>>
  BY Zenon DEF vars
<1>2. Shape'
  BY <1>1, Zenon DEF IndInv, Shape, Records
<1>3. /\ (InPlace(dir)' <=> InPlace(dir)) /\ (MovedAway(dir)' <=> MovedAway(dir))
      /\ (Migrated(dir)' <=> Migrated(dir)) /\ (Marked(dir)' <=> Marked(dir))
      /\ \A d \in maybe : (Migrated(d)' <=> Migrated(d)) /\ (Safe(d)' <=> Safe(d))
  BY <1>1, Zenon DEF InPlace, MovedAway, Migrated, Safe, Marked, Records
<1>4. Place'
  BY <1>1, <1>3 DEF IndInv, Place, Records
<1>5. QED
  BY <1>1, <1>2, <1>4, Kept, Zenon DEF IndInv

-----------------------------------------------------------------------------
(* The theorems. *)

\* Every step keeps the invariant.
LEMMA Invariance == Spec => []IndInv
<1>1. IndInv /\ [Next]_vars => IndInv'
  BY BootInv, DiscardInv, CopyInv, SwapInv, CleanInv, OpenedInv, StoreInv, CommitInv, Zenon,
     EndInv, StutterInv
  DEF Next, StartStep
<1>2. QED
  BY <1>1, InitInv, PTL DEF Spec

\* The types: the cursor, of whatever format, is a record boundary.
THEOREM TypeCorrect == Spec => []TypeOK
<1>1. IndInv => TypeOK
  BY Zenon DEF IndInv, Shape, TypeOK, Dir, Cursor, Offsets, Places, Records
<1>2. QED
  BY <1>1, Invariance, PTL

\* Whatever a crash leaves holds every record of the v1 log that was not read: it is
\* the v1 log, or the complete v2 log, or the backup with a complete temporary.
THEOREM Complete == Spec => []NothingDropped
<1>1. IndInv => NothingDropped
  BY Zenon DEF IndInv, NothingDropped, Staged, InPlace, MovedAway, Migrated, Records, Exists
<1>2. QED
  BY <1>1, Invariance, PTL

\* The collector reads from a place that skips no record, wherever it crashed.
THEOREM Unskipped == Spec => []NoneSkipped
<1>1. IndInv => NoneSkipped
  <2> SUFFICES ASSUME IndInv PROVE NoneSkipped
    BY Zenon
  <2>1. pc = "opened" => offset <= V2At(settled) /\ dir.spool = unread + stored
    BY Zenon DEF IndInv, Place, Shape, Migrated, Records
  <2>2. ASSUME NEW d \in maybe, d.spool > 0, ~Artifacts(d) PROVE d.cursor <= V2At(settled)
    <3>1. Migrated(d)
      BY <2>2 DEF IndInv, Staged, InPlace, MovedAway, V1, NoFile
    <3>2. ~Marked(d) /\ Records > 0
      BY <2>2, <3>1, Zenon DEF Artifacts, Marked, Migrated
    <3>3. QED
      BY <3>1, <3>2, Zenon DEF Migrated, Safe
  <2>3. QED
    BY <2>1, <2>2, Zenon DEF NoneSkipped
<1>2. QED
  BY <1>1, Invariance, PTL

=============================================================================
