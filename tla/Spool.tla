------------------------------- MODULE Spool --------------------------------
(***************************************************************************)
(* The collector's spool: a bounded write-ahead log with a cursor file     *)
(* (backend/internal/collector/spool/spool.go), driven by the collector's  *)
(* only loop, which enqueues a batch and then drains (collectAndSend in    *)
(* collector.go, DrainWithOptions and Send in transport/client.go).        *)
(*                                                                         *)
(* A file is a sequence of cells.  The record of payload p is the cells    *)
(* <<p, 1>>, <<p, 2>>, ... : the first stands for the magic, version and   *)
(* header size, the second for the length and the checksum, the others for *)
(* the payload.  So a record can be torn anywhere, and the walk from       *)
(* header to header can be led astray.  A damaged cell is <<0, n>>: read   *)
(* as a length it is n; read as the start of a header it passes the checks *)
(* for n = 1 (an unchecked flag changed), keeps only the magic for n = 2,  *)
(* and is garbage otherwise.                                               *)
(*                                                                         *)
(* log is what the process reads and writes, disk what the last successful *)
(* sync made durable.  A crash leaves disk, or a prefix of log that keeps  *)
(* what the two have in common.  A cursor file that was renamed into place *)
(* but whose directory sync failed is old or new after a restart; it is    *)
(* read only at start, so the choice is made at once.  The same goes for   *)
(* the rename that ends a compaction.                                      *)
(***************************************************************************)
EXTENDS Integers, Sequences, FiniteSetsExt

CONSTANTS
  Payload,      \* marshalled batches, positive numbers
  LenOf,        \* LenOf[p]: cells of payload p
  Invalid,      \* payloads that controllers refuse for good
  Endpoint,     \* the controllers
  MaxBytes,     \* maxBytes, in cells
  MaxPayload,   \* maxPayloadBytes, in cells
  MaxCrashes,   \* bound: ends of the collector process
  MaxErrors,    \* bound: failing file operations
  MaxDamage     \* bound: damaged cells

HeaderSize == 2   \* cells of a record header (16 bytes)
PrefixSize == 1   \* cells of a quarantine entry's prefix (8 bytes)
NoCursor == -1    \* there is no readable cursor file

ASSUME PayloadAssumption ==
  /\ Payload \subseteq Nat \ {0} /\ Invalid \subseteq Payload
  /\ LenOf \in [Payload -> Nat \ {0}]
ASSUME BoundAssumption ==
  /\ MaxBytes \in Nat /\ MaxPayload \in Nat /\ MaxPayload <= MaxBytes - HeaderSize
  /\ MaxCrashes \in Nat /\ MaxErrors \in Nat /\ MaxDamage \in Nat
  /\ Endpoint # {}

VARIABLES
  log,          \* spool.log
  disk,         \* its durable contents
  cursor,       \* spool.offset
  quarantine,   \* size of spool.quarantine.log, in cells
  open,         \* s.file # nil
  offset,       \* s.offset
  pc,           \* where the loop stands; "down": there is no process
  cur,          \* payload being enqueued or sent
  next,         \* nextOffset that Next returned
  crashes, errors, damage

\* History, read by the properties only.
VARIABLES
  stored,       \* payloads whose Enqueue returned nil
  settled,      \* payloads acknowledged, or refused for good
  evicted,      \* payloads that compaction evicted for lack of room
  aside,        \* payloads with cells in a quarantined segment
  harmed,       \* payloads that lost a cell to damage
  behind        \* payloads behind a damaged cell, or written where no walk leads

boundVars == <<crashes, errors, damage>>
ghostVars == <<stored, settled, evicted, aside, harmed, behind>>
vars == <<log, disk, cursor, quarantine, open, offset, pc, cur, next,
          boundVars, ghostVars>>

-----------------------------------------------------------------------------
(* The record format. *)

SizeOf(p) == HeaderSize + LenOf[p]
encodeRecord(p) == [k \in 1 .. SizeOf(p) |-> <<p, k>>]

LengthAt(f, q) ==
  LET c == f[q + 2]
  IN IF c[1] = 0 THEN c[2] ELSE IF c[2] = 2 THEN LenOf[c[1]] ELSE MaxPayload + 1

\* decodeHeader of the cells after position q.
ValidHeader(f, q) == f[q + 1][2] = 1 /\ LengthAt(f, q) <= MaxPayload
EndAt(f, q) == q + HeaderSize + LengthAt(f, q)

\* What a reader finds after position q.
Torn(f, q) ==
  q < Len(f) /\ (Len(f) - q >= HeaderSize =>
                   ValidHeader(f, q) /\ EndAt(f, q) > Len(f))
Broken(f, q) == Len(f) - q >= HeaderSize /\ ~ValidHeader(f, q)
Whole(f, q) ==
  Len(f) - q >= HeaderSize /\ ValidHeader(f, q) /\ EndAt(f, q) <= Len(f)

\* recordChecksum agrees with the header of the whole record after q.
Intact(f, q) ==
  /\ f[q + 1][1] # 0 /\ f[q + 2][1] # 0
  /\ \A k \in 2 .. EndAt(f, q) - q : f[q + k] = <<f[q + 2][1], k>>

\* The positions that scanLocked and recordBoundaryLocked reach.
Boundaries(f) ==
  LET walk[q \in 0 .. Len(f)] ==
        {q} \cup IF Whole(f, q) THEN walk[EndAt(f, q)] ELSE {}
  IN walk[0]

Unread(f, q) == SubSeq(f, q + 1, Len(f))
Owners(f) == {f[k][1] : k \in DOMAIN f} \ {0}

\* The payloads of the intact records after position q.
RecordsFrom(f, q) ==
  {f[b + 2][1] : b \in {c \in Boundaries(f) : c >= q /\ Whole(f, c) /\ Intact(f, c)}}

-----------------------------------------------------------------------------
Goto(l) == pc' = l
Errors(n) == errors + n <= MaxErrors /\ errors' = errors + n
NoFault == UNCHANGED boundVars
FileError(n) == Errors(n) /\ UNCHANGED <<crashes, damage>>

\* A payload number is used again once no file holds a cell of it.
Fresh(p) == p \notin Owners(log) \cup Owners(disk)

(* Enqueue. *)

\* A payload that is too large, and any payload while the spool is closed, is
\* refused, and the loop does not drain.
Refuse(p) ==
  /\ pc = "idle" /\ ~(open /\ LenOf[p] <= MaxPayload)
  /\ UNCHANGED vars

\* The loop has collected a batch.
Enqueue(p) ==
  /\ pc = "idle" /\ open /\ Fresh(p) /\ LenOf[p] <= MaxPayload
  /\ cur' = p
  /\ Goto(IF Len(log) + SizeOf(p) > MaxBytes THEN "compact" ELSE "append")
  /\ stored' = stored \ {p} /\ settled' = settled \ {p}
  /\ evicted' = evicted \ {p} /\ aside' = aside \ {p}
  /\ harmed' = harmed \ {p} /\ behind' = behind \ {p}
  /\ NoFault
  /\ UNCHANGED <<log, disk, cursor, quarantine, open, offset, next>>

\* Mutation: the budget forgets the record that is about to be appended.
KeptAll ==
  LET unread == Unread(log, offset)
      bounds == Boundaries(unread)
      start == Min({b \in bounds : Max(bounds) - b <= MaxBytes})
  IN SubSeq(unread, start + 1, Max(bounds))

\* Mutation: the budget is not used up.
KeptStrict ==
  LET unread == Unread(log, offset)
      bounds == Boundaries(unread)
      start == Min({b \in bounds : b = Max(bounds) \/ Max(bounds) - b < MaxBytes - SizeOf(cur)})
  IN SubSeq(unread, start + 1, Max(bounds))

\* trimV2ToFit: the newest complete unread records that leave room for cur.
Kept ==
  LET unread == Unread(log, offset)
      bounds == Boundaries(unread)
      start == Min({b \in bounds : Max(bounds) - b <= MaxBytes - SizeOf(cur)})
  IN SubSeq(unread, start + 1, Max(bounds))

Evicted == RecordsFrom(log, offset) \ RecordsFrom(Kept, 0)

\* Mutation: the cursor keeps its place in the old log.
CompactKeepsCursor ==
  /\ pc = "compact"
  /\ Goto("swap")
  /\ NoFault
  /\ UNCHANGED <<log, disk, cursor, quarantine, open, offset, cur, next, ghostVars>>

\* rewriteLocked up to persistCursorLocked(0).
CompactCursor ==
  /\ pc = "compact"
  /\ cursor' = 0
  /\ Goto("swap")
  /\ NoFault
  /\ UNCHANGED <<log, disk, quarantine, open, offset, cur, next, ghostVars>>

CompactFails ==
  /\ pc = "compact" /\ FileError(1)
  /\ cursor' \in {cursor, 0}
  /\ Goto("idle")
  /\ UNCHANGED <<log, disk, quarantine, open, offset, cur, next, ghostVars>>

\* rewriteLocked from the rename on.
Swap ==
  /\ pc = "swap"
  /\ log' = Kept /\ disk' = Kept
  /\ offset' = 0
  /\ evicted' = evicted \cup Evicted
  /\ Goto("append")
  /\ NoFault
  /\ UNCHANGED <<cursor, quarantine, open, cur, next, stored, settled, aside, harmed, behind>>

SwapFails ==
  /\ pc = "swap" /\ FileError(1)
  /\ Goto("idle")
  /\ UNCHANGED <<log, disk, cursor, quarantine, open, offset, cur, next, ghostVars>>

\* The directory sync or the reopening fails: the spool stays closed.
SwapUnsynced ==
  /\ pc = "swap" /\ FileError(1)
  /\ \/ log' = Kept /\ disk' = Kept /\ evicted' = evicted \cup Evicted
     \/ UNCHANGED <<log, disk, evicted>>
  /\ open' = FALSE
  /\ Goto("idle")
  /\ UNCHANGED <<cursor, quarantine, offset, cur, next, stored, settled, aside, harmed, behind>>

Write ==
  /\ pc = "append"
  /\ log' = log \o encodeRecord(cur)
  /\ Goto("sync")
  /\ NoFault
  /\ UNCHANGED <<disk, cursor, quarantine, open, offset, cur, next, ghostVars>>

\* rollbackAppendLocked(start) after the log grew to f: it truncates and syncs,
\* or the sync fails, or the truncation fails and the cells stay.
Rollback(f, start) ==
  \/ FileError(1) /\ log' = SubSeq(f, 1, start) /\ disk' = log'
  \/ FileError(2) /\ log' = SubSeq(f, 1, start) /\ UNCHANGED disk
  \/ FileError(2) /\ log' = f /\ UNCHANGED disk

AppendFails ==
  /\ pc = "append"
  /\ \E n \in 0 .. SizeOf(cur) - 1 :
       Rollback(log \o SubSeq(encodeRecord(cur), 1, n), Len(log))
  /\ Goto("idle")
  /\ UNCHANGED <<cursor, quarantine, open, offset, cur, next, ghostVars>>

\* The log before the record that is being written.
Written == IF pc = "sync" THEN SubSeq(log, 1, Len(log) - SizeOf(cur)) ELSE log

\* A reader comes from the start, or from offset, to the end of f.
Reached(f) == {offset, Len(f)} \subseteq Boundaries(f)

\* Enqueue returns nil.
Sync ==
  /\ pc = "sync"
  /\ disk' = log
  /\ stored' = stored \cup {cur}
  /\ behind' = behind \cup {p \in {cur} : ~Reached(Written)}
  /\ Goto("drain")
  /\ NoFault
  /\ UNCHANGED <<log, cursor, quarantine, open, offset, cur, next, settled,
                 evicted, aside, harmed>>

SyncFails ==
  /\ pc = "sync"
  /\ Rollback(log, Len(log) - SizeOf(cur))
  /\ Goto("idle")
  /\ UNCHANGED <<cursor, quarantine, open, offset, cur, next, ghostVars>>

-----------------------------------------------------------------------------
(* DrainWithOptions: Next, Send, Commit. *)

Draining == pc \in {"drain", "again"}

\* A per-cycle limit is reached; the first record of a cycle is always tried.
DrainStop ==
  /\ pc = "again"
  /\ Goto("idle")
  /\ NoFault
  /\ UNCHANGED <<log, disk, cursor, quarantine, open, offset, cur, next, ghostVars>>

NextEnd ==
  /\ Draining /\ offset >= Len(log)
  /\ Goto("idle")
  /\ NoFault
  /\ UNCHANGED <<log, disk, cursor, quarantine, open, offset, cur, next, ghostVars>>

\* quarantineLocked.
Quarantined(raw) ==
  IF quarantine + PrefixSize + Len(raw) > MaxBytes
    THEN PrefixSize + Len(raw) ELSE quarantine + PrefixSize + Len(raw)

\* recoverTornTailLocked.
NextTorn ==
  /\ Draining /\ Torn(log, offset)
  /\ log' = SubSeq(log, 1, offset) /\ disk' = log'
  /\ Goto("again")
  /\ NoFault
  /\ UNCHANGED <<cursor, quarantine, open, offset, cur, next, ghostVars>>

\* recoverStructuralCorruptionLocked: everything unread goes to quarantine.
NextBroken ==
  /\ Draining /\ Broken(log, offset)
  /\ quarantine' = Quarantined(Unread(log, offset))
  /\ aside' = aside \cup Owners(Unread(log, offset))
  /\ log' = SubSeq(log, 1, offset) /\ disk' = log'
  /\ Goto("again")
  /\ NoFault
  /\ UNCHANGED <<cursor, open, offset, cur, next, stored, settled, evicted, harmed, behind>>

\* Mutation: the cursor does not pass the record.
NextChecksumStays ==
  /\ Draining /\ Whole(log, offset) /\ ~Intact(log, offset)
  /\ quarantine' = Quarantined(SubSeq(log, offset + 1, EndAt(log, offset)))
  /\ aside' = aside \cup Owners(SubSeq(log, offset + 1, EndAt(log, offset)))
  /\ Goto("again")
  /\ NoFault
  /\ UNCHANGED <<log, disk, cursor, open, offset, cur, next, stored, settled,
                 evicted, harmed, behind>>

\* A checksum mismatch: the record goes to quarantine, the cursor passes it.
NextChecksum ==
  /\ Draining /\ Whole(log, offset) /\ ~Intact(log, offset)
  /\ quarantine' = Quarantined(SubSeq(log, offset + 1, EndAt(log, offset)))
  /\ aside' = aside \cup Owners(SubSeq(log, offset + 1, EndAt(log, offset)))
  /\ cursor' = EndAt(log, offset) /\ offset' = cursor'
  /\ Goto("again")
  /\ NoFault
  /\ UNCHANGED <<log, disk, open, cur, next, stored, settled, evicted, harmed, behind>>

\* A file operation of one of these recoveries fails; Next returns the error.
\* The quarantine may have grown, the log may be cut, the cursor may be moved.
RecoveryFails ==
  /\ Draining /\ FileError(1)
  /\ LET end == IF Whole(log, offset) THEN EndAt(log, offset) ELSE Len(log)
         raw == SubSeq(log, offset + 1, end)
     IN \/ /\ Torn(log, offset)
           /\ log' \in {log, SubSeq(log, 1, offset)}
           /\ UNCHANGED <<cursor, quarantine, aside>>
        \/ /\ Broken(log, offset) \/ (Whole(log, offset) /\ ~Intact(log, offset))
           /\ quarantine' \in {quarantine, Quarantined(raw)}
           /\ UNCHANGED <<log, cursor, aside>>
        \/ /\ Broken(log, offset)
           /\ quarantine' = Quarantined(raw) /\ aside' = aside \cup Owners(raw)
           /\ log' = SubSeq(log, 1, offset)
           /\ UNCHANGED cursor
        \/ /\ Whole(log, offset) /\ ~Intact(log, offset)
           /\ quarantine' = Quarantined(raw) /\ aside' = aside \cup Owners(raw)
           /\ cursor' = end
           /\ UNCHANGED log
  /\ Goto("idle")
  /\ UNCHANGED <<disk, open, offset, cur, next, stored, settled, evicted, harmed, behind>>

NextRecord ==
  /\ Draining /\ Whole(log, offset) /\ Intact(log, offset)
  /\ cur' = log[offset + 2][1]
  /\ next' = EndAt(log, offset)
  /\ Goto("send")
  /\ NoFault
  /\ UNCHANGED <<log, disk, cursor, quarantine, open, offset, ghostVars>>

\* What one endpoint answers: a matching acknowledgement, an error the client
\* takes for permanent (InvalidArgument, FailedPrecondition, OutOfRange), or any
\* other failure, a lost or foreign acknowledgement included.
Answers(p) == {"ack", "other"} \cup IF p \in Invalid THEN {"permanent"} ELSE {}

\* Send, with failover or mirroring: one acknowledgement is enough, and without
\* one a single permanent error among the joined ones drops the payload.
Send ==
  /\ pc = "send"
  /\ \E answer \in [Endpoint -> Answers(cur)] :
       LET some(a) == \E e \in Endpoint : answer[e] = a
           final == some("ack") \/ some("permanent")
       IN /\ settled' = IF final THEN settled \cup {cur} ELSE settled
          /\ Goto(IF final THEN "commit" ELSE "idle")
  /\ NoFault
  /\ UNCHANGED <<log, disk, cursor, quarantine, open, offset, cur, next, stored,
                 evicted, aside, harmed, behind>>

OnBoundary(q) == q \in Boundaries(log)

Commit ==
  /\ pc = "commit" /\ OnBoundary(next)
  /\ cursor' = next /\ offset' = next
  /\ Goto("again")
  /\ NoFault
  /\ UNCHANGED <<log, disk, quarantine, open, cur, next, ghostVars>>

CommitInvalid ==
  /\ pc = "commit" /\ ~OnBoundary(next)
  /\ Goto("idle")
  /\ NoFault
  /\ UNCHANGED <<log, disk, cursor, quarantine, open, offset, cur, next, ghostVars>>

CommitFails ==
  /\ pc = "commit" /\ OnBoundary(next) /\ FileError(1)
  /\ cursor' \in {cursor, next}
  /\ Goto("idle")
  /\ UNCHANGED <<log, disk, quarantine, open, offset, cur, next, ghostVars>>

-----------------------------------------------------------------------------
(* Start, stop, crash, damage. *)

Ended == crashes < MaxCrashes /\ crashes' = crashes + 1 /\ UNCHANGED <<errors, damage>>

\* Close syncs an open log.
Close ==
  /\ pc = "idle" /\ Ended
  /\ disk' = IF open THEN log ELSE disk
  /\ log' = disk'
  /\ open' = FALSE
  /\ Goto("down")
  /\ UNCHANGED <<cursor, quarantine, offset, cur, next, ghostVars>>

Common == Max({n \in 0 .. Min({Len(log), Len(disk)}) :
                 SubSeq(log, 1, n) = SubSeq(disk, 1, n)})

Crash ==
  /\ pc # "down" /\ Ended
  /\ log' \in {disk} \cup {SubSeq(log, 1, n) : n \in Common .. Len(log)}
  /\ disk' = log'
  /\ open' = FALSE
  /\ Goto("down")
  /\ UNCHANGED <<cursor, quarantine, offset, cur, next, ghostVars>>

\* A file that does not start with the magic is taken for a v1 log, which its
\* decoder refuses; SpoolMigration models the v1 logs that it accepts.
StartsV2(f) == f # <<>> => f[1] \in (Payload \X {1}) \cup {<<0, 1>>, <<0, 2>>}

\* Mutation: the cursor is not checked.
OpenTrustsCursor ==
  /\ pc = "down" /\ StartsV2(log)
  /\ LET end == Max(Boundaries(log))
         f == IF Torn(log, end) THEN SubSeq(log, 1, end) ELSE log
     IN log' = f /\ disk' = f
  /\ offset' = cursor
  /\ open' = TRUE
  /\ Goto("idle")
  /\ NoFault
  /\ UNCHANGED <<cursor, quarantine, cur, next, ghostVars>>

\* NewWithOptions: cut a torn tail, keep a broken one for Next, and start from
\* zero when the cursor is not at a record boundary.
Open ==
  /\ pc = "down" /\ StartsV2(log)
  /\ LET end == Max(Boundaries(log))
         f == IF Torn(log, end) THEN SubSeq(log, 1, end) ELSE log
         ok == cursor \in Boundaries(f)
     IN /\ log' = f /\ disk' = f
        /\ cursor' = IF ok THEN cursor ELSE 0
        /\ offset' = cursor'
  /\ open' = TRUE
  /\ Goto("idle")
  /\ NoFault
  /\ UNCHANGED <<quarantine, cur, next, ghostVars>>

\* A cell of the log changes on the medium.
Damage ==
  /\ damage < MaxDamage /\ damage' = damage + 1
  /\ \E k \in DOMAIN log, n \in 0 .. MaxPayload + 1 :
       /\ log' = [log EXCEPT ![k] = <<0, n>>]
       /\ disk' = IF k \in DOMAIN disk /\ disk[k] = log[k]
                    THEN [disk EXCEPT ![k] = <<0, n>>] ELSE disk
       /\ harmed' = harmed \cup {log[k][1]}
       /\ behind' = behind \cup Owners(Unread(log, k))
  /\ UNCHANGED <<cursor, quarantine, open, offset, pc, cur, next, crashes, errors,
                 stored, settled, evicted, aside>>

Init ==
  /\ log = <<>> /\ disk = <<>> /\ cursor = NoCursor /\ quarantine = 0
  /\ open = FALSE /\ offset = 0 /\ pc = "down" /\ cur = 0 /\ next = 0
  /\ crashes = 0 /\ errors = 0 /\ damage = 0
  /\ stored = {} /\ settled = {} /\ evicted = {} /\ aside = {} /\ harmed = {} /\ behind = {}

\* What the collector does while nothing fails.
LoopStep ==
  \/ \E p \in Payload : Enqueue(p) \/ Refuse(p)
  \/ CompactCursor \/ Swap \/ Write \/ Sync
  \/ NextEnd \/ NextTorn \/ NextBroken \/ NextChecksum \/ NextRecord
  \/ Send \/ Commit \/ CommitInvalid

FaultStep ==
  \/ CompactFails \/ SwapFails \/ SwapUnsynced \/ AppendFails \/ SyncFails
  \/ RecoveryFails \/ CommitFails \/ Close \/ Crash \/ Damage

Next == LoopStep \/ DrainStop \/ Open \/ FaultStep

Spec == Init /\ [][Next]_vars

\* The loop's timer keeps firing, a supervisor restarts the collector, and a
\* controller that is asked again and again acknowledges at last.
Fairness ==
  WF_vars(LoopStep) /\ WF_vars(Open) /\ SF_vars(Send /\ pc' = "commit")

LiveSpec == Spec /\ Fairness

-----------------------------------------------------------------------------
(* Properties. *)

Cell == (Payload \X (1 .. HeaderSize + MaxPayload)) \cup ({0} \X (0 .. MaxPayload + 1))

\* Types: positions stay inside the log's bound, also those that damaged lengths lead to.
TypeOK ==
  /\ log \in Seq(Cell) /\ disk \in Seq(Cell)
  /\ cursor \in -1 .. MaxBytes /\ offset \in 0 .. MaxBytes /\ next \in 0 .. MaxBytes
  /\ quarantine \in Nat /\ open \in BOOLEAN
  /\ pc \in {"down", "idle", "compact", "swap", "append", "sync", "drain",
             "again", "send", "commit"}
  /\ cur \in Payload \cup {0}
  /\ crashes \in 0 .. MaxCrashes /\ errors \in 0 .. MaxErrors /\ damage \in 0 .. MaxDamage
  /\ stored \cup settled \cup evicted \cup aside \cup harmed \cup behind \subseteq Payload \cup {0}

\* Where a restart begins to read f.
ReadFrom(f) == IF cursor \in Boundaries(f) THEN cursor ELSE 0

\* A batch that Enqueue took is settled by a controller, evicted for room, or it
\* will be read again, whatever fails: it is among the records that the running
\* process has yet to read, and among those that a restart from stable storage
\* would read.  Damage takes no batch that is stored ahead of the damaged cell,
\* unless a file operation fails as well, and a partial record that a failed
\* truncation left takes only batches that are written behind it.
NothingLost ==
  damage = 0 \/ errors = 0 =>
  \A p \in stored \ (settled \cup evicted \cup harmed \cup behind) :
    /\ p \in RecordsFrom(disk, ReadFrom(disk))
    /\ p \in RecordsFrom(log, IF open THEN offset ELSE ReadFrom(log))

-----------------------------------------------------------------------------
(* The spool implements DurableQueue.  The record that is being written is not *)
(* in the queue before its Enqueue returns, or a crash spares it.              *)

\* The payloads of the records that a walk through f passes, in their order.
Listing(f) ==
  LET walk[b \in Boundaries(f)] ==
        IF Whole(f, b) THEN <<f[b + 2][1]>> \o walk[EndAt(f, b)] ELSE <<>>
  IN walk[0]

Items == Listing(Written)
Passed ==
  Len(Listing(SubSeq(Written, 1, IF open THEN offset ELSE ReadFrom(Written))))

Queue == INSTANCE DurableQueue WITH
  Item <- Payload, Weight <- SizeOf, Room <- MaxBytes,
  items <- Items, head <- Passed, done <- settled

\* As long as no cell is damaged and at most one file operation has failed, every
\* step of the spool is a step of the durable queue.  The second failure can be the
\* Truncate of rollbackAppendLocked, whose error is ignored: the record of an
\* Enqueue that failed, or a part of it, then stays in the log.
ImplementsQueue ==
  Queue!Init /\ [][damage' = 0 /\ errors' <= 1 => Queue!Next]_Queue!vars

\* The log never outgrows maxBytes, nor the quarantine by more than a prefix.
Bounded == Len(log) <= MaxBytes /\ quarantine <= MaxBytes + PrefixSize

\* While no file operation fails, every batch that was taken is settled, evicted,
\* put in quarantine, or gone from the log at last: the loop does not stop, and
\* neither a refusing controller nor a damaged record blocks those behind it for
\* ever.
Drained ==
  \A p \in Payload :
    p \in stored ~> \/ p \notin stored
                    \/ p \in settled \cup evicted \cup aside
                    \/ p \notin Owners(log)
=============================================================================
