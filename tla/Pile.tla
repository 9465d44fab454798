-------------------------------- MODULE Pile ----------------------------------
(***************************************************************************)
(* One chunk file of the pile store, src/core/pile/pile.go.                *)
(*                                                                         *)
(* The chunk header holds HeadHeight, HeadHeightCheckA and                 *)
(* HeadHeightCheckB (bytes 0-12), Begin/EndHeight, and a table of offsets:  *)
(* slot k holds the end of the record of height BeginHeight + k + 1.        *)
(* AppendData writes the record, its offset slot and then the three height  *)
(* fields, syncing after each field in sync mode; LoadPile repairs a triple *)
(* a crash left inconsistent.                                              *)
(*                                                                         *)
(* The file is modelled as the page cache the process writes into and the   *)
(* disk a crash falls back to.  Any dirty part may be written back at any   *)
(* time and in any order; file.Sync() writes back everything.  The three   *)
(* height fields share one disk sector and are written back together, each *)
(* offset slot and each record on its own.  BeginHeight is 0, so height h   *)
(* is the h-th record; records have one length, so a record's place in the *)
(* file does not depend on the contents of the records before it.          *)
(***************************************************************************)
EXTENDS Integers, Sequences

CONSTANTS
  Vals,        \* record contents (DataHash and Datas of a block)
  NoVal,       \* a record region never written (zero bytes)
  ChunkUnit,   \* heights a chunk holds
  SyncMode,    \* the Sync argument: SetSyncMode(true), cmd/*/main.go
  MaxCrashes   \* crashes of the process in one behaviour

ASSUME NoVal \notin Vals /\ ChunkUnit \in Nat \ {0} /\ SyncMode \in BOOLEAN

Heights == 1..ChunkUnit

\* The header fields: ok is whether Begin/EndHeight were written (a zeroed
\* header fails the EndHeight check of LoadPile, line 96).
Meta == [H : 0..ChunkUnit, A : 0..ChunkUnit, B : 0..ChunkUnit, ok : BOOLEAN]
File == [meta : Meta, off : [Heights -> BOOLEAN], rec : [Heights -> Vals \cup {NoVal}]]

VARIABLES
  cache,       \* the file as the process reads and writes it
  disk,        \* the file as it is on disk
  head,        \* p.HeadHeight
  pc,          \* "idle", a step of AppendData or LoadPile, "down", "failed"
  val,         \* the record AppendData is writing
  crashes,     \* crashes so far
  read         \* [op, h, res]: the last GetHash or GetData and its result

vars == <<cache, disk, head, pc, val, crashes, read>>

\* The steps of AppendData after its first write, in order.
AppendSteps == {"syncH", "writeA", "syncA", "writeB", "syncB"}

-----------------------------------------------------------------------------
(* The recovery of LoadPile, lines 100-141, as a function of the header.   *)

\* Fault variant: a HeadHeight ahead of equal checks is taken rather than
\* rolled back; the case "crashed at HeadHeightCheckB" is missing.
RecoveredHeadRollForward(m) ==
  CASE m.A = m.B /\ m.H # m.A + 1 -> m.A
    [] m.H = m.B + 1 \/ m.H = m.A  -> m.H
    [] OTHER                       -> -1

\* The height LoadPile settles on, or -1 for ErrHeightCrashed.
RecoveredHead(m) ==
  CASE m.H = m.A /\ m.A = m.B -> m.H
    [] m.A = m.B              -> m.A     \* crashed at HeadHeight
    [] m.H = m.B + 1          -> m.H     \* crashed at HeadHeightCheckA
    [] m.H = m.A              -> m.H     \* crashed at HeadHeightCheckB
    [] OTHER                  -> -1

\* The header after the repair writes.
Repaired(m) == [m EXCEPT !.H = RecoveredHead(m), !.A = RecoveredHead(m),
                         !.B = RecoveredHead(m)]

\* The file size check of lines 142-160: the offset slot of the head height
\* points past the end of the file when the slot reached the disk and the
\* record it ends did not.  An offset slot that never reached the disk reads
\* as 0 and passes.
SizeOK(f, h) == h = 0 \/ ~f.off[h] \/ f.rec[h] # NoVal

Loadable(f) ==
  /\ f.meta.ok
  /\ RecoveredHead(f.meta) >= 0
  /\ SizeOK(f, RecoveredHead(f.meta))

-----------------------------------------------------------------------------
(* NewPile, lines 25-67: a truncated file whose header is written but not   *)
(* synced.                                                                 *)

Init ==
  /\ cache = [meta |-> [H |-> 0, A |-> 0, B |-> 0, ok |-> TRUE],
              off  |-> [h \in Heights |-> FALSE],
              rec  |-> [h \in Heights |-> NoVal]]
  /\ disk = [cache EXCEPT !.meta.ok = FALSE]
  /\ head = 0
  /\ pc = "idle"
  /\ val = NoVal
  /\ crashes = 0
  /\ read = [op |-> "none", h |-> 0, res |-> NoVal]

-----------------------------------------------------------------------------
(* AppendData, lines 187-292, for Height = HeadHeight + 1 (any other height *)
(* returns ErrInvalidAppendHeight before writing).  One step per stretch   *)
(* between two syncs: writes between syncs reach the disk in any order     *)
(* anyway.                                                                 *)

\* The record, its offset slot and HeadHeight (lines 199-251).
AppendWrite(v) ==
  LET h == head + 1
  IN  /\ pc = "idle"
      /\ h <= ChunkUnit
      /\ cache' = [cache EXCEPT !.rec[h] = v, !.off[h] = TRUE, !.meta.H = h]
      /\ val' = v
      /\ pc' = IF SyncMode THEN "syncH" ELSE "writeA"
      /\ UNCHANGED <<disk, head, crashes, read>>

\* Fault variant: CheckA is written one height too far.
WriteAPastHead ==
  /\ pc = "writeA"
  /\ cache' = [cache EXCEPT !.meta.A = head + 2]
  /\ pc' = IF SyncMode THEN "syncA" ELSE "writeB"
  /\ UNCHANGED <<disk, head, val, crashes, read>>

\* HeadHeightCheckA (lines 262-268).
WriteA ==
  /\ pc = "writeA"
  /\ cache' = [cache EXCEPT !.meta.A = head + 1]
  /\ pc' = IF SyncMode THEN "syncA" ELSE "writeB"
  /\ UNCHANGED <<disk, head, val, crashes, read>>

\* HeadHeightCheckB (lines 275-281); without sync mode AppendData returns.
WriteB ==
  /\ pc = "writeB"
  /\ cache' = [cache EXCEPT !.meta.B = head + 1]
  /\ IF SyncMode
       THEN pc' = "syncB" /\ UNCHANGED <<head, val>>
       ELSE pc' = "idle" /\ head' = head + 1 /\ val' = NoVal
  /\ UNCHANGED <<disk, crashes, read>>

\* Fault variant: the sync calls do not reach the disk (Sync false).
AppendSyncNoFlush ==
  /\ pc \in {"syncH", "syncA", "syncB"}
  /\ pc' = CASE pc = "syncH" -> "writeA"
             [] pc = "syncA" -> "writeB"
             [] pc = "syncB" -> "idle"
  /\ head' = IF pc = "syncB" THEN head + 1 ELSE head
  /\ val' = IF pc = "syncB" THEN NoVal ELSE val
  /\ UNCHANGED <<cache, disk, crashes, read>>

\* file.Sync() after each height field (lines 259, 272, 285); after the
\* last one AppendData increments p.HeadHeight and returns.
AppendSync ==
  /\ pc \in {"syncH", "syncA", "syncB"}
  /\ disk' = cache
  /\ pc' = CASE pc = "syncH" -> "writeA"
             [] pc = "syncA" -> "writeB"
             [] pc = "syncB" -> "idle"
  /\ head' = IF pc = "syncB" THEN head + 1 ELSE head
  /\ val' = IF pc = "syncB" THEN NoVal ELSE val
  /\ UNCHANGED <<cache, crashes, read>>

-----------------------------------------------------------------------------
(* The operating system and the process's lifetime.                        *)

\* The page cache writes back one dirty part of the file.
WritebackMeta ==
  /\ disk.meta # cache.meta
  /\ disk' = [disk EXCEPT !.meta = cache.meta]
  /\ UNCHANGED <<cache, head, pc, val, crashes, read>>

WritebackOff(h) ==
  /\ disk.off[h] # cache.off[h]
  /\ disk' = [disk EXCEPT !.off[h] = cache.off[h]]
  /\ UNCHANGED <<cache, head, pc, val, crashes, read>>

WritebackRec(h) ==
  /\ disk.rec[h] # cache.rec[h]
  /\ disk' = [disk EXCEPT !.rec[h] = cache.rec[h]]
  /\ UNCHANGED <<cache, head, pc, val, crashes, read>>

\* The process dies at any point: what was not written back is lost.
Crash ==
  /\ pc \notin {"down", "failed"}
  /\ crashes < MaxCrashes
  /\ cache' = disk
  /\ pc' = "down"
  /\ val' = NoVal
  /\ crashes' = crashes + 1
  /\ UNCHANGED <<disk, head, read>>

\* Close, lines 175-184: sync and close between two appends.
Close ==
  /\ pc = "idle"
  /\ disk' = cache
  /\ pc' = "down"
  /\ UNCHANGED <<cache, head, val, crashes, read>>

\* LoadPile, lines 70-172, up to its repair writes: a zeroed header, a
\* height triple no case matches and a short file fail; a consistent header
\* is used as it is; otherwise the repair is written and synced next.
LoadPile ==
  LET m == cache.meta
      h == RecoveredHead(m)
  IN  /\ pc = "down"
      /\ IF ~m.ok \/ h < 0
           THEN pc' = "failed" /\ UNCHANGED <<cache, head>>
         ELSE IF m.H = m.A /\ m.A = m.B
           THEN /\ pc' = IF SizeOK(cache, h) THEN "idle" ELSE "failed"
                /\ head' = h
                /\ UNCHANGED cache
         ELSE /\ cache' = [cache EXCEPT !.meta = Repaired(m)]
              /\ head' = h
              /\ pc' = "loadSync"
      /\ UNCHANGED <<disk, val, crashes, read>>

\* The file.Sync() after the repair write, then the file size check.
LoadSync ==
  /\ pc = "loadSync"
  /\ disk' = cache
  /\ pc' = IF SizeOK(cache, head) THEN "idle" ELSE "failed"
  /\ UNCHANGED <<cache, head, val, crashes, read>>

-----------------------------------------------------------------------------
(* The reads, lines 295-452.  They hold p.Lock, so they run between two    *)
(* appends.  Heights up to BeginHeight belong to the chunk before.         *)

ReadHeights == 1..ChunkUnit + 1

\* The record at the offset stored in slot Height - 2 (the end of the
\* record before), or the chunk header for the first height.  A slot that
\* was never written reads as 0, and the read starts in the header.
ReadRecord(h) == IF h = 1 \/ cache.off[h - 1] THEN cache.rec[h] ELSE "header"

\* GetHash, lines 295-325: no HeadHeight check.
GetHash(h) ==
  /\ pc = "idle"
  /\ read' = [op |-> "GetHash", h |-> h,
               res |-> IF h > ChunkUnit THEN "ErrInvalidHeight" ELSE ReadRecord(h)]
  /\ UNCHANGED <<cache, disk, head, pc, val, crashes>>

\* Fault variant: GetData without the HeadHeight check.
GetDataNoHeadCheck(h) ==
  /\ pc = "idle"
  /\ read' = [op |-> "GetData", h |-> h,
               res |-> IF h > ChunkUnit THEN "ErrInvalidHeight" ELSE ReadRecord(h)]
  /\ UNCHANGED <<cache, disk, head, pc, val, crashes>>

\* GetData (lines 328-387) and GetDatas (lines 390-452) of one record; the
\* data index checks and gzip are left out.
GetData(h) ==
  /\ pc = "idle"
  /\ read' = [op |-> "GetData", h |-> h,
               res |-> IF h > ChunkUnit \/ h > head THEN "ErrInvalidHeight"
                       ELSE ReadRecord(h)]
  /\ UNCHANGED <<cache, disk, head, pc, val, crashes>>

Next ==
  \/ \E h \in ReadHeights : GetHash(h) \/ GetData(h)
  \/ \E v \in Vals : AppendWrite(v)
  \/ WriteA \/ WriteB \/ AppendSync
  \/ WritebackMeta
  \/ \E h \in Heights : WritebackOff(h) \/ WritebackRec(h)
  \/ Crash \/ Close \/ LoadPile \/ LoadSync

Spec == Init /\ [][Next]_vars

-----------------------------------------------------------------------------
(* Properties.                                                             *)

TypeOK ==
  /\ cache \in File /\ disk \in File
  /\ head \in 0..ChunkUnit
  /\ pc \in {"idle", "down", "loadSync", "failed"} \cup AppendSteps
  /\ val \in Vals \cup {NoVal}
  /\ crashes \in 0..MaxCrashes
  /\ read \in [op : {"none", "GetHash", "GetData"}, h : 0..ChunkUnit + 1,
               res : Vals \cup {NoVal, "header", "ErrInvalidHeight"}]

\* LoadPile only fails on a chunk whose header never reached the disk: the
\* HeadHeight/CheckA/CheckB protocol of AppendData, with a crash at any
\* point of it or of a previous repair, always leaves a triple LoadPile can
\* repair, and a head whose record is on disk.
RecoveryNeverFails == pc = "failed" => ~disk.meta.ok

\* The chunk as its user sees it: the records up to p.HeadHeight while it is
\* open, and what LoadPile will recover from the file while it is not.
LogOf(f, h) == [i \in 1..h |-> f.rec[i]]
OpenLog == LogOf(cache, head)
ClosedLog == IF Loadable(cache) THEN LogOf(cache, RecoveredHead(cache.meta))
             ELSE <<>>
IsUp == pc \in {"idle"} \cup AppendSteps

Abstract == INSTANCE AppendLog WITH
              MaxLen  <- ChunkUnit,
              log     <- IF IsUp THEN OpenLog ELSE ClosedLog,
              pending <- IF pc \in AppendSteps THEN val ELSE NoVal,
              up      <- IsUp

\* AppendData and LoadPile implement an append-only log that survives
\* crashes: a reopened chunk holds every acknowledged record and the
\* unacknowledged one whole or not at all, whatever the page cache wrote back.
ImplementsAppendLog == Abstract!Spec

\* GetData returns the record the open chunk holds at the height, or
\* ErrInvalidHeight past p.HeadHeight: after any appends, crashes and
\* LoadPile repairs, the offset slot before every height up to the head is
\* in the file, and no record of an append that was rolled back, or never
\* written, is returned.
GetDataReadsLog ==
  [][read'.op = "GetData" /\ read' # read =>
       IF read'.h <= head THEN read'.res = OpenLog[read'.h]
       ELSE read'.res = "ErrInvalidHeight"]_vars

=============================================================================
