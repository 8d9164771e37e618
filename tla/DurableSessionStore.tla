------------------------ MODULE DurableSessionStore ------------------------
(***************************************************************************)
(* The encrypted session directory of the MCP server: DurableSessionStore. *)
(* Server processes compete for the advisory lock of one directory; the    *)
(* holder works through a FIFO queue of loads, saves and deletes (the      *)
(* promise chain `#mutationTail').  A save stages a file, flushes it,      *)
(* renames it over the archive and flushes the directory.  Every one of    *)
(* these awaits may fail, the process may be killed between any two, and   *)
(* the machine may lose power.                                             *)
(*                                                                         *)
(* The file system is external.  Changes to the directory reach the disk   *)
(* in the order they were made, some time before the next directory flush, *)
(* as journaling file systems do; the data of a file that was not flushed  *)
(* may be lost even though its name survives.                              *)
(***************************************************************************)
EXTENDS Integers, Sequences, FiniteSets, TLC

CONSTANTS
  Servers,        \* server processes that are started on the directory
  Ids,            \* session ids
  Archives,       \* sealed archives
  Size,           \* Size[a]: bytes of archive a
  Absent,         \* no file under this name
  Torn,           \* a file whose data never reached the disk
  None,           \* nobody holds the lock
  MaxCount,       \* SESSION_ARCHIVE_MAX_COUNT
  MaxBytes,       \* SESSION_ARCHIVE_MAX_BYTES
  MaxTotalBytes,  \* SESSION_ARCHIVE_TOTAL_MAX_BYTES
  MaxQueue        \* bound: requests waiting at one server

ASSUME StoreAssumption ==
  /\ IsFiniteSet(Ids) /\ None \notin Servers
  /\ Size \in [Archives -> Nat]
  /\ Absent \notin Archives /\ Torn \notin Archives /\ Absent # Torn
  /\ MaxCount \in Nat /\ MaxBytes \in Nat /\ MaxTotalBytes \in Nat
  /\ MaxQueue \in Nat \ {0}

VARIABLES
  directory,  \* the directory as every process sees it
  disk,       \* the directories a power loss may leave
  unflushed,  \* per id: what was deleted when the directory flush failed
  lock,       \* holder of the advisory lock
  server,     \* per process: its store object
  promised    \* per id: the contents its clients must be ready to find

vars == <<directory, disk, unflushed, lock, server, promised>>

Directory == [files : [Ids -> Archives \cup {Absent, Torn}], staging : BOOLEAN]

Request ==
  [kind : {"load", "delete"}, id : Ids, archive : {Absent}]
    \cup [kind : {"save"}, id : Ids, archive : Archives]

Phases == {"idle", "staged", "written", "flushed", "checked", "renamed",
           "published", "failed", "unlinked"}

Store == [state : {"down", "starting", "open", "closing"},
          queue : Seq(Request),
          phase : Phases,
          dirty : BOOLEAN,    \* the staging file's data is not flushed
          count : Nat,        \* SessionInventory.archiveCount
          total : Nat]        \* SessionInventory.totalBytes

Down == [state |-> "down", queue |-> <<>>, phase |-> "idle",
         dirty |-> FALSE, count |-> 0, total |-> 0]

-----------------------------------------------------------------------------
(* Inventory and file system                                               *)

Held(d) == {id \in Ids : d.files[id] # Absent}

(* Slip: the archive to be replaced is taken off before it is known.       *)
CountWithoutReplaced(d) == Cardinality(Held(d)) - 1

ArchiveCount(d) == Cardinality(Held(d))

(* A torn archive is shorter than any archive; it is counted as empty.     *)
Bytes(d, id) == IF d.files[id] \in Archives THEN Size[d.files[id]] ELSE 0

(* The bytes of one archive, and of all of them, told apart by their place. *)
BytesOf(d, id) == {id} \X (1..Bytes(d, id))
TotalBytes(d) == Cardinality(UNION {BytesOf(d, id) : id \in Held(d)})

WithinLimits(d) == ArchiveCount(d) <= MaxCount /\ TotalBytes(d) <= MaxTotalBytes

(* validateInventory of a running store: a staging file is a partial       *)
(* archive and fails the call.                                             *)
InventoryValid == ~directory.staging /\ WithinLimits(directory)

(* One directory operation, and what else it may have put on the disk.     *)
ChangeDirectory(d, alsoPossible) ==
  /\ directory' = d
  /\ disk' = disk \cup {d} \cup alsoPossible
  /\ UNCHANGED unflushed

(* Slip: the flush of the directory is left out.                           *)
FlushNothing == UNCHANGED <<directory, disk, unflushed>>

(* One directory is left on the disk.                                      *)
Settle(d) ==
  /\ directory' = d
  /\ disk' = {d}
  /\ unflushed' = [id \in Ids |-> {}]

FlushDirectory == Settle(directory)

-----------------------------------------------------------------------------
(* Starting, killing and losing power                                      *)

Becomes(s, store) == server' = [server EXCEPT ![s] = store]

(* readKey and tryLock: without the lock the server fails to start.        *)
Start(s) ==
  /\ server[s].state = "down" /\ lock = None
  /\ lock' = s
  /\ Becomes(s, [Down EXCEPT !.state = "starting"])
  /\ UNCHANGED <<directory, disk, unflushed, promised>>

RemoveStaging(s) ==
  /\ server[s].state = "starting" /\ directory.staging
  /\ ChangeDirectory([directory EXCEPT !.staging = FALSE], {})
  /\ UNCHANGED <<lock, server, promised>>

FinishStart(s) ==
  /\ server[s].state = "starting" /\ InventoryValid
  /\ FlushDirectory
  /\ Becomes(s, [Down EXCEPT !.state = "open"])
  /\ UNCHANGED <<lock, promised>>

FailStart(s) ==
  /\ server[s].state = "starting"
  /\ lock' = None /\ Becomes(s, Down)
  /\ UNCHANGED <<directory, disk, unflushed, promised>>

Kill(s) ==
  /\ server[s].state # "down"
  /\ lock' = None /\ Becomes(s, Down)
  /\ UNCHANGED <<directory, disk, unflushed, promised>>

(* A deleted archive that comes back is there for the clients to find.     *)
PowerLoss ==
  /\ \E d \in disk :
       /\ Settle(d)
       /\ promised' = [id \in Ids |->
                         promised[id] \cup (unflushed[id] \cap {d.files[id]})]
  /\ lock' = None /\ server' = [s \in Servers |-> Down]

-----------------------------------------------------------------------------
(* Requests                                                                *)

Current(s) == Head(server[s].queue)

Serving(s, kind) ==
  /\ server[s].state \in {"open", "closing"}
  /\ server[s].queue # <<>> /\ Current(s).kind = kind

(* withMutation joins the tail before its caller gets control back.        *)
Submit(s, r) ==
  /\ server[s].state = "open" /\ Len(server[s].queue) < MaxQueue
  /\ Becomes(s, [server[s] EXCEPT !.queue = Append(@, r)])
  /\ promised' = IF r.kind = "load" THEN promised
                 ELSE [promised EXCEPT ![r.id] = @ \cup {r.archive}]
  /\ UNCHANGED <<directory, disk, unflushed, lock>>

(* What requests that are still waiting may make of an archive.            *)
Waiting(s, id) ==
  {r.archive : r \in {Tail(server[s].queue)[i] : i \in 1..Len(server[s].queue) - 1}
                       \cap [kind : {"save", "delete"}, id : {id},
                             archive : Archives \cup {Absent}]}

Answer(s) ==
  Becomes(s, [server[s] EXCEPT !.queue = Tail(@), !.phase = "idle",
                           !.dirty = FALSE, !.count = 0, !.total = 0])

(* The caller learns that its change is durable.                           *)
Acknowledge(s) ==
  promised' = [promised EXCEPT ![Current(s).id] =
                 {Current(s).archive} \cup Waiting(s, Current(s).id)]

(* Slip: a request that throws does not release the tail.                  *)
RefuseWithoutRelease(s) ==
  /\ Becomes(s, [server[s] EXCEPT !.phase = "failed"])
  /\ UNCHANGED <<directory, disk, unflushed, lock, promised>>

Refuse(s) == Answer(s) /\ UNCHANGED <<directory, disk, unflushed, lock, promised>>

Advance(s, from, to) ==
  /\ server[s].phase = from
  /\ Becomes(s, [server[s] EXCEPT !.phase = to])

(* A load reads a whole file or fails; either way nothing changes.         *)
Load(s) == Serving(s, "load") /\ Refuse(s)

RefuseSave(s) == Serving(s, "save") /\ server[s].phase = "idle" /\ Refuse(s)

StageSave(s) ==
  /\ Serving(s, "save") /\ server[s].phase = "idle"
  /\ Size[Current(s).archive] <= MaxBytes /\ InventoryValid
  /\ Becomes(s, [server[s] EXCEPT !.phase = "staged",
                              !.count = ArchiveCount(directory),
                              !.total = TotalBytes(directory)])
  /\ ChangeDirectory([directory EXCEPT !.staging = TRUE], {})
  /\ UNCHANGED <<lock, promised>>

WriteStaging(s) ==
  /\ Serving(s, "save") /\ server[s].phase = "staged"
  /\ Becomes(s, [server[s] EXCEPT !.phase = "written", !.dirty = TRUE])
  /\ UNCHANGED <<directory, disk, unflushed, lock, promised>>

(* Slip: the staging file is not flushed.                                  *)
SkipStagingFlush(s) ==
  /\ Serving(s, "save") /\ Advance(s, "written", "flushed")
  /\ UNCHANGED <<directory, disk, unflushed, lock, promised>>

FlushStaging(s) ==
  /\ Serving(s, "save") /\ server[s].phase = "written"
  /\ Becomes(s, [server[s] EXCEPT !.phase = "flushed", !.dirty = FALSE])
  /\ UNCHANGED <<directory, disk, unflushed, lock, promised>>

(* Slip: the archive is checked without its own bytes.                     *)
FitsBeforeSave(s) ==
  /\ server[s].count + (IF Current(s).id \in Held(directory) THEN 0 ELSE 1) <= MaxCount
  /\ server[s].total <= MaxTotalBytes

(* nextCount and nextTotalBytes, from the inventory taken before staging.  *)
Fits(s) ==
  LET r == Current(s) IN
  /\ server[s].count + (IF r.id \in Held(directory) THEN 0 ELSE 1) <= MaxCount
  /\ server[s].total - Bytes(directory, r.id) + Size[r.archive] <= MaxTotalBytes

CheckLimits(s) ==
  /\ Serving(s, "save")
  /\ Advance(s, "flushed", IF Fits(s) THEN "checked" ELSE "failed")
  /\ UNCHANGED <<directory, disk, unflushed, lock, promised>>

Renamed(s, content) ==
  [directory EXCEPT !.files[Current(s).id] = content, !.staging = FALSE]

Rename(s) ==
  /\ Serving(s, "save") /\ Advance(s, "checked", "renamed")
  /\ ChangeDirectory(Renamed(s, Current(s).archive),
                     IF server[s].dirty THEN {Renamed(s, Torn)} ELSE {})
  /\ UNCHANGED <<lock, promised>>

PublishSave(s) ==
  /\ Serving(s, "save") /\ Advance(s, "renamed", "published")
  /\ FlushDirectory
  /\ UNCHANGED <<lock, promised>>

FailSave(s) ==
  /\ Serving(s, "save")
  /\ server[s].phase \in {"staged", "written", "flushed", "checked", "renamed"}
  /\ Becomes(s, [server[s] EXCEPT !.phase = "failed"])
  /\ UNCHANGED <<directory, disk, unflushed, lock, promised>>

(* The `finally' block: close, unlink, and swallow what goes wrong.        *)
CleanUp(s) ==
  /\ Serving(s, "save") /\ server[s].phase \in {"published", "failed"}
  /\ Answer(s)
  /\ IF server[s].phase = "published" THEN Acknowledge(s) ELSE UNCHANGED promised
  /\ \/ ChangeDirectory([directory EXCEPT !.staging = FALSE], {})
     \/ UNCHANGED <<directory, disk, unflushed>>
  /\ UNCHANGED lock

(* lstat finds no archive: delete() succeeds, without a flush.             *)
DeleteAbsent(s) ==
  /\ Serving(s, "delete") /\ server[s].phase = "idle"
  /\ directory.files[Current(s).id] = Absent
  /\ Answer(s) /\ Acknowledge(s)
  /\ UNCHANGED <<directory, disk, unflushed, lock>>

(* assertDirectory, lstat or unlink fails.                                 *)
RefuseDelete(s) == Serving(s, "delete") /\ server[s].phase = "idle" /\ Refuse(s)

(* syncDirectory fails after the unlink: the archives that the disk may    *)
(* still hold under the id stay there without a name in the directory.     *)
FailDelete(s) ==
  /\ Serving(s, "delete") /\ server[s].phase = "unlinked"
  /\ Answer(s)
  /\ unflushed' = [unflushed EXCEPT ![Current(s).id] =
                     @ \cup ({d.files[Current(s).id] : d \in disk} \ {Absent})]
  /\ UNCHANGED <<directory, disk, lock, promised>>

Unlink(s) ==
  /\ Serving(s, "delete") /\ directory.files[Current(s).id] # Absent
  /\ Advance(s, "idle", "unlinked")
  /\ ChangeDirectory([directory EXCEPT !.files[Current(s).id] = Absent], {})
  /\ UNCHANGED <<lock, promised>>

PublishDelete(s) ==
  /\ Serving(s, "delete") /\ server[s].phase = "unlinked"
  /\ FlushDirectory /\ Answer(s)
  /\ Acknowledge(s) \/ UNCHANGED promised   \* assertDirectory may still fail
  /\ UNCHANGED lock

-----------------------------------------------------------------------------
(* Closing: no new requests, drain the tail, then release the lock         *)

Close(s) ==
  /\ server[s].state = "open"
  /\ Becomes(s, [server[s] EXCEPT !.state = "closing"])
  /\ UNCHANGED <<directory, disk, unflushed, lock, promised>>

(* Slip: the lock is released while requests are still queued.             *)
FinishCloseAtOnce(s) ==
  /\ server[s].state = "closing" /\ lock' = None
  /\ Becomes(s, IF server[s].queue = <<>> THEN Down ELSE server[s])
  /\ UNCHANGED <<directory, disk, unflushed, promised>>

FinishClose(s) ==
  /\ server[s].state = "closing" /\ server[s].queue = <<>>
  /\ lock' = None /\ Becomes(s, Down)
  /\ UNCHANGED <<directory, disk, unflushed, promised>>

(* The awaits that settle by themselves, one way or another.               *)
Work(s) ==
  \/ RemoveStaging(s) \/ FinishStart(s) \/ FailStart(s)
  \/ Load(s)
  \/ RefuseSave(s) \/ StageSave(s) \/ WriteStaging(s) \/ FlushStaging(s)
  \/ CheckLimits(s) \/ Rename(s) \/ PublishSave(s) \/ FailSave(s) \/ CleanUp(s)
  \/ DeleteAbsent(s) \/ RefuseDelete(s)
  \/ Unlink(s) \/ FailDelete(s) \/ PublishDelete(s)
  \/ FinishClose(s)

Init ==
  /\ directory = [files |-> [id \in Ids |-> Absent], staging |-> FALSE]
  /\ disk = {directory}
  /\ unflushed = [id \in Ids |-> {}]
  /\ lock = None
  /\ server = [s \in Servers |-> Down]
  /\ promised = [id \in Ids |-> {Absent}]

Next ==
  \/ \E s \in Servers :
       \/ Start(s) \/ Work(s) \/ Close(s) \/ Kill(s)
       \/ \E r \in Request : Submit(s, r)
  \/ PowerLoss

Spec == Init /\ [][Next]_vars

(* File operations settle: a server that has something to do does it,      *)
(* successfully or not.  Nothing is assumed of starts, requests, closes.   *)
FairSpec == Spec /\ \A s \in Servers : WF_vars(Work(s))

-----------------------------------------------------------------------------
(* Properties                                                              *)

(* Every component of the state has its type.                              *)
TypeOK ==
  /\ directory \in Directory /\ disk \subseteq Directory
  /\ unflushed \in [Ids -> SUBSET Archives]
  /\ lock \in Servers \cup {None}
  /\ server \in [Servers -> Store]
  /\ promised \in [Ids -> SUBSET (Archives \cup {Absent})]

(* "One server exclusively locks the whole session directory": a server    *)
(* with a store object, and so with any request in the middle of its file  *)
(* operations, is the one that holds the lock; close() gives the lock up   *)
(* only after the last of them.                                            *)
WorkOnlyUnderLock ==
  \A s \in Servers : server[s].state # "down" => lock = s

(* What save() and delete() acknowledged survives: whatever happened       *)
(* since, crash and power loss included, a load finds the last             *)
(* acknowledged content of the id or one that was requested after it,      *)
(* never a torn file, and never an older archive, with one exception: an   *)
(* archive whose delete failed in its directory flush.  The next delete    *)
(* finds nothing to do and succeeds without a flush, and a power loss      *)
(* before any other flush brings the archive back.                         *)
PromisesSurvive ==
  \A id \in Ids :
    /\ directory.files[id] \in promised[id]
    /\ \A d \in disk : d.files[id] \in promised[id] \cup unflushed[id]

(* No run of saves, failed ones included, and no power loss can leave a    *)
(* directory over the limits, which validateInventory would refuse at      *)
(* every start and every request from then on.                             *)
DirectoryStaysAcceptable == \A d \in disk \cup {directory} : WithinLimits(d)

(* close() ends: the requests admitted before it are answered and the lock *)
(* goes to whoever starts next.                                            *)
CloseEnds ==
  \A s \in Servers : server[s].state = "closing" ~> server[s].state = "down"

(* Seen from outside the store is a shelf of whole archives.               *)
Shelf == INSTANCE ArchiveShelf WITH
  shelf  <- directory.files,
  atRisk <- {d.files : d \in disk}

ImplementsShelf == Shelf!Spec

-----------------------------------------------------------------------------
(* Values for the checker: an archive is named by its size, and servers    *)
(* and ids are interchangeable.                                            *)
MCSize == [a \in Archives |-> a]

Symmetry == Permutations(Servers) \cup Permutations(Ids)

(* Bound: directories a power loss may leave while none is flushed.        *)
FewAtRisk == Cardinality(disk) <= 8
=============================================================================
