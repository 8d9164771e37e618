--------------------- MODULE DurableSessionStoreProofs ---------------------
(***************************************************************************)
(* Safety of DurableSessionStore for every number of servers, ids and      *)
(* archives and for all limits.                                            *)
(***************************************************************************)
EXTENDS DurableSessionStore, FiniteSetTheorems, TLAPS

-----------------------------------------------------------------------------
(* What one archive adds to an inventory                                   *)

(* The bytes of a directory are a finite set of which one archive has a    *)
(* part of its own.                                                        *)
OtherBytes(d, id) == UNION {BytesOf(d, i) : i \in Held(d) \ {id}}

LEMMA TotalWithout ==
  ASSUME NEW d \in Directory, NEW id \in Ids
  PROVE  /\ IsFiniteSet(OtherBytes(d, id))
         /\ Bytes(d, id) \in Nat
         /\ TotalBytes(d) = Cardinality(OtherBytes(d, id)) + Bytes(d, id)
<1> DEFINE rest == OtherBytes(d, id)
<1>1. \A i \in Ids : Bytes(d, i) \in Nat
  BY StoreAssumption DEF Bytes
<1>2. ASSUME NEW i \in Ids
      PROVE  IsFiniteSet(BytesOf(d, i)) /\ Cardinality(BytesOf(d, i)) = Bytes(d, i)
  <2>1. IsFiniteSet({i}) /\ Cardinality({i}) = 1
    BY FS_Singleton
  <2>2. IsFiniteSet(1..Bytes(d, i)) /\ Cardinality(1..Bytes(d, i)) = Bytes(d, i)
    BY <1>1, FS_Interval
  <2> QED
    BY <1>1, <2>1, <2>2, FS_Product DEF BytesOf
<1>3. IsFiniteSet(rest) /\ Cardinality(rest) \in Nat
  <2>1. IsFiniteSet(Ids)
    BY StoreAssumption
  <2>2. IsFiniteSet({BytesOf(d, i) : i \in Held(d) \ {id}})
    <3>1. IsFiniteSet(Held(d) \ {id})
      BY <2>1, FS_Subset DEF Held
    <3>2. [i \in Held(d) \ {id} |-> BytesOf(d, i)]
            \in Surjection(Held(d) \ {id}, {BytesOf(d, i) : i \in Held(d) \ {id}})
      BY DEF Surjection
    <3> QED
      BY <3>1, <3>2, FS_Surjection
  <2> QED
    BY <1>2, <2>2, FS_UNION, FS_CardinalityType DEF Held, OtherBytes
<1>4. UNION {BytesOf(d, i) : i \in Held(d)} = rest \cup BytesOf(d, id)
  <2>1. CASE id \in Held(d)
    BY <2>1 DEF OtherBytes
  <2>2. CASE id \notin Held(d)
    <3>1. Bytes(d, id) = 0
      BY <2>2, StoreAssumption DEF Held, Bytes
    <3>2. BytesOf(d, id) = {}
      BY <3>1 DEF BytesOf
    <3> QED
      BY <2>2, <3>2 DEF OtherBytes
  <2> QED
    BY <2>1, <2>2
<1>5. rest \cap BytesOf(d, id) = {}
  BY DEF BytesOf, OtherBytes
<1>6. Cardinality(rest \cup BytesOf(d, id)) = Cardinality(rest) + Bytes(d, id) - 0
  <2>1. /\ IsFiniteSet(rest) /\ IsFiniteSet(BytesOf(d, id))
        /\ Cardinality(BytesOf(d, id)) = Bytes(d, id)
    BY <1>2, <1>3
  <2>2. Cardinality(rest \cup BytesOf(d, id)) =
          Cardinality(rest) + Cardinality(BytesOf(d, id))
             - Cardinality(rest \cap BytesOf(d, id))
    BY <2>1, FS_Union
  <2>3. Cardinality(rest \cap BytesOf(d, id)) = 0
    BY <1>5, FS_EmptySet
  <2> QED
    BY <2>1, <2>2, <2>3
<1>7. TotalBytes(d) = Cardinality(rest \cup BytesOf(d, id))
  BY <1>4, Zenon DEF TotalBytes
<1> QED
  BY <1>1, <1>3, <1>6, <1>7

LEMMA InventoryIsNat ==
  ASSUME NEW d \in Directory, NEW id \in Ids
  PROVE  ArchiveCount(d) \in Nat /\ TotalBytes(d) \in Nat
<1>1. IsFiniteSet(Held(d))
  BY StoreAssumption, FS_Subset DEF Held
<1>2. Cardinality(OtherBytes(d, id)) \in Nat
  BY TotalWithout, FS_CardinalityType
<1> QED
  BY <1>1, <1>2, TotalWithout, FS_CardinalityType DEF ArchiveCount

(* Putting content under an id, or taking it away, changes the inventory   *)
(* by that id's part.                                                      *)
LEMMA InventoryChange ==
  ASSUME NEW d \in Directory, NEW e \in Directory, NEW id \in Ids,
         NEW a \in Archives \cup {Absent}, e.files = [d.files EXCEPT ![id] = a]
  PROVE  /\ ArchiveCount(d) \in Nat /\ TotalBytes(d) \in Nat
         /\ ArchiveCount(e) = ArchiveCount(d) - (IF id \in Held(d) THEN 1 ELSE 0)
                                             + (IF a = Absent THEN 0 ELSE 1)
         /\ TotalBytes(e) = TotalBytes(d) - Bytes(d, id) + Bytes(e, id)
<1>1. IsFiniteSet(Held(d)) /\ IsFiniteSet(Held(d) \ {id})
  BY StoreAssumption, FS_Subset DEF Held
<1>2. Held(e) = (Held(d) \ {id}) \cup (IF a = Absent THEN {} ELSE {id})
  BY DEF Held, Directory
<1>3. /\ ArchiveCount(d) \in Nat
      /\ ArchiveCount(e) = ArchiveCount(d) - (IF id \in Held(d) THEN 1 ELSE 0)
                                          + (IF a = Absent THEN 0 ELSE 1)
  <2>1. Cardinality(Held(d)) \in Nat
    BY <1>1, FS_CardinalityType
  <2>2. Cardinality(Held(d) \ {id}) =
          Cardinality(Held(d)) - (IF id \in Held(d) THEN 1 ELSE 0)
    BY <1>1, <2>1, FS_RemoveElement
  <2>3. CASE a = Absent
    BY <1>2, <2>1, <2>2, <2>3 DEF ArchiveCount
  <2>4. CASE a # Absent
    <3>1. Cardinality((Held(d) \ {id}) \cup {id}) = Cardinality(Held(d) \ {id}) + 1
      BY <1>1, FS_AddElement
    <3> QED
      BY <1>2, <2>1, <2>2, <2>4, <3>1 DEF ArchiveCount
  <2> QED
    BY <2>3, <2>4
<1>4. OtherBytes(e, id) = OtherBytes(d, id)
  <2>1. Held(e) \ {id} = Held(d) \ {id}
    BY <1>2
  <2>2. \A i \in Held(d) \ {id} : BytesOf(e, i) = BytesOf(d, i)
    BY DEF BytesOf, Bytes, Held, Directory
  <2> QED
    BY <2>1, <2>2 DEF OtherBytes
<1>5. Cardinality(OtherBytes(d, id)) \in Nat
  BY TotalWithout, FS_CardinalityType
<1> QED
  BY <1>3, <1>4, <1>5, TotalWithout

-----------------------------------------------------------------------------
(* The inductive invariant                                                 *)

Saving == {"staged", "written", "flushed", "checked", "renamed", "published", "failed"}

(* What a store object knows at each stage of its current request.         *)
StageInv(s) ==
  /\ server[s].state = "down" => server[s] = Down
  /\ server[s].state = "starting" => server[s].queue = <<>>
  /\ server[s].phase # "idle" => server[s].queue # <<>>
  /\ server[s].phase \in Saving => Current(s).kind = "save"
  /\ server[s].phase \in {"flushed", "checked"} => ~server[s].dirty
  /\ server[s].phase \in {"staged", "written", "flushed", "checked"} =>
       /\ server[s].count = ArchiveCount(directory)
       /\ server[s].total = TotalBytes(directory)
  /\ server[s].phase = "checked" => Fits(s)
  /\ server[s].phase = "renamed" =>
       directory.files[Current(s).id] = Current(s).archive
  /\ server[s].phase = "published" =>
       \A d \in disk \cup {directory} : d.files[Current(s).id] = Current(s).archive
  /\ server[s].phase = "unlinked" =>
       Current(s).kind = "delete" /\ directory.files[Current(s).id] = Absent

(* Clients are ready for every change they have asked for.                 *)
RequestsPromised(s) ==
  \A i \in 1..Len(server[s].queue) :
    server[s].queue[i].kind # "load" =>
      server[s].queue[i].archive \in promised[server[s].queue[i].id]

(* An archive that an open store does not find is off the disk too, unless *)
(* its unlink is not flushed yet, or its flush failed.                     *)
AbsenceSettled(s) ==
  server[s].state \in {"open", "closing"} =>
    \A id \in Ids :
      \/ directory.files[id] # Absent
      \/ server[s].phase = "unlinked" /\ Current(s).id = id
      \/ \A d \in disk : d.files[id] \in {Absent} \cup unflushed[id]

IndInv ==
  /\ TypeOK /\ WorkOnlyUnderLock
  /\ directory \in disk
  /\ PromisesSurvive /\ DirectoryStaysAcceptable
  /\ \A s \in Servers : StageInv(s) /\ RequestsPromised(s) /\ AbsenceSettled(s)

-----------------------------------------------------------------------------
(* Steps of one server                                                     *)

LEMMA DownIsStore == Down \in Store
BY DEF Down, Store, Phases

(* A server that comes up starts with nothing to do.                       *)
LEMMA UpIsStore ==
  ASSUME NEW state \in {"starting", "open"}
  PROVE  /\ [Down EXCEPT !.state = state] \in Store
         /\ [Down EXCEPT !.state = state].state = state
         /\ [Down EXCEPT !.state = state].queue = <<>>
         /\ [Down EXCEPT !.state = state].phase = "idle"
<1>1. Down.queue = <<>> /\ Down.phase = "idle"
  BY DEF Down
<1>2. [Down EXCEPT !.state = state] \in Store
  BY DownIsStore DEF Store
<1> QED
  BY <1>1, <1>2, DownIsStore DEF Store

(* A server without a store object has nothing to keep.                    *)
LEMMA DownKeeps ==
  ASSUME NEW t \in Servers, server[t] = Down
  PROVE  StageInv(t) /\ RequestsPromised(t) /\ AbsenceSettled(t)
BY DEF StageInv, RequestsPromised, AbsenceSettled, Down, Saving

(* While one server is up, or the lock is free, the others are down.       *)
LEMMA OthersAreDown ==
  ASSUME IndInv, NEW s \in Servers, server[s].state # "down" \/ lock = None,
         NEW t \in Servers, t # s
  PROVE  server[t] = Down
BY StoreAssumption DEF IndInv, WorkOnlyUnderLock, StageInv

(* A step of the only server that is up keeps the invariant when it keeps  *)
(* what is said of the directory and of this server.                       *)
LEMMA ServerStep ==
  ASSUME IndInv, NEW s \in Servers, server[s].state # "down" \/ lock = None,
         NEW st \in Store, Becomes(s, st), lock' \in Servers \cup {None},
         st.state # "down" => lock' = s,
         directory' \in Directory, disk' \subseteq Directory, directory' \in disk',
         unflushed' \in [Ids -> SUBSET Archives],
         promised' \in [Ids -> SUBSET (Archives \cup {Absent})],
         PromisesSurvive', DirectoryStaysAcceptable', StageInv(s)', RequestsPromised(s)',
         AbsenceSettled(s)'
  PROVE  IndInv'
<1>1. server' = [server EXCEPT ![s] = st] /\ server \in [Servers -> Store]
  BY DEF Becomes, IndInv, TypeOK
<1>2. server'[s] = st /\ \A t \in Servers \ {s} : server'[t] = Down
  BY <1>1, OthersAreDown
<1>3. TypeOK'
  BY <1>1 DEF TypeOK
<1>4. WorkOnlyUnderLock'
  BY <1>2 DEF WorkOnlyUnderLock, Down
<1>5. \A t \in Servers : StageInv(t)' /\ RequestsPromised(t)' /\ AbsenceSettled(t)'
  <2>1. ASSUME NEW t \in Servers, t # s
        PROVE  StageInv(t)' /\ RequestsPromised(t)' /\ AbsenceSettled(t)'
    <3>1. server'[t] = Down
      BY <1>2, <2>1
    <3> QED
      BY <3>1 DEF StageInv, RequestsPromised, AbsenceSettled, Down, Saving
  <2> QED
    BY <2>1
<1> QED
  BY <1>3, <1>4, <1>5 DEF IndInv

(* A step that touches nothing but the server's own state.                 *)
LEMMA QuietStep ==
  ASSUME IndInv, NEW s \in Servers, server[s].state # "down",
         NEW st \in Store, Becomes(s, st), st.state # "down",
         UNCHANGED <<directory, disk, unflushed, lock, promised>>,
         StageInv(s)', RequestsPromised(s)', AbsenceSettled(s)'
  PROVE  IndInv'
<1>1. lock = s /\ lock' = s
  BY DEF IndInv, WorkOnlyUnderLock
<1>2. PromisesSurvive' /\ DirectoryStaysAcceptable'
  BY DEF IndInv, PromisesSurvive, DirectoryStaysAcceptable, WithinLimits, ArchiveCount,
     TotalBytes, Held, BytesOf, Bytes
<1> QED
  BY <1>1, <1>2, ServerStep DEF IndInv, TypeOK

(* A step that ends a server and frees the lock.                           *)
LEMMA EndStep ==
  ASSUME IndInv, NEW s \in Servers, server[s].state # "down",
         Becomes(s, Down), lock' = None, UNCHANGED <<directory, disk, unflushed, promised>>
  PROVE  IndInv'
<1>1. server'[s] = Down
  BY DEF Becomes, IndInv, TypeOK
<1>2. StageInv(s)' /\ RequestsPromised(s)' /\ AbsenceSettled(s)'
  BY <1>1 DEF StageInv, RequestsPromised, AbsenceSettled, Down, Saving
<1>3. PromisesSurvive' /\ DirectoryStaysAcceptable'
  BY DEF IndInv, PromisesSurvive, DirectoryStaysAcceptable, WithinLimits, ArchiveCount,
     TotalBytes, Held, BytesOf, Bytes
<1>4. Down.state = "down"
  BY DEF Down
<1> QED
  BY <1>2, <1>3, <1>4, DownIsStore, ServerStep DEF IndInv, TypeOK

-----------------------------------------------------------------------------
(* What a step does to the directory                                       *)

GoodDirectories ==
  /\ directory \in Directory /\ disk \subseteq Directory /\ directory \in disk
  /\ unflushed \in [Ids -> SUBSET Archives]
  /\ PromisesSurvive /\ DirectoryStaysAcceptable

LEMMA SameFilesSameInventory ==
  ASSUME NEW d, NEW e, d.files = e.files
  PROVE  /\ ArchiveCount(d) = ArchiveCount(e) /\ TotalBytes(d) = TotalBytes(e)
         /\ WithinLimits(d) <=> WithinLimits(e)
<1>1. Held(d) = Held(e)
  BY DEF Held
<1>2. \A id \in Ids : BytesOf(d, id) = BytesOf(e, id)
  BY DEF BytesOf, Bytes
<1>3. {BytesOf(d, id) : id \in Held(d)} = {BytesOf(e, id) : id \in Held(e)}
  BY <1>1, <1>2 DEF Held
<1> QED
  BY <1>1, <1>3, Zenon DEF ArchiveCount, TotalBytes, WithinLimits

LEMMA ChangeIsGood ==
  ASSUME IndInv, NEW d \in Directory, ChangeDirectory(d, {}), UNCHANGED promised,
         WithinLimits(d), \A id \in Ids : d.files[id] \in promised[id]
  PROVE  GoodDirectories'
<1>1. directory' = d /\ disk' = disk \cup {d} /\ unflushed' = unflushed
  BY DEF ChangeDirectory
<1>2. PromisesSurvive'
  BY <1>1 DEF IndInv, PromisesSurvive
<1>3. DirectoryStaysAcceptable'
  <2>1. \A e \in disk \cup {d} : WithinLimits(e)
    BY DEF IndInv, DirectoryStaysAcceptable
  <2> QED
    BY <1>1, <2>1 DEF DirectoryStaysAcceptable, WithinLimits, ArchiveCount, TotalBytes,
       Held, BytesOf, Bytes
<1> QED
  BY <1>1, <1>2, <1>3 DEF GoodDirectories, IndInv, TypeOK

(* The staging file counts for nothing.                                    *)
LEMMA StagingIsGood ==
  ASSUME IndInv, NEW b \in BOOLEAN, UNCHANGED promised,
         ChangeDirectory([directory EXCEPT !.staging = b], {})
  PROVE  GoodDirectories' /\ directory'.files = directory.files
<1> DEFINE d == [directory EXCEPT !.staging = b]
<1>1. directory \in Directory
  BY DEF IndInv, TypeOK
<1>2. d \in Directory /\ d.files = directory.files
  BY <1>1 DEF Directory
<1>3. WithinLimits(d) /\ \A id \in Ids : d.files[id] \in promised[id]
  BY <1>2, SameFilesSameInventory DEF IndInv, DirectoryStaysAcceptable, PromisesSurvive
<1> QED
  BY <1>2, <1>3, ChangeIsGood DEF ChangeDirectory

LEMMA SettledIsGood ==
  ASSUME IndInv, FlushDirectory, UNCHANGED promised
  PROVE  GoodDirectories'
<1>1. PromisesSurvive'
  BY DEF FlushDirectory, Settle, IndInv, PromisesSurvive
<1>2. DirectoryStaysAcceptable'
  BY DEF FlushDirectory, Settle, IndInv, DirectoryStaysAcceptable, WithinLimits, ArchiveCount,
     TotalBytes, Held, BytesOf, Bytes
<1> QED
  BY <1>1, <1>2 DEF FlushDirectory, Settle, GoodDirectories, IndInv, TypeOK

LEMMA UntouchedIsGood ==
  ASSUME IndInv, UNCHANGED <<directory, disk, unflushed, promised>>
  PROVE  GoodDirectories'
<1>1. PromisesSurvive' /\ DirectoryStaysAcceptable'
  BY DEF IndInv, PromisesSurvive, DirectoryStaysAcceptable, WithinLimits, ArchiveCount,
     TotalBytes, Held, BytesOf, Bytes
<1> QED
  BY <1>1 DEF GoodDirectories, IndInv, TypeOK

(* What is absent stays settled while no flush fails.                      *)
LEMMA AbsenceKept ==
  ASSUME IndInv, NEW s \in Servers, server[s].state \in {"open", "closing"},
         UNCHANGED unflushed,
         \A id \in Ids : directory'.files[id] = Absent =>
           \/ directory.files[id] = Absent
           \/ server'[s].phase = "unlinked" /\ Current(s)'.id = id,
         server[s].phase = "unlinked" =>
           server'[s].phase = "unlinked" /\ Current(s)' = Current(s),
         \A d \in disk' : d \in disk \/ d.files = directory'.files
  PROVE  AbsenceSettled(s)'
<1>1. AbsenceSettled(s)
  BY DEF IndInv
<1>2. ASSUME NEW id \in Ids, directory'.files[id] = Absent,
             ~(server'[s].phase = "unlinked" /\ Current(s)'.id = id), NEW d \in disk'
      PROVE  d.files[id] \in {Absent} \cup unflushed'[id]
  <2>1. directory.files[id] = Absent /\ ~(server[s].phase = "unlinked" /\ Current(s).id = id)
    BY <1>2
  <2>2. \A e \in disk : e.files[id] \in {Absent} \cup unflushed[id]
    BY <1>1, <2>1 DEF AbsenceSettled
  <2> QED
    BY <1>2, <2>2
<1> QED
  BY <1>2 DEF AbsenceSettled

(* A flush leaves one directory, with what is absent in it.                *)
LEMMA AbsenceFlushed ==
  ASSUME FlushDirectory, NEW s \in Servers
  PROVE  AbsenceSettled(s)'
BY DEF FlushDirectory, Settle, AbsenceSettled

-----------------------------------------------------------------------------
(* What a step does to the queue                                           *)

LEMMA QueueFacts ==
  ASSUME IndInv, NEW s \in Servers, server[s].queue # <<>>
  PROVE  /\ server[s] \in Store /\ server[s].state \in {"open", "closing"}
         /\ Current(s) \in Request /\ Current(s) = server[s].queue[1]
         /\ Len(server[s].queue) \in Nat \ {0}
         /\ Tail(server[s].queue) \in Seq(Request)
         /\ Len(Tail(server[s].queue)) = Len(server[s].queue) - 1
         /\ \A i \in 1..Len(server[s].queue) - 1 :
              /\ Tail(server[s].queue)[i] = server[s].queue[i + 1]
              /\ server[s].queue[i + 1] \in Request
<1>1. server[s] \in Store
  BY DEF IndInv, TypeOK
<1>2. server[s].queue \in Seq(Request)
  BY <1>1 DEF Store
<1>3. server[s].state \in {"open", "closing"}
  BY <1>1 DEF IndInv, StageInv, Down, Store
<1> QED
  BY <1>1, <1>2, <1>3 DEF Current

LEMMA AnswerFacts ==
  ASSUME IndInv, NEW s \in Servers, server[s].queue # <<>>, Answer(s)
  PROVE  LET st == [server[s] EXCEPT !.queue = Tail(@), !.phase = "idle",
                                     !.dirty = FALSE, !.count = 0, !.total = 0]
         IN  /\ st \in Store /\ Becomes(s, st) /\ server'[s] = st
             /\ st.state \in {"open", "closing"} /\ st.queue = Tail(server[s].queue)
             /\ StageInv(s)'
<1> DEFINE st == [server[s] EXCEPT !.queue = Tail(@), !.phase = "idle",
                                   !.dirty = FALSE, !.count = 0, !.total = 0]
<1>1. server[s] \in Store /\ Tail(server[s].queue) \in Seq(Request)
      /\ server[s].state \in {"open", "closing"}
  BY QueueFacts
<1>2. st \in Store /\ st.state = server[s].state /\ st.phase = "idle"
      /\ st.queue = Tail(server[s].queue)
  BY <1>1 DEF Store, Phases
<1>3. server'[s] = st /\ Becomes(s, st)
  BY DEF Answer, Becomes, IndInv, TypeOK
<1>4. StageInv(s)'
  BY <1>1, <1>2, <1>3 DEF StageInv, Saving
<1> QED
  BY <1>1, <1>2, <1>3, <1>4

(* A refused request leaves the others, and what was promised of them.     *)
LEMMA RefuseKeeps ==
  ASSUME IndInv, NEW s \in Servers, server[s].queue # <<>>, Refuse(s),
         server[s].phase # "unlinked"
  PROVE  IndInv'
<1>1. RequestsPromised(s)
  BY DEF IndInv
<1>2. Answer(s) /\ UNCHANGED <<directory, disk, unflushed, lock, promised>>
  BY DEF Refuse
<1>3. server'[s].queue = Tail(server[s].queue)
  BY <1>2, AnswerFacts
<1>4. RequestsPromised(s)'
  BY <1>1, <1>2, <1>3, QueueFacts DEF RequestsPromised
<1>5. server[s].state \in {"open", "closing"}
  BY QueueFacts
<1>6. \A d \in disk' : d \in disk
  BY <1>2
<1>7. AbsenceSettled(s)'
  BY <1>2, <1>5, <1>6, AbsenceKept
<1> QED
  BY <1>2, <1>4, <1>5, <1>7, AnswerFacts, QuietStep

(* After a step every directory holds what was promised before it.         *)
StillPromised ==
  \A id \in Ids :
    /\ directory'.files[id] \in promised[id]
    /\ \A d \in disk' : d.files[id] \in promised[id] \cup unflushed'[id]

(* After a step every directory holds what the request asked for.          *)
FindsArchive(s) ==
  /\ directory'.files[Current(s).id] = Current(s).archive
  /\ \A d \in disk' :
       d.files[Current(s).id] \in {Current(s).archive} \cup unflushed'[Current(s).id]

(* An acknowledged change is what its id stands for from then on, until    *)
(* the changes that wait.                                                  *)
LEMMA AcknowledgeKeeps ==
  ASSUME IndInv, NEW s \in Servers, server[s].queue # <<>>, Answer(s), Acknowledge(s),
         Current(s).kind # "load", StillPromised, FindsArchive(s)
  PROVE  /\ promised' \in [Ids -> SUBSET (Archives \cup {Absent})]
         /\ PromisesSurvive' /\ RequestsPromised(s)'
<1> DEFINE r == Current(s)
<1>1. r \in Request /\ r.id \in Ids /\ r.archive \in Archives \cup {Absent}
  BY QueueFacts DEF Request
<1>2. promised \in [Ids -> SUBSET (Archives \cup {Absent})]
  BY DEF IndInv, TypeOK
<1>3. Waiting(s, r.id) \subseteq Archives \cup {Absent}
  BY DEF Waiting
<1>4. /\ promised' \in [Ids -> SUBSET (Archives \cup {Absent})]
      /\ promised'[r.id] = {r.archive} \cup Waiting(s, r.id)
      /\ \A id \in Ids \ {r.id} : promised'[id] = promised[id]
  BY <1>1, <1>2, <1>3 DEF Acknowledge
<1>5. PromisesSurvive'
  BY <1>1, <1>4 DEF StillPromised, FindsArchive, PromisesSurvive
<1>6. server'[s].queue = Tail(server[s].queue)
  BY AnswerFacts
<1>7. ASSUME NEW i \in 1..Len(Tail(server[s].queue)),
             Tail(server[s].queue)[i].kind # "load"
      PROVE  Tail(server[s].queue)[i].archive \in promised'[Tail(server[s].queue)[i].id]
  <2> DEFINE q == Tail(server[s].queue)[i]
  <2>1. i \in 1..Len(server[s].queue) - 1 /\ q = server[s].queue[i + 1] /\ q \in Request
        /\ i + 1 \in 1..Len(server[s].queue)
    BY QueueFacts
  <2>2. CASE q.id = r.id
    <3>1. q \in [kind : {"save", "delete"}, id : {r.id}, archive : Archives \cup {Absent}]
      BY <1>7, <2>1, <2>2 DEF Request
    <3>2. q.archive \in Waiting(s, r.id)
      BY <2>1, <3>1 DEF Waiting
    <3> QED
      BY <1>4, <2>2, <3>2
  <2>3. CASE q.id # r.id
    <3>1. q.id \in Ids
      BY <2>1 DEF Request
    <3>2. q.archive \in promised[q.id]
      BY <1>7, <2>1 DEF IndInv, RequestsPromised
    <3> QED
      BY <1>4, <2>3, <3>1, <3>2
  <2> QED
    BY <2>2, <2>3
<1>8. RequestsPromised(s)'
  BY <1>6, <1>7 DEF RequestsPromised
<1> QED
  BY <1>4, <1>5, <1>8

-----------------------------------------------------------------------------
(* The actions                                                             *)

LEMMA StartKeeps ==
  ASSUME IndInv, NEW s \in Servers, Start(s)
  PROVE  IndInv'
<1> DEFINE st == [Down EXCEPT !.state = "starting"]
<1>1. st \in Store /\ st.state = "starting" /\ st.queue = <<>> /\ st.phase = "idle"
  BY UpIsStore
<1>2. Becomes(s, st) /\ server'[s] = st /\ lock' = s /\ lock = None
  BY DEF Start, Becomes, IndInv, TypeOK
<1>3. StageInv(s)' /\ RequestsPromised(s)' /\ AbsenceSettled(s)'
  BY <1>1, <1>2 DEF StageInv, RequestsPromised, AbsenceSettled, Saving
<1>4. GoodDirectories'
  BY UntouchedIsGood DEF Start
<1> QED
  BY <1>1, <1>2, <1>3, <1>4, ServerStep DEF Start, GoodDirectories, IndInv, TypeOK

LEMMA RemoveStagingKeeps ==
  ASSUME IndInv, NEW s \in Servers, RemoveStaging(s)
  PROVE  IndInv'
<1>1. server[s] \in Store /\ Becomes(s, server[s]) /\ server' = server /\ lock = s
  BY DEF RemoveStaging, Becomes, IndInv, TypeOK, WorkOnlyUnderLock
<1>2. server[s].state = "starting" /\ server[s].queue = <<>> /\ server[s].phase = "idle"
  BY DEF RemoveStaging, IndInv, StageInv
<1>3. GoodDirectories'
  BY StagingIsGood DEF RemoveStaging
<1>4. StageInv(s)' /\ RequestsPromised(s)' /\ AbsenceSettled(s)'
  BY <1>1, <1>2 DEF StageInv, RequestsPromised, AbsenceSettled, Saving
<1> QED
  BY <1>1, <1>2, <1>3, <1>4, ServerStep DEF RemoveStaging, GoodDirectories, IndInv, TypeOK

LEMMA FinishStartKeeps ==
  ASSUME IndInv, NEW s \in Servers, FinishStart(s)
  PROVE  IndInv'
<1> DEFINE st == [Down EXCEPT !.state = "open"]
<1>1. st \in Store /\ st.state = "open" /\ st.queue = <<>> /\ st.phase = "idle"
  BY UpIsStore
<1>2. Becomes(s, st) /\ server'[s] = st /\ lock = s /\ lock' = s
      /\ server[s].state # "down"
  BY DEF FinishStart, Becomes, IndInv, TypeOK, WorkOnlyUnderLock
<1>3. StageInv(s)' /\ RequestsPromised(s)'
  BY <1>1, <1>2 DEF StageInv, RequestsPromised, Saving
<1>4. GoodDirectories' /\ AbsenceSettled(s)'
  BY SettledIsGood, AbsenceFlushed DEF FinishStart
<1> QED
  BY <1>1, <1>2, <1>3, <1>4, ServerStep DEF FinishStart, GoodDirectories, IndInv, TypeOK

LEMMA PowerLossKeeps ==
  ASSUME IndInv, PowerLoss
  PROVE  IndInv'
<1>1. PICK e \in disk :
        /\ Settle(e)
        /\ promised' = [id \in Ids |->
                          promised[id] \cup (unflushed[id] \cap {e.files[id]})]
  BY DEF PowerLoss
<1>2. lock' = None /\ server' = [s \in Servers |-> Down]
  BY DEF PowerLoss
<1>3. directory' = e /\ disk' = {e} /\ unflushed' = [id \in Ids |-> {}]
  BY <1>1 DEF Settle
<1>4. unflushed' \in [Ids -> SUBSET Archives]
      /\ promised' \in [Ids -> SUBSET (Archives \cup {Absent})]
  BY <1>1, <1>3 DEF IndInv, TypeOK
<1>5. TypeOK' /\ WorkOnlyUnderLock'
  BY <1>2, <1>3, <1>4, DownIsStore DEF IndInv, TypeOK, WorkOnlyUnderLock, Down
<1>6. PromisesSurvive'
  BY <1>1, <1>3 DEF IndInv, PromisesSurvive
<1>7. DirectoryStaysAcceptable'
  BY <1>3 DEF IndInv, DirectoryStaysAcceptable, WithinLimits, ArchiveCount,
     TotalBytes, Held, BytesOf, Bytes
<1>8. \A s \in Servers : StageInv(s)' /\ RequestsPromised(s)' /\ AbsenceSettled(s)'
  BY <1>2 DEF StageInv, RequestsPromised, AbsenceSettled, Down, Saving
<1> QED
  BY <1>6, <1>7, <1>8, <1>3, <1>5 DEF IndInv

LEMMA SubmitKeeps ==
  ASSUME IndInv, NEW s \in Servers, NEW r \in Request, Submit(s, r)
  PROVE  IndInv'
<1> DEFINE q == server[s].queue
           st == [server[s] EXCEPT !.queue = Append(@, r)]
<1>1. server[s] \in Store /\ q \in Seq(Request) /\ server[s].state = "open"
      /\ lock = s /\ lock' = s
  BY DEF Submit, IndInv, TypeOK, Store, WorkOnlyUnderLock
<1>2. /\ Append(q, r) \in Seq(Request) /\ Len(Append(q, r)) = Len(q) + 1
      /\ Append(q, r)[Len(q) + 1] = r /\ Len(q) \in Nat
      /\ \A i \in 1..Len(q) : Append(q, r)[i] = q[i]
  BY <1>1
<1>3. st \in Store /\ st.queue = Append(q, r) /\ st.state = "open"
  BY <1>1, <1>2 DEF Store
<1>4. Becomes(s, st) /\ server'[s] = st
  BY DEF Submit, Becomes, IndInv, TypeOK
<1>5. UNCHANGED <<directory, disk, unflushed, lock>>
  BY DEF Submit
<1>6. r.id \in Ids /\ r.archive \in Archives \cup {Absent}
  BY DEF Request
<1>7. /\ promised' \in [Ids -> SUBSET (Archives \cup {Absent})]
      /\ \A id \in Ids : promised[id] \subseteq promised'[id]
      /\ r.kind # "load" => r.archive \in promised'[r.id]
  BY <1>6 DEF Submit, IndInv, TypeOK
<1>8. PromisesSurvive'
  BY <1>5, <1>7 DEF IndInv, PromisesSurvive
<1>9. DirectoryStaysAcceptable'
  BY <1>5 DEF IndInv, DirectoryStaysAcceptable, WithinLimits, ArchiveCount,
     TotalBytes, Held, BytesOf, Bytes
<1>10. StageInv(s)'
  <2>1. q # <<>> => Head(Append(q, r)) = Head(q)
    BY <1>1, <1>2
  <2>2. st.phase = server[s].phase /\ st.dirty = server[s].dirty
        /\ st.count = server[s].count /\ st.total = server[s].total /\ st.queue # <<>>
    BY <1>1, <1>2 DEF Store
  <2>3. q # <<>> => Current(s)' = Current(s)
    BY <1>3, <1>4, <2>1 DEF Current
  <2>4. ArchiveCount(directory)' = ArchiveCount(directory)
        /\ TotalBytes(directory)' = TotalBytes(directory)
    BY <1>5 DEF ArchiveCount, TotalBytes, Held, BytesOf, Bytes
  <2>5. q # <<>> => (Fits(s)' <=> Fits(s))
    BY <1>4, <1>5, <2>2, <2>3 DEF Fits, Held, Bytes
  <2>6. StageInv(s)
    BY DEF IndInv
  <2>7. CASE server[s].phase = "idle"
    BY <1>3, <1>4, <2>2, <2>7 DEF StageInv, Saving
  <2>8. CASE server[s].phase # "idle"
    <3>1. q # <<>>
      BY <2>6, <2>8 DEF StageInv
    <3> QED
      BY <1>3, <1>4, <1>5, <2>2, <2>3, <2>4, <2>5, <2>6, <2>8, <3>1 DEF StageInv
  <2> QED
    BY <2>7, <2>8
<1>11. RequestsPromised(s)'
  <2>1. ASSUME NEW i \in 1..Len(Append(q, r)), Append(q, r)[i].kind # "load"
        PROVE  Append(q, r)[i].archive \in promised'[Append(q, r)[i].id]
    <3>1. CASE i = Len(q) + 1
      BY <1>2, <1>7, <2>1, <3>1
    <3>2. CASE i # Len(q) + 1
      <4>1. i \in 1..Len(q) /\ Append(q, r)[i] = q[i] /\ q[i] \in Request
        BY <1>1, <1>2, <3>2
      <4>2. q[i].archive \in promised[q[i].id] /\ q[i].id \in Ids
        BY <2>1, <4>1 DEF IndInv, RequestsPromised, Request
      <4> QED
        BY <1>7, <4>1, <4>2
    <3> QED
      BY <3>1, <3>2
  <2> QED
    BY <1>3, <1>4, <2>1 DEF RequestsPromised
<1>12. AbsenceSettled(s)'
  <2>1. q # <<>> => Head(Append(q, r)) = Head(q)
    BY <1>1, <1>2
  <2>2. server[s].phase = "unlinked" =>
          server'[s].phase = "unlinked" /\ Current(s)' = Current(s)
    BY <1>1, <1>3, <1>4, <2>1 DEF IndInv, StageInv, Current
  <2>3. \A d \in disk' : d \in disk
    BY <1>5
  <2> QED
    BY <1>1, <1>5, <2>2, <2>3, AbsenceKept
<1> QED
  BY <1>1, <1>3, <1>4, <1>5, <1>7, <1>8, <1>9, <1>10, <1>11, <1>12, ServerStep
     DEF IndInv, TypeOK

(* What is known while a request is served.                                *)
LEMMA ServingFacts ==
  ASSUME IndInv, NEW s \in Servers, NEW kind, Serving(s, kind)
  PROVE  /\ server[s] \in Store /\ server[s].queue # <<>> /\ lock = s
         /\ server[s].state \in {"open", "closing"}
         /\ Current(s) \in Request /\ Current(s).kind = kind
         /\ Current(s).id \in Ids /\ Current(s).archive \in Archives \cup {Absent}
         /\ kind = "save" => Current(s).archive \in Archives
         /\ kind = "delete" => Current(s).archive = Absent
         /\ kind # "load" => Current(s).archive \in promised[Current(s).id]
<1>1. server[s].queue # <<>> /\ Current(s).kind = kind
  BY DEF Serving
<1>2. /\ server[s] \in Store /\ server[s].state \in {"open", "closing"}
      /\ Current(s) \in Request /\ Current(s) = server[s].queue[1]
      /\ Len(server[s].queue) \in Nat \ {0}
  BY <1>1, QueueFacts
<1>3. lock = s
  BY <1>2 DEF IndInv, WorkOnlyUnderLock
<1>4. kind # "load" => Current(s).archive \in promised[Current(s).id]
  BY <1>1, <1>2 DEF IndInv, RequestsPromised
<1> QED
  BY <1>1, <1>2, <1>3, <1>4 DEF Request

(* A step of a request that goes on: the queue is as it was.               *)
LEMMA RequestStep ==
  ASSUME IndInv, NEW s \in Servers, NEW kind, Serving(s, kind),
         NEW st \in Store, Becomes(s, st), UNCHANGED <<lock, promised>>,
         st.state = server[s].state, st.queue = server[s].queue,
         GoodDirectories', StageInv(s)', AbsenceSettled(s)'
  PROVE  IndInv'
<1>1. server'[s] = st
  BY DEF Becomes, IndInv, TypeOK
<1>2. RequestsPromised(s)'
  BY <1>1 DEF IndInv, RequestsPromised
<1>3. promised' \in [Ids -> SUBSET (Archives \cup {Absent})] /\ lock' \in Servers \cup {None}
  BY DEF IndInv, TypeOK
<1> QED
  BY <1>2, <1>3, ServingFacts, ServerStep DEF GoodDirectories

LEMMA StageSaveKeeps ==
  ASSUME IndInv, NEW s \in Servers, StageSave(s)
  PROVE  IndInv'
<1> DEFINE st == [server[s] EXCEPT !.phase = "staged", !.count = ArchiveCount(directory),
                                   !.total = TotalBytes(directory)]
<1>1. Serving(s, "save") /\ UNCHANGED <<lock, promised>> /\ Becomes(s, st)
  BY DEF StageSave
<1>2. directory \in Directory
  BY DEF IndInv, TypeOK
<1>3. ArchiveCount(directory) \in Nat /\ TotalBytes(directory) \in Nat
  BY <1>1, <1>2, ServingFacts, InventoryIsNat
<1>4. st \in Store /\ st.phase = "staged" /\ st.count = ArchiveCount(directory)
      /\ st.total = TotalBytes(directory)
      /\ st.state = server[s].state /\ st.queue = server[s].queue
  BY <1>1, <1>3, ServingFacts DEF Store, Phases
<1>5. GoodDirectories' /\ directory'.files = directory.files
  BY <1>1, StagingIsGood DEF StageSave
<1>6. server'[s] = st
  BY <1>1 DEF Becomes, IndInv, TypeOK
<1>7. ArchiveCount(directory') = ArchiveCount(directory)
      /\ TotalBytes(directory') = TotalBytes(directory)
  BY <1>5, SameFilesSameInventory
<1>8. ArchiveCount(directory)' = ArchiveCount(directory')
      /\ TotalBytes(directory)' = TotalBytes(directory')
  BY DEF ArchiveCount, TotalBytes, Held, BytesOf, Bytes
<1>9. Current(s)' = Current(s) /\ Current(s).kind = "save"
  BY <1>1, <1>4, <1>6, ServingFacts DEF Current
<1>10. StageInv(s)'
  BY <1>1, <1>4, <1>6, <1>7, <1>8, <1>9, ServingFacts DEF StageInv, Saving
<1>11. AbsenceSettled(s)'
  <2>1. \A d \in disk' : d \in disk \/ d.files = directory'.files
    BY DEF StageSave, ChangeDirectory
  <2>2. UNCHANGED unflushed /\ server[s].phase = "idle"
    BY DEF StageSave, ChangeDirectory
  <2> QED
    BY <1>1, <1>5, <2>1, <2>2, ServingFacts, AbsenceKept
<1> QED
  BY <1>1, <1>4, <1>5, <1>10, <1>11, RequestStep

(* The steps of a save that leave the directory alone.                     *)
LEMMA SaveStepKeeps ==
  ASSUME IndInv, NEW s \in Servers, Serving(s, "save"),
         server[s].phase \in {"staged", "written", "flushed", "checked", "renamed"},
         NEW phase \in {"written", "flushed", "checked", "failed"}, NEW dirty \in BOOLEAN,
         Becomes(s, [server[s] EXCEPT !.phase = phase, !.dirty = dirty]),
         UNCHANGED <<directory, disk, unflushed, lock, promised>>,
         phase # "failed" => server[s].phase \in {"staged", "written", "flushed"},
         phase \in {"flushed", "checked"} => ~dirty,
         phase = "checked" => Fits(s)
  PROVE  IndInv'
<1> DEFINE st == [server[s] EXCEPT !.phase = phase, !.dirty = dirty]
<1>1. st \in Store /\ st.phase = phase /\ st.dirty = dirty /\ st.count = server[s].count
      /\ st.total = server[s].total
      /\ st.state = server[s].state /\ st.queue = server[s].queue
  BY ServingFacts DEF Store, Phases
<1>2. server'[s] = st
  BY DEF Becomes, IndInv, TypeOK
<1>3. Current(s)' = Current(s) /\ Current(s).kind = "save"
  BY <1>1, <1>2, ServingFacts DEF Current
<1>4. ArchiveCount(directory)' = ArchiveCount(directory)
      /\ TotalBytes(directory)' = TotalBytes(directory)
  BY DEF ArchiveCount, TotalBytes, Held, BytesOf, Bytes
<1>5. Fits(s)' <=> Fits(s)
  BY <1>1, <1>2, <1>3 DEF Fits, Held, Bytes
<1>6. StageInv(s)
  BY DEF IndInv
<1>7. StageInv(s)'
  BY <1>1, <1>2, <1>3, <1>4, <1>5, <1>6, ServingFacts DEF StageInv, Saving
<1>8. \A d \in disk' : d \in disk
  OBVIOUS
<1>9. AbsenceSettled(s)'
  BY <1>8, ServingFacts, AbsenceKept
<1> QED
  BY <1>1, <1>7, <1>9, UntouchedIsGood, RequestStep

LEMMA WriteStagingKeeps ==
  ASSUME IndInv, NEW s \in Servers, WriteStaging(s)
  PROVE  IndInv'
BY SaveStepKeeps DEF WriteStaging

LEMMA FlushStagingKeeps ==
  ASSUME IndInv, NEW s \in Servers, FlushStaging(s)
  PROVE  IndInv'
BY SaveStepKeeps DEF FlushStaging

(* A step that names no dirt leaves it as it is.                           *)
LEMMA SameDirt ==
  ASSUME NEW st \in Store, NEW phase
  PROVE  [st EXCEPT !.phase = phase] = [st EXCEPT !.phase = phase, !.dirty = st.dirty]
BY DEF Store

LEMMA CheckLimitsKeeps ==
  ASSUME IndInv, NEW s \in Servers, CheckLimits(s)
  PROVE  IndInv'
<1> DEFINE phase == IF Fits(s) THEN "checked" ELSE "failed"
<1>1. /\ Serving(s, "save") /\ server[s].phase = "flushed"
      /\ Becomes(s, [server[s] EXCEPT !.phase = phase])
      /\ UNCHANGED <<directory, disk, unflushed, lock, promised>>
  BY DEF CheckLimits, Advance
<1>2. ~server[s].dirty /\ server[s].dirty \in BOOLEAN /\ server[s] \in Store
  BY <1>1, ServingFacts DEF IndInv, StageInv, Store
<1>3. [server[s] EXCEPT !.phase = phase]
        = [server[s] EXCEPT !.phase = phase, !.dirty = server[s].dirty]
  BY <1>2, SameDirt
<1>4. Becomes(s, [server[s] EXCEPT !.phase = phase, !.dirty = server[s].dirty])
  BY <1>1, <1>3
<1>5. phase \in {"checked", "failed"} /\ (phase = "checked" => Fits(s))
  OBVIOUS
<1> HIDE DEF phase
<1> QED
  BY <1>1, <1>2, <1>4, <1>5, SaveStepKeeps

LEMMA FailSaveKeeps ==
  ASSUME IndInv, NEW s \in Servers, FailSave(s)
  PROVE  IndInv'
<1>1. /\ Serving(s, "save")
      /\ Becomes(s, [server[s] EXCEPT !.phase = "failed"])
      /\ UNCHANGED <<directory, disk, unflushed, lock, promised>>
  BY DEF FailSave
<1>2. server[s] \in Store /\ server[s].dirty \in BOOLEAN
  BY <1>1, ServingFacts DEF Store
<1>3. [server[s] EXCEPT !.phase = "failed"]
        = [server[s] EXCEPT !.phase = "failed", !.dirty = server[s].dirty]
  BY <1>2, SameDirt
<1> QED
  BY <1>1, <1>2, <1>3, SaveStepKeeps DEF FailSave

(* The directory with other content under the id of the request is still   *)
(* one that every client may find, and within its limits.                  *)
LEMMA RenameKeeps ==
  ASSUME IndInv, NEW s \in Servers, Rename(s)
  PROVE  IndInv'
<1> DEFINE a == Current(s).archive
           id == Current(s).id
           e == Renamed(s, a)
           st == [server[s] EXCEPT !.phase = "renamed"]
<1>1. /\ Serving(s, "save") /\ server[s].phase = "checked" /\ Becomes(s, st)
      /\ UNCHANGED <<lock, promised>>
  BY DEF Rename, Advance
<1>2. /\ id \in Ids /\ a \in Archives /\ a # Absent /\ a \in promised[id]
      /\ server[s] \in Store /\ Current(s).kind = "save"
  BY <1>1, ServingFacts, StoreAssumption
<1>3. /\ ~server[s].dirty /\ Fits(s)
      /\ server[s].count = ArchiveCount(directory) /\ server[s].total = TotalBytes(directory)
  BY <1>1 DEF IndInv, StageInv
<1>4. ChangeDirectory(e, {})
  BY <1>3 DEF Rename
<1>5. directory \in Directory
  BY DEF IndInv, TypeOK
<1>6. e \in Directory /\ e.files = [directory.files EXCEPT ![id] = a] /\ e.files[id] = a
  BY <1>2, <1>5 DEF Renamed, Directory
<1>7. WithinLimits(e)
  <2>1. /\ ArchiveCount(directory) \in Nat /\ TotalBytes(directory) \in Nat
        /\ ArchiveCount(e) = ArchiveCount(directory)
                                - (IF id \in Held(directory) THEN 1 ELSE 0) + 1
        /\ TotalBytes(e) = TotalBytes(directory) - Bytes(directory, id) + Bytes(e, id)
    BY <1>2, <1>5, <1>6, InventoryChange
  <2>2. Bytes(e, id) = Size[a]
    BY <1>2, <1>6 DEF Bytes
  <2>3. /\ ArchiveCount(directory) + (IF id \in Held(directory) THEN 0 ELSE 1) <= MaxCount
        /\ TotalBytes(directory) - Bytes(directory, id) + Size[a] <= MaxTotalBytes
    BY <1>3 DEF Fits
  <2>4. ArchiveCount(e) <= MaxCount
    BY <2>1, <2>3, StoreAssumption
  <2>5. TotalBytes(e) <= MaxTotalBytes
    BY <2>1, <2>2, <2>3
  <2> QED
    BY <2>4, <2>5 DEF WithinLimits
<1>8. \A i \in Ids : e.files[i] \in promised[i]
  BY <1>2, <1>5, <1>6 DEF IndInv, PromisesSurvive, Directory
<1>9. GoodDirectories'
  BY <1>1, <1>4, <1>6, <1>7, <1>8, ChangeIsGood
<1>10. st \in Store /\ st.phase = "renamed"
       /\ st.state = server[s].state /\ st.queue = server[s].queue
  BY <1>2 DEF Store, Phases
<1>11. server'[s] = st
  BY <1>1 DEF Becomes, IndInv, TypeOK
<1>12. Current(s)' = Current(s) /\ directory' = e
  BY <1>4, <1>10, <1>11 DEF Current, ChangeDirectory
<1>13. StageInv(s)'
  <2>1. Current(s)'.id = id /\ Current(s)'.archive = a /\ Current(s)'.kind = "save"
    BY <1>2, <1>12
  <2>2. server'[s].phase = "renamed" /\ directory'.files[id] = a
    BY <1>6, <1>10, <1>11, <1>12
  <2>3. server'[s].state \notin {"down", "starting"} /\ server'[s].queue # <<>>
    BY <1>1, <1>10, <1>11, ServingFacts DEF Serving
  <2> QED
    BY <2>1, <2>2, <2>3 DEF StageInv, Saving
<1>14. AbsenceSettled(s)'
  <2>1. \A d \in disk' : d \in disk \/ d.files = directory'.files
    BY <1>4 DEF ChangeDirectory
  <2>2. UNCHANGED unflushed /\ server[s].phase # "unlinked"
    BY <1>1, <1>4 DEF ChangeDirectory
  <2>3. \A i \in Ids : directory'.files[i] = Absent => directory.files[i] = Absent
    BY <1>2, <1>5, <1>6, <1>12 DEF Directory
  <2> QED
    BY <1>1, <2>1, <2>2, <2>3, ServingFacts, AbsenceKept
<1> QED
  BY <1>1, <1>9, <1>10, <1>13, <1>14, RequestStep

LEMMA PublishSaveKeeps ==
  ASSUME IndInv, NEW s \in Servers, PublishSave(s)
  PROVE  IndInv'
<1> DEFINE st == [server[s] EXCEPT !.phase = "published"]
<1>1. /\ Serving(s, "save") /\ server[s].phase = "renamed" /\ Becomes(s, st)
      /\ FlushDirectory /\ UNCHANGED <<lock, promised>>
  BY DEF PublishSave, Advance
<1>2. st \in Store /\ st.phase = "published"
      /\ st.state = server[s].state /\ st.queue = server[s].queue
  BY <1>1, ServingFacts DEF Store, Phases
<1>3. server'[s] = st
  BY <1>1 DEF Becomes, IndInv, TypeOK
<1>4. /\ Current(s)' = Current(s) /\ Current(s).kind = "save"
      /\ directory.files[Current(s).id] = Current(s).archive
  BY <1>1, <1>2, <1>3, ServingFacts DEF Current, IndInv, StageInv
<1>5. StageInv(s)'
  BY <1>1, <1>2, <1>3, <1>4, ServingFacts DEF StageInv, Saving, FlushDirectory, Settle
<1>6. GoodDirectories' /\ AbsenceSettled(s)'
  BY <1>1, SettledIsGood, AbsenceFlushed
<1> QED
  BY <1>1, <1>2, <1>5, <1>6, RequestStep

LEMMA UnlinkKeeps ==
  ASSUME IndInv, NEW s \in Servers, Unlink(s)
  PROVE  IndInv'
<1> DEFINE id == Current(s).id
           e == [directory EXCEPT !.files[Current(s).id] = Absent]
           st == [server[s] EXCEPT !.phase = "unlinked"]
<1>1. /\ Serving(s, "delete") /\ Becomes(s, st) /\ ChangeDirectory(e, {})
      /\ UNCHANGED <<lock, promised>>
  BY DEF Unlink, Advance
<1>2. /\ id \in Ids /\ Current(s).archive = Absent /\ Absent \in promised[id]
      /\ server[s] \in Store /\ Current(s).kind = "delete"
  BY <1>1, ServingFacts
<1>3. directory \in Directory
  BY DEF IndInv, TypeOK
<1>4. e \in Directory /\ e.files = [directory.files EXCEPT ![id] = Absent]
      /\ e.files[id] = Absent
  BY <1>2, <1>3 DEF Directory
<1>5. WithinLimits(e)
  <2>1. /\ ArchiveCount(directory) \in Nat /\ TotalBytes(directory) \in Nat
        /\ ArchiveCount(e) = ArchiveCount(directory)
                                - (IF id \in Held(directory) THEN 1 ELSE 0)
        /\ TotalBytes(e) = TotalBytes(directory) - Bytes(directory, id) + Bytes(e, id)
    <3> HIDE DEF e
    <3>1. ASSUME NEW a \in Archives \cup {Absent}, a = Absent
          PROVE  /\ ArchiveCount(directory) \in Nat /\ TotalBytes(directory) \in Nat
                 /\ ArchiveCount(e) = ArchiveCount(directory)
                                         - (IF id \in Held(directory) THEN 1 ELSE 0)
                 /\ TotalBytes(e) = TotalBytes(directory) - Bytes(directory, id)
                                      + Bytes(e, id)
      <4>1. e.files = [directory.files EXCEPT ![id] = a]
        BY <1>4, <3>1
      <4> QED
        BY <1>2, <1>3, <1>4, <3>1, <4>1, InventoryChange
    <3> QED
      BY <3>1
  <2>2. Bytes(e, id) = 0 /\ Bytes(directory, id) \in Nat
    BY <1>2, <1>3, <1>4, TotalWithout, StoreAssumption DEF Bytes
  <2>3. ArchiveCount(directory) <= MaxCount /\ TotalBytes(directory) <= MaxTotalBytes
    BY DEF IndInv, DirectoryStaysAcceptable, WithinLimits
  <2>4. ArchiveCount(e) <= MaxCount
    BY <2>1, <2>3, StoreAssumption
  <2>5. TotalBytes(e) <= MaxTotalBytes
    BY <2>1, <2>2, <2>3, StoreAssumption
  <2> QED
    BY <2>4, <2>5 DEF WithinLimits
<1>6. \A i \in Ids : e.files[i] \in promised[i]
  BY <1>2, <1>3, <1>4 DEF IndInv, PromisesSurvive, Directory
<1>7. GoodDirectories'
  BY <1>1, <1>4, <1>5, <1>6, ChangeIsGood
<1>8. st \in Store /\ st.phase = "unlinked"
      /\ st.state = server[s].state /\ st.queue = server[s].queue
  BY <1>2 DEF Store, Phases
<1>9. server'[s] = st
  BY <1>1 DEF Becomes, IndInv, TypeOK
<1>10. Current(s)' = Current(s) /\ directory' = e
  BY <1>1, <1>8, <1>9 DEF Current, ChangeDirectory
<1>11. StageInv(s)'
  BY <1>1, <1>2, <1>4, <1>8, <1>9, <1>10, ServingFacts DEF StageInv, Saving
<1>12. AbsenceSettled(s)'
  <2>1. \A d \in disk' : d \in disk \/ d.files = directory'.files
    BY <1>1 DEF ChangeDirectory
  <2>2. UNCHANGED unflushed /\ server[s].phase = "idle"
    BY <1>1 DEF ChangeDirectory, Unlink, Advance
  <2>3. \A i \in Ids : directory'.files[i] = Absent =>
          \/ directory.files[i] = Absent
          \/ server'[s].phase = "unlinked" /\ Current(s)'.id = i
    BY <1>2, <1>3, <1>4, <1>8, <1>9, <1>10 DEF Directory
  <2> QED
    BY <1>1, <2>1, <2>2, <2>3, ServingFacts, AbsenceKept
<1> QED
  BY <1>1, <1>7, <1>8, <1>11, <1>12, RequestStep

(* The answer of a request whose change has reached the disk.              *)
LEMMA AnswerStep ==
  ASSUME IndInv, NEW s \in Servers, Serving(s, "save") \/ Serving(s, "delete"),
         Answer(s), UNCHANGED lock,
         directory' \in Directory, disk' \subseteq Directory, directory' \in disk',
         DirectoryStaysAcceptable', unflushed' \in [Ids -> SUBSET Archives],
         StillPromised, AbsenceSettled(s)',
         UNCHANGED promised \/ (Acknowledge(s) /\ FindsArchive(s))
  PROVE  IndInv'
<1> DEFINE st == [server[s] EXCEPT !.queue = Tail(@), !.phase = "idle",
                                   !.dirty = FALSE, !.count = 0, !.total = 0]
<1>1. server[s].queue # <<>> /\ Current(s).kind # "load" /\ lock = s
  BY ServingFacts
<1>2. /\ st \in Store /\ Becomes(s, st) /\ server'[s] = st
      /\ st.queue = Tail(server[s].queue) /\ StageInv(s)'
  BY <1>1, AnswerFacts
<1>3. /\ promised' \in [Ids -> SUBSET (Archives \cup {Absent})]
      /\ PromisesSurvive' /\ RequestsPromised(s)'
  <2>1. CASE Acknowledge(s) /\ FindsArchive(s)
    BY <1>1, <2>1, AcknowledgeKeeps
  <2>2. CASE UNCHANGED promised
    <3>1. PromisesSurvive'
      BY <2>2 DEF StillPromised, PromisesSurvive
    <3>2. RequestsPromised(s)
      BY DEF IndInv
    <3>3. server'[s].queue = Tail(server[s].queue)
      BY <1>2
    <3>4. RequestsPromised(s)'
      BY <1>1, <2>2, <3>2, <3>3, QueueFacts DEF RequestsPromised
    <3> QED
      BY <2>2, <3>1, <3>4 DEF IndInv, TypeOK
  <2> QED
    BY <2>1, <2>2
<1>4. server[s].state # "down"
  BY <1>1, QueueFacts
<1> HIDE DEF st
<1> QED
  BY <1>1, <1>2, <1>3, <1>4, ServerStep

LEMMA CleanUpKeeps ==
  ASSUME IndInv, NEW s \in Servers, CleanUp(s)
  PROVE  IndInv'
<1> DEFINE e == [directory EXCEPT !.staging = FALSE]
<1>1. /\ Serving(s, "save") /\ Answer(s) /\ UNCHANGED lock
      /\ Acknowledge(s) \/ UNCHANGED promised
      /\ server[s].phase = "published" \/ UNCHANGED promised
      /\ ChangeDirectory(e, {}) \/ UNCHANGED <<directory, disk, unflushed>>
  BY DEF CleanUp
<1>2. /\ directory \in Directory /\ disk \subseteq Directory /\ directory \in disk
      /\ DirectoryStaysAcceptable
  BY DEF IndInv, TypeOK
<1>3. e \in Directory /\ e.files = directory.files
  BY <1>2 DEF Directory
<1>4. /\ directory' \in {directory, e} /\ disk' \in {disk, disk \cup {e}}
      /\ directory' \in disk' /\ directory'.files = directory.files
      /\ unflushed' = unflushed
  BY <1>1, <1>2, <1>3 DEF ChangeDirectory
<1>5. \A d \in disk' \cup {directory'} :
        \E f \in disk : d.files = f.files
  BY <1>2, <1>3, <1>4
<1>6. WithinLimits(e) <=> WithinLimits(directory)
  BY <1>3, SameFilesSameInventory
<1>7. \A d \in disk' \cup {directory'} : WithinLimits(d)
  BY <1>2, <1>4, <1>6 DEF DirectoryStaysAcceptable
<1>8. DirectoryStaysAcceptable'
  BY <1>7 DEF DirectoryStaysAcceptable, WithinLimits, ArchiveCount, TotalBytes,
     Held, BytesOf, Bytes
<1>9. StillPromised /\ unflushed' \in [Ids -> SUBSET Archives]
  BY <1>4, <1>5 DEF StillPromised, IndInv, TypeOK, PromisesSurvive
<1>10. AbsenceSettled(s)'
  <2>1. \A d \in disk' : d \in disk \/ d.files = directory'.files
    BY <1>3, <1>4
  <2>2. server[s].phase # "unlinked"
    BY DEF CleanUp
  <2> QED
    BY <1>1, <1>4, <2>1, <2>2, ServingFacts, AbsenceKept
<1>11. CASE server[s].phase = "published"
  <2>1. \A d \in disk : d.files[Current(s).id] = Current(s).archive
    BY <1>11 DEF IndInv, StageInv
  <2>2. FindsArchive(s)
    BY <1>5, <2>1 DEF FindsArchive
  <2> QED
    BY <1>1, <1>2, <1>3, <1>4, <1>8, <1>9, <1>10, <2>2, AnswerStep
<1>12. CASE server[s].phase # "published"
  BY <1>1, <1>2, <1>3, <1>4, <1>8, <1>9, <1>10, <1>12, AnswerStep
<1> QED
  BY <1>11, <1>12

(* Nothing is there and nothing was flushed: the disk may hold only what   *)
(* an earlier delete failed to flush.                                      *)
LEMMA DeleteAbsentKeeps ==
  ASSUME IndInv, NEW s \in Servers, DeleteAbsent(s)
  PROVE  IndInv'
<1>1. /\ Serving(s, "delete") /\ server[s].phase = "idle"
      /\ directory.files[Current(s).id] = Absent
      /\ Answer(s) /\ Acknowledge(s)
      /\ UNCHANGED <<directory, disk, unflushed, lock>>
  BY DEF DeleteAbsent
<1>2. /\ Current(s).id \in Ids /\ Current(s).archive = Absent
      /\ server[s].state \in {"open", "closing"}
  BY <1>1, ServingFacts
<1>3. /\ directory' \in Directory /\ disk' \subseteq Directory /\ directory' \in disk'
      /\ unflushed' \in [Ids -> SUBSET Archives]
  BY <1>1 DEF IndInv, TypeOK
<1>4. DirectoryStaysAcceptable'
  BY <1>1 DEF IndInv, DirectoryStaysAcceptable, WithinLimits, ArchiveCount,
     TotalBytes, Held, BytesOf, Bytes
<1>5. StillPromised
  BY <1>1 DEF StillPromised, IndInv, PromisesSurvive
<1>6. \A d \in disk' : d \in disk
  BY <1>1
<1>7. AbsenceSettled(s)'
  BY <1>1, <1>2, <1>6, AbsenceKept
<1>8. FindsArchive(s)
  <2>1. AbsenceSettled(s)
    BY DEF IndInv
  <2>2. \A d \in disk : d.files[Current(s).id] \in {Absent} \cup unflushed[Current(s).id]
    BY <1>1, <1>2, <2>1 DEF AbsenceSettled
  <2> QED
    BY <1>1, <1>2, <2>2 DEF FindsArchive
<1> QED
  BY <1>1, <1>3, <1>4, <1>5, <1>7, <1>8, AnswerStep

(* What a failed flush leaves on the disk is an archive or nothing.        *)
LEMMA FailDeleteKeeps ==
  ASSUME IndInv, NEW s \in Servers, FailDelete(s)
  PROVE  IndInv'
<1> DEFINE id == Current(s).id
           left == {d.files[Current(s).id] : d \in disk} \ {Absent}
<1>1. /\ Serving(s, "delete") /\ server[s].phase = "unlinked" /\ Answer(s)
      /\ unflushed' = [unflushed EXCEPT ![id] = @ \cup left]
      /\ UNCHANGED <<directory, disk, lock, promised>>
  BY DEF FailDelete
<1>2. id \in Ids /\ server[s].state \in {"open", "closing"}
  BY <1>1, ServingFacts
<1>3. /\ unflushed \in [Ids -> SUBSET Archives]
      /\ promised \in [Ids -> SUBSET (Archives \cup {Absent})]
      /\ PromisesSurvive
  BY DEF IndInv, TypeOK
<1>4. left \subseteq Archives
  BY <1>2, <1>3 DEF PromisesSurvive
<1> HIDE DEF left
<1>5. /\ unflushed' \in [Ids -> SUBSET Archives]
      /\ unflushed'[id] = unflushed[id] \cup left
      /\ \A i \in Ids \ {id} : unflushed'[i] = unflushed[i]
  BY <1>1, <1>2, <1>3, <1>4
<1>6. /\ directory' \in Directory /\ disk' \subseteq Directory /\ directory' \in disk'
  BY <1>1 DEF IndInv, TypeOK
<1>7. DirectoryStaysAcceptable'
  BY <1>1 DEF IndInv, DirectoryStaysAcceptable, WithinLimits, ArchiveCount,
     TotalBytes, Held, BytesOf, Bytes
<1>8. \A i \in Ids : unflushed[i] \subseteq unflushed'[i]
  BY <1>5
<1>9. StillPromised
  BY <1>1, <1>3, <1>8 DEF StillPromised, PromisesSurvive
<1>10. AbsenceSettled(s)'
  <2>1. \A d \in disk' : d.files[id] \in {Absent} \cup unflushed'[id]
    BY <1>1, <1>5 DEF left
  <2>2. ASSUME NEW i \in Ids \ {id}, directory.files[i] = Absent
        PROVE  \A d \in disk : d.files[i] \in {Absent} \cup unflushed[i]
    BY <1>2, <2>2 DEF IndInv, AbsenceSettled
  <2>3. \A i \in Ids \ {id} : directory'.files[i] = Absent =>
          \A d \in disk' : d.files[i] \in {Absent} \cup unflushed'[i]
    BY <1>1, <1>5, <2>2
  <2> HIDE DEF id
  <2> QED
    BY <2>1, <2>3 DEF AbsenceSettled
<1> QED
  BY <1>1, <1>5, <1>6, <1>7, <1>9, <1>10, AnswerStep

LEMMA PublishDeleteKeeps ==
  ASSUME IndInv, NEW s \in Servers, PublishDelete(s)
  PROVE  IndInv'
<1>1. /\ Serving(s, "delete") /\ server[s].phase = "unlinked" /\ FlushDirectory
      /\ Answer(s) /\ UNCHANGED lock
      /\ Acknowledge(s) \/ UNCHANGED promised
  BY DEF PublishDelete
<1>2. /\ directory \in Directory /\ directory' = directory /\ disk' = {directory}
      /\ unflushed' = [id \in Ids |-> {}]
  BY <1>1 DEF FlushDirectory, Settle, IndInv, TypeOK
<1>3. DirectoryStaysAcceptable'
  BY <1>2 DEF IndInv, DirectoryStaysAcceptable, WithinLimits, ArchiveCount,
     TotalBytes, Held, BytesOf, Bytes
<1>4. directory.files[Current(s).id] = Current(s).archive
  BY <1>1, ServingFacts DEF IndInv, StageInv
<1>5. FindsArchive(s)
  BY <1>2, <1>4 DEF FindsArchive
<1>6. StillPromised /\ unflushed' \in [Ids -> SUBSET Archives]
  BY <1>2 DEF StillPromised, IndInv, PromisesSurvive
<1>7. AbsenceSettled(s)'
  BY <1>1, AbsenceFlushed
<1> QED
  BY <1>1, <1>2, <1>3, <1>5, <1>6, <1>7, AnswerStep

LEMMA CloseKeeps ==
  ASSUME IndInv, NEW s \in Servers, Close(s)
  PROVE  IndInv'
<1> DEFINE st == [server[s] EXCEPT !.state = "closing"]
<1>1. server[s] \in Store /\ server[s].state = "open" /\ lock = s
  BY DEF Close, IndInv, TypeOK, WorkOnlyUnderLock
<1>2. /\ st \in Store /\ st.state = "closing" /\ st.queue = server[s].queue
      /\ st.phase = server[s].phase /\ st.dirty = server[s].dirty
      /\ st.count = server[s].count /\ st.total = server[s].total
  BY <1>1 DEF Store
<1>3. Becomes(s, st) /\ server'[s] = st /\ UNCHANGED <<directory, disk, unflushed, lock, promised>>
  BY DEF Close, Becomes, IndInv, TypeOK
<1>4. Current(s)' = Current(s)
  BY <1>2, <1>3 DEF Current
<1>5. ArchiveCount(directory)' = ArchiveCount(directory)
      /\ TotalBytes(directory)' = TotalBytes(directory)
  BY <1>3 DEF ArchiveCount, TotalBytes, Held, BytesOf, Bytes
<1>6. Fits(s)' <=> Fits(s)
  BY <1>2, <1>3, <1>4 DEF Fits, Held, Bytes
<1>7. StageInv(s) /\ RequestsPromised(s)
  BY DEF IndInv
<1>8. StageInv(s)'
  BY <1>1, <1>2, <1>3, <1>4, <1>5, <1>6, <1>7 DEF StageInv
<1>9. RequestsPromised(s)'
  BY <1>2, <1>3, <1>7 DEF RequestsPromised
<1>10. \A d \in disk' : d \in disk
  BY <1>3
<1>11. AbsenceSettled(s)'
  BY <1>1, <1>2, <1>3, <1>4, <1>10, AbsenceKept
<1> QED
  BY <1>1, <1>2, <1>3, <1>8, <1>9, <1>11, QuietStep

-----------------------------------------------------------------------------
(* The invariant holds                                                     *)

LEMMA InitIndInv == Init => IndInv
<1> SUFFICES ASSUME Init
             PROVE  IndInv
  OBVIOUS
<1>1. /\ directory = [files |-> [id \in Ids |-> Absent], staging |-> FALSE]
      /\ disk = {directory} /\ lock = None /\ server = [s \in Servers |-> Down]
      /\ promised = [id \in Ids |-> {Absent}] /\ unflushed = [id \in Ids |-> {}]
  BY DEF Init
<1>2. TypeOK
  BY <1>1, DownIsStore DEF TypeOK, Directory
<1>3. WorkOnlyUnderLock
  BY <1>1 DEF WorkOnlyUnderLock, Down
<1>4. PromisesSurvive
  BY <1>1 DEF PromisesSurvive
<1>5. DirectoryStaysAcceptable
  <2>1. Held(directory) = {}
    BY <1>1 DEF Held
  <2>2. UNION {BytesOf(directory, id) : id \in Held(directory)} = {}
    BY <2>1
  <2>3. ArchiveCount(directory) = 0 /\ TotalBytes(directory) = 0
    BY <2>1, <2>2, FS_EmptySet, Zenon DEF ArchiveCount, TotalBytes
  <2>4. WithinLimits(directory)
    BY <2>3, StoreAssumption DEF WithinLimits
  <2> QED
    BY <1>1, <2>4 DEF DirectoryStaysAcceptable
<1>6. \A s \in Servers : StageInv(s) /\ RequestsPromised(s) /\ AbsenceSettled(s)
  BY <1>1, DownKeeps
<1> QED
  BY <1>1, <1>2, <1>3, <1>4, <1>5, <1>6 DEF IndInv

LEMMA NextIndInv == IndInv /\ [Next]_vars => IndInv'
<1> SUFFICES ASSUME IndInv, [Next]_vars
             PROVE  IndInv'
  OBVIOUS
<1>1. ASSUME NEW s \in Servers, Work(s)
      PROVE  IndInv'
  <2>1. CASE RemoveStaging(s)
    BY <2>1, RemoveStagingKeeps
  <2>2. CASE FinishStart(s)
    BY <2>2, FinishStartKeeps
  <2>3. CASE FailStart(s)
    BY <2>3, EndStep DEF FailStart
  <2>4. CASE Load(s)
    BY <2>4, RefuseKeeps DEF Load, Serving, IndInv, StageInv
  <2>5. CASE RefuseSave(s)
    BY <2>5, RefuseKeeps DEF RefuseSave, Serving
  <2>6. CASE StageSave(s)
    BY <2>6, StageSaveKeeps
  <2>7. CASE WriteStaging(s)
    BY <2>7, WriteStagingKeeps
  <2>8. CASE FlushStaging(s)
    BY <2>8, FlushStagingKeeps
  <2>9. CASE CheckLimits(s)
    BY <2>9, CheckLimitsKeeps
  <2>10. CASE Rename(s)
    BY <2>10, RenameKeeps
  <2>11. CASE PublishSave(s)
    BY <2>11, PublishSaveKeeps
  <2>12. CASE FailSave(s)
    BY <2>12, FailSaveKeeps
  <2>13. CASE CleanUp(s)
    BY <2>13, CleanUpKeeps
  <2>14. CASE RefuseDelete(s)
    BY <2>14, RefuseKeeps DEF RefuseDelete, Serving
  <2>15. CASE Unlink(s)
    BY <2>15, UnlinkKeeps
  <2>16. CASE PublishDelete(s)
    BY <2>16, PublishDeleteKeeps
  <2>17. CASE FinishClose(s)
    BY <2>17, EndStep DEF FinishClose
  <2>18. CASE DeleteAbsent(s)
    BY <2>18, DeleteAbsentKeeps
  <2>19. CASE FailDelete(s)
    BY <2>19, FailDeleteKeeps
  <2> QED
    BY <1>1, <2>1, <2>2, <2>3, <2>4, <2>5, <2>6, <2>7, <2>8, <2>9, <2>10, <2>11, <2>12,
       <2>13, <2>14, <2>15, <2>16, <2>17, <2>18, <2>19 DEF Work
<1>2. ASSUME NEW s \in Servers, Start(s)
      PROVE  IndInv'
  BY <1>2, StartKeeps
<1>3. ASSUME NEW s \in Servers, Close(s)
      PROVE  IndInv'
  BY <1>3, CloseKeeps
<1>4. ASSUME NEW s \in Servers, Kill(s)
      PROVE  IndInv'
  BY <1>4, EndStep DEF Kill
<1>5. ASSUME NEW s \in Servers, NEW r \in Request, Submit(s, r)
      PROVE  IndInv'
  BY <1>5, SubmitKeeps
<1>6. CASE PowerLoss
  BY <1>6, PowerLossKeeps
<1>7. CASE UNCHANGED vars
  <2>1. TypeOK' /\ WorkOnlyUnderLock' /\ (directory \in disk)'
    BY <1>7 DEF vars, IndInv, TypeOK, WorkOnlyUnderLock
  <2>2. GoodDirectories'
    BY <1>7, UntouchedIsGood DEF vars
  <2>3. ASSUME NEW s \in Servers
        PROVE  StageInv(s)' /\ RequestsPromised(s)' /\ AbsenceSettled(s)'
    <3>1. ArchiveCount(directory)' = ArchiveCount(directory)
          /\ TotalBytes(directory)' = TotalBytes(directory)
      BY <1>7 DEF vars, ArchiveCount, TotalBytes, Held, BytesOf, Bytes
    <3>2. Current(s)' = Current(s) /\ (Fits(s)' <=> Fits(s))
      BY <1>7 DEF vars, Current, Fits, Held, Bytes
    <3> QED
      BY <1>7, <3>1, <3>2 DEF vars, IndInv, StageInv, RequestsPromised, AbsenceSettled
  <2> QED
    BY <2>1, <2>2, <2>3 DEF GoodDirectories, IndInv
<1> QED
  BY <1>1, <1>2, <1>3, <1>4, <1>5, <1>6, <1>7 DEF Next

LEMMA Invariant == Spec => []IndInv
BY InitIndInv, NextIndInv, PTL DEF Spec

(* Every component of the state keeps its type.                            *)
THEOREM TypeCorrect == Spec => []TypeOK
<1>1. IndInv => TypeOK
  BY DEF IndInv
<1> QED
  BY Invariant, <1>1, PTL

(* A server with a store object, and so with any file operation under way, *)
(* holds the lock of the directory.                                        *)
THEOREM LockedWork == Spec => []WorkOnlyUnderLock
<1>1. IndInv => WorkOnlyUnderLock
  BY DEF IndInv
<1> QED
  BY Invariant, <1>1, PTL

(* What save() and delete() acknowledged survives crashes, power losses,   *)
(* and whatever any server did since; only an archive whose delete failed  *)
(* in its directory flush may come back after a later delete of it.        *)
THEOREM DurablePromises == Spec => []PromisesSurvive
<1>1. IndInv => PromisesSurvive
  BY DEF IndInv
<1> QED
  BY Invariant, <1>1, PTL

(* No directory that may be found exceeds what validateInventory accepts.  *)
THEOREM AcceptableDirectory == Spec => []DirectoryStaysAcceptable
<1>1. IndInv => DirectoryStaysAcceptable
  BY DEF IndInv
<1> QED
  BY Invariant, <1>1, PTL

-----------------------------------------------------------------------------
(* The store implements the shelf                                          *)

(* What happens to the staging file is not seen on the shelf.              *)
LEMMA StagingStutters ==
  ASSUME IndInv, NEW b \in BOOLEAN, ChangeDirectory([directory EXCEPT !.staging = b], {})
  PROVE  UNCHANGED Shelf!shelfVars
<1> DEFINE e == [directory EXCEPT !.staging = b]
<1>1. directory \in Directory /\ directory \in disk
  BY DEF IndInv, TypeOK
<1>2. e.files = directory.files
  BY <1>1 DEF Directory
<1>3. directory' = e /\ disk' = disk \cup {e}
  BY DEF ChangeDirectory
<1>4. {d.files : d \in disk'} = {d.files : d \in disk}
  BY <1>1, <1>2, <1>3
<1> QED
  BY <1>2, <1>3, <1>4 DEF Shelf!shelfVars

(* An archive renamed to its id, or unlinked, is put on the shelf at once. *)
LEMMA ChangePuts ==
  ASSUME IndInv, NEW e, NEW id \in Ids, NEW a \in Archives \cup {Absent},
         e.files = [directory.files EXCEPT ![id] = a], ChangeDirectory(e, {})
  PROVE  Shelf!Next
<1>1. directory' = e /\ disk' = disk \cup {e}
  BY DEF ChangeDirectory
<1>2. {d.files : d \in disk'} = {d.files : d \in disk} \cup {e.files}
  BY <1>1
<1> QED
  BY <1>1, <1>2 DEF Shelf!Next, Shelf!Put

(* A flush of the directory settles the shelf.                             *)
LEMMA FlushSettles ==
  ASSUME FlushDirectory
  PROVE  Shelf!Next
BY DEF FlushDirectory, Settle, Shelf!Next, Shelf!Settle

LEMMA WorkOnShelf ==
  ASSUME IndInv, NEW s \in Servers, Work(s)
  PROVE  [Shelf!Next]_Shelf!shelfVars
<1>1. CASE UNCHANGED <<directory, disk>>
  BY <1>1 DEF Shelf!shelfVars
<1>2. CASE \E b \in BOOLEAN : ChangeDirectory([directory EXCEPT !.staging = b], {})
  BY <1>2, StagingStutters
<1>3. CASE FlushDirectory
  BY <1>3, FlushSettles
<1>4. CASE Rename(s)
  <2> DEFINE e == Renamed(s, Current(s).archive)
  <2>1. Serving(s, "save") /\ server[s].phase = "checked"
    BY <1>4 DEF Rename, Advance
  <2>2. ~server[s].dirty
    BY <2>1 DEF IndInv, StageInv
  <2>3. ChangeDirectory(e, {})
    BY <1>4, <2>2 DEF Rename
  <2>4. e.files = [directory.files EXCEPT ![Current(s).id] = Current(s).archive]
    BY DEF Renamed, IndInv, TypeOK, Directory
  <2> QED
    BY <2>1, <2>3, <2>4, ServingFacts, ChangePuts
<1>5. CASE Unlink(s)
  <2> DEFINE e == [directory EXCEPT !.files[Current(s).id] = Absent]
  <2>1. Serving(s, "delete") /\ ChangeDirectory(e, {})
    BY <1>5 DEF Unlink
  <2>2. e.files = [directory.files EXCEPT ![Current(s).id] = Absent]
    BY DEF IndInv, TypeOK, Directory
  <2>3. Current(s).id \in Ids /\ Absent \in Archives \cup {Absent}
    BY <2>1, ServingFacts
  <2> HIDE DEF e
  <2> QED
    BY <2>1, <2>2, <2>3, ChangePuts
<1> QED
  BY <1>1, <1>2, <1>3, <1>4, <1>5
     DEF Work, RemoveStaging, FinishStart, FailStart, Load, RefuseSave, StageSave,
         WriteStaging, FlushStaging, CheckLimits, PublishSave, FailSave, CleanUp,
         DeleteAbsent, RefuseDelete, FailDelete, PublishDelete, FinishClose, Refuse

(* Seen from outside the store is the shelf of whole archives: each change *)
(* is made in one step, and a power loss leaves a shelf that stood.        *)
THEOREM StoreImplementsShelf == Spec => ImplementsShelf
<1>1. Init => Shelf!Init
  BY DEF Init, Shelf!Init, Shelf!Shelf
<1>2. IndInv /\ [Next]_vars => [Shelf!Next]_Shelf!shelfVars
  <2> SUFFICES ASSUME IndInv, [Next]_vars
               PROVE  [Shelf!Next]_Shelf!shelfVars
    OBVIOUS
  <2>1. ASSUME NEW s \in Servers, Work(s)
        PROVE  [Shelf!Next]_Shelf!shelfVars
    BY <2>1, WorkOnShelf
  <2>2. CASE UNCHANGED <<directory, disk>>
    BY <2>2 DEF Shelf!shelfVars
  <2>3. CASE PowerLoss
    <3>1. directory' \in disk /\ disk' = {directory'}
      BY <2>3 DEF PowerLoss, Settle
    <3>2. directory'.files \in {d.files : d \in disk}
          /\ {d.files : d \in disk'} = {directory'.files}
      BY <3>1
    <3> QED
      BY <3>2 DEF Shelf!Next, Shelf!PowerLoss
  <2> QED
    BY <2>1, <2>2, <2>3 DEF Next, vars, Start, Close, Kill, Submit
<1> QED
  BY <1>1, <1>2, Invariant, PTL DEF Spec, ImplementsShelf, Shelf!Spec

=============================================================================
