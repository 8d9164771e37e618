----------------------- MODULE LocalAnonymizeService -----------------------
(***************************************************************************)
(* The MCP server's LocalAnonymizeService: concurrent anonymize and        *)
(* restore calls on named sessions that live in memory and, in durable     *)
(* mode, in the archive store.  A call leases its session, redacts, has    *)
(* the session saved, publishes its output and only then commits; when one *)
(* of these fails it rolls the session back, in memory and in the store.   *)
(*                                                                         *)
(* JavaScript runs one callback at a time, so everything between two       *)
(* awaits of file operations is one action here.  The store is used        *)
(* through its abstract specification ArchiveShelf, one request at a time  *)
(* in the order of submission, as DurableSessionStore implements it.       *)
(*                                                                         *)
(* A session's value is the sequence of the calls that added entities to   *)
(* it; a position is a placeholder, so an output published by call o       *)
(* restores as long as o stands at the position it had then.               *)
(***************************************************************************)
EXTENDS Naturals, Sequences, FiniteSets

CONSTANTS
  Ids,          \* session ids
  Ops,          \* tool calls; each is made at most once
  Modes,        \* the ways to start a server: TRUE with a session directory
  LifecycleIds, \* ids with an archive, made elsewhere, of a session that has
                \* a lifecycle and is active
  MaxSessions,  \* SESSION_MAX_COUNT
  None,         \* no entry
  Absent        \* no archive

ASSUME ServiceAssumption ==
  /\ Ids # {} /\ IsFiniteSet(Ids) /\ IsFiniteSet(Ops)
  /\ LifecycleIds \subseteq Ids
  /\ Modes \subseteq BOOLEAN /\ MaxSessions \in Nat \ {0}
  /\ None \notin Ops /\ Absent \notin Ops \cup Seq(Ops)

VARIABLES
  durable,        \* whether the server was given a session directory
  state,          \* #state, or "down" when the process is not running
  memory,         \* #sessions, the entries in it, #sessionInitializations,
                  \* and #mutationTail: the requests waiting at the store
  ops,            \* the calls
  shelf, atRisk,  \* the archive store
  published,      \* the outputs that exist
  faulted         \* ids for which a storage operation failed

vars == <<durable, state, memory, ops, shelf, atRisk, published, faulted>>

(* A session entry is named after the call that created it.                *)
Values == Seq(Ops)
Entry == [value : Values, status : {"initializing", "busy", "ready"}]

Op == [pc         : {"new", "admitted", "loading", "saving", "publishing",
                     "unsaving", "deleting", "done"},
       kind       : {"anonymize", "restore"},
       id         : Ids,
       entry      : Ops \cup {None},
       rollback   : {"delete", "release", "restore"},
       checkpoint : Values,
       outcome    : {"pending", "succeeded", "failed", "unpublished", "lost"}]

Request == [op : Ops, kind : {"load", "save", "delete"}, id : Ids,
            content : Values \cup {Absent},
            phase : {"queued", "changed", "settled"}]

Memory == [sessions : [Ids -> Ops \cup {None}],
           entries  : [Ops -> Entry],
           reserved : SUBSET Ids,
           queue    : Seq(Request)]

Output == [id : Ids, op : Ops, at : Nat]

Store == INSTANCE ArchiveShelf WITH Archives <- Values

(* Slip: an entry's session is not set when the entry is made.             *)
NewEntryUnset == [value |-> None, status |-> "initializing"]

NewEntry == [value |-> <<>>, status |-> "initializing"]

EmptyMemory == [sessions |-> [id \in Ids |-> None],
                entries  |-> [o \in Ops |-> NewEntry],
                reserved |-> {},
                queue    |-> <<>>]

Active(o) == ops[o].pc \notin {"new", "done"}
Live == {id \in Ids : memory.sessions[id] # None}

-----------------------------------------------------------------------------
(* Parts of a step.  One step may change the memory several times before   *)
(* the call awaits again: `m' is the memory so far and `c' the call's      *)
(* record so far.                                                          *)

Await(o, m, c, pc) ==
  /\ memory' = m
  /\ ops' = [ops EXCEPT ![o] = [c EXCEPT !.pc = pc]]

End(o, m, c, outcome) == Await(o, m, [c EXCEPT !.outcome = outcome], "done")

Submit(o, m, kind, content) ==
  [m EXCEPT !.queue = Append(@,
     [op |-> o, kind |-> kind, id |-> ops[o].id, content |-> content,
      phase |-> "queued"])]

Drop(m, id) == [m EXCEPT !.sessions[id] = None]

WithStatus(m, e, status) == [m EXCEPT !.entries[e].status = status]

(* The entry is ready again before its checkpoint is saved.  Restoring the *)
(* checkpoint cannot fail: what a session exports, it reloads              *)
(* (ExportsReload of RedactionSession).  Sealing it can, when the session  *)
(* has expired; then the entry is dropped.                                 *)
RestoreCheckpoint(o, m, c, broken) ==
  LET restored == [m EXCEPT !.entries[c.entry] =
                     [value |-> c.checkpoint, status |-> "ready"]] IN
  \/ /\ faulted' = faulted \cup broken
     /\ IF durable
        THEN Await(o, Submit(o, restored, "save", c.checkpoint), c, "unsaving")
        ELSE Await(o, restored, c, "done")
  \/ /\ durable /\ faulted' = faulted \cup {c.id}
     /\ End(o, Drop(restored, c.id), c, "failed")

(* Slip: every rollback only releases the entry.                           *)
RollBackByReleasing(o, m, c, broken) ==
  /\ Await(o, WithStatus(m, c.entry, "ready"), c, "done")
  /\ faulted' = faulted \cup broken

(* #rollbackSession; `broken': the id, if its storage failed already.      *)
RollBack(o, m, c, broken) ==
  \/ /\ m.sessions[c.id] # c.entry
     /\ Await(o, m, c, "done") /\ faulted' = faulted \cup broken
  \/ /\ m.sessions[c.id] = c.entry /\ c.rollback = "delete"
     /\ IF durable
        THEN Await(o, Submit(o, Drop(m, c.id), "delete", Absent), c, "deleting")
        ELSE Await(o, Drop(m, c.id), c, "done")
     /\ faulted' = faulted \cup broken
  \/ /\ m.sessions[c.id] = c.entry /\ c.rollback = "release"
     /\ Await(o, WithStatus(m, c.entry, "ready"), c, "done")
     /\ faulted' = faulted \cup broken
  \/ /\ m.sessions[c.id] = c.entry /\ c.rollback = "restore"
     /\ RestoreCheckpoint(o, m, c, broken)

Failed(c) == [c EXCEPT !.outcome = "failed"]

(* redact_text or anonymizeDocx on the leased session, seal, submit; both  *)
(* the redaction and the sealing may fail.                                 *)
Redact(o, m, c) ==
  LET value == Append(m.entries[c.entry].value, o)
      redacted == [m EXCEPT !.entries[c.entry].value = value] IN
  \/ RollBack(o, m, Failed(c), {})
  \/ /\ UNCHANGED faulted
     /\ IF durable
        THEN Await(o, Submit(o, redacted, "save", value), c, "saving")
        ELSE Await(o, redacted, c, "publishing")
  \/ durable /\ RollBack(o, redacted, Failed(c), {c.id})

(* A new entry for the call's session, read from `content'.                *)
Created(o, m, content, status) ==
  [m EXCEPT !.sessions[ops[o].id] = o,
            !.reserved = @ \ {ops[o].id},
            !.entries[o] = [value |-> IF content = Absent THEN <<>> ELSE content,
                            status |-> status]]

Lease(o, e, rollback, checkpoint) ==
  [ops[o] EXCEPT !.entry = e, !.rollback = rollback, !.checkpoint = checkpoint]

(* The last part of #session, for a session that was not in memory.        *)
CreateAndRedact(o, m, content) ==
  Redact(o, Created(o, m, content, "initializing"),
         IF content = Absent THEN Lease(o, o, "delete", <<>>)
                             ELSE Lease(o, o, "restore", content))

ShelfVars == <<shelf, atRisk>>

-----------------------------------------------------------------------------
(* Calls up to their first await: #runOperation, #session, #readSession    *)

Admit(o, kind, id) ==
  /\ state = "open" /\ ops[o].pc = "new"
  /\ Await(o, memory, [ops[o] EXCEPT !.kind = kind, !.id = id], "admitted")
  /\ UNCHANGED <<durable, state, ShelfVars, published, faulted>>

(* The input, the output path or a parameter is refused, the session is    *)
(* reserved or busy, or it does not exist.                                 *)
RefuseCall(o) ==
  /\ ops[o].pc = "admitted"
  /\ End(o, memory, ops[o], "failed")
  /\ UNCHANGED <<durable, state, ShelfVars, published, faulted>>

ReadyEntry(id) ==
  id \in Live /\ memory.entries[memory.sessions[id]].status = "ready"

(* toPlaintextJson gives no time and fails on a session with a lifecycle,  *)
(* as redact_text and restoreText do.                                      *)
HasCheckpoint(o) == durable => ops[o].id \notin LifecycleIds

AnonymizeInMemory(o) ==
  LET e == memory.sessions[ops[o].id] IN
  /\ ops[o].pc = "admitted" /\ ops[o].kind = "anonymize"
  /\ ReadyEntry(ops[o].id) /\ HasCheckpoint(o)
  /\ Redact(o, WithStatus(memory, e, "busy"),
            Lease(o, e, "restore", memory.entries[e].value))
  /\ UNCHANGED <<durable, state, ShelfVars, published>>

AnonymizeNew(o) ==
  /\ ops[o].pc = "admitted" /\ ops[o].kind = "anonymize"
  /\ ~durable /\ ops[o].id \notin Live
  /\ Cardinality(Live) < MaxSessions
  /\ CreateAndRedact(o, memory, Absent)
  /\ UNCHANGED <<durable, state, ShelfVars, published>>

(* Only #session compares the number of sessions with the limit.           *)
LoadSession(o) ==
  /\ ops[o].pc = "admitted" /\ durable
  /\ ops[o].id \notin Live /\ ops[o].id \notin memory.reserved
  /\ ops[o].kind = "anonymize" => Cardinality(Live) < MaxSessions
  /\ Await(o, [Submit(o, memory, "load", Absent) EXCEPT
                 !.reserved = @ \cup {ops[o].id}], ops[o], "loading")
  /\ UNCHANGED <<durable, state, ShelfVars, published, faulted>>

ReadInMemory(o) ==
  LET e == memory.sessions[ops[o].id] IN
  /\ ops[o].pc = "admitted" /\ ops[o].kind = "restore"
  /\ ReadyEntry(ops[o].id)
  /\ Await(o, WithStatus(memory, e, "busy"), Lease(o, e, "release", <<>>),
           "publishing")
  /\ UNCHANGED <<durable, state, ShelfVars, published, faulted>>

-----------------------------------------------------------------------------
(* The store serves its first request, and the call goes on                *)

Serving(o, kind) ==
  /\ memory.queue # <<>>
  /\ Head(memory.queue).op = o /\ Head(memory.queue).kind = kind

Served == [memory EXCEPT !.queue = Tail(@)]

InPhase(phase) == Head(memory.queue).phase = phase
NextPhase(phase) == memory' = [memory EXCEPT !.queue[1].phase = phase]

ChangeShelf(o) ==
  /\ \/ Serving(o, "save")
     \/ Serving(o, "delete") /\ shelf[ops[o].id] # Absent
  /\ InPhase("queued") /\ NextPhase("changed")
  /\ Store!Put(ops[o].id, Head(memory.queue).content)
  /\ UNCHANGED <<durable, state, ops, published, faulted>>

SettleShelf(o) ==
  /\ Serving(o, "save") \/ Serving(o, "delete")
  /\ InPhase("changed") /\ NextPhase("settled")
  /\ Store!Settle
  /\ UNCHANGED <<durable, state, ops, published, faulted>>

Unreserved == [Served EXCEPT !.reserved = @ \ {Head(memory.queue).id}]

(* Slip: a load that fails leaves its id reserved.                         *)
LoadFailsReserved(o) ==
  /\ Serving(o, "load")
  /\ End(o, Served, ops[o], "failed")
  /\ UNCHANGED <<durable, state, ShelfVars, published, faulted>>

(* The load fails, or the archive does not open, or a restore finds none.  *)
LoadFails(o) ==
  /\ Serving(o, "load")
  /\ End(o, Unreserved, ops[o], "failed")
  /\ UNCHANGED <<durable, state, ShelfVars, published, faulted>>

LoadSucceeds(o) ==
  LET content == shelf[ops[o].id] IN
  /\ Serving(o, "load")
  /\ IF ops[o].kind = "anonymize"
     THEN HasCheckpoint(o) /\ CreateAndRedact(o, Served, content)
     ELSE /\ content # Absent
          /\ Await(o, Created(o, Served, content, "busy"),
                   Lease(o, o, "release", <<>>), "publishing")
          /\ UNCHANGED faulted
  /\ UNCHANGED <<durable, state, ShelfVars, published>>

(* #session has put the new entry into the map when the checkpoint fails,  *)
(* and the caller, which has no lease yet, rolls nothing back.             *)
LoadStrands(o) ==
  /\ Serving(o, "load") /\ ops[o].kind = "anonymize" /\ ~HasCheckpoint(o)
  /\ End(o, Created(o, Served, shelf[ops[o].id], "initializing"), ops[o], "failed")
  /\ UNCHANGED <<durable, state, ShelfVars, published, faulted>>

(* Slip: the output is published without waiting for the save.             *)
SaveNotAwaited(o) ==
  /\ Serving(o, "save") /\ ops[o].pc = "saving" /\ InPhase("changed")
  /\ Await(o, Served, ops[o], "publishing")
  /\ UNCHANGED <<durable, state, ShelfVars, published, faulted>>

SaveSucceeds(o) ==
  /\ Serving(o, "save") /\ ops[o].pc = "saving" /\ InPhase("settled")
  /\ Await(o, Served, ops[o], "publishing")
  /\ UNCHANGED <<durable, state, ShelfVars, published, faulted>>

SaveFails(o) ==
  /\ Serving(o, "save") /\ ops[o].pc = "saving"
  /\ RollBack(o, Served, Failed(ops[o]), {ops[o].id})
  /\ UNCHANGED <<durable, state, ShelfVars, published>>

(* The end of a rollback: its save or its delete is answered.  A save that *)
(* fails drops the id from memory, whichever entry it has by now.          *)
RollbackStored(o) ==
  /\ \/ Serving(o, "save") /\ ops[o].pc = "unsaving" /\ InPhase("settled")
     \/ /\ Serving(o, "delete")
        /\ \/ InPhase("settled")
           \/ InPhase("queued") /\ shelf[ops[o].id] = Absent
  /\ Await(o, Served, ops[o], "done")
  /\ UNCHANGED <<durable, state, ShelfVars, published, faulted>>

(* Slip: the entry whose rollback was not saved stays in memory.           *)
RollbackLostKept(o) ==
  /\ \/ Serving(o, "save") /\ ops[o].pc = "unsaving"
     \/ Serving(o, "delete")
  /\ End(o, Served, ops[o], "failed")
  /\ faulted' = faulted \cup {ops[o].id}
  /\ UNCHANGED <<durable, state, ShelfVars, published>>

RollbackLost(o) ==
  /\ \/ /\ Serving(o, "save") /\ ops[o].pc = "unsaving"
        /\ End(o, Drop(Served, ops[o].id), ops[o], "failed")
     \/ /\ Serving(o, "delete")
        /\ End(o, Served, ops[o], "failed")
  /\ faulted' = faulted \cup {ops[o].id}
  /\ UNCHANGED <<durable, state, ShelfVars, published>>

-----------------------------------------------------------------------------
(* Publishing: safeWrite, then #commitSession                              *)

Publish(o) ==
  /\ ops[o].pc = "publishing" /\ HasCheckpoint(o)
  /\ End(o, WithStatus(memory, ops[o].entry, "ready"), ops[o], "succeeded")
  /\ published' = IF ops[o].kind = "restore" THEN published
                  ELSE published \cup {[id |-> ops[o].id, op |-> o,
                                        at |-> Len(ops[o].checkpoint) + 1]}
  /\ UNCHANGED <<durable, state, ShelfVars, faulted>>

PublishFails(o) ==
  /\ ops[o].pc = "publishing"
  /\ RollBack(o, memory, [ops[o] EXCEPT !.outcome = "unpublished"], {})
  /\ UNCHANGED <<durable, state, ShelfVars, published>>

-----------------------------------------------------------------------------
(* The server's own life                                                   *)

(* The outputs of a session that only ever was in memory cannot be         *)
(* restored once the process is gone, and nothing is claimed of them.      *)
Forget == published' = IF durable THEN published ELSE {}

Close ==
  /\ state = "open" /\ state' = "closing"
  /\ UNCHANGED <<durable, memory, ops, ShelfVars, published, faulted>>

(* Slip: an operation that throws is never counted as finished.            *)
FinishCloseAfterSuccesses ==
  /\ state = "closing"
  /\ \A o \in Ops : ~Active(o) /\ ops[o].outcome # "failed"
  /\ state' = "closed" /\ memory' = EmptyMemory /\ Forget
  /\ UNCHANGED <<durable, ops, ShelfVars, faulted>>

FinishClose ==
  /\ state = "closing" /\ \A o \in Ops : ~Active(o)
  /\ state' = "closed" /\ memory' = EmptyMemory /\ Forget
  /\ UNCHANGED <<durable, ops, ShelfVars, faulted>>

Lost == [o \in Ops |-> IF Active(o)
                       THEN [ops[o] EXCEPT !.pc = "done", !.outcome = "lost"]
                       ELSE ops[o]]

Kill ==
  /\ state \in {"open", "closing"}
  /\ state' = "down" /\ memory' = EmptyMemory /\ ops' = Lost /\ Forget
  /\ (Store!PowerLoss \/ UNCHANGED ShelfVars)
  /\ UNCHANGED <<durable, faulted>>

Restart ==
  /\ state \in {"closed", "down"} /\ state' = "open"
  /\ UNCHANGED <<durable, memory, ops, ShelfVars, published, faulted>>

Init ==
  /\ durable \in Modes
  /\ state = "open" /\ memory = EmptyMemory
  /\ ops \in [Ops -> {[pc |-> "new", kind |-> "anonymize", id |-> id,
                       entry |-> None, rollback |-> "release",
                       checkpoint |-> <<>>, outcome |-> "pending"] :
                        id \in {CHOOSE id \in Ids : TRUE}}]
  /\ shelf = [id \in Ids |-> IF durable /\ id \in LifecycleIds THEN <<>>
                            ELSE Absent]
  /\ atRisk = {shelf}
  /\ published = {} /\ faulted = {}

(* What a call does by itself once it was made.                            *)
Work(o) ==
  \/ RefuseCall(o) \/ AnonymizeInMemory(o) \/ AnonymizeNew(o)
  \/ LoadSession(o) \/ ReadInMemory(o)
  \/ ChangeShelf(o) \/ SettleShelf(o)
  \/ LoadFails(o) \/ LoadSucceeds(o) \/ LoadStrands(o)
  \/ SaveSucceeds(o) \/ SaveFails(o)
  \/ RollbackStored(o) \/ RollbackLost(o)
  \/ Publish(o) \/ PublishFails(o)

Next ==
  \/ \E o \in Ops :
       \/ \E kind \in {"anonymize", "restore"}, id \in Ids : Admit(o, kind, id)
       \/ Work(o)
  \/ Close \/ FinishClose \/ Kill \/ Restart

Spec == Init /\ [][Next]_vars

(* Every await of a call settles, and close() resumes when it is drained.  *)
FairSpec ==
  Spec /\ WF_vars(FinishClose) /\ \A o \in Ops : WF_vars(Work(o))

-----------------------------------------------------------------------------
(* Properties                                                              *)

(* Every component of the state has its type.                              *)
TypeOK ==
  /\ state \in {"open", "closing", "closed", "down"}
  /\ memory \in Memory
  /\ ops \in [Ops -> Op]
  /\ shelf \in Store!Shelf /\ atRisk \subseteq Store!Shelf
  /\ published \subseteq Output
  /\ faulted \subseteq Ids

(* Where a later call, in this process or in one started after a crash,    *)
(* may find the session from: memory, the store, and in durable mode what  *)
(* a power loss may leave of it.                                           *)
Restores(value, output) ==
  output.at \in DOMAIN value /\ value[output.at] = output.op

PublishedIn(value, id) ==
  \A output \in published : output.id = id => Restores(value, output)

(* "The archive is made durable before its corresponding output is         *)
(* published": whatever fails, rolls back, crashes or restarts afterwards, *)
(* and whichever other calls run meanwhile, no session that a restore can  *)
(* reach has lost the placeholders of an existing output or gives them to  *)
(* another call's entity.                                                  *)
PublishedOutputsRestore ==
  /\ \A id \in Live : PublishedIn(memory.entries[memory.sessions[id]].value, id)
  /\ durable => \A d \in atRisk \cup {shelf}, id \in Ids :
       (\E output \in published : output.id = id) =>
         d[id] # Absent /\ PublishedIn(d[id], id)
  /\ ~durable => \A output \in published : output.id \in Live

Using(o, id) == Active(o) /\ ops[o].id = id

(* Between calls the memory is a faithful cache: a session that no call is *)
(* using reads the same in memory and in the store.                        *)
MemoryMatchesShelf ==
  durable => \A id \in Live :
    (\A o \in Ops : ~Using(o, id)) =>
       shelf[id] = memory.entries[memory.sessions[id]].value

(* "Wait for the prior operation on this session to finish, then retry":   *)
(* no id stays unusable.  A reserved id is being loaded by exactly one     *)
(* call, and an entry that is not ready is leased by exactly one call that *)
(* is still going to commit it or roll it back.                            *)
HasLease(o, e) == ops[o].pc \in {"saving", "publishing"} /\ ops[o].entry = e

ExactlyOne(S) == \E o \in S : S = {o}

Usable(id) ==
  /\ id \in memory.reserved =>
       ExactlyOne({o \in Ops : ops[o].pc = "loading" /\ ops[o].id = id})
  /\ id \in Live => LET e == memory.sessions[id] IN
       IF memory.entries[e].status = "ready"
       THEN \A o \in Ops : ~HasLease(o, e)
       ELSE ExactlyOne({o \in Ops : HasLease(o, e)})

NoSessionIsStuck == \A id \in Ids : Usable(id)

(* The same of the sessions this server made: one that was made elsewhere  *)
(* with a lifecycle is the exception NoSessionIsStuck finds.               *)
NoOwnSessionIsStuck == \A id \in Ids \ LifecycleIds : Usable(id)

Traces(o) ==
  LET Has(value) == \E i \in DOMAIN value : value[i] = o
      id == ops[o].id IN
  \/ id \in Live /\ Has(memory.entries[memory.sessions[id]].value)
  \/ shelf[id] # Absent /\ Has(shelf[id])

(* While storage works, a call that failed has left nothing of itself in   *)
(* the session once its rollback is over, not even when other calls ran in *)
(* between: no later output depends on it.                                 *)
RollbackLeavesNoTrace ==
  \A o \in Ops :
    ops[o].pc = "done" /\ ops[o].outcome \in {"failed", "unpublished"} =>
      ops[o].id \in faulted \/ ~Traces(o)

(* Shutdown: every admitted call comes to its end and close() returns.     *)
CloseEnds == state = "closing" ~> state # "closing"

-----------------------------------------------------------------------------
(* Claims of the package's README                                          *)

(* "A server process holds at most 256 in-memory sessions."                *)
AtMostMaxSessions == Cardinality(Live) <= MaxSessions

(* "If output publication fails, the server rolls both memory and durable  *)
(* storage back to the preceding successful state": a call whose           *)
(* publication failed and none of whose own rollback failed left nothing.  *)
UnpublishedIsRolledBack ==
  \A o \in Ops :
    ops[o].pc = "done" /\ ops[o].outcome = "unpublished" => ~Traces(o)
=============================================================================
