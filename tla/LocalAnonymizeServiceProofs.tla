-------------------- MODULE LocalAnonymizeServiceProofs --------------------
(***************************************************************************)
(* Safety of LocalAnonymizeService, for any sessions, calls and limits.    *)
(*                                                                         *)
(* One step changes the memory several times before its call awaits again, *)
(* so the invariant is a predicate of a memory `m', the records `cs' of    *)
(* the calls, and the set H of calls that hold a lease.  Between two       *)
(* changes of a step its call counts as done, but holds its lease: it is   *)
(* in transit.                                                             *)
(*                                                                         *)
(* What a failed call leaves behind is the subject of the last part, with  *)
(* an invariant of its own, TraceInv, that rests on this one.              *)
(***************************************************************************)
EXTENDS LocalAnonymizeService, TLAPS

-----------------------------------------------------------------------------
(* The inductive invariant                                                 *)

(* The calls that will commit their entry or roll it back.                 *)
Lessees(cs) == {o \in Ops : cs[o].pc \in {"saving", "publishing"}}

(* The calls that may have made an entry.                                  *)
Born(cs) == {o \in Ops : cs[o].pc \notin {"new", "admitted", "loading"}}

Typed(m, cs, H) == m \in Memory /\ cs \in [Ops -> Op] /\ H \subseteq Ops

(* The value of a session once the call o has redacted with it.            *)
Grown(value, o) == Append(value, o)

(* A request waits for the call that submitted it.                         *)
Matches(r, c) ==
  /\ r.id = c.id
  /\ r.kind = "load" => c.pc = "loading" /\ r.content = Absent
  /\ r.kind = "save" => c.pc \in {"saving", "unsaving"} /\ r.content \in Values
  /\ r.kind = "delete" => c.pc = "deleting" /\ r.content = Absent
  /\ c.pc = "saving" => r.content = Grown(c.checkpoint, r.op)

QueueInv(m, cs) ==
  /\ ~durable => m.queue = <<>>
  /\ \A i \in DOMAIN m.queue :
       /\ Matches(m.queue[i], cs[m.queue[i].op])
       /\ m.queue[i].phase # "queued" =>
            i = 1 /\ m.queue[i].kind # "load" /\ shelf[m.queue[i].id] = m.queue[i].content
       /\ m.queue[i].phase = "settled" => atRisk = {shelf}
  /\ \A i, j \in DOMAIN m.queue : m.queue[i].op = m.queue[j].op => i = j
  /\ \A o \in Ops : cs[o].pc \in {"loading", "saving", "unsaving", "deleting"} =>
       \E i \in DOMAIN m.queue : m.queue[i].op = o

(* Nothing of a session is queued behind its load, and behind a save that  *)
(* is not a rollback only a load.                                          *)
OrderInv(m, cs) ==
  \A i, j \in DOMAIN m.queue : i < j /\ m.queue[i].id = m.queue[j].id =>
    /\ m.queue[i].kind # "load"
    /\ cs[m.queue[i].op].pc = "saving" => m.queue[j].kind = "load"

(* An id is reserved while it is loaded, and not in memory then.           *)
ReservedInv(m) ==
  /\ \A id \in m.reserved :
       /\ m.sessions[id] = None
       /\ \E i \in DOMAIN m.queue : m.queue[i].kind = "load" /\ m.queue[i].id = id
  /\ \A i \in DOMAIN m.queue :
       /\ m.queue[i].kind = "load" => m.queue[i].id \in m.reserved
       /\ m.queue[i].kind = "delete" => m.sessions[m.queue[i].id] = None

LeaseOf(m, cs, o) ==
  /\ cs[o].pc \in {"saving", "publishing", "done"}
  /\ cs[o].entry \in Born(cs) /\ cs[cs[o].entry].id = cs[o].id
  /\ m.entries[cs[o].entry].status # "ready"
  /\ cs[o].kind = "restore" <=> cs[o].rollback = "release"
  /\ cs[o].pc = "saving" =>
       /\ durable /\ cs[o].kind = "anonymize"
       /\ m.sessions[cs[o].id] \in {None, cs[o].entry}
  /\ cs[o].pc # "done" /\ cs[o].rollback # "release" =>
       m.entries[cs[o].entry].value = Grown(cs[o].checkpoint, o)
  /\ durable /\ cs[o].rollback # "release" => cs[o].id \notin LifecycleIds
  /\ ~durable => m.sessions[cs[o].id] = cs[o].entry

(* A lease is exclusive, and an entry that is not ready is leased.         *)
LeaseInv(m, cs, H) ==
  /\ Lessees(cs) \subseteq H
  /\ \A o \in H : LeaseOf(m, cs, o)
  /\ \A o, p \in H : cs[o].entry = cs[p].entry => o = p
  /\ \A id \in Ids : m.sessions[id] # None =>
       /\ m.sessions[id] \in Born(cs) /\ cs[m.sessions[id]].id = id
       /\ id \notin LifecycleIds /\ m.entries[m.sessions[id]].status # "ready" =>
            \E o \in H : cs[o].entry = m.sessions[id]

(* The outputs that exist, and those that are about to.                    *)
OutputOf(o, c) == [id |-> c.id, op |-> o, at |-> Len(c.checkpoint) + 1]

Promised(cs) ==
  published \cup
    {OutputOf(o, cs[o]) :
       o \in {p \in Ops : cs[p].pc = "publishing" /\ cs[p].kind = "anonymize"}}

(* Wherever the session of an output may be read from, and whatever a      *)
(* queued request or a rollback may make of it, the output restores.       *)
Kept(out, m, cs, H) ==
  /\ m.sessions[out.id] # None =>
       Restores(m.entries[m.sessions[out.id]].value, out)
  /\ ~durable => m.sessions[out.id] # None
  /\ durable => \A d \in atRisk : d[out.id] # Absent /\ Restores(d[out.id], out)
  /\ \A i \in DOMAIN m.queue :
       m.queue[i].id = out.id /\ m.queue[i].kind # "load" =>
         m.queue[i].content # Absent /\ Restores(m.queue[i].content, out)
  /\ \A p \in H \ {out.op} :
       /\ cs[p].id = out.id /\ cs[p].entry = m.sessions[out.id]
       /\ cs[p].rollback # "release"
       => cs[p].rollback = "restore" /\ Restores(cs[p].checkpoint, out)

PromiseInv(m, cs, H) ==
  /\ published \subseteq Output
  /\ \A out \in published : cs[out.op].pc = "done" /\ out.op \notin H
  /\ \A out \in Promised(cs) : Kept(out, m, cs, H)

(* What the store has, or will have once the queue is served, of a session *)
(* in memory is its value, unless a call in transit is changing it.        *)
InTransit(id, m, cs, H) ==
  \E o \in H : /\ cs[o].pc = "done" /\ cs[o].rollback # "release"
               /\ cs[o].entry = m.sessions[id]

LastOf(i, m) ==
  \A j \in DOMAIN m.queue : m.queue[j].id = m.queue[i].id => j <= i

Matched(id, m) ==
  /\ \A i \in DOMAIN m.queue : m.queue[i].id = id /\ LastOf(i, m) =>
       m.queue[i].content = m.entries[m.sessions[id]].value
  /\ (\A i \in DOMAIN m.queue : m.queue[i].id # id) =>
       shelf[id] = m.entries[m.sessions[id]].value

MatchInv(m, cs, H) ==
  durable => \A id \in Ids :
    m.sessions[id] # None /\ ~InTransit(id, m, cs, H) => Matched(id, m)

(* A session with a lifecycle is only ever loaded.                         *)
LifecycleInv(m) ==
  durable => \A id \in LifecycleIds :
    /\ \A d \in atRisk : d[id] # Absent
    /\ \A i \in DOMAIN m.queue : m.queue[i].id = id => m.queue[i].kind = "load"

Sound(m, cs, H) ==
  /\ Typed(m, cs, H) /\ QueueInv(m, cs) /\ OrderInv(m, cs) /\ ReservedInv(m)
  /\ LeaseInv(m, cs, H) /\ PromiseInv(m, cs, H)
  /\ MatchInv(m, cs, H) /\ LifecycleInv(m)

StoredInv ==
  /\ durable \in BOOLEAN
  /\ state \in {"open", "closing", "closed", "down"}
  /\ state \in {"closed", "down"} => \A o \in Ops : ~Active(o)
  /\ shelf \in Store!Shelf /\ atRisk \subseteq Store!Shelf /\ shelf \in atRisk
  /\ faulted \subseteq Ids

IndInv == StoredInv /\ Sound(memory, ops, Lessees(ops))

-----------------------------------------------------------------------------
(* Sequences                                                               *)

LEMMA AppendFacts ==
  ASSUME NEW S, NEW q \in Seq(S), NEW r \in S
  PROVE  /\ Append(q, r) \in Seq(S) /\ Len(q) \in Nat
         /\ DOMAIN q = 1..Len(q) /\ DOMAIN Append(q, r) = 1..(Len(q) + 1)
         /\ \A i \in DOMAIN q : Append(q, r)[i] = q[i] /\ q[i] \in S
         /\ Append(q, r)[Len(q) + 1] = r
OBVIOUS

LEMMA TailFacts ==
  ASSUME NEW S, NEW q \in Seq(S), q # <<>>
  PROVE  /\ Tail(q) \in Seq(S) /\ Len(q) \in Nat \ {0}
         /\ DOMAIN q = 1..Len(q) /\ DOMAIN Tail(q) = 1..(Len(q) - 1)
         /\ \A i \in DOMAIN Tail(q) : i + 1 \in DOMAIN q /\ Tail(q)[i] = q[i + 1]
         /\ 1 \in DOMAIN q /\ Head(q) = q[1] /\ \A i \in DOMAIN q : q[i] \in S
OBVIOUS

(* A longer value restores what a shorter one did, and its last call.      *)
LEMMA AppendRestores ==
  ASSUME NEW value \in Values, NEW o \in Ops
  PROVE  /\ Grown(value, o) \in Values
         /\ \A out \in Output : Restores(value, out) => Restores(Grown(value, o), out)
         /\ \A c \in Op : c.checkpoint = value => Restores(Grown(value, o), OutputOf(o, c))
BY AppendFacts DEF Grown, Values, Restores, OutputOf, Output

-----------------------------------------------------------------------------
(* What a change of the memory does to each of its fields                  *)

LEMMA DropFields ==
  ASSUME NEW m \in Memory, NEW id \in Ids
  PROVE  /\ Drop(m, id) \in Memory
         /\ Drop(m, id).sessions = [m.sessions EXCEPT ![id] = None]
         /\ Drop(m, id).entries = m.entries /\ Drop(m, id).reserved = m.reserved
         /\ Drop(m, id).queue = m.queue
BY DEF Memory, Drop

LEMMA WithStatusFields ==
  ASSUME NEW m \in Memory, NEW e \in Ops, NEW status \in {"initializing", "busy", "ready"}
  PROVE  /\ WithStatus(m, e, status) \in Memory
         /\ WithStatus(m, e, status).sessions = m.sessions
         /\ WithStatus(m, e, status).reserved = m.reserved
         /\ WithStatus(m, e, status).queue = m.queue
         /\ WithStatus(m, e, status).entries =
              [m.entries EXCEPT ![e] = [value |-> m.entries[e].value, status |-> status]]
<1> DEFINE old == m.entries[e]
           entry == [value |-> m.entries[e].value, status |-> status]
<1>1. /\ m.entries \in [Ops -> Entry] /\ entry \in Entry
      /\ [old EXCEPT !.status = status] = entry
  BY DEF Memory, Entry
<1>2. WithStatus(m, e, status) =
        [m EXCEPT !.entries = [m.entries EXCEPT ![e] = [old EXCEPT !.status = status]]]
  BY DEF WithStatus
<1> HIDE DEF entry
<1>3. [m.entries EXCEPT ![e] = entry] \in [Ops -> Entry]
  BY <1>1
<1>4. WithStatus(m, e, status) = [m EXCEPT !.entries = [m.entries EXCEPT ![e] = entry]]
  BY <1>1, <1>2
<1> QED
  BY <1>3, <1>4 DEF Memory, entry

SetEntry(m, e, entry) == [m EXCEPT !.entries[e] = entry]

LEMMA SetEntryFields ==
  ASSUME NEW m \in Memory, NEW e \in Ops, NEW entry \in Entry
  PROVE  /\ SetEntry(m, e, entry) \in Memory
         /\ SetEntry(m, e, entry).sessions = m.sessions
         /\ SetEntry(m, e, entry).reserved = m.reserved
         /\ SetEntry(m, e, entry).queue = m.queue
         /\ SetEntry(m, e, entry).entries = [m.entries EXCEPT ![e] = entry]
BY DEF Memory, SetEntry

Queued(m, r) == [m EXCEPT !.queue = Append(@, r)]

LEMMA QueuedFields ==
  ASSUME NEW m \in Memory, NEW r \in Request
  PROVE  /\ Queued(m, r) \in Memory
         /\ Queued(m, r).sessions = m.sessions /\ Queued(m, r).entries = m.entries
         /\ Queued(m, r).reserved = m.reserved
         /\ Queued(m, r).queue = Append(m.queue, r)
<1>1. m.queue \in Seq(Request)
  BY DEF Memory
<1>2. Append(m.queue, r) \in Seq(Request)
  BY <1>1, AppendFacts
<1> QED
  BY <1>2 DEF Memory, Queued

RequestOf(o, c, kind, content) ==
  [op |-> o, kind |-> kind, id |-> c.id, content |-> content, phase |-> "queued"]

LEMMA SubmitIsQueued ==
  ASSUME NEW m, NEW o, NEW c, c.id = ops[o].id, NEW kind, NEW content
  PROVE  Submit(o, m, kind, content) = Queued(m, RequestOf(o, c, kind, content))
BY DEF Submit, Queued, RequestOf

LEMMA RequestFields ==
  ASSUME NEW o \in Ops, NEW c \in Op, NEW kind \in {"load", "save", "delete"},
         NEW content \in Values \cup {Absent}
  PROVE  /\ RequestOf(o, c, kind, content) \in Request
         /\ RequestOf(o, c, kind, content).op = o
         /\ RequestOf(o, c, kind, content).kind = kind
         /\ RequestOf(o, c, kind, content).id = c.id
         /\ RequestOf(o, c, kind, content).content = content
         /\ RequestOf(o, c, kind, content).phase = "queued"
BY DEF RequestOf, Request, Op

Popped(m) == [m EXCEPT !.queue = Tail(@)]

LEMMA PoppedFields ==
  ASSUME NEW m \in Memory, m.queue # <<>>
  PROVE  /\ Popped(m) \in Memory
         /\ Popped(m).sessions = m.sessions /\ Popped(m).entries = m.entries
         /\ Popped(m).reserved = m.reserved /\ Popped(m).queue = Tail(m.queue)
<1>1. m.queue \in Seq(Request)
  BY DEF Memory
<1>2. Tail(m.queue) \in Seq(Request)
  BY <1>1, TailFacts
<1> QED
  BY <1>2 DEF Memory, Popped

Unreserve(m, id) == [m EXCEPT !.reserved = @ \ {id}]

LEMMA UnreserveFields ==
  ASSUME NEW m \in Memory, NEW id \in Ids
  PROVE  /\ Unreserve(m, id) \in Memory
         /\ Unreserve(m, id).sessions = m.sessions
         /\ Unreserve(m, id).entries = m.entries
         /\ Unreserve(m, id).reserved = m.reserved \ {id}
         /\ Unreserve(m, id).queue = m.queue
BY DEF Memory, Unreserve

NewValue(content) == IF content = Absent THEN <<>> ELSE content

LEMMA CreatedFields ==
  ASSUME NEW m \in Memory, NEW o \in Ops, ops[o].id \in Ids,
         NEW content \in Values \cup {Absent}, NEW status \in {"initializing", "busy"}
  PROVE  /\ Created(o, m, content, status) \in Memory /\ NewValue(content) \in Values
         /\ Created(o, m, content, status).sessions = [m.sessions EXCEPT ![ops[o].id] = o]
         /\ Created(o, m, content, status).reserved = m.reserved \ {ops[o].id}
         /\ Created(o, m, content, status).queue = m.queue
         /\ \A f \in Ops \ {o} : Created(o, m, content, status).entries[f] = m.entries[f]
         /\ Created(o, m, content, status).entries[o].value = NewValue(content)
         /\ Created(o, m, content, status).entries[o].status = status
<1>1. NewValue(content) \in Values
  BY DEF NewValue, Values
<1>2. [value |-> NewValue(content), status |-> status] \in Entry
  BY <1>1 DEF Entry
<1> DEFINE entry == [value |-> NewValue(content), status |-> status]
<1>3. Created(o, m, content, status) =
        [m EXCEPT !.sessions = [m.sessions EXCEPT ![ops[o].id] = o],
                  !.reserved = m.reserved \ {ops[o].id},
                  !.entries = [m.entries EXCEPT ![o] = entry]]
  BY DEF Created, NewValue
<1>4. /\ [m.sessions EXCEPT ![ops[o].id] = o] \in [Ids -> Ops \cup {None}]
      /\ m.reserved \ {ops[o].id} \in SUBSET Ids
      /\ [m.entries EXCEPT ![o] = entry] \in [Ops -> Entry]
  BY <1>2 DEF Memory
<1> HIDE DEF NewValue, entry
<1>5. /\ Created(o, m, content, status) \in Memory
      /\ Created(o, m, content, status).sessions = [m.sessions EXCEPT ![ops[o].id] = o]
      /\ Created(o, m, content, status).reserved = m.reserved \ {ops[o].id}
      /\ Created(o, m, content, status).queue = m.queue
      /\ Created(o, m, content, status).entries = [m.entries EXCEPT ![o] = entry]
  BY <1>3, <1>4 DEF Memory
<1>6. /\ \A f \in Ops \ {o} : [m.entries EXCEPT ![o] = entry][f] = m.entries[f]
      /\ [m.entries EXCEPT ![o] = entry][o] = entry
  BY DEF Memory
<1>7. entry.value = NewValue(content) /\ entry.status = status
  BY DEF entry
<1> QED
  BY <1>1, <1>5, <1>6, <1>7

-----------------------------------------------------------------------------
(* Changes of a step, each of which keeps the memory sound                 *)

Others(cs, new, o) == new \in [Ops -> Op] /\ \A p \in Ops \ {o} : new[p] = cs[p]

SameLease(c, d) ==
  /\ c.id = d.id /\ c.kind = d.kind /\ c.entry = d.entry
  /\ c.rollback = d.rollback /\ c.checkpoint = d.checkpoint

(* A session that is dropped from memory stays in the store.               *)
LEMMA DropKeeps ==
  ASSUME NEW m, NEW cs, NEW H, NEW id \in Ids, Sound(m, cs, H), durable
  PROVE  Sound(Drop(m, id), cs, H)
<1> DEFINE n == Drop(m, id)
<1>1. m \in Memory /\ cs \in [Ops -> Op] /\ H \subseteq Ops
  BY DEF Sound, Typed
<1>2. /\ n \in Memory /\ n.sessions = [m.sessions EXCEPT ![id] = None]
      /\ n.entries = m.entries /\ n.reserved = m.reserved /\ n.queue = m.queue
  BY <1>1, DropFields
<1> HIDE DEF n
<1>3. /\ m.sessions \in [Ids -> Ops \cup {None}]
      /\ n.sessions[id] = None /\ \A k \in Ids \ {id} : n.sessions[k] = m.sessions[k]
      /\ \A o \in Ops : cs[o] \in Op
      /\ \A i \in DOMAIN m.queue : m.queue[i] \in Request
  BY <1>1, <1>2 DEF Memory
<1>4. Typed(n, cs, H) /\ QueueInv(n, cs) /\ OrderInv(n, cs) /\ LifecycleInv(n)
  BY <1>1, <1>2 DEF Sound, Typed, QueueInv, OrderInv, LifecycleInv
<1>5. ReservedInv(n)
  BY <1>1, <1>2, <1>3 DEF Sound, ReservedInv, Memory, Request
<1>6. LeaseInv(n, cs, H)
  <2>1. \A o \in H : LeaseOf(n, cs, o)
    BY <1>1, <1>2, <1>3 DEF Sound, LeaseInv, LeaseOf, Op
  <2> QED
    BY <1>1, <1>2, <1>3, <2>1 DEF Sound, LeaseInv
<1>7. PromiseInv(n, cs, H)
  <2>1. ASSUME NEW out, Kept(out, m, cs, H)
        PROVE  Kept(out, n, cs, H)
    BY <1>1, <1>2, <1>3, <2>1, ServiceAssumption DEF Kept, Sound, LeaseInv, LeaseOf, Born
  <2> QED
    BY <2>1 DEF Sound, PromiseInv
<1>8. MatchInv(n, cs, H)
  BY <1>1, <1>2, <1>3 DEF Sound, MatchInv, Matched, InTransit, LastOf
<1> QED
  BY <1>4, <1>5, <1>6, <1>7, <1>8 DEF Sound, n

(* The queue without its first request, when the call that waited for it   *)
(* goes on.                                                                *)
LEMMA PoppedQueue ==
  ASSUME NEW m \in Memory, NEW n \in Memory, NEW cs, NEW o \in Ops, NEW new,
         QueueInv(m, cs), OrderInv(m, cs), m.queue # <<>>, m.queue[1].op = o,
         n.queue = Tail(m.queue), Others(cs, new, o), new[o].pc \in {"admitted", "done"}
  PROVE  /\ QueueInv(n, new) /\ OrderInv(n, new)
         /\ DOMAIN n.queue = 1..(Len(m.queue) - 1) /\ DOMAIN m.queue = 1..Len(m.queue)
         /\ Len(m.queue) \in Nat \ {0} /\ 1 \in DOMAIN m.queue
         /\ m.queue[1] \in Request /\ Matches(m.queue[1], cs[o])
         /\ \A i \in DOMAIN n.queue :
              /\ i + 1 \in DOMAIN m.queue /\ n.queue[i] = m.queue[i + 1]
              /\ n.queue[i] \in Request /\ n.queue[i].op # o
              /\ cs[n.queue[i].op] = new[n.queue[i].op]
<1> DEFINE q == m.queue
           r == n.queue
           l == Len(q)
<1>1. m.queue \in Seq(Request)
  BY DEF Memory
<1>2. /\ DOMAIN r = 1..(l - 1) /\ DOMAIN q = 1..l /\ l \in Nat \ {0} /\ 1 \in DOMAIN q
      /\ \A i \in DOMAIN q : q[i] \in Request
      /\ \A i \in DOMAIN r : i + 1 \in DOMAIN q /\ r[i] = q[i + 1]
  BY <1>1, TailFacts
<1>3. new \in [Ops -> Op] /\ \A p \in Ops \ {o} : new[p] = cs[p]
  BY DEF Others
<1>4. /\ \A i \in DOMAIN q : Matches(q[i], cs[q[i].op])
      /\ \A i \in DOMAIN q : q[i].phase # "queued" => i = 1
      /\ \A i, j \in DOMAIN q : q[i].op = q[j].op => i = j
      /\ \A p \in Ops : cs[p].pc \in {"loading", "saving", "unsaving", "deleting"} =>
           \E i \in DOMAIN q : q[i].op = p
      /\ ~durable => q = <<>>
      /\ q[1].op = o /\ q # <<>> /\ \A i \in DOMAIN q : q[i].op \in Ops
  BY <1>2 DEF QueueInv, Request
<1>5. \A i, j \in DOMAIN q : i < j /\ q[i].id = q[j].id =>
        q[i].kind # "load" /\ (cs[q[i].op].pc = "saving" => q[j].kind = "load")
  BY DEF OrderInv
<1> HIDE DEF q, r, l
<1>6. ASSUME NEW i \in DOMAIN r
      PROVE  /\ r[i].op \in Ops \ {o} /\ r[i].op = q[i + 1].op /\ r[i].phase = "queued"
             /\ r[i] \in Request /\ cs[r[i].op] = new[r[i].op]
             /\ Matches(r[i], new[r[i].op])
  <2> DEFINE next == q[i + 1]
  <2>1. i + 1 \in DOMAIN q /\ r[i] = next /\ i + 1 # 1 /\ next \in Request
    BY <1>2
  <2>2. next.op \in Ops /\ next.op # o /\ next.phase = "queued"
    BY <1>2, <1>4, <2>1
  <2>3. Matches(next, cs[next.op])
    BY <1>4, <2>1
  <2>4. cs[next.op] = new[next.op]
    BY <1>3, <2>2
  <2> HIDE DEF next
  <2>5. next = q[i + 1]
    BY DEF next
  <2> QED
    BY <2>1, <2>2, <2>3, <2>4, <2>5
<1>7. \A i, j \in DOMAIN r : r[i].op = r[j].op => i = j
  <2> SUFFICES ASSUME NEW i \in DOMAIN r, NEW j \in DOMAIN r, r[i].op = r[j].op
               PROVE  i = j
    OBVIOUS
  <2>1. i + 1 \in DOMAIN q /\ j + 1 \in DOMAIN q /\ q[i + 1].op = q[j + 1].op
    BY <1>2
  <2>2. i + 1 = j + 1
    BY <1>4, <2>1
  <2> QED
    BY <1>2, <2>2
<1>8. ASSUME NEW p \in Ops, new[p].pc \in {"loading", "saving", "unsaving", "deleting"}
      PROVE  \E i \in DOMAIN r : r[i].op = p
  <2>1. p # o /\ cs[p] = new[p]
    BY <1>3, <1>8
  <2>2. PICK i \in DOMAIN q : q[i].op = p
    BY <1>4, <1>8, <2>1
  <2>3. i # 1 /\ i - 1 \in DOMAIN r /\ (i - 1) + 1 = i
    BY <1>2, <1>4, <2>1, <2>2
  <2>4. r[i - 1] = q[i]
    BY <1>2, <2>3
  <2> QED
    BY <2>2, <2>3, <2>4
<1>9. \A i, j \in DOMAIN r : i < j /\ r[i].id = r[j].id =>
        r[i].kind # "load" /\ (new[r[i].op].pc = "saving" => r[j].kind = "load")
  <2> SUFFICES ASSUME NEW i \in DOMAIN r, NEW j \in DOMAIN r, i < j, r[i].id = r[j].id
               PROVE  r[i].kind # "load" /\ (new[r[i].op].pc = "saving" => r[j].kind = "load")
    OBVIOUS
  <2>1. /\ i + 1 \in DOMAIN q /\ j + 1 \in DOMAIN q /\ i + 1 < j + 1
        /\ r[i] = q[i + 1] /\ r[j] = q[j + 1]
    BY <1>2
  <2> QED
    BY <1>5, <1>6, <2>1
<1>10. ~durable => r = <<>>
  BY <1>4
<1>11. QueueInv(n, new)
  BY <1>6, <1>7, <1>8, <1>10 DEF QueueInv, r
<1>12. OrderInv(n, new)
  BY <1>9 DEF OrderInv, r
<1>13. Matches(q[1], cs[o])
  BY <1>2, <1>4
<1> QED
  BY <1>2, <1>6, <1>11, <1>12, <1>13 DEF q, r, l

(* ... ends as it did for the sessions whose last request is still there,  *)
(* and for the one whose only request was carried out.                     *)
LEMMA PoppedMatches ==
  ASSUME NEW m \in Memory, NEW n \in Memory, NEW id, Matched(id, m), m.queue # <<>>,
         n.queue = Tail(m.queue), n.sessions = m.sessions, n.entries = m.entries,
         m.queue[1].id # id \/ shelf[id] = m.queue[1].content
  PROVE  Matched(id, n)
<1> DEFINE q == m.queue
           r == n.queue
           l == Len(q)
           value == m.entries[m.sessions[id]].value
<1>1. m.queue \in Seq(Request)
  BY DEF Memory
<1>2. /\ DOMAIN r = 1..(l - 1) /\ DOMAIN q = 1..l /\ l \in Nat \ {0} /\ 1 \in DOMAIN q
      /\ \A i \in DOMAIN r : i + 1 \in DOMAIN q /\ r[i] = q[i + 1]
  BY <1>1, TailFacts
<1>3. /\ \A i \in DOMAIN q : q[i].id = id /\ LastOf(i, m) => q[i].content = value
      /\ (\A i \in DOMAIN q : q[i].id # id) => shelf[id] = value
      /\ q[1].id # id \/ shelf[id] = q[1].content
  BY DEF Matched
<1>4. \A i \in DOMAIN q : LastOf(i, m) <=> \A j \in DOMAIN q : q[j].id = q[i].id => j <= i
  BY DEF LastOf
<1>5. \A i \in DOMAIN r : LastOf(i, n) <=> \A j \in DOMAIN r : r[j].id = r[i].id => j <= i
  BY DEF LastOf
<1> HIDE DEF q, r, l, value
<1>6. \A j \in DOMAIN q : j # 1 => j - 1 \in DOMAIN r /\ (j - 1) + 1 = j /\ r[j - 1] = q[j]
  BY <1>2
<1>7. ASSUME NEW i \in DOMAIN r, r[i].id = id, LastOf(i, n)
      PROVE  r[i].content = value
  <2>1. ASSUME NEW j \in DOMAIN q, q[j].id = q[i + 1].id
        PROVE  j <= i + 1
    <3>1. CASE j = 1
      BY <1>2, <3>1
    <3>2. CASE j # 1
      <4>1. j - 1 \in DOMAIN r /\ r[j - 1].id = r[i].id
        BY <1>2, <1>6, <2>1, <3>2
      <4>2. j - 1 <= i
        BY <1>5, <1>7, <4>1
      <4> QED
        BY <1>2, <4>2
    <3> QED
      BY <3>1, <3>2
  <2>2. i + 1 \in DOMAIN q /\ r[i] = q[i + 1] /\ LastOf(i + 1, m)
    BY <1>2, <1>4, <2>1
  <2> QED
    BY <1>3, <1>7, <2>2
<1>8. ASSUME \A i \in DOMAIN r : r[i].id # id
      PROVE  shelf[id] = value
  <2>1. \A j \in DOMAIN q : j # 1 => q[j].id # id
    BY <1>6, <1>8
  <2>2. CASE q[1].id = id
    <3>1. LastOf(1, m)
      BY <1>2, <1>4, <2>1, <2>2
    <3> QED
      BY <1>2, <1>3, <2>2, <3>1
  <2>3. CASE q[1].id # id
    BY <1>3, <2>1, <2>3
  <2> QED
    BY <2>2, <2>3
<1> QED
  BY <1>7, <1>8 DEF Matched, r, value

AtStore(m, o) == m.queue # <<>> /\ m.queue[1].op = o /\ m.queue[1].kind # "load"

MayPop(m, c) ==
  m.queue[1].phase = "settled" \/ m.sessions[c.id] = None \/ c.pc = "saving"

(* The first request is answered; the call that waited for it is in        *)
(* transit, or free if it has no lease.                                    *)
LEMMA PopKeeps ==
  ASSUME NEW m, NEW cs, NEW H, NEW o \in Ops, NEW new,
         Sound(m, cs, H), AtStore(m, o), Others(cs, new, o),
         SameLease(cs[o], new[o]), new[o].pc = "done", MayPop(m, cs[o])
  PROVE  Sound(Popped(m), new, H)
<1> USE DEF AtStore, MayPop
<1> DEFINE n == Popped(m)
           id == m.queue[1].id
<1>1. m \in Memory /\ cs \in [Ops -> Op] /\ H \subseteq Ops
  BY DEF Sound, Typed
<1>2. m.queue \in Seq(Request) /\ m.sessions \in [Ids -> Ops \cup {None}]
  BY <1>1 DEF Memory
<1>3. /\ n \in Memory /\ n.sessions = m.sessions /\ n.entries = m.entries
      /\ n.reserved = m.reserved /\ n.queue = Tail(m.queue)
  BY <1>1, PoppedFields
<1> HIDE DEF n
<1>4. /\ QueueInv(n, new) /\ OrderInv(n, new)
      /\ DOMAIN n.queue = 1..(Len(m.queue) - 1) /\ DOMAIN m.queue = 1..Len(m.queue)
      /\ Len(m.queue) \in Nat \ {0} /\ 1 \in DOMAIN m.queue
      /\ m.queue[1] \in Request /\ Matches(m.queue[1], cs[o])
      /\ \A i \in DOMAIN n.queue :
           /\ i + 1 \in DOMAIN m.queue /\ n.queue[i] = m.queue[i + 1]
           /\ n.queue[i] \in Request /\ n.queue[i].op # o
           /\ cs[n.queue[i].op] = new[n.queue[i].op]
  BY <1>1, <1>3, PoppedQueue DEF Sound
<1>5. id = cs[o].id /\ id \in Ids
  BY <1>1, <1>4 DEF Matches, Op
<1>6. new \in [Ops -> Op] /\ \A p \in Ops \ {o} : new[p] = cs[p]
  BY DEF Others
<1>7. cs[o].pc \in {"saving", "unsaving", "deleting"}
  BY <1>4, <1>5 DEF Matches, Request
<1>10. ReservedInv(n)
  <2>1. ASSUME NEW k \in n.reserved
        PROVE  \E i \in DOMAIN n.queue : n.queue[i].kind = "load" /\ n.queue[i].id = k
    <3>1. PICK i \in DOMAIN m.queue : m.queue[i].kind = "load" /\ m.queue[i].id = k
      BY <1>3 DEF Sound, ReservedInv
    <3>2. i # 1 /\ i - 1 \in DOMAIN n.queue /\ (i - 1) + 1 = i
      BY <1>4, <3>1
    <3> QED
      BY <1>4, <3>1, <3>2
  <2> QED
    BY <1>3, <1>4, <2>1 DEF Sound, ReservedInv
<1>11. LeaseInv(n, new, H)
  <2>1. Born(new) = Born(cs) /\ Lessees(new) \subseteq Lessees(cs)
    BY <1>6, <1>7 DEF Born, Lessees
  <2>2. \A p \in Ops : new[p].entry = cs[p].entry /\ new[p].id = cs[p].id
    BY <1>6 DEF SameLease
  <2>3. ASSUME NEW p \in H
        PROVE  LeaseOf(n, new, p)
    <3>1. LeaseOf(m, cs, p)
      BY DEF Sound, LeaseInv
    <3>2. cs[p].entry \in Ops /\ p \in Ops
      BY <1>1, <3>1 DEF LeaseOf, Born
    <3>3. new[new[p].entry].id = new[p].id
      BY <2>2, <3>1, <3>2 DEF LeaseOf
    <3>4. CASE p = o
      BY <1>3, <2>1, <3>1, <3>3, <3>4 DEF LeaseOf, SameLease
    <3>5. CASE p # o
      BY <1>3, <1>6, <2>1, <3>1, <3>2, <3>3, <3>5 DEF LeaseOf
    <3> QED
      BY <3>4, <3>5
  <2> QED
    BY <1>1, <1>2, <1>3, <2>1, <2>2, <2>3 DEF Sound, LeaseInv
<1>12. PromiseInv(n, new, H)
  <2>1. Promised(new) = Promised(cs)
    BY <1>6, <1>7 DEF Promised, OutputOf
  <2>2. ASSUME NEW out, Kept(out, m, cs, H)
        PROVE  Kept(out, n, new, H)
    BY <1>1, <1>3, <1>4, <1>6, <2>2 DEF Kept, SameLease
  <2>3. \A out \in published : new[out.op].pc = "done" /\ out.op \notin H
    BY <1>6, <1>7 DEF Sound, PromiseInv, Output
  <2> QED
    BY <2>1, <2>2, <2>3 DEF Sound, PromiseInv
<1>13. MatchInv(n, new, H)
  <2> SUFFICES ASSUME durable, NEW k \in Ids, n.sessions[k] # None,
                      ~InTransit(k, n, new, H)
               PROVE  Matched(k, n)
    BY DEF MatchInv
  <2>1. ~InTransit(k, m, cs, H)
    BY <1>1, <1>3, <1>6, <1>7 DEF InTransit, SameLease
  <2>2. Matched(k, m)
    BY <1>3, <2>1 DEF Sound, MatchInv
  <2>3. CASE k # id
    BY <1>1, <1>3, <2>2, <2>3, PoppedMatches
  <2>4. CASE k = id
    <3>1. m.queue[1].phase = "settled"
      <4>1. CASE cs[o].pc = "saving"
        <5>1. o \in H /\ LeaseOf(m, cs, o)
          BY <4>1 DEF Sound, LeaseInv, Lessees
        <5>2. cs[o].entry = m.sessions[k] /\ cs[o].rollback # "release"
          BY <1>3, <1>5, <2>4, <4>1, <5>1 DEF LeaseOf
        <5> QED
          BY <1>3, <5>1, <5>2 DEF InTransit, SameLease
      <4> QED
        BY <1>3, <1>5, <2>4, <4>1
    <3>2. shelf[id] = m.queue[1].content
      BY <1>4, <3>1 DEF Sound, QueueInv
    <3> QED
      BY <1>1, <1>3, <2>2, <2>4, <3>2, PoppedMatches
  <2> QED
    BY <2>3, <2>4
<1>14. Typed(n, new, H) /\ LifecycleInv(n)
  BY <1>1, <1>3, <1>4, <1>6 DEF Sound, Typed, LifecycleInv
<1> QED
  BY <1>4, <1>10, <1>11, <1>12, <1>13, <1>14 DEF Sound, n

AtLoad(m, o) == m.queue # <<>> /\ m.queue[1].op = o /\ m.queue[1].kind = "load"

(* The first request is a load and is answered: its id is free again.      *)
LEMMA PopLoadKeeps ==
  ASSUME NEW m, NEW cs, NEW H, NEW o \in Ops, NEW new,
         Sound(m, cs, H), AtLoad(m, o),
         Others(cs, new, o), new[o].id = cs[o].id, new[o].entry = cs[o].entry,
         new[o].pc \in {"admitted", "done"}, NEW n, n = Unreserve(Popped(m), cs[o].id)
  PROVE  /\ Sound(n, new, H) /\ cs[o].id \in m.reserved /\ o \notin H
         /\ n.sessions[cs[o].id] = None /\ cs[o].id \notin n.reserved
         /\ \A i \in DOMAIN n.queue : n.queue[i].id # cs[o].id
<1> DEFINE id == cs[o].id
<1> USE DEF AtLoad
<1>1. m \in Memory /\ cs \in [Ops -> Op] /\ H \subseteq Ops /\ id \in Ids
  BY DEF Sound, Typed, Op
<1>2. m.queue \in Seq(Request) /\ m.sessions \in [Ids -> Ops \cup {None}]
  BY <1>1 DEF Memory
<1>2a. n = Unreserve(Popped(m), id)
  OBVIOUS
<1> HIDE DEF id
<1>3. /\ n \in Memory /\ n.sessions = m.sessions /\ n.entries = m.entries
      /\ n.reserved = m.reserved \ {id} /\ n.queue = Tail(m.queue)
  BY <1>1, <1>2a, PoppedFields, UnreserveFields
<1>4. /\ QueueInv(n, new) /\ OrderInv(n, new)
      /\ DOMAIN n.queue = 1..(Len(m.queue) - 1) /\ DOMAIN m.queue = 1..Len(m.queue)
      /\ Len(m.queue) \in Nat \ {0} /\ 1 \in DOMAIN m.queue
      /\ m.queue[1] \in Request /\ Matches(m.queue[1], cs[o])
      /\ \A i \in DOMAIN n.queue :
           /\ i + 1 \in DOMAIN m.queue /\ n.queue[i] = m.queue[i + 1]
           /\ n.queue[i] \in Request /\ n.queue[i].op # o
           /\ cs[n.queue[i].op] = new[n.queue[i].op]
  BY <1>1, <1>3, PoppedQueue DEF Sound
<1>5. m.queue[1].id = id
  BY <1>1, <1>4 DEF Matches, id
<1>6. new \in [Ops -> Op] /\ \A p \in Ops \ {o} : new[p] = cs[p]
  BY DEF Others
<1>7. /\ cs[o].pc = "loading" /\ id \in m.reserved /\ m.sessions[id] = None /\ o \notin H
      /\ \A i \in DOMAIN n.queue : n.queue[i].id # id
  <2>1. cs[o].pc = "loading"
    BY <1>4 DEF Matches
  <2>2. id \in m.reserved /\ m.sessions[id] = None
    BY <1>4, <1>5 DEF Sound, ReservedInv
  <2>3. o \notin H
    BY <2>1 DEF Sound, LeaseInv, LeaseOf
  <2>4. ASSUME NEW i \in DOMAIN n.queue
        PROVE  n.queue[i].id # id
    <3>1. 1 < i + 1 /\ i + 1 \in DOMAIN m.queue /\ n.queue[i] = m.queue[i + 1]
      BY <1>4
    <3> QED
      BY <1>4, <1>5, <3>1 DEF Sound, OrderInv
  <2> QED
    BY <2>1, <2>2, <2>3, <2>4
<1>10. ReservedInv(n)
  <2>1. ASSUME NEW k \in n.reserved
        PROVE  \E i \in DOMAIN n.queue : n.queue[i].kind = "load" /\ n.queue[i].id = k
    <3>1. PICK i \in DOMAIN m.queue : m.queue[i].kind = "load" /\ m.queue[i].id = k
      BY <1>3 DEF Sound, ReservedInv
    <3>2. i # 1
      BY <1>3, <1>5, <3>1
    <3>3. i - 1 \in DOMAIN n.queue /\ (i - 1) + 1 = i
      BY <1>4, <3>2
    <3> QED
      BY <1>4, <3>1, <3>3
  <2> QED
    BY <1>3, <1>4, <1>7, <2>1 DEF Sound, ReservedInv
<1>11. LeaseInv(n, new, H)
  <2>1. Born(cs) \subseteq Born(new) /\ Lessees(new) \subseteq Lessees(cs)
    BY <1>6, <1>7 DEF Born, Lessees
  <2>2. \A p \in Ops : new[p].entry = cs[p].entry /\ new[p].id = cs[p].id
    BY <1>6
  <2>3. ASSUME NEW p \in H
        PROVE  LeaseOf(n, new, p)
    <3>1. LeaseOf(m, cs, p)
      BY DEF Sound, LeaseInv
    <3>2. cs[p].entry \in Ops /\ p \in Ops
      BY <1>1, <3>1 DEF LeaseOf, Born
    <3>3. new[new[p].entry].id = new[p].id
      BY <2>2, <3>1, <3>2 DEF LeaseOf
    <3> QED
      BY <1>3, <1>6, <1>7, <2>1, <3>1, <3>2, <3>3 DEF LeaseOf
  <2> QED
    BY <1>1, <1>2, <1>3, <2>1, <2>2, <2>3 DEF Sound, LeaseInv
<1>12. PromiseInv(n, new, H)
  <2>1. Promised(new) = Promised(cs)
    BY <1>6, <1>7 DEF Promised, OutputOf
  <2>2. ASSUME NEW out, Kept(out, m, cs, H)
        PROVE  Kept(out, n, new, H)
    BY <1>1, <1>3, <1>4, <1>6, <1>7, <2>2 DEF Kept
  <2>3. \A out \in published : new[out.op].pc = "done" /\ out.op \notin H
    BY <1>6, <1>7 DEF Sound, PromiseInv, Output
  <2> QED
    BY <2>1, <2>2, <2>3 DEF Sound, PromiseInv
<1>13. MatchInv(n, new, H)
  <2> SUFFICES ASSUME durable, NEW k \in Ids, n.sessions[k] # None,
                      ~InTransit(k, n, new, H)
               PROVE  Matched(k, n)
    BY DEF MatchInv
  <2>1. ~InTransit(k, m, cs, H)
    BY <1>1, <1>3, <1>6, <1>7 DEF InTransit
  <2>2. Matched(k, m) /\ k # id
    BY <1>3, <1>7, <2>1 DEF Sound, MatchInv
  <2> QED
    BY <1>1, <1>3, <1>5, <2>2, PoppedMatches
<1>14. Typed(n, new, H) /\ LifecycleInv(n)
  BY <1>1, <1>3, <1>4, <1>6 DEF Sound, Typed, LifecycleInv
<1>15. Sound(n, new, H)
  BY <1>4, <1>10, <1>11, <1>12, <1>13, <1>14 DEF Sound
<1>16. n.sessions[id] = None /\ id \notin n.reserved
  BY <1>3, <1>7
<1> QED
  BY <1>7, <1>15, <1>16 DEF id

(* What is queued of the request's session may stay before it.             *)
MayQueue(m, cs, r) ==
  \A i \in DOMAIN m.queue : m.queue[i].id = r.id =>
    m.queue[i].kind # "load" /\ (cs[m.queue[i].op].pc = "saving" => r.kind = "load")

(* The queue with one more request, of a call that had none there.         *)
LEMMA QueuedQueue ==
  ASSUME NEW m \in Memory, NEW n \in Memory, NEW cs, NEW o \in Ops, NEW new,
         NEW r \in Request, QueueInv(m, cs), OrderInv(m, cs), durable,
         n.queue = Append(m.queue, r), r.op = o, r.phase = "queued", Matches(r, new[o]),
         Others(cs, new, o), cs[o].pc \in {"admitted", "done"}, MayQueue(m, cs, r)
  PROVE  /\ QueueInv(n, new) /\ OrderInv(n, new)
         /\ DOMAIN n.queue = 1..(Len(m.queue) + 1) /\ DOMAIN m.queue = 1..Len(m.queue)
         /\ Len(m.queue) \in Nat /\ n.queue[Len(m.queue) + 1] = r
         /\ \A i \in DOMAIN m.queue :
              /\ n.queue[i] = m.queue[i] /\ m.queue[i] \in Request /\ m.queue[i].op # o
              /\ cs[m.queue[i].op] = new[m.queue[i].op]
<1> DEFINE q == m.queue
           s == n.queue
           l == Len(q)
<1>1. m.queue \in Seq(Request)
  BY DEF Memory
<1>2. /\ DOMAIN s = 1..(l + 1) /\ DOMAIN q = 1..l /\ l \in Nat
      /\ \A i \in DOMAIN q : s[i] = q[i] /\ q[i] \in Request
      /\ s[l + 1] = r
  BY <1>1, AppendFacts
<1>3. new \in [Ops -> Op] /\ \A p \in Ops \ {o} : new[p] = cs[p]
  BY DEF Others
<1>4. /\ \A i \in DOMAIN q : Matches(q[i], cs[q[i].op])
      /\ \A i \in DOMAIN q : q[i].phase # "queued" =>
           i = 1 /\ q[i].kind # "load" /\ shelf[q[i].id] = q[i].content
      /\ \A i \in DOMAIN q : q[i].phase = "settled" => atRisk = {shelf}
      /\ \A i, j \in DOMAIN q : q[i].op = q[j].op => i = j
      /\ \A p \in Ops : cs[p].pc \in {"loading", "saving", "unsaving", "deleting"} =>
           \E i \in DOMAIN q : q[i].op = p
      /\ \A i, j \in DOMAIN q : i < j /\ q[i].id = q[j].id =>
           q[i].kind # "load" /\ (cs[q[i].op].pc = "saving" => q[j].kind = "load")
      /\ \A i \in DOMAIN q : q[i].id = r.id =>
           q[i].kind # "load" /\ (cs[q[i].op].pc = "saving" => r.kind = "load")
  BY DEF QueueInv, OrderInv, MayQueue
<1> HIDE DEF q, s, l
<1>5. \A i \in DOMAIN q : q[i].op \in Ops \ {o} /\ cs[q[i].op] = new[q[i].op]
  <2> SUFFICES ASSUME NEW i \in DOMAIN q
               PROVE  q[i].op \in Ops \ {o} /\ cs[q[i].op] = new[q[i].op]
    OBVIOUS
  <2>1. Matches(q[i], cs[q[i].op]) /\ q[i].kind \in {"load", "save", "delete"} /\ q[i].op \in Ops
    BY <1>2, <1>4 DEF Request
  <2>2. q[i].op # o
    BY <2>1 DEF Matches
  <2> QED
    BY <1>3, <2>1, <2>2
<1>6. ASSUME NEW i \in DOMAIN s
      PROVE  /\ Matches(s[i], new[s[i].op])
             /\ s[i].phase # "queued" =>
                  i = 1 /\ s[i].kind # "load" /\ shelf[s[i].id] = s[i].content
             /\ s[i].phase = "settled" => atRisk = {shelf}
  <2>1. CASE i \in DOMAIN q
    <3>1. s[i] = q[i] /\ cs[q[i].op] = new[q[i].op] /\ Matches(q[i], cs[q[i].op])
      BY <1>2, <1>4, <1>5, <2>1
    <3> QED
      BY <1>4, <2>1, <3>1
  <2>2. CASE i = l + 1
    BY <1>2, <2>2
  <2> QED
    BY <1>2, <2>1, <2>2
<1>7. \A i, j \in DOMAIN s : s[i].op = s[j].op => i = j
  BY <1>2, <1>4, <1>5
<1>8. ASSUME NEW p \in Ops, new[p].pc \in {"loading", "saving", "unsaving", "deleting"}
      PROVE  \E i \in DOMAIN s : s[i].op = p
  <2>1. CASE p = o
    BY <1>2, <2>1
  <2>2. CASE p # o
    <3>1. PICK i \in DOMAIN q : q[i].op = p
      BY <1>3, <1>4, <1>8, <2>2
    <3> QED
      BY <1>2, <3>1
  <2> QED
    BY <2>1, <2>2
<1>9. ASSUME NEW i \in DOMAIN s, NEW j \in DOMAIN s, i < j, s[i].id = s[j].id
      PROVE  s[i].kind # "load" /\ (new[s[i].op].pc = "saving" => s[j].kind = "load")
  <2>1. i \in DOMAIN q /\ s[i] = q[i] /\ cs[q[i].op] = new[q[i].op]
    BY <1>2, <1>5, <1>9
  <2>2. CASE j \in DOMAIN q
    BY <1>2, <1>4, <1>9, <2>1, <2>2
  <2>3. CASE j = l + 1
    BY <1>2, <1>4, <1>9, <2>1, <2>3
  <2> QED
    BY <1>2, <2>2, <2>3
<1>10. QueueInv(n, new)
  BY <1>6, <1>7, <1>8 DEF QueueInv, s
<1>11. OrderInv(n, new)
  BY <1>9 DEF OrderInv, s
<1> QED
  BY <1>2, <1>5, <1>10, <1>11 DEF q, s, l

(* Its end is as it was for the other sessions.                            *)
LEMMA QueuedMatches ==
  ASSUME NEW m \in Memory, NEW n \in Memory, NEW id, NEW r \in Request,
         n.queue = Append(m.queue, r),
         \/ r.id = id /\ r.content = n.entries[n.sessions[id]].value
         \/ /\ r.id # id /\ Matched(id, m)
            /\ n.entries[n.sessions[id]].value = m.entries[m.sessions[id]].value
  PROVE  Matched(id, n)
<1> DEFINE q == m.queue
           s == n.queue
           l == Len(q)
           value == n.entries[n.sessions[id]].value
<1>1. m.queue \in Seq(Request)
  BY DEF Memory
<1>2. /\ DOMAIN s = 1..(l + 1) /\ DOMAIN q = 1..l /\ l \in Nat
      /\ \A i \in DOMAIN q : s[i] = q[i] /\ q[i] \in Request
      /\ s[l + 1] = r
  BY <1>1, AppendFacts
<1>3. \A i \in DOMAIN s : LastOf(i, n) <=> \A j \in DOMAIN s : s[j].id = s[i].id => j <= i
  BY DEF LastOf
<1>4. \A i \in DOMAIN q : LastOf(i, m) <=> \A j \in DOMAIN q : q[j].id = q[i].id => j <= i
  BY DEF LastOf
<1>5. CASE r.id = id
  <2>1. r.content = value
    BY <1>5
  <2> HIDE DEF q, s, l, value
  <2>2. ASSUME NEW i \in DOMAIN s, s[i].id = id, LastOf(i, n)
        PROVE  s[i].content = value
    <3>1. l + 1 <= i
      BY <1>2, <1>3, <1>5, <2>2
    <3>2. i = l + 1
      BY <1>2, <3>1
    <3> QED
      BY <1>2, <2>1, <3>2
  <2>3. l + 1 \in DOMAIN s /\ s[l + 1].id = id
    BY <1>2, <1>5
  <2> QED
    BY <2>2, <2>3 DEF Matched, s, value
<1>6. CASE r.id # id
  <2>1. /\ \A i \in DOMAIN q : q[i].id = id /\ LastOf(i, m) => q[i].content = value
        /\ (\A i \in DOMAIN q : q[i].id # id) => shelf[id] = value
    BY <1>6 DEF Matched
  <2> HIDE DEF q, s, l, value
  <2>2. ASSUME NEW i \in DOMAIN s, s[i].id = id, LastOf(i, n)
        PROVE  s[i].content = value
    <3>1. i \in DOMAIN q /\ s[i] = q[i]
      BY <1>2, <1>6, <2>2
    <3>2. LastOf(i, m)
      BY <1>2, <1>3, <1>4, <2>2, <3>1
    <3> QED
      BY <2>1, <2>2, <3>1, <3>2
  <2>3. (\A i \in DOMAIN s : s[i].id # id) => shelf[id] = value
    BY <1>2, <2>1
  <2> QED
    BY <2>2, <2>3 DEF Matched, s, value
<1> QED
  BY <1>5, <1>6

(* A call asks for a session that is neither in memory nor reserved.       *)
LEMMA LoadKeeps ==
  ASSUME NEW m, NEW cs, NEW H, NEW o \in Ops, NEW new, NEW n \in Memory,
         Sound(m, cs, H), durable, cs[o].pc = "admitted",
         Others(cs, new, o), SameLease(cs[o], new[o]), new[o].pc = "loading",
         m.sessions[cs[o].id] = None, cs[o].id \notin m.reserved,
         n.sessions = m.sessions, n.entries = m.entries,
         n.reserved = m.reserved \cup {cs[o].id},
         n.queue = Append(m.queue, RequestOf(o, cs[o], "load", Absent))
  PROVE  Sound(n, new, H)
<1> DEFINE id == cs[o].id
           r == RequestOf(o, cs[o], "load", Absent)
<1>1. m \in Memory /\ cs \in [Ops -> Op] /\ H \subseteq Ops /\ cs[o] \in Op /\ id \in Ids
  BY DEF Sound, Typed, Op
<1>2. /\ r \in Request /\ r.op = o /\ r.kind = "load" /\ r.id = id
      /\ r.content = Absent /\ r.phase = "queued"
  BY <1>1, RequestFields
<1> HIDE DEF r, id
<1>3. /\ n.sessions = m.sessions /\ n.entries = m.entries /\ n.reserved = m.reserved \cup {id}
      /\ n.queue = Append(m.queue, r) /\ m.sessions[id] = None /\ id \notin m.reserved
      /\ id = cs[o].id
  BY DEF r, id
<1>4. new \in [Ops -> Op] /\ \A p \in Ops \ {o} : new[p] = cs[p]
  BY DEF Others
<1>5. \A i \in DOMAIN m.queue : m.queue[i].id = r.id => m.queue[i].kind # "load"
  BY <1>2, <1>3 DEF Sound, ReservedInv
<1>6. Matches(r, new[o])
  BY <1>2, <1>3 DEF Matches, SameLease
<1>7. /\ QueueInv(n, new) /\ OrderInv(n, new)
      /\ DOMAIN n.queue = 1..(Len(m.queue) + 1) /\ DOMAIN m.queue = 1..Len(m.queue)
      /\ Len(m.queue) \in Nat /\ n.queue[Len(m.queue) + 1] = r
      /\ \A i \in DOMAIN m.queue :
           /\ n.queue[i] = m.queue[i] /\ m.queue[i] \in Request /\ m.queue[i].op # o
           /\ cs[m.queue[i].op] = new[m.queue[i].op]
  <2>1. QueueInv(m, cs) /\ OrderInv(m, cs) /\ MayQueue(m, cs, r)
    BY <1>2, <1>5 DEF Sound, MayQueue
  <2>2. /\ m \in Memory /\ r \in Request /\ r.op = o /\ r.phase = "queued"
        /\ n.queue = Append(m.queue, r)
    BY <1>1, <1>2, <1>3
  <2> QED
    BY <1>6, <2>1, <2>2, QueuedQueue
<1>8. \A i \in DOMAIN n.queue : i \in DOMAIN m.queue \/ (i = Len(m.queue) + 1 /\ n.queue[i] = r)
  BY <1>7
<1>9. ReservedInv(n)
  <2>1. ASSUME NEW k \in n.reserved
        PROVE  \E i \in DOMAIN n.queue : n.queue[i].kind = "load" /\ n.queue[i].id = k
    <3>1. CASE k = id
      BY <1>2, <1>7, <3>1
    <3>2. CASE k # id
      <4>1. PICK i \in DOMAIN m.queue : m.queue[i].kind = "load" /\ m.queue[i].id = k
        BY <1>3, <3>2 DEF Sound, ReservedInv
      <4> QED
        BY <1>7, <4>1
    <3> QED
      BY <3>1, <3>2
  <2>2. \A k \in n.reserved : n.sessions[k] = None
    BY <1>3 DEF Sound, ReservedInv
  <2>3. \A i \in DOMAIN n.queue :
          /\ n.queue[i].kind = "load" => n.queue[i].id \in n.reserved
          /\ n.queue[i].kind = "delete" => n.sessions[n.queue[i].id] = None
    BY <1>2, <1>3, <1>7, <1>8 DEF Sound, ReservedInv
  <2> QED
    BY <2>1, <2>2, <2>3 DEF ReservedInv
<1>10. LeaseInv(n, new, H)
  <2>1. Born(new) = Born(cs) /\ Lessees(new) = Lessees(cs)
    BY <1>4 DEF Born, Lessees
  <2>2. \A p \in Ops : new[p].entry = cs[p].entry /\ new[p].id = cs[p].id
    BY <1>4 DEF SameLease
  <2>3. ASSUME NEW p \in H
        PROVE  LeaseOf(n, new, p)
    <3>1. LeaseOf(m, cs, p)
      BY DEF Sound, LeaseInv
    <3>2. cs[p].entry \in Ops /\ p \in Ops \ {o}
      BY <1>1, <3>1 DEF LeaseOf, Born
    <3>3. new[new[p].entry].id = new[p].id
      BY <2>2, <3>1, <3>2 DEF LeaseOf
    <3> QED
      BY <1>3, <1>4, <2>1, <3>1, <3>2, <3>3 DEF LeaseOf
  <2>4. LeaseInv(m, cs, H)
    BY DEF Sound
  <2>5. \A k \in Ids : m.sessions[k] # None => m.sessions[k] \in Ops
    BY <2>4 DEF LeaseInv, Born
  <2> QED
    BY <1>1, <1>3, <2>1, <2>2, <2>3, <2>4, <2>5 DEF LeaseInv
<1>11. o \notin H
  BY DEF Sound, LeaseInv, LeaseOf
<1>12. PromiseInv(n, new, H)
  <2>1. Promised(new) = Promised(cs)
    BY <1>4 DEF Promised, OutputOf
  <2>2. ASSUME NEW out, Kept(out, m, cs, H)
        PROVE  Kept(out, n, new, H)
    BY <1>1, <1>2, <1>3, <1>4, <1>7, <1>8, <1>11, <2>2 DEF Kept
  <2>3. \A out \in published : new[out.op].pc = "done" /\ out.op \notin H
    BY <1>4 DEF Sound, PromiseInv, Output
  <2> QED
    BY <2>1, <2>2, <2>3 DEF Sound, PromiseInv
<1>13. MatchInv(n, new, H)
  <2> SUFFICES ASSUME durable, NEW k \in Ids, n.sessions[k] # None,
                      ~InTransit(k, n, new, H)
               PROVE  Matched(k, n)
    BY DEF MatchInv
  <2>1. ~InTransit(k, m, cs, H)
    BY <1>1, <1>3, <1>4, <1>11 DEF InTransit
  <2>2. Matched(k, m) /\ k # id
    BY <1>3, <2>1 DEF Sound, MatchInv
  <2> QED
    BY <1>1, <1>2, <1>3, <2>2, QueuedMatches
<1>14. Typed(n, new, H) /\ LifecycleInv(n)
  BY <1>1, <1>2, <1>4, <1>7, <1>8 DEF Sound, Typed, LifecycleInv
<1> QED
  BY <1>7, <1>9, <1>10, <1>12, <1>13, <1>14 DEF Sound

(* A call that leases an entry in memory has the session for itself: what  *)
(* is queued for it are rollbacks that came before.                        *)
Alone(m, cs, H, o) ==
  /\ o \in Ops /\ cs[o] \in Op /\ cs[o].id \in Ids /\ cs[o].entry \in Ops
  /\ cs[o].entry # None /\ cs[o].id \notin m.reserved
  /\ m.entries[cs[o].entry] \in Entry
  /\ \A k \in Ids : m.sessions[k] = cs[o].entry => k = cs[o].id
  /\ \A p \in H \ {o} : cs[p].entry # cs[o].entry
  /\ \A i \in DOMAIN m.queue : m.queue[i].id = cs[o].id =>
       m.queue[i].kind # "load" /\ cs[m.queue[i].op].pc # "saving"
  /\ \A out \in Promised(cs) :
       /\ out.op # o /\ Kept(out, m, cs, H)
       /\ out.id = cs[o].id /\ cs[o].rollback # "release" =>
            cs[o].rollback = "restore" /\ Restores(cs[o].checkpoint, out)
  /\ durable /\ cs[o].rollback # "release" => cs[o].id \notin LifecycleIds

LEMMA LiveLease ==
  ASSUME NEW m, NEW cs, NEW H, NEW o \in H, Sound(m, cs, H), cs[o].pc = "done",
         cs[o].entry = m.sessions[cs[o].id]
  PROVE  Alone(m, cs, H, o)
<1> DEFINE id == cs[o].id
<1>1. /\ m \in Memory /\ cs \in [Ops -> Op] /\ H \subseteq Ops /\ o \in Ops
      /\ cs[o] \in Op /\ id \in Ids /\ LeaseOf(m, cs, o)
  BY DEF Sound, Typed, Op, LeaseInv
<1>2. cs[o].entry \in Ops /\ cs[o].entry # None /\ m.entries[cs[o].entry] \in Entry
  BY <1>1, ServiceAssumption DEF LeaseOf, Born, Memory
<1>3. id \notin m.reserved
  BY <1>2 DEF Sound, ReservedInv
<1>4. \A k \in Ids : m.sessions[k] = cs[o].entry => k = id
  BY <1>1, <1>2 DEF Sound, LeaseInv
<1>5. \A p \in H \ {o} : cs[p].entry # cs[o].entry
  BY DEF Sound, LeaseInv
<1>6. ASSUME NEW i \in DOMAIN m.queue, m.queue[i].id = id
      PROVE  m.queue[i].kind # "load" /\ cs[m.queue[i].op].pc # "saving"
  <2>1. m.queue[i].kind # "load"
    BY <1>3, <1>6 DEF Sound, ReservedInv
  <2>2. ASSUME cs[m.queue[i].op].pc = "saving"
        PROVE  FALSE
    <3> DEFINE p == m.queue[i].op
    <3>1. p \in Ops /\ cs[p].id = id
      <4>1. m.queue[i] \in Request /\ Matches(m.queue[i], cs[p])
        BY <1>1, <1>6 DEF Sound, QueueInv, Memory
      <4> QED
        BY <1>6, <4>1 DEF Matches, Request
    <3>2. p \in H /\ LeaseOf(m, cs, p)
      BY <2>2, <3>1 DEF Sound, LeaseInv, Lessees
    <3>3. cs[p].entry = cs[o].entry
      BY <1>2, <2>2, <3>1, <3>2 DEF LeaseOf
    <3> QED
      BY <1>5, <2>2, <3>2, <3>3
  <2> QED
    BY <2>1, <2>2
<1>7. ASSUME NEW out \in Promised(cs)
      PROVE  /\ out.op # o /\ Kept(out, m, cs, H)
             /\ out.id = id /\ cs[o].rollback # "release" =>
                  cs[o].rollback = "restore" /\ Restores(cs[o].checkpoint, out)
  <2>1. Kept(out, m, cs, H)
    BY DEF Sound, PromiseInv
  <2>2. out.op # o
    <3>1. CASE out \in published
      BY <3>1 DEF Sound, PromiseInv
    <3>2. CASE out \notin published
      BY <1>7, <3>2 DEF Promised, OutputOf
    <3> QED
      BY <3>1, <3>2
  <2> QED
    BY <2>1, <2>2 DEF Kept
<1> QED
  BY <1>1, <1>2, <1>3, <1>4, <1>5, <1>6, <1>7 DEF LeaseOf, Alone

(* The call that redacted its session has it saved.                        *)
LEMMA SavingKeeps ==
  ASSUME NEW m, NEW cs, NEW H, NEW o \in H, NEW new,
         Sound(m, cs, H), durable, cs[o].pc = "done", cs[o].kind = "anonymize",
         cs[o].entry = m.sessions[cs[o].id],
         m.entries[cs[o].entry].value = Grown(cs[o].checkpoint, o),
         Others(cs, new, o), SameLease(cs[o], new[o]), new[o].pc = "saving"
  PROVE  Sound(Queued(m, RequestOf(o, cs[o], "save", Grown(cs[o].checkpoint, o))), new, H)
<1> DEFINE id == cs[o].id
           content == Grown(cs[o].checkpoint, o)
           r == RequestOf(o, cs[o], "save", content)
           n == Queued(m, r)
<1>1. m \in Memory /\ cs \in [Ops -> Op] /\ H \subseteq Ops
  BY DEF Sound, Typed
<1>2. /\ o \in Ops /\ cs[o] \in Op /\ id \in Ids /\ cs[o].entry \in Ops
      /\ cs[o].entry # None /\ id \notin m.reserved /\ m.entries[cs[o].entry] \in Entry
      /\ \A k \in Ids : m.sessions[k] = cs[o].entry => k = id
      /\ \A i \in DOMAIN m.queue : m.queue[i].id = id =>
           m.queue[i].kind # "load" /\ cs[m.queue[i].op].pc # "saving"
  <2>1. Alone(m, cs, H, o)
    BY LiveLease
  <2> QED
    BY <2>1 DEF Alone
<1>3. content \in Values /\ content # Absent
  BY <1>2, AppendRestores, ServiceAssumption DEF Op, Values
<1> HIDE DEF content
<1>4. /\ r \in Request /\ r.op = o /\ r.kind = "save" /\ r.id = id
      /\ r.content = content /\ r.phase = "queued"
  BY <1>2, <1>3, RequestFields
<1> HIDE DEF r, id
<1>5. /\ n \in Memory /\ n.sessions = m.sessions /\ n.entries = m.entries
      /\ n.reserved = m.reserved /\ n.queue = Append(m.queue, r)
  BY <1>1, <1>4, QueuedFields
<1> HIDE DEF n
<1>6. id = cs[o].id /\ m.sessions[id] = cs[o].entry /\ m.entries[cs[o].entry].value = content
  BY DEF id, content
<1>7. new \in [Ops -> Op] /\ \A p \in Ops \ {o} : new[p] = cs[p]
  BY DEF Others
<1>8. Matches(r, new[o])
  BY <1>3, <1>4, <1>6 DEF Matches, SameLease, content
<1>9. /\ QueueInv(n, new) /\ OrderInv(n, new)
      /\ DOMAIN n.queue = 1..(Len(m.queue) + 1) /\ DOMAIN m.queue = 1..Len(m.queue)
      /\ Len(m.queue) \in Nat /\ n.queue[Len(m.queue) + 1] = r
      /\ \A i \in DOMAIN m.queue :
           /\ n.queue[i] = m.queue[i] /\ m.queue[i] \in Request /\ m.queue[i].op # o
           /\ cs[m.queue[i].op] = new[m.queue[i].op]
  <2>1. QueueInv(m, cs) /\ OrderInv(m, cs) /\ MayQueue(m, cs, r)
    BY <1>2, <1>4 DEF Sound, MayQueue
  <2>2. /\ m \in Memory /\ n \in Memory /\ n.queue = Append(m.queue, r) /\ r \in Request
        /\ r.op = o /\ r.phase = "queued" /\ o \in Ops
    BY <1>1, <1>2, <1>4, <1>5
  <2> QED
    BY <1>8, <2>1, <2>2, QueuedQueue
<1>10. \A i \in DOMAIN n.queue : i \in DOMAIN m.queue \/ (i = Len(m.queue) + 1 /\ n.queue[i] = r)
  BY <1>9
<1>11. ReservedInv(n)
  <2>1. ReservedInv(m)
    BY DEF Sound
  <2>2. ASSUME NEW k \in n.reserved
        PROVE  n.sessions[k] = None /\ \E i \in DOMAIN n.queue :
                 n.queue[i].kind = "load" /\ n.queue[i].id = k
    <3>1. PICK i \in DOMAIN m.queue : m.queue[i].kind = "load" /\ m.queue[i].id = k
      BY <1>5, <2>1 DEF ReservedInv
    <3>2. i \in DOMAIN n.queue /\ n.queue[i] = m.queue[i]
      BY <1>9
    <3> QED
      BY <1>5, <2>1, <3>1, <3>2 DEF ReservedInv
  <2>3. ASSUME NEW i \in DOMAIN n.queue
        PROVE  /\ n.queue[i].kind = "load" => n.queue[i].id \in n.reserved
               /\ n.queue[i].kind = "delete" => n.sessions[n.queue[i].id] = None
    <3>1. CASE i \in DOMAIN m.queue
      BY <1>5, <1>9, <2>1, <3>1 DEF ReservedInv
    <3>2. CASE n.queue[i] = r
      BY <1>4, <3>2
    <3> QED
      BY <1>10, <3>1, <3>2
  <2> QED
    BY <2>2, <2>3 DEF ReservedInv
<1>12. LeaseInv(n, new, H)
  <2>1. Born(new) = Born(cs) /\ Lessees(new) \subseteq H
    <3>1. Lessees(cs) \subseteq H
      BY DEF Sound, LeaseInv
    <3> QED
      BY <1>2, <1>7, <3>1 DEF Born, Lessees
  <2>2. \A p \in Ops : new[p].entry = cs[p].entry /\ new[p].id = cs[p].id
    BY <1>7 DEF SameLease
  <2>3. ASSUME NEW p \in H
        PROVE  LeaseOf(n, new, p)
    <3>1. LeaseOf(m, cs, p)
      BY DEF Sound, LeaseInv
    <3>2. cs[p].entry \in Ops /\ p \in Ops
      BY <1>1, <3>1 DEF LeaseOf, Born
    <3>3. new[new[p].entry].id = new[p].id
      BY <2>2, <3>1, <3>2 DEF LeaseOf
    <3>4. CASE p = o
      BY <1>5, <1>6, <2>1, <3>1, <3>3, <3>4 DEF LeaseOf, SameLease, content
    <3>5. CASE p # o
      BY <1>5, <1>7, <2>1, <3>1, <3>2, <3>3, <3>5 DEF LeaseOf
    <3> QED
      BY <3>4, <3>5
  <2> QED
    BY <1>1, <1>5, <2>1, <2>2, <2>3 DEF Sound, LeaseInv, Memory
<1>13. PromiseInv(n, new, H)
  <2>1. Promised(new) = Promised(cs)
    BY <1>7 DEF Promised
  <2>2. ASSUME NEW out, Kept(out, m, cs, H)
        PROVE  Kept(out, n, new, H)
    <3>1. out.id = id => Restores(content, out)
      BY <1>2, <1>6, <2>2 DEF Kept
    <3>2. \A p \in H : new[p].id = cs[p].id /\ new[p].entry = cs[p].entry
             /\ new[p].rollback = cs[p].rollback /\ new[p].checkpoint = cs[p].checkpoint
      BY <1>1, <1>7 DEF SameLease
    <3> QED
      <4>1. ASSUME NEW i \in DOMAIN n.queue, n.queue[i].id = out.id, n.queue[i].kind # "load"
            PROVE  n.queue[i].content # Absent /\ Restores(n.queue[i].content, out)
        <5>1. CASE i \in DOMAIN m.queue
          BY <1>9, <2>2, <4>1, <5>1 DEF Kept
        <5>2. CASE n.queue[i] = r
          BY <1>3, <1>4, <3>1, <4>1, <5>2
        <5> QED
          BY <1>10, <5>1, <5>2
      <4> QED
        BY <1>5, <2>2, <3>2, <4>1 DEF Kept
  <2>3. \A out \in published : new[out.op].pc = "done" /\ out.op \notin H
    BY <1>7 DEF Sound, PromiseInv, Output
  <2> QED
    BY <2>1, <2>2, <2>3 DEF Sound, PromiseInv
<1>14. MatchInv(n, new, H)
  <2> SUFFICES ASSUME durable, NEW k \in Ids, n.sessions[k] # None,
                      ~InTransit(k, n, new, H)
               PROVE  Matched(k, n)
    BY DEF MatchInv
  <2>1. CASE k = id
    BY <1>1, <1>4, <1>5, <1>6, <2>1, QueuedMatches
  <2>2. CASE k # id
    <3>1. ~InTransit(k, m, cs, H)
      BY <1>1, <1>2, <1>5, <1>7, <2>2 DEF InTransit
    <3>2. Matched(k, m)
      BY <1>5, <3>1 DEF Sound, MatchInv
    <3> QED
      BY <1>1, <1>4, <1>5, <2>2, <3>2, QueuedMatches
  <2> QED
    BY <2>1, <2>2
<1>15. Typed(n, new, H)
  BY <1>1, <1>5, <1>7 DEF Typed
<1>16. LifecycleInv(n)
  <2>1. id \notin LifecycleIds
    BY <1>6 DEF Sound, LeaseInv, LeaseOf
  <2> QED
    BY <1>4, <1>9, <1>10, <2>1 DEF Sound, LifecycleInv
<1> QED
  BY <1>9, <1>11, <1>12, <1>13, <1>14, <1>15, <1>16 DEF Sound, n, r, content

(* A rollback puts the checkpoint back and has it saved.                   *)
LEMMA RestoreKeeps ==
  ASSUME NEW m, NEW cs, NEW H, NEW o \in H, NEW new,
         Sound(m, cs, H), durable, cs[o].pc = "done",
         cs[o].entry = m.sessions[cs[o].id], cs[o].rollback = "restore",
         Others(cs, new, o), SameLease(cs[o], new[o]), new[o].pc = "unsaving"
  PROVE  Sound(Queued(SetEntry(m, cs[o].entry, [value |-> cs[o].checkpoint, status |-> "ready"]),
                    RequestOf(o, cs[o], "save", cs[o].checkpoint)), new, H \ {o})
<1> DEFINE id == cs[o].id
           e == cs[o].entry
           r == RequestOf(o, cs[o], "save", cs[o].checkpoint)
           n == Queued(SetEntry(m, cs[o].entry, [value |-> cs[o].checkpoint, status |-> "ready"]),
                    r)
           K == H \ {o}
<1>1. m \in Memory /\ cs \in [Ops -> Op] /\ H \subseteq Ops
  BY DEF Sound, Typed
<1>2. /\ o \in Ops /\ cs[o] \in Op /\ id \in Ids /\ e \in Ops
      /\ e # None /\ id \notin m.reserved /\ m.entries[e] \in Entry
      /\ \A k \in Ids : m.sessions[k] = e => k = id
      /\ \A p \in K : cs[p].entry # e
      /\ \A i \in DOMAIN m.queue : m.queue[i].id = id =>
           m.queue[i].kind # "load" /\ cs[m.queue[i].op].pc # "saving"
      /\ id \notin LifecycleIds
  <2>1. Alone(m, cs, H, o)
    BY LiveLease
  <2> QED
    BY <2>1 DEF Alone
<1>3. /\ id = cs[o].id /\ e = cs[o].entry /\ m.sessions[id] = e
      /\ K = H \ {o}
  OBVIOUS
<1>4. /\ r \in Request /\ r.op = o /\ r.kind = "save" /\ r.id = id
      /\ r.content = cs[o].checkpoint /\ r.phase = "queued"
      /\ cs[o].checkpoint \in Values /\ cs[o].checkpoint # Absent
      /\ [value |-> cs[o].checkpoint, status |-> "ready"] \in Entry
  <2>1. /\ cs[o].checkpoint \in Values /\ cs[o].checkpoint # Absent
        /\ [value |-> cs[o].checkpoint, status |-> "ready"] \in Entry
    BY <1>2, ServiceAssumption DEF Op, Values, Entry
  <2> QED
    BY <1>2, <2>1, RequestFields
<1> HIDE DEF r, id, e
<1>5. /\ n \in Memory /\ n.sessions = m.sessions /\ n.reserved = m.reserved
      /\ n.queue = Append(m.queue, r)
      /\ n.entries = [m.entries EXCEPT ![e] = [value |-> cs[o].checkpoint, status |-> "ready"]]
      /\ n.entries[e].value = cs[o].checkpoint /\ n.entries[e].status = "ready"
      /\ \A f \in Ops \ {e} : n.entries[f] = m.entries[f]
  <2> DEFINE k == SetEntry(m, e, [value |-> cs[o].checkpoint, status |-> "ready"])
  <2>1. /\ k \in Memory /\ k.sessions = m.sessions /\ k.reserved = m.reserved
        /\ k.queue = m.queue
        /\ k.entries = [m.entries EXCEPT ![e] = [value |-> cs[o].checkpoint, status |-> "ready"]]
    BY <1>1, <1>2, <1>4, SetEntryFields
  <2> HIDE DEF k
  <2>2. n = Queued(k, r)
    BY DEF k, e
  <2> HIDE DEF n
  <2>3. /\ n \in Memory /\ n.sessions = k.sessions /\ n.reserved = k.reserved
        /\ n.entries = k.entries /\ n.queue = Append(k.queue, r)
    <3>1. k \in Memory /\ r \in Request
      BY <1>4, <2>1
    <3> QED
      BY <2>2, <3>1, QueuedFields
  <2>4. m.entries \in [Ops -> Entry]
    BY <1>1 DEF Memory
  <2> QED
    BY <1>2, <2>1, <2>3, <2>4
<1> HIDE DEF n
<1>7. /\ new \in [Ops -> Op] /\ \A p \in Ops \ {o} : new[p] = cs[p]
      /\ \A p \in K : p \in Ops \ {o} /\ p \in H /\ new[p] = cs[p]
  BY <1>1 DEF Others
<1> HIDE DEF K
<1>8. Matches(r, new[o])
  BY <1>3, <1>4 DEF Matches, SameLease, Op
<1>9. /\ QueueInv(n, new) /\ OrderInv(n, new)
      /\ DOMAIN n.queue = 1..(Len(m.queue) + 1) /\ DOMAIN m.queue = 1..Len(m.queue)
      /\ Len(m.queue) \in Nat /\ n.queue[Len(m.queue) + 1] = r
      /\ \A i \in DOMAIN m.queue :
           /\ n.queue[i] = m.queue[i] /\ m.queue[i] \in Request /\ m.queue[i].op # o
           /\ cs[m.queue[i].op] = new[m.queue[i].op]
  <2>1. QueueInv(m, cs) /\ OrderInv(m, cs) /\ MayQueue(m, cs, r) /\ o \in Ops
    BY <1>2, <1>4 DEF Sound, MayQueue
  <2>2. /\ m \in Memory /\ n \in Memory /\ n.queue = Append(m.queue, r) /\ r \in Request
        /\ r.op = o /\ r.phase = "queued"
    BY <1>1, <1>4, <1>5
  <2> QED
    BY <1>8, <2>1, <2>2, QueuedQueue
<1>10. \A i \in DOMAIN n.queue : i \in DOMAIN m.queue \/ (i = Len(m.queue) + 1 /\ n.queue[i] = r)
  BY <1>9
<1>11. ReservedInv(n)
  <2>1. ReservedInv(m)
    BY DEF Sound
  <2>2. ASSUME NEW k \in n.reserved
        PROVE  n.sessions[k] = None /\ \E i \in DOMAIN n.queue :
                 n.queue[i].kind = "load" /\ n.queue[i].id = k
    <3>1. PICK i \in DOMAIN m.queue : m.queue[i].kind = "load" /\ m.queue[i].id = k
      BY <1>5, <2>1 DEF ReservedInv
    <3>2. i \in DOMAIN n.queue /\ n.queue[i] = m.queue[i]
      BY <1>9
    <3>3. m.sessions[k] = None /\ k \in Ids
      BY <1>1, <1>5, <2>1 DEF ReservedInv, Memory
    <3> QED
      BY <1>5, <3>1, <3>2, <3>3
  <2>3. ASSUME NEW i \in DOMAIN n.queue
        PROVE  /\ n.queue[i].kind = "load" => n.queue[i].id \in n.reserved
               /\ n.queue[i].kind = "delete" => n.sessions[n.queue[i].id] = None
    <3>1. CASE i \in DOMAIN m.queue
      BY <1>5, <1>9, <2>1, <3>1 DEF ReservedInv, Request
    <3>2. CASE n.queue[i] = r
      BY <1>4, <1>5, <3>2
    <3> QED
      BY <1>10, <3>1, <3>2
  <2> QED
    BY <2>2, <2>3 DEF ReservedInv
<1>12. LeaseInv(n, new, K)
  <2>1. Born(new) = Born(cs) /\ Lessees(new) \subseteq K
    <3>1. Lessees(cs) \subseteq H
      BY DEF Sound, LeaseInv
    <3> QED
      BY <1>3, <1>7, <3>1 DEF Born, Lessees
  <2>2. \A p \in Ops : new[p].entry = cs[p].entry /\ new[p].id = cs[p].id
    BY <1>7 DEF SameLease
  <2>3. ASSUME NEW p \in K
        PROVE  LeaseOf(n, new, p)
    <3>1. LeaseOf(m, cs, p)
      BY <1>7 DEF Sound, LeaseInv
    <3>2. cs[p].entry \in Ops /\ p \in Ops /\ cs[p].entry # e /\ cs[p].id \in Ids
      BY <1>1, <1>2, <1>7, <3>1 DEF LeaseOf, Born, Op
    <3>3. new[new[p].entry].id = new[p].id
      BY <2>2, <3>1, <3>2 DEF LeaseOf
    <3>4. n.entries[cs[p].entry] = m.entries[cs[p].entry] /\ new[p] = cs[p]
      BY <1>5, <1>7, <3>2
    <3> QED
      BY <1>5, <2>1, <3>1, <3>2, <3>3, <3>4 DEF LeaseOf
  <2>4. \A p, q \in K : new[p].entry = new[q].entry => p = q
    BY <1>7 DEF Sound, LeaseInv
  <2>5. ASSUME NEW k \in Ids, n.sessions[k] # None
        PROVE  /\ n.sessions[k] \in Born(new) /\ new[n.sessions[k]].id = k
               /\ k \notin LifecycleIds /\ n.entries[n.sessions[k]].status # "ready" =>
                    \E p \in K : new[p].entry = n.sessions[k]
    <3>1. /\ m.sessions[k] \in Born(cs) /\ cs[m.sessions[k]].id = k /\ n.sessions[k] = m.sessions[k]
          /\ k \notin LifecycleIds /\ m.entries[m.sessions[k]].status # "ready" =>
               \E p \in H : cs[p].entry = m.sessions[k]
      BY <1>5, <2>5 DEF Sound, LeaseInv
    <3>2. n.sessions[k] \in Born(new) /\ new[n.sessions[k]].id = k /\ m.sessions[k] \in Ops
      BY <2>1, <2>2, <3>1 DEF Born
    <3>3. k \notin LifecycleIds /\ n.entries[n.sessions[k]].status # "ready" =>
            \E p \in K : new[p].entry = n.sessions[k]
      BY <1>1, <1>2, <1>3, <1>5, <2>2, <2>5, <3>1, <3>2
    <3> QED
      BY <3>2, <3>3
  <2> QED
    BY <2>1, <2>3, <2>4, <2>5 DEF LeaseInv
<1>13. PromiseInv(n, new, K)
  <2>1. Promised(new) = Promised(cs)
    BY <1>7 DEF Promised
  <2>2. ASSUME NEW out \in Promised(cs)
        PROVE  Kept(out, n, new, K)
    <3>1. /\ Kept(out, m, cs, H) /\ out.op # o
          /\ out.id = id /\ cs[o].rollback # "release" =>
               cs[o].rollback = "restore" /\ Restores(cs[o].checkpoint, out)
      <4>1. Alone(m, cs, H, o)
        BY LiveLease
      <4> QED
        BY <1>3, <4>1 DEF Alone
    <3>2. ASSUME NEW i \in DOMAIN n.queue, n.queue[i].id = out.id, n.queue[i].kind # "load"
          PROVE  n.queue[i].content # Absent /\ Restores(n.queue[i].content, out)
      <4>1. CASE i \in DOMAIN m.queue
        BY <1>9, <3>1, <3>2, <4>1 DEF Kept
      <4>2. CASE n.queue[i] = r
        BY <1>4, <3>1, <3>2, <4>2
      <4> QED
        BY <1>10, <4>1, <4>2
    <3>3. n.sessions[out.id] # None => Restores(n.entries[n.sessions[out.id]].value, out)
      <4>1. CASE m.sessions[out.id] = e
        <5>1. out.id \in Ids
          BY <2>2, <1>1 DEF Sound, PromiseInv, Promised, OutputOf, Output, Op
        <5> QED
          BY <1>2, <1>5, <3>1, <4>1, <5>1
      <4>2. CASE m.sessions[out.id] # e
        BY <1>1, <1>5, <3>1, <4>2 DEF Kept, Memory
      <4> QED
        BY <4>1, <4>2
    <3>4. ~durable => n.sessions[out.id] # None
      OBVIOUS
    <3> QED
      BY <1>3, <1>5, <1>7, <3>1, <3>2, <3>3, <3>4 DEF Kept
  <2>3. published \subseteq Output /\ \A out \in published : new[out.op].pc = "done" /\ out.op \notin K
    BY <1>3, <1>7 DEF Sound, PromiseInv, Output
  <2> QED
    BY <2>1, <2>2, <2>3 DEF PromiseInv
<1>14. MatchInv(n, new, K)
  <2> SUFFICES ASSUME NEW k \in Ids, n.sessions[k] # None, ~InTransit(k, n, new, K)
               PROVE  Matched(k, n)
    BY DEF MatchInv
  <2>1. CASE k = id
    <3>1. r.id = k /\ r.content = n.entries[n.sessions[k]].value
      BY <1>3, <1>4, <1>5, <2>1
    <3> QED
      BY <1>1, <1>4, <1>5, <3>1, QueuedMatches
  <2>2. CASE k # id
    <3>1. n.sessions[k] = m.sessions[k] /\ m.sessions[k] # e
      BY <1>2, <1>5, <2>2
    <3>2. ~InTransit(k, m, cs, H)
      BY <1>3, <1>7, <3>1 DEF InTransit
    <3>3. Matched(k, m)
      BY <3>1, <3>2 DEF Sound, MatchInv
    <3>4. n.entries[n.sessions[k]].value = m.entries[m.sessions[k]].value
      BY <1>5, <3>1
    <3> QED
      BY <1>1, <1>4, <1>5, <2>2, <3>3, <3>4, QueuedMatches
  <2> QED
    BY <2>1, <2>2
<1>15. Typed(n, new, K)
  BY <1>1, <1>5, <1>7 DEF Typed
<1>16. LifecycleInv(n)
  BY <1>2, <1>4, <1>9, <1>10 DEF Sound, LifecycleInv
<1> QED
  BY <1>9, <1>11, <1>12, <1>13, <1>14, <1>15, <1>16 DEF Sound, n, r, e, K

(* A rollback takes a session that the call had made out of memory, and    *)
(* deletes it.                                                             *)
LEMMA DeleteKeeps ==
  ASSUME NEW m, NEW cs, NEW H, NEW o \in H, NEW new,
         Sound(m, cs, H), durable, cs[o].pc = "done",
         cs[o].entry = m.sessions[cs[o].id], cs[o].rollback = "delete",
         Others(cs, new, o), SameLease(cs[o], new[o]), new[o].pc = "deleting"
  PROVE  Sound(Queued(Drop(m, cs[o].id), RequestOf(o, cs[o], "delete", Absent)), new, H \ {o})
<1> DEFINE id == cs[o].id
           e == cs[o].entry
           r == RequestOf(o, cs[o], "delete", Absent)
           n == Queued(Drop(m, cs[o].id), r)
           K == H \ {o}
<1>1. m \in Memory /\ cs \in [Ops -> Op] /\ H \subseteq Ops
  BY DEF Sound, Typed
<1>2. /\ o \in Ops /\ cs[o] \in Op /\ id \in Ids /\ e \in Ops
      /\ e # None /\ id \notin m.reserved /\ m.entries[e] \in Entry
      /\ \A k \in Ids : m.sessions[k] = e => k = id
      /\ \A p \in K : cs[p].entry # e
      /\ \A i \in DOMAIN m.queue : m.queue[i].id = id =>
           m.queue[i].kind # "load" /\ cs[m.queue[i].op].pc # "saving"
      /\ id \notin LifecycleIds
  <2>1. Alone(m, cs, H, o)
    BY LiveLease
  <2> QED
    BY <2>1 DEF Alone
<1>3. /\ id = cs[o].id /\ e = cs[o].entry /\ m.sessions[id] = e
      /\ K = H \ {o}
  OBVIOUS
<1>4. /\ r \in Request /\ r.op = o /\ r.kind = "delete" /\ r.id = id
      /\ r.content = Absent /\ r.phase = "queued"
  BY <1>2, RequestFields
<1> HIDE DEF r, id, e
<1>5. /\ n \in Memory /\ n.entries = m.entries /\ n.reserved = m.reserved
      /\ n.queue = Append(m.queue, r)
      /\ n.sessions = [m.sessions EXCEPT ![id] = None]
      /\ n.sessions[id] = None /\ \A k \in Ids \ {id} : n.sessions[k] = m.sessions[k]
  <2> DEFINE k == Drop(m, id)
  <2>1. /\ k \in Memory /\ k.entries = m.entries /\ k.reserved = m.reserved
        /\ k.queue = m.queue /\ k.sessions = [m.sessions EXCEPT ![id] = None]
    BY <1>1, <1>2, DropFields
  <2> HIDE DEF k
  <2>2. n = Queued(k, r)
    BY DEF k, id
  <2>3. /\ n \in Memory /\ n.sessions = k.sessions /\ n.reserved = k.reserved
        /\ n.entries = k.entries /\ n.queue = Append(k.queue, r)
    BY <1>4, <2>1, <2>2, QueuedFields
  <2> HIDE DEF n
  <2>4. m.sessions \in [Ids -> Ops \cup {None}]
    BY <1>1 DEF Memory
  <2> QED
    BY <1>2, <2>1, <2>3, <2>4
<1> HIDE DEF n
<1>7. /\ new \in [Ops -> Op] /\ \A p \in Ops \ {o} : new[p] = cs[p]
      /\ \A p \in K : p \in Ops \ {o} /\ p \in H /\ new[p] = cs[p]
  BY <1>1 DEF Others
<1> HIDE DEF K
<1>8. Matches(r, new[o])
  BY <1>3, <1>4 DEF Matches, SameLease
<1>9. /\ QueueInv(n, new) /\ OrderInv(n, new)
      /\ DOMAIN n.queue = 1..(Len(m.queue) + 1) /\ DOMAIN m.queue = 1..Len(m.queue)
      /\ Len(m.queue) \in Nat /\ n.queue[Len(m.queue) + 1] = r
      /\ \A i \in DOMAIN m.queue :
           /\ n.queue[i] = m.queue[i] /\ m.queue[i] \in Request /\ m.queue[i].op # o
           /\ cs[m.queue[i].op] = new[m.queue[i].op]
  <2>1. QueueInv(m, cs) /\ OrderInv(m, cs) /\ MayQueue(m, cs, r) /\ o \in Ops
    BY <1>2, <1>4 DEF Sound, MayQueue
  <2>2. /\ m \in Memory /\ n \in Memory /\ n.queue = Append(m.queue, r) /\ r \in Request
        /\ r.op = o /\ r.phase = "queued"
    BY <1>1, <1>4, <1>5
  <2> QED
    BY <1>8, <2>1, <2>2, QueuedQueue
<1>10. \A i \in DOMAIN n.queue : i \in DOMAIN m.queue \/ (i = Len(m.queue) + 1 /\ n.queue[i] = r)
  BY <1>9
<1>11. ReservedInv(n)
  <2>1. ReservedInv(m)
    BY DEF Sound
  <2>2. ASSUME NEW k \in n.reserved
        PROVE  n.sessions[k] = None /\ \E i \in DOMAIN n.queue :
                 n.queue[i].kind = "load" /\ n.queue[i].id = k
    <3>1. PICK i \in DOMAIN m.queue : m.queue[i].kind = "load" /\ m.queue[i].id = k
      BY <1>5, <2>1 DEF ReservedInv
    <3>2. i \in DOMAIN n.queue /\ n.queue[i] = m.queue[i]
      BY <1>9
    <3>3. m.sessions[k] = None /\ k \in Ids
      BY <1>1, <1>5, <2>1 DEF ReservedInv, Memory
    <3> QED
      BY <1>5, <3>1, <3>2, <3>3
  <2>3. ASSUME NEW i \in DOMAIN n.queue
        PROVE  /\ n.queue[i].kind = "load" => n.queue[i].id \in n.reserved
               /\ n.queue[i].kind = "delete" => n.sessions[n.queue[i].id] = None
    <3>1. CASE i \in DOMAIN m.queue
      BY <1>5, <1>9, <2>1, <3>1 DEF ReservedInv, Request
    <3>2. CASE n.queue[i] = r
      BY <1>4, <1>5, <3>2
    <3> QED
      BY <1>10, <3>1, <3>2
  <2> QED
    BY <2>2, <2>3 DEF ReservedInv
<1>12. LeaseInv(n, new, K)
  <2>1. Born(new) = Born(cs) /\ Lessees(new) \subseteq K
    <3>1. Lessees(cs) \subseteq H
      BY DEF Sound, LeaseInv
    <3> QED
      BY <1>3, <1>7, <3>1 DEF Born, Lessees
  <2>2. \A p \in Ops : new[p].entry = cs[p].entry /\ new[p].id = cs[p].id
    BY <1>7 DEF SameLease
  <2>3. ASSUME NEW p \in K
        PROVE  LeaseOf(n, new, p)
    <3>1. LeaseOf(m, cs, p)
      BY <1>7 DEF Sound, LeaseInv
    <3>2. cs[p].entry \in Ops /\ p \in Ops /\ cs[p].entry # e /\ cs[p].id \in Ids
      BY <1>1, <1>2, <1>7, <3>1 DEF LeaseOf, Born, Op
    <3>3. new[new[p].entry].id = new[p].id
      BY <2>2, <3>1, <3>2 DEF LeaseOf
    <3>4. n.entries[cs[p].entry] = m.entries[cs[p].entry] /\ new[p] = cs[p]
      BY <1>5, <1>7, <3>2
    <3> QED
      BY <1>5, <2>1, <3>1, <3>2, <3>3, <3>4 DEF LeaseOf
  <2>4. \A p, q \in K : new[p].entry = new[q].entry => p = q
    BY <1>7 DEF Sound, LeaseInv
  <2>5. ASSUME NEW k \in Ids, n.sessions[k] # None
        PROVE  /\ n.sessions[k] \in Born(new) /\ new[n.sessions[k]].id = k
               /\ k \notin LifecycleIds /\ n.entries[n.sessions[k]].status # "ready" =>
                    \E p \in K : new[p].entry = n.sessions[k]
    <3>1. /\ m.sessions[k] \in Born(cs) /\ cs[m.sessions[k]].id = k /\ n.sessions[k] = m.sessions[k]
          /\ k \notin LifecycleIds /\ m.entries[m.sessions[k]].status # "ready" =>
               \E p \in H : cs[p].entry = m.sessions[k]
      BY <1>5, <2>5 DEF Sound, LeaseInv
    <3>2. n.sessions[k] \in Born(new) /\ new[n.sessions[k]].id = k /\ m.sessions[k] \in Ops
      BY <2>1, <2>2, <3>1 DEF Born
    <3>3. k \notin LifecycleIds /\ n.entries[n.sessions[k]].status # "ready" =>
            \E p \in K : new[p].entry = n.sessions[k]
      BY <1>1, <1>2, <1>3, <1>5, <2>2, <2>5, <3>1, <3>2
    <3> QED
      BY <3>2, <3>3
  <2> QED
    BY <2>1, <2>3, <2>4, <2>5 DEF LeaseInv
<1>13. PromiseInv(n, new, K)
  <2>1. Promised(new) = Promised(cs)
    BY <1>7 DEF Promised
  <2>2. ASSUME NEW out \in Promised(cs)
        PROVE  Kept(out, n, new, K)
    <3>1. /\ Kept(out, m, cs, H) /\ out.op # o
          /\ out.id = id /\ cs[o].rollback # "release" =>
               cs[o].rollback = "restore" /\ Restores(cs[o].checkpoint, out)
      <4>1. Alone(m, cs, H, o)
        BY LiveLease
      <4> QED
        BY <1>3, <4>1 DEF Alone
    <3>2. ASSUME NEW i \in DOMAIN n.queue, n.queue[i].id = out.id, n.queue[i].kind # "load"
          PROVE  n.queue[i].content # Absent /\ Restores(n.queue[i].content, out)
      <4>1. CASE i \in DOMAIN m.queue
        BY <1>9, <3>1, <3>2, <4>1 DEF Kept
      <4>2. CASE n.queue[i] = r
        BY <1>3, <1>4, <3>1, <3>2, <4>2
      <4> QED
        BY <1>10, <4>1, <4>2
    <3>3. out.id \in Ids /\ out.id # id
      <4>1. out.id \in Ids
        BY <2>2, <1>1 DEF Sound, PromiseInv, Promised, OutputOf, Output, Op
      <4> QED
        BY <1>3, <3>1, <4>1
    <3>4. n.sessions[out.id] = m.sessions[out.id]
      BY <1>5, <3>3
    <3> QED
      BY <1>3, <1>5, <1>7, <3>1, <3>2, <3>3, <3>4 DEF Kept
  <2>3. published \subseteq Output /\ \A out \in published : new[out.op].pc = "done" /\ out.op \notin K
    BY <1>3, <1>7 DEF Sound, PromiseInv, Output
  <2> QED
    BY <2>1, <2>2, <2>3 DEF PromiseInv
<1>14. MatchInv(n, new, K)
  <2> SUFFICES ASSUME NEW k \in Ids, n.sessions[k] # None, ~InTransit(k, n, new, K)
               PROVE  Matched(k, n)
    BY DEF MatchInv
  <2>1. k # id
    BY <1>5
  <2>2. n.sessions[k] = m.sessions[k] /\ m.sessions[k] # e
    BY <1>2, <1>5, <2>1
  <2>3. ~InTransit(k, m, cs, H)
    BY <1>3, <1>7, <2>2 DEF InTransit
  <2>4. Matched(k, m)
    BY <2>2, <2>3 DEF Sound, MatchInv
  <2>5. /\ m \in Memory /\ n \in Memory /\ n.queue = Append(m.queue, r) /\ r \in Request
        /\ r.id # k /\ n.entries[n.sessions[k]].value = m.entries[m.sessions[k]].value
    BY <1>1, <1>4, <1>5, <2>1, <2>2
  <2> QED
    BY <2>4, <2>5, QueuedMatches
<1>15. Typed(n, new, K)
  BY <1>1, <1>5, <1>7 DEF Typed
<1>16. LifecycleInv(n)
  BY <1>2, <1>4, <1>9, <1>10 DEF Sound, LifecycleInv
<1> QED
  BY <1>9, <1>11, <1>12, <1>13, <1>14, <1>15, <1>16 DEF Sound, n, r, e, K

(* A change that touches no request.                                       *)
LEMMA QueueStays ==
  ASSUME NEW m \in Memory, NEW n \in Memory, NEW cs, NEW o \in Ops, NEW new,
         QueueInv(m, cs), OrderInv(m, cs), n.queue = m.queue, Others(cs, new, o),
         cs[o].pc \in {"new", "admitted", "done", "publishing"},
         new[o].pc \in {"new", "admitted", "done", "publishing"}
  PROVE  /\ QueueInv(n, new) /\ OrderInv(n, new)
         /\ \A i \in DOMAIN m.queue : m.queue[i].op # o /\ m.queue[i] \in Request
<1>1. \A i \in DOMAIN m.queue : m.queue[i] \in Request
  BY DEF Memory
<1>2. /\ \A i \in DOMAIN m.queue : Matches(m.queue[i], cs[m.queue[i].op])
      /\ \A p \in Ops \ {o} : new[p] = cs[p]
  BY DEF QueueInv, Others
<1>3. ASSUME NEW i \in DOMAIN m.queue
      PROVE  m.queue[i].op # o /\ new[m.queue[i].op] = cs[m.queue[i].op]
  <2>1. cs[m.queue[i].op].pc \in {"loading", "saving", "unsaving", "deleting"}
    BY <1>1, <1>2 DEF Matches, Request
  <2>2. m.queue[i].op # o /\ m.queue[i].op \in Ops
    BY <1>1, <2>1 DEF Request
  <2> QED
    BY <1>2, <2>2
<1>4. QueueInv(n, new)
  <2>1. ASSUME NEW p \in Ops, new[p].pc \in {"loading", "saving", "unsaving", "deleting"}
        PROVE  \E i \in DOMAIN n.queue : n.queue[i].op = p
    <3>1. cs[p].pc \in {"loading", "saving", "unsaving", "deleting"}
      BY <1>2, <2>1
    <3> QED
      BY <3>1 DEF QueueInv
  <2> QED
    BY <1>3, <2>1 DEF QueueInv
<1>5. OrderInv(n, new)
  BY <1>3 DEF OrderInv
<1> QED
  BY <1>1, <1>3, <1>4, <1>5

LEMMA MatchStays ==
  ASSUME NEW m, NEW n, NEW id, n.queue = m.queue,
         n.entries[n.sessions[id]].value = m.entries[m.sessions[id]].value
  PROVE  Matched(id, m) <=> Matched(id, n)
BY DEF Matched, LastOf

(* A leasing call goes on, to publishing or in transit.                    *)
LEMMA MoveKeeps ==
  ASSUME NEW m, NEW cs, NEW H, NEW o \in H, NEW new,
         Sound(m, cs, H), cs[o].pc \in {"done", "publishing"}, Others(cs, new, o),
         SameLease(cs[o], new[o]), new[o].pc \in {"done", "publishing"},
         new[o].pc = "publishing" =>
           /\ cs[o].rollback # "release" =>
                /\ m.entries[cs[o].entry].value = Grown(cs[o].checkpoint, o)
                /\ durable /\ cs[o].entry = m.sessions[cs[o].id] => Matched(cs[o].id, m)
           /\ cs[o].kind = "anonymize" => Kept(OutputOf(o, cs[o]), m, cs, H)
  PROVE  Sound(m, new, H)
<1>1. /\ m \in Memory /\ cs \in [Ops -> Op] /\ H \subseteq Ops /\ o \in Ops
      /\ cs[o].id \in Ids /\ LeaseOf(m, cs, o)
  BY DEF Sound, Typed, Op, LeaseInv
<1>2. new \in [Ops -> Op] /\ \A p \in Ops \ {o} : new[p] = cs[p]
  BY DEF Others
<1>3. /\ QueueInv(m, new) /\ OrderInv(m, new)
      /\ \A i \in DOMAIN m.queue : m.queue[i].op # o /\ m.queue[i] \in Request
  BY <1>1, QueueStays DEF Sound
<1>4. LeaseInv(m, new, H)
  <2>1. Born(new) = Born(cs) /\ Lessees(new) \subseteq H
    <3>1. Lessees(cs) \subseteq H
      BY DEF Sound, LeaseInv
    <3> QED
      BY <1>1, <1>2, <3>1 DEF Born, Lessees
  <2>2. \A p \in Ops : new[p].entry = cs[p].entry /\ new[p].id = cs[p].id
    BY <1>2 DEF SameLease
  <2>3. ASSUME NEW p \in H
        PROVE  LeaseOf(m, new, p)
    <3>1. LeaseOf(m, cs, p)
      BY DEF Sound, LeaseInv
    <3>2. cs[p].entry \in Ops /\ p \in Ops
      BY <1>1, <3>1 DEF LeaseOf, Born
    <3>3. new[new[p].entry].id = new[p].id
      BY <2>2, <3>1, <3>2 DEF LeaseOf
    <3>4. CASE p = o
      BY <2>1, <3>1, <3>3, <3>4 DEF LeaseOf, SameLease
    <3>5. CASE p # o
      BY <1>2, <2>1, <3>1, <3>2, <3>3, <3>5 DEF LeaseOf
    <3> QED
      BY <3>4, <3>5
  <2> QED
    BY <1>1, <2>1, <2>2, <2>3 DEF Sound, LeaseInv, Memory, Born
<1>5. PromiseInv(m, new, H)
  <2>1. ASSUME NEW out \in Promised(new)
        PROVE  Kept(out, m, cs, H)
    <3>1. CASE out \in Promised(cs)
      BY <3>1 DEF Sound, PromiseInv
    <3>2. CASE out \notin Promised(cs)
      <4>1. PICK p \in Ops : new[p].pc = "publishing" /\ new[p].kind = "anonymize"
                             /\ out = OutputOf(p, new[p])
        BY <2>1, <3>2 DEF Promised
      <4>2. p = o
        BY <1>2, <3>2, <4>1 DEF Promised
      <4>3. OutputOf(o, new[o]) = OutputOf(o, cs[o])
        BY DEF OutputOf, SameLease
      <4> QED
        BY <4>1, <4>2, <4>3 DEF SameLease
    <3> QED
      BY <3>1, <3>2
  <2>2. ASSUME NEW out, Kept(out, m, cs, H)
        PROVE  Kept(out, m, new, H)
    <3>1. \A p \in H : new[p].id = cs[p].id /\ new[p].entry = cs[p].entry
             /\ new[p].rollback = cs[p].rollback /\ new[p].checkpoint = cs[p].checkpoint
      BY <1>1, <1>2 DEF SameLease
    <3> QED
      BY <2>2, <3>1 DEF Kept
  <2>3. published \subseteq Output /\ \A out \in published : new[out.op].pc = "done" /\ out.op \notin H
    BY <1>2 DEF Sound, PromiseInv, Output
  <2> QED
    BY <2>1, <2>2, <2>3 DEF PromiseInv
<1>6. MatchInv(m, new, H)
  <2> SUFFICES ASSUME durable, NEW k \in Ids, m.sessions[k] # None, ~InTransit(k, m, new, H)
               PROVE  Matched(k, m)
    BY DEF MatchInv
  <2>1. CASE InTransit(k, m, cs, H)
    <3>1. PICK p \in H : cs[p].pc = "done" /\ cs[p].rollback # "release"
                         /\ cs[p].entry = m.sessions[k]
      BY <2>1 DEF InTransit
    <3>2. p = o /\ new[o].pc = "publishing"
      BY <1>1, <1>2, <3>1 DEF InTransit, SameLease
    <3>3. k = cs[o].id
      BY <1>1, <3>1, <3>2 DEF Sound, LeaseInv, LeaseOf
    <3> QED
      BY <3>1, <3>2, <3>3
  <2>2. CASE ~InTransit(k, m, cs, H)
    BY <2>2 DEF Sound, MatchInv
  <2> QED
    BY <2>1, <2>2
<1>7. Typed(m, new, H) /\ LifecycleInv(m) /\ ReservedInv(m)
  BY <1>1, <1>2 DEF Sound, Typed
<1> QED
  BY <1>3, <1>4, <1>5, <1>6, <1>7 DEF Sound

(* A call ends its lease: its entry is ready with a value that all outputs *)
(* restore from and the store has or will have, or was dropped before.     *)
LEMMA LetGoKeeps ==
  ASSUME NEW m, NEW cs, NEW H, NEW o \in H, NEW new, NEW n \in Memory,
         Sound(m, cs, H), cs[o].pc = "done", Others(cs, new, o),
         new[o].id = cs[o].id, new[o].entry = cs[o].entry, new[o].pc = "done",
         n.sessions = m.sessions, n.reserved = m.reserved, n.queue = m.queue,
         \A f \in Ops \ {cs[o].entry} : n.entries[f] = m.entries[f],
         m.sessions[cs[o].id] = cs[o].entry =>
           /\ n.entries[cs[o].entry].status = "ready"
           /\ \A out \in Promised(cs) : out.id = cs[o].id =>
                Restores(n.entries[cs[o].entry].value, out)
           /\ durable => Matched(cs[o].id, n)
  PROVE  Sound(n, new, H \ {o})
<1> DEFINE id == cs[o].id
           e == cs[o].entry
           K == H \ {o}
<1>1. /\ m \in Memory /\ cs \in [Ops -> Op] /\ H \subseteq Ops /\ o \in Ops
      /\ id \in Ids /\ LeaseOf(m, cs, o) /\ e \in Ops /\ cs[e].id = id /\ e # None
  BY ServiceAssumption DEF Sound, Typed, Op, LeaseInv, LeaseOf, Born
<1>2. /\ new \in [Ops -> Op] /\ \A p \in Ops \ {o} : new[p] = cs[p]
      /\ \A p \in K : p \in Ops \ {o} /\ p \in H /\ new[p] = cs[p]
  BY <1>1 DEF Others
<1>3. /\ QueueInv(n, new) /\ OrderInv(n, new)
      /\ \A i \in DOMAIN m.queue : m.queue[i].op # o /\ m.queue[i] \in Request
  BY <1>1, QueueStays DEF Sound
<1>4. /\ \A p \in K : cs[p].entry # e
      /\ \A k \in Ids : m.sessions[k] = e => k = id
      /\ \A k \in Ids : m.sessions[k] # None => m.sessions[k] \in Ops
      /\ \A f \in Ops \ {e} : n.entries[f] = m.entries[f]
      /\ m.sessions[id] = e => n.entries[e].status = "ready"
  <2>1. \A k \in Ids : m.sessions[k] # None => cs[m.sessions[k]].id = k
    BY DEF Sound, LeaseInv
  <2>2. \A p \in K : cs[p].entry # e
    BY DEF Sound, LeaseInv
  <2> QED
    BY <1>1, <2>1, <2>2 DEF Memory
<1>5. LeaseInv(n, new, K)
  <2>1. Born(new) = Born(cs) /\ Lessees(new) \subseteq K
    <3>1. Lessees(cs) \subseteq H
      BY DEF Sound, LeaseInv
    <3> QED
      BY <1>1, <1>2, <3>1 DEF Born, Lessees
  <2>2. \A p \in Ops : new[p].entry = cs[p].entry /\ new[p].id = cs[p].id
    BY <1>2
  <2>3. ASSUME NEW p \in K
        PROVE  LeaseOf(n, new, p)
    <3>1. LeaseOf(m, cs, p)
      BY DEF Sound, LeaseInv
    <3>2. cs[p].entry \in Ops \ {e}
      BY <1>4, <3>1 DEF LeaseOf, Born
    <3>3. new[new[p].entry].id = new[p].id /\ new[p] = cs[p]
      BY <1>2, <2>2, <3>1, <3>2 DEF LeaseOf
    <3>4. n.entries[cs[p].entry] = m.entries[cs[p].entry]
      BY <1>4, <3>2
    <3> QED
      BY <2>1, <3>1, <3>2, <3>3, <3>4 DEF LeaseOf
  <2>4. \A p, q \in K : new[p].entry = new[q].entry => p = q
    BY <1>2 DEF Sound, LeaseInv
  <2>5. ASSUME NEW k \in Ids, n.sessions[k] # None
        PROVE  /\ n.sessions[k] \in Born(new) /\ new[n.sessions[k]].id = k
               /\ k \notin LifecycleIds /\ n.entries[n.sessions[k]].status # "ready" =>
                    \E p \in K : new[p].entry = n.sessions[k]
    <3>1. /\ m.sessions[k] \in Born(cs) /\ cs[m.sessions[k]].id = k
          /\ k \notin LifecycleIds /\ m.entries[m.sessions[k]].status # "ready" =>
               \E p \in H : cs[p].entry = m.sessions[k]
      BY <2>5 DEF Sound, LeaseInv
    <3>2. n.sessions[k] \in Born(new) /\ new[n.sessions[k]].id = k /\ m.sessions[k] \in Ops
      BY <2>1, <2>2, <3>1 DEF Born
    <3>3. k \notin LifecycleIds /\ n.entries[n.sessions[k]].status # "ready" =>
            \E p \in K : new[p].entry = n.sessions[k]
      <4>1. CASE m.sessions[k] = e
        BY <1>4, <4>1
      <4>2. CASE m.sessions[k] # e
        BY <1>1, <1>2, <1>4, <3>1, <3>2, <4>2
      <4> QED
        BY <4>1, <4>2
    <3> QED
      BY <3>2, <3>3
  <2> QED
    BY <2>1, <2>3, <2>4, <2>5 DEF LeaseInv
<1>6. PromiseInv(n, new, K)
  <2>1. Promised(new) = Promised(cs)
    BY <1>2 DEF Promised
  <2>2. ASSUME NEW out \in Promised(cs)
        PROVE  Kept(out, n, new, K)
    <3>1. Kept(out, m, cs, H)
      BY DEF Sound, PromiseInv
    <3>2. out.id \in Ids
      BY <1>1 DEF Sound, PromiseInv, Promised, OutputOf, Output, Op
    <3>3. n.sessions[out.id] # None => Restores(n.entries[n.sessions[out.id]].value, out)
      <4>1. CASE m.sessions[out.id] = e
        BY <1>4, <3>2, <4>1
      <4>2. CASE m.sessions[out.id] # e
        BY <1>4, <3>1, <3>2, <4>2 DEF Kept
      <4> QED
        BY <4>1, <4>2
    <3> QED
      BY <1>2, <3>1, <3>3 DEF Kept
  <2>3. published \subseteq Output /\ \A out \in published : new[out.op].pc = "done" /\ out.op \notin K
    BY <1>2 DEF Sound, PromiseInv, Output
  <2> QED
    BY <2>1, <2>2, <2>3 DEF PromiseInv
<1>7. MatchInv(n, new, K)
  <2> SUFFICES ASSUME durable, NEW k \in Ids, n.sessions[k] # None, ~InTransit(k, n, new, K)
               PROVE  Matched(k, n)
    BY DEF MatchInv
  <2>1. CASE m.sessions[k] = e
    BY <1>4, <2>1
  <2>2. CASE m.sessions[k] # e
    <3>1. ~InTransit(k, m, cs, H)
      BY <1>2, <2>2 DEF InTransit
    <3>2. Matched(k, m)
      BY <3>1 DEF Sound, MatchInv
    <3>3. n.entries[n.sessions[k]].value = m.entries[m.sessions[k]].value
      BY <1>4, <2>2
    <3> QED
      BY <3>2, <3>3, MatchStays
  <2> QED
    BY <2>1, <2>2
<1>8. Typed(n, new, K) /\ LifecycleInv(n) /\ ReservedInv(n)
  BY <1>1, <1>2 DEF Sound, Typed, LifecycleInv, ReservedInv
<1> QED
  BY <1>3, <1>5, <1>6, <1>7, <1>8 DEF Sound

(* Without a store, a rollback takes a new session out of memory.          *)
LEMMA ForgetKeeps ==
  ASSUME NEW m, NEW cs, NEW H, NEW o \in H, NEW new,
         Sound(m, cs, H), ~durable, cs[o].pc = "done", cs[o].rollback = "delete",
         cs[o].entry = m.sessions[cs[o].id],
         Others(cs, new, o), SameLease(cs[o], new[o]), new[o].pc = "done"
  PROVE  Sound(Drop(m, cs[o].id), new, H \ {o})
<1> DEFINE id == cs[o].id
           e == cs[o].entry
           K == H \ {o}
           n == Drop(m, id)
<1>1. /\ m \in Memory /\ cs \in [Ops -> Op] /\ H \subseteq Ops /\ o \in Ops
      /\ id \in Ids
  BY DEF Sound, Typed, Op
<1>2. /\ \A k \in Ids : m.sessions[k] = e => k = id
      /\ \A p \in K : cs[p].entry # e
      /\ \A out \in Promised(cs) : Kept(out, m, cs, H) /\ out.id # id
  <2>1. Alone(m, cs, H, o)
    BY LiveLease
  <2> QED
    BY <2>1 DEF Alone
<1>3. /\ n \in Memory /\ n.entries = m.entries /\ n.reserved = m.reserved
      /\ n.queue = m.queue /\ n.queue = <<>>
      /\ n.sessions[id] = None /\ \A k \in Ids \ {id} : n.sessions[k] = m.sessions[k]
  <2>1. /\ n \in Memory /\ n.entries = m.entries /\ n.reserved = m.reserved
        /\ n.queue = m.queue /\ n.sessions = [m.sessions EXCEPT ![id] = None]
    BY <1>1, DropFields
  <2> HIDE DEF n
  <2>2. m.sessions \in [Ids -> Ops \cup {None}] /\ m.queue = <<>>
    BY <1>1 DEF Sound, QueueInv, Memory
  <2> QED
    BY <1>1, <2>1, <2>2
<1> HIDE DEF n
<1>4. /\ new \in [Ops -> Op] /\ \A p \in Ops \ {o} : new[p] = cs[p]
      /\ \A p \in K : p \in Ops \ {o} /\ p \in H /\ new[p] = cs[p]
  BY <1>1 DEF Others
<1>5. QueueInv(n, new) /\ OrderInv(n, new)
  BY <1>1, <1>3, QueueStays DEF Sound
<1>6. LeaseInv(n, new, K)
  <2>1. Born(new) = Born(cs) /\ Lessees(new) \subseteq K
    <3>1. Lessees(cs) \subseteq H
      BY DEF Sound, LeaseInv
    <3> QED
      BY <1>1, <1>4, <3>1 DEF Born, Lessees
  <2>2. \A p \in Ops : new[p].entry = cs[p].entry /\ new[p].id = cs[p].id
    BY <1>4 DEF SameLease
  <2>3. ASSUME NEW p \in K
        PROVE  LeaseOf(n, new, p)
    <3>1. LeaseOf(m, cs, p)
      BY DEF Sound, LeaseInv
    <3>2. cs[p].entry \in Ops \ {e} /\ p \in Ops /\ cs[p].id \in Ids
      BY <1>1, <1>2, <1>4, <3>1 DEF LeaseOf, Born, Op
    <3>3. new[new[p].entry].id = new[p].id /\ new[p] = cs[p]
      BY <1>4, <2>2, <3>1, <3>2 DEF LeaseOf
    <3>4. cs[p].id # id /\ cs[p].pc # "saving"
      BY <3>1, <3>2 DEF LeaseOf
    <3> QED
      BY <1>3, <2>1, <3>1, <3>2, <3>3, <3>4 DEF LeaseOf
  <2> QED
    BY <1>1, <1>2, <1>3, <1>4, <2>1, <2>2, <2>3 DEF Sound, LeaseInv, Memory, Born
<1>7. PromiseInv(n, new, K)
  <2>1. Promised(new) = Promised(cs)
    BY <1>4 DEF Promised
  <2>2. ASSUME NEW out \in Promised(cs)
        PROVE  Kept(out, n, new, K)
    <3>1. out.id \in Ids
      BY <1>1 DEF Sound, PromiseInv, Promised, OutputOf, Output, Op
    <3>2. Kept(out, m, cs, H) /\ n.sessions[out.id] = m.sessions[out.id]
      BY <1>2, <1>3, <3>1
    <3> QED
      BY <1>3, <1>4, <3>2 DEF Kept
  <2>3. published \subseteq Output /\ \A out \in published : new[out.op].pc = "done" /\ out.op \notin K
    BY <1>4 DEF Sound, PromiseInv, Output
  <2> QED
    BY <2>1, <2>2, <2>3 DEF PromiseInv
<1>8. Typed(n, new, K) /\ LifecycleInv(n) /\ ReservedInv(n) /\ MatchInv(n, new, K)
  <2>1. n.reserved = {}
    BY <1>1, <1>3 DEF Sound, ReservedInv
  <2> QED
    BY <1>1, <1>3, <1>4, <2>1 DEF Typed, LifecycleInv, ReservedInv, MatchInv
<1> QED
  BY <1>5, <1>6, <1>7, <1>8 DEF Sound, n

(* A call leases an entry that is ready.                                   *)
LEMMA LeaseKeeps ==
  ASSUME NEW m, NEW cs, NEW H, NEW o \in Ops, NEW new, NEW n \in Memory,
         Sound(m, cs, H), cs[o].pc = "admitted", Others(cs, new, o),
         new[o].id = cs[o].id, new[o].pc = "done", new[o].entry = m.sessions[cs[o].id],
         m.sessions[cs[o].id] # None,
         m.entries[m.sessions[cs[o].id]].status = "ready",
         new[o].kind = "restore" <=> new[o].rollback = "release",
         new[o].rollback # "release" =>
           /\ new[o].rollback = "restore"
           /\ new[o].checkpoint = m.entries[m.sessions[cs[o].id]].value
           /\ durable => cs[o].id \notin LifecycleIds,
         n.sessions = m.sessions, n.reserved = m.reserved, n.queue = m.queue,
         \A f \in Ops : n.entries[f].value = m.entries[f].value,
         \A f \in Ops \ {m.sessions[cs[o].id]} : n.entries[f].status = m.entries[f].status,
         n.entries[m.sessions[cs[o].id]].status # "ready"
  PROVE  Sound(n, new, H \cup {o})
<1> DEFINE id == cs[o].id
           e == m.sessions[id]
           K == H \cup {o}
<1>1. /\ m \in Memory /\ cs \in [Ops -> Op] /\ H \subseteq Ops
      /\ id \in Ids /\ e \in Ops /\ e \in Born(cs) /\ cs[e].id = id
      /\ \A k \in Ids : m.sessions[k] # None => m.sessions[k] \in Ops
  BY DEF Sound, Typed, Op, LeaseInv, Memory
<1>2. /\ new \in [Ops -> Op] /\ \A p \in Ops \ {o} : new[p] = cs[p]
  BY DEF Others
<1>3. /\ QueueInv(n, new) /\ OrderInv(n, new)
      /\ \A i \in DOMAIN m.queue : m.queue[i].op # o /\ m.queue[i] \in Request
  BY <1>1, QueueStays DEF Sound
<1>4. /\ o \notin H /\ \A p \in H : cs[p].entry # e /\ p \in Ops \ {o} /\ new[p] = cs[p]
      /\ e # o
  <2>1. \A p \in H : LeaseOf(m, cs, p)
    BY DEF Sound, LeaseInv
  <2> QED
    BY <1>1, <1>2, <2>1 DEF LeaseOf, Born
<1>5. LeaseInv(n, new, K)
  <2>1. Born(cs) \subseteq Born(new) /\ Lessees(new) \subseteq K
    <3>1. Lessees(cs) \subseteq H
      BY DEF Sound, LeaseInv
    <3> QED
      BY <1>2, <3>1 DEF Born, Lessees
  <2>2. \A p \in Ops : new[p].id = cs[p].id
    BY <1>2
  <2>3. ASSUME NEW p \in H
        PROVE  LeaseOf(n, new, p)
    <3>1. LeaseOf(m, cs, p)
      BY DEF Sound, LeaseInv
    <3>2. cs[p].entry \in Ops \ {e}
      BY <1>4, <3>1 DEF LeaseOf, Born
    <3>3. new[new[p].entry].id = new[p].id /\ new[p] = cs[p]
      BY <1>4, <2>2, <3>1, <3>2 DEF LeaseOf
    <3> QED
      BY <2>1, <3>1, <3>2, <3>3 DEF LeaseOf
  <2>4. LeaseOf(n, new, o)
    BY <1>1, <2>1, <2>2 DEF LeaseOf
  <2>5. \A p, q \in K : new[p].entry = new[q].entry => p = q
    BY <1>4 DEF Sound, LeaseInv
  <2>6. ASSUME NEW k \in Ids, n.sessions[k] # None
        PROVE  /\ n.sessions[k] \in Born(new) /\ new[n.sessions[k]].id = k
               /\ k \notin LifecycleIds /\ n.entries[n.sessions[k]].status # "ready" =>
                    \E p \in K : new[p].entry = n.sessions[k]
    <3>1. /\ m.sessions[k] \in Born(cs) /\ cs[m.sessions[k]].id = k
          /\ k \notin LifecycleIds /\ m.entries[m.sessions[k]].status # "ready" =>
               \E p \in H : cs[p].entry = m.sessions[k]
      BY <2>6 DEF Sound, LeaseInv
    <3>2. n.sessions[k] \in Born(new) /\ new[n.sessions[k]].id = k /\ m.sessions[k] \in Ops
      BY <2>1, <2>2, <3>1 DEF Born
    <3>3. k \notin LifecycleIds /\ n.entries[n.sessions[k]].status # "ready" =>
            \E p \in K : new[p].entry = n.sessions[k]
      <4>1. CASE m.sessions[k] = e
        BY <4>1
      <4>2. CASE m.sessions[k] # e
        BY <1>4, <3>1, <3>2, <4>2
      <4> QED
        BY <4>1, <4>2
    <3> QED
      BY <3>2, <3>3
  <2> QED
    BY <2>1, <2>3, <2>4, <2>5, <2>6 DEF LeaseInv
<1>6. PromiseInv(n, new, K)
  <2>1. Promised(new) = Promised(cs)
    BY <1>2 DEF Promised
  <2>2. ASSUME NEW out \in Promised(cs)
        PROVE  Kept(out, n, new, K)
    <3>1. Kept(out, m, cs, H)
      BY DEF Sound, PromiseInv
    <3>2. out.id \in Ids
      BY <1>1 DEF Sound, PromiseInv, Promised, OutputOf, Output, Op
    <3>3. n.sessions[out.id] # None => Restores(n.entries[n.sessions[out.id]].value, out)
      BY <1>1, <3>1, <3>2 DEF Kept
    <3>4. ASSUME NEW p \in K \ {out.op}, new[p].id = out.id,
                 new[p].entry = n.sessions[out.id], new[p].rollback # "release"
          PROVE  new[p].rollback = "restore" /\ Restores(new[p].checkpoint, out)
      <4>1. CASE p = o
        BY <3>1, <3>4, <4>1 DEF Kept
      <4>2. CASE p # o
        BY <1>4, <3>1, <3>4, <4>2 DEF Kept
      <4> QED
        BY <4>1, <4>2
    <3> QED
      BY <3>1, <3>3, <3>4 DEF Kept
  <2>3. published \subseteq Output /\ \A out \in published : new[out.op].pc = "done" /\ out.op \notin K
    BY <1>2 DEF Sound, PromiseInv, Output
  <2> QED
    BY <2>1, <2>2, <2>3 DEF PromiseInv
<1>7. MatchInv(n, new, K)
  <2> SUFFICES ASSUME durable, NEW k \in Ids, n.sessions[k] # None, ~InTransit(k, n, new, K)
               PROVE  Matched(k, n)
    BY DEF MatchInv
  <2>1. ~InTransit(k, m, cs, H)
    BY <1>4 DEF InTransit
  <2>2. Matched(k, m)
    BY <2>1 DEF Sound, MatchInv
  <2>3. n.entries[n.sessions[k]].value = m.entries[m.sessions[k]].value
    BY <1>1
  <2> QED
    BY <2>2, <2>3, MatchStays
<1>8. Typed(n, new, K) /\ LifecycleInv(n) /\ ReservedInv(n)
  BY <1>1, <1>2 DEF Sound, Typed, LifecycleInv, ReservedInv
<1> QED
  BY <1>3, <1>5, <1>6, <1>7, <1>8 DEF Sound

(* A call puts an entry for its session into memory, and leases it unless  *)
(* the session has a lifecycle.                                            *)
LEMMA CreateKeeps ==
  ASSUME NEW m, NEW cs, NEW H, NEW o \in Ops, NEW new, NEW n \in Memory, NEW K,
         NEW content \in Values \cup {Absent},
         Sound(m, cs, H), shelf \in atRisk, cs[o].pc = "admitted", Others(cs, new, o),
         new[o].id = cs[o].id, new[o].pc = "done",
         m.sessions[cs[o].id] = None, cs[o].id \notin m.reserved,
         \A i \in DOMAIN m.queue : m.queue[i].id # cs[o].id,
         IF durable THEN content = shelf[cs[o].id] ELSE content = Absent,
         n.sessions = [m.sessions EXCEPT ![cs[o].id] = o],
         n.reserved = m.reserved, n.queue = m.queue,
         \A f \in Ops \ {o} : n.entries[f] = m.entries[f],
         n.entries[o].value = NewValue(content), n.entries[o].status # "ready",
         \/ K = H /\ durable /\ cs[o].id \in LifecycleIds
         \/ /\ K = H \cup {o} /\ new[o].entry = o
            /\ new[o].kind = "restore" <=> new[o].rollback = "release"
            /\ content = Absent => new[o].rollback = "delete"
            /\ content # Absent => new[o].rollback \in {"restore", "release"}
            /\ new[o].rollback = "restore" => new[o].checkpoint = content
            /\ durable /\ new[o].rollback # "release" => cs[o].id \notin LifecycleIds
  PROVE  Sound(n, new, K)
<1> DEFINE id == cs[o].id
<1>1. /\ m \in Memory /\ cs \in [Ops -> Op] /\ H \subseteq Ops /\ id \in Ids
      /\ m.sessions \in [Ids -> Ops \cup {None}] /\ o # None
  BY ServiceAssumption DEF Sound, Typed, Op, Memory
<1>2. /\ new \in [Ops -> Op] /\ \A p \in Ops \ {o} : new[p] = cs[p]
      /\ new[o].id = id /\ new[o].pc = "done"
  BY DEF Others
<1>3. /\ n.sessions[id] = o /\ \A k \in Ids \ {id} : n.sessions[k] = m.sessions[k]
      /\ m.sessions[id] = None
  BY <1>1
<1>4. /\ o \notin H /\ o \notin Born(cs) /\ H \subseteq K /\ K \subseteq H \cup {o}
      /\ \A p \in H : p \in Ops \ {o} /\ new[p] = cs[p] /\ LeaseOf(m, cs, p)
                      /\ cs[p].entry \in Ops \ {o} /\ cs[p].pc # "new"
  <2>1. \A p \in H : LeaseOf(m, cs, p)
    BY DEF Sound, LeaseInv
  <2>2. o \notin H /\ o \notin Born(cs)
    BY <2>1 DEF LeaseOf, Born
  <2> QED
    BY <1>1, <1>2, <2>1, <2>2 DEF LeaseOf, Born
<1>5. /\ QueueInv(n, new) /\ OrderInv(n, new)
      /\ \A i \in DOMAIN m.queue : m.queue[i].op # o /\ m.queue[i] \in Request
  BY <1>1, QueueStays DEF Sound
<1>6. content # Absent \/ (K = H \cup {o} /\ new[o].rollback = "delete")
  BY DEF Sound, LifecycleInv
<1>7. ASSUME NEW p \in H, cs[p].id = id
      PROVE  cs[p].pc # "saving" /\ durable
  <2>1. ASSUME cs[p].pc = "saving"
        PROVE  FALSE
    <3>1. PICK i \in DOMAIN m.queue : m.queue[i].op = p
      BY <1>4, <2>1 DEF Sound, QueueInv
    <3>2. m.queue[i].id = cs[p].id
      BY <3>1 DEF Sound, QueueInv, Matches
    <3> QED
      BY <1>7, <3>1, <3>2
  <2>2. durable
    BY <1>1, <1>3, <1>4, <1>7, ServiceAssumption DEF LeaseOf
  <2> QED
    BY <2>1, <2>2
<1>8. LeaseInv(n, new, K)
  <2>1. /\ Born(cs) \subseteq Born(new) /\ o \in Born(new) /\ Lessees(new) \subseteq K
        /\ Born(new) \subseteq Ops
    <3>1. Lessees(cs) \subseteq H
      BY DEF Sound, LeaseInv
    <3> QED
      BY <1>2, <1>4, <3>1 DEF Born, Lessees
  <2>2. \A p \in Ops : new[p].id = cs[p].id
    BY <1>2
  <2>3. ASSUME NEW p \in H
        PROVE  LeaseOf(n, new, p)
    <3>1. /\ LeaseOf(m, cs, p) /\ cs[p].entry \in Ops \ {o} /\ new[p] = cs[p]
          /\ cs[p].id \in Ids
      BY <1>1, <1>4 DEF Op
    <3>2. new[new[p].entry].id = new[p].id
      BY <2>2, <3>1 DEF LeaseOf
    <3>3. cs[p].id # id => n.sessions[cs[p].id] = m.sessions[cs[p].id]
      BY <1>3, <3>1
    <3> QED
      BY <1>7, <2>1, <3>1, <3>2, <3>3 DEF LeaseOf
  <2>4. o \in K => LeaseOf(n, new, o)
    BY <1>2, <1>3, <1>4, <2>1 DEF LeaseOf
  <2>5. \A p, q \in K : new[p].entry = new[q].entry => p = q
    <3>1. \A p, q \in H : cs[p].entry = cs[q].entry => p = q
      BY DEF Sound, LeaseInv
    <3>2. o \in K => new[o].entry = o
      BY <1>4
    <3> QED
      BY <1>4, <3>1, <3>2
  <2>6. ASSUME NEW k \in Ids, n.sessions[k] # None
        PROVE  /\ n.sessions[k] \in Born(new) /\ new[n.sessions[k]].id = k
               /\ k \notin LifecycleIds /\ n.entries[n.sessions[k]].status # "ready" =>
                    \E p \in K : new[p].entry = n.sessions[k]
    <3>1. CASE k = id
      <4>1. k \in LifecycleIds \/ (o \in K /\ new[o].entry = o)
        BY <3>1
      <4> QED
        BY <1>2, <1>3, <2>1, <3>1, <4>1
    <3>2. CASE k # id
      <4>1. /\ m.sessions[k] \in Born(cs) /\ cs[m.sessions[k]].id = k
            /\ k \notin LifecycleIds /\ m.entries[m.sessions[k]].status # "ready" =>
                 \E p \in H : cs[p].entry = m.sessions[k]
        BY <1>3, <2>6, <3>2 DEF Sound, LeaseInv
      <4>2. /\ n.sessions[k] = m.sessions[k] /\ m.sessions[k] \in Ops \ {o}
            /\ n.entries[n.sessions[k]] = m.entries[m.sessions[k]]
        BY <1>3, <1>4, <3>2, <4>1 DEF Born
      <4>3. n.sessions[k] \in Born(new) /\ new[n.sessions[k]].id = k
        BY <2>1, <2>2, <4>1, <4>2
      <4>4. ASSUME k \notin LifecycleIds, n.entries[n.sessions[k]].status # "ready"
            PROVE  \E p \in K : new[p].entry = n.sessions[k]
        BY <1>4, <4>1, <4>2, <4>4
      <4> QED
        BY <4>3, <4>4
    <3> QED
      BY <3>1, <3>2
  <2>7. \A p \in K : LeaseOf(n, new, p)
    BY <1>4, <2>3, <2>4
  <2> QED
    BY <2>1, <2>5, <2>6, <2>7 DEF LeaseInv
<1>9. PromiseInv(n, new, K)
  <2>1. Promised(new) = Promised(cs)
    BY <1>2 DEF Promised
  <2>2. ASSUME NEW out \in Promised(cs)
        PROVE  Kept(out, n, new, K)
    <3>1. Kept(out, m, cs, H)
      BY DEF Sound, PromiseInv
    <3>2. out.id \in Ids
      BY <1>1 DEF Sound, PromiseInv, Promised, OutputOf, Output, Op
    <3>3. out.id = id => durable /\ content # Absent /\ Restores(content, out)
      BY <1>3, <3>1 DEF Kept
    <3>4. n.sessions[out.id] # None => Restores(n.entries[n.sessions[out.id]].value, out)
      <4>1. CASE out.id = id
        BY <1>3, <3>3, <4>1 DEF NewValue
      <4>2. CASE out.id # id
        <5>1. n.sessions[out.id] = m.sessions[out.id]
          BY <1>3, <3>2, <4>2
        <5>2. m.sessions[out.id] # None => m.sessions[out.id] \in Ops \ {o}
          BY <1>4, <3>2 DEF Sound, LeaseInv, Born
        <5> QED
          BY <3>1, <5>1, <5>2 DEF Kept
      <4> QED
        BY <4>1, <4>2
    <3>5. ASSUME NEW p \in K \ {out.op}, new[p].id = out.id,
                 new[p].entry = n.sessions[out.id], new[p].rollback # "release"
          PROVE  new[p].rollback = "restore" /\ Restores(new[p].checkpoint, out)
      <4>1. CASE p = o
        <5>1. out.id = id /\ p \in K /\ o \notin H
          BY <1>2, <1>4, <3>5, <4>1
        <5>2. content # Absent /\ Restores(content, out)
          BY <3>3, <5>1
        <5> QED
          BY <3>5, <4>1, <5>1, <5>2
      <4>2. CASE p # o
        <5>1. p \in H /\ new[p] = cs[p] /\ cs[p].entry \in Ops \ {o}
          BY <1>4, <3>5, <4>2
        <5>2. out.id # id
          BY <1>3, <3>5, <5>1
        <5>3. n.sessions[out.id] = m.sessions[out.id]
          BY <1>3, <3>2, <5>2
        <5> QED
          BY <3>1, <3>5, <5>1, <5>3 DEF Kept
      <4> QED
        BY <4>1, <4>2
    <3>6. ~durable => n.sessions[out.id] # None
      BY <1>1, <1>3, <3>1, <3>2 DEF Kept
    <3> QED
      BY <3>1, <3>4, <3>5, <3>6 DEF Kept
  <2>3. published \subseteq Output /\ \A out \in published : new[out.op].pc = "done" /\ out.op \notin K
    BY <1>2, <1>4 DEF Sound, PromiseInv, Output
  <2> QED
    BY <2>1, <2>2, <2>3 DEF PromiseInv
<1>10. MatchInv(n, new, K)
  <2> SUFFICES ASSUME durable, NEW k \in Ids, n.sessions[k] # None, ~InTransit(k, n, new, K)
               PROVE  Matched(k, n)
    BY DEF MatchInv
  <2>1. CASE k = id
    <3>1. ASSUME K = H \cup {o}, new[o].rollback = "delete"
          PROVE  FALSE
      <4>1. new[o].entry = o \/ K = H
        OBVIOUS
      <4>2. new[o].entry = n.sessions[k] /\ o \in K
        BY <1>3, <1>4, <2>1, <3>1, <4>1
      <4> QED
        BY <1>2, <3>1, <4>2 DEF InTransit
    <3>2. content = shelf[id] /\ content # Absent
      BY <1>6, <3>1
    <3> QED
      BY <1>3, <2>1, <3>2 DEF Matched, NewValue
  <2>2. CASE k # id
    <3>1. n.sessions[k] = m.sessions[k] /\ m.sessions[k] \in Ops \ {o}
      BY <1>3, <1>4, <2>2 DEF Sound, LeaseInv, Born
    <3>2. ~InTransit(k, m, cs, H)
      BY <1>4, <3>1 DEF InTransit
    <3>3. Matched(k, m)
      BY <2>2, <1>3, <3>2 DEF Sound, MatchInv
    <3>4. n.entries[n.sessions[k]].value = m.entries[m.sessions[k]].value
      BY <3>1
    <3> QED
      BY <3>3, <3>4, MatchStays
  <2> QED
    BY <2>1, <2>2
<1>11. Typed(n, new, K) /\ LifecycleInv(n)
  BY <1>1, <1>2 DEF Sound, Typed, LifecycleInv
<1>12. ReservedInv(n)
  <2>1. /\ ReservedInv(m) /\ m.reserved \subseteq Ids \ {id}
        /\ \A i \in DOMAIN m.queue : m.queue[i].id \in Ids \ {id}
    BY <1>1, <1>5 DEF Sound, Memory, Request
  <2> QED
    BY <1>3, <2>1 DEF ReservedInv
<1> QED
  BY <1>5, <1>8, <1>9, <1>10, <1>11, <1>12 DEF Sound

LEMMA OutputsAreOutputs ==
  ASSUME NEW o \in Ops, NEW c \in Op
  PROVE  OutputOf(o, c) \in Output
<1>1. c.checkpoint \in Values /\ c.id \in Ids
  BY DEF Op
<1>2. \A value \in Values : Len(value) + 1 \in Nat
  BY DEF Values
<1>3. Len(c.checkpoint) + 1 \in Nat
  BY <1>1, <1>2
<1> QED
  BY <1>1, <1>3 DEF OutputOf, Output

LEMMA EntriesAside ==
  ASSUME NEW m, NEW n, NEW cs, QueueInv(m, cs), OrderInv(m, cs), ReservedInv(m),
         LifecycleInv(m), n.sessions = m.sessions, n.reserved = m.reserved,
         n.queue = m.queue
  PROVE  QueueInv(n, cs) /\ OrderInv(n, cs) /\ ReservedInv(n) /\ LifecycleInv(n)
<1>1. QueueInv(n, cs)
  BY DEF QueueInv
<1>2. OrderInv(n, cs) /\ ReservedInv(n)
  BY DEF OrderInv, ReservedInv
<1>3. LifecycleInv(n)
  BY DEF LifecycleInv
<1> QED
  BY <1>1, <1>2, <1>3

(* The call adds itself to the value of the entry it leases.               *)
LEMMA RedactKeeps ==
  ASSUME NEW m, NEW cs, NEW H, NEW o \in H, NEW n \in Memory,
         Sound(m, cs, H), cs[o].pc = "done", cs[o].rollback # "release",
         cs[o].entry = m.sessions[cs[o].id],
         n.sessions = m.sessions, n.reserved = m.reserved, n.queue = m.queue,
         \A f \in Ops \ {cs[o].entry} : n.entries[f] = m.entries[f],
         n.entries[cs[o].entry].status = m.entries[cs[o].entry].status,
         n.entries[cs[o].entry].value = Grown(m.entries[cs[o].entry].value, o)
  PROVE  Sound(n, cs, H)
<1> DEFINE id == cs[o].id
           e == cs[o].entry
<1>1. /\ m \in Memory /\ cs \in [Ops -> Op] /\ H \subseteq Ops /\ id \in Ids /\ o \in Ops
      /\ m.sessions \in [Ids -> Ops \cup {None}] /\ e \in Ops /\ e # None
      /\ \A f \in Ops : n.entries[f].status = m.entries[f].status
      /\ m.entries[e].value \in Values
      /\ \A k \in Ids : m.sessions[k] = e => k = id
      /\ \A p \in H \ {o} : cs[p].entry # e
  <2>1. Alone(m, cs, H, o)
    BY LiveLease
  <2>2. m \in Memory /\ cs \in [Ops -> Op] /\ H \subseteq Ops
    BY DEF Sound, Typed
  <2> QED
    BY <2>1, <2>2 DEF Alone, Memory, Entry
<1>2. QueueInv(n, cs) /\ OrderInv(n, cs) /\ ReservedInv(n) /\ LifecycleInv(n) /\ Typed(n, cs, H)
  <2>1. QueueInv(m, cs) /\ OrderInv(m, cs) /\ ReservedInv(m) /\ LifecycleInv(m) /\ Typed(m, cs, H)
    BY DEF Sound
  <2> QED
    BY <2>1, EntriesAside DEF Typed
<1>3. LeaseInv(n, cs, H)
  <2>1. ASSUME NEW p \in H
        PROVE  LeaseOf(n, cs, p)
    <3>1. LeaseOf(m, cs, p) /\ cs[p].entry \in Ops
      BY DEF Sound, LeaseInv, LeaseOf, Born
    <3>2. p = o \/ n.entries[cs[p].entry] = m.entries[cs[p].entry]
      BY <1>1, <3>1
    <3> QED
      BY <1>1, <3>1, <3>2 DEF LeaseOf
  <2>2. ASSUME NEW k \in Ids, n.sessions[k] # None
        PROVE  /\ n.sessions[k] \in Born(cs) /\ cs[n.sessions[k]].id = k
               /\ k \notin LifecycleIds /\ n.entries[n.sessions[k]].status # "ready" =>
                    \E p \in H : cs[p].entry = n.sessions[k]
    <3>1. /\ m.sessions[k] \in Born(cs) /\ cs[m.sessions[k]].id = k
          /\ k \notin LifecycleIds /\ m.entries[m.sessions[k]].status # "ready" =>
               \E p \in H : cs[p].entry = m.sessions[k]
      BY <2>2 DEF Sound, LeaseInv
    <3>2. n.entries[n.sessions[k]].status = m.entries[m.sessions[k]].status
      BY <1>1, <3>1 DEF Born
    <3> QED
      BY <3>1, <3>2
  <2>3. Lessees(cs) \subseteq H /\ \A p, q \in H : cs[p].entry = cs[q].entry => p = q
    BY DEF Sound, LeaseInv
  <2> QED
    BY <2>1, <2>2, <2>3 DEF LeaseInv
<1>4. PromiseInv(n, cs, H)
  <2>1. ASSUME NEW out \in Promised(cs)
        PROVE  Kept(out, n, cs, H)
    <3>1. Kept(out, m, cs, H) /\ out.id \in Ids /\ out \in Output
      <4>1. \A p \in Ops : OutputOf(p, cs[p]) \in Output
        BY <1>1, OutputsAreOutputs
      <4>2. out \in Output
        BY <4>1 DEF Sound, PromiseInv, Promised
      <4> QED
        BY <4>2 DEF Sound, PromiseInv, Output
    <3>2. n.sessions[out.id] # None => Restores(n.entries[n.sessions[out.id]].value, out)
      <4>1. CASE m.sessions[out.id] = e
        <5>1. Restores(m.entries[e].value, out)
          BY <1>1, <3>1, <4>1 DEF Kept
        <5>2. Restores(Grown(m.entries[e].value, o), out)
          BY <1>1, <3>1, <5>1, AppendRestores
        <5> QED
          BY <4>1, <5>2
      <4>2. CASE m.sessions[out.id] # e
        <5>1. m.sessions[out.id] \in Ops \cup {None}
          BY <1>1, <3>1
        <5> QED
          BY <3>1, <4>2, <5>1 DEF Kept
      <4> QED
        BY <4>1, <4>2
    <3> QED
      BY <3>1, <3>2 DEF Kept
  <2> QED
    BY <2>1 DEF Sound, PromiseInv
<1>5. MatchInv(n, cs, H)
  <2> SUFFICES ASSUME durable, NEW k \in Ids, n.sessions[k] # None, ~InTransit(k, n, cs, H)
               PROVE  Matched(k, n)
    BY DEF MatchInv
  <2>1. m.sessions[k] # e /\ ~InTransit(k, m, cs, H)
    BY DEF InTransit
  <2>2. Matched(k, m)
    BY <2>1 DEF Sound, MatchInv
  <2>3. n.entries[n.sessions[k]].value = m.entries[m.sessions[k]].value
    BY <1>1, <2>1
  <2> QED
    BY <2>2, <2>3, MatchStays
<1> QED
  BY <1>2, <1>3, <1>4, <1>5 DEF Sound

-----------------------------------------------------------------------------
(* From the changes of a step to the next state                            *)

(* The calls when o goes on with the record c and awaits at pc.            *)
Step(o, c, pc) == [ops EXCEPT ![o] = [c EXCEPT !.pc = pc]]

PCs == {"new", "admitted", "loading", "saving", "publishing", "unsaving", "deleting", "done"}

LEMMA StepFields ==
  ASSUME ops \in [Ops -> Op], NEW o \in Ops, NEW c \in Op, NEW pc \in PCs
  PROVE  /\ Step(o, c, pc) \in [Ops -> Op]
         /\ Step(o, c, pc)[o] \in Op /\ Step(o, c, pc)[o].pc = pc
         /\ SameLease(c, Step(o, c, pc)[o])
         /\ \A p \in Ops \ {o} : Step(o, c, pc)[p] = ops[p]
         /\ Lessees(Step(o, c, pc)) =
              IF pc \in {"saving", "publishing"} THEN Lessees(ops) \cup {o}
                                                 ELSE Lessees(ops) \ {o}
         /\ Others(ops, Step(o, c, pc), o)
<1> DEFINE d == [c EXCEPT !.pc = pc]
           s == Step(o, c, pc)
<1>1. d \in Op /\ d.pc = pc /\ SameLease(c, d)
  BY DEF Op, PCs, SameLease
<1>2. s = [ops EXCEPT ![o] = d]
  BY DEF Step
<1> HIDE DEF s, d
<1>3. s \in [Ops -> Op] /\ s[o] = d /\ \A p \in Ops \ {o} : s[p] = ops[p]
  BY <1>1, <1>2
<1>4. Lessees(s) = IF pc \in {"saving", "publishing"} THEN Lessees(ops) \cup {o}
                                                      ELSE Lessees(ops) \ {o}
  BY <1>1, <1>3 DEF Lessees
<1> QED
  BY <1>1, <1>3, <1>4 DEF s, Others

(* Two records that o goes on with differ in o only.                       *)
LEMMA StepOthers ==
  ASSUME ops \in [Ops -> Op], NEW o \in Ops, NEW c \in Op, NEW pc \in PCs,
         NEW d \in Op, NEW qc \in PCs
  PROVE  Others(Step(o, c, pc), Step(o, d, qc), o)
BY StepFields DEF Others

LEMMA StoredStays ==
  ASSUME StoredInv, NEW o \in Ops, Active(o) \/ state = "open",
         UNCHANGED <<durable, state, shelf, atRisk>>, faulted' \subseteq Ids
  PROVE  StoredInv'
BY DEF StoredInv, Store!Shelf

LEMMA SoundNext ==
  ASSUME NEW m, NEW cs, NEW H, Sound(m, cs, H), H = Lessees(cs), StoredInv',
         memory' = m, ops' = cs, UNCHANGED <<durable, shelf, atRisk>>, NEW more,
         published' = published \cup more,
         \A out \in more : /\ out \in Output /\ Kept(out, m, cs, H)
                           /\ cs[out.op].pc = "done" /\ out.op \notin H
  PROVE  IndInv'
<1>1. Lessees(ops)' = H
  BY DEF Lessees
<1>2. QueueInv(memory, ops)' /\ OrderInv(memory, ops)'
  BY DEF Sound, QueueInv, OrderInv, Matches
<1>3. ReservedInv(memory)' /\ Typed(memory, ops, Lessees(ops))'
  BY <1>1 DEF Sound, ReservedInv, Typed
<1>4. LeaseInv(memory, ops, Lessees(ops))'
  BY <1>1 DEF Sound, LeaseInv, LeaseOf, Born, Lessees
<1>5. PromiseInv(memory, ops, Lessees(ops))'
  <2>1. \A out \in published' : out \in Output /\ cs[out.op].pc = "done" /\ out.op \notin H
    BY DEF Sound, PromiseInv
  <2>2. \A out \in Promised(ops)' : Kept(out, m, cs, H)
    BY DEF Sound, PromiseInv, Promised
  <2>3. \A out : Kept(out, m, cs, H) => Kept(out, memory, ops, Lessees(ops))'
    BY <1>1 DEF Kept
  <2> QED
    BY <1>1, <2>1, <2>2, <2>3 DEF PromiseInv
<1>6. MatchInv(memory, ops, Lessees(ops))' /\ LifecycleInv(memory)'
  BY <1>1 DEF Sound, MatchInv, LifecycleInv, InTransit, Matched, LastOf
<1> QED
  BY <1>2, <1>3, <1>4, <1>5, <1>6 DEF IndInv, Sound

LEMMA StepIsSound ==
  ASSUME NEW o \in Ops, NEW m, NEW cs, NEW H, StoredInv, Sound(m, cs, H),
         H = Lessees(cs), memory' = m, ops' = cs, Active(o) \/ state = "open",
         UNCHANGED <<durable, state, shelf, atRisk, published>>, faulted' \subseteq Ids
  PROVE  IndInv'
<1>1. StoredInv'
  BY StoredStays
<1> DEFINE more == {}
<1>2. published' = published \cup more
  OBVIOUS
<1>3. UNCHANGED <<durable, shelf, atRisk>>
  OBVIOUS
<1>4. \A out \in more : /\ out \in Output /\ Kept(out, m, cs, H)
                        /\ cs[out.op].pc = "done" /\ out.op \notin H
  OBVIOUS
<1> HIDE DEF more
<1> QED
  BY <1>1, <1>2, <1>3, <1>4, SoundNext

(* A call without a lease moves on.                                        *)
LEMMA AsideKeeps ==
  ASSUME NEW m, NEW cs, NEW H, NEW o \in Ops, NEW new, Sound(m, cs, H),
         cs[o].pc \in {"new", "admitted"}, Others(cs, new, o),
         new[o].pc \in {"admitted", "done"},
         cs[o].pc = "new" => new[o].pc = "admitted"
  PROVE  Sound(m, new, H)
<1>1. m \in Memory /\ cs \in [Ops -> Op] /\ H \subseteq Ops
  BY DEF Sound, Typed
<1>2. new \in [Ops -> Op] /\ \A p \in Ops \ {o} : new[p] = cs[p]
  BY DEF Others
<1>3. QueueInv(m, new) /\ OrderInv(m, new)
  BY <1>1, QueueStays DEF Sound
<1>4. o \notin H /\ o \notin Born(cs)
  BY DEF Sound, LeaseInv, LeaseOf, Born
<1>5. Born(cs) \subseteq Born(new) /\ Lessees(new) = Lessees(cs) /\ Born(cs) \subseteq Ops \ {o}
      /\ \A p \in H : new[p] = cs[p] /\ cs[p].entry \in Born(cs)
  BY <1>1, <1>2, <1>4 DEF Born, Lessees, Sound, LeaseInv, LeaseOf
<1>6. LeaseInv(m, new, H)
  <2>1. ASSUME NEW p \in H
        PROVE  LeaseOf(m, new, p)
    <3>1. LeaseOf(m, cs, p) /\ new[p] = cs[p] /\ cs[p].entry \in Ops \ {o}
          /\ cs[p].entry \in Born(new)
      BY <1>5 DEF Sound, LeaseInv
    <3> QED
      BY <1>2, <3>1 DEF LeaseOf
  <2> QED
    BY <1>2, <1>5, <2>1 DEF Sound, LeaseInv
<1>7. PromiseInv(m, new, H)
  <2>1. Promised(new) = Promised(cs)
    BY <1>2 DEF Promised
  <2>2. ASSUME NEW out \in Promised(cs)
        PROVE  Kept(out, m, new, H)
    <3>1. Kept(out, m, cs, H)
      BY DEF Sound, PromiseInv
    <3> QED
      BY <1>5, <3>1 DEF Kept
  <2>3. published \subseteq Output /\ \A out \in published : new[out.op].pc = "done" /\ out.op \notin H
    BY <1>2 DEF Sound, PromiseInv, Output
  <2> QED
    BY <2>1, <2>2, <2>3 DEF PromiseInv
<1>8. MatchInv(m, new, H) /\ LifecycleInv(m) /\ ReservedInv(m) /\ Typed(m, new, H)
  BY <1>1, <1>2, <1>5 DEF Sound, MatchInv, InTransit, LifecycleInv, Typed
<1> QED
  BY <1>3, <1>6, <1>7, <1>8 DEF Sound

(* #rollbackSession: whatever the call holds, it lets go of.               *)
LEMMA RollBackKeeps ==
  ASSUME NEW o \in Ops, NEW m, NEW c \in Op, NEW broken \in SUBSET Ids, NEW H, StoredInv,
         ops \in [Ops -> Op], Active(o), H = Lessees(ops) \cup {o}, c.id = ops[o].id,
         Sound(m, Step(o, c, "done"), H), RollBack(o, m, c, broken),
         UNCHANGED <<durable, state, shelf, atRisk, published>>
  PROVE  IndInv'
<1> DEFINE cs == Step(o, c, "done")
           e == c.entry
           id == c.id
           K == H \ {o}
<1>1. /\ cs \in [Ops -> Op] /\ cs[o] \in Op /\ cs[o].pc = "done" /\ SameLease(c, cs[o])
      /\ Lessees(cs) = K /\ o \in H
  BY StepFields DEF PCs
<1>2. /\ cs[o].id = id /\ cs[o].entry = e /\ cs[o].rollback = c.rollback
      /\ cs[o].checkpoint = c.checkpoint
  BY <1>1 DEF SameLease
<1>3. m \in Memory /\ id \in Ids /\ c.checkpoint \in Values
  BY DEF Sound, Typed, Op
<1>4. ASSUME NEW d \in Op, NEW pc \in PCs, SameLease(c, d)
      PROVE  /\ Others(cs, Step(o, d, pc), o) /\ Step(o, d, pc)[o].pc = pc
             /\ SameLease(cs[o], Step(o, d, pc)[o])
             /\ Step(o, d, pc)[o].id = cs[o].id /\ Step(o, d, pc)[o].entry = cs[o].entry
             /\ pc \notin {"saving", "publishing"} => Lessees(Step(o, d, pc)) = K
  <2>1. SameLease(d, Step(o, d, pc)[o]) /\ Step(o, d, pc)[o].pc = pc
        /\ (pc \notin {"saving", "publishing"} => Lessees(Step(o, d, pc)) = K)
    BY <1>4, StepFields
  <2>2. Others(cs, Step(o, d, pc), o)
    BY StepOthers DEF PCs
  <2> QED
    BY <1>1, <1>4, <2>1, <2>2 DEF SameLease
<1>5. SameLease(c, c) /\ {"done", "unsaving", "deleting"} \subseteq PCs
  BY DEF SameLease, PCs
<1>6. faulted' \subseteq Ids
  BY <1>3 DEF RollBack, RestoreCheckpoint, StoredInv
<1>7. ASSUME NEW n, NEW new, Sound(n, new, K), Lessees(new) = K, memory' = n, ops' = new
      PROVE  IndInv'
  BY <1>6, <1>7, StepIsSound
<1>8. /\ Sound(m, cs, H) /\ Others(cs, cs, o) /\ SameLease(cs[o], cs[o])
      /\ ops' = Step(o, c, "done") => ops' = cs
  BY <1>1, <1>4, <1>5
<1> HIDE DEF cs
<1>9. CASE m.sessions[id] # e
  <2>1. memory' = m /\ ops' = cs
    BY <1>9 DEF RollBack, Await, Step, cs
  <2>2. Sound(m, cs, K)
    BY <1>1, <1>2, <1>3, <1>8, <1>9, LetGoKeeps
  <2> QED
    BY <1>1, <1>7, <2>1, <2>2
<1>10. CASE m.sessions[id] = e
  <2>1. Alone(m, cs, H, o)
    BY <1>1, <1>2, <1>8, <1>10, LiveLease
  <2>2. e \in Ops /\ e # None
    BY <1>2, <2>1 DEF Alone
  <2>3. CASE c.rollback = "delete" /\ durable
    <3>1. /\ memory' = Queued(Drop(m, id), RequestOf(o, c, "delete", Absent))
          /\ ops' = Step(o, c, "deleting")
      <4>1. Await(o, Submit(o, Drop(m, id), "delete", Absent), c, "deleting")
        BY <1>10, <2>3 DEF RollBack
      <4> QED
        BY <4>1, SubmitIsQueued DEF Await, Step
    <3>2. RequestOf(o, c, "delete", Absent) = RequestOf(o, cs[o], "delete", Absent)
      BY <1>2 DEF RequestOf
    <3>3. Sound(Queued(Drop(m, cs[o].id), RequestOf(o, cs[o], "delete", Absent)),
                Step(o, c, "deleting"), K)
      BY <1>1, <1>2, <1>4, <1>5, <1>8, <1>10, <2>3, DeleteKeeps
    <3> QED
      BY <1>2, <1>4, <1>5, <1>7, <3>1, <3>2, <3>3
  <2>4. CASE c.rollback = "delete" /\ ~durable
    <3>1. memory' = Drop(m, id) /\ ops' = cs
      BY <1>10, <2>4 DEF RollBack, Await, Step, cs
    <3>2. Sound(Drop(m, cs[o].id), cs, K)
      BY <1>1, <1>2, <1>8, <1>10, <2>4, ForgetKeeps
    <3> QED
      BY <1>1, <1>2, <1>7, <3>1, <3>2
  <2>5. CASE c.rollback = "release"
    <3> DEFINE n == WithStatus(m, e, "ready")
    <3>1. memory' = n /\ ops' = cs
      BY <1>10, <2>5 DEF RollBack, Await, Step, cs
    <3>2. /\ n \in Memory /\ n.sessions = m.sessions /\ n.reserved = m.reserved
          /\ n.queue = m.queue
          /\ n.entries = [m.entries EXCEPT ![e] = [value |-> m.entries[e].value, status |-> "ready"]]
      BY <1>3, <2>2, WithStatusFields
    <3> HIDE DEF n
    <3>3. /\ \A f \in Ops \ {e} : n.entries[f] = m.entries[f]
          /\ n.entries[e].status = "ready" /\ n.entries[e].value = m.entries[e].value
      BY <1>3, <2>2, <3>2 DEF Memory
    <3>4. \A out \in Promised(cs) : out.id = id => Restores(m.entries[e].value, out)
      BY <1>8, <1>10, <2>2 DEF Sound, PromiseInv, Kept
    <3>5. durable => Matched(id, n)
      <4>1. ~InTransit(id, m, cs, H)
        BY <1>2, <1>10, <2>1, <2>5 DEF InTransit, Alone
      <4>2. durable => Matched(id, m)
        BY <1>3, <1>8, <1>10, <2>2, <4>1 DEF Sound, MatchInv
      <4>3. n.entries[n.sessions[id]].value = m.entries[m.sessions[id]].value
        BY <1>10, <3>2, <3>3
      <4> QED
        BY <3>2, <4>2, <4>3, MatchStays
    <3>6. Sound(n, cs, K)
      BY <1>1, <1>2, <1>8, <3>2, <3>3, <3>4, <3>5, LetGoKeeps
    <3> QED
      BY <1>1, <1>7, <3>1, <3>6
  <2>6. CASE c.rollback = "restore"
    <3> DEFINE entry == [value |-> c.checkpoint, status |-> "ready"]
               n == SetEntry(m, e, entry)
    <3>1. /\ n \in Memory /\ n.sessions = m.sessions /\ n.reserved = m.reserved
          /\ n.queue = m.queue /\ n.entries = [m.entries EXCEPT ![e] = entry]
      BY <1>3, <2>2, SetEntryFields DEF Entry
    <3>2. RestoreCheckpoint(o, m, c, broken)
      BY <1>10, <2>6 DEF RollBack
    <3>3. [m EXCEPT !.entries[e] = entry] = n
      BY DEF SetEntry
    <3>4. CASE durable /\ memory' = Submit(o, n, "save", c.checkpoint)
                       /\ ops' = Step(o, c, "unsaving")
      <4>1. memory' = Queued(n, RequestOf(o, c, "save", c.checkpoint))
        BY <3>4, SubmitIsQueued
      <4>2. RequestOf(o, c, "save", c.checkpoint) = RequestOf(o, cs[o], "save", cs[o].checkpoint)
        BY <1>2 DEF RequestOf
      <4>3. n = SetEntry(m, cs[o].entry, [value |-> cs[o].checkpoint, status |-> "ready"])
        BY <1>2
      <4>4. Sound(Queued(SetEntry(m, cs[o].entry, [value |-> cs[o].checkpoint, status |-> "ready"]),
                         RequestOf(o, cs[o], "save", cs[o].checkpoint)),
                  Step(o, c, "unsaving"), K)
        BY <1>1, <1>2, <1>4, <1>5, <1>8, <1>10, <2>6, <3>4, RestoreKeeps
      <4> QED
        BY <1>4, <1>5, <1>7, <3>4, <4>1, <4>2, <4>3, <4>4
    <3>5. CASE ~durable /\ memory' = n /\ ops' = Step(o, c, "done")
      <4> HIDE DEF n
      <4>1. /\ \A f \in Ops \ {e} : n.entries[f] = m.entries[f]
            /\ n.entries[e] = entry
        BY <1>3, <2>2, <3>1 DEF Memory
      <4>2. \A out \in Promised(cs) : out.id = id => Restores(c.checkpoint, out)
        BY <1>2, <2>1, <2>6 DEF Alone
      <4>3. Sound(n, cs, K)
        <5>1. /\ n.entries[cs[o].entry].status = "ready"
              /\ \A out \in Promised(cs) : out.id = cs[o].id =>
                   Restores(n.entries[cs[o].entry].value, out)
              /\ ~durable
          BY <1>2, <3>5, <4>1, <4>2
        <5> HIDE DEF entry
        <5> QED
          BY <1>1, <1>2, <1>8, <3>1, <4>1, <5>1, LetGoKeeps
      <4> QED
        BY <1>1, <1>7, <1>8, <3>5, <4>3
    <3>6. CASE durable /\ memory' = Drop(n, id)
                       /\ ops' = Step(o, [c EXCEPT !.outcome = "failed"], "done")
      <4> DEFINE d == [c EXCEPT !.outcome = "failed"]
                 new == Step(o, d, "done")
                 dropped == Drop(m, id)
                 last == Drop(n, id)
      <4>1. d \in Op /\ SameLease(c, d)
        BY DEF Op, SameLease
      <4> HIDE DEF n, d
      <4>2. /\ Others(cs, new, o) /\ new[o].pc = "done" /\ new[o].id = cs[o].id
            /\ new[o].entry = cs[o].entry /\ Lessees(new) = K
        BY <1>4, <1>5, <4>1
      <4>3. Sound(dropped, cs, H)
        BY <1>3, <1>8, <3>6, DropKeeps
      <4>4. /\ last \in Memory /\ last.sessions = [m.sessions EXCEPT ![id] = None]
            /\ last.reserved = m.reserved /\ last.queue = m.queue
            /\ last.entries = [m.entries EXCEPT ![e] = entry]
        <5>1. n \in Memory
          BY <3>1
        <5>2. /\ last \in Memory /\ last.sessions = [n.sessions EXCEPT ![id] = None]
              /\ last.reserved = n.reserved /\ last.queue = n.queue
              /\ last.entries = n.entries
          BY <1>3, <5>1, DropFields
        <5> QED
          BY <3>1, <5>2
      <4>5. /\ dropped.sessions = [m.sessions EXCEPT ![id] = None]
            /\ dropped.reserved = m.reserved /\ dropped.queue = m.queue
            /\ dropped.entries = m.entries
        BY <1>3, DropFields
      <4> HIDE DEF new, dropped, last
      <4>6. /\ \A f \in Ops \ {e} : last.entries[f] = dropped.entries[f]
            /\ dropped.sessions[id] # e /\ last.sessions = dropped.sessions
            /\ last.reserved = dropped.reserved /\ last.queue = dropped.queue
        BY <1>3, <2>2, <4>4, <4>5 DEF Memory
      <4>7. Sound(last, new, K)
        BY <1>1, <1>2, <4>2, <4>3, <4>4, <4>6, LetGoKeeps
      <4> QED
        BY <1>7, <3>6, <4>2, <4>7 DEF new, last, d
    <3> QED
      BY <3>2, <3>3, <3>4, <3>5, <3>6 DEF RestoreCheckpoint, Await, End, Step
  <2> QED
    BY <1>10, <2>3, <2>4, <2>5, <2>6 DEF RollBack
<1> QED
  BY <1>9, <1>10

Redacted(m, e, value) == [m EXCEPT !.entries[e].value = value]

LEMMA RedactedFields ==
  ASSUME NEW m \in Memory, NEW e \in Ops, NEW value \in Values, NEW n,
         n = Redacted(m, e, value)
  PROVE  /\ n \in Memory /\ n.sessions = m.sessions /\ n.reserved = m.reserved
         /\ n.queue = m.queue /\ \A f \in Ops \ {e} : n.entries[f] = m.entries[f]
         /\ n.entries[e] = [value |-> value, status |-> m.entries[e].status]
<1> DEFINE old == m.entries[e]
           entry == [value |-> value, status |-> m.entries[e].status]
<1>1. /\ m.entries \in [Ops -> Entry] /\ entry \in Entry
      /\ [old EXCEPT !.value = value] = entry
  BY DEF Memory, Entry
<1>2. Redacted(m, e, value) =
        [m EXCEPT !.entries = [m.entries EXCEPT ![e] = [old EXCEPT !.value = value]]]
  BY DEF Redacted
<1> HIDE DEF entry
<1>3. Redacted(m, e, value) = SetEntry(m, e, entry)
  BY <1>1, <1>2 DEF SetEntry
<1>4. /\ SetEntry(m, e, entry) \in Memory /\ SetEntry(m, e, entry).sessions = m.sessions
      /\ SetEntry(m, e, entry).reserved = m.reserved /\ SetEntry(m, e, entry).queue = m.queue
      /\ SetEntry(m, e, entry).entries = [m.entries EXCEPT ![e] = entry]
  BY <1>1, SetEntryFields
<1>5. /\ \A f \in Ops \ {e} : [m.entries EXCEPT ![e] = entry][f] = m.entries[f]
      /\ [m.entries EXCEPT ![e] = entry][e] = entry
  BY <1>1
<1> QED
  BY <1>3, <1>4, <1>5 DEF entry

(* The call redacts and goes on to save, to publish or to roll back.       *)
LEMMA RedactStep ==
  ASSUME NEW o \in Ops, NEW m, NEW c \in Op, NEW H, StoredInv, ops \in [Ops -> Op],
         Active(o), H = Lessees(ops) \cup {o}, c.id = ops[o].id, c.kind = "anonymize",
         c.entry = m.sessions[c.id], c.rollback # "release",
         m.entries[c.entry].value = c.checkpoint,
         Sound(m, Step(o, c, "done"), H), Redact(o, m, c),
         UNCHANGED <<durable, state, shelf, atRisk, published>>
  PROVE  IndInv'
<1> DEFINE cs == Step(o, c, "done")
           e == c.entry
           id == c.id
           value == Grown(m.entries[e].value, o)
           n == Redacted(m, e, value)
<1>1. /\ cs \in [Ops -> Op] /\ cs[o] \in Op /\ cs[o].pc = "done" /\ SameLease(c, cs[o])
      /\ o \in H
  BY StepFields DEF PCs
<1>2. /\ cs[o].id = id /\ cs[o].entry = e /\ cs[o].rollback = c.rollback
      /\ cs[o].checkpoint = c.checkpoint /\ cs[o].kind = "anonymize"
  BY <1>1 DEF SameLease
<1>3. /\ m \in Memory /\ id \in Ids /\ c.checkpoint \in Values /\ {id} \in SUBSET Ids
      /\ {} \in SUBSET Ids
  BY DEF Sound, Typed, Op
<1>4. ASSUME NEW d \in Op, NEW pc \in PCs, SameLease(c, d)
      PROVE  /\ Others(cs, Step(o, d, pc), o) /\ Step(o, d, pc)[o].pc = pc
             /\ SameLease(cs[o], Step(o, d, pc)[o])
             /\ pc \in {"saving", "publishing"} => Lessees(Step(o, d, pc)) = H
  <2>1. /\ SameLease(d, Step(o, d, pc)[o]) /\ Step(o, d, pc)[o].pc = pc
        /\ pc \in {"saving", "publishing"} => Lessees(Step(o, d, pc)) = H
    BY <1>4, StepFields
  <2>2. Others(cs, Step(o, d, pc), o)
    BY StepOthers DEF PCs
  <2> QED
    BY <1>1, <1>4, <2>1, <2>2 DEF SameLease
<1>5. /\ SameLease(c, c) /\ {"done", "saving", "publishing"} \subseteq PCs
      /\ SameLease(c, Failed(c)) /\ Failed(c) \in Op /\ Failed(c).id = c.id
  BY DEF SameLease, PCs, Failed, Op
<1>6. Sound(m, cs, H)
  OBVIOUS
<1> HIDE DEF cs
<1>7. Alone(m, cs, H, o)
  BY <1>1, <1>2, <1>6, LiveLease
<1>8. e \in Ops /\ e # None /\ m.entries[e].value \in Values /\ value \in Values
  <2>1. e \in Ops /\ e # None
    BY <1>2, <1>7 DEF Alone
  <2> QED
    BY <1>3, <2>1, AppendRestores
<1>9. /\ n \in Memory /\ n.sessions = m.sessions /\ n.reserved = m.reserved
      /\ n.queue = m.queue /\ \A f \in Ops \ {e} : n.entries[f] = m.entries[f]
      /\ n.entries[e] = [value |-> value, status |-> m.entries[e].status]
  <2>1. m \in Memory /\ e \in Ops /\ value \in Values /\ n = Redacted(m, e, value)
    BY <1>3, <1>8
  <2> HIDE DEF n, value, e
  <2> QED
    BY <2>1, RedactedFields
<1> HIDE DEF n
<1>10. n.entries[e].status = m.entries[e].status /\ n.entries[e].value = value
  BY <1>9
<1>11. Sound(n, cs, H)
  <2>1. /\ cs[o].rollback # "release" /\ cs[o].entry = m.sessions[cs[o].id]
        /\ \A f \in Ops \ {cs[o].entry} : n.entries[f] = m.entries[f]
        /\ n.entries[cs[o].entry].status = m.entries[cs[o].entry].status
        /\ n.entries[cs[o].entry].value = Grown(m.entries[cs[o].entry].value, o)
    BY <1>2, <1>9, <1>10
  <2>2. /\ n \in Memory /\ n.sessions = m.sessions /\ n.reserved = m.reserved
        /\ n.queue = m.queue
    BY <1>9
  <2> HIDE DEF value
  <2> QED
    BY <1>1, <1>6, <2>1, <2>2, RedactKeeps
<1>12. ASSUME NEW x, Sound(x, cs, H), NEW broken \in SUBSET Ids, RollBack(o, x, Failed(c), broken)
       PROVE  IndInv'
  <2> DEFINE fs == Step(o, Failed(c), "done")
  <2>1. Others(cs, fs, o) /\ SameLease(cs[o], fs[o]) /\ fs[o].pc = "done"
    BY <1>4, <1>5
  <2> HIDE DEF fs
  <2>2. Sound(x, fs, H)
    BY <1>1, <1>12, <2>1, MoveKeeps
  <2> QED
    BY <1>5, <1>12, <2>2, RollBackKeeps DEF fs
<1>13. CASE RollBack(o, m, Failed(c), {})
  BY <1>3, <1>6, <1>12, <1>13
<1>14. CASE RollBack(o, n, Failed(c), {id})
  BY <1>3, <1>11, <1>12, <1>14
<1>15. CASE durable /\ UNCHANGED faulted /\ memory' = Submit(o, n, "save", value)
            /\ ops' = Step(o, c, "saving")
  <2> DEFINE new == Step(o, c, "saving")
  <2>1. /\ Others(cs, new, o) /\ SameLease(cs[o], new[o]) /\ new[o].pc = "saving"
        /\ Lessees(new) = H
    BY <1>4, <1>5
  <2> HIDE DEF new
  <2>2. value = Grown(cs[o].checkpoint, o) /\ n.entries[cs[o].entry].value = Grown(cs[o].checkpoint, o)
    BY <1>2, <1>10
  <2>3. cs[o].entry = n.sessions[cs[o].id]
    BY <1>2, <1>9
  <2>4. Sound(Queued(n, RequestOf(o, cs[o], "save", Grown(cs[o].checkpoint, o))), new, H)
    BY <1>1, <1>2, <1>11, <1>15, <2>1, <2>2, <2>3, SavingKeeps
  <2>5. RequestOf(o, c, "save", value) = RequestOf(o, cs[o], "save", Grown(cs[o].checkpoint, o))
    BY <1>2, <2>2 DEF RequestOf
  <2>6. memory' = Queued(n, RequestOf(o, cs[o], "save", Grown(cs[o].checkpoint, o)))
    BY <1>15, <2>5, SubmitIsQueued
  <2>7. ops' = new /\ faulted' \subseteq Ids
    BY <1>15 DEF new, StoredInv
  <2> QED
    BY <2>1, <2>4, <2>6, <2>7, StepIsSound
<1>16. CASE ~durable /\ UNCHANGED faulted /\ memory' = n /\ ops' = Step(o, c, "publishing")
  <2> DEFINE new == Step(o, c, "publishing")
  <2>1. /\ Others(cs, new, o) /\ SameLease(cs[o], new[o]) /\ new[o].pc = "publishing"
        /\ Lessees(new) = H
    BY <1>4, <1>5
  <2> HIDE DEF new
  <2>2. n.entries[cs[o].entry].value = Grown(cs[o].checkpoint, o)
    BY <1>2, <1>10
  <2>3. Kept(OutputOf(o, cs[o]), n, cs, H)
    <3> DEFINE out == OutputOf(o, cs[o])
    <3>1. out.id = id /\ out.op = o
      BY <1>2 DEF OutputOf
    <3>2. Restores(Grown(cs[o].checkpoint, o), out)
      BY <1>1, <1>2, <1>3, AppendRestores
    <3> HIDE DEF out
    <3>3. n.sessions[id] = e /\ n.queue = <<>>
      BY <1>6, <1>9, <1>16 DEF Sound, QueueInv
    <3>4. \A p \in H \ {o} : cs[p].entry # e
      BY <1>2, <1>7 DEF Alone
    <3>5. \A i \in DOMAIN n.queue : FALSE
      BY <3>3
    <3>6. Restores(n.entries[e].value, out)
      BY <1>2, <2>2, <3>2
    <3>7. Kept(out, n, cs, H)
      BY <1>8, <1>16, <3>1, <3>3, <3>4, <3>5, <3>6 DEF Kept
    <3> QED
      BY <3>7 DEF out
  <2>4. Sound(n, new, H)
    BY <1>1, <1>11, <1>16, <2>1, <2>2, <2>3, MoveKeeps
  <2>5. ops' = new /\ faulted' \subseteq Ids
    BY <1>16 DEF new, StoredInv
  <2> QED
    BY <1>16, <2>1, <2>4, <2>5, StepIsSound
<1>17. n = [m EXCEPT !.entries[c.entry].value = Grown(m.entries[c.entry].value, o)]
  BY DEF n, Redacted
<1> QED
  BY <1>13, <1>14, <1>15, <1>16, <1>17 DEF Redact, Await, Step, Grown

-----------------------------------------------------------------------------
(* The actions                                                             *)

LEMMA IndInvFacts ==
  ASSUME IndInv
  PROVE  /\ StoredInv /\ Sound(memory, ops, Lessees(ops))
         /\ memory \in Memory /\ ops \in [Ops -> Op]
         /\ \A o \in Ops : /\ ops[o] \in Op /\ ops[o].id \in Ids
                           /\ Failed(ops[o]) \in Op /\ SameLease(ops[o], Failed(ops[o]))
                           /\ SameLease(ops[o], ops[o]) /\ Failed(ops[o]).id = ops[o].id
BY DEF IndInv, Sound, Typed, Op, Failed, SameLease

(* A call before its first await holds no lease.                           *)
LEMMA AdmitKeeps ==
  ASSUME IndInv, NEW o \in Ops, NEW kind \in {"anonymize", "restore"}, NEW id \in Ids,
         Admit(o, kind, id)
  PROVE  IndInv'
<1> DEFINE c == [ops[o] EXCEPT !.kind = kind, !.id = id]
<1>1. c \in Op /\ ops[o].pc = "new" /\ "admitted" \in PCs
  <2>1. ops[o] \in Op
    BY IndInvFacts
  <2>2. c \in Op
    BY <2>1 DEF Op
  <2> QED
    BY <2>2 DEF Admit, PCs
<1> HIDE DEF c
<1>2. memory' = memory /\ ops' = Step(o, c, "admitted")
  BY DEF Admit, Await, Step, c
<1> DEFINE new == Step(o, c, "admitted")
<1>3. /\ Others(ops, new, o) /\ new[o].pc = "admitted" /\ Lessees(new) = Lessees(ops) \ {o}
  BY <1>1, IndInvFacts, StepFields
<1> HIDE DEF new
<1>4. o \notin Lessees(ops)
  BY <1>1 DEF Lessees
<1>5. Sound(memory, new, Lessees(ops))
  BY <1>1, <1>3, IndInvFacts, AsideKeeps
<1>6. /\ state = "open" /\ UNCHANGED <<durable, state, shelf, atRisk, published>>
      /\ faulted' \subseteq Ids
  BY IndInvFacts DEF Admit, ShelfVars, StoredInv
<1> QED
  BY <1>2, <1>3, <1>4, <1>5, <1>6, IndInvFacts, StepIsSound DEF new

LEMMA RefuseCallKeeps ==
  ASSUME IndInv, NEW o \in Ops, RefuseCall(o)
  PROVE  IndInv'
<1>1. Failed(ops[o]) \in Op /\ ops[o].pc = "admitted" /\ "done" \in PCs
  BY IndInvFacts DEF RefuseCall, PCs
<1> DEFINE new == Step(o, Failed(ops[o]), "done")
<1>2. memory' = memory /\ ops' = new
  BY DEF RefuseCall, End, Await, Step, Failed
<1>3. /\ Others(ops, new, o) /\ new[o].pc = "done" /\ Lessees(new) = Lessees(ops) \ {o}
  <2> DEFINE c == Failed(ops[o])
  <2>1. ops \in [Ops -> Op] /\ c \in Op /\ "done" \in PCs
    BY <1>1, IndInvFacts
  <2> HIDE DEF c
  <2>2. /\ Others(ops, Step(o, c, "done"), o) /\ Step(o, c, "done")[o].pc = "done"
        /\ Lessees(Step(o, c, "done")) = Lessees(ops) \ {o}
    BY <2>1, StepFields
  <2> QED
    BY <2>2 DEF c
<1> HIDE DEF new
<1>4. o \notin Lessees(ops) /\ Active(o)
  BY <1>1 DEF Lessees, Active
<1>5. Sound(memory, new, Lessees(ops))
  BY <1>1, <1>3, IndInvFacts, AsideKeeps
<1>6. /\ UNCHANGED <<durable, state, shelf, atRisk, published>> /\ faulted' \subseteq Ids
  BY IndInvFacts DEF RefuseCall, ShelfVars, StoredInv
<1> QED
  BY <1>2, <1>3, <1>4, <1>5, <1>6, IndInvFacts, StepIsSound

LEMMA LoadSessionKeeps ==
  ASSUME IndInv, NEW o \in Ops, LoadSession(o)
  PROVE  IndInv'
<1> DEFINE id == ops[o].id
           r == RequestOf(o, ops[o], "load", Absent)
           new == Step(o, ops[o], "loading")
<1>1. /\ ops[o] \in Op /\ id \in Ids /\ ops[o].pc = "admitted" /\ durable /\ "loading" \in PCs
      /\ id \notin memory.reserved /\ memory.sessions[id] = None
  BY IndInvFacts DEF LoadSession, PCs, Live
<1>2. /\ Others(ops, new, o) /\ new[o].pc = "loading" /\ Lessees(new) = Lessees(ops) \ {o}
      /\ SameLease(ops[o], new[o])
  <2>1. ops \in [Ops -> Op] /\ ops[o] \in Op /\ "loading" \in PCs
    BY <1>1, IndInvFacts
  <2> QED
    BY <2>1, StepFields
<1>3. ops' = new
  BY DEF LoadSession, Await, Step
<1> HIDE DEF new
<1>4. r \in Request
  BY <1>1, RequestFields
<1>5. /\ Queued(memory, r) \in Memory /\ Queued(memory, r).sessions = memory.sessions
      /\ Queued(memory, r).entries = memory.entries
      /\ Queued(memory, r).reserved = memory.reserved
      /\ Queued(memory, r).queue = Append(memory.queue, r)
  BY <1>4, IndInvFacts, QueuedFields
<1>6. Submit(o, memory, "load", Absent) = Queued(memory, r)
  BY SubmitIsQueued
<1>7. memory' = [Queued(memory, r) EXCEPT !.reserved = @ \cup {id}]
  BY <1>6 DEF LoadSession, Await
<1> HIDE DEF r
<1>8. /\ memory' \in Memory /\ memory'.sessions = memory.sessions
      /\ memory'.entries = memory.entries /\ memory'.reserved = memory.reserved \cup {id}
      /\ memory'.queue = Append(memory.queue, r)
  BY <1>1, <1>5, <1>7 DEF Memory
<1>9. o \notin Lessees(ops) /\ Active(o)
  BY <1>1 DEF Lessees, Active
<1>10. Sound(memory', new, Lessees(ops))
  BY <1>1, <1>2, <1>8, IndInvFacts, LoadKeeps DEF r
<1>11. /\ UNCHANGED <<durable, state, shelf, atRisk, published>> /\ faulted' \subseteq Ids
  BY IndInvFacts DEF LoadSession, ShelfVars, StoredInv
<1> QED
  BY <1>2, <1>3, <1>9, <1>10, <1>11, IndInvFacts, StepIsSound

(* A call leases an entry that is ready.                                   *)
LEMMA BusyKeeps ==
  ASSUME IndInv, NEW o \in Ops, ops[o].pc = "admitted", ReadyEntry(ops[o].id),
         NEW rollback \in {"release", "restore"}, NEW checkpoint \in Values,
         ops[o].kind = "restore" <=> rollback = "release",
         rollback = "restore" =>
           /\ checkpoint = memory.entries[memory.sessions[ops[o].id]].value
           /\ HasCheckpoint(o)
  PROVE  LET e == memory.sessions[ops[o].id]
             c == Lease(o, e, rollback, checkpoint) IN
         /\ Sound(WithStatus(memory, e, "busy"), Step(o, c, "done"), Lessees(ops) \cup {o})
         /\ c \in Op /\ c.id = ops[o].id /\ c.kind = ops[o].kind /\ c.rollback = rollback
         /\ c.entry = e /\ e \in Ops /\ c.checkpoint = checkpoint
         /\ WithStatus(memory, e, "busy").sessions = memory.sessions
         /\ WithStatus(memory, e, "busy").entries[e].value = memory.entries[e].value
<1> DEFINE id == ops[o].id
           e == memory.sessions[id]
           c == Lease(o, e, rollback, checkpoint)
           new == Step(o, c, "done")
           n == WithStatus(memory, e, "busy")
<1>1. /\ ops[o] \in Op /\ id \in Ids /\ e # None /\ e \in Ops /\ "done" \in PCs
      /\ memory.entries[e].status = "ready" /\ memory.entries \in [Ops -> Entry]
  BY IndInvFacts DEF ReadyEntry, Live, Memory, PCs
<1>2. /\ c \in Op /\ c.id = id /\ c.kind = ops[o].kind /\ c.rollback = rollback
      /\ c.entry = e /\ c.checkpoint = checkpoint
  BY <1>1 DEF Lease, Op
<1> HIDE DEF c
<1>3. Others(ops, new, o) /\ new[o].pc = "done" /\ SameLease(c, new[o])
  BY <1>1, <1>2, IndInvFacts, StepFields
<1> HIDE DEF new
<1>4. /\ n \in Memory /\ n.sessions = memory.sessions /\ n.reserved = memory.reserved
      /\ n.queue = memory.queue
      /\ n.entries = [memory.entries EXCEPT ![e] =
                        [value |-> memory.entries[e].value, status |-> "busy"]]
  BY <1>1, IndInvFacts, WithStatusFields
<1> HIDE DEF n
<1>5. /\ \A f \in Ops : n.entries[f].value = memory.entries[f].value
      /\ \A f \in Ops \ {e} : n.entries[f].status = memory.entries[f].status
      /\ n.entries[e].status # "ready"
  <2>1. n.entries[e] = [value |-> memory.entries[e].value, status |-> "busy"]
    BY <1>1, <1>4
  <2>2. \A f \in Ops \ {e} : n.entries[f] = memory.entries[f]
    BY <1>1, <1>4
  <2>3. n.entries[e].value = memory.entries[e].value /\ n.entries[e].status = "busy"
    BY <2>1
  <2> QED
    BY <2>2, <2>3
<1>6. /\ new[o].id = ops[o].id /\ new[o].entry = memory.sessions[ops[o].id]
      /\ new[o].kind = "restore" <=> new[o].rollback = "release"
      /\ new[o].rollback # "release" =>
           /\ new[o].rollback = "restore"
           /\ new[o].checkpoint = memory.entries[memory.sessions[ops[o].id]].value
           /\ durable => ops[o].id \notin LifecycleIds
  BY <1>2, <1>3 DEF SameLease, HasCheckpoint
<1>7. Sound(n, new, Lessees(ops) \cup {o})
  BY <1>1, <1>3, <1>4, <1>5, <1>6, IndInvFacts, LeaseKeeps
<1> QED
  BY <1>1, <1>2, <1>4, <1>5, <1>7 DEF n, c, new

LEMMA AnonymizeInMemoryKeeps ==
  ASSUME IndInv, NEW o \in Ops, AnonymizeInMemory(o)
  PROVE  IndInv'
<1> DEFINE e == memory.sessions[ops[o].id]
           c == Lease(o, e, "restore", memory.entries[e].value)
           n == WithStatus(memory, e, "busy")
<1>1. /\ ops[o].pc = "admitted" /\ ops[o].kind = "anonymize" /\ ReadyEntry(ops[o].id)
      /\ HasCheckpoint(o) /\ Redact(o, n, c) /\ Active(o)
      /\ UNCHANGED <<durable, state, shelf, atRisk, published>>
  BY DEF AnonymizeInMemory, ShelfVars, Active
<1>2. memory.entries[e].value \in Values
  BY <1>1, IndInvFacts DEF ReadyEntry, Live, Memory, Entry
<1>3. /\ Sound(n, Step(o, c, "done"), Lessees(ops) \cup {o})
      /\ c \in Op /\ c.id = ops[o].id /\ c.kind = "anonymize" /\ c.rollback = "restore"
      /\ c.entry = e /\ c.checkpoint = memory.entries[e].value
      /\ n.sessions = memory.sessions /\ n.entries[e].value = memory.entries[e].value
  <2>1. /\ "restore" \in {"release", "restore"} /\ ~(ops[o].kind = "restore")
        /\ ~("restore" = "release")
    BY <1>1
  <2>2. ops[o].kind = "restore" <=> "restore" = "release"
    BY <2>1, Zenon
  <2> QED
    BY <1>1, <1>2, <2>1, <2>2, BusyKeeps
<1> HIDE DEF n, c
<1>4. c.entry = n.sessions[c.id] /\ n.entries[c.entry].value = c.checkpoint
  BY <1>3
<1> QED
  BY <1>1, <1>3, <1>4, IndInvFacts, RedactStep

LEMMA ReadInMemoryKeeps ==
  ASSUME IndInv, NEW o \in Ops, ReadInMemory(o)
  PROVE  IndInv'
<1> DEFINE e == memory.sessions[ops[o].id]
           c == Lease(o, e, "release", <<>>)
           n == WithStatus(memory, e, "busy")
           cs == Step(o, c, "done")
           new == Step(o, c, "publishing")
           H == Lessees(ops) \cup {o}
<1>1. /\ ops[o].pc = "admitted" /\ ops[o].kind = "restore" /\ ReadyEntry(ops[o].id)
      /\ Active(o) /\ UNCHANGED <<durable, state, shelf, atRisk, published>>
      /\ faulted' \subseteq Ids /\ memory' = n /\ ops' = new
  BY IndInvFacts DEF ReadInMemory, ShelfVars, Active, Await, Step, StoredInv
<1>2. <<>> \in Values /\ {"done", "publishing"} \subseteq PCs
  BY DEF Values, PCs
<1>3. /\ Sound(n, cs, H)
      /\ c \in Op /\ c.kind = "restore" /\ c.rollback = "release"
  BY <1>1, <1>2, BusyKeeps
<1> HIDE DEF n, c
<1>4. /\ Others(cs, new, o) /\ SameLease(cs[o], new[o]) /\ new[o].pc = "publishing"
      /\ cs[o].pc = "done" /\ cs[o].rollback = "release" /\ cs[o].kind = "restore"
      /\ Lessees(new) = H
  <2>1. /\ SameLease(c, cs[o]) /\ SameLease(c, new[o]) /\ new[o].pc = "publishing"
        /\ cs[o].pc = "done" /\ Lessees(new) = H
    BY <1>2, <1>3, IndInvFacts, StepFields
  <2>2. Others(cs, new, o)
    BY <1>2, <1>3, IndInvFacts, StepOthers
  <2> QED
    BY <1>3, <2>1, <2>2 DEF SameLease
<1> HIDE DEF cs, new
<1>5. Sound(n, new, H)
  BY <1>3, <1>4, MoveKeeps
<1> QED
  BY <1>1, <1>4, <1>5, IndInvFacts, StepIsSound

(* A new entry takes the place of a session that is not in memory.         *)
MayCreate(o, m, cs, n, content) ==
  /\ o \in Ops /\ ops \in [Ops -> Op] /\ ops[o].id \in Ids
  /\ StoredInv /\ Sound(m, cs, Lessees(ops)) /\ Others(cs, ops, o)
  /\ cs[o].pc = "admitted" /\ cs[o].id = ops[o].id
  /\ m.sessions[ops[o].id] = None /\ ops[o].id \notin m.reserved
  /\ \A i \in DOMAIN m.queue : m.queue[i].id # ops[o].id
  /\ content \in Values \cup {Absent}
  /\ IF durable THEN content = shelf[ops[o].id] ELSE content = Absent
  /\ n \in Memory /\ n.sessions = [m.sessions EXCEPT ![ops[o].id] = o]
  /\ n.reserved = m.reserved /\ n.queue = m.queue
  /\ \A f \in Ops \ {o} : n.entries[f] = m.entries[f]
  /\ n.entries[o].value = NewValue(content) /\ n.entries[o].status # "ready"

MayLease(o, content, rollback, checkpoint) ==
  /\ rollback \in {"delete", "release", "restore"} /\ checkpoint \in Values
  /\ ops[o].kind = "restore" <=> rollback = "release"
  /\ content = Absent => rollback = "delete"
  /\ content # Absent => rollback \in {"restore", "release"}
  /\ rollback = "restore" => checkpoint = content
  /\ rollback # "release" => HasCheckpoint(o)

LEMMA NewLease ==
  ASSUME NEW m, NEW cs, NEW o, NEW content, NEW n, NEW rollback, NEW checkpoint,
         MayCreate(o, m, cs, n, content), MayLease(o, content, rollback, checkpoint)
  PROVE  LET c == Lease(o, o, rollback, checkpoint) IN
         /\ Sound(n, Step(o, c, "done"), Lessees(ops) \cup {o})
         /\ c \in Op /\ c.id = ops[o].id /\ c.kind = ops[o].kind /\ c.rollback = rollback
         /\ c.entry = o /\ c.checkpoint = checkpoint
<1> USE DEF MayCreate, MayLease
<1> DEFINE c == Lease(o, o, rollback, checkpoint)
           new == Step(o, c, "done")
           K == Lessees(ops) \cup {o}
<1>1. ops[o] \in Op /\ "done" \in PCs
  BY DEF PCs
<1>2. /\ c \in Op /\ c.id = ops[o].id /\ c.kind = ops[o].kind /\ c.rollback = rollback
      /\ c.entry = o /\ c.checkpoint = checkpoint
  BY <1>1 DEF Lease, Op
<1> HIDE DEF c
<1>3. /\ new[o].pc = "done" /\ SameLease(c, new[o]) /\ Others(ops, new, o)
  BY <1>1, <1>2, StepFields
<1> HIDE DEF new
<1>4. Others(cs, new, o)
  BY <1>3 DEF Others
<1>5. /\ new[o].id = cs[o].id /\ new[o].entry = o /\ new[o].kind = ops[o].kind
      /\ new[o].rollback = rollback /\ new[o].checkpoint = checkpoint
  BY <1>2, <1>3 DEF SameLease
<1>6. /\ new[o].kind = "restore" <=> new[o].rollback = "release"
      /\ content = Absent => new[o].rollback = "delete"
      /\ content # Absent => new[o].rollback \in {"restore", "release"}
      /\ new[o].rollback = "restore" => new[o].checkpoint = content
      /\ durable /\ new[o].rollback # "release" => cs[o].id \notin LifecycleIds
  BY <1>5 DEF HasCheckpoint
<1>7. shelf \in atRisk
  BY DEF StoredInv
<1>8. /\ m.sessions[cs[o].id] = None /\ cs[o].id \notin m.reserved
      /\ \A i \in DOMAIN m.queue : m.queue[i].id # cs[o].id
      /\ IF durable THEN content = shelf[cs[o].id] ELSE content = Absent
      /\ n.sessions = [m.sessions EXCEPT ![cs[o].id] = o]
  OBVIOUS
<1>9. Sound(n, new, K)
  BY <1>3, <1>4, <1>5, <1>6, <1>7, <1>8, CreateKeeps
<1> QED
  BY <1>2, <1>9 DEF new, c

(* Without a store a session is made from nothing.                         *)
LEMMA NewCreates ==
  ASSUME IndInv, NEW o \in Ops, AnonymizeNew(o)
  PROVE  /\ MayCreate(o, memory, ops, Created(o, memory, Absent, "initializing"), Absent)
         /\ ops[o].pc = "admitted" /\ memory.queue = <<>>
<1> DEFINE content == Absent
           status == "initializing"
           n == Created(o, memory, content, status)
<1>1. /\ ops[o].pc = "admitted" /\ ~durable /\ memory.sessions[ops[o].id] = None
      /\ ops[o].id \in Ids
  BY IndInvFacts DEF AnonymizeNew, Live
<1>2. memory.queue = <<>> /\ memory.reserved = {}
  <2>1. memory.queue = <<>>
    BY <1>1, IndInvFacts DEF Sound, QueueInv
  <2> QED
    BY <2>1, IndInvFacts DEF Sound, ReservedInv
<1>3. content \in Values \cup {Absent} /\ status \in {"initializing", "busy"} /\ status # "ready"
      /\ content = Absent
  OBVIOUS
<1> HIDE DEF content, status
<1>4. /\ n \in Memory /\ n.sessions = [memory.sessions EXCEPT ![ops[o].id] = o]
      /\ n.reserved = memory.reserved \ {ops[o].id} /\ n.queue = memory.queue
      /\ \A f \in Ops \ {o} : n.entries[f] = memory.entries[f]
      /\ n.entries[o].value = NewValue(content) /\ n.entries[o].status = status
  BY <1>1, <1>3, IndInvFacts, CreatedFields
<1> HIDE DEF n
<1>5. Others(ops, ops, o)
  BY IndInvFacts DEF Others
<1>6. MayCreate(o, memory, ops, n, content)
  BY <1>1, <1>2, <1>3, <1>4, <1>5, IndInvFacts DEF MayCreate
<1> QED
  BY <1>1, <1>2, <1>6 DEF n, content, status

LEMMA AnonymizeNewKeeps ==
  ASSUME IndInv, NEW o \in Ops, AnonymizeNew(o)
  PROVE  IndInv'
<1> DEFINE content == Absent
           n == Created(o, memory, content, "initializing")
           rollback == "delete"
           checkpoint == <<>>
           c == Lease(o, o, rollback, checkpoint)
           H == Lessees(ops) \cup {o}
<1>1. /\ ops[o].pc = "admitted" /\ ops[o].kind = "anonymize" /\ ops[o].id \in Ids
      /\ Redact(o, n, c) /\ Active(o) /\ HasCheckpoint(o)
      /\ UNCHANGED <<durable, state, shelf, atRisk, published>>
  BY IndInvFacts DEF AnonymizeNew, CreateAndRedact, ShelfVars, Active, HasCheckpoint
<1>2. MayCreate(o, memory, ops, n, content)
  BY NewCreates
<1> HIDE DEF n
<1>3. n.sessions[ops[o].id] = o /\ n.entries[o].value = checkpoint
  BY <1>1, <1>2 DEF MayCreate, NewValue, Sound, Typed, Memory
<1>4. MayLease(o, content, rollback, checkpoint) /\ rollback = "delete"
  BY <1>1 DEF MayLease, Values
<1> HIDE DEF content, rollback, checkpoint
<1>5. /\ Sound(n, Step(o, c, "done"), H) /\ c \in Op /\ c.id = ops[o].id
      /\ c.kind = ops[o].kind /\ c.rollback = rollback /\ c.entry = o
      /\ c.checkpoint = checkpoint
  BY <1>2, <1>4, NewLease
<1> HIDE DEF c
<1>6. c.entry = n.sessions[c.id] /\ n.entries[c.entry].value = c.checkpoint
  BY <1>3, <1>5
<1> QED
  BY <1>1, <1>4, <1>5, <1>6, IndInvFacts, RedactStep

(* The head of the queue is a load; what is left when it was answered.     *)
Loaded(o) == Unreserve(Popped(memory), ops[o].id)

LEMMA LoadAnswered ==
  ASSUME IndInv, NEW o \in Ops, Serving(o, "load")
  PROVE  /\ durable /\ ops[o].pc = "loading" /\ Active(o) /\ Lessees(ops) \ {o} = Lessees(ops)
         /\ memory.queue # <<>> /\ memory.queue[1].op = o /\ memory.queue[1].kind = "load"
         /\ Head(memory.queue).id = ops[o].id /\ Served = Popped(memory)
         /\ Unreserved = Loaded(o)
         /\ Popped(memory) \in Memory /\ Popped(memory).sessions = memory.sessions
         /\ Loaded(o).sessions = memory.sessions /\ Loaded(o).entries = Popped(memory).entries
         /\ Loaded(o).queue = Popped(memory).queue
         /\ Loaded(o).reserved = Popped(memory).reserved \ {ops[o].id}
<1>1. /\ memory.queue # <<>> /\ Head(memory.queue).op = o /\ Head(memory.queue).kind = "load"
      /\ memory.queue \in Seq(Request) /\ memory \in Memory /\ ops[o].id \in Ids
  BY IndInvFacts DEF Serving, Memory
<1>2. 1 \in DOMAIN memory.queue /\ Head(memory.queue) = memory.queue[1]
  BY <1>1, TailFacts
<1>3. durable /\ Matches(memory.queue[1], ops[o])
  BY <1>1, <1>2, IndInvFacts DEF Sound, QueueInv
<1>4. ops[o].pc = "loading" /\ memory.queue[1].id = ops[o].id
  BY <1>1, <1>2, <1>3 DEF Matches
<1>5. Active(o) /\ Lessees(ops) \ {o} = Lessees(ops)
  BY <1>4 DEF Active, Lessees
<1>6. Served = Popped(memory) /\ Unreserved = Loaded(o)
  BY <1>2, <1>4 DEF Served, Popped, Unreserved, Loaded, Unreserve
<1>7. Popped(memory) \in Memory /\ Popped(memory).sessions = memory.sessions
  BY <1>1, PoppedFields
<1>8. /\ Loaded(o).sessions = memory.sessions /\ Loaded(o).entries = Popped(memory).entries
      /\ Loaded(o).queue = Popped(memory).queue
      /\ Loaded(o).reserved = Popped(memory).reserved \ {ops[o].id}
  BY <1>1, <1>7, UnreserveFields DEF Loaded
<1> QED
  BY <1>1, <1>2, <1>3, <1>4, <1>5, <1>6, <1>7, <1>8

LEMMA LoadedIsSound ==
  ASSUME IndInv, NEW o \in Ops, Serving(o, "load"), NEW c \in Op, SameLease(ops[o], c),
         NEW pc \in {"admitted", "done"}
  PROVE  /\ Sound(Loaded(o), Step(o, c, pc), Lessees(ops))
         /\ Lessees(Step(o, c, pc)) = Lessees(ops)
         /\ Step(o, c, pc)[o].pc = pc /\ Step(o, c, pc)[o].id = ops[o].id
         /\ memory.sessions[ops[o].id] = None /\ ops[o].id \notin Loaded(o).reserved
         /\ \A i \in DOMAIN Loaded(o).queue : Loaded(o).queue[i].id # ops[o].id
<1> DEFINE new == Step(o, c, pc)
<1>1. ops \in [Ops -> Op] /\ pc \in PCs
  BY IndInvFacts DEF PCs
<1>2. /\ Others(ops, new, o) /\ new[o].pc = pc /\ SameLease(c, new[o])
      /\ Lessees(new) = Lessees(ops) \ {o}
  BY <1>1, StepFields
<1> HIDE DEF new
<1>3. /\ memory.queue # <<>> /\ memory.queue[1].op = o /\ memory.queue[1].kind = "load"
      /\ Lessees(ops) \ {o} = Lessees(ops) /\ Loaded(o).sessions = memory.sessions
  BY LoadAnswered
<1>4. new[o].id = ops[o].id /\ new[o].entry = ops[o].entry
  BY <1>2 DEF SameLease
<1>5. /\ Sound(Loaded(o), new, Lessees(ops))
      /\ Loaded(o).sessions[ops[o].id] = None /\ ops[o].id \notin Loaded(o).reserved
      /\ \A i \in DOMAIN Loaded(o).queue : Loaded(o).queue[i].id # ops[o].id
  <2>1. Sound(memory, ops, Lessees(ops))
    BY IndInvFacts
  <2> DEFINE n == Unreserve(Popped(memory), ops[o].id)
  <2>2. /\ Sound(n, new, Lessees(ops))
        /\ ops[o].id \in memory.reserved /\ o \notin Lessees(ops)
        /\ n.sessions[ops[o].id] = None /\ ops[o].id \notin n.reserved
        /\ \A i \in DOMAIN n.queue : n.queue[i].id # ops[o].id
    <3> DEFINE H == Lessees(ops)
    <3>1. /\ Sound(memory, ops, H) /\ Others(ops, new, o)
          /\ AtLoad(memory, o) /\ new[o].id = ops[o].id
          /\ new[o].entry = ops[o].entry /\ new[o].pc \in {"admitted", "done"}
      BY <1>2, <1>3, <1>4, <2>1 DEF AtLoad
    <3>2. n = Unreserve(Popped(memory), ops[o].id)
      OBVIOUS
    <3> HIDE DEF H, n
    <3>3. /\ Sound(n, new, H) /\ n.sessions[ops[o].id] = None
          /\ ops[o].id \in memory.reserved /\ o \notin H /\ ops[o].id \notin n.reserved
          /\ \A i \in DOMAIN n.queue : n.queue[i].id # ops[o].id
      BY <3>1, <3>2, PopLoadKeeps
    <3> QED
      BY <3>3 DEF H
  <2>3. n = Loaded(o)
    BY DEF Loaded
  <2> QED
    BY <2>2, <2>3
<1> QED
  BY <1>2, <1>3, <1>4, <1>5 DEF new

LEMMA LoadFailsKeeps ==
  ASSUME IndInv, NEW o \in Ops, LoadFails(o)
  PROVE  IndInv'
<1> DEFINE c == Failed(ops[o])
           new == Step(o, c, "done")
<1>1. /\ Serving(o, "load") /\ memory' = Unreserved /\ ops' = new
      /\ UNCHANGED <<durable, state, shelf, atRisk, published, faulted>>
  BY DEF LoadFails, End, Await, Step, Failed, ShelfVars
<1>2. c \in Op /\ SameLease(ops[o], c) /\ StoredInv
  BY IndInvFacts
<1> HIDE DEF c
<1>3. Sound(Loaded(o), new, Lessees(ops)) /\ Lessees(new) = Lessees(ops)
  BY <1>1, <1>2, LoadedIsSound
<1> HIDE DEF new
<1>4. Active(o) /\ Unreserved = Loaded(o)
  BY <1>1, LoadAnswered
<1> QED
  BY <1>1, <1>2, <1>3, <1>4, StepIsSound DEF StoredInv

(* The entry that is made from what the load found.                        *)
LEMMA LoadCreates ==
  ASSUME IndInv, NEW o \in Ops, Serving(o, "load"), NEW status \in {"initializing", "busy"}
  PROVE  LET n == Created(o, Served, shelf[ops[o].id], status) IN
         /\ MayCreate(o, Loaded(o), Step(o, ops[o], "admitted"), n, shelf[ops[o].id])
         /\ n.sessions[ops[o].id] = o
<1> DEFINE id == ops[o].id
           content == shelf[id]
           m == Loaded(o)
           cs == Step(o, ops[o], "admitted")
           n == Created(o, Served, content, status)
<1>1. /\ ops \in [Ops -> Op] /\ ops[o] \in Op /\ id \in Ids /\ StoredInv
      /\ SameLease(ops[o], ops[o]) /\ {"admitted", "done"} \subseteq PCs
  BY IndInvFacts DEF PCs
<1>2. content \in Values \cup {Absent}
  BY <1>1 DEF StoredInv, Store!Shelf
<1>3. /\ durable /\ Served \in Memory /\ m.sessions = memory.sessions
      /\ Served.sessions = memory.sessions /\ m.entries = Served.entries
      /\ m.queue = Served.queue /\ m.reserved = Served.reserved \ {id}
  BY LoadAnswered
<1>4. /\ Sound(m, cs, Lessees(ops)) /\ cs[o].pc = "admitted" /\ cs[o].id = id
      /\ memory.sessions[id] = None /\ id \notin m.reserved
      /\ \A i \in DOMAIN m.queue : m.queue[i].id # id
  BY <1>1, LoadedIsSound
<1>5. Others(cs, ops, o)
  <2>1. \A p \in Ops \ {o} : cs[p] = ops[p]
    <3>1. "admitted" \in PCs /\ ops \in [Ops -> Op] /\ ops[o] \in Op
      BY <1>1
    <3> QED
      BY <3>1, StepFields
  <2> QED
    BY <1>1, <2>1 DEF Others
<1> HIDE DEF content, cs, m
<1>6. /\ n \in Memory /\ n.sessions = [Served.sessions EXCEPT ![id] = o]
      /\ n.reserved = Served.reserved \ {id} /\ n.queue = Served.queue
      /\ \A f \in Ops \ {o} : n.entries[f] = Served.entries[f]
      /\ n.entries[o].value = NewValue(content) /\ n.entries[o].status = status
  BY <1>1, <1>2, <1>3, CreatedFields
<1> HIDE DEF n
<1>7. /\ n.sessions = [m.sessions EXCEPT ![id] = o] /\ n.entries[o].status # "ready"
      /\ n.reserved = m.reserved /\ n.queue = m.queue
      /\ \A f \in Ops \ {o} : n.entries[f] = m.entries[f]
  BY <1>3, <1>6
<1>8. m.sessions[id] = None /\ content = shelf[id]
  BY <1>3, <1>4 DEF content
<1>9. MayCreate(o, m, cs, n, content)
  BY <1>1, <1>2, <1>3, <1>4, <1>5, <1>6, <1>7, <1>8 DEF MayCreate
<1>10. n.sessions[id] = o
  BY <1>1, <1>3, <1>6 DEF Memory
<1> QED
  BY <1>9, <1>10 DEF m, cs, n, content

LEMMA LoadSucceedsKeeps ==
  ASSUME IndInv, NEW o \in Ops, LoadSucceeds(o)
  PROVE  IndInv'
<1> DEFINE id == ops[o].id
           content == shelf[id]
           m == Loaded(o)
           cs == Step(o, ops[o], "admitted")
           H == Lessees(ops) \cup {o}
<1>1. /\ Serving(o, "load") /\ UNCHANGED <<durable, state, shelf, atRisk, published>>
  BY DEF LoadSucceeds, ShelfVars
<1>2. Active(o) /\ durable
  BY <1>1, LoadAnswered
<1>3. /\ <<>> \in Values /\ ops \in [Ops -> Op] /\ StoredInv /\ ops[o] \in Op /\ id \in Ids
      /\ ops[o].kind \in {"anonymize", "restore"} /\ {"done", "publishing"} \subseteq PCs
  BY IndInvFacts DEF Values, Op, PCs
<1>4. content \in Values \cup {Absent}
  BY <1>3 DEF StoredInv, Store!Shelf
<1> HIDE DEF content, cs, m
<1>5. CASE ops[o].kind = "anonymize"
  <2> DEFINE n == Created(o, Served, content, "initializing")
             rollback == IF content = Absent THEN "delete" ELSE "restore"
             checkpoint == IF content = Absent THEN <<>> ELSE content
             c == Lease(o, o, rollback, checkpoint)
  <2>1. HasCheckpoint(o) /\ Redact(o, n, c)
    BY <1>5 DEF LoadSucceeds, CreateAndRedact, content
  <2>2. MayCreate(o, m, cs, n, content) /\ n.sessions[id] = o
    BY <1>1, LoadCreates DEF m, cs, content
  <2>3. MayLease(o, content, rollback, checkpoint)
    BY <1>3, <1>4, <1>5, <2>1 DEF MayLease
  <2>4. n.entries[o].value = checkpoint
    BY <2>2 DEF MayCreate, NewValue
  <2>5. rollback # "release"
    OBVIOUS
  <2> HIDE DEF n, rollback, checkpoint
  <2>6. /\ Sound(n, Step(o, c, "done"), H) /\ c \in Op /\ c.id = id /\ c.kind = ops[o].kind
        /\ c.rollback = rollback /\ c.entry = o /\ c.checkpoint = checkpoint
    BY <2>2, <2>3, NewLease
  <2> HIDE DEF c
  <2>7. /\ c.entry = n.sessions[c.id] /\ n.entries[c.entry].value = c.checkpoint
        /\ c.rollback # "release" /\ c.kind = "anonymize" /\ c.id = ops[o].id
    BY <1>5, <2>2, <2>4, <2>5, <2>6
  <2> QED
    BY <1>1, <1>2, <1>3, <2>1, <2>6, <2>7, RedactStep
<1>6. CASE ops[o].kind = "restore"
  <2> DEFINE n == Created(o, Served, content, "busy")
             rollback == "release"
             checkpoint == <<>>
             c == Lease(o, o, rollback, checkpoint)
             dones == Step(o, c, "done")
             new == Step(o, c, "publishing")
  <2>1. /\ content # Absent /\ memory' = n /\ ops' = new /\ UNCHANGED faulted
    BY <1>6 DEF LoadSucceeds, Await, Step, content
  <2>2. MayCreate(o, m, cs, n, content)
    BY <1>1, LoadCreates DEF m, cs, content
  <2>3. MayLease(o, content, rollback, checkpoint)
    BY <1>3, <1>4, <1>6, <2>1 DEF MayLease
  <2> HIDE DEF n, rollback, checkpoint
  <2>4. /\ Sound(n, dones, H) /\ c \in Op /\ c.id = id /\ c.kind = "restore"
        /\ c.rollback = rollback
    BY <1>6, <2>2, <2>3, NewLease
  <2> HIDE DEF c
  <2>5. /\ Others(dones, new, o) /\ SameLease(dones[o], new[o]) /\ new[o].pc = "publishing"
        /\ dones[o].pc = "done" /\ dones[o].rollback = "release" /\ dones[o].kind = "restore"
        /\ Lessees(new) = H
    <3>1. /\ SameLease(c, dones[o]) /\ SameLease(c, new[o]) /\ new[o].pc = "publishing"
          /\ dones[o].pc = "done" /\ Lessees(new) = H
      BY <1>3, <2>4, StepFields
    <3>2. Others(dones, new, o)
      BY <1>3, <2>4, StepOthers
    <3> QED
      BY <2>4, <3>1, <3>2 DEF SameLease, rollback
  <2> HIDE DEF dones, new
  <2>6. Sound(n, new, H)
    BY <2>4, <2>5, MoveKeeps
  <2>7. faulted' \subseteq Ids
    BY <1>3, <2>1 DEF StoredInv
  <2> QED
    BY <1>1, <1>2, <1>3, <2>1, <2>5, <2>6, <2>7, StepIsSound
<1> QED
  BY <1>3, <1>5, <1>6

LEMMA LoadStrandsKeeps ==
  ASSUME IndInv, NEW o \in Ops, LoadStrands(o)
  PROVE  IndInv'
<1> DEFINE id == ops[o].id
           content == shelf[id]
           m == Loaded(o)
           cs == Step(o, ops[o], "admitted")
           c == Failed(ops[o])
           new == Step(o, c, "done")
           n == Created(o, Served, content, "initializing")
           H == Lessees(ops)
<1>1. /\ Serving(o, "load") /\ UNCHANGED <<durable, state, shelf, atRisk, published, faulted>>
      /\ memory' = n /\ ops' = new /\ ~HasCheckpoint(o)
  BY DEF LoadStrands, ShelfVars, End, Await, Step, Failed
<1>2. Active(o) /\ durable /\ id \in LifecycleIds
  BY <1>1, LoadAnswered DEF HasCheckpoint
<1>3. /\ ops \in [Ops -> Op] /\ StoredInv /\ ops[o] \in Op /\ c \in Op /\ SameLease(ops[o], c)
      /\ {"done", "admitted"} \subseteq PCs
  BY IndInvFacts DEF PCs
<1>4. MayCreate(o, m, cs, n, content)
  BY <1>1, LoadCreates
<1> HIDE DEF content, m, c, n
<1>5. /\ Others(cs, new, o) /\ Lessees(new) = H /\ new[o].pc = "done" /\ new[o].id = id
  BY <1>1, <1>3, LoadedIsSound, StepOthers
<1> HIDE DEF cs, new, H
<1>6. new[o].id = cs[o].id /\ cs[o].id \in LifecycleIds
  BY <1>2, <1>4, <1>5 DEF MayCreate
<1>7. Sound(n, new, H)
  <2>1. /\ content \in Values \cup {Absent} /\ Sound(m, cs, H) /\ shelf \in atRisk
        /\ cs[o].pc = "admitted" /\ m.sessions[cs[o].id] = None /\ cs[o].id \notin m.reserved
        /\ \A i \in DOMAIN m.queue : m.queue[i].id # cs[o].id
        /\ IF durable THEN content = shelf[cs[o].id] ELSE content = Absent
        /\ n \in Memory /\ n.sessions = [m.sessions EXCEPT ![cs[o].id] = o]
        /\ n.reserved = m.reserved /\ n.queue = m.queue
        /\ \A f \in Ops \ {o} : n.entries[f] = m.entries[f]
        /\ n.entries[o].value = NewValue(content) /\ n.entries[o].status # "ready"
    BY <1>4 DEF MayCreate, StoredInv, H
  <2> QED
    BY <1>2, <1>5, <1>6, <2>1, CreateKeeps
<1> QED
  BY <1>1, <1>2, <1>3, <1>5, <1>7, StepIsSound DEF StoredInv

LEMMA RequestServed ==
  ASSUME IndInv, NEW o \in Ops, Serving(o, "save") \/ Serving(o, "delete")
  PROVE  /\ durable /\ AtStore(memory, o) /\ Active(o) /\ Served = Popped(memory)
         /\ memory.queue \in Seq(Request) /\ memory.queue # <<>>
         /\ Head(memory.queue) = memory.queue[1] /\ Matches(memory.queue[1], ops[o])
         /\ memory.queue[1] \in Request
         /\ memory.queue[1].op = o /\ memory.queue[1].id = ops[o].id
         /\ Serving(o, "delete") =>
              /\ ops[o].pc = "deleting" /\ memory.sessions[ops[o].id] = None
              /\ memory.queue[1].kind = "delete"
         /\ Serving(o, "save") =>
              /\ ops[o].pc \in {"saving", "unsaving"} /\ memory.queue[1].kind = "save"
<1>1. /\ memory.queue # <<>> /\ Head(memory.queue).op = o
      /\ Head(memory.queue).kind \in {"save", "delete"}
      /\ Serving(o, "save") => Head(memory.queue).kind = "save"
      /\ Serving(o, "delete") => Head(memory.queue).kind = "delete"
      /\ memory.queue \in Seq(Request)
  BY IndInvFacts DEF Serving, Memory
<1>2. /\ 1 \in DOMAIN memory.queue /\ Head(memory.queue) = memory.queue[1]
      /\ memory.queue[1] \in Request
  BY <1>1, TailFacts
<1>3. durable /\ Matches(memory.queue[1], ops[o])
  BY <1>1, <1>2, IndInvFacts DEF Sound, QueueInv
<1>4. /\ memory.queue[1].id = ops[o].id
      /\ Serving(o, "delete") => ops[o].pc = "deleting"
      /\ Serving(o, "save") => ops[o].pc \in {"saving", "unsaving"}
  BY <1>1, <1>2, <1>3 DEF Matches
<1>5. Serving(o, "delete") => memory.sessions[ops[o].id] = None
  BY <1>1, <1>2, <1>4, IndInvFacts DEF Sound, ReservedInv
<1>6. Active(o)
  BY <1>4 DEF Active
<1>7. AtStore(memory, o) /\ Served = Popped(memory)
  BY <1>1, <1>2 DEF AtStore, Served, Popped
<1> QED
  BY <1>1, <1>2, <1>3, <1>4, <1>5, <1>6, <1>7

(* The request of a call is answered, and the call goes on.                *)
LEMMA RequestAnswered ==
  ASSUME IndInv, NEW o \in Ops, AtStore(memory, o), MayPop(memory, ops[o]),
         NEW c \in Op, SameLease(ops[o], c)
  PROVE  Sound(Popped(memory), Step(o, c, "done"), Lessees(ops))
<1> DEFINE new == Step(o, c, "done")
<1>1. "done" \in PCs /\ ops \in [Ops -> Op] /\ Sound(memory, ops, Lessees(ops))
  BY IndInvFacts DEF PCs
<1>2. Others(ops, new, o) /\ new[o].pc = "done" /\ SameLease(c, new[o])
  BY <1>1, StepFields
<1> HIDE DEF new
<1>3. SameLease(ops[o], new[o])
  BY <1>2 DEF SameLease
<1>4. Sound(Popped(memory), new, Lessees(ops))
  BY <1>1, <1>2, <1>3, PopKeeps
<1> QED
  BY <1>4 DEF new

LEMMA SaveFailsKeeps ==
  ASSUME IndInv, NEW o \in Ops, SaveFails(o)
  PROVE  IndInv'
<1> DEFINE c == Failed(ops[o])
           id == ops[o].id
           H == Lessees(ops)
<1>1. /\ Serving(o, "save") /\ ops[o].pc = "saving" /\ RollBack(o, Served, c, {id})
      /\ UNCHANGED <<durable, state, shelf, atRisk, published>>
  BY DEF SaveFails, ShelfVars
<1>2. /\ c \in Op /\ SameLease(ops[o], c) /\ c.id = ops[o].id /\ id \in Ids
      /\ ops \in [Ops -> Op] /\ StoredInv
  BY IndInvFacts
<1> HIDE DEF c
<1>3. AtStore(memory, o) /\ Active(o) /\ Served = Popped(memory)
  BY <1>1, RequestServed
<1>4. MayPop(memory, ops[o]) /\ H = H \cup {o}
  BY <1>1 DEF MayPop, Lessees
<1>5. Sound(Served, Step(o, c, "done"), H)
  BY <1>2, <1>3, <1>4, RequestAnswered
<1>6. {id} \in SUBSET Ids
  BY <1>2
<1> HIDE DEF H
<1>7. H = Lessees(ops) \cup {o}
  BY <1>4 DEF H
<1> QED
  BY <1>1, <1>2, <1>3, <1>5, <1>6, <1>7, RollBackKeeps

(* What is saved is what the output of the call needs.                     *)
LEMMA SavedIsKept ==
  ASSUME IndInv, NEW o \in Ops, Serving(o, "save"), ops[o].pc = "saving", InPhase("settled"),
         NEW cs, Others(ops, cs, o), SameLease(ops[o], cs[o])
  PROVE  LET m == Popped(memory) IN
         /\ m.entries[ops[o].entry].value = Grown(ops[o].checkpoint, o)
         /\ ops[o].entry = m.sessions[ops[o].id] => Matched(ops[o].id, m)
         /\ Kept(OutputOf(o, ops[o]), m, cs, Lessees(ops))
<1> DEFINE id == ops[o].id
           e == ops[o].entry
           m == Popped(memory)
           H == Lessees(ops)
           value == Grown(ops[o].checkpoint, o)
           out == OutputOf(o, ops[o])
<1>1. /\ memory \in Memory /\ ops \in [Ops -> Op] /\ ops[o] \in Op /\ id \in Ids
      /\ ops[o].checkpoint \in Values /\ Sound(memory, ops, H)
  BY IndInvFacts DEF Op
<1>2. /\ durable /\ memory.queue \in Seq(Request) /\ memory.queue # <<>>
      /\ memory.queue[1].op = o /\ memory.queue[1].id = id
      /\ Matches(memory.queue[1], ops[o]) /\ Head(memory.queue) = memory.queue[1]
      /\ memory.queue[1].kind = "save"
  BY RequestServed
<1>3. /\ m \in Memory /\ m.sessions = memory.sessions /\ m.entries = memory.entries
      /\ m.queue = Tail(memory.queue)
  BY <1>1, <1>2, PoppedFields
<1>4. /\ DOMAIN memory.queue = 1..Len(memory.queue) /\ Len(memory.queue) \in Nat
      /\ DOMAIN m.queue = 1..(Len(memory.queue) - 1) /\ 1 \in DOMAIN memory.queue
      /\ \A i \in DOMAIN m.queue : i + 1 \in DOMAIN memory.queue /\ m.queue[i] = memory.queue[i + 1]
  BY <1>2, <1>3, TailFacts
<1> HIDE DEF m
<1>5. memory.queue[1].phase = "settled" /\ memory.queue[1].content = value
  BY <1>2 DEF InPhase, Matches
<1>6. shelf[id] = value /\ atRisk = {shelf}
  BY <1>2, <1>4, <1>5, <1>1 DEF Sound, QueueInv
<1>7. o \in H /\ LeaseOf(memory, ops, o)
  BY <1>1 DEF Sound, LeaseInv, Lessees
<1>8. /\ e \in Ops /\ e # None /\ memory.entries[e].value = value
      /\ memory.sessions[id] \in {None, e}
  BY <1>7, ServiceAssumption DEF LeaseOf, Born
<1>9. \A p \in H : ops[p].entry = e => p = o
  BY <1>1, <1>7 DEF Sound, LeaseInv
<1>10. e = m.sessions[id] => Matched(id, m)
  <2>1. ASSUME e = m.sessions[id]
        PROVE  Matched(id, memory)
    <3>1. ~InTransit(id, memory, ops, H)
      BY DEF InTransit, Lessees
    <3> QED
      BY <1>1, <1>2, <1>3, <1>8, <2>1, <3>1 DEF Sound, MatchInv
  <2> QED
    BY <1>1, <1>2, <1>3, <1>5, <1>6, <2>1, PoppedMatches
<1>11. value \in Values /\ Restores(value, out) /\ value # Absent
  <2>1. value \in Values /\ Restores(value, out)
    BY <1>1, AppendRestores
  <2> QED
    BY <2>1, ServiceAssumption DEF Values
<1>12. out.id = id /\ out.op = o
  BY DEF OutputOf
<1> HIDE DEF out, value
<1>13. ASSUME NEW i \in DOMAIN m.queue, m.queue[i].id = id
       PROVE  m.queue[i].kind = "load"
  <2>1. i + 1 \in DOMAIN memory.queue /\ m.queue[i] = memory.queue[i + 1] /\ 1 < i + 1
    BY <1>4
  <2>2. ops[memory.queue[1].op].pc = "saving"
    BY <1>2
  <2> QED
    BY <1>1, <1>2, <1>4, <1>13, <2>1, <2>2 DEF Sound, OrderInv
<1>14. ASSUME NEW p \in H \ {out.op}, cs[p].id = out.id, cs[p].entry = m.sessions[out.id],
              cs[p].rollback # "release"
       PROVE  FALSE
  <2>1. p \in H /\ p # o /\ p \in Ops /\ cs[p] = ops[p]
    BY <1>12, <1>14 DEF Lessees, Others
  <2>2. ops[p].entry # None
    BY <1>1, <2>1, ServiceAssumption DEF Sound, LeaseInv, LeaseOf, Born
  <2> QED
    BY <1>3, <1>8, <1>9, <1>12, <1>14, <2>1, <2>2
<1>15. Kept(out, m, cs, H)
  <2>1. m.sessions[out.id] # None => Restores(m.entries[m.sessions[out.id]].value, out)
    BY <1>3, <1>8, <1>11, <1>12
  <2>2. \A d \in atRisk : d[out.id] # Absent /\ Restores(d[out.id], out)
    BY <1>6, <1>11, <1>12
  <2> HIDE DEF H
  <2> QED
    BY <1>2, <1>12, <1>13, <1>14, <2>1, <2>2 DEF Kept
<1> QED
  BY <1>3, <1>8, <1>10, <1>15 DEF m, out, value

LEMMA SaveSucceedsKeeps ==
  ASSUME IndInv, NEW o \in Ops, SaveSucceeds(o)
  PROVE  IndInv'
<1> DEFINE c == ops[o]
           cs == Step(o, c, "done")
           new == Step(o, c, "publishing")
           m == Popped(memory)
           H == Lessees(ops)
<1>1. /\ Serving(o, "save") /\ ops[o].pc = "saving" /\ InPhase("settled")
      /\ memory' = Served /\ ops' = new
      /\ UNCHANGED <<durable, state, shelf, atRisk, published, faulted>>
  BY DEF SaveSucceeds, ShelfVars, Await, Step
<1>2. /\ c \in Op /\ SameLease(c, c) /\ ops \in [Ops -> Op] /\ StoredInv
      /\ {"done", "publishing"} \subseteq PCs
  BY IndInvFacts DEF PCs
<1>3. /\ AtStore(memory, o) /\ Active(o) /\ Served = m /\ MayPop(memory, ops[o])
      /\ o \in H
  BY <1>1, RequestServed DEF MayPop, Lessees
<1>4. Sound(m, cs, H)
  BY <1>2, <1>3, RequestAnswered
<1>5. /\ Others(ops, cs, o) /\ SameLease(c, cs[o]) /\ cs[o].pc = "done"
      /\ SameLease(c, new[o]) /\ new[o].pc = "publishing" /\ Lessees(new) = H \cup {o}
  BY <1>2, StepFields
<1>6. Others(cs, new, o)
  BY <1>2, StepOthers
<1> HIDE DEF cs, new, m
<1>7. SameLease(cs[o], new[o])
  BY <1>5 DEF SameLease
<1>8. /\ m.entries[c.entry].value = Grown(c.checkpoint, o)
      /\ c.entry = m.sessions[c.id] => Matched(c.id, m)
      /\ Kept(OutputOf(o, c), m, cs, H)
  BY <1>1, <1>5, SavedIsKept DEF m
<1>9. OutputOf(o, cs[o]) = OutputOf(o, c) /\ cs[o].entry = c.entry /\ cs[o].id = c.id
      /\ cs[o].checkpoint = c.checkpoint
  BY <1>5 DEF OutputOf, SameLease
<1>10. Sound(m, new, H)
  BY <1>3, <1>4, <1>5, <1>6, <1>7, <1>8, <1>9, MoveKeeps
<1>11. Lessees(new) = H /\ faulted' \subseteq Ids
  BY <1>1, <1>2, <1>3, <1>5 DEF StoredInv
<1> QED
  BY <1>1, <1>2, <1>3, <1>10, <1>11, StepIsSound

LEMMA RollbackStoredKeeps ==
  ASSUME IndInv, NEW o \in Ops, RollbackStored(o)
  PROVE  IndInv'
<1> DEFINE c == ops[o]
           new == Step(o, c, "done")
           H == Lessees(ops)
<1>1. /\ \/ Serving(o, "save") /\ c.pc = "unsaving" /\ InPhase("settled")
         \/ Serving(o, "delete")
      /\ memory' = Served /\ ops' = new
      /\ UNCHANGED <<durable, state, shelf, atRisk, published, faulted>>
  BY DEF RollbackStored, ShelfVars, Await, Step
<1>2. /\ c \in Op /\ SameLease(c, c) /\ ops \in [Ops -> Op] /\ StoredInv /\ "done" \in PCs
  BY IndInvFacts DEF PCs
<1>3. /\ AtStore(memory, o) /\ Active(o) /\ Served = Popped(memory)
      /\ c.pc \in {"unsaving", "deleting"} /\ MayPop(memory, c)
  BY <1>1, RequestServed DEF MayPop, InPhase
<1>4. Sound(Served, new, H)
  BY <1>2, <1>3, RequestAnswered
<1>5. Lessees(new) = H \ {o}
  BY <1>2, StepFields
<1>6. Lessees(new) = H
  BY <1>3, <1>5 DEF Lessees
<1> QED
  BY <1>1, <1>2, <1>3, <1>4, <1>6, StepIsSound DEF StoredInv

LEMMA RollbackLostKeeps ==
  ASSUME IndInv, NEW o \in Ops, RollbackLost(o)
  PROVE  IndInv'
<1> DEFINE id == ops[o].id
           c == Failed(ops[o])
           new == Step(o, c, "done")
           H == Lessees(ops)
<1>1. /\ \/ Serving(o, "save") /\ ops[o].pc = "unsaving" /\ memory' = Drop(Served, id)
         \/ Serving(o, "delete") /\ memory' = Served
      /\ ops' = new /\ faulted' = faulted \cup {id}
      /\ UNCHANGED <<durable, state, shelf, atRisk, published>>
  BY DEF RollbackLost, ShelfVars, End, Await, Step, Failed
<1>2. /\ c \in Op /\ SameLease(ops[o], c) /\ ops \in [Ops -> Op] /\ StoredInv /\ "done" \in PCs
      /\ memory \in Memory /\ id \in Ids /\ Sound(memory, ops, H)
  BY IndInvFacts DEF PCs
<1>3. /\ AtStore(memory, o) /\ Active(o) /\ Served = Popped(memory) /\ durable
      /\ ops[o].pc \in {"unsaving", "deleting"}
      /\ Serving(o, "delete") => memory.sessions[id] = None
  BY <1>1, RequestServed
<1> HIDE DEF c
<1>4. /\ Others(ops, new, o) /\ new[o].pc = "done" /\ SameLease(c, new[o])
      /\ Lessees(new) = H \ {o}
  <2>1. c \in Op /\ ops \in [Ops -> Op] /\ "done" \in PCs
    BY <1>2
  <2>2. Others(ops, Step(o, c, "done"), o) /\ Step(o, c, "done")[o].pc = "done"
    BY <2>1, StepFields
  <2>3. SameLease(c, Step(o, c, "done")[o])
    BY <2>1, StepFields
  <2>4. Lessees(Step(o, c, "done")) = Lessees(ops) \ {o}
    BY <2>1, StepFields
  <2> QED
    BY <2>2, <2>3, <2>4
<1>5. Lessees(new) = H /\ SameLease(ops[o], new[o]) /\ faulted' \subseteq Ids
  BY <1>1, <1>2, <1>3, <1>4 DEF Lessees, SameLease, StoredInv
<1> HIDE DEF new
<1>6. CASE Serving(o, "delete") /\ memory' = Served
  <2>1. Sound(Served, Step(o, c, "done"), H)
    BY <1>2, <1>3, <1>6, RequestAnswered DEF MayPop
  <2> QED
    BY <1>1, <1>2, <1>3, <1>5, <1>6, <2>1, StepIsSound DEF new
<1>7. CASE Serving(o, "save") /\ memory' = Drop(Served, id)
  <2> DEFINE dropped == Drop(memory, id)
  <2>1. Sound(dropped, ops, H)
    BY <1>2, <1>3, DropKeeps
  <2>2. /\ dropped \in Memory /\ dropped.sessions = [memory.sessions EXCEPT ![id] = None]
        /\ dropped.queue = memory.queue
    BY <1>2, DropFields
  <2>3. Popped(dropped) = Drop(Served, id)
    BY <1>2, <1>3 DEF Popped, Drop, Memory
  <2> HIDE DEF dropped
  <2>4. AtStore(dropped, o) /\ MayPop(dropped, ops[o])
    BY <1>2, <1>3, <2>2 DEF AtStore, MayPop, Memory
  <2>5. Sound(Popped(dropped), new, H)
    BY <1>4, <1>5, <2>1, <2>4, PopKeeps
  <2> QED
    BY <1>1, <1>2, <1>3, <1>5, <1>7, <2>3, <2>5, StepIsSound
<1> QED
  BY <1>1, <1>6, <1>7

LEMMA PublishFailsKeeps ==
  ASSUME IndInv, NEW o \in Ops, PublishFails(o)
  PROVE  IndInv'
<1> DEFINE c == [ops[o] EXCEPT !.outcome = "unpublished"]
           new == Step(o, c, "done")
           H == Lessees(ops)
<1>1. /\ ops[o].pc = "publishing" /\ RollBack(o, memory, c, {})
      /\ UNCHANGED <<durable, state, shelf, atRisk, published>>
  BY DEF PublishFails, ShelfVars
<1>2. /\ c \in Op /\ SameLease(ops[o], c) /\ c.id = ops[o].id
      /\ ops \in [Ops -> Op] /\ StoredInv /\ Sound(memory, ops, H) /\ "done" \in PCs
  BY IndInvFacts DEF PCs, Op, SameLease
<1> HIDE DEF c
<1>3. Active(o) /\ o \in H
  BY <1>1 DEF Active, Lessees
<1>4. /\ Others(ops, new, o) /\ new[o].pc = "done" /\ SameLease(c, new[o])
  BY <1>2, StepFields
<1> HIDE DEF new, H
<1>5. SameLease(ops[o], new[o])
  BY <1>2, <1>4 DEF SameLease
<1>6. Sound(memory, new, H)
  BY <1>1, <1>2, <1>3, <1>4, <1>5, MoveKeeps
<1>7. H = Lessees(ops) \cup {o} /\ {} \in SUBSET Ids
  BY <1>3 DEF H
<1> QED
  BY <1>1, <1>2, <1>3, <1>6, <1>7, RollBackKeeps DEF new

LEMMA PublishKeeps ==
  ASSUME IndInv, NEW o \in Ops, Publish(o)
  PROVE  IndInv'
<1> DEFINE c == [ops[o] EXCEPT !.outcome = "succeeded"]
           id == ops[o].id
           e == ops[o].entry
           cs == Step(o, ops[o], "done")
           new == Step(o, c, "done")
           H == Lessees(ops)
           n == WithStatus(memory, e, "ready")
           out == OutputOf(o, ops[o])
           more == IF ops[o].kind = "restore" THEN {} ELSE {out}
<1>1. /\ ops[o].pc = "publishing" /\ memory' = n /\ ops' = new
      /\ published' = published \cup more
      /\ UNCHANGED <<durable, state, shelf, atRisk, faulted>>
  BY DEF Publish, ShelfVars, End, Await, Step, OutputOf
<1>2. /\ c \in Op /\ SameLease(ops[o], c) /\ SameLease(ops[o], ops[o]) /\ ops[o] \in Op
      /\ id \in Ids /\ ops \in [Ops -> Op] /\ StoredInv /\ Sound(memory, ops, H)
      /\ "done" \in PCs /\ memory \in Memory /\ ops[o].kind \in {"anonymize", "restore"}
  BY IndInvFacts DEF PCs, Op, SameLease
<1> HIDE DEF c
<1>3. /\ Others(ops, cs, o) /\ cs[o].pc = "done" /\ SameLease(ops[o], cs[o])
      /\ new[o].pc = "done" /\ SameLease(c, new[o]) /\ Lessees(new) = H \ {o}
      /\ Others(ops, new, o)
  <2>1. Others(ops, cs, o) /\ cs[o].pc = "done" /\ SameLease(ops[o], cs[o])
    BY <1>2, StepFields
  <2>2. /\ Others(ops, new, o) /\ new[o].pc = "done" /\ SameLease(c, new[o])
        /\ Lessees(new) = H \ {o}
    BY <1>2, StepFields
  <2> QED
    BY <2>1, <2>2
<1>4. Others(cs, new, o)
  BY <1>2, StepOthers
<1> HIDE DEF cs, new
<1>5. /\ o \in H /\ Active(o)
      /\ cs[o].id = id /\ cs[o].entry = e /\ new[o].id = cs[o].id /\ new[o].entry = cs[o].entry
  BY <1>1, <1>2, <1>3 DEF Lessees, Active, SameLease
<1>6. Sound(memory, cs, H)
  BY <1>1, <1>2, <1>3, <1>5, MoveKeeps
<1>7. e \in Ops /\ e # None
  BY <1>2, <1>5, ServiceAssumption DEF Sound, LeaseInv, LeaseOf, Born
<1>8. /\ n \in Memory /\ n.sessions = memory.sessions /\ n.reserved = memory.reserved
      /\ n.queue = memory.queue
      /\ n.entries = [memory.entries EXCEPT ![e] = [value |-> memory.entries[e].value, status |-> "ready"]]
  BY <1>2, <1>7, WithStatusFields
<1> HIDE DEF n
<1>9. /\ \A f \in Ops \ {e} : n.entries[f] = memory.entries[f]
      /\ n.entries[e].status = "ready" /\ n.entries[e].value = memory.entries[e].value
      /\ \A f \in Ops : n.entries[f].value = memory.entries[f].value
  BY <1>2, <1>7, <1>8 DEF Memory
<1>10. memory.sessions[id] = e =>
         \A p \in Promised(cs) : p.id = id => Restores(n.entries[e].value, p)
  BY <1>6, <1>7, <1>9 DEF Sound, PromiseInv, Kept
<1>11. memory.sessions[id] = e /\ durable => Matched(id, n)
  <2>1. ~InTransit(id, memory, ops, H)
    BY DEF InTransit, Lessees
  <2>2. memory.sessions[id] = e /\ durable => Matched(id, memory)
    BY <1>2, <1>7, <2>1 DEF Sound, MatchInv
  <2>3. memory.sessions[id] = e => n.entries[n.sessions[id]].value = memory.entries[memory.sessions[id]].value
    BY <1>8, <1>9
  <2> QED
    BY <1>8, <2>2, <2>3, MatchStays
<1>12. Sound(n, new, H \ {o})
  <2> HIDE DEF H
  <2> QED
    BY <1>3, <1>4, <1>5, <1>6, <1>8, <1>9, <1>10, <1>11, LetGoKeeps
<1>13. ASSUME ops[o].kind = "anonymize"
       PROVE  out \in Output /\ Kept(out, n, new, H \ {o})
  <2>1. out \in Output /\ out.id = id /\ out.op = o /\ out \in Promised(ops)
    BY <1>1, <1>2, <1>13, OutputsAreOutputs DEF OutputOf, Promised
  <2> HIDE DEF out
  <2>2. Kept(out, memory, ops, H)
    BY <1>2, <2>1 DEF Sound, PromiseInv
  <2>3. n.sessions[id] # None => n.entries[n.sessions[id]].value = memory.entries[memory.sessions[id]].value
    BY <1>2, <1>8, <1>9 DEF Memory
  <2>4. \A p \in H \ {o} : new[p] = ops[p]
    BY <1>3 DEF Others, Lessees
  <2> HIDE DEF H
  <2> QED
    BY <1>8, <2>1, <2>2, <2>3, <2>4 DEF Kept
<1>14. \A p \in more : /\ p \in Output /\ Kept(p, n, new, H \ {o})
                       /\ new[p.op].pc = "done" /\ p.op \notin H \ {o}
  <2>1. out.op = o
    BY DEF OutputOf
  <2> HIDE DEF out
  <2> QED
    BY <1>2, <1>3, <1>13, <2>1
<1>15. StoredInv'
  BY <1>1, <1>2, <1>5, StoredStays DEF StoredInv
<1> HIDE DEF more, H
<1> QED
  BY <1>1, <1>3, <1>12, <1>14, <1>15, SoundNext

(* The memory with the first request in another phase.                     *)
LEMMA NextPhaseFields ==
  ASSUME memory \in Memory, memory.queue # <<>>, NEW phase \in {"changed", "settled"},
         NextPhase(phase)
  PROVE  /\ memory' \in Memory /\ memory'.sessions = memory.sessions
         /\ memory'.entries = memory.entries /\ memory'.reserved = memory.reserved
         /\ DOMAIN memory'.queue = DOMAIN memory.queue
         /\ \A i \in DOMAIN memory.queue :
              /\ memory.queue[i] \in Request
              /\ memory'.queue[i].op = memory.queue[i].op
              /\ memory'.queue[i].kind = memory.queue[i].kind
              /\ memory'.queue[i].id = memory.queue[i].id
              /\ memory'.queue[i].content = memory.queue[i].content
              /\ memory'.queue[i].phase = IF i = 1 THEN phase ELSE memory.queue[i].phase
<1> DEFINE q == memory.queue
           r == [q[1] EXCEPT !.phase = phase]
           p == [q EXCEPT ![1] = r]
<1>1. q \in Seq(Request) /\ q # <<>>
  BY DEF Memory
<1>2. 1 \in DOMAIN q /\ \A i \in DOMAIN q : q[i] \in Request
  BY <1>1, TailFacts
<1>3. /\ r \in Request /\ r.op = q[1].op /\ r.kind = q[1].kind /\ r.id = q[1].id
      /\ r.content = q[1].content /\ r.phase = phase
  BY <1>2 DEF Request
<1>4. memory' = [memory EXCEPT !.queue = p]
  BY DEF NextPhase
<1> HIDE DEF r
<1>5. p \in Seq(Request) /\ DOMAIN p = DOMAIN q /\ p[1] = r
      /\ \A i \in DOMAIN q : i # 1 => p[i] = q[i]
  BY <1>1, <1>2, <1>3
<1> HIDE DEF p
<1>6. /\ memory' \in Memory /\ memory'.sessions = memory.sessions
      /\ memory'.entries = memory.entries /\ memory'.reserved = memory.reserved
      /\ memory'.queue = p
  BY <1>4, <1>5 DEF Memory
<1> QED
  BY <1>2, <1>3, <1>5, <1>6

(* What serving a request makes of the store.                              *)
LEMMA ServingKeeps ==
  ASSUME IndInv, NEW o \in Ops, Serving(o, "save") \/ Serving(o, "delete"),
         NEW phase \in {"changed", "settled"}, NextPhase(phase), ops' = ops,
         UNCHANGED <<durable, state, published, faulted>>,
         shelf' = [shelf EXCEPT ![ops[o].id] = memory.queue[1].content],
         shelf' \in atRisk', atRisk' \subseteq atRisk \cup {shelf'},
         phase = "settled" => atRisk' = {shelf'}
  PROVE  IndInv'
<1> DEFINE id == ops[o].id
           q == memory.queue
           H == Lessees(ops)
           r == memory.queue[1]
<1>1. /\ memory \in Memory /\ ops \in [Ops -> Op] /\ ops[o] \in Op /\ id \in Ids
      /\ Sound(memory, ops, H) /\ StoredInv
  BY IndInvFacts
<1>2. /\ durable /\ q \in Seq(Request) /\ q # <<>> /\ r.op = o /\ r.id = id
      /\ Matches(r, ops[o]) /\ r.kind \in {"save", "delete"} /\ r \in Request /\ Active(o)
  BY RequestServed
<1>3. /\ memory' \in Memory /\ memory'.sessions = memory.sessions
      /\ memory'.entries = memory.entries /\ memory'.reserved = memory.reserved
      /\ DOMAIN memory'.queue = DOMAIN q
      /\ \A i \in DOMAIN q :
           /\ q[i] \in Request
           /\ memory'.queue[i].op = q[i].op /\ memory'.queue[i].kind = q[i].kind
           /\ memory'.queue[i].id = q[i].id /\ memory'.queue[i].content = q[i].content
           /\ memory'.queue[i].phase = IF i = 1 THEN phase ELSE q[i].phase
  BY <1>1, <1>2, NextPhaseFields
<1>4. 1 \in DOMAIN q
  BY <1>2, TailFacts
<1>5. r.content \in Values \cup {Absent} /\ (r.kind = "delete" => r.content = Absent)
  BY <1>2 DEF Matches, Request
<1>6. /\ shelf' \in Store!Shelf /\ shelf'[id] = r.content
      /\ \A k \in Ids : k # id => shelf'[k] = shelf[k]
      /\ atRisk' \subseteq Store!Shelf
  BY <1>1, <1>5 DEF StoredInv, Store!Shelf
<1>7. StoredInv'
  BY <1>1, <1>2, <1>6 DEF StoredInv, Active, Store!Shelf
<1>8. Lessees(ops)' = H
  BY DEF Lessees
<1>9. Typed(memory, ops, Lessees(ops))'
  BY <1>1, <1>3, <1>8 DEF Typed, Lessees
<1> HIDE DEF r
<1>10. QueueInv(memory, ops)'
  <2>1. QueueInv(memory, ops)
    BY <1>1 DEF Sound
  <2>2. ASSUME NEW i \in DOMAIN q
        PROVE  /\ Matches(memory'.queue[i], ops[memory'.queue[i].op])
               /\ memory'.queue[i].phase # "queued" =>
                    /\ i = 1 /\ memory'.queue[i].kind # "load"
                    /\ shelf'[memory'.queue[i].id] = memory'.queue[i].content
               /\ memory'.queue[i].phase = "settled" => atRisk' = {shelf'}
    <3>1. /\ Matches(q[i], ops[q[i].op])
          /\ q[i].phase # "queued" => i = 1
      BY <2>1 DEF QueueInv
    <3>2. Matches(memory'.queue[i], ops[memory'.queue[i].op])
      BY <1>3, <3>1 DEF Matches
    <3>3. i # 1 => memory'.queue[i].phase = "queued"
      BY <1>3, <3>1
    <3>4. i = 1 => /\ memory'.queue[i].kind # "load" /\ memory'.queue[i].phase = phase
                   /\ shelf'[memory'.queue[i].id] = memory'.queue[i].content
      BY <1>2, <1>3, <1>6 DEF r
    <3> QED
      BY <3>2, <3>3, <3>4
  <2>3. \A i, j \in DOMAIN q : memory'.queue[i].op = memory'.queue[j].op => i = j
    BY <1>3, <2>1 DEF QueueInv
  <2>4. \A p \in Ops : ops[p].pc \in {"loading", "saving", "unsaving", "deleting"} =>
          \E i \in DOMAIN q : memory'.queue[i].op = p
    BY <1>3, <2>1 DEF QueueInv
  <2> QED
    BY <1>2, <1>3, <2>2, <2>3, <2>4 DEF QueueInv
<1>11. OrderInv(memory, ops)' /\ ReservedInv(memory)'
  <2>1. OrderInv(memory, ops) /\ ReservedInv(memory)
    BY <1>1 DEF Sound
  <2>2. OrderInv(memory, ops)'
    BY <1>3, <2>1 DEF OrderInv
  <2>3. ReservedInv(memory)'
    BY <1>3, <2>1 DEF ReservedInv
  <2> QED
    BY <2>2, <2>3
<1>12. LeaseInv(memory, ops, Lessees(ops))'
  <2>1. LeaseInv(memory, ops, H)
    BY <1>1 DEF Sound
  <2> QED
    BY <1>3, <1>8, <2>1 DEF LeaseInv, LeaseOf, Born, Lessees
<1>13. PromiseInv(memory, ops, Lessees(ops))'
  <2>1. Promised(ops)' = Promised(ops)
    BY DEF Promised
  <2>2. ASSUME NEW out \in Promised(ops)
        PROVE  Kept(out, memory, ops, Lessees(ops))'
    <3>1. Kept(out, memory, ops, H)
      BY <1>1 DEF Sound, PromiseInv
    <3>2. out.id \in Ids
      BY <1>1 DEF Sound, PromiseInv, Promised, OutputOf, Output, Op
    <3>3. out.id = id => r.content # Absent /\ Restores(r.content, out)
      BY <1>2, <1>4, <3>1 DEF Kept, r
    <3>4. \A d \in atRisk : d[out.id] # Absent /\ Restores(d[out.id], out)
      BY <1>2, <3>1 DEF Kept
    <3>5. shelf'[out.id] # Absent /\ Restores(shelf'[out.id], out)
      BY <1>1, <1>6, <3>2, <3>3, <3>4 DEF StoredInv
    <3>6. \A d \in atRisk' : d[out.id] # Absent /\ Restores(d[out.id], out)
      BY <3>4, <3>5
    <3>7. \A i \in DOMAIN q : q[i].id = out.id /\ q[i].kind # "load" =>
            q[i].content # Absent /\ Restores(q[i].content, out)
      BY <3>1 DEF Kept
    <3>8. \A i \in DOMAIN q : memory'.queue[i].id = out.id /\ memory'.queue[i].kind # "load" =>
            memory'.queue[i].content # Absent /\ Restores(memory'.queue[i].content, out)
      BY <1>3, <3>7
    <3> QED
      BY <1>2, <1>3, <1>8, <3>1, <3>6, <3>8 DEF Kept, Restores
  <2>3. published \subseteq Output /\ \A out \in published : ops[out.op].pc = "done" /\ out.op \notin H
    BY <1>1 DEF Sound, PromiseInv
  <2> QED
    BY <1>8, <2>1, <2>2, <2>3 DEF PromiseInv
<1>14. MatchInv(memory, ops, Lessees(ops))'
  <2> SUFFICES ASSUME NEW k \in Ids, memory'.sessions[k] # None,
                      ~InTransit(k, memory', ops, H)
               PROVE  Matched(k, memory)'
    BY <1>8 DEF MatchInv, InTransit
  <2>1. ~InTransit(k, memory, ops, H)
    BY <1>3 DEF InTransit
  <2>2. Matched(k, memory)
    BY <1>1, <1>2, <1>3, <2>1 DEF Sound, MatchInv
  <2>3. ASSUME NEW i \in DOMAIN q, memory'.queue[i].id = k, LastOf(i, memory)'
        PROVE  memory'.queue[i].content = memory'.entries[memory'.sessions[k]].value
    <3>1. q[i].id = k /\ LastOf(i, memory)
      BY <1>3, <2>3 DEF LastOf
    <3> QED
      BY <1>3, <2>2, <3>1 DEF Matched
  <2>4. ASSUME \A i \in DOMAIN q : memory'.queue[i].id # k
        PROVE  shelf'[k] = memory'.entries[memory'.sessions[k]].value
    <3>1. (\A i \in DOMAIN q : q[i].id # k) /\ k # id
      BY <1>2, <1>3, <1>4, <2>4 DEF r
    <3> QED
      BY <1>3, <1>6, <2>2, <3>1 DEF Matched
  <2> QED
    BY <1>3, <2>3, <2>4 DEF Matched
<1>15. LifecycleInv(memory)'
  <2>1. LifecycleInv(memory)
    BY <1>1 DEF Sound
  <2>2. ASSUME NEW k \in LifecycleIds
        PROVE  (\A d \in atRisk' : d[k] # Absent)
               /\ \A i \in DOMAIN q : q[i].id = k => q[i].kind = "load"
    <3>1. /\ \A d \in atRisk : d[k] # Absent
          /\ \A i \in DOMAIN q : q[i].id = k => q[i].kind = "load"
      BY <1>2, <2>1 DEF LifecycleInv
    <3>2. k # id /\ k \in Ids
      BY <1>2, <1>4, <3>1, ServiceAssumption DEF r
    <3>3. shelf'[k] # Absent
      BY <1>1, <1>6, <3>1, <3>2 DEF StoredInv
    <3> QED
      BY <3>1, <3>3
  <2> QED
    BY <1>2, <1>3, <2>2 DEF LifecycleInv
<1> QED
  BY <1>7, <1>9, <1>10, <1>11, <1>12, <1>13, <1>14, <1>15 DEF IndInv, Sound

LEMMA ChangeShelfKeeps ==
  ASSUME IndInv, NEW o \in Ops, ChangeShelf(o)
  PROVE  IndInv'
<1>1. Serving(o, "save") \/ Serving(o, "delete")
  BY DEF ChangeShelf
<1>2. Head(memory.queue) = memory.queue[1]
  BY <1>1, RequestServed
<1>3. /\ NextPhase("changed") /\ ops' = ops /\ UNCHANGED <<durable, state, published, faulted>>
      /\ shelf' = [shelf EXCEPT ![ops[o].id] = memory.queue[1].content]
      /\ atRisk' = atRisk \cup {shelf'}
  BY <1>2 DEF ChangeShelf, Store!Put
<1> DEFINE phase == "changed"
<1>4. NextPhase(phase) /\ phase \in {"changed", "settled"} /\ phase # "settled"
  BY <1>3
<1> HIDE DEF phase
<1> QED
  BY <1>1, <1>3, <1>4, ServingKeeps

LEMMA SettleShelfKeeps ==
  ASSUME IndInv, NEW o \in Ops, SettleShelf(o)
  PROVE  IndInv'
<1>1. Serving(o, "save") \/ Serving(o, "delete")
  BY DEF SettleShelf
<1>2. /\ Head(memory.queue) = memory.queue[1] /\ memory.queue \in Seq(Request)
      /\ memory.queue # <<>> /\ memory.queue[1].id = ops[o].id
  BY <1>1, RequestServed
<1>3. /\ NextPhase("settled") /\ ops' = ops /\ UNCHANGED <<durable, state, published, faulted>>
      /\ shelf' = shelf /\ atRisk' = {shelf} /\ memory.queue[1].phase = "changed"
  BY <1>2 DEF SettleShelf, Store!Settle, InPhase
<1>4. shelf[ops[o].id] = memory.queue[1].content
  <2>1. 1 \in DOMAIN memory.queue
    BY <1>2, TailFacts
  <2> QED
    BY <1>2, <1>3, <2>1, IndInvFacts DEF Sound, QueueInv
<1>5. shelf' = [shelf EXCEPT ![ops[o].id] = memory.queue[1].content] /\ shelf \in atRisk
  BY <1>3, <1>4, IndInvFacts DEF StoredInv, Store!Shelf
<1> DEFINE phase == "settled"
<1>6. NextPhase(phase) /\ phase \in {"changed", "settled"}
  BY <1>3
<1> HIDE DEF phase
<1> QED
  BY <1>1, <1>3, <1>5, <1>6, ServingKeeps

(* Without a process there is no memory and no call, and what is left is   *)
(* one of the shelves a power loss may leave.                              *)
LEMMA EmptyIsSound ==
  ASSUME IndInv, memory' = EmptyMemory, Forget, ops' \in [Ops -> Op],
         \A o \in Ops : /\ ops'[o].pc \in {"new", "done"}
                        /\ ops[o].pc = "done" => ops'[o].pc = "done",
         durable' = durable, atRisk' \subseteq atRisk, StoredInv'
  PROVE  IndInv'
<1>1. /\ memory' \in Memory /\ memory'.queue = <<>> /\ memory'.reserved = {}
      /\ \A id \in Ids : memory'.sessions[id] = None
  <2>1. <<>> \in Seq(Request)
    OBVIOUS
  <2>2. [o \in Ops |-> NewEntry] \in [Ops -> Entry]
    BY DEF NewEntry, Entry, Values
  <2> QED
    BY <2>1, <2>2 DEF EmptyMemory, Memory
<1>2. Lessees(ops)' = {}
  BY DEF Lessees
<1>3. Sound(memory, ops, Lessees(ops)) /\ published' \subseteq published
      /\ (~durable => published' = {})
  BY IndInvFacts DEF Forget
<1>4. Typed(memory, ops, Lessees(ops))' /\ QueueInv(memory, ops)' /\ OrderInv(memory, ops)'
  BY <1>1, <1>2 DEF Typed, QueueInv, OrderInv
<1>5. ReservedInv(memory)' /\ LeaseInv(memory, ops, Lessees(ops))'
  BY <1>1, <1>2 DEF ReservedInv, LeaseInv, Lessees
<1>6. PromiseInv(memory, ops, Lessees(ops))'
  <2>1. Promised(ops)' = published'
    BY DEF Promised
  <2>2. ASSUME NEW out \in published'
        PROVE  Kept(out, memory, ops, Lessees(ops))' /\ ops'[out.op].pc = "done"
    <3>1. /\ out \in published /\ out \in Promised(ops) /\ durable
          /\ Kept(out, memory, ops, Lessees(ops)) /\ ops[out.op].pc = "done"
          /\ out.id \in Ids /\ out.op \in Ops
      BY <1>3 DEF Sound, PromiseInv, Promised, Output
    <3>2. \A d \in atRisk' : d[out.id] # Absent /\ Restores(d[out.id], out)
      BY <3>1 DEF Kept
    <3>3. Kept(out, memory, ops, Lessees(ops))'
      BY <1>1, <1>2, <3>1, <3>2 DEF Kept, Restores
    <3> QED
      BY <3>1, <3>3
  <2>3. published' \subseteq Output
    BY <1>3 DEF Sound, PromiseInv
  <2> QED
    BY <1>2, <2>1, <2>2, <2>3 DEF PromiseInv
<1>7. MatchInv(memory, ops, Lessees(ops))'
  BY <1>1 DEF MatchInv
<1>8. LifecycleInv(memory)'
  BY <1>1, <1>3 DEF Sound, LifecycleInv
<1> QED
  BY <1>4, <1>5, <1>6, <1>7, <1>8 DEF IndInv, Sound

LEMMA FinishCloseKeeps ==
  ASSUME IndInv, FinishClose
  PROVE  IndInv'
<1>1. /\ memory' = EmptyMemory /\ Forget /\ ops' = ops /\ \A o \in Ops : ~Active(o)
      /\ state' = "closed" /\ UNCHANGED <<durable, shelf, atRisk, faulted>>
  BY DEF FinishClose, ShelfVars
<1>2. \A o \in Ops : ops[o].pc \in {"new", "done"}
  BY <1>1 DEF Active
<1>3. StoredInv'
  BY <1>1, IndInvFacts DEF StoredInv, Active, Store!Shelf
<1> QED
  BY <1>1, <1>2, <1>3, IndInvFacts, EmptyIsSound

LEMMA KillKeeps ==
  ASSUME IndInv, Kill
  PROVE  IndInv'
<1>1. /\ memory' = EmptyMemory /\ Forget /\ ops' = Lost /\ state' = "down"
      /\ UNCHANGED <<durable, faulted>>
  BY DEF Kill
<1>2. shelf' \in atRisk /\ atRisk' \subseteq atRisk /\ shelf' \in atRisk'
  BY IndInvFacts DEF Kill, ShelfVars, Store!PowerLoss, StoredInv
<1>3. /\ ops' \in [Ops -> Op]
      /\ \A o \in Ops : /\ ops'[o].pc \in {"new", "done"}
                        /\ ops[o].pc = "done" => ops'[o].pc = "done"
  <2>1. ASSUME NEW o \in Ops
        PROVE  /\ Lost[o] \in Op /\ Lost[o].pc \in {"new", "done"}
               /\ ops[o].pc = "done" => Lost[o].pc = "done"
    <3>1. CASE Active(o)
      <4>1. Lost[o] = [ops[o] EXCEPT !.pc = "done", !.outcome = "lost"] /\ ops[o] \in Op
        BY <3>1, IndInvFacts DEF Lost
      <4> QED
        BY <4>1 DEF Op
    <3>2. CASE ~Active(o)
      BY <3>2, IndInvFacts DEF Lost, Active
    <3> QED
      BY <3>1, <3>2
  <2>2. Lost \in [Ops -> Op]
    BY <2>1 DEF Lost
  <2> QED
    BY <1>1, <2>1, <2>2
<1>4. StoredInv'
  BY <1>1, <1>2, <1>3, IndInvFacts DEF StoredInv, Active, Store!Shelf
<1> QED
  BY <1>1, <1>2, <1>3, <1>4, EmptyIsSound

(* A change of the server's state or of nothing.                           *)
LEMMA StateKeeps ==
  ASSUME IndInv, UNCHANGED <<durable, memory, ops, shelf, atRisk, published, faulted>>,
         state' = state \/ Close \/ Restart
  PROVE  IndInv'
<1>1. StoredInv'
  BY IndInvFacts DEF StoredInv, Close, Restart, Active, Store!Shelf
<1> DEFINE cs == ops
           m == memory
           H == Lessees(cs)
           more == {}
<1>2. /\ Sound(m, cs, H) /\ H = Lessees(cs) /\ memory' = m /\ ops' = cs
      /\ UNCHANGED <<durable, shelf, atRisk>> /\ published' = published \cup more
      /\ \A out \in more : /\ out \in Output /\ Kept(out, m, cs, H)
                           /\ cs[out.op].pc = "done" /\ out.op \notin H
  BY IndInvFacts
<1> HIDE DEF cs, m, H, more
<1> QED
  BY <1>1, <1>2, SoundNext

LEMMA InitIsSound ==
  ASSUME Init
  PROVE  IndInv
<1>1. /\ durable \in BOOLEAN /\ state = "open" /\ memory = EmptyMemory
      /\ atRisk = {shelf} /\ published = {} /\ faulted = {}
      /\ shelf = [id \in Ids |-> IF durable /\ id \in LifecycleIds THEN <<>> ELSE Absent]
  BY ServiceAssumption DEF Init
<1>2. /\ memory \in Memory /\ memory.queue = <<>> /\ memory.reserved = {}
      /\ \A id \in Ids : memory.sessions[id] = None
  <2>1. <<>> \in Seq(Request)
    OBVIOUS
  <2>2. [o \in Ops |-> NewEntry] \in [Ops -> Entry]
    BY DEF NewEntry, Entry, Values
  <2> QED
    BY <1>1, <2>1, <2>2 DEF EmptyMemory, Memory
<1>3. ops \in [Ops -> Op] /\ \A o \in Ops : ops[o].pc = "new"
  <2> DEFINE id == CHOOSE id \in Ids : TRUE
             c == [pc |-> "new", kind |-> "anonymize", id |-> id,
                   entry |-> None, rollback |-> "release",
                   checkpoint |-> <<>>, outcome |-> "pending"]
  <2>1. id \in Ids
    BY ServiceAssumption
  <2>2. ops \in [Ops -> {c}]
    BY DEF Init
  <2> HIDE DEF id
  <2>3. c \in Op /\ c.pc = "new"
    BY <2>1 DEF Op, Values
  <2> HIDE DEF c
  <2> QED
    BY <2>2, <2>3
<1>4. Lessees(ops) = {} /\ Promised(ops) = {}
  BY <1>1, <1>3 DEF Lessees, Promised
<1>5. shelf \in Store!Shelf
  <2>1. <<>> \in Values
    BY DEF Values
  <2> QED
    BY <1>1, <2>1 DEF Store!Shelf
<1>6. StoredInv
  BY <1>1, <1>5 DEF StoredInv
<1>7. Typed(memory, ops, Lessees(ops)) /\ QueueInv(memory, ops) /\ OrderInv(memory, ops)
  BY <1>2, <1>3, <1>4 DEF Typed, QueueInv, OrderInv
<1>8. ReservedInv(memory) /\ LeaseInv(memory, ops, Lessees(ops))
  BY <1>2, <1>4 DEF ReservedInv, LeaseInv
<1>9. PromiseInv(memory, ops, Lessees(ops)) /\ MatchInv(memory, ops, Lessees(ops))
  BY <1>1, <1>2, <1>4 DEF PromiseInv, MatchInv
<1>10. LifecycleInv(memory)
  <2>1. ASSUME durable, NEW id \in LifecycleIds
        PROVE  shelf[id] # Absent
    <3>1. id \in Ids /\ shelf[id] = <<>> /\ <<>> \in Seq(Ops)
      BY <1>1, <2>1, ServiceAssumption
    <3> QED
      BY <3>1, ServiceAssumption
  <2> QED
    BY <1>1, <1>2, <2>1 DEF LifecycleInv
<1> QED
  BY <1>6, <1>7, <1>8, <1>9, <1>10 DEF IndInv, Sound

LEMMA NextKeeps ==
  ASSUME IndInv, [Next]_vars
  PROVE  IndInv'
<1>1. ASSUME NEW o \in Ops, NEW kind \in {"anonymize", "restore"}, NEW id \in Ids,
             Admit(o, kind, id)
      PROVE  IndInv'
  BY <1>1, AdmitKeeps
<1>2. ASSUME NEW o \in Ops, Work(o)
      PROVE  IndInv'
  <2>1. CASE RefuseCall(o)
    BY <2>1, RefuseCallKeeps
  <2>2. CASE AnonymizeInMemory(o)
    BY <2>2, AnonymizeInMemoryKeeps
  <2>3. CASE AnonymizeNew(o)
    BY <2>3, AnonymizeNewKeeps
  <2>4. CASE LoadSession(o)
    BY <2>4, LoadSessionKeeps
  <2>5. CASE ReadInMemory(o)
    BY <2>5, ReadInMemoryKeeps
  <2>6. CASE ChangeShelf(o)
    BY <2>6, ChangeShelfKeeps
  <2>7. CASE SettleShelf(o)
    BY <2>7, SettleShelfKeeps
  <2>8. CASE LoadFails(o)
    BY <2>8, LoadFailsKeeps
  <2>9. CASE LoadSucceeds(o)
    BY <2>9, LoadSucceedsKeeps
  <2>10. CASE LoadStrands(o)
    BY <2>10, LoadStrandsKeeps
  <2>11. CASE SaveSucceeds(o)
    BY <2>11, SaveSucceedsKeeps
  <2>12. CASE SaveFails(o)
    BY <2>12, SaveFailsKeeps
  <2>13. CASE RollbackStored(o)
    BY <2>13, RollbackStoredKeeps
  <2>14. CASE RollbackLost(o)
    BY <2>14, RollbackLostKeeps
  <2>15. CASE Publish(o)
    BY <2>15, PublishKeeps
  <2>16. CASE PublishFails(o)
    BY <2>16, PublishFailsKeeps
  <2> QED
    BY <1>2, <2>1, <2>2, <2>3, <2>4, <2>5, <2>6, <2>7, <2>8, <2>9, <2>10, <2>11, <2>12,
       <2>13, <2>14, <2>15, <2>16 DEF Work
<1>3. CASE Close
  BY <1>3, StateKeeps DEF Close, ShelfVars
<1>4. CASE FinishClose
  BY <1>4, FinishCloseKeeps
<1>5. CASE Kill
  BY <1>5, KillKeeps
<1>6. CASE Restart
  BY <1>6, StateKeeps DEF Restart, ShelfVars
<1>7. CASE UNCHANGED vars
  BY <1>7, StateKeeps DEF vars
<1> QED
  BY <1>1, <1>2, <1>3, <1>4, <1>5, <1>6, <1>7 DEF Next

(* The invariant is inductive: every step of every call, and of the        *)
(* server's own life, keeps it.                                            *)
THEOREM Inductive == Spec => []IndInv
<1>1. Init => IndInv
  BY InitIsSound
<1>2. IndInv /\ [Next]_vars => IndInv'
  BY NextKeeps
<1> QED
  BY <1>1, <1>2, PTL DEF Spec

-----------------------------------------------------------------------------
(* What the invariant says of the properties                               *)

(* Every component of the state keeps its type, for any number of          *)
(* sessions, calls and starts of the server.                               *)
THEOREM TypeCorrect == Spec => []TypeOK
<1>1. IndInv => TypeOK
  BY DEF IndInv, StoredInv, Sound, Typed, PromiseInv, TypeOK
<1> QED
  BY <1>1, Inductive, PTL

(* An output that was published restores: whichever calls run meanwhile,   *)
(* fail and roll back, and whenever the server or the power fails, the     *)
(* memory and every shelf that may be left hold the output's placeholders. *)
THEOREM OutputsRestore == Spec => []PublishedOutputsRestore
<1>1. ASSUME IndInv
      PROVE  PublishedOutputsRestore
  <2>1. /\ \A out \in published : Kept(out, memory, ops, Lessees(ops)) /\ out.id \in Ids
        /\ shelf \in atRisk
    BY <1>1, IndInvFacts DEF Sound, PromiseInv, Promised, StoredInv, Output
  <2>2. \A id \in Live : PublishedIn(memory.entries[memory.sessions[id]].value, id)
    BY <2>1 DEF Kept, Live, PublishedIn
  <2>3. ASSUME durable, NEW d \in atRisk \cup {shelf}, NEW id \in Ids,
               \E output \in published : output.id = id
        PROVE  d[id] # Absent /\ PublishedIn(d[id], id)
    BY <2>1, <2>3 DEF Kept, PublishedIn
  <2>4. ~durable => \A output \in published : output.id \in Live
    BY <2>1 DEF Kept, Live
  <2> QED
    BY <2>2, <2>3, <2>4 DEF PublishedOutputsRestore
<1> QED
  BY <1>1, Inductive, PTL

(* No session of this server stays reserved or leased without a call that  *)
(* is going to release it.                                                 *)
THEOREM NoOwnStuck == Spec => []NoOwnSessionIsStuck
<1>1. ASSUME IndInv, NEW id \in Ids \ LifecycleIds
      PROVE  Usable(id)
  <2> DEFINE H == Lessees(ops)
  <2>1. /\ Sound(memory, ops, H) /\ memory.queue \in Seq(Request)
        /\ memory.sessions \in [Ids -> Ops \cup {None}]
    BY <1>1, IndInvFacts DEF Memory
  <2>2. \A i \in DOMAIN memory.queue :
          /\ i \in Nat /\ memory.queue[i] \in Request /\ memory.queue[i].op \in Ops
          /\ Matches(memory.queue[i], ops[memory.queue[i].op])
    <3>1. ASSUME NEW i \in DOMAIN memory.queue
          PROVE  i \in Nat /\ memory.queue[i] \in Request
      BY <2>1
    <3>2. \A i \in DOMAIN memory.queue : Matches(memory.queue[i], ops[memory.queue[i].op])
      BY <2>1 DEF Sound, QueueInv
    <3> QED
      BY <3>1, <3>2 DEF Request
  <2>3. ASSUME id \in memory.reserved
        PROVE  ExactlyOne({o \in Ops : ops[o].pc = "loading" /\ ops[o].id = id})
    <3>1. PICK i \in DOMAIN memory.queue :
            memory.queue[i].kind = "load" /\ memory.queue[i].id = id
      BY <2>1, <2>3 DEF Sound, ReservedInv
    <3> DEFINE o == memory.queue[i].op
    <3>2. o \in Ops /\ ops[o].pc = "loading" /\ ops[o].id = id
      BY <2>2, <3>1 DEF Matches
    <3>3. ASSUME NEW p \in Ops, ops[p].pc = "loading", ops[p].id = id
          PROVE  p = o
      <4>1. PICK j \in DOMAIN memory.queue : memory.queue[j].op = p
        BY <2>1, <3>3 DEF Sound, QueueInv
      <4>2. memory.queue[j].id = id /\ memory.queue[j].kind = "load"
        BY <2>2, <3>3, <4>1 DEF Matches, Request
      <4>3. ~(i < j) /\ ~(j < i)
        BY <2>1, <3>1, <4>2 DEF Sound, OrderInv
      <4> QED
        BY <2>2, <4>1, <4>3
    <3> QED
      BY <3>2, <3>3 DEF ExactlyOne
  <2>4. ASSUME id \in Live
        PROVE  LET e == memory.sessions[id] IN
               IF memory.entries[e].status = "ready"
               THEN \A o \in Ops : ~HasLease(o, e)
               ELSE ExactlyOne({o \in Ops : HasLease(o, e)})
    <3> DEFINE e == memory.sessions[id]
    <3>1. \A o \in Ops : HasLease(o, e) <=> o \in H /\ ops[o].entry = e
      BY DEF HasLease, Lessees
    <3>2. memory.entries[e].status = "ready" => \A o \in H : ops[o].entry # e
      BY <2>1 DEF Sound, LeaseInv, LeaseOf
    <3>3. memory.entries[e].status # "ready" => \E o \in H : ops[o].entry = e
      BY <2>1, <2>4 DEF Sound, LeaseInv, Live
    <3>4. \A o, p \in H : ops[o].entry = e /\ ops[p].entry = e => o = p
      BY <2>1 DEF Sound, LeaseInv
    <3>5. H \subseteq Ops
      BY DEF Lessees
    <3> HIDE DEF H
    <3>6. CASE memory.entries[e].status = "ready"
      BY <3>1, <3>2, <3>6
    <3>7. CASE memory.entries[e].status # "ready"
      <4>1. PICK o \in H : ops[o].entry = e
        BY <3>3, <3>7
      <4>2. {p \in Ops : HasLease(p, e)} = {o}
        BY <3>1, <3>4, <3>5, <4>1
      <4> QED
        BY <3>5, <3>7, <4>1, <4>2 DEF ExactlyOne
    <3> QED
      BY <3>6, <3>7
  <2> QED
    BY <2>3, <2>4 DEF Usable
<1>2. IndInv => NoOwnSessionIsStuck
  BY <1>1 DEF NoOwnSessionIsStuck
<1> QED
  BY <1>2, Inductive, PTL

(* Between the calls on a session, memory and store agree on its value.    *)
THEOREM MemoryIsTheShelf == Spec => []MemoryMatchesShelf
<1>1. ASSUME IndInv, durable, NEW id \in Live, \A o \in Ops : ~Using(o, id)
      PROVE  shelf[id] = memory.entries[memory.sessions[id]].value
  <2>1. /\ Sound(memory, ops, Lessees(ops)) /\ id \in Ids /\ memory.sessions[id] # None
        /\ memory.queue \in Seq(Request)
    BY <1>1, IndInvFacts DEF Live, Memory
  <2>2. ~InTransit(id, memory, ops, Lessees(ops))
    BY DEF InTransit, Lessees
  <2>3. Matched(id, memory)
    BY <1>1, <2>1, <2>2 DEF Sound, MatchInv
  <2>4. ASSUME NEW i \in DOMAIN memory.queue
        PROVE  memory.queue[i].id # id
    <3>1. /\ memory.queue[i] \in Request /\ memory.queue[i].op \in Ops
          /\ Matches(memory.queue[i], ops[memory.queue[i].op])
      <4>1. memory.queue[i] \in Request
        BY <2>1
      <4>2. Matches(memory.queue[i], ops[memory.queue[i].op])
        BY <2>1 DEF Sound, QueueInv
      <4> QED
        BY <4>1, <4>2 DEF Request
    <3>2. Active(memory.queue[i].op) /\ memory.queue[i].id = ops[memory.queue[i].op].id
      BY <3>1 DEF Matches, Request, Active
    <3> QED
      BY <1>1, <3>1, <3>2 DEF Using
  <2> QED
    BY <2>3, <2>4 DEF Matched
<1>2. IndInv => MemoryMatchesShelf
  BY <1>1 DEF MemoryMatchesShelf
<1> QED
  BY <1>2, Inductive, PTL

-----------------------------------------------------------------------------
(* What a failed call leaves behind                                        *)

Holds(value, o) == value # Absent /\ \E i \in DOMAIN value : value[i] = o

InMemory(o, id, m) ==
  m.sessions[id] # None /\ Holds(m.entries[m.sessions[id]].value, o)

InQueue(o, id, m) ==
  \E i \in DOMAIN m.queue : m.queue[i].id = id /\ Holds(m.queue[i].content, o)

InCheckpoints(o, id, cs) ==
  \E p \in Lessees(cs) : cs[p].id = id /\ Holds(cs[p].checkpoint, o)

(* What the server may still make of a session has entities of the call.   *)
Known(o, id, m, cs) == InMemory(o, id, m) \/ InQueue(o, id, m) \/ InCheckpoints(o, id, cs)

Stored(o, id) == \E d \in atRisk : Holds(d[id], o)

(* The calls that have not redacted yet or never will.                     *)
Untouching(cs) ==
  {o \in Ops : cs[o].pc \in {"new", "admitted", "loading"} \/ cs[o].kind = "restore"}

(* The calls whose rollback of the session was decided.                    *)
Undone(id, cs) ==
  {o \in Ops : /\ cs[o].id = id /\ cs[o].outcome \in {"failed", "unpublished"}
               /\ cs[o].pc \in {"unsaving", "deleting", "done"}}

(* A call that may yet fail can still be taken back: its entry is the one  *)
(* in memory, its checkpoint is from before it, and what is queued when it *)
(* publishes was queued by others.                                         *)
LesseeInv(p, id, m, cs) ==
  /\ m.sessions[id] = cs[p].entry /\ ~Holds(cs[p].checkpoint, p)
  /\ cs[p].pc = "publishing" => ~InQueue(p, id, m)
  /\ cs[p].rollback = "delete" =>
       \A i \in DOMAIN m.queue : m.queue[i].id = id => m.queue[i].op = p

(* A delete is the first request of its session, and one that finds no     *)
(* archive has nothing to remove.                                          *)
DeleteInv(id, m) ==
  \A i \in DOMAIN m.queue : m.queue[i].id = id /\ m.queue[i].kind = "delete" =>
    /\ \A l \in DOMAIN m.queue : l < i => m.queue[l].id # id
    /\ m.queue[i].phase = "queued" => shelf[id] # Absent \/ ~Stored(m.queue[i].op, id)

TraceOf(id, m, cs) ==
  /\ \A o \in Untouching(cs) : ~Known(o, id, m, cs) /\ ~Stored(o, id)
  /\ \A o \in Undone(id, cs) :
       ~Known(o, id, m, cs) /\ (cs[o].pc = "done" => ~Stored(o, id))
  /\ \A p \in Lessees(cs) : cs[p].id = id => LesseeInv(p, id, m, cs)
  /\ DeleteInv(id, m)
  /\ ~durable => \A d \in atRisk : d[id] = Absent

TraceInv == \A id \in Ids \ faulted : TraceOf(id, memory, ops)

(* The queue of n has of the session only what the queue of m has, in the  *)
(* same order.                                                             *)
QueueWithin(id, n, m) ==
  \A i \in DOMAIN n.queue : n.queue[i].id = id =>
    \E j \in DOMAIN m.queue :
      /\ m.queue[j] = n.queue[i]
      /\ (\E l \in DOMAIN n.queue : l < i /\ n.queue[l].id = id) =>
           \E h \in DOMAIN m.queue : h < j /\ m.queue[h].id = id

(* n differs from m only in what belongs to the session k.                 *)
OnlyOf(k, n, m) ==
  \A id \in Ids \ {k} :
    /\ n.sessions[id] = m.sessions[id]
    /\ m.sessions[id] # None =>
         n.entries[m.sessions[id]].value = m.entries[m.sessions[id]].value
    /\ QueueWithin(id, n, m)

LEMMA AppendHolds ==
  ASSUME NEW value \in Values, NEW o \in Ops, NEW p, p # o, Holds(Grown(value, o), p)
  PROVE  Holds(value, p)
<1>1. PICK i \in DOMAIN Grown(value, o) : Grown(value, o)[i] = p
  BY DEF Holds
<1>2. /\ DOMAIN value = 1..Len(value) /\ Len(value) \in Nat
      /\ DOMAIN Grown(value, o) = 1..(Len(value) + 1)
      /\ \A j \in DOMAIN value : Grown(value, o)[j] = value[j]
      /\ Grown(value, o)[Len(value) + 1] = o
  BY AppendFacts DEF Grown, Values
<1>3. i \in DOMAIN value
  BY <1>1, <1>2
<1>4. value # Absent
  BY ServiceAssumption DEF Values
<1> QED
  BY <1>1, <1>2, <1>3, <1>4 DEF Holds

LEMMA NothingHeld ==
  \A o : ~Holds(Absent, o) /\ ~Holds(<<>>, o)
BY DEF Holds

LEMMA WithinItself ==
  ASSUME NEW id, NEW n, NEW m, n.queue = m.queue
  PROVE  QueueWithin(id, n, m)
BY DEF QueueWithin

LEMMA WithinWithin ==
  ASSUME NEW id, NEW n, NEW m, NEW x, QueueWithin(id, x, n), QueueWithin(id, n, m)
  PROVE  QueueWithin(id, x, m)
BY DEF QueueWithin

LEMMA TailWithin ==
  ASSUME NEW id, NEW n, NEW m \in Memory, m.queue # <<>>, n.queue = Tail(m.queue)
  PROVE  QueueWithin(id, n, m)
<1>1. m.queue \in Seq(Request)
  BY DEF Memory
<1>2. /\ DOMAIN m.queue = 1..Len(m.queue) /\ Len(m.queue) \in Nat
      /\ DOMAIN n.queue = 1..(Len(m.queue) - 1)
      /\ \A i \in DOMAIN n.queue : i + 1 \in DOMAIN m.queue /\ n.queue[i] = m.queue[i + 1]
  BY <1>1, TailFacts
<1> SUFFICES ASSUME NEW i \in DOMAIN n.queue, n.queue[i].id = id
             PROVE  /\ m.queue[i + 1] = n.queue[i]
                    /\ \A l \in DOMAIN n.queue : l < i /\ n.queue[l].id = id =>
                         \E h \in DOMAIN m.queue : h < i + 1 /\ m.queue[h].id = id
  BY <1>2 DEF QueueWithin
<1>3. \A l \in DOMAIN n.queue : l < i => l + 1 < i + 1
  BY <1>2
<1> QED
  BY <1>2, <1>3

LEMMA AppendWithin ==
  ASSUME NEW id, NEW n, NEW m \in Memory, NEW r \in Request, r.id # id,
         n.queue = Append(m.queue, r)
  PROVE  QueueWithin(id, n, m)
<1>1. m.queue \in Seq(Request)
  BY DEF Memory
<1>2. /\ DOMAIN m.queue = 1..Len(m.queue) /\ Len(m.queue) \in Nat
      /\ DOMAIN n.queue = 1..(Len(m.queue) + 1) /\ n.queue[Len(m.queue) + 1] = r
      /\ \A i \in DOMAIN m.queue : n.queue[i] = m.queue[i]
  BY <1>1, AppendFacts
<1>3. \A i \in DOMAIN n.queue : n.queue[i].id = id => i \in DOMAIN m.queue
  BY <1>2
<1> QED
  BY <1>2, <1>3 DEF QueueWithin

LEMMA QueueKnown ==
  ASSUME NEW id, NEW n, NEW m, QueueWithin(id, n, m)
  PROVE  /\ \A o : InQueue(o, id, n) => InQueue(o, id, m)
         /\ DeleteInv(id, m) => DeleteInv(id, n)
<1>1. \A o : InQueue(o, id, n) => InQueue(o, id, m)
  BY DEF InQueue, QueueWithin
<1>2. ASSUME DeleteInv(id, m), NEW i \in DOMAIN n.queue, n.queue[i].id = id,
             n.queue[i].kind = "delete"
      PROVE  /\ \A l \in DOMAIN n.queue : l < i => n.queue[l].id # id
             /\ n.queue[i].phase = "queued" => shelf[id] # Absent \/ ~Stored(n.queue[i].op, id)
  <2>1. PICK j \in DOMAIN m.queue :
          /\ m.queue[j] = n.queue[i]
          /\ (\E l \in DOMAIN n.queue : l < i /\ n.queue[l].id = id) =>
               \E h \in DOMAIN m.queue : h < j /\ m.queue[h].id = id
    BY <1>2 DEF QueueWithin
  <2>2. /\ \A l \in DOMAIN m.queue : l < j => m.queue[l].id # id
        /\ m.queue[j].phase = "queued" => shelf[id] # Absent \/ ~Stored(m.queue[j].op, id)
    BY <1>2, <2>1 DEF DeleteInv
  <2> QED
    BY <2>1, <2>2
<1> QED
  BY <1>1, <1>2 DEF DeleteInv

(* A request of the session is appended: it is no delete, or the only one  *)
(* of the session.                                                         *)
LEMMA AppendDelete ==
  ASSUME NEW id, NEW n, NEW m \in Memory, NEW r \in Request,
         n.queue = Append(m.queue, r), DeleteInv(id, m),
         r.kind = "delete" =>
           /\ \A i \in DOMAIN m.queue : m.queue[i].id # id
           /\ shelf[id] # Absent \/ ~Stored(r.op, id)
  PROVE  /\ DeleteInv(id, n)
         /\ \A o : InQueue(o, id, n) => InQueue(o, id, m) \/ Holds(r.content, o)
<1>1. m.queue \in Seq(Request)
  BY DEF Memory
<1>2. /\ DOMAIN m.queue = 1..Len(m.queue) /\ Len(m.queue) \in Nat
      /\ DOMAIN n.queue = 1..(Len(m.queue) + 1) /\ n.queue[Len(m.queue) + 1] = r
      /\ \A i \in DOMAIN m.queue : n.queue[i] = m.queue[i]
      /\ \A i \in DOMAIN n.queue : i \in DOMAIN m.queue \/ i = Len(m.queue) + 1
  <2>1. /\ DOMAIN m.queue = 1..Len(m.queue) /\ Len(m.queue) \in Nat
        /\ DOMAIN n.queue = 1..(Len(m.queue) + 1) /\ n.queue[Len(m.queue) + 1] = r
        /\ \A i \in DOMAIN m.queue : n.queue[i] = m.queue[i]
    BY <1>1, AppendFacts
  <2> QED
    BY <2>1
<1>3. \A o : InQueue(o, id, n) => InQueue(o, id, m) \/ Holds(r.content, o)
  BY <1>2 DEF InQueue
<1>4. ASSUME NEW i \in DOMAIN n.queue, n.queue[i].id = id, n.queue[i].kind = "delete"
      PROVE  /\ \A l \in DOMAIN n.queue : l < i => n.queue[l].id # id
             /\ n.queue[i].phase = "queued" => shelf[id] # Absent \/ ~Stored(n.queue[i].op, id)
  <2>1. \A l \in DOMAIN n.queue : l < i => l \in DOMAIN m.queue
    BY <1>2
  <2>2. CASE i \in DOMAIN m.queue
    BY <1>2, <1>4, <2>1, <2>2 DEF DeleteInv
  <2>3. CASE i = Len(m.queue) + 1
    BY <1>2, <1>4, <2>1, <2>3
  <2> QED
    BY <1>2, <2>2, <2>3
<1> QED
  BY <1>3, <1>4 DEF DeleteInv

(* A step of the call o keeps what is said of a session when it brings     *)
(* nothing of other calls there and leaves to other lessees what is        *)
(* theirs.                                                                 *)
LEMMA TraceKept ==
  ASSUME NEW id, NEW m, NEW cs, NEW n, NEW new, NEW o \in Ops,
         TraceOf(id, m, cs), Others(cs, new, o),
         \A p \in Ops \ {o} : Known(p, id, n, new) => Known(p, id, m, cs),
         \A p \in Lessees(cs) \ {o} : cs[p].id = id =>
           n.sessions[id] = m.sessions[id] /\ QueueWithin(id, n, m),
         DeleteInv(id, n),
         o \in Untouching(new) => ~Known(o, id, n, new) /\ ~Stored(o, id),
         o \in Undone(id, new) =>
           ~Known(o, id, n, new) /\ (new[o].pc = "done" => ~Stored(o, id)),
         o \in Lessees(new) /\ new[o].id = id => LesseeInv(o, id, n, new)
  PROVE  TraceOf(id, n, new)
<1>1. \A p \in Ops \ {o} : new[p] = cs[p]
  BY DEF Others
<1>2. ASSUME NEW p \in Untouching(new)
      PROVE  ~Known(p, id, n, new) /\ ~Stored(p, id)
  <2>1. CASE p = o
    BY <1>2, <2>1
  <2>2. CASE p # o
    <3>1. p \in Ops \ {o} /\ p \in Untouching(cs)
      BY <1>1, <1>2, <2>2 DEF Untouching
    <3> QED
      BY <3>1 DEF TraceOf
  <2> QED
    BY <2>1, <2>2
<1>3. ASSUME NEW p \in Undone(id, new)
      PROVE  ~Known(p, id, n, new) /\ (new[p].pc = "done" => ~Stored(p, id))
  <2>1. CASE p = o
    BY <1>3, <2>1
  <2>2. CASE p # o
    <3>1. p \in Ops \ {o} /\ p \in Undone(id, cs) /\ new[p] = cs[p]
      BY <1>1, <1>3, <2>2 DEF Undone
    <3> QED
      BY <3>1 DEF TraceOf
  <2> QED
    BY <2>1, <2>2
<1>4. ASSUME NEW p \in Lessees(new), new[p].id = id
      PROVE  LesseeInv(p, id, n, new)
  <2>1. CASE p = o
    BY <1>4, <2>1
  <2>2. CASE p # o
    <3>1. p \in Lessees(cs) \ {o} /\ cs[p] = new[p]
      BY <1>1, <1>4, <2>2 DEF Lessees
    <3>2. /\ n.sessions[id] = m.sessions[id] /\ QueueWithin(id, n, m)
          /\ LesseeInv(p, id, m, cs)
      BY <1>4, <3>1 DEF TraceOf
    <3>3. InQueue(p, id, n) => InQueue(p, id, m)
      BY <3>2, QueueKnown
    <3> QED
      BY <3>1, <3>2, <3>3 DEF LesseeInv, QueueWithin
  <2> QED
    BY <2>1, <2>2
<1>5. ~durable => \A d \in atRisk : d[id] = Absent
  BY DEF TraceOf
<1> QED
  BY <1>2, <1>3, <1>4, <1>5 DEF TraceOf

(* A step of a call on another session.                                    *)
LEMMA AsideTraced ==
  ASSUME NEW id, NEW m, NEW cs, NEW n, NEW new, NEW o \in Ops,
         TraceOf(id, m, cs), Others(cs, new, o), cs[o].id # id, new[o].id # id,
         o \in Untouching(new) => o \in Untouching(cs),
         n.sessions[id] = m.sessions[id],
         m.sessions[id] # None =>
           n.entries[m.sessions[id]].value = m.entries[m.sessions[id]].value,
         QueueWithin(id, n, m)
  PROVE  TraceOf(id, n, new)
<1>1. \A p \in Ops \ {o} : new[p] = cs[p]
  BY DEF Others
<1>2. ASSUME NEW p
      PROVE  Known(p, id, n, new) => Known(p, id, m, cs)
  <2>1. InMemory(p, id, n) => InMemory(p, id, m)
    BY DEF InMemory
  <2>2. InQueue(p, id, n) => InQueue(p, id, m)
    BY QueueKnown
  <2>3. InCheckpoints(p, id, new) => InCheckpoints(p, id, cs)
    BY <1>1 DEF InCheckpoints, Lessees
  <2> QED
    BY <2>1, <2>2, <2>3 DEF Known
<1>3. DeleteInv(id, n)
  BY QueueKnown DEF TraceOf
<1>4. o \in Untouching(new) => ~Known(o, id, n, new) /\ ~Stored(o, id)
  BY <1>2 DEF TraceOf
<1>5. o \notin Undone(id, new)
  BY DEF Undone
<1> QED
  BY <1>2, <1>3, <1>4, <1>5, TraceKept

(* The store stays as it is in a step.                                     *)
LEMMA TraceNext ==
  ASSUME NEW n, NEW new, memory' = n, ops' = new, UNCHANGED <<durable, shelf, atRisk>>,
         \A id \in Ids \ faulted' : TraceOf(id, n, new)
  PROVE  TraceInv'
<1>1. \A id \in Ids \ faulted' : TraceOf(id, memory', ops')
  OBVIOUS
<1> QED
  BY <1>1 DEF TraceInv, TraceOf, Known, InMemory, InQueue, InCheckpoints, Stored, Untouching,
              Undone, LesseeInv, DeleteInv, Holds, Lessees

(* A step of a call changes what is said of its session only.              *)
LEMMA StepTraced ==
  ASSUME TraceInv, NEW o \in Ops, NEW n, NEW new, memory' = n, ops' = new,
         UNCHANGED <<durable, shelf, atRisk>>, faulted \subseteq faulted',
         Others(ops, new, o), new[o].id = ops[o].id,
         o \in Untouching(new) => o \in Untouching(ops), OnlyOf(ops[o].id, n, memory),
         ops[o].id \in Ids \ faulted' => TraceOf(ops[o].id, n, new)
  PROVE  TraceInv'
<1>1. ASSUME NEW id \in Ids \ faulted'
      PROVE  TraceOf(id, n, new)
  <2>1. CASE id = ops[o].id
    BY <2>1
  <2>2. CASE id # ops[o].id
    <3>1. id \in Ids \ faulted /\ TraceOf(id, memory, ops)
      BY DEF TraceInv
    <3>2. /\ n.sessions[id] = memory.sessions[id] /\ QueueWithin(id, n, memory)
          /\ memory.sessions[id] # None =>
               n.entries[memory.sessions[id]].value = memory.entries[memory.sessions[id]].value
      BY <2>2 DEF OnlyOf
    <3> QED
      BY <2>2, <3>1, <3>2, AsideTraced
  <2> QED
    BY <2>1, <2>2
<1> QED
  BY <1>1, TraceNext

-----------------------------------------------------------------------------
(* The changes of a step that are its session's only                       *)

LEMMA OnlyItself ==
  ASSUME NEW k, NEW n, NEW m, n.sessions = m.sessions, n.queue = m.queue,
         \A id \in Ids \ {k} : m.sessions[id] # None =>
           n.entries[m.sessions[id]].value = m.entries[m.sessions[id]].value
  PROVE  OnlyOf(k, n, m)
BY WithinItself DEF OnlyOf

LEMMA OnlyOnly ==
  ASSUME NEW k, NEW x, NEW n, NEW m, OnlyOf(k, x, n), OnlyOf(k, n, m)
  PROVE  OnlyOf(k, x, m)
BY WithinWithin DEF OnlyOf

LEMMA DropOnly ==
  ASSUME NEW m \in Memory, NEW k \in Ids
  PROVE  OnlyOf(k, Drop(m, k), m)
<1>1. /\ Drop(m, k).sessions = [m.sessions EXCEPT ![k] = None]
      /\ Drop(m, k).entries = m.entries /\ Drop(m, k).queue = m.queue
  BY DropFields
<1>2. \A id \in Ids \ {k} : Drop(m, k).sessions[id] = m.sessions[id]
  BY <1>1 DEF Memory
<1> QED
  BY <1>1, <1>2, WithinItself DEF OnlyOf

LEMMA PoppedOnly ==
  ASSUME NEW m \in Memory, m.queue # <<>>, NEW k
  PROVE  OnlyOf(k, Popped(m), m)
BY PoppedFields, TailWithin DEF OnlyOf

LEMMA QueuedOnly ==
  ASSUME NEW m \in Memory, NEW r \in Request, NEW k, r.id = k
  PROVE  OnlyOf(k, Queued(m, r), m)
<1>1. /\ Queued(m, r).sessions = m.sessions /\ Queued(m, r).entries = m.entries
      /\ Queued(m, r).queue = Append(m.queue, r)
  BY QueuedFields
<1>2. \A id \in Ids \ {k} : QueueWithin(id, Queued(m, r), m)
  BY <1>1, AppendWithin
<1> QED
  BY <1>1, <1>2 DEF OnlyOf

(* The entry e is changed, which no other session has.                     *)
LEMMA EntryOnly ==
  ASSUME NEW m \in Memory, NEW n, NEW k, NEW e \in Ops,
         n.sessions = m.sessions, n.queue = m.queue,
         \A f \in Ops \ {e} : n.entries[f] = m.entries[f],
         \A id \in Ids \ {k} : m.sessions[id] # e
  PROVE  OnlyOf(k, n, m)
<1>1. \A id \in Ids \ {k} : m.sessions[id] # None => m.sessions[id] \in Ops \ {e}
  BY DEF Memory
<1> QED
  BY <1>1, OnlyItself


-----------------------------------------------------------------------------
(* A call takes back what it did                                           *)

(* The session can be taken back from m: the call has it for itself, and   *)
(* its checkpoint is from before the call.                                 *)
MayUndo(o, m, c) ==
  /\ TraceOf(c.id, m, ops) /\ m.sessions[c.id] = c.entry
  /\ \A p \in Ops : Holds(c.checkpoint, p) => p # o /\ Known(p, c.id, m, ops)
  /\ ~InQueue(o, c.id, m)
  /\ \A p \in Lessees(ops) \ {o} : ops[p].id # c.id
  /\ c.rollback = "release" => o \in Untouching(ops)
  /\ c.rollback = "delete" =>
       /\ \A i \in DOMAIN m.queue : m.queue[i].id # c.id
       /\ durable => shelf[c.id] # Absent \/ ~Stored(o, c.id)

LEMMA UndoTraced ==
  ASSUME NEW o \in Ops, NEW m, NEW c, MayUndo(o, m, c), NEW n, NEW new,
         Others(ops, new, o), new[o].id = c.id, new[o].pc \in {"done", "unsaving", "deleting"},
         \A p \in Ops : InMemory(p, c.id, n) \/ InQueue(p, c.id, n) =>
           p # o /\ Known(p, c.id, m, ops),
         DeleteInv(c.id, n), new[o].pc = "done" => ~Stored(o, c.id),
         o \in Untouching(new) => o \in Untouching(ops)
  PROVE  TraceOf(c.id, n, new)
<1>1. /\ TraceOf(c.id, m, ops) /\ \A p \in Lessees(ops) \ {o} : ops[p].id # c.id
  BY DEF MayUndo
<1>2. \A p \in Lessees(new) : new[p].id # c.id
  BY <1>1 DEF Others, Lessees
<1>3. \A p \in Ops : Known(p, c.id, n, new) => p # o /\ Known(p, c.id, m, ops)
  BY <1>2 DEF Known, InCheckpoints
<1>4. o \in Untouching(new) => ~Stored(o, c.id)
  BY <1>1 DEF TraceOf
<1>5. o \notin Lessees(new)
  BY DEF Lessees
<1> QED
  BY <1>1, <1>3, <1>4, <1>5, TraceKept

LEMMA StepOf ==
  ASSUME ops \in [Ops -> Op], NEW o \in Ops, NEW c \in Op, NEW pc \in PCs
  PROVE  /\ Others(ops, Step(o, c, pc), o) /\ Step(o, c, pc)[o].pc = pc
         /\ Step(o, c, pc)[o].id = c.id /\ Step(o, c, pc)[o].kind = c.kind
         /\ Step(o, c, pc)[o].entry = c.entry /\ Step(o, c, pc)[o].rollback = c.rollback
         /\ Step(o, c, pc)[o].checkpoint = c.checkpoint
         /\ Step(o, c, pc)[o].outcome = c.outcome
<1>1. /\ Others(ops, Step(o, c, pc), o) /\ Step(o, c, pc)[o].pc = pc
      /\ SameLease(c, Step(o, c, pc)[o])
  BY StepFields
<1>2. Step(o, c, pc)[o] = [c EXCEPT !.pc = pc]
  BY DEF Step
<1>3. Step(o, c, pc)[o].outcome = c.outcome
  BY <1>2 DEF Op
<1> QED
  BY <1>1, <1>3 DEF SameLease

LEMMA RollBackTraced ==
  ASSUME TraceInv, NEW o \in Ops, NEW m \in Memory, NEW c \in Op, NEW broken \in SUBSET {c.id},
         ops \in [Ops -> Op], c.id = ops[o].id, RollBack(o, m, c, broken),
         UNCHANGED <<durable, shelf, atRisk>>, OnlyOf(c.id, m, memory),
         c.entry \in Ops, c.entry # None, \A id \in Ids \ {c.id} : m.sessions[id] # c.entry,
         c.kind = "restore" => o \in Untouching(ops),
         c.id \notin faulted /\ broken = {} => MayUndo(o, m, c)
  PROVE  TraceInv'
<1> DEFINE k == c.id
           e == c.entry
<1>1. k \in Ids /\ c.checkpoint \in Values /\ k = ops[o].id /\ {"done", "unsaving", "deleting"} \subseteq PCs
  BY DEF Op, PCs
<1>2. ASSUME NEW n, NEW d \in Op, NEW pc \in {"done", "unsaving", "deleting"},
             d.id = k, d.kind = c.kind, memory' = n, ops' = Step(o, d, pc),
             faulted \subseteq faulted', OnlyOf(k, n, m),
             k \notin faulted' =>
               /\ k \notin faulted /\ broken = {}
               /\ MayUndo(o, m, c) =>
                    /\ \A p \in Ops : InMemory(p, k, n) \/ InQueue(p, k, n) =>
                         p # o /\ Known(p, k, m, ops)
                    /\ DeleteInv(k, n) /\ (pc = "done" => ~Stored(o, k))
      PROVE  TraceInv'
  <2> DEFINE new == Step(o, d, pc)
  <2>1. /\ Others(ops, new, o) /\ new[o].pc = pc /\ new[o].id = k /\ new[o].kind = c.kind
    BY <1>1, <1>2, StepOf
  <2>2. ops' = new
    BY <1>2
  <2> HIDE DEF new
  <2>3. o \in Untouching(new) => o \in Untouching(ops)
    BY <1>2, <2>1 DEF Untouching
  <2>4. OnlyOf(k, n, memory)
    BY <1>2, OnlyOnly
  <2>5. k \notin faulted' => TraceOf(k, n, new)
    BY <1>2, <2>1, <2>3, UndoTraced
  <2> HIDE DEF k
  <2> QED
    BY <1>1, <1>2, <2>1, <2>2, <2>3, <2>4, <2>5, StepTraced
<1>3. MayUndo(o, m, c) =>
        /\ TraceOf(k, m, ops) /\ DeleteInv(k, m) /\ ~InQueue(o, k, m)
        /\ ~durable => ~Stored(o, k)
        /\ o \in Untouching(ops) => ~Known(o, k, m, ops) /\ ~Stored(o, k)
        /\ \A p \in Ops : Holds(c.checkpoint, p) => p # o /\ Known(p, k, m, ops)
        /\ m.sessions[k] = e
  BY NothingHeld DEF MayUndo, TraceOf, Stored
<1>4. \A p : InMemory(p, k, m) \/ InQueue(p, k, m) => Known(p, k, m, ops)
  BY DEF Known
<1>5. CASE m.sessions[k] # e /\ memory' = m /\ ops' = Step(o, c, "done")
           /\ faulted' = faulted \cup broken
  <2>1. OnlyOf(k, m, m)
    BY OnlyItself
  <2> QED
    BY <1>2, <1>5, <2>1 DEF MayUndo
<1> DEFINE dropped == Drop(m, k)
           entry == [value |-> c.checkpoint, status |-> "ready"]
           restored == SetEntry(m, e, entry)
           released == WithStatus(m, e, "ready")
<1>6. /\ dropped \in Memory /\ dropped.queue = m.queue /\ dropped.sessions[k] = None
      /\ OnlyOf(k, dropped, m)
  <2>1. /\ dropped \in Memory /\ dropped.queue = m.queue
        /\ dropped.sessions = [m.sessions EXCEPT ![k] = None]
    BY <1>1, DropFields
  <2>2. dropped.sessions[k] = None
    BY <1>1, <2>1 DEF Memory
  <2> QED
    BY <1>1, <2>1, <2>2, DropOnly
<1>7. /\ restored \in Memory /\ restored.queue = m.queue /\ restored.sessions = m.sessions
      /\ restored.entries[e].value = c.checkpoint /\ OnlyOf(k, restored, m)
  <2>1. entry \in Entry /\ entry.value = c.checkpoint
    BY <1>1 DEF Entry
  <2> HIDE DEF entry
  <2>2. /\ restored \in Memory /\ restored.queue = m.queue /\ restored.sessions = m.sessions
        /\ restored.entries = [m.entries EXCEPT ![e] = entry]
    BY <2>1, SetEntryFields
  <2> HIDE DEF restored
  <2>3. restored.entries[e] = entry /\ \A f \in Ops \ {e} : restored.entries[f] = m.entries[f]
    BY <2>2 DEF Memory
  <2> QED
    BY <2>1, <2>2, <2>3, EntryOnly
<1>8. /\ released.queue = m.queue /\ released.sessions = m.sessions
      /\ released.entries[e].value = m.entries[e].value /\ OnlyOf(k, released, m)
  <2>1. /\ released.queue = m.queue /\ released.sessions = m.sessions
        /\ released.entries =
             [m.entries EXCEPT ![e] = [value |-> m.entries[e].value, status |-> "ready"]]
    BY WithStatusFields
  <2> HIDE DEF released
  <2>2. released.entries[e].value = m.entries[e].value
        /\ \A f \in Ops \ {e} : released.entries[f] = m.entries[f]
    BY <2>1 DEF Memory
  <2> QED
    BY <2>1, <2>2, EntryOnly
<1> HIDE DEF dropped, restored, released, entry
<1>9. \A x \in Memory, r \in Request : r.id = k /\ OnlyOf(k, x, m) => OnlyOf(k, Queued(x, r), m)
  BY QueuedOnly, OnlyOnly
<1>10. \A n : n.queue = m.queue =>
         /\ \A p : InQueue(p, k, n) <=> InQueue(p, k, m)
         /\ DeleteInv(k, m) => DeleteInv(k, n)
  BY DEF InQueue, DeleteInv
<1>11. c \in Op /\ c.id = k /\ c.kind = c.kind
  OBVIOUS
<1>12. CASE m.sessions[k] = e /\ c.rollback = "delete" /\ durable
  <2> DEFINE r == RequestOf(o, c, "delete", Absent)
             n == Queued(dropped, r)
  <2>1. /\ memory' = n /\ ops' = Step(o, c, "deleting") /\ faulted' = faulted \cup broken
    <3>1. /\ Await(o, Submit(o, dropped, "delete", Absent), c, "deleting")
          /\ faulted' = faulted \cup broken
      BY <1>12 DEF RollBack, dropped
    <3> QED
      BY <3>1, SubmitIsQueued DEF Await, Step
  <2>2. r \in Request /\ r.op = o /\ r.kind = "delete" /\ r.id = k /\ r.content = Absent
    BY RequestFields
  <2> HIDE DEF r
  <2>3. /\ n.queue = Append(dropped.queue, r) /\ n.sessions = dropped.sessions
        /\ OnlyOf(k, n, m)
    BY <1>6, <1>9, <2>2, QueuedFields
  <2> HIDE DEF n
  <2>4. ASSUME MayUndo(o, m, c)
        PROVE  /\ \A p \in Ops : InMemory(p, k, n) \/ InQueue(p, k, n) =>
                    p # o /\ Known(p, k, m, ops)
               /\ DeleteInv(k, n)
    <3>1. /\ \A i \in DOMAIN m.queue : m.queue[i].id # k
          /\ shelf[k] # Absent \/ ~Stored(o, k)
      BY <1>12, <2>4 DEF MayUndo
    <3>2. DeleteInv(k, n) /\ \A p : InQueue(p, k, n) => InQueue(p, k, m) \/ Holds(r.content, p)
      BY <1>3, <2>2, <2>3, <2>4, <3>1, <1>6, AppendDelete
    <3>3. \A p : ~InQueue(p, k, n) /\ ~InMemory(p, k, n)
      BY <1>6, <2>2, <2>3, <3>1, <3>2, NothingHeld DEF InQueue, InMemory
    <3> QED
      BY <3>2, <3>3
  <2> QED
    BY <1>2, <1>11, <2>1, <2>3, <2>4
<1>13. CASE m.sessions[k] = e /\ c.rollback = "delete" /\ ~durable
  <2>1. memory' = dropped /\ ops' = Step(o, c, "done") /\ faulted' = faulted \cup broken
    BY <1>13 DEF RollBack, Await, Step, dropped
  <2>2. ASSUME MayUndo(o, m, c)
        PROVE  /\ \A p \in Ops : InMemory(p, k, dropped) \/ InQueue(p, k, dropped) =>
                    p # o /\ Known(p, k, m, ops)
               /\ DeleteInv(k, dropped) /\ ~Stored(o, k)
    BY <1>3, <1>4, <1>6, <1>10, <1>13, <2>2 DEF InMemory
  <2> QED
    BY <1>2, <1>6, <1>11, <2>1, <2>2
<1>14. CASE m.sessions[k] = e /\ c.rollback = "release"
  <2>1. memory' = released /\ ops' = Step(o, c, "done") /\ faulted' = faulted \cup broken
    BY <1>14 DEF RollBack, Await, Step, released
  <2>2. ASSUME MayUndo(o, m, c)
        PROVE  /\ \A p \in Ops : InMemory(p, k, released) \/ InQueue(p, k, released) =>
                    p # o /\ Known(p, k, m, ops)
               /\ DeleteInv(k, released) /\ ~Stored(o, k)
    <3>1. o \in Untouching(ops)
      BY <1>14, <2>2 DEF MayUndo
    <3>2. \A p : InMemory(p, k, released) => InMemory(p, k, m)
      BY <1>8, <1>14 DEF InMemory
    <3> QED
      BY <1>3, <1>4, <1>8, <1>10, <2>2, <3>1, <3>2
  <2> QED
    BY <1>2, <1>8, <1>11, <2>1, <2>2
<1>15. CASE m.sessions[k] = e /\ c.rollback = "restore"
  <2>1. ASSUME NEW n, n.sessions = m.sessions, n.entries = restored.entries, MayUndo(o, m, c),
               NEW p \in Ops, InMemory(p, k, n)
        PROVE  p # o /\ Known(p, k, m, ops)
    <3>1. Holds(c.checkpoint, p)
      BY <1>7, <1>15, <2>1 DEF InMemory
    <3> QED
      BY <1>3, <2>1, <3>1
  <2>2. [m EXCEPT !.entries[e] = entry] = restored
    BY DEF SetEntry, restored
  <2>3. RestoreCheckpoint(o, m, c, broken)
    BY <1>15 DEF RollBack
  <2>4. CASE /\ durable /\ faulted' = faulted \cup broken
             /\ memory' = Submit(o, restored, "save", c.checkpoint)
             /\ ops' = Step(o, c, "unsaving")
    <3> DEFINE r == RequestOf(o, c, "save", c.checkpoint)
               n == Queued(restored, r)
    <3>1. memory' = n
      BY <2>4, SubmitIsQueued
    <3>2. r \in Request /\ r.op = o /\ r.kind = "save" /\ r.id = k /\ r.content = c.checkpoint
      <4>1. c.checkpoint \in Values \cup {Absent}
        BY <1>1
      <4> QED
        BY <4>1, RequestFields
    <3> HIDE DEF r
    <3>3. /\ n.queue = Append(restored.queue, r) /\ n.sessions = restored.sessions
          /\ n.entries = restored.entries /\ OnlyOf(k, n, m)
      BY <1>7, <1>9, <3>2, QueuedFields
    <3> HIDE DEF n
    <3>4. ASSUME MayUndo(o, m, c)
          PROVE  /\ \A p \in Ops : InMemory(p, k, n) \/ InQueue(p, k, n) =>
                      p # o /\ Known(p, k, m, ops)
                 /\ DeleteInv(k, n)
      <4>1. DeleteInv(k, n) /\ \A p : InQueue(p, k, n) => InQueue(p, k, m) \/ Holds(r.content, p)
        BY <1>3, <1>7, <3>2, <3>3, <3>4, AppendDelete
      <4> QED
        BY <1>3, <1>4, <1>7, <2>1, <3>2, <3>3, <3>4, <4>1
    <3> QED
      BY <1>2, <1>11, <2>4, <3>1, <3>3, <3>4
  <2>5. CASE /\ ~durable /\ faulted' = faulted \cup broken
             /\ memory' = restored /\ ops' = Step(o, c, "done")
    <3>1. ASSUME MayUndo(o, m, c)
          PROVE  /\ \A p \in Ops : InMemory(p, k, restored) \/ InQueue(p, k, restored) =>
                      p # o /\ Known(p, k, m, ops)
                 /\ DeleteInv(k, restored) /\ ~Stored(o, k)
      BY <1>3, <1>4, <1>7, <1>10, <2>1, <2>5, <3>1
    <3> QED
      BY <1>2, <1>7, <1>11, <2>5, <3>1
  <2>6. CASE /\ faulted' = faulted \cup {k} /\ memory' = Drop(restored, k)
             /\ ops' = Step(o, [c EXCEPT !.outcome = "failed"], "done")
    <3> DEFINE d == [c EXCEPT !.outcome = "failed"]
    <3>1. d \in Op /\ d.id = k /\ d.kind = c.kind
      BY DEF Op
    <3> HIDE DEF d
    <3>2. OnlyOf(k, Drop(restored, k), m)
      BY <1>1, <1>7, DropOnly, OnlyOnly
    <3> QED
      BY <1>2, <2>6, <3>1, <3>2 DEF d
  <2> QED
    BY <2>2, <2>3, <2>4, <2>5, <2>6 DEF RestoreCheckpoint, Await, End, Step, entry
<1>16. m.sessions[k] # e =>
         /\ memory' = m /\ ops' = Step(o, c, "done") /\ faulted' = faulted \cup broken
  BY DEF RollBack, Await, Step
<1>17. c.rollback \in {"delete", "release", "restore"}
  BY DEF Op
<1> QED
  BY <1>5, <1>12, <1>13, <1>14, <1>15, <1>16, <1>17


(* A call redacts with the session m has for it.                           *)
MayRedact(o, m, c) ==
  /\ TraceOf(c.id, m, ops) /\ o \in Untouching(ops)
  /\ \A p \in Lessees(ops) : ops[p].id # c.id
  /\ c.rollback = "delete" => \A i \in DOMAIN m.queue : m.queue[i].id # c.id

LEMMA RedactTraced ==
  ASSUME TraceInv, NEW o \in Ops, NEW m \in Memory, NEW c \in Op,
         ops \in [Ops -> Op], c.id = ops[o].id, Redact(o, m, c),
         UNCHANGED <<durable, shelf, atRisk>>, OnlyOf(c.id, m, memory),
         c.entry = m.sessions[c.id], c.entry \in Ops, c.entry # None,
         \A id \in Ids \ {c.id} : m.sessions[id] # c.entry,
         c.kind = "anonymize", c.rollback # "release",
         c.checkpoint = m.entries[c.entry].value,
         c.id \notin faulted => MayRedact(o, m, c)
  PROVE  TraceInv'
<1> DEFINE k == c.id
           e == c.entry
           value == Grown(m.entries[e].value, o)
           n == Redacted(m, e, value)
           d == Failed(c)
<1>1. /\ k \in Ids /\ c.checkpoint \in Values /\ value \in Values
      /\ {"saving", "publishing"} \subseteq PCs
  BY AppendRestores DEF Op, PCs
<1>2. /\ d \in Op /\ d.id = k /\ d.entry = e /\ d.kind = "anonymize"
      /\ d.rollback = c.rollback /\ d.checkpoint = c.checkpoint
  BY DEF Op, Failed
<1>3. /\ n \in Memory /\ n.sessions = m.sessions /\ n.queue = m.queue
      /\ \A f \in Ops \ {e} : n.entries[f] = m.entries[f]
      /\ n.entries[e].value = value
  <2>1. value \in Values /\ e \in Ops /\ n = Redacted(m, e, value)
    BY <1>1
  <2> HIDE DEF value, n, e
  <2>2. /\ n \in Memory /\ n.sessions = m.sessions /\ n.queue = m.queue
        /\ \A f \in Ops \ {e} : n.entries[f] = m.entries[f]
        /\ n.entries[e] = [value |-> value, status |-> m.entries[e].status]
    BY <2>1, RedactedFields
  <2> QED
    BY <2>2
<1> HIDE DEF n, d
<1>4. OnlyOf(k, n, m)
  BY <1>3, EntryOnly
<1>5. ASSUME MayRedact(o, m, c)
      PROVE  /\ TraceOf(k, m, ops) /\ DeleteInv(k, m)
             /\ ~InQueue(o, k, m) /\ ~Stored(o, k) /\ ~Holds(c.checkpoint, o)
             /\ \A p : Holds(c.checkpoint, p) => Known(p, k, m, ops)
             /\ \A p \in Lessees(ops) : ops[p].id # k
             /\ c.rollback = "delete" => \A i \in DOMAIN m.queue : m.queue[i].id # k
  <2>1. ~Known(o, k, m, ops) /\ ~Stored(o, k)
    BY <1>5 DEF MayRedact, TraceOf
  <2>2. \A p : Holds(c.checkpoint, p) => InMemory(p, k, m)
    BY DEF InMemory
  <2> QED
    BY <1>5, <2>1, <2>2 DEF MayRedact, TraceOf, Known
<1>6. MayRedact(o, m, c) => MayUndo(o, m, d)
  BY <1>2, <1>5 DEF MayUndo, MayRedact
<1>7. CASE RollBack(o, m, d, {})
  BY <1>2, <1>6, <1>7, RollBackTraced
<1>8. CASE RollBack(o, n, d, {k})
  <2>1. OnlyOf(k, n, memory) /\ \A id \in Ids \ {k} : n.sessions[id] # e
    BY <1>3, <1>4, OnlyOnly
  <2> DEFINE broken == {k}
  <2>2. broken \in SUBSET {d.id} /\ broken # {} /\ RollBack(o, n, d, broken)
    BY <1>2, <1>8
  <2>3. /\ OnlyOf(d.id, n, memory) /\ \A id \in Ids \ {d.id} : n.sessions[id] # d.entry
        /\ d.entry \in Ops /\ d.entry # None /\ d.id = ops[o].id
    BY <1>2, <2>1
  <2> HIDE DEF broken
  <2> QED
    BY <1>2, <1>3, <2>2, <2>3, RollBackTraced
<1>9. ASSUME NEW x, NEW pc \in {"saving", "publishing"}, memory' = x, ops' = Step(o, c, pc),
             faulted' = faulted, x.sessions = m.sessions, x.entries[e].value = value,
             OnlyOf(k, x, m),
             MayRedact(o, m, c) =>
               /\ DeleteInv(k, x) /\ \A p \in Ops \ {o} : InQueue(p, k, x) => Known(p, k, m, ops)
               /\ pc = "publishing" => ~InQueue(o, k, x)
               /\ c.rollback = "delete" =>
                    \A i \in DOMAIN x.queue : x.queue[i].id = k => x.queue[i].op = o
      PROVE  TraceInv'
  <2> DEFINE new == Step(o, c, pc)
  <2>1. /\ Others(ops, new, o) /\ new[o].pc = pc /\ new[o].id = k /\ new[o].kind = "anonymize"
        /\ new[o].entry = e /\ new[o].rollback = c.rollback /\ new[o].checkpoint = c.checkpoint
    BY <1>1, StepOf
  <2>2. ops' = new
    BY <1>9
  <2> HIDE DEF new
  <2>3. o \notin Untouching(new) /\ o \notin Undone(k, new)
    BY <1>9, <2>1 DEF Untouching, Undone
  <2>4. OnlyOf(k, x, memory)
    BY <1>9, OnlyOnly
  <2>5. ASSUME k \notin faulted
        PROVE  TraceOf(k, x, new)
    <3>1. MayRedact(o, m, c)
      BY <2>5
    <3>2. ASSUME NEW p \in Ops \ {o}, Known(p, k, x, new)
          PROVE  Known(p, k, m, ops)
      <4>1. CASE InMemory(p, k, x)
        <5>1. Holds(value, p)
          BY <1>9, <4>1 DEF InMemory
        <5>2. m.entries[e].value \in Values
          BY <1>1
        <5>3. Holds(c.checkpoint, p)
          BY <5>1, <5>2, AppendHolds
        <5> QED
          BY <1>5, <3>1, <5>3
      <4>2. CASE InQueue(p, k, x)
        BY <1>9, <3>1, <4>2 DEF Known
      <4>3. CASE InCheckpoints(p, k, new)
        <5>1. PICK q \in Lessees(new) : new[q].id = k /\ Holds(new[q].checkpoint, p)
          BY <4>3 DEF InCheckpoints
        <5>2. q = o
          BY <1>5, <2>1, <3>1, <5>1 DEF Others, Lessees
        <5> QED
          BY <1>5, <2>1, <3>1, <5>1, <5>2
      <4> QED
        BY <3>2, <4>1, <4>2, <4>3 DEF Known
    <3>3. LesseeInv(o, k, x, new)
      BY <1>5, <1>9, <2>1, <3>1 DEF LesseeInv
    <3>4. TraceOf(k, m, ops) /\ \A p \in Lessees(ops) : ops[p].id # k
      BY <1>5, <3>1
    <3>5. DeleteInv(k, x)
      BY <1>9, <3>1
    <3> HIDE DEF k
    <3> QED
      BY <2>1, <2>3, <3>2, <3>3, <3>4, <3>5, TraceKept
  <2>6. faulted \subseteq faulted'
    BY <1>9
  <2> HIDE DEF k
  <2>7. k = ops[o].id
    BY DEF k
  <2> QED
    BY <1>9, <2>1, <2>2, <2>3, <2>4, <2>5, <2>6, <2>7, StepTraced
<1>10. CASE durable /\ UNCHANGED faulted /\ memory' = Submit(o, n, "save", value)
            /\ ops' = Step(o, c, "saving")
  <2> DEFINE r == RequestOf(o, c, "save", value)
             x == Queued(n, r)
  <2>1. memory' = x
    <3>1. memory' = Submit(o, n, "save", value) /\ c.id = ops[o].id
      BY <1>10
    <3> HIDE DEF value, k
    <3> QED
      BY <3>1, SubmitIsQueued
  <2>2. r \in Request /\ r.op = o /\ r.kind = "save" /\ r.id = k /\ r.content = value
    <3>1. value \in Values \cup {Absent}
      BY <1>1
    <3> HIDE DEF value, n
    <3> QED
      BY <3>1, RequestFields
  <2> HIDE DEF r
  <2>3. /\ x.queue = Append(n.queue, r) /\ x.sessions = n.sessions /\ x.entries = n.entries
        /\ OnlyOf(k, x, n)
    BY <1>3, <2>2, QueuedFields, QueuedOnly
  <2>4. OnlyOf(k, x, m)
    BY <1>4, <2>3, OnlyOnly
  <2> HIDE DEF x
  <2>5. ASSUME MayRedact(o, m, c)
        PROVE  /\ DeleteInv(k, x)
               /\ \A p \in Ops \ {o} : InQueue(p, k, x) => Known(p, k, m, ops)
               /\ c.rollback = "delete" =>
                    \A i \in DOMAIN x.queue : x.queue[i].id = k => x.queue[i].op = o
    <3>1. DeleteInv(k, n)
      BY <1>3, <1>5, <2>5, WithinItself, QueueKnown
    <3>2. DeleteInv(k, x) /\ \A p : InQueue(p, k, x) => InQueue(p, k, n) \/ Holds(value, p)
      BY <1>3, <2>2, <2>3, <3>1, AppendDelete
    <3>3. \A p \in Ops \ {o} : Holds(value, p) => Known(p, k, m, ops)
      BY <1>1, <1>5, <2>5, AppendHolds
    <3>4. \A p : InQueue(p, k, n) => Known(p, k, m, ops)
      BY <1>3 DEF InQueue, Known
    <3>5. \A i \in DOMAIN x.queue :
            (i \in DOMAIN m.queue /\ x.queue[i] = m.queue[i]) \/ x.queue[i] = r
      <4>1. m.queue \in Seq(Request) /\ x.queue = Append(m.queue, r)
        BY <1>3, <2>3 DEF Memory
      <4> QED
        BY <2>2, <4>1, AppendFacts
    <3> QED
      BY <1>5, <2>2, <2>5, <3>2, <3>3, <3>4, <3>5
  <2>6. x.sessions = m.sessions /\ x.entries[e].value = value /\ faulted' = faulted
    BY <1>3, <1>10, <2>3
  <2> DEFINE pc == "saving"
  <2>7. pc \in {"saving", "publishing"} /\ pc # "publishing" /\ ops' = Step(o, c, pc)
    BY <1>10
  <2> HIDE DEF pc, value
  <2> QED
    BY <1>9, <2>1, <2>4, <2>5, <2>6, <2>7
<1>11. CASE ~durable /\ UNCHANGED faulted /\ memory' = n /\ ops' = Step(o, c, "publishing")
  <2>1. ASSUME MayRedact(o, m, c)
        PROVE  /\ DeleteInv(k, n) /\ \A p \in Ops \ {o} : InQueue(p, k, n) => Known(p, k, m, ops)
               /\ ~InQueue(o, k, n)
               /\ c.rollback = "delete" =>
                    \A i \in DOMAIN n.queue : n.queue[i].id = k => n.queue[i].op = o
    <3>1. DeleteInv(k, n) /\ \A p : InQueue(p, k, n) => InQueue(p, k, m)
      BY <1>3, <1>5, <2>1, WithinItself, QueueKnown
    <3> QED
      BY <1>3, <1>5, <2>1, <3>1 DEF Known
  <2> DEFINE pc == "publishing"
  <2>2. pc \in {"saving", "publishing"} /\ ops' = Step(o, c, pc) /\ faulted' = faulted
    BY <1>11
  <2> HIDE DEF pc, value
  <2> QED
    BY <1>3, <1>4, <1>9, <1>11, <2>1, <2>2
<1>12. n = [m EXCEPT !.entries[c.entry].value = Append(m.entries[c.entry].value, o)]
  BY DEF n, Redacted, Grown
<1> QED
  BY <1>7, <1>8, <1>10, <1>11, <1>12 DEF Redact, Await, Step, Grown, d


-----------------------------------------------------------------------------
(* No action leaves a trace                                                *)

LEMMA TraceFacts ==
  ASSUME TraceInv, NEW id \in Ids \ faulted, NEW o \in Ops
  PROVE  /\ TraceOf(id, memory, ops) /\ DeleteInv(id, memory)
         /\ o \in Untouching(ops) => ~Known(o, id, memory, ops) /\ ~Stored(o, id)
         /\ o \in Undone(id, ops) => ~Known(o, id, memory, ops)
         /\ o \in Lessees(ops) /\ ops[o].id = id => LesseeInv(o, id, memory, ops)
         /\ ~Known(o, id, memory, ops) => ~InQueue(o, id, memory) /\ ~InMemory(o, id, memory)
         /\ ~durable => ~Stored(o, id)
BY NothingHeld DEF TraceInv, TraceOf, Known, Stored

(* A lessee's entry is of no other session, and who has none made none.    *)
LEMMA LeasedEntry ==
  ASSUME IndInv, NEW o \in Ops
  PROVE  /\ o \in Lessees(ops) =>
              /\ ops[o].entry \in Ops /\ ops[o].entry # None
              /\ \A id \in Ids \ {ops[o].id} : memory.sessions[id] # ops[o].entry
              /\ ops[o].kind = "restore" <=> ops[o].rollback = "release"
              /\ ops[o].pc = "saving" => ops[o].kind = "anonymize"
         /\ o \notin Born(ops) => \A id \in Ids : memory.sessions[id] # o
         /\ o # None
<1>1. Sound(memory, ops, Lessees(ops))
  BY IndInvFacts
<1>2. \A id \in Ids : memory.sessions[id] # None =>
        memory.sessions[id] \in Born(ops) /\ ops[memory.sessions[id]].id = id
  BY <1>1 DEF Sound, LeaseInv
<1>3. o # None
  BY ServiceAssumption
<1>4. ASSUME o \in Lessees(ops)
      PROVE  /\ ops[o].entry \in Born(ops) /\ ops[ops[o].entry].id = ops[o].id
             /\ ops[o].kind = "restore" <=> ops[o].rollback = "release"
             /\ ops[o].pc = "saving" => ops[o].kind = "anonymize"
  BY <1>1, <1>4 DEF Sound, LeaseInv, LeaseOf
<1>5. ASSUME o \in Lessees(ops)
      PROVE  /\ ops[o].entry \in Ops /\ ops[o].entry # None
             /\ \A id \in Ids \ {ops[o].id} : memory.sessions[id] # ops[o].entry
  BY <1>2, <1>4, <1>5, ServiceAssumption DEF Born
<1>6. o \notin Born(ops) => \A id \in Ids : memory.sessions[id] # o
  BY <1>2, <1>3
<1> QED
  BY <1>3, <1>4, <1>5, <1>6

(* A step that leaves the values in memory as they are and submits nothing.*)
LEMMA QuietTraced ==
  ASSUME TraceInv, NEW o \in Ops, NEW n, NEW new, memory' = n, ops' = new,
         UNCHANGED <<durable, shelf, atRisk, faulted>>,
         Others(ops, new, o), new[o].id = ops[o].id, n.sessions = memory.sessions,
         \A id \in Ids : memory.sessions[id] # None =>
           n.entries[memory.sessions[id]].value = memory.entries[memory.sessions[id]].value,
         \A id \in Ids : QueueWithin(id, n, memory),
         o \in Untouching(new) => o \in Untouching(ops),
         o \in Lessees(new) =>
           \/ new[o].checkpoint = <<>>
           \/ o \in Lessees(ops) /\ new[o].checkpoint = ops[o].checkpoint,
         ops[o].id \in Ids \ faulted =>
           /\ o \in Undone(ops[o].id, new) =>
                /\ o \in Untouching(ops) \/ o \in Undone(ops[o].id, ops)
                /\ new[o].pc = "done" => ~Stored(o, ops[o].id)
           /\ o \in Lessees(new) => LesseeInv(o, ops[o].id, n, new)
  PROVE  TraceInv'
<1> DEFINE k == ops[o].id
<1>1. \A p \in Ops \ {o} : new[p] = ops[p]
  BY DEF Others
<1>2. ASSUME k \in Ids \ faulted
      PROVE  TraceOf(k, n, new)
  <2>1. ASSUME NEW p \in Ops, Known(p, k, n, new)
        PROVE  Known(p, k, memory, ops)
    <3>1. InMemory(p, k, n) => InMemory(p, k, memory)
      BY <1>2 DEF InMemory
    <3>2. InQueue(p, k, n) => InQueue(p, k, memory)
      BY <1>2, QueueKnown
    <3>3. InCheckpoints(p, k, new) => InCheckpoints(p, k, ops)
      BY <1>1, NothingHeld DEF InCheckpoints, Lessees
    <3> QED
      BY <2>1, <3>1, <3>2, <3>3 DEF Known
  <2>2. /\ TraceOf(k, memory, ops) /\ DeleteInv(k, memory)
        /\ o \in Untouching(ops) => ~Known(o, k, memory, ops) /\ ~Stored(o, k)
        /\ o \in Undone(k, ops) => ~Known(o, k, memory, ops)
    BY <1>2, TraceFacts
  <2>3. DeleteInv(k, n) /\ QueueWithin(k, n, memory)
    BY <1>2, <2>2, QueueKnown
  <2>4. o \in Undone(k, new) => ~Known(o, k, n, new) /\ (new[o].pc = "done" => ~Stored(o, k))
    BY <1>2, <2>1, <2>2
  <2> HIDE DEF k
  <2>5. o \in Lessees(new) => LesseeInv(o, k, n, new)
    BY <1>2 DEF k
  <2> QED
    BY <2>1, <2>2, <2>3, <2>4, <2>5, TraceKept
<1>3. OnlyOf(k, n, memory)
  BY DEF OnlyOf
<1> QED
  BY <1>2, <1>3, StepTraced

LEMMA AdmitTraced ==
  ASSUME IndInv, TraceInv, NEW o \in Ops, NEW kind \in {"anonymize", "restore"}, NEW k \in Ids,
         Admit(o, kind, k)
  PROVE  TraceInv'
<1> DEFINE c == [ops[o] EXCEPT !.kind = kind, !.id = k]
           new == Step(o, c, "admitted")
<1>1. c \in Op /\ ops[o].pc = "new" /\ "admitted" \in PCs /\ ops \in [Ops -> Op]
  <2>1. ops[o] \in Op /\ ops \in [Ops -> Op]
    BY IndInvFacts
  <2>2. c \in Op
    BY <2>1 DEF Op
  <2> QED
    BY <2>1, <2>2 DEF Admit, PCs
<1>2. /\ memory' = memory /\ ops' = new
      /\ UNCHANGED <<durable, shelf, atRisk>> /\ faulted' = faulted
  BY DEF Admit, Await, Step, ShelfVars
<1> HIDE DEF c
<1>3. Others(ops, new, o) /\ new[o].pc = "admitted"
  BY <1>1, StepOf
<1> DEFINE n == memory
<1>4. memory' = n /\ n = memory
  BY <1>2
<1> HIDE DEF new, n
<1>5. /\ o \in Untouching(ops) /\ o \notin Lessees(new) /\ o \notin Lessees(ops)
  BY <1>1, <1>3 DEF Untouching, Lessees
<1>6. ASSUME NEW id \in Ids \ faulted
      PROVE  TraceOf(id, n, new)
  <2>1. /\ TraceOf(id, n, ops) /\ DeleteInv(id, n)
        /\ ~Known(o, id, n, ops) /\ ~Stored(o, id)
    BY <1>4, <1>5, TraceFacts
  <2>2. \A p : Known(p, id, n, new) => Known(p, id, n, ops)
    BY <1>3, <1>5 DEF Known, InCheckpoints, Others, Lessees
  <2>3. QueueWithin(id, n, n)
    BY WithinItself
  <2> QED
    BY <1>3, <1>5, <2>1, <2>2, <2>3, TraceKept
<1>7. \A id \in Ids \ faulted' : TraceOf(id, n, new)
  BY <1>2, <1>6
<1> QED
  BY <1>2, <1>4, <1>7, TraceNext

LEMMA RefuseCallTraced ==
  ASSUME IndInv, TraceInv, NEW o \in Ops, RefuseCall(o)
  PROVE  TraceInv'
<1> DEFINE c == Failed(ops[o])
           new == Step(o, c, "done")
           n == memory
<1>1. /\ ops[o].pc = "admitted" /\ memory' = n /\ ops' = new
      /\ UNCHANGED <<durable, shelf, atRisk, faulted>>
  BY DEF RefuseCall, End, Await, Step, Failed, ShelfVars
<1>2. c \in Op /\ c.id = ops[o].id /\ "done" \in PCs /\ ops \in [Ops -> Op]
  BY IndInvFacts DEF PCs
<1> HIDE DEF c
<1>3. Others(ops, new, o) /\ new[o].pc = "done" /\ new[o].id = ops[o].id
  BY <1>2, StepOf
<1>4. o \in Untouching(ops) /\ n = memory
  BY <1>1 DEF Untouching
<1> HIDE DEF new, n
<1>5. o \notin Lessees(new)
  BY <1>3 DEF Lessees
<1>6. \A id : QueueWithin(id, n, memory)
  BY <1>4, WithinItself
<1>7. ops[o].id \in Ids \ faulted => ~Stored(o, ops[o].id)
  BY <1>4, TraceFacts
<1> QED
  BY <1>1, <1>3, <1>4, <1>5, <1>6, <1>7, QuietTraced

LEMMA LoadSessionTraced ==
  ASSUME IndInv, TraceInv, NEW o \in Ops, LoadSession(o)
  PROVE  TraceInv'
<1> DEFINE k == ops[o].id
           r == RequestOf(o, ops[o], "load", Absent)
           new == Step(o, ops[o], "loading")
           n == [Queued(memory, r) EXCEPT !.reserved = @ \cup {k}]
<1>1. /\ ops[o] \in Op /\ k \in Ids /\ ops[o].pc = "admitted" /\ "loading" \in PCs
      /\ memory.sessions[k] = None /\ memory \in Memory /\ ops \in [Ops -> Op]
      /\ UNCHANGED <<durable, shelf, atRisk, faulted>> /\ ops' = new
  BY IndInvFacts DEF LoadSession, PCs, Live, ShelfVars, Await, Step
<1>2. /\ Others(ops, new, o) /\ new[o].pc = "loading" /\ new[o].id = k
  BY <1>1, StepOf
<1> HIDE DEF new
<1>3. r \in Request /\ r.op = o /\ r.kind = "load" /\ r.id = k /\ r.content = Absent
  BY <1>1, RequestFields
<1>4. memory' = n
  BY SubmitIsQueued DEF LoadSession, Await
<1> HIDE DEF r
<1>5. /\ n.sessions = memory.sessions /\ n.entries = memory.entries
      /\ n.queue = Append(memory.queue, r)
  <2>1. /\ Queued(memory, r) \in Memory /\ Queued(memory, r).sessions = memory.sessions
        /\ Queued(memory, r).entries = memory.entries
        /\ Queued(memory, r).queue = Append(memory.queue, r)
    BY <1>1, <1>3, QueuedFields
  <2> QED
    BY <2>1 DEF Memory
<1> HIDE DEF n
<1>6. OnlyOf(k, n, memory)
  BY <1>1, <1>3, <1>5, AppendWithin DEF OnlyOf
<1>7. /\ o \in Untouching(ops) /\ o \notin Lessees(new) /\ o \notin Lessees(ops)
      /\ o \notin Undone(k, new)
  BY <1>1, <1>2 DEF Untouching, Lessees, Undone
<1>8. ASSUME k \in Ids \ faulted
      PROVE  TraceOf(k, n, new)
  <2>1. /\ TraceOf(k, memory, ops) /\ DeleteInv(k, memory)
        /\ ~Known(o, k, memory, ops) /\ ~Stored(o, k)
    BY <1>7, <1>8, TraceFacts
  <2>2. DeleteInv(k, n) /\ \A p : InQueue(p, k, n) => InQueue(p, k, memory) \/ Holds(Absent, p)
    BY <1>1, <1>3, <1>5, <2>1, AppendDelete
  <2>3. \A p : Known(p, k, n, new) => Known(p, k, memory, ops)
    <3>1. \A p : InMemory(p, k, n) => InMemory(p, k, memory)
      BY <1>5 DEF InMemory
    <3>2. \A p : InCheckpoints(p, k, new) => InCheckpoints(p, k, ops)
      BY <1>2, <1>7 DEF InCheckpoints, Others, Lessees
    <3> QED
      BY <2>2, <3>1, <3>2, NothingHeld DEF Known
  <2>4. \A p \in Lessees(ops) : ops[p].id # k
    <3>1. ASSUME NEW p \in Lessees(ops), ops[p].id = k
          PROVE  FALSE
      <4>1. p \in Ops
        BY DEF Lessees
      <4>2. ops[p].entry # None /\ LesseeInv(p, k, memory, ops)
        BY <1>8, <3>1, <4>1, LeasedEntry, TraceFacts
      <4> QED
        BY <1>1, <4>2 DEF LesseeInv
    <3> QED
      BY <3>1
  <2> HIDE DEF k
  <2> QED
    BY <1>2, <1>7, <2>1, <2>2, <2>3, <2>4, TraceKept
<1>9. o \in Untouching(new) => o \in Untouching(ops)
  BY <1>7
<1> QED
  BY <1>1, <1>2, <1>4, <1>6, <1>8, <1>9, StepTraced


LEMMA ReadyIsFree ==
  ASSUME IndInv, NEW o \in Ops, ReadyEntry(ops[o].id)
  PROVE  /\ memory.sessions[ops[o].id] \in Ops /\ memory.sessions[ops[o].id] # None
         /\ \A id \in Ids \ {ops[o].id} : memory.sessions[id] # memory.sessions[ops[o].id]
         /\ \A p \in Lessees(ops) : ops[p].entry # memory.sessions[ops[o].id]
<1> DEFINE k == ops[o].id
           e == memory.sessions[k]
<1>1. /\ k \in Ids /\ e # None /\ memory.entries[e].status = "ready"
      /\ Sound(memory, ops, Lessees(ops)) /\ memory \in Memory
  BY IndInvFacts DEF ReadyEntry, Live
<1>2. \A id \in Ids : memory.sessions[id] # None => ops[memory.sessions[id]].id = id
  BY <1>1 DEF Sound, LeaseInv
<1>3. \A p \in Lessees(ops) : memory.entries[ops[p].entry].status # "ready"
  BY <1>1 DEF Sound, LeaseInv, LeaseOf
<1> QED
  BY <1>1, <1>2, <1>3 DEF Memory

LEMMA ReadInMemoryTraced ==
  ASSUME IndInv, TraceInv, NEW o \in Ops, ReadInMemory(o)
  PROVE  TraceInv'
<1> DEFINE k == ops[o].id
           e == memory.sessions[k]
           c == Lease(o, e, "release", <<>>)
           n == WithStatus(memory, e, "busy")
           new == Step(o, c, "publishing")
<1>1. /\ ops[o].pc = "admitted" /\ ReadyEntry(k) /\ memory' = n /\ ops' = new
      /\ UNCHANGED <<durable, shelf, atRisk, faulted>>
  BY DEF ReadInMemory, ShelfVars, Await, Step
<1>2. e \in Ops /\ memory \in Memory /\ ops \in [Ops -> Op] /\ ops[o] \in Op
  BY <1>1, IndInvFacts, ReadyIsFree
<1>3. /\ c \in Op /\ c.id = k /\ c.entry = e /\ c.rollback = "release" /\ c.checkpoint = <<>>
      /\ "publishing" \in PCs
  <2>1. <<>> \in Values
    BY DEF Values
  <2> QED
    BY <1>2, <2>1 DEF Lease, Op, PCs
<1> HIDE DEF c
<1>4. /\ Others(ops, new, o) /\ new[o].pc = "publishing" /\ new[o].id = k
      /\ new[o].entry = e /\ new[o].rollback = "release" /\ new[o].checkpoint = <<>>
  BY <1>2, <1>3, StepOf
<1> HIDE DEF new
<1>5. /\ n.sessions = memory.sessions /\ n.queue = memory.queue
      /\ \A f \in Ops : n.entries[f].value = memory.entries[f].value
  <2>1. /\ n.sessions = memory.sessions /\ n.queue = memory.queue
        /\ n.entries = [memory.entries EXCEPT ![e] = [value |-> memory.entries[e].value, status |-> "busy"]]
    BY <1>2, WithStatusFields
  <2> HIDE DEF n
  <2> QED
    BY <1>2, <2>1 DEF Memory
<1> HIDE DEF n
<1>6. \A id \in Ids : memory.sessions[id] # None =>
        n.entries[memory.sessions[id]].value = memory.entries[memory.sessions[id]].value
  BY <1>2, <1>5 DEF Memory
<1>7. \A id : QueueWithin(id, n, memory)
  BY <1>5, WithinItself
<1>8. o \in Untouching(ops) /\ o \notin Undone(k, new)
  BY <1>1, <1>4 DEF Untouching, Undone
<1>9. ASSUME k \in Ids \ faulted
      PROVE  LesseeInv(o, k, n, new)
  <2>1. ~InQueue(o, k, memory)
    BY <1>8, <1>9, TraceFacts
  <2>2. ~InQueue(o, k, n)
    BY <1>7, <2>1, QueueKnown
  <2> QED
    BY <1>4, <1>5, <2>2, NothingHeld DEF LesseeInv
<1> QED
  BY <1>1, <1>4, <1>5, <1>6, <1>7, <1>8, <1>9, QuietTraced

LEMMA PublishTraced ==
  ASSUME IndInv, TraceInv, NEW o \in Ops, Publish(o)
  PROVE  TraceInv'
<1> DEFINE k == ops[o].id
           e == ops[o].entry
           c == [ops[o] EXCEPT !.outcome = "succeeded"]
           n == WithStatus(memory, e, "ready")
           new == Step(o, c, "done")
<1>1. /\ ops[o].pc = "publishing" /\ memory' = n /\ ops' = new
      /\ UNCHANGED <<durable, shelf, atRisk, faulted>>
  BY DEF Publish, ShelfVars, End, Await, Step
<1>2. /\ memory \in Memory /\ ops \in [Ops -> Op] /\ ops[o] \in Op /\ o \in Lessees(ops)
      /\ e \in Ops
  BY <1>1, IndInvFacts, LeasedEntry DEF Lessees
<1>3. /\ c \in Op /\ c.id = k /\ c.kind = ops[o].kind /\ c.outcome = "succeeded" /\ "done" \in PCs
  BY <1>2 DEF Op, PCs
<1> HIDE DEF c
<1>4. /\ Others(ops, new, o) /\ new[o].pc = "done" /\ new[o].id = k
      /\ new[o].kind = ops[o].kind /\ new[o].outcome = "succeeded"
  BY <1>2, <1>3, StepOf
<1> HIDE DEF new
<1>5. /\ n.sessions = memory.sessions /\ n.queue = memory.queue
      /\ \A f \in Ops : n.entries[f].value = memory.entries[f].value
  <2>1. /\ n.sessions = memory.sessions /\ n.queue = memory.queue
        /\ n.entries = [memory.entries EXCEPT ![e] = [value |-> memory.entries[e].value, status |-> "ready"]]
    BY <1>2, WithStatusFields
  <2> HIDE DEF n
  <2> QED
    BY <1>2, <2>1 DEF Memory
<1> HIDE DEF n
<1>6. \A id \in Ids : memory.sessions[id] # None =>
        n.entries[memory.sessions[id]].value = memory.entries[memory.sessions[id]].value
  BY <1>2, <1>5 DEF Memory
<1>7. \A id : QueueWithin(id, n, memory)
  BY <1>5, WithinItself
<1>8. /\ o \in Untouching(new) => o \in Untouching(ops)
      /\ o \notin Undone(k, new) /\ o \notin Lessees(new)
  BY <1>4 DEF Untouching, Undone, Lessees
<1> QED
  BY <1>1, <1>4, <1>5, <1>6, <1>7, <1>8, QuietTraced

LEMMA SaveSucceedsTraced ==
  ASSUME IndInv, TraceInv, NEW o \in Ops, SaveSucceeds(o)
  PROVE  TraceInv'
<1> DEFINE k == ops[o].id
           n == Popped(memory)
           new == Step(o, ops[o], "publishing")
<1>1. /\ Serving(o, "save") /\ ops[o].pc = "saving" /\ memory' = Served /\ ops' = new
      /\ UNCHANGED <<durable, shelf, atRisk, faulted>>
  BY DEF SaveSucceeds, ShelfVars, Await, Step
<1>2. /\ Served = n /\ memory.queue # <<>> /\ memory.queue \in Seq(Request)
      /\ memory.queue[1].op = o /\ memory.queue[1].id = k
  BY <1>1, RequestServed
<1>3. /\ memory \in Memory /\ ops \in [Ops -> Op] /\ ops[o] \in Op /\ o \in Lessees(ops)
      /\ "publishing" \in PCs /\ Sound(memory, ops, Lessees(ops))
  BY <1>1, IndInvFacts DEF Lessees, PCs
<1>4. /\ Others(ops, new, o) /\ new[o].pc = "publishing" /\ new[o].id = k
      /\ new[o].kind = ops[o].kind /\ new[o].entry = ops[o].entry
      /\ new[o].rollback = ops[o].rollback /\ new[o].checkpoint = ops[o].checkpoint
  BY <1>3, StepOf
<1> HIDE DEF new
<1>5. /\ n.sessions = memory.sessions /\ n.entries = memory.entries
      /\ n.queue = Tail(memory.queue)
  BY <1>2, <1>3, PoppedFields
<1> HIDE DEF n
<1>6. \A id : QueueWithin(id, n, memory)
  BY <1>2, <1>3, <1>5, TailWithin
<1>7. /\ o \in Untouching(new) => o \in Untouching(ops)
      /\ o \notin Undone(k, new)
  BY <1>4 DEF Untouching, Undone
<1>8. ~InQueue(o, k, n)
  <2>1. /\ 1 \in DOMAIN memory.queue
        /\ \A i \in DOMAIN n.queue :
             i + 1 \in DOMAIN memory.queue /\ n.queue[i] = memory.queue[i + 1] /\ 1 < i + 1
    <3>1. /\ 1 \in DOMAIN memory.queue
          /\ DOMAIN n.queue = 1..(Len(memory.queue) - 1) /\ Len(memory.queue) \in Nat
          /\ \A i \in DOMAIN n.queue :
               i + 1 \in DOMAIN memory.queue /\ n.queue[i] = memory.queue[i + 1]
      BY <1>2, <1>5, TailFacts
    <3> QED
      BY <3>1
  <2>2. ASSUME NEW i \in DOMAIN n.queue, n.queue[i].id = k
        PROVE  n.queue[i].content = Absent
    <3>1. /\ memory.queue[i + 1].id = k /\ i + 1 \in DOMAIN memory.queue /\ 1 < i + 1
          /\ n.queue[i] = memory.queue[i + 1]
      BY <2>1, <2>2
    <3>2. memory.queue[i + 1].kind = "load"
      <4>1. ops[memory.queue[1].op].pc = "saving" /\ memory.queue[1].id = memory.queue[i + 1].id
        BY <1>1, <1>2, <3>1
      <4>2. OrderInv(memory, ops)
        BY <1>3 DEF Sound
      <4> QED
        BY <2>1, <3>1, <4>1, <4>2 DEF OrderInv
    <3>3. Matches(memory.queue[i + 1], ops[memory.queue[i + 1].op])
      BY <1>3, <3>1 DEF Sound, QueueInv
    <3> QED
      BY <3>1, <3>2, <3>3 DEF Matches
  <2> QED
    BY <2>2, NothingHeld DEF InQueue
<1>9. ASSUME k \in Ids \ faulted
      PROVE  LesseeInv(o, k, n, new)
  <2>1. LesseeInv(o, k, memory, ops)
    BY <1>3, <1>9, TraceFacts
  <2> QED
    BY <1>4, <1>5, <1>6, <1>8, <2>1 DEF LesseeInv, QueueWithin
<1> QED
  BY <1>1, <1>2, <1>3, <1>4, <1>5, <1>6, <1>7, <1>9, QuietTraced

LEMMA RollbackStoredTraced ==
  ASSUME IndInv, TraceInv, NEW o \in Ops, RollbackStored(o)
  PROVE  TraceInv'
<1> DEFINE k == ops[o].id
           n == Popped(memory)
           new == Step(o, ops[o], "done")
<1>1. /\ \/ Serving(o, "save") /\ ops[o].pc = "unsaving" /\ InPhase("settled")
         \/ /\ Serving(o, "delete")
            /\ InPhase("settled") \/ (InPhase("queued") /\ shelf[k] = Absent)
      /\ memory' = Served /\ ops' = new
      /\ UNCHANGED <<durable, shelf, atRisk, faulted>>
  BY DEF RollbackStored, ShelfVars, Await, Step
<1>2. /\ Served = n /\ memory.queue # <<>> /\ memory.queue \in Seq(Request)
      /\ memory.queue[1].op = o /\ memory.queue[1].id = k
      /\ Head(memory.queue) = memory.queue[1] /\ ops[o].pc \in {"unsaving", "deleting"}
      /\ Serving(o, "delete") => memory.queue[1].kind = "delete"
  BY <1>1, RequestServed
<1>3. /\ memory \in Memory /\ ops \in [Ops -> Op] /\ ops[o] \in Op /\ o \notin Lessees(ops)
      /\ "done" \in PCs /\ QueueInv(memory, ops)
  BY <1>2, IndInvFacts DEF Lessees, PCs, Sound
<1>4. /\ Others(ops, new, o) /\ new[o].pc = "done" /\ new[o].id = k
      /\ new[o].kind = ops[o].kind /\ new[o].outcome = ops[o].outcome
  BY <1>3, StepOf
<1> HIDE DEF new
<1>5. /\ n.sessions = memory.sessions /\ n.entries = memory.entries
      /\ n.queue = Tail(memory.queue)
  BY <1>2, <1>3, PoppedFields
<1> HIDE DEF n
<1>6. \A id : QueueWithin(id, n, memory)
  BY <1>2, <1>3, <1>5, TailWithin
<1>7. /\ o \in Untouching(new) => o \in Untouching(ops)
      /\ o \in Undone(k, new) => o \in Undone(k, ops)
      /\ o \notin Lessees(new)
  BY <1>2, <1>4 DEF Untouching, Undone, Lessees
<1>8. ASSUME k \in Ids \ faulted, o \in Undone(k, ops)
      PROVE  ~Stored(o, k)
  <2>1. 1 \in DOMAIN memory.queue
    BY <1>2, TailFacts
  <2>2. ~InQueue(o, k, memory) /\ DeleteInv(k, memory)
    BY <1>8, TraceFacts
  <2>3. ~Holds(memory.queue[1].content, o)
    BY <1>2, <2>1, <2>2 DEF InQueue
  <2>4. CASE InPhase("settled")
    <3>1. memory.queue[1].phase = "settled"
      BY <1>2, <2>4 DEF InPhase
    <3>2. shelf[k] = memory.queue[1].content /\ atRisk = {shelf}
      BY <1>2, <1>3, <2>1, <3>1 DEF QueueInv
    <3> QED
      BY <2>3, <3>2 DEF Stored
  <2>5. CASE Serving(o, "delete") /\ InPhase("queued") /\ shelf[k] = Absent
    <3>1. memory.queue[1].phase = "queued" /\ memory.queue[1].kind = "delete"
      BY <1>2, <2>5 DEF InPhase
    <3> QED
      BY <1>2, <2>1, <2>2, <2>5, <3>1 DEF DeleteInv
  <2> QED
    BY <1>1, <2>4, <2>5
<1> QED
  BY <1>1, <1>2, <1>3, <1>4, <1>5, <1>6, <1>7, <1>8, QuietTraced

LEMMA LoadFailsTraced ==
  ASSUME IndInv, TraceInv, NEW o \in Ops, LoadFails(o)
  PROVE  TraceInv'
<1> DEFINE k == ops[o].id
           c == Failed(ops[o])
           n == Loaded(o)
           new == Step(o, c, "done")
<1>1. /\ Serving(o, "load") /\ memory' = Unreserved /\ ops' = new
      /\ UNCHANGED <<durable, shelf, atRisk, faulted>>
  BY DEF LoadFails, End, Await, Step, Failed, ShelfVars
<1>2. c \in Op /\ c.id = k /\ ops \in [Ops -> Op] /\ "done" \in PCs /\ memory \in Memory
  BY IndInvFacts DEF PCs
<1> HIDE DEF c
<1>3. Others(ops, new, o) /\ new[o].pc = "done" /\ new[o].id = k
  BY <1>2, StepOf
<1> HIDE DEF new
<1>4. /\ ops[o].pc = "loading" /\ memory.queue # <<>> /\ Unreserved = n
      /\ n.sessions = memory.sessions /\ n.entries = Popped(memory).entries
      /\ n.queue = Popped(memory).queue
  BY <1>1, LoadAnswered
<1>5. n.entries = memory.entries /\ n.queue = Tail(memory.queue)
  BY <1>2, <1>4, PoppedFields
<1> HIDE DEF n
<1>6. \A id : QueueWithin(id, n, memory)
  BY <1>2, <1>4, <1>5, TailWithin
<1>7. o \in Untouching(ops) /\ o \notin Lessees(new)
  BY <1>3, <1>4 DEF Untouching, Lessees
<1>8. k \in Ids \ faulted => ~Stored(o, k)
  BY <1>7, TraceFacts
<1> QED
  BY <1>1, <1>3, <1>4, <1>5, <1>6, <1>7, <1>8, QuietTraced


(* What is said of a session stays when its value does.                    *)
LEMMA TraceSame ==
  ASSUME NEW id, NEW m, NEW cs, NEW n, TraceOf(id, m, cs),
         n.sessions[id] = m.sessions[id],
         m.sessions[id] # None =>
           n.entries[m.sessions[id]].value = m.entries[m.sessions[id]].value,
         QueueWithin(id, n, m)
  PROVE  TraceOf(id, n, cs)
<1>1. \A p : InQueue(p, id, n) => InQueue(p, id, m)
  BY QueueKnown
<1>2. \A p : Known(p, id, n, cs) => Known(p, id, m, cs)
  BY <1>1 DEF Known, InMemory
<1>3. DeleteInv(id, n)
  BY QueueKnown DEF TraceOf
<1>4. ASSUME NEW p \in Lessees(cs), cs[p].id = id
      PROVE  LesseeInv(p, id, n, cs)
  <2>1. LesseeInv(p, id, m, cs)
    BY <1>4 DEF TraceOf
  <2> QED
    BY <1>1, <2>1 DEF LesseeInv, QueueWithin
<1> QED
  BY <1>2, <1>3, <1>4 DEF TraceOf

LEMMA AnonymizeInMemoryTraced ==
  ASSUME IndInv, TraceInv, NEW o \in Ops, AnonymizeInMemory(o)
  PROVE  TraceInv'
<1> DEFINE k == ops[o].id
           e == memory.sessions[k]
           c == Lease(o, e, "restore", memory.entries[e].value)
           n == WithStatus(memory, e, "busy")
<1>1. /\ ops[o].pc = "admitted" /\ ops[o].kind = "anonymize" /\ ReadyEntry(k)
      /\ Redact(o, n, c) /\ UNCHANGED <<durable, shelf, atRisk>>
  BY DEF AnonymizeInMemory, ShelfVars
<1>2. /\ e \in Ops /\ e # None /\ memory \in Memory /\ ops \in [Ops -> Op] /\ ops[o] \in Op
      /\ \A id \in Ids \ {k} : memory.sessions[id] # e
      /\ \A p \in Lessees(ops) : ops[p].entry # e
  BY <1>1, IndInvFacts, ReadyIsFree
<1>3. /\ c \in Op /\ c.id = k /\ c.entry = e /\ c.rollback = "restore" /\ c.kind = "anonymize"
      /\ c.checkpoint = memory.entries[e].value
  <2>1. memory.entries[e].value \in Values
    BY <1>2 DEF Memory, Entry
  <2> QED
    BY <1>1, <1>2, <2>1 DEF Lease, Op
<1> HIDE DEF c
<1>4. /\ n \in Memory /\ n.sessions = memory.sessions /\ n.queue = memory.queue
      /\ \A f \in Ops : n.entries[f].value = memory.entries[f].value
  <2>1. /\ n \in Memory /\ n.sessions = memory.sessions /\ n.queue = memory.queue
        /\ n.entries = [memory.entries EXCEPT ![e] = [value |-> memory.entries[e].value, status |-> "busy"]]
    BY <1>2, WithStatusFields
  <2> HIDE DEF n
  <2> QED
    BY <1>2, <2>1 DEF Memory
<1> HIDE DEF n
<1>5. \A id \in Ids : memory.sessions[id] # None =>
        n.entries[memory.sessions[id]].value = memory.entries[memory.sessions[id]].value
  BY <1>2, <1>4 DEF Memory
<1>6. OnlyOf(k, n, memory)
  BY <1>4, <1>5, OnlyItself
<1>7. ASSUME k \notin faulted
      PROVE  MayRedact(o, n, c)
  <2>1. k \in Ids \ faulted
    BY <1>2, <1>7 DEF Op
  <2>2. TraceOf(k, n, ops)
    <3>1. TraceOf(k, memory, ops) /\ QueueWithin(k, n, memory)
      BY <1>4, <2>1, TraceFacts, WithinItself
    <3> QED
      BY <1>4, <1>5, <2>1, <3>1, TraceSame
  <2>3. \A p \in Lessees(ops) : ops[p].id # k
    <3>1. ASSUME NEW p \in Lessees(ops), ops[p].id = k
          PROVE  FALSE
      <4>1. p \in Ops
        BY DEF Lessees
      <4>2. LesseeInv(p, k, memory, ops)
        BY <2>1, <3>1, <4>1, TraceFacts
      <4> QED
        BY <1>2, <4>2 DEF LesseeInv
    <3> QED
      BY <3>1
  <2>4. o \in Untouching(ops)
    BY <1>1 DEF Untouching
  <2> QED
    BY <1>3, <2>2, <2>3, <2>4 DEF MayRedact
<1>8. /\ c.entry = n.sessions[c.id] /\ c.entry \in Ops /\ c.entry # None
      /\ \A id \in Ids \ {c.id} : n.sessions[id] # c.entry
      /\ c.rollback # "release" /\ c.checkpoint = n.entries[c.entry].value
  BY <1>2, <1>3, <1>4
<1>9. c.id = ops[o].id
  BY <1>3
<1> QED
  BY <1>1, <1>2, <1>3, <1>4, <1>6, <1>7, <1>8, <1>9, RedactTraced

(* A session is made from what the store has: what is in the store of a    *)
(* call that is to leave no trace is nothing.                              *)
LEMMA CreatedTraced ==
  ASSUME IndInv, TraceInv, NEW o \in Ops, NEW m, NEW cs, NEW n, NEW content,
         MayCreate(o, m, cs, n, content), m.sessions = memory.sessions,
         ops[o].pc \in {"admitted", "loading"}, ops[o].id \notin faulted
  PROVE  /\ TraceOf(ops[o].id, n, ops)
         /\ \A p \in Lessees(ops) : ops[p].id # ops[o].id
         /\ \A i \in DOMAIN n.queue : n.queue[i].id # ops[o].id
<1> DEFINE k == ops[o].id
<1>1. /\ k \in Ids \ faulted /\ memory.sessions[k] = None /\ n.sessions[k] = o
      /\ n.entries[o].value = NewValue(content) /\ shelf \in atRisk
      /\ content = shelf[k] \/ content = Absent
      /\ \A i \in DOMAIN n.queue : n.queue[i].id # k
      /\ Sound(m, cs, Lessees(ops)) /\ m.queue = n.queue
      /\ Others(cs, ops, o) /\ cs[o].pc = "admitted"
  BY IndInvFacts DEF MayCreate, Memory, StoredInv, Sound, Typed
<1>2. \A p \in Lessees(ops) : ops[p].id # k
  <2>1. ASSUME NEW p \in Lessees(ops), ops[p].id = k
        PROVE  FALSE
    <3>1. p \in Ops
      BY DEF Lessees
    <3>2. LesseeInv(p, k, memory, ops) /\ ops[p].entry # None
      BY <1>1, <2>1, <3>1, TraceFacts, LeasedEntry
    <3> QED
      BY <1>1, <3>2 DEF LesseeInv
  <2> QED
    BY <2>1
<1>3. \A p : Known(p, k, n, ops) => Stored(p, k)
  <2>1. ASSUME NEW p, InMemory(p, k, n)
        PROVE  Stored(p, k)
    BY <1>1, <2>1, NothingHeld DEF InMemory, NewValue, Stored
  <2> QED
    BY <1>1, <1>2, <2>1 DEF Known, InQueue, InCheckpoints
<1>4. ASSUME NEW p \in Undone(k, ops)
      PROVE  ops[p].pc = "done"
  <2>1. p \in Ops /\ p # o /\ ops[p].id = k /\ ops[p].pc \in {"unsaving", "deleting", "done"}
    BY <1>4 DEF Undone
  <2>2. cs[p] = ops[p]
    BY <1>1, <2>1 DEF Others
  <2>3. ASSUME ops[p].pc \in {"unsaving", "deleting"}
        PROVE  FALSE
    <3>1. PICK i \in DOMAIN m.queue : m.queue[i].op = p
      BY <1>1, <2>1, <2>2, <2>3 DEF Sound, QueueInv
    <3>2. Matches(m.queue[i], cs[p])
      BY <1>1, <3>1 DEF Sound, QueueInv
    <3> QED
      BY <1>1, <2>1, <2>2, <3>2 DEF Matches
  <2> QED
    BY <2>1, <2>3
<1>5. TraceOf(k, memory, ops)
  BY <1>1, TraceFacts
<1>6. DeleteInv(k, n)
  BY <1>1 DEF DeleteInv
<1>7. TraceOf(k, n, ops)
  <2>1. \A p \in Untouching(ops) : ~Known(p, k, n, ops) /\ ~Stored(p, k)
    BY <1>3, <1>5 DEF TraceOf
  <2>2. \A p \in Undone(k, ops) : ~Known(p, k, n, ops) /\ ~Stored(p, k)
    BY <1>3, <1>4, <1>5 DEF TraceOf
  <2> QED
    BY <1>2, <1>5, <1>6, <2>1, <2>2 DEF TraceOf
<1> QED
  BY <1>1, <1>2, <1>7

LEMMA CreatedOnly ==
  ASSUME IndInv, NEW o \in Ops, ops[o].pc \in {"admitted", "loading"}, NEW n,
         n.sessions = [memory.sessions EXCEPT ![ops[o].id] = o],
         \A f \in Ops \ {o} : n.entries[f] = memory.entries[f],
         \A id \in Ids : QueueWithin(id, n, memory)
  PROVE  /\ OnlyOf(ops[o].id, n, memory) /\ n.sessions[ops[o].id] = o
         /\ \A id \in Ids \ {ops[o].id} : n.sessions[id] # o
<1>1. ops[o].id \in Ids /\ memory \in Memory
  BY IndInvFacts
<1>2. \A id \in Ids : memory.sessions[id] # o
  BY LeasedEntry DEF Born
<1>3. /\ n.sessions[ops[o].id] = o
      /\ \A id \in Ids \ {ops[o].id} : n.sessions[id] = memory.sessions[id]
      /\ \A id \in Ids : memory.sessions[id] \in Ops \cup {None}
  BY <1>1 DEF Memory
<1> QED
  BY <1>1, <1>2, <1>3 DEF OnlyOf

LEMMA AnonymizeNewTraced ==
  ASSUME IndInv, TraceInv, NEW o \in Ops, AnonymizeNew(o)
  PROVE  TraceInv'
<1> DEFINE k == ops[o].id
           n == Created(o, memory, Absent, "initializing")
           c == Lease(o, o, "delete", <<>>)
<1>1. /\ ops[o].pc = "admitted" /\ ops[o].kind = "anonymize" /\ Redact(o, n, c)
      /\ UNCHANGED <<durable, shelf, atRisk>>
  BY DEF AnonymizeNew, CreateAndRedact, ShelfVars
<1>2. /\ MayCreate(o, memory, ops, n, Absent) /\ ops \in [Ops -> Op] /\ ops[o] \in Op
      /\ o # None /\ k \in Ids
  BY NewCreates, IndInvFacts, LeasedEntry
<1>3. /\ c \in Op /\ c.id = k /\ c.entry = o /\ c.rollback = "delete" /\ c.kind = "anonymize"
      /\ c.checkpoint = <<>>
  <2>1. <<>> \in Values
    BY DEF Values
  <2> QED
    BY <1>1, <1>2, <2>1 DEF Lease, Op
<1> HIDE DEF c, n
<1>4. /\ n \in Memory /\ n.sessions = [memory.sessions EXCEPT ![k] = o]
      /\ n.queue = memory.queue /\ \A f \in Ops \ {o} : n.entries[f] = memory.entries[f]
      /\ n.entries[o].value = <<>>
  BY <1>2 DEF MayCreate, NewValue
<1>5. \A id : QueueWithin(id, n, memory)
  BY <1>4, WithinItself
<1>6. /\ OnlyOf(k, n, memory) /\ n.sessions[k] = o
      /\ \A id \in Ids \ {k} : n.sessions[id] # o
  <2>1. ops[o].pc \in {"admitted", "loading"} /\ \A id \in Ids : QueueWithin(id, n, memory)
    BY <1>1, <1>5
  <2> QED
    BY <1>4, <2>1, CreatedOnly
<1>7. k \notin faulted => MayRedact(o, n, c)
  BY <1>1, <1>2, <1>3, CreatedTraced DEF MayRedact, Untouching
<1>8. c.rollback # "release" /\ c.id = ops[o].id
  BY <1>3
<1> QED
  BY <1>1, <1>2, <1>3, <1>4, <1>6, <1>7, <1>8, RedactTraced

LEMMA LoadTraced ==
  ASSUME IndInv, TraceInv, NEW o \in Ops, Serving(o, "load"),
         NEW n, MayCreate(o, Loaded(o), Step(o, ops[o], "admitted"), n, shelf[ops[o].id])
  PROVE  /\ ops[o].pc = "loading" /\ n \in Memory /\ OnlyOf(ops[o].id, n, memory)
         /\ n.sessions[ops[o].id] = o /\ \A id \in Ids \ {ops[o].id} : n.sessions[id] # o
         /\ n.entries[o].value = NewValue(shelf[ops[o].id])
         /\ ops[o].id \notin faulted =>
              /\ TraceOf(ops[o].id, n, ops)
              /\ \A p \in Lessees(ops) : ops[p].id # ops[o].id
              /\ \A i \in DOMAIN n.queue : n.queue[i].id # ops[o].id
<1> DEFINE m == Loaded(o)
           cs == Step(o, ops[o], "admitted")
           content == shelf[ops[o].id]
<1>1. MayCreate(o, m, cs, n, content)
  OBVIOUS
<1>2. /\ ops[o].pc = "loading" /\ m.sessions = memory.sessions /\ memory.queue # <<>>
      /\ m.entries = Popped(memory).entries /\ m.queue = Popped(memory).queue
  BY LoadAnswered
<1>3. m.entries = memory.entries /\ m.queue = Tail(memory.queue) /\ memory \in Memory
  BY <1>2, IndInvFacts, PoppedFields
<1> HIDE DEF m, cs, content
<1>4. /\ n \in Memory /\ n.sessions = [memory.sessions EXCEPT ![ops[o].id] = o]
      /\ n.queue = Tail(memory.queue) /\ \A f \in Ops \ {o} : n.entries[f] = memory.entries[f]
      /\ n.entries[o].value = NewValue(content)
  BY <1>1, <1>2, <1>3 DEF MayCreate
<1>5. \A id : QueueWithin(id, n, memory)
  BY <1>2, <1>3, <1>4, TailWithin
<1>6. /\ OnlyOf(ops[o].id, n, memory) /\ n.sessions[ops[o].id] = o
      /\ \A id \in Ids \ {ops[o].id} : n.sessions[id] # o
  <2>1. /\ ops[o].pc \in {"admitted", "loading"}
        /\ \A id \in Ids : QueueWithin(id, n, memory)
        /\ n.sessions = [memory.sessions EXCEPT ![ops[o].id] = o]
        /\ \A f \in Ops \ {o} : n.entries[f] = memory.entries[f]
    BY <1>2, <1>4, <1>5
  <2> QED
    BY <2>1, CreatedOnly
<1>7. ops[o].id \notin faulted =>
        /\ TraceOf(ops[o].id, n, ops)
        /\ \A p \in Lessees(ops) : ops[p].id # ops[o].id
        /\ \A i \in DOMAIN n.queue : n.queue[i].id # ops[o].id
  BY <1>1, <1>2, CreatedTraced
<1> QED
  BY <1>2, <1>4, <1>6, <1>7 DEF content


LEMMA LoadSucceedsTraced ==
  ASSUME IndInv, TraceInv, NEW o \in Ops, LoadSucceeds(o)
  PROVE  TraceInv'
<1> DEFINE k == ops[o].id
           content == shelf[k]
<1>1. /\ Serving(o, "load") /\ ops[o].pc = "loading" /\ o \in Untouching(ops)
      /\ ops \in [Ops -> Op] /\ ops[o] \in Op /\ o # None /\ k \in Ids
      /\ content \in Values \cup {Absent} /\ <<>> \in Values
      /\ UNCHANGED <<durable, shelf, atRisk>>
  <2>1. Serving(o, "load") /\ UNCHANGED <<durable, shelf, atRisk>>
    BY DEF LoadSucceeds, ShelfVars
  <2>2. shelf \in [Ids -> Values \cup {Absent}] /\ k \in Ids
    BY IndInvFacts DEF StoredInv, Store!Shelf
  <2> QED
    BY <2>1, <2>2, LoadAnswered, IndInvFacts, LeasedEntry DEF Untouching, Values
<1>2. CASE ops[o].kind = "anonymize"
  <2> DEFINE c == IF content = Absent THEN Lease(o, o, "delete", <<>>)
                                      ELSE Lease(o, o, "restore", content)
             status == "initializing"
             n == Created(o, Served, content, status)
  <2>1. Redact(o, n, c)
    BY <1>2 DEF LoadSucceeds, CreateAndRedact
  <2>2. /\ c \in Op /\ c.id = k /\ c.entry = o /\ c.kind = "anonymize"
        /\ c.rollback \in {"delete", "restore"} /\ c.checkpoint = NewValue(content)
    <3>1. CASE content = Absent
      BY <1>1, <1>2, <3>1 DEF Lease, Op, NewValue
    <3>2. CASE content # Absent
      BY <1>1, <1>2, <3>2 DEF Lease, Op, NewValue
    <3> QED
      BY <3>1, <3>2
  <2>3. status \in {"initializing", "busy"}
    OBVIOUS
  <2> HIDE DEF c, status
  <2>4. MayCreate(o, Loaded(o), Step(o, ops[o], "admitted"), n, shelf[ops[o].id])
    BY <1>1, <2>3, LoadCreates
  <2> HIDE DEF n
  <2>5. /\ n \in Memory /\ OnlyOf(k, n, memory) /\ n.sessions[k] = o
        /\ \A id \in Ids \ {k} : n.sessions[id] # o
        /\ n.entries[o].value = NewValue(content)
        /\ k \notin faulted =>
             /\ TraceOf(k, n, ops) /\ \A p \in Lessees(ops) : ops[p].id # k
             /\ \A i \in DOMAIN n.queue : n.queue[i].id # k
    BY <1>1, <2>4, LoadTraced
  <2>6. k \notin faulted => MayRedact(o, n, c)
    BY <1>1, <2>2, <2>5 DEF MayRedact
  <2>7. c.rollback # "release"
    BY <2>2
  <2> QED
    BY <1>1, <2>1, <2>2, <2>5, <2>6, <2>7, RedactTraced
<1>3. CASE ops[o].kind # "anonymize"
  <2> DEFINE c == Lease(o, o, "release", <<>>)
             status == "busy"
             n == Created(o, Served, content, status)
             new == Step(o, c, "publishing")
  <2>1. memory' = n /\ ops' = new /\ faulted' = faulted
    BY <1>3 DEF LoadSucceeds, Await, Step
  <2>2. /\ c \in Op /\ c.id = k /\ c.entry = o /\ c.rollback = "release"
        /\ c.checkpoint = <<>> /\ "publishing" \in PCs
    BY <1>1 DEF Lease, Op, PCs
  <2>3. status \in {"initializing", "busy"}
    OBVIOUS
  <2> HIDE DEF c, status
  <2>4. MayCreate(o, Loaded(o), Step(o, ops[o], "admitted"), n, shelf[ops[o].id])
    BY <1>1, <2>3, LoadCreates
  <2> HIDE DEF n
  <2>5. /\ Others(ops, new, o) /\ new[o].pc = "publishing" /\ new[o].id = k
        /\ new[o].entry = o /\ new[o].rollback = "release" /\ new[o].checkpoint = <<>>
    BY <1>1, <2>2, StepOf
  <2> HIDE DEF new
  <2>6. /\ n \in Memory /\ OnlyOf(k, n, memory) /\ n.sessions[k] = o
        /\ k \notin faulted =>
             /\ TraceOf(k, n, ops) /\ \A p \in Lessees(ops) : ops[p].id # k
             /\ \A i \in DOMAIN n.queue : n.queue[i].id # k
    BY <1>1, <2>4, LoadTraced
  <2>7. ASSUME k \in Ids \ faulted
        PROVE  TraceOf(k, n, new)
    <3>1. /\ TraceOf(k, n, ops) /\ DeleteInv(k, n) /\ ~Stored(o, k)
          /\ ~Known(o, k, n, ops) /\ \A p \in Lessees(ops) \ {o} : ops[p].id # k
      BY <1>1, <2>6, <2>7 DEF TraceOf
    <3>2. \A p : Known(p, k, n, new) => Known(p, k, n, ops)
      BY <2>5, NothingHeld DEF Known, InCheckpoints, Others, Lessees
    <3>3. LesseeInv(o, k, n, new)
      BY <2>5, <2>6, <2>7, NothingHeld DEF LesseeInv, InQueue
    <3>4. o \notin Undone(k, new)
      BY <2>5 DEF Undone
    <3> HIDE DEF k
    <3> QED
      BY <2>5, <3>1, <3>2, <3>3, <3>4, TraceKept
  <2>8. o \in Untouching(new) => o \in Untouching(ops)
    BY <1>1
  <2> HIDE DEF content
  <2> QED
    BY <1>1, <2>1, <2>5, <2>6, <2>7, <2>8, StepTraced
<1> QED
  BY <1>2, <1>3

(* The call that leaves a new entry behind has added nothing to it.        *)
LEMMA LoadStrandsTraced ==
  ASSUME IndInv, TraceInv, NEW o \in Ops, LoadStrands(o)
  PROVE  TraceInv'
<1> DEFINE k == ops[o].id
           c == Failed(ops[o])
           status == "initializing"
           n == Created(o, Served, shelf[k], status)
           new == Step(o, c, "done")
<1>1. /\ Serving(o, "load") /\ memory' = n /\ ops' = new
      /\ UNCHANGED <<durable, shelf, atRisk, faulted>>
  BY DEF LoadStrands, End, Await, Step, Failed, ShelfVars
<1>2. /\ c \in Op /\ c.id = k /\ ops \in [Ops -> Op] /\ "done" \in PCs
      /\ status \in {"initializing", "busy"}
  BY IndInvFacts DEF PCs
<1> HIDE DEF c, status
<1>3. MayCreate(o, Loaded(o), Step(o, ops[o], "admitted"), n, shelf[ops[o].id])
  BY <1>1, <1>2, LoadCreates
<1> HIDE DEF n
<1>4. Others(ops, new, o) /\ new[o].pc = "done" /\ new[o].id = k
  BY <1>2, StepOf
<1> HIDE DEF new
<1>5. /\ OnlyOf(k, n, memory) /\ ops[o].pc = "loading"
      /\ k \notin faulted =>
           TraceOf(k, n, ops) /\ \A p \in Lessees(ops) : ops[p].id # k
  BY <1>1, <1>3, LoadTraced
<1>6. o \in Untouching(ops) /\ o \notin Lessees(new)
  BY <1>4, <1>5 DEF Untouching, Lessees
<1>7. ASSUME k \in Ids \ faulted
      PROVE  TraceOf(k, n, new)
  <2>1. /\ TraceOf(k, n, ops) /\ DeleteInv(k, n) /\ ~Stored(o, k)
        /\ ~Known(o, k, n, ops) /\ \A p \in Lessees(ops) \ {o} : ops[p].id # k
    BY <1>5, <1>6, <1>7 DEF TraceOf
  <2>2. \A p : Known(p, k, n, new) => Known(p, k, n, ops)
    BY <1>4, <1>6 DEF Known, InCheckpoints, Others, Lessees
  <2> HIDE DEF k
  <2> QED
    BY <1>4, <1>6, <2>1, <2>2, TraceKept
<1>8. o \in Untouching(new) => o \in Untouching(ops)
  BY <1>6
<1> QED
  BY <1>1, <1>4, <1>5, <1>7, <1>8, StepTraced


LEMMA SaveFailsTraced ==
  ASSUME IndInv, TraceInv, NEW o \in Ops, SaveFails(o)
  PROVE  TraceInv'
<1> DEFINE c == Failed(ops[o])
           m == Popped(memory)
           broken == {ops[o].id}
<1>1. /\ Serving(o, "save") /\ ops[o].pc = "saving"
      /\ RollBack(o, Served, c, broken) /\ UNCHANGED <<durable, shelf, atRisk>>
  BY DEF SaveFails, ShelfVars
<1>2. Served = m /\ memory.queue # <<>> /\ memory \in Memory /\ ops \in [Ops -> Op]
  BY <1>1, RequestServed, IndInvFacts
<1>3. /\ c \in Op /\ c.id = ops[o].id /\ c.entry = ops[o].entry /\ c.kind = ops[o].kind
  BY IndInvFacts DEF SameLease
<1>4. o \in Lessees(ops)
  BY <1>1 DEF Lessees
<1>5. /\ c.entry \in Ops /\ c.entry # None /\ c.kind = "anonymize"
      /\ \A id \in Ids \ {c.id} : memory.sessions[id] # c.entry
  BY <1>1, <1>3, <1>4, LeasedEntry
<1>6. RollBack(o, m, c, broken)
  BY <1>1, <1>2
<1>7. m \in Memory /\ m.sessions = memory.sessions /\ OnlyOf(c.id, m, memory)
  BY <1>2, PoppedFields, PoppedOnly
<1>8. broken \in SUBSET {c.id} /\ broken # {}
  BY <1>3
<1> HIDE DEF c, m, broken
<1>9. \A id \in Ids \ {c.id} : m.sessions[id] # c.entry
  BY <1>5, <1>7
<1> QED
  BY <1>1, <1>2, <1>3, <1>5, <1>6, <1>7, <1>8, <1>9, RollBackTraced

(* A call that may not publish takes back what it did, of which the        *)
(* checkpoint is known, and of which the store has something to remove.    *)
LEMMA PublishFailsTraced ==
  ASSUME IndInv, TraceInv, NEW o \in Ops, PublishFails(o)
  PROVE  TraceInv'
<1> DEFINE k == ops[o].id
           c == [ops[o] EXCEPT !.outcome = "unpublished"]
           m == memory
           broken == {}
<1>1. /\ ops[o].pc = "publishing" /\ RollBack(o, m, c, broken)
      /\ UNCHANGED <<durable, shelf, atRisk>>
  BY DEF PublishFails, ShelfVars
<1>2. /\ m \in Memory /\ ops \in [Ops -> Op] /\ ops[o] \in Op /\ o \in Lessees(ops) /\ k \in Ids
      /\ Sound(m, ops, Lessees(ops)) /\ StoredInv /\ m = memory
  BY <1>1, IndInvFacts DEF Lessees
<1>3. /\ c \in Op /\ c.id = k /\ c.entry = ops[o].entry /\ c.kind = ops[o].kind
      /\ c.rollback = ops[o].rollback /\ c.checkpoint = ops[o].checkpoint
  BY <1>2 DEF Op
<1>4. broken \in SUBSET {c.id}
  OBVIOUS
<1> HIDE DEF c, m, broken
<1>5. /\ c.entry \in Ops /\ c.entry # None
      /\ \A id \in Ids \ {c.id} : m.sessions[id] # c.entry
      /\ ops[o].kind = "restore" <=> ops[o].rollback = "release"
  BY <1>2, <1>3, LeasedEntry
<1>6. OnlyOf(c.id, m, memory)
  BY <1>2, OnlyItself
<1>7. ASSUME k \notin faulted
      PROVE  MayUndo(o, m, c)
  <2>1. /\ TraceOf(k, m, ops) /\ LesseeInv(o, k, m, ops)
    BY <1>2, <1>7, TraceFacts
  <2>2. /\ m.sessions[k] = c.entry /\ ~Holds(c.checkpoint, o) /\ ~InQueue(o, k, m)
        /\ c.rollback = "delete" => \A i \in DOMAIN m.queue : m.queue[i].id = k => m.queue[i].op = o
    BY <1>1, <1>3, <2>1 DEF LesseeInv
  <2>3. \A p : Holds(c.checkpoint, p) => p # o /\ Known(p, k, m, ops)
    BY <1>2, <1>3, <2>2 DEF Known, InCheckpoints
  <2>4. ASSUME NEW p \in Lessees(ops) \ {o}, ops[p].id = k
        PROVE  FALSE
    <3>1. m.sessions[k] = ops[p].entry
      BY <2>1, <2>4 DEF TraceOf, LesseeInv
    <3> QED
      BY <1>2, <1>3, <2>2, <2>4, <3>1 DEF Sound, LeaseInv
  <2>5. c.rollback = "release" => o \in Untouching(ops)
    BY <1>3, <1>5 DEF Untouching
  <2>6. ASSUME c.rollback = "delete", NEW i \in DOMAIN m.queue, m.queue[i].id = k
        PROVE  FALSE
    <3>1. m.queue[i].op = o
      BY <2>2, <2>6
    <3>2. Matches(m.queue[i], ops[o]) /\ m.queue[i] \in Request
      BY <1>2, <2>6, <3>1 DEF Sound, QueueInv, Memory
    <3> QED
      BY <1>1, <3>2 DEF Matches, Request
  <2>7. ASSUME c.rollback = "delete", durable
        PROVE  shelf[k] # Absent
    <3>1. ops[o].rollback # "release" /\ ops[o].checkpoint \in Values /\ ops[o].pc # "done"
      BY <1>1, <1>2, <1>3, <2>7 DEF Op
    <3>2. m.entries[c.entry].value = Grown(ops[o].checkpoint, o)
      BY <1>2, <1>3, <3>1 DEF Sound, LeaseInv, LeaseOf
    <3>3. ~InTransit(k, m, ops, Lessees(ops))
      BY DEF InTransit, Lessees
    <3>4. Matched(k, m)
      BY <1>2, <1>5, <2>2, <2>7, <3>3 DEF Sound, MatchInv
    <3>5. shelf[k] = Grown(ops[o].checkpoint, o)
      BY <2>2, <2>6, <2>7, <3>2, <3>4 DEF Matched
    <3>6. Grown(ops[o].checkpoint, o) \in Values
      BY <3>1, AppendRestores
    <3> QED
      BY <3>5, <3>6, ServiceAssumption DEF Values
  <2> QED
    BY <1>3, <2>1, <2>2, <2>3, <2>4, <2>5, <2>6, <2>7 DEF MayUndo
<1>8. c.kind = "restore" => o \in Untouching(ops)
  BY <1>3 DEF Untouching
<1>9. (c.id \notin faulted /\ broken = {}) => MayUndo(o, m, c)
  BY <1>3, <1>7
<1> HIDE DEF k
<1>10. c.id = ops[o].id
  BY <1>3 DEF k
<1> QED
  BY <1>1, <1>2, <1>4, <1>5, <1>6, <1>8, <1>9, <1>10, <1>3, RollBackTraced

(* The rollback that was lost is of a session whose storage failed.        *)
LEMMA RollbackLostTraced ==
  ASSUME IndInv, TraceInv, NEW o \in Ops, RollbackLost(o)
  PROVE  TraceInv'
<1> DEFINE k == ops[o].id
           c == Failed(ops[o])
           new == Step(o, c, "done")
           n == Popped(memory)
<1>1. /\ Serving(o, "save") \/ Serving(o, "delete")
      /\ memory' = Drop(Served, k) \/ memory' = Served
      /\ ops' = new /\ faulted' = faulted \cup {k} /\ UNCHANGED <<durable, shelf, atRisk>>
  BY DEF RollbackLost, End, Await, Step, Failed, ShelfVars
<1>2. /\ Served = n /\ memory.queue # <<>> /\ memory \in Memory /\ ops \in [Ops -> Op]
      /\ ops[o] \in Op /\ k \in Ids
  BY <1>1, RequestServed, IndInvFacts
<1>3. /\ c \in Op /\ c.id = k /\ c.kind = ops[o].kind /\ "done" \in PCs
  BY IndInvFacts DEF SameLease, PCs
<1> HIDE DEF c
<1>4. /\ Others(ops, new, o) /\ new[o].pc = "done" /\ new[o].id = k
      /\ new[o].kind = ops[o].kind
  BY <1>2, <1>3, StepOf
<1> HIDE DEF new
<1>5. n \in Memory /\ OnlyOf(k, n, memory)
  BY <1>2, PoppedFields, PoppedOnly
<1> HIDE DEF n
<1>6. OnlyOf(k, Drop(n, k), memory)
  BY <1>2, <1>5, DropOnly, OnlyOnly
<1>7. PICK x : memory' = x /\ OnlyOf(k, x, memory)
  BY <1>1, <1>2, <1>5, <1>6
<1>8. o \in Untouching(new) => o \in Untouching(ops)
  BY <1>4 DEF Untouching
<1>9. k \notin Ids \ faulted' /\ faulted \subseteq faulted'
  BY <1>1
<1> QED
  BY <1>1, <1>4, <1>7, <1>8, <1>9, StepTraced


(* What serving a request brings into the store was queued, and a delete   *)
(* is served before anything else of its session is.                       *)
LEMMA ServingTraced ==
  ASSUME IndInv, TraceInv, NEW o \in Ops, Serving(o, "save") \/ Serving(o, "delete"),
         NEW phase \in {"changed", "settled"}, NextPhase(phase), ops' = ops,
         UNCHANGED <<durable, faulted>>,
         \A id \in Ids \ {ops[o].id} : shelf'[id] = shelf[id],
         \A d \in atRisk' : d \in atRisk \/
           \A id \in Ids : d[id] = IF id = ops[o].id THEN memory.queue[1].content ELSE shelf[id]
  PROVE  TraceInv'
<1> DEFINE k == ops[o].id
<1>1. /\ durable /\ memory.queue # <<>> /\ memory \in Memory /\ memory.queue \in Seq(Request)
      /\ memory.queue[1].id = k /\ shelf \in atRisk /\ k \in Ids
  BY RequestServed, IndInvFacts DEF StoredInv
<1>2. /\ DOMAIN memory.queue = 1..Len(memory.queue) /\ Len(memory.queue) \in Nat
      /\ 1 \in DOMAIN memory.queue
  BY <1>1, TailFacts
<1>3. /\ memory'.sessions = memory.sessions /\ memory'.entries = memory.entries
      /\ DOMAIN memory'.queue = DOMAIN memory.queue
      /\ \A i \in DOMAIN memory.queue :
           /\ memory'.queue[i].op = memory.queue[i].op
           /\ memory'.queue[i].kind = memory.queue[i].kind
           /\ memory'.queue[i].id = memory.queue[i].id
           /\ memory'.queue[i].content = memory.queue[i].content
           /\ memory'.queue[i].phase = IF i = 1 THEN phase ELSE memory.queue[i].phase
  BY <1>1, NextPhaseFields
<1> SUFFICES ASSUME NEW id \in Ids \ faulted
             PROVE  TraceOf(id, memory, ops)'
  BY DEF TraceInv
<1>4. TraceOf(id, memory, ops)
  BY DEF TraceInv
<1>5. ASSUME NEW p, Stored(p, id)'
      PROVE  Stored(p, id) \/ (id = k /\ InQueue(p, id, memory))
  <2>1. PICK d \in atRisk' : Holds(d[id], p)
    BY <1>5 DEF Stored
  <2>2. d \in atRisk \/ d[id] = IF id = k THEN memory.queue[1].content ELSE shelf[id]
    BY <2>1
  <2> QED
    BY <1>1, <1>2, <2>1, <2>2 DEF Stored, InQueue
<1>6. \A p : InQueue(p, id, memory') => InQueue(p, id, memory)
  BY <1>3 DEF InQueue
<1>7. \A p : InMemory(p, id, memory') => InMemory(p, id, memory)
  BY <1>3 DEF InMemory
<1>8. \A p : Known(p, id, memory', ops') => Known(p, id, memory, ops)
  BY <1>6, <1>7 DEF Known
<1>9. \A p : Stored(p, id)' => Stored(p, id) \/ Known(p, id, memory, ops)
  BY <1>5 DEF Known
<1>10. \A p \in Untouching(ops)' : ~Known(p, id, memory, ops)' /\ ~Stored(p, id)'
  <2>1. Untouching(ops)' = Untouching(ops)
    BY DEF Untouching
  <2> QED
    BY <1>4, <1>8, <1>9, <2>1 DEF TraceOf
<1>11. \A p \in Undone(id, ops)' :
         ~Known(p, id, memory, ops)' /\ (ops'[p].pc = "done" => ~Stored(p, id)')
  <2>1. Undone(id, ops)' = Undone(id, ops)
    BY DEF Undone
  <2> QED
    BY <1>4, <1>8, <1>9, <2>1 DEF TraceOf
<1>12. ASSUME NEW p \in Lessees(ops'), ops'[p].id = id
       PROVE  LesseeInv(p, id, memory', ops')
  <2>1. LesseeInv(p, id, memory, ops)
    BY <1>4, <1>12 DEF TraceOf
  <2> QED
    BY <1>3, <1>6, <2>1 DEF LesseeInv
<1>13. ASSUME NEW i \in DOMAIN memory'.queue, memory'.queue[i].id = id,
              memory'.queue[i].kind = "delete"
       PROVE  /\ \A l \in DOMAIN memory'.queue : l < i => memory'.queue[l].id # id
              /\ memory'.queue[i].phase = "queued" =>
                   shelf'[id] # Absent \/ \A p \in {memory'.queue[i].op} : ~Stored(p, id)'
  <2>1. /\ \A l \in DOMAIN memory.queue : l < i => memory.queue[l].id # id
        /\ memory.queue[i].phase = "queued" =>
             shelf[id] # Absent \/ ~Stored(memory.queue[i].op, id)
    BY <1>3, <1>4, <1>13 DEF TraceOf, DeleteInv
  <2>2. ASSUME memory'.queue[i].phase = "queued"
        PROVE  shelf'[id] # Absent \/ \A p \in {memory'.queue[i].op} : ~Stored(p, id)'
    <3>1. i # 1 /\ memory.queue[i].phase = "queued"
      BY <1>3, <1>13, <2>2
    <3>2. 1 < i
      BY <1>2, <1>3, <1>13, <3>1
    <3>3. id # k
      BY <1>1, <1>2, <2>1, <3>2
    <3>4. shelf'[id] = shelf[id]
      BY <3>3
    <3>5. memory'.queue[i].op = memory.queue[i].op
      BY <1>3, <1>13
    <3> QED
      BY <1>5, <2>1, <3>1, <3>3, <3>4, <3>5
  <2>3. \A l \in DOMAIN memory'.queue : l < i => memory'.queue[l].id # id
    BY <1>3, <2>1
  <2> QED
    BY <2>2, <2>3
<1>14. DeleteInv(id, memory)'
  BY <1>13 DEF DeleteInv, Stored
<1>15. durable'
  BY <1>1
<1> QED
  BY <1>10, <1>11, <1>12, <1>14, <1>15 DEF TraceOf, LesseeInv, Lessees, InQueue, Holds

LEMMA ChangeShelfTraced ==
  ASSUME IndInv, TraceInv, NEW o \in Ops, ChangeShelf(o)
  PROVE  TraceInv'
<1>1. /\ Serving(o, "save") \/ Serving(o, "delete")
      /\ NextPhase("changed") /\ ops' = ops /\ UNCHANGED <<durable, faulted>>
      /\ shelf' = [shelf EXCEPT ![ops[o].id] = Head(memory.queue).content]
      /\ atRisk' = atRisk \cup {shelf'}
  BY DEF ChangeShelf, Store!Put
<1>2. Head(memory.queue) = memory.queue[1] /\ shelf \in [Ids -> Values \cup {Absent}]
  BY <1>1, RequestServed, IndInvFacts DEF StoredInv, Store!Shelf
<1>3. \A id \in Ids :
        shelf'[id] = IF id = ops[o].id THEN memory.queue[1].content ELSE shelf[id]
  BY <1>1, <1>2
<1>4. /\ \A id \in Ids \ {ops[o].id} : shelf'[id] = shelf[id]
      /\ \A d \in atRisk' : d \in atRisk \/
           \A id \in Ids : d[id] = IF id = ops[o].id THEN memory.queue[1].content ELSE shelf[id]
  BY <1>1, <1>3
<1>5. "changed" \in {"changed", "settled"}
  OBVIOUS
<1> QED
  BY <1>1, <1>4, <1>5, ServingTraced

LEMMA SettleShelfTraced ==
  ASSUME IndInv, TraceInv, NEW o \in Ops, SettleShelf(o)
  PROVE  TraceInv'
<1>1. /\ Serving(o, "save") \/ Serving(o, "delete")
      /\ NextPhase("settled") /\ ops' = ops /\ UNCHANGED <<durable, faulted>>
      /\ shelf' = shelf /\ atRisk' = {shelf}
  BY DEF SettleShelf, Store!Settle
<1>2. /\ \A id \in Ids \ {ops[o].id} : shelf'[id] = shelf[id]
      /\ \A d \in atRisk' : d \in atRisk
  BY <1>1, IndInvFacts DEF StoredInv
<1>3. "settled" \in {"changed", "settled"}
  OBVIOUS
<1> QED
  BY <1>1, <1>2, <1>3, ServingTraced

(* Without a process nothing is known, and no more is stored.              *)
LEMMA EmptyTraced ==
  ASSUME IndInv, TraceInv, memory' = EmptyMemory, durable' = durable, faulted' = faulted,
         atRisk' \subseteq atRisk,
         \A o \in Ops :
           /\ ops'[o].pc \in {"new", "done"} /\ ops'[o].id = ops[o].id
           /\ ops'[o].kind = ops[o].kind
           /\ ops'[o] = ops[o] \/ (ops'[o].pc = "done" /\ ops'[o].outcome = "lost")
  PROVE  TraceInv'
<1> SUFFICES ASSUME NEW id \in Ids \ faulted
             PROVE  TraceOf(id, memory, ops)'
  BY DEF TraceInv
<1>1. TraceOf(id, memory, ops)
  BY DEF TraceInv
<1>2. Lessees(ops') = {}
  BY DEF Lessees
<1>3. memory'.sessions[id] = None /\ memory'.queue = <<>>
  BY DEF EmptyMemory
<1>4. \A p : ~Known(p, id, memory', ops')
  BY <1>2, <1>3 DEF Known, InMemory, InQueue, InCheckpoints
<1>5. \A p : Stored(p, id)' => Stored(p, id)
  BY DEF Stored
<1>6. \A p \in Untouching(ops') : p \in Untouching(ops)
  BY DEF Untouching
<1>7. \A p \in Undone(id, ops') : p \in Undone(id, ops) /\ ops'[p] = ops[p]
  BY DEF Undone
<1>8. \A p \in Untouching(ops') : ~Stored(p, id)'
  BY <1>1, <1>5, <1>6 DEF TraceOf
<1>9. \A p \in Undone(id, ops') : ops'[p].pc = "done" => ~Stored(p, id)'
  BY <1>1, <1>5, <1>7 DEF TraceOf
<1>10. DeleteInv(id, memory)'
  BY <1>3 DEF DeleteInv
<1>11. ~durable' => \A d \in atRisk' : d[id] = Absent
  BY <1>1 DEF TraceOf
<1> QED
  BY <1>2, <1>4, <1>8, <1>9, <1>10, <1>11 DEF TraceOf, Untouching, Undone, Known, InMemory,
     InQueue, InCheckpoints, Holds, Lessees


LEMMA FinishCloseTraced ==
  ASSUME IndInv, TraceInv, FinishClose
  PROVE  TraceInv'
<1>1. /\ memory' = EmptyMemory /\ ops' = ops /\ durable' = durable /\ faulted' = faulted
      /\ atRisk' \subseteq atRisk /\ \A o \in Ops : ops[o].pc \in {"new", "done"}
  BY DEF FinishClose, ShelfVars, Active
<1> QED
  BY <1>1, EmptyTraced

LEMMA KillTraced ==
  ASSUME IndInv, TraceInv, Kill
  PROVE  TraceInv'
<1>1. /\ memory' = EmptyMemory /\ ops' = Lost /\ durable' = durable /\ faulted' = faulted
      /\ atRisk' \subseteq atRisk
  BY DEF Kill, ShelfVars, Store!PowerLoss
<1>2. ASSUME NEW o \in Ops
      PROVE  /\ Lost[o].pc \in {"new", "done"} /\ Lost[o].id = ops[o].id
             /\ Lost[o].kind = ops[o].kind
             /\ Lost[o] = ops[o] \/ (Lost[o].pc = "done" /\ Lost[o].outcome = "lost")
  <2>1. CASE Active(o)
    <3>1. Lost[o] = [ops[o] EXCEPT !.pc = "done", !.outcome = "lost"] /\ ops[o] \in Op
      BY <2>1, IndInvFacts DEF Lost
    <3> QED
      BY <3>1 DEF Op
  <2>2. CASE ~Active(o)
    BY <2>2, IndInvFacts DEF Lost, Active
  <2> QED
    BY <2>1, <2>2
<1> QED
  BY <1>1, <1>2, EmptyTraced

LEMMA StateTraced ==
  ASSUME TraceInv, UNCHANGED <<durable, memory, ops, shelf, atRisk, faulted>>
  PROVE  TraceInv'
<1> DEFINE n == memory
           new == ops
<1>1. /\ memory' = n /\ ops' = new
      /\ \A id \in Ids \ faulted' : TraceOf(id, n, new)
  BY DEF TraceInv
<1> HIDE DEF n, new
<1> QED
  BY <1>1, TraceNext

LEMMA InitIsTraceless ==
  ASSUME Init
  PROVE  TraceInv
<1>1. /\ \A id \in Ids : memory.sessions[id] = None
      /\ memory.queue = <<>> /\ atRisk = {shelf}
      /\ \A id \in Ids : shelf[id] \in {<<>>, Absent} /\ (~durable => shelf[id] = Absent)
  BY DEF Init, EmptyMemory
<1>2. Lessees(ops) = {}
  BY DEF Init, Lessees
<1> SUFFICES ASSUME NEW id \in Ids
             PROVE  TraceOf(id, memory, ops)
  BY DEF TraceInv
<1>3. \A p : ~Known(p, id, memory, ops) /\ ~Stored(p, id)
  BY <1>1, <1>2, NothingHeld DEF Known, InMemory, InQueue, InCheckpoints, Stored
<1>4. DeleteInv(id, memory)
  BY <1>1 DEF DeleteInv
<1> QED
  BY <1>1, <1>2, <1>3, <1>4 DEF TraceOf

LEMMA NextTraced ==
  ASSUME IndInv, TraceInv, [Next]_vars
  PROVE  TraceInv'
<1>1. ASSUME NEW o \in Ops, NEW kind \in {"anonymize", "restore"}, NEW id \in Ids,
             Admit(o, kind, id)
      PROVE  TraceInv'
  BY <1>1, AdmitTraced
<1>2. ASSUME NEW o \in Ops, Work(o)
      PROVE  TraceInv'
  <2>1. CASE RefuseCall(o)
    BY <2>1, RefuseCallTraced
  <2>2. CASE AnonymizeInMemory(o)
    BY <2>2, AnonymizeInMemoryTraced
  <2>3. CASE AnonymizeNew(o)
    BY <2>3, AnonymizeNewTraced
  <2>4. CASE LoadSession(o)
    BY <2>4, LoadSessionTraced
  <2>5. CASE ReadInMemory(o)
    BY <2>5, ReadInMemoryTraced
  <2>6. CASE ChangeShelf(o)
    BY <2>6, ChangeShelfTraced
  <2>7. CASE SettleShelf(o)
    BY <2>7, SettleShelfTraced
  <2>8. CASE LoadFails(o)
    BY <2>8, LoadFailsTraced
  <2>9. CASE LoadSucceeds(o)
    BY <2>9, LoadSucceedsTraced
  <2>10. CASE LoadStrands(o)
    BY <2>10, LoadStrandsTraced
  <2>11. CASE SaveSucceeds(o)
    BY <2>11, SaveSucceedsTraced
  <2>12. CASE SaveFails(o)
    BY <2>12, SaveFailsTraced
  <2>13. CASE RollbackStored(o)
    BY <2>13, RollbackStoredTraced
  <2>14. CASE RollbackLost(o)
    BY <2>14, RollbackLostTraced
  <2>15. CASE Publish(o)
    BY <2>15, PublishTraced
  <2>16. CASE PublishFails(o)
    BY <2>16, PublishFailsTraced
  <2> QED
    BY <1>2, <2>1, <2>2, <2>3, <2>4, <2>5, <2>6, <2>7, <2>8, <2>9, <2>10, <2>11, <2>12,
       <2>13, <2>14, <2>15, <2>16 DEF Work
<1>3. CASE Close
  BY <1>3, StateTraced DEF Close, ShelfVars
<1>4. CASE FinishClose
  BY <1>4, FinishCloseTraced
<1>5. CASE Kill
  BY <1>5, KillTraced
<1>6. CASE Restart
  BY <1>6, StateTraced DEF Restart, ShelfVars
<1>7. CASE UNCHANGED vars
  BY <1>7, StateTraced DEF vars
<1> QED
  BY <1>1, <1>2, <1>3, <1>4, <1>5, <1>6, <1>7 DEF Next

(* A call that failed has left nothing of itself in its session, in memory *)
(* or in the store, once its rollback is over: whichever other calls ran   *)
(* meanwhile, and whether the server or the power failed since.            *)
THEOREM FailuresLeaveNoTrace == Spec => []RollbackLeavesNoTrace
<1>1. Init => IndInv /\ TraceInv
  BY InitIsSound, InitIsTraceless
<1>2. IndInv /\ TraceInv /\ [Next]_vars => (IndInv /\ TraceInv)'
  BY NextKeeps, NextTraced
<1>3. ASSUME IndInv, TraceInv, NEW o \in Ops, ops[o].pc = "done",
             ops[o].outcome \in {"failed", "unpublished"}, ops[o].id \notin faulted
      PROVE  ~Traces(o)
  <2> DEFINE id == ops[o].id
  <2>1. /\ id \in Ids \ faulted /\ shelf \in atRisk /\ memory \in Memory
    BY <1>3, IndInvFacts DEF StoredInv
  <2>2. ~Known(o, id, memory, ops) /\ ~Stored(o, id)
    BY <1>3, <2>1 DEF TraceInv, TraceOf, Undone
  <2>3. ASSUME id \in Live
        PROVE  memory.entries[memory.sessions[id]].value # Absent
    BY <2>1, <2>3, ServiceAssumption DEF Live, Memory, Entry, Values
  <2> QED
    BY <2>1, <2>2, <2>3 DEF Traces, Known, InMemory, Stored, Holds, Live
<1>4. IndInv /\ TraceInv => RollbackLeavesNoTrace
  BY <1>3 DEF RollbackLeavesNoTrace
<1> QED
  BY <1>1, <1>2, <1>4, PTL DEF Spec
=============================================================================
