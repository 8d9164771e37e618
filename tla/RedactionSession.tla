-------------------------- MODULE RedactionSession --------------------------
(***************************************************************************)
(* One cross-document redaction session of anonymize-core: the table that  *)
(* gives an entity the same placeholder in every document, planned during  *)
(* a redaction, committed only when the whole redaction succeeds, carried  *)
(* to another process as a plaintext envelope or an encrypted archive, and *)
(* read back when a redacted text is restored.                             *)
(*                                                                         *)
(* A redaction holds the session by `&mut', so nothing interleaves with    *)
(* its steps; they are still separate actions here because the code can    *)
(* fail at each of them and promises that a failure leaves no trace.       *)
(***************************************************************************)
EXTENDS Integers, FiniteSets

CONSTANTS
  Labels,          \* label keys (PERSON, EMAIL, ...)
  Texts,           \* normalised entity texts
  Originals,       \* surface texts as they stand in documents
  None,            \* absent entry, absent lifecycle or absent timestamp
  LookAlike,       \* LookAlike[l] = k: `[l_1]' reads as `[k_<session id>_1]'
  BadIdentities,   \* identities with an empty text or an unusable label key
  Contaminated,    \* originals that contain a placeholder of this session
  Lifecycles,      \* lifecycle bounds a session may be created with
  Times,           \* timestamps a caller may supply
  ForeignWires,    \* envelopes no instance of this session exported
  MaxCount,        \* largest counter value, u32::MAX in the code
  MaxMappings,     \* MAX_SESSION_MAPPINGS
  MaxInputs,       \* bound: mentions in one document
  MaxArchives      \* bound: exported envelopes kept by the environment

Identity == [label : Labels, text : Texts]
Placeholder == [label : Labels, count : 1..MaxCount]
Lifecycle == [created : Nat, expires : Nat \cup {None}]
ValidLifecycle(l) == l.expires = None \/ l.created < l.expires
Mapping == [id : Identity, ph : Placeholder, original : Originals]
Wire == [lifecycle : Lifecycle \cup {None},
         counters  : [Labels -> 0..MaxCount],
         mappings  : SUBSET Mapping]

ASSUME ConstantsAssumption ==
  /\ MaxCount \in Nat \ {0} /\ MaxMappings \in Nat
  /\ MaxInputs \in Nat /\ MaxArchives \in Nat
  /\ LookAlike \in [Labels -> Labels \cup {None}]
  /\ BadIdentities \subseteq Identity /\ Contaminated \subseteq Originals
  /\ Lifecycles \subseteq {l \in Lifecycle : ValidLifecycle(l)}
  /\ Times \subseteq Nat
  /\ ForeignWires \subseteq {w \in Wire : IsFiniteSet(w.mappings)}

ASSUME NoneAssumption ==
  None \notin Originals \cup Placeholder \cup Labels \cup Lifecycle \cup Nat

VARIABLES
  session,    \* the RedactionSession value
  plan,       \* the redaction in progress: SessionPlaceholderPlan and render
  issued,     \* what the texts issued along this session's history promise
  archives,   \* envelopes exported so far, each with the history behind it
  outcome     \* result of the last call

vars == <<session, plan, issued, archives, outcome>>

-----------------------------------------------------------------------------
(* Session values                                                          *)

Session == [deleted      : BOOLEAN,
            lifecycle    : Lifecycle \cup {None},
            counters     : [Labels -> 0..MaxCount],
            placeholders : [Identity -> Placeholder \cup {None}],
            originals    : [Placeholder -> Originals \cup {None}]]

(* Slip: an unset counter is left absent instead of being read as zero.    *)
EmptySessionUnset(l) ==
  [deleted |-> FALSE, lifecycle |-> l, counters |-> [k \in Labels |-> None],
   placeholders |-> [i \in Identity |-> None],
   originals |-> [p \in Placeholder |-> None]]

EmptySession(l) ==
  [deleted      |-> FALSE,
   lifecycle    |-> l,
   counters     |-> [k \in Labels |-> 0],
   placeholders |-> [i \in Identity |-> None],
   originals    |-> [p \in Placeholder |-> None]]

Mapped(s) == {i \in Identity : s.placeholders[i] # None}
Allocated(s) == {p \in Placeholder : s.originals[p] # None}

Status(s, t) ==
  CASE s.deleted                                    -> "deleted"
    [] ~s.deleted /\ s.lifecycle = None             -> "active"
    [] ~s.deleted /\ s.lifecycle # None /\ t = None -> "observationRequired"
    [] OTHER ->
         IF t < s.lifecycle.created THEN "notYetActive"
         ELSE IF s.lifecycle.expires # None /\ t >= s.lifecycle.expires
              THEN "expired"
              ELSE "active"

Outcomes == {"ok", "planning", "deleted", "observationRequired",
             "notYetActive", "expired", "collision", "invalid", "tooMany",
             "exhausted", "tooLarge", "unknownPlaceholder"}

Serialize(s) ==
  [lifecycle |-> s.lifecycle,
   counters  |-> s.counters,
   mappings  |-> {[id |-> i, ph |-> s.placeholders[i],
                   original |-> s.originals[s.placeholders[i]]] :
                     i \in Mapped(s)}]

(* Slip: a full table, which the planner allows, is refused on reload.     *)
ValidWireNotFull(w) ==
  /\ w.lifecycle = None \/ ValidLifecycle(w.lifecycle)
  /\ Cardinality(w.mappings) < MaxMappings
  /\ \A m \in w.mappings : m.ph.count <= w.counters[m.id.label]
  /\ \A m, n \in w.mappings : m.ph = n.ph \/ m.id = n.id => m = n

(* The checks of from_plaintext_json.  A set of mappings cannot hold the   *)
(* same entry twice; two entries that share an identity or a placeholder   *)
(* are what the duplicate checks are for.                                  *)
ValidWire(w) ==
  /\ w.lifecycle = None \/ ValidLifecycle(w.lifecycle)
  /\ Cardinality(w.mappings) <= MaxMappings
  /\ \A m \in w.mappings :
       /\ m.id \notin BadIdentities /\ m.original \notin Contaminated
       /\ m.ph.label = m.id.label
       /\ m.ph.count <= w.counters[m.id.label]
  /\ \A m, n \in w.mappings : m.ph = n.ph \/ m.id = n.id => m = n

FromWire(w) ==
  [deleted      |-> FALSE,
   lifecycle    |-> w.lifecycle,
   counters     |-> w.counters,
   placeholders |-> [i \in Identity |->
     IF \E m \in w.mappings : m.id = i
     THEN (CHOOSE m \in w.mappings : m.id = i).ph ELSE None],
   originals    |-> [p \in Placeholder |->
     IF \E m \in w.mappings : m.ph = p
     THEN (CHOOSE m \in w.mappings : m.ph = p).original ELSE None]]

-----------------------------------------------------------------------------
(* Plans                                                                   *)

Plan == [active            : BOOLEAN,
         inputs            : 0..MaxInputs,
         counters          : [Labels -> 0..MaxCount],
         fresh             : [Identity -> Placeholder \cup {None}],
         originals         : [Placeholder -> Originals \cup {None}],
         transient         : SUBSET Identity,
         transientCounters : [Labels -> 0..MaxCount],
         occupied          : SUBSET Placeholder,
         map               : [Placeholder -> Originals \cup {None}],
         forged            : SUBSET Placeholder]

NoPlan ==
  [active            |-> FALSE,
   inputs            |-> 0,
   counters          |-> [k \in Labels |-> 0],
   fresh             |-> [i \in Identity |-> None],
   originals         |-> [p \in Placeholder |-> None],
   transient         |-> {},
   transientCounters |-> [k \in Labels |-> 0],
   occupied          |-> {},
   map               |-> [p \in Placeholder |-> None],
   forged            |-> {}]

Planned(pl) == {i \in Identity : pl.fresh[i] # None}

(* The counts next_placeholder's loop may stop at, and the first of them.  *)
FreeCounts(label, from, taken) ==
  {n \in (from + 1)..MaxCount : [label |-> label, count |-> n] \notin taken}

IsNextCount(n, label, from, taken) ==
  /\ n \in FreeCounts(label, from, taken)
  /\ \A k \in FreeCounts(label, from, taken) : n <= k

Taken == Allocated(session) \cup plan.occupied

(* A counter update planned for this document hides the session's counter. *)
CounterOf(label) ==
  IF plan.counters[label] # 0 THEN plan.counters[label]
                              ELSE session.counters[label]

(* Slips: the lookup forgets this document's, or the session's, mappings.  *)
KnownToSession(i) == session.placeholders[i]
KnownToPlan(i) == plan.fresh[i]

KnownPlaceholder(i) ==
  IF session.placeholders[i] # None THEN session.placeholders[i]
                                    ELSE plan.fresh[i]

SessionFull ==
  Cardinality(Mapped(session)) + Cardinality(Planned(plan)) >= MaxMappings

(* Slip: the new mappings are stored without the counters behind them.     *)
AppliedWithoutCounters(s, pl) ==
  [s EXCEPT
    !.placeholders = [i \in Identity |->
       IF pl.fresh[i] # None THEN pl.fresh[i] ELSE s.placeholders[i]],
    !.originals    = [p \in Placeholder |->
       IF pl.originals[p] # None THEN pl.originals[p] ELSE s.originals[p]]]

Applied(s, pl) ==
  [s EXCEPT
    !.counters     = [k \in Labels |->
       IF pl.counters[k] # 0 THEN pl.counters[k] ELSE s.counters[k]],
    !.placeholders = [i \in Identity |->
       IF pl.fresh[i] # None THEN pl.fresh[i] ELSE s.placeholders[i]],
    !.originals    = [p \in Placeholder |->
       IF pl.originals[p] # None THEN pl.originals[p] ELSE s.originals[p]]]

(* A rendered text is kept as the promise its placeholders make: `reads'   *)
(* is the original the returned redaction map gives for `ph', or None for  *)
(* characters of the document that happen to spell `ph'.                   *)
Promise == [ph : Placeholder, reads : Originals \cup {None}]

(* canonicalize_redaction_map: the session's original wins over the one    *)
(* of the first mention in this document.                                  *)
CanonicalMap(s, map) ==
  {[ph |-> p, reads |-> IF s.originals[p] # None THEN s.originals[p]
                                                 ELSE map[p]] :
     p \in {q \in Placeholder : map[q] # None}}

ForgedPromises(pl) == {[ph |-> p, reads |-> None] : p \in pl.forged}

(* Slip: the rendered text is not scanned again.                           *)
RenderedUnchecked(pl) == TRUE

(* validate_rendered_placeholders: the rendered text is scanned for the    *)
(* session's placeholders and each must occur as often as it was rendered. *)
(* Characters that come to spell one always add an occurrence.             *)
RenderedAsPlanned(pl) == pl.forged = {}

-----------------------------------------------------------------------------
(* Redaction: plan_placeholder_map mention by mention, render, commit      *)

Idle == ~plan.active

(* Slip: the mentions before the failing one are kept.                     *)
FailAfterUpdate(o) ==
  /\ outcome' = o
  /\ session' = Applied(session, plan)
  /\ plan' = NoPlan
  /\ UNCHANGED <<issued, archives>>

Fail(o) ==
  /\ outcome' = o
  /\ plan' = NoPlan
  /\ UNCHANGED <<session, issued, archives>>

BeginRedaction(t) ==
  /\ Idle /\ Status(session, t) = "active"
  /\ plan' = [NoPlan EXCEPT !.active = TRUE]
  /\ outcome' = "planning"
  /\ UNCHANGED <<session, issued, archives>>

RefuseRedaction(t) ==
  /\ Idle /\ Status(session, t) # "active"
  /\ Fail(Status(session, t))

(* The document, or the redact string when some mention is redacted with   *)
(* it, already contains a placeholder of this session.                     *)
RefuseReservedText(t) ==
  /\ Idle /\ Status(session, t) = "active"
  /\ Fail("collision")

NextMention ==
  /\ plan.active /\ plan.inputs < MaxInputs
  /\ outcome' = "planning"
  /\ UNCHANGED <<session, issued, archives>>

(* The redaction map keeps the original of a placeholder's first mention.  *)
MapEntry(p, o) ==
  [plan.map EXCEPT ![p] = IF @ = None THEN o ELSE @]

ReusePlaceholder(i, o) ==
  /\ NextMention
  /\ i \notin BadIdentities /\ KnownPlaceholder(i) # None
  /\ plan' = [plan EXCEPT !.inputs = @ + 1,
                          !.map = MapEntry(KnownPlaceholder(i), o)]

AllocatePlaceholder(i, o) ==
  /\ NextMention
  /\ i \notin BadIdentities /\ KnownPlaceholder(i) = None
  /\ ~SessionFull /\ o \notin Contaminated
  /\ \E n \in 1..MaxCount :
       LET p == [label |-> i.label, count |-> n] IN
       /\ IsNextCount(n, i.label, CounterOf(i.label), Taken)
       /\ plan' = [plan EXCEPT !.inputs = @ + 1,
                               !.counters[i.label] = n,
                               !.fresh[i] = p,
                               !.originals[p] = o,
                               !.occupied = @ \cup {p},
                               !.map = MapEntry(p, o)]

(* The checks of one replaced mention, in the order the code makes them.   *)
RefuseMention(i, o) ==
  /\ plan.active /\ plan.inputs < MaxInputs
  /\ \/ i \in BadIdentities /\ Fail("invalid")
     \/ /\ i \notin BadIdentities /\ KnownPlaceholder(i) = None
        /\ \/ SessionFull /\ Fail("tooMany")
           \/ ~SessionFull /\ o \in Contaminated /\ Fail("collision")
           \/ /\ ~SessionFull /\ o \notin Contaminated
              /\ FreeCounts(i.label, CounterOf(i.label), Taken) = {}
              /\ Fail("exhausted")

(* A kept, masked or redacted mention takes a document-local placeholder   *)
(* that only the operator map shows.  It matters to the session when its   *)
(* label looks like one of the session's own.  What masking or redacting   *)
(* leaves of the document may spell placeholders of the session.           *)
PassMention(i, spelled) ==
  /\ NextMention
  /\ LET k == LookAlike[i.label] IN
     \/ /\ k = None \/ i \in plan.transient
        /\ plan' = [plan EXCEPT !.inputs = @ + 1,
                                !.forged = @ \cup spelled]
     \/ /\ k # None /\ i \notin plan.transient
        /\ \E n \in 1..MaxCount :
             /\ IsNextCount(n, k, plan.transientCounters[i.label], Taken)
             /\ plan' = [plan EXCEPT
                   !.inputs = @ + 1,
                   !.transient = @ \cup {i},
                   !.transientCounters[i.label] = n,
                   !.occupied = @ \cup {[label |-> k, count |-> n]},
                   !.forged = @ \cup spelled]

ExhaustTransient(i) ==
  /\ plan.active /\ plan.inputs < MaxInputs
  /\ LookAlike[i.label] # None /\ i \notin plan.transient
  /\ FreeCounts(LookAlike[i.label], plan.transientCounters[i.label], Taken) = {}
  /\ Fail("exhausted")

(* Sizes are left out: any plan that adds mappings may turn out too large. *)
RefuseSize ==
  /\ plan.active /\ Planned(plan) # {}
  /\ Fail("tooLarge")

RefuseRendered ==
  /\ plan.active /\ ~RenderedAsPlanned(plan)
  /\ Fail("collision")

Commit ==
  /\ plan.active /\ RenderedAsPlanned(plan)
  /\ session' = Applied(session, plan)
  /\ issued' = issued \cup CanonicalMap(session', plan.map)
                      \cup ForgedPromises(plan)
  /\ plan' = NoPlan
  /\ outcome' = "ok"
  /\ UNCHANGED archives

-----------------------------------------------------------------------------
(* The other calls on a session                                            *)

Delete ==
  /\ Idle /\ UNCHANGED <<plan, issued, archives>>
  /\ IF session.deleted
     THEN outcome' = "deleted" /\ UNCHANGED session
     ELSE /\ session' = [EmptySession(session.lifecycle) EXCEPT
                           !.deleted = TRUE]
          /\ outcome' = "ok"

RestoreText(t, placeholders) ==
  /\ Idle /\ UNCHANGED <<session, plan, issued, archives>>
  /\ outcome' = IF Status(session, t) # "active" THEN Status(session, t)
                ELSE IF placeholders \subseteq Allocated(session)
                     THEN "ok" ELSE "unknownPlaceholder"

Export(t) ==
  /\ Idle /\ UNCHANGED <<session, plan, issued>>
  /\ IF Status(session, t) # "active"
     THEN outcome' = Status(session, t) /\ UNCHANGED archives
     ELSE /\ Cardinality(archives) < MaxArchives
          /\ archives' = archives \cup
               {[wire |-> Serialize(session), issued |-> issued]}
          /\ outcome' = "ok"

(* from_plaintext_json looks at no clock: an expired envelope still loads, *)
(* and every later call on it fails.                                       *)
ImportPlaintext(w, history) ==
  /\ Idle /\ UNCHANGED <<plan, archives>>
  /\ IF ValidWire(w)
     THEN session' = FromWire(w) /\ issued' = history /\ outcome' = "ok"
     ELSE outcome' = "invalid" /\ UNCHANGED <<session, issued>>

(* from_encrypted_archive hands out nothing unless the session is active.  *)
OpenArchive(a, t) ==
  /\ Idle /\ UNCHANGED <<plan, archives>>
  /\ LET opened == FromWire(a.wire) IN
     IF ~ValidWire(a.wire) THEN outcome' = "invalid" /\ UNCHANGED <<session, issued>>
     ELSE IF Status(opened, t) # "active"
          THEN outcome' = Status(opened, t) /\ UNCHANGED <<session, issued>>
          ELSE session' = opened /\ issued' = a.issued /\ outcome' = "ok"

Init ==
  /\ session \in {EmptySession(l) : l \in Lifecycles \cup {None}}
  /\ plan = NoPlan
  /\ issued = {} /\ archives = {} /\ outcome = "ok"

Redaction ==
  \/ \E t \in Times \cup {None} :
       BeginRedaction(t) \/ RefuseRedaction(t) \/ RefuseReservedText(t)
  \/ \E i \in Identity, o \in Originals :
       ReusePlaceholder(i, o) \/ AllocatePlaceholder(i, o) \/ RefuseMention(i, o)
  \/ \E i \in Identity :
       \/ \E spelled \in {{}} \cup {{p} : p \in Placeholder} :
            PassMention(i, spelled)
       \/ ExhaustTransient(i)
  \/ RefuseSize \/ RefuseRendered \/ Commit

Import ==
  \/ \E a \in archives : ImportPlaintext(a.wire, a.issued)
  \/ \E w \in ForeignWires : ImportPlaintext(w, {})
  \/ \E a \in archives, t \in Times \cup {None} : OpenArchive(a, t)

Next ==
  \/ Redaction \/ Import \/ Delete
  \/ \E t \in Times \cup {None} :
       \/ Export(t)
       \/ \E placeholders \in SUBSET Placeholder : RestoreText(t, placeholders)

Spec == Init /\ [][Next]_vars

-----------------------------------------------------------------------------
(* Properties                                                              *)

(* Every component of the state has its type.                              *)
TypeOK ==
  /\ session \in Session /\ plan \in Plan
  /\ issued \subseteq Promise
  /\ archives \subseteq [wire : Wire, issued : SUBSET Promise]
  /\ outcome \in Outcomes

(* Two entities never share a placeholder, no placeholder of the table is  *)
(* without its original, and none is left over from an identity that was   *)
(* given another one: the two maps that apply_update keeps side by side    *)
(* describe one bijection.                                                 *)
Bijective(s) ==
  /\ \A i, j \in Mapped(s) : s.placeholders[i] = s.placeholders[j] => i = j
  /\ \A p \in Placeholder :
       s.originals[p] # None <=> \E i \in Mapped(s) : s.placeholders[i] = p

OnePseudonymPerIdentity == Bijective(session)

(* A counter is never behind a placeholder that its label already has, so  *)
(* the next allocation, here or after a reload, cannot hand one out again. *)
CountersCover(s) ==
  \A i \in Mapped(s) :
    /\ s.placeholders[i].label = i.label
    /\ s.placeholders[i].count <= s.counters[i.label]

CountersCoverAllocations == CountersCover(session)

(* Every session placeholder that stands in a text issued along the        *)
(* session's history restores to the original which the redaction map      *)
(* returned with that text, however many documents, exports and reloads    *)
(* came later; no text was issued with characters that only look like one. *)
Keeps(s, history) ==
  \A e \in history : e.reads # None /\ s.originals[e.ph] = e.reads

IssuedTextsRestore == session.deleted \/ Keeps(session, issued)

(* What a session exports, from_plaintext_json accepts, and the session it *)
(* builds restores everything issued before the export.                    *)
ExportsReload ==
  \A a \in archives : ValidWire(a.wire) /\ Keeps(FromWire(a.wire), a.issued)

(* `The session is updated only when the complete redaction succeeds'      *)
(* (redact.rs:43): of a document that failed, at whichever mention, nothing *)
(* is ever in the session or in an export of it, be it committed, exported *)
(* or reloaded later.  Every entry stands in a text that was issued with   *)
(* it, or came with an envelope that was supplied; and no number of a      *)
(* label is used up but by such an entry.                                  *)
FromIssuedTexts(w, history) ==
  \E base \in ForeignWires \cup {Serialize(EmptySession(None))} :
    /\ \A m \in w.mappings \ base.mappings :
         [ph |-> m.ph, reads |-> m.original] \in history
    /\ \A l \in Labels :
         \/ w.counters[l] = base.counters[l]
         \/ \E m \in w.mappings : m.ph = [label |-> l, count |-> w.counters[l]]

OnlyIssuedIsKept == FromIssuedTexts(Serialize(session), issued)

(* The session is a register of write-once pseudonyms: a whole document's  *)
(* new pseudonyms appear at once, none is ever reassigned, and only a      *)
(* reload of a saved or supplied book brings other ones.                   *)
Register == INSTANCE PseudonymRegister WITH
  book    <- Serialize(session).mappings,
  closed  <- session.deleted,
  saved   <- {a.wire.mappings : a \in archives},
  Entry   <- Mapping,
  Foreign <- {w.mappings : w \in {v \in ForeignWires : ValidWire(v)}}

ImplementsRegister == Register!Spec
=============================================================================
