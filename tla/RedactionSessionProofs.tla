----------------------- MODULE RedactionSessionProofs -----------------------
(***************************************************************************)
(* Safety of RedactionSession for every label, text, limit and envelope.   *)
(* The argument is about session values first: what a plan adds keeps a    *)
(* session well formed, what a well-formed session exports is accepted and *)
(* rebuilds the same session.  The invariant of the specification then     *)
(* says that the live session is well formed, that the plan fits it, and   *)
(* that every export kept its promises.                                    *)
(***************************************************************************)
EXTENDS RedactionSession, FiniteSetTheorems, TLAPS

-----------------------------------------------------------------------------
(* Well-formed session values                                              *)

(* The maps are typed, describe one bijection, stay behind the counters,   *)
(* hold nothing the loader would refuse, and fit the mapping limit.        *)
WellFormed(s) ==
  /\ s \in Session
  /\ Bijective(s)
  /\ CountersCover(s)
  /\ \A i \in Mapped(s) :
       i \notin BadIdentities /\ s.originals[s.placeholders[i]] \notin Contaminated
  /\ s.lifecycle = None \/ ValidLifecycle(s.lifecycle)
  /\ IsFiniteSet(Mapped(s)) /\ Cardinality(Mapped(s)) <= MaxMappings

(* A new session is well formed.                                           *)
LEMMA EmptyWellFormed ==
  ASSUME NEW l \in Lifecycles \cup {None}
  PROVE  /\ EmptySession(l) \in Session
         /\ Mapped(EmptySession(l)) = {}
         /\ WellFormed(EmptySession(l))
<1>1. EmptySession(l) \in Session
  BY ConstantsAssumption DEF EmptySession, Session
<1>2. Mapped(EmptySession(l)) = {}
  BY DEF EmptySession, Mapped
<1>3. Bijective(EmptySession(l)) /\ CountersCover(EmptySession(l))
  BY <1>2 DEF Bijective, CountersCover, EmptySession
<1>4. IsFiniteSet({}) /\ Cardinality({}) <= MaxMappings
  BY FS_EmptySet, ConstantsAssumption
<1>5. l = None \/ ValidLifecycle(l)
  BY ConstantsAssumption
<1> QED
  BY <1>1, <1>2, <1>3, <1>4, <1>5 DEF WellFormed, EmptySession

(* Deleting the session leaves a well-formed, empty value.                 *)
LEMMA DeletedWellFormed ==
  ASSUME NEW s, WellFormed(s)
  PROVE  WellFormed([EmptySession(s.lifecycle) EXCEPT !.deleted = TRUE])
<1> DEFINE d == [EmptySession(s.lifecycle) EXCEPT !.deleted = TRUE]
<1>1. d \in Session
  <2>1. s.lifecycle \in Lifecycle \cup {None}
    BY DEF WellFormed, Session
  <2>2. EmptySession(s.lifecycle) \in Session
    BY <2>1, ConstantsAssumption DEF EmptySession, Session
  <2> QED
    BY <2>2 DEF Session
<1>2. Mapped(d) = {} /\ d.lifecycle = s.lifecycle
  BY DEF EmptySession, Mapped
<1>3. Bijective(d) /\ CountersCover(d)
  BY <1>2 DEF Bijective, CountersCover, EmptySession
<1>4. IsFiniteSet({}) /\ Cardinality({}) <= MaxMappings
  BY FS_EmptySet, ConstantsAssumption
<1> QED
  BY <1>1, <1>2, <1>3, <1>4 DEF WellFormed

(* A loaded envelope holds exactly its mappings.                           *)
LEMMA FromWireMaps ==
  ASSUME NEW w \in Wire, ValidWire(w)
  PROVE  /\ FromWire(w) \in Session
         /\ \A m \in w.mappings :
              /\ FromWire(w).placeholders[m.id] = m.ph
              /\ FromWire(w).originals[m.ph] = m.original
         /\ Mapped(FromWire(w)) = {m.id : m \in w.mappings}
         /\ Allocated(FromWire(w)) = {m.ph : m \in w.mappings}
<1> DEFINE s == FromWire(w)
<1>1. w.mappings \subseteq Mapping
  BY DEF Wire
<1>2. ASSUME NEW m \in w.mappings
      PROVE  /\ m.id \in Identity /\ m.ph \in Placeholder /\ m.original \in Originals
             /\ s.placeholders[m.id] = m.ph
             /\ s.originals[m.ph] = m.original
  <2>1. m.id \in Identity /\ m.ph \in Placeholder /\ m.original \in Originals
    BY <1>1 DEF Mapping
  <2>2. (CHOOSE n \in w.mappings : n.id = m.id) = m
    BY DEF ValidWire
  <2>3. (CHOOSE n \in w.mappings : n.ph = m.ph) = m
    BY DEF ValidWire
  <2> QED
    BY <2>1, <2>2, <2>3 DEF FromWire
<1>3. ASSUME NEW i \in Identity, ~ \E m \in w.mappings : m.id = i
      PROVE  s.placeholders[i] = None
  BY <1>3 DEF FromWire
<1>4. ASSUME NEW p \in Placeholder, ~ \E m \in w.mappings : m.ph = p
      PROVE  s.originals[p] = None
  BY <1>4 DEF FromWire
<1>5. s \in Session
  <2>1. s.placeholders \in [Identity -> Placeholder \cup {None}]
    <3>1. \A i \in Identity : s.placeholders[i] \in Placeholder \cup {None}
      BY <1>2, <1>3
    <3> QED  BY <3>1 DEF FromWire
  <2>2. s.originals \in [Placeholder -> Originals \cup {None}]
    <3>1. \A p \in Placeholder : s.originals[p] \in Originals \cup {None}
      BY <1>2, <1>4
    <3> QED  BY <3>1 DEF FromWire
  <2> QED
    BY <2>1, <2>2 DEF FromWire, Session, Wire
<1>6. Mapped(s) = {m.id : m \in w.mappings}
  BY <1>2, <1>3, NoneAssumption DEF Mapped
<1>7. Allocated(s) = {m.ph : m \in w.mappings}
  BY <1>2, <1>4, NoneAssumption DEF Allocated
<1> QED
  BY <1>2, <1>5, <1>6, <1>7

(* What the loader accepts is a well-formed session.                       *)
LEMMA FromWireWellFormed ==
  ASSUME NEW w \in Wire, IsFiniteSet(w.mappings), ValidWire(w)
  PROVE  WellFormed(FromWire(w))
<1> DEFINE s == FromWire(w)
<1>1. w.mappings \subseteq Mapping
  BY DEF Wire
<1>2. \A m \in w.mappings : m.id \in Identity /\ m.ph \in Placeholder
                              /\ m.original \in Originals
  BY <1>1 DEF Mapping
<1>3. \A i \in Mapped(s) : \E m \in w.mappings :
        /\ m.id = i /\ s.placeholders[i] = m.ph /\ s.originals[m.ph] = m.original
  BY FromWireMaps
<1>4. Bijective(s)
  <2>1. ASSUME NEW i \in Mapped(s), NEW j \in Mapped(s),
               s.placeholders[i] = s.placeholders[j]
        PROVE  i = j
    BY <1>3, <2>1 DEF ValidWire
  <2>2. ASSUME NEW p \in Placeholder
        PROVE  s.originals[p] # None <=> \E i \in Mapped(s) : s.placeholders[i] = p
    <3>1. s.originals[p] # None <=> p \in Allocated(s)
      BY DEF Allocated
    <3>2. p \in Allocated(s) <=> \E m \in w.mappings : m.ph = p
      BY FromWireMaps
    <3>3. (\E m \in w.mappings : m.ph = p)
            <=> (\E i \in Mapped(s) : s.placeholders[i] = p)
      BY <1>3, FromWireMaps
    <3> QED  BY <3>1, <3>2, <3>3
  <2> QED  BY <2>1, <2>2 DEF Bijective
<1>5. s.counters = w.counters /\ s.lifecycle = w.lifecycle
  BY DEF FromWire
<1>6. CountersCover(s)
  BY <1>3, <1>5 DEF CountersCover, ValidWire
<1>7. \A i \in Mapped(s) :
        i \notin BadIdentities /\ s.originals[s.placeholders[i]] \notin Contaminated
  BY <1>3 DEF ValidWire
<1>8. IsFiniteSet(Mapped(s)) /\ Cardinality(Mapped(s)) <= MaxMappings
  <2> DEFINE f == [m \in w.mappings |-> m.id]
  <2>1. f \in Surjection(w.mappings, Mapped(s))
    BY FromWireMaps DEF Surjection
  <2>2. IsFiniteSet(Mapped(s)) /\ Cardinality(Mapped(s)) <= Cardinality(w.mappings)
    BY <2>1, FS_Surjection
  <2>3. Cardinality(w.mappings) \in Nat /\ Cardinality(Mapped(s)) \in Nat
    BY <2>2, FS_CardinalityType
  <2>4. Cardinality(w.mappings) <= MaxMappings
    BY DEF ValidWire
  <2> QED
    BY <2>2, <2>3, <2>4, ConstantsAssumption
<1> QED
  BY <1>4, <1>5, <1>6, <1>7, <1>8, FromWireMaps DEF WellFormed, ValidWire

(* A well-formed session that is not deleted exports an envelope that the  *)
(* loader accepts and turns back into the same session.                    *)
LEMMA SerializeReloads ==
  ASSUME NEW s, WellFormed(s), ~s.deleted
  PROVE  /\ Serialize(s) \in Wire
         /\ IsFiniteSet(Serialize(s).mappings)
         /\ ValidWire(Serialize(s))
         /\ FromWire(Serialize(s)).originals = s.originals
<1> DEFINE w == Serialize(s)
           entry(i) == [id |-> i, ph |-> s.placeholders[i],
                        original |-> s.originals[s.placeholders[i]]]
<1>1. ASSUME NEW i \in Mapped(s)
      PROVE  /\ i \in Identity /\ s.placeholders[i] \in Placeholder
             /\ s.originals[s.placeholders[i]] \in Originals
             /\ entry(i) \in Mapping
  <2>1. i \in Identity /\ s.placeholders[i] \in Placeholder
    BY DEF Mapped, WellFormed, Session
  <2>2. s.originals[s.placeholders[i]] # None
    BY <2>1 DEF WellFormed, Bijective
  <2>3. s.originals[s.placeholders[i]] \in Originals
    BY <2>1, <2>2 DEF WellFormed, Session
  <2> QED
    BY <2>1, <2>3 DEF Mapping
<1>2. w.mappings = {entry(i) : i \in Mapped(s)}
  BY DEF Serialize
<1>3. w \in Wire
  <2>1. w.mappings \subseteq Mapping
    BY <1>1, <1>2
  <2> QED
    BY <2>1 DEF Serialize, Wire, WellFormed, Session
<1>4. IsFiniteSet(w.mappings) /\ Cardinality(w.mappings) <= MaxMappings
  <2> DEFINE f == [i \in Mapped(s) |-> entry(i)]
  <2>1. f \in Surjection(Mapped(s), w.mappings)
    BY <1>2 DEF Surjection
  <2>2. IsFiniteSet(Mapped(s)) /\ Cardinality(Mapped(s)) <= MaxMappings
    BY DEF WellFormed
  <2>3. IsFiniteSet(w.mappings) /\ Cardinality(w.mappings) <= Cardinality(Mapped(s))
    BY <2>1, <2>2, FS_Surjection
  <2>4. Cardinality(w.mappings) \in Nat /\ Cardinality(Mapped(s)) \in Nat
    BY <2>2, <2>3, FS_CardinalityType
  <2> QED
    BY <2>2, <2>3, <2>4, ConstantsAssumption
<1>5. ValidWire(w)
  <2>1. w.lifecycle = None \/ ValidLifecycle(w.lifecycle)
    BY DEF Serialize, WellFormed
  <2>2. ASSUME NEW m \in w.mappings
        PROVE  /\ m.id \notin BadIdentities /\ m.original \notin Contaminated
               /\ m.ph.label = m.id.label
               /\ m.ph.count <= w.counters[m.id.label]
    <3>1. PICK i \in Mapped(s) : m = entry(i)
      BY <1>2
    <3>2. w.counters = s.counters
      BY DEF Serialize
    <3> QED
      BY <3>1, <3>2 DEF WellFormed, CountersCover
  <2>3. ASSUME NEW m \in w.mappings, NEW n \in w.mappings,
               m.ph = n.ph \/ m.id = n.id
        PROVE  m = n
    <3>1. PICK i \in Mapped(s) : m = entry(i)
      BY <1>2
    <3>2. PICK j \in Mapped(s) : n = entry(j)
      BY <1>2
    <3>3. i = j
      BY <2>3, <3>1, <3>2 DEF WellFormed, Bijective
    <3> QED
      BY <3>1, <3>2, <3>3
  <2> QED
    BY <1>4, <2>1, <2>2, <2>3 DEF ValidWire
<1>6. FromWire(w).originals = s.originals
  <2>1. ASSUME NEW p \in Placeholder
        PROVE  FromWire(w).originals[p] = s.originals[p]
    <3>1. CASE s.originals[p] # None
      <4>1. PICK i \in Mapped(s) : s.placeholders[i] = p
        BY <3>1 DEF WellFormed, Bijective
      <4>2. entry(i) \in w.mappings /\ entry(i).ph = p
                                   /\ entry(i).original = s.originals[p]
        BY <1>2, <4>1
      <4> QED
        BY <4>2, <1>3, <1>5, FromWireMaps
    <3>2. CASE s.originals[p] = None
      <4>1. ~ \E m \in w.mappings : m.ph = p
        <5>1. SUFFICES ASSUME NEW m \in w.mappings, m.ph = p PROVE FALSE
          OBVIOUS
        <5>2. PICK i \in Mapped(s) : m = entry(i)
          BY <1>2
        <5> QED
          BY <1>1, <3>2, <5>1, <5>2, NoneAssumption
      <4> QED
        BY <3>2, <4>1 DEF FromWire
    <3> QED  BY <3>1, <3>2
  <2>2. FromWire(w).originals \in [Placeholder -> Originals \cup {None}]
    BY <1>3, <1>5, FromWireMaps DEF Session
  <2>3. s.originals \in [Placeholder -> Originals \cup {None}]
    BY DEF WellFormed, Session
  <2> QED
    BY <2>1, <2>2, <2>3
<1> QED
  BY <1>3, <1>4, <1>5, <1>6

-----------------------------------------------------------------------------
(* Plans                                                                   *)

(* A plan adds identities the session does not know, under placeholders    *)
(* the session has not used, each counted by the plan's own counter; and   *)
(* whatever the redaction map shows has an original in one of the two.     *)
Fits(s, pl) ==
  /\ \A i \in Planned(pl) :
       /\ i \notin Mapped(s) /\ i \notin BadIdentities
       /\ pl.fresh[i].label = i.label
       /\ pl.fresh[i].count <= pl.counters[i.label]
       /\ pl.originals[pl.fresh[i]] \notin Contaminated
  /\ \A i, j \in Planned(pl) : pl.fresh[i] = pl.fresh[j] => i = j
  /\ \A p \in Placeholder :
       /\ pl.originals[p] # None <=> \E i \in Planned(pl) : pl.fresh[i] = p
       /\ pl.originals[p] # None => p \in pl.occupied /\ s.originals[p] = None
       /\ pl.map[p] # None => s.originals[p] # None \/ pl.originals[p] # None
  /\ \A l \in Labels : pl.counters[l] = 0 \/ s.counters[l] <= pl.counters[l]
  /\ IsFiniteSet(Planned(pl))
  /\ Planned(pl) = {} \/
       Cardinality(Mapped(s)) + Cardinality(Planned(pl)) <= MaxMappings

(* No plan fits every well-formed session.                                 *)
LEMMA NoPlanFits ==
  ASSUME NEW s, WellFormed(s)
  PROVE  NoPlan \in Plan /\ Fits(s, NoPlan)
<1>1. NoPlan \in Plan
  BY ConstantsAssumption DEF NoPlan, Plan
<1>2. Planned(NoPlan) = {}
  BY DEF NoPlan, Planned
<1>3. IsFiniteSet({})
  BY FS_EmptySet
<1> QED
  BY <1>1, <1>2, <1>3 DEF Fits, NoPlan

(* Committing a plan that fits keeps the session well formed, keeps every  *)
(* original it already had, and gives every placeholder of the redaction   *)
(* map an original.                                                        *)
LEMMA AppliedWellFormed ==
  ASSUME NEW s, WellFormed(s), NEW pl \in Plan, Fits(s, pl)
  PROVE  /\ WellFormed(Applied(s, pl))
         /\ Applied(s, pl).deleted = s.deleted
         /\ Mapped(Applied(s, pl)) = Mapped(s) \cup Planned(pl)
         /\ \A i \in Mapped(s) : Applied(s, pl).placeholders[i] = s.placeholders[i]
         /\ \A p \in Placeholder :
              /\ s.originals[p] # None =>
                   Applied(s, pl).originals[p] = s.originals[p]
              /\ pl.map[p] # None => Applied(s, pl).originals[p] # None
<1> DEFINE a == Applied(s, pl)
<1>1. /\ s \in Session /\ Bijective(s) /\ CountersCover(s)
      /\ a \in Session
  BY DEF WellFormed, Session, Plan, Applied
<1>2. /\ a.deleted = s.deleted /\ a.lifecycle = s.lifecycle
      /\ a.counters = [k \in Labels |->
            IF pl.counters[k] # 0 THEN pl.counters[k] ELSE s.counters[k]]
      /\ a.placeholders = [i \in Identity |->
            IF pl.fresh[i] # None THEN pl.fresh[i] ELSE s.placeholders[i]]
      /\ a.originals = [p \in Placeholder |->
            IF pl.originals[p] # None THEN pl.originals[p] ELSE s.originals[p]]
  BY <1>1 DEF Applied, Session
<1>3. Mapped(a) = Mapped(s) \cup Planned(pl)
  BY <1>2 DEF Mapped, Planned
<1>4. ASSUME NEW i \in Planned(pl)
      PROVE  /\ i \in Identity /\ a.placeholders[i] = pl.fresh[i]
             /\ pl.fresh[i] \in Placeholder
             /\ pl.originals[pl.fresh[i]] # None
             /\ a.originals[pl.fresh[i]] = pl.originals[pl.fresh[i]]
  <2>1. i \in Identity /\ a.placeholders[i] = pl.fresh[i] /\ pl.fresh[i] \in Placeholder
    BY <1>2 DEF Planned, Plan
  <2> QED
    BY <2>1, <1>2 DEF Fits
<1>5. ASSUME NEW i \in Mapped(s)
      PROVE  /\ i \in Identity /\ a.placeholders[i] = s.placeholders[i]
             /\ s.placeholders[i] \in Placeholder
             /\ s.originals[s.placeholders[i]] # None
             /\ pl.originals[s.placeholders[i]] = None
             /\ a.originals[s.placeholders[i]] = s.originals[s.placeholders[i]]
  <2>1. i \in Identity /\ i \notin Planned(pl) /\ s.placeholders[i] \in Placeholder
    BY <1>1 DEF Mapped, Fits, Session
  <2>2. s.originals[s.placeholders[i]] # None
    BY <1>1, <2>1 DEF Bijective
  <2>3. pl.originals[s.placeholders[i]] = None
    BY <2>1, <2>2 DEF Fits
  <2> QED
    BY <1>2, <2>1, <2>2, <2>3 DEF Planned
<1>6. Bijective(a)
  <2>1. ASSUME NEW i \in Mapped(a), NEW j \in Mapped(a),
               a.placeholders[i] = a.placeholders[j]
        PROVE  i = j
    <3>1. CASE i \in Mapped(s) /\ j \in Mapped(s)
      BY <1>1, <1>5, <2>1, <3>1 DEF Bijective
    <3>2. CASE i \in Planned(pl) /\ j \in Planned(pl)
      BY <1>4, <2>1, <3>2 DEF Fits
    <3>3. CASE i \in Mapped(s) /\ j \in Planned(pl)
      BY <1>4, <1>5, <2>1, <3>3
    <3>4. CASE i \in Planned(pl) /\ j \in Mapped(s)
      BY <1>4, <1>5, <2>1, <3>4
    <3> QED
      BY <1>3, <3>1, <3>2, <3>3, <3>4
  <2>2. ASSUME NEW p \in Placeholder
        PROVE  a.originals[p] # None <=> \E i \in Mapped(a) : a.placeholders[i] = p
    <3>1. a.originals[p] # None <=> pl.originals[p] # None \/ s.originals[p] # None
      BY <1>2
    <3>2. pl.originals[p] # None <=> \E i \in Planned(pl) : a.placeholders[i] = p
      BY <1>4 DEF Fits
    <3>3. s.originals[p] # None <=> \E i \in Mapped(s) : a.placeholders[i] = p
      BY <1>1, <1>5 DEF Bijective
    <3> QED
      BY <1>3, <3>1, <3>2, <3>3
  <2> QED
    BY <2>1, <2>2 DEF Bijective
<1>7. CountersCover(a)
  <2>1. ASSUME NEW i \in Mapped(a)
        PROVE  /\ a.placeholders[i].label = i.label
               /\ a.placeholders[i].count <= a.counters[i.label]
    <3>1. i \in Identity /\ i.label \in Labels
      BY <1>3, <1>4, <1>5 DEF Identity
    <3>2. /\ s.counters[i.label] \in 0..MaxCount
          /\ pl.counters[i.label] \in 0..MaxCount
      BY <1>1, <3>1 DEF Session, Plan
    <3>3. CASE i \in Planned(pl)
      <4>1. /\ pl.fresh[i] \in Placeholder /\ pl.fresh[i].label = i.label
            /\ pl.fresh[i].count <= pl.counters[i.label]
        BY <1>4, <3>3 DEF Fits
      <4>2. pl.counters[i.label] # 0
        BY <4>1, <3>2 DEF Placeholder
      <4> QED
        BY <1>2, <1>4, <3>1, <3>3, <4>1, <4>2
    <3>4. CASE i \in Mapped(s)
      <4>1. /\ s.placeholders[i] \in Placeholder
            /\ s.placeholders[i].label = i.label
            /\ s.placeholders[i].count <= s.counters[i.label]
        BY <1>1, <1>5, <3>4 DEF CountersCover
      <4>2. pl.counters[i.label] = 0 \/ s.counters[i.label] <= pl.counters[i.label]
        BY <3>1 DEF Fits
      <4>3. s.counters[i.label] <= a.counters[i.label]
        BY <1>2, <3>1, <3>2, <4>2
      <4>4. a.counters[i.label] \in 0..MaxCount /\ s.placeholders[i].count \in 1..MaxCount
        BY <1>1, <3>1, <4>1 DEF Session, Placeholder
      <4> QED
        BY <1>5, <3>2, <3>4, <4>1, <4>3, <4>4
    <3> QED
      BY <1>3, <3>3, <3>4
  <2> QED
    BY <2>1 DEF CountersCover
<1>8. ASSUME NEW i \in Mapped(a)
      PROVE  i \notin BadIdentities /\ a.originals[a.placeholders[i]] \notin Contaminated
  <2>1. CASE i \in Planned(pl)
    BY <1>4, <2>1 DEF Fits
  <2>2. CASE i \in Mapped(s)
    BY <1>5, <2>2 DEF WellFormed
  <2> QED
    BY <1>3, <2>1, <2>2
<1>9. IsFiniteSet(Mapped(a)) /\ Cardinality(Mapped(a)) <= MaxMappings
  <2>1. IsFiniteSet(Mapped(s)) /\ Cardinality(Mapped(s)) <= MaxMappings
    BY DEF WellFormed
  <2>2. CASE Planned(pl) = {}
    BY <1>3, <2>1, <2>2
  <2>3. CASE Planned(pl) # {}
    <3>1. /\ IsFiniteSet(Planned(pl))
          /\ Cardinality(Mapped(s)) + Cardinality(Planned(pl)) <= MaxMappings
      BY <2>3 DEF Fits
    <3>2. IsFiniteSet(Mapped(s) \cap Planned(pl))
      BY <2>1, FS_Intersection
    <3>3. /\ IsFiniteSet(Mapped(a))
          /\ Cardinality(Mapped(a)) = Cardinality(Mapped(s)) + Cardinality(Planned(pl))
                                       - Cardinality(Mapped(s) \cap Planned(pl))
      BY <1>3, <2>1, <3>1, FS_Union
    <3>4. /\ Cardinality(Mapped(s)) \in Nat /\ Cardinality(Planned(pl)) \in Nat
          /\ Cardinality(Mapped(s) \cap Planned(pl)) \in Nat
      BY <2>1, <3>1, <3>2, FS_CardinalityType
    <3> QED
      BY <3>1, <3>3, <3>4, ConstantsAssumption
  <2> QED
    BY <2>2, <2>3
<1>10. ASSUME NEW p \in Placeholder
       PROVE  /\ s.originals[p] # None => a.originals[p] = s.originals[p]
              /\ pl.map[p] # None => a.originals[p] # None
  BY <1>2 DEF Fits
<1>11. a.lifecycle = None \/ ValidLifecycle(a.lifecycle)
  BY <1>2 DEF WellFormed
<1> QED
  BY <1>1, <1>2, <1>3, <1>5, <1>6, <1>7, <1>8, <1>9, <1>10, <1>11 DEF WellFormed

(* Allocating a placeholder keeps the plan one that fits: the new count is *)
(* past the plan's and the session's counter, the placeholder is in        *)
(* neither, and the limit was checked against both.                        *)
LEMMA AllocateFits ==
  ASSUME WellFormed(session), plan \in Plan, Fits(session, plan),
         NEW i \in Identity, NEW o \in Originals, AllocatePlaceholder(i, o)
  PROVE  plan' \in Plan /\ Fits(session, plan')
<1>1. PICK n \in 1..MaxCount :
        LET p == [label |-> i.label, count |-> n] IN
        /\ IsNextCount(n, i.label, CounterOf(i.label), Taken)
        /\ plan' = [plan EXCEPT !.inputs = @ + 1,
                                !.counters[i.label] = n,
                                !.fresh[i] = p,
                                !.originals[p] = o,
                                !.occupied = @ \cup {p},
                                !.map = MapEntry(p, o)]
  BY DEF AllocatePlaceholder
<1> DEFINE p == [label |-> i.label, count |-> n]
           l == i.label
<1>2. /\ l \in Labels /\ p \in Placeholder
      /\ i \notin BadIdentities /\ o \notin Contaminated /\ o # None
      /\ plan.inputs \in 0..MaxInputs /\ plan.inputs < MaxInputs
      /\ session \in Session
  BY NoneAssumption DEF Identity, Placeholder, AllocatePlaceholder, NextMention,
     Plan, WellFormed
<1>3. /\ plan'.inputs = plan.inputs + 1
      /\ plan'.counters = [plan.counters EXCEPT ![l] = n]
      /\ plan'.fresh = [plan.fresh EXCEPT ![i] = p]
      /\ plan'.originals = [plan.originals EXCEPT ![p] = o]
      /\ plan'.occupied = plan.occupied \cup {p}
      /\ plan'.map = MapEntry(p, o)
      /\ plan'.active = plan.active /\ plan'.transient = plan.transient
      /\ plan'.transientCounters = plan.transientCounters
      /\ plan'.forged = plan.forged
  BY <1>1 DEF Plan
<1>4. MapEntry(p, o) \in [Placeholder -> Originals \cup {None}]
  BY <1>2 DEF MapEntry, Plan
<1>5. plan' \in Plan
  <2>1. plan'.counters \in [Labels -> 0..MaxCount]
    BY <1>1, <1>2, <1>3 DEF Plan
  <2>2. plan'.fresh \in [Identity -> Placeholder \cup {None}]
    BY <1>2, <1>3 DEF Plan
  <2>3. plan'.originals \in [Placeholder -> Originals \cup {None}]
    BY <1>2, <1>3 DEF Plan
  <2>4. plan'.inputs \in 0..MaxInputs
    BY <1>2, <1>3, ConstantsAssumption
  <2>5. plan' = [active |-> plan'.active, inputs |-> plan'.inputs,
                 counters |-> plan'.counters, fresh |-> plan'.fresh,
                 originals |-> plan'.originals, transient |-> plan'.transient,
                 transientCounters |-> plan'.transientCounters,
                 occupied |-> plan'.occupied, map |-> plan'.map,
                 forged |-> plan'.forged]
    BY <1>1 DEF Plan
  <2> QED
    BY <1>2, <1>3, <1>4, <2>1, <2>2, <2>3, <2>4, <2>5 DEF Plan
<1>6. /\ i \notin Mapped(session) /\ i \notin Planned(plan)
      /\ plan.fresh[i] = None
  BY DEF AllocatePlaceholder, KnownPlaceholder, Mapped, Planned
<1>7. p \notin Taken
  BY <1>1 DEF IsNextCount, FreeCounts
<1>8. session.originals[p] = None /\ plan.originals[p] = None
  BY <1>2, <1>7 DEF Taken, Allocated, Fits
<1>9. /\ plan.counters[l] \in 0..MaxCount /\ session.counters[l] \in 0..MaxCount
      /\ n \in 1..MaxCount /\ plan.counters[l] < n /\ session.counters[l] < n
  <2>1. plan.counters[l] \in 0..MaxCount /\ session.counters[l] \in 0..MaxCount
    BY <1>2 DEF Plan, Session
  <2>2. plan.counters[l] = 0 \/ session.counters[l] <= plan.counters[l]
    BY <1>2 DEF Fits
  <2>3. n \in (CounterOf(l) + 1)..MaxCount
    BY <1>1 DEF IsNextCount, FreeCounts
  <2>4. CounterOf(l) < n
    BY <2>1, <2>3 DEF CounterOf
  <2> QED
    BY <2>1, <2>2, <2>4 DEF CounterOf
<1>10. Planned(plan') = Planned(plan) \cup {i}
  <2>1. p # None
    BY <1>2, NoneAssumption
  <2> QED
    BY <1>3, <2>1 DEF Planned, Plan
<1>11. \A j \in Planned(plan) : /\ j \in Identity /\ j # i
                               /\ plan'.fresh[j] = plan.fresh[j]
                               /\ plan.fresh[j] \in Placeholder
                               /\ plan.originals[plan.fresh[j]] # None
                               /\ plan.fresh[j] # p
  BY <1>3, <1>6, <1>8 DEF Planned, Plan, Fits
<1>12. plan'.fresh[i] = p
  BY <1>3 DEF Plan
<1>13. ASSUME NEW j \in Planned(plan')
       PROVE  /\ j \notin Mapped(session) /\ j \notin BadIdentities
              /\ plan'.fresh[j].label = j.label
              /\ plan'.fresh[j].count <= plan'.counters[j.label]
              /\ plan'.originals[plan'.fresh[j]] \notin Contaminated
  <2>1. CASE j = i
    BY <1>2, <1>3, <1>6, <1>9, <1>12, <2>1 DEF Plan
  <2>2. CASE j \in Planned(plan)
    <3>1. /\ j \notin Mapped(session) /\ j \notin BadIdentities
          /\ plan.fresh[j].label = j.label
          /\ plan.fresh[j].count <= plan.counters[j.label]
          /\ plan.originals[plan.fresh[j]] \notin Contaminated
      BY <2>2 DEF Fits
    <3>2. j.label \in Labels /\ plan.fresh[j].count \in 1..MaxCount
      BY <1>11, <2>2 DEF Identity, Placeholder
    <3>3. plan.counters[j.label] \in 0..MaxCount
      BY <3>2 DEF Plan
    <3>4. plan.fresh[j].count <= plan'.counters[j.label]
      BY <1>3, <1>9, <3>1, <3>2, <3>3 DEF Plan
    <3>5. plan'.originals[plan.fresh[j]] = plan.originals[plan.fresh[j]]
      BY <1>3, <1>11, <2>2 DEF Plan
    <3> QED
      BY <1>11, <2>2, <3>1, <3>4, <3>5
  <2> QED
    BY <1>10, <2>1, <2>2
<1>14. \A j, k \in Planned(plan') : plan'.fresh[j] = plan'.fresh[k] => j = k
  BY <1>10, <1>11, <1>12 DEF Fits
<1>15. ASSUME NEW q \in Placeholder
       PROVE  /\ plan'.originals[q] # None
                    <=> \E j \in Planned(plan') : plan'.fresh[j] = q
              /\ plan'.originals[q] # None =>
                    q \in plan'.occupied /\ session.originals[q] = None
              /\ plan'.map[q] # None =>
                    session.originals[q] # None \/ plan'.originals[q] # None
  <2>1. CASE q = p
    <3>1. plan'.originals[q] = o /\ q \in plan'.occupied
      BY <1>2, <1>3, <2>1 DEF Plan
    <3> QED
      BY <1>2, <1>8, <1>10, <1>12, <2>1, <3>1
  <2>2. CASE q # p
    <3>1. /\ plan'.originals[q] = plan.originals[q]
          /\ plan'.map[q] = plan.map[q]
          /\ q \in plan'.occupied <=> q \in plan.occupied
      BY <1>3, <2>2 DEF Plan, MapEntry
    <3>2. (\E j \in Planned(plan') : plan'.fresh[j] = q)
             <=> (\E j \in Planned(plan) : plan.fresh[j] = q)
      BY <1>10, <1>11, <1>12, <2>2
    <3> QED
      BY <3>1, <3>2 DEF Fits
  <2> QED
    BY <2>1, <2>2
<1>16. \A k \in Labels : plan'.counters[k] = 0
                           \/ session.counters[k] <= plan'.counters[k]
  BY <1>2, <1>3, <1>9 DEF Fits, Plan
<1>17. /\ IsFiniteSet(Planned(plan'))
       /\ Cardinality(Mapped(session)) + Cardinality(Planned(plan')) <= MaxMappings
  <2>1. IsFiniteSet(Planned(plan)) /\ IsFiniteSet(Mapped(session))
    BY DEF Fits, WellFormed
  <2>2. /\ IsFiniteSet(Planned(plan'))
        /\ Cardinality(Planned(plan')) = Cardinality(Planned(plan)) + 1
    BY <1>6, <1>10, <2>1, FS_AddElement
  <2>3. Cardinality(Planned(plan)) \in Nat /\ Cardinality(Mapped(session)) \in Nat
    BY <2>1, FS_CardinalityType
  <2>4. ~(Cardinality(Mapped(session)) + Cardinality(Planned(plan)) >= MaxMappings)
    BY DEF AllocatePlaceholder, SessionFull
  <2> QED
    BY <2>2, <2>3, <2>4, ConstantsAssumption
<1> QED
  BY <1>5, <1>13, <1>14, <1>15, <1>16, <1>17 DEF Fits

-----------------------------------------------------------------------------
(* The inductive invariant                                                 *)

(* An export is finite, acceptable, and restores what it was exported with.*)
GoodArchive(a) ==
  /\ IsFiniteSet(a.wire.mappings) /\ ValidWire(a.wire)
  /\ Keeps(FromWire(a.wire), a.issued)

IndInv ==
  /\ TypeOK
  /\ WellFormed(session)
  /\ Fits(session, plan)
  /\ plan.active => ~session.deleted
  /\ ~plan.active => plan = NoPlan
  /\ IssuedTextsRestore
  /\ \A a \in archives : GoodArchive(a)

LEMMA StatusType ==
  ASSUME NEW s, NEW t
  PROVE  Status(s, t) # "active" => Status(s, t) \in Outcomes
BY DEF Status, Outcomes

(* A failed call drops the plan and keeps the rest.                        *)
LEMMA FailKeeps ==
  ASSUME IndInv, NEW o \in Outcomes, Fail(o)
  PROVE  IndInv'
<1>1. /\ session' = session /\ issued' = issued /\ archives' = archives
      /\ plan' = NoPlan /\ outcome' = o
  BY DEF Fail
<1>2. NoPlan \in Plan /\ Fits(session, NoPlan) /\ NoPlan.active = FALSE
  BY NoPlanFits DEF IndInv, NoPlan
<1>3. TypeOK'
  BY <1>1, <1>2 DEF IndInv, TypeOK
<1>4. WellFormed(session)' /\ Fits(session, plan)' /\ IssuedTextsRestore'
  BY <1>1, <1>2 DEF IndInv, IssuedTextsRestore
<1> QED
  BY <1>1, <1>2, <1>3, <1>4 DEF IndInv

(* A mention that is planned changes the plan only.                        *)
LEMMA MentionKeeps ==
  ASSUME IndInv, plan' \in Plan, Fits(session, plan'),
         plan.active, plan'.active, NextMention
  PROVE  IndInv'
<1>1. /\ session' = session /\ issued' = issued /\ archives' = archives
      /\ outcome' = "planning"
  BY DEF NextMention
<1>2. TypeOK'
  BY <1>1 DEF IndInv, TypeOK, Outcomes
<1>3. WellFormed(session)' /\ Fits(session, plan)' /\ IssuedTextsRestore'
  BY <1>1 DEF IndInv, IssuedTextsRestore
<1> QED
  BY <1>1, <1>2, <1>3 DEF IndInv

LEMMA BeginKeeps ==
  ASSUME IndInv, NEW t, BeginRedaction(t)
  PROVE  IndInv'
<1>1. /\ session' = session /\ issued' = issued /\ archives' = archives
      /\ plan' = [NoPlan EXCEPT !.active = TRUE] /\ outcome' = "planning"
      /\ ~session.deleted
  BY DEF BeginRedaction, Status
<1>2. NoPlan \in Plan /\ Fits(session, NoPlan)
  BY NoPlanFits DEF IndInv
<1>3. plan' \in Plan /\ plan'.active
  BY <1>1, <1>2 DEF Plan
<1>4. Fits(session, plan')
  BY <1>1, <1>2 DEF Fits, Planned, NoPlan
<1>5. TypeOK'
  BY <1>1, <1>3 DEF IndInv, TypeOK, Outcomes
<1>6. WellFormed(session)' /\ Fits(session, plan)' /\ IssuedTextsRestore'
  BY <1>1, <1>4 DEF IndInv, IssuedTextsRestore
<1> QED
  BY <1>1, <1>3, <1>5, <1>6 DEF IndInv

LEMMA ReuseKeeps ==
  ASSUME IndInv, NEW i \in Identity, NEW o \in Originals, ReusePlaceholder(i, o)
  PROVE  IndInv'
<1> DEFINE p == KnownPlaceholder(i)
<1>1. /\ plan.active /\ plan.inputs < MaxInputs /\ NextMention /\ p # None
      /\ plan' = [plan EXCEPT !.inputs = @ + 1, !.map = MapEntry(p, o)]
  BY DEF ReusePlaceholder, NextMention
<1>2. plan \in Plan /\ WellFormed(session) /\ Fits(session, plan)
  BY DEF IndInv, TypeOK
<1>3. /\ p \in Placeholder
      /\ session.originals[p] # None \/ plan.originals[p] # None
  <2>1. CASE session.placeholders[i] # None
    <3>1. p = session.placeholders[i] /\ i \in Mapped(session)
      BY <2>1 DEF KnownPlaceholder, Mapped
    <3>2. p \in Placeholder
      BY <1>2, <2>1, <3>1 DEF WellFormed, Session
    <3> QED
      BY <1>2, <3>1, <3>2 DEF WellFormed, Bijective
  <2>2. CASE session.placeholders[i] = None
    <3>1. p = plan.fresh[i] /\ i \in Planned(plan)
      BY <1>1, <2>2 DEF KnownPlaceholder, Planned
    <3>2. p \in Placeholder
      BY <1>1, <1>2, <3>1 DEF Plan
    <3> QED
      BY <1>2, <3>1, <3>2 DEF Fits
  <2> QED
    BY <2>1, <2>2
<1>4. MapEntry(p, o) \in [Placeholder -> Originals \cup {None}]
  BY <1>2, <1>3 DEF MapEntry, Plan
<1>5. plan.inputs + 1 \in 0..MaxInputs
  BY <1>1, <1>2, ConstantsAssumption DEF Plan
<1>6. plan' \in Plan /\ plan'.active
  BY <1>1, <1>2, <1>4, <1>5 DEF Plan
<1>7. /\ plan'.fresh = plan.fresh /\ plan'.originals = plan.originals
      /\ plan'.counters = plan.counters /\ plan'.occupied = plan.occupied
      /\ plan'.map = MapEntry(p, o)
  BY <1>1, <1>2 DEF Plan
<1>8. \A q \in Placeholder : plan'.map[q] # None =>
        session.originals[q] # None \/ plan'.originals[q] # None
  BY <1>2, <1>3, <1>7 DEF MapEntry, Plan, Fits
<1>9. Fits(session, plan')
  BY <1>2, <1>7, <1>8 DEF Fits, Planned
<1> QED
  BY <1>1, <1>6, <1>9, MentionKeeps

LEMMA PassKeeps ==
  ASSUME IndInv, NEW i \in Identity, NEW spelled \in SUBSET Placeholder,
         PassMention(i, spelled)
  PROVE  IndInv'
<1> DEFINE k == LookAlike[i.label]
<1>1. plan \in Plan /\ WellFormed(session) /\ Fits(session, plan)
  BY DEF IndInv, TypeOK
<1>2. /\ plan.active /\ NextMention /\ i.label \in Labels
      /\ plan.inputs + 1 \in 0..MaxInputs
  <2>1. NextMention /\ plan.active /\ plan.inputs < MaxInputs
    BY DEF PassMention, NextMention
  <2> QED
    BY <1>1, <2>1, ConstantsAssumption DEF Plan, Identity
<1>3. /\ plan' \in Plan /\ plan'.active
      /\ plan'.fresh = plan.fresh /\ plan'.originals = plan.originals
      /\ plan'.counters = plan.counters /\ plan.occupied \subseteq plan'.occupied
      /\ plan'.map = plan.map
  <2>1. CASE plan' = [plan EXCEPT !.inputs = @ + 1, !.forged = @ \cup spelled]
    BY <1>1, <1>2, <2>1 DEF Plan
  <2>2. CASE /\ k # None
             /\ \E n \in 1..MaxCount :
                  plan' = [plan EXCEPT
                     !.inputs = @ + 1,
                     !.transient = @ \cup {i},
                     !.transientCounters[i.label] = n,
                     !.occupied = @ \cup {[label |-> k, count |-> n]},
                     !.forged = @ \cup spelled]
    <3>1. PICK n \in 1..MaxCount :
                  plan' = [plan EXCEPT
                     !.inputs = @ + 1,
                     !.transient = @ \cup {i},
                     !.transientCounters[i.label] = n,
                     !.occupied = @ \cup {[label |-> k, count |-> n]},
                     !.forged = @ \cup spelled]
      BY <2>2
    <3>2. [label |-> k, count |-> n] \in Placeholder
      BY <1>2, <2>2, ConstantsAssumption DEF Placeholder
    <3>3. [plan.transientCounters EXCEPT ![i.label] = n] \in [Labels -> 0..MaxCount]
      BY <1>1, <1>2 DEF Plan
    <3> QED
      BY <1>1, <1>2, <3>1, <3>2, <3>3 DEF Plan
  <2> QED
    BY <2>1, <2>2 DEF PassMention
<1>4. Fits(session, plan')
  BY <1>1, <1>3 DEF Fits, Planned
<1> QED
  BY <1>2, <1>3, <1>4, MentionKeeps

LEMMA AllocateKeeps ==
  ASSUME IndInv, NEW i \in Identity, NEW o \in Originals, AllocatePlaceholder(i, o)
  PROVE  IndInv'
<1>1. plan' \in Plan /\ Fits(session, plan')
  BY AllocateFits DEF IndInv, TypeOK
<1>2. NextMention /\ plan.active /\ plan'.active
  BY DEF AllocatePlaceholder, NextMention, IndInv, TypeOK, Plan
<1> QED
  BY <1>1, <1>2, MentionKeeps

LEMMA CommitKeeps ==
  ASSUME IndInv, Commit
  PROVE  IndInv'
<1>1. /\ session' = Applied(session, plan) /\ plan' = NoPlan
      /\ plan.forged = {} /\ plan.active
      /\ issued' = issued \cup CanonicalMap(session', plan.map) \cup ForgedPromises(plan)
      /\ archives' = archives /\ outcome' = "ok"
  BY DEF Commit, RenderedAsPlanned
<1>2. /\ plan \in Plan /\ WellFormed(session) /\ Fits(session, plan)
      /\ ~session.deleted
  BY <1>1 DEF IndInv, TypeOK
<1>3. /\ WellFormed(session') /\ session'.deleted = session.deleted
      /\ \A p \in Placeholder :
           /\ session.originals[p] # None => session'.originals[p] = session.originals[p]
           /\ plan.map[p] # None => session'.originals[p] # None
  BY <1>1, <1>2, AppliedWellFormed
<1>4. issued' = issued \cup CanonicalMap(session', plan.map)
  BY <1>1 DEF ForgedPromises
<1>5. ASSUME NEW e \in issued'
      PROVE  e \in Promise /\ e.reads # None /\ session'.originals[e.ph] = e.reads
  <2>1. CASE e \in issued
    BY <1>2, <1>3, <2>1 DEF IndInv, TypeOK, Promise, IssuedTextsRestore, Keeps
  <2>2. CASE e \in CanonicalMap(session', plan.map)
    <3>1. PICK p \in Placeholder :
            /\ plan.map[p] # None
            /\ e = [ph |-> p, reads |-> IF session'.originals[p] # None
                                       THEN session'.originals[p] ELSE plan.map[p]]
      BY <2>2 DEF CanonicalMap
    <3>2. session'.originals[p] # None /\ session'.originals[p] \in Originals \cup {None}
      BY <1>3, <3>1 DEF WellFormed, Session
    <3> QED
      BY <3>1, <3>2 DEF Promise
  <2> QED
    BY <1>4, <2>1, <2>2
<1>6. NoPlan \in Plan /\ Fits(session', NoPlan) /\ NoPlan.active = FALSE
  BY <1>3, NoPlanFits DEF NoPlan
<1>7. TypeOK'
  BY <1>1, <1>3, <1>5, <1>6 DEF IndInv, TypeOK, WellFormed, Outcomes
<1>8. IssuedTextsRestore'
  BY <1>5 DEF IssuedTextsRestore, Keeps
<1> QED
  BY <1>1, <1>3, <1>6, <1>7, <1>8 DEF IndInv

LEMMA DeleteKeeps ==
  ASSUME IndInv, Delete
  PROVE  IndInv'
<1>1. plan = NoPlan /\ NoPlan.active = FALSE /\ ~plan.active
  BY DEF Delete, Idle, IndInv, NoPlan
<1>2. /\ plan' = plan /\ issued' = issued /\ archives' = archives
      /\ outcome' \in Outcomes
  BY DEF Delete, Outcomes
<1>3. WellFormed(session')
  BY DeletedWellFormed DEF Delete, IndInv
<1>4. session' = session \/ session'.deleted
  BY DEF Delete, EmptySession
<1>5. Fits(session', plan')
  BY <1>1, <1>2, <1>3, NoPlanFits
<1>6. TypeOK'
  BY <1>2, <1>3 DEF IndInv, TypeOK, WellFormed
<1>7. IssuedTextsRestore'
  BY <1>2, <1>4 DEF IndInv, IssuedTextsRestore
<1> QED
  BY <1>1, <1>2, <1>3, <1>5, <1>6, <1>7 DEF IndInv

LEMMA ExportKeeps ==
  ASSUME IndInv, NEW t, Export(t)
  PROVE  IndInv'
<1>1. session' = session /\ plan' = plan /\ issued' = issued
  BY DEF Export
<1>2. outcome' \in Outcomes
  BY StatusType DEF Export, Outcomes
<1>3. ASSUME NEW a \in archives'
      PROVE  a \in [wire : Wire, issued : SUBSET Promise] /\ GoodArchive(a)
  <2>1. CASE a \in archives
    BY <2>1 DEF IndInv, TypeOK
  <2>2. CASE a \notin archives
    <3>1. /\ Status(session, t) = "active"
          /\ a = [wire |-> Serialize(session), issued |-> issued]
      BY <1>3, <2>2 DEF Export
    <3>2. ~session.deleted
      BY <3>1 DEF Status
    <3>3. /\ Serialize(session) \in Wire
          /\ IsFiniteSet(Serialize(session).mappings)
          /\ ValidWire(Serialize(session))
          /\ FromWire(Serialize(session)).originals = session.originals
      BY <3>2, SerializeReloads DEF IndInv
    <3>4. Keeps(FromWire(Serialize(session)), issued)
      BY <3>2, <3>3 DEF IndInv, IssuedTextsRestore, Keeps
    <3> QED
      BY <3>1, <3>3, <3>4 DEF GoodArchive, IndInv, TypeOK
  <2> QED
    BY <2>1, <2>2
<1>4. TypeOK'
  BY <1>1, <1>2, <1>3 DEF IndInv, TypeOK
<1>5. WellFormed(session)' /\ Fits(session, plan)' /\ IssuedTextsRestore'
  BY <1>1 DEF IndInv, IssuedTextsRestore
<1> QED
  BY <1>1, <1>3, <1>4, <1>5 DEF IndInv

(* Taking up an envelope with the promises it is known to keep.            *)
LEMMA LoadKeeps ==
  ASSUME IndInv, Idle, UNCHANGED <<plan, archives>>, outcome' \in Outcomes,
         NEW w \in Wire, IsFiniteSet(w.mappings), ValidWire(w),
         session' = FromWire(w),
         issued' \in SUBSET Promise, Keeps(FromWire(w), issued')
  PROVE  IndInv'
<1>1. plan = NoPlan /\ ~plan.active /\ plan' = plan /\ archives' = archives
  BY DEF Idle, IndInv
<1>2. WellFormed(session')
  BY FromWireWellFormed
<1>3. Fits(session', plan')
  BY <1>1, <1>2, NoPlanFits
<1>4. TypeOK'
  BY <1>1, <1>2 DEF IndInv, TypeOK, WellFormed
<1>5. IssuedTextsRestore'
  BY DEF IssuedTextsRestore, Keeps
<1> QED
  BY <1>1, <1>2, <1>3, <1>4, <1>5 DEF IndInv

(* Calls that only answer.                                                 *)
LEMMA AnswerKeeps ==
  ASSUME IndInv, UNCHANGED <<session, plan, issued, archives>>, outcome' \in Outcomes
  PROVE  IndInv'
<1>1. TypeOK'
  BY DEF IndInv, TypeOK
<1>2. WellFormed(session)' /\ Fits(session, plan)' /\ IssuedTextsRestore'
  BY DEF IndInv, IssuedTextsRestore
<1> QED
  BY <1>1, <1>2 DEF IndInv

LEMMA ImportKeeps ==
  ASSUME IndInv, Import
  PROVE  IndInv'
<1>1. ASSUME NEW a \in archives, ImportPlaintext(a.wire, a.issued)
      PROVE  IndInv'
  <2>1. a.wire \in Wire /\ a.issued \in SUBSET Promise /\ GoodArchive(a)
    BY DEF IndInv, TypeOK
  <2> QED
    BY <1>1, <2>1, LoadKeeps DEF ImportPlaintext, GoodArchive, Outcomes
<1>2. ASSUME NEW w \in ForeignWires, ImportPlaintext(w, {})
      PROVE  IndInv'
  <2>1. w \in Wire /\ IsFiniteSet(w.mappings)
    BY ConstantsAssumption
  <2>2. CASE ValidWire(w)
    <3>1. /\ session' = FromWire(w) /\ issued' = {} /\ outcome' = "ok"
          /\ Idle /\ UNCHANGED <<plan, archives>>
      BY <1>2, <2>2 DEF ImportPlaintext
    <3>2. Keeps(FromWire(w), issued') /\ issued' \in SUBSET Promise
      BY <3>1 DEF Keeps
    <3> QED
      BY <2>1, <2>2, <3>1, <3>2, LoadKeeps DEF Outcomes
  <2>3. CASE ~ValidWire(w)
    BY <1>2, <2>3, AnswerKeeps DEF ImportPlaintext, Outcomes
  <2> QED
    BY <2>2, <2>3
<1>3. ASSUME NEW a \in archives, NEW t \in Times \cup {None}, OpenArchive(a, t)
      PROVE  IndInv'
  <2>1. a.wire \in Wire /\ a.issued \in SUBSET Promise /\ GoodArchive(a)
    BY DEF IndInv, TypeOK
  <2>2. CASE Status(FromWire(a.wire), t) = "active"
    BY <1>3, <2>1, <2>2, LoadKeeps DEF OpenArchive, GoodArchive, Outcomes
  <2>3. CASE Status(FromWire(a.wire), t) # "active"
    BY <1>3, <2>1, <2>3, StatusType, AnswerKeeps DEF OpenArchive, GoodArchive
  <2> QED
    BY <2>2, <2>3
<1> QED
  BY <1>1, <1>2, <1>3 DEF Import

LEMMA RedactionKeeps ==
  ASSUME IndInv, Redaction
  PROVE  IndInv'
<1>1. ASSUME NEW t \in Times \cup {None}, RefuseRedaction(t) \/ RefuseReservedText(t)
      PROVE  IndInv'
  BY <1>1, StatusType, FailKeeps DEF RefuseRedaction, RefuseReservedText, Outcomes
<1>2. ASSUME NEW i \in Identity, NEW o \in Originals, RefuseMention(i, o)
      PROVE  IndInv'
  BY <1>2, FailKeeps DEF RefuseMention, Outcomes
<1>3. ASSUME NEW i \in Identity, ExhaustTransient(i)
      PROVE  IndInv'
  BY <1>3, FailKeeps DEF ExhaustTransient, Outcomes
<1>4. ASSUME RefuseSize \/ RefuseRendered
      PROVE  IndInv'
  BY <1>4, FailKeeps DEF RefuseSize, RefuseRendered, Outcomes
<1>5. ASSUME NEW i \in Identity, NEW spelled \in {{}} \cup {{p} : p \in Placeholder},
             PassMention(i, spelled)
      PROVE  IndInv'
  <2>1. spelled \in SUBSET Placeholder
    BY <1>5
  <2> QED
    BY <1>5, <2>1, PassKeeps
<1> QED
  BY <1>1, <1>2, <1>3, <1>4, <1>5, BeginKeeps, ReuseKeeps, AllocateKeeps, CommitKeeps
     DEF Redaction

(* The initial states satisfy the invariant and every step keeps it.       *)
LEMMA InitIndInv == Init => IndInv
<1> SUFFICES ASSUME Init PROVE IndInv
  OBVIOUS
<1>1. PICK l \in Lifecycles \cup {None} : session = EmptySession(l)
  BY DEF Init
<1>2. WellFormed(session) /\ session \in Session
  BY <1>1, EmptyWellFormed
<1>3. NoPlan \in Plan /\ Fits(session, NoPlan) /\ NoPlan.active = FALSE
  BY <1>2, NoPlanFits DEF NoPlan
<1> QED
  BY <1>2, <1>3 DEF Init, IndInv, TypeOK, Outcomes, IssuedTextsRestore, Keeps

LEMMA NextIndInv == IndInv /\ [Next]_vars => IndInv'
<1> SUFFICES ASSUME IndInv, [Next]_vars PROVE IndInv'
  OBVIOUS
<1>1. CASE UNCHANGED vars
  BY <1>1, AnswerKeeps DEF vars, IndInv, TypeOK
<1>2. ASSUME NEW t \in Times \cup {None}, NEW placeholders, RestoreText(t, placeholders)
      PROVE  IndInv'
  BY <1>2, StatusType, AnswerKeeps DEF RestoreText, Outcomes
<1> QED
  BY <1>1, <1>2, RedactionKeeps, ImportKeeps, DeleteKeeps, ExportKeeps DEF Next

(* The invariant implies each of the properties of the runs.               *)
LEMMA IndInvImplies ==
  IndInv => /\ TypeOK /\ OnePseudonymPerIdentity /\ CountersCoverAllocations
            /\ IssuedTextsRestore /\ ExportsReload
BY DEF IndInv, WellFormed, OnePseudonymPerIdentity, CountersCoverAllocations,
   ExportsReload, GoodArchive

THEOREM InvariantHolds == Spec => []IndInv
BY InitIndInv, NextIndInv, PTL DEF Spec

(* Every state of the session is typed.                                    *)
THEOREM TypeCorrect == Spec => []TypeOK
BY InvariantHolds, IndInvImplies, PTL

(* Identities and placeholders determine each other, for any documents.    *)
THEOREM PseudonymsAreBijective == Spec => []OnePseudonymPerIdentity
BY InvariantHolds, IndInvImplies, PTL

(* No counter ever falls behind a placeholder already handed out.          *)
THEOREM CountersNeverLag == Spec => []CountersCoverAllocations
BY InvariantHolds, IndInvImplies, PTL

(* Every text issued along a session's history restores to what its        *)
(* redaction map said, after any further documents, exports and reloads.   *)
THEOREM IssuedTextsAlwaysRestore == Spec => []IssuedTextsRestore
BY InvariantHolds, IndInvImplies, PTL

(* The loader accepts every envelope the session ever exported, and loses  *)
(* nothing that was promised before the export.                            *)
THEOREM ExportsAlwaysReload == Spec => []ExportsReload
BY InvariantHolds, IndInvImplies, PTL

-----------------------------------------------------------------------------
(* Where the entries come from, and the register                           *)

Book(s) == Serialize(s).mappings

LEMMA BookEntries ==
  ASSUME NEW s, WellFormed(s)
  PROVE  /\ Book(s) = {[id |-> i, ph |-> s.placeholders[i],
                        original |-> s.originals[s.placeholders[i]]] : i \in Mapped(s)}
         /\ Book(s) \subseteq Mapping
         /\ Register!Consistent(Book(s))
<1> DEFINE entry(i) == [id |-> i, ph |-> s.placeholders[i],
                        original |-> s.originals[s.placeholders[i]]]
<1>1. Book(s) = {entry(i) : i \in Mapped(s)}
  BY DEF Book, Serialize
<1>2. ASSUME NEW i \in Mapped(s)
      PROVE  entry(i) \in Mapping
  <2>1. i \in Identity /\ s.placeholders[i] \in Placeholder
    BY DEF Mapped, WellFormed, Session
  <2>2. s.originals[s.placeholders[i]] # None
    BY <2>1 DEF WellFormed, Bijective
  <2> QED
    BY <2>1, <2>2 DEF WellFormed, Session, Mapping
<1>3. ASSUME NEW m \in Book(s), NEW n \in Book(s), m.id = n.id \/ m.ph = n.ph
      PROVE  m = n
  <2>1. PICK i \in Mapped(s) : m = entry(i)
    BY <1>1
  <2>2. PICK j \in Mapped(s) : n = entry(j)
    BY <1>1
  <2>3. i = j
    BY <1>3, <2>1, <2>2 DEF WellFormed, Bijective
  <2> QED
    BY <2>1, <2>2, <2>3
<1> QED
  BY <1>1, <1>2, <1>3 DEF Register!Consistent

(* A loaded envelope's book is the envelope's.                             *)
LEMMA BookOfWire ==
  ASSUME NEW w \in Wire, IsFiniteSet(w.mappings), ValidWire(w)
  PROVE  Book(FromWire(w)) = w.mappings
<1> DEFINE s == FromWire(w)
           entry(i) == [id |-> i, ph |-> s.placeholders[i],
                        original |-> s.originals[s.placeholders[i]]]
<1>1. Book(s) = {entry(i) : i \in Mapped(s)}
  BY DEF Book, Serialize
<1>2. ASSUME NEW m \in w.mappings
      PROVE  m.id \in Mapped(s) /\ entry(m.id) = m
  <2>1. m \in Mapping
    BY DEF Wire
  <2>2. m = [id |-> m.id, ph |-> m.ph, original |-> m.original]
    BY <2>1 DEF Mapping
  <2> QED
    BY <2>2, FromWireMaps
<1>3. \A i \in Mapped(s) : \E m \in w.mappings : m.id = i
  BY FromWireMaps
<1> QED
  BY <1>1, <1>2, <1>3

(* An original the plan stores is in its redaction map, and a counter it   *)
(* moves ends at a placeholder it stores.                                  *)
RenderedByPlan(pl) ==
  /\ \A p \in Placeholder : pl.originals[p] # None => pl.map[p] # None
  /\ \A l \in Labels : pl.counters[l] # 0 =>
       pl.originals[[label |-> l, count |-> pl.counters[l]]] # None

(* What the session and its exports hold was issued, or will be when the   *)
(* plan is committed.                                                      *)
Traced ==
  /\ RenderedByPlan(plan)
  /\ OnlyIssuedIsKept
  /\ \A a \in archives : FromIssuedTexts(a.wire, a.issued)

(* An envelope's origin is that of the session it is loaded into.          *)
LEMMA LoadedIsTraced ==
  ASSUME NEW w \in Wire, IsFiniteSet(w.mappings), ValidWire(w), NEW history,
         FromIssuedTexts(w, history)
  PROVE  FromIssuedTexts(Serialize(FromWire(w)), history)
<1>1. Serialize(FromWire(w)).mappings = w.mappings
  BY BookOfWire DEF Book
<1>2. Serialize(FromWire(w)).counters = w.counters
  BY DEF Serialize, FromWire
<1> QED
  BY <1>1, <1>2 DEF FromIssuedTexts

(* A supplied envelope is its own origin.                                  *)
LEMMA ForeignIsTraced ==
  ASSUME NEW w \in ForeignWires, NEW history
  PROVE  FromIssuedTexts(w, history)
BY DEF FromIssuedTexts

(* A session without entries and counts has the origin of a new one.       *)
LEMMA EmptyIsTraced ==
  ASSUME NEW s, NEW history, Mapped(s) = {}, s.counters = [k \in Labels |-> 0]
  PROVE  FromIssuedTexts(Serialize(s), history)
<1> DEFINE new == Serialize(EmptySession(None))
<1>1. Serialize(s).mappings = {} /\ Serialize(s).counters = [k \in Labels |-> 0]
  BY DEF Serialize
<1>2. new.counters = [k \in Labels |-> 0]
  BY DEF Serialize, EmptySession
<1> HIDE DEF new
<1>3. \A m \in Serialize(s).mappings \ new.mappings :
        [ph |-> m.ph, reads |-> m.original] \in history
  BY <1>1
<1> QED
  BY <1>1, <1>2, <1>3 DEF FromIssuedTexts, new

LEMMA NoPlanIsRendered == RenderedByPlan(NoPlan)
BY DEF RenderedByPlan, NoPlan

(* A commit keeps every entry of the session.                              *)
LEMMA CommitKeepsBook ==
  ASSUME IndInv, Commit
  PROVE  Book(session) \subseteq Book(session')
<1>1. session' = Applied(session, plan)
  BY DEF Commit
<1>2. /\ plan \in Plan /\ WellFormed(session) /\ Fits(session, plan)
      /\ WellFormed(session')
  BY <1>1, AppliedWellFormed DEF IndInv, TypeOK
<1>3. /\ Mapped(session) \subseteq Mapped(session')
      /\ \A i \in Mapped(session) : session'.placeholders[i] = session.placeholders[i]
      /\ \A p \in Placeholder : session.originals[p] # None =>
            session'.originals[p] = session.originals[p]
  BY <1>1, <1>2, AppliedWellFormed
<1>4. ASSUME NEW i \in Mapped(session)
      PROVE  session'.originals[session'.placeholders[i]]
               = session.originals[session.placeholders[i]]
  <2>1. session.placeholders[i] \in Placeholder
    BY <1>2 DEF Mapped, WellFormed, Session
  <2>2. session.originals[session.placeholders[i]] # None
    BY <1>2, <2>1 DEF WellFormed, Bijective
  <2> QED
    BY <1>3, <2>1, <2>2
<1> QED
  BY <1>2, <1>3, <1>4, BookEntries

LEMMA CommitExtends ==
  ASSUME IndInv, IndInv', Commit
  PROVE  Register!Extend
<1>1. /\ session' = Applied(session, plan) /\ archives' = archives /\ plan.active
  BY DEF Commit
<1>2. /\ plan \in Plan /\ WellFormed(session) /\ Fits(session, plan)
      /\ ~session.deleted /\ WellFormed(session')
  BY <1>1 DEF IndInv, TypeOK
<1>3. session'.deleted = session.deleted
  BY <1>1, <1>2, AppliedWellFormed
<1>4. Book(session) \subseteq Book(session')
  BY CommitKeepsBook
<1>5. Book(session') \subseteq Mapping /\ Register!Consistent(Book(session'))
  BY <1>2, BookEntries
<1> QED
  BY <1>1, <1>2, <1>3, <1>4, <1>5 DEF Register!Extend, Register!Consistent, Book

(* What a commit adds is in the redaction map that is issued with it.      *)
LEMMA CommitIsTraced ==
  ASSUME IndInv, RenderedByPlan(plan), OnlyIssuedIsKept, Commit
  PROVE  FromIssuedTexts(Serialize(session'), issued')
<1>1. /\ session' = Applied(session, plan)
      /\ CanonicalMap(session', plan.map) \subseteq issued' /\ issued \subseteq issued'
  BY DEF Commit
<1>2. /\ plan \in Plan /\ WellFormed(session) /\ Fits(session, plan)
      /\ WellFormed(session') /\ session \in Session
  BY <1>1, AppliedWellFormed DEF IndInv, TypeOK
<1>3. /\ Mapped(session') = Mapped(session) \cup Planned(plan)
      /\ session'.counters = [k \in Labels |->
            IF plan.counters[k] # 0 THEN plan.counters[k] ELSE session.counters[k]]
      /\ session'.placeholders = [i \in Identity |->
            IF plan.fresh[i] # None THEN plan.fresh[i] ELSE session.placeholders[i]]
  <2>1. Mapped(session') = Mapped(session) \cup Planned(plan)
    BY <1>1, <1>2, AppliedWellFormed
  <2> QED
    BY <1>1, <1>2, <2>1 DEF Applied, Session
<1>4. Book(session) \subseteq Book(session')
  BY CommitKeepsBook
<1> DEFINE entry(i) == [id |-> i, ph |-> session'.placeholders[i],
                        original |-> session'.originals[session'.placeholders[i]]]
<1>5. /\ Book(session') = {entry(i) : i \in Mapped(session')}
      /\ Book(session) = {[id |-> i, ph |-> session.placeholders[i],
                          original |-> session.originals[session.placeholders[i]]] :
                          i \in Mapped(session)}
  BY <1>2, BookEntries
<1>6. ASSUME NEW i \in Planned(plan)
      PROVE  /\ entry(i) \in Book(session') /\ entry(i).ph = plan.fresh[i]
             /\ [ph |-> entry(i).ph, reads |-> entry(i).original] \in issued'
  <2>1. i \in Identity /\ plan.fresh[i] # None /\ plan.fresh[i] \in Placeholder
    BY <1>2 DEF Planned, Plan
  <2>2. session'.placeholders[i] = plan.fresh[i] /\ i \in Mapped(session')
    BY <1>3, <2>1
  <2>3. plan.map[plan.fresh[i]] # None
    BY <1>2, <2>1 DEF Fits, RenderedByPlan
  <2>4. session'.originals[plan.fresh[i]] # None
    BY <1>2, <2>1, <2>2 DEF WellFormed, Bijective
  <2>5. [ph |-> plan.fresh[i], reads |-> session'.originals[plan.fresh[i]]]
          \in CanonicalMap(session', plan.map)
    BY <2>1, <2>3, <2>4 DEF CanonicalMap
  <2> QED
    BY <1>1, <1>5, <2>2, <2>5
<1>7. PICK base \in ForeignWires \cup {Serialize(EmptySession(None))} :
        /\ \A m \in Book(session) \ base.mappings :
             [ph |-> m.ph, reads |-> m.original] \in issued
        /\ \A l \in Labels :
             \/ session.counters[l] = base.counters[l]
             \/ \E m \in Book(session) :
                  m.ph = [label |-> l, count |-> session.counters[l]]
  <2>1. Serialize(session).counters = session.counters
    BY DEF Serialize
  <2> QED
    BY <2>1 DEF OnlyIssuedIsKept, FromIssuedTexts, Book
<1>8. ASSUME NEW m \in Book(session') \ base.mappings
      PROVE  [ph |-> m.ph, reads |-> m.original] \in issued'
  <2>1. CASE m \in Book(session)
    BY <1>1, <1>7, <1>8, <2>1
  <2>2. CASE m \notin Book(session)
    <3>1. PICK i \in Mapped(session') : m = entry(i)
      BY <1>5
    <3>2. CASE i \in Planned(plan)
      BY <1>6, <3>1, <3>2
    <3>3. CASE i \notin Planned(plan)
      <4>1. i \in Mapped(session) /\ i \in Identity /\ plan.fresh[i] = None
        BY <1>3, <3>3 DEF Mapped, Planned
      <4> DEFINE n == [id |-> i, ph |-> session.placeholders[i],
                       original |-> session.originals[session.placeholders[i]]]
      <4>2. n \in Book(session) /\ n.id = i
        BY <1>5, <4>1
      <4>3. n = m
        BY <1>2, <1>4, <3>1, <4>2, BookEntries DEF Register!Consistent
      <4> QED
        BY <2>2, <4>2, <4>3
    <3> QED
      BY <3>2, <3>3
  <2> QED
    BY <2>1, <2>2
<1>9. ASSUME NEW l \in Labels
      PROVE  \/ session'.counters[l] = base.counters[l]
             \/ \E m \in Book(session') :
                  m.ph = [label |-> l, count |-> session'.counters[l]]
  <2>1. CASE plan.counters[l] = 0
    BY <1>3, <1>4, <1>7, <2>1
  <2>2. CASE plan.counters[l] # 0
    <3>1. session'.counters[l] = plan.counters[l] /\ plan.counters[l] \in 1..MaxCount
      BY <1>2, <1>3, <2>2 DEF Plan
    <3> DEFINE p == [label |-> l, count |-> plan.counters[l]]
    <3>2. p \in Placeholder /\ plan.originals[p] # None
      BY <2>2, <3>1 DEF Placeholder, RenderedByPlan
    <3>3. PICK i \in Planned(plan) : plan.fresh[i] = p
      BY <1>2, <3>2 DEF Fits
    <3>4. entry(i) \in Book(session') /\ entry(i).ph = p
      BY <1>6, <3>3
    <3> QED
      BY <3>1, <3>4
  <2> QED
    BY <2>1, <2>2
<1>10. Serialize(session').counters = session'.counters
  BY DEF Serialize
<1> QED
  BY <1>8, <1>9, <1>10 DEF FromIssuedTexts, Book

(* Planning a mention keeps the plan's storage and its map together.       *)
LEMMA PlanningIsRendered ==
  ASSUME IndInv, RenderedByPlan(plan), Redaction, ~Commit
  PROVE  RenderedByPlan(plan') /\ UNCHANGED <<session, issued, archives>>
<1>1. plan \in Plan
  BY DEF IndInv, TypeOK
<1>2. UNCHANGED <<session, issued, archives>>
  BY DEF Redaction, BeginRedaction, RefuseRedaction, RefuseReservedText,
     ReusePlaceholder, AllocatePlaceholder, RefuseMention, PassMention,
     ExhaustTransient, RefuseSize, RefuseRendered, NextMention, Fail
<1>3. ASSUME plan' = NoPlan
      PROVE  RenderedByPlan(plan')
  BY <1>3, NoPlanIsRendered
<1>4. ASSUME NEW t, BeginRedaction(t)
      PROVE  RenderedByPlan(plan')
  BY <1>4 DEF BeginRedaction, NoPlan, RenderedByPlan
<1>5. ASSUME NEW i \in Identity, NEW o \in Originals, ReusePlaceholder(i, o)
      PROVE  RenderedByPlan(plan')
  <2>1. /\ plan'.originals = plan.originals /\ plan'.counters = plan.counters
        /\ plan'.map = MapEntry(KnownPlaceholder(i), o)
    BY <1>1, <1>5 DEF ReusePlaceholder, Plan
  <2>2. o # None
    BY NoneAssumption
  <2>3. \A p \in Placeholder : plan.map[p] # None => plan'.map[p] # None
    BY <1>1, <2>1, <2>2 DEF MapEntry, Plan
  <2> QED
    BY <2>1, <2>3 DEF RenderedByPlan
<1>6. ASSUME NEW i \in Identity, NEW o \in Originals, AllocatePlaceholder(i, o)
      PROVE  RenderedByPlan(plan')
  <2>1. PICK n \in 1..MaxCount :
          plan' = [plan EXCEPT !.inputs = @ + 1,
                               !.counters[i.label] = n,
                               !.fresh[i] = [label |-> i.label, count |-> n],
                               !.originals[[label |-> i.label, count |-> n]] = o,
                               !.occupied = @ \cup {[label |-> i.label, count |-> n]},
                               !.map = MapEntry([label |-> i.label, count |-> n], o)]
    BY <1>6 DEF AllocatePlaceholder
  <2> DEFINE p == [label |-> i.label, count |-> n]
  <2>2. i.label \in Labels /\ p \in Placeholder /\ o # None
    BY NoneAssumption DEF Identity, Placeholder
  <2>3. /\ plan'.counters = [plan.counters EXCEPT ![i.label] = n]
        /\ plan'.originals = [plan.originals EXCEPT ![p] = o]
        /\ plan'.map = MapEntry(p, o)
    BY <1>1, <2>1 DEF Plan
  <2>4. plan'.map[p] # None /\ \A q \in Placeholder : plan.map[q] # None => plan'.map[q] # None
    BY <1>1, <2>2, <2>3 DEF MapEntry, Plan
  <2>5. \A q \in Placeholder : plan'.originals[q] # None => plan'.map[q] # None
    BY <1>1, <2>2, <2>3, <2>4 DEF RenderedByPlan, Plan
  <2>6. ASSUME NEW l \in Labels, plan'.counters[l] # 0
        PROVE  plan'.originals[[label |-> l, count |-> plan'.counters[l]]] # None
    <3>1. CASE l = i.label
      BY <1>1, <2>2, <2>3, <3>1 DEF Plan
    <3>2. CASE l # i.label
      <4>1. plan'.counters[l] = plan.counters[l] /\ plan.counters[l] \in 1..MaxCount
        BY <1>1, <2>2, <2>3, <2>6, <3>2 DEF Plan
      <4> DEFINE q == [label |-> l, count |-> plan.counters[l]]
      <4>2. q \in Placeholder /\ q # p /\ plan.originals[q] # None
        BY <3>2, <4>1 DEF Placeholder, RenderedByPlan
      <4>3. plan'.originals[q] = plan.originals[q]
        BY <1>1, <2>2, <2>3, <4>2 DEF Plan
      <4> QED
        BY <4>1, <4>2, <4>3
    <3> QED
      BY <3>1, <3>2
  <2> QED
    BY <2>5, <2>6 DEF RenderedByPlan
<1>7. ASSUME NEW i \in Identity, NEW spelled, PassMention(i, spelled)
      PROVE  RenderedByPlan(plan')
  <2>1. /\ plan'.originals = plan.originals /\ plan'.counters = plan.counters
        /\ plan'.map = plan.map
    BY <1>1, <1>7 DEF PassMention, Plan
  <2> QED
    BY <2>1 DEF RenderedByPlan
<1>8. \/ plan' = NoPlan
      \/ \E t \in Times \cup {None} : BeginRedaction(t)
      \/ \E i \in Identity, o \in Originals :
           ReusePlaceholder(i, o) \/ AllocatePlaceholder(i, o)
      \/ \E i \in Identity, spelled \in {{}} \cup {{p} : p \in Placeholder} :
           PassMention(i, spelled)
  BY DEF Redaction, RefuseRedaction, RefuseReservedText, RefuseMention,
     ExhaustTransient, RefuseSize, RefuseRendered, Fail
<1> QED
  BY <1>2, <1>3, <1>4, <1>5, <1>6, <1>7, <1>8

(* A session taken up from an envelope has the envelope's origin.          *)
LEMMA ImportIsTraced ==
  ASSUME IndInv, Traced, Import
  PROVE  OnlyIssuedIsKept' /\ UNCHANGED <<plan, archives>>
<1>1. UNCHANGED <<plan, archives>>
  BY DEF Import, ImportPlaintext, OpenArchive
<1>2. ASSUME UNCHANGED <<session, issued>>
      PROVE  OnlyIssuedIsKept'
  BY <1>2 DEF Traced, OnlyIssuedIsKept, FromIssuedTexts
<1>3. ASSUME NEW w \in Wire, IsFiniteSet(w.mappings), ValidWire(w), NEW history,
             FromIssuedTexts(w, history), session' = FromWire(w), issued' = history
      PROVE  OnlyIssuedIsKept'
  <2>1. FromIssuedTexts(Serialize(FromWire(w)), history)
    BY <1>3, LoadedIsTraced
  <2> QED
    BY <1>3, <2>1 DEF OnlyIssuedIsKept, FromIssuedTexts
<1>4. ASSUME NEW a \in archives
      PROVE  /\ a.wire \in Wire /\ IsFiniteSet(a.wire.mappings) /\ ValidWire(a.wire)
             /\ FromIssuedTexts(a.wire, a.issued)
  BY DEF IndInv, TypeOK, GoodArchive, Traced
<1>5. ASSUME NEW a \in archives, ImportPlaintext(a.wire, a.issued)
      PROVE  OnlyIssuedIsKept'
  <2>1. session' = FromWire(a.wire) /\ issued' = a.issued
    BY <1>4, <1>5 DEF ImportPlaintext
  <2> QED
    BY <1>3, <1>4, <2>1
<1>6. ASSUME NEW w \in ForeignWires, ImportPlaintext(w, {})
      PROVE  OnlyIssuedIsKept'
  <2>1. w \in Wire /\ IsFiniteSet(w.mappings)
    BY ConstantsAssumption
  <2>2. CASE ValidWire(w)
    <3>1. session' = FromWire(w) /\ issued' = {}
      BY <1>6, <2>2 DEF ImportPlaintext
    <3>2. FromIssuedTexts(w, {})
      BY ForeignIsTraced
    <3> QED
      BY <1>3, <2>1, <2>2, <3>1, <3>2
  <2>3. CASE ~ValidWire(w)
    BY <1>2, <1>6, <2>3 DEF ImportPlaintext
  <2> QED
    BY <2>2, <2>3
<1>7. ASSUME NEW a \in archives, NEW t, OpenArchive(a, t)
      PROVE  OnlyIssuedIsKept'
  <2>1. \/ UNCHANGED <<session, issued>>
        \/ session' = FromWire(a.wire) /\ issued' = a.issued
    BY <1>7 DEF OpenArchive
  <2> QED
    BY <1>2, <1>3, <1>4, <2>1
<1> QED
  BY <1>1, <1>5, <1>6, <1>7 DEF Import

LEMMA TracedStep == IndInv /\ Traced /\ [Next]_vars => Traced'
<1> SUFFICES ASSUME IndInv, Traced, [Next]_vars PROVE Traced'
  OBVIOUS
<1>1. ASSUME UNCHANGED <<session, plan, issued, archives>>
      PROVE  Traced'
  BY <1>1 DEF Traced, OnlyIssuedIsKept, RenderedByPlan, FromIssuedTexts
<1>2. ASSUME UNCHANGED <<session, issued, archives>>, RenderedByPlan(plan')
      PROVE  Traced'
  BY <1>2 DEF Traced, OnlyIssuedIsKept, RenderedByPlan, FromIssuedTexts
<1>3. ASSUME UNCHANGED archives, RenderedByPlan(plan'),
             FromIssuedTexts(Serialize(session'), issued')
      PROVE  Traced'
  BY <1>3 DEF Traced, OnlyIssuedIsKept, RenderedByPlan, FromIssuedTexts
<1>4. CASE UNCHANGED vars
  BY <1>1, <1>4 DEF vars
<1>5. CASE Redaction /\ ~Commit
  BY <1>2, <1>5, PlanningIsRendered DEF Traced
<1>6. CASE Commit
  <2>1. FromIssuedTexts(Serialize(session'), issued')
    BY <1>6, CommitIsTraced DEF Traced
  <2>2. plan' = NoPlan /\ UNCHANGED archives
    BY <1>6 DEF Commit
  <2> QED
    BY <1>3, <2>1, <2>2, NoPlanIsRendered
<1>7. CASE Import
  BY <1>7, ImportIsTraced DEF Traced, RenderedByPlan, FromIssuedTexts
<1>8. CASE Delete
  <2>1. UNCHANGED <<plan, issued, archives>>
    BY <1>8 DEF Delete
  <2>2. CASE session.deleted
    BY <1>1, <1>8, <2>1, <2>2 DEF Delete
  <2>3. CASE ~session.deleted
    <3>1. Mapped(session') = {} /\ session'.counters = [k \in Labels |-> 0]
      BY <1>8, <2>3 DEF Delete, EmptySession, Mapped
    <3>2. FromIssuedTexts(Serialize(session'), issued')
      BY <3>1, EmptyIsTraced
    <3> QED
      BY <1>3, <2>1, <3>2 DEF Traced
  <2> QED
    BY <2>2, <2>3
<1>9. ASSUME NEW t, Export(t)
      PROVE  Traced'
  <2>1. UNCHANGED <<session, plan, issued>>
    BY <1>9 DEF Export
  <2>2. ASSUME NEW a \in archives'
        PROVE  FromIssuedTexts(a.wire, a.issued)
    <3>1. CASE a \in archives
      BY <3>1 DEF Traced
    <3>2. CASE a \notin archives
      <4>1. a = [wire |-> Serialize(session), issued |-> issued]
        BY <1>9, <2>2, <3>2 DEF Export
      <4> QED
        BY <4>1 DEF Traced, OnlyIssuedIsKept
    <3> QED
      BY <3>1, <3>2
  <2> QED
    BY <2>1, <2>2 DEF Traced, OnlyIssuedIsKept, RenderedByPlan, FromIssuedTexts
<1>10. ASSUME NEW t, NEW placeholders, RestoreText(t, placeholders)
       PROVE  Traced'
  BY <1>1, <1>10 DEF RestoreText
<1> QED
  BY <1>4, <1>5, <1>6, <1>7, <1>8, <1>9, <1>10 DEF Next

LEMMA TracedInit == Init => Traced
<1> SUFFICES ASSUME Init PROVE Traced
  OBVIOUS
<1>1. PICK l \in Lifecycles \cup {None} : session = EmptySession(l)
  BY DEF Init
<1>2. Mapped(session) = {} /\ session.counters = [k \in Labels |-> 0]
  BY <1>1, EmptyWellFormed DEF EmptySession
<1>3. OnlyIssuedIsKept
  BY <1>2, EmptyIsTraced DEF OnlyIssuedIsKept
<1> QED
  BY <1>3, NoPlanIsRendered DEF Init, Traced

(* Of a document that failed nothing is ever kept or exported: every entry *)
(* and every number used up stands in an issued text or was supplied.      *)
THEOREM OnlyIssuedTextsAreKept == Spec => []OnlyIssuedIsKept
<1>1. Init => Traced
  BY TracedInit
<1>2. IndInv /\ Traced /\ [Next]_vars => Traced'
  BY TracedStep
<1>3. Traced => OnlyIssuedIsKept
  BY DEF Traced
<1> QED
  BY <1>1, <1>2, <1>3, InvariantHolds, PTL DEF Spec

LEMMA ExportSaves ==
  ASSUME IndInv, NEW t, Export(t)
  PROVE  [Register!Next]_(Register!registerVars)
<1>1. session' = session
  BY DEF Export
<1>2. CASE Status(session, t) = "active"
  <2>1. ~session.deleted
    BY <1>2 DEF Status
  <2>2. archives' = archives \cup {[wire |-> Serialize(session), issued |-> issued]}
    BY <1>2 DEF Export
  <2>3. {a.wire.mappings : a \in archives'}
          = {a.wire.mappings : a \in archives} \cup {Serialize(session).mappings}
    <3> DEFINE new == [wire |-> Serialize(session), issued |-> issued]
    <3>1. archives' = archives \cup {new} /\ new.wire.mappings = Serialize(session).mappings
      BY <2>2
    <3> HIDE DEF new
    <3> QED
      BY <3>1
  <2>4. Serialize(session').mappings = Serialize(session).mappings
        /\ session'.deleted = session.deleted
    BY <1>1
  <2>5. Register!Save
    BY <2>1, <2>3, <2>4 DEF Register!Save
  <2> QED
    BY <2>5 DEF Register!Next
<1>3. CASE Status(session, t) # "active"
  BY <1>1, <1>3 DEF Export, Register!registerVars
<1> QED
  BY <1>2, <1>3

(* The book taken up is a saved one or a supplied one.                     *)
LEMMA LoadTakesUp ==
  ASSUME NEW w \in Wire, IsFiniteSet(w.mappings), ValidWire(w),
         session' = FromWire(w), archives' = archives,
         \/ \E a \in archives : w = a.wire
         \/ w \in ForeignWires
  PROVE  Register!TakeUp
<1>1. Book(session') = w.mappings /\ session'.deleted = FALSE
  BY BookOfWire DEF FromWire
<1>2. Register!Consistent(Book(session'))
  BY BookEntries, FromWireWellFormed
<1>3. w.mappings \in {a.wire.mappings : a \in archives}
        \cup {v.mappings : v \in {u \in ForeignWires : ValidWire(u)}}
  OBVIOUS
<1> QED
  BY <1>1, <1>2, <1>3 DEF Register!TakeUp, Register!Consistent, Book

LEMMA ImportTakesUp ==
  ASSUME IndInv, Import
  PROVE  [Register!Next]_(Register!registerVars)
<1>1. archives' = archives
  BY DEF Import, ImportPlaintext, OpenArchive
<1>2. CASE session' = session
  BY <1>1, <1>2 DEF Register!registerVars
<1>3. CASE session' # session
  <2>1. PICK w \in Wire : /\ IsFiniteSet(w.mappings) /\ ValidWire(w)
                          /\ session' = FromWire(w)
                          /\ (\E a \in archives : w = a.wire) \/ w \in ForeignWires
    <3>1. \A a \in archives : a.wire \in Wire /\ GoodArchive(a)
      BY DEF IndInv, TypeOK
    <3>2. \A w \in ForeignWires : w \in Wire /\ IsFiniteSet(w.mappings)
      BY ConstantsAssumption
    <3>3. CASE \E a \in archives : ImportPlaintext(a.wire, a.issued)
      BY <1>3, <3>1, <3>3 DEF ImportPlaintext, GoodArchive
    <3>4. CASE \E w \in ForeignWires : ImportPlaintext(w, {})
      BY <1>3, <3>2, <3>4 DEF ImportPlaintext
    <3>5. CASE \E a \in archives, t \in Times \cup {None} : OpenArchive(a, t)
      BY <1>3, <3>1, <3>5 DEF OpenArchive, GoodArchive
    <3> QED
      BY <3>3, <3>4, <3>5 DEF Import
  <2> QED
    BY <1>1, <2>1, LoadTakesUp DEF Register!Next
<1> QED
  BY <1>2, <1>3

LEMMA RegisterStep ==
  IndInv /\ IndInv' /\ [Next]_vars => [Register!Next]_(Register!registerVars)
<1> SUFFICES ASSUME IndInv, IndInv', [Next]_vars
             PROVE  [Register!Next]_(Register!registerVars)
  OBVIOUS
<1>1. ASSUME UNCHANGED <<session, archives>>
      PROVE  [Register!Next]_(Register!registerVars)
  BY <1>1 DEF Register!registerVars
<1>2. CASE UNCHANGED vars
  BY <1>1, <1>2 DEF vars
<1>3. CASE Redaction
  <2>1. CASE Commit
    BY <2>1, CommitExtends DEF Register!Next
  <2>2. CASE ~Commit
    <3>1. UNCHANGED <<session, archives>>
      BY <1>3, <2>2 DEF Redaction, BeginRedaction, RefuseRedaction, RefuseReservedText,
         ReusePlaceholder, AllocatePlaceholder, RefuseMention, PassMention,
         ExhaustTransient, RefuseSize, RefuseRendered, NextMention, Fail
    <3> QED
      BY <1>1, <3>1
  <2> QED
    BY <2>1, <2>2
<1>4. CASE Delete
  <2>1. CASE session.deleted
    BY <1>1, <1>4, <2>1 DEF Delete
  <2>2. CASE ~session.deleted
    <3>1. session'.deleted = TRUE /\ Mapped(session') = {} /\ archives' = archives
      BY <1>4, <2>2 DEF Delete, EmptySession, Mapped
    <3>2. Serialize(session').mappings = {}
      BY <3>1 DEF Serialize
    <3> QED
      BY <2>2, <3>1, <3>2 DEF Register!Next, Register!Close
  <2> QED
    BY <2>1, <2>2
<1>5. ASSUME NEW t, NEW placeholders, RestoreText(t, placeholders)
      PROVE  UNCHANGED <<session, archives>>
  BY <1>5 DEF RestoreText
<1> QED
  BY <1>1, <1>2, <1>3, <1>4, <1>5, ExportSaves, ImportTakesUp DEF Next

LEMMA RegisterInit == Init => Register!Init
<1> SUFFICES ASSUME Init PROVE Register!Init
  OBVIOUS
<1>1. PICK l \in Lifecycles \cup {None} : session = EmptySession(l)
  BY DEF Init
<1>2. Mapped(session) = {} /\ session.deleted = FALSE
  BY <1>1, EmptyWellFormed DEF EmptySession
<1> QED
  BY <1>2 DEF Init, Register!Init, Serialize

(* With its plans, counters, lifecycles and failures, the session is a     *)
(* register whose book only ever grows by whole documents.                 *)
THEOREM SessionImplementsRegister == Spec => ImplementsRegister
<1>1. Init => Register!Init
  BY RegisterInit
<1>2. IndInv /\ IndInv' /\ [Next]_vars => [Register!Next]_(Register!registerVars)
  BY RegisterStep
<1> QED
  BY <1>1, <1>2, InvariantHolds, PTL DEF Spec, ImplementsRegister, Register!Spec

=============================================================================
