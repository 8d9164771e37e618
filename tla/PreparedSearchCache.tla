------------------------ MODULE PreparedSearchCache ------------------------
(***************************************************************************)
(* The prepared engines the Node binding keeps for the whole process, for  *)
(* all its worker threads: a map from digests to engines and the order of  *)
(* their last use, behind one mutex that is free while an engine is built. *)
(* An engine is known by the payload it was built from.  A package is its  *)
(* digest, as its header states it, and its payload; it is intact when the *)
(* payload has that digest.                                                *)
(***************************************************************************)
EXTENDS Integers, Sequences, FiniteSets, SequencesExt

CONSTANTS
  Digests,      \* of payloads; payload d is the one with digest d
  Rotten,       \* a payload no header states the digest of
  Threads,
  Limit,        \* PREPARED_SEARCH_CACHE_LIMIT
  Idle          \* a thread outside any call

VARIABLES
  entries,      \* digest -> engine
  order,        \* digests, the one used longest ago first
  calls,        \* what each thread is doing
  returned,     \* the engine a thread's last call returned, and for what
  uses          \* every digest used so far, in the order of its last use

vars == <<entries, order, calls, returned, uses>>

Package == [digest : Digests, payload : Digests \cup {Rotten}]

Intact(package) == package.digest = package.payload

Nothing == [package |-> Idle, engine |-> Idle]

Without(s, digest) == SelectSeq(s, LAMBDA d : d # digest)
Touched(s, digest) == Append(Without(s, digest), digest)

-----------------------------------------------------------------------------
(* Slip: a hit leaves the order alone.                                     *)
GetUntouched(digest) == UNCHANGED <<entries, order>>

(* PreparedSearchCache::get with an entry                                  *)
Get(digest) ==
  /\ order' = Touched(order, digest)
  /\ UNCHANGED entries

(* Slip: a digest that another thread inserted meanwhile is queued again.  *)
InsertTwice(digest, engine) ==
  LET next == Append(order, digest)
      evicted == SubSeq(next, 1, Len(next) - Limit)
      kept == (DOMAIN entries \cup {digest}) \ ToSet(evicted) IN
  /\ order' = SubSeq(next, Len(evicted) + 1, Len(next))
  /\ entries' = [d \in kept |-> IF d = digest THEN engine ELSE entries[d]]

(* PreparedSearchCache::insert                                             *)
Insert(digest, engine) ==
  LET next == Touched(order, digest)
      evicted == SubSeq(next, 1, Len(next) - Limit)
      kept == (DOMAIN entries \cup {digest}) \ ToSet(evicted) IN
  /\ order' = SubSeq(next, Len(evicted) + 1, Len(next))
  /\ entries' = [d \in kept |-> IF d = digest THEN engine ELSE entries[d]]

Return(t, package, engine) ==
  returned' = [returned EXCEPT ![t] = [package |-> package, engine |-> engine]]

(* Slip: a hit makes verification unnecessary.                             *)
HitUnverified(t, package, trusted) ==
  /\ calls[t] = Idle /\ package.digest \in DOMAIN entries
  /\ Get(package.digest)
  /\ uses' = Touched(uses, package.digest)
  /\ Return(t, package, entries[package.digest])
  /\ UNCHANGED calls

(* from_package_bytes with a hit: the header's digest finds the engine,    *)
(* and the payload at hand is verified all the same unless it is trusted.  *)
Hit(t, package, trusted) ==
  /\ calls[t] = Idle /\ package.digest \in DOMAIN entries
  /\ Get(package.digest)
  /\ uses' = Touched(uses, package.digest)
  /\ IF trusted \/ Intact(package)
     THEN Return(t, package, entries[package.digest])
     ELSE returned' = [returned EXCEPT ![t] = Nothing]
  /\ UNCHANGED calls

(* from_package_bytes with a miss, or a call that bypasses the cache       *)
Miss(t, package, trusted, reuse) ==
  /\ calls[t] = Idle /\ (reuse => package.digest \notin DOMAIN entries)
  /\ calls' = [calls EXCEPT ![t] = [package |-> package, trusted |-> trusted,
                                    reuse |-> reuse]]
  /\ returned' = [returned EXCEPT ![t] = Nothing]
  /\ UNCHANGED <<entries, order, uses>>

(* from_core_config_with_artifacts: decode, build, insert                  *)
Built(t) ==
  /\ calls[t] # Idle
  /\ calls[t].trusted \/ Intact(calls[t].package)
  /\ LET digest == calls[t].package.digest
         engine == calls[t].package.payload IN
     /\ Return(t, calls[t].package, engine)
     /\ IF calls[t].reuse
        THEN Insert(digest, engine) /\ uses' = Touched(uses, digest)
        ELSE UNCHANGED <<entries, order, uses>>
  /\ calls' = [calls EXCEPT ![t] = Idle]

(* A package that does not verify, decode or build                         *)
BuildFails(t) ==
  /\ calls[t] # Idle
  /\ calls' = [calls EXCEPT ![t] = Idle]
  /\ UNCHANGED <<entries, order, returned, uses>>

Init ==
  /\ entries = [d \in {} |-> d] /\ order = <<>> /\ uses = <<>>
  /\ calls = [t \in Threads |-> Idle]
  /\ returned = [t \in Threads |-> Nothing]

(* Only packages the caller vouches for are loaded as trusted.             *)
Next == \E t \in Threads :
  \/ \E package \in Package, trusted \in BOOLEAN, reuse \in BOOLEAN :
       /\ trusted => Intact(package)
       /\ (reuse /\ Hit(t, package, trusted)) \/ Miss(t, package, trusted, reuse)
  \/ Built(t) \/ BuildFails(t)

Spec == Init /\ [][Next]_vars

-----------------------------------------------------------------------------
(* Properties                                                              *)

(* The order lists every entry once and no more than the limit, whatever   *)
(* threads built the same engine at the same time.                         *)
OrderListsEntries ==
  /\ ToSet(order) = DOMAIN entries
  /\ Len(order) = Cardinality(DOMAIN entries) /\ Len(order) <= Limit

(* A damaged package yields no engine, least of all the one its header     *)
(* names, and an intact one yields its own engine, cached or not.          *)
EnginesMatchTheirPackage ==
  \A t \in Threads : returned[t] # Nothing =>
    Intact(returned[t].package) /\ returned[t].engine = returned[t].package.payload

(* What was used last stays: exactly the digests used most recently, by    *)
(* whichever thread and whether found or built, are in the cache.          *)
RecentlyUsedStay ==
  DOMAIN entries = ToSet(SubSeq(uses, IF Len(uses) <= Limit THEN 1
                                      ELSE Len(uses) - Limit + 1, Len(uses)))

(* All of it, whatever threads find, build, insert and evict in between.   *)
CacheIsSound == OrderListsEntries /\ RecentlyUsedStay /\ EnginesMatchTheirPackage
=============================================================================
