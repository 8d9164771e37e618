--------------------------- MODULE SharedPackages ---------------------------
(* The assembled packages the TypeScript library shares between callers:   *)
(* one slot in the caller's context, and behind it a bounded map in order  *)
(* of last use whose values are packages or promises of one                *)
(* (native-pipeline.ts).  A call runs up to its await in one turn of the   *)
(* event loop and resumes in a later one, in any order with the others; a  *)
(* promise is settled when it is made, because assembling is synchronous.  *)
(* The package of a configuration is named by the configuration's key.     *)
EXTENDS Naturals, Sequences, FiniteSets, SequencesExt

CONSTANTS Callers, PackageKeys,
          Promises,     \* identities of promises: enough of them that one is always free
          MaxEntries,   \* SHARED_PACKAGE_CACHE_MAX_ENTRIES
          None          \* null, and the result of a promise that was rejected

VARIABLES slot,         \* the context: [key, package, promise]; a promise is [id, key, package]
          shared,       \* the map, oldest first: [key, package, promise]
          waits,        \* what a caller awaits: [key, package, promise, role]
          got           \* what the call that ended last returned: [key, package]

vars == <<slot, shared, waits, got>>

Entry(k, package, promise) == [key |-> k, package |-> package, promise |-> promise]
Busy(c) == waits[c] # None

Init ==
  /\ slot = Entry(None, None, None) /\ shared = <<>>
  /\ waits = [c \in Callers |-> None] /\ got = None

(* An entry moves to the end; at capacity the oldest one is dropped first. *)
Touch(cache, e) ==
  LET others == SelectSeq(cache, LAMBDA o : o.key # e.key)
      room == IF Len(others) >= MaxEntries THEN Tail(others) ELSE others
  IN Append(room, e)

Places(k) == {i \in 1..Len(shared) : shared[i].key = k}
InSlot(k) == slot.key = k /\ (slot.package # None \/ slot.promise # None)
Await(c, e, role) ==
  waits' = [waits EXCEPT ![c] =
    [key |-> e.key, package |-> e.package, promise |-> e.promise, role |-> role]]

(* The context has the package, or a promise of it.                        *)
TakeSlot(c, k) ==
  /\ ~Busy(c) /\ InSlot(k)
  /\ IF slot.package # None
     THEN /\ got' = [key |-> k, package |-> slot.package]
          /\ UNCHANGED waits
     ELSE Await(c, slot, "slot") /\ UNCHANGED got
  /\ UNCHANGED <<slot, shared>>

(* The shared map has it: it is used again now, the context after the wait.*)
TakeShared(c, k) ==
  /\ ~Busy(c) /\ ~InSlot(k)
  /\ \E i \in Places(k) :
       /\ shared' = Touch(shared, shared[i])
       /\ Await(c, shared[i], "shared")
  /\ UNCHANGED <<slot, got>>

Held(ps) == {p.id : p \in ps \ {None}}

(* Identities no one can compare with any more.                            *)
Free ==
  Promises \ Held({slot.promise} \cup {shared[i].promise : i \in 1..Len(shared)}
                  \cup {waits[c].promise : c \in {d \in Callers : Busy(d)}})

(* Neither has it: the package is assembled, or the assembly throws, and   *)
(* both hold the promise from now on.                                      *)
Assemble(c, k, package) ==
  /\ ~Busy(c) /\ ~InSlot(k) /\ Places(k) = {}
  /\ LET e == Entry(k, None, [id |-> CHOOSE p \in Free : TRUE, key |-> k, package |-> package])
     IN /\ slot' = e
        /\ shared' = Touch(shared, e)
        /\ Await(c, e, "build")
  /\ UNCHANGED got

Settled(w) == IF w.promise = None THEN w.package ELSE w.promise.package

(* The caller that waited for another one's package keeps it in the        *)
(* context, whatever the context holds by now.                             *)
AfterShared(w) ==
  IF Settled(w) = None THEN UNCHANGED <<slot, shared>>
  ELSE slot' = Entry(w.key, Settled(w), None) /\ UNCHANGED shared

Forget(w) == SelectSeq(shared, LAMBDA e : e.promise # w.promise)

(* Slip: a rejected promise is left where it is.                           *)
FailureKept(w) == UNCHANGED <<slot, shared>>

(* A failed assembly is forgotten where it is still the one that counts.   *)
AfterFailure(w) ==
  /\ shared' = Forget(w)
  /\ slot' = IF slot.key = w.key /\ slot.promise = w.promise
             THEN Entry(slot.key, None, None) ELSE slot

Replaced(w) ==
  [i \in 1..Len(shared) |->
     IF shared[i].promise = w.promise THEN Entry(w.key, Settled(w), None) ELSE shared[i]]

(* Slip: the context takes the package whatever key it stands for by now.  *)
AfterBuildUnguarded(w) ==
  /\ shared' = Replaced(w)
  /\ slot' = [slot EXCEPT !.package = Settled(w), !.promise = None]

(* The promise gives way to the package, in the context only if that still *)
(* stands for the same key.                                                *)
AfterBuild(w) ==
  /\ shared' = Replaced(w)
  /\ slot' = IF slot.key = w.key THEN Entry(w.key, Settled(w), None) ELSE slot

Resume(c) ==
  /\ Busy(c)
  /\ LET w == waits[c]
     IN /\ CASE w.role = "slot" -> UNCHANGED <<slot, shared>>
             [] w.role = "shared" -> AfterShared(w)
             [] w.role = "build" -> IF Settled(w) = None THEN AfterFailure(w) ELSE AfterBuild(w)
        /\ got' = IF Settled(w) = None THEN None ELSE [key |-> w.key, package |-> Settled(w)]
  /\ waits' = [waits EXCEPT ![c] = None]

Next ==
  \E c \in Callers :
    \/ \E k \in PackageKeys :
         TakeSlot(c, k) \/ TakeShared(c, k) \/ Assemble(c, k, k) \/ Assemble(c, k, None)
    \/ Resume(c)

-----------------------------------------------------------------------------
Entries == {slot} \cup ToSet(shared)

(* The context and the map never hold the package of one configuration     *)
(* under the key of another, and no caller is given one.                   *)
PackagesMatchTheirKey ==
  /\ \A e \in Entries :
       /\ e.package # None => e.package = e.key
       /\ e.promise # None => e.promise.key = e.key
  /\ got # None => got.package = got.key

(* A promise is held only until the call that made it resumes: a failure   *)
(* is never served to a later caller, and the map stays in its bound with  *)
(* one entry for a key.                                                    *)
PromisesGiveWay ==
  /\ \A e \in Entries : e.promise # None =>
       \E c \in Callers : Busy(c) /\ waits[c].role = "build" /\ waits[c].promise = e.promise
  /\ Len(shared) <= MaxEntries
  /\ Cardinality({e.key : e \in ToSet(shared)}) = Len(shared)

PackagesAreShared == PackagesMatchTheirKey /\ PromisesGiveWay
=============================================================================
