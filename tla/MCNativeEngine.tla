-------------------------- MODULE MCNativeEngine --------------------------
(* The parts of the engine and its bindings, which share no variable: the  *)
(* plans of a session, the size of a session, the cache of prepared        *)
(* engines, the packages shared by its callers, the scopes that prepare    *)
(* and search, the steps of a redaction call, the resolution of entities.  *)
(* Each is explored while the others are untouched.                        *)
EXTENDS SessionPlan, TLC

CONSTANTS x, y, z, Digests, Rotten, Threads, Limit, Idle
CONSTANTS PostalLengths, PeriodSuffixes, AddressAbbreviations, Corpora
CONSTANTS Keys, KeyLength, Bodies, Skips, MaxMentions, Radix, EmptyLength, MaxLength
CONSTANTS Trees, Whole, Pending
CONSTANTS ActiveSets, PrepareEvents, NoCall
CONSTANTS Callers, PackageKeys, Promises, MaxEntries, None
CONSTANT Parts    \* the parts a run explores

VARIABLE part     \* the one that is explored
VARIABLES entries, order, calls, returned, uses
VARIABLES corpus, text, detections, phase, merged, bounded, resolved
VARIABLES counters, mappings, kept, deleted
VARIABLES tree, plan, spawned, joined, outcome
VARIABLES call, active, step, passes, events, cursor, delivered, shown, session
VARIABLES slot, shared, waits, got

Cache == INSTANCE PreparedSearchCache
Resolution == INSTANCE EntityResolution
Size == INSTANCE SessionSize
Scoped == INSTANCE ScopedBranches
Pipeline == INSTANCE RedactionPipeline
Shared == INSTANCE SharedPackages

cacheVars == <<entries, order, calls, returned, uses>>
resolutionVars == <<corpus, text, detections, phase, merged, bounded, resolved>>
sizeVars == <<counters, mappings, kept, deleted>>
scopedVars == <<tree, plan, spawned, joined, outcome>>
pipelineVars == <<call, active, step, passes, events, cursor, delivered, shown, session>>
sharedVars == <<slot, shared, waits, got>>
engineVars ==
  <<part, vars, cacheVars, resolutionVars, sizeVars, scopedVars, pipelineVars, sharedVars>>

(* Documents mention one entity or two; a longer text comes with a longer  *)
(* request.                                                                *)
MCInputs ==
  {[mentions |-> m, detections |-> Len(m), text |-> Len(m), json |-> 1 + Len(m)] :
     m \in {<<x>>, <<y>>, <<x, z>>}}

MCBatches == {<<i>> : i \in MCInputs} \cup {<<i, j>> : i \in MCInputs, j \in MCInputs}

(* The documents and detections of the resolution.                         *)
Kind(label, source, detail, score) ==
  [label |-> label, source |-> source, detail |-> detail, score |-> score]

MCPostalLengths == {2}
MCPeriodSuffixes == {<<"a", ".">>}
MCAddressAbbreviations == {<<"u", ".">>}

Words ==
  [texts |-> [1..3 -> {"a", "u", "~", "'", ".", " "}] \cup [1..4 -> {"a", "~", "'", "."}],
   kinds |-> {Kind("organization", "Ner", "none", 1)},
   detections |-> 1, overlapping |-> FALSE]

Rivals ==
  [texts |-> {<<"7", "7", "a">>},
   kinds |-> {Kind("person", "Regex", "none", 1), Kind("person", "DenyList", "CustomDenyList", 1),
              Kind("address", "DenyList", "none", 2),
              Kind("country", "Gazetteer", "none", 2)},
   detections |-> 3, overlapping |-> TRUE]

Shapes ==
  [texts |-> {<<"7", ",", "7">>},
   kinds |-> {Kind("date", "Trigger", "none", 1), Kind("date", "Regex", "none", 1),
              Kind("organization", "LegalForm", "none", 1),
              Kind("organization", "Gazetteer", "none", 1)},
   detections |-> 3, overlapping |-> TRUE]

Neighbours ==
  [texts |-> {<<"a", "a", " ", "a">>, <<"a", "a", ",", "#">>, <<"a", "'", "#", ",">>},
   kinds |-> {Kind("person", "Regex", "none", 1), Kind("organization", "LegalForm", "none", 2),
              Kind("address", "Regex", "none", 1), Kind("person", "Caller", "none", 1)},
   detections |-> 3, overlapping |-> FALSE]

(* A detected and an owned name in one word or two.                        *)
OwnedNames ==
  [texts |-> {<<"a", "a", "a">>, <<"a", "a", " ", "a">>, <<"a", " ", "a", "a">>},
   kinds |-> {Kind("person", "Ner", "none", 1), Kind("person", "Caller", "none", 1),
              Kind("address", "Ner", "none", 1)},
   detections |-> 2, overlapping |-> TRUE]

MCCorpora == [words |-> Words, rivals |-> Rivals, shapes |-> Shapes,
              neighbours |-> Neighbours]
OwnedCorpora == [names |-> OwnedNames]

(* The preparation of an engine, whose indexes fan out again, and the      *)
(* search of a long text whose other indexes are empty.                    *)
MCTrees ==
  {[engine |-> <<"anchored", "indexes", "support">>, anchored |-> <<>>,
    indexes |-> <<"regex", "literals">>, support |-> <<>>,
    regex |-> <<>>, literals |-> <<>>],
   [engine |-> <<"regex", "triggers", "literals">>, regex |-> <<>>,
    triggers |-> <<>>, literals |-> <<>>]}

MCActiveSets ==
  {{"Regex", "StructuredDocumentData"}, {"DenyList", "NameCorpus", "AddressSeed"}}

MCPrepareEvents == <<"PrepareTotal">>

-----------------------------------------------------------------------------
(* A document whose detections are resolved, a deleted session, a scope    *)
(* that is left and a call that has ended.                                 *)
Done ==
  /\ \/ phase = "resolved"
     \/ deleted
     \/ tree # <<>> /\ outcome[Whole] # Pending
     \/ step \in {"done", "failed"}
  /\ UNCHANGED engineVars

MCInit ==
  /\ part \in Parts
  /\ Init /\ Cache!Init /\ Resolution!Init /\ Size!Init
  /\ Scoped!Init /\ Pipeline!Init /\ Shared!Init

Only(p) ==
  /\ part = p /\ UNCHANGED part
  /\ p # "plans" => UNCHANGED vars
  /\ p # "cache" => UNCHANGED cacheVars
  /\ p # "resolution" => UNCHANGED resolutionVars
  /\ p # "size" => UNCHANGED sizeVars
  /\ p # "scopes" => UNCHANGED scopedVars
  /\ p # "pipeline" => UNCHANGED pipelineVars
  /\ p # "packages" => UNCHANGED sharedVars

MCNext ==
  \/ Only("plans") /\ Next
  \/ Only("cache") /\ Cache!Next
  \/ Only("resolution") /\ Resolution!Next
  \/ Only("size") /\ Size!Next
  \/ Only("scopes") /\ Scoped!Next
  \/ Only("pipeline") /\ Pipeline!Next
  \/ Only("packages") /\ Shared!Next
  \/ Done

MCSpec == MCInit /\ [][MCNext]_engineVars

Symmetry == Permutations(Threads) \cup Permutations(Digests)

(* The properties of the parts, stated where they are defined.             *)
CachesAreSound == Cache!CacheIsSound /\ Shared!PackagesAreShared
CallsAreConsistent == Scoped!BranchesAreConfined /\ Pipeline!CallsAreConsistent
MergingIsSound == Resolution!MergingIsSound
BoundariesAreConsistent == Resolution!BoundariesAreConsistent
FoundLettersStayHidden == Resolution!FoundLettersStayHidden
OwnedLettersAreRedacted == Resolution!OwnedLettersAreRedacted
SizeIsKnown == Size!SizeIsKnown
=============================================================================
