# A verification of anonymize

TLA+ models of this repository: the cross-document redaction session of the
Rust core and everything that keeps, shares, plans, seals or persists one; the
incremental analysis of documents; the steps of a redaction call, from scoped
threads over searches, triggers, zones and hotwords, the confidence filter and the
resolution of entities to rendering, DOCX blocks and PDF pages; the caches between
host and engine; the command line's document commands and the life of the MCP
server. TLC checks them on small instances. For the parts that keep state over
time (the session, the store, the service, the server, the incremental analysis,
the plans of the bindings, the files of the command line) TLAPS proves the safety
properties and the refinements for every value of the constants.

Paths below are relative to `src/`. `PROJECT.json` maps every definition to the
lines it was translated from.

## 1. Inventory

anonymize finds personal data in text and documents and replaces it by
placeholders such as `[PERSON_1]`. A *session* keeps the table of replacements,
so that an entity has the same placeholder in every document and a model's answer
can be restored. The engine is Rust; Node, Python and WebAssembly bindings, a
TypeScript package, a CLI and an MCP server stand on it.

| component | state | operations | hard behaviour | what makes it correct | module |
|---|---|---|---|---|---|
| **Redaction session**: `crates/anonymize-core/src/{session,redact,session_archive}.rs` | two maps (identity to placeholder, placeholder to original), a counter per label, a lifecycle, the kept length | plan and commit a redaction, restore a text, export, seal, reload, delete | failure in the middle of a document, exhausted counters, full table, reloads that must accept what was exported, texts that spell placeholders | pseudonyms are a bijection for ever; issued texts restore; a failed redaction changes nothing | `RedactionSession`, `PseudonymRegister`, `SessionSize` |
| **Durable session store**: `packages/mcp/src/durable-sessions.ts` | a directory of archives, an advisory lock, a promise chain of requests, an inventory | start, load, save, delete, close | kill and power loss between any two file operations, failing file operations, two processes on a directory, shutdown with a queue | acknowledged archives survive whole; limits hold; one process works at a time; close ends | `DurableSessionStore`, `ArchiveShelf` |
| **Session service**: `packages/mcp/src/local.ts` | session entries with a status, ids being initialized, a count of active operations | anonymize, restore, roll back, close | interleaving of calls at every await, a rollback that overlaps the next call, failures of load, save, rollback and publication, restarts | published outputs stay restorable; memory agrees with the store; failed calls leave nothing; no id stays busy; close ends | `LocalAnonymizeService` |
| **Output files and the server process**: `packages/mcp/src/{local,server}.ts` | staging files, a chain of PDF operations, a shutdown in progress | `safeWrite`, PDF calls, connect, close | a step fails after the output was linked; signals while connecting; two PDF calls | outputs are whole or gone; shutdown waits for the calls and ends | `ServerProcess` |
| **Session plans of the bindings**: `crates/anonymize-binding-core/src/lib.rs` | a snapshot and a target session | prepare, commit | the target changes between the two; running sums at their limits | a plan is committed to the session it was made from | `SessionPlan`, `SessionBatches`, `SerialSession` |
| **Prepared search cache**: `crates/anonymize-napi/src/lib.rs` | an LRU of prepared engines behind a mutex | get, insert | two threads miss together; damaged packages | the map and the order agree; an engine is the one its package describes | `PreparedSearchCache` |
| **Shared packages**: `packages/anonymize/src/native-pipeline.ts` | a slot per context, a bounded map of packages and promises | assemble, await, evict | callers change the slot while another awaits; failed assemblies | a package is found under its own key; failures are forgotten | `SharedPackages` |
| **Incremental document analysis**: `crates/document-rules-core/src` | blocks, database slots, records, cached findings, dirty positions, a revision | apply patch, analyze | invalidation radius, structural edits, rebuild when too many slots are retired | the findings equal a batch analysis of the current document | `StructuredDocument`, `IncrementalDocument`, `DocumentAnalysis` |
| **Prepared engine phases**: `crates/anonymize-core/src/{exec,prepared}.rs`, `prepared/` | branches of a scope, layers of detections, a cursor over diagnostics | prepare, search, detect, resolve, redact | threads that end in any order and panic; failure at any step; observing hosts | the result is the sequential one; failed calls commit nothing; a host sees every event once | `ScopedBranches`, `RedactionPipeline`, `ConfidenceFilter` |
| **Detectors**: `crates/anonymize-core/src/{triggers,hotwords,zones,search,anchored,coreference}.rs` | none (pure), a search compiled and packaged | search, anchor, take a value, propagate, boost | windows in bytes over distances in units, caps inside words, shared patterns, aliases | windows and caps cut no word; a shared or packaged search finds what each would find alone; mentions belong to what they name | `SearchIndex`, `AnchoredSearch`, `TriggerValues`, `HotwordRules`, `DocumentZones`, `Coreference` |
| **External detections and offsets**: `crates/anonymize-core/src/{external_detection,caller}.rs` | none (pure) | accept a batch, convert it, take it back | three units of offsets, ends inside a character | a batch is refused as a whole or means the same text in every unit | `ExternalDetections` |
| **Entity resolution**: `crates/anonymize-core/src/resolution/` | a frontier of merged spans | merge, drop labels, repair boundaries, sanitize | rules that undo each other, offsets that go stale | merging is the pairwise one and settles; spans cut no word and do not cross; found letters stay hidden | `EntityMerge`, `EntityResolution` |
| **Numbering and rendering without a session**: `crates/anonymize-core/src/{placeholders,redact}.rs` | none (pure) | number, render, deanonymise | texts that spell placeholders; masks inside hidden spans | restoring a rendered text gives the original | `Rendering` |
| **DOCX core**: `crates/anonymize-docx-core/src/lib.rs` | the text nodes of a block | rewrite, restore | replacements across nodes that share them | the block reads as asked; restored or refused | `DocxRewriting` |
| **PDF core**: `crates/anonymize-pdf-core/src/raster.rs` | a cursor over glyphs, filled pixels | redact a page | ligatures shared by detections, rounding, flipped axes | every detected glyph is covered, or the page refused | `PdfRedaction` |
| **CLI, DOCX**: `packages/cli/src/docx.ts` | an archive, its lock file, staging files | create, continue, restore | kills between two publications; stale locks; concurrent commands | outputs restore; nothing is replaced; locks are released | `ArchiveWorkflow` |
| **CLI, PDF**: `packages/cli/src/pdf.ts`, `packages/document-pdf/src/local-provider.ts` | a source copy, page rasters, a staged result | rewrite a document page by page | failures and kills between two pages, an input that changes | nothing of the source is left behind; the output is whole or absent | `PdfCommand` |
| **CLI, text and key**: `packages/cli/src/{main,private-file}.ts` | the key's file, the output | redact with `--key` | a crash between key and text, files put in the place of the key | a text never stands without its key; a key is whole or closed | `KeyedOutput` |
| **Dictionary and pattern detectors, configuration adapter, thin bindings, benchmarks** | none, or generated data | | depend on characters and word lists | left to the repository's property and snapshot tests | |

How they interact. The **service** holds `RedactionSession` values of the core
(through the Node binding) in its entries; it seals them with
`toEncryptedArchive` and hands the archive to the **store**, and reads it back
with `fromEncryptedArchive`. Store requests are promises that settle in the order
of submission. The **server** forwards tool calls to the service without waiting
for one another and closes it at shutdown; the service closes the store last. Two
server processes meet only at the directory's lock. A call of the engine takes an
engine from the prepared cache (found by the package's digest, the package itself
from the shared packages), searches and detects over scoped branches, filters by
label and confidence, resolves, and renders with or without a session; the DOCX
and PDF tools and the CLI stand on the same call.

## 2. Plan

Done: everything in the table above that names a module, in the order of
sections 3 to 9, and the proofs of section 10. Left, in this order:

1. the caches: `PackagesMatchTheirKey` and `EnginesMatchTheirPackage`, whose
   invariants are close to inductive;
2. `SchedulesAgree` of `ScopedBranches`, and `CallsAreConsistent`'s part of
   `RedactionPipeline`.

The modules to be proved about declare no RECURSIVE operator.

## 3. The redaction session

`RedactionSession.tla` models one `RedactionSession` value from its creation
through redactions, deletions, exports and reloads.

| model | code |
|---|---|
| `session` | the struct: `deleted`, `lifecycle`, `counters`, `placeholders`, `originals` |
| `plan` | `SessionPlaceholderPlan` and the rendering: planned counters and mappings, `transient` identities (allowed through without a session entry), the document's `occupied` placeholders, the redaction map, placeholders the rendered text spells by accident (`forged`) |
| `issued` | what the texts that were handed out promise: placeholder and original |
| `archives` | envelopes that were exported, each with the promises behind it |
| `outcome` | the result of the last call, the error kinds of the code |
| `BeginRedaction`, `RefuseRedaction`, `RefuseReservedText` | the checks of `ensure_active` and of reserved placeholders in the text |
| `NextMention` | the loop of `plan_placeholder_map`: `ReusePlaceholder`, `AllocatePlaceholder`, `PassMention` or one of the refusals |
| `Commit`, `RefuseRendered`, `RefuseSize` | `commit_session_update`: rendered placeholders are validated, the size is projected, the update is applied |
| `Delete`, `RestoreText`, `Export` | the operations of those names |
| `ImportPlaintext`, `OpenArchive` | `from_plaintext_json` with all its checks, on exported and on foreign envelopes |

A redaction borrows the session mutably, so nothing runs between its steps. They
are still separate actions: every one of them can fail, and the code promises
that failing leaves the session as it was. Texts are abstracted to what the
session looks at: which identities are mentioned, with which surface form, which
placeholders stand in the text. The cipher of an archive and the byte limits are
may-fail choices. A label key that spells the placeholder syntax of another label
is kept as the constant `LookAlike`, because the code has checks for it.

`PseudonymRegister` is what a session promises: a book of entries in which an
identity and a placeholder determine each other, which only grows until it is
closed, and which can be saved and taken up again. `ImplementsRegister` says that the
session, seen through its mappings, is such a register.

### Run `session_and_text`

Two labels of which one imitates the other, two texts, three surface forms of
which one contains a placeholder, counters up to 3, a table of 2 mappings,
documents of at most 2 mentions, a lifecycle of one time unit, one kept export
and five foreign envelopes (one well-formed with a counter running ahead, four
with one inconsistency each). The rest of the run is section 7's *Texts*: parts that
share no variable with the session and are explored while it is untouched. With 3 counter values and 2
mappings both limits are reached, in either order and across a reload; two
mentions suffice for a document to reuse what it planned itself and to fail after
it planned something; one kept export suffices to reload a session behind the
texts it issued later.

* `OnePseudonymPerIdentity`: the two maps are inverse to each other.
* `CountersCoverAllocations`: no counter is behind an allocated placeholder.
* `IssuedTextsRestore`: issued texts restore to the originals they replaced.
* `ExportsReload`: what a live session exports, the loader accepts, full tables included.
* `OnlyIssuedIsKept`: every entry of the session stands in a text that was issued with it, or
  came with a supplied envelope, and no number of a label is used up but by such an entry; so nothing of
  a document that failed is ever kept, exported or reloaded (`redact.rs:43`).
* `ImplementsRegister`: refinement.

### Proofs

`RedactionSessionProofs.tla` proves all six, and the type invariant, for every
set of labels, texts and envelopes and every limit that satisfies
`ConstantsAssumption` and `NoneAssumption`; none of the bounds of the run is used.

`OnePseudonymPerIdentity` is not inductive: a commit merges the plan, of which
the property says nothing, and a reload replaces the session by an export. The
inductive invariant `IndInv` has three parts. `WellFormed(session)`: the maps are one
bijection behind the counters, finite, within the table, and hold nothing the
loader refuses. `Fits(session, plan)`: the planned placeholders are outside the
session's, pairwise different, below the planned counters, which are not behind the
session's, and both together fit the table; the document's redaction map speaks only of
placeholders the session or the plan knows. `GoodArchive(a)`: every kept export is
a valid envelope that rebuilds a session which keeps the promises recorded with it. The proof first
shows these of values (`AppliedWellFormed`: committing a plan that fits keeps a session well
formed; `SerializeReloads`: what a well-formed session exports is accepted and rebuilds it;
`AllocateFits`: the next placeholder fits), then has one lemma per action. From `IndInv`
follow the invariants and, step by step, the
refinement: `RegisterInit` and `RegisterStep` map the initial states and every step to the
register's or to a stutter. `OnlyIssuedIsKept` needs a second invariant on top, `Traced`: what a
plan stores is in the redaction map that will be issued with it, a counter it moves ends at a
placeholder it stores, and every export is covered by the texts issued before it
(`CommitIsTraced` is the step that matters).

## 4. The durable session store

`DurableSessionStore.tla` models server processes on one session directory.

| model | code |
|---|---|
| `directory` | the archive files and the one staging file, as every process sees them |
| `disk` | the set of directories a power loss may leave |
| `lock` | the advisory lock, released by the system when its holder dies |
| `server[s]` | a process: `state`, the `queue` that the promise chain `#mutationTail` amounts to, the `phase` of the request being served, the inventory's `count` and `total`, whether the staging file is unflushed (`dirty`) |
| `promised` | a history variable: per id, what a client may expect to find |
| `unflushed` | a history variable: per id, the archives that a delete has unlinked, failed to flush, and may have left on the disk |
| `Start`, `RemoveStaging`, `FinishStart`, `FailStart` | opening: lock, recovery of staging files, validation of the inventory, flush of the directory |
| `Submit` | a call of `load`, `save` or `delete` joins the chain |
| `StageSave` ... `CleanUp` | `save`: validate, create the staging file, write, flush, check the limits, rename, flush the directory, `finally` |
| `DeleteAbsent`, `RefuseDelete`, `Unlink`, `FailDelete`, `PublishDelete` | `delete`: nothing to delete, failing before the unlink, unlink, failing flush, flush |
| `Close`, `FinishClose` | `close`: no new requests, wait for the tail, release the lock |
| `Kill`, `PowerLoss` | the environment |

Each await is a step of its own and may fail. The file system is external, and
what is assumed of it is stated in the module: directory changes reach the disk
in the order they were made, at the latest at the next flush of the directory;
the data of an unflushed file may be lost although its name survives (`Torn`);
file operations of a running process see each other's effects. A power loss picks
any directory of `disk`. Keys, permissions, symbolic links and file formats are
folded into "may fail".

`ArchiveShelf` is what clients are promised: one whole archive per id, replaced or
removed atomically, and after a power loss a shelf that really stood since it was
last settled. `ImplementsShelf` is the refinement; its mapping is the directory's files and the
files of every directory on `disk`. Torn files are outside its type, so a torn
archive refutes it.

### Runs

* `store_crash`: two servers, two ids, archives of 1 and 2 bytes in a directory
  of 3 bytes and 2 archives: two large archives do not fit together, a small and a
  large one do, and a replacement may or may not. One waiting request per server,
  since the queue itself is the other run's subject, and at most eight directories that a
  power loss may leave (`FewAtRisk`, a constraint: up to seven
  changes without a flush, a failed delete and a failed save of both ids among them). 1.2 million states up to symmetry of servers and ids.
* `service` (section 5) has a part of its own for requests and shutdown: two servers, two
  ids, a limit of one archive and a queue of two: a queued save is checked after its
  predecessor changed the directory, and close must drain both. `EveryCloseEnds` is
  checked there, without symmetry.

`PromisesSurvive` is the central one: whatever happened since, every directory a
load or a power loss can find holds, for each id, the last acknowledged content or
one that was requested after it, with one exception that the code makes. A delete whose
directory flush fails (`durable-sessions.ts:501`) has unlinked the archive and reports the
failure; repeated, it finds no archive and succeeds without a flush (line 494), so that a power
loss before the next flush brings back an archive whose deletion was acknowledged. `unflushed`
records exactly these archives, from the failed flush to the next flush or power loss; a
`PromisesSurvive` without it is violated in fifteen steps. Nothing in the repository says that
the repeated delete is durable, so it is stated here rather than as a finding.
`DirectoryStaysAcceptable`: no run of failures or
crashes leaves a directory that the inventory check would refuse for ever.
`WorkOnlyUnderLock` (in `service`, as part of `MemoryMatchesLock`): close gives the lock up only
after the last request. `CloseEnds`: it does so.

Fairness (`FairSpec`): a file operation that was started settles, successfully or
not, which is what the runtime's promises do; nothing is assumed about starts,
requests, closes or kills.

## 5. The session service

`LocalAnonymizeService.tla` models `LocalAnonymizeService` with the calls that
use sessions.

| model | code |
|---|---|
| `state` | `#state`; `down` when the process is not running |
| `memory.sessions`, `memory.entries` | `#sessions` and its entries: value and status |
| `memory.reserved` | `#sessionInitializations` |
| `memory.queue` | the store's chain of requests |
| `ops[o]` | a call: where it awaits, its entry, the kind of its rollback and its checkpoint |
| `shelf`, `atRisk` | the store, as `ArchiveShelf` |
| `published`, `faulted` | history: outputs that exist; ids with a failed storage operation |
| `Admit`, `RefuseCall` | `#runOperation` and everything refused before the session is touched |
| `AnonymizeInMemory`, `AnonymizeNew`, `LoadSession`, `LoadSucceeds`, `LoadFails`, `LoadStrands`, `ReadInMemory` | `#session` and `#readSession` |
| `Redact` | redaction of the leased session, sealing, submission of the save |
| `SaveSucceeds`, `SaveFails` | `#persistSession` |
| `Publish`, `PublishFails` | `safeWrite`, then `#commitSession` or the rollback |
| `RollBack`, `RollbackStored`, `RollbackLost` | `#rollbackSession` |
| `Close`, `FinishClose`, `Kill`, `Restart` | shutdown, crash (with or without power loss), a new process |

JavaScript runs one callback at a time: what the code does between two awaits of
file operations is one action. Leasing, redacting, sealing and submitting the save
run in one drain of the microtask queue, so they are one action too; the store's
own work is interleaved through `ChangeShelf` and `SettleShelf`, one request at a time in
the order of submission. That is exactly how the store behaves by `ImplementsShelf` and its FIFO
queue, so the two modules compose without repeating the file operations.

A session's value is the sequence of the calls that added entities to it. A
position in it is a placeholder: an output that call `o` published restores as
long as `o` stands at the position it had. Two results about the core are used: a
redaction only extends a session or changes nothing (`ImplementsRegister`,
`OnlyIssuedIsKept`), and restoring a checkpoint cannot fail, since what a session exports
it reloads (`ExportsReload`).

### Runs

* `service` (`MCServiceAndStore`): one run over both modes, chosen at the start (`Modes`, `durable`): with a
  store, calls on one session with kills, power losses and restarts, and without
  one. The calls are as many as it takes for one to lease an entry whose rollback
  is still being saved, publish or fail, and be followed by a reader. Liveness is
  checked in the same run, and so are the requests and the shutdown of the store
  (section 4); the two parts share no variable, and `MemoryMatchesLock` and
  `EveryCloseEnds` conjoin what each promises.

Properties: `PublishedOutputsRestore` (an output that exists can be restored from memory, from
the store and from what a power loss leaves), `MemoryMatchesShelf` (a session no call is
using reads the same in memory and store), `NoOwnSessionIsStuck` (a reserved id is being
loaded by exactly one call, a busy entry is leased by exactly one call; the case of
`service_stranded` below is excepted), `RollbackLeavesNoTrace`
(without storage faults a failed call leaves none of its entities behind),
`CloseEnds`.

Fairness: every await of a call settles and `close()` resumes once drained. Calls,
closes and restarts are never forced.

### Where the code and its documentation differ

Three runs on the service check a sentence of the repository and find it violated:

* `service_limit`: "A server process holds at most 256 in-memory sessions"
  (`packages/mcp/README.md:33`). In durable mode the limit is compared before the
  archive is loaded and the session inserted after it, and a restore inserts
  without comparing.
* `service_orphan`: "If output publication fails, the server rolls both memory and
  durable storage back" (`packages/mcp/README.md:137`). A rollback makes its entry ready
  before it is saved; if another call leases it and the save then fails, the
  entry is dropped, and when that call's publication fails too its rollback finds
  no entry and does nothing, although its archive was stored. It takes a storage
  fault; without one `RollbackLeavesNoTrace` holds.
* `service_stranded`: "Wait for the prior operation on this session to finish, then
  retry" (`packages/mcp/src/local.ts:1096`). Anonymizing with a stored session that has a
  lifecycle puts an `initializing` entry into the map and then fails to take a
  checkpoint, as no time is given. No call holds the entry, and the id stays
  refused until the process ends.

## 6. Incremental document analysis

`IncrementalDocument.tla` models an `IncrementalDocumentSession`, on the documents, changes and
rules of `StructuredDocument.tla`; `DocumentAnalysis.tla` is what it promises.

| model | code |
|---|---|
| `document`, `textBytes`, `revision` | the fields of those names, the bytes kept by differences |
| `inputs`, `records`, `inputMeta`, `allocated` | the salsa database: every slot ever allocated, the records that link the slots of a neighbourhood, `DocumentInput` |
| `cache` | `finding_cache`, by position, with its dirty positions |
| `report` | the last snapshot |
| patches | `apply_patch`: in place when no block comes or goes, otherwise rebuilt from the records, with a new database when too many slots are retired |
| analysis | `analyze`: only the dirty positions run their rules again |

A rule is not interpreted: what it reports is everything it was allowed to read (its block,
its neighbourhood up to a radius, or the document), so two analyses agree only if the rules
read the same. salsa is external: a tracked function returns what its body would compute.

A document has three limits, `MAX_BLOCKS`, `MAX_BLOCK_BYTES` and `MAX_DOCUMENT_BYTES`
(`model.rs:7-9`), and its ids are distinct. `Validated` is `validate_blocks`: the number of blocks
first, then block by block the id, the block's size and the running sum. A patch in place does not go
through it: `InPlace` finds unknown blocks first, then the first changed text that is too large, and
checks the document's size last. Errors keep their kind and the block they name; what is left out is
the count that `TooManyBlocks` carries. The checked arithmetic on sizes is plain: below 64 MiB no
`usize` overflows, and the limit of a block is far below that of a `u32`.

Run `incremental` (10,201 states up to symmetry): four block ids and at most three blocks, a quiet
(0 bytes), a loud (2), a broken (3) and a long text (4, more than a block may have), at most 5 bytes in
all, two metadata values, a neighbourhood of radius 1, two revisions, one retired slot
allowed; every single change, pairs of changes that move no block, and pairs of texts of
which the second is too long. Three blocks are
what radius 1 needs for a block that is *not* invalidated by a change, and the fourth id for a block too many;
two revisions for a patch over cached findings that are partly dirty; one retired slot for a rebuild.
Within these sizes two texts can exceed the document without exceeding a block, and a long one exceeds its
block, alone or behind such texts.

* `RecordsMatchDocument`: the slots and records are those of the document.
* `CacheHoldsCurrentFindings`: a position that is not dirty holds what its rules report now.
* `PatchedInPlaceAsWhole`: a patch in place comes out as change by change on a copy: the same document, or the
  same error about the same block. There is one exception, which the property states: when a block gets too
  large and the blocks before it already exceed the document's limit, the copy reports
  `DocumentTooLarge` (the sum is checked block by block) and the patch in place reports `BlockTooLarge` (the
  sum is checked last). Both refuse, and no doc says which comes first. The mutant `InPlaceUnsized`, which
  leaves the check of `model.rs:369` out, is refuted.
* `ImplementsAnalysis`: the session is a batch analysis per revision.

Not modelled: the parsing of a block into words and sentences.

## 7. The native engine

`MCNativeEngine.tla` puts parts that share no variable into one run, `native_engine`. A
behaviour explores one part while the others have not begun, so the states add up and do
not multiply. Deadlock is checked: `Done` lets a finished document, call or page stay as it is.

### Plans of a session

| model | code |
|---|---|
| `target` | the session behind its lock, with its pseudonyms |
| `plans[p]` | a plan handle: the snapshot, the planned session until it is taken, the results |
| `published` | results a caller may rely on |
| pushing inputs | `SessionCallerInputs`: the count, the detections, the text and the encoded bytes are summed one input at a time, before the session is looked at |
| prepare, commit, direct calls, delete | the methods of those names; a commit compares the session with the snapshot |

`SerialSession` is the session its holders should see: whole batches, one after the other.
Properties: `ImplementsSerial` (refinement) and `PlansAreSound`, which is
`AcceptedBatchesFit` (a batch that was accepted really is within the limits) and
`PublishedRestore` (a result that was published restores unless the session was deleted).
Two plans, three identities, two mappings, batches of one or two inputs: two plans from
one snapshot conflict, and the table is full when one of them is committed.

### Kept size of a session

`SessionSize` states that `serialized_len`, kept by differences, is the length the session
really serializes to (`SizeIsKnown`). Numbers are written in base 3, so that two mentions
carry a counter over a power of the radix while it also skips reserved numbers; two keys, two
lengths of mapping, and a limit of 40 that is reached.

### Caches

`PreparedSearchCache`: threads look up an engine by digest, build it outside the mutex, and
insert it. `EnginesMatchTheirPackage` (a verified load returns the engine of its package),
`OrderListsEntries` (map and order agree), `RecentlyUsedStay` (the entries are those used
last). Two threads, three digests, two entries.

`SharedPackages`: the slot of a context and the bounded map of packages and promises behind
it. A caller runs up to its await and resumes in any order with the others; a promise is settled
when it is made, because assembling is synchronous. `PackagesMatchTheirKey` (a package is found
and returned under its own key, whatever the slot became during the await) and
`PromisesGiveWay` (a promise stays neither after success nor after failure). Three callers,
two keys, one entry: the third caller meets a slot and a map that both changed since.
`CachesAreSound` is the conjunction for both.

### A call of the engine

`ScopedBranches` (`exec.rs`): an owner spawns its branches in order, joins them in order, and gives
up at the first that failed; leaving the scope waits for all. `SchedulesAgree`: for
every order in which branches run and end, the result is the one a sequential run
gives. `NothingOutlivesItsScope`. The trees are the two the code has (preparation, and search of a
long text), each leaf succeeding, failing or panicking.

`RedactionPipeline` (`prepared/`): one call from its entry point through the detectors in registry
order, resolution and redaction, with a host that may watch, and refuse, what comes.
`SessionFollowsTheCall` (a session changes if and only if the call returns a result),
`StreamMatchesReport` (what the host took is a prefix of the report, whole at the end, nothing
twice), `ContextsAreComplete` (a detector is given every layer it reads). What the steps compute,
batches that a host refused, and details of summary events are left out.

`CallsAreConsistent` is the conjunction of the two.

### Entities

`EntityMerge` gives texts of character classes their words, clusters and trims, and
decides between overlapping detections; `EntityResolution` has the boundary pass and runs a document
through merging, boundaries, sanitizing and the selection for rendering.
Offsets count characters, and a signature stamp is one character. The search trees that answer
overlap queries are modelled by the question they answer.

| property | parts |
|---|---|
| `MergingIsSound` | `FrontierMergesAll` (the frontier of the code finds what comparing every pair finds), `MergingSettles` (merging the result again changes nothing), `SpansKeepALabel` |
| `BoundariesAreConsistent` | `BoundaryPassSucceeds` (no offset is out of order or out of the text), `EdgesCutNoWord`, `StampsEndPersons`, `SeparatedLabelsNeverCross` |
| `FoundLettersStayHidden` | `SanitizingKeepsLetters`, `MergedLettersAreRedacted`, `OwnedSpansStay` |

Five small corpora pair texts with kinds of detection so that each rule meets its
exceptions: words with marks and connectors, up to three rivals for one span, shapes (dates, numbers, legal forms)
around punctuation, neighbours of one or several labels beside stamps, owned
spans beside detected ones. Three detections are needed because several rules look at an
entity's two neighbours.

Left out: field labels that end a person (`boundary.rs:180`), boundaries of structured
card records (`sanitize.rs:160`), location labels, variants of trimmed characters, and the
filters for false positives.

Run `owned_spans` (`OwnedSpans.cfg`, the one part `resolution` of the same module) checks one property on one corpus and finds it violated: an edge inside a word
grows over an adjacent span of the same label that the caller owns, the two cross, and the
selection keeps only the first (`boundary.rs:572` against "Overlap resolution is now
width-aware so caller-supplied and custom detections are not silently overridden by
smaller built-in spans", `packages/anonymize/CHANGELOG.md:469`).

Run `native_engine` needs no fairness: it checks safety and one refinement.

### Texts

What is found in texts is explored in parts of run `session_and_text`
(`MCSessionAndText`), each while the others are untouched. The modules are pure:
a behaviour builds an input step by step and the property compares what the
translated code answers with a definition of what it should.

| property | module | what it says |
|---|---|---|
| `RulesAreExact` | `ConfidenceFilter` | `BoostOnlyAdds`, `ExcludedLabelsHaveNoSay`, `SecondFilterKeeps` |
| | `HotwordRules` | the window of bytes leaves out no word that is near enough in UTF-16 units; the index of spans answers as a scan does |
| | `DocumentZones` | zones follow one another over the text without gap or overlap, and an entity gains what its line earns |
| | `TriggerValues` | neither the window nor a cap changes a value except by refusing it or ending it between words; values keep to their line |
| | `Coreference` | every further place of a name is met, propagated mentions cover nothing else and belong to one source, aliases are defined in their sentence |
| `SearchesAreExact` | `SearchIndex` | a packaged search, loaded with its patterns or (literals only) without, finds what the patterns find |
| | `AnchoredSearch` | sharing one search changes nothing for either rule; kept values are the ones no other holds |
| | `ExternalDetections` | a batch is refused exactly when unsound, and otherwise means the same text in bytes, UTF-16 units and code points |

`ConfidenceFilter` (`entity_filter.rs`): labels and a threshold, which near misses reach with
confident neighbours in a window. `BoostOnlyAdds`, `ExcludedLabelsHaveNoSay`,
`SecondFilterKeeps` (the filter after the merge drops nothing the first one kept). Sets of at most three
candidates: a near miss that needs two neighbours needs three. Scores are twentieths and sums
exact where the code adds `f64`; entities made from an address context after the first filter are left
out.

Bounds. Hotword texts mix characters of one, two and four bytes, with a rule that
looks back and one that looks ahead. Lines for the zones are headings, signing clauses, both, tables, and
empty. A trigger's tail is a few characters longer than the smallest window and cap. Search lists have at most three
patterns of three engines. Terms of anchors differ in case, wholeness and rule. Articles
for mentions hold two names, two legal forms, an alias definition and a determiner, in four orders.

Three properties hold only as stated. A cap is exact as long as the blanks before a value leave
the window more than the cap (`Margin`). A shorter name that sorts first may take
part of the place of a longer one. A determiner that belongs to an entity keeps propagation
from an occurrence.

Left out: regular expressions and fuzzy matching inside the engines, the
parsing of dates and amounts, currency terms, party positions and phone numbers
of triggers, and the detectors made of word lists.

The code and a comment disagree about a rule without `maxLength`. `types.ts:103-110`
says that the cap "Falls back to the default 100-char fallback when omitted." In the code an omitted cap
is none: the window is the one of a line, 2048 bytes (`triggers.rs:1264-1272`), a
value that does not end in it is refused (`triggers.rs:640`), and everything shorter is taken whole, as the test
`to_next_comma_without_max_length_captures_full_value` (`triggers.rs:3771`) demands. The model follows
the code. `WindowsDoNotCut` holds, in states whose value is longer than `MaxValue`, which
stands for the 100 characters, and the mutant `CommaValueFallback`, which does what the comment says, is refuted.
Phone numbers, which the model leaves out, do end after 100 characters (`triggers.rs:456-467`).

Run `stop_words` finds a sentence of the repository violated: "Matched on a
word-boundary, case-insensitively" (`packages/anonymize/src/types.ts:99`). The code looks at the byte before a
stop word; after a letter of two bytes there is no character that starts there,
and the stop word is seen inside a word.


## 8. Documents and files of the command line

Run `document_files` (`MCDocumentFiles`) has six parts: three commands that work on
files, and three pure computations on documents. Its properties conjoin theirs.

### The archive workflow

`ArchiveWorkflow.tla` models `anonymize docx` (`packages/cli/src/docx.ts`).

| model | code |
|---|---|
| `archive`, `outputs`, `staged`, `lock` | the files: the session archive, documents, temporary files, `<archive>.lock` |
| `process[p]` | a command: its place between two awaits, what it read |
| `unlinkFailed` | history: a cleanup could not remove its file |

Each await is a step that may fail; a process may be killed between any two. The file system is
external: `open("wx")` and `link` fail on an existing path, `rename` replaces. Removing a stale lock
is left to the user, as in the code, and happens only when its owner is dead. Three processes, two outputs,
two documents, both symmetries: a third process is what meets a stale lock beside a live one.

* `OutputsRestore` (in `OutputsAreUndoable`): a published document restores from the archive.
* `OnlyInterruptionsLeaveFiles` (in `OnlyInterruptionsLeaveTraces`): locks and staged files are
  left only by kills and failed unlinks.
* `NothingIsReplaced` (in `NoOutputIsReplaced`): no document is overwritten.

### The PDF command

`PdfCommand.tla`: the input is read through one descriptor, each page is rendered and
recognized by external programs in a folder of its own, and the result is staged and linked.
Two commands share an input and an output; an input may be replaced or change its length once; two pages.

* `PdfIsConfined` (in `OnlyInterruptionsLeaveTraces`): a command that ended left neither its
  folder nor its staged result, except what a removal it reports failed on; the folder never holds
  more than the source and one page; what was published is all of a document.
* `PdfIsNotReplaced` (in `NoOutputIsReplaced`).

An edit of the input in place that keeps its length is not noticed by the code, nor modelled.

### A text and its key

`KeyedOutput.tla`: the key is written and made readable before the text that needs it, while others
may link, replace or remove what the paths name. Two commands share the path of their key.

* `KeysAreSafe` (in `OutputsAreUndoable`): a whole text has its whole key; a key that can be
  read is whole; what a failed command leaves is empty and closed; a file that others put there is not touched.

### Proofs

`DocumentFilesProofs.tla` proves every property of the three commands for any number of
processes, outputs, documents, commands, pages and users: `TypeOK`, `OutputsAreUndoable`,
`OnlyInterruptionsLeaveTraces` and `NoOutputIsReplaced` of the composed
specification. Beside the assumptions of the modules it uses what the checker's values make
true: documents are sequences of mentioned entities, `NoFile` is not a session (`WorkflowAssumption`),
and the files of different users, a foreign file and no file differ (`NodeAssumption`). The parts share no
variable (`PartStep`), so each has an inductive invariant of its own:

* `ArchiveInv` of the archive workflow. `OutputsRestore` says nothing of a document that is still
  staged, so the invariant adds: a continuation holds the lock from its acquisition to its release
  (`LockInv`), hence until it publishes the archive, the archive is the one it read and the session in its hands
  extends it (`WriterInv`); behind that publication its document can be undone. A restoration works
  without the lock; the session it read is part of the archive for ever, because the archive only gains names
  (`ReaderInv`). `StageInv` says at which step a command still has a temporary file to remove. What a
  redaction does to a session is shown with folds over the mentions, as for the plans.
* `PdfInv` of the PDF command: at each step, what is in its folder, whether its result is
  staged, and that the document behind the published one is whole and its command past publication.
* `KeyInv` of a text and its key: at each step of its command the key's file is in one of five states, and only
  its own command's descriptor leads there; a descriptor that is written through leads to the command's
  text or to a foreign file, since truncating is refused on the key; a whole text has a command that
  committed it, and behind a commit the key is whole and open. Renames and links change
  paths and no file, which is why no statement about paths is needed.

### Rendering, DOCX blocks and PDF pages

`DocumentsAreExact` is the conjunction of what follows.

* `Rendering`: `RestoresText` (without masks and redactions, deanonymising gives the text back) and
  `ShownIsWhatNothingHides` (a character is shown exactly if no operator hides it). Three texts, of
  which two spell placeholders, up to three spans, two labels, five configurations. A
  placeholder is four characters; one grapheme is one character; coreferences, spellings of one
  entity in several cases, and redaction strings that spell a placeholder are excluded from `RestoresText`.
* `DocxRewriting`: `RewritesAsAsked` (the block reads as the request says, whatever nodes the replacements
  share, and nothing outside them moved) and `RestoresOrRefuses`. Six texts, cut into up to
  three nodes, with revised nodes and tabs, surrogate halves, and brackets that are no placeholder; up to two replacements.
  Left out: archives, XML, extraction and its limits, several blocks, and a carriage return, which
  `escape_xml_text` does not escape and a parser reads back as a line feed.
* `PdfRedaction`: `PdfHidesDetections` (every glyph of a detection is inside filled pixels, or the page
  is refused). Pages of 4 by 4 points on 6 by 6 pixels, so that edges fall between pixels, one to two glyphs
  in any of three places, one of them beyond the page's edge, ligatures and surrogates, two detections, a region marked by hand,
  and room for one overdraw of the page.

Deadlock is not checked, since every command ends.

## 9. Output files and the server process

`ServerProcess.tla` is `runMcpLifecycle` with the service's count of operations and its
chain of PDF operations, every call writing with `safeWrite` of
`packages/mcp/src/local.ts`: staging, link, mode, and the cleanup after a failure, each of
whose steps may fail too.

Run `server`: a text call and two PDF calls; two of them write to the same path, and one PDF call fails before it writes.

* `OperationsAreAccounted`: the count is the number of calls that run, and PDF calls take turns.
* `OutputsAreSafe`: a path never shows part of an output; after a failure nothing readable is
  left as long as one of the three safeguards of the cleanup (close the mode, truncate, unlink) worked; a reported output stays.
* `OthersFilesStay`: no call touches a file it did not make.
* `EverythingEnds`: every call ends, and every shutdown.

Fairness: every await settles, for the lifecycle and for each call. For PDF calls that includes that the
external tool exits after it was signalled (`local-provider.ts` sends one signal and waits). The lstat-then-unlink
window, in which another program could replace a file that is being removed, is outside the model.
Deadlock is not checked, since the process really ends.


## 10. What is proved, what is checked, what is neither

Proved with TLAPS, in the module named, for every value of the constants that satisfies
the named assumptions of the component's module (finite sets where something is counted,
limits that are natural numbers, special values that are not ordinary ones). TLC
evaluates the assumptions on every run.

| module | theorems | property of a run |
|---|---|---|
| `RedactionSessionProofs` | section 3 | all of the session's |
| `DurableSessionStoreProofs` | `TypeCorrect`, `LockedWork`, `DurablePromises`, `AcceptableDirectory`, `StoreImplementsShelf` | all of `store_crash`, and `WorkOnlyUnderLock` |
| `LocalAnonymizeServiceProofs` | `TypeCorrect`, `OutputsRestore`, `NoOwnStuck`, `MemoryIsTheShelf`, `FailuresLeaveNoTrace` | `PublishedOutputsRestore`, `NoOwnSessionIsStuck`, `TypeOK`, `RollbackLeavesNoTrace`, the service's part of `MemoryMatchesLock` |
| `ServerProcessProofs` | `AccountedOperations`, `SafeOutputs`, `OthersFilesAreLeftAlone` | all safety of `server` |
| `IncrementalDocumentProofs` | `CopiesAgree`, `CacheIsCurrent`, `InPlaceIsWhole`, `SessionImplementsAnalysis` | all of `incremental` |
| `SessionPlanProofs` | `PlansSound`, `SerialImplemented` | `PlansAreSound`, `ImplementsSerial` |
| `DocumentFilesProofs` | `FilesTypes`, `OutputsStayUndoable`, `OnlyInterruptionsLeaveThem`, `OutputsAreNotReplaced` | all of `document_files` except `DocumentsAreExact` (section 8) |

None of the run properties is inductive alone. The strengthenings:

* **Store** (`IndInv`). Beside the properties themselves: only the lock's holder has a store
  object (so nobody else changes the directory during a request); at each phase of a request
  (`StageInv`) the inventory it counted is still the directory's, a file about to be renamed is
  flushed, and once its change is published every directory a power loss may leave has it;
  whoever submitted a change is prepared to find it from then on (`RequestsPromised`); and what
  an open store does not find is off the disk too, or its unlink is not flushed yet, or in
  `unflushed` (`AbsenceSettled`): a delete that finds nothing acknowledges no more than that.
* **Service**. The invariant speaks of a memory `m`, the records `cs` of the calls and the
  set `H` of calls that hold a lease, with a call *in transit* between two changes of one
  step, so that each change (load, lease, submit, publish, roll back, release) is a lemma of its own
  and a handler is their composition. Its conjuncts: `QueueInv` (every queued request is awaited by
  its call), `OrderInv` (nothing of a session is queued behind its load, and behind a save that is not a
  rollback only a load), `ReservedInv`, `LeaseInv` (a lease is exclusive, and an entry that is not
  ready is leased), `PromiseInv` (wherever the session of an output may be read from, and whatever a
  queued request or a rollback may make of it, the output restores), `MatchInv` (what the store
  has, or will have once the queue is served, is the value in memory), `LifecycleInv`.
* **Failed calls** (`TraceInv`, on top of the service's invariant). `RollbackLeavesNoTrace` speaks of
  calls that are done, but what a call leaves is decided long before. So `TraceInv` says, of every session
  whose storage has not failed, where an entity of a call may be *known*: in the entry in memory, in a
  queued save, or in the checkpoint of another call that may yet roll back to it. A call that has not
  redacted yet is known nowhere and stored nowhere; one whose rollback was decided is known nowhere, and
  once it is done stored nowhere; a call that may still fail has its entry in memory and a checkpoint
  from before it (`LesseeInv`); and a delete is the first request of its session, so what it
  removes is what its call stored (`DeleteInv`). A session with a storage fault is excepted as
  in the property: there a failed save may have replaced the archive.
* **Server**. `FileInv`: at each step of `safeWrite`, what is on the disk and at the path, and which
  safeguard must have failed where something is left. `LineInv`: the admitted PDF calls stand in a
  line of which the first are done and only the next may work; this is what makes
  "one at a time" inductive, since each call only knows its predecessor.
* **Incremental analysis**. `DocumentInv` (the document is valid and its size is the kept sum),
  `RecordInv` (each block's record leads to the slot with its input, its links to the slots around it, and the
  slots left behind are within the budget) and `CacheInv` (a position that is not dirty holds what the
  rules would find now). The cache part rests on lemmas about windows: outside the
  positions a patch dirties, the windows a rule reads are the same before and after it.
  That a patch in place is the whole patch needs no invariant of its own but a lemma per way of failing:
  `ApplyFolded` (change by change the copy is the folded document, up to the first unknown block),
  `FirstFault` (blocks that are not valid have a first fault) and `InPlaceAsWhole` (that fault is the least
  block the patch made too large, or the sum).
* **Plans** (`IInv`). Every plan holds the batch it accepted, a sound base and exactly what the
  batch makes of that base; a sound session names its entities one to one, and a redaction only extends it.

Data. The models fold over mentions, blocks, changes, inputs and documents with
`FoldLeft`, not with RECURSIVE operators. The library's induction theorems take an
operator and cannot be used here, but induction over a *set* can be stated without one:
`Induction.tla` proves, from the well-foundedness of finite sets under inclusion, that a
set that contains 0 and is closed under successors contains the natural numbers, that folds
exist, and that a fold runs through the values of its prefixes (`FoldRuns`). With it
the theorems above hold for documents, patches and batches of any length.

Only model-checked:

* `EveryCloseEnds` and `EverythingEnds`: liveness under fairness and ENABLED are out of the prover's reach;
* `SizeIsKnown`, the caches, `ScopedBranches`, `RedactionPipeline`: no proof yet;
* everything about entities, texts, rendering, blocks and pages: the modules are pure and
  the statements compare a translated algorithm with its reference for every
  small input, some through RECURSIVE operators.

Every property is accompanied by a *slip* in the module that states it or the module it is about: a plausible mistake in
one definition (a dropped flush, a lock released early, a counter not stored)
under which the same run refutes the property.

Not modelled, besides what the sections above leave out:

* the dictionary detectors' word lists, patterns and word-level heuristics: results depend on
  characters and data, which a model would only transcribe;
* expiry of a session between plan and commit;
* document formats: archives, XML, PDF parsing, inspection and verification of
  written PDFs; the cipher; path scopes and permissions;
* assembly and serialization of configurations; the Python and WebAssembly wrappers, which share the
  binding core's plans; the semantic caches of `create-pipeline.ts`; the loading of
  native modules; benchmark and corpus tools.
