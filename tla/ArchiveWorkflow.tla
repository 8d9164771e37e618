-------------------------- MODULE ArchiveWorkflow --------------------------
(***************************************************************************)
(* `anonymize docx' of the command line: processes that anonymize          *)
(* documents into one encrypted session archive, or restore them from it.  *)
(* Each stages its files next to their targets, publishes the archive      *)
(* first and the document second, and never replaces a document; a         *)
(* continuation holds `<archive>.lock' from before it reads the archive    *)
(* until everything is published.  Every await may fail, and a process may *)
(* be killed between any two.                                              *)
(*                                                                         *)
(* The file system is external: open "wx" and link fail on an existing     *)
(* path, rename replaces, and each is atomic.                              *)
(***************************************************************************)
EXTENDS SessionBatches

CONSTANTS
  Processes,    \* each runs one command
  Outputs,      \* paths of documents
  Documents,    \* inputs to anonymize
  NoFile,
  Nobody

ASSUME WorkflowAssumption ==
  /\ Nobody \notin Processes
  /\ Documents \subseteq [mentions : Seq(Identities)] /\ NoFile \notin Sessions

VARIABLES
  archive,      \* the session in the archive file
  lock,         \* whose process id made <archive>.lock
  outputs,      \* the documents
  staged,       \* temporary files: whose, and for which target
  process,      \* the processes
  unlinkFailed  \* a cleanup could not remove its file

vars == <<archive, lock, outputs, staged, process, unlinkFailed>>

(* Slip: what the last command read is still there.                        *)
IdleUnset == [pc |-> "new", command |-> NoFile, input |-> NoFile, output |-> NoFile,
              session |-> NoFile, content |-> NoFile]

Idle == [pc |-> "new", command |-> "create", input |-> NoFile, output |-> NoFile,
         session |-> NoFile, content |-> NoFile]

Fallible == {"started", "locked", "ready", "documentStaged", "staged", "archived"}

Running(p) ==
  process[p].pc \in Fallible \cup {"archiveLinked", "linked", "failing", "published"}

Continuing(p) == process[p].command = "continue"

Goto(p, pc) == process' = [process EXCEPT ![p].pc = pc]

-----------------------------------------------------------------------------
(* Any await before the document is linked fails.  What the command staged *)
(* is still to be cleaned up, and the lock, if it has it, released.        *)
Fail(p) ==
  /\ process[p].pc \in Fallible
  /\ Goto(p, IF process[p].pc = "started" THEN "failed" ELSE "failing")
  /\ UNCHANGED <<archive, lock, outputs, staged, unlinkFailed>>

(* preflightDocxCommand, long before anything is written                   *)
Preflight(p, command, input, output) ==
  /\ process[p].pc = "new"
  /\ outputs[output] = NoFile
  /\ command = "create" => archive = NoFile
  /\ process' = [process EXCEPT ![p] =
                   [Idle EXCEPT !.pc = "started", !.command = command,
                                !.input = input, !.output = output]]
  /\ UNCHANGED <<archive, lock, outputs, staged, unlinkFailed>>

(* Slip: the lock file is opened whether or not it exists.                 *)
AcquireLockAnyway(p) ==
  /\ process[p].pc = "started" /\ Continuing(p)
  /\ lock' = p /\ Goto(p, "locked")
  /\ UNCHANGED <<archive, outputs, staged, unlinkFailed>>

(* acquireSessionArchiveLock; with a lock in the way the command fails     *)
AcquireLock(p) ==
  /\ process[p].pc = "started" /\ Continuing(p)
  /\ lock = Nobody
  /\ lock' = p /\ Goto(p, "locked")
  /\ UNCHANGED <<archive, outputs, staged, unlinkFailed>>

(* Reading, redacting and sealing in one go: nothing is written.           *)
Redact(p) ==
  LET base == IF Continuing(p) THEN archive ELSE NewSession
      next == WithDocument(base, process[p].input) IN
  /\ process[p].pc = IF Continuing(p) THEN "locked" ELSE "started"
  /\ process[p].command # "restore"
  /\ base # NoFile
  /\ next # Failed
  /\ process' = [process EXCEPT ![p].pc = "ready", ![p].session = next,
                                ![p].content = [kind |-> "anonymized",
                                                text |-> ResultOf(next, process[p].input)]]
  /\ UNCHANGED <<archive, lock, outputs, staged, unlinkFailed>>

(* runDocxRestore reads document and archive at once, in either order.     *)
ReadDocument(p) ==
  /\ process[p].pc = "started" /\ process[p].command = "restore"
  /\ process[p].content = NoFile /\ outputs[process[p].input] # NoFile
  /\ process' = [process EXCEPT ![p].content = outputs[process[p].input]]
  /\ UNCHANGED <<archive, lock, outputs, staged, unlinkFailed>>

ReadArchive(p) ==
  /\ process[p].pc = "started" /\ process[p].command = "restore"
  /\ process[p].session = NoFile /\ archive # NoFile
  /\ process' = [process EXCEPT ![p].session = archive]
  /\ UNCHANGED <<archive, lock, outputs, staged, unlinkFailed>>

(* restoreDocxText: a placeholder the session does not know fails it.      *)
Originals(session, text) ==
  [x \in DOMAIN text |-> CHOOSE y \in Named(session) : session.names[y] = text[x]]

Restore(p) ==
  LET session == process[p].session
      content == process[p].content IN
  /\ process[p].pc = "started" /\ process[p].command = "restore"
  /\ session # NoFile /\ content # NoFile /\ content.kind = "anonymized"
  /\ \A x \in DOMAIN content.text :
       \E y \in Named(session) : session.names[y] = content.text[x]
  /\ process' = [process EXCEPT ![p].pc = "ready", ![p].content =
                   [kind |-> "restored", text |-> Originals(session, content.text)]]
  /\ UNCHANGED <<archive, lock, outputs, staged, unlinkFailed>>

-----------------------------------------------------------------------------
(* stageFile; what it staged itself it removes when it fails               *)
StageDocument(p) ==
  /\ process[p].pc = "ready"
  /\ staged' = staged \cup {[by |-> p, target |-> "document"]}
  /\ Goto(p, IF process[p].command = "restore" THEN "archived" ELSE "documentStaged")
  /\ UNCHANGED <<archive, lock, outputs, unlinkFailed>>

StageArchive(p) ==
  /\ process[p].pc = "documentStaged"
  /\ staged' = staged \cup {[by |-> p, target |-> "archive"]}
  /\ Goto(p, "staged")
  /\ UNCHANGED <<archive, lock, outputs, unlinkFailed>>

Staged(p, target) == {file \in staged : file.by = p /\ file.target = target}

(* removeStagedFile: best effort                                           *)
Unstage(files) ==
  \/ staged' = staged \ files /\ UNCHANGED unlinkFailed
  \/ files # {} /\ UNCHANGED staged /\ unlinkFailed' = TRUE

(* Slip: an archive that appeared since the preflight is replaced.         *)
CreateArchiveByRename(p) ==
  /\ process[p].pc = "staged" /\ ~Continuing(p)
  /\ archive' = process[p].session
  /\ Goto(p, "archiveLinked")
  /\ UNCHANGED <<lock, outputs, staged, unlinkFailed>>

(* publishNewFile                                                          *)
CreateArchive(p) ==
  /\ process[p].pc = "staged" /\ ~Continuing(p)
  /\ archive = NoFile
  /\ archive' = process[p].session
  /\ Goto(p, "archiveLinked")
  /\ UNCHANGED <<lock, outputs, staged, unlinkFailed>>

UnstageArchive(p) ==
  /\ process[p].pc = "archiveLinked"
  /\ Unstage(Staged(p, "archive"))
  /\ Goto(p, "archived")
  /\ UNCHANGED <<archive, lock, outputs>>

(* publishReplacement                                                      *)
ReplaceArchive(p) ==
  /\ process[p].pc = "staged" /\ Continuing(p)
  /\ archive' = process[p].session
  /\ staged' = staged \ Staged(p, "archive")
  /\ Goto(p, "archived")
  /\ UNCHANGED <<lock, outputs, unlinkFailed>>

(* Slip: a document that appeared since the preflight is replaced.         *)
PublishOutputByRename(p) ==
  /\ process[p].pc = "archived"
  /\ outputs' = [outputs EXCEPT ![process[p].output] = process[p].content]
  /\ Goto(p, "linked")
  /\ UNCHANGED <<archive, lock, staged, unlinkFailed>>

(* Slip: the document does not wait for its archive.                       *)
PublishOutputFirst(p) ==
  /\ process[p].pc \in {"documentStaged", "archived"}
  /\ outputs[process[p].output] = NoFile
  /\ outputs' = [outputs EXCEPT ![process[p].output] = process[p].content]
  /\ Goto(p, "linked")
  /\ UNCHANGED <<archive, lock, staged, unlinkFailed>>

(* publishNewFile                                                          *)
PublishOutput(p) ==
  /\ process[p].pc = "archived"
  /\ outputs[process[p].output] = NoFile
  /\ outputs' = [outputs EXCEPT ![process[p].output] = process[p].content]
  /\ Goto(p, "linked")
  /\ UNCHANGED <<archive, lock, staged, unlinkFailed>>

UnstageDocument(p) ==
  /\ process[p].pc = "linked"
  /\ Unstage(Staged(p, "document"))
  /\ Goto(p, IF Continuing(p) THEN "published" ELSE "done")
  /\ UNCHANGED <<archive, lock, outputs>>

(* Slip: the archive staged for nothing stays.                             *)
CleanUpDocument(p) ==
  /\ process[p].pc = "failing"
  /\ Unstage(Staged(p, "document"))
  /\ Goto(p, IF Continuing(p) THEN "published" ELSE "failed")
  /\ UNCHANGED <<archive, lock, outputs>>

(* Slip: a command that fails keeps the lock.                              *)
CleanUpKeepingLock(p) ==
  /\ process[p].pc = "failing"
  /\ Unstage(Staged(p, "document") \cup Staged(p, "archive"))
  /\ Goto(p, "failed")
  /\ UNCHANGED <<archive, lock, outputs>>

(* The finally block of a failed command                                   *)
CleanUp(p) ==
  /\ process[p].pc = "failing"
  /\ Unstage(Staged(p, "document") \cup Staged(p, "archive"))
  /\ Goto(p, IF Continuing(p) THEN "published" ELSE "failed")
  /\ UNCHANGED <<archive, lock, outputs>>

(* release: close the handle and unlink the lock, which may fail           *)
Release(p) ==
  /\ process[p].pc = "published"
  /\ \/ lock' = Nobody /\ UNCHANGED unlinkFailed /\ Goto(p, "done")
     \/ UNCHANGED lock /\ unlinkFailed' = TRUE /\ Goto(p, "failed")
  /\ UNCHANGED <<archive, outputs, staged>>

Kill(p) ==
  /\ Running(p) /\ Goto(p, "killed")
  /\ UNCHANGED <<archive, lock, outputs, staged, unlinkFailed>>

(* "Verify that no continuation is still running before removing it."      *)
RemoveStaleLock ==
  /\ lock # Nobody /\ \A p \in Processes : Continuing(p) => ~Running(p)
  /\ lock' = Nobody
  /\ UNCHANGED <<archive, outputs, staged, process, unlinkFailed>>

Init ==
  /\ archive = NoFile /\ lock = Nobody
  /\ outputs = [o \in Outputs |-> NoFile]
  /\ staged = {} /\ unlinkFailed = FALSE
  /\ process = [p \in Processes |-> Idle]

Next ==
  \/ \E p \in Processes :
       \/ \E command \in {"create", "continue"}, input \in Documents,
             output \in Outputs : Preflight(p, command, input, output)
       \/ \E source, output \in Outputs : Preflight(p, "restore", source, output)
       \/ AcquireLock(p) \/ Redact(p)
       \/ ReadDocument(p) \/ ReadArchive(p) \/ Restore(p)
       \/ StageDocument(p) \/ StageArchive(p)
       \/ CreateArchive(p) \/ UnstageArchive(p) \/ ReplaceArchive(p)
       \/ PublishOutput(p) \/ UnstageDocument(p)
       \/ Fail(p) \/ CleanUp(p) \/ Release(p) \/ Kill(p)
  \/ RemoveStaleLock

Spec == Init /\ [][Next]_vars

-----------------------------------------------------------------------------
(* Properties                                                              *)

Shows(text, S) ==
  DOMAIN text \subseteq Identities /\ \A x \in DOMAIN text : text[x] \in S

IsFile(file) ==
  file # NoFile =>
    /\ file.kind \in {"anonymized", "restored"}
    /\ Shows(file.text, IF file.kind = "restored" THEN Identities ELSE Nat)

(* Types.                                                                  *)
TypeOK ==
  /\ lock \in Processes \cup {Nobody} /\ unlinkFailed \in BOOLEAN
  /\ archive # NoFile => Shows(archive.names, Nat)
  /\ \A o \in Outputs : IsFile(outputs[o])
  /\ staged \subseteq [by : Processes, target : {"document", "archive"}]
  /\ \A p \in Processes :
       /\ process[p].command \in {"create", "continue", "restore"}
       /\ IsFile(process[p].content)

(* "Concurrent continuations fail closed instead of losing mappings": a    *)
(* document that was anonymized into the archive can be restored from the  *)
(* archive as it is now, whichever commands failed, were killed or ran at  *)
(* the same time since.  A restoration that succeeded gave everybody's own *)
(* name back, although it read document and archive without the lock.      *)
OutputsRestore ==
  \A o \in Outputs : outputs[o] # NoFile =>
    IF outputs[o].kind = "anonymized"
    THEN /\ archive # NoFile
         /\ \A x \in DOMAIN outputs[o].text :
              x \in Named(archive) /\ archive.names[x] = outputs[o].text[x]
    ELSE \A x \in DOMAIN outputs[o].text : outputs[o].text[x] = x

(* No command replaces a document, its own input or another's output, and  *)
(* the archive only ever gains names.                                      *)
ReplacesNothing ==
  /\ \A o \in Outputs : outputs[o] # NoFile => outputs'[o] = outputs[o]
  /\ archive # NoFile => \A x \in Named(archive) :
       x \in DOMAIN archive'.names /\ archive'.names[x] = archive.names[x]

NothingIsReplaced == [][ReplacesNothing]_vars

(* Whoever is between reading and publishing the archive has its lock, and *)
(* only a killed process or a failed unlink leaves a lock behind.          *)
LockMatchesHolder ==
  /\ \A p \in Processes :
       Continuing(p) /\ Running(p) /\ process[p].pc # "started" => lock = p
  /\ lock # Nobody =>
       Running(lock) \/ process[lock].pc = "killed" \/ unlinkFailed

(* Likewise for the temporary files, which hold documents.                 *)
NothingStaysStaged ==
  \A file \in staged :
    Running(file.by) \/ process[file.by].pc = "killed" \/ unlinkFailed

(* Locks and temporary files are left by interruptions only.               *)
OnlyInterruptionsLeaveFiles == LockMatchesHolder /\ NothingStaysStaged
=============================================================================
