--------------------------- MODULE ServerProcess ---------------------------
(***************************************************************************)
(* The process of the MCP server from its first signal handler to its      *)
(* exit: runMcpLifecycle, which connects the transport and shuts down on   *)
(* a signal, on the end of the transport or on a failure; the operations   *)
(* the service counts so that close() can wait for them; the chain of      *)
(* promises that lets one PDF operation run at a time; and safeWrite, by   *)
(* which each operation publishes its output.                              *)
(*                                                                         *)
(* What an operation does to its session is LocalAnonymizeService's        *)
(* business.  The process may be killed at any instant, as it is by a      *)
(* signal that arrives a second time and finds its handler gone: a         *)
(* behaviour that just ends there.                                         *)
(*                                                                         *)
(* safeWrite writes the bytes to a staging file only its owner may read,   *)
(* which is linked to the output path once it is complete and made         *)
(* writable last; until that is done, a failure empties the file, takes    *)
(* all permissions away and removes both of its names, each as well as it  *)
(* can.                                                                    *)
(*                                                                         *)
(* The file system is external.  A file is named after the call that made  *)
(* it and may have two names: the staging name, which is random, and the   *)
(* output path.  Other programs may put files of their own where there is  *)
(* none; nobody removes one while a call is writing it.                    *)
(***************************************************************************)
EXTENDS Integers, FiniteSets

CONSTANTS
  Calls,        \* operations
  Writers,      \* the calls that may come to an output
  PdfCalls,     \* the calls that anonymize PDFs
  Paths,        \* output paths
  Path,         \* Path[c]: the output a call is given
  NoFile,       \* nothing at a path
  Foreign,      \* a file that was put there by another program
  Nobody

ASSUME SafeWriteAssumption ==
  {NoFile, Foreign} \cap Writers = {} /\ NoFile # Foreign

ASSUME ServerAssumption ==
  /\ Writers \subseteq Calls /\ PdfCalls \subseteq Calls
  /\ Path \in [Writers -> Paths] /\ Nobody \notin Calls

(* The case TLC explores: every call is given the same output.             *)
OnePath == [c \in Writers |-> CHOOSE path \in Paths : TRUE]

VARIABLES
  outputs,      \* per path: the file it names
  files,        \* per call: its file, and how far safeWrite has come
  main,         \* runMcpLifecycle
  transport,    \* whether requests can arrive
  shutdown,     \* shutdownPromise
  service,      \* #state of the service
  active,       \* #activeOperations
  calls,        \* per call: where it is, and the PDF call it waits for
  tail          \* #pdfOperationTail: the PDF call that was queued last

fileVars == <<outputs, files>>
lifecycle == <<main, transport, shutdown, service>>
operations == <<active, calls, tail>>
vars == <<lifecycle, operations, fileVars>>

Steps == {"none", "opened", "written", "linked", "committed", "succeeded",
          "truncating", "restricting", "unstaging", "unpublishing", "failed"}

(* What may go wrong in a cleanup, besides a staging name that stays       *)
Faults == {"truncate", "chmod", "unlink"}

File == [step   : Steps,
         data   : {"empty", "partial", "whole"},
         mode   : {"400", "600", "000"},
         staged : BOOLEAN,
         faults : SUBSET Faults]

NewFile == [step |-> "none", data |-> "empty", mode |-> "400", staged |-> FALSE,
            faults |-> {}]

Set(w, file) == files' = [files EXCEPT ![w] = file]

Goto(w, step) == Set(w, [files[w] EXCEPT !.step = step])

Writing(w) == files[w].step \notin {"none", "succeeded", "failed"}

Alive == main # "ended"

Running(c) == calls[c].pc \notin {"new", "done"}

Succeeded(c) == c \in Writers => files[c].step = "succeeded"

Busy(c) == c \in Writers /\ Writing(c)

-----------------------------------------------------------------------------
(* safeWrite                                                               *)

(* The output directory is checked, and the staging file is made.          *)
Open(w) ==
  /\ files[w].step = "none"
  /\ \/ Set(w, [NewFile EXCEPT !.step = "opened", !.staged = TRUE])
     \/ Goto(w, "failed")
  /\ UNCHANGED outputs

Write(w) ==
  /\ files[w].step = "opened"
  /\ Set(w, [files[w] EXCEPT !.step = "written", !.data = "whole"])
  /\ UNCHANGED outputs

(* Slip: the staging file is linked before it is written.                  *)
LinkEarly(w, path) ==
  /\ files[w].step \in {"opened", "written"}
  /\ outputs[path] = NoFile
  /\ outputs' = [outputs EXCEPT ![path] = w]
  /\ Set(w, [files[w] EXCEPT !.step = "linked"])

(* Slip: the file is moved to its path, whatever is there.                 *)
LinkOver(w, path) ==
  /\ files[w].step = "written"
  /\ outputs' = [outputs EXCEPT ![path] = w]
  /\ Goto(w, "linked")

(* link fails on an existing path.                                         *)
Link(w, path) ==
  /\ files[w].step = "written"
  /\ outputs[path] = NoFile
  /\ outputs' = [outputs EXCEPT ![path] = w]
  /\ Goto(w, "linked")

(* fchmod and fsync, and the output counts                                 *)
Commit(w) ==
  /\ files[w].step = "linked"
  /\ Set(w, [files[w] EXCEPT !.step = "committed", !.mode = "600"])
  /\ UNCHANGED outputs

(* Any of these steps, or a check between them, fails half-way.            *)
Break(w) ==
  /\ \/ /\ files[w].step = "opened"
        /\ Set(w, [files[w] EXCEPT !.step = "truncating", !.data = "partial"])
     \/ /\ files[w].step = "written"
        /\ Goto(w, "truncating")
     \/ /\ files[w].step = "linked"
        /\ \E mode \in {"400", "600"} :
             Set(w, [files[w] EXCEPT !.step = "truncating", !.mode = mode])
  /\ UNCHANGED outputs

(* Close and remove the staging name: the end of a success.                *)
Finish(w) ==
  /\ files[w].step = "committed"
  /\ \/ Set(w, [files[w] EXCEPT !.step = "succeeded", !.staged = FALSE])
     \/ Goto(w, "succeeded")
  /\ UNCHANGED outputs

-----------------------------------------------------------------------------
(* The cleanup of a failure; every step of it may fail and is swallowed.   *)

(* Slip: permissions are thought to be enough.                             *)
SkipTruncate(w) ==
  /\ files[w].step = "truncating"
  /\ Goto(w, "restricting")
  /\ UNCHANGED outputs

Truncate(w) ==
  /\ files[w].step = "truncating"
  /\ \/ Set(w, [files[w] EXCEPT !.step = "restricting", !.data = "empty"])
     \/ Set(w, [files[w] EXCEPT !.step = "restricting", !.faults = @ \cup {"truncate"}])
  /\ UNCHANGED outputs

Revoke(w) ==
  /\ files[w].step = "restricting"
  /\ \/ Set(w, [files[w] EXCEPT !.step = "unstaging", !.mode = "000"])
     \/ Set(w, [files[w] EXCEPT !.step = "unstaging", !.faults = @ \cup {"chmod"}])
  /\ UNCHANGED outputs

Unstage(w) ==
  /\ files[w].step = "unstaging"
  /\ \/ Set(w, [files[w] EXCEPT !.step = "unpublishing", !.staged = FALSE])
     \/ Goto(w, "unpublishing")
  /\ UNCHANGED outputs

(* Slip: whatever has the output's name is removed.                        *)
UnpublishAny(w, path) ==
  /\ files[w].step = "unpublishing"
  /\ outputs' = [outputs EXCEPT ![path] = NoFile]
  /\ Goto(w, "failed")

(* The output path is removed if it leads to the file of this very call.   *)
Unpublish(w, path) ==
  /\ files[w].step = "unpublishing"
  /\ \/ /\ outputs' = [outputs EXCEPT ![path] = IF @ = w THEN NoFile ELSE @]
        /\ Goto(w, "failed")
     \/ /\ outputs[path] = w
        /\ Set(w, [files[w] EXCEPT !.step = "failed", !.faults = @ \cup {"unlink"}])
        /\ UNCHANGED outputs

(* Another program publishes a file of its own, as carefully.              *)
PutForeign(path) ==
  /\ outputs[path] = NoFile
  /\ outputs' = [outputs EXCEPT ![path] = Foreign]
  /\ UNCHANGED files

SafeWriteStep(w, path) ==
  \/ Open(w) \/ Write(w) \/ Link(w, path) \/ Commit(w) \/ Break(w) \/ Finish(w)
  \/ Truncate(w) \/ Revoke(w) \/ Unstage(w) \/ Unpublish(w, path)

FilesInit ==
  /\ outputs = [path \in Paths |-> NoFile]
  /\ files = [w \in Writers |-> NewFile]

FilesTypeOK ==
  /\ outputs \in [Paths -> Writers \cup {NoFile, Foreign}]
  /\ files \in [Writers -> File]

-----------------------------------------------------------------------------
(* Operations                                                              *)

(* #runOperation up to the first await; a PDF call queues itself behind    *)
(* the last one.  When the service is closing, the call is refused, which  *)
(* changes nothing.                                                        *)
Admit(c) ==
  /\ Alive /\ transport = "up" /\ calls[c].pc = "new"
  /\ service = "open"
  /\ active' = active + 1
  /\ IF c \in PdfCalls
     THEN calls' = [calls EXCEPT ![c] = [@ EXCEPT !.pc = "queued", !.previous = tail]]
          /\ tail' = c
     ELSE calls' = [calls EXCEPT ![c].pc = "working"] /\ UNCHANGED tail
  /\ UNCHANGED <<lifecycle, fileVars>>

(* Slip: a call waits until the one before it has started.                 *)
TakeTurnBehindStarted(c) ==
  /\ Alive /\ calls[c].pc = "queued"
  /\ calls[c].previous \in {Nobody} \cup {d \in Calls : calls[d].pc # "queued"}
  /\ calls' = [calls EXCEPT ![c].pc = "working"]
  /\ UNCHANGED <<lifecycle, active, tail, fileVars>>

(* await previous                                                          *)
TakeTurn(c) ==
  /\ Alive /\ calls[c].pc = "queued"
  /\ calls[c].previous \in {Nobody} \cup {d \in Calls : calls[d].released}
  /\ calls' = [calls EXCEPT ![c].pc = "working"]
  /\ UNCHANGED <<lifecycle, active, tail, fileVars>>

(* The output is produced and published, or something fails before that.   *)
Publish(c) ==
  /\ Alive /\ c \in Writers /\ calls[c].pc = "working"
  /\ SafeWriteStep(c, Path[c])
  /\ UNCHANGED <<lifecycle, operations>>

(* Slip: only a PDF call that succeeds lets the next one go.               *)
EndUnreleased(c) ==
  /\ Alive /\ calls[c].pc = "working" /\ ~Busy(c)
  /\ active' = active - 1
  /\ calls' = [calls EXCEPT ![c] = [@ EXCEPT !.pc = "done",
                              !.released = Succeeded(c)]]
  /\ UNCHANGED <<lifecycle, tail, fileVars>>

(* Slip: an operation that throws stays counted.                           *)
EndCounted(c) ==
  /\ Alive /\ calls[c].pc = "working" /\ ~Busy(c)
  /\ active' = IF Succeeded(c) THEN active - 1 ELSE active
  /\ calls' = [calls EXCEPT ![c] = [@ EXCEPT !.pc = "done", !.released = TRUE]]
  /\ UNCHANGED <<lifecycle, tail, fileVars>>

(* The finally blocks of #serializePdfOperation and #runOperation; a call  *)
(* that never came to its output failed before.                            *)
End(c) ==
  /\ Alive /\ calls[c].pc = "working" /\ ~Busy(c)
  /\ active' = active - 1
  /\ calls' = [calls EXCEPT ![c] = [@ EXCEPT !.pc = "done", !.released = TRUE]]
  /\ UNCHANGED <<lifecycle, tail, fileVars>>

-----------------------------------------------------------------------------
(* The lifecycle                                                           *)

Requested == IF shutdown = "none" THEN "waiting" ELSE shutdown

(* SIGINT or SIGTERM                                                       *)
Signal ==
  /\ Alive /\ shutdown' = Requested
  /\ UNCHANGED <<main, transport, service, operations, fileVars>>

(* The client goes away.                                                   *)
TransportCloses ==
  /\ Alive /\ transport = "up"
  /\ transport' = "down" /\ shutdown' = Requested
  /\ UNCHANGED <<main, service, operations, fileVars>>

Connect ==
  /\ main = "connecting"
  /\ main' = "serving" /\ transport' = "up"
  /\ UNCHANGED <<shutdown, service, operations, fileVars>>

ConnectFails ==
  /\ main = "connecting"
  /\ main' = "failing" /\ shutdown' = Requested
  /\ UNCHANGED <<transport, service, operations, fileVars>>

(* Slip: the shutdown does not wait for the connection.                    *)
CloseServerAtOnce ==
  /\ Alive /\ shutdown = "waiting"
  /\ \/ transport' = "down"
     \/ UNCHANGED transport
  /\ shutdown' = "server"
  /\ UNCHANGED <<main, service, operations, fileVars>>

(* await connectPromise, then closeServer, which may fail                  *)
CloseServer ==
  /\ Alive /\ shutdown = "waiting" /\ main # "connecting"
  /\ \/ transport' = "down" /\ shutdown' = "server"
     \/ UNCHANGED transport /\ shutdown' = "serverFailed"
  /\ UNCHANGED <<main, service, operations, fileVars>>

(* close() of the service: no operation is admitted from here on           *)
CloseService ==
  /\ Alive /\ shutdown \in {"server", "serverFailed"} /\ service = "open"
  /\ service' = "closing"
  /\ UNCHANGED <<main, transport, shutdown, operations, fileVars>>

(* Slip: the store is closed while operations are running.                 *)
ServiceClosesAtOnce ==
  /\ Alive /\ service = "closing"
  /\ service' = "closed" /\ shutdown' = "closed"
  /\ UNCHANGED <<main, transport, operations, fileVars>>

(* ... and the store is closed, well or not, when the last one is done.    *)
ServiceCloses ==
  /\ Alive /\ service = "closing" /\ shutdown \in {"server", "serverFailed"}
  /\ active = 0
  /\ \/ service' = "closed"
        /\ shutdown' = IF shutdown = "server" THEN "closed" ELSE "failed"
     \/ UNCHANGED service /\ shutdown' = "failed"
  /\ UNCHANGED <<main, transport, operations, fileVars>>

(* runMcpLifecycle awaits completion, in its catch block the shutdown.     *)
Return ==
  /\ main \in {"serving", "failing"} /\ shutdown \in {"closed", "failed"}
  /\ main' = "ended"
  /\ UNCHANGED <<transport, shutdown, service, operations, fileVars>>

Init ==
  /\ main = "connecting" /\ transport = "down"
  /\ shutdown = "none" /\ service = "open"
  /\ active = 0 /\ tail = Nobody
  /\ calls = [c \in Calls |-> [pc |-> "new", previous |-> Nobody, released |-> FALSE]]
  /\ FilesInit

Work(c) == TakeTurn(c) \/ Publish(c) \/ End(c)

Lifecycle ==
  \/ Connect \/ ConnectFails \/ CloseServer \/ CloseService \/ ServiceCloses
  \/ Return

Next ==
  \/ \E c \in Calls : Admit(c) \/ Work(c)
  \/ Signal \/ TransportCloses \/ Lifecycle
  \/ Alive /\ \E path \in Paths : PutForeign(path) /\ UNCHANGED <<lifecycle, operations>>

(* Every await settles, and the event loop gets to every promise that did. *)
Spec ==
  /\ Init /\ [][Next]_vars
  /\ WF_vars(Lifecycle) /\ \A c \in Calls : WF_vars(Work(c))

-----------------------------------------------------------------------------
(* Properties                                                              *)

(* Types; the counter of the service counts the calls that are running.    *)
TypeOK ==
  /\ FilesTypeOK
  /\ main \in {"connecting", "serving", "failing", "ended"}
  /\ transport \in {"up", "down"}
  /\ shutdown \in {"none", "waiting", "server", "serverFailed", "closed", "failed"}
  /\ service \in {"open", "closing", "closed"}
  /\ active = Cardinality({c \in Calls : Running(c)})
  /\ tail \in Calls \cup {Nobody}

(* "Transport closure, SIGINT, and SIGTERM stop new work, drain active     *)
(* operations, close the durable store [...] before the process exits":    *)
(* in whatever order connection, signals, failures and the client's end    *)
(* came, nothing is running, nothing more can arrive and no staging file   *)
(* is being written when the lifecycle returns.                            *)
EndedMeansDrained ==
  main = "ended" =>
    /\ \A c \in Calls : ~Running(c) /\ ~Busy(c)
    /\ service # "open"
    /\ shutdown = "closed" => transport = "down" /\ service = "closed"

(* At most one PDF operation works at a time, however they fail.           *)
PdfCallsWorkAlone ==
  \A c, d \in PdfCalls :
    calls[c].pc = "working" /\ calls[d].pc = "working" => c = d

(* Operations are counted, PDFs take turns, and the end waits for all.     *)
OperationsAreAccounted == TypeOK /\ PdfCallsWorkAlone /\ EndedMeansDrained

(* At any instant, a kill included: a path never leads to the beginning of *)
(* an output, and one that was reported is whole, readable and in place.   *)
OutputsAreWhole ==
  \A c \in Writers :
    /\ outputs[Path[c]] = c => files[c].data # "partial"
    /\ files[c].step = "succeeded" =>
         /\ outputs[Path[c]] = c
         /\ files[c].data = "whole" /\ files[c].mode = "600"

(* Three things stand between the output of a failed operation and its     *)
(* readers: it is readable only if all three have failed.                  *)
FailedOutputsAreUnreadable ==
  \A c \in Writers :
    LET file == files[c] IN
    file.step = "failed" /\ outputs[Path[c]] = c /\ file.data # "empty" /\ file.mode # "000"
      => {"truncate", "chmod", "unlink"} \subseteq file.faults

(* A reader finds all of an output, or of a failed one nothing.            *)
OutputsAreSafe == OutputsAreWhole /\ FailedOutputsAreUnreadable

(* "The server refuses overwrites", and its cleanup takes nothing but its  *)
(* own: the file of another program, or a reported output, stays.          *)
OthersFilesStay ==
  [][\A path \in Paths :
       LET w == outputs[path] IN
       (w = Foreign \/ (w \in Writers /\ files[w].step = "succeeded")) =>
         outputs'[path] = w]_vars

(* A shutdown that was asked for comes to its end: no operation, queued or *)
(* running, and no failure of any kind keeps it waiting.                   *)
ShutdownEnds == shutdown # "none" ~> ~Alive

(* Every call that was admitted is answered.                               *)
CallsEnd == \A c \in Calls : Running(c) ~> ~Running(c)

(* Nobody waits for ever.                                                  *)
EverythingEnds == ShutdownEnds /\ CallsEnd
=============================================================================
