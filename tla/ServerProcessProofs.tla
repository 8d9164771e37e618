------------------------ MODULE ServerProcessProofs ------------------------
(***************************************************************************)
(* Safety of ServerProcess, and of the outputs its operations publish with *)
(* safeWrite, for any calls, output paths and writers.                     *)
(***************************************************************************)
EXTENDS ServerProcess, FiniteSetTheorems, TLAPS

-----------------------------------------------------------------------------
(* The inductive invariant                                                 *)

(* What a file is at each step of safeWrite, on the disk and at its path.  *)
FileInv(w) ==
  /\ files[w].step \in {"none", "opened", "written"} => outputs[Path[w]] # w
  /\ files[w].step = "written" => files[w].data = "whole"
  /\ files[w].step \in {"linked", "committed", "succeeded"} =>
       outputs[Path[w]] = w /\ files[w].data = "whole"
  /\ files[w].step \in {"committed", "succeeded"} => files[w].mode = "600"
  /\ outputs[Path[w]] = w => files[w].data # "partial"
  /\ outputs[Path[w]] = w /\ files[w].data # "empty"
       /\ files[w].step \in {"restricting", "unstaging", "unpublishing", "failed"} =>
       "truncate" \in files[w].faults
  /\ outputs[Path[w]] = w /\ files[w].mode # "000"
       /\ files[w].step \in {"unstaging", "unpublishing", "failed"} =>
       "chmod" \in files[w].faults
  /\ outputs[Path[w]] = w /\ files[w].step = "failed" =>
       "unlink" \in files[w].faults

FilesInv ==
  /\ FilesTypeOK
  /\ \A w \in Writers : FileInv(w) /\ (Writing(w) => calls[w].pc = "working")

RunningCalls == {c \in Calls : Running(c)}

Call == [pc : {"new", "queued", "working", "done"},
         previous : Calls \cup {Nobody}, released : BOOLEAN]

Admitted == {c \in PdfCalls : calls[c].pc # "new"}

(* The PDF calls that were admitted stand in a line of n places; the first *)
(* k are done, and only the next one may work.                             *)
InLine(place, n, k) ==
  /\ n \in Nat /\ k \in Nat /\ k <= n
  /\ place \in [Calls -> Nat]
  /\ \A c \in Admitted : 1 <= place[c] /\ place[c] <= n
  /\ \A c, d \in Admitted : place[c] = place[d] => c = d
  /\ tail = Nobody => n = 0
  /\ tail # Nobody => tail \in Admitted /\ place[tail] = n
  /\ \A c \in Admitted :
       /\ calls[c].previous = Nobody => place[c] = 1
       /\ calls[c].previous # Nobody =>
            calls[c].previous \in Admitted /\ place[c] = place[calls[c].previous] + 1
       /\ calls[c].pc = "done" <=> place[c] <= k
       /\ calls[c].pc = "working" => place[c] = k + 1

LineInv == \E place, n, k : InLine(place, n, k)

OperationsInv ==
  /\ calls \in [Calls -> Call] /\ tail \in Calls \cup {Nobody}
  /\ \A c \in Calls : calls[c].released <=> calls[c].pc = "done"
  /\ IsFiniteSet(RunningCalls) /\ active = Cardinality(RunningCalls)
  /\ LineInv

LifecycleInv ==
  /\ main \in {"connecting", "serving", "failing", "ended"}
  /\ transport \in {"up", "down"}
  /\ shutdown \in {"none", "waiting", "server", "serverFailed", "closed", "failed"}
  /\ service \in {"open", "closing", "closed"}
  /\ shutdown \in {"server", "serverFailed", "closed", "failed"} => main # "connecting"
  /\ main = "ended" => shutdown \in {"closed", "failed"}
  /\ shutdown \in {"closed", "failed"} => service # "open" /\ active = 0
  /\ shutdown \in {"server", "closed"} => transport = "down"
  /\ shutdown = "closed" => service = "closed"

IndInv == FilesInv /\ OperationsInv /\ LifecycleInv

-----------------------------------------------------------------------------
(* Files                                                                   *)

LEMMA NewFileIsFile == NewFile \in File
BY DEF NewFile, File, Steps

(* A step of one call neither gives the path of another to its file nor    *)
(* takes it away.                                                          *)
LEMMA OthersKeepTheirPath ==
  ASSUME FilesInv, NEW c \in Writers, SafeWriteStep(c, Path[c]),
         NEW w \in Writers, w # c
  PROVE  /\ files'[w] = files[w]
         /\ outputs'[Path[w]] = w <=> outputs[Path[w]] = w
<1>1. Path[c] \in Paths /\ Path[w] \in Paths
  BY ServerAssumption
<1>2. /\ files \in [Writers -> File] /\ outputs \in [Paths -> Writers \cup {NoFile, Foreign}]
      /\ w # NoFile
  BY SafeWriteAssumption DEF FilesInv, FilesTypeOK
<1> QED
  BY <1>1, <1>2 DEF SafeWriteStep, Open, Write, Link, Commit, Break, Finish, Truncate,
     Revoke, Unstage, Unpublish, Set, Goto

(* A step that gives the call's file a new description.                    *)
LEMMA FileBecomes ==
  ASSUME FilesInv, NEW c \in Writers, NEW file \in File, Set(c, file),
         outputs' \in [Paths -> Writers \cup {NoFile, Foreign}]
  PROVE  FilesTypeOK' /\ files'[c] = file
BY DEF FilesInv, FilesTypeOK, Set

(* Each step of safeWrite leaves its file as the next step expects it.     *)
LEMMA StepKeepsFile ==
  ASSUME FilesInv, NEW c \in Writers, SafeWriteStep(c, Path[c])
  PROVE  FilesTypeOK' /\ FileInv(c)'
<1> DEFINE old == files[c]
<1>1. /\ outputs \in [Paths -> Writers \cup {NoFile, Foreign}] /\ FileInv(c)
      /\ old \in File /\ Path[c] \in Paths /\ c # NoFile
  BY ServerAssumption, SafeWriteAssumption DEF FilesInv, FilesTypeOK
<1>2. CASE Open(c)
  <2>1. CASE Set(c, [NewFile EXCEPT !.step = "opened", !.staged = TRUE])
    <3> DEFINE file == [NewFile EXCEPT !.step = "opened", !.staged = TRUE]
    <3>1. outputs' = outputs /\ old.step = "none"
      BY <1>2 DEF Open
    <3>2. file \in File /\ file.step = "opened" /\ file.data = "empty"
      BY NewFileIsFile DEF NewFile, File, Steps
    <3> HIDE DEF file
    <3> QED
      BY <1>1, <2>1, <3>1, <3>2, FileBecomes DEF FileInv, file
  <2>2. CASE Goto(c, "failed")
    <3> DEFINE file == [files[c] EXCEPT !.step = "failed"]
    <3>1. Set(c, file) /\ outputs' = outputs
          /\ old.step = "none"
      BY <1>2, <2>2 DEF Open, Set, Goto
    <3>2. /\ file \in File
          /\ file.step = "failed" /\ file.data = old.data
          /\ file.mode = old.mode /\ file.faults = old.faults
      BY <1>1 DEF File, Steps, Faults
    <3> HIDE DEF file
    <3> QED
      BY <1>1, <3>1, <3>2, FileBecomes DEF FileInv
  <2> QED
    BY <1>2, <2>1, <2>2 DEF Open
<1>3. CASE Write(c)
  <2> DEFINE file == [files[c] EXCEPT !.step = "written", !.data = "whole"]
  <2>1. Set(c, file) /\ outputs' = outputs
        /\ old.step = "opened"
    BY <1>3 DEF Write, Set, Goto
  <2>2. /\ file \in File
        /\ file.step = "written" /\ file.data = "whole"
        /\ file.mode = old.mode /\ file.faults = old.faults
    BY <1>1 DEF File, Steps, Faults
  <2> HIDE DEF file
  <2> QED
    BY <1>1, <2>1, <2>2, FileBecomes DEF FileInv
<1>4. CASE Link(c, Path[c])
  <2> DEFINE file == [files[c] EXCEPT !.step = "linked"]
  <2>1. Set(c, file) /\ outputs' = [outputs EXCEPT ![Path[c]] = c] /\ outputs[Path[c]] = NoFile
        /\ old.step = "written"
    BY <1>4 DEF Link, Set, Goto
  <2>2. /\ file \in File
        /\ file.step = "linked" /\ file.data = old.data
        /\ file.mode = old.mode /\ file.faults = old.faults
    BY <1>1 DEF File, Steps, Faults
  <2> HIDE DEF file
  <2> QED
    BY <1>1, <2>1, <2>2, FileBecomes DEF FileInv
<1>5. CASE Commit(c)
  <2> DEFINE file == [files[c] EXCEPT !.step = "committed", !.mode = "600"]
  <2>1. Set(c, file) /\ outputs' = outputs
        /\ old.step = "linked"
    BY <1>5 DEF Commit, Set, Goto
  <2>2. /\ file \in File
        /\ file.step = "committed" /\ file.data = old.data
        /\ file.mode = "600" /\ file.faults = old.faults
    BY <1>1 DEF File, Steps, Faults
  <2> HIDE DEF file
  <2> QED
    BY <1>1, <2>1, <2>2, FileBecomes DEF FileInv
<1>6. CASE Break(c)
  <2>1. CASE old.step = "opened"
    <3> DEFINE file == [files[c] EXCEPT !.step = "truncating", !.data = "partial"]
    <3>1. Set(c, file) /\ outputs' = outputs
          /\ old.step = "opened"
      BY <1>6, <2>1 DEF Break, Set, Goto
    <3>2. /\ file \in File
          /\ file.step = "truncating" /\ file.data = "partial"
          /\ file.mode = old.mode /\ file.faults = old.faults
      BY <1>1 DEF File, Steps, Faults
    <3> HIDE DEF file
    <3> QED
      BY <1>1, <3>1, <3>2, FileBecomes DEF FileInv
  <2>2. CASE old.step = "written"
    <3> DEFINE file == [files[c] EXCEPT !.step = "truncating"]
    <3>1. Set(c, file) /\ outputs' = outputs
          /\ old.step = "written"
      BY <1>6, <2>2 DEF Break, Set, Goto
    <3>2. /\ file \in File
          /\ file.step = "truncating" /\ file.data = old.data
          /\ file.mode = old.mode /\ file.faults = old.faults
      BY <1>1 DEF File, Steps, Faults
    <3> HIDE DEF file
    <3> QED
      BY <1>1, <3>1, <3>2, FileBecomes DEF FileInv
  <2>3. ASSUME NEW mode \in {"400", "600"},
             Set(c, [files[c] EXCEPT !.step = "truncating", !.mode = mode])
      PROVE  old.step = "linked" => FilesTypeOK' /\ FileInv(c)'
    <3> DEFINE file == [files[c] EXCEPT !.step = "truncating", !.mode = mode]
    <3>1. Set(c, file) /\ outputs' = outputs
      BY <1>6, <2>3 DEF Break
    <3>2. /\ file \in File /\ file.step = "truncating" /\ file.data = old.data
      BY <1>1 DEF File, Steps
    <3> HIDE DEF file
    <3> QED
      BY <1>1, <3>1, <3>2, FileBecomes DEF FileInv
  <2> QED
    BY <1>6, <2>1, <2>2, <2>3 DEF Break
<1>7. CASE Finish(c)
  <2>1. CASE Set(c, [files[c] EXCEPT !.step = "succeeded", !.staged = FALSE])
    <3> DEFINE file == [files[c] EXCEPT !.step = "succeeded", !.staged = FALSE]
    <3>1. Set(c, file) /\ outputs' = outputs
          /\ old.step = "committed"
      BY <1>7, <2>1 DEF Finish, Set, Goto
    <3>2. /\ file \in File
          /\ file.step = "succeeded" /\ file.data = old.data
          /\ file.mode = old.mode /\ file.faults = old.faults
      BY <1>1 DEF File, Steps, Faults
    <3> HIDE DEF file
    <3> QED
      BY <1>1, <3>1, <3>2, FileBecomes DEF FileInv
  <2>2. CASE Goto(c, "succeeded")
    <3> DEFINE file == [files[c] EXCEPT !.step = "succeeded"]
    <3>1. Set(c, file) /\ outputs' = outputs
          /\ old.step = "committed"
      BY <1>7, <2>2 DEF Finish, Set, Goto
    <3>2. /\ file \in File
          /\ file.step = "succeeded" /\ file.data = old.data
          /\ file.mode = old.mode /\ file.faults = old.faults
      BY <1>1 DEF File, Steps, Faults
    <3> HIDE DEF file
    <3> QED
      BY <1>1, <3>1, <3>2, FileBecomes DEF FileInv
  <2> QED
    BY <1>7, <2>1, <2>2 DEF Finish
<1>8. CASE Truncate(c)
  <2>1. CASE Set(c, [files[c] EXCEPT !.step = "restricting", !.data = "empty"])
    <3> DEFINE file == [files[c] EXCEPT !.step = "restricting", !.data = "empty"]
    <3>1. Set(c, file) /\ outputs' = outputs
          /\ old.step = "truncating"
      BY <1>8, <2>1 DEF Truncate, Set, Goto
    <3>2. /\ file \in File
          /\ file.step = "restricting" /\ file.data = "empty"
          /\ file.mode = old.mode /\ file.faults = old.faults
      BY <1>1 DEF File, Steps, Faults
    <3> HIDE DEF file
    <3> QED
      BY <1>1, <3>1, <3>2, FileBecomes DEF FileInv
  <2>2. CASE Set(c, [files[c] EXCEPT !.step = "restricting", !.faults = @ \cup {"truncate"}])
    <3> DEFINE file == [files[c] EXCEPT !.step = "restricting", !.faults = @ \cup {"truncate"}]
    <3>1. Set(c, file) /\ outputs' = outputs
          /\ old.step = "truncating"
      BY <1>8, <2>2 DEF Truncate, Set, Goto
    <3>2. /\ file \in File
          /\ file.step = "restricting" /\ file.data = old.data
          /\ file.mode = old.mode /\ file.faults = old.faults \cup {"truncate"}
      BY <1>1 DEF File, Steps, Faults
    <3> HIDE DEF file
    <3> QED
      BY <1>1, <3>1, <3>2, FileBecomes DEF FileInv
  <2> QED
    BY <1>8, <2>1, <2>2 DEF Truncate
<1>9. CASE Revoke(c)
  <2>1. CASE Set(c, [files[c] EXCEPT !.step = "unstaging", !.mode = "000"])
    <3> DEFINE file == [files[c] EXCEPT !.step = "unstaging", !.mode = "000"]
    <3>1. Set(c, file) /\ outputs' = outputs
          /\ old.step = "restricting"
      BY <1>9, <2>1 DEF Revoke, Set, Goto
    <3>2. /\ file \in File
          /\ file.step = "unstaging" /\ file.data = old.data
          /\ file.mode = "000" /\ file.faults = old.faults
      BY <1>1 DEF File, Steps, Faults
    <3> HIDE DEF file
    <3> QED
      BY <1>1, <3>1, <3>2, FileBecomes DEF FileInv
  <2>2. CASE Set(c, [files[c] EXCEPT !.step = "unstaging", !.faults = @ \cup {"chmod"}])
    <3> DEFINE file == [files[c] EXCEPT !.step = "unstaging", !.faults = @ \cup {"chmod"}]
    <3>1. Set(c, file) /\ outputs' = outputs
          /\ old.step = "restricting"
      BY <1>9, <2>2 DEF Revoke, Set, Goto
    <3>2. /\ file \in File
          /\ file.step = "unstaging" /\ file.data = old.data
          /\ file.mode = old.mode /\ file.faults = old.faults \cup {"chmod"}
      BY <1>1 DEF File, Steps, Faults
    <3> HIDE DEF file
    <3> QED
      BY <1>1, <3>1, <3>2, FileBecomes DEF FileInv
  <2> QED
    BY <1>9, <2>1, <2>2 DEF Revoke
<1>10. CASE Unstage(c)
  <2>1. CASE Set(c, [files[c] EXCEPT !.step = "unpublishing", !.staged = FALSE])
    <3> DEFINE file == [files[c] EXCEPT !.step = "unpublishing", !.staged = FALSE]
    <3>1. Set(c, file) /\ outputs' = outputs
          /\ old.step = "unstaging"
      BY <1>10, <2>1 DEF Unstage, Set, Goto
    <3>2. /\ file \in File
          /\ file.step = "unpublishing" /\ file.data = old.data
          /\ file.mode = old.mode /\ file.faults = old.faults
      BY <1>1 DEF File, Steps, Faults
    <3> HIDE DEF file
    <3> QED
      BY <1>1, <3>1, <3>2, FileBecomes DEF FileInv
  <2>2. CASE Goto(c, "unpublishing")
    <3> DEFINE file == [files[c] EXCEPT !.step = "unpublishing"]
    <3>1. Set(c, file) /\ outputs' = outputs
          /\ old.step = "unstaging"
      BY <1>10, <2>2 DEF Unstage, Set, Goto
    <3>2. /\ file \in File
          /\ file.step = "unpublishing" /\ file.data = old.data
          /\ file.mode = old.mode /\ file.faults = old.faults
      BY <1>1 DEF File, Steps, Faults
    <3> HIDE DEF file
    <3> QED
      BY <1>1, <3>1, <3>2, FileBecomes DEF FileInv
  <2> QED
    BY <1>10, <2>1, <2>2 DEF Unstage
<1>11. CASE Unpublish(c, Path[c])
  <2>1. CASE outputs' = [outputs EXCEPT ![Path[c]] = IF @ = c THEN NoFile ELSE @] /\ Goto(c, "failed")
    <3> DEFINE file == [files[c] EXCEPT !.step = "failed"]
    <3>1. Set(c, file) /\ outputs' = [outputs EXCEPT ![Path[c]] = IF @ = c THEN NoFile ELSE @]
          /\ old.step = "unpublishing"
      BY <1>11, <2>1 DEF Unpublish, Set, Goto
    <3>2. /\ file \in File
          /\ file.step = "failed" /\ file.data = old.data
          /\ file.mode = old.mode /\ file.faults = old.faults
      BY <1>1 DEF File, Steps, Faults
    <3> HIDE DEF file
    <3> QED
      BY <1>1, <3>1, <3>2, FileBecomes DEF FileInv
  <2>2. CASE /\ Set(c, [files[c] EXCEPT !.step = "failed", !.faults = @ \cup {"unlink"}])
             /\ outputs[Path[c]] = c /\ UNCHANGED outputs
    <3> DEFINE file == [files[c] EXCEPT !.step = "failed", !.faults = @ \cup {"unlink"}]
    <3>1. Set(c, file) /\ outputs' = outputs /\ outputs[Path[c]] = c
          /\ old.step = "unpublishing"
      BY <1>11, <2>2 DEF Unpublish, Set, Goto
    <3>2. /\ file \in File
          /\ file.step = "failed" /\ file.data = old.data
          /\ file.mode = old.mode /\ file.faults = old.faults \cup {"unlink"}
      BY <1>1 DEF File, Steps, Faults
    <3> HIDE DEF file
    <3> QED
      BY <1>1, <3>1, <3>2, FileBecomes DEF FileInv
  <2> QED
    BY <1>11, <2>1, <2>2 DEF Unpublish
<1> QED
  BY <1>2, <1>3, <1>4, <1>5, <1>6, <1>7, <1>8, <1>9, <1>10, <1>11 DEF SafeWriteStep

LEMMA PublishKeepsFiles ==
  ASSUME IndInv, NEW c \in Calls, Publish(c)
  PROVE  FilesInv'
<1>1. /\ FilesInv /\ c \in Writers /\ SafeWriteStep(c, Path[c])
      /\ calls[c].pc = "working" /\ calls' = calls
  BY DEF IndInv, Publish, operations
<1>2. FilesTypeOK' /\ FileInv(c)'
  BY <1>1, StepKeepsFile
<1>3. ASSUME NEW w \in Writers, w # c
      PROVE  FileInv(w)' /\ (Writing(w)' => calls'[w].pc = "working")
  BY <1>1, <1>3, OthersKeepTheirPath DEF FilesInv, FileInv, Writing
<1> QED
  BY <1>1, <1>2, <1>3 DEF FilesInv

LEMMA ForeignKeepsFiles ==
  ASSUME IndInv, NEW path \in Paths, PutForeign(path), UNCHANGED calls
  PROVE  FilesInv'
<1>1. /\ FilesTypeOK /\ files' = files /\ outputs[path] = NoFile
      /\ outputs' = [outputs EXCEPT ![path] = Foreign]
  BY DEF IndInv, FilesInv, PutForeign
<1>2. FilesTypeOK'
  BY <1>1 DEF FilesTypeOK
<1>3. ASSUME NEW w \in Writers
      PROVE  FileInv(w)' /\ (Writing(w)' => calls'[w].pc = "working")
  <2>1. outputs'[Path[w]] = w <=> outputs[Path[w]] = w
    BY <1>1, ServerAssumption, SafeWriteAssumption DEF FilesTypeOK
  <2> QED
    BY <1>1, <2>1 DEF IndInv, FilesInv, FileInv, Writing
<1> QED
  BY <1>2, <1>3 DEF FilesInv

(* Files do not change when nothing is written, and a call that is served  *)
(* goes on working for as long as it writes.                               *)
LEMMA FilesStay ==
  ASSUME IndInv, UNCHANGED fileVars,
         \A w \in Writers : Writing(w) => calls'[w].pc = "working"
  PROVE  FilesInv'
BY DEF IndInv, FilesInv, FilesTypeOK, FileInv, Writing, fileVars

-----------------------------------------------------------------------------
(* Operations                                                              *)

LEMMA OperationsStay ==
  ASSUME IndInv, UNCHANGED operations
  PROVE  OperationsInv'
<1>1. UNCHANGED <<active, calls, tail>>
  BY DEF operations
<1>2. LineInv'
  <2>1. PICK place, n, k : InLine(place, n, k)
    BY DEF IndInv, OperationsInv, LineInv
  <2>2. Admitted' = Admitted
    BY <1>1 DEF Admitted
  <2>3. InLine(place, n, k)'
    BY <1>1, <2>1, <2>2 DEF InLine
  <2> QED
    BY <2>3 DEF LineInv
<1> QED
  BY <1>1, <1>2 DEF IndInv, OperationsInv, RunningCalls, Running

LEMMA AdmitKeepsCount ==
  ASSUME IndInv, NEW c \in Calls, Admit(c)
  PROVE  /\ IsFiniteSet(RunningCalls)' /\ active' = Cardinality(RunningCalls)'
         /\ calls' \in [Calls -> Call] /\ tail' \in Calls \cup {Nobody}
         /\ calls'[c].pc \in {"queued", "working"} /\ ~calls[c].released
         /\ calls'[c].released = calls[c].released
         /\ \A d \in Calls \ {c} : calls'[d] = calls[d]
<1>1. /\ calls \in [Calls -> Call] /\ tail \in Calls \cup {Nobody} /\ calls[c] \in Call
      /\ IsFiniteSet(RunningCalls) /\ active = Cardinality(RunningCalls)
      /\ calls[c].pc = "new" /\ active' = active + 1 /\ ~calls[c].released
  BY DEF IndInv, OperationsInv, Admit
<1>2. /\ calls' \in [Calls -> Call] /\ calls'[c].pc \in {"queued", "working"}
      /\ calls'[c].released = calls[c].released /\ tail' \in Calls \cup {Nobody}
      /\ \A d \in Calls \ {c} : calls'[d] = calls[d]
  <2>1. CASE c \in PdfCalls
    <3> DEFINE call == [calls[c] EXCEPT !.pc = "queued", !.previous = tail]
    <3>1. calls' = [calls EXCEPT ![c] = call] /\ tail' = c
      BY <2>1 DEF Admit
    <3>2. call \in Call /\ call.pc = "queued" /\ call.released = calls[c].released
      BY <1>1 DEF Call
    <3> HIDE DEF call
    <3> QED
      BY <1>1, <3>1, <3>2
  <2>2. CASE c \notin PdfCalls
    <3> DEFINE call == [calls[c] EXCEPT !.pc = "working"]
    <3>1. calls' = [calls EXCEPT ![c] = call] /\ tail' = tail
      BY <2>2 DEF Admit
    <3>2. call \in Call /\ call.pc = "working" /\ call.released = calls[c].released
      BY <1>1 DEF Call
    <3> HIDE DEF call
    <3> QED
      BY <1>1, <3>1, <3>2
  <2> QED
    BY <2>1, <2>2
<1>3. c \notin RunningCalls /\ RunningCalls' = RunningCalls \cup {c}
  BY <1>1, <1>2 DEF RunningCalls, Running
<1>4. /\ IsFiniteSet(RunningCalls \cup {c})
      /\ Cardinality(RunningCalls \cup {c}) = Cardinality(RunningCalls) + 1
  BY <1>1, <1>3, FS_AddElement
<1> QED
  BY <1>1, <1>2, <1>3, <1>4

LEMMA AdmitKeepsLine ==
  ASSUME IndInv, NEW c \in Calls, Admit(c)
  PROVE  LineInv'
<1>1. /\ calls \in [Calls -> Call] /\ calls[c] \in Call /\ calls[c].pc = "new"
      /\ Nobody \notin Calls /\ PdfCalls \subseteq Calls
      /\ tail \in Calls \cup {Nobody}
  BY ServerAssumption DEF IndInv, OperationsInv, Admit
<1>2. PICK place, n, k : InLine(place, n, k)
  BY DEF IndInv, OperationsInv, LineInv
<1>3. \A d \in Calls \ {c} : calls'[d] = calls[d]
  BY AdmitKeepsCount
<1>4. CASE c \notin PdfCalls
  <2>1. tail' = tail /\ Admitted' = Admitted /\ \A d \in Admitted : calls'[d] = calls[d]
    BY <1>1, <1>3, <1>4 DEF Admit, Admitted
  <2>2. InLine(place, n, k)'
    BY <1>1, <1>2, <2>1 DEF InLine
  <2> QED
    BY <2>2 DEF LineInv
<1>5. CASE c \in PdfCalls
  <2> DEFINE spot == [place EXCEPT ![c] = n + 1]
  <2>1. /\ tail' = c /\ calls'[c].pc = "queued" /\ calls'[c].previous = tail
    <3> DEFINE call == [calls[c] EXCEPT !.pc = "queued", !.previous = tail]
    <3>1. calls' = [calls EXCEPT ![c] = call] /\ tail' = c
      BY <1>5 DEF Admit
    <3>2. call.pc = "queued" /\ call.previous = tail
      BY <1>1 DEF Call
    <3> HIDE DEF call
    <3> QED
      BY <1>1, <3>1, <3>2
  <2>2. Admitted' = Admitted \cup {c} /\ c \notin Admitted
    BY <1>1, <1>3, <1>5, <2>1 DEF Admitted
  <2>3. /\ spot \in [Calls -> Nat] /\ spot[c] = n + 1
        /\ \A d \in Admitted : spot[d] = place[d] /\ calls'[d] = calls[d] /\ d \in Calls
    BY <1>1, <1>2, <1>3, <2>2 DEF InLine, Admitted
  <2>4. /\ n \in Nat /\ k \in Nat /\ k <= n
        /\ \A d \in Admitted : place[d] \in Nat /\ 1 <= place[d] /\ place[d] <= n
    BY <1>1, <1>2 DEF InLine, Admitted
  <2>5. /\ tail = Nobody => n = 0
        /\ tail # Nobody => tail \in Admitted /\ place[tail] = n
    BY <1>2 DEF InLine
  <2> HIDE DEF spot
  <2>6. \A d, e \in Admitted' : spot[d] = spot[e] => d = e
    BY <1>2, <2>2, <2>3, <2>4 DEF InLine
  <2>7. ASSUME NEW d \in Admitted'
        PROVE  /\ calls'[d].previous = Nobody => spot[d] = 1
               /\ calls'[d].previous # Nobody =>
                    /\ calls'[d].previous \in Admitted'
                    /\ spot[d] = spot[calls'[d].previous] + 1
               /\ calls'[d].pc = "done" <=> spot[d] <= k
               /\ calls'[d].pc = "working" => spot[d] = k + 1
    <3>1. CASE d = c
      BY <2>1, <2>2, <2>3, <2>4, <2>5, <3>1
    <3>2. CASE d # c
      BY <1>2, <2>2, <2>3, <3>2 DEF InLine
    <3> QED
      BY <3>1, <3>2
  <2>8. InLine(spot, n + 1, k)'
    BY <1>1, <2>1, <2>2, <2>3, <2>4, <2>6, <2>7 DEF InLine
  <2> QED
    BY <2>8 DEF LineInv
<1> QED
  BY <1>4, <1>5

LEMMA AdmitKeeps ==
  ASSUME IndInv, NEW c \in Calls, Admit(c)
  PROVE  IndInv'
<1>1. OperationsInv'
  BY AdmitKeepsCount, AdmitKeepsLine DEF IndInv, OperationsInv
<1>2. FilesInv'
  BY AdmitKeepsCount, FilesStay, ServerAssumption DEF IndInv, FilesInv, Admit
<1>3. LifecycleInv'
  BY DEF IndInv, LifecycleInv, Admit, lifecycle
<1> QED
  BY <1>1, <1>2, <1>3 DEF IndInv

(* A call that is not the next in line waits for one that is not done.     *)
LEMMA TakeTurnKeeps ==
  ASSUME IndInv, NEW c \in Calls, TakeTurn(c)
  PROVE  IndInv'
<1> DEFINE call == [calls[c] EXCEPT !.pc = "working"]
<1>1. /\ calls \in [Calls -> Call] /\ calls[c] \in Call /\ calls[c].pc = "queued"
      /\ Nobody \notin Calls /\ PdfCalls \subseteq Calls
      /\ \A d \in Calls : calls[d].released <=> calls[d].pc = "done"
  BY ServerAssumption DEF IndInv, OperationsInv, TakeTurn
<1>2. calls' = [calls EXCEPT ![c] = call]
      /\ UNCHANGED <<lifecycle, active, tail, fileVars>>
      /\ calls[c].previous \in {Nobody} \cup {d \in Calls : calls[d].released}
  BY DEF TakeTurn
<1>3. /\ call \in Call /\ call.pc = "working" /\ call.previous = calls[c].previous
      /\ call.released = calls[c].released
  BY <1>1 DEF Call
<1> HIDE DEF call
<1>4. /\ calls' \in [Calls -> Call] /\ calls'[c] = call
      /\ \A d \in Calls \ {c} : calls'[d] = calls[d]
  BY <1>1, <1>2, <1>3
<1>5. RunningCalls' = RunningCalls
  BY <1>1, <1>3, <1>4 DEF RunningCalls, Running
<1>6. Admitted' = Admitted
  BY <1>1, <1>3, <1>4 DEF Admitted
<1>7. LineInv'
  <2>1. PICK place, n, k : InLine(place, n, k)
    BY DEF IndInv, OperationsInv, LineInv
  <2>2. n \in Nat /\ k \in Nat /\ \A d \in Admitted : place[d] \in Nat
    BY <1>1, <2>1 DEF InLine, Admitted
  <2>3. c \in Admitted => place[c] = k + 1
    <3>1. SUFFICES ASSUME c \in Admitted
                   PROVE  place[c] = k + 1
      OBVIOUS
    <3>2. ~(place[c] <= k)
      BY <1>1, <2>1, <3>1 DEF InLine
    <3>3. CASE calls[c].previous = Nobody
      BY <2>1, <2>2, <3>1, <3>2, <3>3 DEF InLine
    <3>4. CASE calls[c].previous # Nobody
      <4> DEFINE before == calls[c].previous
      <4>1. before \in Admitted /\ place[c] = place[before] + 1
        BY <2>1, <3>1, <3>4 DEF InLine
      <4>2. calls[before].pc = "done"
        BY <1>1, <1>2, <3>4
      <4>3. place[before] <= k
        BY <2>1, <4>1, <4>2 DEF InLine
      <4> QED
        BY <2>2, <3>1, <3>2, <4>1, <4>3
    <3> QED
      BY <3>3, <3>4
  <2>4. InLine(place, n, k)'
    BY <1>1, <1>2, <1>3, <1>4, <1>6, <2>1, <2>3 DEF InLine, Admitted
  <2> QED
    BY <2>4 DEF LineInv
<1>8. OperationsInv'
  BY <1>1, <1>2, <1>3, <1>4, <1>5, <1>7 DEF IndInv, OperationsInv
<1>9. FilesInv'
  BY <1>1, <1>2, <1>3, <1>4, FilesStay, ServerAssumption DEF IndInv, FilesInv
<1>10. LifecycleInv'
  BY <1>2 DEF IndInv, LifecycleInv, lifecycle
<1> QED
  BY <1>8, <1>9, <1>10 DEF IndInv

LEMMA EndKeeps ==
  ASSUME IndInv, NEW c \in Calls, End(c)
  PROVE  IndInv'
<1> DEFINE call == [calls[c] EXCEPT !.pc = "done", !.released = TRUE]
<1>1. /\ calls \in [Calls -> Call] /\ calls[c] \in Call /\ calls[c].pc = "working"
      /\ PdfCalls \subseteq Calls /\ ~Busy(c)
      /\ \A d \in Calls : calls[d].released <=> calls[d].pc = "done"
      /\ IsFiniteSet(RunningCalls) /\ active = Cardinality(RunningCalls)
  BY ServerAssumption DEF IndInv, OperationsInv, End
<1>2. calls' = [calls EXCEPT ![c] = call] /\ active' = active - 1
      /\ UNCHANGED <<lifecycle, tail, fileVars>>
  BY DEF End
<1>3. /\ call \in Call /\ call.pc = "done" /\ call.previous = calls[c].previous
      /\ call.released = TRUE
  BY <1>1 DEF Call
<1> HIDE DEF call
<1>4. /\ calls' \in [Calls -> Call] /\ calls'[c] = call
      /\ \A d \in Calls \ {c} : calls'[d] = calls[d]
  BY <1>1, <1>2, <1>3
<1>5. c \in RunningCalls /\ RunningCalls' = RunningCalls \ {c}
  BY <1>1, <1>3, <1>4 DEF RunningCalls, Running
<1>6. /\ IsFiniteSet(RunningCalls)'
      /\ active' = Cardinality(RunningCalls)'
      /\ active \in Nat /\ active # 0
  <2>1. /\ IsFiniteSet(RunningCalls \ {c})
        /\ Cardinality(RunningCalls \ {c}) = Cardinality(RunningCalls) - 1
    BY <1>1, <1>5, FS_RemoveElement
  <2>2. Cardinality(RunningCalls) \in Nat /\ Cardinality(RunningCalls) # 0
    BY <1>1, <1>5, FS_CardinalityType, FS_EmptySet
  <2> QED
    BY <1>1, <1>2, <1>5, <2>1, <2>2
<1>7. Admitted' = Admitted
  BY <1>1, <1>3, <1>4 DEF Admitted
<1>8. LineInv'
  <2>1. PICK place, n, k : InLine(place, n, k)
    BY DEF IndInv, OperationsInv, LineInv
  <2>2. n \in Nat /\ k \in Nat /\ k <= n /\ \A d \in Admitted : place[d] \in Nat
    BY <1>1, <2>1 DEF InLine, Admitted
  <2>3. CASE c \in Admitted
    <3>1. place[c] = k + 1 /\ k + 1 <= n
      BY <1>1, <2>1, <2>2, <2>3 DEF InLine
    <3>2. \A d \in Admitted \ {c} : place[d] # k + 1 /\ calls'[d] = calls[d] /\ d \in Calls
      BY <1>1, <1>4, <2>1, <2>3, <3>1 DEF InLine, Admitted
    <3>3. \A d \in Admitted : calls'[d].previous = calls[d].previous
      BY <1>3, <1>4, <3>2
    <3>4. ASSUME NEW d \in Admitted
          PROVE  /\ calls'[d].pc = "done" <=> place[d] <= k + 1
                 /\ calls'[d].pc = "working" => place[d] = k + 2
      <4>1. CASE d = c
        BY <1>3, <1>4, <2>2, <3>1, <4>1
      <4>2. CASE d # c
        BY <2>1, <2>2, <3>2, <4>2 DEF InLine
      <4> QED
        BY <4>1, <4>2
    <3>5. k + 1 \in Nat /\ (k + 1) + 1 = k + 2
      BY <2>2
    <3>6. InLine(place, n, k + 1)'
      BY <1>2, <1>7, <2>1, <3>1, <3>3, <3>4, <3>5 DEF InLine
    <3> QED
      BY <3>6 DEF LineInv
  <2>4. CASE c \notin Admitted
    <3>1. \A d \in Admitted : calls'[d] = calls[d]
      BY <1>1, <1>4, <2>4 DEF Admitted
    <3>2. InLine(place, n, k)'
      BY <1>2, <1>7, <2>1, <3>1 DEF InLine
    <3> QED
      BY <3>2 DEF LineInv
  <2> QED
    BY <2>3, <2>4
<1>9. OperationsInv'
  BY <1>1, <1>2, <1>3, <1>4, <1>6, <1>8 DEF IndInv, OperationsInv
<1>10. FilesInv'
  BY <1>1, <1>2, <1>3, <1>4, FilesStay, ServerAssumption DEF IndInv, FilesInv, Busy
<1>11. LifecycleInv'
  BY <1>2, <1>6 DEF IndInv, LifecycleInv, lifecycle
<1> QED
  BY <1>9, <1>10, <1>11 DEF IndInv

-----------------------------------------------------------------------------
(* The lifecycle                                                           *)

(* Signals, the transport, the shutdown and the return touch no call and   *)
(* no file.                                                                *)
LEMMA LifecycleStep ==
  ASSUME IndInv, UNCHANGED <<operations, fileVars>>, LifecycleInv'
  PROVE  IndInv'
<1>1. FilesInv'
  BY FilesStay DEF IndInv, FilesInv, operations
<1> QED
  BY <1>1, OperationsStay DEF IndInv

LEMMA SignalKeeps == IndInv /\ Signal => IndInv'
<1> SUFFICES ASSUME IndInv, Signal
             PROVE  IndInv'
  OBVIOUS
<1>1. LifecycleInv'
  BY DEF IndInv, LifecycleInv, Signal, Requested, Alive, operations
<1> QED
  BY <1>1, LifecycleStep DEF Signal

LEMMA TransportClosesKeeps == IndInv /\ TransportCloses => IndInv'
<1> SUFFICES ASSUME IndInv, TransportCloses
             PROVE  IndInv'
  OBVIOUS
<1>1. LifecycleInv'
  BY DEF IndInv, LifecycleInv, TransportCloses, Requested, Alive, operations
<1> QED
  BY <1>1, LifecycleStep DEF TransportCloses

LEMMA LifecycleKeeps == IndInv /\ Lifecycle => IndInv'
<1> SUFFICES ASSUME IndInv, Lifecycle
             PROVE  IndInv'
  OBVIOUS
<1>1. UNCHANGED <<operations, fileVars>>
  BY DEF Lifecycle, Connect, ConnectFails, CloseServer, CloseService, ServiceCloses, Return
<1>2. LifecycleInv /\ active' = active
  BY <1>1 DEF IndInv, operations
<1>3. LifecycleInv'
  <2>1. CASE Connect
    BY <1>2, <2>1 DEF LifecycleInv, Connect
  <2>2. CASE ConnectFails
    BY <1>2, <2>2 DEF LifecycleInv, ConnectFails, Requested
  <2>3. CASE CloseServer
    BY <1>2, <2>3 DEF LifecycleInv, CloseServer, Alive
  <2>4. CASE CloseService
    BY <1>2, <2>4 DEF LifecycleInv, CloseService, Alive
  <2>5. CASE ServiceCloses
    BY <1>2, <2>5 DEF LifecycleInv, ServiceCloses, Alive
  <2>6. CASE Return
    BY <1>2, <2>6 DEF LifecycleInv, Return
  <2> QED
    BY <2>1, <2>2, <2>3, <2>4, <2>5, <2>6 DEF Lifecycle
<1> QED
  BY <1>1, <1>3, LifecycleStep

-----------------------------------------------------------------------------
(* The invariant holds                                                     *)

LEMMA InitIndInv == Init => IndInv
<1> SUFFICES ASSUME Init
             PROVE  IndInv
  OBVIOUS
<1>1. /\ outputs = [path \in Paths |-> NoFile] /\ files = [w \in Writers |-> NewFile]
      /\ calls = [c \in Calls |-> [pc |-> "new", previous |-> Nobody, released |-> FALSE]]
      /\ tail = Nobody /\ active = 0
  BY DEF Init, FilesInit
<1>2. FilesInv
  <2>1. FilesTypeOK
    BY <1>1, NewFileIsFile DEF FilesTypeOK
  <2>2. ASSUME NEW w \in Writers
        PROVE  FileInv(w) /\ ~Writing(w)
    <3>1. files[w].step = "none" /\ outputs[Path[w]] # w
      BY <1>1, ServerAssumption, SafeWriteAssumption DEF NewFile
    <3> QED
      BY <3>1 DEF FileInv, Writing
  <2> QED
    BY <2>1, <2>2 DEF FilesInv
<1>3. OperationsInv
  <2>1. RunningCalls = {} /\ Admitted = {}
    BY <1>1, ServerAssumption DEF RunningCalls, Running, Admitted
  <2>2. InLine([c \in Calls |-> 0], 0, 0)
    BY <1>1, <2>1 DEF InLine
  <2>3. LineInv
    BY <2>2 DEF LineInv
  <2>4. /\ calls \in [Calls -> Call]
        /\ \A c \in Calls : calls[c].released <=> calls[c].pc = "done"
    BY <1>1 DEF Call
  <2> QED
    BY <1>1, <2>1, <2>3, <2>4, FS_EmptySet DEF OperationsInv
<1>4. LifecycleInv
  BY DEF Init, LifecycleInv
<1> QED
  BY <1>2, <1>3, <1>4 DEF IndInv

LEMMA NextIndInv == IndInv /\ [Next]_vars => IndInv'
<1> SUFFICES ASSUME IndInv, [Next]_vars
             PROVE  IndInv'
  OBVIOUS
<1>1. ASSUME NEW c \in Calls, Admit(c)
      PROVE  IndInv'
  BY <1>1, AdmitKeeps
<1>2. ASSUME NEW c \in Calls, TakeTurn(c)
      PROVE  IndInv'
  BY <1>2, TakeTurnKeeps
<1>3. ASSUME NEW c \in Calls, Publish(c)
      PROVE  IndInv'
  <2>1. FilesInv'
    BY <1>3, PublishKeepsFiles
  <2>2. OperationsInv'
    BY <1>3, OperationsStay DEF Publish
  <2>3. LifecycleInv'
    BY <1>3 DEF Publish, IndInv, LifecycleInv, lifecycle, operations
  <2> QED
    BY <2>1, <2>2, <2>3 DEF IndInv
<1>4. ASSUME NEW c \in Calls, End(c)
      PROVE  IndInv'
  BY <1>4, EndKeeps
<1>5. ASSUME NEW path \in Paths, PutForeign(path), UNCHANGED <<lifecycle, operations>>
      PROVE  IndInv'
  <2>1. FilesInv'
    BY <1>5, ForeignKeepsFiles DEF operations
  <2>2. OperationsInv'
    BY <1>5, OperationsStay
  <2>3. LifecycleInv'
    BY <1>5 DEF IndInv, LifecycleInv, lifecycle, operations
  <2> QED
    BY <2>1, <2>2, <2>3 DEF IndInv
<1>6. CASE UNCHANGED vars
  <2>1. LifecycleInv'
    BY <1>6 DEF vars, IndInv, LifecycleInv, lifecycle, operations
  <2> QED
    BY <1>6, <2>1, LifecycleStep DEF vars
<1> QED
  BY <1>1, <1>2, <1>3, <1>4, <1>5, <1>6, SignalKeeps, TransportClosesKeeps, LifecycleKeeps
     DEF Next, Work

LEMMA Invariant == Spec => []IndInv
BY InitIndInv, NextIndInv, PTL DEF Spec

-----------------------------------------------------------------------------
(* What it means                                                           *)

(* Operations are counted, PDF operations take turns however they fail,    *)
(* and when the lifecycle returns nothing is running or being written.     *)
THEOREM AccountedOperations == Spec => []OperationsAreAccounted
<1>1. IndInv => OperationsAreAccounted
  <2> SUFFICES ASSUME IndInv
               PROVE  OperationsAreAccounted
    OBVIOUS
  <2>1. TypeOK
    BY DEF IndInv, FilesInv, OperationsInv, LifecycleInv, TypeOK, RunningCalls
  <2>2. PdfCallsWorkAlone
    <3>1. PICK place, n, k : InLine(place, n, k)
      BY DEF IndInv, OperationsInv, LineInv
    <3> QED
      BY <3>1 DEF PdfCallsWorkAlone, InLine, Admitted
  <2>3. EndedMeansDrained
    <3> SUFFICES ASSUME main = "ended"
                 PROVE  /\ \A c \in Calls : ~Running(c) /\ ~Busy(c)
                        /\ service # "open"
                        /\ shutdown = "closed" => transport = "down" /\ service = "closed"
      BY DEF EndedMeansDrained
    <3>1. /\ active = 0 /\ service # "open"
          /\ shutdown = "closed" => transport = "down" /\ service = "closed"
      BY DEF IndInv, LifecycleInv
    <3>2. RunningCalls = {}
      BY <3>1, FS_EmptySet DEF IndInv, OperationsInv
    <3>3. \A c \in Calls : ~Running(c)
      BY <3>2 DEF RunningCalls
    <3>4. \A c \in Calls : ~Busy(c)
      BY <3>3 DEF IndInv, FilesInv, Busy, Running
    <3> QED
      BY <3>1, <3>3, <3>4
  <2> QED
    BY <2>1, <2>2, <2>3 DEF OperationsAreAccounted
<1> QED
  BY Invariant, <1>1, PTL

(* A reader finds all of an output, or of a failed one nothing, at every   *)
(* instant, unless all three safeguards of the cleanup have failed.        *)
THEOREM SafeOutputs == Spec => []OutputsAreSafe
<1>1. IndInv => OutputsAreSafe
  <2> SUFFICES ASSUME IndInv
               PROVE  OutputsAreSafe
    OBVIOUS
  <2>1. ASSUME NEW c \in Writers
        PROVE  FileInv(c) /\ files[c] \in File
    BY DEF IndInv, FilesInv, FilesTypeOK
  <2>2. OutputsAreWhole
    BY <2>1 DEF OutputsAreWhole, FileInv
  <2>3. FailedOutputsAreUnreadable
    BY <2>1 DEF FailedOutputsAreUnreadable, FileInv
  <2> QED
    BY <2>2, <2>3 DEF OutputsAreSafe
<1> QED
  BY Invariant, <1>1, PTL

(* No step takes the file of another program, or an output that was        *)
(* reported, away from its path.                                           *)
THEOREM OthersFilesAreLeftAlone == Spec => OthersFilesStay
<1> DEFINE Stays(path) ==
      outputs[path] = Foreign
        \/ (outputs[path] \in Writers /\ files[outputs[path]].step = "succeeded") =>
      outputs'[path] = outputs[path]
<1>1. IndInv /\ [Next]_vars => [\A path \in Paths : Stays(path)]_vars
  <2> SUFFICES ASSUME IndInv, Next, NEW path \in Paths
               PROVE  Stays(path)
    BY DEF vars
  <2>1. CASE UNCHANGED outputs
    BY <2>1
  <2>2. ASSUME NEW c \in Writers, SafeWriteStep(c, Path[c])
        PROVE  Stays(path)
    <3>1. outputs \in [Paths -> Writers \cup {NoFile, Foreign}] /\ Path[c] \in Paths
      BY ServerAssumption DEF IndInv, FilesInv, FilesTypeOK
    <3>2. CASE Link(c, Path[c])
      BY <3>1, <3>2, SafeWriteAssumption DEF Link
    <3>3. CASE Unpublish(c, Path[c])
      BY <3>1, <3>3, SafeWriteAssumption DEF Unpublish
    <3> QED
      BY <2>1, <2>2, <3>2, <3>3
         DEF SafeWriteStep, Open, Write, Commit, Break, Finish, Truncate, Revoke, Unstage
  <2>3. ASSUME NEW other \in Paths, PutForeign(other)
        PROVE  Stays(path)
    BY <2>3, SafeWriteAssumption DEF PutForeign, IndInv, FilesInv, FilesTypeOK
  <2> QED
    BY <2>1, <2>2, <2>3
       DEF Next, Work, Admit, TakeTurn, Publish, End, Signal, TransportCloses, Lifecycle,
           Connect, ConnectFails, CloseServer, CloseService, ServiceCloses, Return, fileVars
<1> QED
  BY Invariant, <1>1, PTL DEF Spec, OthersFilesStay

=============================================================================
