----------------------------- MODULE PdfCommand -----------------------------
(* `anonymize pdf' of the command line (cli/src/pdf.ts, and                *)
(* document-pdf/src/local-provider.ts): the input is read through one      *)
(* descriptor, its pages are rendered and recognized one after the other   *)
(* in a temporary folder by two external programs, and the rewritten       *)
(* document is published under a new name.  Source, page rasters and the   *)
(* staged result must go whatever fails, because they show what the        *)
(* command is there to hide.                                               *)
(*                                                                         *)
(* The file system and the two programs are external: open "wx" and link   *)
(* fail on an existing path, a program that failed may have written part   *)
(* of its page, and a process may be killed between any two awaits.  The   *)
(* input may be renamed over, or change its length once; an edit in place  *)
(* that keeps the length is not noticed by the code, nor modelled.         *)
EXTENDS Naturals, FiniteSets

CONSTANTS
  Commands,
  Nodes,        \* files that the input path may name
  LastPage,
  MaxSize,      \* of an input, in chunks of a read
  NoDocument,
  Gone          \* a folder that does not exist

VARIABLES
  inputNode,    \* the file the input path names
  size,         \* of each node
  resized,      \* the one change of length has happened
  command,      \* [pc, opened, bytes, document, page, error]
  folder,       \* the temporary folder of a command
  staging,      \* commands whose staged result exists
  target        \* the output path: [by, document]

vars == <<inputNode, size, resized, command, folder, staging, target>>
inputVars == <<inputNode, size, resized>>
fileVars == <<folder, staging, target>>

Fresh ==
  [pc |-> "new", opened |-> NoDocument, bytes |-> 0, document |-> NoDocument,
   page |-> 0, error |-> "none"]

Init ==
  /\ inputNode = (CHOOSE n \in Nodes : TRUE) /\ size = [n \in Nodes |-> 1] /\ resized = FALSE
  /\ command = [c \in Commands |-> Fresh]
  /\ folder = [c \in Commands |-> Gone]
  /\ staging = {} /\ target = NoDocument

Source == 0     \* a page has its number
At(c, pc) == command[c].pc = pc
Ended == {"new", "done", "failed", "killed"}
Goto(c, pc) == command' = [command EXCEPT ![c].pc = pc]
Throw(c, pc, error) == command' = [command EXCEPT ![c].pc = pc, ![c].error = error]

(* preflight; two lstats that nothing holds to what they saw               *)
Preflight(c) ==
  /\ At(c, "new") /\ target = NoDocument
  /\ Goto(c, "started") /\ UNCHANGED <<inputVars, fileVars>>

(* readRegularInput                                                        *)
OpenInput(c) ==
  /\ At(c, "started")
  /\ command' = [command EXCEPT ![c].pc = "reading", ![c].opened =
                   [node |-> inputNode, size |-> size[inputNode]]]
  /\ UNCHANGED <<inputVars, fileVars>>

(* Slip: the end of the file ends the loop.                                *)
ReadToTheEnd(c) ==
  LET opened == command[c].opened IN
  /\ At(c, "reading") /\ command[c].bytes < opened.size
  /\ IF command[c].bytes < size[opened.node]
     THEN command' = [command EXCEPT ![c].bytes = @ + 1]
     ELSE command' = [command EXCEPT ![c].pc = "ready", ![c].document =
                        [node |-> opened.node, size |-> opened.size, bytes |-> command[c].bytes]]
  /\ UNCHANGED <<inputVars, fileVars>>

ReadInput(c) ==
  LET opened == command[c].opened IN
  /\ At(c, "reading") /\ command[c].bytes < opened.size
  /\ IF command[c].bytes < size[opened.node]
     THEN command' = [command EXCEPT ![c].bytes = @ + 1]
     ELSE Throw(c, "failed", "changed")
  /\ UNCHANGED <<inputVars, fileVars>>

(* One byte more is asked for, then the path is looked at again.           *)
AcceptInput(c) ==
  LET opened == command[c].opened IN
  /\ At(c, "reading") /\ command[c].bytes = opened.size
  /\ IF size[opened.node] > opened.size \/ inputNode # opened.node
     THEN Throw(c, "failed", "changed")
     ELSE command' = [command EXCEPT ![c].pc = "ready", ![c].document =
                        [node |-> opened.node, size |-> opened.size, bytes |-> command[c].bytes]]
  /\ UNCHANGED <<inputVars, fileVars>>

-----------------------------------------------------------------------------
(* renderPdfWithPopplerTesseract: both programs have answered, the folder  *)
(* is made.                                                                *)
MakeFolder(c) ==
  /\ At(c, "ready")
  /\ folder' = [folder EXCEPT ![c] = {}]
  /\ Goto(c, "made") /\ UNCHANGED <<inputVars, staging, target>>

WriteSource(c) ==
  /\ At(c, "made")
  /\ folder' = [folder EXCEPT ![c] = @ \cup {Source}]
  /\ command' = [command EXCEPT ![c].pc = "rendering", ![c].page = 1]
  /\ UNCHANGED <<inputVars, staging, target>>

(* runExecutable(pdftoppm); a page may be there although it failed.        *)
Render(c) ==
  /\ At(c, "rendering")
  /\ folder' = [folder EXCEPT ![c] = @ \cup {command[c].page}]
  /\ Goto(c, "rendered") /\ UNCHANGED <<inputVars, staging, target>>

RenderFails(c) ==
  /\ At(c, "rendering")
  /\ \E left \in SUBSET {command[c].page} : folder' = [folder EXCEPT ![c] = @ \cup left]
  /\ Throw(c, "cleaning", "failed") /\ UNCHANGED <<inputVars, staging, target>>

(* The page is read, recognized and taken over, or any of that fails.      *)
Recognize(c) ==
  /\ At(c, "rendered")
  /\ \/ Goto(c, "recognized")
     \/ Throw(c, "recognized", "failed")
  /\ UNCHANGED <<inputVars, fileVars>>

AfterPage(c) ==
  command' = [command EXCEPT
    ![c].pc = IF command[c].error # "none" \/ command[c].page = LastPage
              THEN "cleaning" ELSE "rendering",
    ![c].page = IF @ = LastPage THEN @ ELSE @ + 1]

(* Slip: the raster is left to the folder's cleanup.                       *)
KeepPage(c) ==
  /\ At(c, "recognized") /\ AfterPage(c)
  /\ UNCHANGED <<inputVars, fileVars>>

(* The finally block of a page; an unlink that fails is the error that is  *)
(* reported.                                                               *)
RemovePage(c) ==
  /\ At(c, "recognized")
  /\ \/ /\ folder' = [folder EXCEPT ![c] = @ \ {command[c].page}]
        /\ AfterPage(c)
     \/ Throw(c, "cleaning", "cleanup") /\ UNCHANGED folder
  /\ UNCHANGED <<inputVars, staging, target>>

(* Slip: a folder that cannot be removed keeps the error that came first.  *)
CleanUpQuietly(c) ==
  /\ At(c, "cleaning")
  /\ \/ /\ folder' = [folder EXCEPT ![c] = Gone]
        /\ Goto(c, IF command[c].error = "none" THEN "rewritten" ELSE "failed")
     \/ /\ \E left \in SUBSET folder[c] : folder' = [folder EXCEPT ![c] = left]
        /\ Goto(c, IF command[c].error = "none" THEN "rewritten" ELSE "failed")
  /\ UNCHANGED <<inputVars, staging, target>>

(* safeCleanup, in the finally block of them all.  The recursive removal   *)
(* may fail half way.                                                      *)
CleanUp(c) ==
  /\ At(c, "cleaning")
  /\ \/ /\ folder' = [folder EXCEPT ![c] = Gone]
        /\ Goto(c, IF command[c].error = "none" THEN "rewritten" ELSE "failed")
     \/ /\ \E left \in SUBSET folder[c] : folder' = [folder EXCEPT ![c] = left]
        /\ Throw(c, "failed", "cleanup")
  /\ UNCHANGED <<inputVars, staging, target>>

-----------------------------------------------------------------------------
(* publishNewFile                                                          *)
Stage(c) ==
  /\ At(c, "rewritten")
  /\ staging' = staging \cup {c} /\ Goto(c, "staged")
  /\ UNCHANGED <<inputVars, folder, target>>

(* Slip: whatever the path names is replaced.                              *)
PublishByRename(c) ==
  /\ At(c, "staged")
  /\ target' = [by |-> c, document |-> command[c].document]
  /\ Goto(c, "unstaging")
  /\ UNCHANGED <<inputVars, folder, staging>>

Publish(c) ==
  /\ At(c, "staged")
  /\ IF target = NoDocument
     THEN /\ target' = [by |-> c, document |-> command[c].document]
          /\ Goto(c, "unstaging")
     ELSE Throw(c, "unstaging", "exists") /\ UNCHANGED target
  /\ UNCHANGED <<inputVars, folder, staging>>

(* removeStaged, in the finally block; its failure fails the command.      *)
Unstage(c) ==
  /\ At(c, "unstaging")
  /\ \/ /\ staging' = staging \ {c}
        /\ Goto(c, IF command[c].error = "none" THEN "done" ELSE "failed")
     \/ Throw(c, "failed", "unstage") /\ UNCHANGED staging
  /\ UNCHANGED <<inputVars, folder, target>>

(* Any other await fails.                                                  *)
Fail(c) ==
  /\ \/ command[c].pc \in {"started", "reading", "ready", "rewritten"} /\ Throw(c, "failed", "failed")
     \/ At(c, "made") /\ Throw(c, "cleaning", "failed")
     \/ At(c, "staged") /\ Throw(c, "unstaging", "failed")
  /\ UNCHANGED <<inputVars, fileVars>>

Kill(c) ==
  /\ command[c].pc \notin Ended
  /\ Goto(c, "killed") /\ UNCHANGED <<inputVars, fileVars>>

(* Others at the input path.                                               *)
RenameOver(n) ==
  /\ n # inputNode /\ inputNode' = n
  /\ UNCHANGED <<size, resized, command, fileVars>>

Resize(n, s) ==
  /\ ~resized /\ s # size[n]
  /\ size' = [size EXCEPT ![n] = s] /\ resized' = TRUE
  /\ UNCHANGED <<inputNode, command, fileVars>>

Next ==
  \/ \E c \in Commands :
       \/ Preflight(c) \/ OpenInput(c) \/ ReadInput(c) \/ AcceptInput(c)
       \/ MakeFolder(c) \/ WriteSource(c) \/ Render(c) \/ RenderFails(c)
       \/ Recognize(c) \/ RemovePage(c) \/ CleanUp(c)
       \/ Stage(c) \/ Publish(c) \/ Unstage(c) \/ Fail(c) \/ Kill(c)
  \/ \E n \in Nodes : RenameOver(n) \/ \E s \in 0..MaxSize : Resize(n, s)

-----------------------------------------------------------------------------
(* A command that ended has taken its folder and its staged result with    *)
(* it, unless it was killed, and then only what the failed removal that    *)
(* it reports was about is left; a success leaves nothing at all.          *)
NothingIsLeftBehind ==
  \A c \in Commands : command[c].pc \in {"done", "failed"} =>
    /\ folder[c] # Gone => command[c].error = "cleanup"
    /\ c \in staging => command[c].error = "unstage"

(* The folder never holds more than the source and one page raster,        *)
(* however many pages were rendered or failed.                             *)
OnePageAtATime ==
  \A c \in Commands : folder[c] # Gone => Cardinality(folder[c] \ {Source}) <= 1

(* What is published is all of a document that was read without a gap,     *)
(* and a command that failed published nothing, unless all it failed to do *)
(* was to remove its staged copy.                                          *)
PublishedIsWhole ==
  target # NoDocument =>
    /\ target.document.bytes = target.document.size
    /\ command[target.by].pc = "failed" => target.by \in staging

PdfIsConfined == NothingIsLeftBehind /\ OnePageAtATime /\ PublishedIsWhole

(* The output is never replaced.                                           *)
PdfIsNotReplaced == target # NoDocument => target' = target
=============================================================================
