---------------------------- MODULE KeyedOutput ----------------------------
(* `anonymize --key' of the command line: the key that undoes the text's   *)
(* placeholders is published before the text that needs it, through one    *)
(* descriptor, and is readable only once it is whole (cli/src/main.ts,     *)
(* private-file.ts).  Every await may fail, the process may be killed      *)
(* between any two, and others may link, replace or remove what the two    *)
(* paths name.  Commands share the path of their key and each has its own  *)
(* output.                                                                 *)
(*                                                                         *)
(* The file system is external: O_EXCL fails on an existing path, a        *)
(* descriptor keeps its file whatever happens to the path, and a failed    *)
(* write may have written part.                                            *)
EXTENDS Naturals

CONSTANTS Users, NoNode, Stranger

VARIABLES
  keyName,      \* the file that the key path names
  outName,      \* the file that an output path names
  file,         \* [readable, holds, whole] of every file
  user,         \* [pc, opened] of every command
  botched       \* commands whose cleanup failed at some step

vars == <<keyName, outName, file, user, botched>>
names == <<keyName, outName>>

KeyOf(c) == <<"key", c>>
TextOf(c) == <<"text", c>>
Files == {KeyOf(c) : c \in Users} \cup {TextOf(c) : c \in Users} \cup {Stranger}

Empty == <<"nothing">>
Holding(what, whole) == [readable |-> TRUE, holds |-> what, whole |-> whole]

Init ==
  /\ keyName = NoNode /\ outName = [c \in Users |-> NoNode]
  /\ file = [n \in Files |-> IF n = Stranger THEN Holding(Stranger, TRUE)
                             ELSE [readable |-> FALSE, holds |-> Empty, whole |-> TRUE]]
  /\ user = [c \in Users |-> [pc |-> "new", opened |-> NoNode]]
  /\ botched = {}

At(c, pc) == user[c].pc = pc
Goto(c, pc) == user' = [user EXCEPT ![c].pc = pc]
Fill(n, what, whole) == file' = [file EXCEPT ![n].holds = what, ![n].whole = whole]

(* guardWriteTargets: paths that name one file now are refused             *)
Guard(c) ==
  /\ At(c, "new") /\ (keyName = NoNode \/ keyName # outName[c])
  /\ Goto(c, "guarded") /\ UNCHANGED <<names, file, botched>>

(* Slip: the key is made readable first and written afterwards.            *)
ReserveReadable(c) ==
  /\ At(c, "guarded")
  /\ IF keyName = NoNode
     THEN /\ keyName' = KeyOf(c) /\ Goto(c, "reserved")
          /\ file' = [file EXCEPT ![KeyOf(c)].readable = TRUE]
     ELSE Goto(c, "refused") /\ UNCHANGED <<keyName, file>>
  /\ UNCHANGED <<outName, botched>>

(* publishNewPrivateFile                                                   *)
Reserve(c) ==
  /\ At(c, "guarded")
  /\ IF keyName = NoNode
     THEN keyName' = KeyOf(c) /\ Goto(c, "reserved")
     ELSE Goto(c, "refused") /\ UNCHANGED keyName
  /\ UNCHANGED <<outName, file, botched>>

WriteKey(c) ==
  \/ /\ At(c, "reserved") /\ Goto(c, "writing")
     /\ Fill(KeyOf(c), KeyOf(c), FALSE) /\ UNCHANGED <<names, botched>>
  \/ /\ At(c, "writing") /\ Goto(c, "written")
     /\ Fill(KeyOf(c), KeyOf(c), TRUE) /\ UNCHANGED <<names, botched>>

(* sync, chmod, sync                                                       *)
Release(c) ==
  /\ At(c, "written") /\ Goto(c, "readable")
  /\ file' = [file EXCEPT ![KeyOf(c)].readable = TRUE]
  /\ UNCHANGED <<names, botched>>

(* writeFileWithoutIdentityCollision, called by afterPublish               *)
OpenOutput(c) ==
  LET n == IF outName[c] = NoNode THEN TextOf(c) ELSE outName[c] IN
  /\ At(c, "readable")
  /\ outName' = [outName EXCEPT ![c] = n]
  /\ user' = [user EXCEPT ![c].pc = "opened", ![c].opened = n]
  /\ file' = IF outName[c] = NoNode
             THEN [file EXCEPT ![n].readable = TRUE] ELSE file
  /\ UNCHANGED <<keyName, botched>>

(* Slip: the paths were compared already.                                  *)
TruncateUnchecked(c) ==
  /\ At(c, "opened") /\ Goto(c, "truncated") /\ Fill(user[c].opened, Empty, TRUE)
  /\ UNCHANGED <<names, botched>>

(* The descriptor is compared with the key's before anything is cut off.   *)
Truncate(c) ==
  /\ At(c, "opened")
  /\ IF user[c].opened = KeyOf(c)
     THEN Goto(c, "failing") /\ UNCHANGED file
     ELSE Goto(c, "truncated") /\ Fill(user[c].opened, Empty, TRUE)
  /\ UNCHANGED <<names, botched>>

WriteText(c) ==
  \/ /\ At(c, "truncated") /\ Goto(c, "filling")
     /\ Fill(user[c].opened, TextOf(c), FALSE) /\ UNCHANGED <<names, botched>>
  \/ /\ At(c, "filling") /\ Goto(c, "committed")
     /\ Fill(user[c].opened, TextOf(c), TRUE) /\ UNCHANGED <<names, botched>>

(* Slip: a failure behind the text takes its key back.                     *)
FailLate(c) ==
  /\ user[c].pc \in {"reserved", "writing", "written", "readable", "opened", "truncated",
                     "filling", "committed"}
  /\ Goto(c, "failing") /\ UNCHANGED <<names, file, botched>>

(* Any await before the text is whole fails.                               *)
Fail(c) ==
  /\ user[c].pc \in {"reserved", "writing", "written", "readable", "opened", "truncated",
                     "filling"}
  /\ Goto(c, "failing") /\ UNCHANGED <<names, file, botched>>

Botch(c) == botched' = botched \cup {c} /\ UNCHANGED file

(* Slip: the cleanup goes by the path.                                     *)
EmptyKeyByName(c) ==
  /\ At(c, "failing") /\ Goto(c, "emptied")
  /\ \/ keyName # NoNode /\ Fill(keyName, Empty, TRUE) /\ UNCHANGED botched
     \/ Botch(c)
  /\ UNCHANGED names

(* The finally block: each step is tried whatever became of the one before.*)
EmptyKey(c) ==
  /\ At(c, "failing") /\ Goto(c, "emptied")
  /\ \/ Fill(KeyOf(c), Empty, TRUE) /\ UNCHANGED botched
     \/ Botch(c)
  /\ UNCHANGED names

HideKey(c) ==
  /\ At(c, "emptied") /\ Goto(c, "failed")
  /\ \/ file' = [file EXCEPT ![KeyOf(c)].readable = FALSE] /\ UNCHANGED botched
     \/ Botch(c)
  /\ UNCHANGED names

Kill(c) ==
  /\ user[c].pc \notin {"new", "committed", "refused", "failed", "killed"}
  /\ Goto(c, "killed") /\ UNCHANGED <<names, file, botched>>

(* Others: the output becomes another name of the key or of a file that    *)
(* was there before, the key path names that file, or nothing.             *)
Link(c) ==
  /\ keyName = KeyOf(c) \/ outName[c] = NoNode
  /\ outName' = [outName EXCEPT ![c] = IF keyName = KeyOf(c) THEN keyName ELSE Stranger]
  /\ UNCHANGED <<keyName, file, user, botched>>

Rename ==
  /\ keyName # NoNode /\ keyName' \in {NoNode, Stranger}
  /\ UNCHANGED <<outName, file, user, botched>>

Next ==
  \/ \E c \in Users :
       \/ Guard(c) \/ Reserve(c) \/ WriteKey(c) \/ Release(c) \/ OpenOutput(c)
       \/ Truncate(c) \/ WriteText(c) \/ Fail(c) \/ EmptyKey(c) \/ HideKey(c)
       \/ Kill(c) \/ Link(c)
  \/ Rename

-----------------------------------------------------------------------------
(* A whole text is not left without the whole key that undoes it.          *)
TextsHaveTheirKey ==
  \A n \in Files, c \in Users :
    file[n].holds = TextOf(c) /\ file[n].whole =>
      file[KeyOf(c)] = Holding(KeyOf(c), TRUE)

(* Whoever can read a key reads all of it or, after a failure, nothing,    *)
(* never the text that was written over it; and what a failed command      *)
(* leaves under the key's path is empty and closed to everybody.           *)
KeysAreWholeOrClosed ==
  \A c \in Users :
    /\ file[KeyOf(c)].holds \in {KeyOf(c), Empty}
    /\ file[KeyOf(c)].readable => file[KeyOf(c)].whole
    /\ At(c, "failed") /\ c \notin botched =>
         file[KeyOf(c)].holds = Empty /\ ~file[KeyOf(c)].readable

(* A file that others put in the place of the key is not touched by the    *)
(* cleanup, which no longer finds its own file there.                      *)
StrangersStay ==
  (\A c \in Users : user[c].opened # Stranger) => file[Stranger] = Holding(Stranger, TRUE)

KeysAreSafe == TextsHaveTheirKey /\ KeysAreWholeOrClosed /\ StrangersStay
=============================================================================
