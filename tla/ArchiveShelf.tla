---------------------------- MODULE ArchiveShelf ----------------------------
(***************************************************************************)
(* What the durable store promises of its archives: one whole archive per  *)
(* session id, replaced or removed in one step, and after a power loss a   *)
(* shelf that really stood since the last time it was settled.             *)
(***************************************************************************)
CONSTANTS
  Ids,        \* session ids
  Archives,   \* archive contents
  Absent      \* no archive under this id, not an archive itself

Shelf == [Ids -> Archives \cup {Absent}]

VARIABLES
  shelf,      \* the archives a load would find now
  atRisk      \* the shelves a power loss may leave

shelfVars == <<shelf, atRisk>>

(* A directory may hold archives already.                                  *)
Init ==
  /\ shelf \in Shelf
  /\ atRisk = {shelf}

Put(id, content) ==
  /\ shelf' = [shelf EXCEPT ![id] = content]
  /\ atRisk' = atRisk \cup {shelf'}

Settle ==
  /\ atRisk' = {shelf}
  /\ UNCHANGED shelf

PowerLoss ==
  /\ shelf' \in atRisk
  /\ atRisk' = {shelf'}

Next ==
  \/ \E id \in Ids, content \in Archives \cup {Absent} : Put(id, content)
  \/ Settle
  \/ PowerLoss

Spec == Init /\ [][Next]_shelfVars
=============================================================================
