----------------------- MODULE MCIncrementalDocument -----------------------
(* Every single change, where blocks come in with the metadata that others *)
(* start with; pairs of changes that move no block and break no rule; and  *)
(* pairs of texts of which the second is too long for a block.             *)
EXTENDS IncrementalDocument, TLC

CONSTANTS quiet, loud, broken, long, m

MCSize == (quiet :> 0) @@ (loud :> 2) @@ (broken :> 3) @@ (long :> 4)

MCPatches ==
  LET single == {c \in Change : c.kind = "insert" => c.block.meta = m}
      texts == {c \in single : c.kind = "text"}
      metas == {c \in single : c.kind \in {"meta", "document"}}
      away == {c \in metas : c.meta # m}
      still == {c \in texts : c.text \in {quiet, loud}} \cup away IN
  {<<c>> : c \in single} \cup (still \X still) \cup (away \X metas)
    \cup (texts \X {c \in texts : c.text = long})

(* Documents start with the same metadata everywhere.                      *)
MCInit ==
  /\ Init
  /\ document.meta = m
  /\ \A i \in DOMAIN document.blocks : document.blocks[i].meta = m

MCSpec == MCInit /\ [][Next]_vars

Symmetry == Permutations(Ids)
=============================================================================
