------------------------- MODULE MCServiceAndStore -------------------------
(* The service with the store it promises its callers, and, in a part that *)
(* shares no variable, the requests and the end of the durable store, here *)
(* with a rival server on its directory.                                   *)
EXTENDS LocalAnonymizeService

CONSTANTS Servers, Archives, Size, Torn
CONSTANTS MaxCount, MaxBytes, MaxTotalBytes, MaxQueue

VARIABLE part     \* the one that is explored
VARIABLES directory, disk, unflushed, lock, server, promised

Durable == INSTANCE DurableSessionStore

storeVars == <<directory, disk, unflushed, lock, server, promised>>
callVars == <<part, vars, storeVars>>

MCSize == [a \in Archives |-> 1]

MCInit == part \in {"service", "store"} /\ Init /\ Durable!Init

Only(p) ==
  /\ part = p /\ UNCHANGED part
  /\ p # "service" => UNCHANGED vars
  /\ p # "store" => UNCHANGED storeVars

MCNext ==
  \/ Only("service") /\ Next
  \/ Only("store") /\ Durable!Next

(* The fairness of the parts, as where they are defined                    *)
MCSpec ==
  /\ MCInit /\ [][MCNext]_callVars
  /\ WF_callVars(Only("service") /\ FinishClose)
  /\ \A o \in Ops : WF_callVars(Only("service") /\ Work(o))
  /\ \A s \in Servers : WF_callVars(Only("store") /\ Durable!Work(s))

(* The properties of the parts, stated where they are defined.             *)
MemoryMatchesLock == MemoryMatchesShelf /\ Durable!WorkOnlyUnderLock
EveryCloseEnds == CloseEnds /\ Durable!CloseEnds
=============================================================================
