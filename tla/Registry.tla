------------------------------ MODULE Registry ------------------------------
(***************************************************************************)
(* The vehicles of AgvManager: rows of the table agv_agv, and objects in   *)
(* the vector agvs, whose order does not matter.  A request adds a row and *)
(* then an object, or deletes both, while other requests do the same       *)
(* (agvmanager.cpp).  The id of the object is the highest of the table,    *)
(* whoever has put it there.                                               *)
(***************************************************************************)
EXTENDS Naturals, Bags, FiniteSetsExt

VARIABLES
    agvRows,        \* ids in agv_agv
    lastAgvId,      \* sqlite_sequence: an id is never given twice
    agvs,           \* id -> how many objects have it
    muddled         \* history: an add got the id of another, or overlapped with
                    \* the removal of its vehicle

registryVars == <<agvRows, lastAgvId, agvs, muddled>>

RegistryInit ==
    /\ lastAgvId \in {0, 1} /\ agvRows = 1..lastAgvId
    /\ agvs = SetToBag(agvRows) /\ muddled = FALSE

InsertAgv ==
    /\ lastAgvId' = lastAgvId + 1
    /\ agvRows' = agvRows \cup {lastAgvId'}
    /\ UNCHANGED <<agvs, muddled>>

MaxAgvId == Max(agvRows)
ReadAgvId(inserted) ==
    /\ muddled' = (muddled \/ MaxAgvId # inserted)
    /\ UNCHANGED <<agvRows, lastAgvId, agvs>>

AddAgv(id) ==
    /\ agvs' = [i \in DOMAIN agvs \cup {id} |->
                    (IF BagIn(i, agvs) THEN agvs[i] ELSE 0) + (IF i = id THEN 1 ELSE 0)]
    /\ UNCHANGED <<agvRows, lastAgvId, muddled>>

DeleteAgv(id) ==
    agvRows' = agvRows \ {id} /\ UNCHANGED <<lastAgvId, agvs, muddled>>

\* Broken variant: the object stays.
RemoveNothing(id, adding) ==
    /\ muddled' = (muddled \/ id \in agvRows \cup adding)
    /\ UNCHANGED <<agvRows, lastAgvId, agvs>>
RemoveAgv(id, adding) ==
    /\ agvs' = [i \in DOMAIN agvs \ {id} |-> agvs[i]]
    /\ muddled' = (muddled \/ id \in agvRows \cup adding)
    /\ UNCHANGED <<agvRows, lastAgvId>>

AnyAgv == DOMAIN agvs # {}
InTableAsInMemory == agvs = SetToBag(agvRows)
=============================================================================
