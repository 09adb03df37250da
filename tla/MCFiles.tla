-------------------------------- MODULE MCFiles --------------------------------
(* What is kept for a case and for the service it belongs to, in four parts that *)
(* change different rows: a behaviour of the run belongs to one of them, and the *)
(* others stand still.                                                         *)
EXTENDS Documents, Messages, Oversight, Catalogue, TLC

VARIABLE part

fileVars == <<vars, messageVars, oversightVars, catalogueVars, part>>

MCInit ==
    /\ part \in {"documents", "messages", "oversight", "catalogue"}
    /\ Init /\ MessagesInit /\ OversightInit /\ CatalogueInit

MCNext ==
    \/ /\ part = "documents" /\ Next
       /\ UNCHANGED <<messageVars, oversightVars, catalogueVars, part>>
    \/ /\ part = "messages" /\ MessagesNext
       /\ UNCHANGED <<vars, oversightVars, catalogueVars, part>>
    \/ /\ part = "oversight" /\ OversightNext
       /\ UNCHANGED <<vars, messageVars, catalogueVars, part>>
    \/ /\ part = "catalogue" /\ CatalogueNext
       /\ UNCHANGED <<vars, messageVars, oversightVars, part>>

MCSpec == MCInit /\ [][MCNext]_fileVars

MCSymmetry == Permutations(Docs) \cup Permutations(RowKeys)
=============================================================================
