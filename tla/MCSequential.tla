---------------------------- MODULE MCSequential ----------------------------
(* The three parts that no two threads run at once: the list of tasks, which *)
(* the pool changes under its lock, the texts that are parsed and printed,   *)
(* and the file tools.  They share nothing, so each behaviour is about one   *)
(* of them, the subject, while the others stay as they start.  Four          *)
(* addresses are enough for an empty, a one-node, a two-node and a longer    *)
(* list, with addresses freed and allocated again in every order.            *)
EXTENDS TaskQueue, MCText, MCFileTools

CONSTANTS n1, n2, n3, n4

MCNode == {n1, n2, n3, n4}

VARIABLE subject

AllInit ==
    /\ subject \in {"list", "text", "files"}
    /\ ListInit /\ TextInit /\ Init
    /\ subject # "text" => kind = CHOOSE k \in Kinds : TRUE
    /\ subject # "files" => fs = CHOOSE f \in FileSystems : TRUE

OfList(A)  == subject = "list" /\ A /\ UNCHANGED <<subject, textVars, vars>>
OfText(A)  == subject = "text" /\ A /\ UNCHANGED <<subject, listVars, vars>>
OfFiles(A) == subject = "files" /\ A /\ UNCHANGED <<subject, listVars, textVars>>

AllNext ==
    \/ \E n \in Node : OfList(Push(n)) \/ OfList(FreeTask(n))
    \/ OfList(Pop) \/ OfList(PopEmpty)
    \/ OfList(BeginClear) \/ OfList(ClearOne) \/ OfList(EndClear)
    \/ OfText(Type)
    \/ OfFiles(Start) \/ OfFiles(Call) \/ OfFiles(ToolResultFree) \/ OfFiles(OtherChanges)
    \/ OfFiles(ReadResolves) \/ OfFiles(ReadRefuses) \/ OfFiles(ReadOpens)
    \/ OfFiles(ReadsLine) \/ OfFiles(ReadEnds)
    \/ OfFiles(WriteResolves) \/ OfFiles(WriteRefuses) \/ OfFiles(WriteOpens)
    \/ OfFiles(WritesBlocks) \/ OfFiles(BlocksFallShort) \/ OfFiles(Closes)
    \/ OfFiles(EditResolves) \/ OfFiles(EditRefuses) \/ OfFiles(EditReadsDirectory)
    \/ OfFiles(EditReads) \/ OfFiles(EditOpenFails) \/ OfFiles(EditOpens)

AllSpec == AllInit /\ [][AllNext]_<<subject, listVars, textVars, vars>>
=============================================================================
