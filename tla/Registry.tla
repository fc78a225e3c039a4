------------------------------ MODULE Registry ------------------------------
(***************************************************************************)
(* tools/registry.c: the array of tools, filled once by tools_init before  *)
(* any thread starts, with the flag by which the executor decides what may *)
(* run in parallel.                                                        *)
(***************************************************************************)
EXTENDS Naturals, Sequences, SequencesExt

CONSTANTS MaxRegisteredTools, NoTool, Fatal
ASSUME CapacityAssumption == MaxRegisteredTools \in Nat \ {0}

Def(name, read_only) == [name |-> name, read_only |-> read_only]

(* The definitions in the files of the tools.                              *)
BashDef      == Def("bash", FALSE)
ReadFileDef  == Def("read_file", TRUE)
WriteFileDef == Def("write_file", FALSE)

(* Mutant of EditFileDef: edit_file calls itself a reader.                 *)
EditFileReads == Def("edit_file", TRUE)
EditFileDef   == Def("edit_file", FALSE)

(* A full registry ends the process.                                       *)
ToolRegister(tools, def) ==
    IF tools = Fatal \/ Len(tools) >= MaxRegisteredTools THEN Fatal ELSE Append(tools, def)

ToolsInit(tools) ==
    IF tools # <<>> THEN tools
    ELSE ToolRegister(ToolRegister(ToolRegister(ToolRegister(tools,
             BashDef), ReadFileDef), WriteFileDef), EditFileDef)

(* tool_find: the first of that name, or none.                             *)
ToolFind(tools, name) ==
    LET named(def) == def.name = name
        i == SelectInSeq(tools, named)
    IN IF i = 0 THEN NoTool ELSE tools[i]
=============================================================================
