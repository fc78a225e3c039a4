----------------------------- MODULE FileTools -----------------------------
(***************************************************************************)
(* tools/read.c, tools/write.c and tools/edit.c, called one at a time by   *)
(* run_one of the executor over the registry, on the file system that      *)
(* Sandbox resolves their paths in.  A step is one call of the C library   *)
(* that reaches a file; resolving the path is one, and every fopen goes by *)
(* the name that it gave, whatever that name is by then.  Beside them, a   *)
(* process that the bash tool left in the background may change files and  *)
(* links at any moment, and the disk may take less than what is written.   *)
(* A program that is killed leaves the file system as it is in that state, *)
(* so every invariant below is about that too.  A character is one of      *)
(* Char; NL ends a line and NUL a C string.                                *)
(***************************************************************************)
EXTENDS Sandbox, Registry

CONSTANTS Char, NL, NUL,
          FileSystems,  (* file systems to start from                      *)
          Requests,     (* calls the model makes                           *)
          Missing,      (* an argument that is absent or of another type   *)
          LineSize,     (* sizeof(line) in tool_read_file                  *)
          MaxOutput,    (* MAX_TOOL_OUTPUT                                 *)
          Block,        (* what stdio keeps back until fclose is below it  *)
          Foreign,      (* changes another process may make                *)
          MaxForeign,   (* bound: changes by another process               *)
          MaxCalls      (* bound: calls of a tool                          *)

ASSUME CharAssumption == {NL, NUL} \subseteq Char /\ NL # NUL
ASSUME LengthAssumption == LineSize \in Nat /\ {LineSize - 1, MaxOutput, Block} \subseteq Nat \ {0}
ASSUME CountAssumption == {MaxForeign, MaxCalls} \subseteq Nat
ASSUME RequestsAssumption ==
    \A r \in Requests :
        /\ r.path # Missing => r.path.names \in Path /\ r.path.absolute \in BOOLEAN
        /\ r.tool = "read_file" => r.limit = Missing \/ r.limit \in Int
        /\ \A s \in {r.content, r.old_text, r.new_text} : s = Missing \/ s \in Seq(Char)

VARIABLES fs,           (* the file system                                 *)
          g_tools,
          at,           (* where the tool is                               *)
          req,          (* its arguments                                   *)
          safe,         (* safe_path                                       *)
          file,         (* the file it has read or open                    *)
          pos,          (* fgets: characters read                          *)
          lines,        (* lines_read                                      *)
          content,      (* read: the output so far; else what to write     *)
          result,
          calls, foreign,
          before,       (* history: the file system at the call            *)
          disturbed,    (* history: another process changed fs since      *)
          short         (* history: the disk took less                     *)

tool    == <<at, req, safe, file, pos, lines, content, result>>
history == <<calls, foreign, before, disturbed, short>>
vars    == <<fs, g_tools, tool, history>>

File(data) == [kind |-> "file", data |-> data]
FileAt(p)  == p \in DOMAIN fs /\ fs[p].kind = "file"
Data(p)    == fs[p].data

(* What strlen sees.                                                       *)
CString(s) ==
    LET i == SelectInSeq(s, LAMBDA c : c = NUL)
    IN IF i = 0 THEN s ELSE SubSeq(s, 1, i - 1)

(* A directory, a link, or a file of characters.                           *)
IsNode(node) ==
    \/ node.kind = "dir"
    \/ node.kind = "link" /\ node.to \in Path /\ node.absolute \in BOOLEAN
    \/ node.data \in Seq(Char) /\ node = File(node.data)

IsFileSystem(f) == DOMAIN f \subseteq Path /\ \A p \in DOMAIN f : IsNode(f[p])

(* A change makes a place anew, or takes it away.                          *)
Gone == [kind |-> "gone"]

ASSUME FileSystemsAssumption ==
    /\ \A f \in FileSystems : IsFileSystem(f)
    /\ \A c \in Foreign : c.path \in Path \ {<<>>} /\ (c.node = Gone \/ IsNode(c.node))

Result(ok, text, noted) == [ok |-> ok, text |-> text, noted |-> noted]
Failure == Result(FALSE, <<>>, FALSE)
NoRequest == [tool |-> "none", path |-> Missing]

Init ==
    /\ fs \in FileSystems /\ before = fs
    /\ g_tools = <<>>
    /\ at = "start" /\ req = NoRequest
    /\ safe = NoPath /\ file = NoPath /\ pos = 0 /\ lines = 0 /\ content = <<>> /\ result = Failure
    /\ calls = 0 /\ foreign = 0 /\ disturbed = FALSE /\ short = FALSE
-----------------------------------------------------------------------------
(* main fills the registry; a second tools_init changes nothing.           *)
Start ==
    /\ at = "start"
    /\ g_tools' = ToolsInit(ToolsInit(g_tools))
    /\ at' = IF g_tools' = Fatal THEN "dead" ELSE "idle"
    /\ UNCHANGED <<fs, req, safe, file, pos, lines, content, result, history>>

(* run_one; bash is BashTool's.                                            *)
Call ==
    /\ at = "idle" /\ calls < MaxCalls
    /\ calls' = calls + 1
    /\ req' \in {r \in Requests : r.tool # "bash"}
    /\ at' = IF ToolFind(g_tools, req'.tool) = NoTool THEN "done" ELSE "called"
    /\ UNCHANGED <<fs, g_tools, safe, file, pos, lines, content, result>>
    /\ UNCHANGED <<foreign, before, disturbed, short>>

Answer(r) ==
    /\ at' = "done" /\ result' = r
    /\ UNCHANGED <<g_tools, req, safe, file, pos, lines, content>>

Refuse == Answer(Failure) /\ UNCHANGED <<fs, history>>

(* The caller frees the output and goes on.                                *)
ToolResultFree ==
    /\ at = "done"
    /\ at' = "idle" /\ req' = NoRequest /\ result' = Failure
    /\ safe' = NoPath /\ file' = NoPath /\ pos' = 0 /\ lines' = 0 /\ content' = <<>>
    /\ before' = fs /\ disturbed' = FALSE /\ short' = FALSE
    /\ UNCHANGED <<fs, g_tools, calls, foreign>>

Calling(name) == at = "called" /\ req.tool = name
Opening(name) == at = "resolved" /\ req.tool = name
Resolved == ResolveWorkspacePath(fs, req.path)

(* An argument is missing, or the sandbox has no path for it; or the path  *)
(* that it has is kept for fopen.                                          *)
ResolvesIf(complete) ==
    IF complete /\ Resolved # NoPath
    THEN /\ safe' = Resolved /\ at' = "resolved"
         /\ UNCHANGED <<fs, g_tools, req, file, pos, lines, content, result, history>>
    ELSE Refuse
-----------------------------------------------------------------------------
(* read_file: the path may lead to nothing, or fopen fail for any reason   *)
(* the system has; a directory opens, and reading it fails.                *)
ReadResolves == Calling("read_file") /\ ResolvesIf(req.path # Missing)

ReadRefuses == Opening("read_file") /\ Refuse

ReadOpens ==
    /\ Opening("read_file")
    /\ Realpath(fs, safe) # NoPath
    /\ file' = Realpath(fs, safe)
    /\ at' = "reading"
    /\ UNCHANGED <<fs, g_tools, req, safe, pos, lines, content, result, history>>

(* A negative limit, or none, is no limit.                                 *)
LineLimit == IF req.limit = Missing \/ req.limit < 0 THEN 0 ELSE req.limit

(* fgets: what is left, up to a newline or until the buffer is full.       *)
Fgets ==
    LET rest == IF FileAt(file) THEN SubSeq(Data(file), pos + 1, Len(Data(file))) ELSE <<>>
        full == IF Len(rest) < LineSize THEN rest ELSE SubSeq(rest, 1, LineSize - 1)
        end  == SelectInSeq(full, LAMBDA c : c = NL)
    IN IF end = 0 THEN full ELSE SubSeq(full, 1, end)

(* Mutant of LimitPassed: the test comes after the line was taken.         *)
LimitPassedLate == LineLimit > 0 /\ lines > LineLimit
LimitPassed == LineLimit > 0 /\ lines + 1 > LineLimit

(* One round of the loop that goes on to the next.                         *)
ReadsLine ==
    /\ at = "reading" /\ Fgets # <<>> /\ ~LimitPassed
    /\ LET taken == content \o CString(Fgets)
       IN IF Len(taken) >= MaxOutput
          THEN Answer(Result(TRUE, taken, TRUE))
          ELSE /\ content' = taken
               /\ pos' = pos + Len(Fgets) /\ lines' = lines + 1
               /\ UNCHANGED <<g_tools, at, req, safe, file, result>>
    /\ UNCHANGED <<fs, history>>

(* The file or the limit ends the loop; an empty output is an error.       *)
ReadEnds ==
    /\ at = "reading" /\ (Fgets = <<>> \/ LimitPassed)
    /\ Answer(IF content = <<>> THEN Failure ELSE Result(TRUE, content, FALSE))
    /\ UNCHANGED <<fs, history>>
-----------------------------------------------------------------------------
(* fopen(path, "w"): what is there is emptied, what is not is created.  It *)
(* fails on a directory, where no parent is, and where the system says so. *)
MayOpen(p) == Opens(fs, p) # NoPath /\ ~DirectoryAt(fs, Opens(fs, p))

(* Mutant of Emptied: the file is opened without being emptied.            *)
Kept(p) == [q \in DOMAIN fs \cup {p} |->
               IF q = p /\ p \notin DOMAIN fs THEN File(<<>>) ELSE fs[q]]

Emptied(p) == [q \in DOMAIN fs \cup {p} |-> IF q = p THEN File(<<>>) ELSE fs[q]]

WriteResolves == Calling("write_file") /\ ResolvesIf(Missing \notin {req.path, req.content})

WriteRefuses == Opening("write_file") /\ Refuse

WriteOpens ==
    /\ Opening("write_file")
    /\ MayOpen(safe)
    /\ file' = Opens(fs, safe)
    /\ fs' = Emptied(file')
    /\ content' = CString(req.content)
    /\ at' = "open"
    /\ UNCHANGED <<g_tools, req, safe, pos, lines, result, history>>

(* Through the file's own offset, whatever others did to it meanwhile.     *)
Written(p, from, s) ==
    [fs EXCEPT ![p].data =
        [i \in 1 .. from + Len(s) |-> IF i > from THEN s[i - from]
                                       ELSE IF i <= Len(@) THEN @[i] ELSE NUL]
        \o SubSeq(@, from + Len(s) + 1, Len(@))]

(* What fwrite hands to the system at once: whole blocks.                  *)
AtOnce == Len(content) - (Len(content) % Block)

(* fwrite: a disk that takes less than the whole blocks is noticed.        *)
WritesBlocks ==
    /\ at = "open"
    /\ fs' = Written(file, 0, SubSeq(content, 1, AtOnce))
    /\ at' = "buffered"
    /\ UNCHANGED <<g_tools, req, safe, file, pos, lines, content, result, history>>

BlocksFallShort ==
    /\ at = "open"
    /\ \E n \in 0 .. AtOnce - 1 : fs' = Written(file, 0, SubSeq(content, 1, n))
    /\ short' = TRUE
    /\ Answer(Failure)
    /\ UNCHANGED <<calls, foreign, before, disturbed>>

(* fclose hands over the rest; whether that succeeded is not looked at.    *)
Closes ==
    /\ at = "buffered"
    /\ \E n \in AtOnce .. Len(content) :
          /\ fs' = Written(file, AtOnce, SubSeq(content, AtOnce + 1, n))
          /\ short' = (n < Len(content))
    /\ Answer(Result(TRUE, <<>>, FALSE))
    /\ UNCHANGED <<calls, foreign, before, disturbed>>
-----------------------------------------------------------------------------
(* edit_file has more to ask of its arguments.                             *)
EditResolves ==
    /\ Calling("edit_file")
    /\ ResolvesIf(/\ Missing \notin {req.path, req.old_text, req.new_text}
                  /\ CString(req.old_text) # <<>>)

EditRefuses == Opening("edit_file") /\ Refuse

(* The size of a directory is whatever ftell makes of it: nothing is read, *)
(* or malloc fails and its result is written through.                      *)
EditReadsDirectory ==
    /\ Opening("edit_file")
    /\ Realpath(fs, safe) # NoPath /\ DirectoryAt(fs, Realpath(fs, safe))
    /\ \/ Refuse
       \/ at' = "dead"
          /\ UNCHANGED <<fs, g_tools, req, safe, file, pos, lines, content, result, history>>

(* strstr: the first place old_text is at, in the file up to its first NUL.*)
Found(data, old) ==
    LET s == CString(data)
        places == {i \in 1 .. Len(s) - Len(old) + 1 : SubSeq(s, i, i + Len(old) - 1) = old}
    IN IF places = {} THEN 0 ELSE CHOOSE i \in places : \A j \in places : i <= j

(* Mutant of Replaced: the suffix is measured as a C string.               *)
ReplacedCString(data, i, old, new) ==
    SubSeq(data, 1, i - 1) \o new
        \o SubSeq(CString(data), i + Len(old), Len(CString(data)))

Replaced(data, i, old, new) ==
    SubSeq(data, 1, i - 1) \o new \o SubSeq(data, i + Len(old), Len(data))

EditReads ==
    /\ Opening("edit_file") /\ Realpath(fs, safe) # NoPath
    /\ LET p   == Realpath(fs, safe)
           old == CString(req.old_text)
           i   == Found(Data(p), old)
       IN /\ FileAt(p)
          /\ IF i = 0 THEN Refuse
             ELSE /\ content' = Replaced(Data(p), i, old, CString(req.new_text))
                  /\ file' = p /\ at' = "edited"
                  /\ UNCHANGED <<fs, g_tools, req, safe, pos, lines, result, history>>

EditOpenFails == at = "edited" /\ Refuse

(* The second fopen goes by the name again.                                *)
EditOpens ==
    /\ at = "edited"
    /\ MayOpen(safe)
    /\ file' = Opens(fs, safe)
    /\ fs' = Emptied(file')
    /\ at' = "open"
    /\ UNCHANGED <<g_tools, req, safe, pos, lines, content, result, history>>
-----------------------------------------------------------------------------
(* A background process makes, changes, replaces or removes a file or a    *)
(* link between two steps of a tool; a file that a tool has open keeps its *)
(* name.  Between two calls such a change only makes another file system   *)
(* to call in.                                                             *)
Open == at \in {"reading", "open", "buffered"}

OtherChanges ==
    /\ at \notin {"start", "idle", "done", "dead"} /\ foreign < MaxForeign
    /\ foreign' = foreign + 1 /\ disturbed' = TRUE
    /\ \E c \in Foreign :
          /\ ~DirectoryAt(fs, c.path) /\ DirectoryAt(fs, Front(c.path))
          /\ Open /\ c.path = file => c.node.kind = "file"
          /\ fs' = IF c.node = Gone THEN [p \in DOMAIN fs \ {c.path} |-> fs[p]]
                   ELSE [p \in DOMAIN fs \cup {c.path} |-> IF p = c.path THEN c.node ELSE fs[p]]
    /\ fs' # fs
    /\ UNCHANGED <<g_tools, tool, calls, before, short>>

Step ==
    \/ ReadResolves \/ ReadRefuses \/ ReadOpens \/ ReadsLine \/ ReadEnds
    \/ WriteResolves \/ WriteRefuses \/ WriteOpens \/ WritesBlocks \/ BlocksFallShort \/ Closes
    \/ EditResolves \/ EditRefuses \/ EditReadsDirectory \/ EditReads \/ EditOpenFails \/ EditOpens

Next == Start \/ Call \/ Step \/ ToolResultFree \/ OtherChanges

Spec == Init /\ [][Next]_vars
-----------------------------------------------------------------------------
At(tools) == at = "done" /\ req.tool \in tools
Count(s)  == Cardinality({i \in DOMAIN s : s[i] = NL})

(* No line is longer than the buffer of fgets.                             *)
ShortLines(s) ==
    \A i \in 1 .. Len(s) - LineSize + 1 : NL \in ToSet(SubSeq(s, i, i + LineSize - 2))

(* read_file gives the model the beginning of the file, with no character  *)
(* lost, doubled or moved before the first NUL: all of it unless the limit *)
(* or the cap cut it, and then as many whole lines as the limit says (if   *)
(* lines fit the buffer) or a noted cut past the cap.  It fails on a file  *)
(* it has open only when there is nothing to give.                         *)
ReadIsFaithful ==
    At({"read_file"}) /\ file # NoPath /\ FileAt(file) /\ ~disturbed =>
        LET data == Data(file)
            kept == result.text
            cut  == kept # data /\ NUL \notin ToSet(data)
        IN IF ~result.ok THEN data = <<>> \/ data[1] = NUL
           ELSE /\ IsPrefix(kept, CString(data)) \/ IsPrefix(CString(data), kept)
                /\ cut /\ ~result.noted => LineLimit > 0
                /\ cut /\ ~result.noted /\ ShortLines(data) =>
                      Count(kept) = LineLimit /\ Last(kept) = NL
                /\ result.noted <=> Len(kept) >= MaxOutput
                /\ LineLimit > 0 => Count(kept) <= LineLimit

(* write_file and edit_file that report success have put into the file     *)
(* what was asked for, whole, and edit_file has replaced the first         *)
(* occurrence and kept everything else, what follows a NUL included;       *)
(* unless the disk took less or another process wrote the file meanwhile.  *)
ChangeIsExact ==
    At({"write_file", "edit_file"}) /\ result.ok /\ ~short /\ ~disturbed =>
        Data(file) =
            IF req.tool = "write_file" THEN CString(req.content)
            ELSE ReplaceFirstSubSeq(CString(req.new_text), CString(req.old_text),
                                    before[file].data)

(* Whenever the program is killed, and on whatever disk, the file a tool   *)
(* changes holds what it held at the call or a beginning of the new        *)
(* content, never a mixture; and a call that fails has changed nothing,    *)
(* unless it was the disk that failed it.                                  *)
OldOrBeginning ==
    ~disturbed /\ at \notin {"start", "idle"} =>
        /\ fs # before => IsPrefix(Data(file), content)
        /\ at = "done" /\ ~result.ok /\ ~short => fs = before

(* Whatever other processes do, a step of a tool changes no file but the   *)
(* one it has opened, and a tool that the registry calls read-only, which  *)
(* the executor runs beside others, changes none.  If nobody changed the   *)
(* file system since the call, that file is the one its path named then,   *)
(* and inside the workspace, unless the path was a dangling link.          *)
OnlyNamedFileChanges ==
    [][Step /\ fs' # fs =>
        /\ ~ToolFind(g_tools, req.tool).read_only
        /\ DOMAIN fs' \subseteq DOMAIN fs \cup {file'}
        /\ \A p \in DOMAIN fs \ {file'} : fs'[p] = fs[p]
        /\ ~disturbed =>
              LET asked == Workdir \o req.path.names
                  given == ResolveWorkspacePath(before, req.path)
              IN /\ given # NoPath /\ file' = Opens(before, given)
                 /\ LeadsAsAsked(before, asked, given)
                 /\ Inside(file') \/ Dangling(before, asked, given)]_vars

(* What sandbox.h says of resolve_workspace_path, that it "rejects anything *)
(* that ends up outside g_config.workdir", as far as the tools go: what    *)
(* they open is inside.                                                    *)
OpensInside == file # NoPath => Inside(file)

(* Whenever a tool is about to be called, however the tools before it have *)
(* changed the file system, and for every path the model may name,         *)
(* resolve_workspace_path tells what Sandbox says the tools may rely on.   *)
ResolvesRight ==
    at = "idle" =>
      \A path \in {r.path : r \in Requests} \ {Missing} : ResolvesAsAsked(fs, path)
=============================================================================
