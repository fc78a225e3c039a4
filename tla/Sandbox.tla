------------------------------ MODULE Sandbox ------------------------------
(***************************************************************************)
(* tools/sandbox.c: resolve_workspace_path turns the path a tool is given  *)
(* into the path it opens.  A name is a sequence of letters, an absolute   *)
(* path a sequence of names, and a file system a function from the paths   *)
(* that exist to directories, files and symbolic links.  realpath(3) and   *)
(* open(2) are the operating system's.  The buffers of PATH_MAX bytes are  *)
(* taken to be large enough.                                               *)
(***************************************************************************)
EXTENDS Naturals, Sequences, SequencesExt

CONSTANTS Workdir,      (* g_config.workdir                                *)
          MaxLinks,     (* symbolic links followed before ELOOP            *)
          NoPath        (* NULL                                            *)

Name == Seq(STRING \ {"/"}) \ {<<>>}
Path == Seq(Name)

ASSUME WorkdirAssumption == Workdir \in Path /\ MaxLinks \in Nat /\ NoPath \notin Path

Dot    == <<".">>
DotDot == <<".", ".">>

DirectoryAt(fs, p) == p \in DOMAIN fs /\ fs[p].kind = "dir"
LinkAt(fs, p)      == p \in DOMAIN fs /\ fs[p].kind = "link"

(* How far a walk is: the place reached, the names left, the links it may  *)
(* still follow.                                                           *)
Way == [at : Path, names : Path, links : Nat]

(* What the next name stands for in the directory reached.                 *)
Below(w) == Append(w.at, Head(w.names))

FollowsLink(fs, w) == Head(w.names) \notin {Dot, DotDot} /\ LinkAt(fs, Below(w))

(* Names are looked up in directories, and not after too many links.       *)
Blocked(fs, w) == ~DirectoryAt(fs, w.at) \/ (FollowsLink(fs, w) /\ w.links = 0)

Onward(fs, w) ==
    LET name     == Head(w.names)
        link     == fs[Below(w)]
        To(place) == [at |-> place, names |-> Tail(w.names), links |-> w.links]
    IN CASE name = Dot -> To(w.at)
         [] name = DotDot -> To(IF w.at = <<>> THEN <<>> ELSE Front(w.at))
         [] FollowsLink(fs, w) ->
               [at |-> IF link.absolute THEN <<>> ELSE w.at,
                names |-> link.to \o Tail(w.names), links |-> w.links - 1]
         [] name \notin {Dot, DotDot} /\ ~FollowsLink(fs, w) -> To(Below(w))

(* The place a walk leads to, which need not exist yet if its directory    *)
(* does; NoPath if the way there is not one of directories.                *)
Walk(fs) ==
    LET walk[w \in Way] == IF w.names = <<>> THEN w.at
                           ELSE IF Blocked(fs, w) THEN NoPath
                           ELSE walk[Onward(fs, w)]
    IN walk

(* A file system, as far as walks are concerned.                           *)
IsTree(fs) ==
    /\ DOMAIN fs \subseteq Path
    /\ \A p \in DOMAIN fs : LinkAt(fs, p) => fs[p].to \in Path /\ fs[p].absolute \in BOOLEAN

(* open(2) with O_CREAT, and realpath(3), which demands that it exists.    *)
Opens(fs, p) == Walk(fs)[[at |-> <<>>, names |-> p, links |-> MaxLinks]]

Realpath(fs, p) ==
    IF Opens(fs, p) \in DOMAIN fs THEN Opens(fs, p) ELSE NoPath

(* A path as the C string it is.                                           *)
Text(p) ==
    IF p = <<>> THEN <<"/">>
    ELSE FlattenSeq([i \in DOMAIN p |-> <<"/">> \o p[i]])

(* Mutant of WithinWorkspace: no separator check after the prefix.         *)
WithinPrefix(resolved) == IsPrefix(Text(Workdir), Text(resolved))

WithinWorkspace(resolved) ==
    LET n == Len(Text(Workdir))
        text == Text(resolved)
    IN /\ IsPrefix(Text(Workdir), text)
       /\ n < Len(text) => text[n + 1] = "/"

(* The fallback: the parent, resolved, with the leaf put back on.          *)
Graft(fs, full) ==
    LET parent == Realpath(fs, Front(full))
    IN IF parent # NoPath /\ WithinWorkspace(parent)
       THEN Append(parent, Last(full)) ELSE NoPath

ResolveWorkspacePath(fs, rel) ==
    LET full == Workdir \o rel.names
        resolved == Realpath(fs, full)
    IN IF rel.absolute \/ rel.names = <<>> THEN NoPath
       ELSE IF resolved = NoPath THEN Graft(fs, full)
       ELSE IF WithinWorkspace(resolved) THEN resolved ELSE NoPath
-----------------------------------------------------------------------------
(* The reference: a place is inside the workspace when the working         *)
(* directory is among the directories above it, or is the place.           *)
Inside(p) == p # NoPath /\ IsPrefix(Workdir, p)

(* A path leads where another one does; or that one meets too many links,  *)
(* and the last name of this one is a link.                                *)
LeadsAsAsked(fs, asked, given) ==
    \/ Opens(fs, given) = Opens(fs, asked)
    \/ Opens(fs, asked) = NoPath /\ LinkAt(fs, given)

(* A path that the sandbox lets pass although it leads to no file: its last *)
(* name is a link that realpath could not follow to the end.  open(2) does *)
(* follow it, and creates the file that it names, wherever that is.        *)
Dangling(fs, asked, given) == Realpath(fs, asked) = NoPath /\ LinkAt(fs, given)

(* What the tools may rely on, in one file system: exactly the relative    *)
(* paths come back that lead to something inside, or to nothing while their *)
(* parent is inside; what exists comes back as itself; the path that comes *)
(* back leads where the given one leads; and it leads inside, or nowhere,  *)
(* unless it is a dangling link.                                           *)
ResolvesAsAsked(fs, rel) ==
    LET asked == Workdir \o rel.names
        real  == Realpath(fs, asked)
        given == ResolveWorkspacePath(fs, rel)
    IN /\ given # NoPath <=>
             /\ ~rel.absolute /\ rel.names # <<>>
             /\ Inside(real) \/ (real = NoPath /\ Inside(Realpath(fs, Front(asked))))
       /\ given # NoPath =>
             /\ real # NoPath => given = real
             /\ LeadsAsAsked(fs, asked, given)
             /\ \/ Opens(fs, given) = NoPath \/ Inside(Opens(fs, given))
                \/ Dangling(fs, asked, given)
=============================================================================
