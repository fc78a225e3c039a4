---------------------------- MODULE MCFileTools ----------------------------
(* The workspace /w with a file, a directory, links that lead inside,        *)
(* outside, to nothing and round in a circle, beside a directory /wx whose   *)
(* name begins like its own.  Lines of two characters fill the buffer of     *)
(* fgets, blocks of two that of stdio.                                       *)
EXTENDS FileTools

MCWorkdir == <<<<"w">>>>

In(names)     == MCWorkdir \o names
Beside(names) == <<<<"w", "x">>>> \o names
Dir           == [kind |-> "dir"]
LinkTo(absolute, to) == [kind |-> "link", absolute |-> absolute, to |-> to]

Tree(data) ==
    LET nodes == { <<<<>>, Dir>>, <<MCWorkdir, Dir>>, <<Beside(<<>>), Dir>>,
                   <<Beside(<<<<"f">>>>), File(<<"a">>)>>,
                   <<In(<<<<"f">>>>), File(data)>>, <<In(<<<<"d">>>>), Dir>>,
                   <<In(<<<<"d">>, <<"u">>>>), LinkTo(FALSE, <<DotDot, <<"f">>>>)>>,
                   <<In(<<<<"e">>>>), LinkTo(FALSE, <<<<"d">>>>)>>,
                   <<In(<<<<"h">>>>), LinkTo(FALSE, <<<<"e">>>>)>>,
                   <<In(<<<<"o">>>>), LinkTo(TRUE, Beside(<<>>))>>,
                   <<In(<<<<"l">>>>), LinkTo(FALSE, <<<<"l">>>>)>>,
                   <<In(<<<<"n">>>>), LinkTo(FALSE, <<DotDot, <<"w", "x">>, <<"g">>>>)>> }
    IN [p \in {n[1] : n \in nodes} |-> (CHOOSE n \in nodes : n[1] = p)[2]]

Contents == { <<>>, <<"a", "b">>, <<"a", "nl", "a">>, <<"a", "a", "b", "nl">>,
              <<"b", "NUL", "a", "b">>, <<"NUL", "a">>, <<"nl", "b", "nl", "a">>,
              <<"a", "b", "a", "b", "a">> }

MCFileSystems == {Tree(data) : data \in Contents}

Rel(names) == [absolute |-> FALSE, names |-> names]

Paths == { Rel(<<>>), [absolute |-> TRUE, names |-> In(<<<<"f">>>>)],
           Rel(<<<<"f">>>>), Rel(<<Dot, <<"f">>>>), Rel(<<<<"d">>>>), Rel(<<<<"d">>, <<"u">>>>),
           Rel(<<<<"o">>, <<"f">>>>), Rel(<<<<"o">>, <<"g">>>>), Rel(<<<<"l">>>>), Rel(<<<<"n">>>>),
           Rel(<<<<"d">>, <<"k">>>>), Rel(<<<<"k">>, <<"k">>>>), Rel(<<<<"f">>, DotDot>>),
           Rel(<<<<"d">>, DotDot, DotDot, <<"w", "x">>, <<"f">>>>), Rel(<<DotDot, <<"w">>, <<"f">>>>),
           Rel(<<DotDot, <<"w", "x">>, <<"g">>>>), Rel(<<<<"d">>, Dot>>),
           Rel(<<<<"e">>, <<"u">>>>), Rel(<<<<"h">>, <<"u">>>>) }

Request(name) ==
    [tool |-> name, path |-> Rel(<<<<"f">>>>), limit |-> Missing, content |-> <<"a", "b", "nl">>,
     old_text |-> <<"a", "b">>, new_text |-> <<"b">>]

(* Another process writes or removes a file, and makes a link of what was a  *)
(* file or nothing, that leads outside.                                      *)
MCForeign ==
    { [path |-> In(<<<<"f">>>>), node |-> node] :
         node \in {File(<<"b", "a", "b">>), Gone, LinkTo(TRUE, Beside(<<<<"f">>>>))} }
    \cup { [path |-> In(<<<<"d">>, <<"k">>>>), node |-> LinkTo(TRUE, Beside(<<<<"g">>>>))] }

(* Every path with every tool; every argument with one file.                 *)
MCRequests ==
    {[Request(t) EXCEPT !.path = p] : t \in {"read_file", "write_file", "edit_file"},
                                      p \in Paths \cup {Missing}}
    \cup {[Request("read_file") EXCEPT !.limit = n] : n \in {-1, 1, 2}}
    \cup {[Request("write_file") EXCEPT !.content = s] : s \in {Missing, <<>>, <<"a", "NUL", "b">>}}
    \cup {[Request("edit_file") EXCEPT !.old_text = s] : s \in {Missing, <<>>, <<"a">>, <<"NUL">>, <<"nl">>}}
    \cup {[Request("edit_file") EXCEPT !.old_text = <<"a">>, !.new_text = s] :
              s \in {Missing, <<>>, <<"a", "a">>}}
    \cup {Request("find")}
=============================================================================
