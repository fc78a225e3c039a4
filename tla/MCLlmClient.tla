---------------------------- MODULE MCLlmClient ----------------------------
(* Replies of five and six bytes, the first two of which are the header, so  *)
(* that a buffer of one byte grows three times; a request of five bytes.     *)
EXTENDS LlmClient

Plain == [head |-> 2, len |-> 5, status |-> "200", shape |-> "message",
          content |-> "text", calls |-> <<>>]

Good == [object |-> TRUE, id |-> TRUE, name |-> TRUE, arguments |-> "object"]

SomeReplies ==
    {Plain, [Plain EXCEPT !.status = "other"]}
    \cup {[Plain EXCEPT !.shape = s] : s \in {"garbage", "no choices", "no message"}}
    \cup {[Plain EXCEPT !.content = "none", !.len = 6, !.calls = <<c, Good>>] :
              c \in {Good, [Good EXCEPT !.object = FALSE], [Good EXCEPT !.id = FALSE],
                     [Good EXCEPT !.arguments = "empty"], [Good EXCEPT !.arguments = "none"]}}
=============================================================================
