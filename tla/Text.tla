-------------------------------- MODULE Text --------------------------------
(***************************************************************************)
(* The texts of Numbers, read as strings and documents in JSON: in every   *)
(* state the text so far is given to the functions of cJSON.               *)
(***************************************************************************)
EXTENDS JsonTree, Numbers

(* The text as JSON: what is typed as a string, between quotes.            *)
Document == IF kind = "string" THEN <<Quote>> \o text \o <<Quote>> ELSE text

(* The code point that a sequence of UTF-8 stands for, if it is one of the *)
(* shortest form.                                                          *)
Marks  == <<0, 192, 224, 240>>
Lowest == <<0, 128, 2048, 65536>>
Encodes(s, c) ==
    /\ Len(s) \in 1 .. 4 /\ c >= Lowest[Len(s)]
    /\ \A k \in 2 .. Len(s) : s[k] \in 128 .. 191
    /\ FoldLeft(LAMBDA n, b : 64 * n + b - 128, s[1] - Marks[Len(s)], Tail(s)) = c

(* A message that was printed reads as a whole, with this id and content.  *)
ReadsBack(message, id, content) ==
    \A parsed \in {CJsonParse(message.text)} :
        /\ message.fits /\ parsed.ok /\ parsed.fits
        /\ parsed.next = Len(message.text) + 1
        /\ GetObjectItem(parsed.item, IdKey).string = id
        /\ GetObjectItem(parsed.item, ContentKey).string = content

(* The same item, but for the last bit of a number that has more digits    *)
(* than a double can be trusted with.                                      *)
RECURSIVE Alike(_, _)
Alike(a, b) ==
    /\ [a EXCEPT !.number = 0, !.child = <<>>] = [b EXCEPT !.number = 0, !.child = <<>>]
    /\ CompareDouble(a.number, b.number)
    /\ Abs(b.number) < 10 ^ ShortDigits => a.number = b.number
    /\ Len(a.child) = Len(b.child) /\ \A i \in DOMAIN a.child : Alike(a.child[i], b.child[i])

(* What was parsed prints, reads the same again, and prints the same.      *)
PrintsBack(parsed) ==
    /\ parsed.fits
    /\ \A printed \in {CJsonPrint(parsed.item)} : \A again \in {CJsonParse(printed.text)} :
          /\ printed.fits /\ again.ok /\ Alike(again.item, Duplicate(parsed.item))
          /\ CJsonPrint(again.item).text = printed.text

(* What is put into a message comes back from it, whatever bytes it is     *)
(* made of, when llm_chat parses the history to send it; and a document    *)
(* that is parsed, printed and parsed again, as a reply that enters the    *)
(* history is, stays the same but for what follows a NUL, as a duplicate   *)
(* does, and the last bit of long numbers, which do not change a second    *)
(* time. A result whose content goes to a file still answers its call. A   *)
(* literal becomes the UTF-8 of its code point. No string needs more bytes *)
(* than were allocated for it, and no write more than ensure made room     *)
(* for.                                                                    *)
JsonSurvives ==
    /\ kind = "string" =>
         /\ ReadsBack(MsgJsonWithRole(<<117>>, text), <<>>, UpToNul(text))
         /\ \A result \in {MsgToolJson(<<97>>, text)} :
               /\ ReadsBack(result, <<97>>, UpToNul(text))
               /\ ReadsBack(Offloaded(result.text), <<97>>, Placeholder(UpToNul(text)))
         /\ \A literal \in {Literal(Document, 2, Len(Document))} :
               IsPrefix(<<Backslash, LetterU>>, text) /\ literal.length = Len(text) =>
                   \A read \in {ParseString(Document, 1)} :
                       read.next > Len(Document) => Encodes(read.out, literal.code)
    /\ kind # "number" =>
         \A parsed \in {CJsonParse(Document)} : parsed.ok => PrintsBack(parsed)

(* A reply that is cut anywhere before its end does not parse: this is all *)
(* that tells llm_chat a whole reply from the half of one.                 *)
CutIsRefused ==
    kind # "number" =>
        \A parsed \in {CJsonParse(Document)} :
            parsed.ok /\ parsed.item.type \in {"object", "array", "string"} =>
               \A n \in 0 .. parsed.next - 2 : ~CJsonParse(SubSeq(Document, 1, n)).ok
=============================================================================
