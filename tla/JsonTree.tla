------------------------------ MODULE JsonTree ------------------------------
(***************************************************************************)
(* libs/cJSON.c: cJSON_Parse and cJSON_PrintUnformatted over nested        *)
(* values, and message.c and policy_offload.c, which put messages          *)
(* together. An item is a record: its type, its number, its string, its    *)
(* children in the order of the linked list, and the key it has in an      *)
(* object. Printing goes into a buffer that grows, with every write        *)
(* measured against the room there is.                                     *)
(***************************************************************************)
EXTENDS JsonString, JsonNumber

CONSTANTS NestingLimit,     (* CJSON_NESTING_LIMIT                         *)
          DefaultSize,      (* default_buffer_size of print                *)
          PreviewSize       (* of a content that goes to a file            *)

ASSUME TreeAssumption == {NestingLimit, DefaultSize, PreviewSize} \subseteq Nat \ {0}

Item(type, number, string, child) ==
    [type |-> type, number |-> number, string |-> string, child |-> child, key |-> <<>>]
Word(type)      == Item(type, 0, <<>>, <<>>)
Number(n)       == Item("number", n, <<>>, <<>>)
String(s)       == Item("string", 0, s, <<>>)
Container(type, child) == Item(type, 0, <<>>, child)

Words == { <<"null", <<110, 117, 108, 108>>>>, <<"false", <<102, 97, 108, 115, 101>>>>,
           <<"true", <<116, 114, 117, 101>>>> }
-----------------------------------------------------------------------------
Is(b, i, c) == i <= Len(b) /\ b[i] = c

(* buffer_skip_whitespace: also the NUL, before which it steps back.       *)
Skip(b, i) ==
    LET rest == SelectInSubSeq(b, i, Len(b), LAMBDA c : c > 32)
    IN IF i > Len(b) THEN i ELSE IF rest = 0 THEN Len(b) ELSE rest

NoItem == [ok |-> FALSE, next |-> 0, fits |-> TRUE, item |-> Word("invalid")]
Parsed(item, next, fits) == [ok |-> TRUE, next |-> next, fits |-> fits, item |-> item]

ParseNumber(b, i) ==
    LET number == Strtod(b, i)
    IN IF number.next = i THEN NoItem ELSE Parsed(Number(number.value), number.next, TRUE)

StringItem(s) ==
    IF s.ok THEN Parsed(String(s.out), s.next, Len(s.out) + 1 <= s.room) ELSE NoItem

ParseStringItem(b, i) == StringItem(ParseString(b, i))

(* parse_value, parse_array and parse_object.  An element of an object is  *)
(* a key, a colon and a value.  Whatever fails deletes what there is.      *)
RECURSIVE ParseValue(_, _, _), Elements(_, _, _, _, _), AfterElement(_, _, _, _, _)

Named(key, value) ==
    IF ~value.ok THEN NoItem
    ELSE [value EXCEPT !.item.key = key.item.string, !.fits = @ /\ key.fits]

Member(b, depth, key) ==
    LET colon == Skip(b, key.next)
    IN IF ~key.ok \/ ~Is(b, colon, 58) THEN NoItem
       ELSE Named(key, ParseValue(b, Skip(b, colon + 1), depth))

AfterElement(b, depth, type, list, element) ==
    LET after == Skip(b, element.next)
        all   == [child |-> Append(list.child, element.item),
                  fits |-> list.fits /\ element.fits]
    IN IF ~element.ok THEN NoItem
       ELSE IF Is(b, after, 44) THEN Elements(b, Skip(b, after + 1), depth, type, all)
       ELSE IF Is(b, after, IF type = "object" THEN 125 ELSE 93)
       THEN Parsed(Container(type, all.child), after + 1, all.fits)
       ELSE NoItem

Elements(b, i, depth, type, list) ==
    AfterElement(b, depth, type, list,
        IF type = "object" THEN Member(b, depth, ParseStringItem(b, i)) ELSE ParseValue(b, i, depth))

ParseContainer(b, i, depth, type) ==
    LET first == Skip(b, i + 1)
    IN IF depth >= NestingLimit \/ first > Len(b) THEN NoItem
       ELSE IF Is(b, first, IF type = "object" THEN 125 ELSE 93)
       THEN Parsed(Container(type, <<>>), first + 1, TRUE)
       ELSE Elements(b, first, depth + 1, type, [child |-> <<>>, fits |-> TRUE])

ParseValue(b, i, depth) ==
    LET word == {w \in Words : IsPrefix(w[2], SubSeq(b, i, Len(b)))}
    IN CASE word # {} -> LET w == CHOOSE w \in word : TRUE
                         IN Parsed(Word(w[1]), i + Len(w[2]), TRUE)
         [] Is(b, i, Quote) -> ParseStringItem(b, i)
         [] i <= Len(b) /\ b[i] \in {45} \cup 48 .. 57 -> ParseNumber(b, i)
         [] Is(b, i, 91) -> ParseContainer(b, i, depth, "array")
         [] Is(b, i, 123) -> ParseContainer(b, i, depth, "object")
         [] OTHER -> NoItem

(* cJSON_Parse; what follows the value is not looked at.                   *)
CJsonParse(s) == LET b == Append(UpToNul(s), Nul) IN ParseValue(b, Skip(b, 1), 0)
-----------------------------------------------------------------------------
(* ensure: room for that many bytes more and one, or a buffer of twice all *)
(* that; update_offset is the length of the text.                          *)
Ensure(p, needed) ==
    LET all == needed + Len(p.text) + 1
    IN IF all <= p.length THEN p ELSE [p EXCEPT !.length = 2 * all]

(* A write of some bytes, and of a terminator if there is one, into the    *)
(* room asked for.                                                         *)
Put(p, needed, bytes, terminator) ==
    LET q == Ensure(p, needed)
    IN [q EXCEPT !.text = @ \o bytes,
                 !.fits = @ /\ Len(q.text) + Len(bytes) + terminator <= q.length]

PrintString(p, s) == Put(p, OutputLength(s) + 3, PrintedString(s), 1)

(* print_value, print_array and print_object.                              *)
RECURSIVE PrintValue(_, _), PrintChildren(_, _, _)

Separated(p, type, more) ==
    LET comma == IF more THEN <<44>> ELSE <<>>
    IN IF type = "object" THEN Put(p, Len(comma) + 1, comma, 1)
       ELSE IF more THEN Put(p, 2, comma, 1) ELSE p

Keyed(p, type, item) ==
    IF type = "object" THEN Put(PrintString(p, item.key), 1, <<58>>, 0) ELSE p

PrintChildren(p, type, rest) ==
    IF rest = <<>> THEN p
    ELSE PrintChildren(Separated(PrintValue(Keyed(p, type, Head(rest)), Head(rest)),
                                 type, Len(rest) > 1),
                       type, Tail(rest))

PrintValue(p, item) ==
    CASE item.type \in {w[1] : w \in Words} ->
           LET word == (CHOOSE w \in Words : w[1] = item.type)[2]
           IN Put(p, Len(word) + 1, word, 1)
      [] item.type = "number" ->
           LET number == PrintNumber(item.number) IN Put(p, Len(number) + 1, number, 1)
      [] item.type = "string" -> PrintString(p, item.string)
      [] item.type = "array" ->
           Put(PrintChildren(Put(p, 1, <<91>>, 0), "array", item.child), 2, <<93>>, 1)
      [] item.type = "object" ->
           Put(PrintChildren(Put(p, 2, <<123>>, 0), "object", item.child), 2, <<125>>, 1)

CJsonPrint(item) == PrintValue([text |-> <<>>, length |-> DefaultSize, fits |-> TRUE], item)
-----------------------------------------------------------------------------
(* cJSON_GetObjectItem: the first child of that name, in any case.         *)
LowerCase(s) == [i \in DOMAIN s |-> IF s[i] \in 65 .. 90 THEN s[i] + 32 ELSE s[i]]

ChildNamed(object, name) ==
    SelectInSeq(object.child, LAMBDA c : LowerCase(UpToNul(c.key)) = LowerCase(name))

NoChild == Word("none")
GetObjectItem(object, name) ==
    LET i == ChildNamed(object, name) IN IF i = 0 THEN NoChild ELSE object.child[i]

(* cJSON_AddStringToObject: a new last child.                              *)
AddString(object, key, s) ==
    [object EXCEPT !.child = Append(@, [String(UpToNul(s)) EXCEPT !.key = key])]

(* cJSON_Duplicate: every string is copied as a C string.                  *)
RECURSIVE Duplicate(_)
Duplicate(item) ==
    [item EXCEPT !.string = UpToNul(@), !.key = UpToNul(@),
                 !.child = [i \in DOMAIN @ |-> Duplicate(@[i])]]

(* cJSON_ReplaceItemInObject: in the place of the first child of that name.*)
ReplaceItemInObject(object, name, item) ==
    LET i == ChildNamed(object, name)
    IN IF i = 0 THEN object ELSE [object EXCEPT !.child[i] = [item EXCEPT !.key = name]]
-----------------------------------------------------------------------------
(* message.c: a message with a role and a content, and one of a tool.  The *)
(* keys are cut down to their initials.                                    *)
RoleKey == <<114>>
IdKey == <<116>>
ContentKey == <<99>>

NewObject == Container("object", <<>>)

MsgJsonWithRole(role, content) ==
    CJsonPrint(AddString(AddString(NewObject, RoleKey, role), ContentKey, content))

MsgToolJson(id, content) ==
    CJsonPrint(AddString(AddString(AddString(NewObject, RoleKey, <<116>>), IdKey, id),
                         ContentKey, content))

(* policy_offload.c: the placeholder begins with that of the content, cut  *)
(* at PreviewSize bytes, and goes to its place in a duplicate.             *)
Placeholder(content) ==
    (IF Len(content) > PreviewSize THEN SubSeq(content, 1, PreviewSize) ELSE content)
        \o <<46>>

Moved(object) ==
    ReplaceItemInObject(Duplicate(object), ContentKey,
        String(Placeholder(GetObjectItem(object, ContentKey).string)))

Offloaded(message) == CJsonPrint(Moved(CJsonParse(message).item))
=============================================================================
