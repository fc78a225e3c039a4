----------------------------- MODULE JsonString -----------------------------
(***************************************************************************)
(* libs/cJSON.c: how a string is read from JSON text and printed into it.  *)
(* Everything the model says and is told passes through both: contents of  *)
(* messages, arguments and results of tools.  A text is a sequence of      *)
(* bytes that ends with a NUL, its positions counted from 1.               *)
(***************************************************************************)
EXTENDS Integers, Sequences, SequencesExt

Nul == 0
Quote == 34
Backslash == 92
LetterU == 117

(* The escapes of one letter, and the bytes they stand for.                *)
Escapes == { <<98, 8>>, <<102, 12>>, <<110, 10>>, <<114, 13>>, <<116, 9>>,
             <<Quote, Quote>>, <<Backslash, Backslash>> }
Unescaped(letter) == (CHOOSE e \in Escapes : e[1] = letter)[2]
Letter(byte)      == (CHOOSE e \in Escapes : e[2] = byte)[1]

UpToNul(s) ==
    LET end == SelectInSeq(s, LAMBDA b : b = Nul)
    IN IF end = 0 THEN s ELSE SubSeq(s, 1, end - 1)
-----------------------------------------------------------------------------
HexDigit(b) == CASE b \in 48 .. 57 -> b - 48
                 [] b \in 65 .. 70 -> b - 55
                 [] b \in 97 .. 102 -> b - 87
                 [] OTHER -> -1

(* parse_hex4; anything else than four digits is 0.                        *)
ParseHex4(b, i) ==
    LET digits == [k \in 1 .. 4 |-> HexDigit(b[i + k - 1])]
    IN IF -1 \in ToSet(digits) THEN 0
       ELSE FoldLeft(LAMBDA h, d : 16 * h + d, 0, digits)

(* utf16_literal_to_utf8: the bytes of the code point.                     *)
Continued(c) == 128 + (c % 64)
Utf8(c) ==
    IF c < 128 THEN <<c>>
    ELSE IF c < 2048 THEN <<192 + (c \div 64), Continued(c)>>
    ELSE IF c < 65536 THEN <<224 + (c \div 4096), Continued(c \div 64), Continued(c)>>
    ELSE <<240 + (c \div 262144), Continued(c \div 4096), Continued(c \div 64), Continued(c)>>

High(c) == c \in 55296 .. 56319
Low(c)  == c \in 56320 .. 57343

(* The literal at i, in a string that ends before end: its length, 0 if it *)
(* is none, and its code point.                                            *)
NoLiteral == [length |-> 0, code |-> 0]

SurrogatePair(first, second) ==
    IF ~Low(second) THEN NoLiteral
    ELSE [length |-> 12, code |-> 65536 + 1024 * (first % 1024) + (second % 1024)]

LiteralFrom(b, i, end, first) ==
    CASE Low(first) -> NoLiteral
      [] High(first) ->
           IF end - (i + 6) < 6 \/ b[i + 6] # Backslash \/ b[i + 7] # LetterU THEN NoLiteral
           ELSE SurrogatePair(first, ParseHex4(b, i + 8))
      [] OTHER -> [length |-> 6, code |-> first]

Literal(b, i, end) ==
    IF end - i < 6 THEN NoLiteral ELSE LiteralFrom(b, i, end, ParseHex4(b, i + 2))
-----------------------------------------------------------------------------
(* The first pass of parse_string: where the closing quote is, 0 if there  *)
(* is none, and how many backslashes came before it.                       *)
RECURSIVE Closing(_, _, _)

(* Mutant of Closing: the end of the text ends the string, too.            *)
ClosingAtEnd(b, i, skipped) ==
    IF i >= Len(b) THEN [at |-> Len(b), skipped |-> skipped]
    ELSE IF b[i] = Quote THEN [at |-> i, skipped |-> skipped]
    ELSE IF b[i] # Backslash THEN Closing(b, i + 1, skipped)
    ELSE Closing(b, i + 2, skipped + 1)

Closing(b, i, skipped) ==
    IF i > Len(b) THEN [at |-> 0, skipped |-> skipped]
    ELSE IF b[i] = Quote THEN [at |-> i, skipped |-> skipped]
    ELSE IF b[i] # Backslash THEN Closing(b, i + 1, skipped)
    ELSE IF i = Len(b) THEN [at |-> 0, skipped |-> skipped]
    ELSE Closing(b, i + 2, skipped + 1)

(* The second pass: the bytes of the string, or a failure.  A literal that *)
(* is no number may end in the middle of an escape.                        *)
Coded(literal) == [length |-> literal.length, out |-> Utf8(literal.code)]

Escape(b, i, end) ==
    LET letter == b[i + 1]
    IN CASE letter = 47 -> [length |-> 2, out |-> <<47>>]
         [] letter \in {e[1] : e \in Escapes} -> [length |-> 2, out |-> <<Unescaped(letter)>>]
         [] letter = LetterU -> Coded(Literal(b, i, end))
         [] OTHER -> Coded(NoLiteral)

Failed == [ok |-> FALSE, out |-> <<>>]

RECURSIVE Decode(_, _, _, _), AfterEscape(_, _, _, _, _)
AfterEscape(b, i, end, out, escape) ==
    IF escape.length = 0 THEN Failed
    ELSE Decode(b, i + escape.length, end, out \o escape.out)

Decode(b, i, end, out) ==
    IF i >= end THEN [ok |-> TRUE, out |-> out]
    ELSE IF b[i] # Backslash THEN Decode(b, i + 1, end, Append(out, b[i]))
    ELSE AfterEscape(b, i, end, out, Escape(b, i, end))

(* parse_string at the quote i: the string, the place after it, and the    *)
(* bytes that were allocated for it.                                       *)
NoString == [ok |-> FALSE, out |-> <<>>, next |-> 0, room |-> 0]

Quoted(i, closing, decoded) ==
    IF ~decoded.ok THEN NoString
    ELSE [ok |-> TRUE, out |-> decoded.out, next |-> closing.at + 1,
          room |-> closing.at - i - closing.skipped + 1]

UpTo(b, i, closing) ==
    IF closing.at = 0 THEN NoString
    ELSE Quoted(i, closing, Decode(b, i + 1, closing.at, <<>>))

ParseString(b, i) == IF b[i] # Quote THEN NoString ELSE UpTo(b, i, Closing(b, i + 1, 0))
-----------------------------------------------------------------------------
HexLetter(d) == IF d < 10 THEN d + 48 ELSE d + 87

(* Mutant of Escaped: control characters are copied into two bytes.        *)
EscapedShort(byte) ==
    IF byte \in {e[2] : e \in Escapes} THEN <<Backslash, Letter(byte)>>
    ELSE IF byte < 32 THEN <<Backslash, LetterU>> ELSE <<byte>>

Escaped(byte) ==
    IF byte \in {e[2] : e \in Escapes} THEN <<Backslash, Letter(byte)>>
    ELSE IF byte < 32
    THEN <<Backslash, LetterU, 48, 48, HexLetter(byte \div 16), HexLetter(byte % 16)>>
    ELSE <<byte>>

(* print_string_ptr: what it asks room for, and what it writes.            *)
OutputLength(s) ==
    FoldLeft(LAMBDA n, b : n + (IF b \in {e[2] : e \in Escapes} THEN 2
                                ELSE IF b < 32 THEN 6 ELSE 1), 0, UpToNul(s))

PrintedString(s) ==
    LET c == UpToNul(s)
    IN <<Quote>> \o FlattenSeq([i \in DOMAIN c |-> Escaped(c[i])]) \o <<Quote>>
=============================================================================
