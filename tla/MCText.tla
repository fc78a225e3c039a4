------------------------------- MODULE MCText -------------------------------
(* Strings of quotes, backslashes and hexadecimal digits, one at a time and  *)
(* as whole literals (both halves of a surrogate pair, code points of two    *)
(* and three bytes, one that stops in the middle); documents of two levels   *)
(* with and without what JSON demands; integers of up to five digits, where  *)
(* a double holds eight bits and two digits are sure; numbers around every   *)
(* bound of an int of five bits, a long of eight and windows up to twelve.   *)
EXTENDS Text

Hex(a, b, c, d) == <<92, 117, a, b, c, d>>

StringPieces == { <<34>>, <<92>>, <<97>>, <<10>>, <<1>>, <<110>>, <<195, 169>>,
                  <<92, 117, 48, 49, 50>>,
                  Hex(68, 56, 51, 68), Hex(68, 69, 48, 48), Hex(48, 48, 101, 57),
                  Hex(50, 48, 97, 99), Hex(48, 48, 48, 48) }

DocumentPieces == { <<123>>, <<125>>, <<91>>, <<93>>, <<44>>, <<45, 49, 32>>,
                    <<34, 65, 34, 58>>, <<34, 97, 10, 34>>, <<123, 34, 99, 34, 58, 110, 117, 108, 108>> }

NumberPieces == { <<32>>, <<43>>, <<45>>, <<48>>, <<49>>, <<51>>, <<120>> }

IntegerPieces == { <<45>>, <<48>>, <<49>>, <<50>>, <<53>>, <<57>> }

MCPieces == [number |-> NumberPieces, string |-> StringPieces,
             document |-> DocumentPieces, integer |-> IntegerPieces]
MCMaxPieces == [number |-> 5, string |-> 4, document |-> 5, integer |-> 5]
=============================================================================
