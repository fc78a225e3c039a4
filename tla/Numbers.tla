------------------------------ MODULE Numbers ------------------------------
(***************************************************************************)
(* Texts that the program does not control, typed piece by piece by whoever*)
(* writes them, and the first thing they are read as: the integers of the  *)
(* environment.  In every state the text so far is given to both readers   *)
(* of CONTEXT_WINDOW, config_init and agent_create.                        *)
(***************************************************************************)
EXTENDS Config

CONSTANTS Kinds,        (* of text: "number", "string", "document" or such *)
          Pieces,       (* of each kind, the pieces a text is made of      *)
          MaxPieces     (* bound: of each kind, the pieces in a text       *)

ASSUME PiecesAssumption ==
    \A k \in Kinds : Pieces[k] \subseteq Seq(Byte) /\ MaxPieces[k] \in Nat

VARIABLES kind, text, pieces
textVars == <<kind, text, pieces>>

TextInit == kind \in Kinds /\ text = <<>> /\ pieces = 0

Type ==
    /\ pieces < MaxPieces[kind]
    /\ \E piece \in Pieces[kind] : text' = text \o piece
    /\ pieces' = pieces + 1
    /\ UNCHANGED kind

TextSpec == TextInit /\ [][Type]_textVars
-----------------------------------------------------------------------------
(* A numeral: blanks, at most a sign, and digits; and the number it stands *)
(* for, however large.                                                     *)
Numeral(s) ==
    \E i, j \in 0 .. Len(s) :
        /\ i <= j /\ j <= i + 1 /\ j < Len(s)
        /\ \A k \in 1 .. i : s[k] \in Space
        /\ \A k \in i + 1 .. j : s[k] \in Sign
        /\ \A k \in j + 1 .. Len(s) : s[k] \in Digit

Counted(s) ==
    LET n[k \in 0 .. Len(s)] ==
            IF k = 0 THEN 0
            ELSE IF s[k] \in Digit THEN 10 * n[k - 1] + s[k] - 48 ELSE n[k - 1]
    IN n

NumeralValue(s) ==
    IF \E k \in 1 .. Len(s) : s[k] = 45 THEN -Counted(s)[Len(s)] ELSE Counted(s)[Len(s)]

(* The window of the configuration is the number its text says, if that is *)
(* one in range, and the default for every other text; the window of the   *)
(* agent is positive, and the same for every text the configuration takes. *)
WindowsAgree ==
    kind = "number" =>
        LET n == NumeralValue(text)
            valid == Numeral(text) /\ n \in 1 .. MaxWindow
        IN /\ ConfigWindow(text) = IF valid THEN n ELSE DefaultWindow
           /\ AgentWindow(text) \in 1 .. IntMax
           /\ valid => AgentWindow(text) = n
           /\ {ConfigWindow(Unset), AgentWindow(Unset)} = {DefaultWindow}
=============================================================================
