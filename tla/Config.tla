------------------------------- MODULE Config -------------------------------
(***************************************************************************)
(* config.c: how the program reads integers from its environment, and      *)
(* agent_create, which reads one of them, CONTEXT_WINDOW, again and by     *)
(* itself.  A text is a sequence of bytes; Unset stands for a variable that *)
(* is not set.  The widths of int and long are constants.  *)
(***************************************************************************)
EXTENDS Integers, Sequences

CONSTANTS IntMax, LongMax,      (* INT_MAX, LONG_MAX                       *)
          MaxWindow,            (* largest CONTEXT_WINDOW config accepts   *)
          DefaultWindow,
          Unset                 (* getenv returns NULL                     *)

Byte  == 0 .. 255
Space == {32} \cup 9 .. 13
Sign  == {43, 45}
Digit == 48 .. 57

ASSUME WidthAssumption ==
    /\ {IntMax, LongMax, MaxWindow, DefaultWindow} \subseteq Nat \ {0}
    /\ DefaultWindow <= MaxWindow /\ MaxWindow <= IntMax /\ IntMax < LongMax
    /\ Unset \notin Seq(Byte)

(* The first place, from there on, where there is none of these bytes.     *)
Past(s, from, bytes) ==
    CHOOSE i \in from .. Len(s) + 1 :
        /\ \A k \in from .. i - 1 : s[k] \in bytes
        /\ i <= Len(s) => s[i] \notin bytes

(* What strtol(3) has accumulated after each byte.  Once it is out of      *)
(* range it stays so.                                                      *)
Accumulated(s, from) ==
    LET n[k \in 0 .. Len(s)] ==
            IF k < from \/ k = 0 THEN 0
            ELSE IF n[k - 1] > LongMax + 1 \/ s[k] \notin Digit THEN n[k - 1]
            ELSE 10 * n[k - 1] + s[k] - 48
    IN n

(* strtol(3) in base 10: its value, whether that is out of range, and how  *)
(* many bytes it used; none if there is no digit.                          *)
Strtol(s) ==
    LET first  == Past(s, 1, Space)
        signed == first <= Len(s) /\ s[first] \in Sign
        minus  == signed /\ s[first] = 45
        from   == IF signed THEN first + 1 ELSE first
        end    == Past(s, from, Digit)
        number == Accumulated(s, from)[end - 1]
        most   == IF minus THEN LongMax + 1 ELSE LongMax
        inside == IF number > most THEN most ELSE number
    IN IF end = from THEN [value |-> 0, erange |-> FALSE, used |-> 0]
       ELSE [value |-> IF minus THEN -inside ELSE inside,
             erange |-> number > most, used |-> end - 1]

(* Mutant of ParseEnvInt: what follows the number is not looked at.        *)
ParseEnvPrefix(text, fallback, min_value, max_value) ==
    LET parsed == Strtol(text)
    IN IF text = Unset \/ text = <<>> THEN fallback
       ELSE IF ~parsed.erange /\ parsed.used # 0 /\ parsed.value \in min_value .. max_value
       THEN parsed.value ELSE fallback

ParseEnvInt(text, fallback, min_value, max_value) ==
    LET parsed == Strtol(text)
    IN IF text = Unset \/ text = <<>> THEN fallback
       ELSE IF ~parsed.erange /\ parsed.used # 0 /\ parsed.used = Len(text)
               /\ parsed.value \in min_value .. max_value
       THEN parsed.value ELSE fallback

(* g_config.context_window, as config_init sets it.                        *)
ConfigWindow(text) == ParseEnvInt(text, DefaultWindow, 1, MaxWindow)

(* atoi: strtol converted to an int.                                       *)
Atoi(text) ==
    LET wrapped == Strtol(text).value % (2 * IntMax + 2)
    IN IF wrapped > IntMax THEN wrapped - (2 * IntMax + 2) ELSE wrapped

(* The window that agent_create gives the context.                         *)
AgentWindow(text) ==
    IF text = Unset THEN DefaultWindow
    ELSE IF Atoi(text) > 0 THEN Atoi(text) ELSE DefaultWindow
=============================================================================
