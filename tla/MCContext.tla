----------------------------- MODULE MCContext -----------------------------
(* Long contents cost three times a short one; a placeholder costs a little  *)
(* less than a long one, as 188 characters do against 201.                   *)
EXTENDS Context, TLC
CONSTANTS t, c1, c2
MCCost == [size \in Sizes |-> CASE size = "short" -> 1 [] size = "long" -> 3 [] OTHER -> 2]
MCMessage(role, size, content) == [role |-> role, tag |-> t, size |-> size, content |-> content]
(* One message of every kind offloading tells apart, and two contents to     *)
(* tell files apart.                                                         *)
MCSaid == { MCMessage("user", "short", c1), MCMessage("assistant", "long", c1),
            MCMessage("tool", "short", c1),
            MCMessage("tool", "long", c1), MCMessage("tool", "long", c2) }
MCTalk == { MCMessage("user", "short", c1), MCMessage("user", "long", c2) }
=============================================================================
