------------------------------ MODULE MCAgent ------------------------------
EXTENDS Agent
MCCost == [size \in {"short", "long", "offloaded"} |->
              CASE size = "short" -> 1 [] size = "long" -> 3 [] OTHER -> 2]
=============================================================================
