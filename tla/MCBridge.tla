------------------------------ MODULE MCBridge ------------------------------
(* Instances of Bridge for TLC: two positions in one symbol, the first one *)
(* asked for twice; an exit, which carries no lots; an intent to buy.      *)
EXTENDS Bridge

MCSymbol == [r \in {"r1", "r2"} |-> "s1"]

Entry(r, q) == [row |-> r, qty |-> q, lots |-> TRUE, paper |-> TRUE, live |-> TRUE]

MCTwice == [i \in {"a", "b", "x", "l"} |->
              CASE i = "x" -> [Entry("r2", -2) EXCEPT !.lots = FALSE]
                [] i = "l" -> Entry("r2", 1)
                [] OTHER   -> Entry("r1", -2)]
MCPair  == [i \in {"a", "c"} |->
              IF i = "c" THEN [Entry("r2", -2) EXCEPT !.paper = FALSE] ELSE Entry("r1", -1)]
=============================================================================
