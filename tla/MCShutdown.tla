---------------------------- MODULE MCShutdown ----------------------------
(* A chain g - a1 - a2 - a3 with a second block c2 that could follow a1, and *)
(* transactions t1..t3, one of which is in both blocks of height 2.          *)
EXTENDS Shutdown, TLC

CONSTANTS g, a1, a2, a3, c2, t1, t2, t3

MCPrev == [x \in Blocks |-> CASE x = g -> NoHash [] x = a1 -> g [] x \in {a2, c2} -> a1 [] x = a3 -> a2]
MCHeight == [x \in Blocks |-> CASE x = g -> 0 [] x = a1 -> 1 [] x \in {a2, c2} -> 2 [] x = a3 -> 3]
MCTxs == [x \in Blocks |->
  CASE x = g -> <<>> [] x = a1 -> <<t1>> [] x = a2 -> <<t2, t3>> [] x = c2 -> <<t3>> [] x = a3 -> <<>>]

(* a1 and a2 hold a transaction each of the account, c2 and a3 none.         *)
MCUses == [x \in Blocks |-> IF x \in {a1, a2} THEN 1 ELSE 0]
MCFirstNonce == [x \in Blocks |-> CASE x \in {g, a1} -> 0 [] x \in {a2, c2} -> 1 [] x = a3 -> 2]

(* A block of each branch, in memory or in the database only.                *)
AllQueries ==
  [op : {"block"}, by : {"hash"}, hash : {a1, c2}] \cup
  [op : {"block"}, by : {"height"}, height : {1, 2}] \cup
  [op : {"tx"}, by : {"tx"}, tx : {t1, t3}] \cup
  [op : {"tx"}, by : {"hash"}, hash : {a1}, index : {0}] \cup
  [op : {"tx"}, by : {"height"}, height : {2}, index : {0}]
=============================================================================
