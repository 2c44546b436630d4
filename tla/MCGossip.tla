------------------------------ MODULE MCGossip ------------------------------
EXTENDS Gossip
CONSTANTS n1, n2, n3, n4
Both(E) == E \union {<<e[2], e[1]>> : e \in E}
(* A ring, where copies meet, with a node that may restart; and a line,      *)
(* where n3 has to pass on to n4 what n1 sends.                              *)
RingAndLine == {Both({<<n1, n2>>, <<n2, n3>>, <<n3, n1>>}), Both({<<n1, n3>>, <<n3, n4>>})}
OneRound == [kind : {"tx", "block"}, height : {1}]
First == [h \in Heights |-> n1]
Last == [h \in Heights |-> n3]
=============================================================================
