------------------------------ MODULE MCState ------------------------------
(* Instances of State for TLC. *)
EXTENDS State, TLC

CONSTANTS n1, n2, alice, bob

Transfer(from, to, value, nonce) ==
  [from |-> from, to |-> to, value |-> value, fee |-> 1, nonce |-> nonce]

Accounts == alice :> [balance |-> 6, nonce |-> 0]

(* Two transactions of one nonce, each affordable, together not. *)
SameNonce == {Transfer(alice, bob, 2, 0), Transfer(alice, bob, 3, 0)}

(* And the next in the row, and one without fee from the account they create. *)
Mixed ==
  SameNonce \cup {Transfer(alice, bob, 1, 1), [Transfer(bob, alice, 0, 0) EXCEPT !.fee = 0]}

=============================================================================
