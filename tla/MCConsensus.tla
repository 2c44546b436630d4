---------------------------- MODULE MCConsensus ----------------------------
(* Small instances of Consensus: two validators, one of which contributes   *)
(* randomness, or three with two that do.                                   *)
EXTENDS Consensus, TLC

CONSTANTS v1, v2, v3, s0, s1, b0, b1

Order(x, y, z) == (0 :> x) @@ (1 :> y) @@ (2 :> z)

(* Two validators: they change roles, or keep them. *)
TwoValidators(r) ==
  IF r = Sha3(<<s0>>) THEN (0 :> v2) @@ (1 :> v1) ELSE (0 :> v1) @@ (1 :> v2)

(* Three validators, two participants: after the first block v3 creates and  *)
(* v2 moves to a later place.                                                *)
TwoParticipants(r) == IF r = ZeroHash THEN Order(v1, v2, v3) ELSE Order(v3, v1, v2)

(* v3, or v2, finds b1 invalid. *)
FollowerRefuses == {<<v3, b1>>}
SecondRefuses == {<<v2, b1>>}

=============================================================================
