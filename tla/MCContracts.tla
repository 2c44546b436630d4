---------------------------- MODULE MCContracts ----------------------------
EXTENDS Contracts
CONSTANTS u1, u2

Call(to, fn, who, other, n, v) ==
  [to |-> to, fn |-> fn, who |-> who, other |-> other, n |-> n, value |-> v]

TokenCalls ==
  {Call(Token, "transfer", u1, u2, 1, 0)}
  \union {Call(Token, "approve", u1, s, 2, 0) : s \in {u2, Wrapper}}
  \union {Call(Token, "transferFrom", u2, u1, 1, 0)}
WrapperCalls ==
  {Call(Wrapper, "deposit", u1, u1, 2, 0)}
  \union {Call(Wrapper, fn, u1, u2, 1, 0) : fn \in {"withdraw", "transferTo"}}
NativeCalls ==
  {Call(Native, "deposit", u1, u1, 0, 1), Call(Native, "transfer", u1, u2, 1, 1)}
  \union {Call(Native, fn, u1, u2, 1, 0) : fn \in {"transfer", "withdraw"}}
ProtocolCalls == {Call(a, "any", u1, u1, 0, 0) : a \in {Manager, RdPoS}}

MCTxs == TokenCalls \union WrapperCalls \union NativeCalls \union ProtocolCalls
MCSimulations ==
  {Call(Token, "transfer", u1, u2, 1, 0)} \union WrapperCalls \union NativeCalls
  \union {Call(a, "any", u1, u1, 0, 1) : a \in {Manager, RdPoS}}
MCSupply == [u \in Users |-> IF u = u1 THEN 2 ELSE 0]
MCFunds == [u \in Users |-> IF u = u1 THEN 2 ELSE 0]
=============================================================================
