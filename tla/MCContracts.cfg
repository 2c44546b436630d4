CONSTANTS
  u1 = u1
  u2 = u2
  Token = Token
  Wrapper = Wrapper
  Native = Native
  Manager = Manager
  RdPoS = RdPoS
  NoEntry = NoEntry
  Users = {u1, u2}
  Supply <- MCSupply
  Funds <- MCFunds
  TxCalls <- MCTxs
  SimulatedCalls <- MCSimulations
  Restarts = TRUE
  MaxAmount = 2
SPECIFICATION ContractsSpec
INVARIANT
  TokenSupplyKept
PROPERTIES
  WrapperKeepsUp
  NativeSupplyMoved
  NativeWrapperKeepsUp
  OthersSpendAllowance
