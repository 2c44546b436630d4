----------------------------- MODULE Contracts -----------------------------
(* Transactions and simulations that call contracts: State hands them to     *)
(* ContractManager, which runs one of three deployed contracts, an ERC20     *)
(* token, an ERC20Wrapper for it, and a NativeWrapper.  A call is one step:  *)
(* transactions run under State's mutex.  The variables of a contract are    *)
(* transactional (SafeVars): a call works on a copy which its end takes over *)
(* or drops.  Fees are left out; State models them.                          *)
EXTENDS Naturals, FiniteSets, Functions

CONSTANTS
  Users,
  Token, Wrapper, Native,  \* the three contracts
  Manager, RdPoS,          \* the addresses of the protocol contracts
  TxCalls,        \* the calls in transactions: [to, fn, who, other, n, value]
  SimulatedCalls, \* the calls eth_estimateGas is asked about
  Supply,         \* user -> tokens it starts with
  Funds,          \* user -> native balance it starts with
  Restarts,       \* whether the node is restarted
  MaxAmount,      \* bound: what an account holds, or is owed, of a kind of token
  NoEntry         \* no entry in a map

Contracts == {Token, Wrapper, Native}

Accounts == Users \union Contracts \union {Manager, RdPoS}

(* Users sign the transactions, and ask for the simulations.                 *)
ASSUME ContractsAssumption ==
  /\ Token # Wrapper /\ Token # Native /\ Wrapper # Native
  /\ {Manager, RdPoS} \intersect Contracts = {}
  /\ Users \intersect (Contracts \union {Manager, RdPoS}) = {} /\ IsFiniteSet(Users)
  /\ Supply \in [Users -> Nat] /\ Funds \in [Users -> Nat] /\ NoEntry \notin Nat
  /\ MaxAmount \in Nat
  /\ \A c \in TxCalls \union SimulatedCalls :
       c.who \in Users /\ c.other \in Accounts /\ c.n \in Nat /\ c.value \in Nat

VARIABLES
  native,    \* State.accounts: the native balances
  data,      \* what the contracts have committed
  commit,    \* ContractManager.commit
  callValue, \* ContractManager.value
  balances   \* ContractManager.balances

contractsVars == <<native, data, commit, callValue, balances>>

NoBalances == [a \in Accounts |-> NoEntry]
Amount(x) == IF x = NoEntry THEN 0 ELSE x

(* bal: _balances of the token and of the NativeWrapper.  two: the maps of   *)
(* maps, _allowed (owner, then spender) of the same and _tokensAndBalances   *)
(* (token, then user) of the ERC20Wrapper.                                   *)
ContractsInit ==
  /\ native = [a \in Accounts |-> IF a \in Users THEN Funds[a] ELSE 0]
  /\ data = [bal |-> [c \in {Token, Native} |-> [a \in Accounts |->
                       IF c = Token /\ a \in Users THEN Supply[a] ELSE 0]],
             two |-> [c \in Contracts |-> [a \in Accounts |-> NoBalances]]]
  /\ commit = FALSE /\ callValue = 0 /\ balances = NoBalances

-----------------------------------------------------------------------------
(* The functions of the contracts.  w is the world a call sees: bal and two, *)
(* balances, native, and commit, the flag of ContractManager.  An exception  *)
(* is the empty set, a result the set of the new world.  uint256_t is        *)
(* checked: a subtraction below zero throws.                                 *)
Throw == {}

MoveTokens(w, c, from, to, n) ==
  IF w.bal[c][from] < n THEN Throw
  ELSE LET debited == [w.bal[c] EXCEPT ![from] = @ - n]
       IN {[w EXCEPT !.bal[c] = [debited EXCEPT ![to] = @ + n]]}

(* ERC20 and NativeWrapper: transfer, approve, transferFrom.  Variant: the   *)
(* recipient is credited before the sender's balance is known to be enough.  *)
CreditOnly(w, c, caller, to, n) == {[w EXCEPT !.bal[c][to] = @ + n]}
Transfer(w, c, caller, to, n) == MoveTokens(w, c, caller, to, n)

Approve(w, c, caller, spender, n) == {[w EXCEPT !.two[c][caller][spender] = n]}

(* Variant: the allowance is checked and not used up.                        *)
AllowanceKept(w, c, caller, from, to, n) ==
  IF Amount(w.two[c][from][caller]) < n THEN Throw ELSE MoveTokens(w, c, from, to, n)
TransferFrom(w, c, caller, from, to, n) ==
  LET allowance == Amount(w.two[c][from][caller]) IN
  IF allowance < n THEN Throw
  ELSE MoveTokens([w EXCEPT !.two[c][from][caller] = allowance - n], c, from, to, n)

(* ContractManagerInterface::populateBalance and sendTokens.                 *)
Populated(w, a) == IF w.balances[a] = NoEntry THEN w.native[a] ELSE w.balances[a]

SendTokens(w, from, to, n) ==
  LET b == [w.balances EXCEPT ![from] = Populated(w, from), ![to] = Populated(w, to)]
  IN IF b[to] < n \/ b[from] < n THEN Throw
     ELSE {[w EXCEPT !.balances = [b EXCEPT ![from] = @ - n, ![to] = @ + n]]}

(* NativeWrapper::deposit and withdraw.  Variant: the deposit is paid out as *)
(* tokens twice.                                                             *)
DepositTwice(w, caller, v) == {[w EXCEPT !.bal[Native][caller] = @ + 2 * v]}
NativeDeposit(w, caller, v) == {[w EXCEPT !.bal[Native][caller] = @ + v]}

NativeWithdraw(w, caller, n) ==
  IF w.bal[Native][caller] < n THEN Throw
  ELSE SendTokens([w EXCEPT !.bal[Native][caller] = @ - n], Native, caller, n)

(* A call of the token by the wrapper (ContractManagerInterface::            *)
(* callContract) ends with a commit or a revert of the token's variables,    *)
(* as ContractManager.commit says.                                           *)
Nested(w, r) ==
  IF w.commit THEN r
  ELSE {[x EXCEPT !.bal[Token] = w.bal[Token], !.two[Token] = w.two[Token]] : x \in r}

(* ERC20Wrapper::transferTo, and withdraw, which is the same to the caller.  *)
(* Variant: the user's balance is not reduced.                               *)
PayOutOnly(w, caller, to, n) ==
  IF Amount(w.two[Wrapper][Token][caller]) <= n THEN Throw
  ELSE Nested(w, Transfer(w, Token, Wrapper, to, n))
TransferTo(w, caller, to, n) ==
  IF Amount(w.two[Wrapper][Token][caller]) <= n THEN Throw
  ELSE LET debited == [w EXCEPT !.two[Wrapper][Token][caller] = @ - n]
       IN Nested(debited, Transfer(debited, Token, Wrapper, to, n))

Deposit(w, caller, n) ==
  {[x EXCEPT !.two[Wrapper][Token][caller] = Amount(@) + n] :
     x \in Nested(w, TransferFrom(w, Token, Wrapper, caller, Wrapper, n))}

(* DynamicContract::ethCall: the function is looked up by its functor.       *)
Run(w, c) ==
  CASE c.to \in {Token, Native} /\ c.fn = "transfer" -> Transfer(w, c.to, c.who, c.other, c.n)
    [] c.to \in {Token, Native} /\ c.fn = "approve" -> Approve(w, c.to, c.who, c.other, c.n)
    [] c.to \in {Token, Native} /\ c.fn = "transferFrom" ->
         TransferFrom(w, c.to, c.who, c.other, c.who, c.n)
    [] c.to = Wrapper /\ c.fn = "deposit" -> Deposit(w, c.who, c.n)
    [] c.to = Wrapper /\ c.fn = "withdraw" -> TransferTo(w, c.who, c.who, c.n)
    [] c.to = Wrapper /\ c.fn = "transferTo" -> TransferTo(w, c.who, c.other, c.n)
    [] c.to = Native /\ c.fn = "deposit" -> NativeDeposit(w, c.who, c.value)
    [] c.to = Native /\ c.fn = "withdraw" -> NativeWithdraw(w, c.who, c.n)
    [] OTHER -> Throw

IsPayableFunction(c) == c.to = Native /\ c.fn \in {"deposit", "withdraw"}

World(n, b, cm) ==
  [bal |-> data.bal, two |-> data.two, balances |-> b, native |-> n, commit |-> cm]

-----------------------------------------------------------------------------
(* State::processTransaction of a call of one of the contracts, with         *)
(* ContractManager::callContract.                                            *)
(* Variant: the sender is not debited.                                       *)
NotDebited(c) == [native EXCEPT ![c.to] = @ + c.value]
Credited(c) == [native EXCEPT ![c.who] = @ - c.value, ![c.to] = @ + c.value]

(* processContractPayable. *)
Paid(n, b) == [a \in Accounts |-> IF b[a] = NoEntry THEN n[a] ELSE b[a]]

(* The failure of a transaction: the sender gets the value back.             *)
Refund(c) == native' = [Credited(c) EXCEPT ![c.who] = @ + c.value]

(* What the call of a transaction makes of the world, if it does not throw.  *)
Called(c) == Run(World(Credited(c), balances, TRUE), c)

ProcessTransaction(c) ==
  /\ c.to \in Contracts /\ native[c.who] >= c.value
  /\ \/ \E x \in Called(c) :
          /\ data' = [bal |-> x.bal, two |-> x.two]
          /\ native' = IF IsPayableFunction(c) THEN Paid(Credited(c), x.balances) ELSE Credited(c)
     \/ /\ Called(c) = Throw
        /\ Refund(c) /\ UNCHANGED data
  /\ commit' = TRUE /\ balances' = NoBalances /\ UNCHANGED callValue

(* A transaction for ContractManager itself, a creation that succeeds or     *)
(* fails, or for rdPoS, which has no functions.                              *)
ProcessProtocolTransaction(c) ==
  /\ native[c.who] >= c.value
  /\ balances' = NoBalances /\ UNCHANGED data
  /\ \/ /\ c.to = Manager /\ commit' = FALSE /\ callValue' = c.value
        /\ native' = Credited(c) \/ Refund(c)
     \/ /\ c.to = RdPoS /\ commit' = TRUE /\ UNCHANGED callValue
        /\ Refund(c)

(* State::estimateGas with ContractManager::validateCallContractWithTx.      *)
PopulatedFor(c) ==
  IF callValue = 0 THEN balances
  ELSE [balances EXCEPT ![c.to] = c.value + IF @ = NoEntry THEN native[c.to] ELSE @]

(* DynamicContract::updateState(false) of the contract called, and of no     *)
(* other.                                                                    *)
Reverted(x, c) ==
  [bal |-> [k \in {Token, Native} |-> IF k = c.to THEN data.bal[k] ELSE x.bal[k]],
   two |-> [x.two EXCEPT ![c.to] = data.two[c.to]]]

(* A nested call goes by ContractManager.commit, which the last transaction  *)
(* has left behind.                                                          *)
EstimateGas(c) ==
  /\ c.to \in Contracts /\ native[c.who] >= c.value
  /\ LET r == Run(World(native, PopulatedFor(c), commit), c) IN
     \/ \E x \in r : balances' = x.balances /\ data' = Reverted(x, c)
     \/ r = Throw /\ balances' = NoBalances /\ UNCHANGED data
  /\ UNCHANGED <<native, commit, callValue>>

EstimateProtocol(c) ==
  /\ native[c.who] >= c.value
  /\ balances' = NoBalances /\ UNCHANGED <<native, data, commit>>
  /\ \/ c.to = Manager /\ callValue' = c.value
     \/ c.to = RdPoS /\ UNCHANGED callValue

(* The contracts are saved by their destructors and loaded again.  The outer *)
(* key of a map of maps alone is the key in the database: of the entries of  *)
(* an owner, or of a token, one survives, whichever comes last.              *)
Restart ==
  /\ Restarts
  /\ LET rows == {r \in Contracts \X Accounts : data.two[r[1]][r[2]] # NoBalances}
         inner == {b \in Accounts : \E r \in rows : data.two[r[1]][r[2]][b] # NoEntry}
     IN \E keep \in [rows -> inner] :
          /\ \A r \in rows : data.two[r[1]][r[2]][keep[r]] # NoEntry
          /\ data' = [data EXCEPT !.two = [c \in Contracts |-> [a \in Accounts |-> [b \in Accounts |->
                        IF <<c, a>> \in rows /\ keep[<<c, a>>] = b THEN data.two[c][a][b] ELSE NoEntry]]]]
  /\ commit' = FALSE /\ callValue' = 0 /\ balances' = NoBalances
  /\ UNCHANGED native

(* The bound: state that a simulation or a failed transaction leaves behind  *)
(* lets amounts grow for ever.                                               *)
WithinBound ==
  \A a \in Accounts :
    /\ native[a] <= MaxAmount /\ Amount(balances[a]) <= MaxAmount
    /\ data.bal[Native][a] <= MaxAmount /\ Amount(data.two[Wrapper][Token][a]) <= MaxAmount

ContractsNext ==
  /\ \/ \E c \in TxCalls : ProcessTransaction(c) \/ ProcessProtocolTransaction(c)
     \/ \E c \in SimulatedCalls : EstimateGas(c) \/ EstimateProtocol(c)
     \/ Restart
  /\ WithinBound'

ContractsSpec == ContractsInit /\ [][ContractsNext]_contractsVars

-----------------------------------------------------------------------------
(* The ERC20 token neither gains nor loses supply, whatever the wrapper does *)
(* with it, whichever nested calls fail, and although simulations of the     *)
(* wrapper may commit what they do to the token.                             *)
TokenSupplyKept == SumFunction(data.bal[Token]) = SumFunction(Supply)

Owes == SumFunction([u \in Users |-> Amount(data.two[Wrapper][Token][u])])

(* Only a simulation opens a gap between the tokens the wrapper holds and    *)
(* those it owes its users (README, Disagreements): no transaction and no    *)
(* restart does, although the two sides are variables of two contracts that  *)
(* are committed separately, and whatever simulations did before.            *)
WrapperKeepsUp ==
  [][data'.bal[Token][Wrapper] + Owes < data.bal[Token][Wrapper] + Owes' =>
       ~Restart /\ \A c \in TxCalls : ~ProcessTransaction(c)]_contractsVars

(* A transaction that succeeds moves native tokens without making or losing  *)
(* any, through the value it carries and the balances a payable call writes  *)
(* back, if no simulation left balances behind (README, Disagreements, for   *)
(* those that did, and for transactions that fail).                          *)
NativeSupplyMoved ==
  [][SumFunction(native') # SumFunction(native) /\ balances = NoBalances =>
       \A c \in TxCalls : ProcessTransaction(c) => Called(c) = Throw]_contractsVars

(* No transaction opens a gap between the native tokens the NativeWrapper    *)
(* holds and the tokens it has issued for them, if no simulation left        *)
(* balances behind.                                                          *)
NativeWrapperKeepsUp ==
  [][/\ native'[Native] + SumFunction(data.bal[Native]) < native[Native] + SumFunction(data'.bal[Native])
     /\ balances = NoBalances
     => \A c \in TxCalls : ~ProcessTransaction(c)]_contractsVars

(* A transaction takes tokens from a user who did not sign it only against   *)
(* the allowance that user gave the signer, which falls by as much.          *)
OthersSpendAllowance ==
  [][\A k \in {Token, Native}, u \in Users : data'.bal[k][u] < data.bal[k][u] =>
       \A c \in TxCalls : ProcessTransaction(c) /\ c.who # u =>
         data.bal[k][u] - data'.bal[k][u]
           = Amount(data.two[k][u][c.who]) - Amount(data'.two[k][u][c.who])]_contractsVars

(* Refuted by TLC (README, Disagreements): a simulation changes no contract. *)
SimulationLeavesNoTrace ==
  [][\A c \in SimulatedCalls : EstimateGas(c) => data' = data]_contractsVars

(* Refuted by TLC (README, Disagreements): the wrapper holds what it owes.   *)
WrapperSolvent == Owes <= data.bal[Token][Wrapper]

(* Refuted by TLC (README, Disagreements): the native tokens of all accounts *)
(* together stay the same.                                                   *)
NativeSupplyKept == SumFunction(native) = SumFunction(Funds)

(* Refuted by TLC (README, Disagreements): the NativeWrapper holds the       *)
(* native tokens it has issued tokens for.                                   *)
NativeWrapperSolvent == SumFunction(data.bal[Native]) <= native[Native]

(* Refuted by TLC (README, Disagreements): ContractManager's own map of      *)
(* balances does not outlive the call that filled it.                        *)
BalancesAreTemporary == balances = NoBalances

(* Refuted by TLC (README, Disagreements): a failed transaction changes      *)
(* neither balances nor contracts.                                           *)
FailedTransactionReverted ==
  [][\A c \in TxCalls : ProcessTransaction(c) /\ Called(c) = Throw =>
       native' = native /\ data' = data]_contractsVars

(* Refuted by TLC (README, Disagreements): a withdrawal is refused only if   *)
(* there is not enough to withdraw.                                          *)
WithdrawalGranted ==
  [][\A c \in TxCalls :
       /\ ProcessTransaction(c) /\ c.fn = "withdraw"
       /\ IF c.to = Wrapper
          THEN c.n <= Amount(data.two[Wrapper][Token][c.who]) /\ c.n <= data.bal[Token][Wrapper]
          ELSE c.n <= data.bal[Native][c.who] /\ c.n <= native[Native]
       => Called(c) # Throw]_contractsVars

(* Refuted by TLC (README, Disagreements): what contracts hold survives a    *)
(* restart.                                                                  *)
RestartKeepsContracts == [][Restart => data' = data]_contractsVars
=============================================================================
