------------------------------- MODULE DAOToken -------------------------------
(***************************************************************************)
(* The Climate DAO token: balances, delegates, and per delegate the        *)
(* checkpoints from which the votes at an earlier block are looked up.     *)
(* Only the initial holder and the Governor contract may transfer; the     *)
(* Governor locks and burns tokens.  A call that reverts changes nothing,  *)
(* so its action is not enabled.  transferFrom moves tokens of the same    *)
(* two holders as transfer does; it and the allowances are left out, and   *)
(* so is delegation by signature.                                          *)
(***************************************************************************)
EXTENDS Integers, SequencesExt, FiniteSets

CONSTANTS Account,       \* holders of tokens, the Governor contract not among them
          InitialHolder, \* one of them, also the guardian of the Governor
          Governor,      \* the address of the contract
          NoOne,         \* address(0)
          Grant,         \* account -> what the initial holder gave it before the model begins
          Reserve,       \* what he kept
          Delegatee,     \* whom accounts delegate to
          MaxBlock,      \* bound on the blocks mined
          MaxCalls,      \* bound on calls of some kinds, transfers and delegations among them
          LastEarly,     \* the last block in which tokens are moved and delegated
          TokenAmount    \* the amounts of transfers and additions

Address == Account \cup {Governor}

ASSUME TokenAssumption ==
  /\ IsFiniteSet(Account) /\ InitialHolder \in Account /\ Governor \notin Account /\ NoOne \notin Address
  /\ Delegatee \subseteq Account \cup {NoOne}
  /\ Grant \in [Account \ {InitialHolder} -> Nat \ {0}] /\ Reserve \in Nat
  /\ MaxBlock \in Nat /\ MaxCalls \in Nat /\ LastEarly \in Nat /\ TokenAmount \subseteq Nat

VARIABLES block,       \* the number of the block being built, and the time
          balance, delegates,
          checkpoints, \* address -> its checkpoints, in order
          past,        \* history: address -> its votes at the end of each block
          calls

daoVars == <<block, balance, delegates, checkpoints, past, calls>>

Votes(cps) == IF cps = <<>> THEN 0 ELSE Last(cps).votes

\* Mutation: the votes are added to the last checkpoint, whatever its block.
WriteCheckpointMerged(cps, votes) ==
  IF cps # <<>> THEN ReplaceAt(cps, Len(cps), [fromBlock |-> Last(cps).fromBlock, votes |-> votes])
  ELSE <<[fromBlock |-> block, votes |-> votes]>>

\* A checkpoint of this block is overwritten.
WriteCheckpoint(cps, votes) ==
  LET point == [fromBlock |-> block, votes |-> votes] IN
  IF cps # <<>> /\ Last(cps).fromBlock = block THEN ReplaceAt(cps, Len(cps), point)
  ELSE Append(cps, point)

\* _moveDelegates: the votes of one delegate go to another; sub96 reverts below zero.
Moves(from, to, amount) == from # to /\ amount > 0
CanMove(from, to, amount) ==
  Moves(from, to, amount) /\ from # NoOne => Votes(checkpoints[from]) >= amount
Moved(from, to, amount) ==
  [a \in Address |->
     IF ~Moves(from, to, amount) THEN checkpoints[a]
     ELSE IF a = from THEN WriteCheckpoint(checkpoints[a], Votes(checkpoints[a]) - amount)
     ELSE IF a = to THEN WriteCheckpoint(checkpoints[a], Votes(checkpoints[a]) + amount)
     ELSE checkpoints[a]]

\* _delegate, by an account that has this balance.
CanDelegate(a, to, has) == CanMove(delegates[a], to, has)
Delegated(a, to, has) ==
  /\ delegates' = [delegates EXCEPT ![a] = to]
  /\ checkpoints' = Moved(delegates[a], to, has)

\* _transferTokens: a receiver without a delegate becomes its own, with all it has; the votes
\* of the sender's delegate are then not reduced.
CanTransfer(from, to, amount) ==
  /\ balance[from] >= amount
  /\ delegates[to] # NoOne => CanMove(delegates[from], delegates[to], amount)
TransferTokens(from, to, amount) ==
  /\ balance' = [balance EXCEPT ![from] = @ - amount, ![to] = @ + amount]
  /\ IF delegates[to] = NoOne
     THEN Delegated(to, to, balance'[to])
     ELSE checkpoints' = Moved(delegates[from], delegates[to], amount) /\ UNCHANGED delegates

\* getPriorVotes: the last checkpoint at or before the block, by halving the range.
GetPriorVotes(a, b) ==
  LET cps == checkpoints[a]
      Search[range \in (1 .. Len(cps)) \X (1 .. Len(cps))] ==
        LET lower == range[1]
            upper == range[2]
            center == upper - (upper - lower) \div 2
        IN IF upper <= lower THEN cps[lower].votes
           ELSE IF cps[center].fromBlock = b THEN cps[center].votes
           ELSE IF cps[center].fromBlock < b THEN Search[<<center, upper>>]
           ELSE Search[<<lower, center - 1>>]
  IN  IF cps = <<>> \/ cps[1].fromBlock > b THEN 0
      ELSE IF Last(cps).fromBlock <= b THEN Last(cps).votes
      ELSE Search[<<1, Len(cps)>>]

-----------------------------------------------------------------------------
\* Deployed, and the grants transferred in block 0, each to an account without a delegate.
DaoInit ==
  /\ block = 1 /\ calls = 0
  /\ balance = [a \in Address |-> IF a = Governor THEN 0 ELSE IF a = InitialHolder THEN Reserve ELSE Grant[a]]
  /\ delegates = [a \in Address |-> IF a \in DOMAIN Grant THEN a ELSE NoOne]
  /\ checkpoints = [a \in Address |->
       IF a \in DOMAIN Grant THEN <<[fromBlock |-> 0, votes |-> Grant[a]]>> ELSE <<>>]
  /\ past = [a \in Address |-> <<>>]

MineBlock ==
  /\ block < MaxBlock /\ block' = block + 1
  /\ past' = [a \in Address |-> Append(past[a], Votes(checkpoints[a]))]
  /\ UNCHANGED <<balance, delegates, checkpoints, calls>>

Called == calls < MaxCalls /\ calls' = calls + 1
TokenCall == Called /\ block <= LastEarly /\ UNCHANGED <<block, past>>

\* The initial holder gives tokens to an account; to the Governor contract he gives none.
Transfer(to, amount) ==
  /\ TokenCall
  /\ CanTransfer(InitialHolder, to, amount) /\ TransferTokens(InitialHolder, to, amount)

Delegate(a, to) ==
  /\ TokenCall /\ to # delegates[a]
  /\ CanDelegate(a, to, balance[a]) /\ Delegated(a, to, balance[a])
  /\ UNCHANGED balance

\* The votes go to the holder himself, whoever his delegate is.
AddToTotalSupply(amount) ==
  /\ TokenCall
  /\ balance' = [balance EXCEPT ![InitialHolder] = @ + amount]
  /\ checkpoints' = Moved(NoOne, InitialHolder, amount)
  /\ UNCHANGED delegates

DaoNext ==
  \/ MineBlock
  \/ \E to \in Account, n \in TokenAmount : Transfer(to, n)
  \/ \E a \in Account, to \in Delegatee : Delegate(a, to)
  \/ \E n \in TokenAmount : AddToTotalSupply(n)

-----------------------------------------------------------------------------
\* The votes that getPriorVotes finds for an earlier block are those the account ended that
\* block with, however many of its votes moved within a block and since.
PriorVotesExact ==
  \A a \in Address, b \in 1 .. block - 1 : GetPriorVotes(a, b) = past[a][b]
=============================================================================
