SPECIFICATION Spec
CONSTANTS
  holder = holder
  alice = alice
  Account = {holder, alice}
  InitialHolder = holder
  Governor = governor
  NoOne = NoOne
  Grant <- Grants
  Reserve = 40
  MaxBlock = 6
  MaxCalls = 2
  Delegatee = {holder}
  TokenAmount = {20}
  Delay = 1
  GracePeriod = 1
  Action = {x}
  VoteAmount = {20}
  Threshold = {20}
  Quorum = {5, 9}
  FirstThreshold = 20
  FirstQuorum = 5
  VotingDelay = 1
  VotingPeriod = 1
  ProposalCancelPeriod = 1
  VotesCancelPeriod = 1
  MaxProposals = 3
  LastEarly = 1
INVARIANTS PriorVotesExact TalliesMatch ClaimsCovered TimelockMatches
PROPERTIES StatesForward
CHECK_DEADLOCK FALSE
