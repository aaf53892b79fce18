-------------------------- MODULE NetEmissionsToken --------------------------
(***************************************************************************)
(* The token contract, NetEmissionsTokenNetwork.sol: who may issue, mint,  *)
(* retire and transfer carbon tokens, with the roles that decide it.  A    *)
(* call runs alone and reverts without effect, so each external function   *)
(* is an action, enabled when it does not revert.  The sender of the call  *)
(* is a parameter.  The contract inherits role administration and transfer *)
(* functions from OpenZeppelin (AccessControl, ERC1155), which anyone may  *)
(* call as well; they are external to the repository and modelled as it    *)
(* relies on them.                                                         *)
(*                                                                         *)
(* Of a token the type and the two totals are kept.  issueAndTrack belongs *)
(* with the tracker contract it calls and is left out.                     *)
(***************************************************************************)
EXTENDS Naturals, FiniteSetsExt

CONSTANTS Account,     \* addresses other than the zero address
          Deployer,    \* the account the constructor makes the admin
          NoAddress,   \* the zero address
          TokenId,     \* the ids a token can have, and 0, which none is given
          Amount,      \* the amounts calls are made with
          MaxSupply,   \* bound on the supply of an id
          MaxChanges   \* bound on the calls that change a role, an approval or the mode

ASSUME AccountAssumption ==
  IsFiniteSet(Account) /\ Deployer \in Account /\ NoAddress \notin Account
ASSUME TokenIdAssumption == TokenId \subseteq Nat /\ 0 \in TokenId
ASSUME AmountAssumption == Amount \subseteq Nat /\ MaxSupply \in Nat /\ MaxChanges \in Nat

VARIABLES roles,         \* account -> the roles it has
          limitedMode,
          timelock,      \* the DAO's executor, or the zero address
          approved,      \* holder -> the accounts that may transfer its tokens
          numOfTokens,   \* _numOfUniqueTokens
          token,         \* id -> the stored details of the token
          balance,       \* id -> account -> what it can transfer or retire
          retired,       \* id -> account -> what it has retired
          changes        \* the calls counted by MaxChanges

roleVars == <<roles, limitedMode, timelock, approved>>
tokenVars == <<numOfTokens, token, balance, retired>>
netVars == <<roles, limitedMode, timelock, approved, numOfTokens, token, balance, retired, changes>>

Role == {"DEFAULT_ADMIN_ROLE", "REGISTERED_DEALER", "REGISTERED_REC_DEALER",
         "REGISTERED_OFFSET_DEALER", "REGISTERED_EMISSIONS_AUDITOR",
         "REGISTERED_CONSUMER", "REGISTERED_INDUSTRY"}

TokenType == 1..3   \* renewable energy certificate, offset, audited emissions
AuditedEmissions == 3

CarbonTokenDetails == [type : TokenType \cup {0}, totalIssued : Nat, totalRetired : Nat]
NoDetails == [type |-> 0, totalIssued |-> 0, totalRetired |-> 0]

Init ==
  /\ roles = [a \in Account |-> IF a = Deployer THEN Role \ {"REGISTERED_CONSUMER"} ELSE {}]
  /\ limitedMode = FALSE
  /\ timelock = NoAddress
  /\ approved = [a \in Account |-> {}]
  /\ numOfTokens = 0
  /\ token = [id \in TokenId |-> NoDetails]
  /\ balance = [id \in TokenId |-> [a \in Account |-> 0]]
  /\ retired = [id \in TokenId |-> [a \in Account |-> 0]]
  /\ changes = 0

HasRole(r, a) == r \in roles[a]
IsAdmin(a) == HasRole("DEFAULT_ADMIN_ROLE", a)
IsDealer(a) == HasRole("REGISTERED_DEALER", a)
IsAuditor(a) == HasRole("REGISTERED_EMISSIONS_AUDITOR", a)

ConsumerOrDealer(a) ==
  roles[a] \cap {"REGISTERED_DEALER", "REGISTERED_CONSUMER", "REGISTERED_INDUSTRY"} # {}

\* The role that comes with the right to issue a type of token.
DealerRole(type) ==
  CASE type = 1 -> "REGISTERED_REC_DEALER"
    [] type = 2 -> "REGISTERED_OFFSET_DEALER"
    [] type = 3 -> "REGISTERED_EMISSIONS_AUDITOR"

\* Mutation: dealers administer their own role.
RoleAdminDealers(r) ==
  IF r \in {"REGISTERED_CONSUMER", "REGISTERED_DEALER"} THEN "REGISTERED_DEALER"
  ELSE "DEFAULT_ADMIN_ROLE"

\* The role that may grant and revoke a role.
RoleAdmin(r) ==
  IF r = "REGISTERED_CONSUMER" THEN "REGISTERED_DEALER" ELSE "DEFAULT_ADMIN_ROLE"

\* The zero id counts as existing, though no token has it.
TokenExists(id) == id <= numOfTokens

Available(id) == SumFunction(balance[id])
Retired(id) == SumFunction(retired[id])
Fits(id, q) == Available(id) + Retired(id) + q <= MaxSupply

-----------------------------------------------------------------------------
(* Roles and modes. *)

Changing == changes < MaxChanges /\ changes' = changes + 1 /\ UNCHANGED tokenVars

WithRoles(a, rs) ==
  roles' = [roles EXCEPT ![a] = @ \cup rs] /\ UNCHANGED <<limitedMode, timelock, approved>>
WithoutRoles(a, rs) ==
  roles' = [roles EXCEPT ![a] = @ \ rs] /\ UNCHANGED <<limitedMode, timelock, approved>>

\* grantRole, revokeRole and renounceRole of AccessControl.
GrantRole(sender, r, a) ==
  Changing /\ HasRole(RoleAdmin(r), sender) /\ WithRoles(a, {r})
RevokeRole(sender, r, a) ==
  Changing /\ HasRole(RoleAdmin(r), sender) /\ WithoutRoles(a, {r})
RenounceRole(sender, r) == Changing /\ WithoutRoles(sender, {r})

\* The admin may grant every role these calls grant or revoke.
RegisterDealer(sender, a, type) ==
  /\ Changing
  /\ IsAdmin(sender)
  /\ WithRoles(a, {DealerRole(type), "REGISTERED_DEALER"})

\* The generic dealer role goes with the last of the three.
UnregisterDealer(sender, a, type) ==
  LET left == (roles[a] \ {DealerRole(type)}) \cap {DealerRole(t) : t \in TokenType}
  IN /\ Changing
     /\ IsAdmin(sender)
     /\ WithoutRoles(a, {DealerRole(type)}
                          \cup (IF left = {} THEN {"REGISTERED_DEALER"} ELSE {}))

\* _setupRole asks for no role of the sender.
RegisterIndustry(sender, a) ==
  /\ Changing
  /\ IF limitedMode THEN IsAdmin(sender) ELSE IsDealer(sender)
  /\ WithRoles(a, {"REGISTERED_INDUSTRY"})

\* revokeRole asks for the admin of the role, whatever was checked before.
UnregisterIndustry(sender, a) ==
  /\ Changing
  /\ sender # a => IsDealer(sender)
  /\ limitedMode => IsAdmin(sender)
  /\ HasRole(RoleAdmin("REGISTERED_INDUSTRY"), sender)
  /\ WithoutRoles(a, {"REGISTERED_INDUSTRY"})

ChangesConsumers(sender) ==
  /\ Changing
  /\ IsDealer(sender)
  /\ limitedMode => IsAdmin(sender)
  /\ HasRole(RoleAdmin("REGISTERED_CONSUMER"), sender)
RegisterConsumer(sender, a) ==
  ChangesConsumers(sender) /\ WithRoles(a, {"REGISTERED_CONSUMER"})
UnregisterConsumer(sender, a) ==
  ChangesConsumers(sender) /\ WithoutRoles(a, {"REGISTERED_CONSUMER"})

SetTimelock(sender, a) ==
  Changing /\ IsAdmin(sender) /\ timelock' = a /\ UNCHANGED <<roles, limitedMode, approved>>

SetLimitedMode(sender, on) ==
  Changing /\ IsAdmin(sender) /\ limitedMode' = on /\ UNCHANGED <<roles, timelock, approved>>

\* setApprovalForAll of ERC1155.
SetApproval(sender, a, on) ==
  /\ Changing
  /\ sender # a
  /\ approved' = [approved EXCEPT ![sender] = IF on THEN @ \cup {a} ELSE @ \ {a}]
  /\ UNCHANGED <<roles, limitedMode, timelock>>

-----------------------------------------------------------------------------
(* Tokens. *)

\* The hook every mint, burn and transfer passes, for a token of the type; minting is a
\* transfer from, and burning a transfer to, the zero address.
BeforeTokenTransfer(operator, from, to, type) ==
  /\ from # NoAddress => ConsumerOrDealer(from)
  /\ to # NoAddress => ConsumerOrDealer(to)
  /\ from # to
  /\ limitedMode /\ to # NoAddress =>
       /\ type \in {1, 2} => operator = timelock \/ IsAdmin(operator)
       /\ type = AuditedEmissions => IsAuditor(operator)

\* Which issuer may issue a type of token, to whom and by whose call.
MayIssue(sender, issuedBy, issuedTo, type) ==
  IF limitedMode /\ type \in {1, 2}
  THEN /\ sender = timelock
       /\ IsAdmin(issuedTo)
       /\ HasRole(DealerRole(1), issuedBy) \/ HasRole(DealerRole(2), issuedBy)
  ELSE HasRole(DealerRole(type), issuedBy)

\* Mutation: audited emissions are not retired when they are issued.
RetiredOnIssueNever(type, q) == 0

RetiredOnIssue(type, q) == IF type = AuditedEmissions THEN q ELSE 0

IssueInternal(sender, issuedBy, issuedTo, type, q) ==
  LET id == numOfTokens + 1
      spent == RetiredOnIssue(type, q)
  IN /\ id \in TokenId
     /\ Fits(id, q)
     /\ MayIssue(sender, issuedBy, issuedTo, type)
     /\ BeforeTokenTransfer(sender, NoAddress, issuedTo, type)
     /\ numOfTokens' = id
     /\ token' = [token EXCEPT ![id] =
                    [type |-> type, totalIssued |-> q, totalRetired |-> spent]]
     /\ balance' = [balance EXCEPT ![id][issuedTo] = @ + q - spent]
     /\ retired' = [retired EXCEPT ![id][issuedTo] = @ + spent]
     /\ UNCHANGED <<roleVars, changes>>

Issue(sender, issuedTo, type, q) ==
  IsDealer(sender) /\ IssueInternal(sender, sender, issuedTo, type, q)

IssueOnBehalf(sender, issuedBy, issuedTo, type, q) ==
  /\ sender = timelock \/ IsAdmin(sender)
  /\ IssueInternal(sender, issuedBy, issuedTo, type, q)

\* Mutation: minting is not frozen in limited mode.
CanMintAnytime(sender, id) == IsAdmin(sender) /\ TokenExists(id)

CanMint(sender, id) == IsAdmin(sender) /\ TokenExists(id) /\ ~limitedMode

\* Neither the totals nor the type of the token matter here.
Mint(sender, to, id, q) ==
  /\ CanMint(sender, id)
  /\ Fits(id, q)
  /\ BeforeTokenTransfer(sender, NoAddress, to, token[id].type)
  /\ balance' = [balance EXCEPT ![id][to] = @ + q]
  /\ UNCHANGED <<roleVars, numOfTokens, token, retired, changes>>

CanRetire(sender, id, q) == TokenExists(id) /\ q <= balance[id][sender]

\* Mutation: retiring does not count towards the token's total.
CountRetiredNot(id, q) == token' = token

CountRetired(id, q) == token' = [token EXCEPT ![id].totalRetired = @ + q]

Retire(sender, id, q) ==
  /\ CanRetire(sender, id, q)
  /\ BeforeTokenTransfer(sender, sender, NoAddress, token[id].type)
  /\ CountRetired(id, q)
  /\ balance' = [balance EXCEPT ![id][sender] = @ - q]
  /\ retired' = [retired EXCEPT ![id][sender] = @ + q]
  /\ UNCHANGED <<roleVars, numOfTokens, changes>>

\* safeTransferFrom of ERC1155.
SafeTransferFrom(sender, from, to, id, q) ==
  /\ sender = from \/ sender \in approved[from]
  /\ BeforeTokenTransfer(sender, from, to, token[id].type)
  /\ q <= balance[id][from]
  /\ balance' = [balance EXCEPT ![id][from] = @ - q, ![id][to] = @ + q]
  /\ UNCHANGED <<roleVars, numOfTokens, token, retired, changes>>

Transfer(sender, to, id, q) ==
  TokenExists(id) /\ SafeTransferFrom(sender, sender, to, id, q)

-----------------------------------------------------------------------------
RoleStep(sender) ==
  \/ \E r \in Role, a \in Account : GrantRole(sender, r, a) \/ RevokeRole(sender, r, a)
  \/ \E r \in Role : RenounceRole(sender, r)
  \/ \E a \in Account, type \in TokenType :
       RegisterDealer(sender, a, type) \/ UnregisterDealer(sender, a, type)
  \/ \E a \in Account : RegisterIndustry(sender, a) \/ UnregisterIndustry(sender, a)
  \/ \E a \in Account : RegisterConsumer(sender, a) \/ UnregisterConsumer(sender, a)
  \/ \E a \in Account \cup {NoAddress} : SetTimelock(sender, a)
  \/ \E on \in BOOLEAN : SetLimitedMode(sender, on)
  \/ \E a \in Account, on \in BOOLEAN : SetApproval(sender, a, on)

IssueStep(sender) ==
  \E to \in Account, type \in TokenType, q \in Amount :
    \/ Issue(sender, to, type, q)
    \/ \E by \in Account : IssueOnBehalf(sender, by, to, type, q)

TokenStep(sender) ==
  \E id \in TokenId, q \in Amount :
    \/ \E to \in Account : Mint(sender, to, id, q) \/ Transfer(sender, to, id, q)
    \/ Retire(sender, id, q)
    \/ \E from, to \in Account : SafeTransferFrom(sender, from, to, id, q)

Next == \E sender \in Account : RoleStep(sender) \/ IssueStep(sender) \/ TokenStep(sender)

Spec == Init /\ [][Next]_netVars

-----------------------------------------------------------------------------
\* Types; in particular no balance falls below zero.
NetTypeOK ==
  /\ roles \in [Account -> SUBSET Role]
  /\ limitedMode \in BOOLEAN
  /\ timelock \in Account \cup {NoAddress}
  /\ approved \in [Account -> SUBSET Account]
  /\ numOfTokens \in TokenId
  /\ token \in [TokenId -> CarbonTokenDetails]
  /\ balance \in [TokenId -> [Account -> Nat]]
  /\ retired \in [TokenId -> [Account -> Nat]]
  /\ changes \in 0..MaxChanges

\* The total a token keeps of what was retired is the sum of what its holders retired,
\* whether they did so themselves or it happened on issue (_retire; _issue resets it).
RetiredMatches ==
  \A id \in TokenId : token[id].totalRetired = Retired(id)

\* Whatever roles, modes and approvals do, the supply of the tokens is that of
\* TokenSupply: transfers conserve it, audited emissions are born retired (_issue,
\* _retire, mint and the inherited transfers).
AbstractSupply ==
  INSTANCE TokenSupply WITH
    count <- numOfTokens,
    kind <- [id \in TokenId |-> token[id].type],
    available <- [id \in TokenId |-> Available(id)],
    retired <- [id \in TokenId |-> Retired(id)]
ImplementsSupply == AbstractSupply!SupplySpec

\* In limited mode no token grows: what one account gains of an existing token another
\* loses, and a new certificate or offset appears with an admin only, once there is a
\* timelock (_issue, mint and the hook, by whatever entry point).
LimitedModeFreezes ==
  [][limitedMode =>
      \A id \in TokenId, a \in Account :
        balance'[id][a] > balance[id][a] =>
          IF id <= numOfTokens
          THEN \E b \in Account : balance'[id][b] < balance[id][b]
          ELSE token'[id].type \in {1, 2} => IsAdmin(a) /\ timelock # NoAddress]_netVars

\* Once the last admin is gone nobody becomes an admin or a dealer of any kind again, and
\* the mode and the timelock are fixed: no chain of calls of those who have other roles
\* leads back (AccessControl as the constructor sets it up, and _setupRole in
\* registerIndustry, which asks nobody).
AdminsGovern ==
  [][(\A a \in Account : ~IsAdmin(a)) =>
      /\ UNCHANGED <<limitedMode, timelock>>
      /\ \A a \in Account :
           roles'[a] \ roles[a] \subseteq {"REGISTERED_CONSUMER", "REGISTERED_INDUSTRY"}]_netVars

\* The description of limited mode (hardhat/docs/using-the-contracts.md): certificates and
\* offsets are retired as soon as an admin transfers them, so that in limited mode no other
\* account gains an available balance of them.
LimitedTransfersRetire ==
  [][limitedMode =>
      \A id \in TokenId, a \in Account :
        token[id].type \in {1, 2} /\ balance'[id][a] > balance[id][a] => IsAdmin(a)]_netVars
=============================================================================
