----------------------- MODULE NetEmissionsTokenProofs -----------------------
(***************************************************************************)
(* What holds of the token contract for any accounts, tokens and amounts,  *)
(* after any number of calls.  That it implements TokenSupply rests on     *)
(* what each call does to the sums over the accounts (the *Sums lemmas).   *)
(***************************************************************************)
EXTENDS NetEmissionsToken, FiniteSums, TLAPS

\* What a call on roles, modes or approvals leaves alone, whoever makes it.
LEMMA RoleStepsKeepTokens ==
  ASSUME NEW sender \in Account, RoleStep(sender)
  PROVE  UNCHANGED tokenVars /\ changes' = changes + 1 /\ changes < MaxChanges
  BY DEF RoleStep, Changing, GrantRole, RevokeRole, RenounceRole, RegisterDealer,
         UnregisterDealer, RegisterIndustry, UnregisterIndustry, ChangesConsumers,
         RegisterConsumer, UnregisterConsumer, SetTimelock, SetLimitedMode, SetApproval

\* What a call on tokens leaves alone.
LEMMA TokenStepsKeepRoles ==
  ASSUME NEW sender \in Account, IssueStep(sender) \/ TokenStep(sender)
  PROVE  UNCHANGED <<roleVars, changes>>
  <1>1. CASE IssueStep(sender)
    BY <1>1 DEF IssueStep, Issue, IssueOnBehalf, IssueInternal
  <1>2. CASE TokenStep(sender)
    <2>1. ASSUME NEW to \in Account, NEW id \in TokenId, NEW q \in Amount, Mint(sender, to, id, q)
          PROVE  UNCHANGED <<roleVars, changes>>
      BY <2>1 DEF Mint
    <2>2. ASSUME NEW id \in TokenId, NEW q \in Amount, Retire(sender, id, q)
          PROVE  UNCHANGED <<roleVars, changes>>
      BY <2>2 DEF Retire
    <2>3. ASSUME NEW from \in Account, NEW to \in Account, NEW id \in TokenId, NEW q \in Amount,
                 SafeTransferFrom(sender, from, to, id, q)
          PROVE  UNCHANGED <<roleVars, changes>>
      BY <2>3 DEF SafeTransferFrom
    <2> QED
      BY <1>2, <2>1, <2>2, <2>3 DEF TokenStep, Transfer
  <1> QED
    BY <1>1, <1>2

\* The role that comes with a token type is a role.
LEMMA DealerRoleIsRole == \A type \in TokenType : DealerRole(type) \in Role
  BY DEF TokenType, DealerRole, Role

\* A call on roles changes the roles, the mode, the timelock or the approvals to others of
\* their type.
LEMMA RoleStepTypes ==
  ASSUME NetTypeOK, NEW sender \in Account, RoleStep(sender)
  PROVE  /\ roles' \in [Account -> SUBSET Role]
         /\ limitedMode' \in BOOLEAN
         /\ timelock' \in Account \cup {NoAddress}
         /\ approved' \in [Account -> SUBSET Account]
  <1>1. ASSUME NEW a \in Account, NEW rs \in SUBSET Role, WithRoles(a, rs) \/ WithoutRoles(a, rs)
        PROVE  roles' \in [Account -> SUBSET Role] /\ UNCHANGED <<limitedMode, timelock, approved>>
    BY <1>1 DEF WithRoles, WithoutRoles, NetTypeOK
  <1>2. CASE \E r \in Role, a \in Account : GrantRole(sender, r, a) \/ RevokeRole(sender, r, a)
    BY <1>1, <1>2 DEF GrantRole, RevokeRole, NetTypeOK
  <1>3. CASE \E r \in Role : RenounceRole(sender, r)
    BY <1>1, <1>3 DEF RenounceRole, NetTypeOK
  <1>4. CASE \E a \in Account, type \in TokenType :
               RegisterDealer(sender, a, type) \/ UnregisterDealer(sender, a, type)
    <2>1. PICK a \in Account, type \in TokenType :
            RegisterDealer(sender, a, type) \/ UnregisterDealer(sender, a, type)
      BY <1>4
    <2>2. {DealerRole(type), "REGISTERED_DEALER"} \in SUBSET Role
      BY DealerRoleIsRole DEF Role
    <2>3. \E rs \in SUBSET Role : WithRoles(a, rs) \/ WithoutRoles(a, rs)
      <3>1. CASE RegisterDealer(sender, a, type)
        BY <3>1, <2>2 DEF RegisterDealer
      <3>2. CASE UnregisterDealer(sender, a, type)
        <4> DEFINE left == (roles[a] \ {DealerRole(type)}) \cap {DealerRole(t) : t \in TokenType}
                   gone == {DealerRole(type)}
                             \cup (IF left = {} THEN {"REGISTERED_DEALER"} ELSE {})
        <4>1. WithoutRoles(a, gone)
          BY <3>2 DEF UnregisterDealer
        <4>2. gone \in SUBSET Role
          BY <2>2
        <4> QED
          BY <4>1, <4>2
      <3> QED
        BY <2>1, <3>1, <3>2
    <2> QED
      BY <1>1, <2>3 DEF NetTypeOK
  <1>5. CASE \E a \in Account : RegisterIndustry(sender, a) \/ UnregisterIndustry(sender, a)
    BY <1>1, <1>5 DEF RegisterIndustry, UnregisterIndustry, NetTypeOK, Role
  <1>6. CASE \E a \in Account : RegisterConsumer(sender, a) \/ UnregisterConsumer(sender, a)
    BY <1>1, <1>6 DEF RegisterConsumer, UnregisterConsumer, NetTypeOK, Role
  <1>7. CASE \E a \in Account \cup {NoAddress} : SetTimelock(sender, a)
    BY <1>7 DEF SetTimelock, NetTypeOK
  <1>8. CASE \E on \in BOOLEAN : SetLimitedMode(sender, on)
    BY <1>8 DEF SetLimitedMode, NetTypeOK
  <1>9. CASE \E a \in Account, on \in BOOLEAN : SetApproval(sender, a, on)
    BY <1>9 DEF SetApproval, NetTypeOK
  <1> QED
    BY <1>2, <1>3, <1>4, <1>5, <1>6, <1>7, <1>8, <1>9 DEF RoleStep

\* An amount moved into an account leaves balances that are natural numbers.
LEMMA AmountAdded ==
  ASSUME NEW f \in [TokenId -> [Account -> Nat]], NEW id \in TokenId, NEW a \in Account,
         NEW n \in Nat
  PROVE  [f EXCEPT ![id][a] = n] \in [TokenId -> [Account -> Nat]]
  OBVIOUS

\* Setting the retired total of a token leaves details of the same type.
LEMMA TotalRetiredSet ==
  ASSUME NEW d \in CarbonTokenDetails, NEW n \in Nat
  PROVE  [d EXCEPT !.totalRetired = n] \in CarbonTokenDetails
  BY DEF CarbonTokenDetails

\* A call on tokens keeps the types of the tokens and the balances.
LEMMA TokenTypes ==
  ASSUME NetTypeOK, NEW sender \in Account, IssueStep(sender) \/ TokenStep(sender)
  PROVE  /\ numOfTokens' \in TokenId
         /\ token' \in [TokenId -> CarbonTokenDetails]
         /\ balance' \in [TokenId -> [Account -> Nat]]
         /\ retired' \in [TokenId -> [Account -> Nat]]
  <1> USE DEF NetTypeOK
  <1>1. ASSUME NEW by \in Account, NEW to \in Account, NEW type \in TokenType,
               NEW q \in Amount, IssueInternal(sender, by, to, type, q)
        PROVE  /\ numOfTokens' \in TokenId
               /\ token' \in [TokenId -> CarbonTokenDetails]
               /\ balance' \in [TokenId -> [Account -> Nat]]
               /\ retired' \in [TokenId -> [Account -> Nat]]
    <2> DEFINE id == numOfTokens + 1
               spent == RetiredOnIssue(type, q)
    <2>1. /\ id \in TokenId
          /\ numOfTokens' = id
          /\ token' = [token EXCEPT ![id] =
                         [type |-> type, totalIssued |-> q, totalRetired |-> spent]]
          /\ balance' = [balance EXCEPT ![id][to] = @ + q - spent]
          /\ retired' = [retired EXCEPT ![id][to] = @ + spent]
      BY <1>1 DEF IssueInternal
    <2>2. spent \in Nat /\ q \in Nat /\ q - spent \in Nat
      BY AmountAssumption DEF RetiredOnIssue
    <2> HIDE DEF id, spent
    <2>3. balance[id][to] \in Nat /\ retired[id][to] \in Nat
      BY <2>1
    <2>4. balance[id][to] + q - spent \in Nat /\ retired[id][to] + spent \in Nat
      BY <2>2, <2>3
    <2>5. [type |-> type, totalIssued |-> q, totalRetired |-> spent] \in CarbonTokenDetails
      BY <2>2 DEF CarbonTokenDetails
    <2> QED
      BY <2>1, <2>4, <2>5, AmountAdded
  <1>2. ASSUME NEW to \in Account, NEW id \in TokenId, NEW q \in Amount, Mint(sender, to, id, q)
        PROVE  UNCHANGED <<numOfTokens, token, retired>> /\ balance' \in [TokenId -> [Account -> Nat]]
    <2>1. balance[id][to] + q \in Nat
      BY AmountAssumption
    <2> QED
      BY <1>2, <2>1, AmountAdded DEF Mint, roleVars
  <1>3. ASSUME NEW id \in TokenId, NEW q \in Amount, Retire(sender, id, q)
        PROVE  /\ UNCHANGED numOfTokens
               /\ token' \in [TokenId -> CarbonTokenDetails]
               /\ balance' \in [TokenId -> [Account -> Nat]]
               /\ retired' \in [TokenId -> [Account -> Nat]]
    <2>1. q \in Nat /\ balance[id][sender] - q \in Nat /\ retired[id][sender] + q \in Nat
      BY <1>3, AmountAssumption DEF Retire, CanRetire
    <2>2. token' \in [TokenId -> CarbonTokenDetails]
      <3> DEFINE details == [token[id] EXCEPT !.totalRetired = token[id].totalRetired + q]
      <3>1. token' = [token EXCEPT ![id] = details]
        BY <1>3 DEF Retire, CountRetired
      <3>2. token[id].totalRetired + q \in Nat
        <4>1. token[id].totalRetired \in Nat
          BY DEF CarbonTokenDetails
        <4> QED
          BY <4>1, <2>1
      <3>3. details \in CarbonTokenDetails
        BY <3>2, TotalRetiredSet
      <3> QED
        BY <3>1, <3>3
    <2> QED
      BY <1>3, <2>1, <2>2, AmountAdded DEF Retire, roleVars
  <1>4. ASSUME NEW from \in Account, NEW to \in Account, NEW id \in TokenId, NEW q \in Amount,
               SafeTransferFrom(sender, from, to, id, q)
        PROVE  UNCHANGED <<numOfTokens, token, retired>> /\ balance' \in [TokenId -> [Account -> Nat]]
    <2>1. q \in Nat /\ balance[id][from] - q \in Nat /\ balance[id][to] + q \in Nat
      BY <1>4, AmountAssumption DEF SafeTransferFrom
    <2>2. balance' = [balance EXCEPT ![id][from] = balance[id][from] - q,
                                     ![id][to] = balance[id][to] + q]
      BY <1>4 DEF SafeTransferFrom
    <2>3. balance' \in [TokenId -> [Account -> Nat]]
      BY <2>1, <2>2
    <2> QED
      BY <1>4, <2>3 DEF SafeTransferFrom, roleVars
  <1>5. CASE IssueStep(sender)
    BY <1>1, <1>5 DEF IssueStep, Issue, IssueOnBehalf
  <1>6. CASE TokenStep(sender)
    BY <1>2, <1>3, <1>4, <1>6 DEF TokenStep, Transfer
  <1> QED
    BY <1>5, <1>6

\* Types hold always; in particular no call leaves a balance below zero.
THEOREM NetTypeCorrect == Spec => []NetTypeOK
  <1>1. Init => NetTypeOK
    <2> SUFFICES ASSUME Init PROVE NetTypeOK
      OBVIOUS
    <2>1. roles \in [Account -> SUBSET Role] /\ approved \in [Account -> SUBSET Account]
      BY DEF Init
    <2>2. limitedMode \in BOOLEAN /\ timelock \in Account \cup {NoAddress}
      BY DEF Init
    <2>3. numOfTokens \in TokenId /\ changes \in 0..MaxChanges
      BY TokenIdAssumption, AmountAssumption DEF Init
    <2>4. token \in [TokenId -> CarbonTokenDetails]
      BY DEF Init, CarbonTokenDetails, NoDetails
    <2>5. balance \in [TokenId -> [Account -> Nat]] /\ retired \in [TokenId -> [Account -> Nat]]
      BY DEF Init
    <2> QED
      BY <2>1, <2>2, <2>3, <2>4, <2>5 DEF NetTypeOK
  <1>2. NetTypeOK /\ [Next]_netVars => NetTypeOK'
    <2>1. ASSUME NetTypeOK, NEW sender \in Account, RoleStep(sender)
          PROVE  NetTypeOK'
      <3>1. changes' \in 0..MaxChanges
        BY <2>1, RoleStepsKeepTokens, AmountAssumption DEF NetTypeOK
      <3> QED
        BY <2>1, <3>1, RoleStepsKeepTokens, RoleStepTypes DEF NetTypeOK, tokenVars
    <2>2. ASSUME NetTypeOK, NEW sender \in Account, IssueStep(sender) \/ TokenStep(sender)
          PROVE  NetTypeOK'
      BY <2>2, TokenStepsKeepRoles, TokenTypes DEF NetTypeOK, roleVars
    <2>3. NetTypeOK /\ UNCHANGED netVars => NetTypeOK'
      BY DEF NetTypeOK, netVars
    <2> QED
      BY <2>1, <2>2, <2>3 DEF Next
  <1> QED
    BY <1>1, <1>2, PTL DEF Spec

-----------------------------------------------------------------------------
NoAdmin == \A a \in Account : ~IsAdmin(a)
Granted(a) == roles'[a] \ roles[a]

\* Without an admin a call on roles fixes the mode and the timelock and adds no other role
\* than consumer and industry.
LEMMA RolesWithoutAdmin ==
  ASSUME NetTypeOK, NoAdmin, NEW sender \in Account, RoleStep(sender)
  PROVE  /\ UNCHANGED <<limitedMode, timelock>>
         /\ \A a \in Account : Granted(a) \subseteq {"REGISTERED_CONSUMER", "REGISTERED_INDUSTRY"}
  <1>1. ~HasRole("DEFAULT_ADMIN_ROLE", sender) /\ ~IsAdmin(sender)
    BY DEF NoAdmin, IsAdmin
  <1>2. ASSUME NEW a \in Account, NEW rs, WithRoles(a, rs)
        PROVE  /\ UNCHANGED <<limitedMode, timelock>>
               /\ \A b \in Account : Granted(b) \subseteq rs
    BY <1>2 DEF WithRoles, Granted, NetTypeOK
  <1>3. ASSUME NEW a \in Account, NEW rs, WithoutRoles(a, rs)
        PROVE  UNCHANGED <<limitedMode, timelock>> /\ \A b \in Account : Granted(b) = {}
    BY <1>3 DEF WithoutRoles, Granted, NetTypeOK
  <1>4. CASE \E r \in Role, a \in Account : GrantRole(sender, r, a) \/ RevokeRole(sender, r, a)
    <2>1. ASSUME NEW r \in Role, NEW a \in Account, GrantRole(sender, r, a)
          PROVE  r = "REGISTERED_CONSUMER" /\ WithRoles(a, {r})
      BY <1>1, <2>1 DEF GrantRole, RoleAdmin
    <2> QED
      BY <1>2, <1>3, <1>4, <2>1 DEF RevokeRole
  <1>5. CASE \E r \in Role : RenounceRole(sender, r)
    BY <1>3, <1>5 DEF RenounceRole
  <1>6. CASE \E a \in Account, type \in TokenType :
               RegisterDealer(sender, a, type) \/ UnregisterDealer(sender, a, type)
    BY <1>1, <1>6 DEF RegisterDealer, UnregisterDealer
  <1>7. CASE \E a \in Account : RegisterIndustry(sender, a) \/ UnregisterIndustry(sender, a)
    BY <1>2, <1>3, <1>7 DEF RegisterIndustry, UnregisterIndustry
  <1>8. CASE \E a \in Account : RegisterConsumer(sender, a) \/ UnregisterConsumer(sender, a)
    BY <1>2, <1>3, <1>8 DEF RegisterConsumer, UnregisterConsumer
  <1>9. CASE (\E a \in Account \cup {NoAddress} : SetTimelock(sender, a))
               \/ (\E on \in BOOLEAN : SetLimitedMode(sender, on))
    BY <1>1, <1>9 DEF SetTimelock, SetLimitedMode
  <1>10. CASE \E a \in Account, on \in BOOLEAN : SetApproval(sender, a, on)
    BY <1>10 DEF SetApproval, Granted
  <1> QED
    BY <1>4, <1>5, <1>6, <1>7, <1>8, <1>9, <1>10 DEF RoleStep

\* The administration of the contract ends with its last admin: whatever the others call,
\* there is no admin and no new dealer afterwards, and mode and timelock stay.
THEOREM AdminsAlwaysGovern == Spec => AdminsGovern
  <1>1. NetTypeOK /\ [Next]_netVars =>
          [NoAdmin =>
             /\ UNCHANGED <<limitedMode, timelock>>
             /\ \A a \in Account :
                  Granted(a) \subseteq {"REGISTERED_CONSUMER", "REGISTERED_INDUSTRY"}]_netVars
    <2>1. ASSUME NEW sender \in Account, IssueStep(sender) \/ TokenStep(sender)
          PROVE  UNCHANGED <<limitedMode, timelock>> /\ \A a \in Account : Granted(a) = {}
      BY <2>1, TokenStepsKeepRoles DEF roleVars, Granted
    <2> QED
      BY <2>1, RolesWithoutAdmin DEF Next
  <1>2. [NoAdmin =>
             /\ UNCHANGED <<limitedMode, timelock>>
             /\ \A a \in Account :
                  Granted(a) \subseteq {"REGISTERED_CONSUMER", "REGISTERED_INDUSTRY"}]_netVars
          <=> [(\A a \in Account : ~IsAdmin(a)) =>
                /\ UNCHANGED <<limitedMode, timelock>>
                /\ \A a \in Account :
                     roles'[a] \ roles[a]
                       \subseteq {"REGISTERED_CONSUMER", "REGISTERED_INDUSTRY"}]_netVars
    BY DEF NoAdmin, Granted
  <1> QED
    BY <1>1, <1>2, NetTypeCorrect, PTL DEF Spec, AdminsGovern

-----------------------------------------------------------------------------
\* Nobody has any of a token that was not issued.  An inherited transfer does not ask
\* whether the token exists; it is refused, or moves nothing, because of this.
UnissuedEmpty ==
  \A id \in TokenId : id > numOfTokens => \A a \in Account : balance[id][a] = 0

\* The transfer functions: what they do to the balances, in terms of single entries.
LEMMA TransferMoves ==
  ASSUME NetTypeOK, NEW sender \in Account, NEW from \in Account, NEW to \in Account,
         NEW id \in TokenId, NEW q \in Amount, SafeTransferFrom(sender, from, to, id, q)
  PROVE  /\ q \in Nat /\ q <= balance[id][from]
         /\ balance'[id][from] = balance[id][from] - q
         /\ balance'[id][to] = balance[id][to] + q
         /\ \A j \in TokenId, b \in Account :
              (j # id \/ b \notin {from, to}) => balance'[j][b] = balance[j][b]
         /\ UNCHANGED <<numOfTokens, token>>
  <1>1. /\ balance' = [balance EXCEPT ![id][from] = balance[id][from] - q,
                                      ![id][to] = balance[id][to] + q]
        /\ from # to
        /\ q <= balance[id][from]
        /\ UNCHANGED <<numOfTokens, token>>
    BY DEF SafeTransferFrom, BeforeTokenTransfer
  <1>2. q \in Nat /\ balance[id][from] \in Nat /\ balance[id][to] \in Nat
    BY AmountAssumption DEF NetTypeOK
  <1> QED
    BY <1>1, <1>2 DEF NetTypeOK

\* An issue touches the next id only.
LEMMA IssueTouchesNext ==
  ASSUME NetTypeOK, NEW sender \in Account, NEW by \in Account, NEW to \in Account,
         NEW type \in TokenType, NEW q \in Amount, IssueInternal(sender, by, to, type, q)
  PROVE  /\ numOfTokens + 1 \in TokenId
         /\ numOfTokens' = numOfTokens + 1
         /\ token'[numOfTokens + 1].type = type
         /\ \A j \in TokenId, b \in Account :
              (j # numOfTokens + 1 \/ b # to) => balance'[j][b] = balance[j][b]
  <1> DEFINE spent == RetiredOnIssue(type, q)
  <1>1. /\ numOfTokens + 1 \in TokenId
        /\ numOfTokens' = numOfTokens + 1
        /\ balance' = [balance EXCEPT ![numOfTokens + 1][to] =
                                       balance[numOfTokens + 1][to] + q - spent]
        /\ token' = [token EXCEPT ![numOfTokens + 1] =
                       [type |-> type, totalIssued |-> q, totalRetired |-> spent]]
    BY DEF IssueInternal
  <1> HIDE DEF spent
  <1> QED
    BY <1>1 DEF NetTypeOK

\* Tokens come into being with their first balance, at the id that comes next.
LEMMA UnissuedEmptyAlways == Spec => []UnissuedEmpty
  <1>1. Init => UnissuedEmpty
    BY DEF Init, UnissuedEmpty
  <1>2. NetTypeOK /\ UnissuedEmpty /\ [Next]_netVars => UnissuedEmpty'
    <2> SUFFICES ASSUME NetTypeOK, UnissuedEmpty, [Next]_netVars
                 PROVE  UnissuedEmpty'
      OBVIOUS
    <2>1. numOfTokens \in Nat /\ TokenId \subseteq Nat
      BY TokenIdAssumption DEF NetTypeOK
    <2>2. ASSUME NEW sender \in Account, RoleStep(sender) PROVE UnissuedEmpty'
      BY <2>2, RoleStepsKeepTokens DEF tokenVars, UnissuedEmpty
    <2>3. ASSUME NEW sender \in Account, NEW by \in Account, NEW to \in Account,
                 NEW type \in TokenType, NEW q \in Amount,
                 IssueInternal(sender, by, to, type, q)
          PROVE  UnissuedEmpty'
      BY <2>1, <2>3, IssueTouchesNext DEF UnissuedEmpty
    <2>4. ASSUME NEW sender \in Account, NEW to \in Account, NEW id \in TokenId, NEW q \in Amount,
                 Mint(sender, to, id, q)
          PROVE  UnissuedEmpty'
      <3>1. id <= numOfTokens /\ numOfTokens' = numOfTokens
        BY <2>4 DEF Mint, CanMint, TokenExists
      <3>2. balance' = [balance EXCEPT ![id][to] = balance[id][to] + q]
        BY <2>4 DEF Mint
      <3> QED
        BY <2>1, <3>1, <3>2 DEF UnissuedEmpty, NetTypeOK
    <2>5. ASSUME NEW sender \in Account, NEW id \in TokenId, NEW q \in Amount,
                 Retire(sender, id, q)
          PROVE  UnissuedEmpty'
      <3>1. id <= numOfTokens /\ numOfTokens' = numOfTokens
        BY <2>5 DEF Retire, CanRetire, TokenExists
      <3>2. balance' = [balance EXCEPT ![id][sender] = balance[id][sender] - q]
        BY <2>5 DEF Retire
      <3> QED
        BY <2>1, <3>1, <3>2 DEF UnissuedEmpty, NetTypeOK
    <2>6. ASSUME NEW sender \in Account, NEW from \in Account, NEW to \in Account,
                 NEW id \in TokenId, NEW q \in Amount, SafeTransferFrom(sender, from, to, id, q)
          PROVE  UnissuedEmpty'
      <3>1. id > numOfTokens => q = 0
        BY <2>6, TransferMoves DEF UnissuedEmpty
      <3> QED
        BY <2>1, <2>6, <3>1, TransferMoves DEF UnissuedEmpty
    <2>7. CASE UNCHANGED netVars
      BY <2>7 DEF netVars, UnissuedEmpty
    <2> QED
      BY <2>2, <2>3, <2>4, <2>5, <2>6, <2>7
         DEF Next, IssueStep, TokenStep, Issue, IssueOnBehalf, Transfer
  <1> QED
    BY <1>1, <1>2, NetTypeCorrect, PTL DEF Spec

\* What limited mode allows an account to gain: a part of a new token, which goes to an
\* admin unless it is of audited emissions, or what another account loses.
Allowed(i, a) ==
  IF i <= numOfTokens
  THEN \E b \in Account : balance'[i][b] < balance[i][b]
  ELSE token'[i].type \in {1, 2} => IsAdmin(a) /\ timelock # NoAddress

\* In limited mode every call on tokens keeps to it.
LEMMA GainsInLimitedMode ==
  ASSUME NetTypeOK, UnissuedEmpty, limitedMode, NEW sender \in Account,
         IssueStep(sender) \/ TokenStep(sender),
         NEW i \in TokenId, NEW a \in Account, balance'[i][a] > balance[i][a]
  PROVE  Allowed(i, a)
  <1>1. i \in Nat /\ numOfTokens \in Nat /\ balance[i][a] \in Nat
    BY TokenIdAssumption DEF NetTypeOK
  <1>2. ASSUME NEW by \in Account, NEW to \in Account, NEW type \in TokenType,
               NEW q \in Amount, IssueInternal(sender, by, to, type, q)
        PROVE  Allowed(i, a)
    <2>1. i = numOfTokens + 1 /\ a = to /\ token'[i].type = type
      BY <1>1, <1>2, IssueTouchesNext
    <2>2. ~(i <= numOfTokens)
      BY <1>1, <2>1
    <2>3. type \in {1, 2} => sender = timelock /\ IsAdmin(to)
      BY <1>2 DEF IssueInternal, MayIssue
    <2> QED
      BY <2>1, <2>2, <2>3, AccountAssumption DEF Allowed
  <1>3. ASSUME NEW from \in Account, NEW to \in Account, NEW id \in TokenId, NEW q \in Amount,
               SafeTransferFrom(sender, from, to, id, q)
        PROVE  Allowed(i, a)
    <2>1. i = id /\ a \in {from, to}
      BY <1>1, <1>3, TransferMoves
    <2>2. balance[i][from] \in Nat /\ balance[i][to] \in Nat
      BY DEF NetTypeOK
    <2>3. a = to /\ q > 0
      BY <1>3, <2>1, <2>2, TransferMoves
    <2>4. balance'[i][from] < balance[i][from] /\ balance[i][from] > 0
      BY <1>3, <2>1, <2>2, <2>3, TransferMoves
    <2>5. i <= numOfTokens
      BY <1>1, <2>4 DEF UnissuedEmpty
    <2> QED
      BY <2>4, <2>5 DEF Allowed
  <1>4. ASSUME NEW id \in TokenId, NEW q \in Amount, Retire(sender, id, q)
        PROVE  FALSE
    <2>1. /\ balance' = [balance EXCEPT ![id][sender] = balance[id][sender] - q]
          /\ q \in Nat /\ balance[id][sender] \in Nat
      BY <1>4, AmountAssumption DEF Retire, NetTypeOK
    <2> QED
      BY <1>1, <2>1 DEF NetTypeOK
  <1>5. ASSUME NEW to \in Account, NEW id \in TokenId, NEW q \in Amount, Mint(sender, to, id, q)
        PROVE  FALSE
    BY <1>5 DEF Mint, CanMint
  <1>6. CASE IssueStep(sender)
    BY <1>2, <1>6 DEF IssueStep, Issue, IssueOnBehalf
  <1>7. CASE TokenStep(sender)
    BY <1>3, <1>4, <1>5, <1>7 DEF TokenStep, Transfer
  <1> QED
    BY <1>6, <1>7

\* Limited mode freezes the supply: nobody gains of an existing token what nobody loses,
\* and new certificates and offsets start with an admin, when there is a timelock.
THEOREM LimitedModeAlwaysFreezes == Spec => LimitedModeFreezes
  <1>1. NetTypeOK /\ UnissuedEmpty /\ [Next]_netVars =>
          [limitedMode =>
            \A id \in TokenId, a \in Account :
              balance'[id][a] > balance[id][a] => Allowed(id, a)]_netVars
    <2> SUFFICES ASSUME NetTypeOK, UnissuedEmpty, limitedMode, NEW sender \in Account,
                        RoleStep(sender) \/ IssueStep(sender) \/ TokenStep(sender),
                        NEW i \in TokenId, NEW a \in Account, balance'[i][a] > balance[i][a]
                 PROVE  Allowed(i, a)
      BY DEF Next
    <2>1. ~RoleStep(sender)
      <3>1. balance[i][a] \in Nat
        BY DEF NetTypeOK
      <3>2. ~(balance[i][a] > balance[i][a])
        BY <3>1
      <3> QED
        BY <3>2, RoleStepsKeepTokens DEF tokenVars
    <2> QED
      BY <2>1, GainsInLimitedMode
  <1>2. [limitedMode =>
            \A id \in TokenId, a \in Account :
              balance'[id][a] > balance[id][a] => Allowed(id, a)]_netVars
          <=> [limitedMode =>
                \A id \in TokenId, a \in Account :
                  balance'[id][a] > balance[id][a] =>
                    IF id <= numOfTokens
                    THEN \E b \in Account : balance'[id][b] < balance[id][b]
                    ELSE token'[id].type \in {1, 2} => IsAdmin(a) /\ timelock # NoAddress]_netVars
    BY DEF Allowed
  <1> QED
    BY <1>1, <1>2, NetTypeCorrect, UnissuedEmptyAlways, PTL DEF Spec, LimitedModeFreezes

-----------------------------------------------------------------------------
(* Sums over the accounts. *)

\* Of the amounts only the one the account has of the token may change.
OnlyEntry(f, g, id, a) ==
  /\ f \in [TokenId -> [Account -> Nat]] /\ g \in [TokenId -> [Account -> Nat]]
  /\ id \in TokenId /\ a \in Account
  /\ \A j \in TokenId, b \in Account : j # id \/ b # a => g[j][b] = f[j][b]

\* One account's amount of one token changes, and with it that token's sum.
LEMMA EntryChanges ==
  ASSUME NEW f, NEW g, NEW id, NEW a, OnlyEntry(f, g, id, a)
  PROVE  /\ SumFunction(g[id]) = SumFunction(f[id]) - f[id][a] + g[id][a]
         /\ \A j \in TokenId : j # id => SumFunction(g[j]) = SumFunction(f[j])
<1> USE DEF OnlyEntry
<1>1. DOMAIN f[id] = Account /\ DOMAIN g[id] = Account
  OBVIOUS
<1>2. \A x \in Account : f[id][x] \in Int /\ g[id][x] \in Int
  OBVIOUS
<1>3. \A x \in Account \ {a} : g[id][x] = f[id][x]
  OBVIOUS
<1>4. IsFiniteSet(Account)
  BY AccountAssumption
<1>7. a \in Account
  OBVIOUS
<1> DEFINE F == f[id]
           G == g[id]
<1>5. SumFunctionOnSet(G, Account) = SumFunctionOnSet(F, Account) - F[a] + G[a]
  <2>1. \A x \in Account : F[x] \in Int /\ G[x] \in Int
    BY <1>2
  <2>2. \A x \in Account \ {a} : G[x] = F[x]
    BY <1>3
  <2> HIDE DEF F, G
  <2> QED BY ONLY <2>1, <2>2, <1>4, SumChange, <1>7
<1>6. \A j \in TokenId : j # id => g[j] = f[j]
  OBVIOUS
<1> QED BY <1>1, <1>3, <1>5, <1>6 DEF SumFunction

\* Giving an entry a value is such a change.
LEMMA EntrySet ==
  ASSUME NEW f \in [TokenId -> [Account -> Nat]], NEW id \in TokenId, NEW a \in Account,
         NEW n \in Nat, NEW g, g = [f EXCEPT ![id][a] = n]
  PROVE  OnlyEntry(f, g, id, a) /\ g[id][a] = n
  BY AmountAdded DEF OnlyEntry

\* What all accounts have of a token is a natural number, and no less than what one has.
LEMMA TotalsNatural ==
  ASSUME NEW f \in [TokenId -> [Account -> Nat]], NEW id \in TokenId
  PROVE  /\ SumFunction(f[id]) \in Nat
         /\ \A a \in Account : f[id][a] <= SumFunction(f[id])
         /\ (\A a \in Account : f[id][a] = 0) => SumFunction(f[id]) = 0
<1>1. DOMAIN f[id] = Account /\ IsFiniteSet(Account) /\ \A a \in Account : f[id][a] \in Nat
  BY AccountAssumption
<1> QED BY <1>1, SumNat, SumZero DEF SumFunction

\* What an issue does to the sums, given that the next id is unused.
LEMMA IssueSums ==
  ASSUME NetTypeOK, NEW sender \in Account, NEW by \in Account, NEW to \in Account,
         NEW type \in TokenType, NEW q \in Amount, IssueInternal(sender, by, to, type, q),
         NEW id, id = numOfTokens + 1, NEW spent, spent = RetiredOnIssue(type, q)
  PROVE  /\ id \in TokenId
         /\ q \in Nat /\ spent \in Nat
         /\ Available(id)' = Available(id) + q - spent
         /\ Retired(id)' = Retired(id) + spent
         /\ \A j \in TokenId : j # id =>
              /\ Available(j)' = Available(j) /\ Retired(j)' = Retired(j)
              /\ token'[j] = token[j]
         /\ token'[id] = [type |-> type, totalIssued |-> q, totalRetired |-> spent]
         /\ \A j \in TokenId, a \in Account : j # id => retired'[j][a] = retired[j][a]
         /\ numOfTokens' = id
<1>1. /\ id \in TokenId
      /\ numOfTokens' = id
      /\ token' = [token EXCEPT ![id] =
                     [type |-> type, totalIssued |-> q, totalRetired |-> spent]]
      /\ balance' = [balance EXCEPT ![id][to] = balance[id][to] + q - spent]
      /\ retired' = [retired EXCEPT ![id][to] = retired[id][to] + spent]
  BY DEF IssueInternal
<1>2. spent \in Nat /\ q \in Nat /\ q - spent \in Nat
  BY AmountAssumption DEF RetiredOnIssue
<1>3. balance[id][to] \in Nat /\ retired[id][to] \in Nat
  BY <1>1 DEF NetTypeOK
<1>4. balance[id][to] + q - spent \in Nat /\ retired[id][to] + spent \in Nat
  BY <1>2, <1>3
<1>5. /\ balance \in [TokenId -> [Account -> Nat]] /\ balance' \in [TokenId -> [Account -> Nat]]
      /\ retired \in [TokenId -> [Account -> Nat]] /\ retired' \in [TokenId -> [Account -> Nat]]
  BY <1>1, <1>4, AmountAdded DEF NetTypeOK
<1>6. /\ Available(id)' = Available(id) - balance[id][to] + (balance[id][to] + q - spent)
      /\ \A j \in TokenId : j # id => Available(j)' = Available(j)
  <2>2. PICK n \in Nat : n = balance[id][to] + q - spent
    BY <1>4
  <2>3. balance' = [balance EXCEPT ![id][to] = n]
    BY <1>1, <2>2
  <2>4. balance \in [TokenId -> [Account -> Nat]] /\ id \in TokenId /\ to \in Account
    BY <1>1, <1>5
  <2>1. OnlyEntry(balance, balance', id, to) /\ balance'[id][to] = balance[id][to] + q - spent
    BY ONLY <2>2, <2>3, <2>4, EntrySet
  <2> QED BY <2>1, EntryChanges DEF Available
<1>7. /\ Retired(id)' = Retired(id) - retired[id][to] + (retired[id][to] + spent)
      /\ \A j \in TokenId : j # id => Retired(j)' = Retired(j)
  <2>2. PICK n \in Nat : n = retired[id][to] + spent
    BY <1>4
  <2>3. retired' = [retired EXCEPT ![id][to] = n]
    BY <1>1, <2>2
  <2>4. retired \in [TokenId -> [Account -> Nat]] /\ id \in TokenId /\ to \in Account
    BY <1>1, <1>5
  <2>1. OnlyEntry(retired, retired', id, to) /\ retired'[id][to] = retired[id][to] + spent
    BY ONLY <2>2, <2>3, <2>4, EntrySet
  <2> QED BY <2>1, EntryChanges DEF Retired
<1>8. Available(id) \in Nat /\ Retired(id) \in Nat
  BY <1>1, <1>5, TotalsNatural DEF Available, Retired
<1>9. Available(id)' = Available(id) + q - spent
  BY ONLY <1>2, <1>3, <1>6, <1>8
<1>10. Retired(id)' = Retired(id) + spent
  BY ONLY <1>2, <1>3, <1>7, <1>8
<1>11. \A j \in TokenId : j # id => token'[j] = token[j]
  BY <1>1 DEF NetTypeOK
<1>12. token'[id] = [type |-> type, totalIssued |-> q, totalRetired |-> spent]
  BY <1>1 DEF NetTypeOK
<1>13. \A j \in TokenId, a \in Account : j # id => retired'[j][a] = retired[j][a]
  BY <1>1 DEF NetTypeOK
<1> QED BY <1>1, <1>2, <1>6, <1>7, <1>9, <1>10, <1>11, <1>12, <1>13

\* What minting does to the sums.
LEMMA MintSums ==
  ASSUME NetTypeOK, NEW sender \in Account, NEW to \in Account, NEW id \in TokenId,
         NEW q \in Amount, Mint(sender, to, id, q)
  PROVE  /\ Available(id)' = Available(id) + q
         /\ \A j \in TokenId : j # id => Available(j)' = Available(j)
<1>1. balance' = [balance EXCEPT ![id][to] = balance[id][to] + q]
  BY DEF Mint
<1>2. q \in Nat /\ balance[id][to] \in Nat /\ balance[id][to] + q \in Nat
  BY AmountAssumption DEF NetTypeOK
<1>3. balance \in [TokenId -> [Account -> Nat]] /\ balance' \in [TokenId -> [Account -> Nat]]
  BY <1>1, <1>2, AmountAdded DEF NetTypeOK
<1>4. /\ Available(id)' = Available(id) - balance[id][to] + (balance[id][to] + q)
      /\ \A j \in TokenId : j # id => Available(j)' = Available(j)
  <2>1. OnlyEntry(balance, balance', id, to) /\ balance'[id][to] = balance[id][to] + q
    BY <1>1, <1>2, <1>3, EntrySet
  <2> QED BY <2>1, EntryChanges DEF Available
<1>5. Available(id) \in Nat
  BY <1>3, TotalsNatural DEF Available
<1>6. Available(id)' = Available(id) + q
  BY ONLY <1>2, <1>4, <1>5
<1> QED BY <1>4, <1>6

\* What retiring does to the sums and the totals.
LEMMA RetireSums ==
  ASSUME NetTypeOK, NEW sender \in Account, NEW id \in TokenId, NEW q \in Amount,
         Retire(sender, id, q)
  PROVE  /\ q \in Nat /\ q <= Available(id)
         /\ Available(id)' = Available(id) - q
         /\ Retired(id)' = Retired(id) + q
         /\ token'[id].totalRetired = token[id].totalRetired + q
         /\ token'[id].type = token[id].type
         /\ \A j \in TokenId : j # id =>
              /\ Available(j)' = Available(j) /\ Retired(j)' = Retired(j)
              /\ token'[j] = token[j]
         /\ \A j \in TokenId, a \in Account : j # id => retired'[j][a] = retired[j][a]
<1>1. /\ q <= balance[id][sender]
      /\ balance' = [balance EXCEPT ![id][sender] = balance[id][sender] - q]
      /\ retired' = [retired EXCEPT ![id][sender] = retired[id][sender] + q]
      /\ token' = [token EXCEPT ![id] =
                     [token[id] EXCEPT !.totalRetired = token[id].totalRetired + q]]
  BY DEF Retire, CanRetire, CountRetired
<1>2. q \in Nat /\ balance[id][sender] \in Nat /\ retired[id][sender] \in Nat
  BY AmountAssumption DEF NetTypeOK
<1>3. balance[id][sender] - q \in Nat /\ retired[id][sender] + q \in Nat
  BY <1>1, <1>2
<1>4. /\ balance \in [TokenId -> [Account -> Nat]] /\ balance' \in [TokenId -> [Account -> Nat]]
      /\ retired \in [TokenId -> [Account -> Nat]] /\ retired' \in [TokenId -> [Account -> Nat]]
  BY <1>1, <1>3, AmountAdded DEF NetTypeOK
<1>5. /\ Available(id)' = Available(id) - balance[id][sender] + (balance[id][sender] - q)
      /\ \A j \in TokenId : j # id => Available(j)' = Available(j)
  <2>1. OnlyEntry(balance, balance', id, sender) /\ balance'[id][sender] = balance[id][sender] - q
    <3>1. PICK n \in Nat : n = balance[id][sender] - q
      BY <1>3
    <3>2. balance' = [balance EXCEPT ![id][sender] = n]
      BY <1>1, <3>1
    <3> QED BY <1>4, <3>1, <3>2, EntrySet
  <2> QED BY <2>1, EntryChanges DEF Available
<1>6. /\ Retired(id)' = Retired(id) - retired[id][sender] + (retired[id][sender] + q)
      /\ \A j \in TokenId : j # id => Retired(j)' = Retired(j)
  <2>1. OnlyEntry(retired, retired', id, sender) /\ retired'[id][sender] = retired[id][sender] + q
    <3>1. PICK n \in Nat : n = retired[id][sender] + q
      BY <1>3
    <3>2. retired' = [retired EXCEPT ![id][sender] = n]
      BY <1>1, <3>1
    <3> QED BY <1>4, <3>1, <3>2, EntrySet
  <2> QED BY <2>1, EntryChanges DEF Retired
<1>7. Available(id) \in Nat /\ Retired(id) \in Nat /\ balance[id][sender] <= Available(id)
  BY <1>4, TotalsNatural DEF Available, Retired
<1>8. /\ Available(id)' = Available(id) - q
      /\ Retired(id)' = Retired(id) + q
      /\ q <= Available(id)
  BY ONLY <1>1, <1>2, <1>5, <1>6, <1>7
<1>9. token[id] \in CarbonTokenDetails
  BY DEF NetTypeOK
<1>10. \A j \in TokenId : token'[j] =
         IF j = id THEN [token[id] EXCEPT !.totalRetired = token[id].totalRetired + q] ELSE token[j]
  BY <1>1 DEF NetTypeOK
<1>11. \A j \in TokenId, a \in Account : j # id => retired'[j][a] = retired[j][a]
  BY <1>1 DEF NetTypeOK
<1>12. /\ token'[id].totalRetired = token[id].totalRetired + q
       /\ token'[id].type = token[id].type
  BY <1>9, <1>10 DEF CarbonTokenDetails
<1> QED BY <1>2, <1>5, <1>6, <1>8, <1>10, <1>11, <1>12

\* A transfer conserves every sum.
LEMMA TransferSums ==
  ASSUME NetTypeOK, NEW sender \in Account, NEW from \in Account, NEW to \in Account,
         NEW id \in TokenId, NEW q \in Amount, SafeTransferFrom(sender, from, to, id, q)
  PROVE  \A j \in TokenId : Available(j)' = Available(j)
<1>1. /\ balance' = [balance EXCEPT ![id][from] = balance[id][from] - q,
                                    ![id][to] = balance[id][to] + q]
      /\ from # to
      /\ q <= balance[id][from]
  BY DEF SafeTransferFrom, BeforeTokenTransfer
<1>2. /\ q \in Nat /\ balance[id][from] \in Nat /\ balance[id][to] \in Nat
      /\ balance \in [TokenId -> [Account -> Nat]]
  BY AmountAssumption DEF NetTypeOK
<1>3. balance[id][from] - q \in Nat /\ balance[id][to] + q \in Nat
  BY <1>1, <1>2
<1> DEFINE left == [balance EXCEPT ![id][from] = balance[id][from] - q]
<1>4. left \in [TokenId -> [Account -> Nat]] /\ left[id][to] = balance[id][to]
  BY <1>1, <1>2, <1>3, AmountAdded
<1>5. balance' = [left EXCEPT ![id][to] = balance[id][to] + q]
  BY <1>1
<1>6. /\ SumFunction(left[id]) = SumFunction(balance[id]) - balance[id][from] + (balance[id][from] - q)
      /\ \A j \in TokenId : j # id => SumFunction(left[j]) = SumFunction(balance[j])
  <2>1. OnlyEntry(balance, left, id, from) /\ left[id][from] = balance[id][from] - q
    <3>1. PICK n \in Nat : n = balance[id][from] - q
      BY <1>3
    <3>2. left = [balance EXCEPT ![id][from] = n]
      BY <3>1
    <3> HIDE DEF left
    <3> QED BY <1>2, <3>1, <3>2, EntrySet
  <2> HIDE DEF left
  <2> QED BY <2>1, EntryChanges
<1> HIDE DEF left
<1>7. balance' \in [TokenId -> [Account -> Nat]]
  BY <1>3, <1>4, <1>5, AmountAdded
<1>8. /\ SumFunction(balance'[id]) = SumFunction(left[id]) - left[id][to] + (balance[id][to] + q)
      /\ \A j \in TokenId : j # id => SumFunction(balance'[j]) = SumFunction(left[j])
  <2>1. OnlyEntry(left, balance', id, to) /\ balance'[id][to] = balance[id][to] + q
    BY <1>3, <1>4, <1>5, EntrySet
  <2> QED BY <2>1, EntryChanges
<1>9. SumFunction(balance[id]) \in Nat /\ SumFunction(left[id]) \in Nat
  BY <1>2, <1>4, TotalsNatural
<1>10. SumFunction(balance'[id]) = SumFunction(balance[id])
  BY ONLY <1>2, <1>4, <1>6, <1>8, <1>9
<1> QED BY <1>6, <1>8, <1>10 DEF Available

-----------------------------------------------------------------------------
\* With the totals goes that nothing is retired of a token that was not issued: an issue sets
\* the total of the next id, whatever it was.
UnissuedUnretired ==
  \A id \in TokenId : id > numOfTokens => \A a \in Account : retired[id][a] = 0

RetiredInv == UnissuedUnretired /\ RetiredMatches

\* Every call keeps the totals of what is retired.
LEMMA RetiredStep ==
  ASSUME NetTypeOK, RetiredInv, [Next]_netVars
  PROVE  RetiredInv'
<1>1. numOfTokens \in Nat /\ TokenId \subseteq Nat
  BY TokenIdAssumption DEF NetTypeOK
<1>2. ASSUME UNCHANGED <<numOfTokens, token, retired>> PROVE RetiredInv'
  BY <1>2 DEF RetiredInv, UnissuedUnretired, RetiredMatches, Retired
<1>3. ASSUME NEW sender \in Account, RoleStep(sender) PROVE RetiredInv'
  BY <1>2, <1>3, RoleStepsKeepTokens DEF tokenVars
<1>4. ASSUME NEW sender \in Account, NEW by \in Account, NEW to \in Account,
             NEW type \in TokenType, NEW q \in Amount, IssueInternal(sender, by, to, type, q)
      PROVE  RetiredInv'
  <2> PICK id : id = numOfTokens + 1
    OBVIOUS
  <2> PICK spent : spent = RetiredOnIssue(type, q)
    OBVIOUS
  <2>1. /\ id \in TokenId /\ spent \in Nat /\ numOfTokens' = id
        /\ Retired(id)' = Retired(id) + spent
        /\ token'[id] = [type |-> type, totalIssued |-> q, totalRetired |-> spent]
        /\ \A j \in TokenId : j # id => Retired(j)' = Retired(j) /\ token'[j] = token[j]
        /\ \A j \in TokenId, a \in Account : j # id => retired'[j][a] = retired[j][a]
    BY <1>4, IssueSums
  <2>2. id > numOfTokens
    BY <1>1
  <2>3. Retired(id) = 0
    BY <2>1, <2>2, TotalsNatural DEF RetiredInv, UnissuedUnretired, Retired, NetTypeOK
  <2>4. \A j \in TokenId : token'[j].totalRetired = Retired(j)'
    BY <2>1, <2>3 DEF RetiredInv, RetiredMatches
  <2>5. \A j \in TokenId : j > id => j # id /\ j > numOfTokens
    BY <1>1
  <2> QED BY <2>1, <2>4, <2>5 DEF RetiredInv, RetiredMatches, UnissuedUnretired
<1>5. ASSUME NEW sender \in Account, NEW id \in TokenId, NEW q \in Amount, Retire(sender, id, q)
      PROVE  RetiredInv'
  <2>1. id <= numOfTokens /\ numOfTokens' = numOfTokens
    BY <1>5 DEF Retire, CanRetire, TokenExists
  <2>2. \A j \in TokenId : token'[j].totalRetired = Retired(j)'
    BY <1>5, RetireSums DEF RetiredInv, RetiredMatches
  <2>3. \A j \in TokenId : j > numOfTokens' => j # id /\ j > numOfTokens
    BY <1>1, <2>1
  <2> QED BY <1>5, <2>2, <2>3, RetireSums DEF RetiredInv, RetiredMatches, UnissuedUnretired
<1>6. ASSUME NEW sender \in Account, TokenStep(sender) PROVE RetiredInv'
  <2> SUFFICES ASSUME NEW id \in TokenId, NEW q \in Amount,
                      \/ \E to \in Account : Mint(sender, to, id, q) \/ Transfer(sender, to, id, q)
                      \/ \E from, to \in Account : SafeTransferFrom(sender, from, to, id, q)
               PROVE  UNCHANGED <<numOfTokens, token, retired>>
    BY <1>2, <1>5, <1>6 DEF TokenStep
  <2>1. ASSUME NEW to \in Account, Mint(sender, to, id, q) PROVE UNCHANGED <<numOfTokens, token, retired>>
    BY <2>1 DEF Mint
  <2>2. ASSUME NEW from \in Account, NEW to \in Account, SafeTransferFrom(sender, from, to, id, q)
        PROVE  UNCHANGED <<numOfTokens, token, retired>>
    BY <2>2 DEF SafeTransferFrom
  <2> QED BY <2>1, <2>2 DEF Transfer
<1>7. ASSUME NEW sender \in Account, IssueStep(sender) PROVE RetiredInv'
  BY <1>4, <1>7 DEF IssueStep, Issue, IssueOnBehalf
<1>8. CASE UNCHANGED netVars
  BY <1>2, <1>8 DEF netVars
<1> QED BY <1>3, <1>6, <1>7, <1>8 DEF Next

\* The totals match at first.
LEMMA RetiredInit == ASSUME Init PROVE RetiredInv
<1>1. retired \in [TokenId -> [Account -> Nat]]
  BY DEF Init
<1>2. \A id \in TokenId, a \in Account : retired[id][a] = 0
  BY DEF Init
<1>3. \A id \in TokenId : Retired(id) = 0
  BY <1>1, <1>2, TotalsNatural DEF Retired
<1>4. \A id \in TokenId : token[id].totalRetired = 0
  BY DEF Init, NoDetails
<1> QED BY <1>2, <1>3, <1>4 DEF RetiredInv, UnissuedUnretired, RetiredMatches

\* The total a token keeps of what was retired is always what its holders retired, for any
\* accounts, tokens and amounts.
THEOREM RetiredAlwaysMatches == Spec => []RetiredMatches
<1>1. Init => RetiredInv
  BY RetiredInit
<1>2. NetTypeOK /\ RetiredInv /\ [Next]_netVars => RetiredInv'
  BY RetiredStep
<1>3. RetiredInv => RetiredMatches
  BY DEF RetiredInv
<1> QED BY <1>1, <1>2, <1>3, NetTypeCorrect, PTL DEF Spec

-----------------------------------------------------------------------------
(* The supply of the tokens is that of TokenSupply. *)

\* The state the abstract specification sees.
KindMap == [id \in TokenId |-> token[id].type]
AvailableMap == [id \in TokenId |-> Available(id)]
RetiredMap == [id \in TokenId |-> Retired(id)]

\* Calls that change no sum and no type change nothing of it.
LEMMA SupplyKept ==
  ASSUME UNCHANGED <<numOfTokens, token, retired>>,
         \A j \in TokenId : Available(j)' = Available(j)
  PROVE  UNCHANGED <<numOfTokens, KindMap, AvailableMap, RetiredMap>>
<1>1. \A j \in TokenId : Retired(j)' = Retired(j)
  BY DEF Retired
<1> QED BY <1>1 DEF KindMap, AvailableMap, RetiredMap

\* Every call is a step of the abstract specification, or none.
LEMMA SupplyStep ==
  ASSUME NetTypeOK, [Next]_netVars
  PROVE  [AbstractSupply!SupplyNext]_<<numOfTokens, KindMap, AvailableMap, RetiredMap>>
<1> DEFINE Goal == [AbstractSupply!SupplyNext]_<<numOfTokens, KindMap, AvailableMap, RetiredMap>>
<1>1. ASSUME NEW sender \in Account, RoleStep(sender) PROVE Goal
  <2>1. UNCHANGED <<numOfTokens, token, balance, retired>>
    BY <1>1, RoleStepsKeepTokens DEF tokenVars
  <2> QED BY <2>1, SupplyKept DEF Available
<1>2. ASSUME NEW sender \in Account, NEW by \in Account, NEW to \in Account,
             NEW type \in TokenType, NEW q \in Amount, IssueInternal(sender, by, to, type, q)
      PROVE  Goal
  <2> PICK id : id = numOfTokens + 1
    OBVIOUS
  <2> PICK spent : spent = RetiredOnIssue(type, q)
    OBVIOUS
  <2>1. /\ id \in TokenId /\ q \in Nat /\ spent \in Nat /\ numOfTokens' = id
        /\ Available(id)' = Available(id) + q - spent
        /\ Retired(id)' = Retired(id) + spent
        /\ token'[id] = [type |-> type, totalIssued |-> q, totalRetired |-> spent]
        /\ \A j \in TokenId : j # id =>
             Available(j)' = Available(j) /\ Retired(j)' = Retired(j) /\ token'[j] = token[j]
    BY <1>2, IssueSums
  <2>2. Available(id) \in Nat /\ Retired(id) \in Nat
    BY <2>1, TotalsNatural DEF NetTypeOK, Available, Retired
  <2>3. AvailableMap[id] + RetiredMap[id] + q <= MaxSupply
    BY <1>2, <2>1 DEF IssueInternal, Fits, AvailableMap, RetiredMap
  <2>4. KindMap' = [KindMap EXCEPT ![id] = type]
    <3>1. token'[id].type = type
      BY <2>1
    <3>2. \A j \in TokenId : token'[j].type = IF j = id THEN type ELSE token[j].type
      BY <2>1, <3>1
    <3> QED BY <3>2 DEF KindMap
  <2>5. CASE type = 3
    <3>1. spent = q
      BY <2>5 DEF RetiredOnIssue, AuditedEmissions
    <3>2. Available(id)' = Available(id) /\ Retired(id)' = Retired(id) + q
      BY <2>1, <2>2, <3>1
    <3>3. AvailableMap' = AvailableMap
      BY <2>1, <3>2 DEF AvailableMap
    <3>4. RetiredMap' = [RetiredMap EXCEPT ![id] = RetiredMap[id] + q]
      BY <2>1, <3>2 DEF RetiredMap
    <3> QED
      BY <2>1, <2>3, <2>4, <2>5, <3>3, <3>4
         DEF AbstractSupply!SupplyNext, AbstractSupply!IssueSupply, AbstractSupply!Fits,
             AbstractSupply!AuditedEmissions, KindMap, AvailableMap, RetiredMap, TokenType
  <2>6. CASE type # 3
    <3>1. spent = 0
      BY <2>6 DEF RetiredOnIssue, AuditedEmissions
    <3>2. Available(id)' = Available(id) + q /\ Retired(id)' = Retired(id)
      BY <2>1, <2>2, <3>1
    <3>3. RetiredMap' = RetiredMap
      BY <2>1, <3>2 DEF RetiredMap
    <3>4. AvailableMap' = [AvailableMap EXCEPT ![id] = AvailableMap[id] + q]
      BY <2>1, <3>2 DEF AvailableMap
    <3> QED
      BY <2>1, <2>3, <2>4, <2>6, <3>3, <3>4
         DEF AbstractSupply!SupplyNext, AbstractSupply!IssueSupply, AbstractSupply!Fits,
             AbstractSupply!AuditedEmissions, KindMap, AvailableMap, RetiredMap, TokenType
  <2> QED BY <2>5, <2>6
<1>3. ASSUME NEW sender \in Account, NEW to \in Account, NEW id \in TokenId, NEW q \in Amount,
             Mint(sender, to, id, q)
      PROVE  Goal
  <2>1. /\ id <= numOfTokens /\ UNCHANGED <<numOfTokens, token, retired>>
        /\ Available(id) + Retired(id) + q <= MaxSupply
    BY <1>3 DEF Mint, CanMint, TokenExists, Fits
  <2>2. UNCHANGED <<KindMap, RetiredMap>>
    BY <2>1 DEF KindMap, RetiredMap, Retired
  <2>3. AvailableMap' = [AvailableMap EXCEPT ![id] = AvailableMap[id] + q]
    <3>1. Available(id)' = Available(id) + q /\ \A j \in TokenId : j # id => Available(j)' = Available(j)
      BY <1>3, MintSums
    <3> QED BY <3>1 DEF AvailableMap
  <2>4. AvailableMap[id] + RetiredMap[id] + q <= MaxSupply
    BY <2>1 DEF AvailableMap, RetiredMap
  <2> QED
    BY <2>1, <2>2, <2>3, <2>4
       DEF AbstractSupply!SupplyNext, AbstractSupply!MintSupply, AbstractSupply!Fits,
           KindMap, AvailableMap, RetiredMap
<1>4. ASSUME NEW sender \in Account, NEW id \in TokenId, NEW q \in Amount, Retire(sender, id, q)
      PROVE  Goal
  <2>1. id <= numOfTokens /\ numOfTokens' = numOfTokens
    BY <1>4 DEF Retire, CanRetire, TokenExists
  <2>2. KindMap' = KindMap
    BY <1>4, RetireSums DEF KindMap
  <2>3. /\ AvailableMap' = [AvailableMap EXCEPT ![id] = AvailableMap[id] - q]
        /\ RetiredMap' = [RetiredMap EXCEPT ![id] = RetiredMap[id] + q]
        /\ q <= AvailableMap[id]
    <3>1. /\ q <= Available(id)
          /\ Available(id)' = Available(id) - q /\ Retired(id)' = Retired(id) + q
          /\ \A j \in TokenId : j # id => Available(j)' = Available(j) /\ Retired(j)' = Retired(j)
      BY <1>4, RetireSums
    <3> QED BY <3>1 DEF AvailableMap, RetiredMap
  <2> QED
    BY <2>1, <2>2, <2>3
       DEF AbstractSupply!SupplyNext, AbstractSupply!RetireSupply,
           KindMap, AvailableMap, RetiredMap
<1>5. ASSUME NEW sender \in Account, NEW from \in Account, NEW to \in Account,
             NEW id \in TokenId, NEW q \in Amount, SafeTransferFrom(sender, from, to, id, q)
      PROVE  Goal
  BY <1>5, TransferSums, SupplyKept DEF SafeTransferFrom
<1>6. CASE UNCHANGED netVars
  BY <1>6, SupplyKept DEF netVars, Available
<1>7. ASSUME NEW sender \in Account, TokenStep(sender) PROVE Goal
  BY <1>3, <1>4, <1>5, <1>7 DEF TokenStep, Transfer
<1>8. ASSUME NEW sender \in Account, IssueStep(sender) PROVE Goal
  BY <1>2, <1>8 DEF IssueStep, Issue, IssueOnBehalf
<1> QED BY <1>1, <1>6, <1>7, <1>8 DEF Next

\* There is no supply at first.
LEMMA SupplyStarts == ASSUME Init PROVE AbstractSupply!SupplyInit
<1>1. \A id \in TokenId : Available(id) = 0 /\ Retired(id) = 0
  <2>1. balance \in [TokenId -> [Account -> Nat]] /\ retired \in [TokenId -> [Account -> Nat]]
    BY DEF Init
  <2>2. \A id \in TokenId, a \in Account : balance[id][a] = 0 /\ retired[id][a] = 0
    BY DEF Init
  <2> QED BY <2>1, <2>2, TotalsNatural DEF Available, Retired
<1> QED BY <1>1 DEF Init, AbstractSupply!SupplyInit, NoDetails

\* The contract, with its holders, roles, modes and approvals, implements the supply of its
\* tokens: for any accounts and amounts, transfers conserve it, audited emissions are born
\* retired, and only minting and retiring change what is available.
THEOREM TokensImplementSupply == Spec => ImplementsSupply
<1>1. Init => AbstractSupply!SupplyInit
  BY SupplyStarts
<1>2. NetTypeOK /\ [Next]_netVars => [AbstractSupply!SupplyNext]_(AbstractSupply!supplyVars)
  BY SupplyStep DEF AbstractSupply!supplyVars, KindMap, AvailableMap, RetiredMap
<1> QED
  BY <1>1, <1>2, NetTypeCorrect, PTL DEF Spec, ImplementsSupply, AbstractSupply!SupplySpec
=============================================================================
