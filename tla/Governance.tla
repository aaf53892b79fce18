------------------------------ MODULE Governance ------------------------------
(***************************************************************************)
(* The Governor contract over the DAO token and the timelock: proposals,   *)
(* plain or with child proposals, quadratic votes for which tokens are     *)
(* locked, refunds and rewards, queueing and execution.  Each proposal has *)
(* one action.  Votes by signature, the guardian's calls on the timelock   *)
(* and his abdication are left out.                                        *)
(***************************************************************************)
EXTENDS DAOToken, Timelock, FiniteSets

CONSTANTS Action,       \* what a proposal would have the timelock do
          VoteAmount,   \* the tokens a voter puts on a proposal
          Threshold, Quorum, \* the values the guardian may set, the first ones given
          FirstThreshold, FirstQuorum,
          VotingDelay, VotingPeriod, ProposalCancelPeriod, VotesCancelPeriod,
          MaxProposals \* bound on the proposals made, in the early blocks

ASSUME GovernorAssumption ==
  /\ FirstThreshold \in Threshold /\ FirstQuorum \in Quorum
  /\ Threshold \subseteq Nat \ {0} /\ Quorum \subseteq Nat /\ VoteAmount \subseteq Nat \ {0}
  /\ {VotingDelay, VotingPeriod, ProposalCancelPeriod, VotesCancelPeriod} \subseteq Nat \ {0}
  /\ MaxProposals \in Nat

VARIABLES proposals, \* the proposals made, in order; the receipts of each
          quorum, threshold,
          changed,   \* history: the guardian has changed one of them
          pot        \* history: proposal -> tokens locked for it, less those burned or paid for it

govVars == <<proposals, quorum, threshold, changed, pot>>
vars == <<daoVars, queuedTransactions, govVars>>

Sqrt(x) == CHOOSE y \in 0 .. x : y * y <= x /\ x < (y + 1) * (y + 1)

Ids == DOMAIN proposals
Children(p) == {c \in Ids : proposals[c].parent = p}
Family(p) == IF proposals[p].parent = 0 THEN p ELSE proposals[p].parent
\* Where the votes for a proposal go: to its children, if it has any.
Leaves(p) == IF Children(p) = {} THEN {p} ELSE Children(p)
EndBlock(p) == proposals[p].startBlock + VotingPeriod
Transaction(p) == [action |-> proposals[p].action, eta |-> proposals[p].eta]

NoReceipt == [hasVoted |-> FALSE, support |-> FALSE, rawVotes |-> 0, refunded |-> FALSE, until |-> 0]
Receipt(p, a) == proposals[p].receipts[a]

GovInit ==
  /\ proposals = <<>> /\ queuedTransactions = {}
  /\ quorum = FirstQuorum /\ threshold = FirstThreshold /\ changed = FALSE
  /\ pot = [p \in 1 .. MaxProposals |-> 0]

-----------------------------------------------------------------------------
(* The state of a proposal. *)

LosesChild(p) == \E c \in Children(p) : proposals[c].forVotes <= proposals[c].againstVotes

\* Child proposals need no quorum.
State(p) ==
  LET q == proposals[p] IN
  IF block > EndBlock(p) /\ LosesChild(p) THEN "Defeated"
  ELSE IF q.canceled THEN "Canceled"
  ELSE IF block <= q.startBlock THEN "Pending"
  ELSE IF block <= EndBlock(p) THEN "Active"
  ELSE IF q.parent = 0 /\ q.forVotes + q.againstVotes < quorum THEN "QuorumFailed"
  ELSE IF q.forVotes <= q.againstVotes THEN "Defeated"
  ELSE IF q.eta = 0 THEN "Succeeded"
  ELSE IF q.executed THEN "Executed"
  ELSE IF block >= q.eta + GracePeriod THEN "Expired"
  ELSE "Queued"

-----------------------------------------------------------------------------
(* Votes. *)

\* _accountVotes: the votes are the square root of all the tokens that the account has put on
\* the proposal, so that a parent counts what goes to its children as one.
Accounted(q, a, support, amount) ==
  LET r == q.receipts[a]
      diff == Sqrt(r.rawVotes + amount) - Sqrt(r.rawVotes)
      receipt == [hasVoted |-> TRUE, support |-> support, rawVotes |-> r.rawVotes + amount,
                  refunded |-> FALSE, until |-> block + VotesCancelPeriod]
  IN IF support
     THEN [q EXCEPT !.forVotes = @ + diff, !.rawForVotes = @ + amount, !.receipts[a] = receipt]
     ELSE [q EXCEPT !.againstVotes = @ + diff, !.rawAgainstVotes = @ + amount, !.receipts[a] = receipt]

\* _castVoteInternal: the tokens are split among the children and locked; the parent counts them.
Split(ps, p, amount) ==
  LET n == Cardinality({c \in DOMAIN ps : ps[c].parent = p}) IN
  IF n = 0 THEN amount ELSE amount \div n
CastVote(ps, a, p, support, amount) ==
  LET children == {c \in DOMAIN ps : ps[c].parent = p}
      leaves == IF children = {} THEN {p} ELSE children
      root == IF ps[p].parent = 0 THEN p ELSE ps[p].parent
      each == Split(ps, p, amount)
      total == each * Cardinality(leaves)
  IN /\ balance[a] >= total
     /\ proposals' = [q \in DOMAIN ps |->
          IF q \in leaves THEN Accounted(ps[q], a, support, each)
          ELSE IF q = root THEN Accounted(ps[q], a, support, total)
          ELSE ps[q]]
     /\ balance' = [balance EXCEPT ![a] = @ - total, ![Governor] = @ + total]
     /\ pot' = [pot EXCEPT ![root] = @ + total]
     /\ UNCHANGED <<block, delegates, checkpoints, past>>

New(a, action, parent) ==
  [proposer |-> a, parent |-> parent, action |-> action, startBlock |-> block + VotingDelay, eta |-> 0,
   forVotes |-> 0, againstVotes |-> 0, rawForVotes |-> 0, rawAgainstVotes |-> 0,
   canceled |-> FALSE, executed |-> FALSE, receipts |-> [v \in Account |-> NoReceipt]]

Room(n) == Len(proposals) + n <= MaxProposals /\ block <= LastEarly

\* The proposer votes for it with the threshold, at once.
Propose(a, action) ==
  /\ Room(1)
  /\ GetPriorVotes(a, block - 1) >= threshold /\ balance[a] >= threshold
  /\ CastVote(Append(proposals, New(a, action, 0)), a, Len(proposals) + 1, TRUE, threshold)
  /\ UNCHANGED <<calls, queuedTransactions, quorum, threshold, changed>>

\* The first action is the parent's; the votes of the proposer are not asked for, his balance is.
ProposeMultiAttribute(a, actions) ==
  /\ Room(Len(actions))
  /\ balance[a] >= threshold
  /\ LET parent == Len(proposals) + 1
         made == [i \in DOMAIN actions |-> New(a, actions[i], IF i = 1 THEN 0 ELSE parent)]
     IN CastVote(proposals \o made, a, parent, TRUE, threshold)
  /\ UNCHANGED <<calls, queuedTransactions, quorum, threshold, changed>>

\* No vote is added to one that stands, and the proposer has voted; only votes that the account
\* had when voting began count.
Vote(a, p, support, amount) ==
  /\ Called
  /\ State(p) = "Active"
  /\ a # proposals[p].proposer /\ ~Receipt(p, a).hasVoted
  /\ amount <= GetPriorVotes(a, proposals[p].startBlock)
  /\ CastVote(proposals, a, p, support, amount)
  /\ UNCHANGED <<queuedTransactions, quorum, threshold, changed>>

-----------------------------------------------------------------------------
(* Refunds. *)

\* A child counts as its parent when that failed.
RefundState(p) ==
  LET parent == proposals[p].parent IN
  IF parent # 0 /\ State(parent) \in {"QuorumFailed", "Defeated"} THEN State(parent) ELSE State(p)

Passed == {"Succeeded", "Queued", "Executed"}
IsProposer(a, p) == a = proposals[p].proposer

\* Mutation: the voters of a proposal that passed are refunded like those of one that failed.
MayRefundPassed(a, p) ==
  LET state == RefundState(p) IN
  /\ ~Receipt(p, a).refunded
  /\ state = "Active" => block <= Receipt(p, a).until
  /\ IF IsProposer(a, p) THEN state \in Passed \cup {"QuorumFailed", "Canceled"}
     ELSE state \in Passed \cup {"Active", "QuorumFailed"}

MayRefund(a, p) ==
  LET state == RefundState(p) IN
  /\ ~Receipt(p, a).refunded
  /\ state = "Active" => block <= Receipt(p, a).until
  /\ IF IsProposer(a, p) THEN state \in Passed \cup {"QuorumFailed", "Canceled"}
     ELSE state \in {"Active", "QuorumFailed"}

\* What is burned and what is paid: the proposer of a proposal that passed is rewarded with a half,
\* one that missed the quorum loses a quarter; who takes a vote back, or cancels, a twentieth.
BurnedAndPaid(a, p) ==
  LET state == RefundState(p)
      raw == Receipt(p, a).rawVotes
  IN CASE IsProposer(a, p) /\ state \in Passed -> <<0, (raw * 3) \div 2>>
       [] IsProposer(a, p) /\ state = "QuorumFailed" -> <<raw \div 4, (raw \div 4) * 3>>
       [] state \in {"Active", "Canceled"} -> <<raw \div 20, raw - raw \div 20>>
       [] OTHER -> <<0, raw>>
Burned(a, p) == BurnedAndPaid(a, p)[1]
Paid(a, p) == BurnedAndPaid(a, p)[2]

\* Mutation: the votes of a receipt that is refunded are left in the tally.
TakenBackCounted(p, a) ==
  [proposals[p] EXCEPT !.receipts[a].hasVoted = FALSE, !.receipts[a].rawVotes = 0,
                       !.receipts[a].refunded = TRUE]

\* Mutation: a refund always takes the votes off the tally.
TakenBackAlways(p, a) ==
  LET receipt == Receipt(p, a) IN
  IF receipt.support
  THEN [TakenBackCounted(p, a) EXCEPT !.forVotes = @ - Sqrt(receipt.rawVotes), !.rawForVotes = @ - receipt.rawVotes]
  ELSE [TakenBackCounted(p, a) EXCEPT !.againstVotes = @ - Sqrt(receipt.rawVotes),
                                      !.rawAgainstVotes = @ - receipt.rawVotes]

\* _refund on one proposal: a vote that is taken back no longer counts.
TakenBack(p, a) ==
  LET q == proposals[p]
      raw == Receipt(p, a).rawVotes
      receipt == [Receipt(p, a) EXCEPT !.hasVoted = FALSE, !.rawVotes = 0, !.refunded = TRUE]
      counted == [q EXCEPT !.receipts[a] = receipt]
  IN IF RefundState(p) # "Active" THEN counted
     ELSE IF receipt.support
     THEN [counted EXCEPT !.forVotes = @ - Sqrt(raw), !.rawForVotes = @ - raw]
     ELSE [counted EXCEPT !.againstVotes = @ - Sqrt(raw), !.rawAgainstVotes = @ - raw]

\* What an account has put on some proposals.
RawOn(a, ps) == SumFunction([c \in ps |-> Receipt(c, a).rawVotes])

\* _accountRefundOnParent: the receipt, not the tally.
OnParent(p, a, refunds) ==
  LET raw == Receipt(p, a).rawVotes - RawOn(a, refunds)
  IN [proposals[p] EXCEPT !.receipts[a].rawVotes = raw, !.receipts[a].hasVoted = raw > 0,
                          !.receipts[a].refunded = raw = 0]

\* The refund of a parent is the refund of each child that has not been refunded.
Refund(a, p) ==
  LET refunds == IF Children(p) = {} THEN {p} ELSE {c \in Children(p) : ~Receipt(c, a).refunded}
      burned == SumFunction([c \in refunds |-> Burned(a, c)])
      paid == SumFunction([c \in refunds |-> Paid(a, c)])
      parent == Family(p)
  IN /\ ~Receipt(p, a).refunded /\ refunds # {}
     /\ \A c \in refunds : MayRefund(a, c) /\ Paid(a, c) > 0
     /\ balance[Governor] >= burned + paid
     /\ CanMove(delegates[Governor], delegates[a], paid)
     /\ LET after == [balance EXCEPT ![Governor] = @ - burned - paid, ![a] = @ + paid] IN
        /\ balance' = after
        /\ IF delegates[a] = NoOne
           THEN Delegated(a, a, after[a])
           ELSE checkpoints' = Moved(delegates[Governor], delegates[a], paid) /\ UNCHANGED delegates
     /\ proposals' = [q \in Ids |->
          IF q \in refunds THEN TakenBack(q, a)
          ELSE IF q = parent THEN OnParent(q, a, refunds)
          ELSE proposals[q]]
     /\ pot' = [pot EXCEPT ![parent] = @ - burned - paid]
     /\ UNCHANGED <<block, past, calls, queuedTransactions, quorum, threshold, changed>>

-----------------------------------------------------------------------------
(* Decisions. *)

\* Mutation: an action is queued though it is queued at that eta already.
QueueAgain(tx) == CanQueue(tx, block) /\ QueueTransaction(tx)

QueueOrRevert(tx) == tx \notin queuedTransactions /\ CanQueue(tx, block) /\ QueueTransaction(tx)

\* What was locked is burned up to the threshold, which is kept for the reward.
Queue(p) ==
  LET q == proposals[p]
      burned == q.rawForVotes + q.rawAgainstVotes - threshold
      tx == [action |-> q.action, eta |-> block + Delay]
  IN /\ State(p) = "Succeeded"
     /\ 0 <= burned /\ burned <= balance[Governor]
     /\ QueueOrRevert(tx)
     /\ proposals' = [proposals EXCEPT ![p].eta = tx.eta]
     /\ balance' = [balance EXCEPT ![Governor] = @ - burned]
     /\ pot' = [pot EXCEPT ![Family(p)] = @ - burned]
     /\ UNCHANGED <<block, delegates, checkpoints, past, calls, quorum, threshold, changed>>

Execute(p) ==
  /\ State(p) = "Queued"
  /\ CanExecute(Transaction(p), block) /\ ExecuteTransaction(Transaction(p))
  /\ proposals' = [proposals EXCEPT ![p].executed = TRUE]
  /\ UNCHANGED <<daoVars, quorum, threshold, changed, pot>>

Cancel(a, p) ==
  /\ State(p) = "Active"
  /\ a = InitialHolder \/ IsProposer(a, p)
  /\ block <= proposals[p].startBlock + ProposalCancelPeriod
  /\ proposals[p].rawForVotes <= threshold /\ proposals[p].rawAgainstVotes <= threshold
  /\ CancelTransaction(Transaction(p))
  /\ proposals' = [proposals EXCEPT ![p].canceled = TRUE]
  /\ UNCHANGED <<daoVars, quorum, threshold, changed, pot>>

\* setQuorum, setProposalThreshold: by the guardian, at any time.
Set(q, t) ==
  /\ Called /\ changed' = TRUE
  /\ <<q, t>> # <<quorum, threshold>> /\ (q = quorum \/ t = threshold)
  /\ quorum' = q /\ threshold' = t
  /\ UNCHANGED <<block, balance, delegates, checkpoints, past, queuedTransactions, proposals, pot>>

-----------------------------------------------------------------------------
Init == DaoInit /\ GovInit

Next ==
  \/ DaoNext /\ UNCHANGED <<queuedTransactions, govVars>>
  \/ \E a \in Account :
       \/ \E x \in Action : Propose(a, x)
       \/ \E n \in 1 .. MaxProposals : \E actions \in [1 .. n -> Action] : ProposeMultiAttribute(a, actions)
       \/ \E p \in Ids :
            \/ \E support \in BOOLEAN, n \in VoteAmount : Vote(a, p, support, n)
            \/ Refund(a, p) \/ Cancel(a, p)
  \/ \E p \in Ids : Queue(p) \/ Execute(p)
  \/ \E q \in Quorum, t \in Threshold : Set(q, t)

Spec == Init /\ [][Next]_vars
-----------------------------------------------------------------------------
RawTally(p) == proposals[p].rawForVotes + proposals[p].rawAgainstVotes

\* What the supporters (or the opponents) of a proposal have put on it, and the votes it gives.
OnSide(p, a, side) == IF Receipt(p, a).support = side THEN Receipt(p, a).rawVotes ELSE 0
RawSide(p, side) == SumFunction([a \in Account |-> OnSide(p, a, side)])
VotesSide(p, side) == SumFunction([a \in Account |-> Sqrt(OnSide(p, a, side))])

Open(p) == State(p) \in {"Pending", "Active"}

\* While it is open, a proposal without children counts the receipts that stand, each by the root of
\* its tokens, though votes are taken back and cast again; a receipt on a parent is the sum of those
\* on its children (Governor.sol: _accountVotes, _refund, _accountRefundOnParent).
TalliesMatch ==
  \A p \in Ids :
    IF Children(p) = {}
    THEN Open(p) => /\ proposals[p].rawForVotes = RawSide(p, TRUE)
                    /\ proposals[p].rawAgainstVotes = RawSide(p, FALSE)
                    /\ proposals[p].forVotes = VotesSide(p, TRUE)
                    /\ proposals[p].againstVotes = VotesSide(p, FALSE)
    ELSE \A a \in Account : Receipt(p, a).rawVotes = RawOn(a, Children(p))

\* What may be claimed now for a proposal and its children.
Claim(a, p) == IF MayRefund(a, p) THEN Burned(a, p) + Paid(a, p) ELSE 0
Claims(p) == SumFunction([a \in Account |-> Claim(a, p)])
Owed(p) == SumFunction([c \in Leaves(p) |-> Claims(c)])

\* No setting was changed; no child queued for itself, and no vote on a child taken back, which a
\* parent goes on counting.
Plain(p) ==
  /\ ~changed
  /\ Children(p) # {} => RawTally(p) = SumFunction([c \in Children(p) |-> RawTally(c)])
  /\ \A c \in Children(p) : proposals[c].eta = 0

\* What can be claimed for a proposal is covered by the tokens locked for it, but for the reward of
\* its proposer, half the threshold: the refunds of one proposal eat no more than that of another's
\* (Governor.sol: queue burns all but the threshold, _refund pays).
ClaimsCovered ==
  \A p \in Ids : proposals[p].parent = 0 /\ Plain(p) => pot[p] >= Owed(p) - threshold \div 2

\* The timelock holds exactly the transactions of the proposals that are queued and not executed,
\* each its own: none is executed twice, or lost to another proposal that queues the same action
\* (Governor.sol: _queueOrRevert, execute, cancel).
TimelockMatches ==
  LET waiting == {p \in Ids : proposals[p].eta # 0 /\ ~proposals[p].executed} IN
  /\ queuedTransactions = {Transaction(p) : p \in waiting}
  /\ \A p, q \in waiting : Transaction(p) = Transaction(q) => p = q

Forward ==
  {<<"Pending", "Active">>, <<"Succeeded", "Queued">>, <<"Queued", "Executed">>, <<"Queued", "Expired">>}
    \cup {"Active"} \X {"Canceled", "QuorumFailed", "Defeated", "Succeeded"}

\* The state of a proposal, derived from its votes, its flags and the clock, only moves forward: a
\* decision is not undone by refunds, by the proposals beside it or by time.  But a quorum that is
\* changed decides again, and a canceled parent is defeated with a child.
StatesForward ==
  [][\A p \in Ids : LET now == State(p) next == State(p)' IN
       \/ next = now \/ <<now, next>> \in Forward
       \/ quorum' # quorum
       \/ now = "Canceled" /\ next = "Defeated" /\ Children(p) # {}]_vars
=============================================================================
