--------------------------- MODULE GovernanceProofs ---------------------------
(***************************************************************************)
(* The timelock holds the transactions of the queued proposals, each its   *)
(* own, the state of a proposal moves only forward, the tokens locked for  *)
(* a proposal cover what can be claimed for it, and those of the contract  *)
(* what can be claimed for all, for any number of accounts, proposals,     *)
(* children and blocks.                                                    *)
(*                                                                         *)
(* The argument.  A proposal that has an eta is past its last block        *)
(* (StructureOK), so that nothing can be cancelled or voted on any more;   *)
(* a child has the blocks of its parent.  Proposing, voting and refunding  *)
(* are alike in what matters: they add proposals without eta, and of the   *)
(* others they change votes only while voting is open (VotesOnly); so what *)
(* the state is derived from is frozen once it is decided.                 *)
(*                                                                         *)
(* Prior votes: checkpoints ascend and none is later than this block, so   *)
(* the binary search finds the last one not after the block that is asked  *)
(* for (by induction on the length of the range), and that one has the     *)
(* votes the account had then.  Tallies: sums over the receipts, which one *)
(* vote or refund changes for one account; a receipt with tokens on it has *)
(* voted, so a vote always starts from an empty one, on every child.       *)
(*                                                                         *)
(* Claims: ClaimsCovered is not inductive, for a step changes what can be  *)
(* claimed by moving a state as well as by moving tokens.  ClaimInv says   *)
(* what must be there whatever the state (Due): all that is on a leaf      *)
(* until the parent is queued, its proposer's part from then on, less the  *)
(* half he was rewarded with.  A refund takes no more from the pot than    *)
(* from what is due.  Queueing burns the tally but the threshold: that     *)
(* leaves enough because the tally of a leaf is what is on it and what its *)
(* proposer was refunded (Leafwise), and because no other is refunded      *)
(* after it.  Families are disjoint, so one step moves one of them.        *)
(***************************************************************************)
EXTENDS Governance, SequenceTheorems, FiniteSums

\* A record with the fields of a proposal, whatever is in them.
Fields(S) ==
  [proposer : S, parent : S, action : S, startBlock : S, eta : S,
   forVotes : S, againstVotes : S, rawForVotes : S, rawAgainstVotes : S,
   canceled : S, executed : S, receipts : S]
Shaped(q) == \E S : q \in Fields(S)

\* The same proposal but for its votes and receipts.
SameProposal(q, r) ==
  /\ r.parent = q.parent /\ r.action = q.action /\ r.startBlock = q.startBlock
  /\ r.eta = q.eta /\ r.canceled = q.canceled /\ r.executed = q.executed

SameVotes(q, r) == r.forVotes = q.forVotes /\ r.againstVotes = q.againstVotes

Listed(ps) == \E S : ps \in Seq(S)
AllShaped(ps) == \A q \in DOMAIN ps : Shaped(ps[q])

\* A parent is an earlier proposal that has no parent, with the same blocks.
Parented(ps) ==
  \A q \in DOMAIN ps :
    /\ ps[q].startBlock \in Nat
    /\ ps[q].parent # 0 => /\ ps[q].parent \in DOMAIN ps
                           /\ ps[ps[q].parent].parent = 0
                           /\ ps[ps[q].parent].startBlock = ps[q].startBlock

\* Only a proposal whose vote is over has an eta, and only one with an eta was executed.
EtaOK ==
  \A p \in Ids : /\ proposals[p].eta \in Nat
                 /\ proposals[p].eta # 0 => block > EndBlock(p)
                 /\ proposals[p].executed => proposals[p].eta # 0

StructureOK ==
  /\ block \in Nat
  /\ Listed(proposals) /\ AllShaped(proposals) /\ Parented(proposals)
  /\ EtaOK

GovInv == StructureOK /\ TimelockMatches

-----------------------------------------------------------------------------
\* What proposing, voting and refunding have in common.
VotesOnly ==
  /\ block' = block /\ quorum' = quorum /\ queuedTransactions' = queuedTransactions
  /\ Listed(proposals') /\ AllShaped(proposals') /\ Parented(proposals')
  /\ Ids \subseteq Ids'
  /\ \A q \in Ids : /\ SameProposal(proposals[q], proposals'[q])
                    /\ block > EndBlock(q) => SameVotes(proposals[q], proposals'[q])
  /\ \A q \in Ids' \ Ids : /\ proposals'[q].eta = 0 /\ ~proposals'[q].executed
                           /\ proposals'[q].parent \notin Ids

\* Votes and receipts of a proposal can be anything.
LEMMA TalliesChange ==
  ASSUME NEW q, Shaped(q), NEW x, NEW y, NEW z
  PROVE  /\ LET s == [q EXCEPT !.forVotes = x, !.rawForVotes = y, !.receipts = z]
            IN Shaped(s) /\ SameProposal(q, s)
         /\ LET s == [q EXCEPT !.againstVotes = x, !.rawAgainstVotes = y, !.receipts = z]
            IN Shaped(s) /\ SameProposal(q, s)
         /\ LET s == [q EXCEPT !.receipts = z]
            IN Shaped(s) /\ SameProposal(q, s) /\ SameVotes(q, s)
<1>1. PICK S : q \in Fields(S)
  BY DEF Shaped
<1> DEFINE T == S \cup {x, y, z}
           s1 == [q EXCEPT !.forVotes = x, !.rawForVotes = y, !.receipts = z]
           s2 == [q EXCEPT !.againstVotes = x, !.rawAgainstVotes = y, !.receipts = z]
           s3 == [q EXCEPT !.receipts = z]
<1>2. s1 \in Fields(T) /\ SameProposal(q, s1)
  BY <1>1 DEF Fields, SameProposal
<1>3. s2 \in Fields(T) /\ SameProposal(q, s2)
  BY <1>1 DEF Fields, SameProposal
<1>4. s3 \in Fields(T) /\ SameProposal(q, s3) /\ SameVotes(q, s3)
  BY <1>1 DEF Fields, SameProposal, SameVotes
<1>5. Shaped(s1) /\ Shaped(s2) /\ Shaped(s3)
  BY <1>2, <1>3, <1>4 DEF Shaped
<1> QED BY <1>2, <1>3, <1>4, <1>5

\* A vote on a proposal changes nothing but its votes and receipts.
LEMMA AccountedKeeps ==
  ASSUME NEW q, Shaped(q), NEW a, NEW support, NEW amount
  PROVE  Shaped(Accounted(q, a, support, amount))
         /\ SameProposal(q, Accounted(q, a, support, amount))
<1> DEFINE r == q.receipts[a]
           diff == Sqrt(r.rawVotes + amount) - Sqrt(r.rawVotes)
           receipt == [hasVoted |-> TRUE, support |-> support, rawVotes |-> r.rawVotes + amount,
                       refunded |-> FALSE, until |-> block + VotesCancelPeriod]
           receipts == [q.receipts EXCEPT ![a] = receipt]
<1>1. CASE support
  <2>1. Accounted(q, a, support, amount)
          = [q EXCEPT !.forVotes = q.forVotes + diff, !.rawForVotes = q.rawForVotes + amount,
                      !.receipts = receipts]
    BY <1>1 DEF Accounted, Shaped, Fields
  <2> DEFINE x == q.forVotes + diff
             y == q.rawForVotes + amount
  <2>2. LET s == [q EXCEPT !.forVotes = x, !.rawForVotes = y, !.receipts = receipts]
        IN Shaped(s) /\ SameProposal(q, s)
    <3> HIDE DEF x, y, receipts
    <3> QED BY TalliesChange
  <2> QED BY <2>1, <2>2
<1>2. CASE ~support
  <2>1. Accounted(q, a, support, amount)
          = [q EXCEPT !.againstVotes = q.againstVotes + diff,
                      !.rawAgainstVotes = q.rawAgainstVotes + amount, !.receipts = receipts]
    BY <1>2 DEF Accounted, Shaped, Fields
  <2> DEFINE x == q.againstVotes + diff
             y == q.rawAgainstVotes + amount
  <2>2. LET s == [q EXCEPT !.againstVotes = x, !.rawAgainstVotes = y, !.receipts = receipts]
        IN Shaped(s) /\ SameProposal(q, s)
    <3> HIDE DEF x, y, receipts
    <3> QED BY TalliesChange
  <2> QED BY <2>1, <2>2
<1> QED BY <1>1, <1>2

\* A vote reaches a proposal, its children and its parent.
Reached(ps, p, q) == q = p \/ ps[q].parent = p \/ q = ps[p].parent

\* Nor does a vote that falls on its children and parent too.
LEMMA CastVoteKeeps ==
  ASSUME NEW ps, Listed(ps), AllShaped(ps), NEW a, NEW p \in DOMAIN ps, NEW support, NEW amount,
         CastVote(ps, a, p, support, amount)
  PROVE  /\ Listed(proposals') /\ AllShaped(proposals') /\ DOMAIN proposals' = DOMAIN ps
         /\ \A q \in DOMAIN ps : /\ SameProposal(ps[q], proposals'[q])
                                 /\ ~Reached(ps, p, q) => proposals'[q] = ps[q]
         /\ block' = block
<1> DEFINE children == {c \in DOMAIN ps : ps[c].parent = p}
           leaves == IF children = {} THEN {p} ELSE children
           root == IF ps[p].parent = 0 THEN p ELSE ps[p].parent
           each == Split(ps, p, amount)
           total == each * Cardinality(leaves)
<1>1. proposals' = [q \in DOMAIN ps |->
          IF q \in leaves THEN Accounted(ps[q], a, support, each)
          ELSE IF q = root THEN Accounted(ps[q], a, support, total)
          ELSE ps[q]]
  BY DEF CastVote
<1>2. DOMAIN proposals' = DOMAIN ps
  BY <1>1
<1>3. \A q \in DOMAIN ps : Shaped(proposals'[q]) /\ SameProposal(ps[q], proposals'[q])
  <2> SUFFICES ASSUME NEW q \in DOMAIN ps
               PROVE  Shaped(proposals'[q]) /\ SameProposal(ps[q], proposals'[q])
    OBVIOUS
  <2>1. Shaped(ps[q]) /\ SameProposal(ps[q], ps[q])
    BY DEF AllShaped, SameProposal
  <2>2. \A n : /\ Shaped(Accounted(ps[q], a, support, n))
               /\ SameProposal(ps[q], Accounted(ps[q], a, support, n))
    BY <2>1, AccountedKeeps
  <2> HIDE DEF leaves, root, each, total
  <2> QED BY <1>1, <2>1, <2>2
<1>4. \A q \in DOMAIN ps : ~Reached(ps, p, q) => proposals'[q] = ps[q]
  <2> HIDE DEF each, total
  <2> QED BY <1>1 DEF Reached
<1>5. Listed(proposals')
  <2>1. PICK n \in Nat : DOMAIN ps = 1 .. n
    BY DEF Listed
  <2>2. proposals' \in [1 .. n -> {proposals'[i] : i \in 1 .. n}]
    <3> HIDE DEF leaves, root, each, total
    <3> QED BY <1>1, <2>1
  <2> QED BY <2>2, SeqDef DEF Listed
<1>6. block' = block
  BY DEF CastVote
<1> QED BY <1>2, <1>3, <1>4, <1>5, <1>6 DEF AllShaped

\* Parents depend on nothing that a vote or a refund changes.
LEMMA ParentedKept ==
  ASSUME NEW ps, NEW qs, Parented(ps), DOMAIN qs = DOMAIN ps,
         \A q \in DOMAIN ps : SameProposal(ps[q], qs[q])
  PROVE  Parented(qs)
BY DEF Parented, SameProposal

\* A vote is a step of VotesOnly: what it counts is still open.
LEMMA VotingIsVotesOnly ==
  ASSUME StructureOK, NEW ps, Listed(ps), AllShaped(ps), Parented(ps),
         Ids \subseteq DOMAIN ps, \A q \in Ids : ps[q] = proposals[q],
         \A q \in DOMAIN ps \ Ids : ps[q].eta = 0 /\ ~ps[q].executed /\ ps[q].parent \notin Ids,
         NEW a, NEW p \in DOMAIN ps, p \in Ids => block <= EndBlock(p),
         NEW support, NEW amount, CastVote(ps, a, p, support, amount),
         UNCHANGED <<queuedTransactions, quorum>>
  PROVE  VotesOnly
<1>1. /\ Listed(proposals') /\ AllShaped(proposals') /\ DOMAIN proposals' = DOMAIN ps
      /\ \A q \in DOMAIN ps : /\ SameProposal(ps[q], proposals'[q])
                              /\ ~Reached(ps, p, q) => proposals'[q] = ps[q]
      /\ block' = block
  BY CastVoteKeeps
<1>2. Parented(proposals')
  BY <1>1, ParentedKept
<1>3. 0 \notin DOMAIN ps
  BY DEF Listed
<1>4. ASSUME NEW q \in Ids
      PROVE  /\ SameProposal(proposals[q], proposals'[q])
             /\ block > EndBlock(q) => SameVotes(proposals[q], proposals'[q])
  <2>1. SameProposal(proposals[q], proposals'[q])
    BY <1>1, <1>4
  <2>2. ASSUME block > EndBlock(q) PROVE ~Reached(ps, p, q)
    <3>1. CASE p \in Ids
      <4>1. block <= EndBlock(p) /\ p # q
        <5>1. EndBlock(p) \in Nat /\ block \in Nat
          BY <3>1, GovernorAssumption DEF StructureOK, Parented, EndBlock, Ids
        <5> QED BY <2>2, <3>1, <5>1
      <4>2. proposals[q].startBlock \in Nat /\ proposals[p].startBlock \in Nat /\ VotingPeriod \in Nat
        BY <3>1, GovernorAssumption DEF StructureOK, Parented, Ids
      <4>3. ps[q].parent # p
        BY <1>3, <2>2, <3>1, <4>1, <4>2 DEF StructureOK, Parented, EndBlock, Ids
      <4>4. q # ps[p].parent
        BY <1>3, <2>2, <3>1, <4>1, <4>2 DEF StructureOK, Parented, EndBlock, Ids
      <4> QED BY <4>1, <4>3, <4>4 DEF Reached
    <3>2. CASE p \notin Ids
      BY <1>3, <3>2 DEF Reached, StructureOK, Parented, Ids
    <3> QED BY <3>1, <3>2
  <2> QED BY <1>1, <2>1, <2>2 DEF SameVotes
<1>5. ASSUME NEW q \in Ids' \ Ids
      PROVE  proposals'[q].eta = 0 /\ ~proposals'[q].executed /\ proposals'[q].parent \notin Ids
  BY <1>1, <1>5 DEF SameProposal, Ids
<1>6. Ids \subseteq Ids'
  BY <1>1 DEF Ids
<1> QED BY <1>1, <1>2, <1>4, <1>5, <1>6 DEF VotesOnly

\* Nothing has happened to it yet.
Fresh(q) ==
  /\ q.eta = 0 /\ ~q.executed /\ ~q.canceled
  /\ q.forVotes = 0 /\ q.againstVotes = 0 /\ q.rawForVotes = 0 /\ q.rawAgainstVotes = 0
  /\ q.receipts = [v \in Account |-> NoReceipt]

\* The proposals ps are those made, and with them p and perhaps its children, all of account a.
Adds(ps, p, a) ==
  /\ Listed(ps) /\ AllShaped(ps) /\ Parented(ps)
  /\ Ids \subseteq DOMAIN ps /\ \A q \in Ids : ps[q] = proposals[q]
  /\ p \in DOMAIN ps \ Ids
  /\ \A q \in DOMAIN ps \ Ids : /\ Fresh(ps[q]) /\ ps[q].proposer = a
                                /\ ps[q].startBlock = block + VotingDelay
                                /\ ps[q].parent = IF q = p THEN 0 ELSE p

\* A vote on what was added is a matter of votes only.
LEMMA AddingIsVotesOnly ==
  ASSUME StructureOK, NEW ps, NEW p, NEW a, Adds(ps, p, a), NEW support, NEW amount,
         CastVote(ps, a, p, support, amount), UNCHANGED <<queuedTransactions, quorum>>
  PROVE  VotesOnly
<1>1. 0 \notin Ids
  BY DEF StructureOK, Listed, Ids
<1>2. \A q \in DOMAIN ps \ Ids : ps[q].eta = 0 /\ ~ps[q].executed /\ ps[q].parent \notin Ids
  BY <1>1 DEF Adds, Fresh
<1> QED BY <1>2, VotingIsVotesOnly DEF Adds

\* What New makes.
LEMMA NewFields ==
  ASSUME block \in Nat, NEW a, NEW action, NEW parent
  PROVE  LET q == New(a, action, parent)
         IN  /\ Shaped(q) /\ Fresh(q) /\ q.parent = parent /\ q.proposer = a
             /\ q.startBlock = block + VotingDelay /\ q.startBlock \in Nat
<1> DEFINE q == New(a, action, parent)
           S == {a, action, parent, block + VotingDelay, 0, FALSE, q.receipts}
<1>1. q \in Fields(S)
  BY DEF New, Fields
<1>2. Shaped(q)
  BY <1>1 DEF Shaped
<1>3. VotingDelay \in Nat
  BY GovernorAssumption
<1>4. Fresh(q) /\ q.parent = parent /\ q.proposer = a /\ q.startBlock = block + VotingDelay
  BY DEF New, Fresh
<1> QED BY <1>2, <1>3, <1>4

\* What propose adds.
LEMMA ProposeAdds ==
  ASSUME StructureOK, NEW a, NEW action
  PROVE  Adds(Append(proposals, New(a, action, 0)), Len(proposals) + 1, a)
<1> DEFINE n == Len(proposals)
           x == New(a, action, 0)
           ps == Append(proposals, x)
<1>1. PICK S : proposals \in Seq(S)
  BY DEF StructureOK, Listed
<1>2. /\ Shaped(x) /\ Fresh(x) /\ x.parent = 0 /\ x.proposer = a
      /\ x.startBlock = block + VotingDelay /\ x.startBlock \in Nat
  BY NewFields DEF StructureOK
<1> HIDE DEF x
<1>3. /\ ps \in Seq(S \cup {x}) /\ n \in Nat /\ Ids = 1 .. n /\ DOMAIN ps = 1 .. n + 1
      /\ ps[n + 1] = x /\ \A q \in Ids : ps[q] = proposals[q]
  BY <1>1, AppendProperties DEF Ids
<1> HIDE DEF ps, n
<1>4. Listed(ps) /\ AllShaped(ps)
  BY <1>2, <1>3 DEF Listed, AllShaped, StructureOK, Ids
<1>5. Parented(ps)
  BY <1>2, <1>3 DEF Parented, StructureOK, Ids
<1>6. /\ n + 1 \in DOMAIN ps /\ n + 1 \notin Ids /\ Ids \subseteq DOMAIN ps
      /\ \A q \in DOMAIN ps \ Ids : q = n + 1
  BY <1>3
<1>7. Adds(ps, n + 1, a)
  BY <1>2, <1>3, <1>4, <1>5, <1>6 DEF Adds
<1> QED BY <1>7 DEF ps, n, x

\* So is a proposal,
LEMMA ProposeIsVotesOnly ==
  ASSUME StructureOK, NEW a, NEW action, Propose(a, action)
  PROVE  VotesOnly
BY ProposeAdds, AddingIsVotesOnly DEF Propose

\* The list that proposeMultiAttribute makes of the actions.
Made(a, actions) ==
  [i \in DOMAIN actions |-> New(a, actions[i], IF i = 1 THEN 0 ELSE Len(proposals) + 1)]

\* What proposeMultiAttribute adds.
LEMMA ProposeMultiAttributeAdds ==
  ASSUME StructureOK, NEW a, NEW m \in Nat \ {0}, NEW actions \in [1 .. m -> Action]
  PROVE  Adds(proposals \o Made(a, actions), Len(proposals) + 1, a)
<1> DEFINE n == Len(proposals)
           made == [i \in DOMAIN actions |-> New(a, actions[i], IF i = 1 THEN 0 ELSE n + 1)]
           ps == proposals \o made
<1>1. PICK S : proposals \in Seq(S)
  BY DEF StructureOK, Listed
<1>2. ASSUME NEW i \in 1 .. m
      PROVE  /\ Shaped(made[i]) /\ made[i].parent = (IF i = 1 THEN 0 ELSE n + 1)
             /\ Fresh(made[i]) /\ made[i].proposer = a
             /\ made[i].startBlock = block + VotingDelay /\ made[i].startBlock \in Nat
  <2>1. made[i] = New(a, actions[i], IF i = 1 THEN 0 ELSE n + 1)
    OBVIOUS
  <2> HIDE DEF made
  <2> QED BY <2>1, NewFields DEF StructureOK
<1>3. made \in [1 .. m -> {made[i] : i \in 1 .. m}]
  OBVIOUS
<1> HIDE DEF made
<1>4. made \in Seq({made[i] : i \in 1 .. m}) /\ Len(made) = m
  BY <1>3, SeqDef
<1>5. /\ ps \in Seq(S \cup {made[i] : i \in 1 .. m}) /\ n \in Nat /\ Ids = 1 .. n
      /\ DOMAIN ps = 1 .. n + m
      /\ \A q \in Ids : ps[q] = proposals[q]
      /\ \A q \in n + 1 .. n + m : ps[q] = made[q - n]
  <2> DEFINE T == S \cup {made[i] : i \in 1 .. m}
  <2>1. proposals \in Seq(T) /\ made \in Seq(T)
    BY <1>1, <1>4, SeqMonotonic
  <2> HIDE DEF T
  <2>2. n \in Nat /\ Ids = 1 .. n
    BY <1>1 DEF Ids
  <2>3. /\ ps \in Seq(T) /\ Len(ps) = n + m
        /\ \A q \in 1 .. n + m : ps[q] = IF q <= n THEN proposals[q] ELSE made[q - n]
    BY <1>4, <2>1, ConcatProperties
  <2>4. DOMAIN ps = 1 .. n + m
    BY <2>3
  <2> HIDE DEF ps, n
  <2>5. /\ \A q \in Ids : ps[q] = proposals[q]
        /\ \A q \in n + 1 .. n + m : ps[q] = made[q - n]
    BY <2>2, <2>3
  <2>6. ps \in Seq(S \cup {made[i] : i \in 1 .. m})
    BY <2>3 DEF T
  <2> QED BY <2>2, <2>4, <2>5, <2>6
<1> HIDE DEF ps, n
<1>6. \A q \in n + 1 .. n + m :
        /\ Shaped(ps[q]) /\ ps[q].parent = (IF q = n + 1 THEN 0 ELSE n + 1)
        /\ Fresh(ps[q]) /\ ps[q].proposer = a
        /\ ps[q].startBlock = block + VotingDelay /\ ps[q].startBlock \in Nat
  <2> SUFFICES ASSUME NEW q \in n + 1 .. n + m
               PROVE  /\ Shaped(ps[q]) /\ ps[q].parent = (IF q = n + 1 THEN 0 ELSE n + 1)
                      /\ Fresh(ps[q]) /\ ps[q].proposer = a
                      /\ ps[q].startBlock = block + VotingDelay /\ ps[q].startBlock \in Nat
    OBVIOUS
  <2>1. q - n \in 1 .. m /\ (q - n = 1) = (q = n + 1)
    BY <1>5
  <2>2. ps[q] = made[q - n]
    BY <1>5
  <2>3. /\ Shaped(made[q - n]) /\ made[q - n].parent = (IF q - n = 1 THEN 0 ELSE n + 1)
        /\ Fresh(made[q - n]) /\ made[q - n].proposer = a
        /\ made[q - n].startBlock = block + VotingDelay /\ made[q - n].startBlock \in Nat
    BY <1>2, <2>1
  <2> QED BY <2>1, <2>2, <2>3
<1>7. Listed(ps) /\ AllShaped(ps)
  <2>1. \A q \in Ids : Shaped(ps[q])
    BY <1>5 DEF AllShaped, StructureOK, Ids
  <2>2. \A q \in DOMAIN ps : q \in Ids \/ q \in n + 1 .. n + m
    BY <1>5
  <2> QED BY <1>5, <1>6, <2>1, <2>2 DEF Listed, AllShaped
<1>8. n + 1 \in DOMAIN ps /\ n + 1 \notin Ids /\ Ids \subseteq DOMAIN ps
  BY <1>5
<1>9. Parented(ps)
  <2>1. ASSUME NEW q \in Ids
        PROVE  /\ ps[q].startBlock \in Nat
               /\ ps[q].parent # 0 => /\ ps[q].parent \in Ids
                                      /\ ps[ps[q].parent].parent = 0
                                      /\ ps[ps[q].parent].startBlock = ps[q].startBlock
    BY <1>5, <2>1 DEF StructureOK, Parented, Ids
  <2>2. ASSUME NEW q \in n + 1 .. n + m
        PROVE  /\ ps[q].startBlock \in Nat
               /\ ps[q].parent # 0 => /\ ps[q].parent = n + 1
                                      /\ ps[ps[q].parent].parent = 0
                                      /\ ps[ps[q].parent].startBlock = ps[q].startBlock
    BY <1>5, <1>6, <2>2
  <2> QED BY <1>5, <1>8, <2>1, <2>2 DEF Parented
<1>10. \A q \in DOMAIN ps \ Ids : q \in n + 1 .. n + m
  BY <1>5
<1>11. Adds(ps, n + 1, a)
  BY <1>5, <1>6, <1>7, <1>8, <1>9, <1>10 DEF Adds
<1> QED BY <1>11 DEF ps, n, made, Made

\* and a proposal with children,
LEMMA ProposeMultiAttributeIsVotesOnly ==
  ASSUME StructureOK, NEW a, NEW m \in Nat \ {0}, NEW actions \in [1 .. m -> Action],
         ProposeMultiAttribute(a, actions)
  PROVE  VotesOnly
<1>1. /\ CastVote(proposals \o Made(a, actions), a, Len(proposals) + 1, TRUE, threshold)
      /\ UNCHANGED <<queuedTransactions, quorum>>
  BY DEF ProposeMultiAttribute, Made
<1> QED BY <1>1, ProposeMultiAttributeAdds, AddingIsVotesOnly

\* and a vote on an existing one.
LEMMA VoteIsVotesOnly ==
  ASSUME StructureOK, NEW a, NEW p \in Ids, NEW support, NEW amount, Vote(a, p, support, amount)
  PROVE  VotesOnly
<1>1. block <= EndBlock(p)
  BY DEF Vote, State, StructureOK, Parented, EndBlock
<1>2. CastVote(proposals, a, p, support, amount) /\ UNCHANGED <<queuedTransactions, quorum>>
  BY DEF Vote
<1> QED BY <1>1, <1>2, VotingIsVotesOnly DEF StructureOK, Ids

\* Taking off a parent changes nothing but its votes and receipts,
LEMMA OnParentKeeps ==
  ASSUME NEW q, Shaped(q), NEW a, NEW x, NEW y, NEW z
  PROVE  LET s == [q EXCEPT !.receipts[a].rawVotes = x, !.receipts[a].hasVoted = y,
                            !.receipts[a].refunded = z]
         IN Shaped(s) /\ SameProposal(q, s) /\ SameVotes(q, s)
<1> DEFINE s == [q EXCEPT !.receipts[a].rawVotes = x, !.receipts[a].hasVoted = y,
                          !.receipts[a].refunded = z]
           w == s.receipts
<1>1. s = [q EXCEPT !.receipts = w]
  BY DEF Shaped, Fields
<1> HIDE DEF w, s
<1>2. Shaped(s) /\ SameProposal(q, s) /\ SameVotes(q, s)
  BY <1>1, TalliesChange
<1>3. QED BY <1>2 DEF s

\* and so does taking a vote back.
LEMMA TakenBackKeeps ==
  ASSUME StructureOK, NEW p \in Ids, NEW a
  PROVE  /\ Shaped(TakenBack(p, a)) /\ SameProposal(proposals[p], TakenBack(p, a))
         /\ RefundState(p) # "Active" => SameVotes(proposals[p], TakenBack(p, a))
<1> DEFINE q == proposals[p]
           raw == Receipt(p, a).rawVotes
           receipt == [Receipt(p, a) EXCEPT !.hasVoted = FALSE, !.rawVotes = 0, !.refunded = TRUE]
           z == [q.receipts EXCEPT ![a] = receipt]
           x1 == q.forVotes - Sqrt(raw)
           y1 == q.rawForVotes - raw
           x2 == q.againstVotes - Sqrt(raw)
           y2 == q.rawAgainstVotes - raw
<1>1. Shaped(q)
  BY DEF StructureOK, AllShaped, Ids
<1>2. TakenBack(p, a)
        = IF RefundState(p) # "Active" THEN [q EXCEPT !.receipts = z]
          ELSE IF receipt.support
          THEN [q EXCEPT !.forVotes = x1, !.rawForVotes = y1, !.receipts = z]
          ELSE [q EXCEPT !.againstVotes = x2, !.rawAgainstVotes = y2, !.receipts = z]
  <2>1. TakenBack(p, a)
          = IF RefundState(p) # "Active" THEN [q EXCEPT !.receipts[a] = receipt]
            ELSE IF receipt.support
            THEN [[q EXCEPT !.receipts[a] = receipt] EXCEPT
                    !.forVotes = @ - Sqrt(raw), !.rawForVotes = @ - raw]
            ELSE [[q EXCEPT !.receipts[a] = receipt] EXCEPT
                    !.againstVotes = @ - Sqrt(raw), !.rawAgainstVotes = @ - raw]
    BY DEF TakenBack
  <2> HIDE DEF receipt, raw, q
  <2>2. [q EXCEPT !.receipts[a] = receipt] = [q EXCEPT !.receipts = z]
    BY <1>1 DEF Shaped, Fields
  <2>3. [[q EXCEPT !.receipts[a] = receipt] EXCEPT
                    !.forVotes = @ - Sqrt(raw), !.rawForVotes = @ - raw]
          = [q EXCEPT !.forVotes = x1, !.rawForVotes = y1, !.receipts = z]
    BY <1>1 DEF Shaped, Fields
  <2>4. [[q EXCEPT !.receipts[a] = receipt] EXCEPT
                    !.againstVotes = @ - Sqrt(raw), !.rawAgainstVotes = @ - raw]
          = [q EXCEPT !.againstVotes = x2, !.rawAgainstVotes = y2, !.receipts = z]
    BY <1>1 DEF Shaped, Fields
  <2> HIDE DEF x1, x2, y1, y2, z
  <2> QED BY <2>1, <2>2, <2>3, <2>4
<1> HIDE DEF x1, x2, y1, y2, z, receipt, raw, q
<1>3. /\ LET s == [q EXCEPT !.forVotes = x1, !.rawForVotes = y1, !.receipts = z]
         IN Shaped(s) /\ SameProposal(q, s)
      /\ LET s == [q EXCEPT !.againstVotes = x2, !.rawAgainstVotes = y2, !.receipts = z]
         IN Shaped(s) /\ SameProposal(q, s)
      /\ LET s == [q EXCEPT !.receipts = z]
         IN Shaped(s) /\ SameProposal(q, s) /\ SameVotes(q, s)
  BY <1>1, TalliesChange
<1>4. /\ Shaped(TakenBack(p, a)) /\ SameProposal(q, TakenBack(p, a))
      /\ RefundState(p) # "Active" => SameVotes(q, TakenBack(p, a))
  BY <1>2, <1>3
<1> QED BY <1>4 DEF q

\* Voting is open after the start block and until the last one.
LEMMA ActiveIsOpen ==
  ASSUME NEW p, State(p) = "Active"
  PROVE  block <= EndBlock(p) /\ ~(block <= proposals[p].startBlock) /\ ~proposals[p].canceled
BY DEF State

\* A refund is a step of VotesOnly.
LEMMA RefundIsVotesOnly ==
  ASSUME StructureOK, NEW a, NEW p \in Ids, Refund(a, p)
  PROVE  VotesOnly
<1> DEFINE refunds == IF Children(p) = {} THEN {p} ELSE {c \in Children(p) : ~Receipt(c, a).refunded}
<1>1. /\ proposals' = [q \in Ids |-> IF q \in refunds THEN TakenBack(q, a)
                                     ELSE IF q = Family(p) THEN OnParent(q, a, refunds)
                                     ELSE proposals[q]]
      /\ block' = block /\ queuedTransactions' = queuedTransactions /\ quorum' = quorum
  BY DEF Refund
<1> HIDE DEF refunds
<1>2. ASSUME NEW q \in Ids
      PROVE  /\ Shaped(proposals'[q]) /\ SameProposal(proposals[q], proposals'[q])
             /\ block > EndBlock(q) => SameVotes(proposals[q], proposals'[q])
  <2>1. Shaped(proposals[q])
    BY DEF StructureOK, AllShaped, Ids
  <2>2. CASE q \in refunds
    <3>1. proposals'[q] = TakenBack(q, a)
      BY <1>1, <2>2
    <3>2. RefundState(q) = "Active" => State(q) = "Active"
      BY DEF RefundState
    <3>3. EndBlock(q) \in Nat /\ block \in Nat
      BY GovernorAssumption DEF StructureOK, Parented, EndBlock, Ids
    <3>4. block > EndBlock(q) => RefundState(q) # "Active"
      BY <3>2, <3>3, ActiveIsOpen
    <3> QED BY <3>1, <3>4, TakenBackKeeps
  <2>3. CASE q \notin refunds /\ q = Family(p)
    <3>1. proposals'[q] = OnParent(q, a, refunds)
      BY <1>1, <2>3
    <3> DEFINE x == Receipt(q, a).rawVotes - RawOn(a, refunds)
               y == x > 0
               z == x = 0
    <3>2. proposals'[q] = [proposals[q] EXCEPT !.receipts[a].rawVotes = x, !.receipts[a].hasVoted = y,
                                               !.receipts[a].refunded = z]
      BY <3>1 DEF OnParent
    <3> HIDE DEF x, y, z
    <3> DEFINE r == proposals[q]
               s == [r EXCEPT !.receipts[a].rawVotes = x, !.receipts[a].hasVoted = y,
                              !.receipts[a].refunded = z]
    <3>3. Shaped(r)
      BY <2>1
    <3>4. proposals'[q] = s
      BY <3>2
    <3> HIDE DEF r
    <3>5. Shaped(s) /\ SameProposal(r, s) /\ SameVotes(r, s)
      BY <3>3, OnParentKeeps
    <3> HIDE DEF s
    <3>6. Shaped(proposals'[q]) /\ SameProposal(r, proposals'[q]) /\ SameVotes(r, proposals'[q])
      BY <3>4, <3>5
    <3> QED BY <3>6 DEF r
  <2>4. CASE q \notin refunds /\ q # Family(p)
    BY <1>1, <2>1, <2>4 DEF SameProposal, SameVotes
  <2> QED BY <2>2, <2>3, <2>4
<1>3. Ids' = Ids /\ AllShaped(proposals')
  BY <1>1, <1>2 DEF AllShaped, Ids
<1>4. Listed(proposals')
  <2>1. PICK n \in Nat : Ids = 1 .. n
    BY DEF StructureOK, Listed, Ids
  <2>2. proposals' \in [1 .. n -> {proposals'[i] : i \in 1 .. n}]
    BY <1>1, <2>1
  <2> QED BY <2>2, SeqDef DEF Listed
<1>5. Parented(proposals')
  BY <1>2, <1>3, ParentedKept DEF StructureOK, Ids
<1> QED BY <1>1, <1>2, <1>3, <1>4, <1>5 DEF VotesOnly

-----------------------------------------------------------------------------
(* What the state of a proposal is derived from. *)

\* The family of a proposal votes in the same blocks.
LEMMA FamilyBlocks ==
  ASSUME StructureOK, NEW p \in Ids
  PROVE  /\ EndBlock(p) \in Nat /\ EndBlock(p) > proposals[p].startBlock
         /\ proposals[p].startBlock \in Nat /\ p # 0
         /\ \A c \in Children(p) : c \in Ids /\ EndBlock(c) = EndBlock(p)
BY GovernorAssumption DEF StructureOK, Listed, Parented, EndBlock, Children, Ids

\* The same state from the same votes, flags and clock.
LEMMA StateSame ==
  ASSUME StructureOK, NEW p \in Ids, block' = block, quorum' = quorum,
         Children(p)' = Children(p), SameProposal(proposals[p], proposals'[p]),
         \A q \in {p} \cup Children(p) : block > EndBlock(q) => SameVotes(proposals[q], proposals'[q])
  PROVE  State(p)' = State(p)
<1>1. EndBlock(p)' = EndBlock(p)
  BY DEF SameProposal, EndBlock
<1>2. EndBlock(p) \in Nat /\ block \in Nat /\ \A c \in Children(p) : EndBlock(c) = EndBlock(p)
  BY FamilyBlocks DEF StructureOK
<1>3. CASE block > EndBlock(p)
  <2>1. \A q \in {p} \cup Children(p) : SameVotes(proposals[q], proposals'[q])
    BY <1>2, <1>3
  <2>2. LosesChild(p)' = LosesChild(p)
    BY <2>1 DEF LosesChild, SameVotes
  <2> QED BY <1>1, <2>1, <2>2 DEF State, SameProposal, SameVotes
<1>4. CASE ~(block > EndBlock(p))
  <2>1. block <= EndBlock(p)
    BY <1>2, <1>4
  <2>2. block' = block /\ ~(block' > EndBlock(p)') /\ block' <= EndBlock(p)'
    BY <1>1, <1>4, <2>1
  <2> QED BY <1>4, <2>1, <2>2 DEF State, SameProposal
<1> QED BY <1>3, <1>4

\* New proposals are no children of the old ones.
LEMMA ChildrenKept ==
  ASSUME VotesOnly, NEW p \in Ids
  PROVE  Children(p)' = Children(p)
BY DEF VotesOnly, Children, SameProposal, Ids

\* Votes change only where the tallies decide nothing yet, so no state changes.
LEMMA VotesOnlyKeepsState ==
  ASSUME StructureOK, VotesOnly
  PROVE  \A p \in Ids : State(p)' = State(p)
<1> SUFFICES ASSUME NEW p \in Ids PROVE State(p)' = State(p)
  OBVIOUS
<1>1. Children(p)' = Children(p)
  BY ChildrenKept
<1>2. Children(p) \subseteq Ids
  BY DEF Children
<1> QED BY <1>1, <1>2, StateSame DEF VotesOnly

\* VotesOnly keeps the invariant.
LEMMA VotesOnlyKeepsInv ==
  ASSUME GovInv, VotesOnly
  PROVE  GovInv'
<1> DEFINE waiting == {p \in Ids : proposals[p].eta # 0 /\ ~proposals[p].executed}
<1>1. EtaOK'
  <2> SUFFICES ASSUME NEW p \in Ids'
               PROVE  /\ proposals'[p].eta \in Nat
                      /\ proposals'[p].eta # 0 => block' > EndBlock(p)'
                      /\ proposals'[p].executed => proposals'[p].eta # 0
    BY DEF EtaOK
  <2>1. CASE p \in Ids
    BY <2>1 DEF VotesOnly, GovInv, StructureOK, EtaOK, SameProposal, EndBlock
  <2>2. CASE p \notin Ids
    BY <2>2 DEF VotesOnly
  <2> QED BY <2>1, <2>2
<1>2. StructureOK'
  BY <1>1 DEF VotesOnly, GovInv, StructureOK
<1>3. waiting' = waiting /\ \A p \in waiting : Transaction(p)' = Transaction(p)
  BY DEF VotesOnly, SameProposal, Transaction
<1>4. TimelockMatches'
  <2> HIDE DEF waiting
  <2>1. queuedTransactions = {Transaction(p) : p \in waiting}
        /\ \A p, q \in waiting : Transaction(p) = Transaction(q) => p = q
    BY DEF GovInv, TimelockMatches, waiting
  <2>2. queuedTransactions' = queuedTransactions
    BY DEF VotesOnly
  <2>3. queuedTransactions' = {Transaction(p)' : p \in waiting'}
        /\ \A p, q \in waiting' : Transaction(p)' = Transaction(q)' => p = q
    BY <1>3, <2>1, <2>2
  <2> QED BY <2>3 DEF TimelockMatches, waiting
<1> QED BY <1>2, <1>4 DEF GovInv

-----------------------------------------------------------------------------
(* The decisions. *)

\* Flags and eta can be anything.
LEMMA FlagsChange ==
  ASSUME NEW q, Shaped(q), NEW x
  PROVE  /\ Shaped([q EXCEPT !.eta = x]) /\ Shaped([q EXCEPT !.executed = x])
         /\ Shaped([q EXCEPT !.canceled = x])
<1>1. PICK S : q \in Fields(S)
  BY DEF Shaped
<1>2. /\ [q EXCEPT !.eta = x] \in Fields(S \cup {x}) /\ [q EXCEPT !.executed = x] \in Fields(S \cup {x})
      /\ [q EXCEPT !.canceled = x] \in Fields(S \cup {x})
  BY <1>1 DEF Fields
<1> QED BY <1>2 DEF Shaped

\* The same proposal but for its flags and its eta.
SameBallot(q, r) ==
  r.parent = q.parent /\ r.action = q.action /\ r.startBlock = q.startBlock /\ SameVotes(q, r)

\* One proposal is decided on, the others are left alone.
LEMMA DecisionKeepsStructure ==
  ASSUME StructureOK, NEW p \in Ids, NEW r, Shaped(r), SameBallot(proposals[p], r),
         proposals' = [proposals EXCEPT ![p] = r], block' = block,
         r.eta \in Nat, r.eta # 0 => block > EndBlock(p), r.executed => r.eta # 0
  PROVE  StructureOK' /\ Ids' = Ids /\ \A q \in Ids : Children(q)' = Children(q)
<1>1. /\ Ids' = Ids /\ proposals'[p] = r
      /\ \A q \in Ids : q # p => proposals'[q] = proposals[q]
  BY DEF StructureOK, Listed, Ids
<1>2. Listed(proposals')
  <2>1. PICK S : proposals \in Seq(S)
    BY DEF StructureOK, Listed
  <2>2. proposals \in Seq(S \cup {r})
    BY <2>1, SeqMonotonic
  <2>3. proposals' \in Seq(S \cup {r})
    BY <2>2 DEF Ids
  <2> QED BY <2>3 DEF Listed
<1>3. AllShaped(proposals')
  BY <1>1 DEF StructureOK, AllShaped, Ids
<1>4. Parented(proposals')
  BY <1>1 DEF StructureOK, Parented, Ids, SameBallot
<1>5. EtaOK'
  BY <1>1 DEF StructureOK, EtaOK, EndBlock, SameBallot
<1>6. \A q \in Ids : Children(q)' = Children(q)
  BY <1>1 DEF Children, SameBallot
<1> QED BY <1>1, <1>2, <1>3, <1>4, <1>5, <1>6 DEF StructureOK

\* The state of every proposal but p, and of p as far as its votes go.
LEMMA DecisionKeepsStates ==
  ASSUME StructureOK, NEW p \in Ids, NEW r, SameBallot(proposals[p], r),
         proposals' = [proposals EXCEPT ![p] = r], block' = block, quorum' = quorum,
         \A q \in Ids : Children(q)' = Children(q)
  PROVE  /\ \A q \in Ids : q # p => State(q)' = State(q)
         /\ EndBlock(p)' = EndBlock(p) /\ LosesChild(p)' = LosesChild(p)
<1>1. /\ Ids' = Ids /\ proposals'[p] = r
      /\ \A q \in Ids : q # p => proposals'[q] = proposals[q]
  BY DEF StructureOK, Listed, Ids
<1>2. \A q \in Ids : SameVotes(proposals[q], proposals'[q])
  BY <1>1 DEF SameBallot, SameVotes
<1>3. ASSUME NEW q \in Ids, q # p PROVE State(q)' = State(q)
  <2>1. SameProposal(proposals[q], proposals'[q])
    BY <1>1, <1>3 DEF SameProposal
  <2>2. Children(q) \subseteq Ids
    BY DEF Children
  <2> QED BY <1>2, <1>3, <2>1, <2>2, StateSame
<1>4. EndBlock(p)' = EndBlock(p)
  BY <1>1 DEF EndBlock, SameBallot
<1>5. LosesChild(p)' = LosesChild(p)
  <2>1. Children(p) \subseteq Ids /\ Children(p)' = Children(p)
    BY DEF Children
  <2> QED BY <1>2, <2>1 DEF LosesChild, SameVotes
<1> QED BY <1>3, <1>4, <1>5

\* Queueing adds a transaction to the timelock that no other proposal has there.
LEMMA QueueKeeps ==
  ASSUME GovInv, NEW p \in Ids, Queue(p)
  PROVE  GovInv' /\ \A q \in Ids : State(q)' = State(q) \/ <<State(q), State(q)'>> \in Forward
<1> DEFINE q == proposals[p]
           tx == [action |-> q.action, eta |-> block + Delay]
           r == [q EXCEPT !.eta = tx.eta]
<1>1. /\ State(p) = "Succeeded" /\ tx \notin queuedTransactions
      /\ queuedTransactions' = queuedTransactions \cup {tx}
      /\ proposals' = [proposals EXCEPT ![p].eta = tx.eta] /\ block' = block /\ quorum' = quorum
  BY DEF Queue, QueueOrRevert, QueueTransaction
<1>2. Shaped(q) /\ q.eta \in Nat /\ block \in Nat /\ EndBlock(p) \in Nat
  BY FamilyBlocks DEF GovInv, StructureOK, AllShaped, EtaOK, Ids
<1>3. /\ block > EndBlock(p) /\ ~LosesChild(p) /\ ~q.canceled /\ q.eta = 0
      /\ ~(q.parent = 0 /\ q.forVotes + q.againstVotes < quorum)
      /\ ~(q.forVotes <= q.againstVotes) /\ ~(block <= q.startBlock)
  BY <1>1, <1>2 DEF State
<1>4. ~q.executed
  BY <1>3 DEF GovInv, StructureOK, EtaOK
<1>5. tx.eta \in Nat /\ tx.eta # 0 /\ tx.eta > block
  BY <1>2, TimelockAssumption
<1>6. /\ Shaped(r) /\ SameBallot(q, r) /\ r.eta = tx.eta /\ r.executed = q.executed
      /\ r.canceled = q.canceled
  <2> HIDE DEF q, tx
  <2>1. Shaped(r)
    BY <1>2, FlagsChange
  <2> QED BY <1>2, <2>1 DEF SameBallot, SameVotes, Shaped, Fields
<1>7. proposals' = [proposals EXCEPT ![p] = r]
  BY <1>1
<1> HIDE DEF r, tx
<1>8. StructureOK' /\ Ids' = Ids /\ \A x \in Ids : Children(x)' = Children(x)
  BY <1>1, <1>3, <1>4, <1>5, <1>6, <1>7, DecisionKeepsStructure DEF GovInv
<1>9. proposals'[p] = r /\ \A x \in Ids : x # p => proposals'[x] = proposals[x]
  BY <1>7 DEF Ids
<1>10. TimelockMatches'
  <2> DEFINE waiting == {x \in Ids : proposals[x].eta # 0 /\ ~proposals[x].executed}
  <2>1. p \notin waiting /\ waiting' = waiting \cup {p}
    BY <1>3, <1>4, <1>5, <1>6, <1>8, <1>9
  <2>2. tx.action = q.action
    BY DEF tx
  <2>3. Transaction(p)' = tx /\ \A x \in waiting : Transaction(x)' = Transaction(x)
    BY <1>6, <1>9, <2>1 DEF Transaction, tx, SameBallot
  <2> HIDE DEF waiting
  <2>4. queuedTransactions = {Transaction(x) : x \in waiting}
        /\ \A x, y \in waiting : Transaction(x) = Transaction(y) => x = y
    BY DEF GovInv, TimelockMatches, waiting
  <2>5. queuedTransactions' = {Transaction(x)' : x \in waiting'}
    BY <1>1, <2>1, <2>3, <2>4
  <2>6. \A x, y \in waiting' : Transaction(x)' = Transaction(y)' => x = y
    BY <1>1, <2>1, <2>3, <2>4
  <2> QED BY <2>5, <2>6 DEF TimelockMatches, waiting
<1>11. /\ \A x \in Ids : x # p => State(x)' = State(x)
       /\ EndBlock(p)' = EndBlock(p) /\ LosesChild(p)' = LosesChild(p)
  BY <1>1, <1>6, <1>7, <1>8, DecisionKeepsStates DEF GovInv
<1>12. State(p)' = "Queued"
  <2>1. /\ ~(block' > EndBlock(p)' /\ LosesChild(p)') /\ ~(block' <= EndBlock(p)')
    BY <1>1, <1>2, <1>3, <1>11
  <2>2. ~(block' >= proposals'[p].eta + GracePeriod)
    BY <1>1, <1>2, <1>5, <1>6, <1>9, TimelockAssumption
  <2> QED BY <1>1, <1>3, <1>4, <1>5, <1>6, <1>9, <2>1, <2>2 DEF State, SameBallot, SameVotes
<1> QED BY <1>1, <1>8, <1>10, <1>11, <1>12 DEF GovInv, Forward

\* Executing takes out the transaction of the proposal and no other.
LEMMA ExecuteKeeps ==
  ASSUME GovInv, NEW p \in Ids, Execute(p)
  PROVE  GovInv' /\ \A q \in Ids : State(q)' = State(q) \/ <<State(q), State(q)'>> \in Forward
<1> DEFINE q == proposals[p]
           r == [q EXCEPT !.executed = TRUE]
<1>1. /\ State(p) = "Queued" /\ queuedTransactions' = queuedTransactions \ {Transaction(p)}
      /\ proposals' = [proposals EXCEPT ![p].executed = TRUE] /\ block' = block /\ quorum' = quorum
  BY DEF Execute, ExecuteTransaction, daoVars
<1>2. Shaped(q) /\ q.eta \in Nat /\ block \in Nat /\ EndBlock(p) \in Nat
  BY FamilyBlocks DEF GovInv, StructureOK, AllShaped, EtaOK, Ids
<1>3. /\ block > EndBlock(p) /\ ~LosesChild(p) /\ ~q.canceled /\ q.eta # 0 /\ ~q.executed
      /\ ~(q.parent = 0 /\ q.forVotes + q.againstVotes < quorum)
      /\ ~(q.forVotes <= q.againstVotes) /\ ~(block <= q.startBlock)
  BY <1>1, <1>2 DEF State
<1>4. /\ Shaped(r) /\ SameBallot(q, r) /\ r.eta = q.eta /\ r.executed /\ r.canceled = q.canceled
  <2> HIDE DEF q
  <2>1. Shaped(r)
    BY <1>2, FlagsChange
  <2> QED BY <1>2, <2>1 DEF SameBallot, SameVotes, Shaped, Fields
<1>5. proposals' = [proposals EXCEPT ![p] = r]
  BY <1>1
<1> HIDE DEF r
<1>6. StructureOK' /\ Ids' = Ids /\ \A x \in Ids : Children(x)' = Children(x)
  BY <1>1, <1>2, <1>3, <1>4, <1>5, DecisionKeepsStructure DEF GovInv
<1>7. proposals'[p] = r /\ \A x \in Ids : x # p => proposals'[x] = proposals[x]
  BY <1>5 DEF Ids
<1>8. TimelockMatches'
  <2> DEFINE waiting == {x \in Ids : proposals[x].eta # 0 /\ ~proposals[x].executed}
  <2>1. p \in waiting /\ waiting' = waiting \ {p}
    BY <1>3, <1>4, <1>6, <1>7
  <2>2. \A x \in waiting' : Transaction(x)' = Transaction(x)
    BY <1>7, <2>1 DEF Transaction
  <2> HIDE DEF waiting
  <2>3. queuedTransactions = {Transaction(x) : x \in waiting}
        /\ \A x, y \in waiting : Transaction(x) = Transaction(y) => x = y
    BY DEF GovInv, TimelockMatches, waiting
  <2>4. queuedTransactions' = {Transaction(x)' : x \in waiting'}
    BY <1>1, <2>1, <2>2, <2>3
  <2>5. \A x, y \in waiting' : Transaction(x)' = Transaction(y)' => x = y
    BY <2>1, <2>2, <2>3
  <2> QED BY <2>4, <2>5 DEF TimelockMatches, waiting
<1>9. /\ \A x \in Ids : x # p => State(x)' = State(x)
      /\ EndBlock(p)' = EndBlock(p) /\ LosesChild(p)' = LosesChild(p)
  BY <1>1, <1>4, <1>5, <1>6, DecisionKeepsStates DEF GovInv
<1>10. State(p)' = "Executed"
  <2>1. /\ ~(block' > EndBlock(p)' /\ LosesChild(p)') /\ ~(block' <= EndBlock(p)')
    BY <1>1, <1>2, <1>3, <1>9
  <2> QED BY <1>1, <1>3, <1>4, <1>7, <2>1 DEF State, SameBallot, SameVotes
<1> QED BY <1>1, <1>6, <1>8, <1>9, <1>10 DEF GovInv, Forward

\* Nothing that is cancelled was queued.
LEMMA CancelKeeps ==
  ASSUME GovInv, NEW a, NEW p \in Ids, Cancel(a, p)
  PROVE  GovInv' /\ \A q \in Ids : State(q)' = State(q) \/ <<State(q), State(q)'>> \in Forward
<1> DEFINE q == proposals[p]
           r == [q EXCEPT !.canceled = TRUE]
<1>1. /\ State(p) = "Active" /\ queuedTransactions' = queuedTransactions \ {Transaction(p)}
      /\ proposals' = [proposals EXCEPT ![p].canceled = TRUE] /\ block' = block /\ quorum' = quorum
  BY DEF Cancel, CancelTransaction, daoVars
<1>2. Shaped(q) /\ q.eta \in Nat /\ block \in Nat /\ EndBlock(p) \in Nat
  BY FamilyBlocks DEF GovInv, StructureOK, AllShaped, EtaOK, Ids
<1>3. block <= EndBlock(p) /\ q.eta = 0 /\ ~q.executed
  <2>1. block <= EndBlock(p)
    BY <1>1, ActiveIsOpen
  <2> QED BY <1>2, <2>1 DEF GovInv, StructureOK, EtaOK
<1>4. /\ Shaped(r) /\ SameBallot(q, r) /\ r.eta = q.eta /\ r.executed = q.executed /\ r.canceled
  <2> HIDE DEF q
  <2>1. Shaped(r)
    BY <1>2, FlagsChange
  <2> QED BY <1>2, <2>1 DEF SameBallot, SameVotes, Shaped, Fields
<1>5. proposals' = [proposals EXCEPT ![p] = r]
  BY <1>1
<1> HIDE DEF r
<1>6. StructureOK' /\ Ids' = Ids /\ \A x \in Ids : Children(x)' = Children(x)
  BY <1>1, <1>2, <1>3, <1>4, <1>5, DecisionKeepsStructure DEF GovInv
<1>7. proposals'[p] = r /\ \A x \in Ids : x # p => proposals'[x] = proposals[x]
  BY <1>5 DEF Ids
<1>8. TimelockMatches'
  <2> DEFINE waiting == {x \in Ids : proposals[x].eta # 0 /\ ~proposals[x].executed}
  <2>1. waiting' = waiting /\ \A x \in waiting : proposals[x].eta # 0
    BY <1>3, <1>4, <1>6, <1>7
  <2>2. p \notin waiting
    BY <1>3
  <2>3. \A x \in waiting : Transaction(x)' = Transaction(x) /\ Transaction(x) # Transaction(p)
    BY <1>3, <1>7, <2>1, <2>2 DEF Transaction
  <2> HIDE DEF waiting
  <2>4. queuedTransactions = {Transaction(x) : x \in waiting}
        /\ \A x, y \in waiting : Transaction(x) = Transaction(y) => x = y
    BY DEF GovInv, TimelockMatches, waiting
  <2>5. queuedTransactions' = {Transaction(x)' : x \in waiting'}
    BY <1>1, <2>1, <2>3, <2>4
  <2>6. \A x, y \in waiting' : Transaction(x)' = Transaction(y)' => x = y
    BY <2>1, <2>3, <2>4
  <2> QED BY <2>5, <2>6 DEF TimelockMatches, waiting
<1>9. /\ \A x \in Ids : x # p => State(x)' = State(x)
      /\ EndBlock(p)' = EndBlock(p)
  BY <1>1, <1>4, <1>5, <1>6, DecisionKeepsStates DEF GovInv
<1>10. State(p)' = "Canceled"
  <2>1. ~(block' > EndBlock(p)')
    BY <1>1, <1>2, <1>3, <1>9
  <2> QED BY <1>4, <1>7, <2>1 DEF State
<1> QED BY <1>1, <1>6, <1>8, <1>9, <1>10 DEF GovInv, Forward

-----------------------------------------------------------------------------
(* Time. *)

\* A block moves a state only forward.
LEMMA MineBlockKeeps ==
  ASSUME GovInv, MineBlock, UNCHANGED <<queuedTransactions, govVars>>
  PROVE  /\ GovInv'
         /\ \A p \in Ids : \/ State(p)' = State(p) \/ <<State(p), State(p)'>> \in Forward
                           \/ State(p) = "Canceled" /\ State(p)' = "Defeated" /\ Children(p) # {}
<1>1. /\ block \in Nat /\ block' = block + 1 /\ proposals' = proposals /\ quorum' = quorum
      /\ queuedTransactions' = queuedTransactions
  BY DEF MineBlock, GovInv, StructureOK, govVars
<1>2. GovInv'
  <2>1. EtaOK'
    <3>1. \A p \in Ids : EndBlock(p) \in Nat
      BY FamilyBlocks DEF GovInv
    <3> QED BY <1>1, <3>1 DEF GovInv, StructureOK, EtaOK, EndBlock, Ids
  <2>2. StructureOK'
    BY <1>1, <2>1 DEF GovInv, StructureOK
  <2>3. TimelockMatches'
    BY <1>1 DEF GovInv, TimelockMatches, Ids, Transaction
  <2> QED BY <2>2, <2>3 DEF GovInv
<1>3. ASSUME NEW p \in Ids
      PROVE  \/ State(p)' = State(p) \/ <<State(p), State(p)'>> \in Forward
             \/ State(p) = "Canceled" /\ State(p)' = "Defeated" /\ Children(p) # {}
  <2> DEFINE q == proposals[p]
  <2>1. /\ EndBlock(p)' = EndBlock(p) /\ LosesChild(p)' = LosesChild(p) /\ proposals'[p] = q
    BY <1>1 DEF EndBlock, LosesChild, Children, Ids
  <2>2. /\ EndBlock(p) \in Nat /\ q.startBlock \in Nat /\ EndBlock(p) > q.startBlock
    BY FamilyBlocks DEF GovInv
  <2>3. q.eta \in Nat /\ (q.eta # 0 => block > EndBlock(p)) /\ (q.executed => q.eta # 0)
    BY DEF GovInv, StructureOK, EtaOK
  <2>4. LosesChild(p) => Children(p) # {}
    BY DEF LosesChild
  <2> HIDE DEF q
  <2>5. CASE block > EndBlock(p)
    <3>1. block' > EndBlock(p) /\ ~(block <= q.startBlock) /\ ~(block' <= q.startBlock)
          /\ ~(block <= EndBlock(p)) /\ ~(block' <= EndBlock(p))
      BY <1>1, <2>2, <2>5
    <3>2. CASE block >= q.eta + GracePeriod \/ ~(block' >= q.eta + GracePeriod)
      <4>1. (block' >= q.eta + GracePeriod) = (block >= q.eta + GracePeriod)
        BY <1>1, <2>3, <3>2, TimelockAssumption
      <4> QED BY <1>1, <2>1, <2>5, <3>1, <4>1 DEF State, q
    <3>3. CASE ~(block >= q.eta + GracePeriod) /\ block' >= q.eta + GracePeriod
      BY <1>1, <2>1, <2>5, <3>1, <3>3 DEF State, q, Forward
    <3> QED BY <3>2, <3>3
  <2>6. CASE block <= EndBlock(p)
    <3>1. q.eta = 0 /\ ~q.executed /\ ~(block > EndBlock(p))
      BY <1>1, <2>2, <2>3, <2>6
    <3>2. CASE block' <= EndBlock(p)
      <4>1. ~(block' > EndBlock(p)) /\ (block' <= q.startBlock => block <= q.startBlock)
        BY <1>1, <2>2, <3>2
      <4> QED BY <1>1, <2>1, <2>6, <3>1, <3>2, <4>1 DEF State, q, Forward
    <3>3. CASE block' > EndBlock(p)
      <4>1. ~(block' <= EndBlock(p)) /\ ~(block <= q.startBlock) /\ ~(block' <= q.startBlock)
        BY <1>1, <2>2, <2>6, <3>3
      <4>2. State(p) = IF q.canceled THEN "Canceled" ELSE "Active"
        BY <2>6, <3>1, <4>1 DEF State, q
      <4>3. State(p)' = IF LosesChild(p) THEN "Defeated"
                        ELSE IF q.canceled THEN "Canceled"
                        ELSE IF q.parent = 0 /\ q.forVotes + q.againstVotes < quorum THEN "QuorumFailed"
                        ELSE IF q.forVotes <= q.againstVotes THEN "Defeated" ELSE "Succeeded"
        BY <1>1, <2>1, <3>1, <3>3, <4>1 DEF State, q
      <4> QED BY <2>4, <4>2, <4>3 DEF Forward
    <3> QED BY <1>1, <2>2, <3>2, <3>3
  <2> QED BY <1>1, <2>2, <2>5, <2>6
<1> QED BY <1>2, <1>3

-----------------------------------------------------------------------------
(* All the steps. *)

MovesForward ==
  \A p \in Ids : \/ State(p)' = State(p)
                 \/ <<State(p), State(p)'>> \in Forward
                 \/ quorum' # quorum
                 \/ State(p) = "Canceled" /\ State(p)' = "Defeated" /\ Children(p) # {}

\* The token's own calls and the guardian's settings.
LEMMA QuietKeeps ==
  ASSUME GovInv, UNCHANGED <<block, proposals, queuedTransactions>>
  PROVE  GovInv' /\ MovesForward
<1>1. GovInv'
  BY DEF GovInv, StructureOK, EtaOK, EndBlock, TimelockMatches, Transaction, Ids
<1>2. quorum' = quorum => \A p \in Ids : State(p)' = State(p)
  BY DEF State, LosesChild, Children, EndBlock, Ids
<1> QED BY <1>1, <1>2 DEF MovesForward

\* The steps of the token change no proposal; only time moves them.
LEMMA DaoKeeps ==
  ASSUME GovInv, DaoNext, UNCHANGED <<queuedTransactions, govVars>>
  PROVE  GovInv' /\ MovesForward
<1>1. CASE MineBlock
  BY <1>1, MineBlockKeeps DEF MovesForward
<1>2. ASSUME NEW to \in Account, NEW n \in TokenAmount, Transfer(to, n)
      PROVE  block' = block
  BY <1>2 DEF Transfer, TokenCall
<1>3. ASSUME NEW a \in Account, NEW to \in Delegatee, Delegate(a, to)
      PROVE  block' = block
  BY <1>3 DEF Delegate, TokenCall
<1>4. ASSUME NEW n \in TokenAmount, AddToTotalSupply(n)
      PROVE  block' = block
  BY <1>4 DEF AddToTotalSupply, TokenCall
<1>5. CASE block' = block
  BY <1>5, QuietKeeps DEF govVars
<1> QED BY <1>1, <1>2, <1>3, <1>4, <1>5 DEF DaoNext

\* Voting, proposing and refunding keep the invariant and every state.
LEMMA VotingKeeps ==
  ASSUME GovInv, VotesOnly
  PROVE  GovInv' /\ MovesForward
<1>1. StructureOK
  BY DEF GovInv
<1> QED BY <1>1, VotesOnlyKeepsInv, VotesOnlyKeepsState DEF MovesForward

\* So does every step.
LEMMA NextKeeps ==
  ASSUME GovInv, [Next]_vars
  PROVE  GovInv' /\ MovesForward
<1>1. StructureOK
  BY DEF GovInv
<1>2. CASE DaoNext /\ UNCHANGED <<queuedTransactions, govVars>>
  BY <1>2, DaoKeeps
<1>3. ASSUME NEW a \in Account, NEW x \in Action, Propose(a, x)
      PROVE  GovInv' /\ MovesForward
  BY <1>1, <1>3, ProposeIsVotesOnly, VotingKeeps
<1>4. ASSUME NEW a \in Account, NEW n \in 1 .. MaxProposals, NEW actions \in [1 .. n -> Action],
             ProposeMultiAttribute(a, actions)
      PROVE  GovInv' /\ MovesForward
  <2>1. n \in Nat \ {0}
    BY GovernorAssumption
  <2>2. VotesOnly
    BY <1>1, <1>4, <2>1, ProposeMultiAttributeIsVotesOnly
  <2> QED BY <2>2, VotingKeeps
<1>5. ASSUME NEW a \in Account, NEW p \in Ids, NEW support \in BOOLEAN, NEW n \in VoteAmount,
             Vote(a, p, support, n)
      PROVE  GovInv' /\ MovesForward
  <2>1. VotesOnly
    BY <1>1, <1>5, VoteIsVotesOnly
  <2> QED BY <2>1, VotingKeeps
<1>6. ASSUME NEW a \in Account, NEW p \in Ids, Refund(a, p)
      PROVE  GovInv' /\ MovesForward
  BY <1>1, <1>6, RefundIsVotesOnly, VotingKeeps
<1>7. ASSUME NEW a \in Account, NEW p \in Ids, Cancel(a, p)
      PROVE  GovInv' /\ MovesForward
  BY <1>7, CancelKeeps DEF MovesForward
<1>8. ASSUME NEW p \in Ids, Queue(p)
      PROVE  GovInv' /\ MovesForward
  BY <1>8, QueueKeeps DEF MovesForward
<1>9. ASSUME NEW p \in Ids, Execute(p)
      PROVE  GovInv' /\ MovesForward
  BY <1>9, ExecuteKeeps DEF MovesForward
<1>10. ASSUME NEW q \in Quorum, NEW t \in Threshold, Set(q, t)
       PROVE  GovInv' /\ MovesForward
  BY <1>10, QuietKeeps DEF Set
<1>11. CASE UNCHANGED vars
  BY <1>11, QuietKeeps DEF vars, daoVars, govVars
<1>12. CASE Next
  BY <1>2, <1>3, <1>4, <1>5, <1>6, <1>7, <1>8, <1>9, <1>10, <1>12 DEF Next
<1> QED BY <1>11, <1>12

\* It holds before any proposal.
LEMMA InitGovInv == Init => GovInv
<1> SUFFICES ASSUME Init PROVE GovInv
  OBVIOUS
<1>1. proposals = <<>> /\ queuedTransactions = {} /\ block = 1
  BY DEF Init, GovInit, DaoInit
<1>2. proposals \in Seq({}) /\ Ids = {}
  BY <1>1 DEF Ids
<1> QED BY <1>1, <1>2 DEF GovInv, StructureOK, Listed, AllShaped, Parented, EtaOK, TimelockMatches, Ids

\* The inductive invariant of the governor.
THEOREM GovernanceInvariant == Spec => []GovInv
<1>1. GovInv /\ [Next]_vars => GovInv'
  BY NextKeeps
<1> QED BY <1>1, InitGovInv, PTL DEF Spec

\* TimelockMatches: the timelock holds the transactions of the queued proposals, each its own
\* (_queueOrRevert, execute, cancel).
THEOREM TimelockAlwaysMatches == Spec => []TimelockMatches
<1>1. GovInv => TimelockMatches
  BY DEF GovInv
<1> QED BY <1>1, GovernanceInvariant, PTL

\* StatesForward: the state of a proposal is not undone by refunds, by the proposals beside it or by
\* time (state).
THEOREM ProposalsMoveForward == Spec => StatesForward
<1> DEFINE Steps ==
      \A p \in Ids : LET now == State(p) next == State(p)' IN
       \/ next = now \/ <<now, next>> \in Forward
       \/ quorum' # quorum
       \/ now = "Canceled" /\ next = "Defeated" /\ Children(p) # {}
<1>1. GovInv /\ [Next]_vars => Steps
  BY NextKeeps DEF MovesForward
<1>2. StatesForward <=> [][Steps]_vars
  BY PTL DEF StatesForward
<1> HIDE DEF Steps
<1> QED BY <1>1, <1>2, GovernanceInvariant, PTL DEF Spec

-----------------------------------------------------------------------------
(* The votes at an earlier block. *)

\* Checkpoints of ascending blocks, none after this one.
Ordered(cps, now) ==
  /\ \E S : cps \in Seq([fromBlock : Nat, votes : S])
  /\ \A i, j \in DOMAIN cps : i < j => cps[i].fromBlock < cps[j].fromBlock
  /\ \A i \in DOMAIN cps : cps[i].fromBlock <= now

\* By these checkpoints the votes at the end of block b are v: those of the last one that is not
\* after b.
VotesAt(cps, b, v) ==
  \/ v = 0 /\ \A i \in DOMAIN cps : cps[i].fromBlock > b
  \/ \E i \in DOMAIN cps : /\ v = cps[i].votes /\ cps[i].fromBlock <= b
                           /\ \A j \in DOMAIN cps : j > i => cps[j].fromBlock > b

\* What the checkpoints of an account have to do with the votes it ended each block with.
Exact(cps, votes, now) ==
  /\ Ordered(cps, now)
  /\ \E S : votes \in Seq(S)
  /\ Len(votes) = now - 1
  /\ \A b \in 1 .. now - 1 : VotesAt(cps, b, votes[b])

VotesInv == block \in Nat \ {0} /\ \A a \in Address : Exact(checkpoints[a], past[a], block)

\* One round of the search of getPriorVotes, which goes on by g.
Round(cps, b, g, range) ==
  LET lower == range[1]
      upper == range[2]
      center == upper - (upper - lower) \div 2
  IN IF upper <= lower THEN cps[lower].votes
     ELSE IF cps[center].fromBlock = b THEN cps[center].votes
     ELSE IF cps[center].fromBlock < b THEN g[<<center, upper>>]
     ELSE g[<<lower, center - 1>>]

\* g is the search among these checkpoints.
IsSearch(cps, b, g) ==
  g = [range \in (1 .. Len(cps)) \X (1 .. Len(cps)) |-> Round(cps, b, g, range)]

\* g is the search for ranges whose ends are at most n apart.
IsSearchUpTo(n, cps, b, g) ==
  g = [range \in (1 .. Len(cps)) \X (1 .. Len(cps)) |->
         IF range[2] - range[1] > n THEN 0 ELSE Round(cps, b, g, range)]

\* The shape of checkpoints.
LEMMA OrderedShape ==
  ASSUME NEW cps, NEW now, Ordered(cps, now)
  PROVE  /\ Len(cps) \in Nat /\ DOMAIN cps = 1 .. Len(cps) /\ (cps = <<>> <=> Len(cps) = 0)
         /\ \A i \in 1 .. Len(cps) : cps[i].fromBlock \in Nat
<1>1. PICK S : cps \in Seq([fromBlock : Nat, votes : S])
  BY DEF Ordered
<1> DEFINE T == [fromBlock : Nat, votes : S]
<1>2. \A x \in T : x.fromBlock \in Nat
  OBVIOUS
<1>3. cps \in Seq(T)
  BY <1>1
<1> HIDE DEF T
<1>4. Len(cps) \in Nat /\ DOMAIN cps = 1 .. Len(cps) /\ \A i \in 1 .. Len(cps) : cps[i] \in T
  BY <1>3
<1>5. cps = <<>> <=> Len(cps) = 0
  BY <1>3, EmptySeq
<1> QED BY <1>2, <1>4, <1>5

\* The search halves the range: what is left of it is in it, and shorter.
LEMMA HalfRange ==
  ASSUME NEW lower \in Nat, NEW upper \in Nat, lower < upper
  PROVE  LET center == upper - (upper - lower) \div 2
         IN  center \in Nat /\ lower < center /\ center <= upper
<1> DEFINE d == upper - lower
           h == d \div 2
<1>1. d \in Nat /\ d >= 1
  OBVIOUS
<1>2. h \in Nat /\ h < d /\ h >= 0
  <2> HIDE DEF d
  <2> QED BY <1>1
<1> HIDE DEF h
<1>3. upper - h \in Nat /\ lower < upper - h /\ upper - h <= upper
  BY <1>2
<1> QED BY <1>3 DEF h

\* A round depends on the search only for shorter ranges.
LEMMA RoundSame ==
  ASSUME NEW cps, Len(cps) \in Nat, NEW b, NEW g, NEW h,
         NEW lower \in 1 .. Len(cps), NEW upper \in 1 .. Len(cps),
         \A l, u \in 1 .. Len(cps) : u - l < upper - lower => g[<<l, u>>] = h[<<l, u>>]
  PROVE  Round(cps, b, g, <<lower, upper>>) = Round(cps, b, h, <<lower, upper>>)
<1> DEFINE center == upper - (upper - lower) \div 2
<1>1. CASE upper <= lower
  BY <1>1 DEF Round
<1>2. CASE lower < upper
  <2>1. center \in Nat /\ lower < center /\ center <= upper
    BY <1>2, HalfRange
  <2>2. \A f : Round(cps, b, f, <<lower, upper>>)
               = IF cps[center].fromBlock = b THEN cps[center].votes
                 ELSE IF cps[center].fromBlock < b THEN f[<<center, upper>>]
                 ELSE f[<<lower, center - 1>>]
    BY <1>2 DEF Round
  <2> HIDE DEF center
  <2>3. center \in 1 .. Len(cps) /\ center - 1 \in 1 .. Len(cps)
        /\ upper - center < upper - lower /\ (center - 1) - lower < upper - lower
    BY <2>1
  <2>4. g[<<center, upper>>] = h[<<center, upper>>] /\ g[<<lower, center - 1>>] = h[<<lower, center - 1>>]
    BY <2>3
  <2> QED BY <2>2, <2>4
<1> QED BY <1>1, <1>2

\* The recursion defines a function.
LEMMA SearchExists ==
  ASSUME NEW cps, Len(cps) \in Nat, NEW b
  PROVE  \E g : IsSearch(cps, b, g)
<1> DEFINE D == (1 .. Len(cps)) \X (1 .. Len(cps))
           Good == {n \in Nat : \E g : IsSearchUpTo(n, cps, b, g)}
<1>1. \A range \in D : /\ range[1] \in 1 .. Len(cps) /\ range[2] \in 1 .. Len(cps)
                       /\ range = <<range[1], range[2]>>
  OBVIOUS
<1>2. 0 \in Good
  <2> DEFINE g == [range \in D |-> IF range[2] - range[1] > 0 THEN 0 ELSE cps[range[1]].votes]
  <2>1. ASSUME NEW range \in D
        PROVE  g[range] = IF range[2] - range[1] > 0 THEN 0 ELSE Round(cps, b, g, range)
    <3>1. ~(range[2] - range[1] > 0) => range[2] <= range[1]
      BY <1>1
    <3> QED BY <3>1 DEF Round
  <2>2. IsSearchUpTo(0, cps, b, g)
    <3>1. g = [range \in D |-> g[range]]
      OBVIOUS
    <3> HIDE DEF g
    <3> QED BY <2>1, <3>1, Zenon DEF IsSearchUpTo
  <2> QED BY <2>2
<1>3. ASSUME NEW n \in Nat, n \in Good PROVE n + 1 \in Good
  <2>1. PICK g : IsSearchUpTo(n, cps, b, g)
    BY <1>3
  <2> DEFINE h == [range \in D |-> IF range[2] - range[1] > n + 1 THEN 0 ELSE Round(cps, b, g, range)]
  <2>2. \A l, u \in 1 .. Len(cps) : u - l <= n => h[<<l, u>>] = g[<<l, u>>]
    <3> SUFFICES ASSUME NEW l \in 1 .. Len(cps), NEW u \in 1 .. Len(cps), u - l <= n
                 PROVE  h[<<l, u>>] = g[<<l, u>>]
      OBVIOUS
    <3>1. <<l, u>> \in D /\ ~(u - l > n) /\ ~(u - l > n + 1)
      OBVIOUS
    <3>2. g[<<l, u>>] = Round(cps, b, g, <<l, u>>)
      BY <2>1, <3>1 DEF IsSearchUpTo
    <3>3. h[<<l, u>>] = Round(cps, b, g, <<l, u>>)
      BY <3>1
    <3> QED BY <3>2, <3>3
  <2> HIDE DEF h
  <2>3. ASSUME NEW range \in D
        PROVE  h[range] = IF range[2] - range[1] > n + 1 THEN 0 ELSE Round(cps, b, h, range)
    <3> DEFINE l == range[1]
               u == range[2]
    <3>1. l \in 1 .. Len(cps) /\ u \in 1 .. Len(cps) /\ range = <<l, u>>
      BY <1>1
    <3>2. h[range] = IF u - l > n + 1 THEN 0 ELSE Round(cps, b, g, range)
      BY DEF h
    <3> HIDE DEF l, u
    <3>3. CASE u - l <= n + 1
      <4>1. \A x, y \in 1 .. Len(cps) : y - x < u - l => g[<<x, y>>] = h[<<x, y>>]
        <5> SUFFICES ASSUME NEW x \in 1 .. Len(cps), NEW y \in 1 .. Len(cps), y - x < u - l
                     PROVE  g[<<x, y>>] = h[<<x, y>>]
          OBVIOUS
        <5>1. y - x <= n
          BY <3>1, <3>3
        <5> QED BY <2>2, <5>1
      <4>2. Round(cps, b, g, <<l, u>>) = Round(cps, b, h, <<l, u>>)
        BY <3>1, <4>1, RoundSame
      <4> QED BY <3>1, <3>2, <4>2 DEF l, u
    <3>4. CASE u - l > n + 1
      BY <3>2, <3>4 DEF l, u
    <3> QED BY <3>1, <3>3, <3>4
  <2>4. IsSearchUpTo(n + 1, cps, b, h)
    <3>1. h = [range \in D |-> h[range]]
      BY DEF h
    <3> QED BY <2>3, <3>1, Zenon DEF IsSearchUpTo
  <2> QED BY <2>4
<1>4. Len(cps) \in Good
  <2> HIDE DEF Good
  <2>1. Nat \subseteq Good
    BY <1>2, <1>3, NumberInduction
  <2> QED BY <2>1
<1>5. PICK g : IsSearchUpTo(Len(cps), cps, b, g)
  BY <1>4
<1>6. \A range \in D : ~(range[2] - range[1] > Len(cps))
  BY <1>1
<1>7. IsSearch(cps, b, g)
  <2>1. g = [range \in D |-> IF range[2] - range[1] > Len(cps) THEN 0 ELSE Round(cps, b, g, range)]
    BY <1>5 DEF IsSearchUpTo
  <2>2. g = [range \in D |-> Round(cps, b, g, range)]
    BY ONLY <1>6, <2>1, Zenon
  <2> QED BY <2>2 DEF IsSearch
<1> QED BY <1>7

\* The search finds the votes at b, when it starts with a range whose first checkpoint is not after b
\* and all of whose successors are.
LEMMA SearchFinds ==
  ASSUME NEW cps, NEW now, Ordered(cps, now), NEW b \in Nat, NEW g, IsSearch(cps, b, g),
         NEW lower \in 1 .. Len(cps), NEW upper \in 1 .. Len(cps), lower <= upper,
         cps[lower].fromBlock <= b, \A j \in DOMAIN cps : j > upper => cps[j].fromBlock > b
  PROVE  VotesAt(cps, b, g[<<lower, upper>>])
<1> DEFINE Fits(l, u) == /\ l <= u /\ cps[l].fromBlock <= b
                         /\ \A j \in DOMAIN cps : j > u => cps[j].fromBlock > b
           Good == {n \in Nat : \A l, u \in 1 .. Len(cps) :
                                  u - l <= n /\ Fits(l, u) => VotesAt(cps, b, g[<<l, u>>])}
<1>1. /\ Len(cps) \in Nat /\ DOMAIN cps = 1 .. Len(cps)
      /\ \A i \in 1 .. Len(cps) : cps[i].fromBlock \in Nat
  BY OrderedShape
<1>2. \A l, u \in 1 .. Len(cps) : g[<<l, u>>] = Round(cps, b, g, <<l, u>>)
  BY DEF IsSearch
<1>3. ASSUME NEW l \in 1 .. Len(cps), Fits(l, l)
      PROVE  VotesAt(cps, b, cps[l].votes)
  BY <1>1, <1>3 DEF VotesAt
<1>4. ASSUME NEW l \in 1 .. Len(cps), cps[l].fromBlock = b
      PROVE  VotesAt(cps, b, cps[l].votes)
  <2>1. \A j \in DOMAIN cps : j > l => cps[j].fromBlock > b
    BY <1>1, <1>4 DEF Ordered
  <2> QED BY <1>1, <1>4, <2>1 DEF VotesAt
<1>5. 0 \in Good
  <2> SUFFICES ASSUME NEW l \in 1 .. Len(cps), NEW u \in 1 .. Len(cps), u - l <= 0, Fits(l, u)
               PROVE  VotesAt(cps, b, g[<<l, u>>])
    OBVIOUS
  <2>1. u = l
    BY <1>1
  <2>2. g[<<l, u>>] = cps[l].votes
    BY <1>1, <1>2, <2>1 DEF Round
  <2> QED BY <1>3, <2>1, <2>2
<1>6. ASSUME NEW n \in Nat, n \in Good PROVE n + 1 \in Good
  <2> SUFFICES ASSUME NEW l \in 1 .. Len(cps), NEW u \in 1 .. Len(cps), u - l <= n + 1, Fits(l, u)
               PROVE  VotesAt(cps, b, g[<<l, u>>])
    OBVIOUS
  <2> DEFINE c == u - (u - l) \div 2
  <2>1. CASE u = l
    <3>1. g[<<l, u>>] = cps[l].votes
      BY <1>1, <1>2, <2>1 DEF Round
    <3> QED BY <1>3, <2>1, <3>1
  <2>2. CASE u # l
    <3>1. l < u /\ l \in Nat /\ u \in Nat
      BY <1>1, <2>2
    <3>2. c \in Nat /\ l < c /\ c <= u
      BY <3>1, HalfRange
    <3>3. g[<<l, u>>] = IF cps[c].fromBlock = b THEN cps[c].votes
                        ELSE IF cps[c].fromBlock < b THEN g[<<c, u>>] ELSE g[<<l, c - 1>>]
      <4>1. ~(u <= l)
        BY <3>1
      <4> QED BY <1>2, <4>1 DEF Round
    <3> HIDE DEF c
    <3>4. c \in 1 .. Len(cps) /\ c - 1 \in 1 .. Len(cps) /\ l <= c - 1 /\ u - c <= n /\ (c - 1) - l <= n
      BY <1>1, <3>1, <3>2
    <3>5. CASE cps[c].fromBlock = b
      BY <1>4, <3>3, <3>4, <3>5
    <3>6. CASE cps[c].fromBlock < b
      <4>1. Fits(c, u)
        BY <1>1, <3>2, <3>4, <3>6
      <4> HIDE DEF Fits
      <4>2. VotesAt(cps, b, g[<<c, u>>])
        BY <1>6, <3>4, <4>1
      <4>3. g[<<l, u>>] = g[<<c, u>>]
        BY <1>1, <3>3, <3>4, <3>6
      <4> QED BY <4>2, <4>3
    <3>7. CASE cps[c].fromBlock > b
      <4>1. \A j \in DOMAIN cps : j > c - 1 => cps[j].fromBlock > b
        <5> SUFFICES ASSUME NEW j \in 1 .. Len(cps), j > c - 1 PROVE cps[j].fromBlock > b
          BY <1>1
        <5>1. j = c \/ c < j
          BY <1>1, <3>4
        <5>2. c < j => cps[c].fromBlock < cps[j].fromBlock
          BY <1>1, <3>4 DEF Ordered
        <5>3. cps[c].fromBlock \in Nat /\ cps[j].fromBlock \in Nat
          BY <1>1, <3>4
        <5> QED BY ONLY b \in Nat, <3>7, <5>1, <5>2, <5>3
      <4>2. Fits(l, c - 1)
        BY <3>4, <4>1
      <4> HIDE DEF Fits
      <4>3. VotesAt(cps, b, g[<<l, c - 1>>])
        BY <1>6, <3>4, <4>2
      <4>4. g[<<l, u>>] = g[<<l, c - 1>>]
        BY <1>1, <3>3, <3>4, <3>7
      <4> QED BY <4>3, <4>4
    <3>8. cps[c].fromBlock \in Nat
      BY <1>1, <3>4
    <3>9. cps[c].fromBlock = b \/ cps[c].fromBlock < b \/ cps[c].fromBlock > b
      BY ONLY b \in Nat, <3>8
    <3> QED BY <3>5, <3>6, <3>7, <3>9
  <2> QED BY <2>1, <2>2
<1>7. upper - lower \in Nat /\ Fits(lower, upper)
  BY <1>1
<1>8. upper - lower \in Good
  <2> HIDE DEF Good
  <2>1. Nat \subseteq Good
    BY <1>5, <1>6, NumberInduction
  <2> QED BY <1>7, <2>1
<1> QED BY <1>1, <1>7, <1>8

\* What the checkpoints say of a block is one number.
LEMMA VotesAtOne ==
  ASSUME NEW cps, NEW now, Ordered(cps, now), NEW b \in Nat, NEW v, NEW w,
         VotesAt(cps, b, v), VotesAt(cps, b, w)
  PROVE  v = w
<1>1. /\ Len(cps) \in Nat /\ DOMAIN cps = 1 .. Len(cps)
      /\ \A i \in 1 .. Len(cps) : cps[i].fromBlock \in Nat
  BY OrderedShape
<1>2. ASSUME NEW i \in DOMAIN cps, NEW k \in DOMAIN cps,
             cps[i].fromBlock <= b, cps[k].fromBlock <= b,
             \A j \in DOMAIN cps : j > i => cps[j].fromBlock > b,
             \A j \in DOMAIN cps : j > k => cps[j].fromBlock > b
      PROVE  i = k
  <2>1. ~(k > i) /\ ~(i > k)
    BY <1>1, <1>2
  <2> QED BY <1>1, <2>1
<1>3. \A i \in DOMAIN cps : ~(cps[i].fromBlock > b /\ cps[i].fromBlock <= b)
  BY <1>1
<1> QED BY <1>2, <1>3 DEF VotesAt

\* getPriorVotes finds the votes at an earlier block.
LEMMA GetPriorVotesFinds ==
  ASSUME NEW a \in Address, NEW now, Ordered(checkpoints[a], now), NEW b \in Nat
  PROVE  VotesAt(checkpoints[a], b, GetPriorVotes(a, b))
<1> DEFINE cps == checkpoints[a]
           search == CHOOSE g : IsSearch(cps, b, g)
           n == Len(cps)
<1>1. GetPriorVotes(a, b) = IF cps = <<>> \/ cps[1].fromBlock > b THEN 0
                            ELSE IF Last(cps).fromBlock <= b THEN Last(cps).votes
                            ELSE search[<<1, n>>]
  BY DEF GetPriorVotes, IsSearch, Round
<1>2. /\ n \in Nat /\ DOMAIN cps = 1 .. n /\ (cps = <<>> <=> n = 0)
      /\ \A i \in 1 .. n : cps[i].fromBlock \in Nat
  BY OrderedShape
<1>3. IsSearch(cps, b, search)
  BY <1>2, SearchExists
<1> HIDE DEF search
<1>4. Last(cps) = cps[n]
  BY DEF Last
<1>5. Ordered(cps, now)
  OBVIOUS
<1> HIDE DEF cps, n
<1>6. CASE n = 0
  BY <1>1, <1>2, <1>6 DEF VotesAt, cps
<1>7. CASE n # 0 /\ cps[1].fromBlock > b
  <2>1. \A i \in 1 .. n : cps[i].fromBlock > b
    <3> SUFFICES ASSUME NEW i \in 1 .. n PROVE cps[i].fromBlock > b
      OBVIOUS
    <3>1. i = 1 \/ cps[1].fromBlock < cps[i].fromBlock
      BY <1>2, <1>5, <1>7 DEF Ordered
    <3> QED BY <1>2, <1>7, <3>1
  <2> QED BY <1>1, <1>2, <1>7, <2>1 DEF VotesAt, cps
<1>8. CASE n # 0 /\ ~(cps[1].fromBlock > b) /\ Last(cps).fromBlock <= b
  <2>1. GetPriorVotes(a, b) = cps[n].votes /\ cps[n].fromBlock <= b /\ n \in 1 .. n
    BY <1>1, <1>2, <1>4, <1>8
  <2>2. \A j \in DOMAIN cps : ~(j > n)
    BY <1>2
  <2> QED BY <1>2, <2>1, <2>2 DEF VotesAt, cps
<1>9. CASE n # 0 /\ ~(cps[1].fromBlock > b) /\ ~(Last(cps).fromBlock <= b)
  <2>1. 1 \in 1 .. n /\ n \in 1 .. n /\ 1 <= n /\ cps[1].fromBlock <= b /\ \A j \in DOMAIN cps : ~(j > n)
    BY <1>2, <1>9
  <2>2. VotesAt(cps, b, search[<<1, n>>])
    BY <1>3, <1>5, <2>1, SearchFinds DEF n
  <2>3. GetPriorVotes(a, b) = search[<<1, n>>]
    BY <1>1, <1>2, <1>9
  <2> QED BY <2>2, <2>3 DEF cps
<1> QED BY <1>6, <1>7, <1>8, <1>9
\* Writing a checkpoint changes nothing for the blocks before this one.
LEMMA WriteCheckpointKeeps ==
  ASSUME block \in Nat, NEW cps, Ordered(cps, block), NEW n
  PROVE  LET new == WriteCheckpoint(cps, n)
         IN  /\ Ordered(new, block)
             /\ \A b \in Nat : \A v : b < block /\ VotesAt(cps, b, v) => VotesAt(new, b, v)
<1> DEFINE new == WriteCheckpoint(cps, n)
           point == [fromBlock |-> block, votes |-> n]
           len == Len(cps)
<1>1. PICK S : cps \in Seq([fromBlock : Nat, votes : S])
  BY DEF Ordered
<1>2. /\ len \in Nat /\ DOMAIN cps = 1 .. len /\ (cps = <<>> <=> len = 0)
      /\ \A i \in 1 .. len : cps[i].fromBlock \in Nat
  BY OrderedShape
<1>3. /\ \A i, j \in 1 .. len : i < j => cps[i].fromBlock < cps[j].fromBlock
      /\ \A i \in 1 .. len : cps[i].fromBlock <= block
  BY <1>2 DEF Ordered
<1> DEFINE T == [fromBlock : Nat, votes : S \cup {n}]
<1>4. point \in T /\ cps \in Seq(T) /\ point.fromBlock = block /\ point.votes = n
  <2>1. [fromBlock : Nat, votes : S] \subseteq T
    OBVIOUS
  <2>2. cps \in Seq(T)
    <3> HIDE DEF T
    <3> QED BY <1>1, <2>1, SeqMonotonic
  <2> QED BY <2>2
<1>5. CASE cps # <<>> /\ Last(cps).fromBlock = block
  <2>1. new = [cps EXCEPT ![len] = point] /\ len \in 1 .. len /\ cps[len].fromBlock = block
    BY <1>2, <1>5 DEF WriteCheckpoint, ReplaceAt, Last
  <2> HIDE DEF new, point, T, len
  <2>2. new \in Seq(T) /\ DOMAIN new = 1 .. len
    BY <1>2, <1>4, <2>1 DEF len
  <2>3. new[len] = point /\ \A i \in 1 .. len : i # len => new[i] = cps[i]
    BY <1>2, <2>1
  <2>4. \A i \in 1 .. len : new[i].fromBlock = cps[i].fromBlock
    BY <1>4, <2>1, <2>3
  <2>5. Ordered(new, block)
    <3>1. \E R : new \in Seq([fromBlock : Nat, votes : R])
      BY <2>2 DEF T
    <3>2. /\ \A i, j \in DOMAIN new : i < j => new[i].fromBlock < new[j].fromBlock
          /\ \A i \in DOMAIN new : new[i].fromBlock <= block
      BY <1>3, <2>2, <2>4
    <3> QED BY <3>1, <3>2 DEF Ordered
  <2>6. ASSUME NEW b \in Nat, NEW v, b < block, VotesAt(cps, b, v) PROVE VotesAt(new, b, v)
    <3>1. \A i \in 1 .. len : cps[i].fromBlock <= b => i # len
      BY <2>1, <2>6
    <3>2. CASE v = 0 /\ \A i \in DOMAIN cps : cps[i].fromBlock > b
      BY <1>2, <2>2, <2>4, <3>2 DEF VotesAt
    <3>3. ASSUME NEW i \in DOMAIN cps, v = cps[i].votes, cps[i].fromBlock <= b,
                 \A j \in DOMAIN cps : j > i => cps[j].fromBlock > b
          PROVE  VotesAt(new, b, v)
      <4>1. i \in DOMAIN new /\ v = new[i].votes /\ new[i].fromBlock <= b
        BY <1>2, <2>2, <2>3, <3>1, <3>3
      <4>2. \A j \in DOMAIN new : j > i => new[j].fromBlock > b
        BY <1>2, <2>2, <2>4, <3>3
      <4> QED BY <4>1, <4>2 DEF VotesAt
    <3> QED BY <2>6, <3>2, <3>3 DEF VotesAt
  <2> QED BY <2>5, <2>6 DEF new
<1>6. CASE ~(cps # <<>> /\ Last(cps).fromBlock = block)
  <2>1. new = Append(cps, point)
    BY <1>6 DEF WriteCheckpoint
  <2>2. \A i \in 1 .. len : cps[i].fromBlock < block
    <3> SUFFICES ASSUME NEW i \in 1 .. len PROVE cps[i].fromBlock < block
      OBVIOUS
    <3>1. len # 0 /\ cps[len].fromBlock # block /\ len \in 1 .. len
      BY <1>2, <1>6 DEF Last
    <3> HIDE DEF len
    <3>2. i = len \/ cps[i].fromBlock < cps[len].fromBlock
      BY <1>2, <1>3, <3>1
    <3> QED BY <1>2, <1>3, <3>1, <3>2
  <2> HIDE DEF new, point, T
  <2>3. /\ new \in Seq(T) /\ DOMAIN new = 1 .. len + 1
        /\ new[len + 1] = point /\ \A i \in 1 .. len : new[i] = cps[i]
    BY <1>4, <2>1, AppendProperties
  <2> HIDE DEF len
  <2>4. Ordered(new, block)
    <3>1. \E R : new \in Seq([fromBlock : Nat, votes : R])
      BY <2>3 DEF T
    <3>2. \A i \in 1 .. len + 1 : i \in 1 .. len \/ i = len + 1
      BY <1>2
    <3>3. \A i \in 1 .. len + 1 : new[i].fromBlock <= block
      BY <1>3, <1>4, <2>3, <3>2
    <3>4. \A i, j \in 1 .. len + 1 : i < j => new[i].fromBlock < new[j].fromBlock
      <4> SUFFICES ASSUME NEW i \in 1 .. len + 1, NEW j \in 1 .. len + 1, i < j
                   PROVE  new[i].fromBlock < new[j].fromBlock
        OBVIOUS
      <4>1. i \in 1 .. len
        BY <1>2
      <4>2. CASE j \in 1 .. len
        BY <1>3, <2>3, <4>1, <4>2
      <4>3. CASE j = len + 1
        BY <1>4, <2>2, <2>3, <4>1, <4>3
      <4> QED BY <3>2, <4>2, <4>3
    <3> QED BY <2>3, <3>1, <3>3, <3>4 DEF Ordered
  <2>5. ASSUME NEW b \in Nat, NEW v, b < block, VotesAt(cps, b, v) PROVE VotesAt(new, b, v)
    <3>1. \A i \in 1 .. len + 1 : i \in 1 .. len \/ (i = len + 1 /\ new[i].fromBlock > b)
      BY <1>2, <1>4, <2>3, <2>5
    <3>2. CASE v = 0 /\ \A i \in DOMAIN cps : cps[i].fromBlock > b
      BY <1>2, <2>3, <3>1, <3>2 DEF VotesAt
    <3>3. ASSUME NEW i \in DOMAIN cps, v = cps[i].votes, cps[i].fromBlock <= b,
                 \A j \in DOMAIN cps : j > i => cps[j].fromBlock > b
          PROVE  VotesAt(new, b, v)
      <4>1. i \in DOMAIN new /\ v = new[i].votes /\ new[i].fromBlock <= b
        BY <1>2, <2>3, <3>3
      <4>2. \A j \in DOMAIN new : j > i => new[j].fromBlock > b
        BY <1>2, <2>3, <3>1, <3>3
      <4> QED BY <4>1, <4>2 DEF VotesAt
    <3> QED BY <2>5, <3>2, <3>3 DEF VotesAt
  <2> QED BY <2>4, <2>5 DEF new
<1> QED BY <1>5, <1>6

\* In a step that mines no block, the checkpoints of each address stay, or one is written.
Writes ==
  /\ UNCHANGED <<block, past>>
  /\ \A a \in Address : \/ checkpoints'[a] = checkpoints[a]
                        \/ \E n : checkpoints'[a] = WriteCheckpoint(checkpoints[a], n)

\* A move of votes writes one checkpoint for each side.
LEMMA MovedWrites ==
  ASSUME NEW from, NEW to, NEW amount, checkpoints' = Moved(from, to, amount), UNCHANGED <<block, past>>
  PROVE  Writes
BY DEF Moved, Writes

\* The votes of earlier blocks stay what they were.
LEMMA WritesKeeps ==
  ASSUME VotesInv, Writes
  PROVE  VotesInv'
<1>1. block' = block /\ past' = past /\ block \in Nat \ {0}
  BY DEF Writes, VotesInv
<1>2. ASSUME NEW a \in Address PROVE Exact(checkpoints'[a], past'[a], block')
  <2>1. Exact(checkpoints[a], past[a], block)
    BY DEF VotesInv
  <2>2. ASSUME NEW n, checkpoints'[a] = WriteCheckpoint(checkpoints[a], n)
        PROVE  Exact(checkpoints'[a], past'[a], block')
    <3>1. /\ Ordered(checkpoints'[a], block)
          /\ \A b \in Nat : \A v : b < block /\ VotesAt(checkpoints[a], b, v)
                              => VotesAt(checkpoints'[a], b, v)
      BY <1>1, <2>1, <2>2, WriteCheckpointKeeps DEF Exact
    <3>2. \A b \in 1 .. block - 1 : b \in Nat /\ b < block
      BY <1>1
    <3> QED BY <1>1, <2>1, <3>1, <3>2 DEF Exact
  <2> QED BY <1>1, <2>1, <2>2 DEF Writes
<1> QED BY <1>1, <1>2 DEF VotesInv

\* The block that ends joins them.
LEMMA MineBlockKeepsVotes ==
  ASSUME VotesInv, MineBlock
  PROVE  VotesInv'
<1>1. /\ block \in Nat \ {0} /\ block' = block + 1 /\ checkpoints' = checkpoints
      /\ past' = [a \in Address |-> Append(past[a], Votes(checkpoints[a]))]
  BY DEF VotesInv, MineBlock
<1>2. ASSUME NEW a \in Address PROVE Exact(checkpoints'[a], past'[a], block')
  <2> DEFINE cps == checkpoints[a]
             old == past[a]
             v == Votes(cps)
  <2>1. Exact(cps, old, block) /\ Ordered(cps, block) /\ Len(old) = block - 1
    BY DEF VotesInv, Exact
  <2>2. PICK S : old \in Seq(S)
    BY <2>1 DEF Exact
  <2>3. past'[a] = Append(old, v) /\ checkpoints'[a] = cps
    BY <1>1
  <2>4. /\ Len(cps) \in Nat /\ DOMAIN cps = 1 .. Len(cps) /\ (cps = <<>> <=> Len(cps) = 0)
        /\ \A i \in 1 .. Len(cps) : cps[i].fromBlock \in Nat /\ cps[i].fromBlock <= block
    BY <2>1, OrderedShape DEF Ordered
  <2>5. VotesAt(cps, block, v)
    <3> HIDE DEF cps
    <3>1. CASE cps = <<>>
      BY <2>4, <3>1 DEF VotesAt, Votes
    <3>2. CASE cps # <<>>
      <4>1. v = cps[Len(cps)].votes /\ Len(cps) \in DOMAIN cps /\ cps[Len(cps)].fromBlock <= block
        BY <2>4, <3>2 DEF Votes, Last
      <4>2. \A j \in DOMAIN cps : ~(j > Len(cps))
        BY <2>4
      <4> QED BY <4>1, <4>2 DEF VotesAt
    <3> QED BY <3>1, <3>2
  <2> HIDE DEF cps, old, v
  <2>6. /\ Append(old, v) \in Seq(S \cup {v}) /\ Len(Append(old, v)) = block
        /\ Append(old, v)[block] = v /\ \A b \in 1 .. block - 1 : Append(old, v)[b] = old[b]
    BY <1>1, <2>1, <2>2, AppendProperties
  <2>7. Ordered(cps, block + 1)
    <3>1. \A i \in DOMAIN cps : cps[i].fromBlock <= block + 1
      BY <1>1, <2>4
    <3> QED BY <2>1, <3>1 DEF Ordered
  <2>8. \A b \in 1 .. block : VotesAt(cps, b, Append(old, v)[b])
    <3> SUFFICES ASSUME NEW b \in 1 .. block PROVE VotesAt(cps, b, Append(old, v)[b])
      OBVIOUS
    <3>1. b = block \/ b \in 1 .. block - 1
      BY <1>1
    <3> QED BY <2>1, <2>5, <2>6, <3>1 DEF Exact
  <2>9. block' - 1 = block
    BY <1>1
  <2> QED BY <1>1, <2>3, <2>6, <2>7, <2>8, <2>9 DEF Exact
<1> QED BY <1>1, <1>2 DEF VotesInv

\* A transfer, a delegation, an addition to the supply or a refund writes; votes, proposals and
\* decisions leave the checkpoints alone.
LEMMA NextKeepsVotes ==
  ASSUME VotesInv, [Next]_vars
  PROVE  VotesInv'
<1>1. CASE UNCHANGED <<block, past, checkpoints>>
  BY <1>1 DEF VotesInv
<1>2. ASSUME NEW to \in Account, NEW n \in TokenAmount, Transfer(to, n)
      PROVE  Writes
  <2>1. UNCHANGED <<block, past>> /\ TransferTokens(InitialHolder, to, n)
    BY <1>2 DEF Transfer, TokenCall
  <2>2. \E f, t, m : checkpoints' = Moved(f, t, m)
    BY <2>1 DEF TransferTokens, Delegated
  <2> QED BY <2>1, <2>2, MovedWrites
<1>3. ASSUME NEW a \in Account, NEW to \in Delegatee, Delegate(a, to)
      PROVE  Writes
  BY <1>3, MovedWrites DEF Delegate, TokenCall, Delegated
<1>4. ASSUME NEW n \in TokenAmount, AddToTotalSupply(n)
      PROVE  Writes
  BY <1>4, MovedWrites DEF AddToTotalSupply, TokenCall
<1>5. CASE DaoNext
  BY <1>2, <1>3, <1>4, <1>5, WritesKeeps, MineBlockKeepsVotes DEF DaoNext
<1>6. ASSUME NEW a \in Account, NEW x \in Action, Propose(a, x)
      PROVE  UNCHANGED <<block, past, checkpoints>>
  BY <1>6 DEF Propose, CastVote
<1>7. ASSUME NEW a \in Account, NEW n \in 1 .. MaxProposals, NEW actions \in [1 .. n -> Action],
             ProposeMultiAttribute(a, actions)
      PROVE  UNCHANGED <<block, past, checkpoints>>
  BY <1>7 DEF ProposeMultiAttribute, CastVote
<1>8. ASSUME NEW a \in Account, NEW p \in Ids, NEW support \in BOOLEAN, NEW n \in VoteAmount,
             Vote(a, p, support, n)
      PROVE  UNCHANGED <<block, past, checkpoints>>
  BY <1>8 DEF Vote, CastVote
<1>9. ASSUME NEW a \in Account, NEW p \in Ids, Refund(a, p)
      PROVE  Writes
  <2>1. UNCHANGED <<block, past>> /\ \E f, t, m : checkpoints' = Moved(f, t, m)
    BY <1>9 DEF Refund, Delegated
  <2> QED BY <2>1, MovedWrites
<1>10. ASSUME NEW a \in Account, NEW p \in Ids, Cancel(a, p)
       PROVE  UNCHANGED <<block, past, checkpoints>>
  BY <1>10 DEF Cancel, daoVars
<1>11. ASSUME NEW p \in Ids, Queue(p) \/ Execute(p)
       PROVE  UNCHANGED <<block, past, checkpoints>>
  BY <1>11 DEF Queue, Execute, daoVars
<1>12. ASSUME NEW q \in Quorum, NEW t \in Threshold, Set(q, t)
       PROVE  UNCHANGED <<block, past, checkpoints>>
  BY <1>12 DEF Set
<1>13. CASE UNCHANGED vars
  BY <1>1, <1>13 DEF vars, daoVars
<1> HIDE DEF Ids
<1> QED BY <1>1, <1>5, <1>6, <1>7, <1>8, <1>9, <1>10, <1>11, <1>12, <1>13, WritesKeeps DEF Next

\* The grants are of block 0.
LEMMA InitVotesInv == Init => VotesInv
<1> SUFFICES ASSUME Init PROVE VotesInv
  OBVIOUS
<1>1. block = 1 /\ past = [a \in Address |-> <<>>]
      /\ checkpoints = [a \in Address |->
           IF a \in DOMAIN Grant THEN <<[fromBlock |-> 0, votes |-> Grant[a]]>> ELSE <<>>]
  BY DEF Init, DaoInit
<1>2. ASSUME NEW a \in Address PROVE Exact(checkpoints[a], past[a], block)
  <2>1. past[a] \in Seq({}) /\ Len(past[a]) = 0
    BY <1>1
  <2>2. Ordered(checkpoints[a], 1)
    <3>1. CASE a \in DOMAIN Grant
      <4> DEFINE point == [fromBlock |-> 0, votes |-> Grant[a]]
      <4>1. checkpoints[a] = <<point>> /\ point \in [fromBlock : Nat, votes : {Grant[a]}]
        BY <1>1, <3>1
      <4>2. point.fromBlock = 0
        OBVIOUS
      <4> HIDE DEF point
      <4>3. checkpoints[a] \in Seq([fromBlock : Nat, votes : {Grant[a]}])
        BY <4>1
      <4>4. DOMAIN checkpoints[a] = {1} /\ checkpoints[a][1] = point
        BY <4>1
      <4>5. /\ \A i, j \in DOMAIN checkpoints[a] : ~(i < j)
            /\ \A i \in DOMAIN checkpoints[a] : checkpoints[a][i].fromBlock <= 1
        BY <4>2, <4>4
      <4> QED BY <4>3, <4>5 DEF Ordered
    <3>2. CASE a \notin DOMAIN Grant
      <4>1. checkpoints[a] = <<>>
        BY <1>1, <3>2
      <4> QED BY <4>1 DEF Ordered
    <3> QED BY <3>1, <3>2
  <2> QED BY <1>1, <2>1, <2>2 DEF Exact
<1> QED BY <1>1, <1>2 DEF VotesInv

\* PriorVotesExact: the votes that getPriorVotes finds for an earlier block are those the account
\* ended that block with, for any history of checkpoints (_writeCheckpoint, getPriorVotes).
THEOREM PriorVotesAlwaysExact == Spec => []PriorVotesExact
<1>1. VotesInv /\ [Next]_vars => VotesInv'
  BY NextKeepsVotes
<1>2. VotesInv => PriorVotesExact
  <2> SUFFICES ASSUME VotesInv, NEW a \in Address, NEW b \in 1 .. block - 1
               PROVE  GetPriorVotes(a, b) = past[a][b]
    BY DEF PriorVotesExact
  <2>1. b \in Nat /\ Ordered(checkpoints[a], block) /\ VotesAt(checkpoints[a], b, past[a][b])
    BY DEF VotesInv, Exact
  <2>2. VotesAt(checkpoints[a], b, GetPriorVotes(a, b))
    BY <2>1, GetPriorVotesFinds
  <2> QED BY <2>1, <2>2, VotesAtOne
<1> QED BY <1>1, <1>2, InitVotesInv, PTL DEF Spec

-----------------------------------------------------------------------------
(* Tallies. *)

\* A natural number has a root.
LEMMA SqrtType ==
  ASSUME NEW x \in Nat
  PROVE  Sqrt(x) \in Nat /\ (x = 0 => Sqrt(x) = 0)
<1> DEFINE Above == {z \in Nat : z * z > x}
<1>1. x + 1 \in Above
  <2>1. (x + 1) * (x + 1) = x * x + 2 * x + 1
    OBVIOUS
  <2>2. x * x >= 0
    OBVIOUS
  <2> QED BY <2>1, <2>2
<1>2. PICK z \in Above : \A y \in Above : z <= y
  <2> HIDE DEF Above
  <2>1. Above \in SUBSET Nat
    BY DEF Above
  <2> QED BY <1>1, <2>1, LeastNumber
<1>3. z # 0
  <2>1. z * z > x
    OBVIOUS
  <2> QED BY <2>1
<1>4. z - 1 \in Nat /\ z - 1 \notin Above /\ z <= x + 1
  BY <1>1, <1>2, <1>3
<1>5. (z - 1) * (z - 1) <= x /\ x < ((z - 1) + 1) * ((z - 1) + 1)
  <2>1. (z - 1) + 1 = z /\ z * z > x
    OBVIOUS
  <2>2. (z - 1) * (z - 1) \in Nat
    BY <1>4
  <2> QED BY <1>4, <2>1, <2>2
<1>6. \E y \in 0 .. x : y * y <= x /\ x < (y + 1) * (y + 1)
  <2> DEFINE y == z - 1
  <2>1. y \in 0 .. x
    BY <1>4
  <2>2. y * y <= x /\ x < (y + 1) * (y + 1)
    BY <1>5
  <2> HIDE DEF y
  <2> QED BY <2>1, <2>2
<1>7. Sqrt(x) \in 0 .. x
  BY <1>6 DEF Sqrt
<1> QED BY <1>7

\* The values of a receipt.
ReceiptSet == [hasVoted : BOOLEAN, support : BOOLEAN, rawVotes : Nat, refunded : BOOLEAN, until : Nat]

\* Tokens are on it only while the receipt says so.
Receipted(q) ==
  /\ q.receipts \in [Account -> ReceiptSet]
  /\ \A a \in Account : q.receipts[a].rawVotes # 0 => q.receipts[a].hasVoted

Sided(q, a, side) == IF q.receipts[a].support = side THEN q.receipts[a].rawVotes ELSE 0
RawSum(q, side) == SumFunction([a \in Account |-> Sided(q, a, side)])
VoteSum(q, side) == SumFunction([a \in Account |-> Sqrt(Sided(q, a, side))])

Tallied(q) ==
  /\ q.rawForVotes = RawSum(q, TRUE) /\ q.rawAgainstVotes = RawSum(q, FALSE)
  /\ q.forVotes = VoteSum(q, TRUE) /\ q.againstVotes = VoteSum(q, FALSE)

\* What a receipt puts on a side, and its root, are numbers.
LEMMA SidedType ==
  ASSUME NEW q, Receipted(q), NEW a \in Account, NEW side
  PROVE  Sided(q, a, side) \in Nat /\ Sqrt(Sided(q, a, side)) \in Nat
<1>1. q.receipts[a].rawVotes \in Nat
  BY DEF Receipted, ReceiptSet
<1>2. Sided(q, a, side) \in Nat
  BY <1>1 DEF Sided
<1> QED BY <1>2, SqrtType

\* The sums are numbers.
LEMMA SumsType ==
  ASSUME NEW q, Receipted(q), NEW side
  PROVE  RawSum(q, side) \in Nat /\ VoteSum(q, side) \in Nat
<1> DEFINE f == [a \in Account |-> Sided(q, a, side)]
           g == [a \in Account |-> Sqrt(Sided(q, a, side))]
<1>1. \A a \in Account : f[a] \in Nat /\ g[a] \in Nat
  BY SidedType
<1>2. DOMAIN f = Account /\ DOMAIN g = Account /\ IsFiniteSet(Account)
  BY TokenAssumption
<1> HIDE DEF f, g
<1>3. SumFunctionOnSet(f, Account) \in Nat /\ SumFunctionOnSet(g, Account) \in Nat
  BY <1>1, <1>2, SumNat
<1> QED BY <1>2, <1>3 DEF f, g, RawSum, VoteSum, SumFunction

\* One receipt changes.
LEMMA SumsChange ==
  ASSUME NEW q, NEW r, Receipted(q), Receipted(r), NEW a \in Account,
         \A b \in Account : b # a => r.receipts[b] = q.receipts[b], NEW side
  PROVE  /\ RawSum(r, side) = RawSum(q, side) - Sided(q, a, side) + Sided(r, a, side)
         /\ VoteSum(r, side) = VoteSum(q, side) - Sqrt(Sided(q, a, side)) + Sqrt(Sided(r, a, side))
<1> DEFINE F(x) == [b \in Account |-> Sided(x, b, side)]
           G(x) == [b \in Account |-> Sqrt(Sided(x, b, side))]
<1>1. \A b \in Account : /\ F(q)[b] = Sided(q, b, side) /\ F(r)[b] = Sided(r, b, side)
                         /\ G(q)[b] = Sqrt(Sided(q, b, side)) /\ G(r)[b] = Sqrt(Sided(r, b, side))
  OBVIOUS
<1>2. \A b \in Account : F(q)[b] \in Int /\ F(r)[b] \in Int /\ G(q)[b] \in Int /\ G(r)[b] \in Int
  BY SidedType, <1>1
<1>3. \A b \in Account \ {a} : Sided(r, b, side) = Sided(q, b, side)
  BY DEF Sided
<1>4. \A b \in Account \ {a} : F(r)[b] = F(q)[b] /\ G(r)[b] = G(q)[b]
  BY <1>1, <1>3
<1>5. /\ RawSum(q, side) = SumFunctionOnSet(F(q), Account) /\ RawSum(r, side) = SumFunctionOnSet(F(r), Account)
      /\ VoteSum(q, side) = SumFunctionOnSet(G(q), Account) /\ VoteSum(r, side) = SumFunctionOnSet(G(r), Account)
  BY DEF RawSum, VoteSum, SumFunction
<1>6. IsFiniteSet(Account)
  BY TokenAssumption
<1> HIDE DEF F, G
<1>7. SumFunctionOnSet(F(r), Account) = SumFunctionOnSet(F(q), Account) - F(q)[a] + F(r)[a]
  BY <1>2, <1>4, <1>6, SumChange
<1>8. SumFunctionOnSet(G(r), Account) = SumFunctionOnSet(G(q), Account) - G(q)[a] + G(r)[a]
  BY <1>2, <1>4, <1>6, SumChange
<1> QED BY <1>1, <1>5, <1>7, <1>8

\* Nothing is on a new proposal.
LEMMA FreshTallied ==
  ASSUME NEW q, Fresh(q)
  PROVE  Receipted(q) /\ Tallied(q)
<1>1. q.receipts = [v \in Account |-> NoReceipt] /\ NoReceipt \in ReceiptSet
  BY DEF Fresh, NoReceipt, ReceiptSet
<1>2. Receipted(q) /\ \A a \in Account : q.receipts[a].rawVotes = 0
  BY <1>1 DEF Receipted, NoReceipt
<1>3. ASSUME NEW side PROVE RawSum(q, side) = 0 /\ VoteSum(q, side) = 0
  <2> DEFINE f == [a \in Account |-> Sided(q, a, side)]
             g == [a \in Account |-> Sqrt(Sided(q, a, side))]
  <2>1. \A a \in Account : Sided(q, a, side) = 0
    BY <1>2 DEF Sided
  <2>2. \A a \in Account : f[a] = 0 /\ g[a] = 0
    BY <2>1, SqrtType
  <2>3. DOMAIN f = Account /\ DOMAIN g = Account /\ IsFiniteSet(Account)
    BY TokenAssumption
  <2> HIDE DEF f, g
  <2>4. SumFunctionOnSet(f, Account) = 0 /\ SumFunctionOnSet(g, Account) = 0
    BY <2>2, <2>3, SumZero
  <2> QED BY <2>3, <2>4 DEF f, g, RawSum, VoteSum, SumFunction
<1> QED BY <1>2, <1>3 DEF Fresh, Tallied

\* What a vote makes of a proposal: the receipt, and a tally that counts it if nothing was on it.
LEMMA AccountedTallies ==
  ASSUME NEW q, Shaped(q), Receipted(q), NEW a \in Account, NEW support \in BOOLEAN, NEW amount \in Nat,
         block \in Nat
  PROVE  LET r == Accounted(q, a, support, amount)
         IN  /\ Receipted(r)
             /\ r.receipts[a].rawVotes = q.receipts[a].rawVotes + amount
             /\ \A b \in Account : b # a => r.receipts[b] = q.receipts[b]
             /\ q.receipts[a].rawVotes = 0 /\ Tallied(q) => Tallied(r)
<1> DEFINE r == Accounted(q, a, support, amount)
           old == q.receipts[a].rawVotes
           diff == Sqrt(old + amount) - Sqrt(old)
           receipt == [hasVoted |-> TRUE, support |-> support, rawVotes |-> old + amount,
                       refunded |-> FALSE, until |-> block + VotesCancelPeriod]
<1>1. old \in Nat /\ VotesCancelPeriod \in Nat /\ q.receipts \in [Account -> ReceiptSet]
  BY GovernorAssumption DEF Receipted, ReceiptSet
<1>2. receipt \in ReceiptSet /\ receipt.rawVotes = old + amount /\ receipt.support = support /\ receipt.hasVoted
  <2> HIDE DEF old
  <2> QED BY <1>1 DEF ReceiptSet
<1>3. /\ r.receipts = [q.receipts EXCEPT ![a] = receipt]
      /\ support => /\ r.forVotes = q.forVotes + diff /\ r.rawForVotes = q.rawForVotes + amount
                    /\ r.againstVotes = q.againstVotes /\ r.rawAgainstVotes = q.rawAgainstVotes
      /\ ~support => /\ r.againstVotes = q.againstVotes + diff
                     /\ r.rawAgainstVotes = q.rawAgainstVotes + amount
                     /\ r.forVotes = q.forVotes /\ r.rawForVotes = q.rawForVotes
  <2>1. r = IF support
            THEN [q EXCEPT !.forVotes = q.forVotes + diff, !.rawForVotes = q.rawForVotes + amount,
                           !.receipts = [q.receipts EXCEPT ![a] = receipt]]
            ELSE [q EXCEPT !.againstVotes = q.againstVotes + diff,
                           !.rawAgainstVotes = q.rawAgainstVotes + amount,
                           !.receipts = [q.receipts EXCEPT ![a] = receipt]]
    BY DEF Accounted, Shaped, Fields
  <2> HIDE DEF r, diff, receipt
  <2> QED BY <2>1 DEF Shaped, Fields
<1> HIDE DEF r, diff, receipt, old
<1>4. r.receipts[a] = receipt /\ \A b \in Account : b # a => r.receipts[b] = q.receipts[b]
  BY <1>1, <1>3
<1>5. Receipted(r)
  <2>1. r.receipts \in [Account -> ReceiptSet]
    BY <1>1, <1>2, <1>3
  <2>2. \A b \in Account : r.receipts[b].rawVotes # 0 => r.receipts[b].hasVoted
    BY <1>2, <1>4 DEF Receipted
  <2> QED BY <2>1, <2>2 DEF Receipted
<1>6. ASSUME old = 0, Tallied(q) PROVE Tallied(r)
  <2>1. \A side : Sided(q, a, side) = 0
    BY <1>6 DEF Sided, old
  <2>2. Sided(r, a, support) = amount /\ Sided(r, a, ~support) = 0
    BY <1>1, <1>2, <1>4, <1>6 DEF Sided
  <2>3. Sqrt(0) = 0 /\ Sqrt(amount) \in Nat /\ diff = Sqrt(amount)
    BY <1>6, SqrtType DEF diff
  <2>4. \A side : /\ RawSum(r, side) = RawSum(q, side) - Sided(q, a, side) + Sided(r, a, side)
                  /\ VoteSum(r, side) = VoteSum(q, side) - Sqrt(Sided(q, a, side)) + Sqrt(Sided(r, a, side))
    BY <1>4, <1>5, SumsChange
  <2>5. \A side : RawSum(q, side) \in Nat /\ VoteSum(q, side) \in Nat
    BY SumsType
  <2>6. /\ RawSum(r, support) = RawSum(q, support) + amount /\ RawSum(r, ~support) = RawSum(q, ~support)
        /\ VoteSum(r, support) = VoteSum(q, support) + diff /\ VoteSum(r, ~support) = VoteSum(q, ~support)
    BY <2>1, <2>2, <2>3, <2>4, <2>5
  <2>7. CASE support
    <3>1. support = TRUE /\ (~support) = FALSE
      BY <2>7
    <3> QED BY <1>3, <1>6, <2>6, <2>7, <3>1 DEF Tallied
  <2>8. CASE ~support
    <3>1. support = FALSE /\ (~support) = TRUE
      BY <2>8
    <3> QED BY <1>3, <1>6, <2>6, <2>8, <3>1 DEF Tallied
  <2> QED BY <2>7, <2>8
<1> QED BY <1>2, <1>4, <1>5, <1>6 DEF r, old

ChildrenIn(ps, p) == {c \in DOMAIN ps : ps[c].parent = p}

\* What a has put on the proposals in S.
On(ps, a, S) == SumFunction([c \in S |-> ps[c].receipts[a].rawVotes])

Counted(ps, p) == \A a \in Account : ps[p].receipts[a].rawVotes = On(ps, a, ChildrenIn(ps, p))

AllReceipted(ps) == \A q \in DOMAIN ps : Receipted(ps[q])
AllCounted(ps) == \A q \in DOMAIN ps : ChildrenIn(ps, q) # {} => Counted(ps, q)

\* The children are finitely many.
LEMMA ChildrenFinite ==
  ASSUME NEW ps, Listed(ps), NEW p
  PROVE  /\ IsFiniteSet(ChildrenIn(ps, p)) /\ Cardinality(ChildrenIn(ps, p)) \in Nat
         /\ Cardinality(ChildrenIn(ps, p)) = 0 => ChildrenIn(ps, p) = {}
<1>1. PICK n \in Nat : DOMAIN ps = 1 .. n
  BY DEF Listed
<1>2. IsFiniteSet(1 .. n)
  BY FS_Interval
<1>3. ChildrenIn(ps, p) \in SUBSET (1 .. n)
  BY <1>1 DEF ChildrenIn
<1>4. IsFiniteSet(ChildrenIn(ps, p))
  BY <1>2, <1>3, FS_Subset
<1> QED BY <1>4, FS_CardinalityType, FS_EmptySet

\* What is on some proposals, by the receipts alone.
LEMMA OnType ==
  ASSUME NEW ps, AllReceipted(ps), NEW S \in SUBSET DOMAIN ps, IsFiniteSet(S), NEW a \in Account
  PROVE  /\ On(ps, a, S) \in Nat
         /\ \A c \in S : ps[c].receipts[a].rawVotes \in Nat /\ ps[c].receipts[a].rawVotes <= On(ps, a, S)
<1> DEFINE f == [c \in S |-> ps[c].receipts[a].rawVotes]
<1>1. \A c \in S : ps[c].receipts[a].rawVotes \in Nat
  BY DEF AllReceipted, Receipted, ReceiptSet
<1>2. \A c \in S : f[c] \in Nat /\ f[c] = ps[c].receipts[a].rawVotes
  BY <1>1
<1>3. On(ps, a, S) = SumFunctionOnSet(f, S)
  BY DEF On, SumFunction
<1> HIDE DEF f
<1> QED BY <1>2, <1>3, SumNat

\* The sum depends on the receipts of the proposals in the set only.
LEMMA OnSame ==
  ASSUME NEW ps, NEW qs, AllReceipted(ps), NEW S \in SUBSET DOMAIN ps, IsFiniteSet(S), NEW a \in Account,
         \A c \in S : qs[c].receipts[a].rawVotes = ps[c].receipts[a].rawVotes
  PROVE  On(qs, a, S) = On(ps, a, S)
<1>1. [c \in S |-> qs[c].receipts[a].rawVotes] = [c \in S |-> ps[c].receipts[a].rawVotes]
  BY Zenon
<1> QED BY <1>1 DEF On

\* Some of them, and the rest.
LEMMA OnSplit ==
  ASSUME NEW ps, AllReceipted(ps), NEW S \in SUBSET DOMAIN ps, IsFiniteSet(S), NEW T \in SUBSET S,
         NEW a \in Account
  PROVE  On(ps, a, S) = On(ps, a, T) + On(ps, a, S \ T)
<1> DEFINE f(X) == [c \in X |-> ps[c].receipts[a].rawVotes]
<1>1. \A c \in S : ps[c].receipts[a].rawVotes \in Nat
  BY OnType
<1>2. \A X \in SUBSET S : \A c \in X : f(X)[c] \in Int /\ f(S)[c] = f(X)[c]
  BY <1>1
<1>3. \A X \in SUBSET S : IsFiniteSet(X) /\ On(ps, a, X) = SumFunctionOnSet(f(X), X)
  BY FS_Subset DEF On, SumFunction
<1> HIDE DEF f
<1>4. \A X \in SUBSET S : SumFunctionOnSet(f(S), X) = SumFunctionOnSet(f(X), X)
  BY <1>2, <1>3, SumSame
<1>5. SumFunctionOnSet(f(S), S) = SumFunctionOnSet(f(S), T) + SumFunctionOnSet(f(S), S \ T)
  BY <1>2, SumSplit
<1>6. T \in SUBSET S /\ S \ T \in SUBSET S /\ S \in SUBSET S
  OBVIOUS
<1> QED BY <1>3, <1>4, <1>5, <1>6

\* The same amount on each.
LEMMA OnConst ==
  ASSUME NEW ps, NEW S, IsFiniteSet(S), NEW a, NEW n \in Int,
         \A c \in S : ps[c].receipts[a].rawVotes = n
  PROVE  On(ps, a, S) = n * Cardinality(S)
<1> DEFINE f == [c \in S |-> ps[c].receipts[a].rawVotes]
<1>1. \A c \in S : f[c] = n
  OBVIOUS
<1>2. On(ps, a, S) = SumFunctionOnSet(f, S)
  BY DEF On, SumFunction
<1> HIDE DEF f
<1> QED BY <1>1, <1>2, SumConst

\* A vote by an account that has nothing on the proposal keeps the tallies.
LEMMA CastVoteTallies ==
  ASSUME block \in Nat, NEW ps, Listed(ps), AllShaped(ps), Parented(ps), AllReceipted(ps), AllCounted(ps),
         NEW a \in Account, NEW p \in DOMAIN ps, NEW support \in BOOLEAN, NEW amount \in Nat,
         ps[p].receipts[a].rawVotes = 0, CastVote(ps, a, p, support, amount)
  PROVE  /\ AllReceipted(proposals') /\ AllCounted(proposals')
         /\ \A q \in DOMAIN ps : /\ ChildrenIn(proposals', q) = ChildrenIn(ps, q)
                                 /\ ChildrenIn(ps, q) = {} /\ Tallied(ps[q]) => Tallied(proposals'[q])
<1> DEFINE children == ChildrenIn(ps, p)
           leaves == IF children = {} THEN {p} ELSE children
           root == IF ps[p].parent = 0 THEN p ELSE ps[p].parent
           each == Split(ps, p, amount)
           total == each * Cardinality(leaves)
<1>1. /\ DOMAIN proposals' = DOMAIN ps
      /\ \A q \in DOMAIN ps : proposals'[q]
           = IF q \in leaves THEN Accounted(ps[q], a, support, each)
             ELSE IF q = root THEN Accounted(ps[q], a, support, total)
             ELSE ps[q]
  BY DEF CastVote, ChildrenIn
<1>2. \A q \in DOMAIN ps : ChildrenIn(proposals', q) = ChildrenIn(ps, q)
  <2>1. \A q \in DOMAIN ps : SameProposal(ps[q], proposals'[q])
    BY CastVoteKeeps
  <2> QED BY <1>1, <2>1 DEF ChildrenIn, SameProposal
<1>3. 0 \notin DOMAIN ps
  BY DEF Listed
<1>4. IsFiniteSet(children) /\ Cardinality(children) \in Nat /\ (Cardinality(children) = 0 => children = {})
  BY ChildrenFinite
<1>5. each \in Nat
  BY <1>4 DEF Split, ChildrenIn
<1>6. IsFiniteSet(leaves) /\ Cardinality(leaves) \in Nat
  <2>1. CASE children = {}
    <3>1. leaves = {p}
      BY <2>1
    <3>2. IsFiniteSet({p}) /\ Cardinality({p}) = 1
      BY FS_Singleton
    <3> HIDE DEF leaves
    <3> QED BY <3>1, <3>2
  <2> QED BY <1>4, <2>1
<1>7. total \in Nat
  <2> HIDE DEF each, leaves
  <2> QED BY <1>5, <1>6
<1>8. /\ leaves \in SUBSET DOMAIN ps /\ root \in DOMAIN ps /\ ps[root].parent = 0
      /\ \A c \in leaves : ChildrenIn(ps, c) = {} /\ (c # root => ps[c].parent = root)
      /\ ChildrenIn(ps, root) # {} => leaves \subseteq ChildrenIn(ps, root) /\ root \notin leaves
      /\ root \notin leaves => ChildrenIn(ps, root) # {}
  BY <1>3 DEF ChildrenIn, Parented
<1>9. \A c \in leaves : ps[c].receipts[a].rawVotes = 0
  <2>1. CASE children = {}
    BY <2>1
  <2>2. CASE children # {}
    <3>1. On(ps, a, children) = 0
      BY <2>2 DEF AllCounted, Counted
    <3>2. \A c \in children : ps[c].receipts[a].rawVotes \in Nat /\ ps[c].receipts[a].rawVotes <= 0
      <4>1. children \in SUBSET DOMAIN ps
        BY DEF ChildrenIn
      <4> HIDE DEF children
      <4> QED BY <1>4, <3>1, <4>1, OnType
    <3> QED BY <2>2, <3>2
  <2> QED BY <2>1, <2>2
<1> HIDE DEF leaves, root, each, total, children
<1>10. \A q \in DOMAIN ps, n \in Nat :
         LET r == Accounted(ps[q], a, support, n)
         IN  /\ Receipted(r)
             /\ r.receipts[a].rawVotes = ps[q].receipts[a].rawVotes + n
             /\ \A b \in Account : b # a => r.receipts[b] = ps[q].receipts[b]
             /\ ps[q].receipts[a].rawVotes = 0 /\ Tallied(ps[q]) => Tallied(r)
  BY AccountedTallies DEF AllShaped, AllReceipted
<1>11. AllReceipted(proposals')
  BY <1>1, <1>5, <1>7, <1>10 DEF AllReceipted
<1>12. ASSUME NEW q \in DOMAIN ps, ChildrenIn(ps, q) = {}, Tallied(ps[q])
       PROVE  Tallied(proposals'[q])
  BY <1>1, <1>5, <1>8, <1>9, <1>10, <1>12
<1>13. ASSUME NEW q \in DOMAIN ps, ChildrenIn(ps, q) # {}
       PROVE  Counted(proposals', q)
  <2> DEFINE K == ChildrenIn(ps, q)
  <2>1. K \in SUBSET DOMAIN ps /\ IsFiniteSet(K) /\ Counted(ps, q)
    BY <1>13, ChildrenFinite DEF ChildrenIn, AllCounted
  <2>2. q \notin leaves /\ \A c \in K : ps[c].parent = q /\ c # root /\ (c \in leaves => q = root)
    BY <1>3, <1>8, <1>13 DEF ChildrenIn
  <2>3. ASSUME NEW b \in Account
        PROVE  proposals'[q].receipts[b].rawVotes = On(proposals', b, K)
    <3>1. ps[q].receipts[b].rawVotes = On(ps, b, K)
      BY <2>1 DEF Counted
    <3>2. CASE b # a \/ q # root
      <4>1. \A c \in K \cup {q} : proposals'[c].receipts[b].rawVotes = ps[c].receipts[b].rawVotes
        BY <1>1, <1>5, <1>7, <1>10, <2>1, <2>2, <3>2
      <4>2. On(proposals', b, K) = On(ps, b, K)
        BY <2>1, <4>1, OnSame
      <4> QED BY <3>1, <4>1, <4>2
    <3>3. CASE b = a /\ q = root
      <4>1. leaves \in SUBSET K
        BY <1>8, <1>13, <3>3
      <4>2. proposals'[q].receipts[a].rawVotes = ps[q].receipts[a].rawVotes + total
        BY <1>1, <1>7, <1>10, <2>2, <3>3
      <4>3. \A c \in leaves : proposals'[c].receipts[a].rawVotes = each
        BY <1>1, <1>5, <1>8, <1>9, <1>10
      <4>4. \A c \in K \ leaves : proposals'[c].receipts[a].rawVotes = ps[c].receipts[a].rawVotes
        BY <1>1, <2>1, <2>2
      <4> HIDE DEF K
      <4>5. On(proposals', a, leaves) = total
        <5>1. each \in Int
          BY <1>5
        <5>2. On(proposals', a, leaves) = each * Cardinality(leaves)
          BY <1>6, <4>3, <5>1, OnConst
        <5> QED BY <5>2 DEF total
      <4>6. On(ps, a, leaves) = 0
        <5>1. On(ps, a, leaves) = 0 * Cardinality(leaves)
          BY <1>6, <1>9, OnConst
        <5> QED BY <1>6, <5>1
      <4>7. K \ leaves \in SUBSET DOMAIN ps /\ IsFiniteSet(K \ leaves)
        BY <2>1, FS_Subset
      <4>8. On(proposals', a, K \ leaves) = On(ps, a, K \ leaves) /\ On(ps, a, K \ leaves) \in Nat
        BY <4>4, <4>7, OnSame, OnType
      <4>9. On(ps, a, K) = On(ps, a, leaves) + On(ps, a, K \ leaves)
        BY <2>1, <4>1, OnSplit
      <4>10. On(proposals', a, K) = On(proposals', a, leaves) + On(proposals', a, K \ leaves)
        BY <1>1, <1>11, <2>1, <4>1, OnSplit
      <4>11. On(proposals', a, K) = On(ps, a, K) + total
        BY <1>7, <4>5, <4>6, <4>8, <4>9, <4>10
      <4> QED BY <3>1, <3>3, <4>2, <4>11
    <3> QED BY <3>2, <3>3
  <2> QED BY <1>2, <2>3 DEF Counted
<1> QED BY <1>1, <1>2, <1>11, <1>12, <1>13 DEF AllCounted

\* Tokens are on proposals by receipts that say so, and the tallies match them.
TallyInv == threshold \in Nat /\ AllReceipted(proposals) /\ TalliesMatch

\* TalliesMatch, in the terms of the lemmas.
TalliesOK ==
  /\ AllCounted(proposals)
  /\ \A p \in Ids : ChildrenIn(proposals, p) = {} /\ Open(p) => Tallied(proposals[p])

\* The property and the terms of the lemmas agree,
LEMMA TalliesMean == TalliesMatch <=> TalliesOK
<1>1. \A p : Children(p) = ChildrenIn(proposals, p)
  BY DEF Children, ChildrenIn, Ids
<1>2. \A a, S : RawOn(a, S) = On(proposals, a, S)
  BY DEF RawOn, On, Receipt
<1>3. \A p, side : RawSide(p, side) = RawSum(proposals[p], side) /\ VotesSide(p, side) = VoteSum(proposals[p], side)
  BY DEF RawSide, VotesSide, RawSum, VoteSum, OnSide, Sided, Receipt
<1> QED BY <1>1, <1>2, <1>3 DEF TalliesMatch, TalliesOK, AllCounted, Counted, Tallied, Receipt, Ids

\* after a step as before.
LEMMA TalliesMeanNext == TalliesMatch' <=> TalliesOK'
BY TalliesMean, PTL

\* A proposal without children is open until its last block, if it is not cancelled.
LEMMA OpenMeans ==
  ASSUME StructureOK, NEW p \in Ids, Children(p) = {}
  PROVE  Open(p) <=> block <= EndBlock(p) /\ ~proposals[p].canceled
<1>1. /\ EndBlock(p) \in Nat /\ EndBlock(p) > proposals[p].startBlock
      /\ proposals[p].startBlock \in Nat /\ block \in Nat
  BY FamilyBlocks DEF StructureOK
<1>2. ~LosesChild(p)
  BY DEF LosesChild
<1>3. CASE block <= EndBlock(p)
  BY <1>1, <1>2, <1>3 DEF Open, State
<1>4. CASE ~(block <= EndBlock(p))
  <2>1. ~(block <= proposals[p].startBlock)
    BY <1>1, <1>4
  <2> QED BY <1>2, <1>4, <2>1 DEF Open, State
<1> QED BY <1>3, <1>4

OpenOnTime ==
  StructureOK => \A p \in Ids : Children(p) = {} => (Open(p) <=> block <= EndBlock(p) /\ ~proposals[p].canceled)

\* The same after a step.
LEMMA OpenMeansNext == OpenOnTime'
<1>1. OpenOnTime
  BY OpenMeans DEF OpenOnTime
<1> QED BY <1>1, PTL

\* A vote on a proposal, or on new ones.
LEMMA VotingTallies ==
  ASSUME StructureOK, TallyInv, VotesOnly, NEW ps, Listed(ps), AllShaped(ps), Parented(ps), AllCounted(ps),
         Ids \subseteq DOMAIN ps, \A q \in Ids : ps[q] = proposals[q],
         \A q \in DOMAIN ps \ Ids : Fresh(ps[q]) /\ ps[q].parent \notin Ids,
         NEW a \in Account, NEW p \in DOMAIN ps, ps[p].receipts[a].rawVotes = 0,
         NEW support \in BOOLEAN, NEW amount \in Nat, CastVote(ps, a, p, support, amount),
         threshold' = threshold
  PROVE  TallyInv'
<1>1. \A q \in DOMAIN ps \ Ids : Receipted(ps[q]) /\ Tallied(ps[q])
  BY FreshTallied
<1>2. AllReceipted(ps)
  BY <1>1 DEF TallyInv, AllReceipted, Ids
<1>3. /\ AllReceipted(proposals') /\ AllCounted(proposals') /\ DOMAIN proposals' = DOMAIN ps
      /\ \A q \in DOMAIN ps : /\ ChildrenIn(proposals', q) = ChildrenIn(ps, q)
                              /\ ChildrenIn(ps, q) = {} /\ Tallied(ps[q]) => Tallied(proposals'[q])
  BY <1>2, CastVoteTallies, CastVoteKeeps DEF StructureOK
<1>4. ASSUME NEW q \in Ids', ChildrenIn(proposals', q) = {}, Open(q)'
      PROVE  Tallied(proposals'[q])
  <2>1. q \in DOMAIN ps /\ ChildrenIn(ps, q) = {}
    BY <1>3, <1>4 DEF Ids
  <2>2. CASE q \in Ids
    <3>1. ChildrenIn(proposals, q) = {}
      BY <2>1 DEF ChildrenIn, Ids
    <3>2. Open(q)
      BY <1>4, <2>2, VotesOnlyKeepsState DEF Open
    <3>3. Tallied(proposals[q])
      BY <2>2, <3>1, <3>2, TalliesMean DEF TalliesOK, TallyInv
    <3> QED BY <1>3, <2>1, <2>2, <3>3
  <2>3. CASE q \notin Ids
    BY <1>1, <1>3, <2>1, <2>3
  <2> QED BY <2>2, <2>3
<1>5. TalliesOK'
  BY <1>1, <1>3, <1>4 DEF TalliesOK
<1> QED BY <1>3, <1>5, TalliesMeanNext DEF TallyInv

\* Proposing, plain or with children.
LEMMA AddingTallies ==
  ASSUME StructureOK, TallyInv, NEW ps, NEW p, NEW a \in Account, Adds(ps, p, a),
         CastVote(ps, a, p, TRUE, threshold), UNCHANGED <<queuedTransactions, quorum, threshold>>
  PROVE  TallyInv'
<1>1. VotesOnly
  BY AddingIsVotesOnly
<1>2. 0 \notin DOMAIN ps /\ p \notin Ids /\ p \in DOMAIN ps
  BY DEF Adds, Listed
<1>3. \A q \in DOMAIN ps \ Ids : Fresh(ps[q]) /\ ps[q].parent \in {0, p} /\ ps[q].parent \notin Ids
  BY <1>2 DEF Adds
<1>4. \A q \in DOMAIN ps \ Ids : \A b \in Account : ps[q].receipts[b].rawVotes = 0
  BY <1>3 DEF Fresh, NoReceipt
<1>5. AllCounted(ps)
  <2> SUFFICES ASSUME NEW q \in DOMAIN ps, ChildrenIn(ps, q) # {}, NEW b \in Account
               PROVE  ps[q].receipts[b].rawVotes = On(ps, b, ChildrenIn(ps, q))
    BY DEF AllCounted, Counted
  <2>1. CASE q \in Ids
    <3>1. ChildrenIn(ps, q) = ChildrenIn(proposals, q)
      BY <1>3, <2>1 DEF ChildrenIn, Adds, Ids
    <3>2. Counted(proposals, q)
      BY <2>1, <3>1, TalliesMean DEF TalliesOK, TallyInv, AllCounted, Ids
    <3>3. ChildrenIn(proposals, q) \in SUBSET DOMAIN proposals /\ IsFiniteSet(ChildrenIn(proposals, q))
      BY ChildrenFinite DEF StructureOK, ChildrenIn
    <3>4. \A c \in ChildrenIn(proposals, q) : ps[c].receipts[b].rawVotes = proposals[c].receipts[b].rawVotes
      BY DEF ChildrenIn, Adds, Ids
    <3>5. On(ps, b, ChildrenIn(proposals, q)) = On(proposals, b, ChildrenIn(proposals, q))
      BY <3>3, <3>4, OnSame DEF TallyInv
    <3> QED BY <2>1, <3>1, <3>2, <3>5 DEF Counted, Adds
  <2>2. CASE q \notin Ids
    <3>1. \A c \in ChildrenIn(ps, q) : c \notin Ids
      <4> SUFFICES ASSUME NEW c \in Ids, ps[c].parent = q PROVE FALSE
        BY DEF ChildrenIn
      <4>1. proposals[c].parent = q /\ q # 0
        BY <1>2 DEF Adds
      <4> QED BY <2>2, <4>1 DEF StructureOK, Parented, Ids
    <3>2. \A c \in ChildrenIn(ps, q) : ps[c].receipts[b].rawVotes = 0
      BY <1>4, <3>1 DEF ChildrenIn
    <3>3. IsFiniteSet(ChildrenIn(ps, q)) /\ Cardinality(ChildrenIn(ps, q)) \in Nat
      BY ChildrenFinite DEF Adds
    <3>4. On(ps, b, ChildrenIn(ps, q)) = 0 * Cardinality(ChildrenIn(ps, q))
      BY <3>2, <3>3, OnConst
    <3>5. 0 * Cardinality(ChildrenIn(ps, q)) = 0
      BY <3>3
    <3>6. ps[q].receipts[b].rawVotes = 0
      BY <1>4, <2>2
    <3> QED BY <3>4, <3>5, <3>6
  <2> QED BY <2>1, <2>2
<1>6. ps[p].receipts[a].rawVotes = 0 /\ threshold \in Nat
  BY <1>2, <1>4 DEF TallyInv
<1> QED BY <1>1, <1>2, <1>3, <1>5, <1>6, VotingTallies DEF Adds

\* A vote on an existing proposal, which needs an empty receipt.
LEMMA VoteTallies ==
  ASSUME StructureOK, TallyInv, NEW a \in Account, NEW p \in Ids, NEW support \in BOOLEAN,
         NEW amount \in VoteAmount, Vote(a, p, support, amount)
  PROVE  TallyInv'
<1>1. VotesOnly /\ CastVote(proposals, a, p, support, amount) /\ threshold' = threshold
  BY VoteIsVotesOnly DEF Vote
<1>2. proposals[p].receipts[a].rawVotes = 0
  BY DEF Vote, Receipt, TallyInv, AllReceipted, Receipted, Ids
<1>3. AllCounted(proposals) /\ amount \in Nat
  BY TalliesMean, GovernorAssumption DEF TalliesOK, TallyInv
<1>4. Listed(proposals) /\ AllShaped(proposals) /\ Parented(proposals) /\ Ids = DOMAIN proposals
  BY DEF StructureOK, Ids
<1> QED BY <1>1, <1>2, <1>3, <1>4, VotingTallies

\* Decisions, time, the token and the settings leave votes and receipts alone.
SameTally(q, r) ==
  /\ r.parent = q.parent /\ r.startBlock = q.startBlock /\ r.receipts = q.receipts
  /\ r.rawForVotes = q.rawForVotes /\ r.rawAgainstVotes = q.rawAgainstVotes
  /\ r.forVotes = q.forVotes /\ r.againstVotes = q.againstVotes
  /\ q.canceled => r.canceled

\* A step that leaves votes and receipts alone closes proposals at most.
LEMMA QuietTallies ==
  ASSUME StructureOK, StructureOK', TallyInv, Ids' = Ids,
         \A q \in Ids : SameTally(proposals[q], proposals'[q]), block <= block', threshold' \in Nat
  PROVE  TallyInv'
<1>1. \A q \in Ids : ChildrenIn(proposals', q) = ChildrenIn(proposals, q)
  BY DEF ChildrenIn, SameTally, Ids
<1>2. AllReceipted(proposals')
  BY DEF TallyInv, AllReceipted, Receipted, SameTally, Ids
<1>3. AllCounted(proposals')
  <2> SUFFICES ASSUME NEW q \in Ids, ChildrenIn(proposals, q) # {}, NEW a \in Account
               PROVE  proposals'[q].receipts[a].rawVotes = On(proposals', a, ChildrenIn(proposals, q))
    BY <1>1 DEF AllCounted, Counted, Ids
  <2>1. Counted(proposals, q)
    BY TalliesMean DEF TalliesOK, TallyInv, AllCounted, Ids
  <2>2. ChildrenIn(proposals, q) \in SUBSET DOMAIN proposals /\ IsFiniteSet(ChildrenIn(proposals, q))
    BY ChildrenFinite DEF StructureOK, ChildrenIn
  <2>3. \A c \in Ids : proposals'[c].receipts[a].rawVotes = proposals[c].receipts[a].rawVotes
    BY DEF SameTally
  <2>4. On(proposals', a, ChildrenIn(proposals, q)) = On(proposals, a, ChildrenIn(proposals, q))
    BY <2>2, <2>3, OnSame DEF TallyInv, Ids
  <2> QED BY <2>1, <2>3, <2>4 DEF Counted
<1>4. ASSUME NEW q \in Ids, ChildrenIn(proposals, q) = {}, Open(q)'
      PROVE  Tallied(proposals'[q])
  <2>1. Children(q) = {} /\ Children(q)' = {}
    BY <1>1, <1>4 DEF Children, ChildrenIn, Ids
  <2>2. (Open(q) <=> block <= EndBlock(q) /\ ~proposals[q].canceled)
    BY <2>1, OpenMeans
  <2>3. Open(q)' <=> block' <= EndBlock(q)' /\ ~proposals'[q].canceled
    BY <2>1, OpenMeansNext DEF OpenOnTime
  <2>4. EndBlock(q)' = EndBlock(q) /\ EndBlock(q) \in Nat /\ block \in Nat /\ block' \in Nat
    BY FamilyBlocks DEF EndBlock, SameTally, StructureOK
  <2>5. Open(q)
    BY <1>4, <2>2, <2>3, <2>4 DEF SameTally
  <2>6. Tallied(proposals[q])
    BY <1>4, <2>5, TalliesMean DEF TalliesOK, TallyInv
  <2>7. PICK p, r : p = proposals[q] /\ r = proposals'[q]
    OBVIOUS
  <2>8. SameTally(p, r) /\ Tallied(p)
    BY <2>6, <2>7
  <2>9. \A side : RawSum(r, side) = RawSum(p, side) /\ VoteSum(r, side) = VoteSum(p, side)
    BY ONLY <2>8 DEF SameTally, RawSum, VoteSum, Sided
  <2>10. Tallied(r)
    BY ONLY <2>8, <2>9 DEF SameTally, Tallied
  <2> QED BY <2>7, <2>10
<1>5. TalliesOK'
  BY <1>1, <1>3, <1>4 DEF TalliesOK
<1> QED BY <1>2, <1>5, TalliesMeanNext DEF TallyInv

\* Who refunds a proposal that is open takes his vote back.
LEMMA OpenRefund ==
  ASSUME StructureOK, NEW p \in Ids, Children(p) = {}, Open(p), NEW a, MayRefund(a, p)
  PROVE  RefundState(p) = "Active"
<1> DEFINE r == proposals[p].parent
<1>1. block <= EndBlock(p) /\ block \in Nat /\ EndBlock(p) \in Nat
  BY OpenMeans, FamilyBlocks DEF StructureOK
<1>2. ASSUME r # 0 PROVE State(r) \notin {"QuorumFailed", "Defeated"}
  <2>1. r \in Ids /\ EndBlock(r) = EndBlock(p)
    BY <1>2 DEF StructureOK, Parented, EndBlock, Ids
  <2>2. ~(block > EndBlock(r)) /\ block <= EndBlock(r)
    BY <1>1, <2>1
  <2> QED BY <2>2 DEF State
<1>3. RefundState(p) = State(p)
  BY <1>2 DEF RefundState
<1>4. State(p) \in {"Pending", "Active"}
  BY DEF Open
<1>5. RefundState(p) # "Pending"
  BY DEF MayRefund, Passed
<1> QED BY <1>3, <1>4, <1>5

\* What taking back makes of the receipt, and of the tally while voting.
LEMMA TakenBackTallies ==
  ASSUME StructureOK, NEW p \in Ids, Receipted(proposals[p]), NEW a \in Account
  PROVE  LET q == proposals[p]
             r == TakenBack(p, a)
         IN  /\ Receipted(r) /\ r.receipts[a].rawVotes = 0
             /\ \A b \in Account : b # a => r.receipts[b] = q.receipts[b]
             /\ RefundState(p) = "Active" /\ Tallied(q) => Tallied(r)
<1> DEFINE q == proposals[p]
           r == TakenBack(p, a)
           raw == q.receipts[a].rawVotes
           support == q.receipts[a].support
           receipt == [q.receipts[a] EXCEPT !.hasVoted = FALSE, !.rawVotes = 0, !.refunded = TRUE]
           z == [q.receipts EXCEPT ![a] = receipt]
           x1 == q.forVotes - Sqrt(raw)
           y1 == q.rawForVotes - raw
           x2 == q.againstVotes - Sqrt(raw)
           y2 == q.rawAgainstVotes - raw
<1>1. Shaped(q) /\ Receipted(q)
  BY DEF StructureOK, AllShaped, Ids
<1>2. q.receipts \in [Account -> ReceiptSet] /\ q.receipts[a] \in ReceiptSet /\ raw \in Nat /\ support \in BOOLEAN
  BY <1>1 DEF Receipted, ReceiptSet
<1>3. receipt \in ReceiptSet /\ receipt.rawVotes = 0 /\ receipt.support = support
  BY <1>2 DEF ReceiptSet
<1>4. r = IF RefundState(p) # "Active" THEN [q EXCEPT !.receipts = z]
          ELSE IF support
          THEN [q EXCEPT !.forVotes = x1, !.rawForVotes = y1, !.receipts = z]
          ELSE [q EXCEPT !.againstVotes = x2, !.rawAgainstVotes = y2, !.receipts = z]
  <2>1. r = IF RefundState(p) # "Active" THEN [q EXCEPT !.receipts[a] = receipt]
            ELSE IF receipt.support
            THEN [[q EXCEPT !.receipts[a] = receipt] EXCEPT
                    !.forVotes = @ - Sqrt(raw), !.rawForVotes = @ - raw]
            ELSE [[q EXCEPT !.receipts[a] = receipt] EXCEPT
                    !.againstVotes = @ - Sqrt(raw), !.rawAgainstVotes = @ - raw]
    BY DEF TakenBack, Receipt
  <2> HIDE DEF receipt, raw, q, r, support
  <2>2. [q EXCEPT !.receipts[a] = receipt] = [q EXCEPT !.receipts = z]
    BY <1>1 DEF Shaped, Fields
  <2>3. [[q EXCEPT !.receipts[a] = receipt] EXCEPT
                    !.forVotes = @ - Sqrt(raw), !.rawForVotes = @ - raw]
          = [q EXCEPT !.forVotes = x1, !.rawForVotes = y1, !.receipts = z]
    BY <1>1 DEF Shaped, Fields
  <2>4. [[q EXCEPT !.receipts[a] = receipt] EXCEPT
                    !.againstVotes = @ - Sqrt(raw), !.rawAgainstVotes = @ - raw]
          = [q EXCEPT !.againstVotes = x2, !.rawAgainstVotes = y2, !.receipts = z]
    BY <1>1 DEF Shaped, Fields
  <2> HIDE DEF x1, x2, y1, y2, z
  <2> QED BY <1>3, <2>1, <2>2, <2>3, <2>4
<1> HIDE DEF x1, x2, y1, y2, z, receipt, raw, q, r, support
<1>5. /\ r.receipts = z
      /\ RefundState(p) = "Active" /\ support
           => /\ r.forVotes = x1 /\ r.rawForVotes = y1
              /\ r.againstVotes = q.againstVotes /\ r.rawAgainstVotes = q.rawAgainstVotes
      /\ RefundState(p) = "Active" /\ ~support
           => /\ r.againstVotes = x2 /\ r.rawAgainstVotes = y2
              /\ r.forVotes = q.forVotes /\ r.rawForVotes = q.rawForVotes
  BY <1>1, <1>4 DEF Shaped, Fields
<1>6. r.receipts[a] = receipt /\ \A b \in Account : b # a => r.receipts[b] = q.receipts[b]
  BY <1>2, <1>5 DEF z
<1>7. Receipted(r)
  <2>1. r.receipts \in [Account -> ReceiptSet]
    BY <1>2, <1>3, <1>5 DEF z
  <2>2. \A b \in Account : r.receipts[b].rawVotes # 0 => r.receipts[b].hasVoted
    BY <1>1, <1>3, <1>6 DEF Receipted
  <2> QED BY <2>1, <2>2 DEF Receipted
<1>8. ASSUME RefundState(p) = "Active", Tallied(q) PROVE Tallied(r)
  <2>1. \A side : Sided(r, a, side) = 0
    BY <1>3, <1>6 DEF Sided
  <2>2. Sided(q, a, support) = raw /\ Sided(q, a, ~support) = 0
    BY <1>2 DEF Sided, raw, support
  <2>3. Sqrt(0) = 0 /\ Sqrt(raw) \in Nat
    BY <1>2, SqrtType
  <2>4. \A side : /\ RawSum(r, side) = RawSum(q, side) - Sided(q, a, side) + Sided(r, a, side)
                  /\ VoteSum(r, side) = VoteSum(q, side) - Sqrt(Sided(q, a, side)) + Sqrt(Sided(r, a, side))
    BY <1>1, <1>6, <1>7, SumsChange
  <2>5. \A side : RawSum(q, side) \in Nat /\ VoteSum(q, side) \in Nat
    BY <1>1, SumsType
  <2>6. /\ RawSum(r, support) = RawSum(q, support) - raw /\ RawSum(r, ~support) = RawSum(q, ~support)
        /\ VoteSum(r, support) = VoteSum(q, support) - Sqrt(raw) /\ VoteSum(r, ~support) = VoteSum(q, ~support)
    BY <1>2, <2>1, <2>2, <2>3, <2>4, <2>5
  <2>7. CASE support
    <3>1. support = TRUE /\ (~support) = FALSE
      BY <1>2, <2>7
    <3> QED BY <1>5, <1>8, <2>6, <2>7, <3>1 DEF Tallied, x1, y1
  <2>8. CASE ~support
    <3>1. support = FALSE /\ (~support) = TRUE
      BY <1>2, <2>8
    <3> QED BY <1>5, <1>8, <2>6, <2>8, <3>1 DEF Tallied, x2, y2
  <2> QED BY <2>7, <2>8
<1> QED BY <1>3, <1>6, <1>7, <1>8 DEF q, r

\* What a refund makes of the receipt on the parent.
LEMMA OnParentTallies ==
  ASSUME StructureOK, NEW p \in Ids, Receipted(proposals[p]), NEW a \in Account, NEW refunds,
         RawOn(a, refunds) \in Nat, RawOn(a, refunds) <= proposals[p].receipts[a].rawVotes
  PROVE  LET q == proposals[p]
             r == OnParent(p, a, refunds)
         IN  /\ Receipted(r) /\ r.receipts[a].rawVotes = q.receipts[a].rawVotes - RawOn(a, refunds)
             /\ \A b \in Account : b # a => r.receipts[b] = q.receipts[b]
<1> DEFINE q == proposals[p]
           r == OnParent(p, a, refunds)
           raw == q.receipts[a].rawVotes - RawOn(a, refunds)
           receipt == [q.receipts[a] EXCEPT !.rawVotes = raw, !.hasVoted = (raw > 0), !.refunded = (raw = 0)]
<1>1. Shaped(q) /\ Receipted(q)
  BY DEF StructureOK, AllShaped, Ids
<1>2. q.receipts \in [Account -> ReceiptSet] /\ q.receipts[a] \in ReceiptSet /\ raw \in Nat
  BY <1>1 DEF Receipted, ReceiptSet
<1>3. r = [q EXCEPT !.receipts[a].rawVotes = raw, !.receipts[a].hasVoted = (raw > 0),
                    !.receipts[a].refunded = (raw = 0)]
  BY DEF OnParent, Receipt
<1>4. r.receipts = [q.receipts EXCEPT ![a].rawVotes = raw, ![a].hasVoted = (raw > 0), ![a].refunded = (raw = 0)]
  <2> HIDE DEF q, r, raw
  <2> QED BY <1>1, <1>3 DEF Shaped, Fields
<1> HIDE DEF q, r, raw
<1>5. /\ r.receipts[a] \in ReceiptSet /\ r.receipts[a].rawVotes = raw /\ (r.receipts[a].hasVoted <=> raw > 0)
      /\ \A b \in Account : b # a => r.receipts[b] = q.receipts[b]
      /\ r.receipts = [b \in Account |-> r.receipts[b]]
  <2>1. /\ r.receipts[a] = receipt /\ \A b \in Account : b # a => r.receipts[b] = q.receipts[b]
        /\ r.receipts = [b \in Account |-> r.receipts[b]]
    <3> DEFINE x == (raw > 0)
               y == (raw = 0)
    <3>1. r.receipts = [q.receipts EXCEPT ![a].rawVotes = raw, ![a].hasVoted = x, ![a].refunded = y]
      BY <1>4
    <3>2. receipt = [q.receipts[a] EXCEPT !.rawVotes = raw, !.hasVoted = x, !.refunded = y]
      OBVIOUS
    <3> HIDE DEF x, y, receipt
    <3> QED BY <1>2, <3>1, <3>2 DEF ReceiptSet
  <2>2. receipt \in ReceiptSet /\ receipt.rawVotes = raw /\ (receipt.hasVoted <=> raw > 0)
    <3>1. (raw > 0) \in BOOLEAN /\ (raw = 0) \in BOOLEAN
      OBVIOUS
    <3> QED BY <1>2, <3>1 DEF ReceiptSet
  <2> HIDE DEF receipt
  <2> QED BY <2>1, <2>2
<1>6. Receipted(r)
  <2>1. \A b \in Account : r.receipts[b] \in ReceiptSet
    BY <1>2, <1>5
  <2>2. r.receipts \in [Account -> ReceiptSet]
    BY <1>5, <2>1
  <2>3. \A b \in Account : r.receipts[b].rawVotes # 0 => r.receipts[b].hasVoted
    <3> SUFFICES ASSUME NEW b \in Account, r.receipts[b].rawVotes # 0 PROVE r.receipts[b].hasVoted
      OBVIOUS
    <3>1. raw # 0 => raw > 0
      BY <1>2
    <3> QED BY <1>1, <1>5, <3>1 DEF Receipted
  <2> QED BY <2>2, <2>3 DEF Receipted
<1> QED BY <1>5, <1>6 DEF q, r, raw

\* A refund takes from the receipts of the leaves what it takes from that of their parent.
LEMMA RefundTallies ==
  ASSUME StructureOK, TallyInv, NEW a \in Account, NEW p \in Ids, Refund(a, p)
  PROVE  TallyInv'
<1> DEFINE refunds == IF Children(p) = {} THEN {p} ELSE {c \in Children(p) : ~Receipt(c, a).refunded}
           root == Family(p)
<1>1. /\ VotesOnly /\ threshold' = threshold
      /\ \A c \in refunds : MayRefund(a, c)
      /\ Ids' = Ids
      /\ \A q \in Ids : proposals'[q] = IF q \in refunds THEN TakenBack(q, a)
                                      ELSE IF q = root THEN OnParent(q, a, refunds)
                                      ELSE proposals[q]
  BY RefundIsVotesOnly DEF Refund, Ids
<1>2. 0 \notin Ids /\ Ids = DOMAIN proposals
  BY DEF StructureOK, Listed, Ids
<1>3. \A q \in Ids : Children(q) = ChildrenIn(proposals, q) /\ ChildrenIn(proposals', q) = ChildrenIn(proposals, q)
  BY <1>1, ChildrenKept DEF Children, ChildrenIn, Ids
<1>4. IsFiniteSet(refunds) /\ Cardinality(refunds) \in Nat
  <2>1. CASE Children(p) = {}
    <3>1. refunds = {p}
      BY <2>1
    <3>2. IsFiniteSet({p}) /\ Cardinality({p}) = 1
      BY FS_Singleton
    <3> HIDE DEF refunds
    <3> QED BY <3>1, <3>2
  <2>2. CASE Children(p) # {}
    <3>1. IsFiniteSet(Children(p)) /\ refunds \in SUBSET Children(p)
      BY <1>3, <2>2, ChildrenFinite DEF StructureOK
    <3>2. IsFiniteSet(refunds)
      BY <3>1, FS_Subset
    <3> HIDE DEF refunds
    <3> QED BY <3>2, FS_CardinalityType
  <2> QED BY <2>1, <2>2
<1>5. /\ refunds \in SUBSET Ids /\ root \in Ids /\ proposals[root].parent = 0
      /\ \A c \in refunds : Children(c) = {} /\ (c # root => proposals[c].parent = root)
      /\ Children(root) # {} => refunds \subseteq Children(root) /\ root \notin refunds
      /\ root \notin refunds => Children(root) # {}
  BY <1>2 DEF Children, StructureOK, Parented, Family
<1>6. AllReceipted(proposals) /\ AllCounted(proposals) /\ \A q \in Ids : Receipted(proposals[q])
  BY TalliesMean DEF TalliesOK, TallyInv, AllReceipted, Ids
<1> HIDE DEF refunds, root
<1>7. \A q \in refunds : /\ Receipted(proposals'[q]) /\ proposals'[q].receipts[a].rawVotes = 0
                         /\ \A b \in Account : b # a => proposals'[q].receipts[b] = proposals[q].receipts[b]
                         /\ RefundState(q) = "Active" /\ Tallied(proposals[q]) => Tallied(proposals'[q])
  BY <1>1, <1>5, <1>6, TakenBackTallies
<1>8. ASSUME Children(root) # {}
      PROVE  /\ Receipted(proposals'[root])
             /\ proposals'[root].receipts[a].rawVotes = proposals[root].receipts[a].rawVotes - On(proposals, a, refunds)
             /\ \A b \in Account : b # a => proposals'[root].receipts[b] = proposals[root].receipts[b]
             /\ On(proposals, a, refunds) \in Nat
             /\ On(proposals, a, Children(root)) = On(proposals, a, refunds) + On(proposals, a, Children(root) \ refunds)
             /\ On(proposals, a, Children(root) \ refunds) \in Nat
             /\ proposals[root].receipts[a].rawVotes = On(proposals, a, Children(root))
             /\ IsFiniteSet(Children(root)) /\ IsFiniteSet(Children(root) \ refunds)
  <2> DEFINE K == Children(root)
  <2>1. K \in SUBSET DOMAIN proposals /\ IsFiniteSet(K) /\ refunds \in SUBSET K
    <3>1. K = ChildrenIn(proposals, root) /\ IsFiniteSet(ChildrenIn(proposals, root))
      BY <1>3, <1>5, ChildrenFinite DEF StructureOK
    <3> QED BY <1>5, <1>8, <3>1 DEF ChildrenIn
  <2>2. proposals[root].receipts[a].rawVotes = On(proposals, a, K)
    BY <1>3, <1>5, <1>6, <1>8 DEF AllCounted, Counted, Ids
  <2> HIDE DEF K
  <2>3. IsFiniteSet(K \ refunds) /\ K \ refunds \in SUBSET DOMAIN proposals /\ refunds \in SUBSET DOMAIN proposals
    BY <2>1, FS_Subset
  <2>4. On(proposals, a, K) = On(proposals, a, refunds) + On(proposals, a, K \ refunds)
    BY <1>6, <2>1, OnSplit
  <2>5. On(proposals, a, refunds) \in Nat /\ On(proposals, a, K \ refunds) \in Nat
    BY <1>4, <1>6, <2>3, OnType
  <2>6. RawOn(a, refunds) = On(proposals, a, refunds)
    BY DEF RawOn, On, Receipt
  <2>7. On(proposals, a, refunds) <= On(proposals, a, K)
    BY <2>4, <2>5
  <2>8. proposals'[root] = OnParent(root, a, refunds)
    BY <1>1, <1>5, <1>8
  <2>9. /\ Receipted(proposals'[root])
        /\ proposals'[root].receipts[a].rawVotes = proposals[root].receipts[a].rawVotes - On(proposals, a, refunds)
        /\ \A b \in Account : b # a => proposals'[root].receipts[b] = proposals[root].receipts[b]
    BY <1>5, <1>6, <2>2, <2>5, <2>6, <2>7, <2>8, OnParentTallies
  <2> QED BY <2>1, <2>2, <2>3, <2>4, <2>5, <2>9 DEF K
<1>9. \A q \in Ids : q \notin refunds /\ q # root => proposals'[q] = proposals[q]
  BY <1>1
<1>10. AllReceipted(proposals')
  <2>1. ASSUME NEW q \in Ids PROVE Receipted(proposals'[q])
    BY <1>5, <1>6, <1>7, <1>8, <1>9
  <2> QED BY <1>1, <2>1 DEF AllReceipted, Ids
<1>11. AllCounted(proposals')
  <2> SUFFICES ASSUME NEW q \in Ids, Children(q) # {}, NEW b \in Account
               PROVE  proposals'[q].receipts[b].rawVotes = On(proposals', b, Children(q))
    BY <1>1, <1>3 DEF AllCounted, Counted, Ids
  <2>1. Children(q) \in SUBSET Ids /\ IsFiniteSet(Children(q)) /\ proposals[q].receipts[b].rawVotes = On(proposals, b, Children(q))
    <3>1. Children(q) = ChildrenIn(proposals, q) /\ IsFiniteSet(ChildrenIn(proposals, q))
      BY <1>3, ChildrenFinite DEF StructureOK
    <3>2. Counted(proposals, q)
      BY <1>2, <1>6, <3>1 DEF AllCounted
    <3> QED BY <1>2, <3>1, <3>2 DEF ChildrenIn, Counted
  <2>2. q \notin refunds /\ \A c \in Children(q) : c # root /\ (c \in refunds => q = root)
    BY <1>2, <1>5 DEF Children
  <2>3. CASE b # a \/ q # root
    <3>1. \A c \in Children(q) : proposals'[c].receipts[b].rawVotes = proposals[c].receipts[b].rawVotes
      BY <1>7, <1>9, <2>1, <2>2, <2>3
    <3>2. On(proposals', b, Children(q)) = On(proposals, b, Children(q))
      BY <1>2, <1>6, <2>1, <3>1, OnSame
    <3>3. proposals'[q].receipts[b] = proposals[q].receipts[b]
      BY <1>8, <1>9, <2>2, <2>3
    <3> QED BY <2>1, <3>2, <3>3
  <2>4. CASE b = a /\ q = root
    <3> DEFINE K == Children(q)
               R == K \ refunds
    <3>1. /\ K \in SUBSET DOMAIN proposals' /\ IsFiniteSet(K) /\ IsFiniteSet(R) /\ R \in SUBSET DOMAIN proposals
          /\ refunds \in SUBSET K
      BY <1>1, <1>2, <1>5, <1>8, <2>1, <2>4 DEF Ids
    <3>2. \A c \in R : proposals'[c].receipts[a].rawVotes = proposals[c].receipts[a].rawVotes
      BY <1>9, <2>1, <2>2
    <3> HIDE DEF K, R
    <3>3. On(proposals', a, R) = On(proposals, a, R)
      BY <1>6, <3>1, <3>2, OnSame
    <3>4. On(proposals', a, refunds) = 0
      <4>1. On(proposals', a, refunds) = 0 * Cardinality(refunds)
        BY <1>4, <1>7, OnConst
      <4> QED BY <1>4, <4>1
    <3>5. On(proposals', a, K) = On(proposals', a, refunds) + On(proposals', a, R)
      BY <1>10, <3>1, OnSplit DEF R
    <3>6. /\ On(proposals, a, R) \in Nat /\ On(proposals, a, refunds) \in Nat
          /\ proposals'[q].receipts[a].rawVotes = proposals[q].receipts[a].rawVotes - On(proposals, a, refunds)
          /\ proposals[q].receipts[a].rawVotes = On(proposals, a, refunds) + On(proposals, a, R)
      BY <1>8, <2>4 DEF K, R
    <3> QED BY <2>4, <3>3, <3>4, <3>5, <3>6 DEF K
  <2> QED BY <2>3, <2>4
<1>12. ASSUME NEW q \in Ids, ChildrenIn(proposals', q) = {}, Open(q)'
       PROVE  Tallied(proposals'[q])
  <2>1. Children(q) = {} /\ ChildrenIn(proposals, q) = {} /\ Open(q)
    BY <1>1, <1>3, <1>12, VotesOnlyKeepsState DEF Open
  <2>2. Tallied(proposals[q])
    BY <2>1, TalliesMean DEF TalliesOK, TallyInv
  <2>3. q \in refunds => RefundState(q) = "Active"
    BY <1>1, <2>1, OpenRefund
  <2> QED BY <1>5, <1>7, <1>9, <2>1, <2>2, <2>3
<1>13. TalliesOK'
  BY <1>1, <1>11, <1>12 DEF TalliesOK
<1> QED BY <1>1, <1>10, <1>13, TalliesMeanNext DEF TallyInv

\* Every step keeps the tallies.
LEMMA NextKeepsTallies ==
  ASSUME GovInv, TallyInv, [Next]_vars
  PROVE  TallyInv'
<1>1. StructureOK /\ StructureOK' /\ block \in Nat
  BY NextKeeps DEF GovInv, StructureOK
<1>2. ASSUME block <= block', proposals' = proposals, threshold' = threshold
      PROVE  TallyInv'
  <2>1. Ids' = Ids /\ \A q \in Ids : SameTally(proposals[q], proposals'[q])
    BY <1>2 DEF Ids, SameTally
  <2> QED BY <1>1, <1>2, <2>1, QuietTallies DEF TallyInv
<1>3. CASE DaoNext /\ UNCHANGED <<queuedTransactions, govVars>>
  <2>1. block <= block'
    <3>1. MineBlock => block <= block'
      BY <1>1 DEF MineBlock
    <3>2. TokenCall => block <= block'
      BY <1>1 DEF TokenCall
    <3> QED BY <1>3, <3>1, <3>2 DEF DaoNext, Transfer, Delegate, AddToTotalSupply
  <2> QED BY <1>2, <1>3, <2>1 DEF govVars
<1>4. ASSUME NEW a \in Account, NEW x \in Action, Propose(a, x)
      PROVE  TallyInv'
  BY <1>1, <1>4, ProposeAdds, AddingTallies DEF Propose
<1>5. ASSUME NEW a \in Account, NEW n \in 1 .. MaxProposals, NEW actions \in [1 .. n -> Action],
             ProposeMultiAttribute(a, actions)
      PROVE  TallyInv'
  <2>1. n \in Nat \ {0}
    BY GovernorAssumption
  <2>2. Adds(proposals \o Made(a, actions), Len(proposals) + 1, a)
    BY <1>1, <2>1, ProposeMultiAttributeAdds
  <2>3. /\ CastVote(proposals \o Made(a, actions), a, Len(proposals) + 1, TRUE, threshold)
        /\ UNCHANGED <<queuedTransactions, quorum, threshold>>
    BY <1>5 DEF ProposeMultiAttribute, Made
  <2> QED BY <1>1, <2>2, <2>3, AddingTallies
<1>6. ASSUME NEW a \in Account, NEW p \in Ids, NEW support \in BOOLEAN, NEW n \in VoteAmount,
             Vote(a, p, support, n)
      PROVE  TallyInv'
  BY <1>1, <1>6, VoteTallies
<1>7. ASSUME NEW a \in Account, NEW p \in Ids, Refund(a, p)
      PROVE  TallyInv'
  BY <1>1, <1>7, RefundTallies
<1>8. ASSUME NEW p \in Ids, NEW r, proposals' = [proposals EXCEPT ![p] = r], SameTally(proposals[p], r),
             block' = block, threshold' = threshold
      PROVE  TallyInv'
  <2>1. Ids' = Ids /\ \A q \in Ids : SameTally(proposals[q], proposals'[q])
    BY <1>8 DEF Ids, SameTally
  <2> QED BY <1>1, <1>8, <2>1, QuietTallies DEF TallyInv
<1>9. \A p \in Ids : \A x : /\ SameTally(proposals[p], [proposals[p] EXCEPT !.eta = x])
                         /\ SameTally(proposals[p], [proposals[p] EXCEPT !.executed = x])
                         /\ SameTally(proposals[p], [proposals[p] EXCEPT !.canceled = TRUE])
  <2> SUFFICES ASSUME NEW p \in Ids, NEW x
               PROVE  /\ SameTally(proposals[p], [proposals[p] EXCEPT !.eta = x])
                      /\ SameTally(proposals[p], [proposals[p] EXCEPT !.executed = x])
                      /\ SameTally(proposals[p], [proposals[p] EXCEPT !.canceled = TRUE])
    OBVIOUS
  <2>1. Shaped(proposals[p])
    BY <1>1 DEF StructureOK, AllShaped, Ids
  <2> QED BY <2>1 DEF Shaped, Fields, SameTally
<1>10. ASSUME NEW a \in Account, NEW p \in Ids, Cancel(a, p)
       PROVE  TallyInv'
  BY <1>8, <1>9, <1>10 DEF Cancel, daoVars
<1>11. ASSUME NEW p \in Ids, Queue(p)
       PROVE  TallyInv'
  <2>1. block' = block /\ threshold' = threshold /\ proposals' = [proposals EXCEPT ![p].eta = block + Delay]
    BY <1>11 DEF Queue
  <2> QED BY <1>8, <1>9, <2>1
<1>12. ASSUME NEW p \in Ids, Execute(p)
       PROVE  TallyInv'
  BY <1>8, <1>9, <1>12 DEF Execute, daoVars
<1>13. ASSUME NEW q \in Quorum, NEW t \in Threshold, Set(q, t)
       PROVE  TallyInv'
  <2>1. Ids' = Ids /\ (\A x \in Ids : SameTally(proposals[x], proposals'[x])) /\ block' = block
        /\ threshold' \in Nat
    BY <1>13, GovernorAssumption DEF Set, Ids, SameTally
  <2> QED BY <1>1, <2>1, QuietTallies
<1>14. CASE UNCHANGED vars
  BY <1>1, <1>2, <1>14 DEF vars, daoVars, govVars
<1>15. CASE Next
  BY <1>3, <1>4, <1>5, <1>6, <1>7, <1>10, <1>11, <1>12, <1>13, <1>15 DEF Next
<1> QED BY <1>14, <1>15

\* Nothing is counted before any proposal.
LEMMA InitTallyInv == Init => TallyInv
<1> SUFFICES ASSUME Init PROVE TallyInv
  OBVIOUS
<1>1. proposals = <<>> /\ threshold \in Nat
  BY GovernorAssumption DEF Init, GovInit
<1>2. Ids = {} /\ DOMAIN proposals = {}
  BY <1>1 DEF Ids
<1> QED BY <1>1, <1>2 DEF TallyInv, AllReceipted, TalliesMatch

\* TalliesMatch: while it is open a proposal counts the receipts that stand, each by the root of its
\* tokens, and a receipt on a parent is the sum of those on its children (_accountVotes, _refund,
\* _accountRefundOnParent).
THEOREM TalliesAlwaysMatch == Spec => []TalliesMatch
<1>1. GovInv /\ TallyInv /\ [Next]_vars => TallyInv'
  BY NextKeepsTallies
<1>2. TallyInv => TalliesMatch
  BY DEF TallyInv
<1> QED BY <1>1, <1>2, InitTallyInv, GovernanceInvariant, PTL DEF Spec

-----------------------------------------------------------------------------
(* Claims. *)

LeavesIn(ps, p) == IF ChildrenIn(ps, p) = {} THEN {p} ELSE ChildrenIn(ps, p)

\* What is on a proposal, what of it its proposer put there, and what it counts.
RawOf(q) == SumFunction([a \in Account |-> q.receipts[a].rawVotes])
Own(q) == q.receipts[q.proposer].rawVotes
Tally(q) == q.rawForVotes + q.rawAgainstVotes

\* The half of his e tokens with which the proposer was rewarded when he took them back.
Bonus(q, e) == IF Own(q) = 0 THEN e \div 2 ELSE 0

\* What must be there for a proposal: all that is on it, after queueing what is the proposer's; less
\* his reward.
Due(q, eta, e) == (IF eta = 0 THEN RawOf(q) ELSE Own(q)) - Bonus(q, e)
Dues(ps, p, e) == SumFunction([c \in LeavesIn(ps, p) |-> Due(ps[c], ps[p].eta, e)])
TalliesOf(ps, p) == SumFunction([c \in LeavesIn(ps, p) |-> Tally(ps[c])])

Untouched(ps, p) == \A c \in ChildrenIn(ps, p) : ps[c].eta = 0

\* The proposer has his e tokens on it or has taken them back, which no tally is told.
Leafwise(ps, p, e, state) ==
  \A c \in LeavesIn(ps, p) : /\ Own(ps[c]) \in {0, e}
                             /\ state # "QuorumFailed" => Tally(ps[c]) = RawOf(ps[c]) + e - Own(ps[c])

\* On a proposal with v tokens in its pot, by the threshold t.
CoveredBy(ps, p, t, state, v) ==
  LET e == Split(ps, p, t) IN
  /\ Leafwise(ps, p, e, state)
  /\ ps[p].eta = 0 \/ Tally(ps[p]) = TalliesOf(ps, p) => v >= Dues(ps, p, e)

Covered(p) ==
  /\ CoveredBy(proposals, p, threshold, State(p), pot[p])
  /\ proposals[p].eta # 0 => State(p) \in {"Queued", "Executed", "Expired"}

\* The proposer of a family is one account, and the tallies are numbers.
Proposed(ps) ==
  \A q \in DOMAIN ps : /\ ps[q].proposer \in Account
                       /\ ps[q].rawForVotes \in Int /\ ps[q].rawAgainstVotes \in Int
                       /\ ps[q].parent # 0 => ps[ps[q].parent].proposer = ps[q].proposer

Potted ==
  /\ pot \in [1 .. MaxProposals -> Int] /\ Len(proposals) <= MaxProposals
  /\ \A q \in 1 .. MaxProposals : q > Len(proposals) => pot[q] = 0

FamilyOK(p) == proposals[p].parent = 0 /\ Untouched(proposals, p) => Covered(p)
ClaimInv == Potted /\ Proposed(proposals) /\ (~changed => \A p \in Ids : FamilyOK(p))

-----------------------------------------------------------------------------
(* The numbers of a proposal. *)

\* They are numbers, and what must be there too.
LEMMA QuantitiesType ==
  ASSUME NEW q, Receipted(q), q.proposer \in Account, q.rawForVotes \in Int, q.rawAgainstVotes \in Int
  PROVE  /\ RawOf(q) \in Nat /\ Own(q) \in Nat /\ Tally(q) \in Int
         /\ \A a \in Account : q.receipts[a].rawVotes \in Nat
         /\ \A e \in Nat : Bonus(q, e) \in Nat /\ \A eta : Due(q, eta, e) \in Int
<1> DEFINE f == [a \in Account |-> q.receipts[a].rawVotes]
<1>1. \A a \in Account : q.receipts[a].rawVotes \in Nat
  BY DEF Receipted, ReceiptSet
<1>2. \A a \in Account : f[a] \in Nat
  BY <1>1
<1>3. RawOf(q) = SumFunctionOnSet(f, Account) /\ IsFiniteSet(Account)
  BY TokenAssumption DEF RawOf, SumFunction
<1> HIDE DEF f
<1>4. RawOf(q) \in Nat
  BY <1>2, <1>3, SumNat
<1>5. Own(q) \in Nat /\ Tally(q) \in Int
  BY <1>1 DEF Own, Tally
<1>6. \A e \in Nat : Bonus(q, e) \in Nat
  BY DEF Bonus
<1> QED BY <1>1, <1>4, <1>5, <1>6 DEF Due

\* One receipt changes.
LEMMA RawChange ==
  ASSUME NEW q, NEW r, Receipted(q), Receipted(r), NEW a \in Account,
         \A b \in Account : b # a => r.receipts[b] = q.receipts[b]
  PROVE  RawOf(r) = RawOf(q) - q.receipts[a].rawVotes + r.receipts[a].rawVotes
<1> DEFINE F(x) == [b \in Account |-> x.receipts[b].rawVotes]
<1>1. \A b \in Account : F(q)[b] = q.receipts[b].rawVotes /\ F(r)[b] = r.receipts[b].rawVotes
  OBVIOUS
<1>2. \A b \in Account : q.receipts[b].rawVotes \in Int /\ r.receipts[b].rawVotes \in Int
  BY DEF Receipted, ReceiptSet
<1>3. \A b \in Account : F(q)[b] \in Int /\ F(r)[b] \in Int
  BY <1>1, <1>2
<1>4. \A b \in Account \ {a} : F(r)[b] = F(q)[b]
  BY <1>1
<1>5. RawOf(q) = SumFunctionOnSet(F(q), Account) /\ RawOf(r) = SumFunctionOnSet(F(r), Account)
  BY DEF RawOf, SumFunction
<1>6. IsFiniteSet(Account)
  BY TokenAssumption
<1> HIDE DEF F
<1>7. SumFunctionOnSet(F(r), Account) = SumFunctionOnSet(F(q), Account) - F(q)[a] + F(r)[a]
  BY <1>3, <1>4, <1>6, SumChange
<1> QED BY <1>1, <1>5, <1>7

\* What a vote does to the numbers of a proposal.
LEMMA AccountedCounts ==
  ASSUME NEW q, Shaped(q), Receipted(q), q.proposer \in Account, q.rawForVotes \in Int, q.rawAgainstVotes \in Int,
         NEW a \in Account, NEW support \in BOOLEAN, NEW amount \in Nat, block \in Nat
  PROVE  LET r == Accounted(q, a, support, amount)
         IN  /\ Receipted(r) /\ r.proposer = q.proposer
             /\ r.rawForVotes \in Int /\ r.rawAgainstVotes \in Int
             /\ Tally(r) = Tally(q) + amount
             /\ RawOf(r) = RawOf(q) + amount
             /\ Own(r) = IF a = q.proposer THEN Own(q) + amount ELSE Own(q)
<1> DEFINE r == Accounted(q, a, support, amount)
<1>1. /\ Receipted(r) /\ r.receipts[a].rawVotes = q.receipts[a].rawVotes + amount
      /\ \A b \in Account : b # a => r.receipts[b] = q.receipts[b]
  BY AccountedTallies
<1>2. /\ r.proposer = q.proposer
      /\ r.rawForVotes = IF support THEN q.rawForVotes + amount ELSE q.rawForVotes
      /\ r.rawAgainstVotes = IF support THEN q.rawAgainstVotes ELSE q.rawAgainstVotes + amount
  <2> DEFINE diff == Sqrt(q.receipts[a].rawVotes + amount) - Sqrt(q.receipts[a].rawVotes)
             receipt == [hasVoted |-> TRUE, support |-> support, rawVotes |-> q.receipts[a].rawVotes + amount,
                         refunded |-> FALSE, until |-> block + VotesCancelPeriod]
  <2>1. r = IF support
            THEN [q EXCEPT !.forVotes = q.forVotes + diff, !.rawForVotes = q.rawForVotes + amount,
                           !.receipts = [q.receipts EXCEPT ![a] = receipt]]
            ELSE [q EXCEPT !.againstVotes = q.againstVotes + diff,
                           !.rawAgainstVotes = q.rawAgainstVotes + amount,
                           !.receipts = [q.receipts EXCEPT ![a] = receipt]]
    BY DEF Accounted, Shaped, Fields
  <2> HIDE DEF r, diff, receipt
  <2> QED BY <2>1 DEF Shaped, Fields
<1> HIDE DEF r
<1>3. RawOf(r) = RawOf(q) - q.receipts[a].rawVotes + r.receipts[a].rawVotes
  BY <1>1, RawChange
<1>4. RawOf(q) \in Nat /\ q.receipts[a].rawVotes \in Nat
  BY QuantitiesType
<1>5. RawOf(r) = RawOf(q) + amount
  BY <1>1, <1>3, <1>4
<1>6. Own(r) = IF a = q.proposer THEN Own(q) + amount ELSE Own(q)
  BY <1>1, <1>2 DEF Own
<1>7. Tally(r) = Tally(q) + amount /\ r.rawForVotes \in Int /\ r.rawAgainstVotes \in Int
  BY <1>2 DEF Tally
<1> QED BY <1>1, <1>2, <1>5, <1>6, <1>7 DEF r

\* What taking back does to them.
LEMMA TakenBackCounts ==
  ASSUME StructureOK, NEW p \in Ids, Receipted(proposals[p]), proposals[p].proposer \in Account,
         proposals[p].rawForVotes \in Int, proposals[p].rawAgainstVotes \in Int, NEW a \in Account
  PROVE  LET q == proposals[p]
             r == TakenBack(p, a)
             raw == q.receipts[a].rawVotes
         IN  /\ Receipted(r) /\ r.proposer = q.proposer
             /\ r.rawForVotes \in Int /\ r.rawAgainstVotes \in Int
             /\ Tally(r) = IF RefundState(p) = "Active" THEN Tally(q) - raw ELSE Tally(q)
             /\ RawOf(r) = RawOf(q) - raw
             /\ Own(r) = IF a = q.proposer THEN 0 ELSE Own(q)
<1> DEFINE q == proposals[p]
           r == TakenBack(p, a)
           raw == q.receipts[a].rawVotes
<1>1. /\ Receipted(r) /\ r.receipts[a].rawVotes = 0
      /\ \A b \in Account : b # a => r.receipts[b] = q.receipts[b]
  BY TakenBackTallies
<1>2. Shaped(q)
  BY DEF StructureOK, AllShaped, Ids
<1>3. /\ r.proposer = q.proposer
      /\ RefundState(p) = "Active" =>
           \/ r.rawForVotes = q.rawForVotes - raw /\ r.rawAgainstVotes = q.rawAgainstVotes
           \/ r.rawForVotes = q.rawForVotes /\ r.rawAgainstVotes = q.rawAgainstVotes - raw
      /\ RefundState(p) # "Active" => r.rawForVotes = q.rawForVotes /\ r.rawAgainstVotes = q.rawAgainstVotes
  <2> DEFINE receipt == [q.receipts[a] EXCEPT !.hasVoted = FALSE, !.rawVotes = 0, !.refunded = TRUE]
             counted == [q EXCEPT !.receipts[a] = receipt]
  <2>1. r = IF RefundState(p) # "Active" THEN counted
            ELSE IF receipt.support
            THEN [counted EXCEPT !.forVotes = @ - Sqrt(raw), !.rawForVotes = @ - raw]
            ELSE [counted EXCEPT !.againstVotes = @ - Sqrt(raw), !.rawAgainstVotes = @ - raw]
    BY DEF TakenBack, Receipt
  <2>2. PICK s : s = receipt
    OBVIOUS
  <2>3. PICK t : t = counted
    OBVIOUS
  <2> HIDE DEF receipt, raw, q, r
  <2>4. /\ Shaped(t) /\ t.proposer = q.proposer
        /\ t.rawForVotes = q.rawForVotes /\ t.rawAgainstVotes = q.rawAgainstVotes
    <3>1. PICK z : z = [q.receipts EXCEPT ![a] = receipt]
      OBVIOUS
    <3>2. t = [q EXCEPT !.receipts = z]
      BY <1>2, <2>3, <3>1 DEF Shaped, Fields
    <3>3. Shaped(t)
      BY <1>2, <3>2, TalliesChange
    <3> HIDE DEF counted
    <3> QED BY ONLY <1>2, <3>2, <3>3 DEF Shaped, Fields
  <2>5. r = IF RefundState(p) # "Active" THEN t
            ELSE IF receipt.support
            THEN [t EXCEPT !.forVotes = @ - Sqrt(raw), !.rawForVotes = @ - raw]
            ELSE [t EXCEPT !.againstVotes = @ - Sqrt(raw), !.rawAgainstVotes = @ - raw]
    BY <2>1, <2>3
  <2> HIDE DEF counted
  <2> QED BY <2>4, <2>5 DEF Shaped, Fields
<1> HIDE DEF r, q
<1>4. RawOf(r) = RawOf(q) - q.receipts[a].rawVotes + r.receipts[a].rawVotes
  BY <1>1, RawChange DEF q
<1>5. RawOf(q) \in Nat /\ raw \in Nat
  BY QuantitiesType DEF q
<1>6. RawOf(r) = RawOf(q) - raw
  BY <1>1, <1>4, <1>5
<1>7. Own(r) = IF a = q.proposer THEN 0 ELSE Own(q)
  BY <1>1, <1>3 DEF Own, q
<1>8. /\ Tally(r) = IF RefundState(p) = "Active" THEN Tally(q) - raw ELSE Tally(q)
      /\ r.rawForVotes \in Int /\ r.rawAgainstVotes \in Int
  BY <1>3, <1>5 DEF Tally, q
<1> QED BY <1>1, <1>3, <1>6, <1>7, <1>8 DEF q, r

\* And the refund of a child to its parent's.
LEMMA OnParentCounts ==
  ASSUME StructureOK, NEW p \in Ids, NEW a, NEW refunds
  PROVE  LET q == proposals[p]
             r == OnParent(p, a, refunds)
         IN  /\ r.proposer = q.proposer
             /\ r.rawForVotes = q.rawForVotes /\ r.rawAgainstVotes = q.rawAgainstVotes
<1> DEFINE q == proposals[p]
           r == OnParent(p, a, refunds)
           raw == q.receipts[a].rawVotes - RawOn(a, refunds)
           x == (raw > 0)
           y == (raw = 0)
<1>1. Shaped(q)
  BY DEF StructureOK, AllShaped, Ids
<1>2. r = [q EXCEPT !.receipts[a].rawVotes = raw, !.receipts[a].hasVoted = x, !.receipts[a].refunded = y]
  BY DEF OnParent, Receipt
<1> HIDE DEF q, r, raw, x, y
<1>3. r.proposer = q.proposer /\ r.rawForVotes = q.rawForVotes /\ r.rawAgainstVotes = q.rawAgainstVotes
  BY <1>1, <1>2 DEF Shaped, Fields
<1> QED BY <1>3 DEF q, r

-----------------------------------------------------------------------------
(* What can be claimed. *)

\* A refund is at most what is on the receipt, and half of it more for the proposer.
LEMMA RefundBound ==
  ASSUME NEW a \in Account, NEW c, Receipt(c, a).rawVotes \in Nat
  PROVE  LET raw == Receipt(c, a).rawVotes
         IN  /\ Burned(a, c) \in Nat /\ Paid(a, c) \in Nat
             /\ Burned(a, c) + Paid(a, c) <= raw + IF IsProposer(a, c) THEN raw \div 2 ELSE 0
             /\ raw = 0 => Paid(a, c) = 0
<1> DEFINE raw == Receipt(c, a).rawVotes
           state == RefundState(c)
           x == BurnedAndPaid(a, c)
<1>1. raw \in Nat
  OBVIOUS
<1>2. CASE IsProposer(a, c) /\ state \in Passed
  <2>1. x = <<0, (raw * 3) \div 2>>
    BY <1>2 DEF BurnedAndPaid, Passed
  <2> HIDE DEF raw
  <2>2. (raw * 3) \div 2 \in Nat /\ (raw * 3) \div 2 <= raw + raw \div 2
    BY ONLY <1>1
  <2>3. raw = 0 => (raw * 3) \div 2 = 0
    OBVIOUS
  <2> QED BY <1>1, <1>2, <2>1, <2>2, <2>3 DEF Burned, Paid, raw
<1>3. CASE ~(IsProposer(a, c) /\ state \in Passed) /\ IsProposer(a, c) /\ state = "QuorumFailed"
  <2>1. x = <<raw \div 4, (raw \div 4) * 3>>
    BY <1>3 DEF BurnedAndPaid, Passed
  <2> HIDE DEF raw
  <2>2. raw \div 4 \in Nat /\ raw \div 4 + (raw \div 4) * 3 <= raw /\ raw \div 2 \in Nat
    BY ONLY <1>1
  <2>3. raw = 0 => (raw \div 4) * 3 = 0
    OBVIOUS
  <2> QED BY <1>1, <1>3, <2>1, <2>2, <2>3 DEF Burned, Paid, raw
<1>4. CASE ~(IsProposer(a, c) /\ state \in Passed) /\ ~(IsProposer(a, c) /\ state = "QuorumFailed")
           /\ state \in {"Active", "Canceled"}
  <2>1. x = <<raw \div 20, raw - raw \div 20>>
    BY <1>4 DEF BurnedAndPaid, Passed
  <2> HIDE DEF raw
  <2>2. PICK k : k = raw \div 20
    OBVIOUS
  <2>3. k \in Nat /\ k <= raw /\ raw \div 2 \in Nat /\ (raw = 0 => k = 0)
    BY ONLY <1>1, <2>2
  <2>4. Burned(a, c) = k /\ Paid(a, c) = raw - k
    BY <2>1, <2>2 DEF Burned, Paid
  <2>5. k + (raw - k) = raw /\ raw - k \in Nat /\ (raw = 0 => raw - k = 0)
    BY ONLY <1>1, <2>3
  <2> QED BY <1>1, <2>3, <2>4, <2>5 DEF raw
<1>5. CASE ~(IsProposer(a, c) /\ state \in Passed) /\ ~(IsProposer(a, c) /\ state = "QuorumFailed")
           /\ ~(state \in {"Active", "Canceled"})
  <2>1. x = <<0, raw>>
    BY <1>5 DEF BurnedAndPaid
  <2> HIDE DEF raw
  <2>2. raw \div 2 \in Nat
    BY ONLY <1>1
  <2> QED BY <1>1, <2>1, <2>2 DEF Burned, Paid, raw
<1> QED BY <1>2, <1>3, <1>4, <1>5

\* The leaves of a proposal without parent, and whose they are.
LEMMA LeavesAre ==
  ASSUME StructureOK, NEW p \in Ids, proposals[p].parent = 0
  PROVE  /\ LeavesIn(proposals, p) = Leaves(p) /\ Leaves(p) \in SUBSET Ids /\ IsFiniteSet(Leaves(p))
         /\ \A c \in Leaves(p) : /\ Children(c) = {} /\ EndBlock(c) = EndBlock(p) /\ Family(c) = p
                                 /\ c = p \/ proposals[c].parent = p
         /\ ChildrenIn(proposals, p) = Children(p) /\ p # 0
<1>1. ChildrenIn(proposals, p) = Children(p) /\ IsFiniteSet(Children(p)) /\ Children(p) \in SUBSET Ids
  <2>1. ChildrenIn(proposals, p) = Children(p) /\ IsFiniteSet(ChildrenIn(proposals, p))
    BY ChildrenFinite DEF StructureOK, Children, ChildrenIn, Ids
  <2> QED BY <2>1 DEF Children
<1>2. p # 0
  BY FamilyBlocks
<1>3. LeavesIn(proposals, p) = Leaves(p)
  BY <1>1 DEF LeavesIn, Leaves
<1>4. Leaves(p) \in SUBSET Ids /\ IsFiniteSet(Leaves(p))
  <2>1. CASE Children(p) = {}
    <3>1. Leaves(p) = {p} /\ IsFiniteSet({p})
      BY <2>1, FS_Singleton DEF Leaves
    <3> QED BY <3>1
  <2> QED BY <1>1, <2>1 DEF Leaves
<1>5. \A c \in Children(p) : EndBlock(c) = EndBlock(p)
  BY FamilyBlocks
<1>6. \A c \in Children(p) : Children(c) = {} /\ Family(c) = p /\ proposals[c].parent = p
  <2> SUFFICES ASSUME NEW c \in Children(p)
               PROVE  Children(c) = {} /\ Family(c) = p /\ proposals[c].parent = p
    OBVIOUS
  <2>1. c \in Ids /\ proposals[c].parent = p /\ c # 0
    BY FamilyBlocks DEF Children
  <2>2. Children(c) = {}
    BY <1>2, <2>1 DEF StructureOK, Parented, Children, Ids
  <2> QED BY <1>2, <2>1, <2>2 DEF Family
<1>7. Family(p) = p
  BY DEF Family
<1>8. CASE Children(p) = {}
  <2>1. Leaves(p) = {p}
    BY <1>8 DEF Leaves
  <2> QED BY <1>1, <1>2, <1>3, <1>4, <1>7, <1>8, <2>1
<1>9. CASE Children(p) # {}
  <2>1. Leaves(p) = Children(p)
    BY <1>9 DEF Leaves
  <2> QED BY <1>1, <1>2, <1>3, <1>4, <1>5, <1>6, <2>1
<1> QED BY <1>8, <1>9

\* After a proposal is queued only its proposer is paid, and no vote is taken back.
LEMMA QueuedRefunds ==
  ASSUME StructureOK, NEW p \in Ids, proposals[p].parent = 0, proposals[p].eta # 0,
         State(p) \in {"Queued", "Executed", "Expired"}, NEW c \in Leaves(p)
  PROVE  /\ RefundState(c) # "Active"
         /\ \A a : MayRefund(a, c) => IsProposer(a, c)
<1>1. /\ Children(c) = {} /\ EndBlock(c) = EndBlock(p) /\ (c = p \/ proposals[c].parent = p)
      /\ p # 0 /\ c \in Ids
  BY LeavesAre
<1>2. block > EndBlock(p) /\ EndBlock(p) \in Nat /\ block \in Nat
  BY FamilyBlocks DEF StructureOK, EtaOK
<1>3. RefundState(c) = State(c)
  BY <1>1 DEF RefundState
<1>4. State(c) \notin {"Active", "QuorumFailed"}
  <2>1. CASE c = p
    BY <2>1
  <2>2. CASE c # p
    <3>1. proposals[c].parent # 0 /\ ~(block <= EndBlock(c))
      BY <1>1, <1>2, <2>2
    <3> QED BY <3>1 DEF State
  <2> QED BY <2>1, <2>2
<1> QED BY <1>3, <1>4 DEF MayRefund, Passed

\* What can be claimed for a leaf.
LEMMA ClaimsBound ==
  ASSUME NEW c, Receipted(proposals[c]), proposals[c].proposer \in Account,
         proposals[c].rawForVotes \in Int, proposals[c].rawAgainstVotes \in Int,
         NEW e \in Nat, Own(proposals[c]) \in {0, e}, NEW eta,
         eta # 0 => \A a : MayRefund(a, c) => IsProposer(a, c)
  PROVE  Claims(c) \in Int /\ Claims(c) <= Due(proposals[c], eta, e) + e \div 2
<1> DEFINE q == proposals[c]
           P == q.proposer
           raw(a) == q.receipts[a].rawVotes
           f == [a \in Account |-> Claim(a, c)]
           g == [a \in Account |-> IF eta # 0 THEN 0 ELSE raw(a)]
           h == [a \in Account |-> IF a = P THEN raw(P) + raw(P) \div 2 ELSE g[a]]
<1>1. RawOf(q) \in Nat /\ Own(q) \in Nat /\ Own(q) = raw(P) /\ \A a \in Account : raw(a) \in Nat
  BY QuantitiesType DEF Own
<1>2. ASSUME NEW a \in Account
      PROVE  /\ f[a] \in Int /\ g[a] \in Int /\ h[a] \in Int /\ f[a] <= h[a]
             /\ a # P => h[a] = g[a]
  <2>1. raw(a) \in Nat /\ raw(P) \in Nat /\ raw(P) \div 2 \in Nat
    <3>1. raw(a) \in Nat /\ raw(P) \in Nat
      BY <1>1
    <3> QED BY <3>1
  <2>2. /\ Burned(a, c) \in Nat /\ Paid(a, c) \in Nat
        /\ Burned(a, c) + Paid(a, c) <= raw(a) + IF IsProposer(a, c) THEN raw(a) \div 2 ELSE 0
    BY <2>1, RefundBound DEF Receipt
  <2>3. IsProposer(a, c) <=> a = P
    BY DEF IsProposer
  <2>4. Claim(a, c) = IF MayRefund(a, c) THEN Burned(a, c) + Paid(a, c) ELSE 0
    BY DEF Claim
  <2>5. eta # 0 /\ a # P => Claim(a, c) = 0
    BY <2>3, <2>4
  <2> HIDE DEF raw, q, P
  <2>6. Claim(a, c) \in Nat /\ Claim(a, c) <= raw(a) + IF a = P THEN raw(a) \div 2 ELSE 0
    BY <2>1, <2>2, <2>3, <2>4
  <2>7. f[a] = Claim(a, c) /\ g[a] = (IF eta # 0 THEN 0 ELSE raw(a))
        /\ h[a] = IF a = P THEN raw(P) + raw(P) \div 2 ELSE g[a]
    OBVIOUS
  <2> HIDE DEF f, g, h
  <2> QED BY <2>1, <2>5, <2>6, <2>7
<1>3. Claims(c) = SumFunctionOnSet(f, Account) /\ IsFiniteSet(Account) /\ P \in Account
  BY TokenAssumption DEF Claims, SumFunction
<1>4. g[P] = (IF eta # 0 THEN 0 ELSE raw(P)) /\ h[P] = raw(P) + raw(P) \div 2
  OBVIOUS
<1>5. SumFunctionOnSet(g, Account) = IF eta # 0 THEN 0 ELSE RawOf(q)
  <2>1. CASE eta # 0
    <3>1. \A a \in Account : g[a] = 0
      BY <2>1
    <3> HIDE DEF g
    <3> QED BY <1>3, <2>1, <3>1, SumZero
  <2>2. CASE ~(eta # 0)
    <3>1. g = [a \in Account |-> q.receipts[a].rawVotes]
      BY <2>2
    <3>2. DOMAIN g = Account
      OBVIOUS
    <3> QED BY <2>2, <3>1, <3>2 DEF RawOf, SumFunction
  <2> QED BY <2>1, <2>2
<1> HIDE DEF f, g, h
<1>6. /\ SumFunctionOnSet(h, Account) = SumFunctionOnSet(g, Account) - g[P] + h[P]
      /\ SumFunctionOnSet(f, Account) <= SumFunctionOnSet(h, Account)
      /\ SumFunctionOnSet(f, Account) \in Int /\ SumFunctionOnSet(g, Account) \in Int
  <2>1. \A a \in Account : g[a] \in Int /\ h[a] \in Int /\ f[a] \in Int /\ f[a] <= h[a]
    BY <1>2
  <2>2. \A a \in Account \ {P} : h[a] = g[a]
    BY <1>2
  <2> HIDE DEF P
  <2> QED BY <1>3, <2>1, <2>2, SumChange, SumLeq, SumType
<1>7. PICK o : o = Own(q)
  OBVIOUS
<1>8. o \in Nat /\ o \in {0, e} /\ raw(P) = o
  BY <1>1, <1>7
<1>9. Due(q, eta, e) = (IF eta # 0 THEN o ELSE RawOf(q)) - IF o = 0 THEN e \div 2 ELSE 0
  BY <1>7 DEF Due, Bonus
<1>10. PICK z : z = RawOf(q)
  OBVIOUS
<1>11. PICK s : s = SumFunctionOnSet(f, Account)
  OBVIOUS
<1>12. s \in Int /\ s <= (IF eta # 0 THEN 0 ELSE z) - (IF eta # 0 THEN 0 ELSE o) + (o + o \div 2)
  BY <1>4, <1>5, <1>6, <1>8, <1>10, <1>11
<1>13. PICK d : d = Due(q, eta, e)
  OBVIOUS
<1>14. d = (IF eta # 0 THEN o ELSE z) - IF o = 0 THEN e \div 2 ELSE 0
  BY <1>9, <1>10, <1>13
<1>15. z \in Nat
  BY <1>1, <1>10
<1>16. s <= d + e \div 2
  <2>1. e \div 2 \in Nat /\ o \div 2 \in Nat /\ (o = 0 => o \div 2 = 0) /\ e \in Nat
    BY ONLY <1>8, e \in Nat
  <2> QED BY ONLY <1>8, <1>12, <1>14, <1>15, <2>1
<1> QED BY <1>3, <1>6, <1>11, <1>13, <1>16

\* The parts of an amount are not more than it.
LEMMA PartsBound ==
  ASSUME NEW t \in Nat, NEW n \in Nat \ {0}
  PROVE  /\ t \div n \in Nat /\ (t \div n) * n <= t
         /\ ((t \div n) \div 2) * n <= t \div 2
<1>1. PICK e : e = t \div n
  OBVIOUS
<1>2. e \in Nat /\ n * e <= t
  BY <1>1
<1>3. PICK h : h = e \div 2
  OBVIOUS
<1>4. h \in Nat /\ 2 * h <= e
  BY <1>2, <1>3
<1>5. n * (2 * h) <= n * e
  BY <1>2, <1>4
<1>6. PICK x : x = n * h
  OBVIOUS
<1>7. n * (2 * h) = 2 * x /\ h * n = x /\ x \in Nat
  BY <1>4, <1>6
<1>8. 2 * x <= t
  BY <1>2, <1>5, <1>7
<1>9. x <= t \div 2
  BY <1>7, <1>8
<1>10. e * n = n * e
  BY <1>2
<1> QED BY <1>1, <1>2, <1>3, <1>7, <1>9, <1>10

\* What each leaf is given of an amount.
LEMMA Shares ==
  ASSUME NEW ps, Listed(ps), NEW p, NEW t \in Nat
  PROVE  LET e == Split(ps, p, t)
             n == Cardinality(LeavesIn(ps, p))
         IN  /\ e \in Nat /\ n \in Nat \ {0} /\ IsFiniteSet(LeavesIn(ps, p))
             /\ e * n <= t /\ (e \div 2) * n <= t \div 2
<1> DEFINE K == ChildrenIn(ps, p)
           m == Cardinality(K)
<1>1. IsFiniteSet(K) /\ m \in Nat /\ (m = 0 => K = {})
  BY ChildrenFinite
<1>2. Split(ps, p, t) = IF m = 0 THEN t ELSE t \div m
  BY DEF Split, ChildrenIn
<1>3. CASE K = {}
  <2>1. LeavesIn(ps, p) = {p} /\ m = 0
    BY <1>3, FS_EmptySet DEF LeavesIn
  <2>2. IsFiniteSet({p}) /\ Cardinality({p}) = 1
    BY FS_Singleton
  <2>3. t * 1 <= t /\ (t \div 2) * 1 <= t \div 2
    OBVIOUS
  <2> HIDE DEF m, K
  <2> QED BY <1>2, <2>1, <2>2, <2>3
<1>4. CASE K # {}
  <2>1. LeavesIn(ps, p) = K
    BY <1>4 DEF LeavesIn
  <2>2. m \in Nat \ {0}
    BY <1>1, <1>4
  <2> HIDE DEF m
  <2>3. t \div m \in Nat /\ (t \div m) * m <= t /\ ((t \div m) \div 2) * m <= t \div 2
    BY <2>2, PartsBound
  <2>4. Split(ps, p, t) = t \div m
    BY <1>2, <2>2
  <2>5. PICK e : e = t \div m
    OBVIOUS
  <2>6. Cardinality(LeavesIn(ps, p)) = m
    BY <2>1 DEF m
  <2> QED BY <1>1, <2>1, <2>2, <2>3, <2>4, <2>6
<1> QED BY <1>3, <1>4

\* The numbers of the leaves.
Quantified(ps) ==
  \A q \in DOMAIN ps : /\ RawOf(ps[q]) \in Nat /\ Own(ps[q]) \in Nat /\ Tally(ps[q]) \in Int
                       /\ \A e \in Nat : \A eta : Due(ps[q], eta, e) \in Int

\* They are numbers.
LEMMA AllQuantified ==
  ASSUME NEW ps, AllReceipted(ps), Proposed(ps)
  PROVE  Quantified(ps)
BY QuantitiesType DEF AllReceipted, Proposed, Quantified

\* What is covered can be claimed.
LEMMA CoveredMeans ==
  ASSUME StructureOK, threshold \in Nat, AllReceipted(proposals), Proposed(proposals),
         NEW p \in Ids, proposals[p].parent = 0, Plain(p), Covered(p)
  PROVE  pot[p] \in Int => pot[p] >= Owed(p) - threshold \div 2
<1> DEFINE e == Split(proposals, p, threshold)
           L == Leaves(p)
           eta == proposals[p].eta
           f == [c \in L |-> Claims(c)]
           g == [c \in L |-> Due(proposals[c], eta, e)]
           k == [c \in L |-> e \div 2]
           h == [c \in L |-> g[c] + k[c]]
<1>1. /\ LeavesIn(proposals, p) = L /\ L \in SUBSET Ids /\ IsFiniteSet(L)
      /\ ChildrenIn(proposals, p) = Children(p) /\ DOMAIN proposals = Ids
  BY LeavesAre DEF Ids
<1>2. e \in Nat /\ Cardinality(L) \in Nat /\ (e \div 2) * Cardinality(L) <= threshold \div 2
  <2>1. Listed(proposals)
    BY DEF StructureOK
  <2> HIDE DEF L
  <2> QED BY <1>1, <2>1, Shares
<1>3. pot[p] >= Dues(proposals, p, e)
  <2>1. Covered(p) => (proposals[p].eta = 0 \/ Tally(proposals[p]) = TalliesOf(proposals, p) => pot[p] >= Dues(proposals, p, e))
    BY DEF Covered, CoveredBy
  <2>2. Tally(proposals[p]) = TalliesOf(proposals, p)
    <3> DEFINE t == [c \in L |-> Tally(proposals[c])]
    <3>1. TalliesOf(proposals, p) = SumFunctionOnSet(t, L)
      BY <1>1 DEF TalliesOf, SumFunction
    <3>2. CASE Children(p) = {}
      <4>1. L = {p} /\ t[p] = Tally(proposals[p])
        BY <3>2 DEF Leaves
      <4>2. t[p] \in Int
        BY <1>1, <4>1, AllQuantified DEF Quantified
      <4> HIDE DEF t, L
      <4>3. SumFunctionOnSet(t, {p}) = t[p]
        BY <4>2, SumOne
      <4> QED BY <3>1, <4>1, <4>3
    <3>3. CASE Children(p) # {}
      <4>1. L = Children(p)
        BY <3>3 DEF Leaves
      <4>2. RawTally(p) = SumFunction([c \in Children(p) |-> RawTally(c)])
        BY <3>3 DEF Plain
      <4>3. \A c : RawTally(c) = Tally(proposals[c])
        BY DEF RawTally, Tally
      <4>4. [c \in Children(p) |-> RawTally(c)] = [c \in Children(p) |-> Tally(proposals[c])]
        BY <4>3, Zenon
      <4> QED BY <1>1, <4>1, <4>2, <4>3, <4>4 DEF TalliesOf
    <3> QED BY <3>2, <3>3
  <2> QED BY <2>1, <2>2
<1>4. Dues(proposals, p, e) = SumFunctionOnSet(g, L)
  BY <1>1 DEF Dues, SumFunction
<1>5. Owed(p) = SumFunctionOnSet(f, L)
  BY DEF Owed, SumFunction
<1>6. ASSUME NEW c \in L
      PROVE  /\ f[c] \in Int /\ g[c] \in Int /\ k[c] \in Int /\ h[c] = g[c] + k[c] /\ f[c] <= h[c]
             /\ k[c] = e \div 2
  <2>1. c \in Ids /\ c \in DOMAIN proposals /\ e \div 2 \in Int
    BY <1>1, <1>2
  <2>2. eta # 0 => \A a : MayRefund(a, c) => IsProposer(a, c)
    BY QueuedRefunds DEF Covered
  <2>3. /\ Receipted(proposals[c]) /\ proposals[c].proposer \in Account
        /\ proposals[c].rawForVotes \in Int /\ proposals[c].rawAgainstVotes \in Int
    BY <2>1 DEF AllReceipted, Proposed
  <2>4. Own(proposals[c]) \in {0, e}
    BY <1>1 DEF Covered, CoveredBy, Leafwise
  <2>5. Claims(c) \in Int /\ Claims(c) <= Due(proposals[c], eta, e) + e \div 2
    <3> HIDE DEF eta, e
    <3> QED BY <1>2, <2>1, <2>2, <2>3, <2>4, ClaimsBound
  <2>6. Due(proposals[c], eta, e) \in Int
    <3> HIDE DEF eta, e
    <3> QED BY <1>2, <2>1, AllQuantified DEF Quantified
  <2>7. f[c] = Claims(c) /\ g[c] = Due(proposals[c], eta, e) /\ k[c] = e \div 2 /\ h[c] = g[c] + k[c]
    OBVIOUS
  <2> HIDE DEF f, g, h, k, e, eta, L
  <2> QED BY <2>1, <2>5, <2>6, <2>7
<1> HIDE DEF f, g, h, k, eta, L
<1>7. SumFunctionOnSet(f, L) <= SumFunctionOnSet(h, L)
  <2>1. \A c \in L : f[c] \in Int /\ h[c] \in Int /\ f[c] <= h[c]
    BY <1>6
  <2> QED BY <1>1, <2>1, SumLeq
<1>8. SumFunctionOnSet(h, L) = SumFunctionOnSet(g, L) + SumFunctionOnSet(k, L)
  BY <1>1, <1>6, SumPlus
<1>9. SumFunctionOnSet(k, L) = (e \div 2) * Cardinality(L)
  <2>1. e \div 2 \in Int /\ \A c \in L : k[c] = e \div 2
    BY <1>2, <1>6
  <2> HIDE DEF e
  <2> QED BY <1>1, <2>1, SumConst
<1>10. /\ SumFunctionOnSet(f, L) \in Int /\ SumFunctionOnSet(g, L) \in Int /\ SumFunctionOnSet(k, L) \in Int
       /\ threshold \div 2 \in Int
  BY <1>1, <1>6, SumType
<1> HIDE DEF e
<1>11. PICK s : s = SumFunctionOnSet(g, L)
  OBVIOUS
<1>12. PICK u : u = SumFunctionOnSet(k, L)
  OBVIOUS
<1>13. PICK v : v = threshold \div 2
  OBVIOUS
<1>14. s \in Int /\ u \in Int /\ v \in Int /\ u <= v /\ Owed(p) \in Int /\ Owed(p) <= s + u
  BY <1>2, <1>5, <1>7, <1>8, <1>9, <1>10, <1>11, <1>12, <1>13
<1>15. pot[p] >= s
  BY <1>3, <1>4, <1>11
<1>16. pot[p] \in Int => pot[p] >= Owed(p) - v
  BY ONLY <1>14, <1>15
<1> QED BY <1>13, <1>16

\* The invariant covers what ClaimsCovered says.
LEMMA ClaimInvMeans ==
  ASSUME StructureOK, TallyInv, ClaimInv
  PROVE  ClaimsCovered
<1> SUFFICES ASSUME NEW p \in Ids, proposals[p].parent = 0, Plain(p)
             PROVE  pot[p] >= Owed(p) - threshold \div 2
  BY DEF ClaimsCovered
<1>1. AllReceipted(proposals) /\ Proposed(proposals) /\ threshold \in Nat
  BY DEF TallyInv, ClaimInv
<1>2. Covered(p)
  <2>1. ~changed /\ \A c \in Children(p) : proposals[c].eta = 0
    BY DEF Plain
  <2>2. Untouched(proposals, p)
    BY <2>1, LeavesAre DEF Untouched
  <2> QED BY <2>1, <2>2 DEF ClaimInv, FamilyOK
<1>3. pot[p] \in Int
  <2>1. PICK n \in Nat : n = Len(proposals) /\ Ids = 1 .. n
    BY DEF StructureOK, Listed, Ids
  <2>2. MaxProposals \in Nat /\ n <= MaxProposals
    BY <2>1, GovernorAssumption DEF ClaimInv, Potted
  <2>3. p \in 1 .. MaxProposals
    BY <2>1, <2>2
  <2> QED BY <2>3 DEF ClaimInv, Potted
<1> QED BY <1>1, <1>2, <1>3, CoveredMeans

-----------------------------------------------------------------------------
(* How the sums move. *)

\* The same numbers.
SameNumbers(q, r) == RawOf(r) = RawOf(q) /\ Own(r) = Own(q) /\ Tally(r) = Tally(q)

\* The leaves depend on the children only.
LEMMA LeavesSame ==
  ASSUME NEW ps, NEW qs, NEW p, ChildrenIn(qs, p) = ChildrenIn(ps, p)
  PROVE  LeavesIn(qs, p) = LeavesIn(ps, p) /\ \A t : Split(qs, p, t) = Split(ps, p, t)
BY DEF LeavesIn, Split, ChildrenIn

\* So do their tallies depend on their tallies.
LEMMA TalliesSame ==
  ASSUME NEW ps, NEW qs, NEW p, ChildrenIn(qs, p) = ChildrenIn(ps, p),
         \A c \in LeavesIn(ps, p) : Tally(qs[c]) = Tally(ps[c])
  PROVE  TalliesOf(qs, p) = TalliesOf(ps, p)
<1>1. LeavesIn(qs, p) = LeavesIn(ps, p)
  BY LeavesSame
<1>2. [c \in LeavesIn(ps, p) |-> Tally(qs[c])] = [c \in LeavesIn(ps, p) |-> Tally(ps[c])]
  BY Zenon
<1> QED BY <1>1, <1>2 DEF TalliesOf

\* What must be there falls by what falls on some leaves.
LEMMA DuesFall ==
  ASSUME NEW ps, NEW qs, NEW p, ChildrenIn(qs, p) = ChildrenIn(ps, p), Listed(ps),
         LeavesIn(ps, p) \subseteq DOMAIN ps, LeavesIn(ps, p) \subseteq DOMAIN qs,
         Quantified(ps), Quantified(qs), NEW e \in Nat,
         NEW T \in SUBSET LeavesIn(ps, p), NEW h,
         \A c \in T : h[c] \in Int /\ Due(qs[c], qs[p].eta, e) + h[c] <= Due(ps[c], ps[p].eta, e),
         \A c \in LeavesIn(ps, p) \ T : Due(qs[c], qs[p].eta, e) = Due(ps[c], ps[p].eta, e)
  PROVE  /\ Dues(qs, p, e) + SumFunctionOnSet(h, T) <= Dues(ps, p, e)
         /\ Dues(ps, p, e) \in Int /\ Dues(qs, p, e) \in Int /\ SumFunctionOnSet(h, T) \in Int
<1> DEFINE L == LeavesIn(ps, p)
           f == [c \in L |-> Due(ps[c], ps[p].eta, e)]
           g == [c \in L |-> Due(qs[c], qs[p].eta, e)]
<1>1. LeavesIn(qs, p) = L /\ IsFiniteSet(L)
  <2>1. 0 \in Nat
    OBVIOUS
  <2> QED BY <2>1, LeavesSame, Shares
<1>2. Dues(ps, p, e) = SumFunctionOnSet(f, L)
  BY DEF Dues, SumFunction
<1>3. Dues(qs, p, e) = SumFunctionOnSet(g, L)
  BY <1>1 DEF Dues, SumFunction
<1>4. \A c \in L : Due(ps[c], ps[p].eta, e) \in Int /\ Due(qs[c], qs[p].eta, e) \in Int
  BY DEF Quantified
<1>5. \A c \in L : f[c] = Due(ps[c], ps[p].eta, e) /\ g[c] = Due(qs[c], qs[p].eta, e)
  OBVIOUS
<1>6. T \in SUBSET L /\ IsFiniteSet(T)
  BY <1>1, FS_Subset
<1> HIDE DEF f, g, L
<1>7. \A c \in L : f[c] \in Int /\ g[c] \in Int
  BY <1>4, <1>5
<1>8. \A c \in T : h[c] \in Int /\ g[c] + h[c] <= f[c]
  BY <1>5, <1>6
<1>9. \A c \in L \ T : g[c] = f[c]
  BY <1>5 DEF L
<1>10. SumFunctionOnSet(g, L) + SumFunctionOnSet(h, T) <= SumFunctionOnSet(f, L)
  BY <1>1, <1>6, <1>7, <1>8, <1>9, SumDrop
<1>11. SumFunctionOnSet(f, L) \in Int /\ SumFunctionOnSet(g, L) \in Int /\ SumFunctionOnSet(h, T) \in Int
  BY <1>1, <1>6, <1>7, <1>8, SumType
<1> QED BY <1>2, <1>3, <1>10, <1>11

\* The leaves in T lose h, the others nothing.
Loses(ps, qs, p, e, state, T, h) ==
  /\ T \in SUBSET LeavesIn(ps, p)
  /\ \A c \in T : /\ h[c] \in Int /\ Due(qs[c], qs[p].eta, e) + h[c] <= Due(ps[c], ps[p].eta, e)
                  /\ Own(qs[c]) \in {0, e}
                  /\ state # "QuorumFailed" => Tally(qs[c]) = RawOf(qs[c]) + e - Own(qs[c])
  /\ \A c \in LeavesIn(ps, p) \ T : SameNumbers(ps[c], qs[c])

\* A proposal with children is the same one.
SameLeaves(ps, qs, p) ==
  /\ ChildrenIn(qs, p) = ChildrenIn(ps, p) /\ Listed(ps)
  /\ LeavesIn(ps, p) \subseteq DOMAIN ps /\ LeavesIn(ps, p) \subseteq DOMAIN qs
  /\ Quantified(ps) /\ Quantified(qs)

\* A proposal stays covered when its pot falls by no more than what falls on some leaves.
LEMMA CoverMoves ==
  ASSUME NEW ps, NEW qs, NEW p, NEW t \in Nat, NEW v \in Int, NEW w \in Int, NEW state, NEW e \in Nat,
         NEW T, NEW h, SameLeaves(ps, qs, p), Loses(ps, qs, p, e, state, T, h), e = Split(ps, p, t),
         CoveredBy(ps, p, t, state, v), qs[p].eta = ps[p].eta,
         ps[p].eta # 0 /\ Tally(qs[p]) = TalliesOf(qs, p) => Tally(ps[p]) = TalliesOf(ps, p),
         w >= v - SumFunctionOnSet(h, T)
  PROVE  CoveredBy(qs, p, t, state, w)
<1>1. LeavesIn(qs, p) = LeavesIn(ps, p) /\ Split(qs, p, t) = e
  BY LeavesSame DEF SameLeaves
<1>2. Leafwise(ps, p, e, state) /\ (ps[p].eta = 0 \/ Tally(ps[p]) = TalliesOf(ps, p) => v >= Dues(ps, p, e))
  BY DEF CoveredBy
<1>3. Leafwise(qs, p, e, state)
  <2> SUFFICES ASSUME NEW c \in LeavesIn(ps, p)
               PROVE  Own(qs[c]) \in {0, e} /\ (state # "QuorumFailed" => Tally(qs[c]) = RawOf(qs[c]) + e - Own(qs[c]))
    BY <1>1 DEF Leafwise
  <2>1. CASE c \in T
    BY <2>1 DEF Loses
  <2>2. CASE c \notin T
    BY <1>2, <2>2 DEF Leafwise, Loses, SameNumbers
  <2> QED BY <2>1, <2>2
<1>4. /\ Dues(qs, p, e) + SumFunctionOnSet(h, T) <= Dues(ps, p, e)
      /\ Dues(ps, p, e) \in Int /\ Dues(qs, p, e) \in Int /\ SumFunctionOnSet(h, T) \in Int
  <2>1. \A c \in LeavesIn(ps, p) \ T : Due(qs[c], qs[p].eta, e) = Due(ps[c], ps[p].eta, e)
    BY DEF Due, Bonus, Loses, SameNumbers
  <2>2. /\ T \in SUBSET LeavesIn(ps, p)
        /\ \A c \in T : h[c] \in Int /\ Due(qs[c], qs[p].eta, e) + h[c] <= Due(ps[c], ps[p].eta, e)
    BY DEF Loses
  <2>3. /\ ChildrenIn(qs, p) = ChildrenIn(ps, p) /\ Listed(ps)
        /\ LeavesIn(ps, p) \subseteq DOMAIN ps /\ LeavesIn(ps, p) \subseteq DOMAIN qs
        /\ Quantified(ps) /\ Quantified(qs)
    BY DEF SameLeaves
  <2> QED BY <2>1, <2>2, <2>3, DuesFall
<1>5. ps[p].eta = 0 \/ Tally(qs[p]) = TalliesOf(qs, p) => w >= Dues(qs, p, e)
  <2> SUFFICES ASSUME ps[p].eta = 0 \/ Tally(qs[p]) = TalliesOf(qs, p) PROVE w >= Dues(qs, p, e)
    OBVIOUS
  <2>1. v >= Dues(ps, p, e)
    BY <1>2
  <2> QED BY ONLY <1>4, <2>1, w >= v - SumFunctionOnSet(h, T), v \in Int, w \in Int
<1> QED BY <1>1, <1>3, <1>5 DEF CoveredBy

-----------------------------------------------------------------------------
(* A family in a step. *)

\* The invariants that the numbers need.
Sound == StructureOK /\ AllReceipted(proposals) /\ Proposed(proposals) /\ threshold \in Nat

\* What is decided stays so.
LEMMA DecidedStays ==
  ASSUME MovesForward, quorum' = quorum, NEW p \in Ids
  PROVE  /\ State(p) = "QuorumFailed" => State(p)' = "QuorumFailed"
         /\ State(p) \in {"Queued", "Executed", "Expired"} => State(p)' \in {"Queued", "Executed", "Expired"}
<1>1. \/ State(p)' = State(p) \/ <<State(p), State(p)'>> \in Forward
      \/ State(p) = "Canceled"
  BY DEF MovesForward
<1>2. PICK s, z : s = State(p) /\ z = State(p)'
  OBVIOUS
<1>3. z = s \/ <<s, z>> \in Forward \/ s = "Canceled"
  BY <1>1, <1>2
<1>4. /\ s = "QuorumFailed" => z = "QuorumFailed"
      /\ s \in {"Queued", "Executed", "Expired"} => z \in {"Queued", "Executed", "Expired"}
  BY ONLY <1>3 DEF Forward
<1> QED BY <1>2, <1>4

\* A proposal is covered after a step, if by its pot and the votes.
LEMMA CoveredStays ==
  ASSUME NEW p \in Ids, Covered(p), CoveredBy(proposals', p, threshold, State(p), pot'[p]),
         threshold' = threshold, quorum' = quorum, MovesForward, proposals'[p].eta = proposals[p].eta
  PROVE  Covered(p)'
<1>1. /\ State(p) = "QuorumFailed" => State(p)' = "QuorumFailed"
      /\ State(p) \in {"Queued", "Executed", "Expired"} => State(p)' \in {"Queued", "Executed", "Expired"}
  BY DecidedStays
<1>2. CoveredBy(proposals', p, threshold, State(p)', pot'[p])
  BY <1>1 DEF CoveredBy, Leafwise
<1>3. proposals'[p].eta # 0 => State(p)' \in {"Queued", "Executed", "Expired"}
  BY <1>1 DEF Covered
<1> QED BY <1>2, <1>3 DEF Covered

\* What the lemmas on sums need to know of a family.
LEMMA FamilyFacts ==
  ASSUME Sound, Sound', Ids \subseteq Ids', NEW p \in Ids, proposals[p].parent = 0, Children(p)' = Children(p)
  PROVE  /\ SameLeaves(proposals, proposals', p)
         /\ LeavesIn(proposals, p) = Leaves(p) /\ LeavesIn(proposals', p) = Leaves(p)
         /\ Split(proposals, p, threshold) \in Nat
<1>1. Children(p) = ChildrenIn(proposals, p) /\ Children(p)' = ChildrenIn(proposals', p)
  BY DEF Children, ChildrenIn, Ids
<1>2. Listed(proposals) /\ threshold \in Nat
  BY DEF Sound, StructureOK
<1>3. LeavesIn(proposals, p) = Leaves(p) /\ Leaves(p) \in SUBSET Ids
  BY LeavesAre DEF Sound
<1>4. LeavesIn(proposals', p) = LeavesIn(proposals, p)
  BY <1>1 DEF LeavesIn
<1>5. Quantified(proposals)
  BY AllQuantified DEF Sound
<1>6. AllReceipted(proposals') /\ Proposed(proposals')
  BY DEF Sound
<1>7. Quantified(proposals')
  BY <1>6, AllQuantified
<1>8. Split(proposals, p, threshold) \in Nat
  BY <1>2, Shares
<1> QED BY <1>1, <1>2, <1>3, <1>4, <1>5, <1>7, <1>8 DEF SameLeaves, Ids

\* A step that takes from some leaves of a proposal and from its pot.
LEMMA FamilyMoves ==
  ASSUME Sound, Sound', Ids \subseteq Ids', NEW p \in Ids, proposals[p].parent = 0, Covered(p), pot[p] \in Int,
         Children(p)' = Children(p), NEW e \in Nat, e = Split(proposals, p, threshold), NEW T, NEW h,
         Loses(proposals, proposals', p, e, State(p), T, h), proposals'[p].eta = proposals[p].eta,
         proposals[p].eta # 0 /\ Tally(proposals'[p]) = TalliesOf(proposals', p)
           => Tally(proposals[p]) = TalliesOf(proposals, p),
         pot'[p] \in Int, pot'[p] >= pot[p] - SumFunctionOnSet(h, T),
         threshold' = threshold, quorum' = quorum, MovesForward
  PROVE  Covered(p)'
<1>1. SameLeaves(proposals, proposals', p)
  BY FamilyFacts
<1>2. CoveredBy(proposals, p, threshold, State(p), pot[p]) /\ threshold \in Nat
  BY DEF Covered, Sound
<1>3. PICK state : state = State(p)
  OBVIOUS
<1>4. PICK v \in Int : v = pot[p]
  OBVIOUS
<1>5. PICK w \in Int : w = pot'[p]
  OBVIOUS
<1>6. PICK t \in Nat : t = threshold
  BY <1>2
<1>7. PICK ps, qs : ps = proposals /\ qs = proposals'
  OBVIOUS
<1>8. CoveredBy(qs, p, t, state, w)
  <2>1. /\ SameLeaves(ps, qs, p) /\ Loses(ps, qs, p, e, state, T, h)
        /\ e = Split(ps, p, t) /\ CoveredBy(ps, p, t, state, v) /\ qs[p].eta = ps[p].eta
        /\ (ps[p].eta # 0 /\ Tally(qs[p]) = TalliesOf(qs, p) => Tally(ps[p]) = TalliesOf(ps, p))
    BY <1>1, <1>2, <1>3, <1>4, <1>6, <1>7
  <2>2. w >= v - SumFunctionOnSet(h, T)
    BY <1>4, <1>5
  <2> QED BY <2>1, <2>2, CoverMoves
<1>9. CoveredBy(proposals', p, threshold, State(p), pot'[p])
  BY <1>3, <1>5, <1>6, <1>7, <1>8
<1> QED BY <1>9, CoveredStays

\* A step that changes nothing in a family.
LEMMA FamilyKept ==
  ASSUME Sound, Sound', Ids \subseteq Ids', NEW p \in Ids, proposals[p].parent = 0, Covered(p), pot[p] \in Int,
         Children(p)' = Children(p),
         \A c \in {p} \cup Children(p) : SameNumbers(proposals[c], proposals'[c]),
         proposals'[p].eta = proposals[p].eta, pot'[p] = pot[p],
         threshold' = threshold, quorum' = quorum, MovesForward
  PROVE  Covered(p)'
<1>1. SameLeaves(proposals, proposals', p) /\ LeavesIn(proposals, p) = Leaves(p)
  BY FamilyFacts
<1>2. PICK e \in Nat : e = Split(proposals, p, threshold)
  BY FamilyFacts
<1>3. \A c \in LeavesIn(proposals, p) : SameNumbers(proposals[c], proposals'[c])
  BY <1>1 DEF Leaves
<1>4. TalliesOf(proposals', p) = TalliesOf(proposals, p) /\ Tally(proposals'[p]) = Tally(proposals[p])
  <2>1. \A c \in LeavesIn(proposals, p) : Tally(proposals'[c]) = Tally(proposals[c])
    BY <1>3 DEF SameNumbers
  <2>2. ChildrenIn(proposals', p) = ChildrenIn(proposals, p)
    BY <1>1 DEF SameLeaves
  <2> QED BY <2>1, <2>2, TalliesSame DEF SameNumbers
<1>5. PICK T, h : T = {} /\ h = [c \in T |-> 0]
  OBVIOUS
<1>6. Loses(proposals, proposals', p, e, State(p), T, h)
  BY <1>3, <1>5 DEF Loses
<1>7. SumFunctionOnSet(h, T) = 0
  BY <1>5, SumEmpty
<1>8. pot'[p] \in Int /\ pot'[p] >= pot[p] - SumFunctionOnSet(h, T)
  BY <1>7
<1> QED BY <1>2, <1>4, <1>6, <1>8, FamilyMoves

\* A refund on a leaf takes no more from the pot than from what must be there for it.
LEMMA LeafRefunded ==
  ASSUME Sound, NEW p \in Ids, proposals[p].parent = 0, Covered(p), NEW c \in Leaves(p), NEW a \in Account,
         MayRefund(a, c), Paid(a, c) > 0, NEW e \in Nat, e = Split(proposals, p, threshold)
  PROVE  LET r == TakenBack(c, a)
             eta == proposals[p].eta
         IN  /\ Burned(a, c) \in Nat /\ Paid(a, c) \in Nat
             /\ Due(r, eta, e) + (Burned(a, c) + Paid(a, c)) <= Due(proposals[c], eta, e)
             /\ Own(r) \in {0, e}
             /\ State(p) # "QuorumFailed" => Tally(r) = RawOf(r) + e - Own(r)
             /\ eta # 0 => Tally(r) = Tally(proposals[c])
<1> DEFINE q == proposals[c]
           r == TakenBack(c, a)
<1>1. /\ StructureOK /\ c \in Ids /\ p # 0 /\ (c = p \/ proposals[c].parent = p)
      /\ LeavesIn(proposals, p) = Leaves(p)
  BY LeavesAre DEF Sound
<1>2. /\ Receipted(q) /\ q.proposer \in Account /\ q.rawForVotes \in Int /\ q.rawAgainstVotes \in Int
  BY <1>1 DEF Sound, AllReceipted, Proposed, Ids
<1>20. q.receipts[a].rawVotes \in Nat
  BY <1>2, QuantitiesType
<1>3. PICK raw \in Nat : raw = q.receipts[a].rawVotes
  BY <1>20
<1>21. PICK active : active = RefundState(c)
  OBVIOUS
<1>4. /\ Receipted(r) /\ r.proposer = q.proposer
      /\ Tally(r) = IF active = "Active" THEN Tally(q) - raw ELSE Tally(q)
      /\ RawOf(r) = RawOf(q) - raw
      /\ Own(r) = IF a = q.proposer THEN 0 ELSE Own(q)
  BY <1>1, <1>2, <1>3, <1>21, TakenBackCounts DEF Sound
<1>5. RawOf(q) \in Nat /\ Own(q) \in Nat /\ Tally(q) \in Int /\ raw \in Nat
  BY <1>2, <1>3, QuantitiesType
<1>6. a = q.proposer => Own(q) = raw
  BY <1>3 DEF Own
<1>7. /\ Burned(a, c) \in Nat /\ Paid(a, c) \in Nat
      /\ Burned(a, c) + Paid(a, c) <= raw + IF a = q.proposer THEN raw \div 2 ELSE 0
      /\ raw # 0
  <2>1. /\ Burned(a, c) \in Nat /\ Paid(a, c) \in Nat
        /\ Burned(a, c) + Paid(a, c) <= raw + IF IsProposer(a, c) THEN raw \div 2 ELSE 0
        /\ raw = 0 => Paid(a, c) = 0
    BY <1>3, <1>5, RefundBound DEF Receipt
  <2> QED BY <2>1 DEF IsProposer
<1>8. /\ Own(q) \in {0, e}
      /\ State(p) # "QuorumFailed" => Tally(q) = RawOf(q) + e - Own(q)
      /\ proposals[p].eta # 0 => State(p) \in {"Queued", "Executed", "Expired"}
  BY <1>1 DEF Covered, CoveredBy, Leafwise
<1>9. a = q.proposer => active # "Active"
  BY <1>21 DEF MayRefund, IsProposer, Passed
<1>10. a # q.proposer /\ active # "Active" => State(p) = "QuorumFailed"
  <2> SUFFICES ASSUME a # q.proposer, active # "Active" PROVE State(p) = "QuorumFailed"
    OBVIOUS
  <2>1. RefundState(c) = "QuorumFailed"
    BY <1>21 DEF MayRefund, IsProposer, Passed
  <2>2. CASE c = p
    BY <2>1, <2>2 DEF RefundState
  <2>3. CASE c # p
    <3>1. proposals[c].parent = p /\ proposals[c].parent # 0
      BY <1>1, <2>3
    <3>2. State(c) # "QuorumFailed"
      BY <3>1 DEF State
    <3> QED BY <2>1, <3>1, <3>2 DEF RefundState
  <2> QED BY <2>2, <2>3
<1>11. ASSUME proposals[p].eta # 0
       PROVE  active # "Active" /\ a = q.proposer
  BY <1>1, <1>8, <1>11, <1>21, QueuedRefunds DEF IsProposer
<1>12. PICK ro, ow, ta \in Int : ro = RawOf(q) /\ ow = Own(q) /\ ta = Tally(q)
  BY <1>5
<1>13. PICK ro2, ow2, ta2 \in Int : ro2 = RawOf(r) /\ ow2 = Own(r) /\ ta2 = Tally(r)
  BY <1>4, <1>5
<1>14. PICK claim \in Nat : claim = Burned(a, c) + Paid(a, c)
  BY <1>7
<1>15. PICK eta : eta = proposals[p].eta
  OBVIOUS
<1>16. PICK due, due2 : due = Due(q, eta, e) /\ due2 = Due(r, eta, e)
  OBVIOUS
<1> HIDE DEF q, r
<1>17. /\ due = (IF eta = 0 THEN ro ELSE ow) - IF ow = 0 THEN e \div 2 ELSE 0
       /\ due2 = (IF eta = 0 THEN ro2 ELSE ow2) - IF ow2 = 0 THEN e \div 2 ELSE 0
  BY <1>12, <1>13, <1>16 DEF Due, Bonus
<1>18. CASE a = q.proposer
  <2>1. ow = raw /\ raw \in Nat /\ raw # 0 /\ ow = e /\ ow2 = 0 /\ ta2 = ta /\ ro2 = ro - raw
    BY <1>4, <1>5, <1>6, <1>7, <1>8, <1>9, <1>12, <1>13, <1>18
  <2>2. claim <= raw + raw \div 2
    BY <1>7, <1>14, <1>18
  <2>5. ow = e /\ e # 0
    BY <2>1
  <2>6. ro2 = ro - e
    BY <2>1
  <2>7. ow2 = 0 /\ ta2 = ta
    BY <2>1
  <2>3. due2 + claim <= due
    <3>1. PICK k \in Nat : k = e \div 2
      OBVIOUS
    <3>2. claim <= e + k
      BY <2>1, <2>2, <3>1
    <3>3. due = IF eta = 0 THEN ro ELSE e
      BY ONLY <1>17, <2>5, e \in Nat, ro \in Int
    <3>4. due2 = (IF eta = 0 THEN ro - e ELSE 0) - k
      BY ONLY <1>17, <2>6, <2>7, <3>1, e \in Nat, ro \in Int
    <3> QED BY ONLY <3>2, <3>3, <3>4, e \in Nat, ro \in Int
  <2>4. State(p) # "QuorumFailed" => ta2 = ro2 + e - ow2
    <3> SUFFICES ASSUME State(p) # "QuorumFailed" PROVE ta2 = ro2 + e - ow2
      OBVIOUS
    <3>1. ta = ro + e - ow
      BY <1>8, <1>12
    <3>2. ta2 = ro
      BY ONLY <2>5, <2>7, <3>1, e \in Nat, ro \in Int
    <3>3. ro2 + e - 0 = ro
      BY ONLY <2>6, e \in Nat, ro \in Int
    <3> QED BY ONLY <2>7, <3>2, <3>3
  <2> QED BY <1>7, <1>12, <1>13, <1>14, <1>15, <1>16, <2>1, <2>3, <2>4 DEF q, r
<1>19. CASE a # q.proposer
  <2>1. raw \in Nat /\ ow2 = ow /\ ro2 = ro - raw /\ eta = 0 /\ claim <= raw /\ ow \in {0, e}
    BY <1>4, <1>5, <1>7, <1>8, <1>11, <1>12, <1>13, <1>14, <1>15, <1>19
  <2>2. due2 + claim <= due
    BY ONLY <1>12, <1>14, <1>17, <2>1, e \in Nat
  <2>3. State(p) # "QuorumFailed" => ta2 = ro2 + e - ow2
    BY <1>4, <1>8, <1>10, <1>12, <1>13, <1>19, <2>1
  <2> QED BY <1>7, <1>11, <1>12, <1>13, <1>14, <1>15, <1>16, <1>19, <2>1, <2>2, <2>3 DEF q, r
<1> QED BY <1>18, <1>19

\* Every proposal has a pot.
LEMMA PotType ==
  ASSUME StructureOK, Potted
  PROVE  Ids \subseteq 1 .. MaxProposals /\ \A p \in Ids : pot[p] \in Int
<1>1. PICK n \in Nat : n = Len(proposals) /\ Ids = 1 .. n
  BY DEF StructureOK, Listed, Ids
<1>2. MaxProposals \in Nat /\ n <= MaxProposals
  BY <1>1, GovernorAssumption DEF Potted
<1>3. Ids \subseteq 1 .. MaxProposals
  BY <1>1, <1>2
<1> QED BY <1>3 DEF Potted

\* The family of a proposal.
LEMMA FamilyIs ==
  ASSUME StructureOK, NEW q \in Ids
  PROVE  /\ Family(q) \in Ids /\ proposals[Family(q)].parent = 0 /\ Family(q) # 0
         /\ q = Family(q) \/ q \in Children(Family(q))
         /\ Children(q) = {} => q \in Leaves(Family(q))
         /\ Children(q) # {} => q = Family(q) /\ Children(q) = Leaves(q)
<1>1. 0 \notin Ids /\ Ids = DOMAIN proposals
  BY FamilyBlocks DEF Ids
<1>2. CASE proposals[q].parent = 0
  BY <1>1, <1>2 DEF Family, Leaves
<1>3. CASE proposals[q].parent # 0
  <2>1. /\ Family(q) = proposals[q].parent /\ Family(q) \in Ids /\ proposals[Family(q)].parent = 0
    BY <1>1, <1>3 DEF Family, StructureOK, Parented
  <2>2. q \in Children(Family(q))
    BY <2>1 DEF Children
  <2>3. Children(q) = {}
    BY <1>1, <1>3 DEF Children, StructureOK, Parented
  <2> QED BY <1>1, <2>1, <2>2, <2>3 DEF Leaves
<1> QED BY <1>2, <1>3

\* Families are disjoint.
LEMMA FamiliesApart ==
  ASSUME StructureOK, NEW p \in Ids, proposals[p].parent = 0, NEW r \in Ids, proposals[r].parent = 0, p # r,
         NEW c \in {p} \cup Children(p)
  PROVE  c \notin Leaves(r) /\ c # r
<1>1. p # 0 /\ r # 0
  BY FamilyBlocks
<1> QED BY <1>1 DEF Children, Leaves

\* What happens in one family leaves the others covered.
LEMMA OthersKept ==
  ASSUME Sound, Sound', MovesForward, Potted, Potted', NEW r \in Ids, proposals[r].parent = 0, Ids \subseteq Ids',
         \A x \in Ids : x \notin Leaves(r) /\ x # r => proposals'[x] = proposals[x],
         NEW z, pot' = [pot EXCEPT ![r] = z], threshold' = threshold, quorum' = quorum,
         NEW p \in Ids, p # r, proposals[p].parent = 0, Children(p)' = Children(p), Covered(p)
  PROVE  Covered(p)'
<1>1. StructureOK
  BY DEF Sound
<1>2. \A c \in {p} \cup Children(p) : proposals'[c] = proposals[c]
  <2>1. \A c \in {p} \cup Children(p) : c \in Ids /\ c \notin Leaves(r) /\ c # r
    BY <1>1, FamiliesApart DEF Children
  <2> QED BY <2>1
<1>3. \A c \in {p} \cup Children(p) : SameNumbers(proposals[c], proposals'[c])
  BY <1>2 DEF SameNumbers
<1>4. pot'[p] = pot[p] /\ pot[p] \in Int
  BY <1>1, PotType DEF Potted
<1> QED BY <1>2, <1>3, <1>4, FamilyKept

\* Refunding in a family keeps it covered.
LEMMA RefundFromFamily ==
  ASSUME Sound, Sound', VotesOnly, MovesForward, NEW a \in Account, NEW p \in Ids, proposals[p].parent = 0,
         Covered(p), NEW T \in SUBSET Leaves(p), IsFiniteSet(T),
         \A c \in T : MayRefund(a, c) /\ Paid(a, c) > 0 /\ proposals'[c] = TakenBack(c, a),
         \A c \in Leaves(p) \ T : SameNumbers(proposals[c], proposals'[c]),
         p \in T \/ Tally(proposals'[p]) = Tally(proposals[p]), threshold' = threshold,
         pot[p] \in Int, pot'[p] \in Int,
         pot'[p] = pot[p] - SumFunction([c \in T |-> Burned(a, c)]) - SumFunction([c \in T |-> Paid(a, c)])
  PROVE  Covered(p)'
<1> DEFINE f == [c \in T |-> Burned(a, c)]
           g == [c \in T |-> Paid(a, c)]
           h == [c \in T |-> Burned(a, c) + Paid(a, c)]
<1>1. Children(p)' = Children(p) /\ Ids \subseteq Ids' /\ proposals'[p].eta = proposals[p].eta /\ quorum' = quorum
  BY ChildrenKept DEF VotesOnly, SameProposal
<1>2. LeavesIn(proposals, p) = Leaves(p) /\ SameLeaves(proposals, proposals', p)
  BY <1>1, FamilyFacts
<1>3. PICK e \in Nat : e = Split(proposals, p, threshold)
  BY <1>1, FamilyFacts
<1>4. ASSUME NEW c \in T
      PROVE  LET r == proposals'[c]
                 eta == proposals[p].eta
             IN  /\ Burned(a, c) \in Nat /\ Paid(a, c) \in Nat
                 /\ Due(r, eta, e) + (Burned(a, c) + Paid(a, c)) <= Due(proposals[c], eta, e)
                 /\ Own(r) \in {0, e}
                 /\ State(p) # "QuorumFailed" => Tally(r) = RawOf(r) + e - Own(r)
                 /\ eta # 0 => Tally(r) = Tally(proposals[c])
  <2>1. MayRefund(a, c) /\ Paid(a, c) > 0 /\ c \in Leaves(p) /\ proposals'[c] = TakenBack(c, a)
    OBVIOUS
  <2> QED BY <1>3, <2>1, LeafRefunded
<1>5. \A c \in T : /\ f[c] = Burned(a, c) /\ g[c] = Paid(a, c) /\ h[c] = Burned(a, c) + Paid(a, c)
                   /\ f[c] \in Int /\ g[c] \in Int /\ h[c] \in Int /\ h[c] = f[c] + g[c]
  <2>1. \A c \in T : Burned(a, c) \in Nat /\ Paid(a, c) \in Nat
    BY <1>4
  <2> QED BY <2>1
<1>6. pot'[p] = pot[p] - SumFunctionOnSet(f, T) - SumFunctionOnSet(g, T)
  BY DEF SumFunction
<1> HIDE DEF f, g, h
<1>7. /\ SumFunctionOnSet(h, T) = SumFunctionOnSet(f, T) + SumFunctionOnSet(g, T)
      /\ SumFunctionOnSet(f, T) \in Int /\ SumFunctionOnSet(g, T) \in Int
  BY <1>5, SumPlus, SumType
<1>8. pot'[p] >= pot[p] - SumFunctionOnSet(h, T)
  BY <1>6, <1>7
<1>9. Loses(proposals, proposals', p, e, State(p), T, h)
  <2>1. T \in SUBSET LeavesIn(proposals, p) /\ \A c \in LeavesIn(proposals, p) \ T : SameNumbers(proposals[c], proposals'[c])
    BY <1>2
  <2>2. ASSUME NEW c \in T
        PROVE  /\ h[c] \in Int
               /\ Due(proposals'[c], proposals'[p].eta, e) + h[c] <= Due(proposals[c], proposals[p].eta, e)
               /\ Own(proposals'[c]) \in {0, e}
               /\ State(p) # "QuorumFailed" => Tally(proposals'[c]) = RawOf(proposals'[c]) + e - Own(proposals'[c])
    <3>1. h[c] = Burned(a, c) + Paid(a, c) /\ h[c] \in Int
      BY <1>5
    <3> QED BY <1>1, <1>4, <3>1
  <2> QED BY <2>1, <2>2 DEF Loses
<1>10. proposals[p].eta # 0 /\ Tally(proposals'[p]) = TalliesOf(proposals', p)
         => Tally(proposals[p]) = TalliesOf(proposals, p)
  <2> SUFFICES ASSUME proposals[p].eta # 0 
               PROVE  /\ Tally(proposals'[p]) = Tally(proposals[p])
                      /\ TalliesOf(proposals', p) = TalliesOf(proposals, p)
    OBVIOUS
  <2>1. \A c \in T : Tally(proposals'[c]) = Tally(proposals[c])
    BY <1>4
  <2>2. \A c \in LeavesIn(proposals, p) : Tally(proposals'[c]) = Tally(proposals[c])
    BY <1>2, <2>1 DEF SameNumbers
  <2>3. ChildrenIn(proposals', p) = ChildrenIn(proposals, p)
    BY <1>2 DEF SameLeaves
  <2> QED BY <2>1, <2>2, <2>3, TalliesSame
<1> QED BY <1>1, <1>3, <1>8, <1>9, <1>10, FamilyMoves

\* Every refund does.
LEMMA RefundCovers ==
  ASSUME Sound, Sound', MovesForward, Potted, Potted', NEW a \in Account, NEW q \in Ids, Refund(a, q),
         NEW p \in Ids, proposals[p].parent = 0, Covered(p)
  PROVE  Covered(p)'
<1> DEFINE refunds == IF Children(q) = {} THEN {q} ELSE {c \in Children(q) : ~Receipt(c, a).refunded}
           burned == SumFunction([c \in refunds |-> Burned(a, c)])
           paid == SumFunction([c \in refunds |-> Paid(a, c)])
<1>1. /\ \A c \in refunds : MayRefund(a, c) /\ Paid(a, c) > 0
      /\ \A x \in Ids : proposals'[x] = IF x \in refunds THEN TakenBack(x, a)
                                        ELSE IF x = Family(q) THEN OnParent(x, a, refunds)
                                        ELSE proposals[x]
      /\ Ids' = Ids /\ pot' = [pot EXCEPT ![Family(q)] = pot[Family(q)] - burned - paid]
      /\ threshold' = threshold
  BY DEF Refund, Ids
<1>2. StructureOK /\ VotesOnly
  BY RefundIsVotesOnly DEF Sound
<1>3. /\ Family(q) \in Ids /\ proposals[Family(q)].parent = 0
      /\ refunds \in SUBSET Leaves(Family(q))
      /\ Family(q) \in Leaves(Family(q)) => refunds = Leaves(Family(q))
  <2>1. /\ Family(q) \in Ids /\ proposals[Family(q)].parent = 0 /\ Family(q) # 0
        /\ q = Family(q) \/ q \in Children(Family(q))
        /\ Children(q) = {} => q \in Leaves(Family(q))
        /\ Children(q) # {} => q = Family(q) /\ Children(q) = Leaves(q)
    BY <1>2, FamilyIs
  <2>2. refunds \in SUBSET Leaves(Family(q))
    BY <2>1
  <2>3. Family(q) \in Leaves(Family(q)) => Leaves(Family(q)) = {Family(q)} /\ q = Family(q) /\ Children(q) = {}
    BY <2>1 DEF Leaves, Children
  <2> QED BY <2>1, <2>2, <2>3
<1>4. /\ pot \in [1 .. MaxProposals -> Int] /\ Ids \subseteq 1 .. MaxProposals /\ pot' \in [1 .. MaxProposals -> Int]
  BY <1>2, PotType DEF Potted
<1> HIDE DEF refunds, burned, paid
<1>5. CASE p # Family(q)
  <2>1. \A x \in Ids : x \notin Leaves(Family(q)) /\ x # Family(q) => proposals'[x] = proposals[x]
    BY <1>1, <1>3
  <2>2. Children(p)' = Children(p) /\ Ids \subseteq Ids' /\ quorum' = quorum
    BY <1>2, ChildrenKept DEF VotesOnly
  <2> QED BY <1>1, <1>3, <1>5, <2>1, <2>2, OthersKept
<1>6. CASE p = Family(q)
  <2>1. pot[p] \in Int /\ pot'[p] \in Int /\ pot'[p] = pot[p] - burned - paid
    BY <1>1, <1>4, <1>6
  <2>2. Leaves(p) \in SUBSET Ids /\ IsFiniteSet(Leaves(p))
    BY <1>2, LeavesAre
  <2>3. IsFiniteSet(refunds) /\ refunds \in SUBSET Leaves(p)
    BY <1>3, <1>6, <2>2, FS_Subset
  <2>4. \A c \in refunds : MayRefund(a, c) /\ Paid(a, c) > 0 /\ proposals'[c] = TakenBack(c, a)
    BY <1>1, <2>2, <2>3
  <2>5. \A c \in Leaves(p) \ refunds : SameNumbers(proposals[c], proposals'[c])
    <3>1. \A c \in Leaves(p) \ refunds : c # p /\ proposals'[c] = proposals[c]
      BY <1>1, <1>3, <1>6, <2>2
    <3> QED BY <3>1 DEF SameNumbers
  <2>6. p \in refunds \/ Tally(proposals'[p]) = Tally(proposals[p])
    <3> SUFFICES ASSUME p \notin refunds PROVE Tally(proposals'[p]) = Tally(proposals[p])
      OBVIOUS
    <3>1. proposals'[p] = OnParent(p, a, refunds)
      BY <1>1, <1>6
    <3> QED BY <1>2, <3>1, OnParentCounts DEF Tally
  <2>7. pot'[p] = pot[p] - SumFunction([c \in refunds |-> Burned(a, c)]) - SumFunction([c \in refunds |-> Paid(a, c)])
    BY <2>1 DEF burned, paid
  <2> QED BY <1>1, <1>2, <2>1, <2>3, <2>4, <2>5, <2>6, <2>7, RefundFromFamily
<1> QED BY <1>5, <1>6

\* A vote that is not the proposer's adds to a leaf what it adds to the pot.
LEMMA LeafVoted ==
  ASSUME Sound, NEW p \in Ids, proposals[p].parent = 0, proposals[p].eta = 0, Covered(p), NEW c \in Leaves(p),
         NEW a \in Account, a # proposals[c].proposer, NEW support \in BOOLEAN, NEW each \in Nat,
         NEW e \in Nat, e = Split(proposals, p, threshold)
  PROVE  LET r == Accounted(proposals[c], a, support, each)
         IN  /\ Due(r, 0, e) + (-each) <= Due(proposals[c], 0, e)
             /\ Own(r) \in {0, e}
             /\ State(p) # "QuorumFailed" => Tally(r) = RawOf(r) + e - Own(r)
<1> DEFINE q == proposals[c]
           r == Accounted(q, a, support, each)
<1>1. StructureOK /\ c \in Ids /\ LeavesIn(proposals, p) = Leaves(p) /\ block \in Nat
  BY LeavesAre DEF Sound, StructureOK
<1>2. /\ Shaped(q) /\ Receipted(q) /\ q.proposer \in Account
      /\ q.rawForVotes \in Int /\ q.rawAgainstVotes \in Int
  BY <1>1 DEF Sound, AllReceipted, Proposed, StructureOK, AllShaped, Ids
<1>3. Tally(r) = Tally(q) + each /\ RawOf(r) = RawOf(q) + each /\ Own(r) = Own(q)
  BY <1>1, <1>2, AccountedCounts
<1>4. RawOf(q) \in Nat /\ Own(q) \in Nat /\ Tally(q) \in Int
  BY <1>2, QuantitiesType
<1>5. Own(q) \in {0, e} /\ (State(p) # "QuorumFailed" => Tally(q) = RawOf(q) + e - Own(q))
  BY <1>1 DEF Covered, CoveredBy, Leafwise
<1>6. PICK ro, ow, ta \in Int : ro = RawOf(q) /\ ow = Own(q) /\ ta = Tally(q)
  BY <1>4
<1>7. PICK k \in Int : k = Bonus(q, e)
  BY <1>2, QuantitiesType
<1> HIDE DEF q, r
<1>8. Due(q, 0, e) = ro - k /\ Due(r, 0, e) = (ro + each) - k
  <2>1. Bonus(r, e) = Bonus(q, e)
    BY <1>3 DEF Bonus
  <2> QED BY <1>3, <1>6, <1>7, <2>1 DEF Due
<1>9. (ro + each) - k + (-each) <= ro - k
  OBVIOUS
<1>10. State(p) # "QuorumFailed" => Tally(r) = RawOf(r) + e - Own(r)
  <2> SUFFICES ASSUME State(p) # "QuorumFailed" PROVE Tally(r) = RawOf(r) + e - Own(r)
    OBVIOUS
  <2>1. ta = ro + e - ow
    BY <1>5, <1>6
  <2>2. Tally(r) = ta + each /\ RawOf(r) = ro + each /\ Own(r) = ow
    BY <1>3, <1>6
  <2>3. ta + each = (ro + each) + e - ow
    BY ONLY <2>1, ro \in Int, ow \in Int, e \in Nat, each \in Nat
  <2> QED BY <2>2, <2>3
<1> QED BY <1>3, <1>5, <1>8, <1>9, <1>10 DEF q, r

\* A vote keeps every family covered.
LEMMA VoteCovers ==
  ASSUME Sound, Sound', MovesForward, Potted, Potted', NEW a \in Account, NEW q \in Ids,
         NEW support \in BOOLEAN, NEW amount \in VoteAmount, Vote(a, q, support, amount),
         NEW p \in Ids, proposals[p].parent = 0, Covered(p)
  PROVE  Covered(p)'
<1> DEFINE T == LeavesIn(proposals, q)
           r == Family(q)
           each == Split(proposals, q, amount)
           total == each * Cardinality(T)
<1>1. /\ State(q) = "Active" /\ a # proposals[q].proposer /\ threshold' = threshold
      /\ \A x \in Ids : proposals'[x] = IF x \in T THEN Accounted(proposals[x], a, support, each)
                                        ELSE IF x = r THEN Accounted(proposals[x], a, support, total)
                                        ELSE proposals[x]
      /\ Ids' = Ids /\ pot' = [pot EXCEPT ![r] = pot[r] + total]
  BY DEF Vote, CastVote, LeavesIn, ChildrenIn, Family, Ids
<1>2. StructureOK /\ VotesOnly
  BY VoteIsVotesOnly DEF Sound
<1>3. /\ r \in Ids /\ proposals[r].parent = 0 /\ T \in SUBSET Leaves(r)
      /\ q = r \/ proposals[q].parent = r
      /\ r \in Leaves(r) => T = Leaves(r)
  <2>1. /\ r \in Ids /\ proposals[r].parent = 0 /\ r # 0
        /\ q = r \/ q \in Children(r)
        /\ Children(q) = {} => q \in Leaves(r)
        /\ Children(q) # {} => q = r /\ Children(q) = Leaves(q)
    BY <1>2, FamilyIs
  <2>2. T = Leaves(q)
    BY DEF LeavesIn, Leaves, ChildrenIn, Children, Ids
  <2>3. T \in SUBSET Leaves(r)
    BY <2>1, <2>2 DEF Leaves
  <2>4. r \in Leaves(r) => Leaves(r) = {r} /\ q = r
    BY <2>1 DEF Leaves, Children
  <2> QED BY <2>1, <2>2, <2>3, <2>4 DEF Children
<1>4. /\ pot \in [1 .. MaxProposals -> Int] /\ Ids \subseteq 1 .. MaxProposals /\ pot' \in [1 .. MaxProposals -> Int]
  BY <1>2, PotType DEF Potted
<1>5. /\ each \in Nat /\ Cardinality(T) \in Nat /\ IsFiniteSet(T)
  <2>1. Listed(proposals) /\ amount \in Nat
    BY <1>2, GovernorAssumption DEF StructureOK
  <2> QED BY <2>1, Shares
<1>6. Children(p)' = Children(p) /\ Ids \subseteq Ids' /\ quorum' = quorum /\ proposals'[p].eta = proposals[p].eta
  BY <1>2, ChildrenKept DEF VotesOnly, SameProposal
<1> HIDE DEF T, r, each, total
<1>7. CASE p # r
  <2>1. \A x \in Ids : x \notin Leaves(r) /\ x # r => proposals'[x] = proposals[x]
    BY <1>1, <1>3
  <2> QED BY <1>1, <1>3, <1>6, <1>7, <2>1, OthersKept
<1>8. CASE p = r
  <2>1. pot[p] \in Int /\ pot'[p] \in Int /\ pot'[p] = pot[p] + total
    BY <1>1, <1>4, <1>8
  <2>2. proposals[p].eta = 0
    <3>1. EndBlock(p) = EndBlock(q) /\ EndBlock(p) \in Nat /\ block \in Nat
      BY <1>2, <1>3, <1>8, FamilyBlocks DEF Children, StructureOK
    <3>2. block <= EndBlock(q)
      BY <1>1, ActiveIsOpen
    <3> QED BY <1>2, <3>1, <3>2 DEF StructureOK, EtaOK
  <2>3. PICK e \in Nat : e = Split(proposals, p, threshold)
    BY <1>6, FamilyFacts
  <2>4. LeavesIn(proposals, p) = Leaves(p) /\ Leaves(p) \in SUBSET Ids
    BY <1>2, LeavesAre
  <2>5. ASSUME NEW c \in Leaves(p)
        PROVE  proposals[c].proposer = proposals[q].proposer
    <3>1. p # 0 /\ (c = p \/ proposals[c].parent = p)
      BY <1>2, LeavesAre
    <3>2. \A x \in Ids : proposals[x].parent # 0 => proposals[proposals[x].parent].proposer = proposals[x].proposer
      BY DEF Sound, Proposed, Ids
    <3> QED BY <1>3, <1>8, <2>4, <3>1, <3>2
  <2>6. PICK n \in Nat : n = each
    BY <1>5
  <2>7. PICK h : h = [c \in T |-> -n]
    OBVIOUS
  <2>8. Loses(proposals, proposals', p, e, State(p), T, h)
    <3>1. ASSUME NEW c \in T
          PROVE  /\ h[c] \in Int
                 /\ Due(proposals'[c], proposals'[p].eta, e) + h[c] <= Due(proposals[c], proposals[p].eta, e)
                 /\ Own(proposals'[c]) \in {0, e}
                 /\ State(p) # "QuorumFailed" => Tally(proposals'[c]) = RawOf(proposals'[c]) + e - Own(proposals'[c])
      <4>1. c \in Leaves(p) /\ c \in Ids /\ proposals'[c] = Accounted(proposals[c], a, support, n)
        BY <1>1, <1>3, <1>8, <2>4, <2>6
      <4>2. a # proposals[c].proposer
        BY <1>1, <2>5, <4>1
      <4>3. LET s == Accounted(proposals[c], a, support, n)
            IN  /\ Due(s, 0, e) + (-n) <= Due(proposals[c], 0, e)
                /\ Own(s) \in {0, e}
                /\ State(p) # "QuorumFailed" => Tally(s) = RawOf(s) + e - Own(s)
        BY <2>2, <2>3, <4>1, <4>2, LeafVoted
      <4>4. h[c] = -n /\ proposals'[p].eta = 0
        BY <1>6, <2>2, <2>7
      <4> QED BY <2>2, <4>1, <4>3, <4>4
    <3>2. \A c \in LeavesIn(proposals, p) \ T : SameNumbers(proposals[c], proposals'[c])
      <4>1. \A c \in Leaves(p) \ T : c # p /\ proposals'[c] = proposals[c]
        BY <1>1, <1>3, <1>8, <2>4
      <4> QED BY <2>4, <4>1 DEF SameNumbers
    <3>3. T \in SUBSET LeavesIn(proposals, p)
      BY <1>3, <1>8, <2>4
    <3> QED BY <3>1, <3>2, <3>3 DEF Loses
  <2>9. pot'[p] >= pot[p] - SumFunctionOnSet(h, T)
    <3>1. -n \in Int /\ \A c \in T : h[c] = -n
      BY <2>7
    <3>2. SumFunctionOnSet(h, T) = (-n) * Cardinality(T)
      BY <1>5, <3>1, SumConst
    <3>3. PICK k \in Nat : k = Cardinality(T)
      BY <1>5
    <3>4. total = n * k
      BY <2>6, <3>3 DEF total
    <3>5. PICK m : m = n * k
      OBVIOUS
    <3>6. (-n) * k = -m /\ m \in Int
      BY ONLY <3>5, n \in Nat, k \in Nat
    <3> QED BY <2>1, <3>2, <3>3, <3>4, <3>5, <3>6
  <2> QED BY <1>1, <1>6, <2>1, <2>2, <2>3, <2>8, <2>9, FamilyMoves
<1> QED BY <1>7, <1>8

\* Queueing burns what others than the proposer have put on the leaves, and keeps what is his.
LEMMA CoverQueued ==
  ASSUME NEW ps, NEW qs, NEW p, NEW t \in Nat, NEW v \in Int, NEW w \in Int, NEW b \in Int, SameLeaves(ps, qs, p),
         \A c \in LeavesIn(ps, p) : SameNumbers(ps[c], qs[c]),
         Tally(qs[p]) = Tally(ps[p]), b = Tally(ps[p]),
         CoveredBy(ps, p, t, "Succeeded", v), ps[p].eta = 0, qs[p].eta # 0, w = v - (b - t)
  PROVE  CoveredBy(qs, p, t, "Queued", w)
<1> DEFINE L == LeavesIn(ps, p)
           e == Split(ps, p, t)
           n == Cardinality(L)
<1>1. LeavesIn(qs, p) = L /\ Split(qs, p, t) = e
  BY LeavesSame DEF SameLeaves
<1>2. Leafwise(ps, p, e, "Succeeded") /\ v >= Dues(ps, p, e)
  BY DEF CoveredBy
<1>3. e \in Nat /\ n \in Nat \ {0} /\ IsFiniteSet(L) /\ e * n <= t
  BY Shares DEF SameLeaves
<1> HIDE DEF e, n
<1>4. ASSUME NEW c \in L
      PROVE  /\ RawOf(ps[c]) \in Int /\ Own(ps[c]) \in Int /\ Tally(ps[c]) \in Int
             /\ Own(ps[c]) \in {0, e} /\ Tally(ps[c]) = RawOf(ps[c]) + e - Own(ps[c])
             /\ RawOf(qs[c]) = RawOf(ps[c]) /\ Own(qs[c]) = Own(ps[c]) /\ Tally(qs[c]) = Tally(ps[c])
  BY <1>2 DEF Leafwise, SameLeaves, Quantified, SameNumbers
<1>5. Leafwise(qs, p, e, "Queued")
  BY <1>1, <1>4 DEF Leafwise
<1>6. PICK g : g = [c \in L |-> Tally(ps[c])]
  OBVIOUS
<1>7. PICK k : k = [c \in L |-> -e]
  OBVIOUS
<1>8. PICK h : h = [c \in L |-> Tally(ps[c]) + (-e)]
  OBVIOUS
<1>9. ASSUME NEW c \in L
      PROVE  /\ g[c] \in Int /\ k[c] = -e /\ -e \in Int /\ h[c] = g[c] + k[c] /\ h[c] \in Int
             /\ Due(qs[c], qs[p].eta, e) + h[c] <= Due(ps[c], ps[p].eta, e)
  <2>1. PICK ro, ow, ta \in Int : ro = RawOf(ps[c]) /\ ow = Own(ps[c]) /\ ta = Tally(ps[c])
    BY <1>4
  <2>2. Bonus(qs[c], e) = Bonus(ps[c], e)
    BY <1>4 DEF Bonus
  <2>3. PICK bo \in Int : bo = Bonus(ps[c], e)
    BY <1>3 DEF Bonus
  <2>4. Due(ps[c], ps[p].eta, e) = ro - bo /\ Due(qs[c], qs[p].eta, e) = ow - bo
    BY <1>4, <2>1, <2>2, <2>3 DEF Due
  <2>5. ta = ro + e - ow
    BY <1>4, <2>1
  <2>6. ow - bo + (ta + (-e)) <= ro - bo
    <3>1. PICK y \in Int : y = e
      BY <1>3
    <3>2. ta = ro + y - ow
      BY <2>5, <3>1
    <3>3. ow - bo + (ta + (-y)) <= ro - bo
      BY ONLY <3>2, ro \in Int, ow \in Int, ta \in Int, bo \in Int, y \in Int
    <3> QED BY <3>1, <3>3
  <2>7. g[c] = ta /\ k[c] = -e /\ h[c] = ta + (-e)
    BY <1>6, <1>7, <1>8, <2>1
  <2>8. -e \in Int /\ ta + (-e) \in Int
    BY <1>3
  <2> QED BY <2>4, <2>6, <2>7, <2>8
<1>10. /\ Dues(qs, p, e) + SumFunctionOnSet(h, L) <= Dues(ps, p, e)
       /\ Dues(ps, p, e) \in Int /\ Dues(qs, p, e) \in Int /\ SumFunctionOnSet(h, L) \in Int
  <2>1. /\ \A c \in L : h[c] \in Int /\ Due(qs[c], qs[p].eta, e) + h[c] <= Due(ps[c], ps[p].eta, e)
        /\ L \in SUBSET LeavesIn(ps, p)
        /\ \A c \in LeavesIn(ps, p) \ L : Due(qs[c], qs[p].eta, e) = Due(ps[c], ps[p].eta, e)
    BY <1>9
  <2>2. /\ ChildrenIn(qs, p) = ChildrenIn(ps, p) /\ Listed(ps)
        /\ LeavesIn(ps, p) \subseteq DOMAIN ps /\ LeavesIn(ps, p) \subseteq DOMAIN qs
        /\ Quantified(ps) /\ Quantified(qs)
    BY DEF SameLeaves
  <2> HIDE DEF L
  <2> QED BY <1>3, <2>1, <2>2, DuesFall
<1>11. SumFunctionOnSet(h, L) = SumFunctionOnSet(g, L) + SumFunctionOnSet(k, L) /\ SumFunctionOnSet(g, L) \in Int
  BY <1>3, <1>9, SumPlus, SumType
<1>12. SumFunctionOnSet(k, L) = (-e) * n
  <2>1. -e \in Int /\ \A c \in L : k[c] = -e
    BY <1>3, <1>7
  <2> QED BY <1>3, <2>1, SumConst DEF n
<1>13. TalliesOf(ps, p) = SumFunctionOnSet(g, L)
  BY <1>6 DEF TalliesOf, SumFunction
<1>14. TalliesOf(qs, p) = TalliesOf(ps, p)
  <2>1. \A c \in LeavesIn(ps, p) : Tally(qs[c]) = Tally(ps[c])
    BY <1>4
  <2> QED BY <2>1, TalliesSame DEF SameLeaves
<1>15. ASSUME Tally(qs[p]) = TalliesOf(qs, p) PROVE w >= Dues(qs, p, e)
  <2>1. PICK d, d2, s, m \in Int : d = Dues(ps, p, e) /\ d2 = Dues(qs, p, e) /\ s = SumFunctionOnSet(g, L)
                                   /\ m = SumFunctionOnSet(k, L)
    <3>1. (-e) * n \in Int
      BY <1>3
    <3> QED BY <1>10, <1>11, <1>12, <3>1
  <2>2. b = s
    BY <1>13, <1>14, <1>15, <2>1
  <2>3. m = -(e * n) /\ e * n <= t /\ e * n \in Int
    BY <1>3, <1>12, <2>1
  <2>4. d2 + (s + m) <= d /\ v >= d
    BY <1>2, <1>10, <1>11, <2>1
  <2>5. PICK x \in Int : x = e * n
    BY <2>3
  <2>6. m = -x /\ x <= t
    BY <2>3, <2>5
  <2>7. w >= d2
    BY ONLY <2>2, <2>4, <2>6, w = v - (b - t), v \in Int, w \in Int, b \in Int, t \in Nat, d \in Int, d2 \in Int,
            s \in Int, m \in Int, x \in Int
  <2> QED BY <2>1, <2>7
<1> QED BY <1>1, <1>5, <1>15 DEF CoveredBy

\* Every queueing keeps every family covered that no child is queued in.
LEMMA QueueCovers ==
  ASSUME Sound, Sound', MovesForward, Potted, Potted', NEW q \in Ids, Queue(q),
         NEW p \in Ids, proposals[p].parent = 0, Untouched(proposals', p), Covered(p)
  PROVE  Covered(p)'
<1>1. /\ State(q) = "Succeeded" /\ block' = block /\ threshold' = threshold /\ quorum' = quorum
      /\ proposals' = [proposals EXCEPT ![q].eta = block + Delay]
      /\ pot' = [pot EXCEPT ![Family(q)] = pot[Family(q)] - (Tally(proposals[q]) - threshold)]
  <2>1. /\ State(q) = "Succeeded" /\ block' = block /\ threshold' = threshold /\ quorum' = quorum
        /\ proposals' = [proposals EXCEPT ![q].eta = block + Delay]
    BY DEF Queue
  <2>2. pot' = [pot EXCEPT ![Family(q)] = @ - (proposals[q].rawForVotes + proposals[q].rawAgainstVotes - threshold)]
    BY DEF Queue
  <2>3. PICK b : b = proposals[q].rawForVotes + proposals[q].rawAgainstVotes - threshold
    OBVIOUS
  <2>4. pot' = [pot EXCEPT ![Family(q)] = pot[Family(q)] - b]
    BY <2>2, <2>3, Zenon
  <2>5. b = Tally(proposals[q]) - threshold
    <3>1. PICK x, y \in Int : x = proposals[q].rawForVotes /\ y = proposals[q].rawAgainstVotes
      BY DEF Sound, Proposed, Ids
    <3>2. PICK t \in Nat : t = threshold
      BY DEF Sound
    <3>3. b = x + y - t /\ Tally(proposals[q]) = x + y
      BY <2>3, <3>1, <3>2 DEF Tally
    <3>4. b = (x + y) - t
      BY <3>3
    <3> QED BY <3>2, <3>3, <3>4
  <2> QED BY <2>1, <2>4, <2>5
<1>2. StructureOK /\ block \in Nat /\ block + Delay # 0
  BY TimelockAssumption DEF Sound, StructureOK
<1>3. /\ Ids' = Ids /\ \A x \in Ids : x # q => proposals'[x] = proposals[x]
      /\ proposals'[q] = [proposals[q] EXCEPT !.eta = block + Delay]
  BY <1>1 DEF Ids
<1>4. /\ proposals'[q].eta = block + Delay /\ proposals'[q].parent = proposals[q].parent
      /\ SameNumbers(proposals[q], proposals'[q])
  <2>1. PICK z : z = block + Delay
    OBVIOUS
  <2>2. PICK s, r : s = proposals[q] /\ r = [s EXCEPT !.eta = z]
    OBVIOUS
  <2>3. Shaped(s)
    BY <1>2, <2>2 DEF StructureOK, AllShaped, Ids
  <2>4. /\ r.eta = z /\ r.parent = s.parent /\ r.receipts = s.receipts /\ r.proposer = s.proposer
        /\ r.rawForVotes = s.rawForVotes /\ r.rawAgainstVotes = s.rawAgainstVotes
    BY ONLY <2>2, <2>3 DEF Shaped, Fields
  <2>5. SameNumbers(s, r)
    BY <2>4 DEF SameNumbers, RawOf, Own, Tally
  <2> QED BY <1>3, <2>1, <2>2, <2>4, <2>5
<1>5. \A x \in Ids : proposals'[x].parent = proposals[x].parent /\ SameNumbers(proposals[x], proposals'[x])
  BY <1>3, <1>4 DEF SameNumbers
<1>6. Children(p)' = Children(p)
  BY <1>3, <1>5 DEF Children
<1>7. /\ Family(q) \in Ids /\ proposals[Family(q)].parent = 0
      /\ q = Family(q) \/ q \in Children(Family(q))
      /\ q \in Leaves(Family(q)) \cup {Family(q)}
  BY <1>2, FamilyIs DEF Leaves
<1>8. CASE p # Family(q)
  <2>1. \A x \in Ids : x \notin Leaves(Family(q)) /\ x # Family(q) => proposals'[x] = proposals[x]
    BY <1>3, <1>7
  <2> QED BY <1>1, <1>3, <1>6, <1>7, <1>8, <2>1, OthersKept
<1>9. CASE p = Family(q)
  <2>1. q = p
    <3> SUFFICES ASSUME q # p PROVE FALSE
      OBVIOUS
    <3>1. q \in ChildrenIn(proposals', p)
      BY <1>3, <1>5, <1>7, <1>9 DEF ChildrenIn, Children, Ids
    <3> QED BY <1>2, <1>4, <3>1 DEF Untouched
  <2>2. pot[p] \in Int /\ pot'[p] \in Int
    BY <1>2, <1>3, PotType DEF Potted
  <2>3. pot'[p] = pot[p] - (Tally(proposals[p]) - threshold)
    <3>1. p \in DOMAIN pot
      BY <1>2, PotType DEF Potted
    <3> QED BY <1>1, <1>9, <2>1, <3>1
  <2>4. proposals[p].eta = 0
    <3>1. proposals[q].eta = 0
      BY <1>1 DEF State
    <3> QED BY <2>1, <3>1
  <2>5. SameLeaves(proposals, proposals', p) /\ LeavesIn(proposals, p) = Leaves(p) /\ Leaves(p) \in SUBSET Ids
    BY <1>2, <1>3, <1>6, FamilyFacts, LeavesAre
  <2>6. \A c \in LeavesIn(proposals, p) : SameNumbers(proposals[c], proposals'[c])
    BY <1>5, <2>5
  <2>7. PICK b \in Int : b = Tally(proposals[p])
    BY DEF Sound, Proposed, Tally, Ids
  <2>8. CoveredBy(proposals, p, threshold, "Succeeded", pot[p]) /\ threshold \in Nat
    BY <1>1, <2>1 DEF Covered, Sound
  <2>9. CoveredBy(proposals', p, threshold, "Queued", pot'[p])
    <3>1. PICK ps, qs : ps = proposals /\ qs = proposals'
      OBVIOUS
    <3>2. PICK v, w \in Int : v = pot[p] /\ w = pot'[p]
      BY <2>2
    <3>3. PICK t \in Nat : t = threshold
      BY <2>8
    <3>4. /\ SameLeaves(ps, qs, p) /\ \A c \in LeavesIn(ps, p) : SameNumbers(ps[c], qs[c])
      BY <2>5, <2>6, <3>1
    <3>5. /\ Tally(qs[p]) = Tally(ps[p]) /\ b = Tally(ps[p])
          /\ CoveredBy(ps, p, t, "Succeeded", v) /\ ps[p].eta = 0 /\ qs[p].eta # 0
      BY <1>2, <1>4, <2>1, <2>4, <2>7, <2>8, <3>1, <3>2, <3>3 DEF SameNumbers
    <3>6. w = v - (b - t)
      BY <2>3, <2>7, <3>2, <3>3
    <3>7. CoveredBy(qs, p, t, "Queued", w)
      BY <3>4, <3>5, <3>6, CoverQueued
    <3> QED BY <3>1, <3>2, <3>3, <3>7
  <2>10. State(p)' = "Queued"
    <3>1. \/ State(p)' = "Succeeded" \/ <<"Succeeded", State(p)'>> \in Forward
      BY <1>1, <2>1 DEF MovesForward
    <3>2. State(p)' # "Succeeded"
      BY <1>2, <1>4, <2>1 DEF State
    <3> QED BY <3>1, <3>2 DEF Forward
  <2>11. CoveredBy(proposals', p, threshold, State(p)', pot'[p])
    BY <2>9, <2>10
  <2> QED BY <1>1, <2>10, <2>11 DEF Covered
<1> QED BY <1>8, <1>9

-----------------------------------------------------------------------------
(* The proposals made. *)

\* A pot is filled or emptied, of a proposal that is there.
LEMMA PottedKept ==
  ASSUME StructureOK, StructureOK', Potted, Ids \subseteq Ids', Len(proposals') <= MaxProposals, NEW r \in Ids',
         NEW z \in Int, pot' = [pot EXCEPT ![r] = z]
  PROVE  Potted'
<1>1. PICK n \in Nat : n = Len(proposals) /\ Ids = 1 .. n
  BY DEF StructureOK, Listed, Ids
<1>2. PICK m \in Nat : m = Len(proposals') /\ Ids' = 1 .. m
  <2>1. Listed(proposals')
    BY DEF StructureOK
  <2> QED BY <2>1 DEF Listed, Ids
<1>3. n <= m
  <2> SUFFICES ASSUME m < n PROVE FALSE
    BY <1>1, <1>2
  <2> QED BY <1>1, <1>2
<1>4. MaxProposals \in Nat /\ m <= MaxProposals
  BY <1>2, GovernorAssumption
<1>5. pot \in [1 .. MaxProposals -> Int] /\ \A q \in 1 .. MaxProposals : q > n => pot[q] = 0
  BY <1>1 DEF Potted
<1>6. pot' \in [1 .. MaxProposals -> Int]
  BY <1>5
<1>7. ASSUME NEW q \in 1 .. MaxProposals, q > m
      PROVE  pot'[q] = 0
  <2>1. q # r /\ q > n
    BY <1>1, <1>2, <1>3, <1>4, <1>7
  <2> QED BY <1>5, <2>1
<1> QED BY <1>2, <1>4, <1>6, <1>7 DEF Potted

\* No pot changes.
LEMMA PottedSame ==
  ASSUME StructureOK, StructureOK', Potted, Ids' = Ids, pot' = pot
  PROVE  Potted'
<1>1. PICK n \in Nat : n = Len(proposals) /\ Ids = 1 .. n
  BY DEF StructureOK, Listed, Ids
<1>2. PICK m \in Nat : m = Len(proposals') /\ Ids' = 1 .. m
  <2>1. Listed(proposals')
    BY DEF StructureOK
  <2> QED BY <2>1 DEF Listed, Ids
<1>3. n = m
  <2>1. n \in 1 .. m \/ n = 0
    BY <1>1, <1>2
  <2>2. m \in 1 .. n \/ m = 0
    BY <1>1, <1>2
  <2> QED BY <2>1, <2>2
<1> QED BY <1>1, <1>2, <1>3 DEF Potted

\* What is added has nothing on it.
LEMMA AddedIs ==
  ASSUME StructureOK, NEW ps, NEW r, NEW a \in Account, Adds(ps, r, a), NEW x \in DOMAIN ps \ Ids
  PROVE  /\ Shaped(ps[x]) /\ Receipted(ps[x]) /\ ps[x].proposer = a /\ ps[x].eta = 0
         /\ ps[x].rawForVotes = 0 /\ ps[x].rawAgainstVotes = 0
         /\ RawOf(ps[x]) = 0 /\ Own(ps[x]) = 0 /\ Tally(ps[x]) = 0
         /\ r # 0 /\ ps[x].parent = IF x = r THEN 0 ELSE r
<1>1. /\ Shaped(ps[x]) /\ Fresh(ps[x]) /\ ps[x].proposer = a /\ ps[x].parent = IF x = r THEN 0 ELSE r
  BY DEF Adds, AllShaped
<1>2. Receipted(ps[x]) /\ r # 0
  BY <1>1, FreshTallied DEF Adds, Listed
<1>3. \A b \in Account : ps[x].receipts[b].rawVotes = 0
  BY <1>1 DEF Fresh, NoReceipt
<1>4. RawOf(ps[x]) = 0
  <2> DEFINE f == [b \in Account |-> ps[x].receipts[b].rawVotes]
  <2>1. \A b \in Account : f[b] = 0
    BY <1>3
  <2>2. RawOf(ps[x]) = SumFunctionOnSet(f, Account)
    BY DEF RawOf, SumFunction
  <2> HIDE DEF f
  <2> QED BY <2>1, <2>2, SumZero, TokenAssumption
<1> QED BY <1>1, <1>2, <1>3, <1>4 DEF Fresh, Own, Tally

\* The proposals of before are what they were; the new ones count what their proposer put on them.
LEMMA AddedCounts ==
  ASSUME StructureOK, threshold \in Nat, NEW ps, NEW r, NEW a \in Account, Adds(ps, r, a),
         NEW support \in BOOLEAN, CastVote(ps, a, r, support, threshold)
  PROVE  LET e == Split(ps, r, threshold)
         IN  /\ DOMAIN proposals' = DOMAIN ps /\ \A x \in Ids : proposals'[x] = proposals[x]
             /\ \A x \in DOMAIN ps \ Ids : /\ proposals'[x].proposer = a /\ proposals'[x].eta = 0
                                           /\ proposals'[x].rawForVotes \in Int /\ proposals'[x].rawAgainstVotes \in Int
                                           /\ proposals'[x].parent = IF x = r THEN 0 ELSE r
             /\ ChildrenIn(proposals', r) = ChildrenIn(ps, r)
             /\ \A c \in LeavesIn(ps, r) : /\ c \in DOMAIN ps \ Ids /\ RawOf(proposals'[c]) = e
                                           /\ Own(proposals'[c]) = e /\ Tally(proposals'[c]) = e
             /\ pot' = [pot EXCEPT ![r] = pot[r] + e * Cardinality(LeavesIn(ps, r))]
<1> DEFINE L == LeavesIn(ps, r)
           e == Split(ps, r, threshold)
           total == e * Cardinality(L)
<1>1. /\ Listed(ps) /\ AllShaped(ps) /\ Parented(ps) /\ r \in DOMAIN ps \ Ids /\ Ids \subseteq DOMAIN ps
      /\ \A x \in Ids : ps[x] = proposals[x] /\ 0 \notin Ids
  BY DEF Adds, StructureOK, Listed, Ids
<1>2. \A x \in DOMAIN ps \ Ids : /\ Shaped(ps[x]) /\ Receipted(ps[x]) /\ ps[x].proposer = a /\ ps[x].eta = 0
                                 /\ ps[x].rawForVotes = 0 /\ ps[x].rawAgainstVotes = 0
                                 /\ RawOf(ps[x]) = 0 /\ Own(ps[x]) = 0 /\ Tally(ps[x]) = 0
                                 /\ r # 0 /\ ps[x].parent = IF x = r THEN 0 ELSE r
  BY AddedIs
<1>3. /\ DOMAIN proposals' = DOMAIN ps
      /\ \A x \in DOMAIN ps : proposals'[x] = IF x \in L THEN Accounted(ps[x], a, support, e)
                                              ELSE IF x = r THEN Accounted(ps[x], a, support, total)
                                              ELSE ps[x]
      /\ pot' = [pot EXCEPT ![r] = pot[r] + total]
  BY <1>1, <1>2 DEF CastVote, LeavesIn, ChildrenIn
<1>4. /\ \A x \in DOMAIN ps : SameProposal(ps[x], proposals'[x])
  BY <1>1, CastVoteKeeps
<1>5. e \in Nat /\ total \in Nat /\ block \in Nat
  <2>1. e \in Nat /\ Cardinality(L) \in Nat
    BY <1>1, Shares
  <2> QED BY <2>1 DEF StructureOK
<1>6. ASSUME NEW c \in L
      PROVE  c \in DOMAIN ps \ Ids
  <2>1. CASE c = r
    BY <1>1, <2>1
  <2>2. CASE c \in DOMAIN ps /\ ps[c].parent = r
    <3> SUFFICES ASSUME c \in Ids PROVE FALSE
      BY <2>2
    <3>1. proposals[c].parent = r /\ r # 0
      BY <1>1, <1>2, <2>2
    <3> QED BY <1>1, <3>1 DEF StructureOK, Parented, Ids
  <2> QED BY <2>1, <2>2 DEF LeavesIn, ChildrenIn
<1> HIDE DEF L, e, total
<1>7. ASSUME NEW x \in Ids
      PROVE  proposals'[x] = proposals[x]
  BY <1>1, <1>3, <1>6
<1>8. ASSUME NEW x \in DOMAIN ps \ Ids, NEW n \in Nat
      PROVE  LET y == Accounted(ps[x], a, support, n)
             IN  /\ y.proposer = a /\ y.rawForVotes \in Int /\ y.rawAgainstVotes \in Int
                 /\ RawOf(y) = n /\ Own(y) = n /\ Tally(y) = n
  <2>1. PICK q : q = ps[x]
    OBVIOUS
  <2>2. /\ Shaped(q) /\ Receipted(q) /\ q.proposer \in Account /\ q.rawForVotes \in Int /\ q.rawAgainstVotes \in Int
        /\ q.proposer = a /\ RawOf(q) = 0 /\ Own(q) = 0 /\ Tally(q) = 0
    BY <1>2, <2>1
  <2>3. LET y == Accounted(q, a, support, n)
        IN  /\ y.proposer = q.proposer /\ y.rawForVotes \in Int /\ y.rawAgainstVotes \in Int
            /\ Tally(y) = Tally(q) + n /\ RawOf(y) = RawOf(q) + n
            /\ Own(y) = IF a = q.proposer THEN Own(q) + n ELSE Own(q)
    BY <1>5, <2>2, AccountedCounts
  <2>4. PICK y : y = Accounted(q, a, support, n)
    OBVIOUS
  <2>5. /\ y.proposer = a /\ y.rawForVotes \in Int /\ y.rawAgainstVotes \in Int
        /\ RawOf(y) = 0 + n /\ Own(y) = 0 + n /\ Tally(y) = 0 + n
    BY <2>2, <2>3, <2>4
  <2>6. 0 + n = n
    OBVIOUS
  <2> QED BY <2>1, <2>4, <2>5, <2>6
<1>9. ASSUME NEW x \in DOMAIN ps \ Ids
      PROVE  /\ proposals'[x].proposer = a /\ proposals'[x].eta = 0
             /\ proposals'[x].rawForVotes \in Int /\ proposals'[x].rawAgainstVotes \in Int
             /\ proposals'[x].parent = IF x = r THEN 0 ELSE r
  <2>1. proposals'[x].eta = 0 /\ proposals'[x].parent = IF x = r THEN 0 ELSE r
    BY <1>2, <1>4 DEF SameProposal
  <2>2. CASE x \in L
    BY <1>3, <1>5, <1>8, <2>1, <2>2
  <2>3. CASE x \notin L /\ x = r
    BY <1>3, <1>5, <1>8, <2>1, <2>3
  <2>4. CASE x \notin L /\ x # r
    <3>1. proposals'[x] = ps[x]
      BY <1>3, <2>4
    <3>2. ps[x].proposer = a /\ ps[x].rawForVotes = 0 /\ ps[x].rawAgainstVotes = 0
      BY <1>2
    <3> QED BY <2>1, <3>1, <3>2
  <2> QED BY <2>2, <2>3, <2>4
<1>10. ChildrenIn(proposals', r) = ChildrenIn(ps, r)
  BY <1>3, <1>4 DEF ChildrenIn, SameProposal
<1>11. ASSUME NEW c \in L
       PROVE  RawOf(proposals'[c]) = e /\ Own(proposals'[c]) = e /\ Tally(proposals'[c]) = e
  BY <1>3, <1>5, <1>6, <1>8
<1> QED BY <1>3, <1>6, <1>7, <1>9, <1>10, <1>11 DEF L, e, total

\* So the proposers and the numbers are right,
LEMMA AddedProposed ==
  ASSUME StructureOK, threshold \in Nat, Proposed(proposals), NEW ps, NEW r, NEW a \in Account, Adds(ps, r, a),
         CastVote(ps, a, r, TRUE, threshold)
  PROVE  Proposed(proposals')
<1>1. /\ DOMAIN proposals' = DOMAIN ps /\ \A x \in Ids : proposals'[x] = proposals[x]
      /\ \A x \in DOMAIN ps \ Ids : /\ proposals'[x].proposer = a
                                    /\ proposals'[x].rawForVotes \in Int /\ proposals'[x].rawAgainstVotes \in Int
                                    /\ proposals'[x].parent = IF x = r THEN 0 ELSE r
  <2>1. TRUE \in BOOLEAN /\ StructureOK /\ threshold \in Nat
    OBVIOUS
  <2>2. LET e == Split(ps, r, threshold)
        IN  /\ DOMAIN proposals' = DOMAIN ps /\ \A x \in Ids : proposals'[x] = proposals[x]
            /\ \A x \in DOMAIN ps \ Ids : /\ proposals'[x].proposer = a /\ proposals'[x].eta = 0
                                          /\ proposals'[x].rawForVotes \in Int /\ proposals'[x].rawAgainstVotes \in Int
                                          /\ proposals'[x].parent = IF x = r THEN 0 ELSE r
    BY <2>1, AddedCounts
  <2> QED BY <2>2
<1>2. r \in DOMAIN ps \ Ids
  BY DEF Adds
<1> SUFFICES ASSUME NEW x \in DOMAIN proposals'
             PROVE  /\ proposals'[x].proposer \in Account
                    /\ proposals'[x].rawForVotes \in Int /\ proposals'[x].rawAgainstVotes \in Int
                    /\ proposals'[x].parent # 0
                         => proposals'[proposals'[x].parent].proposer = proposals'[x].proposer
  BY DEF Proposed
<1>3. CASE x \in Ids
  <2>1. proposals[x].parent # 0 => proposals[x].parent \in Ids
    BY <1>3 DEF StructureOK, Parented, Ids
  <2> QED BY <1>1, <1>3, <2>1 DEF Proposed, Ids
<1>4. CASE x \notin Ids
  BY <1>1, <1>2, <1>4
<1> QED BY <1>3, <1>4

\* and every family is covered.
LEMMA AddedCovers ==
  ASSUME Sound, Sound', MovesForward, Potted, Potted', VotesOnly, NEW ps, NEW r, NEW a \in Account, Adds(ps, r, a),
         CastVote(ps, a, r, TRUE, threshold), threshold' = threshold, pot[r] = 0,
         NEW p \in Ids', proposals'[p].parent = 0, p \in Ids => Covered(p)
  PROVE  Covered(p)'
<1> DEFINE L == LeavesIn(ps, r)
           e == Split(ps, r, threshold)
<1>1. StructureOK /\ threshold \in Nat /\ Listed(ps) /\ r \in DOMAIN ps \ Ids
  BY DEF Sound, Adds
<1>2. /\ DOMAIN proposals' = DOMAIN ps /\ \A x \in Ids : proposals'[x] = proposals[x]
      /\ \A x \in DOMAIN ps \ Ids : /\ proposals'[x].eta = 0
                                    /\ proposals'[x].parent = IF x = r THEN 0 ELSE r
      /\ ChildrenIn(proposals', r) = ChildrenIn(ps, r)
      /\ \A c \in L : /\ c \in DOMAIN ps \ Ids /\ RawOf(proposals'[c]) = e
                      /\ Own(proposals'[c]) = e /\ Tally(proposals'[c]) = e
      /\ pot' = [pot EXCEPT ![r] = pot[r] + e * Cardinality(L)]
  <2>1. PICK support \in BOOLEAN : CastVote(ps, a, r, support, threshold)
    OBVIOUS
  <2> QED BY <1>1, <2>1, AddedCounts
<1>3. e \in Nat /\ Cardinality(L) \in Nat /\ IsFiniteSet(L)
  BY <1>1, Shares
<1> HIDE DEF L, e
<1>4. CASE p \in Ids
  <2>1. Children(p)' = Children(p) /\ Ids \subseteq Ids' /\ quorum' = quorum
    BY <1>4, ChildrenKept DEF VotesOnly
  <2>2. \A c \in {p} \cup Children(p) : proposals'[c] = proposals[c]
    BY <1>2, <1>4 DEF Children
  <2>3. \A c \in {p} \cup Children(p) : SameNumbers(proposals[c], proposals'[c])
    BY <2>2 DEF SameNumbers
  <2>4. pot[p] \in Int /\ pot'[p] = pot[p] /\ proposals[p].parent = 0
    BY <1>1, <1>2, <1>4, PotType DEF Potted
  <2> QED BY <1>4, <2>1, <2>2, <2>3, <2>4, FamilyKept
<1>5. CASE p \notin Ids
  <2>1. p = r /\ proposals'[p].eta = 0
    <3>1. p \in DOMAIN ps \ Ids /\ r # 0
      BY <1>1, <1>2, <1>5 DEF Ids, Listed
    <3> QED BY <1>2, <3>1
  <2>2. LeavesIn(proposals', r) = L /\ Split(proposals', r, threshold) = e
    BY <1>2 DEF LeavesIn, L, Split, ChildrenIn, e
  <2>3. Leafwise(proposals', p, e, State(p)')
    <3> SUFFICES ASSUME NEW c \in L
                 PROVE  Own(proposals'[c]) \in {0, e} /\ Tally(proposals'[c]) = RawOf(proposals'[c]) + e - Own(proposals'[c])
      BY <2>1, <2>2 DEF Leafwise
    <3> QED BY <1>2, <1>3
  <2>4. \A c \in L : Due(proposals'[c], 0, e) = e
    <3>1. \A c \in L : Bonus(proposals'[c], e) = 0
      BY <1>2, <1>3 DEF Bonus
    <3> QED BY <1>2, <1>3, <3>1 DEF Due
  <2>5. Dues(proposals', p, e) = e * Cardinality(L)
    <3>1. PICK f : f = [c \in L |-> Due(proposals'[c], 0, e)]
      OBVIOUS
    <3>2. Dues(proposals', p, e) = SumFunctionOnSet(f, L)
      BY <2>1, <2>2, <3>1 DEF Dues, SumFunction
    <3>3. e \in Int /\ \A c \in L : f[c] = e
      BY <1>3, <2>4, <3>1
    <3> QED BY <1>3, <3>2, <3>3, SumConst
  <2>6. pot'[p] = e * Cardinality(L)
    <3>1. p \in Ids' /\ StructureOK'
      BY DEF Sound
    <3>2. pot'[p] = pot[p] + e * Cardinality(L)
      <4>1. MaxProposals \in Nat /\ Len(proposals') <= MaxProposals /\ DOMAIN pot = 1 .. MaxProposals
        BY GovernorAssumption DEF Potted
      <4>2. Listed(proposals')
        BY <3>1 DEF StructureOK
      <4>3. p \in DOMAIN pot
        BY <4>1, <4>2 DEF Listed, Ids
      <4> QED BY <1>2, <2>1, <4>3
    <3> QED BY <1>3, <2>1, <3>2
  <2>7. pot'[p] >= Dues(proposals', p, e)
    <3>1. e * Cardinality(L) \in Int
      BY <1>3
    <3> QED BY <2>5, <2>6, <3>1
  <2>8. CoveredBy(proposals', p, threshold, State(p)', pot'[p])
    BY <2>1, <2>2, <2>3, <2>7 DEF CoveredBy
  <2> QED BY <2>1, <2>8 DEF Covered
<1> QED BY <1>4, <1>5

-----------------------------------------------------------------------------
(* All the steps, for the claims. *)

\* A step between states of which all but the claims is known.
Steady == GovInv /\ GovInv' /\ TallyInv /\ TallyInv' /\ MovesForward /\ ClaimInv

\* What there is to use of it.
LEMMA SteadyMeans ==
  ASSUME Steady
  PROVE  /\ StructureOK /\ StructureOK' /\ MovesForward /\ Sound /\ Potted /\ Proposed(proposals)
         /\ AllReceipted(proposals) /\ threshold \in Nat
         /\ Proposed(proposals') => Sound'
<1>1. StructureOK /\ AllReceipted(proposals) /\ threshold \in Nat
  BY DEF Steady, GovInv, TallyInv
<1>2. StructureOK' /\ AllReceipted(proposals') /\ threshold' \in Nat
  BY DEF Steady, GovInv, TallyInv
<1>3. MovesForward /\ Potted /\ Proposed(proposals)
  BY DEF Steady, ClaimInv
<1> QED BY <1>1, <1>2, <1>3 DEF Sound

\* As many proposals as before.
LEMMA LenSame ==
  ASSUME StructureOK, StructureOK', Ids' = Ids
  PROVE  Len(proposals') = Len(proposals)
<1>1. PICK n \in Nat : n = Len(proposals) /\ Ids = 1 .. n
  BY DEF StructureOK, Listed, Ids
<1>2. PICK m \in Nat : m = Len(proposals') /\ Ids' = 1 .. m
  <2>1. Listed(proposals')
    BY DEF StructureOK
  <2> QED BY <2>1 DEF Listed, Ids
<1>3. n \in 1 .. m \/ n = 0
  BY <1>1, <1>2
<1>4. m \in 1 .. n \/ m = 0
  BY <1>1, <1>2
<1> QED BY <1>1, <1>2, <1>3, <1>4

\* The proposers stay.
LEMMA ProposedKept ==
  ASSUME StructureOK, Proposed(proposals), Ids' = Ids,
         \A x \in Ids : /\ proposals'[x].parent = proposals[x].parent /\ proposals'[x].proposer = proposals[x].proposer
                        /\ proposals'[x].rawForVotes \in Int /\ proposals'[x].rawAgainstVotes \in Int
  PROVE  Proposed(proposals')
<1>1. \A x \in Ids : proposals[x].parent # 0 => proposals[x].parent \in Ids
  BY DEF StructureOK, Parented, Ids
<1> QED BY <1>1 DEF Proposed, Ids

\* A step that adds no proposal keeps the invariant if it keeps what is covered so.
LEMMA CoverSteps ==
  ASSUME Steady, Ids' = Ids, changed' = changed, Potted', Proposed(proposals'),
         \A x \in Ids : /\ proposals'[x].parent = proposals[x].parent
                        /\ proposals'[x].eta = 0 => proposals[x].eta = 0,
         \A p \in Ids : proposals[p].parent = 0 /\ Untouched(proposals', p) /\ Covered(p) => Covered(p)'
  PROVE  ClaimInv'
<1>1. ASSUME ~changed', NEW p \in Ids, proposals'[p].parent = 0, Untouched(proposals', p)
      PROVE  Covered(p)'
  <2>1. proposals[p].parent = 0
    BY <1>1
  <2>2. Untouched(proposals, p)
    BY <1>1 DEF Untouched, ChildrenIn, Ids
  <2>3. Covered(p)
    BY <1>1, <2>1, <2>2 DEF Steady, ClaimInv, FamilyOK
  <2> QED BY <1>1, <2>1, <2>3
<1>2. ~changed' => \A p \in Ids' : FamilyOK(p)'
  BY <1>1 DEF FamilyOK
<1> QED BY <1>2 DEF ClaimInv

\* What a refund burns and pays.
LEMMA RefundNumbers ==
  ASSUME StructureOK, AllReceipted(proposals), NEW a \in Account, NEW q \in Ids
  PROVE  LET refunds == IF Children(q) = {} THEN {q} ELSE {c \in Children(q) : ~Receipt(c, a).refunded}
         IN  /\ SumFunction([c \in refunds |-> Burned(a, c)]) \in Nat
             /\ SumFunction([c \in refunds |-> Paid(a, c)]) \in Nat
<1> DEFINE refunds == IF Children(q) = {} THEN {q} ELSE {c \in Children(q) : ~Receipt(c, a).refunded}
           f == [c \in refunds |-> Burned(a, c)]
           g == [c \in refunds |-> Paid(a, c)]
<1>1. refunds \in SUBSET Ids /\ IsFiniteSet(refunds)
  <2>1. PICK n \in Nat : Ids = 1 .. n
    BY DEF StructureOK, Listed, Ids
  <2>2. IsFiniteSet(Ids)
    BY <2>1, FS_Interval
  <2>3. refunds \in SUBSET Ids
    BY DEF Children
  <2> QED BY <2>2, <2>3, FS_Subset
<1>2. ASSUME NEW c \in Ids
      PROVE  Burned(a, c) \in Nat /\ Paid(a, c) \in Nat
  <2>1. Receipt(c, a).rawVotes \in Nat
    BY DEF AllReceipted, Receipted, ReceiptSet, Receipt, Ids
  <2> QED BY <2>1, RefundBound
<1>3. SumFunction(f) = SumFunctionOnSet(f, refunds) /\ SumFunction(g) = SumFunctionOnSet(g, refunds)
  BY DEF SumFunction
<1>4. \A c \in refunds : f[c] = Burned(a, c) /\ g[c] = Paid(a, c)
  OBVIOUS
<1> HIDE DEF f, g, refunds
<1>5. \A c \in refunds : f[c] \in Nat /\ g[c] \in Nat
  BY <1>1, <1>2, <1>4
<1>6. SumFunction(f) \in Nat /\ SumFunction(g) \in Nat
  BY <1>1, <1>3, <1>5, SumNat
<1> QED BY <1>6 DEF f, g, refunds

\* A vote keeps the invariant,
LEMMA VoteKeepsClaims ==
  ASSUME Steady, NEW a \in Account, NEW q \in Ids, NEW support \in BOOLEAN, NEW amount \in VoteAmount,
         Vote(a, q, support, amount)
  PROVE  ClaimInv'
<1> DEFINE T == LeavesIn(proposals, q)
           r == Family(q)
           each == Split(proposals, q, amount)
           total == each * Cardinality(T)
<1>1. /\ threshold' = threshold /\ changed' = changed
      /\ \A x \in Ids : proposals'[x] = IF x \in T THEN Accounted(proposals[x], a, support, each)
                                        ELSE IF x = r THEN Accounted(proposals[x], a, support, total)
                                        ELSE proposals[x]
      /\ Ids' = Ids /\ pot' = [pot EXCEPT ![r] = pot[r] + total]
  BY DEF Vote, CastVote, LeavesIn, ChildrenIn, Family, Ids
<1>2. /\ StructureOK /\ StructureOK' /\ MovesForward /\ Sound /\ Potted /\ Proposed(proposals)
      /\ AllReceipted(proposals) /\ VotesOnly
  BY SteadyMeans, VoteIsVotesOnly
<1>3. each \in Nat /\ total \in Nat /\ block \in Nat
  <2>1. Listed(proposals) /\ amount \in Nat /\ block \in Nat
    BY <1>2, GovernorAssumption DEF StructureOK
  <2>2. each \in Nat /\ Cardinality(T) \in Nat
    BY <2>1, Shares
  <2> QED BY <2>1, <2>2
<1>4. r \in Ids /\ pot[r] \in Int
  BY <1>2, FamilyIs, PotType
<1> HIDE DEF T, r, each, total
<1>5. Potted'
  <2>1. Len(proposals') <= MaxProposals
    BY <1>1, <1>2, LenSame DEF Potted
  <2>2. PICK z \in Int : z = pot[r] + total
    BY <1>3, <1>4
  <2>3. pot' = [pot EXCEPT ![r] = z]
    BY <1>1, <2>2
  <2> QED BY <1>1, <1>2, <1>4, <2>1, <2>3, PottedKept
<1>6. \A x \in Ids : SameProposal(proposals[x], proposals'[x])
  BY <1>2 DEF VotesOnly
<1>7. Proposed(proposals')
  <2>1. ASSUME NEW x \in Ids, NEW n \in Nat
        PROVE  LET y == Accounted(proposals[x], a, support, n)
               IN  y.proposer = proposals[x].proposer /\ y.rawForVotes \in Int /\ y.rawAgainstVotes \in Int
    <3>1. PICK s : s = proposals[x]
      OBVIOUS
    <3>2. /\ Shaped(s) /\ Receipted(s) /\ s.proposer \in Account /\ s.rawForVotes \in Int /\ s.rawAgainstVotes \in Int
      BY <1>2, <3>1 DEF StructureOK, AllShaped, AllReceipted, Proposed, Ids
    <3>3. LET y == Accounted(s, a, support, n)
          IN  y.proposer = s.proposer /\ y.rawForVotes \in Int /\ y.rawAgainstVotes \in Int
      BY <1>3, <3>2, AccountedCounts
    <3> QED BY <3>1, <3>3
  <2>2. ASSUME NEW x \in Ids
        PROVE  /\ proposals'[x].parent = proposals[x].parent /\ proposals'[x].proposer = proposals[x].proposer
               /\ proposals'[x].rawForVotes \in Int /\ proposals'[x].rawAgainstVotes \in Int
    <3>1. proposals'[x].parent = proposals[x].parent
      BY <1>6 DEF SameProposal
    <3>2. CASE proposals'[x] = proposals[x]
      BY <1>2, <3>2 DEF Proposed, Ids
    <3>3. CASE proposals'[x] = Accounted(proposals[x], a, support, each)
      BY <1>3, <2>1, <3>1, <3>3
    <3>4. CASE proposals'[x] = Accounted(proposals[x], a, support, total)
      BY <1>3, <2>1, <3>1, <3>4
    <3> QED BY <1>1, <3>2, <3>3, <3>4
  <2> QED BY <1>1, <1>2, <2>2, ProposedKept
<1>8. ASSUME NEW p \in Ids, proposals[p].parent = 0, Covered(p)
      PROVE  Covered(p)'
  <2>1. Sound'
    BY <1>7, SteadyMeans
  <2> QED BY <1>2, <1>5, <1>8, <2>1, VoteCovers
<1> QED BY <1>1, <1>5, <1>6, <1>7, <1>8, CoverSteps DEF SameProposal

\* and a refund,
LEMMA RefundKeepsClaims ==
  ASSUME Steady, NEW a \in Account, NEW q \in Ids, Refund(a, q)
  PROVE  ClaimInv'
<1> DEFINE refunds == IF Children(q) = {} THEN {q} ELSE {c \in Children(q) : ~Receipt(c, a).refunded}
           burned == SumFunction([c \in refunds |-> Burned(a, c)])
           paid == SumFunction([c \in refunds |-> Paid(a, c)])
           r == Family(q)
<1>1. /\ \A x \in Ids : proposals'[x] = IF x \in refunds THEN TakenBack(x, a)
                                        ELSE IF x = r THEN OnParent(x, a, refunds)
                                        ELSE proposals[x]
      /\ Ids' = Ids /\ pot' = [pot EXCEPT ![r] = pot[r] - burned - paid]
      /\ threshold' = threshold /\ changed' = changed
  BY DEF Refund, Ids
<1>2. /\ StructureOK /\ StructureOK' /\ MovesForward /\ Sound /\ Potted /\ Proposed(proposals)
      /\ AllReceipted(proposals) /\ VotesOnly
  BY SteadyMeans, RefundIsVotesOnly
<1>3. r \in Ids /\ pot[r] \in Int
  BY <1>2, FamilyIs, PotType
<1>4. burned \in Int /\ paid \in Int
  <2>1. StructureOK /\ AllReceipted(proposals)
    BY <1>2
  <2>2. burned \in Nat /\ paid \in Nat
    BY ONLY <2>1, RefundNumbers, a \in Account, q \in Ids
  <2> QED BY ONLY <2>2
<1> HIDE DEF refunds, burned, paid, r
<1>5. Potted'
  <2>1. Len(proposals') <= MaxProposals
    BY <1>1, <1>2, LenSame DEF Potted
  <2>2. PICK z \in Int : z = pot[r] - burned - paid
    BY <1>3, <1>4
  <2>3. pot' = [pot EXCEPT ![r] = z]
    BY <1>1, <2>2
  <2> QED BY <1>1, <1>2, <1>3, <2>1, <2>3, PottedKept
<1>6. \A x \in Ids : SameProposal(proposals[x], proposals'[x])
  BY <1>2 DEF VotesOnly
<1>7. Proposed(proposals')
  <2>1. ASSUME NEW x \in Ids
        PROVE  /\ proposals'[x].parent = proposals[x].parent /\ proposals'[x].proposer = proposals[x].proposer
               /\ proposals'[x].rawForVotes \in Int /\ proposals'[x].rawAgainstVotes \in Int
    <3>1. proposals'[x].parent = proposals[x].parent
      BY <1>6 DEF SameProposal
    <3>2. /\ Receipted(proposals[x]) /\ proposals[x].proposer \in Account
          /\ proposals[x].rawForVotes \in Int /\ proposals[x].rawAgainstVotes \in Int
      BY <1>2 DEF AllReceipted, Proposed, Ids
    <3>3. CASE proposals'[x] = proposals[x]
      BY <3>2, <3>3
    <3>4. CASE proposals'[x] = TakenBack(x, a)
      <4>1. /\ TakenBack(x, a).proposer = proposals[x].proposer
            /\ TakenBack(x, a).rawForVotes \in Int /\ TakenBack(x, a).rawAgainstVotes \in Int
        BY <1>2, <3>2, TakenBackCounts
      <4> QED BY <3>1, <3>4, <4>1
    <3>5. CASE proposals'[x] = OnParent(x, a, refunds)
      BY <1>2, <3>1, <3>2, <3>5, OnParentCounts
    <3> QED BY <1>1, <3>3, <3>4, <3>5
  <2> QED BY <1>1, <1>2, <2>1, ProposedKept
<1>8. ASSUME NEW p \in Ids, proposals[p].parent = 0, Covered(p)
      PROVE  Covered(p)'
  <2>1. Sound'
    BY <1>7, SteadyMeans
  <2> QED BY <1>2, <1>5, <1>8, <2>1, RefundCovers
<1> QED BY <1>1, <1>5, <1>6, <1>7, <1>8, CoverSteps DEF SameProposal

\* A proposal but for its flags and its eta.
SameFunds(q, r) ==
  /\ r.parent = q.parent /\ r.proposer = q.proposer /\ r.receipts = q.receipts
  /\ r.rawForVotes = q.rawForVotes /\ r.rawAgainstVotes = q.rawAgainstVotes

\* So are its numbers.
LEMMA FundsNumbers ==
  ASSUME NEW q, NEW r, SameFunds(q, r)
  PROVE  SameNumbers(q, r)
BY DEF SameFunds, SameNumbers, RawOf, Own, Tally

\* Queueing keeps the invariant,
LEMMA QueueKeepsClaims ==
  ASSUME Steady, NEW q \in Ids, Queue(q)
  PROVE  ClaimInv'
<1> DEFINE b == proposals[q].rawForVotes + proposals[q].rawAgainstVotes - threshold
           r == Family(q)
<1>1. /\ threshold' = threshold /\ changed' = changed
      /\ proposals' = [proposals EXCEPT ![q].eta = block + Delay]
      /\ pot' = [pot EXCEPT ![r] = pot[r] - b]
  BY DEF Queue
<1>2. /\ StructureOK /\ StructureOK' /\ MovesForward /\ Sound /\ Potted /\ Proposed(proposals)
      /\ threshold \in Nat /\ block \in Nat
  BY SteadyMeans DEF StructureOK
<1>3. r \in Ids /\ pot[r] \in Int
  BY <1>2, FamilyIs, PotType
<1>4. b \in Int
  BY <1>2 DEF Proposed, Ids
<1> HIDE DEF b, r
<1>5. /\ Ids' = Ids
      /\ \A x \in Ids : /\ SameFunds(proposals[x], proposals'[x])
                        /\ proposals'[x].eta = 0 => proposals[x].eta = 0
  <2>1. Ids' = Ids /\ \A x \in Ids : x # q => proposals'[x] = proposals[x]
    BY <1>1 DEF Ids
  <2>2. PICK z : z = block + Delay
    OBVIOUS
  <2>3. proposals'[q] = [proposals[q] EXCEPT !.eta = z]
    BY <1>1, <2>2 DEF Ids
  <2>4. SameFunds(proposals[q], proposals'[q]) /\ proposals'[q].eta = z
    <3>1. Shaped(proposals[q])
      BY <1>2 DEF StructureOK, AllShaped, Ids
    <3>2. PICK s : s = proposals[q]
      OBVIOUS
    <3>3. PICK t : t = [s EXCEPT !.eta = z]
      OBVIOUS
    <3>4. Shaped(s)
      BY <3>1, <3>2
    <3>5. SameFunds(s, t) /\ t.eta = z
      BY ONLY <3>3, <3>4 DEF Shaped, Fields, SameFunds
    <3> QED BY <2>3, <3>2, <3>3, <3>5
  <2>5. z # 0
    BY <1>2, <2>2, TimelockAssumption
  <2> QED BY <2>1, <2>4, <2>5 DEF SameFunds
<1>6. Potted'
  <2>1. Len(proposals') <= MaxProposals
    BY <1>2, <1>5, LenSame DEF Potted
  <2>2. PICK z \in Int : z = pot[r] - b
    BY <1>3, <1>4
  <2>3. pot' = [pot EXCEPT ![r] = z]
    BY <1>1, <2>2
  <2> QED BY <1>2, <1>3, <1>5, <2>1, <2>3, PottedKept
<1>7. Proposed(proposals')
  <2>1. \A x \in Ids : /\ proposals'[x].parent = proposals[x].parent /\ proposals'[x].proposer = proposals[x].proposer
                       /\ proposals'[x].rawForVotes \in Int /\ proposals'[x].rawAgainstVotes \in Int
    BY <1>2, <1>5 DEF SameFunds, Proposed, Ids
  <2> QED BY <1>2, <1>5, <2>1, ProposedKept
<1>8. ASSUME NEW p \in Ids, proposals[p].parent = 0, Untouched(proposals', p), Covered(p)
      PROVE  Covered(p)'
  <2>1. Sound'
    BY <1>7, SteadyMeans
  <2> QED BY <1>2, <1>6, <1>8, <2>1, QueueCovers
<1>9. \A x \in Ids : /\ proposals'[x].parent = proposals[x].parent
                     /\ proposals'[x].eta = 0 => proposals[x].eta = 0
  BY <1>5 DEF SameFunds
<1> QED BY <1>1, <1>5, <1>6, <1>7, <1>8, <1>9, CoverSteps

\* and so does a step that leaves votes, receipts and pots alone.
LEMMA QuietKeepsClaims ==
  ASSUME Steady, Ids' = Ids, pot' = pot, threshold' = threshold, quorum' = quorum, changed' = changed,
         \A x \in Ids : SameFunds(proposals[x], proposals'[x]) /\ proposals'[x].eta = proposals[x].eta
  PROVE  ClaimInv'
<1>1. /\ StructureOK /\ StructureOK' /\ MovesForward /\ Sound /\ Potted /\ Proposed(proposals)
  BY SteadyMeans
<1>2. Potted'
  BY <1>1, PottedSame
<1>3. \A x \in Ids : /\ proposals'[x].parent = proposals[x].parent /\ proposals'[x].proposer = proposals[x].proposer
                     /\ proposals'[x].rawForVotes \in Int /\ proposals'[x].rawAgainstVotes \in Int
  BY <1>1 DEF SameFunds, Proposed, Ids
<1>4. Proposed(proposals')
  BY <1>1, <1>3, ProposedKept
<1>5. ASSUME NEW p \in Ids, proposals[p].parent = 0, Covered(p)
      PROVE  Covered(p)'
  <2>1. Sound'
    BY <1>4, SteadyMeans
  <2>2. Children(p)' = Children(p)
    BY <1>3 DEF Children
  <2>3. \A c \in {p} \cup Children(p) : SameNumbers(proposals[c], proposals'[c])
    BY FundsNumbers DEF Children
  <2>4. pot[p] \in Int
    BY <1>1, PotType
  <2> QED BY <1>1, <1>5, <2>1, <2>2, <2>3, <2>4, FamilyKept
<1> QED BY <1>2, <1>3, <1>4, <1>5, CoverSteps

\* A proposal that is made keeps it.
LEMMA AddingKeepsClaims ==
  ASSUME Steady, NEW ps, NEW a \in Account, NEW r, r = Len(proposals) + 1, Adds(ps, r, a),
         CastVote(ps, a, r, TRUE, threshold),
         Len(ps) <= MaxProposals, UNCHANGED <<queuedTransactions, quorum, threshold, changed>>
  PROVE  ClaimInv'
<1>1. /\ StructureOK /\ StructureOK' /\ MovesForward /\ Sound /\ Potted /\ Proposed(proposals)
      /\ threshold \in Nat
  BY SteadyMeans
<1>2. VotesOnly
  BY <1>1, AddingIsVotesOnly
<1>3. Proposed(proposals')
  BY <1>1, AddedProposed
<1>4. PICK n \in Nat : n = Len(proposals) /\ Ids = 1 .. n
  BY <1>1 DEF StructureOK, Listed, Ids
<1>5. PICK m \in Nat : m = Len(ps) /\ DOMAIN ps = 1 .. m
  BY DEF Adds, Listed
<1>6. DOMAIN proposals' = DOMAIN ps /\ pot' = [pot EXCEPT ![r] = pot[r] + Split(ps, r, threshold) * Cardinality(LeavesIn(ps, r))]
  <2>1. TRUE \in BOOLEAN
    OBVIOUS
  <2> QED BY <1>1, <2>1, AddedCounts
<1>7. Len(proposals') = m
  <2>1. Listed(proposals')
    BY <1>1 DEF StructureOK
  <2>2. PICK k \in Nat : k = Len(proposals') /\ DOMAIN proposals' = 1 .. k
    BY <2>1 DEF Listed
  <2>3. 1 .. k = 1 .. m
    BY <1>5, <1>6, <2>2
  <2>4. (k \in 1 .. m \/ k = 0) /\ (m \in 1 .. k \/ m = 0)
    BY <2>3
  <2> QED BY <2>2, <2>4
<1>8. r \in 1 .. MaxProposals /\ r > n /\ r \in Ids' /\ pot[r] = 0
  <2>1. MaxProposals \in Nat /\ r \in 1 .. m
    BY <1>5, GovernorAssumption DEF Adds
  <2>2. r \in 1 .. MaxProposals /\ r > n /\ r \in Ids'
    BY <1>4, <1>5, <1>6, <2>1 DEF Ids
  <2> QED BY <1>1, <1>4, <2>2 DEF Potted
<1>9. Potted'
  <2>1. PICK z \in Int : z = pot[r] + Split(ps, r, threshold) * Cardinality(LeavesIn(ps, r))
    <3>1. Split(ps, r, threshold) \in Nat /\ Cardinality(LeavesIn(ps, r)) \in Nat
      BY <1>1, Shares DEF Adds
    <3> QED BY <1>8, <3>1
  <2>2. pot' = [pot EXCEPT ![r] = z]
    BY <1>6, <2>1
  <2>3. Ids \subseteq Ids' /\ Len(proposals') <= MaxProposals
    BY <1>2, <1>5, <1>7 DEF VotesOnly
  <2> QED BY <1>1, <1>8, <2>2, <2>3, PottedKept
<1>10. ASSUME ~changed', NEW p \in Ids', proposals'[p].parent = 0, Untouched(proposals', p)
       PROVE  Covered(p)'
  <2>1. ASSUME p \in Ids PROVE Covered(p)
    <3>1. \A x \in Ids : SameProposal(proposals[x], proposals'[x])
      BY <1>2 DEF VotesOnly
    <3>2. proposals[p].parent = 0
      BY <1>10, <2>1, <3>1 DEF SameProposal
    <3>3. Untouched(proposals, p)
      BY <1>2, <1>10, <2>1, <3>1 DEF Untouched, ChildrenIn, SameProposal, VotesOnly, Ids
    <3> QED BY <1>10, <2>1, <3>2, <3>3 DEF Steady, ClaimInv, FamilyOK
  <2>2. Sound'
    BY <1>3, SteadyMeans
  <2> QED BY <1>1, <1>2, <1>8, <1>9, <1>10, <2>1, <2>2, AddedCovers
<1>11. ~changed' => \A p \in Ids' : FamilyOK(p)'
  BY <1>10 DEF FamilyOK
<1> QED BY <1>3, <1>9, <1>11 DEF ClaimInv

\* What making proposals comes to: some are added, and their proposer votes.
Makes(ps, a) ==
  /\ Adds(ps, Len(proposals) + 1, a) /\ CastVote(ps, a, Len(proposals) + 1, TRUE, threshold)
  /\ Len(ps) <= MaxProposals /\ UNCHANGED <<queuedTransactions, quorum, threshold, changed>>

\* One proposal is made,
LEMMA ProposeMakes ==
  ASSUME StructureOK, NEW a \in Account, NEW x \in Action, Propose(a, x)
  PROVE  \E ps : Makes(ps, a)
<1>1. PICK ps : ps = Append(proposals, New(a, x, 0))
  OBVIOUS
<1>2. PICK S : proposals \in Seq(S)
  BY DEF StructureOK, Listed
<1>3. PICK y : y = New(a, x, 0)
  OBVIOUS
<1>4. Len(ps) = Len(proposals) + 1 /\ Len(proposals) \in Nat
  BY <1>1, <1>2, <1>3, AppendProperties
<1>5. Len(ps) <= MaxProposals
  BY <1>4 DEF Propose, Room
<1>6. Adds(ps, Len(proposals) + 1, a)
  BY <1>1, ProposeAdds
<1>7. /\ CastVote(ps, a, Len(proposals) + 1, TRUE, threshold)
      /\ UNCHANGED <<queuedTransactions, quorum, threshold, changed>>
  BY <1>1 DEF Propose
<1> QED BY <1>5, <1>6, <1>7 DEF Makes

\* or one with children.
LEMMA ProposeMultiAttributeMakes ==
  ASSUME StructureOK, NEW a \in Account, NEW n \in 1 .. MaxProposals, NEW actions \in [1 .. n -> Action],
         ProposeMultiAttribute(a, actions)
  PROVE  \E ps : Makes(ps, a)
<1>1. n \in Nat \ {0}
  BY GovernorAssumption
<1>2. PICK made : made = Made(a, actions)
  OBVIOUS
<1>3. made \in [1 .. n -> {made[i] : i \in 1 .. n}]
  BY <1>2 DEF Made
<1>4. made \in Seq({made[i] : i \in 1 .. n}) /\ Len(made) = n
  BY <1>1, <1>3, SeqDef
<1>5. PICK ps : ps = proposals \o made
  OBVIOUS
<1>6. PICK S : proposals \in Seq(S)
  BY DEF StructureOK, Listed
<1>7. Len(ps) = Len(proposals) + n /\ Len(proposals) \in Nat
  <2>1. PICK U : U = S \cup {made[i] : i \in 1 .. n}
    OBVIOUS
  <2>2. proposals \in Seq(U) /\ made \in Seq(U)
    BY <1>4, <1>6, <2>1, SeqMonotonic
  <2>3. Len(proposals \o made) = Len(proposals) + Len(made) /\ Len(proposals) \in Nat
    BY <2>2, ConcatProperties
  <2> QED BY <1>4, <1>5, <2>3
<1>8. Len(actions) = n
  BY <1>1
<1>9. Len(ps) <= MaxProposals
  BY <1>7, <1>8 DEF ProposeMultiAttribute, Room
<1>10. Adds(ps, Len(proposals) + 1, a)
  BY <1>1, <1>2, <1>5, ProposeMultiAttributeAdds
<1>11. /\ CastVote(ps, a, Len(proposals) + 1, TRUE, threshold)
       /\ UNCHANGED <<queuedTransactions, quorum, threshold, changed>>
  BY <1>2, <1>5 DEF ProposeMultiAttribute, Made
<1> QED BY <1>9, <1>10, <1>11 DEF Makes

\* Every step keeps the invariant of the claims.
LEMMA NextKeepsClaims ==
  ASSUME GovInv, TallyInv, ClaimInv, [Next]_vars
  PROVE  ClaimInv'
<1>1. Steady
  <2>1. GovInv' /\ MovesForward /\ TallyInv'
    BY NextKeeps, NextKeepsTallies
  <2> QED BY <2>1 DEF Steady
<1>2. StructureOK /\ StructureOK' /\ Potted /\ Proposed(proposals)
  BY <1>1, SteadyMeans
<1>3. ASSUME proposals' = proposals, pot' = pot, threshold' = threshold, quorum' = quorum, changed' = changed
      PROVE  ClaimInv'
  <2>1. Ids' = Ids /\ \A x \in Ids : SameFunds(proposals[x], proposals'[x]) /\ proposals'[x].eta = proposals[x].eta
    BY <1>3 DEF Ids, SameFunds
  <2> QED BY <1>1, <1>3, <2>1, QuietKeepsClaims
<1>4. CASE DaoNext /\ UNCHANGED <<queuedTransactions, govVars>>
  BY <1>3, <1>4 DEF govVars
<1>5. ASSUME NEW a \in Account, NEW x \in Action, Propose(a, x)
      PROVE  ClaimInv'
  <2>1. PICK ps : Makes(ps, a)
    BY <1>2, <1>5, ProposeMakes
  <2> QED BY <1>1, <2>1, AddingKeepsClaims DEF Makes
<1>6. ASSUME NEW a \in Account, NEW n \in 1 .. MaxProposals, NEW actions \in [1 .. n -> Action],
             ProposeMultiAttribute(a, actions)
      PROVE  ClaimInv'
  <2>1. PICK ps : Makes(ps, a)
    BY <1>2, <1>6, ProposeMultiAttributeMakes
  <2> QED BY <1>1, <2>1, AddingKeepsClaims DEF Makes
<1>7. ASSUME NEW a \in Account, NEW p \in Ids, NEW support \in BOOLEAN, NEW n \in VoteAmount,
             Vote(a, p, support, n)
      PROVE  ClaimInv'
  BY <1>1, <1>7, VoteKeepsClaims
<1>8. ASSUME NEW a \in Account, NEW p \in Ids, Refund(a, p)
      PROVE  ClaimInv'
  BY <1>1, <1>8, RefundKeepsClaims
<1>9. ASSUME NEW p \in Ids, NEW r, proposals' = [proposals EXCEPT ![p] = r],
             SameFunds(proposals[p], r), r.eta = proposals[p].eta,
             pot' = pot, threshold' = threshold, quorum' = quorum, changed' = changed
      PROVE  ClaimInv'
  <2>1. Ids' = Ids /\ \A x \in Ids : SameFunds(proposals[x], proposals'[x]) /\ proposals'[x].eta = proposals[x].eta
    BY <1>9 DEF Ids, SameFunds
  <2> QED BY <1>1, <1>9, <2>1, QuietKeepsClaims
<1>10. ASSUME NEW p \in Ids, NEW r, r = [proposals[p] EXCEPT !.executed = TRUE]
                                      \/ r = [proposals[p] EXCEPT !.canceled = TRUE]
       PROVE  SameFunds(proposals[p], r) /\ r.eta = proposals[p].eta
  <2>1. Shaped(proposals[p])
    BY <1>2 DEF StructureOK, AllShaped, Ids
  <2>2. PICK s : s = proposals[p]
    OBVIOUS
  <2>3. PICK z : z = TRUE
    OBVIOUS
  <2>4. r = [s EXCEPT !.executed = z] \/ r = [s EXCEPT !.canceled = z]
    BY <1>10, <2>2, <2>3
  <2>5. SameFunds(s, r) /\ r.eta = s.eta
    <3>1. Shaped(s)
      BY <2>1, <2>2
    <3> QED BY ONLY <2>4, <3>1 DEF Shaped, Fields, SameFunds
  <2> QED BY <2>2, <2>5
<1>11. ASSUME NEW a \in Account, NEW p \in Ids, Cancel(a, p)
       PROVE  ClaimInv'
  <2>1. PICK r : r = [proposals[p] EXCEPT !.canceled = TRUE]
    OBVIOUS
  <2>2. /\ proposals' = [proposals EXCEPT ![p] = r] /\ pot' = pot /\ threshold' = threshold
        /\ quorum' = quorum /\ changed' = changed
    BY <1>11, <2>1 DEF Cancel
  <2> QED BY <1>9, <1>10, <2>1, <2>2
<1>12. ASSUME NEW p \in Ids, Queue(p)
       PROVE  ClaimInv'
  BY <1>1, <1>12, QueueKeepsClaims
<1>13. ASSUME NEW p \in Ids, Execute(p)
       PROVE  ClaimInv'
  <2>1. PICK r : r = [proposals[p] EXCEPT !.executed = TRUE]
    OBVIOUS
  <2>2. /\ proposals' = [proposals EXCEPT ![p] = r] /\ pot' = pot /\ threshold' = threshold
        /\ quorum' = quorum /\ changed' = changed
    BY <1>13, <2>1 DEF Execute
  <2> QED BY <1>9, <1>10, <2>1, <2>2
<1>14. ASSUME NEW q \in Quorum, NEW t \in Threshold, Set(q, t)
       PROVE  ClaimInv'
  <2>1. changed' = TRUE /\ proposals' = proposals /\ pot' = pot
    BY <1>14 DEF Set
  <2> QED BY <1>2, <2>1 DEF ClaimInv, Potted
<1>15. CASE UNCHANGED vars
  BY <1>3, <1>15 DEF vars, govVars
<1>16. CASE Next
  BY <1>4, <1>5, <1>6, <1>7, <1>8, <1>11, <1>12, <1>13, <1>14, <1>16 DEF Next
<1> QED BY <1>15, <1>16

\* Nothing is claimed before any proposal.
LEMMA InitClaimInv == Init => ClaimInv
<1> SUFFICES ASSUME Init PROVE ClaimInv
  OBVIOUS
<1>1. proposals = <<>> /\ pot = [p \in 1 .. MaxProposals |-> 0]
  BY DEF Init, GovInit
<1>2. Len(proposals) = 0 /\ Ids = {} /\ DOMAIN proposals = {}
  BY <1>1 DEF Ids
<1>3. Potted
  BY <1>1, <1>2, GovernorAssumption DEF Potted
<1> QED BY <1>2, <1>3 DEF ClaimInv, Proposed

\* ClaimsCovered: what can be claimed for a proposal is covered by the tokens locked for it, but for
\* half the threshold, the reward of its proposer (queue, _refund).
THEOREM ClaimsAlwaysCovered == Spec => []ClaimsCovered
<1>1. GovInv /\ TallyInv /\ ClaimInv /\ [Next]_vars => ClaimInv'
  BY NextKeepsClaims
<1>2. GovInv /\ TallyInv /\ [Next]_vars => TallyInv'
  BY NextKeepsTallies
<1>3. GovInv /\ TallyInv /\ ClaimInv => ClaimsCovered
  BY ClaimInvMeans DEF GovInv
<1> QED BY <1>1, <1>2, <1>3, InitClaimInv, InitTallyInv, GovernanceInvariant, PTL DEF Spec
-----------------------------------------------------------------------------
(* All the proposals together. *)

\* The Governor contract holds what is in the pots, no more and no less.
PotsLocked == balance[Governor] = SumFunction(pot)

\* What it holds covers all that can be claimed at once, but for half the threshold per proposal.
Roots == {p \in Ids : proposals[p].parent = 0}
Solvent ==
  (\A p \in Roots : Plain(p)) => balance[Governor] >= SumFunction([p \in Roots |-> Owed(p) - threshold \div 2])

\* No balance is negative, and only a proposal without parent has a pot.
Locked ==
  /\ balance \in [Address -> Nat]
  /\ \A q \in 1 .. MaxProposals : pot[q] # 0 => q \in Roots
  /\ PotsLocked

\* The places of the pots.
LEMMA PotPlaces ==
  ASSUME Potted
  PROVE  /\ IsFiniteSet(1 .. MaxProposals) /\ DOMAIN pot = 1 .. MaxProposals
         /\ \A q \in 1 .. MaxProposals : pot[q] \in Int
         /\ SumFunction(pot) = SumFunctionOnSet(pot, 1 .. MaxProposals)
<1>1. MaxProposals \in Nat
  BY GovernorAssumption
<1>2. IsFiniteSet(1 .. MaxProposals)
  BY <1>1, FS_Interval
<1>3. DOMAIN pot = 1 .. MaxProposals /\ \A q \in 1 .. MaxProposals : pot[q] \in Int
  BY DEF Potted
<1> QED BY <1>2, <1>3 DEF SumFunction

\* What goes into the pot of a proposal, or out of it, comes from the contract or goes to it.
LEMMA PotMoves ==
  ASSUME Potted, Locked, NEW r \in 1 .. MaxProposals, NEW z \in Int, pot' = [pot EXCEPT ![r] = pot[r] + z],
         balance' \in [Address -> Nat], balance'[Governor] = balance[Governor] + z,
         Roots \subseteq Roots', r \in Roots'
  PROVE  Locked'
<1>1. PICK f, g, S, k : f = pot /\ g = pot' /\ S = 1 .. MaxProposals /\ k = r
  OBVIOUS
<1>2. IsFiniteSet(S) /\ DOMAIN f = S /\ k \in S /\ \A x \in S : f[x] \in Int
  BY <1>1, PotPlaces
<1>3. g = [f EXCEPT ![k] = f[k] + z]
  BY <1>1
<1>4. DOMAIN g = S /\ g[k] = f[k] + z /\ \A x \in S \ {k} : g[x] = f[x]
  BY ONLY <1>2, <1>3
<1>5. \A x \in S : f[x] \in Int /\ g[x] \in Int
  BY ONLY <1>2, <1>4, z \in Int
<1>6. SumFunctionOnSet(g, S) = SumFunctionOnSet(f, S) - f[k] + g[k]
  <2>1. IsFiniteSet(S)
    BY <1>2
  <2>2. k \in S
    BY <1>2
  <2>3. \A x \in S \ {k} : g[x] = f[x]
    BY <1>4
  <2> QED BY ONLY <1>5, <2>1, <2>2, <2>3, SumChange
<1>7. SumFunctionOnSet(g, S) = SumFunctionOnSet(f, S) + z
  <2>1. SumFunctionOnSet(f, S) \in Int /\ f[k] \in Int
    BY ONLY <1>2, SumType
  <2> QED BY ONLY <1>4, <1>6, <2>1, z \in Int
<1>8. SumFunction(f) = SumFunctionOnSet(f, S) /\ SumFunction(g) = SumFunctionOnSet(g, S)
  BY <1>2, <1>4 DEF SumFunction
<1>9. balance'[Governor] = SumFunction(pot')
  <2>1. balance[Governor] = SumFunction(f)
    BY <1>1 DEF Locked, PotsLocked
  <2> QED BY <1>1, <1>7, <1>8, <2>1
<1>10. \A q \in 1 .. MaxProposals : pot'[q] # 0 => q \in Roots'
  <2> SUFFICES ASSUME NEW q \in S, g[q] # 0 PROVE q \in Roots'
    BY <1>1
  <2>1. CASE q # k
    <3>1. f[q] # 0
      BY <1>4, <2>1
    <3> QED BY <1>1, <3>1 DEF Locked
  <2> QED BY <1>1, <2>1
<1> QED BY <1>9, <1>10 DEF Locked, PotsLocked

\* A step that moves none of them.
LEMMA PotsStay ==
  ASSUME Locked, pot' = pot, balance' \in [Address -> Nat], balance'[Governor] = balance[Governor],
         Roots \subseteq Roots'
  PROVE  Locked'
BY DEF Locked, PotsLocked

\* The proposals without parent stay.
LEMMA RootsStay ==
  ASSUME Ids \subseteq Ids', \A x \in Ids : SameProposal(proposals[x], proposals'[x])
  PROVE  Roots \subseteq Roots'
BY DEF Roots, SameProposal

\* Tokens of an account are locked: the account has them.
LEMMA LocksTokens ==
  ASSUME balance \in [Address -> Nat], NEW a \in Account, NEW n \in Nat, balance[a] >= n,
         balance' = [balance EXCEPT ![a] = balance[a] - n, ![Governor] = balance[Governor] + n]
  PROVE  balance' \in [Address -> Nat] /\ balance'[Governor] = balance[Governor] + n
<1>1. PICK f, S, o : f = balance /\ S = Address /\ o = Governor
  OBVIOUS
<1>2. a \in S /\ o \in S /\ a # o
  BY <1>1, TokenAssumption DEF Address
<1>3. f \in [S -> Nat] /\ f[a] >= n /\ balance' = [f EXCEPT ![a] = f[a] - n, ![o] = f[o] + n]
  BY <1>1
<1>4. balance' \in [S -> Nat] /\ balance'[o] = f[o] + n
  BY ONLY <1>2, <1>3, n \in Nat
<1> QED BY <1>1, <1>4

\* Tokens that were locked are burned, and some are paid: the contract has them.
LEMMA PaysTokens ==
  ASSUME balance \in [Address -> Nat], NEW a \in Account, NEW b \in Nat, NEW n \in Nat, balance[Governor] >= b + n,
         balance' = [balance EXCEPT ![Governor] = (balance[Governor] - b) - n, ![a] = balance[a] + n]
  PROVE  balance' \in [Address -> Nat] /\ balance'[Governor] = balance[Governor] + (0 - (b + n))
<1>1. PICK f, S, o : f = balance /\ S = Address /\ o = Governor
  OBVIOUS
<1>2. a \in S /\ o \in S /\ a # o
  BY <1>1, TokenAssumption DEF Address
<1>3. f \in [S -> Nat] /\ f[o] >= b + n /\ balance' = [f EXCEPT ![o] = (f[o] - b) - n, ![a] = f[a] + n]
  BY <1>1
<1>4. balance' \in [S -> Nat] /\ balance'[o] = f[o] + (0 - (b + n))
  BY ONLY <1>2, <1>3, b \in Nat, n \in Nat
<1> QED BY <1>1, <1>4

\* The calls of the token move nothing of the contract's.
LEMMA DaoLocked ==
  ASSUME Locked, DaoNext, UNCHANGED govVars
  PROVE  Locked'
<1>1. pot' = pot /\ Roots' = Roots
  BY DEF govVars, Roots, Ids
<1>2. /\ InitialHolder \in Account /\ Governor \notin Account /\ TokenAmount \subseteq Nat
      /\ Account \subseteq Address /\ Governor \in Address /\ balance \in [Address -> Nat]
  BY TokenAssumption DEF Address, Locked
<1>3. CASE MineBlock
  BY <1>1, <1>2, <1>3, PotsStay DEF MineBlock
<1>4. ASSUME NEW to \in Account, NEW n \in TokenAmount, Transfer(to, n)
      PROVE  Locked'
  <2>1. /\ balance' = [balance EXCEPT ![InitialHolder] = @ - n, ![to] = @ + n]
        /\ balance[InitialHolder] >= n
    BY <1>4 DEF Transfer, TransferTokens, CanTransfer
  <2>2. PICK f, S, i, o : f = balance /\ S = Address /\ i = InitialHolder /\ o = Governor
    OBVIOUS
  <2>3. /\ f \in [S -> Nat] /\ i \in S /\ to \in S /\ o \in S /\ i # o /\ to # o /\ n \in Nat /\ f[i] >= n
        /\ balance' = [f EXCEPT ![i] = @ - n, ![to] = @ + n]
    BY <1>2, <2>1, <2>2
  <2>4. balance' \in [S -> Nat] /\ balance'[o] = f[o]
    BY ONLY <2>3
  <2> QED BY <1>1, <2>2, <2>4, PotsStay
<1>5. ASSUME NEW a \in Account, NEW to \in Delegatee, Delegate(a, to)
      PROVE  Locked'
  BY <1>1, <1>2, <1>5, PotsStay DEF Delegate
<1>6. ASSUME NEW n \in TokenAmount, AddToTotalSupply(n)
      PROVE  Locked'
  <2>1. balance' = [balance EXCEPT ![InitialHolder] = @ + n]
    BY <1>6 DEF AddToTotalSupply
  <2>2. PICK f, S, i, o : f = balance /\ S = Address /\ i = InitialHolder /\ o = Governor
    OBVIOUS
  <2>3. /\ f \in [S -> Nat] /\ i \in S /\ o \in S /\ i # o /\ n \in Nat
        /\ balance' = [f EXCEPT ![i] = @ + n]
    BY <1>2, <2>1, <2>2
  <2>4. balance' \in [S -> Nat] /\ balance'[o] = f[o]
    BY ONLY <2>3
  <2> QED BY <1>1, <2>2, <2>4, PotsStay
<1> QED BY <1>3, <1>4, <1>5, <1>6 DEF DaoNext

\* A vote locks what is put in the pot,
LEMMA VoteLocked ==
  ASSUME Steady, Locked, NEW a \in Account, NEW q \in Ids, NEW support \in BOOLEAN, NEW amount \in VoteAmount,
         Vote(a, q, support, amount)
  PROVE  Locked'
<1> DEFINE r == Family(q)
           total == Split(proposals, q, amount) * Cardinality(LeavesIn(proposals, q))
<1>1. /\ balance[a] >= total /\ pot' = [pot EXCEPT ![r] = pot[r] + total]
      /\ balance' = [balance EXCEPT ![a] = balance[a] - total, ![Governor] = balance[Governor] + total]
  BY DEF Vote, CastVote, LeavesIn, ChildrenIn, Family
<1>2. StructureOK /\ Potted /\ VotesOnly
  BY SteadyMeans, VoteIsVotesOnly
<1>3. total \in Nat
  <2>1. Listed(proposals) /\ amount \in Nat
    BY <1>2, GovernorAssumption DEF StructureOK
  <2>2. Split(proposals, q, amount) \in Nat /\ Cardinality(LeavesIn(proposals, q)) \in Nat
    BY <2>1, Shares
  <2> QED BY <2>2
<1>4. r \in 1 .. MaxProposals /\ r \in Roots
  BY <1>2, FamilyIs, PotType DEF Roots
<1>5. Roots \subseteq Roots'
  BY <1>2, RootsStay DEF VotesOnly
<1> HIDE DEF r, total
<1>6. balance' \in [Address -> Nat] /\ balance'[Governor] = balance[Governor] + total
  BY <1>1, <1>3, LocksTokens DEF Locked
<1>7. PICK z \in Int : z = total
  BY <1>3
<1>8. pot' = [pot EXCEPT ![r] = pot[r] + z] /\ balance'[Governor] = balance[Governor] + z
  BY <1>1, <1>6, <1>7
<1> QED BY <1>2, <1>4, <1>5, <1>6, <1>8, PotMoves

\* and so does the vote with which a proposal is made.
LEMMA AddingLocked ==
  ASSUME Steady, Locked, NEW ps, NEW a \in Account, NEW r, r = Len(proposals) + 1, Adds(ps, r, a),
         CastVote(ps, a, r, TRUE, threshold), Len(ps) <= MaxProposals,
         UNCHANGED <<queuedTransactions, quorum, threshold, changed>>
  PROVE  Locked'
<1> DEFINE total == Split(ps, r, threshold) * Cardinality(LeavesIn(ps, r))
<1>1. StructureOK /\ Potted /\ threshold \in Nat /\ VotesOnly
  BY SteadyMeans, AddingIsVotesOnly
<1>2. /\ r \in DOMAIN ps \ Ids /\ r \in 1 .. MaxProposals
  <2>1. PICK n \in Nat : n = Len(proposals) /\ Ids = 1 .. n
    BY <1>1 DEF StructureOK, Listed, Ids
  <2>2. PICK m \in Nat : m = Len(ps) /\ DOMAIN ps = 1 .. m
    BY DEF Adds, Listed
  <2>3. r \in 1 .. m /\ MaxProposals \in Nat
    BY <2>2, GovernorAssumption DEF Adds
  <2> QED BY <2>1, <2>2, <2>3
<1>3. /\ DOMAIN proposals' = DOMAIN ps /\ proposals'[r].parent = 0
      /\ pot' = [pot EXCEPT ![r] = pot[r] + total]
  <2>1. TRUE \in BOOLEAN
    OBVIOUS
  <2>2. DOMAIN proposals' = DOMAIN ps /\ pot' = [pot EXCEPT ![r] = pot[r] + total]
    BY <1>1, <2>1, AddedCounts
  <2>3. PICK support \in BOOLEAN : CastVote(ps, a, r, support, threshold)
    BY <2>1
  <2>4. \A x \in DOMAIN ps : SameProposal(ps[x], proposals'[x])
    <3>1. Listed(ps) /\ AllShaped(ps) /\ Parented(ps)
      BY DEF Adds
    <3>2. r \in DOMAIN ps
      BY <1>2
    <3> QED BY <2>3, <3>1, <3>2, CastVoteKeeps
  <2>5. ps[r].parent = 0
    BY <1>1, <1>2, AddedIs
  <2> QED BY <1>2, <2>2, <2>4, <2>5 DEF SameProposal
<1>4. /\ balance[a] >= total
      /\ balance' = [balance EXCEPT ![a] = balance[a] - total, ![Governor] = balance[Governor] + total]
  BY DEF CastVote, LeavesIn, ChildrenIn
<1>5. total \in Nat
  <2>1. Split(ps, r, threshold) \in Nat /\ Cardinality(LeavesIn(ps, r)) \in Nat
    BY <1>1, Shares DEF Adds
  <2> QED BY <2>1
<1>6. Roots \subseteq Roots' /\ r \in Roots'
  <2>1. Roots \subseteq Roots'
    BY <1>1, RootsStay DEF VotesOnly
  <2> QED BY <1>2, <1>3, <2>1 DEF Roots, Ids
<1> HIDE DEF total
<1>7. balance' \in [Address -> Nat] /\ balance'[Governor] = balance[Governor] + total
  BY <1>4, <1>5, LocksTokens DEF Locked
<1>8. PICK z \in Int : z = total
  BY <1>5
<1>9. pot' = [pot EXCEPT ![r] = pot[r] + z] /\ balance'[Governor] = balance[Governor] + z
  BY <1>3, <1>7, <1>8
<1> QED BY <1>1, <1>2, <1>6, <1>7, <1>9, PotMoves

\* A refund takes from the pot what is burned and paid,
LEMMA RefundLocked ==
  ASSUME Steady, Locked, NEW a \in Account, NEW q \in Ids, Refund(a, q)
  PROVE  Locked'
<1> DEFINE refunds == IF Children(q) = {} THEN {q} ELSE {c \in Children(q) : ~Receipt(c, a).refunded}
           burned == SumFunction([c \in refunds |-> Burned(a, c)])
           paid == SumFunction([c \in refunds |-> Paid(a, c)])
           r == Family(q)
<1>1. /\ balance[Governor] >= burned + paid
      /\ balance' = [balance EXCEPT ![Governor] = (balance[Governor] - burned) - paid, ![a] = balance[a] + paid]
      /\ pot' = [pot EXCEPT ![r] = (pot[r] - burned) - paid]
  <2>1. /\ balance[Governor] >= burned + paid
        /\ pot' = [pot EXCEPT ![r] = (pot[r] - burned) - paid]
    BY DEF Refund
  <2>2. balance' = [balance EXCEPT ![Governor] = @ - burned - paid, ![a] = @ + paid]
    BY DEF Refund
  <2>3. a # Governor
    BY TokenAssumption
  <2> HIDE DEF burned, paid, r
  <2> QED BY <2>1, <2>2, <2>3
<1>2. StructureOK /\ Potted /\ AllReceipted(proposals) /\ VotesOnly
  BY SteadyMeans, RefundIsVotesOnly
<1>3. burned \in Nat /\ paid \in Nat
  <2>1. StructureOK /\ AllReceipted(proposals)
    BY <1>2
  <2> QED BY ONLY <2>1, RefundNumbers, a \in Account, q \in Ids
<1>4. r \in 1 .. MaxProposals /\ r \in Roots /\ pot[r] \in Int
  BY <1>2, FamilyIs, PotType DEF Roots
<1>5. Roots \subseteq Roots'
  BY <1>2, RootsStay DEF VotesOnly
<1> HIDE DEF refunds, burned, paid, r
<1>6. balance' \in [Address -> Nat] /\ balance'[Governor] = balance[Governor] + (0 - (burned + paid))
  BY <1>1, <1>3, PaysTokens DEF Locked
<1>7. PICK z \in Int : z = 0 - (burned + paid)
  BY <1>3
<1>8. (pot[r] - burned) - paid = pot[r] + z
  BY <1>3, <1>4, <1>7
<1>9. pot' = [pot EXCEPT ![r] = pot[r] + z]
  BY <1>1, <1>8
<1> QED BY <1>2, <1>4, <1>5, <1>6, <1>7, <1>9, PotMoves

\* and queueing what is burned.
LEMMA QueueLocked ==
  ASSUME Steady, Locked, NEW q \in Ids, Queue(q)
  PROVE  Locked'
<1> DEFINE b == proposals[q].rawForVotes + proposals[q].rawAgainstVotes - threshold
           r == Family(q)
<1>1. /\ 0 <= b /\ b <= balance[Governor]
      /\ proposals' = [proposals EXCEPT ![q].eta = block + Delay]
      /\ balance' = [balance EXCEPT ![Governor] = balance[Governor] - b]
      /\ pot' = [pot EXCEPT ![r] = pot[r] - b]
  BY DEF Queue
<1>2. StructureOK /\ Potted /\ Proposed(proposals) /\ threshold \in Nat
  BY SteadyMeans
<1>3. b \in Int
  BY <1>2 DEF Proposed, Ids
<1>4. r \in 1 .. MaxProposals /\ r \in Roots /\ pot[r] \in Int
  BY <1>2, FamilyIs, PotType DEF Roots
<1>5. Roots \subseteq Roots'
  <2>1. Ids' = Ids /\ \A x \in Ids : x # q => proposals'[x] = proposals[x]
    BY <1>1 DEF Ids
  <2>2. proposals'[q].parent = proposals[q].parent
    <3>1. PICK s, z : s = proposals[q] /\ z = block + Delay
      OBVIOUS
    <3>2. Shaped(s)
      BY <1>2, <3>1 DEF StructureOK, AllShaped, Ids
    <3>3. proposals'[q] = [s EXCEPT !.eta = z]
      BY <1>1, <3>1 DEF Ids
    <3>4. [s EXCEPT !.eta = z].parent = s.parent
      BY ONLY <3>2 DEF Shaped, Fields
    <3> QED BY <3>1, <3>3, <3>4
  <2> QED BY <2>1, <2>2 DEF Roots
<1> HIDE DEF b, r
<1>6. b \in Nat
  BY <1>1, <1>3
<1>7. PICK z \in Int : z = 0 - b
  BY <1>3
<1>8. balance' \in [Address -> Nat] /\ balance'[Governor] = balance[Governor] + z
  <2>1. balance \in [Address -> Nat] /\ Governor \in Address
    BY DEF Locked, Address
  <2> QED BY <1>1, <1>6, <1>7, <2>1
<1>9. pot' = [pot EXCEPT ![r] = pot[r] + z]
  <2>1. pot[r] - b = pot[r] + z
    BY <1>3, <1>4, <1>7
  <2> QED BY <1>1, <2>1
<1> QED BY <1>2, <1>4, <1>5, <1>7, <1>8, <1>9, PotMoves

\* Every step keeps the tokens of the contract and the pots equal.
LEMMA NextKeepsLocked ==
  ASSUME GovInv, TallyInv, ClaimInv, Locked, [Next]_vars
  PROVE  Locked'
<1>1. Steady
  <2>1. GovInv' /\ MovesForward /\ TallyInv'
    BY NextKeeps, NextKeepsTallies
  <2> QED BY <2>1 DEF Steady
<1>2. StructureOK /\ balance \in [Address -> Nat]
  BY <1>1, SteadyMeans DEF Locked
<1>3. ASSUME balance' = balance, pot' = pot, Roots \subseteq Roots' PROVE Locked'
  BY <1>2, <1>3, PotsStay
<1>4. CASE DaoNext /\ UNCHANGED <<queuedTransactions, govVars>>
  BY <1>4, DaoLocked
<1>5. ASSUME NEW a \in Account, NEW x \in Action, Propose(a, x)
      PROVE  Locked'
  <2>1. PICK ps : Makes(ps, a)
    BY <1>2, <1>5, ProposeMakes
  <2> QED BY <1>1, <2>1, AddingLocked DEF Makes
<1>6. ASSUME NEW a \in Account, NEW n \in 1 .. MaxProposals, NEW actions \in [1 .. n -> Action],
             ProposeMultiAttribute(a, actions)
      PROVE  Locked'
  <2>1. PICK ps : Makes(ps, a)
    BY <1>2, <1>6, ProposeMultiAttributeMakes
  <2> QED BY <1>1, <2>1, AddingLocked DEF Makes
<1>7. ASSUME NEW a \in Account, NEW p \in Ids, NEW support \in BOOLEAN, NEW n \in VoteAmount,
             Vote(a, p, support, n)
      PROVE  Locked'
  BY <1>1, <1>7, VoteLocked
<1>8. ASSUME NEW a \in Account, NEW p \in Ids, Refund(a, p)
      PROVE  Locked'
  BY <1>1, <1>8, RefundLocked
<1>9. ASSUME NEW p \in Ids, \/ proposals' = [proposals EXCEPT ![p].executed = TRUE]
                            \/ proposals' = [proposals EXCEPT ![p].canceled = TRUE],
             balance' = balance, pot' = pot
      PROVE  Locked'
  <2>1. Ids' = Ids /\ \A x \in Ids : x # p => proposals'[x] = proposals[x]
    BY <1>9 DEF Ids
  <2>2. proposals'[p].parent = proposals[p].parent
    <3>1. PICK s, z : s = proposals[p] /\ z = TRUE
      OBVIOUS
    <3>2. Shaped(s)
      BY <1>2, <3>1 DEF StructureOK, AllShaped, Ids
    <3>3. proposals'[p] = [s EXCEPT !.executed = z] \/ proposals'[p] = [s EXCEPT !.canceled = z]
      BY <1>9, <3>1 DEF Ids
    <3>4. [s EXCEPT !.executed = z].parent = s.parent /\ [s EXCEPT !.canceled = z].parent = s.parent
      BY ONLY <3>2 DEF Shaped, Fields
    <3> QED BY <3>1, <3>3, <3>4
  <2>3. Roots \subseteq Roots'
    BY <2>1, <2>2 DEF Roots
  <2> QED BY <1>3, <1>9, <2>3
<1>10. ASSUME NEW a \in Account, NEW p \in Ids, Cancel(a, p)
       PROVE  Locked'
  <2>1. proposals' = [proposals EXCEPT ![p].canceled = TRUE] /\ balance' = balance /\ pot' = pot
    BY <1>10 DEF Cancel, daoVars
  <2> QED BY <1>9, <2>1
<1>11. ASSUME NEW p \in Ids, Queue(p)
       PROVE  Locked'
  BY <1>1, <1>11, QueueLocked
<1>12. ASSUME NEW p \in Ids, Execute(p)
       PROVE  Locked'
  <2>1. proposals' = [proposals EXCEPT ![p].executed = TRUE] /\ balance' = balance /\ pot' = pot
    BY <1>12 DEF Execute, daoVars
  <2> QED BY <1>9, <2>1
<1>13. ASSUME NEW q \in Quorum, NEW t \in Threshold, Set(q, t)
       PROVE  Locked'
  <2>1. balance' = balance /\ proposals' = proposals /\ pot' = pot
    BY <1>13 DEF Set
  <2> QED BY <1>3, <2>1 DEF Roots, Ids
<1>14. CASE UNCHANGED vars
  <2>1. balance' = balance /\ proposals' = proposals /\ pot' = pot
    BY <1>14 DEF vars, govVars, daoVars
  <2> QED BY <1>3, <2>1 DEF Roots, Ids
<1>15. CASE Next
  BY <1>4, <1>5, <1>6, <1>7, <1>8, <1>10, <1>11, <1>12, <1>13, <1>15 DEF Next
<1> QED BY <1>14, <1>15

\* At first nothing is locked.
LEMMA InitLocked == Init => Locked
<1> SUFFICES ASSUME Init PROVE Locked
  OBVIOUS
<1>1. pot = [p \in 1 .. MaxProposals |-> 0]
  BY DEF Init, GovInit
<1>2. balance = [a \in Address |-> IF a = Governor THEN 0 ELSE IF a = InitialHolder THEN Reserve ELSE Grant[a]]
  BY DEF Init, DaoInit
<1>3. balance \in [Address -> Nat] /\ balance[Governor] = 0
  <2>1. /\ Reserve \in Nat /\ Governor \in Address
        /\ \A a \in Address : a # Governor /\ a # InitialHolder => Grant[a] \in Nat
    BY TokenAssumption DEF Address
  <2> QED BY <1>2, <2>1
<1>4. SumFunction(pot) = 0
  <2>1. PICK f, S : f = pot /\ S = 1 .. MaxProposals
    OBVIOUS
  <2>2. IsFiniteSet(S) /\ DOMAIN f = S /\ \A x \in S : f[x] = 0
    <3>1. MaxProposals \in Nat
      BY GovernorAssumption
    <3>2. IsFiniteSet(1 .. MaxProposals)
      BY <3>1, FS_Interval
    <3> QED BY <1>1, <2>1, <3>2
  <2>3. SumFunctionOnSet(f, S) = 0
    BY <2>2, SumZero
  <2> QED BY <2>1, <2>2, <2>3 DEF SumFunction
<1> QED BY <1>1, <1>3, <1>4 DEF Locked, PotsLocked

\* What is in the pots is in those of the proposals without parent.
LEMMA PotsOfRoots ==
  ASSUME StructureOK, Potted, Locked
  PROVE  /\ IsFiniteSet(Roots) /\ \A p \in Roots : pot[p] \in Int
         /\ balance[Governor] = SumFunctionOnSet(pot, Roots)
<1>1. PICK S, R, f : S = 1 .. MaxProposals /\ R = Roots /\ f = pot
  OBVIOUS
<1>2. IsFiniteSet(S) /\ \A x \in S : f[x] \in Int
  BY <1>1, PotPlaces
<1>3. R \in SUBSET S
  BY <1>1, PotType DEF Roots
<1>4. IsFiniteSet(R) /\ IsFiniteSet(S \ R)
  BY <1>2, <1>3, FS_Subset
<1>5. SumFunctionOnSet(f, S \ R) = 0
  <2>1. \A x \in S \ R : f[x] = 0
    BY <1>1 DEF Locked
  <2> QED BY <1>4, <2>1, SumZero
<1>6. SumFunctionOnSet(f, S) = SumFunctionOnSet(f, R) + SumFunctionOnSet(f, S \ R)
  BY <1>2, <1>3, SumSplit
<1>7. SumFunctionOnSet(f, R) \in Int
  BY <1>2, <1>3, <1>4, SumType
<1>8. balance[Governor] = SumFunctionOnSet(f, S)
  BY <1>1, PotPlaces DEF Locked, PotsLocked
<1> QED BY <1>1, <1>2, <1>3, <1>4, <1>5, <1>6, <1>7, <1>8

\* What can be claimed is a number.
LEMMA OwedType ==
  ASSUME StructureOK, AllReceipted(proposals), Proposed(proposals), NEW p \in Roots
  PROVE  Owed(p) \in Int
<1> DEFINE f == [c \in Leaves(p) |-> Claims(c)]
<1>1. Leaves(p) \in SUBSET Ids /\ IsFiniteSet(Leaves(p))
  BY LeavesAre DEF Roots
<1>2. ASSUME NEW c \in Ids PROVE Claims(c) \in Int
  <2> DEFINE g == [a \in Account |-> Claim(a, c)]
  <2>1. \A a \in Account : Claim(a, c) \in Int
    <3> SUFFICES ASSUME NEW a \in Account PROVE Claim(a, c) \in Int
      OBVIOUS
    <3>1. Receipt(c, a).rawVotes \in Nat
      BY DEF AllReceipted, Receipted, ReceiptSet, Receipt, Ids
    <3>2. Burned(a, c) \in Nat /\ Paid(a, c) \in Nat
      BY <3>1, RefundBound
    <3> QED BY <3>2 DEF Claim
  <2>2. \A a \in Account : g[a] \in Int
    BY <2>1
  <2>3. Claims(c) = SumFunctionOnSet(g, Account) /\ IsFiniteSet(Account)
    BY TokenAssumption DEF Claims, SumFunction
  <2> HIDE DEF g
  <2> QED BY <2>2, <2>3, SumType
<1>3. \A c \in Leaves(p) : f[c] \in Int
  BY <1>1, <1>2
<1>4. Owed(p) = SumFunctionOnSet(f, Leaves(p))
  BY DEF Owed, SumFunction
<1> HIDE DEF f
<1> QED BY <1>1, <1>3, <1>4, SumType

\* So what covers each proposal covers them all.
LEMMA AllCovered ==
  ASSUME StructureOK, TallyInv, ClaimInv, Locked
  PROVE  Solvent
<1> DEFINE h == [p \in Roots |-> Owed(p) - threshold \div 2]
<1> SUFFICES ASSUME \A p \in Roots : Plain(p)
             PROVE  balance[Governor] >= SumFunction(h)
  BY DEF Solvent
<1>1. AllReceipted(proposals) /\ Proposed(proposals) /\ Potted /\ threshold \in Nat
  BY DEF TallyInv, ClaimInv
<1>2. /\ IsFiniteSet(Roots) /\ \A p \in Roots : pot[p] \in Int
      /\ balance[Governor] = SumFunctionOnSet(pot, Roots)
  BY <1>1, PotsOfRoots
<1>3. ASSUME NEW p \in Roots
      PROVE  h[p] \in Int /\ pot[p] >= h[p]
  <2>1. Owed(p) \in Int /\ threshold \div 2 \in Int
    BY <1>1, OwedType
  <2>2. pot[p] >= Owed(p) - threshold \div 2
    BY ClaimInvMeans DEF ClaimsCovered, Roots
  <2> QED BY <2>1, <2>2
<1>4. SumFunction(h) = SumFunctionOnSet(h, Roots)
  BY DEF SumFunction
<1> HIDE DEF h
<1>5. PICK f, R : f = pot /\ R = Roots
  OBVIOUS
<1>6. \A p \in R : h[p] \in Int /\ f[p] \in Int /\ h[p] <= f[p]
  BY <1>2, <1>3, <1>5
<1>7. SumFunctionOnSet(h, R) <= SumFunctionOnSet(f, R)
  BY <1>2, <1>5, <1>6, SumLeq
<1>8. SumFunctionOnSet(h, R) \in Int /\ SumFunctionOnSet(f, R) \in Int
  BY <1>2, <1>5, <1>6, SumType
<1> QED BY <1>2, <1>4, <1>5, <1>7, <1>8

\* Locked is an invariant.
LEMMA LockedInvariant == Spec => [](GovInv /\ TallyInv /\ ClaimInv /\ Locked)
<1>1. GovInv /\ TallyInv /\ ClaimInv /\ Locked /\ [Next]_vars => Locked'
  BY NextKeepsLocked
<1>2. GovInv /\ TallyInv /\ ClaimInv /\ [Next]_vars => ClaimInv'
  BY NextKeepsClaims
<1>3. GovInv /\ TallyInv /\ [Next]_vars => TallyInv'
  BY NextKeepsTallies
<1> QED BY <1>1, <1>2, <1>3, InitLocked, InitClaimInv, InitTallyInv, GovernanceInvariant, PTL DEF Spec

\* The Governor contract holds exactly the tokens locked for its proposals, less those burned or paid
\* for them, whatever is proposed, voted, refunded and queued (Governor.sol: _castVoteInternal locks,
\* queue burns, _refund burns and pays).
THEOREM PotsAlwaysLocked == Spec => []PotsLocked
<1>1. Locked => PotsLocked
  BY DEF Locked
<1> QED BY <1>1, LockedInvariant, PTL

\* The contract can pay every voter and proposer of every proposal at once, but for half the threshold
\* per proposal, as long as no setting was changed, no child was queued for itself and no vote on a
\* child taken back (Governor.sol: queue burns all but the threshold, _refund pays).
THEOREM AlwaysSolvent == Spec => []Solvent
<1>1. GovInv /\ TallyInv /\ ClaimInv /\ Locked => Solvent
  BY AllCovered DEF GovInv
<1> QED BY <1>1, LockedInvariant, PTL
=============================================================================
