---------------------------- MODULE AccountsProofs -----------------------------
(***************************************************************************)
(* Proofs about Accounts, for any wallets, users and calls side by side:   *)
(* types and the uniqueness of e-mail addresses (AccountsTypeOK), the      *)
(* links (SentMeansMailed, ResetLinksGood), who changes a password         *)
(* (PasswordGuarded) and what a save leaves alone (SavesKeepApart).  The   *)
(* inductive invariant AccountsInv says, for each stage of a call, what of *)
(* that which it has read is still so.                                     *)
(***************************************************************************)
EXTENDS Accounts, FiniteSetTheorems, TLAPS

IsRow(w) ==
  w = [email |-> w.email, auditor |-> w.auditor, verified |-> w.verified, password |-> w.password,
       token |-> w.token, sent |-> w.sent, reset |-> w.reset, resetSent |-> w.resetSent]
IsCall(d) ==
  d = [at |-> d.at, kind |-> d.kind, address |-> d.address, email |-> d.email,
       password |-> d.password, token |-> d.token, current |-> d.current, found |-> d.found,
       flag |-> d.flag, overtaken |-> d.overtaken]

Shaped ==
  /\ wallet = [a \in Address |-> wallet[a]]
  /\ \A a \in Address : wallet[a] # None => wallet[a] \in WalletRow
  /\ call = [c \in Call |-> call[c]]
  /\ \A c \in Call : IsCall(call[c])
  /\ drawn \in 0 .. MaxTokens
  /\ mailed \subseteq Link /\ resets \subseteq Link

Drawn == 1 .. drawn
To(e, t) == [to |-> e, token |-> t]

\* No address is on two rows, and a row without one was never verified or reset.
EmailsOK ==
  /\ \A a, b \in Address :
       wallet[a] # None /\ wallet[b] # None /\ wallet[a].email = wallet[b].email
         /\ wallet[a].email # None => a = b
  /\ \A a \in Address \ moved :
       wallet[a] # None /\ wallet[a].email = None => wallet[a].token = None /\ wallet[a].reset = None

\* A verified wallet has no token to verify with.
VerifiedOK ==
  \A a \in Address \ renewed :
    wallet[a] # None /\ wallet[a].verified => wallet[a].token = None

\* A token of a reset was drawn for one link and is in one row.
ResetsOK ==
  /\ used \subseteq Drawn
  /\ \A m \in resets : m.token \in Drawn
  /\ \A m, n \in resets : m.token = n.token => m = n
  /\ \A a \in Address : wallet[a] # None /\ wallet[a].reset # None => wallet[a].reset \in Drawn
  /\ \A a, b \in Address :
       wallet[a] # None /\ wallet[b] # None /\ wallet[a].reset = wallet[b].reset
         /\ wallet[a].reset # None => a = b

RowsOK == EmailsOK /\ VerifiedOK /\ SentMeansMailed /\ ResetLinksGood /\ ResetsOK

\* A sign-up.
NewOK(d) ==
  d.at \in {"mail", "insert"} /\ d.kind = "new" =>
    /\ d.email \in Email /\ d.password \in Password /\ d.token \in Token
    /\ d.flag \in BOOLEAN
    /\ d.at = "mail" => ~d.flag
    /\ d.flag => To(d.email, d.token) \in mailed

AgainStage == {"renew", "mail", "find", "save"}
\* Another sign-up: the row it found is there, not verified since, and has its token or none.
AgainOK(d) ==
  d.at \in AgainStage /\ d.kind = "again" =>
    LET a == d.address IN
    /\ a \in Address /\ d.email \in Email /\ d.password \in Password
    /\ d.flag \in BOOLEAN /\ d.token \in Token \cup {None}
    /\ d.at = "mail" => d.token \in Token
    /\ d.at \in {"renew", "mail"} => ~d.flag
    /\ d.flag => To(d.email, d.token) \in mailed
    /\ a \notin moved \cup renewed =>
         /\ wallet[a] # None /\ wallet[a].email = d.email /\ wallet[a].token \in {None, d.token}
         /\ d.at = "save" => d.found = None \/ d.found.email = d.email
    /\ ~d.overtaken =>
         /\ wallet[a] # None /\ wallet[a].email = d.email
         /\ d.at = "renew" \/ a \in renewed \/ ~wallet[a].verified

Found(a) == IF wallet[a] = None THEN None ELSE Public(wallet[a])
\* A save: what was read is still so.
SaveOK(d) ==
  d.at \in {"find", "save"} =>
    /\ d.kind \in {"sync", "update", "again"} /\ d.address \in Address
    /\ d.flag \in BOOLEAN
    /\ d.kind = "update" => d.email \in Email
    /\ d.found # None => d.found.email \in Email \cup {None} /\ d.found.auditor \in BOOLEAN
    /\ d.at = "save" /\ ~d.overtaken => d.found = Found(d.address)

\* A change of a password: the link or the password it was checked against is still the same.
ChangeOK(d) ==
  d.at = "change" =>
    /\ d.email \in Email /\ d.password \in Password /\ d.kind \in {"token", "current"}
    /\ d.kind = "token" => d.token \in Drawn /\ To(d.email, d.token) \in resets
    /\ ~d.overtaken =>
         \A b \in ByEmail(d.email) :
           /\ d.kind = "token" => wallet[b].reset = d.token
           /\ d.kind = "current" => wallet[b].password = d.current

\* A reset that is not in a row yet: its token is in no row and nobody else's.
Resetting(d) == d.at \in {"mailReset", "reset"}
ResettingOK(d) ==
  Resetting(d) =>
    /\ d.email \in Email /\ d.token \in Drawn /\ d.token \in Token /\ d.token \notin used
    /\ \A b \in Address : wallet[b] # None => wallet[b].reset # d.token
    /\ IF d.at = "reset" THEN To(d.email, d.token) \in resets
       ELSE \A m \in resets : m.token # d.token

StageOK(d) ==
  /\ d.at \in {"none", "renew", "mail", "insert", "find", "save", "verify", "mailReset", "reset",
               "change"}
  /\ d.overtaken \in BOOLEAN
  /\ d.at = "mail" => d.kind \in {"new", "again"}
  /\ d.at = "insert" => d.kind = "new"
  /\ d.at = "renew" => d.kind = "again"
  /\ d.at = "verify" => d.email \in Email
  /\ d.at \in {"renew", "mail", "find"} => d.found = None
Stages == \A c \in Call : StageOK(call[c])

CallsOK ==
  /\ Stages
  /\ \A c \in Call :
       /\ NewOK(call[c]) /\ AgainOK(call[c]) /\ SaveOK(call[c])
       /\ ChangeOK(call[c]) /\ ResettingOK(call[c])
  /\ \A c, d \in Call :
       c # d /\ Resetting(call[c])
         /\ (Resetting(call[d]) \/ (call[d].at = "change" /\ call[d].kind = "token")) =>
       call[c].token # call[d].token

AccountsInv == Shaped /\ RowsOK /\ CallsOK

-----------------------------------------------------------------------------
(* Rows and calls as they are written, without EXCEPT. *)

\* NoCall is a call at no stage.
LEMMA NoCallIs ==
  /\ IsCall(NoCall) /\ NoCall.at = "none" /\ NoCall.overtaken = FALSE /\ NoCall.kind = None
  BY DEF NoCall, IsCall

\* Every row has the fields of a wallet.
LEMMA RowFields ==
  ASSUME NEW w \in WalletRow
  PROVE  /\ IsRow(w) /\ w # None
         /\ w.email \in Email \cup {None} /\ w.auditor \in BOOLEAN /\ w.verified \in BOOLEAN
         /\ w.password \in Password \cup {None} /\ w.token \in Token \cup {None}
         /\ w.sent \in {None, "recent", "old"} /\ w.reset \in Token \cup {None}
         /\ w.resetSent \in {None, "recent", "old", "expired"}
  BY NoneAssumption DEF WalletRow, IsRow

\* A record with these fields is a row.
LEMMA RowOfFields ==
  ASSUME NEW w, IsRow(w),
         w.email \in Email \cup {None}, w.auditor \in BOOLEAN, w.verified \in BOOLEAN,
         w.password \in Password \cup {None}, w.token \in Token \cup {None},
         w.sent \in {None, "recent", "old"}, w.reset \in Token \cup {None},
         w.resetSent \in {None, "recent", "old", "expired"}
  PROVE  w \in WalletRow
  BY DEF WalletRow, IsRow

\* None is no e-mail address, password or token.
LEMMA NoneIsNothing ==
  None \notin Address /\ None \notin Email /\ None \notin Password /\ None \notin Token
  BY AccountsAssumption DEF Token

\* What was drawn are tokens.
LEMMA DrawnTokens == ASSUME drawn \in 0 .. MaxTokens PROVE Drawn \subseteq Token
  BY AccountsAssumption DEF Drawn, Token

\* markEmailVerified.
LEMMA RowVerified ==
  ASSUME NEW w \in WalletRow, NEW v, v = Verified(w)
  PROVE  /\ v \in WalletRow /\ v.email = w.email /\ v.auditor = w.auditor
         /\ v.verified = TRUE /\ v.password = w.password /\ v.token = None
         /\ v.sent = w.sent /\ v.reset = w.reset /\ v.resetSent = w.resetSent
  BY DEF WalletRow, Verified

\* changePassword.
LEMMA RowChanged ==
  ASSUME NEW w \in WalletRow, NEW p \in Password, NEW v, v = Changed(w, p)
  PROVE  /\ v \in WalletRow /\ v.email = w.email /\ v.auditor = w.auditor
         /\ v.verified = w.verified /\ v.password = p /\ v.token = w.token
         /\ v.sent = w.sent /\ v.reset = None /\ v.resetSent = w.resetSent
  BY DEF WalletRow, Changed

\* All fields but overtaken.
Same(d, e) ==
  /\ e.at = d.at /\ e.kind = d.kind /\ e.address = d.address /\ e.email = d.email
  /\ e.password = d.password /\ e.token = d.token /\ e.current = d.current /\ e.found = d.found
  /\ e.flag = d.flag

\* A write: the row is the new one, and who has read it, or looks for its address, is overtaken.
LEMMA Written ==
  ASSUME Shaped, Stages, NEW c \in Call, NEW a \in Address, NEW row, NEW next, Write(c, a, row, next)
  PROVE  /\ wallet' = [b \in Address |-> wallet'[b]]
         /\ wallet'[a] = row /\ \A b \in Address \ {a} : wallet'[b] = wallet[b]
         /\ call' = [d \in Call |-> call'[d]] /\ call'[c] = next
         /\ \A d \in Call \ {c} :
              /\ IsCall(call'[d]) /\ Same(call[d], call'[d]) /\ call'[d].overtaken \in BOOLEAN
              /\ ~call'[d].overtaken =>
                   /\ ~call[d].overtaken
                   /\ call[d].at # "none" => ~Concerns(call[d], a, row)
<1>1. /\ wallet' = [b \in Address |-> wallet'[b]]
      /\ wallet'[a] = row /\ \A b \in Address \ {a} : wallet'[b] = wallet[b]
  BY DEF Write, Shaped
<1>2. /\ call' = [d \in Call |-> call'[d]] /\ call'[c] = next
      /\ \A d \in Call \ {c} : call'[d] =
           [call[d] EXCEPT !.overtaken = @ \/ (call[d] # NoCall /\ Concerns(call[d], a, row))]
  BY DEF Write
<1>3. ASSUME NEW d \in Call \ {c}
      PROVE  /\ IsCall(call'[d]) /\ Same(call[d], call'[d]) /\ call'[d].overtaken \in BOOLEAN
             /\ ~call'[d].overtaken =>
                  ~call[d].overtaken /\ (call[d].at # "none" => ~Concerns(call[d], a, row))
  <2>1. PICK o : o = (call[d].overtaken \/ (call[d] # NoCall /\ Concerns(call[d], a, row)))
    OBVIOUS
  <2>2. o \in BOOLEAN
    BY <2>1
  <2>3. ~o => ~call[d].overtaken /\ (call[d] # NoCall => ~Concerns(call[d], a, row))
    BY <2>1
  <2>4. call'[d] = [call[d] EXCEPT !.overtaken = o]
    BY <1>2, <2>1
  <2>5. IsCall(call[d])
    BY DEF Shaped
  <2>6. IsCall(call'[d]) /\ Same(call[d], call'[d]) /\ call'[d].overtaken = o
    BY ONLY <2>4, <2>5 DEF IsCall, Same
  <2>7. call[d].at # "none" => call[d] # NoCall
    BY NoCallIs
  <2> QED BY <2>2, <2>3, <2>6, <2>7
<1> QED BY <1>1, <1>2, <1>3

-----------------------------------------------------------------------------
(* What a step does to the calls and rows it is not about. *)

\* What is written to a row: its address and its token stay or the row is marked as moved or
\* renewed, and its reset is the old one, none, or that of the call that writes.
RowWritten(c, a, row) ==
  /\ wallet[a] # None /\ wallet[a].email # None /\ a \notin moved' \cup renewed' =>
       row.email = wallet[a].email /\ row.token \in {None, wallet[a].token}
  /\ \/ row.reset = None
     \/ wallet[a] # None /\ row.reset = wallet[a].reset
     \/ Resetting(call[c]) /\ row.reset = call[c].token

\* The histories only grow, and a token is used by the call that changes the password with it.
Grown(c) ==
  /\ mailed \subseteq mailed' /\ moved \subseteq moved' /\ renewed \subseteq renewed'
  /\ mailed' \subseteq Link /\ resets' \subseteq Link
  /\ drawn' \in 0 .. MaxTokens /\ drawn <= drawn'
  /\ used' = used
       \/ (used' = used \cup {call[c].token} /\ call[c].at = "change" /\ call[c].kind = "token")
  /\ resets' = resets
       \/ (resets' = resets \cup {To(call[c].email, call[c].token)} /\ call[c].at = "mailReset")

\* A write keeps what is known of the calls of others.
LEMMA OthersKept ==
  ASSUME AccountsInv, NEW c \in Call, NEW a \in Address, NEW row \in WalletRow, NEW next,
         Write(c, a, row, next), Grown(c), RowWritten(c, a, row), NEW d \in Call \ {c}
  PROVE  /\ NewOK(call[d])' /\ AgainOK(call[d])' /\ SaveOK(call[d])'
         /\ ChangeOK(call[d])' /\ ResettingOK(call[d])'
<1> DEFINE x == call[d]
           y == call'[d]
<1>s. Shaped /\ Stages
  BY DEF AccountsInv, CallsOK
<1>0. /\ wallet'[a] = row /\ \A b \in Address \ {a} : wallet'[b] = wallet[b]
      /\ Same(x, y)
      /\ ~y.overtaken => ~x.overtaken /\ (x.at # "none" => ~Concerns(x, a, row))
  BY <1>s, Written
<1>r. row # None
  BY RowFields
<1>k. NewOK(x) /\ AgainOK(x) /\ SaveOK(x) /\ ChangeOK(x) /\ ResettingOK(x)
  BY DEF AccountsInv, CallsOK
<1>d. Drawn \subseteq Drawn'
  BY <1>s, AccountsAssumption DEF Grown, Drawn, Shaped
<1>m. resets \subseteq resets' /\ mailed \subseteq mailed' /\ moved \subseteq moved' /\ renewed \subseteq renewed'
  BY DEF Grown
<1>n. \A e \in Email : e # None
  BY NoneIsNothing
<1>1. NewOK(call[d])'
  BY <1>0, <1>k, <1>m DEF NewOK, Same, To
<1>2. AgainOK(call[d])'
  <2> SUFFICES ASSUME y.at \in AgainStage, y.kind = "again" PROVE AgainOK(call[d])'
    BY DEF AgainOK
  <2> DEFINE b == x.address
  <2>0. x.at \in AgainStage /\ x.kind = "again" /\ b = y.address /\ x.at # "none"
    BY <1>0 DEF Same, AgainStage
  <2>1. b \in Address /\ x.email \in Email
    BY <2>0, <1>k DEF AgainOK
  <2>2. b \notin moved' \cup renewed' =>
          wallet'[b] # None /\ wallet'[b].email = x.email /\ wallet'[b].token \in {None, x.token}
    <3> SUFFICES ASSUME b \notin moved' \cup renewed'
                 PROVE  wallet'[b] # None /\ wallet'[b].email = x.email /\ wallet'[b].token \in {None, x.token}
      OBVIOUS
    <3>1. wallet[b] # None /\ wallet[b].email = x.email /\ wallet[b].token \in {None, x.token}
      BY <2>0, <1>k, <1>m DEF AgainOK
    <3>2. CASE b = a
      BY <3>1, <3>2, <2>1, <1>0, <1>r, <1>n DEF RowWritten
    <3>3. CASE b # a
      BY <3>1, <3>3, <2>1, <1>0
    <3> QED BY <3>2, <3>3
  <2>3. ~y.overtaken =>
          wallet'[b] # None /\ wallet'[b].email = x.email
          /\ (x.at = "renew" \/ b \in renewed' \/ ~wallet'[b].verified)
    BY <2>0, <2>1, <1>0, <1>k, <1>m DEF AgainOK, Concerns
  <2>4. b \notin moved' \cup renewed' => b \notin moved \cup renewed
    BY <1>m
  <2> QED BY <2>0, <2>1, <2>2, <2>3, <2>4, <1>0, <1>k, <1>m DEF AgainOK, Same, To
<1>3. SaveOK(call[d])'
  <2>1. y.at = "save" /\ ~y.overtaken => x.address # a
    BY <1>0 DEF Concerns, Same
  <2>2. y.at = "save" /\ ~y.overtaken => y.found = Found(x.address)'
    BY <2>1, <1>0, <1>k DEF SaveOK, Same, Found
  <2> QED BY <2>2, <1>0, <1>k DEF SaveOK, Same, Found
<1>4. ChangeOK(call[d])'
  <2> SUFFICES ASSUME y.at = "change" PROVE ChangeOK(call[d])'
    BY DEF ChangeOK
  <2>1. ~y.overtaken => \A b \in ByEmail(x.email)' : b \in ByEmail(x.email) /\ b # a
    BY <1>0, <1>k, <1>n DEF ByEmail, Concerns, Same, ChangeOK
  <2>2. ~y.overtaken =>
         \A b \in ByEmail(x.email)' :
           /\ x.kind = "token" => wallet'[b].reset = x.token
           /\ x.kind = "current" => wallet'[b].password = x.current
    BY <2>1, <1>0, <1>k DEF ChangeOK, Same, ByEmail
  <2>3. /\ y.email = x.email /\ y.kind = x.kind /\ y.token = x.token /\ y.current = x.current
        /\ y.password = x.password /\ x.at = "change"
    BY <1>0 DEF Same
  <2>4. y.email \in Email /\ y.password \in Password /\ y.kind \in {"token", "current"}
        /\ (y.kind = "token" => y.token \in Drawn' /\ To(y.email, y.token) \in resets')
    BY <2>3, <1>k, <1>d, <1>m DEF ChangeOK
  <2> QED BY <2>2, <2>3, <2>4 DEF ChangeOK, To
<1>5. ResettingOK(call[d])'
  <2> SUFFICES ASSUME Resetting(y) PROVE ResettingOK(call[d])'
    BY DEF ResettingOK, Resetting
  <2>0. Resetting(x) /\ y.at = x.at /\ y.email = x.email /\ y.token = x.token
    BY <1>0 DEF Same, Resetting
  <2>1. /\ x.email \in Email /\ x.token \in Drawn /\ x.token \in Token /\ x.token \notin used
        /\ \A b \in Address : wallet[b] # None => wallet[b].reset # x.token
        /\ x.at = "reset" => To(x.email, x.token) \in resets
        /\ x.at # "reset" => \A m \in resets : m.token # x.token
    BY <2>0, <1>k DEF ResettingOK
  <2>2. (Resetting(call[c]) \/ (call[c].at = "change" /\ call[c].kind = "token")) => call[c].token # x.token
    BY <2>0 DEF AccountsInv, CallsOK
  <2>3. x.token \notin used'
    BY <2>1, <2>2 DEF Grown
  <2>4. \A b \in Address : wallet'[b] # None => wallet'[b].reset # x.token
    <3>1. row.reset # x.token
      BY <2>1, <2>2, NoneIsNothing DEF RowWritten
    <3> QED BY <3>1, <2>1, <1>0
  <2>5. x.at # "reset" => \A m \in resets' : m.token # x.token
    BY <2>1, <2>2 DEF Grown, Resetting, To
  <2> QED BY <2>0, <2>1, <2>3, <2>4, <2>5, <1>d, <1>m DEF ResettingOK, To, Resetting
<1> QED BY <1>1, <1>2, <1>3, <1>4, <1>5

\* A row that fits in: its e-mail address is its own, its links were mailed, its reset is unused.
RowFits(c, a, row) ==
  /\ row.email # None => \A b \in Address \ {a} : wallet[b] # None => wallet[b].email # row.email
  /\ a \notin moved' /\ row.email = None => row.token = None /\ row.reset = None
  /\ a \notin renewed' /\ row.verified => row.token = None
  /\ a \notin moved' \cup renewed' /\ row.sent # None /\ row.token # None =>
       To(row.email, row.token) \in mailed
  /\ a \notin moved' /\ row.reset # None => row.reset \notin used' /\ To(row.email, row.reset) \in resets
  /\ row.reset # None =>
       row.reset \in Drawn /\ \A b \in Address \ {a} : wallet[b] # None => wallet[b].reset # row.reset
  /\ used' # used =>
       /\ call[c].token \in Drawn
       /\ \A b \in Address \ (moved \cup {a}) : wallet[b] # None => wallet[b].reset # call[c].token

\* The writing call is done or goes on as it may.
WriterOK(c) ==
  /\ IsCall(call[c]) /\ StageOK(call[c]) /\ ~Resetting(call[c]) /\ call[c].at # "change"
  /\ NewOK(call[c]) /\ AgainOK(call[c]) /\ SaveOK(call[c])

\* Such a write keeps the invariant.
LEMMA WriteKeeps ==
  ASSUME AccountsInv, NEW c \in Call, NEW a \in Address, NEW row \in WalletRow, NEW next,
         Write(c, a, row, next), Grown(c), UNCHANGED <<mailed, resets>>,
         RowWritten(c, a, row), RowFits(c, a, row), WriterOK(c)'
  PROVE  AccountsInv'
<1>s. Shaped /\ Stages
  BY DEF AccountsInv, CallsOK
<1>0. /\ wallet' = [b \in Address |-> wallet'[b]]
      /\ wallet'[a] = row /\ \A b \in Address \ {a} : wallet'[b] = wallet[b]
      /\ call' = [d \in Call |-> call'[d]] /\ call'[c] = next
      /\ \A d \in Call \ {c} :
           IsCall(call'[d]) /\ Same(call[d], call'[d]) /\ call'[d].overtaken \in BOOLEAN
  BY <1>s, Written
<1>r. row # None
  BY RowFields
<1>d. Drawn \subseteq Drawn'
  BY <1>s, AccountsAssumption DEF Grown, Drawn, Shaped
<1>g. moved \subseteq moved' /\ renewed \subseteq renewed'
      /\ (used' = used \/ used' = used \cup {call[c].token})
  BY DEF Grown
<1>k. EmailsOK /\ VerifiedOK /\ SentMeansMailed /\ ResetLinksGood /\ ResetsOK
  BY DEF AccountsInv, RowsOK
<1>1. Shaped'
  BY <1>0, <1>s DEF Shaped, Grown, WriterOK
<1>2. EmailsOK'
  <2>1. (\A b, e \in Address :
           wallet[b] # None /\ wallet[e] # None /\ wallet[b].email = wallet[e].email
             /\ wallet[b].email # None => b = e)'
    BY <1>0, <1>k DEF EmailsOK, RowFits
  <2>2. (\A b \in Address \ moved :
          wallet[b] # None /\ wallet[b].email = None => wallet[b].token = None /\ wallet[b].reset = None)'
    BY <1>0, <1>g, <1>k DEF EmailsOK, RowFits
  <2> QED BY <2>1, <2>2 DEF EmailsOK
<1>3. VerifiedOK'
  BY <1>0, <1>g, <1>k DEF VerifiedOK, RowFits
<1>4. SentMeansMailed'
  BY <1>0, <1>g, <1>k DEF SentMeansMailed, RowFits, To
<1>5. ResetLinksGood'
  <2> SUFFICES ASSUME NEW b \in Address \ moved', wallet'[b] # None, wallet'[b].reset # None
               PROVE  wallet'[b].reset \notin used' /\ To(wallet'[b].email, wallet'[b].reset) \in resets
    BY DEF ResetLinksGood, To
  <2>1. CASE b = a
    BY <2>1, <1>0 DEF RowFits
  <2>2. CASE b # a
    <3>1. wallet'[b] = wallet[b] /\ b \notin moved
      BY <2>2, <1>0, <1>g
    <3>2. wallet[b].reset \notin used /\ To(wallet[b].email, wallet[b].reset) \in resets
      BY <3>1, <1>k DEF ResetLinksGood, To
    <3>3. wallet[b].reset \notin used'
      BY <2>2, <3>1, <3>2, <1>g DEF RowFits
    <3> QED BY <3>1, <3>2, <3>3
  <2> QED BY <2>1, <2>2
<1>6. ResetsOK'
  <2>1. (used \subseteq Drawn)'
    BY <1>d, <1>g, <1>k DEF ResetsOK, RowFits
  <2>2. (\A m \in resets : m.token \in Drawn)'
    BY <1>d, <1>k DEF ResetsOK
  <2>3. (\A m, n \in resets : m.token = n.token => m = n)'
    BY <1>k DEF ResetsOK
  <2>4. (\A b \in Address : wallet[b] # None /\ wallet[b].reset # None => wallet[b].reset \in Drawn)'
    BY <1>0, <1>d, <1>k DEF ResetsOK, RowFits
  <2>5. (\A b, e \in Address :
          wallet[b] # None /\ wallet[e] # None /\ wallet[b].reset = wallet[e].reset
            /\ wallet[b].reset # None => b = e)'
    BY <1>0, <1>k DEF ResetsOK, RowFits
  <2> QED BY <2>1, <2>2, <2>3, <2>4, <2>5 DEF ResetsOK
<1>7. CallsOK'
  <2>1. Stages'
    BY <1>0, <1>s DEF Stages, StageOK, Same, WriterOK
  <2>2. ASSUME NEW d \in Call
        PROVE  /\ NewOK(call[d])' /\ AgainOK(call[d])' /\ SaveOK(call[d])'
               /\ ChangeOK(call[d])' /\ ResettingOK(call[d])'
    <3>1. CASE d = c
      BY <3>1 DEF WriterOK, ChangeOK, ResettingOK
    <3>2. CASE d # c
      BY <3>2, OthersKept
    <3> QED BY <3>1, <3>2
  <2>3. (\A d, e \in Call :
           d # e /\ Resetting(call[d])
             /\ (Resetting(call[e]) \/ (call[e].at = "change" /\ call[e].kind = "token")) =>
           call[d].token # call[e].token)'
    BY <1>0 DEF AccountsInv, CallsOK, Same, Resetting, WriterOK
  <2> QED BY <2>1, <2>2, <2>3 DEF CallsOK
<1> QED BY <1>1, <1>2, <1>3, <1>4, <1>5, <1>6, <1>7 DEF AccountsInv, RowsOK

\* A step of one call that writes no row keeps the invariant.
LEMMA CallStepKeeps ==
  ASSUME AccountsInv, NEW c \in Call, Grown(c), UNCHANGED <<wallet, used, moved, renewed>>,
         call' = [d \in Call |-> call'[d]], \A d \in Call \ {c} : call'[d] = call[d],
         IsCall(call'[c]), StageOK(call[c])', NewOK(call[c])', AgainOK(call[c])', SaveOK(call[c])',
         ChangeOK(call[c])', ResettingOK(call[c])',
         resets' # resets => call'[c].token = call[c].token /\ To(call[c].email, call[c].token) \in Link,
         Resetting(call'[c]) =>
           \/ Resetting(call[c]) /\ call'[c].token = call[c].token
           \/ call'[c].token \notin Drawn,
         call'[c].at = "change" /\ call'[c].kind = "token" =>
           \A d \in Call \ {c} : Resetting(call[d]) => call[d].token # call'[c].token
  PROVE  AccountsInv'
<1>s. Shaped /\ Stages
  BY DEF AccountsInv, CallsOK
<1>d. Drawn \subseteq Drawn'
  BY <1>s, AccountsAssumption DEF Grown, Drawn, Shaped
<1>g. /\ mailed \subseteq mailed' /\ resets \subseteq resets'
      /\ resets' = resets
           \/ (resets' = resets \cup {To(call[c].email, call[c].token)} /\ call[c].at = "mailReset")
  BY DEF Grown
<1>k. EmailsOK /\ VerifiedOK /\ SentMeansMailed /\ ResetLinksGood /\ ResetsOK
  BY DEF AccountsInv, RowsOK
<1>c. \A d \in Call : NewOK(call[d]) /\ AgainOK(call[d]) /\ SaveOK(call[d])
                      /\ ChangeOK(call[d]) /\ ResettingOK(call[d])
  BY DEF AccountsInv, CallsOK
<1>p. \A d, e \in Call :
        d # e /\ Resetting(call[d])
          /\ (Resetting(call[e]) \/ (call[e].at = "change" /\ call[e].kind = "token")) =>
        call[d].token # call[e].token
  BY DEF AccountsInv, CallsOK
<1>1. Shaped'
  BY <1>s DEF Shaped, Grown
<1>2. EmailsOK' /\ VerifiedOK'
  BY <1>k DEF EmailsOK, VerifiedOK
<1>3. SentMeansMailed' /\ ResetLinksGood'
  BY <1>g, <1>k DEF SentMeansMailed, ResetLinksGood
<1>4. ResetsOK'
  <2>1. resets' # resets => call[c].token \in Drawn /\ \A m \in resets : m.token # call[c].token
    BY <1>c, <1>g DEF ResettingOK, Resetting
  <2>2. (\A m \in resets : m.token \in Drawn)'
    BY <1>d, <1>g, <1>k, <2>1 DEF ResetsOK, To
  <2>3. (\A m, n \in resets : m.token = n.token => m = n)'
    BY <1>g, <1>k, <2>1 DEF ResetsOK, To
  <2> QED BY <1>d, <1>k, <2>2, <2>3 DEF ResetsOK
<1>5. CallsOK'
  <2>1. Stages'
    BY <1>s DEF Stages, StageOK
  <2>2. ASSUME NEW d \in Call, d # c
        PROVE  /\ NewOK(call[d])' /\ AgainOK(call[d])' /\ SaveOK(call[d])'
               /\ ChangeOK(call[d])' /\ ResettingOK(call[d])'
    <3>0. call'[d] = call[d]
      BY <2>2
    <3>1. NewOK(call[d])'
      BY <3>0, <1>c, <1>g DEF NewOK
    <3>2. AgainOK(call[d])'
      BY <3>0, <1>c, <1>g DEF AgainOK
    <3>3. SaveOK(call[d])'
      BY <3>0, <1>c DEF SaveOK, Found
    <3>4. ChangeOK(call[d])'
      BY <3>0, <1>c, <1>d, <1>g DEF ChangeOK, ByEmail
    <3>5. ResettingOK(call[d])'
      <4>1. Resetting(call[d]) /\ resets' # resets => call[d].token # call[c].token
        BY <1>g, <1>p, <2>2 DEF Resetting
      <4>2. Resetting(call[d]) /\ call[d].at # "reset" => \A m \in resets' : m.token # call[d].token
        <5> SUFFICES ASSUME Resetting(call[d]), call[d].at # "reset", NEW m \in resets'
                     PROVE  m.token # call[d].token
          OBVIOUS
        <5>1. \A n \in resets : n.token # call[d].token
          BY <1>c DEF ResettingOK
        <5>2. CASE m \in resets
          BY <5>1, <5>2
        <5>3. CASE m \notin resets
          <6>1. m = To(call[c].email, call[c].token)
            BY <5>3, <1>g
          <6> QED BY <6>1, <5>3, <4>1 DEF To
        <5> QED BY <5>2, <5>3
      <4> QED BY <3>0, <4>2, <1>c, <1>d, <1>g DEF ResettingOK, Resetting
    <3> QED BY <3>1, <3>2, <3>3, <3>4, <3>5
  <2>3. (\A d, e \in Call :
           d # e /\ Resetting(call[d])
             /\ (Resetting(call[e]) \/ (call[e].at = "change" /\ call[e].kind = "token")) =>
           call[d].token # call[e].token)'
    <3>1. \A e \in Call : Resetting(call[e]) \/ (call[e].at = "change" /\ call[e].kind = "token") =>
            call[e].token \in Drawn
      BY <1>c DEF ResettingOK, ChangeOK
    <3>2. \A d, e \in Call \ {c} :
            d # e /\ Resetting(call'[d])
              /\ (Resetting(call'[e]) \/ (call'[e].at = "change" /\ call'[e].kind = "token")) =>
            call'[d].token # call'[e].token
      BY <1>p
    <3>3. \A e \in Call \ {c} :
            Resetting(call'[c])
              /\ (Resetting(call'[e]) \/ (call'[e].at = "change" /\ call'[e].kind = "token")) =>
            call'[c].token # call'[e].token
      BY <1>p, <3>1
    <3>4. \A d \in Call \ {c} :
            Resetting(call'[d])
              /\ (Resetting(call'[c]) \/ (call'[c].at = "change" /\ call'[c].kind = "token")) =>
            call'[d].token # call'[c].token
      BY <1>p, <3>1
    <3> QED BY <3>2, <3>3, <3>4 DEF Resetting
  <2>4. \A d \in Call : NewOK(call[d])' /\ AgainOK(call[d])' /\ SaveOK(call[d])'
                        /\ ChangeOK(call[d])' /\ ResettingOK(call[d])'
    BY <2>2
  <2> QED BY <2>1, <2>3, <2>4 DEF CallsOK
<1> QED BY <1>1, <1>2, <1>3, <1>4, <1>5 DEF AccountsInv, RowsOK

-----------------------------------------------------------------------------
(* The steps that write no row. *)

\* A call starts, goes on or ends, and nothing else changes.
LEMMA NextStage ==
  ASSUME AccountsInv, NEW c \in Call, NEW r, call' = [call EXCEPT ![c] = r],
         UNCHANGED <<wallet, mailed, resets, drawn, used, moved, renewed>>,
         IsCall(r), StageOK(r), NewOK(r), AgainOK(r), SaveOK(r), ChangeOK(r), ~Resetting(r),
         r.at = "change" /\ r.kind = "token" =>
           \A d \in Call \ {c} : Resetting(call[d]) => call[d].token # r.token
  PROVE  AccountsInv'
<1>s. Shaped
  BY DEF AccountsInv
<1>1. call' = [d \in Call |-> call'[d]] /\ call'[c] = r /\ \A d \in Call \ {c} : call'[d] = call[d]
  BY <1>s DEF Shaped
<1>2. Grown(c)
  BY <1>s, AccountsAssumption DEF Grown, Shaped
<1>3. IsCall(call'[c])
  BY <1>1
<1>4. StageOK(call[c])'
  BY <1>1 DEF StageOK
<1>5. NewOK(call[c])'
  BY <1>1 DEF NewOK
<1>6. AgainOK(call[c])'
  BY <1>1 DEF AgainOK
<1>7. SaveOK(call[c])'
  BY <1>1 DEF SaveOK, Found
<1>8. ChangeOK(call[c])'
  BY <1>1 DEF ChangeOK, Drawn, ByEmail
<1>9. ~Resetting(call'[c]) /\ ResettingOK(call[c])'
  BY <1>1 DEF ResettingOK, Resetting
<1> QED BY <1>1, <1>2, <1>3, <1>4, <1>5, <1>6, <1>7, <1>8, <1>9, CallStepKeeps

\* A call ends, for a failure or because no row is there to write.
LEMMA Ends ==
  ASSUME AccountsInv, NEW c \in Call, Proceed(c, NoCall),
         UNCHANGED <<wallet, mailed, resets, drawn, used, moved, renewed>>
  PROVE  AccountsInv'
<1>1. StageOK(NoCall) /\ NewOK(NoCall) /\ AgainOK(NoCall) /\ SaveOK(NoCall) /\ ChangeOK(NoCall)
      /\ ~Resetting(NoCall)
  BY NoCallIs DEF StageOK, NewOK, AgainOK, AgainStage, SaveOK, ChangeOK, Resetting
<1> QED BY <1>1, NoCallIs, NextStage DEF Proceed

\* The fields of a wallet that is found by its e-mail address.
LEMMA FoundRow ==
  ASSUME Shaped, NEW e \in Email, NEW a \in ByEmail(e)
  PROVE  /\ a \in Address /\ wallet[a] \in WalletRow /\ wallet[a].email = e /\ wallet[a] # None
         /\ e # None
  BY NoneIsNothing DEF ByEmail, Shaped

\* signupWallet for an address that has a row: it is neither verified nor mailed recently.
LEMMA AgainStarts ==
  ASSUME AccountsInv, NEW c \in Call, NEW e \in Email, NEW p \in Password, SignUpAgain(c, e, p)
  PROVE  AccountsInv'
<1>s. Shaped /\ RowsOK
  BY DEF AccountsInv
<1>1. PICK a \in ByEmail(e) :
        /\ MaySignUpAgain(wallet[a])
        /\ Start(c, [NoCall EXCEPT !.at = IF wallet[a].token = None THEN "renew" ELSE "mail",
                                   !.kind = "again", !.address = a, !.email = e, !.password = p,
                                   !.token = wallet[a].token])
  BY DEF SignUpAgain
<1>2. PICK r : r = [NoCall EXCEPT !.at = IF wallet[a].token = None THEN "renew" ELSE "mail",
                                   !.kind = "again", !.address = a, !.email = e, !.password = p,
                                   !.token = wallet[a].token]
  OBVIOUS
<1>3. /\ IsCall(r) /\ r.at = (IF wallet[a].token = None THEN "renew" ELSE "mail") /\ r.kind = "again"
      /\ r.address = a /\ r.email = e /\ r.password = p /\ r.token = wallet[a].token
      /\ r.flag = FALSE /\ r.overtaken = FALSE /\ r.found = None
  BY ONLY <1>2 DEF NoCall, IsCall
<1>4. /\ a \in Address /\ wallet[a] \in WalletRow /\ wallet[a].email = e /\ wallet[a] # None
      /\ wallet[a].token \in Token \cup {None}
  BY <1>s, FoundRow, RowFields
<1>5. wallet[a].token # None => a \in renewed \/ ~wallet[a].verified
  BY <1>4, <1>s DEF RowsOK, VerifiedOK
<1>6. AgainOK(r)
  BY <1>3, <1>4, <1>5 DEF AgainOK
<1>7. StageOK(r) /\ NewOK(r) /\ SaveOK(r) /\ ChangeOK(r) /\ ~Resetting(r)
  BY <1>3 DEF StageOK, NewOK, SaveOK, ChangeOK, Resetting
<1> QED BY <1>1, <1>2, <1>3, <1>6, <1>7, NextStage DEF SignUpAgain, Start, history

\* ensureWalletWithRoles.
LEMMA SyncStarts ==
  ASSUME AccountsInv, NEW c \in Call, NEW a \in Address, NEW auditor \in BOOLEAN, SyncRoles(c, a, auditor)
  PROVE  AccountsInv'
<1>1. PICK r : r = [NoCall EXCEPT !.at = "find", !.kind = "sync", !.address = a, !.flag = auditor]
  OBVIOUS
<1>2. /\ IsCall(r) /\ r.at = "find" /\ r.address = a /\ r.found = None /\ r.overtaken = FALSE
      /\ r.kind = "sync" /\ r.flag = auditor
  BY ONLY <1>1 DEF NoCall, IsCall
<1>3. StageOK(r) /\ NewOK(r) /\ AgainOK(r) /\ SaveOK(r) /\ ChangeOK(r) /\ ~Resetting(r)
  BY <1>2 DEF StageOK, NewOK, AgainOK, SaveOK, ChangeOK, Resetting
<1> QED BY <1>1, <1>2, <1>3, NextStage DEF SyncRoles, Start, history

\* The update of a profile.
LEMMA UpdateStarts ==
  ASSUME AccountsInv, NEW c \in Call, NEW a \in Address, NEW e \in Email, UpdateProfile(c, a, e)
  PROVE  AccountsInv'
<1>1. PICK r : r = [NoCall EXCEPT !.at = "find", !.kind = "update", !.address = a, !.email = e]
  OBVIOUS
<1>2. /\ IsCall(r) /\ r.at = "find" /\ r.address = a /\ r.found = None /\ r.overtaken = FALSE
      /\ r.kind = "update" /\ r.email = e /\ r.flag = FALSE
  BY ONLY <1>1 DEF NoCall, IsCall
<1>3. StageOK(r) /\ NewOK(r) /\ AgainOK(r) /\ SaveOK(r) /\ ChangeOK(r) /\ ~Resetting(r)
  BY <1>2 DEF StageOK, NewOK, AgainOK, SaveOK, ChangeOK, Resetting
<1> QED BY <1>1, <1>2, <1>3, NextStage DEF UpdateProfile, Start, history

\* Before a save, what is saved is read.
LEMMA FindKeeps ==
  ASSUME AccountsInv, NEW c \in Call, FindWallet(c)
  PROVE  AccountsInv'
<1> DEFINE d == call[c]
<1>s. Shaped /\ RowsOK
  BY DEF AccountsInv
<1>k. IsCall(d) /\ AgainOK(d) /\ SaveOK(d) /\ StageOK(d) /\ d.at = "find"
  BY DEF AccountsInv, CallsOK, Stages, Shaped, FindWallet
<1>1. PICK o, f : o = (d.overtaken /\ d.kind = "again") /\ f = Found(d.address)
  OBVIOUS
<1>2. PICK r : r = [d EXCEPT !.at = "save", !.overtaken = o, !.found = f]
  OBVIOUS
<1>3. Proceed(c, r) /\ UNCHANGED <<wallet, mailed, resets, drawn, used, moved, renewed>>
  BY <1>1, <1>2 DEF FindWallet, history, Found
<1>4. /\ IsCall(r) /\ r.at = "save" /\ r.kind = d.kind /\ r.address = d.address /\ r.email = d.email
      /\ r.password = d.password /\ r.token = d.token /\ r.flag = d.flag /\ r.overtaken = o /\ r.found = f
  BY ONLY <1>2, <1>k DEF IsCall
<1>5. d.address \in Address /\ (f # None => wallet[d.address] # None /\ f.email = wallet[d.address].email
        /\ f.email \in Email \cup {None} /\ f.auditor \in BOOLEAN)
  BY <1>1, <1>k, <1>s, RowFields DEF SaveOK, Found, Public, Shaped
<1>6. SaveOK(r)
  BY <1>1, <1>4, <1>5, <1>k DEF SaveOK
<1>7. AgainOK(r)
  BY <1>1, <1>4, <1>5, <1>k DEF AgainOK, AgainStage
<1>8. StageOK(r) /\ NewOK(r) /\ ChangeOK(r) /\ ~Resetting(r)
  BY <1>1, <1>4, <1>k DEF StageOK, NewOK, ChangeOK, Resetting
<1> QED BY <1>3, <1>4, <1>6, <1>7, <1>8, NextStage DEF Proceed

\* signupWallet for an address without a row draws a token.
LEMMA NewStarts ==
  ASSUME AccountsInv, NEW c \in Call, NEW e \in Email, NEW p \in Password, SignUpNew(c, e, p)
  PROVE  AccountsInv'
<1>s. Shaped
  BY DEF AccountsInv
<1>1. PICK t, r : t = drawn' /\ r = [NoCall EXCEPT !.at = "mail", !.kind = "new", !.email = e,
                                                   !.password = p, !.token = t]
  OBVIOUS
<1>2. call' = [call EXCEPT ![c] = r] /\ UNCHANGED <<wallet, mailed, resets, used, moved, renewed>>
  BY <1>1 DEF SignUpNew, Start, history
<1>3. drawn' = drawn + 1 /\ drawn' \in 0 .. MaxTokens /\ t \in Token
  BY <1>1, <1>s, AccountsAssumption DEF SignUpNew, Draw, Shaped, Token
<1>4. /\ IsCall(r) /\ r.at = "mail" /\ r.kind = "new" /\ r.email = e /\ r.password = p /\ r.token = t
      /\ r.flag = FALSE /\ r.overtaken = FALSE /\ r.found = None
  BY ONLY <1>1 DEF NoCall, IsCall
<1>5. call' = [d \in Call |-> call'[d]] /\ call'[c] = r /\ \A d \in Call \ {c} : call'[d] = call[d]
  BY <1>2, <1>s DEF Shaped
<1>6. Grown(c)
  BY <1>2, <1>3, <1>s, AccountsAssumption DEF Grown, Shaped
<1>7. StageOK(call[c])' /\ ~Resetting(call'[c])
  BY <1>4, <1>5 DEF StageOK, Resetting
<1>8. NewOK(call[c])' /\ AgainOK(call[c])' /\ SaveOK(call[c])' /\ ChangeOK(call[c])' /\ ResettingOK(call[c])'
  BY <1>3, <1>4, <1>5 DEF NewOK, AgainOK, SaveOK, ChangeOK, ResettingOK, Resetting
<1> QED BY <1>2, <1>4, <1>5, <1>6, <1>7, <1>8, CallStepKeeps

\* A verification mail is sent, or not.
LEMMA VerificationSent ==
  ASSUME AccountsInv, NEW c \in Call, SendVerificationEmail(c)
  PROVE  AccountsInv'
<1> DEFINE d == call[c]
           n == IF d.kind = "new" THEN "insert" ELSE "find"
<1>s. Shaped /\ Stages
  BY DEF AccountsInv, CallsOK
<1>k. IsCall(d) /\ NewOK(d) /\ AgainOK(d) /\ StageOK(d) /\ d.at = "mail"
  BY DEF AccountsInv, CallsOK, Stages, Shaped, SendVerificationEmail
<1>1. UNCHANGED <<wallet, resets, drawn, used, moved, renewed>> /\ mailed \subseteq mailed'
  BY DEF SendVerificationEmail, history
<1>2. d.kind \in {"new", "again"} /\ d.email \in Email /\ d.password \in Password /\ d.token \in Token /\ ~d.flag
      /\ d.flag \in BOOLEAN
  BY <1>k DEF NewOK, AgainOK, AgainStage, StageOK
<1>3. mailed' \subseteq Link
  BY <1>2, <1>s DEF SendVerificationEmail, Shaped, Link
<1>4. PICK r : /\ Proceed(c, r) /\ IsCall(r) /\ r.at = n /\ r.kind = d.kind /\ r.address = d.address
               /\ r.email = d.email /\ r.password = d.password /\ r.token = d.token
               /\ r.found = d.found /\ r.overtaken = d.overtaken /\ r.flag \in BOOLEAN
               /\ r.flag => To(d.email, d.token) \in mailed'
  <2>1. CASE mailed' = mailed \cup {To(d.email, d.token)} /\ Proceed(c, [d EXCEPT !.at = n, !.flag = TRUE])
    <3>1. PICK r : r = [d EXCEPT !.at = n, !.flag = TRUE]
      OBVIOUS
    <3>2. /\ IsCall(r) /\ r.at = n /\ r.kind = d.kind /\ r.address = d.address
          /\ r.email = d.email /\ r.password = d.password /\ r.token = d.token
          /\ r.found = d.found /\ r.overtaken = d.overtaken /\ r.flag = TRUE
      BY ONLY <3>1, <1>k DEF IsCall
    <3>3. Proceed(c, r) /\ To(d.email, d.token) \in mailed'
      BY <2>1, <3>1
    <3> QED BY <3>2, <3>3
  <2>2. CASE Proceed(c, [d EXCEPT !.at = n])
    <3>1. PICK r : r = [d EXCEPT !.at = n]
      OBVIOUS
    <3>2. /\ IsCall(r) /\ r.at = n /\ r.kind = d.kind /\ r.address = d.address
          /\ r.email = d.email /\ r.password = d.password /\ r.token = d.token
          /\ r.found = d.found /\ r.overtaken = d.overtaken /\ r.flag = d.flag
      BY ONLY <3>1, <1>k DEF IsCall
    <3>3. Proceed(c, r)
      BY <2>2, <3>1
    <3> QED BY <3>2, <3>3, <1>2
  <2> QED BY <2>1, <2>2 DEF SendVerificationEmail, To
<1>5. call' = [e \in Call |-> call'[e]] /\ call'[c] = r /\ \A e \in Call \ {c} : call'[e] = call[e]
  BY <1>4, <1>s DEF Shaped, Proceed
<1>6. Grown(c)
  BY <1>1, <1>3, <1>s, AccountsAssumption DEF Grown, Shaped
<1>7. StageOK(call[c])' /\ ~Resetting(call'[c])
  BY <1>2, <1>4, <1>5, <1>k DEF StageOK, Resetting
<1>8. NewOK(call[c])'
  BY <1>2, <1>4, <1>5 DEF NewOK
<1>9. AgainOK(call[c])'
  BY <1>1, <1>2, <1>4, <1>5, <1>k DEF AgainOK, AgainStage
<1>10. SaveOK(call[c])'
  <2>1. r.at = "find" => d.kind = "again" /\ d.address \in Address /\ r.at # "save"
    BY <1>2, <1>4, <1>k DEF AgainOK, AgainStage
  <2>2. d.found = None
    BY <1>k DEF StageOK
  <2> QED BY <1>4, <1>5, <2>1, <2>2 DEF SaveOK
<1>11. ChangeOK(call[c])' /\ ResettingOK(call[c])'
  BY <1>4, <1>5 DEF ChangeOK, ResettingOK, Resetting
<1> QED BY <1>1, <1>4, <1>5, <1>6, <1>7, <1>8, <1>9, <1>10, <1>11, CallStepKeeps

\* The link of a verification mail is followed.
LEMMA VerifyStarts ==
  ASSUME AccountsInv, NEW c \in Call, NEW m \in mailed, Verify(c, m)
  PROVE  AccountsInv'
<1>1. m.to \in Email
  BY DEF AccountsInv, Shaped, Link
<1>2. PICK a \in Address : Start(c, [NoCall EXCEPT !.at = "verify", !.address = a, !.email = m.to])
  BY DEF Verify, ByEmail
<1>3. PICK r : r = [NoCall EXCEPT !.at = "verify", !.address = a, !.email = m.to]
  OBVIOUS
<1>4. IsCall(r) /\ r.at = "verify" /\ r.address = a /\ r.email = m.to /\ r.overtaken = FALSE
  BY ONLY <1>3 DEF NoCall, IsCall
<1>5. StageOK(r) /\ NewOK(r) /\ AgainOK(r) /\ SaveOK(r) /\ ChangeOK(r) /\ ~Resetting(r)
  BY <1>1, <1>4 DEF StageOK, NewOK, AgainOK, AgainStage, SaveOK, ChangeOK, Resetting
<1> QED BY <1>2, <1>3, <1>4, <1>5, NextStage DEF Verify, Start, history

\* A reset is requested: its token is in no row, no mail and no other call.
LEMMA ResetStarts ==
  ASSUME AccountsInv, NEW c \in Call, NEW e \in Email, RequestPasswordReset(c, e)
  PROVE  AccountsInv'
<1>s. Shaped /\ ResetsOK
  BY DEF AccountsInv, RowsOK
<1>1. PICK a \in Address :
        Draw(MaxTokens)
        /\ Start(c, [NoCall EXCEPT !.at = "mailReset", !.address = a, !.email = e, !.token = drawn'])
  BY DEF RequestPasswordReset, ByEmail
<1>2. PICK t, r : t = drawn' /\ r = [NoCall EXCEPT !.at = "mailReset", !.address = a, !.email = e, !.token = t]
  OBVIOUS
<1>3. call' = [call EXCEPT ![c] = r] /\ UNCHANGED <<wallet, mailed, resets, used, moved, renewed>>
  BY <1>1, <1>2 DEF RequestPasswordReset, Start, history
<1>4. /\ IsCall(r) /\ r.at = "mailReset" /\ r.email = e /\ r.token = t /\ r.overtaken = FALSE
  BY ONLY <1>2 DEF NoCall, IsCall
<1>5. drawn' = drawn + 1 /\ drawn' \in 0 .. MaxTokens /\ t \in Token /\ t \in Drawn' /\ t \notin Drawn
  BY <1>1, <1>2, <1>s, AccountsAssumption DEF Draw, Shaped, Token, Drawn
<1>6. call' = [d \in Call |-> call'[d]] /\ call'[c] = r /\ \A d \in Call \ {c} : call'[d] = call[d]
  BY <1>3, <1>s DEF Shaped
<1>7. Grown(c)
  BY <1>3, <1>5, <1>s, AccountsAssumption DEF Grown, Shaped
<1>8. StageOK(call[c])' /\ NewOK(call[c])' /\ AgainOK(call[c])' /\ SaveOK(call[c])' /\ ChangeOK(call[c])'
  BY <1>4, <1>6 DEF StageOK, NewOK, AgainOK, AgainStage, SaveOK, ChangeOK
<1>9. t \notin used /\ (\A b \in Address : wallet[b] # None => wallet[b].reset # t)
      /\ (\A m \in resets : m.token # t)
  BY <1>5, <1>s, NoneIsNothing DEF ResetsOK
<1>10. ResettingOK(call[c])'
  BY <1>3, <1>4, <1>5, <1>6, <1>9 DEF ResettingOK
<1> QED BY <1>3, <1>4, <1>5, <1>6, <1>7, <1>8, <1>10, CallStepKeeps

\* The mail with the link of a reset is sent.
LEMMA ResetSent ==
  ASSUME AccountsInv, NEW c \in Call, SendPasswordResetEmail(c)
  PROVE  AccountsInv'
<1> DEFINE d == call[c]
<1>s. Shaped
  BY DEF AccountsInv
<1>k. IsCall(d) /\ ResettingOK(d) /\ StageOK(d) /\ d.at = "mailReset"
  BY DEF AccountsInv, CallsOK, Stages, Shaped, SendPasswordResetEmail
<1>1. PICK r : r = [d EXCEPT !.at = "reset"]
  OBVIOUS
<1>2. /\ IsCall(r) /\ r.at = "reset" /\ r.email = d.email /\ r.token = d.token /\ r.overtaken = d.overtaken
  BY ONLY <1>1, <1>k DEF IsCall
<1>3. call' = [e \in Call |-> call'[e]] /\ call'[c] = r /\ \A e \in Call \ {c} : call'[e] = call[e]
  BY <1>1, <1>s DEF Shaped, Proceed, SendPasswordResetEmail
<1>4. UNCHANGED <<wallet, mailed, drawn, used, moved, renewed>>
      /\ resets' = resets \cup {To(d.email, d.token)}
  BY DEF SendPasswordResetEmail, To, history
<1>5. d.email \in Email /\ d.token \in Drawn /\ d.token \in Token /\ d.token \notin used
      /\ \A b \in Address : wallet[b] # None => wallet[b].reset # d.token
  BY <1>k DEF ResettingOK, Resetting
<1>6. To(d.email, d.token) \in Link
  BY <1>5 DEF Link, To
<1>7. Grown(c)
  BY <1>4, <1>6, <1>k, <1>s, AccountsAssumption DEF Grown, Shaped
<1>8. StageOK(call[c])' /\ NewOK(call[c])' /\ AgainOK(call[c])' /\ SaveOK(call[c])' /\ ChangeOK(call[c])'
  BY <1>2, <1>3, <1>k DEF StageOK, NewOK, AgainOK, AgainStage, SaveOK, ChangeOK
<1>9. ResettingOK(call[c])'
  BY <1>2, <1>3, <1>4, <1>5 DEF ResettingOK, Drawn, To
<1> QED BY <1>2, <1>3, <1>4, <1>6, <1>7, <1>8, <1>9, <1>k, CallStepKeeps DEF Resetting

\* A change of a password starts with the token of the row.
LEMMA TokenChangeStarts ==
  ASSUME AccountsInv, NEW c \in Call, NEW m \in resets, NEW p \in Password, ChangeWithToken(c, m, p)
  PROVE  AccountsInv'
<1>s. Shaped /\ RowsOK /\ EmailsOK /\ ResetsOK
  BY DEF AccountsInv, RowsOK
<1>0. m.to \in Email /\ m.token \in Token /\ m = To(m.to, m.token) /\ m.token \in Drawn
  BY <1>s DEF Shaped, Link, To, ResetsOK
<1>1. PICK a \in ByEmail(m.to) :
        /\ ValidToken(wallet[a], m.token)
        /\ Start(c, [NoCall EXCEPT !.at = "change", !.kind = "token", !.address = a, !.email = m.to,
                                   !.password = p, !.token = m.token])
  BY DEF ChangeWithToken
<1>2. PICK r : r = [NoCall EXCEPT !.at = "change", !.kind = "token", !.address = a, !.email = m.to,
                                   !.password = p, !.token = m.token]
  OBVIOUS
<1>3. /\ IsCall(r) /\ r.at = "change" /\ r.kind = "token" /\ r.email = m.to /\ r.password = p
      /\ r.token = m.token /\ r.overtaken = FALSE
  BY ONLY <1>2 DEF NoCall, IsCall
<1>4. \A b \in ByEmail(m.to) : b = a
  BY <1>0, <1>s, NoneIsNothing DEF ByEmail, EmailsOK
<1>5. wallet[a].reset = m.token /\ a \in Address /\ wallet[a] # None
  BY <1>1 DEF ValidToken, ByEmail
<1>6. ChangeOK(r)
  BY <1>0, <1>3, <1>4, <1>5 DEF ChangeOK
<1>7. StageOK(r) /\ NewOK(r) /\ AgainOK(r) /\ SaveOK(r) /\ ~Resetting(r)
  BY <1>3 DEF StageOK, NewOK, AgainOK, AgainStage, SaveOK, Resetting
<1>8. \A d \in Call : Resetting(call[d]) => call[d].token # r.token
  BY <1>3, <1>5 DEF AccountsInv, CallsOK, ResettingOK
<1> QED BY <1>1, <1>2, <1>3, <1>6, <1>7, <1>8, NextStage DEF ChangeWithToken, Start, history

\* A change of a password starts with the password of the row.
LEMMA PasswordChangeStarts ==
  ASSUME AccountsInv, NEW c \in Call, NEW e \in Email, NEW q \in Password, NEW p \in Password,
         ChangeWithPassword(c, e, q, p)
  PROVE  AccountsInv'
<1>s. EmailsOK
  BY DEF AccountsInv, RowsOK
<1>1. PICK a \in ByEmail(e) :
        /\ wallet[a].password = q
        /\ Start(c, [NoCall EXCEPT !.at = "change", !.kind = "current", !.address = a, !.email = e,
                                   !.password = p, !.current = q])
  BY DEF ChangeWithPassword
<1>2. PICK r : r = [NoCall EXCEPT !.at = "change", !.kind = "current", !.address = a, !.email = e,
                                   !.password = p, !.current = q]
  OBVIOUS
<1>3. /\ IsCall(r) /\ r.at = "change" /\ r.kind = "current" /\ r.email = e /\ r.password = p
      /\ r.current = q /\ r.overtaken = FALSE
  BY ONLY <1>2 DEF NoCall, IsCall
<1>4. \A b \in ByEmail(e) : b = a
  BY <1>s, NoneIsNothing DEF ByEmail, EmailsOK
<1>5. ChangeOK(r)
  BY <1>1, <1>3, <1>4 DEF ChangeOK
<1>6. StageOK(r) /\ NewOK(r) /\ AgainOK(r) /\ SaveOK(r) /\ ~Resetting(r)
  BY <1>3 DEF StageOK, NewOK, AgainOK, AgainStage, SaveOK, Resetting
<1> QED BY <1>1, <1>2, <1>3, <1>5, <1>6, NextStage DEF ChangeWithPassword, Start, history

-----------------------------------------------------------------------------
(* The steps that write a row. *)

\* A call that is done has nothing to keep.
LEMMA WriterEnds ==
  ASSUME NEW c \in Call, call'[c] = NoCall
  PROVE  WriterOK(c)'
  BY NoCallIs DEF WriterOK, StageOK, Resetting, NewOK, AgainOK, AgainStage, SaveOK

\* A row that is written in place of one with the same e-mail address, token and reset, or none.
LEMMA RowFitsIn ==
  ASSUME AccountsInv, NEW c \in Call, NEW a \in Address, wallet[a] # None, NEW row \in WalletRow,
         row.email = wallet[a].email, row.token \in {None, wallet[a].token},
         row.verified = wallet[a].verified \/ row.token = None,
         row.sent = wallet[a].sent, row.reset \in {None, wallet[a].reset},
         UNCHANGED <<used, moved, renewed>>
  PROVE  RowFits(c, a, row) /\ RowWritten(c, a, row)
<1>k. EmailsOK /\ VerifiedOK /\ SentMeansMailed /\ ResetLinksGood /\ ResetsOK
  BY DEF AccountsInv, RowsOK
<1>1. RowWritten(c, a, row)
  BY DEF RowWritten
<1>2. row.email # None => \A b \in Address \ {a} : wallet[b] # None => wallet[b].email # row.email
  BY <1>k DEF EmailsOK
<1>3. a \notin moved /\ row.email = None => row.token = None /\ row.reset = None
  BY <1>k DEF EmailsOK
<1>4. a \notin renewed /\ row.verified => row.token = None
  BY <1>k DEF VerifiedOK
<1>5. a \notin moved \cup renewed /\ row.sent # None /\ row.token # None =>
        To(row.email, row.token) \in mailed
  BY <1>k DEF SentMeansMailed, To
<1>6. a \notin moved /\ row.reset # None => row.reset \notin used /\ To(row.email, row.reset) \in resets
  BY <1>k DEF ResetLinksGood, To
<1>7. row.reset # None =>
        row.reset \in Drawn /\ \A b \in Address \ {a} : wallet[b] # None => wallet[b].reset # row.reset
  BY <1>k DEF ResetsOK
<1> QED BY <1>1, <1>2, <1>3, <1>4, <1>5, <1>6, <1>7 DEF RowFits

\* The link of a verification mail was followed.
LEMMA VerifiedKeeps ==
  ASSUME AccountsInv, NEW c \in Call, MarkEmailVerified(c)
  PROVE  AccountsInv'
<1>s. Shaped /\ StageOK(call[c])
  BY DEF AccountsInv, CallsOK, Stages
<1>0. call[c].email \in Email /\ call[c].at = "verify"
  BY <1>s DEF StageOK, MarkEmailVerified
<1>u. UNCHANGED <<mailed, resets, drawn, used, moved, renewed>>
  BY DEF MarkEmailVerified, history
<1>1. ASSUME NEW a \in ByEmail(call[c].email), Write(c, a, Verified(Row(a)), NoCall)
      PROVE  AccountsInv'
  <2>1. PICK row : row = Verified(wallet[a])
    OBVIOUS
  <2>2. a \in Address /\ wallet[a] \in WalletRow /\ wallet[a] # None
    BY <1>s, <1>0, FoundRow
  <2>3. /\ row \in WalletRow /\ row.email = wallet[a].email /\ row.token = None
        /\ row.sent = wallet[a].sent /\ row.reset = wallet[a].reset
    BY <2>1, <2>2, RowVerified
  <2>4. RowFits(c, a, row) /\ RowWritten(c, a, row)
    BY <2>2, <2>3, <1>u, RowFitsIn
  <2>5. Write(c, a, row, NoCall)
    BY <1>1, <2>1, <2>2 DEF Row
  <2>6. call'[c] = NoCall
    BY <2>5 DEF Write
  <2>7. WriterOK(c)'
    BY <2>6, WriterEnds
  <2>8. Grown(c)
    BY <1>s, <1>u, AccountsAssumption DEF Grown, Shaped
  <2> QED BY <1>u, <2>2, <2>3, <2>4, <2>5, <2>7, <2>8, WriteKeeps
<1>2. ASSUME Proceed(c, NoCall), UNCHANGED wallet PROVE AccountsInv'
  BY <1>2, <1>u, Ends
<1>3. \/ \E a \in ByEmail(call[c].email) : Write(c, a, Verified(Row(a)), NoCall)
      \/ Proceed(c, NoCall) /\ UNCHANGED wallet
  BY DEF MarkEmailVerified, UpdateByEmail, ByEmail
<1> QED BY <1>1, <1>2, <1>3

\* The token of a reset that was mailed is put in the row of its address.
LEMMA RequestedKeeps ==
  ASSUME AccountsInv, NEW c \in Call, MarkPasswordResetRequested(c)
  PROVE  AccountsInv'
<1> DEFINE d == call[c]
<1>s. Shaped /\ ResettingOK(d) /\ EmailsOK /\ VerifiedOK /\ SentMeansMailed
  BY DEF AccountsInv, CallsOK, RowsOK
<1>0. /\ d.email \in Email /\ d.at = "reset" /\ d.token \in Drawn /\ d.token \in Token /\ d.token \notin used
      /\ To(d.email, d.token) \in resets
      /\ \A b \in Address : wallet[b] # None => wallet[b].reset # d.token
  BY <1>s DEF ResettingOK, Resetting, MarkPasswordResetRequested
<1>u. UNCHANGED <<mailed, resets, drawn, used, moved, renewed>>
  BY DEF MarkPasswordResetRequested, history
<1>1. ASSUME NEW a \in ByEmail(d.email),
             Write(c, a, [Row(a) EXCEPT !.reset = d.token, !.resetSent = "recent"], NoCall)
      PROVE  AccountsInv'
  <2>1. PICK row, t : t = d.token /\ row = [wallet[a] EXCEPT !.reset = t, !.resetSent = "recent"]
    OBVIOUS
  <2>2. a \in Address /\ wallet[a] \in WalletRow /\ wallet[a] # None /\ wallet[a].email = d.email
    BY <1>s, <1>0, FoundRow
  <2>3. /\ row \in WalletRow /\ row.email = wallet[a].email /\ row.token = wallet[a].token
        /\ row.verified = wallet[a].verified /\ row.sent = wallet[a].sent /\ row.reset = d.token
    <3>1. t \in Token /\ row = [wallet[a] EXCEPT !.reset = t, !.resetSent = "recent"]
      BY <2>1, <1>0
    <3>2. /\ row \in WalletRow /\ row.email = wallet[a].email /\ row.token = wallet[a].token
          /\ row.verified = wallet[a].verified /\ row.sent = wallet[a].sent /\ row.reset = t
      BY <2>2, <3>1 DEF WalletRow
    <3> QED BY <2>1, <3>2
  <2>4. RowWritten(c, a, row)
    BY <2>3, <1>0 DEF RowWritten, Resetting
  <2>5. RowFits(c, a, row)
    <3>1. \A b \in Address \ {a} : wallet[b] # None => wallet[b].email # row.email
      BY <2>2, <2>3, <1>0, <1>s, NoneIsNothing DEF EmailsOK
    <3>2. a \notin renewed /\ row.verified => row.token = None
      BY <2>2, <2>3, <1>s DEF VerifiedOK
    <3>3. a \notin moved \cup renewed /\ row.sent # None /\ row.token # None =>
            To(row.email, row.token) \in mailed
      BY <2>2, <2>3, <1>s DEF SentMeansMailed, To
    <3> QED BY <3>1, <3>2, <3>3, <2>2, <2>3, <1>0, <1>u, NoneIsNothing DEF RowFits
  <2>6. Write(c, a, row, NoCall)
    BY <1>1, <2>1, <2>2 DEF Row
  <2>7. call'[c] = NoCall
    BY <2>6 DEF Write
  <2>8. WriterOK(c)'
    BY <2>7, WriterEnds
  <2>9. Grown(c)
    BY <1>s, <1>u, AccountsAssumption DEF Grown, Shaped
  <2> QED BY <1>u, <2>2, <2>3, <2>4, <2>5, <2>6, <2>8, <2>9, WriteKeeps
<1>2. ASSUME Proceed(c, NoCall), UNCHANGED wallet PROVE AccountsInv'
  BY <1>2, <1>u, Ends
<1>3. \/ \E a \in ByEmail(d.email) :
           Write(c, a, [Row(a) EXCEPT !.reset = d.token, !.resetSent = "recent"], NoCall)
      \/ Proceed(c, NoCall) /\ UNCHANGED wallet
  BY DEF MarkPasswordResetRequested, UpdateByEmail, ByEmail
<1> QED BY <1>1, <1>2, <1>3

\* A password is changed; the token it was changed with is in no other row.
LEMMA ChangedKeeps ==
  ASSUME AccountsInv, NEW c \in Call, ChangePassword(c)
  PROVE  AccountsInv'
<1> DEFINE d == call[c]
<1>s. Shaped /\ ChangeOK(d) /\ EmailsOK /\ VerifiedOK /\ SentMeansMailed /\ ResetLinksGood /\ ResetsOK
  BY DEF AccountsInv, CallsOK, RowsOK
<1>0. /\ d.email \in Email /\ d.at = "change" /\ d.password \in Password
      /\ d.kind = "token" => d.token \in Drawn /\ To(d.email, d.token) \in resets
  BY <1>s DEF ChangeOK, ChangePassword
<1>u. UNCHANGED <<mailed, resets, drawn, moved, renewed>>
      /\ used' = IF d.kind = "token" /\ ByEmail(d.email) # {} THEN used \cup {d.token} ELSE used
  BY DEF ChangePassword
<1>1. ASSUME NEW a \in ByEmail(d.email), Write(c, a, Changed(Row(a), d.password), NoCall)
      PROVE  AccountsInv'
  <2>1. PICK row, p : p = d.password /\ row = Changed(wallet[a], p)
    OBVIOUS
  <2>2. a \in Address /\ wallet[a] \in WalletRow /\ wallet[a] # None /\ wallet[a].email = d.email
    BY <1>s, <1>0, FoundRow
  <2>3. p \in Password /\ row = Changed(wallet[a], p)
    BY <2>1, <1>0
  <2>4. /\ row \in WalletRow /\ row.email = wallet[a].email /\ row.token = wallet[a].token
        /\ row.verified = wallet[a].verified /\ row.sent = wallet[a].sent /\ row.reset = None
    BY <2>2, <2>3, RowChanged
  <2>5. RowWritten(c, a, row)
    BY <2>4 DEF RowWritten
  <2>6. RowFits(c, a, row)
    <3>1. row.email # None => \A b \in Address \ {a} : wallet[b] # None => wallet[b].email # row.email
      BY <2>2, <2>4, <1>s DEF EmailsOK
    <3>2. a \notin moved /\ row.email = None => row.token = None
      BY <2>2, <2>4, <1>s DEF EmailsOK
    <3>3. a \notin renewed /\ row.verified => row.token = None
      BY <2>2, <2>4, <1>s DEF VerifiedOK
    <3>4. a \notin moved \cup renewed /\ row.sent # None /\ row.token # None =>
            To(row.email, row.token) \in mailed
      BY <2>2, <2>4, <1>s DEF SentMeansMailed, To
    <3>5. ASSUME d.kind = "token", NEW b \in Address \ (moved \cup {a}), wallet[b] # None,
                 wallet[b].reset = d.token
          PROVE  FALSE
      <4>1. d.token # None
        BY <3>5, <1>0, <1>s, DrawnTokens, NoneIsNothing DEF Shaped
      <4>2. To(wallet[b].email, d.token) \in resets
        BY <3>5, <4>1, <1>s DEF ResetLinksGood, To
      <4>3. To(wallet[b].email, d.token).token = To(d.email, d.token).token
        BY DEF To
      <4>4. To(wallet[b].email, d.token) = To(d.email, d.token)
        BY <3>5, <4>2, <4>3, <1>0, <1>s DEF ResetsOK
      <4>5. wallet[b].email = d.email
        BY <4>4 DEF To
      <4> QED BY <3>5, <4>5, <2>2, <1>0, <1>s, NoneIsNothing DEF EmailsOK
    <3>6. used' # used => d.kind = "token" /\ d.token \in Drawn
      BY <1>u, <1>0
    <3> QED BY <3>1, <3>2, <3>3, <3>4, <3>5, <3>6, <2>4, <1>u DEF RowFits
  <2>7. Write(c, a, row, NoCall)
    BY <1>1, <2>1, <2>2 DEF Row
  <2>8. call'[c] = NoCall
    BY <2>7 DEF Write
  <2>9. WriterOK(c)'
    BY <2>8, WriterEnds
  <2>10. Grown(c)
    BY <1>s, <1>u, <1>0, AccountsAssumption DEF Grown, Shaped
  <2> QED BY <1>u, <2>2, <2>4, <2>5, <2>6, <2>7, <2>9, <2>10, WriteKeeps
<1>2. ASSUME Proceed(c, NoCall), UNCHANGED wallet, ByEmail(d.email) = {} PROVE AccountsInv'
  <2>1. used' = used
    BY <1>2, <1>u
  <2> QED BY <1>2, <2>1, <1>u, Ends
<1>3. \/ \E a \in ByEmail(d.email) : Write(c, a, Changed(Row(a), d.password), NoCall)
      \/ Proceed(c, NoCall) /\ UNCHANGED wallet /\ ByEmail(d.email) = {}
  BY DEF ChangePassword, UpdateByEmail, ByEmail
<1> QED BY <1>1, <1>2, <1>3

\* insertWallet.
LEMMA InsertKeeps ==
  ASSUME AccountsInv, NEW c \in Call, NEW a \in Address, InsertWallet(c, a)
  PROVE  AccountsInv'
<1> DEFINE d == call[c]
<1>s. Shaped /\ NewOK(d) /\ StageOK(d)
  BY DEF AccountsInv, CallsOK, Stages
<1>0. /\ d.email \in Email /\ d.password \in Password /\ d.token \in Token /\ d.flag \in BOOLEAN
      /\ d.flag => To(d.email, d.token) \in mailed
      /\ wallet[a] = None /\ d.at = "insert"
  BY <1>s DEF NewOK, StageOK, InsertWallet
<1>u. UNCHANGED <<mailed, resets, drawn, used, moved, renewed>>
  BY DEF InsertWallet, history
<1>1. ASSUME ByEmail(d.email) = {},
             Write(c, a, [Blank EXCEPT !.email = d.email, !.password = d.password,
                                       !.token = d.token, !.sent = Sent(c)], NoCall)
      PROVE  AccountsInv'
  <2>1. PICK row, s : s = Sent(c) /\ row = [Blank EXCEPT !.email = d.email, !.password = d.password,
                                                          !.token = d.token, !.sent = s]
    OBVIOUS
  <2>2. s \in {None, "recent"} /\ (s = None \/ To(d.email, d.token) \in mailed)
    BY <2>1, <1>0 DEF Sent
  <2>3. /\ IsRow(row) /\ row.email = d.email /\ row.auditor = FALSE /\ row.verified = FALSE
        /\ row.password = d.password /\ row.token = d.token /\ row.sent = s /\ row.reset = None
        /\ row.resetSent = None
    BY ONLY <2>1 DEF Blank, IsRow
  <2>4. row \in WalletRow
    BY <2>2, <2>3, <1>0, RowOfFields
  <2>5. RowWritten(c, a, row)
    BY <2>3, <1>0 DEF RowWritten
  <2>6. RowFits(c, a, row)
    BY <2>2, <2>3, <1>0, <1>1, <1>u, NoneIsNothing DEF RowFits, ByEmail
  <2>7. Write(c, a, row, NoCall)
    BY <1>1, <2>1
  <2>8. call'[c] = NoCall
    BY <2>7 DEF Write
  <2>9. WriterOK(c)'
    BY <2>8, WriterEnds
  <2>10. Grown(c)
    BY <1>s, <1>u, AccountsAssumption DEF Grown, Shaped
  <2> QED BY <1>u, <2>4, <2>5, <2>6, <2>7, <2>9, <2>10, WriteKeeps
<1>2. ASSUME Proceed(c, NoCall), UNCHANGED wallet PROVE AccountsInv'
  BY <1>2, <1>u, Ends
<1> QED BY <1>1, <1>2 DEF InsertWallet

\* sendVerificationEmail draws another token: the row counts as sent before the mail.
LEMMA RenewedKeeps ==
  ASSUME AccountsInv, NEW c \in Call, RenewToken(c)
  PROVE  AccountsInv'
<1> DEFINE d == call[c]
<1>s. Shaped /\ AgainOK(d) /\ StageOK(d) /\ EmailsOK /\ ResetLinksGood /\ ResetsOK /\ IsCall(d)
  BY DEF AccountsInv, CallsOK, RowsOK, Stages, Shaped
<1>0. /\ d.at = "renew" /\ d.kind = "again" /\ d.email \in Email /\ d.password \in Password
      /\ d.address \in Address /\ d.flag = FALSE /\ d.found = None /\ d.overtaken \in BOOLEAN
      /\ d.token \in Token \cup {None}
      /\ d.address \notin moved \cup renewed => wallet[d.address] # None /\ wallet[d.address].email = d.email
      /\ ~d.overtaken => wallet[d.address] # None /\ wallet[d.address].email = d.email
  BY <1>s DEF AgainOK, AgainStage, StageOK, RenewToken
<1>u. UNCHANGED <<mailed, resets, used, moved>>
  BY DEF RenewToken
<1>1. ASSUME NEW a \in ByEmail(d.email), Draw(MaxVerifications), renewed' = renewed \cup {a},
             Write(c, a, [wallet[a] EXCEPT !.token = drawn', !.sent = "recent"],
                   [d EXCEPT !.at = "mail", !.token = drawn'])
      PROVE  AccountsInv'
  <2>1. PICK t, row, r : /\ t = drawn' /\ row = [wallet[a] EXCEPT !.token = t, !.sent = "recent"]
                         /\ r = [d EXCEPT !.at = "mail", !.token = t]
    OBVIOUS
  <2>2. a \in Address /\ wallet[a] \in WalletRow /\ wallet[a] # None /\ wallet[a].email = d.email
        /\ d.email # None
    BY <1>s, <1>0, FoundRow
  <2>3. drawn' = drawn + 1 /\ drawn' \in 0 .. MaxTokens /\ t \in Token
    BY <1>1, <2>1, <1>s, AccountsAssumption DEF Draw, Shaped, Token
  <2>4. /\ row \in WalletRow /\ row.email = wallet[a].email /\ row.token = t
        /\ row.verified = wallet[a].verified /\ row.sent = "recent" /\ row.reset = wallet[a].reset
    BY <2>1, <2>2, <2>3 DEF WalletRow
  <2>5. /\ IsCall(r) /\ r.at = "mail" /\ r.kind = d.kind /\ r.address = d.address
        /\ r.email = d.email /\ r.password = d.password /\ r.token = t
        /\ r.found = d.found /\ r.overtaken = d.overtaken /\ r.flag = d.flag
    BY ONLY <2>1, <1>s DEF IsCall
  <2>6. Write(c, a, row, r)
    BY <1>1, <2>1
  <2>7. wallet'[a] = row /\ call'[c] = r /\ \A b \in Address \ {a} : wallet'[b] = wallet[b]
    BY <2>6, <1>s, <2>2 DEF Write, Shaped
  <2>8. Grown(c)
    BY <1>s, <1>u, <1>1, <2>3, AccountsAssumption DEF Grown, Shaped
  <2>9. RowWritten(c, a, row)
    BY <1>1, <2>2, <2>4 DEF RowWritten
  <2>10. RowFits(c, a, row)
    <3>1. \A b \in Address \ {a} : wallet[b] # None => wallet[b].email # row.email
      BY <2>2, <2>4, <1>s DEF EmailsOK
    <3>2. a \notin moved /\ row.reset # None => row.reset \notin used /\ To(row.email, row.reset) \in resets
      BY <2>2, <2>4, <1>s DEF ResetLinksGood, To
    <3>3. row.reset # None =>
            row.reset \in Drawn /\ \A b \in Address \ {a} : wallet[b] # None => wallet[b].reset # row.reset
      BY <2>2, <2>4, <1>s DEF ResetsOK
    <3> QED BY <3>1, <3>2, <3>3, <2>2, <2>4, <1>1, <1>u DEF RowFits
  <2>11. d.address \notin moved \cup renewed \/ ~d.overtaken => d.address = a
    BY <1>0, <1>s, <2>2 DEF EmailsOK
  <2>12. AgainOK(call[c])'
    <3>1. d.address \in moved' \cup renewed'
      BY <2>11, <1>1, <1>u
    <3>2. ~r.overtaken => wallet'[d.address] # None /\ wallet'[d.address].email = d.email /\ d.address \in renewed'
      BY <2>2, <2>4, <2>5, <2>7, <2>11, <1>1, RowFields
    <3> QED BY <3>1, <3>2, <2>3, <2>5, <2>7, <1>0 DEF AgainOK
  <2>13. WriterOK(c)'
    BY <2>5, <2>7, <2>12, <1>0 DEF WriterOK, StageOK, NewOK, SaveOK, Resetting
  <2> QED BY <1>u, <2>2, <2>4, <2>6, <2>8, <2>9, <2>10, <2>13, WriteKeeps
<1>2. ASSUME Proceed(c, [d EXCEPT !.at = "find"]), UNCHANGED <<wallet, drawn, renewed>>,
             ByEmail(d.email) = {}
      PROVE  AccountsInv'
  <2>1. PICK r : r = [d EXCEPT !.at = "find"]
    OBVIOUS
  <2>2. /\ IsCall(r) /\ r.at = "find" /\ r.kind = d.kind /\ r.address = d.address
        /\ r.email = d.email /\ r.password = d.password /\ r.token = d.token
        /\ r.found = d.found /\ r.overtaken = d.overtaken /\ r.flag = d.flag
    BY ONLY <2>1, <1>s DEF IsCall
  <2>3. d.overtaken /\ d.address \in moved \cup renewed
    BY <1>0, <1>2 DEF ByEmail
  <2>4. StageOK(r) /\ NewOK(r) /\ AgainOK(r) /\ SaveOK(r) /\ ChangeOK(r) /\ ~Resetting(r)
    BY <2>2, <2>3, <1>0 DEF StageOK, NewOK, AgainOK, AgainStage, SaveOK, ChangeOK, Resetting
  <2> QED BY <1>2, <1>u, <2>1, <2>2, <2>4, NextStage DEF Proceed
<1> QED BY <1>1, <1>2 DEF RenewToken

\* A row without columns, as far as a save is concerned.
LEMMA RowOf ==
  ASSUME Shaped, NEW a \in Address
  PROVE  /\ Row(a) \in WalletRow
         /\ wallet[a] = None =>
              /\ Row(a).email = None /\ ~Row(a).verified /\ Row(a).token = None /\ Row(a).sent = None
              /\ Row(a).reset = None /\ Row(a).auditor = FALSE /\ Row(a).password = None
         /\ wallet[a] # None => Row(a) = wallet[a]
<1>1. /\ IsRow(Blank) /\ Blank.email = None /\ Blank.auditor = FALSE /\ Blank.verified = FALSE
      /\ Blank.password = None /\ Blank.token = None /\ Blank.sent = None /\ Blank.reset = None
      /\ Blank.resetSent = None
  BY DEF Blank, IsRow
<1>2. Blank \in WalletRow
  BY <1>1, RowOfFields
<1> QED BY <1>1, <1>2 DEF Row, Shaped

\* What a save writes: the columns of the row, with those read before it and those that are given.
LEMMA SavedIs ==
  ASSUME AccountsInv, NEW c \in Call, call[c].at = "save", NEW a, a = call[c].address,
         NEW row, row = Saved(c), NEW w, w = Row(a)
  PROVE  /\ a \in Address /\ row \in WalletRow /\ w \in WalletRow
         /\ row.verified = w.verified /\ row.token = w.token /\ row.reset = w.reset
         /\ call[c].kind \in {"sync", "update"} => row.sent = w.sent /\ row.password = w.password
         /\ call[c].kind = "sync" =>
              /\ row.auditor = call[c].flag
              /\ row.email = IF call[c].found = None THEN w.email ELSE call[c].found.email
         /\ call[c].kind = "update" =>
              /\ row.email = call[c].email
              /\ row.auditor = IF call[c].found = None THEN w.auditor ELSE call[c].found.auditor
         /\ call[c].kind = "again" =>
              /\ row.sent = IF call[c].flag THEN "recent" ELSE w.sent
              /\ row.password = call[c].password
              /\ row.email = IF call[c].found = None THEN w.email ELSE call[c].found.email
              /\ row.auditor = IF call[c].found = None THEN w.auditor ELSE call[c].found.auditor
         /\ row.resetSent = w.resetSent
<1> DEFINE d == call[c]
<1>k. Shaped /\ SaveOK(d) /\ AgainOK(d)
  BY DEF AccountsInv, CallsOK
<1>0. /\ d.kind \in {"sync", "update", "again"} /\ a \in Address /\ d.flag \in BOOLEAN
      /\ d.kind = "update" => d.email \in Email
      /\ d.kind = "again" => d.password \in Password
      /\ d.found # None => d.found.email \in Email \cup {None} /\ d.found.auditor \in BOOLEAN
  BY <1>k DEF SaveOK, AgainOK, AgainStage
<1>1. w \in WalletRow
  BY <1>0, <1>k, RowOf
<1>2. /\ IsRow(w)
      /\ w.email \in Email \cup {None} /\ w.auditor \in BOOLEAN /\ w.verified \in BOOLEAN
      /\ w.password \in Password \cup {None} /\ w.token \in Token \cup {None}
      /\ w.sent \in {None, "recent", "old"} /\ w.reset \in Token \cup {None}
      /\ w.resetSent \in {None, "recent", "old", "expired"}
  BY <1>1, RowFields
<1>3. PICK e, o : /\ e = IF d.found = None THEN w.email ELSE d.found.email
                  /\ o = IF d.found = None THEN w.auditor ELSE d.found.auditor
  OBVIOUS
<1>4. PICK was : was = IF d.found = None THEN w ELSE [w EXCEPT !.email = d.found.email, !.auditor = d.found.auditor]
  OBVIOUS
<1>5. /\ IsRow(was) /\ was.email = e /\ was.auditor = o /\ was.verified = w.verified
      /\ was.password = w.password /\ was.token = w.token /\ was.sent = w.sent
      /\ was.reset = w.reset /\ was.resetSent = w.resetSent
  <2>1. CASE d.found = None
    BY <2>1, <1>2, <1>3, <1>4
  <2>2. CASE d.found # None
    <3>1. was = [w EXCEPT !.email = d.found.email, !.auditor = d.found.auditor] /\ e = d.found.email /\ o = d.found.auditor
      BY <2>2, <1>3, <1>4
    <3>2. PICK f : f = d.found
      OBVIOUS
    <3>3. was = [w EXCEPT !.email = e, !.auditor = o]
      BY <3>1
    <3> QED BY ONLY <3>3, <1>2 DEF IsRow
  <2> QED BY <2>1, <2>2
<1>6. e \in Email \cup {None} /\ o \in BOOLEAN
  BY <1>0, <1>2, <1>3
<1>7. row = CASE d.kind = "sync" -> [was EXCEPT !.auditor = d.flag]
              [] d.kind = "update" -> [was EXCEPT !.email = d.email]
              [] d.kind = "again" -> [was EXCEPT !.password = d.password, !.sent = IF d.flag THEN "recent" ELSE @]
  BY <1>4 DEF Saved
<1>8. CASE d.kind = "sync"
  <2>1. row = [was EXCEPT !.auditor = d.flag]
    BY <1>7, <1>8
  <2>2. /\ IsRow(row) /\ row.email = e /\ row.auditor = d.flag /\ row.verified = w.verified
        /\ row.password = w.password /\ row.token = w.token /\ row.sent = w.sent
        /\ row.reset = w.reset /\ row.resetSent = w.resetSent
    BY ONLY <2>1, <1>5 DEF IsRow
  <2>3. row \in WalletRow
    BY <2>2, <1>0, <1>2, <1>6, RowOfFields
  <2> QED BY <2>2, <2>3, <1>0, <1>1, <1>3, <1>8
<1>9. CASE d.kind = "update"
  <2>1. row = [was EXCEPT !.email = d.email]
    BY <1>7, <1>9
  <2>2. /\ IsRow(row) /\ row.email = d.email /\ row.auditor = o /\ row.verified = w.verified
        /\ row.password = w.password /\ row.token = w.token /\ row.sent = w.sent
        /\ row.reset = w.reset /\ row.resetSent = w.resetSent
    BY ONLY <2>1, <1>5 DEF IsRow
  <2>3. row \in WalletRow
    BY <2>2, <1>0, <1>2, <1>6, <1>9, RowOfFields
  <2> QED BY <2>2, <2>3, <1>0, <1>1, <1>3, <1>9
<1>10. CASE d.kind = "again"
  <2>1. PICK s, p : s = (IF d.flag THEN "recent" ELSE w.sent) /\ p = d.password
    OBVIOUS
  <2>2. row = [was EXCEPT !.password = d.password, !.sent = IF d.flag THEN "recent" ELSE @]
    BY <1>7, <1>10
  <2>3. row = [was EXCEPT !.password = p, !.sent = s]
    BY <2>1, <2>2, <1>5
  <2>4. /\ IsRow(row) /\ row.email = e /\ row.auditor = o /\ row.verified = w.verified
        /\ row.password = p /\ row.token = w.token /\ row.sent = s
        /\ row.reset = w.reset /\ row.resetSent = w.resetSent
    BY ONLY <2>3, <1>5 DEF IsRow
  <2>5. s \in {None, "recent", "old"} /\ p \in Password
    BY <2>1, <1>0, <1>2, <1>10
  <2>6. row \in WalletRow
    BY <2>4, <2>5, <1>2, <1>6, RowOfFields
  <2> QED BY <2>1, <2>4, <2>6, <1>0, <1>1, <1>3, <1>10
<1> QED BY <1>0, <1>8, <1>9, <1>10

\* saveWallet, unless the address it saves is that of another row.
LEMMA SaveKeeps ==
  ASSUME AccountsInv, NEW c \in Call, SaveWallet(c)
  PROVE  AccountsInv'
<1> DEFINE d == call[c]
<1>s. Shaped /\ AgainOK(d) /\ EmailsOK /\ VerifiedOK /\ SentMeansMailed /\ ResetLinksGood /\ ResetsOK
      /\ d.at = "save"
  BY DEF AccountsInv, CallsOK, RowsOK, SaveWallet
<1>u. UNCHANGED <<mailed, resets, drawn, used, renewed>>
  BY DEF SaveWallet
<1>1. PICK a, row, w : a = d.address /\ row = Saved(c) /\ w = Row(a)
  OBVIOUS
<1>2. /\ a \in Address /\ row \in WalletRow /\ w \in WalletRow
      /\ row.verified = w.verified /\ row.token = w.token /\ row.reset = w.reset
      /\ d.kind \in {"sync", "update"} => row.sent = w.sent
      /\ d.kind = "again" => row.sent = IF d.flag THEN "recent" ELSE w.sent
  BY <1>1, <1>s, SavedIs
<1>3. d.kind \in {"sync", "update", "again"}
  BY <1>s DEF AccountsInv, CallsOK, SaveOK
<1>4. /\ wallet[a] = None =>
           w.email = None /\ ~w.verified /\ w.token = None /\ w.sent = None /\ w.reset = None
      /\ wallet[a] # None => w = wallet[a]
  BY <1>1, <1>2, <1>s, RowOf
<1>5. ASSUME ~(row.email # None /\ ByEmail(row.email) \ {a} # {}), Write(c, a, row, NoCall),
             moved' = IF w.email \in {None, row.email} THEN moved ELSE moved \cup {a}
      PROVE  AccountsInv'
  <2>1. moved \subseteq moved' /\ (a \notin moved' => a \notin moved /\ w.email \in {None, row.email})
    BY <1>5
  <2>2. a \notin moved /\ w.email = None => w.token = None /\ w.reset = None
    BY <1>2, <1>4, <1>s DEF EmailsOK
  <2>3. RowWritten(c, a, row)
    <3>1. row.reset = None \/ (wallet[a] # None /\ row.reset = wallet[a].reset)
      BY <1>2, <1>4
    <3>2. wallet[a] # None /\ wallet[a].email # None /\ a \notin moved' \cup renewed' =>
            row.email = wallet[a].email /\ row.token \in {None, wallet[a].token}
      BY <1>2, <1>4, <2>1
    <3> QED BY <3>1, <3>2 DEF RowWritten
  <2>4. RowFits(c, a, row)
    <3>1. row.email # None => \A b \in Address \ {a} : wallet[b] # None => wallet[b].email # row.email
      BY <1>5 DEF ByEmail
    <3>2. a \notin moved' /\ row.email = None => row.token = None /\ row.reset = None
      BY <2>1, <2>2, <1>2
    <3>3. a \notin renewed /\ row.verified => row.token = None
      BY <1>2, <1>4, <1>s DEF VerifiedOK
    <3>4. ASSUME a \notin moved' \cup renewed', row.sent # None, row.token # None
          PROVE  To(row.email, row.token) \in mailed
      <4>1. a \notin moved \cup renewed /\ wallet[a] # None /\ w = wallet[a] /\ row.email = wallet[a].email
            /\ row.token = wallet[a].token
        BY <3>4, <1>2, <1>4, <1>u, <2>1, <2>2
      <4>2. CASE row.sent = w.sent
        BY <4>1, <4>2, <3>4, <1>2, <1>s DEF SentMeansMailed, To
      <4>3. CASE d.kind = "again" /\ d.flag
        <5>1. wallet[a].email = d.email /\ wallet[a].token \in {None, d.token}
              /\ To(d.email, d.token) \in mailed
          BY <4>1, <4>3, <1>1, <1>s DEF AgainOK, AgainStage
        <5> QED BY <4>1, <5>1, <3>4
      <4>4. d.kind = "again" /\ ~d.flag => row.sent = w.sent
        BY <1>2
      <4> QED BY <4>2, <4>3, <4>4, <1>2, <1>3
    <3>5. ASSUME a \notin moved', row.reset # None
          PROVE  row.reset \notin used' /\ To(row.email, row.reset) \in resets
      <4>1. a \notin moved /\ wallet[a] # None /\ w = wallet[a] /\ row.email = wallet[a].email
            /\ row.reset = wallet[a].reset
        BY <3>5, <1>2, <1>4, <2>1, <2>2
      <4> QED BY <4>1, <3>5, <1>u, <1>2, <1>s DEF ResetLinksGood, To
    <3>6. row.reset # None =>
            row.reset \in Drawn /\ \A b \in Address \ {a} : wallet[b] # None => wallet[b].reset # row.reset
      BY <1>2, <1>4, <1>s DEF ResetsOK
    <3> QED BY <3>1, <3>2, <3>3, <3>4, <3>5, <3>6, <1>u DEF RowFits
  <2>5. call'[c] = NoCall
    BY <1>5 DEF Write
  <2>6. WriterOK(c)'
    BY <2>5, WriterEnds
  <2>7. Grown(c)
    BY <1>s, <1>u, <2>1, AccountsAssumption DEF Grown, Shaped
  <2> QED BY <1>u, <1>2, <1>5, <2>3, <2>4, <2>6, <2>7, WriteKeeps
<1>6. ASSUME Proceed(c, NoCall), UNCHANGED <<wallet, moved>> PROVE AccountsInv'
  BY <1>6, <1>u, Ends
<1>7. \/ Proceed(c, NoCall) /\ UNCHANGED <<wallet, moved>>
      \/ /\ ~(row.email # None /\ ByEmail(row.email) \ {a} # {}) /\ Write(c, a, row, NoCall)
         /\ moved' = IF w.email \in {None, row.email} THEN moved ELSE moved \cup {a}
  BY <1>1 DEF SaveWallet
<1> QED BY <1>5, <1>6, <1>7

\* Stamps grow old.
LEMMA TimeKeeps ==
  ASSUME AccountsInv, TimePasses
  PROVE  AccountsInv'
<1>s. Shaped /\ EmailsOK /\ VerifiedOK /\ SentMeansMailed /\ ResetLinksGood /\ ResetsOK
  BY DEF AccountsInv, RowsOK
<1>u. UNCHANGED <<call, mailed, resets, drawn, used, moved, renewed>>
  BY DEF TimePasses, history
<1>0. wallet' = [a \in Address |-> wallet'[a]]
  BY DEF TimePasses
<1>1. ASSUME NEW a \in Address, wallet[a] # None
      PROVE  /\ wallet'[a] # None /\ wallet'[a] \in WalletRow
             /\ wallet'[a].email = wallet[a].email /\ wallet'[a].auditor = wallet[a].auditor
             /\ wallet'[a].verified = wallet[a].verified /\ wallet'[a].password = wallet[a].password
             /\ wallet'[a].token = wallet[a].token /\ wallet'[a].reset = wallet[a].reset
             /\ wallet'[a].sent = None <=> wallet[a].sent = None
  <2>1. PICK w : w = wallet[a] /\ w \in WalletRow
    BY <1>1, <1>s DEF Shaped
  <2>2. PICK s, t : s = OlderMail(w.sent) /\ t = Older(w.resetSent)
    OBVIOUS
  <2>3. wallet'[a] = [w EXCEPT !.sent = s, !.resetSent = t]
    BY <1>1, <2>1, <2>2 DEF TimePasses
  <2>4. s \in {None, "recent", "old"} /\ t \in {None, "recent", "old", "expired"}
        /\ (s = None <=> w.sent = None)
    BY <2>1, <2>2, RowFields, AccountsAssumption DEF OlderMail, Older
  <2>5. /\ wallet'[a] \in WalletRow
        /\ wallet'[a].email = w.email /\ wallet'[a].auditor = w.auditor
        /\ wallet'[a].verified = w.verified /\ wallet'[a].password = w.password
        /\ wallet'[a].token = w.token /\ wallet'[a].reset = w.reset /\ wallet'[a].sent = s
    BY <2>1, <2>3, <2>4 DEF WalletRow
  <2>6. wallet'[a] # None
    BY <2>5, NoneAssumption
  <2> QED BY <2>1, <2>4, <2>5, <2>6
<1>2. \A a \in Address : wallet[a] = None => wallet'[a] = None
  BY DEF TimePasses
<1>3. Shaped'
  BY <1>0, <1>1, <1>2, <1>s, <1>u DEF Shaped
<1>4. EmailsOK' /\ VerifiedOK'
  BY <1>1, <1>2, <1>s, <1>u DEF EmailsOK, VerifiedOK
<1>5. SentMeansMailed' /\ ResetLinksGood'
  BY <1>1, <1>2, <1>s, <1>u DEF SentMeansMailed, ResetLinksGood
<1>6. ResetsOK'
  BY <1>1, <1>2, <1>s, <1>u DEF ResetsOK, Drawn
<1>7. CallsOK'
  <2>0. Stages /\ \A d \in Call : NewOK(call[d]) /\ AgainOK(call[d]) /\ SaveOK(call[d])
                                  /\ ChangeOK(call[d]) /\ ResettingOK(call[d])
    BY DEF AccountsInv, CallsOK
  <2>1. ASSUME NEW d \in Call
        PROVE  /\ NewOK(call[d])' /\ AgainOK(call[d])' /\ SaveOK(call[d])'
               /\ ChangeOK(call[d])' /\ ResettingOK(call[d])'
    <3>1. NewOK(call[d])'
      BY <2>0, <1>u DEF NewOK
    <3>2. AgainOK(call[d])'
      BY <2>0, <1>1, <1>2, <1>u DEF AgainOK
    <3>3. \A a \in Address : Found(a)' = Found(a)
      BY <1>1, <1>2 DEF Found, Public
    <3>4. SaveOK(call[d])'
      BY <2>0, <3>3, <1>u DEF SaveOK
    <3>5. ChangeOK(call[d])'
      BY <2>0, <1>1, <1>2, <1>u DEF ChangeOK, ByEmail, Drawn
    <3>6. ResettingOK(call[d])'
      BY <2>0, <1>1, <1>2, <1>u DEF ResettingOK, Resetting, Drawn
    <3> QED BY <3>1, <3>2, <3>4, <3>5, <3>6
  <2>2. Stages'
    BY <2>0, <1>u DEF Stages, StageOK
  <2>3. (\A d, e \in Call :
           d # e /\ Resetting(call[d])
             /\ (Resetting(call[e]) \/ (call[e].at = "change" /\ call[e].kind = "token")) =>
           call[d].token # call[e].token)'
    BY <1>u DEF AccountsInv, CallsOK, Resetting
  <2> QED BY <2>1, <2>2, <2>3 DEF CallsOK
<1> QED BY <1>3, <1>4, <1>5, <1>6, <1>7 DEF AccountsInv, RowsOK

-----------------------------------------------------------------------------
(* The invariant. *)

\* At the start there is no row and no call.
LEMMA InitAccounts == ASSUME Init PROVE AccountsInv
<1>1. /\ \A a \in Address : wallet[a] = None
      /\ \A c \in Call : call[c] = NoCall
      /\ mailed = {} /\ resets = {} /\ drawn = 0 /\ used = {} /\ moved = {} /\ renewed = {}
  BY DEF Init
<1>2. Shaped
  BY NoCallIs, AccountsAssumption DEF Shaped, Init
<1>3. RowsOK
  BY <1>1 DEF RowsOK, EmailsOK, VerifiedOK, SentMeansMailed, ResetLinksGood, ResetsOK
<1>4. CallsOK
  BY <1>1, NoCallIs DEF CallsOK, Stages, StageOK, NewOK, AgainOK, AgainStage, SaveOK, ChangeOK,
                        ResettingOK, Resetting
<1> QED BY <1>2, <1>3, <1>4 DEF AccountsInv

\* Every step keeps it.
LEMMA NextAccounts == ASSUME AccountsInv, [Next]_vars PROVE AccountsInv'
<1>1. ASSUME NEW c \in Call, SigningUp(c) PROVE AccountsInv'
  BY <1>1, NewStarts, AgainStarts, RenewedKeeps, VerificationSent, InsertKeeps DEF SigningUp
<1>2. ASSUME NEW c \in Call, Saving(c) PROVE AccountsInv'
  BY <1>2, SyncStarts, UpdateStarts, FindKeeps, SaveKeeps DEF Saving
<1>3. ASSUME NEW c \in Call, Linking(c) PROVE AccountsInv'
  BY <1>3, VerifyStarts, VerifiedKeeps, ResetStarts, ResetSent, RequestedKeeps, TokenChangeStarts,
     PasswordChangeStarts, ChangedKeeps DEF Linking
<1>4. ASSUME NEW c \in Call, CallFails(c) PROVE AccountsInv'
  BY <1>4, Ends DEF CallFails, history
<1>5. ASSUME TimePasses PROVE AccountsInv'
  BY <1>5, TimeKeeps
<1>6. ASSUME UNCHANGED vars PROVE AccountsInv'
  <2>1. /\ Shaped' /\ RowsOK' /\ EmailsOK' /\ VerifiedOK' /\ SentMeansMailed' /\ ResetLinksGood' /\ ResetsOK'
    BY <1>6 DEF vars, history, AccountsInv, Shaped, RowsOK, EmailsOK, VerifiedOK, SentMeansMailed,
                ResetLinksGood, ResetsOK, Resetting, Drawn, Found, ByEmail
  <2>2. CallsOK'
    <3>1. Stages'
      BY <1>6 DEF vars, history, AccountsInv, CallsOK, Stages, StageOK
    <3>2. \A c \in Call : (NewOK(call[c]) /\ AgainOK(call[c]))'
      BY <1>6 DEF vars, history, AccountsInv, CallsOK, NewOK, AgainOK
    <3>3. \A c \in Call : (SaveOK(call[c]) /\ ChangeOK(call[c]))'
      BY <1>6 DEF vars, history, AccountsInv, CallsOK, SaveOK, ChangeOK, Drawn, Found, ByEmail
    <3>4. \A c \in Call : ResettingOK(call[c])'
      BY <1>6 DEF vars, history, AccountsInv, CallsOK, ResettingOK, Resetting, Drawn
    <3>5. \A c, d \in Call :
            c # d /\ Resetting(call'[c])
              /\ (Resetting(call'[d]) \/ (call'[d].at = "change" /\ call'[d].kind = "token")) =>
            call'[c].token # call'[d].token
      BY <1>6 DEF vars, AccountsInv, CallsOK
    <3> QED BY <3>1, <3>2, <3>3, <3>4, <3>5 DEF CallsOK, Resetting
  <2> QED BY <2>1, <2>2, <1>6 DEF AccountsInv, vars, history
<1> QED BY <1>1, <1>2, <1>3, <1>4, <1>5, <1>6 DEF Next

\* AccountsInv is an invariant of the accounts.
THEOREM AccountsInvariant == Spec => []AccountsInv
<1>1. Init => AccountsInv
  BY InitAccounts
<1>2. AccountsInv /\ [Next]_vars => AccountsInv'
  BY NextAccounts
<1> QED BY <1>1, <1>2, PTL DEF Spec

\* Rows have their types and no e-mail address is on two of them.
THEOREM AccountsTyped == Spec => []AccountsTypeOK
<1>1. AccountsInv => AccountsTypeOK
  <2> SUFFICES ASSUME AccountsInv PROVE AccountsTypeOK
    OBVIOUS
  <2>1. ASSUME NEW e \in Email PROVE Cardinality(ByEmail(e)) <= 1
    <3>1. \A a, b \in ByEmail(e) : a = b
      BY NoneIsNothing DEF ByEmail, AccountsInv, RowsOK, EmailsOK
    <3>2. CASE ByEmail(e) = {}
      BY <3>2, FS_EmptySet
    <3>3. CASE ByEmail(e) # {}
      <4>1. PICK a : a \in ByEmail(e)
        BY <3>3
      <4>2. ByEmail(e) = {a}
        BY <4>1, <3>1
      <4>3. Cardinality({a}) = 1
        BY FS_Singleton
      <4> QED BY <4>2, <4>3
    <3> QED BY <3>2, <3>3
  <2> QED BY <2>1 DEF AccountsInv, Shaped, AccountsTypeOK
<1> QED BY <1>1, AccountsInvariant, PTL

\* A wallet that counts as mailed has a link that was mailed to it.
THEOREM SentWasMailed == Spec => []SentMeansMailed
<1>1. AccountsInv => SentMeansMailed
  BY DEF AccountsInv, RowsOK
<1> QED BY <1>1, AccountsInvariant, PTL

\* A reset link that works was mailed to the wallet's address and has not been used.
THEOREM ResetLinksWork == Spec => []ResetLinksGood
<1>1. AccountsInv => ResetLinksGood
  BY DEF AccountsInv, RowsOK
<1> QED BY <1>1, AccountsInvariant, PTL

-----------------------------------------------------------------------------
(* What a step may do to a row. *)

\* A step of a call leaves all calls but its own at their stage.
LEMMA OthersStay ==
  ASSUME AccountsInv, NEW c \in Call, SigningUp(c) \/ Saving(c) \/ Linking(c) \/ CallFails(c),
         NEW d \in Call \ {c}
  PROVE  call'[d].at = call[d].at
<1>1. ASSUME NEW r, Start(c, r) \/ Proceed(c, r) PROVE call'[d].at = call[d].at
  BY <1>1 DEF Start, Proceed, Shaped, AccountsInv
<1>2. ASSUME NEW a \in Address, NEW row, NEW r, Write(c, a, row, r) PROVE call'[d].at = call[d].at
  BY <1>2, Written DEF Same, AccountsInv, CallsOK
<1>3. ASSUME NEW row, UpdateByEmail(c, row) PROVE call'[d].at = call[d].at
  BY <1>1, <1>2, <1>3 DEF UpdateByEmail, ByEmail
<1>4. CASE SigningUp(c)
  <2>1. ASSUME NEW e \in Email, NEW p \in Password, SignUpNew(c, e, p) \/ SignUpAgain(c, e, p)
        PROVE  call'[d].at = call[d].at
    BY <1>1, <2>1 DEF SignUpNew, SignUpAgain
  <2>2. CASE RenewToken(c)
    BY <1>1, <1>2, <2>2 DEF RenewToken, ByEmail
  <2>3. CASE SendVerificationEmail(c)
    BY <1>1, <2>3 DEF SendVerificationEmail
  <2>4. ASSUME NEW a \in Address, InsertWallet(c, a) PROVE call'[d].at = call[d].at
    BY <1>1, <1>2, <2>4 DEF InsertWallet
  <2> QED BY <1>4, <2>1, <2>2, <2>3, <2>4 DEF SigningUp
<1>5. CASE Saving(c)
  <2>1. ASSUME NEW a \in Address, NEW b \in BOOLEAN, SyncRoles(c, a, b) PROVE call'[d].at = call[d].at
    BY <1>1, <2>1 DEF SyncRoles
  <2>2. ASSUME NEW a \in Address, NEW e \in Email, UpdateProfile(c, a, e) PROVE call'[d].at = call[d].at
    BY <1>1, <2>2 DEF UpdateProfile
  <2>3. CASE FindWallet(c)
    BY <1>1, <2>3 DEF FindWallet
  <2>4. CASE SaveWallet(c)
    <3>1. call[c].at = "save" => call[c].address \in Address
      BY DEF AccountsInv, CallsOK, SaveOK
    <3> QED BY <1>1, <1>2, <2>4, <3>1 DEF SaveWallet
  <2> QED BY <1>5, <2>1, <2>2, <2>3, <2>4 DEF Saving
<1>6. CASE Linking(c)
  <2>1. ASSUME NEW m \in mailed, Verify(c, m) PROVE call'[d].at = call[d].at
    BY <1>1, <2>1 DEF Verify
  <2>2. ASSUME NEW e \in Email, RequestPasswordReset(c, e) PROVE call'[d].at = call[d].at
    BY <1>1, <2>2 DEF RequestPasswordReset
  <2>3. CASE SendPasswordResetEmail(c)
    BY <1>1, <2>3 DEF SendPasswordResetEmail
  <2>4. ASSUME NEW m \in resets, NEW p \in Password, ChangeWithToken(c, m, p) PROVE call'[d].at = call[d].at
    BY <1>1, <2>4 DEF ChangeWithToken
  <2>5. ASSUME NEW e \in Email, NEW q \in Password, NEW p \in Password, ChangeWithPassword(c, e, q, p)
        PROVE  call'[d].at = call[d].at
    BY <1>1, <2>5 DEF ChangeWithPassword
  <2>6. CASE MarkEmailVerified(c) \/ MarkPasswordResetRequested(c) \/ ChangePassword(c)
    BY <1>3, <2>6 DEF MarkEmailVerified, MarkPasswordResetRequested, ChangePassword
  <2> QED BY <1>6, <2>1, <2>2, <2>3, <2>4, <2>5, <2>6 DEF Linking
<1>7. CASE CallFails(c)
  BY <1>1, <1>7 DEF CallFails
<1> QED BY <1>4, <1>5, <1>6, <1>7

\* A save that ends is its own write, or a failure.
LEMMA SaveEnds ==
  ASSUME AccountsInv, [Next]_vars, NEW c \in Call, call[c].at = "save", call'[c] = NoCall
  PROVE  SaveWallet(c) \/ UNCHANGED wallet
<1>s. Shaped
  BY DEF AccountsInv
<1>0. call[c] # NoCall /\ call'[c].at # call[c].at
  BY NoCallIs
<1>1. ASSUME NEW d \in Call, d # c, SigningUp(d) \/ Saving(d) \/ Linking(d) \/ CallFails(d) PROVE FALSE
  BY <1>0, <1>1, OthersStay
<1>2. CASE TimePasses \/ UNCHANGED vars
  BY <1>0, <1>2 DEF TimePasses, vars
<1>3. CASE SigningUp(c)
  BY <1>0, <1>3 DEF SigningUp, SignUpNew, SignUpAgain, RenewToken, SendVerificationEmail, InsertWallet, Start
<1>4. CASE Saving(c)
  BY <1>0, <1>4 DEF Saving, SyncRoles, UpdateProfile, FindWallet, Start
<1>5. CASE Linking(c)
  BY <1>0, <1>5 DEF Linking, Verify, MarkEmailVerified, RequestPasswordReset, SendPasswordResetEmail,
                    MarkPasswordResetRequested, ChangeWithToken, ChangeWithPassword, ChangePassword, Start
<1>6. CASE CallFails(c)
  BY <1>6 DEF CallFails
<1> QED BY <1>1, <1>2, <1>3, <1>4, <1>5, <1>6 DEF Next

\* What a save that was not overtaken changes.
LEMMA SaveApart ==
  ASSUME AccountsInv, [Next]_vars, NEW c \in Call, NEW b \in Address,
         call[c].at = "save", call'[c] = NoCall, wallet'[b] # wallet[b], ~call[c].overtaken
  PROVE  /\ call[c].kind = "sync" => wallet'[b] = [Row(b) EXCEPT !.auditor = call[c].flag]
         /\ call[c].kind = "update" => wallet'[b] = [Row(b) EXCEPT !.email = call[c].email]
         /\ call[c].kind = "again" => wallet'[b].email = wallet[b].email /\ wallet'[b].auditor = wallet[b].auditor
<1> DEFINE d == call[c]
<1>s. Shaped /\ SaveOK(d) /\ AgainOK(d)
  BY DEF AccountsInv, CallsOK
<1>1. SaveWallet(c)
  BY SaveEnds
<1>2. PICK a, row, w : a = d.address /\ row = Saved(c) /\ w = Row(a)
  OBVIOUS
<1>3. a \in Address /\ d.found = Found(a)
  BY <1>2, <1>s DEF SaveOK
<1>4. b = a /\ wallet'[a] = row
  BY <1>1, <1>2, <1>3, <1>s DEF SaveWallet, Write, Shaped
<1>5. /\ w \in WalletRow
      /\ wallet[a] = None => w.email = None /\ w.auditor = FALSE
      /\ wallet[a] # None => w = wallet[a]
  BY <1>2, <1>3, <1>s, RowOf
<1>6. (d.found = None \/ (d.found.email = w.email /\ d.found.auditor = w.auditor))
  BY <1>3, <1>5 DEF Found, Public
<1>7. IsRow(w)
  BY <1>5, RowFields
<1>8. /\ d.found # None => [w EXCEPT !.email = d.found.email, !.auditor = d.found.auditor] = w
  <2>1. [w EXCEPT !.email = w.email, !.auditor = w.auditor] = w
    BY ONLY <1>7 DEF IsRow
  <2> QED BY <1>6, <2>1
<1>9. CASE d.kind = "sync"
  <2>1. row = [w EXCEPT !.auditor = d.flag]
    BY <1>2, <1>8, <1>9 DEF Saved
  <2> QED BY <1>2, <1>4, <1>9, <2>1
<1>10. CASE d.kind = "update"
  <2>1. row = [w EXCEPT !.email = d.email]
    BY <1>2, <1>8, <1>10 DEF Saved
  <2> QED BY <1>2, <1>4, <1>10, <2>1
<1>11. CASE d.kind = "again"
  <2>1. wallet[a] # None
    BY <1>2, <1>11, <1>s DEF AgainOK, AgainStage
  <2>2. row = [w EXCEPT !.password = d.password, !.sent = IF d.flag THEN "recent" ELSE @]
    <3>1. PICK was : was = IF d.found = None THEN w
                           ELSE [w EXCEPT !.email = d.found.email, !.auditor = d.found.auditor]
      OBVIOUS
    <3>2. Saved(c) = [was EXCEPT !.password = d.password, !.sent = IF d.flag THEN "recent" ELSE @]
      BY <1>2, <1>11, <3>1 DEF Saved
    <3>3. was = w
      BY <1>8, <3>1
    <3> QED BY <1>2, <3>2, <3>3
  <2>3. PICK p, s : p = d.password /\ s = IF d.flag THEN "recent" ELSE w.sent
    OBVIOUS
  <2>4. row = [w EXCEPT !.password = p, !.sent = s]
    BY ONLY <2>2, <2>3
  <2>5. row.email = w.email /\ row.auditor = w.auditor
    BY ONLY <2>4, <1>7 DEF IsRow
  <2> QED BY <1>4, <1>5, <1>11, <2>1, <2>5
<1> QED BY <1>9, <1>10, <1>11, <1>s DEF SaveOK

\* Saving roles leaves the address, and saving an address the roles, as they are.
THEOREM SavesApart == Spec => SavesKeepApart
<1> DEFINE A == \A c \in Call, a \in Address :
       call[c].at = "save" /\ call'[c] = NoCall /\ wallet'[a] # wallet[a] /\ ~call[c].overtaken =>
         /\ call[c].kind = "sync" => wallet'[a] = [Row(a) EXCEPT !.auditor = call[c].flag]
         /\ call[c].kind = "update" => wallet'[a] = [Row(a) EXCEPT !.email = call[c].email]
         /\ call[c].kind = "again" => wallet'[a].email = wallet[a].email /\ wallet'[a].auditor = wallet[a].auditor
<1>1. AccountsInv /\ [Next]_vars => [A]_vars
  BY SaveApart
<1>2. SavesKeepApart <=> [][A]_vars
  BY DEF SavesKeepApart
<1> HIDE DEF A
<1> QED BY <1>1, <1>2, AccountsInvariant, PTL DEF Spec

\* By what a call may change the password of row a.
Entitled(c, a) ==
  \/ call[c].overtaken
  \/ call[c].kind = "token" /\ wallet[a].reset = call[c].token
  \/ call[c].kind = "current" /\ wallet[a].password = call[c].current
  \/ call[c].kind = "again" /\ a \in renewed

\* Whoever changes the password of a verified wallet may, and is done.
LEMMA Guarded ==
  ASSUME AccountsInv, [Next]_vars, NEW a \in Address, wallet[a] # None, wallet[a].verified,
         wallet'[a].password # wallet[a].password
  PROVE  \E c \in Call : call'[c] = NoCall /\ Entitled(c, a)
<1>s. Shaped
  BY DEF AccountsInv
<1>0. wallet[a] \in WalletRow /\ wallet'[a] # wallet[a]
  BY <1>s DEF Shaped
<1>1. ASSUME NEW c \in Call, SaveWallet(c) PROVE call'[c] = NoCall /\ Entitled(c, a)
  <2> DEFINE d == call[c]
  <2>0. SaveOK(d) /\ AgainOK(d) /\ d.at = "save"
    BY <1>1 DEF AccountsInv, CallsOK, SaveWallet
  <2>1. PICK b, row, w : b = d.address /\ row = Saved(c) /\ w = Row(b)
    OBVIOUS
  <2>2. Write(c, b, row, NoCall)
    BY <1>0, <1>1, <2>1 DEF SaveWallet
  <2>3. b \in Address
    BY <2>0, <2>1 DEF SaveOK
  <2>4. call'[c] = NoCall /\ a = b /\ wallet'[a] = row
    BY <1>0, <1>s, <2>2, <2>3 DEF Write, Shaped
  <2>5. w = wallet[a]
    BY <2>1, <2>4 DEF Row
  <2>6. d.kind \in {"sync", "update"} => row.password = w.password
    BY <2>0, <2>1, SavedIs
  <2>7. d.kind = "again"
    BY <2>0, <2>4, <2>5, <2>6 DEF SaveOK
  <2>8. d.overtaken \/ a \in renewed
    BY <2>0, <2>1, <2>4, <2>7 DEF AgainOK, AgainStage
  <2> QED BY <2>4, <2>7, <2>8 DEF Entitled
<1>2. ASSUME NEW c \in Call, ChangePassword(c) PROVE call'[c] = NoCall /\ Entitled(c, a)
  <2> DEFINE d == call[c]
  <2>0. ChangeOK(d) /\ d.at = "change"
    BY <1>2 DEF AccountsInv, CallsOK, ChangePassword
  <2>1. PICK b \in ByEmail(d.email) : Write(c, b, Changed(Row(b), d.password), NoCall)
    BY <1>0, <1>2 DEF ChangePassword, UpdateByEmail, ByEmail
  <2>2. b \in Address
    BY DEF ByEmail
  <2>3. call'[c] = NoCall /\ a = b
    BY <1>0, <1>s, <2>1, <2>2 DEF Write, Shaped
  <2>4. d.kind \in {"token", "current"}
        /\ (~d.overtaken => (d.kind = "token" => wallet[a].reset = d.token)
                            /\ (d.kind = "current" => wallet[a].password = d.current))
    BY <2>0, <2>1, <2>3 DEF ChangeOK
  <2> QED BY <2>3, <2>4 DEF Entitled
<1>3. ASSUME NEW c \in Call, MarkEmailVerified(c) PROVE FALSE
  <2>1. PICK b \in ByEmail(call[c].email) : Write(c, b, Verified(Row(b)), NoCall)
    BY <1>0, <1>3 DEF MarkEmailVerified, UpdateByEmail, ByEmail
  <2>2. b \in Address /\ a = b /\ wallet'[a] = Verified(Row(b))
    BY <1>0, <1>s, <2>1 DEF Write, Shaped, ByEmail
  <2>3. wallet'[a] = Verified(wallet[a])
    BY <2>2 DEF Row
  <2> QED BY <1>0, <2>3, RowVerified
<1>4. ASSUME NEW c \in Call, MarkPasswordResetRequested(c) PROVE FALSE
  <2>1. PICK b \in ByEmail(call[c].email) :
          Write(c, b, [Row(b) EXCEPT !.reset = call[c].token, !.resetSent = "recent"], NoCall)
    BY <1>0, <1>4 DEF MarkPasswordResetRequested, UpdateByEmail, ByEmail
  <2>2. b \in Address /\ a = b /\ wallet'[a] = [Row(b) EXCEPT !.reset = call[c].token, !.resetSent = "recent"]
    BY <1>0, <1>s, <2>1 DEF Write, Shaped, ByEmail
  <2>3. PICK t, w : t = call[c].token /\ w = wallet[a] /\ w \in WalletRow
    BY <1>0
  <2>4. wallet'[a] = [w EXCEPT !.reset = t, !.resetSent = "recent"]
    BY <2>2, <2>3 DEF Row
  <2>5. wallet'[a].password = w.password
    BY <2>3, <2>4 DEF WalletRow
  <2> QED BY <2>3, <2>5
<1>5. ASSUME NEW c \in Call, RenewToken(c) PROVE FALSE
  <2>0. PICK b \in ByEmail(call[c].email) :
          \E next : Write(c, b, [wallet[b] EXCEPT !.token = drawn', !.sent = "recent"], next)
    BY <1>0, <1>5 DEF RenewToken
  <2>1. PICK next : Write(c, b, [wallet[b] EXCEPT !.token = drawn', !.sent = "recent"], next)
    BY <2>0
  <2>2. b \in Address /\ a = b /\ wallet'[a] = [wallet[a] EXCEPT !.token = drawn', !.sent = "recent"]
    BY <1>0, <1>s, <2>1 DEF Write, Shaped, ByEmail
  <2>3. PICK t, w : t = drawn' /\ w = wallet[a] /\ w \in WalletRow
    BY <1>0
  <2>4. wallet'[a] = [w EXCEPT !.token = t, !.sent = "recent"]
    BY <2>2, <2>3
  <2>5. wallet'[a].password = w.password
    BY <2>3, <2>4 DEF WalletRow
  <2> QED BY <2>3, <2>5
<1>6. ASSUME NEW c \in Call, NEW b \in Address, InsertWallet(c, b) PROVE FALSE
  BY <1>0, <1>6, <1>s DEF InsertWallet, Write, Shaped
<1>7. CASE TimePasses
  <2>1. PICK w, s, t : w = wallet[a] /\ s = OlderMail(w.sent) /\ t = Older(w.resetSent) /\ w \in WalletRow
    BY <1>0
  <2>2. wallet'[a] = [w EXCEPT !.sent = s, !.resetSent = t]
    BY <1>7, <2>1 DEF TimePasses
  <2>3. wallet'[a].password = w.password
    BY <2>1, <2>2 DEF WalletRow
  <2> QED BY <2>1, <2>3
<1>8. ASSUME NEW c \in Call, SigningUp(c) PROVE FALSE
  BY <1>0, <1>5, <1>6, <1>8 DEF SigningUp, SignUpNew, SignUpAgain, SendVerificationEmail
<1>9. ASSUME NEW c \in Call, Saving(c) PROVE call'[c] = NoCall /\ Entitled(c, a)
  BY <1>0, <1>1, <1>9 DEF Saving, SyncRoles, UpdateProfile, FindWallet
<1>10. ASSUME NEW c \in Call, Linking(c) PROVE call'[c] = NoCall /\ Entitled(c, a)
  BY <1>0, <1>2, <1>3, <1>4, <1>10 DEF Linking, Verify, RequestPasswordReset, SendPasswordResetEmail,
                                       ChangeWithToken, ChangeWithPassword
<1>11. ASSUME NEW c \in Call, CallFails(c) PROVE FALSE
  BY <1>0, <1>11 DEF CallFails
<1>12. CASE UNCHANGED vars
  BY <1>0, <1>12 DEF vars
<1> QED BY <1>7, <1>8, <1>9, <1>10, <1>11, <1>12 DEF Next

\* A verified wallet's password changes only by a link or a password that is still good.
THEOREM PasswordsGuarded == Spec => PasswordGuarded
<1> DEFINE A == \A a \in Address :
       wallet[a] # None /\ wallet[a].verified /\ wallet'[a].password # wallet[a].password =>
         \E c \in Call :
           /\ call'[c] = NoCall
           /\ \/ call[c].overtaken
              \/ call[c].kind = "token" /\ wallet[a].reset = call[c].token
              \/ call[c].kind = "current" /\ wallet[a].password = call[c].current
              \/ call[c].kind = "again" /\ a \in renewed
<1>1. AccountsInv /\ [Next]_vars => [A]_vars
  BY Guarded DEF Entitled
<1>2. PasswordGuarded <=> [][A]_vars
  BY DEF PasswordGuarded
<1> HIDE DEF A
<1> QED BY <1>1, <1>2, AccountsInvariant, PTL DEF Spec
=============================================================================
