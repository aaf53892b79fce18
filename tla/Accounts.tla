-------------------------------- MODULE Accounts --------------------------------
(***************************************************************************)
(* Users of the API server: rows of the wallet table.  Sign-up, the mails  *)
(* with a verification or a reset link, the change of a password, the      *)
(* update of a profile and the synchroniser's update of roles each read    *)
(* the row, await something and write; calls run side by side, their last  *)
(* query is often not even awaited, mails fail and a server dies between   *)
(* any two steps.  An e-mail address is written one way; a clock is the    *)
(* age of a stamp.                                                         *)
(***************************************************************************)
EXTENDS Naturals, FiniteSets

CONSTANTS None, Address, Email, Password,
          Call,      \* calls that are under way at once
          MaxTokens, \* bound on the random tokens drawn
          MaxVerifications \* the last one that may be for a verification link

ASSUME AccountsAssumption ==
  /\ MaxTokens \in Nat /\ MaxVerifications \in 0 .. MaxTokens
  /\ None \notin Address \cup Email \cup Password \cup 1 .. MaxTokens
  /\ None \notin {"recent", "old", "expired"}

VARIABLES wallet,  \* address -> row, or None
          call,    \* call -> where it stands and what it has read
          mailed,  \* verification links that were mailed
          resets,  \* reset links that were mailed
          drawn,   \* tokens drawn so far
          used,    \* history: reset tokens that changed a password
          moved,   \* history: wallets whose e-mail address was replaced
          renewed  \* history: wallets whose verification token was drawn again

history == <<used, moved, renewed>>
vars == <<wallet, call, mailed, resets, drawn, history>>

Token == 1 .. MaxTokens
Link == [to : Email, token : Token]

Blank == [email |-> None, auditor |-> FALSE, verified |-> FALSE, password |-> None,
          token |-> None, sent |-> None, reset |-> None, resetSent |-> None]
NoCall == [at |-> "none", kind |-> None, address |-> None, email |-> None, password |-> None,
           token |-> None, current |-> None, found |-> None, flag |-> FALSE, overtaken |-> FALSE]

Row(a) == IF wallet[a] = None THEN Blank ELSE wallet[a]
ByEmail(e) == {a \in Address : wallet[a] # None /\ wallet[a].email = e}

Init ==
  /\ wallet = [a \in Address |-> None]
  /\ call = [c \in Call |-> NoCall]
  /\ mailed = {} /\ resets = {} /\ drawn = 0
  /\ used = {} /\ moved = {} /\ renewed = {}

Draw(max) == drawn < max /\ drawn' = drawn + 1
Start(c, r) == call[c] = NoCall /\ call' = [call EXCEPT ![c] = r]
Proceed(c, r) == call' = [call EXCEPT ![c] = r]

\* A write of a row, after which the call stands at next; what the others have read of this row,
\* or of this e-mail address, is no longer so.
Concerns(d, a, row) == d.address = a \/ (d.email # None /\ d.email = row.email)
Write(c, a, row, next) ==
  /\ wallet' = [wallet EXCEPT ![a] = row]
  /\ call' = [d \in Call |->
       IF d = c THEN next
       ELSE [call[d] EXCEPT !.overtaken = @ \/ (call[d] # NoCall /\ Concerns(call[d], a, row))]]

-----------------------------------------------------------------------------
(* Sign-up. *)

\* The mail was never sent, or the address is not verified a quarter of an hour after.
MaySignUpAgain(w) == w.sent = None \/ (~w.verified /\ w.sent = "old")

SignUpNew(c, e, p) ==
  /\ ByEmail(e) = {} /\ Draw(MaxVerifications)
  /\ Start(c, [NoCall EXCEPT !.at = "mail", !.kind = "new", !.email = e, !.password = p, !.token = drawn'])
  /\ UNCHANGED <<wallet, mailed, resets, history>>

SignUpAgain(c, e, p) ==
  /\ \E a \in ByEmail(e) :
       /\ MaySignUpAgain(wallet[a])
       /\ Start(c, [NoCall EXCEPT !.at = IF wallet[a].token = None THEN "renew" ELSE "mail",
                                  !.kind = "again", !.address = a, !.email = e, !.password = p,
                                  !.token = wallet[a].token])
  /\ UNCHANGED <<wallet, mailed, resets, drawn, history>>

\* sendVerificationEmail without a token: the new one is saved, as sent, before the mail.
RenewToken(c) ==
  /\ call[c].at = "renew"
  /\ \/ \E a \in ByEmail(call[c].email) :
          /\ Draw(MaxVerifications)
          /\ Write(c, a, [wallet[a] EXCEPT !.token = drawn', !.sent = "recent"],
                   [call[c] EXCEPT !.at = "mail", !.token = drawn'])
          /\ renewed' = renewed \cup {a}
     \/ /\ ByEmail(call[c].email) = {} /\ Proceed(c, [call[c] EXCEPT !.at = "find"])
        /\ UNCHANGED <<wallet, drawn, renewed>>
  /\ UNCHANGED <<mailed, resets, used, moved>>

\* The account is stored, or the password set, whether or not the mail could be sent.
SendVerificationEmail(c) ==
  LET next == IF call[c].kind = "new" THEN "insert" ELSE "find" IN
  /\ call[c].at = "mail"
  /\ \/ /\ mailed' = mailed \cup {[to |-> call[c].email, token |-> call[c].token]}
        /\ Proceed(c, [call[c] EXCEPT !.at = next, !.flag = TRUE])
     \/ Proceed(c, [call[c] EXCEPT !.at = next]) /\ UNCHANGED mailed
  /\ UNCHANGED <<wallet, resets, drawn, history>>

\* Mutation: the mail counts as sent when it could not be.
SentAlways(c) == "recent"
Sent(c) == IF call[c].flag THEN "recent" ELSE None

\* Mutation: the column email is not unique.
InsertWalletTwice(c, a) ==
  /\ call[c].at = "insert" /\ wallet[a] = None
  /\ Write(c, a, [Blank EXCEPT !.email = call[c].email, !.password = call[c].password,
                               !.token = call[c].token, !.sent = Sent(c)], NoCall)
  /\ UNCHANGED <<mailed, resets, drawn, history>>

\* insertWallet, at a random address; the column email is unique.
InsertWallet(c, a) ==
  /\ call[c].at = "insert" /\ wallet[a] = None
  /\ IF ByEmail(call[c].email) = {}
     THEN Write(c, a, [Blank EXCEPT !.email = call[c].email, !.password = call[c].password,
                                    !.token = call[c].token, !.sent = Sent(c)], NoCall)
     ELSE Proceed(c, NoCall) /\ UNCHANGED wallet
  /\ UNCHANGED <<mailed, resets, drawn, history>>

-----------------------------------------------------------------------------
(* mergeWallet and the update of a profile: the public columns are read and all saved. *)

\* Bound: columns are saved by such calls while there is no other row.
Known(a) == \A b \in Address \ {a} : wallet[b] = None

\* ensureWalletWithRoles, with the role the account has on the chain by now.
SyncRoles(c, a, auditor) ==
  /\ Known(a)
  /\ Start(c, [NoCall EXCEPT !.at = "find", !.kind = "sync", !.address = a, !.flag = auditor])
  /\ UNCHANGED <<wallet, mailed, resets, drawn, history>>

UpdateProfile(c, a, e) ==
  /\ Known(a)
  /\ Start(c, [NoCall EXCEPT !.at = "find", !.kind = "update", !.address = a, !.email = e])
  /\ UNCHANGED <<wallet, mailed, resets, drawn, history>>

\* Mutation: roles are not among the columns that are read.
PublicWithoutRoles(w) == [email |-> w.email, auditor |-> FALSE]
Public(w) == [email |-> w.email, auditor |-> w.auditor]

FindWallet(c) ==
  /\ call[c].at = "find"
  /\ LET w == wallet[call[c].address] IN
     Proceed(c, [call[c] EXCEPT !.at = "save", !.overtaken = @ /\ call[c].kind = "again",
                                 !.found = IF w = None THEN None ELSE Public(w)])
  /\ UNCHANGED <<wallet, mailed, resets, drawn, history>>

\* What is saved: what was read, with the columns that are given in its place.
Saved(c) ==
  LET d == call[c]
      now == Row(d.address)
      was == IF d.found = None THEN now ELSE [now EXCEPT !.email = d.found.email, !.auditor = d.found.auditor]
  IN  CASE d.kind = "sync" -> [was EXCEPT !.auditor = d.flag]
        [] d.kind = "update" -> [was EXCEPT !.email = d.email]
        [] d.kind = "again" -> [was EXCEPT !.password = d.password, !.sent = IF d.flag THEN "recent" ELSE @]

SaveWallet(c) ==
  LET a == call[c].address IN
  /\ call[c].at = "save"
  /\ IF Saved(c).email # None /\ ByEmail(Saved(c).email) \ {a} # {}
     THEN Proceed(c, NoCall) /\ UNCHANGED <<wallet, moved>>
     ELSE /\ Write(c, a, Saved(c), NoCall)
          /\ moved' = IF Row(a).email \in {None, Saved(c).email} THEN moved ELSE moved \cup {a}
  /\ UNCHANGED <<mailed, resets, drawn, used, renewed>>

-----------------------------------------------------------------------------
(* The links and the password.  The query that changes the row finds it by e-mail again. *)

Verify(c, m) ==
  /\ \E a \in ByEmail(m.to) :
       /\ wallet[a].token = m.token
       /\ Start(c, [NoCall EXCEPT !.at = "verify", !.address = a, !.email = m.to])
  /\ UNCHANGED <<wallet, mailed, resets, drawn, history>>

\* row: account -> its row as the query leaves it.
UpdateByEmail(c, row) ==
  \/ \E a \in ByEmail(call[c].email) : Write(c, a, row[a], NoCall)
  \/ ByEmail(call[c].email) = {} /\ Proceed(c, NoCall) /\ UNCHANGED wallet

Verified(w) == [w EXCEPT !.verified = TRUE, !.token = None]
MarkEmailVerified(c) ==
  /\ call[c].at = "verify" /\ UpdateByEmail(c, [a \in Address |-> Verified(Row(a))])
  /\ UNCHANGED <<mailed, resets, drawn, history>>

\* Only a verified wallet, and not within 30 seconds of the last request.
RequestPasswordReset(c, e) ==
  /\ \E a \in ByEmail(e) :
       /\ wallet[a].verified /\ wallet[a].resetSent # "recent" /\ Draw(MaxTokens)
       /\ Start(c, [NoCall EXCEPT !.at = "mailReset", !.address = a, !.email = e, !.token = drawn'])
  /\ UNCHANGED <<wallet, mailed, resets, history>>

SendPasswordResetEmail(c) ==
  /\ call[c].at = "mailReset"
  /\ resets' = resets \cup {[to |-> call[c].email, token |-> call[c].token]}
  /\ Proceed(c, [call[c] EXCEPT !.at = "reset"])
  /\ UNCHANGED <<wallet, mailed, drawn, history>>

MarkPasswordResetRequested(c) ==
  LET row == [a \in Address |-> [Row(a) EXCEPT !.reset = call[c].token, !.resetSent = "recent"]] IN
  /\ call[c].at = "reset" /\ UpdateByEmail(c, row)
  /\ UNCHANGED <<mailed, resets, drawn, history>>

\* With the token of a reset link that is less than a day old, or with the current password.
\* Mutation: any link will do while the last one is valid.
RecentToken(w, t) == w.resetSent \notin {None, "expired"}
ValidToken(w, t) == w.reset = t /\ w.resetSent \notin {None, "expired"}
ChangeWithToken(c, m, p) ==
  /\ \E a \in ByEmail(m.to) :
       /\ ValidToken(wallet[a], m.token)
       /\ Start(c, [NoCall EXCEPT !.at = "change", !.kind = "token", !.address = a, !.email = m.to,
                                  !.password = p, !.token = m.token])
  /\ UNCHANGED <<wallet, mailed, resets, drawn, history>>

ChangeWithPassword(c, e, current, p) ==
  /\ \E a \in ByEmail(e) :
       /\ wallet[a].password = current
       /\ Start(c, [NoCall EXCEPT !.at = "change", !.kind = "current", !.address = a, !.email = e,
                                  !.password = p, !.current = current])
  /\ UNCHANGED <<wallet, mailed, resets, drawn, history>>

\* Mutation: the token stays.
ChangedOnly(w, p) == [w EXCEPT !.password = p]
Changed(w, p) == [w EXCEPT !.password = p, !.reset = None]
ChangePassword(c) ==
  /\ call[c].at = "change"
  /\ UpdateByEmail(c, [a \in Address |-> Changed(Row(a), call[c].password)])
  /\ used' = IF call[c].kind = "token" /\ ByEmail(call[c].email) # {} THEN used \cup {call[c].token} ELSE used
  /\ UNCHANGED <<mailed, resets, drawn, moved, renewed>>

-----------------------------------------------------------------------------
(* Time and failures. *)

Older(age) == CASE age = "recent" -> "old" [] age = "old" -> "expired" [] OTHER -> age
\* The stamp of the verification mail is of interest for a quarter of an hour.
OlderMail(age) == IF age = None THEN None ELSE "old"
TimePasses ==
  /\ wallet' = [a \in Address |->
       IF wallet[a] = None THEN None
       ELSE [wallet[a] EXCEPT !.sent = OlderMail(@), !.resetSent = Older(@)]]
  /\ UNCHANGED <<call, mailed, resets, drawn, history>>

\* An await throws, the mail of a reset link among them, or the server dies.
CallFails(c) ==
  /\ call[c] # NoCall /\ Proceed(c, NoCall)
  /\ UNCHANGED <<wallet, mailed, resets, drawn, history>>

-----------------------------------------------------------------------------
SigningUp(c) ==
  \/ \E e \in Email, p \in Password : SignUpNew(c, e, p) \/ SignUpAgain(c, e, p)
  \/ RenewToken(c) \/ SendVerificationEmail(c)
  \/ \E a \in Address : InsertWallet(c, a)

Saving(c) ==
  \/ \E a \in Address, auditor \in BOOLEAN : SyncRoles(c, a, auditor)
  \/ \E a \in Address, e \in Email : UpdateProfile(c, a, e)
  \/ FindWallet(c) \/ SaveWallet(c)

Linking(c) ==
  \/ \E m \in mailed : Verify(c, m)
  \/ MarkEmailVerified(c)
  \/ \E e \in Email : RequestPasswordReset(c, e)
  \/ SendPasswordResetEmail(c) \/ MarkPasswordResetRequested(c)
  \/ \E m \in resets, p \in Password : ChangeWithToken(c, m, p)
  \/ \E e \in Email, q, p \in Password : ChangeWithPassword(c, e, q, p)
  \/ ChangePassword(c)

Next ==
  \/ \E c \in Call : SigningUp(c) \/ Saving(c) \/ Linking(c) \/ CallFails(c)
  \/ TimePasses

Spec == Init /\ [][Next]_vars

-----------------------------------------------------------------------------
WalletRow == [email : Email \cup {None}, auditor : BOOLEAN, verified : BOOLEAN,
              password : Password \cup {None}, token : Token \cup {None},
              sent : {None, "recent", "old"}, reset : Token \cup {None},
              resetSent : {None, "recent", "old", "expired"}]

ASSUME NoneAssumption == None \notin WalletRow

\* Types of the rows (models/wallet.ts): no e-mail address is on two rows, and only a wallet with
\* an address can be verified.
AccountsTypeOK ==
  /\ \A a \in Address : wallet[a] # None => wallet[a] \in WalletRow
  /\ \A e \in Email : Cardinality(ByEmail(e)) <= 1
  /\ mailed \subseteq Link /\ resets \subseteq Link

\* A wallet that says a verification mail was sent has a link that was mailed to its address
\* (signupWallet stores the stamp after the mail), unless the token was drawn again, which is
\* saved as sent before the mail, or the address was replaced.
SentMeansMailed ==
  \A a \in Address \ (moved \cup renewed) :
    LET w == wallet[a] IN
    w # None /\ w.sent # None /\ w.token # None => [to |-> w.email, token |-> w.token] \in mailed

\* A reset link that works was mailed to the address of the wallet, and has not changed a
\* password before (sendPasswordResetEmail, then markPasswordResetRequested; changePassword),
\* unless the address was replaced: the change finds the row by its address again.
ResetLinksGood ==
  \A a \in Address \ moved :
    LET w == wallet[a] IN
    w # None /\ w.reset # None =>
      w.reset \notin used /\ [to |-> w.email, token |-> w.reset] \in resets

\* The password of a verified wallet changes only by the link that is still the newest, or with
\* the password it still has, unless the row was written between check and change; and by a
\* sign-up only when it was verified in between, or its token was drawn again.
PasswordGuarded ==
  [][\A a \in Address :
       wallet[a] # None /\ wallet[a].verified /\ wallet'[a].password # wallet[a].password =>
         \E c \in Call :
           /\ call'[c] = NoCall
           /\ \/ call[c].overtaken
              \/ call[c].kind = "token" /\ wallet[a].reset = call[c].token
              \/ call[c].kind = "current" /\ wallet[a].password = call[c].current
              \/ call[c].kind = "again" /\ a \in renewed]_vars

\* The roles of a wallet come from the chain and its e-mail address from its user: saving the
\* one leaves the other as it is, unless the row was written between the read and the save.
SavesKeepApart ==
  [][\A c \in Call, a \in Address :
       call[c].at = "save" /\ call'[c] = NoCall /\ wallet'[a] # wallet[a] /\ ~call[c].overtaken =>
         /\ call[c].kind = "sync" => wallet'[a] = [Row(a) EXCEPT !.auditor = call[c].flag]
         /\ call[c].kind = "update" => wallet'[a] = [Row(a) EXCEPT !.email = call[c].email]
         /\ call[c].kind = "again" => wallet'[a].email = wallet[a].email /\ wallet'[a].auditor = wallet[a].auditor]_vars
=============================================================================
