--------------------------- MODULE AccountsProofs ---------------------------
(***************************************************************************)
(* For every number of accounts, addresses, links and concurrent requests: *)
(* the address of a usable account was proven, and a confirmation or reset *)
(* link works at most once.                                                *)
(***************************************************************************)
EXTENDS Accounts, TLAPS

\* What each statement leaves in a row, field by field.
LEMMA ConfirmedFields ==
  ASSUME NEW r \in Row
  PROVE  /\ Confirmed(r) \in Row
         /\ Confirmed(r).verified /\ Confirmed(r).vtok = None
         /\ Confirmed(r).email = r.email /\ Confirmed(r).rtok = r.rtok
         /\ Confirmed(r).pending = r.pending /\ Confirmed(r).etok = r.etok
BY DEF Row, Confirmed

LEMMA ResetByFields ==
  ASSUME NEW r \in Row, NEW t \in Tokens \cup {None}
  PROVE  /\ ResetBy(r, t) \in Row
         /\ ResetBy(r, t).verified = r.verified /\ ResetBy(r, t).vtok = r.vtok
         /\ ResetBy(r, t).email = r.email /\ ResetBy(r, t).rtok = t
         /\ ResetBy(r, t).pending = r.pending /\ ResetBy(r, t).etok = r.etok
BY DEF Row, ResetBy

LEMMA StagedFields ==
  ASSUME NEW r \in Row, NEW e \in Emails, NEW t \in Tokens
  PROVE  /\ Staged(r, e, t) \in Row
         /\ Staged(r, e, t).verified = r.verified /\ Staged(r, e, t).vtok = r.vtok
         /\ Staged(r, e, t).email = r.email /\ Staged(r, e, t).rtok = r.rtok
         /\ Staged(r, e, t).pending = e /\ Staged(r, e, t).etok = t
BY DEF Row, Staged

LEMMA RenamedFields ==
  ASSUME NEW r \in Row, NEW e \in Emails
  PROVE  /\ Renamed(r, e) \in Row
         /\ Renamed(r, e).verified = r.verified /\ Renamed(r, e).vtok = r.vtok
         /\ Renamed(r, e).email = e /\ Renamed(r, e).rtok = r.rtok
         /\ Renamed(r, e).pending = None /\ Renamed(r, e).etok = None
BY DEF Row, Renamed

\* Every variable keeps its type.
THEOREM TypeCorrect == Spec => []TypeOK
<1>1. Init => TypeOK
  BY DEF Init, TypeOK
<1>2. TypeOK /\ [Next]_vars => TypeOK'
  <2> SUFFICES ASSUME TypeOK, [Next]_vars PROVE TypeOK'
    OBVIOUS
  <2> USE NoneAssumption DEF TypeOK, Mail, Kind, Mailing, Resetting, Staging, Applying, Idle,
        history, Goto, SendLater, Update, UpdateIf, Used, Has
  <2>1. CASE UNCHANGED vars
    BY <2>1 DEF vars
  <2>2. ASSUME NEW h \in Handlers, NEW u \in Ids, NEW e \in Emails, NEW t \in Tokens,
               Register(h, u, e, t)
        PROVE  TypeOK'
    <3>1. NewRow(e, FALSE, t) \in Row /\ NewRow(e, TRUE, None) \in Row
      BY DEF NewRow, Row
    <3>2. CASE verification
      <4>1. row' = [row EXCEPT ![u] = NewRow(e, FALSE, t)] /\ ids' = ids \cup {u}
        BY <2>2, <3>2 DEF Register
      <4>2. handler' = [handler EXCEPT ![h] = [pc |-> "mail", msg |-> [to |-> e, kind |-> "verify", tok |-> t]]]
        BY <2>2, <3>2 DEF Register
      <4>3. row' \in [Ids -> Row \cup {None}] /\ {v \in Ids : row'[v] # None} \subseteq ids'
        BY <3>1, <4>1
      <4>4. QED
        BY <2>2, <3>2, <4>2, <4>3 DEF Register
    <3>3. CASE ~verification
      <4>1. row' = [row EXCEPT ![u] = NewRow(e, TRUE, None)] /\ ids' = ids \cup {u}
        BY <2>2, <3>3 DEF Register
      <4>2. row' \in [Ids -> Row \cup {None}] /\ {v \in Ids : row'[v] # None} \subseteq ids'
        BY <3>1, <4>1
      <4>3. QED
        BY <2>2, <3>3, <4>2 DEF Register
    <3>4. QED
      BY <3>2, <3>3
  <2>3. ASSUME NEW h \in Handlers, NEW u \in Ids, RequestReset(h, u) PROVE TypeOK'
    BY <2>3 DEF RequestReset, Row
  <2>4. ASSUME NEW h \in Handlers, NEW u \in Ids, NEW e \in Emails, CheckEmailChange(h, u, e)
        PROVE  TypeOK'
    BY <2>4 DEF CheckEmailChange
  <2>5. ASSUME NEW h \in Handlers, NEW t \in Tokens, WriteResetToken(h, t) PROVE TypeOK'
    <3>1. handler[h] \in Resetting
      BY <2>5 DEF WriteResetToken
    <3>2. Has(handler[h].user) => ResetBy(row[handler[h].user], t) \in Row
      BY <3>1, ResetByFields
    <3>3. QED
      BY <2>5, <3>1, <3>2 DEF WriteResetToken
  <2>6. ASSUME NEW h \in Handlers, NEW t \in Tokens, StageEmail(h, t) PROVE TypeOK'
    <3>1. handler[h] \in Staging
      BY <2>6 DEF StageEmail
    <3>2. Has(handler[h].user) => Staged(row[handler[h].user], handler[h].new, t) \in Row
      BY <3>1, StagedFields
    <3>3. QED
      BY <2>6, <3>1, <3>2 DEF StageEmail
  <2>7. ASSUME NEW h \in Handlers, ChangeEmailNow(h) PROVE TypeOK'
    <3>1. handler[h] \in Staging
      BY <2>7 DEF ChangeEmailNow
    <3>2. Has(handler[h].user) => Renamed(row[handler[h].user], handler[h].new) \in Row
      BY <3>1, RenamedFields
    <3>3. QED
      BY <2>7, <3>1, <3>2 DEF ChangeEmailNow
  <2>8. ASSUME NEW h \in Handlers, ApplyEmailChange(h) PROVE TypeOK'
    <3>1. handler[h] \in Applying
      BY <2>8 DEF ApplyEmailChange
    <3>2. Has(handler[h].user) => Renamed(row[handler[h].user], handler[h].new) \in Row
      BY <3>1, RenamedFields
    <3>3. QED
      BY <2>8, <3>1, <3>2 DEF ApplyEmailChange
  <2>9. ASSUME NEW h \in Handlers, NEW m \in mail, OpenChangeLink(h, m) PROVE TypeOK'
    <3>1. ASSUME NEW u \in Ids, Has(u), row[u].pending # None PROVE row[u].pending \in Emails
      BY <3>1 DEF Row
    <3>2. QED
      BY <2>9, <3>1 DEF OpenChangeLink
  <2>10. ASSUME NEW h \in Handlers, SendMail(h) PROVE TypeOK'
    BY <2>10 DEF SendMail
  <2>11. ASSUME NEW h \in Handlers, Abandon(h) PROVE TypeOK'
    BY <2>11 DEF Abandon
  <2>12. ASSUME NEW m \in mail, VerifyEmail(m) PROVE TypeOK'
    <3>1. ASSUME NEW u \in Ids, Has(u) PROVE Confirmed(row[u]) \in Row
      BY <3>1, ConfirmedFields
    <3>2. QED
      BY <2>12, <3>1 DEF VerifyEmail
  <2>13. ASSUME NEW m \in mail, ResetPassword(m) PROVE TypeOK'
    <3>1. ASSUME NEW u \in Ids, Has(u) PROVE ResetBy(row[u], None) \in Row
      BY <3>1, ResetByFields
    <3>2. QED
      BY <2>13, <3>1 DEF ResetPassword
  <2>14. ASSUME NEW u \in Ids, DeleteAccount(u) PROVE TypeOK'
    BY <2>14 DEF DeleteAccount
  <2>15. ASSUME NEW t \in Tokens, Expire(t) PROVE TypeOK'
    BY <2>15 DEF Expire
  <2>16. QED
    BY <2>1, <2>2, <2>3, <2>4, <2>5, <2>6, <2>7, <2>8, <2>9, <2>10, <2>11, <2>12, <2>13,
       <2>14, <2>15 DEF Next
<1>3. QED
  BY <1>1, <1>2, PTL DEF Spec

-----------------------------------------------------------------------------
(* Handing a mail over does not change the mails sent or about to be.      *)

LEMMA SentGrows ==
  ASSUME TypeOK, NEW h \in Handlers, handler[h].pc # "mail", UNCHANGED mail,
         NEW to \in Emails, NEW kind \in Kind, NEW t \in Tokens, SendLater(h, to, kind, t)
  PROVE  Sent' = Sent \cup {[to |-> to, kind |-> kind, tok |-> t]}
BY DEF TypeOK, SendLater, Goto, Sent

LEMMA SentKept ==
  ASSUME TypeOK, NEW h \in Handlers, handler[h].pc # "mail", UNCHANGED mail,
         NEW s, s.pc # "mail", Goto(h, s)
  PROVE  Sent' = Sent
BY DEF TypeOK, Goto, Sent

LEMMA SentType == TypeOK => Sent \subseteq Mail
BY DEF TypeOK, Sent, Mailing, Resetting, Staging, Applying, Idle

\* A step that edits row u alone, with tokens of its own or new ones, and mails only links
\* with new tokens, leaves what is known of every other row.
LEMMA OtherRows ==
  ASSUME TypeOK, LinkInv, NoneAssumption, NEW u \in Ids,
         \A v \in Ids \ {u} : row'[v] = row[v],
         minted \subseteq minted',
         \A m \in Sent' : m \in Sent \/ m.tok \in Tokens \ minted,
         \A v \in Ids \ {u}, t \in Tokens :
           Has(v) /\ t \in {row[v].vtok, row[v].rtok} => uses'[t] = uses[t],
         Has(u)' => \/ row'[u].vtok \in {None} \cup (Tokens \ minted)
                    \/ Has(u) /\ row'[u].vtok = row[u].vtok,
         Has(u)' => \/ row'[u].rtok \in {None} \cup (Tokens \ minted)
                    \/ Has(u) /\ row'[u].rtok = row[u].rtok,
         NEW v \in Ids \ {u}, Has(v)
  PROVE  RowInv(v)'
<1> USE DEF Has
<1>1. RowInv(v) /\ row'[v] = row[v]
  BY DEF LinkInv
<1>2. Drawn(v)'
  BY <1>1 DEF RowInv, Drawn
<1>3. Stage(v)'
  BY <1>1 DEF RowInv, Stage
<1>4. Matches(v)'
  BY <1>1 DEF RowInv, Matches, Drawn, NoneAssumption
<1>5. Unused(v)'
  BY <1>1 DEF RowInv, Unused
<1>6. Unshared(v)'
  <2>0. u \in Ids \ {v} /\ Drawn(v) /\ Unshared(v)
    BY <1>1 DEF RowInv
  <2>1. ASSUME Has(u)', row[v].vtok = row'[u].vtok PROVE row[v].vtok = None
    <3>1. row[v].vtok \in minted \cup {None}
      BY <2>0 DEF Drawn
    <3>2. Has(u) /\ row[v].vtok = row[u].vtok => row[v].vtok = None
      BY <2>0 DEF Unshared
    <3>3. QED
      BY <2>1, <3>1, <3>2 DEF Has
  <2>2. ASSUME Has(u)', row[v].rtok = row'[u].rtok PROVE row[v].rtok = None
    <3>1. row[v].rtok \in minted \cup {None}
      BY <2>0 DEF Drawn
    <3>2. Has(u) /\ row[v].rtok = row[u].rtok => row[v].rtok = None
      BY <2>0 DEF Unshared
    <3>3. QED
      BY <2>2, <3>1, <3>2 DEF Has
  <2>3. ASSUME NEW w \in Ids \ {v}, w # u, Has(w)'
        PROVE  /\ row[v].vtok = row'[w].vtok => row[v].vtok = None
               /\ row[v].rtok = row'[w].rtok => row[v].rtok = None
    BY <2>0, <2>3 DEF Unshared, Has
  <2>4. QED
    BY <1>1, <2>1, <2>2, <2>3 DEF Unshared
<1>7. QED
  BY <1>2, <1>3, <1>4, <1>5, <1>6 DEF RowInv

\* A step of handler h that deletes or edits rows, never unconfirming one, and mails only
\* links with new tokens, leaves what the other handlers rely on.
LEMMA OtherHandlers ==
  ASSUME TypeOK, LinkInv,
         mail \subseteq mail', proven \subseteq proven', ids \subseteq ids',
         \A u \in ids : Has(u)' => Has(u) /\ (row[u].verified => row'[u].verified),
         NEW g \in Handlers, handler'[g] = handler[g]
  PROVE  HandlerInv(g)'
<1> USE DEF Has
<1>1. HandlerInv(g)
  BY DEF LinkInv
<1>2. QED
  BY <1>1 DEF HandlerInv

\* The tokens of rows, mails and handlers match, and none that is still in a row was used.
LEMMA LinkInvInductive == Spec => []LinkInv
<1> USE NoneAssumption DEF Has
<1>1. Init => LinkInv
  BY DEF Init, LinkInv, MailInv, HandlerInv, Sent, Idle, Has
<1>2. TypeOK /\ LinkInv /\ [Next]_vars => LinkInv'
  <2> SUFFICES ASSUME TypeOK, LinkInv, [Next]_vars PROVE LinkInv'
    OBVIOUS
  <2>0. /\ \A u \in Ids : Has(u) => row[u] \in Row /\ u \in ids
        /\ \A h \in Handlers :
             /\ handler[h].pc = "stage" => handler[h] \in Staging
             /\ handler[h].pc = "apply" => handler[h] \in Applying
             /\ handler[h].pc = "reset" => handler[h] \in Resetting
             /\ handler[h].pc = "mail" => handler[h] \in Mailing
    BY DEF TypeOK, Has, Idle, Staging, Applying, Resetting, Mailing
  <2>00. \A m \in Sent : m.tok \in minted /\ m.tok # None
    BY SentType DEF LinkInv, MailInv, Mail
  <2>1. CASE UNCHANGED vars
    BY <2>1 DEF vars, LinkInv, MailInv, RowInv, Drawn, Stage, Matches, Unused, Unshared, HandlerInv, Sent, Has
  \* A new account, with a link on its way: the token is new.
  <2>2. ASSUME NEW h \in Handlers, NEW u \in Ids, NEW e \in Emails, NEW t \in Tokens,
               Register(h, u, e, t), verification
        PROVE  LinkInv'
    <3> DEFINE msg == [to |-> e, kind |-> "verify", tok |-> t]
    <3>1. Sent' = Sent \cup {msg} /\ t \notin minted /\ minted' = minted \cup {t}
      BY <2>2, SentGrows DEF Register, Kind
    <3>2. /\ row' = [row EXCEPT ![u] = NewRow(e, FALSE, t)]
          /\ UNCHANGED <<uses, proven>> /\ ids' = ids \cup {u} /\ u \notin ids
      BY <2>2 DEF Register, Update
    <3>3. /\ row'[u].verified = FALSE /\ row'[u].vtok = t /\ row'[u].email = e
          /\ row'[u].rtok = None /\ row'[u].etok = None
          /\ \A v \in Ids \ {u} : row'[v] = row[v]
      <4>1. row'[u] = NewRow(e, FALSE, t) /\ \A v \in Ids \ {u} : row'[v] = row[v]
        BY <3>2 DEF TypeOK
      <4>2. QED
        BY <4>1 DEF NewRow
    <3>4. MailInv'
      BY <3>1 DEF LinkInv, MailInv
    <3>5. RowInv(u)'
      <4>1. Drawn(u)' /\ Stage(u)'
        BY <3>1, <3>3 DEF Drawn, Stage
      <4>2. Matches(u)'
        BY <3>1, <3>3, <2>00 DEF Matches
      <4>3. Unused(u)'
        BY <3>1, <3>2, <3>3 DEF Unused, LinkInv
      <4>4. Unshared(u)'
        BY <3>1, <3>3 DEF Unshared, LinkInv, RowInv, Drawn, Has
      <4>5. QED
        BY <4>1, <4>2, <4>3, <4>4 DEF RowInv
    <3>6. ASSUME NEW v \in Ids \ {u}, Has(v) PROVE RowInv(v)'
      <4>1. \A m \in Sent' : m \in Sent \/ m.tok \in Tokens \ minted
        BY <3>1
      <4>2. minted \subseteq minted'
        BY <3>1
      <4>3. row'[u].vtok \in Tokens \ minted /\ row'[u].rtok = None
        BY <3>1, <3>3
      <4>4. QED
        BY <3>2, <3>3, <3>6, <4>1, <4>2, <4>3, OtherRows
    <3>7. ASSUME NEW g \in Handlers PROVE HandlerInv(g)'
      <4>1. handler' = [handler EXCEPT ![h] = [pc |-> "mail", msg |-> msg]]
        BY <2>2 DEF Register, SendLater, Goto
      <4>2. \A v \in ids : Has(v)' => Has(v) /\ row'[v] = row[v]
        BY <3>2, <3>3 DEF Has, TypeOK
      <4>3. g # h => HandlerInv(g)'
        <5>1. mail \subseteq mail' /\ proven \subseteq proven' /\ ids \subseteq ids'
          BY <2>2, <3>2 DEF Register
        <5>2. \A x \in Handlers \ {h} : handler'[x] = handler[x]
          BY <4>1 DEF TypeOK
        <5>3. QED
          BY <5>1, <5>2, <4>2, OtherHandlers
      <4>4. g = h => HandlerInv(g)'
        BY <4>1 DEF HandlerInv, TypeOK
      <4>5. QED
        BY <4>3, <4>4
    <3>8. \A v \in Ids : Has(v)' => RowInv(v)'
      BY <3>3, <3>5, <3>6 DEF Has
    <3>9. QED
      BY <3>1, <3>2, <3>4, <3>7, <3>8 DEF LinkInv
  \* A new account that needs no link.
  <2>3. ASSUME NEW h \in Handlers, NEW u \in Ids, NEW e \in Emails, NEW t \in Tokens,
               Register(h, u, e, t), ~verification
        PROVE  LinkInv'
    <3>1. /\ row' = [row EXCEPT ![u] = NewRow(e, TRUE, None)] /\ u \notin ids
          /\ ids' = ids \cup {u} /\ UNCHANGED <<minted, mail, proven, uses, handler>>
      BY <2>3 DEF Register, Update
    <3>2. Sent' = Sent
      BY <3>1 DEF Sent
    <3>3. /\ row'[u].verified /\ row'[u].vtok = None
          /\ row'[u].rtok = None /\ row'[u].etok = None
          /\ \A v \in Ids \ {u} : row'[v] = row[v]
      <4>1. row'[u] = NewRow(e, TRUE, None) /\ \A v \in Ids \ {u} : row'[v] = row[v]
        BY <3>1 DEF TypeOK
      <4>2. QED
        BY <4>1 DEF NewRow
    <3>4. RowInv(u)'
      BY <2>00, <3>2, <3>3 DEF RowInv, Drawn, Stage, Matches, Unused, Unshared
    <3>5. ASSUME NEW v \in Ids \ {u}, Has(v) PROVE RowInv(v)'
      <4>1. minted \subseteq minted' /\ \A m \in Sent' : m \in Sent
        BY <3>1, <3>2
      <4>2. QED
        BY <3>1, <3>3, <3>5, <4>1, OtherRows
    <3>6. \A g \in Handlers : HandlerInv(g)'
      <4>1. \A v \in ids : row'[v] = row[v]
        BY <3>1, <3>3 DEF TypeOK
      <4>2. QED
        BY <3>1, <4>1, OtherHandlers
    <3>7. MailInv' /\ \A x \in Tokens \ minted' : uses'[x] = 0
      BY <3>1, <3>2 DEF LinkInv, MailInv
    <3>8. \A v \in Ids : Has(v)' => RowInv(v)'
      BY <3>3, <3>4, <3>5
    <3>9. QED
      BY <3>6, <3>7, <3>8 DEF LinkInv
  <2>4. ASSUME NEW h \in Handlers, NEW u \in Ids, RequestReset(h, u) PROVE LinkInv'
    BY <2>0, <2>4 DEF RequestReset, LinkInv, MailInv, RowInv, Drawn, Stage, Matches, Unused, Unshared, HandlerInv, Sent, Has, Goto, history, TypeOK
  <2>5. ASSUME NEW h \in Handlers, NEW u \in Ids, NEW e \in Emails, CheckEmailChange(h, u, e)
        PROVE  LinkInv'
    BY <2>0, <2>5 DEF CheckEmailChange, LinkInv, MailInv, RowInv, Drawn, Stage, Matches, Unused, Unshared, HandlerInv, Sent, Has, Goto, history, TypeOK
  \* A reset token is written and about to be mailed.
  <2>6. ASSUME NEW h \in Handlers, NEW t \in Tokens, WriteResetToken(h, t) PROVE LinkInv'
    <3>0. PICK u \in Ids : u = handler[h].user
      BY <2>0, <2>6 DEF WriteResetToken, Resetting
    <3> DEFINE msg == [to |-> handler[h].to, kind |-> "reset", tok |-> t]
    <3>1. handler[h] \in Resetting /\ handler[h].to \in Emails
      BY <2>0, <2>6 DEF WriteResetToken, Resetting
    <3>2. /\ Sent' = Sent \cup {msg} /\ t \notin minted /\ minted' = minted \cup {t}
          /\ handler' = [handler EXCEPT ![h] = [pc |-> "mail", msg |-> msg]]
      BY <2>6, <3>1, SentGrows DEF WriteResetToken, Kind, SendLater, Goto
    <3>3. /\ UNCHANGED <<ids, mail, proven, uses>>
          /\ row' = IF Has(u) THEN [row EXCEPT ![u] = ResetBy(row[u], t)] ELSE row
      BY <2>6, <3>0 DEF WriteResetToken, UpdateIf
    <3>4. \A v \in Ids \ {u} : row'[v] = row[v]
      BY <3>3 DEF TypeOK
    <3>5. ASSUME Has(u) PROVE /\ row'[u] # None /\ row'[u].verified = row[u].verified
                              /\ row'[u].vtok = row[u].vtok /\ row'[u].email = row[u].email
                              /\ row'[u].rtok = t /\ row'[u].etok = row[u].etok
                              /\ row'[u].pending = row[u].pending
      <4>1. row'[u] = ResetBy(row[u], t)
        BY <3>1, <3>3, <3>5 DEF TypeOK
      <4>2. row[u] \in Row /\ handler[h].to \in Emails /\ t \in Tokens \cup {None}
        BY <2>0, <3>1, <3>5
      <4>3. QED
        BY <4>1, <4>2, ResetByFields
    <3>6. MailInv'
      BY <3>2 DEF LinkInv, MailInv
    <3>7. ASSUME Has(u) PROVE RowInv(u)'
      <4>1. RowInv(u)
        BY <3>1, <3>7 DEF LinkInv
      <4>2. Drawn(u)' /\ Stage(u)'
        BY <3>2, <3>5, <3>7, <4>1 DEF RowInv, Drawn, Stage
      <4>3. Matches(u)'
        BY <2>00, <3>2, <3>5, <3>7, <4>1 DEF RowInv, Matches, Drawn
      <4>4. Unused(u)'
        BY <3>2, <3>3, <3>5, <3>7, <4>1 DEF RowInv, Unused, LinkInv
      <4>5. Unshared(u)'
        <5>1. ASSUME NEW v \in Ids \ {u}, Has(v) PROVE row[v].rtok # t
          BY <3>2, <5>1 DEF LinkInv, RowInv, Drawn
        <5>2. QED
          BY <3>4, <3>5, <3>7, <4>1, <5>1 DEF RowInv, Unshared
      <4>6. QED
        BY <4>2, <4>3, <4>4, <4>5 DEF RowInv
    <3>8. ASSUME NEW v \in Ids \ {u}, Has(v) PROVE RowInv(v)'
      <4>1. minted \subseteq minted' /\ \A m \in Sent' : m \in Sent \/ m.tok \in Tokens \ minted
        BY <3>2
      <4>2. row'[u] # None => Has(u) /\ row'[u].vtok = row[u].vtok
                              /\ (row'[u].rtok = row[u].rtok \/ row'[u].rtok \in Tokens \ minted)
        BY <3>2, <3>3, <3>5
      <4>3. QED
        BY <3>1, <3>3, <3>4, <3>8, <4>1, <4>2, OtherRows
    <3>9. ASSUME NEW g \in Handlers PROVE HandlerInv(g)'
      <4>1. \A v \in Ids : row'[v] # None => Has(v) /\ (row[v].verified => row'[v].verified)
        BY <3>3, <3>4, <3>5
      <4>2. CASE g = h
        BY <3>2, <4>2 DEF HandlerInv, TypeOK
      <4>3. CASE g # h
        <5>1. \A x \in Handlers \ {h} : handler'[x] = handler[x]
          BY <3>2 DEF TypeOK
        <5>2. \A v \in ids : row'[v] # None => Has(v) /\ (row[v].verified => row'[v].verified)
          BY <4>1 DEF TypeOK
        <5>3. QED
          BY <3>3, <4>3, <5>1, <5>2, OtherHandlers
      <4>4. QED
        BY <4>2, <4>3
    <3>10. \A v \in Ids : row'[v] # None => RowInv(v)'
      BY <3>3, <3>4, <3>7, <3>8
    <3>11. QED
      BY <3>2, <3>3, <3>6, <3>9, <3>10 DEF LinkInv
  \* A new address is staged; only a confirmed account gets here.
  <2>7. ASSUME NEW h \in Handlers, NEW t \in Tokens, StageEmail(h, t) PROVE LinkInv'
    <3>0. PICK u \in Ids : u = handler[h].user
      BY <2>0, <2>7 DEF StageEmail, Staging
    <3> DEFINE msg == [to |-> handler[h].new, kind |-> "change", tok |-> t]
    <3>1. handler[h] \in Staging /\ handler[h].new \in Emails
      BY <2>0, <2>7 DEF StageEmail, Staging
    <3>2. /\ Sent' = Sent \cup {msg} /\ t \notin minted /\ minted' = minted \cup {t}
          /\ handler' = [handler EXCEPT ![h] = [pc |-> "mail", msg |-> msg]]
      BY <2>7, <3>1, SentGrows DEF StageEmail, Kind, SendLater, Goto
    <3>3. /\ UNCHANGED <<ids, mail, proven, uses>>
          /\ row' = IF Has(u) THEN [row EXCEPT ![u] = Staged(row[u], handler[h].new, t)] ELSE row
      BY <2>7, <3>0 DEF StageEmail, UpdateIf
    <3>4. \A v \in Ids \ {u} : row'[v] = row[v]
      BY <3>3 DEF TypeOK
    <3>5. ASSUME Has(u) PROVE /\ row'[u] # None /\ row'[u].verified = row[u].verified
                              /\ row'[u].vtok = row[u].vtok /\ row'[u].email = row[u].email
                              /\ row'[u].rtok = row[u].rtok /\ row'[u].etok = t
                              /\ row'[u].pending = handler[h].new
      <4>1. row'[u] = Staged(row[u], handler[h].new, t)
        BY <3>1, <3>3, <3>5 DEF TypeOK
      <4>2. row[u] \in Row /\ handler[h].new \in Emails /\ t \in Tokens \cup {None}
        BY <2>0, <3>1, <3>5
      <4>3. QED
        BY <4>1, <4>2, StagedFields
    <3>6. MailInv'
      BY <3>2 DEF LinkInv, MailInv
    <3>12. Has(u) => row[u].verified
      BY <2>7, <3>0 DEF LinkInv, HandlerInv, StageEmail
    <3>7. ASSUME Has(u) PROVE RowInv(u)'
      <4>1. RowInv(u)
        BY <3>1, <3>7 DEF LinkInv
      <4>2. Drawn(u)' /\ Stage(u)'
        BY <3>2, <3>5, <3>7, <4>1, <3>12 DEF RowInv, Drawn, Stage
      <4>3. Matches(u)'
        BY <2>00, <3>2, <3>5, <3>7, <4>1 DEF RowInv, Matches, Drawn
      <4>4. Unused(u)'
        BY <3>2, <3>3, <3>5, <3>7, <4>1 DEF RowInv, Unused, LinkInv
      <4>5. Unshared(u)'
        <5>1. ASSUME NEW v \in Ids \ {u}, Has(v) PROVE row[v].rtok # t
          BY <3>2, <5>1 DEF LinkInv, RowInv, Drawn
        <5>2. QED
          BY <3>4, <3>5, <3>7, <4>1, <5>1 DEF RowInv, Unshared
      <4>6. QED
        BY <4>2, <4>3, <4>4, <4>5 DEF RowInv
    <3>8. ASSUME NEW v \in Ids \ {u}, Has(v) PROVE RowInv(v)'
      <4>1. minted \subseteq minted' /\ \A m \in Sent' : m \in Sent \/ m.tok \in Tokens \ minted
        BY <3>2
      <4>2. row'[u] # None => Has(u) /\ row'[u].vtok = row[u].vtok
                              /\ (row'[u].rtok = row[u].rtok \/ row'[u].rtok \in Tokens \ minted)
        BY <3>2, <3>3, <3>5
      <4>3. QED
        BY <3>1, <3>3, <3>4, <3>8, <4>1, <4>2, OtherRows
    <3>9. ASSUME NEW g \in Handlers PROVE HandlerInv(g)'
      <4>1. \A v \in Ids : row'[v] # None => Has(v) /\ (row[v].verified => row'[v].verified)
        BY <3>3, <3>4, <3>5
      <4>2. CASE g = h
        BY <3>2, <4>2 DEF HandlerInv, TypeOK
      <4>3. CASE g # h
        <5>1. \A x \in Handlers \ {h} : handler'[x] = handler[x]
          BY <3>2 DEF TypeOK
        <5>2. \A v \in ids : row'[v] # None => Has(v) /\ (row[v].verified => row'[v].verified)
          BY <4>1 DEF TypeOK
        <5>3. QED
          BY <3>3, <4>3, <5>1, <5>2, OtherHandlers
      <4>4. QED
        BY <4>2, <4>3
    <3>10. \A v \in Ids : row'[v] # None => RowInv(v)'
      BY <3>3, <3>4, <3>7, <3>8
    <3>11. QED
      BY <3>2, <3>3, <3>6, <3>9, <3>10 DEF LinkInv
  \* The address changes at once.
  <2>8. ASSUME NEW h \in Handlers, ChangeEmailNow(h) PROVE LinkInv'
    <3>0. PICK u \in Ids : u = handler[h].user
      BY <2>0, <2>8 DEF ChangeEmailNow, Staging
    <3> DEFINE Edited == Has(u) /\ FreeFor(u, handler[h].new)
    <3>1. handler[h] \in Staging /\ handler[h].new \in Emails
      BY <2>0, <2>8 DEF ChangeEmailNow, Staging
    <3>2. /\ Sent' = Sent /\ UNCHANGED <<ids, minted, mail, proven>>
          /\ handler' = [handler EXCEPT ![h] = Idle]
      BY <2>8, SentKept DEF ChangeEmailNow, history, Goto, Idle
    <3>3. row' = IF Edited THEN [row EXCEPT ![u] = Renamed(row[u], handler[h].new)] ELSE row
      BY <2>8, <3>0 DEF ChangeEmailNow, Update
    <3>4. \A v \in Ids \ {u} : row'[v] = row[v]
      BY <3>3 DEF TypeOK
    <3>5. ASSUME Edited PROVE /\ row'[u] # None /\ row'[u].verified = row[u].verified
                              /\ row'[u].vtok = row[u].vtok /\ row'[u].etok = None
                              /\ row'[u].rtok = row[u].rtok
      <4>1. row'[u] = Renamed(row[u], handler[h].new)
        BY <3>1, <3>3, <3>5 DEF TypeOK
      <4>2. row[u] \in Row /\ handler[h].new \in Emails
        BY <2>0, <3>1, <3>5
      <4>3. QED
        BY <4>1, <4>2, RenamedFields
    <3>6. uses' = uses
      BY <2>8 DEF ChangeEmailNow, history
    <3>7. ASSUME Has(u) PROVE RowInv(u)'
      <4>1. RowInv(u)
        BY <3>7 DEF LinkInv
      <4>2. CASE ~Edited
        BY <3>2, <3>3, <3>4, <3>6, <3>7, <4>1, <4>2 DEF RowInv, Drawn, Stage, Matches, Unused, Unshared
      <4>3. CASE Edited
        <5>1. row[u].verified /\ row[u].vtok = None
          BY <2>8, <3>0, <3>7, <4>1 DEF LinkInv, HandlerInv, ChangeEmailNow, RowInv, Stage
        <5>2. Drawn(u)' /\ Stage(u)'
          BY <3>2, <3>5, <4>1, <4>3, <5>1 DEF RowInv, Drawn, Stage
        <5>3. Matches(u)'
          BY <2>00, <3>2, <3>5, <4>1, <4>3, <5>1 DEF RowInv, Matches
        <5>4. Unused(u)'
          BY <3>5, <3>6, <3>7, <4>1, <4>3 DEF RowInv, Unused
        <5>5. Unshared(u)'
          BY <3>4, <3>5, <4>1, <4>3 DEF RowInv, Unshared
        <5>6. QED
          BY <5>2, <5>3, <5>4, <5>5 DEF RowInv
      <4>4. QED
        BY <4>2, <4>3
    <3>8. ASSUME NEW v \in Ids \ {u}, Has(v) PROVE RowInv(v)'
      <4>1. minted \subseteq minted' /\ \A m \in Sent' : m \in Sent
        BY <3>2
      <4>2. row'[u] # None => Has(u) /\ row'[u].vtok = row[u].vtok /\ row'[u].rtok = row[u].rtok
        BY <3>3, <3>5
      <4>3. QED
        BY <3>4, <3>6, <3>8, <4>1, <4>2, OtherRows
    <3>9. ASSUME NEW g \in Handlers PROVE HandlerInv(g)'
      <4>1. \A v \in ids : row'[v] # None => Has(v) /\ (row[v].verified => row'[v].verified)
        BY <3>3, <3>4, <3>5 DEF TypeOK
      <4>2. CASE g = h
        BY <3>2, <4>2 DEF HandlerInv, TypeOK, Idle
      <4>3. CASE g # h
        BY <3>2, <4>1, <4>3, OtherHandlers DEF TypeOK
      <4>4. QED
        BY <4>2, <4>3
    <3>10. MailInv'
      BY <3>2 DEF LinkInv, MailInv
    <3>11. \A t \in Tokens \ minted' : uses'[t] = 0
      BY <3>2, <3>6 DEF LinkInv
    <3>12. \A v \in Ids : row'[v] # None => RowInv(v)'
      BY <3>3, <3>4, <3>7, <3>8
    <3>13. QED
      BY <3>9, <3>10, <3>11, <3>12 DEF LinkInv
  \* The address of an opened link is applied; its token is no confirmation or reset token.
  <2>9. ASSUME NEW h \in Handlers, ApplyEmailChange(h) PROVE LinkInv'
    <3>0. PICK u \in Ids : u = handler[h].user
      BY <2>0, <2>9 DEF ApplyEmailChange, Applying
    <3> DEFINE Edited == Has(u) /\ FreeFor(u, handler[h].new)
    <3>1. handler[h] \in Applying /\ handler[h].new \in Emails
      BY <2>0, <2>9 DEF ApplyEmailChange, Applying
    <3>2. /\ Sent' = Sent /\ UNCHANGED <<ids, minted, mail, proven>>
          /\ handler' = [handler EXCEPT ![h] = Idle]
      BY <2>9, SentKept DEF ApplyEmailChange, history, Goto, Idle
    <3>3. row' = IF Edited THEN [row EXCEPT ![u] = Renamed(row[u], handler[h].new)] ELSE row
      BY <2>9, <3>0 DEF ApplyEmailChange, Update
    <3>4. \A v \in Ids \ {u} : row'[v] = row[v]
      BY <3>3 DEF TypeOK
    <3>5. ASSUME Edited PROVE /\ row'[u] # None /\ row'[u].verified = row[u].verified
                              /\ row'[u].vtok = row[u].vtok /\ row'[u].etok = None
                              /\ row'[u].rtok = row[u].rtok
      <4>1. row'[u] = Renamed(row[u], handler[h].new)
        BY <3>1, <3>3, <3>5 DEF TypeOK
      <4>2. row[u] \in Row /\ handler[h].new \in Emails
        BY <2>0, <3>1, <3>5
      <4>3. QED
        BY <4>1, <4>2, RenamedFields
    <3>6. \A v \in Ids, t \in Tokens : Has(v) /\ t \in {row[v].vtok, row[v].rtok} => uses'[t] = uses[t]
      <4>1. PICK m \in mail : m.kind = "change" /\ m.tok = handler[h].tok
        BY <2>9 DEF LinkInv, HandlerInv, ApplyEmailChange
      <4>2. m \in Sent
        BY <4>1 DEF Sent
      <4>3. \A v \in Ids : Has(v) => handler[h].tok \notin {row[v].vtok, row[v].rtok}
        BY <4>1, <4>2 DEF LinkInv, RowInv, Matches
      <4>4. uses' = [uses EXCEPT ![handler[h].tok] = @ + 1] \/ uses' = uses
        BY <2>9 DEF ApplyEmailChange, Used
      <4>5. QED
        BY <4>3, <4>4 DEF TypeOK
    <3>7. ASSUME Has(u) PROVE RowInv(u)'
      <4>1. RowInv(u)
        BY <3>7 DEF LinkInv
      <4>2. CASE ~Edited
        BY <3>2, <3>3, <3>4, <3>6, <3>7, <4>1, <4>2 DEF RowInv, Drawn, Stage, Matches, Unused, Unshared
      <4>3. CASE Edited
        <5>1. row[u].verified /\ row[u].vtok = None
          BY <2>9, <3>0, <3>7, <4>1 DEF LinkInv, HandlerInv, ApplyEmailChange, RowInv, Stage
        <5>2. Drawn(u)' /\ Stage(u)'
          BY <3>2, <3>5, <4>1, <4>3, <5>1 DEF RowInv, Drawn, Stage
        <5>3. Matches(u)'
          BY <2>00, <3>2, <3>5, <4>1, <4>3, <5>1 DEF RowInv, Matches
        <5>4. Unused(u)'
          BY <3>5, <3>6, <3>7, <4>1, <4>3 DEF RowInv, Unused
        <5>5. Unshared(u)'
          BY <3>4, <3>5, <4>1, <4>3 DEF RowInv, Unshared
        <5>6. QED
          BY <5>2, <5>3, <5>4, <5>5 DEF RowInv
      <4>4. QED
        BY <4>2, <4>3
    <3>8. ASSUME NEW v \in Ids \ {u}, Has(v) PROVE RowInv(v)'
      <4>1. minted \subseteq minted' /\ \A m \in Sent' : m \in Sent
        BY <3>2
      <4>2. row'[u] # None => Has(u) /\ row'[u].vtok = row[u].vtok /\ row'[u].rtok = row[u].rtok
        BY <3>3, <3>5
      <4>3. QED
        BY <3>4, <3>6, <3>8, <4>1, <4>2, OtherRows
    <3>9. ASSUME NEW g \in Handlers PROVE HandlerInv(g)'
      <4>1. \A v \in ids : row'[v] # None => Has(v) /\ (row[v].verified => row'[v].verified)
        BY <3>3, <3>4, <3>5 DEF TypeOK
      <4>2. CASE g = h
        BY <3>2, <4>2 DEF HandlerInv, TypeOK, Idle
      <4>3. CASE g # h
        BY <3>2, <4>1, <4>3, OtherHandlers DEF TypeOK
      <4>4. QED
        BY <4>2, <4>3
    <3>10. MailInv'
      BY <3>2 DEF LinkInv, MailInv
    <3>11. \A t \in Tokens \ minted' : uses'[t] = 0
      <4>1. PICK m \in mail : m.tok = handler[h].tok
        BY <2>9 DEF LinkInv, HandlerInv, ApplyEmailChange
      <4>2. m.tok \in minted
        BY <4>1, <2>00 DEF Sent
      <4>3. uses' = [uses EXCEPT ![handler[h].tok] = @ + 1] \/ uses' = uses
        BY <2>9 DEF ApplyEmailChange, Used
      <4>4. QED
        BY <3>2, <4>1, <4>2, <4>3 DEF LinkInv, TypeOK
    <3>12. \A v \in Ids : row'[v] # None => RowInv(v)'
      BY <3>3, <3>4, <3>7, <3>8
    <3>13. QED
      BY <3>9, <3>10, <3>11, <3>12 DEF LinkInv
  <2>10. ASSUME NEW h \in Handlers, NEW m \in mail, OpenChangeLink(h, m) PROVE LinkInv'
    BY <2>0, <2>10 DEF OpenChangeLink, LinkInv, MailInv, RowInv, Drawn, Stage, Matches, Unused, Unshared, HandlerInv, Sent, Has, Goto, TypeOK
  <2>11. ASSUME NEW h \in Handlers, SendMail(h) PROVE LinkInv'
    BY <2>0, <2>11 DEF SendMail, LinkInv, MailInv, RowInv, Drawn, Stage, Matches, Unused, Unshared, HandlerInv, Sent, Has, Goto, TypeOK, Idle
  <2>12. ASSUME NEW h \in Handlers, Abandon(h) PROVE LinkInv'
    BY <2>0, <2>12 DEF Abandon, LinkInv, MailInv, RowInv, Drawn, Stage, Matches, Unused, Unshared, HandlerInv, Sent, Has, Goto, history, TypeOK, Idle
  \* The confirmation link leaves its row; no other row holds it.
  <2>13. ASSUME NEW m \in mail, VerifyEmail(m) PROVE LinkInv'
    <3>1. PICK u \in Ids : /\ Has(u) /\ row[u].vtok = m.tok
                          /\ row' = [row EXCEPT ![u] = Confirmed(row[u])]
                          /\ proven' = proven \cup {<<u, m.to>>}
      BY <2>13 DEF VerifyEmail, Update
    <3>2. /\ m.kind = "verify" /\ m \in Sent /\ m.tok \in minted /\ m.tok \in Tokens /\ m.tok # None
          /\ uses' = [uses EXCEPT ![m.tok] = @ + 1] /\ UNCHANGED <<ids, minted, mail, handler>>
      BY <2>13, <2>00 DEF VerifyEmail, Used, Sent, TypeOK
    <3>3. Sent' = Sent
      BY <3>2 DEF Sent
    <3>4. /\ row'[u].verified /\ row'[u].vtok = None /\ row'[u].email = row[u].email
          /\ row'[u].rtok = row[u].rtok /\ row'[u].pending = row[u].pending
          /\ row'[u].etok = row[u].etok /\ \A v \in Ids \ {u} : row'[v] = row[v]
      <4>1. row'[u] = Confirmed(row[u]) /\ \A v \in Ids \ {u} : row'[v] = row[v]
        BY <3>1 DEF TypeOK
      <4>2. row[u] \in Row /\ None \in Tokens \cup {None} /\ m.to \in Emails
        BY <2>0, <3>1, <3>2, SentType DEF Mail
      <4>3. QED
        BY <4>1, <4>2, ConfirmedFields
    <3>5. \A v \in Ids : Has(v) /\ v # u => m.tok \notin {row[v].vtok, row[v].rtok}
      BY <3>1, <3>2 DEF LinkInv, RowInv, Unshared, Matches
    <3>6. m.tok # row[u].rtok
      BY <3>1, <3>2 DEF LinkInv, RowInv, Matches
    <3>7. \A t \in Tokens \ {m.tok} : uses'[t] = uses[t]
      BY <3>2 DEF TypeOK
    <3>8. RowInv(u)'
      <4>1. RowInv(u)
        BY <3>1 DEF LinkInv
      <4>2. Drawn(u)' /\ Stage(u)'
        BY <3>2, <3>4, <4>1 DEF RowInv, Drawn, Stage
      <4>3. Matches(u)'
        BY <3>3, <3>4, <4>1, <2>00 DEF RowInv, Matches
      <4>4. Unused(u)'
        BY <3>4, <3>6, <3>7, <4>1 DEF RowInv, Unused
      <4>5. Unshared(u)'
        BY <3>4, <4>1 DEF RowInv, Unshared
      <4>6. QED
        BY <4>2, <4>3, <4>4, <4>5 DEF RowInv
    <3>9. ASSUME NEW v \in Ids \ {u}, Has(v) PROVE RowInv(v)'
      <4>1. minted \subseteq minted' /\ \A n \in Sent' : n \in Sent
        BY <3>2, <3>3
      <4>2. \A w \in Ids \ {u}, t \in Tokens :
              Has(w) /\ t \in {row[w].vtok, row[w].rtok} => uses'[t] = uses[t]
        BY <3>5, <3>7
      <4>3. QED
        BY <3>1, <3>4, <3>9, <4>1, <4>2, OtherRows
    <3>10. \A h \in Handlers : HandlerInv(h)'
      BY <3>1, <3>2, <3>4 DEF LinkInv, HandlerInv
    <3>11. MailInv' /\ \A t \in Tokens \ minted' : uses'[t] = 0
      BY <3>2, <3>3, <3>7 DEF LinkInv, MailInv
    <3>12. \A v \in Ids : Has(v)' => RowInv(v)'
      BY <3>4, <3>8, <3>9
    <3>13. QED
      BY <3>10, <3>11, <3>12 DEF LinkInv
  \* The reset link leaves its row; no other row holds it.
  <2>14. ASSUME NEW m \in mail, ResetPassword(m) PROVE LinkInv'
    <3>1. PICK u \in Ids : /\ Has(u) /\ row[u].rtok = m.tok
                          /\ row' = [row EXCEPT ![u] = ResetBy(row[u], None)]
      BY <2>14 DEF ResetPassword, Update
    <3>2. /\ m.kind = "reset" /\ m \in Sent /\ m.tok \in minted /\ m.tok # None
          /\ uses' = [uses EXCEPT ![m.tok] = @ + 1]
          /\ UNCHANGED <<ids, minted, mail, proven, handler>>
      BY <2>14, <2>00 DEF ResetPassword, Used, Sent
    <3>3. Sent' = Sent
      BY <3>2 DEF Sent
    <3>4. /\ row'[u].verified = row[u].verified /\ row'[u].vtok = row[u].vtok
          /\ row'[u].email = row[u].email /\ row'[u].rtok = None
          /\ row'[u].pending = row[u].pending /\ row'[u].etok = row[u].etok
          /\ \A v \in Ids \ {u} : row'[v] = row[v]
      <4>1. row'[u] = ResetBy(row[u], None) /\ \A v \in Ids \ {u} : row'[v] = row[v]
        BY <3>1 DEF TypeOK
      <4>2. row[u] \in Row /\ None \in Tokens \cup {None}
        BY <2>0, <3>1
      <4>3. QED
        BY <4>1, <4>2, ResetByFields
    <3>5. \A v \in Ids : Has(v) /\ v # u => m.tok \notin {row[v].vtok, row[v].rtok}
      BY <3>1, <3>2 DEF LinkInv, RowInv, Unshared, Matches
    <3>6. m.tok # row[u].vtok
      BY <3>1, <3>2 DEF LinkInv, RowInv, Matches
    <3>7. \A t \in Tokens \ {m.tok} : uses'[t] = uses[t]
      BY <3>2 DEF TypeOK
    <3>8. RowInv(u)'
      <4>1. RowInv(u)
        BY <3>1 DEF LinkInv
      <4>2. Drawn(u)' /\ Stage(u)'
        BY <3>2, <3>4, <4>1 DEF RowInv, Drawn, Stage
      <4>3. Matches(u)'
        BY <3>3, <3>4, <4>1, <2>00 DEF RowInv, Matches
      <4>4. Unused(u)'
        BY <3>4, <3>6, <3>7, <4>1 DEF RowInv, Unused
      <4>5. Unshared(u)'
        BY <3>4, <4>1 DEF RowInv, Unshared
      <4>6. QED
        BY <4>2, <4>3, <4>4, <4>5 DEF RowInv
    <3>9. ASSUME NEW v \in Ids \ {u}, Has(v) PROVE RowInv(v)'
      <4>1. minted \subseteq minted' /\ \A n \in Sent' : n \in Sent
        BY <3>2, <3>3
      <4>2. \A w \in Ids \ {u}, t \in Tokens :
              Has(w) /\ t \in {row[w].vtok, row[w].rtok} => uses'[t] = uses[t]
        BY <3>5, <3>7
      <4>3. QED
        BY <3>1, <3>4, <3>9, <4>1, <4>2, OtherRows
    <3>10. \A h \in Handlers : HandlerInv(h)'
      BY <3>1, <3>2, <3>4 DEF LinkInv, HandlerInv
    <3>11. MailInv' /\ \A t \in Tokens \ minted' : uses'[t] = 0
      BY <3>2, <3>3, <3>7 DEF LinkInv, MailInv
    <3>12. \A v \in Ids : Has(v)' => RowInv(v)'
      BY <3>4, <3>8, <3>9
    <3>13. QED
      BY <3>10, <3>11, <3>12 DEF LinkInv
  <2>15. ASSUME NEW u \in Ids, DeleteAccount(u) PROVE LinkInv'
    BY <2>0, <2>15 DEF DeleteAccount, LinkInv, MailInv, RowInv, Drawn, Stage, Matches, Unused, Unshared, HandlerInv, Sent, Has, Update, history, TypeOK
  <2>16. ASSUME NEW t \in Tokens, Expire(t) PROVE LinkInv'
    BY <2>0, <2>16 DEF Expire, LinkInv, MailInv, RowInv, Drawn, Stage, Matches, Unused, Unshared, HandlerInv, Sent, Has, history, TypeOK
  <2>17. QED
    BY <2>1, <2>2, <2>3, <2>4, <2>5, <2>6, <2>7, <2>8, <2>9, <2>10, <2>11, <2>12, <2>13,
       <2>14, <2>15, <2>16 DEF Next
<1>3. QED
  BY <1>1, <1>2, TypeCorrect, PTL DEF Spec

-----------------------------------------------------------------------------
\* An account becomes usable, or changes its address, only to one that was proven for it.
THEOREM AddressesAreProven == Spec => []EmailProven
<1> USE DEF Has
<1>1. Init => EmailProven
  BY DEF Init, EmailProven
<1>2. TypeOK /\ LinkInv /\ EmailProven /\ [Next]_vars => EmailProven'
  <2> SUFFICES ASSUME TypeOK, LinkInv, EmailProven, [Next]_vars PROVE EmailProven'
    OBVIOUS
  <2>0. \A u \in Ids : Has(u) => row[u] \in Row
    BY DEF TypeOK
  <2> DEFINE Kept(u) == /\ verification' = verification /\ proven \subseteq proven'
                        /\ row'[u] # None /\ row'[u].verified =>
                             Has(u) /\ row[u].verified /\ row'[u].email = row[u].email
  <2>1. ASSUME \A u \in Ids : Kept(u) PROVE EmailProven'
    BY <2>1 DEF EmailProven
  <2>2. ASSUME UNCHANGED <<verification, row>>, proven \subseteq proven' PROVE EmailProven'
    BY <2>1, <2>2
  <2>3. ASSUME NEW h \in Handlers, NEW v \in Ids, NEW e \in Emails, NEW t \in Tokens,
               Register(h, v, e, t)
        PROVE  EmailProven'
    <3>1. CASE ~verification
      BY <2>3, <3>1 DEF Register, EmailProven
    <3>2. CASE verification
      <4>1. row' = [row EXCEPT ![v] = NewRow(e, FALSE, t)] /\ UNCHANGED <<verification, proven>>
        BY <2>3, <3>2 DEF Register, Update
      <4>2. \A u \in Ids \ {v} : row'[u] = row[u]
        BY <4>1 DEF TypeOK
      <4>3. ~row'[v].verified
        BY <4>1 DEF NewRow, TypeOK
      <4>4. QED
        BY <2>1, <4>1, <4>2, <4>3
    <3>3. QED
      BY <3>1, <3>2
  <2>4. ASSUME NEW h \in Handlers, NEW t \in Tokens, WriteResetToken(h, t) PROVE EmailProven'
    <3>1. PICK v \in Ids : v = handler[h].user
      BY <2>4 DEF WriteResetToken, TypeOK, Resetting, Mailing, Staging, Applying, Idle
    <3>2. /\ row' = IF Has(v) THEN [row EXCEPT ![v] = ResetBy(row[v], t)] ELSE row
          /\ UNCHANGED <<verification, proven>>
      BY <2>4, <3>1 DEF WriteResetToken, UpdateIf
    <3>3. \A u \in Ids \ {v} : row'[u] = row[u]
      BY <3>2 DEF TypeOK
    <3>4. Has(v) => row'[v].verified = row[v].verified /\ row'[v].email = row[v].email
      BY <2>0, <3>2, ResetByFields DEF TypeOK
    <3>5. QED
      BY <2>1, <3>2, <3>3, <3>4
  <2>5. ASSUME NEW h \in Handlers, NEW t \in Tokens, StageEmail(h, t) PROVE EmailProven'
    <3>1. PICK v \in Ids : v = handler[h].user /\ handler[h].new \in Emails
      BY <2>5 DEF StageEmail, TypeOK, Resetting, Mailing, Staging, Applying, Idle
    <3>2. /\ row' = IF Has(v) THEN [row EXCEPT ![v] = Staged(row[v], handler[h].new, t)] ELSE row
          /\ UNCHANGED <<verification, proven>>
      BY <2>5, <3>1 DEF StageEmail, UpdateIf
    <3>3. \A u \in Ids \ {v} : row'[u] = row[u]
      BY <3>2 DEF TypeOK
    <3>4. Has(v) => row'[v].verified = row[v].verified /\ row'[v].email = row[v].email
      BY <2>0, <3>1, <3>2, StagedFields DEF TypeOK
    <3>5. QED
      BY <2>1, <3>2, <3>3, <3>4
  \* Only an unverified deployment changes an address at once.
  <2>6. ASSUME NEW h \in Handlers, ChangeEmailNow(h) PROVE EmailProven'
    BY <2>6 DEF ChangeEmailNow, EmailProven
  \* The link that was opened proved the address it brings.
  <2>7. ASSUME NEW h \in Handlers, ApplyEmailChange(h) PROVE EmailProven'
    <3>1. PICK v \in Ids : v = handler[h].user /\ handler[h].new \in Emails
      BY <2>7 DEF ApplyEmailChange, TypeOK, Resetting, Mailing, Staging, Applying, Idle
    <3>2. /\ \/ Has(v) /\ row' = [row EXCEPT ![v] = Renamed(row[v], handler[h].new)]
             \/ row' = row
          /\ UNCHANGED <<verification, proven>>
      BY <2>7, <3>1 DEF ApplyEmailChange, Update
    <3>3. <<v, handler[h].new>> \in proven
      BY <2>7, <3>1 DEF LinkInv, HandlerInv, ApplyEmailChange
    <3>4. CASE row' = row
      BY <2>2, <3>2, <3>4
    <3>5. CASE Has(v) /\ row' = [row EXCEPT ![v] = Renamed(row[v], handler[h].new)]
      <4>1. row'[v].email = handler[h].new /\ \A u \in Ids \ {v} : row'[u] = row[u]
        BY <2>0, <3>1, <3>5, RenamedFields DEF TypeOK
      <4>2. QED
        BY <3>2, <3>3, <4>1 DEF EmailProven
    <3>6. QED
      BY <3>2, <3>4, <3>5
  \* The confirmation link was mailed to the address the row still has.
  <2>8. ASSUME NEW m \in mail, VerifyEmail(m) PROVE EmailProven'
    <3>1. PICK v \in Ids : /\ Has(v) /\ row[v].vtok = m.tok
                          /\ row' = [row EXCEPT ![v] = Confirmed(row[v])]
                          /\ proven' = proven \cup {<<v, m.to>>}
      BY <2>8 DEF VerifyEmail, Update
    <3>2. m.to = row[v].email
      BY <3>1 DEF LinkInv, RowInv, Matches, Sent
    <3>3. row'[v].email = row[v].email /\ \A u \in Ids \ {v} : row'[u] = row[u]
      BY <2>0, <3>1, ConfirmedFields DEF TypeOK
    <3>4. verification' = verification
      BY <2>8 DEF VerifyEmail
    <3>5. QED
      BY <3>1, <3>2, <3>3, <3>4 DEF EmailProven
  <2>9. ASSUME NEW m \in mail, ResetPassword(m) PROVE EmailProven'
    <3>1. PICK v \in Ids : Has(v) /\ row' = [row EXCEPT ![v] = ResetBy(row[v], None)]
      BY <2>9 DEF ResetPassword, Update
    <3>2. \A u \in Ids \ {v} : row'[u] = row[u]
      BY <3>1 DEF TypeOK
    <3>3. row'[v].verified = row[v].verified /\ row'[v].email = row[v].email
      BY <2>0, <3>1, ResetByFields DEF TypeOK
    <3>4. UNCHANGED <<verification, proven>>
      BY <2>9 DEF ResetPassword
    <3>5. QED
      BY <2>1, <3>1, <3>2, <3>3, <3>4
  <2>10. ASSUME NEW u \in Ids, DeleteAccount(u) PROVE EmailProven'
    <3>1. row' = [row EXCEPT ![u] = None] /\ UNCHANGED <<verification, proven>>
      BY <2>10 DEF DeleteAccount, Update, history
    <3>2. row'[u] = None /\ \A v \in Ids \ {u} : row'[v] = row[v]
      BY <3>1 DEF TypeOK
    <3>3. QED
      BY <2>1, <3>1, <3>2
  <2>11. QED
    BY <2>2, <2>3, <2>4, <2>5, <2>6, <2>7, <2>8, <2>9, <2>10
    DEF Next, vars, history, RequestReset, CheckEmailChange, OpenChangeLink, SendMail, Abandon, Expire
<1>3. QED
  BY <1>1, <1>2, TypeCorrect, LinkInvInductive, PTL DEF Spec

-----------------------------------------------------------------------------
\* A confirmation or reset link of a row is unused, and using it takes it off the row.
THEOREM LinksWorkOnce == Spec => []SingleUse
<1> DEFINE UseInv == \A m \in Sent : m.kind \in {"verify", "reset"} => uses[m.tok] <= 1
<1>1. Init => UseInv
  BY DEF Init, Sent, Idle
<1>2. TypeOK /\ LinkInv /\ UseInv /\ [Next]_vars => UseInv'
  <2> SUFFICES ASSUME TypeOK, LinkInv, UseInv, [Next]_vars PROVE UseInv'
    OBVIOUS
  <2> USE DEF Has
  <2>0. \A m \in Sent : m \in Mail
    BY SentType
  <2>1. ASSUME uses' = uses, \A m \in Sent' : m \in Sent \/ m.tok \in Tokens \ minted
        PROVE  UseInv'
    BY <2>1 DEF LinkInv
  <2>2. ASSUME NEW t \in Tokens, uses' = [uses EXCEPT ![t] = @ + 1], Sent' = Sent,
               uses[t] = 0 \/ \E m \in Sent : m.tok = t /\ m.kind = "change"
        PROVE  UseInv'
    <3>1. ASSUME NEW m \in Sent, m.kind \in {"verify", "reset"} PROVE uses'[m.tok] <= 1
      <4>1. CASE m.tok # t
        BY <2>0, <2>2, <3>1, <4>1 DEF TypeOK, Mail
      <4>2. CASE m.tok = t
        <5>1. uses[t] = 0
          BY <2>2, <3>1, <4>2 DEF LinkInv, MailInv
        <5>2. QED
          BY <2>2, <4>2, <5>1 DEF TypeOK
      <4>3. QED
        BY <4>1, <4>2
    <3>2. QED
      BY <2>2, <3>1
  <2>3. ASSUME NEW h \in Handlers, NEW u \in Ids, NEW e \in Emails, NEW t \in Tokens,
               Register(h, u, e, t)
        PROVE  UseInv'
    <3>1. CASE verification
      <4>1. Sent' = Sent \cup {[to |-> e, kind |-> "verify", tok |-> t]}
        BY <2>3, <3>1, SentGrows DEF Register, Kind
      <4>2. uses' = uses /\ t \in Tokens \ minted
        BY <2>3, <3>1 DEF Register
      <4>3. QED
        BY <2>1, <4>1, <4>2
    <3>2. CASE ~verification
      BY <2>1, <2>3, <3>2 DEF Register, Sent
    <3>3. QED
      BY <3>1, <3>2
  <2>4. ASSUME NEW h \in Handlers, NEW t \in Tokens, WriteResetToken(h, t) PROVE UseInv'
    <3>1. handler[h].to \in Emails
      BY <2>4 DEF WriteResetToken, TypeOK, Idle, Mailing, Resetting, Staging, Applying
    <3>2. Sent' = Sent \cup {[to |-> handler[h].to, kind |-> "reset", tok |-> t]}
      BY <2>4, <3>1, SentGrows DEF WriteResetToken, Kind
    <3>3. uses' = uses /\ t \in Tokens \ minted
      BY <2>4 DEF WriteResetToken
    <3>4. QED
      BY <2>1, <3>2, <3>3
  <2>5. ASSUME NEW h \in Handlers, NEW t \in Tokens, StageEmail(h, t) PROVE UseInv'
    <3>1. handler[h].new \in Emails
      BY <2>5 DEF StageEmail, TypeOK, Idle, Mailing, Resetting, Staging, Applying
    <3>2. Sent' = Sent \cup {[to |-> handler[h].new, kind |-> "change", tok |-> t]}
      BY <2>5, <3>1, SentGrows DEF StageEmail, Kind
    <3>3. uses' = uses /\ t \in Tokens \ minted
      BY <2>5 DEF StageEmail
    <3>4. QED
      BY <2>1, <3>2, <3>3
  <2>6. ASSUME NEW h \in Handlers, ApplyEmailChange(h) PROVE UseInv'
    <3>1. Sent' = Sent
      BY <2>6, SentKept DEF ApplyEmailChange, Idle
    <3>2. PICK m \in mail : m.kind = "change" /\ m.tok = handler[h].tok
      BY <2>6 DEF LinkInv, HandlerInv, ApplyEmailChange
    <3>3. m \in Sent /\ m.tok \in Tokens
      BY <2>0, <3>2 DEF Sent, Mail
    <3>4. uses' = uses \/ uses' = [uses EXCEPT ![m.tok] = @ + 1]
      BY <2>6, <3>2 DEF ApplyEmailChange, Used
    <3>5. QED
      BY <2>1, <2>2, <3>1, <3>2, <3>3, <3>4
  <2>7. ASSUME NEW m \in mail, VerifyEmail(m) PROVE UseInv'
    <3>1. m.tok \in Tokens /\ Sent' = Sent /\ uses' = [uses EXCEPT ![m.tok] = @ + 1]
      BY <2>0, <2>7 DEF VerifyEmail, Sent, Mail, Used
    <3>2. uses[m.tok] = 0
      BY <2>7, <3>1 DEF VerifyEmail, LinkInv, RowInv, Unused
    <3>3. QED
      BY <2>2, <3>1, <3>2
  <2>8. ASSUME NEW m \in mail, ResetPassword(m) PROVE UseInv'
    <3>1. m.tok \in Tokens /\ Sent' = Sent /\ uses' = [uses EXCEPT ![m.tok] = @ + 1]
      BY <2>0, <2>8 DEF ResetPassword, Sent, Mail, Used
    <3>2. uses[m.tok] = 0
      BY <2>8, <3>1 DEF ResetPassword, LinkInv, RowInv, Unused
    <3>3. QED
      BY <2>2, <3>1, <3>2
  \* Handing a mail over only moves it from the handler to the server.
  <2>9. ASSUME NEW h \in Handlers, SendMail(h) \/ Abandon(h) PROVE UseInv'
    <3>1. uses' = uses /\ Sent' \subseteq Sent
      BY <2>9 DEF SendMail, Abandon, history, Sent, Goto, TypeOK, Idle
    <3>2. QED
      BY <2>1, <3>1
  <2>10. ASSUME NEW h \in Handlers, uses' = uses, mail' = mail, NEW s, s.pc # "mail", Goto(h, s),
                handler[h].pc # "mail"
         PROVE  UseInv'
    BY <2>1, <2>10, SentKept
  <2>11. ASSUME NEW h \in Handlers, ChangeEmailNow(h) PROVE UseInv'
    BY <2>10, <2>11 DEF ChangeEmailNow, history, Idle
  <2>12. ASSUME NEW h \in Handlers, NEW u \in Ids, RequestReset(h, u) PROVE UseInv'
    BY <2>10, <2>12 DEF RequestReset, history
  <2>13. ASSUME NEW h \in Handlers, NEW u \in Ids, NEW e \in Emails, CheckEmailChange(h, u, e)
         PROVE  UseInv'
    BY <2>10, <2>13 DEF CheckEmailChange, history
  <2>14. ASSUME NEW h \in Handlers, NEW m \in mail, OpenChangeLink(h, m) PROVE UseInv'
    BY <2>10, <2>14 DEF OpenChangeLink
  <2>15. ASSUME UNCHANGED <<uses, mail, handler>> PROVE UseInv'
    BY <2>1, <2>15 DEF Sent
  <2>16. QED
    BY <2>3, <2>4, <2>5, <2>6, <2>7, <2>8, <2>9, <2>11, <2>12, <2>13, <2>14, <2>15
    DEF Next, vars, history, DeleteAccount, Expire
<1>3. UseInv => SingleUse
  BY DEF SingleUse, Sent
<1>4. QED
  BY <1>1, <1>2, <1>3, TypeCorrect, LinkInvInductive, PTL DEF Spec

=============================================================================
