------------------------------ MODULE Accounts ------------------------------
(***************************************************************************)
(* Accounts and their emailed single-use links, as the handlers of         *)
(* framework/src/auth_module.rs keep them: registration and its            *)
(* confirmation, the password reset, the change of the account's address   *)
(* and the removal of the account.                                         *)
(*                                                                         *)
(* Each SQL statement is atomic; a handler that runs several gives up      *)
(* control between them, and mail leaves in the background after the       *)
(* handler has written its token.  A link is opened by whoever reads the   *)
(* mail, any number of times.                                              *)
(***************************************************************************)
EXTENDS Naturals

CONSTANTS
  Ids,        \* users.id (AUTOINCREMENT: never reused)
  Emails,     \* addresses, in the lower-cased form they are stored in
  Tokens,     \* random UUIDs
  Handlers,   \* requests being handled at the same time
  None        \* Rust's None, SQL's NULL, a row that is not there

VARIABLES
  verification,  \* AppData.email_verification_enabled, fixed by the environment
  row,           \* the users table
  ids,           \* history: ids the table has handed out
  minted,        \* history: tokens drawn so far
  expired,       \* tokens past their expiry
  mail,          \* history: every mail sent, as [to, kind, tok]
  proven,        \* history: <<id, address>>: a link mailed there for id was opened
  uses,          \* history: how often each link did what it was mailed for
  handler        \* what a multi-step handler remembers between two awaits

vars == <<verification, row, ids, minted, expired, mail, proven, uses, handler>>
history == <<ids, minted, mail, proven, uses>>

Kind  == {"verify", "reset", "change"}
Row   == [email : Emails, verified : BOOLEAN, vtok : Tokens \cup {None},
          rtok : Tokens \cup {None}, pending : Emails \cup {None}, etok : Tokens \cup {None}]
ASSUME NoneAssumption == None \notin Emails /\ None \notin Tokens /\ None \notin Row

Mail  == [to : Emails, kind : Kind, tok : Tokens]
Idle  == [pc |-> "idle"]

\* A token written but not mailed yet; a reset request that has read its row; an email
\* change whose checks passed; an opened email-change link whose row was found.
Mailing   == [pc : {"mail"}, msg : Mail]
Resetting == [pc : {"reset"}, user : Ids, to : Emails]
Staging   == [pc : {"stage"}, user : Ids, new : Emails]
Applying  == [pc : {"apply"}, user : Ids, new : Emails, tok : Tokens]

TypeOK ==
  /\ verification \in BOOLEAN
  /\ row \in [Ids -> Row \cup {None}]
  /\ ids \subseteq Ids /\ {u \in Ids : row[u] # None} \subseteq ids
  /\ minted \subseteq Tokens /\ expired \subseteq minted
  /\ mail \subseteq Mail
  /\ proven \subseteq Ids \X Emails
  /\ uses \in [Tokens -> Nat]
  /\ handler \in [Handlers -> {Idle} \cup Mailing \cup Resetting \cup Staging \cup Applying]

Init ==
  /\ verification \in BOOLEAN
  /\ row = [u \in Ids |-> None]
  /\ ids = {} /\ minted = {} /\ expired = {} /\ mail = {}
  /\ proven = {} /\ uses = [t \in Tokens |-> 0]
  /\ handler = [h \in Handlers |-> Idle]

Taken(e) == \E u \in Ids : row[u] # None /\ row[u].email = e
\* The UNIQUE constraint lets row u have address e.
FreeFor(u, e) == \A v \in Ids \ {u} : row[v] # None => row[v].email # e
Goto(h, s) == handler' = [handler EXCEPT ![h] = s]
SendLater(h, to, kind, tok) ==
  Goto(h, [pc |-> "mail", msg |-> [to |-> to, kind |-> kind, tok |-> tok]])
Has(u) == row[u] # None
Used(t) == uses' = [uses EXCEPT ![t] = @ + 1]
Update(u, r) == row' = [row EXCEPT ![u] = r]

\* What the statements set in a row.
NewRow(e, verified, vtok) == [email |-> e, verified |-> verified, vtok |-> vtok,
                              rtok |-> None, pending |-> None, etok |-> None]
Confirmed(r)      == [r EXCEPT !.verified = TRUE, !.vtok = None]
ResetBy(r, t)     == [r EXCEPT !.rtok = t]
Staged(r, e, t)   == [r EXCEPT !.pending = e, !.etok = t]
Renamed(r, e)     == [r EXCEPT !.email = e, !.pending = None, !.etok = None]
\* An UPDATE ... WHERE id = u.
UpdateIf(u, r) == row' = IF Has(u) THEN [row EXCEPT ![u] = r] ELSE row

-----------------------------------------------------------------------------
(* Registration.                                                           *)

\* One INSERT; a taken address is refused by the UNIQUE constraint and answered like a
\* success.  Without verification the account is usable at once.
Register(h, u, e, t) ==
  /\ handler[h].pc = "idle"
  /\ u \notin ids /\ ~Taken(e)
  /\ ids' = ids \cup {u}
  /\ IF verification
     THEN /\ Update(u, NewRow(e, FALSE, t))
          /\ t \notin minted /\ minted' = minted \cup {t}
          /\ SendLater(h, e, "verify", t)
     ELSE Update(u, NewRow(e, TRUE, None)) /\ UNCHANGED <<minted, handler>>
  /\ UNCHANGED <<verification, expired, mail, proven, uses>>

\* The confirmation link: one conditional UPDATE.
VerifyEmail(m) ==
  /\ m.kind = "verify" /\ m.tok \notin expired
  /\ \E u \in Ids :
       /\ Has(u) /\ row[u].vtok = m.tok
       /\ Update(u, Confirmed(row[u]))
       /\ proven' = proven \cup {<<u, m.to>>}
  /\ Used(m.tok)
  /\ UNCHANGED <<verification, ids, minted, expired, mail, handler>>

-----------------------------------------------------------------------------
(* Password reset: forgot_password_submit and settings_password_reset read *)
(* the account, then write a token and mail it to the address they read.   *)

RequestReset(h, u) ==
  /\ handler[h].pc = "idle"
  /\ Has(u)
  /\ Goto(h, [pc |-> "reset", user |-> u, to |-> row[u].email])
  /\ UNCHANGED <<verification, row, history, expired>>

WriteResetToken(h, t) ==
  /\ handler[h].pc = "reset"
  /\ t \notin minted /\ minted' = minted \cup {t}
  /\ LET u == handler[h].user IN
     /\ UpdateIf(u, ResetBy(row[u], t))
     /\ SendLater(h, handler[h].to, "reset", t)
  /\ UNCHANGED <<verification, ids, expired, mail, proven, uses>>

\* Mutant: the token is looked up but not cleared.
ResetPasswordKeepsToken(m) ==
  /\ m.kind = "reset" /\ m.tok \notin expired
  /\ \E u \in Ids : Has(u) /\ row[u].rtok = m.tok
  /\ Used(m.tok)
  /\ UNCHANGED <<verification, row, ids, minted, expired, mail, proven, handler>>

\* One UPDATE sets the password, clears the token and returns the id.
ResetPassword(m) ==
  /\ m.kind = "reset" /\ m.tok \notin expired
  /\ \E u \in Ids : /\ Has(u) /\ row[u].rtok = m.tok
                    /\ Update(u, ResetBy(row[u], None))
  /\ Used(m.tok)
  /\ UNCHANGED <<verification, ids, minted, expired, mail, proven, handler>>

-----------------------------------------------------------------------------
(* Email change.                                                           *)

\* The caller is logged in, so the account was verified; the address must be new to the
\* account and, at this moment, to the table.  (Two SELECTs in the code; what the first
\* one sees, the second one and the UPDATE by id see again.)
CheckEmailChange(h, u, e) ==
  /\ handler[h].pc = "idle"
  /\ Has(u) /\ row[u].verified
  /\ row[u].email # e /\ ~Taken(e)
  /\ Goto(h, [pc |-> "stage", user |-> u, new |-> e])
  /\ UNCHANGED <<verification, row, history, expired>>

\* With verification the address is staged and mailed a link.
StageEmail(h, t) ==
  /\ handler[h].pc = "stage" /\ verification
  /\ t \notin minted /\ minted' = minted \cup {t}
  /\ LET u == handler[h].user
         e == handler[h].new
     IN /\ UpdateIf(u, Staged(row[u], e, t))
        /\ SendLater(h, e, "change", t)
  /\ UNCHANGED <<verification, ids, expired, mail, proven, uses>>

\* Without it the address changes at once; the UNIQUE constraint refuses one that was
\* taken since the check.
ChangeEmailNow(h) ==
  /\ handler[h].pc = "stage" /\ ~verification
  /\ LET u == handler[h].user
         e == handler[h].new
     IN IF Has(u) /\ FreeFor(u, e) THEN Update(u, Renamed(row[u], e)) ELSE UNCHANGED row
  /\ Goto(h, Idle)
  /\ UNCHANGED <<verification, history, expired>>

\* The link is opened: its row and the staged address are read.
OpenChangeLink(h, m) ==
  /\ handler[h].pc = "idle"
  /\ m.kind = "change" /\ m.tok \notin expired
  /\ \E u \in Ids :
       /\ Has(u) /\ row[u].etok = m.tok /\ row[u].pending # None
       /\ Goto(h, [pc |-> "apply", user |-> u, new |-> row[u].pending, tok |-> m.tok])
       /\ proven' = proven \cup {<<u, m.to>>}
  /\ UNCHANGED <<verification, row, ids, minted, expired, mail, uses>>

\* Mutant: the UPDATE takes the address from the row instead of from the link's lookup.
ApplyPendingEmail(h) ==
  /\ handler[h].pc = "apply"
  /\ LET u == handler[h].user IN
     /\ Has(u) /\ row[u].pending # None /\ FreeFor(u, row[u].pending)
     /\ Update(u, Renamed(row[u], row[u].pending))
     /\ Used(handler[h].tok)
  /\ Goto(h, Idle)
  /\ UNCHANGED <<verification, ids, minted, expired, mail, proven>>

\* The UPDATE names the row by id and the address read before, not the token.
ApplyEmailChange(h) ==
  /\ handler[h].pc = "apply"
  /\ LET u == handler[h].user
         e == handler[h].new
     IN IF Has(u) /\ FreeFor(u, e)
        THEN /\ Update(u, Renamed(row[u], e))
             /\ Used(handler[h].tok)
        ELSE UNCHANGED <<row, uses>>
  /\ Goto(h, Idle)
  /\ UNCHANGED <<verification, ids, minted, expired, mail, proven>>

-----------------------------------------------------------------------------
\* Mutant: the row is anonymised and kept.
AnonymiseAccount(u) ==
  /\ Has(u)
  /\ Update(u, [row[u] EXCEPT !.email = None])
  /\ UNCHANGED <<verification, history, expired, handler>>

DeleteAccount(u) ==
  /\ Has(u)
  /\ Update(u, None)
  /\ UNCHANGED <<verification, history, expired, handler>>

\* The background task hands the mail to the server, or fails and only logs it.
SendMail(h) ==
  /\ handler[h].pc = "mail"
  /\ mail' = mail \cup {handler[h].msg}
  /\ Goto(h, Idle)
  /\ UNCHANGED <<verification, row, ids, minted, expired, proven, uses>>

\* A database error, a failed render, a mail server that refuses or a restart ends a
\* handler where it stands; what it has written stays.
Abandon(h) ==
  /\ handler[h].pc # "idle"
  /\ Goto(h, Idle)
  /\ UNCHANGED <<verification, row, history, expired>>

\* TOKEN_TTL_HOURS after it was drawn.
Expire(t) ==
  /\ t \in minted \ expired
  /\ expired' = expired \cup {t}
  /\ UNCHANGED <<verification, row, history, handler>>

Next ==
  \/ \E h \in Handlers :
       \/ \E u \in Ids, e \in Emails, t \in Tokens : Register(h, u, e, t)
       \/ \E u \in Ids : RequestReset(h, u)
       \/ \E u \in Ids, e \in Emails : CheckEmailChange(h, u, e)
       \/ \E t \in Tokens : WriteResetToken(h, t) \/ StageEmail(h, t)
       \/ ChangeEmailNow(h) \/ ApplyEmailChange(h)
       \/ \E m \in mail : OpenChangeLink(h, m)
       \/ SendMail(h) \/ Abandon(h)
  \/ \E m \in mail : VerifyEmail(m) \/ ResetPassword(m)
  \/ \E u \in Ids : DeleteAccount(u)
  \/ \E t \in Tokens : Expire(t)

Spec == Init /\ [][Next]_vars

-----------------------------------------------------------------------------
\* With verification on, a usable account's address is one its owner has shown to read:
\* a link mailed to exactly that address, for that account, was opened.  It must survive
\* a change staged again while an older link is being applied, and any lost mail.
EmailProven ==
  verification =>
    \A u \in Ids : Has(u) /\ row[u].verified => <<u, row[u].email>> \in proven

\* A confirmation or password-reset link works at most once, however often and however
\* concurrently it is opened (verify_email, reset_password_submit).
SingleUse ==
  \A m \in mail : m.kind \in {"verify", "reset"} => uses[m.tok] <= 1

-----------------------------------------------------------------------------
(* Why the two hold: the inductive invariant the proofs use.               *)

\* Mails that have left and mails about to.
Sent == mail \cup {handler[h].msg : h \in {x \in Handlers : handler[x].pc = "mail"}}

\* Every mail's token was drawn, for one purpose.
MailInv ==
  /\ \A m \in Sent : m.tok \in minted
  /\ \A m, n \in Sent : m.tok = n.tok => m.kind = n.kind

\* What the token columns of row u hold: tokens that were drawn,
Drawn(u) ==
  /\ row[u].vtok \in minted \cup {None}
  /\ row[u].rtok \in minted \cup {None}
  /\ row[u].etok \in minted \cup {None}

\* a confirmation link exactly while unconfirmed, and no address change before that,
Stage(u) == IF row[u].verified THEN row[u].vtok = None ELSE row[u].etok = None

\* each mailed for the purpose of its column and to the address it is about,
Matches(u) ==
  \A m \in Sent :
    /\ m.tok = row[u].vtok => m.kind = "verify" /\ m.to = row[u].email
    /\ m.tok = row[u].rtok => m.kind = "reset"
    /\ m.tok = row[u].etok => m.kind = "change" /\ m.to = row[u].pending

\* not used yet,
Unused(u) == \A t \in Tokens : t \in {row[u].vtok, row[u].rtok} => uses[t] = 0

\* and in no other row.
Unshared(u) ==
  \A v \in Ids \ {u} :
    Has(v) => /\ row[u].vtok = row[v].vtok => row[u].vtok = None
              /\ row[u].rtok = row[v].rtok => row[u].rtok = None

RowInv(u) == Drawn(u) /\ Stage(u) /\ Matches(u) /\ Unused(u) /\ Unshared(u)

\* What a handler remembers stays true of its row, or of what was proven.
HandlerInv(h) ==
  LET q == handler[h] IN
  /\ q.pc \in {"reset", "stage", "apply"} => q.user \in ids
  /\ q.pc \in {"stage", "apply"} /\ Has(q.user) => row[q.user].verified
  /\ q.pc = "apply" =>
       /\ <<q.user, q.new>> \in proven
       /\ \E m \in mail : m.kind = "change" /\ m.tok = q.tok

LinkInv ==
  /\ MailInv
  /\ \A u \in Ids : Has(u) => RowInv(u)
  /\ \A h \in Handlers : HandlerInv(h)
  /\ \A t \in Tokens \ minted : uses[t] = 0

=============================================================================
