------------------------------- MODULE Orders -------------------------------
(***************************************************************************)
(* The handlers #[model] generates for a table (framework/macros/src/      *)
(* resource.rs), as the starter's Product and Order get them, next to the  *)
(* hand-written customer routes of starter/src/services/orders.rs.         *)
(*                                                                         *)
(* Every SQL statement is atomic, and a handler that runs several gives up *)
(* control between them: what it read may have changed when it writes.     *)
(* Whoever calls has passed the permission check of models/routes.rs.      *)
(***************************************************************************)
CONSTANTS
  ProductIds, OrderIds,  \* the ids of the two tables (AUTOINCREMENT: never reused)
  Users,                 \* the accounts
  Slugs,                 \* product slugs
  Hidden,                \* the product states other than "published": draft, archived
  Handlers,              \* requests being handled at the same time
  None

Status  == {"pending", "fulfilled", "cancelled"}
Product == [slug : Slugs, status : Hidden \cup {"published"}]
Order   == [product : ProductIds, user : Users, status : Status]
Ids     == ProductIds \cup OrderIds

ASSUME IdAssumption ==
  /\ ProductIds \cap OrderIds = {}
  /\ None \notin Product \cup Order \cup Ids \cup Slugs

VARIABLES
  row,      \* the rows of both tables
  ids,      \* history: ids handed out
  users,    \* the users table
  handler   \* what each running handler remembers

vars == <<row, ids, users, handler>>

Idle == [pc |-> "idle"]
\* The submitted forms; a product's slug is None when left empty.
ProductForm == [slug : Slugs \cup {None}, status : Hidden \cup {"published"}]
OrderForm   == [status : Status]
\* A generated create (id None) or update before its checks and before its statement; an
\* update before it reads the row back; either one after its success.
Saving   == [pc : {"check", "write"}, id : ProductIds \cup {None}, form : Product]
            \cup [pc : {"write"}, id : OrderIds, form : OrderForm]
Reading  == [pc : {"reload"}, id : Ids, wrote : BOOLEAN]
Saved    == [pc : {"saved"}, wrote : BOOLEAN]
\* A row action that passed can_act, and, as history, whether its row is unchanged since.
Acting   == [pc : {"act"}, id : OrderIds, to : Status, fresh : BOOLEAN]
\* A customer's order whose product was found.
Placing  == [pc : {"place"}, user : Users, product : ProductIds]

TypeOK ==
  /\ row \in [Ids -> Product \cup Order \cup {None}]
  /\ \A p \in ProductIds : row[p] \in Product \cup {None}
  /\ \A o \in OrderIds : row[o] \in Order \cup {None}
  /\ ids \subseteq Ids /\ {i \in Ids : row[i] # None} \subseteq ids
  /\ users \subseteq Users
  /\ handler \in [Handlers -> {Idle} \cup Saving \cup Reading \cup Saved \cup Acting \cup Placing]

Init ==
  /\ row = [i \in Ids |-> None]
  /\ ids = {} /\ users = Users
  /\ handler = [h \in Handlers |-> Idle]

Has(i) == row[i] # None
\* The UNIQUE constraint of products.slug lets row i have slug s.
SlugFree(i, s) == \A p \in ProductIds \ {i} : Has(p) => row[p].slug # s

Goto(h, s) == handler' = [handler EXCEPT ![h] = s] /\ UNCHANGED <<row, ids, users>>

\* The table becomes `new`, the handlers in hs go to s, and an action being run learns
\* (history) that its row has changed.
Store(new, hs, s) ==
  /\ row' = new
  /\ handler' = [h \in Handlers |->
                   IF h \in hs THEN s
                   ELSE IF handler[h].pc = "act" /\ new[handler[h].id] # row[handler[h].id]
                   THEN [handler[h] EXCEPT !.fresh = FALSE] ELSE handler[h]]

-----------------------------------------------------------------------------
(* Generated create and update.                                            *)

\* Mutant: an empty slug is stored as it is.
FillNothing(f, s) == f

\* An empty slug keeps the stored one on an edit; on a create it is derived from the name.
FillSlug(f, s) == IF f.slug = None THEN [f EXCEPT !.slug = s] ELSE f

\* The form is complete: every form column is bound, read-only ones are kept.
Written(i, f) ==
  IF i \in ProductIds THEN f ELSE [row[i] EXCEPT !.status = f.status]

BeginCreate(h, f) ==
  /\ handler[h].pc = "idle"
  /\ f.slug # None
  /\ Goto(h, [pc |-> "check", id |-> None, form |-> f])

\* The row must exist; its slug, read here, is what an empty field keeps.
BeginUpdate(h, p, f) ==
  /\ handler[h].pc = "idle" /\ Has(p)
  /\ Goto(h, [pc |-> "check", id |-> p, form |-> FillSlug(f, row[p].slug)])

\* An order's form: its only checked column is the status, so the statement is next.
BeginOrderUpdate(h, o, f) ==
  /\ handler[h].pc = "idle" /\ Has(o)
  /\ Goto(h, [pc |-> "write", id |-> o, form |-> f])

\* The pre-check of a unique column: a duplicate is an error on the form.
CheckSlug(h) ==
  /\ handler[h].pc = "check"
  /\ Goto(h, IF SlugFree(handler[h].id, handler[h].form.slug)
             THEN [handler[h] EXCEPT !.pc = "write"] ELSE Idle)

\* INSERT ... RETURNING; a slug taken since the check is refused by the database.
InsertProduct(h, p) ==
  /\ handler[h].pc = "write" /\ handler[h].id = None
  /\ p \notin ids
  /\ IF SlugFree(p, handler[h].form.slug)
     THEN /\ Store([row EXCEPT ![p] = handler[h].form], {h}, [pc |-> "saved", wrote |-> TRUE])
          /\ ids' = ids \cup {p}
          /\ UNCHANGED users
     ELSE Goto(h, Idle)

\* UPDATE ... WHERE id: it may match nothing, or be refused like the INSERT.
UpdateRow(h) ==
  /\ handler[h].pc = "write" /\ handler[h].id # None
  /\ LET i == handler[h].id
         f == handler[h].form
     IN IF ~Has(i) THEN Goto(h, [pc |-> "reload", id |-> i, wrote |-> FALSE])
        ELSE IF i \in ProductIds /\ ~SlugFree(i, f.slug) THEN Goto(h, Idle)
        ELSE /\ Store([row EXCEPT ![i] = Written(i, f)], {h},
                      [pc |-> "reload", id |-> i, wrote |-> TRUE])
             /\ UNCHANGED <<ids, users>>

\* Mutant: a row that is not there any more counts as saved.
ReloadAnyway(h) ==
  /\ handler[h].pc = "reload"
  /\ Goto(h, [pc |-> "saved", wrote |-> handler[h].wrote])

\* The row is read back for after_save: gone is "not found".
ReloadRow(h) ==
  /\ handler[h].pc = "reload"
  /\ Goto(h, IF Has(handler[h].id) THEN [pc |-> "saved", wrote |-> handler[h].wrote] ELSE Idle)

Respond(h) == handler[h].pc = "saved" /\ Goto(h, Idle)

-----------------------------------------------------------------------------
(* Generated delete and row actions.                                       *)

\* A deleted product takes its orders with it.
Without(gone) ==
  [i \in Ids |-> IF \/ i \in gone
                    \/ i \in OrderIds /\ Has(i) /\ row[i].product \in gone
                 THEN None ELSE row[i]]

\* The row is fetched and then deleted by id; nothing it remembers outlives the fetch, so
\* the two statements are one step.
DeleteRow(i) ==
  /\ Has(i)
  /\ Store(Without({i}), {}, Idle)
  /\ UNCHANGED <<ids, users>>

\* fulfill and cancel: Order::can_act asks for a pending order,
BeginAction(h, o, to) ==
  /\ handler[h].pc = "idle"
  /\ Has(o) /\ row[o].status = "pending"
  /\ Goto(h, [pc |-> "act", id |-> o, to |-> to, fresh |-> TRUE])

\* and the UPDATE names the order by its id alone.
RunAction(h) ==
  /\ handler[h].pc = "act"
  /\ LET o == handler[h].id IN
     IF Has(o)
     THEN /\ Store([row EXCEPT ![o].status = handler[h].to], {h}, Idle)
          /\ UNCHANGED <<ids, users>>
     ELSE Goto(h, Idle)

-----------------------------------------------------------------------------
(* The customer's routes.                                                  *)

\* post_place_order finds the published product, for a user whose token is still accepted
\* (it may outlive the account for a moment, see module Sessions),
FindProduct(h, u, p) ==
  /\ handler[h].pc = "idle"
  /\ Has(p) /\ row[p].status = "published"
  /\ Goto(h, [pc |-> "place", user |-> u, product |-> p])

\* Mutant: foreign keys are not enforced on this connection.
InsertOrderUnchecked(h, o) ==
  /\ handler[h].pc = "place" /\ o \notin ids
  /\ Store([row EXCEPT ![o] = [product |-> handler[h].product, user |-> handler[h].user,
                               status |-> "pending"]], {h}, Idle)
  /\ ids' = ids \cup {o}
  /\ UNCHANGED users

\* and inserts the order; the foreign keys refuse one whose product or user is gone.
InsertOrder(h, o) ==
  /\ handler[h].pc = "place" /\ o \notin ids
  /\ IF Has(handler[h].product) /\ handler[h].user \in users
     THEN /\ Store([row EXCEPT ![o] = [product |-> handler[h].product, user |-> handler[h].user,
                                       status |-> "pending"]], {h}, Idle)
          /\ ids' = ids \cup {o}
          /\ UNCHANGED users
     ELSE Goto(h, Idle)

\* post_cancel_my_order: owner and state are in the UPDATE's filter.
CancelMine(o) ==
  /\ Has(o) /\ row[o].status = "pending"
  /\ Store([row EXCEPT ![o].status = "cancelled"], {}, Idle)
  /\ UNCHANGED <<ids, users>>

\* delete_account, user_delete: the account goes, and its orders with it.
DeleteUser(u) ==
  /\ u \in users /\ users' = users \ {u}
  /\ Store(Without({o \in OrderIds : Has(o) /\ row[o].user = u}), {}, Idle)
  /\ UNCHANGED ids

\* A database error, a cancelled request or a restart.
Abandon(h) == handler[h].pc # "idle" /\ Goto(h, Idle)

Next ==
  \/ \E h \in Handlers :
       \/ \E f \in ProductForm : BeginCreate(h, f) \/ \E p \in ProductIds : BeginUpdate(h, p, f)
       \/ \E o \in OrderIds, f \in OrderForm : BeginOrderUpdate(h, o, f)
       \/ CheckSlug(h) \/ UpdateRow(h) \/ ReloadRow(h) \/ Respond(h) \/ Abandon(h)
       \/ \E p \in ProductIds : InsertProduct(h, p)
       \/ \E o \in OrderIds, to \in {"fulfilled", "cancelled"} : BeginAction(h, o, to)
       \/ RunAction(h)
       \/ \E u \in Users, p \in ProductIds : FindProduct(h, u, p)
       \/ \E o \in OrderIds : InsertOrder(h, o)
  \/ \E i \in Ids : DeleteRow(i)
  \/ \E o \in OrderIds : CancelMine(o)
  \/ \E u \in Users : DeleteUser(u)

Spec == Init /\ [][Next]_vars

-----------------------------------------------------------------------------
\* An order always has its product and its customer, though both are looked up before it
\* is inserted and may be deleted meanwhile (post_place_order, the models' foreign keys).
OrdersComplete ==
  \A o \in OrderIds : Has(o) => Has(row[o].product) /\ row[o].user \in users

\* A generated form that answers with success has changed a row, whoever deleted what
\* while it ran (resource.rs emit_write: the UPDATE's row count is not looked at).
SuccessWasWritten == \A h \in Handlers : handler[h].pc = "saved" => handler[h].wrote

\* The fulfil and cancel buttons change an order that is not pending only when it was
\* changed while the action ran (resource.rs emit_act, Order::can_act).
ActionsAreChecked ==
  [][\A h \in Handlers :
       /\ handler[h].pc = "act" /\ row'[handler[h].id] # row[handler[h].id]
       /\ handler'[h].pc = "idle" /\ row[handler[h].id].status # "pending"
       => ~handler[h].fresh]_vars

\* Why they hold: what a handler remembers of its row.  A row that was read has an id
\* that is never given out again, and an action whose row is unchanged may still run.
Remembers(q) ==
  /\ q.pc \in {"check", "write"} /\ q.id # None => q.id \in ids
  /\ q.pc = "reload" => q.id \in ids /\ (~q.wrote => ~Has(q.id))
  /\ q.pc = "saved" => q.wrote
  /\ q.pc = "act" => q.id \in ids /\ (q.fresh => Has(q.id) /\ row[q.id].status = "pending")

RequestInv == \A h \in Handlers : Remembers(handler[h])

\* Order: "Both actions only make sense while the order is pending".  The code does not
\* keep it: can_act is asked of the row that was read, and the UPDATE names it by id.
ActionsOnlyWhilePending ==
  [][\A h \in Handlers :
       /\ handler[h].pc = "act" /\ row'[handler[h].id] # row[handler[h].id]
       /\ handler'[h].pc = "idle"
       => row[handler[h].id].status = "pending"]_vars

=============================================================================
