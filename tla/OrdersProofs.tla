---------------------------- MODULE OrdersProofs ----------------------------
(***************************************************************************)
(* For any number of products, orders, customers and concurrent requests:  *)
(* orders are complete, a form that reports success was written, and an    *)
(* action changes a processed order only when it raced another change.     *)
(***************************************************************************)
EXTENDS Orders, TLAPS

\* What a statement may do to the rows: keep their shape, and leave gone what is gone.
Fits(new) ==
  /\ new \in [Ids -> Product \cup Order \cup {None}]
  /\ \A p \in ProductIds : new[p] \in Product \cup {None}
  /\ \A o \in OrderIds : new[o] \in Order \cup {None}

LEMMA OrderFields ==
  ASSUME NEW x \in Order, NEW s \in Status
  PROVE  /\ [x EXCEPT !.status = s] \in Order
         /\ [x EXCEPT !.status = s].product = x.product
         /\ [x EXCEPT !.status = s].user = x.user
BY DEF Order

LEMMA NewOrder ==
  ASSUME NEW p \in ProductIds, NEW u \in Users
  PROVE  LET x == [product |-> p, user |-> u, status |-> "pending"]
         IN  x \in Order /\ x.product = p /\ x.user = u
BY DEF Order, Status

\* A typed request in a given stage is of that stage's type.
LEMMA RequestTypes ==
  ASSUME TypeOK, NEW h \in Handlers
  PROVE  /\ handler[h].pc = "check" => /\ handler[h].id \in ProductIds \cup {None}
                                       /\ handler[h].form \in Product
         /\ handler[h].pc = "write" => \/ /\ handler[h].id \in ProductIds \cup {None}
                                          /\ handler[h].form \in Product
                                       \/ /\ handler[h].id \in OrderIds
                                          /\ handler[h].form \in OrderForm
         /\ handler[h].pc = "reload" => handler[h].id \in Ids /\ handler[h].wrote \in BOOLEAN
         /\ handler[h].pc = "saved" => handler[h].wrote \in BOOLEAN
         /\ handler[h].pc = "act" => handler[h] \in Acting
         /\ handler[h].pc = "place" => handler[h].user \in Users /\ handler[h].product \in ProductIds
BY DEF TypeOK, Idle, Saving, Reading, Saved, Acting, Placing

LEMMA StoreTypes ==
  ASSUME TypeOK, NEW new, Fits(new), NEW hs \in SUBSET Handlers,
         NEW s \in {Idle} \cup Saving \cup Reading \cup Saved, Store(new, hs, s)
  PROVE  /\ row' = new
         /\ handler' \in [Handlers -> {Idle} \cup Saving \cup Reading \cup Saved \cup Acting \cup Placing]
<1>1. ASSUME NEW h \in Handlers, handler[h].pc = "act"
      PROVE  [handler[h] EXCEPT !.fresh = FALSE] \in Acting
  BY <1>1, RequestTypes DEF Acting
<1>2. QED
  BY <1>1 DEF Store, TypeOK

LEMMA WithoutFits == ASSUME TypeOK, NEW gone PROVE Fits(Without(gone))
BY DEF TypeOK, Fits, Without, Ids

\* Every variable keeps its type.
THEOREM TypeCorrect == Spec => []TypeOK
<1>1. Init => TypeOK
  BY DEF Init, TypeOK, Ids
<1>2. TypeOK /\ [Next]_vars => TypeOK'
  <2> SUFFICES ASSUME TypeOK, [Next]_vars PROVE TypeOK'
    OBVIOUS
  <2> DEFINE Requests == {Idle} \cup Saving \cup Reading \cup Saved \cup Acting \cup Placing
  <2>1. ASSUME NEW h \in Handlers, NEW s \in Requests, Goto(h, s) PROVE TypeOK'
    BY <2>1 DEF Goto, TypeOK
  <2>2. ASSUME NEW new, Fits(new), NEW hs \in SUBSET Handlers, NEW s \in {Idle} \cup Saving \cup Reading \cup Saved,
               Store(new, hs, s), ids' \subseteq Ids, users' \subseteq Users, ids \subseteq ids',
               \A i \in Ids \ ids' : new[i] = None
        PROVE  TypeOK'
    <3>1. row' = new /\ handler' \in [Handlers -> Requests]
      BY <2>2, StoreTypes
    <3>2. QED
      BY <2>2, <3>1 DEF TypeOK, Fits
  <2>3. CASE UNCHANGED vars
    BY <2>3 DEF vars, TypeOK
  <2>4. ASSUME NEW h \in Handlers, NEW f \in ProductForm, BeginCreate(h, f) PROVE TypeOK'
    <3>1. [pc |-> "check", id |-> None, form |-> f] \in Saving
      BY <2>4 DEF BeginCreate, ProductForm, Product, Saving
    <3>2. QED
      BY <2>1, <2>4, <3>1 DEF BeginCreate
  <2>5. ASSUME NEW h \in Handlers, NEW f \in ProductForm, NEW p \in ProductIds, BeginUpdate(h, p, f)
        PROVE  TypeOK'
    <3>1. row[p] \in Product
      BY <2>5 DEF BeginUpdate, Has, TypeOK
    <3>2. FillSlug(f, row[p].slug) \in Product
      BY <3>1 DEF FillSlug, ProductForm, Product
    <3>3. [pc |-> "check", id |-> p, form |-> FillSlug(f, row[p].slug)] \in Saving
      BY <3>2 DEF Saving
    <3>4. QED
      BY <2>1, <2>5, <3>3 DEF BeginUpdate
  <2>6. ASSUME NEW h \in Handlers, NEW f \in OrderForm, NEW o \in OrderIds, BeginOrderUpdate(h, o, f)
        PROVE  TypeOK'
    BY <2>1, <2>6 DEF BeginOrderUpdate, Saving
  <2>7. ASSUME NEW h \in Handlers, CheckSlug(h) PROVE TypeOK'
    <3>1. handler[h] \in Saving /\ handler[h].id \in ProductIds \cup {None} /\ handler[h].form \in Product
      BY <2>7, RequestTypes DEF CheckSlug, TypeOK, Idle, Reading, Saved, Acting, Placing
    <3>2. [handler[h] EXCEPT !.pc = "write"] \in Saving
      BY <3>1 DEF Saving
    <3>3. QED
      BY <2>1, <2>7, <3>2 DEF CheckSlug
  <2>8. ASSUME NEW h \in Handlers, NEW p \in ProductIds, InsertProduct(h, p) PROVE TypeOK'
    <3>1. CASE SlugFree(p, handler[h].form.slug)
      <4>1. handler[h].form \in Product
        BY <2>8, RequestTypes, IdAssumption DEF InsertProduct, Ids
      <4> DEFINE new == [row EXCEPT ![p] = handler[h].form]
      <4>2. Fits(new) /\ \A i \in Ids \ (ids \cup {p}) : new[i] = None
        BY <4>1, IdAssumption DEF Fits, TypeOK, Ids
      <4>3. [pc |-> "saved", wrote |-> TRUE] \in Saved
        BY DEF Saved
      <4>4. Store(new, {h}, [pc |-> "saved", wrote |-> TRUE]) /\ ids' = ids \cup {p} /\ users' = users
        BY <2>8, <3>1 DEF InsertProduct
      <4>5. ids' \subseteq Ids /\ users' \subseteq Users /\ ids \subseteq ids'
        BY <4>4 DEF TypeOK, Ids
      <4> HIDE DEF new
      <4>6. QED
        BY <2>2, <4>2, <4>3, <4>4, <4>5
    <3>2. CASE ~SlugFree(p, handler[h].form.slug)
      BY <2>1, <2>8, <3>2 DEF InsertProduct
    <3>3. QED
      BY <3>1, <3>2
  <2>9. ASSUME NEW h \in Handlers, UpdateRow(h) PROVE TypeOK'
    <3> DEFINE i == handler[h].id
               f == handler[h].form
               new == [row EXCEPT ![i] = Written(i, f)]
    <3>1. \/ i \in ProductIds /\ f \in Product
          \/ i \in OrderIds /\ f \in OrderForm
      BY <2>9, RequestTypes DEF UpdateRow
    <3>2. \A w \in BOOLEAN : [pc |-> "reload", id |-> i, wrote |-> w] \in Reading
      BY <3>1 DEF Reading, Ids
    <3>3. CASE Store(new, {h}, [pc |-> "reload", id |-> i, wrote |-> TRUE]) /\ UNCHANGED <<ids, users>>
               /\ Has(i)
      <4>1. Written(i, f) \in IF i \in ProductIds THEN Product ELSE Order
        BY <3>1, <3>3, OrderFields, IdAssumption DEF Written, OrderForm, Has, TypeOK
      <4>2. Fits(new) /\ \A x \in Ids \ ids : new[x] = None
        BY <3>1, <3>3, <4>1, IdAssumption DEF Fits, TypeOK, Ids, Has
      <4>3. ids' \subseteq Ids /\ users' \subseteq Users /\ ids \subseteq ids' /\ ids' = ids
        BY <3>3 DEF TypeOK
      <4> HIDE DEF new
      <4>4. QED
        BY <2>2, <3>2, <3>3, <4>2, <4>3
    <3>4. CASE Goto(h, [pc |-> "reload", id |-> i, wrote |-> FALSE]) \/ Goto(h, Idle)
      BY <2>1, <3>2, <3>4
    <3>5. QED
      BY <2>9, <3>3, <3>4 DEF UpdateRow
  <2>10. ASSUME NEW h \in Handlers, ReloadRow(h) PROVE TypeOK'
    <3>1. [pc |-> "saved", wrote |-> handler[h].wrote] \in Saved
      BY <2>10, RequestTypes DEF ReloadRow, Saved
    <3>2. QED
      BY <2>1, <2>10, <3>1 DEF ReloadRow
  <2>11. ASSUME NEW h \in Handlers, Respond(h) \/ Abandon(h) PROVE TypeOK'
    BY <2>1, <2>11 DEF Respond, Abandon
  <2>12. ASSUME NEW h \in Handlers, NEW o \in OrderIds, NEW to \in {"fulfilled", "cancelled"},
                BeginAction(h, o, to)
         PROVE  TypeOK'
    BY <2>1, <2>12 DEF BeginAction, Acting, Status
  <2>13. ASSUME NEW o \in OrderIds, NEW s \in Status, Has(o), NEW hs \in SUBSET Handlers,
                Store([row EXCEPT ![o].status = s], hs, Idle), UNCHANGED <<ids, users>>
         PROVE  TypeOK'
    <3> DEFINE new == [row EXCEPT ![o].status = s]
    <3>1. row[o] \in Order /\ [row[o] EXCEPT !.status = s] \in Order
      BY <2>13, OrderFields DEF Has, TypeOK
    <3>2. Fits(new) /\ \A x \in Ids \ ids : new[x] = None
      BY <2>13, <3>1, IdAssumption DEF Fits, TypeOK, Ids, Has
    <3>3. ids' \subseteq Ids /\ users' \subseteq Users /\ ids \subseteq ids' /\ ids' = ids
      BY <2>13 DEF TypeOK
    <3> HIDE DEF new
    <3>4. QED
      BY <2>2, <2>13, <3>2, <3>3 DEF new
  <2>14. ASSUME NEW h \in Handlers, RunAction(h) PROVE TypeOK'
    <3>1. handler[h].id \in OrderIds /\ handler[h].to \in Status
      BY <2>14, RequestTypes DEF RunAction, Acting
    <3>2. CASE Has(handler[h].id)
      BY <2>13, <2>14, <3>1, <3>2 DEF RunAction
    <3>3. CASE ~Has(handler[h].id)
      BY <2>1, <2>14, <3>3 DEF RunAction
    <3>4. QED
      BY <3>2, <3>3
  <2>15. ASSUME NEW h \in Handlers, NEW u \in Users, NEW p \in ProductIds, FindProduct(h, u, p)
         PROVE  TypeOK'
    BY <2>1, <2>15 DEF FindProduct, Placing
  <2>16. ASSUME NEW h \in Handlers, NEW o \in OrderIds, InsertOrder(h, o) PROVE TypeOK'
    <3> DEFINE x == [product |-> handler[h].product, user |-> handler[h].user, status |-> "pending"]
               new == [row EXCEPT ![o] = x]
    <3>1. x \in Order
      BY <2>16, RequestTypes, NewOrder DEF InsertOrder
    <3>2. CASE Store(new, {h}, Idle) /\ ids' = ids \cup {o} /\ users' = users
      <4>1. Fits(new) /\ \A i \in Ids \ (ids \cup {o}) : new[i] = None
        BY <3>1, IdAssumption DEF Fits, TypeOK, Ids
      <4>2. ids' \subseteq Ids /\ users' \subseteq Users /\ ids \subseteq ids'
        BY <3>2 DEF TypeOK, Ids
      <4> HIDE DEF new
      <4>3. QED
        BY <2>2, <3>2, <4>1, <4>2
    <3>3. CASE Goto(h, Idle)
      BY <2>1, <3>3
    <3>4. QED
      BY <2>16, <3>2, <3>3 DEF InsertOrder
  <2>17. ASSUME NEW gone, Store(Without(gone), {}, Idle), ids' = ids, users' \subseteq Users
         PROVE  TypeOK'
    <3>1. \A i \in Ids \ ids : Without(gone)[i] = None
      BY DEF Without, TypeOK
    <3>2. QED
      BY <2>2, <2>17, <3>1, WithoutFits DEF TypeOK
  <2>18. ASSUME NEW i \in Ids, DeleteRow(i) PROVE TypeOK'
    BY <2>17, <2>18 DEF DeleteRow, TypeOK
  <2>19. ASSUME NEW o \in OrderIds, CancelMine(o) PROVE TypeOK'
    <3>1. "cancelled" \in Status /\ {} \in SUBSET Handlers
      BY DEF Status
    <3>2. QED
      BY <2>13, <2>19, <3>1 DEF CancelMine
  <2>20. ASSUME NEW u \in Users, DeleteUser(u) PROVE TypeOK'
    BY <2>17, <2>20 DEF DeleteUser, TypeOK
  <2>21. QED
    BY <2>3, <2>4, <2>5, <2>6, <2>7, <2>8, <2>9, <2>10, <2>11, <2>12, <2>14, <2>15, <2>16,
       <2>18, <2>19, <2>20 DEF Next
<1>3. QED
  BY <1>1, <1>2, PTL DEF Spec

-----------------------------------------------------------------------------
\* The foreign keys hold: whatever is deleted takes the orders that name it along.
THEOREM OrdersStayComplete == Spec => []OrdersComplete
<1>1. Init => OrdersComplete
  BY DEF Init, OrdersComplete, Has, Ids
<1>2. TypeOK /\ OrdersComplete /\ [Next]_vars => OrdersComplete'
  <2> SUFFICES ASSUME TypeOK, OrdersComplete, [Next]_vars, NEW x \in OrderIds, Has(x)'
               PROVE  Has(row[x].product)' /\ (row[x].user \in users)'
    BY DEF OrdersComplete
  <2> USE IdAssumption DEF Has
  <2>1. ASSUME UNCHANGED <<row, users>> PROVE Has(row[x].product)' /\ (row[x].user \in users)'
    BY <2>1 DEF OrdersComplete
  <2>2. ASSUME NEW h \in Handlers, NEW s, Goto(h, s)
        PROVE  Has(row[x].product)' /\ (row[x].user \in users)'
    BY <2>1, <2>2 DEF Goto
  \* Products stay, customers stay, and x is as it was.
  <2>3. ASSUME users' = users, \A p \in ProductIds : Has(p) => row'[p] # None,
               row[x] # None, row'[x].product = row[x].product, row'[x].user = row[x].user
        PROVE  Has(row[x].product)' /\ (row[x].user \in users)'
    BY <2>3 DEF OrdersComplete, TypeOK, Order
  <2>4. ASSUME NEW h \in Handlers, NEW p \in ProductIds, InsertProduct(h, p),
               SlugFree(p, handler[h].form.slug)
        PROVE  Has(row[x].product)' /\ (row[x].user \in users)'
    <3>1. row' = [row EXCEPT ![p] = handler[h].form] /\ users' = users /\ p \notin ids
      BY <2>4 DEF InsertProduct, Store
    <3>2. handler[h].form \in Product
      BY <2>4, RequestTypes DEF InsertProduct, Ids
    <3>3. row'[x] = row[x] /\ \A q \in ProductIds : row[q] # None => row'[q] # None
      BY <3>1, <3>2 DEF TypeOK, Ids
    <3>4. QED
      BY <2>3, <3>1, <3>3
  <2>5. ASSUME NEW h \in Handlers, UpdateRow(h)
        PROVE  Has(row[x].product)' /\ (row[x].user \in users)'
    <3>1. CASE UNCHANGED <<row, users>>
      BY <2>1, <3>1
    <3>2. CASE ~UNCHANGED <<row, users>>
      <4> DEFINE i == handler[h].id
                 f == handler[h].form
      <4>1. row[i] # None /\ row' = [row EXCEPT ![i] = Written(i, f)] /\ users' = users
        BY <2>5, <3>2 DEF UpdateRow, Goto, Store
      <4>2. \/ i \in ProductIds /\ f \in Product
            \/ i \in OrderIds /\ f \in OrderForm
        BY <2>5, RequestTypes DEF UpdateRow
      <4>3. CASE i \in ProductIds /\ f \in Product
        <5>1. row' = [row EXCEPT ![i] = f]
          BY <4>1, <4>3 DEF Written
        <5>2. row'[x] = row[x] /\ \A q \in ProductIds : row[q] # None => row'[q] # None
          BY <4>3, <5>1 DEF TypeOK, Ids
        <5>3. QED
          BY <2>3, <4>1, <5>2
      <4>4. CASE i \in OrderIds /\ f \in OrderForm
        <5>1. f.status \in Status /\ row[i] \in Order /\ row' = [row EXCEPT ![i] = [row[i] EXCEPT !.status = f.status]]
          BY <4>1, <4>4 DEF Written, TypeOK, OrderForm
        <5>2. /\ \A q \in ProductIds : row'[q] = row[q]
              /\ row'[x] = IF x = i THEN [row[i] EXCEPT !.status = f.status] ELSE row[x]
          BY <4>4, <5>1 DEF TypeOK, Ids
        <5>3. row[x] # None /\ row'[x].product = row[x].product /\ row'[x].user = row[x].user
          <6>1. CASE x = i
            <7>1. PICK st \in Status : row'[x] = [row[x] EXCEPT !.status = st]
              BY <5>1, <5>2, <6>1
            <7>2. row[x] \in Order /\ row[x] # None
              BY <4>1, <5>1, <6>1
            <7>3. QED
              BY <7>1, <7>2, OrderFields
          <6>2. CASE x # i
            BY <5>2, <6>2
          <6>3. QED
            BY <6>1, <6>2
        <5>4. QED
          BY <2>3, <4>1, <5>2, <5>3
      <4>5. QED
        BY <4>2, <4>3, <4>4
    <3>3. QED
      BY <3>1, <3>2
  <2>6. ASSUME NEW o \in OrderIds, NEW st \in Status, row[o] # None, NEW hs, NEW s,
               Store([row EXCEPT ![o].status = st], hs, s), UNCHANGED users
        PROVE  Has(row[x].product)' /\ (row[x].user \in users)'
    <3>1. row[o] \in Order /\ row' = [row EXCEPT ![o] = [row[o] EXCEPT !.status = st]]
      BY <2>6 DEF Store, TypeOK
    <3>2. /\ \A q \in ProductIds : row'[q] = row[q]
          /\ row'[x] = IF x = o THEN [row[o] EXCEPT !.status = st] ELSE row[x]
      BY <3>1 DEF TypeOK, Ids
    <3>3. row[x] # None /\ row'[x].product = row[x].product /\ row'[x].user = row[x].user
      BY <2>6, <3>1, <3>2, OrderFields
    <3>4. QED
      BY <2>3, <2>6, <3>2, <3>3
  <2>7. ASSUME NEW h \in Handlers, RunAction(h)
        PROVE  Has(row[x].product)' /\ (row[x].user \in users)'
    <3>1. handler[h].id \in OrderIds /\ handler[h].to \in Status
      BY <2>7, RequestTypes DEF RunAction, Acting
    <3>2. CASE Has(handler[h].id)
      BY <2>6, <2>7, <3>1, <3>2 DEF RunAction
    <3>3. CASE ~Has(handler[h].id)
      BY <2>2, <2>7, <3>3 DEF RunAction
    <3>4. QED
      BY <3>2, <3>3
  <2>8. ASSUME NEW h \in Handlers, NEW o \in OrderIds, InsertOrder(h, o)
        PROVE  Has(row[x].product)' /\ (row[x].user \in users)'
    <3> DEFINE y == [product |-> handler[h].product, user |-> handler[h].user, status |-> "pending"]
    <3>1. CASE row' = [row EXCEPT ![o] = y] /\ users' = users
               /\ row[handler[h].product] # None /\ handler[h].user \in users
      <4>1. y \in Order /\ y.product = handler[h].product /\ y.user = handler[h].user
            /\ handler[h].product \in ProductIds
        BY <2>8, RequestTypes, NewOrder DEF InsertOrder
      <4>2. row'[x] = (IF x = o THEN y ELSE row[x]) /\ \A q \in ProductIds : row'[q] = row[q]
        BY <3>1 DEF TypeOK, Ids
      <4>3. CASE x = o
        <5>1. row'[x] = y
          BY <4>2, <4>3
        <5>2. row'[x].product \in ProductIds /\ row[row'[x].product] # None /\ row'[x].user \in users'
          BY <3>1, <4>1, <5>1
        <5>3. QED
          BY <4>2, <5>2
      <4>4. CASE x # o
        BY <2>3, <3>1, <4>2, <4>4
      <4>5. QED
        BY <4>3, <4>4
    <3>2. CASE Goto(h, Idle)
      BY <2>2, <3>2
    <3>3. QED
      BY <2>8, <3>1, <3>2 DEF InsertOrder, Store
  <2>9. ASSUME NEW i \in Ids, DeleteRow(i) PROVE Has(row[x].product)' /\ (row[x].user \in users)'
    <3>1. row' = Without({i}) /\ users' = users
      BY <2>9 DEF DeleteRow, Store
    <3>2. row'[x] = row[x] /\ row[x] # None /\ row[x].product # i
      BY <3>1 DEF Without, Ids
    <3>3. row[x].product \in ProductIds /\ row[row[x].product] # None /\ row[x].user \in users
      BY <3>2 DEF OrdersComplete, TypeOK, Order
    <3>4. row'[row[x].product] = row[row[x].product]
      BY <3>1, <3>2, <3>3 DEF Without, Ids
    <3>5. QED
      BY <3>1, <3>2, <3>3, <3>4
  <2>10. ASSUME NEW u \in Users, DeleteUser(u)
         PROVE  Has(row[x].product)' /\ (row[x].user \in users)'
    <3> DEFINE gone == {o \in OrderIds : Has(o) /\ row[o].user = u}
    <3>1. row' = Without(gone) /\ users' = users \ {u}
      BY <2>10 DEF DeleteUser, Store
    <3>2. x \notin gone /\ row'[x] = row[x] /\ row[x] # None
      BY <3>1 DEF Without, Ids
    <3>3. row[x].product \in ProductIds /\ row[row[x].product] # None /\ row[x].user \in users
      BY <3>2 DEF OrdersComplete, TypeOK, Order
    <3>4. row'[row[x].product] = row[row[x].product]
      BY <3>1, <3>3 DEF Without, Ids
    <3>5. row[x].user # u
      BY <3>2
    <3>6. QED
      BY <3>1, <3>2, <3>3, <3>4, <3>5
  <2>11. ASSUME NEW o \in OrderIds, CancelMine(o)
         PROVE  Has(row[x].product)' /\ (row[x].user \in users)'
    <3>1. "cancelled" \in Status
      BY DEF Status
    <3>2. QED
      BY <2>6, <2>11, <3>1 DEF CancelMine
  <2>12. ASSUME NEW h \in Handlers,
                \/ \E f \in ProductForm : BeginCreate(h, f) \/ \E p \in ProductIds : BeginUpdate(h, p, f)
                \/ \E o \in OrderIds, f \in OrderForm : BeginOrderUpdate(h, o, f)
                \/ CheckSlug(h) \/ ReloadRow(h) \/ Respond(h) \/ Abandon(h)
                \/ \E o \in OrderIds, to \in {"fulfilled", "cancelled"} : BeginAction(h, o, to)
                \/ \E u \in Users, p \in ProductIds : FindProduct(h, u, p)
         PROVE  Has(row[x].product)' /\ (row[x].user \in users)'
    <3>1. UNCHANGED <<row, users>>
      BY <2>12 DEF BeginCreate, BeginUpdate, BeginOrderUpdate, CheckSlug, ReloadRow, Respond,
                   Abandon, BeginAction, FindProduct, Goto
    <3>2. QED
      BY <2>1, <3>1
  <2>13. ASSUME NEW h \in Handlers, NEW p \in ProductIds, InsertProduct(h, p)
         PROVE  Has(row[x].product)' /\ (row[x].user \in users)'
    BY <2>2, <2>4, <2>13 DEF InsertProduct
  <2>14. CASE UNCHANGED vars
    BY <2>1, <2>14 DEF vars
  <2>15. QED
    BY <2>5, <2>7, <2>8, <2>9, <2>10, <2>11, <2>12, <2>13, <2>14 DEF Next
<1>3. QED
  BY <1>1, <1>2, TypeCorrect, PTL DEF Spec

-----------------------------------------------------------------------------
\* A request keeps what it remembers while others write: a row that is gone stays gone,
\* and an action whose row is changed loses its freshness.
LEMMA OthersWrite ==
  ASSUME TypeOK, RequestInv, NEW new, NEW hs, NEW s, Store(new, hs, s), ids \subseteq ids',
         \A i \in ids : row[i] = None => new[i] = None,
         NEW g \in Handlers, g \notin hs
  PROVE  Remembers(handler[g])'
<1> DEFINE q == handler[g]
<1>1. Remembers(q) /\ row' = new
  BY DEF RequestInv, Store
<1>2. CASE q.pc # "act"
  <2>1. handler'[g] = q
    BY <1>2 DEF Store
  <2>2. QED
    BY <1>1, <1>2, <2>1 DEF Remembers, Has
<1>3. CASE q.pc = "act"
  <2>1. q \in Acting /\ q.id \in ids
    BY <1>1, <1>3, RequestTypes DEF Remembers
  <2>2. CASE new[q.id] = row[q.id]
    <3>1. handler'[g] = q
      BY <1>3, <2>2 DEF Store
    <3>2. QED
      BY <1>1, <1>3, <2>1, <2>2, <3>1 DEF Remembers, Has
  <2>3. CASE new[q.id] # row[q.id]
    <3>1. handler'[g] = [q EXCEPT !.fresh = FALSE]
      BY <1>3, <2>3 DEF Store
    <3>2. handler'[g].pc = "act" /\ handler'[g].id = q.id /\ handler'[g].fresh = FALSE
      BY <1>3, <2>1, <3>1 DEF Acting
    <3>3. QED
      BY <2>1, <3>2 DEF Remembers
  <2>4. QED
    BY <2>2, <2>3
<1>4. QED
  BY <1>2, <1>3

LEMMA RequestsRemember == Spec => []RequestInv
<1>1. Init => RequestInv
  BY DEF Init, RequestInv, Remembers, Idle
<1>2. TypeOK /\ RequestInv /\ [Next]_vars => RequestInv'
  <2> SUFFICES ASSUME TypeOK, RequestInv, [Next]_vars, NEW g \in Handlers
               PROVE  Remembers(handler[g])'
    BY DEF RequestInv
  <2> USE IdAssumption
  <2>1. ASSUME NEW h \in Handlers, NEW s, Goto(h, s), Remembers(s) PROVE Remembers(handler[g])'
    <3>1. handler'[g] = (IF g = h THEN s ELSE handler[g]) /\ UNCHANGED <<row, ids>>
      BY <2>1 DEF Goto, TypeOK
    <3>2. QED
      BY <2>1, <3>1 DEF RequestInv, Remembers, Has
  <2>2. Remembers(Idle)
    BY DEF Remembers, Idle
  <2>3. ASSUME NEW h \in Handlers, NEW new, NEW s, Store(new, {h}, s), ids \subseteq ids',
               \A i \in ids : row[i] = None => new[i] = None, Remembers(s)'
        PROVE  Remembers(handler[g])'
    <3>1. CASE g = h
      <4>1. handler'[g] = s
        BY <2>3, <3>1 DEF Store
      <4>2. QED
        BY <2>3, <4>1 DEF Remembers, Has
    <3>2. CASE g # h
      BY <2>3, <3>2, OthersWrite
    <3>3. QED
      BY <3>1, <3>2
  <2>4. ASSUME NEW gone, Store(Without(gone), {}, Idle), UNCHANGED ids
        PROVE  Remembers(handler[g])'
    <3>1. \A i \in ids : row[i] = None => Without(gone)[i] = None
      BY DEF Without, TypeOK, Has
    <3>2. QED
      BY <2>4, <3>1, OthersWrite
  <2>5. CASE UNCHANGED vars
    BY <2>5 DEF vars, RequestInv, Remembers, Has
  <2>6. ASSUME NEW h \in Handlers, NEW f \in ProductForm, BeginCreate(h, f)
        PROVE  Remembers(handler[g])'
    <3>1. Remembers([pc |-> "check", id |-> None, form |-> f])
      BY DEF Remembers
    <3>2. QED
      BY <2>1, <2>6, <3>1 DEF BeginCreate
  <2>7. ASSUME NEW h \in Handlers, NEW f \in ProductForm, NEW p \in ProductIds, BeginUpdate(h, p, f)
        PROVE  Remembers(handler[g])'
    <3>1. p \in ids
      BY <2>7 DEF BeginUpdate, Has, TypeOK, Ids
    <3>2. Remembers([pc |-> "check", id |-> p, form |-> FillSlug(f, row[p].slug)])
      BY <3>1 DEF Remembers
    <3>3. QED
      BY <2>1, <2>7, <3>2 DEF BeginUpdate
  <2>8. ASSUME NEW h \in Handlers, NEW f \in OrderForm, NEW o \in OrderIds, BeginOrderUpdate(h, o, f)
        PROVE  Remembers(handler[g])'
    <3>1. o \in ids
      BY <2>8 DEF BeginOrderUpdate, Has, TypeOK, Ids
    <3>2. Remembers([pc |-> "write", id |-> o, form |-> f])
      BY <3>1 DEF Remembers
    <3>3. QED
      BY <2>1, <2>8, <3>2 DEF BeginOrderUpdate
  <2>9. ASSUME NEW h \in Handlers, CheckSlug(h) PROVE Remembers(handler[g])'
    <3>1. handler[h] \in Saving
      BY <2>9 DEF CheckSlug, TypeOK, Idle, Reading, Saved, Acting, Placing
    <3> DEFINE s == [handler[h] EXCEPT !.pc = "write"]
    <3>2. s.pc = "write" /\ s.id = handler[h].id
      BY <3>1 DEF Saving
    <3>3. handler[h].id # None => handler[h].id \in ids
      BY <2>9 DEF CheckSlug, RequestInv, Remembers
    <3>4. Remembers(s)
      BY <3>2, <3>3 DEF Remembers
    <3> HIDE DEF s
    <3>5. Goto(h, s) \/ Goto(h, Idle)
      BY <2>9 DEF CheckSlug, s
    <3>6. QED
      BY <2>1, <2>2, <3>4, <3>5
  <2>10. ASSUME NEW h \in Handlers, NEW p \in ProductIds, InsertProduct(h, p)
         PROVE  Remembers(handler[g])'
    <3> DEFINE new == [row EXCEPT ![p] = handler[h].form]
    <3>1. CASE SlugFree(p, handler[h].form.slug)
      <4>1. Remembers([pc |-> "saved", wrote |-> TRUE])'
        BY DEF Remembers
      <4>2. \A i \in ids : row[i] = None => new[i] = None
        BY <2>10 DEF InsertProduct, TypeOK
      <4>3. Store(new, {h}, [pc |-> "saved", wrote |-> TRUE]) /\ ids \subseteq ids'
        BY <2>10, <3>1 DEF InsertProduct
      <4> HIDE DEF new
      <4>4. QED
        BY <2>3, <4>1, <4>2, <4>3
    <3>2. CASE ~SlugFree(p, handler[h].form.slug)
      BY <2>1, <2>2, <2>10, <3>2 DEF InsertProduct
    <3>3. QED
      BY <3>1, <3>2
  <2>11. ASSUME NEW h \in Handlers, UpdateRow(h) PROVE Remembers(handler[g])'
    <3> DEFINE new == [row EXCEPT ![handler[h].id] = Written(handler[h].id, handler[h].form)]
    <3>1. PICK i : i = handler[h].id
      OBVIOUS
    <3>2. i \in ids
      BY <2>11, <3>1 DEF UpdateRow, RequestInv, Remembers
    <3>3. CASE ~Has(i)
      <4>1. Goto(h, [pc |-> "reload", id |-> i, wrote |-> FALSE])
        BY <2>11, <3>1, <3>3 DEF UpdateRow
      <4>2. Remembers([pc |-> "reload", id |-> i, wrote |-> FALSE])
        BY <3>2, <3>3 DEF Remembers
      <4>3. QED
        BY <2>1, <4>1, <4>2
    <3>4. CASE Has(i) /\ Goto(h, Idle)
      BY <2>1, <2>2, <3>4
    <3>5. CASE Has(i) /\ Store(new, {h}, [pc |-> "reload", id |-> i, wrote |-> TRUE]) /\ UNCHANGED ids
      <4>1. Remembers([pc |-> "reload", id |-> i, wrote |-> TRUE])'
        BY <3>2, <3>5 DEF Remembers
      <4>2. \A x \in ids : row[x] = None => new[x] = None
        BY <3>1, <3>5 DEF Has, TypeOK
      <4> HIDE DEF new
      <4>3. QED
        BY <2>3, <3>5, <4>1, <4>2
    <3>6. QED
      BY <2>11, <3>1, <3>3, <3>4, <3>5 DEF UpdateRow
  <2>12. ASSUME NEW h \in Handlers, ReloadRow(h) PROVE Remembers(handler[g])'
    <3>1. handler[h].pc = "reload" /\ Remembers(handler[h]) /\ handler[h].wrote \in BOOLEAN
      BY <2>12, RequestTypes DEF ReloadRow, RequestInv
    <3>2. CASE Has(handler[h].id)
      <4>1. Remembers([pc |-> "saved", wrote |-> handler[h].wrote])
        BY <3>1, <3>2 DEF Remembers
      <4>2. QED
        BY <2>1, <2>12, <3>2, <4>1 DEF ReloadRow
    <3>3. CASE ~Has(handler[h].id)
      BY <2>1, <2>2, <2>12, <3>3 DEF ReloadRow
    <3>4. QED
      BY <3>2, <3>3
  <2>13. ASSUME NEW h \in Handlers, Respond(h) \/ Abandon(h) PROVE Remembers(handler[g])'
    BY <2>1, <2>2, <2>13 DEF Respond, Abandon
  <2>14. ASSUME NEW h \in Handlers, NEW o \in OrderIds, NEW to \in {"fulfilled", "cancelled"},
                BeginAction(h, o, to)
         PROVE  Remembers(handler[g])'
    <3>1. o \in ids /\ Has(o) /\ row[o].status = "pending"
      BY <2>14 DEF BeginAction, Has, TypeOK, Ids
    <3>2. Remembers([pc |-> "act", id |-> o, to |-> to, fresh |-> TRUE])
      BY <3>1 DEF Remembers
    <3>3. QED
      BY <2>1, <2>14, <3>2 DEF BeginAction
  <2>15. ASSUME NEW o \in OrderIds, NEW st, row[o] # None, NEW hs, NEW s,
                hs = {} \/ (s = Idle /\ \E h \in Handlers : hs = {h}),
                Store([row EXCEPT ![o].status = st], hs, s), UNCHANGED ids
         PROVE  Remembers(handler[g])'
    <3> DEFINE new == [row EXCEPT ![o].status = st]
    <3>1. \A x \in ids : row[x] = None => new[x] = None
      BY <2>15 DEF TypeOK
    <3>2. Remembers(Idle)'
      BY DEF Remembers, Idle
    <3>3. Store(new, hs, s) /\ ids \subseteq ids'
      BY <2>15
    <3> HIDE DEF new
    <3>4. CASE hs = {}
      BY <3>1, <3>3, <3>4, OthersWrite
    <3>5. CASE s = Idle /\ \E h \in Handlers : hs = {h}
      BY <2>3, <3>1, <3>2, <3>3, <3>5
    <3>6. QED
      BY <2>15, <3>4, <3>5
  <2>16. ASSUME NEW h \in Handlers, RunAction(h) PROVE Remembers(handler[g])'
    <3>1. handler[h].id \in OrderIds
      BY <2>16, RequestTypes DEF RunAction, Acting
    <3>2. CASE Has(handler[h].id)
      BY <2>15, <2>16, <3>1, <3>2 DEF RunAction, Has
    <3>3. CASE ~Has(handler[h].id)
      BY <2>1, <2>2, <2>16, <3>3 DEF RunAction
    <3>4. QED
      BY <3>2, <3>3
  <2>17. ASSUME NEW h \in Handlers, NEW u \in Users, NEW p \in ProductIds, FindProduct(h, u, p)
         PROVE  Remembers(handler[g])'
    <3>1. Remembers([pc |-> "place", user |-> u, product |-> p])
      BY DEF Remembers
    <3>2. QED
      BY <2>1, <2>17, <3>1 DEF FindProduct
  <2>18. ASSUME NEW h \in Handlers, NEW o \in OrderIds, InsertOrder(h, o)
         PROVE  Remembers(handler[g])'
    <3> DEFINE new == [row EXCEPT ![o] = [product |-> handler[h].product, user |-> handler[h].user,
                                          status |-> "pending"]]
    <3>1. CASE Store(new, {h}, Idle) /\ ids' = ids \cup {o}
      <4>1. \A x \in ids : row[x] = None => new[x] = None
        BY <2>18 DEF InsertOrder, TypeOK
      <4>2. Remembers(Idle)'
        BY DEF Remembers, Idle
      <4> HIDE DEF new
      <4>3. QED
        BY <2>3, <3>1, <4>1, <4>2
    <3>2. CASE Goto(h, Idle)
      BY <2>1, <2>2, <3>2
    <3>3. QED
      BY <2>18, <3>1, <3>2 DEF InsertOrder
  <2>19. ASSUME NEW i \in Ids, DeleteRow(i) PROVE Remembers(handler[g])'
    BY <2>4, <2>19 DEF DeleteRow
  <2>20. ASSUME NEW o \in OrderIds, CancelMine(o) PROVE Remembers(handler[g])'
    BY <2>15, <2>20 DEF CancelMine, Has
  <2>21. ASSUME NEW u \in Users, DeleteUser(u) PROVE Remembers(handler[g])'
    BY <2>4, <2>21 DEF DeleteUser
  <2>22. QED
    BY <2>5, <2>6, <2>7, <2>8, <2>9, <2>10, <2>11, <2>12, <2>13, <2>14, <2>16, <2>17, <2>18,
       <2>19, <2>20, <2>21 DEF Next
<1>3. QED
  BY <1>1, <1>2, TypeCorrect, PTL DEF Spec

\* A form that answers with success was written.
THEOREM SuccessIsReal == Spec => []SuccessWasWritten
<1>1. RequestInv => SuccessWasWritten
  BY DEF RequestInv, Remembers, SuccessWasWritten
<1>2. QED
  BY <1>1, RequestsRemember, PTL

\* An action changes a processed order only when the order changed under it.
THEOREM ActionsAsked == Spec => ActionsAreChecked
<1> DEFINE Runs(h) == /\ handler[h].pc = "act" /\ row'[handler[h].id] # row[handler[h].id]
                      /\ handler'[h].pc = "idle" /\ row[handler[h].id].status # "pending"
           Ok == \A h \in Handlers : Runs(h) => ~handler[h].fresh
<1>1. TypeOK /\ RequestInv /\ [Next]_vars => Ok
  <2> SUFFICES ASSUME TypeOK, RequestInv, [Next]_vars, NEW h \in Handlers, Runs(h)
               PROVE  ~handler[h].fresh
    OBVIOUS
  <2>1. handler[h] \in Acting /\ Remembers(handler[h])
    BY RequestTypes DEF RequestInv
  <2>2. QED
    BY <2>1 DEF Remembers, Acting
<1>2. Ok => \A h \in Handlers :
              /\ handler[h].pc = "act" /\ row'[handler[h].id] # row[handler[h].id]
              /\ handler'[h].pc = "idle" /\ row[handler[h].id].status # "pending"
              => ~handler[h].fresh
  OBVIOUS
<1>3. QED
  BY <1>1, <1>2, TypeCorrect, RequestsRemember, PTL DEF Spec, ActionsAreChecked

=============================================================================
