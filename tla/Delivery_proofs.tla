--------------------------- MODULE Delivery_proofs ---------------------------
(***************************************************************************)
(* Theorems about Delivery, for every number of users, parcels, workers    *)
(* and requests: it keeps the promise of DeliveryPromise.                  *)
(***************************************************************************)
EXTENDS Delivery, FiniteSetTheorems, TLAPS

----------------------------------------------------------------------------
(* Units of a set of rows: those it has, less those it lacks.              *)
UnitsOf(S, f) == UNION {{p} \X (1 .. f[p].quantity) : p \in S}
BelowOf(S, f) == UNION {{p} \X (1 .. -f[p].quantity) : p \in S}
Units(S, f) == Cardinality(UnitsOf(S, f)) - Cardinality(BelowOf(S, f))

LEMMA CellsFinite ==
    ASSUME NEW S, IsFiniteSet(S), NEW size, \A p \in S : size[p] \in Int
    PROVE  IsFiniteSet(UNION {{p} \X (1 .. size[p]) : p \in S})
<1> DEFINE T == {{p} \X (1 .. size[p]) : p \in S}
           g == [p \in S |-> {p} \X (1 .. size[p])]
<1>1. IsFiniteSet(T)
  <2>1. g \in Surjection(S, T)
    BY DEF Surjection
  <2> HIDE DEF g, T
  <2> QED BY <2>1, FS_Surjection
<1>2. ASSUME NEW Y \in T PROVE IsFiniteSet(Y)
  <2>1. PICK p \in S : Y = {p} \X (1 .. size[p])
    BY <1>2
  <2>2. IsFiniteSet(1 .. size[p]) /\ IsFiniteSet({p})
    <3>1. 1 \in Int /\ size[p] \in Int
      OBVIOUS
    <3> QED BY <3>1, FS_Interval, FS_Singleton
  <2> QED BY <2>1, <2>2, FS_Product
<1> HIDE DEF T
<1>3. IsFiniteSet(UNION T)
  BY <1>1, <1>2, FS_UNION
<1> QED BY <1>3 DEF T

LEMMA UnitsFinite ==
    ASSUME NEW S, IsFiniteSet(S), NEW f, \A p \in S : f[p].quantity \in Int
    PROVE  /\ IsFiniteSet(UnitsOf(S, f)) /\ IsFiniteSet(BelowOf(S, f))
           /\ Units(S, f) \in Int
<1> DEFINE above == [p \in S |-> f[p].quantity]
           below == [p \in S |-> -f[p].quantity]
<1>1. UnitsOf(S, f) = UNION {{p} \X (1 .. above[p]) : p \in S}
  BY DEF UnitsOf
<1>2. BelowOf(S, f) = UNION {{p} \X (1 .. below[p]) : p \in S}
  BY DEF BelowOf
<1>3. (\A p \in S : above[p] \in Int) /\ (\A p \in S : below[p] \in Int)
  OBVIOUS
<1> HIDE DEF above, below
<1>4. IsFiniteSet(UnitsOf(S, f))
  BY <1>1, <1>3, CellsFinite
<1>5. IsFiniteSet(BelowOf(S, f))
  BY <1>2, <1>3, CellsFinite
<1>6. Cardinality(UnitsOf(S, f)) \in Nat /\ Cardinality(BelowOf(S, f)) \in Nat
  BY <1>4, <1>5, FS_CardinalityType
<1> QED BY <1>4, <1>5, <1>6 DEF Units

(* Rows that lack nothing.                                                 *)
LEMMA UnitsAreCells ==
    ASSUME NEW S, IsFiniteSet(S), NEW f, \A p \in S : f[p].quantity \in Nat
    PROVE  /\ IsFiniteSet(UnitsOf(S, f))
           /\ Units(S, f) = Cardinality(UnitsOf(S, f))
           /\ Units(S, f) \in Nat
<1>1. IsFiniteSet(UnitsOf(S, f))
  BY UnitsFinite
<1>2. BelowOf(S, f) = {}
  <2>1. \A p \in S : 1 .. -f[p].quantity = {}
    OBVIOUS
  <2> QED BY <2>1 DEF BelowOf
<1>3. Cardinality(BelowOf(S, f)) = 0
  BY <1>2, FS_EmptySet
<1>4. Cardinality(UnitsOf(S, f)) \in Nat
  BY <1>1, FS_CardinalityType
<1> QED BY <1>1, <1>3, <1>4 DEF Units

LEMMA UnitsOfRow ==
    ASSUME NEW x, NEW n \in Nat
    PROVE  IsFiniteSet({x} \X (1 .. n)) /\ Cardinality({x} \X (1 .. n)) = n
<1>1. IsFiniteSet(1 .. n) /\ Cardinality(1 .. n) = n
  <2>1. 1 \in Int /\ n \in Int
    OBVIOUS
  <2>2. Cardinality(1 .. n) = IF 1 > n THEN 0 ELSE n - 1 + 1
    BY <2>1, FS_Interval
  <2>3. IsFiniteSet(1 .. n)
    BY <2>1, FS_Interval
  <2> QED BY <2>2, <2>3
<1>2. IsFiniteSet({x}) /\ Cardinality({x}) = 1
  BY FS_Singleton
<1> QED BY <1>1, <1>2, FS_Product

LEMMA UnitsAdd ==
    ASSUME NEW S, IsFiniteSet(S), NEW f, \A p \in S : f[p].quantity \in Nat,
           NEW x, x \notin S, f[x].quantity \in Nat
    PROVE  Units(S \cup {x}, f) = Units(S, f) + f[x].quantity
<1> DEFINE X == {x} \X (1 .. f[x].quantity)
           n == f[x].quantity
<1>1. n \in Nat
  OBVIOUS
<1>2. IsFiniteSet(X) /\ Cardinality(X) = n
  BY <1>1, UnitsOfRow
<1>3. UnitsOf(S \cup {x}, f) = UnitsOf(S, f) \cup X
  BY DEF UnitsOf
<1>4. UnitsOf(S, f) \cap X = {}
  BY DEF UnitsOf
<1>5. /\ IsFiniteSet(UnitsOf(S, f)) /\ Units(S, f) \in Nat
      /\ Units(S, f) = Cardinality(UnitsOf(S, f))
  BY UnitsAreCells
<1>6. Cardinality(UnitsOf(S, f) \cup X) = Units(S, f) + n - Cardinality({})
  <2> HIDE DEF X
  <2> QED BY <1>2, <1>4, <1>5, FS_Union
<1>7. Cardinality({}) = 0
  BY FS_EmptySet
<1>8. Units(S \cup {x}, f) = Cardinality(UnitsOf(S, f) \cup X)
  <2>1. IsFiniteSet(S \cup {x})
    BY FS_AddElement
  <2>2. \A p \in S \cup {x} : f[p].quantity \in Nat
    OBVIOUS
  <2>3. Units(S \cup {x}, f) = Cardinality(UnitsOf(S \cup {x}, f))
    BY <2>1, <2>2, UnitsAreCells
  <2> QED BY <1>3, <2>3
<1>9. Units(S \cup {x}, f) = Units(S, f) + n - 0
  BY <1>6, <1>7, <1>8
<1> QED BY <1>1, <1>5, <1>9

LEMMA UnitsRemove ==
    ASSUME NEW S, IsFiniteSet(S), NEW f, \A p \in S : f[p].quantity \in Nat,
           NEW x \in S
    PROVE  /\ Units(S, f) = Units(S \ {x}, f) + f[x].quantity
           /\ Units(S \ {x}, f) \in Nat
<1>1. IsFiniteSet(S \ {x}) /\ (S \ {x}) \cup {x} = S
  BY FS_RemoveElement
<1>2. f[x].quantity \in Nat /\ \A p \in S \ {x} : f[p].quantity \in Nat
  OBVIOUS
<1>3. Units((S \ {x}) \cup {x}, f) = Units(S \ {x}, f) + f[x].quantity
  BY <1>1, <1>2, UnitsAdd
<1>4. Units(S \ {x}, f) \in Nat
  BY <1>1, <1>2, UnitsAreCells
<1> QED BY <1>1, <1>3, <1>4

LEMMA UnitsAgree ==
    ASSUME NEW S, NEW f, NEW g, \A p \in S : f[p] = g[p]
    PROVE  Units(S, f) = Units(S, g)
<1>1. UnitsOf(S, f) = UnitsOf(S, g)
  BY DEF UnitsOf
<1>2. BelowOf(S, f) = BelowOf(S, g)
  BY DEF BelowOf
<1> QED BY <1>1, <1>2 DEF Units

LEMMA UnitsOfNothing == ASSUME NEW f PROVE Units({}, f) = 0
<1>1. UnitsOf({}, f) = {} /\ BelowOf({}, f) = {}
  BY DEF UnitsOf, BelowOf
<1>2. Cardinality({}) = 0
  BY FS_EmptySet
<1> QED BY <1>1, <1>2 DEF Units

LEMMA QuantityIsUnits == ASSUME NEW S PROVE Quantity(S) = Units(S, parcel)
BY DEF Quantity, UnitsIn, UnitsBelow, Units, UnitsOf, BelowOf

----------------------------------------------------------------------------
(* What a request has read is of the user, and the row a retain has read   *)
(* is still there or deleted.                                              *)
RequestFits(r, rows) ==
    r # NoRequest =>
        /\ r.user \in Users /\ r.seen \in Nat /\ r.op \in {"deliver", "retain", "reward"}
        /\ r.op = "deliver" => r.chosen \in Int /\ r.chosen <= r.seen
        /\ r.op = "retain" =>
              /\ r.chosen \in Parcels /\ r.quantity \in Int
              /\ rows[r.chosen] \in {Gone, [user |-> r.user, quantity |-> r.quantity]}
RequestKnows(q) == RequestFits(request[q], parcel)

(* The rows a payment has found are still the user's or deleted; while     *)
(* none is deleted its total is theirs.                                    *)
PaymentFits(t, u, rows) ==
    t # NoPayment =>
        /\ \A x \in t.seen : /\ rows[x] # NoParcel
                             /\ rows[x] = Gone \/ rows[x].user = u
        /\ t.made => t.stage = "delete"
        /\ t.payable => t.total >= 0
        /\ t.stage \in {"user", "update"} =>
              /\ t.seen # {}
              /\ (\A x \in t.seen : rows[x] # Gone) => t.total = Price * Units(t.seen, rows)
PaymentKnows(p) == PaymentFits(payment[p], p[2], parcel)

(* Who is not in trouble has sent nothing below zero, and no row of theirs *)
(* is without its product.                                                 *)
HonestRow(x, row, lost, troubles) ==
    /\ x \in lost => row # NoParcel
    /\ row \notin {NoParcel, Gone} /\ row.user \notin troubles =>
          row.quantity \in Nat /\ x \notin lost
Honest == \A x \in Parcels : HonestRow(x, parcel[x], cleared, troubled)

DeliveryInv ==
    /\ TypeOK
    /\ Honest
    /\ \A q \in Requests : RequestKnows(q)
    /\ \A p \in Payments : PaymentKnows(p)

(* A row of a parcel is none of the marks for rows that are not there.     *)
LEMMA RowIsNoMark ==
    ASSUME NEW r \in DeliveringProduct
    PROVE  r # NoParcel /\ r # Gone /\ r.user \in Users /\ r.quantity \in Int
<1>1. DOMAIN r = {"user", "quantity"} /\ DOMAIN NoParcel = {"none"} /\ DOMAIN Gone = {"none"}
  BY DEF DeliveringProduct, NoParcel, Gone
<1>2. "user" # "none"
  OBVIOUS
<1> QED BY <1>1, <1>2 DEF DeliveringProduct

LEMMA MarksDiffer == NoParcel # Gone
<1>1. NoParcel.none = "parcel" /\ Gone.none = "gone"
  BY DEF NoParcel, Gone
<1> QED BY <1>1

LEMMA DeliveringRows ==
    ASSUME TypeOK, NEW u
    PROVE  /\ DeliveringOf(u) \subseteq Parcels
           /\ \A p \in DeliveringOf(u) :
                /\ parcel[p] \in DeliveringProduct
                /\ parcel[p].quantity \in Int
                /\ parcel[p].user = u
BY RowIsNoMark DEF DeliveringOf, TypeOK

Payment == [stage : {"find", "user", "update", "delete"}, seen : SUBSET Parcels,
            total : Int, tokens : Nat, payable : BOOLEAN, made : BOOLEAN]

LEMMA PaymentIsSome == ASSUME NEW t \in Payment PROVE t # NoPayment
<1>1. DOMAIN t = {"stage", "seen", "total", "tokens", "payable", "made"} /\ DOMAIN NoPayment = {"none"}
  BY DEF Payment, NoPayment
<1> QED BY <1>1

LEMMA PaymentAt ==
    ASSUME TypeOK, NEW p \in Payments, Stage(p) # "none"
    PROVE  payment[p] \in Payment /\ Stage(p) = payment[p].stage
BY DEF TypeOK, Stage, Payment

LEMMA QuantityIsInt ==
    ASSUME NEW S \in SUBSET Parcels, \A p \in S : parcel[p].quantity \in Int
    PROVE  Quantity(S) \in Int
<1>1. IsFiniteSet(S)
  BY DeliveryAssumption, FS_Subset
<1> QED BY <1>1, UnitsFinite, QuantityIsUnits

LEMMA WaitingIsFinite == IsFiniteSet(Waiting) /\ Cardinality(Waiting) \in Nat
<1>1. IsFiniteSet(Users) /\ Waiting \in SUBSET Users
  BY DeliveryAssumption DEF Waiting
<1>2. IsFiniteSet(Waiting)
  BY <1>1, FS_Subset
<1> QED BY <1>2, FS_CardinalityType

LEMMA JobsTyped ==
    ASSUME NEW n \in Nat
    PROVE  Jobs(n) \in Seq([skip : Nat, take : Nat])
<1> DEFINE k == (n + BatchSize - 1) \div BatchSize
<1>1. k \in Nat
  BY DeliveryAssumption
<1>2. \A i \in 1 .. k : [skip |-> (i - 1) * BatchSize, take |-> BatchSize] \in [skip : Nat, take : Nat]
  <2> SUFFICES ASSUME NEW i \in 1 .. k
               PROVE  (i - 1) * BatchSize \in Nat /\ BatchSize \in Nat
    OBVIOUS
  <2>1. i - 1 \in Nat /\ BatchSize \in Nat
    BY <1>1, DeliveryAssumption
  <2> HIDE DEF k
  <2>2. \A a, b \in Nat : a * b \in Nat
    OBVIOUS
  <2> QED BY <2>1, <2>2
<1> HIDE DEF k
<1>3. [i \in 1 .. k |-> [skip |-> (i - 1) * BatchSize, take |-> BatchSize]]
        \in Seq([skip : Nat, take : Nat])
  BY <1>1, <1>2
<1> QED BY <1>3 DEF Jobs, k

----------------------------------------------------------------------------
LEMMA TypeInit == Init => DeliveryInv
<1> SUFFICES ASSUME Init PROVE DeliveryInv
  OBVIOUS
<1>1. \A q \in Requests : RequestKnows(q)
  BY DEF Init, RequestKnows, RequestFits
<1>2. \A p \in Payments : PaymentKnows(p)
  BY DEF Init, PaymentKnows, PaymentFits
<1>3. Honest
  BY DEF Init, Honest, HonestRow
<1>4. TypeOK
  <2>1. queue \in Seq([skip : Nat, take : Nat])
    BY DEF Init
  <2> QED BY <2>1, DeliveryAssumption DEF Init, TypeOK
<1> QED BY <1>1, <1>2, <1>3, <1>4 DEF DeliveryInv

(* Troubles are of users.                                                  *)
LEMMA TroubleTyped ==
    ASSUME troubled \subseteq Users, NEW u \in Users, NEW c, TroubleIf(c, u)
    PROVE  troubled' \subseteq Users
BY DEF TroubleIf, Trouble

LEMMA RequestTypes ==
    ASSUME DeliveryInv, NEW q \in Requests, RequestStep(q)
    PROVE  TypeOK'
<1> DEFINE r == request[q]
<1>t. TypeOK
  BY DEF DeliveryInv
<1>k. RequestKnows(q)
  BY DEF DeliveryInv
<1>1. CASE \E u \in Users : ReadDeliver(q, u) \/ ReadRetain(q, u) \/ ReadReward(q, u)
  <2>1. PICK op, u, chosen, seen : Read(q, op, u, chosen, seen)
    BY <1>1 DEF ReadDeliver, ReadRetain, ReadReward
  <2>2. DOMAIN request' = Requests
    BY <1>t, <2>1 DEF Read, TypeOK
  <2> QED BY <1>t, <2>1, <2>2 DEF Read, TypeOK, database, schedule, worker, history
<1>2. CASE DeliverProduct(q)
  <2>1. r # NoRequest /\ r.op = "deliver"
    BY <1>2 DEF DeliverProduct, Asks
  <2>2. r.user \in Users /\ r.seen \in Nat /\ r.chosen \in Int /\ r.chosen <= r.seen
    BY <1>k, <2>1 DEF RequestKnows, RequestFits
  <2>3. stock' \in [Users -> Nat]
    <3>1. r.seen - r.chosen \in Nat
      <4> HIDE DEF r
      <4> QED BY <2>2
    <3>2. stock' = [stock EXCEPT ![r.user] = r.seen - r.chosen]
      BY <1>2 DEF DeliverProduct
    <3> QED BY <1>t, <3>1, <3>2 DEF TypeOK
  <2>4. parcel' \in [Parcels -> DeliveringProduct \cup {NoParcel, Gone}]
    <3>1. [user |-> r.user, quantity |-> r.chosen] \in DeliveringProduct
      BY <2>2 DEF DeliveringProduct
    <3> HIDE DEF r
    <3> QED BY <1>2, <1>t, <3>1 DEF DeliverProduct, TypeOK, r
  <2>5. troubled' \subseteq Users
    BY <1>2, <1>t, <2>2, TroubleTyped DEF DeliverProduct, TypeOK
  <2>6. /\ UNCHANGED <<cleared, tokens, rewards, schedule, worker>>
        /\ request' = [request EXCEPT ![q] = NoRequest]
    BY <1>2 DEF DeliverProduct, Done
  <2> QED BY <1>t, <2>3, <2>4, <2>5, <2>6 DEF TypeOK, schedule, worker
<1>3. CASE RetainProduct(q)
  <2>1. r # NoRequest /\ r.op = "retain"
    BY <1>3 DEF RetainProduct, Asks
  <2> DEFINE n == IF r.quantity > 0 THEN r.quantity ELSE 0
  <2>2. r.user \in Users /\ r.seen \in Nat /\ r.quantity \in Int
    BY <1>k, <2>1 DEF RequestKnows, RequestFits
  <2>3. stock' \in [Users -> Nat]
    <3>2. \/ stock' = [stock EXCEPT ![r.user] = r.seen + n]
          \/ stock' = [stock EXCEPT ![r.user] = stock[r.user] + n]
          \/ UNCHANGED stock
      BY <1>3 DEF RetainProduct
    <3>3. n \in Nat
      <4> HIDE DEF r
      <4> QED BY <2>2
    <3> HIDE DEF n
    <3>1. r.seen + n \in Nat /\ stock[r.user] + n \in Nat
      BY <1>t, <2>2, <3>3 DEF TypeOK
    <3> QED BY <1>t, <3>1, <3>2 DEF TypeOK
  <2>4. parcel' \in [Parcels -> DeliveringProduct \cup {NoParcel, Gone}]
    BY <1>3, <1>t DEF RetainProduct, TypeOK
  <2>5. troubled' \subseteq Users
    BY <1>3, <1>t, <2>2, TroubleTyped DEF RetainProduct, TypeOK
  <2>6. /\ UNCHANGED <<cleared, tokens, rewards, schedule, worker>>
        /\ request' = [request EXCEPT ![q] = NoRequest]
    BY <1>3 DEF RetainProduct, Done
  <2> QED BY <1>t, <2>3, <2>4, <2>5, <2>6 DEF TypeOK, schedule, worker
<1>4. CASE ClaimReward(q)
  <2>1. r # NoRequest
    BY <1>4 DEF ClaimReward, Asks
  <2>2. r.user \in Users /\ r.seen \in Nat
    BY <1>k, <2>1 DEF RequestKnows, RequestFits
  <2>3. tokens' \in [Users -> Nat] /\ rewards' \in [Users -> Nat]
    <3>1. /\ tokens' = [tokens EXCEPT ![r.user] = r.seen + Reward]
          /\ rewards' = [rewards EXCEPT ![r.user] = rewards[r.user] + 1]
      BY <1>4 DEF ClaimReward
    <3>2. tokens \in [Users -> Nat] /\ rewards \in [Users -> Nat] /\ Reward \in Nat
      BY <1>t, DeliveryAssumption DEF TypeOK
    <3>3. rewards[r.user] \in Nat
      BY <2>2, <3>2
    <3>. HIDE DEF r
    <3>4. r.seen + Reward \in Nat /\ rewards[r.user] + 1 \in Nat
      BY <2>2, <3>2, <3>3
    <3> QED BY <3>1, <3>2, <3>4
  <2>4. troubled' \subseteq Users
    BY <1>4, <1>t, <2>2, TroubleTyped DEF ClaimReward, TypeOK
  <2>5. /\ UNCHANGED <<stock, parcel, cleared, schedule, worker>>
        /\ request' = [request EXCEPT ![q] = NoRequest]
    BY <1>4 DEF ClaimReward, Done
  <2> QED BY <1>t, <2>3, <2>4, <2>5 DEF TypeOK, schedule, worker
<1>5. CASE AbortRequest(q)
  BY <1>t, <1>5 DEF AbortRequest, Done, TypeOK, database, schedule, worker, history
<1> QED BY <1>1, <1>2, <1>3, <1>4, <1>5 DEF RequestStep

(* A worker that dies loses its payments and no data.                      *)
LEMMA DyingTypes ==
    ASSUME TypeOK, NEW w, Dies(w)
    PROVE  TypeOK'
<1>1. payment' \in [Payments -> {NoPayment} \cup Payment]
  BY DEF Dies, TypeOK, Payment
<1>2. DOMAIN job' = Workers /\ UNCHANGED <<database, request, schedule, queue, rewards>>
  BY DEF Dies, TypeOK
<1>3. troubled' \subseteq Users
  BY DEF Dies, Trouble, TypeOK
<1> QED BY <1>1, <1>2, <1>3 DEF TypeOK, Payment, database, schedule

LEMMA PaymentTypes ==
    ASSUME DeliveryInv, NEW p \in Payments, PaymentStep(p)
    PROVE  TypeOK'
<1> DEFINE t == payment[p]
           u == p[2]
<1>t. TypeOK
  BY DEF DeliveryInv
<1>u. u \in Users
  BY DEF Payments
<1>s. Stage(p) # "none" => t \in Payment
  BY <1>t, PaymentAt
<1>p. ASSUME NEW new \in Payment \cup {NoPayment}, Advance(p, new)
      PROVE  /\ payment' \in [Payments -> {NoPayment} \cup Payment]
             /\ UNCHANGED <<request, schedule, queue, job, rewards>>
  BY <1>t, <1>p DEF Advance, TypeOK, Payment
<1>1. CASE FindProducts(p)
  <2> DEFINE seen == DeliveringOf(u)
             new == [t EXCEPT !.stage = "user", !.seen = seen, !.total = Price * Quantity(seen),
                              !.payable = Payable(seen)]
  <2>1. seen \in SUBSET Parcels /\ Quantity(seen) \in Int
    <3>1. seen \in SUBSET Parcels /\ \A x \in seen : parcel[x].quantity \in Int
      BY <1>t, DeliveringRows
    <3> QED BY <3>1, QuantityIsInt
  <2>2. Price * Quantity(seen) \in Int /\ Payable(seen) \in BOOLEAN
    <3>1. Price * Quantity(seen) \in Int
      BY <2>1, DeliveryAssumption
    <3>2. Payable(seen) \in BOOLEAN
      BY DEF Payable
    <3> QED BY <3>1, <3>2
  <2>3. t \in Payment
    BY <1>1, <1>s DEF FindProducts
  <2>4. new \in Payment
    <3> HIDE DEF seen, t
    <3> QED BY <2>1, <2>2, <2>3 DEF Payment
  <2>5. Advance(p, IF seen = {} THEN NoPayment ELSE new)
    BY <1>1 DEF FindProducts
  <2>6. UNCHANGED <<database, troubled>>
    BY <1>1 DEF FindProducts
  <2> HIDE DEF new, seen
  <2>7. (IF seen = {} THEN NoPayment ELSE new) \in Payment \cup {NoPayment}
    BY <2>4
  <2>8. /\ payment' \in [Payments -> {NoPayment} \cup Payment]
        /\ UNCHANGED <<request, schedule, queue, job, rewards>>
    BY <1>p, <2>5, <2>7
  <2> QED BY <1>t, <2>6, <2>8 DEF TypeOK, Payment, database, schedule
<1>2. CASE FindUser(p)
  <2> DEFINE new == [t EXCEPT !.stage = "update", !.tokens = tokens[u]]
  <2>1. t \in Payment
    BY <1>2, <1>s DEF FindUser
  <2>2. tokens[u] \in Nat
    BY <1>t, <1>u DEF TypeOK
  <2>3. new \in Payment \cup {NoPayment}
    <3> HIDE DEF t, u
    <3> QED BY <2>1, <2>2 DEF Payment
  <2>4. Advance(p, new) /\ UNCHANGED <<database, troubled>>
    BY <1>2 DEF FindUser
  <2> HIDE DEF new
  <2> QED BY <1>p, <1>t, <2>3, <2>4 DEF TypeOK, Payment, database, schedule
<1>3. CASE UpdateTokens(p)
  <2> DEFINE new == [t EXCEPT !.stage = "delete", !.made = TRUE]
  <2>1. t \in Payment
    BY <1>3, <1>s DEF UpdateTokens
  <2>2. new \in Payment \cup {NoPayment}
    <3> HIDE DEF t
    <3> QED BY <2>1 DEF Payment
  <2>3. Advance(p, new) /\ UNCHANGED <<stock, parcel, cleared>>
    BY <1>3 DEF UpdateTokens
  <2>4. tokens' \in [Users -> Nat]
    <3>1. t.tokens \in Nat /\ t.total \in Int /\ t.payable
      BY <1>3, <2>1 DEF Payment, UpdateTokens
    <3>2. tokens' = [tokens EXCEPT ![u] = t.tokens + t.total]
      BY <1>3 DEF UpdateTokens
    <3>4. t.total >= 0
      <4>1. t # NoPayment /\ PaymentKnows(p)
        BY <2>1, PaymentIsSome DEF DeliveryInv
      <4> QED BY <3>1, <4>1 DEF PaymentKnows, PaymentFits
    <3>3. t.tokens + t.total \in Nat
      <4> HIDE DEF t
      <4> QED BY <3>1, <3>4
    <3> QED BY <1>t, <3>2, <3>3 DEF TypeOK
  <2>5. troubled' \subseteq Users
    BY <1>3, <1>t, <1>u, TroubleTyped DEF UpdateTokens, TypeOK
  <2> HIDE DEF new
  <2> QED BY <1>p, <1>t, <2>2, <2>3, <2>4, <2>5 DEF TypeOK, Payment, schedule
<1>4. CASE FailUpdate(p)
  <2> DEFINE new == [t EXCEPT !.stage = "delete"]
  <2>1. t \in Payment
    BY <1>4, <1>s DEF FailUpdate
  <2>2. new \in Payment \cup {NoPayment}
    <3> HIDE DEF t
    <3> QED BY <2>1 DEF Payment
  <2>3. Advance(p, new) /\ UNCHANGED <<database, troubled>>
    BY <1>4 DEF FailUpdate
  <2> HIDE DEF new
  <2> QED BY <1>p, <1>t, <2>2, <2>3 DEF TypeOK, Payment, database, schedule
<1>5. CASE DeleteProducts(p)
  <2>1. Advance(p, NoPayment) /\ UNCHANGED <<stock, cleared, tokens>>
    BY <1>5 DEF DeleteProducts
  <2>2. parcel' \in [Parcels -> DeliveringProduct \cup {NoParcel, Gone}]
    BY <1>5, <1>t DEF DeleteProducts, TypeOK
  <2>3. troubled' \subseteq Users
    BY <1>5, <1>t, <1>u, TroubleTyped DEF DeleteProducts, TypeOK
  <2> QED BY <1>p, <1>t, <2>1, <2>2, <2>3 DEF TypeOK, Payment, schedule
<1>6. CASE RefusePayment(p)
  BY <1>6, <1>t, DyingTypes DEF RefusePayment
<1> QED BY <1>1, <1>2, <1>3, <1>4, <1>5, <1>6 DEF PaymentStep

LEMMA SchedulerTypes ==
    ASSUME TypeOK, NEW r \in Replicas, SchedulerStep(r)
    PROVE  /\ TypeOK'
           /\ UNCHANGED <<database, request, payment, history>>
<1>1. CASE \E elected \in BOOLEAN : HandleLeader(r, elected)
  BY <1>1 DEF HandleLeader, TypeOK, database, worker, history
<1>2. CASE TriggerDeliveryProducts(r) \/ HandleDeliveryProducts(r)
  <2>1. queue' \in Seq([skip : Nat, take : Nat])
    <3>1. CASE EnqueueDelivery(r)
      <4>1. Jobs(Cardinality(Waiting)) \in Seq([skip : Nat, take : Nat])
        BY WaitingIsFinite, JobsTyped
      <4>2. queue' = queue \o Jobs(Cardinality(Waiting))
        BY <3>1 DEF EnqueueDelivery
      <4> QED BY <4>1, <4>2 DEF TypeOK
    <3>2. CASE UNCHANGED queue
      BY <3>2 DEF TypeOK
    <3> QED BY <1>2, <3>1, <3>2 DEF TriggerDeliveryProducts, HandleDeliveryProducts
  <2>2. /\ instantly' \in BOOLEAN
        /\ UNCHANGED <<database, request, isLeader, job, payment, history>>
    BY <1>2 DEF TriggerDeliveryProducts, HandleDeliveryProducts, TypeOK
  <2> QED BY <2>1, <2>2 DEF TypeOK, database, history
<1> QED BY <1>1, <1>2 DEF SchedulerStep

JobStep(w) ==
    \/ TakeJob(w)
    \/ ListUsers(w)
    \/ CompleteJob(w)
    \/ FailJob(w)
    \/ CrashWorker(w)

LEMMA JobTypes ==
    ASSUME TypeOK, NEW w \in Workers, JobStep(w)
    PROVE  TypeOK'
<1>1. CASE TakeJob(w)
  BY <1>1 DEF TakeJob, TypeOK, database, schedule, history
<1>2. CASE ListUsers(w)
  <2> DEFINE new == [stage |-> "find", seen |-> {}, total |-> 0, tokens |-> 0, payable |-> TRUE,
                 made |-> FALSE]
  <2>1. new \in Payment
    BY DEF Payment
  <2>2. payment' \in [Payments -> {NoPayment} \cup Payment]
    <3> HIDE DEF new
    <3> QED BY <1>2, <2>1 DEF ListUsers, TypeOK, Payment, new
  <2>3. DOMAIN job' = Workers /\ UNCHANGED <<database, request, schedule, queue, history>>
    BY <1>2 DEF ListUsers, TypeOK
  <2> QED BY <2>2, <2>3 DEF TypeOK, Payment, database, schedule, history
<1>3. CASE CompleteJob(w)
  BY <1>3 DEF CompleteJob, TypeOK, database, schedule, history
<1>4. CASE FailJob(w)
  BY <1>4 DEF FailJob, TypeOK, database, schedule, history
<1>5. CASE CrashWorker(w)
  BY <1>5, DyingTypes DEF CrashWorker
<1> QED BY <1>1, <1>2, <1>3, <1>4, <1>5 DEF JobStep

LEMMA TypeStep ==
    ASSUME DeliveryInv, [Next]_vars
    PROVE  TypeOK'
<1>t. TypeOK
  BY DEF DeliveryInv
<1>1. CASE UNCHANGED vars
  BY <1>1, <1>t DEF vars, database, schedule, worker, history, TypeOK
<1>2. CASE DeliverInstantly
  BY <1>2, <1>t DEF DeliverInstantly, TypeOK, database, worker, history
<1>3. CASE ClearSeeders
  <2>1. stock' \in [Users -> Nat] /\ cleared' \subseteq Parcels /\ troubled' \subseteq Users
    BY <1>3, <1>t DEF ClearSeeders, Trouble, TypeOK
  <2>2. UNCHANGED <<parcel, tokens, request, schedule, worker, rewards>>
    BY <1>3 DEF ClearSeeders
  <2> QED BY <1>t, <2>1, <2>2 DEF TypeOK, schedule, worker
<1> QED BY <1>t, <1>1, <1>2, <1>3, RequestTypes, SchedulerTypes, JobTypes, PaymentTypes
           DEF Next, JobStep

----------------------------------------------------------------------------
(* A row once there stays as it is or is deleted, and is not written again.*)
RowsOnlyGo ==
    \A x \in Parcels : parcel[x] # NoParcel => parcel'[x] = parcel[x] \/ parcel'[x] = Gone

LEMMA RowsGo ==
    ASSUME DeliveryInv, [Next]_vars
    PROVE  RowsOnlyGo
<1>t. TypeOK
  BY DEF DeliveryInv
<1>1. CASE UNCHANGED parcel
  BY <1>1 DEF RowsOnlyGo
<1>2. ASSUME NEW q \in Requests, DeliverProduct(q) PROVE RowsOnlyGo
  BY <1>2, <1>t DEF DeliverProduct, TypeOK, RowsOnlyGo
<1>3. ASSUME NEW q \in Requests, RetainProduct(q) PROVE RowsOnlyGo
  BY <1>3, <1>t DEF RetainProduct, TypeOK, RowsOnlyGo
<1>4. ASSUME NEW p \in Payments, DeleteProducts(p) PROVE RowsOnlyGo
  BY <1>4, <1>t DEF DeleteProducts, RowsOnlyGo
<1>5. CASE Next
  <2>1. ASSUME NEW q \in Requests, RequestStep(q) PROVE RowsOnlyGo
    BY <1>1, <1>2, <1>3, <2>1 DEF RequestStep, ReadDeliver, ReadRetain, ReadReward, Read,
       ClaimReward, AbortRequest, database
  <2>2. CASE DeliverInstantly
    BY <1>1, <2>2 DEF DeliverInstantly, database
  <2>3. ASSUME NEW r \in Replicas, SchedulerStep(r) PROVE RowsOnlyGo
    BY <1>1, <1>t, <2>3, SchedulerTypes DEF database
  <2>4. ASSUME NEW w \in Workers, JobStep(w) PROVE RowsOnlyGo
    BY <1>1, <2>4 DEF JobStep, TakeJob, ListUsers, CompleteJob, FailJob, CrashWorker, Dies,
       database
  <2>5. ASSUME NEW p \in Payments, PaymentStep(p) PROVE RowsOnlyGo
    BY <1>1, <1>4, <2>5 DEF PaymentStep, FindProducts, FindUser, UpdateTokens, FailUpdate,
       RefusePayment, Dies, database
  <2>6. CASE ClearSeeders
    BY <1>1, <2>6 DEF ClearSeeders
  <2> QED BY <1>5, <2>1, <2>2, <2>3, <2>4, <2>5, <2>6 DEF Next, JobStep
<1>6. CASE UNCHANGED vars
  BY <1>1, <1>6 DEF vars, database
<1> QED BY <1>5, <1>6

(* What a request has read keeps.                                          *)
LEMMA RequestKeeps ==
    ASSUME DeliveryInv, RowsOnlyGo, NEW q \in Requests,
           request'[q] \in {request[q], NoRequest}
    PROVE  RequestKnows(q)'
<1>1. RequestKnows(q)
  BY DEF DeliveryInv
<1>2. CASE request'[q] = NoRequest
  BY <1>2 DEF RequestKnows, RequestFits
<1>3. CASE request'[q] = request[q] /\ request[q] # NoRequest
  <2> DEFINE r == request[q]
  <2>1. r.op = "retain" =>
          parcel'[r.chosen] \in {Gone, [user |-> r.user, quantity |-> r.quantity]}
    <3> SUFFICES ASSUME r.op = "retain"
                 PROVE  parcel'[r.chosen] \in {Gone, [user |-> r.user, quantity |-> r.quantity]}
      OBVIOUS
    <3> DEFINE row == [user |-> r.user, quantity |-> r.quantity]
    <3>1. /\ r.chosen \in Parcels /\ r.user \in Users /\ r.quantity \in Int
          /\ parcel[r.chosen] \in {Gone, row}
      BY <1>1, <1>3 DEF RequestKnows, RequestFits
    <3>2. row \in DeliveringProduct
      BY <3>1 DEF DeliveringProduct
    <3> HIDE DEF r, row
    <3>3. parcel[r.chosen] # NoParcel
      BY <3>1, <3>2, RowIsNoMark, MarksDiffer
    <3>4. parcel'[r.chosen] \in {Gone, row}
      BY <3>1, <3>3 DEF RowsOnlyGo
    <3> QED BY <3>4 DEF row
  <2> QED BY <1>1, <1>3, <2>1 DEF RequestKnows, RequestFits
<1> QED BY <1>2, <1>3

LEMMA RequestReads ==
    ASSUME DeliveryInv, NEW q \in Requests, NEW u \in Users,
           ReadDeliver(q, u) \/ ReadRetain(q, u) \/ ReadReward(q, u)
    PROVE  RequestKnows(q)'
<1>t. TypeOK
  BY DEF DeliveryInv
<1>n. stock[u] \in Nat /\ tokens[u] \in Nat
  BY <1>t DEF TypeOK
<1>1. CASE ReadDeliver(q, u)
  <2>1. PICK n \in -BelowZero .. stock[u] : Read(q, "deliver", u, n, stock[u])
    BY <1>1 DEF ReadDeliver
  <2>4. n \in Int /\ n <= stock[u]
    <3>1. -BelowZero \in Int
      BY DeliveryAssumption
    <3> QED BY <1>n, <2>1, <3>1
  <2> DEFINE r == [op |-> "deliver", user |-> u, chosen |-> n, seen |-> stock[u], quantity |-> 0]
  <2>2. request'[q] = r
    BY <2>1, <1>t DEF Read, TypeOK
  <2>3. r.op = "deliver" /\ r.user = u /\ r.chosen = n /\ r.seen = stock[u]
    OBVIOUS
  <2> HIDE DEF r
  <2> QED BY <2>2, <2>3, <2>4, <1>n DEF RequestKnows, RequestFits
<1>2. CASE ReadRetain(q, u)
  <2>1. PICK p \in DeliveringOf(u) : Read(q, "retain", u, p, stock[u])
    BY <1>2 DEF ReadRetain
  <2> DEFINE n == parcel[p].quantity
             r == [op |-> "retain", user |-> u, chosen |-> p, seen |-> stock[u], quantity |-> n]
  <2>2. request'[q] = r /\ parcel' = parcel
    BY <2>1, <1>t DEF Read, TypeOK, database
  <2>3. /\ r.op = "retain" /\ r.user = u /\ r.chosen = p /\ r.seen = stock[u]
        /\ r.quantity = n
    OBVIOUS
  <2>4. p \in Parcels /\ parcel[p] \in DeliveringProduct /\ parcel[p].user = u
    BY <1>t, DeliveringRows
  <2>5. n \in Int /\ parcel[p] = [user |-> u, quantity |-> n]
    BY <2>4 DEF DeliveringProduct
  <2> HIDE DEF r, n
  <2> QED BY <2>2, <2>3, <2>4, <2>5, <1>n DEF RequestKnows, RequestFits
<1>3. CASE ReadReward(q, u)
  <2> DEFINE r == [op |-> "reward", user |-> u, chosen |-> 0, seen |-> tokens[u], quantity |-> 0]
  <2>1. request'[q] = r
    BY <1>3, <1>t DEF ReadReward, Read, TypeOK
  <2>2. r.op = "reward" /\ r.user = u /\ r.seen = tokens[u]
    OBVIOUS
  <2> HIDE DEF r
  <2> QED BY <2>1, <2>2, <1>n DEF RequestKnows, RequestFits
<1> QED BY <1>1, <1>2, <1>3

(* What a payment has found keeps, and its total while nothing is deleted. *)
LEMMA PaymentKeeps ==
    ASSUME DeliveryInv, RowsOnlyGo, NEW p \in Payments,
           payment'[p] \in {payment[p], NoPayment}
    PROVE  PaymentKnows(p)'
<1>1. PaymentKnows(p) /\ TypeOK
  BY DEF DeliveryInv
<1>2. CASE payment'[p] = NoPayment
  BY <1>2 DEF PaymentKnows, PaymentFits
<1>3. CASE payment'[p] = payment[p] /\ payment[p] # NoPayment
  <2> DEFINE t == payment[p]
  <2>1. t \in Payment
    BY <1>1, <1>3 DEF TypeOK, Payment
  <2>2. t.seen \subseteq Parcels
    BY <2>1 DEF Payment
  <2>3. \A x \in t.seen : /\ parcel[x] # NoParcel
                          /\ parcel[x] = Gone \/ parcel[x].user = p[2]
    BY <1>1, <1>3 DEF PaymentKnows, PaymentFits
  <2>4. \A x \in t.seen : parcel'[x] = parcel[x] \/ parcel'[x] = Gone
    BY <2>2, <2>3 DEF RowsOnlyGo
  <2>5. ASSUME \A x \in t.seen : parcel'[x] # Gone
        PROVE  /\ \A x \in t.seen : parcel[x] # Gone
               /\ Units(t.seen, parcel) = Units(t.seen, parcel')
    <3>1. \A x \in t.seen : parcel[x] = parcel'[x]
      BY <2>4, <2>5
    <3>2. Units(t.seen, parcel) = Units(t.seen, parcel')
      <4> HIDE DEF t
      <4> QED BY <3>1, UnitsAgree
    <3> QED BY <2>5, <3>1, <3>2
  <2>7. t.stage \in {"user", "update"} /\ (\A x \in t.seen : parcel'[x] # Gone) =>
            t.total = Price * Units(t.seen, parcel')
    BY <1>1, <1>3, <2>5 DEF PaymentKnows, PaymentFits
  <2>8. \A x \in t.seen : /\ parcel'[x] # NoParcel
                          /\ parcel'[x] = Gone \/ parcel'[x].user = p[2]
    BY <2>3, <2>4, MarksDiffer
  <2>9. /\ t.made => t.stage = "delete"
        /\ t.payable => t.total >= 0
        /\ t.stage \in {"user", "update"} => t.seen # {}
    BY <1>1, <1>3 DEF PaymentKnows, PaymentFits
  <2>10. payment'[p] = t
    BY <1>3
  <2> HIDE DEF t
  <2> QED BY <2>7, <2>8, <2>9, <2>10 DEF PaymentKnows, PaymentFits
<1> QED BY <1>2, <1>3

(* The steps of a payment itself.                                          *)
LEMMA PaymentAdvances ==
    ASSUME DeliveryInv, RowsOnlyGo, NEW p \in Payments, PaymentStep(p)
    PROVE  PaymentKnows(p)'
<1> DEFINE t == payment[p]
<1>t. TypeOK /\ PaymentKnows(p)
  BY DEF DeliveryInv
<1>k. t # NoPayment =>
        /\ \A x \in t.seen : /\ parcel[x] # NoParcel
                             /\ parcel[x] = Gone \/ parcel[x].user = p[2]
        /\ t.payable => t.total >= 0
        /\ t.stage \in {"user", "update"} =>
              /\ t.seen # {}
              /\ (\A x \in t.seen : parcel[x] # Gone) => t.total = Price * Units(t.seen, parcel)
  BY <1>t DEF PaymentKnows, PaymentFits
<1>a. ASSUME NEW new, Advance(p, new) PROVE payment'[p] = new
  BY <1>a, <1>t DEF Advance, TypeOK
<1>s. Stage(p) # "none" => t # NoPayment /\ t \in Payment /\ t.stage = Stage(p)
  BY <1>t, PaymentAt, PaymentIsSome
<1>1. CASE FindProducts(p)
  <2> DEFINE seen == DeliveringOf(p[2])
             new == [t EXCEPT !.stage = "user", !.seen = seen, !.total = Price * Quantity(seen),
                              !.payable = Payable(seen)]
  <2>1. t \in Payment /\ t.stage = "find" /\ t # NoPayment
    BY <1>1, <1>s DEF FindProducts
  <2>2. ~t.made
    BY <1>t, <2>1 DEF PaymentKnows, PaymentFits, Payment
  <2>3. Advance(p, IF seen = {} THEN NoPayment ELSE new) /\ parcel' = parcel
    BY <1>1 DEF FindProducts, database
  <2>4. CASE seen = {}
    BY <1>a, <2>3, <2>4 DEF PaymentKnows, PaymentFits
  <2>5. CASE seen # {}
    <3>1. payment'[p] = new
      BY <1>a, <2>3, <2>5
    <3>2. /\ new.stage = "user" /\ new.seen = seen /\ new.total = Price * Quantity(seen)
          /\ new.made = t.made /\ new.payable = Payable(seen)
      <4> HIDE DEF seen, t
      <4> QED BY <2>1 DEF Payment
    <3>5. new.payable => new.total >= 0
      <4> HIDE DEF new, seen
      <4> QED BY <3>2 DEF Payable
    <3>3. \A x \in seen : /\ parcel[x] # NoParcel
                          /\ parcel[x] = Gone \/ parcel[x].user = p[2]
      BY DEF DeliveringOf
    <3> HIDE DEF new, seen
    <3>4. Quantity(seen) = Units(seen, parcel)
      BY QuantityIsUnits
    <3> QED BY <2>2, <2>3, <2>5, <3>1, <3>2, <3>3, <3>4, <3>5 DEF PaymentKnows, PaymentFits
  <2> QED BY <2>4, <2>5
<1>2. CASE FindUser(p)
  <2> DEFINE new == [t EXCEPT !.stage = "update", !.tokens = tokens[p[2]]]
  <2>1. t \in Payment /\ t.stage = "user" /\ t # NoPayment
    BY <1>2, <1>s DEF FindUser
  <2>2. ~t.made
    BY <1>t, <2>1 DEF PaymentKnows, PaymentFits, Payment
  <2>3. payment'[p] = new /\ parcel' = parcel
    BY <1>2, <1>a DEF FindUser, database
  <2>4. /\ new.stage = "update" /\ new.seen = t.seen /\ new.total = t.total
        /\ new.made = t.made /\ new.payable = t.payable
    <3> HIDE DEF t
    <3> QED BY <2>1 DEF Payment
  <2> HIDE DEF new, t
  <2> QED BY <1>k, <2>1, <2>2, <2>3, <2>4 DEF PaymentKnows, PaymentFits
<1>3. CASE UpdateTokens(p) \/ FailUpdate(p)
  <2>1. t \in Payment /\ t.stage = "update" /\ t # NoPayment
    BY <1>3, <1>s DEF UpdateTokens, FailUpdate
  <2>2. parcel' = parcel
    BY <1>3 DEF UpdateTokens, FailUpdate, database
  <2>3. /\ payment'[p].stage = "delete" /\ payment'[p].seen = t.seen
        /\ payment'[p].payable = t.payable /\ payment'[p].total = t.total
    <3>1. CASE UpdateTokens(p)
      <4>1. payment'[p] = [t EXCEPT !.stage = "delete", !.made = TRUE]
        BY <1>a, <3>1 DEF UpdateTokens
      <4> HIDE DEF t
      <4> QED BY <2>1, <4>1 DEF Payment
    <3>2. CASE FailUpdate(p)
      <4>1. payment'[p] = [t EXCEPT !.stage = "delete"]
        BY <1>a, <3>2 DEF FailUpdate
      <4> HIDE DEF t
      <4> QED BY <2>1, <4>1 DEF Payment
    <3> QED BY <1>3, <3>1, <3>2
  <2> HIDE DEF t
  <2> QED BY <1>k, <2>1, <2>2, <2>3 DEF PaymentKnows, PaymentFits
<1>4. CASE DeleteProducts(p) \/ RefusePayment(p)
  <2>1. payment'[p] = NoPayment
    BY <1>4, <1>a DEF DeleteProducts, RefusePayment, Dies
  <2> QED BY <2>1 DEF PaymentKnows, PaymentFits
<1> QED BY <1>1, <1>2, <1>3, <1>4 DEF PaymentStep

(* A new row below zero is of somebody in trouble, and troubles stay.      *)
LEMMA TroublesStay ==
    ASSUME [Next]_vars
    PROVE  troubled \subseteq troubled' /\ (UNCHANGED cleared \/ ClearSeeders)
<1> DEFINE Goal == troubled \subseteq troubled' /\ (UNCHANGED cleared \/ ClearSeeders)
<1>1. CASE UNCHANGED vars \/ DeliverInstantly \/ ClearSeeders
  BY <1>1 DEF vars, database, history, DeliverInstantly, ClearSeeders, Trouble
<1>2. ASSUME NEW q \in Requests, RequestStep(q) PROVE Goal
  BY <1>2 DEF RequestStep, ReadDeliver, ReadRetain, ReadReward, Read, DeliverProduct,
     RetainProduct, ClaimReward, AbortRequest, TroubleIf, Trouble, database, history
<1>3. ASSUME NEW r \in Replicas, SchedulerStep(r) PROVE Goal
  BY <1>3 DEF SchedulerStep, TriggerDeliveryProducts, HandleDeliveryProducts, HandleLeader, database, history
<1>4. ASSUME NEW w \in Workers, JobStep(w) PROVE Goal
  BY <1>4 DEF JobStep, TakeJob, ListUsers, CompleteJob, FailJob, CrashWorker, Dies, Trouble, database,
     history
<1>5. ASSUME NEW p \in Payments, PaymentStep(p) PROVE Goal
  BY <1>5 DEF PaymentStep, FindProducts, FindUser, UpdateTokens, FailUpdate, DeleteProducts,
     RefusePayment, Dies, TroubleIf, Trouble, database
<1> QED BY <1>1, <1>2, <1>3, <1>4, <1>5 DEF Next, JobStep

(* No step but a delivery writes a new row.                                *)
LEMMA NewRowIsSent ==
    ASSUME DeliveryInv, [Next]_vars, NEW x \in Parcels,
           parcel[x] = NoParcel, parcel'[x] # NoParcel
    PROVE  \E q \in Requests : DeliverProduct(q)
<1>t. TypeOK
  BY DEF DeliveryInv
<1>1. CASE UNCHANGED parcel
  BY <1>1
<1>2. ASSUME NEW p \in Payments, DeleteProducts(p) PROVE FALSE
  BY <1>2, <1>t DEF DeleteProducts, DeliveringOf, TypeOK
<1>3. ASSUME NEW q \in Requests, RetainProduct(q) PROVE FALSE
  <2>1. parcel' = [parcel EXCEPT ![request[q].chosen] = Gone]
    BY <1>3 DEF RetainProduct
  <2>2. request[q].chosen = x
    BY <1>t, <2>1 DEF TypeOK
  <2>3. parcel[x] \in {Gone, [user |-> request[q].user, quantity |-> request[q].quantity]}
        /\ request[q].user \in Users /\ request[q].quantity \in Int
    BY <1>3, <2>2 DEF DeliveryInv, RequestKnows, RequestFits, RetainProduct, Asks
  <2>4. [user |-> request[q].user, quantity |-> request[q].quantity] \in DeliveringProduct
    BY <2>3 DEF DeliveringProduct
  <2> QED BY <2>3, <2>4, RowIsNoMark, MarksDiffer
<1>4. CASE Next
  <2>1. ASSUME NEW q \in Requests, RequestStep(q) PROVE UNCHANGED parcel \/ DeliverProduct(q)
    BY <1>3, <2>1 DEF RequestStep, ReadDeliver, ReadRetain, ReadReward, Read,
       ClaimReward, AbortRequest, database
  <2>2. CASE DeliverInstantly \/ ClearSeeders
    BY <1>1, <2>2 DEF DeliverInstantly, ClearSeeders, database
  <2>3. ASSUME NEW r \in Replicas, SchedulerStep(r) PROVE UNCHANGED parcel
    BY <1>t, <2>3, SchedulerTypes DEF database
  <2>4. ASSUME NEW w \in Workers, JobStep(w) PROVE UNCHANGED parcel
    BY <2>4 DEF JobStep, TakeJob, ListUsers, CompleteJob, FailJob, CrashWorker, Dies, database
  <2>5. ASSUME NEW p \in Payments, PaymentStep(p) PROVE UNCHANGED parcel
    BY <1>2, <2>5 DEF PaymentStep, FindProducts, FindUser, UpdateTokens, FailUpdate,
       RefusePayment, Dies, database
  <2> QED BY <1>1, <1>4, <2>1, <2>2, <2>3, <2>4, <2>5 DEF Next, JobStep
<1>5. CASE UNCHANGED vars
  BY <1>1, <1>5 DEF vars, database
<1> QED BY <1>4, <1>5

LEMMA HonestStep ==
    ASSUME DeliveryInv, [Next]_vars
    PROVE  Honest'
<1>t. /\ TypeOK /\ Honest /\ troubled \subseteq troubled'
      /\ UNCHANGED cleared \/ ClearSeeders
  BY TroublesStay DEF DeliveryInv
<1> SUFFICES ASSUME NEW x \in Parcels PROVE HonestRow(x, parcel'[x], cleared', troubled')
  BY DEF Honest
<1>h. HonestRow(x, parcel[x], cleared, troubled)
  BY <1>t DEF Honest
<1>1. CASE UNCHANGED cleared /\ parcel'[x] \in {parcel[x], Gone}
  BY <1>1, <1>h, <1>t, MarksDiffer DEF HonestRow
<1>2. CASE UNCHANGED cleared /\ parcel[x] = NoParcel /\ parcel'[x] # NoParcel
  <2>1. PICK q \in Requests : DeliverProduct(q)
    BY <1>2, NewRowIsSent
  <2> DEFINE r == request[q]
             row == [user |-> r.user, quantity |-> r.chosen]
  <2>2. /\ parcel'[x] \in {parcel[x], row}
        /\ troubled' = troubled \cup {v \in {r.user} : stock[r.user] # r.seen \/ r.chosen < 0}
    BY <1>t, <2>1 DEF DeliverProduct, TroubleIf, Trouble, TypeOK
  <2>3. r.chosen \in Int
    BY <2>1 DEF DeliveryInv, RequestKnows, RequestFits, DeliverProduct, Asks
  <2>4. row.user = r.user /\ row.quantity = r.chosen
    OBVIOUS
  <2>6. x \notin cleared
    BY <1>2, <1>h DEF HonestRow
  <2> HIDE DEF r, row
  <2>5. r.user \in troubled' \/ r.chosen \in Nat
    <3>1. r.chosen < 0 \/ r.chosen \in Nat
      BY <2>3
    <3> QED BY <2>2, <3>1
  <2> QED BY <1>2, <2>2, <2>4, <2>5, <2>6 DEF HonestRow
<1>3. CASE ClearSeeders
  <2>1. /\ parcel' = parcel
        /\ cleared' = cleared \cup {p \in Parcels : parcel[p] \notin {NoParcel, Gone}}
        /\ troubled' = troubled \cup {u \in Users : stock[u] > 0 \/ DeliveringOf(u) # {}}
    BY <1>3 DEF ClearSeeders, Trouble
  <2>2. ASSUME parcel[x] \notin {NoParcel, Gone} PROVE parcel[x].user \in troubled'
    <3>1. parcel[x] \in DeliveringProduct
      BY <1>t, <2>2 DEF TypeOK
    <3>2. parcel[x].user \in Users /\ x \in DeliveringOf(parcel[x].user)
      BY <2>2, <3>1, RowIsNoMark DEF DeliveringOf
    <3> QED BY <2>1, <3>2
  <2>3. x \in cleared' => parcel[x] # NoParcel
    BY <1>h, <2>1 DEF HonestRow
  <2> QED BY <2>1, <2>2, <2>3 DEF HonestRow
<1> QED BY <1>t, <1>1, <1>2, <1>3, RowsGo DEF RowsOnlyGo

LEMMA DeliveryStep ==
    ASSUME DeliveryInv, [Next]_vars
    PROVE  DeliveryInv'
<1>t. TypeOK
  BY DEF DeliveryInv
<1>g. RowsOnlyGo
  BY RowsGo
<1>1. ASSUME NEW q \in Requests, RequestStep(q), NEW o \in Requests
      PROVE  RequestKnows(o)' /\ payment' = payment
  <2>1. payment' = payment
    BY <1>1 DEF RequestStep, ReadDeliver, ReadRetain, ReadReward, Read, DeliverProduct,
       RetainProduct, ClaimReward, AbortRequest, Done, worker
  <2>2. CASE o = q /\ \E u \in Users : ReadDeliver(q, u) \/ ReadRetain(q, u) \/ ReadReward(q, u)
    BY <2>1, <2>2, RequestReads DEF RequestKnows
  <2>3. CASE o # q /\ \E u \in Users : ReadDeliver(q, u) \/ ReadRetain(q, u) \/ ReadReward(q, u)
    <3>1. request'[o] = request[o]
      BY <1>t, <2>3 DEF ReadDeliver, ReadRetain, ReadReward, Read, TypeOK
    <3> QED BY <1>g, <2>1, <3>1, RequestKeeps DEF RequestKnows
  <2>4. CASE Done(q)
    <3>1. request'[o] \in {request[o], NoRequest}
      BY <1>t, <2>4 DEF Done, TypeOK
    <3> QED BY <1>g, <2>1, <3>1, RequestKeeps DEF RequestKnows
  <2>5. \/ \E u \in Users : ReadDeliver(q, u) \/ ReadRetain(q, u) \/ ReadReward(q, u)
        \/ Done(q)
    BY <1>1 DEF RequestStep, DeliverProduct, RetainProduct, ClaimReward, AbortRequest
  <2> QED BY <2>1, <2>2, <2>3, <2>4, <2>5
<1>2. CASE \E q \in Requests : RequestStep(q)
  <2>1. \A o \in Requests : RequestKnows(o)'
    BY <1>1, <1>2
  <2>2. \A p \in Payments : PaymentKnows(p)'
    <3>1. payment' = payment \/ Requests = {}
      BY <1>1, <1>2
    <3> QED BY <1>2, <1>g, <3>1, PaymentKeeps DEF PaymentKnows
  <2> QED BY <2>1, <2>2, TypeStep, HonestStep DEF DeliveryInv
<1>3. ASSUME UNCHANGED request PROVE \A q \in Requests : RequestKnows(q)'
  BY <1>3, <1>g, RequestKeeps DEF RequestKnows
<1>4. ASSUME UNCHANGED payment PROVE \A p \in Payments : PaymentKnows(p)'
  BY <1>4, <1>g, PaymentKeeps DEF PaymentKnows
<1>5. CASE DeliverInstantly \/ (\E r \in Replicas : SchedulerStep(r)) \/ UNCHANGED vars
  <2>1. UNCHANGED <<request, payment>>
    BY <1>t, <1>5, SchedulerTypes DEF DeliverInstantly, worker, vars
  <2> QED BY <1>3, <1>4, <2>1, TypeStep, HonestStep DEF DeliveryInv
<1>6. ASSUME NEW w \in Workers, JobStep(w)
      PROVE  DeliveryInv'
  <2>1. UNCHANGED request
    BY <1>6 DEF JobStep, TakeJob, ListUsers, CompleteJob, FailJob, CrashWorker, Dies
  <2>2. CASE UNCHANGED payment
    BY <1>3, <1>4, <2>1, <2>2, TypeStep, HonestStep DEF DeliveryInv
  <2>3. CASE CrashWorker(w)
    <3>1. \A p \in Payments : payment'[p] \in {payment[p], NoPayment}
      BY <2>3 DEF CrashWorker, Dies
    <3> QED BY <1>3, <1>g, <2>1, <3>1, PaymentKeeps, TypeStep, HonestStep DEF DeliveryInv
  <2>4. CASE ListUsers(w)
    <3> SUFFICES ASSUME NEW p \in Payments PROVE PaymentKnows(p)'
      BY <1>3, <2>1, TypeStep, HonestStep DEF DeliveryInv
    <3> DEFINE new == [stage |-> "find", seen |-> {}, total |-> 0, tokens |-> 0, payable |-> TRUE,
                   made |-> FALSE]
    <3>1. payment'[p] = new \/ payment'[p] = payment[p]
      BY <2>4 DEF ListUsers
    <3>2. CASE payment'[p] = payment[p]
      BY <1>g, <3>2, PaymentKeeps DEF PaymentKnows
    <3>3. CASE payment'[p] = new
      <4>1. new.stage = "find" /\ new.seen = {} /\ ~new.made /\ new.total >= 0
        OBVIOUS
      <4> HIDE DEF new
      <4> QED BY <3>3, <4>1 DEF PaymentKnows, PaymentFits
    <3> QED BY <3>1, <3>2, <3>3
  <2> QED BY <1>6, <2>2, <2>3, <2>4 DEF JobStep, TakeJob, CompleteJob, FailJob
<1>7. ASSUME NEW p \in Payments, PaymentStep(p)
      PROVE  DeliveryInv'
  <2>4. CASE RefusePayment(p)
    <3>1. UNCHANGED request /\ \A o \in Payments : payment'[o] \in {payment[o], NoPayment}
      BY <2>4 DEF RefusePayment, Dies
    <3> QED BY <1>3, <1>g, <3>1, PaymentKeeps, TypeStep, HonestStep DEF DeliveryInv
  <2>5. CASE \E new : Advance(p, new)
    <3>1. PICK new : Advance(p, new)
      BY <2>5
    <3>2. UNCHANGED request /\ \A o \in Payments \ {p} : payment'[o] = payment[o]
      BY <1>t, <3>1 DEF Advance, TypeOK
    <3>3. \A o \in Payments : PaymentKnows(o)'
      BY <1>7, <1>g, <3>2, PaymentKeeps, PaymentAdvances DEF PaymentKnows
    <3> QED BY <1>3, <3>2, <3>3, TypeStep, HonestStep DEF DeliveryInv
  <2> QED BY <1>7, <2>4, <2>5 DEF PaymentStep, FindProducts, FindUser, UpdateTokens, FailUpdate,
             DeleteProducts
<1>8. CASE ClearSeeders
  <2>1. UNCHANGED <<request, payment>>
    BY <1>8 DEF ClearSeeders, worker
  <2> QED BY <1>3, <1>4, <2>1, TypeStep, HonestStep DEF DeliveryInv
<1> QED BY <1>2, <1>5, <1>6, <1>7, <1>8 DEF Next, JobStep

(* Each variable of the delivery holds a value the code can give it.       *)
THEOREM TypeCorrect == Spec => []TypeOK
<1>1. DeliveryInv => TypeOK
  BY DEF DeliveryInv
<1> QED BY <1>1, TypeInit, DeliveryStep, PTL DEF Spec

----------------------------------------------------------------------------
(* The refinement.  What is owed to a user, as a function of the rows and  *)
(* the payments: the units sent but for those a payment has paid already.  *)
NotOf(row, u) == row \in {NoParcel, Gone} \/ row.user # u
RowsOf(u, rows) == {x \in Parcels : rows[x] \notin {NoParcel, Gone} /\ rows[x].user = u}
Settling(t) == (IF t = NoPayment THEN "none" ELSE t.stage) = "delete" /\ t.made
Settled(u, pay) ==
    UNION {pay[p].seen : p \in {q \in Payments :
               q[2] = u /\ (IF pay[q] = NoPayment THEN "none" ELSE pay[q].stage) = "delete"
                        /\ pay[q].made}}
Owed(u, rows, pay) == Units(RowsOf(u, rows) \ Settled(u, pay), rows)
Earned(u, owned, claimed) == owned[u] - claimed[u] * Reward

(* The state of DeliveryPromise.                                           *)
Kept == [u \in Users |-> IF u \in troubled THEN 0 ELSE stock[u]]
Sent == [u \in Users |-> IF u \in troubled THEN 0 ELSE Owed(u, parcel, payment)]
Paid == [u \in Users |-> IF u \in troubled THEN 0 ELSE Earned(u, tokens, rewards)]
Orderly == Users \ troubled

(* Its steps.                                                              *)
Sends(u) ==
    \E n \in 1 .. Kept[u] :
        /\ Kept' = [Kept EXCEPT ![u] = @ - n]
        /\ Sent' = [Sent EXCEPT ![u] = @ + n]
        /\ UNCHANGED <<Paid, Orderly>>
TakesBack(u) ==
    \E n \in 1 .. Sent[u] :
        /\ Sent' = [Sent EXCEPT ![u] = @ - n]
        /\ Kept' = [Kept EXCEPT ![u] = @ + n]
        /\ UNCHANGED <<Paid, Orderly>>
Pays(u) ==
    /\ Sent[u] > 0
    /\ Paid' = [Paid EXCEPT ![u] = @ + Price * Sent[u]]
    /\ Sent' = [Sent EXCEPT ![u] = 0]
    /\ UNCHANGED <<Kept, Orderly>>
Drops(S) ==
    /\ Orderly' = Orderly \ S
    /\ Kept' = [u \in Users |-> IF u \in S THEN 0 ELSE Kept[u]]
    /\ Sent' = [u \in Users |-> IF u \in S THEN 0 ELSE Sent[u]]
    /\ Paid' = [u \in Users |-> IF u \in S THEN 0 ELSE Paid[u]]
Promised ==
    \/ \E u \in Orderly : Sends(u) \/ TakesBack(u) \/ Pays(u)
    \/ \E S \in SUBSET Orderly : Drops(S)

(* They are the steps of DeliveryPromise under the mapping of Delivery.    *)
LEMMA MappedSteps == Promised => Promise!Next
BY DEF Promised, Sends, TakesBack, Pays, Drops, Kept, Sent, Paid, Orderly, Owed, Earned,
       RowsOf, Settled, Units, UnitsOf, BelowOf, Quantity, UnitsIn, UnitsBelow, DeliveringOf,
       PaidFor, Stage, Promise!Next, Promise!Send, Promise!TakeBack, Promise!Pay, Promise!Drop

(* Nothing the promise is about changes for a user.                        *)
Same(u) ==
    /\ stock'[u] = stock[u]
    /\ Owed(u, parcel', payment') = Owed(u, parcel, payment)
    /\ Earned(u, tokens', rewards') = Earned(u, tokens, rewards)

(* A step after which every user the promise is made to stands as before   *)
(* drops the others, if any.                                               *)
LEMMA DropStep ==
    ASSUME troubled \subseteq troubled', troubled' \subseteq Users,
           \A u \in Users \ troubled' : Same(u)
    PROVE  Promised
<1> DEFINE S == troubled' \ troubled
<1>1. S \in SUBSET Orderly /\ Orderly' = Orderly \ S
  BY DEF Orderly
<1>2. Kept' = [u \in Users |-> IF u \in S THEN 0 ELSE Kept[u]]
  BY DEF Kept, Same
<1>3. Sent' = [u \in Users |-> IF u \in S THEN 0 ELSE Sent[u]]
  BY DEF Sent, Same
<1>4. Paid' = [u \in Users |-> IF u \in S THEN 0 ELSE Paid[u]]
  BY DEF Paid, Same
<1> HIDE DEF S
<1> QED BY <1>1, <1>2, <1>3, <1>4 DEF Promised, Drops

LEMMA SendStep ==
    ASSUME troubled' = troubled, NEW u \in Users \ troubled, NEW n \in 1 .. stock[u],
           stock'[u] = stock[u] - n,
           Owed(u, parcel', payment') = Owed(u, parcel, payment) + n,
           Earned(u, tokens', rewards') = Earned(u, tokens, rewards),
           \A v \in Users \ {u} : Same(v)
    PROVE  Promised
<1>1. u \in Orderly /\ n \in 1 .. Kept[u] /\ UNCHANGED Orderly
  BY DEF Orderly, Kept
<1>2. Kept' = [Kept EXCEPT ![u] = @ - n]
  BY DEF Kept, Same
<1>3. Sent' = [Sent EXCEPT ![u] = @ + n]
  BY DEF Sent, Same
<1>4. UNCHANGED Paid
  BY DEF Paid, Same
<1> QED BY <1>1, <1>2, <1>3, <1>4 DEF Promised, Sends

LEMMA TakeBackStep ==
    ASSUME troubled' = troubled, NEW u \in Users \ troubled,
           NEW n \in 1 .. Owed(u, parcel, payment),
           stock'[u] = stock[u] + n,
           Owed(u, parcel', payment') = Owed(u, parcel, payment) - n,
           Earned(u, tokens', rewards') = Earned(u, tokens, rewards),
           \A v \in Users \ {u} : Same(v)
    PROVE  Promised
<1>1. u \in Orderly /\ n \in 1 .. Sent[u] /\ UNCHANGED Orderly
  BY DEF Orderly, Sent
<1>2. Kept' = [Kept EXCEPT ![u] = @ + n]
  BY DEF Kept, Same
<1>3. Sent' = [Sent EXCEPT ![u] = @ - n]
  BY DEF Sent, Same
<1>4. UNCHANGED Paid
  BY DEF Paid, Same
<1> QED BY <1>1, <1>2, <1>3, <1>4 DEF Promised, TakesBack

LEMMA PayStep ==
    ASSUME troubled' = troubled, NEW u \in Users \ troubled,
           Owed(u, parcel, payment) > 0, Owed(u, parcel', payment') = 0,
           Earned(u, tokens', rewards')
               = Earned(u, tokens, rewards) + Price * Owed(u, parcel, payment),
           stock'[u] = stock[u],
           \A v \in Users \ {u} : Same(v)
    PROVE  Promised
<1>1. u \in Orderly /\ Sent[u] = Owed(u, parcel, payment) /\ UNCHANGED Orderly
  BY DEF Orderly, Sent
<1>2. Paid' = [Paid EXCEPT ![u] = @ + Price * Sent[u]]
  <2> DEFINE x == Price * Owed(u, parcel, payment)
  <2>1. Price * Sent[u] = x
    BY <1>1
  <2>2. Earned(u, tokens', rewards') = Earned(u, tokens, rewards) + x
    OBVIOUS
  <2> HIDE DEF x
  <2>3. Paid' = [Paid EXCEPT ![u] = @ + x]
    BY <2>2 DEF Paid, Same
  <2> QED BY <2>1, <2>3
<1>3. Sent' = [Sent EXCEPT ![u] = 0]
  BY DEF Sent, Same
<1>4. UNCHANGED Kept
  BY DEF Kept, Same
<1> QED BY <1>1, <1>2, <1>3, <1>4 DEF Promised, Pays

----------------------------------------------------------------------------
(* What is owed, when rows and payments of others change.                  *)
Alike(t, new) == t = new \/ (~Settling(t) /\ ~Settling(new))

LEMMA SettledSame ==
    ASSUME NEW u, NEW pay, NEW new, \A p \in Payments : p[2] = u => Alike(pay[p], new[p])
    PROVE  Settled(u, new) = Settled(u, pay)
<1>1. \A p \in Payments : p[2] = u /\ Settling(pay[p]) => new[p] = pay[p] /\ Settling(new[p])
  BY DEF Alike
<1>2. \A p \in Payments : p[2] = u /\ Settling(new[p]) => new[p] = pay[p] /\ Settling(pay[p])
  BY DEF Alike
<1> QED BY <1>1, <1>2 DEF Settled, Settling

LEMMA OwedSame ==
    ASSUME NEW u, NEW rows, NEW next, NEW pay, NEW new,
           \A x \in Parcels : next[x] = rows[x] \/ (NotOf(rows[x], u) /\ NotOf(next[x], u)),
           \A p \in Payments : p[2] = u => Alike(pay[p], new[p])
    PROVE  Owed(u, next, new) = Owed(u, rows, pay)
<1>1. RowsOf(u, next) = RowsOf(u, rows) /\ \A x \in RowsOf(u, rows) : next[x] = rows[x]
  BY DEF RowsOf, NotOf
<1>2. Settled(u, new) = Settled(u, pay)
  BY SettledSame
<1>3. Units(RowsOf(u, rows) \ Settled(u, pay), next) = Units(RowsOf(u, rows) \ Settled(u, pay), rows)
  BY <1>1, UnitsAgree
<1> QED BY <1>1, <1>2, <1>3 DEF Owed

(* Rows that are owed are finitely many, none of them below zero.          *)
LEMMA OwedRows ==
    ASSUME DeliveryInv, NEW u, u \notin troubled, NEW T
    PROVE  /\ IsFiniteSet(RowsOf(u, parcel) \ T)
           /\ RowsOf(u, parcel) \subseteq Parcels
           /\ \A x \in RowsOf(u, parcel) : parcel[x].quantity \in Nat
<1>1. \A x \in RowsOf(u, parcel) : parcel[x].quantity \in Nat
  BY DEF RowsOf, DeliveryInv, Honest, HonestRow
<1>2. RowsOf(u, parcel) \ T \in SUBSET Parcels
  BY DEF RowsOf
<1>3. IsFiniteSet(RowsOf(u, parcel) \ T)
  BY <1>2, DeliveryAssumption, FS_Subset
<1> QED BY <1>1, <1>3 DEF RowsOf

(* What is paid for is in the table, of the user or deleted.               *)
LEMMA SettledRows ==
    ASSUME DeliveryInv, NEW u, NEW x \in Settled(u, payment)
    PROVE  x \in Parcels /\ parcel[x] # NoParcel
<1>1. PICK p \in Payments : Settling(payment[p]) /\ x \in payment[p].seen
  BY DEF Settled, Settling
<1>2. payment[p] # NoPayment /\ payment[p] \in Payment
  BY <1>1 DEF Settling, DeliveryInv, TypeOK, Payment
<1>3. PaymentKnows(p)
  BY DEF DeliveryInv
<1> QED BY <1>1, <1>2, <1>3 DEF PaymentKnows, PaymentFits, Payment

(* Steps that leave money, goods and troubles alone and begin, advance or  *)
(* end payments that have paid nothing.                                    *)
LEMMA QuietStep ==
    ASSUME troubled \subseteq Users, UNCHANGED <<database, rewards, troubled>>,
           \A p \in Payments : Alike(payment[p], payment'[p])
    PROVE  Promised
<1>1. ASSUME NEW u \in Users PROVE Same(u)
  <2>1. Owed(u, parcel', payment') = Owed(u, parcel, payment)
    BY OwedSame DEF database
  <2> QED BY <2>1 DEF Same, database, Earned
<1> QED BY <1>1, DropStep

(* A request that ends changes its user only.                              *)
LEMMA RequestRefines ==
    ASSUME DeliveryInv, DeliveryInv', NEW q \in Requests, RequestStep(q)
    PROVE  Promised
<1> DEFINE r == request[q]
           u == r.user
<1>t. TypeOK /\ troubled \subseteq Users /\ troubled' \subseteq Users
  BY DEF DeliveryInv, TypeOK
<1>k. RequestKnows(q)
  BY DEF DeliveryInv
<1>q. ASSUME UNCHANGED <<database, worker, history>> PROVE Promised
  BY <1>q, <1>t, QuietStep DEF worker, history, Alike
<1>1. CASE \E v \in Users : ReadDeliver(q, v) \/ ReadRetain(q, v) \/ ReadReward(q, v)
  BY <1>q, <1>1 DEF ReadDeliver, ReadRetain, ReadReward, Read
<1>2. CASE AbortRequest(q)
  BY <1>q, <1>2 DEF AbortRequest, Done
<1>3. CASE DeliverProduct(q)
  <2> DEFINE n == r.chosen
  <2>1. r # NoRequest /\ r.op = "deliver"
    BY <1>3 DEF DeliverProduct, Asks
  <2>2. u \in Users /\ r.seen \in Nat /\ n \in Int /\ n <= r.seen
    BY <1>k, <2>1 DEF RequestKnows, RequestFits
  <2>3. PICK p \in Parcels : /\ parcel[p] = NoParcel
                             /\ parcel' = [parcel EXCEPT ![p] = [user |-> u, quantity |-> n]]
    BY <1>3 DEF DeliverProduct
  <2> DEFINE row == [user |-> u, quantity |-> n]
             S == RowsOf(u, parcel) \ Settled(u, payment)
  <2>4. row \in DeliveringProduct /\ row.user = u /\ row.quantity = n
    BY <2>2 DEF DeliveringProduct
  <2>5. row \notin {NoParcel, Gone}
    BY <2>4, RowIsNoMark
  <2> HIDE DEF row
  <2>6. parcel'[p] = row /\ \A x \in Parcels \ {p} : parcel'[x] = parcel[x]
    BY <1>t, <2>3 DEF TypeOK, row
  <2>7. /\ stock' = [stock EXCEPT ![u] = r.seen - n]
        /\ TroubleIf(stock[u] # r.seen \/ n < 0, u)
        /\ UNCHANGED <<tokens, rewards, payment>>
    BY <1>3 DEF DeliverProduct, Done, worker
  <2>8. ASSUME NEW v \in Users \ {u} PROVE Same(v)
    <3>1. \A x \in Parcels : parcel'[x] = parcel[x] \/ (NotOf(parcel[x], v) /\ NotOf(parcel'[x], v))
      BY <2>3, <2>4, <2>6 DEF NotOf
    <3>2. Owed(v, parcel', payment') = Owed(v, parcel, payment)
      BY <2>7, <3>1, OwedSame DEF Alike
    <3>3. stock'[v] = stock[v]
      BY <1>t, <2>7 DEF TypeOK
    <3> QED BY <2>7, <3>2, <3>3 DEF Same, Earned
  <2>9. CASE u \in troubled'
    BY <1>t, <2>7, <2>8, <2>9, DropStep DEF TroubleIf, Trouble
  <2>10. CASE u \notin troubled'
    <3>1. stock[u] = r.seen /\ n >= 0 /\ troubled' = troubled
      <4>1. stock[u] = r.seen /\ ~(n < 0) /\ troubled' = troubled
        BY <2>7, <2>10 DEF TroubleIf, Trouble
      <4> HIDE DEF n, u, r
      <4> QED BY <2>2, <4>1
    <3>2. RowsOf(u, parcel') = RowsOf(u, parcel) \cup {p} /\ p \notin RowsOf(u, parcel)
      BY <2>3, <2>4, <2>5, <2>6 DEF RowsOf
    <3>3. p \notin Settled(u, payment)
      BY <2>3, SettledRows
    <3>4. RowsOf(u, parcel') \ Settled(u, payment') = S \cup {p} /\ p \notin S
      BY <2>7, <3>2, <3>3
    <3>5. IsFiniteSet(S) /\ \A x \in S : parcel[x].quantity \in Nat
      BY <2>10, <3>1, OwedRows
    <3>6. \A x \in S : parcel'[x] = parcel[x]
      BY <2>6, <3>2 DEF RowsOf
    <3> HIDE DEF S
    <3>7. Units(S, parcel') = Units(S, parcel) /\ Units(S, parcel) \in Nat
      BY <3>5, <3>6, UnitsAgree, UnitsAreCells
    <3>8. parcel'[p].quantity = n /\ n \in Nat
      <4>1. parcel'[p].quantity = n
        BY <2>4, <2>6
      <4> HIDE DEF n
      <4> QED BY <2>2, <3>1, <4>1
    <3>9. Units(S \cup {p}, parcel') = Units(S, parcel') + parcel'[p].quantity
      BY <3>4, <3>5, <3>6, <3>8, UnitsAdd
    <3>10. Owed(u, parcel', payment') = Owed(u, parcel, payment) + n
      BY <3>4, <3>7, <3>8, <3>9 DEF Owed, S
    <3>11. stock'[u] = stock[u] - n /\ stock[u] \in Nat /\ n <= stock[u]
      BY <1>t, <2>2, <2>7, <3>1 DEF TypeOK
    <3>12. Earned(u, tokens', rewards') = Earned(u, tokens, rewards)
      BY <2>7 DEF Earned
    <3>13. u \in Users \ troubled
      BY <2>2, <2>10, <3>1
    <3>14. CASE n = 0
      <4>1. /\ stock'[u] = stock[u]
            /\ Owed(u, parcel', payment') = Owed(u, parcel, payment)
        <5>1. Owed(u, parcel, payment) \in Nat
          BY <3>7 DEF Owed, S
        <5> DEFINE old == Owed(u, parcel, payment)
                   new == Owed(u, parcel', payment')
        <5>2. new = old + n /\ old \in Nat
          BY <3>10, <5>1
        <5> HIDE DEF u, n, old, new
        <5>3. new = old
          BY <3>14, <5>2
        <5>4. stock'[u] = stock[u]
          BY <3>11, <3>14
        <5> QED BY <5>3, <5>4 DEF old, new
      <4>2. Same(u)
        BY <3>12, <4>1 DEF Same
      <4> QED BY <1>t, <2>8, <3>1, <4>2, DropStep
    <3>15. CASE n # 0
      <4>1. n \in 1 .. stock[u]
        <5> HIDE DEF u, n
        <5> QED BY <3>8, <3>11, <3>15
      <4> HIDE DEF u, n
      <4> QED BY <2>8, <3>1, <3>10, <3>11, <3>12, <3>13, <4>1, SendStep
    <3> QED BY <3>14, <3>15
  <2> QED BY <2>9, <2>10
<1>4. CASE RetainProduct(q)
  <2> DEFINE n == r.quantity
             m == IF n > 0 THEN n ELSE 0
             c == r.chosen
  <2>1. r # NoRequest /\ r.op = "retain"
    BY <1>4 DEF RetainProduct, Asks
  <2>2. /\ u \in Users /\ r.seen \in Nat /\ n \in Int /\ c \in Parcels
        /\ parcel[c] \in {Gone, [user |-> u, quantity |-> n]}
    BY <1>k, <2>1 DEF RequestKnows, RequestFits
  <2> DEFINE row == [user |-> u, quantity |-> n]
             S == RowsOf(u, parcel) \ Settled(u, payment)
  <2>3. row \in DeliveringProduct /\ row.user = u /\ row.quantity = n
    BY <2>2 DEF DeliveringProduct
  <2>4. parcel[c] = Gone \/ (parcel[c] = row /\ parcel[c] \notin {NoParcel, Gone})
    BY <2>2, <2>3, RowIsNoMark
  <2> HIDE DEF row
  <2>5. /\ parcel' = [parcel EXCEPT ![c] = Gone]
        /\ \/ stock' = [stock EXCEPT ![u] = r.seen + m]
           \/ stock' = [stock EXCEPT ![u] = stock[u] + m]
           \/ c \in cleared /\ UNCHANGED stock
        /\ TroubleIf(parcel[c] = Gone \/ c \in PaidFor(u) \/ stock[u] # r.seen, u)
        /\ UNCHANGED <<tokens, rewards, payment>>
    BY <1>4 DEF RetainProduct, Done, worker
  <2>6. parcel'[c] = Gone /\ \A x \in Parcels \ {c} : parcel'[x] = parcel[x]
    BY <1>t, <2>2, <2>5 DEF TypeOK
  <2>7. \A p \in Payments : Alike(payment[p], payment'[p])
    BY <2>5 DEF Alike
  <2>8. ASSUME NEW v \in Users \ {u} PROVE Same(v)
    <3>1. \A x \in Parcels : parcel'[x] = parcel[x] \/ (NotOf(parcel[x], v) /\ NotOf(parcel'[x], v))
      BY <2>3, <2>4, <2>6 DEF NotOf
    <3>2. Owed(v, parcel', payment') = Owed(v, parcel, payment)
      BY <2>7, <3>1, OwedSame
    <3>3. stock'[v] = stock[v]
      BY <1>t, <2>5 DEF TypeOK
    <3> QED BY <2>5, <3>2, <3>3 DEF Same, Earned
  <2>9. CASE u \in troubled'
    BY <1>t, <2>5, <2>8, <2>9, DropStep DEF TroubleIf, Trouble
  <2>10. CASE u \notin troubled'
    <3>1. parcel[c] # Gone /\ c \notin PaidFor(u) /\ stock[u] = r.seen /\ troubled' = troubled
      BY <2>5, <2>10 DEF TroubleIf, Trouble
    <3>16. n \in Nat /\ c \notin cleared
      <4>1. parcel[c] = row /\ parcel[c] \notin {NoParcel, Gone} /\ row.user \notin troubled
        BY <2>3, <2>4, <2>10, <3>1
      <4>2. HonestRow(c, parcel[c], cleared, troubled)
        BY <2>2 DEF DeliveryInv, Honest
      <4> QED BY <2>3, <4>1, <4>2 DEF HonestRow
    <3>17. m = n
      <4> HIDE DEF n
      <4> QED BY <3>16
    <3>2. PaidFor(u) = Settled(u, payment)
      BY DEF PaidFor, Settled, Stage
    <3>3. c \in S
      BY <2>2, <2>3, <2>4, <3>1, <3>2 DEF RowsOf
    <3>4. RowsOf(u, parcel') \ Settled(u, payment') = S \ {c}
      BY <2>5, <2>6 DEF RowsOf
    <3>5. IsFiniteSet(S) /\ \A x \in S : parcel[x].quantity \in Nat
      BY <2>10, <3>1, OwedRows
    <3>6. \A x \in S \ {c} : parcel'[x] = parcel[x]
      BY <2>6 DEF RowsOf
    <3> HIDE DEF S
    <3>7. Units(S \ {c}, parcel') = Units(S \ {c}, parcel)
      BY <3>6, UnitsAgree
    <3>8. /\ Units(S, parcel) = Units(S \ {c}, parcel) + parcel[c].quantity
          /\ Units(S \ {c}, parcel) \in Nat
      BY <3>3, <3>5, UnitsRemove
    <3>9. parcel[c].quantity = n
      BY <2>3, <2>4, <3>1
    <3>10. Owed(u, parcel, payment) = Units(S, parcel)
      BY DEF Owed, S
    <3>11. Owed(u, parcel', payment') = Units(S \ {c}, parcel')
      BY <3>4 DEF Owed
    <3>12. /\ Owed(u, parcel', payment') = Owed(u, parcel, payment) - n
           /\ Owed(u, parcel, payment) \in Nat /\ n <= Owed(u, parcel, payment)
      <4> HIDE DEF n
      <4> QED BY <3>7, <3>8, <3>9, <3>10, <3>11, <3>16
    <3>13. stock'[u] = stock[u] + n
      <4> HIDE DEF m, n
      <4> QED BY <1>t, <2>2, <2>5, <3>1, <3>16, <3>17 DEF TypeOK
    <3>14. Earned(u, tokens', rewards') = Earned(u, tokens, rewards)
      BY <2>5 DEF Earned
    <3>15. u \in Users \ troubled
      BY <2>2, <2>10, <3>1
    <3>18. CASE n = 0
      <4> DEFINE old == Owed(u, parcel, payment)
                 new == Owed(u, parcel', payment')
      <4>1. new = old
        <5>1. new = old - n /\ old \in Nat
          BY <3>12
        <5> HIDE DEF old, new, n
        <5> QED BY <3>18, <5>1
      <4>2. stock'[u] = stock[u]
        <5>1. stock[u] \in Nat
          BY <1>t, <2>2 DEF TypeOK
        <5> HIDE DEF n, u
        <5> QED BY <3>13, <3>18, <5>1
      <4>3. Same(u)
        BY <3>14, <4>1, <4>2 DEF Same
      <4> QED BY <1>t, <2>8, <3>1, <4>3, DropStep
    <3>19. CASE n # 0
      <4>1. n \in 1 .. Owed(u, parcel, payment)
        <5> DEFINE old == Owed(u, parcel, payment)
        <5>1. old \in Nat /\ n <= old
          BY <3>12
        <5> HIDE DEF old, n
        <5>2. n \in 1 .. old
          BY <3>16, <3>19, <5>1
        <5> QED BY <5>2 DEF old
      <4>2. Owed(u, parcel', payment') = Owed(u, parcel, payment) - n
        BY <3>12
      <4>3. troubled' = troubled
        BY <3>1
      <4> HIDE DEF u, n
      <4> QED BY <2>8, <3>13, <3>14, <3>15, <4>1, <4>2, <4>3, TakeBackStep
    <3> QED BY <3>18, <3>19
  <2> QED BY <2>9, <2>10
<1>5. CASE ClaimReward(q)
  <2>1. r # NoRequest
    BY <1>5 DEF ClaimReward, Asks
  <2>2. u \in Users /\ r.seen \in Nat
    BY <1>k, <2>1 DEF RequestKnows, RequestFits
  <2>3. /\ tokens' = [tokens EXCEPT ![u] = r.seen + Reward]
        /\ rewards' = [rewards EXCEPT ![u] = rewards[u] + 1]
        /\ TroubleIf(tokens[u] # r.seen, u)
        /\ UNCHANGED <<stock, parcel, payment>>
    BY <1>5 DEF ClaimReward, Done, worker
  <2>4. ASSUME NEW v \in Users \ troubled' PROVE Same(v)
    <3>1. Owed(v, parcel', payment') = Owed(v, parcel, payment)
      BY <2>3
    <3>2. CASE v # u
      <4>1. tokens'[v] = tokens[v] /\ rewards'[v] = rewards[v]
        BY <1>t, <2>3, <3>2 DEF TypeOK
      <4> QED BY <2>3, <3>1, <4>1 DEF Same, Earned
    <3>3. CASE v = u
      <4>1. tokens[v] = r.seen
        BY <2>3, <2>4, <3>3 DEF TroubleIf, Trouble
      <4>2. tokens'[v] = tokens[v] + Reward /\ rewards'[v] = rewards[v] + 1
        BY <1>t, <2>2, <2>3, <3>3, <4>1 DEF TypeOK
      <4>3. rewards[v] \in Nat /\ tokens[v] \in Nat /\ Reward \in Nat
        BY <1>t, DeliveryAssumption DEF TypeOK
      <4>4. (rewards[v] + 1) * Reward = rewards[v] * Reward + Reward
        BY <4>3
      <4>5. rewards[v] * Reward \in Nat
        BY <4>3
      <4>6. Earned(v, tokens', rewards') = Earned(v, tokens, rewards)
        <5> DEFINE x == rewards[v] * Reward
        <5>1. x \in Nat /\ rewards'[v] * Reward = x + Reward
          BY <4>2, <4>4, <4>5
        <5> HIDE DEF x
        <5>2. tokens[v] + Reward - (x + Reward) = tokens[v] - x
          BY <4>3, <5>1
        <5>3. Earned(v, tokens, rewards) = tokens[v] - x
          BY DEF Earned, x
        <5>4. Earned(v, tokens', rewards') = tokens'[v] - rewards'[v] * Reward
          BY DEF Earned
        <5>5. Earned(v, tokens', rewards') = tokens[v] + Reward - (x + Reward)
          <6>1. tokens'[v] = tokens[v] + Reward
            BY <4>2
          <6>2. rewards'[v] * Reward = x + Reward
            BY <5>1
          <6> DEFINE y == rewards'[v] * Reward
          <6>3. y = x + Reward /\ Earned(v, tokens', rewards') = tokens'[v] - y
            BY <5>4, <6>2
          <6> HIDE DEF y
          <6> QED BY <4>3, <5>1, <6>1, <6>3
        <5> QED BY <5>2, <5>3, <5>5
      <4> QED BY <2>3, <3>1, <4>6 DEF Same
    <3> QED BY <3>2, <3>3
  <2> QED BY <1>t, <2>3, <2>4, DropStep DEF TroubleIf, Trouble
<1> QED BY <1>1, <1>2, <1>3, <1>4, <1>5 DEF RequestStep

(* A worker that dies drops the users it has paid and whose parcels stay.  *)
LEMMA DyingRefines ==
    ASSUME DeliveryInv, DeliveryInv', NEW w, Dies(w)
    PROVE  Promised
<1>t. TypeOK /\ troubled \subseteq Users /\ troubled' \subseteq Users
  BY DEF DeliveryInv, TypeOK
<1>n. ~Settling(NoPayment)
  BY DEF Settling
<1>1. /\ UNCHANGED <<database, rewards>>
      /\ payment' = [p \in Payments |-> IF p[1] = w THEN NoPayment ELSE payment[p]]
      /\ troubled' = troubled \cup {u \in Users : Stage(<<w, u>>) = "delete" /\ payment[<<w, u>>].made}
  BY DEF Dies, Trouble
<1>2. ASSUME NEW u \in Users \ troubled' PROVE Same(u)
  <2>1. ~Settling(payment[<<w, u>>])
    BY <1>1 DEF Settling, Stage
  <2>2. ASSUME NEW p \in Payments, p[2] = u PROVE Alike(payment[p], payment'[p])
    <3>1. p = <<p[1], u>>
      BY <2>2 DEF Payments
    <3> QED BY <1>n, <1>1, <2>1, <3>1 DEF Alike
  <2>3. Owed(u, parcel', payment') = Owed(u, parcel, payment)
    BY <1>1, <2>2, OwedSame DEF database
  <2> QED BY <1>1, <2>3 DEF Same, Earned, database
<1> QED BY <1>t, <1>1, <1>2, DropStep

(* A payment that pays, deletes or ends changes its user only.             *)
LEMMA PaymentRefines ==
    ASSUME DeliveryInv, DeliveryInv', NEW p \in Payments, PaymentStep(p)
    PROVE  Promised
<1> DEFINE t == payment[p]
           u == p[2]
<1>t. TypeOK /\ troubled \subseteq Users /\ troubled' \subseteq Users
  BY DEF DeliveryInv, TypeOK
<1>u. u \in Users
  BY DEF Payments
<1>k. PaymentKnows(p)
  BY DEF DeliveryInv
<1>s. Stage(p) # "none" => t # NoPayment /\ t \in Payment /\ t.stage = Stage(p)
  BY <1>t, PaymentAt, PaymentIsSome
<1>a. ASSUME NEW new, Advance(p, new)
      PROVE  /\ payment'[p] = new /\ \A o \in Payments \ {p} : payment'[o] = payment[o]
             /\ UNCHANGED rewards
  BY <1>a, <1>t DEF Advance, TypeOK
<1>n. ~Settling(NoPayment)
  BY DEF Settling
<1>q. ASSUME UNCHANGED <<database, rewards, troubled>>, ~Settling(t), ~Settling(payment'[p]),
             \A o \in Payments \ {p} : payment'[o] = payment[o]
      PROVE  Promised
  <2>1. \A o \in Payments : Alike(payment[o], payment'[o])
    BY <1>q DEF Alike
  <2> HIDE DEF t
  <2> QED BY <1>t, <1>q, <2>1, QuietStep
<1>o. ASSUME UNCHANGED <<stock, rewards>>, NEW v \in Users \ {u},
             \A o \in Payments \ {p} : payment'[o] = payment[o],
             \A x \in Parcels : parcel'[x] = parcel[x] \/ (NotOf(parcel[x], v) /\ NotOf(parcel'[x], v)),
             tokens'[v] = tokens[v]
      PROVE  Same(v)
  <2>1. \A o \in Payments : o[2] = v => Alike(payment[o], payment'[o])
    BY <1>o DEF Alike
  <2>2. Owed(v, parcel', payment') = Owed(v, parcel, payment)
    BY <1>o, <2>1, OwedSame
  <2> QED BY <1>o, <2>2 DEF Same, Earned
<1>1. CASE FindProducts(p)
  <2> DEFINE seen == DeliveringOf(u)
             new == [t EXCEPT !.stage = "user", !.seen = seen, !.total = Price * Quantity(seen),
                              !.payable = Payable(seen)]
  <2>1. t \in Payment /\ t.stage = "find" /\ t # NoPayment
    BY <1>1, <1>s DEF FindProducts
  <2>2. new.stage = "user"
    <3> HIDE DEF seen, t
    <3> QED BY <2>1 DEF Payment
  <2>3. ~Settling(t) /\ ~Settling(new)
    <3> HIDE DEF new, t
    <3> QED BY <2>1, <2>2 DEF Settling
  <2>4. Advance(p, IF seen = {} THEN NoPayment ELSE new) /\ UNCHANGED <<database, troubled>>
    BY <1>1 DEF FindProducts
  <2> HIDE DEF seen, new, t
  <2>5. /\ payment'[p] \in {NoPayment, new} /\ \A o \in Payments \ {p} : payment'[o] = payment[o]
        /\ UNCHANGED rewards
    BY <1>a, <2>4
  <2> QED BY <1>n, <1>q, <2>3, <2>4, <2>5
<1>2. CASE FindUser(p)
  <2> DEFINE new == [t EXCEPT !.stage = "update", !.tokens = tokens[u]]
  <2>1. t \in Payment /\ t.stage = "user" /\ t # NoPayment
    BY <1>2, <1>s DEF FindUser
  <2>2. new.stage = "update"
    <3> HIDE DEF t
    <3> QED BY <2>1 DEF Payment
  <2>3. ~Settling(t) /\ ~Settling(new)
    <3> HIDE DEF new, t
    <3> QED BY <2>1, <2>2 DEF Settling
  <2>4. Advance(p, new) /\ UNCHANGED <<database, troubled>>
    BY <1>2 DEF FindUser
  <2> HIDE DEF new, t
  <2> QED BY <1>a, <1>q, <2>3, <2>4
<1>3. CASE UpdateTokens(p)
  <2> DEFINE new == [t EXCEPT !.stage = "delete", !.made = TRUE]
             S == RowsOf(u, parcel)
  <2>1. t \in Payment /\ t.stage = "update" /\ t # NoPayment
    BY <1>3, <1>s DEF UpdateTokens
  <2>2. new \in Payment /\ new.stage = "delete" /\ new.made /\ new.seen = t.seen
    <3> HIDE DEF t
    <3> QED BY <2>1 DEF Payment
  <2>3. Settling(new)
    <3> HIDE DEF new
    <3> QED BY <2>2, PaymentIsSome DEF Settling
  <2>4. /\ Advance(p, new) /\ UNCHANGED <<stock, parcel>>
        /\ tokens' = [tokens EXCEPT ![u] = t.tokens + t.total]
        /\ TroubleIf(tokens[u] # t.tokens \/ DeliveringOf(u) # t.seen \/ PaidFor(u) # {}, u)
    BY <1>3 DEF UpdateTokens
  <2> HIDE DEF new
  <2>5. /\ payment'[p] = new /\ \A o \in Payments \ {p} : payment'[o] = payment[o]
        /\ UNCHANGED rewards
    BY <1>a, <2>4
  <2>6. \A v \in Users \ {u} : tokens'[v] = tokens[v]
    BY <1>t, <2>4 DEF TypeOK
  <2>7. \A v \in Users \ {u} : Same(v)
    BY <1>o, <2>4, <2>5, <2>6
  <2>8. CASE u \in troubled'
    BY <1>t, <2>4, <2>7, <2>8, DropStep DEF TroubleIf, Trouble
  <2>9. CASE u \notin troubled'
    <3>1. tokens[u] = t.tokens /\ DeliveringOf(u) = t.seen /\ PaidFor(u) = {} /\ troubled' = troubled
      BY <2>4, <2>9 DEF TroubleIf, Trouble
    <3>2. S = t.seen /\ Settled(u, payment) = {}
      BY <3>1 DEF RowsOf, DeliveringOf, PaidFor, Settled, Stage
    <3>3. Owed(u, parcel, payment) = Units(t.seen, parcel)
      <4>1. S \ {} = S
        OBVIOUS
      <4> QED BY <3>2, <4>1 DEF Owed
    <3>4. t.total = Price * Units(t.seen, parcel)
      <4>1. \A x \in t.seen : parcel[x] # Gone
        BY <3>2 DEF RowsOf
      <4> QED BY <1>k, <2>1, <4>1 DEF PaymentKnows, PaymentFits
    <3>5. Units(t.seen, parcel) \in Nat
      <4>1. IsFiniteSet(S \ {}) /\ \A x \in S : parcel[x].quantity \in Nat
        BY <2>9, <3>1, OwedRows
      <4>2. IsFiniteSet(t.seen) /\ \A x \in t.seen : parcel[x].quantity \in Nat
        <5>1. S \ {} = S
          OBVIOUS
        <5> QED BY <3>2, <4>1, <5>1
      <4> HIDE DEF t
      <4> QED BY <4>2, UnitsAreCells
    <3>6. Owed(u, parcel', payment') = 0
      <4>1. t.seen \subseteq Settled(u, payment')
        BY <2>2, <2>3, <2>5 DEF Settled, Settling
      <4>2. RowsOf(u, parcel') \ Settled(u, payment') = {}
        BY <2>4, <3>2, <4>1
      <4> QED BY <4>2, UnitsOfNothing DEF Owed
    <3>7. tokens'[u] = tokens[u] + t.total /\ tokens[u] \in Nat /\ t.total \in Int
      BY <1>t, <1>u, <2>1, <2>4, <3>1 DEF TypeOK, Payment
    <3>8. Earned(u, tokens', rewards') = Earned(u, tokens, rewards) + t.total
      <4> DEFINE x == rewards[u] * Reward
      <4>1. x \in Nat
        <5>1. rewards[u] \in Nat /\ Reward \in Nat
          BY <1>t, <1>u, DeliveryAssumption DEF TypeOK
        <5> QED BY <5>1
      <4>2. Earned(u, tokens, rewards) = tokens[u] - x
        BY DEF Earned
      <4>3. Earned(u, tokens', rewards') = tokens'[u] - x
        BY <2>5 DEF Earned
      <4> HIDE DEF x, u, t
      <4> QED BY <3>7, <4>1, <4>2, <4>3
    <3>9. u \in Users \ troubled /\ stock'[u] = stock[u]
      BY <1>u, <2>4, <2>9, <3>1
    <3>10. t.total = Price * Owed(u, parcel, payment) /\ Owed(u, parcel, payment) \in Nat
      BY <3>3, <3>4, <3>5
    <3>11. Earned(u, tokens', rewards')
              = Earned(u, tokens, rewards) + Price * Owed(u, parcel, payment)
      BY <3>8, <3>10
    <3>12. CASE Owed(u, parcel, payment) = 0
      <4>1. Earned(u, tokens', rewards') = Earned(u, tokens, rewards)
        <5> DEFINE e == Earned(u, tokens, rewards)
        <5>1. t.total = 0
          <6>1. t.total = Price * 0
            BY <3>10, <3>12
          <6> QED BY <6>1, DeliveryAssumption
        <5>2. e \in Int
          <6>1. rewards[u] \in Nat /\ Reward \in Nat
            BY <1>t, <1>u, DeliveryAssumption DEF TypeOK
          <6>2. rewards[u] * Reward \in Int
            BY <6>1
          <6> QED BY <3>7, <6>2 DEF Earned
        <5>3. Earned(u, tokens', rewards') = e + 0
          BY <3>8, <5>1
        <5> HIDE DEF e
        <5>4. e + 0 = e
          BY <5>2
        <5> QED BY <5>3, <5>4 DEF e
      <4>2. Same(u)
        BY <3>6, <3>9, <3>12, <4>1 DEF Same
      <4> QED BY <1>t, <2>7, <3>1, <4>2, DropStep
    <3>13. CASE Owed(u, parcel, payment) # 0
      <4>1. Owed(u, parcel, payment) > 0
        <5> DEFINE e == Owed(u, parcel, payment)
        <5>1. e \in Nat /\ e # 0
          BY <3>10, <3>13
        <5> HIDE DEF e
        <5>2. e > 0
          BY <5>1
        <5> QED BY <5>2 DEF e
      <4> HIDE DEF u, t
      <4> QED BY <2>7, <3>1, <3>6, <3>9, <3>11, <4>1, PayStep
    <3> QED BY <3>12, <3>13
  <2> QED BY <2>8, <2>9
<1>4. CASE FailUpdate(p)
  <2> DEFINE new == [t EXCEPT !.stage = "delete"]
  <2>1. t \in Payment /\ t.stage = "update" /\ t # NoPayment
    BY <1>4, <1>s DEF FailUpdate
  <2>2. ~t.made /\ new.made = t.made
    <3>1. ~t.made
      BY <1>k, <2>1 DEF PaymentKnows, PaymentFits, Payment
    <3> HIDE DEF t
    <3> QED BY <2>1, <3>1 DEF Payment
  <2>3. ~Settling(t) /\ ~Settling(new)
    <3> HIDE DEF new, t
    <3> QED BY <2>1, <2>2 DEF Settling
  <2>4. Advance(p, new) /\ UNCHANGED <<database, troubled>>
    BY <1>4 DEF FailUpdate
  <2> HIDE DEF new, t
  <2> QED BY <1>a, <1>q, <2>3, <2>4
<1>5. CASE DeleteProducts(p)
  <2>1. t \in Payment /\ t.stage = "delete" /\ t # NoPayment
    BY <1>5, <1>s DEF DeleteProducts
  <2>2. /\ Advance(p, NoPayment) /\ UNCHANGED <<stock, tokens>>
        /\ parcel' = [x \in Parcels |-> IF x \in DeliveringOf(u) THEN Gone ELSE parcel[x]]
        /\ TroubleIf(DeliveringOf(u) # {} /\ (DeliveringOf(u) # t.seen \/ ~t.made), u)
    BY <1>5 DEF DeleteProducts
  <2>3. /\ payment'[p] = NoPayment /\ \A o \in Payments \ {p} : payment'[o] = payment[o]
        /\ UNCHANGED rewards
    BY <1>a, <2>2
  <2>4. \A v \in Users \ {u} : Same(v)
    <3> SUFFICES ASSUME NEW v \in Users \ {u} PROVE Same(v)
      OBVIOUS
    <3>1. \A x \in Parcels : parcel'[x] = parcel[x] \/ (NotOf(parcel[x], v) /\ NotOf(parcel'[x], v))
      BY <2>2 DEF NotOf, DeliveringOf
    <3>2. UNCHANGED <<stock, rewards>> /\ tokens'[v] = tokens[v]
      BY <2>2, <2>3
    <3> HIDE DEF u
    <3> QED BY <1>o, <2>3, <3>1, <3>2
  <2>5. CASE u \in troubled'
    BY <1>t, <2>2, <2>4, <2>5, DropStep DEF TroubleIf, Trouble
  <2>6. CASE u \notin troubled'
    <3>1. DeliveringOf(u) = {} \/ (DeliveringOf(u) = t.seen /\ t.made)
      BY <2>2, <2>6 DEF TroubleIf, Trouble
    <3>2. RowsOf(u, parcel) = DeliveringOf(u)
      BY DEF RowsOf, DeliveringOf
    <3>3. RowsOf(u, parcel) \ Settled(u, payment) = {}
      <4>1. CASE DeliveringOf(u) = t.seen /\ t.made
        <5>1. t.seen \subseteq Settled(u, payment)
          BY <2>1, <4>1 DEF Settled
        <5> QED BY <3>2, <4>1, <5>1
      <4> QED BY <3>1, <3>2, <4>1
    <3>4. RowsOf(u, parcel') \ Settled(u, payment') = {}
      BY <2>2 DEF RowsOf, DeliveringOf
    <3>5. Owed(u, parcel', payment') = Owed(u, parcel, payment)
      BY <3>3, <3>4, UnitsOfNothing DEF Owed
    <3>6. Same(u)
      BY <2>2, <2>3, <3>5 DEF Same, Earned
    <3> QED BY <1>t, <2>2, <2>4, <3>6, DropStep DEF TroubleIf, Trouble
  <2> QED BY <2>5, <2>6
<1>6. CASE RefusePayment(p)
  BY <1>6, DyingRefines DEF RefusePayment
<1> QED BY <1>1, <1>2, <1>3, <1>4, <1>5, <1>6 DEF PaymentStep

LEMMA JobRefines ==
    ASSUME DeliveryInv, DeliveryInv', NEW w \in Workers, JobStep(w)
    PROVE  Promised
<1>t. TypeOK /\ troubled \subseteq Users /\ troubled' \subseteq Users
  BY DEF DeliveryInv, TypeOK
<1>n. ~Settling(NoPayment)
  BY DEF Settling
<1>1. CASE TakeJob(w) \/ CompleteJob(w) \/ FailJob(w)
  <2>1. UNCHANGED <<database, payment, history>>
    BY <1>1 DEF TakeJob, CompleteJob, FailJob
  <2> QED BY <1>t, <2>1, QuietStep DEF history, Alike
<1>2. CASE ListUsers(w)
  <2> DEFINE new == [stage |-> "find", seen |-> {}, total |-> 0, tokens |-> 0, payable |-> TRUE,
                 made |-> FALSE]
  <2>1. ~Settling(new)
    <3>1. new.made = FALSE
      OBVIOUS
    <3> HIDE DEF new
    <3> QED BY <3>1 DEF Settling
  <2> HIDE DEF new
  <2>2. \A u \in Page(job[w].page) : payment[<<w, u>>] = NoPayment
    BY <1>2 DEF ListUsers
  <2>3. ASSUME NEW p \in Payments PROVE Alike(payment[p], payment'[p])
    <3>1. payment'[p] = IF p[1] = w /\ p[2] \in Page(job[w].page) THEN new ELSE payment[p]
      BY <1>2 DEF ListUsers, new
    <3>2. p = <<p[1], p[2]>>
      BY DEF Payments
    <3> QED BY <1>n, <2>1, <2>2, <3>1, <3>2 DEF Alike
  <2>4. UNCHANGED <<database, history>>
    BY <1>2 DEF ListUsers
  <2> QED BY <1>t, <2>3, <2>4, QuietStep DEF history
<1>3. CASE CrashWorker(w)
  BY <1>3, DyingRefines DEF CrashWorker
<1> QED BY <1>1, <1>2, <1>3 DEF JobStep

(* The first state and every step.                                         *)
LEMMA PromiseInit == Init => Promise!Init
<1> SUFFICES ASSUME Init PROVE Promise!Init
  OBVIOUS
<1>1. Kept = [u \in Users |-> InitialStock]
  BY DEF Init, Kept
<1>2. Sent = [u \in Users |-> 0]
  <2> SUFFICES ASSUME NEW u \in Users PROVE Owed(u, parcel, payment) = 0
    BY DEF Init, Sent
  <2>1. RowsOf(u, parcel) \ Settled(u, payment) = {}
    BY DEF Init, RowsOf
  <2> QED BY <2>1, UnitsOfNothing DEF Owed
<1>3. Paid = [u \in Users |-> 0]
  <2> SUFFICES ASSUME NEW u \in Users PROVE Earned(u, tokens, rewards) = 0
    BY DEF Init, Paid
  <2> QED BY DeliveryAssumption DEF Init, Earned
<1>4. Orderly = Users
  BY DEF Init, Orderly
<1> QED BY <1>1, <1>2, <1>3, <1>4
    DEF Kept, Sent, Paid, Orderly, Owed, Earned, RowsOf, Settled, Units, UnitsOf, BelowOf,
        Quantity, UnitsIn, UnitsBelow, DeliveringOf, PaidFor, Stage, Promise!Init

LEMMA PromiseStep ==
    ASSUME DeliveryInv, DeliveryInv', [Next]_vars
    PROVE  Promise!Next
<1>t. troubled \subseteq Users
  BY DEF DeliveryInv, TypeOK
<1>1. ASSUME UNCHANGED <<database, payment, history>> PROVE Promised
  BY <1>1, <1>t, QuietStep DEF history, Alike
<1>2. CASE DeliverInstantly \/ (\E r \in Replicas : SchedulerStep(r)) \/ UNCHANGED vars
  <2>1. UNCHANGED <<database, payment, history>>
    BY <1>2, SchedulerTypes DEF DeliveryInv, DeliverInstantly, worker, vars
  <2> QED BY <1>1, <2>1, MappedSteps
<1>3. CASE ClearSeeders
  <2>1. /\ UNCHANGED <<parcel, tokens, payment, rewards>>
        /\ stock' = [u \in Users |-> 0]
        /\ troubled' = troubled \cup {u \in Users : stock[u] > 0 \/ DeliveringOf(u) # {}}
    BY <1>3 DEF ClearSeeders, Trouble, worker
  <2>2. ASSUME NEW u \in Users \ troubled' PROVE Same(u)
    <3>1. stock[u] \in Nat /\ ~(stock[u] > 0)
      BY <2>1 DEF DeliveryInv, TypeOK
    <3>2. stock'[u] = stock[u]
      <4>1. stock[u] = 0
        BY <3>1
      <4> QED BY <2>1, <4>1
    <3> QED BY <2>1, <3>2 DEF Same, Earned
  <2>3. Promised
    BY <1>t, <2>1, <2>2, DropStep
  <2> QED BY <2>3, MappedSteps
<1> QED BY <1>2, <1>3, RequestRefines, PaymentRefines, JobRefines, MappedSteps DEF Next, JobStep

(* Delivery implements DeliveryPromise: of a player whose requests and     *)
(* payments never met, every unit is kept, sent or paid for, once, however *)
(* many workers, crashes, failing statements and jobs run twice there are. *)
THEOREM DeliveryKeepsPromise == Spec => DeliveryPromiseKept
<1>1. Init => DeliveryInv /\ Promise!Init
  BY TypeInit, PromiseInit
<1>2. DeliveryInv /\ [Next]_vars => DeliveryInv'
  BY DeliveryStep
<1>3. DeliveryInv /\ DeliveryInv' /\ [Next]_vars => Promise!Next
  BY PromiseStep
<1> QED BY <1>1, <1>2, <1>3, PTL DEF Spec, DeliveryPromiseKept, Promise!Spec

----------------------------------------------------------------------------
(* The jobs of a night page through all users that wait, and none of them  *)
(* is on two pages: the skip and take of delivery.service.ts.              *)
THEOREM EveryUserOnOnePage ==
    ASSUME NEW u \in Waiting
    PROVE  LET jobs == Jobs(Cardinality(Waiting))
           IN  \E i \in DOMAIN jobs :
                  /\ u \in Page(jobs[i])
                  /\ \A j \in DOMAIN jobs \ {i} : u \notin Page(jobs[j])
<1> DEFINE n == Cardinality(Waiting)
           B == BatchSize
           row == Cardinality({v \in Waiting : v < u})
           k == (n + B - 1) \div B
           q == row \div B
           jobs == Jobs(n)
<1>1. B \in Nat /\ B > 0
  BY DeliveryAssumption
<1>2. n \in Nat /\ row \in Nat /\ row < n
  <2> DEFINE T == {v \in Waiting : v < u}
  <2>1. T \in SUBSET Waiting /\ IsFiniteSet(Waiting) /\ n \in Nat
    BY WaitingIsFinite
  <2>2. IsFiniteSet(T) /\ row <= n /\ (n = row => Waiting = T)
    BY <2>1, FS_Subset
  <2>3. u \notin T
    BY DeliveryAssumption DEF Waiting
  <2>4. row \in Nat
    BY <2>2, FS_CardinalityType
  <2> HIDE DEF n, row, T
  <2> QED BY <2>1, <2>2, <2>3, <2>4
<1> HIDE DEF n, row
<1>3. q \in Nat /\ B * q <= row /\ row < B * q + B
  <2>1. row = B * q + (row % B) /\ (row % B) \in 0 .. B - 1
    BY <1>1, <1>2, SMT
  <2>2. q \in Nat
    BY <1>1, <1>2, SMT
  <2> HIDE DEF q
  <2> QED BY <1>1, <1>2, <2>1, <2>2, SMT
<1>4. k \in Nat /\ n <= B * k
  <2> DEFINE m == n + B - 1
  <2>1. m \in Nat
    BY <1>1, <1>2
  <2>2. m = B * (m \div B) + (m % B) /\ (m % B) \in 0 .. B - 1 /\ (m \div B) \in Nat
    <3> HIDE DEF m
    <3>1. m = B * (m \div B) + (m % B) /\ (m % B) \in 0 .. B - 1
      BY <1>1, <2>1, SMT
    <3>2. (m \div B) \in Nat
      BY <1>1, <2>1, SMT
    <3> QED BY <3>1, <3>2
  <2>3. k = m \div B
    OBVIOUS
  <2>4. m = B * k + (m % B)
    BY <2>2, <2>3
  <2> HIDE DEF k
  <2>5. B * k \in Int /\ k \in Nat
    BY <1>1, <2>2, <2>3
  <2> QED BY <1>1, <1>2, <2>2, <2>4, <2>5
<1>5. jobs = [i \in 1 .. k |-> [skip |-> (i - 1) * B, take |-> B]]
  BY DEF Jobs
<1> HIDE DEF k, q, jobs
<1>6. q + 1 \in 1 .. k
  <2>1. B * q < B * k
    BY <1>1, <1>2, <1>3, <1>4
  <2>2. q < k
    BY <1>1, <1>3, <1>4, <2>1
  <2> QED BY <1>3, <1>4, <2>2
<1>7. ASSUME NEW i \in 1 .. k
      PROVE  u \in Page(jobs[i]) <=> B * (i - 1) <= row /\ row < B * (i - 1) + B
  <2>1. jobs[i].skip = (i - 1) * B /\ jobs[i].take = B
    BY <1>5
  <2>2. (i - 1) * B = B * (i - 1) /\ B * (i - 1) \in Int
    BY <1>1, <1>4
  <2>3. u \in Page(jobs[i]) <=> row \in jobs[i].skip .. jobs[i].skip + jobs[i].take - 1
    BY DEF Page, row
  <2> DEFINE x == B * (i - 1)
  <2>4. u \in Page(jobs[i]) <=> row \in x .. x + B - 1
    BY <2>1, <2>2, <2>3
  <2>5. x \in Int
    BY <2>2
  <2> HIDE DEF x
  <2>6. row \in x .. x + B - 1 <=> x <= row /\ row < x + B
    BY <1>1, <1>2, <2>5
  <2> QED BY <2>4, <2>6 DEF x
<1>8. u \in Page(jobs[q + 1])
  <2>1. q + 1 - 1 = q
    BY <1>3
  <2> QED BY <1>3, <1>6, <1>7, <2>1
<1>9. ASSUME NEW j \in 1 .. k, u \in Page(jobs[j]) PROVE j = q + 1
  <2>1. B * (j - 1) <= row /\ row < B * (j - 1) + B
    BY <1>7, <1>9
  <2>2. B * (j - 1) < B * (q + 1) /\ B * q < B * j
    <3>1. B * (q + 1) = B * q + B /\ B * j = B * (j - 1) + B
      BY <1>1, <1>3, <1>4
    <3>2. B * q \in Int /\ B * (j - 1) \in Int
      BY <1>1, <1>3, <1>4
    <3> QED BY <1>1, <1>2, <1>3, <2>1, <3>1, <3>2
  <2>3. j - 1 < q + 1 /\ q < j
    BY <1>1, <1>3, <1>4, <2>2
  <2> QED BY <1>3, <1>4, <2>3
<1>10. DOMAIN jobs = 1 .. k
  BY <1>5
<1> QED BY <1>6, <1>8, <1>9, <1>10 DEF jobs, n

=============================================================================
