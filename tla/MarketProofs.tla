---------------------------- MODULE MarketProofs -----------------------------
(***************************************************************************)
(* Proofs about OrderBook, for any prices, quantities and number of        *)
(* orders; about MarketMaker on top of it, for any ticks, spread and       *)
(* number of levels; and about RBTree, the tree the book keeps its levels  *)
(* in, for any prices, ascending or descending.                            *)
(***************************************************************************)
EXTENDS MarketMaker, RBTree, SequenceTheorems, FiniteSetTheorems, Sums

-----------------------------------------------------------------------------
(***************************************************************************)
(* The inductive invariant.                                                *)
(***************************************************************************)

\* Ids above arrived are free.
FreeIds ==
  \A i \in Id : i > arrived =>
    order[i] = Zero /\ filled[i] = 0 /\ status[i] = "pending"

\* The order that holds the mutex is the last one that arrived: nothing else
\* arrives while the mutex is held.
TakerIsLast ==
  taker # None =>
    /\ taker = arrived
    /\ status[taker] = "open"
    /\ order[taker].kind = "limit" => order[taker].price \in Price

\* Orders in the book are open or partly filled.
LiveStatus == \A i \in orderMap : status[i] \in {"open", "partial"}

IInv ==
  /\ TypeOK
  /\ BookConsistent
  /\ NoOverfill
  /\ FreeIds
  /\ TakerIsLast
  /\ LiveStatus

-----------------------------------------------------------------------------
(***************************************************************************)
(* Lists.                                                                  *)
(***************************************************************************)

LEMMA WithoutProperties ==
  ASSUME NEW S, NEW q \in Seq(S), NEW k \in 1..Len(q)
  PROVE  /\ Without(q, k) \in Seq(S)
         /\ Len(Without(q, k)) = Len(q) - 1
         /\ \A j \in 1..(Len(q) - 1) : Without(q, k)[j] = IF j < k THEN q[j] ELSE q[j + 1]
<1>1. Len(q) \in Nat /\ Len(q) - 1 \in Nat
  BY LenProperties
<1>2. \A j \in 1..(Len(q) - 1) : (IF j < k THEN q[j] ELSE q[j + 1]) \in S
  BY <1>1, ElementOfSeq
<1>3. Without(q, k) \in [1..(Len(q) - 1) -> S]
  BY <1>2 DEF Without
<1> QED
  BY <1>1, <1>3 DEF Without

\* Taking one element out of an increasing list takes out just that element.
LEMMA WithoutMembers ==
  ASSUME NEW q \in Seq(Id), NEW k \in 1..Len(q), Increasing(q)
  PROVE  /\ Without(q, k) \in Seq(Id)
         /\ Increasing(Without(q, k))
         /\ Members(Without(q, k)) = Members(q) \ {q[k]}
<1> DEFINE rest == Without(q, k)
<1>1. Len(q) \in Nat
  BY LenProperties
<1>2. /\ rest \in Seq(Id)
      /\ Len(rest) = Len(q) - 1
      /\ \A j \in 1..(Len(q) - 1) : rest[j] = IF j < k THEN q[j] ELSE q[j + 1]
  BY WithoutProperties
<1>3. \A j \in 1..Len(q) : q[j] \in Int
  <2>1. \A j \in 1..Len(q) : q[j] \in Id
    BY ElementOfSeq
  <2>2. Id \subseteq Int
    BY MaxOrdersAssumption DEF Id
  <2> QED
    BY <2>1, <2>2
<1> HIDE DEF rest
<1>4. ASSUME NEW n \in 1..Len(rest)
      PROVE  \/ n < k /\ n \in 1..Len(q) /\ rest[n] = q[n]
             \/ k < n + 1 /\ n + 1 \in 1..Len(q) /\ rest[n] = q[n + 1]
  BY <1>1, <1>2
<1>5. Increasing(rest)
  <2> SUFFICES ASSUME NEW j \in 1..Len(rest), NEW n \in 1..Len(rest), j < n
               PROVE  rest[j] < rest[n]
    BY DEF Increasing
  <2>1. k \in Int /\ j \in Int /\ n \in Int /\ Len(rest) = Len(q) - 1
    BY <1>1, <1>2
  <2>2. CASE n < k
    <3>1. j < k /\ j \in 1..Len(q) /\ n \in 1..Len(q)
      BY <2>1, <2>2, <1>1
    <3>2. rest[j] = q[j] /\ rest[n] = q[n]
      BY <2>1, <2>2, <3>1, <1>4
    <3> QED
      BY <3>1, <3>2 DEF Increasing
  <2>3. CASE j < k /\ k <= n
    <3>1. j \in 1..Len(q) /\ n + 1 \in 1..Len(q) /\ j < n + 1
      BY <2>1, <2>3, <1>1
    <3>2. rest[j] = q[j] /\ rest[n] = q[n + 1]
      BY <2>1, <2>3, <3>1, <1>4
    <3> QED
      BY <3>1, <3>2 DEF Increasing
  <2>4. CASE k <= j
    <3>1. j + 1 \in 1..Len(q) /\ n + 1 \in 1..Len(q) /\ j + 1 < n + 1
      BY <2>1, <2>4, <1>1
    <3>2. rest[j] = q[j + 1] /\ rest[n] = q[n + 1]
      BY <2>1, <2>4, <3>1, <1>4
    <3> QED
      BY <3>1, <3>2 DEF Increasing
  <2> QED
    BY <2>1, <2>2, <2>3, <2>4
<1>6. ASSUME NEW n \in 1..Len(rest)
      PROVE  rest[n] \in Members(q) \ {q[k]}
  <2>1. CASE n < k /\ n \in 1..Len(q) /\ rest[n] = q[n]
    BY <2>1, <1>1, <1>3 DEF Increasing, Members
  <2>2. CASE k < n + 1 /\ n + 1 \in 1..Len(q) /\ rest[n] = q[n + 1]
    BY <2>2, <1>1, <1>3 DEF Increasing, Members
  <2> QED
    BY <2>1, <2>2, <1>4
<1>7. ASSUME NEW n \in 1..Len(q), q[n] # q[k]
      PROVE  q[n] \in Members(rest)
  <2>1. CASE n < k
    <3>1. n \in 1..Len(rest) /\ rest[n] = q[n]
      BY <2>1, <1>1, <1>2
    <3> QED
      BY <3>1 DEF Members
  <2>2. CASE k < n
    <3>1. n - 1 \in 1..Len(rest) /\ rest[n - 1] = q[n]
      BY <2>2, <1>1, <1>2
    <3> QED
      BY <3>1 DEF Members
  <2> QED
    BY <2>1, <2>2, <1>1, <1>7
<1>8. Members(rest) = Members(q) \ {q[k]}
  BY <1>6, <1>7 DEF Members
<1> QED
  BY <1>2, <1>5, <1>8 DEF rest

LEMMA EmptyMembers ==
  ASSUME NEW q \in Seq(Id)
  PROVE  q = <<>> <=> Members(q) = {}
<1>1. Len(q) \in Nat /\ (q # <<>> => Len(q) \in Nat \ {0})
  BY LenProperties, EmptySeq
<1>2. CASE q = <<>>
  BY <1>2 DEF Members
<1>3. CASE q # <<>>
  <2>1. 1 \in 1..Len(q)
    BY <1>1, <1>3
  <2> QED
    BY <2>1, <1>3 DEF Members
<1> QED
  BY <1>2, <1>3

\* Putting a younger order at the end of an increasing list.
LEMMA AppendMembers ==
  ASSUME NEW q \in Seq(Id), NEW i \in Id, Increasing(q),
         \A j \in Members(q) : j < i
  PROVE  /\ Append(q, i) \in Seq(Id)
         /\ Append(q, i) # <<>>
         /\ Increasing(Append(q, i))
         /\ Members(Append(q, i)) = Members(q) \cup {i}
<1> DEFINE r == Append(q, i)
<1>1. /\ Len(q) \in Nat
      /\ r \in Seq(Id)
      /\ r # <<>>
      /\ Len(r) = Len(q) + 1
      /\ \A j \in 1..Len(q) : r[j] = q[j]
      /\ r[Len(q) + 1] = i
  BY LenProperties
<1> HIDE DEF r
<1>2. \A n \in 1..Len(r) : n \in 1..Len(q) \/ n = Len(q) + 1
  BY <1>1
<1>3. Increasing(r)
  <2> SUFFICES ASSUME NEW j \in 1..Len(r), NEW n \in 1..Len(r), j < n
               PROVE  r[j] < r[n]
    BY DEF Increasing
  <2>1. j \in 1..Len(q) /\ r[j] = q[j] /\ q[j] \in Members(q)
    BY <1>1 DEF Members
  <2> QED
    BY <2>1, <1>1, <1>2 DEF Increasing
<1>4. Members(r) = Members(q) \cup {i}
  <2>1. \A n \in 1..Len(r) : r[n] \in Members(q) \cup {i}
    BY <1>1, <1>2 DEF Members
  <2>2. i \in Members(r)
    BY <1>1 DEF Members
  <2>3. \A n \in 1..Len(q) : n \in 1..Len(r) /\ q[n] = r[n]
    BY <1>1
  <2> QED
    BY <2>1, <2>2, <2>3 DEF Members
<1> QED
  BY <1>1, <1>3, <1>4 DEF r

-----------------------------------------------------------------------------
(***************************************************************************)
(* The two ways the book changes keep trees, lists and map consistent.     *)
(***************************************************************************)

BookTypes ==
  /\ order \in [Id -> Order]
  /\ levels \in [Side -> SUBSET Price]
  /\ queue \in [Side -> [Price -> Seq(Id)]]
  /\ total \in [Side -> [Price -> Int]]
  /\ orderMap \subseteq Id

BookShape == BookTypes /\ NoEmptyLevel /\ ListsInOrder /\ MapListed

LEMMA UnlinkKeepsShape ==
  ASSUME BookShape, order' = order, arrived' = arrived,
         NEW s \in Side, NEW p \in levels[s], NEW k \in 1..Len(queue[s][p]),
         NEW less \in Int, Unlink(s, p, k, less)
  PROVE  BookShape' /\ orderMap' = orderMap \ {queue[s][p][k]}
<1> DEFINE i == queue[s][p][k]
           rest == Without(queue[s][p], k)
<1>1. p \in Price /\ queue[s][p] \in Seq(Id) /\ Increasing(queue[s][p])
  BY DEF BookShape, BookTypes, ListsInOrder
<1>2. /\ rest \in Seq(Id)
      /\ Increasing(rest)
      /\ Members(rest) = Members(queue[s][p]) \ {i}
  BY <1>1, WithoutMembers
<1>3. /\ queue' = [queue EXCEPT ![s][p] = rest]
      /\ total' = [total EXCEPT ![s][p] = @ - less]
      /\ levels' = [levels EXCEPT ![s] = IF rest = <<>> THEN levels[s] \ {p} ELSE levels[s]]
      /\ orderMap' = orderMap \ {i}
  BY DEF Unlink, Pruned, Forget
<1>4. i \in Members(queue[s][p])
  BY DEF Members
<1>5. rest = <<>> <=> Members(rest) = {}
  BY <1>2, EmptyMembers
<1> HIDE DEF rest, i
<1>6. BookTypes'
  BY <1>1, <1>2, <1>3 DEF BookShape, BookTypes
<1>7. queue'[s][p] = rest /\ (p \in levels'[s] <=> rest # <<>>)
  BY <1>1, <1>3 DEF BookShape, BookTypes
<1>8. ASSUME NEW t \in Side, NEW r \in Price, t # s \/ r # p
      PROVE  queue'[t][r] = queue[t][r] /\ (r \in levels'[t] <=> r \in levels[t])
  BY <1>1, <1>3, <1>8 DEF BookShape, BookTypes
<1>9. NoEmptyLevel'
  <2> SUFFICES ASSUME NEW t \in Side, NEW r \in levels'[t] PROVE queue'[t][r] # <<>>
    BY DEF NoEmptyLevel
  <2>1. r \in Price
    BY <1>6 DEF BookTypes
  <2> QED
    BY <2>1, <1>7, <1>8 DEF BookShape, NoEmptyLevel
<1>10. ListsInOrder'
  <2> SUFFICES ASSUME NEW t \in Side, NEW r \in levels'[t]
      PROVE  /\ \A j \in Members(queue'[t][r]) :
                  j \in orderMap' /\ order[j].side = t /\ order[j].price = r
             /\ Increasing(queue'[t][r])
    BY DEF ListsInOrder
  <2>1. r \in Price
    BY <1>6 DEF BookTypes
  <2>2. CASE t = s /\ r = p
    BY <2>2, <1>2, <1>3, <1>7 DEF BookShape, ListsInOrder
  <2>3. CASE t # s \/ r # p
    <3>1. queue'[t][r] = queue[t][r] /\ r \in levels[t]
      BY <2>1, <2>3, <1>8
    <3>2. \A j \in Members(queue[t][r]) :
            j \in orderMap /\ order[j].side = t /\ order[j].price = r
      BY <3>1 DEF BookShape, ListsInOrder
    <3>3. order[i].side = s /\ order[i].price = p
      BY <1>4 DEF BookShape, ListsInOrder
    <3> QED
      BY <3>1, <3>2, <3>3, <2>3, <1>3 DEF BookShape, ListsInOrder
  <2> QED
    BY <2>2, <2>3
<1>11. MapListed'
  <2> SUFFICES ASSUME NEW j \in orderMap, j # i
      PROVE  /\ j \in 1..arrived
             /\ order[j].kind = "limit"
             /\ order[j].price \in levels'[order[j].side]
             /\ j \in Members(queue'[order[j].side][order[j].price])
    BY <1>3 DEF MapListed, Members
  <2>1. /\ j \in 1..arrived
        /\ order[j].kind = "limit"
        /\ order[j].price \in levels[order[j].side]
        /\ j \in Members(queue[order[j].side][order[j].price])
    BY DEF BookShape, MapListed
  <2>2. order[j].side \in Side /\ order[j].price \in Price
    BY <2>1 DEF BookShape, BookTypes, Order
  <2>3. CASE order[j].side = s /\ order[j].price = p
    BY <2>1, <2>3, <1>2, <1>5, <1>7
  <2>4. CASE order[j].side # s \/ order[j].price # p
    BY <2>1, <2>2, <2>4, <1>8
  <2> QED
    BY <2>1, <2>3, <2>4
<1> QED
  BY <1>3, <1>6, <1>9, <1>10, <1>11 DEF BookShape, i

LEMMA PushBackKeepsShape ==
  ASSUME BookShape, arrived \in Nat, arrived' \in Nat, arrived <= arrived',
         order' \in [Id -> Order], \A j \in orderMap : order'[j] = order[j],
         NEW i \in Id, i <= arrived', \A j \in orderMap : j < i,
         NEW o, order'[i] = o, o.kind = "limit", o.price \in Price,
         NEW less \in Int, PushBack(i, o, less)
  PROVE  BookShape' /\ orderMap' = orderMap \cup {i}
<1> DEFINE s == o.side
           p == o.price
           known == p \in levels[s]
           old == IF known THEN queue[s][p] ELSE <<>>
           new == Append(old, i)
<1>1. s \in Side /\ p \in Price
  BY DEF Order
<1>2. /\ queue' = [queue EXCEPT ![s][p] = new]
      /\ total' = [total EXCEPT ![s][p] = (IF known THEN @ ELSE 0) + less]
      /\ levels' = [levels EXCEPT ![s] = @ \cup {p}]
      /\ orderMap' = orderMap \cup {i}
  BY <1>1 DEF PushBack, BookShape, BookTypes
<1>3. old \in Seq(Id) /\ Increasing(old)
  <2>1. CASE known
    <3>1. queue[s][p] \in Seq(Id)
      BY <1>1 DEF BookShape, BookTypes
    <3>2. Increasing(queue[s][p])
      BY <1>1, <2>1 DEF BookShape, ListsInOrder
    <3> QED
      BY <2>1, <3>1, <3>2
  <2>2. CASE ~ known
    <3>1. old = <<>>
      BY <2>2
    <3> HIDE DEF old
    <3>2. old \in Seq(Id) /\ Len(old) = 0
      BY <3>1, EmptySeq
    <3> QED
      BY <3>2 DEF Increasing
  <2> QED
    BY <2>1, <2>2
<1>4. \A j \in Members(old) : j \in orderMap /\ order[j].side = s /\ order[j].price = p
  BY <1>1 DEF BookShape, ListsInOrder, Members
<1>5. known => old = queue[s][p]
  OBVIOUS
<1> HIDE DEF old
<1>6. new \in Seq(Id) /\ new # <<>> /\ Increasing(new) /\ Members(new) = Members(old) \cup {i}
  BY <1>3, <1>4, AppendMembers
<1>7. BookTypes'
  BY <1>1, <1>2, <1>6 DEF BookShape, BookTypes
<1> HIDE DEF new, known, s, p
<1>8. queue'[s][p] = new /\ levels'[s] = levels[s] \cup {p}
  BY <1>1, <1>2 DEF BookShape, BookTypes
<1>9. ASSUME NEW t \in Side, NEW r \in Price, t # s \/ r # p
      PROVE  queue'[t][r] = queue[t][r] /\ (r \in levels'[t] <=> r \in levels[t])
  BY <1>1, <1>2, <1>9 DEF BookShape, BookTypes
<1>10. ASSUME NEW t \in Side, NEW r \in levels'[t]
       PROVE  r \in Price /\ ((t = s /\ r = p) \/ (r \in levels[t] /\ queue'[t][r] = queue[t][r]))
  <2>1. r \in Price
    BY <1>7 DEF BookTypes
  <2>2. CASE t = s /\ r = p
    BY <2>1, <2>2
  <2>3. CASE t # s \/ r # p
    <3>1. queue'[t][r] = queue[t][r] /\ (r \in levels'[t] <=> r \in levels[t])
      BY <2>1, <2>3, <1>9
    <3> QED
      BY <2>1, <3>1
  <2> QED
    BY <2>2, <2>3
<1>11. NoEmptyLevel'
  <2> SUFFICES ASSUME NEW t \in Side, NEW r \in levels'[t] PROVE queue'[t][r] # <<>>
    BY DEF NoEmptyLevel
  <2> QED
    BY <1>6, <1>8, <1>10 DEF BookShape, NoEmptyLevel
<1>12. ListsInOrder'
  <2> SUFFICES ASSUME NEW t \in Side, NEW r \in levels'[t]
      PROVE  /\ \A j \in Members(queue'[t][r]) :
                  j \in orderMap' /\ order'[j].side = t /\ order'[j].price = r
             /\ Increasing(queue'[t][r])
    BY DEF ListsInOrder
  <2>1. CASE t = s /\ r = p
    <3>1. order'[i].side = s /\ order'[i].price = p
      BY DEF s, p
    <3> QED
      BY <2>1, <3>1, <1>2, <1>4, <1>6, <1>8
  <2>2. CASE r \in levels[t] /\ queue'[t][r] = queue[t][r]
    <3>1. \A j \in Members(queue[t][r]) :
            j \in orderMap /\ order[j].side = t /\ order[j].price = r
      BY <2>2 DEF BookShape, ListsInOrder
    <3> QED
      BY <2>2, <3>1, <1>2 DEF BookShape, ListsInOrder
  <2> QED
    BY <2>1, <2>2, <1>10
<1>13. MapListed'
  <2> SUFFICES ASSUME NEW j \in orderMap'
      PROVE  /\ j \in 1..arrived'
             /\ order'[j].kind = "limit"
             /\ order'[j].price \in levels'[order'[j].side]
             /\ j \in Members(queue'[order'[j].side][order'[j].price])
    BY DEF MapListed
  <2>1. CASE j = i
    <3>1. order'[j].side = s /\ order'[j].price = p /\ order'[j].kind = "limit"
      BY <2>1 DEF s, p
    <3>2. j \in 1..arrived'
      BY <2>1 DEF Id
    <3> QED
      BY <2>1, <3>1, <3>2, <1>6, <1>8
  <2>2. CASE j # i
    <3>1. j \in orderMap /\ order'[j] = order[j]
      BY <2>2, <1>2
    <3>2. /\ j \in 1..arrived
          /\ order[j].kind = "limit"
          /\ order[j].price \in levels[order[j].side]
          /\ j \in Members(queue[order[j].side][order[j].price])
      BY <3>1 DEF BookShape, MapListed
    <3>3. order[j].side \in Side /\ order[j].price \in Price
      BY <3>1, <3>2 DEF BookShape, BookTypes, Order
    <3>4. CASE order[j].side = s /\ order[j].price = p
      BY <3>1, <3>2, <3>4, <1>5, <1>6, <1>8 DEF known
    <3>5. CASE order[j].side # s \/ order[j].price # p
      BY <3>1, <3>2, <3>3, <3>5, <1>9
    <3> QED
      BY <3>4, <3>5
  <2> QED
    BY <2>1, <2>2
<1> QED
  BY <1>2, <1>7, <1>11, <1>12, <1>13 DEF BookShape

-----------------------------------------------------------------------------
(***************************************************************************)
(* The front of the opposite side, as the loop sees it.                    *)
(***************************************************************************)

LEMMA ShapeOfIInv == ASSUME IInv PROVE BookShape /\ arrived \in Nat
  BY MaxOrdersAssumption DEF IInv, TypeOK, BookConsistent, BookShape, BookTypes

LEMMA FrontProperties ==
  ASSUME IInv, taker # None,
         NEW p \in Price, NEW m \in Id, IsFront(Opp, p, m)
  PROVE  /\ Opp \in Side
         /\ p \in levels[Opp]
         /\ 1 \in 1..Len(queue[Opp][p])
         /\ queue[Opp][p][1] = m
         /\ m \in orderMap
         /\ m # taker
         /\ order[m].side = Opp
         /\ order[m].price = p
         /\ order[m].kind = "limit"
         /\ \A j \in Members(queue[Opp][p]) : j = m \/ m < j
<1>1. Opp \in Side
  BY DEF Opp, Opposite, Side
<1>2. p \in levels[Opp] /\ queue[Opp][p] # <<>> /\ m = Head(queue[Opp][p])
  BY DEF IsFront, IsFirst
<1>3. queue[Opp][p] \in Seq(Id)
  BY <1>1 DEF IInv, TypeOK
<1>4. 1 \in 1..Len(queue[Opp][p]) /\ queue[Opp][p][1] = m
  BY <1>2, <1>3, EmptySeq
<1>5. m \in Members(queue[Opp][p])
  BY <1>4 DEF Members
<1>6. m \in orderMap /\ order[m].side = Opp /\ order[m].price = p
  BY <1>1, <1>2, <1>5 DEF IInv, BookConsistent, ListsInOrder
<1>7. m # taker /\ order[m].kind = "limit"
  BY <1>6 DEF IInv, BookConsistent, MapListed
<1>8. \A j \in Members(queue[Opp][p]) : j = m \/ m < j
  <2> SUFFICES ASSUME NEW k \in 1..Len(queue[Opp][p])
               PROVE  queue[Opp][p][k] = m \/ m < queue[Opp][p][k]
    BY DEF Members
  <2>1. Increasing(queue[Opp][p])
    BY <1>1, <1>2 DEF IInv, BookConsistent, ListsInOrder
  <2>2. k = 1 \/ 1 < k
    BY <1>3, LenProperties
  <2> QED
    BY <2>1, <2>2, <1>4 DEF Increasing
<1> QED
  BY <1>1, <1>2, <1>4, <1>6, <1>7, <1>8

-----------------------------------------------------------------------------
(***************************************************************************)
(* Every step keeps the invariant.                                         *)
(***************************************************************************)

LEMMA InitIInv == Init => IInv
<1> SUFFICES ASSUME Init PROVE IInv
  OBVIOUS
<1> USE DEF Init
<1>1. TypeOK
  BY MaxOrdersAssumption, EmptySeq DEF TypeOK, Order, Zero, Side, Kind, Status
<1>2. BookConsistent
  BY DEF BookConsistent, NoEmptyLevel, ListsInOrder, MapListed
<1>3. NoOverfill
  BY DEF NoOverfill, Zero
<1>4. FreeIds /\ TakerIsLast /\ LiveStatus
  BY DEF FreeIds, TakerIsLast, LiveStatus
<1> QED
  BY <1>1, <1>2, <1>3, <1>4 DEF IInv

LEMMA SubmitIInv ==
  ASSUME IInv, NEW o \in Order, o.kind = "limit" => o.price \in Price, Submit(o)
  PROVE  IInv'
<1> DEFINE i == arrived + 1
<1>1. /\ i \in Id /\ arrived' = i /\ taker = None /\ taker' = i
      /\ order' = [order EXCEPT ![i] = o]
      /\ status' = [status EXCEPT ![i] = "open"]
      /\ UNCHANGED <<filled, levels, queue, total, orderMap, trades>>
      /\ o.qty \in Nat
  BY MaxOrdersAssumption DEF Submit, Arrive, book, Id, IInv, TypeOK, Order
<1>2. i > arrived /\ filled[i] = 0
  BY <1>1 DEF IInv, TypeOK, FreeIds
<1>3. i \notin orderMap /\ \A j \in orderMap : order'[j] = order[j] /\ status'[j] = status[j]
  BY <1>1, <1>2 DEF IInv, TypeOK, BookConsistent, MapListed
<1>4. TypeOK'
  BY <1>1, MaxOrdersAssumption DEF IInv, TypeOK, Id, Status
<1>5. BookConsistent'
  <2>1. NoEmptyLevel'
    BY <1>1 DEF IInv, BookConsistent, NoEmptyLevel
  <2>2. ListsInOrder'
    BY <1>1, <1>3 DEF IInv, BookConsistent, ListsInOrder
  <2>3. MapListed'
    <3> SUFFICES ASSUME NEW j \in orderMap
        PROVE  /\ j \in 1..arrived'
               /\ order'[j].kind = "limit"
               /\ order'[j].price \in levels[order'[j].side]
               /\ j \in Members(queue[order'[j].side][order'[j].price])
      BY <1>1 DEF MapListed
    <3> QED
      BY <1>1, <1>3 DEF IInv, TypeOK, BookConsistent, MapListed
  <2> QED
    BY <2>1, <2>2, <2>3, <1>1, <1>3 DEF BookConsistent
<1>6. NoOverfill'
  BY <1>1, <1>2 DEF IInv, TypeOK, NoOverfill
<1>7. FreeIds'
  <2> SUFFICES ASSUME NEW j \in Id, j > i
               PROVE  order'[j] = Zero /\ filled[j] = 0 /\ status'[j] = "pending"
    BY <1>1 DEF FreeIds
  <2>1. j > arrived /\ j # i
    BY <1>1 DEF IInv, TypeOK, Id
  <2> QED
    BY <2>1, <1>1 DEF IInv, TypeOK, FreeIds
<1>8. TakerIsLast' /\ LiveStatus'
  BY <1>1, <1>3 DEF IInv, TypeOK, TakerIsLast, LiveStatus
<1> QED
  BY <1>4, <1>5, <1>6, <1>7, <1>8 DEF IInv

LEMMA AddOrderIInv ==
  ASSUME IInv, NEW o \in Order, o.kind = "limit", o.price \in Price, AddOrder(o)
  PROVE  IInv'
<1> DEFINE i == arrived + 1
<1>1. /\ i \in Id /\ arrived' = i /\ taker = None /\ taker' = None
      /\ order' = [order EXCEPT ![i] = o]
      /\ status' = [status EXCEPT ![i] = "open"]
      /\ UNCHANGED <<filled, trades>>
      /\ o.qty \in Nat
      /\ PushBack(i, o, o.qty)
  BY MaxOrdersAssumption DEF AddOrder, Arrive, Id, IInv, TypeOK, Order
<1>2. i > arrived /\ filled[i] = 0 /\ arrived \in Nat /\ arrived' \in Nat
  BY <1>1 DEF IInv, TypeOK, FreeIds
<1>3. i \notin orderMap /\ \A j \in orderMap : order'[j] = order[j] /\ status'[j] = status[j] /\ j < i
  BY <1>1, <1>2 DEF IInv, TypeOK, BookConsistent, MapListed
<1>4. BookShape' /\ orderMap' = orderMap \cup {i}
  <2>1. order' \in [Id -> Order] /\ order'[i] = o
    BY <1>1 DEF IInv, TypeOK
  <2> HIDE DEF i
  <2> QED
    BY <1>1, <1>2, <1>3, <2>1, ShapeOfIInv, PushBackKeepsShape DEF i
<1>5. TypeOK'
  BY <1>1, <1>4, MaxOrdersAssumption DEF IInv, TypeOK, BookShape, BookTypes, Id, Status
<1>6. BookConsistent'
  <2>1. NoEmptyLevel' /\ ListsInOrder' /\ MapListed' /\ orderMap' \subseteq Id
    BY <1>4 DEF BookShape, BookTypes
  <2> QED
    BY <2>1, <1>1 DEF BookConsistent, Id, None
<1>7. NoOverfill'
  BY <1>1, <1>2 DEF IInv, TypeOK, NoOverfill
<1>8. FreeIds'
  <2> SUFFICES ASSUME NEW j \in Id, j > i
               PROVE  order'[j] = Zero /\ filled[j] = 0 /\ status'[j] = "pending"
    BY <1>1 DEF FreeIds
  <2>1. j > arrived /\ j # i
    BY <1>1 DEF IInv, TypeOK, Id
  <2> QED
    BY <2>1, <1>1 DEF IInv, TypeOK, FreeIds
<1>9. TakerIsLast' /\ LiveStatus'
  BY <1>1, <1>3, <1>4 DEF IInv, TypeOK, TakerIsLast, LiveStatus
<1> QED
  BY <1>5, <1>6, <1>7, <1>8, <1>9 DEF IInv

LEMMA FinishMarketIInv ==
  ASSUME IInv, FinishMarket
  PROVE  IInv'
<1>1. /\ taker \in Id /\ taker' = None /\ trades' = <<>> /\ taker \notin orderMap
      /\ UNCHANGED <<order, filled, arrived, levels, queue, total, orderMap>>
  BY DEF FinishMarket, book, IInv, TypeOK, BookConsistent
<1>2. PICK st \in {"filled", "partial", "rejected"} :
        /\ status' = [status EXCEPT ![taker] = st]
        /\ st = "filled" => Remaining(taker) <= 0
        /\ st = "partial" => ~ (Remaining(taker) <= 0) /\ filled[taker] > 0
        /\ st = "rejected" => ~ (Remaining(taker) <= 0) /\ ~ (filled[taker] > 0)
  BY DEF FinishMarket
<1>3. TypeOK'
  BY <1>1, <1>2, EmptySeq DEF IInv, TypeOK, Status
<1>4. BookConsistent'
  <2>1. NoEmptyLevel' /\ ListsInOrder' /\ MapListed'
    BY <1>1 DEF IInv, BookConsistent, NoEmptyLevel, ListsInOrder, MapListed
  <2> QED
    BY <2>1, <1>1 DEF BookConsistent, IInv, TypeOK, Id, None
<1>5. NoOverfill'
  <2> SUFFICES ASSUME NEW i \in Id
      PROVE  /\ filled[i] \in 0..order[i].qty
             /\ status'[i] = "filled" => filled[i] = order[i].qty
             /\ status'[i] = "rejected" => filled[i] = 0
             /\ status'[i] = "partial" => 0 < filled[i] /\ filled[i] < order[i].qty
    BY <1>1 DEF NoOverfill
  <2>1. filled[i] \in 0..order[i].qty /\ order[i].qty \in Nat
    BY DEF IInv, NoOverfill, TypeOK, Order
  <2>2. CASE i = taker
    BY <2>1, <2>2, <1>1, <1>2 DEF Remaining, IInv, TypeOK
  <2>3. CASE i # taker
    BY <2>3, <1>1, <1>2 DEF IInv, TypeOK, NoOverfill
  <2> QED
    BY <2>2, <2>3
<1>6. FreeIds'
  <2> SUFFICES ASSUME NEW j \in Id, j > arrived
               PROVE  order[j] = Zero /\ filled[j] = 0 /\ status'[j] = "pending"
    BY <1>1 DEF FreeIds
  <2>1. j # taker
    BY <1>1 DEF IInv, TypeOK, TakerIsLast, Id, None
  <2> QED
    BY <2>1, <1>1, <1>2 DEF IInv, TypeOK, FreeIds
<1>7. TakerIsLast' /\ LiveStatus'
  BY <1>1, <1>2 DEF IInv, TypeOK, TakerIsLast, LiveStatus
<1> QED
  BY <1>3, <1>4, <1>5, <1>6, <1>7 DEF IInv

LEMMA FinishLimitIInv ==
  ASSUME IInv, FinishLimit
  PROVE  IInv'
<1>1. /\ taker \in Id /\ taker' = None /\ trades' = <<>> /\ taker \notin orderMap
      /\ order[taker].kind = "limit" /\ order[taker].price \in Price
      /\ UNCHANGED <<order, filled, arrived>>
      /\ taker = arrived /\ arrived \in Nat
  BY MaxOrdersAssumption DEF FinishLimit, IInv, TypeOK, BookConsistent, TakerIsLast
<1>2. filled[taker] \in Nat /\ order[taker].qty \in Nat /\ Remaining(taker) \in Int
  BY <1>1 DEF IInv, TypeOK, Order, Remaining
<1>3. PICK st \in {"filled", "open"} :
        /\ status' = [status EXCEPT ![taker] = st]
        /\ st = "filled" => Remaining(taker) <= 0 /\ UNCHANGED book
        /\ st = "open" => PushBack(taker, order[taker], Remaining(taker))
  BY DEF FinishLimit
<1>4. BookShape' /\ orderMap \subseteq orderMap' /\ orderMap' \subseteq orderMap \cup {taker}
  <2>1. CASE st = "filled"
    <3>1. UNCHANGED <<levels, queue, total, orderMap>>
      BY <2>1, <1>3 DEF book
    <3> QED
      BY <3>1, <1>1, ShapeOfIInv DEF BookShape, BookTypes, NoEmptyLevel, ListsInOrder, MapListed
  <2>2. CASE st = "open"
    <3>1. \A j \in orderMap : j < taker
      BY <1>1 DEF IInv, BookConsistent, MapListed
    <3>2. order' \in [Id -> Order] /\ \A j \in orderMap : order'[j] = order[j]
      BY <1>1 DEF IInv, TypeOK
    <3> QED
      BY <2>2, <3>1, <3>2, <1>1, <1>2, <1>3, ShapeOfIInv, PushBackKeepsShape
  <2> QED
    BY <2>1, <2>2
<1>5. TypeOK'
  BY <1>1, <1>3, <1>4, EmptySeq DEF IInv, TypeOK, Status, BookShape, BookTypes
<1>6. BookConsistent'
  <2>1. NoEmptyLevel' /\ ListsInOrder' /\ MapListed' /\ orderMap' \subseteq Id
    BY <1>4 DEF BookShape, BookTypes
  <2> QED
    BY <2>1, <1>1 DEF BookConsistent, Id, None
<1>7. NoOverfill'
  <2> SUFFICES ASSUME NEW i \in Id
      PROVE  /\ filled[i] \in 0..order[i].qty
             /\ status'[i] = "filled" => filled[i] = order[i].qty
             /\ status'[i] = "rejected" => filled[i] = 0
             /\ status'[i] = "partial" => 0 < filled[i] /\ filled[i] < order[i].qty
    BY <1>1 DEF NoOverfill
  <2>1. filled[i] \in 0..order[i].qty /\ order[i].qty \in Nat
    BY DEF IInv, NoOverfill, TypeOK, Order
  <2>2. CASE i = taker
    BY <2>1, <2>2, <1>1, <1>3 DEF Remaining, IInv, TypeOK
  <2>3. CASE i # taker
    BY <2>3, <1>1, <1>3 DEF IInv, TypeOK, NoOverfill
  <2> QED
    BY <2>2, <2>3
<1>8. FreeIds'
  <2> SUFFICES ASSUME NEW j \in Id, j > arrived
               PROVE  order[j] = Zero /\ filled[j] = 0 /\ status'[j] = "pending"
    BY <1>1 DEF FreeIds
  <2>1. j # taker
    BY <1>1
  <2> QED
    BY <2>1, <1>1, <1>3 DEF IInv, TypeOK, FreeIds
<1>9. TakerIsLast' /\ LiveStatus'
  <2>1. \A j \in orderMap : status'[j] \in {"open", "partial"}
    BY <1>1, <1>3 DEF IInv, TypeOK, LiveStatus
  <2>2. taker \in orderMap' => status'[taker] \in {"open", "partial"}
    <3>1. CASE st = "filled"
      BY <3>1, <1>1, <1>3 DEF book
    <3>2. CASE st = "open"
      BY <3>2, <1>1, <1>3 DEF IInv, TypeOK
    <3> QED
      BY <3>1, <3>2
  <2> QED
    BY <2>1, <2>2, <1>1, <1>4 DEF TakerIsLast, LiveStatus
<1> QED
  BY <1>5, <1>6, <1>7, <1>8, <1>9 DEF IInv

\* What the remaining lemmas share: nothing arrives, and only one order of
\* the book changes its status or leaves it.
LEMMA MakerIInv ==
  ASSUME IInv, BookShape', NEW i \in Id, NEW st \in Status,
         i \in orderMap, orderMap' \subseteq orderMap,
         i \in orderMap' => st \in {"open", "partial"},
         UNCHANGED <<order, arrived, taker>>,
         status' = [status EXCEPT ![i] = st],
         filled' \in [Id -> Nat],
         \A j \in Id : j # i /\ j # taker => filled'[j] = filled[j],
         trades' \in Seq([price : Nat, qty : Nat \ {0}]),
         NoOverfill'
  PROVE  IInv'
<1>1. i <= arrived /\ i \in Int /\ arrived \in Int /\ i # taker
  BY DEF IInv, BookConsistent, MapListed, TypeOK
<1>2. TypeOK'
  BY DEF IInv, TypeOK, BookShape, BookTypes
<1>3. BookConsistent'
  BY DEF IInv, BookConsistent, BookShape
<1>4. FreeIds'
  <2> SUFFICES ASSUME NEW j \in Id, j > arrived
               PROVE  order[j] = Zero /\ filled'[j] = 0 /\ status'[j] = "pending"
    BY DEF FreeIds
  <2>1. j # i
    BY <1>1
  <2>2. j # taker
    BY <1>1 DEF IInv, TakerIsLast, TypeOK, Id, None
  <2> QED
    BY <2>1, <2>2 DEF IInv, TypeOK, FreeIds
<1>5. TakerIsLast'
  BY <1>1 DEF IInv, TypeOK, TakerIsLast
<1>6. LiveStatus'
  BY DEF IInv, TypeOK, LiveStatus
<1> QED
  BY <1>2, <1>3, <1>4, <1>5, <1>6 DEF IInv

LEMMA SkipExhaustedIInv ==
  ASSUME IInv, SkipExhausted
  PROVE  IInv'
<1>1. taker # None /\ UNCHANGED <<order, filled, status, arrived, taker, trades>>
  BY DEF SkipExhausted
<1>2. PICK p \in Price, m \in Id :
        IsFront(Opp, p, m) /\ Unlink(Opp, p, 1, Remaining(m))
  BY DEF SkipExhausted
<1>3. /\ Opp \in Side
      /\ p \in levels[Opp]
      /\ 1 \in 1..Len(queue[Opp][p])
      /\ queue[Opp][p][1] = m
      /\ m \in orderMap
  BY <1>1, <1>2, FrontProperties
<1>4. Remaining(m) \in Int
  BY DEF Remaining, IInv, TypeOK, Order
<1>5. BookShape' /\ orderMap' = orderMap \ {m}
  BY <1>1, <1>2, <1>3, <1>4, ShapeOfIInv, UnlinkKeepsShape
<1>6. status[m] \in Status /\ status' = [status EXCEPT ![m] = status[m]]
  BY <1>1 DEF IInv, TypeOK
<1>7. NoOverfill'
  BY <1>1 DEF IInv, NoOverfill
<1>8. filled' \in [Id -> Nat] /\ trades' \in Seq([price : Nat, qty : Nat \ {0}])
  BY <1>1 DEF IInv, TypeOK
<1> QED
  BY <1>1, <1>3, <1>5, <1>6, <1>7, <1>8, MakerIInv

LEMMA CancelOrderIInv ==
  ASSUME IInv, NEW i \in Id, CancelOrder(i)
  PROVE  IInv'
<1>1. UNCHANGED <<order, filled, arrived, taker, trades>>
  BY DEF CancelOrder
<1>2. CASE i \in orderMap
  <2> DEFINE s == order[i].side
             p == order[i].price
  <2>1. s \in Side /\ p \in levels[s]
    BY <1>2 DEF IInv, BookConsistent, MapListed, TypeOK, Order
  <2>2. PICK k \in 1..Len(queue[s][p]) :
          queue[s][p][k] = i /\ Unlink(s, p, k, Remaining(i))
    BY <1>2, <2>1 DEF CancelOrder
  <2>3. status' = [status EXCEPT ![i] = "cancelled"]
    BY <1>2, <2>1 DEF CancelOrder
  <2>4. Remaining(i) \in Int
    BY DEF Remaining, IInv, TypeOK, Order
  <2>5. BookShape' /\ orderMap' = orderMap \ {i}
    <3> HIDE DEF s, p
    <3> QED
      BY <1>1, <2>1, <2>2, <2>4, ShapeOfIInv, UnlinkKeepsShape
  <2>6. NoOverfill'
    BY <1>1, <2>3 DEF IInv, TypeOK, NoOverfill
  <2>7. filled' \in [Id -> Nat] /\ trades' \in Seq([price : Nat, qty : Nat \ {0}])
    BY <1>1 DEF IInv, TypeOK
  <2>8. "cancelled" \in Status
    BY DEF Status
  <2> QED
    BY <1>1, <1>2, <2>3, <2>5, <2>6, <2>7, <2>8, MakerIInv
<1>3. CASE i \notin orderMap
  <2>1. UNCHANGED vars
    BY <1>1, <1>3 DEF CancelOrder, Forget, vars
  <2> QED
    BY <2>1 DEF vars, IInv, TypeOK, BookConsistent, NoEmptyLevel, ListsInOrder, MapListed,
                NoOverfill, FreeIds, TakerIsLast, LiveStatus
<1> QED
  BY <1>2, <1>3

LEMMA FillIInv ==
  ASSUME IInv, Fill
  PROVE  IInv'
<1>1. taker # None /\ Remaining(taker) > 0 /\ UNCHANGED <<order, arrived, taker>>
  BY DEF Fill
<1>2. PICK p \in Price, m \in Id :
        /\ IsFront(Opp, p, m)
        /\ ~ Exhausted(m)
        /\ LET q == TradeQty(m)
               reduced == IF m \in orderMap THEN q ELSE 0
               done == Remaining(m) = reduced
           IN  /\ filled' = [filled EXCEPT ![m] = @ + reduced, ![taker] = @ + q]
               /\ status' = [status EXCEPT ![m] = IF done THEN "filled" ELSE "partial"]
               /\ trades' = Append(trades, CreateTrade(m, q))
               /\ IF done
                  THEN Unlink(Opp, p, 1, reduced)
                  ELSE /\ total' = [total EXCEPT ![Opp][p] = @ - reduced]
                       /\ UNCHANGED <<levels, queue, orderMap>>
  BY DEF Fill
<1>3. /\ Opp \in Side
      /\ p \in levels[Opp]
      /\ 1 \in 1..Len(queue[Opp][p])
      /\ queue[Opp][p][1] = m
      /\ m \in orderMap
      /\ m # taker
  BY <1>1, <1>2, FrontProperties
<1> DEFINE q == TradeQty(m)
           done == Remaining(m) = q
           st == IF done THEN "filled" ELSE "partial"
<1>4. /\ taker \in Id
      /\ filled[m] \in Nat /\ order[m].qty \in Nat
      /\ filled[taker] \in Nat /\ order[taker].qty \in Nat
  BY <1>1 DEF IInv, TypeOK, Order
<1>5. /\ q \in Nat \ {0}
      /\ filled[m] + q <= order[m].qty
      /\ filled[taker] + q <= order[taker].qty
      /\ done <=> filled[m] + q = order[m].qty
  BY <1>1, <1>2, <1>4, SMTT(30) DEF TradeQty, Remaining, Exhausted
<1> HIDE DEF q, done
<1>6. /\ filled' = [filled EXCEPT ![m] = @ + q, ![taker] = @ + q]
      /\ status' = [status EXCEPT ![m] = st]
      /\ trades' = Append(trades, CreateTrade(m, q))
      /\ done => Unlink(Opp, p, 1, q)
      /\ ~ done => /\ total' = [total EXCEPT ![Opp][p] = @ - q]
                   /\ UNCHANGED <<levels, queue, orderMap>>
  BY <1>2, <1>3 DEF q, done
<1>7. BookShape' /\ orderMap' \subseteq orderMap /\ (done => m \notin orderMap')
  <2>1. CASE done
    <3>1. Unlink(Opp, p, 1, q) /\ q \in Int
      BY <2>1, <1>5, <1>6
    <3> QED
      BY <3>1, <1>1, <1>3, ShapeOfIInv, UnlinkKeepsShape
  <2>2. CASE ~ done
    <3>1. UNCHANGED <<levels, queue, orderMap>>
      BY <2>2, <1>6
    <3>2. total' = [total EXCEPT ![Opp][p] = @ - q] /\ total \in [Side -> [Price -> Int]]
      BY <2>2, <1>6 DEF IInv, TypeOK
    <3>3. total' \in [Side -> [Price -> Int]]
      BY <3>2, <1>3, <1>5
    <3> QED
      BY <2>2, <3>1, <3>3, <1>1, ShapeOfIInv DEF BookShape, BookTypes, NoEmptyLevel, ListsInOrder, MapListed
  <2> QED
    BY <2>1, <2>2
<1>8. /\ filled' \in [Id -> Nat]
      /\ filled'[m] = filled[m] + q
      /\ filled'[taker] = filled[taker] + q
      /\ \A j \in Id : j # m /\ j # taker => filled'[j] = filled[j]
  <2>1. filled \in [Id -> Nat] /\ filled' = [filled EXCEPT ![m] = @ + q, ![taker] = @ + q]
    BY <1>6 DEF IInv, TypeOK
  <2>2. filled[m] + q \in Nat /\ filled[taker] + q \in Nat
    BY <1>4, <1>5
  <2> QED
    BY <2>1, <2>2, <1>3, <1>4
<1>9. trades' \in Seq([price : Nat, qty : Nat \ {0}])
  <2>1. CreateTrade(m, q) \in [price : Nat, qty : Nat \ {0}]
    BY <1>5 DEF CreateTrade, IInv, TypeOK, Order
  <2> QED
    BY <2>1, <1>6 DEF IInv, TypeOK
<1>10. NoOverfill'
  <2> SUFFICES ASSUME NEW i \in Id
      PROVE  /\ filled'[i] \in 0..order[i].qty
             /\ status'[i] = "filled" => filled'[i] = order[i].qty
             /\ status'[i] = "rejected" => filled'[i] = 0
             /\ status'[i] = "partial" => 0 < filled'[i] /\ filled'[i] < order[i].qty
    BY <1>1 DEF NoOverfill
  <2>1. CASE i = m
    <3>1. status'[i] = st
      BY <2>1, <1>6 DEF IInv, TypeOK
    <3> QED
      BY <2>1, <3>1, <1>4, <1>5, <1>8
  <2>2. CASE i = taker
    <3>1. status'[i] = "open"
      BY <2>2, <1>1, <1>3, <1>6 DEF IInv, TypeOK, TakerIsLast
    <3> QED
      BY <2>2, <3>1, <1>4, <1>5, <1>8
  <2>3. CASE i # m /\ i # taker
    <3>1. status'[i] = status[i] /\ filled'[i] = filled[i]
      BY <2>3, <1>6, <1>8 DEF IInv, TypeOK
    <3> QED
      BY <3>1 DEF IInv, NoOverfill
  <2> QED
    BY <2>1, <2>2, <2>3
<1>11. st \in Status /\ (m \in orderMap' => st \in {"open", "partial"})
  BY <1>7 DEF Status
<1> HIDE DEF st
<1> QED
  BY <1>1, <1>3, <1>6, <1>7, <1>8, <1>9, <1>10, <1>11, MakerIInv

LEMMA UnchangedIInv == ASSUME IInv, UNCHANGED vars PROVE IInv'
  BY DEF vars, IInv, TypeOK, BookConsistent, NoEmptyLevel, ListsInOrder, MapListed,
         NoOverfill, FreeIds, TakerIsLast, LiveStatus

LEMMA OrdersTyped ==
  /\ \A s \in Side, q \in SubmitQty :
       Market(s, q) \in Order /\ Market(s, q).kind # "limit"
  /\ \A s \in Side, p \in Price, q \in SubmitQty \cup AddQty :
       /\ Limit(s, p, q) \in Order
       /\ Limit(s, p, q).kind = "limit"
       /\ Limit(s, p, q).price \in Price
  BY PriceAssumption, SubmitQtyAssumption, AddQtyAssumption DEF Market, Limit, Order, Kind

LEMMA NextIInv == IInv /\ [Next]_vars => IInv'
<1> SUFFICES ASSUME IInv, [Next]_vars PROVE IInv'
  OBVIOUS
<1>1. CASE \E s \in Side, q \in SubmitQty : Submit(Market(s, q))
  BY <1>1, OrdersTyped, SubmitIInv
<1>2. CASE \E s \in Side, p \in Price, q \in SubmitQty : Submit(Limit(s, p, q))
  BY <1>2, OrdersTyped, SubmitIInv
<1>3. CASE \E s \in Side, p \in Price, q \in AddQty : AddOrder(Limit(s, p, q))
  BY <1>3, OrdersTyped, AddOrderIInv
<1>4. CASE \E i \in Id : CancelOrder(i)
  BY <1>4, CancelOrderIInv
<1>5. CASE Fill
  BY <1>5, FillIInv
<1>6. CASE SkipExhausted
  BY <1>6, SkipExhaustedIInv
<1>7. CASE FinishMarket
  BY <1>7, FinishMarketIInv
<1>8. CASE FinishLimit
  BY <1>8, FinishLimitIInv
<1>9. CASE UNCHANGED vars
  BY <1>9, UnchangedIInv
<1> QED
  BY <1>1, <1>2, <1>3, <1>4, <1>5, <1>6, <1>7, <1>8, <1>9 DEF Next, Loop

\* The inductive invariant of the book holds in every state matching goes through.
THEOREM Invariance == Spec => []IInv
<1>1. Init => IInv
  BY InitIInv
<1>2. IInv /\ [Next]_vars => IInv'
  BY NextIInv
<1> QED
  BY <1>1, <1>2, PTL DEF Spec

-----------------------------------------------------------------------------
(***************************************************************************)
(* Theorems.                                                               *)
(***************************************************************************)

\* Every variable keeps its type: no trade is empty, no fill is negative.
THEOREM TypeCorrect == Spec => []TypeOK
<1>1. IInv => TypeOK
  BY DEF IInv
<1> QED
  BY <1>1, Invariance, PTL

\* Trees, lists and order map describe the same resting orders at all times.
THEOREM BookStaysConsistent == Spec => []BookConsistent
<1>1. IInv => BookConsistent
  BY DEF IInv
<1> QED
  BY <1>1, Invariance, PTL

\* No order is ever filled beyond its quantity.
THEOREM NeverOverfilled == Spec => []NoOverfill
<1>1. IInv => NoOverfill
  BY DEF IInv
<1> QED
  BY <1>1, Invariance, PTL

-----------------------------------------------------------------------------
(***************************************************************************)
(* The book implements Exchange: the front of the opposite tree is the     *)
(* live order that is next in line by price and then by arrival.           *)
(***************************************************************************)

LEMMA FrontIsNextInLine ==
  ASSUME IInv, taker # None, NEW m \in Id
  PROVE  (\E p \in Price : IsFront(Opp, p, m)) <=> Promise!NextInLine(m)
<1> DEFINE t == order[taker].side
<1>1. taker \in Id /\ t \in Side /\ Opp \in Side /\ Opp # t
  BY DEF IInv, TypeOK, Opp, Opposite, Order, Side
<1>2. \A u \in Side : u # t <=> u = Opp
  BY <1>1 DEF Opp, Opposite, Side
<1>3. \A j \in orderMap :
        /\ j \in Id /\ j \in Nat
        /\ order[j].side \in Side /\ order[j].price \in Nat
        /\ order[j].price \in levels[order[j].side]
        /\ j \in Members(queue[order[j].side][order[j].price])
  BY MaxOrdersAssumption DEF IInv, TypeOK, BookConsistent, MapListed, Order, Id
<1>4. ASSUME NEW p \in Price, IsFront(Opp, p, m)
      PROVE  Promise!NextInLine(m)
  <2>1. /\ m \in orderMap
        /\ order[m].side = Opp
        /\ order[m].price = p
        /\ \A j \in Members(queue[Opp][p]) : j = m \/ m < j
    BY <1>4, FrontProperties
  <2>2. \A r \in levels[Opp] : NotAfter(Opp, p, r)
    BY <1>4 DEF IsFront, IsFirst
  <2>3. ASSUME NEW j \in orderMap, order[j].side = Opp, j # m
        PROVE  Promise!Before(m, j)
    <3>1. NotAfter(Opp, p, order[j].price)
      BY <1>3, <2>2, <2>3
    <3>2. CASE order[j].price = p
      BY <3>2, <1>3, <2>1, <2>3 DEF Promise!Before
    <3>3. CASE order[j].price # p
      BY <3>1, <3>3, <2>1 DEF Promise!Before, Promise!NoWorse, NotAfter
    <3> QED
      BY <3>2, <3>3
  <2> QED
    BY <1>1, <2>1, <2>3 DEF Promise!NextInLine
<1>5. ASSUME Promise!NextInLine(m)
      PROVE  \E p \in Price : IsFront(Opp, p, m)
  <2> DEFINE p == order[m].price
  <2>1. /\ m \in orderMap /\ order[m].side # t
        /\ \A j \in orderMap : order[j].side = order[m].side => j = m \/ Promise!Before(m, j)
    BY <1>5 DEF Promise!NextInLine
  <2>2. order[m].side = Opp
    BY <1>2, <1>3, <2>1
  <2>3. p \in levels[Opp] /\ m \in Members(queue[Opp][p]) /\ p \in Price /\ p \in Nat
    BY <1>1, <1>3, <2>1, <2>2 DEF IInv, TypeOK
  <2>4. ASSUME NEW r \in levels[Opp]
        PROVE  /\ r \in Price
               /\ \E h \in orderMap :
                    /\ h = Head(queue[Opp][r])
                    /\ order[h].side = Opp /\ order[h].price = r
                    /\ \A j \in Members(queue[Opp][r]) : j = h \/ h < j
    <3>1. r \in Price /\ queue[Opp][r] \in Seq(Id) /\ queue[Opp][r] # <<>>
      BY <1>1 DEF IInv, TypeOK, BookConsistent, NoEmptyLevel
    <3> DEFINE q == queue[Opp][r]
               h == q[1]
    <3>2. /\ \A j \in Members(q) : j \in orderMap /\ order[j].side = Opp /\ order[j].price = r
          /\ Increasing(q)
      BY <1>1 DEF IInv, BookConsistent, ListsInOrder
    <3> HIDE DEF q
    <3>3. h = Head(q) /\ Len(q) \in Nat /\ 1 \in 1..Len(q)
      BY <3>1, EmptySeq, LenProperties DEF q
    <3>4. h \in Members(q)
      BY <3>3 DEF Members
    <3>5. \A k \in 1..Len(q) : q[k] = h \/ h < q[k]
      BY <3>2, <3>3 DEF Increasing
    <3> QED
      BY <3>1, <3>2, <3>3, <3>4, <3>5 DEF q, Members
  <2>5. ASSUME NEW r \in levels[Opp]
        PROVE  NotAfter(Opp, p, r)
    <3>1. PICK h \in orderMap : order[h].side = Opp /\ order[h].price = r
      BY <2>4
    <3>2. h = m \/ Promise!Before(m, h)
      BY <2>1, <2>2, <3>1
    <3> QED
      BY <3>1, <3>2, <1>3, <2>2, <2>3 DEF Promise!Before, Promise!NoWorse, NotAfter
  <2>6. m = Head(queue[Opp][p])
    <3>1. PICK h \in orderMap :
             /\ h = Head(queue[Opp][p])
             /\ order[h].side = Opp /\ order[h].price = p
             /\ \A j \in Members(queue[Opp][p]) : j = h \/ h < j
      BY <2>3, <2>4
    <3>2. h = m \/ m < h
      BY <2>1, <2>2, <3>1 DEF Promise!Before
    <3>3. m = h \/ h < m
      BY <2>3, <3>1
    <3> QED
      BY <3>1, <3>2, <3>3, <1>3, <2>1
  <2>7. queue[Opp][p] # <<>>
    BY <1>1, <2>3 DEF IInv, BookConsistent, NoEmptyLevel
  <2> QED
    BY <2>3, <2>5, <2>6, <2>7 DEF IsFront, IsFirst
<1> QED
  BY <1>4, <1>5

LEMMA CanMatchIsAcceptable ==
  ASSUME NEW m PROVE CanMatch(m) <=> Promise!Acceptable(m)
  BY DEF CanMatch, Promise!Acceptable, NotAfter, Promise!NoWorse

LEMMA InitRefines == Init => Promise!Init
  BY DEF Init, Promise!Init, Zero, None, Promise!None, Id, Promise!Id

LEMMA LoopEndsIsRest ==
  ASSUME IInv, taker # None, LoopEnds
  PROVE  Promise!Remaining(taker) = 0
           \/ ~ \E m \in orderMap : Promise!NextInLine(m) /\ Promise!Acceptable(m)
<1>1. taker \in Id /\ filled[taker] \in 0..order[taker].qty /\ order[taker].qty \in Nat
  BY DEF IInv, TypeOK, NoOverfill, Order
<1>2. CASE Remaining(taker) <= 0
  BY <1>1, <1>2 DEF Remaining, Promise!Remaining
<1>3. CASE ~ \E p \in Price, m \in Id : IsFront(Opp, p, m) /\ CanMatch(m)
  <2>1. orderMap \subseteq Id
    BY DEF IInv, TypeOK
  <2> QED
    BY <2>1, <1>3, FrontIsNextInLine, CanMatchIsAcceptable
<1> QED
  BY <1>2, <1>3 DEF LoopEnds

LEMMA SubmitRefines ==
  ASSUME NEW o, Submit(o) PROVE Promise!Submit(o)
  BY DEF Submit, Arrive, book, Promise!Submit, Promise!Arrive, None, Promise!None

LEMMA AddOrderRefines ==
  ASSUME NEW o, AddOrder(o) PROVE Promise!Place(o)
  BY DEF AddOrder, Arrive, PushBack, Promise!Place, Promise!Arrive, None, Promise!None

LEMMA CancelOrderRefines ==
  ASSUME IInv, NEW i \in Id, CancelOrder(i)
  PROVE  Promise!Cancel(i) \/ UNCHANGED Promise!vars
<1>1. taker = None /\ UNCHANGED <<order, filled, arrived, taker>>
  BY DEF CancelOrder
<1>2. orderMap' = orderMap \ {i}
  <2>1. CASE i \in orderMap /\ order[i].price \in levels[order[i].side]
    BY <2>1 DEF CancelOrder, Unlink, Forget
  <2>2. CASE ~ (i \in orderMap /\ order[i].price \in levels[order[i].side])
    BY <2>2 DEF CancelOrder, Forget
  <2> QED
    BY <2>1, <2>2
<1> QED
  BY <1>1, <1>2 DEF Promise!Cancel, Promise!vars, None, Promise!None

LEMMA FillRefines ==
  ASSUME IInv, Fill PROVE Promise!Match
<1>1. taker # None /\ Remaining(taker) > 0 /\ UNCHANGED <<order, arrived, taker>>
  BY DEF Fill
<1>2. PICK p \in Price, m \in Id :
        /\ IsFront(Opp, p, m)
        /\ CanMatch(m)
        /\ LET q == TradeQty(m)
               reduced == IF m \in orderMap THEN q ELSE 0
               done == Remaining(m) = reduced
           IN  /\ filled' = [filled EXCEPT ![m] = @ + reduced, ![taker] = @ + q]
               /\ IF done
                  THEN Unlink(Opp, p, 1, reduced)
                  ELSE UNCHANGED orderMap
  BY DEF Fill
<1>3. m \in orderMap /\ queue[Opp][p][1] = m
  BY <1>1, <1>2, FrontProperties
<1>4. Promise!NextInLine(m) /\ Promise!Acceptable(m)
  BY <1>1, <1>2, FrontIsNextInLine, CanMatchIsAcceptable
<1>5. /\ filled' = [filled EXCEPT ![m] = @ + TradeQty(m), ![taker] = @ + TradeQty(m)]
      /\ orderMap' = IF Remaining(m) = TradeQty(m) THEN orderMap \ {m} ELSE orderMap
  BY <1>2, <1>3 DEF Unlink, Forget
<1> QED
  BY <1>1, <1>3, <1>4, <1>5
  DEF Promise!Match, Promise!Remaining, Remaining, TradeQty, None, Promise!None

LEMMA SkipExhaustedRefines ==
  ASSUME IInv, SkipExhausted PROVE Promise!Match
<1>1. taker # None /\ Remaining(taker) > 0 /\ UNCHANGED <<order, filled, arrived, taker>>
  BY DEF SkipExhausted
<1>2. PICK p \in Price, m \in Id :
        IsFront(Opp, p, m) /\ CanMatch(m) /\ Exhausted(m) /\ Unlink(Opp, p, 1, Remaining(m))
  BY DEF SkipExhausted
<1>3. m \in orderMap /\ queue[Opp][p][1] = m /\ m # taker
  BY <1>1, <1>2, FrontProperties
<1>4. Promise!NextInLine(m) /\ Promise!Acceptable(m)
  BY <1>1, <1>2, FrontIsNextInLine, CanMatchIsAcceptable
<1>5. orderMap' = orderMap \ {m}
  BY <1>2, <1>3 DEF Unlink, Forget
<1>6. /\ taker \in Id /\ filled \in [Id -> Nat]
      /\ filled[m] \in 0..order[m].qty /\ order[m].qty \in Nat
      /\ order[taker].qty \in Nat
  BY <1>1 DEF IInv, TypeOK, NoOverfill, Order
<1>7. Remaining(m) = 0
  BY <1>2, <1>6 DEF Exhausted, Remaining
<1>8. filled' = [filled EXCEPT ![m] = @ + 0, ![taker] = @ + 0]
  BY <1>1, <1>3, <1>6
<1> QED
  BY <1>1, <1>3, <1>4, <1>5, <1>7, <1>8, <1>6
  DEF Promise!Match, Promise!Remaining, Remaining, None, Promise!None

LEMMA FinishMarketRefines ==
  ASSUME IInv, FinishMarket PROVE Promise!Rest
  BY LoopEndsIsRest
  DEF FinishMarket, book, Promise!Rest, None, Promise!None

LEMMA FinishLimitRefines ==
  ASSUME IInv, FinishLimit PROVE Promise!Rest
<1>1. taker # None /\ taker \in Id /\ LoopEnds /\ order[taker].kind = "limit"
  BY DEF FinishLimit, IInv, TypeOK
<1>2. filled[taker] \in Nat /\ order[taker].qty \in Nat
  BY <1>1 DEF IInv, TypeOK, Order
<1>3. orderMap' = IF Remaining(taker) <= 0 THEN orderMap ELSE orderMap \cup {taker}
  BY DEF FinishLimit, book, PushBack
<1> QED
  BY <1>1, <1>2, <1>3, LoopEndsIsRest
  DEF FinishLimit, Promise!Rest, Promise!Remaining, Remaining, None, Promise!None

LEMMA NextRefines ==
  ASSUME IInv, [Next]_vars PROVE [Promise!Next]_(Promise!vars)
<1> USE DEF Id, Promise!Id, Side, Promise!Side
<1>1. CASE \E s \in Side, q \in SubmitQty : Submit(Market(s, q))
  BY <1>1, SubmitRefines DEF Promise!Next, Market, Promise!Market
<1>2. CASE \E s \in Side, p \in Price, q \in SubmitQty : Submit(Limit(s, p, q))
  BY <1>2, SubmitRefines DEF Promise!Next, Limit, Promise!Limit
<1>3. CASE \E s \in Side, p \in Price, q \in AddQty : AddOrder(Limit(s, p, q))
  BY <1>3, AddOrderRefines DEF Promise!Next, Limit, Promise!Limit
<1>4. CASE \E i \in Id : CancelOrder(i)
  BY <1>4, CancelOrderRefines DEF Promise!Next
<1>5. CASE Fill
  BY <1>5, FillRefines DEF Promise!Next
<1>6. CASE SkipExhausted
  BY <1>6, SkipExhaustedRefines DEF Promise!Next
<1>7. CASE FinishMarket
  BY <1>7, FinishMarketRefines DEF Promise!Next
<1>8. CASE FinishLimit
  BY <1>8, FinishLimitRefines DEF Promise!Next
<1>9. CASE UNCHANGED vars
  BY <1>9 DEF vars, Promise!vars
<1> QED
  BY <1>1, <1>2, <1>3, <1>4, <1>5, <1>6, <1>7, <1>8, <1>9 DEF Next, Loop

\* Whatever is submitted, added and cancelled, every trade goes to the order
\* with the best price and, at that price, the earliest arrival.
THEOREM BookImplementsExchange == Spec => PriceTimePriority
<1>1. Init => Promise!Init
  BY InitRefines
<1>2. IInv /\ [Next]_vars => [Promise!Next]_(Promise!vars)
  BY NextRefines
<1> QED
  BY <1>1, <1>2, Invariance, PTL DEF Spec, PriceTimePriority, Promise!Safety

-----------------------------------------------------------------------------
(***************************************************************************)
(* What no step does.                                                      *)
(***************************************************************************)

LEMMA StepKeepsOver ==
  ASSUME IInv, [Next]_vars, NEW i \in Id, Over(i)
  PROVE  status'[i] = status[i] /\ filled'[i] = filled[i] /\ i \notin orderMap'
<1>1. i # taker /\ i \notin orderMap /\ i <= arrived
  <2>1. i \notin orderMap
    BY DEF Over, IInv, LiveStatus, BookConsistent, MapListed
  <2>2. status[i] # "pending" /\ i \in Int /\ arrived \in Int
    BY MaxOrdersAssumption DEF Over, IInv, TypeOK, Id
  <2> QED
    BY <2>1, <2>2 DEF Over, IInv, FreeIds
<1>2. ASSUME NEW o, Arrive(o, "open")
      PROVE  status'[i] = status[i] /\ arrived + 1 # i
  BY <1>1, <1>2 DEF Arrive, IInv, TypeOK, Id
<1>3. ASSUME NEW o, Submit(o)
      PROVE  status'[i] = status[i] /\ filled'[i] = filled[i] /\ i \notin orderMap'
  BY <1>1, <1>2, <1>3 DEF Submit, book
<1>4. ASSUME NEW o, AddOrder(o)
      PROVE  status'[i] = status[i] /\ filled'[i] = filled[i] /\ i \notin orderMap'
  BY <1>1, <1>2, <1>4 DEF AddOrder, PushBack
<1>5. CASE \E j \in Id : CancelOrder(j)
  <2>1. PICK j \in Id : CancelOrder(j)
    BY <1>5
  <2>2. CASE j \in orderMap
    BY <1>1, <2>1, <2>2 DEF CancelOrder, Unlink, Forget, IInv, TypeOK
  <2>3. CASE j \notin orderMap
    BY <1>1, <2>1, <2>3 DEF CancelOrder, Forget
  <2> QED
    BY <2>2, <2>3
<1>6. CASE Fill
  <2>1. taker # None
    BY <1>6 DEF Fill
  <2>2. PICK p \in Price, m \in Id :
          /\ IsFront(Opp, p, m)
          /\ LET q == TradeQty(m)
                 reduced == IF m \in orderMap THEN q ELSE 0
                 done == Remaining(m) = reduced
             IN  /\ filled' = [filled EXCEPT ![m] = @ + reduced, ![taker] = @ + q]
                 /\ status' = [status EXCEPT ![m] = IF done THEN "filled" ELSE "partial"]
                 /\ IF done
                    THEN Unlink(Opp, p, 1, reduced)
                    ELSE UNCHANGED orderMap
    BY <1>6 DEF Fill
  <2>3. m \in orderMap
    BY <2>1, <2>2, FrontProperties
  <2>4. orderMap' \subseteq orderMap
    BY <2>2 DEF Unlink, Forget
  <2>5. filled'[i] = filled[i] /\ status'[i] = status[i]
    BY <1>1, <2>2, <2>3 DEF IInv, TypeOK
  <2> QED
    BY <1>1, <2>4, <2>5
<1>7. CASE SkipExhausted
  BY <1>1, <1>7 DEF SkipExhausted, Unlink, Forget
<1>8. CASE FinishMarket
  BY <1>1, <1>8 DEF FinishMarket, book, IInv, TypeOK
<1>9. CASE FinishLimit
  BY <1>1, <1>9 DEF FinishLimit, book, PushBack, IInv, TypeOK
<1>10. CASE UNCHANGED vars
  BY <1>1, <1>10 DEF vars
<1> QED
  BY <1>3, <1>4, <1>5, <1>6, <1>7, <1>8, <1>9, <1>10 DEF Next, Loop

\* An order that is filled, cancelled, rejected or dropped stays so.
THEOREM FinalStaysFinal == Spec => OverIsFinal
<1>1. IInv /\ [Next]_vars =>
        [\A i \in Id : Over(i) =>
           /\ status'[i] = status[i]
           /\ filled'[i] = filled[i]
           /\ i \notin orderMap']_vars
  BY StepKeepsOver
<1> QED
  BY <1>1, Invariance, PTL DEF Spec, OverIsFinal

-----------------------------------------------------------------------------
(***************************************************************************)
(* An order that comes to rest crosses nothing: the loop ends when the     *)
(* first level of the other tree is out of reach, and there is a first one *)
(* because finitely many orders have made the levels.                      *)
(***************************************************************************)

LEMMA FiniteHasFirst ==
  ASSUME NEW S \in SUBSET Nat, IsFiniteSet(S), S # {}, NEW s \in Side
  PROVE  \E p \in S : \A r \in S : NotAfter(s, p, r)
<1> DEFINE HasFirst(T) == T = {} \/ \E p \in T : \A r \in T : NotAfter(s, p, r)
           F == {T \in SUBSET S : HasFirst(T)}
<1>1. {} \in F
  OBVIOUS
<1>2. ASSUME NEW T \in SUBSET S, NEW x \in S \ T, T \in F
      PROVE  T \cup {x} \in F
  <2>1. CASE T = {}
    BY <1>2, <2>1 DEF NotAfter
  <2>2. CASE T # {}
    <3>1. PICK p \in T : \A r \in T : NotAfter(s, p, r)
      BY <1>2, <2>2
    <3>2. CASE NotAfter(s, p, x)
      BY <1>2, <3>1, <3>2
    <3>3. CASE ~ NotAfter(s, p, x)
      <4>1. NotAfter(s, x, p) /\ NotAfter(s, x, x)
        BY <1>2, <3>1, <3>3 DEF NotAfter
      <4>2. \A r \in T : NotAfter(s, x, r)
        BY <1>2, <3>1, <4>1 DEF NotAfter
      <4> QED
        BY <1>2, <4>1, <4>2
    <3> QED
      BY <3>2, <3>3
  <2> QED
    BY <2>1, <2>2
<1> HIDE DEF F
<1>3. S \in F
  BY <1>1, <1>2, SetInduction
<1> QED
  BY <1>3 DEF F

LEMMA LevelHasFirst ==
  ASSUME IInv, NEW s \in Side, levels[s] # {}
  PROVE  \E p \in Price : IsFirst(s, p)
<1> DEFINE h == [i \in Id |-> order[i].price]
           P == {h[i] : i \in Id}
<1>1. levels[s] \subseteq Price /\ levels[s] \subseteq Nat
  BY PriceAssumption DEF IInv, TypeOK
<1>2. ASSUME NEW p \in levels[s] PROVE p \in P
  <2>1. queue[s][p] \in Seq(Id) /\ queue[s][p] # <<>>
    BY <1>1 DEF IInv, TypeOK, BookConsistent, NoEmptyLevel
  <2>2. queue[s][p][1] \in Members(queue[s][p])
    BY <2>1, EmptySeq, LenProperties DEF Members
  <2>3. \A i \in Members(queue[s][p]) : i \in orderMap /\ order[i].price = p
    BY DEF IInv, BookConsistent, ListsInOrder
  <2>4. queue[s][p][1] \in Id /\ order[queue[s][p][1]].price = p
    BY <2>2, <2>3 DEF IInv, TypeOK
  <2> QED
    BY <2>4
<1>3. IsFiniteSet(Id)
  BY FS_Interval, MaxOrdersAssumption DEF Id
<1> HIDE DEF h
<1>4. IsFiniteSet(P)
  BY <1>3, ImageFinite
<1>5. IsFiniteSet(levels[s])
  BY <1>2, <1>4, FS_Subset
<1>6. \E p \in levels[s] : \A r \in levels[s] : NotAfter(s, p, r)
  BY <1>1, <1>5, FiniteHasFirst
<1> QED
  BY <1>1, <1>6 DEF IsFirst

LEMMA FinishLimitUncrossed ==
  ASSUME IInv, FinishLimit, taker \in orderMap'
  PROVE  \A p \in levels'[Opp] : ~ NotAfter(order[taker].side, order[taker].price, p)
<1> DEFINE s == order[taker].side
           t == order[taker].price
<1>1. /\ taker # None /\ taker \in Id /\ order[taker].kind = "limit"
      /\ s \in Side /\ t \in Nat /\ Opp \in Side /\ Opp # s
      /\ taker \notin orderMap
  BY DEF FinishLimit, IInv, TypeOK, BookConsistent, Order, Opp, Opposite, Side
<1>2. ~ (Remaining(taker) <= 0)
  BY <1>1 DEF FinishLimit, book
<1>3. levels'[Opp] = levels[Opp]
  <2>1. levels' = [levels EXCEPT ![s] = @ \cup {t}]
    BY <1>2 DEF FinishLimit, PushBack
  <2> QED
    BY <1>1, <2>1 DEF IInv, TypeOK
<1>4. \A p \in Price, m \in Id : IsFront(Opp, p, m) => ~ CanMatch(m)
  BY <1>2 DEF FinishLimit, LoopEnds
<1>5. ASSUME NEW q \in levels[Opp], NotAfter(s, t, q) PROVE FALSE
  <2>1. PICK p \in Price : IsFirst(Opp, p)
    BY <1>1, <1>5, LevelHasFirst
  <2>2. p \in levels[Opp] /\ NotAfter(Opp, p, q) /\ p \in Nat /\ q \in Nat
    BY <1>1, <2>1, PriceAssumption DEF IsFirst, IInv, TypeOK
  <2>3. NotAfter(s, t, p)
    BY <1>1, <1>5, <2>2 DEF NotAfter, Opp, Opposite, Side
  <2>4. queue[Opp][p] \in Seq(Id) /\ queue[Opp][p] # <<>>
    BY <1>1, <2>2 DEF IInv, TypeOK, BookConsistent, NoEmptyLevel
  <2> DEFINE m == Head(queue[Opp][p])
  <2>5. m \in Id
    BY <2>4, HeadTailProperties
  <2>6. IsFront(Opp, p, m)
    BY <2>1, <2>4 DEF IsFront
  <2>7. order[m].price = p
    BY <1>1, <2>5, <2>6, FrontProperties
  <2> QED
    BY <1>4, <2>3, <2>5, <2>6, <2>7 DEF CanMatch
<1> QED
  BY <1>3, <1>5

LEMMA StepUncrossed ==
  ASSUME IInv, [Next]_vars, taker # None, taker' = None, taker \in orderMap'
  PROVE  \A p \in levels'[Opp] : ~ NotAfter(order[taker].side, order[taker].price, p)
<1>1. taker \notin orderMap
  BY DEF IInv, BookConsistent
<1>2. CASE FinishLimit
  BY <1>2, FinishLimitUncrossed
<1>3. CASE FinishMarket
  BY <1>1, <1>3 DEF FinishMarket, book
<1>4. CASE Fill \/ SkipExhausted \/ UNCHANGED vars
  BY <1>4 DEF Fill, SkipExhausted, vars
<1>5. CASE \E i \in Id : CancelOrder(i)
  BY <1>5 DEF CancelOrder
<1>6. ASSUME NEW o, Submit(o) \/ AddOrder(o) PROVE FALSE
  BY <1>6 DEF Submit, AddOrder
<1> QED
  BY <1>2, <1>3, <1>4, <1>5, <1>6 DEF Next, Loop

\* What is left of a limit order rests only where no order of the other side
\* is in its reach.
THEOREM RestingOrdersUncrossed == Spec => RestsUncrossed
<1>1. IInv /\ [Next]_vars =>
        [(taker # None /\ taker' = None /\ taker \in orderMap') =>
           \A p \in levels'[Opp] :
             ~ NotAfter(order[taker].side, order[taker].price, p)]_vars
  BY StepUncrossed
<1> QED
  BY <1>1, Invariance, PTL DEF Spec, RestsUncrossed

-----------------------------------------------------------------------------
(***************************************************************************)
(* The sums: what a level's total counts, and what both sides have filled. *)
(***************************************************************************)

LEMMA SumOfIsSumOver == ASSUME NEW f PROVE SumOf(f) = SumOver(f, DOMAIN f)
  BY DEF SumOf, FoldFunction, FoldFunctionOnSet, MapThenFoldSet, SumOver

\* What each order has left, and the orders that rest on a level.
Left == [i \in Id |-> Remaining(i)]
Resting(s, p) == {i \in orderMap : order[i].side = s /\ order[i].price = p}

TotalsAddUp ==
  \A s \in Side : \A p \in levels[s] : total[s][p] = SumOver(Left, Resting(s, p))

LEMMA IdFinite == IsFiniteSet(Id)
  BY FS_Interval, MaxOrdersAssumption DEF Id

LEMMA LeftType == ASSUME IInv PROVE \A i \in Id : Left[i] = Remaining(i) /\ Left[i] \in Int
  BY DEF IInv, TypeOK, Order, Left, Remaining

LEMMA LeftTypeNext == ASSUME IInv' PROVE \A i \in Id : Left'[i] \in Int
  BY DEF IInv, TypeOK, Order, Left, Remaining

LEMMA RestingFinite ==
  ASSUME IInv PROVE \A s, p : Resting(s, p) \subseteq Id /\ IsFiniteSet(Resting(s, p))
<1>1. \A s, p : Resting(s, p) \in SUBSET Id
  BY DEF Resting, IInv, TypeOK
<1> QED
  BY <1>1, IdFinite, FS_Subset

\* The list of a level holds the orders that rest on it, each once.
LEMMA ListIsResting ==
  ASSUME IInv, NEW s \in Side, NEW p \in levels[s]
  PROVE  /\ Members(queue[s][p]) = Resting(s, p)
         /\ SumOf([k \in 1..Len(queue[s][p]) |-> Remaining(queue[s][p][k])])
              = SumOver(Left, Resting(s, p))
<1> DEFINE q == queue[s][p]
<1>1. q \in Seq(Id) /\ Increasing(q) /\ Len(q) \in Nat
  BY LenProperties DEF IInv, TypeOK, BookConsistent, ListsInOrder
<1>2. Members(q) = Resting(s, p)
  BY DEF IInv, BookConsistent, ListsInOrder, MapListed, Resting
<1> HIDE DEF q
<1> DEFINE D == 1..Len(q)
           f == [k \in D |-> Remaining(q[k])]
<1>3. IsFiniteSet(D)
  BY <1>1, FS_Interval
<1>4. \A k \in D : q[k] \in Id /\ q[k] \in Int
  BY <1>1, ElementOfSeq, MaxOrdersAssumption DEF Id
<1>5. \A j, k \in D : q[j] = q[k] => j = k
  BY <1>1, <1>4 DEF Increasing
<1>6. \A k \in D : Left[q[k]] = f[k] /\ f[k] \in Int
  BY <1>4, LeftType
<1>7. Members(q) = {q[k] : k \in D} /\ DOMAIN f = D
  BY DEF Members
<1>8. SumOf(f) = SumOver(f, D)
  BY <1>7, SumOfIsSumOver
<1> HIDE DEF D, f
<1>9. SumOver(f, D) = SumOver(Left, {q[k] : k \in D})
  BY <1>3, <1>5, <1>6, SumReindex
<1> QED
  BY <1>2, <1>7, <1>8, <1>9 DEF q, D, f

LEMMA TotalsAreSums == ASSUME IInv PROVE TotalsAddUp => LevelTotals
  BY ListIsResting DEF TotalsAddUp, LevelTotals

\* A level without a node has no order.
LEMMA NoLevelNoOrder ==
  ASSUME IInv, NEW s, NEW p, p \notin levels[s] PROVE Resting(s, p) = {}
  BY DEF IInv, BookConsistent, MapListed, Resting

\* Orders rest where they did and have left what they had.
LEMMA TotalsStay ==
  ASSUME IInv, IInv', TotalsAddUp, UNCHANGED <<levels, total, orderMap>>,
         \A j \in orderMap : order'[j] = order[j] /\ filled'[j] = filled[j]
  PROVE  TotalsAddUp'
<1> SUFFICES ASSUME NEW s \in Side, NEW p \in levels[s]
             PROVE  total[s][p] = SumOver(Left', Resting(s, p)')
  BY DEF TotalsAddUp
<1> DEFINE S == Resting(s, p)
<1>1. Resting(s, p)' = S
  BY DEF Resting
<1>2. IsFiniteSet(S) /\ S \subseteq Id
  BY RestingFinite
<1>3. \A j \in S : Left[j] = Left'[j]
  BY <1>2 DEF Resting, Left, Remaining
<1> HIDE DEF S
<1>4. SumOver(Left, S) = SumOver(Left', S)
  BY <1>2, <1>3, SumCongruence
<1> QED
  BY <1>1, <1>4 DEF TotalsAddUp, S

\* An order leaves the book and its level loses what it had left.
LEMMA TotalsLose ==
  ASSUME IInv, IInv', TotalsAddUp, order' = order,
         NEW s \in Side, NEW p \in levels[s], NEW k \in 1..Len(queue[s][p]),
         Unlink(s, p, k, Remaining(queue[s][p][k])),
         \A j \in orderMap \ {queue[s][p][k]} : filled'[j] = filled[j]
  PROVE  TotalsAddUp'
<1> DEFINE i == queue[s][p][k]
<1>1. i \in Resting(s, p) /\ i \in orderMap /\ order[i].side = s /\ order[i].price = p
  <2>1. i \in Members(queue[s][p])
    BY DEF Members
  <2>2. i \in Resting(s, p)
    BY <2>1, ListIsResting
  <2> QED
    BY <2>2 DEF Resting
<1>2. orderMap' = orderMap \ {i} /\ total' = [total EXCEPT ![s][p] = @ - Remaining(i)]
  BY DEF Unlink, Forget
<1>3. levels' = [levels EXCEPT ![s] = Pruned(s, p, Without(queue[s][p], k))]
  BY DEF Unlink
<1>4. \A t \in Side : levels'[t] \subseteq levels[t]
  BY <1>3 DEF Pruned, IInv, TypeOK
<1> HIDE DEF i
<1> SUFFICES ASSUME NEW t \in Side, NEW r \in levels'[t]
             PROVE  total'[t][r] = SumOver(Left', Resting(t, r)')
  BY DEF TotalsAddUp
<1> DEFINE S == Resting(t, r)'
           R == Resting(t, r)
<1>6. S = R \ {i}
  BY <1>2 DEF Resting
<1>5. IsFiniteSet(R) /\ R \subseteq Id /\ IsFiniteSet(S) /\ r \in levels[t] /\ r \in Price /\ p \in Price
  <2>1. IsFiniteSet(R) /\ R \subseteq Id
    BY RestingFinite
  <2>2. r \in levels[t] /\ r \in Price /\ p \in Price
    BY <1>4 DEF IInv, TypeOK
  <2>3. IsFiniteSet(S)
    BY <1>6, <2>1, FS_RemoveElement
  <2> QED
    BY <2>1, <2>2, <2>3
<1>7. \A j \in S : Left[j] = Left'[j]
  BY <1>2, <1>5, <1>6 DEF Resting, Left, Remaining, i
<1>8. total[t][r] = SumOver(Left, R)
  BY <1>5 DEF TotalsAddUp
<1>9. \A j \in R : Left[j] \in Int
  BY <1>5, LeftType
<1>10. Left[i] = Remaining(i)
  BY <1>1, LeftType DEF IInv, TypeOK
<1>11. CASE t = s /\ r = p
  <2>1. total'[t][r] = total[t][r] - Left[i]
    BY <1>2, <1>5, <1>10, <1>11 DEF IInv, TypeOK
  <2>2. i \in R
    BY <1>1, <1>11
  <2> HIDE DEF S, R
  <2>3. SumOver(Left, R) = Left[i] + SumOver(Left, S)
    BY <1>5, <1>6, <1>9, <2>2, SumTakeOut
  <2>4. SumOver(Left, S) = SumOver(Left', S) /\ SumOver(Left, S) \in Int
    BY <1>5, <1>6, <1>7, <1>9, SumCongruence, SumType
  <2>5. Left[i] \in Int
    BY <1>9, <2>2
  <2>6. total'[t][r] = SumOver(Left', S)
    BY <1>8, <2>1, <2>3, <2>4, <2>5
  <2> QED
    BY <2>6 DEF S
<1>12. CASE t # s \/ r # p
  <2>1. total'[t][r] = total[t][r]
    BY <1>2, <1>5, <1>12 DEF IInv, TypeOK
  <2>2. S = R
    BY <1>1, <1>6, <1>12 DEF Resting
  <2> HIDE DEF S, R
  <2>3. SumOver(Left, S) = SumOver(Left', S)
    BY <1>5, <1>7, SumCongruence
  <2>4. total'[t][r] = SumOver(Left', S)
    BY <1>8, <2>1, <2>2, <2>3
  <2> QED
    BY <2>4 DEF S
<1> QED
  BY <1>11, <1>12

\* An order comes to rest and its level gains what it has left.
LEMMA TotalsGain ==
  ASSUME IInv, IInv', TotalsAddUp, NEW i \in Id, i \notin orderMap,
         NEW o, order'[i] = o, NEW left, PushBack(i, o, left), Left'[i] = left,
         \A j \in orderMap : order'[j] = order[j] /\ filled'[j] = filled[j]
  PROVE  TotalsAddUp'
<1> DEFINE s == o.side
           p == o.price
<1>1. i \in orderMap' /\ s \in Side /\ p \in levels'[s] /\ p \in Price
  BY DEF PushBack, IInv, TypeOK, BookConsistent, MapListed, Order
<1>2. /\ orderMap' = orderMap \cup {i}
      /\ total' = [total EXCEPT ![s][p] = (IF p \in levels[s] THEN @ ELSE 0) + left]
      /\ levels' = [levels EXCEPT ![s] = @ \cup {p}]
  BY DEF PushBack
<1>3. order'[i].side = s /\ order'[i].price = p
  OBVIOUS
<1> HIDE DEF s, p
<1> SUFFICES ASSUME NEW t \in Side, NEW r \in levels'[t]
             PROVE  total'[t][r] = SumOver(Left', Resting(t, r)')
  BY DEF TotalsAddUp
<1> DEFINE S == Resting(t, r)'
           R == Resting(t, r)
<1>4. R \subseteq Id /\ IsFiniteSet(R) /\ r \in Price /\ i \notin R
  <2>1. r \in Price /\ i \notin R
    BY DEF Resting, IInv, TypeOK
  <2> QED
    BY <2>1, RestingFinite
<1>5. \A j \in R : Left[j] = Left'[j] /\ Left'[j] \in Int
  <2>1. \A j \in R : Left[j] = Left'[j]
    BY <1>4 DEF Resting, Left, Remaining
  <2> QED
    BY <2>1, <1>4, LeftTypeNext
<1>6. left \in Int
  BY LeftTypeNext
<1>7. CASE t = s /\ r = p
  <2>1. S = R \cup {i}
    BY <1>2, <1>3, <1>7 DEF Resting
  <2>2. total'[t][r] = (IF r \in levels[t] THEN total[t][r] ELSE 0) + left
    BY <1>1, <1>2, <1>4, <1>7 DEF IInv, TypeOK
  <2>3. (IF r \in levels[t] THEN total[t][r] ELSE 0) = SumOver(Left, R)
    <3>1. r \notin levels[t] => R = {}
      BY NoLevelNoOrder
    <3> HIDE DEF R
    <3>2. SumOver(Left, {}) = 0
      BY SumEmpty
    <3> QED
      BY <3>1, <3>2 DEF TotalsAddUp, R
  <2> HIDE DEF S, R
  <2>4. SumOver(Left, R) = SumOver(Left', R)
    BY <1>4, <1>5, SumCongruence
  <2>5. SumOver(Left', R \cup {i}) = SumOver(Left', R) + Left'[i]
    <3>1. \A j \in R \cup {i} : Left'[j] \in Int
      BY <1>4, LeftTypeNext
    <3> QED
      BY <1>4, <3>1, SumAdd
  <2>6. total'[t][r] = SumOver(Left', S)
    BY <2>1, <2>2, <2>3, <2>4, <2>5
  <2> QED
    BY <2>6 DEF S
<1>8. CASE t # s \/ r # p
  <2>1. S = R
    BY <1>2, <1>3, <1>8 DEF Resting
  <2>2. total'[t][r] = total[t][r] /\ r \in levels[t]
    <3>1. /\ total \in [Side -> [Price -> Int]] /\ levels \in [Side -> SUBSET Price]
          /\ r \in Price /\ s \in Side /\ p \in Price
      BY <1>1, <1>4 DEF IInv, TypeOK
    <3> HIDE DEF S, R
    <3>2. total'[t][r] = total[t][r]
      BY <1>2, <1>8, <3>1
    <3>3. r \in levels[t]
      BY <1>2, <1>8, <3>1
    <3> QED
      BY <3>2, <3>3
  <2>3. total[t][r] = SumOver(Left, R)
    BY <2>2 DEF TotalsAddUp
  <2> HIDE DEF S, R
  <2>4. SumOver(Left, R) = SumOver(Left', R)
    BY <1>4, <1>5, SumCongruence
  <2>5. total'[t][r] = SumOver(Left', S)
    BY <2>1, <2>2, <2>3, <2>4
  <2> QED
    BY <2>5 DEF S
<1> QED
  BY <1>7, <1>8

\* A maker is filled in part: it and its level lose the same.
LEMMA TotalsShrink ==
  ASSUME IInv, IInv', TotalsAddUp, UNCHANGED <<order, levels, orderMap>>,
         NEW s \in Side, NEW p \in levels[s], NEW i \in Resting(s, p), NEW less,
         total' = [total EXCEPT ![s][p] = @ - less], Left'[i] = Left[i] - less, less \in Int,
         \A j \in orderMap \ {i} : filled'[j] = filled[j]
  PROVE  TotalsAddUp'
<1> SUFFICES ASSUME NEW t \in Side, NEW r \in levels[t]
             PROVE  total'[t][r] = SumOver(Left', Resting(t, r)')
  BY DEF TotalsAddUp
<1> DEFINE R == Resting(t, r)
<1>1. R \subseteq Id /\ R \subseteq orderMap /\ IsFiniteSet(R) /\ r \in Price /\ p \in Price
  <2>1. R \subseteq orderMap /\ r \in Price /\ p \in Price
    BY DEF Resting, IInv, TypeOK
  <2> QED
    BY <2>1, RestingFinite
<1>2. Resting(t, r)' = R
  BY DEF Resting
<1>3. \A j \in R : Left[j] \in Int /\ Left'[j] \in Int /\ (j # i => Left'[j] = Left[j])
  <2>1. \A j \in R : Left[j] \in Int /\ Left'[j] \in Int
    BY <1>1, LeftType, LeftTypeNext
  <2>2. \A j \in R : j # i => Left'[j] = Left[j]
    BY <1>1 DEF Left, Remaining
  <2> QED
    BY <2>1, <2>2
<1>4. total[t][r] = SumOver(Left, R)
  BY DEF TotalsAddUp
<1>5. CASE t = s /\ r = p
  <2>1. total'[t][r] = total[t][r] - less /\ i \in R
    BY <1>1, <1>5 DEF IInv, TypeOK
  <2> HIDE DEF R
  <2>2. SumOver(Left', R) = SumOver(Left, R) - Left[i] + Left'[i] /\ SumOver(Left, R) \in Int
    BY <1>1, <1>3, <2>1, SumChange, SumType
  <2> QED
    BY <1>2, <1>3, <1>4, <2>1, <2>2
<1>6. CASE t # s \/ r # p
  <2>1. total'[t][r] = total[t][r] /\ i \notin R
    BY <1>1, <1>6 DEF IInv, TypeOK, Resting
  <2> HIDE DEF R
  <2>2. SumOver(Left, R) = SumOver(Left', R)
    BY <1>1, <1>3, <2>1, SumCongruence
  <2> QED
    BY <1>2, <1>4, <2>1, <2>2
<1> QED
  BY <1>5, <1>6

LEMMA ArriveKeeps ==
  ASSUME IInv, NEW o, NEW st, Arrive(o, st)
  PROVE  /\ arrived + 1 \in Id /\ arrived + 1 \notin orderMap
         /\ order'[arrived + 1] = o
         /\ filled[arrived + 1] = 0
         /\ \A j \in Id : j # arrived + 1 => order'[j] = order[j]
<1>1. arrived \in Nat /\ arrived + 1 \in Id
  BY MaxOrdersAssumption DEF Arrive, IInv, TypeOK, Id
<1>2. arrived + 1 \notin orderMap
  BY <1>1 DEF IInv, BookConsistent, MapListed
<1> QED
  BY <1>1, <1>2 DEF Arrive, IInv, TypeOK, FreeIds

LEMMA FillTotals ==
  ASSUME IInv, IInv', TotalsAddUp, Fill PROVE TotalsAddUp'
<1>1. taker # None /\ taker \in Id /\ taker \notin orderMap /\ UNCHANGED <<order, taker>>
  BY DEF Fill, IInv, TypeOK, BookConsistent
<1>2. PICK p \in Price, m \in Id :
        /\ IsFront(Opp, p, m)
        /\ LET q == TradeQty(m)
               reduced == IF m \in orderMap THEN q ELSE 0
               done == Remaining(m) = reduced
           IN  /\ filled' = [filled EXCEPT ![m] = @ + reduced, ![taker] = @ + q]
               /\ IF done
                  THEN Unlink(Opp, p, 1, reduced)
                  ELSE /\ total' = [total EXCEPT ![Opp][p] = @ - reduced]
                       /\ UNCHANGED <<levels, queue, orderMap>>
  BY DEF Fill
<1>3. /\ Opp \in Side /\ p \in levels[Opp] /\ 1 \in 1..Len(queue[Opp][p])
      /\ queue[Opp][p][1] = m /\ m \in orderMap /\ m # taker /\ order[m].side = Opp
      /\ order[m].price = p
  BY <1>1, <1>2, FrontProperties
<1> DEFINE q == TradeQty(m)
<1>4. /\ filled' = [filled EXCEPT ![m] = @ + q, ![taker] = @ + q]
      /\ IF Remaining(m) = q
         THEN Unlink(Opp, p, 1, q)
         ELSE /\ total' = [total EXCEPT ![Opp][p] = @ - q]
              /\ UNCHANGED <<levels, orderMap>>
  BY <1>2, <1>3
<1>5. q \in Int
  <2>1. Remaining(m) \in Int /\ Remaining(taker) \in Int
    BY <1>1, LeftType
  <2> QED
    BY <2>1 DEF TradeQty
<1> HIDE DEF q
<1>6. filled'[m] = filled[m] + q /\ \A j \in orderMap \ {m} : filled'[j] = filled[j]
  BY <1>1, <1>3, <1>4 DEF IInv, TypeOK
<1>7. CASE Remaining(m) = q
  <2>1. Unlink(Opp, p, 1, Remaining(queue[Opp][p][1]))
    BY <1>3, <1>4, <1>7
  <2> QED
    BY <1>1, <1>3, <1>6, <2>1, TotalsLose
<1>8. CASE Remaining(m) # q
  <2>1. m \in Resting(Opp, p)
    BY <1>3 DEF Resting
  <2>2. Left'[m] = Left[m] - q
    BY <1>1, <1>5, <1>6 DEF Left, Remaining, IInv, TypeOK, Order
  <2>3. total' = [total EXCEPT ![Opp][p] = @ - q] /\ UNCHANGED <<order, levels, orderMap>>
    BY <1>1, <1>4, <1>8
  <2> HIDE DEF Left
  <2> QED
    BY <1>3, <1>5, <1>6, <2>1, <2>2, <2>3, TotalsShrink
<1> QED
  BY <1>7, <1>8

LEMMA NextTotals ==
  ASSUME IInv, IInv', TotalsAddUp, [Next]_vars PROVE TotalsAddUp'
<1>1. ASSUME NEW o, Submit(o) PROVE TotalsAddUp'
  <2>1. Arrive(o, "open") /\ UNCHANGED <<levels, total, orderMap, filled>>
    BY <1>1 DEF Submit, book
  <2>2. \A j \in orderMap : order'[j] = order[j] /\ filled'[j] = filled[j]
    BY <2>1, ArriveKeeps DEF IInv, TypeOK
  <2> QED
    BY <2>1, <2>2, TotalsStay
<1>2. ASSUME NEW o, AddOrder(o), o.qty \in Nat PROVE TotalsAddUp'
  <2> DEFINE i == arrived + 1
  <2>1. Arrive(o, "open") /\ PushBack(i, o, o.qty) /\ filled' = filled
    BY <1>2 DEF AddOrder
  <2>2. /\ i \in Id /\ i \notin orderMap /\ order'[i] = o /\ filled[i] = 0
        /\ \A j \in orderMap : order'[j] = order[j] /\ filled'[j] = filled[j]
    BY <2>1, ArriveKeeps DEF IInv, TypeOK
  <2> HIDE DEF i
  <2>3. Left'[i] = o.qty
    BY <1>2, <2>1, <2>2 DEF Left, Remaining
  <2> QED
    BY <2>1, <2>2, <2>3, TotalsGain
<1>3. ASSUME NEW i \in Id, CancelOrder(i) PROVE TotalsAddUp'
  <2>1. UNCHANGED <<order, filled>>
    BY <1>3 DEF CancelOrder
  <2>2. CASE i \in orderMap
    <3> DEFINE s == order[i].side
               p == order[i].price
    <3>1. s \in Side /\ p \in levels[s]
      BY <2>2 DEF IInv, BookConsistent, MapListed, TypeOK, Order
    <3>2. PICK k \in 1..Len(queue[s][p]) : queue[s][p][k] = i /\ Unlink(s, p, k, Remaining(i))
      BY <1>3, <2>2, <3>1 DEF CancelOrder
    <3>3. Unlink(s, p, k, Remaining(queue[s][p][k]))
      BY <3>2
    <3> QED
      BY <2>1, <3>1, <3>3, TotalsLose
  <2>3. CASE i \notin orderMap
    BY <1>3, <2>1, <2>3, TotalsStay DEF CancelOrder, Forget
  <2> QED
    BY <2>2, <2>3
<1>4. CASE Fill
  BY <1>4, FillTotals
<1>5. CASE SkipExhausted
  <2>1. taker # None /\ UNCHANGED <<order, filled>>
    BY <1>5 DEF SkipExhausted
  <2>2. PICK p \in Price, m \in Id : IsFront(Opp, p, m) /\ Unlink(Opp, p, 1, Remaining(m))
    BY <1>5 DEF SkipExhausted
  <2>3. Opp \in Side /\ p \in levels[Opp] /\ 1 \in 1..Len(queue[Opp][p]) /\ queue[Opp][p][1] = m
    BY <2>1, <2>2, FrontProperties
  <2>4. Unlink(Opp, p, 1, Remaining(queue[Opp][p][1]))
    BY <2>2, <2>3
  <2> QED
    BY <2>1, <2>3, <2>4, TotalsLose
<1>6. CASE FinishMarket
  BY <1>6, TotalsStay DEF FinishMarket, book
<1>7. CASE FinishLimit
  <2>1. /\ taker \in Id /\ taker \notin orderMap /\ UNCHANGED <<order, filled>>
        /\ IF Remaining(taker) <= 0 THEN UNCHANGED book
           ELSE PushBack(taker, order[taker], Remaining(taker))
    BY <1>7 DEF FinishLimit, IInv, TypeOK, BookConsistent
  <2>2. CASE Remaining(taker) <= 0
    BY <2>1, <2>2, TotalsStay DEF book
  <2>3. CASE ~ (Remaining(taker) <= 0)
    <3>1. Left'[taker] = Remaining(taker) /\ order'[taker] = order[taker]
      BY <2>1 DEF Left, Remaining
    <3> HIDE DEF Left
    <3> QED
      BY <2>1, <2>3, <3>1, TotalsGain
  <2> QED
    BY <2>2, <2>3
<1>8. CASE UNCHANGED vars
  BY <1>8, TotalsStay DEF vars
<1>9. \A s \in Side, p \in Price, q \in AddQty : Limit(s, p, q).qty \in Nat
  BY AddQtyAssumption DEF Limit
<1> QED
  BY <1>1, <1>2, <1>3, <1>4, <1>5, <1>6, <1>7, <1>8, <1>9 DEF Next, Loop

\* The total of every level is what its orders have left.
THEOREM TotalsAreRight == Spec => []LevelTotals
<1>1. Init => TotalsAddUp
  BY DEF Init, TotalsAddUp
<1>2. IInv /\ IInv' /\ TotalsAddUp /\ [Next]_vars => TotalsAddUp'
  BY NextTotals
<1>3. IInv /\ TotalsAddUp => LevelTotals
  BY TotalsAreSums
<1> QED
  BY <1>1, <1>2, <1>3, Invariance, PTL DEF Spec

\* The orders of a side, and the quantities of the trades of a call.
OfSide(s) == {j \in Id : order[j].side = s}
TradeQtys == [k \in DOMAIN trades |-> trades[k].qty]

SidesBalance == SumOver(filled, OfSide("buy")) = SumOver(filled, OfSide("sell"))

TradesAccount ==
  IF taker = None THEN trades = <<>>
  ELSE filled[taker] = SumOver(TradeQtys, 1..Len(trades))

Balance == SidesBalance /\ TradesAccount

LEMMA SideFinite == \A s : OfSide(s) \subseteq Id /\ IsFiniteSet(OfSide(s))
<1>1. \A s : OfSide(s) \in SUBSET Id
  BY DEF OfSide
<1> QED
  BY <1>1, IdFinite, FS_Subset

LEMMA BalanceIsFillsBalance ==
  ASSUME IInv, Balance PROVE FillsBalance
<1>1. ASSUME NEW s
      PROVE  SumOf([i \in {j \in Id : order[j].side = s} |-> filled[i]]) = SumOver(filled, OfSide(s))
  <2> DEFINE S == OfSide(s)
             f == [i \in S |-> filled[i]]
  <2>1. SumOf(f) = SumOver(f, S)
    <3>1. DOMAIN f = S
      OBVIOUS
    <3> HIDE DEF f, S
    <3> QED
      BY <3>1, SumOfIsSumOver
  <2>2. SumOver(f, S) = SumOver(filled, S)
    <3>1. IsFiniteSet(S) /\ \A i \in S : f[i] = filled[i]
      BY SideFinite
    <3> HIDE DEF f, S
    <3> QED
      BY <3>1, SumCongruence
  <2> QED
    BY <2>1, <2>2 DEF OfSide
<1>2. ASSUME taker # None
      PROVE  filled[taker] = SumOf([k \in DOMAIN trades |-> trades[k].qty])
  <2>1. DOMAIN TradeQtys = 1..Len(trades)
    BY LenProperties DEF TradeQtys, IInv, TypeOK
  <2>2. SumOf(TradeQtys) = SumOver(TradeQtys, 1..Len(trades))
    BY <2>1, SumOfIsSumOver
  <2> QED
    BY <1>2, <2>2 DEF Balance, TradesAccount, TradeQtys
<1>3. SumOf([i \in {j \in Id : order[j].side = "buy"} |-> filled[i]])
        = SumOf([i \in {j \in Id : order[j].side = "sell"} |-> filled[i]])
  BY <1>1 DEF Balance, SidesBalance
<1> QED
  BY <1>2, <1>3 DEF FillsBalance

LEMMA FilledType == ASSUME IInv PROVE \A i \in Id : filled[i] \in Int
  BY DEF IInv, TypeOK

\* An order that arrives has filled nothing yet, whatever side it joins.
LEMMA ArriveBalances ==
  ASSUME IInv, SidesBalance, NEW o \in Order, NEW st, Arrive(o, st), filled' = filled
  PROVE  SidesBalance'
<1> DEFINE n == arrived + 1
<1>1. /\ n \in Id /\ order'[n] = o /\ filled[n] = 0
      /\ \A j \in Id : j # n => order'[j] = order[j]
  BY ArriveKeeps
<1>2. order[n].side = "buy"
  BY <1>1, MaxOrdersAssumption DEF IInv, TypeOK, FreeIds, Zero, Id
<1>3. o.side \in {"buy", "sell"}
  BY DEF Order, Side
<1> DEFINE B == OfSide("buy")
           S == OfSide("sell")
<1>4. CASE o.side = "buy"
  <2>1. OfSide("buy")' = B /\ OfSide("sell")' = S
    BY <1>1, <1>2, <1>4 DEF OfSide
  <2> QED
    BY <2>1 DEF SidesBalance
<1>5. CASE o.side = "sell"
  <2>1. OfSide("buy")' = B \ {n} /\ OfSide("sell")' = S \cup {n} /\ n \in B /\ n \notin S
    BY <1>1, <1>2, <1>5 DEF OfSide
  <2>2. /\ IsFiniteSet(B) /\ IsFiniteSet(S) /\ IsFiniteSet(B \ {n})
        /\ \A j \in B \cup S \cup {n} : filled[j] \in Int
    BY <1>1, SideFinite, FilledType, FS_RemoveElement
  <2>3. SumOver(filled, B) = SumOver(filled, S)
    BY DEF SidesBalance
  <2> HIDE DEF B, S, n
  <2>4. SumOver(filled, B) = filled[n] + SumOver(filled, B \ {n})
    BY <2>1, <2>2, SumTakeOut
  <2>5. SumOver(filled, S \cup {n}) = SumOver(filled, S) + filled[n]
    BY <2>1, <2>2, SumAdd
  <2>6. SumOver(filled, B \ {n}) \in Int /\ SumOver(filled, S) \in Int
    BY <2>2, SumType
  <2> QED
    BY <1>1, <2>1, <2>3, <2>4, <2>5, <2>6 DEF SidesBalance, n
<1> QED
  BY <1>3, <1>4, <1>5

LEMMA FillBalances ==
  ASSUME IInv, IInv', Balance, Fill PROVE Balance'
<1>1. /\ taker # None /\ taker \in Id /\ UNCHANGED <<order, taker>>
      /\ order[taker].side \in Side /\ Opp # order[taker].side
  BY DEF Fill, IInv, TypeOK, Order, Opp, Opposite, Side
<1>2. PICK p \in Price, m \in Id :
        /\ IsFront(Opp, p, m)
        /\ LET q == TradeQty(m)
               reduced == IF m \in orderMap THEN q ELSE 0
           IN  filled' = [filled EXCEPT ![m] = @ + reduced, ![taker] = @ + q]
        /\ trades' = Append(trades, CreateTrade(m, TradeQty(m)))
  BY DEF Fill
<1>3. Opp \in Side /\ m \in orderMap /\ m # taker /\ order[m].side = Opp
  BY <1>1, <1>2, FrontProperties
<1> DEFINE q == TradeQty(m)
<1>4. filled' = [filled EXCEPT ![m] = @ + q, ![taker] = @ + q]
  BY <1>2, <1>3
<1>5. q \in Int
  <2>1. Remaining(m) \in Int /\ Remaining(taker) \in Int
    BY <1>1, LeftType
  <2> QED
    BY <2>1 DEF TradeQty
<1>6. CreateTrade(m, q).qty = q
  BY DEF CreateTrade
<1> DEFINE t == CreateTrade(m, q)
<1> HIDE DEF q, t
<1>7. /\ filled'[m] = filled[m] + q /\ filled'[taker] = filled[taker] + q
      /\ \A j \in Id : j # m /\ j # taker => filled'[j] = filled[j]
  BY <1>1, <1>3, <1>4 DEF IInv, TypeOK
<1>8. ASSUME NEW s \in Side, NEW y \in OfSide(s), y \in {m, taker},
             \A j \in OfSide(s) \ {y} : j # m /\ j # taker
      PROVE  SumOver(filled', OfSide(s)) = SumOver(filled, OfSide(s)) + q
  <2> DEFINE S == OfSide(s)
  <2>1. IsFiniteSet(S) /\ S \subseteq Id
    BY SideFinite
  <2>2. \A j \in S : filled[j] \in Int /\ filled'[j] \in Int
    BY <2>1 DEF IInv, TypeOK
  <2>3. \A j \in S \ {y} : filled[j] = filled'[j]
    BY <1>7, <1>8, <2>1
  <2>4. y \in S /\ filled'[y] = filled[y] + q
    BY <1>7, <1>8
  <2> HIDE DEF S
  <2>5. SumOver(filled', S) = SumOver(filled, S) - filled[y] + filled'[y]
    BY <2>1, <2>2, <2>3, <2>4, SumChange
  <2>6. SumOver(filled, S) \in Int
    BY <2>1, <2>2, SumType
  <2>7. SumOver(filled', S) = SumOver(filled, S) + q
    BY <1>5, <2>2, <2>4, <2>5, <2>6
  <2> QED
    BY <2>7 DEF S
<1>9. SidesBalance'
  <2>1. \A s : OfSide(s)' = OfSide(s)
    BY <1>1 DEF OfSide
  <2>2. m \in OfSide(Opp) /\ \A j \in OfSide(Opp) \ {m} : j # m /\ j # taker
    BY <1>1, <1>3 DEF OfSide
  <2> DEFINE u == order[taker].side
  <2>3. taker \in OfSide(u) /\ \A j \in OfSide(u) \ {taker} : j # m /\ j # taker
    BY <1>1, <1>3 DEF OfSide
  <2>4. SumOver(filled', OfSide(Opp)) = SumOver(filled, OfSide(Opp)) + q
    BY <1>3, <1>8, <2>2
  <2>5. SumOver(filled', OfSide(u)) = SumOver(filled, OfSide(u)) + q
    BY <1>1, <1>8, <2>3
  <2>6. {Opp, u} = {"buy", "sell"} /\ Opp # u
    BY <1>1, <1>3 DEF Side
  <2>7. SumOver(filled, OfSide(Opp)) = SumOver(filled, OfSide(u))
    BY <2>6 DEF Balance, SidesBalance
  <2> HIDE DEF u
  <2>8. SumOver(filled', OfSide(Opp)) = SumOver(filled', OfSide(u))
    BY <2>4, <2>5, <2>7
  <2> QED
    BY <2>1, <2>6, <2>8 DEF SidesBalance
<1>10. TradesAccount'
  <2>1. /\ trades \in Seq([price : Nat, qty : Nat \ {0}])
        /\ trades' \in Seq([price : Nat, qty : Nat \ {0}])
        /\ trades' = Append(trades, t)
    BY <1>2 DEF IInv, TypeOK, q, t
  <2> DEFINE n == Len(trades)
  <2>2. /\ n \in Nat /\ Len(trades') = n + 1
        /\ DOMAIN trades = 1..n /\ DOMAIN trades' = 1..(n + 1)
        /\ trades'[n + 1] = t /\ \A k \in 1..n : trades'[k] = trades[k]
    BY <2>1, LenProperties
  <2>3. /\ \A k \in 1..(n + 1) : TradeQtys'[k] = trades'[k].qty /\ trades'[k].qty \in Int
        /\ \A k \in 1..n : TradeQtys[k] = TradeQtys'[k]
    <3>1. \A k \in 1..(n + 1) : trades'[k] \in [price : Nat, qty : Nat \ {0}]
      BY <2>1, <2>2, ElementOfSeq, ZenonT(60)
    <3> HIDE DEF n
    <3> QED
      BY <2>2, <3>1 DEF TradeQtys
  <2> HIDE DEF n
  <2>4. SumOver(TradeQtys', 1..(n + 1)) = SumOver(TradeQtys, 1..n) + TradeQtys'[n + 1]
    BY <2>2, <2>3, SumAppend
  <2>5. n + 1 \in 1..(n + 1)
    BY <2>2
  <2>6. TradeQtys'[n + 1] = q
    BY <1>6, <2>2, <2>3, <2>5 DEF t
  <2>7. filled[taker] = SumOver(TradeQtys, 1..n)
    BY <1>1 DEF Balance, TradesAccount, n
  <2>8. filled'[taker] = SumOver(TradeQtys', 1..(n + 1))
    BY <1>7, <2>4, <2>6, <2>7
  <2>9. SumOver(TradeQtys, 1..Len(trades))' = SumOver(TradeQtys', 1..(n + 1))
    BY <2>2
  <2> QED
    BY <1>1, <2>8, <2>9 DEF TradesAccount
<1> QED
  BY <1>9, <1>10 DEF Balance

\* Nothing is filled and no order arrives.
LEMMA BalanceStays ==
  ASSUME Balance, UNCHANGED <<order, filled>>,
         \/ UNCHANGED <<taker, trades>>
         \/ taker' = None /\ trades' = <<>>
  PROVE  Balance'
<1>1. SidesBalance'
  <2>1. \A s : OfSide(s)' = OfSide(s)
    BY DEF OfSide
  <2> QED
    BY <2>1 DEF Balance, SidesBalance
<1>2. TradesAccount'
  <2>1. CASE UNCHANGED <<taker, trades>>
    <3>1. TradeQtys' = TradeQtys
      BY <2>1 DEF TradeQtys
    <3> HIDE DEF TradeQtys
    <3> QED
      BY <2>1, <3>1 DEF Balance, TradesAccount
  <2>2. CASE taker' = None /\ trades' = <<>>
    BY <2>2 DEF TradesAccount
  <2> QED
    BY <2>1, <2>2
<1> QED
  BY <1>1, <1>2 DEF Balance

LEMMA NextBalance ==
  ASSUME IInv, IInv', Balance, [Next]_vars PROVE Balance'
<1>1. ASSUME NEW o \in Order, Submit(o) PROVE Balance'
  <2>1. /\ Arrive(o, "open") /\ UNCHANGED <<filled, trades>>
        /\ taker = None /\ taker' = arrived + 1
    BY <1>1 DEF Submit
  <2>2. SidesBalance'
    BY <2>1, ArriveBalances DEF Balance
  <2>3. taker' # None /\ filled[taker'] = 0
    BY <2>1, ArriveKeeps DEF Id, None
  <2>4. trades' = <<>>
    BY <2>1 DEF Balance, TradesAccount
  <2>5. SumOver(TradeQtys', 1..Len(trades')) = 0
    <3>1. 1..Len(trades') = {}
      BY <2>4
    <3> QED
      BY <3>1, SumEmpty
  <2>6. SumOver(TradeQtys, 1..Len(trades))' = SumOver(TradeQtys', 1..Len(trades'))
    OBVIOUS
  <2> QED
    BY <2>1, <2>2, <2>3, <2>5, <2>6 DEF Balance, TradesAccount
<1>2. ASSUME NEW o \in Order, AddOrder(o) PROVE Balance'
  <2>1. Arrive(o, "open") /\ UNCHANGED <<filled, taker, trades>> /\ taker = None
    BY <1>2 DEF AddOrder
  <2>2. SidesBalance'
    BY <2>1, ArriveBalances DEF Balance
  <2>3. TradesAccount'
    BY <2>1 DEF Balance, TradesAccount
  <2> QED
    BY <2>2, <2>3 DEF Balance
<1>3. CASE Fill
  BY <1>3, FillBalances
<1>4. CASE \E i \in Id : CancelOrder(i)
  BY <1>4, BalanceStays DEF CancelOrder
<1>5. CASE SkipExhausted
  BY <1>5, BalanceStays DEF SkipExhausted
<1>6. CASE FinishMarket
  BY <1>6, BalanceStays DEF FinishMarket
<1>7. CASE FinishLimit
  BY <1>7, BalanceStays DEF FinishLimit
<1>8. CASE UNCHANGED vars
  BY <1>8, BalanceStays DEF vars
<1> QED
  BY <1>1, <1>2, <1>3, <1>4, <1>5, <1>6, <1>7, <1>8, OrdersTyped DEF Next, Loop

LEMMA InitBalance == Init => Balance
<1> SUFFICES ASSUME Init PROVE Balance
  OBVIOUS
<1>1. IInv
  BY InitIInv
<1> DEFINE B == OfSide("buy")
           S == OfSide("sell")
<1>2. B = Id /\ S = {} /\ \A j \in Id : filled[j] = 0
  BY DEF Init, OfSide, Zero
<1>3. SumOver(filled, {}) = 0
  BY SumEmpty
<1>4. SumOver(filled, Id) = 0
  BY <1>2, IdFinite, SumZero
<1>5. SidesBalance
  BY <1>2, <1>3, <1>4 DEF SidesBalance
<1>6. TradesAccount
  BY DEF Init, TradesAccount
<1> QED
  BY <1>5, <1>6 DEF Balance

\* What was bought is what was sold, and the trades of a call add up to what
\* it filled.
THEOREM FillsAreBalanced == Spec => []FillsBalance
<1>1. Init => Balance
  BY InitBalance
<1>2. IInv /\ IInv' /\ Balance /\ [Next]_vars => Balance'
  BY NextBalance
<1>3. IInv /\ Balance => FillsBalance
  BY BalanceIsFillsBalance
<1> QED
  BY <1>1, <1>2, <1>3, Invariance, PTL DEF Spec

-----------------------------------------------------------------------------
(***************************************************************************)
(* The market maker.  Every step of the market is a step of OrderBook or   *)
(* leaves the book alone, so what is proved of the book above holds while  *)
(* it is being requoted.                                                   *)
(***************************************************************************)

\* An id of the market maker has been given out, and never to a taker.
MineArrived == mine \subseteq 1..arrived /\ taker \notin mine

\* A refresh is for a tick that has come.
TickKnown == quoting \in {"cancel", "add"} => tick \in Tick

\* A started market has a channel; a processor at its select runs; who works on the
\* quotes is a processor not at its select, or a StopFeeder that has done waiting.
FeederKnown ==
  /\ starting \/ running => chan # 0
  /\ \A g \in Start : watched[g] # 0 => g \in alive
  /\ quoting \in {"cancel", "add"} => holder \in alive /\ watched[holder] = 0
  /\ quoting = "clear" => holder \in clearing

\* A stop that came after its StartFeeder's go statement: when it has waited no processor
\* is left, and none will come; when it has cleared the quotes their ids are forgotten.
StopInTime ==
  /\ ~ running /\ ~ late => ~ starting
  /\ ~ running /\ ~ late /\ chan \notin waiting => alive = {}
  /\ Stopped /\ ~ late => ids = <<>>

MMInv ==
  /\ IInv
  /\ MMTypeOK
  /\ MineArrived
  /\ TickKnown
  /\ FeederKnown
  /\ StopInTime
  /\ QuotesTracked

-----------------------------------------------------------------------------
(***************************************************************************)
(* Every step of the market is a step of the book.                         *)
(***************************************************************************)

LEMMA QuoteIsLimit ==
  ASSUME NEW p \in Tick, NEW k \in 1..(2 * Levels)
  PROVE  \E s \in Side, r \in Price, q \in AddQty : Quote(p, k) = Limit(s, r, q)
<1>1. Quote(p, k).price \in Price
  BY QuotesArePrices
<1>2. PICK r : \E s \in Side : Quote(p, k) = Limit(s, r, QuoteQty)
  BY DEF Quote, Side
<1>3. PICK s \in Side : Quote(p, k) = Limit(s, r, QuoteQty)
  BY <1>2
<1>4. r \in Price
  BY <1>1, <1>3 DEF Limit
<1> QED
  BY <1>3, <1>4, QuoteQtyAssumption

LEMMA CancelQuoteIsBookStep ==
  ASSUME MMInv, CancelQuote PROVE ids[at] \in Id /\ at \in 1..Len(ids) /\ CancelOrder(ids[at])
<1>1. ids \in Seq(Id) /\ at \in Nat \ {0} /\ at <= Len(ids) /\ CancelOrder(ids[at])
  BY DEF MMInv, MMTypeOK, CancelQuote
<1>2. at \in 1..Len(ids)
  BY <1>1, LenProperties
<1> QED
  BY <1>1, <1>2, ElementOfSeq

LEMMA AddQuoteIsBookStep ==
  ASSUME MMInv, AddQuote
  PROVE  \E s \in Side, r \in Price, q \in AddQty : AddOrder(Limit(s, r, q))
<1>1. tick \in Tick /\ at \in 1..(2 * Levels)
  BY LevelsAssumption DEF MMInv, MMTypeOK, TickKnown, AddQuote
<1>2. AddOrder(Quote(tick, at))
  BY DEF AddQuote
<1> QED
  BY <1>1, <1>2, QuoteIsLimit

\* The steps that leave the book and the ids of the quotes alone.
Turning ==
  \/ StartFeeder \/ StartProcessor \/ StopFeeder \/ QuotesAdded
  \/ \E g \in Start : Select(g) \/ ProcessorReturns(g) \/ AwaitProcessor(g) \/ BeginClear(g)
  \/ \E g \in Start, p \in Tick : TakeTick(g, p)

LEMMA TurningKeeps ==
  ASSUME Turning PROVE UNCHANGED <<vars, ids, mine, takers>>
<1>1. CASE StartFeeder \/ StartProcessor \/ StopFeeder \/ QuotesAdded
  BY <1>1 DEF StartFeeder, StartProcessor, StopFeeder, QuotesAdded, quoteVars
<1>2. ASSUME NEW g \in Start, Select(g) \/ ProcessorReturns(g) \/ AwaitProcessor(g) \/ BeginClear(g)
      PROVE  UNCHANGED <<vars, ids, mine, takers>>
  BY <1>2 DEF Select, ProcessorReturns, AwaitProcessor, BeginClear, quoteVars
<1>3. ASSUME NEW g \in Start, NEW p \in Tick, TakeTick(g, p)
      PROVE  UNCHANGED <<vars, ids, mine, takers>>
  BY <1>3 DEF TakeTick
<1> QED
  BY <1>1, <1>2, <1>3 DEF Turning

LEMMA BookStep ==
  ASSUME MMInv, [MMNext]_marketVars PROVE [Next]_vars
<1>1. CASE Turning
  BY <1>1, TurningKeeps DEF vars
<1>2. CASE CancelQuote
  BY <1>2, CancelQuoteIsBookStep DEF Next
<1>3. CASE QuotesCancelled
  BY <1>3 DEF QuotesCancelled
<1>4. CASE AddQuote
  BY <1>4, AddQuoteIsBookStep DEF Next
<1>5. CASE \E s \in Side, q \in SubmitQty : ProcessOrder(Market(s, q))
  BY <1>5 DEF ProcessOrder, Next
<1>6. CASE \E s \in Side, p \in Price, q \in SubmitQty : ProcessOrder(Limit(s, p, q))
  BY <1>6 DEF ProcessOrder, Next
<1>7. CASE Matching
  BY <1>7 DEF Matching, Next
<1>8. CASE UNCHANGED marketVars
  BY <1>8 DEF marketVars
<1> QED
  BY <1>1, <1>2, <1>3, <1>4, <1>5, <1>6, <1>7, <1>8 DEF MMNext, Working, Quoting, Turning

-----------------------------------------------------------------------------
(***************************************************************************)
(* The invariant of the market maker.                                      *)
(***************************************************************************)

LEMMA MMInitInv == MMInit => MMInv
<1> SUFFICES ASSUME MMInit PROVE MMInv
  OBVIOUS
<1>1. IInv
  BY InitIInv DEF MMInit
<1>2. MMTypeOK
  <2>1. running \in BOOLEAN /\ starting \in BOOLEAN /\ late \in BOOLEAN
    BY Zenon DEF MMInit
  <2>2. ids \in Seq(Id)
    BY EmptySeq DEF MMInit
  <2>3. /\ ticks \in 0..MaxTicks /\ takers \in 0..MaxTakers /\ at \in Nat \ {0}
        /\ chan \in 0..MaxStarts /\ holder \in 0..MaxStarts /\ watched \in [Start -> 0..MaxStarts]
    BY BoundsAssumption DEF MMInit
  <2> QED
    BY <2>1, <2>2, <2>3 DEF MMInit, MMTypeOK
<1>3. MineArrived /\ TickKnown /\ FeederKnown /\ QuotesTracked
  BY DEF MMInit, MineArrived, TickKnown, FeederKnown, QuotesTracked, Quotes
<1>4. StopInTime
  BY DEF MMInit, StopInTime
<1> QED
  BY <1>1, <1>2, <1>3, <1>4 DEF MMInv

\* What the steps that give no order to the book do to the orders in it.
LEMMA LoopTakesOnly ==
  ASSUME IInv, Loop
  PROVE  orderMap' \subseteq orderMap \cup {taker} /\ taker' \in {taker, None} /\ arrived' = arrived
<1>1. CASE Fill
  BY <1>1 DEF Fill, Unlink, Forget
<1>2. CASE SkipExhausted
  BY <1>2 DEF SkipExhausted, Unlink, Forget
<1>3. CASE FinishMarket
  BY <1>3 DEF FinishMarket, book
<1>4. CASE FinishLimit
  BY <1>4 DEF FinishLimit, book, PushBack
<1> QED
  BY <1>1, <1>2, <1>3, <1>4 DEF Loop

LEMMA CancelTakesOut ==
  ASSUME NEW i \in Id, CancelOrder(i), IInv
  PROVE  orderMap' = orderMap \ {i} /\ UNCHANGED <<arrived, taker>>
<1>1. CASE i \in orderMap /\ order[i].price \in levels[order[i].side]
  BY <1>1 DEF CancelOrder, Unlink, Forget
<1>2. CASE ~ (i \in orderMap /\ order[i].price \in levels[order[i].side])
  BY <1>2 DEF CancelOrder, Forget
<1> QED
  BY <1>1, <1>2

\* The market maker's part of the invariant.
MMPart == MMTypeOK /\ MineArrived /\ TickKnown /\ FeederKnown /\ StopInTime /\ QuotesTracked

\* The life of the processors, which matters to FeederKnown and StopInTime.
lifeVars == <<feederVars, clearing, quoting, holder>>

\* The steps that do not touch it keep both, when no id comes while the market is stopped.
LEMMA LifeStays ==
  ASSUME MMInv, UNCHANGED lifeVars, ids' = ids \/ alive # {}
  PROVE  FeederKnown' /\ StopInTime'
<1>1. UNCHANGED <<running, chan, starting, alive, watched, waiting, late, clearing, quoting, holder>>
  BY DEF lifeVars, feederVars
<1>2. FeederKnown'
  BY <1>1 DEF MMInv, FeederKnown
<1>3. StopInTime'
  BY <1>1 DEF MMInv, StopInTime, Stopped
<1> QED
  BY <1>2, <1>3

LEMMA CancelQuotePart ==
  ASSUME MMInv, CancelQuote PROVE MMPart'
<1>1. /\ ids[at] \in Id /\ at \in 1..Len(ids)
      /\ orderMap' = orderMap \ {ids[at]}
      /\ UNCHANGED <<arrived, taker, lifeVars, tick, ids, mine, ticks, takers>>
      /\ at' = at + 1
      /\ quoting \in {"cancel", "clear"}
  BY CancelQuoteIsBookStep, CancelTakesOut DEF CancelQuote, MMInv, lifeVars
<1>2. MMTypeOK'
  BY <1>1 DEF MMInv, MMTypeOK, lifeVars, feederVars
<1>3. MineArrived' /\ TickKnown'
  BY <1>1 DEF MMInv, MineArrived, TickKnown, lifeVars
<1>4. ASSUME NEW i \in Quotes'
      PROVE  \E k \in 1..Len(ids) : ids[k] = i /\ at + 1 <= k
  <2>1. i \in Quotes /\ i # ids[at]
    BY <1>1, <1>4 DEF Quotes
  <2>2. PICK k \in 1..Len(ids) : ids[k] = i /\ at <= k
    BY <1>1, <2>1 DEF MMInv, QuotesTracked
  <2>3. k # at /\ k \in Int /\ at \in Int
    BY <1>1, <2>1, <2>2
  <2> QED
    BY <2>2, <2>3
<1>5. QuotesTracked'
  BY <1>1, <1>4 DEF QuotesTracked
<1>6. FeederKnown' /\ StopInTime'
  BY <1>1, LifeStays
<1> QED
  BY <1>2, <1>3, <1>5, <1>6 DEF MMPart

LEMMA QuotesCancelledPart ==
  ASSUME MMInv, QuotesCancelled PROVE MMPart'
<1>1. /\ UNCHANGED <<vars, feederVars, tick, mine, ticks, takers>>
      /\ quoting \in {"cancel", "clear"} /\ at > Len(ids)
      /\ ids' = <<>> /\ at' = 1
  BY DEF QuotesCancelled, Forgotten
<1>2. \/ quoting = "cancel" /\ quoting' = "add" /\ UNCHANGED <<holder, clearing>>
      \/ quoting = "clear" /\ quoting' = "free" /\ holder' = 0 /\ clearing' = clearing \ {holder}
  BY DEF QuotesCancelled
<1>3. UNCHANGED <<running, chan, starting, alive, watched, waiting, late>>
  BY <1>1 DEF feederVars
<1>4. Len(ids) \in Nat /\ at \in Nat
  BY LenProperties DEF MMInv, MMTypeOK
<1>5. Quotes = {}
  BY <1>1, <1>4 DEF MMInv, QuotesTracked
<1>6. MMTypeOK'
  BY <1>1, <1>2, <1>3, EmptySeq, BoundsAssumption DEF MMInv, MMTypeOK
<1>7. MineArrived' /\ QuotesTracked'
  BY <1>1, <1>5 DEF MMInv, MineArrived, QuotesTracked, Quotes, vars
<1>8. TickKnown' /\ FeederKnown'
  BY <1>1, <1>2, <1>3 DEF MMInv, TickKnown, FeederKnown
<1>9. StopInTime'
  BY <1>1, <1>3 DEF MMInv, StopInTime
<1> QED
  BY <1>6, <1>7, <1>8, <1>9 DEF MMPart

LEMMA AddQuotePart ==
  ASSUME MMInv, AddQuote PROVE MMPart'
<1> DEFINE n == arrived + 1
<1>1. /\ quoting = "add"
      /\ taker = None /\ UNCHANGED taker
      /\ arrived < MaxOrders /\ arrived' = n
      /\ orderMap' = orderMap \cup {n}
      /\ ids' = Append(ids, n)
      /\ mine' = mine \cup {n}
      /\ at' = at + 1
      /\ UNCHANGED <<lifeVars, tick, ticks, takers>>
  BY DEF AddQuote, AddOrder, Arrive, PushBack, Remembered, lifeVars
<1>2. ids \in Seq(Id) /\ at \in Nat /\ arrived \in Nat /\ MaxOrders \in Nat /\ n \in Id
  BY <1>1, MaxOrdersAssumption DEF MMInv, MMTypeOK, IInv, TypeOK, Id
<1>3. /\ ids' \in Seq(Id) /\ Len(ids') = Len(ids) + 1 /\ Len(ids) \in Nat
      /\ \A k \in 1..Len(ids) : ids'[k] = ids[k]
      /\ ids'[Len(ids) + 1] = n
  BY <1>1, <1>2, AppendProperties, LenProperties
<1>4. MMTypeOK'
  BY <1>1, <1>2, <1>3 DEF MMInv, MMTypeOK, lifeVars, feederVars
<1>5. MineArrived'
  BY <1>1, <1>2 DEF MMInv, MineArrived, None
<1>6. TickKnown'
  BY <1>1 DEF MMInv, TickKnown, lifeVars
<1>7. ASSUME NEW i \in Quotes'
      PROVE  \E k \in 1..Len(ids') : ids'[k] = i
  <2>1. CASE i = n
    BY <1>3, <2>1
  <2>2. CASE i # n
    <3>1. i \in Quotes
      BY <1>1, <1>7, <2>2 DEF Quotes
    <3>2. PICK k \in 1..Len(ids) : ids[k] = i
      BY <3>1 DEF MMInv, QuotesTracked
    <3> QED
      BY <1>3, <3>2
  <2> QED
    BY <2>1, <2>2
<1>8. QuotesTracked'
  BY <1>1, <1>7 DEF QuotesTracked, lifeVars
<1>9. FeederKnown' /\ StopInTime'
  BY <1>1, LifeStays DEF MMInv, FeederKnown
<1> QED
  BY <1>4, <1>5, <1>6, <1>8, <1>9 DEF MMPart

LEMMA ProcessOrderPart ==
  ASSUME MMInv, NEW o, ProcessOrder(o) PROVE MMPart'
<1>1. /\ takers < MaxTakers /\ takers' = takers + 1
      /\ arrived' = arrived + 1 /\ taker' = arrived + 1
      /\ UNCHANGED <<orderMap, lifeVars, at, tick, ids, mine, ticks>>
  BY DEF ProcessOrder, Submit, Arrive, book, lifeVars, quoteVars
<1>2. arrived \in Nat
  BY MaxOrdersAssumption DEF MMInv, IInv, TypeOK
<1>3. MMTypeOK'
  BY <1>1, BoundsAssumption DEF MMInv, MMTypeOK, lifeVars, feederVars
<1>4. MineArrived'
  BY <1>1, <1>2 DEF MMInv, MineArrived
<1>5. TickKnown' /\ QuotesTracked'
  BY <1>1 DEF MMInv, TickKnown, QuotesTracked, Quotes, lifeVars
<1>6. FeederKnown' /\ StopInTime'
  BY <1>1, LifeStays
<1> QED
  BY <1>3, <1>4, <1>5, <1>6 DEF MMPart

LEMMA MatchingPart ==
  ASSUME MMInv, Matching PROVE MMPart'
<1>1. /\ orderMap' \subseteq orderMap \cup {taker}
      /\ taker' \in {taker, None}
      /\ arrived' = arrived
      /\ UNCHANGED <<lifeVars, at, tick, ids, mine, ticks, takers>>
  BY LoopTakesOnly DEF Matching, mmVars, lifeVars, quoteVars, MMInv
<1>2. arrived \in Nat
  BY MaxOrdersAssumption DEF MMInv, IInv, TypeOK
<1>3. MMTypeOK' /\ TickKnown'
  BY <1>1 DEF MMInv, MMTypeOK, TickKnown, lifeVars, feederVars
<1>4. MineArrived'
  BY <1>1, <1>2 DEF MMInv, MineArrived, None
<1>5. Quotes' \subseteq Quotes
  BY <1>1 DEF MMInv, MineArrived, Quotes
<1>6. QuotesTracked'
  BY <1>1, <1>5 DEF MMInv, QuotesTracked, lifeVars
<1>7. FeederKnown' /\ StopInTime'
  BY <1>1, LifeStays
<1> QED
  BY <1>3, <1>4, <1>6, <1>7 DEF MMPart

\* What is left to show of a step of Turning.
TurnType ==
  /\ running \in BOOLEAN /\ starting \in BOOLEAN /\ late \in BOOLEAN
  /\ chan \in 0..MaxStarts
  /\ alive \subseteq Start /\ waiting \subseteq Start /\ clearing \subseteq Start
  /\ watched \in [Start -> 0..MaxStarts]
  /\ quoting \in {"free", "cancel", "add", "clear"}
  /\ holder \in 0..MaxStarts
  /\ at \in Nat \ {0}
  /\ tick \in Tick \cup {0}
  /\ ticks \in 0..MaxTicks

TurnGoal == TurnType /\ TickKnown /\ FeederKnown /\ StopInTime

\* A refresh or a clearing begins at the first id; none is begun in the midst of one.
Restarted == at = 1 \/ quoting \notin {"cancel", "clear"}

LEMMA StartFeederTurn ==
  ASSUME MMInv, StartFeeder PROVE TurnGoal' /\ Restarted'
<1>1. /\ quoting = "free" /\ ~ running /\ chan < MaxStarts
      /\ running' = TRUE /\ chan' = chan + 1 /\ starting' = TRUE /\ late' = FALSE
      /\ UNCHANGED <<alive, watched, waiting, clearing, quoting, holder, at, tick, ids, ticks>>
  BY DEF StartFeeder, quoteVars
<1>2. TurnType'
  <2>1. chan' \in 0..MaxStarts
    BY <1>1, BoundsAssumption DEF MMInv, MMTypeOK
  <2> QED
    BY <1>1, <2>1 DEF MMInv, MMTypeOK, TurnType
<1>3. chan' # 0
  BY <1>1 DEF MMInv, MMTypeOK
<1>4. TickKnown' /\ FeederKnown' /\ Restarted'
  BY <1>1, <1>3 DEF MMInv, TickKnown, FeederKnown, Restarted
<1>5. StopInTime'
  BY <1>1 DEF StopInTime, Stopped
<1> QED
  BY <1>2, <1>4, <1>5 DEF TurnGoal

LEMMA StartProcessorTurn ==
  ASSUME MMInv, StartProcessor
  PROVE  TurnGoal' /\ (Restarted' \/ UNCHANGED <<at, quoting>>)
<1>1. /\ starting /\ starting' = FALSE /\ alive' = alive \cup {chan}
      /\ UNCHANGED <<running, chan, watched, waiting, late, clearing, quoting, holder, at, tick,
                     ids, ticks>>
  BY DEF StartProcessor, quoteVars
<1>2. chan \in Start
  BY <1>1, BoundsAssumption DEF MMInv, MMTypeOK, FeederKnown, Start
<1>3. TurnType'
  BY <1>1, <1>2 DEF MMInv, MMTypeOK, TurnType
<1>4. TickKnown' /\ FeederKnown'
  BY <1>1, <1>2 DEF MMInv, TickKnown, FeederKnown
<1>5. StopInTime'
  BY <1>1 DEF MMInv, StopInTime, Stopped
<1> QED
  BY <1>1, <1>3, <1>4, <1>5 DEF TurnGoal

LEMMA StopFeederTurn ==
  ASSUME MMInv, StopFeeder PROVE TurnGoal' /\ Restarted'
<1>1. /\ quoting = "free" /\ running /\ running' = FALSE
      /\ waiting' = waiting \cup {chan} /\ late' = starting
      /\ UNCHANGED <<chan, starting, alive, watched, clearing, quoting, holder, at, tick, ids, ticks>>
  BY DEF StopFeeder, quoteVars
<1>2. chan \in Start
  BY <1>1, BoundsAssumption DEF MMInv, MMTypeOK, FeederKnown, Start
<1>3. TurnType'
  BY <1>1, <1>2 DEF MMInv, MMTypeOK, TurnType
<1>4. TickKnown' /\ FeederKnown' /\ Restarted'
  BY <1>1 DEF MMInv, TickKnown, FeederKnown, Restarted
<1>5. StopInTime'
  BY <1>1 DEF StopInTime, Stopped
<1> QED
  BY <1>3, <1>4, <1>5 DEF TurnGoal

LEMMA SelectTurn ==
  ASSUME MMInv, NEW g \in Start, Select(g)
  PROVE  TurnGoal' /\ UNCHANGED <<at, quoting>>
<1>1. /\ g \in alive /\ ~ (quoting \in {"cancel", "add"} /\ holder = g)
      /\ watched' = [watched EXCEPT ![g] = chan]
      /\ UNCHANGED <<running, chan, starting, alive, waiting, late, clearing, quoting, holder,
                     at, tick, ids, ticks>>
  BY DEF Select, quoteVars
<1>2. TurnType'
  BY <1>1 DEF MMInv, MMTypeOK, TurnType
<1>3. \A h \in Start : h # g => watched'[h] = watched[h]
  BY <1>1 DEF MMInv, MMTypeOK
<1>4. quoting \in {"cancel", "add"} => holder \in Start /\ holder # g
  BY <1>1 DEF MMInv, MMTypeOK, FeederKnown
<1>5. TickKnown' /\ FeederKnown'
  BY <1>1, <1>3, <1>4 DEF MMInv, TickKnown, FeederKnown
<1>6. StopInTime'
  BY <1>1 DEF MMInv, StopInTime, Stopped
<1> QED
  BY <1>1, <1>2, <1>5, <1>6 DEF TurnGoal

LEMMA TakeTickTurn ==
  ASSUME MMInv, NEW g \in Start, NEW p \in Tick, TakeTick(g, p)
  PROVE  TurnGoal' /\ Restarted'
<1>1. /\ watched[g] # 0 /\ quoting = "free" /\ ticks < MaxTicks /\ ticks' = ticks + 1
      /\ tick' = p /\ watched' = [watched EXCEPT ![g] = 0]
      /\ quoting' = "cancel" /\ holder' = g /\ at' = 1
      /\ UNCHANGED <<running, chan, starting, alive, waiting, late, clearing, ids>>
  BY DEF TakeTick
<1>2. TurnType'
  BY <1>1, BoundsAssumption DEF MMInv, MMTypeOK, TurnType, Start
<1>3. watched'[g] = 0 /\ \A h \in Start : h # g => watched'[h] = watched[h]
  BY <1>1 DEF MMInv, MMTypeOK
<1>4. TickKnown' /\ FeederKnown' /\ Restarted'
  BY <1>1, <1>3 DEF MMInv, TickKnown, FeederKnown, Restarted
<1>5. StopInTime'
  BY <1>1 DEF MMInv, StopInTime, Stopped
<1> QED
  BY <1>2, <1>4, <1>5 DEF TurnGoal

LEMMA ProcessorReturnsTurn ==
  ASSUME MMInv, NEW g \in Start, ProcessorReturns(g)
  PROVE  TurnGoal' /\ UNCHANGED <<at, quoting>>
<1>1. /\ watched[g] # 0 /\ alive' = alive \ {g} /\ watched' = [watched EXCEPT ![g] = 0]
      /\ UNCHANGED <<running, chan, starting, waiting, late, clearing, quoting, holder,
                     at, tick, ids, ticks>>
  BY DEF ProcessorReturns, quoteVars
<1>2. TurnType'
  BY <1>1, BoundsAssumption DEF MMInv, MMTypeOK, TurnType
<1>3. watched'[g] = 0 /\ \A h \in Start : h # g => watched'[h] = watched[h]
  BY <1>1 DEF MMInv, MMTypeOK
<1>4. quoting \in {"cancel", "add"} => holder \in Start /\ holder # g
  BY <1>1 DEF MMInv, MMTypeOK, FeederKnown
<1>5. TickKnown' /\ FeederKnown'
  BY <1>1, <1>3, <1>4 DEF MMInv, TickKnown, FeederKnown
<1>6. StopInTime'
  BY <1>1 DEF MMInv, StopInTime, Stopped
<1> QED
  BY <1>1, <1>2, <1>5, <1>6 DEF TurnGoal

LEMMA AwaitProcessorTurn ==
  ASSUME MMInv, NEW n \in Start, AwaitProcessor(n)
  PROVE  TurnGoal' /\ UNCHANGED <<at, quoting>>
<1>1. /\ n \in waiting /\ alive = {}
      /\ waiting' = waiting \ {n} /\ clearing' = clearing \cup {n}
      /\ UNCHANGED <<running, chan, starting, alive, watched, late, quoting, holder,
                     at, tick, ids, ticks>>
  BY DEF AwaitProcessor, quoteVars
<1>2. TurnType'
  BY <1>1 DEF MMInv, MMTypeOK, TurnType
<1>3. TickKnown' /\ FeederKnown'
  BY <1>1 DEF MMInv, TickKnown, FeederKnown
<1>4. StopInTime'
  BY <1>1 DEF MMInv, StopInTime, Stopped
<1> QED
  BY <1>1, <1>2, <1>3, <1>4 DEF TurnGoal

LEMMA BeginClearTurn ==
  ASSUME MMInv, NEW n \in Start, BeginClear(n) PROVE TurnGoal' /\ Restarted'
<1>1. /\ n \in clearing /\ quoting = "free" /\ quoting' = "clear" /\ holder' = n /\ at' = 1
      /\ UNCHANGED <<running, chan, starting, alive, watched, waiting, late, clearing, tick,
                     ids, ticks>>
  BY DEF BeginClear, feederVars
<1>2. TurnType'
  BY <1>1 DEF MMInv, MMTypeOK, TurnType, Start
<1>3. TickKnown' /\ FeederKnown' /\ Restarted'
  BY <1>1 DEF MMInv, TickKnown, FeederKnown, Restarted
<1>4. StopInTime'
  BY <1>1 DEF MMInv, StopInTime, Stopped
<1> QED
  BY <1>2, <1>3, <1>4 DEF TurnGoal

LEMMA QuotesAddedTurn ==
  ASSUME MMInv, QuotesAdded PROVE TurnGoal' /\ Restarted'
<1>1. /\ quoting' = "free" /\ holder' = 0 /\ at' = 1
      /\ UNCHANGED <<running, chan, starting, alive, watched, waiting, late, clearing, tick,
                     ids, ticks>>
  BY DEF QuotesAdded, feederVars
<1>2. TurnType'
  BY <1>1, BoundsAssumption DEF MMInv, MMTypeOK, TurnType
<1>3. TickKnown' /\ FeederKnown' /\ Restarted'
  BY <1>1 DEF MMInv, TickKnown, FeederKnown, Restarted
<1>4. StopInTime'
  BY <1>1 DEF MMInv, StopInTime, Stopped
<1> QED
  BY <1>2, <1>3, <1>4 DEF TurnGoal

LEMMA TurnPart ==
  ASSUME MMInv, Turning PROVE MMPart'
<1>1. UNCHANGED <<vars, ids, mine, takers>>
  BY TurningKeeps
<1>2. TurnGoal' /\ (Restarted' \/ UNCHANGED <<at, quoting>>)
  BY StartFeederTurn, StartProcessorTurn, StopFeederTurn, SelectTurn, TakeTickTurn,
     ProcessorReturnsTurn, AwaitProcessorTurn, BeginClearTurn, QuotesAddedTurn
  DEF Turning
<1>3. MMTypeOK' /\ TickKnown' /\ FeederKnown' /\ StopInTime'
  BY <1>1, <1>2 DEF MMInv, MMTypeOK, TurnGoal, TurnType
<1>4. MineArrived'
  BY <1>1 DEF MMInv, MineArrived, vars
<1>5. Quotes' = Quotes
  BY <1>1 DEF Quotes, vars
<1>6. QuotesTracked'
  <2>1. CASE Restarted'
    BY <2>1, <1>1, <1>5 DEF Restarted, MMInv, QuotesTracked
  <2>2. CASE UNCHANGED <<at, quoting>>
    BY <2>2, <1>1, <1>5 DEF MMInv, QuotesTracked
  <2> QED
    BY <1>2, <2>1, <2>2
<1> QED
  BY <1>3, <1>4, <1>6 DEF MMPart

LEMMA MMNextInv == MMInv /\ [MMNext]_marketVars => MMInv'
<1> SUFFICES ASSUME MMInv, [MMNext]_marketVars PROVE MMInv'
  OBVIOUS
<1>1. IInv'
  BY BookStep, NextIInv DEF MMInv
<1>2. ASSUME UNCHANGED marketVars PROVE MMPart'
  <2>1. UNCHANGED <<orderMap, arrived, taker, lifeVars, at, tick, ids, mine, ticks, takers>>
    BY <1>2 DEF marketVars, mmVars, vars, lifeVars, quoteVars
  <2>2. MMTypeOK' /\ MineArrived' /\ TickKnown' /\ QuotesTracked'
    BY <2>1
    DEF MMInv, MMTypeOK, MineArrived, TickKnown, QuotesTracked, Quotes, lifeVars, feederVars
  <2> QED
    BY <2>1, <2>2, LifeStays DEF MMPart
<1>3. ASSUME MMNext PROVE MMPart'
  BY <1>3, TurnPart, CancelQuotePart, QuotesCancelledPart, AddQuotePart, ProcessOrderPart,
     MatchingPart
  DEF MMNext, Working, Quoting, Turning
<1>4. MMPart'
  BY <1>2, <1>3
<1> QED
  BY <1>1, <1>4 DEF MMInv, MMPart

-----------------------------------------------------------------------------
(***************************************************************************)
(* Theorems.                                                               *)
(***************************************************************************)

\* The inductive invariant of the market holds over every refresh and stop.
THEOREM MarketInvariance == MMSpec => []MMInv
<1> QED
  BY MMInitInv, MMNextInv, PTL DEF MMSpec

\* To the book, the market is one more user of its methods: it implements
\* the safety part of OrderBook's specification.
THEOREM MarketUsesBook == MMSpec => Init /\ [][Next]_vars
<1>1. MMInit => Init
  BY DEF MMInit
<1>2. MMInv /\ [MMNext]_marketVars => [Next]_vars
  BY BookStep
<1> QED
  BY <1>1, <1>2, MarketInvariance, PTL DEF MMSpec

\* A quote in the book is always one the market maker will come back to.
THEOREM QuotesStayTracked == MMSpec => []QuotesTracked
<1>1. MMInv => QuotesTracked
  BY DEF MMInv
<1> QED
  BY <1>1, MarketInvariance, PTL

\* StopFeeder leaves no quote behind, whatever was matched during the refreshes and
\* however starts and stops overlap, unless it overtook the StartFeeder it answers.
THEOREM StopClearsQuotes == MMSpec => []NoQuoteLeft
<1>1. ASSUME MMInv PROVE NoQuoteLeft
  <2> SUFFICES ASSUME Stopped, ~ late PROVE Quotes = {}
    BY DEF NoQuoteLeft
  <2>1. Len(ids) = 0
    BY <1>1 DEF MMInv, StopInTime
  <2> QED
    BY <2>1, <1>1 DEF MMInv, QuotesTracked
<1> QED
  BY <1>1, MarketInvariance, PTL

\* The book stays consistent while it is requoted between the orders of others.
THEOREM MarketKeepsBook == MMSpec => []BookConsistent
<1>1. MMInv => BookConsistent
  BY DEF MMInv, IInv
<1> QED
  BY <1>1, MarketInvariance, PTL

-----------------------------------------------------------------------------
(***************************************************************************)
(* The quotes in the book are all for one tick, and those of one tick do   *)
(* not cross: every bid is below the tick's price, no ask is.              *)
(***************************************************************************)

\* i is a quote of the refresh for p.
IsQuote(i, p) == \E k \in 1..(2 * Levels) : order[i] = Quote(p, k)

OneRefresh ==
  /\ Quotes = {} \/ \E p \in Tick : \A i \in Quotes : IsQuote(i, p)
  /\ quoting = "add" => \A i \in Quotes : IsQuote(i, tick)

LEMMA BidBelow ==
  ASSUME NEW p \in Nat \ {0}, NEW i \in Nat \ {0} PROVE BidPrice(p, i) < p
<1> DEFINE x == i * SpreadBps
           y == p * x
<1>1. x \in Nat \ {0}
  BY SpreadAssumption
<1> HIDE DEF x
<1>2. y \in Nat \ {0}
  BY <1>1
<1>3. p * (10000 - x) = 10000 * p - y
  BY <1>1
<1> HIDE DEF y
<1>4. (10000 * p - y) \div 10000 < p
  BY <1>2
<1> QED
  BY <1>3, <1>4 DEF BidPrice, x

LEMMA AskNotBelow ==
  ASSUME NEW p \in Nat, NEW i \in Nat PROVE p <= AskPrice(p, i)
<1> DEFINE x == i * SpreadBps
           y == p * x
<1>1. x \in Nat
  BY SpreadAssumption
<1> HIDE DEF x
<1>2. y \in Nat
  BY <1>1
<1>3. p * (10000 + x) = 10000 * p + y
  BY <1>1
<1> HIDE DEF y
<1>4. p <= (10000 * p + y) \div 10000
  BY <1>2
<1> QED
  BY <1>3, <1>4 DEF AskPrice, x

LEMMA QuotePrices ==
  ASSUME NEW p \in Tick, NEW k \in 1..(2 * Levels)
  PROVE  /\ Quote(p, k).side = "buy" => Quote(p, k).price < p
         /\ Quote(p, k).side = "sell" => p <= Quote(p, k).price
         /\ Quote(p, k).price \in Nat
<1> DEFINE i == (k + 1) \div 2
<1>1. p \in Nat \ {0} /\ i \in Nat \ {0}
  BY TickAssumption, LevelsAssumption
<1>2. Quote(p, k).price \in Nat
  BY QuotesArePrices, PriceAssumption
<1> HIDE DEF i
<1>3. BidPrice(p, i) < p /\ p <= AskPrice(p, i)
  BY <1>1, BidBelow, AskNotBelow
<1>4. Quote(p, k) = IF k % 2 = 1 THEN Limit("buy", BidPrice(p, i), QuoteQty)
                                 ELSE Limit("sell", AskPrice(p, i), QuoteQty)
  BY DEF Quote, i
<1> QED
  BY <1>2, <1>3, <1>4 DEF Limit

LEMMA OneRefreshUncrossed == OneRefresh => QuotesUncrossed
<1> SUFFICES ASSUME OneRefresh, NEW i \in Quotes, NEW j \in Quotes,
                    order[i].side = "buy", order[j].side = "sell"
             PROVE  order[i].price < order[j].price
  BY DEF QuotesUncrossed
<1>1. PICK p \in Tick : IsQuote(i, p) /\ IsQuote(j, p)
  BY DEF OneRefresh
<1>2. PICK m \in 1..(2 * Levels), n \in 1..(2 * Levels) :
        order[i] = Quote(p, m) /\ order[j] = Quote(p, n)
  BY <1>1 DEF IsQuote
<1>3. p \in Nat
  BY TickAssumption
<1> QED
  BY <1>2, <1>3, QuotePrices

\* No step of the book changes an order that rests in it.
LEMMA RestingOrderStays ==
  ASSUME IInv, [Next]_vars, NEW i \in orderMap PROVE order'[i] = order[i]
<1>1. i \in Id
  BY DEF IInv, TypeOK
<1>2. ASSUME NEW o, NEW st, Arrive(o, st) PROVE order'[i] = order[i]
  BY <1>1, <1>2, ArriveKeeps
<1>3. ASSUME NEW o, Submit(o) \/ AddOrder(o) PROVE order'[i] = order[i]
  BY <1>2, <1>3 DEF Submit, AddOrder
<1>4. CASE Loop \/ UNCHANGED vars \/ \E j \in Id : CancelOrder(j)
  BY <1>4 DEF Loop, Fill, SkipExhausted, FinishMarket, FinishLimit, CancelOrder, vars
<1> QED
  BY <1>3, <1>4 DEF Next

LEMMA OneRefreshStays ==
  ASSUME MMInv, OneRefresh, [Next]_vars, Quotes' \subseteq Quotes,
         quoting' = "add" => quoting = "add" /\ tick' = tick
  PROVE  OneRefresh'
<1>1. \A i \in Quotes' : order'[i] = order[i]
  BY RestingOrderStays DEF Quotes, MMInv
<1>2. \A i \in Quotes' : \A p : IsQuote(i, p) => IsQuote(i, p)'
  BY <1>1 DEF IsQuote
<1>3. Quotes' = {} \/ \E p \in Tick : \A i \in Quotes' : IsQuote(i, p)'
  BY <1>2 DEF OneRefresh
<1>4. ASSUME quoting' = "add" PROVE \A i \in Quotes' : IsQuote(i, tick)'
  <2>1. \A i \in Quotes' : IsQuote(i, tick) /\ order'[i] = order[i]
    BY <1>1, <1>4 DEF OneRefresh
  <2> QED
    BY <1>4, <2>1 DEF IsQuote
<1> QED
  BY <1>3, <1>4 DEF OneRefresh

\* None of them begins to add quotes, nor changes the tick of a refresh.
LEMMA TurningNoAdd ==
  ASSUME Turning PROVE quoting' = "add" => quoting = "add" /\ tick' = tick
<1>1. CASE StartFeeder \/ StartProcessor \/ StopFeeder \/ QuotesAdded
  BY <1>1 DEF StartFeeder, StartProcessor, StopFeeder, QuotesAdded, quoteVars
<1>2. ASSUME NEW g \in Start, Select(g) \/ ProcessorReturns(g) \/ AwaitProcessor(g) \/ BeginClear(g)
      PROVE  quoting' = "add" => quoting = "add" /\ tick' = tick
  BY <1>2 DEF Select, ProcessorReturns, AwaitProcessor, BeginClear, quoteVars
<1>3. ASSUME NEW g \in Start, NEW p \in Tick, TakeTick(g, p) PROVE quoting' # "add"
  BY <1>3 DEF TakeTick
<1> QED
  BY <1>1, <1>2, <1>3 DEF Turning

LEMMA NextOneRefresh ==
  ASSUME MMInv, OneRefresh, [MMNext]_marketVars PROVE OneRefresh'
<1>0. [Next]_vars
  BY BookStep
<1>1. CASE Turning
  <2>1. UNCHANGED <<vars, mine>> /\ (quoting' = "add" => quoting = "add" /\ tick' = tick)
    BY <1>1, TurningKeeps, TurningNoAdd
  <2>2. Quotes' = Quotes
    BY <2>1 DEF Quotes, vars
  <2> QED
    BY <1>0, <2>1, <2>2, OneRefreshStays
<1>2. CASE CancelQuote
  <2>1. orderMap' = orderMap \ {ids[at]} /\ UNCHANGED <<quoting, tick, mine>>
    BY <1>2, CancelQuoteIsBookStep, CancelTakesOut DEF CancelQuote, MMInv
  <2>2. Quotes' \subseteq Quotes
    BY <2>1 DEF Quotes
  <2> QED
    BY <1>0, <2>1, <2>2, OneRefreshStays
<1>3. CASE QuotesCancelled
  <2>1. Len(ids) \in Nat /\ at \in Nat
    BY LenProperties DEF MMInv, MMTypeOK
  <2>2. Quotes = {} /\ UNCHANGED <<orderMap, mine>>
    BY <1>3, <2>1 DEF QuotesCancelled, vars, MMInv, QuotesTracked
  <2> QED
    BY <2>2 DEF Quotes, OneRefresh
<1>4. CASE AddQuote
  <2> DEFINE n == arrived + 1
             o == Quote(tick, at)
  <2>1. /\ quoting = "add" /\ tick \in Tick /\ at \in 1..(2 * Levels)
        /\ AddOrder(o) /\ mine' = mine \cup {n} /\ UNCHANGED <<quoting, tick>>
    BY <1>4, LevelsAssumption DEF MMInv, MMTypeOK, TickKnown, AddQuote
  <2>2. orderMap' = orderMap \cup {n} /\ order'[n] = o
    BY <2>1, ArriveKeeps DEF AddOrder, PushBack, MMInv
  <2>3. ASSUME NEW i \in Quotes' PROVE IsQuote(i, tick)'
    <3>1. CASE i = n
      BY <2>1, <2>2, <3>1 DEF IsQuote
    <3>2. CASE i # n
      <4>1. i \in Quotes /\ i \in orderMap
        BY <2>1, <2>2, <2>3, <3>2 DEF Quotes
      <4>2. IsQuote(i, tick) /\ order'[i] = order[i]
        BY <1>0, <2>1, <4>1, RestingOrderStays DEF OneRefresh, MMInv
      <4> QED
        BY <2>1, <4>2 DEF IsQuote
    <3> QED
      BY <3>1, <3>2
  <2>4. \E p \in Tick : \A i \in Quotes' : IsQuote(i, p)'
    BY <2>1, <2>3 DEF IsQuote
  <2> QED
    BY <2>3, <2>4 DEF OneRefresh
<1>5. ASSUME NEW o, ProcessOrder(o) PROVE OneRefresh'
  <2>1. UNCHANGED <<orderMap, mine, quoting, tick>>
    BY <1>5 DEF ProcessOrder, Submit, book, quoteVars
  <2>2. Quotes' = Quotes
    BY <2>1 DEF Quotes
  <2> QED
    BY <1>0, <2>1, <2>2, OneRefreshStays
<1>6. CASE Matching
  <2>1. orderMap' \subseteq orderMap \cup {taker} /\ UNCHANGED <<mine, quoting, tick>>
    BY <1>6, LoopTakesOnly DEF Matching, mmVars, quoteVars, MMInv
  <2>2. Quotes' \subseteq Quotes
    BY <2>1 DEF Quotes, MMInv, MineArrived
  <2> QED
    BY <1>0, <2>1, <2>2, OneRefreshStays
<1>7. CASE UNCHANGED marketVars
  <2>1. UNCHANGED <<orderMap, mine, quoting, tick>>
    BY <1>7 DEF marketVars, mmVars, vars, quoteVars
  <2>2. Quotes' = Quotes
    BY <2>1 DEF Quotes
  <2> QED
    BY <1>0, <2>1, <2>2, OneRefreshStays
<1> QED
  BY <1>1, <1>2, <1>3, <1>4, <1>5, <1>6, <1>7 DEF MMNext, Working, Quoting, Turning

\* The market maker never quotes a bid at or above one of its asks.
THEOREM QuotesDoNotCross == MMSpec => []QuotesUncrossed
<1>1. MMInit => OneRefresh
  BY DEF MMInit, OneRefresh, Quotes
<1>2. MMInv /\ OneRefresh /\ [MMNext]_marketVars => OneRefresh'
  BY NextOneRefresh
<1>3. OneRefresh => QuotesUncrossed
  BY OneRefreshUncrossed
<1> QED
  BY <1>1, <1>2, <1>3, MarketInvariance, PTL DEF MMSpec

-----------------------------------------------------------------------------
(***************************************************************************)
(* The tree of prices: the order of the prices, and what the operators on  *)
(* nodes change.                                                           *)
(***************************************************************************)

\* m belongs on side d of n.
Toward(d, m, n) == IF d = "left" THEN Before(m, n) ELSE Before(n, m)

TreeRecord == [root    : Node,
               red     : [Key -> BOOLEAN],
               kid     : [Dir -> [Key -> Node]],
               parent  : [Key -> Node],
               crashed : BOOLEAN]

Typed(t) == t \in TreeRecord

LEMMA KeyFacts == Nil \notin Key /\ Key \subseteq Int /\ IsFiniteSet(Key)
  BY KeyAssumption DEF Nil

LEMMA BeforeOrders ==
  /\ \A a \in Key : ~ Before(a, a)
  /\ \A a, b \in Key : a # b => Before(a, b) \/ Before(b, a)
  /\ \A a, b, c \in Key : Before(a, b) /\ Before(b, c) => Before(a, c)
  BY KeyFacts DEF Before

LEMMA Flips ==
  \A d \in Dir : Flip(d) \in Dir /\ Flip(d) # d /\ Flip(Flip(d)) = d /\ \A e \in Dir : e = d \/ e = Flip(d)
  BY DEF Dir, Flip

LEMMA TowardOrders ==
  ASSUME NEW d \in Dir
  PROVE  /\ \A a \in Key : ~ Toward(d, a, a)
         /\ \A a, b \in Key : Toward(Flip(d), a, b) <=> Toward(d, b, a)
         /\ \A a, b \in Key : Toward(d, a, b) => ~ Toward(d, b, a)
         /\ \A a, b \in Key : a # b => Toward(d, a, b) \/ Toward(d, b, a)
         /\ \A a, b, c \in Key : Toward(d, a, b) /\ Toward(d, b, c) => Toward(d, a, c)
<1>1. CASE d = "left"
  BY <1>1, BeforeOrders DEF Toward, Flip
<1>2. CASE d = "right"
  BY <1>2, BeforeOrders DEF Toward, Flip
<1> QED
  BY <1>1, <1>2 DEF Dir

\* What is kept and what is changed by each of the small steps.
LEMMA PaintFields ==
  ASSUME NEW t, Typed(t), NEW n, NEW c \in BOOLEAN
  PROVE  /\ Typed(Paint(t, n, c))
         /\ Paint(t, n, c).root = t.root /\ Paint(t, n, c).kid = t.kid
         /\ Paint(t, n, c).parent = t.parent /\ Paint(t, n, c).crashed = t.crashed
         /\ \A m \in Key : Paint(t, n, c).red[m] = IF m = n THEN c ELSE t.red[m]
  BY DEF Typed, TreeRecord, Paint

LEMMA LinkFields ==
  ASSUME NEW t, Typed(t), NEW d \in Dir, NEW n \in Key, NEW c \in Node
  PROVE  /\ Typed(Link(t, d, n, c))
         /\ Link(t, d, n, c).root = t.root /\ Link(t, d, n, c).red = t.red
         /\ Link(t, d, n, c).parent = t.parent /\ Link(t, d, n, c).crashed = t.crashed
         /\ \A e \in Dir : \A m \in Key :
              Link(t, d, n, c).kid[e][m] = IF e = d /\ m = n THEN c ELSE t.kid[e][m]
  BY DEF Typed, TreeRecord, Link

LEMMA UnderFields ==
  ASSUME NEW t, Typed(t), NEW n \in Key, NEW p \in Node
  PROVE  /\ Typed(Under(t, n, p))
         /\ Under(t, n, p).root = t.root /\ Under(t, n, p).red = t.red
         /\ Under(t, n, p).kid = t.kid /\ Under(t, n, p).crashed = t.crashed
         /\ \A m \in Key : Under(t, n, p).parent[m] = IF m = n THEN p ELSE t.parent[m]
  BY DEF Typed, TreeRecord, Under

LEMMA RootFields ==
  ASSUME NEW t, Typed(t), NEW n \in Node, NEW u, u = [t EXCEPT !.root = n]
  PROVE  /\ Typed(u) /\ u.root = n /\ u.red = t.red
         /\ u.kid = t.kid /\ u.parent = t.parent /\ u.crashed = t.crashed
  BY DEF Typed, TreeRecord

LEMMA AdoptFields ==
  ASSUME NEW t, Typed(t), NEW d \in Dir, NEW n \in Key, NEW c \in Node
  PROVE  /\ Typed(Adopt(t, d, n, c))
         /\ Adopt(t, d, n, c).root = t.root /\ Adopt(t, d, n, c).red = t.red
         /\ Adopt(t, d, n, c).crashed = t.crashed
         /\ \A e \in Dir : \A m \in Key :
              Adopt(t, d, n, c).kid[e][m] = IF e = d /\ m = n THEN c ELSE t.kid[e][m]
         /\ \A m \in Key : Adopt(t, d, n, c).parent[m] = IF m = c THEN n ELSE t.parent[m]
<1> DEFINE t1 == Link(t, d, n, c)
<1>1. /\ Typed(t1) /\ t1.root = t.root /\ t1.red = t.red /\ t1.parent = t.parent
      /\ t1.crashed = t.crashed
      /\ \A e \in Dir : \A m \in Key :
           t1.kid[e][m] = IF e = d /\ m = n THEN c ELSE t.kid[e][m]
  BY LinkFields
<1> HIDE DEF t1
<1>2. CASE c = Nil
  <2>1. Adopt(t, d, n, c) = t1
    BY <1>2 DEF Adopt, t1
  <2>2. \A m \in Key : m # c
    BY <1>2, KeyFacts
  <2> QED
    BY <1>1, <2>1, <2>2
<1>3. CASE c # Nil
  <2>1. c \in Key /\ n \in Node
    BY <1>3 DEF Node
  <2>2. Adopt(t, d, n, c) = Under(t1, c, n)
    BY <1>3 DEF Adopt, t1
  <2>3. /\ Typed(Under(t1, c, n))
        /\ Under(t1, c, n).root = t1.root /\ Under(t1, c, n).red = t1.red
        /\ Under(t1, c, n).kid = t1.kid /\ Under(t1, c, n).crashed = t1.crashed
        /\ \A m \in Key : Under(t1, c, n).parent[m] = IF m = c THEN n ELSE t1.parent[m]
    <3>1. Typed(t1)
      BY <1>1
    <3> QED
      BY <2>1, <3>1, UnderFields
  <2> QED
    BY <1>1, <2>2, <2>3
<1> QED
  BY <1>2, <1>3

Frees(t, z, u) ==
  /\ Typed(u) /\ u.root = t.root /\ u.crashed = t.crashed
  /\ \A e \in Dir : \A m \in Key : u.kid[e][m] = IF m = z THEN Nil ELSE t.kid[e][m]
  /\ \A m \in Key : u.parent[m] = IF m = z THEN Nil ELSE t.parent[m]

LEMMA FreedFields ==
  ASSUME NEW t, Typed(t), NEW z \in Key PROVE Frees(t, z, Freed(t, z))
<1> DEFINE t1 == Paint(t, z, TRUE)
           t2 == Link(t1, "left", z, Nil)
           t3 == Link(t2, "right", z, Nil)
           t4 == Under(t3, z, Nil)
<1>1. Freed(t, z) = t4
  BY DEF Freed
<1>2. Nil \in Node /\ "left" \in Dir /\ "right" \in Dir /\ \A e \in Dir : e = "left" \/ e = "right"
  BY DEF Node, Dir
<1>3. /\ Typed(t1) /\ t1.root = t.root /\ t1.kid = t.kid
      /\ t1.parent = t.parent /\ t1.crashed = t.crashed
      /\ \A m \in Key : t1.red[m] = IF m = z THEN TRUE ELSE t.red[m]
  BY PaintFields
<1> HIDE DEF t1
<1>4. Typed(t1)
  BY <1>3
<1>5. /\ Typed(t2) /\ t2.root = t1.root /\ t2.red = t1.red
      /\ t2.parent = t1.parent /\ t2.crashed = t1.crashed
      /\ \A e \in Dir : \A m \in Key :
           t2.kid[e][m] = IF e = "left" /\ m = z THEN Nil ELSE t1.kid[e][m]
  BY <1>2, <1>4, LinkFields
<1> HIDE DEF t2
<1>6. Typed(t2)
  BY <1>5
<1>7. /\ Typed(t3) /\ t3.root = t2.root /\ t3.red = t2.red
      /\ t3.parent = t2.parent /\ t3.crashed = t2.crashed
      /\ \A e \in Dir : \A m \in Key :
           t3.kid[e][m] = IF e = "right" /\ m = z THEN Nil ELSE t2.kid[e][m]
  BY <1>2, <1>6, LinkFields
<1> HIDE DEF t3
<1>8. Typed(t3)
  BY <1>7
<1>9. /\ Typed(t4) /\ t4.root = t3.root /\ t4.red = t3.red
      /\ t4.kid = t3.kid /\ t4.crashed = t3.crashed
      /\ \A m \in Key : t4.parent[m] = IF m = z THEN Nil ELSE t3.parent[m]
  BY <1>2, <1>8, UnderFields
<1> HIDE DEF t4
<1>10. Typed(t4) /\ t4.root = t.root /\ t4.crashed = t.crashed
  BY <1>3, <1>5, <1>7, <1>9
<1>12. \A e \in Dir : \A m \in Key : t4.kid[e][m] = IF m = z THEN Nil ELSE t.kid[e][m]
  BY <1>2, <1>3, <1>5, <1>7, <1>9
<1>13. \A m \in Key : t4.parent[m] = IF m = z THEN Nil ELSE t.parent[m]
  BY <1>3, <1>5, <1>7, <1>9
<1> QED
  BY <1>1, <1>10, <1>12, <1>13 DEF Frees

LEMMA CrashedFields == Typed(Crashed) /\ Crashed.crashed = TRUE
  BY DEF Typed, TreeRecord, Crashed, Empty, Node

-----------------------------------------------------------------------------
(***************************************************************************)
(* A tree with root r, children k and parents p that holds the prices S:   *)
(* s gives the prices below each node.                                     *)
(***************************************************************************)

Linked(r, k, p, S) ==
  /\ S \subseteq Key
  /\ r \in S \cup {Nil}
  /\ \A d \in Dir : \A n \in Key : k[d][n] \in S \cup {Nil}
  /\ \A n \in Key : p[n] \in S \cup {Nil}
  /\ \A n \in Key \ S : p[n] = Nil /\ \A d \in Dir : k[d][n] = Nil
  /\ \A n \in S : \A d \in Dir : k[d][n] # Nil => p[k[d][n]] = n
  /\ \A n \in S : n # r => p[n] \in S /\ \E d \in Dir : k[d][p[n]] = n
  /\ r # Nil => p[r] = Nil

Ordered(r, k, s, S) ==
  /\ s[Nil] = {} /\ s[r] = S
  /\ \A n \in S : n \in s[n] /\ s[n] \subseteq S
  /\ \A n \in S : \A m \in s[n] : m = n \/ \E d \in Dir : m \in s[k[d][n]]
  /\ \A n \in S : \A d \in Dir : s[k[d][n]] \subseteq s[n]
  /\ \A n \in S : \A d \in Dir : \A m \in s[k[d][n]] : Toward(d, m, n)
  /\ \A n \in S : \A m \in s[n] : s[m] \subseteq s[n]

\* Node y, with a child on side e at most, makes place for that child.
Spliced(r, k, p, s, y, e, r2, k2, p2, s2) ==
  LET v == k[e][y]
  IN  /\ r2 = IF r = y THEN v ELSE r
      /\ \A d \in Dir : \A n \in Key :
           k2[d][n] = IF n = y THEN Nil ELSE IF k[d][n] = y THEN v ELSE k[d][n]
      /\ \A n \in Key :
           p2[n] = IF n = y THEN Nil ELSE IF n = v THEN p[y] ELSE p[n]
      /\ s2[Nil] = {}
      /\ \A n \in Key : s2[n] = IF n = y THEN {} ELSE s[n] \ {y}

LEMMA SpliceLinked ==
  ASSUME NEW r, NEW k, NEW p, NEW s, NEW S, Linked(r, k, p, S), Ordered(r, k, s, S),
         NEW y \in S, NEW e \in Dir, k[Flip(e)][y] = Nil,
         NEW r2, NEW k2, NEW p2, NEW s2, Spliced(r, k, p, s, y, e, r2, k2, p2, s2)
  PROVE  Linked(r2, k2, p2, S \ {y})
<1> DEFINE v == k[e][y]
           R == S \ {y}
<1>1. S \subseteq Key /\ Nil \notin S /\ Nil \notin Key /\ y \in Key
  BY KeyFacts DEF Linked
<1>2. v \in S \cup {Nil} /\ (v # Nil => p[v] = y)
  BY <1>1 DEF Linked
<1>3. v # y
  BY <1>1, <1>2, TowardOrders DEF Ordered
<1>4. \A d \in Dir : k[d][y] \in {v, Nil}
  BY Flips
<1>5. /\ r2 = IF r = y THEN v ELSE r
      /\ \A d \in Dir : \A n \in Key :
           k2[d][n] = IF n = y THEN Nil ELSE IF k[d][n] = y THEN v ELSE k[d][n]
      /\ \A n \in Key :
           p2[n] = IF n = y THEN Nil ELSE IF n = v THEN p[y] ELSE p[n]
  BY DEF Spliced
<1> HIDE DEF v
<1>6. R \subseteq Key /\ r2 \in R \cup {Nil}
  BY <1>1, <1>2, <1>3, <1>5 DEF Linked
<1>7. \A d \in Dir : \A n \in Key : k2[d][n] \in R \cup {Nil}
  BY <1>1, <1>2, <1>3, <1>5 DEF Linked
<1>8. \A n \in R : p[n] = y => n = v
  <2> SUFFICES ASSUME NEW n \in R, p[n] = y PROVE n = v
    OBVIOUS
  <2>1. n # r
    BY <1>1 DEF Linked
  <2>2. \E d \in Dir : k[d][y] = n
    BY <2>1 DEF Linked
  <2> QED
    BY <1>1, <1>4, <2>2
<1>9. p[y] # y
  BY <1>1, <1>3, <1>4 DEF Linked
<1>10. \A n \in Key : p2[n] \in R \cup {Nil}
  BY <1>1, <1>5, <1>8, <1>9 DEF Linked
<1>11. \A n \in Key \ R : p2[n] = Nil /\ \A d \in Dir : k2[d][n] = Nil
  BY <1>1, <1>2, <1>5 DEF Linked
<1>12. \A n \in R : \A d \in Dir : k2[d][n] # Nil => p2[k2[d][n]] = n
  <2> SUFFICES ASSUME NEW n \in R, NEW d \in Dir, k2[d][n] # Nil PROVE p2[k2[d][n]] = n
    OBVIOUS
  <2>1. CASE k[d][n] = y
    BY <1>1, <1>2, <1>3, <1>5, <2>1 DEF Linked
  <2>2. CASE k[d][n] # y
    <3>1. k2[d][n] = k[d][n] /\ k[d][n] \in S /\ p[k[d][n]] = n
      BY <1>1, <1>5, <2>2 DEF Linked
    <3>2. k[d][n] # v
      BY <1>2, <3>1
    <3> QED
      BY <1>1, <1>5, <2>2, <3>1, <3>2
  <2> QED
    BY <2>1, <2>2
<1>13. \A n \in R : n # r2 => p2[n] \in R /\ \E d \in Dir : k2[d][p2[n]] = n
  <2> SUFFICES ASSUME NEW n \in R, n # r2 PROVE p2[n] \in R /\ \E d \in Dir : k2[d][p2[n]] = n
    OBVIOUS
  <2>1. CASE n = v
    <3>1. y # r /\ p2[n] = p[y] /\ p[y] \in S
      BY <1>1, <1>5, <2>1 DEF Linked
    <3>2. PICK d \in Dir : k[d][p[y]] = y
      BY <3>1 DEF Linked
    <3>3. k2[d][p[y]] = v
      BY <1>1, <1>5, <1>9, <3>1, <3>2
    <3> QED
      BY <1>9, <2>1, <3>1, <3>3
  <2>2. CASE n # v
    <3>1. n # r /\ p2[n] = p[n] /\ p[n] \in S
      BY <1>1, <1>5, <2>2 DEF Linked
    <3>2. p[n] # y
      BY <1>8, <2>2
    <3>3. PICK d \in Dir : k[d][p[n]] = n
      BY <3>1 DEF Linked
    <3>4. k2[d][p[n]] = n
      BY <1>1, <1>5, <3>1, <3>2, <3>3
    <3> QED
      BY <3>1, <3>2, <3>4
  <2> QED
    BY <2>1, <2>2
<1>14. r2 # Nil => p2[r2] = Nil
  BY <1>1, <1>2, <1>3, <1>5 DEF Linked
<1> QED
  BY <1>6, <1>7, <1>10, <1>11, <1>12, <1>13, <1>14 DEF Linked

LEMMA SpliceOrdered ==
  ASSUME NEW r, NEW k, NEW p, NEW s, NEW S, Linked(r, k, p, S), Ordered(r, k, s, S),
         NEW y \in S, NEW e \in Dir, k[Flip(e)][y] = Nil,
         NEW r2, NEW k2, NEW p2, NEW s2, Spliced(r, k, p, s, y, e, r2, k2, p2, s2)
  PROVE  Ordered(r2, k2, s2, S \ {y})
<1> DEFINE v == k[e][y]
           R == S \ {y}
<1>1. S \subseteq Key /\ Nil \notin S /\ Nil \notin Key /\ y \in Key /\ r \in S \cup {Nil}
  BY KeyFacts DEF Linked
<1>2. v \in S \cup {Nil}
  BY <1>1 DEF Linked
<1>3. y \notin s[v] /\ v # y
  BY <1>1, <1>2, TowardOrders DEF Ordered
<1>4. \A d \in Dir : k[d][y] \in {v, Nil}
  BY Flips
<1>5. /\ r2 = IF r = y THEN v ELSE r
      /\ \A d \in Dir : \A n \in Key :
           k2[d][n] = IF n = y THEN Nil ELSE IF k[d][n] = y THEN v ELSE k[d][n]
      /\ s2[Nil] = {}
      /\ \A n \in Key : s2[n] = IF n = y THEN {} ELSE s[n] \ {y}
  BY DEF Spliced
<1>6. s[v] = s[y] \ {y}
  <2>1. s[v] \subseteq s[y] /\ s[Nil] = {}
    BY DEF Ordered
  <2>2. \A m \in s[y] : m = y \/ m \in s[v]
    BY <1>4, <2>1 DEF Ordered
  <2> QED
    BY <1>3, <2>1, <2>2
<1> HIDE DEF v
<1>7. \A n \in R : s2[n] = s[n] \ {y}
  BY <1>1, <1>5
<1>8. s2[v] = s[y] \ {y}
  <2>1. CASE v = Nil
    BY <1>5, <1>6, <2>1 DEF Ordered
  <2>2. CASE v # Nil
    <3>1. v \in Key /\ v # y
      BY <1>1, <1>2, <1>3, <2>2
    <3>2. s2[v] = s[v] \ {y}
      BY <1>5, <3>1
    <3> QED
      BY <1>6, <3>2
  <2> QED
    BY <2>1, <2>2
<1>9. s2[r2] = R
  <2>1. CASE r = y
    BY <1>5, <1>8, <2>1 DEF Ordered
  <2>2. CASE r # y
    BY <1>1, <1>5, <1>7, <2>2 DEF Ordered
  <2> QED
    BY <2>1, <2>2
<1>10. \A n \in R : n \in s2[n] /\ s2[n] \subseteq R
  BY <1>7 DEF Ordered
<1>11. \A n \in R : \A d \in Dir : s2[k2[d][n]] = s[k[d][n]] \ {y}
  <2> TAKE n \in R
  <2> TAKE d \in Dir
  <2>1. CASE k[d][n] = y
    BY <1>1, <1>5, <1>8, <2>1
  <2>2. CASE k[d][n] # y
    <3>1. k2[d][n] = k[d][n] /\ k[d][n] \in S \cup {Nil}
      BY <1>1, <1>5, <2>2 DEF Linked
    <3> QED
      BY <1>5, <1>7, <2>2, <3>1 DEF Ordered
  <2> QED
    BY <2>1, <2>2
<1>12. \A n \in R : \A m \in s2[n] : m = n \/ \E d \in Dir : m \in s2[k2[d][n]]
  BY <1>7, <1>11 DEF Ordered
<1>13. \A n \in R : \A d \in Dir : s2[k2[d][n]] \subseteq s2[n]
  BY <1>7, <1>11 DEF Ordered
<1>14. \A n \in R : \A d \in Dir : \A m \in s2[k2[d][n]] : Toward(d, m, n)
  BY <1>11 DEF Ordered
<1>15. \A n \in R : \A m \in s2[n] : s2[m] \subseteq s2[n]
  <2> SUFFICES ASSUME NEW n \in R, NEW m \in s2[n] PROVE s2[m] \subseteq s2[n]
    OBVIOUS
  <2>1. m \in R /\ m \in s[n]
    BY <1>7, <1>10
  <2> QED
    BY <1>7, <2>1 DEF Ordered
<1> QED
  BY <1>5, <1>9, <1>10, <1>12, <1>13, <1>14, <1>15 DEF Ordered

\* Node y, which is in no tree, takes the place of z.
Renamed(r, k, p, s, z, y, r2, k2, p2, s2) ==
  /\ r2 = IF r = z THEN y ELSE r
  /\ \A d \in Dir : \A n \in Key :
       k2[d][n] = IF n = y THEN k[d][z] ELSE IF n = z THEN Nil
                  ELSE IF k[d][n] = z THEN y ELSE k[d][n]
  /\ \A n \in Key :
       p2[n] = IF n = y THEN p[z] ELSE IF n = z THEN Nil ELSE IF p[n] = z THEN y ELSE p[n]
  /\ s2[Nil] = {}
  /\ s2[y] = (s[z] \ {z}) \cup {y}
  /\ \A n \in Key \ {y} :
       s2[n] = IF n = z THEN {} ELSE IF z \in s[n] THEN (s[n] \ {z}) \cup {y} ELSE s[n]

LEMMA RenameLinked ==
  ASSUME NEW r, NEW k, NEW p, NEW s, NEW S, Linked(r, k, p, S), Ordered(r, k, s, S),
         NEW z \in S, NEW y \in Key \ S,
         NEW r2, NEW k2, NEW p2, NEW s2, Renamed(r, k, p, s, z, y, r2, k2, p2, s2)
  PROVE  Linked(r2, k2, p2, (S \ {z}) \cup {y})
<1> DEFINE R == (S \ {z}) \cup {y}
<1>1. S \subseteq Key /\ Nil \notin S /\ Nil \notin Key /\ z \in Key /\ y # z /\ y # Nil
  BY KeyFacts DEF Linked
<1>2. \A d \in Dir : k[d][z] \in S \cup {Nil} /\ k[d][z] # z
  BY <1>1, TowardOrders DEF Linked, Ordered
<1>3. p[z] \in S \cup {Nil} /\ p[z] # z
  BY <1>1, <1>2 DEF Linked
<1>5. /\ r2 = IF r = z THEN y ELSE r
      /\ \A d \in Dir : \A n \in Key :
           k2[d][n] = IF n = y THEN k[d][z] ELSE IF n = z THEN Nil
                      ELSE IF k[d][n] = z THEN y ELSE k[d][n]
      /\ \A n \in Key :
           p2[n] = IF n = y THEN p[z] ELSE IF n = z THEN Nil ELSE IF p[n] = z THEN y ELSE p[n]
  BY DEF Renamed
<1>6. R \subseteq Key /\ r2 \in R \cup {Nil}
  BY <1>1, <1>5 DEF Linked
<1>7. \A d \in Dir : \A n \in Key : k2[d][n] \in R \cup {Nil}
  BY <1>1, <1>2, <1>5 DEF Linked
<1>10. \A n \in Key : p2[n] \in R \cup {Nil}
  BY <1>1, <1>3, <1>5 DEF Linked
<1>11. \A n \in Key \ R : p2[n] = Nil /\ \A d \in Dir : k2[d][n] = Nil
  BY <1>1, <1>5 DEF Linked
<1>12. \A n \in R : \A d \in Dir : k2[d][n] # Nil => p2[k2[d][n]] = n
  <2> SUFFICES ASSUME NEW n \in R, NEW d \in Dir, k2[d][n] # Nil PROVE p2[k2[d][n]] = n
    OBVIOUS
  <2>1. CASE n = y
    <3>1. k2[d][n] = k[d][z] /\ k[d][z] \in Key /\ k[d][z] # y /\ k[d][z] # z /\ p[k[d][z]] = z
      BY <1>1, <1>2, <1>5, <2>1 DEF Linked
    <3> QED
      BY <1>5, <2>1, <3>1
  <2>2. CASE n # y /\ k[d][n] = z
    BY <1>1, <1>5, <2>2 DEF Linked
  <2>3. CASE n # y /\ k[d][n] # z
    <3>1. n \in S /\ n # z
      BY <2>3
    <3>2. k2[d][n] = k[d][n] /\ k[d][n] \in S /\ p[k[d][n]] = n
      BY <1>1, <1>5, <2>3, <3>1 DEF Linked
    <3> QED
      BY <1>1, <1>5, <2>3, <3>1, <3>2
  <2> QED
    BY <2>1, <2>2, <2>3
<1>13. \A n \in R : n # r2 => p2[n] \in R /\ \E d \in Dir : k2[d][p2[n]] = n
  <2> SUFFICES ASSUME NEW n \in R, n # r2 PROVE p2[n] \in R /\ \E d \in Dir : k2[d][p2[n]] = n
    OBVIOUS
  <2>1. CASE n = y
    <3>1. z # r /\ p2[n] = p[z] /\ p[z] \in S
      BY <1>1, <1>5, <2>1 DEF Linked
    <3>2. PICK d \in Dir : k[d][p[z]] = z
      BY <3>1 DEF Linked
    <3>3. k2[d][p[z]] = y
      BY <1>1, <1>3, <1>5, <3>1, <3>2
    <3> QED
      BY <1>3, <2>1, <3>1, <3>3
  <2>2. CASE n # y /\ p[n] = z
    <3>1. n # r /\ p2[n] = y /\ n \in S /\ n # z
      BY <1>1, <1>5, <2>2 DEF Linked
    <3>2. PICK d \in Dir : k[d][z] = n
      BY <2>2, <3>1 DEF Linked
    <3>3. k2[d][y] = n
      BY <1>1, <1>5, <3>2
    <3> QED
      BY <3>1, <3>3
  <2>3. CASE n # y /\ p[n] # z
    <3>1. n # r /\ n \in S /\ n # z /\ p2[n] = p[n] /\ p[n] \in S
      BY <1>1, <1>5, <2>3 DEF Linked
    <3>3. PICK d \in Dir : k[d][p[n]] = n
      BY <3>1 DEF Linked
    <3>4. k2[d][p[n]] = n
      BY <1>1, <1>5, <2>3, <3>1, <3>3
    <3> QED
      BY <2>3, <3>1, <3>4
  <2> QED
    BY <2>1, <2>2, <2>3
<1>14. r2 # Nil => p2[r2] = Nil
  BY <1>1, <1>5 DEF Linked
<1> QED
  BY <1>6, <1>7, <1>10, <1>11, <1>12, <1>13, <1>14 DEF Linked

LEMMA RenameOrdered ==
  ASSUME NEW r, NEW k, NEW p, NEW s, NEW S, Linked(r, k, p, S), Ordered(r, k, s, S),
         NEW z \in S, NEW y \in Key \ S,
         \A d \in Dir : \A m \in s[k[d][z]] : Toward(d, m, y),
         \A n \in S : \A d \in Dir : z \in s[k[d][n]] => Toward(d, y, n),
         NEW r2, NEW k2, NEW p2, NEW s2, Renamed(r, k, p, s, z, y, r2, k2, p2, s2)
  PROVE  Ordered(r2, k2, s2, (S \ {z}) \cup {y})
<1> DEFINE R == (S \ {z}) \cup {y}
           Swap(X) == IF z \in X THEN (X \ {z}) \cup {y} ELSE X
<1>1. /\ S \subseteq Key /\ Nil \notin S /\ Nil \notin Key /\ z \in Key /\ y # z /\ y # Nil
      /\ r \in S \cup {Nil} /\ \A d \in Dir : \A n \in Key : k[d][n] \in S \cup {Nil}
  BY KeyFacts DEF Linked
<1>2. \A d \in Dir : z \notin s[k[d][z]] /\ k[d][z] # z
  BY <1>1, TowardOrders DEF Ordered
<1>3. /\ s[Nil] = {} /\ \A n \in S : s[n] \subseteq S /\ n \in s[n]
  BY DEF Ordered
<1>5. /\ r2 = IF r = z THEN y ELSE r
      /\ \A d \in Dir : \A n \in Key :
           k2[d][n] = IF n = y THEN k[d][z] ELSE IF n = z THEN Nil
                      ELSE IF k[d][n] = z THEN y ELSE k[d][n]
      /\ s2[Nil] = {}
      /\ s2[y] = (s[z] \ {z}) \cup {y}
      /\ \A n \in Key \ {y} :
           s2[n] = IF n = z THEN {} ELSE IF z \in s[n] THEN (s[n] \ {z}) \cup {y} ELSE s[n]
  BY DEF Renamed
<1>6. \A n \in S \cup {Nil} : s2[IF n = z THEN y ELSE n] = Swap(s[n])
  <2> TAKE n \in S \cup {Nil}
  <2>1. CASE n = Nil
    BY <1>1, <1>3, <1>5, <2>1
  <2>2. CASE n = z
    BY <1>3, <1>5, <2>2
  <2>3. CASE n # Nil /\ n # z
    BY <1>1, <1>5, <2>3
  <2> QED
    BY <2>1, <2>2, <2>3
<1>7. \A d \in Dir : s2[k2[d][y]] = s[k[d][z]]
  <2> TAKE d \in Dir
  <2>1. k2[d][y] = k[d][z] /\ k[d][z] \in S \cup {Nil} /\ k[d][z] # z
    BY <1>1, <1>2, <1>5
  <2> QED
    BY <1>2, <1>6, <2>1
<1>8. \A n \in S \ {z} : \A d \in Dir : s2[k2[d][n]] = Swap(s[k[d][n]])
  <2> TAKE n \in S \ {z}
  <2> TAKE d \in Dir
  <2>1. k2[d][n] = (IF k[d][n] = z THEN y ELSE k[d][n]) /\ k[d][n] \in S \cup {Nil}
    BY <1>1, <1>5
  <2> QED
    BY <1>6, <2>1
<1>9. \A n \in S \ {z} : s2[n] = Swap(s[n])
  BY <1>6
<1>10. s2[r2] = R
  BY <1>1, <1>5, <1>6 DEF Ordered
<1>11. \A n \in R : n \in s2[n] /\ s2[n] \subseteq R
  <2> TAKE n \in R
  <2>1. CASE n = y
    BY <1>3, <1>5, <2>1
  <2>2. CASE n # y
    BY <1>3, <1>9, <2>2
  <2> QED
    BY <2>1, <2>2
<1>12. \A n \in R : \A m \in s2[n] : m = n \/ \E d \in Dir : m \in s2[k2[d][n]]
  <2> SUFFICES ASSUME NEW n \in R, NEW m \in s2[n], m # n
               PROVE  \E d \in Dir : m \in s2[k2[d][n]]
    OBVIOUS
  <2>1. CASE n = y
    <3>1. m \in s[z] /\ m # z
      BY <1>5, <2>1
    <3> QED
      BY <1>7, <2>1, <3>1 DEF Ordered
  <2>2. CASE n # y
    <3>1. n \in S \ {z}
      BY <2>2
    <3>2. CASE m = y
      <4>1. z \in s[n]
        BY <1>1, <1>3, <1>9, <3>1, <3>2
      <4>2. PICK d \in Dir : z \in s[k[d][n]]
        BY <3>1, <4>1 DEF Ordered
      <4> QED
        BY <1>8, <3>1, <3>2, <4>2
    <3>3. CASE m # y
      <4>1. m \in s[n] /\ m # z
        BY <1>9, <3>1, <3>3
      <4>2. PICK d \in Dir : m \in s[k[d][n]]
        BY <3>1, <4>1 DEF Ordered
      <4> QED
        BY <1>8, <3>1, <4>1, <4>2
    <3> QED
      BY <3>2, <3>3
  <2> QED
    BY <2>1, <2>2
<1>13. \A n \in R : \A d \in Dir : s2[k2[d][n]] \subseteq s2[n]
  <2> TAKE n \in R
  <2> TAKE d \in Dir
  <2>1. CASE n = y
    BY <1>2, <1>5, <1>7, <2>1 DEF Ordered
  <2>2. CASE n # y
    <3>1. n \in S \ {z} /\ s[k[d][n]] \subseteq s[n]
      BY <2>2 DEF Ordered
    <3>2. Swap(s[k[d][n]]) \subseteq Swap(s[n])
      BY <3>1
    <3>3. s2[k2[d][n]] = Swap(s[k[d][n]]) /\ s2[n] = Swap(s[n])
      BY <1>8, <1>9, <3>1
    <3> HIDE DEF Swap
    <3> QED
      BY <3>2, <3>3
  <2> QED
    BY <2>1, <2>2
<1>14. \A n \in R : \A d \in Dir : \A m \in s2[k2[d][n]] : Toward(d, m, n)
  <2> SUFFICES ASSUME NEW n \in R, NEW d \in Dir, NEW m \in s2[k2[d][n]] PROVE Toward(d, m, n)
    OBVIOUS
  <2>1. CASE n = y
    BY <1>7, <2>1
  <2>2. CASE n # y
    <3>1. n \in S \ {z}
      BY <2>2
    <3>2. CASE m = y
      <4>1. z \in s[k[d][n]]
        <5>1. k[d][n] \in S \cup {Nil}
          BY <1>1, <3>1
        <5>2. y \notin s[k[d][n]]
          BY <1>1, <1>3, <5>1
        <5> QED
          BY <1>8, <3>1, <3>2, <5>2
      <4> QED
        BY <3>1, <3>2, <4>1
    <3>3. CASE m # y
      <4>1. m \in s[k[d][n]]
        BY <1>8, <3>1, <3>3
      <4> QED
        BY <3>1, <4>1 DEF Ordered
    <3> QED
      BY <3>2, <3>3
  <2> QED
    BY <2>1, <2>2
<1>15. \A n \in R : \A m \in s2[n] : s2[m] \subseteq s2[n]
  <2>1. \A n \in S : \A m \in s[n] : m \in S /\ s[m] \subseteq s[n]
    BY <1>3 DEF Ordered
  <2>2. \A n \in S : \A m \in s[n] : Swap(s[m]) \subseteq Swap(s[n])
    BY <2>1
  <2> SUFFICES ASSUME NEW n \in R, NEW m \in s2[n] PROVE s2[m] \subseteq s2[n]
    OBVIOUS
  <2>3. PICK i \in S : n = IF i = z THEN y ELSE i
    OBVIOUS
  <2>4. s2[n] = Swap(s[i])
    BY <1>6, <2>3
  <2>5. PICK j \in s[i] : m = IF j = z THEN y ELSE j
    BY <2>4
  <2>6. j \in S
    BY <2>1, <2>3, <2>5
  <2>7. s2[m] = Swap(s[j])
    BY <1>6, <2>5, <2>6
  <2> QED
    BY <2>2, <2>3, <2>4, <2>5, <2>7
<1> QED
  BY <1>5, <1>10, <1>11, <1>12, <1>13, <1>14, <1>15 DEF Ordered

\* A node below n is n, or its parent is below n.
LEMMA ParentAbove ==
  ASSUME NEW r, NEW k, NEW p, NEW s, NEW S, Linked(r, k, p, S), Ordered(r, k, s, S), NEW q \in S
  PROVE  \A m \in S : q \in s[m] /\ q # m => p[q] \in s[m]
<1> DEFINE B == {s[m] : m \in {i \in S : q \in s[i] /\ q # i /\ p[q] \notin s[i]}}
<1>1. S \subseteq Key /\ IsFiniteSet(S)
  BY KeyFacts, FS_Subset DEF Linked
<1>2. B \in SUBSET (SUBSET S)
  BY DEF Ordered
<1>3. ASSUME NEW T \in B PROVE \E U \in B : U \subseteq T /\ U # T
  <2>1. PICK m \in S : T = s[m] /\ q \in s[m] /\ q # m /\ p[q] \notin s[m]
    OBVIOUS
  <2>2. PICK e \in Dir : q \in s[k[e][m]]
    BY <2>1 DEF Ordered
  <2> DEFINE w == k[e][m]
  <2>3. w \in S \cup {Nil} /\ s[Nil] = {}
    BY <1>1 DEF Linked, Ordered
  <2>4. w \in S
    BY <2>2, <2>3
  <2>5. p[w] = m /\ s[w] \subseteq s[m] /\ m \in s[m]
    BY <2>4, KeyFacts DEF Linked, Ordered
  <2>6. w # q
    BY <2>1, <2>5
  <2>7. m \notin s[w]
    BY <1>1, TowardOrders DEF Ordered
  <2>8. s[w] \in B
    BY <2>1, <2>2, <2>4, <2>5, <2>6
  <2> QED
    BY <2>1, <2>5, <2>7, <2>8
<1>4. B = {}
  <2> HIDE DEF B
  <2>1. B # {} => \E T \in B : \A U \in SUBSET T : U # T => U \notin B
    BY <1>1, <1>2, MinimalSubset
  <2> QED
    BY <1>3, <2>1
<1> QED
  BY <1>4

\* Node n goes down on side d, below its child q on the other side.
Rotated(r, k, p, s, n, d, r2, k2, p2, s2) ==
  LET q == k[Flip(d)][n]
      c == k[d][q]
  IN  /\ r2 = IF r = n THEN q ELSE r
      /\ \A e \in Dir : \A m \in Key :
           k2[e][m] = IF m = n /\ e = Flip(d) THEN c ELSE IF m = q /\ e = d THEN n
                      ELSE IF k[e][m] = n THEN q ELSE k[e][m]
      /\ \A m \in Key :
           p2[m] = IF m = n THEN q ELSE IF m = q THEN p[n] ELSE IF m = c THEN n ELSE p[m]
      /\ s2[Nil] = {}
      /\ s2[q] = s[n]
      /\ s2[n] = {n} \cup s[k[d][n]] \cup s[c]
      /\ \A m \in Key \ {n, q} : s2[m] = s[m]

LEMMA RotationFacts ==
  ASSUME NEW r, NEW k, NEW p, NEW s, NEW S, Linked(r, k, p, S), Ordered(r, k, s, S),
         NEW n \in Key, NEW d \in Dir, NEW o, o = Flip(d), NEW q, q = k[o][n], q # Nil,
         NEW c, c = k[d][q], NEW a, a = k[d][n], NEW b, b = k[o][q]
  PROVE  /\ S \subseteq Key /\ Nil \notin S /\ Nil \notin Key /\ n \in S /\ q \in S /\ q # n
         /\ c \in S \cup {Nil} /\ a \in S \cup {Nil} /\ b \in S \cup {Nil}
         /\ c # n /\ c # q /\ a # n /\ a # q /\ b # n /\ b # q
         /\ c # Nil => c # a /\ c # b
         /\ p[q] = n /\ p[n] # n /\ p[n] # q
         /\ o \in Dir /\ o # d /\ \A e \in Dir : e = d \/ e = o
<1>1. /\ S \subseteq Key /\ Nil \notin S /\ Nil \notin Key /\ n \in S /\ q \in S /\ p[q] = n
      /\ o \in Dir /\ o # d /\ \A e \in Dir : e = d \/ e = o
  BY KeyFacts, Flips DEF Linked
<1>2. \A m \in S : \A e \in Dir : k[e][m] \in S \cup {Nil} /\ k[e][m] # m
  BY <1>1, TowardOrders DEF Linked, Ordered
<1>3. /\ q # n /\ c \in S \cup {Nil} /\ a \in S \cup {Nil} /\ b \in S \cup {Nil}
      /\ c # q /\ a # n /\ b # q
  BY <1>1, <1>2
<1>4. \A m \in S : \A e \in Dir : k[e][m] # Nil => p[k[e][m]] = m
  BY DEF Linked
<1>5. n \notin s[q]
  BY <1>1, TowardOrders DEF Ordered
<1>6. \A m \in S \cup {Nil} : m \in s[q] => m # n
  BY <1>5
<1>7. c # n /\ b # n
  <2>1. \A e \in Dir : k[e][q] # Nil => k[e][q] \in s[q]
    BY <1>1, <1>2 DEF Ordered
  <2> QED
    BY <1>1, <1>5, <2>1
<1>8. a # q
  <2>1. a \in S => Toward(d, a, n)
    BY <1>1 DEF Ordered
  <2>2. Toward(o, q, n)
    BY <1>1 DEF Ordered
  <2>3. \A x, y \in Key : Toward(o, x, y) <=> Toward(d, y, x)
    BY TowardOrders
  <2>4. \A x, y \in Key : Toward(d, x, y) => ~ Toward(d, y, x)
    BY TowardOrders
  <2> QED
    BY <1>1, <2>1, <2>2, <2>3, <2>4
<1>9. c # Nil => c # a /\ c # b
  <2>1. c # Nil => p[c] = q /\ (a # Nil => p[a] = n)
    BY <1>1, <1>4
  <2>2. c # Nil => c # a
    BY <1>3, <2>1
  <2>3. c # Nil /\ c = b => Toward(d, c, q) /\ Toward(o, c, q)
    BY <1>1, <1>3 DEF Ordered
  <2>4. \A x, y \in Key : Toward(o, x, y) <=> Toward(d, y, x)
    BY TowardOrders
  <2>5. \A x, y \in Key : Toward(d, x, y) => ~ Toward(d, y, x)
    BY TowardOrders
  <2> QED
    BY <1>1, <1>3, <2>2, <2>3, <2>4, <2>5
<1>10. p[n] # n /\ p[n] # q
  <2>1. n = r => p[n] = Nil
    BY <1>1 DEF Linked
  <2>2. n # r => \E e \in Dir : k[e][p[n]] = n
    BY <1>1 DEF Linked
  <2> QED
    BY <1>1, <1>2, <1>3, <1>7, <2>1, <2>2
<1> QED
  BY <1>1, <1>3, <1>7, <1>8, <1>9, <1>10

LEMMA RotateLinked ==
  ASSUME NEW r, NEW k, NEW p, NEW s, NEW S, Linked(r, k, p, S), Ordered(r, k, s, S),
         NEW n \in Key, NEW d \in Dir, k[Flip(d)][n] # Nil,
         NEW r2, NEW k2, NEW p2, NEW s2, Rotated(r, k, p, s, n, d, r2, k2, p2, s2)
  PROVE  Linked(r2, k2, p2, S)
<1> DEFINE o == Flip(d)
           q == k[o][n]
           c == k[d][q]
           a == k[d][n]
           b == k[o][q]
<1>1. /\ S \subseteq Key /\ Nil \notin S /\ Nil \notin Key /\ n \in S /\ q \in S /\ q # n
      /\ c \in S \cup {Nil} /\ a \in S \cup {Nil} /\ b \in S \cup {Nil}
      /\ c # n /\ c # q /\ a # n /\ a # q /\ b # n /\ b # q
      /\ c # Nil => c # a /\ c # b
      /\ p[q] = n /\ p[n] # n /\ p[n] # q
      /\ o \in Dir /\ o # d /\ \A e \in Dir : e = d \/ e = o
  BY RotationFacts
<1>2. /\ r2 = IF r = n THEN q ELSE r
      /\ \A e \in Dir : \A m \in Key :
           k2[e][m] = IF m = n /\ e = o THEN c ELSE IF m = q /\ e = d THEN n
                      ELSE IF k[e][m] = n THEN q ELSE k[e][m]
      /\ \A m \in Key :
           p2[m] = IF m = n THEN q ELSE IF m = q THEN p[n] ELSE IF m = c THEN n ELSE p[m]
  BY DEF Rotated
<1>3. k[o][n] = q /\ k[d][n] = a /\ k[d][q] = c /\ k[o][q] = b
  OBVIOUS
<1> HIDE DEF o, q, c, a, b
<1>4. k2[o][n] = c /\ k2[d][n] = a /\ k2[d][q] = n /\ k2[o][q] = b
  BY <1>1, <1>2, <1>3
<1>5. \A e \in Dir : \A m \in S \ {n, q} : k2[e][m] = IF k[e][m] = n THEN q ELSE k[e][m]
  BY <1>1, <1>2
<1>6. r2 \in S \cup {Nil}
  BY <1>1, <1>2 DEF Linked
<1>7. \A e \in Dir : \A m \in Key : k2[e][m] \in S \cup {Nil}
  BY <1>1, <1>2 DEF Linked
<1>8. \A m \in Key : p2[m] \in S \cup {Nil}
  BY <1>1, <1>2 DEF Linked
<1>9. \A m \in Key \ S : p2[m] = Nil /\ \A e \in Dir : k2[e][m] = Nil
  BY <1>1, <1>2 DEF Linked
<1>10. \A m \in S : \A e \in Dir : k2[e][m] # Nil => p2[k2[e][m]] = m
  <2> SUFFICES ASSUME NEW m \in S, NEW e \in Dir, k2[e][m] # Nil PROVE p2[k2[e][m]] = m
    OBVIOUS
  <2>1. CASE m = n
    <3>1. a # Nil => p[a] = n
      BY <1>1, <1>3 DEF Linked
    <3>2. a # Nil => p2[a] = n
      BY <1>1, <1>2, <3>1
    <3>3. c # Nil => p2[c] = n
      BY <1>1, <1>2
    <3> QED
      BY <1>1, <1>4, <2>1, <3>2, <3>3
  <2>2. CASE m = q
    <3>1. b # Nil => p[b] = q
      BY <1>1, <1>3 DEF Linked
    <3>2. b # Nil => p2[b] = q
      BY <1>1, <1>2, <3>1
    <3>3. p2[n] = q
      BY <1>1, <1>2
    <3> QED
      BY <1>1, <1>4, <2>2, <3>2, <3>3
  <2>3. CASE m # n /\ m # q
    <3>1. k2[e][m] = IF k[e][m] = n THEN q ELSE k[e][m]
      BY <1>5, <2>3
    <3>2. k[e][m] = n => p[n] = m
      BY <1>1 DEF Linked
    <3>3. CASE k[e][m] = n
      BY <1>1, <1>2, <3>1, <3>2, <3>3
    <3>4. CASE k[e][m] # n
      <4> DEFINE w == k[e][m]
      <4>1. w \in S /\ p[w] = m /\ k2[e][m] = w
        BY <1>1, <3>1, <3>4 DEF Linked
      <4>2. w # n /\ w # q
        BY <1>1, <2>3, <4>1, <3>4
      <4>3. w # c
        <5>1. c # Nil => p[c] = q
          BY <1>1, <1>3 DEF Linked
        <5> QED
          BY <1>1, <2>3, <4>1, <5>1
      <4> HIDE DEF w
      <4>4. p2[w] = p[w]
        BY <1>1, <1>2, <4>1, <4>2, <4>3
      <4> QED
        BY <4>1, <4>4
    <3> QED
      BY <3>3, <3>4
  <2> QED
    BY <2>1, <2>2, <2>3
<1>11. \A m \in S : m # r2 => p2[m] \in S /\ \E e \in Dir : k2[e][p2[m]] = m
  <2> SUFFICES ASSUME NEW m \in S, m # r2 PROVE p2[m] \in S /\ \E e \in Dir : k2[e][p2[m]] = m
    OBVIOUS
  <2>1. CASE m = n
    BY <1>1, <1>2, <1>4, <2>1
  <2>2. CASE m = q
    <3>1. n # r /\ p2[m] = p[n] /\ p[n] \in S
      BY <1>1, <1>2, <2>2 DEF Linked
    <3>2. PICK e \in Dir : k[e][p[n]] = n
      BY <1>1, <3>1 DEF Linked
    <3>3. k2[e][p[n]] = q
      BY <1>1, <1>5, <3>1, <3>2
    <3> QED
      BY <2>2, <3>1, <3>3
  <2>3. CASE m # n /\ m # q /\ m = c
    BY <1>1, <1>2, <1>4, <2>3
  <2>4. CASE m # n /\ m # q /\ m # c
    <3>1. m # r /\ p2[m] = p[m] /\ p[m] \in S
      BY <1>1, <1>2, <2>4 DEF Linked
    <3>2. PICK e \in Dir : k[e][p[m]] = m
      BY <3>1 DEF Linked
    <3>3. CASE p[m] = n
      <4>1. m = a
        BY <1>1, <1>3, <2>4, <3>2, <3>3
      <4> QED
        BY <1>1, <1>4, <3>1, <3>3, <4>1
    <3>4. CASE p[m] = q
      <4>1. m = b
        BY <1>1, <1>3, <2>4, <3>2, <3>4
      <4> QED
        BY <1>1, <1>4, <3>1, <3>4, <4>1
    <3>5. CASE p[m] # n /\ p[m] # q
      <4>1. k2[e][p[m]] = m
        BY <1>5, <2>4, <3>1, <3>2, <3>5
      <4> QED
        BY <3>1, <4>1
    <3> QED
      BY <3>3, <3>4, <3>5
  <2> QED
    BY <2>1, <2>2, <2>3, <2>4
<1>12. r2 # Nil => p2[r2] = Nil
  <2>1. r = n => p[n] = Nil
    BY <1>1 DEF Linked
  <2>2. CASE r = n
    BY <1>1, <1>2, <2>1, <2>2
  <2>3. CASE r # n
    <3>1. r # Nil => r \in S /\ p[r] = Nil
      BY DEF Linked
    <3>2. c # Nil => p[c] = q
      BY <1>1, <1>3 DEF Linked
    <3>3. r # Nil => r # q /\ r # c
      BY <1>1, <3>1, <3>2
    <3> QED
      BY <1>1, <1>2, <2>3, <3>1, <3>3
  <2> QED
    BY <2>2, <2>3
<1>13. S \subseteq Key
  BY <1>1
<1> QED
  BY <1>6, <1>7, <1>8, <1>9, <1>10, <1>11, <1>12, <1>13 DEF Linked

LEMMA RotateOrdered ==
  ASSUME NEW r, NEW k, NEW p, NEW s, NEW S, Linked(r, k, p, S), Ordered(r, k, s, S),
         NEW n \in Key, NEW d \in Dir, k[Flip(d)][n] # Nil,
         NEW r2, NEW k2, NEW p2, NEW s2, Rotated(r, k, p, s, n, d, r2, k2, p2, s2)
  PROVE  Ordered(r2, k2, s2, S)
<1> DEFINE o == Flip(d)
           q == k[o][n]
           c == k[d][q]
           a == k[d][n]
           b == k[o][q]
<1>1. /\ S \subseteq Key /\ Nil \notin S /\ Nil \notin Key /\ n \in S /\ q \in S /\ q # n
      /\ c \in S \cup {Nil} /\ a \in S \cup {Nil} /\ b \in S \cup {Nil}
      /\ c # n /\ c # q /\ a # n /\ a # q /\ b # n /\ b # q
      /\ c # Nil => c # a /\ c # b
      /\ p[q] = n /\ p[n] # n /\ p[n] # q
      /\ o \in Dir /\ o # d /\ \A e \in Dir : e = d \/ e = o
  BY RotationFacts
<1>2. /\ r2 = IF r = n THEN q ELSE r
      /\ \A e \in Dir : \A m \in Key :
           k2[e][m] = IF m = n /\ e = o THEN c ELSE IF m = q /\ e = d THEN n
                      ELSE IF k[e][m] = n THEN q ELSE k[e][m]
      /\ s2[Nil] = {} /\ s2[q] = s[n] /\ s2[n] = {n} \cup s[a] \cup s[c]
      /\ \A m \in Key \ {n, q} : s2[m] = s[m]
  BY DEF Rotated
<1>3. k[o][n] = q /\ k[d][n] = a /\ k[d][q] = c /\ k[o][q] = b
  OBVIOUS
<1>4. \A x, y \in Key : Toward(o, x, y) <=> Toward(d, y, x)
  BY TowardOrders
<1>5. \A x, y, w \in Key : Toward(d, x, y) /\ Toward(d, y, w) => Toward(d, x, w)
  BY TowardOrders
<1> HIDE DEF o, q, c, a, b
<1>6. k2[o][n] = c /\ k2[d][n] = a /\ k2[d][q] = n /\ k2[o][q] = b
  BY <1>1, <1>2, <1>3
<1>7. \A e \in Dir : \A m \in S \ {n, q} : k2[e][m] = IF k[e][m] = n THEN q ELSE k[e][m]
  BY <1>1, <1>2
<1>8. /\ s[Nil] = {} /\ \A m \in S : m \in s[m] /\ s[m] \subseteq S
      /\ \A m \in S : \A x \in s[m] : s[x] \subseteq s[m]
  BY DEF Ordered
<1>9. s[a] \subseteq S /\ s[b] \subseteq S /\ s[c] \subseteq S
  BY <1>1, <1>8
<1>10. s[n] = {n} \cup s[a] \cup s[q] /\ s[q] = {q} \cup s[b] \cup s[c]
  <2>1. \A m \in {n, q} : s[m] = {m} \cup s[k[d][m]] \cup s[k[o][m]]
    <3> TAKE m \in {n, q}
    <3>1. m \in S /\ \A x \in s[m] : x = m \/ x \in s[k[d][m]] \/ x \in s[k[o][m]]
      BY <1>1 DEF Ordered
    <3>2. m \in s[m] /\ s[k[d][m]] \subseteq s[m] /\ s[k[o][m]] \subseteq s[m]
      BY <1>1 DEF Ordered
    <3> QED
      BY <3>1, <3>2
  <2> QED
    BY <1>3, <2>1
<1>11. s2[a] = s[a] /\ s2[b] = s[b] /\ s2[c] = s[c]
  BY <1>1, <1>2, <1>8
<1>12. \A m \in S \ {n, q} : \A e \in Dir : s2[k2[e][m]] = s[k[e][m]]
  <2> TAKE m \in S \ {n, q}
  <2> TAKE e \in Dir
  <2>1. k[e][m] \in S \cup {Nil} /\ k[e][m] # q
    BY <1>1 DEF Linked
  <2>2. CASE k[e][m] = n
    <3>1. k2[e][m] = q
      BY <1>7, <2>2
    <3>2. s2[q] = s[n]
      BY <1>2
    <3> QED
      BY <2>2, <3>1, <3>2
  <2>3. CASE k[e][m] # n
    <3>1. k2[e][m] = k[e][m]
      BY <1>7, <2>3
    <3>2. CASE k[e][m] = Nil
      BY <1>2, <1>8, <3>1, <3>2
    <3>3. CASE k[e][m] # Nil
      <4>1. k[e][m] \in Key \ {n, q}
        BY <1>1, <2>1, <2>3, <3>3
      <4> QED
        BY <1>2, <3>1, <4>1
    <3> QED
      BY <3>2, <3>3
  <2> QED
    BY <2>2, <2>3
<1>13. \A m \in S \ {n, q} : s2[m] = s[m]
  BY <1>1, <1>2
<1>14. s2[r2] = S
  <2>1. s[r] = S /\ r \in S \cup {Nil} /\ (r # Nil => p[r] = Nil)
    BY DEF Ordered, Linked
  <2>2. r # q
    BY <1>1, <2>1
  <2> QED
    BY <1>1, <1>2, <1>8, <2>1, <2>2
<1>15. \A m \in S : m \in s2[m] /\ s2[m] \subseteq S
  BY <1>1, <1>2, <1>8, <1>9, <1>10, <1>13
<1>16. \A m \in S : \A x \in s2[m] : x = m \/ \E e \in Dir : x \in s2[k2[e][m]]
  <2> SUFFICES ASSUME NEW m \in S, NEW x \in s2[m], x # m
               PROVE  \E e \in Dir : x \in s2[k2[e][m]]
    OBVIOUS
  <2>1. CASE m = n
    BY <1>1, <1>2, <1>6, <1>11, <2>1
  <2>2. CASE m = q
    BY <1>1, <1>2, <1>6, <1>10, <1>11, <2>2
  <2>3. CASE m # n /\ m # q
    BY <1>12, <1>13, <2>3 DEF Ordered
  <2> QED
    BY <2>1, <2>2, <2>3
<1>17. \A m \in S : \A e \in Dir : s2[k2[e][m]] \subseteq s2[m]
  <2> TAKE m \in S
  <2> TAKE e \in Dir
  <2>1. CASE m = n
    BY <1>1, <1>2, <1>6, <1>11, <2>1
  <2>2. CASE m = q
    BY <1>1, <1>2, <1>6, <1>10, <1>11, <2>2
  <2>3. CASE m # n /\ m # q
    BY <1>12, <1>13, <2>3 DEF Ordered
  <2> QED
    BY <2>1, <2>2, <2>3
<1>18. \A m \in S : \A e \in Dir : \A x \in s2[k2[e][m]] : Toward(e, x, m)
  <2>1. /\ \A x \in s[a] : Toward(d, x, n)
        /\ \A x \in s[q] : Toward(o, x, n)
        /\ \A x \in s[c] : Toward(d, x, q)
        /\ \A x \in s[b] : Toward(o, x, q)
    BY <1>1, <1>3 DEF Ordered
  <2>2. Toward(d, n, q)
    BY <1>1, <1>4, <1>8, <2>1
  <2>3. \A x \in s2[n] : Toward(d, x, q)
    BY <1>1, <1>2, <1>5, <1>9, <2>1, <2>2
  <2>4. \A x \in s[c] : Toward(o, x, n)
    BY <1>10, <2>1
  <2> SUFFICES ASSUME NEW m \in S, NEW e \in Dir, NEW x \in s2[k2[e][m]] PROVE Toward(e, x, m)
    OBVIOUS
  <2>5. CASE m = n
    BY <1>1, <1>6, <1>11, <2>1, <2>4, <2>5
  <2>6. CASE m = q
    BY <1>1, <1>6, <1>11, <2>1, <2>3, <2>6
  <2>7. CASE m # n /\ m # q
    BY <1>12, <2>7 DEF Ordered
  <2> QED
    BY <2>5, <2>6, <2>7
<1>19. \A m \in S : \A x \in s2[m] : s2[x] \subseteq s2[m]
  <2>1. \A m \in S : \A x \in s[m] : x \in S /\ s[x] \subseteq s[m]
    BY <1>8
  <2>2. s2[n] \subseteq s[n] /\ \A x \in S \ {q} : s2[x] \subseteq s[x]
    BY <1>2, <1>10, <1>13
  <2> SUFFICES ASSUME NEW m \in S, NEW x \in s2[m] PROVE s2[x] \subseteq s2[m]
    OBVIOUS
  <2>3. CASE m = n
    <3>1. CASE x = n
      BY <2>3, <3>1
    <3>2. CASE x \in s[a]
      <4>1. a \in S /\ x \in S /\ s[x] \subseteq s[a]
        BY <1>1, <1>8, <3>2
      <4>2. x # q
        <5>1. Toward(d, x, n) /\ Toward(o, q, n)
          BY <1>1, <1>3, <1>8, <3>2 DEF Ordered
        <5>2. \A u, v \in Key : Toward(d, u, v) => ~ Toward(d, v, u)
          BY TowardOrders
        <5> QED
          BY <1>1, <1>4, <5>1, <5>2
      <4> QED
        BY <1>2, <2>2, <2>3, <4>1, <4>2
    <3>3. CASE x \in s[c]
      <4>1. c \in S /\ x \in S /\ s[x] \subseteq s[c]
        BY <1>1, <1>8, <3>3
      <4>2. x # q
        <5>1. Toward(d, x, q)
          BY <1>1, <1>3, <3>3 DEF Ordered
        <5>2. ~ Toward(d, q, q)
          BY <1>1, TowardOrders
        <5> QED
          BY <5>1, <5>2
      <4> QED
        BY <1>2, <2>2, <2>3, <4>1, <4>2
    <3> QED
      BY <1>2, <2>3, <3>1, <3>2, <3>3
  <2>4. CASE m = q
    <3>1. x \in S /\ x \in s[n] /\ s[x] \subseteq s[n] /\ s2[m] = s[n]
      BY <1>1, <1>2, <2>1, <2>4
    <3> QED
      BY <1>2, <2>2, <3>1
  <2>5. CASE m # n /\ m # q
    <3>1. x \in S /\ s[x] \subseteq s[m] /\ s2[m] = s[m] /\ x \in s[m]
      BY <1>8, <1>13, <2>5
    <3>2. CASE x = q
      <4>1. n \in s[m]
        <5>1. q \in s[m] /\ m # q
          BY <2>5, <3>1, <3>2
        <5> QED
          BY <1>1, <2>5, <5>1, ParentAbove
      <4>2. s[n] \subseteq s[m]
        BY <1>8, <4>1
      <4> QED
        BY <1>2, <3>1, <3>2, <4>2
    <3>3. CASE x # q
      BY <2>2, <3>1, <3>3
    <3> QED
      BY <3>2, <3>3
  <2> QED
    BY <2>3, <2>4, <2>5
<1> QED
  BY <1>2, <1>14, <1>15, <1>16, <1>17, <1>18, <1>19 DEF Ordered

\* The new node x is hung on side e of n.
Hung(r, k, p, s, x, n, e, r2, k2, p2, s2) ==
  /\ r2 = r
  /\ \A d \in Dir : \A m \in Key : k2[d][m] = IF d = e /\ m = n THEN x ELSE k[d][m]
  /\ \A m \in Key : p2[m] = IF m = x THEN n ELSE p[m]
  /\ s2[Nil] = {}
  /\ s2[x] = {x}
  /\ \A m \in Key \ {x} : s2[m] = IF n \in s[m] THEN s[m] \cup {x} ELSE s[m]

LEMMA HungKeeps ==
  ASSUME NEW r, NEW k, NEW p, NEW s, NEW S, Linked(r, k, p, S), Ordered(r, k, s, S),
         NEW x \in Key \ S, NEW n \in S, NEW e \in Dir, k[e][n] = Nil, Toward(e, x, n),
         \A m \in S : \A d \in Dir : n \in s[k[d][m]] => Toward(d, x, m),
         NEW r2, NEW k2, NEW p2, NEW s2, Hung(r, k, p, s, x, n, e, r2, k2, p2, s2)
  PROVE  Linked(r2, k2, p2, S \cup {x}) /\ Ordered(r2, k2, s2, S \cup {x})
<1> DEFINE R == S \cup {x}
<1>1. /\ S \subseteq Key /\ Nil \notin S /\ Nil \notin Key /\ n \in Key /\ x \in Key
      /\ x # n /\ x # Nil /\ x \notin S /\ r \in S /\ s[r] = S
  BY KeyFacts DEF Linked, Ordered
<1>2. /\ r2 = r
      /\ \A d \in Dir : \A m \in Key : k2[d][m] = IF d = e /\ m = n THEN x ELSE k[d][m]
      /\ \A m \in Key : p2[m] = IF m = x THEN n ELSE p[m]
      /\ s2[Nil] = {}
      /\ s2[x] = {x}
      /\ \A m \in Key \ {x} : s2[m] = IF n \in s[m] THEN s[m] \cup {x} ELSE s[m]
  BY DEF Hung
<1>3. /\ R \subseteq Key /\ r2 \in R \cup {Nil}
      /\ \A d \in Dir : \A m \in Key : k2[d][m] \in R \cup {Nil}
      /\ \A m \in Key : p2[m] \in R \cup {Nil}
      /\ \A m \in Key \ R : p2[m] = Nil /\ \A d \in Dir : k2[d][m] = Nil
  BY <1>1, <1>2 DEF Linked
<1>4. \A m \in R : \A d \in Dir : k2[d][m] # Nil => p2[k2[d][m]] = m
  <2> SUFFICES ASSUME NEW m \in R, NEW d \in Dir, k2[d][m] # Nil PROVE p2[k2[d][m]] = m
    OBVIOUS
  <2>1. CASE d = e /\ m = n
    BY <1>1, <1>2, <2>1
  <2>2. CASE ~ (d = e /\ m = n)
    <3>1. k2[d][m] = k[d][m] /\ k[d][m] \in S /\ m # x
      BY <1>1, <1>2, <2>2 DEF Linked
    <3>2. p[k[d][m]] = m
      BY <3>1, <1>1 DEF Linked
    <3> QED
      BY <1>1, <1>2, <3>1, <3>2
  <2> QED
    BY <2>1, <2>2
<1>5. \A m \in R : m # r2 => p2[m] \in R /\ \E d \in Dir : k2[d][p2[m]] = m
  <2> SUFFICES ASSUME NEW m \in R, m # r2 PROVE p2[m] \in R /\ \E d \in Dir : k2[d][p2[m]] = m
    OBVIOUS
  <2>1. CASE m = x
    BY <1>1, <1>2, <2>1
  <2>2. CASE m # x
    <3>1. m \in S /\ m # r /\ p2[m] = p[m] /\ p[m] \in S
      BY <1>1, <1>2, <2>2 DEF Linked
    <3>2. PICK d \in Dir : k[d][p[m]] = m
      BY <3>1 DEF Linked
    <3>3. k2[d][p[m]] = m
      BY <1>1, <1>2, <3>1, <3>2
    <3> QED
      BY <3>1, <3>3
  <2> QED
    BY <2>1, <2>2
<1>6. r2 # Nil => p2[r2] = Nil
  BY <1>1, <1>2 DEF Linked
<1>7. Linked(r2, k2, p2, R)
  BY <1>3, <1>4, <1>5, <1>6 DEF Linked
<1>8. /\ s[Nil] = {} /\ \A m \in S : m \in s[m] /\ s[m] \subseteq S
      /\ \A m \in S : \A i \in s[m] : s[i] \subseteq s[m]
  BY DEF Ordered
<1>9. \A m \in S : s2[m] = IF n \in s[m] THEN s[m] \cup {x} ELSE s[m]
  BY <1>1, <1>2
<1>10. \A d \in Dir : k2[d][x] = Nil
  BY <1>1, <1>2 DEF Linked
<1>11. \A m \in S : \A d \in Dir :
         s2[k2[d][m]] = IF m = n /\ d = e THEN {x}
                        ELSE IF n \in s[k[d][m]] THEN s[k[d][m]] \cup {x} ELSE s[k[d][m]]
  <2> TAKE m \in S
  <2> TAKE d \in Dir
  <2>1. CASE m = n /\ d = e
    BY <1>1, <1>2, <2>1
  <2>2. CASE ~ (m = n /\ d = e)
    <3>1. k2[d][m] = k[d][m] /\ k[d][m] \in S \cup {Nil}
      BY <1>1, <1>2, <2>2 DEF Linked
    <3>2. CASE k[d][m] = Nil
      BY <1>2, <1>8, <2>2, <3>1, <3>2
    <3>3. CASE k[d][m] \in S
      <4>1. s2[k[d][m]] = IF n \in s[k[d][m]] THEN s[k[d][m]] \cup {x} ELSE s[k[d][m]]
        BY <1>9, <3>3
      <4> QED
        BY <2>2, <3>1, <4>1
    <3> QED
      BY <3>1, <3>2, <3>3
  <2> QED
    BY <2>1, <2>2
<1>12. s2[r2] = R
  BY <1>1, <1>2, <1>9
<1>13. \A m \in R : m \in s2[m] /\ s2[m] \subseteq R
  <2> TAKE m \in R
  <2>1. CASE m = x
    BY <1>2, <2>1
  <2>2. CASE m # x
    BY <1>8, <1>9, <2>2
  <2> QED
    BY <2>1, <2>2
<1>14. \A m \in R : \A i \in s2[m] : i = m \/ \E d \in Dir : i \in s2[k2[d][m]]
  <2> SUFFICES ASSUME NEW m \in R, NEW i \in s2[m], i # m
               PROVE  \E d \in Dir : i \in s2[k2[d][m]]
    OBVIOUS
  <2>1. m \in S
    BY <1>2
  <2>2. CASE i = x
    <3>1. n \in s[m]
      BY <1>1, <1>8, <1>9, <2>1, <2>2
    <3>2. m = n \/ \E d \in Dir : n \in s[k[d][m]]
      BY <2>1, <3>1 DEF Ordered
    <3> QED
      BY <1>11, <2>1, <2>2, <3>2
  <2>3. CASE i # x
    <3>1. i \in s[m]
      BY <1>9, <2>1, <2>3
    <3>2. PICK d \in Dir : i \in s[k[d][m]]
      BY <2>1, <3>1 DEF Ordered
    <3>3. ~ (m = n /\ d = e)
      BY <1>8, <3>2
    <3> QED
      BY <1>11, <2>1, <3>2, <3>3
  <2> QED
    BY <2>2, <2>3
<1>15. \A m \in R : \A d \in Dir : s2[k2[d][m]] \subseteq s2[m]
  <2> TAKE m \in R
  <2> TAKE d \in Dir
  <2>1. CASE m = x
    BY <1>2, <1>10, <2>1
  <2>2. CASE m # x
    <3>1. m \in S /\ s[k[d][m]] \subseteq s[m] /\ m \in s[m]
      BY <2>2 DEF Ordered
    <3>2. CASE m = n /\ d = e
      <4>1. s2[k2[d][m]] = {x} /\ x \in s2[m]
        BY <1>9, <1>11, <3>1, <3>2
      <4> QED
        BY <4>1
    <3>3. CASE ~ (m = n /\ d = e)
      <4>1. s2[k2[d][m]] = IF n \in s[k[d][m]] THEN s[k[d][m]] \cup {x} ELSE s[k[d][m]]
        BY <1>11, <3>1, <3>3
      <4>2. s2[m] = IF n \in s[m] THEN s[m] \cup {x} ELSE s[m]
        BY <1>9, <3>1
      <4> QED
        BY <3>1, <4>1, <4>2
    <3> QED
      BY <3>2, <3>3
  <2> QED
    BY <2>1, <2>2
<1>16. \A m \in R : \A d \in Dir : \A i \in s2[k2[d][m]] : Toward(d, i, m)
  <2> SUFFICES ASSUME NEW m \in R, NEW d \in Dir, NEW i \in s2[k2[d][m]] PROVE Toward(d, i, m)
    OBVIOUS
  <2>1. m \in S
    BY <1>2, <1>10
  <2>2. CASE m = n /\ d = e
    <3>1. s2[k2[d][m]] = {x}
      BY <1>11, <2>1, <2>2
    <3> QED
      BY <2>2, <3>1
  <2>3. CASE ~ (m = n /\ d = e) /\ i \in s[k[d][m]]
    BY <2>1, <2>3 DEF Ordered
  <2>4. CASE ~ (m = n /\ d = e) /\ i \notin s[k[d][m]]
    <3>1. s2[k2[d][m]] = IF n \in s[k[d][m]] THEN s[k[d][m]] \cup {x} ELSE s[k[d][m]]
      BY <1>11, <2>1, <2>4
    <3>2. i = x /\ n \in s[k[d][m]]
      BY <2>4, <3>1
    <3> QED
      BY <2>1, <3>2
  <2> QED
    BY <2>2, <2>3, <2>4
<1>17. \A m \in R : \A i \in s2[m] : s2[i] \subseteq s2[m]
  <2> SUFFICES ASSUME NEW m \in R, NEW i \in s2[m] PROVE s2[i] \subseteq s2[m]
    OBVIOUS
  <2>1. CASE i = x
    BY <1>2, <2>1
  <2>2. CASE i # x
    <3>1. m \in S /\ i \in s[m] /\ i \in S /\ s[i] \subseteq s[m]
      <4>1. m \in S
        BY <1>2, <2>2
      <4>2. i \in s[m]
        BY <1>9, <2>2, <4>1
      <4> QED
        BY <1>8, <4>1, <4>2
    <3> QED
      BY <1>9, <3>1
  <2> QED
    BY <2>1, <2>2
<1>18. Ordered(r2, k2, s2, R)
  BY <1>2, <1>12, <1>13, <1>14, <1>15, <1>16, <1>17 DEF Ordered
<1> QED
  BY <1>7, <1>18

-----------------------------------------------------------------------------
(***************************************************************************)
(* The steps of the code on a tree of the prices S.                        *)
(***************************************************************************)

Shaped(t, s, S) == Linked(t.root, t.kid, t.parent, S) /\ Ordered(t.root, t.kid, s, S)

\* t has the prices S, unless it has crashed.
Has(t, S) == Typed(t) /\ (~ t.crashed => \E s : Shaped(t, s, S))

LEMMA TypedFields ==
  ASSUME NEW t, Typed(t)
  PROVE  /\ t.root \in Node /\ t.crashed \in BOOLEAN
         /\ \A n \in Key : t.red[n] \in BOOLEAN /\ t.parent[n] \in Node
         /\ \A d \in Dir : \A n \in Key : t.kid[d][n] \in Node
  BY DEF Typed, TreeRecord

LEMMA NodeFacts ==
  /\ Nil \in Node /\ Key \subseteq Node /\ \A n \in Node : n # Nil => n \in Key
  /\ "left" \in Dir /\ "right" \in Dir /\ \A d \in Dir : d = "left" \/ d = "right"
  BY DEF Node, Dir

LEMMA SideInDir == ASSUME NEW t, NEW n PROVE SideOf(t, n) \in Dir
  BY DEF SideOf, Dir

LEMMA NotItself ==
  ASSUME NEW r, NEW k, NEW p, NEW s, NEW S, Linked(r, k, p, S), Ordered(r, k, s, S),
         NEW n \in Key, NEW d \in Dir
  PROVE  k[d][n] # n
  BY KeyFacts, TowardOrders DEF Linked, Ordered

\* Nothing else points to a node than its parent, on one side.
LEMMA ChildSide ==
  ASSUME NEW r, NEW k, NEW p, NEW s, NEW S, Linked(r, k, p, S), Ordered(r, k, s, S),
         NEW n \in S, NEW h, h = IF n = k["left"][p[n]] THEN "left" ELSE "right"
  PROVE  /\ p[n] = Nil <=> r = n
         /\ h \in Dir
         /\ \A e \in Dir : \A m \in Key : k[e][m] = n <=> p[n] # Nil /\ m = p[n] /\ e = h
<1>1. /\ S \subseteq Key /\ Nil \notin S /\ Nil \notin Key
      /\ "left" \in Dir /\ "right" \in Dir /\ \A d \in Dir : d = "left" \/ d = "right"
  BY KeyFacts, NodeFacts DEF Linked
<1>2. p[n] = Nil <=> r = n
  BY <1>1 DEF Linked
<1>3. \A e \in Dir : \A m \in Key : k[e][m] = n => p[n] = m /\ m \in S
  BY <1>1 DEF Linked
<1>4. p[n] # Nil => p[n] \in S /\ \E d \in Dir : k[d][p[n]] = n
  BY <1>1, <1>2 DEF Linked
<1>5. \A m \in S : ~ (k["left"][m] = n /\ k["right"][m] = n)
  <2> SUFFICES ASSUME NEW m \in S, k["left"][m] = n, k["right"][m] = n PROVE FALSE
    OBVIOUS
  <2>1. n \in s[n]
    BY DEF Ordered
  <2>2. Toward("left", n, m) /\ Toward("right", n, m)
    BY <1>1, <2>1 DEF Ordered
  <2>3. Before(n, m) /\ Before(m, n)
    BY <2>2 DEF Toward
  <2> QED
    BY <1>1, <2>3, BeforeOrders
<1> QED
  BY <1>1, <1>2, <1>3, <1>4, <1>5

LEMMA HangFields ==
  ASSUME NEW t, Typed(t), NEW u \in Key, NEW v \in Node
  PROVE  /\ Typed(Hang(t, u, v)) /\ Hang(t, u, v).red = t.red
         /\ Hang(t, u, v).parent = t.parent /\ Hang(t, u, v).crashed = t.crashed
         /\ Hang(t, u, v).root = IF t.parent[u] = Nil THEN v ELSE t.root
         /\ \A e \in Dir : \A m \in Key :
              Hang(t, u, v).kid[e][m] = IF t.parent[u] # Nil /\ m = t.parent[u] /\ e = SideOf(t, u)
                                        THEN v ELSE t.kid[e][m]
<1>1. t.parent[u] \in Node
  BY TypedFields
<1>2. CASE t.parent[u] = Nil
  <2> DEFINE h == [t EXCEPT !.root = v]
  <2>1. Hang(t, u, v) = h
    BY <1>2 DEF Hang
  <2>2. /\ Typed(h) /\ h.root = v /\ h.red = t.red
        /\ h.kid = t.kid /\ h.parent = t.parent /\ h.crashed = t.crashed
    BY RootFields
  <2> HIDE DEF h
  <2> QED
    BY <1>2, <2>1, <2>2
<1>3. CASE t.parent[u] # Nil
  <2> DEFINE x == t.parent[u]
             d == SideOf(t, u)
             h == Link(t, d, x, v)
  <2>1. Hang(t, u, v) = h
    BY <1>3 DEF Hang
  <2>2. x \in Key /\ d \in Dir
    BY <1>1, <1>3, SideInDir, NodeFacts
  <2> HIDE DEF d, x
  <2>3. /\ Typed(h) /\ h.root = t.root /\ h.red = t.red
        /\ h.parent = t.parent /\ h.crashed = t.crashed
        /\ \A e \in Dir : \A m \in Key :
             h.kid[e][m] = IF e = d /\ m = x THEN v ELSE t.kid[e][m]
    BY <2>2, LinkFields
  <2> HIDE DEF h
  <2> QED
    BY <1>3, <2>1, <2>2, <2>3 DEF d, x
<1> QED
  BY <1>2, <1>3

\* In a tree, that puts v where u was.
LEMMA HangShaped ==
  ASSUME NEW t, Typed(t), NEW s, NEW S, Shaped(t, s, S), NEW u \in S, NEW v \in Node
  PROVE  /\ Typed(Hang(t, u, v)) /\ Hang(t, u, v).red = t.red
         /\ Hang(t, u, v).parent = t.parent /\ Hang(t, u, v).crashed = t.crashed
         /\ Hang(t, u, v).root = IF t.root = u THEN v ELSE t.root
         /\ \A e \in Dir : \A m \in Key :
              Hang(t, u, v).kid[e][m] = IF t.kid[e][m] = u THEN v ELSE t.kid[e][m]
<1>1. u \in Key
  BY DEF Shaped, Linked
<1>2. /\ Typed(Hang(t, u, v)) /\ Hang(t, u, v).red = t.red
      /\ Hang(t, u, v).parent = t.parent /\ Hang(t, u, v).crashed = t.crashed
      /\ Hang(t, u, v).root = IF t.parent[u] = Nil THEN v ELSE t.root
      /\ \A e \in Dir : \A m \in Key :
           Hang(t, u, v).kid[e][m] = IF t.parent[u] # Nil /\ m = t.parent[u] /\ e = SideOf(t, u)
                                     THEN v ELSE t.kid[e][m]
  BY <1>1, HangFields
<1> DEFINE h == SideOf(t, u)
           k == t.kid
           p == t.parent
           r == t.root
<1>3. h = IF u = k["left"][p[u]] THEN "left" ELSE "right"
  BY DEF SideOf
<1>4. Linked(r, k, p, S) /\ Ordered(r, k, s, S)
  BY DEF Shaped
<1> HIDE DEF h, k, p, r
<1>5. /\ p[u] = Nil <=> r = u
      /\ \A e \in Dir : \A m \in Key : k[e][m] = u <=> p[u] # Nil /\ m = p[u] /\ e = h
  BY <1>3, <1>4, ChildSide
<1> QED
  BY <1>2, <1>5 DEF h, k, p, r

\* The same, to be cited of one step.
Adopts(t, d, n, c, u) ==
  /\ Typed(u) /\ u.root = t.root /\ u.red = t.red /\ u.crashed = t.crashed
  /\ \A e \in Dir : \A m \in Key : u.kid[e][m] = IF e = d /\ m = n THEN c ELSE t.kid[e][m]
  /\ \A m \in Key : u.parent[m] = IF m = c THEN n ELSE t.parent[m]

LEMMA AdoptStep ==
  ASSUME NEW t, Typed(t), NEW d \in Dir, NEW n \in Key, NEW c \in Node
  PROVE  Adopts(t, d, n, c, Adopt(t, d, n, c))
  BY AdoptFields DEF Adopts

Unders(t, n, p, u) ==
  /\ Typed(u) /\ u.root = t.root /\ u.red = t.red /\ u.kid = t.kid /\ u.crashed = t.crashed
  /\ \A m \in Key : u.parent[m] = IF m = n THEN p ELSE t.parent[m]

LEMMA UnderStep ==
  ASSUME NEW t, Typed(t), NEW n \in Key, NEW p \in Node
  PROVE  Unders(t, n, p, Under(t, n, p))
  BY UnderFields DEF Unders

Hangs(t, n, v, h, u) ==
  /\ Typed(u) /\ u.red = t.red /\ u.parent = t.parent /\ u.crashed = t.crashed
  /\ u.root = IF t.parent[n] = Nil THEN v ELSE t.root
  /\ \A e \in Dir : \A m \in Key :
       u.kid[e][m] = IF t.parent[n] # Nil /\ m = t.parent[n] /\ e = h THEN v ELSE t.kid[e][m]

LEMMA HangStep ==
  ASSUME NEW t, Typed(t), NEW n \in Key, NEW v \in Node
  PROVE  Hangs(t, n, v, SideOf(t, n), Hang(t, n, v))
  BY HangFields DEF Hangs

\* The assignments of a rotation, in any nodes.
Rotates(t, n, d, o, q, c, x, h, u) ==
  /\ Typed(u) /\ u.crashed = t.crashed /\ u.red = t.red
  /\ u.root = IF x = Nil THEN q ELSE t.root
  /\ x # Nil => h = IF n = t.kid["left"][x] THEN "left" ELSE "right"
  /\ \A e \in Dir : \A m \in Key :
       u.kid[e][m] = IF e = d /\ m = q THEN n
                     ELSE IF x # Nil /\ m = x /\ e = h THEN q
                     ELSE IF e = o /\ m = n THEN c ELSE t.kid[e][m]
  /\ \A m \in Key : u.parent[m] = IF m = n THEN q ELSE IF m = q THEN x
                                 ELSE IF m = c THEN n ELSE t.parent[m]

LEMMA RotateSteps ==
  ASSUME NEW t, Typed(t), NEW n \in Key, NEW q \in Key, q # n, NEW d \in Dir, NEW o \in Dir,
         NEW c \in Node, c # n, c # q, NEW x \in Node, x # n, x # q,
         t.parent[n] = x,
         NEW t4, t4 = Adopt(Hang(Under(Adopt(t, o, n, c), q, x), n, q), d, q, n)
  PROVE  \E h \in Dir : Rotates(t, n, d, o, q, c, x, h, t4)
<1> DEFINE t0 == Adopt(t, o, n, c)
           t1 == Under(t0, q, x)
           t3 == Hang(t1, n, q)
           h == SideOf(t1, n)
<1>1. n \in Node /\ q \in Node /\ Nil \notin Key
  BY NodeFacts, KeyFacts
<1>2. t4 = Adopt(t3, d, q, n)
  OBVIOUS
<1>3. /\ Typed(t0) /\ t0.root = t.root /\ t0.red = t.red /\ t0.crashed = t.crashed
      /\ \A e \in Dir : \A m \in Key : t0.kid[e][m] = IF e = o /\ m = n THEN c ELSE t.kid[e][m]
      /\ \A m \in Key : t0.parent[m] = IF m = c THEN n ELSE t.parent[m]
  BY AdoptFields
<1> HIDE DEF t0
<1>4. Typed(t0)
  BY <1>3
<1>5. /\ Typed(t1) /\ t1.root = t0.root /\ t1.red = t0.red
      /\ t1.kid = t0.kid /\ t1.crashed = t0.crashed
      /\ \A m \in Key : t1.parent[m] = IF m = q THEN x ELSE t0.parent[m]
  BY <1>4, UnderFields
<1> HIDE DEF t1
<1>6. Typed(t1)
  BY <1>5
<1>7. t1.parent[n] = x
  BY <1>3, <1>5
<1>8. /\ Typed(t3) /\ t3.red = t1.red
      /\ t3.parent = t1.parent /\ t3.crashed = t1.crashed
      /\ t3.root = IF t1.parent[n] = Nil THEN q ELSE t1.root
      /\ \A e \in Dir : \A m \in Key :
           t3.kid[e][m] = IF t1.parent[n] # Nil /\ m = t1.parent[n] /\ e = SideOf(t1, n)
                          THEN q ELSE t1.kid[e][m]
  <2>1. Hangs(t1, n, q, SideOf(t1, n), t3)
    BY <1>1, <1>6, HangStep
  <2> HIDE DEF t3
  <2> QED
    BY <2>1 DEF Hangs
<1>9. h \in Dir
  BY SideInDir
<1>10. x # Nil => h = IF n = t.kid["left"][x] THEN "left" ELSE "right"
  <2> SUFFICES ASSUME x # Nil PROVE h = IF n = t.kid["left"][x] THEN "left" ELSE "right"
    OBVIOUS
  <2>1. h = IF n = t1.kid["left"][x] THEN "left" ELSE "right"
    BY <1>7 DEF SideOf
  <2>2. x \in Key /\ "left" \in Dir
    BY NodeFacts
  <2>3. t1.kid["left"][x] = t.kid["left"][x]
    BY <1>3, <1>5, <2>2
  <2> QED
    BY <2>1, <2>3
<1>11. \A e \in Dir : \A m \in Key :
         t3.kid[e][m] = IF x # Nil /\ m = x /\ e = h THEN q
                        ELSE IF e = o /\ m = n THEN c ELSE t.kid[e][m]
  BY <1>3, <1>5, <1>7, <1>8
<1>12. t3.root = (IF x = Nil THEN q ELSE t.root) /\ t3.red = t.red /\ t3.crashed = t.crashed
  BY <1>3, <1>5, <1>7, <1>8
<1>13. \A m \in Key : t3.parent[m] = IF m = q THEN x ELSE IF m = c THEN n ELSE t.parent[m]
  BY <1>3, <1>5, <1>8
<1>14. Typed(t3)
  BY <1>8
<1> HIDE DEF t3, h
<1>15. /\ Typed(t4) /\ t4.root = t3.root /\ t4.red = t3.red /\ t4.crashed = t3.crashed
       /\ \A e \in Dir : \A m \in Key : t4.kid[e][m] = IF e = d /\ m = q THEN n ELSE t3.kid[e][m]
       /\ \A m \in Key : t4.parent[m] = IF m = n THEN q ELSE t3.parent[m]
  <2>1. Adopts(t3, d, q, n, t4)
    BY <1>1, <1>2, <1>14, AdoptStep
  <2> QED
    BY <2>1 DEF Adopts
<1> QED
  BY <1>9, <1>10, <1>11, <1>12, <1>13, <1>15 DEF Rotates

LEMMA RotateFields ==
  ASSUME NEW t, Typed(t), ~ t.crashed, NEW s, NEW S, Shaped(t, s, S),
         NEW n \in Key, NEW d \in Dir, t.kid[Flip(d)][n] # Nil,
         NEW q, q = t.kid[Flip(d)][n], NEW c, c = t.kid[d][q], NEW t2, t2 = Rotate(t, n, d)
  PROVE  /\ Typed(t2) /\ ~ t2.crashed /\ t2.red = t.red /\ q \in Key
         /\ t2.root = IF t.root = n THEN q ELSE t.root
         /\ \A e \in Dir : \A m \in Key :
              t2.kid[e][m] = IF m = n /\ e = Flip(d) THEN c ELSE IF m = q /\ e = d THEN n
                             ELSE IF t.kid[e][m] = n THEN q ELSE t.kid[e][m]
         /\ \A m \in Key :
              t2.parent[m] = IF m = n THEN q ELSE IF m = q THEN t.parent[n]
                             ELSE IF m = c THEN n ELSE t.parent[m]
<1> DEFINE o == Flip(d)
           k == t.kid
           p == t.parent
           r == t.root
           a == k[d][n]
           b == k[o][q]
<1>1. Linked(r, k, p, S) /\ Ordered(r, k, s, S) /\ q = k[o][n] /\ q # Nil /\ c = k[d][q]
  BY DEF Shaped
<1>2. /\ S \subseteq Key /\ Nil \notin S /\ Nil \notin Key /\ n \in S /\ q \in S /\ q # n
      /\ c \in S \cup {Nil} /\ c # n /\ c # q /\ p[n] # n /\ p[n] # q
      /\ o \in Dir /\ o # d /\ \A e \in Dir : e = d \/ e = o
  <2> HIDE DEF k, p, r
  <2> QED
    BY <1>1, RotationFacts
<1>3. /\ p[n] \in Node /\ q \in Key /\ c \in Node /\ n \in Node /\ q \in Node
  BY <1>2, TypedFields, NodeFacts
<1>4. t2 = Adopt(Hang(Under(Adopt(t, o, n, c), q, p[n]), n, q), d, q, n)
  <2>1. n # Nil
    BY <1>2
  <2>2. Rotate(t, n, d) = Adopt(Hang(Under(Adopt(t, o, n, t.kid[d][q]), q, t.parent[n]), n, q), d, q, n)
    BY <2>1 DEF Rotate, Turned
  <2> QED
    BY <2>2
<1> HIDE DEF o, k, p, r
<1>6. PICK h \in Dir :
        /\ Typed(t2) /\ t2.crashed = t.crashed /\ t2.red = t.red
        /\ t2.root = IF p[n] = Nil THEN q ELSE r
        /\ p[n] # Nil => h = IF n = k["left"][p[n]] THEN "left" ELSE "right"
        /\ \A e \in Dir : \A m \in Key :
             t2.kid[e][m] = IF e = d /\ m = q THEN n
                            ELSE IF p[n] # Nil /\ m = p[n] /\ e = h THEN q
                            ELSE IF e = o /\ m = n THEN c ELSE k[e][m]
        /\ \A m \in Key : t2.parent[m] = IF m = n THEN q ELSE IF m = q THEN p[n]
                                        ELSE IF m = c THEN n ELSE p[m]
  <2>1. \E h \in Dir : Rotates(t, n, d, o, q, c, p[n], h, t2)
    BY <1>2, <1>3, <1>4, RotateSteps DEF p
  <2> QED
    BY <2>1 DEF Rotates, k, p, r
<1> DEFINE g == IF n = k["left"][p[n]] THEN "left" ELSE "right"
<1>14. /\ p[n] = Nil <=> r = n
       /\ \A e \in Dir : \A m \in Key : k[e][m] = n <=> p[n] # Nil /\ m = p[n] /\ e = g
  BY <1>1, <1>2, ChildSide
<1>15. t2.root = IF r = n THEN q ELSE r
  BY <1>6, <1>14
<1>16. p[n] # Nil => h = g
  BY <1>6
<1> HIDE DEF g
<1>17. ASSUME NEW e \in Dir, NEW m \in Key
       PROVE  t2.kid[e][m] = IF m = n /\ e = o THEN c ELSE IF m = q /\ e = d THEN n
                             ELSE IF k[e][m] = n THEN q ELSE k[e][m]
  <2>1. k[e][m] = n <=> p[n] # Nil /\ m = p[n] /\ e = h
    BY <1>14, <1>16
  <2>2. t2.kid[e][m] = IF e = d /\ m = q THEN n
                       ELSE IF k[e][m] = n THEN q
                       ELSE IF e = o /\ m = n THEN c ELSE k[e][m]
    BY <1>6, <2>1
  <2>3. k[e][m] = n => m # n /\ m # q
    BY <1>2, <2>1
  <2> QED
    BY <1>2, <2>2, <2>3
<1> QED
  BY <1>3, <1>6, <1>15, <1>17 DEF o, k, p, r

LEMMA CrashedHas == ASSUME NEW S PROVE Has(Crashed, S)
  BY CrashedFields DEF Has

LEMMA RotateHas ==
  ASSUME NEW t, NEW S, Has(t, S), NEW n \in Node, NEW d \in Dir
  PROVE  Has(Rotate(t, n, d), S)
<1>1. CASE t.crashed \/ n = Nil \/ t.kid[Flip(d)][n] = Nil
  <2>1. Rotate(t, n, d) = Crashed
    BY <1>1 DEF Rotate
  <2> QED
    BY <2>1, CrashedHas
<1>2. CASE ~ t.crashed /\ n # Nil /\ t.kid[Flip(d)][n] # Nil
  <2>1. Typed(t) /\ n \in Key
    BY <1>2, NodeFacts DEF Has
  <2>2. PICK s : Shaped(t, s, S)
    BY <1>2 DEF Has
  <2> DEFINE q == t.kid[Flip(d)][n]
             c == t.kid[d][q]
             t2 == Rotate(t, n, d)
             s2 == [m \in Node |-> IF m = q THEN s[n]
                                   ELSE IF m = n THEN {n} \cup s[t.kid[d][n]] \cup s[c]
                                   ELSE s[m]]
  <2>3. /\ Typed(t2) /\ ~ t2.crashed /\ q \in Key
        /\ t2.root = IF t.root = n THEN q ELSE t.root
        /\ \A e \in Dir : \A m \in Key :
             t2.kid[e][m] = IF m = n /\ e = Flip(d) THEN c ELSE IF m = q /\ e = d THEN n
                            ELSE IF t.kid[e][m] = n THEN q ELSE t.kid[e][m]
        /\ \A m \in Key :
             t2.parent[m] = IF m = n THEN q ELSE IF m = q THEN t.parent[n]
                            ELSE IF m = c THEN n ELSE t.parent[m]
    <3> HIDE DEF q, c, t2
    <3>1. q = t.kid[Flip(d)][n] /\ c = t.kid[d][q] /\ t2 = Rotate(t, n, d)
      BY DEF q, c, t2
    <3> QED
      BY <1>2, <2>1, <2>2, <3>1, RotateFields
  <2>4. Linked(t.root, t.kid, t.parent, S) /\ Ordered(t.root, t.kid, s, S)
    BY <2>2 DEF Shaped
  <2>5. q # n /\ q # Nil /\ Nil \notin Key /\ s[Nil] = {}
    <3>1. q # Nil /\ Nil \notin Key
      BY <1>2, KeyFacts
    <3>2. q # n
      BY <2>1, <2>4, Flips, NotItself
    <3>3. s[Nil] = {}
      BY <2>4 DEF Ordered
    <3> QED
      BY <3>1, <3>2, <3>3
  <2>6. /\ s2[Nil] = {} /\ s2[q] = s[n] /\ s2[n] = {n} \cup s[t.kid[d][n]] \cup s[c]
        /\ \A m \in Key \ {n, q} : s2[m] = s[m]
    <3> HIDE DEF q, c
    <3> QED
      BY <2>1, <2>3, <2>5, NodeFacts
  <2> HIDE DEF t2, s2
  <2>7. Rotated(t.root, t.kid, t.parent, s, n, d, t2.root, t2.kid, t2.parent, s2)
    BY <2>3, <2>6 DEF Rotated
  <2>8. Linked(t2.root, t2.kid, t2.parent, S) /\ Ordered(t2.root, t2.kid, s2, S)
    BY <1>2, <2>1, <2>4, <2>7, RotateLinked, RotateOrdered
  <2> QED
    BY <2>3, <2>8 DEF Has, Shaped, t2
<1> QED
  BY <1>1, <1>2

LEMMA PaintHas ==
  ASSUME NEW t, NEW S, Has(t, S), NEW n, NEW c \in BOOLEAN
  PROVE  Has(Paint(t, n, c), S)
<1>1. /\ Typed(Paint(t, n, c))
      /\ Paint(t, n, c).root = t.root /\ Paint(t, n, c).kid = t.kid
      /\ Paint(t, n, c).parent = t.parent /\ Paint(t, n, c).crashed = t.crashed
  BY PaintFields DEF Has
<1> QED
  BY <1>1 DEF Has, Shaped

-----------------------------------------------------------------------------
(***************************************************************************)
(* The fixups.                                                             *)
(***************************************************************************)

Sound(x, S) == Has(x.tree, S) /\ x.node \in Node

LEMMA AtSound ==
  ASSUME NEW t, NEW S, Has(t, S), NEW n \in Node
  PROVE  Sound(At(t, n), S)
<1>1. At(t, n).tree = t /\ At(t, n).node = n
  BY DEF At
<1> QED
  BY <1>1 DEF Sound

LEMMA RotateCrashed ==
  ASSUME NEW t, t.crashed, NEW n, NEW d PROVE Rotate(t, n, d) = Crashed
  BY DEF Rotate

LEMMA BlackenHas ==
  ASSUME NEW t, NEW S, Has(t, S), NEW n PROVE Has(Blacken(t, n), S)
  BY PaintHas DEF Blacken

\* What a rotation does to the parents of the two nodes it turns.
TurnsParents(t, n, d, q) ==
  Rotate(t, n, d).parent[n] = q /\ Rotate(t, n, d).parent[q] = t.parent[n]

LEMMA RotateParents ==
  ASSUME NEW t, Typed(t), ~ t.crashed, NEW s, NEW S, Shaped(t, s, S),
         NEW n \in Key, NEW d \in Dir, NEW q, q = t.kid[Flip(d)][n], q # Nil, q # n
  PROVE  TurnsParents(t, n, d, q)
<1> DEFINE c == t.kid[d][q]
           t2 == Rotate(t, n, d)
<1>1. c = t.kid[d][q] /\ t2 = Rotate(t, n, d) /\ t.kid[Flip(d)][n] # Nil
  OBVIOUS
<1> HIDE DEF c, t2
<1>2. /\ q \in Key
      /\ \A m \in Key : t2.parent[m] = IF m = n THEN q ELSE IF m = q THEN t.parent[n]
                                      ELSE IF m = c THEN n ELSE t.parent[m]
  BY <1>1, RotateFields
<1>3. t2.parent[n] = q /\ t2.parent[q] = t.parent[n]
  BY <1>2
<1> QED
  BY <1>3 DEF t2, TurnsParents

LEMMA InsertTurnSound ==
  ASSUME NEW t, NEW S, Has(t, S), ~ t.crashed, NEW n \in Key, NEW d \in Dir,
         NEW p \in Key, p = t.parent[n]
  PROVE  Sound(InsertTurn(t, n, p, d), S)
<1> DEFINE inner == n = t.kid[Flip(d)][p]
           t1 == IF inner THEN Rotate(t, p, d) ELSE t
           n1 == IF inner THEN p ELSE n
           p1 == t1.parent[n1]
           g1 == t1.parent[p1]
           t2 == Paint(Paint(t1, p1, FALSE), g1, TRUE)
           t3 == Rotate(t2, g1, Flip(d))
<1>1. InsertTurn(t, n, p, d) = At(t3, n1)
  BY DEF InsertTurn
<1>2. Flip(d) \in Dir /\ n1 \in Key /\ n1 \in Node /\ p \in Node /\ Typed(t)
  BY Flips, NodeFacts DEF Has
<1>3. Has(t1, S)
  BY <1>2, RotateHas
<1>4. ~ t1.crashed => g1 \in Node
  <2>1. CASE inner
    <3>1. PICK s : Shaped(t, s, S)
      BY DEF Has
    <3>2. n # Nil /\ n # p
      BY <2>1, <3>1, Flips, NotItself, KeyFacts DEF Shaped
    <3> DEFINE u == Rotate(t, p, d)
    <3>3. t1 = u /\ n1 = p
      BY <2>1
    <3>4. u.parent[p] = n /\ u.parent[n] = t.parent[p]
      <4>1. Typed(t) /\ n = t.kid[Flip(d)][p]
        BY <1>2, <2>1
      <4>2. Rotate(t, p, d).parent[p] = n /\ Rotate(t, p, d).parent[n] = t.parent[p]
        <5>1. TurnsParents(t, p, d, n)
          BY <3>1, <3>2, <4>1, RotateParents
        <5> QED
          BY <5>1 DEF TurnsParents
      <4> QED
        BY <4>2
    <3> HIDE DEF u, t1, n1
    <3>5. p1 = n
      BY <3>3, <3>4
    <3> HIDE DEF p1
    <3>6. g1 = t.parent[p]
      BY <3>2, <3>3, <3>4, <3>5
    <3> QED
      BY <1>2, <3>6, TypedFields
  <2>2. CASE ~ inner
    <3>1. g1 = t.parent[p]
      BY <2>2
    <3> HIDE DEF g1
    <3> QED
      BY <1>2, <3>1, TypedFields
  <2> QED
    BY <2>1, <2>2
<1> HIDE DEF t1, n1, p1, g1
<1>5. Has(t2, S)
  BY <1>3, PaintHas
<1>6. t1.crashed => t2.crashed
  <2> DEFINE v == Paint(t1, p1, FALSE)
  <2>1. Typed(v) /\ v.crashed = t1.crashed
    BY <1>3, PaintFields DEF Has
  <2> HIDE DEF v
  <2>2. Paint(v, g1, TRUE).crashed = v.crashed
    BY <2>1, PaintFields
  <2> QED
    BY <2>1, <2>2 DEF v
<1> HIDE DEF t2
<1>7. Has(t3, S)
  <2>1. CASE t1.crashed
    BY <1>6, <2>1, RotateCrashed, CrashedHas
  <2>2. CASE ~ t1.crashed
    BY <1>2, <1>4, <1>5, <2>2, RotateHas
  <2> QED
    BY <2>1, <2>2
<1> HIDE DEF t3
<1> QED
  BY <1>1, <1>2, <1>7, AtSound

LEMMA InsertRoundSound ==
  ASSUME NEW t, NEW S, Has(t, S), NEW n \in Key
  PROVE  Sound(InsertRound(t, n), S)
<1> DEFINE p == t.parent[n]
           g == t.parent[p]
           d == SideOf(t, p)
           u == t.kid[Flip(d)][g]
           t1 == Paint(t, t.root, FALSE)
           t2 == Paint(Paint(Paint(t, p, FALSE), u, FALSE), g, TRUE)
           r == InsertRound(t, n)
<1>1. r = IF t.crashed THEN At(t, Nil)
          ELSE IF p = Nil \/ IsBlack(t, p) THEN At(t1, Nil)
          ELSE IF g = Nil THEN At(Crashed, Nil)
          ELSE IF IsRed(t, u) THEN At(t2, g)
          ELSE InsertTurn(t, n, p, d)
  BY DEF InsertRound
<1>2. Typed(t) /\ p \in Node /\ Nil \in Node /\ d \in Dir
  BY TypedFields, NodeFacts, SideInDir DEF Has
<1>3. p # Nil => p \in Key /\ g \in Node
  <2> HIDE DEF p
  <2>1. p # Nil => p \in Key
    BY <1>2, NodeFacts
  <2> QED
    BY <1>2, <2>1, TypedFields
<1>4. Has(t1, S) /\ Has(t2, S)
  <2>1. Has(t1, S)
    BY PaintHas
  <2> DEFINE v == Paint(t, p, FALSE)
             w == Paint(v, u, FALSE)
  <2>2. Has(v, S)
    BY PaintHas
  <2> HIDE DEF v
  <2>3. Has(w, S)
    BY <2>2, PaintHas
  <2> HIDE DEF w
  <2>4. Has(Paint(w, g, TRUE), S)
    BY <2>3, PaintHas
  <2> QED
    BY <2>1, <2>4 DEF v, w
<1> HIDE DEF g, d, u, t1, t2, r
<1>5. Sound(At(t, Nil), S) /\ Sound(At(t1, Nil), S) /\ Sound(At(Crashed, Nil), S)
  BY <1>2, <1>4, AtSound, CrashedHas
<1>6. p # Nil => Sound(At(t2, g), S)
  BY <1>3, <1>4, AtSound
<1>7. p # Nil /\ ~ t.crashed => Sound(InsertTurn(t, n, p, d), S)
  BY <1>2, <1>3, InsertTurnSound
<1>8. Sound(r, S)
  BY <1>1, <1>5, <1>6, <1>7
<1> QED
  BY <1>8 DEF r

LEMMA DeleteTurnSound ==
  ASSUME NEW t, NEW S, Has(t, S), NEW p \in Key, NEW d \in Dir, NEW s \in Node
  PROVE  Sound(DeleteTurn(t, p, d, s), S)
<1> DEFINE o == Flip(d)
           turn == s # Nil /\ t.kid[o][s] # Nil /\ ~ t.red[t.kid[o][s]]
           v  == Blacken(t, t.kid[d][s])
           w  == Paint(v, s, TRUE)
           t1 == IF turn THEN Rotate(w, s, o) ELSE t
           s1 == t1.kid[o][p]
           x  == Paint(t1, s1, t1.red[p])
           t2 == IF t1.crashed \/ s1 = Nil THEN t1 ELSE Blacken(x, t1.kid[o][s1])
           y  == Paint(t2, p, FALSE)
           t3 == Rotate(y, p, d)
<1>1. DeleteTurn(t, p, d, s) = At(t3, t3.root)
  BY DEF DeleteTurn
<1>2. o \in Dir /\ p \in Node
  BY Flips, NodeFacts
<1>3. Has(v, S)
  BY BlackenHas
<1> HIDE DEF o, turn, v
<1>4. Has(w, S)
  BY <1>3, PaintHas
<1> HIDE DEF w
<1>5. Has(t1, S)
  BY <1>2, <1>4, RotateHas
<1> HIDE DEF t1, s1
<1>6. t1.red[p] \in BOOLEAN
  BY <1>5, TypedFields DEF Has
<1>7. Has(x, S)
  BY <1>5, <1>6, PaintHas
<1> HIDE DEF x
<1>8. Has(t2, S)
  BY <1>5, <1>7, BlackenHas
<1> HIDE DEF t2
<1>9. Has(y, S)
  BY <1>8, PaintHas
<1> HIDE DEF y
<1>10. Has(t3, S)
  BY <1>2, <1>9, RotateHas
<1> HIDE DEF t3
<1>11. t3.root \in Node
  BY <1>10, TypedFields DEF Has
<1> QED
  BY <1>1, <1>10, <1>11, AtSound

LEMMA DeleteRoundSound ==
  ASSUME NEW t, NEW S, Has(t, S), NEW n \in Key
  PROVE  Sound(DeleteRound(t, n), S)
<1> DEFINE p  == t.parent[n]
           d  == SideOf(t, n)
           o  == Flip(d)
           s  == t.kid[o][p]
           v  == Paint(t, s, FALSE)
           w  == Paint(v, p, TRUE)
           t1 == IF IsRed(t, s) THEN Rotate(w, p, d) ELSE t
           s1 == t1.kid[o][p]
           t2 == Paint(t, n, FALSE)
           t3 == Paint(t1, s1, TRUE)
           r  == DeleteRound(t, n)
<1>1. r = IF t.crashed THEN At(t, Nil)
          ELSE IF n = t.root \/ IsRed(t, n) \/ p = Nil THEN At(t2, Nil)
          ELSE IF t1.crashed THEN At(t1, Nil)
          ELSE IF s1 # Nil /\ IsBlack(t1, t1.kid[d][s1]) /\ IsBlack(t1, t1.kid[o][s1])
               THEN At(t3, p)
          ELSE DeleteTurn(t1, p, d, s1)
  BY DEF DeleteRound
<1>2. Typed(t) /\ p \in Node /\ Nil \in Node /\ d \in Dir /\ o \in Dir
  BY TypedFields, NodeFacts, SideInDir, Flips DEF Has
<1> HIDE DEF p, d, o, s
<1>3. Has(v, S)
  BY PaintHas
<1> HIDE DEF v
<1>4. Has(w, S)
  BY <1>3, PaintHas
<1> HIDE DEF w
<1>5. Has(t1, S)
  BY <1>2, <1>4, RotateHas
<1> HIDE DEF t1
<1>6. Has(t2, S) /\ Has(t3, S)
  BY <1>5, PaintHas
<1>7. p # Nil => p \in Key /\ s1 \in Node
  <2>1. p # Nil => p \in Key
    BY <1>2, NodeFacts
  <2> QED
    BY <1>2, <1>5, <2>1, TypedFields DEF Has
<1> HIDE DEF s1, t2, t3, r
<1>8. Sound(At(t, Nil), S) /\ Sound(At(t1, Nil), S) /\ Sound(At(t2, Nil), S) /\ Sound(At(t3, p), S)
  BY <1>2, <1>5, <1>6, AtSound
<1>9. p # Nil => Sound(DeleteTurn(t1, p, d, s1), S)
  BY <1>2, <1>5, <1>7, DeleteTurnSound
<1>10. Sound(r, S)
  BY <1>1, <1>8, <1>9
<1> QED
  BY <1>10 DEF r

LEMMA RoundSound ==
  ASSUME NEW x, NEW S, Sound(x, S), NEW b
  PROVE  Sound(Round(x, b), S)
<1>1. x.node # Nil => x.node \in Key
  BY NodeFacts DEF Sound
<1> QED
  BY <1>1, InsertRoundSound, DeleteRoundSound DEF Sound, Round

\* The loop of a fixup, round by round.
RoundsOf(round, t, n, b) ==
  /\ \A i \in 0..Rounds : round[i] = IF i = 0 THEN At(t, n) ELSE Round(round[i - 1], b)
  /\ Fixed(t, n, b) = round[Rounds].tree

LEMMA FixedRounds ==
  ASSUME NEW t, NEW n, NEW b
  PROVE  \E round : RoundsOf(round, t, n, b)
<1> DEFINE Body(m, f) == [i \in 0..m |-> IF i = 0 THEN At(t, n) ELSE Round(f[i - 1], b)]
           F == {m \in 0..Rounds : \E f : f = Body(m, f)}
<1>0. Rounds \in Nat
  BY KeyFacts, FS_CardinalityType DEF Rounds
<1>1. 0 \in F
  <2> DEFINE f == [i \in 0..0 |-> At(t, n)]
  <2>1. f = Body(0, f)
    OBVIOUS
  <2>2. 0 \in 0..Rounds
    BY <1>0
  <2> HIDE DEF f, Body
  <2> QED
    BY <2>1, <2>2
<1>2. \A m \in 0..(Rounds - 1) : m \in F => m + 1 \in F
  <2> SUFFICES ASSUME NEW m \in 0..(Rounds - 1), NEW f, f = Body(m, f)
               PROVE  m + 1 \in F
    OBVIOUS
  <2> DEFINE g == [i \in 0..(m + 1) |-> IF i = m + 1 THEN Round(f[m], b) ELSE f[i]]
  <2>1. m \in Nat /\ m + 1 \in 0..Rounds
    BY <1>0
  <2>2. \A i \in 0..m : f[i] = IF i = 0 THEN At(t, n) ELSE Round(f[i - 1], b)
    OBVIOUS
  <2>3. \A i \in 0..(m + 1) : g[i] = IF i = 0 THEN At(t, n) ELSE Round(g[i - 1], b)
    <3> TAKE i \in 0..(m + 1)
    <3>1. CASE i = m + 1
      <4>1. i # 0 /\ i - 1 = m /\ m \in 0..(m + 1) /\ m # m + 1
        BY <2>1, <3>1
      <4>2. g[i - 1] = f[m] /\ g[i] = Round(f[m], b)
        BY <3>1, <4>1
      <4> HIDE DEF g
      <4> QED
        BY <4>1, <4>2
    <3>2. CASE i # m + 1
      <4>1. i \in 0..m
        BY <2>1, <3>2
      <4>2. g[i] = f[i]
        BY <3>2
      <4>3. i # 0 => g[i - 1] = f[i - 1]
        <5>1. i # 0 => i - 1 \in 0..(m + 1) /\ i - 1 # m + 1
          BY <2>1, <4>1
        <5> QED
          BY <5>1
      <4> HIDE DEF g
      <4> QED
        BY <2>2, <4>1, <4>2, <4>3
    <3> QED
      BY <3>1, <3>2
  <2>4. g = Body(m + 1, g)
    <3> DEFINE h == Body(m + 1, g)
    <3>1. h = [i \in 0..(m + 1) |-> g[i]]
      BY <2>3
    <3>2. g = [i \in 0..(m + 1) |-> g[i]]
      OBVIOUS
    <3> QED
      BY <3>1, <3>2
  <2> HIDE DEF g, Body
  <2> QED
    BY <2>1, <2>4
<1> HIDE DEF F
<1>3. \A m \in 0..Rounds : m \in F
  BY <1>0, <1>1, <1>2, IntervalInduction
<1>4. \E f : f = Body(Rounds, f)
  <2>1. Rounds \in F
    BY <1>0, <1>3
  <2> QED
    BY <2>1 DEF F
<1> DEFINE round == CHOOSE f : f = Body(Rounds, f)
<1>5. round = Body(Rounds, round)
  <2> HIDE DEF Body
  <2> QED
    BY <1>4
<1>6. Fixed(t, n, b) = round[Rounds].tree
  BY DEF Fixed
<1> HIDE DEF round
<1>7. \A i \in 0..Rounds : round[i] = IF i = 0 THEN At(t, n) ELSE Round(round[i - 1], b)
  BY <1>5
<1>8. RoundsOf(round, t, n, b)
  BY <1>6, <1>7 DEF RoundsOf
<1> QED
  BY <1>8

\* A fixup keeps the prices of a tree.
LEMMA FixedHas ==
  ASSUME NEW t, NEW S, Has(t, S), NEW n \in Node, NEW b
  PROVE  Has(Fixed(t, n, b), S)
<1>0. Rounds \in Nat
  BY KeyFacts, FS_CardinalityType DEF Rounds
<1>0a. PICK round : RoundsOf(round, t, n, b)
  BY FixedRounds
<1>1. /\ \A i \in 0..Rounds : round[i] = IF i = 0 THEN At(t, n) ELSE Round(round[i - 1], b)
      /\ Fixed(t, n, b) = round[Rounds].tree
  BY <1>0a DEF RoundsOf
<1> DEFINE G == {i \in 0..Rounds : Sound(round[i], S)}
<1>2. 0 \in G
  <2>1. 0 \in 0..Rounds
    BY <1>0
  <2>2. round[0] = At(t, n)
    BY <1>1, <2>1
  <2> QED
    BY <2>1, <2>2, AtSound
<1>3. \A i \in 0..(Rounds - 1) : i \in G => i + 1 \in G
  <2> SUFFICES ASSUME NEW i \in 0..(Rounds - 1), i \in G PROVE i + 1 \in G
    OBVIOUS
  <2>1. i + 1 \in 0..Rounds /\ i + 1 # 0 /\ (i + 1) - 1 = i
    BY <1>0
  <2>2. round[i + 1] = Round(round[i], b)
    BY <1>1, <2>1
  <2>3. Sound(round[i], S)
    OBVIOUS
  <2>4. Sound(round[i + 1], S)
    BY <2>2, <2>3, RoundSound
  <2> QED
    BY <2>1, <2>4
<1> HIDE DEF G
<1>4. \A i \in 0..Rounds : i \in G
  BY <1>0, <1>2, <1>3, IntervalInduction
<1>5. Sound(round[Rounds], S)
  BY <1>0, <1>4 DEF G
<1> QED
  BY <1>1, <1>5 DEF Sound

-----------------------------------------------------------------------------
(***************************************************************************)
(* The ways down the tree.                                                 *)
(***************************************************************************)

\* A set of nodes with a child of each of its nodes is empty: every way down ends.
LEMMA Descend ==
  ASSUME NEW r, NEW k, NEW p, NEW s, NEW S, Linked(r, k, p, S), Ordered(r, k, s, S),
         NEW B \in SUBSET S, \A m \in B : \E d \in Dir : k[d][m] \in B
  PROVE  B = {}
<1> DEFINE C == {s[m] : m \in B}
<1>1. S \subseteq Key /\ IsFiniteSet(S)
  BY KeyFacts, FS_Subset DEF Linked
<1>2. C \in SUBSET (SUBSET S)
  BY DEF Ordered
<1>3. ASSUME NEW T \in C PROVE \E U \in C : U \subseteq T /\ U # T
  <2>1. PICK m \in B : T = s[m]
    OBVIOUS
  <2>2. PICK d \in Dir : k[d][m] \in B
    BY <2>1
  <2>3. s[k[d][m]] \subseteq s[m] /\ m \in s[m] /\ s[k[d][m]] \in C
    BY <2>1, <2>2 DEF Ordered
  <2>4. m \notin s[k[d][m]]
    BY <1>1, TowardOrders DEF Ordered
  <2> QED
    BY <2>1, <2>3, <2>4
<1>4. C = {}
  <2> HIDE DEF C
  <2>1. C # {} => \E T \in C : \A U \in SUBSET T : U # T => U \notin C
    BY <1>1, <1>2, MinimalSubset
  <2> QED
    BY <1>3, <2>1
<1> QED
  BY <1>4

\* The child of n on the side of k is the way to it.
LEMMA WayFacts ==
  ASSUME NEW t, Typed(t), NEW s, NEW S, Shaped(t, s, S), NEW n \in Key, NEW k \in Key, n # k
  PROVE  /\ Way(t, n, k) \in S \cup {Nil}
         /\ n \notin S => Way(t, n, k) = Nil
         /\ \E d \in Dir : Way(t, n, k) = t.kid[d][n] /\ Toward(d, k, n)
         /\ n \in S => (k \in s[n] <=> k \in s[Way(t, n, k)])
<1> DEFINE d == IF Before(k, n) THEN "left" ELSE "right"
<1>1. d \in Dir /\ Toward(d, k, n)
  BY BeforeOrders DEF Toward, Dir
<1>2. Way(t, n, k) = t.kid[d][n]
  BY DEF Way
<1> HIDE DEF d
<1>3. Way(t, n, k) \in S \cup {Nil} /\ (n \notin S => Way(t, n, k) = Nil)
  BY <1>1, <1>2 DEF Shaped, Linked
<1>4. ASSUME n \in S, k \in s[n] PROVE k \in s[t.kid[d][n]]
  <2>1. PICK e \in Dir : k \in s[t.kid[e][n]]
    BY <1>4 DEF Shaped, Ordered
  <2>2. Toward(e, k, n)
    BY <1>4, <2>1 DEF Shaped, Ordered
  <2>3. e = d
    BY <1>1, <2>2, Flips, TowardOrders
  <2> QED
    BY <2>1, <2>3
<1>5. ASSUME n \in S, k \in s[t.kid[d][n]] PROVE k \in s[n]
  BY <1>1, <1>5 DEF Shaped, Ordered
<1> QED
  BY <1>1, <1>2, <1>3, <1>4, <1>5

\* find finds the prices in the tree and no other.
LEMMA FindFinds ==
  ASSUME NEW t, Typed(t), NEW s, NEW S, Shaped(t, s, S), NEW k \in Key
  PROVE  Find(t, k) = IF k \in S THEN k ELSE Nil
<1> DEFINE G(f) == [n \in Node |-> IF n \in {Nil, k} THEN n ELSE f[Way(t, n, k)]]
           F == [n \in Node |-> IF n = k \/ (n \in S /\ k \in s[n]) THEN k ELSE Nil]
           f0 == CHOOSE f : f = G(f)
<1>1. /\ Linked(t.root, t.kid, t.parent, S) /\ Ordered(t.root, t.kid, s, S)
      /\ S \subseteq Key /\ Nil \notin Key /\ k # Nil
      /\ t.root \in S \cup {Nil} /\ s[t.root] = S /\ s[Nil] = {} /\ \A n \in S : n \in s[n]
  BY KeyFacts DEF Shaped, Linked, Ordered
<1>2. \A n \in Key \ {k} : /\ Way(t, n, k) \in S \cup {Nil} /\ Way(t, n, k) \in Node
                          /\ n \notin S => Way(t, n, k) = Nil
                          /\ \E d \in Dir : Way(t, n, k) = t.kid[d][n]
                          /\ n \in S => (k \in s[n] <=> k \in s[Way(t, n, k)])
  BY <1>1, WayFacts, NodeFacts
<1>3. F[Nil] = Nil /\ \A n \in Key : F[n] = IF n = k \/ (n \in S /\ k \in s[n]) THEN k ELSE Nil
  BY <1>1, NodeFacts
<1>4. F = G(F)
  <2>1. \A n \in Node : F[n] = IF n \in {Nil, k} THEN n ELSE F[Way(t, n, k)]
    <3> TAKE n \in Node
    <3>1. CASE n \in {Nil, k}
      BY <1>3, <3>1
    <3>2. CASE n \notin {Nil, k}
      <4>1. n \in Key
        BY <3>2, NodeFacts
      <4> DEFINE w == Way(t, n, k)
      <4>2. w \in S \cup {Nil} /\ (n \notin S => w = Nil) /\ (n \in S => (k \in s[n] <=> k \in s[w]))
        BY <3>2, <4>1, WayFacts
      <4> HIDE DEF F, w
      <4>3. F[n] = IF n \in S /\ k \in s[n] THEN k ELSE Nil
        BY <1>3, <3>2, <4>1
      <4>4. F[w] = IF n \in S /\ k \in s[n] THEN k ELSE Nil
        <5>1. CASE w = Nil
          BY <1>1, <1>3, <4>2, <5>1
        <5>2. CASE w # Nil
          BY <1>1, <1>3, <4>2, <5>2
        <5> QED
          BY <5>1, <5>2
      <4>5. F[n] = F[w]
        BY <4>3, <4>4
      <4> QED
        BY <3>2, <4>5 DEF w
    <3> QED
      BY <3>1, <3>2
  <2>2. F = [n \in Node |-> F[n]]
    OBVIOUS
  <2> HIDE DEF F
  <2> QED
    BY <2>1, <2>2
<1> HIDE DEF F
<1>5. f0 = G(f0)
  <2> HIDE DEF G
  <2> QED
    BY <1>4
<1> HIDE DEF f0
<1>6. \A n \in Node : f0[n] = IF n \in {Nil, k} THEN n ELSE f0[Way(t, n, k)]
  BY <1>5
<1> DEFINE B == {n \in S : f0[n] # F[n]}
<1>7. B = {}
  <2>0. \A n \in Node : F[n] = IF n \in {Nil, k} THEN n ELSE F[Way(t, n, k)]
    BY <1>4 DEF G
  <2>1. ASSUME NEW m \in B PROVE \E d \in Dir : t.kid[d][m] \in B
    <3>1. m \in Key /\ m \in Node /\ m \in S /\ m # k /\ m # Nil /\ f0[m] # F[m]
      BY <1>1, <1>3, <1>6, <2>1, NodeFacts
    <3> DEFINE w == Way(t, m, k)
    <3>2. f0[m] = f0[w] /\ F[m] = F[w]
      BY <1>6, <2>0, <3>1
    <3>3. PICK d \in Dir : w = t.kid[d][m] /\ w \in S \cup {Nil}
      BY <3>1, WayFacts
    <3> HIDE DEF w
    <3>4. w # Nil
      BY <1>3, <1>6, <3>1, <3>2, NodeFacts
    <3>5. w \in B
      BY <3>1, <3>2, <3>3, <3>4
    <3> QED
      BY <3>3, <3>5
  <2> HIDE DEF B
  <2>2. B \in SUBSET S
    BY DEF B
  <2> QED
    BY <1>1, <2>1, <2>2, Descend
<1>8. f0[t.root] = IF k \in S THEN k ELSE Nil
  <2>1. CASE t.root = Nil
    BY <1>1, <1>6, <2>1, NodeFacts
  <2>2. CASE t.root \in S
    BY <1>1, <1>3, <1>7, <2>2
  <2> QED
    BY <1>1, <2>1, <2>2
<1>9. Find(t, k) = f0[t.root]
  BY DEF Find, f0, G
<1> QED
  BY <1>8, <1>9

\* The best price of X.
Least(X) == CHOOSE x \in X : \A y \in X : y = x \/ Before(x, y)

IsLeast(x, X) == x \in X /\ \A y \in X : y = x \/ Before(x, y)

LEMMA LeastIs ==
  ASSUME NEW X \in SUBSET Key, NEW x, IsLeast(x, X)
  PROVE  Least(X) = x
<1>1. x \in X /\ \A y \in X : y = x \/ Before(x, y)
  BY DEF IsLeast
<1>2. Least(X) \in X /\ \A y \in X : y = Least(X) \/ Before(Least(X), y)
  BY <1>1 DEF Least
<1>3. ~ (Before(x, Least(X)) /\ Before(Least(X), x))
  BY <1>1, <1>2, BeforeOrders
<1> QED
  BY <1>1, <1>2, <1>3

\* The best price below n is n, or the best below its left child.
LEMMA LeastStep ==
  ASSUME NEW r, NEW k, NEW p, NEW s, NEW S, Linked(r, k, p, S), Ordered(r, k, s, S),
         NEW n \in S, NEW l, l = k["left"][n]
  PROVE  /\ l = Nil => IsLeast(n, s[n])
         /\ \A x : l # Nil /\ IsLeast(x, s[l]) => IsLeast(x, s[n])
<1>1. /\ S \subseteq Key /\ Nil \notin S /\ n \in s[n] /\ s[n] \subseteq S /\ s[Nil] = {}
      /\ l \in S \cup {Nil} /\ s[l] \subseteq s[n] /\ "left" \in Dir
      /\ \A m \in s[n] : m = n \/ m \in s[l] \/ m \in s[k["right"][n]]
      /\ \A m \in s[l] : Before(m, n)
      /\ \A m \in s[k["right"][n]] : Before(n, m)
  BY KeyFacts DEF Linked, Ordered, Toward, Dir
<1>2. l = Nil => IsLeast(n, s[n])
  BY <1>1 DEF IsLeast
<1>3. ASSUME NEW x, l # Nil, IsLeast(x, s[l]) PROVE IsLeast(x, s[n])
  <2>1. x \in s[l] /\ (\A y \in s[l] : y = x \/ Before(x, y)) /\ x \in s[n]
    BY <1>1, <1>3 DEF IsLeast
  <2>2. Before(x, n)
    BY <1>1, <2>1
  <2>3. \A y \in s[k["right"][n]] : y \in S => Before(x, y)
    BY <1>1, <2>1, <2>2, BeforeOrders
  <2>4. ASSUME NEW y \in s[n] PROVE y = x \/ Before(x, y)
    BY <1>1, <2>1, <2>2, <2>3
  <2> QED
    BY <2>1, <2>4 DEF IsLeast
<1> QED
  BY <1>2, <1>3

LEMMA LeastExists ==
  ASSUME NEW r, NEW k, NEW p, NEW s, NEW S, Linked(r, k, p, S), Ordered(r, k, s, S)
  PROVE  \A n \in S : IsLeast(Least(s[n]), s[n])
<1> DEFINE B == {n \in S : ~ \E x : IsLeast(x, s[n])}
<1>1. ASSUME NEW m \in B PROVE \E d \in Dir : k[d][m] \in B
  <2>1. m \in S /\ ~ \E x : IsLeast(x, s[m])
    OBVIOUS
  <2> DEFINE l == k["left"][m]
  <2>2. /\ l = Nil => IsLeast(m, s[m])
        /\ \A x : l # Nil /\ IsLeast(x, s[l]) => IsLeast(x, s[m])
    BY <2>1, LeastStep
  <2>3. l \in S \cup {Nil} /\ "left" \in Dir
    BY <2>1 DEF Linked, Dir
  <2>4. l \in B
    BY <2>1, <2>2, <2>3
  <2> QED
    BY <2>3, <2>4
<1>2. B = {}
  <2> HIDE DEF B
  <2>1. B \in SUBSET S
    BY DEF B
  <2> QED
    BY <1>1, <2>1, Descend
<1> SUFFICES ASSUME NEW n \in S PROVE IsLeast(Least(s[n]), s[n])
  OBVIOUS
<1>3. PICK x : IsLeast(x, s[n])
  BY <1>2
<1>4. s[n] \in SUBSET Key
  BY DEF Linked, Ordered
<1> QED
  BY <1>3, <1>4, LeastIs

LEMMA LeastBelow ==
  ASSUME NEW r, NEW k, NEW p, NEW s, NEW S, Linked(r, k, p, S), Ordered(r, k, s, S)
  PROVE  \A m \in S : Least(s[m]) = IF k["left"][m] = Nil THEN m ELSE Least(s[k["left"][m]])
<1> SUFFICES ASSUME NEW m \in S, NEW l, l = k["left"][m]
             PROVE  Least(s[m]) = IF l = Nil THEN m ELSE Least(s[l])
  OBVIOUS
<1>1. s[m] \in SUBSET Key /\ l \in S \cup {Nil}
  BY NodeFacts DEF Linked, Ordered
<1>2. /\ l = Nil => IsLeast(m, s[m])
      /\ \A x : l # Nil /\ IsLeast(x, s[l]) => IsLeast(x, s[m])
  BY LeastStep
<1>3. l # Nil => IsLeast(Least(s[l]), s[l])
  BY <1>1, LeastExists
<1>4. CASE l = Nil
  BY <1>1, <1>2, <1>4, LeastIs
<1>5. CASE l # Nil
  BY <1>1, <1>2, <1>3, <1>5, LeastIs
<1> QED
  BY <1>4, <1>5

\* The way to the left, one node at a time.
LEMMA LeftmostStep ==
  ASSUME NEW t, Typed(t), NEW s, NEW S, Shaped(t, s, S)
  PROVE  \A m \in Node : Leftmost(t, m) = IF m = Nil \/ t.kid["left"][m] = Nil THEN m
                                         ELSE Leftmost(t, t.kid["left"][m])
<1> DEFINE L(m) == t.kid["left"][m]
           G(f) == [m \in Node |-> IF m = Nil \/ L(m) = Nil THEN m ELSE f[L(m)]]
           F == [m \in Node |-> IF m \in S THEN Least(s[m]) ELSE m]
           f0 == CHOOSE f : f = G(f)
<1>1. /\ Linked(t.root, t.kid, t.parent, S) /\ Ordered(t.root, t.kid, s, S)
      /\ S \subseteq Key /\ S \subseteq Node /\ Nil \notin S /\ "left" \in Dir
      /\ \A m \in S : s[m] \in SUBSET Key
  BY KeyFacts, NodeFacts DEF Shaped, Linked, Ordered
<1>2. \A m \in S : L(m) \in S \cup {Nil}
  BY <1>1 DEF Linked
<1>3. \A m \in Key : m \notin S => L(m) = Nil
  BY <1>1 DEF Linked
<1>5. \A m \in S : Least(s[m]) = IF L(m) = Nil THEN m ELSE Least(s[L(m)])
  BY <1>1, LeastBelow
<1>6. \A m \in Node : F[m] = IF m \in S THEN Least(s[m]) ELSE m
  OBVIOUS
<1>7. F = G(F)
  <2>1. \A m \in Node : F[m] = IF m = Nil \/ L(m) = Nil THEN m ELSE F[L(m)]
    <3> HIDE DEF F
    <3> TAKE m \in Node
    <3>1. CASE m \notin S
      <4>1. m = Nil \/ L(m) = Nil
        BY <1>3, <3>1, NodeFacts
      <4> HIDE DEF L
      <4> QED
        BY <1>6, <3>1, <4>1
    <3>2. CASE m \in S /\ L(m) = Nil
      BY <1>5, <1>6, <3>2
    <3>3. CASE m \in S /\ L(m) # Nil
      <4>1. L(m) \in S /\ m # Nil /\ L(m) \in Node
        BY <1>1, <1>2, <3>3
      <4>2. Least(s[m]) = Least(s[L(m)])
        BY <1>5, <3>3
      <4> HIDE DEF L
      <4> QED
        BY <1>6, <3>3, <4>1, <4>2
    <3> QED
      BY <3>1, <3>2, <3>3
  <2>2. F = [m \in Node |-> F[m]]
    OBVIOUS
  <2> HIDE DEF F, L
  <2> QED
    BY <2>1, <2>2
<1> HIDE DEF F
<1>8. f0 = G(f0)
  <2> HIDE DEF G
  <2> QED
    BY <1>7
<1> HIDE DEF f0
<1>9. \A m \in Node : f0[m] = IF m = Nil \/ L(m) = Nil THEN m ELSE f0[L(m)]
  <2> HIDE DEF L
  <2> QED
    BY <1>8
<1>10. \A m \in Node : Leftmost(t, m) = f0[m]
  BY DEF Leftmost, f0, G
<1> SUFFICES ASSUME NEW m \in Node
             PROVE  Leftmost(t, m) = IF m = Nil \/ L(m) = Nil THEN m ELSE Leftmost(t, L(m))
  OBVIOUS
<1>11. m = Nil \/ L(m) \in Node
  BY TypedFields, NodeFacts
<1> HIDE DEF L, G
<1> QED
  BY <1>9, <1>10, <1>11

\* minimum finds the best price below n, which has no left child.
LEMMA LeftmostLeast ==
  ASSUME NEW t, Typed(t), NEW s, NEW S, Shaped(t, s, S), NEW n \in S
  PROVE  /\ Leftmost(t, n) = Least(s[n]) /\ IsLeast(Least(s[n]), s[n])
         /\ t.kid["left"][Least(s[n])] = Nil
<1> DEFINE L(m) == t.kid["left"][m]
<1>1. /\ Linked(t.root, t.kid, t.parent, S) /\ Ordered(t.root, t.kid, s, S)
      /\ S \subseteq Key /\ S \subseteq Node /\ Nil \notin S /\ "left" \in Dir
      /\ \A m \in S : s[m] \in SUBSET Key
  BY KeyFacts, NodeFacts DEF Shaped, Linked, Ordered
<1>2. \A m \in S : L(m) \in S \cup {Nil}
  BY <1>1 DEF Linked
<1>4. \A m \in S : IsLeast(Least(s[m]), s[m])
  BY <1>1, LeastExists
<1>5. \A m \in S : Least(s[m]) = IF L(m) = Nil THEN m ELSE Least(s[L(m)])
  BY <1>1, LeastBelow
<1>9. \A m \in Node : Leftmost(t, m) = IF m = Nil \/ L(m) = Nil THEN m ELSE Leftmost(t, L(m))
  BY LeftmostStep
<1> DEFINE B == {m \in S : Leftmost(t, m) # Least(s[m])}
<1>10. B = {}
  <2>1. ASSUME NEW m \in B PROVE \E d \in Dir : t.kid[d][m] \in B
    <3>1. m \in S /\ m \in Node /\ m # Nil /\ Leftmost(t, m) # Least(s[m])
      BY <1>1, <2>1
    <3>2. Leftmost(t, m) = IF L(m) = Nil THEN m ELSE Leftmost(t, L(m))
      BY <1>9, <3>1
    <3>3. L(m) # Nil /\ Leftmost(t, L(m)) # Least(s[L(m)])
      BY <1>5, <3>1, <3>2
    <3>4. L(m) \in B
      BY <1>2, <3>1, <3>3
    <3> QED
      BY <1>1, <3>4
  <2>2. B \in SUBSET S
    OBVIOUS
  <2> HIDE DEF B
  <2> QED
    BY <1>1, <2>1, <2>2, Descend
<1>12. L(Least(s[n])) = Nil
  <2> DEFINE x == Least(s[n])
             l == L(x)
  <2>1. x \in s[n] /\ \A y \in s[n] : y = x \/ Before(x, y)
    BY <1>4 DEF IsLeast
  <2>2. x \in S /\ s[x] \subseteq s[n]
    BY <1>1, <2>1 DEF Ordered
  <2>3. l \in S \cup {Nil} /\ s[l] \subseteq s[x] /\ (l \in S => l \in s[l] /\ Before(l, x))
    <3>1. l \in S \cup {Nil}
      BY <1>2, <2>2
    <3>2. s[l] \subseteq s[x] /\ \A m \in s[l] : Before(m, x)
      BY <1>1, <2>2 DEF Ordered, Toward
    <3>3. l \in S => l \in s[l]
      BY <1>1 DEF Ordered
    <3> QED
      BY <3>1, <3>2, <3>3
  <2> HIDE DEF x, l
  <2>4. l \notin S
    <3> SUFFICES ASSUME l \in S PROVE FALSE
      OBVIOUS
    <3>1. l \in s[n] /\ Before(l, x) /\ l \in Key /\ x \in Key
      BY <1>1, <2>2, <2>3
    <3>2. l = x \/ Before(x, l)
      BY <2>1, <3>1
    <3> QED
      BY <3>1, <3>2, BeforeOrders
  <2> QED
    BY <2>3, <2>4 DEF l, x
<1> QED
  BY <1>4, <1>10, <1>12

-----------------------------------------------------------------------------
(***************************************************************************)
(* Insertion.                                                              *)
(***************************************************************************)

\* Repeating a step g on nodes until it leads to Nil is a function: its value
\* at n is the one last node that every set with n and all its steps contains.
LEMMA StepsEnd ==
  ASSUME NEW g, \A n \in Key : g[n] \in Key \cup {Nil}
  PROVE  \E f : f = [n \in Key |-> IF g[n] = Nil THEN n ELSE f[g[n]]]
<1> DEFINE Closed(C) == \A x \in C : g[x] # Nil => g[x] \in C
           Ends(n) == {m \in Key : g[m] = Nil /\ \A C \in SUBSET Key : n \in C /\ Closed(C) => m \in C}
           F == [n \in Key |-> CHOOSE m : m \in Ends(n)]
<1>1. \A n \in Key : g[n] = Nil => Ends(n) = {n}
  <2> SUFFICES ASSUME NEW n \in Key, g[n] = Nil PROVE Ends(n) = {n}
    OBVIOUS
  <2>1. Closed({n}) /\ {n} \in SUBSET Key
    OBVIOUS
  <2> HIDE DEF Closed
  <2> QED
    BY <2>1
<1>2. \A n \in Key : g[n] # Nil => Ends(n) = Ends(g[n])
  <2> SUFFICES ASSUME NEW n \in Key, g[n] # Nil PROVE Ends(n) = Ends(g[n])
    OBVIOUS
  <2>1. ASSUME NEW m \in Ends(g[n]) PROVE m \in Ends(n)
    <3>1. \A C \in SUBSET Key : n \in C /\ Closed(C) => g[n] \in C
      OBVIOUS
    <3> HIDE DEF Closed
    <3> QED
      BY <3>1
  <2>2. ASSUME NEW m \in Ends(n) PROVE m \in Ends(g[n])
    <3> SUFFICES ASSUME NEW C \in SUBSET Key, g[n] \in C, Closed(C) PROVE m \in C
      OBVIOUS
    <3>1. Closed(C \cup {n}) /\ C \cup {n} \in SUBSET Key
      OBVIOUS
    <3> HIDE DEF Closed
    <3>2. m \in C \cup {n} /\ g[m] = Nil
      BY <3>1
    <3> QED
      BY <3>2
  <2> QED
    BY <2>1, <2>2
<1> HIDE DEF Ends
<1>3. \A n \in Key : F[n] = IF g[n] = Nil THEN n ELSE F[g[n]]
  <2> SUFFICES ASSUME NEW n \in Key PROVE F[n] = IF g[n] = Nil THEN n ELSE F[g[n]]
    OBVIOUS
  <2>1. CASE g[n] = Nil
    BY <1>1, <2>1
  <2>2. CASE g[n] # Nil
    BY <1>2, <2>2
  <2> QED
    BY <2>1, <2>2
<1>4. F = [n \in Key |-> F[n]]
  OBVIOUS
<1> HIDE DEF F
<1>5. F = [n \in Key |-> IF g[n] = Nil THEN n ELSE F[g[n]]]
  BY <1>3, <1>4
<1> QED
  BY <1>5

\* q is where k may be hung below n: the way from q to k is free, and k belongs
\* wherever q does.
Lands(t, s, k, n, q) ==
  /\ q \in s[n] /\ Way(t, q, k) = Nil
  /\ \A m \in s[n] : \A d \in Dir : q \in s[t.kid[d][m]] => Toward(d, k, m)

LEMMA LandsHere ==
  ASSUME NEW t, NEW s, NEW S, Shaped(t, s, S), NEW k, NEW n \in S, Way(t, n, k) = Nil
  PROVE  Lands(t, s, k, n, n)
<1>1. /\ S \subseteq Key /\ n \in s[n] /\ s[Nil] = {} /\ s[n] \subseteq S
      /\ \A m \in S : \A d \in Dir : t.kid[d][m] \in S \cup {Nil} /\ s[t.kid[d][m]] \subseteq s[m]
      /\ \A m \in S : \A d \in Dir : \A j \in s[t.kid[d][m]] : Toward(d, j, m)
      /\ \A m \in S : \A j \in s[m] : s[j] \subseteq s[m]
  BY DEF Shaped, Linked, Ordered
<1>2. \A m \in S : \A d \in Dir : m \notin s[t.kid[d][m]]
  BY <1>1, TowardOrders
<1>3. ASSUME NEW m \in s[n], NEW d \in Dir, n \in s[t.kid[d][m]] PROVE FALSE
  <2>1. m \in S /\ m # n /\ n \in s[m]
    BY <1>1, <1>2, <1>3
  <2>2. PICK e \in Dir : m \in s[t.kid[e][n]]
    BY <2>1 DEF Shaped, Ordered
  <2>3. t.kid[e][n] \in S
    BY <1>1, <2>2
  <2>4. s[m] \subseteq s[t.kid[e][n]]
    BY <1>1, <2>2, <2>3
  <2> QED
    BY <1>2, <2>1, <2>4
<1> QED
  BY <1>1, <1>3 DEF Lands

LEMMA LandsBelow ==
  ASSUME NEW t, NEW s, NEW S, Shaped(t, s, S), NEW k, NEW n \in S, NEW e \in Dir,
         NEW w, w = t.kid[e][n], w # Nil, Toward(e, k, n), NEW q, Lands(t, s, k, w, q)
  PROVE  Lands(t, s, k, n, q)
<1>1. /\ S \subseteq Key /\ n \in s[n] /\ s[Nil] = {} /\ s[n] \subseteq S
      /\ \A m \in S : \A d \in Dir : t.kid[d][m] \in S \cup {Nil} /\ s[t.kid[d][m]] \subseteq s[m]
      /\ \A m \in S : \A d \in Dir : \A j \in s[t.kid[d][m]] : Toward(d, j, m)
      /\ \A m \in S : \A j \in s[m] : s[j] \subseteq s[m]
  BY DEF Shaped, Linked, Ordered
<1>2. /\ q \in s[w] /\ Way(t, q, k) = Nil
      /\ \A m \in s[w] : \A d \in Dir : q \in s[t.kid[d][m]] => Toward(d, k, m)
  BY DEF Lands
<1>3. q \in s[n] /\ q \in Key /\ n \in Key /\ Toward(e, q, n)
  BY <1>1, <1>2
<1>4. ASSUME NEW m \in s[n], NEW d \in Dir, q \in s[t.kid[d][m]] PROVE Toward(d, k, m)
  <2>1. CASE m = n
    <3>1. Toward(d, q, n)
      BY <1>1, <1>4, <2>1
    <3>2. d = e
      BY <1>3, <3>1, Flips, TowardOrders
    <3> QED
      BY <2>1, <3>2
  <2>2. CASE m # n
    <3>1. PICK f \in Dir : m \in s[t.kid[f][n]]
      BY <2>2 DEF Shaped, Ordered
    <3>2. t.kid[f][n] \in S /\ m \in S
      BY <1>1, <3>1
    <3>3. q \in s[m] /\ s[m] \subseteq s[t.kid[f][n]]
      BY <1>1, <1>4, <3>1, <3>2
    <3>4. Toward(f, q, n)
      BY <1>1, <3>3
    <3>5. f = e
      BY <1>3, <3>4, Flips, TowardOrders
    <3> QED
      BY <1>2, <1>4, <3>1, <3>5
  <2> QED
    BY <2>1, <2>2
<1> QED
  BY <1>2, <1>3, <1>4 DEF Lands

\* insert finds such a place for a price that has no node.
LEMMA LandingLands ==
  ASSUME NEW t, Typed(t), NEW s, NEW S, Shaped(t, s, S), NEW k \in Key \ S, t.root # Nil
  PROVE  Lands(t, s, k, t.root, Landing(t, k))
<1> DEFINE G(f) == [n \in Key |-> IF Way(t, n, k) = Nil THEN n ELSE f[Way(t, n, k)]]
           f0 == CHOOSE f : f = G(f)
           g == [n \in Key |-> IF n = k THEN Nil ELSE Way(t, n, k)]
<1>1. /\ Linked(t.root, t.kid, t.parent, S) /\ Ordered(t.root, t.kid, s, S)
      /\ S \subseteq Key /\ t.root \in S /\ Nil \notin S /\ Nil \notin Key
  BY KeyFacts DEF Shaped, Linked
<1>2. \A n \in Key : n # k => Way(t, n, k) \in S \cup {Nil}
  BY WayFacts
<1>3. Way(t, k, k) = Nil
  <2>1. \A d \in Dir : t.kid[d][k] = Nil
    BY <1>1 DEF Linked
  <2> QED
    BY <2>1, NodeFacts DEF Way
<1>4. \A n \in Key : g[n] = Way(t, n, k) /\ g[n] \in Key \cup {Nil}
  BY <1>1, <1>2, <1>3
<1> HIDE DEF g
<1>5. PICK f : f = [n \in Key |-> IF g[n] = Nil THEN n ELSE f[g[n]]]
  BY <1>4, StepsEnd
<1>6. f = G(f)
  BY <1>4, <1>5
<1>7. f0 = G(f0)
  <2> HIDE DEF G
  <2> QED
    BY <1>6
<1> HIDE DEF f0
<1>8. \A n \in Key : f0[n] = IF Way(t, n, k) = Nil THEN n ELSE f0[Way(t, n, k)]
  BY <1>7
<1> DEFINE B == {n \in S : ~ Lands(t, s, k, n, f0[n])}
<1>9. B = {}
  <2>1. ASSUME NEW m \in B PROVE \E d \in Dir : t.kid[d][m] \in B
    <3>1. m \in S /\ m \in Key /\ m # k /\ ~ Lands(t, s, k, m, f0[m])
      BY <1>1
    <3> DEFINE w == Way(t, m, k)
    <3>2. f0[m] = IF w = Nil THEN m ELSE f0[w]
      BY <1>8, <3>1
    <3>3. w # Nil
      BY <3>1, <3>2, LandsHere
    <3>4. PICK d \in Dir : w = t.kid[d][m] /\ Toward(d, k, m) /\ w \in S \cup {Nil}
      BY <3>1, WayFacts
    <3> HIDE DEF w
    <3>5. ~ Lands(t, s, k, w, f0[w])
      BY <3>1, <3>2, <3>3, <3>4, LandsBelow
    <3>6. w \in B
      BY <3>3, <3>4, <3>5
    <3> QED
      BY <3>4, <3>6
  <2>2. B \in SUBSET S
    OBVIOUS
  <2> HIDE DEF B
  <2> QED
    BY <1>1, <2>1, <2>2, Descend
<1>10. Lands(t, s, k, t.root, f0[t.root])
  BY <1>1, <1>9
<1>11. Landing(t, k) = f0[t.root]
  BY DEF Landing, f0, G
<1> QED
  BY <1>10, <1>11

LEMMA LeafedHas ==
  ASSUME NEW t, NEW S, Has(t, S), ~ t.crashed, t.root # Nil, NEW k \in Key \ S
  PROVE  Has(Leafed(t, k), S \cup {k})
<1>1. PICK s : Shaped(t, s, S)
  BY DEF Has
<1> DEFINE p == Landing(t, k)
           d == IF Before(k, p) THEN "left" ELSE "right"
           u == Leafed(t, k)
           s2 == [m \in Node |-> IF m = k THEN {k} ELSE IF p \in s[m] THEN s[m] \cup {k} ELSE s[m]]
<1>2. Typed(t) /\ Linked(t.root, t.kid, t.parent, S) /\ Ordered(t.root, t.kid, s, S)
  BY <1>1 DEF Has, Shaped
<1>3. S \subseteq Key /\ s[t.root] = S /\ s[Nil] = {} /\ Nil \notin Key
  BY <1>2, KeyFacts DEF Linked, Ordered
<1>4. Lands(t, s, k, t.root, p)
  BY <1>1, <1>2, LandingLands
<1>5. p \in S /\ Way(t, p, k) = Nil /\ \A m \in S : \A e \in Dir : p \in s[t.kid[e][m]] => Toward(e, k, m)
  BY <1>3, <1>4 DEF Lands
<1>6. p \in Key /\ p # k
  BY <1>3, <1>5
<1>7. u = Adopt(t, d, p, k)
  BY DEF Leafed
<1>8. t.kid[d][p] = Nil
  BY <1>5 DEF Way
<1> HIDE DEF p
<1>9. d \in Dir /\ Toward(d, k, p)
  BY <1>6, BeforeOrders DEF Toward, Dir
<1> HIDE DEF d, u
<1>10. /\ Typed(u) /\ u.root = t.root /\ u.crashed = t.crashed
       /\ \A e \in Dir : \A m \in Key : u.kid[e][m] = IF e = d /\ m = p THEN k ELSE t.kid[e][m]
       /\ \A m \in Key : u.parent[m] = IF m = k THEN p ELSE t.parent[m]
  <2>1. Adopts(t, d, p, k, u)
    BY <1>2, <1>6, <1>7, <1>9, NodeFacts, AdoptStep
  <2> QED
    BY <2>1 DEF Adopts
<1>11. /\ s2[Nil] = {} /\ s2[k] = {k}
       /\ \A m \in Key \ {k} : s2[m] = IF p \in s[m] THEN s[m] \cup {k} ELSE s[m]
  BY <1>3, NodeFacts
<1> HIDE DEF s2
<1>12. Hung(t.root, t.kid, t.parent, s, k, p, d, u.root, u.kid, u.parent, s2)
  BY <1>10, <1>11 DEF Hung
<1>13. Linked(u.root, u.kid, u.parent, S \cup {k}) /\ Ordered(u.root, u.kid, s2, S \cup {k})
  BY <1>2, <1>5, <1>8, <1>9, <1>12, HungKeeps
<1> QED
  BY <1>10, <1>13 DEF Has, Shaped, u

\* insert of a price that has no node gives it one, and no other.
LEMMA InsertedHas ==
  ASSUME NEW t, NEW S, Has(t, S), ~ t.crashed, NEW k \in Key \ S
  PROVE  Has(Inserted(t, k), S \cup {k})
<1>1. CASE t.root # Nil
  <2>1. Has(Leafed(t, k), S \cup {k})
    BY <1>1, LeafedHas
  <2>2. Has(Fixed(Leafed(t, k), k, FALSE), S \cup {k})
    BY <2>1, FixedHas, NodeFacts
  <2> QED
    BY <1>1, <2>2 DEF Inserted
<1>2. CASE t.root = Nil
  <2> DEFINE u == [t EXCEPT !.root = k]
             s2 == [m \in Node |-> IF m = k THEN {k} ELSE {}]
  <2>1. PICK s : Shaped(t, s, S)
    BY DEF Has
  <2>2. Typed(t) /\ S = {} /\ Nil \notin Key /\ k \in Node /\ k # Nil
    BY <1>2, <2>1, KeyFacts, NodeFacts DEF Has, Shaped, Ordered
  <2>3. \A m \in Key : t.parent[m] = Nil /\ \A d \in Dir : t.kid[d][m] = Nil
    BY <2>1, <2>2 DEF Shaped, Linked
  <2>4. Typed(u) /\ u.root = k /\ u.kid = t.kid /\ u.parent = t.parent
    BY <2>2, RootFields
  <2>5. s2[Nil] = {} /\ s2[k] = {k}
    BY <2>2, NodeFacts
  <2> HIDE DEF u, s2
  <2>6. Linked(u.root, u.kid, u.parent, {k})
    BY <2>2, <2>3, <2>4 DEF Linked
  <2>7. Ordered(u.root, u.kid, s2, {k})
    BY <2>2, <2>3, <2>4, <2>5 DEF Ordered
  <2>8. Has(u, S \cup {k})
    <3>1. S \cup {k} = {k}
      BY <2>2
    <3> QED
      BY <2>4, <2>6, <2>7, <3>1 DEF Has, Shaped
  <2>9. Has(Paint(u, k, FALSE), S \cup {k})
    BY <2>8, PaintHas
  <2> QED
    BY <1>2, <2>9 DEF Inserted, u
<1> QED
  BY <1>1, <1>2

-----------------------------------------------------------------------------
(***************************************************************************)
(* Removal.                                                                *)
(***************************************************************************)

\* v is put in the place that z has in t, in a tree t1 that may have changed elsewhere.
Puts(t, t1, z, v, w) ==
  /\ Typed(w) /\ w.red = t1.red /\ w.crashed = t1.crashed
  /\ w.root = IF t.root = z THEN v ELSE t1.root
  /\ \A e \in Dir : \A m \in Key : w.kid[e][m] = IF t.kid[e][m] = z THEN v ELSE t1.kid[e][m]
  /\ \A m \in Key : w.parent[m] = IF m = v THEN t.parent[z] ELSE t1.parent[m]

LEMMA TransplantPuts ==
  ASSUME NEW t, Typed(t), NEW s, NEW S, Shaped(t, s, S), NEW t1, Typed(t1), NEW z \in S,
         t1.parent[z] = t.parent[z], NEW v \in Node,
         t.parent[z] # Nil => (t1.kid["left"][t.parent[z]] = z <=> t.kid["left"][t.parent[z]] = z)
  PROVE  Puts(t, t1, z, v, Transplant(t1, z, v))
<1> DEFINE q == t.parent[z]
           h == SideOf(t1, z)
           u == Hang(t1, z, v)
           w == Transplant(t1, z, v)
<1>1. z \in Key /\ q \in Node /\ Nil \notin Key
  BY TypedFields, KeyFacts DEF Shaped, Linked
<1>2. /\ Typed(u) /\ u.red = t1.red /\ u.parent = t1.parent /\ u.crashed = t1.crashed
      /\ u.root = IF q = Nil THEN v ELSE t1.root
      /\ \A e \in Dir : \A m \in Key :
           u.kid[e][m] = IF q # Nil /\ m = q /\ e = h THEN v ELSE t1.kid[e][m]
  <2>1. Hangs(t1, z, v, SideOf(t1, z), u)
    BY <1>1, HangStep
  <2> HIDE DEF u
  <2> QED
    BY <2>1 DEF Hangs
<1>3. /\ q = Nil <=> t.root = z
      /\ \A e \in Dir : \A m \in Key : t.kid[e][m] = z <=> q # Nil /\ m = q /\ e = SideOf(t, z)
  <2> DEFINE g == SideOf(t, z)
             k == t.kid
             p == t.parent
             r == t.root
  <2>1. g = IF z = k["left"][p[z]] THEN "left" ELSE "right"
    BY DEF SideOf
  <2>2. Linked(r, k, p, S) /\ Ordered(r, k, s, S)
    BY DEF Shaped
  <2> HIDE DEF g, k, p, r
  <2>3. /\ p[z] = Nil <=> r = z
        /\ \A e \in Dir : \A m \in Key : k[e][m] = z <=> p[z] # Nil /\ m = p[z] /\ e = g
    BY <2>1, <2>2, ChildSide
  <2> QED
    BY <2>3 DEF g, k, p, r
<1>4. q # Nil => h = SideOf(t, z)
  BY DEF SideOf
<1>5. w = IF v = Nil THEN u ELSE Under(u, v, q)
  BY DEF Transplant
<1> HIDE DEF u, h, q, w
<1>6. /\ Typed(w) /\ w.root = u.root /\ w.red = u.red /\ w.kid = u.kid /\ w.crashed = u.crashed
      /\ \A m \in Key : w.parent[m] = IF m = v THEN q ELSE u.parent[m]
  <2>1. CASE v = Nil
    BY <1>1, <1>2, <1>5, <2>1
  <2>2. CASE v # Nil
    <3>1. v \in Key /\ Typed(u)
      BY <1>2, <2>2, NodeFacts
    <3>2. Unders(u, v, q, w)
      BY <1>1, <1>5, <2>2, <3>1, UnderStep
    <3> QED
      BY <3>2 DEF Unders
  <2> QED
    BY <2>1, <2>2
<1>7. \A e \in Dir : \A m \in Key : w.kid[e][m] = IF t.kid[e][m] = z THEN v ELSE t1.kid[e][m]
  BY <1>2, <1>3, <1>4, <1>6
<1>8. w.root = IF t.root = z THEN v ELSE t1.root
  BY <1>2, <1>3, <1>6
<1>9. \A m \in Key : w.parent[m] = IF m = v THEN t.parent[z] ELSE t1.parent[m]
  BY <1>2, <1>6 DEF q
<1>10. Typed(w) /\ w.red = t1.red /\ w.crashed = t1.crashed
  BY <1>2, <1>6
<1> QED
  BY <1>7, <1>8, <1>9, <1>10 DEF Puts, w

\* A node with at most one child leaves the tree.
LEMMA TakenOutHas ==
  ASSUME NEW t, NEW S, Has(t, S), ~ t.crashed, NEW z \in S, NEW e \in Dir, t.kid[Flip(e)][z] = Nil
  PROVE  Has(Freed(Transplant(t, z, t.kid[e][z]), z), S \ {z})
<1>1. PICK s : Shaped(t, s, S)
  BY DEF Has
<1> DEFINE x == t.kid[e][z]
           w == Transplant(t, z, x)
           u == Freed(w, z)
           s2 == [m \in Node |-> IF m = z \/ m = Nil THEN {} ELSE s[m] \ {z}]
<1>2. /\ Typed(t) /\ Linked(t.root, t.kid, t.parent, S) /\ Ordered(t.root, t.kid, s, S)
      /\ z \in Key /\ Nil \notin Key
  BY <1>1, KeyFacts DEF Has, Shaped, Linked
<1>3. x \in Node /\ x # z
  BY <1>2, TypedFields, NotItself
<1> HIDE DEF x
<1>4. Puts(t, t, z, x, w)
  BY <1>1, <1>2, <1>3, TransplantPuts
<1> HIDE DEF w
<1>5. /\ Typed(w) /\ w.crashed = t.crashed
      /\ w.root = IF t.root = z THEN x ELSE t.root
      /\ \A d \in Dir : \A m \in Key : w.kid[d][m] = IF t.kid[d][m] = z THEN x ELSE t.kid[d][m]
      /\ \A m \in Key : w.parent[m] = IF m = x THEN t.parent[z] ELSE t.parent[m]
  BY <1>4 DEF Puts
<1>6. Frees(w, z, u)
  BY <1>2, <1>5, FreedFields
<1> HIDE DEF u
<1>7. /\ Typed(u) /\ u.root = w.root /\ u.crashed = w.crashed
      /\ \A d \in Dir : \A m \in Key : u.kid[d][m] = IF m = z THEN Nil ELSE w.kid[d][m]
      /\ \A m \in Key : u.parent[m] = IF m = z THEN Nil ELSE w.parent[m]
  BY <1>6 DEF Frees
<1>8. s2[Nil] = {} /\ \A m \in Key : s2[m] = IF m = z THEN {} ELSE s[m] \ {z}
  BY <1>2, NodeFacts
<1> HIDE DEF s2
<1>9. Spliced(t.root, t.kid, t.parent, s, z, e, u.root, u.kid, u.parent, s2)
  BY <1>5, <1>7, <1>8 DEF Spliced, x
<1>10. Linked(u.root, u.kid, u.parent, S \ {z}) /\ Ordered(u.root, u.kid, s2, S \ {z})
  BY <1>2, <1>9, SpliceLinked, SpliceOrdered
<1>11. Has(u, S \ {z})
  BY <1>5, <1>7, <1>10 DEF Has, Shaped
<1> QED
  BY <1>11 DEF u, w, x

\* What is known of the node y that succeeds z.
Succeeds(r, k, p, s, S, z, y) ==
  LET l == k["left"][z]
      g == k["right"][z]
      x == k["right"][y]
  IN  /\ y \in S /\ y # z /\ y # r /\ y # l /\ k["left"][y] = Nil
      /\ l \in S /\ g \in S /\ x \in S \cup {Nil} /\ l # g /\ l # z /\ g # z
      /\ x # z /\ x # y /\ x # l /\ p[z] # y /\ p[z] # z
      /\ p[l] = z /\ p[g] = z /\ (x # Nil => p[x] = y)
      /\ (p[y] = z <=> y = g) /\ (p[y] # z => x # g)
      /\ \A n \in Key : p[n] = z <=> n \in {l, g}
      /\ \A d \in Dir : \A n \in Key : k[d][n] = y => n = p[y]
      /\ \A d \in Dir : \A n \in Key : k[d][n] = z => n = p[z]

LEMMA SucceedsFacts ==
  ASSUME NEW r, NEW k, NEW p, NEW s, NEW S, Linked(r, k, p, S), Ordered(r, k, s, S),
         NEW z \in S, k["left"][z] # Nil, NEW g, g = k["right"][z], g # Nil,
         NEW y, y \in s[g], k["left"][y] = Nil
  PROVE  Succeeds(r, k, p, s, S, z, y)
<1> DEFINE l == k["left"][z]
           x == k["right"][y]
<1>1. /\ S \subseteq Key /\ Nil \notin S /\ Nil \notin Key /\ s[Nil] = {}
      /\ "left" \in Dir /\ "right" \in Dir /\ \A d \in Dir : d = "left" \/ d = "right"
      /\ \A m \in S : \A d \in Dir : k[d][m] \in S \cup {Nil} /\ s[k[d][m]] \subseteq s[m]
      /\ \A m \in S : m \in s[m] /\ s[m] \subseteq S
      /\ \A m \in S : \A d \in Dir : k[d][m] # Nil => p[k[d][m]] = m
      /\ \A m \in S : \A i \in s[m] : s[i] \subseteq s[m]
  BY KeyFacts, NodeFacts DEF Linked, Ordered
<1>2. \A d \in Dir : \A n \in Key : k[d][n] # n
  BY NotItself
<1>3. l \in S /\ g \in S /\ p[l] = z /\ p[g] = z /\ y \in S /\ y \in Key /\ l # z /\ g # z
  BY <1>1, <1>2
<1>4. \A m \in S : \A d \in Dir : m \notin s[k[d][m]]
  BY <1>1, TowardOrders DEF Ordered
<1>5. z \notin s[g] /\ s[y] \subseteq s[g] /\ y # z /\ z \notin s[y]
  BY <1>1, <1>3, <1>4
<1>6. y \notin s[l]
  <2>1. \A i \in s[l] : Before(i, z)
    BY <1>1 DEF Ordered, Toward
  <2>2. Before(z, y)
    BY <1>1 DEF Ordered, Toward
  <2> QED
    BY <1>1, <1>3, <2>1, <2>2, BeforeOrders
<1>7. x \in S \cup {Nil} /\ x # y /\ (x # Nil => p[x] = y /\ x \in s[y])
  BY <1>1, <1>2, <1>3
<1>8. y # r
  BY <1>3, <1>5 DEF Ordered
<1>9. y # l /\ l # g
  BY <1>1, <1>3, <1>6
<1>10. x # z /\ x # l
  <2>1. x # z
    BY <1>1, <1>5, <1>7
  <2>2. x # l
    BY <1>1, <1>3, <1>5, <1>7
  <2> QED
    BY <2>1, <2>2
<1>11. p[z] # y /\ p[z] # z
  <2>1. \A d \in Dir : k[d][y] # z
    BY <1>1, <1>3, <1>5
  <2>2. CASE z = r
    BY <1>1, <1>3, <2>2 DEF Linked
  <2>3. CASE z # r
    <3>1. PICK d \in Dir : k[d][p[z]] = z
      BY <2>3 DEF Linked
    <3> QED
      BY <1>1, <1>2, <2>1, <3>1
  <2> QED
    BY <2>2, <2>3
<1>12. \A d \in Dir : \A n \in Key : k[d][n] # Nil => n \in S /\ p[k[d][n]] = n
  BY <1>1 DEF Linked
<1>13. \A n \in Key : p[n] = z <=> n \in {l, g}
  <2> SUFFICES ASSUME NEW n \in Key, p[n] = z PROVE n \in {l, g}
    BY <1>3
  <2>1. n \in S
    BY <1>1 DEF Linked
  <2>2. n # r
    BY <1>1, <2>1 DEF Linked
  <2>3. PICK d \in Dir : k[d][p[n]] = n
    BY <2>1, <2>2 DEF Linked
  <2> QED
    BY <1>1, <2>3
<1>14. p[y] = z <=> y = g
  BY <1>3, <1>9, <1>13
<1>15. p[y] # z => x # g
  BY <1>1, <1>3, <1>7
<1>16. \A d \in Dir : \A n \in Key : (k[d][n] = y => n = p[y]) /\ (k[d][n] = z => n = p[z])
  BY <1>1, <1>3, <1>12
<1> QED
  BY <1>3, <1>5, <1>7, <1>8, <1>9, <1>10, <1>11, <1>13, <1>14, <1>15, <1>16 DEF Succeeds

\* y without its place, in the place of z: the order of the prices stays.
LEMMA SuccessorOrdered ==
  ASSUME NEW r, NEW k, NEW p, NEW s, NEW S, Linked(r, k, p, S), Ordered(r, k, s, S),
         NEW z \in S, k["left"][z] # Nil, NEW g, g = k["right"][z], g # Nil,
         NEW y, IsLeast(y, s[g]), k["left"][y] = Nil,
         NEW r1, NEW k1, NEW p1, NEW s1, Spliced(r, k, p, s, y, "right", r1, k1, p1, s1),
         NEW r2, NEW k2, NEW p2, NEW s2, Renamed(r1, k1, p1, s1, z, y, r2, k2, p2, s2)
  PROVE  Linked(r2, k2, p2, S \ {z}) /\ Ordered(r2, k2, s2, S \ {z})
<1> DEFINE R == S \ {y}
           x == k["right"][y]
           l == k["left"][z]
<1>1. /\ S \subseteq Key /\ Nil \notin S /\ Nil \notin Key /\ s[Nil] = {}
      /\ "left" \in Dir /\ "right" \in Dir /\ \A d \in Dir : d = "left" \/ d = "right"
      /\ \A m \in S : \A d \in Dir : k[d][m] \in S \cup {Nil} /\ s[k[d][m]] \subseteq s[m]
      /\ \A m \in S : m \in s[m] /\ s[m] \subseteq S
      /\ \A m \in S : \A d \in Dir : \A i \in s[k[d][m]] : Toward(d, i, m)
      /\ \A m \in S : \A i \in s[m] : s[i] \subseteq s[m]
  BY KeyFacts, NodeFacts DEF Linked, Ordered
<1>2. y \in s[g] /\ \A i \in s[g] : i = y \/ Before(y, i)
  BY DEF IsLeast
<1>3. Succeeds(r, k, p, s, S, z, y)
  BY <1>2, SucceedsFacts
<1>4. /\ y \in S /\ y # z /\ y # l /\ l \in S /\ g \in S /\ x \in S \cup {Nil} /\ x # z
  BY <1>3 DEF Succeeds
<1>5. Linked(r1, k1, p1, R) /\ Ordered(r1, k1, s1, R)
  <2>1. Flip("right") = "left"
    BY DEF Flip
  <2> QED
    BY <1>1, <1>4, <2>1, SpliceLinked, SpliceOrdered
<1>6. /\ \A d \in Dir : \A n \in Key :
           k1[d][n] = IF n = y THEN Nil ELSE IF k[d][n] = y THEN x ELSE k[d][n]
      /\ s1[Nil] = {} /\ \A n \in Key : s1[n] = IF n = y THEN {} ELSE s[n] \ {y}
  BY DEF Spliced
<1>7. z \in R /\ y \in Key \ R /\ (R \ {z}) \cup {y} = S \ {z}
  BY <1>1, <1>4
<1>8. s[x] \subseteq s[y] /\ s[y] \subseteq s[g] /\ z \notin s[g]
  BY <1>1, <1>2, <1>4, TowardOrders
<1>11. \A n \in S \cup {Nil} : \A i \in s1[n] : i \in s[n] /\ i # y
  <2> TAKE n \in S \cup {Nil}
  <2>1. n = Nil => s1[n] = {}
    BY <1>6
  <2>2. n # Nil => n \in Key
    BY <1>1
  <2>3. n # Nil => s1[n] = IF n = y THEN {} ELSE s[n] \ {y}
    BY <1>6, <2>2
  <2> QED
    BY <2>1, <2>3
<1> HIDE DEF x, l
<1>9. \A d \in Dir : \A m \in s1[k1[d][z]] : Toward(d, m, y)
  <2> SUFFICES ASSUME NEW d \in Dir, NEW m \in s1[k1[d][z]] PROVE Toward(d, m, y)
    OBVIOUS
  <2>1. CASE d = "left"
    <3>1. k1[d][z] = l
      BY <1>1, <1>4, <1>6, <2>1 DEF l
    <3>2. m \in s[l]
      BY <1>4, <1>11, <3>1
    <3>3. Before(m, z) /\ Before(z, y) /\ m \in Key
      BY <1>1, <1>2, <3>2 DEF Toward, l
    <3> QED
      BY <1>1, <1>4, <2>1, <3>3, BeforeOrders DEF Toward
  <2>2. CASE d = "right"
    <3>1. k1[d][z] = IF g = y THEN x ELSE g
      BY <1>1, <1>4, <1>6, <2>2
    <3>2. m \in s[g] /\ m # y
      BY <1>4, <1>8, <1>11, <3>1
    <3> QED
      BY <1>2, <2>2, <3>2 DEF Toward
  <2> QED
    BY <1>1, <2>1, <2>2
<1>10. \A n \in R : \A d \in Dir : z \in s1[k1[d][n]] => Toward(d, y, n)
  <2> SUFFICES ASSUME NEW n \in R, NEW d \in Dir, z \in s1[k1[d][n]] PROVE Toward(d, y, n)
    OBVIOUS
  <2> DEFINE w == k[d][n]
  <2>1. w \in S \cup {Nil} /\ n \in S /\ n # y
    BY <1>1
  <2>2. k1[d][n] = IF w = y THEN x ELSE w
    BY <1>1, <1>6, <2>1
  <2> HIDE DEF w
  <2>3. z \in s[w] /\ w \in S
    <3>1. z \notin s[x]
      BY <1>8
    <3>2. z \in s[IF w = y THEN x ELSE w]
      BY <1>4, <1>11, <2>1, <2>2
    <3>3. z \in s[w]
      BY <3>1, <3>2
    <3> QED
      BY <1>1, <2>1, <3>3
  <2>4. s[z] \subseteq s[w] /\ s[g] \subseteq s[z]
    BY <1>1, <2>3
  <2>5. y \in s[w]
    BY <1>2, <2>4
  <2> QED
    BY <1>1, <2>1, <2>5 DEF w
<1> QED
  BY <1>5, <1>7, <1>9, <1>10, RenameLinked, RenameOrdered

\* y, which has a child on the right only, takes the place of z, with the two
\* children of z: the nodes are then as if y had left the tree and z were named y.
LEMMA SucceededFields ==
  ASSUME NEW t, Typed(t), NEW s, NEW S, Shaped(t, s, S), NEW z \in S, NEW y,
         Succeeds(t.root, t.kid, t.parent, s, S, z, y),
         NEW l, l = t.kid["left"][z], NEW g, g = t.kid["right"][z], NEW x, x = t.kid["right"][y],
         NEW u, u = Succeeded(t, z, y)
  PROVE  /\ Typed(u) /\ u.crashed = t.crashed
         /\ u.root = IF t.root = z THEN y ELSE t.root
         /\ \A d \in Dir : \A n \in Key \ {z} :
              u.kid[d][n] = IF n = y THEN (IF d = "left" THEN l ELSE IF g = y THEN x ELSE g)
                            ELSE IF t.kid[d][n] = z THEN y
                            ELSE IF t.kid[d][n] = y THEN x ELSE t.kid[d][n]
         /\ \A n \in Key \ {z} :
              u.parent[n] = IF n = y THEN t.parent[z] ELSE IF n = l THEN y
                            ELSE IF n = g THEN y
                            ELSE IF n = x THEN (IF g = y THEN y ELSE t.parent[y]) ELSE t.parent[n]
<1> DEFINE k == t.kid
           p == t.parent
           r == t.root
<1>1. /\ Linked(r, k, p, S) /\ Ordered(r, k, s, S) /\ S \subseteq Key /\ Nil \notin Key
      /\ "left" \in Dir /\ "right" \in Dir /\ \A d \in Dir : d = "left" \/ d = "right"
  BY KeyFacts, NodeFacts DEF Shaped, Linked
<1>2. /\ y \in S /\ y # z /\ y # r /\ y # l /\ k["left"][y] = Nil
      /\ l \in S /\ g \in S /\ x \in S \cup {Nil} /\ l # g /\ l # z /\ g # z
      /\ x # z /\ x # y /\ x # l /\ p[z] # y /\ p[z] # z
      /\ p[l] = z /\ p[g] = z /\ (x # Nil => p[x] = y)
      /\ (p[y] = z <=> y = g) /\ (p[y] # z => x # g)
      /\ \A d \in Dir : \A n \in Key : k[d][n] = y => n = p[y]
      /\ \A d \in Dir : \A n \in Key : k[d][n] = z => n = p[z]
  BY DEF Succeeds
<1>3. y \in Key /\ z \in Key /\ l \in Key /\ g \in Key /\ x \in Node /\ y \in Node /\ l \in Node /\ g \in Node
  BY <1>1, <1>2, NodeFacts
<1>4. p[y] \in Node /\ p[z] \in Node
  BY <1>3, TypedFields
<1> DEFINE a == Transplant(t, y, x)
           b == Adopt(a, "right", y, g)
           c == IF x = Nil THEN t ELSE Under(t, x, y)
           e == IF p[y] # z THEN b ELSE c
           h == Transplant(e, z, y)
           v == Adopt(h, "left", y, l)
<1>5. u = Paint(v, y, t.red[z])
  BY DEF Succeeded
<1>6. ASSUME p[y] # z
      PROVE  /\ Typed(e) /\ e.crashed = t.crashed /\ e.root = r
             /\ \A d \in Dir : \A n \in Key : e.kid[d][n] = IF n = y /\ d = "right" THEN g
                                                           ELSE IF k[d][n] = y THEN x ELSE k[d][n]
             /\ \A n \in Key : e.parent[n] = IF n = g THEN y ELSE IF n = x THEN p[y] ELSE p[n]
  <2>1. e = b
    BY <1>6
  <2> HIDE DEF e
  <2>2. Puts(t, t, y, x, a)
    BY <1>1, <1>2, <1>3, TransplantPuts
  <2> HIDE DEF a, k, p, r
  <2>3. /\ Typed(a) /\ a.crashed = t.crashed /\ a.root = r
        /\ \A d \in Dir : \A n \in Key : a.kid[d][n] = IF k[d][n] = y THEN x ELSE k[d][n]
        /\ \A n \in Key : a.parent[n] = IF n = x THEN p[y] ELSE p[n]
    BY <1>2, <2>2 DEF Puts, k, p, r
  <2>4. Adopts(a, "right", y, g, b)
    BY <1>1, <1>3, <2>3, AdoptStep
  <2> HIDE DEF b
  <2>5. /\ Typed(b) /\ b.root = a.root /\ b.crashed = a.crashed
        /\ \A d \in Dir : \A n \in Key : b.kid[d][n] = IF d = "right" /\ n = y THEN g ELSE a.kid[d][n]
        /\ \A n \in Key : b.parent[n] = IF n = g THEN y ELSE a.parent[n]
    BY <2>4 DEF Adopts
  <2> QED
    BY <2>1, <2>3, <2>5
<1>7. ASSUME p[y] = z
      PROVE  /\ Typed(e) /\ e.crashed = t.crashed /\ e.root = r /\ e.kid = k
             /\ \A n \in Key : e.parent[n] = p[n]
  <2>1. e = c
    BY <1>7
  <2> HIDE DEF e
  <2>2. CASE x = Nil
    BY <2>1, <2>2
  <2>3. CASE x # Nil
    <3>1. x \in Key
      BY <1>3, <2>3, NodeFacts
    <3>2. Unders(t, x, y, c)
      BY <1>3, <2>3, <3>1, UnderStep
    <3> HIDE DEF c
    <3>3. /\ Typed(c) /\ c.root = t.root /\ c.kid = t.kid /\ c.crashed = t.crashed
          /\ \A n \in Key : c.parent[n] = IF n = x THEN y ELSE t.parent[n]
      BY <3>2 DEF Unders
    <3>4. \A n \in Key : c.parent[n] = p[n]
      BY <1>2, <2>3, <3>3
    <3> QED
      BY <2>1, <3>3, <3>4
  <2> QED
    BY <2>2, <2>3
<1> HIDE DEF e
<1>8. Typed(e) /\ e.crashed = t.crashed /\ e.root = r
  BY <1>6, <1>7
<1>9. e.parent[z] = p[z]
  BY <1>2, <1>3, <1>6, <1>7
<1>10. p[z] # Nil => (e.kid["left"][p[z]] = z <=> k["left"][p[z]] = z)
  <2> SUFFICES ASSUME p[z] # Nil PROVE e.kid["left"][p[z]] = z <=> k["left"][p[z]] = z
    OBVIOUS
  <2>1. p[z] \in Key
    BY <1>4, NodeFacts
  <2>2. CASE p[y] = z
    BY <1>7, <2>2
  <2>3. CASE p[y] # z
    <3>1. e.kid["left"][p[z]] = IF k["left"][p[z]] = y THEN x ELSE k["left"][p[z]]
      BY <1>1, <1>6, <2>1, <2>3
    <3> HIDE DEF k, p
    <3> QED
      BY <1>2, <3>1
  <2> QED
    BY <2>2, <2>3
<1>11. Puts(t, e, z, y, h)
  <2> HIDE DEF h
  <2>1. h = Transplant(e, z, y)
    BY DEF h
  <2> QED
    BY <1>3, <1>8, <1>9, <1>10, <2>1, TransplantPuts
<1> HIDE DEF h
<1>12. /\ Typed(h) /\ h.crashed = e.crashed
       /\ h.root = IF r = z THEN y ELSE e.root
       /\ \A d \in Dir : \A n \in Key : h.kid[d][n] = IF k[d][n] = z THEN y ELSE e.kid[d][n]
       /\ \A n \in Key : h.parent[n] = IF n = y THEN p[z] ELSE e.parent[n]
  BY <1>11 DEF Puts
<1>13. Adopts(h, "left", y, l, v)
  BY <1>1, <1>3, <1>12, AdoptStep
<1> HIDE DEF v
<1>14. /\ Typed(v) /\ v.root = h.root /\ v.crashed = h.crashed
       /\ \A d \in Dir : \A n \in Key : v.kid[d][n] = IF d = "left" /\ n = y THEN l ELSE h.kid[d][n]
       /\ \A n \in Key : v.parent[n] = IF n = l THEN y ELSE h.parent[n]
  BY <1>13 DEF Adopts
<1>15. /\ Typed(u) /\ u.root = v.root /\ u.kid = v.kid /\ u.parent = v.parent /\ u.crashed = v.crashed
  <2>1. Typed(v) /\ t.red[z] \in BOOLEAN
    BY <1>3, <1>14, TypedFields
  <2> HIDE DEF k, p, r
  <2> QED
    BY <1>5, <2>1, PaintFields
<1> HIDE DEF k, p, r
<1>16. \A d \in Dir : \A n \in Key \ {z} :
         u.kid[d][n] = IF n = y THEN (IF d = "left" THEN l ELSE IF g = y THEN x ELSE g)
                       ELSE IF k[d][n] = z THEN y
                       ELSE IF k[d][n] = y THEN x ELSE k[d][n]
  <2> TAKE d \in Dir
  <2> TAKE n \in Key \ {z}
  <2>1. u.kid[d][n] = IF d = "left" /\ n = y THEN l ELSE IF k[d][n] = z THEN y ELSE e.kid[d][n]
    BY <1>12, <1>14, <1>15
  <2>2. CASE p[y] = z
    <3>1. e.kid[d][n] = k[d][n]
      BY <1>7, <2>2
    <3>2. k[d][n] # y
      BY <1>2, <2>2
    <3>3. y = g /\ k[d][y] # z
      BY <1>2, <1>3, <2>2
    <3>4. n = y /\ d # "left" => k[d][n] = x
      BY <1>1 DEF k
    <3> QED
      BY <2>1, <3>1, <3>2, <3>3, <3>4
  <2>3. CASE p[y] # z
    <3>1. e.kid[d][n] = IF n = y /\ d = "right" THEN g ELSE IF k[d][n] = y THEN x ELSE k[d][n]
      BY <1>6, <2>3
    <3>2. y # g /\ k[d][y] # z
      BY <1>2, <1>3, <2>3
    <3> QED
      BY <1>1, <2>1, <3>1, <3>2
  <2> QED
    BY <2>2, <2>3
<1>17. \A n \in Key \ {z} :
         u.parent[n] = IF n = y THEN p[z] ELSE IF n = l THEN y
                       ELSE IF n = g THEN y
                       ELSE IF n = x THEN (IF g = y THEN y ELSE p[y]) ELSE p[n]
  <2> TAKE n \in Key \ {z}
  <2>1. u.parent[n] = IF n = l THEN y ELSE IF n = y THEN p[z] ELSE e.parent[n]
    BY <1>12, <1>14, <1>15
  <2>2. CASE p[y] = z
    <3>1. e.parent[n] = p[n]
      BY <1>7, <2>2
    <3>2. n = x => p[n] = y
      BY <1>1, <1>2
    <3>3. y = g /\ y # l
      BY <1>2, <2>2
    <3>4. u.parent[n] = IF n = l THEN y ELSE IF n = y THEN p[z] ELSE p[n]
      BY <2>1, <3>1
    <3>5. CASE n = y
      BY <3>3, <3>4, <3>5
    <3>6. CASE n = x /\ n # y
      BY <3>2, <3>3, <3>4, <3>6
    <3>7. CASE n # x /\ n # y
      BY <3>3, <3>4, <3>7
    <3> QED
      BY <3>5, <3>6, <3>7
  <2>3. CASE p[y] # z
    <3>1. e.parent[n] = IF n = g THEN y ELSE IF n = x THEN p[y] ELSE p[n]
      BY <1>6, <2>3
    <3>2. y # g /\ y # l /\ l # g /\ x # g /\ x # l /\ x # y
      BY <1>2, <2>3
    <3> QED
      BY <2>1, <3>1, <3>2
  <2> QED
    BY <2>2, <2>3
<1>18. u.root = IF r = z THEN y ELSE r
  BY <1>8, <1>12, <1>14, <1>15
<1>19. Typed(u) /\ u.crashed = t.crashed
  BY <1>8, <1>12, <1>14, <1>15
<1> QED
  BY <1>16, <1>17, <1>18, <1>19 DEF k, p, r

\* A node with two children leaves the tree: the next price takes its place.
LEMMA SucceededHas ==
  ASSUME NEW t, NEW S, Has(t, S), ~ t.crashed, NEW z \in S,
         t.kid["left"][z] # Nil, t.kid["right"][z] # Nil
  PROVE  Has(Freed(Succeeded(t, z, Successor(t, z)), z), S \ {z})
<1>1. PICK s : Shaped(t, s, S)
  BY DEF Has
<1> DEFINE k == t.kid
           p == t.parent
           r == t.root
           l == k["left"][z]
           g == k["right"][z]
           y == Successor(t, z)
           x == k["right"][y]
           u == Succeeded(t, z, y)
           w == Freed(u, z)
           k1 == [d \in Dir |-> [n \in Key |-> IF n = y THEN Nil
                                               ELSE IF k[d][n] = y THEN x ELSE k[d][n]]]
           p1 == [n \in Key |-> IF n = y THEN Nil ELSE IF n = x THEN p[y] ELSE p[n]]
           s1 == [n \in Node |-> IF n = y \/ n = Nil THEN {} ELSE s[n] \ {y}]
           s2 == [n \in Node |-> IF n = Nil THEN {} ELSE IF n = y THEN (s1[z] \ {z}) \cup {y}
                                 ELSE IF n = z THEN {}
                                 ELSE IF z \in s1[n] THEN (s1[n] \ {z}) \cup {y} ELSE s1[n]]
<1>2. /\ Typed(t) /\ Linked(r, k, p, S) /\ Ordered(r, k, s, S) /\ S \subseteq Key /\ Nil \notin Key
      /\ "left" \in Dir /\ "right" \in Dir /\ \A d \in Dir : d = "left" \/ d = "right"
  BY <1>1, KeyFacts, NodeFacts DEF Has, Shaped, Linked
<1>3. g \in S /\ g # Nil /\ l # Nil
  BY <1>2 DEF Linked
<1>4. IsLeast(y, s[g]) /\ k["left"][y] = Nil
  <2>1. y = Leftmost(t, g)
    BY DEF Successor
  <2> HIDE DEF y, g
  <2>2. Leftmost(t, g) = Least(s[g]) /\ IsLeast(Least(s[g]), s[g]) /\ t.kid["left"][Least(s[g])] = Nil
    BY <1>1, <1>2, <1>3, LeftmostLeast
  <2> QED
    BY <2>1, <2>2
<1>5. y \in s[g]
  BY <1>4 DEF IsLeast
<1>6. Succeeds(r, k, p, s, S, z, y)
  <2> HIDE DEF r, k, p, g, y
  <2> QED
    BY <1>2, <1>3, <1>4, <1>5, SucceedsFacts DEF l, g
<1>7. /\ Typed(u) /\ u.crashed = t.crashed
      /\ u.root = IF r = z THEN y ELSE r
      /\ \A d \in Dir : \A n \in Key \ {z} :
           u.kid[d][n] = IF n = y THEN (IF d = "left" THEN l ELSE IF g = y THEN x ELSE g)
                         ELSE IF k[d][n] = z THEN y
                         ELSE IF k[d][n] = y THEN x ELSE k[d][n]
      /\ \A n \in Key \ {z} :
           u.parent[n] = IF n = y THEN p[z] ELSE IF n = l THEN y
                         ELSE IF n = g THEN y
                         ELSE IF n = x THEN (IF g = y THEN y ELSE p[y]) ELSE p[n]
  <2>1. l = t.kid["left"][z] /\ g = t.kid["right"][z] /\ x = t.kid["right"][y] /\ u = Succeeded(t, z, y)
    OBVIOUS
  <2> HIDE DEF l, g, y, x, u
  <2> QED
    BY <1>1, <1>2, <1>6, <2>1, SucceededFields
<1>8. /\ y \in S /\ y # z /\ y # r /\ y # l
      /\ l \in S /\ g \in S /\ x \in S \cup {Nil} /\ l # g /\ l # z /\ g # z
      /\ x # z /\ x # y /\ x # l /\ p[z] # y /\ p[z] # z
      /\ (p[y] = z <=> y = g) /\ (p[y] # z => x # g)
      /\ \A n \in Key : p[n] = z <=> n \in {l, g}
  BY <1>6 DEF Succeeds
<1>9. y \in Key /\ z \in Key
  BY <1>2, <1>8
<1> HIDE DEF y, u
<1>10. Frees(u, z, w)
  BY <1>7, <1>9, FreedFields
<1> HIDE DEF w
<1>11. /\ Typed(w) /\ w.root = u.root /\ w.crashed = u.crashed
       /\ \A d \in Dir : \A n \in Key : w.kid[d][n] = IF n = z THEN Nil ELSE u.kid[d][n]
       /\ \A n \in Key : w.parent[n] = IF n = z THEN Nil ELSE u.parent[n]
  BY <1>10 DEF Frees
<1>12. /\ \A d \in Dir : \A n \in Key :
            k1[d][n] = IF n = y THEN Nil ELSE IF k[d][n] = y THEN x ELSE k[d][n]
       /\ \A n \in Key : p1[n] = IF n = y THEN Nil ELSE IF n = x THEN p[y] ELSE p[n]
       /\ s1[Nil] = {} /\ \A n \in Key : s1[n] = IF n = y THEN {} ELSE s[n] \ {y}
  BY <1>2, NodeFacts
<1> HIDE DEF k1, p1, s1
<1>13. /\ s2[Nil] = {} /\ s2[y] = (s1[z] \ {z}) \cup {y}
       /\ \A n \in Key \ {y} :
            s2[n] = IF n = z THEN {} ELSE IF z \in s1[n] THEN (s1[n] \ {z}) \cup {y} ELSE s1[n]
  BY <1>2, <1>9, NodeFacts
<1> HIDE DEF s2, r, k, p, l, g, x
<1>14. Spliced(r, k, p, s, y, "right", r, k1, p1, s1)
  <2>1. r = IF r = y THEN x ELSE r
    BY <1>8
  <2> QED
    BY <1>12, <2>1 DEF Spliced, x
<1>15. k1["left"][z] = l /\ k1["right"][z] = IF g = y THEN x ELSE g
  BY <1>2, <1>8, <1>9, <1>12 DEF l, g
<1>16. p1[z] = p[z]
  BY <1>8, <1>9, <1>12
<1>17. \A d \in Dir : \A n \in Key :
         w.kid[d][n] = IF n = y THEN k1[d][z] ELSE IF n = z THEN Nil
                       ELSE IF k1[d][n] = z THEN y ELSE k1[d][n]
  <2> TAKE d \in Dir
  <2> TAKE n \in Key
  <2>1. CASE n = y
    BY <1>2, <1>7, <1>8, <1>9, <1>11, <1>15, <2>1
  <2>2. CASE n = z
    BY <1>8, <1>11, <2>2
  <2>3. CASE n # y /\ n # z
    <3>1. w.kid[d][n] = IF k[d][n] = z THEN y ELSE IF k[d][n] = y THEN x ELSE k[d][n]
      BY <1>7, <1>11, <2>3
    <3>2. k1[d][n] = IF k[d][n] = y THEN x ELSE k[d][n]
      BY <1>12, <2>3
    <3> QED
      BY <1>8, <2>3, <3>1, <3>2
  <2> QED
    BY <2>1, <2>2, <2>3
<1>18. \A n \in Key :
         w.parent[n] = IF n = y THEN p1[z] ELSE IF n = z THEN Nil
                       ELSE IF p1[n] = z THEN y ELSE p1[n]
  <2> TAKE n \in Key
  <2>1. CASE n = y
    BY <1>7, <1>8, <1>11, <1>16, <2>1
  <2>2. CASE n = z
    BY <1>8, <1>11, <2>2
  <2>3. CASE n # y /\ n # z
    <3>1. w.parent[n] = IF n = l THEN y ELSE IF n = g THEN y
                        ELSE IF n = x THEN (IF g = y THEN y ELSE p[y]) ELSE p[n]
      BY <1>7, <1>11, <2>3
    <3>2. p1[n] = IF n = x THEN p[y] ELSE p[n]
      BY <1>12, <2>3
    <3>3. p[n] = z <=> n = l \/ n = g
      BY <1>8
    <3>4. CASE n = x
      BY <1>8, <2>3, <3>1, <3>2, <3>4
    <3>5. CASE n # x
      BY <1>8, <2>3, <3>1, <3>2, <3>3, <3>5
    <3> QED
      BY <3>4, <3>5
  <2> QED
    BY <2>1, <2>2, <2>3
<1>19. Renamed(r, k1, p1, s1, z, y, w.root, w.kid, w.parent, s2)
  BY <1>7, <1>11, <1>13, <1>17, <1>18 DEF Renamed
<1>20. Linked(w.root, w.kid, w.parent, S \ {z}) /\ Ordered(w.root, w.kid, s2, S \ {z})
  BY <1>2, <1>3, <1>4, <1>14, <1>19, SuccessorOrdered DEF l, g
<1>21. Has(w, S \ {z})
  BY <1>7, <1>11, <1>20 DEF Has, Shaped
<1> QED
  BY <1>21 DEF w, u, y

\* remove of a price that has a node takes that price away, and no other.
LEMMA RemovedHas ==
  ASSUME NEW t, NEW S, Has(t, S), ~ t.crashed, NEW z \in S
  PROVE  Has(Removed(t, z), S \ {z})
<1> DEFINE l == t.kid["left"][z]
           r == t.kid["right"][z]
           y == IF l = Nil \/ r = Nil THEN z ELSE Successor(t, z)
           x == IF l = Nil THEN r ELSE IF r = Nil THEN l ELSE t.kid["right"][y]
           t1 == Freed(IF y = z THEN Transplant(t, z, x) ELSE Succeeded(t, z, y), z)
<1>1. Removed(t, z) = IF t.red[y] THEN t1 ELSE Fixed(t1, x, TRUE)
  BY DEF Removed
<1>2. PICK s : Shaped(t, s, S)
  BY DEF Has
<1>3. /\ Typed(t) /\ z \in Key /\ "left" \in Dir /\ "right" \in Dir
      /\ Flip("left") = "right" /\ Flip("right") = "left"
  BY <1>2, NodeFacts DEF Has, Shaped, Linked, Flip
<1>4. Has(t1, S \ {z}) /\ x \in Node
  <2>1. CASE l = Nil
    <3>1. y = z /\ x = r
      BY <2>1
    <3>2. Has(Freed(Transplant(t, z, r), z), S \ {z})
      BY <1>3, <2>1, TakenOutHas
    <3>3. r \in Node
      BY <1>3, TypedFields
    <3> QED
      BY <3>1, <3>2, <3>3
  <2>2. CASE l # Nil /\ r = Nil
    <3>1. y = z /\ x = l
      BY <2>2
    <3>2. Has(Freed(Transplant(t, z, l), z), S \ {z})
      BY <1>3, <2>2, TakenOutHas
    <3>3. l \in Node
      BY <1>3, TypedFields
    <3> QED
      BY <3>1, <3>2, <3>3
  <2>3. CASE l # Nil /\ r # Nil
    <3>1. y = Successor(t, z) /\ x = t.kid["right"][y]
      BY <2>3
    <3>2. Has(Freed(Succeeded(t, z, Successor(t, z)), z), S \ {z})
      BY <2>3, SucceededHas
    <3>3. r \in S /\ S \subseteq Key /\ s[r] \subseteq S
      BY <1>2, <1>3, <2>3 DEF Shaped, Linked, Ordered
    <3>4. Successor(t, z) \in s[r] /\ Successor(t, z) # z
      <4>1. Leftmost(t, r) = Least(s[r]) /\ IsLeast(Least(s[r]), s[r])
        <5> HIDE DEF r
        <5> QED
          BY <1>2, <1>3, <3>3, LeftmostLeast
      <4>2. Successor(t, z) \in s[r]
        BY <4>1 DEF Successor, IsLeast
      <4>3. z \notin s[r]
        BY <1>2, <1>3, TowardOrders DEF Shaped, Ordered
      <4> QED
        BY <4>2, <4>3
    <3>5. t.kid["right"][Successor(t, z)] \in Node
      BY <1>3, <3>3, <3>4, TypedFields
    <3> QED
      BY <3>1, <3>2, <3>4, <3>5
  <2> QED
    BY <2>1, <2>2, <2>3
<1> HIDE DEF t1, x, y
<1>5. Has(Fixed(t1, x, TRUE), S \ {z})
  BY <1>4, FixedHas
<1> QED
  BY <1>1, <1>4, <1>5

-----------------------------------------------------------------------------
(***************************************************************************)
(* The in-order walk.                                                      *)
(***************************************************************************)

\* w lists the prices X from best to worst.
Lists(w, X) ==
  /\ w \in Seq(Key)
  /\ {w[i] : i \in 1..Len(w)} = X
  /\ \A i, j \in 1..Len(w) : i < j => Before(w[i], w[j])

LEMMA ListsJoined ==
  ASSUME NEW A, NEW B, NEW a, NEW b, Lists(a, A), Lists(b, B), NEW n \in Key,
         \A i \in A : Before(i, n), \A i \in B : Before(n, i)
  PROVE  Lists(a \o <<n>> \o b, A \cup {n} \cup B)
<1> DEFINE c == a \o <<n>>
           w == c \o b
<1>1. /\ a \in Seq(Key) /\ b \in Seq(Key) /\ <<n>> \in Seq(Key)
      /\ Len(a) \in Nat /\ Len(b) \in Nat
      /\ {a[i] : i \in 1..Len(a)} = A /\ {b[i] : i \in 1..Len(b)} = B
      /\ \A i, j \in 1..Len(a) : i < j => Before(a[i], a[j])
      /\ \A i, j \in 1..Len(b) : i < j => Before(b[i], b[j])
      /\ \A i \in 1..Len(a) : a[i] \in Key
      /\ \A i \in 1..Len(b) : b[i] \in Key
  BY DEF Lists
<1>2. c \in Seq(Key) /\ Len(c) = Len(a) + 1 /\ c[Len(a) + 1] = n /\ \A i \in 1..Len(a) : c[i] = a[i]
  BY <1>1
<1> HIDE DEF c
<1>3. /\ w \in Seq(Key) /\ Len(w) = Len(a) + 1 + Len(b)
      /\ \A i \in 1..Len(c) : w[i] = c[i]
      /\ \A i \in 1..Len(b) : w[Len(c) + i] = b[i]
  <2>1. c \in Seq(Key) /\ b \in Seq(Key)
    BY <1>1, <1>2
  <2>2. /\ w \in Seq(Key) /\ Len(w) = Len(c) + Len(b)
        /\ \A i \in 1..(Len(c) + Len(b)) : w[i] = IF i <= Len(c) THEN c[i] ELSE b[i - Len(c)]
    BY <2>1, ConcatProperties
  <2> HIDE DEF w
  <2>3. Len(c) \in Nat /\ Len(b) \in Nat
    BY <1>1, <1>2
  <2>4. \A i \in 1..Len(c) : w[i] = c[i]
    BY <2>2, <2>3
  <2>5. \A i \in 1..Len(b) : w[Len(c) + i] = b[i]
    BY <2>2, <2>3
  <2> QED
    BY <1>2, <2>2, <2>4, <2>5
<1> HIDE DEF w
<1>4. /\ \A i \in 1..Len(a) : w[i] = a[i]
      /\ w[Len(a) + 1] = n
      /\ \A i \in (Len(a) + 2)..Len(w) : i - Len(a) - 1 \in 1..Len(b) /\ w[i] = b[i - Len(a) - 1]
  <2>1. \A i \in 1..Len(a) : w[i] = a[i]
    BY <1>1, <1>2, <1>3
  <2>2. w[Len(a) + 1] = n
    BY <1>1, <1>2, <1>3
  <2>3. ASSUME NEW i \in (Len(a) + 2)..Len(w)
        PROVE  i - Len(a) - 1 \in 1..Len(b) /\ w[i] = b[i - Len(a) - 1]
    <3>1. PICK j \in 1..Len(b) : i = Len(c) + j
      <4>1. i - Len(a) - 1 \in 1..Len(b) /\ i = Len(c) + (i - Len(a) - 1)
        BY <1>1, <1>2, <1>3
      <4> QED
        BY <4>1
    <3>2. w[i] = b[j]
      BY <1>3, <3>1
    <3>3. j = i - Len(a) - 1
      BY <1>1, <1>2, <3>1
    <3> QED
      BY <3>2, <3>3
  <2> QED
    BY <2>1, <2>2, <2>3
<1>5. \A i \in 1..Len(w) : i \in 1..Len(a) \/ i = Len(a) + 1 \/ i \in (Len(a) + 2)..Len(w)
  BY <1>1, <1>3
<1>6. {w[i] : i \in 1..Len(w)} = A \cup {n} \cup B
  <2>1. ASSUME NEW i \in 1..Len(w) PROVE w[i] \in A \cup {n} \cup B
    BY <1>1, <1>4, <1>5
  <2>2. ASSUME NEW x \in A PROVE \E i \in 1..Len(w) : w[i] = x
    <3>1. PICK i \in 1..Len(a) : x = a[i]
      BY <1>1
    <3>2. i \in 1..Len(w)
      BY <1>1, <1>3
    <3> QED
      BY <1>4, <3>1, <3>2
  <2>3. \E i \in 1..Len(w) : w[i] = n
    <3>1. Len(a) + 1 \in 1..Len(w)
      BY <1>1, <1>3
    <3> QED
      BY <1>4, <3>1
  <2>4. ASSUME NEW x \in B PROVE \E i \in 1..Len(w) : w[i] = x
    <3>1. PICK i \in 1..Len(b) : x = b[i]
      BY <1>1
    <3>2. Len(c) + i \in 1..Len(w)
      BY <1>1, <1>2, <1>3
    <3> QED
      BY <1>3, <3>1, <3>2
  <2> QED
    BY <2>1, <2>2, <2>3, <2>4
<1>7. \A i, j \in 1..Len(w) : i < j => Before(w[i], w[j])
  <2> SUFFICES ASSUME NEW i \in 1..Len(w), NEW j \in 1..Len(w), i < j
               PROVE  Before(w[i], w[j])
    OBVIOUS
  <2>1. CASE i \in 1..Len(a) /\ j \in 1..Len(a)
    BY <1>1, <1>4, <2>1
  <2>2. CASE i \in 1..Len(a) /\ j \notin 1..Len(a)
    <3>1. w[i] = a[i] /\ a[i] \in A /\ a[i] \in Key /\ Before(a[i], n)
      BY <1>1, <1>4, <2>2
    <3>2. w[j] = n \/ (w[j] \in B /\ w[j] \in Key)
      BY <1>1, <1>4, <1>5, <2>2
    <3> QED
      BY <3>1, <3>2, BeforeOrders
  <2>3. CASE i \notin 1..Len(a)
    <3>1. j \in (Len(a) + 2)..Len(w)
      BY <1>1, <1>3, <2>3
    <3> DEFINE y == j - Len(a) - 1
    <3>2. y \in 1..Len(b) /\ w[j] = b[y]
      BY <1>4, <3>1
    <3>3. CASE i = Len(a) + 1
      BY <1>1, <1>4, <3>2, <3>3
    <3>4. CASE i # Len(a) + 1
      <4> DEFINE x == i - Len(a) - 1
      <4>1. i \in (Len(a) + 2)..Len(w)
        BY <1>1, <1>3, <1>5, <2>3, <3>4
      <4>2. x \in 1..Len(b) /\ w[i] = b[x]
        BY <1>4, <4>1
      <4>3. x < y
        BY <1>1, <1>3
      <4> HIDE DEF x, y
      <4> QED
        BY <1>1, <3>2, <4>2, <4>3
    <3> QED
      BY <3>3, <3>4
  <2> QED
    BY <2>1, <2>2, <2>3
<1>8. Lists(w, A \cup {n} \cup B)
  BY <1>3, <1>6, <1>7 DEF Lists
<1> QED
  BY <1>8 DEF w, c

\* f is the walk from each node of X.
WalksOn(f, k, X) ==
  /\ f[Nil] = <<>>
  /\ \A n \in X : f[n] = f[k["left"][n]] \o <<n>> \o f[k["right"][n]]

LEMMA WalksExist ==
  ASSUME NEW r, NEW k, NEW p, NEW s, NEW S, Linked(r, k, p, S), Ordered(r, k, s, S)
  PROVE  \A m \in S \cup {Nil} : \E f : WalksOn(f, k, s[m])
<1>1. /\ S \subseteq Key /\ Nil \notin S /\ Nil \notin Key /\ s[Nil] = {} /\ S \subseteq Node
      /\ "left" \in Dir /\ "right" \in Dir /\ \A d \in Dir : d = "left" \/ d = "right"
      /\ \A m \in S : \A d \in Dir : k[d][m] \in S \cup {Nil} /\ s[k[d][m]] \subseteq s[m]
      /\ \A m \in S : m \in s[m] /\ s[m] \subseteq S
      /\ \A m \in S : \A i \in s[m] : s[i] \subseteq s[m]
  BY KeyFacts, NodeFacts DEF Linked, Ordered
<1>2. \E f : WalksOn(f, k, s[Nil])
  <2> DEFINE f == [n \in {Nil} |-> <<>>]
  <2>1. f[Nil] = <<>>
    OBVIOUS
  <2> HIDE DEF f
  <2>2. WalksOn(f, k, s[Nil])
    BY <1>1, <2>1 DEF WalksOn
  <2> QED
    BY <2>2
<1> DEFINE B == {m \in S : ~ \E f : WalksOn(f, k, s[m])}
<1>3. ASSUME NEW m \in B PROVE \E d \in Dir : k[d][m] \in B
  <2> SUFFICES ASSUME \A d \in Dir : k[d][m] \notin B PROVE FALSE
    OBVIOUS
  <2> DEFINE a == k["left"][m]
             b == k["right"][m]
  <2>1. /\ m \in S /\ a \in S \cup {Nil} /\ b \in S \cup {Nil}
        /\ s[a] \subseteq S /\ s[b] \subseteq S
        /\ (a # Nil => a \in s[a]) /\ (b # Nil => b \in s[b])
    BY <1>1
  <2>2. PICK f : WalksOn(f, k, s[a])
    BY <1>1, <1>2, <2>1
  <2>3. PICK g : WalksOn(g, k, s[b])
    BY <1>1, <1>2, <2>1
  <2>4. s[a] \cap s[b] = {} /\ m \notin s[a] /\ m \notin s[b]
    <3>1. \A i \in s[a] : Before(i, m)
      BY <1>1, <2>1 DEF Ordered, Toward
    <3>2. \A i \in s[b] : Before(m, i)
      BY <1>1, <2>1 DEF Ordered, Toward
    <3> HIDE DEF a, b
    <3>3. m \in Key /\ s[a] \subseteq Key /\ s[b] \subseteq Key
      BY <1>1, <2>1
    <3>4. \A i \in Key : ~ (Before(i, m) /\ Before(m, i)) /\ ~ Before(m, m)
      BY <3>3, BeforeOrders
    <3> QED
      BY <3>1, <3>2, <3>3, <3>4
  <2>5. \A i \in s[m] : i = m \/ i \in s[a] \/ i \in s[b]
    BY <1>1, <2>1 DEF Ordered
  <2>6. \A i \in s[a] : \A d \in Dir : k[d][i] \in s[a] \cup {Nil}
    <3> SUFFICES ASSUME NEW i \in s[a], NEW d \in Dir, k[d][i] # Nil PROVE k[d][i] \in s[a]
      OBVIOUS
    <3>1. a \in S /\ i \in S
      BY <1>1, <2>1
    <3>2. k[d][i] \in S /\ k[d][i] \in s[k[d][i]] /\ s[k[d][i]] \subseteq s[i] /\ s[i] \subseteq s[a]
      BY <1>1, <3>1
    <3> QED
      BY <3>2
  <2>7. \A i \in s[b] : \A d \in Dir : k[d][i] \in s[b] \cup {Nil}
    <3> SUFFICES ASSUME NEW i \in s[b], NEW d \in Dir, k[d][i] # Nil PROVE k[d][i] \in s[b]
      OBVIOUS
    <3>1. b \in S /\ i \in S
      BY <1>1, <2>1
    <3>2. k[d][i] \in S /\ k[d][i] \in s[k[d][i]] /\ s[k[d][i]] \subseteq s[i] /\ s[i] \subseteq s[b]
      BY <1>1, <3>1
    <3> QED
      BY <3>2
  <2> DEFINE h == [i \in Node |-> IF i = m THEN f[a] \o <<m>> \o g[b]
                                  ELSE IF i \in s[a] THEN f[i]
                                  ELSE IF i \in s[b] THEN g[i] ELSE <<>>]
  <2> HIDE DEF a, b
  <2>8. f[Nil] = <<>> /\ g[Nil] = <<>>
    BY <2>2, <2>3 DEF WalksOn
  <2>9. /\ h[Nil] = <<>> /\ h[m] = f[a] \o <<m>> \o g[b]
        /\ \A i \in s[a] \cup {Nil} : h[i] = f[i]
        /\ \A i \in s[b] \cup {Nil} : h[i] = g[i]
    <3>1. h[Nil] = <<>>
      BY <1>1, <2>1, NodeFacts
    <3>2. h[m] = f[a] \o <<m>> \o g[b]
      BY <1>1, <2>1
    <3>3. \A i \in s[a] : h[i] = f[i]
      BY <1>1, <2>1, <2>4
    <3>4. \A i \in s[b] : h[i] = g[i]
      BY <1>1, <2>1, <2>4
    <3> HIDE DEF h
    <3> QED
      BY <2>8, <3>1, <3>2, <3>3, <3>4
  <2> HIDE DEF h
  <2>10. \A i \in s[m] : h[i] = h[k["left"][i]] \o <<i>> \o h[k["right"][i]]
    <3> SUFFICES ASSUME NEW i \in s[m] PROVE h[i] = h[k["left"][i]] \o <<i>> \o h[k["right"][i]]
      OBVIOUS
    <3>1. CASE i = m
      <4>1. h[a] = f[a] /\ h[b] = g[b]
        BY <2>1, <2>9
      <4> QED
        BY <2>9, <3>1, <4>1 DEF a, b
    <3>2. CASE i \in s[a]
      <4>1. f[i] = f[k["left"][i]] \o <<i>> \o f[k["right"][i]]
        BY <2>2, <3>2 DEF WalksOn
      <4>2. h[i] = f[i] /\ h[k["left"][i]] = f[k["left"][i]] /\ h[k["right"][i]] = f[k["right"][i]]
        BY <1>1, <2>6, <2>9, <3>2
      <4> QED
        BY <4>1, <4>2
    <3>3. CASE i \in s[b]
      <4>1. g[i] = g[k["left"][i]] \o <<i>> \o g[k["right"][i]]
        BY <2>3, <3>3 DEF WalksOn
      <4>2. h[i] = g[i] /\ h[k["left"][i]] = g[k["left"][i]] /\ h[k["right"][i]] = g[k["right"][i]]
        BY <1>1, <2>7, <2>9, <3>3
      <4> QED
        BY <4>1, <4>2
    <3> QED
      BY <2>5, <3>1, <3>2, <3>3
  <2>11. WalksOn(h, k, s[m])
    BY <2>9, <2>10 DEF WalksOn
  <2> QED
    BY <2>11
<1>4. B = {}
  <2> HIDE DEF B
  <2>1. B \in SUBSET S
    BY DEF B
  <2> QED
    BY <1>3, <2>1, Descend
<1> QED
  BY <1>2, <1>4

\* getLevels lists the prices in the tree from best to worst.
LEMMA WalkLists ==
  ASSUME NEW t, Typed(t), NEW s, NEW S, Shaped(t, s, S)
  PROVE  Lists(Walk(t), S)
<1> DEFINE k == t.kid
           Join(f, n) == f[k["left"][n]] \o <<n>> \o f[k["right"][n]]
           G(f) == [n \in Node |-> IF n = Nil THEN <<>> ELSE Join(f, n)]
           f0 == CHOOSE f : f = G(f)
<1>1. Linked(t.root, k, t.parent, S) /\ Ordered(t.root, k, s, S)
  BY DEF Shaped
<1>2. /\ S \subseteq Key /\ Nil \notin S /\ Nil \notin Key /\ s[Nil] = {} /\ S \subseteq Node /\ Nil \in Node
      /\ t.root \in S \cup {Nil} /\ s[t.root] = S
      /\ "left" \in Dir /\ "right" \in Dir /\ \A d \in Dir : d = "left" \/ d = "right"
      /\ \A m \in Key : \A d \in Dir : k[d][m] \in S \cup {Nil} /\ (m \notin S => k[d][m] = Nil)
  BY <1>1, KeyFacts, NodeFacts DEF Linked, Ordered
<1>3. PICK f : WalksOn(f, k, S)
  BY <1>1, <1>2, WalksExist
<1> DEFINE F == [n \in Node |-> IF n \in S \cup {Nil} THEN f[n] ELSE <<>> \o <<n>> \o <<>>]
<1>4. /\ F[Nil] = <<>> /\ \A n \in S : F[n] = f[n]
      /\ \A n \in Key : n \notin S => F[n] = <<>> \o <<n>> \o <<>>
  <2>1. f[Nil] = <<>>
    BY <1>3 DEF WalksOn
  <2> QED
    BY <1>2, <2>1, NodeFacts
<1> HIDE DEF k
<1>5. F = G(F)
  <2>1. \A n \in Node : F[n] = IF n = Nil THEN <<>> ELSE Join(F, n)
    <3> HIDE DEF F
    <3> TAKE n \in Node
    <3>1. CASE n = Nil
      BY <1>4, <3>1
    <3>2. CASE n \in S
      <4>1. f[n] = f[k["left"][n]] \o <<n>> \o f[k["right"][n]] /\ f[Nil] = <<>>
        BY <1>3, <3>2 DEF WalksOn
      <4>2. F[k["left"][n]] = f[k["left"][n]] /\ F[k["right"][n]] = f[k["right"][n]]
        <5>1. \A i \in S \cup {Nil} : F[i] = f[i]
          BY <1>4, <4>1
        <5> QED
          BY <1>2, <3>2, <5>1
      <4> QED
        BY <1>2, <1>4, <3>2, <4>1, <4>2
    <3>3. CASE n # Nil /\ n \notin S
      <4>1. n \in Key /\ k["left"][n] = Nil /\ k["right"][n] = Nil
        BY <1>2, <3>3, NodeFacts
      <4> QED
        BY <1>4, <3>3, <4>1
    <3> QED
      BY <3>1, <3>2, <3>3
  <2>2. F = [n \in Node |-> F[n]]
    OBVIOUS
  <2> HIDE DEF F, Join
  <2> QED
    BY <2>1, <2>2
<1> HIDE DEF F
<1>6. f0 = G(f0)
  <2> HIDE DEF G
  <2> QED
    BY <1>5
<1> HIDE DEF f0
<1>7. \A n \in Node : f0[n] = IF n = Nil THEN <<>> ELSE Join(f0, n)
  <2> HIDE DEF Join
  <2> QED
    BY <1>6
<1>8. Lists(<<>>, {})
  BY DEF Lists
<1>9. f0[Nil] = <<>>
  BY <1>2, <1>7
<1> DEFINE B == {m \in S : ~ Lists(f0[m], s[m])}
<1>10. ASSUME NEW m \in B PROVE \E d \in Dir : k[d][m] \in B
  <2> SUFFICES ASSUME \A d \in Dir : k[d][m] \notin B PROVE FALSE
    OBVIOUS
  <2> DEFINE a == k["left"][m]
             b == k["right"][m]
  <2>1. m \in S /\ m \in Key /\ m \in Node /\ a \in S \cup {Nil} /\ b \in S \cup {Nil}
    BY <1>2
  <2>2. Lists(f0[a], s[a]) /\ Lists(f0[b], s[b])
    BY <1>2, <1>8, <1>9, <2>1
  <2>3. /\ \A i \in s[a] : Before(i, m)
        /\ \A i \in s[b] : Before(m, i)
    BY <1>1, <1>2, <2>1 DEF Ordered, Toward
  <2>4. s[m] = s[a] \cup {m} \cup s[b]
    <3>1. m \in s[m] /\ s[a] \subseteq s[m] /\ s[b] \subseteq s[m]
      BY <1>1, <1>2, <2>1 DEF Ordered
    <3>2. \A i \in s[m] : i = m \/ i \in s[a] \/ i \in s[b]
      BY <1>1, <1>2, <2>1 DEF Ordered
    <3> QED
      BY <3>1, <3>2
  <2>5. f0[m] = f0[a] \o <<m>> \o f0[b]
    BY <1>2, <1>7, <2>1
  <2> HIDE DEF a, b
  <2>6. Lists(f0[m], s[m])
    BY <2>1, <2>2, <2>3, <2>4, <2>5, ListsJoined
  <2> QED
    BY <2>6
<1>11. B = {}
  <2> HIDE DEF B
  <2>1. B \in SUBSET S
    BY DEF B
  <2> QED
    BY <1>1, <1>10, <2>1, Descend
<1>12. Lists(f0[t.root], S)
  BY <1>2, <1>8, <1>9, <1>11
<1>13. Walk(t) = f0[t.root]
  BY DEF Walk, f0, G, Join, k
<1> QED
  BY <1>12, <1>13

-----------------------------------------------------------------------------
(***************************************************************************)
(* The tree in use holds the prices that were put in and not taken out.    *)
(***************************************************************************)

TreeInv == Has(tree, keys) /\ keys \in SUBSET Key /\ size = Cardinality(keys)

LEMMA EmptyHas == Has(Empty, {})
<1>1. /\ Typed(Empty) /\ Empty.root = Nil
      /\ \A d \in Dir : \A n \in Key : Empty.kid[d][n] = Nil
      /\ \A n \in Key : Empty.parent[n] = Nil
  BY NodeFacts DEF Empty, Typed, TreeRecord
<1> DEFINE s == [n \in Node |-> {}]
<1>2. s[Nil] = {}
  BY NodeFacts
<1> HIDE DEF s
<1>3. Linked(Empty.root, Empty.kid, Empty.parent, {}) /\ Ordered(Empty.root, Empty.kid, s, {})
  BY <1>1, <1>2 DEF Linked, Ordered
<1> QED
  BY <1>1, <1>3 DEF Has, Shaped

LEMMA TreeInvInit == TreeInit => TreeInv
<1>1. Cardinality({}) = 0
  BY FS_EmptySet
<1> QED
  BY <1>1, EmptyHas DEF TreeInit, TreeInv

LEMMA TreeInvInsert ==
  ASSUME NEW k \in Key, TreeInv, Insert(k) PROVE TreeInv'
<1>1. /\ Has(tree, keys) /\ keys \in SUBSET Key /\ size = Cardinality(keys) /\ ~ tree.crashed
      /\ keys' = keys \cup {k}
  BY DEF TreeInv, Insert
<1>2. IsFiniteSet(keys)
  BY <1>1, KeyFacts, FS_Subset
<1>3. Find(tree, k) = IF k \in keys THEN k ELSE Nil
  BY <1>1, FindFinds DEF Has
<1>4. CASE k \in keys
  <2>1. UNCHANGED <<tree, size>> /\ keys' = keys
    BY <1>1, <1>3, <1>4, KeyFacts DEF Insert
  <2> QED
    BY <1>1, <2>1 DEF TreeInv
<1>5. CASE k \notin keys
  <2>1. tree' = Inserted(tree, k) /\ size' = size + 1
    BY <1>3, <1>5 DEF Insert
  <2>2. Has(Inserted(tree, k), keys \cup {k})
    BY <1>1, <1>5, InsertedHas
  <2>3. Cardinality(keys \cup {k}) = Cardinality(keys) + 1
    BY <1>2, <1>5, FS_AddElement
  <2>4. Has(tree', keys')
    BY <1>1, <2>1, <2>2
  <2> QED
    BY <1>1, <2>1, <2>3, <2>4 DEF TreeInv
<1> QED
  BY <1>4, <1>5

LEMMA TreeInvRemove ==
  ASSUME NEW k \in Key, TreeInv, Remove(k) PROVE TreeInv'
<1>1. /\ Has(tree, keys) /\ keys \in SUBSET Key /\ size = Cardinality(keys) /\ ~ tree.crashed
      /\ keys' = keys \ {k}
  BY DEF TreeInv, Remove
<1>2. IsFiniteSet(keys)
  BY <1>1, KeyFacts, FS_Subset
<1>3. Find(tree, k) = IF k \in keys THEN k ELSE Nil
  BY <1>1, FindFinds DEF Has
<1>4. CASE k \notin keys
  <2>1. UNCHANGED <<tree, size>> /\ keys' = keys
    BY <1>1, <1>3, <1>4, KeyFacts DEF Remove
  <2> QED
    BY <1>1, <2>1 DEF TreeInv
<1>5. CASE k \in keys
  <2>1. tree' = Removed(tree, k) /\ size' = size - 1
    BY <1>3, <1>5, KeyFacts DEF Remove
  <2>2. Has(Removed(tree, k), keys \ {k})
    BY <1>1, <1>5, RemovedHas
  <2>3. Cardinality(keys \ {k}) = Cardinality(keys) - 1
    BY <1>2, <1>5, FS_RemoveElement
  <2>4. Has(tree', keys')
    BY <1>1, <2>1, <2>2
  <2> QED
    BY <1>1, <2>1, <2>3, <2>4 DEF TreeInv
<1> QED
  BY <1>4, <1>5

LEMMA NextTree == TreeInv /\ [TreeNext]_treeVars => TreeInv'
<1> SUFFICES ASSUME TreeInv, [TreeNext]_treeVars PROVE TreeInv'
  OBVIOUS
<1>1. ASSUME NEW k \in Key, Insert(k) PROVE TreeInv'
  BY <1>1, TreeInvInsert
<1>2. ASSUME NEW k \in Key, Remove(k) PROVE TreeInv'
  BY <1>2, TreeInvRemove
<1>3. CASE UNCHANGED treeVars
  BY <1>3 DEF TreeInv, treeVars
<1> QED
  BY <1>1, <1>2, <1>3 DEF TreeNext

\* What the walks return of such a tree.
LEMMA TreeInvRepresents == TreeInv => RepresentsKeys
<1> SUFFICES ASSUME TreeInv, ~ tree.crashed
             PROVE  /\ \A k \in Key : Find(tree, k) = IF k \in keys THEN k ELSE Nil
                    /\ First(tree) = IF keys = {} THEN Nil
                                     ELSE CHOOSE k \in keys : \A j \in keys : j = k \/ Before(k, j)
                    /\ {Walk(tree)[i] : i \in DOMAIN Walk(tree)} = keys
                    /\ \A i \in 1..(Len(Walk(tree)) - 1) : Before(Walk(tree)[i], Walk(tree)[i + 1])
                    /\ size = Cardinality(keys)
  BY DEF RepresentsKeys
<1>1. Typed(tree) /\ keys \in SUBSET Key /\ size = Cardinality(keys)
  BY DEF TreeInv, Has
<1>2. PICK s : Shaped(tree, s, keys)
  BY DEF TreeInv, Has
<1>3. \A k \in Key : Find(tree, k) = IF k \in keys THEN k ELSE Nil
  BY <1>1, <1>2, FindFinds
<1>4. First(tree) = IF keys = {} THEN Nil ELSE Least(keys)
  <2>1. tree.root \in keys \cup {Nil} /\ s[tree.root] = keys /\ s[Nil] = {}
    BY <1>2 DEF Shaped, Linked, Ordered
  <2>2. First(tree) = Leftmost(tree, tree.root)
    BY DEF First
  <2>3. CASE tree.root = Nil
    <3>1. Leftmost(tree, Nil) = Nil
      BY <1>1, <1>2, LeftmostStep, NodeFacts
    <3> QED
      BY <2>1, <2>2, <2>3, <3>1
  <2>4. CASE tree.root # Nil
    <3>1. tree.root \in keys
      BY <2>1, <2>4
    <3>2. Leftmost(tree, tree.root) = Least(s[tree.root])
      BY <1>1, <1>2, <3>1, LeftmostLeast
    <3> QED
      BY <2>1, <2>2, <3>1, <3>2
  <2> QED
    BY <2>3, <2>4
<1>5. Least(keys) = CHOOSE k \in keys : \A j \in keys : j = k \/ Before(k, j)
  BY DEF Least
<1> DEFINE w == Walk(tree)
<1>6. w \in Seq(Key) /\ {w[i] : i \in 1..Len(w)} = keys /\ \A i, j \in 1..Len(w) : i < j => Before(w[i], w[j])
  <2>1. Lists(Walk(tree), keys)
    BY <1>1, <1>2, WalkLists
  <2> QED
    BY <2>1 DEF Lists
<1> HIDE DEF w
<1>7. DOMAIN w = 1..Len(w) /\ Len(w) \in Nat
  BY <1>6
<1>8. {w[i] : i \in DOMAIN w} = keys
  BY <1>6, <1>7
<1>9. \A i \in 1..(Len(w) - 1) : Before(w[i], w[i + 1])
  <2> SUFFICES ASSUME NEW i \in 1..(Len(w) - 1) PROVE Before(w[i], w[i + 1])
    OBVIOUS
  <2>1. i \in 1..Len(w) /\ i + 1 \in 1..Len(w) /\ i < i + 1
    BY <1>7
  <2> QED
    BY <1>6, <2>1
<1> QED
  BY <1>1, <1>3, <1>4, <1>5, <1>8, <1>9 DEF w

\* A tree of price levels is the set of its prices, as long as its code has not
\* followed a nil pointer: find finds these and no other, first is the best, the
\* walk lists them all from best to worst, and size counts them, whatever the
\* fixups have made of the colours and the heights.
THEOREM TreeHoldsThePrices == TreeSpec => []RepresentsKeys
<1>1. TreeInit => TreeInv
  BY TreeInvInit
<1>2. TreeInv /\ [TreeNext]_treeVars => TreeInv'
  BY NextTree
<1>3. TreeInv => RepresentsKeys
  BY TreeInvRepresents
<1> QED
  BY <1>1, <1>2, <1>3, PTL DEF TreeSpec

-----------------------------------------------------------------------------
-----------------------------------------------------------------------------
(***************************************************************************)
(* The colours, while nothing is removed.  h gives for each node the       *)
(* number of black nodes on every way down from it; n is the one node that *)
(* may be red below a red parent, or as the root.                          *)
(***************************************************************************)

Coloured(r, k, red, h, n, S) ==
  /\ h[Nil] = 0 /\ \A m \in S : h[m] \in Int
  /\ \A m \in S : \A d \in Dir : h[m] = h[k[d][m]] + (IF red[m] THEN 0 ELSE 1)
  /\ \A m \in Key \ S : red[m]
  /\ \A m \in S : \A d \in Dir : red[m] /\ k[d][m] # Nil /\ k[d][m] # n => ~ red[k[d][m]]
  /\ r # Nil /\ r # n => ~ red[r]

\* What a rotation at x does to links: q is the child that goes up, c the one that changes over.
Turns(r, k, x, d, q, c, r2, k2) ==
  /\ r2 = IF r = x THEN q ELSE r
  /\ \A e \in Dir : \A m \in Key :
       k2[e][m] = IF m = x /\ e = Flip(d) THEN c ELSE IF m = q /\ e = d THEN x
                  ELSE IF k[e][m] = x THEN q ELSE k[e][m]

\* The first rotation of insertFixup: both nodes are red and no height changes.
LEMMA TurnColours ==
  ASSUME NEW r, NEW k, NEW p, NEW s, NEW S, Linked(r, k, p, S), Ordered(r, k, s, S),
         NEW x \in Key, NEW d \in Dir, NEW q, q = k[Flip(d)][x], q # Nil, NEW c, c = k[d][q],
         NEW red, NEW h, Coloured(r, k, red, h, q, S), red[x], red[q],
         NEW r2, NEW k2, Turns(r, k, x, d, q, c, r2, k2)
  PROVE  Coloured(r2, k2, red, h, x, S)
<1> DEFINE o == Flip(d)
           a == k[d][x]
           b == k[o][q]
<1>1. q = k[o][x] /\ c = k[d][q] /\ a = k[d][x] /\ b = k[o][q] /\ o = Flip(d)
  OBVIOUS
<1> HIDE DEF o, a, b
<1>2. /\ S \subseteq Key /\ Nil \notin S /\ x \in S /\ q \in S /\ q # x
      /\ c \in S \cup {Nil} /\ a \in S \cup {Nil} /\ b \in S \cup {Nil}
      /\ c # x /\ c # q /\ a # x /\ a # q /\ b # x /\ b # q
      /\ o \in Dir /\ o # d /\ \A e \in Dir : e = d \/ e = o
  BY <1>1, RotationFacts
<1>3. \A m \in S : \A e \in Dir : k[e][m] \in S \cup {Nil}
  BY <1>2 DEF Linked
<1>4. r # x /\ r2 = r
  BY <1>2 DEF Coloured, Turns
<1>5. \A m \in S : \A e \in Dir : k[e][m] = x => ~ red[m]
  BY <1>2 DEF Coloured
<1>6. /\ k2[o][x] = c /\ k2[d][x] = a /\ k2[d][q] = x /\ k2[o][q] = b
      /\ \A m \in S \ {x, q} : \A e \in Dir : k2[e][m] = IF k[e][m] = x THEN q ELSE k[e][m]
  BY <1>1, <1>2 DEF Turns
<1>7. h[x] = h[a] /\ h[x] = h[q] /\ h[q] = h[c] /\ h[q] = h[b]
  <2>1. h[x] = h[a] + 0 /\ h[x] = h[q] + 0 /\ h[q] = h[c] + 0 /\ h[q] = h[b] + 0
    BY <1>1, <1>2 DEF Coloured
  <2>2. h[a] \in Int /\ h[q] \in Int /\ h[c] \in Int /\ h[b] \in Int
    BY <1>2 DEF Coloured
  <2> QED
    BY <2>1, <2>2
<1>8. ASSUME NEW m \in S, NEW e \in Dir PROVE h[k2[e][m]] = h[k[e][m]]
  <2>1. CASE m = x \/ m = q
    BY <1>1, <1>2, <1>6, <1>7, <2>1
  <2>2. CASE m # x /\ m # q
    BY <1>6, <1>7, <2>2
  <2> QED
    BY <2>1, <2>2
<1>9. ASSUME NEW m \in S, NEW e \in Dir, red[m], k2[e][m] # Nil, k2[e][m] # x PROVE ~ red[k2[e][m]]
  <2>1. CASE m = x
    <3>1. k2[e][m] = a \/ k2[e][m] = c
      BY <1>2, <1>6, <2>1
    <3>2. (a # Nil => ~ red[a]) /\ (c # Nil => ~ red[c])
      BY <1>1, <1>2 DEF Coloured
    <3> QED
      BY <1>9, <3>1, <3>2
  <2>2. CASE m = q
    <3>1. k2[e][m] = b
      BY <1>2, <1>6, <1>9, <2>2
    <3>2. b # Nil => ~ red[b]
      BY <1>1, <1>2 DEF Coloured
    <3> QED
      BY <1>9, <3>1, <3>2
  <2>3. CASE m # x /\ m # q
    <3>1. k[e][m] # x /\ k2[e][m] = k[e][m]
      BY <1>5, <1>6, <1>9, <2>3
    <3>2. k[e][m] # q
      <4>1. \A i \in S : \A f \in Dir : k[f][i] # Nil => p[k[f][i]] = i
        BY DEF Linked
      <4>2. p[q] = x
        BY <1>1, <1>2, <4>1
      <4> QED
        BY <1>2, <2>3, <4>1, <4>2
    <3> QED
      BY <1>9, <3>1, <3>2 DEF Coloured
  <2> QED
    BY <2>1, <2>2, <2>3
<1>10. \A m \in S : \A e \in Dir : h[m] = h[k2[e][m]] + (IF red[m] THEN 0 ELSE 1)
  <2> TAKE m \in S
  <2> TAKE e \in Dir
  <2>1. h[m] = h[k[e][m]] + (IF red[m] THEN 0 ELSE 1)
    BY DEF Coloured
  <2> QED
    BY <1>8, <2>1
<1>11. /\ h[Nil] = 0 /\ \A m \in S : h[m] \in Int
       /\ \A m \in Key \ S : red[m]
       /\ (r2 # Nil /\ r2 # x => ~ red[r2])
  <2>1. r # Nil => r # q
    BY <1>1, <1>2 DEF Linked
  <2> QED
    BY <1>4, <2>1 DEF Coloured
<1>12. \A m \in S : \A e \in Dir : red[m] /\ k2[e][m] # Nil /\ k2[e][m] # x => ~ red[k2[e][m]]
  BY <1>9
<1> QED
  BY <1>10, <1>11, <1>12 DEF Coloured

\* Red x below black q, and their heights to match.
Lifted(red, h, x, q, red2, h2) ==
  /\ \A m \in Key : red2[m] <=> m = x \/ (m # q /\ red[m])
  /\ \A m \in Node : h2[m] = IF m = x THEN h[x] - 1 ELSE IF m = q THEN h[q] + 1 ELSE h[m]

\* The second one: black x goes down below its red child q, and they change colours.
LEMMA LiftColours ==
  ASSUME NEW r, NEW k, NEW p, NEW s, NEW S, Linked(r, k, p, S), Ordered(r, k, s, S),
         NEW x \in Key, NEW d \in Dir, NEW q, q = k[Flip(d)][x], q # Nil, NEW c, c = k[d][q],
         NEW n, n = k[Flip(d)][q], n # Nil,
         NEW red, NEW h, Coloured(r, k, red, h, n, S), ~ red[x], red[q],
         k[d][x] # Nil => ~ red[k[d][x]],
         NEW r2, NEW k2, Turns(r, k, x, d, q, c, r2, k2),
         NEW red2, NEW h2, Lifted(red, h, x, q, red2, h2)
  PROVE  Coloured(r2, k2, red2, h2, Nil, S)
<1>0. /\ \A m \in Key : red2[m] <=> m = x \/ (m # q /\ red[m])
      /\ \A m \in Node : h2[m] = IF m = x THEN h[x] - 1 ELSE IF m = q THEN h[q] + 1 ELSE h[m]
  BY DEF Lifted
<1> DEFINE o == Flip(d)
           a == k[d][x]
<1>1. q = k[o][x] /\ c = k[d][q] /\ a = k[d][x] /\ n = k[o][q] /\ o = Flip(d)
  OBVIOUS
<1> HIDE DEF o, a
<1>2. /\ S \subseteq Key /\ Nil \notin S /\ Nil \notin Key /\ x \in S /\ q \in S /\ q # x
      /\ c \in S \cup {Nil} /\ a \in S \cup {Nil} /\ n \in S
      /\ c # x /\ c # q /\ a # x /\ a # q /\ n # x /\ n # q /\ (c # Nil => c # n)
      /\ p[q] = x
      /\ o \in Dir /\ o # d /\ \A e \in Dir : e = d \/ e = o
  BY <1>1, RotationFacts
<1>3. /\ \A m \in S : \A e \in Dir : k[e][m] \in S \cup {Nil} /\ (k[e][m] # Nil => p[k[e][m]] = m)
      /\ (r # Nil => p[r] = Nil)
  BY <1>2 DEF Linked
<1>4. p[n] = q /\ r # n /\ r # q
  BY <1>1, <1>2, <1>3
<1>6. /\ k2[o][x] = c /\ k2[d][x] = a /\ k2[d][q] = x /\ k2[o][q] = n
      /\ \A m \in S \ {x, q} : \A e \in Dir : k2[e][m] = IF k[e][m] = x THEN q ELSE k[e][m]
  BY <1>1, <1>2 DEF Turns
<1>7. /\ h[x] \in Int /\ h[a] \in Int /\ h[c] \in Int /\ h[n] \in Int /\ h[q] \in Int
      /\ h[x] = h[a] + 1 /\ h[x] = h[q] + 1 /\ h[q] = h[c] /\ h[q] = h[n]
  <2>1. h[x] = h[a] + 1 /\ h[x] = h[q] + 1 /\ h[q] = h[c] + 0 /\ h[q] = h[n] + 0
    BY <1>1, <1>2 DEF Coloured
  <2>2. h[x] \in Int /\ h[a] \in Int /\ h[q] \in Int /\ h[c] \in Int /\ h[n] \in Int
    BY <1>2 DEF Coloured
  <2> QED
    BY <2>1, <2>2
<1>8. /\ h2[x] = h[x] - 1 /\ h2[q] = h[q] + 1 /\ h2[a] = h[a] /\ h2[c] = h[c] /\ h2[n] = h[n]
      /\ h2[Nil] = h[Nil] /\ \A m \in S \ {x, q} : h2[m] = h[m]
  BY <1>0, <1>2, NodeFacts
<1>9. /\ ~ red2[q] /\ red2[x] /\ \A m \in Key \ {x, q} : red2[m] <=> red[m]
  BY <1>0, <1>2
<1>10. h2[Nil] = 0 /\ \A m \in S : h2[m] \in Int
  BY <1>7, <1>8 DEF Coloured
<1>11. ASSUME NEW m \in S, NEW e \in Dir
       PROVE  h2[m] = h2[k2[e][m]] + (IF red2[m] THEN 0 ELSE 1)
  <2>1. CASE m = x
    BY <1>2, <1>6, <1>7, <1>8, <1>9, <2>1
  <2>2. CASE m = q
    BY <1>2, <1>6, <1>7, <1>8, <1>9, <2>2
  <2>3. CASE m # x /\ m # q
    <3>1. h[m] = h[k[e][m]] + (IF red[m] THEN 0 ELSE 1)
      BY DEF Coloured
    <3>2. h2[m] = h[m] /\ (red2[m] <=> red[m])
      BY <1>2, <1>8, <1>9, <2>3
    <3>3. h2[k2[e][m]] = h[k[e][m]]
      <4>1. CASE k[e][m] = x
        BY <1>6, <1>7, <1>8, <2>3, <4>1
      <4>2. CASE k[e][m] # x
        <5>1. k[e][m] # q
          BY <1>2, <1>3, <2>3
        <5>2. k[e][m] \in S \cup {Nil} /\ k2[e][m] = k[e][m]
          BY <1>3, <1>6, <2>3, <4>2
        <5> QED
          BY <1>8, <4>2, <5>1, <5>2
      <4> QED
        BY <4>1, <4>2
    <3> QED
      BY <3>1, <3>2, <3>3
  <2> QED
    BY <2>1, <2>2, <2>3
<1>12. ASSUME NEW m \in S, NEW e \in Dir, red2[m], k2[e][m] # Nil PROVE ~ red2[k2[e][m]]
  <2>1. CASE m = x
    <3>1. k2[e][m] = a \/ k2[e][m] = c
      BY <1>2, <1>6, <2>1
    <3>2. (a # Nil => ~ red[a]) /\ (c # Nil => ~ red[c])
      BY <1>1, <1>2 DEF Coloured
    <3>3. (a # Nil => ~ red2[a]) /\ (c # Nil => ~ red2[c])
      BY <1>2, <1>9, <3>2
    <3> QED
      BY <1>12, <3>1, <3>3
  <2>2. CASE m = q
    BY <1>9, <1>12, <2>2
  <2>3. CASE m # x /\ m # q
    <3>1. red[m]
      BY <1>2, <1>9, <1>12, <2>3
    <3>2. CASE k[e][m] = x
      BY <1>6, <1>9, <2>3, <3>2
    <3>3. CASE k[e][m] # x
      <4>1. k2[e][m] = k[e][m] /\ k[e][m] \in S
        BY <1>3, <1>6, <1>12, <2>3, <3>3
      <4>2. k[e][m] # n
        BY <1>2, <1>3, <1>4, <2>3
      <4>3. ~ red[k[e][m]]
        BY <1>12, <3>1, <4>1, <4>2 DEF Coloured
      <4> QED
        BY <1>2, <1>9, <3>3, <4>1, <4>3
    <3> QED
      BY <3>2, <3>3
  <2> QED
    BY <2>1, <2>2, <2>3
<1>13. r2 # Nil => ~ red2[r2]
  <2>1. CASE r = x
    BY <1>9, <2>1 DEF Turns
  <2>2. CASE r # x
    <3>1. r2 = r /\ (r # Nil => ~ red[r]) /\ (r # Nil => r \in Key)
      BY <1>2, <1>4, <2>2 DEF Turns, Coloured, Linked
    <3> QED
      BY <1>4, <1>9, <2>2, <3>1
  <2> QED
    BY <2>1, <2>2
<1>14. \A m \in Key \ S : red2[m]
  <2> TAKE m \in Key \ S
  <2>1. m # x /\ m # q /\ red[m]
    BY <1>2 DEF Coloured
  <2> QED
    BY <1>9, <2>1
<1> QED
  BY <1>10, <1>11, <1>12, <1>13, <1>14 DEF Coloured

\* The case of a red uncle u: the parent x and u turn black, and g above them red.
LEMMA RecolourColours ==
  ASSUME NEW r, NEW k, NEW p, NEW s, NEW S, Linked(r, k, p, S), Ordered(r, k, s, S),
         NEW n \in S, NEW x \in S, p[n] = x, NEW g \in S, NEW d \in Dir, k[d][g] = x,
         NEW u \in S, u = k[Flip(d)][g],
         NEW red, NEW h, Coloured(r, k, red, h, n, S), red[n], red[x], red[u],
         NEW red2, \A m \in Key : red2[m] <=> m = g \/ (m # u /\ m # x /\ red[m]),
         NEW h2, \A m \in Node : h2[m] = IF m = x \/ m = u THEN h[m] + 1 ELSE h[m]
  PROVE  Coloured(r, k, red2, h2, g, S)
<1> DEFINE o == Flip(d)
<1>1. u = k[o][g] /\ o \in Dir /\ o # d /\ \A e \in Dir : e = d \/ e = o
  BY Flips
<1> HIDE DEF o
<1>2. /\ S \subseteq Key /\ Nil \notin S /\ Nil \notin Key /\ r \in S \cup {Nil}
      /\ \A m \in S : \A e \in Dir : k[e][m] \in S \cup {Nil} /\ (k[e][m] # Nil => p[k[e][m]] = m)
      /\ \A m \in S : m # r => \E e \in Dir : k[e][p[m]] = m
      /\ (r # Nil => p[r] = Nil)
  BY KeyFacts DEF Linked
<1>3. \A m \in S : \A e \in Dir : k[e][m] # m
  BY <1>2, NotItself
<1>4. p[x] = g /\ p[u] = g /\ x # g /\ u # g /\ r # n /\ r # x /\ r # u
  BY <1>1, <1>2, <1>3
<1>5. n # x /\ n # u
  BY <1>2, <1>3, <1>4
<1>6. u # x
  <2>1. p[x] = g /\ x \in Key
    BY <1>2, <1>4
  <2>2. \A e \in Dir : k[e][g] = x => e = IF x = k["left"][g] THEN "left" ELSE "right"
    <3> DEFINE f == IF x = k["left"][p[x]] THEN "left" ELSE "right"
    <3>1. \A e \in Dir : \A m \in Key : k[e][m] = x <=> p[x] # Nil /\ m = p[x] /\ e = f
      BY ChildSide
    <3> QED
      BY <1>2, <2>1, <3>1
  <2> QED
    BY <1>1, <2>2
<1>7. ~ red[g]
  BY <1>2, <1>5 DEF Coloured
<1>8. /\ red2[g] /\ ~ red2[x] /\ ~ red2[u] /\ \A m \in Key : m \notin {g, x, u} => (red2[m] <=> red[m])
  BY <1>2, <1>4
<1>9. /\ h2[x] = h[x] + 1 /\ h2[u] = h[u] + 1 /\ h2[Nil] = h[Nil]
      /\ \A m \in S : m \notin {x, u} => h2[m] = h[m]
  BY <1>2, NodeFacts
<1>10. /\ h[g] \in Int /\ h[x] \in Int /\ h[u] \in Int /\ h[g] = h[x] + 1 /\ h[g] = h[u] + 1
  <2>1. h[g] = h[x] + 1 /\ h[g] = h[u] + 1
    BY <1>1, <1>7 DEF Coloured
  <2>2. h[g] \in Int /\ h[x] \in Int /\ h[u] \in Int
    BY DEF Coloured
  <2> QED
    BY <2>1, <2>2
<1>11. h2[Nil] = 0 /\ \A m \in S : h2[m] \in Int
  BY <1>9, <1>10 DEF Coloured
<1>12. ASSUME NEW m \in S, NEW e \in Dir
       PROVE  h2[m] = h2[k[e][m]] + (IF red2[m] THEN 0 ELSE 1)
  <2>1. h[m] = h[k[e][m]] + (IF red[m] THEN 0 ELSE 1)
    BY DEF Coloured
  <2>2. h[k[e][m]] \in Int
    BY <1>2 DEF Coloured
  <2>3. CASE m = g
    <3>1. k[e][m] = x \/ k[e][m] = u
      BY <1>1, <2>3
    <3> QED
      BY <1>4, <1>8, <1>9, <1>10, <2>3, <3>1
  <2>4. CASE m = x \/ m = u
    <3>1. k[e][m] \notin {x, u} /\ k[e][m] \in S \cup {Nil}
      BY <1>2, <1>3, <1>4, <2>4
    <3>2. h2[k[e][m]] = h[k[e][m]]
      BY <1>9, <3>1
    <3> QED
      BY <1>8, <1>9, <2>1, <2>2, <2>4, <3>2
  <2>5. CASE m \notin {g, x, u}
    <3>1. k[e][m] \notin {x, u} /\ k[e][m] \in S \cup {Nil}
      BY <1>2, <1>4, <2>5
    <3>2. h2[k[e][m]] = h[k[e][m]]
      BY <1>9, <3>1
    <3>3. m \in Key
      BY <1>2
    <3> QED
      BY <1>8, <1>9, <2>1, <2>5, <3>2, <3>3
  <2> QED
    BY <2>3, <2>4, <2>5
<1>13. ASSUME NEW m \in S, NEW e \in Dir, red2[m], k[e][m] # Nil, k[e][m] # g PROVE ~ red2[k[e][m]]
  <2>1. k[e][m] \in S /\ p[k[e][m]] = m
    BY <1>2, <1>13
  <2>2. m # x /\ m # u
    BY <1>8, <1>13
  <2>3. CASE m = g
    BY <1>1, <1>8, <2>3
  <2>4. CASE m # g
    <3>1. red[m] /\ k[e][m] \notin {n, x, u}
      BY <1>2, <1>4, <1>8, <1>13, <2>1, <2>2, <2>4
    <3>2. ~ red[k[e][m]]
      BY <1>13, <3>1 DEF Coloured
    <3> QED
      BY <1>2, <1>8, <1>13, <2>1, <3>1, <3>2
  <2> QED
    BY <2>3, <2>4
<1>14. r # Nil /\ r # g => ~ red2[r]
  BY <1>2, <1>4, <1>8 DEF Coloured
<1>15. \A m \in Key \ S : red2[m]
  <2> TAKE m \in Key \ S
  <2>1. m \notin {g, x, u} /\ red[m]
    BY DEF Coloured
  <2> QED
    BY <1>8, <2>1
<1> QED
  BY <1>11, <1>12, <1>13, <1>14, <1>15 DEF Coloured

\* The end of insertFixup: with no red parent for n the tree is in order once its root is black.
LEMMA RootColours ==
  ASSUME NEW r, NEW k, NEW p, NEW s, NEW S, Linked(r, k, p, S), Ordered(r, k, s, S),
         NEW n \in S, NEW red, NEW h, Coloured(r, k, red, h, n, S), p[n] = Nil \/ ~ red[p[n]],
         NEW red2, \A m \in Key : red2[m] <=> m # r /\ red[m]
  PROVE  \E h2 : Coloured(r, k, red2, h2, Nil, S)
<1>1. /\ S \subseteq Key /\ Nil \notin S /\ Nil \notin Key
      /\ \A m \in S : \A e \in Dir : k[e][m] \in S \cup {Nil} /\ (k[e][m] # Nil => p[k[e][m]] = m)
      /\ \A m \in S : m # r => p[m] \in S
      /\ (r # Nil => p[r] = Nil)
  BY KeyFacts DEF Linked
<1>2. r \in S
  BY DEF Linked, Ordered
<1>3. r # n => ~ red[r]
  BY <1>1, <1>2 DEF Coloured
<1> DEFINE h2 == [m \in Node |-> IF m = r /\ red[r] THEN h[r] + 1 ELSE h[m]]
<1>4. /\ h2[r] = (IF red[r] THEN h[r] + 1 ELSE h[r]) /\ h2[Nil] = h[Nil]
      /\ \A m \in S : m # r => h2[m] = h[m]
  BY <1>1, <1>2, NodeFacts
<1> HIDE DEF h2
<1>5. ~ red2[r] /\ \A m \in Key : m # r => (red2[m] <=> red[m])
  BY <1>1, <1>2
<1>6. h2[Nil] = 0 /\ \A m \in S : h2[m] \in Int
  <2>1. h[Nil] = 0 /\ \A m \in S : h[m] \in Int
    BY DEF Coloured
  <2>2. \A m \in S : h2[m] = h[m] \/ h2[m] = h[m] + 1
    BY <1>2, <1>4
  <2> QED
    BY <1>4, <2>1, <2>2
<1>7. ASSUME NEW m \in S, NEW e \in Dir
      PROVE  h2[m] = h2[k[e][m]] + (IF red2[m] THEN 0 ELSE 1)
  <2>1. h[m] = h[k[e][m]] + (IF red[m] THEN 0 ELSE 1)
    BY DEF Coloured
  <2>2. h[k[e][m]] \in Int
    BY <1>1 DEF Coloured
  <2>3. k[e][m] # r /\ h2[k[e][m]] = h[k[e][m]]
    <3>1. k[e][m] # r
      BY <1>1, <1>2
    <3> QED
      BY <1>1, <1>4, <3>1
  <2>4. m \in Key
    BY <1>1
  <2>5. CASE m = r
    BY <1>4, <1>5, <2>1, <2>2, <2>3, <2>5
  <2>6. CASE m # r
    BY <1>4, <1>5, <2>1, <2>3, <2>4, <2>6
  <2> QED
    BY <2>5, <2>6
<1>8. ASSUME NEW m \in S, NEW e \in Dir, red2[m], k[e][m] # Nil PROVE ~ red2[k[e][m]]
  <2>1. m # r /\ m \in Key /\ red[m]
    BY <1>1, <1>5, <1>8
  <2>2. k[e][m] \in Key /\ p[k[e][m]] = m
    BY <1>1, <1>8
  <2>3. k[e][m] # n
    BY <1>1, <2>1, <2>2
  <2>4. ~ red[k[e][m]]
    BY <1>8, <2>1, <2>3 DEF Coloured
  <2> QED
    BY <1>5, <2>2, <2>4
<1>9. \A m \in Key \ S : red2[m]
  BY <1>2, <1>5 DEF Coloured
<1>10. Coloured(r, k, red2, h2, Nil, S)
  BY <1>5, <1>6, <1>7, <1>8, <1>9 DEF Coloured
<1> QED
  BY <1>10

\* The two ways to paint a node.
Paints(t, u) ==
  Typed(u) /\ u.root = t.root /\ u.kid = t.kid /\ u.parent = t.parent /\ u.crashed = t.crashed

LEMMA PaintRed ==
  ASSUME NEW t, Typed(t), NEW n
  PROVE  /\ Paints(t, Paint(t, n, TRUE))
         /\ \A m \in Key : Paint(t, n, TRUE).red[m] <=> m = n \/ t.red[m]
  BY DEF Typed, TreeRecord, Paint, Paints

LEMMA PaintBlack ==
  ASSUME NEW t, Typed(t), NEW n
  PROVE  /\ Paints(t, Paint(t, n, FALSE))
         /\ \A m \in Key : Paint(t, n, FALSE).red[m] <=> m # n /\ t.red[m]
  BY DEF Typed, TreeRecord, Paint, Paints

\* What a rotation does, to be cited of one.
RotatesTo(t, n, d, q, c, u) ==
  /\ Typed(u) /\ ~ u.crashed /\ u.red = t.red
  /\ u.root = IF t.root = n THEN q ELSE t.root
  /\ \A e \in Dir : \A m \in Key :
       u.kid[e][m] = IF m = n /\ e = Flip(d) THEN c ELSE IF m = q /\ e = d THEN n
                     ELSE IF t.kid[e][m] = n THEN q ELSE t.kid[e][m]
  /\ \A m \in Key :
       u.parent[m] = IF m = n THEN q ELSE IF m = q THEN t.parent[n]
                     ELSE IF m = c THEN n ELSE t.parent[m]

LEMMA RotateGives ==
  ASSUME NEW t, Typed(t), ~ t.crashed, NEW s, NEW S, Shaped(t, s, S),
         NEW n \in Key, NEW d \in Dir, t.kid[Flip(d)][n] # Nil
  PROVE  /\ RotatesTo(t, n, d, t.kid[Flip(d)][n], t.kid[d][t.kid[Flip(d)][n]], Rotate(t, n, d))
         /\ \E s2 : Shaped(Rotate(t, n, d), s2, S)
<1> DEFINE q == t.kid[Flip(d)][n]
           c == t.kid[d][q]
           t2 == Rotate(t, n, d)
<1>1. q = t.kid[Flip(d)][n] /\ c = t.kid[d][q] /\ t2 = Rotate(t, n, d)
  OBVIOUS
<1>2. Has(t, S) /\ n \in Node
  BY NodeFacts DEF Has
<1> HIDE DEF q, c, t2
<1>3. /\ Typed(t2) /\ ~ t2.crashed /\ t2.red = t.red
      /\ t2.root = IF t.root = n THEN q ELSE t.root
      /\ \A e \in Dir : \A m \in Key :
           t2.kid[e][m] = IF m = n /\ e = Flip(d) THEN c ELSE IF m = q /\ e = d THEN n
                          ELSE IF t.kid[e][m] = n THEN q ELSE t.kid[e][m]
      /\ \A m \in Key :
           t2.parent[m] = IF m = n THEN q ELSE IF m = q THEN t.parent[n]
                          ELSE IF m = c THEN n ELSE t.parent[m]
  BY <1>1, RotateFields
<1>4. Has(t2, S)
  BY <1>1, <1>2, RotateHas
<1>5. RotatesTo(t, n, d, q, c, t2) /\ \E s2 : Shaped(t2, s2, S)
  BY <1>3, <1>4 DEF RotatesTo, Has
<1> QED
  BY <1>5 DEF q, c, t2

\* The nodes round x, whose child q goes up: n below q on the same side, c between.
NodesApart(p, x, q, n, c) ==
  q # x /\ p[x] # x /\ p[x] # q /\ n # x /\ n # q /\ (c # Nil => c # n)

LEMMA ApartInTurn ==
  ASSUME NEW r, NEW k, NEW p, NEW s, NEW S, Linked(r, k, p, S), Ordered(r, k, s, S),
         NEW x \in Key, NEW d \in Dir, k[Flip(d)][x] # Nil
  PROVE  NodesApart(p, x, k[Flip(d)][x], k[Flip(d)][k[Flip(d)][x]], k[d][k[Flip(d)][x]])
<1> DEFINE o == Flip(d)
           q == k[o][x]
           c == k[d][q]
           n == k[o][q]
<1>1. o = Flip(d) /\ q = k[o][x] /\ q # Nil /\ c = k[d][q] /\ n = k[o][q]
  OBVIOUS
<1> HIDE DEF o, q, c, n
<1>2. q # x /\ p[x] # x /\ p[x] # q /\ n # x /\ n # q /\ (c # Nil => c # n)
  BY <1>1, RotationFacts
<1> QED
  BY <1>2 DEF NodesApart, o, q, c, n

\* t holds the prices S and is red-black, but for n.
ColouredTree(t, s, h, n, S) ==
  Typed(t) /\ ~ t.crashed /\ Shaped(t, s, S) /\ Coloured(t.root, t.kid, t.red, h, n, S)

InOrder(t, S) == \E s, h : ColouredTree(t, s, h, Nil, S)

\* insertFixup has only to blacken the root.
Settled(t, n, S) ==
  /\ n \in S /\ \E s, h : ColouredTree(t, s, h, n, S)
  /\ t.parent[n] = Nil \/ ~ t.red[t.parent[n]]

\* It has got so far up that there are more than i prices at or below n.
Climbing(t, n, i, S) ==
  \E s, h : ColouredTree(t, s, h, n, S) /\ n \in S /\ t.red[n] /\ i < Cardinality(s[n])

LEMMA ExemptOne ==
  ASSUME NEW r, NEW k, NEW red, NEW h, NEW S, Coloured(r, k, red, h, Nil, S), NEW n
  PROVE  Coloured(r, k, red, h, n, S)
  BY DEF Coloured

\* The last rotation of insertFixup, at the grandparent g of n.
LEMMA OuterSettles ==
  ASSUME NEW t, NEW s, NEW h, NEW S, NEW n \in S, ColouredTree(t, s, h, n, S), t.red[n],
         NEW x \in S, x = t.parent[n], t.red[x], NEW g \in S, ~ t.red[g],
         NEW d \in Dir, t.kid[d][g] = x, t.kid[d][x] = n,
         t.kid[Flip(d)][g] # Nil => ~ t.red[t.kid[Flip(d)][g]],
         NEW t3, t3 = Rotate(Paint(Paint(t, x, FALSE), g, TRUE), g, Flip(d))
  PROVE  Settled(t3, n, S)
<1> DEFINE o == Flip(d)
           t1 == Paint(t, x, FALSE)
           t2 == Paint(t1, g, TRUE)
           c == t.kid[o][x]
<1>1. /\ Typed(t) /\ ~ t.crashed /\ Shaped(t, s, S) /\ Coloured(t.root, t.kid, t.red, h, n, S)
      /\ Linked(t.root, t.kid, t.parent, S) /\ Ordered(t.root, t.kid, s, S)
  BY DEF ColouredTree, Shaped
<1>2. /\ S \subseteq Key /\ Nil \notin S /\ o \in Dir /\ o # d /\ Flip(o) = d
  BY <1>1, Flips, KeyFacts DEF Linked
<1>3. c = t.kid[o][x] /\ t3 = Rotate(t2, g, o)
  OBVIOUS
<1> HIDE DEF o, c
<1>4. Paints(t, t1) /\ \A m \in Key : t1.red[m] <=> m # x /\ t.red[m]
  BY <1>1, PaintBlack
<1> HIDE DEF t1
<1>5. Paints(t1, t2) /\ \A m \in Key : t2.red[m] <=> m = g \/ t1.red[m]
  BY <1>4, PaintRed, ZenonT(60) DEF Paints
<1> HIDE DEF t2
<1>6. /\ Typed(t2) /\ t2.root = t.root /\ t2.kid = t.kid /\ t2.parent = t.parent /\ ~ t2.crashed
      /\ \A m \in Key : t2.red[m] <=> m = g \/ (m # x /\ t.red[m])
  BY <1>1, <1>4, <1>5 DEF Paints
<1>7. Shaped(t2, s, S) /\ Has(t2, S)
  BY <1>1, <1>6 DEF Shaped, Has
<1>8. /\ g \in Key /\ g \in Node /\ x # Nil /\ n # Nil
      /\ x = t2.kid[Flip(o)][g] /\ t2.kid[Flip(o)][g] # Nil /\ c = t2.kid[o][x]
  BY <1>2, <1>3, <1>6, NodeFacts
<1>9. RotatesTo(t2, g, o, x, c, t3) /\ \E s3 : Shaped(t3, s3, S)
  <2> HIDE DEF Shaped
  <2> QED
    BY <1>2, <1>3, <1>6, <1>7, <1>8, RotateGives, ZenonT(60)
<1>9a. RotatesTo(t2, g, o, x, c, t3)
  BY <1>9
<1>10. Typed(t3) /\ ~ t3.crashed /\ t3.red = t2.red
  BY <1>9a DEF RotatesTo
<1>11. Turns(t.root, t.kid, g, o, x, c, t3.root, t3.kid)
  <2>1. Turns(t2.root, t2.kid, g, o, x, c, t3.root, t3.kid)
    BY <1>9a DEF RotatesTo, Turns
  <2> QED
    BY <1>6, <2>1
<1> DEFINE h2 == [m \in Node |-> IF m = g THEN h[g] - 1 ELSE IF m = x THEN h[x] + 1 ELSE h[m]]
<1>12. \A m \in Node : h2[m] = IF m = g THEN h[g] - 1 ELSE IF m = x THEN h[x] + 1 ELSE h[m]
  OBVIOUS
<1> HIDE DEF h2
<1>13. \A m \in Key : t3.red[m] <=> m = g \/ (m # x /\ t.red[m])
  BY <1>6, <1>10
<1>14. /\ x = t.kid[Flip(o)][g] /\ n = t.kid[Flip(o)][x]
       /\ (t.kid[o][g] # Nil => ~ t.red[t.kid[o][g]])
  BY <1>2 DEF o
<1>15. Coloured(t3.root, t3.kid, t3.red, h2, Nil, S)
  <2>1. /\ g \in Key /\ o \in Dir /\ x # Nil /\ n # Nil /\ t.red[x] /\ ~ t.red[g]
        /\ x = t.kid[Flip(o)][g] /\ c = t.kid[o][x] /\ n = t.kid[Flip(o)][x]
    BY <1>2, <1>3, <1>8, <1>14
  <2>2. Lifted(t.red, h, g, x, t3.red, h2)
    BY <1>12, <1>13 DEF Lifted
  <2> QED
    BY <1>1, <1>11, <1>14, <2>1, <2>2, LiftColours
<1>16. Coloured(t3.root, t3.kid, t3.red, h2, n, S)
  BY <1>15, ExemptOne
<1>17. t3.parent[n] = x /\ ~ t3.red[x]
  <2>1. NodesApart(t.parent, g, x, n, c)
    BY <1>1, <1>2, <1>3, <1>8, <1>14, ApartInTurn
  <2>2. n # g /\ n # x /\ (c # Nil => c # n) /\ x # g
    BY <2>1 DEF NodesApart
  <2>3. t3.parent[n] = t.parent[n]
    <3>1. n \in Key /\ n # c
      BY <1>2, <1>8, <2>2
    <3>2. t3.parent[n] = t2.parent[n]
      BY <1>9a, <2>2, <3>1 DEF RotatesTo
    <3> QED
      BY <1>6, <3>2
  <2> QED
    BY <1>2, <1>8, <1>13, <2>2, <2>3
<1> QED
  BY <1>9, <1>10, <1>16, <1>17 DEF Settled, ColouredTree

\* insertFixup with a black uncle: one rotation or two, and the root to blacken.
LEMMA InsertTurnSettles ==
  ASSUME NEW t, NEW s, NEW h, NEW S, NEW n \in S, ColouredTree(t, s, h, n, S), t.red[n],
         NEW x \in S, x = t.parent[n], t.red[x], NEW g \in S, g = t.parent[x], ~ t.red[g],
         NEW d \in Dir, t.kid[d][g] = x,
         t.kid[Flip(d)][g] # Nil => ~ t.red[t.kid[Flip(d)][g]],
         NEW y, y = InsertTurn(t, n, x, d)
  PROVE  y.node # Nil /\ Settled(y.tree, y.node, S)
<1> DEFINE o == Flip(d)
<1>1. /\ Typed(t) /\ ~ t.crashed /\ Shaped(t, s, S) /\ Coloured(t.root, t.kid, t.red, h, n, S)
      /\ Linked(t.root, t.kid, t.parent, S) /\ Ordered(t.root, t.kid, s, S)
  BY DEF ColouredTree, Shaped
<1>2. /\ S \subseteq Key /\ Nil \notin S /\ o \in Dir /\ o # d /\ \A e \in Dir : e = d \/ e = o
  BY <1>1, Flips, KeyFacts DEF Linked
<1>3. CASE n # t.kid[o][x]
  <2> DEFINE t3 == Rotate(Paint(Paint(t, x, FALSE), g, TRUE), g, o)
  <2>1. y = At(t3, n)
    BY <1>3 DEF InsertTurn
  <2>2. t.kid[d][x] = n
    <3>1. n # t.root /\ \E e \in Dir : t.kid[e][x] = n
      BY <1>1, <1>2 DEF Linked
    <3> QED
      BY <1>2, <1>3, <3>1
  <2>3. t3 = Rotate(Paint(Paint(t, x, FALSE), g, TRUE), g, Flip(d))
    OBVIOUS
  <2> HIDE DEF t3, o
  <2>4. Settled(t3, n, S)
    BY <2>2, <2>3, OuterSettles
  <2> QED
    BY <1>2, <2>1, <2>4 DEF At
<1>4. CASE n = t.kid[o][x]
  <2> DEFINE t1 == Rotate(t, x, d)
             c == t.kid[d][n]
             p1 == t1.parent[x]
             g1 == t1.parent[p1]
             t3 == Rotate(Paint(Paint(t1, p1, FALSE), g1, TRUE), g1, o)
  <2>1. y = At(t3, x)
    BY <1>4 DEF InsertTurn
  <2>2. t1 = Rotate(t, x, d) /\ c = t.kid[d][n] /\ n = t.kid[Flip(d)][x] /\ t.kid[Flip(d)][x] # Nil /\ x \in Key /\ n # Nil
    BY <1>2, <1>4
  <2> HIDE DEF t1, c
  <2>3. RotatesTo(t, x, d, n, c, t1) /\ \E s1 : Shaped(t1, s1, S)
    BY <1>1, <2>2, RotateGives
  <2>4. n # x /\ g # n /\ g # x
    <3>0. NodesApart(t.parent, x, n, t.kid[Flip(d)][n], c)
      BY <1>1, <2>2, ApartInTurn
    <3>1. n # x /\ t.parent[x] # x /\ t.parent[x] # n
      BY <3>0 DEF NodesApart
    <3> QED
      BY <3>1
  <2>5. t1.parent[x] = n /\ t1.parent[n] = g
    BY <1>2, <2>3, <2>4 DEF RotatesTo
  <2>6. p1 = n /\ g1 = g
    BY <2>5
  <2>7. t3 = Rotate(Paint(Paint(t1, n, FALSE), g, TRUE), g, Flip(d))
    BY <2>6
  <2> HIDE DEF p1, g1, t3
  <2>8. Turns(t.root, t.kid, x, d, n, c, t1.root, t1.kid)
    BY <2>3 DEF RotatesTo, Turns
  <2>9. Coloured(t1.root, t1.kid, t1.red, h, x, S)
    <3>1. Coloured(t1.root, t1.kid, t.red, h, x, S)
      BY <1>1, <2>2, <2>8, TurnColours
    <3> QED
      BY <2>3, <3>1 DEF RotatesTo
  <2>10. PICK s1 : Shaped(t1, s1, S)
    BY <2>3
  <2>11. ColouredTree(t1, s1, h, x, S)
    BY <2>3, <2>9, <2>10 DEF ColouredTree, RotatesTo
  <2>12. t.kid[o][g] # x
    <3> DEFINE f == IF x = t.kid["left"][t.parent[x]] THEN "left" ELSE "right"
    <3>1. \A e \in Dir : \A m \in Key : t.kid[e][m] = x <=> t.parent[x] # Nil /\ m = t.parent[x] /\ e = f
      BY <1>1, ChildSide
    <3> QED
      BY <1>2, <3>1
  <2>13. t1.kid[d][g] = n /\ t1.kid[d][n] = x /\ t1.kid[o][g] = t.kid[o][g]
    BY <1>2, <2>3, <2>4, <2>12 DEF RotatesTo
  <2>14. /\ t1.red[x] /\ t1.red[n] /\ ~ t1.red[g]
         /\ (t1.kid[Flip(d)][g] # Nil => ~ t1.red[t1.kid[Flip(d)][g]])
    BY <2>3, <2>13 DEF RotatesTo
  <2>15. Settled(t3, x, S)
    BY <2>5, <2>7, <2>11, <2>13, <2>14, OuterSettles
  <2> QED
    BY <1>2, <2>1, <2>15 DEF At
<1> QED
  BY <1>3, <1>4

\* A round of insertFixup brings it to its end, or up.
LEMMA SettledRound ==
  ASSUME NEW t, NEW n, NEW S, Settled(t, n, S), NEW y, y = InsertRound(t, n)
  PROVE  y.node = Nil /\ InOrder(y.tree, S)
<1>1. PICK s, h : n \in S /\ ColouredTree(t, s, h, n, S)
  BY DEF Settled
<1>2. t.parent[n] = Nil \/ ~ t.red[t.parent[n]]
  BY DEF Settled
<1>3. /\ Typed(t) /\ ~ t.crashed /\ Shaped(t, s, S) /\ Coloured(t.root, t.kid, t.red, h, n, S)
      /\ Linked(t.root, t.kid, t.parent, S) /\ Ordered(t.root, t.kid, s, S)
  BY <1>1 DEF ColouredTree, Shaped
<1> DEFINE t1 == Paint(t, t.root, FALSE)
<1>4. y = At(t1, Nil)
  BY <1>2, <1>3 DEF InsertRound, IsBlack, IsRed
<1>5. Paints(t, t1) /\ \A m \in Key : t1.red[m] <=> m # t.root /\ t.red[m]
  BY <1>3, PaintBlack
<1> HIDE DEF t1
<1>6. Typed(t1) /\ t1.root = t.root /\ t1.kid = t.kid /\ t1.parent = t.parent /\ ~ t1.crashed
  BY <1>3, <1>5 DEF Paints
<1>7. PICK h2 : Coloured(t.root, t.kid, t1.red, h2, Nil, S)
  BY <1>1, <1>2, <1>3, <1>5, RootColours
<1>8. Shaped(t1, s, S) /\ Coloured(t1.root, t1.kid, t1.red, h2, Nil, S)
  BY <1>3, <1>7, <1>6 DEF Shaped
<1>9. InOrder(t1, S)
  BY <1>8, <1>6 DEF InOrder, ColouredTree
<1> QED
  BY <1>4, <1>9 DEF At

\* The prices below n are fewer than those below its grandparent.
LEMMA MoreBelow ==
  ASSUME NEW r, NEW k, NEW p, NEW s, NEW S, Linked(r, k, p, S), Ordered(r, k, s, S),
         NEW n \in S, NEW x \in S, x = p[n], NEW g \in S, g = p[x]
  PROVE  Cardinality(s[n]) < Cardinality(s[g])
<1>1. /\ S \subseteq Key /\ Nil \notin S /\ IsFiniteSet(S) /\ (r # Nil => p[r] = Nil)
      /\ \A m \in S : m # r => \E e \in Dir : k[e][p[m]] = m
  BY KeyFacts, FS_Subset DEF Linked
<1>2. PICK d \in Dir : k[d][x] = n
  BY <1>1
<1>3. PICK e \in Dir : k[e][g] = x
  BY <1>1
<1>4. s[n] \subseteq s[x] /\ s[x] \subseteq s[g] /\ g \in s[g] /\ s[g] \subseteq S
  BY <1>2, <1>3 DEF Ordered
<1>5. g \notin s[x]
  <2>1. g \in s[x] => Toward(e, g, g)
    BY <1>3 DEF Ordered
  <2> QED
    BY <1>1, <2>1, TowardOrders
<1>6. IsFiniteSet(s[g]) /\ s[n] \subseteq s[g] /\ s[n] # s[g]
  BY <1>1, <1>4, <1>5, FS_Subset
<1> QED
  BY <1>6, FS_Subset, FS_CardinalityType

LEMMA ClimbingRound ==
  ASSUME NEW t, NEW n, NEW i \in Nat, NEW S, Climbing(t, n, i, S), NEW y, y = InsertRound(t, n)
  PROVE  \/ y.node = Nil /\ InOrder(y.tree, S)
         \/ y.node # Nil /\ Settled(y.tree, y.node, S)
         \/ y.node # Nil /\ Climbing(y.tree, y.node, i + 1, S)
<1>1. PICK s, h : ColouredTree(t, s, h, n, S) /\ n \in S /\ t.red[n] /\ i < Cardinality(s[n])
  BY DEF Climbing
<1> DEFINE x == t.parent[n]
           g == t.parent[x]
           d == SideOf(t, x)
           u == t.kid[Flip(d)][g]
<1>2. /\ Typed(t) /\ ~ t.crashed /\ Shaped(t, s, S) /\ Coloured(t.root, t.kid, t.red, h, n, S)
      /\ Linked(t.root, t.kid, t.parent, S) /\ Ordered(t.root, t.kid, s, S)
  BY <1>1 DEF ColouredTree, Shaped
<1>3. /\ S \subseteq Key /\ Nil \notin S /\ Nil \notin Key /\ \A m \in Key : t.parent[m] \in S \cup {Nil}
      /\ t.root \in S \cup {Nil}
      /\ \A e \in Dir : \A m \in Key : t.kid[e][m] \in S \cup {Nil}
      /\ \A m \in S : \A e \in Dir : t.kid[e][m] # Nil => t.parent[t.kid[e][m]] = m
      /\ \A m \in S : m # t.root => t.parent[m] \in S /\ \E e \in Dir : t.kid[e][t.parent[m]] = m
      /\ (t.root # Nil => t.parent[t.root] = Nil)
  BY <1>2, KeyFacts DEF Linked
<1>4. x \in S \cup {Nil}
  BY <1>1, <1>3
<1> HIDE DEF x
<1>5. CASE x = Nil \/ ~ t.red[x]
  <2>1. Settled(t, n, S)
    BY <1>1, <1>5 DEF Settled, x
  <2> QED
    BY <2>1, SettledRound
<1>6. CASE x # Nil /\ t.red[x]
  <2>1. x \in S /\ t.parent[n] = x
    BY <1>4, <1>6 DEF x
  <2>2. t.root # n /\ t.root # Nil
    <3>1. t.root # n
      BY <1>1, <1>3, <1>6, <2>1
    <3>2. t.root # Nil
      BY <1>1, <1>2 DEF Ordered
    <3> QED
      BY <3>1, <3>2
  <2>3. t.root # x
    BY <1>2, <1>6, <2>2 DEF Coloured
  <2>4. g \in S /\ t.parent[x] = g
    BY <1>3, <2>1, <2>3
  <2> HIDE DEF g
  <2>5. d \in Dir /\ t.kid[d][g] = x
    <3>1. \E e \in Dir : t.kid[e][g] = x
      BY <1>3, <2>1, <2>3, <2>4
    <3>2. d = IF x = t.kid["left"][g] THEN "left" ELSE "right"
      BY <2>4 DEF SideOf
    <3> QED
      BY <3>1, <3>2, NodeFacts
  <2> HIDE DEF d
  <2>6. u \in S \cup {Nil} /\ u = t.kid[Flip(d)][g]
    BY <1>3, <2>4, <2>5, Flips
  <2> HIDE DEF u
  <2>7. ~ t.red[g]
    <3>1. x # n
      <4>1. \E e \in Dir : t.kid[e][x] = n
        BY <1>1, <1>3, <2>1, <2>2
      <4> QED
        BY <1>2, <1>3, <2>1, <4>1, NotItself
    <3> QED
      BY <1>2, <1>6, <2>4, <2>5, <3>1 DEF Coloured
  <2>8. y = IF u # Nil /\ t.red[u]
            THEN At(Paint(Paint(Paint(t, x, FALSE), u, FALSE), g, TRUE), g)
            ELSE InsertTurn(t, n, x, d)
    <3>1. g # Nil
      BY <1>3, <2>4
    <3> QED
      BY <1>2, <1>6, <3>1 DEF InsertRound, IsBlack, IsRed, x, g, d, u
  <2>9. CASE u # Nil /\ t.red[u]
    <3> DEFINE v == Paint(t, x, FALSE)
               w == Paint(v, u, FALSE)
               z == Paint(w, g, TRUE)
    <3>1. y = At(z, g)
      BY <2>8, <2>9
    <3>2. Paints(t, v) /\ \A m \in Key : v.red[m] <=> m # x /\ t.red[m]
      BY <1>2, PaintBlack
    <3> HIDE DEF v
    <3>3. Paints(v, w) /\ \A m \in Key : w.red[m] <=> m # u /\ v.red[m]
      BY <3>2, PaintBlack DEF Paints
    <3> HIDE DEF w
    <3>4. Paints(w, z) /\ \A m \in Key : z.red[m] <=> m = g \/ w.red[m]
      BY <3>3, PaintRed, ZenonT(60) DEF Paints
    <3> HIDE DEF z
    <3>5. /\ Typed(z) /\ z.root = t.root /\ z.kid = t.kid /\ z.parent = t.parent /\ ~ z.crashed
          /\ \A m \in Key : z.red[m] <=> m = g \/ (m # u /\ m # x /\ t.red[m])
      BY <1>2, <3>2, <3>3, <3>4 DEF Paints
    <3> DEFINE h2 == [m \in Node |-> IF m = x \/ m = u THEN h[m] + 1 ELSE h[m]]
    <3>6. \A m \in Node : h2[m] = IF m = x \/ m = u THEN h[m] + 1 ELSE h[m]
      OBVIOUS
    <3> HIDE DEF h2
    <3>7. u \in S
      BY <2>6, <2>9
    <3>8. Coloured(t.root, t.kid, z.red, h2, g, S)
      BY <1>1, <1>2, <1>6, <2>1, <2>4, <2>5, <2>6, <2>9, <3>5, <3>6, <3>7, RecolourColours
    <3>9. ColouredTree(z, s, h2, g, S)
      BY <1>2, <3>5, <3>8 DEF ColouredTree, Shaped
    <3>10. z.red[g]
      BY <1>3, <2>4, <3>5
    <3>11. i + 1 < Cardinality(s[g])
      <4>1. Cardinality(s[n]) < Cardinality(s[g])
        BY <1>1, <1>2, <2>1, <2>4, MoreBelow
      <4>2. Cardinality(s[n]) \in Nat /\ Cardinality(s[g]) \in Nat
        <5>1. IsFiniteSet(S) /\ s[n] \subseteq S /\ s[g] \subseteq S
          BY <1>1, <1>2, <1>3, <2>4, KeyFacts, FS_Subset DEF Ordered
        <5> QED
          BY <5>1, FS_Subset, FS_CardinalityType
      <4> QED
        BY <1>1, <4>1, <4>2
    <3>12. Climbing(z, g, i + 1, S)
      BY <2>4, <3>9, <3>10, <3>11 DEF Climbing
    <3>13. g # Nil
      BY <1>3, <2>4
    <3> QED
      BY <3>1, <3>12, <3>13 DEF At
  <2>10. CASE u = Nil \/ ~ t.red[u]
    <3>1. y = InsertTurn(t, n, x, d)
      BY <2>8, <2>10
    <3>2. t.kid[Flip(d)][g] # Nil => ~ t.red[t.kid[Flip(d)][g]]
      BY <2>6, <2>10
    <3>3. y.node # Nil /\ Settled(y.tree, y.node, S)
      BY <1>1, <1>6, <2>1, <2>4, <2>5, <2>7, <3>1, <3>2, InsertTurnSettles
    <3> QED
      BY <3>3
  <2> QED
    BY <2>9, <2>10
<1> QED
  BY <1>5, <1>6

\* After i rounds.
Stage(y, i, S) ==
  \/ y.node = Nil /\ InOrder(y.tree, S)
  \/ y.node # Nil /\ Settled(y.tree, y.node, S) /\ i <= Cardinality(Key)
  \/ y.node # Nil /\ Climbing(y.tree, y.node, i, S)

LEMMA StageBound ==
  ASSUME NEW t, NEW n, NEW S, NEW i \in Nat, Climbing(t, n, i, S) PROVE i < Cardinality(Key)
<1>1. PICK s, h : ColouredTree(t, s, h, n, S) /\ n \in S /\ i < Cardinality(s[n])
  BY DEF Climbing
<1>2. S \subseteq Key /\ s[n] \subseteq S
  BY <1>1 DEF ColouredTree, Shaped, Linked, Ordered
<1>3. IsFiniteSet(Key) /\ s[n] \in SUBSET Key
  BY <1>2, KeyFacts
<1>4. Cardinality(s[n]) <= Cardinality(Key) /\ Cardinality(s[n]) \in Nat /\ Cardinality(Key) \in Nat
  BY <1>3, FS_Subset, FS_CardinalityType
<1> QED
  BY <1>1, <1>4

LEMMA StageMoves ==
  ASSUME NEW y, NEW i \in Nat, NEW S, Stage(y, i, S)
  PROVE  Stage(Round(y, FALSE), i + 1, S)
<1>1. CASE y.node = Nil /\ InOrder(y.tree, S)
  BY <1>1 DEF Round, Stage
<1>2. CASE y.node # Nil /\ Settled(y.tree, y.node, S)
  <2> DEFINE z == InsertRound(y.tree, y.node)
  <2>1. Round(y, FALSE) = z
    BY <1>2 DEF Round
  <2>2. z.node = Nil /\ InOrder(z.tree, S)
    BY <1>2, SettledRound
  <2> HIDE DEF z
  <2> QED
    BY <2>1, <2>2 DEF Stage
<1>3. CASE y.node # Nil /\ Climbing(y.tree, y.node, i, S)
  <2> DEFINE z == InsertRound(y.tree, y.node)
  <2>1. Round(y, FALSE) = z
    BY <1>3 DEF Round
  <2>2. \/ z.node = Nil /\ InOrder(z.tree, S)
        \/ z.node # Nil /\ Settled(z.tree, z.node, S)
        \/ z.node # Nil /\ Climbing(z.tree, z.node, i + 1, S)
    BY <1>3, ClimbingRound
  <2>3. i + 1 <= Cardinality(Key)
    <3>1. i < Cardinality(Key)
      BY <1>3, StageBound
    <3>2. Cardinality(Key) \in Nat
      BY KeyFacts, FS_CardinalityType
    <3> QED
      BY <3>1, <3>2
  <2> HIDE DEF z
  <2> QED
    BY <2>1, <2>2, <2>3 DEF Stage
<1> QED
  BY <1>1, <1>2, <1>3 DEF Stage

\* insertFixup comes to its end within Rounds and leaves the tree in order.
LEMMA FixupEnds ==
  ASSUME NEW t, NEW S, NEW n \in Key, Climbing(t, n, 0, S)
  PROVE  InOrder(Fixed(t, n, FALSE), S)
<1>0. Rounds \in Nat /\ Rounds = Cardinality(Key) + 2 /\ Cardinality(Key) \in Nat
  BY KeyFacts, FS_CardinalityType DEF Rounds
<1>0a. PICK round : RoundsOf(round, t, n, FALSE)
  BY FixedRounds
<1>1. /\ \A i \in 0..Rounds : round[i] = IF i = 0 THEN At(t, n) ELSE Round(round[i - 1], FALSE)
      /\ Fixed(t, n, FALSE) = round[Rounds].tree
  BY <1>0a DEF RoundsOf
<1> DEFINE G == {i \in 0..Rounds : Stage(round[i], i, S)}
<1>2. 0 \in G
  <2>1. 0 \in 0..Rounds
    BY <1>0
  <2>2. round[0] = At(t, n)
    BY <1>1, <2>1
  <2>3. Stage(round[0], 0, S)
    BY <2>2, KeyFacts DEF Stage, At
  <2> QED
    BY <2>1, <2>3
<1>3. \A i \in 0..(Rounds - 1) : i \in G => i + 1 \in G
  <2> SUFFICES ASSUME NEW i \in 0..(Rounds - 1), i \in G PROVE i + 1 \in G
    OBVIOUS
  <2>1. i \in Nat /\ i + 1 \in 0..Rounds /\ i + 1 # 0 /\ (i + 1) - 1 = i
    BY <1>0
  <2>2. round[i + 1] = Round(round[i], FALSE)
    BY <1>1, <2>1
  <2>3. Stage(round[i], i, S)
    OBVIOUS
  <2>4. Stage(round[i + 1], i + 1, S)
    BY <2>1, <2>2, <2>3, StageMoves
  <2> QED
    BY <2>1, <2>4
<1> HIDE DEF G
<1>4. \A i \in 0..Rounds : i \in G
  BY <1>0, <1>2, <1>3, IntervalInduction
<1>5. Stage(round[Rounds], Rounds, S)
  BY <1>0, <1>4 DEF G
<1>6. ~ (Rounds <= Cardinality(Key)) /\ ~ (Rounds < Cardinality(Key))
  BY <1>0
<1>7. InOrder(round[Rounds].tree, S)
  BY <1>0, <1>5, <1>6, StageBound DEF Stage
<1> QED
  BY <1>1, <1>7

\* The new leaf is red and the place where insertFixup sets out.
LEMMA LeafedClimbs ==
  ASSUME NEW t, NEW S, InOrder(t, S), t.root # Nil, NEW k \in Key \ S
  PROVE  Climbing(Leafed(t, k), k, 0, S \cup {k})
<1>1. PICK s, h : ColouredTree(t, s, h, Nil, S)
  BY DEF InOrder
<1> DEFINE p == Landing(t, k)
           d == IF Before(k, p) THEN "left" ELSE "right"
           u == Leafed(t, k)
           h2 == [m \in Node |-> IF m = k THEN 0 ELSE h[m]]
<1>2. /\ Typed(t) /\ ~ t.crashed /\ Shaped(t, s, S) /\ Coloured(t.root, t.kid, t.red, h, Nil, S)
      /\ Linked(t.root, t.kid, t.parent, S) /\ Ordered(t.root, t.kid, s, S)
  BY <1>1 DEF ColouredTree, Shaped
<1>3. /\ S \subseteq Key /\ Nil \notin S /\ Nil \notin Key /\ t.root \in S /\ t.root \in Key
      /\ \A e \in Dir : \A m \in Key : t.kid[e][m] \in S \cup {Nil} /\ (m \notin S => t.kid[e][m] = Nil)
  BY <1>2, KeyFacts DEF Linked
<1>4. p \in S /\ Way(t, p, k) = Nil
  <2>1. s[t.root] = S /\ s[Nil] = {}
    BY <1>2 DEF Ordered
  <2>2. Lands(t, s, k, t.root, p)
    BY <1>2, LandingLands
  <2> QED
    BY <2>1, <2>2 DEF Lands
<1>5. u = Adopt(t, d, p, k) /\ t.kid[d][p] = Nil /\ d \in Dir
  BY <1>4, NodeFacts DEF Leafed, Way
<1> HIDE DEF p, d
<1>6. p \in Key /\ p # k /\ k \in Node
  BY <1>3, <1>4, NodeFacts
<1>7. Has(u, S \cup {k})
  <2>1. Has(t, S)
    BY <1>2 DEF Has
  <2> QED
    BY <1>2, <2>1, LeafedHas
<1> HIDE DEF u
<1>8. /\ Typed(u) /\ u.root = t.root /\ u.red = t.red /\ u.crashed = t.crashed
      /\ \A e \in Dir : \A m \in Key : u.kid[e][m] = IF e = d /\ m = p THEN k ELSE t.kid[e][m]
  <2>1. Adopts(t, d, p, k, u)
    BY <1>2, <1>5, <1>6, AdoptStep
  <2> QED
    BY <2>1 DEF Adopts
<1>9. PICK s2 : Shaped(u, s2, S \cup {k})
  BY <1>2, <1>7, <1>8 DEF Has
<1>10. h2[Nil] = h[Nil] /\ h2[k] = 0 /\ \A m \in S : h2[m] = h[m]
  BY <1>3, <1>6, NodeFacts
<1> HIDE DEF h2
<1>11. t.red[k] /\ h[Nil] = 0
  BY <1>2 DEF Coloured
<1>12. Coloured(u.root, u.kid, u.red, h2, k, S \cup {k})
  <2>1. h2[Nil] = 0 /\ \A m \in S \cup {k} : h2[m] \in Int
    BY <1>2, <1>10 DEF Coloured
  <2>2. ASSUME NEW m \in S \cup {k}, NEW e \in Dir
        PROVE  h2[m] = h2[u.kid[e][m]] + (IF u.red[m] THEN 0 ELSE 1)
    <3>1. CASE m = k
      <4>1. u.kid[e][m] = Nil
        BY <1>3, <1>6, <1>8, <3>1
      <4> QED
        BY <1>8, <1>10, <1>11, <3>1, <4>1
    <3>2. CASE m # k
      <4>1. m \in S /\ m \in Key
        BY <1>3, <3>2
      <4>2. h[m] = h[t.kid[e][m]] + (IF t.red[m] THEN 0 ELSE 1)
        BY <1>2, <4>1 DEF Coloured
      <4>3. h2[u.kid[e][m]] = h[t.kid[e][m]]
        <5>1. CASE e = d /\ m = p
          BY <1>5, <1>8, <1>10, <1>11, <4>1, <5>1
        <5>2. CASE ~ (e = d /\ m = p)
          <6>1. u.kid[e][m] = t.kid[e][m] /\ t.kid[e][m] \in S \cup {Nil}
            BY <1>3, <1>8, <4>1, <5>2
          <6> QED
            BY <1>10, <6>1
        <5> QED
          BY <5>1, <5>2
      <4> QED
        BY <1>8, <1>10, <4>1, <4>2, <4>3
    <3> QED
      BY <3>1, <3>2
  <2>3. \A m \in Key \ (S \cup {k}) : u.red[m]
    BY <1>2, <1>8 DEF Coloured
  <2>4. ASSUME NEW m \in S \cup {k}, NEW e \in Dir, u.red[m], u.kid[e][m] # Nil, u.kid[e][m] # k
        PROVE  ~ u.red[u.kid[e][m]]
    <3>1. u.kid[e][m] = t.kid[e][m] /\ m \in Key
      BY <1>3, <1>8, <2>4
    <3>2. m \in S
      BY <1>3, <2>4, <3>1
    <3>3. t.red[m] /\ t.kid[e][m] # Nil
      BY <1>8, <2>4, <3>1
    <3>4. ~ t.red[t.kid[e][m]]
      BY <1>2, <3>2, <3>3 DEF Coloured
    <3> QED
      BY <1>8, <3>1, <3>4
  <2>5. u.root # Nil => ~ u.red[u.root]
    BY <1>2, <1>8 DEF Coloured
  <2> QED
    BY <2>1, <2>2, <2>3, <2>4, <2>5 DEF Coloured
<1>13. 0 < Cardinality(s2[k])
  <2>1. k \in s2[k] /\ s2[k] \subseteq S \cup {k} /\ IsFiniteSet(S \cup {k})
    BY <1>3, <1>9, KeyFacts, FS_Subset DEF Shaped, Ordered
  <2>2. IsFiniteSet(s2[k])
    BY <2>1, FS_Subset
  <2>3. Cardinality(s2[k]) \in Nat /\ Cardinality(s2[k]) # 0
    BY <2>1, <2>2, FS_CardinalityType, FS_EmptySet
  <2> QED
    BY <2>3
<1>14. ColouredTree(u, s2, h2, k, S \cup {k}) /\ u.red[k]
  BY <1>2, <1>8, <1>9, <1>11, <1>12 DEF ColouredTree
<1> QED
  BY <1>13, <1>14 DEF Climbing, u

LEMMA InsertedInOrder ==
  ASSUME NEW t, NEW S, InOrder(t, S), NEW k \in Key \ S
  PROVE  InOrder(Inserted(t, k), S \cup {k})
<1>1. CASE t.root # Nil
  <2>1. Climbing(Leafed(t, k), k, 0, S \cup {k})
    BY <1>1, LeafedClimbs
  <2>2. InOrder(Fixed(Leafed(t, k), k, FALSE), S \cup {k})
    BY <2>1, FixupEnds
  <2> QED
    BY <1>1, <2>2 DEF Inserted
<1>2. CASE t.root = Nil
  <2>1. PICK s, h : ColouredTree(t, s, h, Nil, S)
    BY DEF InOrder
  <2>2. /\ Typed(t) /\ ~ t.crashed /\ Shaped(t, s, S) /\ Coloured(t.root, t.kid, t.red, h, Nil, S)
        /\ Linked(t.root, t.kid, t.parent, S) /\ Ordered(t.root, t.kid, s, S)
    BY <2>1 DEF ColouredTree, Shaped
  <2>3. S = {} /\ k \in Key /\ k \in Node /\ k # Nil /\ \A m \in Key : t.red[m] /\ \A e \in Dir : t.kid[e][m] = Nil
    BY <1>2, <2>2, KeyFacts, NodeFacts DEF Ordered, Linked, Coloured
  <2> DEFINE u == [t EXCEPT !.root = k]
             v == Paint(u, k, FALSE)
             h2 == [m \in Node |-> IF m = k THEN 1 ELSE 0]
  <2>4. Inserted(t, k) = v
    BY <1>2 DEF Inserted
  <2>5. Has(v, S \cup {k})
    <3>1. Has(t, S)
      BY <2>2 DEF Has
    <3>2. Has(Inserted(t, k), S \cup {k})
      BY <2>2, <3>1, InsertedHas
    <3> HIDE DEF u, v
    <3> QED
      BY <2>4, <3>2
  <2>6. Typed(u) /\ u.root = k /\ u.red = t.red /\ u.kid = t.kid /\ u.crashed = t.crashed
    BY <2>2, <2>3, RootFields
  <2> HIDE DEF u
  <2>7. Paints(u, v) /\ \A m \in Key : v.red[m] <=> m # k /\ u.red[m]
    BY <2>6, PaintBlack
  <2> HIDE DEF v
  <2>7a. Typed(v) /\ v.root = u.root /\ v.kid = u.kid /\ v.crashed = u.crashed
    BY <2>7 DEF Paints
  <2>8. PICK s2 : Shaped(v, s2, S \cup {k})
    BY <2>2, <2>5, <2>6, <2>7a DEF Has
  <2>9. h2[Nil] = 0 /\ h2[k] = 1
    BY <2>3, NodeFacts
  <2> HIDE DEF h2
  <2>10. Coloured(v.root, v.kid, v.red, h2, Nil, S \cup {k})
    <3>1. /\ v.root = k /\ ~ v.red[k] /\ \A e \in Dir : v.kid[e][k] = Nil
          /\ \A m \in Key : m # k => v.red[m]
      BY <2>3, <2>6, <2>7, <2>7a
    <3>2. S \cup {k} = {k}
      BY <2>3
    <3>3. Coloured(v.root, v.kid, v.red, h2, Nil, {k})
      BY <2>9, <3>1 DEF Coloured
    <3> QED
      BY <3>2, <3>3
  <2>11. InOrder(v, S \cup {k})
    BY <2>2, <2>6, <2>7a, <2>8, <2>10 DEF InOrder, ColouredTree
  <2> QED
    BY <2>4, <2>11
<1> QED
  BY <1>1, <1>2

\* All ways down from the root pass the same number of black nodes.
LEMMA OneBlackHeight ==
  ASSUME NEW t, NEW s, NEW h, NEW S, ColouredTree(t, s, h, Nil, S)
  PROVE  BlackHeights(t) = {h[t.root]}
<1> DEFINE k == t.kid
           Step(n) == IF t.red[n] THEN 0 ELSE 1
           Both(f, n) == f[k["left"][n]] \cup f[k["right"][n]]
           G(f) == [n \in Node |-> IF n = Nil THEN {0} ELSE {i + Step(n) : i \in Both(f, n)}]
           F == [n \in Node |-> IF n \in S THEN {h[n]} ELSE {0}]
           f0 == CHOOSE f : f = G(f)
<1>1. /\ Linked(t.root, k, t.parent, S) /\ Ordered(t.root, k, s, S)
      /\ Coloured(t.root, k, t.red, h, Nil, S)
  BY DEF ColouredTree, Shaped
<1>2. /\ S \subseteq Key /\ Nil \notin S /\ Nil \notin Key /\ S \subseteq Node /\ Nil \in Node
      /\ t.root \in S \cup {Nil}
      /\ "left" \in Dir /\ "right" \in Dir /\ \A d \in Dir : d = "left" \/ d = "right"
      /\ \A m \in Key : \A d \in Dir : k[d][m] \in S \cup {Nil} /\ (m \notin S => k[d][m] = Nil)
  BY <1>1, KeyFacts, NodeFacts DEF Linked
<1> HIDE DEF k
<1>3. /\ h[Nil] = 0 /\ \A m \in S \cup {Nil} : h[m] \in Int
      /\ \A m \in S : \A d \in Dir : h[m] = h[k[d][m]] + Step(m)
      /\ \A m \in Key \ S : Step(m) = 0
  BY <1>1 DEF Coloured
<1> HIDE DEF Step
<1>4. \A n \in S \cup {Nil} : F[n] = {h[n]}
  BY <1>2, <1>3
<1>5. \A n \in Node : n \notin S => F[n] = {0}
  OBVIOUS
<1> HIDE DEF F
<1>6. F = G(F)
  <2>1. ASSUME NEW n \in Node PROVE F[n] = IF n = Nil THEN {0} ELSE {i + Step(n) : i \in Both(F, n)}
    <3>1. CASE n = Nil
      BY <1>2, <1>5, <3>1
    <3>2. CASE n \in S
      <4>1. n # Nil /\ n \in Key /\ F[n] = {h[n]}
        BY <1>2, <1>4, <3>2
      <4>2. k["left"][n] \in S \cup {Nil} /\ k["right"][n] \in S \cup {Nil}
        BY <1>2, <4>1
      <4>3. h[n] = h[k["left"][n]] + Step(n) /\ h[n] = h[k["right"][n]] + Step(n)
        BY <1>2, <1>3, <3>2
      <4>4. Both(F, n) = {h[k["left"][n]]} \cup {h[k["right"][n]]}
        BY <1>4, <4>2
      <4> HIDE DEF Both
      <4>5. {i + Step(n) : i \in Both(F, n)} = {h[n]}
        BY <4>3, <4>4
      <4> QED
        BY <4>1, <4>5
    <3>3. CASE n # Nil /\ n \notin S
      <4>1. n \in Key
        BY <3>3, NodeFacts
      <4>2. k["left"][n] = Nil /\ k["right"][n] = Nil
        BY <1>2, <3>3, <4>1
      <4>3. F[Nil] = {0} /\ F[n] = {0} /\ Step(n) = 0
        BY <1>2, <1>3, <1>5, <3>3, <4>1
      <4>4. Both(F, n) = {0}
        BY <4>2, <4>3
      <4> HIDE DEF Both
      <4>5. {i + Step(n) : i \in Both(F, n)} = {0}
        BY <4>3, <4>4
      <4> QED
        BY <3>3, <4>3, <4>5
    <3> QED
      BY <3>1, <3>2, <3>3
  <2>2. F = [n \in Node |-> F[n]]
    BY DEF F
  <2> HIDE DEF Both
  <2> QED
    BY <2>1, <2>2
<1>7. f0 = G(f0)
  <2> HIDE DEF G
  <2> QED
    BY <1>6
<1> HIDE DEF f0
<1>8. \A n \in Node : f0[n] = IF n = Nil THEN {0} ELSE {i + Step(n) : i \in Both(f0, n)}
  <2> HIDE DEF Both
  <2> QED
    BY <1>7
<1>9. f0[Nil] = {h[Nil]}
  BY <1>2, <1>3, <1>8
<1> DEFINE B == {m \in S : f0[m] # {h[m]}}
<1>10. ASSUME NEW m \in B PROVE \E d \in Dir : k[d][m] \in B
  <2> SUFFICES ASSUME \A d \in Dir : k[d][m] \notin B PROVE FALSE
    OBVIOUS
  <2> DEFINE a == k["left"][m]
             b == k["right"][m]
  <2>1. m \in S /\ m # Nil /\ m \in Node /\ a \in S \cup {Nil} /\ b \in S \cup {Nil}
    BY <1>2
  <2>2. f0[a] = {h[a]} /\ f0[b] = {h[b]}
    BY <1>2, <1>9, <2>1
  <2>3. h[m] = h[a] + Step(m) /\ h[m] = h[b] + Step(m)
    BY <1>2, <1>3, <2>1
  <2>4. Both(f0, m) = {h[a]} \cup {h[b]}
    BY <2>2
  <2>5. f0[m] = {i + Step(m) : i \in Both(f0, m)}
    BY <1>8, <2>1
  <2> HIDE DEF Both, a, b
  <2>6. f0[m] = {h[m]}
    BY <2>3, <2>4, <2>5
  <2> QED
    BY <2>6
<1>11. B = {}
  <2> HIDE DEF B
  <2>1. B \in SUBSET S
    BY DEF B
  <2> QED
    BY <1>1, <1>10, <2>1, Descend
<1>12. f0[t.root] = {h[t.root]}
  BY <1>2, <1>9, <1>11
<1>13. BlackHeights(t) = f0[t.root]
  BY DEF BlackHeights, f0, G, Both, Step, k
<1> QED
  BY <1>12, <1>13

\* With no removal so far the tree is in order, and its code has followed no nil pointer.
GrowInv == ~ removals => InOrder(tree, keys)

LEMMA InOrderRedBlack ==
  ASSUME InOrder(tree, keys) PROVE RedBlack /\ NoPanic
<1>1. PICK s, h : ColouredTree(tree, s, h, Nil, keys)
  BY DEF InOrder
<1>2. Coloured(tree.root, tree.kid, tree.red, h, Nil, keys) /\ ~ tree.crashed
  BY <1>1 DEF ColouredTree
<1>3. IsBlack(tree, tree.root)
  BY <1>2 DEF Coloured, IsBlack, IsRed
<1>4. \A n \in keys : tree.red[n] => \A d \in Dir : IsBlack(tree, tree.kid[d][n])
  BY <1>2 DEF Coloured, IsBlack, IsRed
<1>5. Cardinality(BlackHeights(tree)) = 1
  BY <1>1, OneBlackHeight, FS_Singleton
<1> QED
  BY <1>2, <1>3, <1>4, <1>5 DEF RedBlack, NoPanic

LEMMA GrowInit == TreeInit => GrowInv
<1>1. PICK s : Shaped(Empty, s, {})
  BY EmptyHas DEF Has, Empty
<1>2. Typed(Empty) /\ ~ Empty.crashed
  BY EmptyHas DEF Has, Empty
<1> DEFINE h == [n \in Node |-> 0]
<1>3. h[Nil] = 0
  BY NodeFacts
<1> HIDE DEF h
<1>4. Empty.root = Nil /\ \A m \in Key : Empty.red[m]
  BY DEF Empty
<1>5. Coloured(Empty.root, Empty.kid, Empty.red, h, Nil, {})
  BY <1>3, <1>4 DEF Coloured
<1>6. InOrder(Empty, {})
  BY <1>1, <1>2, <1>5 DEF InOrder, ColouredTree
<1> QED
  BY <1>6 DEF TreeInit, GrowInv

LEMMA GrowNext == TreeInv /\ GrowInv /\ [TreeNext]_treeVars => GrowInv'
<1> SUFFICES ASSUME TreeInv, GrowInv, [TreeNext]_treeVars PROVE GrowInv'
  OBVIOUS
<1>1. ASSUME NEW k \in Key, Insert(k), ~ removals' PROVE InOrder(tree', keys')
  <2>1. InOrder(tree, keys) /\ keys' = keys \cup {k}
    BY <1>1 DEF Insert, GrowInv
  <2>2. Find(tree, k) = IF k \in keys THEN k ELSE Nil
    <3>1. PICK s, h : ColouredTree(tree, s, h, Nil, keys)
      BY <2>1 DEF InOrder
    <3> QED
      BY <3>1, FindFinds DEF ColouredTree
  <2>3. CASE k \in keys
    <3>1. tree' = tree /\ keys' = keys
      BY <1>1, <2>1, <2>2, <2>3, KeyFacts DEF Insert
    <3> QED
      BY <2>1, <3>1
  <2>4. CASE k \notin keys
    <3>1. tree' = Inserted(tree, k)
      BY <1>1, <2>2, <2>4 DEF Insert
    <3>2. InOrder(Inserted(tree, k), keys \cup {k})
      BY <2>1, <2>4, InsertedInOrder
    <3> QED
      BY <2>1, <3>1, <3>2
  <2> QED
    BY <2>3, <2>4
<1>2. ASSUME NEW k \in Key, Remove(k) PROVE removals'
  BY <1>2 DEF Remove
<1>3. CASE UNCHANGED treeVars
  BY <1>3 DEF GrowInv, treeVars
<1> QED
  BY <1>1, <1>2, <1>3 DEF TreeNext, GrowInv

\* As long as nothing is removed the tree is red-black: no red node below a red one,
\* and as many black nodes on one way down as on another.  So insertFixup is right,
\* for any prices in any order.
THEOREM GrowingTreeIsRedBlack == TreeSpec => []RedBlackWhileGrowing
<1>1. TreeInit => TreeInv /\ GrowInv
  BY TreeInvInit, GrowInit
<1>2. TreeInv /\ GrowInv /\ [TreeNext]_treeVars => TreeInv' /\ GrowInv'
  BY NextTree, GrowNext
<1>3. GrowInv => RedBlackWhileGrowing
  BY InOrderRedBlack DEF GrowInv, RedBlackWhileGrowing
<1> QED
  BY <1>1, <1>2, <1>3, PTL DEF TreeSpec

\* Nor does the code of insert and insertFixup ever follow a nil pointer: a tree that
\* panics has had something removed.
THEOREM InsertionNeverPanics == TreeSpec => [](~ removals => NoPanic)
<1>1. TreeInit => TreeInv /\ GrowInv
  BY TreeInvInit, GrowInit
<1>2. TreeInv /\ GrowInv /\ [TreeNext]_treeVars => TreeInv' /\ GrowInv'
  BY NextTree, GrowNext
<1>3. GrowInv => (~ removals => NoPanic)
  BY InOrderRedBlack DEF GrowInv
<1> QED
  BY <1>1, <1>2, <1>3, PTL DEF TreeSpec
=============================================================================
