-------------------------------- MODULE RBTree --------------------------------
(***************************************************************************)
(* The tree of price levels of internal/market/orderbook.go: insertion,    *)
(* removal and their fixups as the code has them, on nodes linked by left, *)
(* right and parent.  A node is named by its price, since a tree never has *)
(* two nodes of one price.  The two branches of each fixup and the two     *)
(* rotations are mirror images: a direction d stands for both.             *)
(*                                                                         *)
(* Following a nil pointer is a panic: the tree becomes Crashed.           *)
(***************************************************************************)
EXTENDS Integers, Sequences, FiniteSets

CONSTANTS Key,    \* prices
          Desc    \* the tree descends (bids) or ascends (asks)

ASSUME KeyAssumption == Key \subseteq Nat \ {0} /\ IsFiniteSet(Key)
ASSUME DescAssumption == Desc \in BOOLEAN

VARIABLES tree,     \* the nodes, and the root
          size,     \* t.size
          keys,     \* history: the prices inserted and not removed since
          removals, \* history: a removal has happened
          queued    \* history: prices came in behind all the others and the best one went

treeVars == <<tree, size, keys, removals, queued>>

Nil == 0
Node == Key \cup {Nil}
Dir == {"left", "right"}
Flip(d) == IF d = "left" THEN "right" ELSE "left"

\* A fresh node is red and has no neighbours; a key without a node is Fresh too.
Empty == [root   |-> Nil,
          red    |-> [k \in Key |-> TRUE],
          kid    |-> [d \in Dir |-> [k \in Key |-> Nil]],
          parent |-> [k \in Key |-> Nil],
          crashed |-> FALSE]

Crashed == [Empty EXCEPT !.crashed = TRUE]

\* compare(a, b) < 0
Before(a, b) == IF Desc THEN a > b ELSE a < b

IsRed(t, n) == n # Nil /\ t.red[n]
IsBlack(t, n) == ~ IsRed(t, n)
Paint(t, n, isRed) == [t EXCEPT !.red[n] = isRed]

\* c becomes the child of n on side d; n gets the parent p.
Link(t, d, n, c) == [t EXCEPT !.kid[d][n] = c]
Under(t, n, p) == [t EXCEPT !.parent[n] = p]

\* Both links between n and its new child.
Adopt(t, d, n, c) ==
  LET t1 == Link(t, d, n, c) IN IF c = Nil THEN t1 ELSE Under(t1, c, n)

\* The side of its parent on which n hangs, as the code tells it.
SideOf(t, n) == IF n = t.kid["left"][t.parent[n]] THEN "left" ELSE "right"

-----------------------------------------------------------------------------
(***************************************************************************)
(* find, first and the in-order walk of getLevels.                         *)
(***************************************************************************)

\* The child of n on the way to k.
Way(t, n, k) == t.kid[IF Before(k, n) THEN "left" ELSE "right"][n]

Find(t, k) ==
  LET from[n \in Node] == IF n \in {Nil, k} THEN n ELSE from[Way(t, n, k)]
  IN  from[t.root]

Leftmost(t, n) ==
  LET least[m \in Node] ==
        IF m = Nil \/ t.kid["left"][m] = Nil THEN m ELSE least[t.kid["left"][m]]
  IN  least[n]

First(t) == Leftmost(t, t.root)

Walk(t) ==
  LET walk[n \in Node] ==
        IF n = Nil THEN <<>> ELSE walk[t.kid["left"][n]] \o <<n>> \o walk[t.kid["right"][n]]
  IN  walk[t.root]

\* The node on which insert hangs a new node of price k.
Landing(t, k) ==
  LET land[n \in Key] == IF Way(t, n, k) = Nil THEN n ELSE land[Way(t, n, k)]
  IN  land[t.root]

-----------------------------------------------------------------------------
(***************************************************************************)
(* Rotations and fixups.                                                   *)
(***************************************************************************)

\* v takes the place of u under u's parent (the shared half of transplant
\* and of the rotations).
Hang(t, u, v) ==
  IF t.parent[u] = Nil THEN [t EXCEPT !.root = v]
  ELSE Link(t, SideOf(t, u), t.parent[u], v)

\* The assignments of a rotation at n.
Turned(t, n, d) ==
  LET r  == t.kid[Flip(d)][n]
      t1 == Under(Adopt(t, Flip(d), n, t.kid[d][r]), r, t.parent[n])
  IN  Adopt(Hang(t1, n, r), d, r, n)

\* rotateLeft (d = "left") and rotateRight (d = "right") at n.
Rotate(t, n, d) ==
  IF t.crashed \/ n = Nil \/ t.kid[Flip(d)][n] = Nil THEN Crashed ELSE Turned(t, n, d)

\* What a round of a fixup's loop leaves: the tree, and the node the next round
\* looks at, which is Nil when the loop is over.
At(t, n) == [tree |-> t, node |-> n]

\* insertFixup at n below its red parent p, on side d, with a black uncle.
InsertTurn(t, n, p, d) ==
  LET inner == n = t.kid[Flip(d)][p]
      t1 == IF inner THEN Rotate(t, p, d) ELSE t
      n1 == IF inner THEN p ELSE n
      p1 == t1.parent[n1]
      g1 == t1.parent[p1]
  IN  At(Rotate(Paint(Paint(t1, p1, FALSE), g1, TRUE), g1, Flip(d)), n1)

\* insertFixup
InsertRound(t, n) ==
  LET p == t.parent[n]
      g == t.parent[p]
      d == SideOf(t, p)
      u == t.kid[Flip(d)][g]
  IN  IF t.crashed THEN At(t, Nil)
      ELSE IF p = Nil \/ IsBlack(t, p) THEN At(Paint(t, t.root, FALSE), Nil)
      ELSE IF g = Nil THEN At(Crashed, Nil)
      ELSE IF IsRed(t, u)
           THEN At(Paint(Paint(Paint(t, p, FALSE), u, FALSE), g, TRUE), g)
      ELSE InsertTurn(t, n, p, d)

Blacken(t, n) == IF n = Nil THEN t ELSE Paint(t, n, FALSE)

\* deleteFixup on side d of p, whose other child s has a red child, or is nil.
DeleteTurn(t, p, d, s) ==
  LET o    == Flip(d)
      turn == s # Nil /\ t.kid[o][s] # Nil /\ ~ t.red[t.kid[o][s]]
      t1   == IF turn THEN Rotate(Paint(Blacken(t, t.kid[d][s]), s, TRUE), s, o) ELSE t
      s1   == t1.kid[o][p]
      t2   == IF t1.crashed \/ s1 = Nil THEN t1
              ELSE Blacken(Paint(t1, s1, t1.red[p]), t1.kid[o][s1])
      t3   == Rotate(Paint(t2, p, FALSE), p, d)
  IN  At(t3, t3.root)

\* deleteFixup: the loop gives up at once on a nil node, and it wants the
\* outer nephew to be a black node where nil should do as well.
DeleteRound(t, n) ==
  LET p  == t.parent[n]
      d  == SideOf(t, n)
      o  == Flip(d)
      s  == t.kid[o][p]
      t1 == IF IsRed(t, s) THEN Rotate(Paint(Paint(t, s, FALSE), p, TRUE), p, d) ELSE t
      s1 == t1.kid[o][p]
  IN  IF t.crashed THEN At(t, Nil)
      ELSE IF n = t.root \/ IsRed(t, n) \/ p = Nil THEN At(Paint(t, n, FALSE), Nil)
      ELSE IF t1.crashed THEN At(t1, Nil)
      ELSE IF s1 # Nil /\ IsBlack(t1, t1.kid[d][s1]) /\ IsBlack(t1, t1.kid[o][s1])
           THEN At(Paint(t1, s1, TRUE), p)
      ELSE DeleteTurn(t1, p, d, s1)

\* No fixup of a tree with nodes for the prices in Key has more rounds.
Rounds == Cardinality(Key) + 2

Round(s, deleting) ==
  IF s.node = Nil THEN s
  ELSE IF deleting THEN DeleteRound(s.tree, s.node) ELSE InsertRound(s.tree, s.node)

\* The whole loop, from n in t.
Fixed(t, n, deleting) ==
  LET round[i \in 0..Rounds] == IF i = 0 THEN At(t, n) ELSE Round(round[i - 1], deleting)
  IN  round[Rounds].tree

-----------------------------------------------------------------------------
(***************************************************************************)
(* Insertion.                                                              *)
(***************************************************************************)

\* The new node k below the node it lands on.
Leafed(t, k) ==
  LET p == Landing(t, k)
  IN  Adopt(t, IF Before(k, p) THEN "left" ELSE "right", p, k)

\* Mutant of Inserted: the new node is never fixed up.
InsertedUnfixed(t, k) ==
  IF t.root = Nil THEN Paint([t EXCEPT !.root = k], k, FALSE) ELSE Leafed(t, k)

\* insert of a price that has no node.
Inserted(t, k) ==
  IF t.root = Nil THEN Paint([t EXCEPT !.root = k], k, FALSE)
  ELSE Fixed(Leafed(t, k), k, FALSE)

-----------------------------------------------------------------------------
(***************************************************************************)
(* Removal.                                                                *)
(***************************************************************************)

\* Mutant of Transplant: v is hung but not told its new parent.
TransplantHalf(t, u, v) == Hang(t, u, v)

\* transplant(u, v)
Transplant(t, u, v) ==
  LET t1 == Hang(t, u, v)
  IN  IF v = Nil THEN t1 ELSE Under(t1, v, t.parent[u])

\* The node z forgets its links: nothing points to it any more.
Freed(t, z) ==
  Under(Link(Link(Paint(t, z, TRUE), "left", z, Nil), "right", z, Nil), z, Nil)

\* Mutant of Successor: the node just right of z, not the leftmost there.
SuccessorRight(t, z) == t.kid["right"][z]

\* minimum(z.right)
Successor(t, z) == Leftmost(t, t.kid["right"][z])

\* y leaves its place to its right child and is put in that of z.
Succeeded(t, z, y) ==
  LET x  == t.kid["right"][y]
      t1 == IF t.parent[y] # z THEN Adopt(Transplant(t, y, x), "right", y, t.kid["right"][z])
            ELSE IF x = Nil THEN t ELSE Under(t, x, y)
  IN  Paint(Adopt(Transplant(t1, z, y), "left", y, t.kid["left"][z]), y, t.red[z])

\* remove of a price that has a node: y is the node that leaves its place, x the
\* one that comes there.
Removed(t, z) ==
  LET l  == t.kid["left"][z]
      r  == t.kid["right"][z]
      y  == IF l = Nil \/ r = Nil THEN z ELSE Successor(t, z)
      x  == IF l = Nil THEN r ELSE IF r = Nil THEN l ELSE t.kid["right"][y]
      t1 == Freed(IF y = z THEN Transplant(t, z, x) ELSE Succeeded(t, z, y), z)
  IN  IF t.red[y] THEN t1 ELSE Fixed(t1, x, TRUE)

-----------------------------------------------------------------------------
(***************************************************************************)
(* The tree in use.  The book inserts a price for each resting order (the  *)
(* node it has is returned when there is one) and removes a price when its *)
(* level has emptied.                                                      *)
(***************************************************************************)

TreeInit == tree = Empty /\ size = 0 /\ keys = {} /\ removals = FALSE /\ queued = TRUE

Insert(k) ==
  /\ ~ tree.crashed
  /\ IF Find(tree, k) # Nil THEN UNCHANGED <<tree, size>>
     ELSE tree' = Inserted(tree, k) /\ size' = size + 1
  /\ keys' = keys \cup {k}
  /\ queued' = (queued /\ \A j \in keys \ {k} : Before(j, k))
  /\ UNCHANGED removals

Remove(k) ==
  /\ ~ tree.crashed
  /\ IF Find(tree, k) = Nil THEN UNCHANGED <<tree, size>>
     ELSE tree' = Removed(tree, k) /\ size' = size - 1
  /\ keys' = keys \ {k}
  /\ queued' = (queued /\ \A j \in keys \ {k} : Before(k, j))
  /\ removals' = TRUE

TreeNext == \E k \in Key : Insert(k) \/ Remove(k)

TreeSpec == TreeInit /\ [][TreeNext]_treeVars

-----------------------------------------------------------------------------
(***************************************************************************)
(* Properties.                                                             *)
(***************************************************************************)

\* The set of prices is all the rest of the book knows of a tree: find finds
\* the prices in it and no other, first is the best of them, the in-order
\* walk of GetDepth lists them all from best to worst, and size counts them.
RepresentsKeys ==
  ~ tree.crashed =>
    /\ \A k \in Key : Find(tree, k) = IF k \in keys THEN k ELSE Nil
    /\ First(tree) = IF keys = {} THEN Nil
                     ELSE CHOOSE k \in keys : \A j \in keys : j = k \/ Before(k, j)
    /\ LET w == Walk(tree)
       IN  /\ {w[i] : i \in DOMAIN w} = keys
           /\ \A i \in 1..(Len(w) - 1) : Before(w[i], w[i + 1])
    /\ size = Cardinality(keys)

\* The numbers of black nodes on the paths from n down to a nil.
BlackHeights(t) ==
  LET heights[n \in Node] ==
        IF n = Nil THEN {0}
        ELSE {h + (IF t.red[n] THEN 0 ELSE 1) :
                h \in heights[t.kid["left"][n]] \cup heights[t.kid["right"][n]]}
  IN  heights[t.root]

RedBlack ==
  /\ IsBlack(tree, tree.root)
  /\ \A n \in keys : tree.red[n] => \A d \in Dir : IsBlack(tree, tree.kid[d][n])
  /\ Cardinality(BlackHeights(tree)) = 1

\* As long as nothing is removed, insertFixup keeps the tree red-black.
RedBlackWhileGrowing == ~ removals => RedBlack

\* No sequence of insertions and removals makes the code follow a nil pointer.
\* False: deleteFixup rotates round a sibling that is not there, once a removal
\* has cost the tree its balance.
NoPanic == ~ tree.crashed

\* True of the use the program as shipped makes of a tree.  Only the market
\* maker rests orders, and it adds its levels from best to worst and cancels
\* them in that order; a taker eats levels from the best.
NoPanicWhenQueued == queued => NoPanic
=============================================================================
