--------------------------- MODULE CardOrderProofs ---------------------------
(* What is proved of card positions, for every alphabet and every depth: a new *)
(* position stands strictly between its neighbours, and no position is ever    *)
(* long enough for the rebalance worker to find.                               *)
EXTENDS CardOrder, TLAPS, WellFoundedInduction, SequenceTheorems

\* A non-empty set of numbers has a least one.
LEMMA LeastNatural ==
    ASSUME NEW S \in SUBSET Nat, S # {}
    PROVE  \E n \in S : \A m \in S : n <= m
<1>1. IsWellFoundedOn(OpToRel(<, Nat), Nat)
  BY NatLessThanWellFounded
<1>2. PICK n \in S : \A m \in S : <<m, n>> \notin OpToRel(<, Nat)
  <2> DEFINE R == OpToRel(<, Nat)
  <2>1. IsWellFoundedOn(R, Nat)
    BY <1>1
  <2> HIDE DEF R
  <2>2. \E n \in S : \A m \in S : ~(<<m, n>> \in R)
    BY <2>1, WFMin
  <2> QED
    BY <2>2 DEF R
<1>3. \A m \in S : ~(m < n)
  BY <1>2 DEF OpToRel
<1> QED
  BY <1>3

\* The letters of a position: numbers below Base, whatever the depth asked.
LEMMA Letters ==
    ASSUME NEW p \in Seq(Alphabet), NEW i \in Nat
    PROVE  /\ Len(p) \in Nat
           /\ Digit(p, i) \in Alphabet /\ Digit(p, i) \in Nat
           /\ Bound(p, i) \in Nat /\ Bound(p, i) <= Base
           /\ i \in 1..Len(p) => Bound(p, i) = p[i] /\ Digit(p, i) = p[i] /\ p[i] < Base
           /\ ~(i \in 1..Len(p)) => Bound(p, i) = Base /\ Digit(p, i) = 0
<1>1. CASE i \in 1..Len(p)
  <2>1. p[i] \in Alphabet
    BY <1>1, ElementOfSeq
  <2>2. p[i] \in Nat /\ p[i] < Base /\ Base \in Nat
    BY <2>1, OrderAssumption DEF Alphabet
  <2> QED
    BY <1>1, <2>1, <2>2, LenProperties DEF Digit, Bound
<1>2. CASE ~(i \in 1..Len(p))
  <2>1. 0 \in Alphabet /\ Base \in Nat
    BY OrderAssumption DEF Alphabet
  <2> QED
    BY <1>2, <2>1, LenProperties DEF Digit, Bound
<1> QED
  BY <1>1, <1>2

\* The number halfway between two numbers that are not next to each other.
LEMMA Halfway ==
    ASSUME NEW a \in Nat, NEW b \in Nat, b > a + 1
    PROVE  (a + b) \div 2 \in Nat /\ a < (a + b) \div 2 /\ (a + b) \div 2 < b
OBVIOUS

\* What midpoint returns, when it returns: the left neighbour's letters down to
\* the first depth with room, then a letter halfway.
LEMMA MidpointShape ==
    ASSUME NEW p \in Seq(Alphabet), NEW q \in Seq(Alphabet),
           Midpoint(p, q) # None
    PROVE  \E d \in Depths :
             /\ FirstRoom(p, q, d)
             /\ Midpoint(p, q) \in Seq(Alphabet)
             /\ Len(Midpoint(p, q)) = d
             /\ \A i \in 1..d - 1 : Midpoint(p, q)[i] = Digit(p, i)
             /\ Digit(p, d) < Midpoint(p, q)[d] /\ Midpoint(p, q)[d] < Bound(q, d)
<1> DEFINE d == CHOOSE e \in Depths : FirstRoom(p, q, e)
           mid == (Digit(p, d) + Bound(q, d)) \div 2
           m == [i \in 1..d |-> IF i < d THEN Digit(p, i) ELSE mid]
<1>1. \E e \in Depths : FirstRoom(p, q, e)
  BY DEF Midpoint
<1>2. d \in Depths /\ FirstRoom(p, q, d)
  BY <1>1
<1>3. Midpoint(p, q) = m
  BY <1>1 DEF Midpoint
<1> HIDE DEF d
<1>4. d \in Nat /\ d >= 1
  BY <1>2, OrderAssumption DEF Depths
<1>5. /\ Digit(p, d) \in Nat /\ Bound(q, d) \in Nat /\ Bound(q, d) <= Base
      /\ Bound(q, d) > Digit(p, d) + 1
  BY <1>2, <1>4, Letters DEF FirstRoom, RoomAt
<1>6. mid \in Nat /\ Digit(p, d) < mid /\ mid < Bound(q, d)
  BY <1>5, Halfway
<1> HIDE DEF mid
<1>7. mid \in Alphabet
  BY <1>5, <1>6, OrderAssumption DEF Alphabet
<1>8. \A i \in 1..d : (IF i < d THEN Digit(p, i) ELSE mid) \in Alphabet
  <2> TAKE i \in 1..d
  <2>1. i \in Nat
    BY <1>4
  <2>2. Digit(p, i) \in Alphabet
    BY <2>1, Letters
  <2> QED
    BY <1>7, <2>2
<1>9. m \in Seq(Alphabet) /\ Len(m) = d
  <2>1. m \in [1..d -> Alphabet]
    BY <1>8
  <2> QED
    BY <1>4, <2>1
<1>10. \A i \in 1..d - 1 : m[i] = Digit(p, i)
  BY <1>4
<1>11. m[d] = mid
  BY <1>4
<1>12. /\ FirstRoom(p, q, d) /\ m \in Seq(Alphabet) /\ Len(m) = d
       /\ \A i \in 1..d - 1 : m[i] = Digit(p, i)
       /\ Digit(p, d) < m[d] /\ m[d] < Bound(q, d)
  BY <1>2, <1>6, <1>9, <1>10, <1>11
<1> HIDE DEF m
<1> QED
  BY <1>2, <1>3, <1>12

\* Strictly after its left neighbour, whatever that is.
LEMMA MidpointAfter ==
    ASSUME NEW p \in Seq(Alphabet), NEW q \in Seq(Alphabet),
           Midpoint(p, q) # None
    PROVE  Less(p, Midpoint(p, q))
<1> DEFINE m == Midpoint(p, q)
<1>1. PICK d \in Depths :
             /\ m \in Seq(Alphabet) /\ Len(m) = d
             /\ \A i \in 1..d - 1 : m[i] = Digit(p, i)
             /\ Digit(p, d) < m[d]
  BY MidpointShape
<1> HIDE DEF m
<1>2. d \in Nat /\ d >= 1
  BY OrderAssumption DEF Depths
<1>3. Digit(p, d) < Digit(m, d)
  BY <1>1, <1>2 DEF Digit
<1>4. \A j \in 1..d - 1 : Digit(p, j) = Digit(m, j)
  BY <1>1, <1>2 DEF Digit
<1>5. Less(p, m)
  BY <1>1, <1>2, <1>3, <1>4 DEF Less
<1> QED
  BY <1>5 DEF m

\* Strictly before its right neighbour, once some letter of theirs differs.
LEMMA MidpointBefore ==
    ASSUME NEW p \in Seq(Alphabet), NEW q \in Seq(Alphabet),
           Midpoint(p, q) # None,
           NEW i \in 1..Len(q), Digit(p, i) < Digit(q, i),
           \A j \in 1..i - 1 : Digit(p, j) = Digit(q, j)
    PROVE  Less(Midpoint(p, q), q)
<1> DEFINE m == Midpoint(p, q)
<1>1. PICK d \in Depths :
             /\ FirstRoom(p, q, d)
             /\ m \in Seq(Alphabet) /\ Len(m) = d
             /\ \A j \in 1..d - 1 : m[j] = Digit(p, j)
             /\ m[d] < Bound(q, d)
  BY MidpointShape
<1> HIDE DEF m
<1>2. d \in Nat /\ d >= 1 /\ Len(q) \in Nat /\ i \in Nat
  BY OrderAssumption, LenProperties DEF Depths
<1>3. ~(d < i)
  <2> SUFFICES ASSUME d < i PROVE FALSE
    OBVIOUS
  <2>1. d \in 1..Len(q) /\ d \in 1..i - 1
    BY <1>2
  <2>2. Bound(q, d) = Digit(q, d) /\ Digit(q, d) \in Nat
    BY <1>2, <2>1, Letters
  <2>3. Bound(q, d) > Digit(p, d) + 1
    BY <1>1 DEF FirstRoom, RoomAt
  <2>4. Digit(p, d) = Digit(q, d)
    BY <2>1
  <2> QED
    BY <2>2, <2>3, <2>4
<1>4. \A j \in 1..i - 1 : Digit(m, j) = Digit(q, j)
  BY <1>1, <1>2, <1>3 DEF Digit
<1>5. Digit(m, i) < Digit(q, i)
  <2>1. CASE d = i
    <3>1. Digit(m, i) = m[d]
      BY <1>1, <1>2, <2>1 DEF Digit
    <3>2. Bound(q, d) = Digit(q, d)
      BY <1>2, <2>1, Letters
    <3> QED
      BY <1>1, <2>1, <3>1, <3>2
  <2>2. CASE i < d
    <3>1. Digit(m, i) = Digit(p, i)
      BY <1>1, <1>2, <2>2 DEF Digit
    <3> QED
      BY <3>1
  <2> QED
    BY <1>2, <1>3, <2>1, <2>2
<1>6. Less(m, q)
  BY <1>4, <1>5 DEF Less
<1> QED
  BY <1>6 DEF m

LEMMA PositionFacts ==
    ASSUME NEW p \in Positions
    PROVE  /\ p \in Seq(Alphabet) /\ p # None
           /\ Len(p) \in Nat /\ Len(p) >= 1 /\ Len(p) <= MaxDepth
           /\ p[1] \in Nat /\ p[1] < Base - 1
           /\ Digit(p, 1) = p[1]
           /\ Digit(p, Len(p)) \in Nat /\ Digit(p, Len(p)) > 0
<1>1. p \in Seq(Alphabet) /\ Len(p) \in 1..MaxDepth /\ p[1] # Base - 1 /\ p[Len(p)] # 0
  BY DEF Positions
<1>2. Len(p) \in Nat /\ Len(p) >= 1 /\ Len(p) <= MaxDepth
  BY <1>1, OrderAssumption
<1>3. p[1] \in Alphabet /\ p[Len(p)] \in Alphabet
  BY <1>1, <1>2, ElementOfSeq
<1>4. Digit(p, 1) = p[1] /\ Digit(p, Len(p)) = p[Len(p)]
  BY <1>2 DEF Digit
<1>5. p # None
  BY <1>1, OrderAssumption
<1> QED
  BY <1>1, <1>2, <1>3, <1>4, <1>5, OrderAssumption DEF Alphabet

\* Of two positions the smaller has the smaller letter where they first differ:
\* neither ends with the first letter, so their lengths alone never decide.
LEMMA FirstDifference ==
    ASSUME NEW p \in Positions, NEW q \in Positions, Less(p, q)
    PROVE  \E i \in 1..Len(q) : /\ Digit(p, i) < Digit(q, i)
                                /\ \A j \in 1..i - 1 : Digit(p, j) = Digit(q, j)
<1>1. ~(Len(p) < Len(q) /\ \A i \in 1..Len(q) : Digit(p, i) = Digit(q, i))
  <2> SUFFICES ASSUME Len(p) < Len(q), \A i \in 1..Len(q) : Digit(p, i) = Digit(q, i)
               PROVE  FALSE
    OBVIOUS
  <2>1. Digit(p, Len(q)) = Digit(q, Len(q)) /\ Digit(q, Len(q)) > 0
    BY PositionFacts
  <2>2. Len(q) \in Nat /\ ~(Len(q) \in 1..Len(p))
    BY PositionFacts
  <2>3. Digit(p, Len(q)) = 0
    BY <2>2, Letters, PositionFacts
  <2> QED
    BY <2>1, <2>3
<1> QED
  BY <1>1 DEF Less

\* Every position stands after the position <<0>>, which no card has.
LEMMA AboveBottom ==
    ASSUME NEW q \in Positions
    PROVE  \E i \in 1..Len(q) : /\ Digit(<<0>>, i) < Digit(q, i)
                                /\ \A j \in 1..i - 1 : Digit(<<0>>, j) = Digit(q, j)
<1> DEFINE S == {i \in 1..Len(q) : Digit(q, i) > 0}
<1>1. \A i \in Nat : Digit(<<0>>, i) = 0
  BY DEF Digit
<1>2. Len(q) \in S /\ S \in SUBSET Nat
  BY PositionFacts
<1>3. PICK i \in S : \A j \in S : i <= j
  BY <1>2, LeastNatural
<1>4. \A j \in 1..i - 1 : Digit(q, j) = 0
  <2> TAKE j \in 1..i - 1
  <2>1. j \in 1..Len(q) /\ j \in Nat /\ j < i
    BY <1>2, <1>3, PositionFacts
  <2>2. Digit(q, j) \in Nat
    BY <2>1, Letters, PositionFacts
  <2>3. ~(j \in S)
    BY <1>3, <2>1, <1>2
  <2> QED
    BY <2>1, <2>2, <2>3
<1>5. i \in 1..Len(q) /\ Digit(q, i) > 0 /\ i \in Nat
  BY <1>2, <1>3
<1> QED
  BY <1>1, <1>4, <1>5

\* What midpoint returns is a position again.
LEMMA MidpointPosition ==
    ASSUME NEW p \in Seq(Alphabet), Len(p) >= 1, p[1] < Base - 1,
           NEW q \in Seq(Alphabet), Len(q) >= 1,
           Midpoint(p, q) # None
    PROVE  Midpoint(p, q) \in Positions
<1> DEFINE m == Midpoint(p, q)
<1>1. PICK d \in Depths :
             /\ m \in Seq(Alphabet) /\ Len(m) = d
             /\ \A i \in 1..d - 1 : m[i] = Digit(p, i)
             /\ Digit(p, d) < m[d] /\ m[d] < Bound(q, d)
  BY MidpointShape
<1> HIDE DEF m
<1>2. d \in Nat /\ d >= 1 /\ d \in 1..MaxDepth /\ Len(p) \in Nat /\ Len(q) \in Nat
  BY OrderAssumption, LenProperties DEF Depths
<1>3. Digit(p, d) \in Nat /\ Digit(p, 1) = p[1] /\ Bound(q, 1) < Base /\ Bound(q, 1) \in Nat
  <2>1. 1 \in Nat /\ 1 \in 1..Len(p) /\ 1 \in 1..Len(q)
    BY <1>2
  <2>2. Digit(p, d) \in Nat
    BY <1>2, Letters
  <2>3. Digit(p, 1) = p[1]
    BY <2>1, Letters
  <2>4. Bound(q, 1) = q[1] /\ q[1] < Base /\ Bound(q, 1) \in Nat
    BY <2>1, Letters
  <2> QED
    BY <2>2, <2>3, <2>4
<1>4. m[d] \in Alphabet /\ m[1] \in Alphabet
  BY <1>1, <1>2, ElementOfSeq
<1>5. m[d] \in Nat /\ m[d] # 0
  BY <1>1, <1>3, <1>4, OrderAssumption DEF Alphabet
<1>6. m[1] # Base - 1
  <2>1. CASE d = 1
    BY <1>1, <1>3, <1>5, <2>1, OrderAssumption
  <2>2. CASE d > 1
    <3>1. m[1] = p[1]
      BY <1>1, <1>2, <1>3, <2>2
    <3> QED
      BY <3>1, <1>4, OrderAssumption DEF Alphabet
  <2> QED
    BY <1>2, <2>1, <2>2
<1>7. m \in Positions
  BY <1>1, <1>2, <1>5, <1>6 DEF Positions
<1> QED
  BY <1>7 DEF m

\* generatePosition, for every alphabet, depth and pair of positions: what it
\* returns, if it does not throw, is a position strictly after the one given
\* first and strictly before the one given second.
THEOREM GenerateBetween ==
    ASSUME NEW prev \in Positions \cup {None}, NEW next \in Positions \cup {None},
           Generate(prev, next) # None
    PROVE  /\ Generate(prev, next) \in Positions
           /\ prev # None => Less(prev, Generate(prev, next))
           /\ next # None => Less(Generate(prev, next), next)
<1> DEFINE g == Generate(prev, next)
<1>1. CASE prev = None /\ next = None
  <2>1. g = <<Base \div 2>>
    BY <1>1 DEF Generate
  <2>2. Base \div 2 \in Nat /\ Base \div 2 > 0 /\ Base \div 2 < Base - 1
    BY OrderAssumption
  <2>3. <<Base \div 2>> \in Seq(Alphabet)
    BY <2>2, OrderAssumption DEF Alphabet
  <2>4. <<Base \div 2>> \in Positions
    BY <2>2, <2>3, OrderAssumption DEF Positions
  <2> QED
    BY <1>1, <2>1, <2>4
<1>2. CASE prev = None /\ next # None
  <2>1. g = Midpoint(<<0>>, next) /\ g # None
    BY <1>2 DEF Generate
  <2>2. <<0>> \in Seq(Alphabet) /\ Len(<<0>>) = 1 /\ <<0>>[1] < Base - 1
    BY OrderAssumption DEF Alphabet
  <2>3. next \in Positions /\ next \in Seq(Alphabet) /\ Len(next) >= 1
    BY <1>2, PositionFacts
  <2>4. Less(Midpoint(<<0>>, next), next)
    <3>1. PICK i \in 1..Len(next) : /\ Digit(<<0>>, i) < Digit(next, i)
                                    /\ \A j \in 1..i - 1 : Digit(<<0>>, j) = Digit(next, j)
      BY <2>3, AboveBottom
    <3> QED
      BY <2>1, <2>2, <2>3, <3>1, MidpointBefore
  <2>5. Midpoint(<<0>>, next) \in Positions
    <3> DEFINE bottom == <<0>>
    <3>1. bottom \in Seq(Alphabet) /\ Len(bottom) >= 1 /\ bottom[1] < Base - 1
      BY <2>2
    <3>2. Midpoint(bottom, next) # None
      BY <2>1
    <3> HIDE DEF bottom
    <3>3. Midpoint(bottom, next) \in Positions
      BY <2>3, <3>1, <3>2, MidpointPosition
    <3> QED
      BY <3>3 DEF bottom
  <2> QED
    BY <1>2, <2>1, <2>4, <2>5
<1>3. CASE prev # None /\ next = None
  <2>1. prev \in Positions /\ prev \in Seq(Alphabet) /\ Len(prev) \in Nat /\ Len(prev) >= 1
        /\ prev[1] < Base - 1 /\ prev[1] \in Nat
    BY <1>3, PositionFacts
  <2>2. ~AllLast(prev)
    <3>1. 1 \in 1..Len(prev) /\ prev[1] # Base - 1
      BY <2>1, OrderAssumption
    <3> QED
      BY <3>1 DEF AllLast
  <2>3. g = Midpoint(prev, <<Base - 1>>) /\ g # None
    BY <1>3, <2>2 DEF Generate
  <2>4. <<Base - 1>> \in Seq(Alphabet) /\ Len(<<Base - 1>>) = 1
    BY OrderAssumption DEF Alphabet
  <2>5. Midpoint(prev, <<Base - 1>>) \in Positions
    <3> DEFINE top == <<Base - 1>>
    <3>1. top \in Seq(Alphabet) /\ Len(top) >= 1
      BY <2>4
    <3>2. Midpoint(prev, top) # None
      BY <2>3
    <3> HIDE DEF top
    <3>3. Midpoint(prev, top) \in Positions
      BY <2>1, <3>1, <3>2, MidpointPosition
    <3> QED
      BY <3>3 DEF top
  <2>6. Less(prev, Midpoint(prev, <<Base - 1>>))
    BY <2>1, <2>3, <2>4, MidpointAfter
  <2> QED
    BY <1>3, <2>3, <2>5, <2>6
<1>4. CASE prev # None /\ next # None
  <2>1. Less(prev, next) /\ g = Midpoint(prev, next) /\ g # None
    BY <1>4 DEF Generate
  <2>2. prev \in Positions /\ prev \in Seq(Alphabet) /\ Len(prev) >= 1 /\ prev[1] < Base - 1
    BY <1>4, PositionFacts
  <2>3. next \in Positions /\ next \in Seq(Alphabet) /\ Len(next) >= 1
    BY <1>4, PositionFacts
  <2>4. Midpoint(prev, next) \in Positions
    BY <2>1, <2>2, <2>3, MidpointPosition
  <2>5. Less(prev, Midpoint(prev, next))
    BY <2>1, <2>2, <2>3, MidpointAfter
  <2>6. Less(Midpoint(prev, next), next)
    <3>1. PICK i \in 1..Len(next) : /\ Digit(prev, i) < Digit(next, i)
                                    /\ \A j \in 1..i - 1 : Digit(prev, j) = Digit(next, j)
      BY <2>1, <2>2, <2>3, FirstDifference
    <3> QED
      BY <2>1, <2>2, <2>3, <3>1, MidpointBefore
  <2> QED
    BY <2>1, <2>4, <2>5, <2>6
<1> QED
  BY <1>1, <1>2, <1>3, <1>4
-----------------------------------------------------------------------------
Fields == {"card", "to", "prev", "next", "lists", "revision", "own", "status",
           "seen", "found"}

\* The cards and lists a request names.
Names(m) == /\ m = [n \in Fields |-> m[n]]
            /\ m.card \in Cards /\ m.to \in Lists
            /\ m.prev \in Cards \cup {None} /\ m.next \in Cards \cup {None}

\* The records a request goes through: it keeps the names it was sent with.
Named(f) == /\ f = [r \in Requests |-> f[r]]
            /\ \A r \in Requests : f[r].status # "unsent" => Names(f[r])

IInv == TypeOK /\ Named(req)

LEMMA PositionNowTyped ==
    ASSUME TypeOK, NEW c \in Cards \cup {None}
    PROVE  PositionNow(c) \in Positions \cup {None}
BY DEF TypeOK, PositionNow

LEMMA LastPositionTyped ==
    ASSUME TypeOK, NEW l \in Lists, NEW c \in LastCardIn(l)
    PROVE  Positioned(pos, c) \in Positions \cup {None}
BY DEF TypeOK, LastCardIn, Positioned, In

LEMMA NoneIsNothing == None \notin Cards /\ None \notin Lists
BY OrderAssumption

LEMMA InitTyped == Init => IInv
<1> SUFFICES ASSUME Init PROVE IInv
  OBVIOUS
<1>1. TypeOK
  BY DEF Init, TypeOK
<1>2. Named(req)
  BY DEF Init, Named
<1> QED
  BY <1>1, <1>2 DEF IInv

LEMMA CreateTyped ==
    ASSUME TypeOK, NEW c \in Cards, NEW l \in Lists, CreateCard(c, l)
    PROVE  TypeOK'
<1>1. PICK last \in LastCardIn(l) :
        /\ Generate(Positioned(pos, last), None) # None
        /\ pos' = [pos EXCEPT ![c] = Generate(Positioned(pos, last), None)]
  BY DEF CreateCard
<1>2. PICK p : p = Generate(Positioned(pos, last), None)
  OBVIOUS
<1>3. p \in Positions /\ p # None
  BY <1>1, <1>2, LastPositionTyped, GenerateBetween
<1>4. pos' = [pos EXCEPT ![c] = p] /\ home' = [home EXCEPT ![c] = l]
      /\ revision' = [revision EXCEPT ![l] = @ + 1]
  BY <1>1, <1>2 DEF CreateCard
<1> QED
  BY <1>3, <1>4 DEF TypeOK

LEMMA DeleteTyped ==
    ASSUME TypeOK, NEW c \in Cards, DeleteCard(c)
    PROVE  TypeOK'
<1>1. home[c] \in Lists
  BY DEF TypeOK, DeleteCard
<1>2. /\ home' = [home EXCEPT ![c] = None] /\ pos' = pos
      /\ revision' = [revision EXCEPT ![home[c]] = @ + 1]
  BY DEF DeleteCard
<1> QED
  BY <1>1, <1>2 DEF TypeOK

LEMMA MoveTyped ==
    ASSUME TypeOK, Named(req), NEW r \in Requests, MoveCard(r)
    PROVE  TypeOK'
<1>1. PICK m : m = req[r]
  OBVIOUS
<1>2. m.card \in Cards /\ m.to \in Lists
      /\ m.prev \in Cards \cup {None} /\ m.next \in Cards \cup {None}
  BY <1>1 DEF MoveCard, Named, Names
<1>3. PICK p : p = Generate(PositionNow(m.prev), PositionNow(m.next))
  OBVIOUS
<1>4. p # None
  BY <1>1, <1>3 DEF MoveCard, Accepted
<1>5. p \in Positions
  BY <1>2, <1>3, <1>4, PositionNowTyped, GenerateBetween
<1>6. home' = [home EXCEPT ![m.card] = m.to] /\ pos' = [pos EXCEPT ![m.card] = p]
  BY <1>1, <1>3 DEF MoveCard
<1>7. revision' = [l \in Lists |-> IF l \in {home[m.card], m.to}
                                   THEN revision[l] + 1 ELSE revision[l]]
  BY <1>1 DEF MoveCard
<1>8. revision' \in [Lists -> Nat]
  BY <1>7 DEF TypeOK
<1> QED
  BY <1>2, <1>4, <1>5, <1>6, <1>8 DEF TypeOK

LEMMA NamedAfterDrop ==
    ASSUME Named(req), NEW k \in Clients, NEW r \in Requests, NEW c \in Cards, NEW l \in Lists,
           Drop(k, r, c, l)
    PROVE  Named(req')
<1> DEFINE v == view[k]
           lists == {v.home[c], l}
           move(g) == [card |-> c, to |-> l, prev |-> g[1], next |-> g[2],
                       lists |-> lists, revision |-> v.revision,
                       own |-> lists \cap v.touched, status |-> "sent",
                       seen |-> Chain(v.home, v.pos, l, c),
                       found |-> Chain(v.home, v.pos, l, c)]
<1>1. PICK g \in Gaps(view[k], l, c) : req' = [req EXCEPT ![r] = move(g)]
  BY DEF Drop
<1>2. g[1] \in Cards \cup {None} /\ g[2] \in Cards \cup {None}
  BY DEF Gaps, In
<1>3. Names(move(g))
  BY <1>2 DEF Names, Fields
<1> HIDE DEF move
<1>4. PICK m : m = move(g)
  OBVIOUS
<1>5. req' = [req EXCEPT ![r] = m] /\ Names(m)
  BY <1>1, <1>3, <1>4
<1> QED
  BY <1>5 DEF Named

LEMMA NamedAfterMove ==
    ASSUME Named(req), NEW r \in Requests, MoveCard(r) \/ RefuseMove(r)
    PROVE  Named(req')
<1>1. PICK m : m = req[r] /\ Names(m)
  BY DEF Named, MoveCard, RefuseMove
<1>2. PICK s, f : req' = [req EXCEPT ![r] = [m EXCEPT !.status = s, !.found = f]]
  <2>1. CASE MoveCard(r)
    BY <1>1, <2>1 DEF MoveCard
  <2>2. CASE RefuseMove(r)
    <3>1. m = [m EXCEPT !.found = m.found]
      BY <1>1 DEF Names, Fields
    <3>2. [m EXCEPT !.status = "refused"] = [m EXCEPT !.status = "refused", !.found = m.found]
      BY <1>1 DEF Names, Fields
    <3> QED
      BY <1>1, <2>2, <3>2 DEF RefuseMove
  <2> QED
    BY <2>1, <2>2
<1>3. PICK n : n = [m EXCEPT !.status = s, !.found = f]
  OBVIOUS
<1>4. Names(n)
  BY <1>1, <1>3 DEF Names, Fields
<1>5. req' = [req EXCEPT ![r] = n]
  BY <1>2, <1>3
<1> QED
  BY <1>4, <1>5 DEF Named

LEMMA StepTyped == IInv /\ [Next]_vars => IInv'
<1> SUFFICES ASSUME IInv, [Next]_vars PROVE IInv'
  OBVIOUS
<1> USE DEF IInv
<1>1. ASSUME NEW c \in Cards, NEW l \in Lists, CreateCard(c, l) PROVE IInv'
  <2>1. Named(req)'
    BY <1>1 DEF CreateCard
  <2> QED
    BY <1>1, <2>1, CreateTyped
<1>2. ASSUME NEW c \in Cards, DeleteCard(c) PROVE IInv'
  <2>1. Named(req)'
    BY <1>2 DEF DeleteCard
  <2> QED
    BY <1>2, <2>1, DeleteTyped
<1>3. ASSUME NEW k \in Clients, Load(k) PROVE IInv'
  BY <1>3 DEF Load, server, TypeOK
<1>4. ASSUME NEW k \in Clients, NEW r \in Requests, NEW c \in Cards, NEW l \in Lists,
             Drop(k, r, c, l)
      PROVE  IInv'
  <2>1. TypeOK'
    BY <1>4 DEF Drop, server, TypeOK
  <2> QED
    BY <1>4, <2>1, NamedAfterDrop
<1>5. ASSUME NEW r \in Requests, MoveCard(r) PROVE IInv'
  BY <1>5, MoveTyped, NamedAfterMove
<1>6. ASSUME NEW r \in Requests, RefuseMove(r) PROVE IInv'
  <2>1. TypeOK'
    BY <1>6 DEF RefuseMove, server, TypeOK
  <2> QED
    BY <1>6, <2>1, NamedAfterMove
<1>7. CASE UNCHANGED vars
  BY <1>7 DEF vars, server, TypeOK
<1> QED
  BY <1>1, <1>2, <1>3, <1>4, <1>5, <1>6, <1>7 DEF Next

\* Type correctness: every position a command ever writes is a position, of at
\* most MaxDepth letters, that ends with no padding.
THEOREM TypeCorrect == Spec => []TypeOK
<1>1. IInv => TypeOK
  BY DEF IInv
<1> QED
  BY <1>1, InitTyped, StepTyped, PTL DEF Spec

\* The rebalance worker's scan (rebalance-worker.ts, scanOnce) matches no card,
\* whatever is created, moved and deleted.
THEOREM WorkerFindsNothing == Spec => []NothingToRebalance
<1>1. TypeOK => NothingToRebalance
  <2> SUFFICES ASSUME TypeOK, NEW l \in Lists, NEW c \in In(home, l),
                      Len(pos[c]) > Threshold
               PROVE  FALSE
    BY DEF NothingToRebalance, ScannedLists
  <2>1. pos[c] \in Positions
    BY NoneIsNothing DEF TypeOK, In
  <2>2. Len(pos[c]) <= MaxDepth /\ Len(pos[c]) \in Nat
    BY <2>1, PositionFacts
  <2> QED
    BY <2>2, OrderAssumption
<1> QED
  BY <1>1, TypeCorrect, PTL
-----------------------------------------------------------------------------
\* Two positions are never each below the other.
LEMMA LessAsymmetric ==
    ASSUME NEW p \in Positions, NEW q \in Positions, Less(p, q), Less(q, p)
    PROVE  FALSE
<1>1. PICK i \in 1..Len(q) : /\ Digit(p, i) < Digit(q, i)
                             /\ \A j \in 1..i - 1 : Digit(p, j) = Digit(q, j)
  BY FirstDifference
<1>2. PICK k \in 1..Len(p) : /\ Digit(q, k) < Digit(p, k)
                             /\ \A j \in 1..k - 1 : Digit(q, j) = Digit(p, j)
  BY FirstDifference
<1>3. i \in Nat /\ k \in Nat /\ i >= 1 /\ k >= 1
  BY PositionFacts
<1>4. Digit(p, i) \in Nat /\ Digit(q, i) \in Nat /\ Digit(p, k) \in Nat /\ Digit(q, k) \in Nat
  BY <1>3, Letters, PositionFacts
<1>5. CASE i < k
  <2>1. i \in 1..k - 1
    BY <1>3, <1>5
  <2>2. Digit(q, i) = Digit(p, i)
    BY <1>2, <2>1
  <2> QED
    BY <1>1, <1>4, <2>2
<1>6. CASE k < i
  <2>1. k \in 1..i - 1
    BY <1>3, <1>6
  <2>2. Digit(p, k) = Digit(q, k)
    BY <1>1, <2>1
  <2> QED
    BY <1>2, <1>4, <2>2
<1>7. CASE i = k
  BY <1>1, <1>2, <1>4, <1>7
<1> QED
  BY <1>3, <1>5, <1>6, <1>7

\* A card created stands apart from every card of its list.
LEMMA CreatedApart ==
    ASSUME TypeOK, NEW c \in Cards, NEW l \in Lists, CreateCard(c, l),
           NEW d \in In(home, l)
    PROVE  d # c /\ pos'[d] # pos'[c]
<1>1. PICK last \in LastCardIn(l) :
        /\ Generate(Positioned(pos, last), None) # None
        /\ pos' = [pos EXCEPT ![c] = Generate(Positioned(pos, last), None)]
  BY DEF CreateCard
<1>2. PICK p : p = Generate(Positioned(pos, last), None)
  OBVIOUS
<1>3. d \in Cards /\ home[d] = l /\ d # c /\ pos[d] \in Positions
  BY NoneIsNothing DEF In, TypeOK, CreateCard
<1>4. last \in In(home, l) /\ ~Less(pos[last], pos[d])
  BY <1>1 DEF LastCardIn
<1>5. last # None /\ pos[last] \in Positions
  BY <1>4, NoneIsNothing DEF In, TypeOK
<1>6. Positioned(pos, last) = pos[last] /\ pos[last] # None
  BY <1>5, PositionFacts DEF Positioned
<1>7. Less(pos[last], p)
  BY <1>1, <1>2, <1>5, <1>6, GenerateBetween
<1>8. pos[d] # p
  BY <1>4, <1>7
<1>9. pos'[d] = pos[d] /\ pos'[c] = p
  BY <1>1, <1>2, <1>3 DEF TypeOK
<1> QED
  BY <1>3, <1>8, <1>9

\* So does a card moved between two cards that are next to each other.
LEMMA PlacedApart ==
    ASSUME TypeOK, NEW m, m.card \in Cards, m.to \in Lists,
           m.prev \in Cards \cup {None}, m.next \in Cards \cup {None},
           Consecutive(m), NEW p,
           p = Generate(PositionNow(m.prev), PositionNow(m.next)), p # None,
           NEW d \in In(home, m.to) \ {m.card}
    PROVE  pos[d] # p
<1> DEFINE S == In(home, m.to) \ {m.card}
<1>1. \A c \in S : c # None /\ home[c] # None /\ pos[c] \in Positions /\ PositionNow(c) = pos[c]
  BY NoneIsNothing DEF In, TypeOK, PositionNow
<1>2. {m.prev, m.next} \subseteq S \cup {None}
      /\ \A c \in S \ {m.prev, m.next} : \/ m.prev # None /\ Less(pos[c], pos[m.prev])
                                         \/ m.next # None /\ Less(pos[m.next], pos[c])
  BY DEF Consecutive
<1>3. PositionNow(None) = None
  BY DEF PositionNow
<1>4. PositionNow(m.prev) \in Positions \cup {None} /\ PositionNow(m.next) \in Positions \cup {None}
  BY PositionNowTyped
<1>5. /\ p \in Positions
      /\ PositionNow(m.prev) # None => Less(PositionNow(m.prev), p)
      /\ PositionNow(m.next) # None => Less(p, PositionNow(m.next))
  BY <1>4, GenerateBetween
<1>6. m.prev # None => m.prev \in S /\ Less(pos[m.prev], p) /\ pos[m.prev] \in Positions
  BY <1>1, <1>2, <1>5, PositionFacts
<1>7. m.next # None => m.next \in S /\ Less(p, pos[m.next]) /\ pos[m.next] \in Positions
  BY <1>1, <1>2, <1>5, PositionFacts
<1>8. d \in S
  OBVIOUS
<1> HIDE DEF S
<1> SUFFICES ASSUME pos[d] = p PROVE FALSE
  OBVIOUS
<1>9. d # m.prev /\ d # m.next
  BY <1>1, <1>5, <1>6, <1>7, <1>8, LessAsymmetric
<1>10. CASE m.prev # None /\ Less(pos[d], pos[m.prev])
  BY <1>5, <1>6, <1>10, LessAsymmetric
<1>11. CASE m.next # None /\ Less(pos[m.next], pos[d])
  BY <1>5, <1>7, <1>11, LessAsymmetric
<1> QED
  BY <1>2, <1>8, <1>9, <1>10, <1>11

\* A move made between cards that were not next to each other, of c or of d.
Blames(f, at, c, d) ==
    \E r \in Requests : /\ f[r].status = "misplaced"
                        /\ f[r].card \in {c, d} /\ f[r].to = at[c]

LEMMA TwinsRestated ==
    TwinsOnlyByDisorder <=>
        \A c, d \in Cards : c # d /\ home[c] # None /\ home[c] = home[d] /\ pos[c] = pos[d]
                              => Blames(req, home, c, d)
BY DEF TwinsOnlyByDisorder, Blames

\* Blame once laid stays: a request that has ended never changes.
LEMMA BlameStays ==
    ASSUME IInv, [Next]_vars, NEW c \in Cards, NEW d \in Cards,
           Blames(req, home, c, d), home'[c] = home[c]
    PROVE  Blames(req', home', c, d)
<1>1. PICK r \in Requests : /\ req[r].status = "misplaced"
                            /\ req[r].card \in {c, d} /\ req[r].to = home[c]
  BY DEF Blames
<1>2. req = [s \in Requests |-> req[s]]
  BY DEF IInv, Named
<1>3. req'[r] = req[r]
  <2>1. ASSUME NEW x \in Cards, NEW l \in Lists, CreateCard(x, l) PROVE req'[r] = req[r]
    BY <2>1 DEF CreateCard
  <2>2. ASSUME NEW x \in Cards, DeleteCard(x) PROVE req'[r] = req[r]
    BY <2>2 DEF DeleteCard
  <2>3. ASSUME NEW k \in Clients, Load(k) PROVE req'[r] = req[r]
    BY <2>3 DEF Load
  <2>4. ASSUME NEW k \in Clients, NEW s \in Requests, NEW x \in Cards, NEW l \in Lists,
               Drop(k, s, x, l)
        PROVE  req'[r] = req[r]
    <3>1. req[s].status = "unsent" /\ \E m : req' = [req EXCEPT ![s] = m]
      BY <2>4 DEF Drop
    <3>2. s # r
      BY <1>1, <3>1
    <3> QED
      BY <1>2, <3>1, <3>2
  <2>5. ASSUME NEW s \in Requests, MoveCard(s) PROVE req'[r] = req[r]
    <3>1. req[s].status = "sent" /\ \E m : req' = [req EXCEPT ![s] = m]
      BY <2>5 DEF MoveCard
    <3>2. s # r
      BY <1>1, <3>1
    <3> QED
      BY <1>2, <3>1, <3>2
  <2>6. ASSUME NEW s \in Requests, RefuseMove(s) PROVE req'[r] = req[r]
    <3>1. req[s].status = "sent" /\ \E m : req' = [req EXCEPT ![s] = m]
      BY <2>6 DEF RefuseMove
    <3>2. s # r
      BY <1>1, <3>1
    <3> QED
      BY <1>2, <3>1, <3>2
  <2>7. CASE UNCHANGED vars
    BY <2>7 DEF vars
  <2> QED
    BY <2>1, <2>2, <2>3, <2>4, <2>5, <2>6, <2>7 DEF Next
<1> QED
  BY <1>1, <1>3 DEF Blames

LEMMA TwinsStep ==
    ASSUME IInv, TwinsOnlyByDisorder, [Next]_vars
    PROVE  TwinsOnlyByDisorder'
<1> SUFFICES ASSUME NEW c \in Cards, NEW d \in Cards, c # d,
                    home'[c] # None, home'[c] = home'[d], pos'[c] = pos'[d]
             PROVE  Blames(req', home', c, d)
  BY DEF TwinsOnlyByDisorder, Blames
<1>1. CASE home'[c] = home[c] /\ home'[d] = home[d] /\ pos'[c] = pos[c] /\ pos'[d] = pos[d]
  <2>1. Blames(req, home, c, d)
    BY <1>1, TwinsRestated
  <2> QED
    BY <1>1, <2>1, BlameStays
<1>2. ASSUME NEW x \in Cards, NEW l \in Lists, CreateCard(x, l)
      PROVE  Blames(req', home', c, d)
  <2>1. home' = [home EXCEPT ![x] = l] /\ \E p : pos' = [pos EXCEPT ![x] = p]
    BY <1>2 DEF CreateCard
  <2>2. \A y \in Cards : y # x => home'[y] = home[y] /\ pos'[y] = pos[y]
    BY <2>1 DEF IInv, TypeOK
  <2>3. home'[x] = l
    BY <2>1 DEF IInv, TypeOK
  <2>4. CASE x = c
    <3>1. d \in In(home, l)
      BY <2>2, <2>3, <2>4 DEF In
    <3> QED
      BY <1>2, <2>4, <3>1, CreatedApart DEF IInv
  <2>5. CASE x = d
    <3>1. c \in In(home, l)
      BY <2>2, <2>3, <2>5 DEF In
    <3> QED
      BY <1>2, <2>5, <3>1, CreatedApart DEF IInv
  <2> QED
    BY <1>1, <2>2, <2>4, <2>5
<1>3. ASSUME NEW x \in Cards, DeleteCard(x) PROVE Blames(req', home', c, d)
  <2>1. home' = [home EXCEPT ![x] = None] /\ pos' = pos
    BY <1>3 DEF DeleteCard
  <2>2. x # c /\ x # d
    BY <2>1 DEF IInv, TypeOK
  <2> QED
    BY <1>1, <2>1, <2>2 DEF IInv, TypeOK
<1>4. ASSUME NEW r \in Requests, MoveCard(r) PROVE Blames(req', home', c, d)
  <2>1. PICK m : m = req[r]
    OBVIOUS
  <2>2. Names(m)
    BY <1>4, <2>1 DEF MoveCard, IInv, Named
  <2>3. PICK p : p = Generate(PositionNow(m.prev), PositionNow(m.next))
    OBVIOUS
  <2>4. /\ home' = [home EXCEPT ![m.card] = m.to]
        /\ pos' = [pos EXCEPT ![m.card] = p] /\ p # None
    BY <1>4, <2>1, <2>3 DEF MoveCard, Accepted
  <2>5. \A y \in Cards : y # m.card => home'[y] = home[y] /\ pos'[y] = pos[y]
    BY <2>4 DEF IInv, TypeOK
  <2>6. home'[m.card] = m.to /\ pos'[m.card] = p
    BY <2>2, <2>4 DEF Names, IInv, TypeOK
  <2>7. ASSUME NEW y \in {c, d}, NEW z \in {c, d}, y # z, y = m.card
        PROVE  Blames(req', home', c, d)
    <3>1. z \in In(home, m.to) \ {m.card} /\ pos[z] = p
      BY <2>5, <2>6, <2>7 DEF In
    <3>2. ~Consecutive(m)
      <4> SUFFICES ASSUME Consecutive(m) PROVE FALSE
        OBVIOUS
      <4> QED
        BY <2>2, <2>3, <2>4, <3>1, PlacedApart DEF Names, IInv
    <3>3. PICK f : req' = [req EXCEPT ![r] = [m EXCEPT !.status = "misplaced", !.found = f]]
      BY <1>4, <2>1, <3>2 DEF MoveCard
    <3>4. PICK n : n = [m EXCEPT !.status = "misplaced", !.found = f]
      OBVIOUS
    <3>5. n.status = "misplaced" /\ n.card = m.card /\ n.to = m.to
      BY <2>2, <3>4 DEF Names, Fields
    <3>6. req'[r] = n
      BY <3>3, <3>4 DEF IInv, Named
    <3>7. home'[c] = m.to
      BY <2>6, <2>7
    <3> QED
      BY <2>7, <3>5, <3>6, <3>7 DEF Blames
  <2> QED
    BY <1>1, <2>5, <2>7
<1>5. CASE UNCHANGED <<home, pos>>
  BY <1>1, <1>5
<1>6. ASSUME NEW k \in Clients, Load(k) PROVE Blames(req', home', c, d)
  BY <1>5, <1>6 DEF Load, server
<1>7. ASSUME NEW k \in Clients, NEW r \in Requests, NEW x \in Cards, NEW l \in Lists,
             Drop(k, r, x, l)
      PROVE  Blames(req', home', c, d)
  BY <1>5, <1>7 DEF Drop, server
<1>8. ASSUME NEW r \in Requests, RefuseMove(r) PROVE Blames(req', home', c, d)
  BY <1>5, <1>8 DEF RefuseMove, server
<1>9. CASE UNCHANGED vars
  BY <1>5, <1>9 DEF vars, server
<1> QED
  BY <1>2, <1>3, <1>4, <1>6, <1>7, <1>8, <1>9 DEF Next

\* Cards of a list that share a position come of a move that was accepted between
\* cards that are not next to each other.
THEOREM TwinsByDisorder == Spec => []TwinsOnlyByDisorder
<1>1. Init => TwinsOnlyByDisorder
  BY DEF Init, TwinsOnlyByDisorder
<1>2. IInv /\ TwinsOnlyByDisorder /\ [Next]_vars => TwinsOnlyByDisorder'
  BY TwinsStep
<1> QED
  BY <1>1, <1>2, InitTyped, StepTyped, PTL DEF Spec
-----------------------------------------------------------------------------
(* A revision stands for what a list holds: whoever changes the list raises   *)
(* it, so a client that states the revision it loaded has seen the list as it *)
(* is, but for its own moves.                                                 *)

Views == [home : [Cards -> Lists \cup {None}], pos : [Cards -> Positions \cup {None}],
          revision : [Lists -> Nat], touched : SUBSET Lists]

\* The list l of a board: its cards, and where they stand.
SameList(h1, p1, h2, p2, l) == /\ In(h1, l) = In(h2, l)
                               /\ \A c \in In(h1, l) : p1[c] = p2[c]

\* A client's store shows the lists of its revisions, where it has not moved cards.
ViewsTrue ==
    /\ view \in [Clients -> Views]
    /\ \A k \in Clients : \A l \in Lists :
          /\ view[k].revision[l] <= revision[l]
          /\ (l \notin view[k].touched /\ view[k].revision[l] = revision[l])
                => SameList(view[k].home, view[k].pos, home, pos, l)

\* So does a move on its way that states them.
RequestsTrue ==
    \A r \in Requests :
       req[r].status = "sent" =>
          /\ req[r].to \in req[r].lists
          /\ req[r].revision[req[r].to] \in Nat
          /\ req[r].revision[req[r].to] <= revision[req[r].to]
          /\ (req[r].own = {} /\ req[r].revision[req[r].to] = revision[req[r].to])
                => req[r].seen = Chain(home, pos, req[r].to, req[r].card)

SeenInv == ViewsTrue /\ RequestsTrue /\ AcceptedAsSeen

LEMMA SameListChains ==
    ASSUME NEW h1, NEW p1, NEW h2, NEW p2, NEW l, SameList(h1, p1, h2, p2, l), NEW c
    PROVE  Chain(h1, p1, l, c) = Chain(h2, p2, l, c)
BY DEF SameList, Chain

\* The server's steps: a list is changed only with its revision.
LEMMA RevisionsTell ==
    ASSUME IInv, [Next]_vars, NEW l \in Lists
    PROVE  /\ revision[l] \in Nat /\ revision'[l] \in Nat /\ revision[l] <= revision'[l]
           /\ revision'[l] = revision[l] => SameList(home, pos, home', pos', l)
<1>1. home \in [Cards -> Lists \cup {None}] /\ pos \in [Cards -> Positions \cup {None}]
      /\ revision \in [Lists -> Nat] /\ \A c \in Cards : home[c] # None => pos[c] # None
  BY DEF IInv, TypeOK
<1>2. CASE UNCHANGED server
  BY <1>1, <1>2 DEF server, SameList
<1>3. ASSUME NEW c \in Cards, NEW k \in Lists, CreateCard(c, k)
      PROVE  /\ revision'[l] \in Nat /\ revision[l] <= revision'[l]
             /\ revision'[l] = revision[l] => SameList(home, pos, home', pos', l)
  <2>1. /\ home' = [home EXCEPT ![c] = k] /\ \E p : pos' = [pos EXCEPT ![c] = p]
        /\ revision' = [revision EXCEPT ![k] = @ + 1] /\ home[c] = None
    BY <1>1, <1>3 DEF CreateCard
  <2> QED
    BY <1>1, <2>1, NoneIsNothing DEF SameList, In
<1>4. ASSUME NEW c \in Cards, DeleteCard(c)
      PROVE  /\ revision'[l] \in Nat /\ revision[l] <= revision'[l]
             /\ revision'[l] = revision[l] => SameList(home, pos, home', pos', l)
  <2>1. /\ home' = [home EXCEPT ![c] = None] /\ pos' = pos /\ home[c] \in Lists
        /\ revision' = [revision EXCEPT ![home[c]] = @ + 1]
    BY <1>1, <1>4 DEF DeleteCard
  <2> QED
    BY <1>1, <2>1, NoneIsNothing DEF SameList, In
<1>5. ASSUME NEW r \in Requests, MoveCard(r)
      PROVE  /\ revision'[l] \in Nat /\ revision[l] <= revision'[l]
             /\ revision'[l] = revision[l] => SameList(home, pos, home', pos', l)
  <2>1. PICK m : m = req[r] /\ m.card \in Cards /\ m.to \in Lists
    BY <1>5 DEF MoveCard, IInv, Named, Names
  <2>2. /\ home' = [home EXCEPT ![m.card] = m.to] /\ \E p : pos' = [pos EXCEPT ![m.card] = p]
        /\ revision' = [k \in Lists |-> IF k \in {home[m.card], m.to}
                                        THEN revision[k] + 1 ELSE revision[k]]
    BY <1>5, <2>1 DEF MoveCard
  <2> QED
    BY <1>1, <2>1, <2>2 DEF SameList, In
<1>6. \/ UNCHANGED server \/ (\E c \in Cards, k \in Lists : CreateCard(c, k))
      \/ (\E c \in Cards : DeleteCard(c)) \/ (\E r \in Requests : MoveCard(r))
  <2>1. UNCHANGED vars => UNCHANGED server
    BY DEF vars
  <2>2. \A k \in Clients : Load(k) => UNCHANGED server
    BY DEF Load
  <2>3. \A k \in Clients, r \in Requests, c \in Cards, j \in Lists :
           Drop(k, r, c, j) => UNCHANGED server
    BY DEF Drop
  <2>4. \A r \in Requests : RefuseMove(r) => UNCHANGED server
    BY DEF RefuseMove
  <2> QED
    BY <2>1, <2>2, <2>3, <2>4 DEF Next
<1> QED
  BY <1>1, <1>2, <1>3, <1>4, <1>5, <1>6

\* What held of a store holds of it after a step that leaves the store alone.
LEMMA StoreStaysTrue ==
    ASSUME IInv, [Next]_vars, NEW v \in Views, NEW l \in Lists,
           v.revision[l] <= revision[l],
           (l \notin v.touched /\ v.revision[l] = revision[l])
              => SameList(v.home, v.pos, home, pos, l)
    PROVE  /\ v.revision[l] <= revision'[l]
           /\ (l \notin v.touched /\ v.revision[l] = revision'[l])
                 => SameList(v.home, v.pos, home', pos', l)
<1>1. v.revision[l] \in Nat
  BY DEF Views
<1>2. revision[l] \in Nat /\ revision'[l] \in Nat /\ revision[l] <= revision'[l]
      /\ (revision'[l] = revision[l] => SameList(home, pos, home', pos', l))
  BY RevisionsTell
<1>3. v.revision[l] = revision'[l] => v.revision[l] = revision[l] /\ revision'[l] = revision[l]
  BY <1>1, <1>2
<1> QED
  BY <1>1, <1>2, <1>3 DEF SameList

LEMMA BoardViewed == TypeOK => Board \in Views
BY DEF TypeOK, Board, Views

\* A drop changes the store in the lists it marks as touched.
LEMMA DropKeepsView ==
    ASSUME IInv, ViewsTrue, NEW k \in Clients, NEW r \in Requests, NEW c \in Cards,
           NEW to \in Lists, Drop(k, r, c, to)
    PROVE  ViewsTrue'
<1> DEFINE v == view[k]
           lists == {v.home[c], to}
<1>1. v \in Views /\ UNCHANGED <<home, pos, revision>>
  BY DEF ViewsTrue, Drop, server
<1>2. PICK g \in Gaps(v, to, c) :
        LET p == Generate(Positioned(v.pos, g[1]), Positioned(v.pos, g[2]))
        IN /\ p # None
           /\ view' = [view EXCEPT ![k] = [v EXCEPT !.home[c] = to, !.pos[c] = p,
                                                    !.touched = @ \cup lists]]
  BY DEF Drop
<1>3. PICK p : p = Generate(Positioned(v.pos, g[1]), Positioned(v.pos, g[2]))
  OBVIOUS
<1>4. p \in Positions
  <2>1. g[1] \in Cards \cup {None} /\ g[2] \in Cards \cup {None}
    BY <1>2 DEF Gaps, In
  <2>2. Positioned(v.pos, g[1]) \in Positions \cup {None}
        /\ Positioned(v.pos, g[2]) \in Positions \cup {None}
    BY <1>1, <2>1 DEF Positioned, Views
  <2> QED
    BY <1>2, <1>3, <2>2, GenerateBetween
<1>5. v.home[c] \in Lists
  BY <1>1 DEF Drop, Views
<1>6. PICK w : w = [v EXCEPT !.home[c] = to, !.pos[c] = p, !.touched = @ \cup lists]
  OBVIOUS
<1>7. /\ w \in Views /\ w.touched = v.touched \cup lists /\ w.revision = v.revision
      /\ w.home = [v.home EXCEPT ![c] = to] /\ w.pos = [v.pos EXCEPT ![c] = p]
  BY <1>1, <1>4, <1>5, <1>6 DEF Views
<1>8. view' = [view EXCEPT ![k] = w]
  BY <1>2, <1>3, <1>6
<1> HIDE DEF v, lists
<1>9. ASSUME NEW l \in Lists, l \notin w.touched, w.revision[l] = revision[l]
      PROVE  SameList(w.home, w.pos, home, pos, l)
  <2>1. l \notin v.touched /\ l # to /\ l # v.home[c]
    BY <1>7, <1>9 DEF lists
  <2>2. SameList(v.home, v.pos, home, pos, l)
    BY <1>7, <1>9, <2>1 DEF ViewsTrue, v
  <2>3. In(w.home, l) = In(v.home, l) /\ c \notin In(v.home, l)
    BY <1>1, <1>7, <2>1 DEF In, Views
  <2>4. \A d \in In(v.home, l) : w.pos[d] = v.pos[d]
    BY <1>1, <1>7, <2>3 DEF In, Views
  <2> QED
    BY <2>2, <2>3, <2>4 DEF SameList
<1>10. ASSUME NEW j \in Clients, NEW l \in Lists
       PROVE  /\ view'[j].revision[l] <= revision[l]
              /\ (l \notin view'[j].touched /\ view'[j].revision[l] = revision[l])
                    => SameList(view'[j].home, view'[j].pos, home, pos, l)
  <2>1. CASE j = k
    BY <1>7, <1>8, <1>9, <2>1 DEF ViewsTrue, v
  <2>2. CASE j # k
    BY <1>8, <2>2 DEF ViewsTrue
  <2> QED
    BY <2>1, <2>2
<1>11. view' \in [Clients -> Views]
  BY <1>7, <1>8 DEF ViewsTrue
<1> QED
  BY <1>1, <1>10, <1>11 DEF ViewsTrue

LEMMA ViewsStep ==
    ASSUME IInv, ViewsTrue, [Next]_vars PROVE ViewsTrue'
<1>1. CASE UNCHANGED view
  BY <1>1, StoreStaysTrue DEF ViewsTrue
<1>2. ASSUME NEW k \in Clients, Load(k) PROVE ViewsTrue'
  <2>1. view' = [view EXCEPT ![k] = Board] /\ UNCHANGED <<home, pos, revision>> /\ Board \in Views
    BY <1>2, BoardViewed DEF Load, server, IInv
  <2>2. /\ Board.home = home /\ Board.pos = pos /\ Board.revision = revision
        /\ revision \in [Lists -> Nat]
    BY DEF Board, IInv, TypeOK
  <2>3. \A l \in Lists : revision[l] <= revision[l] /\ SameList(home, pos, home, pos, l)
    BY <2>2 DEF SameList
  <2> QED
    BY <2>1, <2>2, <2>3 DEF ViewsTrue
<1>3. ASSUME NEW k \in Clients, NEW r \in Requests, NEW c \in Cards, NEW l \in Lists,
             Drop(k, r, c, l)
      PROVE  ViewsTrue'
  BY <1>3, DropKeepsView
<1>4. \/ UNCHANGED view \/ \E k \in Clients : Load(k)
      \/ \E k \in Clients, r \in Requests, c \in Cards, l \in Lists : Drop(k, r, c, l)
  BY DEF Next, CreateCard, DeleteCard, MoveCard, RefuseMove, vars
<1> QED
  BY <1>1, <1>2, <1>3, <1>4

\* A move on its way that nothing happens to.
LEMMA RequestStaysTrue ==
    ASSUME IInv, [Next]_vars, RequestsTrue, NEW r \in Requests, req'[r] = req[r],
           req[r].status = "sent"
    PROVE  /\ req'[r].to \in req'[r].lists
           /\ req'[r].revision[req'[r].to] \in Nat
           /\ req'[r].revision[req'[r].to] <= revision'[req'[r].to]
           /\ (req'[r].own = {} /\ req'[r].revision[req'[r].to] = revision'[req'[r].to])
                 => req'[r].seen = Chain(home', pos', req'[r].to, req'[r].card)
<1>1. PICK m : m = req[r]
  OBVIOUS
<1>2. m.to \in Lists
  BY <1>1 DEF IInv, Named, Names
<1>3. /\ m.to \in m.lists /\ m.revision[m.to] \in Nat /\ m.revision[m.to] <= revision[m.to]
      /\ (m.own = {} /\ m.revision[m.to] = revision[m.to])
            => m.seen = Chain(home, pos, m.to, m.card)
  BY <1>1 DEF RequestsTrue
<1>4. /\ revision[m.to] \in Nat /\ revision'[m.to] \in Nat /\ revision[m.to] <= revision'[m.to]
      /\ revision'[m.to] = revision[m.to] => SameList(home, pos, home', pos', m.to)
  BY <1>2, RevisionsTell
<1>5. m.revision[m.to] = revision'[m.to]
         => m.revision[m.to] = revision[m.to] /\ revision'[m.to] = revision[m.to]
  BY <1>3, <1>4
<1>6. revision'[m.to] = revision[m.to]
         => Chain(home, pos, m.to, m.card) = Chain(home', pos', m.to, m.card)
  BY <1>4, SameListChains
<1> QED
  BY <1>1, <1>3, <1>4, <1>5, <1>6

\* What a drop sends is what its client sees.
LEMMA SentTrue ==
    ASSUME IInv, ViewsTrue, NEW k \in Clients, NEW r \in Requests, NEW c \in Cards,
           NEW l \in Lists, Drop(k, r, c, l)
    PROVE  \E m : /\ req' = [req EXCEPT ![r] = m] /\ m.status = "sent"
                  /\ m.to = l /\ m.to \in m.lists /\ m.card = c
                  /\ m.revision[l] \in Nat /\ m.revision[l] <= revision[l]
                  /\ (m.own = {} /\ m.revision[l] = revision[l])
                        => m.seen = Chain(home, pos, l, c)
<1> DEFINE v == view[k]
           lists == {v.home[c], l}
           move(g) == [card |-> c, to |-> l, prev |-> g[1], next |-> g[2],
                       lists |-> lists, revision |-> v.revision,
                       own |-> lists \cap v.touched, status |-> "sent",
                       seen |-> Chain(v.home, v.pos, l, c),
                       found |-> Chain(v.home, v.pos, l, c)]
<1>1. PICK g \in Gaps(view[k], l, c) : req' = [req EXCEPT ![r] = move(g)]
  BY DEF Drop
<1>2. /\ v \in Views /\ v.revision[l] <= revision[l] /\ v.revision[l] \in Nat
      /\ (l \notin v.touched /\ v.revision[l] = revision[l])
            => SameList(v.home, v.pos, home, pos, l)
  BY DEF ViewsTrue, Views
<1>3. (l \notin v.touched /\ v.revision[l] = revision[l])
         => Chain(v.home, v.pos, l, c) = Chain(home, pos, l, c)
  <2> HIDE DEF v
  <2> SUFFICES ASSUME l \notin v.touched, v.revision[l] = revision[l]
               PROVE  Chain(v.home, v.pos, l, c) = Chain(home, pos, l, c)
    OBVIOUS
  <2>1. SameList(v.home, v.pos, home, pos, l)
    BY <1>2
  <2> QED
    BY <2>1, SameListChains
<1>4. PICK m : m = move(g)
  OBVIOUS
<1>5. /\ m.status = "sent" /\ m.to = l /\ m.card = c /\ m.lists = lists
      /\ m.revision = v.revision /\ m.own = lists \cap v.touched
      /\ m.seen = Chain(v.home, v.pos, l, c)
  BY <1>4
<1>6. m.own = {} => l \notin v.touched
  BY <1>5
<1>7. l \in m.lists
  BY <1>5
<1>8. req' = [req EXCEPT ![r] = m]
  BY <1>1, <1>4
<1> HIDE DEF v, lists, move
<1>9. /\ m.revision[l] \in Nat /\ m.revision[l] <= revision[l]
      /\ (m.own = {} /\ m.revision[l] = revision[l]) => m.seen = Chain(home, pos, l, c)
  BY <1>2, <1>3, <1>5, <1>6
<1> WITNESS m
<1> QED
  BY <1>5, <1>7, <1>8, <1>9

\* The requests, one by one: untouched, sent, or ended.
LEMMA RequestCases ==
    ASSUME IInv, [Next]_vars
    PROVE  \/ UNCHANGED req
           \/ \E k \in Clients, r \in Requests, c \in Cards, l \in Lists : Drop(k, r, c, l)
           \/ \E r \in Requests : MoveCard(r) \/ RefuseMove(r)
<1>1. UNCHANGED vars => UNCHANGED req
  BY DEF vars
<1>2. \A c \in Cards : DeleteCard(c) => UNCHANGED req
  BY DEF DeleteCard
<1>3. \A c \in Cards, l \in Lists : CreateCard(c, l) => UNCHANGED req
  BY DEF CreateCard
<1>4. \A k \in Clients : Load(k) => UNCHANGED req
  BY DEF Load
<1> QED
  BY <1>1, <1>2, <1>3, <1>4 DEF Next

LEMMA RequestsStep ==
    ASSUME IInv, SeenInv, [Next]_vars PROVE RequestsTrue' /\ AcceptedAsSeen'
<1>1. req = [r \in Requests |-> req[r]]
  BY DEF IInv, Named
<1>2. CASE UNCHANGED req
  BY <1>2, RequestStaysTrue DEF SeenInv, RequestsTrue, AcceptedAsSeen
<1>3. ASSUME NEW k \in Clients, NEW r \in Requests, NEW c \in Cards, NEW l \in Lists,
             Drop(k, r, c, l)
      PROVE  RequestsTrue' /\ AcceptedAsSeen'
  <2>1. PICK m : /\ req' = [req EXCEPT ![r] = m] /\ m.status = "sent"
                 /\ m.to = l /\ m.to \in m.lists /\ m.card = c
                 /\ m.revision[l] \in Nat /\ m.revision[l] <= revision[l]
                 /\ (m.own = {} /\ m.revision[l] = revision[l])
                       => m.seen = Chain(home, pos, l, c)
    BY <1>3, SentTrue DEF SeenInv
  <2>2. UNCHANGED <<home, pos, revision>>
    BY <1>3 DEF Drop, server
  <2>3. req'[r] = m /\ \A s \in Requests : s # r => req'[s] = req[s]
    BY <1>1, <2>1
  <2>4. RequestsTrue'
    <3>1. ASSUME NEW s \in Requests, req'[s].status = "sent"
          PROVE  /\ req'[s].to \in req'[s].lists
                 /\ req'[s].revision[req'[s].to] \in Nat
                 /\ req'[s].revision[req'[s].to] <= revision'[req'[s].to]
                 /\ (req'[s].own = {} /\ req'[s].revision[req'[s].to] = revision'[req'[s].to])
                       => req'[s].seen = Chain(home', pos', req'[s].to, req'[s].card)
      <4>1. CASE s = r
        BY <2>1, <2>2, <2>3, <4>1
      <4>2. CASE s # r
        BY <2>3, <3>1, <4>2, RequestStaysTrue DEF SeenInv
      <4> QED
        BY <4>1, <4>2
    <3> QED
      BY <3>1 DEF RequestsTrue
  <2>5. AcceptedAsSeen'
    BY <2>1, <2>3 DEF SeenInv, AcceptedAsSeen
  <2> QED
    BY <2>4, <2>5
<1>4. ASSUME NEW r \in Requests, MoveCard(r) \/ RefuseMove(r)
      PROVE  RequestsTrue' /\ AcceptedAsSeen'
  <2>1. PICK m : m = req[r] /\ Names(m) /\ m.status = "sent"
    BY <1>4 DEF MoveCard, RefuseMove, IInv, Named
  <2>2. PICK n : /\ req' = [req EXCEPT ![r] = n] /\ n.status # "sent"
                 /\ n.status \in {"placed", "misplaced"} /\ n.own = {} => n.found = n.seen
    <3>1. CASE RefuseMove(r)
      <4>1. PICK n : n = [m EXCEPT !.status = "refused"]
        OBVIOUS
      <4>2. n.status = "refused"
        BY <2>1, <4>1 DEF Names, Fields
      <4> QED
        BY <2>1, <3>1, <4>1, <4>2 DEF RefuseMove
    <3>2. CASE MoveCard(r)
      <4>0. PICK st, f : /\ st = IF Consecutive(m) THEN "placed" ELSE "misplaced"
                         /\ f = Chain(home, pos, m.to, m.card)
        OBVIOUS
      <4>1. /\ st \in {"placed", "misplaced"} /\ f = Chain(home, pos, m.to, m.card)
            /\ req' = [req EXCEPT ![r] = [m EXCEPT !.status = st, !.found = f]]
        BY <2>1, <3>2, <4>0 DEF MoveCard
      <4>2. PICK n : n = [m EXCEPT !.status = st, !.found = f]
        OBVIOUS
      <4>3. n.status = st /\ n.found = f /\ n.own = m.own /\ n.seen = m.seen
        BY <2>1, <4>2 DEF Names, Fields
      <4>4. m.own = {} => m.seen = f
        <5>1. Current(m)
          BY <2>1, <3>2 DEF MoveCard, Accepted
        <5>2. m.to \in m.lists /\ ((m.own = {} /\ m.revision[m.to] = revision[m.to])
                                      => m.seen = Chain(home, pos, m.to, m.card))
          BY <2>1 DEF SeenInv, RequestsTrue
        <5> QED
          BY <4>1, <5>1, <5>2 DEF Current
      <4> QED
        BY <4>1, <4>2, <4>3, <4>4
    <3> QED
      BY <1>4, <3>1, <3>2
  <2>3. req'[r] = n /\ \A s \in Requests : s # r => req'[s] = req[s]
    BY <1>1, <2>2
  <2>4. ASSUME NEW s \in Requests, req'[s].status = "sent" PROVE s # r /\ req'[s] = req[s]
    BY <2>2, <2>3, <2>4
  <2>5. RequestsTrue'
    BY <2>4, RequestStaysTrue DEF SeenInv, RequestsTrue
  <2>6. AcceptedAsSeen'
    BY <2>2, <2>3 DEF SeenInv, AcceptedAsSeen
  <2> QED
    BY <2>5, <2>6
<1> QED
  BY <1>2, <1>3, <1>4, RequestCases

\* An accepted move found its list as its drop showed it, however many clients
\* create, move and delete cards in between.
THEOREM AcceptedSeen == Spec => []AcceptedAsSeen
<1>1. Init => SeenInv
  <2> SUFFICES ASSUME Init PROVE SeenInv
    OBVIOUS
  <2>1. IInv
    BY InitTyped
  <2>2. view = [k \in Clients |-> Board] /\ Board \in Views
    BY <2>1, BoardViewed DEF Init, IInv
  <2>3. Board.home = home /\ Board.pos = pos /\ Board.revision = revision
        /\ revision \in [Lists -> Nat]
    BY <2>1 DEF Board, IInv, TypeOK
  <2>4. ViewsTrue
    BY <2>2, <2>3 DEF ViewsTrue, SameList
  <2> QED
    BY <2>4 DEF Init, SeenInv, RequestsTrue, AcceptedAsSeen
<1>2. IInv /\ SeenInv /\ [Next]_vars => SeenInv'
  BY ViewsStep, RequestsStep DEF SeenInv
<1>3. SeenInv => AcceptedAsSeen
  BY DEF SeenInv
<1> QED
  BY <1>1, <1>2, <1>3, InitTyped, StepTyped, PTL DEF Spec
=============================================================================
