-------------------------- MODULE RiskGateProofs --------------------------
(***************************************************************************)
(* That the counters follow the journal, that an exit always passes, that  *)
(* a fill stays within the limits and that the simulated cash follows the  *)
(* P&L: for any symbols, prices, requests, limits and bounds.              *)
(***************************************************************************)
EXTENDS RiskGate, FiniteSetTheorems, WellFoundedInduction, TLAPS

-----------------------------------------------------------------------------
(* Sums over finite sets, by induction on the size of the set.             *)

LEMMA LeastNatural ==
  ASSUME NEW T \in SUBSET Nat, T # {}
  PROVE  \E n \in T : \A m \in T : n <= m
<1> DEFINE R == OpToRel(<, Nat)
<1>1. \E x \in T : \A y \in T : ~(<<y, x>> \in R)
  <2>1. IsWellFoundedOn(R, Nat)
    BY NatLessThanWellFounded
  <2> HIDE DEF R
  <2> QED
    BY <2>1, WFMin
<1>2. \A x, y \in Nat : <<y, x>> \in R <=> y < x
  BY DEF OpToRel
<1> HIDE DEF R
<1>3. PICK n \in T : \A m \in T : ~(<<m, n>> \in R)
  BY <1>1
<1>4. \A m \in T : m \in Nat /\ n \in Nat /\ ~(m < n)
  BY <1>2, <1>3
<1> QED
  BY <1>3, <1>4

\* Induction over the natural numbers, for a set of them.
LEMMA Induct ==
  ASSUME NEW P \in SUBSET Nat, 0 \in P, \A n \in P : n + 1 \in P
  PROVE  P = Nat
<1>1. SUFFICES ASSUME Nat \ P # {} PROVE FALSE
  OBVIOUS
<1>2. PICK n \in Nat \ P : \A m \in Nat \ P : n <= m
  BY <1>1, LeastNatural
<1>3. n # 0 /\ n - 1 \in Nat
  BY <1>2
<1>4. n - 1 \in P
  BY <1>2, <1>3
<1> QED
  BY <1>2, <1>4

Pick(s) == CHOOSE x \in s : TRUE
\* One step of the sum: of a set, given the sums of smaller ones.
Added(g, f, s) == IF s = {} THEN 0 ELSE f[Pick(s)] + g[s \ {Pick(s)}]
\* What SumFunctionOnSet works out on every subset.
IsSum(g, f, S) == g = [s \in SUBSET S |-> Added(g, f, s)]

LEMMA SumIs ==
  ASSUME NEW f, NEW S
  PROVE  SumFunctionOnSet(f, S) = (CHOOSE g : IsSum(g, f, S))[S]
  BY DEF SumFunctionOnSet, FoldFunctionOnSet, MapThenFoldSet, IsSum, Added, Pick

LEMMA PickIsIn ==
  ASSUME NEW s, s # {}
  PROVE  Pick(s) \in s
  BY DEF Pick

LEMMA OneLess ==
  ASSUME NEW S, IsFiniteSet(S), NEW x \in S
  PROVE  /\ IsFiniteSet(S \ {x})
         /\ Cardinality(S) \in Nat \ {0}
         /\ Cardinality(S \ {x}) = Cardinality(S) - 1
<1>1. Cardinality(S) \in Nat /\ Cardinality(S) # 0
  BY FS_CardinalityType, FS_EmptySet
<1> QED
  BY <1>1, FS_RemoveElement

LEMMA SumExists ==
  ASSUME NEW S, IsFiniteSet(S), NEW f
  PROVE  \E g : IsSum(g, f, S)
<1> DEFINE D(n) == {s \in SUBSET S : Cardinality(s) <= n}
           P == {n \in Nat : \E g : g = [s \in D(n) |-> Added(g, f, s)]}
<1>0. \A s \in SUBSET S : IsFiniteSet(s) /\ Cardinality(s) \in Nat
  BY FS_Subset, FS_CardinalityType
<1>1. 0 \in P
  <2> DEFINE g == [s \in D(0) |-> 0]
  <2>1. \A s \in D(0) : s = {}
    BY <1>0, FS_EmptySet
  <2>2. g = [s \in D(0) |-> Added(g, f, s)]
    BY <2>1 DEF Added
  <2> QED
    BY <2>2
<1>2. ASSUME NEW n \in P PROVE n + 1 \in P
  <2>1. PICK g : g = [s \in D(n) |-> Added(g, f, s)]
    OBVIOUS
  <2> DEFINE h == [s \in D(n + 1) |-> Added(g, f, s)]
  <2>2. \A s \in D(n) : s \in D(n + 1) /\ h[s] = g[s]
    BY <1>0, <2>1
  <2>3. ASSUME NEW s \in D(n + 1) PROVE Added(g, f, s) = Added(h, f, s)
    <3>1. CASE s = {}
      BY <3>1 DEF Added
    <3>2. CASE s # {}
      <4>1. s \ {Pick(s)} \in D(n)
        BY <3>2, <1>0, PickIsIn, OneLess
      <4> HIDE DEF h, D
      <4> QED
        BY <3>2, <4>1, <2>2 DEF Added
    <3> QED
      BY <3>1, <3>2
  <2>4. h = [s \in D(n + 1) |-> Added(h, f, s)]
    BY <2>3
  <2> HIDE DEF h, D
  <2> QED
    BY <2>4
<1>3. P = Nat
  <2> HIDE DEF P
  <2>1. P \in SUBSET Nat
    BY DEF P
  <2> QED
    BY <1>1, <1>2, <2>1, Induct
<1>4. Cardinality(S) \in P
  BY <1>0, <1>3
<1>5. PICK g : g = [s \in D(Cardinality(S)) |-> Added(g, f, s)]
  BY <1>4
<1>6. D(Cardinality(S)) = SUBSET S
  BY FS_Subset
<1> HIDE DEF D
<1> QED
  BY <1>5, <1>6 DEF IsSum

\* Two sums over overlapping sets agree on what is common.
LEMMA SumsAgree ==
  ASSUME NEW S, NEW T, NEW f, NEW g, NEW h, IsSum(g, f, S), IsSum(h, f, T),
         NEW s \in SUBSET S, s \in SUBSET T, IsFiniteSet(s)
  PROVE  g[s] = h[s]
<1> DEFINE P == {n \in Nat : \A t \in SUBSET s :
                               Cardinality(t) = n => g[t] = h[t]}
<1>0. \A t \in SUBSET s : /\ IsFiniteSet(t) /\ Cardinality(t) \in Nat
                          /\ g[t] = Added(g, f, t) /\ h[t] = Added(h, f, t)
  BY FS_Subset, FS_CardinalityType DEF IsSum
<1>1. 0 \in P
  BY <1>0, FS_EmptySet DEF Added
<1>2. ASSUME NEW n \in P PROVE n + 1 \in P
  <2>1. SUFFICES ASSUME NEW t \in SUBSET s, Cardinality(t) = n + 1
                 PROVE  g[t] = h[t]
    OBVIOUS
  <2>2. t # {}
    BY <2>1, FS_EmptySet
  <2>3. Pick(t) \in t
    BY <2>2, PickIsIn
  <2>4. t \ {Pick(t)} \in SUBSET s /\ Cardinality(t \ {Pick(t)}) = n
    BY <1>0, <2>1, <2>3, OneLess
  <2>5. g[t \ {Pick(t)}] = h[t \ {Pick(t)}]
    BY <2>4
  <2> QED
    BY <1>0, <2>2, <2>5 DEF Added
<1>3. P = Nat
  <2> HIDE DEF P
  <2>1. P \in SUBSET Nat
    BY DEF P
  <2> QED
    BY <1>1, <1>2, <2>1, Induct
<1> QED
  BY <1>0, <1>3

\* The sum of a smaller set is a value of the larger one's function.
LEMMA SumOfPart ==
  ASSUME NEW S, IsFiniteSet(S), NEW f
  PROVE  \E g : /\ IsSum(g, f, S)
                /\ \A T \in SUBSET S : g[T] = SumFunctionOnSet(f, T)
<1>1. PICK g : IsSum(g, f, S)
  BY SumExists
<1>2. ASSUME NEW T \in SUBSET S PROVE g[T] = SumFunctionOnSet(f, T)
  <2> DEFINE h == CHOOSE x : IsSum(x, f, T)
  <2>1. IsFiniteSet(T)
    BY FS_Subset
  <2>2. IsSum(h, f, T)
    BY <2>1, SumExists
  <2>3. SumFunctionOnSet(f, T) = h[T]
    BY SumIs
  <2> HIDE DEF h
  <2> QED
    BY <1>1, <2>1, <2>2, <2>3, SumsAgree
<1> QED
  BY <1>1, <1>2

LEMMA SumOfNone ==
  ASSUME NEW f
  PROVE  SumFunctionOnSet(f, {}) = 0
<1>1. IsFiniteSet({})
  BY FS_EmptySet
<1>2. PICK g : IsSum(g, f, {}) /\ \A T \in SUBSET {} : g[T] = SumFunctionOnSet(f, T)
  BY <1>1, SumOfPart
<1>3. {} \in SUBSET {}
  OBVIOUS
<1>4. g[{}] = Added(g, f, {})
  BY <1>2, <1>3 DEF IsSum
<1> QED
  BY <1>2, <1>3, <1>4 DEF Added

\* A sum is an integer, and any one element can be taken out of it.
LEMMA SumWithout ==
  ASSUME NEW S, IsFiniteSet(S), NEW f, \A x \in S : f[x] \in Int
  PROVE  /\ SumFunctionOnSet(f, S) \in Int
         /\ \A x \in S : SumFunctionOnSet(f, S)
                           = f[x] + SumFunctionOnSet(f, S \ {x})
<1> DEFINE Good(T) ==
             /\ SumFunctionOnSet(f, T) \in Int
             /\ \A x \in T : SumFunctionOnSet(f, T)
                               = f[x] + SumFunctionOnSet(f, T \ {x})
           P == {n \in Nat : \A T \in SUBSET S : Cardinality(T) <= n => Good(T)}
<1>0. \A T \in SUBSET S : IsFiniteSet(T) /\ Cardinality(T) \in Nat
  BY FS_Subset, FS_CardinalityType
<1>a. ASSUME NEW T \in SUBSET S, T # {}
      PROVE  SumFunctionOnSet(f, T)
               = f[Pick(T)] + SumFunctionOnSet(f, T \ {Pick(T)})
  <2>1. PICK g : /\ IsSum(g, f, S)
                 /\ \A U \in SUBSET S : g[U] = SumFunctionOnSet(f, U)
    BY SumOfPart
  <2>2. g[T] = Added(g, f, T)
    BY <2>1 DEF IsSum
  <2>3. T \ {Pick(T)} \in SUBSET S
    OBVIOUS
  <2> QED
    BY <1>a, <2>1, <2>2, <2>3 DEF Added
<1>1. 0 \in P
  <2>1. \A T \in SUBSET S : Cardinality(T) <= 0 => T = {}
    BY <1>0, FS_EmptySet
  <2>2. Good({})
    BY SumOfNone
  <2> HIDE DEF Good
  <2> QED
    BY <2>1, <2>2
<1>2. ASSUME NEW n \in P PROVE n + 1 \in P
  <2>1. SUFFICES ASSUME NEW T \in SUBSET S, Cardinality(T) <= n + 1,
                        T # {}
                 PROVE  Good(T)
    BY SumOfNone
  <2> DEFINE c == Pick(T)
  <2>2. T # {}
    BY <2>1
  <2>3. c \in T
    BY <2>2, PickIsIn
  <2>4. \A x \in T : T \ {x} \in SUBSET S /\ Cardinality(T \ {x}) <= n
    BY <1>0, <2>1, OneLess
  <2>5. \A x \in T : Good(T \ {x})
    BY <2>4
  <2>6. SumFunctionOnSet(f, T) = f[c] + SumFunctionOnSet(f, T \ {c})
    BY <1>a, <2>2
  <2> HIDE DEF c
  <2>7. SumFunctionOnSet(f, T) \in Int
    BY <2>3, <2>5, <2>6
  <2>8. ASSUME NEW x \in T
        PROVE  SumFunctionOnSet(f, T) = f[x] + SumFunctionOnSet(f, T \ {x})
    <3>1. CASE x = c
      BY <3>1, <2>6
    <3>2. CASE x # c
      <4>1. x \in T \ {c} /\ c \in T \ {x}
        BY <3>2, <2>3
      <4>2. SumFunctionOnSet(f, T \ {c})
              = f[x] + SumFunctionOnSet(f, (T \ {c}) \ {x})
        BY <2>3, <2>5, <4>1
      <4>3. SumFunctionOnSet(f, T \ {x})
              = f[c] + SumFunctionOnSet(f, (T \ {x}) \ {c})
        BY <2>5, <4>1
      <4>4. (T \ {c}) \ {x} = (T \ {x}) \ {c}
        OBVIOUS
      <4>5. f[x] \in Int /\ f[c] \in Int
        BY <2>3
      <4>6. SumFunctionOnSet(f, (T \ {x}) \ {c}) \in Int
        <5>1. /\ (T \ {x}) \ {c} \in SUBSET S
              /\ Cardinality((T \ {x}) \ {c}) <= n
          <6>1. /\ T \ {x} \in SUBSET S /\ Cardinality(T \ {x}) <= n
                /\ IsFiniteSet(T \ {x}) /\ Cardinality(T \ {x}) \in Nat
            BY <1>0, <2>4
          <6>2. Cardinality((T \ {x}) \ {c}) = Cardinality(T \ {x}) - 1
            BY <6>1, <4>1, OneLess
          <6> QED
            BY <6>1, <6>2
        <5> QED
          BY <5>1
      <4> QED
        BY <2>6, <4>2, <4>3, <4>4, <4>5, <4>6
    <3> QED
      BY <3>1, <3>2
  <2> QED
    BY <2>7, <2>8
<1>3. P = Nat
  <2> HIDE DEF P
  <2>1. P \in SUBSET Nat
    BY DEF P
  <2> QED
    BY <1>1, <1>2, <2>1, Induct
<1>4. S \in SUBSET S /\ Cardinality(S) \in P
  BY <1>0, <1>3
<1>5. Good(S)
  BY <1>4
<1> QED
  BY <1>5

\* What a function is elsewhere does not matter to a sum.
LEMMA SumSame ==
  ASSUME NEW S, IsFiniteSet(S), NEW f, NEW h, \A x \in S : f[x] = h[x]
  PROVE  SumFunctionOnSet(f, S) = SumFunctionOnSet(h, S)
<1>1. PICK g : /\ IsSum(g, f, S)
               /\ \A T \in SUBSET S : g[T] = SumFunctionOnSet(f, T)
  BY SumOfPart
<1>2. ASSUME NEW s \in SUBSET S PROVE Added(g, f, s) = Added(g, h, s)
  <2>1. CASE s = {}
    BY <2>1 DEF Added
  <2>2. CASE s # {}
    <3>1. Pick(s) \in S
      BY <2>2, PickIsIn
    <3> QED
      BY <2>2, <3>1 DEF Added
  <2> QED
    BY <2>1, <2>2
<1>3. IsSum(g, h, S)
  BY <1>1, <1>2 DEF IsSum
<1>4. PICK k : /\ IsSum(k, h, S)
               /\ \A T \in SUBSET S : k[T] = SumFunctionOnSet(h, T)
  BY SumOfPart
<1>5. g[S] = k[S]
  <2>1. S \in SUBSET S
    OBVIOUS
  <2> QED
    BY <1>3, <1>4, <2>1, SumsAgree
<1> QED
  BY <1>1, <1>4, <1>5

\* One value changes, and the sum by as much.
LEMMA SumChanges ==
  ASSUME NEW S, IsFiniteSet(S), NEW f, NEW h, NEW x \in S,
         \A y \in S : f[y] \in Int /\ h[y] \in Int,
         \A y \in S \ {x} : h[y] = f[y]
  PROVE  /\ SumFunctionOnSet(f, S) \in Int /\ SumFunctionOnSet(h, S) \in Int
         /\ SumFunctionOnSet(h, S) + f[x] = SumFunctionOnSet(f, S) + h[x]
<1>1. IsFiniteSet(S \ {x})
  BY OneLess
<1>2. SumFunctionOnSet(f, S \ {x}) = SumFunctionOnSet(h, S \ {x})
  BY <1>1, SumSame
<1>3. /\ SumFunctionOnSet(f, S) \in Int
      /\ SumFunctionOnSet(f, S) = f[x] + SumFunctionOnSet(f, S \ {x})
  BY SumWithout
<1>4. /\ SumFunctionOnSet(h, S) \in Int
      /\ SumFunctionOnSet(h, S) = h[x] + SumFunctionOnSet(h, S \ {x})
  BY SumWithout
<1>5. SumFunctionOnSet(f, S \ {x}) \in Int
  <2>1. \A y \in S \ {x} : f[y] \in Int
    OBVIOUS
  <2> QED
    BY <1>1, <2>1, SumWithout
<1>6. f[x] \in Int /\ h[x] \in Int
  OBVIOUS
<1> QED
  BY <1>2, <1>3, <1>4, <1>5, <1>6

-----------------------------------------------------------------------------
(* Arithmetic.                                                             *)

LEMMA AbsIs ==
  ASSUME NEW n \in Int
  PROVE  Abs(n) \in Nat /\ (n >= 0 => Abs(n) = n) /\ (n < 0 => Abs(n) = -n)
  BY DEF Abs

LEMMA MinIs ==
  ASSUME NEW a \in Int, NEW b \in Int
  PROVE  /\ Min({a, b}) \in {a, b}
         /\ Min({a, b}) <= a /\ Min({a, b}) <= b
<1>1. \E x \in {a, b} : \A y \in {a, b} : x <= y
  <2>1. CASE a <= b
    BY <2>1
  <2>2. CASE b < a
    BY <2>2
  <2> QED
    BY <2>1, <2>2
<1>2. Min({a, b}) \in {a, b} /\ \A y \in {a, b} : Min({a, b}) <= y
  BY <1>1 DEF Min
<1> QED
  BY <1>2

LEMMA MaxIs ==
  ASSUME NEW a \in Int, NEW b \in Int
  PROVE  /\ Max({a, b}) \in {a, b}
         /\ Max({a, b}) >= a /\ Max({a, b}) >= b
<1>1. \E x \in {a, b} : \A y \in {a, b} : x >= y
  <2>1. CASE a <= b
    BY <2>1
  <2>2. CASE b < a
    BY <2>2
  <2> QED
    BY <2>1, <2>2
<1>2. Max({a, b}) \in {a, b} /\ \A y \in {a, b} : Max({a, b}) >= y
  BY <1>1 DEF Max
<1> QED
  BY <1>2

LEMMA DivIs ==
  ASSUME NEW m \in Nat, NEW z \in Nat \ {0}
  PROVE  m \div z \in Nat /\ z * (m \div z) <= m /\ m < z * (m \div z) + z
  BY SMT

LEMMA ProductOfNaturals ==
  ASSUME NEW a \in Nat, NEW b \in Nat
  PROVE  a * b \in Nat
  BY SMT

LEMMA ProductKeepsOrder ==
  ASSUME NEW a \in Nat, NEW b \in Nat, NEW c \in Nat, a <= b
  PROVE  a * c \in Nat /\ b * c \in Nat /\ a * c <= b * c
  BY SMT

\* A later day is of the same week or of a later one.
LEMMA WeeksFollow ==
  ASSUME NEW a \in Nat, NEW b \in Nat, a <= b
  PROVE  Week(a) \in Nat /\ Week(b) \in Nat /\ Week(a) <= Week(b)
<1> DEFINE x == Week(a)
           y == Week(b)
<1>1. WeekDays \in Nat \ {0}
  BY LimitsAreCounts
<1>2. x \in Nat /\ WeekDays * x <= a
  BY <1>1, DivIs DEF Week
<1>3. y \in Nat /\ b < WeekDays * y + WeekDays
  BY <1>1, DivIs DEF Week
<1> HIDE DEF x, y
<1>4. SUFFICES ASSUME y < x PROVE FALSE
  BY <1>2, <1>3 DEF x, y
<1>5. y + 1 <= x
  BY <1>2, <1>3, <1>4
<1>6. (y + 1) * WeekDays <= x * WeekDays
  BY <1>1, <1>2, <1>3, <1>5, ProductKeepsOrder
<1>7. (y + 1) * WeekDays = WeekDays * y + WeekDays /\ x * WeekDays = WeekDays * x
  BY <1>1, <1>2, <1>3
<1> QED
  BY <1>1, <1>2, <1>3, <1>6, <1>7

-----------------------------------------------------------------------------
(* The inductive invariant.                                                *)

Position == [qty : Int, avg : Nat]
Books == [Symbols -> Position]
Row == [asked : Nat, written : Nat, pnl : Int]
Stacks == [up : {TRUE}, day : Nat, restored : Nat, trades : Nat, daily : Int,
           weekly : Int, rejections : Nat, book : Books]
Brokers == [connected : BOOLEAN, cash : Int, held : Books, filledStop : BOOLEAN]
Entered == [stage : {"entered"}, asked : Nat]
Filled == [stage : {"filled"}, asked : Nat, symbol : Symbols, pnl : Int]

TypeOK ==
  /\ day \in Nat
  /\ broker \in Brokers
  /\ stack = NoStack \/ stack \in Stacks
  /\ request = NoRequest \/ request \in Entered \cup Filled
  /\ rows \in Seq(Row)
  /\ saved \in Books

\* A flat position remembers no average: books that agree on every quantity
\* and have nothing open are the same.
Tidy(book) == \A s \in Symbols : book[s].qty = 0 => book[s] = Flat
TidyInv ==
  /\ Tidy(broker.held) /\ Tidy(saved)
  /\ stack.up => Tidy(stack.book)

\* Nothing is counted on a day that is still to come: what the stack counts is
\* of its day or of an earlier one, and a request at work was asked in it.
WindowInv ==
  /\ \A i \in 1 .. Len(rows) : rows[i].written <= day
  /\ stack.up => /\ stack.day <= day
                 /\ stack.restored <= Len(rows)
                 /\ \A i \in 1 .. Len(rows) : CountedOn(i) <= stack.day
  /\ request # NoRequest => stack.up /\ request.asked = stack.day

InFlight == IF request.stage = "filled" THEN 1 ELSE 0
FlightPnl == IF request.stage = "filled" THEN request.pnl ELSE 0

\* The counters are those of the journal and of the order in flight, which is
\* counted as a trade when it fills and as a loss when it is written.
CountInv ==
  stack.up => /\ stack.trades = Cardinality(RowsOfDay) + InFlight
              /\ stack.daily = Realized(RowsOfDay)
              /\ stack.weekly = Realized(RowsOfWeek)

\* While the simulated broker holds as much of everything as the book, and has
\* filled no stop as it was placed, it holds it at the same average, and its
\* cash has what was realized.
SameQuantities == \A s \in Symbols : broker.held[s].qty = stack.book[s].qty
CashInv ==
  stack.up /\ ~broker.connected /\ ~broker.filledStop /\ SameQuantities
    => /\ broker.held = stack.book
       /\ broker.cash = StartingBalance + Realized(1 .. Len(rows)) + FlightPnl

IInv == TypeOK /\ TidyInv /\ WindowInv /\ CountInv /\ CashInv

-----------------------------------------------------------------------------
(* What the operators give.                                                *)

PnlOf(r, S) == SumFunction([i \in S |-> r[i].pnl])

LEMMA RowsSum ==
  ASSUME NEW r \in Seq(Row), NEW S \in SUBSET (1 .. Len(r))
  PROVE  IsFiniteSet(S) /\ PnlOf(r, S) \in Int /\ PnlOf(r, {}) = 0
<1>1. IsFiniteSet(1 .. Len(r))
  BY FS_Interval
<1>2. IsFiniteSet(S)
  BY <1>1, FS_Subset
<1> DEFINE f == [i \in S |-> r[i].pnl]
<1>3. \A i \in S : f[i] \in Int
  <2>1. \A i \in 1 .. Len(r) : r[i] \in Row
    OBVIOUS
  <2> QED
    BY <2>1 DEF Row
<1>4. PnlOf(r, S) = SumFunctionOnSet(f, S)
  BY DEF PnlOf, SumFunction
<1> HIDE DEF f
<1>5. PnlOf(r, S) \in Int
  BY <1>2, <1>3, <1>4, SumWithout
<1>6. PnlOf(r, {}) = 0
  BY SumOfNone DEF PnlOf, SumFunction
<1> QED
  BY <1>2, <1>5, <1>6

LEMMA RowsGrow ==
  ASSUME NEW r \in Seq(Row), NEW e \in Row
  PROVE  /\ Append(r, e) \in Seq(Row)
         /\ Len(Append(r, e)) = Len(r) + 1 /\ Len(r) \in Nat
         /\ \A i \in 1 .. Len(r) : Append(r, e)[i] = r[i]
         /\ Append(r, e)[Len(r) + 1] = e
  OBVIOUS

\* A row more adds its result to the sums it belongs to, and to no other.
LEMMA RowsSumMore ==
  ASSUME NEW r \in Seq(Row), NEW e \in Row, NEW S \in SUBSET (1 .. Len(r))
  PROVE  /\ PnlOf(Append(r, e), S) = PnlOf(r, S)
         /\ PnlOf(Append(r, e), S \cup {Len(r) + 1}) = PnlOf(r, S) + e.pnl
         /\ Cardinality(S \cup {Len(r) + 1}) = Cardinality(S) + 1
<1> DEFINE q == Append(r, e)
           n == Len(r) + 1
           T == S \cup {n}
           f == [i \in T |-> q[i].pnl]
           h == [i \in S |-> q[i].pnl]
<1>1. n \notin S /\ T \ {n} = S /\ IsFiniteSet(S)
  <2>1. Len(r) \in Nat
    OBVIOUS
  <2> QED
    BY <2>1, RowsSum
<1>2. q \in Seq(Row) /\ q[n].pnl = e.pnl
  BY RowsGrow
<1>3. [i \in S |-> q[i].pnl] = [i \in S |-> r[i].pnl]
  BY RowsGrow
<1>4. PnlOf(q, S) = PnlOf(r, S)
  BY <1>3 DEF PnlOf
<1>5. IsFiniteSet(T) /\ Cardinality(T) = Cardinality(S) + 1
  BY <1>1, FS_AddElement
<1>6. \A i \in T : f[i] \in Int
  <2>1. \A i \in 1 .. Len(q) : q[i] \in Row
    BY <1>2
  <2>2. Len(q) = Len(r) + 1 /\ Len(r) \in Nat
    BY RowsGrow
  <2>3. \A i \in T : i \in 1 .. Len(q)
    BY <2>2
  <2> QED
    BY <2>1, <2>3 DEF Row
<1>7. f[n] = e.pnl
  BY <1>2
<1>8. PnlOf(q, T) = SumFunctionOnSet(f, T) /\ PnlOf(q, S) = SumFunctionOnSet(h, S)
  BY DEF PnlOf, SumFunction
<1>9. \A i \in S : f[i] = h[i]
  OBVIOUS
<1> HIDE DEF f, h
<1>10. SumFunctionOnSet(f, T) = f[n] + SumFunctionOnSet(f, T \ {n})
  <2>1. n \in T
    OBVIOUS
  <2> HIDE DEF T, n
  <2> QED
    BY <1>5, <1>6, <2>1, SumWithout
<1>11. SumFunctionOnSet(f, S) = SumFunctionOnSet(h, S)
  BY <1>1, <1>9, SumSame
<1>12. PnlOf(r, S) \in Int /\ e.pnl \in Int
  BY RowsSum DEF Row
<1>13. PnlOf(q, T) = e.pnl + PnlOf(r, S)
  BY <1>1, <1>4, <1>7, <1>8, <1>10, <1>11
<1> QED
  BY <1>4, <1>5, <1>12, <1>13

LEMMA OrderIs ==
  ASSUME NEW o \in Requests
  PROVE  /\ o.symbol \in Symbols /\ Direction(o) \in {1, -1}
         /\ o.entry \in Nat \ {0} /\ o.stop \in Nat \ {0}
         /\ FillPrice(o) \in Nat \ {0} /\ BrokerPrices(o) \subseteq Nat
         /\ FillPrice(o) = IF o.limit # NoLimit THEN o.limit ELSE o.entry
<1>1. o \in Orders
  BY RequestsAreOrders
<1>2. o.symbol \in Symbols /\ o.entry \in Prices /\ o.stop \in Prices
      /\ o.limit \in Prices \cup {NoLimit} /\ o.long \in BOOLEAN
  BY <1>1 DEF Orders
<1>3. FillPrice(o) \in Prices /\ BrokerPrices(o) \subseteq Prices
      /\ FillPrice(o) = IF o.limit # NoLimit THEN o.limit ELSE o.entry
  BY <1>2, PricesPositive DEF FillPrice, BrokerPrices
<1>4. Direction(o) \in {1, -1}
  BY DEF Direction
<1> QED
  BY <1>2, <1>3, <1>4, PricesPositive

LEMMA SizeIs ==
  ASSUME NEW c \in Int, NEW p \in Nat, NEW s \in Nat
  PROVE  PositionSize(c, p, s) \in Nat
<1> DEFINE budget == c * RiskPct
           unit == 100 * Abs(p - s)
<1>1. budget \in Int /\ unit \in Nat
  BY AbsIs, LimitsAreCounts
<1>2. PositionSize(c, p, s) = IF unit = 0 \/ budget <= 0 THEN 0
                              ELSE (budget + unit - 1) \div unit
  BY DEF PositionSize
<1> HIDE DEF budget, unit
<1>3. CASE unit = 0 \/ budget <= 0
  BY <1>2, <1>3
<1>4. CASE ~(unit = 0 \/ budget <= 0)
  <2>1. budget + unit - 1 \in Nat /\ unit \in Nat \ {0}
    BY <1>1, <1>4
  <2>2. (budget + unit - 1) \div unit \in Nat
    BY <2>1, DivIs
  <2> QED
    BY <1>2, <1>4, <2>2
<1> QED
  BY <1>3, <1>4

LEMMA BookIs ==
  ASSUME NEW b \in Books, NEW s \in Symbols
  PROVE  /\ b[s] \in Position /\ b[s].qty \in Int /\ b[s].avg \in Nat
         /\ b[s] = [qty |-> b[s].qty, avg |-> b[s].avg]
  BY DEF Books, Position

\* The size of an order, and of an exit between nothing and all of it.
LEMMA QuantityIs ==
  ASSUME broker.cash \in Int, stack.book \in Books, NEW o \in Requests
  PROVE  /\ Quantity(o) \in Nat
         /\ Reducing(stack.book, o)
              => Quantity(o) \in 1 .. Abs(stack.book[o.symbol].qty)
<1> DEFINE size == PositionSize(broker.cash, FillPrice(o), o.stop)
           qty == stack.book[o.symbol].qty
           open == Abs(qty)
<1>1. size \in Nat
  BY OrderIs, SizeIs
<1>2. qty \in Int /\ Direction(o) \in {1, -1}
  BY OrderIs, BookIs
<1>3. open \in Nat /\ (qty # 0 => open # 0)
  BY <1>2, AbsIs
<1>4. Reducing(stack.book, o) => qty # 0
  BY <1>2 DEF Reducing
<1>5. Quantity(o) = IF ~Reducing(stack.book, o) THEN size
                    ELSE IF size > 0 THEN Min({size, open}) ELSE open
  BY DEF Quantity
<1> HIDE DEF size, qty, open
<1>6. Min({size, open}) \in {size, open} /\ Min({size, open}) <= open
  <2>1. size \in Int /\ open \in Int
    BY <1>1, <1>3
  <2> QED
    BY ONLY <2>1, MinIs
<1>7. Quantity(o) \in Nat
  BY <1>1, <1>3, <1>5, <1>6
<1>8. Reducing(stack.book, o) => Quantity(o) \in 1 .. open
  BY <1>1, <1>3, <1>4, <1>5, <1>6
<1> QED
  BY <1>7, <1>8 DEF open, qty

\* A fill moves the quantity by what was filled, and nothing is left of a
\* position that is closed.
LEMMA AppliedIs ==
  ASSUME NEW position \in Position, NEW signed \in Int, NEW price \in Nat
  PROVE  /\ Applied(position, signed, price).now \in Position
         /\ Applied(position, signed, price).realized \in Int
         /\ Applied(position, signed, price).now.qty = position.qty + signed
         /\ (position.qty = 0 => position = Flat)
              => (position.qty + signed = 0
                    => Applied(position, signed, price).now = Flat)
<1> DEFINE p == position.qty
           a == position.avg
           qty == p + signed
           closed == Min({Abs(signed), Abs(p)})
           total == Abs(p) * a + Abs(signed) * price
           most == Max({Abs(qty), 1})
<1>1. p \in Int /\ a \in Nat /\ qty \in Int
  BY DEF Position
<1>2. Abs(p) \in Nat /\ Abs(signed) \in Nat /\ Abs(qty) \in Nat
  BY <1>1, AbsIs
<1>3. closed \in Nat
  <2> DEFINE x == Abs(signed)
             y == Abs(p)
  <2>1. x \in Nat /\ y \in Nat
    BY <1>2
  <2> HIDE DEF x, y
  <2>2. Min({x, y}) \in {x, y}
    BY <2>1, MinIs
  <2> QED
    BY <2>1, <2>2 DEF x, y
<1>4. most \in Nat \ {0}
  <2>1. most \in {Abs(qty), 1} /\ most >= 1
    BY <1>2, MaxIs
  <2> QED
    BY <1>2, <2>1
<1>5. total \in Nat
  BY <1>1, <1>2, ProductOfNaturals
<1>6. total \div most \in Nat
  BY <1>4, <1>5, DivIs
<1>7. Applied(position, signed, price) =
        IF p * signed >= 0
        THEN [now |-> [qty |-> qty, avg |-> total \div most], realized |-> 0]
        ELSE [now |-> IF qty = 0 THEN Flat
                      ELSE [qty |-> qty,
                            avg |-> IF qty * signed > 0 THEN price ELSE a],
              realized |-> closed * (price - a) * (IF p > 0 THEN 1 ELSE -1)]
  BY DEF Applied
<1>8. closed * (price - a) * (IF p > 0 THEN 1 ELSE -1) \in Int
  BY <1>1, <1>3
<1>9. CASE p * signed >= 0
  <2>1. Applied(position, signed, price)
          = [now |-> [qty |-> qty, avg |-> total \div most], realized |-> 0]
    BY <1>7, <1>9
  <2>2. ASSUME qty = 0, p = 0 => position = Flat
        PROVE  [qty |-> qty, avg |-> total \div most] = Flat
    <3>1. p = 0 /\ signed = 0
      BY <1>1, <1>9, <2>2
    <3>2. a = 0 /\ Abs(p) = 0 /\ Abs(signed) = 0 /\ Abs(qty) = 0
      BY <2>2, <3>1 DEF Flat, Abs
    <3>3. total = 0
      BY <1>1, <3>2
    <3>4. total \div most = 0
      BY <1>4, <3>3
    <3> QED
      BY <2>2, <3>4 DEF Flat
  <2>3. [qty |-> qty, avg |-> total \div most] \in Position
    BY <1>1, <1>6 DEF Position
  <2> HIDE DEF total, most
  <2> QED
    BY <2>1, <2>2, <2>3
<1>10. CASE ~(p * signed >= 0)
  <2>1. Applied(position, signed, price)
         = [now |-> IF qty = 0 THEN Flat
                    ELSE [qty |-> qty,
                          avg |-> IF qty * signed > 0 THEN price ELSE a],
            realized |-> closed * (price - a) * (IF p > 0 THEN 1 ELSE -1)]
    BY <1>7, <1>10
  <2> HIDE DEF closed
  <2>2. Applied(position, signed, price).realized \in Int
    BY <1>8, <2>1
  <2>3. CASE qty = 0
    BY <2>1, <2>2, <2>3 DEF Flat, Position
  <2>4. CASE qty # 0
    <3>1. [qty |-> qty, avg |-> IF qty * signed > 0 THEN price ELSE a] \in Position
      BY <1>1 DEF Position
    <3> QED
      BY <2>1, <2>2, <2>4, <3>1
  <2> QED
    BY <2>3, <2>4
<1> QED
  BY <1>9, <1>10

-----------------------------------------------------------------------------
(* Every action keeps the invariant.                                       *)

LEMMA StackIs ==
  ASSUME TypeOK
  PROVE  stack.up \in BOOLEAN /\ (stack.up <=> stack \in Stacks)
         /\ (~stack.up <=> stack = NoStack)
<1>1. CASE stack = NoStack
  <2>1. stack.up = FALSE
    BY <1>1 DEF NoStack
  <2>2. stack \notin Stacks
    BY <2>1 DEF Stacks
  <2> QED
    BY <1>1, <2>1, <2>2
<1>2. CASE stack \in Stacks
  <2>1. stack.up = TRUE
    BY <1>2 DEF Stacks
  <2>2. stack # NoStack
    BY <2>1 DEF NoStack
  <2> QED
    BY <1>2, <2>1, <2>2
<1> QED
  BY <1>1, <1>2 DEF TypeOK

LEMMA RequestIs ==
  ASSUME TypeOK
  PROVE  /\ request = NoRequest <=> request.stage = "none"
         /\ request.stage = "entered" <=> request \in Entered
         /\ request.stage = "filled" <=> request \in Filled
  BY DEF TypeOK, NoRequest, Entered, Filled

LEMMA EmptyBookIs ==
  EmptyBook \in Books /\ Tidy(EmptyBook) /\ \A s \in Symbols : EmptyBook[s].qty = 0
  BY DEF EmptyBook, Books, Position, Flat, Tidy

\* The journal of a window is part of the journal.
LEMMA WindowsAre ==
  ASSUME TypeOK
  PROVE  /\ RowsOfDay \in SUBSET (1 .. Len(rows))
         /\ RowsOfWeek \in SUBSET (1 .. Len(rows))
         /\ WrittenToday \in SUBSET (1 .. Len(rows))
         /\ WrittenThisWeek \in SUBSET (1 .. Len(rows))
         /\ \A S \in SUBSET (1 .. Len(rows)) :
              Realized(S) \in Int /\ IsFiniteSet(S) /\ Cardinality(S) \in Nat
         /\ Realized({}) = 0 /\ Cardinality({}) = 0
         /\ \A i \in 1 .. Len(rows) :
              rows[i].written \in Nat /\ rows[i].asked \in Nat /\ CountedOn(i) \in Nat
<1>1. rows \in Seq(Row)
  BY DEF TypeOK
<1>2. /\ RowsOfDay \in SUBSET (1 .. Len(rows))
      /\ RowsOfWeek \in SUBSET (1 .. Len(rows))
      /\ WrittenToday \in SUBSET (1 .. Len(rows))
      /\ WrittenThisWeek \in SUBSET (1 .. Len(rows))
  BY DEF RowsOfDay, RowsOfWeek, WrittenToday, WrittenThisWeek
<1>3. ASSUME NEW S \in SUBSET (1 .. Len(rows))
      PROVE  Realized(S) \in Int /\ IsFiniteSet(S) /\ Cardinality(S) \in Nat
  BY <1>1, RowsSum, FS_CardinalityType DEF Realized, PnlOf
<1>4. Realized({}) = 0 /\ Cardinality({}) = 0
  BY <1>1, RowsSum, FS_EmptySet DEF Realized, PnlOf
<1>5. \A i \in 1 .. Len(rows) : rows[i] \in Row
  BY <1>1
<1>6. \A i \in 1 .. Len(rows) :
        rows[i].written \in Nat /\ rows[i].asked \in Nat /\ CountedOn(i) \in Nat
  BY <1>5 DEF Row, CountedOn
<1> QED
  BY <1>2, <1>3, <1>4, <1>6

LEMMA InitHolds ==
  ASSUME Init
  PROVE  IInv
<1>1. TypeOK
  <2>1. StartingBalance \in Int
    BY LimitsAreCounts
  <2>2. broker \in Brokers
    BY <2>1, EmptyBookIs DEF Init, Brokers
  <2> QED
    BY <2>2, EmptyBookIs DEF Init, TypeOK
<1>2. TidyInv
  BY EmptyBookIs DEF Init, TidyInv, NoStack
<1>3. WindowInv
  BY DEF Init, WindowInv, NoStack
<1>4. CountInv /\ CashInv
  BY DEF Init, CountInv, CashInv, NoStack
<1> QED
  BY <1>1, <1>2, <1>3, <1>4 DEF IInv

LEMMA BuildKeeps ==
  ASSUME IInv, Build
  PROVE  IInv'
<1> USE DEF IInv
<1>1. /\ stack' = [up |-> TRUE, day |-> day, restored |-> Len(rows),
                   trades |-> Cardinality(WrittenToday),
                   daily |-> Realized(WrittenToday),
                   weekly |-> Realized(WrittenThisWeek),
                   rejections |-> 0, book |-> saved]
      /\ broker' = IF broker.connected THEN broker
                   ELSE [connected |-> FALSE, held |-> EmptyBook,
                         cash |-> StartingBalance + Realized(1 .. Len(rows)),
                         filledStop |-> FALSE]
      /\ day' = day /\ request' = request /\ rows' = rows /\ saved' = saved
  BY DEF Build, Rebuilt
<1>2. request = NoRequest
  BY DEF Build, WindowInv
<1>3. day \in Nat /\ Len(rows) \in Nat /\ saved \in Books
  BY DEF TypeOK
<1>4. Realized(1 .. Len(rows)) \in Int
  BY WindowsAre
<1>5. TypeOK'
  <2>1. stack' \in Stacks
    BY <1>1, <1>3, WindowsAre DEF Stacks
  <2>2. StartingBalance + Realized(1 .. Len(rows)) \in Int
    BY <1>4, LimitsAreCounts
  <2>3. broker' \in Brokers
    <3>1. CASE broker.connected
      BY <1>1, <3>1 DEF TypeOK
    <3>2. CASE ~broker.connected
      BY <1>1, <3>2, <2>2, EmptyBookIs DEF Brokers
    <3> QED
      BY <3>1, <3>2
  <2> QED
    BY <1>1, <2>1, <2>3 DEF TypeOK
<1>6. TidyInv'
  <2>1. Tidy(broker'.held)
    <3>1. CASE broker.connected
      BY <1>1, <3>1 DEF TidyInv
    <3>2. CASE ~broker.connected
      BY <1>1, <3>2, EmptyBookIs
    <3> QED
      BY <3>1, <3>2
  <2>2. Tidy(saved)
    BY DEF TidyInv
  <2>3. Tidy(saved') /\ Tidy(stack'.book)
    BY <1>1, <2>2
  <2> QED
    BY <2>1, <2>3 DEF TidyInv
<1>7. \A i \in 1 .. Len(rows) : CountedOn(i)' = rows[i].written
  BY <1>1 DEF CountedOn
<1>8. WindowInv'
  <2>1. \A i \in 1 .. Len(rows) : rows[i].written <= day
    BY DEF WindowInv
  <2>2. stack'.day = day /\ stack'.restored = Len(rows)
    BY <1>1
  <2>3. \A i \in 1 .. Len(rows') : CountedOn(i)' <= stack'.day
    BY <1>1, <1>7, <2>1, <2>2
  <2> QED
    BY <1>1, <1>2, <1>3, <2>1, <2>2, <2>3 DEF WindowInv
<1>9. CountInv'
  <2>1. RowsOfDay' = WrittenToday
    BY <1>1, <1>7 DEF RowsOfDay, WrittenToday
  <2>2. RowsOfWeek' = WrittenThisWeek
    BY <1>1, <1>7 DEF RowsOfWeek, WrittenThisWeek
  <2>3. InFlight' = 0
    BY <1>1, <1>2 DEF InFlight, NoRequest
  <2>4. /\ stack'.trades = Cardinality(WrittenToday)
        /\ stack'.daily = Realized(WrittenToday)
        /\ stack'.weekly = Realized(WrittenThisWeek)
    BY <1>1
  <2>5. Cardinality(WrittenToday) \in Nat
    BY WindowsAre
  <2>6. \A S : Realized(S)' = Realized(S)
    BY <1>1 DEF Realized
  <2> QED
    BY <2>1, <2>2, <2>3, <2>4, <2>5, <2>6 DEF CountInv
<1>10. CashInv'
  <2>1. SUFFICES ASSUME ~broker'.connected, ~broker'.filledStop, SameQuantities'
                 PROVE  /\ broker'.held = stack'.book
                        /\ broker'.cash = StartingBalance
                             + Realized(1 .. Len(rows))' + FlightPnl'
    BY DEF CashInv
  <2>2. broker' = [connected |-> FALSE, held |-> EmptyBook,
                   cash |-> StartingBalance + Realized(1 .. Len(rows)),
                   filledStop |-> FALSE]
    BY <1>1, <2>1
  <2>3. FlightPnl' = 0
    BY <1>1, <1>2 DEF FlightPnl, NoRequest
  <2>4. \A s \in Symbols : saved[s].qty = 0
    BY <1>1, <2>1, <2>2, EmptyBookIs DEF SameQuantities
  <2>5. \A s \in Symbols : saved[s] = Flat
    BY <2>4 DEF TidyInv, Tidy
  <2>6. saved = EmptyBook
    BY <1>3, <2>5 DEF EmptyBook, Books
  <2>7. Realized(1 .. Len(rows))' = Realized(1 .. Len(rows))
    BY <1>1 DEF Realized
  <2> QED
    BY <1>1, <1>4, <2>2, <2>3, <2>6, <2>7, LimitsAreCounts
<1> QED
  BY <1>5, <1>6, <1>8, <1>9, <1>10

LEMMA EnterKeeps ==
  ASSUME IInv, Enter
  PROVE  IInv'
<1> USE DEF IInv
<1>1. /\ stack.up /\ request = NoRequest /\ stack' = Rolled(stack)
      /\ request' = [stage |-> "entered", asked |-> day]
      /\ day' = day /\ broker' = broker /\ rows' = rows /\ saved' = saved
  BY DEF Enter
<1>2. stack \in Stacks /\ day \in Nat
  BY <1>1, StackIs DEF TypeOK
<1>3. /\ stack.day \in Nat /\ stack.day <= day /\ stack.restored <= Len(rows)
      /\ stack.restored \in Nat
      /\ \A i \in 1 .. Len(rows) : CountedOn(i) <= stack.day
      /\ \A i \in 1 .. Len(rows) : rows[i].written <= day
  BY <1>1, <1>2 DEF WindowInv, Stacks
<1>4. \/ stack.day = day /\ stack' = [stack EXCEPT !.day = day]
      \/ /\ stack.day < day
         /\ stack' = [stack EXCEPT !.day = day, !.trades = 0, !.daily = 0,
                        !.weekly = IF Week(stack.day) = Week(day) THEN @ ELSE 0]
  BY <1>1, <1>2, <1>3 DEF Rolled, NoDay
<1>5. /\ stack' \in Stacks /\ stack'.day = day /\ stack'.up
      /\ stack'.restored = stack.restored /\ stack'.book = stack.book
  <2>1. CASE stack.day = day /\ stack' = [stack EXCEPT !.day = day]
    BY <1>1, <1>2, <2>1 DEF Stacks
  <2>2. CASE stack' = [stack EXCEPT !.day = day, !.trades = 0, !.daily = 0,
                        !.weekly = IF Week(stack.day) = Week(day) THEN @ ELSE 0]
    <3> DEFINE w == IF Week(stack.day) = Week(day) THEN stack.weekly ELSE 0
    <3>1. w \in Int
      BY <1>2 DEF Stacks
    <3>2. stack' = [stack EXCEPT !.day = day, !.trades = 0, !.daily = 0,
                                 !.weekly = w]
      BY <2>2
    <3> HIDE DEF w
    <3>3. stack' = [up |-> TRUE, day |-> day, restored |-> stack.restored,
                    trades |-> 0, daily |-> 0, weekly |-> w,
                    rejections |-> stack.rejections, book |-> stack.book]
      BY <1>2, <3>2 DEF Stacks
    <3>4. /\ stack.restored \in Nat /\ stack.rejections \in Nat
          /\ stack.book \in Books
      BY <1>2 DEF Stacks
    <3> QED
      BY <1>2, <3>1, <3>3, <3>4 DEF Stacks
  <2> QED
    BY <1>4, <2>1, <2>2
<1>6. TypeOK'
  <2>1. request' \in Entered
    BY <1>1, <1>2 DEF Entered
  <2> QED
    BY <1>1, <1>5, <2>1 DEF TypeOK
<1>7. TidyInv'
  BY <1>1, <1>5 DEF TidyInv
<1>8. \A i \in 1 .. Len(rows) : CountedOn(i)' = CountedOn(i)
  BY <1>1, <1>5 DEF CountedOn
<1>9. WindowInv'
  <2>1. \A i \in 1 .. Len(rows) : CountedOn(i)' <= stack'.day
    BY <1>2, <1>3, <1>5, <1>8, WindowsAre
  <2> QED
    BY <1>1, <1>2, <1>3, <1>5, <2>1 DEF WindowInv
<1>10. CountInv'
  <2>1. InFlight = 0 /\ InFlight' = 0
    BY <1>1 DEF InFlight, NoRequest
  <2>2. \A S : Realized(S)' = Realized(S)
    BY <1>1 DEF Realized
  <2>3. /\ stack.trades = Cardinality(RowsOfDay)
        /\ stack.daily = Realized(RowsOfDay)
        /\ stack.weekly = Realized(RowsOfWeek)
    BY <1>1, <2>1, WindowsAre DEF CountInv
  <2>4. CASE stack.day = day /\ stack' = [stack EXCEPT !.day = day]
    <3>1. stack' = stack
      BY <1>2, <2>4 DEF Stacks
    <3>2. RowsOfDay' = RowsOfDay /\ RowsOfWeek' = RowsOfWeek
      BY <1>1, <3>1 DEF RowsOfDay, RowsOfWeek, CountedOn
    <3> QED
      BY <2>1, <2>2, <2>3, <3>1, <3>2, WindowsAre DEF CountInv
  <2>5. CASE /\ stack.day < day
             /\ stack' = [stack EXCEPT !.day = day, !.trades = 0, !.daily = 0,
                            !.weekly = IF Week(stack.day) = Week(day) THEN @ ELSE 0]
    <3>1. stack'.trades = 0 /\ stack'.daily = 0
          /\ stack'.weekly = IF Week(stack.day) = Week(day) THEN stack.weekly ELSE 0
      BY <1>2, <2>5 DEF Stacks
    <3>2. RowsOfDay' = {}
      <4>1. \A i \in 1 .. Len(rows) : CountedOn(i)' # day
        BY <1>2, <1>3, <1>8, <2>5, WindowsAre
      <4> QED
        BY <1>1, <1>5, <4>1 DEF RowsOfDay
    <3>3. CASE Week(stack.day) = Week(day)
      <4>1. RowsOfWeek' = RowsOfWeek
        BY <1>1, <1>5, <1>8, <3>3 DEF RowsOfWeek
      <4> QED
        BY <2>1, <2>2, <2>3, <3>1, <3>2, <3>3, <4>1, WindowsAre DEF CountInv
    <3>4. CASE Week(stack.day) # Week(day)
      <4>1. /\ Week(stack.day) <= Week(day) /\ Week(stack.day) \in Nat
            /\ Week(day) \in Nat
        BY <1>2, <1>3, WeeksFollow
      <4>2. ASSUME NEW i \in 1 .. Len(rows)
            PROVE  Week(CountedOn(i)') # Week(day)
        <5>1. CountedOn(i) \in Nat /\ CountedOn(i) <= stack.day
          BY <1>3, WindowsAre
        <5>2. Week(CountedOn(i)) <= Week(stack.day) /\ Week(CountedOn(i)) \in Nat
          BY <1>3, <5>1, WeeksFollow
        <5> QED
          BY <1>8, <3>4, <4>1, <5>2
      <4>3. RowsOfWeek' = {}
        BY <1>1, <1>5, <4>2 DEF RowsOfWeek
      <4> QED
        BY <2>1, <2>2, <3>1, <3>2, <3>4, <4>3, WindowsAre DEF CountInv
    <3> QED
      BY <3>3, <3>4
  <2> QED
    BY <1>4, <2>4, <2>5
<1>11. CashInv'
  <2>1. FlightPnl = 0 /\ FlightPnl' = 0
    BY <1>1 DEF FlightPnl, NoRequest
  <2>2. SameQuantities' <=> SameQuantities
    BY <1>1, <1>5 DEF SameQuantities
  <2>3. Realized(1 .. Len(rows))' = Realized(1 .. Len(rows))
    BY <1>1 DEF Realized
  <2> QED
    BY <1>1, <1>5, <2>1, <2>2, <2>3 DEF CashInv
<1> QED
  BY <1>6, <1>7, <1>9, <1>10, <1>11

LEMMA BookAfter ==
  ASSUME NEW b \in Books, Tidy(b), NEW s \in Symbols, NEW signed \in Int,
         NEW price \in Nat
  PROVE  LET c == [b EXCEPT ![s] = Applied(b[s], signed, price).now]
         IN  /\ c \in Books /\ Tidy(c)
             /\ c[s].qty = b[s].qty + signed
             /\ \A t \in Symbols \ {s} : c[t] = b[t]
<1> DEFINE now == Applied(b[s], signed, price).now
           c == [b EXCEPT ![s] = now]
<1>1. b[s] \in Position /\ b[s].qty \in Int /\ (b[s].qty = 0 => b[s] = Flat)
  BY BookIs DEF Tidy
<1>2. now \in Position /\ now.qty = b[s].qty + signed /\ (now.qty = 0 => now = Flat)
  BY <1>1, AppliedIs
<1> HIDE DEF now
<1>3. c \in Books /\ c[s] = now /\ \A t \in Symbols \ {s} : c[t] = b[t]
  BY <1>2 DEF Books
<1>4. Tidy(c)
  BY <1>2, <1>3 DEF Tidy
<1> QED
  BY <1>2, <1>3, <1>4 DEF now

\* The stop changes what the broker holds only by filling as it is placed.
LEMMA ProtectedIs ==
  ASSUME NEW b \in Brokers, Tidy(b.held), NEW o \in Requests, Left(o) \in Int,
         NEW trigger, NEW quote \in Nat
  PROVE  /\ Protected(b, o, trigger, quote) \in Brokers
         /\ Tidy(Protected(b, o, trigger, quote).held)
         /\ \/ Protected(b, o, trigger, quote) = b
            \/ Protected(b, o, trigger, quote).filledStop
<1> DEFINE c == Protected(b, o, trigger, quote)
           x == o.symbol
           left == Left(o)
           h == b.held
           fill == Applied(h[x], -left, quote)
           held == [h EXCEPT ![x] = Applied(h[x], -left, quote).now]
           struck == [connected |-> b.connected, cash |-> b.cash + fill.realized,
                      held |-> held, filledStop |-> TRUE]
<1>1. h \in Books /\ b.cash \in Int /\ b.connected \in BOOLEAN /\ x \in Symbols
  BY OrderIs DEF Brokers
<1>2. c = b \/ c = struck
  BY DEF Protected, Brokers
<1>3. -left \in Int
  OBVIOUS
<1>4. held \in Books /\ Tidy(held)
  <2>1. PICK signed \in Int, g \in Books : signed = -left /\ g = h
    BY <1>1, <1>3
  <2> DEFINE k == [g EXCEPT ![x] = Applied(g[x], signed, quote).now]
  <2>2. Tidy(g)
    BY <2>1
  <2> HIDE DEF x
  <2>3. k \in Books /\ Tidy(k)
    BY <1>1, <2>2, BookAfter
  <2>4. held = k
    BY <2>1
  <2> QED
    BY <2>3, <2>4
<1>5. fill.realized \in Int
  BY <1>1, <1>3, BookIs, AppliedIs
<1> HIDE DEF held, fill, left
<1>6. struck \in Brokers /\ Tidy(struck.held) /\ struck.filledStop
  BY <1>1, <1>4, <1>5 DEF Brokers
<1> QED
  BY <1>2, <1>6

LEMMA FillKeeps ==
  ASSUME IInv, Fill
  PROVE  IInv'
<1> USE DEF IInv
<1>1. PICK o \in Requests, price \in Prices :
        /\ Taken(o, price)
        /\ \E trigger \in Triggers(o), quote \in Marks \cup {o.entry} :
             broker' = Protected(BrokerFilled(o, price), o, trigger, quote)
  BY DEF Fill
<1>0. PICK trigger \in Triggers(o), quote \in Marks \cup {o.entry} :
        broker' = Protected(BrokerFilled(o, price), o, trigger, quote)
  BY <1>1
<1> DEFINE x == o.symbol
           q == Direction(o) * Quantity(o)
           bfill == Applied(broker.held[x], q, price)
           sfill == Applied(stack.book[x], q, price)
           held == [broker.held EXCEPT ![x] = bfill.now]
           book == [stack.book EXCEPT ![x] = sfill.now]
<1>2. /\ request.stage = "entered"
      /\ day' = day /\ rows' = rows /\ saved' = saved
  BY DEF Fill
<1>3. request \in Entered /\ request # NoRequest
  BY <1>2, RequestIs DEF NoRequest
<1>4. stack.up /\ request.asked = stack.day
  BY <1>3 DEF WindowInv
<1>5. stack \in Stacks /\ broker \in Brokers
  BY <1>4, StackIs DEF TypeOK
<1>6. /\ stack.book \in Books /\ broker.held \in Books /\ broker.cash \in Int
      /\ Tidy(stack.book) /\ Tidy(broker.held)
  BY <1>4, <1>5 DEF Stacks, Brokers, TidyInv
<1>7. x \in Symbols /\ price \in Nat /\ quote \in Nat /\ q \in Int
  <2>0. price \in Nat /\ quote \in Nat
    BY PricesPositive, OrderIs
  <2>1. Quantity(o) \in Nat /\ Direction(o) \in {1, -1}
    BY <1>6, QuantityIs, OrderIs
  <2>2. q \in Int
    BY <2>1
  <2> QED
    BY <2>0, <2>2, OrderIs
<1> DEFINE filled == [connected |-> broker.connected, held |-> held,
                      cash |-> broker.cash + bfill.realized,
                      filledStop |-> broker.filledStop]
<1>8. broker' = Protected(filled, o, trigger, quote)
  <2>2. broker = [connected |-> broker.connected, held |-> broker.held,
                  cash |-> broker.cash, filledStop |-> broker.filledStop]
    BY <1>5 DEF Brokers
  <2>3. BrokerFilled(o, price)
          = [broker EXCEPT !.held = held, !.cash = @ + bfill.realized]
    BY DEF BrokerFilled
  <2> HIDE DEF held, bfill
  <2>1. BrokerFilled(o, price) = filled
    BY <2>2, <2>3
  <2> QED
    BY <1>0, <2>1
<1>9. stack' = [up |-> TRUE, day |-> stack.day, restored |-> stack.restored,
                trades |-> stack.trades + 1, daily |-> stack.daily,
                weekly |-> stack.weekly, rejections |-> 0, book |-> book]
  BY <1>1, <1>5 DEF Taken, Stacks
<1>10. request' = [stage |-> "filled", asked |-> request.asked, symbol |-> x,
                   pnl |-> sfill.realized]
  BY <1>1 DEF Taken, Settling
<1>11. bfill.realized \in Int /\ sfill.realized \in Int
  BY <1>6, <1>7, AppliedIs, BookIs
<1>12. held \in Books /\ Tidy(held) /\ held[x].qty = broker.held[x].qty + q
       /\ \A t \in Symbols \ {x} : held[t] = broker.held[t]
  <2>1. PICK b : b = broker.held
    OBVIOUS
  <2> DEFINE c == [b EXCEPT ![x] = Applied(b[x], q, price).now]
  <2>2. b \in Books /\ Tidy(b)
    BY <1>6, <2>1
  <2> HIDE DEF x, q
  <2>3. c \in Books /\ Tidy(c) /\ c[x].qty = b[x].qty + q
        /\ \A t \in Symbols \ {x} : c[t] = b[t]
    BY <1>7, <2>2, BookAfter
  <2>4. held = c
    BY <2>1
  <2> HIDE DEF c, held
  <2> QED
    BY <2>1, <2>3, <2>4
<1>13. book \in Books /\ Tidy(book) /\ book[x].qty = stack.book[x].qty + q
       /\ \A t \in Symbols \ {x} : book[t] = stack.book[t]
  <2>1. PICK b : b = stack.book
    OBVIOUS
  <2> DEFINE c == [b EXCEPT ![x] = Applied(b[x], q, price).now]
  <2>2. b \in Books /\ Tidy(b)
    BY <1>6, <2>1
  <2> HIDE DEF x, q
  <2>3. c \in Books /\ Tidy(c) /\ c[x].qty = b[x].qty + q
        /\ \A t \in Symbols \ {x} : c[t] = b[t]
    BY <1>7, <2>2, BookAfter
  <2>4. book = c
    BY <2>1
  <2> HIDE DEF c, book
  <2> QED
    BY <2>1, <2>3, <2>4
<1>14. broker.held[x].qty \in Int /\ stack.book[x].qty \in Int
  BY <1>6, <1>7, BookIs
<1>24. filled \in Brokers /\ Tidy(filled.held)
  <2>1. broker.cash + bfill.realized \in Int
    BY <1>6, <1>11
  <2> HIDE DEF bfill, held
  <2> QED
    BY <1>5, <1>12, <2>1 DEF Brokers
<1>25. /\ broker' \in Brokers /\ Tidy(broker'.held)
       /\ broker' = filled \/ broker'.filledStop
  <2>1. Left(o) \in Int
    BY <1>7, <1>14 DEF Left
  <2> HIDE DEF filled
  <2> QED
    BY <1>7, <1>8, <1>24, <2>1, ProtectedIs
<1>15. broker' = filled /\ SameQuantities' => SameQuantities
  <2> HIDE DEF held, book, q, x
  <2>1. SUFFICES ASSUME broker' = filled, SameQuantities', NEW s \in Symbols
                 PROVE  broker.held[s].qty = stack.book[s].qty
    BY DEF SameQuantities
  <2>2. held[s].qty = book[s].qty
    BY <1>9, <2>1 DEF SameQuantities
  <2>3. CASE s = x
    BY <1>7, <1>12, <1>13, <1>14, <2>2, <2>3
  <2>4. CASE s # x
    BY <1>12, <1>13, <2>2, <2>4
  <2> QED
    BY <2>3, <2>4
<1>16. broker.held = stack.book => held = book /\ bfill.realized = sfill.realized
  OBVIOUS
<1> HIDE DEF x, q, bfill, sfill, held, book
<1>17. TypeOK'
  <2>1. stack' \in Stacks
    BY <1>5, <1>9, <1>13 DEF Stacks
  <2>2. request' \in Filled
    BY <1>3, <1>7, <1>10, <1>11 DEF Entered, Filled
  <2> QED
    BY <1>2, <1>25, <2>1, <2>2 DEF TypeOK
<1>18. TidyInv'
  BY <1>2, <1>9, <1>13, <1>25 DEF TidyInv
<1>19. stack'.up /\ stack'.day = stack.day /\ stack'.restored = stack.restored
  BY <1>9
<1>20. \A i \in 1 .. Len(rows) : CountedOn(i)' = CountedOn(i)
  BY <1>2, <1>19 DEF CountedOn
<1>21. WindowInv'
  BY <1>2, <1>4, <1>10, <1>19, <1>20 DEF WindowInv
<1>22. CountInv'
  <2>1. RowsOfDay' = RowsOfDay /\ RowsOfWeek' = RowsOfWeek
    BY <1>2, <1>19, <1>20 DEF RowsOfDay, RowsOfWeek
  <2>2. \A S : Realized(S)' = Realized(S)
    BY <1>2 DEF Realized
  <2>3. InFlight = 0 /\ InFlight' = 1
    BY <1>2, <1>10 DEF InFlight
  <2>4. Cardinality(RowsOfDay) \in Nat
    BY WindowsAre
  <2>5. /\ stack'.trades = stack.trades + 1 /\ stack'.daily = stack.daily
        /\ stack'.weekly = stack.weekly
    BY <1>9
  <2> QED
    BY <1>4, <2>1, <2>2, <2>3, <2>4, <2>5 DEF CountInv
<1>23. CashInv'
  <2>1. SUFFICES ASSUME ~broker'.connected, ~broker'.filledStop, SameQuantities'
                 PROVE  /\ broker'.held = stack'.book
                        /\ broker'.cash = StartingBalance
                             + Realized(1 .. Len(rows))' + FlightPnl'
    BY DEF CashInv
  <2>6. broker' = filled
    BY <1>25, <2>1
  <2>2. FlightPnl = 0 /\ FlightPnl' = sfill.realized
    BY <1>2, <1>10 DEF FlightPnl
  <2>3. /\ broker.held = stack.book
        /\ broker.cash = StartingBalance + Realized(1 .. Len(rows)) + FlightPnl
    BY <1>4, <1>15, <2>1, <2>6 DEF CashInv
  <2>4. Realized(1 .. Len(rows))' = Realized(1 .. Len(rows))
    BY <1>2 DEF Realized
  <2>5. Realized(1 .. Len(rows)) \in Int
    BY WindowsAre
  <2> QED
    BY <1>9, <1>11, <1>16, <2>6, <2>2, <2>3, <2>4, <2>5, LimitsAreCounts
<1> QED
  BY <1>17, <1>18, <1>21, <1>22, <1>23

LEMMA BrokerRejectsKeeps ==
  ASSUME IInv, BrokerRejects
  PROVE  IInv'
<1> USE DEF IInv
<1>1. PICK s \in Symbols : request' = Settling(s, 0)
  BY DEF BrokerRejects
<1>2. /\ request.stage = "entered"
      /\ stack' = [stack EXCEPT !.trades = @ + 1, !.rejections = @ + 1]
      /\ day' = day /\ broker' = broker /\ rows' = rows /\ saved' = saved
  BY DEF BrokerRejects
<1>3. request \in Entered /\ request # NoRequest
  BY <1>2, RequestIs DEF NoRequest
<1>4. stack.up /\ request.asked = stack.day
  BY <1>3 DEF WindowInv
<1>5. stack \in Stacks
  BY <1>4, StackIs
<1>6. /\ stack'.up /\ stack'.day = stack.day /\ stack'.restored = stack.restored
      /\ stack'.trades = stack.trades + 1 /\ stack'.daily = stack.daily
      /\ stack'.weekly = stack.weekly /\ stack'.book = stack.book
      /\ stack' \in Stacks
  <2>1. stack' = [up |-> TRUE, day |-> stack.day, restored |-> stack.restored,
                  trades |-> stack.trades + 1, daily |-> stack.daily,
                  weekly |-> stack.weekly, rejections |-> stack.rejections + 1,
                  book |-> stack.book]
    BY <1>2, <1>5 DEF Stacks
  <2> QED
    BY <1>5, <2>1 DEF Stacks
<1>7. request' = [stage |-> "filled", asked |-> request.asked, symbol |-> s,
                  pnl |-> 0]
  BY <1>1 DEF Settling
<1>8. TypeOK'
  <2>1. request' \in Filled
    BY <1>3, <1>7 DEF Entered, Filled
  <2> QED
    BY <1>2, <1>6, <2>1 DEF TypeOK
<1>9. TidyInv'
  BY <1>2, <1>4, <1>6 DEF TidyInv
<1>10. \A i \in 1 .. Len(rows) : CountedOn(i)' = CountedOn(i)
  BY <1>2, <1>6 DEF CountedOn
<1>11. WindowInv'
  BY <1>2, <1>4, <1>6, <1>7, <1>10 DEF WindowInv
<1>12. CountInv'
  <2>1. RowsOfDay' = RowsOfDay /\ RowsOfWeek' = RowsOfWeek
    BY <1>2, <1>6, <1>10 DEF RowsOfDay, RowsOfWeek
  <2>2. \A S : Realized(S)' = Realized(S)
    BY <1>2 DEF Realized
  <2>3. InFlight = 0 /\ InFlight' = 1
    BY <1>2, <1>7 DEF InFlight
  <2>4. Cardinality(RowsOfDay) \in Nat
    BY WindowsAre
  <2> QED
    BY <1>4, <1>6, <2>1, <2>2, <2>3, <2>4 DEF CountInv
<1>13. CashInv'
  <2>1. FlightPnl = 0 /\ FlightPnl' = 0
    BY <1>2, <1>7 DEF FlightPnl
  <2>2. SameQuantities' <=> SameQuantities
    BY <1>2, <1>6 DEF SameQuantities
  <2>3. Realized(1 .. Len(rows))' = Realized(1 .. Len(rows))
    BY <1>2 DEF Realized
  <2> QED
    BY <1>2, <1>4, <1>6, <2>1, <2>2, <2>3 DEF CashInv
<1> QED
  BY <1>8, <1>9, <1>11, <1>12, <1>13

LEMMA RecordKeeps ==
  ASSUME IInv, Record
  PROVE  IInv'
<1> USE DEF IInv
<1> DEFINE e == [asked |-> request.asked, written |-> day, pnl |-> request.pnl]
           x == request.symbol
<1>0. PICK n : n = Len(rows) + 1
  OBVIOUS
<1>1. /\ request.stage = "filled" /\ rows' = Append(rows, e)
      /\ saved' = [saved EXCEPT ![x] = stack.book[x]]
      /\ stack' = [stack EXCEPT !.daily = @ + request.pnl,
                                !.weekly = @ + request.pnl]
      /\ request' = NoRequest /\ day' = day /\ broker' = broker
  BY DEF Record
<1>2. request \in Filled /\ request # NoRequest
  BY <1>1, RequestIs DEF NoRequest
<1>3. x \in Symbols /\ request.pnl \in Int /\ request.asked \in Nat
  BY <1>2 DEF Filled
<1>4. stack.up /\ request.asked = stack.day
  BY <1>2 DEF WindowInv
<1>5. stack \in Stacks /\ rows \in Seq(Row) /\ saved \in Books /\ day \in Nat
  BY <1>4, StackIs DEF TypeOK
<1>6. e \in Row
  BY <1>3, <1>5 DEF Row
<1>7. /\ stack'.up /\ stack'.day = stack.day /\ stack'.restored = stack.restored
      /\ stack'.trades = stack.trades /\ stack'.daily = stack.daily + request.pnl
      /\ stack'.weekly = stack.weekly + request.pnl /\ stack'.book = stack.book
      /\ stack' \in Stacks
  <2>1. stack' = [up |-> TRUE, day |-> stack.day, restored |-> stack.restored,
                  trades |-> stack.trades, daily |-> stack.daily + request.pnl,
                  weekly |-> stack.weekly + request.pnl,
                  rejections |-> stack.rejections, book |-> stack.book]
    BY <1>1, <1>5 DEF Stacks
  <2> QED
    BY <1>3, <1>5, <2>1 DEF Stacks
<1>8. /\ rows' \in Seq(Row) /\ Len(rows') = n /\ Len(rows) \in Nat /\ rows'[n] = e
      /\ \A i \in 1 .. Len(rows) : rows'[i] = rows[i]
  BY <1>0, <1>1, <1>5, <1>6, RowsGrow
<1>9. e.asked = stack.day /\ e.written = day /\ e.pnl = request.pnl
  BY <1>4
<1>10. stack.book \in Books /\ Tidy(stack.book) /\ stack.restored \in Nat
  BY <1>4, <1>5 DEF Stacks, TidyInv
<1> HIDE DEF e
<1>11. TypeOK'
  <2>1. saved' \in Books
    BY <1>1, <1>3, <1>5, <1>10, BookIs DEF Books
  <2> QED
    BY <1>1, <1>5, <1>7, <1>8, <2>1 DEF TypeOK
<1>12. TidyInv'
  <2>1. \A s \in Symbols : saved'[s] = IF s = x THEN stack.book[s] ELSE saved[s]
    BY <1>1, <1>5 DEF Books
  <2>2. Tidy(saved')
    BY <1>10, <2>1 DEF TidyInv, Tidy
  <2> QED
    BY <1>1, <1>7, <1>10, <2>2 DEF TidyInv
<1>13. \A i \in 1 .. Len(rows) : CountedOn(i)' = CountedOn(i)
  BY <1>7, <1>8 DEF CountedOn
<1>14. stack.restored <= Len(rows) /\ stack.day <= day
       /\ (\A i \in 1 .. Len(rows) : rows[i].written <= day)
       /\ (\A i \in 1 .. Len(rows) : CountedOn(i) <= stack.day)
  BY <1>4 DEF WindowInv
<1>15. CountedOn(n)' = stack.day
  <2>1. ~(n <= stack.restored)
    BY <1>0, <1>8, <1>10, <1>14
  <2> QED
    BY <1>7, <1>8, <1>9, <2>1 DEF CountedOn
<1>16. 1 .. n = (1 .. Len(rows)) \cup {n} /\ n \notin 1 .. Len(rows)
  BY <1>0, <1>8
<1>17. stack.day \in Nat
  BY <1>5 DEF Stacks
<1>18. WindowInv'
  <2>1. \A i \in 1 .. n : rows'[i].written <= day
    BY <1>5, <1>8, <1>9, <1>14, <1>16
  <2>2. \A i \in 1 .. n : CountedOn(i)' <= stack.day
    BY <1>13, <1>14, <1>15, <1>16, <1>17
  <2>3. stack.restored <= n
    BY <1>0, <1>8, <1>10, <1>14
  <2> QED
    BY <1>1, <1>7, <1>8, <1>14, <2>1, <2>2, <2>3 DEF WindowInv
<1>19. CountInv'
  <2>1. RowsOfDay' = RowsOfDay \cup {n}
    BY <1>7, <1>8, <1>13, <1>15, <1>16 DEF RowsOfDay
  <2>2. RowsOfWeek' = RowsOfWeek \cup {n}
    BY <1>7, <1>8, <1>13, <1>15, <1>16 DEF RowsOfWeek
  <2>3. ASSUME NEW S \in SUBSET (1 .. Len(rows))
        PROVE  /\ Realized(S \cup {n})' = Realized(S) + request.pnl
               /\ Cardinality(S \cup {n}) = Cardinality(S) + 1
    <3>0. /\ PnlOf(Append(rows, e), S \cup {Len(rows) + 1}) = PnlOf(rows, S) + e.pnl
          /\ Cardinality(S \cup {Len(rows) + 1}) = Cardinality(S) + 1
      BY <1>5, <1>6, RowsSumMore
    <3>1. PnlOf(rows', S \cup {n}) = PnlOf(rows, S) + request.pnl
          /\ Cardinality(S \cup {n}) = Cardinality(S) + 1
      BY <1>0, <1>1, <1>9, <3>0
    <3> QED
      BY <3>1 DEF Realized, PnlOf
  <2>4. RowsOfDay \in SUBSET (1 .. Len(rows)) /\ RowsOfWeek \in SUBSET (1 .. Len(rows))
    BY WindowsAre
  <2>5. InFlight = 1 /\ InFlight' = 0
    BY <1>1 DEF InFlight, NoRequest
  <2>6. /\ stack.trades = Cardinality(RowsOfDay) + 1
        /\ stack.daily = Realized(RowsOfDay)
        /\ stack.weekly = Realized(RowsOfWeek)
    BY <1>4, <2>5 DEF CountInv
  <2>7. Cardinality(RowsOfDay) \in Nat
    BY WindowsAre
  <2>8. stack'.trades = Cardinality(RowsOfDay \cup {n})
    BY <1>7, <2>3, <2>4, <2>6
  <2>9. PICK D, W : D = RowsOfDay /\ W = RowsOfWeek
    OBVIOUS
  <2>10. /\ stack'.daily = Realized(D \cup {n})'
         /\ stack'.weekly = Realized(W \cup {n})'
    BY <1>7, <2>3, <2>4, <2>6, <2>9
  <2>11. stack'.daily = Realized(RowsOfDay)' /\ stack'.weekly = Realized(RowsOfWeek)'
    BY <2>1, <2>2, <2>9, <2>10 DEF Realized
  <2>12. stack'.trades = Cardinality(RowsOfDay') + InFlight'
    <3>1. Cardinality(RowsOfDay \cup {n}) \in Nat
      BY <2>3, <2>4, <2>7
    <3> QED
      BY <2>1, <2>5, <2>8, <3>1
  <2> QED
    BY <2>11, <2>12 DEF CountInv
<1>20. CashInv'
  <2>1. FlightPnl = request.pnl /\ FlightPnl' = 0
    BY <1>1 DEF FlightPnl, NoRequest
  <2>2. SameQuantities' <=> SameQuantities
    BY <1>1, <1>7 DEF SameQuantities
  <2>3. Realized(1 .. Len(rows)) \in Int
    BY WindowsAre
  <2>4. PnlOf(rows', 1 .. Len(rows')) = PnlOf(rows, 1 .. Len(rows)) + request.pnl
    <3>1. PICK S \in SUBSET (1 .. Len(rows)) : S = 1 .. Len(rows)
      OBVIOUS
    <3>2. PnlOf(Append(rows, e), S \cup {Len(rows) + 1}) = PnlOf(rows, S) + e.pnl
      BY <1>5, <1>6, RowsSumMore
    <3>3. PnlOf(rows', S \cup {n}) = PnlOf(rows, S) + request.pnl
      BY <1>0, <1>1, <1>9, <3>2
    <3> QED
      BY <1>8, <1>16, <3>1, <3>3
  <2>5. Realized(1 .. Len(rows))' = Realized(1 .. Len(rows)) + request.pnl
    BY <2>4 DEF Realized, PnlOf
  <2>6. SUFFICES ASSUME ~broker'.connected, ~broker'.filledStop, SameQuantities'
                 PROVE  /\ broker'.held = stack'.book
                        /\ broker'.cash = StartingBalance
                             + Realized(1 .. Len(rows))' + FlightPnl'
    BY DEF CashInv
  <2>7. /\ broker.held = stack.book
        /\ broker.cash = StartingBalance + Realized(1 .. Len(rows)) + FlightPnl
    BY <1>1, <1>4, <2>2, <2>6 DEF CashInv
  <2> QED
    BY <1>1, <1>3, <1>7, <2>1, <2>3, <2>5, <2>7, LimitsAreCounts
<1> QED
  BY <1>11, <1>12, <1>18, <1>19, <1>20

LEMMA RefuseKeeps ==
  ASSUME IInv, Refuse
  PROVE  IInv'
<1> USE DEF IInv
<1>1. /\ request.stage = "entered" /\ request' = NoRequest
      /\ day' = day /\ broker' = broker /\ stack' = stack /\ rows' = rows
      /\ saved' = saved
  BY DEF Refuse
<1>2. TypeOK'
  BY <1>1 DEF TypeOK
<1>3. TidyInv'
  BY <1>1 DEF TidyInv
<1>4. WindowInv'
  BY <1>1 DEF WindowInv, CountedOn
<1>5. /\ InFlight = 0 /\ InFlight' = 0 /\ FlightPnl = 0 /\ FlightPnl' = 0
  BY <1>1 DEF InFlight, FlightPnl, NoRequest
<1>6. RowsOfDay' = RowsOfDay /\ RowsOfWeek' = RowsOfWeek
  BY <1>1 DEF RowsOfDay, RowsOfWeek, CountedOn
<1>7. \A S : Realized(S)' = Realized(S)
  BY <1>1 DEF Realized
<1>8. CountInv'
  BY <1>1, <1>5, <1>6, <1>7 DEF CountInv
<1>9. CashInv'
  BY <1>1, <1>5, <1>7 DEF CashInv, SameQuantities
<1> QED
  BY <1>2, <1>3, <1>4, <1>8, <1>9

LEMMA MidnightKeeps ==
  ASSUME IInv, Midnight
  PROVE  IInv'
<1> USE DEF IInv
<1>1. /\ day' = day + 1 /\ request' = request
      /\ broker' = broker /\ stack' = stack /\ rows' = rows /\ saved' = saved
  BY DEF Midnight
<1>2. day \in Nat
  BY DEF TypeOK
<1>3. TypeOK'
  BY <1>1, <1>2 DEF TypeOK
<1>4. TidyInv'
  BY <1>1 DEF TidyInv
<1>5. WindowInv'
  <2>1. \A i \in 1 .. Len(rows) : rows[i].written <= day + 1
    BY <1>2, WindowsAre DEF WindowInv
  <2>2. stack.up => stack.day <= day + 1
    <3>1. ASSUME stack.up PROVE stack.day \in Nat /\ stack.day <= day
      BY <3>1, StackIs DEF Stacks, WindowInv
    <3> QED
      BY <1>2, <3>1
  <2>3. \A i \in 1 .. Len(rows) : CountedOn(i)' = CountedOn(i)
    BY <1>1 DEF CountedOn
  <2> QED
    BY <1>1, <2>1, <2>2, <2>3 DEF WindowInv
<1>6. RowsOfDay' = RowsOfDay /\ RowsOfWeek' = RowsOfWeek
  BY <1>1 DEF RowsOfDay, RowsOfWeek, CountedOn
<1>7. \A S : Realized(S)' = Realized(S)
  BY <1>1 DEF Realized
<1>8. CountInv'
  BY <1>1, <1>6, <1>7 DEF CountInv, InFlight
<1>9. CashInv'
  BY <1>1, <1>7 DEF CashInv, SameQuantities, FlightPnl
<1> QED
  BY <1>3, <1>4, <1>5, <1>8, <1>9

LEMMA CrashKeeps ==
  ASSUME IInv, Crash
  PROVE  IInv'
<1> USE DEF IInv
<1>1. /\ stack' = NoStack /\ request' = NoRequest
      /\ day' = day /\ broker' = broker /\ rows' = rows /\ saved' = saved
  BY DEF Crash
<1>2. ~stack'.up
  BY <1>1 DEF NoStack
<1>3. TypeOK'
  BY <1>1 DEF TypeOK
<1>4. TidyInv'
  BY <1>1, <1>2 DEF TidyInv
<1>5. WindowInv'
  BY <1>1, <1>2 DEF WindowInv
<1>6. CountInv' /\ CashInv'
  BY <1>2 DEF CountInv, CashInv
<1> QED
  BY <1>3, <1>4, <1>5, <1>6

LEMMA StepKeeps ==
  ASSUME IInv, [Next]_vars
  PROVE  IInv'
<1>1. CASE UNCHANGED vars
  <2>1. /\ day' = day /\ request' = request
        /\ broker' = broker /\ stack' = stack /\ rows' = rows /\ saved' = saved
    BY <1>1 DEF vars
  <2>2. RowsOfDay' = RowsOfDay /\ RowsOfWeek' = RowsOfWeek
    BY <2>1 DEF RowsOfDay, RowsOfWeek, CountedOn
  <2>3. \A S : Realized(S)' = Realized(S)
    BY <2>1 DEF Realized
  <2>4. TypeOK' /\ TidyInv' /\ WindowInv'
    BY <2>1 DEF IInv, TypeOK, TidyInv, WindowInv, CountedOn
  <2>5. CountInv' /\ CashInv'
    BY <2>1, <2>2, <2>3 DEF IInv, CountInv, CashInv, SameQuantities, InFlight,
                            FlightPnl
  <2> QED
    BY <2>4, <2>5 DEF IInv
<1>2. CASE Next
  BY <1>2, BuildKeeps, EnterKeeps, RefuseKeeps, FillKeeps, BrokerRejectsKeeps,
     RecordKeeps, MidnightKeeps, CrashKeeps DEF Next
<1> QED
  BY <1>1, <1>2

-----------------------------------------------------------------------------
(* The theorems.                                                           *)

LEMMA SpecInv == Spec => []IInv
<1>1. Init => IInv
  BY InitHolds
<1>2. IInv /\ [Next]_vars => IInv'
  BY StepKeeps
<1> QED
  BY <1>1, <1>2, PTL DEF Spec

\* Every counter the gate reads says what the journal says of its window, for
\* any number of midnights, weeks and restarts (_roll_risk_window and the
\* rebuilding in _stack_for).
THEOREM CountersAreTheJournals == Spec => []CountersFollowJournal
<1>1. IInv => CountersFollowJournal
  <2>1. SUFFICES ASSUME IInv, stack.up, request.stage # "filled"
                 PROVE  /\ stack.trades = Cardinality(RowsOfDay)
                        /\ stack.daily = Realized(RowsOfDay)
                        /\ stack.weekly = Realized(RowsOfWeek)
    BY DEF CountersFollowJournal
  <2>2. InFlight = 0
    BY <2>1 DEF InFlight
  <2>3. Cardinality(RowsOfDay) \in Nat
    BY <2>1, WindowsAre DEF IInv
  <2> QED
    BY <2>1, <2>2, <2>3 DEF IInv, CountInv
<1> QED
  BY <1>1, SpecInv, PTL

\* The simulated cash follows the P&L while the broker holds what the account
\* holds (MockBroker.get_account and restore_realized_pnl).
THEOREM CashIsTheJournals == Spec => []CashFollowsJournal
<1>1. IInv => CashFollowsJournal
  <2>1. SUFFICES ASSUME IInv, stack.up, request.stage # "filled",
                        ~broker.connected, ~broker.filledStop, SameQuantities
                 PROVE  broker.cash = StartingBalance + Realized(1 .. Len(rows))
    BY DEF CashFollowsJournal, SameQuantities
  <2>2. FlightPnl = 0
    BY <2>1 DEF FlightPnl
  <2>3. Realized(1 .. Len(rows)) \in Int
    BY <2>1, WindowsAre DEF IInv
  <2> QED
    BY <2>1, <2>2, <2>3, LimitsAreCounts DEF IInv, CashInv
<1> QED
  BY <1>1, SpecInv, PTL

\* An exit passes whatever the account has lost, traded or is halted for, and
\* is for something and for no more than is open (is_reducing, the clamp of
\* place_order and the entry-only block of evaluate).
THEOREM ExitsAlwaysPass == Spec => []ExitAlwaysOpen
<1>1. IInv => ExitAlwaysOpen
  <2>1. SUFFICES ASSUME IInv, stack.up, stack.rejections < MaxRejections,
                        NEW o \in Requests, Reducing(stack.book, o),
                        FillPrice(o) # o.stop
                 PROVE  /\ Passes(o, [Fine(o) EXCEPT !.halted = TRUE])
                        /\ Quantity(o) \in 1 .. Abs(stack.book[o.symbol].qty)
    BY DEF ExitAlwaysOpen
  <2>2. stack.book \in Books /\ broker.cash \in Int
    BY <2>1, StackIs DEF IInv, TypeOK, Stacks, Brokers
  <2>3. Quantity(o) \in 1 .. Abs(stack.book[o.symbol].qty)
    BY <2>1, <2>2, QuantityIs
  <2> DEFINE c == [Fine(o) EXCEPT !.halted = TRUE]
             p == Proposal(o, c)
  <2>4. /\ c.killed = FALSE /\ c.quote = o.entry /\ c.age = 0
        /\ c.volume = Unknown /\ c.healthy = TRUE /\ c.jump = FALSE
    BY DEF Fine
  <2> HIDE DEF c
  <2>5. /\ p.killed = FALSE /\ p.entry = FillPrice(o) /\ p.stop = o.stop
        /\ p.deviates = FALSE /\ p.reducing = TRUE /\ p.volume = Unknown
        /\ p.age = 0 /\ p.healthy = TRUE /\ p.jump = FALSE
        /\ p.rejections = stack.rejections
    <3>1. o.entry \in Nat /\ Abs(o.entry - c.quote) = 0
      BY <2>4, OrderIs DEF Abs
    <3>2. ~(Abs(o.entry - c.quote) * 100 > MaxEntryDeviationPct * c.quote)
      BY <2>4, <3>1, ProductOfNaturals, LimitsAreCounts
    <3> QED
      BY <2>1, <2>4, <3>2 DEF Proposal, MarketDataAge, Unknown
  <2> HIDE DEF p
  <2>6. ExecutionChecks(p)
    <3>1. p.age # Unknown /\ p.age <= MaxStaleness
      BY <2>5, LimitsAreCounts DEF Unknown
    <3>2. LiquidityChecks(p.quantity, p.volume)
      BY <2>5 DEF LiquidityChecks
    <3> QED
      BY <2>1, <2>5, <3>1, <3>2 DEF ExecutionChecks
  <2>7. Approved(p)
    BY <2>1, <2>5, <2>6 DEF Approved
  <2> QED
    BY <2>1, <2>3, <2>7 DEF Passes, p, c
<1> QED
  BY <1>1, SpecInv, PTL

-----------------------------------------------------------------------------
(* What a fill may take on.                                                *)

LEMMA ExposureChanges ==
  ASSUME NEW b \in Books, NEW c \in Books, NEW s \in Symbols,
         \A t \in Symbols \ {s} : c[t] = b[t]
  PROVE  /\ CurrentExposure(b) \in Int /\ CurrentExposure(c) \in Int
         /\ Notional(b, s) \in Nat /\ Notional(c, s) \in Nat
         /\ CurrentExposure(c) = CurrentExposure(b) + (Notional(c, s) - Notional(b, s))
<1> DEFINE f == [t \in Symbols |-> Notional(b, t) + Abs(Elsewhere[t])]
           h == [t \in Symbols |-> Notional(c, t) + Abs(Elsewhere[t])]
<1>1. \A t \in Symbols : Notional(b, t) \in Nat /\ Notional(c, t) \in Nat
  BY BookIs, AbsIs, ProductOfNaturals DEF Notional
<1>2. \A t \in Symbols : Abs(Elsewhere[t]) \in Nat
  BY OtherBooks, AbsIs
<1>3. \A t \in Symbols : f[t] \in Int /\ h[t] \in Int
  BY <1>1, <1>2
<1>4. \A t \in Symbols \ {s} : h[t] = f[t]
  BY DEF Notional
<1>5. h[s] - f[s] = Notional(c, s) - Notional(b, s)
  BY <1>1, <1>2
<1>6. CurrentExposure(b) = SumFunctionOnSet(f, Symbols)
      /\ CurrentExposure(c) = SumFunctionOnSet(h, Symbols)
  BY DEF CurrentExposure, SumFunction
<1> HIDE DEF f, h
<1>7. /\ SumFunctionOnSet(f, Symbols) \in Int /\ SumFunctionOnSet(h, Symbols) \in Int
      /\ SumFunctionOnSet(h, Symbols) + f[s] = SumFunctionOnSet(f, Symbols) + h[s]
  <2>1. IsFiniteSet(Symbols)
    BY SymbolsFinite
  <2>2. \A y \in Symbols : f[y] \in Int /\ h[y] \in Int
    BY <1>3
  <2>3. \A y \in Symbols \ {s} : h[y] = f[y]
    BY <1>4
  <2> QED
    BY <2>1, <2>2, <2>3, SumChanges
<1> QED
  BY <1>1, <1>3, <1>5, <1>6, <1>7

\* Adding to a position adds no more than what is bought, and closing some of
\* it takes some of it away.
LEMMA NotionalAfter ==
  ASSUME NEW position \in Position, NEW signed \in Int, NEW price \in Nat
  PROVE  LET now == Applied(position, signed, price).now
         IN  /\ position.qty * signed >= 0
                  => Abs(now.qty) * now.avg
                       <= Abs(position.qty) * position.avg + Abs(signed) * price
             /\ position.qty * signed < 0 /\ Abs(signed) <= Abs(position.qty)
                  => Abs(now.qty) * now.avg <= Abs(position.qty) * position.avg
<1> DEFINE p == position.qty
           a == position.avg
           now == Applied(position, signed, price).now
           qty == p + signed
           total == Abs(p) * a + Abs(signed) * price
           most == Max({Abs(qty), 1})
<1>1. p \in Int /\ a \in Nat /\ qty \in Int
  BY DEF Position
<1>2. Abs(p) \in Nat /\ Abs(signed) \in Nat /\ Abs(qty) \in Nat
  BY <1>1, AbsIs
<1>3. total \in Nat
  BY <1>1, <1>2, ProductOfNaturals
<1>4. most \in Nat \ {0} /\ Abs(qty) <= most
  <2> DEFINE y == Abs(qty)
  <2>1. y \in Nat
    BY <1>2
  <2> HIDE DEF y
  <2>2. Max({y, 1}) \in {y, 1} /\ Max({y, 1}) >= 1 /\ Max({y, 1}) >= y
    BY <2>1, MaxIs
  <2> QED
    BY <2>1, <2>2 DEF y
<1>5. ASSUME p * signed >= 0
      PROVE  Abs(now.qty) * now.avg <= total
  <2>1. now = [qty |-> qty, avg |-> total \div most]
    BY <1>5 DEF Applied
  <2> HIDE DEF total, most, qty, now
  <2>2. total \div most \in Nat /\ most * (total \div most) <= total
    BY <1>3, <1>4, DivIs
  <2>3. Abs(qty) * (total \div most) <= most * (total \div most)
    BY <1>2, <1>4, <2>2, ProductKeepsOrder
  <2>4. /\ Abs(qty) * (total \div most) \in Nat
        /\ most * (total \div most) \in Nat
    BY <1>2, <1>4, <2>2, ProductOfNaturals
  <2> QED
    BY <1>3, <2>1, <2>2, <2>3, <2>4
<1>6. ASSUME p * signed < 0, Abs(signed) <= Abs(p)
      PROVE  Abs(now.qty) * now.avg <= Abs(p) * a
  <2>1. ~(p * signed >= 0)
    BY <1>1, <1>6
  <2>2. now = IF qty = 0 THEN Flat
              ELSE [qty |-> qty, avg |-> IF qty * signed > 0 THEN price ELSE a]
    BY <2>1 DEF Applied
  <2>3. \/ p > 0 /\ signed < 0
        \/ p < 0 /\ signed > 0
    BY <1>1, <1>6
  <2>4. /\ qty = 0 \/ (p > 0 /\ qty > 0) \/ (p < 0 /\ qty < 0)
        /\ Abs(qty) <= Abs(p)
    BY <1>1, <1>6, <2>3 DEF Abs
  <2>5. ~(qty * signed > 0)
    <3> HIDE DEF p, qty
    <3>1. CASE qty = 0
      BY <3>1
    <3>2. CASE qty > 0 /\ signed < 0
      BY <1>1, <3>2
    <3>3. CASE qty < 0 /\ signed > 0
      BY <1>1, <3>3
    <3> QED
      BY <1>1, <2>3, <2>4, <3>1, <3>2, <3>3
  <2>6. Abs(p) * a \in Nat
    BY <1>1, <1>2, ProductOfNaturals
  <2>7. CASE qty = 0
    <3>1. Abs(now.qty) * now.avg = 0
      BY <2>2, <2>7 DEF Flat, Abs
    <3> QED
      BY <2>6, <3>1
  <2>8. CASE qty # 0
    <3>1. now.qty = qty /\ now.avg = a
      BY <2>2, <2>5, <2>8
    <3> HIDE DEF p, a, qty, now
    <3> QED
      BY <1>1, <1>2, <2>4, <3>1, ProductKeepsOrder
  <2> QED
    BY <2>7, <2>8
<1> QED
  BY <1>5, <1>6

\* What the gate approved is what the fill takes on, at the price approved.
LEMMA FillStays ==
  ASSUME IInv, Fill,
         CurrentExposure(stack'.book) > CurrentExposure(stack.book),
         NEW o \in Requests, NEW paid \in Prices, Taken(o, paid)
  PROVE  /\ (CurrentExposure(stack'.book)
                - Quantity(o) * Max({Above(o, paid), 0})) * 100
              <= MaxExposurePct * broker.cash
         /\ Loss(stack.daily) * 100 < MaxDailyLossPct * broker.cash
         /\ Loss(stack.weekly) * 100 < MaxWeeklyLossPct * broker.cash
         /\ Cardinality(Held(stack'.book)) <= MaxOpenPositions
<1>1. /\ ~Never(o)
      /\ stack' = [stack EXCEPT !.book[o.symbol] =
                     Applied(stack.book[o.symbol], Direction(o) * Quantity(o),
                             paid).now,
                   !.trades = @ + 1, !.rejections = 0]
  BY DEF Taken
<1> DEFINE x == o.symbol
           q == Direction(o) * Quantity(o)
           price == FillPrice(o)
           pos == stack.book[x]
           now == Applied(pos, q, paid).now
           above == Max({Above(o, paid), 0})
<1>2. request.stage = "entered"
  BY DEF Fill
<1>3. request # NoRequest
  BY <1>2 DEF NoRequest
<1>4. stack.up /\ stack \in Stacks /\ broker.cash \in Int
  <2>1. stack.up
    BY <1>3 DEF IInv, WindowInv
  <2> QED
    BY <2>1, StackIs DEF IInv, TypeOK, Brokers
<1>5. stack.book \in Books
  BY <1>4 DEF Stacks
<1>6. /\ x \in Symbols /\ price \in Nat \ {0} /\ Quantity(o) \in Nat
      /\ paid \in Nat
      /\ Direction(o) \in {1, -1}
      /\ Reducing(stack.book, o) => Quantity(o) \in 1 .. Abs(pos.qty)
  BY <1>4, <1>5, QuantityIs, OrderIs, PricesPositive
<1>27. above \in Nat /\ paid <= price + above
  <2>1. Above(o, paid) = paid - price
    BY OrderIs DEF Above
  <2> DEFINE y == Above(o, paid)
  <2>2. y \in Int /\ y = paid - price
    BY <1>6, <2>1
  <2>3. Max({y, 0}) \in {y, 0} /\ Max({y, 0}) >= y /\ Max({y, 0}) >= 0
    <3> HIDE DEF y
    <3>1. y \in Int /\ 0 \in Int
      BY <2>2
    <3> QED
      BY ONLY <3>1, MaxIs
  <2> QED
    BY <1>6, <2>2, <2>3
<1>7. pos \in Position /\ pos.qty \in Int /\ pos.avg \in Nat
  BY <1>5, <1>6, BookIs
<1>8. q \in Int /\ Abs(q) = Quantity(o)
  <2>1. CASE Direction(o) = 1
    BY <1>6, <2>1 DEF Abs
  <2>2. CASE Direction(o) = -1
    BY <1>6, <2>2 DEF Abs
  <2> QED
    BY <1>6, <2>1, <2>2
<1>9. Reducing(stack.book, o) <=> pos.qty * Direction(o) < 0
  BY DEF Reducing
<1>10. now \in Position
  BY <1>6, <1>7, <1>8, AppliedIs
<1>11. /\ stack'.book = [stack.book EXCEPT ![x] = now]
       /\ stack'.book \in Books /\ stack'.book[x] = now
       /\ \A t \in Symbols \ {x} : stack'.book[t] = stack.book[t]
  <2>1. stack'.book = [stack.book EXCEPT ![x] = now]
    BY <1>1, <1>4, <1>6 DEF Stacks
  <2> HIDE DEF now
  <2> QED
    BY <1>5, <1>6, <1>10, <2>1 DEF Books
<1>12. PICK b, c : b = stack.book /\ c = stack'.book
  OBVIOUS
<1>13. /\ CurrentExposure(b) \in Int /\ CurrentExposure(c) \in Int
       /\ Notional(b, x) \in Nat /\ Notional(c, x) \in Nat
       /\ CurrentExposure(c) = CurrentExposure(b) + (Notional(c, x) - Notional(b, x))
  <2>1. b \in Books /\ c \in Books /\ \A t \in Symbols \ {x} : c[t] = b[t]
    BY <1>5, <1>11, <1>12
  <2> HIDE DEF x
  <2> QED
    BY <1>6, <2>1, ExposureChanges
<1>14. /\ Notional(b, x) = Abs(pos.qty) * pos.avg
       /\ Notional(c, x) = Abs(now.qty) * now.avg
  BY <1>11, <1>12 DEF Notional
<1>15. /\ pos.qty * q >= 0
            => Abs(now.qty) * now.avg <= Abs(pos.qty) * pos.avg + Abs(q) * paid
       /\ pos.qty * q < 0 /\ Abs(q) <= Abs(pos.qty)
            => Abs(now.qty) * now.avg <= Abs(pos.qty) * pos.avg
  BY <1>6, <1>7, <1>8, NotionalAfter
<1>16. CurrentExposure(c) > CurrentExposure(b)
  BY <1>12
<1> HIDE DEF now, x, pos, price, above
<1>17. ~Reducing(stack.book, o)
  <2>1. SUFFICES ASSUME Reducing(stack.book, o) PROVE FALSE
    OBVIOUS
  <2>2. pos.qty * Direction(o) < 0 /\ Quantity(o) \in 1 .. Abs(pos.qty)
    BY <1>6, <1>9, <2>1
  <2>3. pos.qty * q < 0
    <3>1. CASE Direction(o) = 1 /\ pos.qty < 0
      BY <1>6, <1>7, <2>2, <3>1
    <3>2. CASE Direction(o) = -1 /\ pos.qty > 0
      BY <1>6, <1>7, <2>2, <3>2
    <3> QED
      BY <1>6, <1>7, <2>2, <3>1, <3>2
  <2> HIDE DEF q
  <2>4. Abs(q) <= Abs(pos.qty)
    BY <1>7, <1>8, <2>2, AbsIs
  <2>5. Notional(c, x) <= Notional(b, x)
    BY <1>14, <1>15, <2>3, <2>4
  <2> QED
    BY <1>13, <1>16, <2>5
<1>18. pos.qty * q >= 0
  <2>1. ~(pos.qty * Direction(o) < 0)
    BY <1>9, <1>17
  <2>2. CASE Direction(o) = 1
    BY <1>6, <1>7, <2>1, <2>2
  <2>3. CASE Direction(o) = -1
    BY <1>6, <1>7, <2>1, <2>3
  <2> QED
    BY <1>6, <2>2, <2>3
<1> HIDE DEF q
<1>19. Notional(c, x) <= Notional(b, x) + Quantity(o) * paid
  BY <1>8, <1>14, <1>15, <1>18
<1>20. CurrentExposure(c) - Quantity(o) * above
         <= CurrentExposure(b) + Quantity(o) * price
  <2>1. /\ Quantity(o) * price \in Nat /\ Quantity(o) * above \in Nat
        /\ Quantity(o) * paid \in Nat
    BY <1>6, <1>27, ProductOfNaturals
  <2>2. Quantity(o) * (price + above) = Quantity(o) * price + Quantity(o) * above
    BY <1>6, <1>27
  <2>3. Quantity(o) * paid <= Quantity(o) * (price + above)
    <3>1. PICK k \in Nat : k = Quantity(o)
      BY <1>6
    <3>2. k * paid <= k * (price + above)
      BY <1>6, <1>27, ProductKeepsOrder
    <3> QED
      BY <3>1, <3>2
  <2> QED
    BY <1>13, <1>19, <2>1, <2>2, <2>3
<1>21. PICK w \in Conditions(o) : Approved(Proposal(o, w))
  BY <1>1 DEF Never, Passes
<1> DEFINE p == Proposal(o, w)
<1>22. /\ p.reducing <=> Reducing(stack.book, o)
       /\ p.balance = broker.cash /\ p.daily = stack.daily /\ p.weekly = stack.weekly
       /\ p.exposure = CurrentExposure(b) /\ p.quantity = Quantity(o)
       /\ p.entry = price /\ p.open = Cardinality(Held(b))
  BY <1>12 DEF Proposal, price
<1> HIDE DEF p
<1>23. BalanceChecks(p) /\ CountChecks(p)
  BY <1>17, <1>21, <1>22 DEF Approved, p
<1>24. /\ Loss(stack.daily) * 100 < MaxDailyLossPct * broker.cash
       /\ Loss(stack.weekly) * 100 < MaxWeeklyLossPct * broker.cash
       /\ (CurrentExposure(b) + Quantity(o) * price) * 100
            <= MaxExposurePct * broker.cash
  BY <1>22, <1>23 DEF BalanceChecks, Percent
<1>25. (CurrentExposure(c) - Quantity(o) * above) * 100
         <= MaxExposurePct * broker.cash
  <2>1. Quantity(o) * price \in Nat /\ Quantity(o) * above \in Nat /\ MaxExposurePct * broker.cash \in Int
    BY <1>4, <1>6, <1>27, ProductOfNaturals, LimitsAreCounts
  <2> QED
    BY <1>13, <1>20, <1>24, <2>1
<1>26. Cardinality(Held(c)) <= MaxOpenPositions
  <2>1. IsFiniteSet(Held(b)) /\ Cardinality(Held(b)) \in Nat
    <3>1. Held(b) \in SUBSET Symbols
      BY DEF Held
    <3>2. IsFiniteSet(Held(b))
      BY <3>1, SymbolsFinite, FS_Subset
    <3> QED
      BY <3>2, FS_CardinalityType
  <2>2. Held(c) \in SUBSET (Held(b) \cup {x})
    BY <1>11, <1>12 DEF Held
  <2>3. /\ IsFiniteSet(Held(b) \cup {x})
        /\ Cardinality(Held(b) \cup {x}) <= Cardinality(Held(b)) + 1
        /\ Cardinality(Held(b) \cup {x}) \in Nat
    <3>1. /\ IsFiniteSet(Held(b) \cup {x})
          /\ Cardinality(Held(b) \cup {x}) = IF x \in Held(b)
                                            THEN Cardinality(Held(b))
                                            ELSE Cardinality(Held(b)) + 1
      BY <2>1, FS_AddElement
    <3> QED
      BY <2>1, <3>1
  <2>4. Cardinality(Held(c)) <= Cardinality(Held(b) \cup {x})
        /\ Cardinality(Held(c)) \in Nat
    BY <2>2, <2>3, FS_Subset, FS_CardinalityType
  <2>5. Cardinality(Held(b)) < MaxOpenPositions /\ MaxOpenPositions \in Nat
    BY <1>22, <1>23, LimitsAreCounts DEF CountChecks
  <2> QED
    BY <2>1, <2>3, <2>4, <2>5
<1> QED
  BY <1>12, <1>24, <1>25, <1>26 DEF above

\* A fill that adds to the gross exposure leaves it within the cap, save for
\* what the broker charged above the order's price, on an account that has lost
\* less than its limits and has room for one position more (fill_price, the
\* sizing and the entry-only block of evaluate).
THEOREM FillsStayWithinLimits == Spec => FillsWithinLimits
<1>1. IInv /\ [Next]_vars
        => [ Fill /\ CurrentExposure(stack'.book) > CurrentExposure(stack.book)
              => \A o \in Requests, price \in Prices : Taken(o, price)
                   => /\ (CurrentExposure(stack'.book)
                             - Quantity(o) * Max({Above(o, price), 0})) * 100
                           <= MaxExposurePct * broker.cash
                      /\ Loss(stack.daily) * 100 < MaxDailyLossPct * broker.cash
                      /\ Loss(stack.weekly) * 100 < MaxWeeklyLossPct * broker.cash
                      /\ Cardinality(Held(stack'.book)) <= MaxOpenPositions ]_vars
  BY FillStays
<1> QED
  BY <1>1, SpecInv, PTL DEF Spec, FillsWithinLimits
====
