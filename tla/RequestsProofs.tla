--------------------------- MODULE RequestsProofs ---------------------------
(***************************************************************************)
(* Proofs about what the app sends to Decathlon: the row of a product      *)
(* import (ProductPayload), the amounts of a refund (RefundAmounts), for   *)
(* orders, webhooks and catalogues of any length, and the request that     *)
(* carries them (HttpClient), for any number of retries.                   *)
(***************************************************************************)
EXTENDS HttpClient, RefundAmounts, ProductPayload, TLAPS, WellFoundedInduction,
        SequenceTheorems

-----------------------------------------------------------------------------
(* Induction, in first-order form: a set of numbers, not a predicate.  A   *)
(* set of numbers has a least element since < is well-founded on Nat.      *)

LessThan == {ss \in Nat \X Nat : ss[1] < ss[2]}

LEMMA LessThanWellFounded == IsWellFoundedOn(LessThan, Nat)
  <1>1. OpToRel(<, Nat) = LessThan
    BY DEF OpToRel, LessThan
  <1>2. QED
    BY ONLY <1>1, NatLessThanWellFounded

(* A set of natural numbers has a least element.                           *)
LEMMA LeastExists ==
  ASSUME NEW T, T \subseteq Nat, T # {}
  PROVE  \E x \in T : \A y \in T : x <= y
  <1>1. PICK x \in T : \A y \in T : ~(<<y, x>> \in LessThan)
    BY ONLY T \subseteq Nat, T # {}, LessThanWellFounded, WFMin
  <1>2. \A y \in T : y < x => <<y, x>> \in LessThan
    BY DEF LessThan
  <1>3. \A y \in T : ~(y < x)
    BY Zenon, <1>1, <1>2
  <1>4. QED
    BY <1>3

(* Induction over the natural numbers, for a set.                          *)
LEMMA NatInduct ==
  ASSUME NEW S, 0 \in S, \A n \in Nat : n \in S => n + 1 \in S
  PROVE  Nat \subseteq S
  <1>1. SUFFICES ASSUME Nat \ S # {} PROVE FALSE
    OBVIOUS
  <1>2. PICK x \in Nat \ S : \A y \in Nat \ S : x <= y
    <2>1. Nat \ S \subseteq Nat
      OBVIOUS
    <2>2. QED
      BY ONLY <1>1, <2>1, LeastExists
  <1>3. x # 0 /\ x - 1 \in Nat /\ x - 1 \notin S
    BY <1>2
  <1>4. QED
    BY <1>2, <1>3

LEMMA MinIsLeast ==
  ASSUME NEW T, T \subseteq Nat, T # {}
  PROVE  Min(T) \in T
  <1>1. \E x \in T : \A y \in T : x <= y
    BY LeastExists
  <1>2. QED
    BY Zenon, <1>1 DEF Min

(* What a loop computes: a list of results, each from the one before. *)
Runs(A, start, step, n) ==
    {f \in [0..n -> A] : f[0] = start /\ \A k \in 1..n : f[k] = step[k][f[k - 1]]}

(* A loop has a run.                                                       *)
LEMMA Iterates ==
  ASSUME NEW A, NEW start \in A, NEW step \in [Nat -> [A -> A]], NEW n \in Nat
  PROVE  Runs(A, start, step, n) # {}
  <1> DEFINE Good(f, m) == f[0] = start /\ \A k \in 1..m : f[k] = step[k][f[k - 1]]
             S == {m \in Nat : \E f \in [0..m -> A] : Good(f, m)}
  <1>1. 0 \in S
    <2>1. [k \in 0..0 |-> start] \in [0..0 -> A] /\ Good([k \in 0..0 |-> start], 0)
      OBVIOUS
    <2>2. QED
      BY <2>1
  <1>2. ASSUME NEW m \in Nat, m \in S PROVE m + 1 \in S
    <2>1. PICK f \in [0..m -> A] : Good(f, m)
      BY <1>2
    <2> DEFINE g == [k \in 0..(m + 1) |-> IF k <= m THEN f[k] ELSE step[m + 1][f[m]]]
    <2>2. g \in [0..(m + 1) -> A]
      <3>1. f[m] \in A /\ step[m + 1] \in [A -> A]
        OBVIOUS
      <3>2. step[m + 1][f[m]] \in A
        BY <3>1
      <3>3. QED
        BY <3>2
    <2>3. g[0] = start
      BY <2>1
    <2>4. ASSUME NEW k \in 1..(m + 1) PROVE g[k] = step[k][g[k - 1]]
      <3>1. CASE k <= m
        BY <3>1, <2>1
      <3>2. CASE k = m + 1
        BY <3>2
      <3>3. QED
        BY <3>1, <3>2
    <2>5. Good(g, m + 1)
      BY <2>3, <2>4
    <2> HIDE DEF Good, g
    <2>6. QED
      BY <2>2, <2>5
  <1> HIDE DEF S
  <1>3. Nat \subseteq S
    BY <1>1, <1>2, NatInduct
  <1>4. n \in S
    BY <1>3
  <1>5. QED
    BY <1>4 DEF S, Runs

(* Induction over the steps of a loop, for a set of steps.                 *)
LEMMA HoldsThroughout ==
  ASSUME NEW n \in Nat, NEW S, 0 \in S, \A k \in 1..n : k - 1 \in S => k \in S
  PROVE  0..n \subseteq S
  <1> DEFINE T == {k \in Nat : k <= n => k \in S}
  <1>1. 0 \in T
    OBVIOUS
  <1>2. ASSUME NEW k \in Nat, k \in T PROVE k + 1 \in T
    <2>1. SUFFICES ASSUME k + 1 <= n PROVE k + 1 \in S
      OBVIOUS
    <2>2. k + 1 \in 1..n /\ (k + 1) - 1 = k /\ k \in S
      BY <1>2, <2>1
    <2>3. QED
      BY <2>2
  <1> HIDE DEF T
  <1>3. Nat \subseteq T
    BY <1>1, <1>2, NatInduct
  <1>4. QED
    BY <1>3 DEF T

(* What n steps from start end with. *)
Results(A, start, step, n) == {f[n] : f \in Runs(A, start, step, n)}

LEMMA ResultsTyped ==
  ASSUME NEW A, NEW start, NEW step, NEW n \in Nat
  PROVE  Results(A, start, step, n) \subseteq A
  BY DEF Results, Runs

(* A fold unfolds into the steps it takes, one element after the other.    *)
LEMMA Unfolds ==
  ASSUME NEW A, NEW start \in A, NEW step \in [Nat -> [A -> A]], NEW n \in Nat, NEW fold,
         fold[{}] = start,
         \A k \in 1..n : fold[1..(k - 1)] \in A => fold[1..k] = step[k][fold[1..(k - 1)]]
  PROVE  fold[1..n] \in Results(A, start, step, n)
  <1> DEFINE after == [k \in 0..n |-> fold[1..k]]
             Typed == {k \in 0..n : after[k] \in A}
  <1>1. after[0] = start /\ 0 \in Typed
    <2>1. 1..0 = {}
      OBVIOUS
    <2>2. QED
      BY <2>1
  <1>2. \A k \in 1..n : k \in Nat /\ k \in 0..n /\ k - 1 \in 0..n
    OBVIOUS
  <1>3. ASSUME NEW k \in 1..n, k - 1 \in Typed
        PROVE  after[k] = step[k][after[k - 1]] /\ k \in Typed
    <2>1. k \in Nat /\ k \in 0..n /\ after[k - 1] = fold[1..(k - 1)] /\ after[k - 1] \in A
          /\ after[k] = fold[1..k]
      BY <1>2, <1>3
    <2> HIDE DEF after
    <2>2. after[k] = step[k][after[k - 1]]
      BY <2>1
    <2>3. step[k] \in [A -> A]
      BY <2>1
    <2>4. QED
      BY <2>1, <2>2, <2>3
  <1>4. after[n] = fold[1..n]
    OBVIOUS
  <1> HIDE DEF after, Typed
  <1>5. 0..n \subseteq Typed
    BY <1>1, <1>3, HoldsThroughout
  <1>6. after \in [0..n -> A]
    BY <1>5 DEF after, Typed
  <1>7. ASSUME NEW k \in 1..n PROVE after[k] = step[k][after[k - 1]]
    BY <1>2, <1>3, <1>5
  <1>8. after \in Runs(A, start, step, n)
    BY <1>1, <1>6, <1>7 DEF Runs
  <1>9. QED
    BY <1>4, <1>8 DEF Results

(* A fold over a list goes through it from the left: its results, one      *)
(* after the other.                                                        *)
LEMMA MaxOfPrefix ==
  ASSUME NEW n \in Nat, n > 0
  PROVE  Max(1..n) = n
  BY DEF Max

(* The fold of n elements over any subset of their positions, as FoldLeft  *)
(* computes it.                                                            *)
Folds(A, start, step, n) ==
    {f \in [SUBSET (1..n) -> A] : \A s \in SUBSET (1..n) :
        f[s] = IF s = {} THEN start ELSE step[Max(s)][f[s \ {Max(s)}]]}

LEMMA MaxIn ==
  ASSUME NEW n \in Nat, NEW s \in SUBSET (1..n), s # {}
  PROVE  Max(s) \in s /\ \A y \in s : y <= Max(s)
  <1> DEFINE T == {n - y : y \in s}
  <1>1. T \subseteq Nat /\ T # {}
    <2>1. \A y \in s : n - y \in Nat
      OBVIOUS
    <2>2. QED
      BY <2>1
  <1>2. PICK z \in T : \A y \in T : z <= y
    <2> HIDE DEF T
    <2>1. QED
      BY <1>1, LeastExists
  <1>3. PICK x \in s : z = n - x
    BY <1>2
  <1>5. ASSUME NEW y \in s PROVE x >= y
    <2>1. n - y \in T /\ y \in Int /\ x \in Int
      OBVIOUS
    <2>2. z <= n - y
      BY <1>2, <2>1
    <2>3. QED
      BY <1>3, <2>1, <2>2
  <1>6. \E w \in s : \A y \in s : w >= y
    BY <1>5
  <1>7. Max(s) \in s /\ \A y \in s : Max(s) >= y
    BY Zenon, <1>6 DEF Max
  <1>8. QED
    BY <1>7

(* The function FoldLeft chooses exists, which CHOOSE alone does not say.  *)
LEMMA FoldsExist ==
  ASSUME NEW A, NEW start \in A, NEW step \in [Nat -> [A -> A]], NEW n \in Nat
  PROVE  Folds(A, start, step, n) # {}
  <1> DEFINE S == {m \in Nat : Folds(A, start, step, m) # {}}
  <1>1. 0 \in S
    <2>1. SUBSET (1..0) = {{}}
      OBVIOUS
    <2>2. [s \in SUBSET (1..0) |-> start] \in Folds(A, start, step, 0)
      BY <2>1 DEF Folds
    <2>3. QED
      BY <2>2
  <1>2. ASSUME NEW m \in Nat, m \in S PROVE m + 1 \in S
    <2>1. PICK f : f \in Folds(A, start, step, m)
      BY <1>2
    <2>2. f \in [SUBSET (1..m) -> A]
      BY <2>1 DEF Folds
    <2> DEFINE g == [s \in SUBSET (1..(m + 1)) |->
                       IF m + 1 \in s THEN step[m + 1][f[s \ {m + 1}]] ELSE f[s]]
    <2>3. ASSUME NEW s \in SUBSET (1..(m + 1))
          PROVE  /\ s \ {m + 1} \in SUBSET (1..m)
                 /\ m + 1 \notin s => s \in SUBSET (1..m)
                 /\ m + 1 \in s => Max(s) = m + 1
      <3>1. ASSUME m + 1 \in s PROVE Max(s) = m + 1
        <4>1. m + 1 \in Nat /\ s # {}
          BY <3>1
        <4>2. Max(s) \in s /\ \A y \in s : y <= Max(s)
          BY <4>1, MaxIn
        <4>3. Max(s) \in 1..(m + 1) /\ m + 1 <= Max(s)
          BY <4>2, <3>1
        <4>4. QED
          BY <4>3
      <3>2. QED
        BY <3>1
    <2>4. g \in [SUBSET (1..(m + 1)) -> A]
      <3>1. ASSUME NEW s \in SUBSET (1..(m + 1)) PROVE g[s] \in A
        <4>1. CASE m + 1 \in s
          <5>1. f[s \ {m + 1}] \in A /\ step[m + 1] \in [A -> A]
            BY <2>2, <2>3
          <5>2. QED
            BY <4>1, <5>1
        <4>2. CASE m + 1 \notin s
          BY <4>2, <2>2, <2>3
        <4>3. QED
          BY <4>1, <4>2
      <3>2. QED
        BY <3>1
    <2>5. ASSUME NEW s \in SUBSET (1..(m + 1))
          PROVE  g[s] = IF s = {} THEN start ELSE step[Max(s)][g[s \ {Max(s)}]]
      <3>1. CASE m + 1 \in s
        <4>1. Max(s) = m + 1 /\ s # {} /\ s \ {m + 1} \in SUBSET (1..(m + 1))
          BY <3>1, <2>3
        <4>2. g[s \ {m + 1}] = f[s \ {m + 1}]
          BY <4>1
        <4>3. QED
          BY <3>1, <4>1, <4>2
      <3>2. CASE m + 1 \notin s
        <4>1. f[s] = IF s = {} THEN start ELSE step[Max(s)][f[s \ {Max(s)}]]
          BY <3>2, <2>1, <2>3 DEF Folds
        <4>2. g[s] = f[s]
          BY <3>2
        <4>3. g[s \ {Max(s)}] = f[s \ {Max(s)}]
          BY <3>2
        <4>4. QED
          BY <4>1, <4>2, <4>3
      <3>3. QED
        BY <3>1, <3>2
    <2>6. g \in Folds(A, start, step, m + 1)
      <3> HIDE DEF g
      <3>1. QED
        BY <2>4, <2>5 DEF Folds
    <2>7. QED
      BY <2>6
  <1> HIDE DEF S
  <1>3. Nat \subseteq S
    BY <1>1, <1>2, NatInduct
  <1>4. QED
    BY <1>3 DEF S

LEMMA Prefix ==
  ASSUME NEW n \in Nat, NEW k \in 1..n
  PROVE  /\ 1..k \in SUBSET (1..n) /\ 1..k # {} /\ (1..k) \ {k} = 1..(k - 1)
         /\ Max(1..k) = k
  <1>1. k \in Nat /\ k > 0
    OBVIOUS
  <1>2. Max(1..k) = k
    BY <1>1, MaxOfPrefix
  <1>3. 1..k \in SUBSET (1..n) /\ k \in 1..k
    OBVIOUS
  <1>4. ASSUME NEW x PROVE x \in (1..k) \ {k} <=> x \in 1..(k - 1)
    BY <1>1
  <1>5. QED
    BY <1>2, <1>3, <1>4

-----------------------------------------------------------------------------
(* Categories. *)

LEMMA UpIs == \A c \in Categories :
    /\ Up(c) = IF Parent[c] \in Categories THEN Parent[c] ELSE c
    /\ Up(c) \in Categories
  BY DEF Up, Find, Categories

(* The loop's chain is there, and ends where the tree does. *)
LEMMA Chain ==
  ASSUME NEW c \in Categories
  PROVE  \E up \in [0..MaxDepth -> Categories] :
            /\ up[0] = c
            /\ \A i \in 1..MaxDepth : up[i] = Up(up[i - 1])
            /\ AncestorCodes(c) = {up[i] : i \in 0..MaxDepth} \ {c}
  <1> DEFINE Climbs(up) == up = [i \in 0..MaxDepth |-> IF i = 0 THEN c ELSE Up(up[i - 1])]
             chain == CHOOSE up : Climbs(up)
  <1>0. MaxDepth \in Nat
    BY DEF MaxDepth
  <1>1. PICK f \in [0..MaxDepth -> Categories] :
           f[0] = c /\ \A k \in 1..MaxDepth : f[k] = Up(f[k - 1])
    <2> DEFINE step == [k \in Nat |-> [d \in Categories |-> Up(d)]]
    <2>1. step \in [Nat -> [Categories -> Categories]]
      BY UpIs
    <2> HIDE DEF step
    <2>2. Runs(Categories, c, step, MaxDepth) # {}
      BY ONLY <1>0, <2>1, Iterates, c \in Categories
    <2>3. \A k \in 1..MaxDepth : k \in Nat /\ k - 1 \in 0..MaxDepth
      BY <1>0
    <2>4. QED
      BY <2>2, <2>3 DEF step, Runs
  <1>2. Climbs(f)
    BY <1>1 DEF MaxDepth
  <1>3. Climbs(chain)
    BY <1>2
  <1>4. AncestorCodes(c) = {chain[i] : i \in 0..MaxDepth} \ {c}
    BY DEF AncestorCodes
  <1> HIDE DEF chain
  <1>5. chain[0] = c /\ \A i \in 1..MaxDepth : chain[i] = Up(chain[i - 1])
    BY <1>3 DEF MaxDepth
  <1>6. \A i \in 0..MaxDepth : chain[i] \in Categories
    <2> DEFINE S == {i \in 0..MaxDepth : chain[i] \in Categories}
    <2>1. 0 \in S
      BY <1>5 DEF MaxDepth
    <2>2. \A k \in 1..MaxDepth : k - 1 \in S => k \in S
      BY <1>5, UpIs
    <2> HIDE DEF S
    <2>3. 0..MaxDepth \subseteq S
      BY <2>1, <2>2, HoldsThroughout DEF MaxDepth
    <2>4. QED
      BY <2>3 DEF S
  <1>7. chain \in [0..MaxDepth -> Categories]
    BY <1>3, <1>6
  <1>8. QED
    BY <1>4, <1>5, <1>7

(* A category is attached to no other definitions than its lineage's: the  *)
(* loop reaches every category above.                                      *)
LEMMA LineageReached ==
  ASSUME NEW c \in Categories
  PROVE  Lineage(c) \subseteq {c} \cup AncestorCodes(c)
  <1>0. MaxDepth \in Nat
    BY DEF MaxDepth
  <1>1. PICK up \in [0..MaxDepth -> Categories] :
            /\ up[0] = c
            /\ \A i \in 1..MaxDepth : up[i] = Up(up[i - 1])
            /\ AncestorCodes(c) = {up[i] : i \in 0..MaxDepth} \ {c}
    BY Chain
  <1>2. PICK height \in [Categories -> 0..MaxDepth] : \A d \in Categories :
           Parent[d] \in Categories => height[Parent[d]] < height[d]
    BY CatalogAssumption
  <1> DEFINE Done(d) == Parent[d] \notin Categories
             S == {i \in 0..MaxDepth : Done(up[i]) \/ height[up[i]] <= MaxDepth - i}
             R == {up[i] : i \in 0..MaxDepth}
  <1>3. 0..MaxDepth \subseteq S
    <2>1. 0 \in S
      BY <1>2 DEF MaxDepth
    <2>2. ASSUME NEW k \in 1..MaxDepth, k - 1 \in S PROVE k \in S
      <3>0. k - 1 \in 0..MaxDepth /\ k \in 0..MaxDepth
        BY <1>0
      <3>1. CASE Done(up[k - 1])
        BY <3>1, <3>0, <1>1, UpIs
      <3>2. CASE ~Done(up[k - 1])
        <4>1. up[k] = Parent[up[k - 1]] /\ up[k - 1] \in Categories /\ up[k] \in Categories
          BY <3>2, <3>0, <1>1, UpIs
        <4>2. height[up[k]] < height[up[k - 1]] /\ height[up[k - 1]] <= MaxDepth - (k - 1)
          BY <4>1, <3>2, <3>0, <2>2, <1>2
        <4>3. height[up[k]] \in Int /\ height[up[k - 1]] \in Int
          BY <4>1, <1>2
        <4>4. QED
          BY <4>2, <4>3, <3>0, <1>0
      <3>3. QED
        BY <3>1, <3>2
    <2> HIDE DEF S
    <2>3. QED
      BY <2>1, <2>2, HoldsThroughout DEF MaxDepth
  <1>4. ASSUME NEW d \in R, Parent[d] \in Categories PROVE Parent[d] \in R
    <2>1. PICK i \in 0..MaxDepth : d = up[i]
      OBVIOUS
    <2>2. CASE i < MaxDepth
      <3>1. i + 1 \in 1..MaxDepth /\ (i + 1) - 1 = i
        BY <2>2 DEF MaxDepth
      <3>2. up[i + 1] = Parent[d]
        BY <3>1, <2>1, <1>1, <1>4, UpIs
      <3>3. QED
        BY <3>1, <3>2
    <2>3. CASE i = MaxDepth
      <3>1. height[d] <= 0
        BY <1>3, <1>4, <2>1, <2>3 DEF MaxDepth
      <3>2. height[Parent[d]] < height[d] /\ height[Parent[d]] \in 0..MaxDepth /\ height[d] \in 0..MaxDepth
        BY <1>2, <1>4
      <3>3. QED
        BY <3>1, <3>2 DEF MaxDepth
    <2>4. QED
      BY <2>2, <2>3 DEF MaxDepth
  <1>5. c \in R /\ R \in SUBSET Categories
    BY <1>1 DEF MaxDepth
  <1>6. Lineage(c) \subseteq R
    BY <1>4, <1>5 DEF Lineage
  <1>7. R \subseteq {c} \cup AncestorCodes(c)
    BY <1>1
  <1>8. QED
    BY <1>6, <1>7

-----------------------------------------------------------------------------
(* Attributes. *)

Applicable(c) == {i \in DOMAIN Attributes :
    Attributes[i].required /\ Attributes[i].hierarchy \in {"", c} \cup AncestorCodes(c)}

LEMMA FirstIs ==
  ASSUME NEW among \in SUBSET DOMAIN Attributes, NEW i \in among
  PROVE  \E j \in among : /\ First(Attributes[i].code, among) = Attributes[j]
                         /\ Attributes[j].code = Attributes[i].code
  <1> DEFINE T == {j \in among : Defines(j, Attributes[i].code)}
  <1>1. i \in T
    BY DEF Defines
  <1>2. DOMAIN Attributes \subseteq Nat
    BY CatalogAssumption
  <1>3. T \subseteq Nat /\ T # {}
    BY <1>1, <1>2
  <1>4. First(Attributes[i].code, among) = Attributes[Min(T)]
    BY DEF First
  <1> HIDE DEF T
  <1>5. Min(T) \in T
    BY <1>3, MinIsLeast
  <1>6. QED
    BY <1>4, <1>5 DEF T, Defines

LEMMA RequiredIs ==
  ASSUME NEW c
  PROVE  RequiredAttributes(c) = {First(Attributes[i].code, Applicable(c)) : i \in Applicable(c)}
  BY DEF RequiredAttributes, Applicable

(* What is required of an applicable definition is some definition of its  *)
(* code, and there is one per code.                                        *)
LEMMA RequiredOnce ==
  ASSUME NEW c
  PROVE  /\ \A i \in Applicable(c) :
                First(Attributes[i].code, Applicable(c)) \in RequiredAttributes(c)
         /\ \A i \in Applicable(c) :
                First(Attributes[i].code, Applicable(c)).code = Attributes[i].code
         /\ \A attr \in RequiredAttributes(c) :
                attr.code \in Known /\ {r \in RequiredAttributes(c) : r.code = attr.code} = {attr}
  <1>1. Applicable(c) \in SUBSET DOMAIN Attributes
    BY DEF Applicable
  <1>2. \A i \in Applicable(c) :
           /\ First(Attributes[i].code, Applicable(c)).code = Attributes[i].code
           /\ Attributes[i].code \in Known
    BY <1>1, FirstIs DEF Known
  <1>3. QED
    BY <1>2, RequiredIs

(* A product that is ready lacks nothing, and its category is in the tree. *)
LEMMA ReadyLacksNothing ==
  ASSUME Prepared = "ready"
  PROVE  CategoryCode \in Categories /\ Missing(CategoryCode) = {}
  BY DEF Prepared, CategoryError

LEMMA NothingMissing ==
  ASSUME NEW c, Missing(c) = {}
  PROVE  /\ \A code \in DOMAIN product.attributes : Override(code) # Absent
         /\ \A attr \in RequiredAttributes(c) : Or(Supplied(attr.code), Derived(attr, c)) # Absent
         /\ product.size # Absent /\ Filled("SIZE", c) = Absent => Size # Absent
  <1>1. \A attr \in RequiredAttributes(c) :
           Or(Supplied(attr.code), Derived(attr, c)) = Absent => attr.code \in Missing(c)
    BY DEF Missing
  <1>2. \A code \in DOMAIN product.attributes : Override(code) = Absent => code \in Missing(c)
    BY DEF Missing
  <1>3. product.size # Absent /\ Filled("SIZE", c) = Absent /\ Size = Absent => "SIZE" \in Missing(c)
    BY DEF Missing
  <1>4. QED
    BY <1>1, <1>2, <1>3

-----------------------------------------------------------------------------
(* The row. *)

LEMMA RowOfRequired ==
  ASSUME NEW c, Missing(c) = {}, NEW attr \in RequiredAttributes(c)
  PROVE  /\ ImportRow(c)[attr.code] = Or(Supplied(attr.code), Derived(attr, c))
         /\ ImportRow(c)[attr.code] # Absent
  <1> DEFINE of == {r \in RequiredAttributes(c) : r.code = attr.code}
             required == Or(Supplied(attr.code),
                            IF of = {} THEN Absent ELSE Derived(CHOOSE r \in of : TRUE, c))
  <1>1. of = {attr} /\ attr.code \in Known
    BY RequiredOnce
  <1>2. (CHOOSE r \in of : TRUE) = attr
    BY <1>1
  <1>3. required = Or(Supplied(attr.code), Derived(attr, c))
    BY <1>1, <1>2
  <1>4. required # Absent
    BY <1>3, NothingMissing
  <1>5. ImportRow(c)[attr.code] =
           IF attr.code = "SIZE" /\ product.size # Absent THEN Or(required, Size) ELSE required
    BY <1>1 DEF ImportRow, Filled
  <1> HIDE DEF required, of
  <1>6. QED
    BY <1>3, <1>4, <1>5 DEF Or

LEMMA RowOfOthers ==
  ASSUME NEW c, NEW code \in Known \cup {"SIZE"},
         \A attr \in RequiredAttributes(c) : attr.code # code
  PROVE  ImportRow(c)[code] =
           IF code = "SIZE" /\ product.size # Absent THEN Or(Supplied(code), Size) ELSE Supplied(code)
  <1> DEFINE of == {r \in RequiredAttributes(c) : r.code = code}
             required == Or(Supplied(code),
                            IF of = {} THEN Absent ELSE Derived(CHOOSE r \in of : TRUE, c))
  <1>1. of = {}
    OBVIOUS
  <1>2. required = Supplied(code)
    BY <1>1 DEF Or
  <1>3. ImportRow(c)[code] =
           IF code = "SIZE" /\ product.size # Absent THEN Or(required, Size) ELSE required
    BY DEF ImportRow, Filled
  <1> HIDE DEF required, of
  <1>4. QED
    BY <1>2, <1>3

(* Every attribute Decathlon requires, inherited ones too, is in the row. *)
LEMMA RowComplete ==
  ASSUME NEW c \in Categories, Missing(c) = {}
  PROVE  Complete(ImportRow(c), c)
  <1>1. SUFFICES ASSUME NEW i \in DOMAIN Attributes, Attributes[i].required,
                        Attributes[i].hierarchy \in {""} \cup Lineage(c)
                 PROVE  ImportRow(c)[Attributes[i].code] # Absent
    BY DEF Complete
  <1>2. i \in Applicable(c)
    BY <1>1, LineageReached DEF Applicable
  <1> DEFINE attr == First(Attributes[i].code, Applicable(c))
  <1>3. attr \in RequiredAttributes(c) /\ attr.code = Attributes[i].code
    BY <1>2, RequiredOnce
  <1> HIDE DEF attr
  <1>4. QED
    BY <1>3, RowOfRequired

(* What the options give is one of them, looked up. *)
LEMMA FromOptionsIs ==
  ASSUME NEW attr, FromOptions(attr) # Absent
  PROVE  /\ attr.list # Absent
         /\ \E i \in DOMAIN OptionTexts(attr) :
               FromOptions(attr) = Or(Mapped(attr.code, OptionTexts(attr)[i]),
                                      Matched(attr.list, OptionTexts(attr)[i]))
         /\ attr.code = "color" => product.color # Absent /\
               FromOptions(attr) = Or(Mapped("color", product.color),
                                      Matched(attr.list, product.color))
         /\ attr.code = "SIZE" => product.size # Absent /\
               FromOptions(attr) = Or(Mapped("SIZE", product.size),
                                      Matched(attr.list, product.size))
  <1> DEFINE texts == OptionTexts(attr)
             hits == {i \in DOMAIN texts : texts[i] # Absent /\ Resolve(attr, texts[i]) # Absent}
  <1>1. attr.list # Absent /\ hits # {} /\ FromOptions(attr) = Resolve(attr, texts[Min(hits)])
    BY DEF FromOptions
  <1>2. hits \subseteq {1, 2}
    BY DEF OptionTexts
  <1>3. Min(hits) \in hits
    <2>1. hits \subseteq Nat
      BY <1>2
    <2> HIDE DEF hits
    <2>2. QED
      BY <1>1, <2>1, MinIsLeast
  <1>4. PICK i \in hits : FromOptions(attr) = Resolve(attr, texts[i])
    BY <1>1, <1>3
  <1>5. Resolve(attr, texts[i]) = Or(Mapped(attr.code, texts[i]), Matched(attr.list, texts[i]))
    BY <1>1 DEF Resolve
  <1>6. attr.code = "color" => texts[i] = product.color
    <2>1. SUFFICES ASSUME attr.code = "color" PROVE texts[i] = product.color
      OBVIOUS
    <2>2. texts = <<product.color>>
      BY <2>1, CatalogAssumption DEF OptionTexts
    <2>3. i = 1
      BY <1>4, <2>2
    <2> HIDE DEF texts
    <2>4. QED
      BY <2>2, <2>3
  <1>7. attr.code = "SIZE" => texts[i] = product.size
    <2>1. SUFFICES ASSUME attr.code = "SIZE" PROVE texts[i] = product.size
      OBVIOUS
    <2>2. texts = <<product.size>>
      BY <2>1, CatalogAssumption DEF OptionTexts
    <2>3. i = 1
      BY <1>4, <2>2
    <2> HIDE DEF texts
    <2>4. QED
      BY <2>2, <2>3
  <1>8. i \in DOMAIN texts /\ texts[i] # Absent
    BY <1>4
  <1> HIDE DEF texts, hits
  <1>9. QED
    BY <1>1, <1>4, <1>5, <1>6, <1>7, <1>8 DEF texts

(* The metafield decides. *)
LEMMA MetafieldDecides ==
  ASSUME NEW c, Missing(c) = {}, NEW code \in DOMAIN product.attributes
  PROVE  code \in Known /\ ImportRow(c)[code] = Override(code)
  <1>1. Override(code) # Absent
    BY NothingMissing
  <1>2. code \in Known /\ Supplied(code) = Override(code)
    BY <1>1 DEF Override, Supplied, Or
  <1>3. CASE \E attr \in RequiredAttributes(c) : attr.code = code
    BY <1>1, <1>2, <1>3, RowOfRequired DEF Or
  <1>4. CASE \A attr \in RequiredAttributes(c) : attr.code # code
    BY <1>1, <1>2, <1>4, RowOfOthers DEF Or
  <1>5. QED
    BY <1>2, <1>3, <1>4

LEMMA NotSupplied ==
  ASSUME NEW code, code \notin DOMAIN product.attributes, code # "title"
  PROVE  Supplied(code) = Absent
  BY DEF Supplied, Title, Override, Or

LEMMA KeepsBrand ==
  ASSUME NEW c, Missing(c) = {}
  PROVE  Keeps(ImportRow(c), "brandName", product.brand)
  <1>1. SUFFICES ASSUME "brandName" \in Known \ DOMAIN product.attributes,
                        Mapped("brandName", product.brand) # Absent
                 PROVE  ImportRow(c)["brandName"] \in {Mapped("brandName", product.brand), Absent}
    BY DEF Keeps
  <1>2. Supplied("brandName") = Absent
    BY <1>1, NotSupplied
  <1>3. ASSUME NEW attr \in RequiredAttributes(c), attr.code = "brandName"
        PROVE  Derived(attr, c) \in {Mapped("brandName", product.brand), Absent}
    BY <1>1, <1>3 DEF Derived, Brand, Or
  <1>4. CASE \E attr \in RequiredAttributes(c) : attr.code = "brandName"
    BY <1>2, <1>3, <1>4, RowOfRequired DEF Or
  <1>5. CASE \A attr \in RequiredAttributes(c) : attr.code # "brandName"
    BY <1>1, <1>2, <1>5, RowOfOthers
  <1>6. QED
    BY <1>4, <1>5

LEMMA KeepsColor ==
  ASSUME NEW c, Missing(c) = {}
  PROVE  Keeps(ImportRow(c), "color", product.color)
  <1>1. SUFFICES ASSUME "color" \in Known \ DOMAIN product.attributes,
                        Mapped("color", product.color) # Absent
                 PROVE  ImportRow(c)["color"] \in {Mapped("color", product.color), Absent}
    BY DEF Keeps
  <1>2. Supplied("color") = Absent
    BY <1>1, NotSupplied
  <1>3. ASSUME NEW attr \in RequiredAttributes(c), attr.code = "color"
        PROVE  Derived(attr, c) \in {Mapped("color", product.color), Absent}
    <2>1. Derived(attr, c) = FromOptions(attr)
      BY <1>3 DEF Derived
    <2>2. QED
      BY <1>1, <1>3, <2>1, FromOptionsIs DEF Or
  <1>4. CASE \E attr \in RequiredAttributes(c) : attr.code = "color"
    BY <1>2, <1>3, <1>4, RowOfRequired DEF Or
  <1>5. CASE \A attr \in RequiredAttributes(c) : attr.code # "color"
    BY <1>1, <1>2, <1>5, RowOfOthers
  <1>6. QED
    BY <1>4, <1>5

LEMMA KeepsSize ==
  ASSUME NEW c, Missing(c) = {}
  PROVE  Keeps(ImportRow(c), "SIZE", product.size)
  <1>1. SUFFICES ASSUME "SIZE" \in Known \ DOMAIN product.attributes,
                        Mapped("SIZE", product.size) # Absent
                 PROVE  ImportRow(c)["SIZE"] \in {Mapped("SIZE", product.size), Absent}
    BY DEF Keeps
  <1>2. Supplied("SIZE") = Absent
    BY <1>1, NotSupplied
  <1>3. ASSUME NEW attr \in RequiredAttributes(c), attr.code = "SIZE"
        PROVE  Derived(attr, c) \in {Mapped("SIZE", product.size), Absent}
    <2>1. Derived(attr, c) = FromOptions(attr)
      BY <1>3 DEF Derived
    <2>2. QED
      BY <1>1, <1>3, <2>1, FromOptionsIs DEF Or
  <1>4. CASE \E attr \in RequiredAttributes(c) : attr.code = "SIZE"
    BY <1>2, <1>3, <1>4, RowOfRequired DEF Or
  <1>5. CASE \A attr \in RequiredAttributes(c) : attr.code # "SIZE"
    BY <1>1, <1>2, <1>5, RowOfOthers DEF Or, Size
  <1>6. QED
    BY <1>4, <1>5

LEMMA RowKeepsChoices ==
  ASSUME NEW c, Missing(c) = {}
  PROVE  MerchantDecides(ImportRow(c))
  BY MetafieldDecides, KeepsBrand, KeepsColor, KeepsSize DEF MerchantDecides

(* What a look-up gives is mapped by the merchant or an entry of the list. *)
LEMMA LookedUpIsListed ==
  ASSUME NEW attr, NEW text, Or(Mapped(attr.code, text), Matched(attr.list, text)) # Absent
  PROVE  Listed(attr, Or(Mapped(attr.code, text), Matched(attr.list, text)))
  <1>1. CASE Mapped(attr.code, text) # Absent
    <2>1. <<attr.code, text>> \in DOMAIN settings.mapped
          /\ Mapped(attr.code, text) = settings.mapped[<<attr.code, text>>]
      BY <1>1 DEF Mapped, Find
    <2>2. QED
      BY <1>1, <2>1 DEF Or, Listed
  <1>2. CASE Mapped(attr.code, text) = Absent
    <2>1. Matched(attr.list, text) # Absent
      BY <1>2 DEF Or
    <2>2. PICK f \in {Exactly, Loosely} :
             <<attr.list, text>> \in DOMAIN f /\ Matched(attr.list, text) = f[<<attr.list, text>>]
      BY <2>1 DEF Matched, Find, Or
    <2>3. QED
      BY <1>2, <2>2 DEF Or, Listed
  <1>3. QED
    BY <1>1, <1>2

LEMMA MatchIsListed ==
  ASSUME NEW attr, NEW text, Matched(attr.list, text) # Absent
  PROVE  Listed(attr, Matched(attr.list, text))
  <1>1. PICK f \in {Exactly, Loosely} :
           <<attr.list, text>> \in DOMAIN f /\ Matched(attr.list, text) = f[<<attr.list, text>>]
    BY DEF Matched, Find, Or
  <1>2. QED
    BY <1>1 DEF Listed

LEMMA RowValuesListed ==
  ASSUME NEW c, Missing(c) = {}, NEW attr \in RequiredAttributes(c), attr.list # Absent,
         attr.code \notin Copied \ DOMAIN product.attributes,
         First(attr.code, DOMAIN Attributes) = attr
  PROVE  Listed(attr, ImportRow(c)[attr.code])
  <1>1. CASE attr.code \in DOMAIN product.attributes
    <2>1. ImportRow(c)[attr.code] = Override(attr.code) /\ Override(attr.code) # Absent
      BY <1>1, MetafieldDecides, NothingMissing
    <2>2. Override(attr.code) = Resolve(attr, product.attributes[attr.code])
      BY <2>1 DEF Override
    <2>3. QED
      BY <2>1, <2>2, LookedUpIsListed DEF Resolve
  <1>2. CASE attr.code \notin DOMAIN product.attributes
    <2>1. Supplied(attr.code) = Absent /\ attr.code \notin Copied
      BY <1>2, NotSupplied DEF Copied
    <2>2. ImportRow(c)[attr.code] = Derived(attr, c) /\ Derived(attr, c) # Absent
      BY <2>1, RowOfRequired DEF Or
    <2>3. CASE attr.code = "brandName"
      <3>1. Derived(attr, c) = Brand(attr)
        BY <2>3 DEF Derived
      <3>2. Brand(attr) = Or(Mapped(attr.code, product.brand), Matched(attr.list, product.brand))
            \/ Brand(attr) = Matched(attr.list, settings.fallback)
        BY <3>1, <2>2, <2>3 DEF Brand, Or
      <3>3. QED
        BY <2>2, <3>1, <3>2, LookedUpIsListed, MatchIsListed
    <2>4. CASE attr.code # "brandName"
      <3>1. Derived(attr, c) = FromOptions(attr)
        BY <2>1, <2>4 DEF Derived, Copied
      <3>2. QED
        BY <2>2, <3>1, FromOptionsIs, LookedUpIsListed
    <2>5. QED
      BY <2>3, <2>4
  <1>3. QED
    BY <1>1, <1>2

LEMMA SizeInChart ==
  ASSUME NEW c, Missing(c) = {}, settings.chart # Absent, product.size # Absent,
         "SIZE" \notin DOMAIN product.attributes,
         \A attr \in RequiredAttributes(c) : attr.code = "SIZE" => attr.list = Absent
  PROVE  ImportRow(c)["SIZE"] \in
            {Mapped("SIZE", product.size), Find(InChart, <<settings.chart, product.size>>)}
  <1>1. Supplied("SIZE") = Absent
    BY NotSupplied
  <1>2. \A attr \in RequiredAttributes(c) : attr.code # "SIZE"
    <2>1. SUFFICES ASSUME NEW attr \in RequiredAttributes(c), attr.code = "SIZE" PROVE FALSE
      OBVIOUS
    <2>2. Derived(attr, c) = FromOptions(attr) /\ attr.list = Absent
      BY <2>1 DEF Derived
    <2>3. FromOptions(attr) = Absent
      BY <2>2, FromOptionsIs
    <2>4. QED
      BY <1>1, <2>1, <2>2, <2>3, NothingMissing DEF Or
  <1>3. ImportRow(c)["SIZE"] = Size
    BY <1>1, <1>2, RowOfOthers DEF Or
  <1>4. QED
    BY <1>3 DEF Size, Or

LEMMA RowKnown ==
  ASSUME NEW c, Missing(c) = {}
  PROVE  KnownValues(ImportRow(c), c)
  BY RowValuesListed, SizeInChart DEF KnownValues

(* ImportRowIsSound, whatever the catalogue, the product and the settings: *)
(* a product that is not refused becomes a row with every attribute its    *)
(* category requires, the merchant's own choices, and only list values     *)
(* Decathlon knows (prepareProductImport, buildProductImportPayload).      *)
THEOREM ImportedRowIsSound == ImportRowIsSound
  BY ReadyLacksNothing, RowComplete, RowKeepsChoices, RowKnown DEF ImportRowIsSound

-----------------------------------------------------------------------------
(* Types of the amounts. *)

Pieces == [line : Lines, quantity : Nat, ref : Counted]

Money == [quantity : Int, amount : Nat, shipping : Nat]

Keys == {keys \in Seq(Lines) : IsInjective(keys)}

(* A line has money only where it has an entry. *)
Entries == {acc \in [keys : Keys, of : [Lines -> Money]] : \A l \in Lines :
               l \notin Range(acc.keys) => acc.of[l].amount = 0 /\ acc.of[l].shipping = 0}

LEMMA MinIs == \A a, b \in Int : Min({a, b}) = IF a <= b THEN a ELSE b
  BY DEF Min

LEMMA MaxIs == \A a, b \in Int : Max({a, b}) = IF a >= b THEN a ELSE b
  BY DEF Max

(* A line comes up once among the keys, however often it is added to.      *)
LEMMA EntryTyped ==
  ASSUME NEW acc \in Entries, NEW l \in Lines
  PROVE  /\ Entry(acc, l) \in Entries /\ Entry(acc, l).of = acc.of
         /\ Range(Entry(acc, l).keys) = Range(acc.keys) \cup {l}
  <1>1. CASE Contains(acc.keys, l)
    <2>1. l \in Range(acc.keys)
      BY <1>1 DEF Contains, Range, Entries, Keys
    <2>2. QED
      BY <1>1, <2>1 DEF Entry
  <1>2. CASE ~Contains(acc.keys, l)
    <2> DEFINE keys == Append(acc.keys, l)
    <2>1. acc.keys \in Seq(Lines) /\ IsInjective(acc.keys) /\ acc.of \in [Lines -> Money]
          /\ acc = [keys |-> acc.keys, of |-> acc.of]
      BY DEF Entries, Keys
    <2>2. keys \in Seq(Lines) /\ Len(keys) = Len(acc.keys) + 1 /\ Len(acc.keys) \in Nat
          /\ keys[Len(acc.keys) + 1] = l
          /\ \A i \in 1..Len(acc.keys) : keys[i] = acc.keys[i]
      BY <2>1
    <2>8. Entry(acc, l) = [acc EXCEPT !.keys = keys]
      BY <1>2 DEF Entry
    <2> HIDE DEF keys
    <2>3. ASSUME NEW i \in 1..Len(keys), NEW j \in 1..Len(keys), keys[i] = keys[j] PROVE i = j
      BY <2>1, <2>2, <2>3, <1>2 DEF IsInjective, Contains
    <2>4. keys \in Keys
      BY <2>2, <2>3 DEF Keys, IsInjective
    <2>5. Entry(acc, l) = [keys |-> keys, of |-> acc.of]
      BY <2>1, <2>8
    <2>6. Range(keys) = Range(acc.keys) \cup {l}
      <3>1. DOMAIN keys = 1..(Len(acc.keys) + 1) /\ DOMAIN acc.keys = 1..Len(acc.keys)
        BY <2>1, <2>2
      <3>2. ASSUME NEW x \in Range(keys) PROVE x \in Range(acc.keys) \cup {l}
        <4>1. PICK i \in 1..(Len(acc.keys) + 1) : x = keys[i]
          BY <3>1, <3>2 DEF Range
        <4>2. CASE i = Len(acc.keys) + 1
          BY <2>2, <4>1, <4>2
        <4>3. CASE i # Len(acc.keys) + 1
          <5>1. i \in 1..Len(acc.keys) /\ x = acc.keys[i]
            BY <2>2, <4>1, <4>3
          <5>2. QED
            BY <3>1, <5>1 DEF Range
        <4>4. QED
          BY <4>2, <4>3
      <3>3. ASSUME NEW x \in Range(acc.keys) PROVE x \in Range(keys)
        <4>1. PICK i \in 1..Len(acc.keys) : x = acc.keys[i]
          BY <3>1 DEF Range
        <4>2. i \in DOMAIN keys /\ keys[i] = x
          BY <2>2, <3>1, <4>1
        <4>3. QED
          BY <4>2 DEF Range
      <3>4. l \in Range(keys)
        <4>1. Len(acc.keys) + 1 \in DOMAIN keys
          BY <2>2, <3>1
        <4>2. QED
          BY <2>2, <4>1 DEF Range
      <3>5. QED
        BY <3>2, <3>3, <3>4
    <2>7. QED
      BY <2>1, <2>4, <2>5, <2>6 DEF Entries
  <1>3. QED
    BY <1>1, <1>2

LEMMA ShareTyped == \A a, q \in Nat : \A d \in Nat : d > 0 => (a * q) \div d \in Nat
  <1>1. \A a, q \in Nat : a * q \in Nat
    OBVIOUS
  <1>2. \A p \in Nat : \A d \in Nat : d > 0 => p \div d \in Nat
    OBVIOUS
  <1>3. QED
    BY <1>1, <1>2

(* The money of the lines. *)
Amounts(acc) == [l \in Lines |-> acc.of[l].amount]
Shipped(acc) == [l \in Lines |-> acc.of[l].shipping]
Plus(f, l, n) == [f EXCEPT ![l] = f[l] + n]

(* Adding to a line adds to its money and to no other line.                *)
LEMMA AddToTyped ==
  ASSUME NEW acc \in Entries, NEW l \in Lines, NEW quantity \in Int, NEW amount \in Nat,
         NEW shipping \in Nat, NEW new, new = AddTo(acc, l, quantity, amount, shipping)
  PROVE  /\ new \in Entries
         /\ Amounts(new) = Plus(Amounts(acc), l, amount)
         /\ Shipped(new) = Plus(Shipped(acc), l, shipping)
         /\ amount = 0 => Amounts(new) = Amounts(acc)
         /\ shipping = 0 => Shipped(new) = Shipped(acc)
  <1> DEFINE e == Entry(acc, l)
             old == acc.of[l]
             money == [quantity |-> old.quantity + quantity, amount |-> old.amount + amount,
                       shipping |-> old.shipping + shipping]
  <1>1. e \in Entries /\ e.of = acc.of /\ Range(e.keys) = Range(acc.keys) \cup {l}
    BY EntryTyped
  <1>2. new = [e EXCEPT !.of[l] = money]
    BY DEF AddTo
  <1>3. acc.of \in [Lines -> Money] /\ e.keys \in Keys /\ e = [keys |-> e.keys, of |-> e.of]
    BY <1>1 DEF Entries
  <1>4. money \in Money /\ money.shipping = old.shipping + shipping /\ money.amount = old.amount + amount
    BY <1>3 DEF Money
  <1> HIDE DEF e, money
  <1>5. new = [keys |-> e.keys, of |-> [acc.of EXCEPT ![l] = money]]
    BY <1>1, <1>2, <1>3
  <1>6. /\ new.keys = e.keys /\ new.of = [acc.of EXCEPT ![l] = money]
        /\ new.of[l] = money /\ \A k \in Lines \ {l} : new.of[k] = acc.of[k]
    BY <1>3, <1>5
  <1>7. new \in Entries
    <2>1. new \in [keys : Keys, of : [Lines -> Money]]
      BY <1>3, <1>4, <1>5 
    <2>2. \A k \in Lines : k \notin Range(new.keys) => k # l /\ k \notin Range(acc.keys)
      BY <1>1, <1>6
    <2>3. QED
      BY <1>6, <2>1, <2>2 DEF Entries
  <1>8. Amounts(new) = Plus(Amounts(acc), l, amount)
    BY <1>4, <1>6 DEF Amounts, Plus
  <1>9. Shipped(new) = Plus(Shipped(acc), l, shipping)
    BY <1>4, <1>6 DEF Shipped, Plus
  <1>10. amount = 0 => Amounts(new) = Amounts(acc)
    BY <1>3, <1>4, <1>6 DEF Amounts, Money
  <1>11. shipping = 0 => Shipped(new) = Shipped(acc)
    BY <1>3, <1>4, <1>6 DEF Shipped, Money
  <1>12. QED
    BY <1>7, <1>8, <1>9, <1>10, <1>11

(* The money of the lines, of an accumulator of the right type.            *)
LEMMA EntriesMoney ==
  ASSUME NEW acc \in Entries
  PROVE  /\ Amounts(acc) \in [Lines -> Nat] /\ Shipped(acc) \in [Lines -> Nat]
         /\ \A l \in Lines : /\ acc.of[l].amount = Amounts(acc)[l] /\ acc.of[l].shipping = Shipped(acc)[l]
                             /\ acc.of[l].quantity \in Int
  BY DEF Entries, Money, Amounts, Shipped

(* No line has been given shipping yet. *)
Untouched == {acc \in Entries : \A l \in Lines : Shipped(acc)[l] = 0}

LEMMA SharesTyped == \A piece \in Pieces : Share(piece) \in Nat
  BY ShareTyped DEF Pieces, Counted, Share

LEMMA AddPieceTyped ==
  ASSUME NEW acc \in Untouched, NEW piece \in Pieces
  PROVE  /\ AddPiece(acc, piece) \in Untouched
         /\ Amounts(AddPiece(acc, piece)) = Plus(Amounts(acc), piece.line, Share(piece))
  <1>1. piece.line \in Lines /\ piece.quantity \in Int /\ Share(piece) \in Nat /\ 0 \in Nat
    BY SharesTyped DEF Pieces
  <1>2. AddPiece(acc, piece) = AddTo(acc, piece.line, piece.quantity, Share(piece), 0)
    BY DEF AddPiece
  <1>3. acc \in Entries /\ Shipped(acc) \in [Lines -> Nat] /\ \A l \in Lines : Shipped(acc)[l] = 0
    BY EntriesMoney DEF Untouched
  <1> DEFINE new == AddPiece(acc, piece)
  <1> HIDE DEF new
  <1>4. new = AddTo(acc, piece.line, piece.quantity, Share(piece), 0)
    BY <1>2 DEF new
  <1>5. /\ new \in Entries /\ Shipped(new) = Shipped(acc)
        /\ Amounts(new) = Plus(Amounts(acc), piece.line, Share(piece))
    BY <1>1, <1>3, <1>4, AddToTyped
  <1>6. QED
    BY <1>3, <1>5 DEF Untouched, new

PieceStep(list) ==
    [k \in Nat |-> [a \in Untouched |->
        IF k \in 1..Len(list) THEN AddPiece(a, list[k]) ELSE a]]

(* A lemma cannot be stated for every operator, so each fold of the module *)
(* has its own: the same argument, from FoldsExist and Unfolds.            *)
LEMMA PiecesFold ==
  ASSUME NEW list \in Seq(Pieces), NEW start \in Untouched
  PROVE  FoldLeft(AddPiece, start, list)
           \in Results(Untouched, start, PieceStep(list), Len(list))
  <1> DEFINE n == Len(list)
             step == PieceStep(list)
             Computes(f) == f = [s \in SUBSET DOMAIN list |-> IF s = {} THEN start ELSE
                               AddPiece(f[s \ {Max(s)}], list[Max(s)])]
             fold == CHOOSE f : Computes(f)
  <1>1. n \in Nat /\ DOMAIN list = 1..n /\ \A k \in 1..n : list[k] \in Pieces
    OBVIOUS
  <1>2. start \in Untouched
    OBVIOUS
  <1>3. step \in [Nat -> [Untouched -> Untouched]]
    BY <1>1, AddPieceTyped DEF PieceStep
  <1>4. PICK f : f \in Folds(Untouched, start, step, n)
    <2> HIDE DEF step, n
    <2>1. n \in Nat
      BY <1>1
    <2>2. Folds(Untouched, start, step, n) # {}
      BY <1>2, <1>3, <2>1, FoldsExist
    <2>3. QED
      BY <2>2
  <1>5. ASSUME NEW s \in SUBSET (1..n)
        PROVE  f[s] = IF s = {} THEN start ELSE AddPiece(f[s \ {Max(s)}], list[Max(s)])
    <2>1. f[s] = IF s = {} THEN start ELSE step[Max(s)][f[s \ {Max(s)}]]
      BY <1>4 DEF Folds
    <2>2. s # {} => f[s \ {Max(s)}] \in Untouched /\ Max(s) \in 1..n
      BY <1>1, <1>4, MaxIn DEF Folds
    <2> HIDE DEF step
    <2>3. QED
      BY <2>1, <2>2, <1>1 DEF step, PieceStep, n
  <1>6. f \in [SUBSET (1..n) -> Untouched]
    BY <1>4 DEF Folds
  <1>7. Computes(f)
    BY <1>1, <1>5, <1>6
  <1>8. Computes(fold)
    BY <1>7
  <1>9. FoldLeft(AddPiece, start, list) = fold[1..n]
    <2>1. FoldLeft(AddPiece, start, list) = fold[DOMAIN list]
      BY DEF FoldLeft, MapThenFoldSet
    <2>2. QED
      BY <2>1, <1>1
  <1> HIDE DEF fold, n
  <1>10. fold[{}] = start
    BY <1>1, <1>8
  <1>11. ASSUME NEW k \in 1..n, fold[1..(k - 1)] \in Untouched
         PROVE  fold[1..k] = step[k][fold[1..(k - 1)]]
    <2>1. /\ 1..k \in SUBSET (1..n) /\ 1..k # {} /\ (1..k) \ {k} = 1..(k - 1)
          /\ Max(1..k) = k
      BY <1>1, Prefix
    <2>2. fold[1..k] = AddPiece(fold[(1..k) \ {Max(1..k)}], list[Max(1..k)])
      BY <2>1, <1>1, <1>8
    <2>3. fold[1..k] = AddPiece(fold[1..(k - 1)], list[k])
      BY <2>1, <2>2
    <2>4. k \in Nat /\ step[k][fold[1..(k - 1)]] = AddPiece(fold[1..(k - 1)], list[k])
      BY <1>1, <1>11 DEF step, PieceStep, n
    <2>5. QED
      BY <2>3, <2>4
  <1> HIDE DEF step
  <1>12. fold[1..n] \in Results(Untouched, start, step, n)
    BY <1>1, <1>2, <1>3, <1>10, <1>11, Unfolds
  <1>13. QED
    BY <1>9, <1>12 DEF step, n

-----------------------------------------------------------------------------
(* What is read. *)

AmountsTyped ==
    /\ ordered \in [Lines -> [quantity : Int, variant : {"v", "w"}]]
    /\ \A l \in Lines : owed[l] = NoLine \/
          (owed[l] \in Booked /\ owed[l].refund.amount <= owed[l].price
           /\ owed[l].refund.shipping <= owed[l].shippingPrice)
    /\ webhook.lines \in Seq(Counted)
    /\ Len(webhook.lines) <= WebhookLength
    /\ webhook.shipping \in Nat
    /\ webhook.moneyBack = Untold \/ webhook.moneyBack \in Nat

(* What is read has its type, whatever the constants.                      *)
LEMMA AmountsInitTyped == AmountsInit => AmountsTyped
  <1> SUFFICES ASSUME AmountsInit PROVE AmountsTyped
    OBVIOUS
  <1>1. ordered \in [Lines -> [quantity : Int, variant : {"v", "w"}]]
    BY AmountsAssumption DEF AmountsInit
  <1>2. \A l \in Lines : owed[l] = NoLine \/
          (owed[l] \in Booked /\ owed[l].refund.amount <= owed[l].price
           /\ owed[l].refund.shipping <= owed[l].shippingPrice)
    BY AmountsAssumption DEF AmountsInit
  <1>3. /\ webhook.lines \in SeqOf(WebhookLines, WebhookLength)
        /\ webhook.shipping \in Shippings /\ webhook.moneyBack \in MoneyBacks
    BY DEF AmountsInit
  <1>4. webhook.lines \in Seq(Counted) /\ Len(webhook.lines) <= WebhookLength
    <2>1. PICK m \in 0..WebhookLength : webhook.lines \in [1..m -> WebhookLines]
      BY <1>3 DEF SeqOf
    <2>2. m \in Nat /\ m <= WebhookLength /\ webhook.lines \in [1..m -> Counted]
      BY <2>1, AmountsAssumption
    <2>3. webhook.lines \in Seq(Counted)
      BY <2>2, SeqDef
    <2>4. QED
      BY <2>2, <2>3
  <1>5. webhook.shipping \in Nat /\ (webhook.moneyBack = Untold \/ webhook.moneyBack \in Nat)
    BY <1>3, AmountsAssumption
  <1>6. QED
    BY <1>1, <1>2, <1>4, <1>5 DEF AmountsTyped

(* Whole cents. *)
Cents == {n \in Int : n % Cent = 0}

(* Rounding moves an amount by half a cent at most, keeps the order, and   *)
(* leaves whole cents alone.                                               *)
LEMMA Round2Is ==
  /\ \A n \in Int : /\ Round2(n) \in Cents /\ Round2(n) \in Int /\ Round2(n) - n \in -6..6
                    /\ n >= 0 => Round2(n) >= 0
                    /\ n \in Cents => Round2(n) = n
  /\ \A m, n \in Int : m <= n => Round2(m) <= Round2(n)
  /\ \A m, n \in Cents : m - n \in Cents /\ m + n \in Cents
  /\ Round2(0) = 0 /\ 0 \in Cents /\ Cents \subseteq Int
  BY DEF Round2, Cent, Cents

(* What a line has left is never negative, and nothing off the order.      *)
LEMMA RemainingTyped ==
  ASSUME AmountsTyped, NEW l \in Lines
  PROVE  /\ Remaining(l) = [amount |-> Remaining(l).amount, shipping |-> Remaining(l).shipping,
                            quantity |-> Remaining(l).quantity]
         /\ Remaining(l).amount \in Cents /\ Remaining(l).amount >= 0
         /\ Remaining(l).shipping \in Cents /\ Remaining(l).shipping >= 0
         /\ Remaining(l).quantity \in Int
         /\ l \notin AtDecathlon => Remaining(l).amount = 0 /\ Remaining(l).shipping = 0
  <1>1. CASE l \notin AtDecathlon
    <2>1. Remaining(l) = [amount |-> 0, shipping |-> 0, quantity |-> 0]
      BY <1>1 DEF Remaining
    <2>2. QED
      BY <2>1, Round2Is
  <1>2. CASE l \in AtDecathlon
    <2>1. owed[l] \in Booked /\ owed[l].refund.shipping <= owed[l].shippingPrice
          /\ owed[l].refund.amount <= owed[l].price
      BY <1>2 DEF AtDecathlon, AmountsTyped
    <2> DEFINE held == owed[l].shippingPrice - owed[l].refund.shipping
               worth == owed[l].price - owed[l].refund.amount
    <2>2. held \in Int /\ 0 <= held /\ worth \in Int /\ 0 <= worth
          /\ owed[l].quantity - owed[l].refund.quantity \in Int
      BY <2>1 DEF Booked
    <2>3. Remaining(l) = [amount |-> Round2(worth), shipping |-> Round2(held),
                          quantity |-> owed[l].quantity - owed[l].refund.quantity]
      BY <1>2 DEF Remaining
    <2> HIDE DEF held, worth
    <2>4. QED
      BY <1>2, <2>2, <2>3, Round2Is
  <1>3. QED
    BY <1>1, <1>2

-----------------------------------------------------------------------------
(* Filtered lists. *)

Lists(T) == Seq(T)

LEMMA AppendTyped ==
  ASSUME NEW T, NEW S
  PROVE  \A found \in Lists(T) : \A x \in T :
            (IF x \in S THEN Append(found, x) ELSE found) \in Lists(T)
  BY DEF Lists

FilterStep(T, S, list) ==
    [k \in Nat |-> [a \in Lists(T) |->
        IF k \in 1..Len(list) THEN (IF list[k] \in S THEN Append(a, list[k]) ELSE a) ELSE a]]

LEMMA AmongFold ==
  ASSUME NEW T, NEW S, NEW list \in Seq(T)
  PROVE  Among(list, S)
           \in Results(Lists(T), <<>>, FilterStep(T, S, list), Len(list))
  <1> DEFINE n == Len(list)
             step == FilterStep(T, S, list)
             Computes(f) == f = [s \in SUBSET DOMAIN list |-> IF s = {} THEN <<>> ELSE
                               (IF list[Max(s)] \in S THEN Append(f[s \ {Max(s)}], list[Max(s)]) ELSE f[s \ {Max(s)}])]
             fold == CHOOSE f : Computes(f)
  <1>1. n \in Nat /\ DOMAIN list = 1..n /\ \A k \in 1..n : list[k] \in T
    OBVIOUS
  <1>2. <<>> \in Lists(T)
    BY DEF Lists
  <1>3. step \in [Nat -> [Lists(T) -> Lists(T)]]
    BY <1>1, AppendTyped DEF FilterStep
  <1>4. PICK f : f \in Folds(Lists(T), <<>>, step, n)
    <2> HIDE DEF step, n
    <2>1. n \in Nat
      BY <1>1
    <2>2. Folds(Lists(T), <<>>, step, n) # {}
      BY <1>2, <1>3, <2>1, FoldsExist
    <2>3. QED
      BY <2>2
  <1>5. ASSUME NEW s \in SUBSET (1..n)
        PROVE  f[s] = IF s = {} THEN <<>> ELSE (IF list[Max(s)] \in S THEN Append(f[s \ {Max(s)}], list[Max(s)]) ELSE f[s \ {Max(s)}])
    <2>1. f[s] = IF s = {} THEN <<>> ELSE step[Max(s)][f[s \ {Max(s)}]]
      BY <1>4 DEF Folds
    <2>2. s # {} => f[s \ {Max(s)}] \in Lists(T) /\ Max(s) \in 1..n
      BY <1>1, <1>4, MaxIn DEF Folds
    <2> HIDE DEF step
    <2>3. QED
      BY <2>1, <2>2, <1>1 DEF step, FilterStep, n
  <1>6. f \in [SUBSET (1..n) -> Lists(T)]
    BY <1>4 DEF Folds
  <1>7. Computes(f)
    BY <1>1, <1>5, <1>6
  <1>8. Computes(fold)
    BY <1>7
  <1>9. Among(list, S) = fold[1..n]
    <2>1. Among(list, S) = fold[DOMAIN list]
      BY DEF FoldLeft, MapThenFoldSet, Among
    <2>2. QED
      BY <2>1, <1>1
  <1> HIDE DEF fold, n
  <1>10. fold[{}] = <<>>
    BY <1>1, <1>8
  <1>11. ASSUME NEW k \in 1..n, fold[1..(k - 1)] \in Lists(T)
         PROVE  fold[1..k] = step[k][fold[1..(k - 1)]]
    <2>1. /\ 1..k \in SUBSET (1..n) /\ 1..k # {} /\ (1..k) \ {k} = 1..(k - 1)
          /\ Max(1..k) = k
      BY <1>1, Prefix
    <2>2. fold[1..k] = (IF list[Max(1..k)] \in S THEN Append(fold[(1..k) \ {Max(1..k)}], list[Max(1..k)]) ELSE fold[(1..k) \ {Max(1..k)}])
      BY <2>1, <1>1, <1>8
    <2>3. fold[1..k] = (IF list[k] \in S THEN Append(fold[1..(k - 1)], list[k]) ELSE fold[1..(k - 1)])
      BY <2>1, <2>2
    <2>4. k \in Nat /\ step[k][fold[1..(k - 1)]] = (IF list[k] \in S THEN Append(fold[1..(k - 1)], list[k]) ELSE fold[1..(k - 1)])
      BY <1>1, <1>11 DEF step, FilterStep, n
    <2>5. QED
      BY <2>3, <2>4
  <1> HIDE DEF step
  <1>12. fold[1..n] \in Results(Lists(T), <<>>, step, n)
    BY <1>1, <1>2, <1>3, <1>10, <1>11, Unfolds
  <1>13. QED
    BY <1>9, <1>12 DEF step, n

(* A filtered list has elements of the list, of the set, each once if the  *)
(* list has them once.                                                     *)
LEMMA AmongIs ==
  ASSUME NEW T, NEW S, NEW list \in Seq(T)
  PROVE  /\ Among(list, S) \in Seq(T) /\ Len(Among(list, S)) <= Len(list)
         /\ \A i \in DOMAIN Among(list, S) : Among(list, S)[i] \in S
         /\ IsInjective(list) => IsInjective(Among(list, S))
  <1> DEFINE n == Len(list)
  <1>0. PICK after \in Runs(Lists(T), <<>>, FilterStep(T, S, list), Len(list)) :
           Among(list, S) = after[Len(list)]
    <2>1. Among(list, S) \in Results(Lists(T), <<>>, FilterStep(T, S, list), Len(list))
      BY AmongFold
    <2>2. QED
      BY <2>1 DEF Results
  <1>1. /\ after \in [0..Len(list) -> Lists(T)]
            /\ after[0] = <<>>
            /\ \A k \in 1..Len(list) : after[k] = (IF list[k] \in S THEN Append(after[k - 1], list[k]) ELSE after[k - 1])
            /\ Among(list, S) = after[Len(list)]
    BY <1>0 DEF Runs, FilterStep
  <1> DEFINE Drawn(k) == \A i \in 1..Len(after[k]) :
                            after[k][i] \in S /\ \E j \in 1..k : list[j] = after[k][i]
             Once(k) == IsInjective(list) => \A i, j \in 1..Len(after[k]) : after[k][i] = after[k][j] => i = j
             Good == {k \in 0..n : Drawn(k) /\ Once(k) /\ Len(after[k]) <= k}
  <1>2. n \in Nat /\ DOMAIN list = 1..n
    OBVIOUS
  <1>3. 0 \in Good
    BY <1>1, <1>2
  <1>4. ASSUME NEW k \in 1..n, k - 1 \in Good PROVE k \in Good
    <2>1. Drawn(k - 1) /\ Once(k - 1) /\ k - 1 \in 0..n /\ Len(after[k - 1]) <= k - 1
      BY <1>4
    <2>2. CASE list[k] \notin S
      <3>1. after[k] = after[k - 1]
        BY <2>2, <1>1
      <3>2. Drawn(k) /\ Once(k) /\ Len(after[k]) <= k
        <4>1. after[k - 1] \in Seq(T) /\ Len(after[k - 1]) \in Nat
          <5>1. k - 1 \in 0..Len(list)
            BY <2>1
          <5>2. after[k - 1] \in Lists(T)
            BY <1>1, <5>1
          <5>3. after[k - 1] \in Seq(T)
            BY <5>2 DEF Lists
          <5>4. QED
            BY ONLY <5>3
        <4>2. Len(after[k]) <= k
          BY <2>1, <3>1, <4>1
        <4>3. \A j \in 1..(k - 1) : j \in 1..k
          <5>1. k \in Int
            BY <1>2
          <5>2. QED
            BY ONLY <5>1
        <4>4. Drawn(k)
          BY <2>1, <3>1, <4>3
        <4>5. Once(k)
          BY <2>1, <3>1
        <4>6. QED
          BY <4>2, <4>4, <4>5
      <3>3. QED
        BY <3>2, <1>2
    <2>3. CASE list[k] \in S
      <3> DEFINE r == after[k - 1]
      <3>1. after[k] = Append(r, list[k])
        BY <2>3, <1>1
      <3>2. r \in Seq(T) /\ list[k] \in T
        <4>1. k - 1 \in 0..Len(list) /\ k \in 1..Len(list)
          BY <2>1
        <4>2. r \in Lists(T)
          BY <1>1, <4>1
        <4>3. list[k] \in T
          BY <4>1
        <4>4. QED
          BY <4>2, <4>3 DEF Lists
      <3>3. /\ Len(after[k]) = Len(r) + 1 /\ Len(r) \in Nat
            /\ after[k][Len(r) + 1] = list[k]
            /\ \A i \in 1..Len(r) : after[k][i] = r[i]
        BY <3>1, <3>2, AppendProperties
      <3>4. /\ \A i \in 1..Len(r) : r[i] \in S /\ \E j \in 1..(k - 1) : list[j] = r[i]
            /\ IsInjective(list) => \A i, j \in 1..Len(r) : r[i] = r[j] => i = j
            /\ Len(after[k]) <= k
        BY <2>1, <3>3
      <3> HIDE DEF r, n
      <3>5. Drawn(k)
        <4>1. SUFFICES ASSUME NEW i \in 1..(Len(r) + 1)
                       PROVE  after[k][i] \in S /\ \E j \in 1..k : list[j] = after[k][i]
          BY <3>3
        <4>2. CASE i = Len(r) + 1
          BY <4>2, <3>3, <2>3, <1>2
        <4>3. CASE i # Len(r) + 1
          <5>1. i \in 1..Len(r)
            BY <4>3, <3>3
          <5>2. PICK j \in 1..(k - 1) : list[j] = r[i]
            BY <5>1, <3>4
          <5>3. j \in 1..k /\ list[j] = after[k][i] /\ after[k][i] \in S
            BY <5>1, <5>2, <3>3, <3>4
          <5>4. QED
            BY <5>3
        <4>4. QED
          BY <4>2, <4>3
      <3>6. Once(k)
        <4>1. SUFFICES ASSUME IsInjective(list), NEW i \in 1..(Len(r) + 1), NEW j \in 1..(Len(r) + 1),
                              after[k][i] = after[k][j]
                       PROVE  i = j
          BY <3>3
        <4>2. \A x \in 1..Len(r) : r[x] # list[k]
          <5>1. SUFFICES ASSUME NEW x \in 1..Len(r), r[x] = list[k] PROVE FALSE
            OBVIOUS
          <5>2. PICK y \in 1..(k - 1) : list[y] = list[k]
            BY <5>1, <3>4
          <5>3. y \in DOMAIN list /\ k \in DOMAIN list /\ y # k
            BY <5>2, <1>2
          <5>4. QED
            BY <4>1, <5>2, <5>3 DEF IsInjective
        <4>3. CASE i = Len(r) + 1 \/ j = Len(r) + 1
          BY <4>1, <4>2, <4>3, <3>3
        <4>4. CASE i # Len(r) + 1 /\ j # Len(r) + 1
          <5>1. i \in 1..Len(r) /\ j \in 1..Len(r)
            BY <4>4, <3>3
          <5>2. r[i] = r[j]
            BY <5>1, <4>1, <3>3
          <5>3. QED
            BY <5>1, <5>2, <4>1, <3>4
        <4>5. QED
          BY <4>3, <4>4
      <3>7. QED
        BY <3>4, <3>5, <3>6, <1>2
    <2>4. QED
      BY <2>2, <2>3
  <1> HIDE DEF Good, n
  <1>5. 0..n \subseteq Good
    BY <1>2, <1>3, <1>4, HoldsThroughout
  <1>6. n \in Good
    BY <1>2, <1>5
  <1>7. Drawn(n) /\ Once(n) /\ Len(after[n]) <= n
    BY <1>6 DEF Good
  <1>8. Among(list, S) \in Seq(T) /\ DOMAIN Among(list, S) = 1..Len(after[n])
    <2>1. n \in 0..n /\ Among(list, S) = after[n]
      BY <1>1, <1>2 DEF n
    <2>2. after[n] \in Seq(T)
      BY <1>1, <2>1 DEF Lists, n
    <2>3. QED
      BY <2>1, <2>2
  <1>9. Len(Among(list, S)) <= Len(list)
    <2>1. Among(list, S) = after[n]
      BY <1>1 DEF n
    <2>2. Len(after[n]) <= n
      BY <1>7
    <2>3. QED
      BY <2>1, <2>2 DEF n
  <1>10. QED
    BY <1>1, <1>7, <1>8, <1>9 DEF IsInjective, n

(* The lines in order, each once.                                          *)
LEMMA AllLines == [l \in Lines |-> l] \in Keys
  BY AmountsAssumption, SeqDef DEF Lines, Keys, IsInjective

(* Each line comes up once in the shipping order.                          *)
LEMMA ShippingOrderIs ==
  ASSUME NEW acc \in Entries
  PROVE  ShippingOrder(acc) \in Keys
  <1> DEFINE keys == acc.keys
             rest == Among(Present, Lines \ Range(keys))
  <1>1. Present \in Seq(Lines) /\ IsInjective(Present)
    BY AllLines, AmongIs DEF Present, Keys
  <1>2. /\ rest \in Seq(Lines) /\ IsInjective(rest)
        /\ \A i \in DOMAIN rest : rest[i] \notin Range(keys)
    <2>1. \A i \in DOMAIN rest : rest[i] \in Lines \ Range(keys)
      BY <1>1, AmongIs
    <2>2. QED
      BY <1>1, <2>1, AmongIs
  <1>3. keys \in Seq(Lines) /\ IsInjective(keys)
    BY DEF Entries, Keys
  <1>4. ShippingOrder(acc) = keys \o rest
    BY DEF ShippingOrder
  <1> HIDE DEF keys, rest
  <1> DEFINE both == keys \o rest
  <1>5. /\ both \in Seq(Lines) /\ Len(both) = Len(keys) + Len(rest)
        /\ \A i \in 1..Len(both) : both[i] = IF i <= Len(keys) THEN keys[i] ELSE rest[i - Len(keys)]
    BY <1>2, <1>3
  <1> HIDE DEF both
  <1>6. ASSUME NEW i \in 1..Len(both), NEW j \in 1..Len(both), both[i] = both[j]
        PROVE  i = j
    <2>1. \A a \in 1..Len(keys), b \in 1..Len(rest) : keys[a] # rest[b]
      BY <1>2, <1>3 DEF Range
    <2>2. \A a, b \in 1..Len(keys) : keys[a] = keys[b] => a = b
      BY <1>3 DEF IsInjective
    <2>3. \A a, b \in 1..Len(rest) : rest[a] = rest[b] => a = b
      BY <1>2 DEF IsInjective
    <2>5. Len(keys) \in Nat /\ Len(rest) \in Nat
      BY <1>2, <1>3
    <2>4. /\ i \in 1..(Len(keys) + Len(rest)) /\ j \in 1..(Len(keys) + Len(rest))
          /\ both[i] = IF i <= Len(keys) THEN keys[i] ELSE rest[i - Len(keys)]
          /\ both[j] = IF j <= Len(keys) THEN keys[j] ELSE rest[j - Len(keys)]
      BY <1>5
    <2>6. CASE i <= Len(keys) /\ j <= Len(keys)
      <3>1. i \in 1..Len(keys) /\ j \in 1..Len(keys)
        BY <2>4, <2>5, <2>6
      <3>2. keys[i] = keys[j]
        BY <1>6, <2>4, <2>6
      <3>3. QED
        BY <3>1, <3>2, <2>2
    <2>7. CASE ~(i <= Len(keys)) /\ ~(j <= Len(keys))
      <3>1. i - Len(keys) \in 1..Len(rest) /\ j - Len(keys) \in 1..Len(rest)
        BY <2>4, <2>5, <2>7
      <3>2. rest[i - Len(keys)] = rest[j - Len(keys)]
        BY <1>6, <2>4, <2>7
      <3>3. i - Len(keys) = j - Len(keys)
        BY <3>1, <3>2, <2>3
      <3>4. QED
        BY <3>3, <2>4, <2>5
    <2>8. CASE i <= Len(keys) /\ ~(j <= Len(keys))
      <3>1. i \in 1..Len(keys) /\ j - Len(keys) \in 1..Len(rest)
        BY <2>4, <2>5, <2>8
      <3>2. QED
        BY <3>1, <1>6, <2>1, <2>4, <2>8
    <2>9. CASE ~(i <= Len(keys)) /\ j <= Len(keys)
      <3>1. j \in 1..Len(keys) /\ i - Len(keys) \in 1..Len(rest)
        BY <2>4, <2>5, <2>9
      <3>2. QED
        BY <3>1, <1>6, <2>1, <2>4, <2>9
    <2>10. QED
      BY <2>6, <2>7, <2>8, <2>9
  <1>7. QED
    <2>1. ShippingOrder(acc) = both /\ DOMAIN both = 1..Len(both)
      BY <1>4, <1>5 DEF both
    <2>2. QED
      BY <1>5, <1>6, <2>1 DEF Keys, IsInjective

-----------------------------------------------------------------------------
(* parseRefundWebhook. *)

Sums == Nat

LEMMA SumTyped == \A total \in Sums : \A ref \in Counted : total + ref.amount \in Sums
  BY DEF Counted, Sums

SumStep(list) ==
    [k \in Nat |-> [a \in Sums |->
        IF k \in 1..Len(list) THEN a + list[k].amount ELSE a]]

LEMMA SumFold ==
  ASSUME NEW list \in Seq(Counted)
  PROVE  SumOf(list)
           \in Results(Sums, 0, SumStep(list), Len(list))
  <1> DEFINE n == Len(list)
             step == SumStep(list)
             Computes(f) == f = [s \in SUBSET DOMAIN list |-> IF s = {} THEN 0 ELSE
                               f[s \ {Max(s)}] + list[Max(s)].amount]
             fold == CHOOSE f : Computes(f)
  <1>1. n \in Nat /\ DOMAIN list = 1..n /\ \A k \in 1..n : list[k] \in Counted
    OBVIOUS
  <1>2. 0 \in Sums
    BY DEF Sums
  <1>3. step \in [Nat -> [Sums -> Sums]]
    BY <1>1, SumTyped DEF SumStep
  <1>4. PICK f : f \in Folds(Sums, 0, step, n)
    <2> HIDE DEF step, n
    <2>1. n \in Nat
      BY <1>1
    <2>2. Folds(Sums, 0, step, n) # {}
      BY <1>2, <1>3, <2>1, FoldsExist
    <2>3. QED
      BY <2>2
  <1>5. ASSUME NEW s \in SUBSET (1..n)
        PROVE  f[s] = IF s = {} THEN 0 ELSE f[s \ {Max(s)}] + list[Max(s)].amount
    <2>1. f[s] = IF s = {} THEN 0 ELSE step[Max(s)][f[s \ {Max(s)}]]
      BY <1>4 DEF Folds
    <2>2. s # {} => f[s \ {Max(s)}] \in Sums /\ Max(s) \in 1..n
      BY <1>1, <1>4, MaxIn DEF Folds
    <2> HIDE DEF step
    <2>3. QED
      BY <2>1, <2>2, <1>1 DEF step, SumStep, n
  <1>6. f \in [SUBSET (1..n) -> Sums]
    BY <1>4 DEF Folds
  <1>7. Computes(f)
    BY <1>1, <1>5, <1>6
  <1>8. Computes(fold)
    BY <1>7
  <1>9. SumOf(list) = fold[1..n]
    <2>1. SumOf(list) = fold[DOMAIN list]
      BY DEF FoldLeft, MapThenFoldSet, SumOf
    <2>2. QED
      BY <2>1, <1>1
  <1> HIDE DEF fold, n
  <1>10. fold[{}] = 0
    BY <1>1, <1>8
  <1>11. ASSUME NEW k \in 1..n, fold[1..(k - 1)] \in Sums
         PROVE  fold[1..k] = step[k][fold[1..(k - 1)]]
    <2>1. /\ 1..k \in SUBSET (1..n) /\ 1..k # {} /\ (1..k) \ {k} = 1..(k - 1)
          /\ Max(1..k) = k
      BY <1>1, Prefix
    <2>2. fold[1..k] = fold[(1..k) \ {Max(1..k)}] + list[Max(1..k)].amount
      BY <2>1, <1>1, <1>8
    <2>3. fold[1..k] = fold[1..(k - 1)] + list[k].amount
      BY <2>1, <2>2
    <2>4. k \in Nat /\ step[k][fold[1..(k - 1)]] = fold[1..(k - 1)] + list[k].amount
      BY <1>1, <1>11 DEF step, SumStep, n
    <2>5. QED
      BY <2>3, <2>4
  <1> HIDE DEF step
  <1>12. fold[1..n] \in Results(Sums, 0, step, n)
    BY <1>1, <1>2, <1>3, <1>10, <1>11, Unfolds
  <1>13. QED
    BY <1>9, <1>12 DEF step, n

(* What is itemized is an amount.                                          *)
LEMMA ItemizedTyped ==
  ASSUME AmountsTyped
  PROVE  Kept(webhook) \in Seq(Counted) /\ Itemized(webhook) \in Nat
  <1>1. Kept(webhook) \in Seq(Counted)
    BY AmongIs DEF Kept, AmountsTyped
  <1>2. SumOf(Kept(webhook)) \in Nat
    <2>1. SumOf(Kept(webhook)) \in Results(Sums, 0, SumStep(Kept(webhook)), Len(Kept(webhook)))
      BY <1>1, SumFold
    <2>2. Len(Kept(webhook)) \in Nat
      BY <1>1
    <2>3. QED
      BY <2>1, <2>2, ResultsTyped DEF Sums
  <1>3. QED
    BY <1>1, <1>2 DEF Itemized, AmountsTyped

Payloads == [lines : Seq(Counted), shipping : Nat, unallocated : Nat]

(* No amount of the payload is negative: the scale is a fraction, what is  *)
(* unallocated a surplus.                                                  *)
LEMMA PayloadTyped ==
  ASSUME AmountsTyped
  PROVE  Payload(webhook) \in Payloads
  <1> DEFINE w == webhook
             kept == Kept(webhook)
             total == Itemized(webhook)
             Scaled(m) == (m * webhook.moneyBack) \div Itemized(webhook)
             plain == [lines |-> Kept(webhook), shipping |-> webhook.shipping, unallocated |-> 0]
  <1>1. kept \in Seq(Counted) /\ total \in Nat /\ w.shipping \in Nat
    BY ItemizedTyped DEF AmountsTyped
  <1>2. plain \in Payloads
    BY <1>1 DEF Payloads
  <1>3. CASE w.moneyBack = Untold
    BY <1>2, <1>3 DEF Payload
  <1>4. CASE w.moneyBack # Untold /\ w.moneyBack < total - Cent
    <2>1. w.moneyBack \in Nat /\ total \in Nat /\ total > 0
      BY <1>1, <1>4 DEF AmountsTyped, Cent
    <2>2. \A m \in Nat : Scaled(m) \in Nat
      BY <2>1, ShareTyped
    <2> DEFINE lines == [i \in DOMAIN kept |-> [kept[i] EXCEPT !.amount = Scaled(kept[i].amount)]]
    <2>3. lines \in Seq(Counted)
      <3>1. DOMAIN kept = 1..Len(kept) /\ Len(kept) \in Nat
        BY <1>1
      <3>2. ASSUME NEW i \in DOMAIN kept PROVE lines[i] \in Counted
        <4>1. kept[i] \in Counted
          BY <1>1
        <4>2. Scaled(kept[i].amount) \in Nat
          BY <4>1, <2>2 DEF Counted
        <4> HIDE DEF Scaled, kept
        <4>3. [kept[i] EXCEPT !.amount = Scaled(kept[i].amount)] \in Counted
          BY <4>1, <4>2 DEF Counted
        <4>4. lines[i] = [kept[i] EXCEPT !.amount = Scaled(kept[i].amount)]
          OBVIOUS
        <4>5. QED
          BY <4>3, <4>4
      <3>3. lines \in [1..Len(kept) -> Counted]
        BY <3>1, <3>2
      <3>4. QED
        BY <3>1, <3>3, SeqDef
    <2>4. Payload(webhook) = [lines |-> lines, shipping |-> Scaled(webhook.shipping), unallocated |-> 0]
      BY <1>1, <1>4, <2>1 DEF Payload, Cent
    <2>5. Scaled(webhook.shipping) \in Nat
      BY <1>1, <2>2
    <2> HIDE DEF lines, Scaled
    <2>6. QED
      BY <2>3, <2>4, <2>5 DEF Payloads
  <1>5. CASE w.moneyBack # Untold /\ ~(w.moneyBack < total - Cent)
    <2>1. w.moneyBack \in Int
      BY <1>5 DEF AmountsTyped
    <2>2. \/ Payload(webhook) = plain
          \/ /\ w.moneyBack - total > Cent
             /\ Payload(webhook) = [plain EXCEPT !.unallocated = w.moneyBack - total]
      BY <1>1, <1>5, <2>1 DEF Payload, Cent
    <2>3. w.moneyBack - total > Cent => w.moneyBack - total \in Nat
      BY <1>1, <2>1 DEF Cent
    <2>4. QED
      BY <1>1, <1>2, <2>2, <2>3 DEF Payloads
  <1>6. QED
    BY <1>3, <1>4, <1>5

-----------------------------------------------------------------------------
(* resolveLines. *)

Takes == [ref : Counted, left : Nat, capacity : [Lines -> Int], pieces : Seq(Pieces)]

Placings == [capacity : [Lines -> Int], pieces : Seq(Pieces), unresolved : Nat]

(* A take never takes more than is left.                                   *)
LEMMA TakeTyped ==
  ASSUME NEW a \in Takes, NEW l \in Lines
  PROVE  Take(a, l) \in Takes
  <1> DEFINE take == Min({a.left, a.capacity[l]})
             piece == [line |-> l, quantity |-> take, ref |-> a.ref]
  <1>1. take \in Int /\ take <= a.left /\ a.left \in Nat
    BY MinIs DEF Takes
  <1>2. take > 0 => piece \in Pieces
    BY <1>1 DEF Pieces, Takes
  <1>3. Take(a, l) = IF take <= 0 THEN a
                     ELSE [a EXCEPT !.left = a.left - take, !.capacity[l] = a.capacity[l] - take,
                                    !.pieces = Append(a.pieces, piece)]
    BY DEF Take
  <1>4. take > 0 => /\ Append(a.pieces, piece) \in Seq(Pieces) /\ a.left - take \in Nat
                    /\ [a.capacity EXCEPT ![l] = a.capacity[l] - take] \in [Lines -> Int]
    <2> HIDE DEF take, piece
    <2>1. QED
      BY <1>1, <1>2 DEF Takes
  <1> HIDE DEF take, piece
  <1>5. CASE take <= 0
    BY <1>3, <1>5
  <1>6. CASE take > 0
    <2>1. Take(a, l) = [a EXCEPT !.left = a.left - take, !.capacity[l] = a.capacity[l] - take,
                                 !.pieces = Append(a.pieces, piece)]
      BY <1>1, <1>3, <1>6
    <2>2. QED
      BY <1>4, <1>6, <2>1 DEF Takes
  <1>7. QED
    BY <1>1, <1>5, <1>6

TakeStep(list) ==
    [k \in Nat |-> [a \in Takes |->
        IF k \in 1..Len(list) THEN Take(a, list[k]) ELSE a]]

LEMMA TakeFold ==
  ASSUME NEW list \in Seq(Lines), NEW start \in Takes
  PROVE  FoldLeft(Take, start, list)
           \in Results(Takes, start, TakeStep(list), Len(list))
  <1> DEFINE n == Len(list)
             step == TakeStep(list)
             Computes(f) == f = [s \in SUBSET DOMAIN list |-> IF s = {} THEN start ELSE
                               Take(f[s \ {Max(s)}], list[Max(s)])]
             fold == CHOOSE f : Computes(f)
  <1>1. n \in Nat /\ DOMAIN list = 1..n /\ \A k \in 1..n : list[k] \in Lines
    OBVIOUS
  <1>2. start \in Takes
    OBVIOUS
  <1>3. step \in [Nat -> [Takes -> Takes]]
    BY <1>1, TakeTyped DEF TakeStep
  <1>4. PICK f : f \in Folds(Takes, start, step, n)
    <2> HIDE DEF step, n
    <2>1. n \in Nat
      BY <1>1
    <2>2. Folds(Takes, start, step, n) # {}
      BY <1>2, <1>3, <2>1, FoldsExist
    <2>3. QED
      BY <2>2
  <1>5. ASSUME NEW s \in SUBSET (1..n)
        PROVE  f[s] = IF s = {} THEN start ELSE Take(f[s \ {Max(s)}], list[Max(s)])
    <2>1. f[s] = IF s = {} THEN start ELSE step[Max(s)][f[s \ {Max(s)}]]
      BY <1>4 DEF Folds
    <2>2. s # {} => f[s \ {Max(s)}] \in Takes /\ Max(s) \in 1..n
      BY <1>1, <1>4, MaxIn DEF Folds
    <2> HIDE DEF step
    <2>3. QED
      BY <2>1, <2>2, <1>1 DEF step, TakeStep, n
  <1>6. f \in [SUBSET (1..n) -> Takes]
    BY <1>4 DEF Folds
  <1>7. Computes(f)
    BY <1>1, <1>5, <1>6
  <1>8. Computes(fold)
    BY <1>7
  <1>9. FoldLeft(Take, start, list) = fold[1..n]
    <2>1. FoldLeft(Take, start, list) = fold[DOMAIN list]
      BY DEF FoldLeft, MapThenFoldSet
    <2>2. QED
      BY <2>1, <1>1
  <1> HIDE DEF fold, n
  <1>10. fold[{}] = start
    BY <1>1, <1>8
  <1>11. ASSUME NEW k \in 1..n, fold[1..(k - 1)] \in Takes
         PROVE  fold[1..k] = step[k][fold[1..(k - 1)]]
    <2>1. /\ 1..k \in SUBSET (1..n) /\ 1..k # {} /\ (1..k) \ {k} = 1..(k - 1)
          /\ Max(1..k) = k
      BY <1>1, Prefix
    <2>2. fold[1..k] = Take(fold[(1..k) \ {Max(1..k)}], list[Max(1..k)])
      BY <2>1, <1>1, <1>8
    <2>3. fold[1..k] = Take(fold[1..(k - 1)], list[k])
      BY <2>1, <2>2
    <2>4. k \in Nat /\ step[k][fold[1..(k - 1)]] = Take(fold[1..(k - 1)], list[k])
      BY <1>1, <1>11 DEF step, TakeStep, n
    <2>5. QED
      BY <2>3, <2>4
  <1> HIDE DEF step
  <1>12. fold[1..n] \in Results(Takes, start, step, n)
    BY <1>1, <1>2, <1>3, <1>10, <1>11, Unfolds
  <1>13. QED
    BY <1>9, <1>12 DEF step, n

LEMMA CandidatesTyped ==
  ASSUME NEW ref
  PROVE  Candidates(ref) \in Seq(Lines)
  <1>1. CASE ref.line \in Lines
    BY <1>1 DEF Candidates
  <1>2. CASE ref.line \notin Lines
    BY <1>2, AllLines, AmongIs DEF Candidates, Keys
  <1>3. QED
    BY <1>1, <1>2

(* Placing a reference leaves no negative count.                           *)
LEMMA PlaceTyped ==
  ASSUME NEW acc \in Placings, NEW ref \in Counted
  PROVE  Place(acc, ref) \in Placings
  <1> DEFINE start == [ref |-> ref, left |-> ref.quantity, capacity |-> acc.capacity, pieces |-> acc.pieces]
             done == FoldLeft(Take, start, Candidates(ref))
  <1>1. start \in Takes
    BY DEF Takes, Placings, Counted
  <1>2. done \in Takes
    <2>1. Candidates(ref) \in Seq(Lines) /\ Len(Candidates(ref)) \in Nat
      BY CandidatesTyped
    <2> HIDE DEF start
    <2>2. done \in Results(Takes, start, TakeStep(Candidates(ref)), Len(Candidates(ref)))
      BY <1>1, <2>1, TakeFold
    <2> HIDE DEF done
    <2>3. QED
      BY <2>1, <2>2, ResultsTyped
  <1>3. Place(acc, ref) = [capacity |-> done.capacity, pieces |-> done.pieces,
                           unresolved |-> acc.unresolved + done.left]
    BY DEF Place
  <1> HIDE DEF done
  <1>4. QED
    BY <1>2, <1>3 DEF Takes, Placings

PlaceStep(list) ==
    [k \in Nat |-> [a \in Placings |->
        IF k \in 1..Len(list) THEN Place(a, list[k]) ELSE a]]

LEMMA PlaceFold ==
  ASSUME NEW list \in Seq(Counted), NEW start \in Placings
  PROVE  FoldLeft(Place, start, list)
           \in Results(Placings, start, PlaceStep(list), Len(list))
  <1> DEFINE n == Len(list)
             step == PlaceStep(list)
             Computes(f) == f = [s \in SUBSET DOMAIN list |-> IF s = {} THEN start ELSE
                               Place(f[s \ {Max(s)}], list[Max(s)])]
             fold == CHOOSE f : Computes(f)
  <1>1. n \in Nat /\ DOMAIN list = 1..n /\ \A k \in 1..n : list[k] \in Counted
    OBVIOUS
  <1>2. start \in Placings
    OBVIOUS
  <1>3. step \in [Nat -> [Placings -> Placings]]
    BY <1>1, PlaceTyped DEF PlaceStep
  <1>4. PICK f : f \in Folds(Placings, start, step, n)
    <2> HIDE DEF step, n
    <2>1. n \in Nat
      BY <1>1
    <2>2. Folds(Placings, start, step, n) # {}
      BY <1>2, <1>3, <2>1, FoldsExist
    <2>3. QED
      BY <2>2
  <1>5. ASSUME NEW s \in SUBSET (1..n)
        PROVE  f[s] = IF s = {} THEN start ELSE Place(f[s \ {Max(s)}], list[Max(s)])
    <2>1. f[s] = IF s = {} THEN start ELSE step[Max(s)][f[s \ {Max(s)}]]
      BY <1>4 DEF Folds
    <2>2. s # {} => f[s \ {Max(s)}] \in Placings /\ Max(s) \in 1..n
      BY <1>1, <1>4, MaxIn DEF Folds
    <2> HIDE DEF step
    <2>3. QED
      BY <2>1, <2>2, <1>1 DEF step, PlaceStep, n
  <1>6. f \in [SUBSET (1..n) -> Placings]
    BY <1>4 DEF Folds
  <1>7. Computes(f)
    BY <1>1, <1>5, <1>6
  <1>8. Computes(fold)
    BY <1>7
  <1>9. FoldLeft(Place, start, list) = fold[1..n]
    <2>1. FoldLeft(Place, start, list) = fold[DOMAIN list]
      BY DEF FoldLeft, MapThenFoldSet
    <2>2. QED
      BY <2>1, <1>1
  <1> HIDE DEF fold, n
  <1>10. fold[{}] = start
    BY <1>1, <1>8
  <1>11. ASSUME NEW k \in 1..n, fold[1..(k - 1)] \in Placings
         PROVE  fold[1..k] = step[k][fold[1..(k - 1)]]
    <2>1. /\ 1..k \in SUBSET (1..n) /\ 1..k # {} /\ (1..k) \ {k} = 1..(k - 1)
          /\ Max(1..k) = k
      BY <1>1, Prefix
    <2>2. fold[1..k] = Place(fold[(1..k) \ {Max(1..k)}], list[Max(1..k)])
      BY <2>1, <1>1, <1>8
    <2>3. fold[1..k] = Place(fold[1..(k - 1)], list[k])
      BY <2>1, <2>2
    <2>4. k \in Nat /\ step[k][fold[1..(k - 1)]] = Place(fold[1..(k - 1)], list[k])
      BY <1>1, <1>11 DEF step, PlaceStep, n
    <2>5. QED
      BY <2>3, <2>4
  <1> HIDE DEF step
  <1>12. fold[1..n] \in Results(Placings, start, step, n)
    BY <1>1, <1>2, <1>3, <1>10, <1>11, Unfolds
  <1>13. QED
    BY <1>9, <1>12 DEF step, n

(* So does resolving them all.                                             *)
LEMMA ResolveLinesTyped ==
  ASSUME AmountsTyped, NEW refs \in Seq(Counted)
  PROVE  ResolveLines(refs) \in Placings
  <1> DEFINE start == [capacity |-> [l \in Lines |-> ordered[l].quantity], pieces |-> <<>>, unresolved |-> 0]
  <1>1. start \in Placings
    BY DEF Placings, AmountsTyped
  <1>2. ResolveLines(refs) = FoldLeft(Place, start, refs)
    BY DEF ResolveLines
  <1>3. Len(refs) \in Nat
    OBVIOUS
  <1> HIDE DEF start
  <1>4. FoldLeft(Place, start, refs) \in Results(Placings, start, PlaceStep(refs), Len(refs))
    BY <1>1, PlaceFold
  <1>5. QED
    BY <1>2, <1>3, <1>4, ResultsTyped

-----------------------------------------------------------------------------
(* Sums over the lines. *)

Totals == Int

LEMMA OverStepTyped ==
  ASSUME NEW f \in [Lines -> Int]
  PROVE  \A n \in Totals : \A l \in Lines : n + f[l] \in Totals
  BY DEF Totals

OverStep(what, list) ==
    [k \in Nat |-> [a \in Totals |->
        IF k \in 1..Len(list) THEN a + what[list[k]] ELSE a]]

LEMMA OverFold ==
  ASSUME NEW what \in [Lines -> Int], NEW list \in Seq(Lines)
  PROVE  FoldLeft(LAMBDA sum, l : sum + what[l], 0, list)
           \in Results(Totals, 0, OverStep(what, list), Len(list))
  <1> DEFINE n == Len(list)
             step == OverStep(what, list)
             Computes(f) == f = [s \in SUBSET DOMAIN list |-> IF s = {} THEN 0 ELSE
                               f[s \ {Max(s)}] + what[list[Max(s)]]]
             fold == CHOOSE f : Computes(f)
  <1>1. n \in Nat /\ DOMAIN list = 1..n /\ \A k \in 1..n : list[k] \in Lines
    OBVIOUS
  <1>2. 0 \in Totals
    BY DEF Totals
  <1>3. step \in [Nat -> [Totals -> Totals]]
    BY <1>1, OverStepTyped DEF OverStep
  <1>4. PICK f : f \in Folds(Totals, 0, step, n)
    <2> HIDE DEF step, n
    <2>1. n \in Nat
      BY <1>1
    <2>2. Folds(Totals, 0, step, n) # {}
      BY <1>2, <1>3, <2>1, FoldsExist
    <2>3. QED
      BY <2>2
  <1>5. ASSUME NEW s \in SUBSET (1..n)
        PROVE  f[s] = IF s = {} THEN 0 ELSE f[s \ {Max(s)}] + what[list[Max(s)]]
    <2>1. f[s] = IF s = {} THEN 0 ELSE step[Max(s)][f[s \ {Max(s)}]]
      BY <1>4 DEF Folds
    <2>2. s # {} => f[s \ {Max(s)}] \in Totals /\ Max(s) \in 1..n
      BY <1>1, <1>4, MaxIn DEF Folds
    <2> HIDE DEF step
    <2>3. QED
      BY <2>1, <2>2, <1>1 DEF step, OverStep, n
  <1>6. f \in [SUBSET (1..n) -> Totals]
    BY <1>4 DEF Folds
  <1>7. Computes(f)
    BY <1>1, <1>5, <1>6
  <1>8. Computes(fold)
    BY <1>7
  <1>9. FoldLeft(LAMBDA sum, l : sum + what[l], 0, list) = fold[1..n]
    <2>1. FoldLeft(LAMBDA sum, l : sum + what[l], 0, list) = fold[DOMAIN list]
      BY DEF FoldLeft, MapThenFoldSet
    <2>2. QED
      BY <2>1, <1>1
  <1> HIDE DEF fold, n
  <1>10. fold[{}] = 0
    BY <1>1, <1>8
  <1>11. ASSUME NEW k \in 1..n, fold[1..(k - 1)] \in Totals
         PROVE  fold[1..k] = step[k][fold[1..(k - 1)]]
    <2>1. /\ 1..k \in SUBSET (1..n) /\ 1..k # {} /\ (1..k) \ {k} = 1..(k - 1)
          /\ Max(1..k) = k
      BY <1>1, Prefix
    <2>2. fold[1..k] = fold[(1..k) \ {Max(1..k)}] + what[list[Max(1..k)]]
      BY <2>1, <1>1, <1>8
    <2>3. fold[1..k] = fold[1..(k - 1)] + what[list[k]]
      BY <2>1, <2>2
    <2>4. k \in Nat /\ step[k][fold[1..(k - 1)]] = fold[1..(k - 1)] + what[list[k]]
      BY <1>1, <1>11 DEF step, OverStep, n
    <2>5. QED
      BY <2>3, <2>4
  <1> HIDE DEF step
  <1>12. fold[1..n] \in Results(Totals, 0, step, n)
    BY <1>1, <1>2, <1>3, <1>10, <1>11, Unfolds
  <1>13. QED
    BY <1>9, <1>12 DEF step, n

Partials(f) == {t \in [0..LineCount -> Int] : t[0] = 0 /\ \A k \in Lines : t[k] = t[k - 1] + f[k]}

(* The sum over the lines, as the last of its partial sums.                *)
LEMMA OverIs ==
  ASSUME NEW f \in [Lines -> Int]
  PROVE  \E t \in Partials(f) : OverLines(f) = t[LineCount]
  <1> DEFINE all == [l \in Lines |-> l]
  <1>1. LineCount \in Nat /\ all \in Seq(Lines) /\ Len(all) = LineCount /\ Lines = 1..LineCount
        /\ \A k \in Lines : all[k] = k
    BY AllLines, AmountsAssumption DEF Keys, Lines
  <1>2. OverLines(f) = FoldLeft(LAMBDA sum, l : sum + f[l], 0, all)
    BY DEF OverLines
  <1> HIDE DEF all
  <1>3. OverLines(f) \in Results(Totals, 0, OverStep(f, all), Len(all))
    BY <1>1, <1>2, OverFold
  <1>4. PICK t \in Runs(Totals, 0, OverStep(f, all), LineCount) : OverLines(f) = t[LineCount]
    BY <1>1, <1>3 DEF Results
  <1>5. t \in [0..LineCount -> Int] /\ t[0] = 0
    BY <1>4 DEF Runs, Totals
  <1>6. ASSUME NEW k \in Lines PROVE t[k] = t[k - 1] + f[k]
    <2>1. k \in 1..LineCount /\ k \in 1..Len(all) /\ k \in Nat /\ k - 1 \in 0..LineCount
      BY <1>1
    <2>2. t[k] = OverStep(f, all)[k][t[k - 1]]
      BY <1>4, <2>1 DEF Runs
    <2>3. t[k - 1] \in Totals
      BY <1>5, <2>1 DEF Totals
    <2>4. QED
      BY <1>1, <2>1, <2>2, <2>3 DEF OverStep
  <1>7. QED
    BY <1>4, <1>5, <1>6 DEF Partials

(* What holds after each line holds after all. *)
LEMMA OverAll ==
  ASSUME NEW S, 0 \in S, \A k \in Lines : k - 1 \in S /\ k \in 1..LineCount /\ k - 1 \in 0..LineCount => k \in S
  PROVE  LineCount \in S
  <1>1. LineCount \in Nat /\ Lines = 1..LineCount
    BY AmountsAssumption DEF Lines
  <1>2. \A k \in 1..LineCount : k - 1 \in S => k \in S
    BY <1>1
  <1>3. 0..LineCount \subseteq S
    BY <1>1, <1>2, HoldsThroughout
  <1>4. QED
    BY <1>1, <1>3

LEMMA OverTyped ==
  ASSUME NEW f \in [Lines -> Int]
  PROVE  OverLines(f) \in Int
  BY OverIs, AmountsAssumption DEF Partials

(* To add to one line adds to the sum.                                     *)
LEMMA OverPlus ==
  ASSUME NEW f \in [Lines -> Int], NEW l \in Lines, NEW n \in Int
  PROVE  /\ Plus(f, l, n) \in [Lines -> Int]
         /\ OverLines(Plus(f, l, n)) = OverLines(f) + n
  <1> DEFINE g == Plus(f, l, n)
  <1>1. g \in [Lines -> Int] /\ g[l] = f[l] + n /\ \A k \in Lines \ {l} : g[k] = f[k]
    BY DEF Plus
  <1> HIDE DEF g
  <1>2. PICK t \in Partials(f) : OverLines(f) = t[LineCount]
    BY OverIs
  <1>3. PICK u \in Partials(g) : OverLines(g) = u[LineCount]
    BY <1>1, OverIs
  <1>4. /\ t \in [0..LineCount -> Int] /\ t[0] = 0 /\ \A k \in Lines : t[k] = t[k - 1] + f[k]
        /\ u \in [0..LineCount -> Int] /\ u[0] = 0 /\ \A k \in Lines : u[k] = u[k - 1] + g[k]
        /\ l \in 1..LineCount /\ LineCount \in Nat /\ Lines = 1..LineCount
    BY <1>2, <1>3, AmountsAssumption DEF Partials, Lines
  <1> DEFINE S == {k \in 0..LineCount : u[k] = t[k] + (IF k >= l THEN n ELSE 0)}
  <1>5. 0 \in S
    BY <1>4
  <1>6. ASSUME NEW k \in Lines, k - 1 \in S, k \in 1..LineCount, k - 1 \in 0..LineCount PROVE k \in S
    <2>1. /\ u[k - 1] = t[k - 1] + (IF k - 1 >= l THEN n ELSE 0)
          /\ t[k] = t[k - 1] + f[k] /\ u[k] = u[k - 1] + g[k]
          /\ t[k - 1] \in Int /\ f[k] \in Int /\ k \in 0..LineCount /\ k \in Int /\ l \in Int
      <3>1. u[k - 1] = t[k - 1] + (IF k - 1 >= l THEN n ELSE 0)
        BY <1>6
      <3>2. t[k] = t[k - 1] + f[k] /\ u[k] = u[k - 1] + g[k]
        BY <1>4
      <3>3. t[k - 1] \in Int /\ f[k] \in Int /\ k \in 0..LineCount /\ k \in Int /\ l \in Int
        BY <1>4, <1>6
      <3>4. QED
        BY <3>1, <3>2, <3>3
    <2>2. CASE k = l
      <3>1. g[k] = f[k] + n
        BY <1>1, <2>2
      <3>2. u[k] = t[k] + n
        BY <2>1, <2>2, <3>1
      <3>3. QED
        BY <2>1, <2>2, <3>2
    <2>3. CASE k # l
      <3>1. g[k] = f[k] /\ (k - 1 >= l <=> k >= l)
        BY <1>1, <2>1, <2>3
      <3>2. u[k] = t[k] + (IF k >= l THEN n ELSE 0)
        BY <2>1, <3>1
      <3>3. QED
        BY <2>1, <3>2
    <2>4. QED
      BY <2>2, <2>3
  <1> HIDE DEF S
  <1>7. LineCount \in S
    BY <1>5, <1>6, OverAll
  <1>8. QED
    BY <1>1, <1>2, <1>3, <1>4, <1>7 DEF S, g

(* The sum of two functions, line by line.                                 *)
LEMMA OverAdd ==
  ASSUME NEW f \in [Lines -> Int], NEW g \in [Lines -> Int], NEW h \in [Lines -> Int],
         \A l \in Lines : h[l] = f[l] + g[l]
  PROVE  OverLines(h) = OverLines(f) + OverLines(g)
  <1>1. PICK t \in Partials(f) : OverLines(f) = t[LineCount]
    BY OverIs
  <1>2. PICK u \in Partials(g) : OverLines(g) = u[LineCount]
    BY OverIs
  <1>3. PICK v \in Partials(h) : OverLines(h) = v[LineCount]
    BY OverIs
  <1>4. /\ t \in [0..LineCount -> Int] /\ t[0] = 0 /\ \A k \in Lines : t[k] = t[k - 1] + f[k]
        /\ u \in [0..LineCount -> Int] /\ u[0] = 0 /\ \A k \in Lines : u[k] = u[k - 1] + g[k]
        /\ v \in [0..LineCount -> Int] /\ v[0] = 0 /\ \A k \in Lines : v[k] = v[k - 1] + h[k]
        /\ LineCount \in Nat
    BY <1>1, <1>2, <1>3, AmountsAssumption DEF Partials
  <1> DEFINE S == {k \in 0..LineCount : v[k] = t[k] + u[k]}
  <1>5. 0 \in S
    BY <1>4
  <1>6. ASSUME NEW k \in Lines, k - 1 \in S, k \in 1..LineCount, k - 1 \in 0..LineCount PROVE k \in S
    <2>1. /\ v[k - 1] = t[k - 1] + u[k - 1] /\ h[k] = f[k] + g[k]
          /\ t[k] = t[k - 1] + f[k] /\ u[k] = u[k - 1] + g[k] /\ v[k] = v[k - 1] + h[k]
          /\ t[k - 1] \in Int /\ u[k - 1] \in Int /\ f[k] \in Int /\ g[k] \in Int /\ k \in 0..LineCount
      BY <1>4, <1>6
    <2>2. QED
      BY <2>1
  <1> HIDE DEF S
  <1>7. LineCount \in S
    BY <1>5, <1>6, OverAll
  <1>8. QED
    BY <1>1, <1>2, <1>3, <1>7 DEF S

(* A sum is bounded by what bounds its terms.                              *)
LEMMA OverBetween ==
  ASSUME NEW f \in [Lines -> Int], \A l \in Lines : f[l] \in -6..18
  PROVE  /\ -6 * LineCount <= OverLines(f) /\ OverLines(f) <= 18 * LineCount
         /\ (\A l \in Lines : f[l] = 0) => OverLines(f) = 0
  <1>1. PICK t \in Partials(f) : OverLines(f) = t[LineCount]
    BY OverIs
  <1>2. /\ t \in [0..LineCount -> Int] /\ t[0] = 0 /\ \A k \in Lines : t[k] = t[k - 1] + f[k]
        /\ LineCount \in Nat
    BY <1>1, AmountsAssumption DEF Partials
  <1> DEFINE S == {k \in 0..LineCount : /\ -6 * k <= t[k] /\ t[k] <= 18 * k
                                        /\ (\A l \in Lines : f[l] = 0) => t[k] = 0}
  <1>3. 0 \in S
    BY <1>2
  <1>4. ASSUME NEW k \in Lines, k - 1 \in S, k \in 1..LineCount, k - 1 \in 0..LineCount PROVE k \in S
    <2>1. /\ -6 * (k - 1) <= t[k - 1] /\ t[k - 1] <= 18 * (k - 1)
          /\ (\A l \in Lines : f[l] = 0) => t[k - 1] = 0
          /\ t[k] = t[k - 1] + f[k] /\ t[k - 1] \in Int /\ f[k] \in -6..18 /\ k \in 0..LineCount /\ k \in Int
      BY <1>2, <1>4
    <2>2. -6 * k <= t[k] /\ t[k] <= 18 * k
      BY <2>1
    <2>3. (\A l \in Lines : f[l] = 0) => t[k] = 0
      BY <2>1
    <2>4. QED
      BY <2>1, <2>2, <2>3
  <1> HIDE DEF S
  <1>5. LineCount \in S
    BY <1>3, <1>4, OverAll
  <1>6. QED
    BY <1>1, <1>5 DEF S

-----------------------------------------------------------------------------
(* buildRefunds: what each step adds, and what it leaves. *)

Gestures == [acc : Untouched, left : Nat]
Spreads == [acc : Entries, left : Nat]

(* A step of the price gesture moves money from what is left to a line.    *)
LEMMA AddGestureTyped ==
  ASSUME AmountsTyped
  PROVE  \A spread \in Gestures : \A l \in Lines :
            /\ AddGesture(spread, l) \in Gestures
            /\ \/ AddGesture(spread, l) = spread
               \/ \E take \in 1..spread.left :
                     /\ Amounts(AddGesture(spread, l).acc) = Plus(Amounts(spread.acc), l, take)
                     /\ AddGesture(spread, l).left = Round2(spread.left - take)
  <1> SUFFICES ASSUME NEW spread \in Gestures, NEW l \in Lines
               PROVE  /\ AddGesture(spread, l) \in Gestures
                      /\ \/ AddGesture(spread, l) = spread
                         \/ \E take \in 1..spread.left :
                               /\ Amounts(AddGesture(spread, l).acc) = Plus(Amounts(spread.acc), l, take)
                               /\ AddGesture(spread, l).left = Round2(spread.left - take)
    OBVIOUS
  <1> DEFINE take == Min({spread.left, Remaining(l).amount - spread.acc.of[l].amount})
             acc == AddTo(spread.acc, l, 0, take, 0)
  <1>1. /\ spread.left \in Nat /\ spread.acc \in Entries
        /\ \A k \in Lines : Shipped(spread.acc)[k] = 0
        /\ spread.acc.of[l].amount \in Int /\ Remaining(l).amount \in Int
    BY RemainingTyped, EntriesMoney, Round2Is DEF Gestures, Untouched
  <1>2. take \in Int /\ take <= spread.left
    BY <1>1, MinIs
  <1>3. AddGesture(spread, l) = IF spread.left <= 0 \/ take <= 0 THEN spread
                                ELSE [acc |-> acc, left |-> Round2(spread.left - take)]
    BY DEF AddGesture
  <1> HIDE DEF take
  <1>4. CASE spread.left <= 0 \/ take <= 0
    BY <1>3, <1>4
  <1>5. CASE ~(spread.left <= 0 \/ take <= 0)
    <2>1. AddGesture(spread, l) = [acc |-> acc, left |-> Round2(spread.left - take)]
          /\ take \in 1..spread.left /\ take \in Nat
      BY <1>1, <1>2, <1>3, <1>5
    <2> DEFINE new == acc
    <2>2. new = AddTo(spread.acc, l, 0, take, 0)
      OBVIOUS
    <2> HIDE DEF new
    <2>3. 0 \in Nat /\ 0 \in Int
      OBVIOUS
    <2>4. new \in Entries /\ Shipped(new) = Shipped(spread.acc) /\ Amounts(new) = Plus(Amounts(spread.acc), l, take)
      BY <1>1, <2>1, <2>2, <2>3, AddToTyped
    <2>5. new \in Untouched
      BY <1>1, <2>4 DEF Untouched
    <2>6. Round2(spread.left - take) \in Nat
      <3> DEFINE rest == spread.left - take
      <3>1. rest \in Int /\ rest >= 0
        BY <1>1, <1>2
      <3> HIDE DEF rest
      <3>2. Round2(rest) \in Int /\ Round2(rest) >= 0
        BY <3>1, Round2Is
      <3>3. QED
        BY <3>2 DEF rest
    <2>7. AddGesture(spread, l) = [acc |-> new, left |-> Round2(spread.left - take)]
      BY <2>1 DEF new
    <2> HIDE DEF acc
    <2>8. QED
      BY <2>1, <2>4, <2>5, <2>6, <2>7 DEF Gestures
  <1>6. QED
    BY <1>4, <1>5

(* So does a step of the shipping refund, no more than the line has left.  *)
LEMMA AddShippingTyped ==
  ASSUME AmountsTyped
  PROVE  \A spread \in Spreads : \A l \in Lines :
            /\ AddShipping(spread, l) \in Spreads
            /\ \/ AddShipping(spread, l) = spread
               \/ \E take \in 1..spread.left :
                     /\ Shipped(AddShipping(spread, l).acc) = Plus(Shipped(spread.acc), l, take)
                     /\ Amounts(AddShipping(spread, l).acc) = Amounts(spread.acc)
                     /\ AddShipping(spread, l).left = Round2(spread.left - take)
                     /\ take <= Remaining(l).shipping
                     /\ spread.left \in Cents => take \in Cents
  <1> SUFFICES ASSUME NEW spread \in Spreads, NEW l \in Lines
               PROVE  /\ AddShipping(spread, l) \in Spreads
                      /\ \/ AddShipping(spread, l) = spread
                         \/ \E take \in 1..spread.left :
                               /\ Shipped(AddShipping(spread, l).acc) = Plus(Shipped(spread.acc), l, take)
                               /\ Amounts(AddShipping(spread, l).acc) = Amounts(spread.acc)
                               /\ AddShipping(spread, l).left = Round2(spread.left - take)
                               /\ take <= Remaining(l).shipping
                               /\ spread.left \in Cents => take \in Cents
    OBVIOUS
  <1> DEFINE take == Min({spread.left, Remaining(l).shipping})
             acc == AddTo(spread.acc, l, 0, 0, take)
  <1>1. /\ spread.left \in Nat /\ spread.acc \in Entries
        /\ Remaining(l).shipping \in Int /\ Remaining(l).shipping \in Cents
    BY RemainingTyped, Round2Is DEF Spreads
  <1>2. take \in Int /\ take <= spread.left /\ take <= Remaining(l).shipping
        /\ (spread.left \in Cents => take \in Cents)
    BY <1>1, MinIs
  <1>3. AddShipping(spread, l) = IF spread.left <= 0 \/ take <= 0 THEN spread
                                 ELSE [acc |-> acc, left |-> Round2(spread.left - take)]
    BY DEF AddShipping
  <1> HIDE DEF take
  <1>4. CASE spread.left <= 0 \/ take <= 0
    BY <1>3, <1>4
  <1>5. CASE ~(spread.left <= 0 \/ take <= 0)
    <2>1. AddShipping(spread, l) = [acc |-> acc, left |-> Round2(spread.left - take)]
          /\ take \in 1..spread.left /\ take \in Nat
      BY <1>1, <1>2, <1>3, <1>5
    <2> DEFINE new == acc
    <2>2. new = AddTo(spread.acc, l, 0, 0, take)
      OBVIOUS
    <2> HIDE DEF new
    <2>3. 0 \in Nat /\ 0 \in Int
      OBVIOUS
    <2>4. new \in Entries /\ Amounts(new) = Amounts(spread.acc) /\ Shipped(new) = Plus(Shipped(spread.acc), l, take)
      BY <1>1, <2>1, <2>2, <2>3, AddToTyped
    <2>5. Round2(spread.left - take) \in Nat
      <3> DEFINE rest == spread.left - take
      <3>1. rest \in Int /\ rest >= 0
        BY <1>1, <1>2
      <3> HIDE DEF rest
      <3>2. Round2(rest) \in Int /\ Round2(rest) >= 0
        BY <3>1, Round2Is
      <3>3. QED
        BY <3>2 DEF rest
    <2>6. AddShipping(spread, l) = [acc |-> new, left |-> Round2(spread.left - take)]
      BY <2>1 DEF new
    <2> HIDE DEF acc
    <2>7. QED
      BY <1>2, <2>1, <2>4, <2>5, <2>6 DEF Spreads
  <1>6. QED
    BY <1>4, <1>5

GestureStep(list) ==
    [k \in Nat |-> [a \in Gestures |->
        IF k \in 1..Len(list) THEN AddGesture(a, list[k]) ELSE a]]

LEMMA GestureFold ==
  ASSUME AmountsTyped, NEW list \in Seq(Lines), NEW start \in Gestures
  PROVE  FoldLeft(AddGesture, start, list)
           \in Results(Gestures, start, GestureStep(list), Len(list))
  <1> DEFINE n == Len(list)
             step == GestureStep(list)
             Computes(f) == f = [s \in SUBSET DOMAIN list |-> IF s = {} THEN start ELSE
                               AddGesture(f[s \ {Max(s)}], list[Max(s)])]
             fold == CHOOSE f : Computes(f)
  <1>1. n \in Nat /\ DOMAIN list = 1..n /\ \A k \in 1..n : list[k] \in Lines
    OBVIOUS
  <1>2. start \in Gestures
    OBVIOUS
  <1>3. step \in [Nat -> [Gestures -> Gestures]]
    BY <1>1, AddGestureTyped DEF GestureStep
  <1>4. PICK f : f \in Folds(Gestures, start, step, n)
    <2> HIDE DEF step, n
    <2>1. n \in Nat
      BY <1>1
    <2>2. Folds(Gestures, start, step, n) # {}
      BY <1>2, <1>3, <2>1, FoldsExist
    <2>3. QED
      BY <2>2
  <1>5. ASSUME NEW s \in SUBSET (1..n)
        PROVE  f[s] = IF s = {} THEN start ELSE AddGesture(f[s \ {Max(s)}], list[Max(s)])
    <2>1. f[s] = IF s = {} THEN start ELSE step[Max(s)][f[s \ {Max(s)}]]
      BY <1>4 DEF Folds
    <2>2. s # {} => f[s \ {Max(s)}] \in Gestures /\ Max(s) \in 1..n
      BY <1>1, <1>4, MaxIn DEF Folds
    <2> HIDE DEF step
    <2>3. QED
      BY <2>1, <2>2, <1>1 DEF step, GestureStep, n
  <1>6. f \in [SUBSET (1..n) -> Gestures]
    BY <1>4 DEF Folds
  <1>7. Computes(f)
    BY <1>1, <1>5, <1>6
  <1>8. Computes(fold)
    BY <1>7
  <1>9. FoldLeft(AddGesture, start, list) = fold[1..n]
    <2>1. FoldLeft(AddGesture, start, list) = fold[DOMAIN list]
      BY DEF FoldLeft, MapThenFoldSet
    <2>2. QED
      BY <2>1, <1>1
  <1> HIDE DEF fold, n
  <1>10. fold[{}] = start
    BY <1>1, <1>8
  <1>11. ASSUME NEW k \in 1..n, fold[1..(k - 1)] \in Gestures
         PROVE  fold[1..k] = step[k][fold[1..(k - 1)]]
    <2>1. /\ 1..k \in SUBSET (1..n) /\ 1..k # {} /\ (1..k) \ {k} = 1..(k - 1)
          /\ Max(1..k) = k
      BY <1>1, Prefix
    <2>2. fold[1..k] = AddGesture(fold[(1..k) \ {Max(1..k)}], list[Max(1..k)])
      BY <2>1, <1>1, <1>8
    <2>3. fold[1..k] = AddGesture(fold[1..(k - 1)], list[k])
      BY <2>1, <2>2
    <2>4. k \in Nat /\ step[k][fold[1..(k - 1)]] = AddGesture(fold[1..(k - 1)], list[k])
      BY <1>1, <1>11 DEF step, GestureStep, n
    <2>5. QED
      BY <2>3, <2>4
  <1> HIDE DEF step
  <1>12. fold[1..n] \in Results(Gestures, start, step, n)
    BY <1>1, <1>2, <1>3, <1>10, <1>11, Unfolds
  <1>13. QED
    BY <1>9, <1>12 DEF step, n

ShippingStep(list) ==
    [k \in Nat |-> [a \in Spreads |->
        IF k \in 1..Len(list) THEN AddShipping(a, list[k]) ELSE a]]

LEMMA ShippingFold ==
  ASSUME AmountsTyped, NEW list \in Seq(Lines), NEW start \in Spreads
  PROVE  FoldLeft(AddShipping, start, list)
           \in Results(Spreads, start, ShippingStep(list), Len(list))
  <1> DEFINE n == Len(list)
             step == ShippingStep(list)
             Computes(f) == f = [s \in SUBSET DOMAIN list |-> IF s = {} THEN start ELSE
                               AddShipping(f[s \ {Max(s)}], list[Max(s)])]
             fold == CHOOSE f : Computes(f)
  <1>1. n \in Nat /\ DOMAIN list = 1..n /\ \A k \in 1..n : list[k] \in Lines
    OBVIOUS
  <1>2. start \in Spreads
    OBVIOUS
  <1>3. step \in [Nat -> [Spreads -> Spreads]]
    BY <1>1, AddShippingTyped DEF ShippingStep
  <1>4. PICK f : f \in Folds(Spreads, start, step, n)
    <2> HIDE DEF step, n
    <2>1. n \in Nat
      BY <1>1
    <2>2. Folds(Spreads, start, step, n) # {}
      BY <1>2, <1>3, <2>1, FoldsExist
    <2>3. QED
      BY <2>2
  <1>5. ASSUME NEW s \in SUBSET (1..n)
        PROVE  f[s] = IF s = {} THEN start ELSE AddShipping(f[s \ {Max(s)}], list[Max(s)])
    <2>1. f[s] = IF s = {} THEN start ELSE step[Max(s)][f[s \ {Max(s)}]]
      BY <1>4 DEF Folds
    <2>2. s # {} => f[s \ {Max(s)}] \in Spreads /\ Max(s) \in 1..n
      BY <1>1, <1>4, MaxIn DEF Folds
    <2> HIDE DEF step
    <2>3. QED
      BY <2>1, <2>2, <1>1 DEF step, ShippingStep, n
  <1>6. f \in [SUBSET (1..n) -> Spreads]
    BY <1>4 DEF Folds
  <1>7. Computes(f)
    BY <1>1, <1>5, <1>6
  <1>8. Computes(fold)
    BY <1>7
  <1>9. FoldLeft(AddShipping, start, list) = fold[1..n]
    <2>1. FoldLeft(AddShipping, start, list) = fold[DOMAIN list]
      BY DEF FoldLeft, MapThenFoldSet
    <2>2. QED
      BY <2>1, <1>1
  <1> HIDE DEF fold, n
  <1>10. fold[{}] = start
    BY <1>1, <1>8
  <1>11. ASSUME NEW k \in 1..n, fold[1..(k - 1)] \in Spreads
         PROVE  fold[1..k] = step[k][fold[1..(k - 1)]]
    <2>1. /\ 1..k \in SUBSET (1..n) /\ 1..k # {} /\ (1..k) \ {k} = 1..(k - 1)
          /\ Max(1..k) = k
      BY <1>1, Prefix
    <2>2. fold[1..k] = AddShipping(fold[(1..k) \ {Max(1..k)}], list[Max(1..k)])
      BY <2>1, <1>1, <1>8
    <2>3. fold[1..k] = AddShipping(fold[1..(k - 1)], list[k])
      BY <2>1, <2>2
    <2>4. k \in Nat /\ step[k][fold[1..(k - 1)]] = AddShipping(fold[1..(k - 1)], list[k])
      BY <1>1, <1>11 DEF step, ShippingStep, n
    <2>5. QED
      BY <2>3, <2>4
  <1> HIDE DEF step
  <1>12. fold[1..n] \in Results(Spreads, start, step, n)
    BY <1>1, <1>2, <1>3, <1>10, <1>11, Unfolds
  <1>13. QED
    BY <1>9, <1>12 DEF step, n

-----------------------------------------------------------------------------
(* Sums over lists. *)

(* The sums of the first k weights. *)
Running(w, n) == {t \in [0..n -> Nat] : t[0] = 0 /\ \A k \in 1..n : t[k] = t[k - 1] + w[k]}

LEMMA RunningTyped ==
  ASSUME NEW w, NEW n \in Nat, NEW t \in Running(w, n)
  PROVE  t[n] \in Nat /\ (n = 0 => t[n] = 0)
  BY DEF Running

(* Partial sums depend on the terms they sum up only.                      *)
LEMMA RunningSame ==
  ASSUME NEW n \in Nat, NEW m \in Nat, n <= m, NEW w, NEW v, NEW t \in Running(w, n),
         NEW u \in Running(v, m), \A k \in 1..n : w[k] = v[k]
  PROVE  t[n] = u[n]
  <1>1. /\ t \in [0..n -> Nat] /\ t[0] = 0 /\ \A k \in 1..n : t[k] = t[k - 1] + w[k]
        /\ u \in [0..m -> Nat] /\ u[0] = 0 /\ \A k \in 1..m : u[k] = u[k - 1] + v[k]
    BY DEF Running
  <1> DEFINE S == {k \in 0..n : t[k] = u[k]}
  <1>2. 0 \in S
    BY <1>1
  <1>3. ASSUME NEW k \in 1..n, k - 1 \in S PROVE k \in S
    <2>1. t[k] = t[k - 1] + w[k] /\ u[k] = u[k - 1] + v[k] /\ k \in 0..n
      BY <1>1
    <2>2. t[k - 1] = u[k - 1] /\ w[k] = v[k]
      BY <1>3
    <2>3. QED
      BY <2>1, <2>2
  <1> HIDE DEF S
  <1>4. 0..n \subseteq S
    BY <1>2, <1>3, HoldsThroughout
  <1>5. QED
    BY <1>4 DEF S

Costs(list) == [k \in 1..Len(list) |-> list[k].amount]

LEMMA SumIs ==
  ASSUME NEW list \in Seq(Counted)
  PROVE  \E t \in Running(Costs(list), Len(list)) : SumOf(list) = t[Len(list)]
  <1>1. Len(list) \in Nat
    OBVIOUS
  <1>2. PICK t \in Runs(Sums, 0, SumStep(list), Len(list)) : SumOf(list) = t[Len(list)]
    <2>1. SumOf(list) \in Results(Sums, 0, SumStep(list), Len(list))
      BY SumFold
    <2>2. QED
      BY <2>1 DEF Results
  <1>3. t \in [0..Len(list) -> Nat] /\ t[0] = 0
    BY <1>2 DEF Runs, Sums
  <1>4. ASSUME NEW k \in 1..Len(list) PROVE t[k] = t[k - 1] + Costs(list)[k]
    <2>1. t[k] = SumStep(list)[k][t[k - 1]] /\ k \in Nat
      BY <1>1, <1>2 DEF Runs
    <2>2. t[k - 1] \in Sums
      BY <1>1, <1>3 DEF Sums
    <2>3. QED
      BY <2>1, <2>2 DEF SumStep, Costs
  <1>5. t \in Running(Costs(list), Len(list))
    BY <1>3, <1>4 DEF Running
  <1>6. QED
    BY <1>2, <1>5

(* To append a reference adds its amount.                                  *)
LEMMA SumAppend ==
  /\ SumOf(<<>>) = 0
  /\ \A list \in Seq(Counted) : \A ref \in Counted :
        /\ SumOf(list) \in Nat
        /\ SumOf(Append(list, ref)) = SumOf(list) + ref.amount
  <1>1. SumOf(<<>>) = 0
    <2>1. <<>> \in Seq(Counted) /\ Len(<<>>) = 0
      OBVIOUS
    <2>2. PICK t \in Running(Costs(<<>>), 0) : SumOf(<<>>) = t[0]
      BY <2>1, SumIs
    <2>3. QED
      BY <2>2 DEF Running
  <1>2. ASSUME NEW list \in Seq(Counted), NEW ref \in Counted
        PROVE  /\ SumOf(list) \in Nat
               /\ SumOf(Append(list, ref)) = SumOf(list) + ref.amount
    <2> DEFINE more == Append(list, ref)
               n == Len(list)
    <2>1. /\ n \in Nat /\ more \in Seq(Counted) /\ Len(more) = n + 1 /\ more[n + 1] = ref
          /\ \A k \in 1..n : more[k] = list[k]
      OBVIOUS
    <2>2. PICK t \in Running(Costs(list), n) : SumOf(list) = t[n]
      BY SumIs
    <2> HIDE DEF more
    <2>3. PICK u \in Running(Costs(more), n + 1) : SumOf(more) = u[n + 1]
      BY <2>1, SumIs
    <2>4. \A k \in 1..n : Costs(list)[k] = Costs(more)[k]
      BY <2>1 DEF Costs
    <2> HIDE DEF n
    <2>5. t[n] = u[n] /\ t[n] \in Nat
      BY <2>1, <2>2, <2>3, <2>4, RunningSame, RunningTyped
    <2>6. u[n + 1] = u[n] + Costs(more)[n + 1]
      <3>1. n + 1 \in 1..(n + 1) /\ (n + 1) - 1 = n
        BY <2>1
      <3>2. QED
        BY <3>1 DEF Running
    <2>7. Costs(more)[n + 1] = ref.amount
      BY <2>1 DEF Costs
    <2>8. QED
      BY <2>2, <2>3, <2>5, <2>6, <2>7 DEF more
  <1>3. QED
    BY <1>1, <1>2

(* What the pieces are worth. *)
Worth(list) == FoldLeft(LAMBDA sum, piece : sum + Share(piece), 0, list)

LEMMA WorthTyped == \A sum \in Sums : \A piece \in Pieces : sum + Share(piece) \in Sums
  BY SharesTyped DEF Sums

WorthStep(list) ==
    [k \in Nat |-> [a \in Sums |->
        IF k \in 1..Len(list) THEN a + Share(list[k]) ELSE a]]

LEMMA WorthFold ==
  ASSUME NEW list \in Seq(Pieces)
  PROVE  Worth(list)
           \in Results(Sums, 0, WorthStep(list), Len(list))
  <1> DEFINE n == Len(list)
             step == WorthStep(list)
             Computes(f) == f = [s \in SUBSET DOMAIN list |-> IF s = {} THEN 0 ELSE
                               f[s \ {Max(s)}] + Share(list[Max(s)])]
             fold == CHOOSE f : Computes(f)
  <1>1. n \in Nat /\ DOMAIN list = 1..n /\ \A k \in 1..n : list[k] \in Pieces
    OBVIOUS
  <1>2. 0 \in Sums
    BY DEF Sums
  <1>3. step \in [Nat -> [Sums -> Sums]]
    BY <1>1, WorthTyped DEF WorthStep
  <1>4. PICK f : f \in Folds(Sums, 0, step, n)
    <2> HIDE DEF step, n
    <2>1. n \in Nat
      BY <1>1
    <2>2. Folds(Sums, 0, step, n) # {}
      BY <1>2, <1>3, <2>1, FoldsExist
    <2>3. QED
      BY <2>2
  <1>5. ASSUME NEW s \in SUBSET (1..n)
        PROVE  f[s] = IF s = {} THEN 0 ELSE f[s \ {Max(s)}] + Share(list[Max(s)])
    <2>1. f[s] = IF s = {} THEN 0 ELSE step[Max(s)][f[s \ {Max(s)}]]
      BY <1>4 DEF Folds
    <2>2. s # {} => f[s \ {Max(s)}] \in Sums /\ Max(s) \in 1..n
      BY <1>1, <1>4, MaxIn DEF Folds
    <2> HIDE DEF step
    <2>3. QED
      BY <2>1, <2>2, <1>1 DEF step, WorthStep, n
  <1>6. f \in [SUBSET (1..n) -> Sums]
    BY <1>4 DEF Folds
  <1>7. Computes(f)
    BY <1>1, <1>5, <1>6
  <1>8. Computes(fold)
    BY <1>7
  <1>9. Worth(list) = fold[1..n]
    <2>1. Worth(list) = fold[DOMAIN list]
      BY DEF FoldLeft, MapThenFoldSet, Worth
    <2>2. QED
      BY <2>1, <1>1
  <1> HIDE DEF fold, n
  <1>10. fold[{}] = 0
    BY <1>1, <1>8
  <1>11. ASSUME NEW k \in 1..n, fold[1..(k - 1)] \in Sums
         PROVE  fold[1..k] = step[k][fold[1..(k - 1)]]
    <2>1. /\ 1..k \in SUBSET (1..n) /\ 1..k # {} /\ (1..k) \ {k} = 1..(k - 1)
          /\ Max(1..k) = k
      BY <1>1, Prefix
    <2>2. fold[1..k] = fold[(1..k) \ {Max(1..k)}] + Share(list[Max(1..k)])
      BY <2>1, <1>1, <1>8
    <2>3. fold[1..k] = fold[1..(k - 1)] + Share(list[k])
      BY <2>1, <2>2
    <2>4. k \in Nat /\ step[k][fold[1..(k - 1)]] = fold[1..(k - 1)] + Share(list[k])
      BY <1>1, <1>11 DEF step, WorthStep, n
    <2>5. QED
      BY <2>3, <2>4
  <1> HIDE DEF step
  <1>12. fold[1..n] \in Results(Sums, 0, step, n)
    BY <1>1, <1>2, <1>3, <1>10, <1>11, Unfolds
  <1>13. QED
    BY <1>9, <1>12 DEF step, n

Shares(list) == [k \in 1..Len(list) |-> Share(list[k])]

LEMMA WorthIs ==
  ASSUME NEW list \in Seq(Pieces)
  PROVE  \E t \in Running(Shares(list), Len(list)) : Worth(list) = t[Len(list)]
  <1>1. Len(list) \in Nat
    OBVIOUS
  <1>2. PICK t \in Runs(Sums, 0, WorthStep(list), Len(list)) : Worth(list) = t[Len(list)]
    <2>1. Worth(list) \in Results(Sums, 0, WorthStep(list), Len(list))
      BY WorthFold
    <2>2. QED
      BY <2>1 DEF Results
  <1>3. t \in [0..Len(list) -> Nat] /\ t[0] = 0
    BY <1>2 DEF Runs, Sums
  <1>4. ASSUME NEW k \in 1..Len(list) PROVE t[k] = t[k - 1] + Shares(list)[k]
    <2>1. t[k] = WorthStep(list)[k][t[k - 1]] /\ k \in Nat
      BY <1>1, <1>2 DEF Runs
    <2>2. t[k - 1] \in Sums
      BY <1>1, <1>3 DEF Sums
    <2>3. QED
      BY <2>1, <2>2 DEF WorthStep, Shares
  <1>5. t \in Running(Shares(list), Len(list))
    BY <1>3, <1>4 DEF Running
  <1>6. QED
    BY <1>2, <1>5

(* To append a piece adds its share.                                       *)
LEMMA WorthAppend ==
  /\ Worth(<<>>) = 0
  /\ \A list \in Seq(Pieces) : \A piece \in Pieces :
        /\ Worth(list) \in Nat
        /\ Worth(Append(list, piece)) = Worth(list) + Share(piece)
  <1>1. Worth(<<>>) = 0
    <2>1. <<>> \in Seq(Pieces) /\ Len(<<>>) = 0
      OBVIOUS
    <2>2. PICK t \in Running(Shares(<<>>), 0) : Worth(<<>>) = t[0]
      BY <2>1, WorthIs
    <2>3. QED
      BY <2>2 DEF Running
  <1>2. ASSUME NEW list \in Seq(Pieces), NEW piece \in Pieces
        PROVE  /\ Worth(list) \in Nat
               /\ Worth(Append(list, piece)) = Worth(list) + Share(piece)
    <2> DEFINE more == Append(list, piece)
               n == Len(list)
    <2>1. /\ n \in Nat /\ more \in Seq(Pieces) /\ Len(more) = n + 1 /\ more[n + 1] = piece
          /\ \A k \in 1..n : more[k] = list[k]
      OBVIOUS
    <2>2. PICK t \in Running(Shares(list), n) : Worth(list) = t[n]
      BY WorthIs
    <2> HIDE DEF more
    <2>3. PICK u \in Running(Shares(more), n + 1) : Worth(more) = u[n + 1]
      BY <2>1, WorthIs
    <2>4. \A k \in 1..n : Shares(list)[k] = Shares(more)[k]
      BY <2>1 DEF Shares
    <2> HIDE DEF n
    <2>5. t[n] = u[n] /\ t[n] \in Nat
      BY <2>1, <2>2, <2>3, <2>4, RunningSame, RunningTyped
    <2>6. u[n + 1] = u[n] + Shares(more)[n + 1]
      <3>1. n + 1 \in 1..(n + 1) /\ (n + 1) - 1 = n
        BY <2>1
      <3>2. QED
        BY <3>1 DEF Running
    <2>7. Shares(more)[n + 1] = Share(piece)
      BY <2>1 DEF Shares
    <2>8. QED
      BY <2>2, <2>3, <2>5, <2>6, <2>7 DEF more
  <1>3. QED
    BY <1>1, <1>2

-----------------------------------------------------------------------------
(* Sums over the steps of buildRefunds. *)

(* At first no line has money.                                             *)
LEMMA EntriesTyped ==
  /\ NoEntries \in Untouched
  /\ OverLines(Amounts(NoEntries)) = 0
  <1>1. <<>> \in Keys
    BY DEF Keys, IsInjective
  <1>2. NoEntries \in Untouched
    BY <1>1 DEF NoEntries, Untouched, Entries, Money, Shipped
  <1>3. Amounts(NoEntries) \in [Lines -> Int] /\ \A l \in Lines : Amounts(NoEntries)[l] = 0
    BY DEF NoEntries, Amounts
  <1> DEFINE none == Amounts(NoEntries)
  <1> HIDE DEF none
  <1>4. none \in [Lines -> Int] /\ \A l \in Lines : none[l] = 0 /\ none[l] \in -6..18
    BY <1>3 DEF none
  <1>5. OverLines(none) = 0
    BY <1>4, OverBetween
  <1>6. QED
    BY <1>2, <1>5 DEF none

(* The pieces, added up over the lines, are the pieces added up.           *)
LEMMA PiecesTotal ==
  ASSUME NEW list \in Seq(Pieces)
  PROVE  /\ FoldLeft(AddPiece, NoEntries, list) \in Untouched
         /\ OverLines(Amounts(FoldLeft(AddPiece, NoEntries, list))) = Worth(list)
  <1> DEFINE n == Len(list)
             end == FoldLeft(AddPiece, NoEntries, list)
  <1>1. n \in Nat /\ \A k \in 1..n : list[k] \in Pieces /\ k \in Nat /\ k - 1 \in 0..n /\ k \in 0..n
    OBVIOUS
  <1>2. PICK after \in Runs(Untouched, NoEntries, PieceStep(list), n) : end = after[n]
    <2>1. end \in Results(Untouched, NoEntries, PieceStep(list), n)
      BY EntriesTyped, PiecesFold
    <2>2. QED
      BY <2>1 DEF Results
  <1>3. PICK t \in Running(Shares(list), n) : Worth(list) = t[n]
    BY WorthIs
  <1> HIDE DEF end
  <1>4. after \in [0..n -> Untouched] /\ after[0] = NoEntries
    BY <1>2 DEF Runs
  <1>5. t \in [0..n -> Nat] /\ t[0] = 0
    BY <1>3 DEF Running
  <1>6. ASSUME NEW k \in 1..n
        PROVE  /\ after[k - 1] \in Untouched /\ after[k] = AddPiece(after[k - 1], list[k])
               /\ t[k] = t[k - 1] + Share(list[k]) /\ t[k - 1] \in Nat
    <2>1. after[k - 1] \in Untouched /\ t[k - 1] \in Nat
      BY <1>1, <1>4, <1>5
    <2>2. after[k] = PieceStep(list)[k][after[k - 1]]
      BY <1>2 DEF Runs
    <2>3. t[k] = t[k - 1] + Shares(list)[k]
      BY <1>3 DEF Running
    <2>4. QED
      BY <1>1, <2>1, <2>2, <2>3 DEF PieceStep, Shares
  <1> DEFINE Good == {k \in 0..n : OverLines(Amounts(after[k])) = t[k]}
  <1>7. 0 \in Good
    BY <1>1, <1>4, <1>5, EntriesTyped
  <1>8. ASSUME NEW k \in 1..n, k - 1 \in Good PROVE k \in Good
    <2> DEFINE old == Amounts(after[k - 1])
               line == list[k].line
               share == Share(list[k])
    <2>1. old \in [Lines -> Int] /\ line \in Lines /\ share \in Int
      BY <1>1, <1>6, EntriesMoney, SharesTyped DEF Untouched, Pieces
    <2>2. Amounts(after[k]) = Plus(old, line, share)
      BY <1>1, <1>6, AddPieceTyped
    <2>3. OverLines(old) = t[k - 1] /\ t[k] = t[k - 1] + share
      BY <1>6, <1>8
    <2> HIDE DEF old, line, share
    <2>4. OverLines(Plus(old, line, share)) = OverLines(old) + share
      BY <2>1, OverPlus
    <2>5. QED
      BY <1>1, <2>2, <2>3, <2>4
  <1> HIDE DEF Good, n
  <1>9. 0..n \subseteq Good
    BY <1>1, <1>7, <1>8, HoldsThroughout
  <1>10. n \in 0..n /\ n \in Good
    BY <1>1, <1>9
  <1>11. end \in Untouched /\ OverLines(Amounts(end)) = Worth(list)
    BY <1>2, <1>3, <1>4, <1>10 DEF Good
  <1>12. QED
    BY <1>11 DEF end

(* A price gesture, up to its roundings, is on the lines or left over.     *)
LEMMA GestureTotal ==
  ASSUME AmountsTyped, NEW start \in Gestures, NEW list \in Seq(Lines), Len(list) <= LineCount,
         NEW end, end = FoldLeft(AddGesture, start, list)
  PROVE  /\ end \in Gestures
         /\ OverLines(Amounts(end.acc)) + end.left - OverLines(Amounts(start.acc)) - start.left
              \in (-6 * LineCount)..(6 * LineCount)
         /\ start.left = 0 => end = start
  <1> DEFINE n == Len(list)
             Held(g) == OverLines(Amounts(g.acc)) + g.left
  <1>1. n \in Nat /\ n <= LineCount /\ LineCount \in Nat
        /\ \A k \in 1..n : list[k] \in Lines /\ k \in Nat /\ k - 1 \in 0..n /\ k \in 0..n
    BY AmountsAssumption
  <1>2. PICK after \in Runs(Gestures, start, GestureStep(list), n) : end = after[n]
    <2>1. end \in Results(Gestures, start, GestureStep(list), n)
      BY GestureFold
    <2>2. QED
      BY <2>1 DEF Results
  <1>3. after \in [0..n -> Gestures] /\ after[0] = start
    BY <1>2 DEF Runs
  <1>4. ASSUME NEW k \in 1..n
        PROVE  after[k - 1] \in Gestures /\ after[k] = AddGesture(after[k - 1], list[k])
    <2>1. after[k - 1] \in Gestures
      BY <1>1, <1>3
    <2>2. after[k] = GestureStep(list)[k][after[k - 1]]
      BY <1>2 DEF Runs
    <2>3. QED
      BY <1>1, <2>1, <2>2 DEF GestureStep
  <1>5. ASSUME NEW g \in Gestures PROVE Held(g) \in Int /\ g.left \in Nat
    <2>1. Amounts(g.acc) \in [Lines -> Int]
      BY EntriesMoney DEF Gestures, Untouched
    <2>2. QED
      BY <2>1, OverTyped DEF Gestures
  <1>6. ASSUME NEW g \in Gestures, NEW l \in Lines
        PROVE  /\ Held(AddGesture(g, l)) - Held(g) \in -6..6
               /\ g.left = 0 => AddGesture(g, l) = g
    <2> DEFINE new == AddGesture(g, l)
    <2>1. new \in Gestures
      BY AddGestureTyped
    <2>2. CASE new = g
      <3>1. Held(g) \in Int
        BY <1>5
      <3> HIDE DEF Held
      <3>2. Held(new) - Held(g) = 0
        BY <2>2, <3>1
      <3>3. QED
        BY <2>2, <3>2
    <2>3. CASE new # g
      <3>1. PICK take \in 1..g.left : /\ Amounts(new.acc) = Plus(Amounts(g.acc), l, take)
                                      /\ new.left = Round2(g.left - take)
        BY <2>3, AddGestureTyped
      <3> DEFINE old == Amounts(g.acc)
      <3>2. old \in [Lines -> Int] /\ take \in Int /\ g.left \in Int /\ g.left # 0 /\ OverLines(old) \in Int
        <4>1. g.left \in Nat
          BY <1>5
        <4>2. g.acc \in Entries
          BY DEF Gestures, Untouched
        <4>3. old \in [Lines -> Int]
          BY <4>2, EntriesMoney
        <4> HIDE DEF old
        <4>4. OverLines(old) \in Int
          BY <4>3, OverTyped
        <4>5. QED
          BY <4>1, <4>3, <4>4
      <3> HIDE DEF old
      <3>3. OverLines(Plus(old, l, take)) = OverLines(old) + take
        BY <3>2, OverPlus
      <3> DEFINE rest == g.left - take
                 kept == Round2(rest)
                 total == OverLines(old)
                 left == g.left
      <3>4. kept - rest \in -6..6 /\ kept \in Int /\ rest \in Int
        <4>1. rest \in Int
          BY <3>2
        <4> HIDE DEF rest
        <4>2. QED
          BY <4>1, Round2Is
      <3>9. rest = left - take /\ total \in Int /\ left \in Int /\ take \in Int
        BY <3>2
      <3>5. Held(new) = total + take + kept
        <4> HIDE DEF new
        <4>1. QED
          BY <3>1, <3>3 DEF old
      <3>6. Held(g) = total + left
        BY DEF old
      <3> HIDE DEF Held, new, rest, kept, total, left
      <3>7. Held(new) - Held(g) \in -6..6
        BY <3>4, <3>5, <3>6, <3>9
      <3>8. QED
        BY <3>2, <3>7 DEF new
    <2>4. QED
      BY <2>2, <2>3
  <1> HIDE DEF Held
  <1> DEFINE Good == {k \in 0..n : /\ Held(after[k]) - Held(start) \in (-6 * k)..(6 * k)
                                   /\ start.left = 0 => after[k] = start}
  <1>7. 0 \in Good
    BY <1>1, <1>3, <1>5
  <1>8. ASSUME NEW k \in 1..n, k - 1 \in Good PROVE k \in Good
    <2> DEFINE a == Held(after[k])
               b == Held(after[k - 1])
               c == Held(start)
    <2>1. after[k] = AddGesture(after[k - 1], list[k]) /\ list[k] \in Lines /\ after[k - 1] \in Gestures
          /\ after[k] \in Gestures
      BY <1>1, <1>3, <1>4
    <2>2. a - b \in -6..6 /\ a \in Int /\ b \in Int /\ c \in Int
      BY <2>1, <1>5, <1>6
    <2>3. b - c \in (-6 * (k - 1))..(6 * (k - 1)) /\ (start.left = 0 => after[k - 1] = start)
      BY <1>8
    <2>4. start.left = 0 => after[k] = start
      BY <1>6, <2>1, <2>3
    <2> HIDE DEF a, b, c
    <2>5. k \in Nat /\ k \in 0..n
      BY <1>1
    <2>6. a - c \in (-6 * k)..(6 * k)
      <3> DEFINE p == a - b
                 r == b - c
      <3>1. p \in -6..6 /\ r \in (-6 * (k - 1))..(6 * (k - 1)) /\ r \in Int /\ a - c = p + r
        BY <2>2, <2>3
      <3> HIDE DEF p, r
      <3>2. p + r \in (-6 * k)..(6 * k)
        BY ONLY <3>1, <2>5
      <3>3. QED
        BY <3>1, <3>2
    <2>7. QED
      BY <2>4, <2>5, <2>6 DEF a, c
  <1> HIDE DEF Good, n
  <1>9. 0..n \subseteq Good
    BY <1>1, <1>7, <1>8, HoldsThroughout
  <1>10. n \in 0..n /\ n \in Good
    BY <1>1, <1>9
  <1>11. end \in Gestures /\ Held(end) \in Int /\ Held(start) \in Int
    BY <1>2, <1>3, <1>5, <1>10
  <1>12. Held(end) - Held(start) \in (-6 * n)..(6 * n) /\ (start.left = 0 => end = start)
    BY <1>2, <1>10 DEF Good
  <1>13. Held(end) - Held(start) \in (-6 * LineCount)..(6 * LineCount)
    BY <1>1, <1>11, <1>12
  <1>14. end.left \in Int /\ start.left \in Int /\ OverLines(Amounts(end.acc)) \in Int
         /\ OverLines(Amounts(start.acc)) \in Int
    BY <1>11, OverTyped, EntriesMoney DEF Gestures, Untouched
  <1>15. Held(end) - Held(start)
           = OverLines(Amounts(end.acc)) + end.left - OverLines(Amounts(start.acc)) - start.left
    BY <1>14 DEF Held
  <1>16. QED
    BY <1>11, <1>12, <1>13, <1>15

(* A step of the shipping refund moves money from what is left to a line.  *)
LEMMA ShippingMoves ==
  ASSUME AmountsTyped, NEW spread \in Spreads, spread.left \in Cents, NEW l \in Lines,
         NEW new, new = AddShipping(spread, l)
  PROVE  /\ new \in Spreads /\ new.left \in Cents /\ Amounts(new.acc) = Amounts(spread.acc)
         /\ OverLines(Shipped(new.acc)) + new.left = OverLines(Shipped(spread.acc)) + spread.left
         /\ \A k \in Lines \ {l} : Shipped(new.acc)[k] = Shipped(spread.acc)[k]
         /\ Shipped(spread.acc)[l] = 0 =>
               Shipped(new.acc)[l] \in Cents /\ Shipped(new.acc)[l] \in 0..Remaining(l).shipping
         /\ spread.left = 0 => new = spread
  <1> DEFINE old == Shipped(spread.acc)
             left == spread.left
  <1>1. new \in Spreads
    BY AddShippingTyped
  <1>2. /\ left \in Nat /\ old \in [Lines -> Nat] /\ old \in [Lines -> Int]
    <2>1. spread.acc \in Entries /\ left \in Nat
      BY DEF Spreads
    <2>2. old \in [Lines -> Nat]
      BY <2>1, EntriesMoney
    <2>3. QED
      BY <2>1, <2>2
  <1>3. CASE new = spread
    <2>1. Remaining(l).shipping \in Int /\ 0 <= Remaining(l).shipping /\ 0 \in Cents
      BY RemainingTyped, Round2Is
    <2>2. 0 \in 0..Remaining(l).shipping
      BY <2>1
    <2>3. QED
      BY <1>1, <1>3, <2>1, <2>2
  <1>4. CASE new # spread
    <2>1. PICK take \in 1..left : /\ Shipped(new.acc) = Plus(old, l, take)
                                  /\ Amounts(new.acc) = Amounts(spread.acc)
                                  /\ new.left = Round2(left - take)
                                  /\ take <= Remaining(l).shipping
                                  /\ left \in Cents => take \in Cents
      BY <1>4, AddShippingTyped
    <2> HIDE DEF old
    <2> DEFINE rest == left - take
               total == OverLines(old)
    <2>2. take \in Int /\ take >= 1 /\ left \in Cents /\ take \in Cents /\ left # 0 /\ left \in Int
      BY <1>2, <2>1
    <2>3. rest \in Cents
      BY <2>2, Round2Is
    <2>4. new.left = rest
      <3> HIDE DEF rest
      <3>1. Round2(rest) = rest
        BY <2>3, Round2Is
      <3>2. new.left = Round2(rest)
        BY <2>1 DEF rest
      <3>3. QED
        BY <3>1, <3>2
    <2>5. OverLines(Plus(old, l, take)) = total + take /\ total \in Int
      BY <1>2, <2>2, OverPlus, OverTyped
    <2>6. OverLines(Shipped(new.acc)) + new.left = total + left
      <3> HIDE DEF total, left
      <3>1. OverLines(Shipped(new.acc)) = total + take
        BY <2>1, <2>5
      <3>2. new.left = left - take
        BY <2>4 DEF rest
      <3>3. QED
        BY <2>2, <2>5, <3>1, <3>2
    <2>7. /\ \A k \in Lines \ {l} : Plus(old, l, take)[k] = old[k]
          /\ Plus(old, l, take)[l] = old[l] + take
      BY <1>2 DEF Plus
    <2>8. old[l] = 0 => Plus(old, l, take)[l] = take
      BY <2>2, <2>7
    <2>9. Remaining(l).shipping \in Int
      BY RemainingTyped, Round2Is
    <2>10. take \in 0..Remaining(l).shipping
      BY <2>1, <2>2, <2>9
    <2>11. new.left \in Cents
      BY <2>3, <2>4
    <2>12. \A k \in Lines \ {l} : Shipped(new.acc)[k] = old[k]
      BY <2>1, <2>7
    <2>13. old[l] = 0 => Shipped(new.acc)[l] \in Cents /\ Shipped(new.acc)[l] \in 0..Remaining(l).shipping
      BY <2>1, <2>2, <2>8, <2>10
    <2>14. QED
      BY <1>1, <2>1, <2>2, <2>6, <2>11, <2>12, <2>13 DEF old
  <1>5. QED
    BY <1>3, <1>4

(* The shipping refund is, to the cent, on the lines or left over, and no  *)
(* line is given more than it has shipping left: it comes up once.         *)
LEMMA ShippingTotal ==
  ASSUME AmountsTyped, NEW start \in Gestures, start.left \in Cents, NEW list \in Keys,
         NEW end, end = FoldLeft(AddShipping, start, list)
  PROVE  /\ end \in Spreads /\ Amounts(end.acc) = Amounts(start.acc)
         /\ OverLines(Shipped(end.acc)) + end.left = start.left
         /\ \A l \in Lines : /\ Shipped(end.acc)[l] \in Cents
                             /\ Shipped(end.acc)[l] \in 0..Remaining(l).shipping
  <1> DEFINE n == Len(list)
             Held(s) == OverLines(Shipped(s.acc)) + s.left
  <1>1. /\ n \in Nat /\ list \in Seq(Lines) /\ DOMAIN list = 1..n /\ IsInjective(list)
        /\ \A k \in 1..n : list[k] \in Lines /\ k \in Nat /\ k - 1 \in 0..n /\ k \in 0..n
    BY DEF Keys
  <1>2. start \in Spreads /\ \A l \in Lines : Shipped(start.acc)[l] = 0
    BY DEF Gestures, Spreads, Untouched
  <1>3. PICK after \in Runs(Spreads, start, ShippingStep(list), n) : end = after[n]
    <2>1. end \in Results(Spreads, start, ShippingStep(list), n)
      BY <1>1, <1>2, ShippingFold
    <2>2. QED
      BY <2>1 DEF Results
  <1>4. after \in [0..n -> Spreads] /\ after[0] = start
    BY <1>3 DEF Runs
  <1>5. ASSUME NEW k \in 1..n
        PROVE  after[k - 1] \in Spreads /\ after[k] = AddShipping(after[k - 1], list[k])
    <2>1. after[k - 1] \in Spreads
      BY <1>1, <1>4
    <2>2. after[k] = ShippingStep(list)[k][after[k - 1]]
      BY <1>3 DEF Runs
    <2>3. QED
      BY <1>1, <2>1, <2>2 DEF ShippingStep
  <1>6. Held(start) = start.left
    <2> DEFINE none == Shipped(start.acc)
    <2>1. none \in [Lines -> Int]
      BY <1>2, EntriesMoney DEF Spreads
    <2> HIDE DEF none
    <2>2. \A l \in Lines : none[l] = 0 /\ none[l] \in -6..18
      BY <1>2 DEF none
    <2>3. OverLines(none) = 0
      BY <2>1, <2>2, OverBetween
    <2>4. start.left \in Nat
      BY DEF Gestures
    <2>5. QED
      BY <2>3, <2>4 DEF none
  <1> HIDE DEF Held
  <1> DEFINE Fits(s, l) == Shipped(s.acc)[l] \in Cents /\ Shipped(s.acc)[l] \in 0..Remaining(l).shipping
             Sound(s) == /\ s.left \in Cents /\ Amounts(s.acc) = Amounts(start.acc)
                         /\ Held(s) = Held(start)
                         /\ \A l \in Lines : Fits(s, l)
             Fresh(k) == \A l \in Lines : (\A j \in 1..k : list[j] # l) => Shipped(after[k].acc)[l] = 0
             Good == {k \in 0..n : Sound(after[k]) /\ Fresh(k)}
  <1>7. 0 \in Good
    <2>1. \A l \in Lines : 0 \in Cents /\ 0 \in 0..Remaining(l).shipping
      <3>1. SUFFICES ASSUME NEW l \in Lines PROVE 0 \in Cents /\ 0 \in 0..Remaining(l).shipping
        OBVIOUS
      <3>2. Remaining(l).shipping \in Int /\ Remaining(l).shipping >= 0 /\ 0 \in Cents
        BY RemainingTyped, Round2Is
      <3>3. QED
        BY <3>2
    <2>2. QED
      BY <1>1, <1>2, <1>4, <2>1
  <1>8. ASSUME NEW k \in 1..n, k - 1 \in Good PROVE k \in Good
    <2> DEFINE old == after[k - 1]
               new == after[k]
               here == list[k]
    <2>1. old \in Spreads /\ new = AddShipping(old, here) /\ here \in Lines /\ k \in 0..n
      BY <1>1, <1>5
    <2>2. Sound(old) /\ Fresh(k - 1)
      BY <1>8
    <2>3. Shipped(old.acc)[here] = 0
      <3>1. \A j \in 1..(k - 1) : list[j] # here
        <4>1. SUFFICES ASSUME NEW j \in 1..(k - 1), list[j] = list[k] PROVE FALSE
          OBVIOUS
        <4>2. j \in DOMAIN list /\ k \in DOMAIN list /\ j # k
          BY <1>1
        <4>3. QED
          BY <1>1, <4>1, <4>2 DEF IsInjective
      <3>2. QED
        BY <2>1, <2>2, <3>1
    <2>4. old.left \in Cents
      BY <2>2
    <2> HIDE DEF old, new, here
    <2>5. /\ new.left \in Cents /\ Amounts(new.acc) = Amounts(old.acc) /\ Held(new) = Held(old)
          /\ \A l \in Lines \ {here} : Shipped(new.acc)[l] = Shipped(old.acc)[l]
          /\ Fits(new, here)
      BY <2>1, <2>3, <2>4, ShippingMoves DEF Held
    <2>6. Sound(new)
      <3>1. \A l \in Lines : Fits(new, l)
        BY <2>2, <2>5
      <3>2. QED
        BY <2>2, <2>5, <3>1
    <2>7. Fresh(k)
      <3>1. SUFFICES ASSUME NEW l \in Lines, \A j \in 1..k : list[j] # l
                     PROVE  Shipped(new.acc)[l] = 0
        BY DEF new
      <3>2. k \in 1..k /\ \A j \in 1..(k - 1) : j \in 1..k
        <4>1. k \in Nat /\ k >= 1
          BY <1>1
        <4>2. QED
          BY ONLY <4>1
      <3>3. here # l
        BY <3>1, <3>2 DEF here
      <3>4. \A j \in 1..(k - 1) : list[j] # l
        BY <3>1, <3>2
      <3>5. Shipped(old.acc)[l] = 0
        BY <2>2, <3>4 DEF old
      <3>6. QED
        BY <2>5, <3>3, <3>5
    <2>8. QED
      BY <2>1, <2>6, <2>7 DEF new
  <1> HIDE DEF Good, n
  <1>9. 0..n \subseteq Good
    BY <1>1, <1>7, <1>8, HoldsThroughout
  <1>10. n \in 0..n /\ n \in Good
    BY <1>1, <1>9
  <1>11. Sound(end) /\ end \in Spreads
    BY <1>3, <1>4, <1>10 DEF Good
  <1>12. QED
    BY <1>6, <1>11 DEF Held

-----------------------------------------------------------------------------
(* resolveLines places what a refund says. *)

(* A quotient, multiplied back, is short by less than the divisor.         *)
LEMMA Quotient ==
  ASSUME NEW a \in Nat, NEW d \in Nat, d > 0
  PROVE  a \div d \in Nat /\ d * (a \div d) <= a /\ a <= d * (a \div d) + d
  OBVIOUS

LEMMA Cancels ==
  ASSUME NEW d \in Nat, d > 0, NEW u \in Int, NEW v \in Int, d * u <= d * v
  PROVE  u <= v
  OBVIOUS

LEMMA Distributes ==
  \A a, b, c \in Int : /\ a * b \in Int /\ a * c \in Int
                       /\ a * (b + c) = a * b + a * c /\ a * (b - c) = a * b - a * c
                       /\ (b + c) * a = b * a + c * a /\ (b - c) * a = b * a - c * a
  OBVIOUS

LEMMA Products == \A a, b \in Nat : a * b \in Nat
  OBVIOUS

(* Of x, for the part done of q, w was spent in j divisions: each of them  *)
(* lost less than one.                                                     *)
Spent(q, x, w, done, j) == q * w <= x * done /\ x * done <= q * w + q * j

(* One more division loses one more part at most.                          *)
LEMMA SpentOn ==
  ASSUME NEW q \in Nat, NEW x \in Nat, NEW w \in Int, NEW done \in Int, NEW j \in Int,
         NEW s \in Int, NEW take \in Int, Spent(q, x, w, done, j),
         q * s <= x * take, x * take <= q * s + q
  PROVE  Spent(q, x, w + s, done + take, j + 1)
  <1>1. q * (w + s) = q * w + q * s /\ q * (j + 1) = q * j + q /\ x * (done + take) = x * done + x * take
    OBVIOUS
  <1>2. q * w \in Int /\ q * s \in Int /\ q * j \in Int /\ x * done \in Int /\ x * take \in Int
    OBVIOUS
  <1> DEFINE a == q * w
             b == q * s
             c == q * j
             d == x * done
             e == x * take
  <1>3. a <= d /\ d <= a + c /\ b <= e /\ e <= b + q
    BY DEF Spent
  <1>4. a \in Int /\ b \in Int /\ c \in Int /\ d \in Int /\ e \in Int
    BY <1>2
  <1>5. q * (w + s) = a + b /\ q * (j + 1) = c + q /\ x * (done + take) = d + e
    BY <1>1
  <1> HIDE DEF a, b, c, d, e
  <1>6. a + b <= d + e /\ d + e <= (a + b) + (c + q)
    BY <1>3, <1>4
  <1>7. QED
    BY <1>5, <1>6 DEF Spent

(* When all is done, as many units are lost as there were divisions, at    *)
(* most.                                                                   *)
LEMMA SpentAll ==
  ASSUME NEW q \in Nat, q > 0, NEW x \in Nat, NEW w \in Int, NEW j \in Int, Spent(q, x, w, q, j)
  PROVE  x - w \in 0..j
  <1>1. q * w <= q * x /\ q * x <= q * (w + j)
    <2>1. x * q = q * x
      OBVIOUS
    <2>2. q * w + q * j = q * (w + j)
      OBVIOUS
    <2>3. QED
      BY <2>1, <2>2 DEF Spent
  <1>2. w <= x
    BY <1>1, Cancels
  <1>3. x <= w + j
    <2> DEFINE v == w + j
    <2>1. v \in Int /\ q * x <= q * v
      BY <1>1
    <2> HIDE DEF v
    <2>2. x <= v
      BY <2>1, Cancels
    <2>3. QED
      BY <2>2 DEF v
  <1>4. QED
    BY <1>2, <1>3

(* No reference is tried on more lines than there are.                     *)
LEMMA CandidatesLength ==
  ASSUME NEW ref
  PROVE  Len(Candidates(ref)) <= LineCount
  <1>1. CASE ref.line \in Lines
    <2>1. Candidates(ref) = <<ref.line>>
      BY <1>1 DEF Candidates
    <2>2. LineCount >= 1
      BY <1>1, AmountsAssumption DEF Lines
    <2>3. QED
      BY <2>1, <2>2, AmountsAssumption
  <1>2. CASE ref.line \notin Lines
    <2> DEFINE all == [l \in Lines |-> l]
               S == {l \in Lines : ordered[l].variant = ref.variant}
    <2>1. all \in Seq(Lines)
      BY AllLines DEF Keys
    <2>2. Len(all) = LineCount
      BY AmountsAssumption DEF Lines
    <2>3. Candidates(ref) = Among(all, S)
      BY <1>2 DEF Candidates
    <2> HIDE DEF all, S
    <2>4. Len(Among(all, S)) <= Len(all)
      BY <2>1, AmongIs
    <2>5. QED
      BY <2>2, <2>3, <2>4
  <1>3. QED
    BY <1>1, <1>2

(* One take: a piece of what is left, and its part of the amount.          *)
LEMMA TakeWorth ==
  ASSUME NEW a \in Takes, a.left <= a.ref.quantity, NEW l \in Lines,
         NEW new, new = Take(a, l)
  PROVE  /\ new \in Takes /\ new.ref = a.ref
         /\ \E take \in 0..a.left : \E s \in Nat :
               /\ new.left = a.left - take /\ Worth(new.pieces) = Worth(a.pieces) + s
               /\ a.ref.quantity * s <= a.ref.amount * take
               /\ a.ref.amount * take <= a.ref.quantity * s + a.ref.quantity
         /\ a.left = 0 => new = a
  <1> DEFINE take == Min({a.left, a.capacity[l]})
             piece == [line |-> l, quantity |-> take, ref |-> a.ref]
             s == Share(piece)
             q == a.ref.quantity
             x == a.ref.amount
  <1>1. take \in Int /\ take <= a.left /\ a.left \in Nat /\ a.left \in 0..a.left
    BY MinIs DEF Takes
  <1>2. a.ref \in Counted /\ q \in Nat /\ x \in Nat /\ a.pieces \in Seq(Pieces)
    BY DEF Takes, Counted
  <1>3. new = IF take <= 0 THEN a
              ELSE [a EXCEPT !.left = a.left - take, !.capacity[l] = a.capacity[l] - take,
                             !.pieces = Append(a.pieces, piece)]
    BY DEF Take
  <1>4. new \in Takes
    BY TakeTyped
  <1> HIDE DEF take
  <1>5. CASE take <= 0
    <2>1. new = a
      BY <1>3, <1>5
    <2>2. Worth(a.pieces) \in Nat
      <3>1. 1 = 1 /\ [line |-> l, quantity |-> 0, ref |-> a.ref] \in Pieces
        BY <1>2 DEF Pieces
      <3>2. QED
        BY <1>2, <3>1, WorthAppend
    <2>3. q * 0 <= x * 0 /\ x * 0 <= q * 0 + q
      BY <1>2
    <2>4. 0 \in 0..a.left /\ new.left = a.left - 0 /\ Worth(new.pieces) = Worth(a.pieces) + 0
      BY <1>1, <2>1, <2>2
    <2>5. QED
      BY <1>4, <2>1, <2>3, <2>4
  <1>6. CASE take > 0
    <2>1. piece \in Pieces /\ take \in Nat /\ take \in 0..a.left /\ a.left # 0
      BY <1>1, <1>2, <1>6 DEF Pieces
    <2>2. s \in Nat
      <3> HIDE DEF piece
      <3>1. QED
        BY <2>1, SharesTyped
    <2>3. q * s <= x * take /\ x * take <= q * s + q
      <3>1. q > 0
        BY <1>1, <1>2, <1>6
      <3>2. q * s <= x * take /\ x * take <= q * s + q
        <4> DEFINE prod == x * take
        <4>1. s = prod \div q
          BY <3>1 DEF Share
        <4>2. prod \in Nat
          BY <1>2, <2>1, Products
        <4> HIDE DEF prod, q, s
        <4>3. q * s <= prod /\ prod <= q * s + q
          BY <1>2, <3>1, <4>1, <4>2, Quotient
        <4>4. QED
          BY <4>3 DEF prod
      <3>3. QED
        BY <3>2
    <2>4. new.left = a.left - take /\ new.ref = a.ref /\ new.pieces = Append(a.pieces, piece)
      <3> HIDE DEF piece
      <3>1. new = [a EXCEPT !.left = a.left - take, !.capacity[l] = a.capacity[l] - take,
                            !.pieces = Append(a.pieces, piece)]
        BY <1>1, <1>3, <1>6
      <3>2. QED
        BY <3>1 DEF Takes
    <2>5. Worth(new.pieces) = Worth(a.pieces) + s
      <3> HIDE DEF piece
      <3>1. QED
        BY <1>2, <2>1, <2>4, WorthAppend
    <2> HIDE DEF piece, s
    <2>6. QED
      BY <1>4, <2>1, <2>2, <2>3, <2>4, <2>5
  <1>7. QED
    BY <1>1, <1>5, <1>6
(* One reference: what is placed of it is worth its amount, but for the    *)
(* divisions.  One of quantity 0 is not placed at all.                     *)
LEMMA PlaceWorth ==
  ASSUME NEW acc \in Placings, NEW ref \in Counted, NEW new, new = Place(acc, ref)
  PROVE  /\ new \in Placings /\ acc.unresolved <= new.unresolved
         /\ new.unresolved = 0 =>
               (IF ref.quantity = 0 THEN 0 ELSE ref.amount) - (Worth(new.pieces) - Worth(acc.pieces))
                 \in 0..LineCount
  <1> DEFINE list == Candidates(ref)
             n == Len(list)
             start == [ref |-> ref, left |-> ref.quantity, capacity |-> acc.capacity, pieces |-> acc.pieces]
             end == FoldLeft(Take, start, list)
             q == ref.quantity
             x == ref.amount
             before == Worth(acc.pieces)
  <1>1. /\ list \in Seq(Lines) /\ n \in Nat /\ n <= LineCount /\ LineCount \in Nat
        /\ \A k \in 1..n : list[k] \in Lines /\ k \in Nat /\ k - 1 \in 0..n /\ k \in 0..n
    <2>1. list \in Seq(Lines) /\ n <= LineCount
      BY CandidatesTyped, CandidatesLength
    <2>2. QED
      BY <2>1, AmountsAssumption
  <1>2. start \in Takes /\ q \in Nat /\ x \in Nat /\ acc.pieces \in Seq(Pieces)
    BY DEF Takes, Placings, Counted
  <1>3. /\ start.ref = ref /\ start.left = q /\ start.pieces = acc.pieces
        /\ new = [capacity |-> end.capacity, pieces |-> end.pieces, unresolved |-> acc.unresolved + end.left]
    BY DEF Place
  <1>4. new \in Placings
    BY PlaceTyped
  <1> HIDE DEF list, start
  <1>5. PICK after \in Runs(Takes, start, TakeStep(list), n) : end = after[n]
    <2>1. end \in Results(Takes, start, TakeStep(list), n)
      BY <1>1, <1>2, TakeFold
    <2>2. QED
      BY <2>1 DEF Results
  <1> HIDE DEF end, before, q, x, n
  <1>6. after \in [0..n -> Takes] /\ after[0] = start
    BY <1>5 DEF Runs
  <1>7. ASSUME NEW k \in 1..n
        PROVE  after[k - 1] \in Takes /\ after[k] = Take(after[k - 1], list[k])
    <2>1. after[k - 1] \in Takes
      BY <1>1, <1>6
    <2>2. after[k] = TakeStep(list)[k][after[k - 1]]
      BY <1>5 DEF Runs
    <2>3. QED
      BY <1>1, <2>1, <2>2 DEF TakeStep, n
  <1>8. ASSUME NEW a \in Takes PROVE Worth(a.pieces) \in Nat /\ a.left \in Nat
    <2>1. Worth(a.pieces) \in Results(Sums, 0, WorthStep(a.pieces), Len(a.pieces)) /\ Len(a.pieces) \in Nat
      BY WorthFold DEF Takes
    <2>2. QED
      BY <2>1, ResultsTyped DEF Sums, Takes
  <1>9. before \in Nat
    BY <1>2, <1>3, <1>8 DEF before
  <1> DEFINE Sound(a, k) == /\ a.ref = ref /\ a.left <= q
                            /\ Spent(q, x, Worth(a.pieces) - before, q - a.left, k)
                            /\ q = 0 => Worth(a.pieces) = before
             Good == {k \in 0..n : Sound(after[k], k)}
  <1>10. 0 \in Good
    <2>1. Spent(q, x, 0, q - q, 0)
      <3>1. q - q = 0 /\ q * 0 = 0 /\ x * 0 = 0
        BY <1>2
      <3>2. QED
        BY <3>1 DEF Spent
    <2>2. Worth(start.pieces) - before = 0
      BY <1>3, <1>9 DEF before
    <2>3. QED
      BY <1>1, <1>2, <1>3, <1>6, <2>1, <2>2 DEF before
  <1>11. ASSUME NEW k \in 1..n, k - 1 \in Good PROVE k \in Good
    <2> DEFINE a == after[k - 1]
               b == after[k]
               w == Worth(a.pieces) - before
    <2>1. a \in Takes /\ b = Take(a, list[k]) /\ list[k] \in Lines /\ k \in Nat /\ k \in 0..n
      BY <1>1, <1>7
    <2>2. Sound(a, k - 1)
      BY <1>11
    <2> HIDE DEF a, b
    <2>3. a.left <= a.ref.quantity /\ a.ref.quantity = q /\ a.ref.amount = x
      BY <2>2 DEF q, x
    <2>4. /\ b \in Takes /\ b.ref = a.ref
          /\ \E take \in 0..a.left : \E s \in Nat :
                /\ b.left = a.left - take /\ Worth(b.pieces) = Worth(a.pieces) + s
                /\ q * s <= x * take /\ x * take <= q * s + q
          /\ a.left = 0 => b = a
      <3>1. /\ b \in Takes /\ b.ref = a.ref
            /\ \E take \in 0..a.left : \E s \in Nat :
                  /\ b.left = a.left - take /\ Worth(b.pieces) = Worth(a.pieces) + s
                  /\ a.ref.quantity * s <= a.ref.amount * take
                  /\ a.ref.amount * take <= a.ref.quantity * s + a.ref.quantity
            /\ a.left = 0 => b = a
        BY <2>1, <2>3, TakeWorth
      <3>2. QED
        BY <2>3, <3>1
    <2>5. PICK take \in 0..a.left : \E s \in Nat :
                /\ b.left = a.left - take /\ Worth(b.pieces) = Worth(a.pieces) + s
                /\ q * s <= x * take /\ x * take <= q * s + q
      BY <2>4
    <2>6. PICK s \in Nat :
                /\ b.left = a.left - take /\ Worth(b.pieces) = Worth(a.pieces) + s
                /\ q * s <= x * take /\ x * take <= q * s + q
      BY <2>5
    <2>7. a.left \in Int /\ take \in Int /\ s \in Int /\ w \in Int /\ k - 1 \in Int /\ 0 <= take
          /\ Worth(a.pieces) \in Int
      BY <1>8, <1>9, <2>1
    <2>8. Spent(q, x, w, q - a.left, k - 1)
      BY <2>2
    <2>9. Worth(b.pieces) - before = w + s
      BY <1>9, <2>6, <2>7
    <2> HIDE DEF w
    <2>10. Spent(q, x, w + s, q - b.left, (k - 1) + 1)
      <3> DEFINE j == k - 1
                 done == q - a.left
      <3>1. j \in Int /\ done \in Int /\ Spent(q, x, w, done, j) /\ q - b.left = done + take
        BY <1>2, <2>6, <2>7, <2>8
      <3> HIDE DEF j, done
      <3>2. Spent(q, x, w + s, done + take, j + 1)
        BY <1>2, <2>6, <2>7, <3>1, SpentOn
      <3>3. QED
        BY <3>1, <3>2 DEF j
    <2>11. (k - 1) + 1 = k
      BY <2>1
    <2>12. q = 0 => Worth(b.pieces) = before
      <3>1. SUFFICES ASSUME q = 0 PROVE Worth(b.pieces) = before
        OBVIOUS
      <3>2. a.left \in Nat /\ a.left <= 0 /\ Worth(a.pieces) = before
        BY <1>8, <2>1, <2>2, <3>1
      <3>3. a.left = 0
        BY ONLY <3>2
      <3>4. b = a
        BY <2>4, <3>3
      <3>5. QED
        BY <3>2, <3>4
    <2>13. b.left <= q /\ b.ref = ref
      BY <1>2, <2>2, <2>4, <2>6, <2>7
    <2>14. Sound(b, k)
      BY <2>6, <2>9, <2>10, <2>11, <2>12, <2>13
    <2>15. QED
      BY <2>1, <2>14 DEF b
  <1> HIDE DEF Good
  <1>12. 0..n \subseteq Good
    BY <1>1, <1>10, <1>11, HoldsThroughout DEF n
  <1>13. n \in 0..n /\ n \in Good
    BY <1>1, <1>12 DEF n
  <1>14. Sound(end, n) /\ end \in Takes
    BY <1>5, <1>6, <1>13 DEF Good
  <1>15. /\ acc.unresolved \in Nat /\ end.left \in Nat /\ new.unresolved = acc.unresolved + end.left
         /\ new.pieces = end.pieces /\ Worth(end.pieces) \in Nat
    BY <1>3, <1>8, <1>14 DEF Placings
  <1>16. new.unresolved = 0 =>
            (IF q = 0 THEN 0 ELSE x) - (Worth(end.pieces) - before) \in 0..LineCount
    <2>1. SUFFICES ASSUME new.unresolved = 0
                   PROVE  (IF q = 0 THEN 0 ELSE x) - (Worth(end.pieces) - before) \in 0..LineCount
      OBVIOUS
    <2>2. end.left = 0
      BY <1>15, <2>1
    <2> DEFINE w == Worth(end.pieces) - before
    <2>7. q - 0 = q
      BY <1>2
    <2>3. w \in Int /\ Spent(q, x, w, q, n) /\ n \in Int /\ n <= LineCount /\ LineCount \in Int /\ n >= 0
          /\ (q = 0 => w = 0)
      BY <1>1, <1>9, <1>14, <1>15, <2>2, <2>7 DEF n
    <2> HIDE DEF w
    <2>4. q > 0 => x - w \in 0..n
      BY <1>2, <2>3, SpentAll
    <2>5. (IF q = 0 THEN 0 ELSE x) - w \in 0..LineCount
      BY <1>2, <2>3, <2>4
    <2>6. QED
      BY <2>5 DEF w
  <1>17. QED
    BY <1>4, <1>15, <1>16 DEF q, x, before

LEMMA WorthIsNat ==
  ASSUME NEW list \in Seq(Pieces)
  PROVE  Worth(list) \in Nat
  <1>1. Len(list) \in Nat
    OBVIOUS
  <1>2. Worth(list) \in Results(Sums, 0, WorthStep(list), Len(list))
    BY WorthFold
  <1>3. QED
    BY <1>1, <1>2, ResultsTyped DEF Sums

LEMMA SumIsNat ==
  ASSUME NEW list \in Seq(Counted)
  PROVE  SumOf(list) \in Nat
  <1>1. Len(list) \in Nat
    OBVIOUS
  <1>2. SumOf(list) \in Results(Sums, 0, SumStep(list), Len(list))
    BY SumFold
  <1>3. QED
    BY <1>1, <1>2, ResultsTyped DEF Sums

Unpaid(refs) == {ref \in Range(refs) : ref.quantity = 0}

(* When every reference is placed, the pieces are worth what the           *)
(* references say, but for those of quantity 0 and for the divisions.      *)
LEMMA ResolveTotal ==
  ASSUME AmountsTyped, NEW refs \in Seq(Counted), ResolveLines(refs).unresolved = 0
  PROVE  /\ ResolveLines(refs) \in Placings
         /\ SumOf(refs) - SumOf(Among(refs, Unpaid(refs))) - Worth(ResolveLines(refs).pieces)
              \in 0..(Len(refs) * LineCount)
  <1> DEFINE n == Len(refs)
             S == Unpaid(refs)
             start == [capacity |-> [l \in Lines |-> ordered[l].quantity], pieces |-> <<>>, unresolved |-> 0]
             end == ResolveLines(refs)
             odd == Among(refs, S)
  <1>1. /\ n \in Nat /\ LineCount \in Nat
        /\ \A k \in 1..n : /\ refs[k] \in Counted /\ k \in Nat /\ k - 1 \in 0..n /\ k \in 0..n
                           /\ refs[k] \in S <=> refs[k].quantity = 0
    BY AmountsAssumption DEF Unpaid, Range
  <1>2. start \in Placings /\ end \in Placings /\ start.unresolved = 0 /\ start.pieces = <<>>
    BY ResolveLinesTyped DEF Placings, AmountsTyped
  <1> HIDE DEF S, start
  <1>3. PICK after \in Runs(Placings, start, PlaceStep(refs), n) : end = after[n]
    <2>1. end = FoldLeft(Place, start, refs)
      BY DEF ResolveLines, start
    <2>2. end \in Results(Placings, start, PlaceStep(refs), n)
      BY <1>2, <2>1, PlaceFold
    <2>3. QED
      BY <2>2 DEF Results
  <1>4. PICK t \in Running(Costs(refs), n) : SumOf(refs) = t[n]
    BY SumIs
  <1>5. PICK v \in Runs(Lists(Counted), <<>>, FilterStep(Counted, S, refs), n) : odd = v[n]
    <2>1. odd \in Results(Lists(Counted), <<>>, FilterStep(Counted, S, refs), n)
      BY AmongFold
    <2>2. QED
      BY <2>1 DEF Results
  <1> HIDE DEF end, odd, n
  <1>6. /\ after \in [0..n -> Placings] /\ after[0] = start
        /\ t \in [0..n -> Nat] /\ t[0] = 0
        /\ v \in [0..n -> Seq(Counted)] /\ v[0] = <<>>
    BY <1>3, <1>4, <1>5 DEF Runs, Running, Lists
  <1>7. ASSUME NEW k \in 1..n
        PROVE  /\ after[k - 1] \in Placings /\ after[k] = Place(after[k - 1], refs[k])
               /\ t[k] = t[k - 1] + refs[k].amount /\ t[k - 1] \in Nat
               /\ v[k - 1] \in Seq(Counted)
               /\ v[k] = IF refs[k].quantity = 0 THEN Append(v[k - 1], refs[k]) ELSE v[k - 1]
    <2>1. after[k - 1] \in Placings /\ t[k - 1] \in Nat /\ v[k - 1] \in Seq(Counted)
      BY <1>1, <1>6
    <2>2. after[k] = PlaceStep(refs)[k][after[k - 1]]
      BY <1>3 DEF Runs
    <2>3. t[k] = t[k - 1] + Costs(refs)[k]
      BY <1>4 DEF Running
    <2>4. v[k] = FilterStep(Counted, S, refs)[k][v[k - 1]]
      BY <1>5 DEF Runs
    <2>5. after[k] = Place(after[k - 1], refs[k])
      BY <1>1, <2>1, <2>2 DEF PlaceStep, n
    <2>6. t[k] = t[k - 1] + refs[k].amount
      BY <2>3 DEF Costs, n
    <2>7. v[k] = IF refs[k] \in S THEN Append(v[k - 1], refs[k]) ELSE v[k - 1]
      BY <1>1, <2>1, <2>4 DEF FilterStep, n, Lists
    <2>8. QED
      BY <1>1, <2>1, <2>5, <2>6, <2>7
  <1> DEFINE Lost(k) == t[k] - SumOf(v[k]) - Worth(after[k].pieces)
             Good == {k \in 0..n : after[k].unresolved = 0 => Lost(k) \in 0..(k * LineCount)}
  <1>8. 0 \in Good
    <2>1. Lost(0) = 0
      BY <1>2, <1>6, SumAppend, WorthAppend
    <2>2. 0 * LineCount = 0 /\ 0 \in 0..n
      BY <1>1
    <2>3. QED
      BY <2>1, <2>2
  <1>9. ASSUME NEW k \in 1..n, k - 1 \in Good PROVE k \in Good
    <2> DEFINE ref == refs[k]
               old == after[k - 1]
               new == after[k]
               cost == IF ref.quantity = 0 THEN 0 ELSE ref.amount
               a == Worth(old.pieces)
               b == Worth(new.pieces)
               y == SumOf(v[k - 1])
               z == SumOf(v[k])
    <2>1. ref \in Counted /\ k \in Nat /\ k \in 0..n /\ LineCount \in Nat
      BY <1>1
    <2>2. old \in Placings /\ new = Place(old, ref)
      BY <1>7
    <2>3. /\ new \in Placings /\ old.unresolved <= new.unresolved
          /\ new.unresolved = 0 => cost - (b - a) \in 0..LineCount
      <3> HIDE DEF ref, old, new
      <3>1. QED
        BY <2>1, <2>2, PlaceWorth
    <2>4. a \in Nat /\ b \in Nat /\ old.unresolved \in Nat
      BY <2>2, <2>3, WorthIsNat DEF Placings
    <2>5. y \in Nat /\ z \in Nat /\ z = y + (ref.amount - cost) /\ ref.amount \in Nat
      <3> DEFINE list == v[k - 1]
      <3>1. list \in Seq(Counted) /\ v[k] = IF ref.quantity = 0 THEN Append(list, ref) ELSE list
        BY <1>7
      <3> HIDE DEF list, ref
      <3>2. ref.amount \in Nat
        BY <2>1 DEF Counted
      <3>3. SumOf(list) \in Nat /\ SumOf(Append(list, ref)) = SumOf(list) + ref.amount
        BY <2>1, <3>1, SumAppend
      <3>4. CASE ref.quantity = 0
        BY <3>1, <3>2, <3>3, <3>4 DEF list
      <3>5. CASE ref.quantity # 0
        BY <3>1, <3>2, <3>3, <3>5 DEF list
      <3>6. QED
        BY <3>4, <3>5
    <2>6. SUFFICES ASSUME new.unresolved = 0 PROVE Lost(k) \in 0..(k * LineCount)
      BY <2>1
    <2>7. old.unresolved = 0
      BY <2>3, <2>4, <2>6
    <2>8. Lost(k - 1) \in 0..((k - 1) * LineCount)
      BY <1>9, <2>7
    <2>9. t[k] = t[k - 1] + ref.amount /\ t[k - 1] \in Nat
      BY <1>7
    <2>10. cost \in Int
      BY <2>5
    <2> DEFINE t0 == t[k - 1]
               t1 == t[k]
               amount == ref.amount
               share == cost - (b - a)
               most == (k - 1) * LineCount
    <2>11. t0 - y - a \in 0..most /\ t1 = t0 + amount /\ z = y + (amount - cost)
           /\ share \in 0..LineCount /\ Lost(k) = t1 - z - b /\ t0 \in Int /\ amount \in Int
      BY <2>3, <2>5, <2>6, <2>8, <2>9
    <2>12. k * LineCount = most + LineCount /\ most \in Int
      <3> DEFINE j == k - 1
      <3>1. j \in Int /\ k = j + 1
        BY <2>1
      <3> HIDE DEF j
      <3>2. k * LineCount = j * LineCount + LineCount /\ j * LineCount \in Int
        BY <2>1, <3>1
      <3>3. QED
        BY <3>2 DEF j
    <2>15. share = cost - (b - a) /\ a \in Int /\ b \in Int /\ y \in Int /\ z \in Int
      BY <2>4, <2>5
    <2> HIDE DEF a, b, y, z, cost, ref, old, new, t0, t1, amount, share, most, Lost
    <2>13. t1 - z - b = (t0 - y - a) + share
      BY <2>10, <2>11, <2>15
    <2> DEFINE part == t0 - y - a
    <2>16. part \in Int /\ part \in 0..most /\ t1 - z - b = part + share
      BY <2>11, <2>13, <2>15
    <2> HIDE DEF part
    <2>14. QED
      BY <2>1, <2>11, <2>12, <2>16
  <1> HIDE DEF Good
  <1>10. 0..n \subseteq Good
    BY <1>1, <1>8, <1>9, HoldsThroughout
  <1>11. n \in 0..n /\ n \in Good
    BY <1>1, <1>10
  <1>12. end.unresolved = 0
    BY DEF end
  <1>13. t[n] - SumOf(odd) - Worth(end.pieces) \in 0..(n * LineCount)
    BY <1>3, <1>5, <1>11, <1>12 DEF Good
  <1>14. QED
    BY <1>2, <1>4, <1>13 DEF end, odd, n, S

-----------------------------------------------------------------------------
(* The payload asks for what was given back. *)

(* A list scaled down to part of its sum: one less for each division.      *)
Scales(list, scaled, q, x) ==
    /\ Len(scaled) = Len(list)
    /\ \A k \in 1..Len(list) : scaled[k].amount = (list[k].amount * x) \div q

LEMMA ScaledTotal ==
  ASSUME NEW list \in Seq(Counted), NEW scaled \in Seq(Counted),
         NEW q \in Nat, NEW x \in Nat, q > 0, Scales(list, scaled, q, x)
  PROVE  Spent(q, x, SumOf(scaled), SumOf(list), Len(list))
  <1> DEFINE n == Len(list)
  <1>1. n \in Nat /\ \A k \in 1..n : /\ list[k] \in Counted /\ list[k].amount \in Nat
                                     /\ k \in Nat /\ k - 1 \in 0..n /\ k \in 0..n
    <2>1. n \in Nat /\ \A k \in 1..n : list[k] \in Counted
      OBVIOUS
    <2> HIDE DEF n
    <2>2. \A k \in 1..n : k \in Nat /\ k - 1 \in 0..n /\ k \in 0..n
      BY <2>1
    <2>3. \A k \in 1..n : list[k].amount \in Nat
      BY <2>1 DEF Counted
    <2>4. QED
      BY <2>1, <2>2, <2>3
  <1>2. PICK t \in Running(Costs(list), n) : SumOf(list) = t[n]
    BY SumIs
  <1>3. PICK u \in Running(Costs(scaled), n) : SumOf(scaled) = u[n]
    <2>1. \E u \in Running(Costs(scaled), Len(scaled)) : SumOf(scaled) = u[Len(scaled)]
      BY SumIs
    <2>2. QED
      BY <2>1 DEF Scales
  <1>4. t \in [0..n -> Nat] /\ t[0] = 0 /\ u \in [0..n -> Nat] /\ u[0] = 0
    BY <1>2, <1>3 DEF Running
  <1>5. ASSUME NEW k \in 1..n
        PROVE  /\ t[k] = t[k - 1] + list[k].amount /\ t[k - 1] \in Nat
               /\ u[k] = u[k - 1] + (list[k].amount * x) \div q /\ u[k - 1] \in Nat
    <2>1. t[k] = t[k - 1] + Costs(list)[k] /\ u[k] = u[k - 1] + Costs(scaled)[k]
      BY <1>2, <1>3 DEF Running
    <2>2. Costs(list)[k] = list[k].amount /\ Costs(scaled)[k] = (list[k].amount * x) \div q
      BY DEF Costs, Scales
    <2>3. QED
      BY <1>1, <1>4, <2>1, <2>2
  <1> DEFINE Good == {k \in 0..n : Spent(q, x, u[k], t[k], k)}
  <1>6. 0 \in Good
    <2>1. q * 0 = 0 /\ x * 0 = 0 /\ 0 \in 0..n
      BY <1>1
    <2>2. QED
      BY <1>4, <2>1 DEF Spent
  <1>7. ASSUME NEW k \in 1..n, k - 1 \in Good PROVE k \in Good
    <2> DEFINE amount == list[k].amount
               prod == x * amount
               s == prod \div q
               w == u[k - 1]
               done == t[k - 1]
               j == k - 1
    <2>1. amount \in Nat /\ w \in Int /\ done \in Int /\ j \in Int /\ k \in 0..n /\ j + 1 = k
      BY <1>1, <1>5
    <2>2. Spent(q, x, w, done, j)
      BY <1>7
    <2>3. prod = amount * x /\ prod \in Nat
      BY <2>1, Products
    <2>4. t[k] = done + amount /\ u[k] = w + s
      BY <1>5, <2>3
    <2> HIDE DEF s, w, done, j, amount
    <2>5. s \in Nat /\ q * s <= x * amount /\ x * amount <= q * s + q
      <3> HIDE DEF prod
      <3>1. s \in Nat /\ q * s <= prod /\ prod <= q * s + q
        BY <2>3, Quotient DEF s
      <3>2. QED
        BY <3>1 DEF prod
    <2>6. Spent(q, x, w + s, done + amount, j + 1)
      <3>1. s \in Int /\ amount \in Int
        BY <2>1, <2>5
      <3>2. QED
        BY <2>1, <2>2, <2>5, <3>1, SpentOn
    <2>7. QED
      BY <2>1, <2>4, <2>6
  <1> HIDE DEF Good, n
  <1>8. 0..n \subseteq Good
    BY <1>1, <1>6, <1>7, HoldsThroughout
  <1>9. n \in 0..n /\ n \in Good
    BY <1>1, <1>8
  <1>10. QED
    BY <1>2, <1>3, <1>9 DEF Good, n

Asked == IF webhook.moneyBack = Untold THEN Itemized(webhook) ELSE webhook.moneyBack

(* What the payload asks for is what the merchant gave back.               *)
LEMMA PayloadTotal ==
  ASSUME AmountsTyped, NEW payload, payload = Payload(webhook)
  PROVE  /\ payload \in Payloads /\ Len(payload.lines) <= WebhookLength
         /\ Asked - (SumOf(payload.lines) + payload.shipping + payload.unallocated)
              \in -Cent..(Cent + WebhookLength + 1)
  <1> DEFINE kept == Kept(webhook)
             n == Len(kept)
             total == Itemized(webhook)
             told == webhook.moneyBack
             shipping == webhook.shipping
             sum == SumOf(kept)
             plain == [lines |-> kept, shipping |-> shipping, unallocated |-> 0]
  <1>1. /\ payload \in Payloads /\ kept \in Seq(Counted) /\ total \in Nat /\ shipping \in Nat
        /\ sum \in Nat /\ total = sum + shipping /\ WebhookLength \in Nat
    BY PayloadTyped, ItemizedTyped, SumIsNat, AmountsAssumption DEF AmountsTyped, Itemized
  <1>2. n \in Nat /\ n <= WebhookLength
    <2> DEFINE S == {ref \in Range(webhook.lines) : ref.quantity > 0 \/ ref.amount > 0}
    <2>1. kept = Among(webhook.lines, S)
      BY DEF Kept
    <2> HIDE DEF S, kept
    <2>2. webhook.lines \in Seq(Counted) /\ Len(webhook.lines) <= WebhookLength
      BY DEF AmountsTyped
    <2>3. Len(kept) <= Len(webhook.lines)
      BY <2>1, <2>2, AmongIs
    <2>4. Len(kept) \in Int /\ Len(kept) >= 0 /\ Len(webhook.lines) \in Int
      BY <1>1, <2>2
    <2>5. QED
      BY <1>1, <2>2, <2>3, <2>4
  <1>3. ASSUME payload = plain, Asked - total \in -Cent..Cent
        PROVE  /\ Len(payload.lines) <= WebhookLength
               /\ Asked - (SumOf(payload.lines) + payload.shipping + payload.unallocated)
                    \in -Cent..(Cent + WebhookLength + 1)
    <2> HIDE DEF kept, n, total, told, shipping, sum
    <2>1. payload.lines = kept /\ payload.shipping = shipping /\ payload.unallocated = 0
      BY <1>3
    <2>2. SumOf(payload.lines) + payload.shipping + payload.unallocated = total
      BY <1>1, <2>1 DEF sum
    <2>3. Asked - (SumOf(payload.lines) + payload.shipping + payload.unallocated) = Asked - total
      BY <2>2
    <2> DEFINE loss == Asked - total
    <2>4. loss \in -Cent..Cent
      BY <1>3
    <2> HIDE DEF loss
    <2>5. loss \in -Cent..(Cent + WebhookLength + 1)
      BY <1>1, <2>4 DEF Cent
    <2>6. QED
      BY <1>2, <2>1, <2>3, <2>5 DEF n, loss
  <1>4. CASE told = Untold
    <2>1. payload = plain /\ Asked = total
      BY <1>4 DEF Payload, Asked
    <2>2. Asked - total \in -Cent..Cent
      <3> HIDE DEF total
      <3>1. Asked - total = 0
        BY <1>1, <2>1
      <3>2. QED
        BY <3>1 DEF Cent
    <2>3. QED
      BY <1>1, <1>3, <2>1, <2>2
  <1>5. CASE told # Untold /\ told < total - Cent
    <2> DEFINE Scaled(m) == (m * told) \div total
               lines == [i \in DOMAIN kept |-> [kept[i] EXCEPT !.amount = Scaled(kept[i].amount)]]
               sent == Scaled(shipping)
    <2>1. told \in Nat /\ total > 0 /\ Asked = told
      BY <1>1, <1>5 DEF AmountsTyped, Cent, Asked
    <2>2. payload = [lines |-> lines, shipping |-> sent, unallocated |-> 0]
      <3>1. ~(told = Untold) /\ told < total - Cent /\ ~(told > total + Cent)
        BY <1>1, <1>5, <2>1 DEF Cent
      <3>2. QED
        BY <1>1, <3>1 DEF Payload, Cent
    <2>3. /\ payload.lines = lines /\ payload.shipping = sent /\ payload.unallocated = 0
          /\ lines \in Seq(Counted) /\ sent \in Nat
      BY <1>1, <2>2 DEF Payloads
    <2>4. Len(lines) = n /\ Scales(kept, lines, total, told)
      <3>1. DOMAIN kept = 1..n
        BY <1>1
      <3>2. DOMAIN lines = 1..n /\ Len(lines) = n
        <4>1. DOMAIN lines = 1..n
          BY <3>1
        <4> HIDE DEF lines
        <4>2. QED
          BY <1>2, <2>3, <4>1
      <3>3. ASSUME NEW k \in 1..n
            PROVE  lines[k].amount = (kept[k].amount * told) \div total
        <4>1. kept[k] \in Counted /\ lines[k] = [kept[k] EXCEPT !.amount = Scaled(kept[k].amount)]
          BY <1>1, <3>1
        <4> HIDE DEF kept, total, lines, Scaled
        <4>2. lines[k].amount = Scaled(kept[k].amount)
          BY <4>1 DEF Counted
        <4>3. QED
          BY <4>2 DEF Scaled
      <3>4. QED
        BY <3>2, <3>3 DEF Scales
    <2> DEFINE spent == SumOf(lines)
               prod == told * shipping
    <2>5. Spent(total, told, spent, sum, n)
      <3> HIDE DEF lines, kept, total, told
      <3>1. QED
        BY <1>1, <2>1, <2>3, <2>4, ScaledTotal DEF n, sum
    <2>6. /\ sent = prod \div total /\ prod \in Nat /\ spent \in Nat
      <3>1. prod = shipping * told /\ prod \in Nat
        <4> HIDE DEF shipping, told
        <4>1. QED
          BY <1>1, <2>1, Products
      <3>2. spent \in Nat
        <4> HIDE DEF lines
        <4>1. QED
          BY <2>3, SumIsNat
      <3>3. QED
        BY <3>1, <3>2
    <2> HIDE DEF lines, kept, total, told, shipping, spent, sum, sent, n, Scaled
    <2>7. total * sent <= told * shipping /\ told * shipping <= total * sent + total
      <3> HIDE DEF prod
      <3>1. total * sent <= prod /\ prod <= total * sent + total
        BY <1>1, <2>1, <2>6, Quotient
      <3>2. QED
        BY <3>1 DEF prod
    <2>8. Spent(total, told, spent + sent, sum + shipping, n + 1)
      <3>1. total \in Nat /\ told \in Nat /\ spent \in Int /\ sum \in Int /\ n \in Int /\ sent \in Int /\ shipping \in Int
        BY <1>1, <1>2, <2>1, <2>3, <2>6
      <3>2. QED
        BY <2>5, <2>7, <3>1, SpentOn
    <2> DEFINE w == spent + sent
               j == n + 1
    <2>9. told - w \in 0..j
      <3>1. w \in Int /\ j \in Int /\ Spent(total, told, w, total, j)
        BY <1>1, <1>2, <2>3, <2>6, <2>8
      <3> HIDE DEF w, j
      <3>2. QED
        BY <1>1, <2>1, <3>1, SpentAll
    <2>10. SumOf(payload.lines) + payload.shipping + payload.unallocated = w
      BY <2>3, <2>6 DEF spent
    <2>11. Asked - w \in -Cent..(Cent + WebhookLength + 1)
      BY <1>1, <1>2, <2>1, <2>3, <2>6, <2>9 DEF Cent
    <2>12. QED
      BY <1>1, <1>2, <2>3, <2>4, <2>10, <2>11
  <1>6. CASE told # Untold /\ ~(told < total - Cent)
    <2>1. told \in Nat /\ Asked = told
      BY <1>6 DEF AmountsTyped, Asked
    <2>2. CASE told > total + Cent
      <3>1. payload = [plain EXCEPT !.unallocated = told - total]
        BY <1>1, <1>6, <2>1, <2>2 DEF Payload, Cent
      <3> HIDE DEF kept, n, total, told, shipping, sum
      <3>2. payload.lines = kept /\ payload.shipping = shipping /\ payload.unallocated = told - total
        BY <3>1
      <3>3. Asked - (SumOf(payload.lines) + payload.shipping + payload.unallocated) = 0
        <4>1. SumOf(payload.lines) = sum
          BY <3>2 DEF sum
        <4>2. QED
          BY <1>1, <2>1, <3>2, <4>1
      <3>4. QED
        BY <1>1, <1>2, <3>2, <3>3 DEF Cent, n
    <2>3. CASE ~(told > total + Cent)
      <3>1. payload = plain
        BY <1>1, <1>6, <2>1, <2>3 DEF Payload, Cent
      <3>2. Asked - total \in -Cent..Cent
        <4>1. /\ Asked = told /\ told \in Int /\ total \in Int /\ ~(told > total + Cent)
              /\ ~(told < total - Cent)
          BY <1>1, <1>6, <2>1, <2>3
        <4> HIDE DEF total, told
        <4>2. QED
          BY ONLY <4>1 DEF Cent
      <3>3. QED
        BY <1>1, <1>3, <3>1, <3>2
    <2>4. QED
      BY <2>2, <2>3
  <1>7. QED
    BY <1>4, <1>5, <1>6

-----------------------------------------------------------------------------
(* What the lines were given. *)

(* What a line was given and what is sent of it and told instead.          *)
LEMMA LineTotal ==
  ASSUME AmountsTyped, NEW acc \in Entries, NEW l \in Lines,
         Shipped(acc)[l] \in Cents, Shipped(acc)[l] \in 0..Remaining(l).shipping,
         NEW sent, sent = (IF l \in AtDecathlon \cap Range(acc.keys) /\ ~Negligible(Row(acc, l))
                           THEN Row(acc, l).amount + Row(acc, l).shipping ELSE 0),
         NEW over, over = (IF l \in Range(acc.keys)
                           THEN Round2(acc.of[l].amount) - Capped(l, Round2(acc.of[l].amount)) ELSE 0)
  PROVE  sent \in Int /\ over \in Int /\ Amounts(acc)[l] + Shipped(acc)[l] - sent - over \in -6..18
  <1> DEFINE a == Amounts(acc)[l]
             h == Shipped(acc)[l]
             r == Round2(acc.of[l].amount)
             c == Capped(l, Round2(acc.of[l].amount))
             row == Row(acc, l)
             most == Remaining(l).amount
             room == Remaining(l).shipping
  <1>1. a \in Nat /\ h \in Nat /\ acc.of[l].amount = a /\ acc.of[l].shipping = h
    BY EntriesMoney
  <1>2. /\ most \in Int /\ most >= 0 /\ room \in Int /\ h <= room
        /\ l \notin AtDecathlon => most = 0 /\ room = 0
    BY RemainingTyped, Round2Is
  <1>3. r \in Int /\ r >= 0 /\ r - a \in -6..6
    <2> DEFINE amount == acc.of[l].amount
    <2>1. amount = a /\ amount \in Int /\ amount >= 0
      BY <1>1
    <2> HIDE DEF amount
    <2>2. Round2(amount) \in Int /\ Round2(amount) - amount \in -6..6 /\ Round2(amount) >= 0
      BY <2>1, Round2Is
    <2>3. r = Round2(amount)
      BY DEF amount
    <2> HIDE DEF r, a
    <2>4. QED
      BY <2>1, <2>2, <2>3
  <1>4. c = (IF r <= most THEN r ELSE most)
    <2> HIDE DEF r, most
    <2>1. Capped(l, r) = Min({r, most})
      BY DEF Capped, most
    <2>2. QED
      BY <1>2, <1>3, <2>1, MinIs DEF r
  <1>5. row.amount = c /\ row.shipping = h
    <2>1. row.amount = c /\ row.shipping = Round2(acc.of[l].shipping)
      BY DEF Row
    <2>2. Round2(h) = h
      BY <1>1, Round2Is
    <2>3. QED
      BY <1>1, <2>1, <2>2
  <1>6. Negligible(row) <=> c + h <= 12
    BY <1>5 DEF Negligible, Cent
  <1>7. l \notin Range(acc.keys) => a = 0 /\ h = 0
    BY <1>1 DEF Entries
  <1>8. sent = (IF l \in AtDecathlon /\ l \in Range(acc.keys) /\ ~(c + h <= 12) THEN c + h ELSE 0)
    BY <1>5, <1>6
  <1>9. over = (IF l \in Range(acc.keys) THEN r - c ELSE 0)
    OBVIOUS
  <1> HIDE DEF a, h, r, c, row, most, room
  <1>10. c \in Int /\ c >= 0
    BY <1>2, <1>3, <1>4
  <1>11. sent \in Int /\ over \in Int
    BY <1>1, <1>3, <1>8, <1>9, <1>10
  <1>12. a + h - sent - over \in -6..18
    <2>1. CASE l \notin Range(acc.keys)
      <3>1. sent = 0 /\ over = 0 /\ a = 0 /\ h = 0
        BY <1>7, <1>8, <1>9, <2>1
      <3>2. QED
        BY <3>1
    <2>2. CASE l \in Range(acc.keys) /\ l \notin AtDecathlon
      <3>1. sent = 0 /\ over = r - c /\ most = 0 /\ h = 0
        BY <1>1, <1>2, <1>8, <1>9, <2>2
      <3>2. c = 0
        BY <1>3, <1>4, <3>1
      <3>3. QED
        BY <1>1, <1>3, <3>1, <3>2
    <2>3. CASE l \in Range(acc.keys) /\ l \in AtDecathlon /\ c + h <= 12
      <3>1. sent = 0 /\ over = r - c
        BY <1>8, <1>9, <2>3
      <3>2. QED
        BY <1>1, <1>3, <1>10, <2>3, <3>1
    <2>4. CASE l \in Range(acc.keys) /\ l \in AtDecathlon /\ ~(c + h <= 12)
      <3>1. sent = c + h /\ over = r - c
        BY <1>8, <1>9, <2>4
      <3>2. QED
        BY <1>1, <1>3, <1>10, <3>1
    <2>5. QED
      BY <2>1, <2>2, <2>3, <2>4
  <1>13. QED
    BY <1>11, <1>12 DEF a, h

(* A row never asks for more than its line has left.                       *)
LEMMA RowWithin ==
  ASSUME AmountsTyped, NEW acc \in Entries, NEW l \in Lines,
         Shipped(acc)[l] \in Cents, Shipped(acc)[l] \in 0..Remaining(l).shipping
  PROVE  Within(l, Row(acc, l))
  <1> DEFINE rest == Remaining(l)
             quantity == acc.of[l].quantity
             amount == acc.of[l].amount
             shipping == acc.of[l].shipping
  <1>1. /\ rest.amount \in Int /\ rest.quantity \in Int /\ rest.shipping \in Int
        /\ quantity \in Int /\ amount \in Int /\ shipping \in Cents /\ shipping <= rest.shipping
    BY RemainingTyped, EntriesMoney, Round2Is
  <1> DEFINE row == Row(acc, l)
  <1>2. /\ row.quantity = Min({quantity, Max({rest.quantity, 0})})
        /\ row.amount = Min({Round2(amount), rest.amount}) /\ row.shipping = Round2(shipping)
    BY DEF Row, Capped
  <1> HIDE DEF rest, row, quantity, amount, shipping
  <1>3. Round2(shipping) <= rest.shipping
    BY <1>1, Round2Is
  <1>4. Min({Round2(amount), rest.amount}) <= rest.amount
    <2> DEFINE r == Round2(amount)
               most == rest.amount
    <2>1. r \in Int /\ most \in Int
      BY <1>1, Round2Is
    <2> HIDE DEF r, most
    <2>2. Min({r, most}) <= most
      BY <2>1, MinIs
    <2>3. QED
      BY <2>2 DEF r, most
  <1>5. Min({quantity, Max({rest.quantity, 0})}) <= Max({rest.quantity, 0})
    <2> DEFINE q == quantity
               most == Max({rest.quantity, 0})
    <2>1. q \in Int /\ most \in Int
      BY <1>1, MaxIs
    <2> HIDE DEF q, most
    <2>2. Min({q, most}) <= most
      BY <2>1, MinIs
    <2>3. QED
      BY <2>2 DEF q, most
  <1>6. QED
    BY <1>2, <1>3, <1>4, <1>5 DEF Within, rest, row

(* How the refunds are built: the pieces, the price gesture, the shipping, *)
(* each from what the one before left.                                     *)
Stages(payload) ==
    {stages \in Untouched \X Gestures \X Spreads :
        LET pieces == stages[1]
            gesture == stages[2]
            shipping == stages[3]
        IN  /\ OverLines(Amounts(pieces)) = Worth(ResolveLines(payload.lines).pieces)
            /\ OverLines(Amounts(gesture.acc)) + gesture.left - OverLines(Amounts(pieces))
                 - Round2(payload.unallocated) \in (-6 * LineCount)..(6 * LineCount)
            /\ Amounts(shipping.acc) = Amounts(gesture.acc)
            /\ OverLines(Shipped(shipping.acc)) + shipping.left = Round2(payload.shipping)
            /\ \A l \in Lines : /\ Shipped(shipping.acc)[l] \in Cents
                                /\ Shipped(shipping.acc)[l] \in 0..Remaining(l).shipping}

Refunded(acc) == {l \in AtDecathlon \cap Range(acc.keys) : ~Negligible(Row(acc, l))}

Overs(acc) ==
    [l \in Lines |-> IF l \in Range(acc.keys)
                     THEN Round2(acc.of[l].amount) - Capped(l, Round2(acc.of[l].amount)) ELSE 0]

(* Spread goes through such stages.                                        *)
LEMMA BuiltIs ==
  ASSUME AmountsTyped, NEW payload \in Payloads
  PROVE  \E stages \in Stages(payload) :
            /\ Spread(payload).refunds = [l \in Refunded(stages[3].acc) |-> Row(stages[3].acc, l)]
            /\ Spread(payload).told
                 = stages[2].left + stages[3].left + OverLines(Overs(stages[3].acc))
  <1> DEFINE list == ResolveLines(payload.lines).pieces
             pieces == FoldLeft(AddPiece, NoEntries, list)
             first == [acc |-> pieces, left |-> Round2(payload.unallocated)]
             gesture == FoldLeft(AddGesture, first, Present)
             second == [acc |-> gesture.acc, left |-> Round2(payload.shipping)]
             order == ShippingOrder(gesture.acc)
             shipping == FoldLeft(AddShipping, second, order)
  <1>1. /\ Spread(payload).refunds = [l \in Refunded(shipping.acc) |-> Row(shipping.acc, l)]
        /\ Spread(payload).told = gesture.left + shipping.left + OverLines(Overs(shipping.acc))
    BY DEF Spread, Refunded, Overs
  <1>2. list \in Seq(Pieces)
    <2>1. ResolveLines(payload.lines) \in Placings
      BY ResolveLinesTyped DEF Payloads
    <2>2. QED
      BY <2>1 DEF Placings
  <1> HIDE DEF shipping
  <1>3. pieces \in Untouched /\ OverLines(Amounts(pieces)) = Worth(list)
    <2> HIDE DEF list
    <2>1. QED
      BY <1>2, PiecesTotal
  <1> HIDE DEF pieces
  <1>4. Round2(payload.unallocated) \in Nat /\ Round2(payload.shipping) \in Nat
        /\ Round2(payload.shipping) \in Cents
    <2>1. payload.unallocated \in Int /\ payload.unallocated >= 0 /\ payload.shipping \in Int
          /\ payload.shipping >= 0
      BY DEF Payloads
    <2> DEFINE u == payload.unallocated
               s == payload.shipping
    <2> HIDE DEF u, s
    <2>2. /\ Round2(u) \in Int /\ Round2(u) >= 0
          /\ Round2(s) \in Int /\ Round2(s) >= 0 /\ Round2(s) \in Cents
      BY <2>1, Round2Is DEF u, s
    <2>3. QED
      BY <2>2 DEF u, s
  <1>5. first \in Gestures /\ first.acc = pieces /\ first.left = Round2(payload.unallocated)
    BY <1>3, <1>4 DEF Gestures
  <1>6. Present \in Seq(Lines) /\ Len(Present) <= LineCount
    <2> DEFINE all == [l \in Lines |-> l]
    <2>1. all \in Seq(Lines) /\ Len(all) = LineCount /\ Present = Among(all, AtDecathlon)
      BY AllLines, AmountsAssumption DEF Keys, Lines, Present
    <2> HIDE DEF all
    <2>2. Among(all, AtDecathlon) \in Seq(Lines) /\ Len(Among(all, AtDecathlon)) <= Len(all)
      BY <2>1, AmongIs
    <2>3. QED
      BY <2>1, <2>2
  <1> HIDE DEF first
  <1>7. /\ gesture \in Gestures
        /\ OverLines(Amounts(gesture.acc)) + gesture.left - OverLines(Amounts(first.acc)) - first.left
              \in (-6 * LineCount)..(6 * LineCount)
    BY <1>5, <1>6, GestureTotal
  <1> HIDE DEF gesture
  <1>8. second \in Gestures /\ second.acc = gesture.acc /\ second.left = Round2(payload.shipping)
        /\ second.left \in Cents
    BY <1>4, <1>7 DEF Gestures
  <1>9. order \in Keys
    BY <1>7, ShippingOrderIs DEF Gestures, Untouched
  <1> HIDE DEF second, order
  <1>10. /\ shipping \in Spreads /\ Amounts(shipping.acc) = Amounts(second.acc)
         /\ OverLines(Shipped(shipping.acc)) + shipping.left = second.left
         /\ \A l \in Lines : /\ Shipped(shipping.acc)[l] \in Cents
                             /\ Shipped(shipping.acc)[l] \in 0..Remaining(l).shipping
    BY <1>8, <1>9, ShippingTotal DEF shipping
  <1> DEFINE stages == <<pieces, gesture, shipping>>
  <1>11. stages \in Stages(payload)
    BY <1>3, <1>5, <1>7, <1>8, <1>10 DEF Stages, list
  <1>12. stages[2] = gesture /\ stages[3] = shipping
    OBVIOUS
  <1> HIDE DEF stages
  <1>13. QED
    BY <1>1, <1>11, <1>12

(* No refund asks for more than its line has left.                         *)
LEMMA RefundsWithin ==
  ASSUME AmountsTyped, NEW payload \in Payloads
  PROVE  \A l \in DOMAIN Spread(payload).refunds : Within(l, Spread(payload).refunds[l])
  <1>1. PICK stages \in Stages(payload) :
           Spread(payload).refunds = [l \in Refunded(stages[3].acc) |-> Row(stages[3].acc, l)]
    BY BuiltIs
  <1> DEFINE acc == stages[3].acc
  <1>2. acc \in Entries /\ \A l \in Lines : /\ Shipped(acc)[l] \in Cents
                                            /\ Shipped(acc)[l] \in 0..Remaining(l).shipping
    BY DEF Stages, Spreads
  <1> HIDE DEF acc
  <1>3. \A l \in Refunded(acc) : l \in Lines /\ Within(l, Row(acc, l))
    BY <1>2, RowWithin DEF Refunded, AtDecathlon
  <1>4. QED
    BY <1>1, <1>3 DEF acc

(* Nor does a cancellation, and it leaves alone what is on its way.        *)
LEMMA CancellationWithin ==
  ASSUME AmountsTyped
  PROVE  \A l \in DOMAIN BuildCancellationRefunds :
            Within(l, BuildCancellationRefunds[l]) /\ owed[l].state = "SHIPPING"
  <1> DEFINE Whole(l) == [Remaining(l) EXCEPT !.quantity = Max({Remaining(l).quantity, 0})]
             S == {k \in AtDecathlon : owed[k].state = "SHIPPING" /\ owed[k].canRefund
                                         /\ ~Negligible(Whole(k))}
  <1>1. BuildCancellationRefunds = [l \in S |-> Whole(l)]
    BY DEF BuildCancellationRefunds
  <1>2. ASSUME NEW l \in AtDecathlon PROVE Within(l, Whole(l))
    <2>1. l \in Lines
      BY DEF AtDecathlon
    <2>2. /\ Remaining(l) = [amount |-> Remaining(l).amount, shipping |-> Remaining(l).shipping,
                             quantity |-> Remaining(l).quantity]
          /\ Remaining(l).amount \in Int /\ Remaining(l).shipping \in Int /\ Remaining(l).quantity \in Int
      BY <2>1, RemainingTyped, Round2Is
    <2>3. Max({Remaining(l).quantity, 0}) \in Int
      BY <2>2, MaxIs
    <2> DEFINE rest == Remaining(l)
               most == Max({Remaining(l).quantity, 0})
    <2>4. Whole(l).amount = rest.amount /\ Whole(l).shipping = rest.shipping /\ Whole(l).quantity = most
      <3> HIDE DEF most
      <3>1. Whole(l) = [rest EXCEPT !.quantity = most]
        BY DEF most
      <3> HIDE DEF rest
      <3>2. QED
        BY <2>2, <3>1 DEF rest
    <2>5. QED
      BY <2>2, <2>3, <2>4 DEF Within
  <1> HIDE DEF Whole
  <1>3. QED
    BY <1>1, <1>2

(* Whatever the quantities, prices and earlier refunds of an order with    *)
(* any number of lines, and whatever a refund of it lists: no line is      *)
(* refunded more than Decathlon still holds for it.                        *)
THEOREM RefundStaysWithin == AmountsInit => NeverBeyondRemaining
  <1> SUFFICES ASSUME AmountsInit PROVE NeverBeyondRemaining
    OBVIOUS
  <1>1. AmountsTyped
    BY AmountsInitTyped
  <1>2. DOMAIN Built.refunds = {} \/ Built = Spread(Payload(webhook))
    <2>1. DOMAIN [l \in {} |-> 0] = {}
      OBVIOUS
    <2>2. QED
      BY <2>1 DEF Built, BuildRefunds
  <1>3. \A l \in DOMAIN Built.refunds : Within(l, Built.refunds[l])
    BY <1>1, <1>2, PayloadTyped, RefundsWithin
  <1>4. QED
    BY <1>1, <1>3, CancellationWithin DEF NeverBeyondRemaining

SentOf(acc) ==
    [l \in Lines |-> IF l \in AtDecathlon \cap Range(acc.keys) /\ ~Negligible(Row(acc, l))
                     THEN Row(acc, l).amount + Row(acc, l).shipping ELSE 0]

(* Over all lines: what they were given, what is sent, what is told.       *)
LEMMA LinesTotal ==
  ASSUME AmountsTyped, NEW acc \in Entries,
         \A l \in Lines : Shipped(acc)[l] \in Cents /\ Shipped(acc)[l] \in 0..Remaining(l).shipping
  PROVE  /\ OverLines(Amounts(acc)) + OverLines(Shipped(acc)) - OverLines(SentOf(acc)) - OverLines(Overs(acc))
              \in (-6 * LineCount)..(18 * LineCount)
         /\ OverLines(SentOf(acc)) \in Int /\ OverLines(Overs(acc)) \in Int
  <1> DEFINE a == Amounts(acc)
             h == Shipped(acc)
             s == SentOf(acc)
             o == Overs(acc)
             d == [l \in Lines |-> a[l] + h[l] - s[l] - o[l]]
             e == [l \in Lines |-> d[l] + s[l]]
             g == [l \in Lines |-> a[l] + h[l]]
  <1>1. ASSUME NEW l \in Lines
        PROVE  s[l] \in Int /\ o[l] \in Int /\ a[l] + h[l] - s[l] - o[l] \in -6..18
    <2> DEFINE sent == s[l]
               over == o[l]
    <2>1. /\ sent = (IF l \in AtDecathlon \cap Range(acc.keys) /\ ~Negligible(Row(acc, l))
                     THEN Row(acc, l).amount + Row(acc, l).shipping ELSE 0)
          /\ over = (IF l \in Range(acc.keys)
                     THEN Round2(acc.of[l].amount) - Capped(l, Round2(acc.of[l].amount)) ELSE 0)
      BY DEF SentOf, Overs
    <2> HIDE DEF sent, over
    <2>2. sent \in Int /\ over \in Int /\ Amounts(acc)[l] + Shipped(acc)[l] - sent - over \in -6..18
      BY <2>1, LineTotal
    <2>3. QED
      BY <2>2 DEF sent, over
  <1>2. a \in [Lines -> Int] /\ h \in [Lines -> Int]
    BY EntriesMoney
  <1>3. s \in [Lines -> Int] /\ o \in [Lines -> Int]
    <2>1. s = [l \in Lines |-> s[l]] /\ o = [l \in Lines |-> o[l]]
      BY DEF SentOf, Overs
    <2> HIDE DEF s, o
    <2>2. QED
      BY <1>1, <2>1
  <1> HIDE DEF a, h, s, o
  <1>4. \A l \in Lines : /\ a[l] \in Int /\ h[l] \in Int /\ s[l] \in Int /\ o[l] \in Int
                         /\ a[l] + h[l] - s[l] - o[l] \in Int
    BY <1>2, <1>3
  <1>5. d \in [Lines -> Int] /\ \A l \in Lines : d[l] \in -6..18
    BY <1>1, <1>4
  <1>6. e \in [Lines -> Int] /\ \A l \in Lines : e[l] = d[l] + s[l]
    BY <1>4
  <1>7. g \in [Lines -> Int] /\ \A l \in Lines : g[l] = a[l] + h[l]
    BY <1>4
  <1>8. \A l \in Lines : g[l] = e[l] + o[l]
    BY <1>4
  <1> HIDE DEF d, e, g
  <1>9. OverLines(g) = OverLines(a) + OverLines(h)
    BY <1>2, <1>7, OverAdd
  <1>10. OverLines(g) = OverLines(e) + OverLines(o)
    BY <1>3, <1>6, <1>7, <1>8, OverAdd
  <1>11. OverLines(e) = OverLines(d) + OverLines(s)
    BY <1>3, <1>5, <1>6, OverAdd
  <1>12. -6 * LineCount <= OverLines(d) /\ OverLines(d) <= 18 * LineCount
    BY <1>5, OverBetween
  <1>13. /\ OverLines(a) \in Int /\ OverLines(h) \in Int /\ OverLines(s) \in Int /\ OverLines(o) \in Int
         /\ OverLines(d) \in Int /\ LineCount \in Int
    BY <1>2, <1>3, <1>5, OverTyped, AmountsAssumption
  <1>14. OverLines(a) + OverLines(h) - OverLines(s) - OverLines(o) = OverLines(d)
    BY <1>9, <1>10, <1>11, <1>13
  <1>15. OverLines(d) \in (-6 * LineCount)..(18 * LineCount)
    BY <1>12, <1>13
  <1>16. QED
    BY <1>13, <1>14, <1>15 DEF a, h, s, o

(* What is asked for is sent or told, but for the roundings and what is    *)
(* not worth a cent.                                                       *)
LEMMA BuiltTotal ==
  ASSUME AmountsTyped, NEW payload \in Payloads, NEW built, built = Spread(payload)
  PROVE  /\ Worth(ResolveLines(payload.lines).pieces) + payload.shipping + payload.unallocated
              - MoneySent(built.refunds) - built.told
                \in (-12 - 12 * LineCount)..(12 + 24 * LineCount)
         /\ MoneySent(built.refunds) \in Int /\ built.told \in Int
  <1>1. PICK stages \in Stages(payload) :
            /\ built.refunds = [l \in Refunded(stages[3].acc) |-> Row(stages[3].acc, l)]
            /\ built.told = stages[2].left + stages[3].left + OverLines(Overs(stages[3].acc))
    BY BuiltIs
  <1> DEFINE pieces == stages[1]
             gesture == stages[2]
             shipping == stages[3]
             acc == shipping.acc
             u == payload.unallocated
             s == payload.shipping
             w == Worth(ResolveLines(payload.lines).pieces)
             amounts == OverLines(Amounts(acc))
             shipped == OverLines(Shipped(acc))
             sent == OverLines(SentOf(acc))
             over == OverLines(Overs(acc))
             ru == Round2(u)
             rs == Round2(s)
             gl == gesture.left
             sl == shipping.left
             L == LineCount
  <1>2. /\ pieces \in Untouched /\ gesture \in Gestures /\ shipping \in Spreads
        /\ OverLines(Amounts(pieces)) = w
        /\ OverLines(Amounts(gesture.acc)) + gl - OverLines(Amounts(pieces)) - ru \in (-6 * L)..(6 * L)
        /\ Amounts(acc) = Amounts(gesture.acc)
        /\ shipped + sl = rs
        /\ \A l \in Lines : Shipped(acc)[l] \in Cents /\ Shipped(acc)[l] \in 0..Remaining(l).shipping
    BY DEF Stages
  <1>3. u \in Int /\ s \in Int
    BY DEF Payloads
  <1>4. built.told = gl + sl + over
    BY <1>1
  <1>5. MoneySent(built.refunds) = sent
    <2>1. DOMAIN built.refunds = Refunded(acc) /\ \A l \in Refunded(acc) : built.refunds[l] = Row(acc, l)
      BY <1>1
    <2> HIDE DEF acc
    <2>2. \A l \in Lines : l \in DOMAIN built.refunds <=>
                             l \in AtDecathlon \cap Range(acc.keys) /\ ~Negligible(Row(acc, l))
      BY <2>1 DEF Refunded
    <2> DEFINE f == [l \in Lines |-> IF l \in DOMAIN built.refunds
                                     THEN built.refunds[l].amount + built.refunds[l].shipping ELSE 0]
    <2>3. f = SentOf(acc)
      BY <2>1, <2>2 DEF SentOf
    <2>4. MoneySent(built.refunds) = OverLines(f)
      BY DEF MoneySent
    <2> HIDE DEF f
    <2>5. QED
      BY <2>3, <2>4
  <1>6. acc \in Entries /\ gl \in Int /\ sl \in Int /\ pieces \in Entries
    BY <1>2 DEF Spreads, Gestures, Untouched
  <1>7. w \in Int
    <2>1. Amounts(pieces) \in [Lines -> Int]
      BY <1>6, EntriesMoney
    <2> HIDE DEF pieces, w
    <2>2. OverLines(Amounts(pieces)) \in Int
      BY <2>1, OverTyped
    <2>3. QED
      BY <1>2, <2>2
  <1> HIDE DEF acc, pieces, gesture, shipping, w, gl, sl, u, s
  <1>8. /\ amounts + shipped - sent - over \in (-6 * L)..(18 * L)
        /\ sent \in Int /\ over \in Int
    BY <1>2, <1>6, LinesTotal
  <1>9. Amounts(acc) \in [Lines -> Int] /\ Shipped(acc) \in [Lines -> Int]
    BY <1>6, EntriesMoney
  <1>10. amounts \in Int /\ shipped \in Int
    BY <1>9, OverTyped
  <1>11. ru - u \in -6..6 /\ rs - s \in -6..6 /\ ru \in Int /\ rs \in Int /\ L \in Nat
    BY <1>3, Round2Is, AmountsAssumption
  <1>12. amounts + gl - w - ru \in (-6 * L)..(6 * L) /\ shipped + sl = rs
    BY <1>2
  <1> HIDE DEF amounts, shipped, sent, over, ru, rs, L
  <1>13. w + s + u - sent - (gl + sl + over) \in (-12 - 12 * L)..(12 + 24 * L)
    BY <1>3, <1>6, <1>7, <1>8, <1>10, <1>11, <1>12
  <1>14. sent \in Int /\ gl + sl + over \in Int
    BY <1>6, <1>8
  <1>15. QED
    BY <1>4, <1>5, <1>13, <1>14 DEF w, s, u, L

(* Whatever the order, whatever Decathlon says of it and whatever a refund *)
(* lists: what the merchant gave back is sent to Decathlon or reported,    *)
(* once, but for roundings and quantity-0 lines; nothing at all is sent    *)
(* when part of a line of the refund cannot be placed.                     *)
THEOREM RefundAccounted == AmountsInit => RefundIsAccounted
  <1>a. ASSUME AmountsInit, ~Placed
        PROVE  DOMAIN Built.refunds = {}
    <2>1. ResolveLines(Payload(webhook).lines).unresolved \in Nat
      <3>1. AmountsTyped
        BY <1>a, AmountsInitTyped
      <3>2. Payload(webhook) \in Payloads
        BY <3>1, PayloadTyped
      <3>3. Payload(webhook).lines \in Seq(Counted)
        BY <3>2 DEF Payloads
      <3>4. ResolveLines(Payload(webhook).lines) \in Placings
        BY <3>1, <3>3, ResolveLinesTyped
      <3>5. QED
        BY <3>4 DEF Placings
    <2>2. ResolveLines(Payload(webhook).lines).unresolved > 0
      BY <1>a, <2>1 DEF Placed
    <2>3. DOMAIN [l \in {} |-> 0] = {}
      OBVIOUS
    <2>4. QED
      BY <2>2, <2>3 DEF Built, BuildRefunds
  <1> SUFFICES ASSUME AmountsInit, Placed
               PROVE  Asked - Vanished - MoneySent(Built.refunds) - Built.told \in -Tolerance..Tolerance
    BY <1>a DEF RefundIsAccounted, Asked
  <1> DEFINE payload == Payload(webhook)
             built == Built
             refs == payload.lines
             n == Len(refs)
             w == Worth(ResolveLines(refs).pieces)
             sum == SumOf(refs)
             s == payload.shipping
             u == payload.unallocated
             sent == MoneySent(built.refunds)
             told == built.told
             L == LineCount
             W == WebhookLength
  <1>1. AmountsTyped
    BY AmountsInitTyped
  <1>2. payload \in Payloads /\ n <= W /\ Asked - (sum + s + u) \in -Cent..(Cent + W + 1)
    BY <1>1, PayloadTotal
  <1>3. built = Spread(payload) /\ ResolveLines(refs).unresolved = 0
    BY DEF Built, Placed, BuildRefunds
  <1> HIDE DEF built, payload
  <1>4. refs \in Seq(Counted) /\ s \in Int /\ u \in Int /\ n \in Nat /\ L \in Nat /\ W \in Nat
    BY <1>2, AmountsAssumption DEF Payloads
  <1> HIDE DEF refs
  <1>5. /\ ResolveLines(refs) \in Placings
        /\ sum - SumOf(Among(refs, Unpaid(refs))) - w \in 0..(n * L)
    BY <1>1, <1>3, <1>4, ResolveTotal
  <1>6. Vanished = SumOf(Among(refs, Unpaid(refs)))
    BY DEF Vanished, Unpaid, refs, payload
  <1>7. w + s + u - sent - told \in (-12 - 12 * L)..(12 + 24 * L) /\ sent \in Int /\ told \in Int
    BY <1>1, <1>2, <1>3, BuiltTotal DEF refs
  <1>8. w \in Int /\ sum \in Int
    BY <1>4, <1>5, WorthIsNat, SumIsNat DEF Placings
  <1>9. Vanished \in Int
    <2> DEFINE S == Unpaid(refs)
    <2> HIDE DEF S
    <2>1. Among(refs, S) \in Seq(Counted)
      BY <1>4, AmongIs
    <2>2. SumOf(Among(refs, S)) \in Nat
      BY <2>1, SumIsNat
    <2>3. QED
      BY <1>6, <2>2 DEF S
  <1>10. Asked \in Int
    BY <1>1, ItemizedTyped DEF Asked, AmountsTyped
  <1>11. sum - Vanished - w \in 0..(n * L)
    BY <1>5, <1>6
  <1> DEFINE lost == sum - Vanished - w
             built1 == w + s + u - sent - told
             asked1 == Asked - (sum + s + u)
             V == Vanished
             A == Asked
  <1>12. V \in Int /\ A \in Int
    BY <1>9, <1>10
  <1> HIDE DEF V, A, w, sum, s, u, sent, told, n, L, W
  <1>13. A - V - sent - told = asked1 + lost + built1
         /\ asked1 \in Int /\ lost \in Int /\ built1 \in Int
    BY <1>4, <1>7, <1>8, <1>12 DEF V, A
  <1>14. asked1 \in -12..(13 + W) /\ lost \in 0..(n * L) /\ built1 \in (-12 - 12 * L)..(12 + 24 * L)
    <2>1. asked1 \in -12..(12 + W + 1)
      BY <1>2 DEF Cent
    <2>2. QED
      BY <1>4, <1>7, <1>11, <2>1
  <1> HIDE DEF lost, built1, asked1
  <1> DEFINE more == W * L
  <1>15. n * L <= more /\ more \in Nat /\ n * L \in Nat
    <2>1. n <= W
      BY <1>2
    <2>2. QED
      BY <1>4, <2>1
  <1>16. Tolerance = 25 + 25 * L + W + more
    <2>1. Tolerance = 2 * (1 + L) * 12 + (1 + W) * (1 + L)
      BY DEF Tolerance, Cent, L, W
    <2>2. (1 + W) * (1 + L) = 1 + L + W + W * L
      BY <1>4
    <2>3. QED
      BY <1>4, <2>1, <2>2
  <1> DEFINE most == n * L
  <1>17. lost \in 0..most /\ most <= more /\ most \in Nat
    BY <1>14, <1>15
  <1> HIDE DEF most, more
  <1>18. asked1 + lost + built1 \in -Tolerance..Tolerance
    BY <1>4, <1>13, <1>14, <1>15, <1>16, <1>17
  <1>19. QED
    BY <1>13, <1>18 DEF V, A, sent, told, built

-----------------------------------------------------------------------------
(* HttpClient. *)

USE ClientAssumption

(***************************************************************************)
(* The inductive invariant.  Whatever the policy, an answer "ok" is a      *)
(* write that took effect, and nothing is under way that was not sent.     *)
(***************************************************************************)
Sent == \A n \in Tries : n > attempt => reply[n] = "unsent"

Begun == at # "send" => attempt \in Tries

OkTookEffect == \A n \in Tries : reply[n] = "ok" => times > 0

BodyIsOk == at \in {"body", "ok"} => attempt \in Tries /\ reply[attempt] = "ok"

(* With the safe policy every attempt but the newest ended with a 429, so  *)
(* only the newest can have had an effect, and it has had one at most.     *)
EarlierThrottled == \A n \in Tries : n < attempt => reply[n] = "tooMany"

NewestDecides ==
    /\ times <= 1
    /\ times = 1 => attempt \in Tries /\ reply[attempt] \in Effective
    /\ at \in {"send", "backoff"} /\ attempt \in Tries => reply[attempt] = "tooMany"
    /\ at \in {"refused", "rateLimited"} => reply[attempt] \in {"refused", "tooMany"}
    /\ at \notin {"error", "failed"}

SafeInv == SafeOnly => EarlierThrottled /\ NewestDecides

IInv == TypeOK /\ Sent /\ Begun /\ OkTookEffect /\ BodyIsOk /\ SafeInv

LEMMA InitIInv == Init => IInv
  BY DEF Init, IInv, TypeOK, Tries, Sent, Begun, OkTookEffect, BodyIsOk, SafeInv,
     EarlierThrottled, NewestDecides, Ends, Replies, Effective

(* An answer of Decathlon: nothing the client knows changes. *)
LEMMA AnswerIInv ==
  ASSUME IInv, NEW n \in Tries, Apply(n) \/ Ignore(n)
  PROVE  IInv'
  <1> USE DEF IInv, TypeOK, Tries, Effective, Idle, Replies, Answer, Apply, Ignore
  <1>1. TypeOK' /\ Begun'
    BY DEF Begun
  <1>2. Sent' /\ OkTookEffect'
    BY DEF Sent, OkTookEffect
  <1>3. BodyIsOk'
    BY DEF BodyIsOk
  <1>4. SafeInv'
    BY DEF SafeInv, EarlierThrottled, NewestDecides, Sent
  <1>5. QED
    BY <1>1, <1>2, <1>3, <1>4

LEMMA SendIInv ==
  ASSUME IInv, Send
  PROVE  IInv'
  <1> USE DEF IInv, TypeOK, Tries, Effective, Idle, Replies, Send, LastTry
  <1>1. TypeOK' /\ Begun' /\ BodyIsOk'
    BY DEF Begun, BodyIsOk, Ends
  <1>2. Sent' /\ OkTookEffect'
    BY DEF Sent, OkTookEffect
  <1>3. SafeInv'
    BY DEF SafeInv, EarlierThrottled, NewestDecides
  <1>4. QED
    BY <1>1, <1>2, <1>3

(* Every other step of the client only changes where it is. *)
LEMMA MoveIInv ==
  ASSUME IInv,
         Receive \/ BodyRead \/ NoAnswer \/ BodyLost \/ Wait
  PROVE  IInv'
  <1> USE DEF IInv, TypeOK, GoTo, Got, Ends
  <1>1. CASE Throttled
    BY <1>1 DEF Throttled, Sent, Begun, OkTookEffect, BodyIsOk, SafeInv, EarlierThrottled,
       NewestDecides, LastTry
  <1>2. CASE Broken
    BY <1>2 DEF Broken, Sent, Begun, OkTookEffect, BodyIsOk, SafeInv, EarlierThrottled,
       NewestDecides
  <1>3. CASE Busy
    BY <1>3 DEF Busy, Sent, Begun, OkTookEffect, BodyIsOk, SafeInv, EarlierThrottled,
       NewestDecides, LastTry
  <1>4. CASE Refused
    BY <1>4 DEF Refused, Sent, Begun, OkTookEffect, BodyIsOk, SafeInv, EarlierThrottled,
       NewestDecides
  <1>5. CASE Accepted
    BY <1>5 DEF Accepted, Sent, Begun, OkTookEffect, BodyIsOk, SafeInv, EarlierThrottled,
       NewestDecides
  <1>6. CASE BodyRead
    BY <1>6 DEF BodyRead, Sent, Begun, OkTookEffect, BodyIsOk, SafeInv, EarlierThrottled,
       NewestDecides
  <1>7. CASE NoAnswer
    BY <1>7 DEF NoAnswer, Caught, Sent, Begun, OkTookEffect, BodyIsOk, SafeInv,
       EarlierThrottled, NewestDecides, LastTry
  <1>8. CASE BodyLost
    BY <1>8 DEF BodyLost, Caught, Sent, Begun, OkTookEffect, BodyIsOk, SafeInv,
       EarlierThrottled, NewestDecides, LastTry
  <1>9. CASE Wait
    BY <1>9 DEF Wait, Sent, Begun, OkTookEffect, BodyIsOk, SafeInv, EarlierThrottled,
       NewestDecides
  <1>10. QED
    BY <1>1, <1>2, <1>3, <1>4, <1>5, <1>6, <1>7, <1>8, <1>9 DEF Receive

LEMMA StepIInv == IInv /\ [Next]_vars => IInv'
  <1> SUFFICES ASSUME IInv, [Next]_vars
               PROVE  IInv'
    OBVIOUS
  <1>1. CASE Send
    BY <1>1, SendIInv
  <1>2. CASE Receive \/ BodyRead \/ NoAnswer \/ BodyLost \/ Wait
    BY <1>2, MoveIInv
  <1>3. CASE \E n \in Tries : Apply(n) \/ Ignore(n)
    BY <1>3, AnswerIInv
  <1>4. CASE UNCHANGED vars
    BY <1>4 DEF vars, IInv, TypeOK, Sent, Begun, OkTookEffect, BodyIsOk, SafeInv,
       EarlierThrottled, NewestDecides
  <1>5. QED
    BY <1>1, <1>2, <1>3, <1>4 DEF Next, Client

LEMMA IInvHolds == Spec => []IInv
  BY InitIInv, StepIInv, PTL DEF Spec

-----------------------------------------------------------------------------
(* The variables of the client keep their types, for every MaxRetries.     *)
THEOREM TypeCorrect == Spec => []TypeOK
  <1>1. IInv => TypeOK
    BY DEF IInv
  <1>2. QED
    BY <1>1, IInvHolds, PTL

(* A write sent with the safe policy takes effect once at most, however    *)
(* many retries are allowed and however late its effect is.                *)
THEOREM AtMostOnce == Spec => []AppliedAtMostOnce
  <1>1. IInv => AppliedAtMostOnce
    BY DEF IInv, SafeInv, NewestDecides, AppliedAtMostOnce
  <1>2. QED
    BY <1>1, IInvHolds, PTL

(* What the caller is told is true, and a refusal stays true.              *)
THEOREM TrueOutcome == Spec => []OutcomeIsTrue
  <1>1. IInv => OutcomeIsTrue
    <2> SUFFICES ASSUME IInv
                 PROVE  OutcomeIsTrue
      OBVIOUS
    <2>1. at \in {"body", "ok"} => times > 0
      BY DEF IInv, BodyIsOk, OkTookEffect
    <2>2. ASSUME SafeOnly, at \in {"refused", "rateLimited"}
          PROVE  times = 0 /\ \A n \in Tries : reply[n] # "underWay"
      BY <2>2 DEF IInv, TypeOK, Tries, Sent, Begun, SafeInv, EarlierThrottled, NewestDecides,
         Effective
    <2>3. QED
      BY <2>1, <2>2 DEF OutcomeIsTrue
  <1>2. QED
    BY <1>1, IInvHolds, PTL

-----------------------------------------------------------------------------
(* A step of the safe client is a step of the one-shot request, or none.   *)
LEMMA StepOneShot ==
  ASSUME SafeOnly, IInv, IInv', [Next]_vars
  PROVE  [OneShot!Next]_OneShot!vars
  <1> USE DEF OneShot!Next, OneShot!vars, OneShot!TakeEffect, OneShot!Succeed,
              OneShot!Refuse, OneShot!NotKnown, Told
  <1>1. CASE \E n \in Tries : Apply(n)
    <2>1. PICK n \in Tries : Apply(n)
      BY <1>1
    <2>2. n = attempt /\ times = 0 /\ times' = 1 /\ at' = at
      BY <2>1 DEF Apply, Answer, IInv, TypeOK, Tries, Sent, SafeInv, EarlierThrottled,
         NewestDecides
    <2>3. at \notin {"ok", "refused", "rateLimited", "error", "failed"}
      BY <2>1, <2>2 DEF Apply, Answer, IInv, BodyIsOk, SafeInv, NewestDecides
    <2>4. QED
      BY <2>2, <2>3
  <1>2. CASE \E n \in Tries : Ignore(n)
    BY <1>2 DEF Ignore, Answer
  <1>3. CASE Send \/ Wait
    BY <1>3 DEF Send, Wait, GoTo
  <1>4. CASE Throttled \/ Refused
    <2>1. at = "await" /\ UNCHANGED times
      BY <1>4 DEF Throttled, Refused, Got, GoTo
    <2>2. at' \in {"backoff", "rateLimited", "refused"} /\ reply[attempt] \notin Effective
      BY <1>4 DEF Throttled, Refused, Got, GoTo, Effective
    <2>3. times = 0
      BY <2>2 DEF IInv, TypeOK, SafeInv, NewestDecides
    <2>4. QED
      BY <2>1, <2>2, <2>3
  <1>5. CASE Broken \/ Busy \/ NoAnswer \/ BodyLost
    BY <1>5 DEF Broken, Busy, NoAnswer, BodyLost, Caught, Got, GoTo
  <1>6. CASE Accepted
    BY <1>6 DEF Accepted, Got, GoTo
  <1>7. CASE BodyRead
    <2>1. times = 1
      BY <1>7 DEF BodyRead, IInv, TypeOK, BodyIsOk, OkTookEffect, SafeInv, NewestDecides
    <2>2. QED
      BY <1>7, <2>1 DEF BodyRead, GoTo
  <1>8. CASE UNCHANGED vars
    BY <1>8 DEF vars
  <1>9. QED
    BY <1>1, <1>2, <1>3, <1>4, <1>5, <1>6, <1>7, <1>8 DEF Next, Client, Receive

(* A request sent with the safe policy is the one-shot request that the    *)
(* refund and shipment pushes rely on.                                     *)
THEOREM ImplementsOneShot == SafeOnly /\ Spec => OneShotSpec
  <1>1. Init => OneShot!Init
    BY DEF Init, OneShot!Init, Told
  <1>2. SafeOnly /\ IInv /\ IInv' /\ [Next]_vars => [OneShot!Next]_OneShot!vars
    BY StepOneShot
  <1>3. CASE SafeOnly
    <2>1. IInv /\ IInv' /\ [Next]_vars => [OneShot!Next]_OneShot!vars
      BY <1>2, <1>3
    <2>2. QED
      BY <1>1, <2>1, IInvHolds, PTL DEF Spec, OneShotSpec, OneShot!Spec
  <1>4. QED
    BY <1>3
=============================================================================
