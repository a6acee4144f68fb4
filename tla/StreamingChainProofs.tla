------------------------- MODULE StreamingChainProofs -------------------------
(***************************************************************************)
(* Theorems about StreamingChain, for every chain of layers and any number *)
(* of invocations.                                                         *)
(*                                                                         *)
(* OutputsExact speaks of the end of the chain only, and the counters say  *)
(* nothing of the inputs.  The invariant says where every layer is: there  *)
(* are counts h of what each layer has handed on since the reset, such     *)
(* that layer i has taken every[i] * h[i] values and the ones it has       *)
(* counted down for the next, and its window holds the last of the layer   *)
(* before it (InStep).  It holds in the middle of an invocation too, where *)
(* the layer about to run is one value behind.                             *)
(*                                                                         *)
(* A failure loses a value, and the counts disagree from then on.  What    *)
(* remains is a bound on the time since the last output or failure, in     *)
(* terms of the counters only (InTime): the layers wait for each other no  *)
(* longer than the product of their periods.                               *)
(***************************************************************************)
EXTENDS StreamingChain, WellFoundedInduction, TLAPS

\* Induction over the natural numbers, for a property given as the set of them that have it.
LEMMA Induction ==
  ASSUME NEW P, 0 \in P, \A n \in Nat : n \in P => n + 1 \in P
  PROVE  \A n \in Nat : n \in P
<1> DEFINE S == {n \in Nat : n \notin P}
           R == OpToRel(<, Nat)
<1> SUFFICES ASSUME S # {} PROVE FALSE
  OBVIOUS
<1> HIDE DEF R
<1>1. PICK m \in S : \A y \in S : ~(<<y, m>> \in R)
  <2>1. S \in SUBSET Nat
    OBVIOUS
  <2> HIDE DEF S
  <2>2. QED
    BY <2>1, NatLessThanWellFounded, WFMin DEF R
<1>2. m \in Nat /\ m # 0
  BY <1>1
<1>3. m - 1 \in Nat /\ <<m - 1, m>> \in R
  BY <1>2 DEF R, OpToRel
<1>4. m - 1 \in P
  BY <1>1, <1>3
<1>5. m - 1 + 1 = m
  BY <1>2
<1>6. QED
  BY <1>1, <1>3, <1>4, <1>5

\* What follows from 0 by steps from i - 1 to i, as Periods and Field do.
IsChained(f, first, next, n) ==
  f = [i \in 0..n |-> IF i = 0 THEN first ELSE next[i][f[i - 1]]]

\* There is such a function.
LEMMA ChainedExists ==
  ASSUME NEW first, NEW next, NEW n \in Nat
  PROVE  \E f : IsChained(f, first, next, n)
<1> DEFINE P == {m \in Nat : \E f : IsChained(f, first, next, m)}
<1>1. 0 \in P
  <2> DEFINE f == [i \in 0..0 |-> first]
  <2>1. IsChained(f, first, next, 0)
    BY DEF IsChained
  <2>2. QED
    BY <2>1
<1>2. ASSUME NEW m \in Nat, m \in P
      PROVE  m + 1 \in P
  <2>1. PICK f : IsChained(f, first, next, m)
    BY <1>2
  <2>2. f = [i \in 0..m |-> IF i = 0 THEN first ELSE next[i][f[i - 1]]]
    BY <2>1 DEF IsChained
  <2> DEFINE g == [i \in 0..(m + 1) |-> IF i = m + 1 THEN next[m + 1][f[m]] ELSE f[i]]
  <2>3. \A i \in 0..m : g[i] = f[i]
    OBVIOUS
  <2>4. ASSUME NEW i \in 0..(m + 1)
        PROVE  g[i] = IF i = 0 THEN first ELSE next[i][g[i - 1]]
    <3>1. CASE i = m + 1
      <4>1. i # 0 /\ i - 1 = m /\ m \in 0..m
        BY <3>1
      <4>2. g[i] = next[i][f[m]]
        BY <3>1
      <4>3. g[i - 1] = f[m]
        BY <2>3, <4>1
      <4>4. QED
        BY <4>1, <4>2, <4>3
    <3>2. CASE i # m + 1 /\ i # 0
      <4>1. i \in 0..m /\ i - 1 \in 0..m
        BY <3>2
      <4>2. g[i] = f[i] /\ g[i - 1] = f[i - 1]
        BY <2>3, <4>1
      <4>3. f[i] = next[i][f[i - 1]]
        BY <2>2, <3>2, <4>1
      <4>4. QED
        BY <3>2, <4>2, <4>3
    <3>3. CASE i = 0
      BY <2>2, <2>3, <3>3
    <3>4. QED
      BY <3>1, <3>2, <3>3
  <2>5. g = [i \in 0..(m + 1) |-> g[i]]
    OBVIOUS
  <2> HIDE DEF g
  <2>6. IsChained(g, first, next, m + 1)
    BY <2>4, <2>5 DEF IsChained
  <2>7. QED
    BY <2>6
<1> HIDE DEF P
<1>3. \A m \in Nat : m \in P
  BY <1>1, <1>2, Induction
<1>4. QED
  BY <1>3 DEF P

\* Its values stay among those of V.
LEMMA ChainedIn ==
  ASSUME NEW V, NEW n \in Nat, NEW first \in V, NEW next \in [1..n -> [V -> V]],
         NEW f, IsChained(f, first, next, n)
  PROVE  \A i \in 0..n : f[i] \in V
<1> DEFINE P == {m \in Nat : m <= n => f[m] \in V}
<1>1. \A i \in 0..n : f[i] = IF i = 0 THEN first ELSE next[i][f[i - 1]]
  BY DEF IsChained
<1>2. 0 \in P
  BY <1>1
<1>3. ASSUME NEW m \in Nat, m \in P
      PROVE  m + 1 \in P
  <2> SUFFICES ASSUME m + 1 <= n PROVE f[m + 1] \in V
    OBVIOUS
  <2>1. m + 1 \in 0..n /\ m + 1 \in 1..n /\ m + 1 # 0 /\ m + 1 - 1 = m /\ f[m] \in V
    BY <1>3
  <2>2. f[m + 1] = next[m + 1][f[m]]
    BY <1>1, <2>1
  <2>3. QED
    BY <2>1, <2>2
<1> HIDE DEF P
<1>4. \A m \in Nat : m \in P
  BY <1>2, <1>3, Induction
<1>5. QED
  BY <1>4 DEF P

-----------------------------------------------------------------------------
\* What Prepare leaves of the model: the numbers the definitions below take from it, layer by
\* layer, and the outputs that fields predict.
Numbered == \A i \in Layers : Every(i) \in Nat \ {0} /\ model[i].slots \in Nat \ {0}

\* A chain of n layers, of which layer i hands on every[i]-th of its values and keeps slots[i].
Chain == [layers |-> Len(model), every |-> [i \in Layers |-> Every(i)],
          slots |-> [i \in Layers |-> model[i].slots], period |-> Periods, field |-> Field]

\* The invocations behind t whose values the window of layer i holds, counted in periods.
Behind(c, i, t) == {k \in 0..(c.slots[i] - 1) : t > k * c.period[i - 1]}

IsChain(c) ==
  /\ c.layers \in Nat
  /\ \A i \in 1..c.layers : c.every[i] \in Nat \ {0} /\ c.slots[i] \in Nat \ {0}
  /\ \A i \in 0..c.layers : c.period[i] \in Nat \ {0}
  /\ c.period[0] = 1
  /\ \A i \in 1..c.layers : c.period[i] = c.period[i - 1] * c.every[i]
  /\ \A t \in 1..MaxTime : c.field[0][t] = {t}
  /\ \A i \in 1..c.layers, t \in 1..MaxTime :
       c.field[i][t] = UNION {c.field[i - 1][t - k * c.period[i - 1]] : k \in Behind(c, i, t)}

\* The periods are the products of what Every says.
LEMMA PeriodsAre ==
  ASSUME model \in Seq(Layer), Numbered
  PROVE  /\ \A i \in 0..Len(model) : Periods[i] \in Nat \ {0}
         /\ Periods[0] = 1
         /\ \A i \in 1..Len(model) : Periods[i] = Periods[i - 1] * Every(i)
<1> DEFINE n == Len(model)
           V == Nat \ {0}
           next == [i \in 1..n |-> [x \in V |-> x * Every(i)]]
           IsProduct(p) == p = [i \in 0..n |-> IF i = 0 THEN 1 ELSE p[i - 1] * Every(i)]
<1>1. n \in Nat /\ Layers = 1..n /\ 1 \in V
  BY DEF Layers
<1>2. \A i \in 1..n : Every(i) \in V
  BY <1>1 DEF Numbered
<1>3. \A x \in V, y \in V : x * y \in V
  OBVIOUS
<1>4. next \in [1..n -> [V -> V]]
  BY <1>2, <1>3
<1>5. PICK f : IsChained(f, 1, next, n)
  <2> HIDE DEF n, V, next
  <2>1. QED
    BY <1>1, ChainedExists
<1>6. \A i \in 0..n : f[i] \in V
  <2> HIDE DEF n, V, next
  <2>1. QED
    BY <1>1, <1>4, <1>5, ChainedIn
<1>7. IsProduct(f)
  <2>1. f = [i \in 0..n |-> IF i = 0 THEN 1 ELSE next[i][f[i - 1]]]
    BY <1>5 DEF IsChained
  <2>2. ASSUME NEW i \in 0..n, i # 0
        PROVE  next[i][f[i - 1]] = f[i - 1] * Every(i)
    <3>1. i \in 1..n /\ i - 1 \in 0..n
      BY <2>2, <1>1
    <3>2. QED
      BY <1>6, <3>1
  <2> HIDE DEF next
  <2>3. QED
    BY <2>1, <2>2
<1>8. IsProduct(Periods)
  <2>1. Periods = CHOOSE p : IsProduct(p)
    BY Zenon DEF Periods
  <2> HIDE DEF IsProduct
  <2>2. QED
    BY <1>7, <2>1
<1>9. \A i \in 0..n : Periods[i] = IF i = 0 THEN 1 ELSE Periods[i - 1] * Every(i)
  BY <1>8
<1>10. \A i \in 0..n : f[i] = IF i = 0 THEN 1 ELSE f[i - 1] * Every(i)
  BY <1>7
<1> HIDE DEF IsProduct, next
<1>11. \A i \in 0..n : Periods[i] \in V
  <2> DEFINE P == {m \in Nat : m <= n => Periods[m] \in V}
  <2>1. 0 \in P
    BY <1>1, <1>9
  <2>2. ASSUME NEW m \in Nat, m \in P
        PROVE  m + 1 \in P
    <3> SUFFICES ASSUME m + 1 <= n PROVE Periods[m + 1] \in V
      OBVIOUS
    <3>1. m + 1 \in 0..n /\ m + 1 \in 1..n /\ m + 1 # 0 /\ m + 1 - 1 = m /\ Periods[m] \in V
      BY <1>1, <2>2
    <3>2. Periods[m + 1] = Periods[m] * Every(m + 1)
      BY <1>9, <3>1
    <3>3. QED
      BY <1>2, <1>3, <3>1, <3>2
  <2> HIDE DEF P
  <2>3. \A m \in Nat : m \in P
    BY <2>1, <2>2, Induction
  <2>4. QED
    BY <1>1, <2>3 DEF P
<1>12. QED
  BY <1>1, <1>9, <1>11

\* What layer i hands on at t, given what the layer before it hands on.
FieldNext(i, x, t) ==
  UNION {x[t - k * Period(i - 1)] : k \in {k \in 0..(model[i].slots - 1) : t > k * Period(i - 1)}}

\* The fields are what their recursive definition says.
LEMMA FieldsAre ==
  ASSUME model \in Seq(Layer), Numbered, MaxTime \in Nat
  PROVE  /\ \A t \in 1..MaxTime : Field[0][t] = {t}
         /\ \A i \in 1..Len(model), t \in 1..MaxTime : Field[i][t] = FieldNext(i, Field[i - 1], t)
<1> DEFINE n == Len(model)
           M == 1..MaxTime
           V == [M -> SUBSET Nat]
           first == [t \in M |-> {t}]
           next == [i \in 1..n |-> [x \in V |-> [t \in M |-> FieldNext(i, x, t)]]]
           IsField(f) == f = [i \in 0..n |-> [t \in M |->
                           IF i = 0 THEN {t} ELSE FieldNext(i, f[i - 1], t)]]
<1>1. n \in Nat /\ Layers = 1..n
  BY DEF Layers
<1>2. ASSUME NEW i \in 1..n, NEW x \in V, NEW t \in M
      PROVE  FieldNext(i, x, t) \in SUBSET Nat
  <2> DEFINE q == Period(i - 1)
  <2>1. q \in Nat \ {0}
    <3>1. i - 1 \in 0..n
      BY <1>1
    <3>2. QED
      BY <3>1, PeriodsAre DEF Period
  <2>2. ASSUME NEW k \in 0..(model[i].slots - 1), t > k * q
        PROVE  x[t - k * q] \in SUBSET Nat
    <3>1. k * q \in Nat
      BY <2>1
    <3>2. t - k * q \in M
      BY <2>2, <3>1
    <3>3. QED
      BY <3>2
  <2> HIDE DEF q, M, V
  <2>3. FieldNext(i, x, t) = UNION {x[t - k * q] : k \in {k \in 0..(model[i].slots - 1) : t > k * q}}
    BY DEF FieldNext, q
  <2>4. QED
    BY <2>2, <2>3
<1>3. first \in V
  OBVIOUS
<1>4. next \in [1..n -> [V -> V]]
  <2> HIDE DEF M
  <2>1. \A i \in 1..n, x \in V : [t \in M |-> FieldNext(i, x, t)] \in V
    BY <1>2
  <2> HIDE DEF V
  <2>2. QED
    BY <2>1
<1>5. PICK f : IsChained(f, first, next, n)
  <2> HIDE DEF n, first, next
  <2>1. QED
    BY <1>1, ChainedExists
<1>6. \A i \in 0..n : f[i] \in V
  <2> HIDE DEF n, V, first, next
  <2>1. QED
    BY <1>1, <1>3, <1>4, <1>5, ChainedIn
<1>7. IsField(f)
  <2>1. f = [i \in 0..n |-> IF i = 0 THEN first ELSE next[i][f[i - 1]]]
    BY <1>5 DEF IsChained
  <2>2. ASSUME NEW i \in 0..n
        PROVE  (IF i = 0 THEN first ELSE next[i][f[i - 1]])
                 = [t \in M |-> IF i = 0 THEN {t} ELSE FieldNext(i, f[i - 1], t)]
    <3>1. CASE i = 0
      BY <3>1
    <3>2. CASE i # 0
      <4>1. i \in 1..n /\ i - 1 \in 0..n
        BY <3>2, <1>1
      <4>2. next[i][f[i - 1]] = [t \in M |-> FieldNext(i, f[i - 1], t)]
        BY <1>6, <4>1
      <4> HIDE DEF M, next
      <4>3. QED
        BY <3>2, <4>2
    <3>3. QED
      BY <3>1, <3>2
  <2> HIDE DEF next, first, M
  <2>3. QED
    BY <2>1, <2>2
<1>8. IsField(Field)
  <2>1. Field = CHOOSE p : IsField(p)
    BY Zenon DEF Field, FieldNext
  <2> HIDE DEF IsField
  <2>2. QED
    BY <1>7, <2>1
<1>9. \A i \in 0..n : Field[i] = [t \in M |-> IF i = 0 THEN {t} ELSE FieldNext(i, Field[i - 1], t)]
  <2> HIDE DEF M
  <2>1. QED
    BY <1>8
<1>10. 0 \in 0..n /\ \A i \in 1..n : i \in 0..n /\ i # 0
  BY <1>1
<1>11. QED
  <2> HIDE DEF IsField, next, first, V
  <2>1. QED
    BY <1>9, <1>10

\* The chain of a prepared model is one.
LEMMA ChainIs ==
  ASSUME model \in Seq(Layer), Numbered, MaxTime \in Nat
  PROVE  IsChain(Chain)
<1> DEFINE c == Chain
           n == Len(model)
<1>1. n \in Nat /\ Layers = 1..n
  BY DEF Layers
<1>2. /\ c.layers = n /\ c.period = Periods /\ c.field = Field
      /\ \A i \in 1..n : c.every[i] = Every(i) /\ c.slots[i] = model[i].slots
  BY <1>1 DEF Chain
<1>3. \A i \in 1..n, t \in 1..MaxTime :
        FieldNext(i, Field[i - 1], t)
          = UNION {c.field[i - 1][t - k * c.period[i - 1]] : k \in Behind(c, i, t)}
  BY <1>2 DEF FieldNext, Behind, Period
<1> HIDE DEF c
<1>4. \A i \in 1..n : c.every[i] \in Nat \ {0} /\ c.slots[i] \in Nat \ {0}
  BY <1>1, <1>2 DEF Numbered
<1>5. /\ \A i \in 0..n : c.period[i] \in Nat \ {0}
      /\ c.period[0] = 1
      /\ \A i \in 1..n : c.period[i] = c.period[i - 1] * c.every[i]
  BY <1>1, <1>2, PeriodsAre
<1>6. /\ \A t \in 1..MaxTime : c.field[0][t] = {t}
      /\ \A i \in 1..n, t \in 1..MaxTime : c.field[i][t] = FieldNext(i, Field[i - 1], t)
  BY <1>2, FieldsAre
<1>7. IsChain(c)
  <2>1. \A i \in 1..n, t \in 1..MaxTime : c.field[i][t]
          = UNION {c.field[i - 1][t - k * c.period[i - 1]] : k \in Behind(c, i, t)}
    BY <1>3, <1>6
  <2> HIDE DEF n
  <2>2. QED
    BY <1>1, <1>2, <1>4, <1>5, <1>6, <2>1 DEF IsChain
<1>8. QED
  BY <1>7 DEF c

-----------------------------------------------------------------------------
\* The steps of a chain. h[i] counts what layer i has handed on since the reset, the inputs for
\* i = 0; left[i] the values that layer i still keeps to itself before the one that it answers.
\* The layer about to run has not taken yet what the one before has handed on.
Taken(h, lay, i) == h[i - 1] - (IF i = lay THEN 1 ELSE 0)

\* The m-th value that layer i hands on; there is none before the first.
HandedOn(c, i, m) == IF m >= 1 THEN c.field[i][m * c.period[i]] ELSE {}

\* A window whose newest value is the m-th of layer i.
IsWindow(c, i, m, slots, w) ==
  /\ w \in Seq(SUBSET Nat) /\ Len(w) = slots
  /\ \A s \in 1..slots : w[s] = HandedOn(c, i, m - (slots - s))

\* All there is of layer i when it has taken m values.
LayerInStep(c, i, m, h, left, w) ==
  /\ left[i] \in 0..(c.every[i] - 1)
  /\ m = c.every[i] * h[i] + (c.every[i] - 1 - left[i])
  /\ IsWindow(c, i - 1, m, c.slots[i], w[i])

LayersInStep(c, h, left, lay, w) ==
  /\ DOMAIN left = 1..c.layers /\ DOMAIN w = 1..c.layers
  /\ \A i \in 1..c.layers : LayerInStep(c, i, Taken(h, lay, i), h, left, w)

\* What the invocation carries, and what the last to reach the end delivered.
Carried(c, h, lay, t, v) ==
  lay # 0 => h[lay - 1] * c.period[lay - 1] = t /\ v = c.field[lay - 1][t] /\ t # 0

Arrived(c, h, lay, d) ==
  LET m == Taken(h, lay, c.layers + 1) IN
  d = [at |-> m * c.period[c.layers], from |-> HandedOn(c, c.layers, m)]

InStep(c, h, left, lay, t, w, v, d) ==
  /\ h \in [0..c.layers -> Nat] /\ h[0] = t /\ t \in 0..MaxTime /\ lay \in 0..(c.layers + 1)
  /\ LayersInStep(c, h, left, lay, w)
  /\ Carried(c, h, lay, t, v)
  /\ Arrived(c, h, lay, d)

\* The input of a layer pushes the oldest value out of its window.
LEMMA WindowShifts ==
  ASSUME NEW c, NEW i, NEW m \in Nat, NEW slots \in Nat \ {0}, NEW w, IsWindow(c, i, m, slots, w),
         NEW v \in SUBSET Nat, v = HandedOn(c, i, m + 1)
  PROVE  IsWindow(c, i, m + 1, slots, Shifted(w, v))
<1> DEFINE x == Shifted(w, v)
           q == Tail(w)
<1>1. w \in Seq(SUBSET Nat) /\ Len(w) = slots /\ \A s \in 1..slots : w[s] = HandedOn(c, i, m - (slots - s))
  BY DEF IsWindow
<1>2. w # <<>>
  BY <1>1
<1>3. /\ q \in Seq(SUBSET Nat) /\ Len(q) = slots - 1
      /\ \A s \in 1..(slots - 1) : q[s] = w[s + 1]
  BY <1>1, <1>2
<1> HIDE DEF q
<1>4. /\ x \in Seq(SUBSET Nat) /\ Len(x) = slots
      /\ \A s \in 1..(slots - 1) : x[s] = q[s]
      /\ x[slots] = v
  BY <1>3 DEF Shifted, q
<1> HIDE DEF x
<1>5. ASSUME NEW s \in 1..slots
      PROVE  x[s] = HandedOn(c, i, (m + 1) - (slots - s))
  <2>1. CASE s = slots
    <3>1. (m + 1) - (slots - s) = m + 1
      BY <2>1
    <3>2. QED
      BY <1>4, <2>1, <3>1
  <2>2. CASE s # slots
    <3>1. s \in 1..(slots - 1) /\ s + 1 \in 1..slots
          /\ m - (slots - (s + 1)) = (m + 1) - (slots - s)
      BY <2>2
    <3>2. x[s] = w[s + 1] /\ w[s + 1] = HandedOn(c, i, m - (slots - (s + 1)))
      BY <1>1, <1>3, <1>4, <3>1
    <3>3. QED
      BY <3>1, <3>2
  <2>3. QED
    BY <2>1, <2>2
<1>6. IsWindow(c, i, m + 1, slots, x)
  BY <1>4, <1>5 DEF IsWindow
<1>7. QED
  BY <1>6 DEF x

\* The product of a difference.
LEMMA TimesMinus ==
  ASSUME NEW a \in Nat, NEW b \in Nat, NEW p \in Nat \ {0}
  PROVE  (a - b) * p = a * p - b * p /\ (a > b <=> a * p > b * p) /\ (a >= 1 => a * p >= 1)
OBVIOUS

\* What is computed from the window that layer i holds at t is its field.
LEMMA WindowIsField ==
  ASSUME NEW c, IsChain(c), NEW i \in 1..c.layers, NEW t \in 1..MaxTime, NEW m \in Nat,
         m * c.period[i - 1] = t, NEW w, IsWindow(c, i - 1, m, c.slots[i], w)
  PROVE  UNION {w[s] : s \in DOMAIN w} = c.field[i][t]
<1> DEFINE l == i - 1
           p == c.period[l]
           slots == c.slots[i]
           F == c.field[l]
<1>1. /\ l \in 0..c.layers /\ p \in Nat \ {0} /\ slots \in Nat \ {0} /\ t = m * p
      /\ c.field[i][t] = UNION {F[t - k * p] : k \in Behind(c, i, t)}
  <2>1. c.layers \in Nat /\ i - 1 \in 0..c.layers
    BY DEF IsChain
  <2>2. QED
    BY <2>1 DEF IsChain
<1>2. /\ w \in Seq(SUBSET Nat) /\ DOMAIN w = 1..slots
      /\ \A s \in 1..slots : w[s] = HandedOn(c, l, m - (slots - s))
  BY <1>1 DEF IsWindow
<1>3. \A k \in Nat : k \in Behind(c, i, t) <=> k <= slots - 1 /\ t > k * p
  BY <1>1 DEF Behind
<1>4. \A a \in Int : HandedOn(c, l, a) = IF a >= 1 THEN F[a * p] ELSE {}
  BY DEF HandedOn
<1>5. Behind(c, i, t) \subseteq Nat
  BY <1>1 DEF Behind
<1> HIDE DEF l, p, slots, F
<1>6. ASSUME NEW s \in 1..slots, NEW e \in w[s]
      PROVE  e \in c.field[i][t]
  <2> DEFINE k == slots - s
  <2>1. k \in Nat /\ k <= slots - 1 /\ m - k \in Int
    BY <1>1
  <2>2. w[s] = HandedOn(c, l, m - k)
    BY <1>2
  <2>3. m - k >= 1 /\ w[s] = F[(m - k) * p]
    BY <1>4, <1>6, <2>1, <2>2
  <2> HIDE DEF k
  <2>4. (m - k) * p = t - k * p /\ t > k * p
    <3>1. m > k
      BY <2>1, <2>3
    <3>2. QED
      BY <1>1, <2>1, <3>1, TimesMinus
  <2>5. k \in Behind(c, i, t)
    BY <1>3, <2>1, <2>4
  <2>6. e \in F[t - k * p]
    BY <1>6, <2>3, <2>4
  <2>7. QED
    BY <1>1, <2>5, <2>6
<1>7. ASSUME NEW k \in Behind(c, i, t), NEW e \in F[t - k * p]
      PROVE  \E s \in 1..slots : e \in w[s]
  <2>1. k \in Nat /\ k <= slots - 1 /\ t > k * p
    BY <1>3, <1>5
  <2>2. m > k /\ (m - k) * p = t - k * p
    BY <1>1, <2>1, TimesMinus
  <2> DEFINE s == slots - k
  <2>3. s \in 1..slots /\ slots - s = k /\ m - k >= 1 /\ m - k \in Int
    BY <1>1, <2>1, <2>2
  <2>4. w[s] = HandedOn(c, l, m - k)
    BY <1>2, <2>3
  <2>5. w[s] = F[t - k * p]
    BY <1>4, <2>2, <2>3, <2>4
  <2>6. QED
    BY <1>7, <2>3, <2>5
<1>8. QED
  BY <1>1, <1>2, <1>6, <1>7

SameLayer(i, h, left, w, g, rest, x) == g[i] = h[i] /\ rest[i] = left[i] /\ x[i] = w[i]

\* A layer is in step with what it has taken and handed on, whatever the others do.
LEMMA LayerStays ==
  ASSUME NEW c, NEW i, NEW m, NEW h, NEW left, NEW w, NEW g, NEW rest, NEW x,
         LayerInStep(c, i, m, h, left, w), SameLayer(i, h, left, w, g, rest, x)
  PROVE  LayerInStep(c, i, m, g, rest, x)
BY DEF LayerInStep, SameLayer

\* An invocation begins.
LEMMA InvokeInStep ==
  ASSUME NEW c, IsChain(c), NEW h, NEW left, NEW t \in Nat, t + 1 <= MaxTime, MaxTime \in Nat,
         NEW w, NEW v, NEW d, InStep(c, h, left, 0, t, w, v, d)
  PROVE  InStep(c, [h EXCEPT ![0] = t + 1], left, 1, t + 1, w, {t + 1}, d)
<1> DEFINE n == c.layers
           g == [h EXCEPT ![0] = t + 1]
<1>1. n \in Nat /\ c.period[0] = 1 /\ c.field[0][t + 1] = {t + 1}
  BY DEF IsChain
<1>2. /\ h \in [0..n -> Nat] /\ h[0] = t
      /\ LayersInStep(c, h, left, 0, w) /\ Arrived(c, h, 0, d)
  BY DEF InStep
<1>3. /\ g \in [0..n -> Nat] /\ g[0] = t + 1
      /\ \A i \in 1..n : g[i] = h[i]
  BY <1>1, <1>2
<1>4. ASSUME NEW i \in 1..(n + 1)
      PROVE  Taken(g, 1, i) = Taken(h, 0, i)
  <2>1. i # 0 /\ i - 1 \in 0..n /\ (i # 1 => i - 1 \in 1..n)
    BY <1>1
  <2>2. CASE i = 1
    <3>1. Taken(g, 1, i) = g[0] - 1 /\ Taken(h, 0, i) = h[0] - 0
      BY <2>2 DEF Taken
    <3> HIDE DEF g
    <3>2. QED
      BY <1>2, <1>3, <3>1
  <2>3. CASE i # 1
    <3> HIDE DEF g
    <3>1. QED
      BY <1>3, <2>1, <2>3 DEF Taken
  <2>4. QED
    BY <2>2, <2>3
<1> HIDE DEF g
<1>5. LayersInStep(c, g, left, 1, w)
  <2>1. /\ DOMAIN left = 1..n /\ DOMAIN w = 1..n
        /\ \A i \in 1..n : LayerInStep(c, i, Taken(h, 0, i), h, left, w)
    BY <1>2 DEF LayersInStep
  <2>2. ASSUME NEW i \in 1..n
        PROVE  LayerInStep(c, i, Taken(g, 1, i), g, left, w)
    <3>1. SameLayer(i, h, left, w, g, left, w) /\ i \in 1..(n + 1)
      BY <1>1, <1>3 DEF SameLayer
    <3>2. LayerInStep(c, i, Taken(h, 0, i), g, left, w)
      BY <2>1, <3>1, LayerStays
    <3>3. QED
      BY <1>4, <3>1, <3>2
  <2>3. QED
    BY <2>1, <2>2 DEF LayersInStep
<1>6. Carried(c, g, 1, t + 1, {t + 1})
  <2>1. 1 - 1 = 0 /\ t + 1 # 0 /\ (t + 1) * 1 = t + 1
    OBVIOUS
  <2>2. QED
    BY <1>1, <1>3, <2>1 DEF Carried
<1>7. Arrived(c, g, 1, d)
  <2>1. n + 1 \in 1..(n + 1)
    BY <1>1
  <2>2. Taken(g, 1, n + 1) = Taken(h, 0, n + 1)
    BY <1>4, <2>1
  <2>3. QED
    BY <1>2, <2>2 DEF Arrived
<1>8. t + 1 \in 0..MaxTime /\ 1 \in 0..(n + 1)
  BY <1>1
<1>9. QED
  BY <1>3, <1>5, <1>6, <1>7, <1>8 DEF InStep, g

\* Between invocations every layer has taken all that the one before has handed on.
LEMMA TakenAll ==
  ASSUME NEW n \in Nat, NEW h \in [0..n -> Nat], NEW i \in 1..(n + 1)
  PROVE  Taken(h, 0, i) = h[i - 1]
<1>1. i # 0 /\ i - 1 \in 0..n
  OBVIOUS
<1>2. QED
  BY <1>1 DEF Taken

\* What the layer about to run is given is the next value of the layer before.
LEMMA LayerIsGiven ==
  ASSUME NEW c, IsChain(c), NEW h, NEW left, NEW j \in 1..(c.layers + 1), NEW t, NEW w, NEW v, NEW d,
         InStep(c, h, left, j, t, w, v, d)
  PROVE  /\ Taken(h, j, j) \in Nat /\ Taken(h, j, j) + 1 = h[j - 1]
         /\ h[j - 1] * c.period[j - 1] = t /\ t \in Nat \ {0}
         /\ v = HandedOn(c, j - 1, h[j - 1])
<1>1. c.layers \in Nat /\ j # 0 /\ j - 1 \in 0..c.layers
  BY DEF IsChain
<1>2. c.period[j - 1] \in Nat \ {0} /\ h[j - 1] \in Nat
  BY <1>1 DEF IsChain, InStep
<1>3. h[j - 1] * c.period[j - 1] = t /\ v = c.field[j - 1][t] /\ t # 0
  BY <1>1 DEF InStep, Carried
<1>4. h[j - 1] >= 1 /\ t \in Nat
  BY <1>2, <1>3
<1>5. Taken(h, j, j) = h[j - 1] - 1
  BY DEF Taken
<1>6. v = HandedOn(c, j - 1, h[j - 1])
  BY <1>3, <1>4 DEF HandedOn
<1>7. QED
  BY <1>2, <1>3, <1>4, <1>5, <1>6

\* Layer j takes the value v, its m-th but one, and is due or not.
Given(c, j, m, h, left, w, v) ==
  /\ LayerInStep(c, j, m, h, left, w) /\ j \in 1..c.layers /\ h[j] \in Nat /\ m \in Nat
  /\ v = HandedOn(c, j - 1, m + 1)

HandsOn(c, j, h, left, w, v, g, rest, x) ==
  left[j] = 0 /\ g[j] = h[j] + 1 /\ rest[j] = c.every[j] - 1 /\ x[j] = Shifted(w[j], v)

Keeps(j, h, left, w, v, g, rest, x) ==
  left[j] # 0 /\ g[j] = h[j] /\ rest[j] = left[j] - 1 /\ x[j] = Shifted(w[j], v)

\* Layer j has just handed on, in answer to its m-th value.
HasAnswered(c, j, m, h) == m = c.every[j] * h[j]

\* A layer that is due takes a value and hands on one.
LEMMA LayerHandsOn ==
  ASSUME NEW c, IsChain(c), NEW j, NEW m, NEW h, NEW left, NEW w, NEW v \in SUBSET Nat,
         Given(c, j, m, h, left, w, v),
         NEW g, NEW rest, NEW x, HandsOn(c, j, h, left, w, v, g, rest, x)
  PROVE  LayerInStep(c, j, m + 1, g, rest, x) /\ HasAnswered(c, j, m + 1, g)
<1> DEFINE e == c.every[j]
<1>0. /\ LayerInStep(c, j, m, h, left, w) /\ j \in 1..c.layers /\ h[j] \in Nat /\ m \in Nat
      /\ v = HandedOn(c, j - 1, m + 1)
      /\ left[j] = 0 /\ g[j] = h[j] + 1 /\ rest[j] = c.every[j] - 1 /\ x[j] = Shifted(w[j], v)
  BY DEF Given, HandsOn
<1>1. e \in Nat \ {0} /\ c.slots[j] \in Nat \ {0}
  BY <1>0 DEF IsChain
<1>2. m = e * h[j] + (e - 1 - left[j]) /\ IsWindow(c, j - 1, m, c.slots[j], w[j])
  BY <1>0 DEF LayerInStep
<1>3. IsWindow(c, j - 1, m + 1, c.slots[j], x[j])
  <2>1. IsWindow(c, j - 1, m + 1, c.slots[j], Shifted(w[j], v))
    BY ZenonT(30), <1>0, <1>1, <1>2, WindowShifts
  <2>2. QED
    BY <1>0, <2>1
<1>4. h[j] \in Nat /\ m \in Nat /\ left[j] = 0 /\ g[j] = h[j] + 1 /\ rest[j] = e - 1
  BY <1>0
<1> HIDE DEF e
<1>5. rest[j] \in 0..(e - 1) /\ m + 1 = e * g[j] /\ m + 1 = e * g[j] + (e - 1 - rest[j])
  <2>1. e * h[j] \in Nat /\ e * (h[j] + 1) = e * h[j] + e
    BY <1>1, <1>4
  <2>2. m + 1 = e * g[j] /\ e - 1 - rest[j] = 0
    BY <1>1, <1>2, <1>4, <2>1
  <2>3. QED
    BY <1>1, <1>4, <2>1, <2>2
<1>6. QED
  BY <1>3, <1>5 DEF LayerInStep, HasAnswered, e

\* A layer that is not due only takes a value.
LEMMA LayerKeeps ==
  ASSUME NEW c, IsChain(c), NEW j, NEW m, NEW h, NEW left, NEW w, NEW v \in SUBSET Nat,
         Given(c, j, m, h, left, w, v),
         NEW g, NEW rest, NEW x, Keeps(j, h, left, w, v, g, rest, x)
  PROVE  LayerInStep(c, j, m + 1, g, rest, x)
<1> DEFINE e == c.every[j]
<1>0. /\ LayerInStep(c, j, m, h, left, w) /\ j \in 1..c.layers /\ h[j] \in Nat /\ m \in Nat
      /\ v = HandedOn(c, j - 1, m + 1)
      /\ left[j] # 0 /\ g[j] = h[j] /\ rest[j] = left[j] - 1 /\ x[j] = Shifted(w[j], v)
  BY DEF Given, Keeps
<1>1. e \in Nat \ {0} /\ c.slots[j] \in Nat \ {0}
  BY <1>0 DEF IsChain
<1>2. /\ left[j] \in 0..(e - 1) /\ m = e * h[j] + (e - 1 - left[j])
      /\ IsWindow(c, j - 1, m, c.slots[j], w[j])
  BY <1>0 DEF LayerInStep
<1>3. IsWindow(c, j - 1, m + 1, c.slots[j], x[j])
  <2>1. IsWindow(c, j - 1, m + 1, c.slots[j], Shifted(w[j], v))
    BY ZenonT(30), <1>0, <1>1, <1>2, WindowShifts
  <2>2. QED
    BY <1>0, <2>1
<1>4. h[j] \in Nat /\ m \in Nat /\ left[j] # 0 /\ g[j] = h[j] /\ rest[j] = left[j] - 1
  BY <1>0
<1> HIDE DEF e
<1>5. rest[j] \in 0..(e - 1) /\ m + 1 = e * g[j] + (e - 1 - rest[j])
  <2>1. e * h[j] \in Nat
    BY <1>1, <1>4
  <2>2. QED
    BY <1>1, <1>2, <1>4, <2>1
<1>6. QED
  BY <1>3, <1>5 DEF LayerInStep, e

\* What is computed from the values of a window.
Combined(w) == UNION {w[s] : s \in DOMAIN w}

\* The layer about to run hands on a value, and the next one is about to run.
LEMMA HandOnInStep ==
  ASSUME NEW c, IsChain(c), NEW h, NEW left, NEW j \in 1..c.layers, NEW t, NEW w, NEW v \in SUBSET Nat,
         NEW d, InStep(c, h, left, j, t, w, v, d), left[j] = 0,
         NEW x, x = [w EXCEPT ![j] = Shifted(w[j], v)]
  PROVE  InStep(c, [h EXCEPT ![j] = h[j] + 1], [left EXCEPT ![j] = c.every[j] - 1], j + 1, t, x,
                Combined(x[j]), d)
<1> DEFINE n == c.layers
           g == [h EXCEPT ![j] = h[j] + 1]
           rest == [left EXCEPT ![j] = c.every[j] - 1]
           m == Taken(h, j, j)
           u == Combined(x[j])
<1>1. /\ n \in Nat /\ j \in 1..(n + 1) /\ j \in 0..n /\ j - 1 \in 0..n
      /\ c.period[j] = c.period[j - 1] * c.every[j]
      /\ c.period[j - 1] \in Nat \ {0} /\ c.every[j] \in Nat \ {0}
  <2>1. n \in Nat
    BY DEF IsChain
  <2>2. j \in 1..(n + 1) /\ j \in 0..n /\ j - 1 \in 0..n
    BY <2>1
  <2>3. QED
    BY <2>1, <2>2 DEF IsChain
<1>2. /\ h \in [0..n -> Nat] /\ h[0] = t /\ t \in 0..MaxTime
      /\ LayersInStep(c, h, left, j, w) /\ Arrived(c, h, j, d)
  BY DEF InStep
<1>3. /\ DOMAIN left = 1..n /\ DOMAIN w = 1..n
      /\ \A i \in 1..n : LayerInStep(c, i, Taken(h, j, i), h, left, w)
  BY <1>2 DEF LayersInStep
<1>4. /\ m \in Nat /\ m + 1 = h[j - 1] /\ h[j - 1] * c.period[j - 1] = t /\ t \in Nat \ {0}
      /\ v = HandedOn(c, j - 1, m + 1)
  BY <1>1, LayerIsGiven
<1>5. /\ g \in [0..n -> Nat] /\ g[j] = h[j] + 1
      /\ \A i \in 0..n : i # j => g[i] = h[i]
  BY <1>1, <1>2
<1>6. /\ DOMAIN rest = 1..n /\ rest[j] = c.every[j] - 1
      /\ \A i \in 1..n : i # j => rest[i] = left[i]
  BY <1>3
<1>7. /\ DOMAIN x = 1..n /\ x[j] = Shifted(w[j], v)
      /\ \A i \in 1..n : i # j => x[i] = w[i]
  BY <1>3
<1> HIDE DEF g, rest, n
<1>8. LayerInStep(c, j, m + 1, g, rest, x) /\ HasAnswered(c, j, m + 1, g)
  <2>1. LayerInStep(c, j, m, h, left, w) /\ h[j] \in Nat /\ j \in 1..c.layers
    BY <1>1, <1>2, <1>3 DEF n
  <2> HIDE DEF m
  <2>2. Given(c, j, m, h, left, w, v)
    BY <1>4, <2>1 DEF Given
  <2>3. HandsOn(c, j, h, left, w, v, g, rest, x)
    BY <1>5, <1>6, <1>7 DEF HandsOn
  <2>4. QED
    BY <2>2, <2>3, LayerHandsOn
<1> HIDE DEF m
<1>9. ASSUME NEW i \in 1..(n + 1), i # j
      PROVE  Taken(g, j + 1, i) = Taken(h, j, i)
  <2>1. i - 1 \in 0..n /\ (i # j + 1 => i - 1 # j) /\ (i = j + 1 => i - 1 = j)
    BY <1>1, <1>9
  <2>2. CASE i = j + 1
    <3>1. Taken(g, j + 1, i) = g[j] - 1 /\ Taken(h, j, i) = h[j] - 0
      BY <1>9, <2>1, <2>2 DEF Taken
    <3>2. QED
      BY <1>1, <1>2, <1>5, <3>1
  <2>3. CASE i # j + 1
    BY <1>5, <1>9, <2>1, <2>3 DEF Taken
  <2>4. QED
    BY <2>2, <2>3
<1>10. Taken(g, j + 1, j) = m + 1
  <2>1. j # j + 1 /\ j - 1 # j
    BY <1>1
  <2>2. Taken(g, j + 1, j) = h[j - 1] - 0
    BY <1>1, <1>5, <2>1 DEF Taken
  <2>3. QED
    BY <1>1, <1>2, <1>4, <2>2
<1>11. LayersInStep(c, g, rest, j + 1, x)
  <2>1. ASSUME NEW i \in 1..n
        PROVE  LayerInStep(c, i, Taken(g, j + 1, i), g, rest, x)
    <3>1. CASE i = j
      BY <1>8, <1>10, <3>1
    <3>2. CASE i # j
      <4>1. SameLayer(i, h, left, w, g, rest, x) /\ i \in 1..(n + 1)
        BY <1>1, <1>5, <1>6, <1>7, <3>2 DEF SameLayer
      <4>2. LayerInStep(c, i, Taken(h, j, i), g, rest, x)
        BY <1>3, <4>1, LayerStays
      <4>3. QED
        BY <1>9, <3>2, <4>1, <4>2
    <3>3. QED
      BY <3>1, <3>2
  <2>2. QED
    BY <1>6, <1>7, <2>1 DEF LayersInStep, n
<1>12. g[j] * c.period[j] = t
  <2> DEFINE a == g[j]
             e == c.every[j]
             p == c.period[j - 1]
  <2>1. a \in Nat /\ e \in Nat /\ p \in Nat /\ (e * a) * p = t /\ c.period[j] = p * e
    BY <1>1, <1>4, <1>5, <1>8 DEF HasAnswered
  <2> HIDE DEF a, e, p
  <2>2. a * (p * e) = (e * a) * p
    BY <2>1
  <2>3. QED
    BY <2>1, <2>2 DEF a
<1>13. u = c.field[j][t]
  <2>1. IsWindow(c, j - 1, m + 1, c.slots[j], x[j])
    BY <1>8 DEF LayerInStep
  <2>2. (m + 1) * c.period[j - 1] = t /\ m + 1 \in Nat /\ t \in 1..MaxTime
    BY <1>2, <1>4
  <2>3. QED
    BY <2>1, <2>2, WindowIsField DEF Combined
<1>14. Carried(c, g, j + 1, t, u)
  <2>1. (j + 1) - 1 = j
    BY <1>1
  <2>2. QED
    BY <1>4, <1>12, <1>13, <2>1 DEF Carried
<1>15. Arrived(c, g, j + 1, d)
  <2>1. n + 1 \in 1..(n + 1) /\ n + 1 # j
    BY <1>1 DEF n
  <2>2. Taken(g, j + 1, n + 1) = Taken(h, j, n + 1)
    BY <1>9, <2>1
  <2>3. QED
    BY <1>2, <2>2 DEF Arrived, n
<1>16. g[0] = t /\ j + 1 \in 0..(n + 1)
  BY <1>1, <1>2, <1>5 DEF n
<1> HIDE DEF u
<1>17. InStep(c, g, rest, j + 1, t, x, u, d)
  BY <1>2, <1>5, <1>11, <1>14, <1>15, <1>16 DEF InStep, n
<1>18. QED
  BY <1>17 DEF g, rest, u

\* The layer about to run is not due, which ends the invocation.
LEMMA AbortInStep ==
  ASSUME NEW c, IsChain(c), NEW h, NEW left, NEW j \in 1..c.layers, NEW t, NEW w, NEW v \in SUBSET Nat,
         NEW d, InStep(c, h, left, j, t, w, v, d), left[j] # 0,
         NEW x, x = [w EXCEPT ![j] = Shifted(w[j], v)]
  PROVE  InStep(c, h, [left EXCEPT ![j] = left[j] - 1], 0, t, x, {}, d)
<1> DEFINE n == c.layers
           rest == [left EXCEPT ![j] = left[j] - 1]
           m == Taken(h, j, j)
<1>1. n \in Nat /\ j \in 1..(n + 1) /\ j \in 0..n /\ j - 1 \in 0..n /\ 0 \in 0..(n + 1)
  <2>1. n \in Nat
    BY DEF IsChain
  <2>2. QED
    BY <2>1
<1>2. /\ h \in [0..n -> Nat] /\ h[0] = t /\ t \in 0..MaxTime
      /\ LayersInStep(c, h, left, j, w) /\ Arrived(c, h, j, d)
  BY DEF InStep
<1>3. /\ DOMAIN left = 1..n /\ DOMAIN w = 1..n
      /\ \A i \in 1..n : LayerInStep(c, i, Taken(h, j, i), h, left, w)
  BY <1>2 DEF LayersInStep
<1>4. m \in Nat /\ m + 1 = h[j - 1] /\ v = HandedOn(c, j - 1, m + 1)
  BY <1>1, LayerIsGiven
<1>5. /\ DOMAIN rest = 1..n /\ rest[j] = left[j] - 1
      /\ \A i \in 1..n : i # j => rest[i] = left[i]
  BY <1>3
<1>6. /\ DOMAIN x = 1..n /\ x[j] = Shifted(w[j], v)
      /\ \A i \in 1..n : i # j => x[i] = w[i]
  BY <1>3
<1> HIDE DEF rest, n
<1>7. LayerInStep(c, j, m + 1, h, rest, x)
  <2>1. LayerInStep(c, j, m, h, left, w) /\ h[j] \in Nat /\ j \in 1..c.layers
    BY <1>1, <1>2, <1>3 DEF n
  <2> HIDE DEF m
  <2>2. Given(c, j, m, h, left, w, v)
    BY <1>4, <2>1 DEF Given
  <2>3. Keeps(j, h, left, w, v, h, rest, x)
    BY <1>5, <1>6 DEF Keeps
  <2>4. QED
    BY <2>2, <2>3, LayerKeeps
<1> HIDE DEF m
<1>8. ASSUME NEW i \in 1..(n + 1)
      PROVE  (i # j => Taken(h, 0, i) = Taken(h, j, i)) /\ (i = j => Taken(h, 0, i) = m + 1)
  <2>1. i # 0 /\ i - 1 \in 0..n
    BY <1>1
  <2>2. Taken(h, 0, i) = h[i - 1]
    BY <1>1, <1>2, TakenAll
  <2>3. i # j => Taken(h, j, i) = h[i - 1]
    BY <1>2, <2>1 DEF Taken
  <2>4. QED
    BY <1>4, <2>2, <2>3
<1>9. LayersInStep(c, h, rest, 0, x)
  <2>1. ASSUME NEW i \in 1..n
        PROVE  LayerInStep(c, i, Taken(h, 0, i), h, rest, x)
    <3>0. i \in 1..(n + 1)
      BY <1>1
    <3>1. CASE i = j
      BY <1>7, <1>8, <3>0, <3>1
    <3>2. CASE i # j
      <4>1. SameLayer(i, h, left, w, h, rest, x)
        BY <1>5, <1>6, <3>2 DEF SameLayer
      <4>2. LayerInStep(c, i, Taken(h, j, i), h, rest, x)
        BY <1>3, <4>1, LayerStays
      <4>3. QED
        BY <1>8, <3>0, <3>2, <4>2
    <3>3. QED
      BY <3>1, <3>2
  <2>2. QED
    BY <1>5, <1>6, <2>1 DEF LayersInStep, n
<1>10. Arrived(c, h, 0, d)
  <2>1. n + 1 \in 1..(n + 1) /\ n + 1 # j
    BY <1>1 DEF n
  <2>2. Taken(h, 0, n + 1) = Taken(h, j, n + 1)
    BY <1>8, <2>1
  <2>3. QED
    BY <1>2, <2>2 DEF Arrived, n
<1>11. Carried(c, h, 0, t, {})
  BY DEF Carried
<1>12. InStep(c, h, rest, 0, t, x, {}, d)
  BY <1>1, <1>2, <1>9, <1>10, <1>11 DEF InStep, n
<1>13. QED
  BY <1>12 DEF rest

\* The invocation has come to its end and delivers.
LEMMA EndInStep ==
  ASSUME NEW c, IsChain(c), NEW h, NEW left, NEW t, NEW w, NEW v, NEW d, NEW j, j = c.layers + 1,
         InStep(c, h, left, j, t, w, v, d)
  PROVE  InStep(c, h, left, 0, t, w, {}, [at |-> t, from |-> v])
<1> DEFINE n == c.layers
           e == [at |-> t, from |-> v]
<1>1. n \in Nat /\ j \in 1..(n + 1) /\ j - 1 = n /\ n \in 0..n /\ 0 \in 0..(n + 1) /\ j # 0
  <2>1. n \in Nat
    BY DEF IsChain
  <2>2. QED
    BY <2>1
<1>2. /\ h \in [0..n -> Nat] /\ h[0] = t /\ t \in 0..MaxTime
      /\ LayersInStep(c, h, left, j, w)
  BY DEF InStep
<1>3. h[n] * c.period[n] = t /\ v = HandedOn(c, n, h[n])
  BY <1>1, LayerIsGiven
<1>4. ASSUME NEW i \in 1..n
      PROVE  Taken(h, 0, i) = Taken(h, j, i)
  <2>1. i # 0 /\ i # j
    BY <1>1
  <2>2. QED
    BY <2>1 DEF Taken
<1>5. LayersInStep(c, h, left, 0, w)
  BY <1>2, <1>4 DEF LayersInStep
<1>6. Arrived(c, h, 0, e)
  <2>1. Taken(h, 0, n + 1) = h[n]
    <3>1. n + 1 # 0 /\ n + 1 - 1 = n /\ h[n] \in Nat
      BY <1>1, <1>2
    <3>2. n + 1 \in 1..(n + 1)
      BY <1>1
    <3>3. QED
      BY <1>1, <1>2, <3>1, <3>2, TakenAll
  <2>2. QED
    BY <1>3, <2>1 DEF Arrived
<1>7. Carried(c, h, 0, t, {})
  BY DEF Carried
<1> HIDE DEF e
<1>8. InStep(c, h, left, 0, t, w, {}, e)
  BY <1>1, <1>2, <1>5, <1>6, <1>7 DEF InStep
<1>9. QED
  BY <1>8 DEF e

\* Nothing has been handed on since the reset.
LEMMA RestInStep ==
  ASSUME NEW c, IsChain(c), MaxTime \in Nat, NEW left, DOMAIN left = 1..c.layers,
         \A i \in 1..c.layers : left[i] = c.every[i] - 1,
         NEW w, w = [i \in 1..c.layers |-> [s \in 1..c.slots[i] |-> {}]]
  PROVE  InStep(c, [i \in 0..c.layers |-> 0], left, 0, 0, w, {}, [at |-> 0, from |-> {}])
<1> DEFINE n == c.layers
           h == [i \in 0..n |-> 0]
           d == [at |-> 0, from |-> {}]
<1>1. /\ n \in Nat
      /\ \A i \in 1..n : c.every[i] \in Nat \ {0} /\ c.slots[i] \in Nat \ {0}
      /\ c.period[n] \in Nat \ {0}
  <2>1. n \in Nat
    BY DEF IsChain
  <2>2. n \in 0..n
    BY <2>1
  <2>3. QED
    BY <2>1, <2>2 DEF IsChain
<1>2. ASSUME NEW i \in 1..(n + 1)
      PROVE  Taken(h, 0, i) = 0
  <2>1. i # 0 /\ i - 1 \in 0..n
    BY <1>1
  <2>2. QED
    BY <2>1 DEF Taken
<1>3. ASSUME NEW i \in 1..n
      PROVE  LayerInStep(c, i, 0, h, left, w)
  <2> DEFINE slots == c.slots[i]
             q == [s \in 1..slots |-> {}]
  <2>1. slots \in Nat /\ w[i] = q
    BY <1>1
  <2>2. q \in Seq(SUBSET Nat) /\ Len(q) = slots /\ \A s \in 1..slots : q[s] = {}
    BY <2>1
  <2>3. \A s \in 1..slots : HandedOn(c, i - 1, 0 - (slots - s)) = {}
    BY <2>1 DEF HandedOn
  <2>4. IsWindow(c, i - 1, 0, slots, w[i])
    BY <2>1, <2>2, <2>3 DEF IsWindow
  <2>5. h[i] = 0 /\ left[i] \in 0..(c.every[i] - 1) /\ c.every[i] - 1 - left[i] = 0 /\ c.every[i] * 0 = 0
    BY <1>1
  <2>6. 0 = c.every[i] * h[i] + (c.every[i] - 1 - left[i])
    BY <2>5
  <2> HIDE DEF h
  <2>7. QED
    BY <2>4, <2>5, <2>6 DEF LayerInStep
<1>4. LayersInStep(c, h, left, 0, w)
  <2>1. ASSUME NEW i \in 1..n
        PROVE  LayerInStep(c, i, Taken(h, 0, i), h, left, w)
    <3>1. Taken(h, 0, i) = 0
      <4>1. i \in 1..(n + 1)
        BY <1>1
      <4> HIDE DEF h
      <4>2. QED
        BY <1>2, <4>1
    <3>2. QED
      BY <1>3, <3>1
  <2> HIDE DEF h
  <2>2. QED
    BY <2>1 DEF LayersInStep
<1>5. Arrived(c, h, 0, d)
  <2>1. n + 1 \in 1..(n + 1) /\ 0 * c.period[n] = 0
    BY <1>1
  <2>2. Taken(h, 0, n + 1) = 0
    BY <1>2, <2>1
  <2> HIDE DEF h
  <2>3. HandedOn(c, n, 0) = {}
    BY DEF HandedOn
  <2>4. QED
    BY <2>1, <2>2, <2>3 DEF Arrived
<1>6. Carried(c, h, 0, 0, {})
  BY DEF Carried
<1>7. h \in [0..n -> Nat] /\ h[0] = 0 /\ 0 \in 0..MaxTime /\ 0 \in 0..(n + 1)
  BY <1>1
<1> HIDE DEF h, d
<1>8. InStep(c, h, left, 0, 0, w, {}, d)
  BY <1>4, <1>5, <1>6, <1>7 DEF InStep
<1>9. QED
  BY <1>8 DEF h, d

\* How long t is after the last output of layer i.
LEMMA LastOutput ==
  ASSUME NEW c, IsChain(c), NEW h, NEW left, NEW t, NEW w, NEW v, NEW d,
         InStep(c, h, left, 0, t, w, v, d), NEW i \in 0..c.layers
  PROVE  c.period[i] * h[i] <= t /\ t < c.period[i] * (h[i] + 1)
<1> DEFINE n == c.layers
           P == {m \in Nat : m <= n => c.period[m] * h[m] <= t /\ t < c.period[m] * (h[m] + 1)}
<1>1. n \in Nat /\ h \in [0..n -> Nat] /\ h[0] = t /\ LayersInStep(c, h, left, 0, w) /\ t \in Nat
  <2>1. n \in Nat /\ h \in [0..n -> Nat]
    BY DEF IsChain, InStep
  <2>2. QED
    BY <2>1 DEF InStep
<1>2. 0 \in P
  <2>1. c.period[0] = 1
    BY DEF IsChain
  <2>2. QED
    BY <1>1, <2>1
<1>3. ASSUME NEW m \in Nat, m \in P
      PROVE  m + 1 \in P
  <2> DEFINE j == m + 1
             p == c.period[m]
             e == c.every[j]
             a == h[m]
             b == h[j]
             r == e - 1 - left[j]
  <2> SUFFICES ASSUME j <= n PROVE c.period[j] * b <= t /\ t < c.period[j] * (b + 1)
    OBVIOUS
  <2>1. j \in 1..n /\ j \in 1..(n + 1) /\ m \in 0..n /\ j \in 0..n /\ j - 1 = m
    BY <1>1
  <2>2. p \in Nat \ {0} /\ e \in Nat \ {0} /\ c.period[j] = p * e
    BY <2>1 DEF IsChain
  <2>3. a \in Nat /\ b \in Nat /\ p * a <= t /\ t < p * (a + 1)
    BY <1>1, <1>3, <2>1
  <2>4. Taken(h, 0, j) = a
    BY <1>1, <2>1, TakenAll
  <2>5. left[j] \in 0..(e - 1) /\ a = e * b + r
    BY <1>1, <2>1, <2>4 DEF LayersInStep, LayerInStep
  <2>6. r \in 0..(e - 1)
    BY <2>2, <2>5
  <2> HIDE DEF p, e, a, b, r
  <2>7. e * b \in Nat /\ e * (b + 1) = e * b + e
    BY <2>2, <2>3
  <2>8. e * b <= a /\ a + 1 <= e * (b + 1)
    BY <2>2, <2>3, <2>5, <2>6, <2>7
  <2>9. p * (e * b) <= p * a /\ p * (a + 1) <= p * (e * (b + 1))
    BY <2>2, <2>3, <2>7, <2>8
  <2>10. p * (e * b) = (p * e) * b /\ p * (e * (b + 1)) = (p * e) * (b + 1)
    BY <2>2, <2>3
  <2>11. (p * e) * b \in Nat /\ (p * e) * (b + 1) \in Nat /\ p * a \in Nat /\ p * (a + 1) \in Nat
    BY <2>2, <2>3
  <2>12. QED
    BY <1>1, <2>2, <2>3, <2>9, <2>10, <2>11 DEF b
<1> HIDE DEF P
<1>4. \A m \in Nat : m \in P
  BY <1>2, <1>3, Induction
<1>5. QED
  BY <1>1, <1>4 DEF P

\* Quotients are determined by their bounds.
LEMMA QuotientIs ==
  ASSUME NEW t \in Nat, NEW p \in Nat \ {0}, NEW q \in Nat, p * q <= t, t < p * (q + 1)
  PROVE  t \div p = q /\ (t \div p) * p = q * p
<1> DEFINE x == t \div p
           r == t % p
<1>1. x \in Int /\ r \in 0..(p - 1) /\ t = p * x + r
  OBVIOUS
<1> HIDE DEF x, r
<1>2. CASE x < q
  <2>1. p * (x + 1) <= p * q
    BY <1>1, <1>2
  <2>2. QED
    BY <1>1, <2>1
<1>3. CASE x > q
  <2>1. p * (q + 1) <= p * x
    BY <1>1, <1>3
  <2>2. QED
    BY <1>1, <2>1
<1>4. QED
  BY <1>1, <1>2, <1>3 DEF x

\* Between invocations, what was delivered is what OutputsExact says.
LEMMA DeliveredIs ==
  ASSUME NEW c, IsChain(c), NEW h, NEW left, NEW t, NEW w, NEW v, NEW d,
         InStep(c, h, left, 0, t, w, v, d), NEW p, p = c.period[c.layers],
         NEW due, due = (t \div p) * p
  PROVE  d = [at |-> due, from |-> IF due = 0 THEN {} ELSE c.field[c.layers][due]]
<1> DEFINE n == c.layers
           m == h[n]
<1>1. n \in Nat /\ n \in 0..n /\ p \in Nat \ {0} /\ n + 1 \in 1..(n + 1) /\ n + 1 - 1 = n
  <2>1. n \in Nat
    BY DEF IsChain
  <2>2. n \in 0..n
    BY <2>1
  <2>3. QED
    BY <2>1, <2>2 DEF IsChain
<1>2. h \in [0..n -> Nat] /\ t \in Nat /\ Arrived(c, h, 0, d)
  <2>1. t \in 0..MaxTime
    BY DEF InStep
  <2>2. QED
    BY <2>1 DEF InStep
<1>3. m \in Nat /\ Taken(h, 0, n + 1) = m
  <2> DEFINE j == n + 1
  <2>1. h \in [0..n -> Nat] /\ n \in Nat /\ j \in 1..(n + 1) /\ j - 1 = n
    BY <1>1, <1>2
  <2> HIDE DEF j
  <2>2. Taken(h, 0, j) = h[j - 1]
    BY <2>1, TakenAll
  <2>3. QED
    BY <1>1, <2>1, <2>2 DEF j
<1>4. p * m <= t /\ t < p * (m + 1)
  BY <1>1, LastOutput
<1>5. due = m * p
  <2> HIDE DEF m
  <2>1. QED
    BY <1>1, <1>2, <1>3, <1>4, QuotientIs
<1>6. d = [at |-> m * p, from |-> HandedOn(c, n, m)]
  BY <1>2, <1>3 DEF Arrived
<1> HIDE DEF m
<1>7. m >= 1 <=> due # 0
  BY <1>1, <1>3, <1>5
<1>8. HandedOn(c, n, m) = IF m >= 1 THEN c.field[n][m * p] ELSE {}
  BY DEF HandedOn
<1>9. QED
  BY <1>3, <1>5, <1>6, <1>7, <1>8

-----------------------------------------------------------------------------
\* The outputs of a chain with failures. wait[i] bounds the invocations, after the current one,
\* until layer i hands on next: left[i] more values have to come first, one in each period of the
\* layer before. Layers that have run in the current invocation have waited long enough.
IsWait(c, wait, left, lay) ==
  /\ wait \in [0..c.layers -> Nat] /\ lay \in 0..(c.layers + 1)
  /\ wait[0] = IF lay = 0 THEN 1 ELSE 0
  /\ \A i \in 1..c.layers :
       /\ left[i] \in 0..(c.every[i] - 1)
       /\ i < lay => left[i] = c.every[i] - 1 /\ wait[i] = 0
       /\ i >= lay => wait[i] = wait[i - 1] + left[i] * c.period[i - 1]

\* The wait began at b, with a failure or with the output before.
InTime(c, wait, left, lay, t, b) ==
  IsWait(c, wait, left, lay) /\ t + wait[c.layers] <= b + c.period[c.layers]

\* A period is made of those of the layer before.
LEMMA PeriodSplits ==
  ASSUME NEW c, IsChain(c), NEW i \in 1..c.layers
  PROVE  /\ c.every[i] \in Nat \ {0} /\ c.period[i] \in Nat \ {0} /\ c.period[i - 1] \in Nat \ {0}
         /\ c.period[i] = c.period[i - 1] + (c.every[i] - 1) * c.period[i - 1]
         /\ i - 1 \in 0..c.layers /\ i \in 0..c.layers /\ c.layers \in Nat
<1> DEFINE p == c.period[i - 1]
           e == c.every[i]
<1>1. c.layers \in Nat /\ i - 1 \in 0..c.layers /\ i \in 0..c.layers
  <2>1. c.layers \in Nat
    BY DEF IsChain
  <2>2. QED
    BY <2>1
<1>2. p \in Nat \ {0} /\ e \in Nat \ {0} /\ c.period[i] \in Nat \ {0} /\ c.period[i] = p * e
  BY <1>1 DEF IsChain
<1> HIDE DEF p, e
<1>3. p * e = p + (e - 1) * p
  BY <1>2
<1>4. QED
  BY <1>1, <1>2, <1>3 DEF p, e

\* The first layer, or the one that ran last, has nothing to wait for.
LEMMA WaitIsOver ==
  ASSUME NEW c, IsChain(c), NEW wait, NEW left, NEW j \in 1..(c.layers + 1), IsWait(c, wait, left, j)
  PROVE  wait[j - 1] = 0 /\ (j <= c.layers => wait[j] = left[j] * c.period[j - 1])
<1>1. c.layers \in Nat /\ j # 0 /\ (j # 1 => j - 1 \in 1..c.layers /\ j - 1 < j)
  <2>1. c.layers \in Nat
    BY DEF IsChain
  <2>2. QED
    BY <2>1
<1>2. wait[j - 1] = 0
  <2>1. CASE j = 1
    BY <1>1, <2>1 DEF IsWait
  <2>2. CASE j # 1
    BY <1>1, <2>2 DEF IsWait
  <2>3. QED
    BY <2>1, <2>2
<1>3. ASSUME j <= c.layers
      PROVE  wait[j] = left[j] * c.period[j - 1]
  <2>1. j \in 1..c.layers /\ j >= j
    BY <1>1, <1>3
  <2>2. wait[j] = wait[j - 1] + left[j] * c.period[j - 1]
    BY <2>1 DEF IsWait
  <2>3. left[j] \in Nat /\ c.period[j - 1] \in Nat
    BY <2>1, PeriodSplits DEF IsWait
  <2>4. left[j] * c.period[j - 1] \in Nat
    BY <2>3
  <2>5. QED
    BY <1>2, <2>2, <2>4
<1>4. QED
  BY <1>2, <1>3

\* Between invocations no layer waits longer than its period, and each at least for the next.
LEMMA WaitBounds ==
  ASSUME NEW c, IsChain(c), NEW wait, NEW left, IsWait(c, wait, left, 0)
  PROVE  \A i \in 0..c.layers : wait[i] >= 1 /\ wait[i] <= c.period[i]
<1> DEFINE n == c.layers
           P == {m \in Nat : m <= n => wait[m] >= 1 /\ wait[m] <= c.period[m]}
<1>1. n \in Nat /\ wait \in [0..n -> Nat] /\ wait[0] = 1 /\ c.period[0] = 1
  BY DEF IsChain, IsWait
<1>2. 0 \in P
  BY <1>1
<1>3. ASSUME NEW m \in Nat, m \in P
      PROVE  m + 1 \in P
  <2> DEFINE j == m + 1
             p == c.period[m]
             e == c.every[j]
             l == left[j]
  <2> SUFFICES ASSUME j <= n PROVE wait[j] >= 1 /\ wait[j] <= c.period[j]
    OBVIOUS
  <2>1. j \in 1..n /\ j >= 0 /\ j - 1 = m /\ m \in 0..n
    BY <1>1
  <2>2. p \in Nat \ {0} /\ e \in Nat \ {0} /\ c.period[j] = p + (e - 1) * p
    BY <2>1, PeriodSplits
  <2>3. l \in 0..(e - 1) /\ wait[j] = wait[m] + l * p
    BY <2>1 DEF IsWait
  <2>4. wait[m] >= 1 /\ wait[m] <= p /\ wait[m] \in Nat
    BY <1>1, <1>3, <2>1
  <2> HIDE DEF p, e, l, j
  <2>5. l * p \in Nat /\ (e - 1) * p \in Nat /\ l * p <= (e - 1) * p
    <3>1. l \in Nat /\ e - 1 \in Nat /\ l <= e - 1
      BY <2>2, <2>3
    <3>2. QED
      BY <2>2, <3>1
  <2>6. QED
    BY <2>2, <2>3, <2>4, <2>5
<1> HIDE DEF P
<1>4. \A m \in Nat : m \in P
  BY <1>2, <1>3, Induction
<1>5. QED
  BY <1>1, <1>4 DEF P

\* An invocation begins.
LEMMA InvokeInTime ==
  ASSUME NEW c, IsChain(c), NEW wait, NEW left, NEW t \in Nat, NEW b \in Nat,
         InTime(c, wait, left, 0, t, b)
  PROVE  InTime(c, [i \in 0..c.layers |-> wait[i] - 1], left, 1, t + 1, b)
<1> DEFINE n == c.layers
           x == [i \in 0..n |-> wait[i] - 1]
<1>1. /\ n \in Nat /\ n \in 0..n /\ 1 \in 0..(n + 1) /\ c.period[n] \in Nat
      /\ wait \in [0..n -> Nat] /\ wait[0] = 1 /\ IsWait(c, wait, left, 0)
      /\ t + wait[n] <= b + c.period[n]
  <2>1. n \in Nat
    BY DEF IsChain
  <2>2. n \in 0..n /\ 1 \in 0..(n + 1)
    BY <2>1
  <2>3. c.period[n] \in Nat
    BY <2>2 DEF IsChain
  <2>4. QED
    BY <2>1, <2>2, <2>3 DEF InTime, IsWait
<1>2. \A i \in 0..n : wait[i] >= 1 /\ wait[i] \in Nat
  BY <1>1, WaitBounds
<1>3. x \in [0..n -> Nat] /\ \A i \in 0..n : x[i] = wait[i] - 1
  BY <1>2
<1> HIDE DEF x
<1>4. ASSUME NEW i \in 1..n
      PROVE  /\ left[i] \in 0..(c.every[i] - 1) /\ ~(i < 1)
             /\ x[i] = x[i - 1] + left[i] * c.period[i - 1]
  <2> DEFINE y == left[i] * c.period[i - 1]
  <2>1. i >= 0 /\ i - 1 \in 0..n /\ i \in 0..n /\ ~(i < 1)
    BY <1>1
  <2>2. left[i] \in 0..(c.every[i] - 1) /\ wait[i] = wait[i - 1] + y
    BY <1>1, <2>1 DEF IsWait
  <2>3. y \in Nat
    <3>1. left[i] \in Nat /\ c.period[i - 1] \in Nat
      BY <2>2, PeriodSplits
    <3>2. QED
      BY <3>1
  <2> HIDE DEF y
  <2>4. x[i] = x[i - 1] + y
    BY <1>2, <1>3, <2>1, <2>2, <2>3
  <2>5. QED
    BY <2>1, <2>2, <2>4 DEF y
<1>5. x[0] = 0
  BY <1>1, <1>3
<1>6. IsWait(c, x, left, 1)
  BY <1>1, <1>3, <1>4, <1>5 DEF IsWait
<1>7. t + 1 + x[n] <= b + c.period[n]
  BY <1>1, <1>2, <1>3
<1>8. QED
  BY <1>6, <1>7 DEF InTime, x

\* The layer about to run hands on a value.
LEMMA HandOnInTime ==
  ASSUME NEW c, IsChain(c), NEW wait, NEW left, DOMAIN left = 1..c.layers, NEW j \in 1..c.layers,
         left[j] = 0, NEW t, NEW b, InTime(c, wait, left, j, t, b)
  PROVE  InTime(c, wait, [left EXCEPT ![j] = c.every[j] - 1], j + 1, t, b)
<1> DEFINE n == c.layers
           rest == [left EXCEPT ![j] = c.every[j] - 1]
<1>1. n \in Nat /\ j \in 1..(n + 1) /\ j # 0 /\ j + 1 \in 0..(n + 1) /\ j + 1 # 0 /\ j <= n
  <2>1. n \in Nat
    BY DEF IsChain
  <2>2. QED
    BY <2>1
<1>2. IsWait(c, wait, left, j) /\ t + wait[n] <= b + c.period[n]
  BY DEF InTime
<1>3. wait[j] = 0
  <2>1. wait[j] = left[j] * c.period[j - 1] /\ c.period[j - 1] \in Nat
    BY <1>1, <1>2, WaitIsOver, PeriodSplits
  <2>2. QED
    BY <2>1
<1>4. rest[j] = c.every[j] - 1 /\ \A i \in 1..n : i # j => rest[i] = left[i]
  OBVIOUS
<1> HIDE DEF rest
<1>5. ASSUME NEW i \in 1..n
      PROVE  /\ rest[i] \in 0..(c.every[i] - 1)
             /\ i < j + 1 => rest[i] = c.every[i] - 1 /\ wait[i] = 0
             /\ i >= j + 1 => wait[i] = wait[i - 1] + rest[i] * c.period[i - 1]
  <2>1. CASE i = j
    <3>1. c.every[i] \in Nat \ {0}
      BY PeriodSplits
    <3>2. ~(i >= j + 1) /\ c.every[i] - 1 \in 0..(c.every[i] - 1)
      BY <1>1, <2>1, <3>1
    <3>3. QED
      BY <1>3, <1>4, <2>1, <3>2
  <2>2. CASE i # j
    <3>1. (i < j + 1 <=> i < j) /\ (i >= j + 1 => i >= j)
      BY <1>1, <2>2
    <3>2. QED
      BY <1>2, <1>4, <2>2, <3>1 DEF IsWait
  <2>3. QED
    BY <2>1, <2>2
<1>6. wait \in [0..n -> Nat] /\ wait[0] = 0
  BY <1>1, <1>2 DEF IsWait
<1>7. IsWait(c, wait, rest, j + 1)
  BY <1>1, <1>5, <1>6 DEF IsWait
<1>8. QED
  BY <1>2, <1>7 DEF InTime, rest

\* The layers that have run before layer j begin another period; those from j on go on waiting
\* for as long as before and the time that is added.
WaitAgain(c, wait, j, more) ==
  [i \in 0..c.layers |-> IF i < j THEN c.period[i] ELSE wait[i] + more]

\* The wait between invocations when an invocation has ended in front of, or in, layer j.
LEMMA WaitAgainIs ==
  ASSUME NEW c, IsChain(c), NEW wait, NEW left, NEW j \in 1..(c.layers + 1), IsWait(c, wait, left, j),
         NEW rest, NEW more \in Nat,
         \A i \in 1..c.layers : i # j => rest[i] = left[i],
         j <= c.layers => rest[j] \in 0..(c.every[j] - 1)
                          /\ (rest[j] + 1) * c.period[j - 1] = left[j] * c.period[j - 1] + more
  PROVE  IsWait(c, WaitAgain(c, wait, j, more), rest, 0)
<1> DEFINE n == c.layers
           x == WaitAgain(c, wait, j, more)
<1>1. n \in Nat /\ j # 0 /\ 0 < j /\ 0 \in 0..n /\ 0 \in 0..(n + 1) /\ c.period[0] = 1
  <2>1. n \in Nat
    BY DEF IsChain
  <2>2. QED
    BY <2>1 DEF IsChain
<1>2. /\ wait \in [0..n -> Nat]
      /\ \A i \in 1..n : /\ left[i] \in 0..(c.every[i] - 1)
                         /\ i < j => left[i] = c.every[i] - 1
                         /\ i >= j => wait[i] = wait[i - 1] + left[i] * c.period[i - 1]
  BY DEF IsWait
<1>3. \A i \in 0..n : c.period[i] \in Nat
  BY DEF IsChain
<1>4. /\ x \in [0..n -> Nat]
      /\ \A i \in 0..n : x[i] = IF i < j THEN c.period[i] ELSE wait[i] + more
  <2>1. \A i \in 0..n : (IF i < j THEN c.period[i] ELSE wait[i] + more) \in Nat
    BY <1>2, <1>3
  <2>2. QED
    BY <2>1 DEF WaitAgain
<1> HIDE DEF x
<1>5. x[0] = 1
  BY <1>1, <1>4
<1>6. ASSUME NEW i \in 1..n
      PROVE  rest[i] \in 0..(c.every[i] - 1) /\ x[i] = x[i - 1] + rest[i] * c.period[i - 1]
  <2> DEFINE p == c.period[i - 1]
  <2>1. /\ i \in 0..n /\ i - 1 \in 0..n /\ p \in Nat
        /\ c.period[i] = p + (c.every[i] - 1) * p
    BY PeriodSplits
  <2>2. CASE i < j
    <3>1. i # j /\ i - 1 < j
      BY <1>1, <2>2
    <3>2. x[i] = c.period[i] /\ x[i - 1] = p /\ rest[i] = left[i] /\ left[i] = c.every[i] - 1
      BY <1>2, <1>4, <2>1, <2>2, <3>1
    <3>3. QED
      BY <1>2, <2>1, <3>2
  <2>3. CASE i = j
    <3>1. j <= n /\ ~(i < j) /\ i - 1 < j
      BY <1>1, <2>3
    <3>2. x[i] = wait[j] + more /\ x[i - 1] = p
      BY <1>4, <2>1, <2>3, <3>1
    <3>3. wait[j] = left[j] * p
      BY <2>3, <3>1, WaitIsOver
    <3>4. rest[j] \in 0..(c.every[j] - 1) /\ (rest[j] + 1) * p = left[j] * p + more
      BY <2>3, <3>1
    <3>5. c.every[j] \in Nat \ {0}
      BY <2>3, PeriodSplits
    <3> HIDE DEF p
    <3>6. (rest[j] + 1) * p = p + rest[j] * p
      BY <2>1, <3>4, <3>5
    <3>7. x[i] = x[i - 1] + rest[i] * p
      BY <2>3, <3>2, <3>3, <3>4, <3>6
    <3>8. QED
      BY <2>3, <3>4, <3>7 DEF p
  <2>4. CASE i > j
    <3>1. i # j /\ i >= j /\ ~(i < j) /\ ~(i - 1 < j)
      BY <1>1, <2>4
    <3>2. x[i] = wait[i] + more /\ x[i - 1] = wait[i - 1] + more /\ rest[i] = left[i]
      BY <1>4, <2>1, <3>1
    <3>3. left[i] \in 0..(c.every[i] - 1) /\ wait[i] = wait[i - 1] + left[i] * p
      BY <1>2, <3>1
    <3>4. c.every[i] \in Nat \ {0} /\ wait[i - 1] \in Nat
      BY <1>2, <2>1, PeriodSplits
    <3> HIDE DEF p
    <3>5. left[i] * p \in Nat
      BY <2>1, <3>3, <3>4
    <3>6. x[i] = x[i - 1] + rest[i] * p
      BY <3>2, <3>3, <3>4, <3>5
    <3>7. QED
      BY <3>2, <3>3, <3>6 DEF p
  <2>5. QED
    BY <1>1, <2>2, <2>3, <2>4
<1>7. \A i \in 1..n : ~(i < 0)
  OBVIOUS
<1>8. IsWait(c, x, rest, 0)
  BY <1>1, <1>4, <1>5, <1>6, <1>7 DEF IsWait
<1>9. QED
  BY <1>8 DEF x

\* The layer about to run is not due: it has taken one of the values it waits for.
LEMMA AbortInTime ==
  ASSUME NEW c, IsChain(c), NEW wait, NEW left, DOMAIN left = 1..c.layers, NEW j \in 1..c.layers,
         left[j] # 0, NEW t, NEW b, InTime(c, wait, left, j, t, b)
  PROVE  InTime(c, WaitAgain(c, wait, j, 0), [left EXCEPT ![j] = left[j] - 1], 0, t, b)
<1> DEFINE n == c.layers
           rest == [left EXCEPT ![j] = left[j] - 1]
           x == WaitAgain(c, wait, j, 0)
<1>1. n \in Nat /\ j \in 1..(n + 1) /\ n \in 0..n /\ ~(n < j)
  <2>1. n \in Nat
    BY DEF IsChain
  <2>2. QED
    BY <2>1
<1>2. IsWait(c, wait, left, j) /\ t + wait[n] <= b + c.period[n]
  BY DEF InTime
<1>3. left[j] \in 0..(c.every[j] - 1) /\ wait[n] \in Nat
  BY <1>1, <1>2 DEF IsWait
<1>4. rest[j] = left[j] - 1 /\ \A i \in 1..n : i # j => rest[i] = left[i]
  OBVIOUS
<1> HIDE DEF rest
<1>5. /\ rest[j] \in 0..(c.every[j] - 1)
      /\ (rest[j] + 1) * c.period[j - 1] = left[j] * c.period[j - 1] + 0
  <2>1. c.every[j] \in Nat \ {0} /\ c.period[j - 1] \in Nat
    BY PeriodSplits
  <2>2. rest[j] + 1 = left[j] /\ left[j] * c.period[j - 1] \in Nat /\ rest[j] \in 0..(c.every[j] - 1)
    BY <1>3, <1>4, <2>1
  <2>3. QED
    BY <2>2
<1>6. IsWait(c, x, rest, 0)
  BY <1>1, <1>2, <1>4, <1>5, WaitAgainIs
<1>7. x[n] = wait[n]
  BY <1>1, <1>3 DEF WaitAgain
<1> HIDE DEF x
<1>8. QED
  BY <1>2, <1>6, <1>7 DEF InTime, x, rest

\* An operator in front of layer j fails, or the invocation delivers: within a period from now
\* on there is an output.
LEMMA StopInTime ==
  ASSUME NEW c, IsChain(c), NEW wait, NEW left, NEW j \in 1..(c.layers + 1), NEW t \in Nat, NEW b,
         InTime(c, wait, left, j, t, b)
  PROVE  InTime(c, WaitAgain(c, wait, j, c.period[j - 1]), left, 0, t, t)
<1> DEFINE n == c.layers
           p == c.period[j - 1]
           x == WaitAgain(c, wait, j, p)
<1>1. n \in Nat /\ n \in 0..n /\ p \in Nat /\ c.period[n] \in Nat
  <2>1. n \in Nat
    BY DEF IsChain
  <2>2. j - 1 \in 0..n /\ n \in 0..n
    BY <2>1
  <2>3. QED
    BY <2>1, <2>2 DEF IsChain
<1>2. IsWait(c, wait, left, j)
  BY DEF InTime
<1>3. ASSUME j <= n
      PROVE  left[j] \in 0..(c.every[j] - 1) /\ (left[j] + 1) * p = left[j] * p + p
  <2>1. j \in 1..n
    BY <1>1, <1>3
  <2>2. left[j] \in 0..(c.every[j] - 1) /\ c.every[j] \in Nat
    BY <1>2, <2>1, PeriodSplits DEF IsWait
  <2> HIDE DEF p
  <2>3. QED
    BY <1>1, <2>2
<1> HIDE DEF p
<1>4. IsWait(c, x, left, 0)
  BY <1>1, <1>2, <1>3, WaitAgainIs DEF p
<1>5. x[n] >= 1 /\ x[n] <= c.period[n] /\ x[n] \in Nat
  <2>1. x[n] \in Nat
    BY <1>1, <1>4 DEF IsWait
  <2> HIDE DEF x
  <2>2. QED
    BY <1>1, <1>4, <2>1, WaitBounds
<1> HIDE DEF x
<1>6. t + x[n] <= t + c.period[n]
  BY <1>1, <1>5
<1>7. QED
  BY <1>4, <1>6 DEF InTime, x, p

\* Every layer begins its period.
LEMMA RestInTime ==
  ASSUME NEW c, IsChain(c), NEW left, \A i \in 1..c.layers : left[i] = c.every[i] - 1
  PROVE  InTime(c, [i \in 0..c.layers |-> c.period[i]], left, 0, 0, 0)
<1> DEFINE n == c.layers
           x == [i \in 0..n |-> c.period[i]]
<1>1. n \in Nat /\ n \in 0..n /\ 0 \in 0..n /\ 0 \in 0..(n + 1)
  <2>1. n \in Nat
    BY DEF IsChain
  <2>2. QED
    BY <2>1
<1>2. x \in [0..n -> Nat] /\ x[0] = 1 /\ \A i \in 0..n : x[i] = c.period[i] /\ c.period[i] \in Nat
  BY <1>1 DEF IsChain
<1> HIDE DEF x
<1>3. ASSUME NEW i \in 1..n
      PROVE  /\ left[i] \in 0..(c.every[i] - 1) /\ ~(i < 0)
             /\ x[i] = x[i - 1] + left[i] * c.period[i - 1]
  <2>1. /\ c.every[i] \in Nat \ {0} /\ i \in 0..n /\ i - 1 \in 0..n
        /\ c.period[i] = c.period[i - 1] + (c.every[i] - 1) * c.period[i - 1]
    BY PeriodSplits
  <2>2. QED
    BY <1>2, <2>1
<1>4. IsWait(c, x, left, 0)
  BY <1>1, <1>2, <1>3 DEF IsWait
<1>5. 0 + x[n] <= 0 + c.period[n]
  BY <1>1, <1>2
<1>6. QED
  BY <1>4, <1>5 DEF InTime, x

\* Between invocations the wait is not over its period.
LEMMA WithinPeriod ==
  ASSUME NEW c, IsChain(c), NEW wait, NEW left, NEW t \in Nat, NEW b \in Nat,
         InTime(c, wait, left, 0, t, b)
  PROVE  t - b < c.period[c.layers]
<1> DEFINE n == c.layers
<1>1. n \in Nat /\ n \in 0..n
  <2>1. n \in Nat
    BY DEF IsChain
  <2>2. QED
    BY <2>1
<1>2. IsWait(c, wait, left, 0) /\ t + wait[n] <= b + c.period[n]
  BY DEF InTime
<1>3. c.period[n] \in Nat /\ wait[n] \in Nat
  BY <1>1, <1>2 DEF IsChain, IsWait
<1>4. wait[n] >= 1
  BY <1>1, <1>2, WaitBounds
<1>5. QED
  BY <1>2, <1>3, <1>4

-----------------------------------------------------------------------------
\* The inductive invariant.

\* How many values a layer takes in before the one that it answers with its next.
Left == [i \in 1..Len(model) |-> IF model[i].hasValid THEN 0 ELSE cyclesUntilRun[i] - 1]

AtRest ==
  /\ layer = 0 /\ value = {} /\ time = 0 /\ failedAt = 0
  /\ delivered = [at |-> 0, from |-> {}]
  /\ window = NoWindow /\ cyclesUntilRun = cyclesMax

ChainTypes ==
  /\ model \in Models
  /\ cyclesMax \in Seq(Nat \ {0}) /\ Len(cyclesMax) <= Len(model)
  /\ cyclesUntilRun \in Seq(Nat \ {0}) /\ Len(cyclesUntilRun) = Len(cyclesMax)
  /\ DOMAIN window = 1..Len(model)
  /\ \A i \in 1..Len(model) : window[i] \in Seq(SUBSET Nat) /\ window[i] # <<>>
  /\ layer \in 0..(Len(model) + 1) /\ value \in SUBSET Nat
  /\ time \in 0..MaxTime /\ delivered.at \in 0..time /\ failedAt \in 0..time
  /\ IF layer = 0 THEN value = {} ELSE time # 0
  /\ ~Prepared => AtRest

\* When the wait for the next output began.
LastStop == IF delivered.at >= failedAt THEN delivered.at ELSE failedAt

OutputsInStep == \E h : InStep(Chain, h, Left, layer, time, window, value, delivered)

OutputsInTime == \E wait : InTime(Chain, wait, Left, layer, time, LastStop)

ChainInvariant ==
  /\ ChainTypes
  /\ Prepared => (failedAt = 0 => OutputsInStep) /\ OutputsInTime

\* What is known of a prepared model.
LEMMA ChainFacts ==
  ASSUME ChainTypes, Prepared
  PROVE  /\ IsChain(Chain) /\ Chain.layers = Len(model) /\ Chain.period = Periods /\ Chain.field = Field
         /\ \A i \in 1..Len(model) : Chain.every[i] = Every(i) /\ Chain.slots[i] = model[i].slots
         /\ Len(model) \in Nat /\ Layers = 1..Len(model) /\ model \in Seq(Layer) /\ MaxTime \in Nat
         /\ \A i \in 1..Len(model) : cyclesMax[i] \in Nat \ {0} /\ cyclesUntilRun[i] \in Nat \ {0}
                                     /\ model[i].hasValid \in BOOLEAN
<1>1. model \in Seq(Layer) /\ MaxTime \in Nat
  BY StreamingChainAssumption DEF ChainTypes
<1>2. Len(model) \in Nat /\ Layers = 1..Len(model) /\ \A i \in 1..Len(model) : model[i] \in Layer
  BY <1>1 DEF Layers
<1>3. \A i \in 1..Len(model) : model[i].slots \in Nat \ {0} /\ model[i].hasValid \in BOOLEAN
  BY <1>2 DEF Layer
<1>4. \A i \in 1..Len(model) : cyclesMax[i] \in Nat \ {0} /\ cyclesUntilRun[i] \in Nat \ {0}
  BY DEF ChainTypes, Prepared
<1>5. Numbered
  BY <1>2, <1>3, <1>4 DEF Numbered, Every
<1>6. IsChain(Chain)
  BY <1>1, <1>5, ChainIs
<1>7. /\ Chain.layers = Len(model) /\ Chain.period = Periods /\ Chain.field = Field
      /\ \A i \in 1..Len(model) : Chain.every[i] = Every(i) /\ Chain.slots[i] = model[i].slots
  BY <1>2 DEF Chain
<1>8. QED
  BY <1>1, <1>2, <1>3, <1>4, <1>6, <1>7

\* A chain stays what it is as long as its model and periods do.
LEMMA ChainStays == UNCHANGED <<model, cyclesMax>> => Chain' = Chain /\ Prepared' = Prepared
BY DEF Chain, Prepared, Periods, Period, Field, Every, Layers

\* Prepare and Reset leave the chain in step.
LEMMA RestHolds == ChainTypes /\ Prepared /\ AtRest => OutputsInStep /\ OutputsInTime
<1> SUFFICES ASSUME ChainTypes, Prepared, AtRest PROVE OutputsInStep /\ OutputsInTime
  OBVIOUS
<1> DEFINE c == Chain
           left == Left
<1>1. /\ IsChain(c) /\ c.layers = Len(model) /\ Layers = 1..Len(model) /\ MaxTime \in Nat
      /\ \A i \in 1..Len(model) : c.every[i] = Every(i) /\ c.slots[i] = model[i].slots
  BY ChainFacts
<1>2. /\ layer = 0 /\ value = {} /\ time = 0 /\ failedAt = 0 /\ cyclesUntilRun = cyclesMax
      /\ delivered = [at |-> 0, from |-> {}] /\ window = NoWindow
  BY DEF AtRest
<1>3. ASSUME NEW i \in 1..Len(model)
      PROVE  left[i] = c.every[i] - 1
  <2>1. left[i] = IF model[i].hasValid THEN 0 ELSE cyclesMax[i] - 1
    BY <1>2 DEF Left
  <2>2. c.every[i] = IF model[i].hasValid THEN 1 ELSE cyclesMax[i]
    BY <1>1 DEF Every
  <2> HIDE DEF left, c
  <2>3. QED
    BY <2>1, <2>2
<1>4. DOMAIN left = 1..c.layers
  BY <1>1 DEF Left
<1>5. window = [i \in 1..c.layers |-> [s \in 1..c.slots[i] |-> {}]]
  <2>1. window = [i \in 1..Len(model) |-> [s \in 1..model[i].slots |-> {}]]
    BY <1>1, <1>2 DEF NoWindow
  <2> HIDE DEF c
  <2>2. QED
    BY <1>1, <2>1
<1> HIDE DEF c, left
<1>6. InStep(c, [i \in 0..c.layers |-> 0], left, 0, 0, window, {}, [at |-> 0, from |-> {}])
  BY <1>1, <1>3, <1>4, <1>5, RestInStep
<1>7. InTime(c, [i \in 0..c.layers |-> c.period[i]], left, 0, 0, 0)
  BY <1>1, <1>3, RestInTime
<1>8. LastStop = 0
  BY <1>2 DEF LastStop
<1>9. OutputsInStep
  BY <1>2, <1>6 DEF OutputsInStep, c, left
<1>10. OutputsInTime
  BY <1>2, <1>7, <1>8 DEF OutputsInTime, c, left
<1>11. QED
  BY <1>9, <1>10

\* The slots of a chain without inputs are typed.
LEMMA NoWindowTyped ==
  ASSUME model \in Models
  PROVE  /\ DOMAIN NoWindow = 1..Len(model)
         /\ \A i \in 1..Len(model) : NoWindow[i] \in Seq(SUBSET Nat) /\ NoWindow[i] # <<>>
<1>1. model \in Seq(Layer)
  BY StreamingChainAssumption
<1>2. Len(model) \in Nat /\ Layers = 1..Len(model) /\ \A i \in 1..Len(model) : model[i] \in Layer
  BY <1>1 DEF Layers
<1>3. ASSUME NEW i \in 1..Len(model)
      PROVE  NoWindow[i] \in Seq(SUBSET Nat) /\ NoWindow[i] # <<>>
  <2> DEFINE n == model[i].slots
             q == [s \in 1..n |-> {}]
  <2>1. n \in Nat \ {0}
    BY <1>2 DEF Layer
  <2>2. NoWindow[i] = q
    BY <1>2 DEF NoWindow
  <2> HIDE DEF n
  <2>3. q \in Seq(SUBSET Nat) /\ Len(q) = n
    BY <2>1
  <2> HIDE DEF q
  <2>4. q # <<>>
    BY <2>1, <2>3
  <2>5. QED
    BY <2>2, <2>3, <2>4
<1>4. QED
  BY <1>2, <1>3 DEF NoWindow

\* The chain begins at rest.
LEMMA InitChain == Init => ChainInvariant
<1> SUFFICES ASSUME Init PROVE ChainInvariant
  OBVIOUS
<1>1. /\ model \in Models /\ cyclesMax = <<>> /\ cyclesUntilRun = <<>> /\ window = NoWindow
      /\ layer = 0 /\ value = {} /\ time = 0 /\ delivered = [at |-> 0, from |-> {}] /\ failedAt = 0
  BY DEF Init
<1>2. Len(model) \in Nat /\ MaxTime \in Nat
  BY <1>1, StreamingChainAssumption
<1>3. AtRest
  BY <1>1 DEF AtRest
<1>4. DOMAIN window = 1..Len(model) /\ \A i \in 1..Len(model) : window[i] \in Seq(SUBSET Nat) /\ window[i] # <<>>
  BY <1>1, NoWindowTyped
<1>5. /\ cyclesMax \in Seq(Nat \ {0}) /\ Len(cyclesMax) = 0
      /\ cyclesUntilRun \in Seq(Nat \ {0}) /\ Len(cyclesUntilRun) = 0
  BY <1>1
<1>6. ChainTypes
  BY <1>1, <1>2, <1>3, <1>4, <1>5 DEF ChainTypes
<1>7. QED
  BY <1>1, <1>3, <1>6, RestHolds DEF ChainInvariant

\* Prepare, or another attempt at it.
LEMMA PrepareChain ==
  ASSUME ChainInvariant, CircularBufferPrepare \/ PrepareFails
  PROVE  ChainInvariant'
<1>1. ChainTypes /\ ~Prepared /\ AtRest
  BY DEF ChainInvariant, ChainTypes, CircularBufferPrepare, PrepareFails
<1>2. model \in Seq(Layer) /\ Len(model) \in Nat
  BY <1>1, StreamingChainAssumption DEF ChainTypes
<1>3. UNCHANGED <<model, window, layer, value, time, delivered, failedAt>>
  BY DEF CircularBufferPrepare, PrepareFails
<1>4. /\ cyclesMax' \in Seq(Nat \ {0}) /\ Len(cyclesMax') <= Len(model) /\ cyclesUntilRun' = cyclesMax'
  <2>1. CASE CircularBufferPrepare
    <3> DEFINE l == model[Len(cyclesMax) + 1]
               cycles == IF l.cyclesMax > 0 THEN l.cyclesMax
                         ELSE IF IsLast(l, cbPrepareCount + 1) THEN 1 ELSE 2
    <3>1. cyclesMax \in Seq(Nat \ {0}) /\ Len(cyclesMax) <= Len(model) /\ cyclesUntilRun = cyclesMax
      BY <1>1 DEF ChainTypes, AtRest
    <3>2. Len(cyclesMax) + 1 \in 1..Len(model) /\ Len(cyclesMax) \in Nat
      BY <1>1, <1>2, <3>1 DEF Prepared
    <3>3. l \in Layer
      BY <1>2, <3>2
    <3>4. cycles \in Nat \ {0}
      <4>1. l.cyclesMax \in Nat
        BY <3>3 DEF Layer
      <4> HIDE DEF l
      <4>2. QED
        BY <4>1
    <3>5. cyclesMax' = Append(cyclesMax, cycles) /\ cyclesUntilRun' = Append(cyclesUntilRun, cycles)
      BY <2>1 DEF CircularBufferPrepare
    <3> HIDE DEF cycles
    <3>6. QED
      BY <3>1, <3>2, <3>4, <3>5
  <2>2. CASE PrepareFails
    BY <1>2, <2>2 DEF PrepareFails
  <2>3. QED
    BY <2>1, <2>2
<1>5. NoWindow' = NoWindow
  BY <1>3 DEF NoWindow, Layers
<1>6. AtRest'
  BY <1>1, <1>3, <1>4, <1>5 DEF AtRest
<1>7. ChainTypes'
  BY <1>1, <1>3, <1>4, <1>6 DEF ChainTypes
<1>8. (ChainTypes /\ Prepared /\ AtRest => OutputsInStep /\ OutputsInTime)'
  BY RestHolds, PTL
<1>9. QED
  BY <1>6, <1>7, <1>8 DEF ChainInvariant

\* What the steps of prepared models have in common.
LEMMA PreparedChain ==
  ASSUME ChainInvariant, Prepared, UNCHANGED <<model, cyclesMax>>
  PROVE  /\ ChainTypes /\ Chain' = Chain /\ Prepared' /\ IsChain(Chain) /\ OutputsInTime
         /\ (failedAt = 0 => OutputsInStep)
         /\ Chain.layers = Len(model) /\ Len(model) \in Nat /\ MaxTime \in Nat /\ time \in Nat
         /\ DOMAIN Left = 1..Len(model) /\ LastStop \in 0..time /\ (layer # 0 => time # 0)
<1>1. ChainTypes /\ OutputsInTime /\ (failedAt = 0 => OutputsInStep)
  BY DEF ChainInvariant
<1>2. IsChain(Chain) /\ Chain.layers = Len(model) /\ Len(model) \in Nat /\ MaxTime \in Nat
  BY <1>1, ChainFacts
<1>3. Chain' = Chain /\ Prepared'
  BY ChainStays
<1>4. time \in 0..MaxTime /\ delivered.at \in 0..time /\ failedAt \in 0..time /\ (layer # 0 => time # 0)
  BY <1>1 DEF ChainTypes
<1>5. LastStop \in 0..time
  BY <1>4 DEF LastStop
<1>6. DOMAIN Left = 1..Len(model)
  BY DEF Left
<1>7. time \in Nat
  BY <1>2, <1>4
<1>8. QED
  BY <1>1, <1>2, <1>3, <1>4, <1>5, <1>6, <1>7

\* Invoke.
LEMMA InvokeChain ==
  ASSUME ChainInvariant, Invoke
  PROVE  ChainInvariant'
<1> DEFINE c == Chain
<1>1. /\ Prepared /\ layer = 0 /\ time < MaxTime /\ layer' = 1 /\ time' = time + 1 /\ value' = {time + 1}
      /\ UNCHANGED <<model, cyclesMax, cyclesUntilRun, window, delivered, failedAt>>
  BY DEF Invoke
<1>2. /\ ChainTypes /\ c' = c /\ Prepared' /\ IsChain(c) /\ OutputsInTime
      /\ (failedAt = 0 => OutputsInStep)
      /\ Len(model) \in Nat /\ MaxTime \in Nat /\ time \in Nat /\ LastStop \in 0..time
  BY <1>1, PreparedChain
<1>3. Left' = Left /\ LastStop' = LastStop
  BY <1>1 DEF Left, LastStop
<1>4. ChainTypes'
  <2>1. /\ layer' \in 0..(Len(model) + 1) /\ value' \in SUBSET Nat /\ time' \in 0..MaxTime /\ time' # 0
        /\ delivered.at \in 0..time' /\ failedAt \in 0..time'
    BY <1>1, <1>2 DEF ChainTypes
  <2>2. QED
    BY <1>1, <1>2, <2>1 DEF ChainTypes
<1>5. ASSUME failedAt' = 0
      PROVE  OutputsInStep'
  <2>1. PICK h : InStep(c, h, Left, layer, time, window, value, delivered)
    BY <1>1, <1>2, <1>5 DEF OutputsInStep
  <2> HIDE DEF c
  <2>2. InStep(c, [h EXCEPT ![0] = time + 1], Left, 1, time + 1, window, {time + 1}, delivered)
    <3>1. time + 1 <= MaxTime
      BY <1>1, <1>2
    <3>2. QED
      BY <1>1, <1>2, <2>1, <3>1, InvokeInStep
  <2>3. QED
    BY <1>1, <1>2, <1>3, <2>2 DEF OutputsInStep, c
<1>6. OutputsInTime'
  <2>1. PICK wait : InTime(c, wait, Left, layer, time, LastStop)
    BY <1>2 DEF OutputsInTime
  <2> HIDE DEF c
  <2>2. InTime(c, [i \in 0..c.layers |-> wait[i] - 1], Left, 1, time + 1, LastStop)
    BY <1>1, <1>2, <2>1, InvokeInTime
  <2>3. QED
    BY <1>1, <1>2, <1>3, <2>2 DEF OutputsInTime, c
<1>7. QED
  BY <1>2, <1>4, <1>5, <1>6 DEF ChainInvariant

\* A layer hands on when it has nothing left to take in first; the counter of one with an output
\* that says so is of no account.
LEMMA EvalLeft ==
  ASSUME ChainTypes, Prepared, CircularBufferEval
  PROVE  /\ layer \in 1..Len(model) /\ UNCHANGED <<model, cyclesMax, time, delivered, failedAt>>
         /\ window' = [window EXCEPT ![layer] = Shifted(window[layer], value)]
         /\ Left[layer] = 0 => /\ Left' = [Left EXCEPT ![layer] = Chain.every[layer] - 1]
                               /\ layer' = layer + 1
                               /\ value' = Combined(window'[layer])
         /\ Left[layer] # 0 => /\ Left' = [Left EXCEPT ![layer] = Left[layer] - 1]
                               /\ layer' = 0 /\ value' = {}
<1> DEFINE n == Len(model)
           k == cyclesUntilRun[layer]
           hasValid == model[layer].hasValid
           isReady == k - 1 <= 0
           count == IF isReady THEN cyclesMax[layer] ELSE k - 1
           u == Combined(window'[layer])
<1>1. /\ Layers = 1..n /\ n \in Nat
      /\ \A i \in 1..n : /\ cyclesMax[i] \in Nat \ {0} /\ cyclesUntilRun[i] \in Nat \ {0}
                         /\ model[i].hasValid \in BOOLEAN /\ Chain.every[i] = Every(i)
  BY ChainFacts
<1>2. /\ layer \in Layers /\ UNCHANGED <<model, cyclesMax, time, delivered, failedAt>>
      /\ window' = [window EXCEPT ![layer] = Shifted(window[layer], value)]
      /\ cyclesUntilRun' = [cyclesUntilRun EXCEPT ![layer] = count]
      /\ layer' = IF isReady \/ hasValid THEN layer + 1 ELSE 0
      /\ value' = IF isReady \/ hasValid THEN u ELSE {}
  BY DEF CircularBufferEval, IsReady, Combined
<1>3. layer \in 1..n /\ k \in Nat \ {0} /\ hasValid \in BOOLEAN /\ Chain.every[layer] = Every(layer)
  BY <1>1, <1>2
<1>4. Left[layer] = (IF hasValid THEN 0 ELSE k - 1) /\ DOMAIN Left = 1..n
  BY <1>3 DEF Left
<1>5. Left[layer] = 0 <=> isReady \/ hasValid
  BY <1>3, <1>4
<1>6. cyclesUntilRun \in Seq(Nat \ {0}) /\ DOMAIN cyclesUntilRun = 1..n
  BY <1>1 DEF ChainTypes, Prepared
<1>7. ASSUME NEW e, e = (IF Left[layer] = 0 THEN Chain.every[layer] - 1 ELSE Left[layer] - 1)
      PROVE  Left' = [Left EXCEPT ![layer] = e]
  <2>1. Left' = [i \in 1..n |-> IF model[i].hasValid THEN 0 ELSE cyclesUntilRun'[i] - 1]
    BY <1>2 DEF Left
  <2>2. ASSUME NEW i \in 1..n
        PROVE  (IF model[i].hasValid THEN 0 ELSE cyclesUntilRun'[i] - 1)
                 = IF i = layer THEN e ELSE Left[i]
    <3>1. CASE i # layer
      <4>1. cyclesUntilRun'[i] = cyclesUntilRun[i]
        BY <1>2, <1>6, <3>1
      <4>2. QED
        BY <3>1, <4>1 DEF Left
    <3>2. CASE i = layer /\ hasValid
      <4>1. e = 0
        BY <1>3, <1>4, <1>7, <3>2 DEF Every
      <4>2. QED
        BY <3>2, <4>1
    <3>3. CASE i = layer /\ ~hasValid
      <4>1. cyclesUntilRun'[i] = count
        BY <1>2, <1>3, <1>6, <3>3
      <4>2. Every(layer) = cyclesMax[layer]
        BY <3>3 DEF Every
      <4>3. e = count - 1
        BY <1>3, <1>4, <1>5, <1>7, <3>3, <4>2
      <4>4. QED
        BY <3>3, <4>1, <4>3
    <3>4. QED
      BY <1>3, <3>1, <3>2, <3>3
  <2>3. [Left EXCEPT ![layer] = e] = [i \in 1..n |-> IF i = layer THEN e ELSE Left[i]]
    BY <1>3, <1>4
  <2> HIDE DEF n
  <2>4. QED
    BY <2>1, <2>2, <2>3
<1> HIDE DEF k, hasValid, isReady, count, u
<1>8. Left[layer] = 0 => layer' = layer + 1 /\ value' = u
  BY <1>2, <1>5
<1>9. Left[layer] # 0 => layer' = 0 /\ value' = {}
  BY <1>2, <1>5
<1>10. QED
  BY <1>2, <1>3, <1>7, <1>8, <1>9 DEF u

\* CircularBufferEval.
LEMMA EvalChain ==
  ASSUME ChainInvariant, CircularBufferEval
  PROVE  ChainInvariant'
<1> DEFINE c == Chain
           j == layer
           x == [window EXCEPT ![j] = Shifted(window[j], value)]
           u == Combined(x[j])
           onward == [Left EXCEPT ![j] = c.every[j] - 1]
           counted == [Left EXCEPT ![j] = Left[j] - 1]
<1>0. Prepared
  <2>1. layer \in Layers /\ model \in Seq(Layer)
    BY StreamingChainAssumption DEF CircularBufferEval, ChainInvariant, ChainTypes
  <2>2. layer # 0
    BY <2>1 DEF Layers
  <2>3. QED
    BY <2>2 DEF ChainInvariant, ChainTypes, AtRest
<1>1. UNCHANGED <<model, cyclesMax>>
  BY DEF CircularBufferEval
<1>2. /\ ChainTypes /\ c' = c /\ Prepared' /\ IsChain(c) /\ OutputsInTime
      /\ (failedAt = 0 => OutputsInStep)
      /\ c.layers = Len(model) /\ Len(model) \in Nat /\ time \in Nat
      /\ DOMAIN Left = 1..Len(model) /\ (layer # 0 => time # 0)
  BY <1>0, <1>1, PreparedChain
<1>3. /\ j \in 1..Len(model) /\ UNCHANGED <<model, cyclesMax, time, delivered, failedAt>>
      /\ window' = x
      /\ Left[j] = 0 => Left' = onward /\ layer' = j + 1 /\ value' = u
      /\ Left[j] # 0 => Left' = counted /\ layer' = 0 /\ value' = {}
  <2>1. /\ j \in 1..Len(model) /\ UNCHANGED <<model, cyclesMax, time, delivered, failedAt>>
        /\ window' = x
        /\ Left[j] = 0 => Left' = onward /\ layer' = j + 1 /\ value' = Combined(window'[j])
        /\ Left[j] # 0 => Left' = counted /\ layer' = 0 /\ value' = {}
    BY <1>0, <1>2, EvalLeft
  <2> HIDE DEF x, onward, counted
  <2>2. QED
    BY <2>1
<1>4. value \in SUBSET Nat /\ j \in 1..c.layers /\ DOMAIN Left = 1..c.layers /\ LastStop' = LastStop
  BY <1>2, <1>3 DEF ChainTypes, LastStop
<1>5. ChainTypes'
  <2>1. /\ DOMAIN window = 1..Len(model) /\ time \in 0..MaxTime
        /\ \A i \in 1..Len(model) : window[i] \in Seq(SUBSET Nat) /\ window[i] # <<>>
        /\ delivered.at \in 0..time /\ failedAt \in 0..time /\ model \in Models
    BY <1>2 DEF ChainTypes
  <2>2. x[j] = Shifted(window[j], value) /\ DOMAIN x = 1..Len(model)
        /\ \A i \in 1..Len(model) : i # j => x[i] = window[i]
    BY <1>3, <2>1
  <2>3. x[j] \in Seq(SUBSET Nat) /\ x[j] # <<>>
    <3> DEFINE q == Tail(window[j])
    <3>1. q \in Seq(SUBSET Nat)
      BY <1>3, <2>1
    <3>2. x[j] = Append(q, value)
      BY <2>2 DEF Shifted
    <3> HIDE DEF q, x
    <3>3. Append(q, value) \in Seq(SUBSET Nat) /\ Append(q, value) # <<>>
      BY <1>4, <3>1
    <3>4. QED
      BY <3>2, <3>3
  <2> HIDE DEF x
  <2>4. u \in SUBSET Nat
    BY <2>3 DEF Combined
  <2> HIDE DEF u, onward, counted
  <2>5. layer' \in 0..(Len(model) + 1) /\ value' \in SUBSET Nat
    <3>0. Len(model) \in Nat /\ layer \in 1..Len(model)
      BY <1>2, <1>3
    <3>1. CASE Left[j] = 0
      <4>1. layer' = layer + 1 /\ value' = u
        BY <1>3, <3>1
      <4>2. QED
        BY <2>4, <3>0, <4>1
    <3>2. CASE Left[j] # 0
      <4>1. layer' = 0 /\ value' = {}
        BY <1>3, <3>2
      <4>2. QED
        BY <3>0, <4>1
    <3>3. QED
      BY <3>1, <3>2
  <2>6. /\ DOMAIN window' = 1..Len(model)
        /\ \A i \in 1..Len(model) : window'[i] \in Seq(SUBSET Nat) /\ window'[i] # <<>>
    BY <1>3, <2>1, <2>2, <2>3
  <2>7. /\ cyclesUntilRun' \in Seq(Nat \ {0}) /\ Len(cyclesUntilRun') = Len(cyclesUntilRun)
    <3>1. cyclesUntilRun \in Seq(Nat \ {0}) /\ Len(cyclesUntilRun) = Len(model)
      BY <1>0, <1>2 DEF ChainTypes, Prepared
    <3>2. cyclesMax[j] \in Nat \ {0} /\ cyclesUntilRun[j] \in Nat \ {0}
      BY <1>0, <1>2, <1>3, ChainFacts
    <3> DEFINE k == cyclesUntilRun[j]
               count == IF k - 1 <= 0 THEN cyclesMax[j] ELSE k - 1
    <3>3. cyclesUntilRun' = [cyclesUntilRun EXCEPT ![j] = count]
      BY DEF CircularBufferEval, IsReady
    <3>4. count \in Nat \ {0}
      BY <3>2
    <3> HIDE DEF count
    <3>5. QED
      BY <1>3, <3>1, <3>3, <3>4
  <2>8. time # 0
    BY <1>2, <1>3
  <2>9. QED
    BY <1>2, <1>3, <2>1, <2>5, <2>6, <2>7, <2>8 DEF ChainTypes
<1> HIDE DEF c
<1>6. ASSUME failedAt' = 0
      PROVE  OutputsInStep'
  <2>1. PICK h : InStep(c, h, Left, j, time, window, value, delivered)
    BY <1>2, <1>3, <1>6 DEF OutputsInStep, c
  <2>2. CASE Left[j] = 0
    <3>1. InStep(c, [h EXCEPT ![j] = h[j] + 1], onward, j + 1, time, x, u, delivered)
      BY <1>2, <1>4, <2>1, <2>2, HandOnInStep
    <3> HIDE DEF onward, u, x
    <3>2. QED
      BY <1>2, <1>3, <2>2, <3>1 DEF OutputsInStep, c
  <2>3. CASE Left[j] # 0
    <3>1. InStep(c, h, counted, 0, time, x, {}, delivered)
      BY <1>2, <1>4, <2>1, <2>3, AbortInStep
    <3> HIDE DEF counted, u, x
    <3>2. QED
      BY <1>2, <1>3, <2>3, <3>1 DEF OutputsInStep, c
  <2>4. QED
    BY <2>2, <2>3
<1>7. OutputsInTime'
  <2>1. PICK wait : InTime(c, wait, Left, j, time, LastStop)
    BY <1>2 DEF OutputsInTime, c
  <2>2. CASE Left[j] = 0
    <3>1. InTime(c, wait, onward, j + 1, time, LastStop)
      BY <1>2, <1>4, <2>1, <2>2, HandOnInTime
    <3> HIDE DEF onward, u, x
    <3>2. QED
      BY <1>2, <1>3, <1>4, <2>2, <3>1 DEF OutputsInTime, c
  <2>3. CASE Left[j] # 0
    <3>1. InTime(c, WaitAgain(c, wait, j, 0), counted, 0, time, LastStop)
      BY <1>2, <1>4, <2>1, <2>3, AbortInTime
    <3> HIDE DEF counted, u, x
    <3>2. QED
      BY <1>2, <1>3, <1>4, <2>3, <3>1 DEF OutputsInTime, c
  <2>4. QED
    BY <2>2, <2>3
<1>8. QED
  BY <1>2, <1>5, <1>6, <1>7 DEF ChainInvariant

\* OperatorFails and InvokeEnds.
LEMMA StopChain ==
  ASSUME ChainInvariant, OperatorFails \/ InvokeEnds
  PROVE  ChainInvariant'
<1> DEFINE c == Chain
           j == layer
           e == [at |-> time, from |-> value]
<1>0. /\ layer # 0 /\ layer' = 0 /\ value' = {}
      /\ UNCHANGED <<model, cyclesMax, cyclesUntilRun, window, time>>
      /\ OperatorFails => failedAt' = time /\ UNCHANGED delivered
      /\ InvokeEnds => layer = Len(model) + 1 /\ delivered' = e /\ UNCHANGED failedAt
  <2>1. CASE OperatorFails
    <3>1. layer # 0
      BY <2>1 DEF OperatorFails, ChainInvariant, ChainTypes
    <3>2. QED
      BY <2>1, <3>1 DEF OperatorFails, InvokeEnds
  <2>2. CASE InvokeEnds
    BY <2>2 DEF OperatorFails, InvokeEnds, ChainInvariant, ChainTypes
  <2>3. QED
    BY <2>1, <2>2
<1>1. Prepared
  BY <1>0 DEF ChainInvariant, ChainTypes, AtRest
<1>2. /\ ChainTypes /\ c' = c /\ Prepared' /\ IsChain(c) /\ OutputsInTime
      /\ (failedAt = 0 => OutputsInStep)
      /\ c.layers = Len(model) /\ Len(model) \in Nat /\ time \in Nat /\ time # 0
      /\ LastStop \in 0..time
  BY <1>0, <1>1, PreparedChain
<1>3. j \in 1..(c.layers + 1)
  BY <1>0, <1>2 DEF ChainTypes
<1>4. Left' = Left
  BY <1>0 DEF Left
<1>5. delivered.at \in 0..time /\ failedAt \in 0..time
  BY <1>2 DEF ChainTypes
<1>6. delivered'.at \in 0..time /\ failedAt' \in 0..time /\ LastStop' = time
  <2>1. CASE OperatorFails
    BY <1>0, <1>2, <1>5, <2>1 DEF LastStop
  <2>2. CASE InvokeEnds
    <3>1. delivered'.at = time /\ failedAt' = failedAt
      BY <1>0, <2>2
    <3>2. QED
      BY <1>2, <1>5, <3>1 DEF LastStop
  <2>3. QED
    BY <2>1, <2>2
<1>7. ChainTypes'
  <2>1. 0 \in 0..(Len(model) + 1) /\ {} \in SUBSET Nat
    BY <1>2
  <2>2. QED
    BY <1>0, <1>1, <1>2, <1>6, <2>1 DEF ChainTypes
<1> HIDE DEF c
<1>8. ASSUME failedAt' = 0
      PROVE  OutputsInStep'
  <2>1. InvokeEnds /\ j = c.layers + 1 /\ delivered' = e /\ failedAt = 0
    BY <1>0, <1>2, <1>8
  <2>2. PICK h : InStep(c, h, Left, j, time, window, value, delivered)
    BY <1>2, <2>1 DEF OutputsInStep, c
  <2>3. InStep(c, h, Left, 0, time, window, {}, e)
    BY <1>2, <2>1, <2>2, EndInStep
  <2> HIDE DEF e
  <2>4. QED
    BY <1>0, <1>2, <1>4, <2>1, <2>3 DEF OutputsInStep, c
<1>9. OutputsInTime'
  <2>1. PICK wait : InTime(c, wait, Left, j, time, LastStop)
    BY <1>2 DEF OutputsInTime, c
  <2>2. InTime(c, WaitAgain(c, wait, j, c.period[j - 1]), Left, 0, time, time)
    BY <1>2, <1>3, <2>1, StopInTime
  <2>3. QED
    BY <1>0, <1>2, <1>4, <1>6, <2>2 DEF OutputsInTime, c
<1>10. QED
  BY <1>2, <1>7, <1>8, <1>9 DEF ChainInvariant

\* MicroInterpreter::Reset.
LEMMA ResetChain ==
  ASSUME ChainInvariant, Reset
  PROVE  ChainInvariant'
<1>1. /\ Prepared /\ layer = 0 /\ cyclesUntilRun' = cyclesMax /\ window' = NoWindow /\ time' = 0
      /\ failedAt' = 0 /\ delivered' = [at |-> 0, from |-> {}]
      /\ UNCHANGED <<model, cyclesMax, layer, value>>
  BY DEF Reset
<1>2. ChainTypes /\ Prepared' /\ Len(model) \in Nat /\ MaxTime \in Nat
  BY <1>1, PreparedChain
<1>3. NoWindow' = NoWindow
  BY <1>1 DEF NoWindow, Layers
<1>4. /\ DOMAIN window' = 1..Len(model)
      /\ \A i \in 1..Len(model) : window'[i] \in Seq(SUBSET Nat) /\ window'[i] # <<>>
  BY <1>1, <1>2, NoWindowTyped DEF ChainTypes
<1>5. delivered'.at = 0
  BY <1>1
<1>6. ChainTypes'
  BY <1>1, <1>2, <1>4, <1>5 DEF ChainTypes
<1>7. (ChainTypes /\ Prepared /\ AtRest => OutputsInStep /\ OutputsInTime)'
  BY RestHolds, PTL
<1>8. AtRest'
  BY <1>1, <1>2, <1>3 DEF ChainTypes, AtRest
<1>9. QED
  BY <1>2, <1>6, <1>7, <1>8 DEF ChainInvariant

\* A step that changes nothing.
LEMMA StutterChain ==
  ASSUME ChainInvariant, UNCHANGED vars
  PROVE  ChainInvariant'
<1>1. /\ UNCHANGED <<model, cyclesMax, cyclesUntilRun, window, layer, value, time, delivered, failedAt>>
  BY DEF vars
<1>2. Chain' = Chain /\ (Prepared <=> Prepared')
  BY <1>1, ChainStays
<1>3. Left' = Left /\ LastStop' = LastStop
  BY <1>1 DEF Left, LastStop
<1>4. NoWindow' = NoWindow
  BY <1>1 DEF NoWindow, Layers
<1>5. AtRest => AtRest'
  BY <1>1, <1>4 DEF AtRest
<1>6. ChainTypes'
  BY <1>1, <1>2, <1>5 DEF ChainInvariant, ChainTypes
<1>7. OutputsInStep => OutputsInStep'
  BY <1>1, <1>2, <1>3 DEF OutputsInStep
<1>8. OutputsInTime => OutputsInTime'
  BY <1>1, <1>2, <1>3 DEF OutputsInTime
<1>9. QED
  BY <1>1, <1>2, <1>6, <1>7, <1>8 DEF ChainInvariant

\* The invariant holds of every chain: its layers are in step with one another after aborts in the
\* middle of an invocation, and none waits longer than its period after a failure.
THEOREM ChainHolds == Spec => []ChainInvariant
<1>1. ChainInvariant /\ [Next]_vars => ChainInvariant'
  <2> SUFFICES ASSUME ChainInvariant, [Next]_vars PROVE ChainInvariant'
    OBVIOUS
  <2>1. CASE CircularBufferPrepare \/ PrepareFails
    BY <2>1, PrepareChain
  <2>2. CASE Invoke
    BY <2>2, InvokeChain
  <2>3. CASE CircularBufferEval
    BY <2>3, EvalChain
  <2>4. CASE OperatorFails \/ InvokeEnds
    BY <2>4, StopChain
  <2>5. CASE Reset
    BY <2>5, ResetChain
  <2>6. CASE UNCHANGED vars
    BY <2>6, StutterChain
  <2>7. QED
    BY <2>1, <2>2, <2>3, <2>4, <2>5, <2>6 DEF Next
<1>2. QED
  BY InitChain, <1>1, PTL DEF Spec

\* What the invariant says between invocations.
LEMMA ChainExact == ChainInvariant => OutputsExact
<1> SUFFICES ASSUME ChainInvariant, Prepared, layer = 0, failedAt = 0
             PROVE  LET due == (time \div Period(Len(model))) * Period(Len(model)) IN
                    delivered = [at |-> due, from |-> IF due = 0 THEN {} ELSE Field[Len(model)][due]]
  BY DEF OutputsExact
<1> DEFINE c == Chain
           p == c.period[c.layers]
           due == (time \div p) * p
<1>1. ChainTypes /\ OutputsInStep
  BY DEF ChainInvariant
<1>2. IsChain(c) /\ c.layers = Len(model) /\ c.period = Periods /\ c.field = Field
  BY <1>1, ChainFacts
<1>3. PICK h : InStep(c, h, Left, layer, time, window, value, delivered)
  BY <1>1 DEF OutputsInStep
<1>4. p = Period(Len(model))
  BY <1>2 DEF Period
<1> HIDE DEF c
<1>5. delivered = [at |-> due, from |-> IF due = 0 THEN {} ELSE c.field[c.layers][due]]
  <2> HIDE DEF p, due
  <2>1. p = c.period[c.layers] /\ due = (time \div p) * p
    BY DEF p, due
  <2>2. QED
    BY <1>2, <1>3, <2>1, DeliveredIs
<1> HIDE DEF p
<1>6. QED
  BY <1>2, <1>4, <1>5

\* What the invariant says of the time since the last output or failure.
LEMMA ChainRecovers == ChainInvariant => RecoversWithinPeriod
<1> SUFFICES ASSUME ChainInvariant, Prepared, layer = 0
             PROVE  time - Max({delivered.at, failedAt}) < Period(Len(model))
  BY DEF RecoversWithinPeriod
<1>1. ChainTypes /\ OutputsInTime
  BY DEF ChainInvariant
<1>2. IsChain(Chain) /\ Chain.layers = Len(model) /\ Chain.period = Periods /\ MaxTime \in Nat
  BY <1>1, ChainFacts
<1>3. time \in Nat /\ delivered.at \in Nat /\ failedAt \in Nat
  BY <1>1, <1>2 DEF ChainTypes
<1>4. LastStop \in Nat /\ LastStop \in {delivered.at, failedAt}
      /\ LastStop >= delivered.at /\ LastStop >= failedAt
  BY <1>3 DEF LastStop
<1>5. Max({delivered.at, failedAt}) = LastStop
  <2> DEFINE a == delivered.at
             b == failedAt
             m == Max({a, b})
  <2>1. \E x \in {a, b} : \A y \in {a, b} : x >= y
    BY <1>4
  <2>2. m \in {a, b} /\ \A y \in {a, b} : m >= y
    BY <2>1 DEF Max
  <2> HIDE DEF m
  <2>3. m = LastStop
    BY <1>3, <1>4, <2>2
  <2>4. QED
    BY <2>3 DEF m
<1>6. PICK wait : InTime(Chain, wait, Left, layer, time, LastStop)
  BY <1>1 DEF OutputsInTime
<1>7. time - LastStop < Chain.period[Chain.layers]
  BY <1>2, <1>3, <1>4, <1>6, WithinPeriod
<1>8. QED
  BY <1>2, <1>5, <1>7 DEF Period

\* A streaming model without failures delivers exactly in every Period-th invocation after a
\* reset, computed from the inputs in its field: whatever its layers' periods and windows are,
\* CircularBufferEval's counters and windows stay in step with one another.
THEOREM OutputsAreExact == Spec => []OutputsExact
BY ChainHolds, ChainExact, PTL

\* Within one Period of the last failure or output there is an output again, wherever the
\* failures ended their invocations.
THEOREM OutputsRecover == Spec => []RecoversWithinPeriod
BY ChainHolds, ChainRecovers, PTL

=============================================================================
