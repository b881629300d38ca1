------------------------ MODULE SessionLedger_proofs ------------------------
(***************************************************************************)
(* Proofs about SessionLedger for every value of its constants: its types, *)
(* that lots are of one side, that the cash flow is what the trades and    *)
(* the lots say, and that the lots implement a first-in first-out          *)
(* inventory of units.  The value of lots is a sum and their units are a   *)
(* concatenation: what closing or dropping a lot does to either is shown   *)
(* by induction on the number of lots (LeastOf).                           *)
(***************************************************************************)
EXTENDS SessionLedger, SequenceTheorems, WellFoundedInduction, TLAPS

(* While a fill is being paired or logged it has a price. *)
FillHasPrice == pc \in {"logging", "pairing"} => fill.price \in Prices

(* The invariant: types, the price of a fill in progress, one side. *)
LedgerInv == TypeOK /\ FillHasPrice /\ OneSided

LEMMA CreditType ==
  ASSUME NEW c \in Nat, NEW x \in Int
  PROVE  Credit(c, x) \in Nat
  BY DEF Credit

LEMMA RateType == Rate \in Nat /\ Scale \in Nat
  BY ConstantsAssumption

LEMMA PriceType == Prices \subseteq Nat
  BY ConstantsAssumption

FillType == [side : {"BUY", "SELL"}, price : Prices \cup {0}, left : Nat]

LEMMA FillParts ==
  ASSUME NEW f \in FillType
  PROVE  f.price \in Nat /\ f.left \in Nat
<1>1. f.price \in Prices \cup {0} /\ f.left \in Nat
  BY DEF FillType
<1>2. Prices \cup {0} \subseteq Nat
  BY PriceType
<1> QED
  BY <1>1, <1>2

LEMMA TailPart ==
  ASSUME NEW lots \in Seq(Lot), NEW k \in 1..Len(lots) + 1
  PROVE  SubSeq(lots, k, Len(lots)) \in Seq(Lot)
  BY SubSeqProperties

LEMMA FreshType ==
  ASSUME NEW lots \in Seq(Lot), NEW kept \in Fresh(lots)
  PROVE  kept \in Seq(Lot) /\ (lots = <<>> => kept = <<>>)
<1>1. CASE kept = lots
  BY <1>1
<1>2. CASE \E k \in 1..Len(lots) + 1 : kept = SubSeq(lots, k, Len(lots))
  <2>1. PICK k \in 1..Len(lots) + 1 : kept = SubSeq(lots, k, Len(lots))
    BY <1>2
  <2>2. kept \in Seq(Lot)
    BY <2>1, TailPart
  <2>3. ASSUME lots = <<>> PROVE kept = <<>>
    <3>1. Len(lots) = 0 /\ k = 1
      BY <2>3
    <3> QED
      BY <2>1, <3>1, SubSeqProperties, EmptySeq
  <2> QED
    BY <2>2, <2>3
<1> QED
  BY <1>1, <1>2 DEF Fresh

LEMMA TakenType ==
  ASSUME NEW lots \in Seq(Lot), NEW i \in 1..Len(lots), NEW m \in Nat \ {0},
         m <= lots[i].amount
  PROVE  Taken(lots, i, m) \in Seq(Lot)
<1>1. lots[i] \in Lot
  BY ElementOfSeq
<1>2. CASE lots[i].amount = m
  <2>1. SubSeq(lots, 1, i - 1) \in Seq(Lot)
    BY SubSeqProperties
  <2>2. SubSeq(lots, i + 1, Len(lots)) \in Seq(Lot)
    BY TailPart
  <2>3. Without(lots, i) \in Seq(Lot)
    BY <2>1, <2>2, ConcatProperties DEF Without
  <2> QED
    BY <1>2, <2>3 DEF Taken
<1>3. CASE lots[i].amount # m
  <2>1. [lots[i] EXCEPT !.amount = @ - m] \in Lot
    BY <1>1, <1>3 DEF Lot
  <2>2. [lots EXCEPT ![i].amount = @ - m] \in Seq(Lot)
    BY <2>1, ExceptSeq
  <2> QED
    BY <1>3, <2>2 DEF Taken
<1> QED
  BY <1>2, <1>3

-----------------------------------------------------------------------------
(* The value of lots, which is a sum *)

LEMMA LeastOf ==
  ASSUME NEW T \in SUBSET Nat, T # {}
  PROVE  \E m \in T : \A n \in T : m <= n
<1> DEFINE R == {p \in Nat \X Nat : p[1] < p[2]}
<1>1. OpToRel(<, Nat) = R
  BY DEF OpToRel
<1>2. IsWellFoundedOn(R, Nat)
  BY <1>1, NatLessThanWellFounded
<1>3. PICK x \in T : \A y \in T : ~ (<<y, x>> \in R)
  BY <1>2, WFMin, Zenon
<1>4. ASSUME NEW y \in T PROVE x <= y
  <2>1. ~(<<y, x>> \in R)
    BY <1>3
  <2>2. y \in Nat /\ x \in Nat
    OBVIOUS
  <2>3. ~(y < x)
    BY <2>1, <2>2
  <2> QED
    BY <2>2, <2>3
<1> QED
  BY <1>4

LEMMA LotWorth ==
  ASSUME NEW x \in Lot
  PROVE  x.price \in Nat /\ x.amount \in Nat /\ x.price * x.amount \in Nat
<1>1. x.price \in Nat /\ x.amount \in Nat
  BY ConstantsAssumption DEF Lot
<1> QED
  BY <1>1

(* f holds the values of the first 0, 1, ..., n lots *)
Sums(f, lots, n) ==
    f = [i \in 0..n |-> IF i = 0 THEN 0 ELSE f[i - 1] + lots[i].price * lots[i].amount]

LEMMA SumsExist ==
  ASSUME NEW lots \in Seq(Lot), NEW n \in 0..Len(lots)
  PROVE  \E f : Sums(f, lots, n)
<1> DEFINE Bad == {k \in 0..Len(lots) : ~\E f : Sums(f, lots, k)}
<1> SUFFICES ASSUME Bad # {} PROVE FALSE
  OBVIOUS
<1>0. Bad \in SUBSET Nat
  OBVIOUS
<1>1. PICK k \in Bad : \A j \in Bad : k <= j
  <2> HIDE DEF Bad
  <2> QED
    BY <1>0, LeastOf
<1>2. k \in 0..Len(lots) /\ ~\E f : Sums(f, lots, k)
  BY <1>1
<1>3. CASE k = 0
  <2>1. Sums([i \in 0..0 |-> 0], lots, 0)
    BY DEF Sums
  <2> QED
    BY <1>2, <1>3, <2>1
<1>4. CASE k # 0
  <2>1. k - 1 \in 0..Len(lots) /\ ~(k <= k - 1)
    BY <1>2, <1>4
  <2>2. PICK f : Sums(f, lots, k - 1)
    BY <1>1, <2>1
  <2> DEFINE v == lots[k].price * lots[k].amount
             g == [i \in 0..k |-> IF i = k THEN f[k - 1] + v ELSE f[i]]
  <2>3. \A i \in 0..k - 1 : f[i] = IF i = 0 THEN 0 ELSE f[i - 1] + lots[i].price * lots[i].amount
    BY <2>2 DEF Sums
  <2>4. ASSUME NEW i \in 0..k
        PROVE  g[i] = IF i = 0 THEN 0 ELSE g[i - 1] + lots[i].price * lots[i].amount
    <3>1. CASE i = k
      <4>1. i # 0 /\ i - 1 \in 0..k /\ i - 1 # k
        BY <3>1, <1>4, <1>2
      <4>2. g[i - 1] = f[k - 1] /\ g[i] = f[k - 1] + v
        BY <4>1, <3>1
      <4> QED
        BY <4>1, <4>2, <3>1
    <3>2. CASE i # k
      <4>1. i \in 0..k - 1 /\ g[i] = f[i]
        BY <3>2, <1>2
      <4>2. CASE i # 0
        <5>1. i - 1 \in 0..k /\ i - 1 # k
          BY <4>1, <4>2, <1>2
        <5>2. g[i - 1] = f[i - 1]
          BY <5>1
        <5> QED
          BY <4>1, <4>2, <5>2, <2>3
      <4> QED
        BY <4>1, <4>2, <2>3
    <3> QED
      BY <3>1, <3>2
  <2>5. g = [i \in 0..k |-> g[i]]
    OBVIOUS
  <2> HIDE DEF g
  <2>6. Sums(g, lots, k)
    BY <2>4, <2>5 DEF Sums
  <2> QED
    BY <1>2, <2>6
<1> QED
  BY <1>3, <1>4

LEMMA ValueIs ==
  ASSUME NEW lots \in Seq(Lot)
  PROVE  \E f : Sums(f, lots, Len(lots)) /\ Value(lots) = f[Len(lots)]
<1> DEFINE f == CHOOSE h : Sums(h, lots, Len(lots))
<1>1. Sums(f, lots, Len(lots))
  BY SumsExist
<1>2. Value(lots) = f[Len(lots)]
  BY DEF Value, Sums
<1> QED
  BY <1>1, <1>2

LEMMA SumsInt ==
  ASSUME NEW lots \in Seq(Lot), NEW f, Sums(f, lots, Len(lots)), NEW n \in 0..Len(lots)
  PROVE  f[n] \in Int
<1> DEFINE Bad == {i \in 0..Len(lots) : f[i] \notin Int}
<1> SUFFICES ASSUME Bad # {} PROVE FALSE
  OBVIOUS
<1>0. Bad \in SUBSET Nat
  OBVIOUS
<1>1. PICK i \in Bad : \A j \in Bad : i <= j
  <2> HIDE DEF Bad
  <2> QED
    BY <1>0, LeastOf
<1>2. i \in 0..Len(lots) /\ f[i] \notin Int
  BY <1>1
<1>3. f[i] = IF i = 0 THEN 0 ELSE f[i - 1] + lots[i].price * lots[i].amount
  BY <1>2 DEF Sums
<1>4. i # 0
  BY <1>2, <1>3
<1>5. f[i - 1] \in Int
  <2>1. i - 1 \in 0..Len(lots) /\ ~(i <= i - 1)
    BY <1>2, <1>4
  <2> QED
    BY <2>1, <1>1
<1>6. lots[i] \in Lot
  BY <1>2, <1>4, ElementOfSeq
<1>7. lots[i].price * lots[i].amount \in Int
  BY <1>6, LotWorth
<1> QED
  BY <1>2, <1>3, <1>4, <1>5, <1>7

LEMMA SameStep ==
  ASSUME NEW u \in Int, NEW v \in Int, NEW p \in Int, NEW q \in Int, NEW x \in Int,
         u - p = v - q
  PROVE  (u + x) - p = (v + x) - q
  OBVIOUS

(* beyond place s the lots k are those of l, a places further on *)
Continues(k, l, s, a) == \A i \in s + 1..Len(k) : k[i] = l[i + a]

LEMMA SumsShift ==
  ASSUME NEW l \in Seq(Lot), NEW k \in Seq(Lot), NEW f, NEW g,
         Sums(f, l, Len(l)), Sums(g, k, Len(k)),
         NEW a \in Nat, Len(k) + a <= Len(l), NEW s \in 0..Len(k),
         Continues(k, l, s, a)
  PROVE  \A i \in s..Len(k) : g[i] - g[s] = f[i + a] - f[s + a]
<1> DEFINE Bad == {i \in s..Len(k) : g[i] - g[s] # f[i + a] - f[s + a]}
<1> SUFFICES ASSUME Bad # {} PROVE FALSE
  OBVIOUS
<1>0. Bad \in SUBSET Nat
  OBVIOUS
<1>1. PICK i \in Bad : \A j \in Bad : i <= j
  <2> HIDE DEF Bad
  <2> QED
    BY <1>0, LeastOf
<1>2. i \in s..Len(k) /\ g[i] - g[s] # f[i + a] - f[s + a]
  BY <1>1
<1>3. i # s
  <2>1. CASE i = s
    <3>1. f[s + a] \in Int /\ g[s] \in Int
      BY SumsInt
    <3> QED
      BY <1>2, <2>1, <3>1
  <2> QED
    BY <2>1
<1>4. i - 1 \in s..Len(k) /\ ~(i <= i - 1) /\ i \in 1..Len(k) /\ i + a \in 1..Len(l)
      /\ i + a - 1 \in 0..Len(l) /\ s + a \in 0..Len(l) /\ i - 1 \in 0..Len(k)
      /\ i \in s + 1..Len(k) /\ i - 1 + a = i + a - 1
  BY <1>2, <1>3
<1>5. g[i - 1] - g[s] = f[i + a - 1] - f[s + a]
  BY <1>1, <1>4
<1>6. f[s + a] \in Int /\ g[s] \in Int /\ f[i + a - 1] \in Int /\ g[i - 1] \in Int
  BY <1>4, SumsInt
<1>7. k[i] = l[i + a] /\ k[i] \in Lot
  BY <1>4, ElementOfSeq DEF Continues
<1>8. g[i] = g[i - 1] + k[i].price * k[i].amount
  <2>1. i \in 0..Len(k) /\ i # 0
    BY <1>4
  <2> QED
    BY <2>1 DEF Sums
<1>9. f[i + a] = f[i + a - 1] + l[i + a].price * l[i + a].amount
  <2> DEFINE j == i + a
  <2>1. j \in 0..Len(l) /\ j # 0
    BY <1>4
  <2> HIDE DEF j
  <2>2. f[j] = f[j - 1] + l[j].price * l[j].amount
    BY <2>1 DEF Sums
  <2> QED
    BY <2>2 DEF j
<1>10. k[i].price * k[i].amount \in Int
  <2>1. k[i].price * k[i].amount \in Nat
    BY <1>7, LotWorth
  <2> QED
    BY <2>1
<1>11. g[i] - g[s] = f[i + a] - f[s + a]
  <2> DEFINE x == k[i].price * k[i].amount
  <2>0. x \in Int
    BY <1>10
  <2> HIDE DEF x
  <2>1. (g[i - 1] + x) - g[s] = (f[i + a - 1] + x) - f[s + a]
    <3>1. g[i - 1] \in Int /\ f[i + a - 1] \in Int /\ g[s] \in Int /\ f[s + a] \in Int
      BY <1>6
    <3> DEFINE u == g[i - 1]
               v == f[i + a - 1]
               p == g[s]
               q == f[s + a]
    <3>2. u - p = v - q /\ u \in Int /\ v \in Int /\ p \in Int /\ q \in Int
      BY <1>5, <3>1
    <3> HIDE DEF u, v, p, q
    <3>3. (u + x) - p = (v + x) - q
      BY <2>0, <3>2, SameStep
    <3> QED
      BY <3>3 DEF u, v, p, q
  <2> QED
    BY <2>1, <1>7, <1>8, <1>9 DEF x
<1> QED
  BY <1>2, <1>11


LEMMA ValueInt ==
  ASSUME NEW lots \in Seq(Lot)
  PROVE  Value(lots) \in Int
<1>1. PICK f : Sums(f, lots, Len(lots)) /\ Value(lots) = f[Len(lots)]
  BY ValueIs
<1>2. Len(lots) \in 0..Len(lots)
  OBVIOUS
<1> QED
  BY <1>1, <1>2, SumsInt

LEMMA ValueOfNone == Value(<<>>) = 0
<1>1. <<>> \in Seq(Lot) /\ Len(<<>>) = 0
  BY EmptySeq
<1>2. PICK f : Sums(f, <<>>, 0) /\ Value(<<>>) = f[0]
  BY <1>1, ValueIs
<1> QED
  BY <1>2 DEF Sums

LEMMA ValueAppend ==
  ASSUME NEW lots \in Seq(Lot), NEW x \in Lot
  PROVE  Value(Append(lots, x)) = Value(lots) + x.price * x.amount
<1> DEFINE l == Append(lots, x)
           n == Len(lots)
<1>1. /\ l \in Seq(Lot) /\ Len(l) = n + 1 /\ l[n + 1] = x
      /\ \A i \in 1..n : lots[i] = l[i]
  BY AppendProperties
<1>2. n \in Nat /\ n + 1 \in 0..n + 1 /\ n + 1 # 0 /\ 0 \in 0..n /\ n \in 0..n /\ n \in 0..n + 1
  OBVIOUS
<1> HIDE DEF l
<1>3. PICK f : Sums(f, l, Len(l)) /\ Value(l) = f[Len(l)]
  BY <1>1, ValueIs
<1>4. PICK g : Sums(g, lots, n) /\ Value(lots) = g[n]
  BY ValueIs
<1>5. f[n + 1] = f[n] + x.price * x.amount
  <2> DEFINE j == n + 1
  <2>1. j \in 0..j /\ j # 0 /\ Len(l) = j /\ j - 1 = n
    BY <1>1, <1>2
  <2> HIDE DEF j
  <2>2. f[j] = f[j - 1] + l[j].price * l[j].amount
    BY <2>1, <1>3 DEF Sums
  <2> QED
    BY <2>1, <2>2, <1>1 DEF j
<1>6. \A i \in 0..n : g[i] - g[0] = f[i + 0] - f[0 + 0]
  <2> DEFINE z == 0
  <2>1. z \in Nat /\ z \in 0..n /\ n + z <= Len(l)
    BY <1>1, <1>2
  <2>2. Continues(lots, l, z, z)
    BY <1>1 DEF Continues
  <2>3. Sums(g, lots, Len(lots)) /\ Sums(f, l, Len(l)) /\ l \in Seq(Lot)
    BY <1>1, <1>3, <1>4
  <2> HIDE DEF z
  <2>4. \A i \in z..n : g[i] - g[z] = f[i + z] - f[z + z]
    BY <2>1, <2>2, <2>3, SumsShift
  <2> QED
    BY <2>4 DEF z
<1>7. g[n] - g[0] = f[n] - f[0]
  <2>1. g[n] - g[0] = f[n + 0] - f[0 + 0]
    BY <1>2, <1>6
  <2> QED
    BY <2>1, <1>2
<1>8. g[0] = 0 /\ f[0] = 0
  BY <1>1, <1>2, <1>3, <1>4 DEF Sums
<1>9. g[n] \in Int /\ f[n] \in Int
  BY <1>1, <1>2, <1>3, <1>4, SumsInt
<1> QED
  BY <1>1, <1>3, <1>4, <1>5, <1>7, <1>8, <1>9 DEF l

(* the oldest lot is gone *)
LEMMA ValueFromSecond ==
  ASSUME NEW l \in Seq(Lot), NEW k \in Seq(Lot), Len(k) + 1 = Len(l),
         Continues(k, l, 0, 1)
  PROVE  Value(l) = Value(k) + l[1].price * l[1].amount
<1> DEFINE n == Len(k)
           v == l[1].price * l[1].amount
<1>1. n \in Nat /\ 0 \in 0..n /\ n \in 0..n /\ 1 \in 1..n + 1 /\ 1 \in 0..n + 1
      /\ n + 1 \in 0..n + 1 /\ 0 \in 0..n + 1
  OBVIOUS
<1>2. PICK f : Sums(f, l, Len(l)) /\ Value(l) = f[Len(l)]
  BY ValueIs
<1>3. PICK g : Sums(g, k, Len(k)) /\ Value(k) = g[Len(k)]
  BY ValueIs
<1>4. g[n] - g[0] = f[n + 1] - f[0 + 1]
  <2> DEFINE z == 0
             a == 1
  <2>1. z \in 0..Len(k) /\ a \in Nat /\ Len(k) + a <= Len(l)
    BY <1>1
  <2>2. Continues(k, l, z, a)
    OBVIOUS
  <2>3. Sums(f, l, Len(l)) /\ Sums(g, k, Len(k))
    BY <1>2, <1>3
  <2> HIDE DEF z, a
  <2>4. \A i \in z..n : g[i] - g[z] = f[i + a] - f[z + a]
    BY <2>1, <2>2, <2>3, SumsShift
  <2> QED
    BY <1>1, <2>4 DEF z, a
<1>5. l[1] \in Lot
  BY <1>1, ElementOfSeq
<1>6. v \in Int
  BY <1>5, LotWorth
<1>7. f[1] = v
  <2>1. f[0] = 0
    BY <1>1, <1>2 DEF Sums
  <2>2. f[1] = f[1 - 1] + l[1].price * l[1].amount
    BY <1>1, <1>2 DEF Sums
  <2> HIDE DEF v
  <2>3. f[1] = 0 + v
    BY <2>1, <2>2 DEF v
  <2> QED
    BY <2>3, <1>6
<1>8. g[0] = 0
  BY <1>1, <1>3 DEF Sums
<1>9. f[n + 1] \in Int /\ g[n] \in Int
  BY <1>1, <1>2, <1>3, SumsInt
<1> HIDE DEF v
<1> QED
  BY <1>2, <1>3, <1>4, <1>6, <1>7, <1>8, <1>9 DEF v

(* only the oldest lot differs *)
LEMMA ValueOfOther ==
  ASSUME NEW l \in Seq(Lot), NEW k \in Seq(Lot), Len(k) = Len(l), Len(l) # 0,
         Continues(k, l, 1, 0)
  PROVE  Value(l) - l[1].price * l[1].amount = Value(k) - k[1].price * k[1].amount
<1> DEFINE n == Len(k)
           u == l[1].price * l[1].amount
           v == k[1].price * k[1].amount
<1>1. n \in Nat /\ 1 \in 0..n /\ n \in 1..n /\ n \in 0..n /\ 1 \in 1..n /\ 0 \in 0..n
  OBVIOUS
<1>2. PICK f : Sums(f, l, Len(l)) /\ Value(l) = f[Len(l)]
  BY ValueIs
<1>3. PICK g : Sums(g, k, Len(k)) /\ Value(k) = g[Len(k)]
  BY ValueIs
<1>4. g[n] - g[1] = f[n + 0] - f[1 + 0]
  <2> DEFINE z == 1
             a == 0
  <2>1. z \in 0..Len(k) /\ a \in Nat /\ Len(k) + a <= Len(l)
    BY <1>1
  <2>2. Continues(k, l, z, a)
    OBVIOUS
  <2>3. Sums(f, l, Len(l)) /\ Sums(g, k, Len(k))
    BY <1>2, <1>3
  <2> HIDE DEF z, a
  <2>4. l \in Seq(Lot) /\ k \in Seq(Lot)
    OBVIOUS
  <2>5. \A i \in z..Len(k) : g[i] - g[z] = f[i + a] - f[z + a]
    BY ONLY <2>1, <2>2, <2>3, <2>4, SumsShift
  <2> QED
    BY <1>1, <2>5 DEF z, a
<1>5. l[1] \in Lot /\ k[1] \in Lot
  BY <1>1, ElementOfSeq
<1>6. u \in Int /\ v \in Int
  BY <1>5, LotWorth
<1>7. f[1] = u
  <2>1. f[0] = 0
    BY <1>1, <1>2 DEF Sums
  <2>2. f[1] = f[1 - 1] + l[1].price * l[1].amount
    BY <1>1, <1>2 DEF Sums
  <2> HIDE DEF u
  <2>3. f[1] = 0 + u
    BY <2>1, <2>2 DEF u
  <2> QED
    BY <2>3, <1>6
<1>8. g[1] = v
  <2>1. g[0] = 0
    BY <1>1, <1>3 DEF Sums
  <2>2. g[1] = g[1 - 1] + k[1].price * k[1].amount
    BY <1>1, <1>3 DEF Sums
  <2> HIDE DEF v
  <2>3. g[1] = 0 + v
    BY <2>1, <2>2 DEF v
  <2> QED
    BY <2>3, <1>6
<1>9. f[n] \in Int /\ g[n] \in Int
  BY <1>1, <1>2, <1>3, SumsInt
<1> HIDE DEF u, v
<1> QED
  BY <1>1, <1>2, <1>3, <1>4, <1>6, <1>7, <1>8, <1>9 DEF u, v

(* the oldest lot is closed whole *)
LEMMA OldestGone ==
  ASSUME NEW lots \in Seq(Lot), Len(lots) # 0, NEW m, lots[1].amount = m
  PROVE  Len(Taken(lots, 1, m)) + 1 = Len(lots) /\ Continues(Taken(lots, 1, m), lots, 0, 1)
<1> DEFINE n == Len(lots)
           k == Taken(lots, 1, m)
<1>1. n \in Nat /\ 1 \in 1..n
  OBVIOUS
<1>2. k = SubSeq(lots, 2, n)
  <2>1. k = SubSeq(lots, 1, 0) \o SubSeq(lots, 2, n)
    BY DEF Taken, Without
  <2>2. SubSeq(lots, 1, 0) = <<>>
    BY SubSeqEmpty
  <2> QED
    BY <2>1, <2>2, ConcatEmptySeq, SubSeqProperties
<1>3. \A i \in 2..n : lots[i] \in Lot
  BY <1>1, ElementOfSeq
<1>4. /\ Len(SubSeq(lots, 2, n)) = IF 2 <= n THEN n - 2 + 1 ELSE 0
      /\ \A i \in 1..n - 2 + 1 : SubSeq(lots, 2, n)[i] = lots[2 + i - 1]
  BY <1>1, <1>3, SubSeqProperties
<1>5. Len(k) = n - 1
  <2>1. Len(k) = IF 2 <= n THEN n - 2 + 1 ELSE 0
    BY <1>2, <1>4
  <2> HIDE DEF k, n
  <2>2. (IF 2 <= n THEN n - 2 + 1 ELSE 0) = n - 1
    BY <1>1
  <2> QED
    BY <2>1, <2>2
<1> HIDE DEF k
<1>6. ASSUME NEW i \in 1..Len(k) PROVE k[i] = lots[i + 1]
  <2>1. i \in 1..n - 2 + 1 /\ 2 + i - 1 = i + 1
    BY <1>1, <1>5
  <2>2. SubSeq(lots, 2, n)[i] = lots[2 + i - 1]
    BY <1>4, <2>1
  <2> QED
    BY <1>2, <2>1, <2>2
<1> QED
  BY <1>1, <1>5, <1>6 DEF Continues, k

(* a part of the oldest lot is closed *)
LEMMA OldestReduced ==
  ASSUME NEW lots \in Seq(Lot), Len(lots) # 0, NEW m, lots[1].amount # m
  PROVE  LET k == Taken(lots, 1, m)
         IN  /\ Len(k) = Len(lots) /\ Continues(k, lots, 1, 0)
             /\ k[1].price = lots[1].price /\ k[1].amount = lots[1].amount - m
<1> DEFINE n == Len(lots)
           k == Taken(lots, 1, m)
<1>1. n \in Nat /\ 1 \in 1..n
  OBVIOUS
<1>2. lots[1] \in Lot
  BY <1>1, ElementOfSeq
<1>3. k = [lots EXCEPT ![1].amount = @ - m]
  BY DEF Taken
<1>4. /\ Len(k) = n /\ k[1].price = lots[1].price /\ k[1].amount = lots[1].amount - m
      /\ \A i \in 2..n : k[i] = lots[i]
  BY <1>1, <1>2, <1>3 DEF Lot
<1> HIDE DEF k
<1> QED
  BY <1>4 DEF Continues, k

(* what the lots are worth when m units of the oldest are closed *)
LEMMA ValueTaken ==
  ASSUME NEW lots \in Seq(Lot), Len(lots) # 0, NEW m \in Nat \ {0}, m <= lots[1].amount
  PROVE  Value(Taken(lots, 1, m)) = Value(lots) - lots[1].price * m
<1> DEFINE n == Len(lots)
           k == Taken(lots, 1, m)
           u == lots[1].price * lots[1].amount
           v == lots[1].price * m
<1>1. n \in Nat /\ 1 \in 1..n
  OBVIOUS
<1>2. k \in Seq(Lot)
  BY <1>1, TakenType
<1>3. lots[1] \in Lot
  BY <1>1, ElementOfSeq
<1>4. lots[1].price \in Nat /\ lots[1].amount \in Nat
  BY <1>3, LotWorth
<1>5. u \in Int /\ v \in Int /\ Value(lots) \in Int /\ Value(k) \in Int
  BY <1>2, <1>4, ValueInt
<1>6. CASE lots[1].amount = m
  <2>1. Len(k) + 1 = n /\ Continues(k, lots, 0, 1)
    BY <1>6, OldestGone
  <2> HIDE DEF k
  <2>2. Value(lots) = Value(k) + u
    BY <1>2, <2>1, ValueFromSecond
  <2> HIDE DEF u, v
  <2>3. u = v
    BY <1>6 DEF u, v
  <2> QED
    BY <1>5, <2>2, <2>3 DEF v, k
<1>7. CASE lots[1].amount # m
  <2>1. /\ Len(k) = n /\ k[1].price = lots[1].price /\ k[1].amount = lots[1].amount - m
        /\ Continues(k, lots, 1, 0)
    BY <1>7, OldestReduced
  <2> HIDE DEF k
  <2>2. Value(lots) - u = Value(k) - k[1].price * k[1].amount
    BY <1>1, <1>2, <2>1, ValueOfOther
  <2>3. lots[1].price * (lots[1].amount - m) = u - v
    BY <1>4, SMTT(30)
  <2> HIDE DEF u, v
  <2>4. Value(lots) - u = Value(k) - (u - v)
    BY <2>1, <2>2, <2>3
  <2>5. Value(k) = Value(lots) - v
    BY <1>5, <2>4
  <2> QED
    BY <2>5 DEF v, k
<1> QED
  BY <1>6, <1>7

-----------------------------------------------------------------------------
LEMMA LedgerInit == Init => LedgerInv
<1> SUFFICES ASSUME Init PROVE LedgerInv
  OBVIOUS
<1>1. <<>> \in Seq(Lot) /\ <<>> \in Seq(Int)
  BY EmptySeq
<1>2. TypeOK
  BY <1>1, ConstantsAssumption DEF Init, TypeOK, NoFill
<1> QED
  BY <1>2 DEF Init, LedgerInv, FillHasPrice, OneSided

LEMMA HandleFillInv ==
  ASSUME LedgerInv, NEW s \in {"BUY", "SELL"}, NEW p \in Prices, NEW a \in Amounts,
         HandleFill(s, p, a)
  PROVE  LedgerInv'
<1>1. a \in Nat
  BY ConstantsAssumption
<1>2. fills' \in 0..MaxFills
  BY ConstantsAssumption DEF HandleFill, LedgerInv, TypeOK
<1> QED
  BY <1>1, <1>2 DEF HandleFill, LedgerInv, TypeOK, FillHasPrice, OneSided, session

LEMMA BookFillInv ==
  ASSUME LedgerInv, BookFill
  PROVE  LedgerInv'
<1>1. fill.price \in Nat /\ fill.left \in Nat
  BY FillParts DEF LedgerInv, TypeOK, FillType
<1>2. Notional \in Nat
  BY <1>1 DEF Notional
<1>3. CashFlow \in Int
  BY <1>2, RateType DEF CashFlow, Fee
<1> QED
  BY <1>3 DEF BookFill, LedgerInv, TypeOK, FillHasPrice, OneSided, history

LEMMA PairLotInv ==
  ASSUME LedgerInv, PairLot
  PROVE  LedgerInv'
<1> DEFINE i == Oldest(Closing)
           lot == Closing[i]
           m == Least(fill.left, lot.amount)
           gain == IF fill.side = "BUY" THEN (lot.price - fill.price) * m
                                        ELSE (fill.price - lot.price) * m
           pnl == gain * Scale - Rate * (lot.price + fill.price) * m
<1>1. Closing \in Seq(Lot) /\ i \in 1..Len(Closing)
  BY EmptySeq DEF LedgerInv, TypeOK, Closing, PairLot, Oldest
<1>2. lot \in Lot
  BY <1>1, ElementOfSeq
<1>3. fill.left \in Nat /\ fill.left > 0 /\ fill.price \in Nat
  BY FillParts DEF PairLot, LedgerInv, TypeOK, FillType
<1>4. lot.price \in Nat /\ lot.amount \in Nat \ {0}
  BY <1>2, PriceType DEF Lot
<1>5. m \in Nat \ {0} /\ m <= lot.amount /\ m <= fill.left
  BY <1>3, <1>4 DEF Least
<1>6. gain \in Int
  BY <1>3, <1>4, <1>5
<1>7. Rate * (lot.price + fill.price) * m \in Int
  <2>1. lot.price + fill.price \in Int
    BY <1>3, <1>4
  <2>2. Rate * (lot.price + fill.price) \in Int
    BY <2>1, RateType
  <2> QED
    BY <2>2, <1>5
<1>8. pnl \in Int
  BY <1>6, <1>7, RateType
<1>9. Taken(Closing, i, m) \in Seq(Lot)
  BY <1>1, <1>5, TakenType
<1>10. fill' = [fill EXCEPT !.left = @ - m] /\ trades' = Append(trades, pnl)
       /\ gross' = gross + gain /\ net' = net + pnl
  BY DEF PairLot
<1>11. trades' \in Seq(Int) /\ gross' \in Int /\ net' \in Int
  BY <1>6, <1>8, <1>10, AppendProperties, SMTT(30) DEF LedgerInv, TypeOK
<1>12. fill' \in [side : {"BUY", "SELL"}, price : Prices \cup {0}, left : Nat]
       /\ fill'.price = fill.price
  <2>1. fill \in FillType
    BY DEF LedgerInv, TypeOK, FillType
  <2>2. fill.left - m \in Nat
    BY <1>3, <1>5
  <2>3. [fill EXCEPT !.left = fill.left - m] \in FillType
    BY <2>1, <2>2 DEF FillType
  <2> QED
    BY <2>1, <2>3, <1>10 DEF FillType
<1>13. longs' \in Seq(Lot) /\ shorts' \in Seq(Lot) /\ OneSided'
  <2>1. CASE fill.side = "BUY"
    <3>1. shorts' = Taken(shorts, i, m) /\ longs' = longs /\ Closing = shorts /\ shorts # <<>>
      BY <2>1 DEF PairLot, Closing
    <3> QED
      BY <3>1, <1>9 DEF LedgerInv, TypeOK, OneSided
  <2>2. CASE fill.side # "BUY"
    <3>1. longs' = Taken(longs, i, m) /\ shorts' = shorts /\ Closing = longs /\ longs # <<>>
      BY <2>2 DEF PairLot, Closing
    <3> QED
      BY <3>1, <1>9 DEF LedgerInv, TypeOK, OneSided
  <2> QED
    BY <2>1, <2>2
<1>14. UNCHANGED <<active, cash, capital, pc, web, dropped, fills, stops, crashes>>
  BY DEF PairLot
<1> HIDE DEF i, lot, m, gain, pnl
<1> QED
  BY <1>11, <1>12, <1>13, <1>14 DEF LedgerInv, TypeOK, FillHasPrice

LEMMA OpenLotInv ==
  ASSUME LedgerInv, OpenLot
  PROVE  LedgerInv'
<1> DEFINE lot == [price |-> fill.price, amount |-> fill.left]
<1>1. ASSUME fill.left # 0 PROVE lot \in Lot
  BY <1>1 DEF OpenLot, LedgerInv, TypeOK, FillHasPrice, Lot
<1>2. longs' \in Seq(Lot) /\ shorts' \in Seq(Lot) /\ OneSided'
  <2>1. CASE fill.left = 0
    BY <2>1 DEF OpenLot, LedgerInv, TypeOK, OneSided
  <2>2. CASE fill.left # 0 /\ fill.side = "BUY"
    <3>1. longs' = Append(longs, lot) /\ shorts' = shorts /\ shorts = <<>>
      BY <2>2 DEF OpenLot, Closing
    <3> QED
      BY <1>1, <2>2, <3>1, AppendProperties DEF LedgerInv, TypeOK, OneSided
  <2>3. CASE fill.left # 0 /\ fill.side # "BUY"
    <3>1. shorts' = Append(shorts, lot) /\ longs' = longs /\ longs = <<>>
      BY <2>3 DEF OpenLot, Closing
    <3> QED
      BY <1>1, <2>3, <3>1, AppendProperties DEF LedgerInv, TypeOK, OneSided
  <2> QED
    BY <2>1, <2>2, <2>3
<1>3. fill' = NoFill /\ pc' = "reporting"
      /\ UNCHANGED <<active, cash, capital, trades, web, history>>
  BY DEF OpenLot
<1> HIDE DEF lot
<1> QED
  BY <1>2, <1>3 DEF LedgerInv, TypeOK, FillHasPrice, NoFill, history

LEMMA ReportTradeInv ==
  ASSUME LedgerInv, ReportTrade
  PROVE  LedgerInv'
<1>1. Head(trades) \in Int /\ Tail(trades) \in Seq(Int)
  BY HeadTailProperties DEF ReportTrade, LedgerInv, TypeOK
<1>2. capital' \in Nat
  BY <1>1, CreditType DEF ReportTrade, LedgerInv, TypeOK
<1> QED
  BY <1>1, <1>2 DEF ReportTrade, LedgerInv, TypeOK, FillHasPrice, OneSided, history

LEMMA CleanupType ==
  ASSUME LedgerInv, Cleanup
  PROVE  longs' \in Seq(Lot) /\ shorts' \in Seq(Lot) /\ OneSided'
  BY FreshType DEF LedgerInv, TypeOK, OneSided, Cleanup

LEMMA TickGoesOnInv ==
  ASSUME LedgerInv, TickGoesOn
  PROVE  LedgerInv'
<1>1. longs' \in Seq(Lot) /\ shorts' \in Seq(Lot) /\ OneSided'
  BY CleanupType DEF TickGoesOn, Ticking
<1> QED
  BY <1>1 DEF TickGoesOn, LedgerInv, TypeOK, FillHasPrice

LEMMA BankFlatInv ==
  ASSUME LedgerInv, NEW next \in {"resetting", "stopping"}, BankFlat(next),
         stops' \in 0..MaxStops
  PROVE  LedgerInv'
<1>1. longs' \in Seq(Lot) /\ shorts' \in Seq(Lot) /\ OneSided'
  BY CleanupType DEF BankFlat, Ticking
<1>2. capital' \in Nat
  BY CreditType DEF BankFlat, LedgerInv, TypeOK
<1> QED
  BY <1>1, <1>2 DEF BankFlat, LedgerInv, TypeOK, FillHasPrice

LEMMA StopsType ==
  ASSUME LedgerInv, stops < MaxStops, stops' = stops + 1
  PROVE  stops' \in 0..MaxStops
  BY ConstantsAssumption DEF LedgerInv, TypeOK

LEMMA WebStopInv ==
  ASSUME LedgerInv, WebStop
  PROVE  LedgerInv'
<1>1. capital' \in Nat
  BY CreditType DEF WebStop, Banked, LedgerInv, TypeOK
<1>2. stops' \in 0..MaxStops
  BY StopsType DEF WebStop
<1> QED
  BY <1>1, <1>2 DEF WebStop, LedgerInv, TypeOK, FillHasPrice, OneSided

LEMMA CrashInv ==
  ASSUME LedgerInv, Crash
  PROVE  LedgerInv'
<1>1. <<>> \in Seq(Lot) /\ <<>> \in Seq(Int)
  BY EmptySeq
<1>2. crashes' \in 0..MaxCrashes
  BY ConstantsAssumption DEF Crash, LedgerInv, TypeOK
<1> QED
  BY <1>1, <1>2 DEF Crash, LedgerInv, TypeOK, FillHasPrice, OneSided, NoFill

(* steps that change no lot and credit nothing *)
LEMMA OtherInv ==
  ASSUME LedgerInv,
         FillDone \/ ResetSession \/ LoopStopped \/ WebStopped \/ WebStart \/ UNCHANGED vars
  PROVE  LedgerInv'
<1>1. CASE ResetSession
  <2>1. <<>> \in Seq(Lot)
    BY EmptySeq
  <2>2. active' \in BOOLEAN
    BY <1>1, Zenon DEF ResetSession, LedgerInv, TypeOK
  <2> QED
    BY <1>1, <2>1, <2>2 DEF ResetSession, LedgerInv, TypeOK, FillHasPrice, OneSided
<1>2. CASE FillDone
  BY <1>2 DEF FillDone, LedgerInv, TypeOK, FillHasPrice, OneSided, session, history
<1>3. CASE LoopStopped
  BY <1>3 DEF LoopStopped, LedgerInv, TypeOK, FillHasPrice, OneSided, history
<1>4. CASE WebStopped
  BY <1>4 DEF WebStopped, LedgerInv, TypeOK, FillHasPrice, OneSided, history
<1>5. CASE WebStart
  BY <1>5 DEF WebStart, LedgerInv, TypeOK, FillHasPrice, OneSided, history
<1>6. CASE UNCHANGED vars
  BY <1>6 DEF vars, LedgerInv, TypeOK, FillHasPrice, OneSided, session, history
<1> QED
  BY <1>1, <1>2, <1>3, <1>4, <1>5, <1>6

LEMMA LedgerNext == LedgerInv /\ [Next]_vars => LedgerInv'
<1> SUFFICES ASSUME LedgerInv, [Next]_vars PROVE LedgerInv'
  OBVIOUS
<1>1. CASE \E s \in {"BUY", "SELL"}, p \in Prices, a \in Amounts : HandleFill(s, p, a)
  BY <1>1, HandleFillInv
<1>2. CASE TickReinvests
  BY <1>2, BankFlatInv DEF TickReinvests, LedgerInv, TypeOK
<1>3. CASE TickStops
  BY <1>3, BankFlatInv, StopsType DEF TickStops
<1> QED
  BY <1>1, <1>2, <1>3, BookFillInv, PairLotInv, OpenLotInv, ReportTradeInv, TickGoesOnInv,
     WebStopInv, CrashInv, OtherInv DEF Next

(* Every reachable state of the ledger is well typed: in particular the     *)
(* capital never becomes negative and no empty lot is kept (update_capital, *)
(* _pair_fill_into_closed_trades()).                                        *)
THEOREM TypeCorrect == Spec => []TypeOK
<1>1. LedgerInv => TypeOK
  BY DEF LedgerInv
<1> QED
  BY <1>1, LedgerInit, LedgerNext, PTL DEF Spec

(* Long and short lots never coexist, for any fills, write-offs, stops and  *)
(* crashes (_pair_fill_into_closed_trades(), _cleanup_stale_lots()).        *)
THEOREM LotsAreOneSided == Spec => []OneSided
<1>1. LedgerInv => OneSided
  BY DEF LedgerInv
<1> QED
  BY <1>1, LedgerInit, LedgerNext, PTL DEF Spec

-----------------------------------------------------------------------------
(* The cash flow *)

(* The ledger with its money: what was dropped is a whole number and the    *)
(* cash flow is what the trades, the lots and the write-offs say.           *)
CashInv == LedgerInv /\ dropped \in Int /\ CashFollowsTrades

(* the cash flow without the fee *)
Balance == gross + Value(shorts) - Value(longs) + dropped + Unpaired

LEMMA BalanceIs == CashFollowsTrades <=> cash = (Scale - Rate) * Balance
  BY DEF CashFollowsTrades, Balance

LEMMA NotionalType ==
  ASSUME LedgerInv
  PROVE  Notional \in Nat
<1>1. fill.price \in Nat /\ fill.left \in Nat
  BY FillParts DEF LedgerInv, TypeOK, FillType
<1> QED
  BY <1>1 DEF Notional

LEMMA BalanceType ==
  ASSUME LedgerInv, dropped \in Int
  PROVE  /\ Balance \in Int /\ Unpaired \in Int /\ gross \in Int
         /\ Value(longs) \in Int /\ Value(shorts) \in Int
<1>1. Unpaired \in Int
  BY NotionalType DEF Unpaired
<1>2. Value(longs) \in Int /\ Value(shorts) \in Int /\ gross \in Int
  BY ValueInt DEF LedgerInv, TypeOK
<1> QED
  BY <1>1, <1>2 DEF Balance

LEMMA CashInit == Init => dropped \in Int /\ CashFollowsTrades
<1> SUFFICES ASSUME Init PROVE dropped \in Int /\ CashFollowsTrades
  OBVIOUS
<1>1. Value(longs) = 0 /\ Value(shorts) = 0
  BY ValueOfNone DEF Init
<1>2. Unpaired = 0 /\ gross = 0 /\ dropped = 0 /\ cash = 0
  BY DEF Init, Unpaired
<1>3. (Scale - Rate) * 0 = 0
  BY RateType
<1> QED
  BY <1>1, <1>2, <1>3 DEF CashFollowsTrades

LEMMA BookFillCash ==
  ASSUME CashInv, BookFill
  PROVE  dropped' \in Int /\ CashFollowsTrades'
<1> DEFINE b == Balance
           n == Notional
           r == Scale - Rate
<1>1. LedgerInv /\ dropped \in Int /\ cash = r * b
  BY BalanceIs DEF CashInv
<1>2. b \in Int /\ n \in Int /\ r \in Int
  BY <1>1, BalanceType, NotionalType, RateType
<1>3. Unpaired = 0 /\ Balance' = b + Unpaired'
  <2>1. Unpaired = 0
    BY DEF BookFill, Unpaired
  <2>2. UNCHANGED <<gross, dropped, longs, shorts>>
    BY DEF BookFill, history
  <2>3. Unpaired' \in Int
    BY <1>2 DEF BookFill, Unpaired, Notional
  <2> QED
    BY <1>1, <2>1, <2>2, <2>3, BalanceType DEF Balance
<1>4. Unpaired' = IF fill.side = "SELL" THEN n ELSE -n
  BY DEF BookFill, Unpaired, Notional
<1>5. cash' = r * b + (IF fill.side = "SELL" THEN n * Scale - n * Rate
                                              ELSE -(n * Scale - n * Rate))
  BY <1>1 DEF BookFill, CashFlow, Fee
<1> HIDE DEF b, n
<1>6. n * Scale - n * Rate = r * n
  BY <1>2, RateType
<1>7. cash' = r * (b + Unpaired')
  <2>1. r * (b + n) = r * b + r * n /\ r * (b + (-n)) = r * b + (-(r * n))
    BY <1>2
  <2> HIDE DEF r
  <2> QED
    BY <1>2, <1>4, <1>5, <1>6, <2>1
<1>8. cash' = r * Balance'
  BY <1>3, <1>7
<1>9. dropped' \in Int
  BY <1>1 DEF BookFill, history
<1> QED
  BY <1>8, <1>9 DEF CashFollowsTrades, Balance, r

LEMMA PairLotCash ==
  ASSUME CashInv, PairLot
  PROVE  dropped' \in Int /\ CashFollowsTrades'
<1> DEFINE i == Oldest(Closing)
           lot == Closing[i]
           m == Least(fill.left, lot.amount)
           gain == IF fill.side = "BUY" THEN (lot.price - fill.price) * m
                                        ELSE (fill.price - lot.price) * m
<1>1. LedgerInv /\ dropped \in Int
  BY DEF CashInv
<1>2. Closing \in Seq(Lot) /\ Len(Closing) # 0 /\ i = 1 /\ i \in 1..Len(Closing)
  BY EmptySeq DEF LedgerInv, TypeOK, Closing, PairLot, Oldest, CashInv
<1>3. lot \in Lot
  BY <1>2, ElementOfSeq
<1>4. fill.left \in Nat /\ fill.left > 0 /\ fill.price \in Nat
  BY <1>1, FillParts DEF PairLot, LedgerInv, TypeOK, FillType
<1>5. lot.price \in Nat /\ lot.amount \in Nat \ {0}
  BY <1>3, PriceType DEF Lot
<1>6. m \in Nat \ {0} /\ m <= lot.amount /\ m <= fill.left
  BY <1>4, <1>5 DEF Least
<1>7. Value(Taken(Closing, i, m)) = Value(Closing) - lot.price * m
  BY <1>2, <1>6, ValueTaken
<1>8. fill' = [fill EXCEPT !.left = @ - m] /\ gross' = gross + gain
      /\ UNCHANGED <<cash, dropped, pc>> /\ pc = "pairing"
  BY DEF PairLot
<1>9. fill'.price = fill.price /\ fill'.left = fill.left - m /\ fill'.side = fill.side
  BY <1>1, <1>8 DEF LedgerInv, TypeOK
<1> DEFINE x == lot.price * m
           y == fill.price * m
           n == Notional
<1>10. x \in Int /\ y \in Int /\ n \in Int
  BY <1>4, <1>5, <1>6, <1>1, NotionalType
<1>11. Notional' = n - y
  <2>1. fill.price * (fill.left - m) = fill.price * fill.left - fill.price * m
    BY <1>4, <1>6
  <2> QED
    BY <1>9, <2>1 DEF Notional
<1>12. gain = IF fill.side = "BUY" THEN x - y ELSE y - x
  BY <1>4, <1>5, <1>6
<1>13. /\ gross \in Int /\ Value(longs) \in Int /\ Value(shorts) \in Int
  BY <1>1, BalanceType
<1> HIDE DEF gain, x, y, n, m, lot, i
<1>14. Balance' = Balance
  <2>1. CASE fill.side = "BUY"
    <3>1. Value(shorts') = Value(shorts) - x /\ longs' = longs
      BY <2>1, <1>7 DEF PairLot, Closing, x, m, lot, i
    <3>2. Unpaired = -n /\ Unpaired' = -(n - y)
      BY <2>1, <1>8, <1>9, <1>11 DEF Unpaired, n
    <3>3. gross' = gross + (x - y)
      BY <2>1, <1>8, <1>12
    <3> QED
      BY <3>1, <3>2, <3>3, <1>1, <1>8, <1>10, <1>13 DEF Balance
  <2>2. CASE fill.side # "BUY"
    <3>1. Value(longs') = Value(longs) - x /\ shorts' = shorts
      BY <2>2, <1>7 DEF PairLot, Closing, x, m, lot, i
    <3>2. Unpaired = n /\ Unpaired' = n - y
      <4>1. fill.side = "SELL"
        BY <2>2, <1>1 DEF LedgerInv, TypeOK
      <4> QED
        BY <4>1, <1>8, <1>9, <1>11 DEF Unpaired, n
    <3>3. gross' = gross + (y - x)
      BY <2>2, <1>8, <1>12
    <3> QED
      BY <3>1, <3>2, <3>3, <1>1, <1>8, <1>10, <1>13 DEF Balance
  <2> QED
    BY <2>1, <2>2
<1>15. cash' = (Scale - Rate) * Balance'
  BY <1>8, <1>14, BalanceIs DEF CashInv
<1> QED
  BY <1>1, <1>8, <1>15 DEF CashFollowsTrades, Balance

LEMMA OpenLotCash ==
  ASSUME CashInv, OpenLot
  PROVE  dropped' \in Int /\ CashFollowsTrades'
<1> DEFINE lot == [price |-> fill.price, amount |-> fill.left]
           n == Notional
<1>1. LedgerInv /\ dropped \in Int
  BY DEF CashInv
<1>2. /\ n \in Int /\ gross \in Int /\ Value(longs) \in Int /\ Value(shorts) \in Int
  BY <1>1, NotionalType, BalanceType
<1>3. /\ Unpaired' = 0 /\ UNCHANGED <<cash, dropped, gross>>
      /\ Unpaired = IF fill.side = "SELL" THEN n ELSE -n
  BY DEF OpenLot, Unpaired, history
<1>4. fill.side \in {"BUY", "SELL"} /\ longs \in Seq(Lot) /\ shorts \in Seq(Lot)
  BY <1>1 DEF LedgerInv, TypeOK
<1>5. Balance' = Balance
  <2>1. CASE fill.left = 0
    <3>1. n = 0
      <4>1. fill.price \in Nat
        BY <1>1, FillParts DEF LedgerInv, TypeOK, FillType
      <4>2. fill.price * 0 = 0
        BY <4>1
      <4> QED
        BY <2>1, <4>2 DEF Notional
    <3>2. UNCHANGED <<longs, shorts>>
      BY <2>1 DEF OpenLot
    <3> HIDE DEF n
    <3> QED
      BY <3>1, <3>2, <1>1, <1>2, <1>3 DEF Balance
  <2>2. CASE fill.left # 0
    <3>1. lot \in Lot /\ lot.price * lot.amount = n
      BY <2>2, <1>1 DEF OpenLot, LedgerInv, TypeOK, FillHasPrice, Lot, Notional
    <3>2. CASE fill.side = "BUY"
      <4>1. longs' = Append(longs, lot) /\ shorts' = shorts
        BY <2>2, <3>2 DEF OpenLot
      <4> HIDE DEF lot, n
      <4>2. Value(longs') = Value(longs) + n
        BY <3>1, <4>1, <1>4, ValueAppend
      <4> QED
        BY <3>2, <4>1, <4>2, <1>1, <1>2, <1>3 DEF Balance
    <3>3. CASE fill.side = "SELL"
      <4>1. shorts' = Append(shorts, lot) /\ longs' = longs
        BY <2>2, <3>3 DEF OpenLot
      <4> HIDE DEF lot, n
      <4>2. Value(shorts') = Value(shorts) + n
        BY <3>1, <4>1, <1>4, ValueAppend
      <4> QED
        BY <3>3, <4>1, <4>2, <1>1, <1>2, <1>3 DEF Balance
    <3> QED
      BY <3>2, <3>3, <1>4
  <2> QED
    BY <2>1, <2>2
<1>6. cash' = (Scale - Rate) * Balance'
  BY <1>3, <1>5, BalanceIs DEF CashInv
<1> QED
  BY <1>1, <1>3, <1>6 DEF CashFollowsTrades, Balance

(* a tick writes lots off, and dropped takes their value *)
LEMMA CleanupCash ==
  ASSUME CashInv, Cleanup, pc # "pairing", pc' # "pairing", UNCHANGED <<cash, gross>>
  PROVE  dropped' \in Int /\ CashFollowsTrades'
<1>1. LedgerInv /\ dropped \in Int
  BY DEF CashInv
<1>2. longs' \in Seq(Lot) /\ shorts' \in Seq(Lot)
  BY <1>1, CleanupType
<1>3. Value(longs') \in Int /\ Value(shorts') \in Int
  BY <1>2, ValueInt
<1>4. /\ gross \in Int /\ Value(longs) \in Int /\ Value(shorts) \in Int
  BY <1>1, BalanceType
<1>5. Unpaired = 0 /\ Unpaired' = 0
  BY DEF Unpaired
<1>6. dropped' = dropped + (Value(shorts) - Value(shorts')) - (Value(longs) - Value(longs'))
  BY DEF Cleanup
<1>7. dropped' \in Int /\ Balance' = Balance
  BY <1>1, <1>3, <1>4, <1>5, <1>6 DEF Balance
<1>8. cash' = (Scale - Rate) * Balance'
  BY <1>7, BalanceIs DEF CashInv
<1> QED
  BY <1>7, <1>8 DEF CashFollowsTrades, Balance

(* a new session counts from nothing *)
LEMMA NewSessionCash ==
  ASSUME CashInv, ResetSession \/ Crash
  PROVE  dropped' \in Int /\ CashFollowsTrades'
<1>1. /\ longs' = <<>> /\ shorts' = <<>> /\ cash' = 0 /\ gross' = 0 /\ dropped' = 0
      /\ pc' = "idle"
  BY DEF ResetSession, Crash
<1>2. Value(longs') = 0 /\ Value(shorts') = 0
  BY <1>1, ValueOfNone
<1>3. Unpaired' = 0 /\ (Scale - Rate) * 0 = 0
  BY <1>1, RateType DEF Unpaired
<1> QED
  BY <1>1, <1>2, <1>3 DEF CashFollowsTrades

LEMMA SameCash ==
  ASSUME CashInv, UNCHANGED <<longs, shorts, cash, gross, dropped>>,
         pc = "pairing" => UNCHANGED <<pc, fill>>, pc # "pairing" => pc' # "pairing"
  PROVE  dropped' \in Int /\ CashFollowsTrades'
<1>1. Unpaired' = Unpaired
  BY DEF Unpaired, Notional
<1> QED
  BY <1>1 DEF CashInv, CashFollowsTrades

LEMMA CashNext == CashInv /\ [Next]_vars => CashInv'
<1> SUFFICES ASSUME CashInv, [Next]_vars PROVE CashInv'
  OBVIOUS
<1> USE DEF CashInv
<1>1. LedgerInv'
  BY LedgerNext
<1>2. CASE \E s \in {"BUY", "SELL"}, p \in Prices, a \in Amounts : HandleFill(s, p, a)
  BY <1>1, <1>2, SameCash DEF HandleFill, session
<1>3. CASE BookFill
  BY <1>1, <1>3, BookFillCash
<1>4. CASE PairLot
  BY <1>1, <1>4, PairLotCash
<1>5. CASE OpenLot
  BY <1>1, <1>5, OpenLotCash
<1>6. CASE ReportTrade \/ FillDone \/ LoopStopped
  BY <1>1, <1>6, SameCash DEF ReportTrade, FillDone, LoopStopped, session, history
<1>7. CASE TickGoesOn
  BY <1>1, <1>7, CleanupCash DEF TickGoesOn, Ticking
<1>8. CASE TickReinvests
  BY <1>1, <1>8, CleanupCash DEF TickReinvests, BankFlat, Ticking
<1>9. CASE TickStops
  BY <1>1, <1>9, CleanupCash DEF TickStops, BankFlat, Ticking
<1>10. CASE ResetSession \/ Crash
  BY <1>1, <1>10, NewSessionCash
<1>11. CASE WebStop \/ WebStopped \/ WebStart
  BY <1>1, <1>11, SameCash DEF WebStop, WebStopped, WebStart, history
<1>12. CASE UNCHANGED vars
  BY <1>1, <1>12, SameCash DEF vars, session, history
<1> QED
  BY <1>2, <1>3, <1>4, <1>5, <1>6, <1>7, <1>8, <1>9, <1>10, <1>11, <1>12 DEF Next

(* The cash flow of a session is what its closed trades earned, less the    *)
(* cost of its open lots and of the lots written off, all reduced by the    *)
(* fee rate, for any fills, sizes, prices and fees, whatever is stopped,    *)
(* written off or lost (handle_fill(), tick(), _bank_and_reinvest()).       *)
THEOREM CashIsAccounted == Spec => []CashFollowsTrades
<1>1. Init => CashInv
  BY LedgerInit, CashInit DEF CashInv
<1>2. CashInv => CashFollowsTrades
  BY DEF CashInv
<1> QED
  BY <1>1, <1>2, CashNext, PTL DEF Spec

-----------------------------------------------------------------------------
(* The units of lots, which are a concatenation *)

(* f holds the units of the first 0, 1, ..., n lots *)
Stacks(f, lots, n) ==
    f = [i \in 0..n |->
            IF i = 0 THEN <<>> ELSE f[i - 1] \o Block(lots[i].price, lots[i].amount)]

LEMMA StacksExist ==
  ASSUME NEW lots \in Seq(Lot), NEW n \in 0..Len(lots)
  PROVE  \E f : Stacks(f, lots, n)
<1> DEFINE Bad == {k \in 0..Len(lots) : ~\E f : Stacks(f, lots, k)}
<1> SUFFICES ASSUME Bad # {} PROVE FALSE
  OBVIOUS
<1>1. Bad \in SUBSET Nat
  OBVIOUS
<1>2. PICK k \in Bad : \A j \in Bad : k <= j
  <2> HIDE DEF Bad
  <2> QED
    BY <1>1, LeastOf
<1>3. k \in 0..Len(lots) /\ ~\E f : Stacks(f, lots, k)
  BY <1>2
<1>4. CASE k = 0
  <2>1. Stacks([i \in 0..0 |-> <<>>], lots, 0)
    BY DEF Stacks
  <2> QED
    BY <1>3, <1>4, <2>1
<1>5. CASE k # 0
  <2>1. k - 1 \in 0..Len(lots) /\ ~(k <= k - 1)
    BY <1>3, <1>5
  <2>2. PICK f : Stacks(f, lots, k - 1)
    BY <1>2, <2>1
  <2> DEFINE b(i) == Block(lots[i].price, lots[i].amount)
             g == [i \in 0..k |-> IF i = k THEN f[k - 1] \o b(k) ELSE f[i]]
  <2> HIDE DEF b
  <2>3. \A i \in 0..k - 1 : f[i] = IF i = 0 THEN <<>> ELSE f[i - 1] \o b(i)
    BY <2>2 DEF Stacks, b
  <2>4. ASSUME NEW i \in 0..k
        PROVE  g[i] = IF i = 0 THEN <<>> ELSE g[i - 1] \o b(i)
    <3>1. CASE i = k
      <4>1. i # 0 /\ i - 1 \in 0..k /\ i - 1 # k
        BY <3>1, <1>5, <1>3
      <4>2. g[i - 1] = f[k - 1] /\ g[i] = f[k - 1] \o b(k)
        BY <4>1, <3>1
      <4> QED
        BY <4>1, <4>2, <3>1
    <3>2. CASE i # k
      <4>1. i \in 0..k - 1 /\ g[i] = f[i]
        BY <3>2, <1>3
      <4>2. CASE i # 0
        <5>1. i - 1 \in 0..k /\ i - 1 # k
          BY <4>1, <4>2, <1>3
        <5>2. g[i - 1] = f[i - 1]
          BY <5>1
        <5> QED
          BY <4>1, <4>2, <5>2, <2>3
      <4> QED
        BY <4>1, <4>2, <2>3
    <3> QED
      BY <3>1, <3>2
  <2>5. g = [i \in 0..k |-> g[i]]
    OBVIOUS
  <2> HIDE DEF g
  <2>6. Stacks(g, lots, k)
    BY <2>4, <2>5 DEF Stacks, b
  <2> QED
    BY <1>3, <2>6
<1> QED
  BY <1>4, <1>5

LEMMA UnitsIs ==
  ASSUME NEW lots \in Seq(Lot)
  PROVE  \E f : Stacks(f, lots, Len(lots)) /\ Units(lots) = f[Len(lots)]
<1> DEFINE f == CHOOSE h : Stacks(h, lots, Len(lots))
<1>1. Stacks(f, lots, Len(lots))
  BY StacksExist
<1>2. Units(lots) = f[Len(lots)]
  BY DEF Units, Stacks
<1> QED
  BY <1>1, <1>2

LEMMA StackStep ==
  ASSUME NEW lots, NEW f, Stacks(f, lots, Len(lots)), NEW n \in 0..Len(lots)
  PROVE  f[n] = IF n = 0 THEN <<>> ELSE f[n - 1] \o Block(lots[n].price, lots[n].amount)
  BY DEF Stacks

LEMMA BlockType ==
  ASSUME NEW p \in Prices, NEW n \in Nat
  PROVE  /\ Block(p, n) \in Seq(Prices) /\ Len(Block(p, n)) = n
         /\ \A i \in 1..n : Block(p, n)[i] = p
<1>1. Block(p, n) \in [1..n -> Prices]
  BY DEF Block
<1> QED
  BY <1>1 DEF Block

LEMMA LotBlock ==
  ASSUME NEW lots \in Seq(Lot), NEW i \in 1..Len(lots)
  PROVE  Block(lots[i].price, lots[i].amount) \in Seq(Prices)
<1>1. lots[i] \in Lot
  BY ElementOfSeq
<1>2. lots[i].price \in Prices /\ lots[i].amount \in Nat
  BY <1>1 DEF Lot
<1> QED
  BY <1>2, BlockType

LEMMA StacksType ==
  ASSUME NEW lots \in Seq(Lot), NEW f, Stacks(f, lots, Len(lots)), NEW n \in 0..Len(lots)
  PROVE  f[n] \in Seq(Prices)
<1> DEFINE Bad == {i \in 0..Len(lots) : f[i] \notin Seq(Prices)}
<1> SUFFICES ASSUME Bad # {} PROVE FALSE
  OBVIOUS
<1>1. Bad \in SUBSET Nat
  OBVIOUS
<1>2. PICK i \in Bad : \A j \in Bad : i <= j
  <2> HIDE DEF Bad
  <2> QED
    BY <1>1, LeastOf
<1>3. i \in 0..Len(lots) /\ f[i] \notin Seq(Prices)
  BY <1>2
<1>4. f[i] = IF i = 0 THEN <<>> ELSE f[i - 1] \o Block(lots[i].price, lots[i].amount)
  BY <1>3, StackStep
<1>5. i # 0
  BY <1>3, <1>4, EmptySeq
<1>6. f[i - 1] \in Seq(Prices)
  <2>1. i - 1 \in 0..Len(lots) /\ ~(i <= i - 1)
    BY <1>3, <1>5
  <2> QED
    BY <2>1, <1>2
<1>7. Block(lots[i].price, lots[i].amount) \in Seq(Prices)
  <2>1. i \in 1..Len(lots)
    BY <1>3, <1>5
  <2> QED
    BY <2>1, LotBlock
<1> QED
  BY <1>3, <1>4, <1>5, <1>6, <1>7, ConcatProperties

(* units u are those in front and then v *)
Joined(u, front, v) == u = front \o v

(* what the longer list holds before place s + a stays in front *)
LEMMA StacksShift ==
  ASSUME NEW l \in Seq(Lot), NEW k \in Seq(Lot), NEW f, NEW g,
         Stacks(f, l, Len(l)), Stacks(g, k, Len(k)),
         NEW a \in Nat, Len(k) + a <= Len(l), NEW s \in 0..Len(k),
         Continues(k, l, s, a),
         NEW front \in Seq(Prices), Joined(f[s + a], front, g[s])
  PROVE  \A i \in s..Len(k) : Joined(f[i + a], front, g[i])
<1> DEFINE Bad == {i \in s..Len(k) : f[i + a] # front \o g[i]}
<1> SUFFICES ASSUME Bad # {} PROVE FALSE
  BY DEF Joined
<1>0. Bad \in SUBSET Nat
  OBVIOUS
<1>1. PICK i \in Bad : \A j \in Bad : i <= j
  <2> HIDE DEF Bad
  <2> QED
    BY <1>0, LeastOf
<1>2. i \in s..Len(k) /\ f[i + a] # front \o g[i]
  BY <1>1
<1>3. i # s
  BY <1>2 DEF Joined
<1>4. /\ i - 1 \in s..Len(k) /\ ~(i <= i - 1) /\ i \in 1..Len(k) /\ i + a \in 1..Len(l)
      /\ i - 1 \in 0..Len(k) /\ i \in s + 1..Len(k) /\ i - 1 + a = i + a - 1
      /\ i # 0
  <2>1. /\ Len(k) \in Nat /\ Len(l) \in Nat /\ s \in 0..Len(k) /\ a \in Nat
        /\ Len(k) + a <= Len(l)
    OBVIOUS
  <2>2. i \in s..Len(k) /\ i # s
    BY <1>2, <1>3
  <2> QED
    BY ONLY <2>1, <2>2
<1> DEFINE b == Block(k[i].price, k[i].amount)
           j == i + a
<1>5. f[j - 1] = front \o g[i - 1]
  <2>1. i - 1 \notin Bad /\ i - 1 \in s..Len(k)
    <3> HIDE DEF Bad
    <3> QED
      BY <1>1, <1>4
  <2>2. f[i - 1 + a] = front \o g[i - 1]
    BY <2>1
  <2> QED
    BY ONLY <1>4, <2>2
<1>6. k[i] = l[j]
  BY <1>4 DEF Continues
<1>7. b \in Seq(Prices) /\ g[i - 1] \in Seq(Prices)
  BY <1>4, LotBlock, StacksType
<1>8. g[i] = g[i - 1] \o b
  <2>1. i \in 0..Len(k) /\ i # 0
    BY <1>4
  <2> QED
    BY <2>1, StackStep
<1>9. f[j] = f[j - 1] \o b
  <2>1. j \in 0..Len(l) /\ j # 0
    BY <1>4
  <2>2. Stacks(f, l, Len(l))
    OBVIOUS
  <2> HIDE DEF j, b
  <2>3. f[j] = f[j - 1] \o Block(l[j].price, l[j].amount)
    BY ONLY <2>1, <2>2, StackStep
  <2> QED
    BY <2>3, <1>6 DEF b
<1> HIDE DEF b
<1>10. (front \o g[i - 1]) \o b = front \o (g[i - 1] \o b)
  <2> DEFINE h == g[i - 1]
  <2>1. front \in Seq(Prices) /\ h \in Seq(Prices) /\ b \in Seq(Prices)
    BY <1>7
  <2> HIDE DEF h
  <2>2. (front \o h) \o b = front \o (h \o b)
    BY ONLY <2>1, SMTT(30)
  <2> QED
    BY <2>2 DEF h
<1> QED
  BY <1>2, <1>5, <1>8, <1>9, <1>10

LEMMA UnitsType ==
  ASSUME NEW lots \in Seq(Lot)
  PROVE  Units(lots) \in Seq(Prices)
<1>1. PICK f : Stacks(f, lots, Len(lots)) /\ Units(lots) = f[Len(lots)]
  BY UnitsIs
<1>2. Len(lots) \in 0..Len(lots)
  OBVIOUS
<1> QED
  BY <1>1, <1>2, StacksType

LEMMA UnitsOfNone == Units(<<>>) = <<>>
<1>1. <<>> \in Seq(Lot) /\ Len(<<>>) = 0
  BY EmptySeq
<1>2. PICK f : Stacks(f, <<>>, 0) /\ Units(<<>>) = f[0]
  BY <1>1, UnitsIs
<1> QED
  BY <1>2 DEF Stacks

(* a new lot adds its units at the end *)
LEMMA UnitsAppend ==
  ASSUME NEW lots \in Seq(Lot), NEW x \in Lot
  PROVE  Units(Append(lots, x)) = Units(lots) \o Block(x.price, x.amount)
<1> DEFINE l == Append(lots, x)
           n == Len(lots)
           j == n + 1
<1>1. /\ l \in Seq(Lot) /\ Len(l) = j /\ l[j] = x
      /\ \A i \in 1..n : lots[i] = l[i]
  BY AppendProperties
<1>2. n \in Nat /\ n \in 0..n /\ 0 \in 0..n /\ j \in 0..j /\ j # 0 /\ j - 1 = n /\ 0 \in 0..j
      /\ n \in 0..j
  OBVIOUS
<1> HIDE DEF l
<1>3. PICK f : Stacks(f, l, Len(l)) /\ Units(l) = f[Len(l)]
  BY <1>1, UnitsIs
<1>4. PICK g : Stacks(g, lots, Len(lots)) /\ Units(lots) = g[Len(lots)]
  BY UnitsIs
<1>5. f[0] = <<>> /\ g[0] = <<>>
  BY <1>1, <1>2, <1>3, <1>4, StackStep
<1>6. f[n] = g[n]
  <2> DEFINE z == 0
             front == <<>>
  <2>1. z \in Nat /\ z \in 0..Len(lots) /\ Len(lots) + z <= Len(l) /\ front \in Seq(Prices)
    BY <1>1, <1>2, EmptySeq
  <2>2. Continues(lots, l, z, z)
    BY <1>1 DEF Continues
  <2>3. l \in Seq(Lot) /\ lots \in Seq(Lot) /\ Stacks(f, l, Len(l)) /\ Stacks(g, lots, Len(lots))
    BY <1>1, <1>3, <1>4
  <2>4. Joined(f[z + z], front, g[z])
    BY <1>5 DEF Joined
  <2> HIDE DEF z, front
  <2>5. \A i \in z..Len(lots) : Joined(f[i + z], front, g[i])
    BY ONLY <2>1, <2>2, <2>3, <2>4, StacksShift
  <2>6. f[n + 0] = <<>> \o g[n]
    BY <1>2, <2>5 DEF z, front, Joined
  <2>7. g[n] \in Seq(Prices)
    BY <1>2, <1>4, StacksType
  <2> QED
    BY <1>2, <2>6, <2>7, ConcatEmptySeq
<1>7. f[j] = f[j - 1] \o Block(x.price, x.amount)
  <2> HIDE DEF j
  <2> QED
    BY <1>1, <1>2, <1>3, StackStep
<1> HIDE DEF j
<1> QED
  BY <1>1, <1>2, <1>3, <1>4, <1>6, <1>7 DEF l

(* when the a oldest lots leave, what is left is the end of the units *)
LEMMA UnitsWithout ==
  ASSUME NEW l \in Seq(Lot), NEW k \in Seq(Lot), NEW a \in Nat, Len(k) + a = Len(l),
         Continues(k, l, 0, a)
  PROVE  \E front \in Seq(Prices) :
             /\ Units(l) = front \o Units(k)
             /\ a = 1 => front = Block(l[1].price, l[1].amount)
<1> DEFINE n == Len(k)
<1>1. n \in Nat /\ 0 \in 0..n /\ n \in 0..n /\ n + a = Len(l) /\ a \in 0..Len(l) /\ 0 \in 0..Len(l)
      /\ 0 + a = a
  OBVIOUS
<1>2. PICK f : Stacks(f, l, Len(l)) /\ Units(l) = f[Len(l)]
  BY UnitsIs
<1>3. PICK g : Stacks(g, k, Len(k)) /\ Units(k) = g[Len(k)]
  BY UnitsIs
<1> DEFINE front == f[a]
<1>4. front \in Seq(Prices)
  BY <1>1, <1>2, StacksType
<1>5. g[0] = <<>> /\ f[0] = <<>>
  BY <1>1, <1>2, <1>3, StackStep
<1>6. Units(l) = front \o Units(k)
  <2> DEFINE z == 0
  <2>1. z \in 0..Len(k) /\ Len(k) + a <= Len(l) /\ a \in Nat /\ front \in Seq(Prices)
    BY <1>1, <1>4
  <2>2. Continues(k, l, z, a)
    OBVIOUS
  <2>3. l \in Seq(Lot) /\ k \in Seq(Lot) /\ Stacks(f, l, Len(l)) /\ Stacks(g, k, Len(k))
    BY <1>2, <1>3
  <2>4. Joined(f[z + a], front, g[z])
    BY <1>1, <1>4, <1>5, ConcatEmptySeq DEF Joined
  <2> HIDE DEF z, front
  <2>5. \A i \in z..Len(k) : Joined(f[i + a], front, g[i])
    BY ONLY <2>1, <2>2, <2>3, <2>4, StacksShift
  <2>6. f[n + a] = front \o g[n]
    BY <1>1, <2>5 DEF z, Joined
  <2> QED
    BY <1>1, <1>2, <1>3, <2>6
<1>7. ASSUME a = 1 PROVE front = Block(l[1].price, l[1].amount)
  <2>1. 1 \in 0..Len(l) /\ 1 - 1 = 0 /\ 1 \in 1..Len(l)
    BY <1>1, <1>7
  <2>2. f[1] = f[1 - 1] \o Block(l[1].price, l[1].amount)
    <3> DEFINE z == 1
    <3>1. z \in 0..Len(l) /\ Stacks(f, l, Len(l)) /\ z # 0
      BY <1>2, <2>1
    <3> HIDE DEF z
    <3>2. f[z] = f[z - 1] \o Block(l[z].price, l[z].amount)
      BY ONLY <3>1, StackStep
    <3> QED
      BY <3>2 DEF z
  <2>3. Block(l[1].price, l[1].amount) \in Seq(Prices)
    BY <2>1, LotBlock
  <2> QED
    BY <1>5, <1>7, <2>1, <2>2, <2>3, ConcatEmptySeq
<1> QED
  BY <1>4, <1>6, <1>7

(* only the oldest lot differs *)
LEMMA UnitsOfOther ==
  ASSUME NEW l \in Seq(Lot), NEW k \in Seq(Lot), Len(k) = Len(l), Len(l) # 0,
         Continues(k, l, 1, 0), NEW front \in Seq(Prices),
         Block(l[1].price, l[1].amount) = front \o Block(k[1].price, k[1].amount)
  PROVE  Units(l) = front \o Units(k)
<1> DEFINE n == Len(k)
           one == 1
           z == 0
<1>1. /\ n \in Nat /\ n = Len(l) /\ one \in 0..n /\ one # 0 /\ one - 1 = 0 /\ 0 \in 0..n
      /\ n \in one..n /\ one \in 1..n /\ z \in Nat /\ n + z <= Len(l) /\ n + z = n
      /\ one + z = one
  OBVIOUS
<1>2. PICK f : Stacks(f, l, Len(l)) /\ Units(l) = f[Len(l)]
  BY UnitsIs
<1>3. PICK g : Stacks(g, k, Len(k)) /\ Units(k) = g[Len(k)]
  BY UnitsIs
<1>4. Continues(k, l, one, z)
  OBVIOUS
<1>5. /\ Block(l[one].price, l[one].amount) = front \o Block(k[one].price, k[one].amount)
      /\ Block(l[one].price, l[one].amount) \in Seq(Prices)
      /\ Block(k[one].price, k[one].amount) \in Seq(Prices)
  <2>1. one \in 1..Len(l) /\ one \in 1..Len(k)
    BY <1>1
  <2>2. Block(l[one].price, l[one].amount) \in Seq(Prices)
        /\ Block(k[one].price, k[one].amount) \in Seq(Prices)
    <3> HIDE DEF one
    <3> QED
      BY <2>1, LotBlock
  <2> QED
    BY <2>2
<1> HIDE DEF one, z
<1>6. f[0] = <<>> /\ g[0] = <<>>
  BY <1>1, <1>2, <1>3, StackStep
<1>7. /\ f[one] = f[one - 1] \o Block(l[one].price, l[one].amount)
      /\ g[one] = g[one - 1] \o Block(k[one].price, k[one].amount)
  <2>1. one \in 0..Len(l) /\ one \in 0..Len(k) /\ one # 0
    BY <1>1
  <2>2. Stacks(f, l, Len(l)) /\ Stacks(g, k, Len(k))
    BY <1>2, <1>3
  <2> QED
    BY ONLY <2>1, <2>2, StackStep
<1>8. /\ f[one] = Block(l[one].price, l[one].amount)
      /\ g[one] = Block(k[one].price, k[one].amount)
  BY <1>1, <1>5, <1>6, <1>7, ConcatEmptySeq
<1>9. Joined(f[one + z], front, g[one])
  BY <1>1, <1>5, <1>8 DEF Joined
<1>10. /\ l \in Seq(Lot) /\ k \in Seq(Lot) /\ Stacks(f, l, Len(l)) /\ Stacks(g, k, Len(k))
       /\ z \in Nat /\ Len(k) + z <= Len(l) /\ one \in 0..Len(k) /\ front \in Seq(Prices)
  BY <1>1, <1>2, <1>3
<1>11. \A i \in one..Len(k) : Joined(f[i + z], front, g[i])
  BY ONLY <1>4, <1>9, <1>10, StacksShift
<1>12. Joined(f[n + z], front, g[n])
  BY <1>1, <1>11
<1> QED
  BY <1>1, <1>2, <1>3, <1>12 DEF Joined

(* the parts of a block *)
LEMMA BlockSplit ==
  ASSUME NEW p \in Prices, NEW a \in Nat, NEW m \in 0..a
  PROVE  Block(p, a) = Block(p, m) \o Block(p, a - m)
<1>1. m \in Nat /\ a - m \in Nat /\ m + (a - m) = a
  OBVIOUS
<1> DEFINE s == Block(p, a)
           t == Block(p, m)
           u == Block(p, a - m)
<1>2. /\ s \in Seq(Prices) /\ Len(s) = a /\ (\A i \in 1..a : s[i] = p)
      /\ t \in Seq(Prices) /\ Len(t) = m /\ (\A i \in 1..m : t[i] = p)
      /\ u \in Seq(Prices) /\ Len(u) = a - m /\ (\A i \in 1..a - m : u[i] = p)
  BY <1>1, BlockType
<1> HIDE DEF s, t, u
<1>3. /\ t \o u \in Seq(Prices) /\ Len(t \o u) = a
      /\ \A i \in 1..a : (t \o u)[i] = IF i <= m THEN t[i] ELSE u[i - m]
  <2>1. /\ t \o u \in Seq(Prices) /\ Len(t \o u) = Len(t) + Len(u)
        /\ \A i \in 1..Len(t) + Len(u) : (t \o u)[i] = IF i <= Len(t) THEN t[i] ELSE u[i - Len(t)]
    BY <1>2, ConcatProperties
  <2>2. Len(t) + Len(u) = a /\ Len(t) = m
    BY <1>1, <1>2
  <2> QED
    BY <2>1, <2>2
<1>4. ASSUME NEW i \in 1..a PROVE s[i] = (t \o u)[i]
  <2>1. CASE i <= m
    <3>1. i \in 1..m
      BY <2>1
    <3> QED
      BY <2>1, <3>1, <1>2, <1>3
  <2>2. CASE ~(i <= m)
    <3>1. i - m \in 1..a - m
      BY <2>2, <1>1
    <3> QED
      BY <2>2, <3>1, <1>2, <1>3
  <2> QED
    BY <2>1, <2>2
<1>5. s = t \o u
  BY <1>2, <1>3, <1>4, SeqEqual
<1> QED
  BY <1>5 DEF s, t, u

(* closing m units of the oldest lot takes the m oldest units *)
LEMMA UnitsTaken ==
  ASSUME NEW lots \in Seq(Lot), Len(lots) # 0, NEW m \in Nat \ {0}, m <= lots[1].amount
  PROVE  Units(lots) = Block(lots[1].price, m) \o Units(Taken(lots, 1, m))
<1> DEFINE n == Len(lots)
           k == Taken(lots, 1, m)
<1>1. n \in Nat /\ 1 \in 1..n
  OBVIOUS
<1>2. k \in Seq(Lot)
  BY <1>1, TakenType
<1>3. lots[1] \in Lot
  BY <1>1, ElementOfSeq
<1>4. lots[1].price \in Prices /\ lots[1].amount \in Nat
  BY <1>3 DEF Lot
<1>5. Block(lots[1].price, m) \in Seq(Prices)
  BY <1>4, BlockType
<1>6. CASE lots[1].amount = m
  <2>1. Len(k) + 1 = n /\ Continues(k, lots, 0, 1)
    BY <1>6, OldestGone
  <2> HIDE DEF k
  <2>2. PICK front \in Seq(Prices) :
           Units(lots) = front \o Units(k) /\ front = Block(lots[1].price, lots[1].amount)
    BY <1>2, <2>1, UnitsWithout
  <2> QED
    BY <1>6, <2>2 DEF k
<1>7. CASE lots[1].amount # m
  <2>1. /\ Len(k) = n /\ k[1].price = lots[1].price /\ k[1].amount = lots[1].amount - m
        /\ Continues(k, lots, 1, 0)
    BY <1>7, OldestReduced
  <2>2. m \in 0..lots[1].amount
    BY <1>4
  <2> HIDE DEF k
  <2>3. Block(lots[1].price, lots[1].amount)
        = Block(lots[1].price, m) \o Block(k[1].price, k[1].amount)
    <3> DEFINE p == lots[1].price
               a == lots[1].amount
    <3>1. p \in Prices /\ a \in Nat /\ m \in 0..a
      BY <2>2, <1>4
    <3> HIDE DEF p, a
    <3>2. Block(p, a) = Block(p, m) \o Block(p, a - m)
      BY ONLY <3>1, BlockSplit
    <3> QED
      BY <2>1, <3>2 DEF p, a
  <2>4. Units(lots) = Block(lots[1].price, m) \o Units(k)
    BY <1>1, <1>2, <1>5, <2>1, <2>3, UnitsOfOther
  <2> QED
    BY <2>4 DEF k
<1> QED
  BY <1>6, <1>7

-----------------------------------------------------------------------------
(* The refinement of the inventory *)

(* no fill is larger than the orders are *)
FillIsSmall == fill.left = 0 \/ \E a \in Amounts : fill.left <= a

FifoInv == LedgerInv /\ FillIsSmall

LEMMA FillSmallNext ==
  ASSUME FifoInv, [Next]_vars
  PROVE  FillIsSmall'
<1>1. CASE fill' = fill
  BY <1>1 DEF FifoInv, FillIsSmall
<1>2. CASE fill' = NoFill
  BY <1>2 DEF NoFill, FillIsSmall
<1>3. ASSUME NEW s \in {"BUY", "SELL"}, NEW p \in Prices, NEW a \in Amounts, HandleFill(s, p, a)
      PROVE  FillIsSmall'
  <2>1. fill'.left = a /\ a \in Nat
    BY <1>3, ConstantsAssumption DEF HandleFill
  <2> QED
    BY <2>1 DEF FillIsSmall
<1>4. CASE PairLot
  <2> DEFINE m == Least(fill.left, Closing[Oldest(Closing)].amount)
  <2>1. fill' = [fill EXCEPT !.left = @ - m] /\ fill.left > 0
    BY <1>4 DEF PairLot
  <2>2. Closing[Oldest(Closing)] \in Lot
    <3>1. Closing \in Seq(Lot) /\ Closing # <<>>
      BY <1>4, EmptySeq DEF FifoInv, LedgerInv, TypeOK, Closing, PairLot
    <3>2. Oldest(Closing) \in 1..Len(Closing)
      BY <3>1, EmptySeq DEF Oldest
    <3> QED
      BY <3>1, <3>2, ElementOfSeq
  <2>3. m \in Nat /\ fill.left \in Nat
    BY <2>2, FillParts DEF Least, Lot, FifoInv, LedgerInv, TypeOK, FillType
  <2>4. fill'.left = fill.left - m
    BY <2>1 DEF FifoInv, LedgerInv, TypeOK
  <2> HIDE DEF m
  <2>5. fill'.left <= fill.left /\ fill.left # 0
    BY <2>1, <2>3, <2>4
  <2>6. PICK a \in Amounts : fill.left <= a
    BY <2>5 DEF FifoInv, FillIsSmall
  <2>7. a \in Nat /\ fill'.left <= a
    BY <2>3, <2>4, <2>6, ConstantsAssumption
  <2> QED
    BY <2>7 DEF FillIsSmall
<1>5. CASE UNCHANGED vars
  BY <1>1, <1>5 DEF vars
<1>6. CASE Next
  <2>1. CASE BookFill \/ ReportTrade \/ FillDone \/ TickGoesOn \/ TickReinvests \/ TickStops
             \/ ResetSession \/ LoopStopped \/ WebStop \/ WebStopped \/ WebStart
    BY <1>1, <2>1 DEF BookFill, ReportTrade, FillDone, TickGoesOn, TickReinvests, TickStops,
       BankFlat, ResetSession, LoopStopped, WebStop, WebStopped, WebStart
  <2>2. CASE OpenLot \/ Crash
    BY <1>2, <2>2 DEF OpenLot, Crash
  <2> QED
    BY <1>3, <1>4, <1>6, <2>1, <2>2 DEF Next
<1> QED
  BY <1>5, <1>6

(* the two sides of the ledger, as the inventory sees them *)
Held == Units(longs) \o Units(shorts)
Side == IF longs # <<>> THEN "long" ELSE IF shorts # <<>> THEN "short" ELSE "flat"

LEMMA FrontLeaves ==
  ASSUME NEW front \in Seq(Prices), NEW rest \in Seq(Prices)
  PROVE  /\ SubSeq(front \o rest, Len(front) + 1, Len(front \o rest)) = rest
         /\ Len(front \o rest) = Len(front) + Len(rest)
         /\ \A i \in 1..Len(front) : (front \o rest)[i] = front[i]
<1> DEFINE m == Len(front)
           n == Len(rest)
           w == front \o rest
           v == SubSeq(w, m + 1, m + n)
<1>1. m \in Nat /\ n \in Nat
  OBVIOUS
<1>2. /\ w \in Seq(Prices) /\ Len(w) = m + n
      /\ \A i \in 1..m + n : w[i] = IF i <= m THEN front[i] ELSE rest[i - m]
  BY ConcatProperties
<1>3. \A i \in m + 1..m + n : w[i] \in Prices
  <2> HIDE DEF w
  <2>1. \A i \in m + 1..m + n : i \in 1..Len(w)
    BY <1>1, <1>2
  <2> QED
    BY <1>2, <2>1, ElementOfSeq
<1> HIDE DEF w, m, n
<1>4. v \in Seq(Prices) /\ Len(v) = n /\ \A i \in 1..n : v[i] = w[m + i]
  <2> DEFINE a == m + 1
             b == m + n
  <2>1. a \in Int /\ b \in Int /\ \A i \in a..b : w[i] \in Prices
    BY <1>1, <1>3
  <2>2. b - a + 1 = n /\ (IF a <= b THEN b - a + 1 ELSE 0) = n
        /\ \A i \in 1..n : a + i - 1 = m + i
    BY <1>1
  <2>3. v = SubSeq(w, a, b)
    OBVIOUS
  <2> HIDE DEF a, b, v
  <2>4. /\ v \in Seq(Prices) /\ Len(v) = (IF a <= b THEN b - a + 1 ELSE 0)
        /\ \A i \in 1..b - a + 1 : v[i] = w[a + i - 1]
    BY ONLY <2>1, <2>3, SubSeqProperties
  <2> QED
    BY <2>2, <2>4
<1> HIDE DEF v
<1>5. \A i \in 1..n : v[i] = rest[i]
  <2> SUFFICES ASSUME NEW i \in 1..n PROVE v[i] = rest[i]
    OBVIOUS
  <2> DEFINE j == m + i
  <2>1. j \in 1..m + n /\ ~(j <= m) /\ j - m = i
    BY <1>1
  <2>2. v[i] = w[j]
    BY <1>4
  <2> HIDE DEF j
  <2>3. w[j] = rest[j - m]
    BY <1>2, <2>1
  <2> QED
    BY <2>1, <2>2, <2>3
<1>6. Len(v) = Len(rest)
  BY <1>4 DEF n
<1>7. v = rest
  BY <1>4, <1>5, <1>6, SeqEqual
<1>8. \A i \in 1..m : w[i] = front[i]
  BY <1>1, <1>2
<1> QED
  BY <1>2, <1>7, <1>8 DEF v, w, m, n

LEMMA UnitsNone ==
  ASSUME NEW lots \in Seq(Lot)
  PROVE  Units(lots) \in Seq(Prices) /\ (lots # <<>> <=> Len(Units(lots)) # 0)
<1>1. CASE lots = <<>>
  BY <1>1, UnitsOfNone, EmptySeq
<1>2. CASE lots # <<>>
  <2>1. Len(lots) # 0 /\ 1 \in 1..Len(lots)
    BY <1>2, EmptySeq
  <2>2. lots[1] \in Lot
    BY <2>1, ElementOfSeq
  <2> DEFINE m == lots[1].amount
             b == Block(lots[1].price, m)
             rest == Units(Taken(lots, 1, m))
  <2>3. m \in Nat \ {0} /\ m <= m /\ lots[1].price \in Prices
    BY <2>2 DEF Lot
  <2>4. Units(lots) = b \o rest
    BY <2>1, <2>3, UnitsTaken
  <2>5. b \in Seq(Prices) /\ Len(b) = m
    BY <2>3, BlockType
  <2>6. rest \in Seq(Prices)
    BY <2>1, <2>3, TakenType, UnitsType
  <2> HIDE DEF b, rest, m
  <2>7. Len(b \o rest) = Len(b) + Len(rest) /\ Len(rest) \in Nat
    BY <2>5, <2>6, FrontLeaves, LenProperties
  <2>8. Len(Units(lots)) = m + Len(rest)
    BY <2>4, <2>5, <2>7
  <2>9. Len(Units(lots)) # 0
    BY <2>3, <2>7, <2>8
  <2> QED
    BY <1>2, <2>9, UnitsType
<1> QED
  BY <1>1, <1>2

(* lots are all of one side *)
LEMMA HeldIs ==
  ASSUME NEW l \in Seq(Lot), NEW s \in Seq(Lot)
  PROVE  /\ s = <<>> => Units(l) \o Units(s) = Units(l)
         /\ l = <<>> => Units(l) \o Units(s) = Units(s)
<1>1. Units(l) \in Seq(Prices) /\ Units(s) \in Seq(Prices) /\ Units(<<>>) = <<>>
  BY UnitsType, UnitsOfNone
<1>2. Units(l) \o <<>> = Units(l) /\ <<>> \o Units(s) = Units(s)
  BY <1>1, ConcatEmptySeq
<1> QED
  BY <1>1, <1>2

(* the lots of one side lose the units in front *)
Lose(front) ==
    \/ longs # <<>> /\ shorts' = <<>> /\ Units(longs) = front \o Units(longs')
    \/ shorts # <<>> /\ longs' = <<>> /\ Units(shorts) = front \o Units(shorts')

LEMMA LoseIsLeave ==
  ASSUME LedgerInv, LedgerInv', NEW front \in Seq(Prices), Lose(front)
  PROVE  /\ Fifo!Leave(Len(front)) /\ Len(front) <= Len(Held)
         /\ \A i \in 1..Len(front) : Held[i] = front[i]
         /\ Len(front) = 0 => Held' = Held /\ Side' = Side
<1>1. /\ longs \in Seq(Lot) /\ shorts \in Seq(Lot) /\ longs' \in Seq(Lot) /\ shorts' \in Seq(Lot)
  BY DEF LedgerInv, TypeOK
<1>2. CASE longs # <<>> /\ shorts' = <<>> /\ Units(longs) = front \o Units(longs')
  <2> DEFINE rest == Units(longs')
  <2>1. shorts = <<>>
    BY <1>2 DEF LedgerInv, OneSided
  <2>2. Held = front \o rest /\ Held' = rest /\ rest \in Seq(Prices)
    BY <1>1, <1>2, <2>1, HeldIs, UnitsType DEF Held
  <2>3. /\ Side = "long" /\ Side' = (IF longs' # <<>> THEN "long" ELSE "flat")
    BY <1>2 DEF Side
  <2>4. (longs' # <<>> <=> Len(rest) # 0) /\ Len(Units(longs)) # 0
    BY <1>1, <1>2, UnitsNone
  <2>5. Len(Held) # 0
    BY <1>2, <2>2, <2>4
  <2> HIDE DEF rest
  <2>6. /\ Held' = SubSeq(Held, Len(front) + 1, Len(Held)) /\ Len(Held) = Len(front) + Len(rest)
        /\ \A i \in 1..Len(front) : Held[i] = front[i]
    BY <2>2, FrontLeaves
  <2>7. Len(front) \in Nat /\ Len(rest) \in Nat
    BY <2>2, LenProperties
  <2>8. Side' = (IF Len(front) = Len(Held) THEN "flat" ELSE Side)
    BY <2>3, <2>4, <2>6, <2>7
  <2>9. Fifo!Leave(Len(front))
    BY <2>6, <2>8 DEF Fifo!Leave, Held, Side
  <2>10. ASSUME Len(front) = 0 PROVE Held' = Held /\ Side' = Side
    <3>1. front = <<>>
      BY <2>10, EmptySeq
    <3>2. Held' = Held
      BY <3>1, <2>2, ConcatEmptySeq
    <3> QED
      BY <3>2, <2>5, <2>8, <2>10
  <2> QED
    BY <2>6, <2>7, <2>9, <2>10
<1>3. CASE shorts # <<>> /\ longs' = <<>> /\ Units(shorts) = front \o Units(shorts')
  <2> DEFINE rest == Units(shorts')
  <2>1. longs = <<>>
    BY <1>3 DEF LedgerInv, OneSided
  <2>2. Held = front \o rest /\ Held' = rest /\ rest \in Seq(Prices)
    BY <1>1, <1>3, <2>1, HeldIs, UnitsType DEF Held
  <2>3. /\ Side = "short" /\ Side' = (IF shorts' # <<>> THEN "short" ELSE "flat")
    BY <1>3, <2>1 DEF Side
  <2>4. (shorts' # <<>> <=> Len(rest) # 0) /\ Len(Units(shorts)) # 0
    BY <1>1, <1>3, UnitsNone
  <2>5. Len(Held) # 0
    BY <1>3, <2>2, <2>4
  <2> HIDE DEF rest
  <2>6. /\ Held' = SubSeq(Held, Len(front) + 1, Len(Held)) /\ Len(Held) = Len(front) + Len(rest)
        /\ \A i \in 1..Len(front) : Held[i] = front[i]
    BY <2>2, FrontLeaves
  <2>7. Len(front) \in Nat /\ Len(rest) \in Nat
    BY <2>2, LenProperties
  <2>8. Side' = (IF Len(front) = Len(Held) THEN "flat" ELSE Side)
    BY <2>3, <2>4, <2>6, <2>7
  <2>9. Fifo!Leave(Len(front))
    BY <2>6, <2>8 DEF Fifo!Leave, Held, Side
  <2>10. ASSUME Len(front) = 0 PROVE Held' = Held /\ Side' = Side
    <3>1. front = <<>>
      BY <2>10, EmptySeq
    <3>2. Held' = Held
      BY <3>1, <2>2, ConcatEmptySeq
    <3> QED
      BY <3>2, <2>5, <2>8, <2>10
  <2> QED
    BY <2>6, <2>7, <2>9, <2>10
<1> QED
  BY <1>2, <1>3 DEF Lose

(* units of one price earn the same *)
LEMMA GainOfBlock ==
  ASSUME NEW p, NEW k \in Nat, NEW e \in Int,
         \A i \in 1..k : (IF Side = "long" THEN p - Held[i] ELSE Held[i] - p) = e
  PROVE  Fifo!Gain(p, k) = k * e
<1> DEFINE part(i) == IF Side = "long" THEN p - Held[i] ELSE Held[i] - p
           Is(f) == f = [i \in 0..k |-> IF i = 0 THEN 0 ELSE f[i - 1] + part(i)]
<1>1. \A i \in 1..k : part(i) = e
  OBVIOUS
<1>2. Fifo!Gain(p, k) = (CHOOSE f : Is(f))[k]
  BY DEF Fifo!Gain, Side, Held
<1> HIDE DEF part
<1>3. \E f : Is(f)
  <2> DEFINE f == [i \in 0..k |-> i * e]
  <2>1. ASSUME NEW i \in 0..k PROVE f[i] = IF i = 0 THEN 0 ELSE f[i - 1] + part(i)
    <3>1. CASE i = 0
      BY <3>1
    <3>2. CASE i # 0
      <4>1. i - 1 \in 0..k /\ i \in 1..k /\ i \in Int
        BY <3>2
      <4>2. f[i] = i * e /\ f[i - 1] = (i - 1) * e /\ part(i) = e
        BY <4>1, <1>1
      <4>3. i * e = (i - 1) * e + e
        BY <4>1
      <4> QED
        BY <3>2, <4>2, <4>3
    <3> QED
      BY <3>1, <3>2
  <2>2. f = [i \in 0..k |-> f[i]]
    OBVIOUS
  <2> HIDE DEF f
  <2>3. Is(f)
    BY <2>1, <2>2
  <2> QED
    BY <2>3
<1> DEFINE f == CHOOSE h : Is(h)
<1>4. Is(f)
  BY <1>3
<1> HIDE DEF f
<1>5. \A i \in 0..k : f[i] = IF i = 0 THEN 0 ELSE f[i - 1] + part(i)
  BY <1>4
<1>6. \A i \in 0..k : f[i] = i * e
  <2> DEFINE Bad == {i \in 0..k : f[i] # i * e}
  <2> SUFFICES ASSUME Bad # {} PROVE FALSE
    OBVIOUS
  <2>1. Bad \in SUBSET Nat
    OBVIOUS
  <2>2. PICK i \in Bad : \A j \in Bad : i <= j
    <3> HIDE DEF Bad
    <3> QED
      BY <2>1, LeastOf
  <2>3. i \in 0..k /\ f[i] # i * e
    BY <2>2
  <2>4. CASE i = 0
    BY <2>3, <2>4, <1>5
  <2>5. CASE i # 0
    <3>1. i - 1 \in 0..k /\ i \in 1..k /\ ~(i <= i - 1) /\ i \in Int
      BY <2>3, <2>5
    <3>2. f[i - 1] = (i - 1) * e
      BY <2>2, <3>1
    <3>3. f[i] = (i - 1) * e + e
      BY <1>1, <1>5, <2>3, <2>5, <3>1, <3>2
    <3>4. i * e = (i - 1) * e + e
      BY <3>1
    <3> QED
      BY <2>3, <3>3, <3>4
  <2> QED
    BY <2>4, <2>5
<1> QED
  BY <1>2, <1>6 DEF f

-----------------------------------------------------------------------------
(* The steps of the ledger as steps of the inventory *)

(* a round of the pairing loop closes units of the inventory *)
LEMMA PairLotFifo ==
  ASSUME FifoInv, LedgerInv', PairLot
  PROVE  Fifo!Next
<1> DEFINE i == Oldest(Closing)
           lot == Closing[i]
           m == Least(fill.left, lot.amount)
           gain == IF fill.side = "BUY" THEN (lot.price - fill.price) * m
                                        ELSE (fill.price - lot.price) * m
           front == Block(lot.price, m)
           e == IF Side = "long" THEN fill.price - lot.price ELSE lot.price - fill.price
<1>1. LedgerInv
  BY DEF FifoInv
<1>2. Closing \in Seq(Lot) /\ Closing # <<>> /\ Len(Closing) # 0 /\ i = 1 /\ i \in 1..Len(Closing)
  BY <1>1, EmptySeq, SMTT(30) DEF LedgerInv, TypeOK, Closing, PairLot, Oldest
<1>3. lot \in Lot
  BY <1>2, ElementOfSeq
<1>4. fill.left \in Nat /\ fill.left > 0 /\ fill.price \in Nat /\ fill.price \in Prices
  BY <1>1, FillParts DEF PairLot, LedgerInv, TypeOK, FillType, FillHasPrice
<1>5. lot.price \in Nat /\ lot.price \in Prices /\ lot.amount \in Nat \ {0}
  BY <1>3, PriceType DEF Lot
<1>6. m \in Nat \ {0} /\ m <= lot.amount
  BY <1>4, <1>5 DEF Least
<1>7. Units(Closing) = front \o Units(Taken(Closing, i, m))
  BY <1>2, <1>6, UnitsTaken
<1>8. front \in Seq(Prices) /\ Len(front) = m /\ \A j \in 1..m : front[j] = lot.price
  BY <1>5, <1>6, BlockType
<1>9. gross' = gross + gain
  BY DEF PairLot
<1> HIDE DEF front, gain, m, lot, i
<1>10. Lose(front) /\ (Side = "long" <=> fill.side # "BUY")
  <2>1. CASE fill.side = "BUY"
    <3>1. Closing = shorts /\ shorts' = Taken(shorts, i, m) /\ longs' = longs
      BY <2>1 DEF PairLot, Closing, m, lot, i
    <3>2. longs = <<>>
      BY <1>1, <1>2, <3>1 DEF LedgerInv, OneSided
    <3> QED
      BY <1>2, <1>7, <2>1, <3>1, <3>2 DEF Lose, Side
  <2>2. CASE fill.side # "BUY"
    <3>1. Closing = longs /\ longs' = Taken(longs, i, m) /\ shorts' = shorts
      BY <2>2 DEF PairLot, Closing, m, lot, i
    <3>2. shorts = <<>>
      BY <1>1, <1>2, <3>1 DEF LedgerInv, OneSided
    <3> QED
      BY <1>2, <1>7, <2>2, <3>1, <3>2 DEF Lose, Side
  <2> QED
    BY <2>1, <2>2
<1>11. /\ Fifo!Leave(m) /\ m <= Len(Held) /\ \A j \in 1..m : Held[j] = lot.price
  <2>1. /\ Fifo!Leave(Len(front)) /\ Len(front) <= Len(Held)
        /\ \A j \in 1..Len(front) : Held[j] = front[j]
    BY <1>1, <1>8, <1>10, LoseIsLeave
  <2> QED
    BY <2>1, <1>8
<1>12. Fifo!Gain(fill.price, m) = m * e
  <2>1. \A j \in 1..m : (IF Side = "long" THEN fill.price - Held[j] ELSE Held[j] - fill.price) = e
    BY <1>11
  <2>2. e \in Int /\ m \in Nat
    BY <1>4, <1>5, <1>6
  <2> HIDE DEF e
  <2> QED
    BY <2>1, <2>2, GainOfBlock
<1>13. gain = m * e
  <2>1. CASE fill.side = "BUY"
    <3>1. gain = (lot.price - fill.price) * m /\ e = lot.price - fill.price
      BY <1>10, <2>1 DEF gain
    <3>2. (lot.price - fill.price) * m = m * (lot.price - fill.price)
      BY <1>4, <1>5, <1>6
    <3> QED
      BY <3>1, <3>2
  <2>2. CASE fill.side # "BUY"
    <3>1. gain = (fill.price - lot.price) * m /\ e = fill.price - lot.price
      BY <1>10, <2>2 DEF gain
    <3>2. (fill.price - lot.price) * m = m * (fill.price - lot.price)
      BY <1>4, <1>5, <1>6
    <3> QED
      BY <3>1, <3>2
  <2> QED
    BY <2>1, <2>2
<1>14. Fifo!Close(fill.price, m)
  BY <1>9, <1>11, <1>12, <1>13 DEF Fifo!Close
<1>15. m \in 1..Len(Held)
  <2>1. Held \in Seq(Prices)
    BY <1>1, UnitsType, ConcatProperties DEF Held, LedgerInv, TypeOK
  <2>2. Len(Held) \in Nat
    BY <2>1, LenProperties
  <2> QED
    BY <1>6, <1>11, <2>2
<1> QED
  BY <1>4, <1>14, <1>15 DEF Fifo!Next, Held

(* a lot that opens adds its units, on the side that is held *)
LEMMA OpenLotFifo ==
  ASSUME FifoInv, LedgerInv', OpenLot
  PROVE  [Fifo!Next]_Fifo!vars
<1> DEFINE lot == [price |-> fill.price, amount |-> fill.left]
           b == Block(fill.price, fill.left)
<1>1. LedgerInv /\ longs \in Seq(Lot) /\ shorts \in Seq(Lot) /\ gross' = gross
  BY DEF FifoInv, LedgerInv, TypeOK, OpenLot, history
<1>2. fill.price \in Prices /\ fill.left \in Nat /\ fill.side \in {"BUY", "SELL"}
  BY <1>1 DEF LedgerInv, TypeOK, OpenLot, FillHasPrice
<1>3. CASE fill.left = 0
  BY <1>1, <1>3 DEF OpenLot, Fifo!vars
<1>4. CASE fill.left # 0
  <2>1. lot \in Lot /\ lot.price = fill.price /\ lot.amount = fill.left
    BY <1>2, <1>4 DEF Lot
  <2>2. fill.left \in UNION {1..a : a \in Amounts}
    <3>1. PICK a \in Amounts : fill.left <= a
      BY <1>4 DEF FifoInv, FillIsSmall
    <3>2. fill.left \in 1..a
      BY <1>2, <1>4, <3>1, ConstantsAssumption
    <3> QED
      BY <3>1, <3>2
  <2>3. CASE fill.side = "BUY"
    <3>1. longs' = Append(longs, lot) /\ shorts' = shorts /\ shorts = <<>>
      BY <1>4, <2>3 DEF OpenLot, Closing
    <3>2. longs' # <<>>
      BY <1>1, <2>1, <3>1, AppendProperties
    <3> HIDE DEF lot
    <3>3. Units(longs') = Units(longs) \o b
      BY <1>1, <2>1, <3>1, UnitsAppend
    <3>4. Held = Units(longs) /\ Held' = Units(longs')
      <4>1. longs' \in Seq(Lot) /\ shorts' \in Seq(Lot) /\ shorts' = <<>>
        BY <3>1 DEF LedgerInv, TypeOK
      <4> QED
        BY <1>1, <3>1, <4>1, HeldIs DEF Held
    <3>5. Side \in {"long", "flat"} /\ Side' = "long"
      BY <3>1, <3>2 DEF Side
    <3>6. Held' = Held \o [i \in 1..fill.left |-> fill.price]
      BY <3>3, <3>4 DEF Block
    <3>7. Fifo!Open("long", fill.price, fill.left)
      BY <1>1, <3>5, <3>6 DEF Fifo!Open, Held, Side
    <3> QED
      BY <1>2, <2>2, <3>7 DEF Fifo!Next, Fifo!Sides
  <2>4. CASE fill.side # "BUY"
    <3>1. shorts' = Append(shorts, lot) /\ longs' = longs /\ longs = <<>>
      BY <1>4, <2>4 DEF OpenLot, Closing
    <3>2. shorts' # <<>>
      BY <1>1, <2>1, <3>1, AppendProperties
    <3> HIDE DEF lot
    <3>3. Units(shorts') = Units(shorts) \o b
      BY <1>1, <2>1, <3>1, UnitsAppend
    <3>4. Held = Units(shorts) /\ Held' = Units(shorts')
      <4>1. longs' \in Seq(Lot) /\ shorts' \in Seq(Lot) /\ longs' = <<>>
        BY <3>1 DEF LedgerInv, TypeOK
      <4> QED
        BY <1>1, <3>1, <4>1, HeldIs DEF Held
    <3>5. Side \in {"short", "flat"} /\ Side' = "short"
      BY <3>1, <3>2 DEF Side
    <3>6. Held' = Held \o [i \in 1..fill.left |-> fill.price]
      BY <3>3, <3>4 DEF Block
    <3>7. Fifo!Open("short", fill.price, fill.left)
      BY <1>1, <3>5, <3>6 DEF Fifo!Open, Held, Side
    <3> QED
      BY <1>2, <2>2, <3>7 DEF Fifo!Next, Fifo!Sides
  <2> QED
    BY <2>3, <2>4
<1> QED
  BY <1>3, <1>4

(* what is fresh is the end of what was held *)
LEMMA UnitsFresh ==
  ASSUME NEW lots \in Seq(Lot), NEW kept \in Fresh(lots)
  PROVE  /\ kept \in Seq(Lot) /\ (lots = <<>> => kept = <<>>)
         /\ \E front \in Seq(Prices) : Units(lots) = front \o Units(kept)
<1>1. kept \in Seq(Lot) /\ (lots = <<>> => kept = <<>>)
  BY FreshType
<1>2. CASE kept = lots
  <2>1. <<>> \in Seq(Prices) /\ Units(lots) = <<>> \o Units(lots)
    BY UnitsType, EmptySeq, ConcatEmptySeq
  <2> QED
    BY <1>1, <1>2, <2>1
<1>3. CASE \E k \in 1..Len(lots) + 1 : kept = SubSeq(lots, k, Len(lots))
  <2>1. PICK k \in 1..Len(lots) + 1 : kept = SubSeq(lots, k, Len(lots))
    BY <1>3
  <2> DEFINE n == Len(lots)
             a == k - 1
  <2>2. n \in Nat /\ k \in Int /\ n \in Int /\ a \in Nat /\ k <= n + 1
        /\ \A i \in k..n : i \in 1..n
    BY <2>1
  <2>3. \A i \in k..n : lots[i] \in Lot
    BY <2>2, ElementOfSeq
  <2>4. /\ Len(kept) = IF k <= n THEN n - k + 1 ELSE 0
        /\ \A i \in 1..n - k + 1 : kept[i] = lots[k + i - 1]
    <3> HIDE DEF n
    <3> QED
      BY <2>1, <2>2, <2>3, SubSeqProperties DEF n
  <2>5. Len(kept) + a = Len(lots)
    BY <2>2, <2>4
  <2>6. Continues(kept, lots, 0, a)
    <3>1. ASSUME NEW i \in 1..Len(kept) PROVE kept[i] = lots[i + a]
      <4>1. i \in 1..n - k + 1 /\ k + i - 1 = i + a
        BY <2>2, <2>5
      <4> QED
        BY <2>4, <4>1
    <3> QED
      BY <3>1 DEF Continues
  <2> HIDE DEF a
  <2>7. PICK front \in Seq(Prices) : Units(lots) = front \o Units(kept)
    <3>1. lots \in Seq(Lot) /\ kept \in Seq(Lot) /\ a \in Nat
      BY <1>1, <2>2 DEF a
    <3> QED
      BY ONLY <3>1, <2>5, <2>6, UnitsWithout
  <2> QED
    BY <1>1, <2>7
<1> QED
  BY <1>2, <1>3 DEF Fresh

(* lots written off are forgotten by the inventory *)
LEMMA CleanupFifo ==
  ASSUME FifoInv, LedgerInv', Cleanup, gross' = gross
  PROVE  [Fifo!Next]_Fifo!vars
<1>1. LedgerInv /\ longs \in Seq(Lot) /\ shorts \in Seq(Lot)
  BY DEF FifoInv, LedgerInv, TypeOK
<1>2. longs' \in Fresh(longs) /\ shorts' \in Fresh(shorts)
  BY DEF Cleanup
<1>3. (longs = <<>> => longs' = <<>>) /\ (shorts = <<>> => shorts' = <<>>)
  BY <1>1, <1>2, UnitsFresh
<1>4. CASE longs = <<>> /\ shorts = <<>>
  BY <1>3, <1>4 DEF Fifo!vars
<1>5. CASE longs # <<>> \/ shorts # <<>>
  <2>1. PICK front \in Seq(Prices) : Lose(front)
    <3>1. CASE longs # <<>>
      <4>1. shorts' = <<>>
        BY <1>1, <1>3, <3>1 DEF LedgerInv, OneSided
      <4>2. PICK front \in Seq(Prices) : Units(longs) = front \o Units(longs')
        BY <1>1, <1>2, UnitsFresh
      <4> QED
        BY <3>1, <4>1, <4>2 DEF Lose
    <3>2. CASE shorts # <<>>
      <4>1. longs' = <<>>
        BY <1>1, <1>3, <3>2 DEF LedgerInv, OneSided
      <4>2. PICK front \in Seq(Prices) : Units(shorts) = front \o Units(shorts')
        BY <1>1, <1>2, UnitsFresh
      <4> QED
        BY <3>2, <4>1, <4>2 DEF Lose
    <3> QED
      BY <1>5, <3>1, <3>2
  <2>2. /\ Fifo!Leave(Len(front)) /\ Len(front) <= Len(Held)
        /\ Len(front) = 0 => Held' = Held /\ Side' = Side
    BY <1>1, <2>1, LoseIsLeave
  <2>3. CASE Len(front) = 0
    BY <2>2, <2>3 DEF Fifo!vars, Held, Side
  <2>4. CASE Len(front) # 0
    <3>1. Held \in Seq(Prices)
      BY <1>1, UnitsType, ConcatProperties DEF Held
    <3>2. Len(Held) \in Nat /\ Len(front) \in Nat
      BY <3>1, LenProperties
    <3>3. Len(front) \in 1..Len(Held)
      BY <2>2, <2>4, <3>2
    <3>4. Fifo!Forget(Len(front))
      BY <2>2 DEF Fifo!Forget
    <3> QED
      BY <3>3, <3>4 DEF Fifo!Next, Held
  <2> QED
    BY <2>3, <2>4
<1> QED
  BY <1>4, <1>5

LEMMA NewSessionFifo ==
  ASSUME ResetSession \/ Crash
  PROVE  Fifo!Next
<1>1. longs' = <<>> /\ shorts' = <<>> /\ gross' = 0
  BY DEF ResetSession, Crash
<1>2. Held' = <<>> /\ Side' = "flat"
  <2>1. <<>> \in Seq(Lot)
    BY EmptySeq
  <2> QED
    BY <1>1, <2>1, HeldIs, UnitsOfNone DEF Held, Side
<1>3. Fifo!Restart
  BY <1>1, <1>2 DEF Fifo!Restart, Held, Side
<1> QED
  BY <1>3 DEF Fifo!Next

LEMMA FifoInit == Init => Fifo!Init
<1> SUFFICES ASSUME Init PROVE Fifo!Init
  OBVIOUS
<1>1. longs = <<>> /\ shorts = <<>> /\ gross = 0
  BY DEF Init
<1>2. Held = <<>> /\ Side = "flat"
  <2>1. <<>> \in Seq(Lot)
    BY EmptySeq
  <2> QED
    BY <1>1, <2>1, HeldIs, UnitsOfNone DEF Held, Side
<1> QED
  BY <1>1, <1>2 DEF Fifo!Init, Held, Side

LEMMA FifoNext == FifoInv /\ LedgerInv' /\ [Next]_vars => [Fifo!Next]_Fifo!vars
<1> SUFFICES ASSUME FifoInv, LedgerInv', [Next]_vars PROVE [Fifo!Next]_Fifo!vars
  OBVIOUS
<1>1. CASE UNCHANGED <<longs, shorts, gross>>
  BY <1>1 DEF Fifo!vars
<1>2. CASE \E s \in {"BUY", "SELL"}, p \in Prices, a \in Amounts : HandleFill(s, p, a)
  BY <1>1, <1>2 DEF HandleFill, session
<1>3. CASE BookFill \/ ReportTrade \/ FillDone \/ LoopStopped \/ WebStop \/ WebStopped \/ WebStart
  BY <1>1, <1>3 DEF BookFill, ReportTrade, FillDone, LoopStopped, WebStop, WebStopped, WebStart,
     session, history
<1>4. CASE PairLot
  BY <1>4, PairLotFifo
<1>5. CASE OpenLot
  BY <1>5, OpenLotFifo
<1>6. CASE TickGoesOn
  BY <1>6, CleanupFifo DEF TickGoesOn, Ticking
<1>7. CASE TickReinvests \/ TickStops
  BY <1>7, CleanupFifo DEF TickReinvests, TickStops, BankFlat, Ticking
<1>8. CASE ResetSession \/ Crash
  BY <1>8, NewSessionFifo
<1>9. CASE UNCHANGED vars
  BY <1>1, <1>9 DEF vars, session, history
<1> QED
  BY <1>2, <1>3, <1>4, <1>5, <1>6, <1>7, <1>8, <1>9 DEF Next

(* The lots, with their partial closes, implement a first-in first-out      *)
(* inventory of single units and record its profit, for any prices, sizes   *)
(* and fees, and whatever stops, starts, write-offs and crashes come        *)
(* between (_pair_fill_into_closed_trades()).                               *)
THEOREM LotsAreFifo == Spec => ImplementsFifo
<1>1. Init => FifoInv
  BY LedgerInit DEF FifoInv, FillIsSmall, Init, NoFill
<1>2. FifoInv /\ [Next]_vars => FifoInv'
  BY LedgerNext, FillSmallNext DEF FifoInv
<1>3. FifoInv => LedgerInv
  BY DEF FifoInv
<1> QED
  BY <1>1, <1>2, <1>3, FifoInit, FifoNext, PTL DEF Spec, ImplementsFifo, Fifo!Spec
=============================================================================
