------------------------- MODULE RiskAndExit_proofs -------------------------
(***************************************************************************)
(* Two components that decide with numbers, and the lemmas about minima,   *)
(* maxima, sums and quotients that both need.                              *)
(*                                                                         *)
(* ExitEngine.  Protection never loosens (NeverLoosens) and the rest of a  *)
(* position is never carried below break-even (BreakEven), for every       *)
(* strategy, every set of prices and ATRs, and every position size.  The   *)
(* properties speak of the last verdict only.  What carries them from one  *)
(* tick to the next is that some stop that is in force now is at least as  *)
(* tight as the tightest one there ever was (StopsHold): the trailing stop *)
(* only ratchets, the soft stop only moves up to break-even, and once the  *)
(* first minute is over it stays in force.  The engine's order then does   *)
(* the rest: whatever stop is hit, one of its first five conditions, which *)
(* close all of the position, comes before the others.                     *)
(*                                                                         *)
(* Risk.  Promotions are earned, tiers are deserved and grids fit, for     *)
(* every table of tiers, every rule of promotion and demotion, every       *)
(* number of symbols and every history.  What a promotion rests on is that *)
(* the counter of a tier is at most one ahead of the trades and sessions   *)
(* that have ended in it, and not ahead at all as long as a directional    *)
(* trade is there that no classification has seen (CountsOnce).            *)
(***************************************************************************)
EXTENDS ExitEngine, Risk, FiniteSetTheorems, SequenceTheorems, TLAPS

-----------------------------------------------------------------------------
(* Minima and maxima *)

LEMMA LeastOf ==
  ASSUME NEW T \in SUBSET Nat, T # {}
  PROVE  \E m \in T : \A n \in T : m <= n
<1> DEFINE Less == {p \in Nat \X Nat : p[1] < p[2]}
<1>1. OpToRel(<, Nat) = Less
  BY DEF OpToRel
<1>2. IsWellFoundedOn(Less, Nat)
  BY <1>1, NatLessThanWellFounded
<1>3. PICK x \in T : \A y \in T : ~ (<<y, x>> \in Less)
  BY <1>2, WFMin, Zenon
<1>4. ASSUME NEW y \in T PROVE x <= y
  <2>1. ~(<<y, x>> \in Less)
    BY <1>3
  <2>2. y \in Nat /\ x \in Nat
    OBVIOUS
  <2>3. ~(y < x)
    BY <2>1, <2>2
  <2> QED
    BY <2>2, <2>3
<1> QED
  BY <1>4

LEMMA MinIsLeast ==
  ASSUME NEW T \in SUBSET Nat, T # {}
  PROVE  Min(T) \in T /\ \A n \in T : Min(T) <= n
<1>1. PICK m \in T : \A n \in T : m <= n
  BY LeastOf
<1> QED
  BY <1>1 DEF Min

LEMMA GreaterOfTwo ==
  ASSUME NEW a \in Int, NEW b \in Int
  PROVE  Greater(a, b) \in Int /\ Greater(a, b) >= a /\ Greater(a, b) >= b
  BY DEF Greater

LEMMA MaxOfTwo ==
  ASSUME NEW a \in Int, NEW b \in Int
  PROVE  /\ Max({a, b}) \in {a, b}
         /\ Max({a, b}) >= a /\ Max({a, b}) >= b
<1>1. \E x \in {a, b} : \A y \in {a, b} : x >= y
  OBVIOUS
<1> QED
  BY <1>1 DEF Max

LEMMA MinOfTwo ==
  ASSUME NEW a \in Int, NEW b \in Int
  PROVE  /\ Min({a, b}) \in {a, b}
         /\ Min({a, b}) <= a /\ Min({a, b}) <= b
<1>1. \E x \in {a, b} : \A y \in {a, b} : x <= y
  OBVIOUS
<1> QED
  BY <1>1 DEF Min

(* a set of numbers up to n has a greatest *)
LEMMA GreatestUpTo ==
  ASSUME NEW n \in Nat, NEW T \in SUBSET (0..n), T # {}
  PROVE  Max(T) \in T
<1> DEFINE U == {v \in Nat : n - v \in T}
<1>1. U \in SUBSET Nat /\ U # {}
  <2>1. PICK x \in T : x \in 0..n
    OBVIOUS
  <2>2. n - x \in Nat /\ n - (n - x) = x
    BY <2>1
  <2>3. n - x \in U
    BY <2>2
  <2> QED
    BY <2>3
<1>2. PICK u \in U : \A v \in U : u <= v
  <2> HIDE DEF U
  <2> QED
    BY <1>1, LeastOf
<1>3. u \in Nat /\ n - u \in T
  BY <1>2
<1>4. ASSUME NEW y \in T PROVE n - u >= y
  <2>3. y \in 0..n /\ n - y \in Nat /\ n - (n - y) = y
    OBVIOUS
  <2>1. n - y \in U
    BY <2>3
  <2>2. u <= n - y
    BY <1>2, <2>1
  <2> QED
    BY <1>3, <2>2, <2>3
<1> QED
  BY <1>3, <1>4 DEF Max

-----------------------------------------------------------------------------
(* The sums of the first 0, 1, ... n elements of a sequence *)

Sums(f, s, n) == f = [i \in 0..n |-> IF i = 0 THEN 0 ELSE f[i - 1] + s[i]]

LEMMA SumsExist ==
  ASSUME NEW s \in Seq(Int), NEW n \in 0..Len(s)
  PROVE  \E f : Sums(f, s, n)
<1> DEFINE Bad == {k \in 0..Len(s) : ~\E f : Sums(f, s, k)}
<1> SUFFICES ASSUME Bad # {} PROVE FALSE
  OBVIOUS
<1>0. Bad \in SUBSET Nat
  OBVIOUS
<1>1. PICK k \in Bad : \A j \in Bad : k <= j
  <2> HIDE DEF Bad
  <2> QED
    BY <1>0, LeastOf
<1>2. k \in 0..Len(s) /\ ~\E f : Sums(f, s, k)
  BY <1>1
<1>3. CASE k = 0
  <2>1. Sums([i \in 0..0 |-> 0], s, 0)
    BY DEF Sums
  <2> QED
    BY <1>2, <1>3, <2>1
<1>4. CASE k # 0
  <2>1. k - 1 \in 0..Len(s) /\ ~(k <= k - 1)
    BY <1>2, <1>4
  <2>2. PICK f : Sums(f, s, k - 1)
    BY <1>1, <2>1
  <2> DEFINE g == [i \in 0..k |-> IF i = k THEN f[k - 1] + s[k] ELSE f[i]]
  <2>3. \A i \in 0..k - 1 : f[i] = IF i = 0 THEN 0 ELSE f[i - 1] + s[i]
    BY <2>2 DEF Sums
  <2>4. ASSUME NEW i \in 0..k
        PROVE  g[i] = IF i = 0 THEN 0 ELSE g[i - 1] + s[i]
    <3>1. CASE i = k
      <4>1. i # 0 /\ i - 1 \in 0..k /\ i - 1 # k
        BY <3>1, <1>4, <1>2
      <4>2. g[i - 1] = f[k - 1] /\ g[i] = f[k - 1] + s[k]
        BY <4>1, <3>1
      <4> QED
        BY <4>1, <4>2, <3>1
    <3>2. CASE i # k
      <4>1. i \in 0..k - 1 /\ g[i] = f[i]
        BY <3>2, <1>2
      <4>2. CASE i # 0
        <5>1. i - 1 \in 0..k /\ i - 1 # k
          BY <4>1, <4>2, <1>2
        <5>2. g[i - 1] = f[i - 1]
          BY <5>1
        <5> QED
          BY <4>1, <4>2, <5>2, <2>3
      <4> QED
        BY <4>1, <4>2, <2>3
    <3> QED
      BY <3>1, <3>2
  <2>5. g = [j \in 0..k |-> g[j]]
    OBVIOUS
  <2> HIDE DEF g
  <2>6. Sums(g, s, k)
    BY <2>4, <2>5 DEF Sums
  <2> QED
    BY <1>2, <2>6
<1> QED
  BY <1>3, <1>4

LEMMA TotalIs ==
  ASSUME NEW s \in Seq(Int)
  PROVE  \E f : Sums(f, s, Len(s)) /\ Total(s) = f[Len(s)]
<1> DEFINE f == CHOOSE h : Sums(h, s, Len(s))
<1>1. Sums(f, s, Len(s))
  BY SumsExist
<1>2. Total(s) = f[Len(s)]
  BY DEF Total, Sums
<1> QED
  BY <1>1, <1>2

(* Sums stay in a set of integers that is closed under adding an element *)
LEMMA SumsIn ==
  ASSUME NEW N \in {Nat, Int}, NEW s \in Seq(N), NEW f, Sums(f, s, Len(s)), NEW n \in 0..Len(s)
  PROVE  f[n] \in N
<1> DEFINE Bad == {i \in 0..Len(s) : f[i] \notin N}
<1> SUFFICES ASSUME Bad # {} PROVE FALSE
  OBVIOUS
<1>0. Bad \in SUBSET Nat
  OBVIOUS
<1>1. PICK i \in Bad : \A j \in Bad : i <= j
  <2> HIDE DEF Bad
  <2> QED
    BY <1>0, LeastOf
<1>2. i \in 0..Len(s) /\ f[i] \notin N
  BY <1>1
<1>3. f[i] = IF i = 0 THEN 0 ELSE f[i - 1] + s[i]
  BY <1>2 DEF Sums
<1>4. i # 0
  BY <1>2, <1>3
<1>5. f[i - 1] \in N
  <2>1. i - 1 \in 0..Len(s) /\ ~(i <= i - 1)
    BY <1>2, <1>4
  <2> QED
    BY <2>1, <1>1
<1>6. s[i] \in N
  BY <1>2, <1>4, ElementOfSeq
<1>7. CASE N = Nat
  BY <1>2, <1>3, <1>4, <1>5, <1>6, <1>7
<1>8. CASE N = Int
  BY <1>2, <1>3, <1>4, <1>5, <1>6, <1>8
<1> QED
  BY <1>7, <1>8

LEMMA FunctionIsSeq ==
  ASSUME NEW n \in Nat, NEW S, NEW f \in [1..n -> S]
  PROVE  f \in Seq(S)
  BY SeqDef

LEMMA TotalNat ==
  ASSUME NEW s \in Seq(Nat)
  PROVE  Total(s) \in Nat
<1>1. s \in Seq(Int) /\ Len(s) \in 0..Len(s)
  OBVIOUS
<1>2. PICK f : Sums(f, s, Len(s)) /\ Total(s) = f[Len(s)]
  BY <1>1, TotalIs
<1> QED
  BY <1>1, <1>2, SumsIn

LEMMA MaxWithZero ==
  ASSUME NEW x \in Int
  PROVE  Max({0, x}) \in Nat /\ Max({0, x}) >= x /\ Max({0, x}) \in {0, x}
<1> DEFINE o == 0
<1>1. o \in Int /\ o = 0
  OBVIOUS
<1> HIDE DEF o
<1>2. Max({o, x}) \in {o, x} /\ Max({o, x}) >= o /\ Max({o, x}) >= x
  BY <1>1, MaxOfTwo
<1> QED
  BY <1>1, <1>2

-----------------------------------------------------------------------------
(* Arithmetic of products and quotients *)

LEMMA TimesMonotone ==
  ASSUME NEW a \in Int, NEW b \in Int, NEW c \in Nat, a <= b
  PROVE  a * c <= b * c
<1>1. b - a \in Nat
  OBVIOUS
<1>2. (b - a) * c \in Nat
  BY <1>1
<1>3. b * c - a * c = (b - a) * c
  OBVIOUS
<1>4. a * c \in Int /\ b * c \in Int
  OBVIOUS
<1> QED
  BY <1>2, <1>3, <1>4

LEMMA Quotient ==
  ASSUME NEW a \in Nat, NEW b \in Nat \ {0}
  PROVE  a \div b \in Nat /\ (a \div b) * b <= a
  OBVIOUS

-----------------------------------------------------------------------------
(***************************************************************************)
(* ExitEngine                                                              *)
(***************************************************************************)

Positions == [
    amount : 1..Amount, side : {"LONG", "SHORT"}, soft : Int, trail : Int, active : BOOLEAN,
    tp1a : BOOLEAN, mfe : Nat, mae : Nat, beyond : Nat, against : Nat]

(* the soft stop is where the entry or TP1a has put it *)
SoftOK(p) == p.soft = IF p.tp1a THEN Greater(BreakevenOffset, 0) ELSE -SoftSL

(* one of the stops in force is as tight as the tightest there ever was *)
StopsHold == \E s \in InForce(pos) : best <= s

ExitInv ==
    /\ TypeOK
    /\ IsOpen => /\ pos \in Positions
                 /\ SoftOK(pos)
                 /\ pos.tp1a => SoftInForce
                 /\ StopsHold
    /\ NeverLoosens
    /\ BreakEven

-----------------------------------------------------------------------------
(* The position that a tick has measured and trailed *)

LEMMA MeasuredOK ==
  ASSUME NEW p \in Positions, NEW x \in Int
  PROVE  LET q == Measured(p, x)
         IN /\ q \in Positions
            /\ q.amount = p.amount /\ q.soft = p.soft /\ q.tp1a = p.tp1a
            /\ q.active = p.active /\ q.trail = p.trail
<1>1. TP1a \in Int
  BY ExitEngineAssumption
<1>2. /\ p.mfe \in Nat /\ p.mae \in Nat /\ p.beyond \in Nat /\ p.against \in Nat
      /\ x - TP1a \in Int /\ TP1a - x \in Int /\ -x \in Int
  BY <1>1 DEF Positions
<1>3. /\ Greater(p.mfe, x) \in Nat /\ Greater(p.mae, -x) \in Nat
      /\ Greater(p.beyond, x - TP1a) \in Nat /\ Greater(p.against, TP1a - x) \in Nat
  BY <1>2 DEF Greater
<1> QED
  BY <1>3 DEF Measured, Positions

LEMMA DecayFactorInt ==
  ASSUME NEW p, NEW x, NEW ratio
  PROVE  DecayFactor(p, x, ratio) \in Int
<1> DEFINE S == {1000} \cup {d.factor : d \in {e \in DecayTable : /\ Over(ratio, e.lo)
                                                                  /\ ~Over(ratio, e.hi)
                                                                  /\ DecayOver(e.by, p, x, e.pct)}}
<1>1. \A d \in DecayTable : d.factor \in Nat
  BY DEF DecayTable, Decay
<1>2. S \in SUBSET Nat /\ S # {}
  BY <1>1
<1>3. Min(S) \in S
  BY <1>2, MinIsLeast
<1> QED
  BY <1>2, <1>3 DEF DecayFactor

LEMMA NormalFactorInt ==
  ASSUME NEW p, NEW x, NEW ratio
  PROVE  NormalFactor(p, x, ratio) \in Int
<1>1. Quality(p) \in Int
  BY DEF Quality
<1>2. Stage(x) \in Int
  BY DEF Stage
<1>3. Weighted(p, x) \in Int
  BY <1>1, <1>2 DEF Weighted
<1> QED
  BY <1>3, DecayFactorInt DEF NormalFactor

LEMMA FactorInt ==
  ASSUME NEW p, NEW x
  PROVE  Factor(p, x) \in Int
<1>1. \A r : ProbationFactor(r) \in Int
  BY DEF ProbationFactor
<1> QED
  BY <1>1, NormalFactorInt, DecayFactorInt DEF Factor

LEMMA TrailInt ==
  ASSUME NEW p \in Positions, NEW atr \in ATRs, NEW f \in Int
  PROVE  Trail(p, atr, f) \in Int
<1>1. atr \in Int /\ p.mfe \in Int
  BY ExitEngineAssumption DEF Positions
<1>2. 12 * atr * f \in Int
  BY <1>1
<1> QED
  BY <1>1, <1>2 DEF Trail, Fine

(* A tick moves no stop but the trailing one, and that only tightens. *)
LEMMA TrailedOK ==
  ASSUME NEW p \in Positions, NEW x \in Int, NEW atr \in ATRs
  PROVE  LET q == Trailed(p, x, atr)
         IN /\ q \in Positions
            /\ q.amount = p.amount /\ q.soft = p.soft /\ q.tp1a = p.tp1a
            /\ p.active => q.active /\ q.trail >= p.trail
<1> DEFINE q == Activated(p, x, atr)
<1>1. Trail(p, atr, 1000) \in Int
  BY TrailInt
<1>2. /\ q \in Positions
      /\ q.amount = p.amount /\ q.soft = p.soft /\ q.tp1a = p.tp1a
      /\ p.active => q.active /\ q.trail = p.trail
  <2> DEFINE t == Trail(p, atr, 1000)
             new == [p EXCEPT !.active = TRUE, !.trail = t]
  <2>1. q = p \/ (q = new /\ ~p.active)
    BY DEF Activated
  <2>2. t \in Int
    BY <1>1
  <2> HIDE DEF t
  <2>3. [p EXCEPT !.trail = t] \in Positions
    BY <2>2 DEF Positions
  <2>4. new \in Positions
    BY <2>2 DEF Positions
  <2>5. new.amount = p.amount /\ new.soft = p.soft /\ new.tp1a = p.tp1a
    BY <2>2 DEF Positions
  <2> HIDE DEF new
  <2> QED
    BY <2>1, <2>4, <2>5
<1> HIDE DEF q
<1>3. Trail(q, atr, Factor(q, x)) \in Int
  BY <1>2, FactorInt, TrailInt
<1> DEFINE r == Ratcheted(q, x, atr)
<1>4. q.trail \in Int
  BY <1>2 DEF Positions
<1>5. /\ r \in Positions
      /\ r.amount = q.amount /\ r.soft = q.soft /\ r.tp1a = q.tp1a
      /\ r.active = q.active /\ r.trail >= q.trail
  BY <1>2, <1>3, <1>4 DEF Ratcheted, Positions
<1>6. Trailed(p, x, atr) = IF q.active THEN r ELSE q
  BY DEF Trailed, q
<1> HIDE DEF r
<1>7. r.trail \in Int /\ p.trail \in Int
  BY <1>5 DEF Positions
<1> QED
  BY <1>2, <1>4, <1>5, <1>6, <1>7

-----------------------------------------------------------------------------
(* The engine's answer *)

LEMMA ShareOfAmount ==
  ASSUME NEW p \in Positions, NEW pct \in 1..99
  PROVE  Share(p, pct) \in Nat
<1>1. p.amount \in Nat /\ pct \in Nat
  BY ExitEngineAssumption DEF Positions
<1>2. p.amount * pct \in Nat
  BY <1>1
<1> QED
  BY <1>2 DEF Share

(* It is the first condition that holds, or none does. *)
LEMMA FirstDue ==
  ASSUME NEW p, NEW x
  PROVE  LET C == Conditions(p, x)
             v == EvaluateAllExits(p, x)
         IN \/ v = NoExit /\ \A i \in 1..9 : ~C[i].due
            \/ \E i \in 1..9 : v = C[i] /\ C[i].due /\ \A j \in 1..9 : C[j].due => i <= j
<1> DEFINE C == Conditions(p, x)
           due == {i \in DOMAIN C : C[i].due}
<1>1. DOMAIN C = 1..9
  BY DEF Conditions
<1> HIDE DEF C
<1>2. CASE due = {}
  BY <1>1, <1>2 DEF EvaluateAllExits, C
<1>3. CASE due # {}
  <2>1. due \in SUBSET Nat
    BY <1>1
  <2> DEFINE m == Min(due)
  <2>2. m \in due /\ \A n \in due : m <= n
    BY <1>3, <2>1, MinIsLeast
  <2>3. EvaluateAllExits(p, x) = C[m]
    BY <1>3 DEF EvaluateAllExits, C
  <2> HIDE DEF m
  <2> QED
    BY <1>1, <2>2, <2>3 DEF C
<1> QED
  BY <1>2, <1>3 DEF C

(* whatever stop is hit, all of the position is to be closed *)
LEMMA StopHit ==
  ASSUME NEW p \in Positions, NEW x \in Int, NEW s \in InForce(p), Fine * x <= s
  PROVE  LET v == EvaluateAllExits(p, x) IN v.due /\ v.amount = p.amount
<1> DEFINE C == Conditions(p, x)
<1>1. /\ C[1].amount = p.amount /\ C[2].amount = p.amount /\ C[3].amount = p.amount
      /\ C[4].amount = p.amount /\ C[5].amount = p.amount
  BY DEF Conditions, Condition
<1>2. HardHit(x) \/ SoftHit(p, x) \/ TrailHit(p, x)
  <2>1. HardSL \in Int /\ p.soft \in Int
    BY ExitEngineAssumption DEF Positions
  <2>2. CASE s = -Fine * HardSL
    BY <2>1, <2>2 DEF HardHit, Fine
  <2>3. CASE SoftInForce /\ s = Fine * p.soft
    BY <2>1, <2>3 DEF SoftHit, Fine
  <2>4. CASE p.active /\ s = p.trail
    BY <2>4 DEF TrailHit
  <2> QED
    BY <2>2, <2>3, <2>4 DEF InForce
<1>3. /\ HardHit(x) => C[2].due
      /\ SoftHit(p, x) => C[3].due
      /\ TrailHit(p, x) => C[5].due
  BY DEF Conditions, Condition
<1> HIDE DEF C
<1>4. PICK i \in {2, 3, 5} : C[i].due
  BY <1>2, <1>3
<1>5. PICK k \in 1..9 : /\ EvaluateAllExits(p, x) = C[k] /\ C[k].due
                        /\ \A j \in 1..9 : C[j].due => k <= j
  BY <1>4, FirstDue DEF C
<1>6. k \in 1..5
  BY <1>4, <1>5
<1> QED
  BY <1>1, <1>5, <1>6

(* what a condition that closes only a part says of the position *)
LEMMA PartsOfEngine ==
  ASSUME NEW p \in Positions, NEW x \in Int
  PROVE  LET v == EvaluateAllExits(p, x)
         IN /\ v.amount \in Nat
            /\ v.name = "TP1a" => Held(p) /\ TP1aHit(p, x)
<1> DEFINE C == Conditions(p, x)
<1>1. \A i \in 1..9 : C[i].amount \in {p.amount, Share(p, TP1aPct), Share(p, PartialPct)}
  BY DEF Conditions, Condition
<1>2. \A i \in 1..9 : C[i].name = "TP1a" => i = 6
  BY DEF Conditions, Condition
<1>3. C[6].due => Held(p) /\ TP1aHit(p, x)
  BY DEF Conditions, Condition
<1>4. NoExit.amount = 0 /\ NoExit.name # "TP1a"
  BY DEF NoExit, Condition, None
<1>5. p.amount \in Nat /\ Share(p, TP1aPct) \in Nat /\ Share(p, PartialPct) \in Nat
  BY ExitEngineAssumption, ShareOfAmount DEF Positions
<1> HIDE DEF C
<1> DEFINE v == EvaluateAllExits(p, x)
<1>6. v = NoExit \/ \E i \in 1..9 : v = C[i] /\ C[i].due
  BY FirstDue DEF C
<1> HIDE DEF v
<1>7. v.amount \in Nat /\ (v.name = "TP1a" => Held(p) /\ TP1aHit(p, x))
  BY <1>1, <1>2, <1>3, <1>4, <1>5, <1>6
<1> QED
  BY <1>7 DEF v

-----------------------------------------------------------------------------
(* A tick *)

(* the tightest stop after a tick is as tight as one that is in force *)
LEMMA TightestHolds ==
  ASSUME NEW p \in Positions, best \in Int, NEW s \in InForce(p), best <= s
  PROVE  LET b == Max({best} \cup InForce(p))
         IN b \in Int /\ \E t \in InForce(p) : b <= t
<1> DEFINE hard == -Fine * HardSL
           soft == Fine * p.soft
           S == {best} \cup InForce(p)
<1>1. hard \in Int /\ soft \in Int /\ p.trail \in Int
  BY ExitEngineAssumption DEF Positions, Fine
<1>2. InForce(p) \subseteq {hard, soft, p.trail} /\ hard \in InForce(p)
  BY DEF InForce
<1>3. soft \in InForce(p) \/ InForce(p) \subseteq {hard, p.trail}
  BY DEF InForce
<1>4. p.trail \in InForce(p) \/ InForce(p) \subseteq {hard, soft}
  BY DEF InForce
<1> HIDE DEF hard, soft
<1>5. \E m \in InForce(p) : \A t \in InForce(p) : m >= t
  <2> DEFINE gr == Greater(hard, Greater(IF soft \in InForce(p) THEN soft ELSE hard,
                                         IF p.trail \in InForce(p) THEN p.trail ELSE hard))
  <2>1. gr \in InForce(p) /\ \A t \in {hard, soft, p.trail} : t \in InForce(p) => gr >= t
    BY <1>1, <1>2, <1>3, <1>4 DEF Greater
  <2> HIDE DEF gr
  <2> QED
    BY <2>1, <1>2
<1>6. PICK m \in InForce(p) : \A t \in InForce(p) : m >= t
  BY <1>5
<1>7. m \in Int /\ s \in Int
  BY <1>1, <1>2
<1>8. m \in S /\ \A t \in S : m >= t
  BY <1>6, <1>7
<1> DEFINE b == Max(S)
<1>9. b \in S /\ \A t \in S : b >= t
  BY <1>8 DEF Max
<1>10. b \in Int
  BY <1>9, <1>1, <1>2
<1> HIDE DEF b
<1>11. b <= m
  BY <1>6, <1>7, <1>9, <1>10
<1> QED
  BY <1>10, <1>11 DEF b

LEMMA HeldIsOld ==
  ASSUME NEW p, age \in 1..6, Held(p)
  PROVE  SoftInForce
  BY DEF Held, SoftInForce, AtLeast, Ages

(* What the answer to a verdict leaves of the position: its stops are as   *)
(* tight as they were, and its soft stop moves up to break-even with TP1a. *)
AsProtected(p, q, x) ==
    /\ q \in Positions
    /\ SoftOK(q)
    /\ q.tp1a => SoftInForce
    /\ q.tp1a /\ ~p.tp1a => x >= TP1a
    /\ q.amount <= p.amount
    /\ q.active = p.active /\ q.trail = p.trail
    /\ q.soft >= p.soft

LEMMA SameIsProtected ==
  ASSUME NEW p \in Positions, NEW x, SoftOK(p), p.tp1a => SoftInForce
  PROVE  AsProtected(p, p, x)
  BY ExitEngineAssumption DEF AsProtected, Positions

LEMMA LessIsProtected ==
  ASSUME NEW p \in Positions, NEW x, SoftOK(p), p.tp1a => SoftInForce,
         NEW a \in Nat, a < p.amount
  PROVE  LET q == [p EXCEPT !.amount = @ - a] IN AsProtected(p, q, x) /\ q.tp1a = p.tp1a
<1> DEFINE q == [p EXCEPT !.amount = @ - a]
<1>1. p.amount \in 1..Amount /\ Amount \in Nat /\ p.soft \in Int
  BY ExitEngineAssumption DEF Positions
<1>2. p.amount - a \in 1..Amount /\ p.amount - a <= p.amount
  BY <1>1
<1>3. q \in Positions
  BY <1>2 DEF Positions
<1>4. /\ q.amount = p.amount - a /\ q.tp1a = p.tp1a /\ q.soft = p.soft
      /\ q.active = p.active /\ q.trail = p.trail
  BY DEF Positions
<1> HIDE DEF q
<1>5. AsProtected(p, q, x) /\ q.tp1a = p.tp1a
  BY <1>1, <1>2, <1>3, <1>4 DEF AsProtected, SoftOK
<1> QED
  BY <1>5 DEF q

LEMMA TP1aIsProtected ==
  ASSUME NEW p \in Positions, NEW x, SoftOK(p), SoftInForce, ~p.tp1a, x >= TP1a,
         NEW q \in Positions, q.amount <= p.amount, q.soft = p.soft,
         q.active = p.active, q.trail = p.trail
  PROVE  AsProtected(p, AtTP1a(q), x) /\ AtTP1a(q).tp1a
<1> DEFINE r == AtTP1a(q)
           soft == Greater(BreakevenOffset, 0)
<1>1. SoftSL \in Nat /\ soft \in Int /\ soft >= 0
  <2>1. SoftSL \in Nat /\ BreakevenOffset \in Int
    BY ExitEngineAssumption
  <2> QED
    BY <2>1 DEF Greater
<1> HIDE DEF soft
<1>2. r = [q EXCEPT !.tp1a = TRUE, !.soft = soft]
  BY DEF AtTP1a, soft
<1>3. r \in Positions
  BY <1>1, <1>2 DEF Positions
<1>4. /\ r.tp1a = TRUE /\ r.soft = soft /\ r.amount = q.amount
      /\ r.active = q.active /\ r.trail = q.trail
  BY <1>2 DEF Positions
<1> HIDE DEF r
<1>5. SoftOK(r)
  BY <1>4 DEF SoftOK, soft
<1>6. p.soft = -SoftSL
  BY DEF SoftOK
<1>7. AsProtected(p, r, x) /\ r.tp1a
  BY <1>1, <1>3, <1>4, <1>5, <1>6 DEF AsProtected
<1> QED
  BY <1>7 DEF r

LEMMA AnsweredKeeps ==
  ASSUME NEW p \in Positions, NEW x \in Int, SoftOK(p), p.tp1a => SoftInForce,
         age \in 1..6, since \in {"never", "probation", "initial", "later"}, p.tp1a = (since # "never"),
         NEW v, v = EvaluateAllExits(p, x), Answered(p, v) \/ Refused(p, v)
  PROVE  /\ since' \in {"never", "probation", "initial", "later"}
         /\ pos' # NoPos => /\ AsProtected(p, pos', x)
                            /\ pos'.tp1a = (since' # "never")
<1>1. v.amount \in Nat /\ (v.name = "TP1a" => Held(p) /\ TP1aHit(p, x))
  BY PartsOfEngine
<1>2. CASE Holds(p, v) \/ Refused(p, v)
  BY <1>2, SameIsProtected DEF Holds, Refused
<1>3. CASE Exits(p, v)
  BY <1>3 DEF Exits
<1>4. CASE TakesProfit(p, v)
  <2> DEFINE q == [p EXCEPT !.amount = IF TooSmall(v) THEN @ ELSE @ - v.amount]
  <2>1. v.amount < p.amount /\ ~p.tp1a /\ x >= TP1a /\ SoftInForce
    BY <1>1, <1>4, HeldIsOld DEF TakesProfit, Partial, TP1aHit
  <2>2. q = p \/ q = [p EXCEPT !.amount = @ - v.amount]
    BY DEF Positions
  <2>3. AsProtected(p, q, x) /\ q.tp1a = p.tp1a /\ q.soft = p.soft
    <3>1. CASE q = p
      BY <3>1, SameIsProtected
    <3>2. CASE q = [p EXCEPT !.amount = @ - v.amount]
      <4>1. AsProtected(p, q, x) /\ q.tp1a = p.tp1a
        BY <1>1, <2>1, <3>2, LessIsProtected
      <4>2. q.soft = p.soft
        BY <3>2 DEF Positions
      <4> QED
        BY <4>1, <4>2
    <3> QED
      BY <2>2, <3>1, <3>2
  <2>4. pos' = AtTP1a(q) /\ since' = "probation"
    BY <1>4 DEF TakesProfit
  <2> HIDE DEF q
  <2>5. AsProtected(p, AtTP1a(q), x) /\ AtTP1a(q).tp1a
    BY <2>1, <2>3, TP1aIsProtected DEF AsProtected
  <2>6. AtTP1a(q).tp1a = TRUE
    BY <2>5 DEF AsProtected, Positions
  <2> QED
    BY <2>4, <2>5, <2>6
<1>5. CASE ScalesOut(p, v)
  <2>1. v.amount < p.amount /\ pos' = [p EXCEPT !.amount = @ - v.amount] /\ since' = since
    BY <1>5 DEF ScalesOut, Partial
  <2>2. AsProtected(p, pos', x) /\ pos'.tp1a = p.tp1a
    BY <1>1, <2>1, LessIsProtected
  <2> QED
    BY <2>1, <2>2
<1> QED
  BY <1>2, <1>3, <1>4, <1>5 DEF Answered
LEMMA TickKeeps ==
  ASSUME ExitInv, NEW served \in BOOLEAN, Tick(served)
  PROVE  ExitInv'
<1> USE DEF ExitInv
<1>1. PICK x \in Moves, atr \in ATRs :
        LET p == Trailed(Measured(pos, x), x, atr)
            v == EvaluateAllExits(p, x)
        IN /\ last' = x
           /\ best' = Max({best} \cup InForce(p))
           /\ verdict' = v
           /\ Answered(p, v) \/ Refused(p, v)
  BY DEF Tick
<1> DEFINE m == Measured(pos, x)
           p == Trailed(m, x, atr)
           v == EvaluateAllExits(p, x)
<1>2. /\ IsOpen /\ age' = age
      /\ pos \in Positions /\ SoftOK(pos)
      /\ age \in 1..6 /\ best \in Int /\ since \in {"never", "probation", "initial", "later"}
      /\ pos.tp1a = (since # "never")
      /\ pos.tp1a => SoftInForce
  BY DEF Tick, TypeOK
<1>3. x \in Int
  BY ExitEngineAssumption
<1>4. /\ m \in Positions
      /\ m.amount = pos.amount /\ m.soft = pos.soft /\ m.tp1a = pos.tp1a
      /\ m.active = pos.active /\ m.trail = pos.trail
  BY <1>2, <1>3, MeasuredOK
<1> HIDE DEF m
<1>5. /\ p \in Positions
      /\ p.amount = m.amount /\ p.soft = m.soft /\ p.tp1a = m.tp1a
      /\ m.active => p.active /\ p.trail >= m.trail
  BY <1>3, <1>4, TrailedOK
<1>6. /\ last' = x
      /\ best' = Max({best} \cup InForce(p))
      /\ verdict' = v
      /\ Answered(p, v) \/ Refused(p, v)
  BY <1>1 DEF m
<1> HIDE DEF p
<1>7. SoftOK(p) /\ (p.tp1a => SoftInForce) /\ p.tp1a = (since # "never")
  BY <1>2, <1>4, <1>5 DEF SoftOK
<1>8. \E s \in InForce(p) : best <= s
  <2>1. PICK s \in InForce(pos) : best <= s
    BY <1>2 DEF StopsHold
  <2>2. s \in InForce(p) \/ (pos.active /\ s = pos.trail)
    BY <1>4, <1>5 DEF InForce
  <2>3. CASE pos.active /\ s = pos.trail
    <3>1. p.trail \in InForce(p) /\ p.trail >= s
      BY <1>4, <1>5, <2>3 DEF InForce
    <3>2. p.trail \in Int /\ s \in Int
      BY <1>2, <1>5, <2>3 DEF Positions
    <3>3. best <= p.trail
      BY <1>2, <2>1, <3>1, <3>2
    <3> QED
      BY <3>1, <3>3
  <2> QED
    BY <2>1, <2>2, <2>3
<1>9. best' \in Int /\ \E s \in InForce(p) : best' <= s
  BY <1>2, <1>5, <1>6, <1>8, TightestHolds
<1>10. /\ since' \in {"never", "probation", "initial", "later"}
       /\ pos' # NoPos => AsProtected(p, pos', x) /\ pos'.tp1a = (since' # "never")
  BY <1>2, <1>3, <1>5, <1>6, <1>7, AnsweredKeeps
<1>11. ASSUME NEW s \in InForce(p), Fine * x <= s PROVE v.due /\ v.amount = p.amount
  BY <1>3, <1>5, <1>11, StopHit
<1>12. \A s \in InForce(p) : s \in Int
  BY <1>5, ExitEngineAssumption DEF InForce, Positions, Fine
<1> HIDE DEF v
<1>13. CASE pos' = NoPos
  BY <1>2, <1>6, <1>9, <1>10, <1>13 DEF TypeOK, IsOpen, NeverLoosens, BreakEven
<1>14. CASE pos' # NoPos
  <2>1. /\ pos' \in Positions /\ SoftOK(pos') /\ (pos'.tp1a => SoftInForce)
        /\ pos'.tp1a /\ ~p.tp1a => x >= TP1a
        /\ pos'.amount <= p.amount /\ pos'.active = p.active /\ pos'.trail = p.trail
        /\ pos'.soft >= p.soft
        /\ pos'.tp1a = (since' # "never")
    BY <1>10, <1>14 DEF AsProtected
  <2>2. TypeOK'
    BY <1>2, <1>6, <1>9, <1>10, <2>1 DEF TypeOK, IsOpen, Positions
  <2>3. StopsHold'
    <3>1. PICK s \in InForce(p) : best' <= s
      BY <1>9
    <3>2. SoftInForce' = SoftInForce
      BY <1>2 DEF SoftInForce, AtLeast
    <3>3. s \in InForce(pos') \/ (SoftInForce /\ s = Fine * p.soft)
      BY <2>1 DEF InForce
    <3>4. CASE SoftInForce /\ s = Fine * p.soft
      <4>1. pos'.soft \in Int /\ p.soft \in Int
        BY <1>5, <2>1 DEF Positions
      <4>2. best' <= Fine * pos'.soft
        BY <1>9, <2>1, <3>1, <3>4, <4>1 DEF Fine
      <4>3. Fine * pos'.soft \in InForce(pos')
        BY <3>4 DEF InForce
      <4>4. \E t \in InForce(pos') : best' <= t
        BY <4>2, <4>3
      <4> QED
        BY <3>2, <4>4 DEF StopsHold, InForce
    <3>5. CASE s \in InForce(pos')
      <4>1. \E t \in InForce(pos') : best' <= t
        BY <3>1, <3>5
      <4> QED
        BY <3>2, <4>1 DEF StopsHold, InForce
    <3> QED
      BY <3>3, <3>4, <3>5
  <2>4. NeverLoosens'
    <3>1. SUFFICES ASSUME Fine * x <= best' PROVE v.due /\ v.amount >= pos'.amount
      BY <1>6 DEF NeverLoosens
    <3>2. PICK s \in InForce(p) : best' <= s
      BY <1>9
    <3>3. Fine * x <= s
      BY <1>3, <1>9, <1>12, <3>1, <3>2 DEF Fine
    <3>4. v.due /\ v.amount = p.amount
      BY <1>11, <3>3
    <3>5. p.amount \in Int /\ pos'.amount \in Int
      BY <1>5, <2>1, ExitEngineAssumption DEF Positions
    <3> QED
      BY <2>1, <3>4, <3>5
  <2>5. BreakEven'
    <3>1. SUFFICES ASSUME pos'.tp1a, x <= 0 PROVE v.due /\ v.amount >= pos'.amount
      BY <1>6 DEF BreakEven
    <3>2. p.tp1a
      BY <1>3, <2>1, <3>1, ExitEngineAssumption
    <3>3. p.soft \in Int /\ p.soft >= 0
      BY <1>7, <3>2, ExitEngineAssumption DEF SoftOK, Greater
    <3>4. Fine * p.soft \in InForce(p) /\ Fine * x <= Fine * p.soft
      BY <1>3, <1>7, <3>1, <3>2, <3>3 DEF InForce, Fine
    <3>5. v.due /\ v.amount = p.amount
      BY <1>11, <3>4
    <3>6. p.amount \in Int /\ pos'.amount \in Int
      BY <1>5, <2>1, ExitEngineAssumption DEF Positions
    <3> QED
      BY <2>1, <3>5, <3>6
  <2>6. SoftInForce' = SoftInForce
    BY <1>2 DEF SoftInForce, AtLeast
  <2> QED
    BY <2>1, <2>2, <2>3, <2>4, <2>5, <2>6 DEF SoftOK
<1> QED
  BY <1>13, <1>14
LEMMA InitKeeps == Init => ExitInv
<1> SUFFICES ASSUME Init PROVE ExitInv
  OBVIOUS
<1>1. /\ SoftSL \in Nat /\ HardSL \in Nat \ {0} /\ Amount \in Nat \ {0}
  BY ExitEngineAssumption
<1>2. PICK side \in {"LONG", "SHORT"} : pos = Entered(side)
  BY DEF Init
<1>3. /\ pos \in Positions /\ SoftOK(pos) /\ pos.tp1a = FALSE /\ IsOpen
      /\ since = "never" /\ age = 1 /\ last = 0 /\ best = -Fine * HardSL
  BY <1>1, <1>2 DEF Init, Entered, Positions, SoftOK, Ages, IsOpen, NoPos
<1>4. best \in Int /\ ~(Fine * last <= best)
  BY <1>1, <1>3 DEF Fine
<1>5. TypeOK
  BY <1>3, <1>4 DEF TypeOK, Positions
<1>6. StopsHold
  <2>1. best \in InForce(pos)
    BY <1>3 DEF InForce
  <2> QED
    BY <1>4, <2>1 DEF StopsHold
<1>7. NeverLoosens /\ BreakEven
  BY <1>3, <1>4 DEF NeverLoosens, BreakEven
<1> QED
  BY <1>3, <1>5, <1>6, <1>7 DEF ExitInv

(* Time moves no stop: the soft one comes into force and stays so. *)
LEMMA ClockKeeps ==
  ASSUME ExitInv, GetsOlder \/ TimeSinceTP1
  PROVE  ExitInv'
<1> USE DEF ExitInv
<1>1. /\ IsOpen /\ pos' = pos /\ last' = last /\ verdict' = verdict /\ best' = best
      /\ pos \in Positions /\ SoftOK(pos) /\ (pos.tp1a => SoftInForce) /\ StopsHold
      /\ age \in 1..6 /\ age' \in {age, age + 1}
  BY DEF GetsOlder, TimeSinceTP1, TypeOK
<1>2. age' \in 1..6 /\ age' >= age
  BY DEF GetsOlder, TimeSinceTP1, TypeOK, AtLeast, Ages
<1>3. SoftInForce => SoftInForce'
  BY <1>1, <1>2 DEF SoftInForce, AtLeast, Ages
<1>4. TypeOK'
  BY <1>1, <1>2 DEF TypeOK, GetsOlder, TimeSinceTP1, IsOpen
<1>5. StopsHold'
  BY <1>1, <1>3 DEF StopsHold, InForce
<1>6. NeverLoosens' /\ BreakEven'
  BY <1>1 DEF NeverLoosens, BreakEven, IsOpen
<1> QED
  BY <1>1, <1>3, <1>4, <1>5, <1>6 DEF SoftOK, IsOpen

LEMMA NextKeeps == ExitInv /\ [Next]_vars => ExitInv'
<1> SUFFICES ASSUME ExitInv, [Next]_vars PROVE ExitInv'
  OBVIOUS
<1>1. CASE Tick(TRUE) \/ Tick(FALSE)
  BY <1>1, TickKeeps
<1>2. CASE GetsOlder \/ TimeSinceTP1
  BY <1>2, ClockKeeps
<1>3. CASE UNCHANGED vars
  BY <1>3 DEF vars, ExitInv, TypeOK, IsOpen, SoftOK, SoftInForce, AtLeast, StopsHold, InForce, NeverLoosens, BreakEven
<1> QED
  BY <1>1, <1>2, <1>3 DEF Next

-----------------------------------------------------------------------------
(* Type correctness, and with it that an open position always holds an     *)
(* amount: no sequence of partial closes empties or overdraws it.          *)
THEOREM TypeCorrect == Spec => []TypeOK
<1>1. ExitInv => TypeOK
  BY DEF ExitInv
<1> QED
  BY <1>1, InitKeeps, NextKeeps, PTL DEF Spec

(* The protection of a position never loosens: for every strategy, every   *)
(* price and every ATR, a tick at or beyond the tightest stop there ever   *)
(* was asks for all of the position to be closed.                          *)
THEOREM StopsNeverLoosen == Spec => []NeverLoosens
<1>1. ExitInv => NeverLoosens
  BY DEF ExitInv
<1> QED
  BY <1>1, InitKeeps, NextKeeps, PTL DEF Spec

(* After TP1a the rest is never carried below break-even, whatever the     *)
(* levels of the strategy are.                                             *)
THEOREM NeverBelowBreakEven == Spec => []BreakEven
<1>1. ExitInv => BreakEven
  BY DEF ExitInv
<1> QED
  BY <1>1, InitKeeps, NextKeeps, PTL DEF Spec

-----------------------------------------------------------------------------
(***************************************************************************)
(* Risk                                                                    *)
(***************************************************************************)

(* The histories *)

TradeType == [pnl : PnLs, r : PnLs \cup {0}]

LEMMA PnLsInt == PnLs \subseteq Int
  BY RiskAssumption

LEMMA WindowOK ==
  ASSUME NEW h \in Seq(TradeType), NEW n \in Nat \ {0}
  PROVE  Window(h, n) \in Seq(TradeType)
<1>1. Len(h) \in Nat /\ Len(h) - n + 1 \in Int
  BY LenProperties
<1> DEFINE m == Max({1, Len(h) - n + 1})
<1>2. m \in Int /\ m >= 1
  <2> DEFINE a == 1
             b == Len(h) - n + 1
  <2>1. a \in Int /\ b \in Int /\ a = 1
    BY <1>1
  <2> HIDE DEF a, b
  <2>2. Max({a, b}) \in Int /\ Max({a, b}) >= a
    BY <2>1, MaxOfTwo
  <2> QED
    BY <2>1, <2>2 DEF a, b
<1> HIDE DEF m
<1>3. \A i \in m..Len(h) : h[i] \in TradeType
  <2>1. ASSUME NEW i \in m..Len(h) PROVE i \in 1..Len(h)
    BY <1>1, <1>2
  <2> QED
    BY <2>1, ElementOfSeq
<1>4. SubSeq(h, m, Len(h)) \in Seq(TradeType)
  BY <1>1, <1>2, <1>3, SubSeqProperties
<1> QED
  BY <1>4 DEF Window, m

LEMMA GainsNat ==
  ASSUME NEW w \in Seq(TradeType)
  PROVE  Total(Won(w)) \in Nat /\ Total(Lost(w)) \in Nat
<1>1. DOMAIN w = 1..Len(w) /\ Len(w) \in Nat
  BY LenProperties
<1>2. ASSUME NEW i \in DOMAIN w PROVE Max({0, w[i].pnl}) \in Nat /\ Max({0, -w[i].pnl}) \in Nat
  <2>1. w[i].pnl \in Int /\ -w[i].pnl \in Int
    <3>1. w[i] \in TradeType
      BY <1>1, ElementOfSeq
    <3>2. w[i].pnl \in PnLs
      BY <3>1 DEF TradeType
    <3>3. w[i].pnl \in Int
      BY <3>2, PnLsInt
    <3> QED
      BY <3>3
  <2>2. ASSUME NEW x \in Int PROVE Max({0, x}) \in Nat
    BY MaxWithZero
  <2> QED
    BY <2>1, <2>2
<1>3. Won(w) \in [1..Len(w) -> Nat] /\ Lost(w) \in [1..Len(w) -> Nat]
  BY <1>1, <1>2 DEF Won, Lost
<1>4. Won(w) \in Seq(Nat) /\ Lost(w) \in Seq(Nat)
  BY <1>1, <1>3, FunctionIsSeq
<1> QED
  BY <1>4, TotalNat

LEMMA StreakNat ==
  ASSUME NEW w \in Seq(TradeType)
  PROVE  Streak(w) \in Nat
<1>1. DOMAIN w = 1..Len(w) /\ Len(w) \in Nat
  BY LenProperties
<1> DEFINE T == {0} \cup {i \in DOMAIN w : w[i].pnl >= 0}
<1>2. T \in SUBSET (0..Len(w)) /\ T # {}
  BY <1>1
<1>3. Max(T) \in 0..Len(w)
  <2> HIDE DEF T
  <2> QED
    BY <1>1, <1>2, GreatestUpTo
<1> QED
  BY <1>1, <1>3 DEF Streak

LEMMA MetricsOK ==
  ASSUME NEW h \in Seq(TradeType), NEW n \in Nat \ {0}, NEW c
  PROVE  LET m == Metrics(h, n, c)
         IN  m.total = Len(h) /\ m.total \in Nat /\ m.won \in Nat /\ m.lost \in Nat /\ m.streak \in Nat
<1>1. Window(h, n) \in Seq(TradeType) /\ Len(h) \in Nat
  BY WindowOK, LenProperties
<1>2. Total(Won(Window(h, n))) \in Nat /\ Total(Lost(Window(h, n))) \in Nat
      /\ Streak(Window(h, n)) \in Nat
  BY <1>1, GainsNat, StreakNat
<1> QED
  BY <1>1, <1>2 DEF Metrics

-----------------------------------------------------------------------------
(* The table of tiers *)

(* the fields that are computed with *)
Numbers(t) == /\ t.minTrades \in Int /\ t.pf \in Int /\ t.ratio \in Int
              /\ t.leverage \in Int /\ t.cap \in Int

LEMMA TierFields ==
  ASSUME NEW t \in TierType PROVE Numbers(t)
  BY DEF TierType, Numbers

LEMMA PlaceNat ==
  ASSUME NEW t PROVE Place(t) \in Nat
<1> DEFINE T == {k \in DOMAIN EvalOrder : EvalOrder[k] = t.name} \cup {Len(EvalOrder) + 1}
<1>1. EvalOrder \in Seq(STRING)
  BY RiskAssumption
<1>2. DOMAIN EvalOrder = 1..Len(EvalOrder) /\ Len(EvalOrder) \in Nat
  BY <1>1, LenProperties
<1>3. T \in SUBSET Nat /\ T # {}
  BY <1>2
<1>4. Min(T) \in Nat
  <2> HIDE DEF T
  <2> QED
    BY <1>3, MinIsLeast
<1> QED
  BY <1>4 DEF Place

Files == DOMAIN TierFile

LEMMA FileOK ==
  /\ Files = 1..Len(TierFile) /\ Len(TierFile) \in Nat \ {0}
  /\ IsFiniteSet(Files) /\ Cardinality(Files) = Len(TierFile)
  /\ \A i \in Files : TierFile[i] \in TierType
<1>1. TierFile \in Seq(TierType) /\ TierFile # <<>>
  BY RiskAssumption
<1>2. Files = 1..Len(TierFile) /\ Len(TierFile) \in Nat \ {0}
  BY <1>1, LenProperties, EmptySeq DEF Files
<1>3. IsFiniteSet(Files) /\ Cardinality(Files) = Len(TierFile)
  BY <1>2, FS_Interval
<1>4. \A i \in Files : TierFile[i] \in TierType
  BY <1>1, <1>2, ElementOfSeq
<1> QED
  BY <1>2, <1>3, <1>4

(* Before is a strict order of all the places of the file *)
LEMMA BeforeOrders ==
  ASSUME NEW i \in Files, NEW j \in Files
  PROVE  /\ ~Before(i, i)
         /\ i # j => Before(i, j) \/ Before(j, i)
         /\ \A k \in Files : Before(k, i) /\ Before(i, j) => Before(k, j)
<1> DEFINE P(k) == Place(TierFile[k])
           Q(k) == TierFile[k].ratio
<1>1. \A k \in Files : P(k) \in Int /\ Q(k) \in Int /\ k \in Int
  BY FileOK, TierFields, PlaceNat DEF Numbers
<1>2. \A k, l \in Files : Before(k, l) <=> \/ P(k) < P(l)
                                           \/ P(k) = P(l) /\ Q(k) > Q(l)
                                           \/ P(k) = P(l) /\ Q(k) = Q(l) /\ k < l
  BY DEF Before
<1> HIDE DEF P, Q
<1>3. ~Before(i, i)
  BY <1>1, <1>2
<1>4. i # j => Before(i, j) \/ Before(j, i)
  BY <1>1, <1>2
<1>5. ASSUME NEW k \in Files, Before(k, i), Before(i, j) PROVE Before(k, j)
  BY <1>1, <1>2, <1>5
<1> QED
  BY <1>3, <1>4, <1>5

Below(i) == {j \in Files : Before(j, i)}

LEMMA BelowOK ==
  ASSUME NEW i \in Files
  PROVE  /\ IsFiniteSet(Below(i)) /\ Cardinality(Below(i)) \in 0..Len(TierFile) - 1
         /\ Rank(i) = Cardinality(Below(i)) + 1
<1>1. Below(i) \in SUBSET Files /\ i \notin Below(i)
  BY BeforeOrders DEF Below
<1>2. IsFiniteSet(Below(i)) /\ Cardinality(Below(i)) <= Len(TierFile) /\ Cardinality(Below(i)) # Len(TierFile)
  BY <1>1, FileOK, FS_Subset
<1>3. Cardinality(Below(i)) \in Nat
  BY <1>2, FS_CardinalityType
<1>4. Cardinality(Below(i)) \in 0..Len(TierFile) - 1
  BY <1>2, <1>3, FileOK
<1>5. Rank(i) = Cardinality(Below(i)) + 1
  BY DEF Rank, Below, Files
<1> QED
  BY <1>2, <1>4, <1>5

(* no two tiers have the same rank, and every rank has a tier *)
LEMMA RankOK ==
  \A k \in Files : \E i \in Files : Rank(i) = k
<1> DEFINE f == [i \in Files |-> Rank(i)]
<1>1. ASSUME NEW i \in Files, NEW j \in Files, Before(i, j) PROVE Rank(i) # Rank(j)
  <2>1. Below(i) \in SUBSET Below(j) /\ i \in Below(j) /\ i \notin Below(i)
    BY <1>1, BeforeOrders DEF Below
  <2>2. Cardinality(Below(i)) # Cardinality(Below(j))
    BY <2>1, BelowOK, FS_Subset
  <2>3. Cardinality(Below(i)) \in Int /\ Cardinality(Below(j)) \in Int
    BY BelowOK
  <2> QED
    BY <2>2, <2>3, BelowOK
<1>2. \A i, j \in Files : Rank(i) = Rank(j) => i = j
  BY <1>1, BeforeOrders
<1>3. \A i \in Files : Rank(i) \in Files
  BY BelowOK, FileOK
<1>4. f \in Injection(Files, Files)
  BY <1>2, <1>3 DEF Injection, IsInjective
<1>5. f \in Surjection(Files, Files)
  <2> HIDE DEF f
  <2> QED
    BY <1>4, FileOK, FS_Injection
<1> QED
  BY <1>5 DEF Surjection

LEMMA SortedOK == SortedTiers \in [1..Len(TierFile) -> TierType]
<1>1. ASSUME NEW k \in Files PROVE TierFile[CHOOSE i \in Files : Rank(i) = k] \in TierType
  <2>1. (CHOOSE i \in Files : Rank(i) = k) \in Files
    BY RankOK
  <2> QED
    BY <2>1, FileOK
<1>2. SortedTiers = [k \in Files |-> TierFile[CHOOSE i \in Files : Rank(i) = k]]
  BY DEF SortedTiers, Files
<1> QED
  BY <1>1, <1>2, FileOK

LEMMA DefaultOK ==
  Len(DefaultTiers) = 5 /\ \A i \in 1..5 : Numbers(DefaultTiers[i])
<1>1. Len(DefaultTiers) = 5
  BY DEF DefaultTiers
<1>2. Numbers(DefaultTiers[1]) /\ Numbers(DefaultTiers[2]) /\ Numbers(DefaultTiers[3])
  BY DEF DefaultTiers, RiskTier, Numbers
<1>3. Numbers(DefaultTiers[4]) /\ Numbers(DefaultTiers[5])
  BY DEF DefaultTiers, RiskTier, Numbers
<1>4. \A i \in 1..5 : i = 1 \/ i = 2 \/ i = 3 \/ i = 4 \/ i = 5
  OBVIOUS
<1> QED
  BY <1>1, <1>2, <1>3, <1>4

LEMMA TiersOK ==
  Lowest \in Nat \ {0} /\ \A i \in 1..Lowest : Numbers(Tiers[i])
<1>1. CASE Tiers = SortedTiers
  <2>1. SortedTiers \in Seq(TierType) /\ Len(SortedTiers) = Len(TierFile)
    BY SortedOK, FileOK, SeqDef
  <2>2. \A i \in 1..Len(TierFile) : Numbers(SortedTiers[i])
    BY SortedOK, TierFields
  <2> QED
    BY <1>1, <2>1, <2>2, FileOK DEF Lowest
<1>2. CASE Tiers = DefaultTiers
  BY <1>2, DefaultOK DEF Lowest
<1> QED
  BY <1>1, <1>2 DEF Tiers

(* What a classification returns *)

LEMMA BestOfOK ==
  ASSUME NEW m, NEW S \in SUBSET (1..Lowest)
  PROVE  /\ BestOf(m, S) \in 1..Lowest
         /\ BestOf(m, S) = Lowest \/ (BestOf(m, S) \in S /\ Meets(m, Tiers[BestOf(m, S)]))
<1> DEFINE T == {i \in S : Meets(m, Tiers[i])} \cup {Lowest}
<1>1. T \in SUBSET Nat /\ T # {} /\ T \in SUBSET (1..Lowest)
  <2>1. Lowest \in 1..Lowest /\ 1..Lowest \in SUBSET Nat
    BY TiersOK
  <2> QED
    BY <2>1
<1>2. Min(T) \in T
  <2> HIDE DEF T
  <2> QED
    BY <1>1, MinIsLeast
<1>3. BestOf(m, S) = Min(T)
  BY DEF BestOf
<1> QED
  BY <1>1, <1>2, <1>3

TierRecord == [at : 1..Lowest, trades : Nat, losses : Nat, total : Nat]

LEMMA DemotedOK ==
  ASSUME NEW m, NEW h, h.at \in 1..Lowest
  PROVE  /\ Demoted(m, h) \in 1..Lowest /\ Demoted(m, h) >= h.at
         /\ Demoted(m, h) = Lowest \/ Meets(m, Tiers[Demoted(m, h)])
<1>1. (h.at + 1 .. Lowest) \in SUBSET (1..Lowest) /\ Lowest \in Nat
  BY TiersOK
<1> DEFINE S == h.at + 1 .. Lowest
<1>2. Demoted(m, h) = BestOf(m, S)
  BY DEF Demoted
<1>3. \A x \in S : x >= h.at
  BY <1>1
<1> HIDE DEF S
<1>4. S \in SUBSET (1..Lowest)
  BY <1>1 DEF S
<1> QED
  BY <1>1, <1>2, <1>3, <1>4, BestOfOK

LEMMA ClassifiedOK ==
  ASSUME NEW m, NEW h, h.at \in 1..Lowest
  PROVE  /\ Classified(m, h) \in 1..Lowest
         /\ Classified(m, h) < h.at => h.trades >= MinStay
<1> DEFINE top == BestOf(m, 1..Lowest)
<1>1. top \in 1..Lowest
  <2>1. 1..Lowest \in SUBSET (1..Lowest)
    OBVIOUS
  <2> QED
    BY <2>1, BestOfOK
<1>2. Demoted(m, h) \in 1..Lowest /\ Demoted(m, h) >= h.at
  BY DemotedOK
<1>3. Classified(m, h) \in {h.at, Demoted(m, h)} \/ (Classified(m, h) = top /\ MayPromote(m, h, top))
  BY DEF Classified
<1> HIDE DEF top
<1>4. Lowest \in Nat
  BY TiersOK
<1> QED
  BY <1>1, <1>2, <1>3, <1>4 DEF MayPromote

LEMMA AtCloseOK ==
  ASSUME NEW h \in TierRecord, NEW m, m.total \in Nat, m.streak \in Nat
  PROVE  LET k == AtClose(h, m)
         IN  /\ k \in TierRecord
             /\ k.at = Classified(m, h) /\ k.total = m.total
             /\ k.trades = IF k.at = h.at THEN h.trades + 1 ELSE 0
             /\ k.at < h.at => h.trades >= MinStay
<1>1. h.at \in 1..Lowest /\ h.trades \in Nat
  BY DEF TierRecord
<1>2. Classified(m, h) \in 1..Lowest /\ (Classified(m, h) < h.at => h.trades >= MinStay)
  BY <1>1, ClassifiedOK
<1> QED
  BY <1>1, <1>2 DEF AtClose, EntersTier, TierRecord

LEMMA AtSignalOK ==
  ASSUME NEW h \in TierRecord, NEW m, m.total \in Nat, m.streak \in Nat
  PROVE  LET k == AtSignal(h, m)
         IN  /\ k \in TierRecord
             /\ k.at = h.at => k.total = m.total /\ k.trades = Counted(h, m)
             /\ k.at # h.at => k.total = 0 /\ k.trades = 0
             /\ k.at < h.at => h.trades >= MinStay
<1>1. h.at \in 1..Lowest /\ h.trades \in Nat /\ h.total \in Nat
  BY DEF TierRecord
<1>2. Classified(m, h) \in 1..Lowest /\ (Classified(m, h) < h.at => h.trades >= MinStay)
  BY <1>1, ClassifiedOK
<1>3. Counted(h, m) \in Nat
  BY <1>1 DEF Counted
<1> QED
  BY <1>1, <1>2, <1>3 DEF AtSignal, EntersTier, TierRecord

LEMMA CreditedNat ==
  ASSUME NEW c \in Nat, NEW x \in Int
  PROVE  Credited(c, x) \in Nat
<1> DEFINE y == c + x
<1>1. y \in Int
  OBVIOUS
<1> HIDE DEF y
<1>2. Max({0, y}) \in Nat
  BY <1>1, MaxWithZero
<1> QED
  BY <1>2 DEF Credited, y

(* the leverage of a directional position *)
LEMMA LeverageNat ==
  ASSUME NEW t, Numbers(t)
  PROVE  Leverage(t) \in Nat
<1> DEFINE x == Rounded(5 * t.leverage, 10)
           y == t.cap
           z == Min({x, y})
           o == 1
<1>1. x \in Int /\ y \in Int
  <2> DEFINE a == 5 * t.leverage
             b == 10
  <2>1. a \in Int /\ b \in Nat \ {0} /\ y \in Int
    BY DEF Numbers
  <2> HIDE DEF a, b, y
  <2>2. Rounded(a, b) \in Int
    BY <2>1 DEF Rounded
  <2> QED
    BY <2>1, <2>2 DEF a, b
<1>2. o \in Int /\ o = 1
  OBVIOUS
<1>3. Leverage(t) = Max({o, z})
  BY DEF Leverage
<1>4. z \in Int
  <2> HIDE DEF x, y
  <2> QED
    BY <1>1, MinOfTwo
<1> HIDE DEF z, o
<1>5. Max({o, z}) \in Int /\ Max({o, z}) >= o
  BY <1>2, <1>4, MaxOfTwo
<1> QED
  BY <1>2, <1>3, <1>5

LEMMA EquityNat ==
  ASSUME capital \in [Symbols -> Nat]
  PROVE  TotalEquity \in Nat
<1> DEFINE n == Cardinality(Symbols)
           order == SetToSeq(Symbols)
           s == [i \in DOMAIN order |-> capital[order[i]]]
<1>1. IsFiniteSet(Symbols)
  BY RiskAssumption
<1>2. n \in Nat /\ ExistsBijection(1..n, Symbols)
  BY <1>1, FS_CardinalityType
<1>3. \E f \in [1..n -> Symbols] : IsInjective(f)
  BY <1>2 DEF ExistsBijection, Bijection, Injection
<1>4. order \in [1..n -> Symbols]
  BY <1>3 DEF SetToSeq
<1>5. s \in [1..n -> Nat]
  <2> HIDE DEF order, n
  <2> QED
    BY <1>4
<1>6. s \in Seq(Nat)
  <2> HIDE DEF s, n
  <2> QED
    BY <1>2, <1>5, FunctionIsSeq
<1>7. TotalEquity = Total(s)
  BY DEF TotalEquity
<1> QED
  BY <1>6, <1>7, TotalNat

(* A close counts a trade and a session once; a signal may count one that  *)
(* a close has counted before, but not twice in a row.                     *)
CountsOnce ==
    \A s \in Symbols :
        tier[s].trades <= closings[s] + IF tier[s].total >= Len(directional[s]) THEN 1 ELSE 0

RiskInv == RiskTypeOK /\ CountsOnce

Directional == Seq([pnl : PnLs, r : PnLs])
Grid == Seq([pnl : PnLs, r : {0}])

LEMMA HistoriesOK ==
  ASSUME NEW d \in Directional, NEW g \in Grid
  PROVE  /\ d \in Seq(TradeType) /\ g \in Seq(TradeType) /\ d \o g \in Seq(TradeType)
         /\ Len(d) \in Nat /\ Len(g) \in Nat /\ Len(d \o g) = Len(d) + Len(g)
<1>1. [pnl : PnLs, r : PnLs] \subseteq TradeType /\ [pnl : PnLs, r : {0}] \subseteq TradeType
  BY DEF TradeType
<1>2. d \in Seq(TradeType) /\ g \in Seq(TradeType)
  BY <1>1, SeqMonotonic DEF Directional, Grid
<1> QED
  BY <1>2, ConcatProperties, LenProperties

LEMMA ExitMetricsOK ==
  ASSUME NEW d \in Directional, NEW g \in Grid
  PROVE  LET m == ExitMetrics(d, g)
         IN  /\ m.total = Len(d) + Len(g) /\ m.total \in Nat /\ m.streak \in Nat
             /\ m.won \in Nat /\ m.lost \in Nat
<1>1. ExitLookback \in Nat \ {0}
  BY RiskAssumption
<1>2. d \o g \in Seq(TradeType) /\ Len(d \o g) = Len(d) + Len(g)
  BY HistoriesOK
<1> DEFINE h == d \o g
<1>3. h \in Seq(TradeType) /\ Len(h) = Len(d) + Len(g)
  BY <1>2
<1>4. ExitMetrics(d, g) = Metrics(h, ExitLookback, InitialCapital)
  BY DEF ExitMetrics
<1> HIDE DEF h
<1> QED
  BY <1>1, <1>3, <1>4, MetricsOK

LEMMA EntryMetricsOK ==
  ASSUME directional \in [Symbols -> Directional], NEW s \in Symbols
  PROVE  EntryMetrics(s).total = Len(directional[s]) /\ EntryMetrics(s).total \in Nat
         /\ EntryMetrics(s).streak \in Nat
<1>1. EntryLookback \in Nat \ {0}
  BY RiskAssumption
<1> DEFINE h == directional[s]
           c == capital[s]
<1>2. h \in Seq(TradeType)
  <2>1. h \in Directional
    OBVIOUS
  <2>2. [pnl : PnLs, r : PnLs] \subseteq TradeType
    BY DEF TradeType
  <2> QED
    BY <2>1, <2>2, SeqMonotonic DEF Directional
<1>3. EntryMetrics(s) = Metrics(h, EntryLookback, c)
  BY DEF EntryMetrics
<1>4. Len(directional[s]) = Len(h)
  OBVIOUS
<1> HIDE DEF h, c
<1> QED
  BY <1>1, <1>2, <1>3, <1>4, MetricsOK

LEMMA TypesMean ==
  ASSUME RiskTypeOK
  PROVE  /\ capital \in [Symbols -> Nat] /\ tier \in [Symbols -> TierRecord]
         /\ directional \in [Symbols -> Directional] /\ grid \in [Symbols -> Grid]
         /\ position \in [Symbols -> Nat]
         /\ on \in [Symbols -> BOOLEAN] /\ killed \in [Symbols -> BOOLEAN]
         /\ reason \in [Symbols -> {"", "Grid Stop", "Portfolio Halt"}]
         /\ peak \in Nat /\ phase \in {"running", "halted", "down"}
         /\ crediting \in [Symbols -> PnLs \cup {0}] /\ closings \in [Symbols -> Nat]
         /\ banks \in 0..MaxBanks /\ restarts \in 0..MaxRestarts
  BY DEF RiskTypeOK, TierRecord, Directional, Grid

(* what a reclassification of the symbols in S does to what counts *)
Recounted(S, d, g) ==
    /\ tier' \in [Symbols -> TierRecord] /\ closings' \in [Symbols -> Nat]
    /\ \A s \in Symbols \ S : tier'[s] = tier[s] /\ closings'[s] = closings[s]
    /\ \A s \in S :
         /\ tier'[s].at = Classified(ExitMetrics(d[s], g[s]), tier[s])
         /\ tier'[s].total = Len(d[s]) + Len(g[s])
         /\ tier'[s].at < tier[s].at => tier[s].trades >= MinStay
         /\ IF tier'[s].at = tier[s].at
            THEN tier'[s].trades = tier[s].trades + 1 /\ closings'[s] = closings[s] + 1
            ELSE tier'[s].trades = 0 /\ closings'[s] = 0

LEMMA ReclassifiedOK ==
  ASSUME tier \in [Symbols -> TierRecord], closings \in [Symbols -> Nat],
         NEW S \in SUBSET Symbols,
         NEW d \in [Symbols -> Directional], NEW g \in [Symbols -> Grid],
         Reclassified(S, d, g)
  PROVE  Recounted(S, d, g)
<1>1. ASSUME NEW s \in S
      PROVE  LET m == ExitMetrics(d[s], g[s])
                 k == AtClose(tier[s], m)
             IN  /\ k \in TierRecord
                 /\ k.at = Classified(m, tier[s]) /\ k.total = Len(d[s]) + Len(g[s])
                 /\ k.trades = IF k.at = tier[s].at THEN tier[s].trades + 1 ELSE 0
                 /\ k.at < tier[s].at => tier[s].trades >= MinStay
  <2> DEFINE m == ExitMetrics(d[s], g[s])
             h == tier[s]
  <2>1. m.total = Len(d[s]) + Len(g[s]) /\ m.total \in Nat /\ m.streak \in Nat
    BY ExitMetricsOK
  <2>2. h \in TierRecord
    OBVIOUS
  <2> HIDE DEF m, h
  <2>3. LET k == AtClose(h, m)
         IN  /\ k \in TierRecord
             /\ k.at = Classified(m, h) /\ k.total = m.total
             /\ k.trades = IF k.at = h.at THEN h.trades + 1 ELSE 0
             /\ k.at < h.at => h.trades >= MinStay
    BY <2>1, <2>2, AtCloseOK
  <2> QED
    BY <2>1, <2>3 DEF m, h
<1>2. tier' = [s \in Symbols |-> IF s \in S THEN AtClose(tier[s], ExitMetrics(d[s], g[s])) ELSE tier[s]]
  BY DEF Reclassified
<1>3. tier' \in [Symbols -> TierRecord]
  BY <1>1, <1>2
<1>4. closings' = [s \in Symbols |->
                     IF s \notin S THEN closings[s]
                     ELSE IF tier'[s].at # tier[s].at THEN 0 ELSE closings[s] + 1]
  BY DEF Reclassified
<1>5. closings' \in [Symbols -> Nat]
  BY <1>4
<1>6. \A s \in Symbols \ S : tier'[s] = tier[s] /\ closings'[s] = closings[s]
  BY <1>2, <1>4
<1>7. ASSUME NEW s \in S
      PROVE  LET m == ExitMetrics(d[s], g[s])
             IN  /\ tier'[s].at = Classified(m, tier[s])
                 /\ tier'[s].total = Len(d[s]) + Len(g[s])
                 /\ tier'[s].at < tier[s].at => tier[s].trades >= MinStay
                 /\ IF tier'[s].at = tier[s].at
                    THEN tier'[s].trades = tier[s].trades + 1 /\ closings'[s] = closings[s] + 1
                    ELSE tier'[s].trades = 0 /\ closings'[s] = 0
  <2>1. tier'[s] = AtClose(tier[s], ExitMetrics(d[s], g[s]))
    BY <1>2
  <2>2. closings'[s] = IF tier'[s].at # tier[s].at THEN 0 ELSE closings[s] + 1
    BY <1>4
  <2> QED
    BY <1>1, <2>1, <2>2
<1> QED
  BY <1>3, <1>5, <1>6, <1>7 DEF Recounted

(* and what it leaves of the invariant, when the directional history of    *)
(* the others is as it was                                                 *)
LEMMA ReclassifiedInv ==
  ASSUME RiskInv, NEW S \in SUBSET Symbols,
         directional' \in [Symbols -> Directional], NEW g \in [Symbols -> Grid],
         \A s \in Symbols \ S : directional'[s] = directional[s],
         Reclassified(S, directional', g)
  PROVE  /\ tier' \in [Symbols -> TierRecord] /\ closings' \in [Symbols -> Nat]
         /\ CountsOnce'
         /\ \A s \in Symbols : tier'[s].at < tier[s].at => closings[s] + 1 >= MinStay
<1>1. tier \in [Symbols -> TierRecord] /\ closings \in [Symbols -> Nat]
  BY TypesMean DEF RiskInv
<1> DEFINE d == directional'
<1>2. d \in [Symbols -> Directional] /\ Reclassified(S, d, g)
  OBVIOUS
<1> HIDE DEF d
<1>3. /\ tier' \in [Symbols -> TierRecord] /\ closings' \in [Symbols -> Nat]
      /\ \A s \in Symbols \ S : tier'[s] = tier[s] /\ closings'[s] = closings[s]
      /\ \A s \in S : /\ tier'[s].total = Len(d[s]) + Len(g[s])
                      /\ tier'[s].at < tier[s].at => tier[s].trades >= MinStay
                      /\ IF tier'[s].at = tier[s].at
                         THEN tier'[s].trades = tier[s].trades + 1 /\ closings'[s] = closings[s] + 1
                         ELSE tier'[s].trades = 0 /\ closings'[s] = 0
  <2>1. Recounted(S, d, g)
    BY <1>1, <1>2, ReclassifiedOK
  <2> QED
    BY <2>1 DEF Recounted
<1>4. MinStay \in Nat
  BY RiskAssumption
<1>5. \A s \in Symbols : tier[s].trades \in Nat /\ closings[s] \in Nat /\ tier[s].at \in Nat
                         /\ tier[s].trades <= closings[s] + 1
  <2>1. ASSUME NEW s \in Symbols PROVE tier[s] \in TierRecord /\ closings[s] \in Nat
    BY <1>1
  <2>2. ASSUME NEW s \in Symbols PROVE tier[s].trades \in Nat /\ tier[s].at \in Nat
    BY <2>1, TiersOK DEF TierRecord
  <2> QED
    BY <2>1, <2>2 DEF RiskInv, CountsOnce
<1>6. \A s \in S : tier'[s].total >= Len(directional'[s])
  <2>1. ASSUME NEW s \in S PROVE Len(d[s]) \in Nat /\ Len(g[s]) \in Nat
    BY <1>2, HistoriesOK
  <2> QED
    BY <1>3, <2>1 DEF d
<1>7. ASSUME NEW s \in Symbols
      PROVE  tier'[s].trades <= closings'[s] + IF tier'[s].total >= Len(directional'[s]) THEN 1 ELSE 0
  <2>1. CASE s \in S
    <3>1. tier'[s].trades <= closings'[s] + 1
      <4>1. CASE tier'[s].at = tier[s].at
        <5>1. tier'[s].trades = tier[s].trades + 1 /\ closings'[s] = closings[s] + 1
          BY <2>1, <1>3, <4>1
        <5> QED
          BY <5>1, <1>5
      <4>2. CASE tier'[s].at # tier[s].at
        <5>1. tier'[s].trades = 0 /\ closings'[s] = 0
          BY <2>1, <1>3, <4>2
        <5> QED
          BY <5>1
      <4> QED
        BY <4>1, <4>2
    <3>2. tier'[s].total >= Len(directional'[s])
      BY <2>1, <1>6
    <3> QED
      BY <3>1, <3>2
  <2>2. CASE s \notin S
    <3>1. tier'[s] = tier[s] /\ closings'[s] = closings[s] /\ directional'[s] = directional[s]
      BY <2>2, <1>3
    <3> QED
      BY <3>1 DEF RiskInv, CountsOnce
  <2> QED
    BY <2>1, <2>2
<1>8. ASSUME NEW s \in Symbols, tier'[s].at < tier[s].at PROVE closings[s] + 1 >= MinStay
  <2>1. s \in S
    BY <1>3, <1>5, <1>8
  <2>2. tier[s].trades >= MinStay
    BY <2>1, <1>3, <1>8
  <2> QED
    BY <2>2, <1>4, <1>5
<1> QED
  BY <1>3, <1>7, <1>8 DEF CountsOnce

Earned == \A s \in Symbols : tier'[s].at < tier[s].at => closings[s] + 1 >= MinStay

LEMMA SameTiers ==
  ASSUME RiskInv, UNCHANGED <<tier, closings, directional>>
  PROVE  CountsOnce' /\ Earned
<1>1. \A s \in Symbols : tier[s].at \in Nat
  <2>1. ASSUME NEW s \in Symbols PROVE tier[s] \in TierRecord
    BY TypesMean DEF RiskInv
  <2> QED
    BY <2>1, TiersOK DEF TierRecord
<1> QED
  BY <1>1 DEF RiskInv, CountsOnce, Earned

LEMMA BankableInt == PnLs \cup {0} \subseteq Int
<1>1. ASSUME NEW x \in PnLs \cup {0} PROVE x \in Int
  <2>1. CASE x = 0
    BY <2>1
  <2>2. CASE x \in PnLs
    BY <2>2, PnLsInt
  <2> QED
    BY <2>1, <2>2
<1> QED
  BY <1>1

(* the sessions of the grids in S are banked *)
LEMMA BankedOK ==
  ASSUME RiskInv, NEW S \in SUBSET Symbols, NEW b \in [S -> Int],
         directional' = directional, Banked(S, b)
  PROVE  /\ capital' \in [Symbols -> Nat] /\ banks' \in 0..MaxBanks
         /\ tier' \in [Symbols -> TierRecord] /\ closings' \in [Symbols -> Nat]
         /\ CountsOnce' /\ Earned
<1> DEFINE banking == {s \in S : b[s] # 0}
<1>1. banking \in SUBSET Symbols
  OBVIOUS
<1>2. /\ banks + Cardinality(banking) <= MaxBanks
      /\ banks' = banks + Cardinality(banking)
      /\ capital' = [s \in Symbols |-> IF s \in banking THEN Credited(capital[s], b[s]) ELSE capital[s]]
      /\ Reclassified(banking, directional, grid)
  BY DEF Banked
<1>3. \A s \in banking : b[s] \in Int
  OBVIOUS
<1> HIDE DEF banking
<1>4. capital \in [Symbols -> Nat] /\ banks \in 0..MaxBanks
      /\ directional \in [Symbols -> Directional] /\ grid \in [Symbols -> Grid]
  BY TypesMean DEF RiskInv
<1>5. Cardinality(banking) \in Nat
  <2>1. IsFiniteSet(Symbols)
    BY RiskAssumption
  <2>2. IsFiniteSet(banking)
    BY <1>1, <2>1, FS_Subset
  <2> QED
    BY <2>2, FS_CardinalityType
<1>6. MaxBanks \in Nat
  BY RiskAssumption
<1>7. banks' \in 0..MaxBanks
  BY <1>2, <1>4, <1>5, <1>6
<1>8. capital' \in [Symbols -> Nat]
  <2>1. ASSUME NEW s \in Symbols
        PROVE  (IF s \in banking THEN Credited(capital[s], b[s]) ELSE capital[s]) \in Nat
    BY <1>3, <1>4, CreditedNat
  <2> QED
    BY <1>2, <2>1
<1>9. directional' \in [Symbols -> Directional] /\ Reclassified(banking, directional', grid)
      /\ \A s \in Symbols \ banking : directional'[s] = directional[s]
  BY <1>2, <1>4
<1>10. /\ tier' \in [Symbols -> TierRecord] /\ closings' \in [Symbols -> Nat]
       /\ CountsOnce'
       /\ \A s \in Symbols : tier'[s].at < tier[s].at => closings[s] + 1 >= MinStay
  BY <1>1, <1>4, <1>9, ReclassifiedInv
<1> QED
  BY <1>7, <1>8, <1>10 DEF Earned

LEMMA StoppedOK ==
  ASSUME RiskInv, NEW S \in SUBSET Symbols, NEW why \in {"Grid Stop", "Portfolio Halt"},
         directional' = directional, Stopped(S, why)
  PROVE  /\ capital' \in [Symbols -> Nat] /\ banks' \in 0..MaxBanks
         /\ tier' \in [Symbols -> TierRecord] /\ closings' \in [Symbols -> Nat]
         /\ reason' \in [Symbols -> {"", "Grid Stop", "Portfolio Halt"}]
         /\ on' \in [Symbols -> BOOLEAN]
         /\ CountsOnce' /\ Earned
<1>1. PICK b \in [S -> PnLs \cup {0}] : Banked(S, b)
  BY DEF Stopped
<1>2. b \in [S -> Int]
  <2>1. \A x \in PnLs \cup {0} : x \in Int
    BY BankableInt
  <2>2. \A s \in S : b[s] \in PnLs \cup {0}
    BY <1>1
  <2> QED
    BY <1>1, <2>1, <2>2
<1>3. reason \in [Symbols -> {"", "Grid Stop", "Portfolio Halt"}] /\ on \in [Symbols -> BOOLEAN]
  BY TypesMean DEF RiskInv
<1>4. reason' = [s \in Symbols |-> IF s \in S THEN why ELSE reason[s]]
      /\ on' = [s \in Symbols |-> s \notin S /\ on[s]]
  BY DEF Stopped
<1>5. reason' \in [Symbols -> {"", "Grid Stop", "Portfolio Halt"}]
  BY <1>3, <1>4
<1>6. on' \in [Symbols -> BOOLEAN]
  BY <1>3, <1>4
<1> QED
  BY <1>1, <1>2, <1>5, <1>6, BankedOK

(* what is to be shown of a step *)
LEMMA TypeOKIf ==
  ASSUME /\ capital' \in [Symbols -> Nat] /\ tier' \in [Symbols -> TierRecord]
         /\ directional' \in [Symbols -> Directional] /\ grid' \in [Symbols -> Grid]
         /\ position' \in [Symbols -> Nat]
         /\ on' \in [Symbols -> BOOLEAN] /\ killed' \in [Symbols -> BOOLEAN]
         /\ reason' \in [Symbols -> {"", "Grid Stop", "Portfolio Halt"}]
         /\ peak' \in Nat /\ phase' \in {"running", "halted", "down"}
         /\ crediting' \in [Symbols -> PnLs \cup {0}] /\ closings' \in [Symbols -> Nat]
         /\ banks' \in 0..MaxBanks /\ restarts' \in 0..MaxRestarts
  PROVE  RiskTypeOK'
  BY DEF RiskTypeOK, TierRecord, Directional, Grid

LEMMA KillSwitchStep ==
  ASSUME RiskInv, NEW s \in Symbols, KillSwitchTrips(s)
  PROVE  RiskInv' /\ Earned
<1>1. /\ killed' = [killed EXCEPT ![s] = TRUE]
      /\ UNCHANGED <<files, on, peak, phase, crediting, closings, banks, restarts>>
  BY DEF KillSwitchTrips
<1>2. killed' \in [Symbols -> BOOLEAN]
  BY <1>1, TypesMean DEF RiskInv
<1>3. RiskTypeOK'
  BY <1>1, <1>2, TypesMean, TypeOKIf DEF RiskInv, files
<1>4. UNCHANGED <<tier, closings, directional>>
  BY <1>1 DEF files
<1> QED
  BY <1>3, <1>4, SameTiers DEF RiskInv

LEMMA SignalStep ==
  ASSUME RiskInv, NEW s \in Symbols, Signal(s)
  PROVE  RiskInv' /\ Earned
<1> DEFINE h == tier[s]
           m == EntryMetrics(s)
           k == AtSignal(h, m)
<1>0. /\ capital \in [Symbols -> Nat] /\ tier \in [Symbols -> TierRecord]
      /\ directional \in [Symbols -> Directional] /\ closings \in [Symbols -> Nat]
      /\ position \in [Symbols -> Nat]
  BY TypesMean DEF RiskInv
<1>1. m.total = Len(directional[s]) /\ m.total \in Nat /\ m.streak \in Nat
  BY <1>0, EntryMetricsOK
<1>2. h \in TierRecord
  BY <1>0
<1>3. /\ k \in TierRecord
      /\ k.at = h.at => k.total = m.total /\ k.trades = Counted(h, m)
      /\ k.at # h.at => k.total = 0 /\ k.trades = 0
      /\ k.at < h.at => h.trades >= MinStay
  <2> HIDE DEF h, m
  <2> QED
    BY <1>1, <1>2, AtSignalOK
<1>4. tier' = [tier EXCEPT ![s] = k]
  BY DEF Signal
<1>5. closings' = [closings EXCEPT ![s] = IF tier'[s].at # tier[s].at THEN 0 ELSE @]
  BY DEF Signal
<1>6. UNCHANGED <<capital, directional, grid, reason, on, killed, peak, phase, crediting, banks, restarts>>
  BY DEF Signal
<1>7. PICK filled \in BOOLEAN :
        position' = [position EXCEPT ![s] = IF filled THEN Leverage(Tiers[tier'[s].at]) ELSE 0]
  BY DEF Signal
<1>8. tier' \in [Symbols -> TierRecord] /\ tier'[s] = k
  BY <1>0, <1>3, <1>4
<1>9. closings' \in [Symbols -> Nat]
  BY <1>0, <1>5
<1>10. position' \in [Symbols -> Nat]
  <2>1. tier'[s].at \in 1..Lowest
    BY <1>8 DEF TierRecord
  <2>2. Leverage(Tiers[tier'[s].at]) \in Nat
    BY <2>1, TiersOK, LeverageNat
  <2>3. (IF filled THEN Leverage(Tiers[tier'[s].at]) ELSE 0) \in Nat
    BY <2>2
  <2> QED
    BY <1>0, <1>7, <2>3
<1>11. RiskTypeOK'
  BY <1>6, <1>8, <1>9, <1>10, TypesMean, TypeOKIf DEF RiskInv
<1>12. h.trades \in Nat /\ closings[s] \in Nat /\ h.total \in Nat /\ h.at \in 1..Lowest
  BY <1>0, <1>2 DEF TierRecord
<1>13. h.trades <= closings[s] + IF h.total >= Len(directional[s]) THEN 1 ELSE 0
  BY DEF RiskInv, CountsOnce
<1>14. ASSUME NEW x \in Symbols
       PROVE  tier'[x].trades <= closings'[x] + IF tier'[x].total >= Len(directional'[x]) THEN 1 ELSE 0
  <2>1. CASE x # s
    <3>1. tier'[x] = tier[x] /\ closings'[x] = closings[x] /\ directional'[x] = directional[x]
      BY <2>1, <1>0, <1>4, <1>5, <1>6
    <3> QED
      BY <3>1 DEF RiskInv, CountsOnce
  <2>2. CASE x = s /\ k.at = h.at
    <3>1. closings'[s] = closings[s]
      BY <2>2, <1>0, <1>5, <1>8
    <3>2. tier'[s].total = Len(directional'[s]) /\ tier'[s].trades = Counted(h, m)
      BY <2>2, <1>1, <1>3, <1>6, <1>8
    <3>3. Counted(h, m) <= closings[s] + 1
      <4> HIDE DEF h, m
      <4> QED
        BY <1>1, <1>12, <1>13 DEF Counted
    <3>4. Len(directional'[s]) \in Nat
      BY <1>1, <1>6
    <3> QED
      BY <2>2, <3>1, <3>2, <3>3, <3>4
  <2>3. CASE x = s /\ k.at # h.at
    <3>1. closings'[s] = 0 /\ tier'[s].trades = 0
      BY <2>3, <1>0, <1>3, <1>5, <1>8
    <3> QED
      BY <2>3, <3>1
  <2> QED
    BY <2>1, <2>2, <2>3
<1>15. ASSUME NEW x \in Symbols, tier'[x].at < tier[x].at
       PROVE  closings[x] + 1 >= MinStay
  <2>1. tier[x].at \in Nat
    <3>1. tier[x] \in TierRecord
      BY <1>0
    <3> QED
      BY <3>1, TiersOK DEF TierRecord
  <2>2. x = s
    BY <2>1, <1>0, <1>4, <1>15
  <2>3. h.trades >= MinStay /\ MinStay \in Nat
    BY <2>2, <1>3, <1>8, <1>15, RiskAssumption
  <2>4. h.trades <= closings[s] + 1
    BY <1>12, <1>13
  <2> QED
    BY <2>2, <2>3, <2>4, <1>12
<1> QED
  BY <1>11, <1>14, <1>15 DEF RiskInv, CountsOnce, Earned

LEMMA DirectionalStep ==
  ASSUME RiskInv, NEW s \in Symbols, NEW p \in PnLs, DirectionalTradeCloses(s, p)
  PROVE  RiskInv' /\ Earned
<1>0. /\ capital \in [Symbols -> Nat] /\ directional \in [Symbols -> Directional]
      /\ grid \in [Symbols -> Grid] /\ position \in [Symbols -> Nat]
  BY TypesMean DEF RiskInv
<1>1. /\ position' = [position EXCEPT ![s] = 0]
      /\ capital' = [capital EXCEPT ![s] = Credited(@, p)]
      /\ directional' = [directional EXCEPT ![s] = Append(@, Trade(p, p))]
      /\ Reclassified({s}, directional', grid)
      /\ UNCHANGED <<grid, reason, on, killed, peak, phase, crediting, banks, restarts>>
  BY DEF DirectionalTradeCloses
<1>2. p \in Int
  BY PnLsInt
<1>3. capital' \in [Symbols -> Nat] /\ position' \in [Symbols -> Nat]
  <2>1. Credited(capital[s], p) \in Nat
    BY <1>0, <1>2, CreditedNat
  <2> QED
    BY <1>0, <1>1, <2>1
<1>4. directional' \in [Symbols -> Directional]
  <2>1. Trade(p, p) \in [pnl : PnLs, r : PnLs]
    BY DEF Trade
  <2>2. Append(directional[s], Trade(p, p)) \in Directional
    BY <1>0, <2>1, AppendProperties DEF Directional
  <2> QED
    BY <1>0, <1>1, <2>2
<1>5. \A x \in Symbols \ {s} : directional'[x] = directional[x]
  BY <1>0, <1>1
<1>6. /\ tier' \in [Symbols -> TierRecord] /\ closings' \in [Symbols -> Nat]
      /\ CountsOnce'
      /\ \A x \in Symbols : tier'[x].at < tier[x].at => closings[x] + 1 >= MinStay
  <2> DEFINE S == {s}
  <2>1. S \in SUBSET Symbols /\ Reclassified(S, directional', grid)
        /\ \A x \in Symbols \ S : directional'[x] = directional[x]
    BY <1>1, <1>5
  <2> HIDE DEF S
  <2> QED
    BY <1>0, <1>4, <2>1, ReclassifiedInv
<1>7. RiskTypeOK'
  BY <1>1, <1>3, <1>4, <1>6, TypesMean, TypeOKIf DEF RiskInv
<1> QED
  BY <1>6, <1>7 DEF RiskInv, Earned

LEMMA GridTradeStep ==
  ASSUME RiskInv, NEW s \in Symbols, NEW p \in PnLs, GridTradeCloses(s, p)
  PROVE  RiskInv' /\ Earned
<1>0. grid \in [Symbols -> Grid] /\ crediting \in [Symbols -> PnLs \cup {0}]
  BY TypesMean DEF RiskInv
<1>1. /\ grid' = [grid EXCEPT ![s] = Append(@, Trade(p, 0))]
      /\ crediting' = [crediting EXCEPT ![s] = p]
      /\ UNCHANGED <<capital, tier, directional, position, reason, on, killed, peak, phase,
                     closings, banks, restarts>>
  BY DEF GridTradeCloses
<1>2. grid' \in [Symbols -> Grid]
  <2>1. Trade(p, 0) \in [pnl : PnLs, r : {0}]
    BY DEF Trade
  <2>2. Append(grid[s], Trade(p, 0)) \in Grid
    BY <1>0, <2>1, AppendProperties DEF Grid
  <2> QED
    BY <1>0, <1>1, <2>2
<1>3. crediting' \in [Symbols -> PnLs \cup {0}]
  BY <1>0, <1>1
<1>4. RiskTypeOK'
  BY <1>1, <1>2, <1>3, TypesMean, TypeOKIf DEF RiskInv
<1> QED
  BY <1>1, <1>4, SameTiers DEF RiskInv

LEMMA GridCreditStep ==
  ASSUME RiskInv, NEW s \in Symbols, GridTradeCredited(s)
  PROVE  RiskInv' /\ Earned
<1>0. /\ capital \in [Symbols -> Nat] /\ directional \in [Symbols -> Directional]
      /\ grid \in [Symbols -> Grid] /\ crediting \in [Symbols -> PnLs \cup {0}]
  BY TypesMean DEF RiskInv
<1>1. /\ capital' = [capital EXCEPT ![s] = Credited(@, crediting[s])]
      /\ crediting' = [crediting EXCEPT ![s] = 0]
      /\ Reclassified({s}, directional, grid)
      /\ UNCHANGED <<directional, grid, position, reason, on, killed, peak, phase, banks, restarts>>
  BY DEF GridTradeCredited
<1>2. crediting[s] \in Int
  BY <1>0, BankableInt
<1>3. capital' \in [Symbols -> Nat] /\ crediting' \in [Symbols -> PnLs \cup {0}]
  <2>1. Credited(capital[s], crediting[s]) \in Nat
    BY <1>0, <1>2, CreditedNat
  <2> QED
    BY <1>0, <1>1, <2>1
<1>4. /\ tier' \in [Symbols -> TierRecord] /\ closings' \in [Symbols -> Nat]
      /\ CountsOnce'
      /\ \A x \in Symbols : tier'[x].at < tier[x].at => closings[x] + 1 >= MinStay
  <2> DEFINE S == {s}
             g == grid
  <2>1. S \in SUBSET Symbols /\ Reclassified(S, directional', g) /\ g \in [Symbols -> Grid]
        /\ directional' \in [Symbols -> Directional]
        /\ \A x \in Symbols \ S : directional'[x] = directional[x]
    BY <1>0, <1>1
  <2> HIDE DEF S, g
  <2> QED
    BY <2>1, ReclassifiedInv
<1>5. RiskTypeOK'
  BY <1>1, <1>3, <1>4, TypesMean, TypeOKIf DEF RiskInv
<1> QED
  BY <1>4, <1>5 DEF RiskInv, Earned

(* the end of a process shortens no history but by its last trade *)
LEMMA LostOK ==
  ASSUME RiskInv, ClosesAreLost
  PROVE  crediting' \in [Symbols -> PnLs \cup {0}] /\ grid' \in [Symbols -> Grid]
<1>0. grid \in [Symbols -> Grid]
  BY TypesMean DEF RiskInv
<1>1. crediting' = [s \in Symbols |-> 0]
  BY DEF ClosesAreLost
<1>2. PICK written \in SUBSET {s \in Symbols : crediting[s] # 0} :
        grid' = [s \in Symbols |-> IF crediting[s] = 0 \/ s \in written THEN grid[s]
                                   ELSE SubSeq(grid[s], 1, Len(grid[s]) - 1)]
  BY DEF ClosesAreLost
<1>3. ASSUME NEW s \in Symbols
      PROVE  SubSeq(grid[s], 1, Len(grid[s]) - 1) \in Grid
  <2> DEFINE T == [pnl : PnLs, r : {0}]
             h == grid[s]
             n == Len(h) - 1
  <2>1. h \in Seq(T)
    BY <1>0 DEF Grid
  <2> HIDE DEF T, h
  <2>2. n \in Int /\ 1 \in Int /\ \A i \in 1..n : h[i] \in T
    BY <2>1, ElementOfSeq
  <2> HIDE DEF n
  <2>3. SubSeq(h, 1, n) \in Seq(T)
    BY <2>2, SubSeqProperties
  <2> QED
    BY <2>3 DEF T, h, n, Grid
<1> QED
  BY <1>0, <1>1, <1>2, <1>3

LEMMA GridStopsStep ==
  ASSUME RiskInv, NEW s \in Symbols, GridStops(s)
  PROVE  RiskInv' /\ Earned
<1>1. Stopped({s}, "Grid Stop")
      /\ UNCHANGED <<directional, grid, position, killed, peak, phase, crediting, restarts>>
  BY DEF GridStops
<1>2. /\ capital' \in [Symbols -> Nat] /\ banks' \in 0..MaxBanks
      /\ tier' \in [Symbols -> TierRecord] /\ closings' \in [Symbols -> Nat]
      /\ reason' \in [Symbols -> {"", "Grid Stop", "Portfolio Halt"}]
      /\ on' \in [Symbols -> BOOLEAN]
      /\ CountsOnce' /\ Earned
  <2> DEFINE S == {s}
             why == "Grid Stop"
  <2>1. S \in SUBSET Symbols /\ why \in {"Grid Stop", "Portfolio Halt"}
        /\ directional' = directional /\ Stopped(S, why)
    BY <1>1
  <2> HIDE DEF S, why
  <2> QED
    BY <2>1, StoppedOK
<1>3. RiskTypeOK'
  BY <1>1, <1>2, TypesMean, TypeOKIf DEF RiskInv
<1> QED
  BY <1>2, <1>3 DEF RiskInv

LEMMA ReinvestStep ==
  ASSUME RiskInv, NEW s \in Symbols, NEW p \in PnLs, SessionReinvests(s, p)
  PROVE  RiskInv' /\ Earned
<1>1. Banked({s}, [x \in {s} |-> p])
      /\ UNCHANGED <<directional, grid, position, reason, on, killed, peak, phase, crediting, restarts>>
  BY DEF SessionReinvests
<1>2. /\ capital' \in [Symbols -> Nat] /\ banks' \in 0..MaxBanks
      /\ tier' \in [Symbols -> TierRecord] /\ closings' \in [Symbols -> Nat]
      /\ CountsOnce' /\ Earned
  <2> DEFINE S == {s}
             b == [x \in S |-> p]
  <2>1. S \in SUBSET Symbols /\ b \in [S -> Int] /\ directional' = directional /\ Banked(S, b)
    BY <1>1, PnLsInt
  <2> HIDE DEF S, b
  <2> QED
    BY <2>1, BankedOK
<1>3. RiskTypeOK'
  BY <1>1, <1>2, TypesMean, TypeOKIf DEF RiskInv
<1> QED
  BY <1>2, <1>3 DEF RiskInv

LEMMA StartGridStep ==
  ASSUME RiskInv, NEW s \in Symbols, StartGrid(s)
  PROVE  RiskInv' /\ Earned
<1>1. on' = [on EXCEPT ![s] = TRUE]
      /\ UNCHANGED <<files, killed, peak, phase, crediting, closings, banks, restarts>>
  BY DEF StartGrid
<1>2. on' \in [Symbols -> BOOLEAN]
  BY <1>1, TypesMean DEF RiskInv
<1>3. RiskTypeOK'
  BY <1>1, <1>2, TypesMean, TypeOKIf DEF RiskInv, files
<1>4. UNCHANGED <<tier, closings, directional>>
  BY <1>1 DEF files
<1> QED
  BY <1>3, <1>4, SameTiers DEF RiskInv

LEMMA PeakRisesStep ==
  ASSUME RiskInv, PeakRises
  PROVE  RiskInv' /\ Earned
<1>1. peak' = TotalEquity
      /\ UNCHANGED <<files, on, killed, phase, crediting, closings, banks, restarts>>
  BY DEF PeakRises
<1>2. peak' \in Nat
  BY <1>1, TypesMean, EquityNat DEF RiskInv
<1>3. RiskTypeOK'
  BY <1>1, <1>2, TypesMean, TypeOKIf DEF RiskInv, files
<1>4. UNCHANGED <<tier, closings, directional>>
  BY <1>1 DEF files
<1> QED
  BY <1>3, <1>4, SameTiers DEF RiskInv

LEMMA PortfolioHaltsStep ==
  ASSUME RiskInv, PortfolioHalts
  PROVE  RiskInv' /\ Earned
<1>1. Stopped({s \in Symbols : on[s]}, "Portfolio Halt") /\ phase' = "halted"
      /\ UNCHANGED <<directional, grid, position, killed, peak, crediting, restarts>>
  BY DEF PortfolioHalts
<1>2. /\ capital' \in [Symbols -> Nat] /\ banks' \in 0..MaxBanks
      /\ tier' \in [Symbols -> TierRecord] /\ closings' \in [Symbols -> Nat]
      /\ reason' \in [Symbols -> {"", "Grid Stop", "Portfolio Halt"}]
      /\ on' \in [Symbols -> BOOLEAN]
      /\ CountsOnce' /\ Earned
  <2> DEFINE S == {s \in Symbols : on[s]}
             why == "Portfolio Halt"
  <2>1. S \in SUBSET Symbols /\ why \in {"Grid Stop", "Portfolio Halt"}
        /\ directional' = directional /\ Stopped(S, why)
    BY <1>1
  <2> HIDE DEF S, why
  <2> QED
    BY <2>1, StoppedOK
<1>3. RiskTypeOK'
  BY <1>1, <1>2, TypesMean, TypeOKIf DEF RiskInv
<1> QED
  BY <1>2, <1>3 DEF RiskInv

LEMMA PersistStateStep ==
  ASSUME RiskInv, PersistState
  PROVE  RiskInv' /\ Earned
<1>1. reason' = [s \in Symbols |-> ""]
      /\ UNCHANGED <<capital, tier, directional, grid, position, on, killed, peak, phase,
                     crediting, closings, banks, restarts>>
  BY DEF PersistState
<1>2. reason' \in [Symbols -> {"", "Grid Stop", "Portfolio Halt"}]
  BY <1>1
<1>3. RiskTypeOK'
  BY <1>1, <1>2, TypesMean, TypeOKIf DEF RiskInv
<1> QED
  BY <1>1, <1>3, SameTiers DEF RiskInv

LEMMA ShutdownStep ==
  ASSUME RiskInv, Shutdown
  PROVE  RiskInv' /\ Earned
<1> DEFINE S == {s \in Symbols : on[s]}
<1>1. PICK b \in [S -> PnLs \cup {0}] : Banked(S, b)
  BY DEF Shutdown
<1>2. /\ reason' = [s \in Symbols |-> ""] /\ on' = [s \in Symbols |-> FALSE] /\ phase' = "down"
      /\ UNCHANGED <<directional, grid, position, killed, peak, crediting, restarts>>
  BY DEF Shutdown
<1>3. S \in SUBSET Symbols
  OBVIOUS
<1> HIDE DEF S
<1>4. b \in [S -> Int]
  <2>1. \A x \in PnLs \cup {0} : x \in Int
    BY BankableInt
  <2>2. \A s \in S : b[s] \in PnLs \cup {0}
    BY <1>1
  <2> QED
    BY <1>1, <2>1, <2>2
<1>5. /\ capital' \in [Symbols -> Nat] /\ banks' \in 0..MaxBanks
      /\ tier' \in [Symbols -> TierRecord] /\ closings' \in [Symbols -> Nat]
      /\ CountsOnce' /\ Earned
  BY <1>1, <1>2, <1>3, <1>4, BankedOK
<1>6. reason' \in [Symbols -> {"", "Grid Stop", "Portfolio Halt"}] /\ on' \in [Symbols -> BOOLEAN]
  BY <1>2
<1>7. RiskTypeOK'
  BY <1>2, <1>5, <1>6, TypesMean, TypeOKIf DEF RiskInv
<1> QED
  BY <1>5, <1>7 DEF RiskInv

LEMMA ProcessEndsStep ==
  ASSUME RiskInv, ProcessEnds
  PROVE  RiskInv' /\ Earned
<1>1. /\ phase' = "down" /\ on' = [s \in Symbols |-> FALSE]
      /\ ClosesAreLost
      /\ UNCHANGED <<capital, tier, directional, position, reason, killed, peak, closings, banks,
                     restarts>>
  BY DEF ProcessEnds
<1>2. on' \in [Symbols -> BOOLEAN]
  BY <1>1
<1>3. RiskTypeOK'
  BY <1>1, <1>2, LostOK, TypesMean, TypeOKIf DEF RiskInv
<1>4. UNCHANGED <<tier, closings, directional>>
  BY <1>1
<1> QED
  BY <1>3, <1>4, SameTiers DEF RiskInv

LEMMA RestartStep ==
  ASSUME RiskInv, Restart
  PROVE  RiskInv' /\ Earned
<1>1. /\ restarts < MaxRestarts /\ restarts' = restarts + 1 /\ phase' = "running"
      /\ killed' = [s \in Symbols |-> FALSE] /\ peak' = 0
      /\ on' = [s \in Symbols |-> StartsAgain(reason[s])]
      /\ ClosesAreLost
      /\ UNCHANGED <<capital, tier, directional, position, reason, closings, banks>>
  BY DEF Restart
<1>2. on' \in [Symbols -> BOOLEAN] /\ killed' \in [Symbols -> BOOLEAN]
  BY <1>1 DEF StartsAgain
<1>3. restarts' \in 0..MaxRestarts
  <2>1. MaxRestarts \in Nat /\ restarts \in 0..MaxRestarts
    BY RiskAssumption, TypesMean DEF RiskInv
  <2> QED
    BY <1>1, <2>1
<1>4. RiskTypeOK'
  BY <1>1, <1>2, <1>3, LostOK, TypesMean, TypeOKIf DEF RiskInv
<1>5. UNCHANGED <<tier, closings, directional>>
  BY <1>1
<1> QED
  BY <1>4, <1>5, SameTiers DEF RiskInv

LEMMA RiskStep ==
  ASSUME RiskInv, [RiskNext]_riskVars
  PROVE  RiskInv' /\ Earned
<1>1. CASE UNCHANGED riskVars
  <2>1. UNCHANGED <<capital, tier, directional, grid, position, reason, on, killed, peak, phase,
                    crediting, closings, banks, restarts>>
    BY <1>1 DEF riskVars, files
  <2>2. RiskTypeOK'
    BY <2>1, TypesMean, TypeOKIf DEF RiskInv
  <2> QED
    BY <2>1, <2>2, SameTiers DEF RiskInv
<1>2. ASSUME NEW s \in Symbols, NEW p \in PnLs,
             DirectionalTradeCloses(s, p) \/ GridTradeCloses(s, p) \/ SessionReinvests(s, p)
      PROVE  RiskInv' /\ Earned
  BY <1>2, DirectionalStep, GridTradeStep, ReinvestStep
<1>3. ASSUME NEW s \in Symbols,
             KillSwitchTrips(s) \/ Signal(s) \/ GridTradeCredited(s) \/ GridStops(s) \/ StartGrid(s)
      PROVE  RiskInv' /\ Earned
  BY <1>3, KillSwitchStep, SignalStep, GridCreditStep, GridStopsStep, StartGridStep
<1>4. ASSUME PeakRises \/ PortfolioHalts \/ PersistState \/ Shutdown \/ ProcessEnds \/ Restart
      PROVE  RiskInv' /\ Earned
  BY <1>4, PeakRisesStep, PortfolioHaltsStep, PersistStateStep, ShutdownStep, ProcessEndsStep,
     RestartStep
<1> QED
  BY <1>1, <1>2, <1>3, <1>4 DEF RiskNext

LEMMA RiskInitially == RiskInit => RiskInv
<1> SUFFICES ASSUME RiskInit PROVE RiskInv
  OBVIOUS
<1>1. NewSymbol \in TierRecord
  BY TiersOK DEF NewSymbol, EntersTier, TierRecord
<1>2. InitialCapital \in Nat /\ MaxBanks \in Nat /\ MaxRestarts \in Nat
  BY RiskAssumption
<1>3. tier \in [Symbols -> TierRecord] /\ capital \in [Symbols -> Nat]
  BY <1>1, <1>2 DEF RiskInit
<1>4. directional \in [Symbols -> Directional] /\ grid \in [Symbols -> Grid]
  BY EmptySeq DEF RiskInit, Directional, Grid
<1>5. RiskTypeOK
  <2>1. /\ closings \in [Symbols -> Nat] /\ position \in [Symbols -> Nat]
        /\ on \in [Symbols -> BOOLEAN] /\ killed \in [Symbols -> BOOLEAN]
    BY DEF RiskInit
  <2>2. reason \in [Symbols -> {"", "Grid Stop", "Portfolio Halt"}]
    BY DEF RiskInit
  <2>3. phase \in {"running", "halted", "down"}
    BY DEF RiskInit
  <2>4. peak = 0 /\ banks = 0 /\ restarts = 0
    BY DEF RiskInit
  <2>5. peak \in Nat /\ banks \in 0..MaxBanks /\ restarts \in 0..MaxRestarts
    BY <1>2, <2>4
  <2>6. crediting \in [Symbols -> PnLs \cup {0}]
    BY DEF RiskInit
  <2> QED
    BY <1>3, <1>4, <2>1, <2>2, <2>3, <2>5, <2>6 DEF RiskTypeOK, TierRecord, Directional, Grid
<1>6. CountsOnce
  <2>1. ASSUME NEW s \in Symbols
        PROVE  tier[s].trades = 0 /\ tier[s].total = 0 /\ closings[s] = 0 /\ Len(directional[s]) = 0
    BY DEF RiskInit, NewSymbol, EntersTier
  <2> QED
    BY <2>1 DEF CountsOnce
<1> QED
  BY <1>5, <1>6 DEF RiskInv

LEMMA RiskInvariant == RiskSpec => []RiskInv
<1>1. RiskInv /\ [RiskNext]_riskVars => RiskInv'
  BY RiskStep
<1> QED
  BY <1>1, RiskInitially, PTL DEF RiskSpec

(* Whichever of the two writers wrote last, a symbol has a capital that is *)
(* not negative, a tier of the table and counters that are counts, for     *)
(* every configured table, also when the loader falls back to its own.     *)
THEOREM RiskTypeCorrect == RiskSpec => []RiskTypeOK
  BY RiskInvariant, PTL DEF RiskInv

(* A symbol moves up only after MinStay trades and sessions in its tier,   *)
(* but for the one that signal and close may both have counted.            *)
THEOREM PromotionsAreEarned == RiskSpec => PromotionIsEarned
<1>1. RiskInv /\ [RiskNext]_riskVars
        => [\A s \in Symbols : tier'[s].at < tier[s].at => closings[s] + 1 >= MinStay]_riskVars
  BY RiskStep DEF Earned
<1> QED
  BY <1>1, RiskInvariant, PTL DEF RiskSpec, PromotionIsEarned

-----------------------------------------------------------------------------
(* Whoever qualifies for a tier deserves it and every tier below it. *)

LEMMA FactorMonotone ==
  ASSUME NEW m, m.won \in Nat, m.lost \in Nat, NEW x \in Int, NEW y \in Int, y <= x,
         FactorAtLeast(m, x)
  PROVE  FactorAtLeast(m, y)
<1> DEFINE won == m.won
           lost == m.lost
<1>1. won \in Nat /\ lost \in Nat
  OBVIOUS
<1>2. \A z : FactorAtLeast(m, z)
              <=> IF lost > 0 THEN 10 * won >= z * lost ELSE (IF won > 0 THEN 100 ELSE 0) >= z
  BY DEF FactorAtLeast
<1> HIDE DEF won, lost
<1>3. CASE lost > 0
  <2>1. y * lost <= x * lost
    BY <1>1, TimesMonotone
  <2>2. 10 * won >= x * lost
    BY <1>2, <1>3
  <2>3. 10 * won \in Int /\ x * lost \in Int /\ y * lost \in Int
    BY <1>1
  <2>4. 10 * won >= y * lost
    BY <2>1, <2>2, <2>3
  <2> QED
    BY <1>2, <1>3, <2>4
<1>4. CASE ~(lost > 0)
  <2>1. (IF won > 0 THEN 100 ELSE 0) >= x
    BY <1>2, <1>4
  <2>2. (IF won > 0 THEN 100 ELSE 0) >= y
    BY <2>1
  <2> QED
    BY <1>2, <1>4, <2>2
<1> QED
  BY <1>3, <1>4

LEMMA FactorNotNegative ==
  ASSUME NEW m, m.won \in Nat, m.lost \in Nat, NEW y \in Int, y <= 0
  PROVE  FactorAtLeast(m, y)
<1> DEFINE won == m.won
           lost == m.lost
<1>1. won \in Nat /\ lost \in Nat
  OBVIOUS
<1>2. FactorAtLeast(m, y)
       <=> IF lost > 0 THEN 10 * won >= y * lost ELSE (IF won > 0 THEN 100 ELSE 0) >= y
  BY DEF FactorAtLeast
<1> HIDE DEF won, lost
<1>3. 10 * won >= y * lost
  <2> DEFINE o == 0
  <2>1. o \in Int /\ o = 0
    OBVIOUS
  <2> HIDE DEF o
  <2>2. y * lost <= o * lost
    BY <1>1, <2>1, TimesMonotone
  <2>3. o * lost = 0 /\ y * lost \in Int /\ 10 * won \in Nat
    BY <1>1, <2>1
  <2> QED
    BY <2>2, <2>3
<1> QED
  BY <1>1, <1>2, <1>3

LEMMA ClassifiedDeserves ==
  ASSUME Ordered, NEW m, m.total \in Nat, m.won \in Nat, m.lost \in Nat,
         NEW h, h.at \in 1..Lowest
  PROVE  Deserves(m, Tiers[Classified(m, h)])
<1>0. DemoteBuffer \in Nat /\ Lowest \in Nat \ {0}
  BY RiskAssumption, TiersOK
<1>1. \A i \in 1..Lowest : Tiers[i].pf \in Int /\ Tiers[i].minTrades \in Int
  BY TiersOK DEF Numbers
<1>2. ASSUME NEW i \in 1..Lowest, Experienced(m, Tiers[i]), FactorAtLeast(m, Tiers[i].pf)
      PROVE  Deserves(m, Tiers[i])
  <2> DEFINE x == Tiers[i].pf
             y == Tiers[i].pf - DemoteBuffer
  <2>1. x \in Int /\ y \in Int /\ y <= x /\ FactorAtLeast(m, x)
    BY <1>0, <1>1, <1>2
  <2> HIDE DEF x, y
  <2>2. FactorAtLeast(m, y)
    BY <2>1, FactorMonotone
  <2> QED
    BY <1>2, <2>2 DEF Deserves, Experienced, y
<1>3. ASSUME NEW i \in 1..Lowest, Meets(m, Tiers[i]) PROVE Deserves(m, Tiers[i])
  BY <1>2, <1>3 DEF Meets
<1>4. Deserves(m, Tiers[Lowest])
  <2> DEFINE y == Tiers[Lowest].pf - DemoteBuffer
  <2>1. Tiers[Lowest].minTrades = 0 /\ Tiers[Lowest].pf = 0
    BY DEF Ordered
  <2>2. y \in Int /\ y <= 0
    BY <1>0, <2>1
  <2> HIDE DEF y
  <2>3. FactorAtLeast(m, y)
    BY <2>2, FactorNotNegative
  <2> QED
    BY <2>1, <2>3 DEF Deserves, y
<1>5. ASSUME NEW i \in 1..Lowest, NEW j \in 1..Lowest, i < j, Deserves(m, Tiers[i])
      PROVE  Deserves(m, Tiers[j])
  <2> DEFINE x == Tiers[i].pf - DemoteBuffer
             y == Tiers[j].pf - DemoteBuffer
  <2>1. Tiers[j].minTrades <= Tiers[i].minTrades /\ Tiers[j].pf <= Tiers[i].pf
    BY <1>5 DEF Ordered
  <2>2. x \in Int /\ y \in Int /\ y <= x
    BY <1>0, <1>1, <2>1
  <2>3. m.total >= Tiers[i].minTrades /\ FactorAtLeast(m, x)
    BY <1>5 DEF Deserves
  <2> HIDE DEF x, y
  <2>4. FactorAtLeast(m, y)
    BY <2>2, <2>3, FactorMonotone
  <2>5. m.total >= Tiers[j].minTrades
    BY <1>1, <2>1, <2>3
  <2> QED
    BY <2>4, <2>5 DEF Deserves, y
<1> DEFINE top == BestOf(m, 1..Lowest)
           down == Demoted(m, h)
<1>6. top \in 1..Lowest /\ (top = Lowest \/ Meets(m, Tiers[top]))
  <2>1. 1..Lowest \in SUBSET (1..Lowest)
    OBVIOUS
  <2> QED
    BY <2>1, BestOfOK
<1>7. down \in 1..Lowest /\ (down = Lowest \/ Meets(m, Tiers[down]))
  BY DemotedOK
<1>8. \/ Classified(m, h) = top
      \/ Classified(m, h) = down
      \/ Classified(m, h) = h.at /\ top < h.at
      \/ Classified(m, h) = h.at /\ top > h.at /\ WithinBuffer(m, h)
      \/ Classified(m, h) = h.at /\ ~(top < h.at) /\ ~(top > h.at)
  BY DEF Classified
<1> HIDE DEF top, down
<1>9. Deserves(m, Tiers[top])
  BY <1>3, <1>4, <1>6
<1>10. Deserves(m, Tiers[down])
  BY <1>3, <1>4, <1>7
<1>11. CASE Classified(m, h) = h.at /\ top < h.at
  BY <1>5, <1>6, <1>9, <1>11
<1>12. CASE Classified(m, h) = h.at /\ WithinBuffer(m, h)
  <2>1. Experienced(m, Tiers[h.at]) /\ FactorAtLeast(m, Tiers[h.at].pf - DemoteBuffer)
    BY <1>12 DEF WithinBuffer
  <2> QED
    BY <1>12, <2>1 DEF Deserves, Experienced
<1>13. CASE Classified(m, h) = h.at /\ ~(top < h.at) /\ ~(top > h.at)
  <2>1. top = h.at
    BY <1>0, <1>6, <1>13
  <2> QED
    BY <1>9, <1>13, <2>1
<1> QED
  BY <1>8, <1>9, <1>10, <1>11, <1>12, <1>13

Deserved ==
    \A s \in Symbols :
        Closes(s) => Deserves(ExitMetrics(directional'[s], grid'[s]), Tiers[tier'[s].at])

(* a close is of one symbol *)
LEMMA CloseDeserved ==
  ASSUME Ordered, RiskInv, NEW s \in Symbols,
         directional' \in [Symbols -> Directional], grid' \in [Symbols -> Grid],
         \A x \in Symbols \ {s} : directional'[x] = directional[x] /\ crediting'[x] = crediting[x],
         Reclassified({s}, directional', grid')
  PROVE  Deserved
<1> DEFINE S == {s}
           d == directional'
           g == grid'
           m == ExitMetrics(d[s], g[s])
           h == tier[s]
<1>1. tier \in [Symbols -> TierRecord] /\ closings \in [Symbols -> Nat]
  BY TypesMean DEF RiskInv
<1>2. tier'[s].at = Classified(m, h)
  <2>1. S \in SUBSET Symbols /\ d \in [Symbols -> Directional] /\ g \in [Symbols -> Grid]
        /\ Reclassified(S, d, g) /\ s \in S
    OBVIOUS
  <2> HIDE DEF S, d, g, h
  <2>2. Recounted(S, d, g)
    BY <1>1, <2>1, ReclassifiedOK
  <2> QED
    BY <2>1, <2>2 DEF Recounted, h, m
<1>3. m.total \in Nat /\ m.won \in Nat /\ m.lost \in Nat
  BY ExitMetricsOK
<1>4. h.at \in 1..Lowest
  BY <1>1 DEF TierRecord
<1>5. Deserves(m, Tiers[tier'[s].at])
  <2> HIDE DEF m, h
  <2> QED
    BY <1>2, <1>3, <1>4, ClassifiedDeserves
<1>6. ASSUME NEW x \in Symbols, Closes(x)
      PROVE  x = s
  BY <1>6 DEF Closes
<1> QED
  BY <1>5, <1>6 DEF Deserved

(* no close gets through in any other step *)
LEMMA NoneCloses ==
  ASSUME UNCHANGED directional,
         \/ \A s \in Symbols : crediting'[s] = crediting[s] \/ crediting'[s] # 0
         \/ phase' # phase
  PROVE  Deserved
  BY DEF Closes, Deserved

LEMMA DeservedStep ==
  ASSUME Ordered, RiskInv, [RiskNext]_riskVars
  PROVE  Deserved
<1>0. /\ directional \in [Symbols -> Directional] /\ grid \in [Symbols -> Grid]
      /\ crediting \in [Symbols -> PnLs \cup {0}]
  BY TypesMean DEF RiskInv
<1>1. CASE UNCHANGED riskVars
  BY <1>1, NoneCloses DEF riskVars, files
<1>2. ASSUME NEW s \in Symbols, NEW p \in PnLs, DirectionalTradeCloses(s, p)
      PROVE  Deserved
  <2>1. directional' = [directional EXCEPT ![s] = Append(@, Trade(p, p))] /\ grid' = grid
        /\ crediting' = crediting /\ Reclassified({s}, directional', grid)
    BY <1>2 DEF DirectionalTradeCloses
  <2>2. directional' \in [Symbols -> Directional] /\ grid' \in [Symbols -> Grid]
    BY <1>0, <1>2, <2>1, DirectionalStep, TypesMean DEF RiskInv, RiskTypeOK, Directional, Grid
  <2> QED
    BY <1>0, <2>1, <2>2, CloseDeserved
<1>3. ASSUME NEW s \in Symbols, GridTradeCredited(s)
      PROVE  Deserved
  <2>1. crediting' = [crediting EXCEPT ![s] = 0] /\ directional' = directional /\ grid' = grid
        /\ Reclassified({s}, directional, grid)
    BY <1>3 DEF GridTradeCredited
  <2>2. directional' \in [Symbols -> Directional] /\ grid' \in [Symbols -> Grid]
        /\ Reclassified({s}, directional', grid')
    BY <1>0, <2>1
  <2>3. \A x \in Symbols \ {s} : directional'[x] = directional[x] /\ crediting'[x] = crediting[x]
    BY <1>0, <2>1
  <2> QED
    BY <2>2, <2>3, CloseDeserved
<1>4. ASSUME NEW s \in Symbols, NEW p \in PnLs, GridTradeCloses(s, p)
      PROVE  Deserved
  <2>1. crediting' = [crediting EXCEPT ![s] = p] /\ UNCHANGED directional
    BY <1>4 DEF GridTradeCloses
  <2>2. p # 0
    BY RiskAssumption
  <2>3. \A x \in Symbols : crediting'[x] = crediting[x] \/ crediting'[x] # 0
    BY <1>0, <2>1, <2>2
  <2> QED
    BY <2>1, <2>3, NoneCloses
<1>5. ASSUME NEW s \in Symbols, NEW p \in PnLs, SessionReinvests(s, p)
      PROVE  Deserved
  BY <1>5, NoneCloses DEF SessionReinvests
<1>6. ASSUME NEW s \in Symbols, KillSwitchTrips(s) \/ Signal(s) \/ GridStops(s) \/ StartGrid(s)
      PROVE  Deserved
  BY <1>6, NoneCloses DEF KillSwitchTrips, Signal, GridStops, StartGrid, files
<1>7. ASSUME PeakRises \/ PortfolioHalts \/ PersistState \/ Shutdown
      PROVE  Deserved
  BY <1>7, NoneCloses DEF PeakRises, PortfolioHalts, PersistState, Shutdown, files
<1>8. ASSUME ProcessEnds \/ Restart
      PROVE  Deserved
  BY <1>8, NoneCloses DEF ProcessEnds, Restart
<1> QED
  BY <1>1, <1>2, <1>3, <1>4, <1>5, <1>6, <1>7, <1>8 DEF RiskNext

(* When a close is through, classify() leaves the symbol in a tier that its    *)
(* trades and its profit factor bear, up to the demotion buffer: of any    *)
(* table whose requirements do not rise towards its end, and by every rule *)
(* of promotion and demotion.                                              *)
THEOREM TiersAreDeserved ==
  ASSUME Ordered
  PROVE  RiskSpec => TierIsDeserved
<1>1. RiskInv /\ [RiskNext]_riskVars
        => [\A s \in Symbols :
             Closes(s) => Deserves(ExitMetrics(directional'[s], grid'[s]), Tiers[tier'[s].at])]_riskVars
  BY DeservedStep DEF Deserved
<1> QED
  BY <1>1, RiskInvariant, PTL DEF RiskSpec, TierIsDeserved

-----------------------------------------------------------------------------
(* The sizing of a grid, for every capital and every tier *)

LEMMA SizesOK ==
  /\ LevelsUp \in Nat \ {0} /\ LevelsDown \in Nat \ {0} /\ MinLevels \in Nat \ {0}
  /\ BaseLeverage \in Nat \ {0} /\ MinOrder \in Nat \ {0} /\ MaxOrder \in Nat
<1>1. {EntryLookback, ExitLookback, LevelsUp, LevelsDown, MinLevels, BaseLeverage, MinOrder}
        \subseteq Nat \ {0}
  BY RiskAssumption
<1>2. MaxOrder \in Nat
  BY RiskAssumption
<1> QED
  BY <1>1, <1>2

LEMMA GridLeverageOK ==
  ASSUME NEW t, Numbers(t)
  PROVE  GridLeverage(t) \in Nat
<1> DEFINE x == BaseLeverage * t.leverage
           y == 10 * t.cap
           z == Min({x, y})
           o == 10
<1>1. x \in Int /\ y \in Int
  BY SizesOK DEF Numbers
<1>2. o \in Int /\ o = 10
  OBVIOUS
<1>3. GridLeverage(t) = Max({o, z})
  BY DEF GridLeverage
<1>4. z \in Int
  <2> HIDE DEF x, y
  <2> QED
    BY <1>1, MinOfTwo
<1> HIDE DEF z, o
<1>5. Max({o, z}) \in Int /\ Max({o, z}) >= o
  BY <1>2, <1>4, MaxOfTwo
<1> QED
  BY <1>2, <1>3, <1>5

LEMMA ByTierInt ==
  ASSUME NEW t, Numbers(t)
  PROVE  ByTier(t) \in Int
<1> DEFINE x == Even((Configured * t.ratio) \div 100)
           o == 2
<1>1. x \in Int
  <2> DEFINE v == Configured * t.ratio
             e == v \div 100
  <2>1. v \in Int
    BY SizesOK DEF Numbers, Configured
  <2>2. e \in Int
    <3> HIDE DEF v
    <3> QED
      BY <2>1
  <2>3. x = e - (e % 2)
    BY DEF Even
  <2> HIDE DEF e, x
  <2> QED
    BY <2>2, <2>3
<1>2. o \in Int
  OBVIOUS
<1>3. ByTier(t) = Max({o, x})
  BY DEF ByTier
<1> HIDE DEF x, o
<1> QED
  BY <1>1, <1>2, <1>3, MaxOfTwo

(* round() adds a half at most *)
LEMMA RoundedUpByHalf ==
  ASSUME NEW a \in Nat, NEW b \in Nat \ {0}
  PROVE  Rounded(a, b) \in Nat /\ Rounded(a, b) * (2 * b) <= 2 * a + b
<1> DEFINE q == a \div b
           r == a % b
<1>1. q \in Nat /\ r \in Nat /\ a = b * q + r
  OBVIOUS
<1>2. \/ Rounded(a, b) = q
      \/ Rounded(a, b) = q + 1 /\ 2 * r >= b
  <2>1. 2 * r > b \/ 2 * r = b => 2 * r >= b
    BY <1>1
  <2> QED
    BY <2>1 DEF Rounded
<1> HIDE DEF q, r
<1>3. b * q \in Nat /\ q * (2 * b) = 2 * (b * q) /\ (q + 1) * (2 * b) = 2 * (b * q) + 2 * b
  BY <1>1
<1>4. CASE Rounded(a, b) = q
  BY <1>1, <1>3, <1>4
<1>5. CASE Rounded(a, b) = q + 1 /\ 2 * r >= b
  <2>1. 2 * (b * q) + 2 * b <= 2 * a + b
    BY <1>1, <1>3, <1>5
  <2> QED
    BY <1>1, <1>3, <1>5, <2>1
<1> QED
  BY <1>2, <1>4, <1>5

(* the number of levels is the least or what the capital carries, or less *)
LEMMA LevelsOK ==
  ASSUME NEW t, Numbers(t), NEW c, ByCapital(c, t) \in Nat
  PROVE  LET n == ActiveLevels(c, t)
         IN  n \in Nat \ {0} /\ n <= Configured /\ (n <= MinLevels \/ n <= ByCapital(c, t))
<1> DEFINE a == ByTier(t)
           b == ByCapital(c, t)
           x == Min({a, b})
           l == MinLevels
           y == Max({l, x})
           k == Configured
           n == Min({k, y})
<1>1. a \in Int /\ b \in Int
  BY ByTierInt
<1>2. l \in Nat \ {0} /\ k \in Nat \ {0}
  BY SizesOK DEF Configured
<1>3. ActiveLevels(c, t) = n
  BY DEF ActiveLevels
<1>4. x \in Int /\ x <= b
  <2> HIDE DEF a, b
  <2> QED
    BY <1>1, MinOfTwo
<1>5. y \in {l, x} /\ y >= l
  <2> HIDE DEF l, x
  <2> QED
    BY <1>2, <1>4, MaxOfTwo
<1>6. n \in {k, y} /\ n <= k /\ n <= y
  <2>1. y \in Int /\ k \in Int
    <3> HIDE DEF k, y, l, x
    <3> QED
      BY <1>2, <1>4, <1>5
  <2> HIDE DEF k, y
  <2> QED
    BY <2>1, MinOfTwo
<1> HIDE DEF n, k, y, l, x, b, a
<1>7. n \in Nat \ {0} /\ n <= k /\ (n <= l \/ n <= b)
  BY <1>1, <1>2, <1>4, <1>5, <1>6
<1> QED
  BY <1>3, <1>7 DEF k, l, b

LEMMA OrderSizeOK ==
  ASSUME NEW t, NEW c, Notional(c, t) \in Nat, ActiveLevels(c, t) \in Nat \ {0}
  PROVE  /\ OrderSize(c, t) \in Nat
         /\ \/ OrderSize(c, t) = 100 * MinOrder
            \/ OrderSize(c, t) <= Rounded(Notional(c, t), ActiveLevels(c, t))
<1> DEFINE lo == 100 * MinOrder
           hi == 100 * MaxOrder
           q == Rounded(Notional(c, t), ActiveLevels(c, t))
           x == Min({hi, q})
<1>1. lo \in Nat /\ hi \in Int
  BY SizesOK
<1>2. q \in Int
  <2> DEFINE w == Notional(c, t)
             n == ActiveLevels(c, t)
  <2>1. w \in Nat /\ n \in Nat \ {0}
    OBVIOUS
  <2> HIDE DEF w, n
  <2>2. Rounded(w, n) \in Int
    BY <2>1 DEF Rounded
  <2> QED
    BY <2>2 DEF w, n
<1>3. OrderSize(c, t) = Max({lo, x})
  BY DEF OrderSize
<1>4. x \in Int /\ x <= q
  <2> HIDE DEF hi, q
  <2> QED
    BY <1>1, <1>2, MinOfTwo
<1>5. Max({lo, x}) \in {lo, x} /\ Max({lo, x}) >= lo
  <2>1. lo \in Int /\ x \in Int
    BY <1>1, <1>4
  <2> HIDE DEF lo, x
  <2> QED
    BY <2>1, MaxOfTwo
<1> HIDE DEF x, q, hi
<1> QED
  BY <1>1, <1>2, <1>3, <1>4, <1>5 DEF q

LEMMA OrdersFit ==
  ASSUME NEW t, Numbers(t), NEW c \in Nat, EnoughCapital(c, t)
  PROVE  LET n == ActiveLevels(c, t)
         IN  n <= Configured /\ 2 * (n \div 2) * OrderSize(c, t) <= Notional(c, t) + n
<1> DEFINE lev == GridLeverage(t)
           w == Notional(c, t)
           u == 100 * MinOrder
           b == ByCapital(c, t)
           n == ActiveLevels(c, t)
           z == OrderSize(c, t)
           q == Rounded(w, n)
<1>1. MinOrder \in Nat \ {0} /\ MinLevels \in Nat \ {0} /\ u \in Nat \ {0}
  BY SizesOK
<1>2. lev \in Nat
  BY GridLeverageOK
<1>3. w = 10 * (c * lev) /\ w \in Nat
  <2>1. w = c * 10 * lev
    BY DEF Notional
  <2> HIDE DEF lev, w
  <2> QED
    BY <1>2, <2>1
<1>4. MinLevels * u <= w
  <2>1. c * lev >= MinLevels * MinOrder * 10
    BY DEF EnoughCapital
  <2> DEFINE k == MinLevels * MinOrder
             v == c * lev
  <2>2. k \in Nat /\ v \in Nat
    BY <1>1, <1>2
  <2>3. MinLevels * u = 100 * k
    BY <1>1
  <2> HIDE DEF k, v, w, lev
  <2>4. v >= k * 10 /\ w = 10 * v
    BY <1>3, <2>1 DEF k, v
  <2> QED
    BY <2>2, <2>3, <2>4
<1>5. b \in Nat /\ b * u <= w
  <2>1. b = w \div u
    BY DEF ByCapital
  <2> HIDE DEF w, u, b
  <2> QED
    BY <1>1, <1>3, <2>1, Quotient
<1>6. n \in Nat \ {0} /\ n <= Configured /\ (n <= MinLevels \/ n <= b)
  BY <1>5, LevelsOK
<1>7. z \in Nat /\ (z = u \/ z <= q)
  BY <1>3, <1>6, OrderSizeOK
<1>8. n * u <= w
  <2> DEFINE l == MinLevels
  <2>1. l \in Nat /\ l * u <= w /\ (n <= l \/ n <= b)
    BY <1>1, <1>4, <1>6
  <2> HIDE DEF l, n, u, w, b
  <2>2. CASE n <= l
    <3>1. n * u <= l * u
      BY <1>1, <1>6, <2>1, <2>2, TimesMonotone
    <3> QED
      BY <1>1, <1>3, <1>6, <2>1, <3>1
  <2>3. CASE n <= b
    <3>1. n * u <= b * u
      BY <1>1, <1>5, <1>6, <2>3, TimesMonotone
    <3> QED
      BY <1>1, <1>3, <1>5, <1>6, <3>1
  <2> QED
    BY <2>1, <2>2, <2>3
<1>9. q \in Nat /\ q * (2 * n) <= 2 * w + n
  <2> HIDE DEF w, n
  <2> QED
    BY <1>3, <1>6, RoundedUpByHalf
<1> HIDE DEF n, z, q, w, u, b
<1>10. n * z <= w + n
  <2>1. CASE z = u
    BY <1>1, <1>3, <1>6, <1>8, <2>1
  <2>2. CASE z <= q
    <3>1. z * n <= q * n
      BY <1>6, <1>7, <1>9, <2>2, TimesMonotone
    <3>2. q * (2 * n) = 2 * (q * n) /\ q * n \in Nat /\ z * n \in Nat /\ n * z = z * n
      BY <1>6, <1>7, <1>9
    <3> QED
      BY <1>3, <1>6, <1>9, <3>1, <3>2
  <2> QED
    BY <1>7, <2>1, <2>2
<1>11. 2 * (n \div 2) * z <= n * z
  <2> DEFINE e == 2 * (n \div 2)
  <2>1. e \in Int /\ e <= n
    BY <1>6
  <2> HIDE DEF e
  <2> QED
    BY <1>6, <1>7, <2>1, TimesMonotone DEF e
<1>12. 2 * (n \div 2) * z <= w + n
  <2> DEFINE e == 2 * (n \div 2)
  <2>1. e * z \in Int /\ n * z \in Int /\ w + n \in Int
    BY <1>3, <1>6, <1>7
  <2>2. e * z <= n * z
    BY <1>11
  <2> HIDE DEF e
  <2>3. e * z <= w + n
    BY <1>10, <2>1, <2>2
  <2> QED
    BY <2>3 DEF e
<1> QED
  BY <1>6, <1>12 DEF n, z, w

(* A grid that calculate_grid_params() does not refuse has no more levels  *)
(* than are configured, and all of its orders fit the leveraged capital,   *)
(* for every capital, every tier and every configuration.                  *)
THEOREM GridsFit == RiskSpec => []GridFits
<1>1. RiskInv => GridFits
  <2> SUFFICES ASSUME RiskInv, NEW s \in Symbols
               PROVE  LET t == Tiers[tier[s].at]
                          n == ActiveLevels(capital[s], t)
                      IN  EnoughCapital(capital[s], t)
                            => /\ n <= Configured
                               /\ 2 * (n \div 2) * OrderSize(capital[s], t) <= Notional(capital[s], t) + n
    BY DEF GridFits
  <2> DEFINE t == Tiers[tier[s].at]
             c == capital[s]
  <2>1. capital \in [Symbols -> Nat] /\ tier \in [Symbols -> TierRecord]
    BY TypesMean DEF RiskInv
  <2>2. c \in Nat
    BY <2>1
  <2>3. Numbers(t)
    <3>1. tier[s].at \in 1..Lowest
      BY <2>1 DEF TierRecord
    <3> QED
      BY <3>1, TiersOK
  <2> HIDE DEF t, c
  <2>4. EnoughCapital(c, t)
          => LET n == ActiveLevels(c, t)
             IN  n <= Configured /\ 2 * (n \div 2) * OrderSize(c, t) <= Notional(c, t) + n
    BY <2>2, <2>3, OrdersFit
  <2> QED
    BY <2>4 DEF t, c
<1> QED
  BY <1>1, RiskInvariant, PTL
=============================================================================
