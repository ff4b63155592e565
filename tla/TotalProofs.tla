----------------------------- MODULE TotalProofs -----------------------------
(***************************************************************************)
(* Proofs about sums: what one player gave another received, the exported   *)
(* document says so, and the histograms hold no more rounds than the half.  *)
(* For any players, settings and bounds. The sums are folds over a set, of  *)
(* which the first part shows that they do not depend on the order in which *)
(* the fold picks elements.                                                 *)
(***************************************************************************)
EXTENDS RecordProofs, MatchTotals, WellFoundedInduction

(* Sums. A set of subsets has a smallest member, which stands for induction. *)

LEMMA SmallestSubset ==
    ASSUME NEW D, IsFiniteSet(D), NEW Bad \in SUBSET (SUBSET D), Bad # {}
    PROVE  \E s \in Bad : \A t \in Bad : t \subseteq s => t = s
  <1>1. IsWellFoundedOn(StrictSubsetOrdering(D), SUBSET D)
    BY FS_StrictSubsetOrderingWellFounded, FS_FiniteSubsetsOfFinite
  <1>2. PICK s \in Bad : \A t \in Bad : ~ (<<t, s>> \in StrictSubsetOrdering(D))
    BY <1>1, WFMin
  <1> QED
    BY <1>2 DEF StrictSubsetOrdering

\* The element the fold picks, and one step of the fold.
Pick(s) == CHOOSE y \in s : TRUE
SumStep(f, g, s) == IF s = {} THEN 0 ELSE f[Pick(s)] + g[s \ {Pick(s)}]
IsSum(f, g, D) == g = [s \in SUBSET D |-> SumStep(f, g, s)]
Sums(f) == CHOOSE g : IsSum(f, g, DOMAIN f)

LEMMA SumOverIs == ASSUME NEW f PROVE SumOver(f) = Sums(f)[DOMAIN f]
  BY DEF SumOver, MapThenSumSet, MapThenFoldSet, Sums, IsSum, SumStep, Pick

LEMMA PickIn == ASSUME NEW s, s # {} PROVE Pick(s) \in s
  BY DEF Pick

LEMMA SumRestricted ==
    ASSUME NEW f, NEW h, NEW u, IsSum(f, h, u), NEW t \in SUBSET u
    PROVE  IsSum(f, [v \in SUBSET t |-> h[v]], t)
  <1> DEFINE r == [v \in SUBSET t |-> h[v]]
  <1>1. ASSUME NEW v \in SUBSET t PROVE r[v] = SumStep(f, r, v)
    <2>1. h[v] = SumStep(f, h, v)
      BY DEF IsSum
    <2>2. v \ {Pick(v)} \in SUBSET t
      OBVIOUS
    <2> QED
      BY <2>1, <2>2 DEF SumStep
  <1> QED
    BY <1>1 DEF IsSum

\* The fold is defined, and is the only function with its recursion.
LEMMA SumExists ==
    ASSUME NEW f, IsFiniteSet(DOMAIN f)
    PROVE  IsSum(f, Sums(f), DOMAIN f)
  <1> DEFINE D == DOMAIN f
             One(s) == \E g : IsSum(f, g, s) /\ \A h : IsSum(f, h, s) => h = g
             Bad == {s \in SUBSET D : ~One(s)}
             G(t) == CHOOSE g : IsSum(f, g, t)
  <1>1. Bad = {}
    <2> SUFFICES ASSUME Bad # {} PROVE FALSE
      OBVIOUS
    <2>1. PICK s \in Bad : \A t \in Bad : t \subseteq s => t = s
      <3>1. Bad \in SUBSET (SUBSET D)
        OBVIOUS
      <3> HIDE DEF Bad
      <3> QED
        BY <3>1, SmallestSubset
    <2> s \in SUBSET D
      OBVIOUS
    <2>2. ASSUME NEW t \in SUBSET s, t # s PROVE One(t)
      BY <2>1, <2>2
    <2>3. ASSUME NEW t \in SUBSET s, t # s
          PROVE  IsSum(f, G(t), t) /\ \A h : IsSum(f, h, t) => h = G(t)
      BY <2>2, <2>3
    <2> HIDE DEF G, One, Bad
    <2>4. ASSUME NEW h, NEW u \in SUBSET s, IsSum(f, h, u), NEW t \in SUBSET u, t # s
          PROVE  h[t] = G(t)[t]
      <3>1. IsSum(f, [v \in SUBSET t |-> h[v]], t)
        BY <2>4, SumRestricted
      <3>2. [v \in SUBSET t |-> h[v]] = G(t)
        BY <2>3, <2>4, <3>1
      <3>3. [v \in SUBSET t |-> h[v]][t] = h[t]
        OBVIOUS
      <3> QED
        BY <3>2, <3>3
    <2> DEFINE Rest(t) == t \ {Pick(t)}
               g == [t \in SUBSET s |->
                        IF t = {} THEN 0 ELSE f[Pick(t)] + G(Rest(t))[Rest(t)]]
    <2>5. ASSUME NEW t \in SUBSET s, t # {}
          PROVE  Rest(t) \in SUBSET s /\ Rest(t) # s /\ Rest(t) \in SUBSET t
      BY <2>5, PickIn
    <2>6. ASSUME NEW t \in SUBSET s, t # s PROVE g[t] = G(t)[t]
      <3>1. IsSum(f, G(t), t)
        BY <2>3, <2>6
      <3>2. G(t)[t] = SumStep(f, G(t), t)
        BY <3>1 DEF IsSum
      <3>3. t # {} => G(t)[Rest(t)] = G(Rest(t))[Rest(t)]
        BY <2>4, <2>5, <3>1
      <3> QED
        BY <3>2, <3>3 DEF SumStep
    <2>7. ASSUME NEW t \in SUBSET s PROVE g[t] = SumStep(f, g, t)
      BY <2>5, <2>6, <2>7 DEF SumStep
    <2>8. IsSum(f, g, s)
      BY <2>7 DEF IsSum
    <2>9. ASSUME NEW h, IsSum(f, h, s) PROVE h = g
      <3>1. h = [t \in SUBSET s |-> SumStep(f, h, t)]
        BY <2>9 DEF IsSum
      <3>2. ASSUME NEW t \in SUBSET s PROVE SumStep(f, h, t) = g[t]
        <4>1. t # {} => h[Rest(t)] = G(Rest(t))[Rest(t)]
          BY <2>4, <2>5, <2>9
        <4> QED
          BY <4>1 DEF SumStep
      <3> QED
        BY <3>1, <3>2
    <2> HIDE DEF g
    <2>10. One(s)
      BY <2>8, <2>9 DEF One
    <2> QED
      BY <2>1, <2>10 DEF Bad
  <1>2. One(D)
    BY <1>1
  <1> QED
    BY <1>2 DEF Sums

\* Any element can be taken out first.
LEMMA SumParts ==
    ASSUME NEW D, IsFiniteSet(D), NEW f \in [D -> Int]
    PROVE  /\ Sums(f)[{}] = 0
           /\ \A s \in SUBSET D : Sums(f)[s] \in Int
           /\ \A s \in SUBSET D : \A x \in s : Sums(f)[s] = f[x] + Sums(f)[s \ {x}]
  <1> DEFINE F == Sums(f)
             Good(s) == F[s] \in Int /\ \A x \in s : F[s] = f[x] + F[s \ {x}]
             Bad == {s \in SUBSET D : ~Good(s)}
  <1>1. \A s \in SUBSET D : F[s] = SumStep(f, F, s)
    BY SumExists DEF IsSum
  <1>2. F[{}] = 0
    BY <1>1 DEF SumStep
  <1> HIDE DEF F
  <1>3. Bad = {}
    <2> SUFFICES ASSUME Bad # {} PROVE FALSE
      OBVIOUS
    <2>1. PICK s \in Bad : \A t \in Bad : t \subseteq s => t = s
      <3>1. Bad \in SUBSET (SUBSET D)
        OBVIOUS
      <3> HIDE DEF Bad
      <3> QED
        BY <3>1, SmallestSubset
    <2>2. \A t \in SUBSET s : t # s => Good(t)
      BY <2>1
    <2>3. s # {}
      <3>1. Good({})
        BY <1>2
      <3> QED
        BY <2>1, <3>1
    <2> DEFINE y == Pick(s)
    <2>4. y \in s /\ F[s] = f[y] + F[s \ {y}]
      BY <1>1, <2>1, <2>3, PickIn DEF SumStep
    <2> HIDE DEF y
    <2>5. \A x \in s : f[x] \in Int /\ s \ {x} \in SUBSET s /\ s \ {x} # s
      BY <2>1
    <2>6. F[s] \in Int
      BY <2>2, <2>4, <2>5
    <2>7. ASSUME NEW x \in s, x # y PROVE F[s] = f[x] + F[s \ {x}]
      <3> DEFINE r == (s \ {y}) \ {x}
      <3>1. r = (s \ {x}) \ {y} /\ r \in SUBSET s /\ r # s
        OBVIOUS
      <3>2. F[s \ {y}] = f[x] + F[r]
        BY <2>2, <2>4, <2>5, <2>7
      <3>3. F[s \ {x}] = f[y] + F[r]
        BY <2>2, <2>4, <2>5, <2>7, <3>1
      <3>4. F[r] \in Int
        BY <2>2, <3>1
      <3> QED
        BY <2>4, <2>5, <2>7, <3>2, <3>3, <3>4
    <2> QED
      BY <2>1, <2>4, <2>6, <2>7
  <1> QED
    BY <1>2, <1>3 DEF F

LEMMA SumWithout ==
    ASSUME NEW D, IsFiniteSet(D), NEW f \in [D -> Int], NEW s \in SUBSET D, NEW x \in s
    PROVE  /\ Sums(f)[s] = f[x] + Sums(f)[s \ {x}]
           /\ f[x] \in Int /\ Sums(f)[s \ {x}] \in Int
  BY SumParts

\* A sum depends on the terms only.
LEMMA SumAgrees ==
    ASSUME NEW D, IsFiniteSet(D), NEW f \in [D -> Int],
           NEW E, IsFiniteSet(E), NEW g \in [E -> Int],
           NEW s, s \subseteq D, s \subseteq E, \A x \in s : f[x] = g[x]
    PROVE  Sums(f)[s] = Sums(g)[s]
  <1> DEFINE Bad == {t \in SUBSET s : Sums(f)[t] # Sums(g)[t]}
  <1> SUFFICES ASSUME Bad # {} PROVE FALSE
    OBVIOUS
  <1>1. PICK t \in Bad : \A u \in Bad : u \subseteq t => u = t
    <2>1. Bad \in SUBSET (SUBSET D)
      OBVIOUS
    <2> HIDE DEF Bad
    <2> QED
      BY <2>1, SmallestSubset
  <1>2. t # {}
    BY <1>1, SumParts
  <1>3. PICK x : x \in t
    BY <1>2
  <1>4. Sums(f)[t \ {x}] = Sums(g)[t \ {x}]
    BY <1>1, <1>3
  <1>5. Sums(f)[t] = f[x] + Sums(f)[t \ {x}]
    BY <1>1, <1>3, SumParts
  <1>6. Sums(g)[t] = g[x] + Sums(g)[t \ {x}]
    BY <1>1, <1>3, SumParts
  <1> QED
    BY <1>1, <1>3, <1>4, <1>5, <1>6

LEMMA SumAdds ==
    ASSUME NEW D, IsFiniteSet(D), NEW f \in [D -> Int], NEW g \in [D -> Int],
           NEW h \in [D -> Int], \A x \in D : h[x] = f[x] + g[x]
    PROVE  Sums(h)[D] = Sums(f)[D] + Sums(g)[D]
  <1> DEFINE Bad == {t \in SUBSET D : Sums(h)[t] # Sums(f)[t] + Sums(g)[t]}
  <1> SUFFICES ASSUME Bad # {} PROVE FALSE
    OBVIOUS
  <1>1. PICK t \in Bad : \A u \in Bad : u \subseteq t => u = t
    <2>1. Bad \in SUBSET (SUBSET D)
      OBVIOUS
    <2> HIDE DEF Bad
    <2> QED
      BY <2>1, SmallestSubset
  <1>2. t # {}
    <2>1. Sums(h)[{}] = 0 /\ Sums(f)[{}] = 0 /\ Sums(g)[{}] = 0
      BY SumParts
    <2>2. {} \notin Bad
      BY <2>1
    <2> QED
      BY <1>1, <2>2
  <1>3. PICK x : x \in t
    BY <1>2
  <1>4. Sums(h)[t \ {x}] = Sums(f)[t \ {x}] + Sums(g)[t \ {x}]
    BY <1>1, <1>3
  <1>5. t \in SUBSET D
    BY <1>1
  <1>6. h[x] = f[x] + g[x]
    BY <1>1, <1>3
  <1> HIDE DEF Bad
  <1>7. Sums(h)[t] = h[x] + Sums(h)[t \ {x}]
    BY <1>3, <1>5, SumWithout
  <1>8. /\ Sums(f)[t] = f[x] + Sums(f)[t \ {x}]
        /\ f[x] \in Int /\ Sums(f)[t \ {x}] \in Int
    BY <1>3, <1>5, SumWithout
  <1>9. /\ Sums(g)[t] = g[x] + Sums(g)[t \ {x}]
        /\ g[x] \in Int /\ Sums(g)[t \ {x}] \in Int
    BY <1>3, <1>5, SumWithout
  <1>10. Sums(h)[t] = Sums(f)[t] + Sums(g)[t]
    BY <1>4, <1>6, <1>7, <1>8, <1>9
  <1> QED
    BY <1>1, <1>10 DEF Bad

\* What is added to a sum of natural numbers makes it no smaller, and zeros leave
\* it as it is.
LEMMA SumGrows ==
    ASSUME NEW D, IsFiniteSet(D), NEW f \in [D -> Nat], NEW s \in SUBSET D,
           NEW t \in SUBSET s
    PROVE  /\ Sums(f)[t] \in Nat /\ Sums(f)[t] <= Sums(f)[s]
           /\ (\A x \in s \ t : f[x] = 0) => Sums(f)[t] = Sums(f)[s]
  <1>1. f \in [D -> Int]
    OBVIOUS
  <1>2. /\ Sums(f)[{}] = 0
        /\ \A u \in SUBSET D : Sums(f)[u] \in Int
        /\ \A u \in SUBSET D : \A x \in u : Sums(f)[u] = f[x] + Sums(f)[u \ {x}]
    BY <1>1, SumParts
  <1> DEFINE F == Sums(f)
  <1> HIDE DEF F
  <1>3. ASSUME NEW v \in SUBSET D
        PROVE  \A u \in SUBSET D : v \subseteq u =>
                  F[v] <= F[u] /\ ((\A x \in u \ v : f[x] = 0) => F[v] = F[u])
    <2> DEFINE Good(u) == F[v] <= F[u] /\ ((\A x \in u \ v : f[x] = 0) => F[v] = F[u])
               Bad == {u \in SUBSET D : v \subseteq u /\ ~Good(u)}
    <2> SUFFICES ASSUME Bad # {} PROVE FALSE
      OBVIOUS
    <2>1. PICK u \in Bad : \A w \in Bad : w \subseteq u => w = u
      <3>1. Bad \in SUBSET (SUBSET D)
        OBVIOUS
      <3> HIDE DEF Bad
      <3> QED
        BY <3>1, SmallestSubset
    <2>2. F[v] \in Int /\ F[u] \in Int
      BY <1>2, <2>1 DEF F
    <2>3. u # v
      BY <2>1, <2>2
    <2>4. PICK x : x \in u \ v
      BY <2>1, <2>3
    <2>5. Good(u \ {x})
      BY <2>1, <2>4
    <2>6. F[u] = f[x] + F[u \ {x}] /\ F[u \ {x}] \in Int /\ f[x] \in Nat
      BY <1>2, <2>1, <2>4 DEF F
    <2>7. Good(u)
      <3>1. F[v] <= F[u]
        BY <2>2, <2>5, <2>6
      <3>2. ASSUME \A z \in u \ v : f[z] = 0 PROVE F[v] = F[u]
        <4>1. F[v] = F[u \ {x}] /\ f[x] = 0
          BY <2>4, <2>5, <3>2
        <4> QED
          BY <2>6, <4>1
      <3> QED
        BY <3>1, <3>2
    <2> QED
      BY <2>1, <2>7
  <1>4. /\ F[t] <= F[s]
        /\ (\A x \in s \ t : f[x] = 0) => F[t] = F[s]
    BY <1>3
  <1>5. F[{}] <= F[t] /\ F[t] \in Int /\ F[{}] = 0
    BY <1>2, <1>3 DEF F
  <1> QED
    BY <1>4, <1>5 DEF F

-----------------------------------------------------------------------------
(* Sums over all of a function's domain *)

LEMMA TotalAdds ==
    ASSUME NEW D, IsFiniteSet(D), NEW f \in [D -> Int], NEW g \in [D -> Int],
           NEW h \in [D -> Int], \A x \in D : h[x] = f[x] + g[x]
    PROVE  SumOver(h) = SumOver(f) + SumOver(g)
  BY SumOverIs, SumAdds

LEMMA TotalGrows ==
    ASSUME NEW D, IsFiniteSet(D), NEW f \in [D -> Nat]
    PROVE  SumOver(f) \in Nat
  BY SumOverIs, SumGrows

LEMMA TermOfTotal ==
    ASSUME NEW D, IsFiniteSet(D), NEW f \in [D -> Nat], NEW k \in D
    PROVE  f[k] <= SumOver(f)
  <1>1. SumOver(f) = Sums(f)[D]
    BY SumOverIs
  <1>2. f \in [D -> Int] /\ D \in SUBSET D
    OBVIOUS
  <1>3. Sums(f)[D] = f[k] + Sums(f)[D \ {k}] /\ f[k] \in Int
    BY <1>2, SumWithout
  <1>4. Sums(f)[D \ {k}] \in Nat
    BY SumGrows
  <1> QED
    BY <1>1, <1>3, <1>4

\* A part of the domain has the whole sum, if the rest has nothing.
LEMMA TotalOfPart ==
    ASSUME NEW D, IsFiniteSet(D), NEW f \in [D -> Nat], NEW E \in SUBSET D,
           NEW g \in [E -> Nat], \A x \in E : g[x] = f[x],
           \A x \in D \ E : f[x] = 0
    PROVE  SumOver(g) = SumOver(f)
  <1>1. IsFiniteSet(E)
    BY FS_Subset
  <1>2. SumOver(g) = Sums(g)[E] /\ SumOver(f) = Sums(f)[D]
    BY SumOverIs
  <1>3. f \in [D -> Int] /\ g \in [E -> Int]
    OBVIOUS
  <1>4. Sums(g)[E] = Sums(f)[E]
    BY <1>1, <1>3, SumAgrees
  <1>5. Sums(f)[E] = Sums(f)[D]
    BY SumGrows
  <1> QED
    BY <1>2, <1>4, <1>5

LEMMA TotalOfOne ==
    ASSUME NEW D, IsFiniteSet(D), NEW f \in [D -> Nat], NEW k \in D,
           \A x \in D : x # k => f[x] = 0
    PROVE  SumOver(f) = f[k]
  <1>1. SumOver(f) = Sums(f)[D]
    BY SumOverIs
  <1>2. Sums(f)[D] = f[k] + Sums(f)[D \ {k}] /\ f[k] \in Int
    BY SumWithout
  <1>3. \A x \in (D \ {k}) \ {} : f[x] = 0
    OBVIOUS
  <1>4. Sums(f)[{}] = Sums(f)[D \ {k}] /\ Sums(f)[{}] = 0
    BY <1>3, SumGrows, SumParts
  <1> QED
    BY <1>1, <1>2, <1>4

LEMMA TotalOfNone ==
    ASSUME NEW D, IsFiniteSet(D), NEW f \in [D -> Nat], \A x \in D : f[x] = 0
    PROVE  SumOver(f) = 0
  <1>1. SumOver(f) = Sums(f)[D]
    BY SumOverIs
  <1>2. Sums(f)[{}] = Sums(f)[D] /\ Sums(f)[{}] = 0
    BY SumGrows, SumParts
  <1> QED
    BY <1>1, <1>2

-----------------------------------------------------------------------------
(* What one player gave another received *)

TotalOf(stats, s, c) == SumOver([p \in Players |-> stats[p][s][c]])

Exchanges == {<<"Frags", "Deaths">>, <<"EntryFrags", "EntryDeaths">>,
              <<"Hits", "HitsReceived">>, <<"Damage", "DamageReceived">>}
Exchanged == {"Frags", "Deaths", "EntryFrags", "EntryDeaths", "Hits", "HitsReceived",
              "Damage", "DamageReceived"}

Balance(stats) ==
    \A s \in PlayStates, x \in Exchanges : TotalOf(stats, s, x[1]) = TotalOf(stats, s, x[2])

LEMMA BalancedMeaning == Balanced <=> Balance(Stats)
  BY DEF Balanced, Balance, Exchanges, TotalOf

LEMMA ExchangeIn ==
    ASSUME NEW x \in Exchanges
    PROVE  {x[1], x[2]} \subseteq Exchanged /\ Exchanged \subseteq Counters
  BY DEF Exchanges, Exchanged, Counters

LEMMA TotalKept ==
    ASSUME NEW stats \in StatsType, NEW pairs, NEW n \in Nat, NEW s \in PlayStates,
           NEW c \in Counters, \A p \in Players : <<p, c>> \notin pairs
    PROVE  TotalOf(Earned(stats, pairs, n), s, c) = TotalOf(stats, s, c)
  <1>1. \A p \in Players : Earned(stats, pairs, n)[p][s][c] = stats[p][s][c]
    BY DEF Earned
  <1> QED
    BY <1>1 DEF TotalOf

LEMMA TotalEarned ==
    ASSUME NEW stats \in StatsType, NEW pairs, NEW n \in Nat, NEW s \in PlayStates,
           NEW c \in Counters, NEW k \in Players,
           \A p \in Players : <<p, c>> \in pairs <=> p = k
    PROVE  TotalOf(Earned(stats, pairs, n), s, c)
              = TotalOf(stats, s, c) + (IF s = m_State THEN n ELSE 0)
  <1> DEFINE before == [p \in Players |-> stats[p][s][c]]
             extra == [p \in Players |-> IF s = m_State /\ p = k THEN n ELSE 0]
             after == [p \in Players |-> Earned(stats, pairs, n)[p][s][c]]
  <1>1. /\ before \in [Players -> Nat] /\ extra \in [Players -> Nat]
        /\ \A p \in Players : after[p] = before[p] + extra[p]
    <2>1. \A p \in Players : stats[p][s][c] \in Nat
      BY DEF StatsType
    <2>2. \A p \in Players : Earned(stats, pairs, n)[p][s][c]
             = IF s = m_State /\ <<p, c>> \in pairs THEN stats[p][s][c] + n
               ELSE stats[p][s][c]
      BY DEF Earned
    <2>3. ASSUME NEW p \in Players PROVE after[p] = before[p] + extra[p]
      <3>1. <<p, c>> \in pairs <=> p = k
        OBVIOUS
      <3>2. after[p] = IF s = m_State /\ p = k THEN stats[p][s][c] + n ELSE stats[p][s][c]
        BY <2>2, <3>1
      <3> QED
        BY <2>1, <3>2
    <2>4. before \in [Players -> Nat]
      BY <2>1
    <2> QED
      BY <2>3, <2>4
  <1>2. after \in [Players -> Nat]
    BY <1>1
  <1>3. extra[k] = (IF s = m_State THEN n ELSE 0)
        /\ \A p \in Players : p # k => extra[p] = 0
    OBVIOUS
  <1> HIDE DEF before, extra, after
  <1>4. SumOver(extra) = extra[k]
    BY <1>1, <1>3, PlayersAssumption, TotalOfOne DEF PlayersAssumption
  <1>5. SumOver(after) = SumOver(before) + SumOver(extra)
    <2>1. /\ before \in [Players -> Int] /\ extra \in [Players -> Int]
          /\ after \in [Players -> Int] /\ IsFiniteSet(Players)
      BY <1>1, <1>2, PlayersAssumption DEF PlayersAssumption
    <2>2. \A p \in Players : after[p] = before[p] + extra[p]
      BY <1>1
    <2> QED
      BY <2>1, <2>2, TotalAdds
  <1> QED
    BY <1>3, <1>4, <1>5 DEF TotalOf, before, after

\* A count that credits player k for what it charges to v.
Trade(pairs, k, v) ==
    \A x \in Exchanges :
       \/ \A p \in Players : <<p, x[1]>> \notin pairs /\ <<p, x[2]>> \notin pairs
       \/ /\ \A p \in Players : <<p, x[1]>> \in pairs <=> p = k
          /\ \A p \in Players : <<p, x[2]>> \in pairs <=> p = v

LEMMA EarnedBalances ==
    ASSUME NEW stats \in StatsType, Balance(stats), NEW pairs, NEW n \in Nat,
           NEW k \in Players, NEW v \in Players,
           Trade(pairs, k, v)
    PROVE  Balance(Earned(stats, pairs, n))
  <1> SUFFICES ASSUME NEW s \in PlayStates, NEW x \in Exchanges
               PROVE  TotalOf(Earned(stats, pairs, n), s, x[1])
                         = TotalOf(Earned(stats, pairs, n), s, x[2])
    BY DEF Balance
  <1>1. x[1] \in Counters /\ x[2] \in Counters
    BY ExchangeIn
  <1>2. TotalOf(stats, s, x[1]) = TotalOf(stats, s, x[2])
    BY DEF Balance
  <1>3. CASE \A p \in Players : <<p, x[1]>> \notin pairs /\ <<p, x[2]>> \notin pairs
    BY <1>1, <1>2, <1>3, TotalKept
  <1>4. CASE /\ \A p \in Players : <<p, x[1]>> \in pairs <=> p = k
             /\ \A p \in Players : <<p, x[2]>> \in pairs <=> p = v
    <2>1. TotalOf(Earned(stats, pairs, n), s, x[1])
             = TotalOf(stats, s, x[1]) + (IF s = m_State THEN n ELSE 0)
      BY <1>1, <1>4, TotalEarned
    <2>2. TotalOf(Earned(stats, pairs, n), s, x[2])
             = TotalOf(stats, s, x[2]) + (IF s = m_State THEN n ELSE 0)
      BY <1>1, <1>4, TotalEarned
    <2> QED
      BY <1>2, <2>1, <2>2
  <1> QED
    BY <1>3, <1>4 DEF Trade

\* What a step does to the counters an exchange is made of.
Aside ==
    \E pairs : /\ Stats' = Earned(Stats, pairs, 1)
               /\ \A pair \in pairs : pair[2] \notin Exchanged
Hit == \E v, k \in Players, d \in Damages : RecordHit(v, k, d)
Frag == \E v, k \in Players : RecordFrag(v, k)
Cleared ==
    \/ Stats' = ZeroStats /\ Tally' = ZeroTally
    \/ \E s \in PlayStates : ResetStats(s)

LEMMA CountedAside ==
    ASSUME NEW p, NEW c, c \notin Exchanged, Count(p, c)
    PROVE  Aside
  <1>1. \A pair \in {<<p, c>>} : pair[2] \notin Exchanged
    OBVIOUS
  <1>2. Stats' = Earned(Stats, {<<p, c>>}, 1)
    BY DEF Count
  <1> QED
    BY <1>1, <1>2 DEF Aside

LEMMA SettingsExchange ==
    ASSUME NEW v, Cvar_DirectSet(v)
    PROVE  UNCHANGED Stats \/ Cleared
  <1>1. CASE SetDead
    BY <1>1 DEF SetDead, Cleared
  <1>2. CASE SetWarmup \/ SetStart \/ SetHalftime \/ SetEnd \/ SetOther
    BY <1>2 DEF SetWarmup, SetStart, SetHalftime, SetEnd, SetOther, statsVars
  <1>3. CASE SetFirstHalf \/ SetSecondHalf \/ SetOvertime
    BY <1>3 DEF SetFirstHalf, SetSecondHalf, SetOvertime, Cleared, PlayStates
  <1> QED
    BY <1>1, <1>2, <1>3 DEF Cvar_DirectSet

LEMMA PlayerExchange ==
    ASSUME NEW p \in Players, PlayerStep(p)
    PROVE  UNCHANGED Stats \/ Aside
  <1>1. CASE \/ \E t \in Sides : PlayerGetIntoGame(p, t)
             \/ \E t \in Teams : PlayerSwitchTeam(p, t)
             \/ PlayerDisconnect(p) \/ PlayerSayText(p)
    BY <1>1 DEF PlayerGetIntoGame, PlayerSwitchTeam, PlayerDisconnect, PlayerSayText,
       statsVars
  <1>2. CASE \/ Counted(p, "Shots") \/ Counted(p, "Money") \/ Counted(p, "BombSpawn")
             \/ Counted(p, "BombDrop")
    BY <1>2, CountedAside DEF Counted, Exchanged
  <1> QED
    BY <1>1, <1>2 DEF PlayerStep, PlayerSetAnimation, PlayerAddAccount, PlayerMakeBomber,
       PlayerDropItem

LEMMA CombatExchange ==
    ASSUME NEW v \in Players, CombatStep(v)
    PROVE  UNCHANGED Stats \/ Hit \/ Frag \/ Aside
  <1>1. ASSUME NEW k \in Players, NEW d \in Damages,
               PlayerDamage_Hit(v, k, d) \/ PlayerDamage_Lethal(v, k, d)
        PROVE  UNCHANGED Stats \/ Hit
    BY <1>1 DEF PlayerDamage_Hit, PlayerDamage_Lethal, Hit
  <1>2. ASSUME NEW k \in Players, PlayerKilled(v, k)
        PROVE  Frag \/ Aside
    BY <1>2, CountedAside DEF PlayerKilled, RecordSuicide, Frag, Exchanged
  <1>3. CASE PlayerKilled_Ignored(v)
    BY <1>3 DEF PlayerKilled_Ignored, statsVars
  <1> QED
    BY <1>1, <1>2, <1>3 DEF CombatStep

LEMMA RoundExchange ==
    ASSUME RoundStep
    PROVE  UNCHANGED Stats \/ Cleared \/ Aside
  <1>1. ASSUME NEW complete \in BOOLEAN, RoundRestart(complete)
        PROVE  UNCHANGED Stats \/ Cleared
    BY <1>1 DEF RoundRestart, Recording, Cleared
  <1>2. CASE RoundFreezeEnd
    BY <1>2 DEF RoundFreezeEnd
  <1>3. ASSUME NEW w \in Sides, RecordRound(w) PROVE Aside
    <2>1. \A pair \in RoundCounters(w) : pair[2] \notin Exchanged
      BY DEF RoundCounters, Exchanged
    <2> QED
      BY <1>3, <2>1 DEF RecordRound, Aside
  <1>4. ASSUME NEW w \in Sides \cup {0}, RoundEnd(w) PROVE UNCHANGED Stats \/ Aside
    BY <1>3, <1>4 DEF RoundEnd
  <1> QED
    BY <1>1, <1>2, <1>4 DEF RoundStep

LEMMA BombExchange ==
    ASSUME BombStep
    PROVE  UNCHANGED Stats \/ Aside
  <1>1. ASSUME NEW p \in Players, PlantBomb(p) PROVE UNCHANGED Stats \/ Aside
    <2>1. \A pair \in {<<p, "BombPlanting">>, <<p, "BombPlanted">>} :
             pair[2] \notin Exchanged
      BY DEF Exchanged
    <2> QED
      BY <1>1, <2>1 DEF PlantBomb, Aside
  <1>2. ASSUME NEW p \in Players, DefuseBombStart(p) \/ DefuseBombEnd(p)
        PROVE  UNCHANGED Stats \/ Aside
    BY <1>2, CountedAside DEF DefuseBombStart, DefuseBombEnd, Counted, Exchanged
  <1>3. CASE ExplodeBomb
    BY <1>3, CountedAside DEF ExplodeBomb, Exchanged
  <1> QED
    BY <1>1, <1>2, <1>3 DEF BombStep

LEMMA StepExchange ==
    ASSUME [Next]_vars
    PROVE  UNCHANGED Stats \/ Aside \/ Hit \/ Frag \/ Cleared
  <1>1. CASE UNCHANGED vars \/ ServerActivate
    BY <1>1 DEF vars, ServerActivate, statsVars
  <1>2. CASE ExecSettings \/ \E v \in CvarValues : SetState(v)
    BY <1>2, SettingsExchange DEF ExecSettings, SetState
  <1> QED
    BY <1>1, <1>2, PlayerExchange, CombatExchange, RoundExchange, BombExchange DEF Next

LEMMA AsideBalances ==
    ASSUME Stats \in StatsType, Balance(Stats), Aside
    PROVE  Balance(Stats')
  <1>1. PICK pairs : /\ Stats' = Earned(Stats, pairs, 1)
                     /\ \A pair \in pairs : pair[2] \notin Exchanged
    BY DEF Aside
  <1>2. ASSUME NEW p \in Players, NEW c \in Exchanged PROVE <<p, c>> \notin pairs
    <2> SUFFICES ASSUME <<p, c>> \in pairs PROVE FALSE
      OBVIOUS
    <2>1. <<p, c>>[2] \notin Exchanged
      BY <1>1
    <2> QED
      BY <1>2, <2>1
  <1>3. ASSUME NEW s \in PlayStates, NEW x \in Exchanges
        PROVE  TotalOf(Earned(Stats, pairs, 1), s, x[1])
                  = TotalOf(Earned(Stats, pairs, 1), s, x[2])
    <2>1. ASSUME NEW e \in Exchanged
          PROVE  TotalOf(Earned(Stats, pairs, 1), s, e) = TotalOf(Stats, s, e)
      <3>1. e \in Counters /\ \A p \in Players : <<p, e>> \notin pairs
        BY <1>2, <2>1 DEF Exchanged, Counters
      <3> QED
        BY <1>3, <3>1, TotalKept
    <2>2. /\ TotalOf(Earned(Stats, pairs, 1), s, x[1]) = TotalOf(Stats, s, x[1])
          /\ TotalOf(Earned(Stats, pairs, 1), s, x[2]) = TotalOf(Stats, s, x[2])
      BY <1>3, <2>1, ExchangeIn
    <2> QED
      BY <1>3, <2>2 DEF Balance
  <1> QED
    BY <1>1, <1>3 DEF Balance

LEMMA HitBalances ==
    ASSUME Stats \in StatsType, Balance(Stats), Hit
    PROVE  Balance(Stats')
  <1>1. PICK v \in Players, k \in Players, d \in Damages : RecordHit(v, k, d)
    BY DEF Hit
  <1> DEFINE hitPairs == {<<k, "Hits">>, <<v, "HitsReceived">>}
             harm == {<<k, "Damage">>, <<v, "DamageReceived">>}
             hits == Earned(Stats, hitPairs, 1)
  <1>2. Trade(hitPairs, k, v) /\ Trade(harm, k, v)
    BY DEF Exchanges, Trade
  <1>3. Stats' = Earned(hits, harm, d) /\ d \in Nat
    BY <1>1, SettingsAssumption DEF RecordHit, SettingsAssumption
  <1>4. hits \in StatsType
    BY EarnedType
  <1> HIDE DEF hitPairs, harm
  <1>5. Balance(hits)
    BY <1>2, EarnedBalances
  <1> HIDE DEF hits
  <1>6. Balance(Earned(hits, harm, d))
    BY <1>2, <1>3, <1>4, <1>5, EarnedBalances
  <1> QED
    BY <1>3, <1>6

LEMMA FragBalances ==
    ASSUME Stats \in StatsType, Balance(Stats), Frag
    PROVE  Balance(Stats')
  <1>1. PICK v \in Players, k \in Players : RecordFrag(v, k)
    BY DEF Frag
  <1> DEFINE pairs == {<<k, "Frags">>, <<v, "Deaths">>}
                      \cup {<<p, "Assists">> : p \in Assistants(v, k)}
                      \cup (IF FirstBlood THEN {<<k, "EntryFrags">>, <<v, "EntryDeaths">>}
                            ELSE {})
  <1>2. Trade(pairs, k, v)
    BY DEF Exchanges, Trade
  <1>3. Stats' = Earned(Stats, pairs, 1)
    BY <1>1 DEF RecordFrag
  <1> HIDE DEF pairs
  <1> QED
    BY <1>2, <1>3, EarnedBalances

LEMMA ZeroTotals ==
    ASSUME NEW stats, NEW s \in PlayStates, \A p \in Players : stats[p][s] = ZeroStats[p][s],
           NEW c \in Counters
    PROVE  TotalOf(stats, s, c) = 0
  <1> DEFINE f == [p \in Players |-> stats[p][s][c]]
  <1>1. \A p \in Players : f[p] = 0
    BY DEF ZeroStats
  <1>2. f \in [Players -> Nat]
    BY <1>1
  <1> HIDE DEF f
  <1>3. SumOver(f) = 0
    BY <1>1, <1>2, PlayersAssumption, TotalOfNone DEF PlayersAssumption
  <1> QED
    BY <1>3 DEF TotalOf, f

LEMMA ClearedBalances ==
    ASSUME TypeOK, Balance(Stats), Cleared
    PROVE  Balance(Stats')
  <1> SUFFICES ASSUME NEW s \in PlayStates, NEW x \in Exchanges
               PROVE  TotalOf(Stats', s, x[1]) = TotalOf(Stats', s, x[2])
    BY DEF Balance
  <1>1. x[1] \in Counters /\ x[2] \in Counters
    BY ExchangeIn
  <1>2. CASE \A p \in Players : Stats'[p][s] = ZeroStats[p][s]
    BY <1>1, <1>2, ZeroTotals
  <1>3. CASE \A p \in Players : Stats'[p][s] = Stats[p][s]
    BY <1>3 DEF TotalOf, Balance
  <1>4. (\A p \in Players : Stats'[p][s] = ZeroStats[p][s])
        \/ \A p \in Players : Stats'[p][s] = Stats[p][s]
    BY ResetHalf DEF Cleared
  <1> QED
    BY <1>2, <1>3, <1>4

\* In every half kills balance deaths, entry kills entry deaths, hits and damage
\* dealt those received: over all who ever had a record, whatever they did since.
THEOREM BooksBalance == Spec => []Balanced
  <1>1. Init => Balance(Stats)
    <2> SUFFICES ASSUME Init, NEW s \in PlayStates, NEW x \in Exchanges
                 PROVE  TotalOf(Stats, s, x[1]) = TotalOf(Stats, s, x[2])
      BY DEF Balance
    <2>1. x[1] \in Counters /\ x[2] \in Counters /\ Stats = ZeroStats
      BY ExchangeIn DEF Init
    <2> QED
      BY <2>1, ZeroTotals
  <1>2. TypeOK /\ Balance(Stats) /\ [Next]_vars => Balance(Stats)'
    <2> SUFFICES ASSUME TypeOK, Balance(Stats), [Next]_vars PROVE Balance(Stats')
      OBVIOUS
    <2>1. Stats \in StatsType
      BY DEF TypeOK, CounterTypes
    <2> QED
      BY <2>1, StepExchange, AsideBalances, HitBalances, FragBalances, ClearedBalances
  <1>3. Balance(Stats) => Balanced
    BY BalancedMeaning
  <1> QED
    BY TypeCorrect, <1>1, <1>2, <1>3, PTL DEF Spec

-----------------------------------------------------------------------------
(* The exported document *)

\* The document is written when a match is ended, and at no other step.
LEMMA StepWrites ==
    ASSUME [Next]_vars
    PROVE  dataFile' = {} \/ UNCHANGED dataFile \/ dataFile' = {ExportData(Winner')}
  <1> USE DEF NoExport
  <1>1. CASE UNCHANGED vars \/ ServerActivate
    BY <1>1 DEF vars, ServerActivate
  <1>2. ASSUME NEW v, Cvar_DirectSet(v)
        PROVE  dataFile' = {} \/ dataFile' = {ExportData(Winner')}
    BY <1>2 DEF Cvar_DirectSet, SetDead, SetWarmup, SetStart, SetFirstHalf, SetHalftime,
       SetSecondHalf, SetOvertime, SetEnd, SetOther
  <1>3. CASE ExecSettings \/ \E v \in CvarValues : SetState(v)
    BY <1>2, <1>3 DEF ExecSettings, SetState
  <1>4. ASSUME NEW q \in Players, PlayerStep(q) PROVE dataFile' = {}
    BY <1>4 DEF PlayerStep, PlayerGetIntoGame, PlayerSwitchTeam, PlayerDisconnect,
       PlayerSayText, PlayerSetAnimation, PlayerAddAccount, PlayerMakeBomber,
       PlayerDropItem, Counted
  <1>5. ASSUME NEW q \in Players, CombatStep(q) PROVE dataFile' = {}
    BY <1>5 DEF CombatStep, PlayerDamage_Hit, PlayerDamage_Lethal, PlayerKilled,
       PlayerKilled_Ignored
  <1>6. CASE RoundStep
    BY <1>6 DEF RoundStep, RoundRestart, RoundFreezeEnd, RoundEnd
  <1>7. CASE BombStep
    BY <1>7 DEF BombStep, PlantBomb, DefuseBombStart, DefuseBombEnd, ExplodeBomb, Counted
  <1> QED
    BY <1>1, <1>3, <1>4, <1>5, <1>6, <1>7 DEF Next

\* Chat is recorded during a match only.
ChatOfMatch == \A p \in Players : \A i \in DOMAIN ChatLog[p] : ChatLog[p][i] # STATE_DEAD

LEMMA StepTalks ==
    ASSUME TypeOK, [Next]_vars
    PROVE  \/ UNCHANGED ChatLog
           \/ ClearChat
           \/ \E q \in Players : /\ m_State # STATE_DEAD
                                 /\ ChatLog' = [ChatLog EXCEPT ![q] = Append(@, m_State)]
  <1>1. CASE UNCHANGED vars \/ ServerActivate
    BY <1>1 DEF vars, ServerActivate
  <1>2. ASSUME NEW v, Cvar_DirectSet(v) PROVE UNCHANGED ChatLog \/ ClearChat
    BY <1>2 DEF Cvar_DirectSet, SetDead, SetWarmup, SetStart, SetFirstHalf, SetHalftime,
       SetSecondHalf, SetOvertime, SetEnd, SetOther
  <1>3. CASE ExecSettings \/ \E v \in CvarValues : SetState(v)
    BY <1>2, <1>3 DEF ExecSettings, SetState
  <1>4. ASSUME NEW q \in Players, PlayerStep(q)
        PROVE  UNCHANGED ChatLog \/ PlayerSayText(q)
    BY <1>4 DEF PlayerStep, PlayerGetIntoGame, PlayerSwitchTeam, PlayerDisconnect,
       PlayerSetAnimation, PlayerAddAccount, PlayerMakeBomber, PlayerDropItem, Counted
  <1>5. ASSUME NEW q \in Players, CombatStep(q) PROVE UNCHANGED ChatLog
    BY <1>5 DEF CombatStep, PlayerDamage_Hit, PlayerDamage_Lethal, PlayerKilled,
       PlayerKilled_Ignored
  <1>6. CASE RoundStep
    BY <1>6 DEF RoundStep, RoundRestart, RoundFreezeEnd, RoundEnd
  <1>7. CASE BombStep
    BY <1>7 DEF BombStep, PlantBomb, DefuseBombStart, DefuseBombEnd, ExplodeBomb, Counted
  <1> QED
    BY <1>1, <1>3, <1>4, <1>5, <1>6, <1>7 DEF Next, PlayerSayText

LEMMA ChatStep == TypeOK /\ ChatOfMatch /\ [Next]_vars => ChatOfMatch'
  <1> SUFFICES ASSUME TypeOK, ChatOfMatch, [Next]_vars,
                      NEW p \in Players, NEW i \in DOMAIN ChatLog'[p]
               PROVE  ChatLog'[p][i] # STATE_DEAD
    BY DEF ChatOfMatch
  <1>1. CASE UNCHANGED ChatLog
    BY <1>1 DEF ChatOfMatch
  <1>2. CASE ClearChat
    BY <1>2 DEF ClearChat
  <1>3. ASSUME NEW q \in Players, m_State # STATE_DEAD,
               ChatLog' = [ChatLog EXCEPT ![q] = Append(@, m_State)]
        PROVE  ChatLog'[p][i] # STATE_DEAD
    <2>1. ChatLog \in [Players -> Seq(Int)] /\ m_State \in Int
      BY DEF TypeOK, RecordTypes, CvarTypes
    <2>2. CASE p # q
      BY <1>3, <2>1, <2>2 DEF ChatOfMatch
    <2>3. CASE p = q
      <3>1. ChatLog'[p] = Append(ChatLog[p], m_State) /\ ChatLog[p] \in Seq(Int)
        BY <1>3, <2>1, <2>3
      <3>2. \A j \in DOMAIN ChatLog[p] : ChatLog[p][j] # STATE_DEAD
        BY DEF ChatOfMatch
      <3> QED
        BY <1>3, <3>1, <3>2
    <2> QED
      BY <2>2, <2>3
  <1> QED
    BY <1>1, <1>2, <1>3, StepTalks

-----------------------------------------------------------------------------
(* The sums of the document are those of the records *)

\* A counter of a player over the three halves adds up to its totals.
LEMMA TotalOfHalves ==
    ASSUME NEW stats \in StatsType, NEW c \in Counters
    PROVE  /\ [p \in Players |-> Total(stats, p, c)] \in [Players -> Nat]
           /\ SumOver([p \in Players |-> Total(stats, p, c)])
                 = TotalOf(stats, STATE_FIRST_HALF, c) + TotalOf(stats, STATE_SECOND_HALF, c)
                   + TotalOf(stats, STATE_OVERTIME, c)
  <1> DEFINE half(s) == [p \in Players |-> stats[p][s][c]]
             first == half(STATE_FIRST_HALF)
             second == half(STATE_SECOND_HALF)
             extra == half(STATE_OVERTIME)
             two == [p \in Players |-> first[p] + second[p]]
             whole == [p \in Players |-> Total(stats, p, c)]
  <1>1. \A p \in Players, s \in PlayStates : stats[p][s][c] \in Nat
    BY DEF StatsType
  <1>2. /\ first \in [Players -> Nat] /\ second \in [Players -> Nat]
        /\ extra \in [Players -> Nat]
    BY <1>1 DEF PlayStates
  <1>3. /\ two \in [Players -> Nat]
        /\ \A p \in Players : two[p] = first[p] + second[p]
    BY <1>2
  <1>4. \A p \in Players : whole[p] = two[p] + extra[p]
    BY <1>1 DEF Total, PlayStates
  <1> HIDE DEF two
  <1>5. whole \in [Players -> Nat]
    BY <1>2, <1>3, <1>4
  <1>6. IsFiniteSet(Players)
    BY PlayersAssumption DEF PlayersAssumption
  <1>7. /\ SumOver(first) = TotalOf(stats, STATE_FIRST_HALF, c)
        /\ SumOver(second) = TotalOf(stats, STATE_SECOND_HALF, c)
        /\ SumOver(extra) = TotalOf(stats, STATE_OVERTIME, c)
    BY DEF TotalOf
  <1> HIDE DEF first, second, extra, whole
  <1>8. SumOver(two) = SumOver(first) + SumOver(second)
    <2>1. first \in [Players -> Int] /\ second \in [Players -> Int] /\ two \in [Players -> Int]
      BY <1>2, <1>3
    <2> QED
      BY <1>3, <1>6, <2>1, TotalAdds
  <1>9. SumOver(whole) = SumOver(two) + SumOver(extra)
    <2>1. two \in [Players -> Int] /\ extra \in [Players -> Int] /\ whole \in [Players -> Int]
      BY <1>2, <1>3, <1>5
    <2> QED
      BY <1>4, <1>6, <2>1, TotalAdds
  <1> QED
    BY <1>5, <1>7, <1>8, <1>9 DEF whole

\* Who has no record adds nothing.
LEMMA DocumentTotal ==
    ASSUME TypeOK, RecordsHoldAll, NEW W, NEW c \in Counters
    PROVE  LET stats == ExportData(W).Stats
           IN  SumOver([p \in DOMAIN stats |-> stats[p].Total[c]])
                  = SumOver([p \in Players |-> Total(Stats, p, c)])
  <1> DEFINE stats == ExportData(W).Stats
             part == [p \in DOMAIN stats |-> stats[p].Total[c]]
             whole == [p \in Players |-> Total(Stats, p, c)]
  <1>1. Stats \in StatsType /\ m_Player \in SUBSET Players /\ IsFiniteSet(Players)
    BY PlayersAssumption DEF TypeOK, CounterTypes, RecordTypes, PlayersAssumption
  <1>2. whole \in [Players -> Nat]
    BY <1>1, TotalOfHalves
  <1>3. DOMAIN stats = m_Player /\ \A p \in m_Player : stats[p].Total[c] = Total(Stats, p, c)
    BY DEF ExportData
  <1>4. ASSUME NEW p \in Players \ m_Player PROVE whole[p] = 0
    <2>1. Stats[p] = ZeroStats[p]
      BY DEF RecordsHoldAll, NoTrace, NoStats
    <2> QED
      BY <2>1 DEF Total, ZeroStats, PlayStates
  <1> HIDE DEF stats
  <1>5. part \in [m_Player -> Nat] /\ \A p \in m_Player : part[p] = whole[p]
    BY <1>1, <1>2, <1>3
  <1> HIDE DEF part, whole
  <1>6. SumOver(part) = SumOver(whole)
    BY <1>1, <1>2, <1>4, <1>5, TotalOfPart
  <1> QED
    BY <1>6 DEF part, whole, stats

DocumentSum(doc, c) == SumOver([p \in DOMAIN doc.Stats |-> doc.Stats[p].Total[c]])

Agrees(doc) ==
    /\ doc.Match.Score[TERRORIST] + doc.Match.Score[CT] = doc.Match.Rounds
    /\ \A e \in Elements(doc.Events) :
          /\ e.Round <= doc.Match.Rounds + 1
          /\ {e.Killer, e.Victim} \subseteq DOMAIN doc.Stats \cup {NoPlayer}
    /\ DocumentSum(doc, "Frags") = DocumentSum(doc, "Deaths")
    /\ DocumentSum(doc, "Damage") = DocumentSum(doc, "DamageReceived")
    /\ \A p \in DOMAIN doc.Stats : \A s \in Elements(doc.Stats[p].Chat) : s # STATE_DEAD

LEMMA DocumentAgrees ==
    ASSUME TypeOK, ScoreIsRounds, LogIsChronicle, EventsHaveRecords, RecordsHoldAll,
           Balanced, ChatOfMatch, NEW W
    PROVE  Agrees(ExportData(W))
  <1> DEFINE doc == ExportData(W)
  <1>1. /\ doc.Match = m_Match /\ doc.Events = m_RoundEvent
        /\ DOMAIN doc.Stats = m_Player
        /\ \A p \in m_Player : doc.Stats[p].Chat = ChatLog[p]
    BY DEF ExportData
  <1>2. /\ Stats \in StatsType /\ m_Player \subseteq Players /\ m_Match.Rounds \in Nat
        /\ m_RoundEvent \in Seq(EventType)
    BY DEF TypeOK, CounterTypes, RecordTypes, LogTypes, MatchType
  <1>3. \A c \in Counters : DocumentSum(doc, c)
           = TotalOf(Stats, STATE_FIRST_HALF, c) + TotalOf(Stats, STATE_SECOND_HALF, c)
             + TotalOf(Stats, STATE_OVERTIME, c)
    BY <1>2, DocumentTotal, TotalOfHalves DEF DocumentSum
  <1>4. \A s \in PlayStates : /\ TotalOf(Stats, s, "Frags") = TotalOf(Stats, s, "Deaths")
                              /\ TotalOf(Stats, s, "Damage") = TotalOf(Stats, s, "DamageReceived")
    BY DEF Balanced, TotalOf
  <1>5. /\ DocumentSum(doc, "Frags") = DocumentSum(doc, "Deaths")
        /\ DocumentSum(doc, "Damage") = DocumentSum(doc, "DamageReceived")
    BY <1>3, <1>4 DEF Counters, PlayStates
  <1> HIDE DEF doc
  <1>6. doc.Match.Score[TERRORIST] + doc.Match.Score[CT] = doc.Match.Rounds
    BY <1>1 DEF ScoreIsRounds
  <1>7. ASSUME NEW e \in Elements(doc.Events)
        PROVE  /\ e.Round <= doc.Match.Rounds + 1
               /\ {e.Killer, e.Victim} \subseteq DOMAIN doc.Stats \cup {NoPlayer}
    <2>1. PICK i \in DOMAIN m_RoundEvent : e = m_RoundEvent[i]
      BY <1>1, <1>7 DEF Elements
    <2>2. e.Round \in 1 .. m_Match.Rounds + (IF IsWin(e) THEN 0 ELSE 1)
      BY <2>1 DEF LogIsChronicle
    <2>3. {e.Killer, e.Victim} \subseteq m_Player \cup {NoPlayer}
      BY <2>1 DEF EventsHaveRecords
    <2> QED
      BY <1>1, <1>2, <2>2, <2>3
  <1>8. ASSUME NEW p \in DOMAIN doc.Stats, NEW s \in Elements(doc.Stats[p].Chat)
        PROVE  s # STATE_DEAD
    BY <1>1, <1>2, <1>8 DEF Elements, ChatOfMatch
  <1> QED
    BY <1>5, <1>6, <1>7, <1>8, Zenon DEF Agrees, doc

\* Whatever moment a match is ended at, its document agrees with itself: the scores
\* add up to the rounds, every event is within them and between players it lists,
\* kills and damage balance over those players, and chat is of the match.
THEOREM ExportsAgree == Spec => []ExportIsConsistent
  <1> DEFINE Inv == \A doc \in dataFile : Agrees(doc)
  <1>1. Init => Inv /\ ChatOfMatch
    BY DEF Init, ChatOfMatch
  <1>2. TypeOK /\ ScoreIsRounds /\ LogIsChronicle /\ EventsHaveRecords /\ RecordsHoldAll
           /\ Balanced /\ ChatOfMatch /\ Inv /\ [Next]_vars
              => Inv' /\ ChatOfMatch'
    <2> SUFFICES ASSUME TypeOK, ScoreIsRounds, LogIsChronicle, EventsHaveRecords,
                        RecordsHoldAll, Balanced, ChatOfMatch, Inv, [Next]_vars
                 PROVE  Inv' /\ ChatOfMatch'
      OBVIOUS
    <2>1. ChatOfMatch'
      BY ChatStep
    <2>2. Agrees(ExportData(Winner'))
      BY DocumentAgrees
    <2>3. ASSUME NEW doc \in dataFile' PROVE Agrees(doc)
      BY <2>2, <2>3, StepWrites
    <2> QED
      BY <2>1, <2>3
  <1>3. Inv => ExportIsConsistent
    BY DEF Agrees, DocumentSum, ExportIsConsistent
  <1> HIDE DEF Inv
  <1> QED
    BY TypeCorrect, ScoreCorrect, LogCorrect, RecordsCorrect, NoTraceWithoutRecord,
       BooksBalance, <1>1, <1>2, <1>3, PTL DEF Spec

-----------------------------------------------------------------------------
(* The histograms *)

\* Counters only go up; the histograms stay.
Adds ==
    \A p \in Players, s \in PlayStates, c \in Counters :
       Stats[p][s][c] \in Nat /\ Stats'[p][s][c] \in Nat /\ Stats'[p][s][c] >= Stats[p][s][c]

LEMMA EarnedAdds ==
    ASSUME NEW stats \in StatsType, NEW pairs, NEW n \in Nat,
           NEW p \in Players, NEW s \in PlayStates, NEW c \in Counters
    PROVE  /\ stats[p][s][c] \in Nat
           /\ Earned(stats, pairs, n)[p][s][c] \in Nat
           /\ Earned(stats, pairs, n)[p][s][c] >= stats[p][s][c]
  <1>1. stats[p][s][c] \in Nat
    BY DEF StatsType
  <1>2. Earned(stats, pairs, n)[p][s][c] \in {stats[p][s][c], stats[p][s][c] + n}
    BY DEF Earned
  <1> QED
    BY <1>1, <1>2

LEMMA CountsAdd ==
    ASSUME Stats \in StatsType, UNCHANGED Stats \/ Aside \/ Hit \/ Frag
    PROVE  Adds
  <1>1. CASE UNCHANGED Stats
    BY <1>1 DEF Adds, StatsType
  <1>2. ASSUME NEW pairs, Stats' = Earned(Stats, pairs, 1) PROVE Adds
    BY <1>2, EarnedAdds DEF Adds
  <1>3. CASE Aside \/ Frag
    BY <1>2, <1>3 DEF Aside, Frag, RecordFrag
  <1>4. ASSUME NEW v \in Players, NEW k \in Players, NEW d \in Damages, RecordHit(v, k, d)
        PROVE  Adds
    <2> DEFINE hits == Earned(Stats, {<<k, "Hits">>, <<v, "HitsReceived">>}, 1)
    <2>1. hits \in StatsType /\ d \in Nat
      BY EarnedType, SettingsAssumption DEF SettingsAssumption
    <2>2. PICK harm : Stats' = Earned(hits, harm, d)
      BY <1>4 DEF RecordHit
    <2>3. \A p \in Players, s \in PlayStates, c \in Counters :
             /\ Stats[p][s][c] \in Nat /\ hits[p][s][c] \in Nat
             /\ hits[p][s][c] >= Stats[p][s][c]
      BY EarnedAdds
    <2> HIDE DEF hits
    <2>4. \A p \in Players, s \in PlayStates, c \in Counters :
             Stats'[p][s][c] \in Nat /\ Stats'[p][s][c] >= hits[p][s][c]
      BY <2>1, <2>2, EarnedAdds
    <2>5. ASSUME NEW p \in Players, NEW s \in PlayStates, NEW c \in Counters
          PROVE  /\ Stats[p][s][c] \in Nat /\ Stats'[p][s][c] \in Nat
                 /\ Stats'[p][s][c] >= Stats[p][s][c]
      <3>1. /\ Stats[p][s][c] \in Nat /\ hits[p][s][c] \in Nat
            /\ hits[p][s][c] >= Stats[p][s][c]
            /\ Stats'[p][s][c] \in Nat /\ Stats'[p][s][c] >= hits[p][s][c]
        BY <2>3, <2>4, Zenon
      <3> QED
        BY <3>1
    <2> QED
      BY <2>5 DEF Adds
  <1> QED
    BY <1>1, <1>3, <1>4 DEF Hit

LEMMA StepTallies ==
    ASSUME TypeOK, [Next]_vars
    PROVE  (Adds /\ UNCHANGED Tally) \/ Cleared \/ Ended
  <1>1. Stats \in StatsType
    BY DEF TypeOK, CounterTypes
  <1>2. Adds \/ Cleared
    BY <1>1, StepExchange, CountsAdd
  <1>3. CASE HalfIdle \/ HalfPlayed
    BY <1>2, <1>3 DEF HalfIdle, HalfPlayed
  <1>4. CASE HalfEntered
    BY <1>4 DEF HalfEntered, Cleared
  <1>5. CASE HalfLeft
    <2>1. CASE UNCHANGED <<Stats, Tally>>
      BY <1>1, <2>1, CountsAdd
    <2> QED
      BY <1>5, <2>1 DEF HalfLeft, Cleared
  <1> QED
    BY <1>3, <1>4, <1>5, StepHalves

-----------------------------------------------------------------------------
(* The kills of the round are kills of the half *)

FragsOfHalf ==
    Recording => \A p \in Players : Round[p].Frags <= Stats[p][m_State]["Frags"]

LEMMA StepFrags ==
    ASSUME TypeOK, [Next]_vars, Recording'
    PROVE  \/ ResetRound
           \/ /\ m_State' = m_State
              /\ UNCHANGED Stats \/ Aside \/ Hit
              /\ \A p \in Players : Round'[p].Frags = Round[p].Frags
           \/ m_State' = m_State /\ Frag
  <1> DEFINE Same == \A p \in Players : Round'[p].Frags = Round[p].Frags
             Plain == m_State' = m_State /\ (UNCHANGED Stats \/ Aside \/ Hit) /\ Same
  <1>1. Round \in [Players -> RoundStats]
    BY DEF TypeOK, CounterTypes
  <1>2. CASE UNCHANGED vars
    BY <1>2 DEF vars, cvarVars, statsVars
  <1>3. CASE ServerActivate
    BY <1>3 DEF ServerActivate, Recording, PlayStates, STATE_DEAD,
       STATE_FIRST_HALF, STATE_SECOND_HALF, STATE_OVERTIME
  <1>4. CASE ExecSettings \/ \E v \in CvarValues : SetState(v)
    BY <1>4, HalfSetResets DEF ExecSettings, SetState
  <1>5. ASSUME NEW q \in Players, PlayerStep(q) PROVE Plain
    <2>1. m_State' = m_State /\ UNCHANGED Round
      BY <1>5 DEF PlayerStep, PlayerGetIntoGame, PlayerSwitchTeam, PlayerDisconnect,
         PlayerSayText, PlayerSetAnimation, PlayerAddAccount, PlayerMakeBomber,
         PlayerDropItem, Counted, cvarVars, statsVars
    <2> QED
      BY <1>5, <2>1, PlayerExchange
  <1>6. ASSUME NEW q \in Players, CombatStep(q)
        PROVE  Plain \/ (m_State' = m_State /\ Frag)
    <2>1. ASSUME NEW k \in Players, NEW d \in Damages, RecordHit(q, k, d) PROVE Same
      BY <1>1, <2>1 DEF RecordHit, RoundStats
    <2>2. ASSUME NEW k \in Players, NEW d \in Damages,
                 PlayerDamage_Hit(q, k, d) \/ PlayerDamage_Lethal(q, k, d)
          PROVE  Plain
      <3>1. m_State' = m_State /\ (RecordHit(q, k, d) \/ UNCHANGED <<Stats, Round>>)
        BY <2>2 DEF PlayerDamage_Hit, PlayerDamage_Lethal, cvarVars
      <3> QED
        BY <1>6, <2>1, <2>2, <3>1 DEF Hit
    <2>3. ASSUME NEW k \in Players, PlayerKilled(q, k)
          PROVE  Plain \/ (m_State' = m_State /\ Frag)
      <3>1. m_State' = m_State
        BY <2>3 DEF PlayerKilled, cvarVars
      <3>2. Frag \/ RecordSuicide(q)
        BY <1>6, <2>3 DEF PlayerKilled, Frag
      <3>3. RecordSuicide(q) => Aside /\ UNCHANGED Round
        BY CountedAside DEF RecordSuicide, Exchanged
      <3> QED
        BY <3>1, <3>2, <3>3
    <2>4. CASE PlayerKilled_Ignored(q)
      BY <2>4 DEF PlayerKilled_Ignored, cvarVars, statsVars
    <2> QED
      BY <1>6, <2>2, <2>3, <2>4 DEF CombatStep
  <1>7. ASSUME NEW complete \in BOOLEAN, RoundRestart(complete) PROVE Plain \/ ResetRound
    BY <1>7 DEF RoundRestart, cvarVars
  <1>8. CASE RoundFreezeEnd
    BY <1>8 DEF RoundFreezeEnd, cvarVars
  <1>9. ASSUME NEW w \in Sides \cup {0}, RoundEnd(w) PROVE Plain
    <2>1. m_State' = m_State /\ UNCHANGED Round /\ (UNCHANGED Stats \/ RecordRound(w))
      BY <1>9 DEF RoundEnd, cvarVars
    <2>2. RecordRound(w) => Aside
      <3>1. \A pair \in RoundCounters(w) : pair[2] \notin Exchanged
        BY DEF RoundCounters, Exchanged
      <3> QED
        BY <3>1 DEF RecordRound, Aside
    <2> QED
      BY <2>1, <2>2
  <1>10. CASE BombStep
    <2>1. m_State' = m_State
      BY <1>10 DEF BombStep, PlantBomb, DefuseBombStart, DefuseBombEnd, ExplodeBomb,
         Counted, cvarVars
    <2>2. \/ UNCHANGED Round
          \/ \E q \in Players : Round' = [Round EXCEPT ![q].BombDefused = TRUE]
          \/ Round' = [Round EXCEPT ![planter].BombExploded = TRUE]
      BY <1>10 DEF BombStep, PlantBomb, DefuseBombStart, DefuseBombEnd, ExplodeBomb, Counted
    <2>3. Same
      BY <1>1, <2>2 DEF RoundStats
    <2> QED
      BY <1>10, <2>1, <2>3, BombExchange
  <1> QED
    BY <1>2, <1>3, <1>4, <1>5, <1>6, <1>7, <1>8, <1>9, <1>10 DEF Next, RoundStep

LEMMA FragsStep ==
    TypeOK /\ TypeOK' /\ FragsOfHalf /\ [Next]_vars => FragsOfHalf'
  <1> SUFFICES ASSUME TypeOK, TypeOK', FragsOfHalf, [Next]_vars, Recording',
                      NEW p \in Players
               PROVE  Round'[p].Frags <= Stats'[p][m_State']["Frags"]
    BY DEF FragsOfHalf
  <1> DEFINE s == m_State'
  <1>1. s \in PlayStates /\ Stats'[p][s]["Frags"] \in Nat
    BY DEF Recording, TypeOK, CounterTypes, StatsType, Counters
  <1>2. CASE ResetRound
    BY <1>1, <1>2 DEF ResetRound, ZeroRound
  <1>3. ASSUME m_State' = m_State
        PROVE  /\ Stats[p][s]["Frags"] \in Nat /\ Round[p].Frags \in Nat
               /\ Round[p].Frags <= Stats[p][s]["Frags"]
    BY <1>1, <1>3 DEF FragsOfHalf, Recording, TypeOK, CounterTypes, StatsType, RoundStats,
       Counters
  <1> HIDE DEF s
  <1>4. CASE /\ m_State' = m_State
             /\ UNCHANGED Stats \/ Aside \/ Hit
             /\ \A q \in Players : Round'[q].Frags = Round[q].Frags
    <2>1. Adds
      BY <1>4, CountsAdd DEF TypeOK, CounterTypes
    <2>2. Stats'[p][s]["Frags"] >= Stats[p][s]["Frags"]
      BY <1>1, <2>1 DEF Adds, Counters
    <2> QED
      BY <1>1, <1>3, <1>4, <2>2 DEF s
  <1>5. ASSUME m_State' = m_State, NEW v \in Players, NEW k \in Players, RecordFrag(v, k)
        PROVE  Round'[p].Frags <= Stats'[p][s]["Frags"]
    <2> DEFINE pairs == {<<k, "Frags">>, <<v, "Deaths">>}
                        \cup {<<q, "Assists">> : q \in Assistants(v, k)}
                        \cup (IF FirstBlood
                              THEN {<<k, "EntryFrags">>, <<v, "EntryDeaths">>} ELSE {})
    <2>1. Stats' = Earned(Stats, pairs, 1)
      BY <1>5 DEF RecordFrag
    <2>2. <<p, "Frags">> \in pairs <=> p = k
      OBVIOUS
    <2> HIDE DEF pairs
    <2>3. Stats'[p][s]["Frags"]
             = IF <<p, "Frags">> \in pairs THEN Stats[p][s]["Frags"] + 1
               ELSE Stats[p][s]["Frags"]
      BY <1>1, <1>5, <2>1 DEF Earned, Counters, s
    <2>4. Round[p] \in RoundStats
      BY DEF TypeOK, CounterTypes
    <2>5. Round'[p].Frags = IF p = k THEN Round[p].Frags + 1 ELSE Round[p].Frags
      BY <1>5, <2>4 DEF RecordFrag, RoundStats
    <2> QED
      BY <1>3, <1>5, <2>2, <2>3, <2>5
  <1> QED
    BY <1>2, <1>4, <1>5, StepFrags DEF Frag, s

\* Round.Frags counts kills of this half only: it never runs ahead of Stats.
THEOREM FragsCorrect == Spec => []FragsOfHalf
  <1>1. Init => FragsOfHalf
    BY DEF Init, FragsOfHalf, Recording, PlayStates, STATE_DEAD, STATE_FIRST_HALF,
       STATE_SECOND_HALF, STATE_OVERTIME
  <1> QED
    BY TypeCorrect, <1>1, FragsStep, PTL DEF Spec

-----------------------------------------------------------------------------
(* What the end of a round does to a histogram *)

LEMMA ArraySizeType == ArraySize \in Nat /\ Cells = 0 .. (2 * ArraySize - 1)
  BY ClientsAssumption DEF ClientsAssumption, ArraySize, Cells

LEMMA CellsFinite == IsFiniteSet(0 .. ArraySize - 1)
  <1>1. 0 \in Int /\ ArraySize - 1 \in Int
    BY ArraySizeType
  <1> HIDE DEF ArraySize
  <1> QED
    BY <1>1, FS_Interval

\* One of the two arrays: the cells from o on.
Histogram(tally, p, s, o) == [n \in 0 .. ArraySize - 1 |-> tally[p][s][o + n]]

LEMMA HistogramType ==
    ASSUME NEW tally \in TallyType, NEW p \in Players, NEW s \in PlayStates,
           NEW o \in {0, ArraySize}
    PROVE  /\ Histogram(tally, p, s, o) \in [0 .. ArraySize - 1 -> Nat]
           /\ \A n \in 0 .. ArraySize - 1 :
                 o + n \in Cells /\ Histogram(tally, p, s, o)[n] = tally[p][s][o + n]
  <1>1. \A n \in 0 .. ArraySize - 1 : o + n \in Cells
    BY ArraySizeType
  <1>2. tally[p][s] \in [Cells -> Nat]
    BY DEF TallyType
  <1> QED
    BY <1>1, <1>2 DEF Histogram

LEMMA BumpsOnce ==
    ASSUME NEW Dom, IsFiniteSet(Dom), NEW before \in [Dom -> Nat], NEW after \in [Dom -> Nat],
           NEW j, NEW b \in Nat,
           \A n \in Dom : after[n] = before[n] + (IF n = j THEN b ELSE 0)
    PROVE  /\ SumOver(before) \in Nat /\ SumOver(after) \in Nat
           /\ SumOver(after) <= SumOver(before) + b
  <1> DEFINE extra == [n \in Dom |-> IF n = j THEN b ELSE 0]
  <1>1. extra \in [Dom -> Nat] /\ \A n \in Dom : after[n] = before[n] + extra[n]
    OBVIOUS
  <1>2. /\ \A n \in Dom : n # j => extra[n] = 0
        /\ j \in Dom => extra[j] = b
    OBVIOUS
  <1> HIDE DEF extra
  <1>3. SumOver(extra) <= b
    <2>1. CASE j \in Dom
      <3>1. SumOver(extra) = extra[j]
        BY <1>1, <1>2, <2>1, TotalOfOne
      <3> QED
        BY <1>2, <2>1, <3>1
    <2>2. CASE j \notin Dom
      <3>1. \A n \in Dom : extra[n] = 0
        BY <1>2, <2>2
      <3>2. SumOver(extra) = 0
        BY <1>1, <3>1, TotalOfNone
      <3> QED
        BY <3>2
    <2> QED
      BY <2>1, <2>2
  <1>4. SumOver(before) \in Nat /\ SumOver(after) \in Nat /\ SumOver(extra) \in Nat
    BY <1>1, TotalGrows
  <1>5. SumOver(after) = SumOver(before) + SumOver(extra)
    <2>1. before \in [Dom -> Int] /\ after \in [Dom -> Int] /\ extra \in [Dom -> Int]
      BY <1>1
    <2> QED
      BY <1>1, <2>1, TotalAdds
  <1> QED
    BY <1>3, <1>4, <1>5

LEMMA EmptyHistogram ==
    ASSUME NEW tally \in TallyType, NEW p \in Players, NEW s \in PlayStates,
           NEW o \in {0, ArraySize}, tally[p][s] = ZeroTally[p][s]
    PROVE  SumOver(Histogram(tally, p, s, o)) = 0
  <1> DEFINE f == Histogram(tally, p, s, o)
             D == 0 .. ArraySize - 1
  <1>1. \A n \in D : o + n \in Cells /\ f[n] = tally[p][s][o + n]
    BY HistogramType
  <1>2. f \in [D -> Nat]
    BY HistogramType
  <1>3. \A n \in D : f[n] = 0
    BY <1>1 DEF ZeroTally
  <1>4. IsFiniteSet(D)
    BY CellsFinite
  <1> HIDE DEF f, D
  <1> QED
    BY <1>2, <1>3, <1>4, TotalOfNone DEF f

\* RoundEnd adds to the cell of the streak, and to the counters of a round.
LEMMA RoundTallies ==
    ASSUME TypeOK, Recording, NEW w \in Sides, RecordRound(w), NEW p \in Players
    PROVE  /\ \A i \in Cells : Tally'[p][m_State][i] = Tally[p][m_State][i] + Bumps(p, i, w)
           /\ Stats'[p][m_State]["RoundPlay"]
                 = Stats[p][m_State]["RoundPlay"] + (IF p \in InPlay THEN 1 ELSE 0)
           /\ Stats'[p][m_State]["RoundWin"]
                 = Stats[p][m_State]["RoundWin"] + (IF p \in OnTeam(w) THEN 1 ELSE 0)
           /\ Stats'[p][m_State]["Frags"] = Stats[p][m_State]["Frags"]
  <1>1. m_State \in PlayStates
    BY DEF Recording
  <1>2. \A i \in Cells : Tally'[p][m_State][i] = Tally[p][m_State][i] + Bumps(p, i, w)
    BY <1>1 DEF RecordRound
  <1>3. /\ <<p, "RoundPlay">> \in RoundCounters(w) <=> p \in InPlay
        /\ <<p, "RoundWin">> \in RoundCounters(w) <=> p \in OnTeam(w)
        /\ <<p, "Frags">> \notin RoundCounters(w)
    BY DEF RoundCounters
  <1>4. Stats \in StatsType
    BY DEF TypeOK, CounterTypes
  <1>5. \A c \in {"RoundPlay", "RoundWin", "Frags"} :
           /\ Stats[p][m_State][c] \in Nat
           /\ Stats'[p][m_State][c]
                 = IF <<p, c>> \in RoundCounters(w) THEN Stats[p][m_State][c] + 1
                   ELSE Stats[p][m_State][c]
    <2>1. Stats' = Earned(Stats, RoundCounters(w), 1)
      BY DEF RecordRound
    <2>2. {"RoundPlay", "RoundWin", "Frags"} \subseteq Counters
      BY DEF Counters
    <2> QED
      BY <1>1, <1>4, <2>1, <2>2 DEF Earned, StatsType
  <1> QED
    BY <1>2, <1>3, <1>5

\* What a step does to one player's counters of one half.
GrowsAt(p, s) ==
    /\ Tally'[p][s] = Tally[p][s]
    /\ \A c \in Counters :
          Stats[p][s][c] \in Nat /\ Stats'[p][s][c] \in Nat /\ Stats'[p][s][c] >= Stats[p][s][c]
ClearedAt(p, s) == Stats'[p][s] = ZeroStats[p][s] /\ Tally'[p][s] = ZeroTally[p][s]
RoundEndsAt(s) == s = m_State /\ Recording /\ \E w \in Sides : RecordRound(w)

LEMMA StepTalliesAt ==
    ASSUME TypeOK, [Next]_vars, NEW p \in Players, NEW s \in PlayStates
    PROVE  GrowsAt(p, s) \/ ClearedAt(p, s) \/ RoundEndsAt(s)
  <1>1. Stats[p][s] \in [Counters -> Nat]
    BY DEF TypeOK, CounterTypes, StatsType
  <1>2. Stats'[p][s] = Stats[p][s] /\ Tally'[p][s] = Tally[p][s] => GrowsAt(p, s)
    BY <1>1 DEF GrowsAt
  <1>3. Adds /\ UNCHANGED Tally => GrowsAt(p, s)
    BY DEF Adds, GrowsAt
  <1>4. CASE Cleared
    <2>1. CASE Stats' = ZeroStats /\ Tally' = ZeroTally
      BY <2>1 DEF ClearedAt
    <2>2. ASSUME NEW h \in PlayStates, ResetStats(h) PROVE GrowsAt(p, s) \/ ClearedAt(p, s)
      BY <1>2, <2>2, ResetHalf DEF ClearedAt
    <2> QED
      BY <1>4, <2>1, <2>2 DEF Cleared
  <1>5. CASE Ended
    <2>1. Recording /\ \E w \in Sides : RecordRound(w)
      BY <1>5 DEF Ended
    <2> QED
      BY <1>2, <2>1, EndedHalf DEF RoundEndsAt
  <1> QED
    BY <1>3, <1>4, <1>5, StepTallies

StreaksAt(tally, stats, p, s) ==
    /\ SumOver(Histogram(tally, p, s, 0)) <= stats[p][s]["RoundPlay"]
    /\ \A n \in 0 .. ArraySize - 1 : tally[p][s][n] > 0 => n <= stats[p][s]["Frags"]

LEMMA StreaksMeaning ==
    StreaksOfHalf <=> \A p \in Players, s \in PlayStates : StreaksAt(Tally, Stats, p, s)
  <1>1. ASSUME NEW p \in Players, NEW s \in PlayStates
        PROVE  [n \in 0 .. ArraySize - 1 |-> Tally[p][s][KillStreakCell(n)]]
                  = Histogram(Tally, p, s, 0)
    BY ArraySizeType DEF Histogram, KillStreakCell
  <1> QED
    BY <1>1 DEF StreaksOfHalf, StreaksAt, KillStreakCell

LEMMA StreaksZero ==
    ASSUME NEW tally \in TallyType, NEW stats, NEW p \in Players, NEW s \in PlayStates,
           tally[p][s] = ZeroTally[p][s], stats[p][s] = ZeroStats[p][s]
    PROVE  StreaksAt(tally, stats, p, s)
  <1>1. SumOver(Histogram(tally, p, s, 0)) = 0
    BY EmptyHistogram
  <1>2. stats[p][s]["RoundPlay"] = 0
    BY DEF ZeroStats, Counters
  <1>3. \A n \in 0 .. ArraySize - 1 : tally[p][s][n] = 0
    BY ArraySizeType DEF ZeroTally
  <1> QED
    BY <1>1, <1>2, <1>3 DEF StreaksAt

\* A streak is bumped once, by a player in play, and is one of the half's kills.
LEMMA StreaksEnd ==
    ASSUME TypeOK, TypeOK', Recording, FragsOfHalf, NEW w \in Sides, RecordRound(w),
           NEW p \in Players, StreaksAt(Tally, Stats, p, m_State)
    PROVE  StreaksAt(Tally', Stats', p, m_State)
  <1> DEFINE s == m_State
             D == 0 .. ArraySize - 1
             old == Histogram(Tally, p, s, 0)
             new == Histogram(Tally', p, s, 0)
             b == IF p \in InPlay /\ Round[p].Frags > 0 THEN 1 ELSE 0
             j == Round[p].Frags
  <1>1. s \in PlayStates /\ j \in Nat /\ Round[p].Versus \in Nat /\ b \in Nat
    BY DEF Recording, TypeOK, CounterTypes, RoundStats
  <1>2. Tally \in TallyType /\ Tally' \in TallyType /\ Stats \in StatsType
    BY DEF TypeOK, CounterTypes
  <1>3. \A n \in D : n \in Cells /\ Bumps(p, n, w) = IF n = j THEN b ELSE 0
    BY <1>1, ArraySizeType DEF Bumps, KillStreakCell, VersusCell
  <1>4. \A n \in D : /\ Tally[p][s][n] \in Nat
                     /\ Tally'[p][s][n] = Tally[p][s][n] + (IF n = j THEN b ELSE 0)
    <2>1. \A n \in D : Tally'[p][s][n] = Tally[p][s][n] + Bumps(p, n, w)
      BY <1>3, RoundTallies
    <2>2. \A n \in D : Tally[p][s][n] \in Nat
      BY <1>1, <1>2, <1>3 DEF TallyType
    <2> QED
      BY <1>3, <2>1, <2>2
  <1>5. /\ old \in [D -> Nat] /\ new \in [D -> Nat]
        /\ \A n \in D : old[n] = Tally[p][s][n] /\ new[n] = Tally'[p][s][n]
    <2>1. /\ old \in [D -> Nat] /\ new \in [D -> Nat]
          /\ \A n \in D : old[n] = Tally[p][s][0 + n] /\ new[n] = Tally'[p][s][0 + n]
      BY <1>1, <1>2, HistogramType
    <2>2. \A n \in D : 0 + n = n
      BY ArraySizeType
    <2> QED
      BY <2>1, <2>2
  <1>6. \A n \in D : new[n] = old[n] + (IF n = j THEN b ELSE 0)
    BY <1>4, <1>5
  <1>7. IsFiniteSet(D)
    BY CellsFinite
  <1>8. /\ Stats[p][s]["RoundPlay"] \in Nat /\ Stats[p][s]["Frags"] \in Nat
        /\ Stats'[p][s]["RoundPlay"] = Stats[p][s]["RoundPlay"] + (IF p \in InPlay THEN 1 ELSE 0)
        /\ Stats'[p][s]["Frags"] = Stats[p][s]["Frags"]
    BY <1>1, <1>2, RoundTallies DEF StatsType, Counters
  <1>9. j <= Stats[p][s]["Frags"]
    BY DEF FragsOfHalf
  <1>10. b <= IF p \in InPlay THEN 1 ELSE 0
    OBVIOUS
  <1>11. SumOver(old) <= Stats[p][s]["RoundPlay"]
    BY DEF StreaksAt
  <1> HIDE DEF old, new, b, j, D
  <1>12. /\ SumOver(old) \in Nat /\ SumOver(new) \in Nat
         /\ SumOver(new) <= SumOver(old) + b
    BY <1>1, <1>5, <1>6, <1>7, BumpsOnce
  <1>13. SumOver(new) <= Stats'[p][s]["RoundPlay"]
    BY <1>1, <1>8, <1>10, <1>11, <1>12
  <1>14. ASSUME NEW n \in D, Tally'[p][s][n] > 0 PROVE n <= Stats'[p][s]["Frags"]
    <2>1. CASE n = j
      BY <1>8, <1>9, <2>1
    <2>2. CASE n # j
      <3>1. Tally[p][s][n] > 0
        BY <1>4, <1>14, <2>2
      <3> QED
        BY <1>8, <3>1 DEF StreaksAt, D
    <2> QED
      BY <2>1, <2>2
  <1> QED
    BY <1>13, <1>14 DEF StreaksAt, new, D

\* Of the kill streaks of a half there are no more than rounds the player played in
\* it, and none longer than the kills the player made in it.
THEOREM StreaksSafe == Spec => []StreaksOfHalf
  <1> DEFINE Inv == \A p \in Players, s \in PlayStates : StreaksAt(Tally, Stats, p, s)
  <1>1. Init => Inv
    BY StreaksZero, ZeroTypes DEF Init
  <1>2. TypeOK /\ TypeOK' /\ FragsOfHalf /\ Inv /\ [Next]_vars => Inv'
    <2> SUFFICES ASSUME TypeOK, TypeOK', FragsOfHalf, Inv, [Next]_vars,
                        NEW p \in Players, NEW s \in PlayStates
                 PROVE  StreaksAt(Tally', Stats', p, s)
      OBVIOUS
    <2>1. StreaksAt(Tally, Stats, p, s)
      OBVIOUS
    <2> HIDE DEF Inv
    <2>2. Tally \in TallyType /\ Tally' \in TallyType
      BY DEF TypeOK, CounterTypes
    <2>3. CASE GrowsAt(p, s)
      <3>1. /\ {"RoundPlay", "Frags"} \subseteq Counters
            /\ Histogram(Tally', p, s, 0) = Histogram(Tally, p, s, 0)
        BY <2>3 DEF GrowsAt, Histogram, Counters
      <3>2. SumOver(Histogram(Tally, p, s, 0)) \in Nat
        <4>1. IsFiniteSet(0 .. ArraySize - 1)
          BY CellsFinite
        <4> QED
          BY <2>2, <4>1, HistogramType, TotalGrows
      <3> QED
        BY <2>1, <2>3, <3>1, <3>2 DEF GrowsAt, StreaksAt
    <2>4. CASE ClearedAt(p, s)
      BY <2>2, <2>4, StreaksZero DEF ClearedAt
    <2>5. CASE RoundEndsAt(s)
      BY <2>1, <2>5, StreaksEnd DEF RoundEndsAt
    <2> QED
      BY <2>3, <2>4, <2>5, StepTalliesAt
  <1>3. Inv => StreaksOfHalf
    BY StreaksMeaning
  <1> HIDE DEF Inv
  <1> QED
    BY TypeCorrect, FragsCorrect, <1>1, <1>2, <1>3, PTL DEF Spec

\* As many kills as the streaks have cells would run into the clutches.
ShortStreaks == \A p \in Players : Round[p].Frags < ArraySize

ClutchesAt(tally, stats, p, s) ==
    SumOver(Histogram(tally, p, s, ArraySize)) <= stats[p][s]["RoundWin"]

LEMMA ClutchesMeaning ==
    ClutchesOfHalf <=> \A p \in Players, s \in PlayStates : ClutchesAt(Tally, Stats, p, s)
  BY DEF ClutchesOfHalf, ClutchesAt, VersusCell, Histogram

LEMMA ClutchesZero ==
    ASSUME NEW tally \in TallyType, NEW stats, NEW p \in Players, NEW s \in PlayStates,
           tally[p][s] = ZeroTally[p][s], stats[p][s] = ZeroStats[p][s]
    PROVE  ClutchesAt(tally, stats, p, s)
  <1>1. SumOver(Histogram(tally, p, s, ArraySize)) = 0
    BY EmptyHistogram
  <1>2. stats[p][s]["RoundWin"] = 0
    BY DEF ZeroStats, Counters
  <1> QED
    BY <1>1, <1>2 DEF ClutchesAt

\* A clutch is bumped once, by a player whose side won.
LEMMA ClutchesEnd ==
    ASSUME TypeOK, TypeOK', Recording, ShortStreaks, NEW w \in Sides, RecordRound(w),
           NEW p \in Players, ClutchesAt(Tally, Stats, p, m_State)
    PROVE  ClutchesAt(Tally', Stats', p, m_State)
  <1> DEFINE s == m_State
             D == 0 .. ArraySize - 1
             old == Histogram(Tally, p, s, ArraySize)
             new == Histogram(Tally', p, s, ArraySize)
             b == IF p \in OnTeam(w) /\ Round[p].Versus > 0 THEN 1 ELSE 0
             j == Round[p].Versus
  <1>1. /\ s \in PlayStates /\ j \in Nat /\ b \in Nat
        /\ Round[p].Frags \in Nat /\ Round[p].Frags < ArraySize
    BY DEF Recording, TypeOK, CounterTypes, RoundStats, ShortStreaks
  <1>2. Tally \in TallyType /\ Tally' \in TallyType /\ Stats \in StatsType
    BY DEF TypeOK, CounterTypes
  <1>3. /\ old \in [D -> Nat] /\ new \in [D -> Nat]
        /\ \A n \in D : /\ ArraySize + n \in Cells
                        /\ old[n] = Tally[p][s][ArraySize + n]
                        /\ new[n] = Tally'[p][s][ArraySize + n]
    BY <1>1, <1>2, HistogramType
  <1>4. \A n \in D : Bumps(p, ArraySize + n, w) = IF n = j THEN b ELSE 0
    BY <1>1, ArraySizeType DEF Bumps, KillStreakCell, VersusCell
  <1>5. \A n \in D : new[n] = old[n] + (IF n = j THEN b ELSE 0)
    <2>1. \A n \in D : Tally'[p][s][ArraySize + n]
                          = Tally[p][s][ArraySize + n] + Bumps(p, ArraySize + n, w)
      BY <1>3, RoundTallies
    <2> QED
      BY <1>3, <1>4, <2>1
  <1>6. IsFiniteSet(D)
    BY CellsFinite
  <1>7. /\ Stats[p][s]["RoundWin"] \in Nat
        /\ Stats'[p][s]["RoundWin"] = Stats[p][s]["RoundWin"] + (IF p \in OnTeam(w) THEN 1 ELSE 0)
    BY <1>1, <1>2, RoundTallies DEF StatsType, Counters
  <1>8. b <= IF p \in OnTeam(w) THEN 1 ELSE 0
    OBVIOUS
  <1>9. SumOver(old) <= Stats[p][s]["RoundWin"]
    BY DEF ClutchesAt
  <1> HIDE DEF old, new, b, j, D
  <1>10. /\ SumOver(old) \in Nat /\ SumOver(new) \in Nat
         /\ SumOver(new) <= SumOver(old) + b
    <2>1. old \in [D -> Nat] /\ new \in [D -> Nat]
      BY <1>3
    <2> QED
      BY <1>1, <1>5, <1>6, <2>1, BumpsOnce
  <1>11. SumOver(new) <= Stats'[p][s]["RoundWin"]
    BY <1>1, <1>7, <1>8, <1>9, <1>10
  <1> QED
    BY <1>11 DEF ClutchesAt, new

\* Unless a player makes as many kills in a round as the array of streaks has cells,
\* there are no more clutches of a half than rounds won in it.
THEOREM ClutchesSafe == Spec /\ []ShortStreaks => []ClutchesOfHalf
  <1> DEFINE Inv == \A p \in Players, s \in PlayStates : ClutchesAt(Tally, Stats, p, s)
  <1>1. Init => Inv
    BY ClutchesZero, ZeroTypes DEF Init
  <1>2. TypeOK /\ TypeOK' /\ ShortStreaks /\ Inv /\ [Next]_vars => Inv'
    <2> SUFFICES ASSUME TypeOK, TypeOK', ShortStreaks, Inv, [Next]_vars,
                        NEW p \in Players, NEW s \in PlayStates
                 PROVE  ClutchesAt(Tally', Stats', p, s)
      OBVIOUS
    <2>1. ClutchesAt(Tally, Stats, p, s)
      OBVIOUS
    <2> HIDE DEF Inv
    <2>2. Tally \in TallyType /\ Tally' \in TallyType
      BY DEF TypeOK, CounterTypes
    <2>3. CASE GrowsAt(p, s)
      <3>1. /\ "RoundWin" \in Counters
            /\ Histogram(Tally', p, s, ArraySize) = Histogram(Tally, p, s, ArraySize)
        BY <2>3 DEF GrowsAt, Histogram, Counters
      <3>2. SumOver(Histogram(Tally, p, s, ArraySize)) \in Nat
        <4>1. IsFiniteSet(0 .. ArraySize - 1)
          BY CellsFinite
        <4> QED
          BY <2>2, <4>1, HistogramType, TotalGrows
      <3> QED
        BY <2>1, <2>3, <3>1, <3>2 DEF GrowsAt, ClutchesAt
    <2>4. CASE ClearedAt(p, s)
      BY <2>2, <2>4, ClutchesZero DEF ClearedAt
    <2>5. CASE RoundEndsAt(s)
      BY <2>1, <2>5, ClutchesEnd DEF RoundEndsAt
    <2> QED
      BY <2>3, <2>4, <2>5, StepTalliesAt
  <1>3. Inv => ClutchesOfHalf
    BY ClutchesMeaning
  <1> HIDE DEF Inv
  <1> QED
    BY TypeCorrect, <1>1, <1>2, <1>3, PTL DEF Spec

=============================================================================
