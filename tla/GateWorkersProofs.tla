-------------------------- MODULE GateWorkersProofs --------------------------
(***************************************************************************)
(* The quotas of the external gate, and the departures of its worker of    *)
(* one table, proved for any number of opponents, seats, looks, tables,    *)
(* games, failures, deaths and lost connections, and for whatever the      *)
(* bootstrap says at each look.                                            *)
(*                                                                         *)
(* A quota is what dealing the games of a look to the strata in turn gives *)
(* each of them (Dealt), so that an arm within its quotas has at most the  *)
(* games of the look, and with all of them has met each quota (WithinLook, *)
(* MeetsLook).  The invariant of the ledger (QuotaInv) is that the looks   *)
(* before the one in progress are complete, that the scored games with     *)
(* those in flight are within that look, and that the first games of an    *)
(* arm are the quotas of each look it has reached.  A worker keeps it      *)
(* because a game is reserved from the same ledger it is assigned from,    *)
(* and gives its reservation up in the step that scores it (CampaignInv,   *)
(* SingleInv).                                                             *)
(*                                                                         *)
(* A departure is pending at a table on which nothing goes on because of   *)
(* what its lines tell (DepartureInv): of one table at most the worker has *)
(* a line under way, and then no call in progress; after the end of a game *)
(* the server has the table open, and no line of another game comes.       *)
(***************************************************************************)
EXTENDS GateWorkers, FiniteSetTheorems, SequenceTheorems, TLAPS

-----------------------------------------------------------------------------
(* Arithmetic.                                                               *)

\* Arithmetic: a product grows with its factor.
LEMMA TimesMonotone ==
  ASSUME NEW a \in Int, NEW b \in Int, NEW k \in Nat, a <= b
  PROVE  a * k <= b * k
BY SMT

\* A number is its quotient and its remainder.
LEMMA DivMod ==
  ASSUME NEW a \in Nat, NEW b \in Nat \ {0}
  PROVE  /\ a \div b \in Nat /\ a % b \in 0..(b - 1)
         /\ a = (a \div b) * b + (a % b)
BY SMT

\* Quotient and remainder are what they are put together from.
LEMMA DivModUnique ==
  ASSUME NEW b \in Nat \ {0}, NEW q \in Nat, NEW r \in 0..(b - 1)
  PROVE  (q * b + r) \div b = q /\ (q * b + r) % b = r
BY SMT

\* A multiple of b and a remainder is less than another such sum like the pairs are.
LEMMA Lexical ==
  ASSUME NEW b \in Nat \ {0}, NEW j \in Nat, NEW p \in 0..(b - 1),
         NEW d \in Nat, NEW e \in 0..(b - 1)
  PROVE  j * b + p < d * b + e <=> j < d \/ (j = d /\ p < e)
<1>1. ASSUME j < d PROVE j * b + p < d * b + e
  <2>1. (j + 1) * b <= d * b BY <1>1, TimesMonotone
  <2>2. (j + 1) * b = j * b + b BY SMT
  <2> QED BY <2>1, <2>2, SMT
<1>2. ASSUME d < j PROVE ~(j * b + p < d * b + e)
  <2>1. (d + 1) * b <= j * b BY <1>2, TimesMonotone
  <2>2. (d + 1) * b = d * b + b BY SMT
  <2> QED BY <2>1, <2>2, SMT
<1>3. ASSUME d = j PROVE j * b + p < d * b + e <=> p < e
  <2>1. j * b \in Nat BY SMT
  <2> QED BY <1>3, <2>1, SMT
<1> QED BY <1>1, <1>2, <1>3, SMT

-----------------------------------------------------------------------------
(* The canonical order of the strata.                                        *)

Places == 0..(Stacks * Seats - 1)
StrataOf(arm) == {s \in Strata : s.arm = arm}
StratumAt(arm, p) == [arm |-> arm, stack |-> (p \div Seats) + 1, seat |-> p % Seats]

\* There is a place for each stratum of an arm.
LEMMA PlaceCount == Stacks * Seats \in Nat \ {0}
BY QuotasAssumption, SMT

\* A stratum has a place, and the place tells the stratum.
LEMMA PlaceIsKnown ==
  ASSUME NEW s \in Strata
  PROVE  Place(s) \in Places /\ StratumAt(s.arm, Place(s)) = s
<1>1. /\ s.stack \in 1..Stacks /\ s.seat \in 0..(Seats - 1) /\ s.arm \in Arms
      /\ s = [arm |-> s.arm, stack |-> s.stack, seat |-> s.seat]
  BY DEF Strata
<1> DEFINE q == s.stack - 1
<1>2. q \in Nat /\ q <= Stacks - 1 /\ Seats \in Nat \ {0} /\ Stacks \in Nat \ {0}
  BY <1>1, QuotasAssumption, SMT
<1>3. Place(s) = q * Seats + s.seat BY DEF Place
<1>4. Place(s) \div Seats = q /\ Place(s) % Seats = s.seat
  BY <1>1, <1>2, <1>3, DivModUnique
<1>5. q * Seats <= (Stacks - 1) * Seats BY <1>2, TimesMonotone, SMT
<1>6. (Stacks - 1) * Seats = Stacks * Seats - Seats BY <1>2, SMT
<1>7. q * Seats \in Nat /\ Stacks * Seats \in Nat BY <1>2, SMT
<1>8. Place(s) \in Places BY <1>1, <1>2, <1>3, <1>5, <1>6, <1>7, SMT DEF Places
<1> QED BY <1>1, <1>2, <1>4, <1>8, SMT DEF StratumAt

\* Each place is a stratum of each arm.
LEMMA PlaceIsTaken ==
  ASSUME NEW arm \in Arms, NEW p \in Places
  PROVE  StratumAt(arm, p) \in StrataOf(arm) /\ Place(StratumAt(arm, p)) = p
<1>1. p \in Nat /\ Seats \in Nat \ {0} /\ Stacks \in Nat \ {0} /\ p <= Stacks * Seats - 1
  BY QuotasAssumption, PlaceCount, SMT DEF Places
<1> DEFINE d == p \div Seats
           e == p % Seats
<1>2. d \in Nat /\ e \in 0..(Seats - 1) /\ p = d * Seats + e BY <1>1, DivMod
<1>3. d < Stacks
  <2> SUFFICES ASSUME Stacks <= d PROVE FALSE BY <1>1, <1>2, SMT
  <2>1. Stacks * Seats <= d * Seats BY <1>1, <1>2, TimesMonotone, SMT
  <2> HIDE DEF d, e
  <2>2. d * Seats \in Nat /\ Stacks * Seats \in Nat BY <1>1, <1>2, SMT
  <2> QED BY <1>1, <1>2, <2>1, <2>2, SMT
<1> HIDE DEF d, e
<1>4. d + 1 \in 1..Stacks /\ (d + 1) - 1 = d BY <1>1, <1>2, <1>3, SMT
<1>5. StratumAt(arm, p) = [arm |-> arm, stack |-> d + 1, seat |-> e]
  BY DEF StratumAt, d, e
<1> QED BY <1>2, <1>4, <1>5 DEF StrataOf, Strata, Place

-----------------------------------------------------------------------------
(* The quota of a stratum counts the games that fall to its place, when they *)
(* are dealt to the places in turn.                                          *)

Dealt(n, s) == {k \in 0..(n - 1) : k % (Stacks * Seats) = Place(s)}

\* A quota is a natural number.
LEMMA QuotaIsNat ==
  ASSUME NEW n \in Nat, NEW s \in Strata
  PROVE  target_quotas(n, s) \in Nat
BY DivMod, PlaceCount, SMT DEF target_quotas

\* target_quotas: the quota of a stratum is the number of games dealt to it.
LEMMA QuotaIsDealt ==
  ASSUME NEW n \in Nat, NEW s \in Strata
  PROVE  IsFiniteSet(Dealt(n, s)) /\ Cardinality(Dealt(n, s)) = target_quotas(n, s)
<1> DEFINE b == Stacks * Seats
           p == Place(s)
           d == n \div b
           e == n % b
           q == target_quotas(n, s)
           f == [j \in 0..(q - 1) |-> j * b + p]
<1>1. b \in Nat \ {0} BY PlaceCount
<1>2. p \in 0..(b - 1) BY PlaceIsKnown DEF Places
<1>3. d \in Nat /\ e \in 0..(b - 1) /\ n = d * b + e BY <1>1, DivMod
<1>4. q = d + (IF p < e THEN 1 ELSE 0) BY DEF target_quotas
<1>5. q \in Nat BY QuotaIsNat
<1>6. Dealt(n, s) = {k \in 0..(n - 1) : k % b = p} BY DEF Dealt
<1> HIDE DEF b, p, d, e, q
<1>7. \A j \in Nat : j \in 0..(q - 1) <=> j * b + p < n
  <2> SUFFICES ASSUME NEW j \in Nat PROVE j \in 0..(q - 1) <=> j * b + p < n OBVIOUS
  <2>1. j * b + p < n <=> j < d \/ (j = d /\ p < e) BY <1>1, <1>2, <1>3, Lexical
  <2> QED BY <1>2, <1>3, <1>4, <2>1, SMT
<1>8. f \in [0..(q - 1) -> Dealt(n, s)]
  <2> SUFFICES ASSUME NEW j \in 0..(q - 1) PROVE j * b + p \in Dealt(n, s) OBVIOUS
  <2>1. j \in Nat /\ j * b \in Nat BY <1>1, <1>5, SMT
  <2>2. (j * b + p) % b = p BY <1>1, <1>2, <2>1, DivModUnique
  <2>3. j * b + p < n BY <1>7, <2>1
  <2> QED BY <1>2, <1>6, <2>1, <2>2, <2>3, SMT
<1>9. \A i, j \in 0..(q - 1) : f[i] = f[j] => i = j
  <2> SUFFICES ASSUME NEW i \in 0..(q - 1), NEW j \in 0..(q - 1), i * b + p = j * b + p
               PROVE  i = j OBVIOUS
  <2>1. i \in Nat /\ j \in Nat BY <1>5, SMT
  <2> QED BY <1>1, <1>2, <2>1, DivModUnique
<1>10. \A k \in Dealt(n, s) : \E j \in 0..(q - 1) : f[j] = k
  <2> SUFFICES ASSUME NEW k \in Dealt(n, s) PROVE \E j \in 0..(q - 1) : f[j] = k OBVIOUS
  <2>1. k \in Nat /\ k < n /\ k % b = p BY <1>6, SMT
  <2>2. k \div b \in Nat /\ k = (k \div b) * b + p BY <1>1, <2>1, DivMod
  <2>3. k \div b \in 0..(q - 1) BY <1>7, <2>1, <2>2
  <2> QED BY <2>2, <2>3
<1>11. f \in Bijection(0..(q - 1), Dealt(n, s))
  BY <1>8, <1>9, <1>10 DEF Bijection, Injection, Surjection, IsInjective
<1> HIDE DEF f
<1>12. ExistsBijection(0..(q - 1), Dealt(n, s)) BY <1>11 DEF ExistsBijection
<1>13. IsFiniteSet(0..(q - 1)) /\ Cardinality(0..(q - 1)) = q BY <1>5, FS_Interval, SMT
<1> QED BY <1>12, <1>13, FS_Bijection DEF q

\* A later look wants no fewer games of a stratum.
LEMMA QuotaGrows ==
  ASSUME NEW n \in Nat, NEW m \in Nat, n <= m, NEW s \in Strata
  PROVE  target_quotas(n, s) <= target_quotas(m, s)
<1>1. Dealt(n, s) \subseteq Dealt(m, s) BY SMT DEF Dealt
<1> QED BY <1>1, QuotaIsDealt, FS_Subset

-----------------------------------------------------------------------------
(* Two finite sets with keys: where no key has more elements in the first,   *)
(* the first has no more in all, and as many only if as many of each key.    *)

\* A set that is no larger has an injection into the other.
LEMMA InjectionExists ==
  ASSUME NEW S, NEW T, IsFiniteSet(S), IsFiniteSet(T), Cardinality(S) <= Cardinality(T)
  PROVE  \E f \in [S -> T] : \A x, y \in S : f[x] = f[y] => x = y
<1> DEFINE m == Cardinality(S)
           n == Cardinality(T)
<1>1. m \in Nat /\ n \in Nat /\ m <= n /\ ExistsBijection(1..m, S) /\ ExistsBijection(1..n, T)
  BY FS_CardinalityType
<1> HIDE DEF m, n
<1>2. PICK g \in Bijection(1..m, S) : TRUE BY <1>1 DEF ExistsBijection
<1>3. PICK h \in Bijection(1..n, T) : TRUE BY <1>1 DEF ExistsBijection
<1>4. g \in [1..m -> S] /\ \A x \in S : \E i \in 1..m : g[i] = x
  BY <1>2 DEF Bijection, Surjection
<1>5. h \in [1..n -> T] /\ \A i, j \in 1..n : h[i] = h[j] => i = j
  BY <1>3 DEF Bijection, Injection, IsInjective
<1> DEFINE at == [x \in S |-> CHOOSE i \in 1..m : g[i] = x]
           f == [x \in S |-> h[at[x]]]
<1>6. \A x \in S : at[x] \in 1..m /\ g[at[x]] = x BY <1>4
<1>7. 1..m \subseteq 1..n BY <1>1, SMT
<1> HIDE DEF at
<1>8. f \in [S -> T] BY <1>5, <1>6, <1>7
<1>9. ASSUME NEW x \in S, NEW y \in S, f[x] = f[y] PROVE x = y
  BY <1>5, <1>6, <1>7, <1>9
<1> QED BY <1>8, <1>9

Fibre(key, k) == {a \in DOMAIN key : key[a] = k}
Dominates(kb, ka, K) == \A k \in K : Cardinality(Fibre(ka, k)) <= Cardinality(Fibre(kb, k))

\* A set with no more elements of each key has no more elements, and with as many in
\* all it has as many of each key.
LEMMA Fibres ==
  ASSUME NEW K, NEW A, NEW B, IsFiniteSet(A), IsFiniteSet(B),
         NEW ka \in [A -> K], NEW kb \in [B -> K],
         Dominates(kb, ka, K)
  PROVE  /\ Cardinality(A) <= Cardinality(B)
         /\ Cardinality(A) = Cardinality(B) => Dominates(ka, kb, K)
<1>1. \A k \in K : /\ Fibre(ka, k) \subseteq A /\ IsFiniteSet(Fibre(ka, k))
                   /\ Fibre(kb, k) \subseteq B /\ IsFiniteSet(Fibre(kb, k))
                   /\ Cardinality(Fibre(ka, k)) \in Nat /\ Cardinality(Fibre(kb, k)) \in Nat
  <2> SUFFICES ASSUME NEW k \in K
               PROVE /\ Fibre(ka, k) \subseteq A /\ IsFiniteSet(Fibre(ka, k))
                     /\ Fibre(kb, k) \subseteq B /\ IsFiniteSet(Fibre(kb, k))
                     /\ Cardinality(Fibre(ka, k)) \in Nat /\ Cardinality(Fibre(kb, k)) \in Nat
    OBVIOUS
  <2>1. Fibre(ka, k) \subseteq A /\ Fibre(kb, k) \subseteq B BY DEF Fibre
  <2> QED BY <2>1, FS_Subset, FS_CardinalityType
<1> DEFINE Into(k, w) == /\ w \in [Fibre(ka, k) -> Fibre(kb, k)]
                         /\ \A x, y \in Fibre(ka, k) : w[x] = w[y] => x = y
           g == [k \in K |-> CHOOSE w : Into(k, w)]
<1>2. \A k \in K : Into(k, g[k])
  <2> SUFFICES ASSUME NEW k \in K PROVE Into(k, g[k]) OBVIOUS
  <2>1. \E w : Into(k, w) BY <1>1, InjectionExists DEF Dominates
  <2> QED BY <2>1
<1> HIDE DEF g
<1> DEFINE f == [a \in A |-> g[ka[a]][a]]
<1>3. \A a \in A : a \in Fibre(ka, ka[a]) /\ ka[a] \in K BY DEF Fibre
<1>4. \A a \in A : f[a] \in B /\ kb[f[a]] = ka[a]
  <2> SUFFICES ASSUME NEW a \in A PROVE f[a] \in B /\ kb[f[a]] = ka[a] OBVIOUS
  <2>1. g[ka[a]] \in [Fibre(ka, ka[a]) -> Fibre(kb, ka[a])] BY <1>2, <1>3
  <2>2. g[ka[a]][a] \in Fibre(kb, ka[a]) BY <1>3, <2>1
  <2> QED BY <2>2 DEF Fibre
<1>5. \A x, y \in A : f[x] = f[y] => x = y
  <2> SUFFICES ASSUME NEW x \in A, NEW y \in A, f[x] = f[y] PROVE x = y OBVIOUS
  <2>1. ka[x] = ka[y] BY <1>4
  <2> QED BY <1>2, <1>3, <2>1
<1>6. f \in Injection(A, B)
  <2>1. f \in [A -> B] BY <1>4
  <2> QED BY <1>5, <2>1 DEF Injection, IsInjective
<1> HIDE DEF f
<1>7. /\ Cardinality(A) <= Cardinality(B)
      /\ Cardinality(A) = Cardinality(B) <=> f \in Surjection(A, B)
  BY <1>6, FS_Injection
<1>8. ASSUME f \in Surjection(A, B), NEW k \in K
      PROVE  Cardinality(Fibre(kb, k)) <= Cardinality(Fibre(ka, k))
  <2> DEFINE h == [a \in Fibre(ka, k) |-> f[a]]
  <2>1. h \in Surjection(Fibre(ka, k), Fibre(kb, k))
    <3>1. h \in [Fibre(ka, k) -> Fibre(kb, k)] BY <1>1, <1>4 DEF Fibre
    <3>2. ASSUME NEW y \in Fibre(kb, k) PROVE \E x \in Fibre(ka, k) : h[x] = y
      <4>1. y \in B /\ kb[y] = k BY DEF Fibre
      <4>2. PICK x \in A : f[x] = y BY <1>8, <4>1 DEF Surjection
      <4>3. x \in Fibre(ka, k) BY <1>4, <4>1, <4>2 DEF Fibre
      <4> QED BY <4>2, <4>3
    <3> QED BY <3>1, <3>2 DEF Surjection
  <2> QED BY <1>1, <2>1, FS_Surjection
<1> QED BY <1>7, <1>8 DEF Dominates

-----------------------------------------------------------------------------
(* The games of an arm, against the quotas of a look.                        *)

Hits(seq, s) == {i \in DOMAIN seq : seq[i] = s}
Count(seq, s) == Cardinality(Hits(seq, s))

\* What an arm has of a stratum is finite.
LEMMA HitsAreFinite ==
  ASSUME NEW X, NEW seq \in Seq(X), NEW s
  PROVE  /\ IsFiniteSet(Hits(seq, s)) /\ Count(seq, s) \in Nat
         /\ IsFiniteSet(DOMAIN seq) /\ Cardinality(DOMAIN seq) = Len(seq) /\ Len(seq) \in Nat
<1>1. DOMAIN seq = 1..Len(seq) /\ Len(seq) \in Nat OBVIOUS
<1>2. IsFiniteSet(1..Len(seq)) /\ Cardinality(1..Len(seq)) = Len(seq) BY <1>1, FS_Interval, SMT
<1>3. Hits(seq, s) \in SUBSET (1..Len(seq)) BY <1>1 DEF Hits
<1> QED BY <1>1, <1>2, <1>3, FS_Subset, FS_CardinalityType DEF Count

Dealer(arm, n) == [k \in 0..(n - 1) |-> StratumAt(arm, k % (Stacks * Seats))]

\* Games dealt in turn make up the quotas of an arm.
LEMMA DealerFacts ==
  ASSUME NEW arm \in Arms, NEW n \in Nat
  PROVE  /\ Dealer(arm, n) \in [0..(n - 1) -> StrataOf(arm)]
         /\ \A s \in StrataOf(arm) : Fibre(Dealer(arm, n), s) = Dealt(n, s)
         /\ IsFiniteSet(0..(n - 1)) /\ Cardinality(0..(n - 1)) = n
<1> DEFINE b == Stacks * Seats
<1>1. b \in Nat \ {0} BY PlaceCount
<1>2. \A k \in 0..(n - 1) : k % b \in Places
  <2> SUFFICES ASSUME NEW k \in 0..(n - 1) PROVE k % b \in Places OBVIOUS
  <2>1. k \in Nat BY SMT
  <2> QED BY <1>1, <2>1, DivMod DEF Places
<1>3. \A k \in 0..(n - 1) : StratumAt(arm, k % b) \in StrataOf(arm) /\ Place(StratumAt(arm, k % b)) = k % b
  BY <1>2, PlaceIsTaken
<1>4. ASSUME NEW s \in StrataOf(arm) PROVE Fibre(Dealer(arm, n), s) = Dealt(n, s)
  <2>1. s \in Strata /\ StratumAt(arm, Place(s)) = s BY PlaceIsKnown DEF StrataOf
  <2>2. \A k \in 0..(n - 1) : StratumAt(arm, k % b) = s <=> k % b = Place(s)
    BY <1>3, <2>1
  <2> QED BY <2>2 DEF Fibre, Dealer, Dealt
<1>5. IsFiniteSet(0..(n - 1)) /\ Cardinality(0..(n - 1)) = n BY FS_Interval, SMT
<1> QED BY <1>3, <1>4, <1>5 DEF Dealer

\* As cardinalities of the games with the same stratum.
LEMMA FibreSizes ==
  ASSUME NEW arm \in Arms, NEW seq \in Seq(StrataOf(arm)), NEW n \in Nat
  PROVE  \A s \in StrataOf(arm) : /\ Cardinality(Fibre(Dealer(arm, n), s)) = target_quotas(n, s)
                                 /\ target_quotas(n, s) \in Nat /\ Count(seq, s) \in Nat
<1> SUFFICES ASSUME NEW s \in StrataOf(arm)
             PROVE  /\ Cardinality(Fibre(Dealer(arm, n), s)) = target_quotas(n, s)
                    /\ target_quotas(n, s) \in Nat /\ Count(seq, s) \in Nat
  OBVIOUS
<1>1. s \in Strata BY DEF StrataOf
<1>2. Fibre(Dealer(arm, n), s) = Dealt(n, s) BY DealerFacts
<1>3. Cardinality(Dealt(n, s)) = target_quotas(n, s) BY <1>1, QuotaIsDealt
<1>4. Count(seq, s) \in Nat BY HitsAreFinite
<1> QED BY <1>1, <1>2, <1>3, <1>4, QuotaIsNat

\* An arm within the quotas of a look has no more games than the look, and all of them
\* only if every quota is met.
LEMMA WithinLook ==
  ASSUME NEW arm \in Arms, NEW seq \in Seq(StrataOf(arm)), NEW n \in Nat,
         \A s \in StrataOf(arm) : Count(seq, s) <= target_quotas(n, s)
  PROVE  /\ Len(seq) <= n
         /\ Len(seq) = n => \A s \in StrataOf(arm) : Count(seq, s) = target_quotas(n, s)
<1>1. seq \in [DOMAIN seq -> StrataOf(arm)] OBVIOUS
<1>2. \A s \in StrataOf(arm) : Cardinality(Fibre(seq, s)) = Count(seq, s) BY DEF Fibre, Hits, Count
<1>3. \A s \in StrataOf(arm) : /\ Cardinality(Fibre(Dealer(arm, n), s)) = target_quotas(n, s)
                               /\ target_quotas(n, s) \in Nat /\ Count(seq, s) \in Nat
  BY FibreSizes
<1>4. Dominates(Dealer(arm, n), seq, StrataOf(arm)) BY <1>2, <1>3 DEF Dominates
<1>5. IsFiniteSet(DOMAIN seq) /\ IsFiniteSet(0..(n - 1)) BY DealerFacts, HitsAreFinite
<1>6. /\ Cardinality(DOMAIN seq) <= Cardinality(0..(n - 1))
      /\ Cardinality(DOMAIN seq) = Cardinality(0..(n - 1)) => Dominates(seq, Dealer(arm, n), StrataOf(arm))
  BY <1>1, <1>4, <1>5, DealerFacts, Fibres
<1>7. Cardinality(DOMAIN seq) = Len(seq) /\ Cardinality(0..(n - 1)) = n
  BY DealerFacts, HitsAreFinite
<1>8. ASSUME Len(seq) = n, NEW s \in StrataOf(arm) PROVE Count(seq, s) = target_quotas(n, s)
  <2>1. Cardinality(Fibre(Dealer(arm, n), s)) <= Cardinality(Fibre(seq, s))
    BY <1>6, <1>7, <1>8 DEF Dominates
  <2>2. Count(seq, s) <= target_quotas(n, s) OBVIOUS
  <2> QED BY <1>2, <1>3, <2>1, <2>2, SMT
<1> QED BY <1>6, <1>7, <1>8

\* An arm that meets the quotas of a look has the games of the look.
LEMMA MeetsLook ==
  ASSUME NEW arm \in Arms, NEW seq \in Seq(StrataOf(arm)), NEW n \in Nat,
         \A s \in StrataOf(arm) : Count(seq, s) >= target_quotas(n, s)
  PROVE  Len(seq) >= n
<1>1. seq \in [DOMAIN seq -> StrataOf(arm)] OBVIOUS
<1>2. \A s \in StrataOf(arm) : Cardinality(Fibre(seq, s)) = Count(seq, s) BY DEF Fibre, Hits, Count
<1>3. \A s \in StrataOf(arm) : /\ Cardinality(Fibre(Dealer(arm, n), s)) = target_quotas(n, s)
                               /\ target_quotas(n, s) \in Nat /\ Count(seq, s) \in Nat
  BY FibreSizes
<1>4. ASSUME NEW s \in StrataOf(arm)
      PROVE  Cardinality(Fibre(Dealer(arm, n), s)) <= Cardinality(Fibre(seq, s))
  <2>1. Count(seq, s) >= target_quotas(n, s) OBVIOUS
  <2> QED BY <1>2, <1>3, <2>1, SMT
<1>5. Dominates(seq, Dealer(arm, n), StrataOf(arm)) BY <1>4 DEF Dominates
<1>6. Cardinality(0..(n - 1)) <= Cardinality(DOMAIN seq)
  BY <1>1, <1>5, DealerFacts, HitsAreFinite, Fibres
<1> QED BY <1>6, DealerFacts, HitsAreFinite

-----------------------------------------------------------------------------
(* The looks.                                                                *)

\* A ledger has games of each arm's strata.
LedgerOK(led) ==
    /\ led \in [Arms -> Seq(Strata)]
    /\ \A arm \in Arms : led[arm] \in Seq(StrataOf(arm))

\* The games of a stratum, and the looks that miss none.
Score(led, s) == Count(led[s.arm], s)
Complete(led, i) == \A s \in Strata : Score(led, s) >= target_quotas(Looks[i], s)

\* The first looks are complete, as many as the ledger has the games of.
Stage(led, n) ==
    /\ n \in 0..Len(Looks) /\ current_look(led) = n
    /\ \A i \in DOMAIN Looks : Complete(led, i) <=> i <= n

\* The look in progress, or the last one if the gate is decided.
StageLook(n, iv) == IF n = 0 \/ (n < Len(Looks) /\ iv[n] = "spans") THEN n + 1 ELSE n

\* The looks are positive and increasing.
LEMMA LooksFacts ==
  /\ Len(Looks) \in Nat \ {0} /\ DOMAIN Looks = 1..Len(Looks)
  /\ \A i \in DOMAIN Looks : Looks[i] \in Nat \ {0}
  /\ \A i, j \in DOMAIN Looks : i <= j => Looks[i] <= Looks[j]
  /\ \A i, j \in DOMAIN Looks : i < j => Looks[i] < Looks[j]
<1>1. Looks \in Seq(Nat \ {0}) /\ Looks # <<>> /\ \A i, j \in DOMAIN Looks : i < j => Looks[i] < Looks[j]
  BY QuotasAssumption
<1>2. Len(Looks) \in Nat \ {0} /\ DOMAIN Looks = 1..Len(Looks)
      /\ \A i \in DOMAIN Looks : Looks[i] \in Nat \ {0}
  BY <1>1
<1>3. ASSUME NEW i \in DOMAIN Looks, NEW j \in DOMAIN Looks, i <= j PROVE Looks[i] <= Looks[j]
  <2>1. i \in Nat /\ j \in Nat BY <1>2, SMT
  <2>2. CASE i = j BY <1>2, <2>2, SMT
  <2>3. CASE i < j BY <1>1, <1>2, <2>3, SMT
  <2> QED BY <1>3, <2>1, <2>2, <2>3, SMT
<1> QED BY <1>1, <1>2, <1>3

\* A stratum is one of its arm.
LEMMA StratumKnown ==
  ASSUME NEW s \in Strata
  PROVE  s.arm \in Arms /\ s \in StrataOf(s.arm)
BY DEF Strata, StrataOf

\* A score is a natural number.
LEMMA ScoreIsNat ==
  ASSUME NEW led, LedgerOK(led), NEW s \in Strata
  PROVE  Score(led, s) \in Nat
BY StratumKnown, HitsAreFinite DEF LedgerOK, Score

\* observed_counts without reservations is the score of a stratum.
LEMMA ObservedPlain ==
  ASSUME NEW led, LedgerOK(led), NEW s \in Strata
  PROVE  observed_counts(led, NothingReserved, s) = Score(led, s)
<1>1. {t \in DOMAIN NothingReserved : NothingReserved[t].primary /\ Stratum(NothingReserved[t]) = s} = {}
  BY DEF NothingReserved
<1>2. Cardinality({}) = 0 BY FS_EmptySet
<1>3. Cardinality({i \in DOMAIN led[s.arm] : led[s.arm][i] = s}) = Score(led, s)
  BY DEF Score, Count, Hits
<1>4. Score(led, s) \in Nat BY ScoreIsNat
<1> QED BY <1>1, <1>2, <1>3, <1>4 DEF observed_counts

\* quota_status: a look is reached where no stratum misses a game.
LEMMA StatusIsComplete ==
  ASSUME NEW led, LedgerOK(led), NEW i \in DOMAIN Looks
  PROVE  quota_status(led, Looks[i]) <=> Complete(led, i)
<1>1. \A s \in Strata : /\ observed_counts(led, NothingReserved, s) = Score(led, s)
                        /\ Score(led, s) \in Nat /\ target_quotas(Looks[i], s) \in Nat
  BY ObservedPlain, ScoreIsNat, QuotaIsNat, LooksFacts
<1>2. \A s \in Strata : ~(Score(led, s) < target_quotas(Looks[i], s)) <=> Score(led, s) >= target_quotas(Looks[i], s)
  BY <1>1, SMT
<1> QED BY <1>1, <1>2 DEF quota_status, Underfilled, Complete

\* A complete look makes the earlier ones complete.
LEMMA CompleteEarlier ==
  ASSUME NEW led, LedgerOK(led), NEW i \in DOMAIN Looks, NEW j \in DOMAIN Looks, i <= j, Complete(led, j)
  PROVE  Complete(led, i)
<1> SUFFICES ASSUME NEW s \in Strata PROVE Score(led, s) >= target_quotas(Looks[i], s) BY DEF Complete
<1>1. Looks[i] \in Nat /\ Looks[j] \in Nat /\ Looks[i] <= Looks[j] BY LooksFacts
<1>2. target_quotas(Looks[i], s) <= target_quotas(Looks[j], s) BY <1>1, QuotaGrows
<1>3. Score(led, s) >= target_quotas(Looks[j], s) BY DEF Complete
<1> QED BY <1>1, <1>2, <1>3, QuotaIsNat, ScoreIsNat, SMT

\* A complete look has its games, of each arm.
LEMMA CompleteHasGames ==
  ASSUME NEW led, LedgerOK(led), NEW i \in DOMAIN Looks, Complete(led, i), NEW arm \in Arms
  PROVE  Len(led[arm]) >= Looks[i]
<1>1. led[arm] \in Seq(StrataOf(arm)) /\ Looks[i] \in Nat BY LooksFacts DEF LedgerOK
<1>2. \A s \in StrataOf(arm) : Count(led[arm], s) >= target_quotas(Looks[i], s)
  BY DEF Complete, Score, StrataOf
<1> QED BY <1>1, <1>2, MeetsLook

\* No stratum has more than the look wants.
Within(led, i) == \A s \in Strata : Score(led, s) <= target_quotas(Looks[i], s)

\* An arm within a look has no more games than the look, and with all of them each
\* quota is met.
LEMMA WithinHasNoMore ==
  ASSUME NEW led, LedgerOK(led), NEW i \in DOMAIN Looks, Within(led, i), NEW arm \in Arms
  PROVE  /\ Len(led[arm]) <= Looks[i]
         /\ Len(led[arm]) = Looks[i] =>
                \A s \in StrataOf(arm) : Count(led[arm], s) = target_quotas(Looks[i], s)
<1>1. led[arm] \in Seq(StrataOf(arm)) /\ Looks[i] \in Nat BY LooksFacts DEF LedgerOK
<1>2. \A s \in StrataOf(arm) : Count(led[arm], s) <= target_quotas(Looks[i], s)
  BY DEF Within, Score, StrataOf
<1> QED BY <1>1, <1>2, WithinLook

\* Within a look that is not complete, an arm still has fewer games than the look.
LEMMA WithinIncomplete ==
  ASSUME NEW led, LedgerOK(led), NEW i \in DOMAIN Looks, Within(led, i), ~Complete(led, i)
  PROVE  \E arm \in Arms : Len(led[arm]) < Looks[i]
<1> SUFFICES ASSUME \A arm \in Arms : ~(Len(led[arm]) < Looks[i]) PROVE FALSE OBVIOUS
<1>1. Looks[i] \in Nat /\ \A arm \in Arms : Len(led[arm]) \in Nat BY LooksFacts DEF LedgerOK
<1>2. \A arm \in Arms : Len(led[arm]) = Looks[i] BY <1>1, WithinHasNoMore, SMT
<1>3. \A s \in Strata : Score(led, s) = target_quotas(Looks[i], s)
  BY <1>2, WithinHasNoMore, StratumKnown DEF Score
<1>4. Complete(led, i) BY <1>1, <1>3, ScoreIsNat, SMT DEF Complete
<1> QED BY <1>4

\* The greatest element is the maximum.
LEMMA MaxIsGreatest ==
  ASSUME NEW X \in SUBSET Nat, NEW x \in X, \A y \in X : y <= x
  PROVE  Max(X) = x
<1>1. \E y \in X : \A z \in X : y >= z BY SMT
<1>2. Max(X) \in X /\ \A z \in X : Max(X) >= z BY <1>1 DEF Max
<1>3. Max(X) >= x /\ Max(X) <= x /\ Max(X) \in Nat /\ x \in Nat BY <1>2
<1> QED BY <1>3, SMT

\* The least element is the minimum.
LEMMA MinIsLeast ==
  ASSUME NEW X \in SUBSET Nat, NEW x \in X, \A y \in X : x <= y
  PROVE  Min(X) = x
<1>1. \E y \in X : \A z \in X : y <= z OBVIOUS
<1>2. Min(X) \in X /\ \A z \in X : Min(X) <= z BY <1>1 DEF Min
<1>3. Min(X) >= x /\ Min(X) <= x /\ Min(X) \in Nat /\ x \in Nat BY <1>2
<1> QED BY <1>3, SMT

\* current_look: the last look both arms have the games of.
LEMMA CurrentLook ==
  ASSUME NEW led, LedgerOK(led), NEW n \in 0..Len(Looks),
         \A arm \in Arms : n > 0 => Len(led[arm]) >= Looks[n],
         n < Len(Looks) => \E arm \in Arms : Len(led[arm]) < Looks[n + 1]
  PROVE  current_look(led) = n
<1> DEFINE Has(i) == \A arm \in Arms : Len(led[arm]) >= Looks[i]
           X == {0} \cup {i \in DOMAIN Looks : Has(i)}
<1>1. /\ DOMAIN Looks = 1..Len(Looks) /\ Len(Looks) \in Nat /\ n \in Nat
      /\ \A i \in DOMAIN Looks : Looks[i] \in Nat
      /\ \A arm \in Arms : Len(led[arm]) \in Nat
  BY LooksFacts, SMT DEF LedgerOK
<1>2. X \in SUBSET Nat BY <1>1, SMT
<1>3. n \in X BY <1>1, SMT
<1>4. ASSUME NEW i \in DOMAIN Looks, Has(i) PROVE i <= n
  <2> SUFFICES ASSUME n < i PROVE FALSE BY <1>1, SMT
  <2>1. n < Len(Looks) /\ n + 1 \in DOMAIN Looks /\ n + 1 <= i BY <1>1, SMT
  <2>2. PICK arm \in Arms : Len(led[arm]) < Looks[n + 1] BY <2>1
  <2>3. Looks[n + 1] <= Looks[i] BY <2>1, LooksFacts
  <2>4. Len(led[arm]) >= Looks[i] BY <1>4
  <2> QED BY <1>1, <2>1, <2>2, <2>3, <2>4, SMT
<1>5. \A y \in X : y <= n BY <1>1, <1>4, SMT
<1>6. current_look(led) = Max(X) BY DEF current_look
<1> HIDE DEF X
<1> QED BY <1>2, <1>3, <1>5, <1>6, MaxIsGreatest

\* Within a look whose predecessors are complete, the gate is at this look or at the
\* one before.
LEMMA StageExists ==
  ASSUME NEW led, LedgerOK(led), NEW l \in DOMAIN Looks, Within(led, l),
         \A i \in DOMAIN Looks : i < l => Complete(led, i)
  PROVE  IF Complete(led, l) THEN Stage(led, l) ELSE Stage(led, l - 1)
<1>1. /\ DOMAIN Looks = 1..Len(Looks) /\ Len(Looks) \in Nat /\ l \in Nat /\ l >= 1
      /\ \A i \in DOMAIN Looks : Looks[i] \in Nat
      /\ \A arm \in Arms : Len(led[arm]) \in Nat
  BY LooksFacts, SMT DEF LedgerOK
<1>2. CASE Complete(led, l)
  <2>1. \A arm \in Arms : Len(led[arm]) = Looks[l]
    BY <1>1, <1>2, CompleteHasGames, WithinHasNoMore, SMT
  <2>2. l < Len(Looks) => l + 1 \in DOMAIN Looks /\ Looks[l] < Looks[l + 1]
    BY <1>1, LooksFacts, SMT
  <2>3. "B0" \in Arms BY DEF Arms
  <2>4. current_look(led) = l
    <3>1. l \in 0..Len(Looks) BY <1>1, SMT
    <3>2. \A arm \in Arms : l > 0 => Len(led[arm]) >= Looks[l] BY <1>1, <2>1, SMT
    <3>3. l < Len(Looks) => \E arm \in Arms : Len(led[arm]) < Looks[l + 1] BY <2>1, <2>2, <2>3
    <3> QED BY <3>1, <3>2, <3>3, CurrentLook
  <2>5. ASSUME NEW i \in DOMAIN Looks, Complete(led, i) PROVE i <= l
    <3> SUFFICES ASSUME l < i PROVE FALSE BY <1>1, SMT
    <3>1. Looks[l] < Looks[i] BY LooksFacts
    <3>2. Len(led["B0"]) >= Looks[i] BY <2>3, <2>5, CompleteHasGames
    <3> QED BY <1>1, <2>1, <2>3, <3>1, <3>2, SMT
  <2>6. \A i \in DOMAIN Looks : i <= l => Complete(led, i) BY <1>2, CompleteEarlier
  <2> QED BY <1>1, <1>2, <2>4, <2>5, <2>6, SMT DEF Stage
<1>3. CASE ~Complete(led, l)
  <2>1. \E arm \in Arms : Len(led[arm]) < Looks[l] BY <1>3, WithinIncomplete
  <2>2. l - 1 > 0 => l - 1 \in DOMAIN Looks /\ Complete(led, l - 1) BY <1>1, SMT
  <2>3. current_look(led) = l - 1
    <3>1. l - 1 \in 0..Len(Looks) /\ (l - 1) + 1 = l BY <1>1, SMT
    <3>2. \A arm \in Arms : l - 1 > 0 => Len(led[arm]) >= Looks[l - 1] BY <2>2, CompleteHasGames
    <3> QED BY <2>1, <3>1, <3>2, CurrentLook
  <2>4. \A i \in DOMAIN Looks : l <= i => ~Complete(led, i) BY <1>3, CompleteEarlier
  <2> QED BY <1>1, <1>3, <2>3, <2>4, SMT DEF Stage
<1> QED BY <1>2, <1>3

\* current_target: the look in progress, and nothing once the gate is decided.
LEMMA TargetOf ==
  ASSUME NEW led, LedgerOK(led), NEW n, Stage(led, n), NEW iv \in Intervals
  PROVE  /\ StageLook(n, iv) \in DOMAIN Looks /\ StageLook(n, iv) \in {n, n + 1}
         /\ current_target(led, iv) = IF StageLook(n, iv) = n THEN 0 ELSE Looks[n + 1]
<1> DEFINE N == Len(Looks)
<1>1. DOMAIN Looks = 1..N /\ N \in Nat \ {0} /\ n \in Nat /\ n <= N
  BY LooksFacts, SMT DEF Stage
<1>2. N = Len(Looks) OBVIOUS
<1> HIDE DEF N
<1>3. n = N <=> ~(n < N) BY <1>1, SMT
<1>4. Incomplete(led) = {i \in 1..N : n < i}
  <2>1. \A i \in DOMAIN Looks : ~quota_status(led, Looks[i]) <=> ~(i <= n)
    BY StatusIsComplete DEF Stage
  <2> QED BY <1>1, <2>1, SMT DEF Incomplete
<1>5. 1 \in Incomplete(led) <=> n = 0 BY <1>1, <1>4, SMT
<1>6. Incomplete(led) = {} <=> n = N
  <2>1. n < N => n + 1 \in Incomplete(led) BY <1>1, <1>4, SMT
  <2>2. n = N => \A i \in 1..N : ~(n < i) BY <1>1, SMT
  <2> QED BY <1>3, <1>4, <2>1, <2>2
<1>7. n < N => Min(Incomplete(led)) = n + 1
  <2> SUFFICES ASSUME n < N PROVE Min(Incomplete(led)) = n + 1 OBVIOUS
  <2>1. Incomplete(led) \in SUBSET Nat /\ n + 1 \in Incomplete(led)
        /\ \A y \in Incomplete(led) : n + 1 <= y
    BY <1>1, <1>4, SMT
  <2> QED BY <2>1, MinIsLeast
<1>8. current_look(led) = n BY DEF Stage
<1>9. n # 0 => iv[n] \in {"above", "below", "spans"} BY <1>1, SMT DEF Intervals
<1>10. n # 0 => (decide_external_gate(led, iv) = "CONTINUE" <=> n < N /\ iv[n] = "spans")
  <2>1. n # 0 => n > 0 BY <1>1, SMT
  <2>2. n # N <=> n < N BY <1>1, SMT
  <2> QED BY <1>8, <1>9, <2>1, <2>2, SMT, <1>2 DEF decide_external_gate
<1>11. n + 1 # n BY <1>1, SMT
<1>12. CASE n = 0
  <2>1. current_target(led, iv) = Looks[1] BY <1>5, <1>12 DEF current_target
  <2>2. StageLook(n, iv) = 1 /\ n + 1 = 1 BY <1>12, SMT DEF StageLook, N
  <2> QED BY <1>1, <1>11, <1>12, <2>1, <2>2, SMT
<1>13. CASE n # 0 /\ n < N /\ iv[n] = "spans"
  <2>1. current_target(led, iv) = Looks[n + 1]
    <3>1. n # N /\ Min(Incomplete(led)) = n + 1 BY <1>3, <1>7, <1>13
    <3> QED BY <3>1, <1>5, <1>6, <1>10, <1>13 DEF current_target
  <2>2. StageLook(n, iv) = n + 1 BY <1>13 DEF StageLook, N
  <2> QED BY <1>1, <1>11, <1>13, <2>1, <2>2, SMT
<1>14. CASE n # 0 /\ ~(n < N /\ iv[n] = "spans")
  <2>1. current_target(led, iv) = 0 BY <1>5, <1>10, <1>14 DEF current_target
  <2>2. StageLook(n, iv) = n BY <1>14 DEF StageLook, N
  <2> QED BY <1>1, <1>14, <2>1, <2>2, SMT
<1> QED BY <1>12, <1>13, <1>14

-----------------------------------------------------------------------------
(* The invariant of a ledger with games in flight.                           *)

\* The first games of an arm are the quotas of the look.
Prefixes(led) ==
    \A i \in DOMAIN Looks, arm \in Arms : Len(led[arm]) >= Looks[i] =>
        \A s \in StrataOf(arm) : Count(SubSeq(led[arm], 1, Looks[i]), s) = target_quotas(Looks[i], s)

\* How many games in flight count for a stratum.
Held(res, s) == Cardinality({t \in DOMAIN res : res[t].primary /\ Stratum(res[t]) = s})

\* With the games in flight no stratum has more than the look wants.
InQuota(led, res, i) ==
    \A s \in Strata : Score(led, s) + Held(res, s) <= target_quotas(Looks[i], s)

\* The invariant: the ledger is at some look, and within the one in progress.
QuotaInv(led, res, iv) ==
    /\ LedgerOK(led) /\ Prefixes(led)
    /\ \E n \in 0..Len(Looks) : Stage(led, n) /\ InQuota(led, res, StageLook(n, iv))

\* observed_counts: the score, and the games in flight.
LEMMA ObservedIs ==
  ASSUME NEW led, NEW res, NEW s
  PROVE  observed_counts(led, res, s) = Score(led, s) + Held(res, s)
BY DEF observed_counts, Score, Count, Hits, Held

\* The number of games in flight is a natural number.
LEMMA HeldIsNat ==
  ASSUME NEW res, IsFiniteSet(DOMAIN res), NEW s
  PROVE  Held(res, s) \in Nat
<1>1. {t \in DOMAIN res : res[t].primary /\ Stratum(res[t]) = s} \in SUBSET DOMAIN res OBVIOUS
<1> QED BY <1>1, FS_Subset, FS_CardinalityType DEF Held

\* The games selected for a look are a prefix of the arm's.
LEMMA SelectedCounts ==
  ASSUME NEW led, LedgerOK(led), NEW i \in DOMAIN Looks, NEW s \in Strata,
         Len(led[s.arm]) >= Looks[i]
  PROVE  observed_counts(Selected(led, i), NothingReserved, s) = Count(SubSeq(led[s.arm], 1, Looks[i]), s)
<1>1. s.arm \in Arms BY StratumKnown
<1>2. Selected(led, i)[s.arm] = SubSeq(led[s.arm], 1, Looks[i]) BY <1>1 DEF Selected
<1>3. Score(Selected(led, i), s) = Count(SubSeq(led[s.arm], 1, Looks[i]), s) BY <1>2 DEF Score
<1>4. Held(NothingReserved, s) = 0
  <2>1. {t \in DOMAIN NothingReserved : NothingReserved[t].primary /\ Stratum(NothingReserved[t]) = s} = {}
    BY DEF NothingReserved
  <2> QED BY <2>1, FS_EmptySet DEF Held
<1>5. Count(SubSeq(led[s.arm], 1, Looks[i]), s) \in Nat
  <2>1. /\ led[s.arm] \in Seq(Strata) /\ Len(led[s.arm]) \in Nat /\ Looks[i] \in Nat
    BY <1>1, LooksFacts DEF LedgerOK
  <2>2. SubSeq(led[s.arm], 1, Looks[i]) \in Seq(Strata)
    BY <2>1, SubSeqProperties, SMT
  <2> QED BY <2>2, HitsAreFinite
<1> QED BY <1>3, <1>4, <1>5, ObservedIs, SMT

\* Balanced follows from the invariant of the ledger, for any games in flight.
LEMMA BalancedHolds ==
  ASSUME NEW led, NEW res, NEW iv \in Intervals, QuotaInv(led, res, iv)
  PROVE  Balanced(led, res, iv)
<1>1. PICK n \in 0..Len(Looks) : Stage(led, n) /\ InQuota(led, res, StageLook(n, iv))
  BY DEF QuotaInv
<1>2. LedgerOK(led) /\ Prefixes(led) BY DEF QuotaInv
<1>3. current_look(led) = n BY <1>1 DEF Stage
<1>4. DOMAIN Looks = 1..Len(Looks) /\ Len(Looks) \in Nat /\ n \in Nat BY LooksFacts, SMT
<1>5. ASSUME NEW i \in 1..n, NEW s \in Strata
      PROVE  observed_counts(Selected(led, i), NothingReserved, s) = target_quotas(Looks[i], s)
  <2>1. i \in DOMAIN Looks /\ i <= n BY <1>4, SMT
  <2>2. Complete(led, i) BY <1>1, <2>1 DEF Stage
  <2>3. s.arm \in Arms /\ s \in StrataOf(s.arm) BY StratumKnown
  <2>4. Len(led[s.arm]) >= Looks[i] BY <1>2, <2>1, <2>2, <2>3, CompleteHasGames
  <2>5. Count(SubSeq(led[s.arm], 1, Looks[i]), s) = target_quotas(Looks[i], s)
    BY <1>2, <2>1, <2>3, <2>4 DEF Prefixes
  <2> QED BY <1>2, <2>1, <2>4, <2>5, SelectedCounts
<1> DEFINE t == current_target(led, iv)
           limit == IF t = 0 THEN Looks[current_look(led)] ELSE t
<1>6. limit = Looks[StageLook(n, iv)]
  <2>1. /\ StageLook(n, iv) \in DOMAIN Looks /\ StageLook(n, iv) \in {n, n + 1}
        /\ t = IF StageLook(n, iv) = n THEN 0 ELSE Looks[n + 1]
    BY <1>1, <1>2, TargetOf
  <2>2. Looks[StageLook(n, iv)] # 0 BY <2>1, LooksFacts
  <2> QED BY <1>3, <2>1, <2>2
<1>7. \A s \in Strata : observed_counts(led, res, s) <= target_quotas(limit, s)
  BY <1>1, <1>6, ObservedIs DEF InQuota
<1> QED BY <1>3, <1>5, <1>7 DEF Balanced

-----------------------------------------------------------------------------
(* A game is scored.                                                         *)

\* append adds one game to one stratum.
LEMMA ScoreAppend ==
  ASSUME NEW led, LedgerOK(led), NEW s \in Strata
  PROVE  /\ LedgerOK(append(led, s))
         /\ \A u \in Strata : Score(append(led, s), u) = Score(led, u) + (IF u = s THEN 1 ELSE 0)
<1> DEFINE new == append(led, s)
           old == led[s.arm]
<1>1. s.arm \in Arms /\ s \in StrataOf(s.arm) BY StratumKnown
<1>2. new = [led EXCEPT ![s.arm] = Append(old, s)] BY DEF append
<1>3. led \in [Arms -> Seq(Strata)] /\ \A arm \in Arms : led[arm] \in Seq(StrataOf(arm))
  BY DEF LedgerOK
<1>4. Append(old, s) \in Seq(Strata) /\ Append(old, s) \in Seq(StrataOf(s.arm)) BY <1>1, <1>3
<1>5. new \in [Arms -> Seq(Strata)] BY <1>2, <1>3, <1>4
<1>6. /\ new[s.arm] = Append(old, s)
      /\ \A arm \in Arms : arm # s.arm => new[arm] = led[arm]
  BY <1>1, <1>2, <1>3
<1>7. \A arm \in Arms : new[arm] \in Seq(StrataOf(arm)) BY <1>3, <1>4, <1>6
<1>8. ASSUME NEW u \in Strata
      PROVE  Score(new, u) = Score(led, u) + (IF u = s THEN 1 ELSE 0)
  <2>1. u.arm \in Arms BY StratumKnown
  <2>2. Score(led, u) \in Nat BY ScoreIsNat
  <2>3. CASE u.arm # s.arm
    <3>1. Score(new, u) = Score(led, u) /\ u # s BY <1>6, <2>1, <2>3 DEF Score
    <3> QED BY <2>2, <3>1, SMT
  <2>4. CASE u.arm = s.arm
    <3> DEFINE k == Len(old)
    <3>1. old \in Seq(Strata) /\ k \in Nat /\ DOMAIN old = 1..k BY <1>1, <1>3
    <3>2. /\ DOMAIN Append(old, s) = 1..(k + 1) /\ Append(old, s)[k + 1] = s
          /\ \A i \in 1..k : Append(old, s)[i] = old[i]
      BY <3>1, AppendProperties
    <3> HIDE DEF k, old
    <3>3. 1..(k + 1) = (1..k) \cup {k + 1} /\ k + 1 \notin 1..k BY <3>1, SMT
    <3>4. IsFiniteSet(Hits(old, u)) BY <3>1, HitsAreFinite
    <3>5. Score(led, u) = Count(old, u) BY <2>4 DEF Score, old
    <3>6. Score(new, u) = Count(Append(old, s), u) BY <1>6, <2>4 DEF Score
    <3>7. CASE u = s
      <4>1. Hits(Append(old, s), u) = Hits(old, u) \cup {k + 1}
        BY <3>1, <3>2, <3>3, <3>7 DEF Hits
      <4>2. k + 1 \notin Hits(old, u) BY <3>1, <3>3 DEF Hits
      <4>3. Count(Append(old, s), u) = Count(old, u) + 1
        BY <3>4, <4>1, <4>2, FS_AddElement DEF Count
      <4> QED BY <3>5, <3>6, <3>7, <4>3
    <3>8. CASE u # s
      <4>1. Hits(Append(old, s), u) = Hits(old, u)
        BY <3>1, <3>2, <3>3, <3>8 DEF Hits
      <4>2. Score(new, u) = Score(led, u) BY <3>5, <3>6, <4>1 DEF Count
      <4> QED BY <2>2, <3>8, <4>2, SMT
    <3> QED BY <3>7, <3>8
  <2> QED BY <2>3, <2>4
<1> QED BY <1>5, <1>7, <1>8 DEF LedgerOK

\* Before its last look an arm has the games of the looks that are complete, and a game
\* more never takes it beyond the look in progress.
LEMMA PrefixesKept ==
  ASSUME NEW led, LedgerOK(led), Prefixes(led), NEW s \in Strata, NEW l \in DOMAIN Looks,
         \A i \in DOMAIN Looks : i < l => Complete(led, i),
         Within(append(led, s), l)
  PROVE  Prefixes(append(led, s))
<1> DEFINE new == append(led, s)
           old == led[s.arm]
           k == Len(old)
<1>1. LedgerOK(new) BY ScoreAppend
<1>2. s.arm \in Arms /\ s \in StrataOf(s.arm) BY StratumKnown
<1>3. /\ led[s.arm] \in Seq(StrataOf(s.arm)) /\ led \in [Arms -> Seq(Strata)]
  BY <1>2 DEF LedgerOK
<1>4. new[s.arm] = Append(old, s) /\ \A arm \in Arms : arm # s.arm => new[arm] = led[arm]
  BY <1>2, <1>3 DEF append
<1>5. k \in Nat /\ Len(Append(old, s)) = k + 1 BY <1>2, <1>3
<1>6. \A i \in DOMAIN Looks : i \in Nat /\ Looks[i] \in Nat \ {0} /\ (i < l => Looks[i] < Looks[l])
  BY LooksFacts, SMT
<1> SUFFICES ASSUME NEW i \in DOMAIN Looks, NEW arm \in Arms, Len(new[arm]) >= Looks[i],
                    NEW u \in StrataOf(arm)
             PROVE  Count(SubSeq(new[arm], 1, Looks[i]), u) = target_quotas(Looks[i], u)
  BY DEF Prefixes
<1>7. CASE arm # s.arm BY <1>4, <1>7 DEF Prefixes
<1>8. CASE arm = s.arm /\ Looks[i] <= k
  <2>1. SubSeq(Append(old, s), 1, Looks[i]) = SubSeq(old, 1, Looks[i])
    <3> DEFINE n == Looks[i]
    <3>1. n \in Nat /\ n <= k BY <1>6, <1>8
    <3>2. old \in Seq(StrataOf(s.arm)) BY <1>3
    <3> HIDE DEF n, old, k
    <3>3. old = old /\ Len(old) \in Nat /\ n <= Len(old) BY <3>1, <3>2 DEF k
    <3>4. \A j \in 1..n : Append(old, s)[j] = old[j]
      BY <3>1, <3>2, <3>3, AppendProperties, SMT
    <3>5. SubSeq(old, 1, n) = [j \in 1..n |-> old[j]]
      BY <3>1, <3>2, <3>3, SMT
    <3>6. SubSeq(Append(old, s), 1, n) = [j \in 1..n |-> Append(old, s)[j]]
      BY <3>1, <3>2, <3>3, SMT
    <3> QED BY <3>4, <3>5, <3>6 DEF n
  <2>2. Len(led[arm]) >= Looks[i] BY <1>5, <1>6, <1>8, SMT
  <2>3. Count(SubSeq(led[arm], 1, Looks[i]), u) = target_quotas(Looks[i], u)
    BY <2>2 DEF Prefixes
  <2>4. SubSeq(new[arm], 1, Looks[i]) = SubSeq(led[arm], 1, Looks[i])
    BY <1>4, <1>8, <2>1
  <2> HIDE DEF new, old, k
  <2> QED BY <2>3, <2>4
<1>9. CASE arm = s.arm /\ ~(Looks[i] <= k)
  <2>1. Looks[i] = k + 1 /\ Len(new[arm]) = k + 1 BY <1>4, <1>5, <1>6, <1>9, SMT
  <2>2. k + 1 <= Looks[l] BY <1>1, <2>1, WithinHasNoMore
  <2>3. i <= l
    <3> SUFFICES ASSUME l < i PROVE FALSE BY <1>6, SMT
    <3>1. Looks[l] < Looks[i] BY LooksFacts
    <3> QED BY <1>5, <1>6, <2>1, <2>2, <3>1, SMT
  <2>4. ~(i < l)
    <3> SUFFICES ASSUME i < l PROVE FALSE OBVIOUS
    <3>1. Len(led[s.arm]) >= Looks[i] BY <1>2, CompleteHasGames
    <3> QED BY <1>5, <1>6, <2>1, <3>1, SMT
  <2>5. i = l BY <1>6, <2>3, <2>4, SMT
  <2>6. Count(new[arm], u) = target_quotas(Looks[i], u)
    BY <1>1, <2>1, <2>5, WithinHasNoMore
  <2>7. new[arm] \in Seq(Strata) BY <1>1 DEF LedgerOK
  <2>8. SubSeq(new[arm], 1, Looks[i]) = new[arm]
    BY <2>1, <2>7, SubSeqFull
  <2> QED BY <2>6, <2>8
<1> QED BY <1>7, <1>8, <1>9

\* A ledger that stays within the look in progress once its game is in it.
LEMMA LedgerScored ==
  ASSUME NEW led, NEW res, NEW res2, NEW iv \in Intervals, NEW s \in Strata,
         IsFiniteSet(DOMAIN res), IsFiniteSet(DOMAIN res2), QuotaInv(led, res, iv),
         Held(res2, s) + 1 <= Held(res, s), \A u \in Strata : Held(res2, u) <= Held(res, u)
  PROVE  QuotaInv(append(led, s), res2, iv)
<1>1. PICK n \in 0..Len(Looks) : Stage(led, n) /\ InQuota(led, res, StageLook(n, iv))
  BY DEF QuotaInv
<1> DEFINE new == append(led, s)
           l == StageLook(n, iv)
<1>2. LedgerOK(led) /\ Prefixes(led) BY DEF QuotaInv
<1>3. l \in DOMAIN Looks /\ l \in {n, n + 1} BY <1>1, <1>2, TargetOf
<1>4. /\ LedgerOK(new)
      /\ \A u \in Strata : Score(new, u) = Score(led, u) + (IF u = s THEN 1 ELSE 0)
  BY <1>2, ScoreAppend
<1>5. \A u \in Strata : /\ Score(led, u) \in Nat /\ Score(new, u) \in Nat
                        /\ Held(res, u) \in Nat /\ Held(res2, u) \in Nat
  BY <1>2, <1>4, ScoreIsNat, HeldIsNat
<1>6. /\ DOMAIN Looks = 1..Len(Looks) /\ Len(Looks) \in Nat /\ n \in Nat /\ l \in Nat
      /\ \A i \in DOMAIN Looks : Looks[i] \in Nat /\ i \in Nat
  BY <1>3, LooksFacts, SMT
<1>7. \A i \in DOMAIN Looks, u \in Strata : target_quotas(Looks[i], u) \in Nat
  BY <1>6, QuotaIsNat
<1> HIDE DEF new, l
<1>8. ASSUME NEW i \in DOMAIN Looks, Complete(led, i) PROVE Complete(new, i)
  BY <1>4, <1>5, <1>7, <1>8, SMT DEF Complete
<1>9. \A i \in DOMAIN Looks : i < l => Complete(led, i) BY <1>1, <1>3, <1>6, SMT DEF Stage
<1>10. ASSUME NEW u \in Strata
       PROVE  Score(new, u) + Held(res2, u) <= target_quotas(Looks[l], u)
  <2>1. Score(led, u) + Held(res, u) <= target_quotas(Looks[l], u) BY <1>1 DEF InQuota, l
  <2>2. CASE u = s BY <1>3, <1>4, <1>5, <1>7, <2>1, <2>2, SMT
  <2>3. CASE u # s BY <1>3, <1>4, <1>5, <1>7, <2>1, <2>3, SMT
  <2> QED BY <2>2, <2>3
<1>11. Within(new, l) BY <1>3, <1>5, <1>7, <1>10, SMT DEF Within
<1>12. Prefixes(new) BY <1>2, <1>3, <1>9, <1>11, PrefixesKept DEF new
<1> DEFINE m == IF Complete(new, l) THEN l ELSE l - 1
<1>13. Stage(new, m)
  <2>1. \A i \in DOMAIN Looks : i < l => Complete(new, i) BY <1>8, <1>9
  <2> QED BY <1>3, <1>4, <1>11, <2>1, StageExists
<1>14. StageLook(m, iv) \in DOMAIN Looks /\ StageLook(m, iv) \in {m, m + 1}
  BY <1>4, <1>13, TargetOf
<1>15. l <= StageLook(m, iv)
  <2>1. CASE Complete(new, l) BY <1>6, <1>14, <2>1, SMT
  <2>2. CASE ~Complete(new, l)
    <3>1. l # n
      <4> SUFFICES ASSUME l = n PROVE FALSE OBVIOUS
      <4>1. Complete(led, l) BY <1>1, <1>3, <1>6, SMT DEF Stage
      <4> QED BY <1>3, <1>8, <2>2, <4>1
    <3>2. m = n BY <1>3, <1>6, <2>2, <3>1, SMT
    <3> QED BY <1>6, <3>2 DEF l
  <2> QED BY <2>1, <2>2
<1>16. InQuota(new, res2, StageLook(m, iv))
  <2> SUFFICES ASSUME NEW u \in Strata
               PROVE  Score(new, u) + Held(res2, u) <= target_quotas(Looks[StageLook(m, iv)], u)
    BY DEF InQuota
  <2>1. Looks[l] <= Looks[StageLook(m, iv)] BY <1>3, <1>14, <1>15, LooksFacts
  <2>2. target_quotas(Looks[l], u) <= target_quotas(Looks[StageLook(m, iv)], u)
    BY <1>3, <1>6, <1>14, <2>1, QuotaGrows
  <2> HIDE DEF m
  <2> QED BY <1>3, <1>5, <1>7, <1>10, <1>14, <2>2, SMT
<1>17. m \in 0..Len(Looks) BY <1>13 DEF Stage
<1> HIDE DEF m
<1> QED BY <1>4, <1>12, <1>13, <1>16, <1>17 DEF QuotaInv, new

\* Games in flight that are no more than before.
LEMMA LedgerReleased ==
  ASSUME NEW led, NEW res, NEW res2, NEW iv \in Intervals,
         IsFiniteSet(DOMAIN res), IsFiniteSet(DOMAIN res2), QuotaInv(led, res, iv),
         \A u \in Strata : Held(res2, u) <= Held(res, u)
  PROVE  QuotaInv(led, res2, iv)
<1>1. PICK n \in 0..Len(Looks) : Stage(led, n) /\ InQuota(led, res, StageLook(n, iv))
  BY DEF QuotaInv
<1>2. LedgerOK(led) /\ Prefixes(led) BY DEF QuotaInv
<1> DEFINE l == StageLook(n, iv)
<1>3. l \in DOMAIN Looks BY <1>1, <1>2, TargetOf
<1>4. Looks[l] \in Nat BY <1>3, LooksFacts
<1> HIDE DEF l
<1>5. \A u \in Strata : /\ Score(led, u) \in Nat /\ target_quotas(Looks[l], u) \in Nat
                        /\ Held(res, u) \in Nat /\ Held(res2, u) \in Nat
  BY <1>2, <1>4, ScoreIsNat, HeldIsNat, QuotaIsNat
<1>6. InQuota(led, res, l) BY <1>1 DEF l
<1>7. InQuota(led, res2, l) BY <1>5, <1>6, SMT DEF InQuota
<1> QED BY <1>1, <1>2, <1>7 DEF QuotaInv, l

\* A game that starts for a stratum the look in progress still misses.
LEMMA LedgerReserved ==
  ASSUME NEW led, NEW res, NEW res2, NEW iv \in Intervals, NEW s \in Strata,
         IsFiniteSet(DOMAIN res), IsFiniteSet(DOMAIN res2), QuotaInv(led, res, iv),
         current_target(led, iv) # 0,
         s \in Underfilled(led, res, current_target(led, iv)),
         \A u \in Strata : Held(res2, u) <= Held(res, u) + (IF u = s THEN 1 ELSE 0)
  PROVE  QuotaInv(led, res2, iv)
<1>1. PICK n \in 0..Len(Looks) : Stage(led, n) /\ InQuota(led, res, StageLook(n, iv))
  BY DEF QuotaInv
<1>2. LedgerOK(led) /\ Prefixes(led) BY DEF QuotaInv
<1> DEFINE l == StageLook(n, iv)
<1>3. /\ l \in DOMAIN Looks /\ l \in {n, n + 1}
      /\ current_target(led, iv) = IF l = n THEN 0 ELSE Looks[n + 1]
  BY <1>1, <1>2, TargetOf
<1>4. current_target(led, iv) = Looks[l] BY <1>3
<1>5. Looks[l] \in Nat BY <1>3, LooksFacts
<1>6. InQuota(led, res, l) BY <1>1
<1> HIDE DEF l
<1>7. \A u \in Strata : /\ Score(led, u) \in Nat /\ target_quotas(Looks[l], u) \in Nat
                        /\ Held(res, u) \in Nat /\ Held(res2, u) \in Nat
  BY <1>2, <1>5, ScoreIsNat, HeldIsNat, QuotaIsNat
<1>8. Score(led, s) + Held(res, s) < target_quotas(Looks[l], s)
  BY <1>4, ObservedIs DEF Underfilled
<1>9. InQuota(led, res2, l)
  <2> SUFFICES ASSUME NEW u \in Strata
               PROVE  Score(led, u) + Held(res2, u) <= target_quotas(Looks[l], u)
    BY DEF InQuota
  <2>1. Score(led, u) + Held(res, u) <= target_quotas(Looks[l], u) BY <1>6 DEF InQuota
  <2>2. CASE u = s BY <1>7, <1>8, <2>2, SMT
  <2>3. CASE u # s BY <1>7, <2>1, <2>3, SMT
  <2> QED BY <2>2, <2>3
<1> QED BY <1>1, <1>2, <1>9 DEF QuotaInv, l

-----------------------------------------------------------------------------
(* The same for the games of tables.                                         *)

\* Some of the games in flight.
Restricts(res2, res) ==
    DOMAIN res2 \subseteq DOMAIN res /\ \A t \in DOMAIN res2 : res2[t] = res[t]

\* The tables that play for a stratum.
Holders(res, s) == {t \in DOMAIN res : res[t].primary /\ Stratum(res[t]) = s}

\* The tables that play for a stratum are finite in number.
LEMMA HoldersFinite ==
  ASSUME NEW res, IsFiniteSet(DOMAIN res), NEW s
  PROVE  /\ IsFiniteSet(Holders(res, s)) /\ Cardinality(Holders(res, s)) \in Nat
         /\ Held(res, s) = Cardinality(Holders(res, s))
<1>1. Holders(res, s) \subseteq DOMAIN res BY DEF Holders
<1>2. IsFiniteSet(Holders(res, s)) BY <1>1, FS_Subset
<1> QED BY <1>2, FS_CardinalityType DEF Held, Holders

\* Games that are withdrawn release their reservations.
LEMMA QuotaReleased ==
  ASSUME NEW led, NEW res, NEW res2, NEW iv \in Intervals, IsFiniteSet(DOMAIN res),
         QuotaInv(led, res, iv), Restricts(res2, res)
  PROVE  QuotaInv(led, res2, iv) /\ \A u \in Strata : Held(res2, u) <= Held(res, u)
<1>1. IsFiniteSet(DOMAIN res2) BY FS_Subset DEF Restricts
<1>2. \A u : Holders(res2, u) \subseteq Holders(res, u) BY DEF Restricts, Holders
<1>3. \A u \in Strata : Held(res2, u) <= Held(res, u) BY <1>1, <1>2, HoldersFinite, FS_Subset
<1> QED BY <1>1, <1>3, LedgerReleased

\* append_game: a reserved game that is scored takes the place it reserved.
LEMMA QuotaScored ==
  ASSUME NEW led, NEW res, NEW res2, NEW iv \in Intervals, IsFiniteSet(DOMAIN res),
         QuotaInv(led, res, iv), Restricts(res2, res),
         NEW g \in DOMAIN res \ DOMAIN res2, res[g].primary, Stratum(res[g]) \in Strata
  PROVE  QuotaInv(append(led, Stratum(res[g])), res2, iv)
<1> DEFINE s == Stratum(res[g])
<1>1. IsFiniteSet(DOMAIN res2) BY FS_Subset DEF Restricts
<1>2. \A u \in Strata : Held(res2, u) <= Held(res, u) BY QuotaReleased
<1>3. Holders(res2, s) \cup {g} \subseteq Holders(res, s) /\ g \notin Holders(res2, s)
  BY DEF Restricts, Holders
<1>4. /\ IsFiniteSet(Holders(res2, s)) /\ Held(res2, s) = Cardinality(Holders(res2, s))
      /\ IsFiniteSet(Holders(res, s)) /\ Held(res, s) = Cardinality(Holders(res, s))
  BY <1>1, HoldersFinite
<1>5. Cardinality(Holders(res2, s) \cup {g}) = Cardinality(Holders(res2, s)) + 1
  BY <1>3, <1>4, FS_AddElement
<1>6. Cardinality(Holders(res2, s) \cup {g}) <= Cardinality(Holders(res, s))
  BY <1>3, <1>4, FS_Subset
<1>7. Held(res2, s) + 1 <= Held(res, s) BY <1>4, <1>5, <1>6
<1> HIDE DEF s
<1>8. s \in Strata BY DEF s
<1> QED BY <1>1, <1>2, <1>7, <1>8, LedgerScored DEF s

\* on_start: a game that starts reserves a place its stratum misses.
LEMMA QuotaReserved ==
  ASSUME NEW led, NEW res, NEW res2, NEW iv \in Intervals, IsFiniteSet(DOMAIN res),
         QuotaInv(led, res, iv), NEW g, g \notin DOMAIN res, DOMAIN res2 = DOMAIN res \cup {g},
         \A t \in DOMAIN res : res2[t] = res[t],
         res2[g].primary =>
            /\ current_target(led, iv) # 0
            /\ Stratum(res2[g]) \in Underfilled(led, res, current_target(led, iv))
  PROVE  QuotaInv(led, res2, iv)
<1>1. IsFiniteSet(DOMAIN res2) BY FS_AddElement
<1>2. CASE ~res2[g].primary
  <2>1. \A u : Holders(res2, u) \subseteq Holders(res, u) BY <1>2 DEF Holders
  <2>2. \A u \in Strata : Held(res2, u) <= Held(res, u)
    BY <1>1, <2>1, HoldersFinite, FS_Subset
  <2> QED BY <1>1, <2>2, LedgerReleased
<1>3. CASE res2[g].primary
  <2> DEFINE s == Stratum(res2[g])
  <2>1. s \in Strata BY <1>3 DEF Underfilled
  <2>2. ASSUME NEW u \in Strata
        PROVE  Held(res2, u) <= Held(res, u) + (IF u = s THEN 1 ELSE 0)
    <3>1. /\ IsFiniteSet(Holders(res, u)) /\ Cardinality(Holders(res, u)) \in Nat
          /\ IsFiniteSet(Holders(res2, u)) /\ Cardinality(Holders(res2, u)) \in Nat
          /\ Held(res, u) = Cardinality(Holders(res, u))
          /\ Held(res2, u) = Cardinality(Holders(res2, u))
      BY <1>1, HoldersFinite
    <3>2. CASE u = s
      <4>1. Holders(res2, u) = Holders(res, u) \cup {g} /\ g \notin Holders(res, u)
        BY <1>3, <3>2 DEF Holders
      <4>2. Cardinality(Holders(res, u) \cup {g}) = Cardinality(Holders(res, u)) + 1
        BY <3>1, <4>1, FS_AddElement
      <4> HIDE DEF s
      <4> QED BY <3>1, <3>2, <4>1, <4>2
    <3>3. CASE u # s
      <4>1. Holders(res2, u) = Holders(res, u) BY <3>3 DEF Holders
      <4> HIDE DEF s
      <4> QED BY <3>1, <3>3, <4>1
    <3> QED BY <3>2, <3>3
  <2>3. current_target(led, iv) # 0 /\ s \in Underfilled(led, res, current_target(led, iv))
    BY <1>3
  <2> HIDE DEF s
  <2> QED BY <1>1, <2>1, <2>2, <2>3, LedgerReserved
<1> QED BY <1>2, <1>3

\* choose_arm_for_stratum: a primary game is for a stratum that misses one.
LEMMA ChosenIsMissing ==
  ASSUME NEW led, LedgerOK(led), NEW res, IsFiniteSet(DOMAIN res), NEW n \in Nat,
         NEW stack, NEW seat
  PROVE  LET a == choose_arm_for_stratum(led, res, n, stack, seat)
         IN  /\ a.arm \in Arms /\ a.stack = stack /\ a.seat = seat /\ a.target = n
             /\ a.primary \in BOOLEAN
             /\ a.primary => Stratum(a) \in Underfilled(led, res, n)
<1> DEFINE X == {x \in next_targets(led, res, n) : x.of.stack = stack /\ x.of.seat = seat}
           better(x, y) ==
               \/ x.missing > y.missing
               \/ /\ x.missing = y.missing
                  /\ x.total < y.total \/ (x.total = y.total /\ x.of.arm = "B0")
           Best(x) == \A y \in X \ {x} : better(x, y)
           best == CHOOSE x \in X : Best(x)
<1>1. choose_arm_for_stratum(led, res, n, stack, seat)
        = IF X = {} THEN Assigned("B0", stack, seat, n, FALSE)
          ELSE Assigned(best.of.arm, stack, seat, n, TRUE)
  BY DEF choose_arm_for_stratum
<1>2. \A arm \in Arms : ArmTotal(led, res, arm) \in Nat
  <2> SUFFICES ASSUME NEW arm \in Arms PROVE ArmTotal(led, res, arm) \in Nat OBVIOUS
  <2>1. {t \in DOMAIN res : res[t].primary /\ res[t].arm = arm} \subseteq DOMAIN res OBVIOUS
  <2>2. Cardinality({t \in DOMAIN res : res[t].primary /\ res[t].arm = arm}) \in Nat
    BY <2>1, FS_Subset, FS_CardinalityType
  <2>3. Len(led[arm]) \in Nat BY DEF LedgerOK
  <2> QED BY <2>2, <2>3 DEF ArmTotal
<1>3. ASSUME NEW x \in X
      PROVE  /\ x.of \in Underfilled(led, res, n) /\ x.of \in Strata /\ x.of.arm \in Arms
             /\ x = [of |-> x.of, total |-> ArmTotal(led, res, x.of.arm),
                     quota |-> target_quotas(n, x.of),
                     missing |-> target_quotas(n, x.of) - observed_counts(led, res, x.of)]
             /\ x.of = [arm |-> x.of.arm, stack |-> stack, seat |-> seat]
             /\ x.missing \in Int /\ x.total \in Nat
  <2>1. PICK u \in Underfilled(led, res, n) :
          x = [of |-> u, total |-> ArmTotal(led, res, u.arm), quota |-> target_quotas(n, u),
               missing |-> target_quotas(n, u) - observed_counts(led, res, u)]
    BY DEF next_targets
  <2>2. u = x.of /\ u \in Strata BY <2>1 DEF Underfilled
  <2>3. u.arm \in Arms BY <2>2, StratumKnown
  <2>4. u = [arm |-> u.arm, stack |-> stack, seat |-> seat] BY <2>2 DEF Strata
  <2>5. observed_counts(led, res, u) \in Nat
    BY <2>2, ObservedIs, ScoreIsNat, HeldIsNat
  <2>6. target_quotas(n, u) \in Nat BY <2>2, QuotaIsNat
  <2>7. x.missing \in Int /\ x.total \in Nat BY <1>2, <2>1, <2>3, <2>5, <2>6
  <2> QED BY <2>1, <2>2, <2>3, <2>4, <2>7
<1>4. \A x, y \in X : x # y => x.of.arm # y.of.arm
  <2> SUFFICES ASSUME NEW x \in X, NEW y \in X, x.of.arm = y.of.arm PROVE x = y OBVIOUS
  <2> HIDE DEF X
  <2>1. x.of = [arm |-> x.of.arm, stack |-> stack, seat |-> seat] BY <1>3
  <2>2. y.of = [arm |-> y.of.arm, stack |-> stack, seat |-> seat] BY <1>3
  <2>3. x.of = y.of BY <2>1, <2>2
  <2>4. x = [of |-> x.of, total |-> ArmTotal(led, res, x.of.arm),
             quota |-> target_quotas(n, x.of),
             missing |-> target_quotas(n, x.of) - observed_counts(led, res, x.of)]
    BY <1>3
  <2>5. y = [of |-> y.of, total |-> ArmTotal(led, res, y.of.arm),
             quota |-> target_quotas(n, y.of),
             missing |-> target_quotas(n, y.of) - observed_counts(led, res, y.of)]
    BY <1>3
  <2> QED BY <2>3, <2>4, <2>5
<1>5. \A x, y \in X : x # y => better(x, y) \/ better(y, x)
  <2> SUFFICES ASSUME NEW x \in X, NEW y \in X, x # y PROVE better(x, y) \/ better(y, x)
    OBVIOUS
  <2>1. x.of.arm # y.of.arm BY <1>4
  <2>2. x.of.arm \in {"B0", "B1"} /\ y.of.arm \in {"B0", "B1"} BY <1>3 DEF Arms
  <2>3. x.of.arm = "B0" \/ y.of.arm = "B0" BY <2>1, <2>2
  <2>4. x.missing \in Int /\ x.total \in Nat /\ y.missing \in Int /\ y.total \in Nat BY <1>3
  <2>5. x.total < y.total \/ y.total < x.total \/ x.total = y.total BY <2>4, SMT
  <2>6. x.missing > y.missing \/ y.missing > x.missing \/ x.missing = y.missing BY <2>4, SMT
  <2> QED BY <2>3, <2>5, <2>6
<1>6. \A x, y, z \in X : x = y \/ y = z \/ x = z
  <2> SUFFICES ASSUME NEW x \in X, NEW y \in X, NEW z \in X PROVE x = y \/ y = z \/ x = z
    OBVIOUS
  <2>1. x.of.arm \in {"B0", "B1"} /\ y.of.arm \in {"B0", "B1"} /\ z.of.arm \in {"B0", "B1"}
    BY <1>3 DEF Arms
  <2> QED BY <1>4, <2>1
<1>7. X # {} => best \in X
  <2> SUFFICES ASSUME X # {} PROVE \E x \in X : Best(x) OBVIOUS
  <2>1. PICK x \in X : TRUE OBVIOUS
  <2>2. CASE \A y \in X : y = x BY <2>2
  <2>3. CASE \E y \in X : y # x
    <3>1. PICK y \in X : y # x BY <2>3
    <3>2. \A z \in X : z = x \/ z = y BY <1>6, <3>1
    <3>3. better(x, y) \/ better(y, x) BY <1>5, <3>1
    <3> HIDE DEF better
    <3> QED BY <3>1, <3>2, <3>3
  <2> QED BY <2>2, <2>3
<1> HIDE DEF X, best
<1>8. CASE X = {} BY <1>1, <1>8 DEF Assigned, Arms
<1>9. CASE X # {}
  <2>1. best \in X BY <1>7, <1>9
  <2>2. best.of.arm \in Arms /\ best.of = [arm |-> best.of.arm, stack |-> stack, seat |-> seat]
        /\ best.of \in Underfilled(led, res, n)
    BY <1>3, <2>1
  <2>3. choose_arm_for_stratum(led, res, n, stack, seat)
          = Assigned(best.of.arm, stack, seat, n, TRUE)
    BY <1>1, <1>9
  <2> QED BY <2>2, <2>3 DEF Assigned, Stratum
<1> QED BY <1>8, <1>9

-----------------------------------------------------------------------------
(* The worker of several tables.                                             *)

\* What the games in flight reserve, from what is on disk.
Reserved(g, f) == [t \in {u \in Tables : g[u] # NoGame /\ f[u] = "nothing"} |-> g[t]]

Assignments == [arm : Arms \cup {"none"}, stack : Nat, seat : Nat, target : Nat, primary : BOOLEAN]

\* A game belongs to a table that plays, and what it filed to one that is over.
GameFits(g, f, state) ==
    /\ state \notin {"playing", "over"} => g = NoGame /\ f = "nothing"
    /\ state = "playing" => f = "nothing"
    /\ state = "over" => f \in {"scored", "other"}

\* The ledger and the reservations are within the look in progress, and what is
\* known of a game fits the state of its table.
CampaignInv ==
    /\ interval \in Intervals
    /\ QuotaInv(rows, Reserved(game, filed), interval)
    /\ game \in [Tables -> Assignments]
    /\ DOMAIN filed = Tables /\ DOMAIN table = Tables /\ DOMAIN bound = Tables
    /\ \A t \in Tables : game[t].primary => Stratum(game[t]) \in Strata
    /\ \A t \in Tables : GameFits(game[t], filed[t], table[t])
    /\ proc = "up" => \A t \in Tables : bound[t] = game[t].arm

\* _reservations is Reserved of what is on disk.
LEMMA ReservedIs ==
  _reservations({}) = Reserved(game, filed)
BY DEF _reservations, Running, Reserved

\* The reservations are finite.
LEMMA ReservedFinite ==
  ASSUME NEW g, NEW f
  PROVE  /\ IsFiniteSet(DOMAIN Reserved(g, f))
         /\ DOMAIN Reserved(g, f) = {t \in Tables : g[t] # NoGame /\ f[t] = "nothing"}
         /\ \A t \in DOMAIN Reserved(g, f) : Reserved(g, f)[t] = g[t]
<1>1. {t \in Tables : g[t] # NoGame /\ f[t] = "nothing"} \subseteq Tables OBVIOUS
<1>2. IsFiniteSet(Tables) BY TroublesAssumption
<1> QED BY <1>1, <1>2, FS_Subset DEF Reserved

\* The target is a number of games.
LEMMA TargetIsNat ==
  ASSUME NEW led, NEW res, NEW iv \in Intervals, QuotaInv(led, res, iv)
  PROVE  current_target(led, iv) \in Nat
<1>1. PICK n \in 0..Len(Looks) : Stage(led, n) BY DEF QuotaInv
<1>2. /\ StageLook(n, iv) \in DOMAIN Looks /\ StageLook(n, iv) \in {n, n + 1}
      /\ current_target(led, iv) = IF StageLook(n, iv) = n THEN 0 ELSE Looks[n + 1]
  BY <1>1, TargetOf DEF QuotaInv
<1> QED BY <1>2, LooksFacts

\* A new ledger is within the first look.
LEMMA EmptyLedger ==
  ASSUME NEW iv \in Intervals, NEW led, led = [arm \in Arms |-> <<>>],
         NEW res, DOMAIN res = {}
  PROVE  QuotaInv(led, res, iv)
<1>1. LedgerOK(led) BY DEF LedgerOK
<1>2. \A arm \in Arms : led[arm] = <<>> /\ Len(led[arm]) = 0 OBVIOUS
<1>3. \A i \in DOMAIN Looks : Looks[i] \in Nat \ {0} BY LooksFacts
<1>4. Prefixes(led) BY <1>2, <1>3, SMT DEF Prefixes
<1>5. \A s \in Strata : Score(led, s) = 0
  <2> SUFFICES ASSUME NEW s \in Strata PROVE Score(led, s) = 0 OBVIOUS
  <2>1. led[s.arm] = <<>> BY <1>2, StratumKnown
  <2>2. Hits(<<>>, s) = {} BY DEF Hits
  <2> QED BY <2>1, <2>2, FS_EmptySet DEF Score, Count
<1>6. \A s : Held(res, s) = 0
  <2> SUFFICES ASSUME NEW s PROVE Held(res, s) = 0 OBVIOUS
  <2>1. {t \in DOMAIN res : res[t].primary /\ Stratum(res[t]) = s} = {} OBVIOUS
  <2> QED BY <2>1, FS_EmptySet DEF Held
<1>7. 1 \in DOMAIN Looks /\ 0 \in 0..Len(Looks) BY LooksFacts, SMT
<1>8. \A i \in DOMAIN Looks, s \in Strata : target_quotas(Looks[i], s) \in Nat
  BY <1>3, QuotaIsNat
<1>9. Within(led, 1) BY <1>5, <1>7, <1>8, SMT DEF Within
<1>10. \A i \in DOMAIN Looks : ~(i < 1) BY LooksFacts, SMT
<1>11. ~Complete(led, 1)
  <2>1. "B0" \in Arms BY DEF Arms
  <2> QED BY <1>1, <1>2, <1>3, <1>7, <2>1, CompleteHasGames, SMT
<1>12. Stage(led, 0)
  <2>1. Stage(led, 1 - 1) BY <1>1, <1>7, <1>9, <1>10, <1>11, StageExists
  <2> QED BY <2>1, SMT
<1>13. StageLook(0, iv) = 1 BY DEF StageLook
<1>14. InQuota(led, res, 1) BY <1>5, <1>6, <1>7, <1>8, SMT DEF InQuota
<1> QED BY <1>1, <1>4, <1>7, <1>12, <1>13, <1>14 DEF QuotaInv

\* The invariant holds at first.
LEMMA CampaignStarts ==
  Init => CampaignInv
<1> SUFFICES ASSUME Init PROVE CampaignInv OBVIOUS
<1>1. interval \in Intervals BY TroublesAssumption DEF Init
<1>2. /\ game = [t \in Tables |-> NoGame] /\ filed = [t \in Tables |-> "nothing"]
      /\ table = [t \in Tables |-> "none"] /\ bound = [t \in Tables |-> "none"]
  BY DEF Init
<1>3. NoGame \in Assignments /\ NoGame.primary = FALSE /\ NoGame.arm = "none"
  BY DEF NoGame, Assigned, Assignments
<1>4. DOMAIN Reserved(game, filed) = {} BY <1>2 DEF Reserved
<1>5. QuotaInv(rows, Reserved(game, filed), interval)
  BY <1>1, <1>4, EmptyLedger DEF Init
<1> QED BY <1>1, <1>2, <1>3, <1>5 DEF CampaignInv, GameFits

\* The invariant implies that the looks are balanced.
LEMMA CampaignIsBalanced ==
  CampaignInv => LooksAreBalanced
BY ReservedIs, BalancedHolds DEF CampaignInv, LooksAreBalanced

\* A step that lets games go, and files or withdraws no other.
LEMMA GamesGo ==
  ASSUME CampaignInv, rows' = rows, interval' = interval,
         \A t \in Tables : \/ game'[t] = game[t] /\ (filed'[t] = "nothing" => filed[t] = "nothing")
                           \/ game'[t] = NoGame
                           \/ filed'[t] # "nothing"
  PROVE  QuotaInv(rows', Reserved(game', filed'), interval')
<1>1. Restricts(Reserved(game', filed'), Reserved(game, filed))
  <2>1. \A t \in Tables : game'[t] # NoGame /\ filed'[t] = "nothing"
                          => game[t] # NoGame /\ filed[t] = "nothing" /\ game'[t] = game[t]
    OBVIOUS
  <2> QED BY <2>1 DEF Restricts, Reserved
<1> QED BY <1>1, ReservedFinite, QuotaReleased DEF CampaignInv

\* _on_start_preapply keeps the invariant: the game is assigned from the same ledger
\* and reservations it is added to.
LEMMA OnStartKeeps ==
  ASSUME CampaignInv, NEW t \in Tables, NEW stack \in 0..Stacks, NEW seat \in 0..(Seats - 1),
         on_start(t, stack, seat)
  PROVE  CampaignInv'
<1> DEFINE a == Assignment(t, stack, seat)
<1>1. /\ proc = "up" /\ table[t] = "ready" /\ rows' = rows /\ filed' = filed
      /\ interval' = interval /\ proc' = proc
      /\ game' = [game EXCEPT ![t] = a] /\ bound' = [bound EXCEPT ![t] = a.arm]
      /\ table' = [table EXCEPT ![t] = "playing"]
  BY DEF on_start, Idle
<1>2. game[t] = NoGame /\ filed[t] = "nothing" BY <1>1 DEF CampaignInv, GameFits
<1>3. LedgerOK(rows) /\ interval \in Intervals /\ Target \in Nat
  BY TargetIsNat DEF CampaignInv, QuotaInv, Target
<1>4. stack \in Nat /\ seat \in Nat /\ Looks[Len(Looks)] \in Nat
  <2>1. Stacks \in Nat /\ Seats \in Nat BY QuotasAssumption
  <2>2. Len(Looks) \in DOMAIN Looks BY LooksFacts, SMT
  <2> QED BY <2>1, <2>2, LooksFacts, SMT
<1>5. /\ a \in Assignments
      /\ a.primary => Target # 0 /\ Stratum(a) \in Underfilled(rows, Reserved(game, filed), Target)
  <2>1. CASE Target = 0 \/ stack # slot[t]
    <3>1. a = Assigned("B0", stack, seat, IF Target = 0 THEN Looks[Len(Looks)] ELSE Target, FALSE)
      BY <2>1 DEF Assignment
    <3> QED BY <1>3, <1>4, <3>1 DEF Assigned, Assignments, Arms
  <2>2. CASE ~(Target = 0 \/ stack # slot[t])
    <3> DEFINE c == choose_arm_for_stratum(rows, Reserved(game, filed), Target, stack, seat)
    <3>1. a = c BY <2>2, ReservedIs DEF Assignment
    <3>2. /\ c.arm \in Arms /\ c.stack = stack /\ c.seat = seat /\ c.target = Target
          /\ c.primary \in BOOLEAN
          /\ c.primary => Stratum(c) \in Underfilled(rows, Reserved(game, filed), Target)
      BY <1>3, ReservedFinite, ChosenIsMissing
    <3>3. c = [arm |-> c.arm, stack |-> c.stack, seat |-> c.seat, target |-> c.target,
               primary |-> c.primary]
      BY DEF choose_arm_for_stratum, Assigned
    <3> HIDE DEF a, c
    <3> QED BY <1>3, <1>4, <2>2, <3>1, <3>2, <3>3 DEF Assignments
  <2> QED BY <2>1, <2>2
<1> HIDE DEF a
<1>6. game'[t] = a /\ \A u \in Tables : u # t => game'[u] = game[u]
  BY <1>1 DEF CampaignInv
<1>7. QuotaInv(rows', Reserved(game', filed'), interval')
  <2>1. CASE a = NoGame
    <3>1. \A u \in Tables : game'[u] = game[u] BY <1>2, <1>6, <2>1
    <3> QED BY <1>1, <3>1, GamesGo
  <2>2. CASE a # NoGame
    <3> DEFINE r1 == Reserved(game, filed)
               r2 == Reserved(game', filed')
    <3>1. /\ IsFiniteSet(DOMAIN r1) /\ t \notin DOMAIN r1
          /\ DOMAIN r2 = DOMAIN r1 \cup {t} /\ r2[t] = a
          /\ \A u \in DOMAIN r1 : r2[u] = r1[u]
      <4>1. IsFiniteSet(DOMAIN r1) BY ReservedFinite
      <4> QED BY <1>1, <1>2, <1>6, <2>2, <4>1 DEF Reserved
    <3>2. QuotaInv(rows, r1, interval) BY DEF CampaignInv
    <3>3. a.primary => /\ current_target(rows, interval) # 0
                       /\ Stratum(a) \in Underfilled(rows, r1, current_target(rows, interval))
      BY <1>5 DEF Target
    <3> HIDE DEF r1, r2
    <3>4. QuotaInv(rows, r2, interval) BY <1>3, <3>1, <3>2, <3>3, QuotaReserved
    <3> QED BY <1>1, <3>4 DEF r2
  <2> QED BY <2>1, <2>2
<1>8. a.primary => Stratum(a) \in Strata BY <1>5 DEF Underfilled
<1> QED BY <1>1, <1>2, <1>3, <1>5, <1>6, <1>7, <1>8 DEF CampaignInv, GameFits

\* _on_end keeps the invariant: the scored game was reserved.
LEMMA OnEndKeeps ==
  ASSUME CampaignInv, NEW t \in Tables, on_end(t)
  PROVE  CampaignInv'
<1>1. PICK status \in Statuses :
        LET a == IF assignment_still_needed(rows, game[t]) THEN game[t]
                 ELSE [game[t] EXCEPT !.primary = FALSE]
            stored == append_game(rows, a, status)
        IN  rows' = stored.rows /\ filed' = [filed EXCEPT ![t] = stored.filed]
  BY DEF on_end
<1>2. /\ table[t] = "playing" /\ table' = [table EXCEPT ![t] = "over"]
      /\ game' = game /\ bound' = bound /\ proc' = proc /\ interval' = interval
  BY DEF on_end
<1>3. filed[t] = "nothing" BY <1>2 DEF CampaignInv, GameFits
<1>4. \/ /\ game[t].primary /\ rows' = append(rows, Stratum(game[t]))
         /\ filed' = [filed EXCEPT ![t] = "scored"]
      \/ rows' = rows /\ filed' = [filed EXCEPT ![t] = "other"]
  <2> DEFINE a == IF assignment_still_needed(rows, game[t]) THEN game[t]
                  ELSE [game[t] EXCEPT !.primary = FALSE]
  <2>1. game[t] \in Assignments BY DEF CampaignInv
  <2>2. a.primary => a = game[t] BY <2>1 DEF Assignments
  <2>3. \/ /\ a.primary /\ append_game(rows, a, status).rows = append(rows, Stratum(a))
           /\ append_game(rows, a, status).filed = "scored"
        \/ append_game(rows, a, status).rows = rows /\ append_game(rows, a, status).filed = "other"
    BY DEF append_game
  <2> HIDE DEF a
  <2>4. rows' = append_game(rows, a, status).rows
        /\ filed' = [filed EXCEPT ![t] = append_game(rows, a, status).filed]
    BY <1>1 DEF a
  <2> QED BY <2>2, <2>3, <2>4
<1>5. QuotaInv(rows', Reserved(game', filed'), interval')
  <2>1. CASE rows' = rows /\ filed' = [filed EXCEPT ![t] = "other"]
    <3>1. \A u \in Tables : filed'[u] = "nothing" => filed[u] = "nothing"
      BY <2>1 DEF CampaignInv
    <3> QED BY <1>2, <2>1, <3>1, GamesGo
  <2>2. CASE /\ game[t].primary /\ rows' = append(rows, Stratum(game[t]))
             /\ filed' = [filed EXCEPT ![t] = "scored"]
    <3> DEFINE r1 == Reserved(game, filed)
               r2 == Reserved(game', filed')
    <3>1. game[t] # NoGame BY <2>2 DEF NoGame, Assigned
    <3>2. filed'[t] = "scored" /\ \A u \in Tables : u # t => filed'[u] = filed[u]
      BY <2>2 DEF CampaignInv
    <3>3. /\ IsFiniteSet(DOMAIN r1) /\ Restricts(r2, r1) /\ t \in DOMAIN r1 \ DOMAIN r2
          /\ r1[t] = game[t]
      <4>1. IsFiniteSet(DOMAIN r1) BY ReservedFinite
      <4>2. \A u \in Tables : game'[u] = game[u] /\ (filed'[u] = "nothing" => filed[u] = "nothing" /\ u # t)
        BY <1>2, <3>2
      <4> QED BY <1>3, <3>1, <4>1, <4>2 DEF Restricts, Reserved
    <3>4. QuotaInv(rows, r1, interval) /\ interval \in Intervals /\ Stratum(game[t]) \in Strata
      BY <2>2 DEF CampaignInv
    <3> HIDE DEF r1, r2
    <3>5. QuotaInv(append(rows, Stratum(r1[t])), r2, interval)
      BY <2>2, <3>3, <3>4, QuotaScored
    <3> QED BY <1>2, <2>2, <3>3, <3>5 DEF r2
  <2> QED BY <1>4, <2>1, <2>2
<1>6. DOMAIN filed' = Tables /\ DOMAIN table' = Tables BY <1>2, <1>4 DEF CampaignInv
<1>7. ASSUME NEW u \in Tables PROVE GameFits(game'[u], filed'[u], table'[u])
  <2>1. CASE u = t BY <1>2, <1>4, <2>1 DEF CampaignInv, GameFits
  <2>2. CASE u # t
    <3>1. filed'[u] = filed[u] /\ table'[u] = table[u] BY <1>2, <1>4, <2>2 DEF CampaignInv
    <3> QED BY <1>2, <3>1 DEF CampaignInv
  <2> QED BY <2>1, <2>2
<1> QED BY <1>2, <1>5, <1>6, <1>7 DEF CampaignInv

\* A withdrawn game, with its table ready, leaving or closing.
LEMMA WithdrawKeeps ==
  ASSUME CampaignInv, NEW t, withdraw(t), rows' = rows, interval' = interval, proc' = proc,
         DOMAIN table' = Tables,
         \A u \in Tables : table'[u] = table[u] \/ table'[u] \notin {"playing", "over"},
         \A u \in Tables : u # t /\ table'[u] # table[u] => table[u] = "ready",
         t \in Tables => table'[t] \notin {"playing", "over"}
  PROVE  CampaignInv'
<1>1. NoGame \in Assignments /\ NoGame.primary = FALSE /\ NoGame.arm = "none"
  BY DEF NoGame, Assigned, Assignments
<1>2. /\ game' = [game EXCEPT ![t] = NoGame] /\ bound' = [bound EXCEPT ![t] = "none"]
      /\ filed' = [filed EXCEPT ![t] = "nothing"]
  BY DEF withdraw
<1>3. /\ game' \in [Tables -> Assignments] /\ DOMAIN bound' = Tables /\ DOMAIN filed' = Tables
      /\ \A u \in Tables : u # t => /\ game'[u] = game[u] /\ bound'[u] = bound[u]
                                    /\ filed'[u] = filed[u]
      /\ t \in Tables => game'[t] = NoGame /\ bound'[t] = "none" /\ filed'[t] = "nothing"
  BY <1>1, <1>2 DEF CampaignInv
<1>4. QuotaInv(rows', Reserved(game', filed'), interval') BY <1>3, GamesGo
<1>5. ASSUME NEW u \in Tables
      PROVE  /\ GameFits(game'[u], filed'[u], table'[u])
             /\ game'[u].primary => Stratum(game'[u]) \in Strata
             /\ proc = "up" => bound'[u] = game'[u].arm
  <2>1. CASE u = t BY <1>1, <1>3, <2>1 DEF GameFits
  <2>2. CASE u # t
    <3>1. GameFits(game[u], filed[u], table[u]) BY DEF CampaignInv
    <3> QED BY <1>3, <2>2, <3>1 DEF CampaignInv, GameFits
  <2> QED BY <2>1, <2>2
<1> QED BY <1>3, <1>4, <1>5 DEF CampaignInv

\* _retire_idle_tables touches ready tables only, and the one it is given.
LEMMA LeaveIs ==
  ASSUME NEW S, NEW reason \in {"leaving", "closing"}, NEW u \in Tables
  PROVE  /\ DOMAIN Leave(S, reason) = Tables
         /\ Leave(S, reason)[u] \in {table[u], reason}
         /\ u \in S => Leave(S, reason)[u] = reason
         /\ u \notin S /\ Leave(S, reason)[u] # table[u] => table[u] = "ready"
BY DEF Leave

\* The rest of _on_end keeps the invariant.
LEMMA CloseGameKeeps ==
  ASSUME CampaignInv, close_game
  PROVE  CampaignInv'
<1> DEFINE t == doing.t
<1>1. /\ withdraw(t) /\ rows' = rows /\ interval' = interval /\ proc' = proc
      /\ \/ table' = Leave({t}, "closing") \/ table' = Leave({t}, "leaving")
         \/ table' = [table EXCEPT ![t] = "ready"]
  BY DEF close_game
<1> HIDE DEF t
<1>2. CASE \E reason \in {"leaving", "closing"} : table' = Leave({t}, reason)
  <2>1. PICK reason \in {"leaving", "closing"} : table' = Leave({t}, reason) BY <1>2
  <2>2. DOMAIN table' = Tables BY <2>1 DEF Leave
  <2>3. \A u \in Tables : /\ table'[u] = table[u] \/ table'[u] \notin {"playing", "over"}
                          /\ u # t /\ table'[u] # table[u] => table[u] = "ready"
                          /\ u = t => table'[u] \notin {"playing", "over"}
    BY <2>1, LeaveIs
  <2> QED BY <1>1, <2>2, <2>3, WithdrawKeeps
<1>3. CASE table' = [table EXCEPT ![t] = "ready"]
  <2>1. DOMAIN table' = Tables BY <1>3 DEF CampaignInv
  <2>2. \A u \in Tables : IF u = t THEN table'[u] = "ready" ELSE table'[u] = table[u]
    BY <1>3 DEF CampaignInv
  <2> QED BY <1>1, <2>1, <2>2, WithdrawKeeps
<1> QED BY <1>1, <1>2, <1>3

\* The rest of on_table_error keeps the invariant.
LEMMA FailGameKeeps ==
  ASSUME CampaignInv, fail_game
  PROVE  CampaignInv'
<1> DEFINE t == doing.t
<1>1. /\ withdraw(t) /\ rows' = rows /\ interval' = interval /\ proc' = proc
      /\ table' = Leave({t}, "leaving")
  BY DEF fail_game
<1> HIDE DEF t
<1>2. DOMAIN table' = Tables BY <1>1 DEF Leave
<1>3. \A u \in Tables : /\ table'[u] = table[u] \/ table'[u] \notin {"playing", "over"}
                        /\ u # t /\ table'[u] # table[u] => table[u] = "ready"
                        /\ u = t => table'[u] \notin {"playing", "over"}
  BY <1>1, LeaveIs
<1> QED BY <1>1, <1>2, <1>3, WithdrawKeeps

\* A step of tables without games.
LEMMA TablesKeep ==
  ASSUME CampaignInv, UNCHANGED <<rows, game, filed, bound, interval>>,
         proc' = "up" => proc = "up", DOMAIN table' = Tables,
         \A u \in Tables : table'[u] # table[u] =>
             table[u] \notin {"playing", "over"} /\ table'[u] \notin {"playing", "over"}
  PROVE  CampaignInv'
<1>1. ASSUME NEW u \in Tables PROVE GameFits(game'[u], filed'[u], table'[u])
  BY DEF CampaignInv, GameFits
<1> QED BY <1>1 DEF CampaignInv

\* on_table_error keeps the invariant.
LEMMA OnTableErrorKeeps ==
  ASSUME CampaignInv, NEW t \in Tables, on_table_error(t)
  PROVE  CampaignInv'
<1>1. CASE table[t] = "ready"
  <2>1. /\ table' = Leave({t}, "leaving")
        /\ UNCHANGED <<rows, game, filed, bound, interval, proc>>
    BY <1>1 DEF on_table_error
  <2>2. DOMAIN table' = Tables BY <2>1 DEF Leave
  <2>3. \A u \in Tables : table'[u] # table[u] =>
           table[u] \notin {"playing", "over"} /\ table'[u] \notin {"playing", "over"}
    BY <1>1, <2>1, LeaveIs
  <2> QED BY <2>1, <2>2, <2>3, TablesKeep
<1>2. CASE table[t] # "ready"
  <2>1. /\ rows' = rows /\ filed' = [filed EXCEPT ![t] = "other"]
        /\ table[t] = "playing" /\ table' = [table EXCEPT ![t] = "over"]
        /\ UNCHANGED <<game, bound, interval, proc>>
    BY <1>2 DEF on_table_error, append_failure_without_terminal
  <2>2. DOMAIN table' = Tables /\ DOMAIN filed' = Tables BY <2>1 DEF CampaignInv
  <2>3. \A u \in Tables : u # t => filed'[u] = filed[u] /\ table'[u] = table[u]
    BY <2>1 DEF CampaignInv
  <2>4. filed'[t] = "other" /\ table'[t] = "over" BY <2>1 DEF CampaignInv
  <2>5. QuotaInv(rows', Reserved(game', filed'), interval') BY <2>1, <2>3, <2>4, GamesGo
  <2>6. ASSUME NEW u \in Tables PROVE GameFits(game'[u], filed'[u], table'[u])
    BY <2>1, <2>3, <2>4 DEF CampaignInv, GameFits
  <2> QED BY <2>1, <2>2, <2>5, <2>6 DEF CampaignInv
<1> QED BY <1>1, <1>2

\* A restart keeps the invariant: a scored game is withdrawn, a running one stays
\* reserved.
LEMMA RestartKeeps ==
  ASSUME CampaignInv, restart
  PROVE  CampaignInv'
<1>1. proc = "down" /\ rows' = rows /\ interval' = interval BY DEF restart
<1>2. CASE \E t \in Running : Refused(t)
  <2>1. proc' = "refused" /\ UNCHANGED <<game, filed, bound, table>> BY <1>2 DEF restart
  <2> QED BY <1>1, <2>1 DEF CampaignInv
<1>3. CASE ~\E t \in Running : Refused(t)
  <2>1. /\ proc' = "up"
        /\ game' = [t \in Tables |-> IF filed[t] = "scored" THEN NoGame ELSE game[t]]
        /\ filed' = [t \in Tables |-> "nothing"]
        /\ bound' = [t \in Tables |-> game'[t].arm]
        /\ table' = [t \in Tables |-> IF table[t] \notin {"ready", "over"} THEN table[t]
                                      ELSE IF complete' THEN "closing" ELSE "leaving"]
    BY <1>3 DEF restart
  <2>2. NoGame \in Assignments /\ NoGame.primary = FALSE
    BY DEF NoGame, Assigned, Assignments
  <2>3. game' \in [Tables -> Assignments] BY <2>1, <2>2 DEF CampaignInv
  <2>4. ASSUME NEW u \in Tables
        PROVE  /\ game'[u] = NoGame \/ (game'[u] = game[u] /\ filed[u] = "nothing")
               /\ GameFits(game'[u], filed'[u], table'[u])
    <3>1. GameFits(game[u], filed[u], table[u]) BY DEF CampaignInv
    <3>2. game[u] # NoGame => filed[u] # "other" BY <1>3 DEF Running, Refused
    <3>3. /\ game'[u] = IF filed[u] = "scored" THEN NoGame ELSE game[u]
          /\ filed'[u] = "nothing"
          /\ table[u] \notin {"ready", "over"} => table'[u] = table[u]
          /\ table[u] \in {"ready", "over"} => table'[u] \in {"closing", "leaving"}
      BY <2>1
    <3>4. table[u] \notin {"playing", "over"} => game[u] = NoGame /\ filed[u] = "nothing"
      BY <3>1 DEF GameFits
    <3>5. CASE table[u] = "over"
      <4>1. filed[u] \in {"scored", "other"} BY <3>1, <3>5 DEF GameFits
      <4> QED BY <3>2, <3>3, <3>5, <4>1 DEF GameFits
    <3>6. CASE table[u] = "playing"
      <4>1. filed[u] = "nothing" BY <3>1, <3>6 DEF GameFits
      <4> QED BY <3>3, <3>6, <4>1 DEF GameFits
    <3>7. CASE table[u] \notin {"playing", "over"} BY <3>3, <3>4, <3>7 DEF GameFits
    <3> QED BY <3>5, <3>6, <3>7
  <2>5. QuotaInv(rows', Reserved(game', filed'), interval') BY <1>1, <2>4, GamesGo
  <2>6. \A u \in Tables : game'[u].primary => Stratum(game'[u]) \in Strata
    BY <2>2, <2>4 DEF CampaignInv
  <2> QED BY <1>1, <2>1, <2>3, <2>4, <2>5, <2>6 DEF CampaignInv
<1> QED BY <1>2, <1>3

\* Every step keeps the invariant.
LEMMA CampaignStep ==
  CampaignInv /\ [Next]_vars => CampaignInv'
<1> SUFFICES ASSUME CampaignInv, [Next]_vars PROVE CampaignInv' OBVIOUS
<1>1. CASE create_next_table
  <2>1. /\ UNCHANGED <<rows, game, filed, bound, interval, proc>>
        /\ \/ table' = table
           \/ table' = [table EXCEPT ![CHOOSE u \in {t \in Tables : slot[t] = 0 /\ table[t] = "none"} : TRUE]
                           = "ready"]
              /\ {t \in Tables : slot[t] = 0 /\ table[t] = "none"} # {}
    BY <1>1 DEF create_next_table
  <2> DEFINE c == CHOOSE u \in {t \in Tables : slot[t] = 0 /\ table[t] = "none"} : TRUE
  <2>2. {t \in Tables : slot[t] = 0 /\ table[t] = "none"} # {} => c \in Tables /\ table[c] = "none"
    <3> SUFFICES ASSUME {t \in Tables : slot[t] = 0 /\ table[t] = "none"} # {}
                 PROVE  c \in {t \in Tables : slot[t] = 0 /\ table[t] = "none"}
      OBVIOUS
    <3> QED OBVIOUS
  <2> HIDE DEF c
  <2>3. table' = table \/ (table' = [table EXCEPT ![c] = "ready"] /\ c \in Tables /\ table[c] = "none")
    BY <2>1, <2>2 DEF c
  <2>4. DOMAIN table' = Tables BY <2>3 DEF CampaignInv
  <2>5. \A u \in Tables : table'[u] # table[u] =>
           table[u] \notin {"playing", "over"} /\ table'[u] \notin {"playing", "over"}
    BY <2>3 DEF CampaignInv
  <2> QED BY <2>1, <2>4, <2>5, TablesKeep
<1>2. CASE close_game BY <1>2, CloseGameKeeps
<1>3. CASE fail_game BY <1>3, FailGameKeeps
<1>4. CASE idle_outcome
  <2>1. /\ UNCHANGED <<rows, game, filed, bound, interval, table>> /\ proc' = "done"
    BY <1>4 DEF idle_outcome, disk
  <2> QED BY <2>1 DEF CampaignInv
<1>5. CASE restart BY <1>5, RestartKeeps
<1>6. CASE die
  <2>1. /\ UNCHANGED <<rows, game, filed, interval, table>> /\ proc' = "down"
        /\ DOMAIN bound' = Tables
    BY <1>6 DEF die, disk
  <2> QED BY <2>1 DEF CampaignInv
<1>7. ASSUME NEW t \in Tables, Starts(t) PROVE CampaignInv'
  BY <1>7, OnStartKeeps DEF Starts
<1>8. ASSUME NEW t \in Tables, on_end(t) PROVE CampaignInv' BY <1>8, OnEndKeeps
<1>9. ASSUME NEW t \in Tables, on_table_error(t) PROVE CampaignInv'
  BY <1>9, OnTableErrorKeeps
<1>10. ASSUME NEW t \in Tables, on_destroy(t) PROVE CampaignInv'
  <2> DEFINE left == [table EXCEPT ![t] = "none"]
  <2>1. /\ UNCHANGED <<rows, game, filed, bound, interval>> /\ proc = "up"
        /\ table[t] \in {"leaving", "closing"}
        /\ table' = [u \in Tables |-> IF complete /\ left[u] = "ready" THEN "closing" ELSE left[u]]
    BY <1>10 DEF on_destroy, Idle
  <2>2. \A u \in Tables : left[u] = IF u = t THEN "none" ELSE table[u] BY DEF CampaignInv
  <2> HIDE DEF left
  <2>3. \A u \in Tables : table'[u] # table[u] =>
           table[u] \notin {"playing", "over"} /\ table'[u] \notin {"playing", "over"}
    BY <2>1, <2>2
  <2>4. DOMAIN table' = Tables BY <2>1
  <2> QED BY <2>1, <2>3, <2>4, TablesKeep
<1>11. CASE UNCHANGED vars BY <1>11 DEF vars, disk, CampaignInv
<1> QED BY <1>1, <1>2, <1>3, <1>4, <1>5, <1>6, <1>7, <1>8, <1>9, <1>10, <1>11 DEF Next, Worker

\* With several tables, over games that fail, strangers at a table and deaths at any
\* point: the games a look compares are its quotas, no stratum exceeds the quota of the
\* look in progress, and a game is played by the arm it is assigned to
\* (MultiTableExternalGateWorker).
THEOREM CampaignQuotasKept ==
  Spec => []LooksAreBalanced
<1>1. Spec => []CampaignInv BY CampaignStarts, CampaignStep, PTL DEF Spec
<1> QED BY <1>1, CampaignIsBalanced, PTL

-----------------------------------------------------------------------------
(* The operators of CampaignQuotas are the same for both workers.            *)
\* The operators of CampaignQuotas that the worker of one table has are the same:
\* strata and assignments,
LEMMA SameStrata ==
  /\ Single!Arms = Arms /\ Single!Strata = Strata /\ Single!NothingReserved = NothingReserved
  /\ Single!Statuses = Statuses /\ Single!Intervals = Intervals
  /\ \A a : Single!Stratum(a) = Stratum(a)
  /\ \A arm, stack, seat, n, primary :
        Single!Assigned(arm, stack, seat, n, primary) = Assigned(arm, stack, seat, n, primary)
  /\ \A led, s : Single!append(led, s) = append(led, s)
BY DEF Single!Arms, Arms, Single!Strata, Strata, Single!NothingReserved, NothingReserved,
       Single!Statuses, Statuses, Single!Intervals, Intervals, Single!Stratum, Stratum,
       Single!Assigned, Assigned, Single!append, append

\* quotas,
LEMMA SameQuotas ==
  \A n, s : Single!target_quotas(n, s) = target_quotas(n, s)
BY DEF Single!target_quotas, target_quotas, Single!Place, Place

\* cardinalities,
LEMMA SameCardinality ==
  \A X : Single!Cardinality(X) = Cardinality(X)
BY DEF Single!Cardinality, Cardinality

\* counts,
LEMMA SameCounts ==
  /\ \A led, res, s : Single!observed_counts(led, res, s) = observed_counts(led, res, s)
  /\ \A led, res, arm : Single!ArmTotal(led, res, arm) = ArmTotal(led, res, arm)
BY SameCardinality, SameStrata DEF Single!observed_counts, observed_counts, Single!ArmTotal, ArmTotal

\* the strata that miss games,
LEMMA SameUnderfilled ==
  /\ \A led, res, n : Single!Underfilled(led, res, n) = Underfilled(led, res, n)
  /\ \A led, n : Single!quota_status(led, n) = quota_status(led, n)
BY SameCounts, SameQuotas, SameStrata
   DEF Single!Underfilled, Underfilled, Single!quota_status, quota_status

\* the targets,
LEMMA SameTargets ==
  \A led, res, n : Single!next_targets(led, res, n) = next_targets(led, res, n)
BY SameUnderfilled, SameCounts, SameQuotas DEF Single!next_targets, next_targets

\* the choice of the arm,
LEMMA SameChoice ==
  \A led, res, n, stack, seat :
      Single!choose_arm_for_stratum(led, res, n, stack, seat)
          = choose_arm_for_stratum(led, res, n, stack, seat)
<1> SUFFICES ASSUME NEW led, NEW res, NEW n, NEW stack, NEW seat
             PROVE  Single!choose_arm_for_stratum(led, res, n, stack, seat)
                      = choose_arm_for_stratum(led, res, n, stack, seat)
  OBVIOUS
<1>1. Single!next_targets(led, res, n) = next_targets(led, res, n) BY SameTargets
<1>2. \A arm, primary : Single!Assigned(arm, stack, seat, n, primary)
                           = Assigned(arm, stack, seat, n, primary)
  BY SameStrata
<1> DEFINE X == {x \in next_targets(led, res, n) : x.of.stack = stack /\ x.of.seat = seat}
           better(x, y) ==
               \/ x.missing > y.missing
               \/ /\ x.missing = y.missing
                  /\ x.total < y.total \/ (x.total = y.total /\ x.of.arm = "B0")
           best == CHOOSE x \in X : \A y \in X \ {x} : better(x, y)
<1>3. choose_arm_for_stratum(led, res, n, stack, seat)
        = IF X = {} THEN Assigned("B0", stack, seat, n, FALSE)
          ELSE Assigned(best.of.arm, stack, seat, n, TRUE)
  BY DEF choose_arm_for_stratum
<1>4. Single!choose_arm_for_stratum(led, res, n, stack, seat)
        = IF X = {} THEN Single!Assigned("B0", stack, seat, n, FALSE)
          ELSE Single!Assigned(best.of.arm, stack, seat, n, TRUE)
  BY <1>1 DEF Single!choose_arm_for_stratum
<1> HIDE DEF X, best
<1>5. Single!Assigned("B0", stack, seat, n, FALSE) = Assigned("B0", stack, seat, n, FALSE)
  BY <1>2
<1>6. Single!Assigned(best.of.arm, stack, seat, n, TRUE) = Assigned(best.of.arm, stack, seat, n, TRUE)
  BY <1>2
<1>7. CASE X = {} BY <1>3, <1>4, <1>5, <1>7
<1>8. CASE X # {} BY <1>3, <1>4, <1>6, <1>8
<1> QED BY <1>7, <1>8

\* the gate,
LEMMA SameGate ==
  \A led, iv : /\ Single!current_look(led) = current_look(led)
               /\ Single!decide_external_gate(led, iv) = decide_external_gate(led, iv)
               /\ Single!current_target(led, iv) = current_target(led, iv)
<1>1. \A X : Single!Max(X) = Max(X) /\ Single!Min(X) = Min(X)
  BY DEF Single!Max, Max, Single!Min, Min
<1>2. \A led : Single!current_look(led) = current_look(led)
  BY <1>1, SameStrata DEF Single!current_look, current_look
<1>3. \A led, iv : Single!decide_external_gate(led, iv) = decide_external_gate(led, iv)
  BY <1>2 DEF Single!decide_external_gate, decide_external_gate
<1>4. \A led : Single!Incomplete(led) = Incomplete(led)
  BY SameUnderfilled DEF Single!Incomplete, Incomplete
<1> QED BY <1>1, <1>2, <1>3, <1>4 DEF Single!current_target, current_target

\* and Balanced.
LEMMA SameBalance ==
  \A led, res, iv : Single!Balanced(led, res, iv) <=> Balanced(led, res, iv)
<1>1. \A led, i : Single!Selected(led, i) = Selected(led, i)
  BY SameStrata DEF Single!Selected, Selected
<1> QED BY <1>1, SameGate, SameCounts, SameQuotas, SameStrata DEF Single!Balanced, Balanced

-----------------------------------------------------------------------------
(* The worker of one table.                                                  *)

\* What its game reserves.
InFlight(g, f) ==
    IF g = Single!NoGame \/ f # "nothing" THEN NothingReserved ELSE [t \in {g.t} |-> g.a]

\* The same for one table: no game is filed but in the handler that files it.
SingleInv ==
    /\ interval \in Intervals
    /\ QuotaInv(rows, InFlight(one_game, one_filed), interval)
    /\ one_game.a.primary => Stratum(one_game.a) \in Strata
    /\ one_filed \in {"nothing", "scored", "other"}
    /\ one_proc = "up" /\ one_doing.op \notin {"withdraw", "fail"} => one_filed = "nothing"

\* The game in flight is one at most.
LEMMA InFlightFinite ==
  ASSUME NEW g, NEW f
  PROVE  IsFiniteSet(DOMAIN InFlight(g, f))
<1>1. DOMAIN NothingReserved = {} BY DEF NothingReserved
<1>2. DOMAIN [t \in {g.t} |-> g.a] = {g.t} OBVIOUS
<1> QED BY <1>1, <1>2, FS_EmptySet, FS_Singleton DEF InFlight

\* Without a game nothing is reserved.
LEMMA NoGameIs ==
  /\ Single!NoGame.t = "NONE" /\ Single!NoGame.a.primary = FALSE
  /\ \A f : InFlight(Single!NoGame, f) = NothingReserved
BY DEF Single!NoGame, Single!NONE, Single!Assigned, InFlight

\* The invariant holds at first.
LEMMA SingleStarts ==
  Single!Init => SingleInv
<1> SUFFICES ASSUME Single!Init PROVE SingleInv OBVIOUS
<1>1. interval \in Intervals BY TroublesAssumption DEF Single!Init
<1>2. rows = [arm \in Arms |-> <<>>] /\ one_game = Single!NoGame /\ one_filed = "nothing"
  BY SameStrata DEF Single!Init
<1>3. InFlight(one_game, one_filed) = NothingReserved BY <1>2, NoGameIs
<1>4. DOMAIN NothingReserved = {} BY DEF NothingReserved
<1>5. QuotaInv(rows, InFlight(one_game, one_filed), interval)
  BY <1>1, <1>2, <1>3, <1>4, EmptyLedger
<1> QED BY <1>1, <1>2, <1>5, NoGameIs DEF SingleInv

\* The invariant implies that the looks are balanced.
LEMMA SingleBalanced ==
  SingleInv => Single!SingleIsBalanced
<1> SUFFICES ASSUME SingleInv PROVE Single!SingleIsBalanced OBVIOUS
<1>1. Balanced(rows, InFlight(one_game, one_filed), interval) BY BalancedHolds DEF SingleInv
<1>2. Single!Balanced(rows, InFlight(one_game, one_filed), interval) BY <1>1, SameBalance
<1> QED BY <1>2, SameStrata DEF Single!SingleIsBalanced, InFlight

\* A step that leaves the ledger and the game alone.
LEMMA GameStays ==
  ASSUME SingleInv, UNCHANGED <<rows, one_game, interval>>,
         one_filed' = one_filed \/ one_filed' \in {"scored", "other"},
         one_proc' = "up" /\ one_doing'.op \notin {"withdraw", "fail"} => one_filed' = "nothing"
  PROVE  SingleInv'
<1>1. CASE one_filed' = one_filed BY <1>1 DEF SingleInv
<1>2. CASE one_filed' \in {"scored", "other"}
  <2>1. InFlight(one_game', one_filed') = NothingReserved BY <1>2 DEF InFlight
  <2>2. Restricts(NothingReserved, InFlight(one_game, one_filed))
    BY DEF Restricts, NothingReserved
  <2>3. QuotaInv(rows, NothingReserved, interval)
    BY <2>2, InFlightFinite, QuotaReleased DEF SingleInv
  <2> QED BY <2>1, <2>3 DEF SingleInv
<1> QED BY <1>1, <1>2

\* A game that is withdrawn.
LEMMA GameGoes ==
  ASSUME SingleInv, rows' = rows, interval' = interval, one_game' = Single!NoGame,
         one_filed' = "nothing"
  PROVE  SingleInv'
<1>1. InFlight(one_game', one_filed') = NothingReserved BY NoGameIs
<1>2. Restricts(NothingReserved, InFlight(one_game, one_filed))
  BY DEF Restricts, NothingReserved
<1>3. QuotaInv(rows, NothingReserved, interval)
  BY <1>2, InFlightFinite, QuotaReleased DEF SingleInv
<1> QED BY <1>1, <1>3, NoGameIs DEF SingleInv

\* _on_start_preapply keeps the invariant: a replayed game keeps its assignment, a
\* new one is assigned from the ledger.
LEMMA SingleStartKeeps ==
  ASSUME SingleInv, NEW stack \in 0..Stacks, NEW seat \in 0..(Seats - 1),
         Single!_on_start_preapply(stack, seat)
  PROVE  SingleInv'
<1> DEFINE g == Single!Assignment(Head(one_down).t, stack, seat)
<1>1. /\ one_game' = g /\ one_proc = "up" /\ one_doing = Single!Nothing
      /\ UNCHANGED <<rows, one_filed, one_doing, one_proc, interval>>
  BY DEF Single!_on_start_preapply, Single!Reading
<1>2. one_filed = "nothing" BY <1>1 DEF SingleInv, Single!Nothing
<1>3. CASE one_game.t = Head(one_down).t
  <2>1. g = one_game BY <1>3 DEF Single!Assignment
  <2> QED BY <1>1, <1>2, <2>1, GameStays
<1>4. CASE one_game.t # Head(one_down).t
  <2> DEFINE n == current_target(rows, interval)
             a == IF n = 0 THEN Assigned("B0", stack, seat, Looks[Len(Looks)], FALSE)
                  ELSE choose_arm_for_stratum(rows, NothingReserved, n, stack, seat)
  <2>1. g = [t |-> Head(one_down).t, a |-> a]
    BY <1>4, SameGate, SameStrata, SameChoice DEF Single!Assignment, Single!Target
  <2>2. IsFiniteSet(DOMAIN NothingReserved) BY FS_EmptySet DEF NothingReserved
  <2>3. /\ LedgerOK(rows) /\ interval \in Intervals /\ n \in Nat
    BY TargetIsNat DEF SingleInv, QuotaInv
  <2>4. a.primary => n # 0 /\ Stratum(a) \in Underfilled(rows, NothingReserved, n)
    <3>1. n # 0 => (a.primary => Stratum(a) \in Underfilled(rows, NothingReserved, n))
      BY <2>2, <2>3, ChosenIsMissing
    <3>2. n = 0 => ~a.primary BY DEF Assigned
    <3> QED BY <3>1, <3>2
  <2>5. a.primary => Stratum(a) \in Strata BY <2>4 DEF Underfilled
  <2>6. QuotaInv(rows, NothingReserved, interval)
    <3>1. Restricts(NothingReserved, InFlight(one_game, one_filed))
      BY DEF Restricts, NothingReserved
    <3> QED BY <3>1, InFlightFinite, QuotaReleased DEF SingleInv
  <2> HIDE DEF a, g
  <2>7. CASE g = Single!NoGame BY <1>1, <1>2, <2>7, GameGoes
  <2>8. CASE g # Single!NoGame
    <3> DEFINE t == Head(one_down).t
               r == InFlight(one_game', one_filed')
    <3>1. r = [u \in {t} |-> a] BY <1>1, <1>2, <2>1, <2>8 DEF InFlight
    <3>2. t \notin DOMAIN NothingReserved /\ DOMAIN r = DOMAIN NothingReserved \cup {t}
          /\ r[t] = a /\ \A u \in DOMAIN NothingReserved : r[u] = NothingReserved[u]
      BY <3>1 DEF NothingReserved
    <3>3. r[t].primary => /\ current_target(rows, interval) # 0
                          /\ Stratum(r[t]) \in Underfilled(rows, NothingReserved, current_target(rows, interval))
      BY <2>4, <3>2
    <3> HIDE DEF r, t
    <3>4. QuotaInv(rows, r, interval) BY <2>2, <2>3, <2>6, <3>2, <3>3, QuotaReserved
    <3> QED BY <1>1, <1>2, <2>1, <2>5, <3>4 DEF SingleInv, r
  <2> QED BY <2>7, <2>8
<1> QED BY <1>3, <1>4

\* _on_end keeps the invariant: the game it scores was in flight.
LEMMA SingleEndKeeps ==
  ASSUME SingleInv, Single!_on_end
  PROVE  SingleInv'
<1>1. PICK status \in Single!Statuses :
        LET stored == Single!append_game(rows, one_game.a, status)
        IN  rows' = stored.rows /\ one_filed' = stored.filed
  BY DEF Single!_on_end
<1>2. /\ one_proc = "up" /\ one_doing = Single!Nothing /\ one_doing'.op = "withdraw"
      /\ one_game' = one_game /\ interval' = interval
  BY DEF Single!_on_end, Single!Reading, Single!Do
<1>3. one_filed = "nothing" BY <1>2 DEF SingleInv, Single!Nothing
<1>4. \/ /\ one_game.a.primary /\ rows' = append(rows, Stratum(one_game.a))
         /\ one_filed' = "scored"
      \/ rows' = rows /\ one_filed' = "other"
  BY <1>1, SameStrata DEF Single!append_game
<1>5. CASE rows' = rows /\ one_filed' = "other" BY <1>2, <1>5, GameStays
<1>6. CASE /\ one_game.a.primary /\ rows' = append(rows, Stratum(one_game.a))
           /\ one_filed' = "scored"
  <2> DEFINE r1 == InFlight(one_game, one_filed)
             t == one_game.t
  <2>1. one_game # Single!NoGame BY <1>6, NoGameIs
  <2>2. r1 = [u \in {t} |-> one_game.a] BY <1>3, <2>1 DEF InFlight
  <2>3. /\ IsFiniteSet(DOMAIN r1) /\ Restricts(NothingReserved, r1)
        /\ t \in DOMAIN r1 \ DOMAIN NothingReserved /\ r1[t] = one_game.a
    BY <2>2, InFlightFinite DEF Restricts, NothingReserved
  <2>4. QuotaInv(rows, r1, interval) /\ interval \in Intervals /\ Stratum(one_game.a) \in Strata
    BY <1>6 DEF SingleInv
  <2> HIDE DEF r1, t
  <2>5. QuotaInv(append(rows, Stratum(r1[t])), NothingReserved, interval)
    BY <1>6, <2>3, <2>4, QuotaScored
  <2>6. InFlight(one_game', one_filed') = NothingReserved BY <1>6 DEF InFlight
  <2> QED BY <1>2, <1>6, <2>3, <2>4, <2>5, <2>6 DEF SingleInv
<1> QED BY <1>4, <1>5, <1>6

\* run keeps the invariant: a scored game is withdrawn.
LEMMA SingleRunKeeps ==
  ASSUME SingleInv, Single!run
  PROVE  SingleInv'
<1>1. rows' = rows /\ interval' = interval BY DEF Single!run
<1>2. CASE one_proc' = "refused" /\ UNCHANGED <<one_game, one_filed>>
  BY <1>1, <1>2, GameStays
<1>3. CASE /\ one_filed # "other" /\ one_filed' = "nothing"
           /\ one_game' = IF one_filed = "scored" THEN Single!NoGame ELSE one_game
  <2>1. CASE one_filed = "scored" BY <1>1, <1>3, <2>1, GameGoes
  <2>2. CASE one_filed = "nothing" BY <1>1, <1>3, <2>2, GameStays
  <2> QED BY <1>3, <2>1, <2>2 DEF SingleInv
<1> QED BY <1>2, <1>3 DEF Single!run

\* Every step keeps the invariant.
LEMMA SingleStep ==
  SingleInv /\ [Single!Next]_Single!vars => SingleInv'
<1> SUFFICES ASSUME SingleInv, [Single!Next]_Single!vars PROVE SingleInv' OBVIOUS
<1> USE DEF Single!disk, Single!memory, Single!net
<1>1. CASE Single!Worker
  <2>1. CASE Single!_create_next_table
    <3>1. one_doing.op = "fill" BY <2>1 DEF Single!_create_next_table, Single!Calling
    <3> QED BY <2>1, <3>1, GameStays DEF Single!_create_next_table, Single!Calling, SingleInv
  <2>2. CASE Single!SendCommand
    <3>1. one_filed = "nothing" BY <2>2 DEF Single!SendCommand, Single!Sends, SingleInv
    <3> QED BY <2>2, <3>1, GameStays DEF Single!SendCommand
  <2>3. CASE Single!SendRaises
    <3>1. one_filed = "nothing" BY <2>3 DEF Single!SendRaises, Single!Sends, SingleInv
    <3> QED BY <2>3, <3>1, GameStays DEF Single!SendRaises, Single!ConnectionFails
  <2>4. CASE Single!ReadRaises
    <3>1. one_filed = "nothing" BY <2>4 DEF Single!ReadRaises, Single!Nothing, SingleInv
    <3> QED BY <2>4, <3>1, GameStays DEF Single!ReadRaises, Single!ConnectionFails
  <2>5. CASE Single!withdraw BY <2>5, GameGoes DEF Single!withdraw
  <2>6. CASE Single!decide
    <3>1. one_filed = "nothing" BY <2>6 DEF Single!decide, Single!Calling, SingleInv
    <3> QED BY <2>6, <3>1, GameStays DEF Single!decide
  <2>7. CASE Single!fail BY <2>7, GameGoes DEF Single!fail
  <2>8. CASE Single!_on_destroy
    <3>1. one_filed = "nothing" BY <2>8 DEF Single!_on_destroy, Single!Calling, SingleInv
    <3>2. UNCHANGED <<rows, one_game, one_filed, interval>> BY <2>8 DEF Single!_on_destroy
    <3>3. one_proc' \in {one_proc, "failed"} BY <2>8 DEF Single!_on_destroy, Single!Stop
    <3> QED BY <2>8, <3>1, <3>2, <3>3, GameStays
  <2>9. CASE Single!_wait_for_mirror_capacity
    <3>1. one_filed = "nothing"
      BY <2>9 DEF Single!_wait_for_mirror_capacity, Single!Calling, SingleInv
    <3> QED BY <2>9, <3>1, GameStays DEF Single!_wait_for_mirror_capacity
  <2> QED BY <1>1, <2>1, <2>2, <2>3, <2>4, <2>5, <2>6, <2>7, <2>8, <2>9 DEF Single!Worker
<1>2. CASE Single!Handlers
  <2>1. \A event : Single!Reading(event) => one_filed = "nothing"
    BY DEF Single!Reading, Single!Nothing, SingleInv
  <2>2. CASE Single!_event_is_foreign
    <3>1. one_filed = "nothing" BY <2>1, <2>2 DEF Single!_event_is_foreign
    <3> QED BY <2>2, <3>1, GameStays DEF Single!_event_is_foreign
  <2>3. CASE Single!_on_create
    <3>1. one_filed = "nothing" BY <2>1, <2>3 DEF Single!_on_create
    <3> QED BY <2>3, <3>1, GameStays DEF Single!_on_create
  <2>4. CASE Single!_on_end BY <2>4, SingleEndKeeps
  <2>5. CASE Single!_on_table_error
    <3>1. /\ UNCHANGED <<rows, one_game, interval>> /\ one_filed' = "other"
          /\ one_doing'.op = "fail"
      BY <2>5 DEF Single!_on_table_error, Single!append_failure_without_terminal, Single!Do
    <3> QED BY <3>1, GameStays
  <2>6. CASE Single!WithoutGame
    <3>1. one_filed = "nothing"
      BY <2>6 DEF Single!WithoutGame, Single!Nothing, SingleInv
    <3> QED BY <2>6, <3>1, GameStays DEF Single!WithoutGame
  <2>7. CASE Single!destroyed
    <3>1. one_filed = "nothing" BY <2>1, <2>7 DEF Single!destroyed
    <3> QED BY <2>7, <3>1, GameStays DEF Single!destroyed
  <2>8. ASSUME NEW stack \in 0..Stacks, NEW seat \in 0..(Seats - 1),
               Single!_on_start_preapply(stack, seat)
        PROVE  SingleInv'
    BY <2>8, SingleStartKeeps
  <2> QED BY <1>2, <2>2, <2>3, <2>4, <2>5, <2>6, <2>7, <2>8 DEF Single!Handlers
<1>3. CASE Single!Session
  <2>1. CASE Single!_run_connected_session
    <3>1. one_filed = "nothing"
      BY <2>1 DEF Single!_run_connected_session, Single!Nothing, SingleInv
    <3> QED BY <2>1, <3>1, GameStays DEF Single!_run_connected_session
  <2>2. CASE Single!run BY <2>2, SingleRunKeeps
  <2>3. CASE Single!Die
    <3>1. UNCHANGED <<rows, one_game, one_filed, interval>> /\ one_proc' = "down"
      BY <2>3 DEF Single!Die, Single!Stop
    <3> QED BY <3>1, GameStays
  <2>4. CASE Single!Break
    <3>1. UNCHANGED <<rows, one_game, one_filed, interval, one_proc, one_doing>>
      BY <2>4 DEF Single!Break
    <3> QED BY <3>1 DEF SingleInv
  <2>5. CASE Single!Drain
    <3>1. UNCHANGED <<rows, one_game, one_filed, interval, one_proc, one_doing>>
      BY <2>5 DEF Single!Drain
    <3> QED BY <3>1 DEF SingleInv
  <2> QED BY <1>3, <2>1, <2>2, <2>3, <2>4, <2>5 DEF Single!Session
<1>4. CASE Single!Server
  <2>1. UNCHANGED <<rows, one_game, one_filed, interval, one_proc, one_doing>>
    BY <1>4 DEF Single!Server, Single!ServerTakes, Single!StartGame, Single!EndGame,
               Single!Plays, Single!Refuse
  <2> QED BY <2>1 DEF SingleInv
<1>5. CASE UNCHANGED Single!vars
  <2>1. UNCHANGED <<rows, one_game, one_filed, interval, one_proc, one_doing>>
    BY <1>5 DEF Single!vars
  <2> QED BY <2>1 DEF SingleInv
<1> QED BY <1>1, <1>2, <1>3, <1>4, <1>5 DEF Single!Next

\* The same with one table, over replays, pauses and lost connections
\* (ExternalGateWorker).
THEOREM SingleQuotasKept ==
  Single!Spec => []Single!SingleIsBalanced
<1>1. Single!Spec => []SingleInv BY SingleStarts, SingleStep, PTL DEF Single!Spec
<1> QED BY <1>1, SingleBalanced, PTL

\* Whichever worker plays the campaign keeps the quotas (choose_arm_for_stratum).
THEOREM Quotas ==
  GateSpec => []QuotasAreKept
<1>1. [UNCHANGED script]_script => /\ script = "campaign" <=> (script = "campaign")'
                                   /\ script = "single" <=> (script = "single")'
  OBVIOUS
<1>2. QuotasAreKept <=> /\ script = "campaign" => LooksAreBalanced
                        /\ script = "single" => Single!SingleIsBalanced
  BY DEF QuotasAreKept
<1> QED BY <1>1, <1>2, CampaignQuotasKept, SingleQuotasKept, PTL DEF GateSpec

-----------------------------------------------------------------------------
(* The departures of the worker of one table.                                *)

\* What is on the wire, and the calls at a table.
Commands == [command : {"create", "ready", "leave"}, t : Names]
Events == [event : {"create", "start", "end", "error", "destroy"}, t : Names]
TableCalls == Single!Sends \cup {"withdraw", "decide", "fail", "retire"}

\* Lines that tell of games, and the end of the table.
Play == {"start", "end", "destroy"}
NoLine(t) == \A i \in DOMAIN one_down : one_down[i].t # t
NoPlay(t) == \A i \in DOMAIN one_down : one_down[i].t = t => one_down[i].event \notin Play

\* A table on which nothing goes on, and one the server has not heard of.
IdleTable(t) == t = one_table /\ one_server[t] = "open" /\ NoPlay(t) /\ one_game = Single!NoGame
NewTable(t) == t = one_expected /\ one_server[t] = "none" /\ NoLine(t)

\* The values the variables take.
SingleTypes ==
    /\ one_marker = Single!NoMarker \/ one_marker \in [t : Names, log : {"nothing", "left", "confirmed"}]
    /\ one_game = Single!NoGame \/ one_game.t \in Names
    /\ one_table \in Names \cup {Single!NONE} /\ one_expected \in Names \cup {Single!NONE}
    /\ one_pause \in BOOLEAN
    /\ one_doing.op \in TableCalls => one_doing.t \in Names
    /\ one_doing.op \in TableCalls \cup {"fill", "wait", "nothing"}
    /\ one_proc \in {"up", "down", "failed", "done", "refused"}
    /\ one_conn \in {"closed", "up", "broken"}
    /\ one_server \in [Names -> {"none", "open", "ready", "playing"}]
    /\ one_up \in Seq(Commands) /\ one_down \in Seq(Events)

\* The line under way, if any, is the only one, and no call is in progress.
LineIsLast ==
    \/ one_up = <<>>
    \/ /\ Len(one_up) = 1 /\ one_doing.op \in {"nothing", "fail"}
       /\ one_up[1].command = "create" => NewTable(one_up[1].t)
       /\ one_up[1].command # "create" => IdleTable(one_up[1].t)

\* What each call finds.
CallsFit ==
    /\ one_doing.op # "wait"
    /\ one_doing.op = "fill" => one_table = Single!NONE
    /\ one_doing.op = "create" => NewTable(one_doing.t)
    /\ one_doing.op \in {"ready", "leave", "last_leave", "decide"} => IdleTable(one_doing.t)
    /\ one_doing.op = "withdraw" =>
          one_doing.t = one_table /\ one_server[one_doing.t] = "open" /\ NoPlay(one_doing.t)
    /\ one_doing.op = "retire" =>
          one_doing.t = one_table /\ one_server[one_doing.t] = "none" /\ NoLine(one_doing.t)
            /\ one_game = Single!NoGame

\* The lines of a table come in the order of what they tell.
Ordered ==
    \A i, j \in DOMAIN one_down : i < j /\ one_down[i].t = one_down[j].t =>
        /\ one_down[i].event # "destroy"
        /\ one_down[i].event = "end" => one_down[j].event \notin Play
        /\ one_down[j].event = "destroy" => one_down[i].event \notin Play

\* What a line still tells of the server.
LinesHold ==
    \A i \in DOMAIN one_down :
        /\ one_down[i].event = "end" => one_server[one_down[i].t] = "open"
        /\ one_down[i].event = "destroy" =>
              one_down[i].t = one_table /\ one_server[one_down[i].t] = "none" /\ one_up = <<>>
                /\ one_game = Single!NoGame
        /\ one_server[one_down[i].t] = "none" => one_down[i].t = one_table

\* The table it waits for is not played at.
ExpectedWaits ==
    one_expected # Single!NONE =>
        /\ one_table = Single!NONE /\ one_server[one_expected] \in {"none", "open"} /\ NoPlay(one_expected)
        /\ \A i \in DOMAIN one_up : one_up[i].command = "create" /\ one_up[i].t = one_expected

\* What a worker that is up remembers, and one that is not.
MemoryFits ==
    /\ one_proc = "up" => one_game.t \in {Single!NONE, one_table} /\ ExpectedWaits
    /\ one_proc \in {"down", "failed", "refused"} =>
          one_doing = Single!Nothing /\ one_conn = "closed" /\ one_table = Single!NONE
            /\ one_expected = Single!NONE
    /\ one_conn = "closed" => one_down = <<>>
    /\ one_proc = "up" /\ one_conn = "closed" => one_doing.op \in {"nothing", "wait"}

SessionFits == one_proc = "up" /\ one_conn # "closed" => LineIsLast /\ CallsFit /\ Ordered /\ LinesHold

\* While a departure is pending nothing is played or opened, and the table is the
\* one it is for.
Departing ==
    one_marker # Single!NoMarker =>
        /\ one_game = Single!NoGame /\ one_proc # "done"
        /\ \A i \in DOMAIN one_up : one_up[i].command = "leave"
        /\ one_proc # "up" /\ one_marker.log = "confirmed" => one_server[one_marker.t] = "none"
        /\ one_proc = "up" =>
              /\ one_conn # "closed" /\ one_pause /\ one_table = one_marker.t
              /\ one_server[one_table] \in {"none", "open"}
              /\ \A i \in DOMAIN one_down :
                    one_down[i].t = one_table => one_down[i].event \notin {"start", "end"}
              /\ one_doing.op \in {"nothing", "leave", "retire"}
              /\ one_marker.log = "confirmed" => one_doing.op = "retire"

DepartureInv == SingleTypes /\ MemoryFits /\ SessionFits /\ Departing

-----------------------------------------------------------------------------
\* The records of the worker.
LEMMA PlainRecords ==
  /\ Single!NoGame.t = Single!NONE /\ Single!NoMarker.t = Single!NONE /\ Single!NoMarker.log = "nothing"
  /\ Single!Nothing.op = "nothing" /\ Single!Fill.op = "fill" /\ Single!Wait.op = "wait"
  /\ \A op, t : Single!Do(op, t).op = op /\ Single!Do(op, t).t = t
BY DEF Single!NoGame, Single!NoMarker, Single!Nothing, Single!Fill, Single!Wait, Single!Do

\* The first of a sequence, and the rest.
LEMMA HeadAndTail ==
  ASSUME NEW S, NEW s \in Seq(S), s # <<>>
  PROVE  /\ 1 \in DOMAIN s /\ Head(s) = s[1] /\ Head(s) \in S /\ Tail(s) \in Seq(S)
         /\ \A j \in DOMAIN Tail(s) : j \in Nat /\ j > 0 /\ j + 1 \in DOMAIN s /\ Tail(s)[j] = s[j + 1]
         /\ Len(s) = 1 => Tail(s) = <<>>
<1>1. Len(s) \in Nat /\ Len(s) # 0 /\ DOMAIN s = 1..Len(s) BY EmptySeq, LenProperties
<1>2. /\ Tail(s) \in Seq(S) /\ Len(Tail(s)) = Len(s) - 1
      /\ \A i \in 1..Len(Tail(s)) : Tail(s)[i] = s[i + 1]
  BY HeadTailProperties
<1>3. DOMAIN Tail(s) = 1..(Len(s) - 1) BY <1>2, LenProperties
<1>4. Head(s) = s[1] /\ Head(s) \in S BY <1>1, HeadTailProperties, ElementOfSeq
<1>5. ASSUME Len(s) = 1 PROVE Tail(s) = <<>>
  <2>1. \A r \in Seq(S) : Len(r) = 0 => r = <<>> BY EmptySeq
  <2>2. Len(Tail(s)) = 0 BY <1>2, <1>5
  <2> HIDE <1>5
  <2> QED BY ONLY <1>2, <2>1, <2>2, Zenon
<1> QED BY <1>1, <1>2, <1>3, <1>4, <1>5

\* A line more,
LEMMA LineMore ==
  ASSUME NEW S, NEW s \in Seq(S), NEW x \in S
  PROVE  /\ Append(s, x) \in Seq(S)
         /\ \A j \in DOMAIN Append(s, x) :
               /\ j \in Nat
               /\ \/ j \in DOMAIN s /\ Append(s, x)[j] = s[j] /\ j < Len(s) + 1
                  \/ j = Len(s) + 1 /\ Append(s, x)[j] = x
         /\ s = <<>> => Len(Append(s, x)) = 1 /\ Append(s, x)[1] = x
<1>1. Len(s) \in Nat /\ DOMAIN s = 1..Len(s) BY LenProperties
<1>2. /\ Append(s, x) \in Seq(S) /\ Len(Append(s, x)) = Len(s) + 1
      /\ \A i \in 1..Len(s) : Append(s, x)[i] = s[i]
      /\ Append(s, x)[Len(s) + 1] = x
  BY AppendProperties
<1>3. DOMAIN Append(s, x) = 1..(Len(s) + 1) BY <1>2, LenProperties
<1>4. s = <<>> => Len(s) = 0 BY EmptySeq
<1> QED BY <1>1, <1>2, <1>3, <1>4

\* and lines that are lost.
LEMMA LinesLess ==
  ASSUME NEW S, NEW s \in Seq(S), NEW n \in 0..Len(s)
  PROVE  /\ SubSeq(s, 1, n) \in Seq(S)
         /\ \A j \in DOMAIN SubSeq(s, 1, n) : j \in Nat /\ j \in DOMAIN s /\ SubSeq(s, 1, n)[j] = s[j]
         /\ Len(s) = 1 => SubSeq(s, 1, n) = <<>> \/ SubSeq(s, 1, n) = s
<1>1. Len(s) \in Nat /\ DOMAIN s = 1..Len(s) /\ n \in Nat /\ n <= Len(s) BY LenProperties
<1>2. \A i \in 1..n : s[i] \in S BY <1>1, ElementOfSeq
<1>3. /\ SubSeq(s, 1, n) \in Seq(S)
      /\ Len(SubSeq(s, 1, n)) = IF 1 <= n THEN n - 1 + 1 ELSE 0
      /\ \A i \in 1..(n - 1 + 1) : SubSeq(s, 1, n)[i] = s[1 + i - 1]
  BY ONLY <1>1, <1>2, SubSeqProperties, 1 \in Int
<1>4. Len(SubSeq(s, 1, n)) = n BY <1>1, <1>3
<1>5. DOMAIN SubSeq(s, 1, n) = 1..n BY <1>3, <1>4, LenProperties
<1>6. n = 0 => SubSeq(s, 1, n) = <<>> BY <1>3, <1>4, EmptySeq
<1>7. n = Len(s) => SubSeq(s, 1, n) = s BY SubSeqFull
<1>8. \A j \in 1..n : j \in Nat /\ j \in DOMAIN s /\ SubSeq(s, 1, n)[j] = s[j]
  BY <1>1, <1>3
<1>9. Len(s) = 1 => n = 0 \/ n = Len(s) BY <1>1
<1> QED BY <1>3, <1>5, <1>6, <1>7, <1>8, <1>9

\* Each line is one.
LEMMA LinesAreLines ==
  ASSUME SingleTypes
  PROVE  /\ \A i \in DOMAIN one_up : one_up[i] \in Commands /\ one_up[i].t \in Names
         /\ \A i \in DOMAIN one_down : one_down[i] \in Events /\ one_down[i].t \in Names
<1>1. \A i \in DOMAIN one_up : one_up[i] \in Commands BY ElementOfSeq, LenProperties DEF SingleTypes
<1>2. \A i \in DOMAIN one_down : one_down[i] \in Events BY ElementOfSeq, LenProperties DEF SingleTypes
<1> QED BY <1>1, <1>2 DEF Commands, Events

\* Lines that are still there, in their order.
Keeps(r, s) == \E k \in Nat : \A j \in DOMAIN r : j \in Nat /\ j + k \in DOMAIN s /\ r[j] = s[j + k]

LEMMA KeepsItself ==
  ASSUME NEW S, NEW s \in Seq(S)
  PROVE  /\ Keeps(s, s) /\ Keeps(<<>>, s)
         /\ s # <<>> => Keeps(Tail(s), s)
         /\ \A n \in 0..Len(s) : Keeps(SubSeq(s, 1, n), s)
<1>1. Keeps(s, s)
  <2>1. \A j \in DOMAIN s : j \in Nat /\ j + 0 \in DOMAIN s /\ s[j] = s[j + 0] BY LenProperties
  <2> QED BY <2>1 DEF Keeps
<1>2. Keeps(<<>>, s)
  <2>1. DOMAIN <<>> = {} OBVIOUS
  <2> QED BY <2>1 DEF Keeps
<1>3. ASSUME s # <<>> PROVE Keeps(Tail(s), s)
  BY <1>3, HeadAndTail DEF Keeps
<1>4. ASSUME NEW n \in 0..Len(s) PROVE Keeps(SubSeq(s, 1, n), s)
  <2>1. \A j \in DOMAIN SubSeq(s, 1, n) :
           j \in Nat /\ j + 0 \in DOMAIN s /\ SubSeq(s, 1, n)[j] = s[j + 0]
    BY LinesLess
  <2> QED BY <2>1 DEF Keeps
<1> QED BY <1>1, <1>2, <1>3, <1>4

\* What they say nothing of, and the order they are in.
LEMMA LessIsHeard ==
  ASSUME SingleTypes, Keeps(one_down', one_down)
  PROVE  /\ \A t : (NoLine(t) => NoLine(t)') /\ (NoPlay(t) => NoPlay(t)')
         /\ Ordered => Ordered'
         /\ \A j \in DOMAIN one_down' : \E i \in DOMAIN one_down : one_down'[j] = one_down[i]
<1>1. PICK k \in Nat : \A j \in DOMAIN one_down' : j \in Nat /\ j + k \in DOMAIN one_down
                                                     /\ one_down'[j] = one_down[j + k]
  BY DEF Keeps
<1>2. \A t : (NoLine(t) => NoLine(t)') /\ (NoPlay(t) => NoPlay(t)')
  BY <1>1 DEF NoLine, NoPlay
<1>3. ASSUME Ordered PROVE Ordered'
  <2> SUFFICES ASSUME NEW i \in DOMAIN one_down', NEW j \in DOMAIN one_down', i < j,
                      one_down'[i].t = one_down'[j].t
               PROVE  /\ one_down'[i].event # "destroy"
                      /\ one_down'[i].event = "end" => one_down'[j].event \notin Play
                      /\ one_down'[j].event = "destroy" => one_down'[i].event \notin Play
    BY DEF Ordered
  <2>1. i + k < j + k BY <1>1
  <2> QED BY <1>1, <1>3, <2>1 DEF Ordered
<1> QED BY <1>1, <1>2, <1>3

\* The invariant at first.
LEMMA DepartureStarts ==
  Single!Init => DepartureInv
<1> SUFFICES ASSUME Single!Init PROVE DepartureInv OBVIOUS
<1>1. SingleTypes
  <2>1. <<>> \in Seq(Commands) /\ <<>> \in Seq(Events) BY EmptySeq
  <2> QED BY <2>1, PlainRecords DEF Single!Init, SingleTypes, TableCalls, Single!Sends
<1>2. MemoryFits /\ SessionFits /\ Departing
  BY PlainRecords DEF Single!Init, MemoryFits, SessionFits, Departing, ExpectedWaits
<1> QED BY <1>1, <1>2 DEF DepartureInv

\* A departure that is confirmed, at a table that is gone.
LEMMA ConfirmedIsGone ==
  ASSUME DepartureInv, one_marker # Single!NoMarker, one_marker.log = "confirmed"
  PROVE  one_server[one_marker.t] = "none"
<1>1. CASE one_proc # "up" BY <1>1 DEF DepartureInv, Departing
<1>2. CASE one_proc = "up"
  <2>1. one_conn # "closed" /\ one_table = one_marker.t /\ one_doing.op = "retire"
    BY <1>2 DEF DepartureInv, Departing
  <2> QED BY <1>2, <2>1 DEF DepartureInv, SessionFits, CallsFit
<1> QED BY <1>1, <1>2

\* The worker stops.
LEMMA StopKeeps ==
  ASSUME DepartureInv, NEW how \in {"down", "failed"}, Single!Stop(how),
         UNCHANGED <<one_server, one_marker>>,
         one_up' \in Seq(Commands),
         one_marker # Single!NoMarker => \A i \in DOMAIN one_up' : one_up'[i].command = "leave",
         one_game' \in {one_game, Single!NoGame}
  PROVE  DepartureInv'
<1>1. /\ one_proc' = how /\ one_doing' = Single!Nothing /\ one_conn' = "closed" /\ one_down' = <<>>
      /\ one_table' = Single!NONE /\ one_expected' = Single!NONE /\ one_pause' = FALSE
  BY DEF Single!Stop, Single!Hangup
<1>2. SingleTypes'
  <2>1. <<>> \in Seq(Events) BY EmptySeq
  <2> QED BY <1>1, <2>1, PlainRecords DEF DepartureInv, SingleTypes, TableCalls, Single!Sends
<1>3. MemoryFits' BY <1>1 DEF MemoryFits
<1>4. SessionFits' BY <1>1 DEF SessionFits
<1>5. Departing'
  <2> SUFFICES ASSUME one_marker # Single!NoMarker PROVE Departing' BY DEF Departing
  <2>1. one_game = Single!NoGame BY DEF DepartureInv, Departing
  <2>2. one_marker.log = "confirmed" => one_server[one_marker.t] = "none" BY ConfirmedIsGone
  <2> QED BY <1>1, <2>1, <2>2 DEF Departing
<1> QED BY <1>2, <1>3, <1>4, <1>5 DEF DepartureInv

\* Another table destroyed than the one to leave.
Mismatch == Single!_on_destroy /\ one_pause /\ one_marker.t # one_doing.t

\* Die, WithoutGame, fail, Mismatch and a connection that fails with a departure
\* pending.
LEMMA StopsKeep ==
  ASSUME DepartureInv, Single!Die \/ Single!WithoutGame \/ Single!fail \/ Mismatch
           \/ (one_pause /\ Single!ConnectionFails /\ one_proc = "up")
  PROVE  DepartureInv'
<1>0. /\ one_up \in Seq(Commands)
      /\ one_marker # Single!NoMarker => \A i \in DOMAIN one_up : one_up[i].command = "leave"
  BY DEF DepartureInv, SingleTypes, Departing
<1>1. CASE Single!Die
  <2>1. PICK n \in 0..Len(one_up) : one_up' = SubSeq(one_up, 1, n) BY <1>1 DEF Single!Die
  <2>2. one_up' \in Seq(Commands) /\ \A j \in DOMAIN one_up' : j \in DOMAIN one_up /\ one_up'[j] = one_up[j]
    BY <1>0, <2>1, LinesLess
  <2>3. Single!Stop("down") /\ UNCHANGED <<one_server, one_marker, one_game>>
    BY <1>1 DEF Single!Die, Single!disk
  <2> QED BY <1>0, <2>2, <2>3, StopKeeps
<1>2. CASE Single!WithoutGame
  <2>1. Single!Stop("failed") /\ UNCHANGED <<one_server, one_marker, one_game, one_up>>
    BY <1>2 DEF Single!WithoutGame, Single!disk
  <2> QED BY <1>0, <2>1, StopKeeps
<1>3. CASE Single!fail
  <2>1. Single!Stop("failed") /\ UNCHANGED <<one_server, one_marker>> /\ one_game' = Single!NoGame
    BY <1>3 DEF Single!fail
  <2>2. one_marker = Single!NoMarker
    BY <1>3 DEF DepartureInv, Departing, Single!fail, Single!Calling
  <2>3. one_up' = one_up \/ \E u \in Names : one_up' = Append(one_up, [command |-> "leave", t |-> u])
    BY <1>3 DEF Single!fail
  <2>4. one_up' \in Seq(Commands)
    <3>1. \A u \in Names : [command |-> "leave", t |-> u] \in Commands BY DEF Commands
    <3> QED BY <1>0, <2>3, <3>1, LineMore
  <2> QED BY <2>1, <2>2, <2>4, StopKeeps
<1>4. CASE one_pause /\ Single!ConnectionFails /\ one_proc = "up"
  <2>1. Single!Stop("failed") /\ UNCHANGED <<one_server, one_marker, one_game, one_up>>
    BY <1>4 DEF Single!ConnectionFails, Single!disk
  <2> QED BY <1>0, <2>1, StopKeeps
<1>5. CASE Mismatch
  <2>1. Single!Stop("failed") /\ UNCHANGED <<one_server, one_marker, one_game, one_up>>
    BY <1>5 DEF Mismatch, Single!_on_destroy
  <2> QED BY <1>0, <2>1, StopKeeps
<1> QED BY <1>1, <1>2, <1>3, <1>4, <1>5

\* A connection that fails with none pending: the table is remembered.
LEMMA HangupKeeps ==
  ASSUME DepartureInv, ~one_pause, Single!ConnectionFails, one_proc = "up"
  PROVE  DepartureInv'
<1>1. /\ UNCHANGED <<one_marker, one_game, one_table, one_expected, one_pause, one_proc, one_server,
                     one_up>>
      /\ one_doing' = Single!Nothing /\ one_conn' = "closed" /\ one_down' = <<>>
  BY DEF Single!ConnectionFails, Single!Hangup, Single!disk, Single!memory
<1>2. one_marker = Single!NoMarker BY DEF DepartureInv, Departing
<1>3. SingleTypes'
  <2>1. <<>> \in Seq(Events) BY EmptySeq
  <2> QED BY <1>1, <2>1, PlainRecords DEF DepartureInv, SingleTypes, TableCalls, Single!Sends
<1>4. MemoryFits'
  BY <1>1, PlainRecords DEF DepartureInv, MemoryFits, ExpectedWaits, NoPlay
<1> QED BY <1>1, <1>2, <1>3, <1>4 DEF DepartureInv, SessionFits, Departing

\* A call in progress, and what it finds.
LEMMA CallFinds ==
  ASSUME DepartureInv, one_proc = "up", one_doing.op \in
             (Single!Sends \cup {"fill", "withdraw", "decide", "retire"})
  PROVE  /\ one_conn # "closed" /\ one_up = <<>> /\ CallsFit /\ Ordered /\ LinesHold
         /\ one_doing.op # "fill" => one_doing.t \in Names
         /\ one_game.t \in {Single!NONE, one_table} /\ ExpectedWaits
         /\ one_doing.op \notin {"leave", "retire"} => one_marker = Single!NoMarker
<1>1. one_conn # "closed" BY DEF DepartureInv, MemoryFits, Single!Sends
<1>2. one_up = <<>> BY <1>1 DEF DepartureInv, SessionFits, LineIsLast, Single!Sends
<1>3. one_doing.op # "fill" => one_doing.t \in Names
  BY DEF DepartureInv, SingleTypes, TableCalls
<1>4. one_doing.op \notin {"leave", "retire"} => one_marker = Single!NoMarker
  BY DEF DepartureInv, Departing, Single!Sends
<1> QED BY <1>1, <1>2, <1>3, <1>4 DEF DepartureInv, SessionFits, MemoryFits

\* _create_next_table.
LEMMA CreateKeeps ==
  ASSUME DepartureInv, Single!_create_next_table
  PROVE  DepartureInv'
<1>1. one_proc = "up" /\ one_doing.op = "fill" BY DEF Single!_create_next_table, Single!Calling
<1>2. /\ one_conn # "closed" /\ one_up = <<>> /\ one_table = Single!NONE /\ one_marker = Single!NoMarker
      /\ Ordered /\ LinesHold /\ one_game.t \in {Single!NONE, one_table} /\ ExpectedWaits
  BY <1>1, CallFinds DEF CallsFit
<1>3. UNCHANGED <<one_game, one_marker, one_table, one_pause, one_proc, one_conn, one_server, one_up,
                  one_down>>
  BY DEF Single!_create_next_table, Single!disk, Single!net
<1>4. \/ one_doing' = Single!Nothing /\ one_expected' = one_expected
      \/ /\ one_expected' \in Names /\ Single!Fresh(one_expected')
         /\ one_doing' = Single!Do("create", one_expected')
  <2>1. CASE Single!Target = 0 BY <2>1 DEF Single!_create_next_table
  <2>2. CASE Single!Target # 0
    <3>1. /\ \E t \in Names : Single!Fresh(t)
          /\ one_expected' = CHOOSE t \in Names : Single!Fresh(t)
          /\ one_doing' = Single!Do("create", one_expected')
      BY <2>2 DEF Single!_create_next_table
    <3>2. one_expected' \in Names /\ Single!Fresh(one_expected') BY <3>1, Zenon
    <3> QED BY <3>1, <3>2
  <2> QED BY <2>1, <2>2
<1>5. Single!NONE \notin Names BY NamesAssumption
<1>6. CASE one_doing' = Single!Nothing /\ one_expected' = one_expected
  <2>1. SingleTypes'
    BY <1>3, <1>6, PlainRecords DEF DepartureInv, SingleTypes, TableCalls, Single!Sends, Commands, Events
  <2>2. ExpectedWaits' BY <1>2, <1>3, <1>6 DEF ExpectedWaits, NoPlay
  <2>3. (LineIsLast /\ CallsFit /\ Ordered /\ LinesHold)'
    BY <1>2, <1>3, <1>6, PlainRecords DEF LineIsLast, CallsFit, Ordered, LinesHold
  <2> QED BY <1>1, <1>2, <1>3, <1>6, <2>1, <2>2, <2>3
          DEF DepartureInv, MemoryFits, SessionFits, Departing
<1>7. CASE one_expected' \in Names /\ Single!Fresh(one_expected')
             /\ one_doing' = Single!Do("create", one_expected')
  <2>0. one_doing'.op = "create" /\ one_doing'.t = one_expected' BY <1>7, PlainRecords
  <2>1. SingleTypes'
    BY <1>3, <1>7, <2>0 DEF DepartureInv, SingleTypes, TableCalls, Single!Sends, Commands, Events
  <2>2. one_server[one_expected'] = "none" BY <1>7 DEF Single!Fresh
  <2>3. NoLine(one_expected')
    BY <1>2, <1>5, <1>7, <2>2 DEF LinesHold, NoLine
  <2>4. ExpectedWaits' BY <1>2, <1>3, <2>2, <2>3 DEF ExpectedWaits, NoPlay, NoLine
  <2>5. NewTable(one_expected)' BY <1>3, <2>2, <2>3 DEF NewTable, NoLine
  <2>6. (LineIsLast /\ CallsFit /\ Ordered /\ LinesHold)'
    BY <1>2, <1>3, <2>0, <2>5 DEF LineIsLast, CallsFit, Ordered, LinesHold
  <2> QED BY <1>1, <1>2, <1>3, <2>1, <2>4, <2>6
          DEF DepartureInv, MemoryFits, SessionFits, Departing
<1> QED BY <1>4, <1>6, <1>7

\* The line is sent, or lost.
LEMMA SendKeeps ==
  ASSUME DepartureInv, Single!SendCommand
  PROVE  DepartureInv'
<1> DEFINE line == [command |-> IF one_doing.op \in {"leave", "last_leave"} THEN "leave" ELSE one_doing.op,
                    t |-> one_doing.t]
<1>1. one_proc = "up" /\ one_doing.op \in Single!Sends /\ one_conn # "closed" BY DEF Single!SendCommand
<1>2. /\ one_up = <<>> /\ CallsFit /\ Ordered /\ LinesHold /\ one_doing.t \in Names
      /\ one_game.t \in {Single!NONE, one_table} /\ ExpectedWaits
      /\ one_doing.op # "leave" => one_marker = Single!NoMarker
  BY <1>1, CallFinds DEF Single!Sends
<1>3. /\ UNCHANGED <<one_game, one_table, one_expected, one_pause, one_conn, one_server,
                     one_down>>
      /\ one_doing' = Single!Nothing
      /\ one_proc' = IF one_doing.op = "last_leave" THEN "done" ELSE "up"
  BY <1>1 DEF Single!SendCommand
<1>4. one_up' = one_up \/ one_up' = Append(one_up, line) BY DEF Single!SendCommand
<1>5. /\ one_marker' = one_marker
      \/ /\ one_doing.op \in {"leave", "last_leave"} /\ one_marker.t = one_doing.t
         /\ one_marker' = [one_marker EXCEPT !.log = "left"]
  BY DEF Single!SendCommand
<1>6. Single!NONE \notin Names BY NamesAssumption
<1>7. line \in Commands BY <1>1, <1>2 DEF Commands, Single!Sends
<1>8. /\ one_up' \in Seq(Commands)
      /\ one_up' = <<>> \/ (Len(one_up') = 1 /\ one_up'[1] = line)
      /\ \A i \in DOMAIN one_up' : one_up'[i] = line
  <2>1. CASE one_up' = one_up BY <1>2, <2>1, EmptySeq
  <2>2. CASE one_up' = Append(one_up, line)
    <3> HIDE DEF line
    <3>1. one_up \in Seq(Commands) BY DEF DepartureInv, SingleTypes
    <3>2. Len(one_up') = 1 /\ one_up'[1] = line /\ one_up' \in Seq(Commands)
      BY <1>2, <1>7, <2>2, <3>1, LineMore
    <3>3. DOMAIN one_up' = {1} BY <3>2, LenProperties
    <3> QED BY <3>2, <3>3
  <2> QED BY <1>4, <2>1, <2>2
<1>9. /\ line.t = one_doing.t
      /\ line.command = IF one_doing.op \in {"leave", "last_leave"} THEN "leave" ELSE one_doing.op
  OBVIOUS
<1>10. \/ one_marker = Single!NoMarker /\ one_marker' = Single!NoMarker
       \/ /\ one_marker # Single!NoMarker
          /\ one_marker \in [t : Names, log : {"nothing", "left", "confirmed"}]
          /\ one_marker' \in [t : Names, log : {"nothing", "left", "confirmed"}]
          /\ one_marker'.t = one_marker.t /\ (one_marker'.log = one_marker.log \/ one_marker'.log = "left")
  <2>1. CASE one_marker = Single!NoMarker BY <1>2, <1>5, <1>6, <2>1, PlainRecords
  <2>2. CASE one_marker # Single!NoMarker
    <3>1. one_marker \in [t : Names, log : {"nothing", "left", "confirmed"}]
      BY <2>2 DEF DepartureInv, SingleTypes
    <3> QED BY <1>5, <2>2, <3>1
  <2> QED BY <2>1, <2>2
<1> HIDE DEF line
<1>11. SingleTypes'
  BY <1>3, <1>8, <1>10, PlainRecords DEF DepartureInv, SingleTypes, TableCalls, Single!Sends
<1>12. one_doing.op = "create" => NewTable(one_doing.t) BY <1>2 DEF CallsFit
<1>13. one_doing.op # "create" => IdleTable(one_doing.t) BY <1>1, <1>2 DEF CallsFit, Single!Sends
<1>14. (one_doing.op # "create" => one_expected = Single!NONE)
  BY <1>2, <1>6, <1>13 DEF ExpectedWaits, IdleTable
<1>15. ExpectedWaits'
  BY <1>2, <1>3, <1>8, <1>9, <1>12, <1>14 DEF ExpectedWaits, NoPlay, NewTable
<1>16. MemoryFits'
  BY <1>1, <1>2, <1>3, <1>15 DEF DepartureInv, MemoryFits
<1>17. LineIsLast'
  BY <1>1, <1>3, <1>8, <1>9, <1>12, <1>13, PlainRecords
     DEF LineIsLast, NewTable, IdleTable, NoPlay, NoLine, Single!Sends
<1>18. (CallsFit /\ Ordered)' BY <1>2, <1>3, PlainRecords DEF CallsFit, Ordered
<1>19. LinesHold'
  <2>1. \A i \in DOMAIN one_down : one_down[i].event # "destroy" \/ one_up' = <<>>
    <3>1. CASE one_doing.op = "create"
      <4>1. one_table = Single!NONE BY <1>2, <1>6, <1>12, <3>1 DEF NewTable, ExpectedWaits
      <4>2. \A i \in DOMAIN one_down : one_down[i].t \in Names BY LinesAreLines DEF DepartureInv
      <4> QED BY <1>2, <1>6, <4>1, <4>2 DEF LinesHold
    <3>2. CASE one_doing.op # "create"
      BY <1>2, <1>13, <3>2 DEF LinesHold, IdleTable, NoPlay, Play
    <3> QED BY <3>1, <3>2
  <2> QED BY <1>2, <1>3, <2>1 DEF LinesHold
<1>20. Departing'
  <2> SUFFICES ASSUME one_marker' # Single!NoMarker PROVE Departing' BY DEF Departing
  <2>1. /\ one_marker # Single!NoMarker /\ one_marker'.t = one_marker.t /\ one_doing.op = "leave"
        /\ one_marker'.log = one_marker.log \/ one_marker'.log = "left"
    BY <1>2, <1>10
  <2>2. one_marker.log # "confirmed" BY <1>1, <2>1 DEF DepartureInv, Departing
  <2>3. /\ one_game = Single!NoGame /\ one_pause /\ one_table = one_marker.t
        /\ one_server[one_table] \in {"none", "open"}
        /\ \A i \in DOMAIN one_down :
              one_down[i].t = one_table => one_down[i].event \notin {"start", "end"}
    BY <1>1, <2>1 DEF DepartureInv, Departing
  <2> QED BY <1>1, <1>3, <1>8, <1>9, <2>1, <2>2, <2>3, PlainRecords DEF Departing
<1> QED BY <1>11, <1>16, <1>17, <1>18, <1>19, <1>20 DEF DepartureInv, SessionFits

\* withdraw.
LEMMA WithdrawLeaves ==
  ASSUME DepartureInv, Single!withdraw
  PROVE  DepartureInv'
<1>1. one_proc = "up" /\ one_doing.op = "withdraw" BY DEF Single!withdraw, Single!Calling
<1>2. /\ one_conn # "closed" /\ one_up = <<>> /\ CallsFit /\ Ordered /\ LinesHold /\ one_doing.t \in Names
      /\ ExpectedWaits /\ one_marker = Single!NoMarker
  BY <1>1, CallFinds
<1>3. /\ UNCHANGED <<one_marker, one_table, one_expected, one_pause, one_proc, one_conn, one_server,
                     one_up, one_down>>
      /\ one_game' = Single!NoGame /\ one_doing'.op = "decide" /\ one_doing'.t = one_doing.t
  BY DEF Single!withdraw, Single!memory, Single!net
<1>4. SingleTypes'
  BY <1>2, <1>3 DEF DepartureInv, SingleTypes, TableCalls, Single!Sends, Commands, Events
<1>5. IdleTable(one_doing.t)' BY <1>1, <1>2, <1>3 DEF CallsFit, IdleTable, NoPlay
<1>6. ExpectedWaits' BY <1>2, <1>3 DEF ExpectedWaits, NoPlay
<1>7. (LineIsLast /\ CallsFit /\ Ordered /\ LinesHold)'
  BY <1>2, <1>3, <1>5, PlainRecords DEF LineIsLast, CallsFit, Ordered, LinesHold
<1> QED BY <1>1, <1>2, <1>3, <1>4, <1>6, <1>7, PlainRecords
        DEF DepartureInv, MemoryFits, SessionFits, Departing

\* decide: a departure begins at a table on which nothing goes on.
LEMMA DecideKeeps ==
  ASSUME DepartureInv, Single!decide
  PROVE  DepartureInv'
<1>1. one_proc = "up" /\ one_doing.op = "decide" BY DEF Single!decide, Single!Calling
<1>2. /\ one_conn # "closed" /\ one_up = <<>> /\ CallsFit /\ Ordered /\ LinesHold /\ one_doing.t \in Names
      /\ ExpectedWaits /\ one_marker = Single!NoMarker /\ one_game.t \in {Single!NONE, one_table}
  BY <1>1, CallFinds
<1>3. UNCHANGED <<one_game, one_table, one_expected, one_proc, one_conn, one_server, one_up, one_down>>
  BY DEF Single!decide, Single!net
<1>4. /\ one_doing'.op \in {"leave", "last_leave", "ready"} /\ one_doing'.t = one_doing.t
      /\ \/ one_marker' = one_marker /\ one_pause' = one_pause
         \/ one_marker' = [t |-> one_doing.t, log |-> "nothing"] /\ one_pause' = TRUE
              /\ one_doing'.op = "leave"
  <2> DEFINE pauses == Single!Target # 0 /\ one_full
             op == IF Single!Target = 0 THEN "last_leave"
                   ELSE IF one_full \/ ~one_doing.a.primary \/ Single!Stack # one_doing.a.stack
                        THEN "leave" ELSE "ready"
  <2>1. one_doing' = Single!Do(op, one_doing.t) BY DEF Single!decide
  <2>2. op \in {"leave", "last_leave", "ready"} /\ (pauses => op = "leave") OBVIOUS
  <2>3. /\ one_marker' = IF pauses THEN [t |-> one_doing.t, log |-> "nothing"] ELSE one_marker
        /\ one_pause' = (one_pause \/ pauses)
    BY DEF Single!decide
  <2>4. pauses \in BOOLEAN OBVIOUS
  <2> HIDE DEF op, pauses
  <2>5. CASE pauses BY <2>1, <2>2, <2>3, <2>5, PlainRecords
  <2>6. CASE ~pauses
    <3>1. one_pause \in BOOLEAN BY DEF DepartureInv, SingleTypes
    <3>2. one_pause' = one_pause BY <2>3, <2>6, <3>1
    <3> QED BY <2>1, <2>2, <2>3, <2>6, <3>2, PlainRecords
  <2> QED BY <2>5, <2>6
<1>5. SingleTypes'
  <2>1. one_pause' \in BOOLEAN BY <1>4 DEF DepartureInv, SingleTypes
  <2>2. one_marker' = Single!NoMarker \/ one_marker' \in [t : Names, log : {"nothing", "left", "confirmed"}]
    BY <1>2, <1>4
  <2> QED
    BY <1>2, <1>3, <1>4, <2>1, <2>2 DEF DepartureInv, SingleTypes, TableCalls, Single!Sends, Commands,
       Events
<1>6. IdleTable(one_doing.t) BY <1>1, <1>2 DEF CallsFit
<1>7. IdleTable(one_doing.t)' BY <1>3, <1>4, <1>6 DEF IdleTable, NoPlay
<1>8. ExpectedWaits' BY <1>2, <1>3 DEF ExpectedWaits, NoPlay
<1>9. (LineIsLast /\ CallsFit /\ Ordered /\ LinesHold)'
  BY <1>2, <1>3, <1>4, <1>7 DEF LineIsLast, CallsFit, Ordered, LinesHold
<1>10. Departing'
  <2> SUFFICES ASSUME one_marker' # Single!NoMarker PROVE Departing' BY DEF Departing
  <2>1. one_marker' = [t |-> one_doing.t, log |-> "nothing"] /\ one_pause' = TRUE /\ one_doing'.op = "leave"
    BY <1>2, <1>4
  <2> QED BY <1>1, <1>2, <1>3, <1>6, <2>1 DEF Departing, IdleTable, NoPlay, Play
<1> QED BY <1>1, <1>2, <1>3, <1>5, <1>8, <1>9, <1>10 DEF DepartureInv, MemoryFits, SessionFits

\* _on_destroy: the table is gone.
LEMMA RetireKeeps ==
  ASSUME DepartureInv, Single!_on_destroy, ~Mismatch
  PROVE  DepartureInv' /\ one_marker' = Single!NoMarker
         /\ (one_marker # Single!NoMarker => one_server[one_marker.t] = "none")
<1>0. ~(one_pause /\ one_marker.t # one_doing.t) BY DEF Mismatch
<1>1. one_proc = "up" /\ one_doing.op = "retire" BY DEF Single!_on_destroy, Single!Calling
<1>2. /\ one_conn # "closed" /\ one_up = <<>> /\ CallsFit /\ Ordered /\ LinesHold /\ one_doing.t \in Names
      /\ ExpectedWaits /\ one_game.t \in {Single!NONE, one_table}
  BY <1>1, CallFinds
<1>3. one_doing.t = one_table /\ one_server[one_table] = "none" /\ NoLine(one_table)
        /\ one_game = Single!NoGame
  BY <1>1, <1>2 DEF CallsFit
<1>4. one_expected = Single!NONE BY <1>2, <1>3, NamesAssumption DEF ExpectedWaits
<1>5. /\ one_marker' = Single!NoMarker /\ one_table' = Single!NONE /\ one_expected' = Single!NONE
      /\ one_marker # Single!NoMarker => one_server[one_marker.t] = "none"
  <2>1. one_marker # Single!NoMarker => one_pause /\ one_table = one_marker.t
    BY <1>1 DEF DepartureInv, Departing
  <2>2. one_marker' = (IF one_pause THEN Single!NoMarker ELSE one_marker) /\ one_table' = Single!NONE
          /\ one_expected' = Single!NONE
    BY <1>0, <1>3, <1>4 DEF Single!_on_destroy
  <2> QED BY <1>3, <2>1, <2>2
<1>6. UNCHANGED <<one_game, one_proc, one_server, one_up>> BY <1>0 DEF Single!_on_destroy
<1>7. \/ one_doing' = Single!Wait /\ one_pause' = FALSE /\ one_conn' = "closed" /\ one_down' = <<>>
      \/ one_doing' \in {Single!Fill, Single!Nothing} /\ UNCHANGED <<one_pause, one_conn, one_down>>
  BY <1>0 DEF Single!_on_destroy, Single!Hangup
<1>8. SingleTypes'
  <2>1. <<>> \in Seq(Events) BY EmptySeq
  <2>2. one_doing'.op \in {"fill", "wait", "nothing"} BY <1>7, PlainRecords
  <2>3. /\ one_pause' \in BOOLEAN /\ one_conn' \in {"closed", "up", "broken"} /\ one_down' \in Seq(Events)
    BY <1>7, <2>1 DEF DepartureInv, SingleTypes
  <2> QED BY <1>5, <1>6, <2>2, <2>3 DEF DepartureInv, SingleTypes, TableCalls, Single!Sends
<1>9. MemoryFits'
  <2>1. ExpectedWaits' BY <1>5 DEF ExpectedWaits
  <2> QED BY <1>1, <1>2, <1>3, <1>5, <1>6, <1>7, <2>1, PlainRecords DEF MemoryFits
<1>10. SessionFits'
  <2>1. CASE one_conn' = "closed" BY <2>1 DEF SessionFits
  <2>2. CASE one_doing' \in {Single!Fill, Single!Nothing} /\ UNCHANGED <<one_pause, one_conn, one_down>>
    <3>1. LinesHold'
      BY <1>2, <1>3, <1>5, <1>6, <2>2 DEF LinesHold, NoLine
    <3> QED BY <1>2, <1>5, <1>6, <2>2, <3>1, PlainRecords
            DEF SessionFits, LineIsLast, CallsFit, Ordered
  <2> QED BY <1>7, <2>1, <2>2
<1>11. Departing' BY <1>5 DEF Departing
<1> QED BY <1>5, <1>8, <1>9, <1>10, <1>11 DEF DepartureInv

\* _wait_for_mirror_capacity and Drain: nothing is at the worker's table that was not.
LEMMA WaitKeeps ==
  ASSUME DepartureInv, Single!_wait_for_mirror_capacity
  PROVE  DepartureInv'
<1>1. one_proc = "up" /\ one_doing.op = "wait" BY DEF Single!_wait_for_mirror_capacity, Single!Calling
<1>2. UNCHANGED <<one_game, one_marker, one_table, one_expected, one_pause, one_proc, one_conn,
                  one_server, one_up, one_down>> /\ one_doing' = Single!Nothing
  BY DEF Single!_wait_for_mirror_capacity, Single!disk, Single!memory, Single!net
<1>3. one_conn = "closed" BY <1>1 DEF DepartureInv, SessionFits, CallsFit
<1>4. one_marker = Single!NoMarker BY <1>1, <1>3 DEF DepartureInv, Departing
<1>5. SingleTypes'
  BY <1>2, PlainRecords DEF DepartureInv, SingleTypes, TableCalls, Single!Sends, Commands, Events
<1>6. MemoryFits'
  <2>1. ExpectedWaits => ExpectedWaits' BY <1>2 DEF ExpectedWaits, NoPlay
  <2> QED BY <1>2, <2>1, PlainRecords DEF DepartureInv, MemoryFits
<1> QED BY <1>2, <1>3, <1>4, <1>5, <1>6 DEF DepartureInv, SessionFits, Departing

\* A step that changes none of this.
LEMMA DepartureStutters ==
  ASSUME DepartureInv,
         UNCHANGED <<one_game, one_marker, one_table, one_expected, one_pause, one_doing, one_proc,
                     one_conn, one_server, one_up, one_down>>
  PROVE  DepartureInv'
<1>1. SingleTypes' BY DEF DepartureInv, SingleTypes, Commands, Events
<1>2. MemoryFits' BY DEF DepartureInv, MemoryFits, ExpectedWaits, NoPlay
<1>3. SessionFits'
  BY DEF DepartureInv, SessionFits, LineIsLast, CallsFit, Ordered, LinesHold, NewTable, IdleTable,
         NoPlay, NoLine
<1>4. Departing' BY DEF DepartureInv, Departing
<1> QED BY <1>1, <1>2, <1>3, <1>4 DEF DepartureInv

\* A line that is read.
LEMMA ReadingIs ==
  ASSUME DepartureInv, NEW event, Single!Reading(event)
  PROVE  /\ one_proc = "up" /\ one_conn # "closed" /\ one_doing.op = "nothing" /\ one_doing = Single!Nothing
         /\ 1 \in DOMAIN one_down /\ Head(one_down) = one_down[1] /\ one_down[1] \in Events
         /\ one_down[1].t \in Names
         /\ one_down[1].event = event
         /\ one_down' \in Seq(Events) /\ Keeps(one_down', one_down)
         /\ LineIsLast /\ CallsFit /\ Ordered /\ LinesHold /\ ExpectedWaits
         /\ one_game.t \in {Single!NONE, one_table}
         /\ event = "end" =>
               \A j \in DOMAIN one_down' : one_down'[j].t = one_down[1].t => one_down'[j].event \notin Play
         /\ event = "destroy" => \A j \in DOMAIN one_down' : one_down'[j].t # one_down[1].t
         /\ \A j \in DOMAIN one_down' : \E i \in DOMAIN one_down : i > 1 /\ one_down'[j] = one_down[i]
         /\ Single!Admitted => one_down[1].t \in {one_table, one_expected}
<1>1. /\ one_proc = "up" /\ one_doing = Single!Nothing /\ one_conn # "closed" /\ one_down # <<>>
      /\ Head(one_down).event = event /\ one_down' = Tail(one_down)
  BY DEF Single!Reading
<1>2. one_doing.op = "nothing" BY <1>1, PlainRecords
<1>3. one_down \in Seq(Events) BY DEF DepartureInv, SingleTypes
<1>4. /\ 1 \in DOMAIN one_down /\ Head(one_down) = one_down[1] /\ one_down[1] \in Events
      /\ one_down' \in Seq(Events)
      /\ \A j \in DOMAIN one_down' : j \in Nat /\ j > 0 /\ j + 1 \in DOMAIN one_down
           /\ one_down'[j] = one_down[j + 1]
  BY <1>1, <1>3, HeadAndTail
<1>5. one_down[1].t \in Names BY <1>4 DEF Events
<1>6. LineIsLast /\ CallsFit /\ Ordered /\ LinesHold /\ ExpectedWaits
        /\ one_game.t \in {Single!NONE, one_table}
  BY <1>1 DEF DepartureInv, SessionFits, MemoryFits
<1>7. Keeps(one_down', one_down) BY <1>1, <1>3, KeepsItself
<1>8. \A j \in DOMAIN one_down' : 1 < j + 1 /\ (one_down[1].t = one_down'[j].t =>
            /\ event # "destroy"
            /\ event = "end" => one_down'[j].event \notin Play)
  BY <1>1, <1>4, <1>6 DEF Ordered
<1>9. /\ event = "end" =>
            \A j \in DOMAIN one_down' : one_down'[j].t = one_down[1].t => one_down'[j].event \notin Play
      /\ event = "destroy" => \A j \in DOMAIN one_down' : one_down'[j].t # one_down[1].t
  BY <1>8
<1>10. Single!Admitted => one_down[1].t \in {one_table, one_expected} BY <1>4, <1>6 DEF Single!Admitted
<1>11. \A j \in DOMAIN one_down' : \E i \in DOMAIN one_down : i > 1 /\ one_down'[j] = one_down[i]
  BY <1>4, <1>8
<1> QED BY <1>1, <1>2, <1>4, <1>5, <1>6, <1>7, <1>9, <1>10, <1>11

\* Lines read for other tables, or lost.
LEMMA LinesLostKeep ==
  ASSUME DepartureInv, one_conn # "closed", one_conn' \in {"up", "broken"},
         UNCHANGED <<one_game, one_marker, one_table, one_expected, one_pause, one_doing, one_proc,
                     one_server>>,
         one_down' \in Seq(Events), Keeps(one_down', one_down),
         one_up' \in Seq(Commands), one_up' \in {one_up, <<>>} \/ one_proc # "up"
  PROVE  DepartureInv'
<1>1. SingleTypes' BY DEF DepartureInv, SingleTypes
<1>2. /\ \A t : (NoLine(t) => NoLine(t)') /\ (NoPlay(t) => NoPlay(t)')
      /\ Ordered => Ordered'
      /\ \A j \in DOMAIN one_down' : \E i \in DOMAIN one_down : one_down'[j] = one_down[i]
  BY LessIsHeard DEF DepartureInv
<1>3. CASE one_proc # "up"
  <2>1. one_proc = "done" BY <1>3 DEF DepartureInv, MemoryFits, SingleTypes
  <2> QED BY <1>1, <2>1 DEF DepartureInv, MemoryFits, SessionFits, Departing
<1>4. CASE one_proc = "up"
  <2>1. LineIsLast /\ CallsFit /\ Ordered /\ LinesHold /\ ExpectedWaits
    BY <1>4 DEF DepartureInv, MemoryFits, SessionFits
  <2>2. one_up' \in {one_up, <<>>} BY <1>4
  <2>3. ExpectedWaits' BY <1>2, <2>1, <2>2 DEF ExpectedWaits
  <2>4. MemoryFits' BY <1>4, <2>3 DEF DepartureInv, MemoryFits
  <2>5. \A t : (NewTable(t) => NewTable(t)') /\ (IdleTable(t) => IdleTable(t)')
    BY <1>2 DEF NewTable, IdleTable
  <2>6. LineIsLast'
    <3>1. CASE one_up' = <<>> BY <3>1 DEF LineIsLast
    <3>2. CASE one_up' = one_up
      <4>1. (NewTable(one_up[1].t) => NewTable(one_up[1].t)')
            /\ (IdleTable(one_up[1].t) => IdleTable(one_up[1].t)')
        BY <1>2, <3>2 DEF NewTable, IdleTable
      <4> QED BY <2>1, <3>2, <4>1 DEF LineIsLast
    <3> QED BY <2>2, <3>1, <3>2
  <2>7. CallsFit'
    <3>1. (NewTable(one_doing.t) => NewTable(one_doing.t)')
          /\ (IdleTable(one_doing.t) => IdleTable(one_doing.t)')
          /\ (NoLine(one_doing.t) => NoLine(one_doing.t)') /\ (NoPlay(one_doing.t) => NoPlay(one_doing.t)')
      BY <1>2 DEF NewTable, IdleTable, NoLine, NoPlay
    <3> QED BY <2>1, <3>1 DEF CallsFit
  <2>8. LinesHold' BY <1>2, <2>1, <2>2 DEF LinesHold
  <2>9. Departing'
    <3> SUFFICES ASSUME one_marker # Single!NoMarker PROVE Departing' BY DEF Departing
    <3>1. \A i \in DOMAIN one_up' : one_up'[i].command = "leave"
      BY <2>2 DEF DepartureInv, Departing
    <3>2. \A i \in DOMAIN one_down' : one_down'[i].t = one_table =>
             one_down'[i].event \notin {"start", "end"}
      BY <1>2, <1>4 DEF DepartureInv, Departing
    <3> QED BY <1>4, <3>1, <3>2 DEF DepartureInv, Departing
  <2> QED BY <1>1, <1>2, <2>1, <2>4, <2>6, <2>7, <2>8, <2>9 DEF DepartureInv, SessionFits
<1> QED BY <1>3, <1>4

\* A game's line at the worker's table: nothing else goes on there.
LEMMA PlayAdmitted ==
  ASSUME DepartureInv, NEW event \in {"start", "end"}, Single!Reading(event), Single!Admitted
  PROVE  /\ one_down[1].t = one_table /\ one_expected = Single!NONE /\ one_up = <<>>
         /\ one_marker = Single!NoMarker
         /\ \A j \in DOMAIN one_down' : one_down'[j].event # "destroy"
<1>1. /\ one_proc = "up" /\ one_down[1].event = event /\ 1 \in DOMAIN one_down /\ one_down[1].t \in Names
      /\ one_down[1].t \in {one_table, one_expected}
      /\ LineIsLast /\ LinesHold /\ ExpectedWaits /\ Ordered
  BY ReadingIs
<1>2. Single!NONE \notin Names BY NamesAssumption
<1>3. one_down[1].t = one_table
  BY <1>1, <1>2 DEF ExpectedWaits, NoPlay, Play
<1>4. one_expected = Single!NONE BY <1>1, <1>2, <1>3 DEF ExpectedWaits
<1>5. one_up = <<>>
  <2> SUFFICES ASSUME one_up # <<>> PROVE FALSE OBVIOUS
  <2>1. Len(one_up) = 1 /\ (NewTable(one_up[1].t) \/ IdleTable(one_up[1].t)) BY <1>1 DEF LineIsLast
  <2>2. one_up[1].t \in Names
    <3>1. 1 \in DOMAIN one_up BY <2>1, LenProperties DEF DepartureInv, SingleTypes
    <3> QED BY <3>1, LinesAreLines DEF DepartureInv
  <2>3. CASE NewTable(one_up[1].t) BY <1>2, <1>4, <2>2, <2>3 DEF NewTable
  <2>4. CASE IdleTable(one_up[1].t) BY <1>1, <1>3, <2>4 DEF IdleTable, NoPlay, Play
  <2> QED BY <2>1, <2>3, <2>4
<1>6. one_marker = Single!NoMarker BY <1>1, <1>3 DEF DepartureInv, Departing
<1>7. \A j \in DOMAIN one_down' : one_down'[j].event # "destroy"
  <2> SUFFICES ASSUME NEW j \in DOMAIN one_down', one_down'[j].event = "destroy" PROVE FALSE OBVIOUS
  <2>1. PICK i \in DOMAIN one_down : i > 1 /\ one_down'[j] = one_down[i] BY ReadingIs
  <2>2. one_down[i].event = "destroy" /\ one_down[i].t = one_table BY <1>1, <2>1 DEF LinesHold
  <2> QED BY <1>1, <1>3, <2>1, <2>2 DEF Ordered, Play
<1> QED BY <1>3, <1>4, <1>5, <1>6, <1>7

\* Lines of other tables, and of its own that change nothing.
LEMMA ForeignKeeps ==
  ASSUME DepartureInv, Single!_event_is_foreign
  PROVE  DepartureInv'
<1>1. PICK event : Single!Reading(event) BY DEF Single!_event_is_foreign
<1>2. /\ UNCHANGED <<one_game, one_marker, one_table, one_expected, one_pause, one_doing, one_proc,
                     one_server, one_conn, one_up>>
  BY DEF Single!_event_is_foreign, Single!disk, Single!memory
<1>3. one_conn # "closed" /\ one_down' \in Seq(Events) /\ Keeps(one_down', one_down) BY <1>1, ReadingIs
<1>4. one_conn' \in {"up", "broken"} /\ one_up' \in Seq(Commands)
  BY <1>2, <1>3 DEF DepartureInv, SingleTypes
<1> QED BY <1>2, <1>3, <1>4, LinesLostKeep

\* _on_create.
LEMMA OnCreateKeeps ==
  ASSUME DepartureInv, Single!_on_create
  PROVE  DepartureInv'
<1> DEFINE t == one_down[1].t
<1>1. /\ one_proc = "up" /\ one_conn # "closed" /\ one_doing.op = "nothing" /\ Head(one_down) = one_down[1]
      /\ 1 \in DOMAIN one_down /\ t \in Names
      /\ one_down' \in Seq(Events) /\ Keeps(one_down', one_down)
      /\ LineIsLast /\ CallsFit /\ Ordered /\ LinesHold /\ ExpectedWaits
      /\ one_game.t \in {Single!NONE, one_table}
  BY ReadingIs DEF Single!_on_create
<1>2. UNCHANGED <<one_game, one_marker, one_pause, one_proc, one_conn, one_server, one_up>>
  BY DEF Single!_on_create, Single!disk
<1>3. \/ t = one_expected /\ one_table' = t /\ one_expected' = Single!NONE
           /\ one_doing' = Single!Do("ready", t)
      \/ UNCHANGED <<one_table, one_expected, one_doing>>
  BY <1>1 DEF Single!_on_create
<1>4. CASE UNCHANGED <<one_table, one_expected, one_doing>>
  <2>1. one_conn' \in {"up", "broken"} /\ one_up' \in Seq(Commands)
    BY <1>1, <1>2 DEF DepartureInv, SingleTypes
  <2> QED BY <1>1, <1>2, <1>4, <2>1, LinesLostKeep
<1>5. CASE t = one_expected /\ one_table' = t /\ one_expected' = Single!NONE
             /\ one_doing' = Single!Do("ready", t)
  <2>0. Single!NONE \notin Names BY NamesAssumption
  <2>1. one_table = Single!NONE /\ one_server[t] \in {"none", "open"} /\ NoPlay(t)
    BY <1>1, <1>5, <2>0 DEF ExpectedWaits
  <2>2. one_server[t] = "open" BY <1>1, <2>0, <2>1 DEF LinesHold
  <2>3. one_up = <<>>
    <3> SUFFICES ASSUME one_up # <<>> PROVE FALSE OBVIOUS
    <3>1. Len(one_up) = 1 /\ (NewTable(one_up[1].t) \/ IdleTable(one_up[1].t)) BY <1>1 DEF LineIsLast
    <3>2. one_up[1].t \in Names
      <4>1. 1 \in DOMAIN one_up BY <3>1, LenProperties DEF DepartureInv, SingleTypes
      <4> QED BY <4>1, LinesAreLines DEF DepartureInv
    <3>3. CASE NewTable(one_up[1].t) BY <1>1, <1>5, <3>3 DEF NewTable, NoLine
    <3>4. CASE IdleTable(one_up[1].t) BY <2>0, <2>1, <3>2, <3>4 DEF IdleTable
    <3> QED BY <3>1, <3>3, <3>4
  <2>4. one_game = Single!NoGame BY <1>1, <2>0, <2>1 DEF DepartureInv, SingleTypes
  <2>5. one_marker = Single!NoMarker
    BY <1>1, <2>0, <2>1 DEF DepartureInv, Departing, SingleTypes
  <2>6. one_doing'.op = "ready" /\ one_doing'.t = t BY <1>5, PlainRecords
  <2>7. /\ \A u : NoPlay(u) => NoPlay(u)'
        /\ Ordered'
        /\ \A j \in DOMAIN one_down' : \E i \in DOMAIN one_down : one_down'[j] = one_down[i]
    BY <1>1, LessIsHeard DEF DepartureInv
  <2>8. SingleTypes'
    BY <1>1, <1>2, <1>5, <2>6 DEF DepartureInv, SingleTypes, TableCalls, Single!Sends
  <2>9. \A j \in DOMAIN one_down' : one_down'[j].t = t => one_down'[j].event \notin Play
    BY <2>1, <2>7 DEF NoPlay
  <2>10. LinesHold'
    <3>1. \A i \in DOMAIN one_down : one_down[i].event # "destroy" /\ one_server[one_down[i].t] # "none"
      <4>1. \A i \in DOMAIN one_down : one_down[i].t \in Names BY LinesAreLines DEF DepartureInv
      <4> QED BY <1>1, <2>0, <2>1, <4>1 DEF LinesHold
    <3> QED BY <1>1, <1>2, <2>7, <3>1 DEF LinesHold
  <2>11. CallsFit'
    <3>1. IdleTable(one_doing.t)' BY <1>2, <1>5, <2>2, <2>4, <2>6, <2>9 DEF IdleTable, NoPlay
    <3> QED BY <2>6, <3>1 DEF CallsFit
  <2>12. MemoryFits' /\ LineIsLast' /\ Departing'
    BY <1>1, <1>2, <1>5, <2>3, <2>4, <2>5, PlainRecords
       DEF MemoryFits, ExpectedWaits, LineIsLast, Departing
  <2> QED BY <2>7, <2>8, <2>10, <2>11, <2>12 DEF DepartureInv, SessionFits
<1> QED BY <1>3, <1>4, <1>5

\* _on_start_preapply.
LEMMA OnStartKeepsDeparture ==
  ASSUME DepartureInv, NEW stack, NEW seat, Single!_on_start_preapply(stack, seat)
  PROVE  DepartureInv'
<1>1. Single!Reading("start") /\ Single!Admitted BY DEF Single!_on_start_preapply
<1>2. /\ one_proc = "up" /\ one_conn # "closed" /\ one_doing.op = "nothing" /\ Head(one_down) = one_down[1]
      /\ one_down[1].t \in Names /\ one_down' \in Seq(Events) /\ Keeps(one_down', one_down)
      /\ CallsFit /\ Ordered /\ LinesHold /\ one_game.t \in {Single!NONE, one_table}
  BY <1>1, ReadingIs
<1>3. /\ one_down[1].t = one_table /\ one_expected = Single!NONE /\ one_up = <<>>
      /\ one_marker = Single!NoMarker
      /\ \A j \in DOMAIN one_down' : one_down'[j].event # "destroy"
  BY <1>1, PlayAdmitted
<1>4. UNCHANGED <<one_marker, one_table, one_expected, one_pause, one_doing, one_proc, one_conn,
                  one_server, one_up>>
  BY DEF Single!_on_start_preapply, Single!memory
<1>5. one_game' = one_game \/ one_game'.t = one_table
  BY <1>2, <1>3 DEF Single!_on_start_preapply, Single!Assignment
<1>6. SingleTypes' BY <1>2, <1>3, <1>4, <1>5 DEF DepartureInv, SingleTypes
<1>7. /\ Ordered' /\ \A j \in DOMAIN one_down' : \E i \in DOMAIN one_down : one_down'[j] = one_down[i]
  BY <1>2, LessIsHeard DEF DepartureInv
<1>8. LinesHold' BY <1>2, <1>3, <1>4, <1>7 DEF LinesHold
<1>9. (LineIsLast /\ CallsFit)'
  BY <1>2, <1>3, <1>4 DEF LineIsLast, CallsFit
<1>10. MemoryFits' BY <1>2, <1>3, <1>4, <1>5 DEF MemoryFits, ExpectedWaits
<1>11. Departing' BY <1>3, <1>4 DEF Departing
<1> QED BY <1>6, <1>7, <1>8, <1>9, <1>10, <1>11 DEF DepartureInv, SessionFits

\* _on_end.
LEMMA OnEndKeepsDeparture ==
  ASSUME DepartureInv, Single!_on_end
  PROVE  DepartureInv'
<1>1. Single!Reading("end") /\ Single!Admitted BY DEF Single!_on_end
<1>2. /\ one_proc = "up" /\ one_conn # "closed" /\ Head(one_down) = one_down[1]
      /\ 1 \in DOMAIN one_down /\ one_down[1].t \in Names /\ one_down[1].event = "end"
      /\ one_down' \in Seq(Events) /\ Keeps(one_down', one_down)
      /\ Ordered /\ LinesHold /\ one_game.t \in {Single!NONE, one_table}
      /\ \A j \in DOMAIN one_down' : one_down'[j].t = one_down[1].t => one_down'[j].event \notin Play
  BY <1>1, ReadingIs
<1>3. /\ one_down[1].t = one_table /\ one_expected = Single!NONE /\ one_up = <<>>
      /\ one_marker = Single!NoMarker
      /\ \A j \in DOMAIN one_down' : one_down'[j].event # "destroy"
  BY <1>1, PlayAdmitted
<1>4. /\ UNCHANGED <<one_game, one_marker, one_table, one_expected, one_pause, one_proc, one_conn,
                     one_server, one_up>>
      /\ one_doing' = Single!Do("withdraw", one_down[1].t)
  BY <1>2 DEF Single!_on_end, Single!memory
<1>5. one_doing'.op = "withdraw" /\ one_doing'.t = one_table BY <1>3, <1>4, PlainRecords
<1>6. SingleTypes'
  BY <1>2, <1>3, <1>4, <1>5 DEF DepartureInv, SingleTypes, TableCalls, Single!Sends
<1>7. /\ Ordered' /\ \A j \in DOMAIN one_down' : \E i \in DOMAIN one_down : one_down'[j] = one_down[i]
  BY <1>2, LessIsHeard DEF DepartureInv
<1>8. LinesHold' BY <1>2, <1>3, <1>4, <1>7 DEF LinesHold
<1>9. one_server[one_table] = "open" BY <1>2, <1>3 DEF LinesHold
<1>10. (LineIsLast /\ CallsFit)'
  BY <1>2, <1>3, <1>4, <1>5, <1>9 DEF LineIsLast, CallsFit, NoPlay
<1>11. MemoryFits' BY <1>2, <1>3, <1>4 DEF MemoryFits, ExpectedWaits
<1>12. Departing' BY <1>3, <1>4 DEF Departing
<1> QED BY <1>6, <1>7, <1>8, <1>10, <1>11, <1>12 DEF DepartureInv, SessionFits

\* _on_table_error.
LEMMA OnErrorKeepsDeparture ==
  ASSUME DepartureInv, Single!_on_table_error
  PROVE  DepartureInv'
<1>1. Single!Reading("error") /\ one_game.t = Head(one_down).t BY DEF Single!_on_table_error, Single!Known
<1>2. /\ one_proc = "up" /\ one_conn # "closed" /\ one_doing.op = "nothing" /\ Head(one_down) = one_down[1]
      /\ one_down[1].t \in Names
      /\ one_down' \in Seq(Events) /\ Keeps(one_down', one_down)
      /\ LineIsLast /\ Ordered /\ LinesHold /\ ExpectedWaits /\ one_game.t \in {Single!NONE, one_table}
  BY <1>1, ReadingIs
<1>3. /\ UNCHANGED <<one_game, one_marker, one_table, one_expected, one_pause, one_proc, one_conn,
                     one_server, one_up>>
      /\ one_doing' = Single!Do("fail", one_down[1].t)
  BY <1>2 DEF Single!_on_table_error, Single!memory
<1>4. one_doing'.op = "fail" /\ one_doing'.t = one_down[1].t BY <1>3, PlainRecords
<1>5. one_game # Single!NoGame BY <1>1, <1>2, NamesAssumption, PlainRecords
<1>6. one_marker = Single!NoMarker BY <1>5 DEF DepartureInv, Departing
<1>7. SingleTypes'
  BY <1>2, <1>3, <1>4 DEF DepartureInv, SingleTypes, TableCalls, Single!Sends
<1>8. /\ \A t : (NoLine(t) => NoLine(t)') /\ (NoPlay(t) => NoPlay(t)')
      /\ Ordered' /\ \A j \in DOMAIN one_down' : \E i \in DOMAIN one_down : one_down'[j] = one_down[i]
  BY <1>2, LessIsHeard DEF DepartureInv
<1>9. LinesHold' BY <1>2, <1>3, <1>8 DEF LinesHold
<1>10. LineIsLast'
  <2>1. (NewTable(one_up[1].t) => NewTable(one_up[1].t)')
        /\ (IdleTable(one_up[1].t) => IdleTable(one_up[1].t)')
    BY <1>3, <1>8 DEF NewTable, IdleTable
  <2> QED BY <1>2, <1>3, <1>4, <2>1 DEF LineIsLast
<1>11. CallsFit' BY <1>4 DEF CallsFit
<1>12. ExpectedWaits' BY <1>2, <1>3, <1>8 DEF ExpectedWaits
<1>13. MemoryFits' BY <1>2, <1>3, <1>12 DEF MemoryFits
<1>14. Departing' BY <1>6, <1>3 DEF Departing
<1> QED BY <1>7, <1>8, <1>9, <1>10, <1>11, <1>13, <1>14 DEF DepartureInv, SessionFits

\* The end of a table is journalled.
LEMMA DestroyedKeeps ==
  ASSUME DepartureInv, Single!destroyed
  PROVE  DepartureInv' /\ (one_marker # Single!NoMarker => one_marker' # Single!NoMarker)
<1>1. Single!Reading("destroy") /\ Single!Admitted BY DEF Single!destroyed
<1>2. /\ one_proc = "up" /\ one_conn # "closed" /\ Head(one_down) = one_down[1]
      /\ 1 \in DOMAIN one_down /\ one_down[1].t \in Names /\ one_down[1].event = "destroy"
      /\ one_down' \in Seq(Events) /\ Keeps(one_down', one_down)
      /\ Ordered /\ LinesHold /\ ExpectedWaits /\ one_game.t \in {Single!NONE, one_table}
      /\ \A j \in DOMAIN one_down' : one_down'[j].t # one_down[1].t
  BY <1>1, ReadingIs
<1>3. one_down[1].t = one_table /\ one_server[one_table] = "none" /\ one_up = <<>>
        /\ one_game = Single!NoGame
  BY <1>2 DEF LinesHold
<1>4. /\ UNCHANGED <<one_game, one_table, one_expected, one_pause, one_proc, one_conn, one_server, one_up>>
      /\ one_doing' = Single!Do("retire", one_down[1].t)
      /\ \/ one_marker' = one_marker
         \/ one_marker.t = one_down[1].t /\ one_marker' = [one_marker EXCEPT !.log = "confirmed"]
  BY <1>2 DEF Single!destroyed, Single!memory
<1>5. one_doing'.op = "retire" /\ one_doing'.t = one_table BY <1>3, <1>4, PlainRecords
<1>6. \/ one_marker = Single!NoMarker /\ one_marker' = Single!NoMarker
      \/ /\ one_marker # Single!NoMarker /\ one_marker' # Single!NoMarker
         /\ one_marker' \in [t : Names, log : {"nothing", "left", "confirmed"}]
         /\ one_marker'.t = one_marker.t
  <2>1. CASE one_marker = Single!NoMarker BY <1>2, <1>4, <2>1, PlainRecords, NamesAssumption
  <2>2. CASE one_marker # Single!NoMarker
    <3>1. one_marker \in [t : Names, log : {"nothing", "left", "confirmed"}]
      BY <2>2 DEF DepartureInv, SingleTypes
    <3> QED BY <1>4, <2>2, <3>1, PlainRecords, NamesAssumption
  <2> QED BY <2>1, <2>2
<1>7. SingleTypes'
  BY <1>2, <1>3, <1>4, <1>5, <1>6 DEF DepartureInv, SingleTypes, TableCalls, Single!Sends
<1>8. /\ \A t : NoPlay(t) => NoPlay(t)'
      /\ Ordered' /\ \A j \in DOMAIN one_down' : \E i \in DOMAIN one_down : one_down'[j] = one_down[i]
  BY <1>2, LessIsHeard DEF DepartureInv
<1>9. (LinesHold /\ LineIsLast)' BY <1>2, <1>3, <1>4, <1>8 DEF LinesHold, LineIsLast
<1>10. CallsFit' BY <1>2, <1>3, <1>4, <1>5 DEF CallsFit, NoLine
<1>11. ExpectedWaits' BY <1>2, <1>4, <1>8 DEF ExpectedWaits
<1>12. MemoryFits' BY <1>2, <1>4, <1>11 DEF MemoryFits
<1>13. Departing'
  <2> SUFFICES ASSUME one_marker' # Single!NoMarker PROVE Departing' BY DEF Departing
  <2>1. one_marker # Single!NoMarker /\ one_marker'.t = one_marker.t BY <1>6
  <2>2. one_pause /\ one_table = one_marker.t BY <1>2, <2>1 DEF DepartureInv, Departing
  <2>3. \A i \in DOMAIN one_up' : one_up'[i].command = "leave"
    BY <1>3, <1>4
  <2> QED BY <1>2, <1>3, <1>4, <1>5, <2>1, <2>2, <2>3 DEF Departing
<1> QED BY <1>6, <1>7, <1>8, <1>9, <1>10, <1>12, <1>13 DEF DepartureInv, SessionFits

\* The lines of a replay tell of tables the server has, and of games in progress.
LEMMA ReplayTells ==
  ASSUME DepartureInv, NEW lines \in [1..Single!Cardinality(Single!Replay) -> Single!Replay]
  PROVE  /\ lines \in Seq(Events)
         /\ \A i \in DOMAIN lines :
               /\ lines[i].event \in {"create", "start"} /\ one_server[lines[i].t] # "none"
               /\ lines[i].event = "start" => one_server[lines[i].t] = "playing"
<1> DEFINE creates == {[event |-> "create", t |-> t] : t \in {u \in Names : one_server[u] # "none"}}
           starts == {[event |-> "start", t |-> t] : t \in {u \in Names : one_server[u] = "playing"}}
<1>1. IsFiniteSet({u \in Names : one_server[u] # "none"})
        /\ IsFiniteSet({u \in Names : one_server[u] = "playing"})
  BY NamesAssumption, FS_Subset
<1>2. IsFiniteSet(creates) /\ IsFiniteSet(starts)
  <2> DEFINE opened == {u \in Names : one_server[u] # "none"}
             busy == {u \in Names : one_server[u] = "playing"}
             create == [t \in opened |-> [event |-> "create", t |-> t]]
             start == [t \in busy |-> [event |-> "start", t |-> t]]
  <2>1. create \in Surjection(opened, creates) /\ start \in Surjection(busy, starts)
    BY DEF Surjection
  <2> HIDE DEF create, start
  <2> QED BY <1>1, <2>1, FS_Surjection
<1>3. Single!Replay = creates \cup starts BY DEF Single!Replay
<1>4. Single!Cardinality(Single!Replay) \in Nat BY <1>2, <1>3, FS_Union, FS_CardinalityType, SameCardinality
<1>5. \A x \in Single!Replay : /\ x \in Events /\ x.event \in {"create", "start"}
                               /\ one_server[x.t] # "none"
                               /\ x.event = "start" => one_server[x.t] = "playing"
  BY <1>3 DEF Events
<1> HIDE DEF creates, starts
<1>6. ASSUME NEW n \in Nat, NEW l \in [1..n -> Single!Replay]
      PROVE  l \in Seq(Events) /\ DOMAIN l = 1..n
  <2>1. Single!Replay \subseteq Events BY <1>5
  <2> QED BY <2>1, SeqDef
<1> QED BY <1>4, <1>5, <1>6

\* _run_connected_session: login and replay.
LEMMA ConnectKeeps ==
  ASSUME DepartureInv, Single!_run_connected_session
  PROVE  DepartureInv'
<1>1. /\ one_proc = "up" /\ one_conn = "closed" /\ one_conn' = "up" /\ one_up = <<>>
      /\ one_doing' = IF one_table = Single!NONE THEN Single!Fill ELSE Single!Nothing
      /\ UNCHANGED <<one_game, one_marker, one_table, one_expected, one_pause, one_proc, one_server,
                     one_up>>
  BY DEF Single!_run_connected_session, Single!disk, Single!memory
<1>2. PICK lines \in [1..Single!Cardinality(Single!Replay) -> Single!Replay] : one_down' = lines
  BY DEF Single!_run_connected_session
<1>3. /\ one_down' \in Seq(Events)
      /\ \A i \in DOMAIN one_down' :
            /\ one_down'[i].event \in {"create", "start"} /\ one_server[one_down'[i].t] # "none"
            /\ one_down'[i].event = "start" => one_server[one_down'[i].t] = "playing"
  BY <1>2, ReplayTells
<1>4. one_game.t \in {Single!NONE, one_table} /\ ExpectedWaits BY <1>1 DEF DepartureInv, MemoryFits
<1>5. one_marker = Single!NoMarker BY <1>1 DEF DepartureInv, Departing
<1>6. one_doing'.op \in {"fill", "nothing"} /\ (one_doing'.op = "fill" => one_table = Single!NONE)
  BY <1>1, PlainRecords
<1>7. SingleTypes' BY <1>1, <1>3, <1>6 DEF DepartureInv, SingleTypes, TableCalls, Single!Sends
<1>8. ExpectedWaits'
  BY <1>1, <1>3, <1>4 DEF ExpectedWaits, NoPlay, Play
<1>9. (LineIsLast /\ CallsFit /\ Ordered /\ LinesHold)'
  BY <1>1, <1>3, <1>6 DEF LineIsLast, CallsFit, Ordered, LinesHold
<1> QED BY <1>1, <1>4, <1>5, <1>7, <1>8, <1>9 DEF DepartureInv, MemoryFits, SessionFits, Departing

\* run: a departure is confirmed, or the worker refuses to go on.
LEMMA RunKeeps ==
  ASSUME DepartureInv, Single!run
  PROVE  /\ DepartureInv'
         /\ one_marker # Single!NoMarker /\ one_marker' = Single!NoMarker
            => one_server[one_marker.t] = "none"
<1>1. /\ one_proc \in {"down", "failed"}
      /\ UNCHANGED <<one_expected, one_pause, one_conn, one_server, one_up, one_down>>
  BY DEF Single!run, Single!net
<1>2. one_doing = Single!Nothing /\ one_conn = "closed" /\ one_table = Single!NONE
        /\ one_expected = Single!NONE /\ one_down = <<>>
  BY <1>1 DEF DepartureInv, MemoryFits
<1>3. CASE one_proc' = "refused" /\ UNCHANGED <<one_game, one_marker, one_table, one_doing>>
  <2>1. SingleTypes'
    BY <1>1, <1>3 DEF DepartureInv, SingleTypes, Commands, Events
  <2>2. MemoryFits' BY <1>1, <1>2, <1>3 DEF MemoryFits
  <2>3. Departing' BY <1>1, <1>3 DEF DepartureInv, Departing
  <2> QED BY <1>3, <2>1, <2>2, <2>3 DEF DepartureInv, SessionFits
<1>4. CASE ~(~Single!reconcile \/ one_filed = "other")
  <2>1. /\ one_proc' = "up" /\ one_doing' = Single!Wait /\ one_marker' = Single!NoMarker
        /\ one_game' \in {one_game, Single!NoGame} /\ one_table' = one_game'.t
    BY <1>4 DEF Single!run
  <2>2. one_doing'.op = "wait" BY <2>1, PlainRecords
  <2>3. one_game' = Single!NoGame \/ one_game'.t \in Names BY <2>1 DEF DepartureInv, SingleTypes
  <2>4. one_table' \in Names \cup {Single!NONE} BY <2>1, <2>3, PlainRecords
  <2>5. SingleTypes'
    BY <1>1, <2>1, <2>2, <2>3, <2>4 DEF DepartureInv, SingleTypes, TableCalls, Single!Sends, Commands,
       Events
  <2>6. MemoryFits' BY <1>1, <1>2, <2>1, <2>2 DEF MemoryFits, ExpectedWaits
  <2>7. one_marker # Single!NoMarker => one_server[one_marker.t] = "none"
    BY <1>4, ConfirmedIsGone DEF Single!reconcile
  <2> QED BY <1>1, <1>2, <2>1, <2>5, <2>6, <2>7 DEF DepartureInv, SessionFits, Departing
<1> QED BY <1>3, <1>4 DEF Single!run

\* A connection that breaks loses lines of both sides.
LEMMA BreakKeeps ==
  ASSUME DepartureInv, Single!Break
  PROVE  DepartureInv'
<1>1. /\ one_conn = "up" /\ one_conn' = "broken"
      /\ UNCHANGED <<one_game, one_marker, one_table, one_expected, one_pause, one_doing, one_proc,
                     one_server>>
  BY DEF Single!Break, Single!disk, Single!memory
<1>2. one_up \in Seq(Commands) /\ one_down \in Seq(Events) BY DEF DepartureInv, SingleTypes
<1>3. PICK n \in 0..Len(one_up) : one_up' = SubSeq(one_up, 1, n) BY DEF Single!Break
<1>4. PICK m \in 0..Len(one_down) : one_down' = SubSeq(one_down, 1, m) BY DEF Single!Break
<1>5. one_up' \in Seq(Commands) /\ (Len(one_up) = 1 => one_up' \in {one_up, <<>>})
  BY <1>2, <1>3, LinesLess
<1>6. one_down' \in Seq(Events) /\ Keeps(one_down', one_down)
  BY <1>2, <1>4, LinesLess, KeepsItself
<1>7. one_up = <<>> => one_up' = <<>>
  <2>1. one_up = <<>> => Len(one_up) = 0 BY EmptySeq
  <2>2. one_up = <<>> => n = 0 BY <2>1
  <2>3. \A j \in DOMAIN one_up' : j \in DOMAIN one_up BY <1>2, <1>3, LinesLess
  <2>4. ASSUME one_up = <<>> PROVE Len(one_up') = 0
    <3>1. DOMAIN one_up = {} BY <2>4
    <3>2. DOMAIN one_up' = {} BY <2>3, <3>1
    <3>3. Len(one_up') \in Nat /\ DOMAIN one_up' = 1..Len(one_up') BY <1>5, LenProperties
    <3> QED BY <3>2, <3>3
  <2> QED BY <1>5, <2>4, EmptySeq
<1>8. one_up' \in {one_up, <<>>} \/ one_proc # "up"
  BY <1>1, <1>5, <1>7 DEF DepartureInv, SessionFits, LineIsLast
<1> QED BY <1>1, <1>5, <1>6, <1>8, LinesLostKeep

\* A line the server tells, if anybody is connected.
LEMMA TellIs ==
  ASSUME DepartureInv, NEW line \in Events, Single!Tell(line)
  PROVE  /\ one_down' \in Seq(Events) /\ (one_conn = "closed" => one_down' = <<>>)
         /\ \A j \in DOMAIN one_down' : (j \in DOMAIN one_down /\ one_down'[j] = one_down[j])
              \/ one_down'[j] = line
         /\ \A u : u # line.t => (NoLine(u) => NoLine(u)') /\ (NoPlay(u) => NoPlay(u)')
         /\ line.event \notin Play => \A u : NoPlay(u) => NoPlay(u)'
         /\ (\A i \in DOMAIN one_down : one_down[i].t = line.t =>
                /\ one_down[i].event # "destroy"
                /\ one_down[i].event = "end" => line.event \notin Play
                /\ line.event = "destroy" => one_down[i].event \notin Play)
            => (Ordered => Ordered')
<1>1. one_down \in Seq(Events) /\ (one_conn = "closed" => one_down = <<>>)
  BY DEF DepartureInv, SingleTypes, MemoryFits
<1>2. one_down' = IF one_conn = "up" THEN Append(one_down, line) ELSE one_down BY DEF Single!Tell
<1>3. /\ Len(one_down) \in Nat /\ DOMAIN one_down = 1..Len(one_down) BY <1>1, LenProperties
<1>4. /\ one_down' \in Seq(Events)
      /\ \A j \in DOMAIN one_down' :
            /\ j \in Nat
            /\ \/ j \in DOMAIN one_down /\ one_down'[j] = one_down[j] /\ j < Len(one_down) + 1
               \/ j = Len(one_down) + 1 /\ one_down'[j] = line
  <2>1. CASE one_conn = "up" BY <1>1, <1>2, <2>1, LineMore
  <2>2. CASE one_conn # "up" BY <1>1, <1>2, <1>3, <2>2
  <2> QED BY <2>1, <2>2
<1>5. \A u : u # line.t => (NoLine(u) => NoLine(u)') /\ (NoPlay(u) => NoPlay(u)')
  BY <1>4 DEF NoLine, NoPlay
<1>6. line.event \notin Play => \A u : NoPlay(u) => NoPlay(u)'
  BY <1>4 DEF NoPlay
<1>7. ASSUME Ordered, \A i \in DOMAIN one_down : one_down[i].t = line.t =>
                /\ one_down[i].event # "destroy"
                /\ one_down[i].event = "end" => line.event \notin Play
                /\ line.event = "destroy" => one_down[i].event \notin Play
      PROVE  Ordered'
  <2> SUFFICES ASSUME NEW i \in DOMAIN one_down', NEW j \in DOMAIN one_down', i < j,
                      one_down'[i].t = one_down'[j].t
               PROVE  /\ one_down'[i].event # "destroy"
                      /\ one_down'[i].event = "end" => one_down'[j].event \notin Play
                      /\ one_down'[j].event = "destroy" => one_down'[i].event \notin Play
    BY DEF Ordered
  <2>1. i \in DOMAIN one_down /\ one_down'[i] = one_down[i] BY <1>3, <1>4
  <2>2. CASE j \in DOMAIN one_down /\ one_down'[j] = one_down[j] BY <1>7, <2>1, <2>2 DEF Ordered
  <2>3. CASE one_down'[j] = line BY <1>7, <2>1, <2>3
  <2> QED BY <1>4, <2>2, <2>3
<1> QED BY <1>1, <1>2, <1>4, <1>5, <1>6, <1>7

\* StartGame and EndGame: no table the worker waits for, or leaves, is played at.
LEMMA PlaysKeep ==
  ASSUME DepartureInv, NEW t \in Names, Single!StartGame(t) \/ Single!EndGame(t)
  PROVE  DepartureInv'
<1>1. PICK to \in {"playing", "open"}, event \in {"start", "end"} :
        /\ \/ event = "start" /\ one_server[t] = "ready" /\ to = "playing"
           \/ event = "end" /\ one_server[t] = "playing" /\ to = "open"
        /\ one_server' = [one_server EXCEPT ![t] = to] /\ Single!Tell([event |-> event, t |-> t])
        /\ UNCHANGED <<one_game, one_marker, one_table, one_expected, one_pause, one_doing, one_proc,
                       one_conn, one_up>>
  BY DEF Single!StartGame, Single!EndGame, Single!Plays, Single!disk, Single!memory
<1> DEFINE line == [event |-> event, t |-> t]
<1>2. line \in Events /\ line.t = t /\ line.event = event BY DEF Events
<1> HIDE DEF line
<1>3. /\ one_down' \in Seq(Events) /\ (one_conn = "closed" => one_down' = <<>>)
      /\ \A j \in DOMAIN one_down' : (j \in DOMAIN one_down /\ one_down'[j] = one_down[j])
           \/ one_down'[j] = line
      /\ \A u : u # t => (NoLine(u) => NoLine(u)') /\ (NoPlay(u) => NoPlay(u)')
      /\ (\A i \in DOMAIN one_down : one_down[i].t = t =>
             /\ one_down[i].event # "destroy"
             /\ one_down[i].event = "end" => event \notin Play
             /\ event = "destroy" => one_down[i].event \notin Play)
         => (Ordered => Ordered')
  BY <1>1, <1>2, TellIs DEF line
<1>4. /\ one_server \in [Names -> {"none", "open", "ready", "playing"}]
      /\ one_server'[t] = to /\ \A u \in Names : u # t => one_server'[u] = one_server[u]
      /\ one_server[t] \in {"ready", "playing"}
  BY <1>1 DEF DepartureInv, SingleTypes
<1>5. SingleTypes'
  BY <1>1, <1>3 DEF DepartureInv, SingleTypes, TableCalls, Single!Sends, Commands
<1>6. MemoryFits'
  <2>1. ASSUME one_proc = "up" PROVE ExpectedWaits'
    <3>1. ExpectedWaits BY <2>1 DEF DepartureInv, MemoryFits
    <3>2. one_expected # Single!NONE => one_expected # t /\ one_expected \in Names
      BY <1>4, <3>1 DEF ExpectedWaits, DepartureInv, SingleTypes
    <3>3. one_expected # Single!NONE => (NoPlay(one_expected) => NoPlay(one_expected)')
      <4>1. one_expected # t =>
              (NoPlay(one_expected) =>
                 \A j \in DOMAIN one_down' : one_down'[j].t = one_expected => one_down'[j].event \notin Play)
        BY <1>2, <1>3 DEF NoPlay
      <4> QED BY <1>1, <3>2, <4>1 DEF NoPlay
    <3> QED BY <1>1, <1>4, <3>1, <3>2, <3>3 DEF ExpectedWaits
  <2> QED BY <1>1, <1>3, <2>1 DEF DepartureInv, MemoryFits
<1>7. SessionFits'
  <2> SUFFICES ASSUME one_proc = "up", one_conn # "closed"
               PROVE  (LineIsLast /\ CallsFit /\ Ordered /\ LinesHold)'
    BY <1>1 DEF SessionFits
  <2>1. LineIsLast /\ CallsFit /\ Ordered /\ LinesHold BY DEF DepartureInv, SessionFits
  <2>2. \A u \in Names : (NewTable(u) => u # t) /\ (IdleTable(u) => u # t)
    BY <1>4 DEF NewTable, IdleTable
  <2>3. \A u \in Names : u # t =>
           /\ NoPlay(u) => \A j \in DOMAIN one_down' : one_down'[j].t = u => one_down'[j].event \notin Play
           /\ NoLine(u) => \A j \in DOMAIN one_down' : one_down'[j].t # u
    BY <1>2, <1>3 DEF NoPlay, NoLine
  <2>4. LineIsLast'
    <3>1. CASE one_up = <<>> BY <1>1, <3>1 DEF LineIsLast
    <3>2. CASE one_up # <<>>
      <4>1. 1 \in DOMAIN one_up BY <2>1, <3>2, LenProperties DEF LineIsLast, DepartureInv, SingleTypes
      <4>2. one_up[1].t \in Names BY <4>1, LinesAreLines DEF DepartureInv
      <4>3. (NewTable(one_up[1].t) => NewTable(one_up[1].t)')
            /\ (IdleTable(one_up[1].t) => IdleTable(one_up[1].t)')
        BY <1>1, <1>4, <2>2, <2>3, <4>2 DEF NewTable, IdleTable, NoPlay, NoLine
      <4> QED BY <1>1, <2>1, <4>3 DEF LineIsLast
    <3> QED BY <3>1, <3>2
  <2>5. CallsFit'
    <3>1. CASE one_doing.op \in TableCalls
      <4>1. one_doing.t \in Names BY <3>1 DEF DepartureInv, SingleTypes
      <4>2. (NewTable(one_doing.t) => NewTable(one_doing.t)')
            /\ (IdleTable(one_doing.t) => IdleTable(one_doing.t)')
        BY <1>1, <1>4, <2>2, <2>3, <4>1 DEF NewTable, IdleTable, NoPlay, NoLine
      <4>3. (one_doing.op \in {"withdraw", "retire"}) => one_doing.t # t
        BY <1>4, <2>1 DEF CallsFit
      <4>4. one_doing.t # t => /\ one_server'[one_doing.t] = one_server[one_doing.t]
                               /\ NoPlay(one_doing.t) => NoPlay(one_doing.t)'
                               /\ NoLine(one_doing.t) => NoLine(one_doing.t)'
        BY <1>1, <1>4, <2>3, <4>1 DEF NoPlay, NoLine
      <4> QED BY <1>1, <2>1, <4>2, <4>3, <4>4 DEF CallsFit
    <3>2. CASE one_doing.op \notin TableCalls
      BY <1>1, <2>1, <3>2 DEF CallsFit, TableCalls, Single!Sends
    <3> QED BY <3>1, <3>2
  <2>6. \A i \in DOMAIN one_down : one_down[i].t = t => one_down[i].event \notin {"destroy", "end"}
    BY <1>4, <2>1 DEF LinesHold
  <2>7. Ordered' BY <1>1, <1>3, <2>1, <2>6
  <2>8. LinesHold'
    <3>1. \A i \in DOMAIN one_down : one_down[i].t \in Names BY LinesAreLines DEF DepartureInv
    <3>2. \A i \in DOMAIN one_down :
            /\ one_down[i].event = "end" => one_server'[one_down[i].t] = "open"
            /\ one_down[i].event = "destroy" =>
                  one_down[i].t = one_table /\ one_server'[one_down[i].t] = "none" /\ one_up = <<>>
                    /\ one_game = Single!NoGame
            /\ one_server'[one_down[i].t] = "none" => one_down[i].t = one_table
      BY <1>4, <2>1, <2>6, <3>1 DEF LinesHold
    <3>3. /\ line.event = "end" => one_server'[line.t] = "open"
          /\ line.event # "destroy" /\ one_server'[line.t] # "none"
      BY <1>1, <1>2, <1>4
    <3> QED BY <1>1, <1>3, <3>2, <3>3 DEF LinesHold
  <2> QED BY <2>4, <2>5, <2>7, <2>8
<1>8. Departing'
  <2> SUFFICES ASSUME one_marker # Single!NoMarker PROVE Departing' BY <1>1 DEF Departing
  <2>1. Departing /\ one_marker.t \in Names
    BY DEF DepartureInv, SingleTypes
  <2>2. one_marker.log = "confirmed" => one_server[one_marker.t] = "none" BY ConfirmedIsGone
  <2>3. one_proc = "up" => one_table # t /\ one_table \in Names BY <1>4, <2>1 DEF Departing
  <2>4. one_marker.log = "confirmed" => one_server'[one_marker.t] = "none" BY <1>4, <2>1, <2>2
  <2>5. one_proc = "up" => \A i \in DOMAIN one_down' :
                              one_down'[i].t = one_table => one_down'[i].event \notin {"start", "end"}
    BY <1>2, <1>3, <2>1, <2>3 DEF Departing
  <2> QED BY <1>1, <1>4, <2>1, <2>3, <2>4, <2>5 DEF Departing
<1> QED BY <1>5, <1>6, <1>7, <1>8 DEF DepartureInv

\* Refuse.
LEMMA RefuseKeeps ==
  ASSUME DepartureInv, NEW t \in Names, Single!Refuse(t)
  PROVE  DepartureInv'
<1> DEFINE line == [event |-> "error", t |-> t]
<1>1. /\ one_server[t] # "none" /\ Single!Tell(line) /\ one_conn = "up"
      /\ UNCHANGED <<one_game, one_marker, one_table, one_expected, one_pause, one_doing, one_proc,
                     one_conn, one_server, one_up>>
  BY DEF Single!Refuse, Single!disk, Single!memory
<1>2. line \in Events /\ line.t = t /\ line.event = "error" /\ line.event \notin Play
  BY DEF Events, Play
<1> HIDE DEF line
<1>3. /\ one_down' \in Seq(Events)
      /\ \A j \in DOMAIN one_down' : (j \in DOMAIN one_down /\ one_down'[j] = one_down[j])
           \/ one_down'[j] = line
      /\ \A u : NoPlay(u) => NoPlay(u)'
      /\ (\A i \in DOMAIN one_down : one_down[i].t = t => one_down[i].event # "destroy")
         => (Ordered => Ordered')
  BY <1>1, <1>2, TellIs
<1>4. SingleTypes'
  BY <1>1, <1>3 DEF DepartureInv, SingleTypes, Commands
<1>5. ExpectedWaits => ExpectedWaits' BY <1>1, <1>3 DEF ExpectedWaits
<1>6. MemoryFits' BY <1>1, <1>5 DEF DepartureInv, MemoryFits
<1>7. SessionFits'
  <2> SUFFICES ASSUME one_proc = "up" PROVE (LineIsLast /\ CallsFit /\ Ordered /\ LinesHold)'
    BY <1>1 DEF SessionFits
  <2>1. LineIsLast /\ CallsFit /\ Ordered /\ LinesHold BY <1>1 DEF DepartureInv, SessionFits
  <2>2. \A u : NoLine(u) /\ u # t => \A j \in DOMAIN one_down' : one_down'[j].t # u
    BY <1>2, <1>3 DEF NoLine
  <2>3. \A u : NoPlay(u) => \A j \in DOMAIN one_down' : one_down'[j].t = u => one_down'[j].event \notin Play
    BY <1>3, <1>2 DEF NoPlay
  <2>4. LineIsLast'
    <3>1. (NewTable(one_up[1].t) => NewTable(one_up[1].t)')
          /\ (IdleTable(one_up[1].t) => IdleTable(one_up[1].t)')
      BY <1>1, <2>2, <2>3 DEF NewTable, IdleTable, NoPlay, NoLine
    <3> QED BY <1>1, <2>1, <3>1 DEF LineIsLast
  <2>5. CallsFit'
    <3>1. (NewTable(one_doing.t) => NewTable(one_doing.t)')
          /\ (IdleTable(one_doing.t) => IdleTable(one_doing.t)')
      BY <1>1, <2>2, <2>3 DEF NewTable, IdleTable, NoPlay, NoLine
    <3>2. NoPlay(one_doing.t) => NoPlay(one_doing.t)' BY <1>1, <2>3 DEF NoPlay
    <3>3. NoLine(one_doing.t) /\ one_server[one_doing.t] = "none" => NoLine(one_doing.t)'
      BY <1>1, <2>2 DEF NoLine
    <3> QED BY <1>1, <2>1, <3>1, <3>2, <3>3 DEF CallsFit
  <2>6. \A i \in DOMAIN one_down : one_down[i].t = t => one_down[i].event # "destroy"
    BY <1>1, <2>1 DEF LinesHold
  <2>7. LinesHold' BY <1>1, <1>2, <1>3, <2>1 DEF LinesHold
  <2> QED BY <1>3, <2>1, <2>4, <2>5, <2>6, <2>7
<1>8. Departing'
  <2> SUFFICES ASSUME one_marker # Single!NoMarker PROVE Departing' BY <1>1 DEF Departing
  <2>1. Departing BY DEF DepartureInv
  <2>2. one_proc = "up" => \A i \in DOMAIN one_down' :
                              one_down'[i].t = one_table => one_down'[i].event \notin {"start", "end"}
    BY <1>2, <1>3, <2>1 DEF Departing
  <2> QED BY <1>1, <2>1, <2>2 DEF Departing
<1> QED BY <1>4, <1>6, <1>7, <1>8 DEF DepartureInv

\* What the server takes: the line under way, and the last.
LEMMA TakesIs ==
  ASSUME DepartureInv, Single!ServerTakes
  PROVE  /\ UNCHANGED <<one_game, one_marker, one_table, one_expected, one_pause, one_doing, one_proc,
                        one_conn>>
         /\ 1 \in DOMAIN one_up /\ one_up[1] \in Commands /\ one_up[1].t \in Names
         /\ one_up' \in Seq(Commands) /\ (Len(one_up) = 1 => one_up' = <<>>)
         /\ \A j \in DOMAIN one_up' : \E i \in DOMAIN one_up : one_up'[j] = one_up[i]
         /\ \/ /\ one_up[1].command = "create" /\ one_server' = [one_server EXCEPT ![one_up[1].t] = "open"]
               /\ Single!Tell([event |-> "create", t |-> one_up[1].t])
            \/ /\ one_up[1].command = "ready" /\ one_server' = [one_server EXCEPT ![one_up[1].t] = "ready"]
               /\ one_down' = one_down
            \/ /\ one_up[1].command = "leave" /\ one_server' = [one_server EXCEPT ![one_up[1].t] = "none"]
               /\ Single!Tell([event |-> "destroy", t |-> one_up[1].t])
<1>1. one_up \in Seq(Commands) /\ one_up # <<>> /\ one_up' = Tail(one_up)
  BY DEF Single!ServerTakes, DepartureInv, SingleTypes
<1>2. /\ 1 \in DOMAIN one_up /\ Head(one_up) = one_up[1] /\ one_up[1] \in Commands
      /\ one_up' \in Seq(Commands) /\ (Len(one_up) = 1 => one_up' = <<>>)
      /\ \A j \in DOMAIN one_up' : j + 1 \in DOMAIN one_up /\ one_up'[j] = one_up[j + 1]
  BY <1>1, HeadAndTail
<1>3. one_up[1].t \in Names BY <1>2 DEF Commands
<1> QED BY <1>2, <1>3 DEF Single!ServerTakes, Single!disk, Single!memory

\* ServerTakes, for a worker that is not in a session.
LEMMA TakesApart ==
  ASSUME DepartureInv, Single!ServerTakes, ~(one_proc = "up" /\ one_conn # "closed")
  PROVE  DepartureInv'
<1> DEFINE t == one_up[1].t
<1>1. /\ UNCHANGED <<one_game, one_marker, one_table, one_expected, one_pause, one_doing, one_proc,
                     one_conn>>
      /\ 1 \in DOMAIN one_up /\ t \in Names /\ one_up' \in Seq(Commands)
      /\ \A j \in DOMAIN one_up' : \E i \in DOMAIN one_up : one_up'[j] = one_up[i]
  BY TakesIs
<1>2. \E to \in {"open", "ready", "none"} :
         /\ one_server' = [one_server EXCEPT ![t] = to]
         /\ one_up[1].command = "create" => to = "open"
         /\ one_up[1].command = "leave" => to = "none"
  BY TakesIs
<1>3. one_down' \in Seq(Events) /\ (one_conn = "closed" => one_down' = <<>>)
  <2>1. [event |-> "create", t |-> t] \in Events /\ [event |-> "destroy", t |-> t] \in Events
    BY <1>1 DEF Events
  <2>2. one_down \in Seq(Events) /\ (one_conn = "closed" => one_down = <<>>)
    BY DEF DepartureInv, SingleTypes, MemoryFits
  <2>3. \/ Single!Tell([event |-> "create", t |-> t]) \/ Single!Tell([event |-> "destroy", t |-> t])
             \/ one_down' = one_down
    BY TakesIs
  <2> QED BY <2>1, <2>2, <2>3, TellIs
<1> HIDE DEF t
<1>4. SingleTypes'
  BY <1>1, <1>2, <1>3 DEF DepartureInv, SingleTypes, TableCalls, Single!Sends
<1>5. MemoryFits'
  <2>1. ASSUME one_proc = "up" PROVE ExpectedWaits'
    <3>1. ExpectedWaits BY <2>1 DEF DepartureInv, MemoryFits
    <3>2. ASSUME one_expected # Single!NONE PROVE one_server'[one_expected] = "open"
      <4>1. one_up[1].command = "create" /\ t = one_expected BY <1>1, <3>1, <3>2 DEF ExpectedWaits, t
      <4> QED BY <1>1, <1>2, <4>1 DEF DepartureInv, SingleTypes
    <3>3. one_down' = <<>> BY <1>3, <2>1
    <3> QED BY <1>1, <3>1, <3>2, <3>3 DEF ExpectedWaits, NoPlay
  <2> QED BY <1>1, <1>3, <2>1 DEF DepartureInv, MemoryFits
<1>6. SessionFits' BY <1>1 DEF SessionFits
<1>7. Departing'
  <2> SUFFICES ASSUME one_marker # Single!NoMarker PROVE Departing' BY <1>1 DEF Departing
  <2>1. Departing /\ one_marker.t \in Names BY DEF DepartureInv, SingleTypes
  <2>2. one_proc # "up" BY <2>1 DEF Departing
  <2>3. one_up[1].command = "leave" BY <1>1, <2>1 DEF Departing
  <2>4. one_marker.log = "confirmed" => one_server'[one_marker.t] = "none"
    BY <1>1, <1>2, <2>1, <2>2, <2>3 DEF Departing, DepartureInv, SingleTypes
  <2> QED BY <1>1, <2>1, <2>2, <2>4 DEF Departing
<1> QED BY <1>4, <1>5, <1>6, <1>7 DEF DepartureInv

\* ServerTakes in a session.
LEMMA TakesKeeps ==
  ASSUME DepartureInv, Single!ServerTakes, one_proc = "up", one_conn # "closed"
  PROVE  DepartureInv'
<1> DEFINE t == one_up[1].t
<1>1. /\ UNCHANGED <<one_game, one_marker, one_table, one_expected, one_pause, one_doing, one_proc,
                     one_conn>>
      /\ 1 \in DOMAIN one_up /\ one_up[1] \in Commands /\ t \in Names
  BY TakesIs
<1>2. LineIsLast /\ CallsFit /\ Ordered /\ LinesHold /\ ExpectedWaits
  BY DEF DepartureInv, SessionFits, MemoryFits
<1>3. /\ Len(one_up) = 1 /\ one_doing.op \in {"nothing", "fail"}
      /\ one_up[1].command = "create" => NewTable(t)
      /\ one_up[1].command # "create" => IdleTable(t)
  <2>1. one_up # <<>> BY DEF Single!ServerTakes
  <2> QED BY <1>2, <2>1 DEF LineIsLast
<1>4. one_up' = <<>> BY <1>3, TakesIs
<1>5. /\ [event |-> "create", t |-> t] \in Events /\ [event |-> "destroy", t |-> t] \in Events
      /\ <<>> \in Seq(Commands) /\ one_down \in Seq(Events)
      /\ one_server \in [Names -> {"none", "open", "ready", "playing"}]
      /\ \A i \in DOMAIN one_down : one_down[i].t \in Names
  BY <1>1, EmptySeq, LinesAreLines DEF Events, DepartureInv, SingleTypes
<1>6. \/ /\ one_up[1].command = "create" /\ one_server' = [one_server EXCEPT ![t] = "open"]
         /\ Single!Tell([event |-> "create", t |-> t])
      \/ /\ one_up[1].command = "ready" /\ one_server' = [one_server EXCEPT ![t] = "ready"]
         /\ one_down' = one_down
      \/ /\ one_up[1].command = "leave" /\ one_server' = [one_server EXCEPT ![t] = "none"]
         /\ Single!Tell([event |-> "destroy", t |-> t])
  BY TakesIs
<1>7. Single!NONE \notin Names BY NamesAssumption
<1>8. (LineIsLast /\ CallsFit)'
  BY <1>1, <1>3, <1>4 DEF LineIsLast, CallsFit
<1> HIDE DEF t
<1>9. CASE one_up[1].command = "create"
  <2> DEFINE line == [event |-> "create", t |-> t]
  <2>1. NewTable(t) /\ one_server' = [one_server EXCEPT ![t] = "open"] /\ Single!Tell(line)
    BY <1>3, <1>6, <1>9
  <2>2. line \in Events /\ line.t = t /\ line.event = "create" /\ line.event \notin Play
    BY <1>5 DEF Play
  <2> HIDE DEF line
  <2>3. /\ one_down' \in Seq(Events)
        /\ \A j \in DOMAIN one_down' : (j \in DOMAIN one_down /\ one_down'[j] = one_down[j])
             \/ one_down'[j] = line
        /\ \A u : NoPlay(u) => NoPlay(u)'
        /\ (\A i \in DOMAIN one_down : one_down[i].t = t => one_down[i].event # "destroy")
           => (Ordered => Ordered')
    BY <2>1, <2>2, TellIs
  <2>4. t = one_expected /\ one_server[t] = "none" /\ NoLine(t) /\ one_table = Single!NONE
    BY <1>1, <1>2, <1>7, <2>1 DEF NewTable, ExpectedWaits
  <2>5. /\ one_server'[t] = "open" /\ \A u \in Names : u # t => one_server'[u] = one_server[u]
    BY <1>1, <1>5, <2>1
  <2>6. Ordered' BY <1>2, <2>3, <2>4 DEF NoLine
  <2>7. LinesHold'
    <3>1. \A i \in DOMAIN one_down : one_server'[one_down[i].t] = one_server[one_down[i].t]
      BY <1>5, <2>4, <2>5 DEF NoLine
    <3>2. \A i \in DOMAIN one_down : one_down[i].event # "destroy"
      BY <1>2, <1>5, <1>7, <2>4 DEF LinesHold
    <3> QED BY <1>1, <1>2, <1>4, <2>2, <2>3, <2>5, <3>1, <3>2 DEF LinesHold
  <2>8. ExpectedWaits' BY <1>1, <1>2, <1>4, <2>3, <2>4, <2>5 DEF ExpectedWaits
  <2>9. SingleTypes'
    BY <1>1, <1>4, <1>5, <2>1, <2>3 DEF DepartureInv, SingleTypes, TableCalls, Single!Sends
  <2>10. one_marker = Single!NoMarker BY <1>1, <1>9 DEF DepartureInv, Departing
  <2> QED BY <1>1, <1>8, <2>6, <2>7, <2>8, <2>9, <2>10
          DEF DepartureInv, MemoryFits, SessionFits, Departing
<1>10. CASE one_up[1].command # "create"
  <2>1. t = one_table /\ one_server[t] = "open" /\ NoPlay(t) /\ one_game = Single!NoGame
    BY <1>3, <1>10 DEF IdleTable
  <2>2. one_expected = Single!NONE BY <1>1, <1>2, <1>7, <2>1 DEF ExpectedWaits
  <2>3. \A i \in DOMAIN one_down : one_down[i].event # "destroy"
    BY <1>2, <2>1 DEF LinesHold, NoPlay, Play
  <2>4. \A i \in DOMAIN one_down : one_down[i].t = t => one_down[i].event # "end"
    BY <2>1 DEF NoPlay, Play
  <2>5. CASE one_up[1].command = "ready"
    <3>1. one_server' = [one_server EXCEPT ![t] = "ready"] /\ one_down' = one_down BY <1>6, <2>5
    <3>2. one_server'[t] = "ready" /\ \A u \in Names : u # t => one_server'[u] = one_server[u]
      BY <1>1, <1>5, <3>1
    <3>3. LinesHold'
      BY <1>1, <1>2, <1>4, <1>5, <2>3, <2>4, <3>1, <3>2 DEF LinesHold
    <3>4. SingleTypes'
      BY <1>1, <1>4, <1>5, <3>1 DEF DepartureInv, SingleTypes, TableCalls, Single!Sends
    <3>5. one_marker = Single!NoMarker BY <1>1, <2>5 DEF DepartureInv, Departing
    <3>6. Ordered' /\ ExpectedWaits' BY <1>1, <1>2, <2>2, <3>1 DEF Ordered, ExpectedWaits
    <3> QED BY <1>1, <1>8, <3>1, <3>3, <3>4, <3>5, <3>6
            DEF DepartureInv, MemoryFits, SessionFits, Departing
  <2>6. CASE one_up[1].command = "leave"
    <3> DEFINE line == [event |-> "destroy", t |-> t]
    <3>1. one_server' = [one_server EXCEPT ![t] = "none"] /\ Single!Tell(line) BY <1>6, <2>6
    <3>2. line \in Events /\ line.t = t /\ line.event = "destroy" BY <1>5
    <3> HIDE DEF line
    <3>3. /\ one_down' \in Seq(Events)
          /\ \A j \in DOMAIN one_down' : (j \in DOMAIN one_down /\ one_down'[j] = one_down[j])
               \/ one_down'[j] = line
          /\ (\A i \in DOMAIN one_down : one_down[i].t = t =>
                 /\ one_down[i].event # "destroy"
                 /\ one_down[i].event = "end" => line.event \notin Play
                 /\ line.event = "destroy" => one_down[i].event \notin Play)
             => (Ordered => Ordered')
      BY <3>1, <3>2, TellIs
    <3>4. one_server'[t] = "none" /\ \A u \in Names : u # t => one_server'[u] = one_server[u]
      BY <1>1, <1>5, <3>1
    <3>5. Ordered' BY <1>2, <2>1, <2>3, <2>4, <3>3 DEF NoPlay
    <3>6. LinesHold'
      <4>1. \A i \in DOMAIN one_down :
              /\ one_down[i].event = "end" => one_server'[one_down[i].t] = "open"
              /\ one_down[i].event # "destroy"
              /\ one_server'[one_down[i].t] = "none" => one_down[i].t = one_table
        BY <1>2, <1>5, <2>1, <2>3, <2>4, <3>4 DEF LinesHold
      <4> QED BY <1>1, <1>4, <2>1, <3>2, <3>3, <3>4, <4>1 DEF LinesHold
    <3>7. SingleTypes'
      BY <1>1, <1>4, <1>5, <3>1, <3>3 DEF DepartureInv, SingleTypes, TableCalls, Single!Sends
    <3>8. ExpectedWaits' BY <1>1, <2>2 DEF ExpectedWaits
    <3>9. Departing'
      <4> SUFFICES ASSUME one_marker # Single!NoMarker PROVE Departing' BY <1>1 DEF Departing
      <4>1. Departing BY DEF DepartureInv
      <4>2. one_marker.log # "confirmed" BY <1>3, <4>1 DEF Departing
      <4>3. \A i \in DOMAIN one_down' : one_down'[i].t = one_table =>
               one_down'[i].event \notin {"start", "end"}
        BY <2>1, <3>2, <3>3 DEF NoPlay, Play
      <4>4. \A i \in DOMAIN one_up' : one_up'[i].command = "leave" BY <1>4
      <4> QED BY <1>1, <1>3, <2>1, <3>4, <4>1, <4>2, <4>3, <4>4 DEF Departing
    <3> QED BY <1>1, <1>8, <3>5, <3>6, <3>7, <3>8, <3>9
            DEF DepartureInv, MemoryFits, SessionFits
  <2> QED BY <1>1, <1>10, <2>5, <2>6 DEF Commands
<1> QED BY <1>9, <1>10

\* Every step keeps the invariant, and a departure is resolved only at a table that
\* is gone.
LEMMA DepartureStep ==
  ASSUME DepartureInv, [Single!Next]_(Single!vars)
  PROVE  /\ DepartureInv'
         /\ one_marker # Single!NoMarker /\ one_marker' = Single!NoMarker
            => one_server[one_marker.t] = "none"
<1>1. CASE Single!Worker
  <2>1. CASE Single!_create_next_table BY <2>1, CreateKeeps DEF Single!_create_next_table, Single!disk
  <2>2. CASE Single!SendCommand
    <3>1. one_marker # Single!NoMarker => one_marker' # Single!NoMarker
      <4>1. \/ one_marker' = one_marker
            \/ one_marker.t = one_doing.t /\ one_marker' = [one_marker EXCEPT !.log = "left"]
        BY <2>2 DEF Single!SendCommand
      <4>2. one_marker # Single!NoMarker =>
               one_marker \in [t : Names, log : {"nothing", "left", "confirmed"}]
        BY DEF DepartureInv, SingleTypes
      <4> QED BY <4>1, <4>2, PlainRecords, NamesAssumption
    <3> QED BY <2>2, <3>1, SendKeeps
  <2>3. ASSUME one_proc = "up", Single!ConnectionFails PROVE DepartureInv' /\ one_marker' = one_marker
    <3>1. one_marker' = one_marker BY <2>3 DEF Single!ConnectionFails, Single!disk
    <3> QED BY <2>3, <3>1, StopsKeep, HangupKeeps
  <2>4. CASE Single!SendRaises \/ Single!ReadRaises BY <2>3, <2>4 DEF Single!SendRaises, Single!ReadRaises
  <2>5. CASE Single!withdraw BY <2>5, WithdrawLeaves DEF Single!withdraw
  <2>6. CASE Single!decide
    <3>1. one_marker = Single!NoMarker BY <2>6 DEF Single!decide, Single!Calling, DepartureInv, Departing
    <3> QED BY <2>6, <3>1, DecideKeeps
  <2>7. CASE Single!fail BY <2>7, StopsKeep DEF Single!fail
  <2>8. CASE Single!_on_destroy
    <3>1. CASE Mismatch
      <4>1. one_marker' = one_marker BY <3>1 DEF Mismatch, Single!_on_destroy
      <4> QED BY <3>1, <4>1, StopsKeep
    <3> QED BY <2>8, <3>1, RetireKeeps
  <2>9. CASE Single!_wait_for_mirror_capacity
    BY <2>9, WaitKeeps DEF Single!_wait_for_mirror_capacity, Single!disk
  <2> QED BY <1>1, <2>1, <2>2, <2>4, <2>5, <2>6, <2>7, <2>8, <2>9 DEF Single!Worker
<1>2. CASE Single!Handlers
  <2>1. CASE Single!_event_is_foreign BY <2>1, ForeignKeeps DEF Single!_event_is_foreign, Single!disk
  <2>2. CASE Single!_on_create BY <2>2, OnCreateKeeps DEF Single!_on_create, Single!disk
  <2>3. CASE Single!_on_end BY <2>3, OnEndKeepsDeparture DEF Single!_on_end
  <2>4. CASE Single!_on_table_error BY <2>4, OnErrorKeepsDeparture DEF Single!_on_table_error
  <2>5. CASE Single!WithoutGame BY <2>5, StopsKeep DEF Single!WithoutGame, Single!disk
  <2>6. CASE Single!destroyed BY <2>6, DestroyedKeeps
  <2>7. ASSUME NEW stack, NEW seat, Single!_on_start_preapply(stack, seat)
        PROVE  DepartureInv' /\ one_marker' = one_marker
    BY <2>7, OnStartKeepsDeparture DEF Single!_on_start_preapply
  <2> QED BY <1>2, <2>1, <2>2, <2>3, <2>4, <2>5, <2>6, <2>7 DEF Single!Handlers
<1>3. CASE Single!Session
  <2>1. CASE Single!_run_connected_session
    BY <2>1, ConnectKeeps DEF Single!_run_connected_session, Single!disk
  <2>2. CASE Single!run BY <2>2, RunKeeps
  <2>3. CASE Single!Die BY <2>3, StopsKeep DEF Single!Die, Single!disk
  <2>4. CASE Single!Break BY <2>4, BreakKeeps DEF Single!Break, Single!disk
  <2>5. CASE Single!Drain
    BY <2>5, DepartureStutters DEF Single!Drain, Single!disk, Single!memory, Single!net
  <2> QED BY <1>3, <2>1, <2>2, <2>3, <2>4, <2>5 DEF Single!Session
<1>4. CASE Single!Server
  <2>1. CASE Single!ServerTakes BY <2>1, TakesApart, TakesKeeps, TakesIs
  <2>2. ASSUME NEW t \in Names, Single!StartGame(t) \/ Single!EndGame(t)
        PROVE  DepartureInv' /\ one_marker' = one_marker
    BY <2>2, PlaysKeep DEF Single!StartGame, Single!EndGame, Single!Plays, Single!disk
  <2>3. ASSUME NEW t \in Names, Single!Refuse(t) PROVE DepartureInv' /\ one_marker' = one_marker
    BY <2>3, RefuseKeeps DEF Single!Refuse, Single!disk
  <2> QED BY <1>4, <2>1, <2>2, <2>3 DEF Single!Server
<1>5. CASE UNCHANGED Single!vars
  BY <1>5, DepartureStutters DEF Single!vars, Single!disk, Single!memory, Single!net
<1> QED BY <1>1, <1>2, <1>3, <1>4, <1>5 DEF Single!Next

\* reconcile_mirror_departure, for any names of tables, games, failures, deaths, lost
\* connections and pauses: nothing is played or opened while a departure is unresolved,
\* and only a table that is gone resolves it.
THEOREM DepartureProved ==
  Single!Spec => DepartureIsProved
<1>1. Single!Spec => []DepartureInv
  <2>1. DepartureInv /\ [Single!Next]_(Single!vars) => DepartureInv' BY DepartureStep
  <2> QED BY <2>1, DepartureStarts, PTL DEF Single!Spec
<1>2. DepartureInv /\ DepartureInv' /\ [Single!Next]_(Single!vars) =>
        [ /\ one_marker' # Single!NoMarker =>
                one_game' = Single!NoGame /\ \A i \in DOMAIN one_up' : one_up'[i].command = "leave"
          /\ one_marker # Single!NoMarker /\ one_marker' = Single!NoMarker
             => one_server[one_marker.t] = "none" ]_(Single!vars)
  BY DepartureStep DEF DepartureInv, Departing
<1> QED BY <1>1, <1>2, PTL DEF Single!Spec, Single!DepartureIsProved, DepartureIsProved
=============================================================================
