---------------------------- MODULE LedgerProofs ----------------------------
(* Machine-checked facts about the two books, for any set of symbols,      *)
(* prices, lots, fees and wallets: sums over positions first, then the     *)
(* accounting of one position, then the steps and the theorems.            *)
EXTENDS Ledger, FiniteSetTheorems, TLAPS

(* Finitely many position records, each with an average price.             *)
Sound(p) ==
    /\ DOMAIN p \subseteq Symbols
    /\ IsFiniteSet(DOMAIN p)
    /\ \A s \in DOMAIN p : p[s].qty \in Int /\ p[s].cost \in Int /\ SignedCost(p[s])

Marks == [Symbols -> Prices \cup {NoMark}]

(* What TypeOK says of a book, and that its position records are finite.   *)
Typed(b) ==
    /\ Sound(b.positions) /\ b.marks \in Marks
    /\ b.start \in Nat \ {0}
    /\ b.realised \in Int /\ b.unreal \in Int /\ b.equity \in Int

(* Until the exchange's wallet is applied the two guards of a capital sync *)
(* are the same: only fills, which are never taken back, make a position   *)
(* record.                                                                 *)
SameGuards == ~synced => (filled <=> sentinel.positions # <<>>)

IInv ==
    /\ Typed(sentinel) /\ Typed(cockpit)
    /\ filled \in BOOLEAN /\ synced \in BOOLEAN
    /\ SameGuards /\ Mirrored

-----------------------------------------------------------------------------
(* Sums over a finite function. Their defining equation is recursive, and  *)
(* what they add up to does not depend on the order that it picks.         *)
Some(s) == CHOOSE x \in s : TRUE

SumsUp(g, f) ==
    g = [s \in SUBSET DOMAIN f |-> IF s = {} THEN 0 ELSE f[Some(s)] + g[s \ {Some(s)}]]

PartSums(f) == CHOOSE g : SumsUp(g, f)

(* The library's sum, as the recursive function that it is.                *)
LEMMA SumUnfold == \A f : SumFunction(f) = PartSums(f)[DOMAIN f]
BY DEF SumFunction, SumFunctionOnSet, FoldFunctionOnSet, MapThenFoldSet, PartSums, SumsUp, Some

(* The two inductions, as facts about sets: among subsets of a finite set  *)
(* there is one none of whose elements can be dropped, and a set of        *)
(* numbers that 0 and every successor of a number outside stay out of is   *)
(* empty.                                                                  *)
LEMMA MinimalSet ==
    ASSUME NEW D, IsFiniteSet(D), NEW T, T \subseteq SUBSET D, T # {}
    PROVE  \E s \in T : \A x \in s : s \ {x} \notin T
<1>1. FiniteSubsetsOf(D) = SUBSET D
    BY FS_FiniteSubsetsOfFinite
<1>2. IsWellFoundedOn(StrictSubsetOrdering(D), SUBSET D)
    BY <1>1, FS_StrictSubsetOrderingWellFounded
<1>3. PICK s \in T : \A t \in T : <<t, s>> \notin StrictSubsetOrdering(D)
    BY <1>2, WFMin
<1>4. ASSUME NEW x \in s, s \ {x} \in T PROVE FALSE
    <2>1. s \ {x} # s
        BY <1>4
    <2>2. <<s \ {x}, s>> \in StrictSubsetOrdering(D)
        BY <1>4, <2>1 DEF StrictSubsetOrdering
    <2> QED
        BY <1>3, <1>4, <2>2
<1> QED
    BY <1>4

LEMMA CountedUp ==
    ASSUME NEW T, T \subseteq Nat, 0 \notin T, \A n \in Nat : n \notin T => n + 1 \notin T
    PROVE  T = {}
<1> DEFINE below == {ss \in Nat \X Nat : ss[1] < ss[2]}
<1>1. IsWellFoundedOn(below, Nat)
    BY NatLessThanWellFounded DEF OpToRel
<1>2. SUFFICES ASSUME T # {} PROVE FALSE
    OBVIOUS
<1> HIDE DEF below
<1>3. PICK n \in T : \A m \in T : <<m, n>> \notin below
    BY <1>1, <1>2, WFMin
<1>4. n - 1 \in Nat /\ (n - 1) + 1 = n
    OBVIOUS
<1>5. <<n - 1, n>> \in below
    BY <1>4 DEF below
<1> QED
    BY <1>3, <1>4, <1>5

(* The recursion has a solution: up to any cardinality there is a function *)
(* that satisfies it, and a finite domain has a largest one.               *)
LEMMA PartSumsExist ==
    ASSUME NEW D, IsFiniteSet(D), NEW f, DOMAIN f = D, \A x \in D : f[x] \in Int
    PROVE  \E g \in [SUBSET D -> Int] : SumsUp(g, f)
<1> DEFINE Step(g, s) == IF s = {} THEN 0 ELSE f[Some(s)] + g[s \ {Some(s)}]
           Upto(g, n) == \A s \in SUBSET D : Cardinality(s) <= n => g[s] = Step(g, s)
           Bad == {n \in Nat : ~ \E g \in [SUBSET D -> Int] : Upto(g, n)}
<1>1. \A s \in SUBSET D : IsFiniteSet(s) /\ Cardinality(s) \in Nat
                          /\ Cardinality(s) <= Cardinality(D)
    BY FS_Subset, FS_CardinalityType
<1>2. \A s \in SUBSET D : s # {} => /\ Some(s) \in s /\ f[Some(s)] \in Int
                                    /\ s \ {Some(s)} \in SUBSET D
                                    /\ Cardinality(s \ {Some(s)}) = Cardinality(s) - 1
    <2> SUFFICES ASSUME NEW s \in SUBSET D, s # {}
                 PROVE  /\ Some(s) \in s /\ f[Some(s)] \in Int
                        /\ s \ {Some(s)} \in SUBSET D
                        /\ Cardinality(s \ {Some(s)}) = Cardinality(s) - 1
        OBVIOUS
    <2>1. Some(s) \in s
        BY DEF Some
    <2> QED
        BY <1>1, <2>1, FS_RemoveElement
<1>3. 0 \notin Bad
    <2> DEFINE zero == [s \in SUBSET D |-> 0]
    <2>1. zero \in [SUBSET D -> Int]
        OBVIOUS
    <2>2. \A s \in SUBSET D : Cardinality(s) <= 0 => s = {}
        BY <1>1, FS_EmptySet
    <2>3. Upto(zero, 0)
        BY <2>2
    <2> QED
        BY <2>1, <2>3
<1>4. ASSUME NEW n \in Nat, n \notin Bad PROVE n + 1 \notin Bad
    <2>1. PICK g \in [SUBSET D -> Int] : Upto(g, n)
        BY <1>4
    <2> DEFINE h == [s \in SUBSET D |-> Step(g, s)]
    <2>2. h \in [SUBSET D -> Int]
        <3> SUFFICES ASSUME NEW s \in SUBSET D PROVE Step(g, s) \in Int
            OBVIOUS
        <3>1. CASE s = {}
            BY <3>1
        <3>2. CASE s # {}
            <4>1. g[s \ {Some(s)}] \in Int /\ f[Some(s)] \in Int
                BY <1>2, <3>2
            <4> QED
                BY <3>2, <4>1
        <3> QED
            BY <3>1, <3>2
    <2>3. ASSUME NEW s \in SUBSET D, Cardinality(s) <= n + 1 PROVE h[s] = Step(h, s)
        <3>1. CASE s = {}
            BY <3>1
        <3>2. CASE s # {}
            <4> DEFINE r == s \ {Some(s)}
            <4>1. r \in SUBSET D /\ Cardinality(r) <= n
                BY <1>1, <1>2, <2>3, <3>2
            <4>2. g[r] = Step(g, r)
                BY <2>1, <4>1
            <4>3. h[r] = g[r]
                BY <4>1, <4>2
            <4> QED
                BY <3>2, <4>3
        <3> QED
            BY <3>1, <3>2
    <2>4. Upto(h, n + 1)
        BY <2>3
    <2> QED
        BY <2>2, <2>4
<1>5. \A n \in Nat : n \notin Bad
    <2> HIDE DEF Bad
    <2>1. Bad \subseteq Nat
        BY DEF Bad
    <2>2. Bad = {}
        BY <1>3, <1>4, <2>1, CountedUp
    <2> QED
        BY <2>2
<1>6. PICK g \in [SUBSET D -> Int] : Upto(g, Cardinality(D))
    BY <1>1, <1>5
<1>7. g = [s \in SUBSET D |-> Step(g, s)]
    BY <1>1, <1>6
<1> QED
    BY <1>7 DEF SumsUp

LEMMA PartSumsDef ==
    ASSUME NEW f, IsFiniteSet(DOMAIN f), \A x \in DOMAIN f : f[x] \in Int
    PROVE  /\ PartSums(f)[{}] = 0
           /\ \A s \in SUBSET DOMAIN f :
                 s # {} => PartSums(f)[s] = f[Some(s)] + PartSums(f)[s \ {Some(s)}]
<1>1. SumsUp(PartSums(f), f)
    BY PartSumsExist DEF PartSums
<1>2. \A s \in SUBSET DOMAIN f :
         PartSums(f)[s] = IF s = {} THEN 0
                          ELSE f[Some(s)] + PartSums(f)[s \ {Some(s)}]
    BY <1>1 DEF SumsUp
<1> QED
    BY <1>2

LEMMA PartSumsType ==
    ASSUME NEW f, IsFiniteSet(DOMAIN f), \A x \in DOMAIN f : f[x] \in Int
    PROVE  \A s \in SUBSET DOMAIN f : PartSums(f)[s] \in Int
<1> DEFINE T == {s \in SUBSET DOMAIN f : PartSums(f)[s] \notin Int}
<1>1. SUFFICES ASSUME T # {} PROVE FALSE
    OBVIOUS
<1>2. PICK s \in T : \A x \in s : s \ {x} \notin T
    BY <1>1, MinimalSet
<1>3. CASE s = {}
    BY <1>3, PartSumsDef
<1>4. CASE s # {}
    <2>1. Some(s) \in s
        BY <1>4 DEF Some
    <2>2. PartSums(f)[s \ {Some(s)}] \in Int /\ f[Some(s)] \in Int
        BY <1>2, <2>1
    <2>3. PartSums(f)[s] = f[Some(s)] + PartSums(f)[s \ {Some(s)}]
        BY <1>2, <1>4, PartSumsDef
    <2> QED
        BY <1>2, <2>2, <2>3
<1> QED
    BY <1>3, <1>4

(* Any element may be taken out first.                                     *)
LEMMA PartSumsRemove ==
    ASSUME NEW f, IsFiniteSet(DOMAIN f), \A x \in DOMAIN f : f[x] \in Int
    PROVE  \A s \in SUBSET DOMAIN f : \A x \in s :
              PartSums(f)[s] = f[x] + PartSums(f)[s \ {x}]
<1> DEFINE S(s) == PartSums(f)[s]
           T == {s \in SUBSET DOMAIN f : \E x \in s : S(s) # f[x] + S(s \ {x})}
<1>1. SUFFICES ASSUME T # {} PROVE FALSE
    OBVIOUS
<1>2. PICK s \in T : \A x \in s : s \ {x} \notin T
    BY <1>1, MinimalSet
<1>3. PICK x \in s : S(s) # f[x] + S(s \ {x})
    BY <1>2
<1> DEFINE y == Some(s)
<1>4. y \in s /\ S(s) = f[y] + S(s \ {y})
    BY <1>3, PartSumsDef DEF Some
<1> HIDE DEF y
<1>5. x # y
    BY <1>3, <1>4
<1> DEFINE r == (s \ {x}) \ {y}
<1>6. r = (s \ {y}) \ {x}
    OBVIOUS
<1> HIDE DEF r
<1>7. S(s \ {y}) = f[x] + S(r)
    BY <1>2, <1>4, <1>5, <1>6
<1>8. S(s \ {x}) = f[y] + S(r)
    BY <1>2, <1>4, <1>5 DEF r
<1>9. f[x] \in Int /\ f[y] \in Int /\ r \in SUBSET DOMAIN f
    BY <1>4 DEF r
<1>10. S(r) \in Int
    BY <1>9, PartSumsType
<1> QED
    BY <1>3, <1>4, <1>7, <1>8, <1>9, <1>10

(* A sum depends on the values that are summed, not on the function or on  *)
(* the order in which its domain is taken apart.                           *)
LEMMA PartSumsAgree ==
    ASSUME NEW f, IsFiniteSet(DOMAIN f), \A x \in DOMAIN f : f[x] \in Int,
           NEW g, IsFiniteSet(DOMAIN g), \A x \in DOMAIN g : g[x] \in Int,
           NEW C \in SUBSET DOMAIN f, C \in SUBSET DOMAIN g, \A x \in C : f[x] = g[x]
    PROVE  PartSums(f)[C] = PartSums(g)[C]
<1> DEFINE T == {s \in SUBSET C : PartSums(f)[s] # PartSums(g)[s]}
<1>1. SUFFICES ASSUME T # {} PROVE FALSE
    OBVIOUS
<1>2. PICK s \in T : \A x \in s : s \ {x} \notin T
    BY <1>1, FS_Subset, MinimalSet
<1>3. CASE s = {}
    BY <1>3, PartSumsDef
<1>4. CASE s # {}
    <2>1. Some(s) \in s
        BY <1>4 DEF Some
    <2>2. PartSums(f)[s \ {Some(s)}] = PartSums(g)[s \ {Some(s)}] /\ f[Some(s)] = g[Some(s)]
        BY <1>2, <2>1
    <2>3. PartSums(f)[s] = f[Some(s)] + PartSums(f)[s \ {Some(s)}]
        BY <1>2, <1>4, PartSumsDef
    <2>4. PartSums(g)[s] = g[Some(s)] + PartSums(g)[s \ {Some(s)}]
        BY <1>2, <1>4, PartSumsDef
    <2> QED
        BY <2>2, <2>3, <2>4
<1> QED
    BY <1>3, <1>4

LEMMA SumType ==
    ASSUME NEW f, IsFiniteSet(DOMAIN f), \A x \in DOMAIN f : f[x] \in Int
    PROVE  SumFunction(f) \in Int
BY PartSumsType, SumUnfold

(* Changing or adding one entry changes the sum by the difference.         *)
LEMMA SumReplace ==
    ASSUME NEW f, IsFiniteSet(DOMAIN f), \A y \in DOMAIN f : f[y] \in Int,
           NEW x, NEW g, DOMAIN g = DOMAIN f \cup {x}, g[x] \in Int,
           \A y \in DOMAIN f \ {x} : g[y] = f[y]
    PROVE  SumFunction(g) = SumFunction(f) + g[x] - (IF x \in DOMAIN f THEN f[x] ELSE 0)
<1> DEFINE D == DOMAIN f
           E == DOMAIN g
           C == D \ {x}
<1>1. IsFiniteSet(E) /\ \A y \in E : g[y] \in Int
    BY FS_AddElement
<1>2. C \in SUBSET D /\ C \in SUBSET E /\ C = E \ {x} /\ x \in E
    OBVIOUS
<1>3. PartSums(f)[C] = PartSums(g)[C]
    BY <1>1, <1>2, PartSumsAgree
<1>4. PartSums(g)[E] = g[x] + PartSums(g)[C]
    BY <1>1, <1>2, PartSumsRemove
<1>5. x \in D => PartSums(f)[D] = f[x] + PartSums(f)[C]
    BY PartSumsRemove
<1>6. x \notin D => C = D
    OBVIOUS
<1>7. PartSums(f)[C] \in Int /\ g[x] \in Int /\ (x \in D => f[x] \in Int)
    BY PartSumsType
<1>8. SumFunction(f) = PartSums(f)[D] /\ SumFunction(g) = PartSums(g)[E]
    BY SumUnfold
<1> HIDE DEF D, E, C
<1>9. CASE x \in D
    BY <1>3, <1>4, <1>5, <1>7, <1>8, <1>9 DEF D
<1>10. CASE x \notin D
    BY <1>3, <1>4, <1>6, <1>7, <1>8, <1>10 DEF D
<1> QED
    BY <1>9, <1>10

-----------------------------------------------------------------------------
(* A sum over the positions depends only on the marks of what is held.     *)
LEMMA UnrealAgrees ==
    ASSUME NEW p, NEW m1, NEW m2, \A s \in DOMAIN p : m1[s] = m2[s]
    PROVE  Unrealised(p, m1) = Unrealised(p, m2)
<1>1. [s \in DOMAIN p |-> Unreal(p[s], m1[s])] = [s \in DOMAIN p |-> Unreal(p[s], m2[s])]
    OBVIOUS
<1> QED
    BY <1>1 DEF Unrealised

LEMMA BookFields ==
    ASSUME NEW p, NEW m, NEW s, NEW r, NEW u, NEW e
    PROVE  /\ Book(p, m, s, r, u, e).positions = p
           /\ Book(p, m, s, r, u, e).marks = m
           /\ Book(p, m, s, r, u, e).start = s
           /\ Book(p, m, s, r, u, e).realised = r
           /\ Book(p, m, s, r, u, e).unreal = u
           /\ Book(p, m, s, r, u, e).equity = e
BY DEF Book

LEMMA RevaluedFields ==
    ASSUME NEW p, NEW m, NEW s, NEW r
    PROVE  /\ Revalued(p, m, s, r).positions = p
           /\ Revalued(p, m, s, r).marks = m
           /\ Revalued(p, m, s, r).start = s
           /\ Revalued(p, m, s, r).realised = r
           /\ Revalued(p, m, s, r).unreal = Unrealised(p, m)
           /\ Revalued(p, m, s, r).equity = s + r + Unrealised(p, m)
BY DEF Revalued, Book

LEMMA MarksInt == \A m \in Marks : \A s \in Symbols : m[s] \in Int
<1>1. \A x \in Prices \cup {NoMark} : x \in Int
    BY LedgerAssumption DEF LedgerAssumption, NoMark
<1> QED
    BY <1>1 DEF Marks

LEMMA UnrealInt ==
    ASSUME NEW pos, pos.qty \in Int, pos.cost \in Int, NEW mark \in Int
    PROVE  Unreal(pos, mark) \in Int
BY DEF Unreal

LEMMA UnrealisedType ==
    ASSUME NEW p, Sound(p), NEW m \in Marks
    PROVE  Unrealised(p, m) \in Int
<1> DEFINE f == [s \in DOMAIN p |-> Unreal(p[s], m[s])]
<1>1. \A s \in DOMAIN f : f[s] \in Int
    BY MarksInt, UnrealInt DEF Sound
<1>2. IsFiniteSet(DOMAIN f)
    BY DEF Sound
<1> HIDE DEF f
<1>3. SumFunction(f) \in Int
    BY <1>1, <1>2, SumType
<1> QED
    BY <1>3 DEF Unrealised, f

LEMMA RevaluedTyped ==
    ASSUME NEW p, Sound(p), NEW m \in Marks, NEW s \in Nat \ {0}, NEW r \in Int
    PROVE  Typed(Revalued(p, m, s, r))
BY UnrealisedType, RevaluedFields DEF Typed

LEMMA StoreFields ==
    ASSUME NEW p, NEW sym, NEW pos
    PROVE  /\ DOMAIN Store(p, sym, pos) = DOMAIN p \cup {sym}
           /\ \A s \in DOMAIN Store(p, sym, pos) :
                 Store(p, sym, pos)[s] = IF s = sym THEN pos ELSE p[s]
           /\ Store(p, sym, pos) # <<>>
<1>1. DOMAIN Store(p, sym, pos) = DOMAIN p \cup {sym}
    BY DEF Store
<1>2. DOMAIN <<>> = {}
    OBVIOUS
<1> QED
    BY <1>1, <1>2 DEF Store

LEMMA StoreSound ==
    ASSUME NEW p, Sound(p), NEW sym \in Symbols,
           NEW pos, pos.qty \in Int, pos.cost \in Int, SignedCost(pos)
    PROVE  Sound(Store(p, sym, pos))
<1>1. IsFiniteSet(DOMAIN p \cup {sym})
    BY FS_AddElement DEF Sound
<1> DEFINE q == Store(p, sym, pos)
<1>2. /\ DOMAIN q = DOMAIN p \cup {sym}
      /\ \A s \in DOMAIN q : q[s] = IF s = sym THEN pos ELSE p[s]
    BY DEF Store
<1> HIDE DEF q
<1>3. ASSUME NEW s \in DOMAIN q
      PROVE  q[s].qty \in Int /\ q[s].cost \in Int /\ SignedCost(q[s])
    <2>1. CASE s = sym
        BY <1>2, <2>1
    <2>2. CASE s # sym
        BY <1>2, <2>2 DEF Sound
    <2> QED
        BY <2>1, <2>2
<1>4. DOMAIN q \subseteq Symbols /\ IsFiniteSet(DOMAIN q)
    BY <1>1, <1>2 DEF Sound
<1>5. Sound(q)
    BY <1>3, <1>4 DEF Sound
<1> QED
    BY <1>5 DEF q

LEMMA HeldSound ==
    ASSUME NEW p, Sound(p), NEW sym
    PROVE  /\ Held(p, sym).qty \in Int /\ Held(p, sym).cost \in Int
           /\ SignedCost(Held(p, sym))
BY DEF Held, Flat, Sound, SignedCost

-----------------------------------------------------------------------------
(* The accounting of one position keeps integers, and a cost that has the  *)
(* sign of its quantity: of a close too, since what it takes out is in     *)
(* proportion.                                                             *)
LEMMA SizeType ==
    \A x \in Int : Size(x) \in Nat /\ (x # 0 => Size(x) > 0)
BY DEF Size

LEMMA TakenInProportion ==
    ASSUME NEW c \in Int, NEW d \in Nat \ {0}, NEW n \in Int,
           NEW share \in Int, share * d = c * n
    PROVE  /\ c >= 0 => /\ d - n >= 0 => c - share >= 0
                        /\ d - n <= 0 => c - share <= 0
           /\ c <= 0 => /\ d - n >= 0 => c - share <= 0
                        /\ d - n <= 0 => c - share >= 0
<1>1. PICK x \in Int : x = c - share
    OBVIOUS
<1>2. PICK e \in Int : e = d - n
    OBVIOUS
<1>3. (c - share) * d = c * d - share * d /\ c * (d - n) = c * d - c * n
    OBVIOUS
<1>4. x * d = c * e
    BY <1>1, <1>2, <1>3
<1>5. c >= 0 /\ e >= 0 => c * e >= 0
    OBVIOUS
<1>6. c >= 0 /\ e <= 0 => c * e <= 0
    OBVIOUS
<1>7. c <= 0 /\ e >= 0 => c * e <= 0
    OBVIOUS
<1>8. c <= 0 /\ e <= 0 => c * e >= 0
    OBVIOUS
<1>9. x * d >= 0 => x >= 0
    OBVIOUS
<1>10. x * d <= 0 => x <= 0
    OBVIOUS
<1> QED
    BY <1>1, <1>2, <1>4, <1>5, <1>6, <1>7, <1>8, <1>9, <1>10

LEMMA ReducedSound ==
    ASSUME NEW pos, pos.qty \in Int, pos.cost \in Int, pos.qty # 0,
           SignedCost(pos), NEW n \in Nat \ {0}
    PROVE  /\ Share(pos, n) \in Int
           /\ Reduced(pos, n).qty \in Int /\ Reduced(pos, n).cost \in Int
           /\ Exact(pos, n) => SignedCost(Reduced(pos, n))
<1> DEFINE q == pos.qty
           c == pos.cost
           d == Size(q)
           share == Share(pos, n)
<1>1. d \in Nat \ {0} /\ c * n \in Int
    BY SizeType
<1>2. share \in Int
    BY <1>1 DEF Share
<1>3. /\ Reduced(pos, n).qty = q - Direction(pos) * n
      /\ Reduced(pos, n).cost = c - share
      /\ Direction(pos) = IF q > 0 THEN 1 ELSE -1
    BY DEF Reduced, Direction
<1>4. ASSUME Exact(pos, n) PROVE SignedCost(Reduced(pos, n))
    <2>1. share * d = c * n
        BY <1>1, <1>4 DEF Exact, Share
    <2> HIDE DEF share
    <2>2. /\ c >= 0 => /\ d - n >= 0 => c - share >= 0
                       /\ d - n <= 0 => c - share <= 0
          /\ c <= 0 => /\ d - n >= 0 => c - share <= 0
                       /\ d - n <= 0 => c - share >= 0
        BY <1>1, <1>2, <2>1, TakenInProportion
    <2>3. CASE q > 0
        <3>1. d = q /\ c >= 0 /\ Reduced(pos, n).qty = q - n
            BY <1>3, <2>3 DEF SignedCost, Size
        <3> QED
            BY <1>2, <1>3, <2>2, <3>1 DEF SignedCost
    <2>4. CASE q < 0
        <3>1. d = -q /\ c <= 0 /\ Reduced(pos, n).qty = q + n
            BY <1>3, <2>4 DEF SignedCost, Size
        <3> QED
            BY <1>2, <1>3, <2>2, <3>1 DEF SignedCost
    <2> QED
        BY <2>3, <2>4
<1> HIDE DEF share
<1>5. Reduced(pos, n).qty \in Int /\ Reduced(pos, n).cost \in Int
    BY <1>2, <1>3
<1> QED
    BY <1>2, <1>4, <1>5 DEF share

LEMMA AveragedSound ==
    ASSUME NEW pos, pos.qty \in Int, pos.cost \in Int, NEW delta \in Int,
           NEW price \in Nat
    PROVE  /\ Averaged(pos, delta, price).qty \in Int
           /\ Averaged(pos, delta, price).cost \in Int
           /\ SignedCost(Averaged(pos, delta, price))
<1> DEFINE qty == pos.qty + delta
           cost == Size(pos.cost) + price * Size(delta)
<1>1. cost \in Nat /\ qty \in Int
    BY SizeType
<1>2. /\ Averaged(pos, delta, price).qty = qty
      /\ Averaged(pos, delta, price).cost =
            IF qty = 0 THEN 0 ELSE IF qty > 0 THEN cost ELSE -cost
    BY DEF Averaged
<1> HIDE DEF qty, cost
<1> QED
    BY <1>1, <1>2 DEF SignedCost

LEMMA PositionType ==
    ASSUME NEW pos, pos.qty \in Int, pos.cost \in Int, SignedCost(pos),
           NEW side \in Sides, NEW n \in Lots, NEW price \in Prices, NEW fee \in Fees
    PROVE  /\ SentinelMoved(pos, side, n, price).qty \in Int
           /\ SentinelMoved(pos, side, n, price).cost \in Int
           /\ Booked(pos, side, n, price, fee) \in Int
           /\ (Closes(pos, side) => Exact(pos, n))
              => SignedCost(SentinelMoved(pos, side, n, price))
<1>1. n \in Nat \ {0} /\ price \in Nat /\ fee \in Nat
    BY LedgerAssumption DEF LedgerAssumption
<1>2. CASE Closes(pos, side)
    <2>1. pos.qty # 0
        BY <1>2 DEF Closes
    <2>2. Gain(pos, n, price, fee) \in Int
        BY <1>1, <2>1, ReducedSound DEF Gain, Direction
    <2> QED
        BY <1>1, <1>2, <2>1, <2>2, ReducedSound DEF SentinelMoved, Booked
<1>3. CASE ~Closes(pos, side)
    <2>1. Signed(side, n) \in Int
        BY <1>1 DEF Signed
    <2> QED
        BY <1>1, <1>3, <2>1, AveragedSound DEF SentinelMoved, Booked
<1> QED
    BY <1>2, <1>3
-----------------------------------------------------------------------------
LEMMA InitIInv == Init => IInv
<1> SUFFICES ASSUME Init PROVE IInv
    OBVIOUS
<1>1. DOMAIN <<>> = {} /\ IsFiniteSet({})
    BY FS_EmptySet
<1>2. /\ Opening.positions = <<>> /\ Opening.start = Capital
      /\ Opening.realised = 0 /\ Opening.marks = [s \in Symbols |-> NoMark]
      /\ Opening.unreal = 0 /\ Opening.equity = Capital
    BY BookFields DEF Opening
<1>3. Opening.marks \in Marks
    BY <1>2 DEF Marks
<1>4. Sound(Opening.positions)
    BY <1>1, <1>2 DEF Sound
<1>5. Capital \in Nat \ {0}
    BY LedgerAssumption DEF LedgerAssumption
<1>6. Typed(Opening)
    BY <1>2, <1>3, <1>4, <1>5 DEF Typed
<1> QED
    BY <1>1, <1>2, <1>6 DEF IInv, Init, SameGuards, Mirrored

LEMMA FillIInv ==
    ASSUME IInv, NEW sym \in Symbols, NEW side \in Sides, NEW n \in Lots,
           NEW price \in Prices, NEW fee \in Fees, Fill(sym, side, n, price, fee)
    PROVE  IInv' /\ Cash(cockpit)' - Cash(sentinel)' = Cash(cockpit) - Cash(sentinel)
<1> DEFINE pos == Held(sentinel.positions, sym)
           moved == SentinelMoved(pos, side, n, price)
           gain == Booked(pos, side, n, price, fee)
           book == Store(sentinel.positions, sym, moved)
<1>1. Held(cockpit.positions, sym) = pos /\ CockpitMoved(pos, side, n, price) = moved
    BY DEF IInv, Mirrored, CockpitMoved, SentinelMoved
<1>2. pos.qty \in Int /\ pos.cost \in Int /\ SignedCost(pos)
    BY HeldSound DEF IInv, Typed
<1>3. moved.qty \in Int /\ moved.cost \in Int /\ SignedCost(moved) /\ gain \in Int
    <2>1. Closes(pos, side) => Exact(pos, n)
        BY DEF Fill, InBounds
    <2> HIDE DEF pos
    <2> QED
        BY <1>2, <2>1, PositionType
<1> HIDE DEF gain, pos, moved
<1>4. sentinel' = Revalued(book, [sentinel.marks EXCEPT ![sym] = price],
                           sentinel.start, sentinel.realised + gain)
    BY DEF Fill, SentinelFilled, pos, moved, gain
<1>5. cockpit' = Revalued(book, [cockpit.marks EXCEPT ![sym] = price],
                          cockpit.start, cockpit.realised + gain)
    BY <1>1 DEF Fill, CockpitFilled, IInv, Mirrored, gain
<1> HIDE DEF book
<1>6. /\ DOMAIN book = DOMAIN sentinel.positions \cup {sym}
      /\ \A s \in DOMAIN book : book[s] = IF s = sym THEN moved ELSE sentinel.positions[s]
      /\ book # <<>>
    BY StoreFields DEF book
<1>7. /\ sentinel'.positions = book /\ sentinel'.start = sentinel.start
      /\ sentinel'.marks = [sentinel.marks EXCEPT ![sym] = price]
      /\ sentinel'.realised = sentinel.realised + gain
      /\ sentinel'.unreal = Unrealised(book, [sentinel.marks EXCEPT ![sym] = price])
    BY <1>4, RevaluedFields
<1>8. /\ cockpit'.positions = book /\ cockpit'.start = cockpit.start
      /\ cockpit'.marks = [cockpit.marks EXCEPT ![sym] = price]
      /\ cockpit'.realised = cockpit.realised + gain
      /\ cockpit'.unreal = Unrealised(book, [cockpit.marks EXCEPT ![sym] = price])
    BY <1>5, RevaluedFields
<1>9. Sound(book)
    BY <1>2, <1>3, StoreSound DEF IInv, Typed, book
<1>10. /\ [sentinel.marks EXCEPT ![sym] = price] \in Marks
       /\ [cockpit.marks EXCEPT ![sym] = price] \in Marks
    BY DEF IInv, Typed, Marks
<1>11. Typed(sentinel)' /\ Typed(cockpit)'
    <2>1. /\ sentinel.start \in Nat \ {0} /\ sentinel.realised + gain \in Int
          /\ cockpit.start \in Nat \ {0} /\ cockpit.realised + gain \in Int
        BY <1>3 DEF IInv, Typed
    <2> QED
        BY <1>4, <1>5, <1>9, <1>10, <2>1, RevaluedTyped
<1>12. filled' = TRUE /\ synced' = synced
    BY DEF Fill
<1>13. SameGuards'
    BY <1>6, <1>7, <1>12 DEF SameGuards
<1>14. ASSUME ~synced PROVE
          \A s \in DOMAIN book : [cockpit.marks EXCEPT ![sym] = price][s]
                                    = [sentinel.marks EXCEPT ![sym] = price][s]
    BY <1>6, <1>14 DEF IInv, Typed, Sound, Marks, Mirrored
<1>15. ASSUME ~synced PROVE cockpit'.unreal = sentinel'.unreal
    <2> DEFINE m1 == [cockpit.marks EXCEPT ![sym] = price]
               m2 == [sentinel.marks EXCEPT ![sym] = price]
    <2>1. \A s \in DOMAIN book : m1[s] = m2[s]
        BY <1>14, <1>15
    <2>2. cockpit'.unreal = Unrealised(book, m1) /\ sentinel'.unreal = Unrealised(book, m2)
        BY <1>7, <1>8
    <2> HIDE DEF m1, m2
    <2> QED
        BY <2>1, <2>2, UnrealAgrees
<1>16. Mirrored'
    <2>1. ASSUME ~synced PROVE
             cockpit'.start = sentinel'.start /\ cockpit'.realised = sentinel'.realised
        BY <1>7, <1>8, <2>1 DEF IInv, Mirrored
    <2>2. ASSUME ~synced PROVE
             \A s \in DOMAIN sentinel'.positions : cockpit'.marks[s] = sentinel'.marks[s]
        BY <1>7, <1>8, <1>14, <2>2
    <2> QED
        BY <1>7, <1>8, <1>12, <1>15, <2>1, <2>2 DEF Mirrored
<1>17. Cash(cockpit)' - Cash(sentinel)' = Cash(cockpit) - Cash(sentinel)
    BY <1>3, <1>7, <1>8 DEF Cash, IInv, Typed
<1> QED
    BY <1>11, <1>12, <1>13, <1>16, <1>17 DEF IInv

LEMMA TickerIInv ==
    ASSUME IInv, NEW sym \in Symbols, NEW price \in Prices, Ticker(sym, price)
    PROVE  IInv' /\ Cash(cockpit)' = Cash(cockpit) /\ Cash(sentinel)' = Cash(sentinel)
<1> DEFINE marks == [cockpit.marks EXCEPT ![sym] = price]
           own == SentinelMarks(sym, price)
<1>1. /\ own \in Marks
      /\ own = sentinel.marks \/ own = [sentinel.marks EXCEPT ![sym] = price]
      /\ sym \in DOMAIN sentinel.positions => own = [sentinel.marks EXCEPT ![sym] = price]
      /\ marks \in Marks
    BY DEF SentinelMarks, IInv, Typed, Marks
<1>2. ASSUME ~synced PROVE \A s \in DOMAIN sentinel.positions : marks[s] = own[s]
    <2> SUFFICES ASSUME NEW s \in DOMAIN sentinel.positions PROVE marks[s] = own[s]
        OBVIOUS
    <2>1. cockpit.marks[s] = sentinel.marks[s] /\ s \in Symbols
        BY <1>2 DEF IInv, Typed, Sound, Mirrored
    <2>2. CASE s = sym
        BY <1>1, <2>1, <2>2 DEF IInv, Typed, Marks
    <2>3. CASE s # sym
        BY <1>1, <2>1, <2>3 DEF IInv, Typed, Marks
    <2> QED
        BY <2>2, <2>3
<1> HIDE DEF own, marks
<1>3. /\ sentinel' = Revalued(sentinel.positions, own, sentinel.start, sentinel.realised)
      /\ cockpit' = Book(cockpit.positions, marks, cockpit.start, cockpit.realised,
                         Unrealised(cockpit.positions, marks), cockpit.equity)
      /\ filled' = filled /\ synced' = synced
    BY DEF Ticker, own, marks
<1>4. /\ sentinel'.positions = sentinel.positions /\ sentinel'.start = sentinel.start
      /\ sentinel'.marks = own /\ sentinel'.realised = sentinel.realised
      /\ sentinel'.unreal = Unrealised(sentinel.positions, own)
    BY <1>3, RevaluedFields
<1>5. /\ cockpit'.positions = cockpit.positions /\ cockpit'.start = cockpit.start
      /\ cockpit'.marks = marks /\ cockpit'.realised = cockpit.realised
      /\ cockpit'.unreal = Unrealised(cockpit.positions, marks)
      /\ cockpit'.equity = cockpit.equity
    BY <1>3, BookFields
<1>6. Typed(sentinel)' /\ Typed(cockpit)' /\ SameGuards'
    <2>1. Typed(sentinel)'
        BY <1>1, <1>3, RevaluedTyped DEF IInv, Typed
    <2>2. Unrealised(cockpit.positions, marks) \in Int
        BY <1>1, UnrealisedType DEF IInv, Typed
    <2>3. Typed(cockpit)'
        BY <1>1, <1>5, <2>2 DEF IInv, Typed
    <2> QED
        BY <1>3, <1>4, <2>1, <2>3 DEF IInv, SameGuards
<1>7. cockpit.positions = sentinel.positions
    BY DEF IInv, Mirrored
<1>8. ASSUME ~synced PROVE cockpit'.unreal = sentinel'.unreal
    BY <1>2, <1>4, <1>5, <1>7, <1>8, UnrealAgrees
<1>9. ASSUME ~synced PROVE
         /\ cockpit'.start = sentinel'.start /\ cockpit'.realised = sentinel'.realised
         /\ \A s \in DOMAIN sentinel'.positions : cockpit'.marks[s] = sentinel'.marks[s]
    BY <1>2, <1>4, <1>5, <1>9 DEF IInv, Mirrored
<1>10. Mirrored'
    BY <1>3, <1>4, <1>5, <1>7, <1>8, <1>9 DEF Mirrored
<1> QED
    BY <1>3, <1>4, <1>5, <1>6, <1>10 DEF IInv, Cash

LEMMA CapitalSyncIInv ==
    ASSUME IInv, NEW base \in Bases, CapitalSync(base)
    PROVE  /\ IInv'
           /\ \/ Cash(cockpit)' = Cash(cockpit) /\ Cash(sentinel)' = Cash(sentinel)
              \/ Cash(cockpit)' = Cash(sentinel)'
              \/ synced /\ filled /\ sentinel.positions = <<>> /\ UNCHANGED cockpit
<1>1. base \in Nat
    BY LedgerAssumption DEF LedgerAssumption
<1>2. filled' = filled /\ synced' = synced /\ cockpit.positions = sentinel.positions
    BY DEF CapitalSync, IInv, Mirrored
<1>3. \A b : /\ Rebased(b, base).positions = b.positions /\ Rebased(b, base).marks = b.marks
             /\ Rebased(b, base).start = base /\ Rebased(b, base).realised = 0
             /\ Rebased(b, base).unreal = 0 /\ Rebased(b, base).equity = base
    BY DEF Rebased, Book
<1>4. base > 0 => \A b : Typed(b) => Typed(Rebased(b, base))
    BY <1>1, <1>3 DEF Typed
<1>5. CASE sentinel.positions = <<>> /\ base > 0 /\ ~filled
    <2>1. sentinel' = Rebased(sentinel, base) /\ cockpit' = Rebased(cockpit, base)
        BY <1>2, <1>5 DEF CapitalSync, SentinelMayRebase, CockpitMayRebase
    <2>2. Typed(sentinel)' /\ Typed(cockpit)'
        BY <1>4, <1>5, <2>1 DEF IInv
    <2>3. SameGuards' /\ Mirrored'
        BY <1>2, <1>3, <1>5, <2>1 DEF IInv, SameGuards, Mirrored
    <2> QED
        BY <1>2, <1>3, <2>1, <2>2, <2>3 DEF IInv, Cash
<1>6. CASE sentinel.positions = <<>> /\ base > 0 /\ filled
    <2>1. sentinel' = Rebased(sentinel, base) /\ cockpit' = cockpit
        BY <1>2, <1>6 DEF CapitalSync, SentinelMayRebase, CockpitMayRebase
    <2>2. synced
        BY <1>6 DEF IInv, SameGuards
    <2>3. Typed(sentinel)' /\ Typed(cockpit)'
        BY <1>4, <1>6, <2>1 DEF IInv
    <2>4. SameGuards' /\ Mirrored'
        BY <1>2, <1>3, <2>1, <2>2 DEF IInv, SameGuards, Mirrored
    <2> QED
        BY <1>2, <1>6, <2>1, <2>2, <2>3, <2>4 DEF IInv
<1>7. CASE ~(sentinel.positions = <<>> /\ base > 0)
    <2>1. sentinel' = sentinel /\ cockpit' = cockpit
        BY <1>2, <1>7 DEF CapitalSync, SentinelMayRebase, CockpitMayRebase
    <2> QED
        BY <1>2, <2>1 DEF IInv, Typed, SameGuards, Mirrored, Cash
<1> QED
    BY <1>5, <1>6, <1>7

LEMMA WalletSyncIInv ==
    ASSUME IInv, NEW w \in Wallets, WalletSync(w)
    PROVE  IInv' /\ Cash(cockpit)' = Cash(sentinel)'
<1>1. w.equity \in Int /\ w.upnl \in Int /\ Sound(w.positions)
    BY LedgerAssumption DEF LedgerAssumption, Position, Sound
<1>2. sentinel' = SentinelSettled(sentinel, w) /\ cockpit' = CockpitSettled(cockpit, w)
      /\ filled' = filled /\ synced' = TRUE
    BY DEF WalletSync
<1>3. /\ sentinel'.positions = w.positions /\ sentinel'.marks = sentinel.marks
      /\ sentinel'.start = sentinel.start
      /\ sentinel'.realised = w.equity - sentinel.start - w.upnl
      /\ sentinel'.unreal = w.upnl /\ sentinel'.equity = w.equity
    BY <1>2, BookFields DEF SentinelSettled
<1>4. /\ cockpit'.positions = w.positions /\ cockpit'.marks = cockpit.marks
      /\ cockpit'.start = cockpit.start
      /\ cockpit'.realised = w.equity - cockpit.start - w.upnl
      /\ cockpit'.unreal = w.upnl /\ cockpit'.equity = w.equity
    BY <1>2, BookFields DEF CockpitSettled
<1>5. Typed(sentinel)' /\ Typed(cockpit)'
    BY <1>1, <1>3, <1>4 DEF IInv, Typed
<1>6. SameGuards' /\ Mirrored'
    BY <1>2, <1>3, <1>4 DEF SameGuards, Mirrored
<1>7. Cash(cockpit)' = Cash(sentinel)'
    BY <1>1, <1>3, <1>4 DEF Cash, IInv, Typed
<1> QED
    BY <1>2, <1>5, <1>6, <1>7 DEF IInv

LEMMA NextIInv ==
    ASSUME IInv, Next
    PROVE  /\ IInv'
           /\ Cash(cockpit) = Cash(sentinel) /\ Cash(cockpit)' # Cash(sentinel)'
              => /\ synced /\ filled
                 /\ sentinel.positions = <<>> /\ UNCHANGED cockpit
<1>0. Cash(sentinel) \in Int /\ Cash(cockpit) \in Int
    BY DEF IInv, Typed, Cash
<1>1. CASE \E sym \in Symbols, side \in Sides, n \in Lots, price \in Prices, fee \in Fees :
              Fill(sym, side, n, price, fee)
    <2>1. IInv' /\ Cash(cockpit)' - Cash(sentinel)' = Cash(cockpit) - Cash(sentinel)
        BY <1>1, FillIInv
    <2>2. Cash(sentinel)' \in Int /\ Cash(cockpit)' \in Int
        BY <2>1 DEF IInv, Typed, Cash
    <2> QED
        BY <1>0, <2>1, <2>2
<1>2. CASE \E sym \in Symbols, price \in Prices : Ticker(sym, price)
    BY <1>2, TickerIInv
<1>3. CASE \E base \in Bases : CapitalSync(base)
    BY <1>3, CapitalSyncIInv
<1>4. CASE \E w \in Wallets : WalletSync(w)
    BY <1>4, WalletSyncIInv
<1> QED
    BY <1>1, <1>2, <1>3, <1>4 DEF Next

LEMMA StutterIInv == IInv /\ UNCHANGED vars => IInv'
BY DEF IInv, Typed, SameGuards, Mirrored, vars

LEMMA Invariance == Spec => []IInv
<1>1. IInv /\ [Next]_vars => IInv'
    BY NextIInv, StutterIInv
<1> QED
    BY InitIInv, <1>1, PTL DEF Spec

-----------------------------------------------------------------------------
(* The types of both books: the sums are integers, the capital stays       *)
(* positive and no average price is ever negative.                         *)
THEOREM TypeCorrect == Spec => []TypeOK
<1>1. IInv => TypeOK
    BY DEF IInv, Typed, Sound, Marks, TypeOK, IsBook
<1> QED
    BY Invariance, <1>1, PTL

(* The Sentinel and the cockpit hold the same positions always, and the    *)
(* same book until the exchange's wallet is applied for the first time.    *)
THEOREM BooksMirror == Spec => []Mirrored
<1>1. IInv => Mirrored
    BY DEF IInv
<1> QED
    BY Invariance, <1>1, PTL

(* Whatever is booked afterwards, the two part only where the Sentinel     *)
(* re-bases an account that the exchange emptied.                          *)
THEOREM RebasingSplits == Spec => OnlyRebasingSplits
<1>1. IInv /\ [Next]_vars =>
         [/\ Cash(cockpit) = Cash(sentinel) /\ Cash(cockpit)' # Cash(sentinel)'
          => /\ synced /\ filled
             /\ sentinel.positions = <<>> /\ UNCHANGED cockpit]_vars
    BY NextIInv
<1> QED
    BY Invariance, <1>1, PTL DEF Spec, OnlyRebasingSplits

-----------------------------------------------------------------------------
(* The accounting of one position at its mark, for any quantities, prices  *)
(* and fees: a close takes out of the unrealised profit exactly what it    *)
(* books, even when it overshoots and turns the position.                  *)
THEOREM CloseConserves ==
    ASSUME NEW pos, pos.qty \in Int, pos.cost \in Int, pos.qty # 0,
           NEW n \in Nat \ {0}, NEW price \in Nat \ {0}, NEW fee \in Nat
    PROVE  Unreal(Reduced(pos, n), price) + Gain(pos, n, price, fee)
              = Unreal(pos, price) - fee
<1> DEFINE qty == pos.qty
           cost == pos.cost
<1>1. Size(qty) \in Nat /\ Size(qty) > 0
    BY SizeType
<1>2. cost * n \in Int
    OBVIOUS
<1>3. Share(pos, n) \in Int
    BY <1>1, <1>2 DEF Share
<1>4. PICK share \in Int : share = Share(pos, n)
    BY <1>3
<1>5. /\ Unreal(Reduced(pos, n), price) =
            price * (qty - Direction(pos) * n) - (cost - share)
      /\ Gain(pos, n, price, fee) = Direction(pos) * (price * n) - share - fee
      /\ Unreal(pos, price) = price * qty - cost
    BY <1>4 DEF Unreal, Reduced, Gain, NoMark
<1>6. CASE Direction(pos) = 1
    <2>1. price * (qty - n) = price * qty - price * n
        OBVIOUS
    <2> QED
        BY <1>5, <1>6, <2>1
<1>7. CASE Direction(pos) = -1
    <2>1. price * (qty + n) = price * qty + price * n
        OBVIOUS
    <2>2. qty - (-1) * n = qty + n /\ (-1) * (price * n) = -(price * n)
        OBVIOUS
    <2> QED
        BY <1>5, <1>7, <2>1, <2>2
<1> QED
    BY <1>6, <1>7 DEF Direction

(* An OPEN along the position, or from none, adds as much to its cost as   *)
(* to what it is worth at the mark.                                        *)
LEMMA OpenConserves ==
    ASSUME NEW pos, pos.qty \in Int, pos.cost \in Int, SignedCost(pos),
           NEW n \in Nat \ {0}, NEW price \in Nat \ {0},
           NEW side \in Sides, pos.qty * Signed(side, 1) >= 0
    PROVE  Unreal(Averaged(pos, Signed(side, n), price), price) = Unreal(pos, price)
<1> DEFINE qty == pos.qty
           cost == pos.cost
<1>1. \A d \in Int :
         /\ Averaged(pos, d, price).qty = qty + d
         /\ Averaged(pos, d, price).cost =
               LET c == Size(cost) + price * Size(d)
               IN  IF qty + d = 0 THEN 0 ELSE IF qty + d > 0 THEN c ELSE -c
    BY DEF Averaged
<1>2. Unreal(pos, price) = price * qty - cost
    BY DEF Unreal, NoMark
<1>3. CASE Signed(side, n) = n /\ Signed(side, 1) = 1
    <2>1. qty >= 0 /\ cost >= 0 /\ qty + n > 0
        BY <1>3 DEF SignedCost
    <2>2. Size(cost) = cost /\ Size(n) = n
        BY <2>1 DEF Size
    <2>3. /\ Averaged(pos, n, price).qty = qty + n
          /\ Averaged(pos, n, price).cost = cost + price * n
        BY <1>1, <2>1, <2>2
    <2>4. price * (qty + n) = price * qty + price * n
        OBVIOUS
    <2> QED
        BY <1>2, <1>3, <2>3, <2>4 DEF Unreal, NoMark
<1>4. CASE Signed(side, n) = -n /\ Signed(side, 1) = -1
    <2>1. qty <= 0 /\ cost <= 0 /\ qty + (-n) < 0
        BY <1>4 DEF SignedCost
    <2>2. Size(cost) = -cost /\ Size(-n) = n
        BY <2>1 DEF Size
    <2>3. /\ Averaged(pos, -n, price).qty = qty - n
          /\ Averaged(pos, -n, price).cost = cost - price * n
        <3>1. /\ Averaged(pos, -n, price).qty = qty + (-n)
              /\ Averaged(pos, -n, price).cost = -(Size(cost) + price * Size(-n))
            BY <1>1, <2>1
        <3>2. PICK k \in Int : k = price * n
            OBVIOUS
        <3>3. -(-cost + k) = cost - k
            OBVIOUS
        <3> QED
            BY <2>2, <3>1, <3>2, <3>3
    <2>4. price * (qty - n) = price * qty - price * n
        OBVIOUS
    <2> QED
        BY <1>2, <1>4, <2>3, <2>4 DEF Unreal, NoMark
<1> QED
    BY <1>3, <1>4 DEF Signed

(* What a fill books and what it leaves open make up what was open.        *)
LEMMA MoveConserves ==
    ASSUME NEW pos, pos.qty \in Int, pos.cost \in Int, SignedCost(pos),
           NEW n \in Lots, NEW price \in Nat \ {0}, NEW fee \in Fees,
           NEW side \in Sides, ~Reverses(pos, side)
    PROVE  Unreal(SentinelMoved(pos, side, n, price), price)
              + Booked(pos, side, n, price, fee)
              = Unreal(pos, price) - (IF Closes(pos, side) THEN fee ELSE 0)
<1>1. n \in Nat \ {0} /\ fee \in Nat
    BY LedgerAssumption DEF LedgerAssumption
<1>2. CASE Closes(pos, side)
    <2>1. pos.qty # 0
        BY <1>2 DEF Closes
    <2> QED
        BY <1>1, <1>2, <2>1, CloseConserves DEF SentinelMoved, Booked
<1>3. CASE ~Closes(pos, side)
    <2>1. Signed(side, 1) \in Int
        BY DEF Signed
    <2>2. pos.qty * Signed(side, 1) >= 0
        BY <1>3, <2>1 DEF Reverses
    <2>3. Unreal(Averaged(pos, Signed(side, n), price), price) = Unreal(pos, price)
        BY <1>1, <2>2, OpenConserves
    <2>4. Unreal(pos, price) \in Int
        BY UnrealInt
    <2> QED
        BY <1>3, <2>3, <2>4 DEF SentinelMoved, Booked
<1> QED
    BY <1>2, <1>3

(* A stored position changes the unrealised profit by the difference to    *)
(* the one that it replaces.                                               *)
LEMMA StoreRevalues ==
    ASSUME NEW p, Sound(p), NEW m \in Marks, NEW sym \in Symbols,
           NEW pos, pos.qty \in Int, pos.cost \in Int
    PROVE  Unrealised(Store(p, sym, pos), m)
              = Unrealised(p, m) + Unreal(pos, m[sym]) - Unreal(Held(p, sym), m[sym])
<1> DEFINE q == Store(p, sym, pos)
           f == [s \in DOMAIN p |-> Unreal(p[s], m[s])]
           g == [s \in DOMAIN q |-> Unreal(q[s], m[s])]
<1>1. /\ DOMAIN q = DOMAIN p \cup {sym}
      /\ \A s \in DOMAIN q : q[s] = IF s = sym THEN pos ELSE p[s]
    BY DEF Store
<1>2. m[sym] \in Int /\ Unreal(pos, m[sym]) \in Int
    BY MarksInt, UnrealInt
<1> HIDE DEF q
<1>3. /\ DOMAIN g = DOMAIN f \cup {sym} /\ g[sym] = Unreal(pos, m[sym])
      /\ \A s \in DOMAIN f \ {sym} : g[s] = f[s]
    BY <1>1
<1>4. IsFiniteSet(DOMAIN f) /\ \A s \in DOMAIN f : f[s] \in Int
    BY MarksInt, UnrealInt DEF Sound
<1>5. Unreal(Held(p, sym), m[sym]) = IF sym \in DOMAIN f THEN f[sym] ELSE 0
    BY <1>2 DEF Held, Flat, Unreal
<1>6. Unrealised(p, m) = SumFunction(f) /\ Unrealised(q, m) = SumFunction(g)
    BY DEF Unrealised
<1> HIDE DEF f, g
<1>7. SumFunction(g) = SumFunction(f) + g[sym] - (IF sym \in DOMAIN f THEN f[sym] ELSE 0)
    BY <1>2, <1>3, <1>4, SumReplace
<1> QED
    BY <1>3, <1>5, <1>6, <1>7 DEF q

(* In every reachable state a fill at the mark of its symbol would change  *)
(* what the Sentinel takes the account to be worth by the fee of a close   *)
(* and nothing else, whatever else is held: profit moves from unrealised   *)
(* to realised and is not made. OPENs against the position are excepted.   *)
THEOREM ProfitConserved == Spec => []FillsConserve
<1>1. ASSUME IInv PROVE FillsConserve
    <2> SUFFICES ASSUME NEW sym \in Marked, NEW side \in Sides, NEW n \in Lots,
                        NEW fee \in Fees, ~Reverses(Held(sentinel.positions, sym), side)
                 PROVE  WorthAfter(sym, side, n, fee) = Worth(sentinel) -
                           (IF Closes(Held(sentinel.positions, sym), side) THEN fee ELSE 0)
        BY DEF FillsConserve
    <2> DEFINE p == sentinel.positions
               m == sentinel.marks
               pos == Held(p, sym)
               moved == SentinelMoved(pos, side, n, m[sym])
               gain == Booked(pos, side, n, m[sym], fee)
    <2>1. /\ sym \in Symbols /\ m[sym] \in Prices /\ m[sym] \in Nat \ {0}
          /\ m \in Marks /\ Sound(p) /\ [m EXCEPT ![sym] = m[sym]] = m
        BY <1>1, LedgerAssumption DEF LedgerAssumption, IInv, Typed, Marks, Marked
    <2>2. pos.qty \in Int /\ pos.cost \in Int /\ SignedCost(pos)
        BY <2>1, HeldSound
    <2> HIDE DEF p, pos
    <2>3. moved.qty \in Int /\ moved.cost \in Int /\ gain \in Int
        BY <2>1, <2>2, PositionType
    <2>4. ~Reverses(pos, side)
        BY DEF pos, p
    <2>5. Unreal(moved, m[sym]) + gain
             = Unreal(pos, m[sym]) - (IF Closes(pos, side) THEN fee ELSE 0)
        BY <2>1, <2>2, <2>4, MoveConserves
    <2>6. WorthAfter(sym, side, n, fee)
             = sentinel.start + (sentinel.realised + gain) + Unrealised(Store(p, sym, moved), m)
        BY <2>1, RevaluedFields DEF WorthAfter, Worth, SentinelFilled, p, pos
    <2>7. Worth(sentinel) = sentinel.start + sentinel.realised + Unrealised(p, m)
        BY DEF Worth, p
    <2> HIDE DEF moved, gain
    <2>8. Unrealised(Store(p, sym, moved), m)
             = Unrealised(p, m) + Unreal(moved, m[sym]) - Unreal(pos, m[sym])
        BY <2>1, <2>3, StoreRevalues DEF pos
    <2>9. /\ Unrealised(p, m) \in Int /\ m[sym] \in Int /\ fee \in Int
          /\ sentinel.start \in Int /\ sentinel.realised \in Int
        BY <1>1, <2>1, UnrealisedType, LedgerAssumption DEF LedgerAssumption, IInv, Typed
    <2>10. Unreal(moved, m[sym]) \in Int /\ Unreal(pos, m[sym]) \in Int
        BY <2>2, <2>3, <2>9, UnrealInt
    <2>11. WorthAfter(sym, side, n, fee)
              = Worth(sentinel) - (IF Closes(pos, side) THEN fee ELSE 0)
        BY <2>3, <2>5, <2>6, <2>7, <2>8, <2>9, <2>10
    <2> QED
        BY <2>11 DEF pos, p
<1> QED
    BY Invariance, <1>1, PTL
=============================================================================
