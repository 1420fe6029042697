----------------------------- MODULE DataLemmas -----------------------------
(***************************************************************************)
(* Facts about the data the models are built from, for the proofs about    *)
(* them: storage maps, products and divisions, least elements, and sums    *)
(* over finite sets.                                                       *)
(*                                                                         *)
(* Least elements stand in for induction: what fails for some finite set   *)
(* fails for a least one, and the sums of the Functions module are         *)
(* recursive functions.                                                    *)
(***************************************************************************)
EXTENDS Maps, Integers, FiniteSetTheorems, WellFoundedInduction, TLAPS

(***************************************************************************)
(* Maps.                                                                   *)
(***************************************************************************)
\* Put gives a map over the keys of both, the new rows winning.
LEMMA PutMap ==
  ASSUME NEW map, NEW new, NEW keys,
         IsMap(map, keys), DOMAIN new \subseteq keys
  PROVE  /\ IsMap(Put(map, new), keys)
         /\ DOMAIN Put(map, new) = DOMAIN new \cup DOMAIN map
         /\ \A k \in DOMAIN Put(map, new) :
              Put(map, new)[k] = IF k \in DOMAIN new THEN new[k] ELSE map[k]
  BY DEF Put, IsMap

\* Rows of a type put over rows of that type.
LEMMA PutRows ==
  ASSUME NEW map, NEW new, NEW keys, NEW Row,
         IsMap(map, keys), \A k \in DOMAIN map : map[k] \in Row,
         DOMAIN new \subseteq keys, \A k \in DOMAIN new : new[k] \in Row
  PROVE  /\ IsMap(Put(map, new), keys)
         /\ \A k \in DOMAIN Put(map, new) : Put(map, new)[k] \in Row
  BY DEF Put, IsMap

\* Remove gives the map without those keys.
LEMMA RemoveMap ==
  ASSUME NEW map, NEW gone, NEW keys, IsMap(map, keys)
  PROVE  /\ IsMap(Remove(map, gone), keys)
         /\ DOMAIN Remove(map, gone) = DOMAIN map \ gone
         /\ \A k \in DOMAIN map \ gone : Remove(map, gone)[k] = map[k]
  BY DEF Remove, Restrict, IsMap

\* Rows of a type with some of them removed.
LEMMA RemoveRows ==
  ASSUME NEW map, NEW gone, NEW keys, NEW Row,
         IsMap(map, keys), \A k \in DOMAIN map : map[k] \in Row
  PROVE  /\ IsMap(Remove(map, gone), keys)
         /\ \A k \in DOMAIN Remove(map, gone) : Remove(map, gone)[k] \in Row
  BY DEF Remove, Restrict, IsMap

(***************************************************************************)
(* Least elements.                                                        *)
(***************************************************************************)
\* A set of naturals that is not empty has a least element.
LEMMA LeastNatural ==
  ASSUME NEW S \in SUBSET Nat, S # {}
  PROVE  \E n \in S : \A m \in S : n <= m
<1> DEFINE R == {ss \in Nat \X Nat : ss[1] < ss[2]}
<1>1. IsWellFoundedOn(R, Nat)
  BY NatLessThanWellFounded DEF OpToRel
<1>2. \E n \in S : \A m \in S : ~ (<<m, n>> \in R)
  <2> HIDE DEF R
  <2> QED BY <1>1, WFMin, Zenon
<1>3. PICK n \in S : \A m \in S : ~ (<<m, n>> \in R)
  BY <1>2
<1>4. ASSUME NEW m \in S PROVE n <= m
  <2>1. <<m, n>> \in Nat \X Nat /\ ~ (<<m, n>> \in R)
    BY <1>3
  <2>2. ~ (m < n)
    BY <2>1
  <2> QED
    BY <2>2
<1> QED
  BY <1>4

\* Of some finite sets there is one that holds no other of them.
LEMMA LeastSubset ==
  ASSUME NEW S, S # {}, \A s \in S : IsFiniteSet(s)
  PROVE  \E s \in S : \A t \in S : t \subseteq s => t = s
<1> DEFINE U == UNION S
<1>1. IsWellFoundedOn(StrictSubsetOrdering(U), FiniteSubsetsOf(U))
  BY FS_StrictSubsetOrderingWellFounded
<1>2. S \subseteq FiniteSubsetsOf(U)
  BY DEF FiniteSubsetsOf
<1>3. \E s \in S : \A t \in S : ~ (<<t, s>> \in StrictSubsetOrdering(U))
  BY <1>1, <1>2, WFMin, Zenon
<1> QED
  BY <1>3 DEF StrictSubsetOrdering

\* A finite set of integers that is not empty has a greatest element.
LEMMA GreatestInteger ==
  ASSUME NEW S \in SUBSET Int, S # {}, IsFiniteSet(S)
  PROVE  \E n \in S : \A m \in S : m <= n
<1> DEFINE Top(t) == \E n \in t : \A m \in t : m <= n
           Bad == {t \in SUBSET S : t # {} /\ ~ Top(t)}
<1> SUFFICES ASSUME Bad # {} PROVE FALSE
  OBVIOUS
<1>1. \A t \in Bad : IsFiniteSet(t)
  BY FS_Subset
<1>2. PICK t \in Bad : \A u \in Bad : u \subseteq t => u = t
  <2> HIDE DEF Bad
  <2> QED BY <1>1, LeastSubset
<1>3. PICK x \in t : TRUE
  OBVIOUS
<1>4. t \ {x} = {} \/ Top(t \ {x})
  <2>1. t \ {x} \in SUBSET S /\ t \ {x} # t
    OBVIOUS
  <2>2. t \ {x} \notin Bad
    BY <1>2, <2>1
  <2> QED
    BY <2>1, <2>2
<1>5. CASE t \ {x} = {}
  <2>1. t = {x}
    BY <1>5
  <2> QED
    BY <2>1
<1>6. ASSUME NEW y \in t \ {x}, \A m \in t \ {x} : m <= y PROVE FALSE
  <2>1. CASE x <= y
    BY <1>6, <2>1
  <2>2. CASE ~ (x <= y)
    <3>1. \A m \in t : m <= x
      BY <1>6, <2>2
    <3> QED
      BY <3>1
  <2> QED
    BY <2>1, <2>2
<1> QED
  BY <1>4, <1>5, <1>6

\* And a least one.
LEMMA LeastInteger ==
  ASSUME NEW S \in SUBSET Int, S # {}, IsFiniteSet(S)
  PROVE  \E n \in S : \A m \in S : m >= n
<1> DEFINE Low(t) == \E n \in t : \A m \in t : m >= n
           Bad == {t \in SUBSET S : t # {} /\ ~ Low(t)}
<1> SUFFICES ASSUME Bad # {} PROVE FALSE
  OBVIOUS
<1>1. \A t \in Bad : IsFiniteSet(t)
  BY FS_Subset
<1>2. PICK t \in Bad : \A u \in Bad : u \subseteq t => u = t
  <2> HIDE DEF Bad
  <2> QED BY <1>1, LeastSubset
<1>3. PICK x \in t : TRUE
  OBVIOUS
<1>4. t \ {x} = {} \/ Low(t \ {x})
  <2>1. t \ {x} \in SUBSET S /\ t \ {x} # t
    OBVIOUS
  <2>2. t \ {x} \notin Bad
    BY <1>2, <2>1
  <2> QED
    BY <2>1, <2>2
<1>5. CASE t \ {x} = {}
  <2>1. t = {x}
    BY <1>5
  <2> QED
    BY <2>1
<1>6. ASSUME NEW y \in t \ {x}, \A m \in t \ {x} : m >= y PROVE FALSE
  <2>1. CASE x >= y
    BY <1>6, <2>1
  <2>2. CASE ~ (x >= y)
    <3>1. \A m \in t : m >= x
      BY <1>6, <2>2
    <3> QED
      BY <3>1
  <2> QED
    BY <2>1, <2>2
<1> QED
  BY <1>4, <1>5, <1>6

\* What a function makes of a finite set is finite.
LEMMA ImageIsFinite ==
  ASSUME NEW f, IsFiniteSet(DOMAIN f), f = [x \in DOMAIN f |-> f[x]]
  PROVE  IsFiniteSet({f[x] : x \in DOMAIN f})
<1> DEFINE T == {f[x] : x \in DOMAIN f}
<1>1. f \in Surjection(DOMAIN f, T)
  BY DEF Surjection
<1> QED
  BY <1>1, FS_Surjection

(***************************************************************************)
(* Division.                                                              *)
(***************************************************************************)
\* Products of amounts keep the order.
LEMMA TimesMono == \A a, b, c \in Nat : a <= b => a * c <= b * c
  OBVIOUS

\* Quotients keep the order too.
LEMMA DivMono == \A a, b \in Nat, n \in Nat \ {0} : a <= b => a \div n <= b \div n
  OBVIOUS

\* A quotient is below every bound of the dividend, divided.
LEMMA DivBelow == \A a, y \in Nat, n \in Nat \ {0} : a <= y * n => a \div n <= y
  OBVIOUS

\* A dividend is less than its quotient and one, times the divisor.
LEMMA DivRest == \A a \in Nat, n \in Nat \ {0} : a < (a \div n + 1) * n
  OBVIOUS

(***************************************************************************)
(* Sums.                                                                  *)
(***************************************************************************)
\* One step of the fold behind SumFunctionOnSet: the element that CHOOSE takes
\* and what g says of the rest.
SumStep(f, g, s) ==
  IF s = {} THEN 0
  ELSE LET x == CHOOSE x \in s : TRUE IN f[x] + g[s \ {x}]

IsSum(f, g, S) == g = [s \in SUBSET S |-> SumStep(f, g, s)]

\* The fold is the one the library's definition describes.
LEMMA SumIsChosen ==
  ASSUME NEW f, NEW S
  PROVE  SumFunctionOnSet(f, S) = (CHOOSE g : IsSum(f, g, S))[S]
  BY Zenon DEF SumFunctionOnSet, FoldFunctionOnSet, MapThenFoldSet, IsSum, SumStep

\* Two folds agree where both are defined.
LEMMA SumUnique ==
  ASSUME NEW f, NEW g, NEW h, NEW S, NEW T, IsFiniteSet(S), IsSum(f, g, S), IsSum(f, h, T),
         NEW s \in SUBSET (S \cap T)
  PROVE  g[s] = h[s]
<1> DEFINE Bad == {t \in SUBSET (S \cap T) : g[t] # h[t]}
<1> SUFFICES ASSUME Bad # {} PROVE FALSE
  OBVIOUS
<1>1. \A t \in Bad : IsFiniteSet(t)
  BY FS_Subset
<1>2. PICK t \in Bad : \A u \in Bad : u \subseteq t => u = t
  <2> HIDE DEF Bad
  <2> QED BY <1>1, LeastSubset
<1>3. g[t] = SumStep(f, g, t) /\ h[t] = SumStep(f, h, t)
  BY DEF IsSum
<1>4. t # {}
  BY <1>3 DEF SumStep
<1> DEFINE x == CHOOSE x \in t : TRUE
<1>5. x \in t
  BY <1>4
<1>6. t \ {x} \notin Bad
  BY <1>2, <1>5
<1>7. g[t \ {x}] = h[t \ {x}]
  BY <1>6
<1> QED
  BY <1>3, <1>4, <1>7 DEF SumStep

\* There is a fold over every finite set.
LEMMA SumExists ==
  ASSUME NEW f, NEW S, IsFiniteSet(S)
  PROVE  \E g : IsSum(f, g, S)
<1> DEFINE Bad == {t \in SUBSET S : ~ \E g : IsSum(f, g, t)}
<1> SUFFICES ASSUME Bad # {} PROVE FALSE
  OBVIOUS
<1>1. \A t \in Bad : IsFiniteSet(t)
  BY FS_Subset
<1>2. PICK t \in Bad : \A u \in Bad : u \subseteq t => u = t
  <2> HIDE DEF Bad
  <2> QED BY <1>1, LeastSubset
<1> DEFINE H(s) == CHOOSE g : IsSum(f, g, s)
           x(s) == CHOOSE x \in s : TRUE
           G == [s \in SUBSET t |-> IF s = {} THEN 0
                                    ELSE f[x(s)] + H(s \ {x(s)})[s \ {x(s)}]]
<1>3. ASSUME NEW s \in SUBSET t, s # t PROVE IsSum(f, H(s), s) /\ IsFiniteSet(s)
  <2>1. s \notin Bad /\ s \in SUBSET S
    BY <1>2, <1>3
  <2>2. \E g : IsSum(f, g, s)
    BY <2>1
  <2> QED
    BY <2>1, <2>2, FS_Subset, Zenon
<1>4. ASSUME NEW s \in SUBSET t, s # t PROVE G[s] = H(s)[s]
  <2>1. H(s)[s] = SumStep(f, H(s), s)
    <3>1. IsSum(f, H(s), s)
      BY <1>3, <1>4
    <3> HIDE DEF H
    <3> QED BY <3>1 DEF IsSum
  <2>2. CASE s = {}
    BY <2>1, <2>2 DEF SumStep
  <2>3. CASE s # {}
    <3>1. x(s) \in s
      BY <2>3
    <3>2. s \ {x(s)} \in SUBSET t /\ s \ {x(s)} # t /\ s \ {x(s)} \in SUBSET (s \cap (s \ {x(s)}))
      BY <1>4, <3>1
    <3>3. H(s)[s \ {x(s)}] = H(s \ {x(s)})[s \ {x(s)}]
      <4>1. IsSum(f, H(s), s) /\ IsFiniteSet(s) /\ IsSum(f, H(s \ {x(s)}), s \ {x(s)})
        BY <1>3, <1>4, <3>2
      <4> HIDE DEF H, x
      <4> QED BY <4>1, <3>2, SumUnique
    <3>4. SumStep(f, H(s), s) = f[x(s)] + H(s)[s \ {x(s)}]
      BY <2>3, Zenon DEF SumStep
    <3>5. G[s] = f[x(s)] + H(s \ {x(s)})[s \ {x(s)}]
      BY <2>3
    <3> QED
      BY <2>1, <3>3, <3>4, <3>5
  <2> QED
    BY <2>2, <2>3
<1>5. ASSUME NEW s \in SUBSET t PROVE G[s] = SumStep(f, G, s)
  <2>1. CASE s = {}
    BY <2>1 DEF SumStep
  <2>2. CASE s # {}
    <3>1. x(s) \in s
      BY <2>2
    <3>2. s \ {x(s)} \in SUBSET t /\ s \ {x(s)} # t
      BY <3>1
    <3>3. G[s \ {x(s)}] = H(s \ {x(s)})[s \ {x(s)}]
      BY <3>2, <1>4
    <3>4. SumStep(f, G, s) = f[x(s)] + G[s \ {x(s)}]
      <4> HIDE DEF G
      <4> QED BY <2>2, Zenon DEF SumStep
    <3>5. G[s] = f[x(s)] + H(s \ {x(s)})[s \ {x(s)}]
      BY <2>2
    <3> QED
      BY <3>3, <3>4, <3>5
  <2> QED
    BY <2>1, <2>2
<1>6. IsSum(f, G, t)
  <2>1. G = [s \in SUBSET t |-> G[s]]
    OBVIOUS
  <2> HIDE DEF G
  <2> QED
    BY <1>5, <2>1 DEF IsSum
<1> QED
  BY <1>6


\* A sum over no element is 0, and any other one is the chosen element's value
\* with the sum over the rest.
LEMMA SumChoose ==
  ASSUME NEW f, NEW S, IsFiniteSet(S)
  PROVE  /\ S = {} => SumFunctionOnSet(f, S) = 0
         /\ S # {} => \E x \in S :
              SumFunctionOnSet(f, S) = f[x] + SumFunctionOnSet(f, S \ {x})
<1> DEFINE G(s) == CHOOSE g : IsSum(f, g, s)
<1>1. \A s \in SUBSET S : IsFiniteSet(s) /\ IsSum(f, G(s), s)
  <2> SUFFICES ASSUME NEW s \in SUBSET S PROVE IsFiniteSet(s) /\ IsSum(f, G(s), s)
    OBVIOUS
  <2>1. IsFiniteSet(s)
    BY FS_Subset
  <2>2. \E g : IsSum(f, g, s)
    BY <2>1, SumExists
  <2> QED
    BY <2>1, <2>2, Zenon
<1>2. \A s : SumFunctionOnSet(f, s) = G(s)[s]
  BY SumIsChosen, Zenon
<1>3. G(S)[S] = SumStep(f, G(S), S)
  <2>1. IsSum(f, G(S), S)
    BY <1>1
  <2> HIDE DEF G
  <2> QED BY <2>1 DEF IsSum
<1>4. ASSUME S = {} PROVE SumFunctionOnSet(f, S) = 0
  <2>1. SumStep(f, G(S), S) = 0
    <3> HIDE DEF G
    <3> QED BY <1>4 DEF SumStep
  <2> QED
    BY <1>2, <1>3, <2>1
<1>5. ASSUME S # {}
      PROVE  \E x \in S : SumFunctionOnSet(f, S) = f[x] + SumFunctionOnSet(f, S \ {x})
  <2> DEFINE x == CHOOSE x \in S : TRUE
  <2>1. x \in S
    BY <1>5
  <2>2. SumStep(f, G(S), S) = f[x] + G(S)[S \ {x}]
    <3> HIDE DEF G
    <3> QED BY <1>5, Zenon DEF SumStep
  <2>3. G(S)[S \ {x}] = G(S \ {x})[S \ {x}]
    <3>1. /\ IsSum(f, G(S), S) /\ IsSum(f, G(S \ {x}), S \ {x})
          /\ S \ {x} \in SUBSET (S \cap (S \ {x}))
      BY <1>1, <2>1
    <3> HIDE DEF G, x
    <3> QED BY <3>1, SumUnique
  <2>4. SumFunctionOnSet(f, S) = f[x] + SumFunctionOnSet(f, S \ {x})
    BY <1>2, <1>3, <2>2, <2>3
  <2> HIDE DEF x
  <2> QED
    BY <2>1, <2>4
<1> QED
  BY <1>4, <1>5

\* A sum of naturals is one.
LEMMA SumType ==
  ASSUME NEW f, NEW S, IsFiniteSet(S), \A x \in S : f[x] \in Nat
  PROVE  SumFunctionOnSet(f, S) \in Nat
<1> DEFINE Bad == {t \in SUBSET S : SumFunctionOnSet(f, t) \notin Nat}
<1> SUFFICES ASSUME Bad # {} PROVE FALSE
  OBVIOUS
<1>1. \A t \in Bad : IsFiniteSet(t)
  BY FS_Subset
<1>2. PICK t \in Bad : \A u \in Bad : u \subseteq t => u = t
  <2> HIDE DEF Bad
  <2> QED BY <1>1, LeastSubset
<1>3. t # {}
  BY <1>1, SumChoose
<1>4. PICK x \in t : SumFunctionOnSet(f, t) = f[x] + SumFunctionOnSet(f, t \ {x})
  BY <1>1, <1>3, SumChoose
<1>5. t \ {x} \notin Bad
  BY <1>2
<1> QED
  BY <1>4, <1>5

\* Any element can be the one taken out of a sum.
LEMMA SumRemove ==
  ASSUME NEW f, NEW S, IsFiniteSet(S), \A x \in S : f[x] \in Nat, NEW y \in S
  PROVE  SumFunctionOnSet(f, S) = f[y] + SumFunctionOnSet(f, S \ {y})
<1> DEFINE Any(t) == \A z \in t :
             SumFunctionOnSet(f, t) = f[z] + SumFunctionOnSet(f, t \ {z})
           Bad == {t \in SUBSET S : ~ Any(t)}
<1> SUFFICES ASSUME Bad # {} PROVE FALSE
  OBVIOUS
<1>1. \A t \in Bad : IsFiniteSet(t)
  BY FS_Subset
<1>2. PICK t \in Bad : \A u \in Bad : u \subseteq t => u = t
  <2> HIDE DEF Bad
  <2> QED BY <1>1, LeastSubset
<1>3. PICK z \in t : SumFunctionOnSet(f, t) # f[z] + SumFunctionOnSet(f, t \ {z})
  OBVIOUS
<1>4. PICK x \in t : SumFunctionOnSet(f, t) = f[x] + SumFunctionOnSet(f, t \ {x})
  BY <1>1, SumChoose
<1>5. x # z
  BY <1>3, <1>4
<1>6. SumFunctionOnSet(f, t \ {x}) = f[z] + SumFunctionOnSet(f, (t \ {x}) \ {z})
  <2>1. Any(t \ {x}) /\ z \in t \ {x}
    BY <1>2, <1>5
  <2> QED
    BY <2>1
<1>7. SumFunctionOnSet(f, t \ {z}) = f[x] + SumFunctionOnSet(f, (t \ {z}) \ {x})
  <2>1. Any(t \ {z}) /\ x \in t \ {z}
    BY <1>2, <1>5
  <2> QED
    BY <2>1
<1>8. (t \ {x}) \ {z} = (t \ {z}) \ {x}
  OBVIOUS
<1>9. SumFunctionOnSet(f, (t \ {z}) \ {x}) \in Nat /\ f[x] \in Nat /\ f[z] \in Nat
  <2>1. IsFiniteSet((t \ {z}) \ {x}) /\ \A w \in (t \ {z}) \ {x} : f[w] \in Nat
    BY FS_Subset
  <2> QED
    BY <2>1, SumType
<1> QED
  BY <1>3, <1>4, <1>6, <1>7, <1>8, <1>9

\* A sum takes one new element.
LEMMA SumAdd ==
  ASSUME NEW f, NEW S, IsFiniteSet(S), NEW y, y \notin S,
         \A x \in S \cup {y} : f[x] \in Nat
  PROVE  SumFunctionOnSet(f, S \cup {y}) = f[y] + SumFunctionOnSet(f, S)
<1>1. IsFiniteSet(S \cup {y}) /\ (S \cup {y}) \ {y} = S
  BY FS_AddElement
<1>2. SumFunctionOnSet(f, S \cup {y}) = f[y] + SumFunctionOnSet(f, (S \cup {y}) \ {y})
  BY <1>1, SumRemove
<1> QED
  BY <1>1, <1>2

\* A sum reads the function on its set only.
LEMMA SumAgree ==
  ASSUME NEW f, NEW g, NEW S, IsFiniteSet(S), \A x \in S : f[x] = g[x] /\ f[x] \in Nat
  PROVE  SumFunctionOnSet(f, S) = SumFunctionOnSet(g, S)
<1> DEFINE Bad == {t \in SUBSET S : SumFunctionOnSet(f, t) # SumFunctionOnSet(g, t)}
<1> SUFFICES ASSUME Bad # {} PROVE FALSE
  OBVIOUS
<1>1. \A t \in Bad : IsFiniteSet(t)
  BY FS_Subset
<1>2. PICK t \in Bad : \A u \in Bad : u \subseteq t => u = t
  <2> HIDE DEF Bad
  <2> QED BY <1>1, LeastSubset
<1>3. t # {}
  BY <1>1, SumChoose
<1>4. PICK x \in t : SumFunctionOnSet(f, t) = f[x] + SumFunctionOnSet(f, t \ {x})
  BY <1>1, <1>3, SumChoose
<1>5. SumFunctionOnSet(g, t) = g[x] + SumFunctionOnSet(g, t \ {x})
  <2>1. IsFiniteSet(t) /\ \A w \in t : g[w] \in Nat
    BY <1>1
  <2> QED
    BY <2>1, SumRemove
<1>6. t \ {x} \notin Bad
  BY <1>2
<1> QED
  BY <1>4, <1>5, <1>6

\* The sum over two sets that share nothing.
LEMMA SumUnion ==
  ASSUME NEW f, NEW S, NEW T, IsFiniteSet(S), IsFiniteSet(T), S \cap T = {},
         \A x \in S \cup T : f[x] \in Nat
  PROVE  SumFunctionOnSet(f, S \cup T) = SumFunctionOnSet(f, S) + SumFunctionOnSet(f, T)
<1> DEFINE Bad == {t \in SUBSET T : SumFunctionOnSet(f, S \cup t) #
                                      SumFunctionOnSet(f, S) + SumFunctionOnSet(f, t)}
<1> SUFFICES ASSUME Bad # {} PROVE FALSE
  OBVIOUS
<1>1. \A t \in Bad : IsFiniteSet(t)
  BY FS_Subset
<1>2. PICK t \in Bad : \A u \in Bad : u \subseteq t => u = t
  <2> HIDE DEF Bad
  <2> QED BY <1>1, LeastSubset
<1>3. SumFunctionOnSet(f, S) \in Nat
  BY SumType
<1>4. t # {}
  <2> SUFFICES ASSUME t = {} PROVE FALSE
    OBVIOUS
  <2>1. S \cup t = S /\ SumFunctionOnSet(f, t) = 0
    BY <1>1, SumChoose
  <2> QED
    BY <1>3, <2>1
<1>5. PICK x \in t : TRUE
  BY <1>4
<1>6. SumFunctionOnSet(f, t) = f[x] + SumFunctionOnSet(f, t \ {x})
  BY <1>1, SumRemove
<1>7. SumFunctionOnSet(f, S \cup t) = f[x] + SumFunctionOnSet(f, S \cup (t \ {x}))
  <2>1. (S \cup t) \ {x} = S \cup (t \ {x}) /\ IsFiniteSet(S \cup t)
    BY <1>1, FS_Union
  <2>2. SumFunctionOnSet(f, S \cup t) = f[x] + SumFunctionOnSet(f, (S \cup t) \ {x})
    BY <2>1, SumRemove
  <2> QED
    BY <2>1, <2>2
<1>8. t \ {x} \notin Bad
  BY <1>2
<1>9. SumFunctionOnSet(f, t \ {x}) \in Nat /\ f[x] \in Nat
  <2>1. IsFiniteSet(t \ {x}) /\ \A w \in t \ {x} : f[w] \in Nat
    BY FS_Subset
  <2> QED
    BY <2>1, SumType
<1> QED
  BY <1>3, <1>6, <1>7, <1>8, <1>9

\* A part sums to no more than the whole.
LEMMA SumSubset ==
  ASSUME NEW f, NEW S, IsFiniteSet(S), \A x \in S : f[x] \in Nat, NEW T \in SUBSET S
  PROVE  SumFunctionOnSet(f, T) <= SumFunctionOnSet(f, S)
<1>1. IsFiniteSet(T) /\ IsFiniteSet(S \ T) /\ T \cup (S \ T) = S
  BY FS_Subset
<1>2. SumFunctionOnSet(f, T \cup (S \ T)) =
        SumFunctionOnSet(f, T) + SumFunctionOnSet(f, S \ T)
  <2>1. T \cap (S \ T) = {} /\ \A x \in T \cup (S \ T) : f[x] \in Nat
    OBVIOUS
  <2> QED
    BY <1>1, <2>1, SumUnion
<1>3. SumFunctionOnSet(f, T) \in Nat /\ SumFunctionOnSet(f, S \ T) \in Nat
  BY <1>1, SumType
<1>4. SumFunctionOnSet(f, T \cup (S \ T)) = SumFunctionOnSet(f, S)
  BY <1>1, Zenon
<1> QED
  BY <1>2, <1>3, <1>4

\* A map with finitely many keys and naturals for rows has a natural sum.
LEMMA SumOfMap ==
  ASSUME NEW f, IsFiniteSet(DOMAIN f), \A x \in DOMAIN f : f[x] \in Nat
  PROVE  SumFunction(f) = SumFunctionOnSet(f, DOMAIN f) /\ SumFunction(f) \in Nat
  BY SumType DEF SumFunction

\* The sum over one element.
LEMMA SumSingle ==
  ASSUME NEW f, NEW x, f[x] \in Nat
  PROVE  SumFunctionOnSet(f, {x}) = f[x]
<1>1. IsFiniteSet({x}) /\ {x} \ {x} = {} /\ IsFiniteSet({})
  BY FS_Singleton, FS_EmptySet
<1>2. SumFunctionOnSet(f, {x}) = f[x] + SumFunctionOnSet(f, {x} \ {x})
  BY <1>1, SumRemove
<1>3. SumFunctionOnSet(f, {}) = 0
  BY <1>1, SumChoose
<1> QED
  BY <1>1, <1>2, <1>3

\* A sum of equal values is their number times the value.
LEMMA SumEqual ==
  ASSUME NEW f, NEW S, IsFiniteSet(S), NEW n \in Nat, \A x \in S : f[x] = n
  PROVE  SumFunctionOnSet(f, S) = n * Cardinality(S)
<1> DEFINE Bad == {t \in SUBSET S : SumFunctionOnSet(f, t) # n * Cardinality(t)}
<1> SUFFICES ASSUME Bad # {} PROVE FALSE
  OBVIOUS
<1>1. \A t \in Bad : IsFiniteSet(t)
  BY FS_Subset
<1>2. PICK t \in Bad : \A u \in Bad : u \subseteq t => u = t
  <2> HIDE DEF Bad
  <2> QED
    BY <1>1, LeastSubset
<1>3. t # {}
  BY <1>1, SumChoose, FS_EmptySet
<1>4. PICK x \in t : TRUE
  BY <1>3
<1>5. SumFunctionOnSet(f, t) = n + SumFunctionOnSet(f, t \ {x})
  BY <1>1, SumRemove
<1>6. SumFunctionOnSet(f, t \ {x}) = n * Cardinality(t \ {x})
  BY <1>2
<1>7. Cardinality(t \ {x}) = Cardinality(t) - 1 /\ Cardinality(t) \in Nat
  BY <1>1, FS_RemoveElement, FS_CardinalityType
<1>8. \A k \in Nat : n + n * (k - 1) = n * k
  OBVIOUS
<1> QED
  BY <1>5, <1>6, <1>7, <1>8

\* Where the values are 0 a sum need not look.
LEMMA SumNonzero ==
  ASSUME NEW f, NEW S, IsFiniteSet(S), \A x \in S : f[x] \in Nat,
         NEW T \in SUBSET S, \A x \in S \ T : f[x] = 0
  PROVE  SumFunctionOnSet(f, S) = SumFunctionOnSet(f, T)
<1>1. IsFiniteSet(T) /\ IsFiniteSet(S \ T) /\ T \cup (S \ T) = S /\ T \cap (S \ T) = {}
  BY FS_Subset
<1>2. SumFunctionOnSet(f, T \cup (S \ T)) =
        SumFunctionOnSet(f, T) + SumFunctionOnSet(f, S \ T)
  BY <1>1, SumUnion
<1>3. SumFunctionOnSet(f, S \ T) = 0 * Cardinality(S \ T)
  BY <1>1, SumEqual
<1>4. 0 * Cardinality(S \ T) = 0
  BY <1>1, FS_CardinalityType
<1>5. SumFunctionOnSet(f, T) \in Nat
  BY <1>1, SumType
<1>6. SumFunctionOnSet(f, T \cup (S \ T)) = SumFunctionOnSet(f, S)
  BY <1>1, Zenon
<1> QED
  BY <1>2, <1>3, <1>4, <1>5, <1>6

\* Values that change on a part change the sum by what they change that part's.
LEMMA SumMoves ==
  ASSUME NEW f, NEW g, NEW S, IsFiniteSet(S),
         \A x \in S : f[x] \in Nat /\ g[x] \in Nat,
         NEW T \in SUBSET S, \A x \in S \ T : f[x] = g[x]
  PROVE  /\ SumFunctionOnSet(f, T) \in 0 .. SumFunctionOnSet(f, S)
         /\ SumFunctionOnSet(g, T) \in 0 .. SumFunctionOnSet(g, S)
         /\ SumFunctionOnSet(f, S) \in Nat /\ SumFunctionOnSet(g, S) \in Nat
         /\ SumFunctionOnSet(g, S) =
              SumFunctionOnSet(f, S) - SumFunctionOnSet(f, T) + SumFunctionOnSet(g, T)
<1>1. IsFiniteSet(T) /\ IsFiniteSet(S \ T) /\ T \cup (S \ T) = S /\ T \cap (S \ T) = {}
  BY FS_Subset
<1>2. SumFunctionOnSet(f, T \cup (S \ T)) =
        SumFunctionOnSet(f, T) + SumFunctionOnSet(f, S \ T)
  BY <1>1, SumUnion
<1>3. SumFunctionOnSet(g, T \cup (S \ T)) =
        SumFunctionOnSet(g, T) + SumFunctionOnSet(g, S \ T)
  BY <1>1, SumUnion
<1>4. SumFunctionOnSet(f, S \ T) = SumFunctionOnSet(g, S \ T)
  BY <1>1, SumAgree
<1>5. /\ SumFunctionOnSet(f, T) \in Nat /\ SumFunctionOnSet(f, S \ T) \in Nat
      /\ SumFunctionOnSet(g, T) \in Nat /\ SumFunctionOnSet(g, S \ T) \in Nat
  BY <1>1, SumType
<1>6. /\ SumFunctionOnSet(f, T \cup (S \ T)) = SumFunctionOnSet(f, S)
      /\ SumFunctionOnSet(g, T \cup (S \ T)) = SumFunctionOnSet(g, S)
  BY <1>1, Zenon
<1> QED
  BY <1>2, <1>3, <1>4, <1>5, <1>6

\* The sum of pointwise sums.
LEMMA SumPlus ==
  ASSUME NEW f, NEW g, NEW h, NEW S, IsFiniteSet(S),
         \A x \in S : g[x] \in Nat /\ h[x] \in Nat /\ f[x] = g[x] + h[x]
  PROVE  SumFunctionOnSet(f, S) = SumFunctionOnSet(g, S) + SumFunctionOnSet(h, S)
<1> DEFINE Bad == {t \in SUBSET S : SumFunctionOnSet(f, t) #
                                     SumFunctionOnSet(g, t) + SumFunctionOnSet(h, t)}
<1> SUFFICES ASSUME Bad # {} PROVE FALSE
  OBVIOUS
<1>1. \A t \in Bad : IsFiniteSet(t)
  BY FS_Subset
<1>2. PICK t \in Bad : \A u \in Bad : u \subseteq t => u = t
  <2> HIDE DEF Bad
  <2> QED
    BY <1>1, LeastSubset
<1>3. t # {}
  BY <1>1, SumChoose
<1>4. PICK x \in t : TRUE
  BY <1>3
<1>5. \A y \in t : f[y] \in Nat
  OBVIOUS
<1>6. /\ SumFunctionOnSet(f, t) = f[x] + SumFunctionOnSet(f, t \ {x})
      /\ SumFunctionOnSet(g, t) = g[x] + SumFunctionOnSet(g, t \ {x})
      /\ SumFunctionOnSet(h, t) = h[x] + SumFunctionOnSet(h, t \ {x})
  BY <1>1, <1>5, SumRemove
<1>7. SumFunctionOnSet(f, t \ {x}) =
        SumFunctionOnSet(g, t \ {x}) + SumFunctionOnSet(h, t \ {x})
  BY <1>2
<1>8. /\ SumFunctionOnSet(g, t \ {x}) \in Nat /\ SumFunctionOnSet(h, t \ {x}) \in Nat
      /\ g[x] \in Nat /\ h[x] \in Nat /\ f[x] = g[x] + h[x]
  <2>1. IsFiniteSet(t \ {x})
    BY <1>1, FS_Subset
  <2> QED
    BY <2>1, SumType
<1>9. SumFunctionOnSet(f, t) = SumFunctionOnSet(g, t) + SumFunctionOnSet(h, t)
  BY <1>6, <1>7, <1>8
<1> QED
  BY <1>9

\* Smaller values have a smaller sum.
LEMMA SumMonotone ==
  ASSUME NEW f, NEW g, NEW S, IsFiniteSet(S),
         \A x \in S : f[x] \in Nat /\ g[x] \in Nat /\ g[x] <= f[x]
  PROVE  SumFunctionOnSet(g, S) <= SumFunctionOnSet(f, S)
<1> DEFINE h == [x \in S |-> f[x] - g[x]]
<1>1. \A x \in S : g[x] \in Nat /\ h[x] \in Nat /\ f[x] = g[x] + h[x]
  OBVIOUS
<1> HIDE DEF h
<1>2. SumFunctionOnSet(f, S) = SumFunctionOnSet(g, S) + SumFunctionOnSet(h, S)
  BY <1>1, SumPlus
<1>3. SumFunctionOnSet(g, S) \in Nat /\ SumFunctionOnSet(h, S) \in Nat
  BY <1>1, SumType
<1> QED
  BY <1>2, <1>3

\* The sum of a map is the sum over any larger set of keys on which the keys
\* that the map has not count 0.
LEMMA SumPadded ==
  ASSUME NEW f, NEW g, NEW S, IsFiniteSet(S), DOMAIN f \subseteq S,
         \A x \in DOMAIN f : f[x] \in Nat /\ g[x] = f[x],
         \A x \in S \ DOMAIN f : g[x] = 0
  PROVE  /\ SumFunction(f) = SumFunctionOnSet(g, S)
         /\ SumFunction(f) \in Nat
         /\ \A x \in S : g[x] \in Nat
<1>1. IsFiniteSet(DOMAIN f) /\ DOMAIN f \in SUBSET S
  BY FS_Subset
<1>2. \A x \in S : g[x] \in Nat
  OBVIOUS
<1>3. SumFunction(f) = SumFunctionOnSet(f, DOMAIN f) /\ SumFunction(f) \in Nat
  BY <1>1, SumOfMap
<1>4. SumFunctionOnSet(f, DOMAIN f) = SumFunctionOnSet(g, DOMAIN f)
  BY <1>1, SumAgree
<1>5. SumFunctionOnSet(g, S) = SumFunctionOnSet(g, DOMAIN f)
  BY <1>1, <1>2, SumNonzero
<1> QED
  BY <1>2, <1>3, <1>4, <1>5

\* Renamed one to one, the same values have the same sum.
LEMMA SumImage ==
  ASSUME NEW f, NEW g, NEW S, IsFiniteSet(S),
         NEW to, IsFiniteSet({to[x] : x \in S}),
         \A x, y \in S : to[x] = to[y] => x = y,
         \A x \in S : g[x] \in Nat /\ f[to[x]] = g[x]
  PROVE  SumFunctionOnSet(f, {to[x] : x \in S}) = SumFunctionOnSet(g, S)
<1> DEFINE Image(t) == {to[x] : x \in t}
           Bad == {t \in SUBSET S : SumFunctionOnSet(f, Image(t)) # SumFunctionOnSet(g, t)}
<1> SUFFICES ASSUME Bad # {} PROVE FALSE
  OBVIOUS
<1>1. \A t \in Bad : IsFiniteSet(t) /\ IsFiniteSet(Image(t))
  <2> SUFFICES ASSUME NEW t \in SUBSET S PROVE IsFiniteSet(t) /\ IsFiniteSet(Image(t))
    OBVIOUS
  <2>1. Image(t) \subseteq {to[x] : x \in S}
    OBVIOUS
  <2> QED
    BY <2>1, FS_Subset
<1>2. PICK t \in Bad : \A u \in Bad : u \subseteq t => u = t
  <2>1. \A u \in Bad : IsFiniteSet(u)
    BY <1>1
  <2> HIDE DEF Bad
  <2> QED
    BY <2>1, LeastSubset
<1>3. t # {}
  <2> SUFFICES ASSUME t = {} PROVE FALSE
    OBVIOUS
  <2>1. Image(t) = {}
    OBVIOUS
  <2>2. IsFiniteSet({})
    BY FS_EmptySet
  <2> QED
    BY <2>1, <2>2, SumChoose
<1>4. PICK x \in t : TRUE
  BY <1>3
<1>5. Image(t) \ {to[x]} = Image(t \ {x}) /\ to[x] \in Image(t)
  OBVIOUS
<1>6. /\ SumFunctionOnSet(f, Image(t)) = f[to[x]] + SumFunctionOnSet(f, Image(t) \ {to[x]})
      /\ SumFunctionOnSet(g, t) = g[x] + SumFunctionOnSet(g, t \ {x})
  <2>1. \A y \in Image(t) : f[y] \in Nat
    OBVIOUS
  <2>2. IsFiniteSet(t) /\ IsFiniteSet(Image(t)) /\ \A y \in t : g[y] \in Nat
    BY <1>1
  <2> HIDE DEF Bad, Image
  <2> QED
    BY <1>5, <2>1, <2>2, SumRemove
<1>7. SumFunctionOnSet(f, Image(t \ {x})) = SumFunctionOnSet(g, t \ {x})
  BY <1>2
<1>8. f[to[x]] = g[x]
  OBVIOUS
<1>9. SumFunctionOnSet(f, Image(t)) = SumFunctionOnSet(g, t)
  <2> HIDE DEF Bad, Image
  <2> QED
    BY <1>5, <1>6, <1>7, <1>8
<1> QED
  BY <1>9

=============================================================================
