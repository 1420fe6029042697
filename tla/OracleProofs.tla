---------------------------- MODULE OracleProofs ----------------------------
(***************************************************************************)
(* Proofs about Oracle for every value of its constants.                   *)
(***************************************************************************)
EXTENDS Oracle, DataLemmas, SequenceTheorems, TLAPS

Bundles == Seq(PriceObservation)

(***************************************************************************)
(* Bundles.                                                                *)
(***************************************************************************)
\* A bundle is indexed from 1, by as many indices as it is long, and holds
\* observations whose prices are naturals.
LEMMA BundleIndices ==
  ASSUME NEW bundle \in Bundles
  PROVE  /\ DOMAIN bundle = 1 .. Len(bundle) /\ Len(bundle) \in Nat
         /\ IsFiniteSet(DOMAIN bundle) /\ Cardinality(DOMAIN bundle) = Len(bundle)
         /\ \A i \in DOMAIN bundle :
              /\ bundle[i] \in PriceObservation
              /\ bundle[i].pubkey \in Keys
              /\ bundle[i].price \in Nat
<1>1. DOMAIN bundle = 1 .. Len(bundle) /\ Len(bundle) \in Nat
  BY DEF Bundles
<1>2. IsFiniteSet(1 .. Len(bundle)) /\ Cardinality(1 .. Len(bundle)) = Len(bundle)
  <2>1. ASSUME NEW n \in Nat PROVE IsFiniteSet(1 .. n) /\ Cardinality(1 .. n) = n
    <3>1. /\ IsFiniteSet(1 .. n)
          /\ Cardinality(1 .. n) = IF 1 > n THEN 0 ELSE n - 1 + 1
      BY FS_Interval
    <3> QED
      BY <3>1
  <2> QED
    BY <1>1, <2>1
<1>3. IsFiniteSet(DOMAIN bundle) /\ Cardinality(DOMAIN bundle) = Len(bundle)
  BY <1>1, <1>2, Zenon
<1>4. \A i \in DOMAIN bundle : bundle[i] \in PriceObservation
  BY <1>1 DEF Bundles
<1>5. \A i \in DOMAIN bundle : bundle[i].pubkey \in Keys /\ bundle[i].price \in Nat
  <2> SUFFICES ASSUME NEW i \in DOMAIN bundle
               PROVE  bundle[i].pubkey \in Keys /\ bundle[i].price \in Nat
    OBVIOUS
  <2>1. bundle[i] \in PriceObservation /\ PriceValues \subseteq Nat
    BY <1>4, OracleAssumption
  <2> QED
    BY <2>1 DEF PriceObservation
<1> QED
  BY <1>1, <1>3, <1>4, <1>5

\* The signers of a bundle are finitely many, no more than its observations,
\* and as many only if they all differ.
LEMMA SignersAreFinite ==
  ASSUME NEW bundle \in Bundles
  PROVE  /\ IsFiniteSet(Signers(bundle))
         /\ Signers(bundle) \subseteq Keys
         /\ Cardinality(Signers(bundle)) = Len(bundle) =>
              \A i, j \in DOMAIN bundle : bundle[i].pubkey = bundle[j].pubkey => i = j
<1> DEFINE f == [i \in DOMAIN bundle |-> bundle[i].pubkey]
<1>1. IsFiniteSet(DOMAIN bundle) /\ Cardinality(DOMAIN bundle) = Len(bundle)
  BY BundleIndices
<1>2. f \in Surjection(DOMAIN bundle, Signers(bundle))
  BY DEF Surjection, Signers
<1>4. /\ IsFiniteSet(Signers(bundle))
      /\ Cardinality(Signers(bundle)) = Cardinality(DOMAIN bundle) <=>
           f \in Injection(DOMAIN bundle, Signers(bundle))
  <2> HIDE DEF f
  <2> QED BY <1>1, <1>2, FS_Surjection
<1>5. f \in Injection(DOMAIN bundle, Signers(bundle)) =>
        \A i, j \in DOMAIN bundle : bundle[i].pubkey = bundle[j].pubkey => i = j
  BY DEF Injection, IsInjective
<1>6. Signers(bundle) \subseteq Keys
  BY BundleIndices DEF Signers
<1> QED
  BY <1>1, <1>4, <1>5, <1>6

\* One more observation in a bundle.
LEMMA BundleAppend ==
  ASSUME NEW bundle \in Bundles, NEW o \in PriceObservation
  PROVE  /\ Append(bundle, o) \in Bundles
         /\ Len(Append(bundle, o)) = Len(bundle) + 1
         /\ DOMAIN Append(bundle, o) = DOMAIN bundle \cup {Len(bundle) + 1}
         /\ \A i \in DOMAIN bundle : Append(bundle, o)[i] = bundle[i]
         /\ Append(bundle, o)[Len(bundle) + 1] = o
         /\ Signers(Append(bundle, o)) = Signers(bundle) \cup {o.pubkey}
<1>1. /\ Append(bundle, o) \in Bundles
      /\ Len(Append(bundle, o)) = Len(bundle) + 1
      /\ DOMAIN Append(bundle, o) = DOMAIN bundle \cup {Len(bundle) + 1}
      /\ \A i \in DOMAIN bundle : Append(bundle, o)[i] = bundle[i]
      /\ Append(bundle, o)[Len(bundle) + 1] = o
  BY DEF Bundles
<1> QED
  BY <1>1 DEF Signers

\* In a bundle of at least n observations there is an n-th price.
LEMMA RankedExists ==
  ASSUME NEW bundle \in Bundles, NEW n \in 1 .. Len(bundle)
  PROVE  LET x == Ranked(bundle, n) IN
         /\ x \in Nat
         /\ Cardinality({i \in DOMAIN bundle : bundle[i].price < x}) < n
         /\ Cardinality({i \in DOMAIN bundle : bundle[i].price <= x}) >= n
<1> DEFINE P == {bundle[i].price : i \in DOMAIN bundle}
           Below(x) == {i \in DOMAIN bundle : bundle[i].price < x}
           UpTo(x) == {i \in DOMAIN bundle : bundle[i].price <= x}
<1>1. DOMAIN bundle = 1 .. Len(bundle) /\ Len(bundle) \in Nat
  BY BundleIndices
<1>2. \A i \in DOMAIN bundle : bundle[i].price \in Nat
  BY BundleIndices
<1>3. IsFiniteSet(DOMAIN bundle) /\ Cardinality(DOMAIN bundle) = Len(bundle)
  BY BundleIndices
<1>4. P \subseteq Nat /\ P # {} /\ IsFiniteSet(P)
  <2> DEFINE f == [i \in DOMAIN bundle |-> bundle[i].price]
  <2>1. f \in Surjection(DOMAIN bundle, P)
    BY DEF Surjection
  <2>2. IsFiniteSet(P)
    <3> HIDE DEF f, P
    <3> QED BY <1>3, <2>1, FS_Surjection
  <2> QED
    BY <1>1, <1>2, <2>2
<1>5. PICK top \in P : \A y \in P : y <= top
  <2> HIDE DEF P
  <2> QED BY <1>4, GreatestInteger
<1>6. UpTo(top) = DOMAIN bundle
  BY <1>5
<1> DEFINE Enough == {x \in P : Cardinality(UpTo(x)) >= n}
<1>7. top \in Enough
  <2>1. Cardinality(UpTo(top)) = Len(bundle)
    BY <1>3, <1>6, Zenon
  <2> HIDE DEF UpTo, P
  <2> QED
    BY <1>1, <1>5, <2>1
<1>8. PICK x \in Enough : \A y \in Enough : x <= y
  <2>1. Enough \in SUBSET Nat /\ Enough # {}
    BY <1>4, <1>7
  <2> HIDE DEF Enough
  <2> QED BY <2>1, LeastNatural
<1>9. Cardinality(Below(x)) < n
  <2> SUFFICES ASSUME ~ (Cardinality(Below(x)) < n) PROVE FALSE
    OBVIOUS
  <2> DEFINE L == {y \in P : y < x}
  <2>1. IsFiniteSet(Below(x)) /\ Cardinality(Below(x)) \in Nat
    BY <1>3, FS_Subset, FS_CardinalityType
  <2>2. Below(x) # {}
    BY <2>1, FS_EmptySet
  <2>3. L \in SUBSET Nat /\ L # {} /\ IsFiniteSet(L)
    BY <1>4, <2>2, FS_Subset
  <2>4. PICK y \in L : \A z \in L : z <= y
    <3> HIDE DEF L
    <3> QED BY <2>3, GreatestInteger
  <2>5. UpTo(y) = Below(x)
    BY <1>2, <1>4, <2>4
  <2>6. y \in Enough
    <3>1. Cardinality(UpTo(y)) = Cardinality(Below(x))
      BY <2>5, Zenon
    <3>2. Cardinality(UpTo(y)) >= n
      <4> HIDE DEF Below, UpTo
      <4> QED BY <2>1, <3>1
    <3> QED
      BY <2>4, <3>2
  <2>7. x <= y
    BY <1>8, <2>6
  <2>8. x \in Nat /\ y \in Nat /\ y < x
    BY <1>4, <2>4
  <2> QED
    BY <2>7, <2>8
<1>10. \E v \in P : Cardinality(Below(v)) < n /\ Cardinality(UpTo(v)) >= n
  BY <1>8, <1>9
<1> DEFINE r == Ranked(bundle, n)
<1>11. r \in P /\ Cardinality(Below(r)) < n /\ Cardinality(UpTo(r)) >= n
  BY <1>10 DEF Ranked
<1> QED
  BY <1>4, <1>11

\* A later rank has no lower price.
LEMMA RanksAscend ==
  ASSUME NEW bundle \in Bundles, NEW n \in 1 .. Len(bundle), NEW m \in 1 .. Len(bundle), n <= m
  PROVE  Ranked(bundle, n) <= Ranked(bundle, m)
<1> DEFINE x == Ranked(bundle, n)
           y == Ranked(bundle, m)
           Below == {i \in DOMAIN bundle : bundle[i].price < x}
           UpTo == {i \in DOMAIN bundle : bundle[i].price <= y}
<1>1. x \in Nat /\ y \in Nat /\ Cardinality(Below) < n /\ Cardinality(UpTo) >= m
  BY RankedExists
<1>2. IsFiniteSet(Below) /\ Cardinality(Below) \in Nat /\ Cardinality(UpTo) \in Nat
  BY BundleIndices, FS_Subset, FS_CardinalityType
<1>3. ASSUME y < x PROVE FALSE
  <2>1. UpTo \in SUBSET Below
    BY <1>1, <1>3, BundleIndices
  <2>2. Cardinality(UpTo) <= Cardinality(Below)
    <3> HIDE DEF UpTo, Below
    <3> QED BY <1>2, <2>1, FS_Subset
  <2> HIDE DEF UpTo, Below
  <2> QED
    BY <1>1, <1>2, <2>2
<1> HIDE DEF x, y
<1>4. x <= y
  BY <1>1, <1>3
<1> QED
  BY <1>4 DEF x, y

\* Fewer than n observations set aside, one of the others is at or below the
\* n-th price; at least n others left, one of them is at or above it.
LEMMA RankIsBracketed ==
  ASSUME NEW bundle \in Bundles, NEW n \in 1 .. Len(bundle), NEW D \in SUBSET DOMAIN bundle
  PROVE  /\ Cardinality(D) < n =>
              \E i \in DOMAIN bundle \ D : bundle[i].price <= Ranked(bundle, n)
         /\ Cardinality(DOMAIN bundle \ D) >= n =>
              \E i \in DOMAIN bundle \ D : Ranked(bundle, n) <= bundle[i].price
<1> DEFINE x == Ranked(bundle, n)
           Below == {i \in DOMAIN bundle : bundle[i].price < x}
           UpTo == {i \in DOMAIN bundle : bundle[i].price <= x}
           Rest == DOMAIN bundle \ D
<1>1. x \in Nat /\ Cardinality(Below) < n /\ Cardinality(UpTo) >= n
  BY RankedExists
<1>2. \A T \in SUBSET DOMAIN bundle : IsFiniteSet(T) /\ Cardinality(T) \in Nat
  BY BundleIndices, FS_Subset, FS_CardinalityType
<1>3. ASSUME Cardinality(D) < n, \A i \in Rest : ~ (bundle[i].price <= x) PROVE FALSE
  <2>1. UpTo \in SUBSET D /\ UpTo \in SUBSET DOMAIN bundle
    BY <1>3
  <2> HIDE DEF UpTo
  <2>2. Cardinality(UpTo) <= Cardinality(D)
    BY <1>2, <2>1, FS_Subset
  <2> QED
    BY <1>1, <1>2, <1>3, <2>1, <2>2
<1>4. ASSUME Cardinality(Rest) >= n, \A i \in Rest : ~ (x <= bundle[i].price) PROVE FALSE
  <2>1. Rest \in SUBSET Below /\ Below \in SUBSET DOMAIN bundle /\ Rest \in SUBSET DOMAIN bundle
    BY <1>1, <1>4, BundleIndices
  <2> HIDE DEF Rest, Below
  <2>2. Cardinality(Rest) <= Cardinality(Below)
    BY <1>2, <2>1, FS_Subset
  <2> QED
    BY <1>1, <1>2, <1>4, <2>1, <2>2
<1> QED
  BY <1>3, <1>4

\* A bundle that is not empty has a median.
LEMMA MedianType ==
  ASSUME NEW bundle \in Bundles, Len(bundle) # 0
  PROVE  Median(bundle) \in Nat
<1> DEFINE n == Len(bundle)
<1>1. n \in Nat \ {0}
  BY BundleIndices
<1> HIDE DEF n
<1>2. CASE n % 2 = 1
  <2>1. (n + 1) \div 2 \in 1 .. n
    BY <1>1, <1>2
  <2>2. Ranked(bundle, (n + 1) \div 2) \in Nat
    BY <2>1, RankedExists DEF n
  <2> QED
    BY <1>2, <2>2 DEF Median, n
<1>3. CASE n % 2 # 1
  <2>1. n \div 2 \in 1 .. n /\ n \div 2 + 1 \in 1 .. n
    BY <1>1, <1>3
  <2>2. Ranked(bundle, n \div 2) \in Nat /\ Ranked(bundle, n \div 2 + 1) \in Nat
    BY <2>1, RankedExists DEF n
  <2>3. (Ranked(bundle, n \div 2) + Ranked(bundle, n \div 2 + 1)) \div 2 \in Nat
    BY <2>2
  <2> QED
    BY <1>3, <2>3 DEF Median, n
<1> QED
  BY <1>2, <1>3

\* Less than half of a bundle set aside, its median lies between the prices of
\* two of the others.
LEMMA MedianIsBracketed ==
  ASSUME NEW bundle \in Bundles, NEW D \in SUBSET DOMAIN bundle,
         2 * Cardinality(D) < Len(bundle)
  PROVE  \E i, j \in DOMAIN bundle \ D :
           bundle[i].price <= Median(bundle) /\ Median(bundle) <= bundle[j].price
<1> DEFINE n == Len(bundle)
           d == Cardinality(D)
           rest == Cardinality(DOMAIN bundle \ D)
<1>1. n \in Nat /\ d \in Nat /\ rest = n - d /\ n # 0 /\ 2 * d < n
  <2>1. IsFiniteSet(DOMAIN bundle) /\ Cardinality(DOMAIN bundle) = n /\ n \in Nat
    BY BundleIndices
  <2>2. IsFiniteSet(D) /\ d \in Nat
    BY <2>1, FS_Subset, FS_CardinalityType
  <2>3. Cardinality(DOMAIN bundle \ D) =
          Cardinality(DOMAIN bundle) - Cardinality(DOMAIN bundle \cap D)
    BY <2>1, FS_Difference
  <2>4. Cardinality(DOMAIN bundle \cap D) = d
    <3>1. DOMAIN bundle \cap D = D
      OBVIOUS
    <3> QED
      BY <3>1, Zenon
  <2> QED
    BY <2>1, <2>2, <2>3, <2>4
<1>2. \A i \in DOMAIN bundle : bundle[i].price \in Nat
  BY BundleIndices
<1> HIDE DEF n, d, rest
<1>3. CASE n % 2 = 1
  <2> DEFINE m == (n + 1) \div 2
  <2>1. m \in 1 .. n /\ d < m /\ rest >= m
    BY <1>1, <1>3
  <2>2. Median(bundle) = Ranked(bundle, m)
    BY <1>3 DEF Median, n
  <2> HIDE DEF m
  <2> QED
    BY <2>1, <2>2, RankIsBracketed DEF n, d, rest
<1>4. CASE n % 2 # 1
  <2> DEFINE m == n \div 2
             x == Ranked(bundle, m)
             y == Ranked(bundle, m + 1)
  <2>1. m \in 1 .. n /\ m + 1 \in 1 .. n /\ d < m /\ rest >= m + 1 /\ m <= m + 1
    BY <1>1, <1>4
  <2>2. Median(bundle) = (x + y) \div 2
    BY <1>4 DEF Median, n
  <2> HIDE DEF m
  <2>3. x \in Nat /\ y \in Nat /\ x <= y
    BY <2>1, RankedExists, RanksAscend DEF n
  <2>4. PICK i \in DOMAIN bundle \ D : bundle[i].price <= x
    BY <2>1, RankIsBracketed DEF n, d
  <2>5. PICK j \in DOMAIN bundle \ D : y <= bundle[j].price
    BY <2>1, RankIsBracketed DEF n, rest
  <2> HIDE DEF x, y
  <2>6. x <= (x + y) \div 2 /\ (x + y) \div 2 <= y /\ (x + y) \div 2 \in Nat
    BY <2>3
  <2>7. bundle[i].price \in Nat /\ bundle[j].price \in Nat
    BY <1>2
  <2>8. bundle[i].price <= Median(bundle) /\ Median(bundle) <= bundle[j].price
    BY <2>2, <2>3, <2>4, <2>5, <2>6, <2>7
  <2> QED
    BY <2>8
<1> QED
  BY <1>3, <1>4

(***************************************************************************)
(* The inductive invariant: the properties, and what they need of the      *)
(* bundles that are still open.                                            *)
(***************************************************************************)
\* Who signed an open bundle is still on the pair's roster.
SignersAreAttestors ==
  \A b \in Pairs \X Slots : Signers(pending[b]) \subseteq attestors[b[1]]

\* An honest signer's observation in an open bundle is what it saw at the
\* bundle's slot, and the bundle is in its decimals.
HonestObserve ==
  \A b \in Pairs \X Slots : \A i \in DOMAIN pending[b] :
    pending[b][i].pubkey \in Honest =>
      /\ pending[b][i].price = Seen[<<pending[b][i].pubkey, b[2]>>]
      /\ b \in DOMAIN bundleDecimals
      /\ bundleDecimals[b] = SeenDecimals

\* A feed was written at a block of the past, for a slot within the window.
FeedsAreDated ==
  \A p \in DOMAIN prices :
    /\ prices[p].block <= block
    /\ prices[p].slot <= prices[p].block + MaxFutureSlots

OracleInv ==
  /\ TypeOK
  /\ BundlesAreAccountedFor
  /\ SignersAreAttestors
  /\ HonestObserve
  /\ FeedsAreDated
  /\ PriceHasQuorum
  /\ PriceIsBracketed

\* Nothing is submitted yet.
LEMMA OracleInit == Init => OracleInv
<1> SUFFICES ASSUME Init PROVE OracleInv
  OBVIOUS
<1>1. \A b \in Pairs \X Slots : pending[b] = <<>> /\ Signers(pending[b]) = {}
  BY DEF Init, Signers
<1>2. DOMAIN prices = {} /\ DOMAIN bundleDecimals = {}
  BY DEF Init, NoRows
<1>3. TypeOK
  BY <1>2, OracleAssumption DEF Init, TypeOK, IsMap, NoRows, Blocks
<1>4. BundlesAreAccountedFor
  <2>1. MinAttestorThreshold \in Nat \ {0}
    BY OracleAssumption
  <2> SUFFICES ASSUME NEW b \in Pairs \X Slots
               PROVE  /\ Signers(pending[b]) = {k \in Keys : <<b[1], b[2], k>> \in submitted}
                      /\ Cardinality(Signers(pending[b])) = Len(pending[b])
                      /\ Len(pending[b]) < MinAttestorThreshold
                      /\ b \in DOMAIN bundleDecimals <=> pending[b] # <<>>
    BY DEF BundlesAreAccountedFor
  <2>2. Cardinality(Signers(pending[b])) = 0 /\ Len(pending[b]) = 0
    <3>1. Cardinality({}) = 0 /\ Len(<<>>) = 0
      BY FS_EmptySet
    <3> QED
      BY <1>1, <3>1, Zenon
  <2>3. submitted = {}
    BY DEF Init
  <2> QED
    BY <1>1, <1>2, <2>1, <2>2, <2>3
<1>5. SignersAreAttestors /\ HonestObserve
  <2>1. DOMAIN <<>> = {}
    OBVIOUS
  <2>2. \A b \in Pairs \X Slots : DOMAIN pending[b] = {}
    BY <1>1, <2>1, Zenon
  <2> QED
    BY <1>1, <2>2 DEF SignersAreAttestors, HonestObserve
<1>6. FeedsAreDated /\ PriceHasQuorum /\ PriceIsBracketed
  BY <1>2 DEF FeedsAreDated, PriceHasQuorum, PriceIsBracketed
<1> QED
  BY <1>3, <1>4, <1>5, <1>6 DEF OracleInv

\* The bundle of a call, with the new observation: one more signer, each on
\* the roster and there once, no more than the threshold, and the honest ones
\* as they saw it.
JoinedBundle(p, slot, k, decimals, bundle) ==
  /\ bundle \in Bundles /\ bundle # <<>>
  /\ Signers(bundle) = Signers(pending[<<p, slot>>]) \cup {k}
  /\ Signers(bundle) \subseteq attestors[p]
  /\ Cardinality(Signers(bundle)) = Len(bundle)
  /\ Len(bundle) <= MinAttestorThreshold /\ Len(bundle) \in Nat \ {0}
  /\ \A i \in DOMAIN bundle :
       bundle[i].pubkey \in Honest =>
         bundle[i].price = Seen[<<bundle[i].pubkey, slot>>] /\ decimals = SeenDecimals

\* A call that passes its checks makes such a bundle.
LEMMA BundleOfCall ==
  ASSUME OracleInv, NEW p \in Pairs, NEW slot \in Slots, NEW k \in Keys,
         NEW price \in PriceValues, NEW decimals \in DecimalsInputs,
         SubmitPrice(p, price, decimals, slot, k),
         k \in Honest => price = Seen[<<k, slot>>] /\ decimals = SeenDecimals,
         NEW bundle, bundle = Append(pending[<<p, slot>>], [pubkey |-> k, price |-> price])
  PROVE  JoinedBundle(p, slot, k, decimals, bundle)
<1> DEFINE b == <<p, slot>>
           old == pending[b]
           o == [pubkey |-> k, price |-> price]
<1>1. b \in Pairs \X Slots /\ old \in Bundles /\ o \in PriceObservation
  BY DEF OracleInv, TypeOK, Bundles, PriceObservation
<1>2. /\ bundle \in Bundles
      /\ Len(bundle) = Len(old) + 1
      /\ DOMAIN bundle = DOMAIN old \cup {Len(old) + 1}
      /\ \A i \in DOMAIN old : bundle[i] = old[i]
      /\ bundle[Len(old) + 1] = o
      /\ Signers(bundle) = Signers(old) \cup {k}
  <2>1. o.pubkey = k /\ bundle = Append(old, o)
    OBVIOUS
  <2> HIDE DEF old, o
  <2>2. /\ Append(old, o) \in Bundles
        /\ Len(Append(old, o)) = Len(old) + 1
        /\ DOMAIN Append(old, o) = DOMAIN old \cup {Len(old) + 1}
        /\ \A i \in DOMAIN old : Append(old, o)[i] = old[i]
        /\ Append(old, o)[Len(old) + 1] = o
        /\ Signers(Append(old, o)) = Signers(old) \cup {o.pubkey}
    BY <1>1, BundleAppend
  <2> QED
    BY <2>1, <2>2, Zenon
<1>3. /\ Signers(old) = {key \in Keys : <<p, slot, key>> \in submitted}
      /\ Cardinality(Signers(old)) = Len(old)
      /\ Len(old) < MinAttestorThreshold /\ Len(old) \in Nat
      /\ b \in DOMAIN bundleDecimals <=> old # <<>>
  <2>1. b[1] = p /\ b[2] = slot
    OBVIOUS
  <2> HIDE DEF old, b
  <2> QED
    BY <1>1, <2>1, BundleIndices DEF OracleInv, BundlesAreAccountedFor, old
<1>4. k \notin Signers(old)
  BY <1>3 DEF SubmitPrice, NotYetSubmitted
<1>5. Cardinality(Signers(bundle)) = Len(bundle)
  <2>1. IsFiniteSet(Signers(old))
    BY <1>1, SignersAreFinite
  <2>2. Cardinality(Signers(old) \cup {k}) = Cardinality(Signers(old)) + 1
    BY <1>4, <2>1, FS_AddElement
  <2>3. Cardinality(Signers(bundle)) = Cardinality(Signers(old) \cup {k})
    BY <1>2, Zenon
  <2> HIDE DEF old, o
  <2> QED
    BY <1>2, <1>3, <2>2, <2>3
<1>6. Signers(bundle) \subseteq attestors[p]
  <2>1. Signers(old) \subseteq attestors[p] /\ k \in attestors[p]
    BY <1>1 DEF OracleInv, SignersAreAttestors, SubmitPrice
  <2> HIDE DEF old
  <2> QED
    BY <1>2, <2>1
<1>7. Len(bundle) <= MinAttestorThreshold /\ Len(bundle) \in Nat \ {0} /\ bundle # <<>>
  <2>1. MinAttestorThreshold \in Nat
    BY OracleAssumption
  <2> HIDE DEF old, o
  <2>2. bundle # <<>>
    BY <1>2
  <2>3. Len(bundle) = Len(old) + 1 /\ Len(old) \in Nat /\ Len(old) < MinAttestorThreshold
    BY <1>2, <1>3
  <2>4. Len(bundle) <= MinAttestorThreshold
    BY <2>1, <2>3
  <2>5. Len(bundle) \in Nat \ {0}
    BY <2>3
  <2> QED
    BY <2>2, <2>4, <2>5
<1>8. ASSUME NEW i \in DOMAIN bundle, bundle[i].pubkey \in Honest
      PROVE  bundle[i].price = Seen[<<bundle[i].pubkey, slot>>] /\ decimals = SeenDecimals
  <2>1. CASE i \in DOMAIN old
    <3>1. old[i].pubkey \in Honest
      BY <1>2, <1>8, <2>1
    <3>2. /\ old[i].price = Seen[<<old[i].pubkey, slot>>]
          /\ b \in DOMAIN bundleDecimals /\ bundleDecimals[b] = SeenDecimals
      BY <1>1, <2>1, <3>1 DEF OracleInv, HonestObserve
    <3>3. decimals = SeenDecimals
      BY <3>2 DEF SubmitPrice, DecimalsMatch
    <3>4. bundle[i] = old[i]
      BY <1>2, <2>1
    <3> QED
      BY <3>2, <3>3, <3>4
  <2>2. CASE i = Len(old) + 1
    <3>1. bundle[i] = o
      BY <1>2, <2>2
    <3>2. bundle[i].pubkey = k /\ bundle[i].price = price
      BY <3>1
    <3>3. k \in Honest
      BY <1>8, <3>2
    <3> QED
      BY <3>2, <3>3
  <2> QED
    BY <1>2, <2>1, <2>2
<1> QED
  BY <1>2, <1>5, <1>6, <1>7, <1>8 DEF JoinedBundle

\* An observation that joins an incomplete bundle.
LEMMA BufferStep ==
  ASSUME OracleInv, NEW p \in Pairs, NEW slot \in Slots, NEW k \in Keys,
         NEW decimals \in DecimalsInputs, NEW bundle,
         JoinedBundle(p, slot, k, decimals, bundle), Len(bundle) < MinAttestorThreshold,
         Buffer(<<p, slot>>, k, decimals, bundle), UNCHANGED <<block, attestors>>
  PROVE  OracleInv'
<1> USE DEF JoinedBundle
<1> DEFINE b == <<p, slot>>
<1>1. b \in Pairs \X Slots /\ b[1] = p /\ b[2] = slot
  OBVIOUS
<1> HIDE DEF b
<1>2. /\ pending' = [pending EXCEPT ![b] = bundle]
      /\ submitted' = submitted \cup {<<p, slot, k>>}
      /\ bundleDecimals' = Put(bundleDecimals, Entry(b, decimals))
      /\ UNCHANGED <<prices, block, attestors>>
  BY DEF Buffer, b
<1>3. /\ pending' \in [Pairs \X Slots -> Bundles] /\ pending'[b] = bundle
      /\ \A c \in Pairs \X Slots : c # b => pending'[c] = pending[c]
  BY <1>1, <1>2 DEF OracleInv, TypeOK, Bundles
<1>4. /\ IsMap(bundleDecimals', Pairs \X Slots)
      /\ DOMAIN bundleDecimals' = {b} \cup DOMAIN bundleDecimals
      /\ bundleDecimals'[b] = decimals
      /\ \A c \in DOMAIN bundleDecimals : c # b => bundleDecimals'[c] = bundleDecimals[c]
  <2> DEFINE new == Entry(b, decimals)
  <2>1. DOMAIN new = {b} /\ new[b] = decimals
    BY DEF Entry
  <2>2. IsMap(bundleDecimals, Pairs \X Slots) /\ DOMAIN new \subseteq Pairs \X Slots
    BY <1>1, <2>1 DEF OracleInv, TypeOK
  <2> HIDE DEF new
  <2>3. /\ IsMap(Put(bundleDecimals, new), Pairs \X Slots)
        /\ DOMAIN Put(bundleDecimals, new) = DOMAIN new \cup DOMAIN bundleDecimals
        /\ \A c \in DOMAIN Put(bundleDecimals, new) :
             Put(bundleDecimals, new)[c] = IF c \in DOMAIN new THEN new[c] ELSE bundleDecimals[c]
    BY <2>2, PutMap
  <2>4. bundleDecimals' = Put(bundleDecimals, new)
    BY <1>2 DEF new
  <2> QED
    BY <2>1, <2>3, <2>4
<1>5. TypeOK'
  <2>1. submitted' \subseteq Pairs \X Slots \X Keys
    BY <1>2 DEF OracleInv, TypeOK
  <2>2. \A c \in DOMAIN bundleDecimals' : bundleDecimals'[c] \in DecimalsInputs
    BY <1>4 DEF OracleInv, TypeOK
  <2> QED
    BY <1>2, <1>3, <1>4, <2>1, <2>2 DEF OracleInv, TypeOK, Bundles
<1>6. BundlesAreAccountedFor'
  <2> SUFFICES ASSUME NEW c \in Pairs \X Slots
               PROVE  /\ Signers(pending'[c]) = {key \in Keys : <<c[1], c[2], key>> \in submitted'}
                      /\ Cardinality(Signers(pending'[c])) = Len(pending'[c])
                      /\ Len(pending'[c]) < MinAttestorThreshold
                      /\ c \in DOMAIN bundleDecimals' <=> pending'[c] # <<>>
    BY DEF BundlesAreAccountedFor, Signers
  <2>1. /\ Signers(pending[c]) = {key \in Keys : <<c[1], c[2], key>> \in submitted}
        /\ Cardinality(Signers(pending[c])) = Len(pending[c])
        /\ Len(pending[c]) < MinAttestorThreshold
        /\ c \in DOMAIN bundleDecimals <=> pending[c] # <<>>
    BY DEF OracleInv, BundlesAreAccountedFor
  <2>2. CASE c = b
    <3>1. Signers(bundle) = {key \in Keys : <<c[1], c[2], key>> \in submitted'}
      BY <1>1, <1>2, <2>1, <2>2 DEF b
    <3> QED
      BY <1>3, <1>4, <2>2, <3>1
  <2>3. CASE c # b
    <3>1. \A key : <<c[1], c[2], key>> \in submitted' <=> <<c[1], c[2], key>> \in submitted
      <4>1. c = <<c[1], c[2]>>
        OBVIOUS
      <4>2. <<c[1], c[2]>> # <<p, slot>>
        BY <2>3, <4>1 DEF b
      <4> QED
        BY <1>2, <4>2
    <3> QED
      BY <1>3, <1>4, <2>1, <2>3, <3>1
  <2> QED
    BY <2>2, <2>3
<1>7. SignersAreAttestors'
  <2> SUFFICES ASSUME NEW c \in Pairs \X Slots PROVE Signers(pending'[c]) \subseteq attestors[c[1]]
    BY <1>2 DEF SignersAreAttestors, Signers
  <2> QED
    BY <1>1, <1>3 DEF OracleInv, SignersAreAttestors
<1>8. HonestObserve'
  <2> SUFFICES ASSUME NEW c \in Pairs \X Slots, NEW i \in DOMAIN pending'[c],
                      pending'[c][i].pubkey \in Honest
               PROVE  /\ pending'[c][i].price = Seen[<<pending'[c][i].pubkey, c[2]>>]
                      /\ c \in DOMAIN bundleDecimals'
                      /\ bundleDecimals'[c] = SeenDecimals
    BY DEF HonestObserve
  <2>1. CASE c = b
    BY <1>1, <1>3, <1>4, <2>1
  <2>2. CASE c # b
    <3>1. pending'[c] = pending[c]
      BY <1>3, <2>2
    <3>2. /\ pending[c][i].price = Seen[<<pending[c][i].pubkey, c[2]>>]
          /\ c \in DOMAIN bundleDecimals
          /\ bundleDecimals[c] = SeenDecimals
      BY <3>1 DEF OracleInv, HonestObserve
    <3> QED
      BY <1>4, <2>2, <3>1, <3>2
  <2> QED
    BY <2>1, <2>2
<1>9. FeedsAreDated' /\ PriceHasQuorum'
  BY <1>2 DEF OracleInv, FeedsAreDated, PriceHasQuorum
<1>10. PriceIsBracketed'
  <2>1. PriceIsBracketed /\ prices' = prices
    BY <1>2 DEF OracleInv
  <2> QED
    BY <2>1, Zenon DEF PriceIsBracketed, Bracketed
<1> QED
  BY <1>5, <1>6, <1>7, <1>8, <1>9, <1>10 DEF OracleInv

\* In a bundle of different signers no more observations are dishonest than
\* there are keys that are.
LEMMA FewAreDishonest ==
  ASSUME NEW bundle \in Bundles, Cardinality(Signers(bundle)) = Len(bundle)
  PROVE  Cardinality({i \in DOMAIN bundle : bundle[i].pubkey \notin Honest})
           <= Cardinality(Keys \ Honest)
<1> DEFINE D == {i \in DOMAIN bundle : bundle[i].pubkey \notin Honest}
           f == [i \in D |-> bundle[i].pubkey]
<1>1. \A i, j \in DOMAIN bundle : bundle[i].pubkey = bundle[j].pubkey => i = j
  BY SignersAreFinite
<1>2. f \in Injection(D, Keys \ Honest)
  BY <1>1, BundleIndices DEF Injection, IsInjective
<1>3. IsFiniteSet(Keys \ Honest)
  BY OracleAssumption, FS_Difference
<1> HIDE DEF f, D
<1>4. Cardinality(D) <= Cardinality(Keys \ Honest)
  BY <1>2, <1>3, FS_Injection
<1> QED
  BY <1>4 DEF D

\* The observation that completes a bundle.
LEMMA AggregateStep ==
  ASSUME OracleInv, NEW p \in Pairs, NEW slot \in Slots, NEW k \in Keys,
         NEW decimals \in DecimalsInputs, NEW bundle,
         JoinedBundle(p, slot, k, decimals, bundle), Len(bundle) = MinAttestorThreshold,
         InWindow(slot),
         Aggregate(<<p, slot>>, k, decimals, bundle), UNCHANGED <<block, attestors>>
  PROVE  OracleInv'
<1> USE DEF JoinedBundle
<1> DEFINE b == <<p, slot>>
           row == [price |-> Median(bundle), decimals |-> decimals, slot |-> slot,
                   block |-> block, attestorSet |-> Signers(bundle)]
<1>1. b \in Pairs \X Slots /\ b[1] = p /\ b[2] = slot
  OBVIOUS
<1>2. /\ prices' = Put(prices, Entry(p, row))
      /\ pending' = [pending EXCEPT ![b] = <<>>]
      /\ submitted' = (submitted \cup {<<p, slot, k>>}) \ {<<p, slot, key>> : key \in Signers(bundle)}
      /\ bundleDecimals' = Remove(bundleDecimals, {b})
      /\ UNCHANGED <<block, attestors>>
  BY DEF Aggregate, ClearedRows
<1>3. /\ row \in PriceFeed /\ row.slot = slot /\ row.block = block
      /\ row.price = Median(bundle) /\ row.decimals = decimals
      /\ row.attestorSet = Signers(bundle)
  <2>1. Median(bundle) \in Nat
    BY MedianType, OracleAssumption
  <2>2. Signers(bundle) \subseteq Keys /\ block \in Blocks
    BY SignersAreFinite DEF OracleInv, TypeOK
  <2> QED
    BY <2>1, <2>2 DEF PriceFeed
<1> HIDE DEF b, row
<1>4. /\ pending' \in [Pairs \X Slots -> Bundles] /\ pending'[b] = <<>>
      /\ \A c \in Pairs \X Slots : c # b => pending'[c] = pending[c]
  <2>1. pending \in [Pairs \X Slots -> Bundles] /\ <<>> \in Bundles
    BY DEF OracleInv, TypeOK, Bundles
  <2> QED
    BY <1>1, <1>2, <2>1
<1>5. /\ IsMap(bundleDecimals', Pairs \X Slots)
      /\ DOMAIN bundleDecimals' = DOMAIN bundleDecimals \ {b}
      /\ \A c \in DOMAIN bundleDecimals : c # b => bundleDecimals'[c] = bundleDecimals[c]
  <2>1. IsMap(bundleDecimals, Pairs \X Slots)
    BY DEF OracleInv, TypeOK
  <2>2. /\ IsMap(Remove(bundleDecimals, {b}), Pairs \X Slots)
        /\ DOMAIN Remove(bundleDecimals, {b}) = DOMAIN bundleDecimals \ {b}
        /\ \A c \in DOMAIN bundleDecimals \ {b} :
             Remove(bundleDecimals, {b})[c] = bundleDecimals[c]
    BY <2>1, RemoveMap
  <2> QED
    BY <1>2, <2>2
<1>6. /\ IsMap(prices', Pairs)
      /\ DOMAIN prices' = {p} \cup DOMAIN prices
      /\ prices'[p] = row
      /\ \A q \in DOMAIN prices : q # p => prices'[q] = prices[q]
  <2> DEFINE new == Entry(p, row)
  <2>1. DOMAIN new = {p} /\ new[p] = row
    BY DEF Entry
  <2>2. IsMap(prices, Pairs) /\ DOMAIN new \subseteq Pairs
    BY <2>1 DEF OracleInv, TypeOK
  <2> HIDE DEF new
  <2>3. /\ IsMap(Put(prices, new), Pairs)
        /\ DOMAIN Put(prices, new) = DOMAIN new \cup DOMAIN prices
        /\ \A q \in DOMAIN Put(prices, new) :
             Put(prices, new)[q] = IF q \in DOMAIN new THEN new[q] ELSE prices[q]
    BY <2>2, PutMap
  <2>4. prices' = Put(prices, new)
    BY <1>2 DEF new
  <2> QED
    BY <2>1, <2>3, <2>4
<1>7. TypeOK'
  <2>1. submitted' \subseteq Pairs \X Slots \X Keys
    BY <1>2 DEF OracleInv, TypeOK
  <2>2. \A c \in DOMAIN bundleDecimals' : bundleDecimals'[c] \in DecimalsInputs
    BY <1>5 DEF OracleInv, TypeOK
  <2>3. \A q \in DOMAIN prices' : prices'[q] \in PriceFeed
    BY <1>3, <1>6 DEF OracleInv, TypeOK
  <2> QED
    BY <1>2, <1>4, <1>5, <1>6, <2>1, <2>2, <2>3 DEF OracleInv, TypeOK, Bundles
<1>8. BundlesAreAccountedFor'
  <2> SUFFICES ASSUME NEW c \in Pairs \X Slots
               PROVE  /\ Signers(pending'[c]) = {key \in Keys : <<c[1], c[2], key>> \in submitted'}
                      /\ Cardinality(Signers(pending'[c])) = Len(pending'[c])
                      /\ Len(pending'[c]) < MinAttestorThreshold
                      /\ c \in DOMAIN bundleDecimals' <=> pending'[c] # <<>>
    BY DEF BundlesAreAccountedFor, Signers
  <2>1. /\ Signers(pending[c]) = {key \in Keys : <<c[1], c[2], key>> \in submitted}
        /\ Cardinality(Signers(pending[c])) = Len(pending[c])
        /\ Len(pending[c]) < MinAttestorThreshold
        /\ c \in DOMAIN bundleDecimals <=> pending[c] # <<>>
    BY DEF OracleInv, BundlesAreAccountedFor
  <2>2. CASE c = b
    <3>1. Signers(<<>>) = {} /\ Len(<<>>) = 0
      BY DEF Signers
    <3>2. {key \in Keys : <<p, slot, key>> \in submitted'} = {}
      <4>1. \A key \in Keys : <<p, slot, key>> \in submitted => key \in Signers(bundle)
        BY <1>1, <2>1, <2>2 DEF b
      <4> QED
        BY <1>2, <4>1
    <3>3. Cardinality(Signers(<<>>)) = 0
      BY <3>1, FS_EmptySet, Zenon
    <3>4. MinAttestorThreshold \in Nat \ {0}
      BY OracleAssumption
    <3>5. Signers(<<>>) = {key \in Keys : <<c[1], c[2], key>> \in submitted'}
      BY <1>1, <2>2, <3>1, <3>2
    <3> QED
      BY <1>4, <1>5, <2>2, <3>1, <3>3, <3>4, <3>5
  <2>3. CASE c # b
    <3>1. \A key : <<c[1], c[2], key>> \in submitted' <=> <<c[1], c[2], key>> \in submitted
      <4>1. c = <<c[1], c[2]>>
        OBVIOUS
      <4>2. <<c[1], c[2]>> # <<p, slot>>
        BY <2>3, <4>1 DEF b
      <4> QED
        BY <1>2, <4>2
    <3> QED
      BY <1>4, <1>5, <2>1, <2>3, <3>1
  <2> QED
    BY <2>2, <2>3
<1>9. SignersAreAttestors'
  <2> SUFFICES ASSUME NEW c \in Pairs \X Slots PROVE Signers(pending'[c]) \subseteq attestors[c[1]]
    BY <1>2 DEF SignersAreAttestors, Signers
  <2>1. Signers(<<>>) = {}
    BY DEF Signers
  <2> QED
    BY <1>1, <1>4, <2>1 DEF OracleInv, SignersAreAttestors
<1>10. HonestObserve'
  <2> SUFFICES ASSUME NEW c \in Pairs \X Slots, NEW i \in DOMAIN pending'[c],
                      pending'[c][i].pubkey \in Honest
               PROVE  /\ pending'[c][i].price = Seen[<<pending'[c][i].pubkey, c[2]>>]
                      /\ c \in DOMAIN bundleDecimals'
                      /\ bundleDecimals'[c] = SeenDecimals
    BY DEF HonestObserve
  <2>1. c # b
    BY <1>4
  <2>2. pending'[c] = pending[c]
    BY <1>4, <2>1
  <2>3. /\ pending[c][i].price = Seen[<<pending[c][i].pubkey, c[2]>>]
        /\ c \in DOMAIN bundleDecimals
        /\ bundleDecimals[c] = SeenDecimals
    BY <2>2 DEF OracleInv, HonestObserve
  <2> QED
    BY <1>5, <2>1, <2>2, <2>3
<1>11. FeedsAreDated'
  <2>1. block \in Nat /\ slot \in Nat /\ MaxFutureSlots \in Nat
    BY OracleAssumption DEF OracleInv, TypeOK, Blocks, Slots
  <2>2. row.block <= block /\ row.slot <= row.block + MaxFutureSlots
    BY <1>3, <2>1 DEF InWindow
  <2> QED
    BY <1>2, <1>6, <2>2 DEF OracleInv, FeedsAreDated
<1>12. PriceHasQuorum'
  BY <1>2, <1>3, <1>6 DEF OracleInv, PriceHasQuorum
<1>13. PriceIsBracketed'
  <2> SUFFICES ASSUME 2 * Cardinality(Keys \ Honest) < MinAttestorThreshold,
                      NEW q \in DOMAIN prices'
               PROVE  /\ Bracketed(prices'[q].price,
                                   {Seen[<<key, prices'[q].slot>>] : key \in Honest})
                      /\ prices'[q].decimals = SeenDecimals
    BY DEF PriceIsBracketed, Bracketed
  <2>1. CASE q # p
    <3>1. prices'[q] = prices[q] /\ q \in DOMAIN prices
      BY <1>6, <2>1
    <3>2. /\ Bracketed(prices[q].price, {Seen[<<key, prices[q].slot>>] : key \in Honest})
          /\ prices[q].decimals = SeenDecimals
      BY <3>1 DEF OracleInv, PriceIsBracketed
    <3> QED
      BY <3>1, <3>2
  <2>2. CASE q = p
    <3> DEFINE D == {i \in DOMAIN bundle : bundle[i].pubkey \notin Honest}
    <3>1. D \in SUBSET DOMAIN bundle /\ Cardinality(D) <= Cardinality(Keys \ Honest)
      BY FewAreDishonest
    <3>2. Cardinality(D) \in Nat /\ Cardinality(Keys \ Honest) \in Nat /\ MinAttestorThreshold \in Nat
      <4>1. IsFiniteSet(D)
        BY <3>1, BundleIndices, FS_Subset
      <4>2. IsFiniteSet(Keys \ Honest)
        BY OracleAssumption, FS_Difference
      <4> QED
        BY <4>1, <4>2, FS_CardinalityType, OracleAssumption
    <3>3. \A i \in DOMAIN bundle \ D : bundle[i].pubkey \in Honest
      OBVIOUS
    <3> HIDE DEF D
    <3>4. 2 * Cardinality(D) < Len(bundle)
      BY <3>1, <3>2
    <3>5. PICK i \in DOMAIN bundle \ D, j \in DOMAIN bundle \ D :
            bundle[i].price <= Median(bundle) /\ Median(bundle) <= bundle[j].price
      BY <3>1, <3>4, MedianIsBracketed
    <3>6. /\ bundle[i].pubkey \in Honest /\ bundle[i].price = Seen[<<bundle[i].pubkey, slot>>]
          /\ bundle[j].pubkey \in Honest /\ bundle[j].price = Seen[<<bundle[j].pubkey, slot>>]
          /\ decimals = SeenDecimals
      BY <3>3
    <3>7. Bracketed(Median(bundle), {Seen[<<key, slot>>] : key \in Honest})
      BY <3>5, <3>6 DEF Bracketed
    <3>8. prices'[q].price = Median(bundle) /\ prices'[q].slot = slot
          /\ prices'[q].decimals = decimals
      BY <1>3, <1>6, <2>2
    <3> HIDE DEF JoinedBundle
    <3> QED
      BY <3>6, <3>7, <3>8, Zenon
  <2> QED
    BY <2>1, <2>2
<1> QED
  BY <1>7, <1>8, <1>9, <1>10, <1>11, <1>12, <1>13 DEF OracleInv

\* A submission of any attestor, honest or not.
LEMMA SubmitStep ==
  ASSUME OracleInv, NEW p \in Pairs, NEW slot \in Slots, NEW k \in Keys,
         NEW price \in PriceValues, NEW decimals \in DecimalsInputs,
         SubmitPrice(p, price, decimals, slot, k),
         k \in Honest => price = Seen[<<k, slot>>] /\ decimals = SeenDecimals
  PROVE  OracleInv'
<1> DEFINE b == <<p, slot>>
           bundle == Append(pending[b], [pubkey |-> k, price |-> price])
<1>1. JoinedBundle(p, slot, k, decimals, bundle)
  <2>1. bundle = Append(pending[<<p, slot>>], [pubkey |-> k, price |-> price])
    OBVIOUS
  <2> HIDE DEF bundle
  <2> QED
    BY <2>1, BundleOfCall
<1>2. /\ IF Len(bundle) >= MinAttestorThreshold
         THEN Aggregate(b, k, decimals, bundle)
         ELSE Buffer(b, k, decimals, bundle)
      /\ UNCHANGED <<block, attestors>>
      /\ InWindow(slot)
  BY DEF SubmitPrice
<1>3. MinAttestorThreshold \in Nat
  BY OracleAssumption
<1> HIDE DEF bundle
<1>4. Len(bundle) <= MinAttestorThreshold /\ Len(bundle) \in Nat
  BY <1>1 DEF JoinedBundle
<1>5. CASE Len(bundle) >= MinAttestorThreshold
  <2>1. Len(bundle) = MinAttestorThreshold
    BY <1>3, <1>4, <1>5
  <2>2. Aggregate(b, k, decimals, bundle)
    BY <1>2, <1>5
  <2> QED
    BY <1>1, <1>2, <2>1, <2>2, AggregateStep
<1>6. CASE ~ (Len(bundle) >= MinAttestorThreshold)
  <2>1. Len(bundle) < MinAttestorThreshold
    BY <1>3, <1>4, <1>6
  <2>2. Buffer(b, k, decimals, bundle)
    BY <1>2, <1>6
  <2> QED
    BY <1>1, <1>2, <2>1, <2>2, BufferStep
<1> QED
  BY <1>5, <1>6

\* What a step that leaves prices and bundles alone keeps.
LEMMA RowsUnmoved ==
  ASSUME OracleInv, UNCHANGED <<prices, pending, submitted, bundleDecimals>>
  PROVE  BundlesAreAccountedFor' /\ HonestObserve' /\ PriceIsBracketed'
<1>1. BundlesAreAccountedFor'
  BY DEF OracleInv, BundlesAreAccountedFor, Signers
<1>2. HonestObserve'
  BY DEF OracleInv, HonestObserve
<1>3. PriceIsBracketed'
  <2>1. PriceIsBracketed /\ prices' = prices
    BY DEF OracleInv
  <2> QED
    BY <2>1, Zenon DEF PriceIsBracketed, Bracketed
<1> QED
  BY <1>1, <1>2, <1>3

\* Every step keeps the invariant.
LEMMA OracleStep == OracleInv /\ [Next]_vars => OracleInv'
<1> SUFFICES ASSUME OracleInv, [Next]_vars PROVE OracleInv'
  OBVIOUS
<1>1. CASE UNCHANGED vars
  <2>1. UNCHANGED <<block, attestors, prices, pending, submitted, bundleDecimals>>
    BY <1>1 DEF vars, bundleVars
  <2>2. TypeOK' /\ SignersAreAttestors' /\ FeedsAreDated' /\ PriceHasQuorum'
    BY <2>1 DEF OracleInv, TypeOK, SignersAreAttestors, FeedsAreDated, PriceHasQuorum, Signers
  <2> QED
    BY <2>1, <2>2, RowsUnmoved DEF OracleInv
<1>2. CASE NextBlock
  <2>1. UNCHANGED <<attestors, prices, pending, submitted, bundleDecimals>>
    BY <1>2 DEF NextBlock, bundleVars
  <2>2. block' \in Blocks /\ block <= block' /\ block \in Nat /\ block' \in Nat
    BY <1>2, OracleAssumption DEF NextBlock, OracleInv, TypeOK, Blocks
  <2>3. TypeOK'
    BY <2>1, <2>2 DEF OracleInv, TypeOK
  <2>4. FeedsAreDated'
    <3>1. \A q \in DOMAIN prices : prices[q].block \in Nat
      BY OracleAssumption DEF OracleInv, TypeOK, PriceFeed, Blocks
    <3> QED
      BY <2>1, <2>2, <3>1 DEF OracleInv, FeedsAreDated
  <2>5. SignersAreAttestors' /\ PriceHasQuorum'
    BY <2>1 DEF OracleInv, SignersAreAttestors, PriceHasQuorum, Signers
  <2> QED
    BY <2>1, <2>3, <2>4, <2>5, RowsUnmoved DEF OracleInv
<1>3. ASSUME NEW p \in Pairs, NEW k \in Keys, RegisterAttestor(p, k) PROVE OracleInv'
  <2>1. UNCHANGED <<block, prices, pending, submitted, bundleDecimals>>
    BY <1>3 DEF RegisterAttestor, bundleVars
  <2>2. /\ attestors' \in [Pairs -> SUBSET Keys]
        /\ \A q \in Pairs : attestors[q] \subseteq attestors'[q]
    BY <1>3 DEF RegisterAttestor, OracleInv, TypeOK
  <2>3. TypeOK'
    BY <2>1, <2>2 DEF OracleInv, TypeOK
  <2>4. PriceHasQuorum'
    <3>1. DOMAIN prices \subseteq Pairs
      BY DEF OracleInv, TypeOK, IsMap
    <3> QED
      BY <2>1, <2>2, <3>1 DEF OracleInv, PriceHasQuorum
  <2>5. SignersAreAttestors'
    <3> SUFFICES ASSUME NEW c \in Pairs \X Slots PROVE Signers(pending[c]) \subseteq attestors'[c[1]]
      BY <2>1 DEF SignersAreAttestors, Signers
    <3>1. Signers(pending[c]) \subseteq attestors[c[1]] /\ c[1] \in Pairs
      BY DEF OracleInv, SignersAreAttestors
    <3> QED
      BY <2>2, <3>1
  <2>6. FeedsAreDated'
    BY <2>1 DEF OracleInv, FeedsAreDated
  <2> QED
    BY <2>1, <2>3, <2>4, <2>5, <2>6, RowsUnmoved DEF OracleInv
<1>4. ASSUME NEW p \in Pairs, NEW k \in Keys, NEW slot \in Slots,
             SubmitHonestPrice(p, slot, k)
      PROVE  OracleInv'
  <2>1. Seen[<<k, slot>>] \in PriceValues /\ SeenDecimals \in DecimalsInputs
    BY <1>4, OracleAssumption DEF SubmitHonestPrice, PriceValues
  <2> QED
    BY <1>4, <2>1, SubmitStep DEF SubmitHonestPrice
<1>5. ASSUME NEW p \in Pairs, NEW k \in Keys, NEW slot \in Slots,
             NEW price \in OtherPrices, NEW decimals \in DecimalsInputs,
             SubmitOtherPrice(p, price, decimals, slot, k)
      PROVE  OracleInv'
  <2>1. price \in PriceValues
    BY DEF PriceValues
  <2> QED
    BY <1>5, <2>1, SubmitStep DEF SubmitOtherPrice
<1> QED
  BY <1>1, <1>2, <1>3, <1>4, <1>5 DEF Next

\* The invariant holds in every reachable state.
LEMMA OracleInvariant == Spec => []OracleInv
  BY OracleInit, OracleStep, PTL DEF Spec

(***************************************************************************)
(* The properties.                                                         *)
(***************************************************************************)
\* Types, among them that every price is a natural: a bundle always has a
\* median to write.
THEOREM OracleTypes == Spec => []TypeOK
<1>1. OracleInv => TypeOK
  BY DEF OracleInv
<1> QED
  BY <1>1, OracleInvariant, PTL

\* The idempotency rows are the signers of the open bundles, each once, and a
\* bundle never stays open at the threshold.
THEOREM BundlesAccounted == Spec => []BundlesAreAccountedFor
<1>1. OracleInv => BundlesAreAccountedFor
  BY DEF OracleInv
<1> QED
  BY <1>1, OracleInvariant, PTL

\* A price rests on exactly the threshold of different attestors of the pair.
THEOREM QuorumBehindPrices == Spec => []PriceHasQuorum
<1>1. OracleInv => PriceHasQuorum
  BY DEF OracleInv
<1> QED
  BY <1>1, OracleInvariant, PTL

\* With the honest in the majority of a bundle, the median lies between two
\* prices that honest attestors saw, whatever the others sign.
THEOREM PricesBracketed == Spec => []PriceIsBracketed
<1>1. OracleInv => PriceIsBracketed
  BY DEF OracleInv
<1> QED
  BY <1>1, OracleInvariant, PTL

\* A feed that passes for fresh was written and observed recently.
THEOREM FreshFeedsAreRecent == Spec => []FreshIsRecent
<1>1. OracleInv => FreshIsRecent
  <2> SUFFICES ASSUME OracleInv, NEW p \in Pairs, IsPriceFresh(p, block, MaxAge)
               PROVE  /\ block - prices[p].block <= MaxAge + MaxFutureSlots
                      /\ prices[p].slot <= block + MaxFutureSlots
    BY DEF FreshIsRecent
  <2>1. p \in DOMAIN prices /\ block - prices[p].slot <= MaxAge
    BY DEF IsPriceFresh
  <2>2. /\ prices[p].block <= block
        /\ prices[p].slot <= prices[p].block + MaxFutureSlots
    BY <2>1 DEF OracleInv, FeedsAreDated
  <2>3. block \in Nat /\ MaxAge \in Nat /\ MaxFutureSlots \in Nat
        /\ prices[p].block \in Nat /\ prices[p].slot \in Nat
    BY <2>1, OracleAssumption DEF OracleInv, TypeOK, PriceFeed, Blocks, Slots
  <2> QED
    BY <2>1, <2>2, <2>3
<1> QED
  BY <1>1, OracleInvariant, PTL

\* No step moves a feed to a slot that is not later, or removes it.
THEOREM FeedsNeverRewind == Spec => FeedNeverRewinds
<1> DEFINE Forward == \A p \in DOMAIN prices :
             p \in DOMAIN prices' /\ (prices'[p] # prices[p] => prices'[p].slot > prices[p].slot)
<1>1. ASSUME NEW p \in Pairs, NEW slot, NEW k, NEW price, NEW decimals,
             SubmitPrice(p, price, decimals, slot, k)
      PROVE  Forward
  <2> DEFINE b == <<p, slot>>
             bundle == Append(pending[b], [pubkey |-> k, price |-> price])
             row == [price |-> Median(bundle), decimals |-> decimals, slot |-> slot,
                     block |-> block, attestorSet |-> Signers(bundle)]
  <2>1. CASE Buffer(b, k, decimals, bundle)
    BY <2>1 DEF Buffer
  <2>2. CASE Aggregate(b, k, decimals, bundle)
    <3>1. prices' = Put(prices, Entry(p, row))
      BY <2>2 DEF Aggregate
    <3>2. row.slot = slot /\ (p \in DOMAIN prices => slot > prices[p].slot)
      BY <1>1 DEF SubmitPrice, AfterLastUpdate
    <3> HIDE DEF row
    <3> QED
      BY <3>1, <3>2 DEF Put, Entry
  <2> QED
    BY <1>1, <2>1, <2>2 DEF SubmitPrice
<1>2. [Next]_vars => Forward
  <2>1. UNCHANGED prices => Forward
    OBVIOUS
  <2>2. UNCHANGED vars \/ NextBlock \/ (\E p \in Pairs, k \in Keys : RegisterAttestor(p, k))
          => UNCHANGED prices
    BY DEF vars, NextBlock, RegisterAttestor
  <2> QED
    BY <1>1, <2>1, <2>2 DEF Next, SubmitHonestPrice, SubmitOtherPrice
<1>3. [Next]_vars =>
        [\A p \in DOMAIN prices :
           /\ p \in DOMAIN prices'
           /\ prices'[p] # prices[p] => prices'[p].slot > prices[p].slot]_vars
  BY <1>2
<1> QED
  BY <1>3, PTL DEF Spec, FeedNeverRewinds

=============================================================================
