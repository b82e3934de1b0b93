-------------------------- MODULE RemoteCacheProofs --------------------------
(* Theorems about what a repository remembers of a remote: sequences in the *)
(* order of positions, the search in the cached log, and what replacing the *)
(* end of that log leaves in the tables of the cache.                       *)
EXTENDS RemoteCache, FiniteSetTheorems, TLAPS

-----------------------------------------------------------------------------
(* Numbers in ascending order *)

LEMMA FirstOfSet ==
  ASSUME NEW S \in SUBSET Nat, S # {}
  PROVE  FirstOf(S) \in S /\ \A y \in S : FirstOf(S) =< y
<1>0. \A x \in S : x \in Nat /\ x \in Int
  OBVIOUS
<1>1. PICK x \in S : \A y \in S : ~ (<<y, x>> \in OpToRel(<, Nat))
  BY NatLessThanWellFounded, WFMin
<1>2. ASSUME NEW y \in S PROVE x =< y
  <2>1. ~ (<<y, x>> \in {ss \in Nat \X Nat : ss[1] < ss[2]})
    BY <1>1 DEF OpToRel
  <2>2. ~ (y < x)
    BY <1>0, <2>1
  <2> QED BY <1>0, <2>2
<1> QED BY <1>2 DEF FirstOf

(* The rank of a number in a set: how many are not above it. *)
Rank(S, x) == Cardinality({y \in S : y =< x})

LEMMA RankIs ==
  ASSUME NEW S \in SUBSET Nat, IsFiniteSet(S)
  PROVE  /\ \A x \in S : Rank(S, x) \in 1 .. Cardinality(S)
         /\ \A x \in S, z \in S : x < z <=> Rank(S, x) < Rank(S, z)
         /\ \A i \in 1 .. Cardinality(S) : \E x \in S : Rank(S, x) = i
<1> DEFINE upto(x) == {y \in S : y =< x}
           n == Cardinality(S)
<1>0. \A x \in S : x \in Nat /\ x \in Int
  OBVIOUS
<1>1. n \in Nat
  BY FS_CardinalityType
<1>2. ASSUME NEW x \in S
      PROVE  IsFiniteSet(upto(x)) /\ Rank(S, x) = Cardinality(upto(x)) /\ Rank(S, x) \in 1 .. n
  <2>1. upto(x) \in SUBSET S /\ x \in upto(x)
    OBVIOUS
  <2>2. IsFiniteSet(upto(x)) /\ Cardinality(upto(x)) =< n
    BY <2>1, FS_Subset
  <2>3. Cardinality(upto(x)) \in Nat /\ Cardinality(upto(x)) # 0
    BY <2>1, <2>2, FS_CardinalityType, FS_EmptySet
  <2> QED BY <1>1, <2>2, <2>3 DEF Rank
<1>3. ASSUME NEW x \in S, NEW z \in S, x < z PROVE Rank(S, x) < Rank(S, z)
  <2>0. z \in upto(z) /\ z \notin upto(x) /\ \A y \in S : y =< x => y =< z
    BY <1>0, <1>3
  <2>1. upto(x) \in SUBSET upto(z) /\ z \in upto(z) /\ z \notin upto(x)
    BY <2>0
  <2>2. Cardinality(upto(x)) =< Cardinality(upto(z)) /\ Cardinality(upto(x)) # Cardinality(upto(z))
    BY <1>2, <2>1, FS_Subset
  <2> QED BY <1>2, <2>2
<1>4. \A x \in S, z \in S : x < z <=> Rank(S, x) < Rank(S, z)
  <2> SUFFICES ASSUME NEW x \in S, NEW z \in S, Rank(S, x) < Rank(S, z) PROVE x < z
    BY <1>3
  <2>1. x = z \/ z < x \/ x < z
    OBVIOUS
  <2>2. Rank(S, x) \in Int /\ Rank(S, z) \in Int
    <3>1. Rank(S, x) \in 1 .. n /\ Rank(S, z) \in 1 .. n
      BY <1>2
    <3> QED BY <1>1, <3>1
  <2>3. z < x => Rank(S, z) < Rank(S, x)
    BY <1>3
  <2> QED BY <2>1, <2>2, <2>3
<1>5. ASSUME NEW i \in 1 .. n PROVE \E x \in S : Rank(S, x) = i
  <2> DEFINE f == [x \in S |-> Rank(S, x)]
  <2>1. f \in [S -> 1 .. n]
    BY <1>2
  <2>2. ASSUME NEW x \in S, NEW z \in S, f[x] = f[z] PROVE x = z
    <3>1. x = z \/ z < x \/ x < z
      OBVIOUS
    <3>2. Rank(S, x) = Rank(S, z) /\ Rank(S, x) \in 1 .. n
      BY <1>2, <2>2
    <3>3. Rank(S, x) \in Int
      BY <1>1, <3>2
    <3> QED BY <1>3, <3>1, <3>2, <3>3
  <2>3. f \in Injection(S, 1 .. n)
    BY <2>1, <2>2 DEF Injection, IsInjective
  <2>4. IsFiniteSet(1 .. n) /\ Cardinality(1 .. n) = n
    BY <1>1, FS_Interval
  <2>5. f \in Surjection(S, 1 .. n)
    BY <2>3, <2>4, FS_Injection
  <2> QED BY <2>5 DEF Surjection
<1> QED BY <1>2, <1>4, <1>5

LEMMA AscendingIs ==
  ASSUME NEW S \in SUBSET Nat, IsFiniteSet(S)
  PROVE  /\ Cardinality(S) \in Nat
         /\ Ascending(S) \in [1 .. Cardinality(S) -> S]
         /\ \A i \in 1 .. Cardinality(S), j \in 1 .. Cardinality(S) :
              i < j <=> Ascending(S)[i] < Ascending(S)[j]
         /\ \A x \in S : \E i \in 1 .. Cardinality(S) : Ascending(S)[i] = x
<1> DEFINE n == Cardinality(S)
           at(i) == CHOOSE x \in S : Rank(S, x) = i
<1>0. \A x \in S : x \in Nat /\ x \in Int
  OBVIOUS
<1>1. n \in Nat
  BY FS_CardinalityType
<1>2. Ascending(S) = [i \in 1 .. n |-> at(i)]
  BY DEF Ascending, Rank
<1>3. \A i \in 1 .. n : at(i) \in S /\ Rank(S, at(i)) = i
  BY RankIs
<1>4. \A i \in 1 .. n, j \in 1 .. n : i < j <=> at(i) < at(j)
  <2> HIDE DEF at
  <2> SUFFICES ASSUME NEW i \in 1 .. n, NEW j \in 1 .. n PROVE i < j <=> at(i) < at(j)
    OBVIOUS
  <2>1. at(i) \in S /\ at(j) \in S /\ Rank(S, at(i)) = i /\ Rank(S, at(j)) = j
    BY <1>3
  <2>2. at(i) < at(j) <=> Rank(S, at(i)) < Rank(S, at(j))
    BY <2>1, RankIs
  <2> QED BY <2>1, <2>2
<1>5. ASSUME NEW x \in S PROVE \E i \in 1 .. n : at(i) = x
  <2>1. Rank(S, x) \in 1 .. n
    BY RankIs
  <2>2. at(Rank(S, x)) \in S /\ Rank(S, at(Rank(S, x))) = Rank(S, x)
    BY <1>3, <2>1
  <2> HIDE DEF at
  <2> DEFINE z == at(Rank(S, x))
  <2>3. z \in S /\ Rank(S, z) = Rank(S, x)
    BY <2>2
  <2>4. Rank(S, x) \in Int /\ x \in Int /\ z \in Int
    <3>1. Rank(S, x) \in Int
      BY <1>1, <2>1
    <3> HIDE DEF z
    <3> QED BY <1>0, <2>3, <3>1
  <2> HIDE DEF z
  <2>5. (x < z <=> Rank(S, x) < Rank(S, z)) /\ (z < x <=> Rank(S, z) < Rank(S, x))
    BY <2>3, RankIs
  <2>6. z = x
    BY <2>3, <2>4, <2>5
  <2> QED BY <2>1, <2>6 DEF z
<1> HIDE DEF at
<1> QED BY <1>1, <1>2, <1>3, <1>4, <1>5

LEMMA LastOfSet ==
  ASSUME NEW S \in SUBSET Nat, IsFiniteSet(S), S # {}
  PROVE  LastOf(S) \in S /\ \A y \in S : y =< LastOf(S)
<1> DEFINE n == Cardinality(S)
           top == Ascending(S)[n]
<1>0. \A x \in S : x \in Nat /\ x \in Int
  OBVIOUS
<1>1. n \in Nat /\ n # 0
  BY FS_CardinalityType, FS_EmptySet
<1>2. top \in S /\ n \in 1 .. n
  BY <1>1, AscendingIs
<1>3. ASSUME NEW y \in S PROVE y =< top
  <2>1. PICK i \in 1 .. n : Ascending(S)[i] = y
    BY AscendingIs
  <2>2. ~ (n < i)
    BY <1>1, <2>1
  <2>3. n < i <=> top < y
    BY <1>2, <2>1, AscendingIs
  <2>4. top \in Int /\ y \in Int
    BY <1>0, <1>2
  <2> HIDE DEF top
  <2> QED BY <2>2, <2>3, <2>4
<1> HIDE DEF top
<1> QED BY <1>2, <1>3 DEF LastOf

(* The values of a table, once for each key, in the order of the keys. *)
LEMMA InOrderIs ==
  ASSUME NEW db, DOMAIN db \in SUBSET Nat, IsFiniteSet(DOMAIN db)
  PROVE  /\ Cardinality(DOMAIN db) \in Nat
         /\ InOrder(db) = [i \in 1 .. Cardinality(DOMAIN db) |-> db[Ascending(DOMAIN db)[i]]]
         /\ Len(InOrder(db)) = Cardinality(DOMAIN db)
         /\ DOMAIN InOrder(db) = 1 .. Cardinality(DOMAIN db)
         /\ {InOrder(db)[i] : i \in DOMAIN InOrder(db)} = {db[k] : k \in DOMAIN db}
<1> DEFINE n == Cardinality(DOMAIN db)
           up == Ascending(DOMAIN db)
<1>1. n \in Nat /\ up \in [1 .. n -> DOMAIN db] /\ \A k \in DOMAIN db : \E i \in 1 .. n : up[i] = k
  BY AscendingIs
<1>2. InOrder(db) = [i \in 1 .. n |-> db[up[i]]]
  BY <1>1 DEF InOrder
<1> HIDE DEF n, up
<1>3. InOrder(db) \in Seq({db[k] : k \in DOMAIN db})
  BY <1>1, <1>2
<1>4. DOMAIN InOrder(db) = 1 .. n /\ Len(InOrder(db)) = n
  BY <1>1, <1>2, <1>3
<1>5. {InOrder(db)[i] : i \in DOMAIN InOrder(db)} = {db[k] : k \in DOMAIN db}
  <2>1. {InOrder(db)[i] : i \in 1 .. n} = {db[up[i]] : i \in 1 .. n}
    BY <1>2
  <2>2. {db[up[i]] : i \in 1 .. n} = {db[k] : k \in DOMAIN db}
    BY <1>1
  <2> QED BY <1>4, <2>1, <2>2
<1> QED BY <1>1, <1>2, <1>4, <1>5 DEF n, up

-----------------------------------------------------------------------------
(* Tables with several positions for a key *)

Of(pairs, x) == {p \in pairs : p[1] = x}
Times(val, x) == {k \in DOMAIN val : val[k] = x}

Keyed(pairs) == IsFiniteSet(pairs) /\ \A p \in pairs : p = <<p[1], p[2]>> /\ p[2] \in Nat

(* No key has more pairs in the table than times it is in the log. *)
Counted(pairs, val) == \A x : Cardinality(Of(pairs, x)) =< Cardinality(Times(val, x))

LEMMA FiniteParts ==
  ASSUME NEW pairs, Keyed(pairs), NEW val, IsFiniteSet(DOMAIN val), NEW x
  PROVE  /\ IsFiniteSet(Of(pairs, x)) /\ Cardinality(Of(pairs, x)) \in Nat
         /\ IsFiniteSet(Times(val, x)) /\ Cardinality(Times(val, x)) \in Nat
<1>1. Of(pairs, x) \in SUBSET pairs /\ Times(val, x) \in SUBSET DOMAIN val
  BY DEF Of, Times
<1>2. IsFiniteSet(Of(pairs, x)) /\ IsFiniteSet(Times(val, x))
  BY <1>1, FS_Subset DEF Keyed
<1> QED BY <1>2, FS_CardinalityType

(* What is left when the first pairs of a key are deleted, as many as it   *)
(* is times gone.                                                          *)
LEMMA DelFirstsIs ==
  ASSUME NEW pairs, Keyed(pairs), NEW gone, IsFiniteSet(DOMAIN gone), NEW x
  PROVE  /\ Keyed(DelFirsts(pairs, gone))
         /\ Cardinality(Of(DelFirsts(pairs, gone), x)) = 0
            \/ Cardinality(Of(DelFirsts(pairs, gone), x))
                 =< Cardinality(Of(pairs, x)) - Cardinality(Times(gone, x))
         /\ Times(gone, x) = {} => Of(DelFirsts(pairs, gone), x) = Of(pairs, x)
<1> DEFINE left == DelFirsts(pairs, gone)
           lower(p) == {q \in pairs : q[1] = p[1] /\ q[2] < p[2]}
           b == Cardinality(Of(pairs, x))
           g == Cardinality(Times(gone, x))
<1>1. left = {p \in pairs : Cardinality(lower(p)) >= Cardinality(Times(gone, p[1]))}
  BY DEF DelFirsts, Times
<1>2. left \subseteq pairs /\ Keyed(left)
  <2>1. left \in SUBSET pairs
    BY <1>1
  <2> QED BY <2>1, FS_Subset DEF Keyed
<1>3. b \in Nat /\ g \in Nat /\ IsFiniteSet(Of(pairs, x))
  BY FiniteParts
<1>4. ASSUME NEW p \in Of(pairs, x)
      PROVE  /\ Cardinality(lower(p)) \in 0 .. b - 1 /\ IsFiniteSet(lower(p))
             /\ lower(p) \subseteq Of(pairs, x) /\ p \notin lower(p)
  <2>1. lower(p) \in SUBSET Of(pairs, x) /\ p \in Of(pairs, x) /\ p \notin lower(p)
    BY DEF Of, Keyed
  <2>2. IsFiniteSet(lower(p)) /\ Cardinality(lower(p)) =< b /\ Cardinality(lower(p)) # b
    BY <1>3, <2>1, FS_Subset
  <2>3. Cardinality(lower(p)) \in Nat
    BY <2>2, FS_CardinalityType
  <2> QED BY <1>3, <2>1, <2>2, <2>3
<1>5. ASSUME NEW p \in Of(pairs, x), NEW q \in Of(pairs, x), p[2] < q[2]
      PROVE  Cardinality(lower(p)) < Cardinality(lower(q))
  <2>0. p[1] = x /\ q[1] = x /\ p[2] \in Nat /\ q[2] \in Nat /\ \A r \in pairs : r[2] \in Nat
    BY DEF Of, Keyed
  <2>1. \A r \in pairs : r[2] < p[2] => r[2] < q[2]
    BY <1>5, <2>0
  <2>2. lower(p) \subseteq lower(q) /\ p \in lower(q) /\ p \notin lower(p)
    BY <1>4, <1>5, <2>0, <2>1 DEF Of
  <2>3. lower(p) \in SUBSET lower(q) /\ lower(p) # lower(q)
    BY <2>2
  <2>4. IsFiniteSet(lower(q)) /\ Cardinality(lower(p)) \in Int /\ Cardinality(lower(q)) \in Int
    BY <1>3, <1>4
  <2> HIDE DEF lower
  <2>5. Cardinality(lower(p)) =< Cardinality(lower(q)) /\ Cardinality(lower(p)) # Cardinality(lower(q))
    BY <2>3, <2>4, FS_Subset
  <2> QED BY <2>4, <2>5
<1>6. Cardinality(Of(left, x)) = 0 \/ Cardinality(Of(left, x)) =< b - g
  <2> DEFINE f == [p \in Of(left, x) |-> Cardinality(lower(p))]
  <2>1. \A p \in Of(left, x) : p \in Of(pairs, x) /\ Cardinality(lower(p)) >= g
    BY <1>1 DEF Of
  <2>2. \A p \in Of(left, x) : f[p] \in g .. b - 1
    <3> SUFFICES ASSUME NEW p \in Of(left, x) PROVE Cardinality(lower(p)) \in g .. b - 1
      OBVIOUS
    <3>1. Cardinality(lower(p)) \in 0 .. b - 1 /\ Cardinality(lower(p)) >= g
      BY <1>4, <2>1
    <3> HIDE DEF lower
    <3> QED BY <1>3, <3>1
  <2>3. ASSUME NEW p \in Of(left, x), NEW q \in Of(left, x), f[p] = f[q] PROVE p = q
    <3>1. p \in Of(pairs, x) /\ q \in Of(pairs, x)
      BY <2>1
    <3>2. Cardinality(lower(p)) = Cardinality(lower(q)) /\ Cardinality(lower(p)) \in 0 .. b - 1
      BY <1>4, <2>3, <3>1
    <3>3. ~ (p[2] < q[2]) /\ ~ (q[2] < p[2])
      <4>1. Cardinality(lower(p)) \in Int
        BY <1>3, <3>2
      <4> HIDE DEF lower
      <4> QED BY <1>5, <3>1, <3>2, <4>1
    <3>4. p[1] = x /\ q[1] = x /\ p[2] \in Nat /\ q[2] \in Nat /\ p = <<p[1], p[2]>> /\ q = <<q[1], q[2]>>
      BY <3>1 DEF Of, Keyed
    <3> QED BY <3>3, <3>4
  <2>4. f \in Injection(Of(left, x), g .. b - 1)
    BY <2>2, <2>3 DEF Injection, IsInjective
  <2> HIDE DEF f
  <2>5. IsFiniteSet(g .. b - 1) /\ Cardinality(g .. b - 1) = IF g > b - 1 THEN 0 ELSE b - 1 - g + 1
    <3>1. g \in Int /\ b - 1 \in Int
      BY <1>3
    <3> HIDE DEF b, g
    <3> QED BY <3>1, FS_Interval
  <2>6. Cardinality(Of(left, x)) =< Cardinality(g .. b - 1) /\ Cardinality(Of(left, x)) \in Nat
    BY <2>4, <2>5, FS_Injection, FS_CardinalityType
  <2> QED BY <1>3, <2>5, <2>6
<1>7. ASSUME Times(gone, x) = {} PROVE Of(left, x) = Of(pairs, x)
  <2>1. g = 0
    BY <1>7, FS_EmptySet
  <2>2. ASSUME NEW p \in Of(pairs, x) PROVE p \in left
    <3>1. Cardinality(lower(p)) \in 0 .. b - 1 /\ p[1] = x /\ p \in pairs
      BY <1>4 DEF Of
    <3> HIDE DEF lower
    <3>2. Cardinality(lower(p)) >= 0
      BY <1>3, <3>1
    <3> QED BY <1>1, <2>1, <3>1, <3>2
  <2> QED BY <1>2, <2>2 DEF Of
<1> QED BY <1>2, <1>6, <1>7

(* The end of a log is replaced: new has the entries from position n on.   *)
Cut(val, n) == [k \in {j \in DOMAIN val : j < n} |-> val[k]]
Rest(val, n) == [k \in {j \in DOMAIN val : j >= n} |-> val[k]]
Joined(val, new) ==
  [k \in DOMAIN val \cup DOMAIN new |-> IF k \in DOMAIN new THEN new[k] ELSE val[k]]
PairsOf(new) == {<<new[k], k>> : k \in DOMAIN new}

LEMMA TableReplaced ==
  ASSUME NEW pairs, Keyed(pairs), NEW val, IsFiniteSet(DOMAIN val), DOMAIN val \subseteq Nat,
         Counted(pairs, val), NEW n \in Nat,
         NEW new, IsFiniteSet(DOMAIN new), \A k \in DOMAIN new : k \in Nat /\ k >= n,
         NEW table, table = DelFirsts(pairs, Rest(val, n)) \cup PairsOf(new)
  PROVE  /\ Keyed(table)
         /\ Counted(table, Joined(Cut(val, n), new))
         /\ \A p \in pairs : Times(Rest(val, n), p[1]) = {} => \E q \in table : q[1] = p[1]
         /\ \A k \in DOMAIN new : \E q \in table : q[1] = new[k]
<1> DEFINE gone == Rest(val, n)
           left == DelFirsts(pairs, gone)
           below == Cut(val, n)
           now == Joined(below, new)
<1>1. /\ IsFiniteSet(DOMAIN gone) /\ IsFiniteSet(DOMAIN below)
      /\ DOMAIN gone \subseteq DOMAIN val /\ DOMAIN below \subseteq DOMAIN val
      /\ DOMAIN gone \cup DOMAIN below = DOMAIN val /\ DOMAIN gone \cap DOMAIN below = {}
      /\ DOMAIN now = DOMAIN below \cup DOMAIN new /\ DOMAIN below \cap DOMAIN new = {}
  <2>1. /\ DOMAIN gone \in SUBSET DOMAIN val /\ DOMAIN below \in SUBSET DOMAIN val
        /\ DOMAIN now = DOMAIN below \cup DOMAIN new
    BY DEF Rest, Cut, Joined
  <2>2. \A k \in DOMAIN val : k \in Nat /\ (k < n <=> ~ (k >= n))
    OBVIOUS
  <2>3. \A k \in DOMAIN new : ~ (k < n)
    OBVIOUS
  <2>4. DOMAIN gone \cup DOMAIN below = DOMAIN val /\ DOMAIN gone \cap DOMAIN below = {}
    BY <2>2 DEF Rest, Cut
  <2>5. DOMAIN below \cap DOMAIN new = {}
    BY <2>3 DEF Cut
  <2> QED BY <2>1, <2>4, <2>5, FS_Subset
<1>2. Keyed(left) /\ left \subseteq pairs
  <2>1. Keyed(left)
    BY <1>1, DelFirstsIs
  <2> QED BY <2>1 DEF DelFirsts
<1>3. IsFiniteSet(PairsOf(new)) /\ \A p \in PairsOf(new) : p = <<p[1], p[2]>> /\ p[2] \in DOMAIN new
  <2> DEFINE f == [p \in PairsOf(new) |-> p[2]]
  <2>1. \A p \in PairsOf(new) : p = <<new[p[2]], p[2]>> /\ p[2] \in DOMAIN new
    BY DEF PairsOf
  <2>2. f \in Injection(PairsOf(new), DOMAIN new)
    BY <2>1 DEF Injection, IsInjective
  <2> QED BY <2>1, <2>2, FS_Injection
<1>4. Keyed(table)
  <2>1. IsFiniteSet(table)
    BY <1>2, <1>3, FS_Union DEF Keyed
  <2> QED BY <1>2, <1>3, <2>1 DEF Keyed
<1>5. ASSUME NEW x
      PROVE  Cardinality(Of(table, x)) =< Cardinality(Times(now, x))
  <2> DEFINE put == Of(PairsOf(new), x)
  <2>1. Of(table, x) = Of(left, x) \cup put
    BY DEF Of
  <2>2. /\ IsFiniteSet(Of(left, x)) /\ Cardinality(Of(left, x)) \in Nat
        /\ IsFiniteSet(put) /\ Cardinality(put) \in Nat
        /\ Cardinality(Of(pairs, x)) \in Nat
    <3>1. Keyed(PairsOf(new))
      BY <1>3 DEF Keyed
    <3> QED BY <1>1, <1>2, <3>1, FiniteParts
  <2>3. Cardinality(Of(table, x)) \in Nat /\ Cardinality(Of(table, x)) =< Cardinality(Of(left, x)) + Cardinality(put)
    <3>1. IsFiniteSet(Of(left, x) \cap put)
      BY <2>2, FS_Intersection
    <3>2. Cardinality(Of(left, x) \cap put) \in Nat
      BY <3>1, FS_CardinalityType
    <3>3. Cardinality(Of(table, x)) = Cardinality(Of(left, x)) + Cardinality(put) - Cardinality(Of(left, x) \cap put)
      BY <2>1, <2>2, FS_Union
    <3>4. Cardinality(Of(table, x)) \in Nat
      BY <1>1, <1>4, FiniteParts
    <3> QED BY <2>2, <3>2, <3>3, <3>4
  <2>4. Cardinality(put) =< Cardinality(Times(new, x))
    <3> DEFINE f == [p \in put |-> p[2]]
    <3>1. \A p \in put : p = <<x, p[2]>> /\ p[2] \in Times(new, x)
      BY DEF PairsOf, Of, Times
    <3>2. f \in Injection(put, Times(new, x))
      BY <3>1 DEF Injection, IsInjective
    <3>3. IsFiniteSet(Times(new, x))
      BY <1>2, FiniteParts
    <3> QED BY <3>2, <3>3, FS_Injection
  <2>5. /\ Times(val, x) = Times(below, x) \cup Times(gone, x)
        /\ Times(below, x) \cap Times(gone, x) = {}
        /\ Times(now, x) = Times(below, x) \cup Times(new, x)
        /\ Times(below, x) \cap Times(new, x) = {}
    <3>1. \A k \in DOMAIN below : below[k] = val[k]
      BY DEF Cut
    <3>2. \A k \in DOMAIN gone : gone[k] = val[k]
      BY DEF Rest
    <3>3. \A k \in DOMAIN now : now[k] = IF k \in DOMAIN new THEN new[k] ELSE below[k]
      BY DEF Joined
    <3> HIDE DEF below, gone, now
    <3> QED BY <1>1, <3>1, <3>2, <3>3 DEF Times
  <2>6. /\ IsFiniteSet(Times(below, x)) /\ Cardinality(Times(below, x)) \in Nat
        /\ IsFiniteSet(Times(gone, x)) /\ Cardinality(Times(gone, x)) \in Nat
        /\ IsFiniteSet(Times(new, x)) /\ Cardinality(Times(new, x)) \in Nat
    BY <1>1, <1>2, FiniteParts
  <2> HIDE DEF below, gone, now
  <2>7. /\ Cardinality(Times(val, x)) = Cardinality(Times(below, x)) + Cardinality(Times(gone, x))
        /\ Cardinality(Times(now, x)) = Cardinality(Times(below, x)) + Cardinality(Times(new, x))
    <3>1. Cardinality({}) = 0
      BY FS_EmptySet
    <3>2. Cardinality(Times(val, x)) = Cardinality(Times(below, x)) + Cardinality(Times(gone, x)) - 0
      <4>1. Cardinality(Times(below, x) \cup Times(gone, x))
              = Cardinality(Times(below, x)) + Cardinality(Times(gone, x))
                - Cardinality(Times(below, x) \cap Times(gone, x))
        BY <2>6, FS_Union
      <4> QED BY <2>5, <3>1, <4>1
    <3>3. Cardinality(Times(now, x)) = Cardinality(Times(below, x)) + Cardinality(Times(new, x)) - 0
      BY <2>5, <2>6, <3>1, FS_Union
    <3> QED BY <2>6, <3>2, <3>3
  <2>8. Cardinality(Of(pairs, x)) =< Cardinality(Times(val, x))
    BY DEF Counted
  <2>9. Cardinality(Of(left, x)) = 0
        \/ Cardinality(Of(left, x)) =< Cardinality(Of(pairs, x)) - Cardinality(Times(gone, x))
    BY <1>1, DelFirstsIs
  <2> HIDE DEF put, left
  <2> QED BY <2>2, <2>3, <2>4, <2>6, <2>7, <2>8, <2>9
<1>6. ASSUME NEW p \in pairs, Times(gone, p[1]) = {} PROVE \E q \in table : q[1] = p[1]
  <2>1. Of(left, p[1]) = Of(pairs, p[1])
    BY <1>1, <1>6, DelFirstsIs
  <2>2. p \in left
    BY <2>1 DEF Of
  <2> QED BY <2>2
<1>7. \A k \in DOMAIN new : \E q \in table : q[1] = new[k]
  <2>1. \A k \in DOMAIN new : <<new[k], k>> \in table
    BY DEF PairsOf
  <2> QED BY <2>1
<1> QED BY <1>4, <1>5, <1>6, <1>7 DEF Counted

-----------------------------------------------------------------------------
(* The search in the cached log *)

(* The positions of a log are numbers below next. *)
Positions(db, next) == next \in Nat /\ DOMAIN db \subseteq 0 .. next - 1

LEMMA PositionsAre ==
  ASSUME NEW db, NEW next, Positions(db, next)
  PROVE  /\ DOMAIN db \subseteq Nat /\ IsFiniteSet(DOMAIN db)
         /\ \A k \in DOMAIN db : k \in Nat /\ k < next
<1>1. next \in Nat /\ IsFiniteSet(0 .. next - 1)
  BY FS_Interval DEF Positions
<1>2. \A k \in DOMAIN db : k \in 0 .. next - 1
  BY DEF Positions
<1>3. \A k \in DOMAIN db : k \in Nat /\ k < next
  BY <1>1, <1>2
<1>4. DOMAIN db \in SUBSET (0 .. next - 1)
  BY <1>2
<1> QED BY <1>1, <1>3, <1>4, FS_Subset

Pairs(c) == (0 .. LastOf(DOMAIN c.remote)) \X DOMAIN c.remote

(* Where the search goes from a pair of positions is closer together.      *)
LEMMA SearchCalls ==
  ASSUME NEW c, NEW next, Positions(c.remote, next),
         NEW a \in Nat, NEW b \in DOMAIN c.remote, <<a, b>> \in Pairs(c), a < b,
         NEW mid, mid = IterKey(c.remote, (a + b) \div 2)
  PROVE  /\ mid \in DOMAIN c.remote /\ mid \in Nat /\ b \in Nat /\ a =< mid /\ mid =< b
         /\ <<mid, b>> \in Pairs(c) /\ <<a, mid>> \in Pairs(c)
<1> DEFINE half == (a + b) \div 2
           S == From(c.remote, half)
<1>1. DOMAIN c.remote \subseteq Nat /\ IsFiniteSet(DOMAIN c.remote) /\ b \in Nat
  BY PositionsAre
<1>2. half \in Nat /\ a =< half /\ half =< b
  BY <1>1
<1>3. S \in SUBSET Nat /\ b \in S /\ \A x \in S : x \in DOMAIN c.remote /\ x >= half
  BY <1>1, <1>2 DEF From
<1> HIDE DEF half, S
<1>4. mid \in S /\ mid =< b
  <2>1. mid = FirstOf(S)
    BY DEF IterKey, half, S
  <2>2. FirstOf(S) \in S /\ \A y \in S : FirstOf(S) =< y
    <3>1. S \in SUBSET Nat /\ S # {}
      BY <1>3
    <3> QED BY <3>1, FirstOfSet
  <2> QED BY <1>3, <2>1, <2>2
<1>5. mid \in DOMAIN c.remote /\ mid \in Nat /\ a =< mid
  BY <1>1, <1>2, <1>3, <1>4
<1>6. LastOf(DOMAIN c.remote) \in Nat /\ mid =< LastOf(DOMAIN c.remote)
  BY <1>1, <1>5, LastOfSet
<1>7. mid \in 0 .. LastOf(DOMAIN c.remote) /\ a \in 0 .. LastOf(DOMAIN c.remote)
  BY <1>5, <1>6 DEF Pairs
<1> QED BY <1>1, <1>4, <1>5, <1>7 DEF Pairs

(* A pair at most m apart. *)
Near(c, m) == {r \in Pairs(c) : r[2] - r[1] =< m}

LEMMA SearchStepFrame ==
  ASSUME NEW c, NEW next, Positions(c.remote, next), NEW answer,
         NEW a \in Nat, NEW b \in DOMAIN c.remote, <<a, b>> \in Pairs(c),
         NEW m \in Int, b - a - 1 =< m,
         NEW f, NEW g, \A r \in Near(c, m) : f[r] = g[r]
  PROVE  SearchStep(c, answer, f, a, b) = SearchStep(c, answer, g, a, b)
<1> DEFINE mid == IterKey(c.remote, (a + b) \div 2)
<1>1. CASE a >= b
  BY <1>1 DEF SearchStep
<1>2. CASE ~ (a >= b)
  <2>0. b \in Nat
    BY PositionsAre
  <2>1. a < b
    BY <1>2, <2>0
  <2>2. /\ mid \in Nat /\ a =< mid /\ mid =< b
        /\ <<mid, b>> \in Pairs(c) /\ <<a, mid>> \in Pairs(c)
    BY <2>1, SearchCalls
  <2> HIDE DEF mid
  <2>3. mid # a => <<mid, b>> \in Near(c, m)
    BY <2>0, <2>2 DEF Near
  <2>4. mid # b => <<a, mid>> \in Near(c, m)
    BY <2>0, <2>2 DEF Near
  <2>5. (mid # a => f[<<mid, b>>] = g[<<mid, b>>]) /\ (mid # b => f[<<a, mid>>] = g[<<a, mid>>])
    BY <2>3, <2>4
  <2>6. \A h : SearchStep(c, answer, h, a, b) =
          IF a >= b THEN a
          ELSE IF Agrees(c, mid, TagFrom(c.tags, mid), answer[mid])
               THEN IF a = mid THEN a + 1 ELSE h[<<mid, b>>]
               ELSE IF b = mid THEN a ELSE h[<<a, mid>>]
    BY DEF SearchStep, mid
  <2> QED BY <2>5, <2>6
<1> QED BY <1>1, <1>2

(* The recursive definition of the search has a solution. *)
LEMMA SearchIs ==
  ASSUME NEW c, NEW next, Positions(c.remote, next), DOMAIN c.remote # {}, NEW answer
  PROVE  \A r \in Pairs(c) :
           Search(c, answer)[r] = SearchStep(c, answer, Search(c, answer), r[1], r[2])
<1> DEFINE Fun(f, D) == [r \in D |-> SearchStep(c, answer, f, r[1], r[2])]
           Bad == {m \in Nat : ~ \E f : f = Fun(f, Near(c, m))}
           last == LastOf(DOMAIN c.remote)
<1>1. DOMAIN c.remote \subseteq Nat /\ last \in DOMAIN c.remote /\ last \in Nat
      /\ \A k \in DOMAIN c.remote : k \in Nat /\ k =< last
  BY PositionsAre, LastOfSet
<1>2. \A r \in Pairs(c) : r = <<r[1], r[2]>> /\ r[1] \in Nat /\ r[2] \in DOMAIN c.remote /\ r[2] \in Nat
  BY <1>1 DEF Pairs
<1>3. Bad = {}
  <2> SUFFICES ASSUME Bad # {} PROVE FALSE
    OBVIOUS
  <2> DEFINE m == FirstOf(Bad)
  <2>1. m \in Bad /\ \A y \in Bad : m =< y
    <3>1. Bad \in SUBSET Nat
      OBVIOUS
    <3> HIDE DEF Bad
    <3> QED BY <3>1, FirstOfSet
  <2>2. m \in Nat /\ ~ \E f : f = Fun(f, Near(c, m))
    BY <2>1
  <2> HIDE DEF m
  <2>3. CASE m = 0
    <3> DEFINE f == [r \in Near(c, m) |-> r[1]]
    <3>1. ASSUME NEW r \in Near(c, m) PROVE SearchStep(c, answer, f, r[1], r[2]) = r[1]
      <4>1. r \in Pairs(c) /\ r[2] - r[1] =< 0
        BY <2>3 DEF Near
      <4>2. r[1] >= r[2]
        BY <1>2, <4>1
      <4> QED BY <4>2 DEF SearchStep
    <3>2. f = Fun(f, Near(c, m))
      <4> HIDE DEF f
      <4>1. f = [r \in Near(c, m) |-> r[1]]
        BY DEF f
      <4> QED BY <3>1, <4>1
    <3> QED BY <2>2, <3>2
  <2>4. CASE m # 0
    <3>1. m - 1 \in Nat /\ m - 1 \notin Bad
      BY <2>1, <2>2, <2>4
    <3>2. PICK f : f = Fun(f, Near(c, m - 1))
      BY <3>1
    <3> DEFINE g == Fun(f, Near(c, m))
    <3>3. \A r \in Near(c, m - 1) : r \in Near(c, m) /\ f[r] = SearchStep(c, answer, f, r[1], r[2])
      <4>1. ASSUME NEW r \in Near(c, m - 1) PROVE r \in Near(c, m)
        <5>1. r \in Pairs(c) /\ r[2] - r[1] =< m - 1
          BY DEF Near
        <5>2. r[2] - r[1] =< m
          BY <1>2, <2>2, <5>1
        <5> QED BY <5>1, <5>2 DEF Near
      <4>2. ASSUME NEW r \in Near(c, m - 1) PROVE f[r] = SearchStep(c, answer, f, r[1], r[2])
        BY <3>2
      <4> QED BY <4>1, <4>2
    <3>4. \A r \in Near(c, m) : g[r] = SearchStep(c, answer, f, r[1], r[2])
      OBVIOUS
    <3> HIDE DEF g
    <3>5. \A r \in Near(c, m - 1) : f[r] = g[r]
      BY <3>3, <3>4
    <3>6. ASSUME NEW r \in Near(c, m)
          PROVE  SearchStep(c, answer, f, r[1], r[2]) = SearchStep(c, answer, g, r[1], r[2])
      <4>1. r \in Pairs(c) /\ r[2] - r[1] =< m
        BY DEF Near
      <4>2. r = <<r[1], r[2]>> /\ r[1] \in Nat /\ r[2] \in DOMAIN c.remote /\ r[2] \in Nat
        BY <1>2, <4>1
      <4>3. r[2] - r[1] - 1 =< m - 1 /\ m - 1 \in Int
        BY <2>2, <4>1, <4>2
      <4> QED BY <3>5, <4>1, <4>2, <4>3, SearchStepFrame
    <3>7. g = Fun(g, Near(c, m))
      BY <3>6 DEF g
    <3> QED BY <2>2, <3>7
  <2> QED BY <2>3, <2>4
<1>4. Near(c, last) = Pairs(c)
  <2>1. ASSUME NEW r \in Pairs(c) PROVE r[2] - r[1] =< last
    BY <1>1, <1>2
  <2> QED BY <2>1 DEF Near
<1>5. \E f : f = Fun(f, Pairs(c))
  BY <1>1, <1>3, <1>4
<1> DEFINE Solves(f) == f = Fun(f, Pairs(c))
<1>6. Solves(CHOOSE f : Solves(f))
  <2> HIDE DEF Solves
  <2>1. \E f : Solves(f)
    BY <1>5 DEF Solves
  <2> QED BY <2>1
<1>7. Search(c, answer) = CHOOSE f : Solves(f)
  BY DEF Search, Pairs
<1>8. Search(c, answer) = Fun(Search(c, answer), Pairs(c))
  BY <1>6, <1>7
<1> QED BY <1>8

(* The search ends at the start, on a position where the remote agreed or  *)
(* just after it.                                                          *)
Agreed(c, answer, k) == k \in DOMAIN c.remote /\ \E t : Agrees(c, k, t, answer[k])
OnAgreed(c, answer, n) ==
  n = 0 \/ \E k \in DOMAIN c.remote : Agreed(c, answer, k) /\ (n = k \/ n = k + 1)

LEMMA SearchAgreed ==
  ASSUME NEW c, NEW next, Positions(c.remote, next), DOMAIN c.remote # {}, NEW answer
  PROVE  \A r \in Pairs(c) : r[1] = 0 \/ Agreed(c, answer, r[1]) =>
           OnAgreed(c, answer, Search(c, answer)[r])
<1> DEFINE From0(r) == r[1] = 0 \/ Agreed(c, answer, r[1])
           Right(r) == From0(r) => OnAgreed(c, answer, Search(c, answer)[r])
           Bad == {m \in Nat : \E r \in Near(c, m) : ~ Right(r)}
           last == LastOf(DOMAIN c.remote)
<1>1. last \in DOMAIN c.remote /\ last \in Nat /\ \A k \in DOMAIN c.remote : k \in Nat /\ k =< last
  BY PositionsAre, LastOfSet
<1>2. \A r \in Pairs(c) : r = <<r[1], r[2]>> /\ r[1] \in Nat /\ r[2] \in DOMAIN c.remote /\ r[2] \in Nat
  BY <1>1 DEF Pairs
<1>3. ASSUME NEW m \in Nat, \A j \in Nat : j < m => j \notin Bad, NEW r \in Near(c, m)
      PROVE  Right(r)
  <2> SUFFICES ASSUME From0(r) PROVE OnAgreed(c, answer, Search(c, answer)[r])
    OBVIOUS
  <2> DEFINE a == r[1]
             b == r[2]
             mid == IterKey(c.remote, (a + b) \div 2)
             search == Search(c, answer)
             yes == Agrees(c, mid, TagFrom(c.tags, mid), answer[mid])
  <2>1. r \in Pairs(c) /\ b - a =< m /\ a \in Nat /\ b \in DOMAIN c.remote /\ b \in Nat /\ r = <<a, b>>
    BY <1>2 DEF Near
  <2>2. search[r] = SearchStep(c, answer, search, a, b)
    BY <2>1, SearchIs
  <2>3. OnAgreed(c, answer, a) /\ (Agreed(c, answer, a) => OnAgreed(c, answer, a + 1))
    BY DEF OnAgreed, Agreed
  <2>4. CASE a >= b
    <3>1. search[r] = a
      BY <2>2, <2>4 DEF SearchStep
    <3> QED BY <2>3, <3>1
  <2>5. CASE ~ (a >= b)
    <3>1. /\ mid \in DOMAIN c.remote /\ mid \in Nat /\ a =< mid /\ mid =< b
          /\ <<mid, b>> \in Pairs(c) /\ <<a, mid>> \in Pairs(c)
      <4>1. a < b
        BY <2>1, <2>5
      <4> QED BY <2>1, <4>1, SearchCalls
    <3>2. search[r] = IF yes THEN IF a = mid THEN a + 1 ELSE search[<<mid, b>>]
                      ELSE IF b = mid THEN a ELSE search[<<a, mid>>]
      BY <2>2, <2>5 DEF SearchStep
    <3>3. yes => Agreed(c, answer, mid)
      BY <3>1 DEF Agreed
    <3> HIDE DEF mid, yes
    <3>4. ASSUME NEW q \in Pairs(c), q[2] - q[1] < m, q[2] - q[1] >= 0 PROVE Right(q)
      <4>1. q[2] - q[1] \in Nat
        BY <1>2, <3>4
      <4>2. q[2] - q[1] \notin Bad
        BY <1>3, <3>4, <4>1
      <4>3. q \in Near(c, q[2] - q[1])
        BY <4>1 DEF Near
      <4> QED BY <4>1, <4>2, <4>3
    <3>5. ASSUME yes, a # mid PROVE OnAgreed(c, answer, search[<<mid, b>>])
      <4>1. b - mid < m /\ b - mid >= 0
        <5>1. a < mid
          BY <2>1, <3>1, <3>5
        <5> HIDE DEF a, b
        <5> QED BY <2>1, <3>1, <5>1
      <4>2. Right(<<mid, b>>)
        <5>1. <<mid, b>>[2] - <<mid, b>>[1] = b - mid
          OBVIOUS
        <5> QED BY <3>1, <3>4, <4>1, <5>1
      <4> QED BY <3>3, <3>5, <4>2
    <3>6. ASSUME ~ yes, b # mid PROVE OnAgreed(c, answer, search[<<a, mid>>])
      <4>1. mid - a < m /\ mid - a >= 0
        BY <2>1, <3>1, <3>6
      <4>2. Right(<<a, mid>>)
        <5>1. <<a, mid>>[2] - <<a, mid>>[1] = mid - a
          OBVIOUS
        <5> QED BY <3>1, <3>4, <4>1, <5>1
      <4>3. <<a, mid>>[1] = a
        OBVIOUS
      <4> QED BY <4>2, <4>3
    <3>7. CASE yes /\ a = mid
      BY <2>3, <3>2, <3>3, <3>7
    <3>8. CASE ~ yes /\ b = mid
      BY <2>3, <3>2, <3>8
    <3> QED BY <3>2, <3>5, <3>6, <3>7, <3>8
  <2> QED BY <2>4, <2>5
<1>4. Bad = {}
  <2> SUFFICES ASSUME Bad # {} PROVE FALSE
    OBVIOUS
  <2>1. FirstOf(Bad) \in Bad /\ \A y \in Bad : FirstOf(Bad) =< y
    <3>1. Bad \in SUBSET Nat
      OBVIOUS
    <3> HIDE DEF Bad
    <3> QED BY <3>1, FirstOfSet
  <2>2. FirstOf(Bad) \in Nat /\ \A j \in Nat : j < FirstOf(Bad) => j \notin Bad
    <3>1. FirstOf(Bad) \in Nat
      BY <2>1
    <3> HIDE DEF Bad
    <3> QED BY <2>1, <3>1
  <2>3. \A r \in Near(c, FirstOf(Bad)) : Right(r)
    <3> HIDE DEF Bad, Right
    <3> QED BY <1>3, <2>2
  <2> QED BY <2>1, <2>3
<1> SUFFICES ASSUME NEW r \in Pairs(c) PROVE Right(r)
  OBVIOUS
<1>5. r[2] - r[1] =< last
  BY <1>1, <1>2
<1>6. r \in Near(c, last)
  BY <1>5 DEF Near
<1> QED BY <1>1, <1>4, <1>6

LEMMA DichotomyAgreed ==
  ASSUME NEW c, NEW next, Positions(c.remote, next), NEW answer
  PROVE  OnAgreed(c, answer, dichotomy_changelist(c, answer))
<1> DEFINE last == LastOf(DOMAIN c.remote)
<1>1. CASE DOMAIN c.remote = {}
  BY <1>1 DEF dichotomy_changelist, OnAgreed
<1>2. CASE DOMAIN c.remote # {}
  <2>1. last \in DOMAIN c.remote /\ last \in Nat
    BY <1>2, PositionsAre, LastOfSet
  <2>2. CASE Agrees(c, last, LastTag(c.tags), answer[last])
    <3>1. dichotomy_changelist(c, answer) = last + 1
      BY <1>2, <2>2 DEF dichotomy_changelist
    <3>2. Agreed(c, answer, last)
      BY <2>1, <2>2 DEF Agreed
    <3> QED BY <2>1, <3>1, <3>2 DEF OnAgreed
  <2>3. CASE ~ Agrees(c, last, LastTag(c.tags), answer[last])
    <3>1. dichotomy_changelist(c, answer) = Search(c, answer)[<<0, last>>]
      BY <1>2, <2>3 DEF dichotomy_changelist
    <3>2. <<0, last>> \in Pairs(c) /\ <<0, last>>[1] = 0
      BY <2>1 DEF Pairs
    <3> QED BY <1>2, <3>1, <3>2, SearchAgreed
  <2> QED BY <2>2, <2>3
<1> QED BY <1>1, <1>2

-----------------------------------------------------------------------------
(* The cache and its remote *)

(* A change is at one position of a log. *)
LogOK(ch) ==
  /\ Positions(ch.log, ch.next)
  /\ \A i \in DOMAIN ch.log, j \in DOMAIN ch.log : ch.log[i] = ch.log[j] => i = j

(* The changes and the states of a cached log, and of the end of a channel. *)
ChangesIn(c) == [k \in DOMAIN c.remote |-> c.remote[k].a]
StatesIn(c) == [k \in DOMAIN c.remote |-> c.remote[k].b]
ChangesFrom(ch, n) == [k \in From(ch.log, n) |-> ch.log[k]]
StatesFrom(ch, n) == [k \in From(ch.log, n) |-> StateAt(ch, k)]

(* What makes a cache worth comparing, whatever was unrecorded meanwhile:  *)
(* its states are those of its own log, the tables of changes and states   *)
(* do not exceed the log, and the remote has no change at a lower position *)
(* than the cache.                                                         *)
CacheOK(c, ch) ==
  /\ c = [remote |-> c.remote, rev |-> c.rev, states |-> c.states, tags |-> c.tags]
  /\ Positions(c.remote, ch.next)
  /\ \A k \in DOMAIN c.remote : c.remote[k].b = {c.remote[j].a : j \in UpTo(c.remote, k)}
  /\ \A k \in DOMAIN c.remote, j \in DOMAIN ch.log : ch.log[j] = c.remote[k].a => j >= k
  /\ \A k \in DOMAIN c.remote : \E p \in c.rev : p[1] = c.remote[k].a
  /\ Keyed(c.rev) /\ Counted(c.rev, ChangesIn(c))
  /\ Keyed(c.states) /\ Counted(c.states, StatesIn(c))

(* The state a remote answers for a position: that at the first position   *)
(* from there on, or else the last.                                        *)
AnswersRight(c, ch, answer) ==
  \A k \in DOMAIN c.remote : answer[k].n # -1 =>
    \E j \in DOMAIN ch.log :
      /\ answer[k].state = StateAt(ch, j)
      /\ \A i \in DOMAIN ch.log : (i =< k => i =< j) /\ (i >= k => j =< i)

LEMMA StateFound ==
  ASSUME NEW ch, LogOK(ch), DOMAIN ch.log # {}, NEW k \in Nat
  PROVE  \E j \in DOMAIN ch.log :
           /\ get_state(ch, k).state = StateAt(ch, j)
           /\ \A i \in DOMAIN ch.log : (i =< k => i =< j) /\ (i >= k => j =< i)
<1> DEFINE S == From(ch.log, k)
<1>1. /\ DOMAIN ch.log \subseteq Nat /\ IsFiniteSet(DOMAIN ch.log)
      /\ \A i \in DOMAIN ch.log : i \in Nat
  BY PositionsAre DEF LogOK
<1>2. get_state(ch, k).state = StateAt(ch, RevIterKey(ch.log, k))
  BY DEF get_state
<1>3. CASE S = {}
  <2>1. RevIterKey(ch.log, k) = LastOf(DOMAIN ch.log)
    BY <1>3 DEF RevIterKey
  <2>2. /\ LastOf(DOMAIN ch.log) \in DOMAIN ch.log
        /\ \A i \in DOMAIN ch.log : i =< LastOf(DOMAIN ch.log)
    BY <1>1, LastOfSet
  <2>3. \A i \in DOMAIN ch.log : ~ (i >= k)
    BY <1>3 DEF From
  <2> QED BY <1>2, <2>1, <2>2, <2>3
<1>4. CASE S # {}
  <2>1. RevIterKey(ch.log, k) = FirstOf(S)
    BY <1>4 DEF RevIterKey, IterKey
  <2>2. FirstOf(S) \in S /\ \A i \in S : FirstOf(S) =< i
    <3>1. S \in SUBSET Nat
      BY <1>1 DEF From
    <3> QED BY <1>4, <3>1, FirstOfSet
  <2>3. FirstOf(S) \in DOMAIN ch.log /\ FirstOf(S) >= k
    BY <2>2 DEF From
  <2>4. \A i \in DOMAIN ch.log : (i =< k => i =< FirstOf(S)) /\ (i >= k => FirstOf(S) =< i)
    <3> SUFFICES ASSUME NEW i \in DOMAIN ch.log
                 PROVE  (i =< k => i =< FirstOf(S)) /\ (i >= k => FirstOf(S) =< i)
      OBVIOUS
    <3>1. i >= k => i \in S
      BY DEF From
    <3>2. i \in Nat /\ FirstOf(S) \in Nat
      BY <1>1, <2>3
    <3> HIDE DEF S
    <3> QED BY <2>2, <2>3, <3>1, <3>2
  <2> HIDE DEF S
  <2> QED BY <1>2, <2>1, <2>3, <2>4
<1> QED BY <1>3, <1>4

LEMMA PathAnswersRight ==
  ASSUME NEW ch, LogOK(ch), NEW c, Positions(c.remote, ch.next)
  PROVE  AnswersRight(c, ch, AnswersOfPath(ch, DOMAIN c.remote))
<1> SUFFICES ASSUME NEW k \in DOMAIN c.remote, AnswersOfPath(ch, DOMAIN c.remote)[k].n # -1
             PROVE  \E j \in DOMAIN ch.log :
                      /\ AnswersOfPath(ch, DOMAIN c.remote)[k].state = StateAt(ch, j)
                      /\ \A i \in DOMAIN ch.log : (i =< k => i =< j) /\ (i >= k => j =< i)
  BY DEF AnswersRight
<1>1. DOMAIN ch.log # {} /\ AnswersOfPath(ch, DOMAIN c.remote)[k] = get_state(ch, k)
  BY DEF AnswersOfPath, NoState
<1>2. k \in Nat
  BY PositionsAre
<1> QED BY <1>1, <1>2, StateFound

LEMMA ServerAnswersRight ==
  ASSUME NEW ch, LogOK(ch), NEW c, Positions(c.remote, ch.next)
  PROVE  AnswersRight(c, ch, AnswersOfServer(ch, DOMAIN c.remote))
<1> SUFFICES ASSUME NEW k \in DOMAIN c.remote, AnswersOfServer(ch, DOMAIN c.remote)[k].n # -1
             PROVE  \E j \in DOMAIN ch.log :
                      /\ AnswersOfServer(ch, DOMAIN c.remote)[k].state = StateAt(ch, j)
                      /\ \A i \in DOMAIN ch.log : (i =< k => i =< j) /\ (i >= k => j =< i)
  BY DEF AnswersRight
<1>1. DOMAIN ch.log # {} /\ AnswersOfServer(ch, DOMAIN c.remote)[k] = get_state(ch, k)
  BY DEF AnswersOfServer, NoState
<1>2. k \in Nat
  BY PositionsAre
<1> QED BY <1>1, <1>2, StateFound

(* What is below a position is the same on both sides, and in every state  *)
(* of the remote from there on.                                            *)
Known(c, n) == {c.remote[k].a : k \in Below(c.remote, n)}
SameBelow(c, ch, n) ==
  /\ Known(c, n) \subseteq On(ch)
  /\ {ch.log[k] : k \in Below(ch.log, n)} \subseteq Known(c, n)
  /\ \A j \in From(ch.log, n) : Known(c, n) \subseteq StateAt(ch, j)

LEMMA DichotomyRight ==
  ASSUME NEW ch, LogOK(ch), NEW c, CacheOK(c, ch), NEW answer, AnswersRight(c, ch, answer)
  PROVE  /\ dichotomy_changelist(c, answer) \in Nat
         /\ SameBelow(c, ch, dichotomy_changelist(c, answer))
<1> DEFINE n == dichotomy_changelist(c, answer)
<1>1. OnAgreed(c, answer, n)
  BY DichotomyAgreed DEF CacheOK
<1>2. (\A k \in DOMAIN c.remote : k \in Nat) /\ (\A i \in DOMAIN ch.log : i \in Nat)
  BY PositionsAre DEF CacheOK, LogOK
<1> HIDE DEF n
<1>3. CASE n = 0
  <2>1. Below(c.remote, n) = {} /\ Below(ch.log, n) = {}
    BY <1>2, <1>3 DEF Below
  <2> QED BY <1>3, <2>1 DEF SameBelow, Known, n
<1>4. CASE \E k \in DOMAIN c.remote : Agreed(c, answer, k) /\ (n = k \/ n = k + 1)
  <2>1. PICK k \in DOMAIN c.remote : Agreed(c, answer, k) /\ (n = k \/ n = k + 1)
    BY <1>4
  <2>2. answer[k].n # -1 /\ answer[k].state = c.remote[k].b
    BY <2>1 DEF Agreed, Agrees
  <2>3. PICK j \in DOMAIN ch.log :
          /\ answer[k].state = StateAt(ch, j)
          /\ \A i \in DOMAIN ch.log : (i =< k => i =< j) /\ (i >= k => j =< i)
    BY <2>2 DEF AnswersRight
  <2>4. k \in Nat /\ n \in Nat /\ j \in Nat
    BY <1>2, <2>1
  <2>5. StateAt(ch, j) = {c.remote[i].a : i \in UpTo(c.remote, k)}
    BY <2>2, <2>3 DEF CacheOK
  <2>6. Known(c, n) \subseteq StateAt(ch, j)
    <3>1. \A i \in DOMAIN c.remote : i < n => i =< k
      BY <1>2, <2>1, <2>4
    <3> QED BY <2>5, <3>1 DEF Known, Below, UpTo
  <2>7. \A i \in DOMAIN ch.log : i >= n => StateAt(ch, j) \subseteq StateAt(ch, i)
    <3> SUFFICES ASSUME NEW i \in DOMAIN ch.log, i >= n PROVE StateAt(ch, j) \subseteq StateAt(ch, i)
      OBVIOUS
    <3>1. i \in Nat /\ i >= k
      BY <1>2, <2>1, <2>4
    <3>2. j =< i
      BY <2>3, <3>1
    <3>3. \A x \in DOMAIN ch.log : x =< j => x =< i
      BY <1>2, <2>4, <3>1, <3>2
    <3> QED BY <3>3 DEF StateAt, UpTo
  <2>8. ASSUME NEW i \in DOMAIN ch.log, i < n PROVE ch.log[i] \in Known(c, n)
    <3>1. i \in Nat /\ i =< k
      BY <1>2, <2>1, <2>4, <2>8
    <3>2. ch.log[i] \in StateAt(ch, j)
      BY <2>3, <3>1 DEF StateAt, UpTo
    <3>3. PICK x \in UpTo(c.remote, k) : ch.log[i] = c.remote[x].a
      BY <2>5, <3>2
    <3>4. x \in DOMAIN c.remote /\ x \in Nat
      BY <1>2 DEF UpTo
    <3>5. i >= x
      BY <3>3, <3>4 DEF CacheOK
    <3>6. x < n
      BY <2>4, <2>8, <3>1, <3>4, <3>5
    <3> QED BY <3>3, <3>4, <3>6 DEF Known, Below
  <2>9. StateAt(ch, j) \subseteq On(ch)
    BY DEF StateAt, UpTo, On
  <2>10. SameBelow(c, ch, n)
    <3>1. \A i \in From(ch.log, n) : Known(c, n) \subseteq StateAt(ch, i)
      BY <2>6, <2>7 DEF From
    <3>2. {ch.log[i] : i \in Below(ch.log, n)} \subseteq Known(c, n)
      BY <2>8 DEF Below
    <3> QED BY <2>6, <2>9, <3>1, <3>2 DEF SameBelow
  <2> QED BY <2>4, <2>10 DEF n
<1> QED BY <1>1, <1>3, <1>4 DEF OnAgreed

(* The parts of the cache whose end is replaced by what the remote has. *)
LEMMA ReplacedIs ==
  ASSUME NEW c, NEW ch, NEW n, CacheOK(c, ch),
         NEW new, new = Replaced(c, n, changelist(ch, n))
  PROVE  /\ new = [remote |-> new.remote, rev |-> new.rev, states |-> new.states, tags |-> new.tags]
         /\ DOMAIN new.remote = Below(c.remote, n) \cup From(ch.log, n)
         /\ \A k \in From(ch.log, n) :
              new.remote[k].a = ch.log[k] /\ new.remote[k].b = StateAt(ch, k)
         /\ \A k \in Below(c.remote, n) : k \notin From(ch.log, n) => new.remote[k] = c.remote[k]
         /\ new.rev = DelFirsts(c.rev, Rest(ChangesIn(c), n)) \cup PairsOf(ChangesFrom(ch, n))
         /\ new.states = DelFirsts(c.states, Rest(StatesIn(c), n)) \cup PairsOf(StatesFrom(ch, n))
         /\ ChangesIn(new) = Joined(Cut(ChangesIn(c), n), ChangesFrom(ch, n))
         /\ StatesIn(new) = Joined(Cut(StatesIn(c), n), StatesFrom(ch, n))
<1> DEFINE as == ChangesIn(c)
           bs == StatesIn(c)
           hs == ChangesFrom(ch, n)
           ms == StatesFrom(ch, n)
           theirs == changelist(ch, n)
           mid == del_remote(c, n)
<1>0. /\ as = [k \in DOMAIN c.remote |-> c.remote[k].a]
      /\ bs = [k \in DOMAIN c.remote |-> c.remote[k].b]
      /\ hs = [k \in From(ch.log, n) |-> ch.log[k]]
      /\ ms = [k \in From(ch.log, n) |-> StateAt(ch, k)]
  BY DEF ChangesIn, StatesIn, ChangesFrom, StatesFrom
<1> HIDE DEF as, bs, hs, ms
<1>1. /\ DOMAIN theirs = From(ch.log, n)
      /\ \A k \in From(ch.log, n) : theirs[k].h = ch.log[k] /\ theirs[k].m = StateAt(ch, k)
  BY DEF changelist
<1>2. /\ mid.remote = [k \in Below(c.remote, n) |-> c.remote[k]]
      /\ mid.rev = DelFirsts(c.rev, [k \in From(c.remote, n) |-> c.remote[k].a])
      /\ mid.states = DelFirsts(c.states, [k \in From(c.remote, n) |-> c.remote[k].b])
  BY DEF del_remote, CacheOK
<1>3. /\ [k \in From(c.remote, n) |-> c.remote[k].a] = Rest(as, n)
      /\ [k \in From(c.remote, n) |-> c.remote[k].b] = Rest(bs, n)
  <2>1. From(c.remote, n) = {j \in DOMAIN as : j >= n} /\ From(c.remote, n) = {j \in DOMAIN bs : j >= n}
    BY <1>0 DEF From
  <2>2. Rest(as, n) = [k \in From(c.remote, n) |-> as[k]] /\ Rest(bs, n) = [k \in From(c.remote, n) |-> bs[k]]
    BY <2>1 DEF Rest
  <2>3. \A k \in From(c.remote, n) : as[k] = c.remote[k].a /\ bs[k] = c.remote[k].b
    BY <1>0 DEF From
  <2> QED BY <2>2, <2>3
<1> HIDE DEF theirs, mid
<1>4. /\ new = [remote |-> new.remote, rev |-> new.rev, states |-> new.states, tags |-> new.tags]
      /\ new.remote = [k \in DOMAIN mid.remote \cup DOMAIN theirs |->
                         IF k \in DOMAIN theirs THEN [a |-> theirs[k].h, b |-> theirs[k].m]
                         ELSE mid.remote[k]]
      /\ new.rev = mid.rev \cup {<<theirs[k].h, k>> : k \in DOMAIN theirs}
      /\ new.states = mid.states \cup {<<theirs[k].m, k>> : k \in DOMAIN theirs}
  BY DEF Replaced, put_remote, theirs, mid
<1>5. DOMAIN new.remote = Below(c.remote, n) \cup From(ch.log, n)
  BY <1>1, <1>2, <1>4
<1>6. /\ \A k \in From(ch.log, n) : new.remote[k].a = ch.log[k] /\ new.remote[k].b = StateAt(ch, k)
      /\ \A k \in Below(c.remote, n) : k \notin From(ch.log, n) => new.remote[k] = c.remote[k]
  <2>1. ASSUME NEW k \in From(ch.log, n)
        PROVE  new.remote[k].a = ch.log[k] /\ new.remote[k].b = StateAt(ch, k)
    <3>1. new.remote[k] = [a |-> theirs[k].h, b |-> theirs[k].m]
      BY <1>1, <1>4
    <3>2. new.remote[k].a = theirs[k].h /\ new.remote[k].b = theirs[k].m
      BY <3>1
    <3> QED BY <1>1, <3>2
  <2>2. ASSUME NEW k \in Below(c.remote, n), k \notin From(ch.log, n)
        PROVE  new.remote[k] = c.remote[k]
    <3>1. new.remote[k] = mid.remote[k]
      BY <1>1, <1>2, <1>4, <2>2
    <3> QED BY <1>2, <3>1
  <2> QED BY <2>1, <2>2
<1>7. PairsOf(hs) = {<<theirs[k].h, k>> : k \in DOMAIN theirs}
      /\ PairsOf(ms) = {<<theirs[k].m, k>> : k \in DOMAIN theirs}
  BY <1>0, <1>1 DEF PairsOf
<1>8. /\ Cut(as, n) = [k \in Below(c.remote, n) |-> c.remote[k].a]
      /\ Cut(bs, n) = [k \in Below(c.remote, n) |-> c.remote[k].b]
  <2>1. Below(c.remote, n) = {j \in DOMAIN as : j < n} /\ Below(c.remote, n) = {j \in DOMAIN bs : j < n}
    BY <1>0 DEF Below
  <2>2. Cut(as, n) = [k \in Below(c.remote, n) |-> as[k]] /\ Cut(bs, n) = [k \in Below(c.remote, n) |-> bs[k]]
    BY <2>1 DEF Cut
  <2>3. \A k \in Below(c.remote, n) : as[k] = c.remote[k].a /\ bs[k] = c.remote[k].b
    BY <1>0 DEF Below
  <2> QED BY <2>2, <2>3
<1>9. [k \in DOMAIN new.remote |-> new.remote[k].a] = Joined(Cut(as, n), hs)
  <2>1. Joined(Cut(as, n), hs) = [k \in DOMAIN new.remote |->
          IF k \in From(ch.log, n) THEN ch.log[k] ELSE Cut(as, n)[k]]
    BY <1>0, <1>5, <1>8 DEF Joined
  <2>2. ASSUME NEW k \in DOMAIN new.remote
        PROVE  new.remote[k].a = IF k \in From(ch.log, n) THEN ch.log[k] ELSE Cut(as, n)[k]
    <3>1. CASE k \in From(ch.log, n)
      BY <1>6, <3>1
    <3>2. CASE k \notin From(ch.log, n)
      <4>1. k \in Below(c.remote, n) /\ new.remote[k] = c.remote[k]
        BY <1>5, <1>6, <3>2
      <4>2. Cut(as, n)[k] = c.remote[k].a
        BY <1>8, <4>1
      <4> QED BY <3>2, <4>1, <4>2
    <3> QED BY <3>1, <3>2
  <2> QED BY <2>1, <2>2
<1>10. [k \in DOMAIN new.remote |-> new.remote[k].b] = Joined(Cut(bs, n), ms)
  <2>1. Joined(Cut(bs, n), ms) = [k \in DOMAIN new.remote |->
          IF k \in From(ch.log, n) THEN StateAt(ch, k) ELSE Cut(bs, n)[k]]
    BY <1>0, <1>5, <1>8 DEF Joined
  <2>2. ASSUME NEW k \in DOMAIN new.remote
        PROVE  new.remote[k].b = IF k \in From(ch.log, n) THEN StateAt(ch, k) ELSE Cut(bs, n)[k]
    <3>1. CASE k \in From(ch.log, n)
      BY <1>6, <3>1
    <3>2. CASE k \notin From(ch.log, n)
      <4>1. k \in Below(c.remote, n) /\ new.remote[k] = c.remote[k]
        BY <1>5, <1>6, <3>2
      <4>2. Cut(bs, n)[k] = c.remote[k].b
        BY <1>8, <4>1
      <4> QED BY <3>2, <4>1, <4>2
    <3> QED BY <3>1, <3>2
  <2> QED BY <2>1, <2>2
<1>11. ChangesIn(new) = Joined(Cut(as, n), hs) /\ StatesIn(new) = Joined(Cut(bs, n), ms)
  BY <1>9, <1>10 DEF ChangesIn, StatesIn
<1> QED BY <1>2, <1>3, <1>4, <1>5, <1>6, <1>7, <1>11 DEF as, bs, hs, ms

(* What a comparison and a list of changes leave is a good cache again,    *)
(* and its log has the changes of the remote.                              *)
LEMMA ReplacedOK ==
  ASSUME NEW ch, LogOK(ch), NEW c, CacheOK(c, ch), NEW n \in Nat, SameBelow(c, ch, n),
         NEW new, new = Replaced(c, n, changelist(ch, n))
  PROVE  CacheOK(new, ch) /\ {new.remote[k].a : k \in DOMAIN new.remote} = On(ch)
<1>0. /\ DOMAIN ChangesIn(c) = DOMAIN c.remote /\ DOMAIN StatesIn(c) = DOMAIN c.remote
      /\ DOMAIN ChangesFrom(ch, n) = From(ch.log, n) /\ DOMAIN StatesFrom(ch, n) = From(ch.log, n)
      /\ \A k \in DOMAIN c.remote : ChangesIn(c)[k] = c.remote[k].a
      /\ \A k \in From(ch.log, n) : ChangesFrom(ch, n)[k] = ch.log[k]
  BY DEF ChangesIn, StatesIn, ChangesFrom, StatesFrom
<1>1. /\ new = [remote |-> new.remote, rev |-> new.rev, states |-> new.states, tags |-> new.tags]
      /\ DOMAIN new.remote = Below(c.remote, n) \cup From(ch.log, n)
      /\ \A k \in From(ch.log, n) : new.remote[k].a = ch.log[k] /\ new.remote[k].b = StateAt(ch, k)
      /\ \A k \in Below(c.remote, n) : k \notin From(ch.log, n) => new.remote[k] = c.remote[k]
      /\ new.rev = DelFirsts(c.rev, Rest(ChangesIn(c), n)) \cup PairsOf(ChangesFrom(ch, n))
      /\ new.states = DelFirsts(c.states, Rest(StatesIn(c), n)) \cup PairsOf(StatesFrom(ch, n))
      /\ ChangesIn(new) = Joined(Cut(ChangesIn(c), n), ChangesFrom(ch, n))
      /\ StatesIn(new) = Joined(Cut(StatesIn(c), n), StatesFrom(ch, n))
  BY ReplacedIs
<1>2. /\ DOMAIN c.remote \subseteq Nat /\ IsFiniteSet(DOMAIN c.remote)
      /\ \A k \in DOMAIN c.remote : k \in Nat /\ k < ch.next
      /\ DOMAIN ch.log \subseteq Nat /\ IsFiniteSet(DOMAIN ch.log)
      /\ \A k \in DOMAIN ch.log : k \in Nat /\ k < ch.next
      /\ ch.next \in Nat
  BY PositionsAre DEF CacheOK, LogOK, Positions
<1>3. /\ \A k \in From(ch.log, n) : k \in DOMAIN ch.log /\ k >= n
      /\ \A k \in DOMAIN ch.log : k \in From(ch.log, n) \/ k < n
      /\ \A k \in Below(c.remote, n) : k \in DOMAIN c.remote /\ k < n /\ k \notin From(ch.log, n)
      /\ \A k \in DOMAIN c.remote : k < n => k \in Below(c.remote, n)
  BY <1>0, <1>2 DEF From, Below
<1>4. IsFiniteSet(From(ch.log, n))
  <2>1. From(ch.log, n) \in SUBSET DOMAIN ch.log
    BY <1>3
  <2> QED BY <1>2, <2>1, FS_Subset
<1>5. Positions(new.remote, ch.next)
  <2>1. \A k \in DOMAIN new.remote : k \in 0 .. ch.next - 1
    BY <1>1, <1>2, <1>3
  <2> QED BY <1>2, <2>1 DEF Positions
<1>6. /\ \A k \in From(ch.log, n) : new.remote[k].a = ch.log[k] /\ new.remote[k].b = StateAt(ch, k)
      /\ \A k \in Below(c.remote, n) : new.remote[k] = c.remote[k]
  BY <1>1, <1>3
<1>7. ASSUME NEW k \in DOMAIN new.remote
      PROVE  new.remote[k].b = {new.remote[j].a : j \in UpTo(new.remote, k)}
  <2>1. CASE k \in Below(c.remote, n)
    <3>1. \A j : j \in UpTo(new.remote, k) <=> j \in UpTo(c.remote, k)
      <4>1. ASSUME NEW j \in UpTo(new.remote, k) PROVE j \in UpTo(c.remote, k)
        <5>1. j \in DOMAIN new.remote /\ j =< k
          BY DEF UpTo
        <5>2. j \notin From(ch.log, n)
          BY <1>2, <1>3, <2>1, <5>1
        <5> QED BY <1>1, <1>3, <5>1, <5>2 DEF UpTo
      <4>2. ASSUME NEW j \in UpTo(c.remote, k) PROVE j \in UpTo(new.remote, k)
        <5>1. j \in DOMAIN c.remote /\ j =< k
          BY DEF UpTo
        <5>2. j \in Below(c.remote, n)
          BY <1>2, <1>3, <2>1, <5>1
        <5> QED BY <1>1, <5>1, <5>2 DEF UpTo
      <4> QED BY <4>1, <4>2
    <3>2. UpTo(new.remote, k) = UpTo(c.remote, k)
      BY <3>1
    <3>3. \A j \in UpTo(c.remote, k) : new.remote[j] = c.remote[j]
      <4> SUFFICES ASSUME NEW j \in UpTo(c.remote, k) PROVE j \in Below(c.remote, n)
        BY <1>6
      <4>1. j \in DOMAIN c.remote /\ j =< k
        BY DEF UpTo
      <4> QED BY <1>2, <1>3, <2>1, <4>1
    <3>4. new.remote[k].b = {c.remote[j].a : j \in UpTo(c.remote, k)}
      BY <1>3, <1>6, <2>1 DEF CacheOK
    <3> QED BY <3>2, <3>3, <3>4
  <2>2. CASE k \in From(ch.log, n)
    <3>1. new.remote[k].b = StateAt(ch, k) /\ k \in DOMAIN ch.log /\ k >= n /\ k \in Nat
      BY <1>2, <1>3, <1>6, <2>2
    <3>2. ASSUME NEW x \in StateAt(ch, k) PROVE x \in {new.remote[j].a : j \in UpTo(new.remote, k)}
      <4>1. PICK i \in DOMAIN ch.log : i =< k /\ x = ch.log[i]
        BY DEF StateAt, UpTo
      <4>2. CASE i \in From(ch.log, n)
        <5>1. i \in UpTo(new.remote, k) /\ new.remote[i].a = x
          BY <1>1, <1>6, <4>1, <4>2 DEF UpTo
        <5> QED BY <5>1
      <4>3. CASE i < n
        <5>1. x \in Known(c, n)
          BY <4>1, <4>3 DEF SameBelow, Below
        <5>2. PICK j \in Below(c.remote, n) : x = c.remote[j].a
          BY <5>1 DEF Known
        <5>3. j \in UpTo(new.remote, k) /\ new.remote[j].a = x
          <6>1. j =< k
            BY <1>2, <1>3, <3>1, <5>2
          <6> QED BY <1>1, <1>6, <5>2, <6>1 DEF UpTo
        <5> QED BY <5>3
      <4> QED BY <1>3, <4>1, <4>2, <4>3
    <3>3. ASSUME NEW j \in UpTo(new.remote, k) PROVE new.remote[j].a \in StateAt(ch, k)
      <4>1. j \in DOMAIN new.remote /\ j =< k
        BY DEF UpTo
      <4>2. CASE j \in From(ch.log, n)
        BY <1>3, <1>6, <4>1, <4>2 DEF StateAt, UpTo
      <4>3. CASE j \in Below(c.remote, n)
        <5>1. new.remote[j].a \in Known(c, n)
          BY <1>6, <4>3 DEF Known
        <5> QED BY <2>2, <5>1 DEF SameBelow
      <4> QED BY <1>1, <4>1, <4>2, <4>3
    <3> QED BY <3>1, <3>2, <3>3
  <2> QED BY <1>1, <2>1, <2>2
<1>8. ASSUME NEW k \in DOMAIN new.remote, NEW j \in DOMAIN ch.log, ch.log[j] = new.remote[k].a
      PROVE  j >= k
  <2>1. CASE k \in Below(c.remote, n)
    <3>1. k \in DOMAIN c.remote /\ ch.log[j] = c.remote[k].a
      BY <1>3, <1>6, <1>8, <2>1
    <3> QED BY <3>1 DEF CacheOK
  <2>2. CASE k \in From(ch.log, n)
    <3>1. k \in DOMAIN ch.log /\ ch.log[j] = ch.log[k]
      BY <1>3, <1>6, <1>8, <2>2
    <3>2. j = k
      BY <3>1 DEF LogOK
    <3> QED BY <1>2, <3>1, <3>2
  <2> QED BY <1>1, <2>1, <2>2
<1>9. /\ Keyed(new.rev)
      /\ Counted(new.rev, ChangesIn(new))
      /\ \A p \in c.rev : Times(Rest(ChangesIn(c), n), p[1]) = {} => \E q \in new.rev : q[1] = p[1]
      /\ \A k \in From(ch.log, n) : \E q \in new.rev : q[1] = ch.log[k]
  <2>1. IsFiniteSet(DOMAIN ChangesIn(c)) /\ DOMAIN ChangesIn(c) \subseteq Nat /\ Keyed(c.rev) /\ Counted(c.rev, ChangesIn(c))
    BY <1>0, <1>2 DEF CacheOK
  <2>2. DOMAIN ChangesFrom(ch, n) = From(ch.log, n) /\ \A k \in From(ch.log, n) : ChangesFrom(ch, n)[k] = ch.log[k]
    BY <1>0
  <2>3. IsFiniteSet(DOMAIN ChangesFrom(ch, n)) /\ \A k \in DOMAIN ChangesFrom(ch, n) : k \in Nat /\ k >= n
    BY <1>2, <1>3, <1>4, <2>2
  <2>4. new.rev = DelFirsts(c.rev, Rest(ChangesIn(c), n)) \cup PairsOf(ChangesFrom(ch, n))
    BY <1>1
  <2>5. /\ Keyed(new.rev) /\ Counted(new.rev, Joined(Cut(ChangesIn(c), n), ChangesFrom(ch, n)))
        /\ \A p \in c.rev : Times(Rest(ChangesIn(c), n), p[1]) = {} => \E q \in new.rev : q[1] = p[1]
        /\ \A k \in DOMAIN ChangesFrom(ch, n) : \E q \in new.rev : q[1] = ChangesFrom(ch, n)[k]
    BY <2>1, <2>3, <2>4, TableReplaced
  <2> QED BY <1>0, <1>1, <2>2, <2>5
<1>10. /\ Keyed(new.states)
       /\ Counted(new.states, StatesIn(new))
  <2>1. IsFiniteSet(DOMAIN StatesIn(c)) /\ DOMAIN StatesIn(c) \subseteq Nat /\ Keyed(c.states) /\ Counted(c.states, StatesIn(c))
    BY <1>0, <1>2 DEF CacheOK
  <2>2. DOMAIN StatesFrom(ch, n) = From(ch.log, n)
    BY <1>0
  <2>3. IsFiniteSet(DOMAIN StatesFrom(ch, n)) /\ \A k \in DOMAIN StatesFrom(ch, n) : k \in Nat /\ k >= n
    BY <1>2, <1>3, <1>4, <2>2
  <2> QED BY <1>1, <2>1, <2>3, TableReplaced
<1>11. ASSUME NEW k \in DOMAIN new.remote PROVE \E p \in new.rev : p[1] = new.remote[k].a
  <2>1. CASE k \in From(ch.log, n)
    BY <1>6, <1>9, <2>1
  <2>2. CASE k \in Below(c.remote, n)
    <3>1. k \in DOMAIN c.remote /\ new.remote[k].a = c.remote[k].a
      BY <1>3, <1>6, <2>2
    <3>2. PICK p \in c.rev : p[1] = c.remote[k].a
      BY <3>1 DEF CacheOK
    <3>3. CASE Times(Rest(ChangesIn(c), n), p[1]) = {}
      <4>1. \E q \in new.rev : q[1] = p[1]
        BY <1>9, <3>3
      <4> QED BY <3>1, <3>2, <4>1
    <3>4. CASE Times(Rest(ChangesIn(c), n), p[1]) # {}
      (* It is also at a position from n on: the remote, that has it, has  *)
      (* it there or above.                                                *)
      <4>1. PICK i \in DOMAIN c.remote : i >= n /\ c.remote[i].a = p[1]
        <5>1. PICK i \in DOMAIN Rest(ChangesIn(c), n) : Rest(ChangesIn(c), n)[i] = p[1]
          BY <3>4 DEF Times
        <5>2. i \in DOMAIN ChangesIn(c) /\ i >= n /\ Rest(ChangesIn(c), n)[i] = ChangesIn(c)[i]
          BY DEF Rest
        <5>3. i \in DOMAIN c.remote /\ ChangesIn(c)[i] = c.remote[i].a
          BY <1>0, <5>2
        <5> QED BY <5>1, <5>2, <5>3
      <4>2. c.remote[k].a \in On(ch)
        BY <2>2 DEF SameBelow, Known
      <4>3. PICK j \in DOMAIN ch.log : ch.log[j] = c.remote[k].a
        BY <4>2 DEF On
      <4>4. j >= i
        BY <3>2, <4>1, <4>3 DEF CacheOK
      <4>5. j \in From(ch.log, n)
        BY <1>2, <1>3, <4>1, <4>3, <4>4
      <4> QED BY <1>9, <3>1, <4>3, <4>5
    <3> QED BY <3>3, <3>4
  <2> QED BY <1>1, <2>1, <2>2
<1>12. {new.remote[k].a : k \in DOMAIN new.remote} = On(ch)
  <2>1. ASSUME NEW k \in DOMAIN new.remote PROVE new.remote[k].a \in On(ch)
    <3>1. CASE k \in From(ch.log, n)
      BY <1>3, <1>6, <3>1 DEF On
    <3>2. CASE k \in Below(c.remote, n)
      BY <1>6, <3>2 DEF SameBelow, Known
    <3> QED BY <1>1, <3>1, <3>2
  <2>2. ASSUME NEW i \in DOMAIN ch.log PROVE \E k \in DOMAIN new.remote : ch.log[i] = new.remote[k].a
    <3>1. CASE i \in From(ch.log, n)
      BY <1>1, <1>6, <3>1
    <3>2. CASE i < n
      <4>1. ch.log[i] \in Known(c, n)
        BY <3>2 DEF SameBelow, Below
      <4> QED BY <1>1, <1>6, <4>1 DEF Known
    <3> QED BY <1>3, <3>1, <3>2
  <2> QED BY <2>1, <2>2 DEF On
<1> QED BY <1>1, <1>5, <1>7, <1>8, <1>9, <1>10, <1>11, <1>12 DEF CacheOK
=============================================================================
