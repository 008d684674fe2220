--------------------------- MODULE BlockCacheProofs ---------------------------
(***************************************************************************)
(* The list and the headers of the buffered block device stay consistent,  *)
(* for every number of buffers and blocks, every byte range and every      *)
(* answer of the device.                                                   *)
(***************************************************************************)
EXTENDS BlockCache, NaturalsInduction, WellFoundedInduction, TLAPS

(* Leaves are for the SMT solver, unless they name another prover. *)
USE SMTT(30)

Fields == {"valid", "dirty", "block_id"}

(* The orders in which the buffers in use could be linked. *)
Orders == [1 .. cache_size -> 0 .. cache_size - 1]

(* The inductive invariant: besides the two properties, the sizes agree,   *)
(* every buffer has a header, and next pointers lead to buffers.           *)
CacheInv ==
  /\ cache_size \in 0 .. CACHE_BLOCKS
  /\ next \in [Buffers -> Buffers \cup {NULL}]
  /\ DOMAIN buf = Buffers
  /\ \A s \in Buffers : DOMAIN buf[s] = Fields
  /\ ListIsPermutation
  /\ NoBlockCachedTwice

LEMMA CacheInit == Init => CacheInv
<1> SUFFICES ASSUME Init PROVE CacheInv
  OBVIOUS
<1>1. cache_size = 0 /\ buffer_head = NULL /\ CACHE_BLOCKS \in Nat \ {0, 1}
  BY BlockCacheAssumption DEF Init
<1>2. ListIsPermutation
  <2> DEFINE u == [k \in 1 .. cache_size |-> 0]
  <2>1. u \in [1 .. cache_size -> 0 .. cache_size - 1]
    BY <1>1
  <2>2. IsList(u)
    BY <1>1 DEF IsList
  <2>. QED
    BY <2>1, <2>2 DEF ListIsPermutation
<1>. QED
  BY <1>1, <1>2 DEF Init, CacheInv, NoBlockCachedTwice, Fresh, Fields, Buffers

(* A set of naturals that is not empty has a least member: what induction  *)
(* along the list rests on.                                                *)
LEMMA Least ==
  ASSUME NEW T \in SUBSET Nat, T # {}
  PROVE  \E x \in T : \A y \in T : x <= y
<1> DEFINE R == {p \in Nat \X Nat : p[1] < p[2]}
<1>1. OpToRel(<, Nat) = R
  BY Zenon DEF OpToRel
<1>2. IsWellFoundedOn(R, Nat)
  BY <1>1, NatLessThanWellFounded, Zenon
<1>3. \A x, y \in Nat : <<x, y>> \in R <=> x < y
  BY Zenon
<1> HIDE DEF R
<1>4. PICK x \in T : \A y \in T : ~(<<y, x>> \in R)
  BY <1>2, WFMin, Zenon
<1>5. ASSUME NEW y \in T PROVE x <= y
  <2>1. ~(y < x)
    BY <1>3, <1>4, Zenon
  <2>. QED
    BY <2>1
<1>. QED
  BY <1>5, Zenon

(* What the list says of the pointers, for a list that is not empty. *)
LEMMA ListFacts ==
  ASSUME CacheInv, NEW u \in Orders, IsList(u), cache_size # 0
  PROVE  /\ buffer_head = u[1]
         /\ \A i \in 1 .. cache_size - 1 : next[u[i]] = u[i + 1]
         /\ next[u[cache_size]] = NULL
         /\ \A i \in 1 .. cache_size : u[i] \in Buffers /\ u[i] \in 0 .. cache_size - 1
<1>1. cache_size \in 1 .. CACHE_BLOCKS /\ CACHE_BLOCKS \in Nat
  BY BlockCacheAssumption DEF CacheInv
<1>. QED
  BY <1>1 DEF IsList, Chain, Orders, Buffers

(* The loop of get_block_buffer visits a prefix of the list. *)
LEMMA WalkIsPrefix ==
  ASSUME CacheInv, NEW u \in Orders, IsList(u),
         NEW k \in 1 .. CACHE_BLOCKS, NEW w \in [1 .. k -> Buffers], Chain(k, w)
  PROVE  /\ k <= cache_size
         /\ \A i \in 1 .. k : w[i] = u[i]
<1> DEFINE n == cache_size
           T == {i \in 1 .. k : ~(i <= n /\ w[i] = u[i])}
<1>1. n \in 0 .. CACHE_BLOCKS /\ CACHE_BLOCKS \in Nat /\ k \in Nat /\ k >= 1
  BY BlockCacheAssumption DEF CacheInv
<1>2. n # 0
  <2>1. w[1] \in Buffers /\ w[1] = buffer_head
    BY <1>1 DEF Chain
  <2>. QED
    BY <2>1 DEF IsList, Buffers, NULL
<1>3. /\ buffer_head = u[1]
      /\ \A i \in 1 .. n - 1 : next[u[i]] = u[i + 1]
      /\ next[u[n]] = NULL
  BY <1>2, ListFacts
<1> HIDE DEF n
<1>4. SUFFICES ASSUME T # {} PROVE FALSE
  <2>1. ASSUME T = {} PROVE k <= n /\ \A i \in 1 .. k : w[i] = u[i]
    <3>1. k \in 1 .. k
      BY <1>1
    <3>. QED
      BY <2>1, <3>1
  <2>. QED
    BY <2>1 DEF n
<1>5. T \in SUBSET Nat
  BY <1>1
<1>6. PICK x \in T : \A y \in T : x <= y
  BY <1>4, <1>5, Least, Zenon
<1>7. x \in 1 .. k /\ ~(x <= n /\ w[x] = u[x])
  BY Zenon
<1>8. x # 1
  BY <1>1, <1>2, <1>3, <1>7 DEF Chain
<1>9. x - 1 \in 1 .. k /\ x - 1 \in 1 .. k - 1 /\ x - 1 + 1 = x
  BY <1>1, <1>7, <1>8
<1>10. x - 1 <= n /\ w[x - 1] = u[x - 1]
  <2>1. x - 1 \notin T
    BY <1>6, <1>9
  <2>. QED
    BY <2>1, <1>9, Zenon
<1>11. next[u[x - 1]] = w[x] /\ w[x] \in Buffers
  BY <1>7, <1>9, <1>10 DEF Chain
<1>12. CASE x - 1 = n
  BY <1>3, <1>11, <1>12 DEF Buffers, NULL
<1>13. CASE x - 1 # n
  <2>1. x - 1 \in 1 .. n - 1 /\ x <= n
    BY <1>1, <1>9, <1>10, <1>13
  <2>. QED
    BY <2>1, <1>3, <1>7, <1>9, <1>11
<1>. QED
  BY <1>12, <1>13

(* What has to be shown of the list after a step. *)
LEMMA NewList ==
  ASSUME NEW n \in Nat \ {0}, cache_size' = n, NEW v \in [1 .. n -> 0 .. n - 1],
         buffer_head' = v[1],
         \A i \in 1 .. n - 1 : next'[v[i]] = v[i + 1],
         next'[v[n]] = NULL,
         \A i, j \in 1 .. n : v[i] = v[j] => i = j,
         \A s \in 0 .. n - 1 : \E i \in 1 .. n : v[i] = s
  PROVE  ListIsPermutation'
<1>1. IsList(v)'
  BY DEF IsList, Chain, NULL
<1>2. v \in [1 .. cache_size' -> 0 .. cache_size' - 1]
  OBVIOUS
<1>. QED
  BY <1>1, <1>2, Zenon DEF ListIsPermutation

LEMMA SameList ==
  ASSUME ListIsPermutation, UNCHANGED <<buffer_head, next, cache_size>>
  PROVE  ListIsPermutation'
<1>1. PICK w \in [1 .. cache_size -> 0 .. cache_size - 1] : IsList(w)
  BY Zenon DEF ListIsPermutation
<1>2. IsList(w)'
  BY <1>1 DEF IsList, Chain, NULL
<1>. QED
  BY <1>1, <1>2 DEF ListIsPermutation

(* The order after the k-th buffer of u has moved to the front. *)
Moved(u, k) ==
  [i \in 1 .. cache_size |->
     IF i = 1 THEN u[k] ELSE IF i <= k THEN u[i - 1] ELSE u[i]]

LEMMA MovedOrder ==
  ASSUME CacheInv, NEW u \in Orders, IsList(u), NEW k \in 1 .. cache_size
  PROVE  /\ Moved(u, k) \in Orders
         /\ \A i, j \in 1 .. cache_size : Moved(u, k)[i] = Moved(u, k)[j] => i = j
         /\ \A s \in 0 .. cache_size - 1 : \E i \in 1 .. cache_size : Moved(u, k)[i] = s
<1> DEFINE n == cache_size
           v == Moved(u, k)
           from(i) == IF i = 1 THEN k ELSE IF i <= k THEN i - 1 ELSE i
<1>1. n \in Nat /\ k \in 1 .. n /\ u \in [1 .. n -> 0 .. n - 1]
  BY BlockCacheAssumption DEF CacheInv, Orders
<1>2. /\ \A i, j \in 1 .. n : u[i] = u[j] => i = j
      /\ \A s \in 0 .. n - 1 : \E i \in 1 .. n : u[i] = s
  BY DEF IsList
<1>3. v = [i \in 1 .. n |-> IF i = 1 THEN u[k] ELSE IF i <= k THEN u[i - 1] ELSE u[i]]
  BY DEF Moved
<1> HIDE DEF n, v
<1>4. \A i \in 1 .. n : from(i) \in 1 .. n /\ v[i] = u[from(i)]
  BY <1>1, <1>3
<1>5. \A i, j \in 1 .. n : from(i) = from(j) => i = j
  BY <1>1
<1>6. \A j \in 1 .. n : \E i \in 1 .. n : from(i) = j
  <2>1. TAKE j \in 1 .. n
  <2>2. CASE j = k
    BY <1>1, <2>2
  <2>3. CASE j < k
    <3>1. j + 1 \in 1 .. n /\ from(j + 1) = j
      BY <1>1, <2>3
    <3>. QED
      BY <3>1
  <2>4. CASE j > k
    <3>1. from(j) = j
      BY <1>1, <2>4
    <3>. QED
      BY <3>1
  <2>. QED
    BY <1>1, <2>2, <2>3, <2>4
<1> HIDE DEF from
<1>7. v \in [1 .. n -> 0 .. n - 1]
  BY <1>1, <1>3
<1>8. \A i, j \in 1 .. n : v[i] = v[j] => i = j
  BY <1>2, <1>4, <1>5
<1>9. \A s \in 0 .. n - 1 : \E i \in 1 .. n : v[i] = s
  BY <1>2, <1>4, <1>6
<1>. QED
  BY <1>7, <1>8, <1>9 DEF n, v, Orders

(* The stores that unlink the k-th buffer and put it in front: they change *)
(* its next pointer, that of its predecessor and buffer_head, and from     *)
(* there the pointers follow the moved order to NULL.                      *)
LEMMA MoveKeepsList ==
  ASSUME CacheInv, NEW u \in Orders, IsList(u), NEW k \in 2 .. cache_size,
         next' \in [Buffers -> Buffers \cup {NULL}],
         next'[u[k]] = buffer_head, next'[u[k - 1]] = next[u[k]],
         \A s \in Buffers : s \notin {u[k], u[k - 1]} => next'[s] = next[s],
         buffer_head' = u[k], cache_size' = cache_size
  PROVE  ListIsPermutation'
<1> DEFINE n == cache_size
           v == Moved(u, k)
<1>1. n \in Nat /\ k \in 2 .. n /\ k \in 1 .. n /\ u \in [1 .. n -> 0 .. n - 1] /\ n # 0
  BY BlockCacheAssumption DEF CacheInv, Orders
<1>2. /\ buffer_head = u[1]
      /\ \A i \in 1 .. n - 1 : next[u[i]] = u[i + 1]
      /\ next[u[n]] = NULL
      /\ \A i \in 1 .. n : u[i] \in Buffers
  BY <1>1, ListFacts, Zenon
<1>3. \A i, j \in 1 .. n : u[i] = u[j] => i = j
  BY DEF IsList
<1>4. /\ v \in Orders
      /\ \A i, j \in 1 .. n : v[i] = v[j] => i = j
      /\ \A s \in 0 .. n - 1 : \E i \in 1 .. n : v[i] = s
  BY <1>1, MovedOrder, Zenon
<1>5. v = [i \in 1 .. n |-> IF i = 1 THEN u[k] ELSE IF i <= k THEN u[i - 1] ELSE u[i]]
  BY DEF Moved
<1>6. \A i \in 1 .. n : i \notin {k, k - 1} => next'[u[i]] = next[u[i]]
  <2>1. TAKE i \in 1 .. n
  <2>2. k - 1 \in 1 .. n
    BY <1>1
  <2>. QED
    BY <1>1, <1>2, <1>3, <2>2
<1> HIDE DEF n, v
<1>7. ASSUME NEW i \in 1 .. n - 1 PROVE next'[v[i]] = v[i + 1]
  <2>0. i \in 1 .. n /\ i + 1 \in 1 .. n
    BY <1>1
  <2>1. CASE i = 1
    <3>1. v[i] = u[k] /\ v[i + 1] = u[1]
      BY <1>1, <1>5, <2>0, <2>1
    <3>. QED
      BY <3>1, <1>2
  <2>2. CASE i # 1 /\ i < k
    <3>1. v[i] = u[i - 1] /\ v[i + 1] = u[i] /\ i - 1 \in 1 .. n - 1 /\ i - 1 + 1 = i
      BY <1>1, <1>5, <2>0, <2>2
    <3>2. i - 1 \in 1 .. n /\ i - 1 \notin {k, k - 1}
      BY <1>1, <2>0, <2>2
    <3>. QED
      BY <3>1, <3>2, <1>2, <1>6
  <2>3. CASE i = k
    <3>1. v[i] = u[k - 1] /\ v[i + 1] = u[k + 1] /\ k \in 1 .. n - 1
      BY <1>1, <1>5, <2>0, <2>3
    <3>. QED
      BY <3>1, <1>2
  <2>4. CASE i > k
    <3>1. v[i] = u[i] /\ v[i + 1] = u[i + 1] /\ i \notin {k, k - 1}
      BY <1>1, <1>5, <2>0, <2>4
    <3>. QED
      BY <3>1, <2>0, <1>2, <1>6
  <2>. QED
    BY <1>1, <2>0, <2>1, <2>2, <2>3, <2>4
<1>8. next'[v[n]] = NULL
  <2>1. CASE k = n
    <3>1. v[n] = u[k - 1]
      BY <1>1, <1>5, <2>1
    <3>. QED
      BY <3>1, <1>2, <2>1
  <2>2. CASE k # n
    <3>1. v[n] = u[n] /\ n \in 1 .. n /\ n \notin {k, k - 1}
      BY <1>1, <1>5, <2>2
    <3>. QED
      BY <3>1, <1>2, <1>6
  <2>. QED
    BY <2>1, <2>2
<1>9. v[1] = u[k]
  BY <1>1, <1>5
<1>10. v \in [1 .. n -> 0 .. n - 1] /\ cache_size' = n /\ n \in Nat \ {0} /\ buffer_head' = v[1]
  BY <1>1, <1>4, <1>9, Zenon DEF Orders, n
<1>11. /\ \A i \in 1 .. n - 1 : next'[v[i]] = v[i + 1]
       /\ next'[v[n]] = NULL
       /\ \A i, j \in 1 .. n : v[i] = v[j] => i = j
       /\ \A s \in 0 .. n - 1 : \E i \in 1 .. n : v[i] = s
  BY <1>4, <1>7, <1>8, Zenon
<1>. QED
  BY <1>10, <1>11, NewList, Zenon

(* The stores of a miss: the first unused buffer goes in front. *)
LEMMA PushKeepsList ==
  ASSUME CacheInv, cache_size < CACHE_BLOCKS,
         next' = [next EXCEPT ![cache_size] = buffer_head],
         buffer_head' = cache_size, cache_size' = cache_size + 1
  PROVE  ListIsPermutation'
<1> DEFINE n == cache_size
<1>1. PICK u \in Orders : IsList(u)
  BY DEF CacheInv, ListIsPermutation, Orders
<1> DEFINE v == [i \in 1 .. n + 1 |-> IF i = 1 THEN n ELSE u[i - 1]]
<1>2. n \in Nat /\ u \in [1 .. n -> 0 .. n - 1] /\ n \in Buffers
  BY BlockCacheAssumption DEF CacheInv, Orders, Buffers
<1>3. /\ \A i, j \in 1 .. n : u[i] = u[j] => i = j
      /\ \A t \in 0 .. n - 1 : \E i \in 1 .. n : u[i] = t
  BY <1>1 DEF IsList
<1>4. n # 0 => /\ buffer_head = u[1]
               /\ \A i \in 1 .. n - 1 : next[u[i]] = u[i + 1]
               /\ next[u[n]] = NULL
               /\ \A i \in 1 .. n : u[i] \in Buffers /\ u[i] \in 0 .. n - 1
  BY <1>1, ListFacts
<1>5. n = 0 => buffer_head = NULL
  BY <1>1 DEF IsList
<1>6. /\ next'[n] = buffer_head
      /\ \A s \in Buffers : s # n => next'[s] = next[s]
  BY <1>2 DEF CacheInv
<1>7. buffer_head' = n /\ cache_size' = n + 1
  OBVIOUS
<1> HIDE DEF n
<1>8. /\ v[1] = n
      /\ \A i \in 1 .. n : v[i + 1] = u[i]
      /\ \A i \in 1 .. n + 1 : i # 1 => i - 1 \in 1 .. n /\ v[i] = u[i - 1]
  BY <1>2
<1>9. v \in [1 .. n + 1 -> 0 .. n]
  BY <1>2
<1> HIDE DEF v
<1>10. ASSUME NEW i \in 1 .. n PROVE next'[v[i]] = v[i + 1]
  <2>1. CASE i = 1
    <3>1. n # 0 /\ v[i + 1] = u[1]
      BY <1>2, <1>8, <2>1
    <3>. QED
      BY <3>1, <1>4, <1>6, <1>8, <2>1
  <2>2. CASE i # 1
    <3>1. /\ n # 0 /\ i - 1 \in 1 .. n - 1 /\ i - 1 \in 1 .. n /\ i - 1 + 1 = i
          /\ v[i] = u[i - 1] /\ v[i + 1] = u[i]
      BY <1>2, <1>8, <2>2
    <3>2. u[i - 1] \in Buffers /\ u[i - 1] # n
      BY <1>2, <1>4, <3>1
    <3>. QED
      BY <3>1, <3>2, <1>4, <1>6
  <2>. QED
    BY <2>1, <2>2
<1>11. next'[v[n + 1]] = NULL
  <2>1. CASE n = 0
    BY <1>5, <1>6, <1>8, <2>1
  <2>2. CASE n # 0
    <3>1. v[n + 1] = u[n] /\ n \in 1 .. n
      BY <1>2, <1>8, <2>2
    <3>2. u[n] \in Buffers /\ u[n] # n
      BY <1>2, <1>4, <2>2, <3>1
    <3>. QED
      BY <3>1, <3>2, <1>4, <1>6, <2>2
  <2>. QED
    BY <2>1, <2>2
<1>12. ASSUME NEW i \in 1 .. n + 1, NEW j \in 1 .. n + 1, v[i] = v[j] PROVE i = j
  <2>1. \A m \in 1 .. n + 1 : m # 1 => v[m] # n
    BY <1>2, <1>8
  <2>2. CASE i = 1 \/ j = 1
    BY <1>8, <1>12, <2>1, <2>2
  <2>3. CASE i # 1 /\ j # 1
    <3>1. i - 1 \in 1 .. n /\ j - 1 \in 1 .. n /\ u[i - 1] = u[j - 1]
      BY <1>8, <1>12, <2>3
    <3>2. i - 1 = j - 1
      BY <1>3, <3>1
    <3>. QED
      BY <3>2
  <2>. QED
    BY <2>2, <2>3
<1>13. ASSUME NEW t \in 0 .. n PROVE \E i \in 1 .. n + 1 : v[i] = t
  <2>1. CASE t = n
    <3>1. 1 \in 1 .. n + 1
      BY <1>2
    <3>. QED
      BY <1>8, <2>1, <3>1
  <2>2. CASE t # n
    <3>1. PICK i \in 1 .. n : u[i] = t
      BY <1>2, <1>3, <2>2
    <3>2. i + 1 \in 1 .. n + 1 /\ v[i + 1] = t
      BY <1>2, <1>8, <3>1
    <3>. QED
      BY <3>2
  <2>. QED
    BY <2>1, <2>2
<1> DEFINE m == n + 1
<1>14. /\ m \in Nat \ {0} /\ m - 1 = n /\ cache_size' = m /\ buffer_head' = v[1]
       /\ v \in [1 .. m -> 0 .. m - 1]
  BY <1>2, <1>7, <1>8, <1>9
<1>15. /\ \A i \in 1 .. m - 1 : next'[v[i]] = v[i + 1]
       /\ next'[v[m]] = NULL
       /\ \A i, j \in 1 .. m : v[i] = v[j] => i = j
       /\ \A t \in 0 .. m - 1 : \E i \in 1 .. m : v[i] = t
  BY <1>10, <1>11, <1>12, <1>13, <1>14, Zenon
<1> HIDE DEF m
<1>. QED
  BY <1>14, <1>15, NewList, Zenon

(* A search that ends without a match has seen every buffer in use. *)
LEMMA SearchSeesAll ==
  ASSUME CacheInv, NEW b, NEW u \in Orders, IsList(u), NEW k \in 1 .. CACHE_BLOCKS,
         NEW w \in [1 .. k -> Buffers], Search(b, k, w), ~Match(b, w[k])
  PROVE  /\ k = cache_size
         /\ \A t \in 0 .. cache_size - 1 : buf[t].block_id # b
<1>1. k <= cache_size /\ (\A i \in 1 .. k : w[i] = u[i]) /\ next[w[k]] = NULL
  BY WalkIsPrefix DEF Search
<1>2. cache_size \in Nat /\ k \in Nat /\ k >= 1 /\ cache_size # 0
  BY <1>1, BlockCacheAssumption DEF CacheInv
<1>3. /\ \A i \in 1 .. cache_size - 1 : next[u[i]] = u[i + 1]
      /\ \A i \in 1 .. cache_size : u[i] \in Buffers
  BY <1>2, ListFacts
<1>4. k = cache_size
  <2>1. SUFFICES ASSUME k # cache_size PROVE FALSE
    OBVIOUS
  <2>2. k \in 1 .. cache_size - 1 /\ k + 1 \in 1 .. cache_size /\ k \in 1 .. k
    BY <1>1, <1>2, <2>1
  <2>3. next[u[k]] = NULL /\ next[u[k]] \in Buffers
    BY <1>1, <1>3, <2>2
  <2>. QED
    BY <2>3 DEF NULL, Buffers
<1>5. \A i \in 1 .. k : buf[w[i]].block_id # b
  <2>1. \A i \in 1 .. k : i = k \/ i \in 1 .. k - 1
    BY <1>2
  <2>. QED
    BY <2>1 DEF Search, Match
<1>6. \A t \in 0 .. cache_size - 1 : \E i \in 1 .. cache_size : u[i] = t
  BY DEF IsList
<1>. QED
  BY <1>1, <1>4, <1>5, <1>6

(* get_block_buffer: the list is a permutation again, a returned buffer is *)
(* in use, and one that was not before is the only one with that block.    *)
LEMMA GetKeepsList ==
  ASSUME CacheInv, NEW b, NEW s \in Buffers, get_block_buffer(b, s)
  PROVE  /\ cache_size' \in 0 .. CACHE_BLOCKS
         /\ next' \in [Buffers -> Buffers \cup {NULL}]
         /\ ListIsPermutation'
         /\ \/ cache_size' = cache_size /\ s < cache_size
            \/ /\ s = cache_size /\ cache_size' = cache_size + 1
               /\ \A t \in 0 .. cache_size - 1 : buf[t].block_id # b
<1>1. cache_size \in 0 .. CACHE_BLOCKS /\ CACHE_BLOCKS \in Nat \ {0, 1}
  BY BlockCacheAssumption DEF CacheInv
<1>2. PICK u \in Orders : IsList(u)
  BY DEF CacheInv, ListIsPermutation, Orders
<1>3. /\ u \in [1 .. cache_size -> 0 .. cache_size - 1]
      /\ next \in [Buffers -> Buffers \cup {NULL}]
      /\ \A i, j \in 1 .. cache_size : u[i] = u[j] => i = j
  BY <1>2 DEF CacheInv, Orders, IsList
<1>4. CASE Hit(b, s)
  <2>1. PICK k \in 1 .. CACHE_BLOCKS : \E w \in [1 .. k -> Buffers] :
          /\ Search(b, k, w) /\ s = w[k] /\ cache_size' = cache_size
          /\ next' = IF k = 1 THEN next ELSE Unlink(w[k - 1], s)
          /\ buffer_head' = s
    BY <1>4 DEF Hit
  <2>2. PICK w \in [1 .. k -> Buffers] :
          /\ Search(b, k, w) /\ s = w[k] /\ cache_size' = cache_size
          /\ next' = IF k = 1 THEN next ELSE Unlink(w[k - 1], s)
          /\ buffer_head' = s
    BY <2>1
  <2>3. k <= cache_size /\ \A i \in 1 .. k : w[i] = u[i]
    BY <1>2, <2>2, WalkIsPrefix DEF Search
  <2>4. s = u[k] /\ k \in 1 .. cache_size /\ s < cache_size /\ cache_size # 0
    BY <1>1, <1>3, <2>2, <2>3
  <2>5. buffer_head = u[1] /\ \A i \in 1 .. cache_size : u[i] \in Buffers
    BY <1>2, <2>4, ListFacts
  <2>6. CASE k = 1
    <3>1. next' = next /\ buffer_head' = buffer_head
      BY <2>2, <2>4, <2>5, <2>6
    <3>2. ListIsPermutation'
      BY <2>2, <3>1, SameList, Zenon DEF CacheInv
    <3>. QED
      BY <1>1, <1>3, <2>2, <2>4, <3>1, <3>2
  <2>7. CASE k # 1
    <3>1. k \in 2 .. cache_size /\ k - 1 \in 1 .. k /\ k - 1 \in 1 .. cache_size
      BY <1>1, <2>4, <2>7
    <3>2. /\ w[k - 1] = u[k - 1] /\ u[k - 1] \in Buffers /\ u[k] \in Buffers
          /\ u[k - 1] # u[k] /\ buffer_head \in Buffers
      BY <1>1, <1>3, <2>3, <2>4, <2>5, <3>1
    <3>3. next' = [next EXCEPT ![u[k - 1]] = next[u[k]], ![u[k]] = buffer_head]
      BY <2>2, <2>4, <2>7, <3>2 DEF Unlink
    <3>4. /\ next' \in [Buffers -> Buffers \cup {NULL}]
          /\ next'[u[k]] = buffer_head /\ next'[u[k - 1]] = next[u[k]]
          /\ \A t \in Buffers : t \notin {u[k], u[k - 1]} => next'[t] = next[t]
      BY <1>3, <3>2, <3>3
    <3>5. ListIsPermutation'
      BY <1>2, <2>2, <2>4, <3>1, <3>4, MoveKeepsList
    <3>. QED
      BY <1>1, <2>2, <2>4, <3>4, <3>5
  <2>. QED
    BY <2>6, <2>7
<1>5. CASE Evict(b, s)
  <2>1. PICK k \in 2 .. CACHE_BLOCKS : \E w \in [1 .. k -> Buffers] :
          /\ Search(b, k, w) /\ s = w[k] /\ ~Match(b, s) /\ cache_size' = cache_size
          /\ next' = [next EXCEPT ![s] = buffer_head, ![w[k - 1]] = NULL]
          /\ buffer_head' = s
    BY <1>5, Zenon DEF Evict
  <2>2. PICK w \in [1 .. k -> Buffers] :
          /\ Search(b, k, w) /\ s = w[k] /\ ~Match(b, s) /\ cache_size' = cache_size
          /\ next' = [next EXCEPT ![s] = buffer_head, ![w[k - 1]] = NULL]
          /\ buffer_head' = s
    BY <2>1, Zenon
  <2>3. k \in 1 .. CACHE_BLOCKS
    BY <1>1
  <2>4. k = cache_size /\ \A i \in 1 .. k : w[i] = u[i]
    <3>1. Search(b, k, w) /\ ~Match(b, w[k]) /\ Chain(k, w)
      BY <2>2, Zenon DEF Search
    <3>2. k = cache_size
      BY <1>2, <2>3, <3>1, SearchSeesAll, Zenon
    <3>3. \A i \in 1 .. k : w[i] = u[i]
      BY <1>2, <2>3, <3>1, WalkIsPrefix, Zenon
    <3>. QED
      BY <3>2, <3>3, Zenon
  <2>5. /\ s = u[k] /\ k \in 2 .. cache_size /\ k - 1 \in 1 .. cache_size /\ k \in 1 .. cache_size
        /\ cache_size # 0 /\ w[k - 1] = u[k - 1]
    BY <1>1, <2>2, <2>4
  <2>6. /\ buffer_head = u[1] /\ next[u[k]] = NULL
        /\ \A i \in 1 .. cache_size : u[i] \in Buffers /\ u[i] \in 0 .. cache_size - 1
    BY <1>2, <2>4, <2>5, ListFacts
  <2>7. u[k - 1] # u[k] /\ u[k - 1] \in Buffers /\ u[k] \in Buffers /\ buffer_head \in Buffers
    BY <1>1, <1>3, <2>5, <2>6
  <2>8. next' = [next EXCEPT ![u[k]] = buffer_head, ![u[k - 1]] = NULL]
    BY <2>2, <2>5
  <2>9. /\ next' \in [Buffers -> Buffers \cup {NULL}]
        /\ next'[u[k]] = buffer_head /\ next'[u[k - 1]] = next[u[k]]
        /\ \A t \in Buffers : t \notin {u[k], u[k - 1]} => next'[t] = next[t]
    BY <1>3, <2>6, <2>7, <2>8
  <2>10. ListIsPermutation'
    BY <1>2, <2>2, <2>5, <2>9, MoveKeepsList
  <2>11. s < cache_size
    BY <1>1, <2>5, <2>6
  <2>. QED
    BY <1>1, <2>2, <2>9, <2>10, <2>11
<1>6. CASE Miss(b, s)
  <2>1. /\ cache_size < CACHE_BLOCKS /\ s = cache_size /\ cache_size' = cache_size + 1
        /\ next' = [next EXCEPT ![cache_size] = buffer_head] /\ buffer_head' = cache_size
    BY <1>6 DEF Miss
  <2>2. ListIsPermutation'
    BY <2>1, PushKeepsList
  <2>3. buffer_head \in Buffers \cup {NULL}
    <3>1. CASE cache_size = 0
      BY <1>2, <3>1 DEF IsList
    <3>2. CASE cache_size # 0
      <4>1. 1 \in 1 .. cache_size
        BY <1>1, <3>2
      <4>. QED
        BY <1>2, <3>2, <4>1, ListFacts
    <3>. QED
      BY <3>1, <3>2
  <2>4. next' \in [Buffers -> Buffers \cup {NULL}]
    BY <1>3, <2>1, <2>3
  <2>5. \A t \in 0 .. cache_size - 1 : buf[t].block_id # b
    <3>1. CASE buffer_head = NULL
      <4>1. cache_size = 0
        <5>1. SUFFICES ASSUME cache_size # 0 PROVE FALSE
          OBVIOUS
        <5>2. 1 \in 1 .. cache_size
          BY <1>1, <5>1
        <5>3. buffer_head \in Buffers
          BY <1>2, <5>1, <5>2, ListFacts
        <5>. QED
          BY <3>1, <5>3 DEF NULL, Buffers
      <4>. QED
        BY <4>1
    <3>2. CASE \E k \in 1 .. CACHE_BLOCKS : \E w \in [1 .. k -> Buffers] :
                 Search(b, k, w) /\ ~Match(b, w[k])
      BY <1>2, <3>2, SearchSeesAll
    <3>. QED
      BY <1>6, <3>1, <3>2 DEF Miss
  <2>. QED
    BY <1>1, <2>1, <2>2, <2>4, <2>5
<1>. QED
  BY <1>4, <1>5, <1>6 DEF get_block_buffer

(* An iteration of translate_bytes leaves the block id of a used buffer    *)
(* alone, so it cannot give two buffers the same block.                    *)
LEMMA AccessInv ==
  ASSUME CacheInv, NEW b, NEW s \in Buffers, get_block_buffer(b, s), NEW h,
         DOMAIN h = Fields, h.block_id = Header(b, s).block_id,
         buf' = [buf EXCEPT ![s] = h]
  PROVE  CacheInv'
<1>1. /\ cache_size' \in 0 .. CACHE_BLOCKS
      /\ next' \in [Buffers -> Buffers \cup {NULL}]
      /\ ListIsPermutation'
      /\ \/ cache_size' = cache_size /\ s < cache_size
         \/ /\ s = cache_size /\ cache_size' = cache_size + 1
            /\ \A t \in 0 .. cache_size - 1 : buf[t].block_id # b
  BY GetKeepsList
<1>2. cache_size \in Nat /\ cache_size <= CACHE_BLOCKS /\ CACHE_BLOCKS \in Nat
  BY BlockCacheAssumption DEF CacheInv
<1>3. /\ buf'[s].block_id = Header(b, s).block_id
      /\ \A t \in Buffers : t # s => buf'[t] = buf[t]
      /\ DOMAIN buf' = Buffers /\ \A t \in Buffers : DOMAIN buf'[t] = Fields
  BY DEF CacheInv
<1>4. NoBlockCachedTwice'
  <2>1. CASE cache_size' = cache_size /\ s < cache_size
    <3>1. \A t \in Buffers : buf'[t].block_id = buf[t].block_id
      BY <1>2, <1>3, <2>1 DEF Header, Buffers
    <3>2. \A t \in 0 .. cache_size - 1 : t \in Buffers
      BY <1>2 DEF Buffers
    <3>3. \A t, u \in 0 .. cache_size - 1 : buf'[t].block_id = buf'[u].block_id => t = u
      BY <3>1, <3>2 DEF CacheInv, NoBlockCachedTwice
    <3>. QED
      BY <2>1, <3>3 DEF NoBlockCachedTwice
  <2>2. CASE s = cache_size /\ cache_size' = cache_size + 1
    <3>1. buf'[s].block_id = b
      BY <1>2, <1>3, <2>2 DEF Header, Fresh, Buffers
    <3>2. \A t \in 0 .. cache_size : t = s \/ (t \in 0 .. cache_size - 1 /\ t \in Buffers)
      BY <1>2, <2>2 DEF Buffers
    <3>3. \A t \in 0 .. cache_size - 1 : buf[t].block_id # b
      BY <1>1, <1>2, <2>2
    <3>4. \A t \in 0 .. cache_size - 1 : buf'[t] = buf[t]
      BY <1>2, <1>3, <2>2 DEF Buffers
    <3>5. \A t, u \in 0 .. cache_size : buf'[t].block_id = buf'[u].block_id => t = u
      BY <3>1, <3>2, <3>3, <3>4 DEF CacheInv, NoBlockCachedTwice
    <3>6. cache_size' - 1 = cache_size
      BY <1>2, <2>2
    <3>. QED
      BY <3>5, <3>6 DEF NoBlockCachedTwice
  <2>. QED
    BY <1>1, <2>1, <2>2
<1>. QED
  BY <1>1, <1>3, <1>4 DEF CacheInv

LEMMA CacheNext == CacheInv /\ [Next]_vars => CacheInv'
<1> SUFFICES ASSUME CacheInv, [Next]_vars PROVE CacheInv'
  OBVIOUS
<1>1. CASE UNCHANGED <<buf, buffer_head, next, cache_size>>
  <2>1. ListIsPermutation'
    BY <1>1, SameList, Zenon DEF CacheInv
  <2>. QED
    BY <1>1, <2>1 DEF CacheInv, NoBlockCachedTwice
<1>2. \A s \in Buffers : DOMAIN Header(op.block_id, s) = Fields
  BY DEF Header, Fresh, CacheInv, Fields
<1>3. CASE WriteBlock
  <2>1. PICK s \in Buffers, ok \in Answers :
          /\ get_block_buffer(op.block_id, s)
          /\ LET h    == Header(op.block_id, s)
                 need == NeedForWrite(h)
             IN  buf' = [buf EXCEPT ![s] = [h EXCEPT !.valid = @ \/ (need /\ ok),
                                                     !.dirty = TRUE]]
    BY <1>3, Zenon DEF WriteBlock
  <2> DEFINE h == Header(op.block_id, s)
             g == [h EXCEPT !.valid = @ \/ (NeedForWrite(h) /\ ok), !.dirty = TRUE]
  <2>2. DOMAIN g = Fields /\ g.block_id = h.block_id
    BY <1>2 DEF Fields
  <2>3. buf' = [buf EXCEPT ![s] = g]
    BY <2>1
  <2> HIDE DEF g
  <2>. QED
    BY <2>1, <2>2, <2>3, AccessInv, Zenon
<1>4. CASE ReadBlock
  <2>1. PICK s \in Buffers, ok \in Answers :
          /\ get_block_buffer(op.block_id, s)
          /\ LET h == Header(op.block_id, s)
             IN  buf' = [buf EXCEPT ![s] = [h EXCEPT !.valid = @ \/ ok]]
    BY <1>4, Zenon DEF ReadBlock
  <2> DEFINE h == Header(op.block_id, s)
             g == [h EXCEPT !.valid = @ \/ ok]
  <2>2. DOMAIN g = Fields /\ g.block_id = h.block_id
    BY <1>2 DEF Fields
  <2>3. buf' = [buf EXCEPT ![s] = g]
    BY <2>1
  <2> HIDE DEF g
  <2>. QED
    BY <2>1, <2>2, <2>3, AccessInv, Zenon
<1>. QED
  BY <1>1, <1>3, <1>4
     DEF Next, vars, read_bytes, write_bytes, Begin, Return, sync_filesystem, Off

(* The splices of get_block_buffer (block_device.c) neither lose nor       *)
(* repeat a buffer, however long the list is.                              *)
THEOREM ListStaysPermutation == Spec => []ListIsPermutation
<1>1. CacheInv => ListIsPermutation
  BY DEF CacheInv
<1>. QED
  BY <1>1, CacheInit, CacheNext, PTL DEF Spec

(* No two buffers of the list carry the same block, so the search of       *)
(* get_block_buffer (block_device.c) has at most one match.                *)
THEOREM BlocksCachedOnce == Spec => []NoBlockCachedTwice
<1>1. CacheInv => NoBlockCachedTwice
  BY DEF CacheInv
<1>. QED
  BY <1>1, CacheInit, CacheNext, PTL DEF Spec
==============================================================================
